\* Texts of up to five lines behind the columns; a schema for each of four builds.
CONSTANTS
    Texts <- MCTexts
    Versions = {1, 2, 4, 5}
    MaxSchemas = 1
    MaxLines = 5
SPECIFICATION Spec
INVARIANTS ColumnsResolve TextRead SchemaOfBuild GeneratedSchema
\* read() ends, and a caller may stop asking for schemas.
CHECK_DEADLOCK FALSE
