\* A client of each of the five versions whose format a test names.
CONSTANTS
    Families <- MCTested
    MaxLines = 3
    MaxArchives = 3
    ShortSpan = 256
    LongSpan = 65536
    Expansion = 20
    Patch = 60
    WowUpdate = 90
    SourceKinds = {"memory", "native", "mpq", "casc"}
    FileSizes <- MCFileSizes
    MaxFailures = 1
    Anywhere = Anywhere
    ByteBits = 2
    FloatOf <- MCFloatOf
SPECIFICATION Spec
INVARIANT FormatOfVersion
\* A program ends.
CHECK_DEADLOCK FALSE
