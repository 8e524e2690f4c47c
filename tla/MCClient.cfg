\* Directories with .build.info files of up to three lines, up to three archives
\* of twelve, every way a file can fail to open; fields of all sizes and
\* compressions in bytes of two bits; every conversion at its limits.
CONSTANTS
    Families <- MCFamilies
    MaxLines = 3
    MaxArchives = 3
    ShortSpan = 16
    LongSpan = 10000
    Expansion = 20
    Patch = 60
    WowUpdate = 90
    SourceKinds = {"memory", "native", "mpq", "casc"}
    FileSizes <- MCFileSizes
    MaxFailures = 1
    Anywhere = Anywhere
    ByteBits = 2
    FloatOf <- MCFloatOf
SPECIFICATION Spec
INVARIANTS ClientTypeOK DetectedRight OpenedOverrides OpensTable Decoded GivesItsField UndefinedOnly  GetMatches
PROPERTIES ImplementsFileSource
\* A program ends.
CHECK_DEADLOCK FALSE
