\* Records of one field of one or two values, in bytes of two bits.
CONSTANTS
    Families <- MCSingle
    MaxLines = 3
    MaxArchives = 3
    ShortSpan = 16
    LongSpan = 10000
    Expansion = 20
    Patch = 60
    WowUpdate = 90
    SourceKinds = {"memory", "native", "mpq", "casc"}
    FileSizes <- MCFileSizes
    MaxFailures = 1
    Anywhere = Anywhere
    ByteBits = 2
    FloatOf <- MCFloatOf
SPECIFICATION Spec
INVARIANT RefusedIsTooLarge
\* A program ends.
CHECK_DEADLOCK FALSE
