\* Files of up to five signatures, read past their ends; no library fails.
CONSTANTS
    Families <- MCStored
    MaxLines = 3
    MaxArchives = 3
    ShortSpan = 16
    LongSpan = 10000
    Expansion = 20
    Patch = 60
    WowUpdate = 90
    SourceKinds = {"memory", "native", "mpq", "casc"}
    FileSizes <- MCFileSizes
    MaxFailures = 0
    Anywhere = Anywhere
    ByteBits = 2
    FloatOf <- MCFloatOf
SPECIFICATION Spec
INVARIANT AllOrNothing
\* A program ends.
CHECK_DEADLOCK FALSE
