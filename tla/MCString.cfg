\* Files of up to two and a half chunks; starts up to one byte behind the end.
CONSTANTS
    Contents <- MCContents
    MaxLength = 7
    MaxStart = 8
    Chunk = 3
    Modulus = 256
SPECIFICATION Spec
INVARIANTS StringRead ThrowsBehindEnd
PROPERTY Returns
\* The function ends.
CHECK_DEADLOCK FALSE
