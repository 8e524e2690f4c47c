------------------------------ MODULE FieldBits ------------------------------
(***************************************************************************)
(* getRecordFieldValue and getBitpackedValue of DB2LoaderStandard          *)
(* (DB2File.hpp:338-412): the value of a field in the bytes of a record.   *)
(*                                                                         *)
(* Bytes are their bits, lowest first: buff[p] is the p-th bit of the      *)
(* buffer and of the bytes behind it, which an eight-byte read may touch.  *)
(* A byte has ByteBits bits, so that a run can have short integers.  What  *)
(* number the bits of a float stand for is left to FloatOf.                *)
(***************************************************************************)
EXTENDS Integers, Sequences

CONSTANTS
    ByteBits,    \* bits of a byte: 8 in the code
    FloatOf(_)   \* the number a float is, by its four bytes

ASSUME ByteBitsAssumption == ByteBits \in Nat \ {0}

\* The numbers of so many bits, by doubling: a proof can follow it.
TwoTo(bits) ==
    LET power[k \in 0..bits] == IF k = 0 THEN 1 ELSE 2 * power[k - 1]
    IN  power[bits]

WordBits == 8 * ByteBits     \* of a uint64_t

Word == 0..WordBits - 1

LoadWord(buff, byte) == [i \in Word |-> buff[byte * ByteBits + i]]

Shl(w, n) == [i \in Word |-> IF i >= n THEN w[i - n] ELSE 0]

Shr(w, n) == [i \in Word |-> IF i + n < WordBits THEN w[i + n] ELSE 0]

\* A value lies within eight bytes from the byte it starts in, and has a bit:
\* behind that the shifts of getBitpackedValue are undefined.
Shiftable(bit_offset, width) ==
    width \in 1..WordBits /\ (bit_offset % ByteBits) + width <= WordBits

\* Mutant: the bits in front of the value in its first byte are not counted.
AlignedBits(buff, byte, bit_offset, width) ==
    Shr(Shl(LoadWord(buff, byte + bit_offset \div ByteBits), WordBits - width), WordBits - width)

\* getBitpackedValue, for the data that starts at `byte' of the record.
BitpackedBits(buff, byte, bit_offset, width) ==
    Shr(Shl(LoadWord(buff, byte + bit_offset \div ByteBits),
            WordBits - (bit_offset % ByteBits) - width),
        WordBits - width)
-----------------------------------------------------------------------------
\* The number the lowest n bits of a word are.
Number(w, n) ==
    LET sum[k \in 0..n] == IF k = 0 THEN 0 ELSE sum[k - 1] + w[k - 1] * TwoTo(k - 1)
    IN  sum[n]

\* uint8_t to uint64_t count modulo this.
Span(bytes) == TwoTo(bytes * ByteBits)

Packed(buff, start, info) ==
    Number(BitpackedBits(buff, start, info.bit_offset, info.bit_width), WordBits)

\* The exclusive or of a number with one bit.
Flip(n, bit) == IF (n \div bit) % 2 = 1 THEN n - bit ELSE n + bit

\* (value ^ mask) - mask, in the type of the field.
SignExtend(n, width, bytes) == (Flip(n, TwoTo(width - 1)) - TwoTo(width - 1)) % Span(bytes)

\* The bits a field takes in one of the numbers of a record, by the type
\* that schemaFieldHandler has for it; strings are read by their references.
TypeBytes(field) == IF field.type = "INT" THEN field.bytes ELSE 4

\* schemaFieldHandler has integers of these sizes, and throws for others.
IntegerSizes == {1, 2, 4, 8}

Handled(field) == field.type = "INT" => field.bytes \in IntegerSizes

\* A value of a field from its bytes, and from a number.
FromBytes(field, n) == IF field.type = "FLOAT" THEN FloatOf(n) ELSE n

FromNumber(field, n) == IF field.type = "FLOAT" THEN n ELSE n % Span(TypeBytes(field))

\* Arrays lie one behind another in the pallet data.
PalletArray(info, index, z) == info.pallet[index * info.array_size + z + 1]

\* Value z of an array field, or 0 for a plain one; `start' is
\* bitpacked_data_offset.  Common data is a map of its own, see DB2Rows.
FieldValue(field, info, buff, start, z) ==
    CASE info.compression = "None" ->
            FromBytes(field, Number(LoadWord(buff, info.field_offset_bits \div ByteBits
                                                   + TypeBytes(field) * z),
                                    TypeBytes(field) * ByteBits))
      [] info.compression = "Bitpacked" ->
            FromNumber(field, Packed(buff, start, info))
      [] info.compression = "BitpackedIndexed" ->
            FromNumber(field, info.pallet[Packed(buff, start, info) + 1])
      [] info.compression = "BitpackedIndexedArray" ->
            FromNumber(field, PalletArray(info, Packed(buff, start, info), z))
      [] info.compression = "BitpackedSigned" ->
            FromBytes(field, SignExtend(Packed(buff, start, info) % Span(TypeBytes(field)),
                                        info.bit_width, TypeBytes(field)))
=============================================================================
