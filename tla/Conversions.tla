----------------------------- MODULE Conversions -----------------------------
(***************************************************************************)
(* val_read of record_accessor::get (Schema.hpp:419-470): a value of a     *)
(* record is given in the type the caller asks for, or refused.            *)
(*                                                                         *)
(* An integer is the number its bytes are without a sign; the annotation   *)
(* of its field says whether they have one.  Floats are whole numbers:     *)
(* fractions, rounding and the largest float are left out.                 *)
(***************************************************************************)
EXTENDS FieldBits

Kinds == {"int", "float", "string"}

\* Types a caller may ask for; `count' is the size of a std::array, or 0.
Dest == [kind : Kinds \union {"enum"}, bytes : Nat \ {0}, signed : BOOLEAN, count : Nat]

\* static_cast to the signed integer of the same size.
Signed(n, bytes) == IF n >= Span(bytes) \div 2 THEN n - Span(bytes) ELSE n

\* static_cast of a number to an integer type.
WrapTo(n, dest) ==
    IF dest.signed THEN Signed(n % Span(dest.bytes), dest.bytes) ELSE n % Span(dest.bytes)

MaxOf(dest) == IF dest.signed THEN (Span(dest.bytes) \div 2) - 1 ELSE Span(dest.bytes) - 1

MinOf(dest) == IF dest.signed THEN -(Span(dest.bytes) \div 2) ELSE 0

\* A limit as it is compared with a value of that type: integers shorter than
\* an int become one, and a longer unsigned one makes the limit unsigned.
Limit(limit, bytes, signed) ==
    IF ~signed /\ bytes >= 4 THEN limit % Span(bytes) ELSE limit

\* Mutant: no bounds are checked.
NeverExceeds(n, value, signed, dest) == FALSE

\* bounds_check of the number n, read from a value of that sign.  A float's
\* numeric_limits::min() is the smallest number above 0.
Exceeds(n, value, signed, dest) ==
    /\ dest.bytes < value.bytes
    /\ IF dest.kind = "float" THEN n <= 0
       ELSE IF value.kind = "float" THEN n > MaxOf(dest) \/ n < MinOf(dest)
       ELSE \/ n > Limit(MaxOf(dest), value.bytes, signed)
            \/ n < Limit(MinOf(dest), value.bytes, signed)

Given(n) == [ok |-> TRUE, n |-> n]

Refused(why) == [ok |-> FALSE, why |-> why]

\* is_signed_v holds for floats, and for no enum.
TakesSign(value, field, dest) ==
    /\ value.kind = "int" /\ dest.bytes # value.bytes
    /\ dest.kind # "enum" /\ dest.signed
    /\ field.signed

\* std::is_convertible_v<val_t, temp_t>.
Convertible(value, dest) == (value.kind = "string") <=> (dest.kind = "string")

\* A cast of a float to an integer that cannot hold it is undefined.
Cast(n, value, dest) ==
    CASE dest.kind \in {"float", "string"} -> Given(n)
      [] value.kind = "float" /\ dest.kind \in {"int", "enum"}
            /\ n \notin MinOf(dest)..MaxOf(dest) -> Refused("undefined")
      [] OTHER -> Given(WrapTo(n, dest))

ValRead(value, field, dest) ==
    LET sign == TakesSign(value, field, dest)
        n    == IF sign THEN Signed(value.n, value.bytes) ELSE value.n
    IN  CASE ~Convertible(value, dest) -> Refused("type")
          [] Convertible(value, dest) /\ value.kind # "string" /\ Exceeds(n, value, sign, dest) ->
                Refused("overflow")
          [] OTHER -> Cast(n, value, dest)
-----------------------------------------------------------------------------
\* The number a field's value stands for, for a caller that asks for `dest':
\* a field without a sign, or one asked for without, has the number of its bits.
Meant(value, field, dest) ==
    IF value.kind = "int" /\ field.signed /\ dest.signed /\ dest.kind \in {"int", "float"}
    THEN Signed(value.n, value.bytes) ELSE value.n

Fits(n, dest) == dest.kind \in {"float", "string"} \/ n \in MinOf(dest)..MaxOf(dest)

\* A value read as asked: integers of one size share their bits (the tests
\* read 255 as -1), and everything else keeps its number.
ReadAs(n, value, field, dest) ==
    \/ value.kind = "int" /\ dest.kind \in {"int", "enum"} /\ dest.bytes = value.bytes
       /\ n % Span(dest.bytes) = value.n
    \/ n = Meant(value, field, dest) /\ Fits(n, dest)

\* A signed integer asked for as a float of its own size: val_read looks at the
\* sign only between types of two sizes (Schema.hpp:446), so -1 is read as
\* 4294967295.  ReadAs does not hold there.
SignLost(value, field, dest) ==
    value.kind = "int" /\ field.signed /\ dest.kind = "float" /\ dest.bytes = value.bytes

\* What the code promises of n: the number as asked, or where the sign is lost
\* the number of the bits.
ReadOrUnsigned(n, value, field, dest) ==
    IF SignLost(value, field, dest) THEN n = value.n ELSE ReadAs(n, value, field, dest)
=============================================================================
