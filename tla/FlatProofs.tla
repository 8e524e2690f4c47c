----------------------------- MODULE FlatProofs -----------------------------
(***************************************************************************)
(* The walk over a record of a flat table stays inside it and gives what   *)
(* the layout of the file has for its row, for every schema, format and    *)
(* version, whatever the bytes say.  WalkInv says where the walk is: the   *)
(* sizes of the fields before the current one, and of the elements of it   *)
(* that were read, lie behind both offsets.  RowInv says what it has: the  *)
(* parts of the row before that place, each where the layout has it.       *)
(***************************************************************************)
EXTENDS FlatFile, LeastElement, SequenceTheorems, TLAPS

LEMMA TableFacts ==
    ASSUME table \in Tables
    PROVE  /\ schema \in Seq(Field) /\ Len(schema) \in Nat
           /\ \A k \in 1..Len(schema) : schema[k] \in Field
           /\ header.recordCount \in Nat /\ header.recordSize \in Nat
           /\ header.minId \in Nat /\ header.maxId \in Nat
           /\ table.legacy \in BOOLEAN /\ table.length \in Nat
<1>1. table \in TableShape
  BY TablesAssumption
<1>2. schema \in Seq(Field)
  BY <1>1 DEF TableShape, schema
<1>3. header \in [signature : Formats \union {"other"}, recordCount : Nat, fieldCount : Nat,
                  recordSize : Nat, minId : Nat, maxId : Nat]
  BY <1>1 DEF TableShape, header
<1>4. table.legacy \in BOOLEAN /\ table.length \in Nat
  BY <1>1 DEF TableShape
<1> QED
  BY <1>2, <1>3, <1>4

LEMMA ElementFacts ==
    ASSUME NEW f \in Field, NEW str \in Nat
    PROVE  /\ f.size \in Nat /\ f.size >= 1 /\ f.bytes \in Nat
           /\ ElementSize(f, str) \in Nat /\ ElementSize(f, str) * f.size \in Nat
<1>1. f.size \in Nat /\ f.size >= 1 /\ f.bytes \in Nat
  BY DEF Field
<1>2. LangStrings \in Nat
  BY DEF LangStrings
<1>3. LangStrings * str + 4 \in Nat
  BY <1>2
<1>4. ElementSize(f, str) \in Nat
  BY <1>1, <1>3 DEF ElementSize
<1> QED
  BY <1>1, <1>4

(* recordSize adds up the sizes of the fields.                             *)
LEMMA SizesFacts ==
    ASSUME table \in Tables, NEW str \in Nat
    PROVE  /\ SizesUpTo(str)[0] = 0
           /\ \A k \in 1..Len(schema) :
                SizesUpTo(str)[k] = SizesUpTo(str)[k - 1] + ElementSize(schema[k], str) * schema[k].size
           /\ \A k \in 0..Len(schema) :
                SizesUpTo(str)[k] \in Nat /\ SizesUpTo(str)[k] <= RecordSize(str)
<1> DEFINE n == Len(schema)
           e == [k \in 1..n |-> ElementSize(schema[k], str) * schema[k].size]
           IsSum(g) == g = [k \in 0..n |-> IF k = 0 THEN 0
                              ELSE g[k - 1] + ElementSize(schema[k], str) * schema[k].size]
           S == SizesUpTo(str)
<1>1. n \in Nat /\ \A k \in 1..n : e[k] \in Nat
  BY TableFacts, ElementFacts
<1>2. \A g : Sums(g, n, e) <=> IsSum(g)
  <2> TAKE g
  <2>1. ASSUME NEW k \in 0..n
        PROVE  (IF k = 0 THEN 0 ELSE g[k - 1] + e[k])
               = (IF k = 0 THEN 0 ELSE g[k - 1] + ElementSize(schema[k], str) * schema[k].size)
    BY <1>1
  <2> HIDE DEF e
  <2> QED
    BY <2>1 DEF Sums
<1> HIDE DEF n, e
<1>3. \E g : Sums(g, n, e)
  BY <1>1, SumsExist
<1>4. \E g : IsSum(g)
  <2> HIDE DEF IsSum
  <2> QED
    BY <1>2, <1>3
<1>5. IsSum(S)
  BY <1>4 DEF SizesUpTo, n
<1>6. Sums(S, n, e)
  <2> HIDE DEF IsSum, S
  <2> QED
    BY <1>2, <1>5
<1>7. /\ S[0] = 0 /\ \A k \in 1..n : S[k] = S[k - 1] + e[k]
      /\ \A k \in 0..n : S[k] \in Nat
      /\ \A k \in 0..n : S[k] <= S[n]
  <2> HIDE DEF S
  <2> QED
    BY <1>1, <1>6, SumsGrow
<1> QED
  BY <1>7 DEF RecordSize, n, e

LEMMA OneMore ==
    ASSUME NEW a \in Nat, NEW b \in Nat, NEW c \in Nat, a < c
    PROVE  /\ (a + 1) * b = a * b + b /\ a * b + b <= b * c
           /\ a + 1 = c => a * b + b = b * c
<1>1. (a + 1) * b = a * b + b
  OBVIOUS
<1>2. PICK d \in Nat : c = (a + 1) + d
  <2>1. c - (a + 1) \in Nat /\ c = (a + 1) + (c - (a + 1))
    OBVIOUS
  <2> QED
    BY <2>1
<1>3. b * c = (a + 1) * b + b * d /\ b * d \in Nat /\ a * b \in Nat
  BY <1>2
<1>4. a + 1 = c => b * c = (a + 1) * b
  OBVIOUS
<1> QED
  BY <1>1, <1>3, <1>4
-----------------------------------------------------------------------------
Width(part) == IF part.kind = "string" THEN StringData ELSE part.bytes

\* The parts of s lie one behind another, the last one ends at v.
Chain(s) == \A k \in 1..Len(s) - 1 : s[k + 1].view = s[k].view + Width(s[k])
EndsAt(s, v) == s # << >> => v = s[Len(s)].view + Width(s[Len(s)])

LEMMA JoinFacts ==
    ASSUME NEW T, NEW s \in Seq(T), NEW t \in Seq(T)
    PROVE  LET r == s \o t
           IN  /\ r \in Seq(T) /\ Len(r) = Len(s) + Len(t)
               /\ \A k \in 1..Len(s) : r[k] = s[k]
               /\ \A k \in 1..Len(t) : r[Len(s) + k] = t[k]
<1>1. Len(s) \in Nat /\ Len(t) \in Nat
  OBVIOUS
<1> QED
  BY <1>1

LEMMA ChainsJoin ==
    ASSUME NEW T, NEW s \in Seq(T), NEW U, NEW t \in Seq(U), NEW v, NEW w,
           Chain(s), EndsAt(s, v), t # << >>, t[1].view = v, Chain(t), EndsAt(t, w)
    PROVE  s \o t \in Seq(T \union U) /\ Chain(s \o t) /\ EndsAt(s \o t, w)
<1> DEFINE V == T \union U
           r == s \o t
<1>1. s \in Seq(V) /\ t \in Seq(V) /\ Len(s) \in Nat /\ Len(t) \in Nat /\ Len(t) > 0
  OBVIOUS
<1>2. /\ r \in Seq(V) /\ Len(r) = Len(s) + Len(t)
      /\ \A k \in 1..Len(s) : r[k] = s[k]
      /\ \A k \in 1..Len(t) : r[Len(s) + k] = t[k]
  <2> HIDE DEF V
  <2> QED
    BY <1>1, JoinFacts
<1>3. EndsAt(r, w)
  <2>1. r[Len(r)] = t[Len(t)]
    BY <1>1, <1>2
  <2> QED
    BY <2>1 DEF EndsAt
<1>4. ASSUME NEW k \in 1..Len(r) - 1
      PROVE  r[k + 1].view = r[k].view + Width(r[k])
  <2>1. CASE k < Len(s)
    <3>1. k \in 1..Len(s) - 1 /\ r[k] = s[k] /\ r[k + 1] = s[k + 1]
      BY <1>1, <1>2, <2>1
    <3> QED
      BY <3>1 DEF Chain
  <2>2. CASE k = Len(s)
    <3>1. r[k] = s[k] /\ r[k + 1] = t[1] /\ s # << >>
      BY <1>1, <1>2, <2>2
    <3> QED
      BY <2>2, <3>1 DEF EndsAt
  <2>3. CASE k > Len(s)
    <3>1. k - Len(s) \in 1..Len(t) - 1 /\ k = Len(s) + (k - Len(s))
          /\ k + 1 = Len(s) + ((k - Len(s)) + 1)
      BY <1>1, <1>2, <2>3
    <3>2. r[k] = t[k - Len(s)] /\ r[k + 1] = t[(k - Len(s)) + 1]
      BY <1>1, <1>2, <3>1
    <3> QED
      BY <3>1, <3>2 DEF Chain
  <2> QED
    BY <1>1, <1>2, <2>1, <2>2, <2>3
<1> HIDE DEF r
<1>5. Chain(r)
  BY <1>4 DEF Chain
<1> QED
  BY <1>2, <1>3, <1>5 DEF r, V
-----------------------------------------------------------------------------
\* Bytes of the elements that were read.
Passed(str) ==
    IF field <= Len(schema) THEN SizesUpTo(str)[field - 1] + z * ElementSize(schema[field], str)
    ELSE RecordSize(str)

AtElement ==
    /\ field \in 1..Len(schema) + 1 /\ z \in Nat
    /\ field <= Len(schema) => z < schema[field].size
    /\ bufferOffset = Passed(StringRef)
    /\ table.legacy => viewOffset = Passed(StringData)
    /\ EndsAt(record, viewOffset)

WalkInv ==
    /\ table \in Tables
    /\ pc \notin {"new", "refused"} => header.recordSize = RecordSize(StringRef)
    /\ viewOffset \in Nat
    /\ \E T : record \in Seq(T)
    /\ Chain(record)
    /\ pc = "decoding" => AtElement
    /\ pc = "returned" =>
        /\ bufferOffset = RecordSize(StringRef)
        /\ table.legacy => viewOffset = RecordSize(StringData)

\* What the walk is about stays as long as the file does.
LEMMA TableKept ==
    ASSUME table' = table
    PROVE  /\ schema' = schema /\ header' = header
           /\ \A str : SizesUpTo(str)' = SizesUpTo(str)
           /\ \A str : RecordSize(str)' = RecordSize(str)
           /\ \A f, str : ElementSize(f, str)' = ElementSize(f, str)
  BY DEF schema, header, SizesUpTo, RecordSize, ElementSize, Localized, LangStrings

\* The parts of an element, and the bytes it takes in both.
PartsOfElement(elements, bytes, view) ==
    /\ elements # << >> /\ elements[1].view = viewOffset
    /\ Chain(elements) /\ EndsAt(elements, viewOffset + view)
    /\ bytes = ElementSize(This, StringRef)
    /\ view \in Nat /\ (table.legacy => view = ElementSize(This, StringData))

LEMMA PassedNext ==
    ASSUME WalkInv, Decoding, NEW str \in Nat, table' = table, schema[field] = This,
           \/ z + 1 < This.size /\ z' = z + 1 /\ field' = field
           \/ z + 1 >= This.size /\ z' = 0 /\ field' = field + 1
    PROVE  /\ Passed(str)' = Passed(str) + ElementSize(This, str)
           /\ Passed(str) + ElementSize(This, str) <= RecordSize(str)
           /\ field' \in 1..Len(schema) + 1 /\ z' \in Nat
           /\ field' <= Len(schema) => z' < schema[field'].size
<1> DEFINE E == ElementSize(This, str)
<1>1. /\ table \in Tables /\ field \in 1..Len(schema) /\ z \in Nat /\ z < This.size
      /\ Len(schema) \in Nat /\ \A k \in 1..Len(schema) : schema[k] \in Field
  BY TableFacts DEF WalkInv, Decoding, AtElement, This
<1>2. This.size \in Nat /\ This.size >= 1 /\ E \in Nat
  BY <1>1, ElementFacts
<1>3. /\ (z + 1) * E = z * E + E /\ z * E + E <= E * This.size
      /\ z + 1 = This.size => z * E + E = E * This.size
      /\ z * E \in Nat /\ E * This.size \in Nat
  <2> DEFINE n == This.size
  <2>1. E \in Nat /\ n \in Nat /\ z \in Nat /\ z < n
    BY <1>1, <1>2
  <2> HIDE DEF E, n
  <2>2. /\ (z + 1) * E = z * E + E /\ z * E + E <= E * n
        /\ z + 1 = n => z * E + E = E * n
    BY <2>1, OneMore
  <2>3. z * E \in Nat /\ E * n \in Nat
    BY <2>1
  <2> QED
    BY <2>2, <2>3 DEF n
<1>4. /\ SizesUpTo(str)[field] = SizesUpTo(str)[field - 1] + E * This.size
      /\ SizesUpTo(str)[field] <= RecordSize(str) /\ RecordSize(str) = SizesUpTo(str)[Len(schema)]
      /\ SizesUpTo(str)[field] \in Nat /\ SizesUpTo(str)[field - 1] \in Nat /\ RecordSize(str) \in Nat
  BY <1>1, SizesFacts DEF RecordSize
<1>5. Passed(str) = SizesUpTo(str)[field - 1] + z * E
  BY <1>1 DEF Passed
<1>6. Passed(str)' = IF field' <= Len(schema)
                     THEN SizesUpTo(str)[field' - 1] + z' * ElementSize(schema[field'], str)
                     ELSE RecordSize(str)
  BY TableKept DEF Passed
<1> HIDE DEF E
<1>7. Passed(str) + E <= RecordSize(str)
  <2> DEFINE a == SizesUpTo(str)[field - 1]
             b == SizesUpTo(str)[field]
             q == z * E
             m == E * This.size
             r == RecordSize(str)
  <2>1. /\ a \in Nat /\ b \in Nat /\ q \in Nat /\ m \in Nat /\ r \in Nat /\ E \in Nat
        /\ b = a + m /\ b <= r /\ q + E <= m
    BY <1>2, <1>3, <1>4
  <2>2. Passed(str) = a + q
    BY <1>5
  <2> HIDE DEF a, b, q, m, r
  <2>3. (a + q) + E <= r
    BY <2>1
  <2> QED
    BY <2>2, <2>3 DEF r
<1>8. CASE z + 1 < This.size /\ z' = z + 1 /\ field' = field
  <2>1. Passed(str)' = SizesUpTo(str)[field - 1] + (z + 1) * E
    BY <1>1, <1>6, <1>8 DEF E
  <2>2. Passed(str)' = Passed(str) + E
    <3> DEFINE a == SizesUpTo(str)[field - 1]
               q == z * E
    <3>1. a \in Nat /\ q \in Nat /\ E \in Nat
      BY <1>2, <1>3, <1>4
    <3>2. Passed(str) = a + q /\ Passed(str)' = a + (q + E)
      BY <1>3, <1>5, <2>1
    <3> HIDE DEF a, q
    <3> QED
      BY <3>1, <3>2
  <2> QED
    BY <1>1, <1>8, <1>7, <2>2 DEF E
<1>9. CASE z + 1 >= This.size /\ z' = 0 /\ field' = field + 1
  <2>1. z + 1 = This.size
    BY <1>1, <1>2, <1>9
  <2>2. Passed(str)' = SizesUpTo(str)[field]
    <3>1. CASE field + 1 <= Len(schema)
      <4>1. field + 1 \in 1..Len(schema)
        BY <1>1, <3>1
      <4>2. schema[field + 1] \in Field
        BY <1>1, <4>1
      <4>3. ElementSize(schema[field + 1], str) \in Nat
        BY <4>2, ElementFacts
      <4>4. 0 * ElementSize(schema[field + 1], str) = 0
        BY <4>3
      <4>5. Passed(str)' = SizesUpTo(str)[field] + 0 * ElementSize(schema[field + 1], str)
        BY <1>1, <1>6, <1>9, <4>1
      <4> QED
        BY <1>4, <4>4, <4>5
    <3>2. CASE field = Len(schema)
      BY <1>1, <1>4, <1>6, <1>9, <3>2
    <3> QED
      BY <1>1, <3>1, <3>2
  <2>3. ASSUME field' <= Len(schema)
        PROVE  schema[field'].size >= 1 /\ schema[field'].size \in Nat
    <3> DEFINE next == schema[field + 1]
    <3>1. field + 1 \in 1..Len(schema) /\ next \in Field
      BY <1>1, <1>9, <2>3
    <3> HIDE DEF next
    <3>2. next.size >= 1 /\ next.size \in Nat
      BY <3>1, ElementFacts
    <3> QED
      BY <1>9, <3>2 DEF next
  <2>4. Passed(str)' = Passed(str) + E
    <3> DEFINE a == SizesUpTo(str)[field - 1]
               q == z * E
               m == E * This.size
    <3>1. a \in Nat /\ q \in Nat /\ m \in Nat /\ E \in Nat /\ q + E = m
      BY <1>2, <1>3, <1>4, <2>1
    <3>2. Passed(str) = a + q /\ Passed(str)' = a + m
      BY <1>4, <1>5, <2>2
    <3> HIDE DEF a, q, m
    <3> QED
      BY <3>1, <3>2
  <2> QED
    BY <1>1, <1>9, <1>7, <2>3, <2>4 DEF E
<1> QED
  BY <1>8, <1>9

LEMMA InsertKeeps ==
    ASSUME WalkInv, Decoding, table' = table,
           NEW U, NEW elements \in Seq(U), NEW bytes, NEW view,
           Insert(elements, bytes, view), PartsOfElement(elements, bytes, view)
    PROVE  WalkInv'
<1>1. PICK T : record \in Seq(T)
  BY DEF WalkInv
<1>2. record' \in Seq(T \union U) /\ Chain(record)' /\ EndsAt(record, viewOffset)'
  <2>1. record \in Seq(T) /\ Chain(record) /\ EndsAt(record, viewOffset)
    BY <1>1 DEF WalkInv, Decoding, AtElement
  <2>2. record' = record \o elements /\ viewOffset' = viewOffset + view
    BY DEF Insert
  <2>3. LET r == record \o elements
        IN  r \in Seq(T \union U) /\ Chain(r) /\ EndsAt(r, viewOffset + view)
    BY <2>1, ChainsJoin DEF PartsOfElement
  <2> QED
    BY <2>2, <2>3 DEF Chain, EndsAt, Width, StringData
<1>3. \/ z + 1 < This.size /\ z' = z + 1 /\ field' = field
      \/ z + 1 >= This.size /\ z' = 0 /\ field' = field + 1
  <2>1. z \in Nat /\ This.size \in Nat
    BY TableFacts, ElementFacts DEF WalkInv, Decoding, AtElement, This
  <2> QED
    BY <2>1 DEF Insert
<1>4. /\ \A str \in Nat : Passed(str)' = Passed(str) + ElementSize(This, str)
      /\ field' \in 1..Len(schema) + 1 /\ z' \in Nat
      /\ field' <= Len(schema) => z' < schema[field'].size
  BY <1>3, PassedNext DEF This, StringRef
<1>5. AtElement'
  <2>1. schema' = schema
    BY TableKept
  <2>2. bufferOffset' = Passed(StringRef)'
    BY <1>4 DEF WalkInv, Decoding, AtElement, Insert, PartsOfElement, StringRef
  <2>3. table.legacy => viewOffset' = Passed(StringData)'
    BY <1>4 DEF WalkInv, Decoding, AtElement, Insert, PartsOfElement, StringData
  <2> QED
    BY <1>2, <1>4, <2>1, <2>2, <2>3 DEF AtElement
<1>6. viewOffset' \in Nat
  BY DEF WalkInv, Insert, PartsOfElement
<1>7. pc' = pc /\ pc = "decoding"
  BY DEF Insert, Decoding
<1>8. header'.recordSize = RecordSize(StringRef)'
  <2>1. RecordSize(StringRef)' = RecordSize(StringRef) /\ header' = header
    BY TableKept DEF StringRef
  <2> QED
    BY <1>7, <2>1 DEF WalkInv
<1> QED
  BY <1>2, <1>5, <1>6, <1>7, <1>8 DEF WalkInv

LEMMA InsertionKeeps ==
    ASSUME WalkInv, Insertion
    PROVE  WalkInv'
<1>1. table' = table /\ viewOffset \in Nat
  BY DEF Insertion, WalkInv
<1>2. LangStrings \in Nat /\ LangStrings >= 1
  BY DEF LangStrings
<1>3. Decoding => This.type \in Types /\ This.bytes \in Nat
  <2>1. Decoding => This \in Field
    BY TableFacts DEF WalkInv, Decoding, AtElement, This
  <2> QED
    BY <2>1 DEF Field
<1>4. ASSUME Decoding, pc' = "thrown", UNCHANGED <<viewOffset, record>>
      PROVE  WalkInv'
  BY <1>1, <1>4, TableKept DEF WalkInv, Decoding, Chain, Width, StringData
<1>5. CASE InsertNumber
  <2>1. CASE Throw
    BY <1>4, <1>5, <2>1 DEF Throw, InsertNumber
  <2> DEFINE part == Number(buffer + bufferOffset, This.bytes, viewOffset)
  <2>2. CASE Insert(<<part>>, This.bytes, This.bytes)
    <3>1. Decoding /\ This.type \in {"INT", "FLOAT"}
      BY <1>5 DEF InsertNumber
    <3>2. ElementSize(This, StringRef) = This.bytes /\ ElementSize(This, StringData) = This.bytes
      BY <3>1 DEF ElementSize, Localized
    <3>3. part.view = viewOffset /\ Width(part) = This.bytes
      BY DEF Number, Width
    <3> HIDE DEF part
    <3>4. PartsOfElement(<<part>>, This.bytes, This.bytes)
      BY <1>1, <1>3, <3>1, <3>2, <3>3 DEF PartsOfElement, Chain, EndsAt
    <3>5. <<part>> \in Seq({part})
      OBVIOUS
    <3> QED
      BY <1>1, <2>2, <3>1, <3>4, <3>5, InsertKeeps
  <2> QED
    BY <1>5, <2>1, <2>2 DEF InsertNumber
<1>6. ASSUME NEW k, NEW bytes, Decoding, InsertStringOf(k, bytes), bytes = ElementSize(This, StringRef),
             table.legacy => ElementSize(This, StringData) = StringData
      PROVE  WalkInv'
  <2>1. CASE Throw
    BY <1>4, <1>6, <2>1 DEF Throw
  <2> DEFINE part == String(StringAt(k), viewOffset)
  <2>2. CASE Insert(<<part>>, bytes, StringData)
    <3>1. part.view = viewOffset /\ Width(part) = StringData /\ StringData \in Nat
      BY DEF String, Width, StringData
    <3> HIDE DEF part
    <3>2. PartsOfElement(<<part>>, bytes, StringData)
      BY <1>1, <1>6, <3>1 DEF PartsOfElement, Chain, EndsAt
    <3>3. <<part>> \in Seq({part})
      OBVIOUS
    <3> QED
      BY <1>1, <1>6, <2>2, <3>2, <3>3, InsertKeeps
  <2> QED
    BY <1>6, <2>1, <2>2 DEF InsertStringOf
<1>7. CASE InsertString
  <2>1. Decoding /\ InsertStringOf(0, StringRef)
    BY <1>7 DEF InsertString
  <2>2. ElementSize(This, StringRef) = StringRef /\ ElementSize(This, StringData) = StringData
    BY <1>7 DEF InsertString, ElementSize
  <2> QED
    BY <1>6, <2>1, <2>2
<1>8. CASE InsertLangString
  <2>1. Decoding /\ InsertStringOf(table.locale, LangStringSize) /\ ~table.legacy
    BY <1>8 DEF InsertLangString
  <2>2. ElementSize(This, StringRef) = LangStringSize
    BY <1>8 DEF InsertLangString, ElementSize, LangStringSize, StringRef
  <2> QED
    BY <1>6, <2>1, <2>2
<1>9. CASE InsertLegacyLangString
  <2>1. CASE Throw
    BY <1>4, <1>9, <2>1 DEF Throw, InsertLegacyLangString
  <2> DEFINE n == LangStrings
             strings == [k \in 1..n |-> String(StringAt(k - 1), viewOffset + StringData * (k - 1))]
             flags == Number(buffer + bufferOffset + StringRef * n, 4, viewOffset + StringData * n)
             elements == strings \o <<flags>>
  <2>2. CASE Insert(elements, LangStringSize, n * StringData + 4)
    <3>1. Decoding
      BY <1>9 DEF InsertLegacyLangString
    <3>2. /\ ElementSize(This, StringRef) = LangStringSize
          /\ ElementSize(This, StringData) = n * StringData + 4
      BY <1>9 DEF InsertLegacyLangString, ElementSize, LangStringSize, StringRef, StringData
    <3>3. /\ \A k \in 1..n : strings[k].view = viewOffset + StringData * (k - 1)
                             /\ Width(strings[k]) = StringData
          /\ flags.view = viewOffset + StringData * n /\ Width(flags) = 4
          /\ flags.kind = "number"
      BY DEF String, Number, Width
    <3> DEFINE T == {strings[k] : k \in 1..n} \union {flags}
    <3>4. strings \in Seq(T) /\ <<flags>> \in Seq(T) /\ Len(strings) = n
      <4>1. (\A k \in 1..n : strings[k] \in T) /\ flags \in T
        <5> HIDE DEF strings, flags
        <5> QED
          OBVIOUS
      <4>2. strings = [k \in 1..n |-> strings[k]]
        OBVIOUS
      <4> HIDE DEF T, strings, flags
      <4>3. strings \in [1..n -> T]
        BY <4>1, <4>2
      <4>4. strings \in Seq(T) /\ Len(strings) = n
        BY <1>2, <4>3
      <4> QED
        BY <4>1, <4>4
    <3>5. /\ elements \in Seq(T) /\ Len(elements) = n + 1
          /\ \A k \in 1..n : elements[k] = strings[k]
          /\ elements[n + 1] = flags
      <4> HIDE DEF T, strings, flags
      <4> QED
        BY <1>2, <3>4
    <3> HIDE DEF T, strings, flags, elements
    <3>6. Chain(elements)
      <4>1. SUFFICES ASSUME NEW k \in 1..n
                     PROVE  elements[k + 1].view = elements[k].view + Width(elements[k])
        BY <1>2, <3>5 DEF Chain
      <4>2. CASE k < n
        <5>1. k + 1 \in 1..n /\ (k + 1) - 1 = k
          BY <1>2, <4>2
        <5> QED
          BY <1>1, <1>2, <3>3, <3>5, <5>1 DEF StringData
      <4>3. CASE k = n
        BY <1>1, <1>2, <3>3, <3>5, <4>3 DEF StringData
      <4> QED
        BY <1>2, <4>2, <4>3
    <3>7. EndsAt(elements, viewOffset + (n * StringData + 4))
      BY <1>1, <1>2, <3>3, <3>5 DEF EndsAt, StringData
    <3>8. elements # << >> /\ elements[1].view = viewOffset
      BY <1>1, <1>2, <3>3, <3>5 DEF StringData
    <3>9. n * StringData + 4 \in Nat
      BY <1>2 DEF StringData
    <3>10. PartsOfElement(elements, LangStringSize, n * StringData + 4)
      BY <3>2, <3>6, <3>7, <3>8, <3>9 DEF PartsOfElement
    <3> QED
      BY <1>1, <2>2, <3>1, <3>5, <3>10, InsertKeeps
  <2> QED
    BY <1>9, <2>1, <2>2 DEF InsertLegacyLangString
<1> QED
  BY <1>5, <1>7, <1>8, <1>9 DEF Insertion

LEMMA WalkInit == Init => WalkInv
<1>1. Init => record \in Seq({}) /\ Chain(record)
  BY DEF Init, Chain
<1> QED
  BY <1>1 DEF Init, WalkInv

\* Any caller's steps: the index of a call is not bounded.
Steps == Open \/ CallStep \/ \E i \in Nat : Ask(i)

LEMMA NextSteps == [Next]_vars => [Steps]_vars
  BY BoundsAssumption DEF Next, Steps

LEMMA WalkInductive == WalkInv /\ [Steps]_vars => WalkInv'
<1> SUFFICES ASSUME WalkInv, [Steps]_vars PROVE WalkInv'
  OBVIOUS
<1> USE DEF Chain, Width, StringData
<1>1. CASE Open
  BY <1>1, TableKept DEF Open, Rejected, WalkInv, call
<1>2. ASSUME NEW i \in Nat, Ask(i) PROVE WalkInv'
  BY <1>2, TableKept DEF Ask, Idle, WalkInv
<1>3. CASE ReadRecord
  <2>1. CASE Throw
    BY <1>3, <2>1, TableKept DEF ReadRecord, Throw, WalkInv
  <2>2. CASE pc' = "decoding" /\ field' = 1 /\ z' = 0 /\ bufferOffset' = 0 /\ viewOffset' = 0
             /\ record' = << >>
    <3>1. table' = table /\ pc = "asked" /\ table \in Tables
      BY <1>3 DEF ReadRecord, WalkInv
    <3>2. Len(schema) \in Nat /\ \A k \in 1..Len(schema) : schema[k] \in Field
      BY <3>1, TableFacts
    <3>3. ASSUME NEW str \in Nat PROVE Passed(str)' = 0
      <4>1. SizesUpTo(str)[0] = 0 /\ RecordSize(str) = SizesUpTo(str)[Len(schema)]
        BY <3>1, SizesFacts DEF RecordSize
      <4>2. Passed(str)' = IF 1 <= Len(schema)
                           THEN SizesUpTo(str)[1 - 1] + 0 * ElementSize(schema[1], str)
                           ELSE RecordSize(str)
        BY <2>2, <3>1, TableKept DEF Passed
      <4>3. CASE 1 <= Len(schema)
        <5>1. schema[1] \in Field
          BY <3>2, <4>3
        <5>2. ElementSize(schema[1], str) \in Nat
          BY <5>1, ElementFacts
        <5>3. 0 * ElementSize(schema[1], str) = 0
          BY <5>2
        <5> QED
          BY <4>1, <4>2, <4>3, <5>3
      <4>4. CASE Len(schema) = 0
        BY <4>1, <4>2, <4>4
      <4> QED
        BY <3>2, <4>3, <4>4
    <3>4. 1 <= Len(schema) => 0 < schema[1].size
      <4>1. SUFFICES ASSUME 1 <= Len(schema) PROVE 0 < schema[1].size
        OBVIOUS
      <4>2. schema[1] \in Field
        BY <3>2, <4>1
      <4>3. schema[1].size \in Nat /\ schema[1].size >= 1
        BY <4>2, ElementFacts
      <4> QED
        BY <4>3
    <3>5. AtElement'
      <4>1. schema' = schema
        BY <3>1, TableKept
      <4> QED
        BY <2>2, <3>2, <3>3, <3>4, <4>1 DEF AtElement, EndsAt, StringRef
    <3>6. record' \in Seq({}) /\ Chain(record)'
      BY <2>2
    <3> QED
      BY <2>2, <3>1, <3>5, <3>6, TableKept DEF WalkInv
  <2> QED
    BY <1>3, <2>1, <2>2 DEF ReadRecord
<1>4. CASE Insertion
  BY <1>4, InsertionKeeps
<1>5. CASE Return
  <2>1. /\ table' = table /\ pc = "decoding" /\ pc' = "returned" /\ field > Len(schema)
        /\ UNCHANGED <<record, bufferOffset, viewOffset>>
    BY <1>5 DEF Return, call
  <2>2. Passed(StringRef) = RecordSize(StringRef) /\ Passed(StringData) = RecordSize(StringData)
    <3>1. Len(schema) \in Nat /\ field \in Nat
      BY <2>1, TableFacts DEF WalkInv, AtElement
    <3> QED
      BY <2>1, <3>1 DEF Passed
  <2>3. bufferOffset = RecordSize(StringRef) /\ (table.legacy => viewOffset = RecordSize(StringData))
    BY <2>1, <2>2 DEF WalkInv, AtElement
  <2> QED
    BY <2>1, <2>3, TableKept DEF WalkInv
<1>6. CASE UNCHANGED vars
  <2>1. table' = table
    BY <1>6 DEF vars
  <2>2. AtElement => AtElement'
    BY <1>6, <2>1, TableKept DEF AtElement, Passed, EndsAt, vars, call
  <2> QED
    BY <1>6, <2>1, <2>2, TableKept DEF WalkInv, vars, call
<1> QED
  BY <1>1, <1>2, <1>3, <1>4, <1>5, <1>6 DEF Steps, CallStep

(* The walk of operator[] over a record never leaves the buffer, and ends  *)
(* with the whole buffer read and the whole of a fixed record written      *)
(* (DBCFile.hpp:310-406, DB2File.hpp:650-838).                             *)
THEOREM WalkAlwaysFits == Spec => []WalkFitsRecord
<1>1. Init => WalkInv
  BY WalkInit
<1>2. WalkInv => WalkFitsRecord
  <2> SUFFICES ASSUME WalkInv PROVE WalkFitsRecord
    OBVIOUS
  <2>1. ASSUME Decoding PROVE bufferOffset + ElementSize(This, StringRef) <= header.recordSize
    <3>1. /\ table \in Tables /\ field \in 1..Len(schema) /\ z \in Nat /\ z < This.size
          /\ Len(schema) \in Nat /\ This \in Field
      BY <2>1, TableFacts DEF WalkInv, Decoding, AtElement, This
    <3> DEFINE E == ElementSize(This, StringRef)
               n == This.size
               S == SizesUpTo(StringRef)
    <3>2. E \in Nat /\ n \in Nat
      BY <3>1, ElementFacts DEF StringRef
    <3>3. S[field] = S[field - 1] + E * n /\ S[field - 1] \in Nat /\ S[field] <= RecordSize(StringRef)
          /\ RecordSize(StringRef) \in Nat
      BY <3>1, SizesFacts DEF StringRef, RecordSize, This
    <3>4. bufferOffset = S[field - 1] + z * E /\ header.recordSize = RecordSize(StringRef)
      BY <2>1, <3>1 DEF WalkInv, Decoding, AtElement, Passed, This
    <3>5. z * E + E <= E * n /\ z * E \in Nat /\ E * n \in Nat
      <4>1. z \in Nat /\ z < n
        BY <3>1
      <4> HIDE DEF E, n
      <4> QED
        BY <3>2, <4>1, OneMore
    <3> HIDE DEF E, n, S
    <3>6. bufferOffset + E <= header.recordSize
      <4> DEFINE read == z * E
                 all == E * n
      <4>1. read \in Nat /\ all \in Nat /\ read + E <= all
        BY <3>5
      <4>2. bufferOffset = S[field - 1] + read /\ S[field] = S[field - 1] + all
        BY <3>3, <3>4
      <4> HIDE DEF read, all
      <4> QED
        BY <3>2, <3>3, <3>4, <4>1, <4>2
    <3> QED
      BY <3>6 DEF E
  <2>2. pc = "returned" => header.recordSize = RecordSize(StringRef)
    BY DEF WalkInv
  <2> QED
    BY <2>1, <2>2 DEF WalkInv, WalkFitsRecord, Chain, Width
<1> QED
  BY <1>1, <1>2, NextSteps, WalkInductive, PTL DEF Spec
-----------------------------------------------------------------------------
(* The rows of the layout.  A part of a row has its place by the fields    *)
(* and elements in front of it, in bytes and in parts.                     *)

LEMMA HeldFacts ==
    ASSUME table \in Tables, NEW f \in Field
    PROVE  /\ Holds!HasLocales(table, f) <=> Localized(f)
           /\ Localized(f) => Holds!Locales(table) = LangStrings
           /\ Holds!Width(table, f) = ElementSize(f, StringRef)
           /\ Holds!Parts(table, f) \in Nat \ {0}
           /\ Holds!Parts(table, f) = IF Localized(f) /\ table.legacy THEN LangStrings + 1 ELSE 1
<1>1. table.version \in DBCVersions /\ table.format \in Formats
  BY TablesAssumption DEF TableShape
<1>2. f.type \in Types
  BY DEF Field
<1>3. Holds!HasLocales(table, f) <=> Localized(f)
  BY <1>1 DEF Holds!HasLocales, Localized, DBCVersions
<1>4. Localized(f) => Holds!Locales(table) = LangStrings
  BY <1>1 DEF Localized, Holds!Locales, LangStrings, DBCVersions
<1>5. Holds!Width(table, f) = ElementSize(f, StringRef)
  <2>1. LangStrings \in Nat
    BY DEF LangStrings
  <2>2. 4 * LangStrings = LangStrings * 4
    BY <2>1
  <2> QED
    BY <1>2, <1>3, <1>4, <2>2 DEF Holds!Width, ElementSize, StringRef, Types
<1>6. Holds!Parts(table, f) = IF Localized(f) /\ table.legacy THEN LangStrings + 1 ELSE 1
  BY <1>3, <1>4 DEF Holds!Parts
<1>7. LangStrings + 1 \in Nat \ {0}
  BY DEF LangStrings
<1> QED
  BY <1>3, <1>4, <1>5, <1>6, <1>7

\* Bytes in front of a field, as the walk counts them.
LEMMA BytesSame ==
    ASSUME table \in Tables
    PROVE  \A k \in 0..Len(schema) : Holds!BytesUpTo(table)[k] = SizesUpTo(StringRef)[k]
<1> DEFINE n == Len(schema)
           W(k) == Holds!Width(table, schema[k]) * schema[k].size
           V(k) == ElementSize(schema[k], StringRef) * schema[k].size
           e == [k \in 1..n |-> W(k)]
           d == [k \in 1..n |-> V(k)]
           F(g) == g = [k \in 0..n |-> IF k = 0 THEN 0 ELSE g[k - 1] + W(k)]
           G(g) == g = [k \in 0..n |-> IF k = 0 THEN 0 ELSE g[k - 1] + V(k)]
<1>1. n \in Nat /\ \A k \in 1..n : schema[k] \in Field
  BY TableFacts
<1>2. \A k \in 1..n : W(k) = V(k)
  BY <1>1, HeldFacts
<1>3. table.schema = schema
  BY DEF schema
<1>4. Holds!BytesUpTo(table) = CHOOSE g : F(g)
  BY <1>3 DEF Holds!BytesUpTo
<1>5. SizesUpTo(StringRef) = CHOOSE g : G(g)
  BY DEF SizesUpTo
<1> HIDE DEF n, W, V
<1>6. \A g : F(g) <=> Sums(g, n, e)
  <2> TAKE g
  <2>1. [k \in 0..n |-> IF k = 0 THEN 0 ELSE g[k - 1] + W(k)]
        = [k \in 0..n |-> IF k = 0 THEN 0 ELSE g[k - 1] + e[k]]
    BY <1>1
  <2> HIDE DEF e
  <2> QED
    BY <2>1 DEF Sums
<1>7. \A g : G(g) <=> Sums(g, n, d)
  <2> TAKE g
  <2>1. [k \in 0..n |-> IF k = 0 THEN 0 ELSE g[k - 1] + V(k)]
        = [k \in 0..n |-> IF k = 0 THEN 0 ELSE g[k - 1] + d[k]]
    BY <1>1
  <2> HIDE DEF d
  <2> QED
    BY <2>1 DEF Sums
<1>8. \A k \in 1..n : e[k] = d[k]
  BY <1>2
<1> DEFINE a == CHOOSE g : F(g)
           b == CHOOSE g : G(g)
<1> HIDE DEF e, d, F, G
<1>9. F(a) /\ G(b)
  <2>1. (\E g : F(g)) /\ (\E g : G(g))
    BY <1>1, <1>6, <1>7, SumsExist
  <2> QED
    BY <2>1
<1> HIDE DEF a, b
<1>10. \A k \in 0..n : a[k] = b[k]
  BY <1>1, <1>6, <1>7, <1>8, <1>9, SumsSame
<1> QED
  BY <1>4, <1>5, <1>10 DEF a, b, n

\* Parts in front of a field, and of an element.
Before(k) == Holds!PartsUpTo(table)[k]
PartsOf(k) == Holds!Parts(table, schema[k])

LEMMA PartsFacts ==
    ASSUME table \in Tables
    PROVE  /\ Before(0) = 0
           /\ \A k \in 1..Len(schema) : /\ Before(k) = Before(k - 1) + PartsOf(k) * schema[k].size
                                       /\ PartsOf(k) \in Nat \ {0} /\ schema[k].size \in Nat \ {0}
                                       /\ PartsOf(k) * schema[k].size \in Nat \ {0}
           /\ \A k \in 0..Len(schema) : Before(k) \in Nat /\ Before(k) <= Before(Len(schema))
           /\ \A j, k \in 0..Len(schema) : j <= k => Before(j) <= Before(k)
<1> DEFINE n == Len(schema)
           V(k) == PartsOf(k) * schema[k].size
           e == [k \in 1..n |-> V(k)]
           F(g) == g = [k \in 0..n |-> IF k = 0 THEN 0 ELSE g[k - 1] + V(k)]
           S == Holds!PartsUpTo(table)
<1>1. n \in Nat /\ \A k \in 1..n : schema[k] \in Field
  BY TableFacts
<1>2. \A k \in 1..n : PartsOf(k) \in Nat \ {0} /\ schema[k].size \in Nat \ {0}
  <2> SUFFICES ASSUME NEW k \in 1..n PROVE PartsOf(k) \in Nat \ {0} /\ schema[k].size \in Nat \ {0}
    OBVIOUS
  <2> DEFINE f == schema[k]
  <2>1. f \in Field
    BY <1>1
  <2> HIDE DEF f
  <2>2. Holds!Parts(table, f) \in Nat \ {0}
    BY <2>1, HeldFacts
  <2>3. PartsOf(k) = Holds!Parts(table, f)
    BY DEF PartsOf, f
  <2>4. f.size \in Nat \ {0}
    <3>1. f.size \in Nat /\ f.size >= 1
      BY <2>1, ElementFacts DEF StringRef
    <3> QED
      BY <3>1
  <2> QED
    BY <2>2, <2>3, <2>4 DEF f
<1>3. \A k \in 1..n : V(k) \in Nat \ {0}
  BY <1>2
<1>4. S = CHOOSE g : F(g)
  <2>1. table.schema = schema
    BY DEF schema
  <2> QED
    BY <2>1 DEF Holds!PartsUpTo, PartsOf
<1> HIDE DEF V
<1>5. \A g : F(g) <=> Sums(g, n, e)
  <2> TAKE g
  <2>1. [k \in 0..n |-> IF k = 0 THEN 0 ELSE g[k - 1] + V(k)]
        = [k \in 0..n |-> IF k = 0 THEN 0 ELSE g[k - 1] + e[k]]
    BY <1>1
  <2> HIDE DEF e
  <2> QED
    BY <2>1 DEF Sums
<1>6. \A k \in 1..n : e[k] \in Nat
  BY <1>3
<1>7. \A k \in 1..n : e[k] = V(k)
  OBVIOUS
<1> HIDE DEF e, F, S, n
<1>8. Sums(S, n, e)
  <2>1. \E g : F(g)
    BY <1>1, <1>5, SumsExist
  <2> QED
    BY <1>4, <1>5, <2>1
<1>9. /\ S[0] = 0 /\ \A k \in 1..n : S[k] = S[k - 1] + e[k]
      /\ \A k \in 0..n : S[k] \in Nat
      /\ \A k \in 0..n : S[k] <= S[n]
  BY <1>1, <1>6, <1>8, SumsGrow
<1>10. \A j, k \in 0..n : j <= k => S[j] <= S[k]
  <2> DEFINE c == [k \in 1..n + 1 |-> S[k - 1]]
  <2>1. Climbs(c, n)
    <3>1. ASSUME NEW k \in 1..n PROVE c[k] <= c[k + 1]
      <4>1. k \in 1..n + 1 /\ k + 1 \in 1..n + 1 /\ k - 1 \in 0..n /\ (k + 1) - 1 = k
        BY <1>1
      <4>2. c[k] = S[k - 1] /\ c[k + 1] = S[k]
        BY <4>1
      <4> QED
        BY <1>6, <1>9, <4>1, <4>2
    <3>2. \A k \in 1..n + 1 : c[k] \in Nat
      BY <1>1, <1>9
    <3> QED
      BY <3>1, <3>2 DEF Climbs
  <2>2. \A j \in 0..n : j + 1 \in 1..n + 1 /\ c[j + 1] = S[j]
    BY <1>1
  <2> HIDE DEF c
  <2> QED
    BY <1>1, <2>1, <2>2, ClimbsThrough
<1> QED
  BY <1>2, <1>3, <1>7, <1>9, <1>10 DEF Before, S, n, V

(* The part of a row with so many in front is the part of its element, at  *)
(* the place that element has.                                             *)
LEMMA PartHere ==
    ASSUME table \in Tables, NEW k \in 1..Len(schema), NEW e \in 0..schema[k].size - 1,
           NEW p \in 1..PartsOf(k), NEW base
    PROVE  LET m == Before(k - 1) + e * PartsOf(k) + p
           IN  /\ m \in 1..Before(Len(schema))
               /\ Holds!RowPart(table, base, m) =
                    Holds!PartOf(table, schema[k],
                        base + SizesUpTo(StringRef)[k - 1] + ElementSize(schema[k], StringRef) * e, p)
<1> DEFINE n == Len(schema)
           P == PartsOf(k)
           size0 == schema[k].size
           m == Before(k - 1) + e * P + p
           b == Before(k - 1)
<1>1. /\ n \in Nat /\ k - 1 \in 0..n /\ k \in 0..n /\ b \in Nat
      /\ P \in Nat \ {0} /\ size0 \in Nat \ {0} /\ e \in Nat /\ e < size0
      /\ Before(k) = b + P * size0 /\ Before(k) <= Before(n) /\ Before(n) \in Nat
  <2>1. n \in Nat /\ k - 1 \in 0..n /\ k \in 0..n
    BY TableFacts
  <2>2. P \in Nat \ {0} /\ size0 \in Nat \ {0} /\ Before(k) = b + P * size0
    BY PartsFacts
  <2>3. b \in Nat /\ Before(k) <= Before(n) /\ Before(n) \in Nat
    BY <2>1, PartsFacts
  <2>4. e \in Nat /\ e < size0
    <3> HIDE DEF P, b
    <3> QED
      BY <2>2
  <2> QED
    BY <2>1, <2>2, <2>3, <2>4
<1>2. e * P \in Nat /\ P * size0 \in Nat /\ e * P + P <= P * size0
  <2> HIDE DEF P, size0
  <2> QED
    BY <1>1, OneMore
<1>3. b < m /\ m <= Before(k) /\ m \in Nat /\ m \in 1..Before(n)
  <2> DEFINE q == e * P
             r == P * size0
  <2>1. q \in Nat /\ r \in Nat /\ q + P <= r /\ p \in 1..P
    BY <1>2
  <2>2. m = b + q + p /\ Before(k) = b + r
    BY <1>1
  <2>3. b \in Nat /\ P \in Nat /\ Before(k) <= Before(n) /\ Before(n) \in Nat
    BY <1>1
  <2> HIDE DEF b, q, r, P, m
  <2>4. p \in Nat /\ 1 <= p /\ p <= P
    BY <2>1, <2>3
  <2>5. b < b + q + p /\ b + q + p <= b + r /\ b + q + p \in Nat
    BY <2>1, <2>3, <2>4
  <2>6. b < m /\ m <= Before(k) /\ m \in Nat
    BY <2>2, <2>5
  <2>7. 1 <= m /\ m <= Before(n)
    BY <2>2, <2>1, <2>3, <2>6
  <2> QED
    BY <2>3, <2>6, <2>7
<1>4. \A c \in 1..n : Before(c - 1) < m /\ m <= Before(c) => c = k
  <2> SUFFICES ASSUME NEW c \in 1..n, Before(c - 1) < m, m <= Before(c) PROVE c = k
    OBVIOUS
  <2>1. /\ c - 1 \in 0..n /\ c \in 0..n /\ Before(c - 1) \in Nat /\ Before(c) \in Nat
        /\ Before(k) \in Nat
    <3>1. c - 1 \in 0..n /\ c \in 0..n
      BY <1>1
    <3> HIDE DEF n
    <3> QED
      BY <1>1, <3>1, PartsFacts DEF n
  <2> HIDE DEF m, b
  <2>2. ~(c < k)
    <3>1. c < k => Before(c) <= Before(k - 1)
      <4>1. \A i, j \in 0..n : i <= j => Before(i) <= Before(j)
        BY PartsFacts
      <4>2. c < k => c <= k - 1
        BY <1>1
      <4> HIDE DEF n
      <4> QED
        BY <1>1, <2>1, <4>1, <4>2
    <3> QED
      BY <1>1, <1>3, <2>1, <3>1 DEF b
  <2>3. ~(k < c)
    <3>1. k < c => Before(k) <= Before(c - 1)
      <4>1. \A i, j \in 0..n : i <= j => Before(i) <= Before(j)
        BY PartsFacts
      <4>2. k < c => k <= c - 1
        BY <1>1
      <4> HIDE DEF n
      <4> QED
        BY <1>1, <2>1, <4>1, <4>2
    <3>2. m \in Nat /\ m <= Before(k) /\ k \in Nat /\ c \in Nat
      BY <1>1, <1>3
    <3> QED
      BY <2>1, <3>1, <3>2
  <2> QED
    BY <1>1, <2>1, <2>2, <2>3
<1>5. (CHOOSE c \in 1..Len(table.schema) :
          Holds!PartsUpTo(table)[c - 1] < m /\ m <= Holds!PartsUpTo(table)[c]) = k
  <2>1. table.schema = schema
    BY DEF schema
  <2> HIDE DEF m
  <2>2. \A c \in 1..n : Holds!PartsUpTo(table)[c - 1] < m /\ m <= Holds!PartsUpTo(table)[c] <=> c = k
    BY <1>3, <1>4 DEF Before, b
  <2> QED
    BY <2>1, <2>2
<1>6. LET before == m - b - 1
      IN  before \div P = e /\ (before % P) + 1 = p
  <2>1. b \in Nat /\ P \in Nat \ {0} /\ e \in Nat /\ e * P \in Nat
    BY <1>1, <1>2
  <2>2. p \in 1..P
    OBVIOUS
  <2> DEFINE q == e * P
  <2>3. m = b + q + p /\ q \in Nat
    BY <2>1
  <2> HIDE DEF m, P, b, q
  <2>4. p - 1 \in 0..P - 1 /\ p - 1 + 1 = p /\ m - b - 1 = q + (p - 1)
    BY <2>1, <2>2, <2>3
  <2>5. (e * P + (p - 1)) \div P = e /\ (e * P + (p - 1)) % P = p - 1
    BY <2>1, <2>4, QuotientIs
  <2> QED
    BY <2>4, <2>5 DEF q
<1>7. Holds!BytesUpTo(table)[k - 1] = SizesUpTo(StringRef)[k - 1]
  BY <1>1, BytesSame
<1>8. Holds!Width(table, schema[k]) = ElementSize(schema[k], StringRef)
  BY TableFacts, HeldFacts
<1>9. /\ table.schema = schema /\ P = Holds!Parts(table, schema[k])
      /\ b = Holds!PartsUpTo(table)[k - 1]
  BY DEF schema, PartsOf, Before
<1> HIDE DEF m, P, b
<1>10. Holds!RowPart(table, base, m) =
         Holds!PartOf(table, schema[k],
            base + Holds!BytesUpTo(table)[k - 1] + Holds!Width(table, schema[k]) * e, p)
  BY <1>5, <1>6, <1>9 DEF Holds!RowPart
<1> QED
  BY <1>3, <1>7, <1>8, <1>10 DEF m, P, b
-----------------------------------------------------------------------------
\* The row is one of the file, and its place is not wrapped.
InTable == index < size /\ NoWrap

Plain(part) == <<part.kind, part.at>>
InFile(part) == part.kind = "string" => part.at <= table.length

HasInteger(f) == f.type = "INT" => f.bytes \in {1, 2, 4, 8}

PartsRead ==
    IF field <= Len(schema) THEN Before(field - 1) + z * PartsOf(field) ELSE Before(Len(schema))

(* The parts of the row that were read are its first ones, each where the  *)
(* layout has it, and nothing in them is a reason to refuse the row; what  *)
(* stops the walk is one.                                                  *)
RowInv ==
    /\ index \in Nat
    /\ pc \notin {"new", "refused"} => dataOffset = IdTables
    /\ pc = "asked" => pos = RecordPos(index)
    /\ pc \in {"decoding", "returned"} =>
        /\ buffer = RecordPos(index) /\ buffer + header.recordSize <= table.length
        /\ Len(record) = PartsRead
        /\ InTable => \A m \in 1..Len(record) :
                        Plain(record[m]) = Holds!RowPart(table, buffer, m) /\ InFile(record[m])
        /\ \A k \in 1..field - 1 : HasInteger(schema[k])
    /\ pc = "returned" => field = Len(schema) + 1
    /\ pc = "thrown" /\ InTable => ~Holds!RowReadable(table, index)

\* What the layout says stays as long as the file does.
LEMMA LayoutKept ==
    ASSUME table' = table
    PROVE  /\ schema' = schema /\ header' = header /\ size' = size /\ NoWrap' = NoWrap
           /\ IdTables' = IdTables
           /\ \A k : Before(k)' = Before(k) /\ PartsOf(k)' = PartsOf(k)
           /\ \A f : HasInteger(f)' = HasInteger(f)
<1>1. schema' = schema /\ header' = header
  BY DEF schema, header
<1>2. size' = size /\ NoWrap' = NoWrap /\ IdTables' = IdTables
  BY <1>1 DEF size, NoWrap, IdTables
<1>3. \A k : Before(k)' = Before(k) /\ PartsOf(k)' = PartsOf(k)
  BY <1>1 DEF Before, PartsOf
<1> QED
  BY <1>1, <1>2, <1>3 DEF HasInteger

(* Below the bounds of uint32_t a record and the strings are where they    *)
(* lie, one record behind the other.                                       *)
LEMMA RecordPlaces ==
    ASSUME table \in Tables, NoWrap, dataOffset = IdTables
    PROVE  /\ \A i \in 0..size : RecordPos(i) = Holds!RecordAt(table, i)
           /\ StringBlock = Holds!Strings(table)
<1> DEFINE r == header.recordSize
           ids == header.maxId - header.minId + 1
<1>1. r \in Nat /\ size \in Nat /\ header.maxId \in Nat /\ header.minId \in Nat /\ Wrap \in Nat
  BY TableFacts, BoundsAssumption DEF size
<1>2. table.header = header /\ table.header.recordCount = size
  BY DEF header, size
<1>3. table.format = "WDBC" \/ table.format = "WDB2"
  BY TablesAssumption DEF TableShape, Formats
<1>4. IdTables = 4 * Holds!Ids(table) + 2 * Holds!Ids(table)
  <2>1. CASE table.format = "WDB2" /\ header.maxId # 0
    <3>1. ids \in 0..Wrap - 1
      BY <2>1 DEF NoWrap
    <3>2. ids % Wrap = ids
      <4> HIDE DEF ids
      <4> QED
        BY <1>1, <3>1
    <3>3. IdTables = 6 * ids
      BY <2>1, <3>2 DEF IdTables
    <3>4. Holds!Ids(table) = ids
      BY <1>2, <2>1 DEF Holds!Ids
    <3> HIDE DEF ids
    <3> QED
      BY <1>1, <3>1, <3>3, <3>4
  <2>2. CASE ~(table.format = "WDB2" /\ header.maxId # 0)
    BY <1>2, <1>3, <2>2 DEF IdTables, Holds!Ids
  <2> QED
    BY <2>1, <2>2
<1>5. IdTables \in Nat
  <2>1. ids % Wrap \in Nat
    <3>1. ids \in Int /\ Wrap \in Nat \ {0}
      BY <1>1, BoundsAssumption
    <3> HIDE DEF ids
    <3> QED
      BY <3>1
  <2> QED
    BY <2>1 DEF IdTables
<1>6. ASSUME NEW i \in 0..size
      PROVE  RecordPos(i) = Holds!RecordAt(table, i)
  <2>1. r * i \in 0..Wrap - 1 /\ r * i = i * r
    <3>1. size - i \in Nat /\ i \in Nat /\ size = i + (size - i)
      BY <1>1
    <3>2. r * size = r * i + r * (size - i)
      <4> DEFINE d == size - i
      <4>1. d \in Nat /\ size = i + d
        BY <3>1
      <4> HIDE DEF d
      <4>2. r * (i + d) = r * i + r * d
        BY <1>1, <3>1, <4>1
      <4> QED
        BY <4>1, <4>2 DEF d
    <3>3. r * i \in Nat /\ r * (size - i) \in Nat /\ r * size \in Nat /\ r * size < Wrap
      BY <1>1, <3>1 DEF NoWrap
    <3>4. r * i = i * r
      BY <1>1, <3>1
    <3> DEFINE a == r * i
               c == r * (size - i)
               e == r * size
    <3>5. a \in Nat /\ c \in Nat /\ e \in Nat /\ e = a + c /\ e < Wrap
      BY <3>2, <3>3
    <3> HIDE DEF a, c, e
    <3>6. a \in 0..Wrap - 1
      BY <1>1, <3>5
    <3> QED
      BY <3>4, <3>6 DEF a
  <2>2. (r * i) % Wrap = r * i
    <3> DEFINE a == r * i
    <3>1. a \in 0..Wrap - 1
      BY <2>1
    <3> HIDE DEF a
    <3>2. a % Wrap = a
      BY <1>1, <3>1
    <3> QED
      BY <3>2 DEF a
  <2>3. HeaderSize = IF table.format = "WDBC" THEN 20 ELSE 48
    BY DEF HeaderSize
  <2>4. RecordPos(i) = HeaderSize + IdTables + i * r
    BY <2>1, <2>2 DEF RecordPos
  <2>5. Holds!RecordAt(table, i) = HeaderSize + 4 * Holds!Ids(table) + 2 * Holds!Ids(table) + i * r
    BY <1>2, <2>3 DEF Holds!RecordAt, Holds!Records
  <2>6. Holds!Ids(table) \in Int /\ HeaderSize \in Int
    BY <1>1, <1>2, <2>3 DEF Holds!Ids
  <2> QED
    BY <1>4, <2>4, <2>5, <2>6
<1>7. StringBlock = RecordPos(size)
  BY DEF StringBlock, RecordPos
<1>8. Holds!Strings(table) = Holds!RecordAt(table, size)
  BY <1>2 DEF Holds!Strings
<1> QED
  BY <1>1, <1>6, <1>7, <1>8

At == buffer + bufferOffset

(* What the layout has at an element of the walk.                          *)
LEMMA PlacesOfElement ==
    ASSUME table \in Tables, NoWrap, dataOffset = IdTables, This \in Field, At \in Nat
    PROVE  /\ This.type \in {"INT", "FLOAT"} => Holds!PartOf(table, This, At, 1) = <<"number", At>>
           /\ This.type \in {"STRING", "LANG_STRING"} /\ ~Localized(This) =>
                Holds!PartOf(table, This, At, 1) = <<"string", StringAt(0)>>
           /\ Localized(This) /\ ~table.legacy =>
                Holds!PartOf(table, This, At, 1) = <<"string", StringAt(table.locale)>>
           /\ Localized(This) /\ table.legacy =>
                /\ \A p \in 1..LangStrings :
                    Holds!PartOf(table, This, At, p) = <<"string", StringAt(p - 1)>>
                /\ Holds!PartOf(table, This, At, LangStrings + 1) =
                    <<"number", At + StringRef * LangStrings>>
<1>1. /\ Holds!HasLocales(table, This) <=> Localized(This)
      /\ Localized(This) => Holds!Locales(table) = LangStrings
  BY HeldFacts
<1>2. Holds!Strings(table) = StringBlock
  BY RecordPlaces
<1>3. LangStrings \in Nat \ {0}
  BY DEF LangStrings
<1>4. Localized(This) => This.type = "LANG_STRING"
  BY DEF Localized
<1>5. \A k : StringAt(k) = StringBlock + RefAt(At + 4 * k)
  BY DEF StringAt, StringRef, At
<1>6. At + 4 * 0 = At
  OBVIOUS
<1>7. CASE ~Localized(This)
  BY <1>1, <1>2, <1>5, <1>6, <1>7 DEF Holds!PartOf
<1>8. CASE Localized(This) /\ ~table.legacy
  <2>1. ~(1 > LangStrings)
    BY <1>3
  <2> QED
    BY <1>1, <1>2, <1>4, <1>5, <1>8, <2>1 DEF Holds!PartOf
<1>9. CASE Localized(This) /\ table.legacy
  <2>1. \A p \in 1..LangStrings : ~(p > LangStrings)
    BY <1>3
  <2>2. LangStrings + 1 > LangStrings /\ (LangStrings + 1) - 1 = LangStrings
    BY <1>3
  <2>3. \A p \in 1..LangStrings : Holds!PartOf(table, This, At, p) = <<"string", StringAt(p - 1)>>
    BY <1>1, <1>2, <1>4, <1>5, <1>9, <2>1 DEF Holds!PartOf
  <2>4. Holds!PartOf(table, This, At, LangStrings + 1) = <<"number", At + StringRef * LangStrings>>
    BY <1>1, <1>4, <1>9, <2>2 DEF Holds!PartOf, StringRef
  <2> QED
    BY <1>4, <1>9, <2>3, <2>4
<1> QED
  BY <1>7, <1>8, <1>9

(* The next parts of the row are those of the element of the walk.         *)
LEMMA NextParts ==
    ASSUME WalkInv, Decoding, buffer \in Nat
    PROVE  /\ This \in Field /\ At \in Nat /\ PartsRead \in Nat
           /\ \A p \in 1..PartsOf(field) :
                /\ PartsRead + p \in 1..Before(Len(schema))
                /\ Holds!RowPart(table, buffer, PartsRead + p) = Holds!PartOf(table, This, At, p)
<1>1. /\ table \in Tables /\ field \in 1..Len(schema) /\ z \in Nat /\ z < schema[field].size
      /\ Len(schema) \in Nat /\ This \in Field /\ This = schema[field]
  BY TableFacts DEF WalkInv, Decoding, AtElement, This
<1>2. This.size \in Nat /\ ElementSize(This, StringRef) \in Nat
  BY <1>1, ElementFacts DEF StringRef
<1>3. z \in 0..schema[field].size - 1
  BY <1>1, <1>2
<1> DEFINE S == SizesUpTo(StringRef)[field - 1]
           E == ElementSize(This, StringRef)
<1>4. S \in Nat
  <2>1. field - 1 \in 0..Len(schema)
    BY <1>1
  <2> QED
    BY <1>1, <2>1, SizesFacts DEF StringRef
<1>5. bufferOffset = S + z * E
  BY <1>1 DEF WalkInv, Decoding, AtElement, Passed
<1>6. At = buffer + S + E * z /\ At \in Nat
  <2>1. z * E \in Nat /\ z * E = E * z
    BY <1>1, <1>2
  <2> DEFINE q == z * E
  <2>2. q \in Nat /\ bufferOffset = S + q
    BY <1>5, <2>1
  <2> HIDE DEF q, S, E
  <2>3. At = buffer + S + q /\ At \in Nat
    BY <1>4, <2>2 DEF At
  <2> QED
    BY <2>1, <2>3 DEF q
<1>7. PartsRead = Before(field - 1) + z * PartsOf(field)
  BY <1>1 DEF PartsRead
<1>8. PartsRead \in Nat
  <2>1. field - 1 \in 0..Len(schema)
    BY <1>1
  <2>2. Before(field - 1) \in Nat /\ PartsOf(field) \in Nat
    BY <1>1, <2>1, PartsFacts
  <2> QED
    BY <1>1, <1>7, <2>2
<1>9. ASSUME NEW p \in 1..PartsOf(field)
      PROVE  /\ PartsRead + p \in 1..Before(Len(schema))
             /\ Holds!RowPart(table, buffer, PartsRead + p) = Holds!PartOf(table, This, At, p)
  <2> DEFINE m == Before(field - 1) + z * PartsOf(field) + p
  <2>1. /\ m \in 1..Before(Len(schema))
        /\ Holds!RowPart(table, buffer, m) =
             Holds!PartOf(table, schema[field],
                buffer + SizesUpTo(StringRef)[field - 1] + ElementSize(schema[field], StringRef) * z, p)
    BY <1>1, <1>3, PartHere
  <2>2. m = PartsRead + p
    BY <1>7
  <2> QED
    BY <1>1, <1>6, <2>1, <2>2
<1> QED
  BY <1>1, <1>6, <1>8, <1>9

\* The parts of an element, added to those read so far.
LEMMA InsertRight ==
    ASSUME WalkInv, RowInv, Decoding, table' = table, UNCHANGED <<dataOffset, buffer, index>>,
           buffer \in Nat,
           NEW U, NEW elements \in Seq(U), NEW bytes, NEW view, Insert(elements, bytes, view),
           Len(elements) = PartsOf(field), HasInteger(This),
           InTable => \A p \in 1..Len(elements) :
                        /\ Plain(elements[p]) = Holds!PartOf(table, This, At, p)
                        /\ InFile(elements[p])
    PROVE  RowInv'
<1>1. PICK T : record \in Seq(T)
  BY DEF WalkInv
<1>2. /\ table \in Tables /\ field \in 1..Len(schema) /\ z \in Nat /\ z < This.size
      /\ Len(schema) \in Nat /\ This \in Field /\ This = schema[field]
  BY TableFacts DEF WalkInv, Decoding, AtElement, This
<1>3. pc = "decoding" /\ pc' = "decoding" /\ Len(record) = PartsRead /\ PartsRead \in Nat
  BY NextParts DEF Insert, Decoding, RowInv
<1>4. PartsOf(field) \in Nat \ {0} /\ This.size \in Nat \ {0}
  BY <1>2, PartsFacts
<1>5. /\ Len(record') = PartsRead + PartsOf(field)
      /\ \A m \in 1..PartsRead : record'[m] = record[m]
      /\ \A p \in 1..PartsOf(field) : record'[PartsRead + p] = elements[p]
  <2> DEFINE V == T \union U
             P == PartsOf(field)
             R == PartsRead
  <2>1. record \in Seq(V) /\ elements \in Seq(V)
    BY <1>1
  <2>2. Len(record) = R /\ Len(elements) = P /\ R \in Nat /\ P \in Nat
    BY <1>3, <1>4
  <2> HIDE DEF V, P, R
  <2> DEFINE r == record \o elements
  <2>3. /\ Len(r) = Len(record) + Len(elements)
        /\ \A m \in 1..Len(record) : r[m] = record[m]
        /\ \A p \in 1..Len(elements) : r[Len(record) + p] = elements[p]
    <3>1. Len(r) = Len(record) + Len(elements)
      BY <2>1, JoinFacts
    <3>2. \A m \in 1..Len(record) : r[m] = record[m]
      BY <2>1, JoinFacts
    <3>3. \A p \in 1..Len(elements) : r[Len(record) + p] = elements[p]
      BY <2>1, JoinFacts
    <3> QED
      BY <3>1, <3>2, <3>3
  <2>4. record' = r
    BY DEF Insert
  <2> HIDE DEF r
  <2>5. /\ Len(record') = R + P
        /\ \A m \in 1..R : record'[m] = record[m]
        /\ \A p \in 1..P : record'[R + p] = elements[p]
    BY <2>2, <2>3, <2>4
  <2> QED
    BY <2>5 DEF P, R
<1>6. \/ z + 1 < This.size /\ z' = z + 1 /\ field' = field
      \/ z + 1 = This.size /\ z' = 0 /\ field' = field + 1
  BY <1>2, <1>4 DEF Insert
<1>7. /\ schema' = schema /\ InTable' = InTable /\ \A k : Before(k)' = Before(k)
      /\ \A k : PartsOf(k)' = PartsOf(k)
      /\ \A f : HasInteger(f)' = HasInteger(f)
  BY LayoutKept DEF InTable
<1>8. PartsRead' = PartsRead + PartsOf(field)
  <2> DEFINE b == Before(field - 1)
             P == PartsOf(field)
             n == This.size
  <2>1. b \in Nat /\ P \in Nat /\ n \in Nat /\ Before(field) = b + P * n /\ Before(field) \in Nat
    <3>1. field - 1 \in 0..Len(schema) /\ field \in 0..Len(schema)
      BY <1>2
    <3> QED
      BY <1>2, <1>4, <3>1, PartsFacts
  <2>2. PartsRead = b + z * P
    BY <1>2 DEF PartsRead
  <2>3. PartsRead' = IF field' <= Len(schema) THEN Before(field' - 1) + z' * PartsOf(field')
                     ELSE Before(Len(schema))
    BY <1>7 DEF PartsRead, Before, PartsOf
  <2>4. (z + 1) * P = z * P + P /\ z * P \in Nat /\ (z + 1 = n => z * P + P = P * n)
    <3>1. z \in Nat /\ z < n
      BY <1>2
    <3> HIDE DEF P, n
    <3> QED
      BY <2>1, <3>1, OneMore
  <2>5. CASE z + 1 < This.size /\ z' = z + 1 /\ field' = field
    <3>1. PartsRead' = b + (z + 1) * P
      BY <1>2, <2>3, <2>5
    <3> DEFINE q == z * P
    <3>2. q \in Nat /\ PartsRead' = b + (q + P) /\ PartsRead = b + q
      BY <2>2, <2>4, <3>1
    <3> HIDE DEF q, b, P
    <3>3. PartsRead' = PartsRead + P
      BY <2>1, <3>2
    <3> QED
      BY <3>3 DEF P
  <2>6. CASE z + 1 = This.size /\ z' = 0 /\ field' = field + 1
    <3>1. PartsRead' = Before(field)
      <4>1. CASE field + 1 <= Len(schema)
        <5>1. field + 1 \in 1..Len(schema) /\ (field + 1) - 1 = field
          BY <1>2, <4>1
        <5>2. PartsOf(field + 1) \in Nat
          BY <1>2, <5>1, PartsFacts
        <5>3. 0 * PartsOf(field + 1) = 0
          BY <5>2
        <5>4. PartsRead' = Before(field) + 0 * PartsOf(field + 1)
          BY <2>3, <2>6, <4>1, <5>1
        <5> QED
          BY <2>1, <5>3, <5>4
      <4>2. CASE field = Len(schema)
        BY <1>2, <2>3, <2>6, <4>2
      <4> QED
        BY <1>2, <4>1, <4>2
    <3> DEFINE q == z * P
               t == P * n
    <3>2. q \in Nat /\ t = q + P /\ PartsRead = b + q /\ PartsRead' = b + t
      BY <2>1, <2>2, <2>4, <2>6, <3>1
    <3> HIDE DEF q, t, b, P
    <3>3. PartsRead' = PartsRead + P
      BY <2>1, <3>2
    <3> QED
      BY <3>3 DEF P
  <2> QED
    BY <1>6, <2>5, <2>6
<1>9. ASSUME NEW k \in 1..field' - 1 PROVE HasInteger(schema[k])
  <2>1. k \in 1..field - 1 \/ k = field
    BY <1>2, <1>6
  <2> QED
    BY <1>2, <1>3, <2>1 DEF RowInv
<1>10. ASSUME InTable, NEW m \in 1..Len(record')
       PROVE  Plain(record'[m]) = Holds!RowPart(table, buffer, m) /\ InFile(record'[m])
  <2>1. CASE m \in 1..PartsRead
    <3>1. Plain(record[m]) = Holds!RowPart(table, buffer, m) /\ InFile(record[m])
      BY <1>3, <1>10, <2>1 DEF RowInv
    <3> QED
      BY <1>5, <2>1, <3>1
  <2>2. CASE ~(m \in 1..PartsRead)
    <3>1. PICK p \in 1..PartsOf(field) : m = PartsRead + p
      <4>1. m - PartsRead \in 1..PartsOf(field) /\ m = PartsRead + (m - PartsRead)
        BY <1>3, <1>4, <1>5, <2>2
      <4> QED
        BY <4>1
    <3>2. record'[m] = elements[p]
      BY <1>5, <3>1
    <3>3. Holds!RowPart(table, buffer, m) = Holds!PartOf(table, This, At, p)
      BY <3>1, NextParts
    <3>4. Plain(elements[p]) = Holds!PartOf(table, This, At, p) /\ InFile(elements[p])
      BY <1>10
    <3> QED
      BY <3>2, <3>3, <3>4
  <2> QED
    BY <2>1, <2>2
<1>11. \A part : Plain(part)' = Plain(part) /\ InFile(part)' = InFile(part)
  BY DEF Plain, InFile
<1>12. /\ RecordPos(index)' = RecordPos(index) /\ header' = header
       /\ HeaderSize' = HeaderSize /\ IdTables' = IdTables
  BY LayoutKept DEF RecordPos, HeaderSize
<1>13. index \in Nat /\ dataOffset = IdTables /\ buffer = RecordPos(index)
       /\ buffer + header.recordSize <= table.length
  BY <1>3 DEF RowInv
<1>14. Len(record') = PartsRead'
  BY <1>5, <1>8
<1>15. (InTable => \A m \in 1..Len(record) :
                      Plain(record[m]) = Holds!RowPart(table, buffer, m) /\ InFile(record[m]))'
  BY <1>7, <1>10 DEF Plain, InFile
<1>16. \A k \in 1..field' - 1 : HasInteger(schema'[k])
  BY <1>7, <1>9
<1> QED
  BY <1>3, <1>12, <1>13, <1>14, <1>15, <1>16 DEF RowInv, Plain, InFile, HasInteger

LEMMA RecordPosTypes ==
    ASSUME table \in Tables, dataOffset = IdTables, NEW i \in Nat
    PROVE  RecordPos(i) \in Nat
<1>1. /\ header.maxId \in Nat /\ header.minId \in Nat /\ header.recordSize \in Nat
      /\ Wrap \in Nat \ {0}
  BY TableFacts, BoundsAssumption
<1>2. \A n \in Int : n % Wrap \in Nat
  BY <1>1
<1>3. (header.maxId - header.minId + 1) % Wrap \in Nat
  BY <1>1, <1>2
<1>4. dataOffset \in Nat
  BY <1>3 DEF IdTables
<1>5. header.recordSize * i \in Int
  BY <1>1
<1>6. (header.recordSize * i) % Wrap \in Nat
  BY <1>2, <1>5
<1>7. HeaderSize \in Nat
  BY DEF HeaderSize
<1> QED
  BY <1>4, <1>6, <1>7 DEF RecordPos

\* Where the record buffer is.
LEMMA BufferFacts ==
    ASSUME WalkInv, RowInv, Decoding
    PROVE  /\ table \in Tables /\ index \in Nat /\ size \in Nat /\ buffer \in Nat
           /\ dataOffset = IdTables
           /\ InTable => index \in 0..size /\ Holds!RecordAt(table, index) = buffer
<1>1. pc = "decoding" /\ table \in Tables /\ index \in Nat
  BY DEF Decoding, WalkInv, RowInv
<1>2. dataOffset = IdTables /\ buffer = RecordPos(index)
  BY <1>1 DEF RowInv
<1>3. buffer \in Nat /\ size \in Nat
  BY <1>1, <1>2, RecordPosTypes, TableFacts DEF size
<1>4. InTable => index \in 0..size
  BY <1>1, <1>3 DEF InTable
<1>5. InTable => RecordPos(index) = Holds!RecordAt(table, index)
  BY <1>1, <1>2, <1>4, RecordPlaces DEF InTable
<1> QED
  BY <1>1, <1>2, <1>3, <1>4, <1>5

\* A string behind the end of the file is a reason to refuse the row.
LEMMA RefusedPart ==
    ASSUME WalkInv, RowInv, Decoding, InTable, NEW p \in 1..PartsOf(field), NEW a,
           Holds!PartOf(table, This, At, p) = <<"string", a>>, ~(a <= table.length)
    PROVE  ~Holds!RowReadable(table, index)
<1> DEFINE m == PartsRead + p
           parts == Holds!RowParts(table, index)
<1>1. m \in 1..Before(Len(schema)) /\ Holds!RowPart(table, buffer, m) = <<"string", a>>
  BY BufferFacts, NextParts
<1>2. parts = [i \in 1..Before(Len(schema)) |-> Holds!RowPart(table, buffer, i)]
  <2>1. table.schema = schema /\ Holds!RecordAt(table, index) = buffer
    BY BufferFacts DEF schema
  <2> QED
    BY <2>1 DEF Holds!RowParts, Before
<1> HIDE DEF m
<1>3. m \in DOMAIN parts /\ parts[m] = <<"string", a>>
  BY <1>1, <1>2
<1> HIDE DEF parts
<1>4. parts[m][1] = "string" /\ parts[m][2] = a
  BY <1>3
<1>5. ~(parts[m][1] = "string" => parts[m][2] <= table.length)
  BY <1>4
<1> QED
  BY <1>3, <1>5 DEF Holds!RowReadable, parts

\* A string put into the record, or the row refused for it.
LEMMA StringRight ==
    ASSUME WalkInv, RowInv, Decoding, table' = table, UNCHANGED <<dataOffset, buffer, index>>,
           NEW k, NEW bytes, InsertStringOf(k, bytes), PartsOf(field) = 1, HasInteger(This),
           InTable => Holds!PartOf(table, This, At, 1) = <<"string", StringAt(k)>>
    PROVE  RowInv'
<1>1. CASE Readable(k)
  <2> DEFINE part == String(StringAt(k), viewOffset)
  <2>1. Insert(<<part>>, bytes, StringData)
    BY <1>1 DEF InsertStringOf
  <2>2. Plain(part) = <<"string", StringAt(k)>> /\ InFile(part)
    BY <1>1 DEF String, Plain, InFile, Readable
  <2> HIDE DEF part
  <2>3. <<part>> \in Seq({part}) /\ Len(<<part>>) = 1 /\ <<part>>[1] = part
    OBVIOUS
  <2>4. InTable => \A p \in 1..Len(<<part>>) :
                        /\ Plain(<<part>>[p]) = Holds!PartOf(table, This, At, p)
                        /\ InFile(<<part>>[p])
    <3>1. \A p \in 1..1 : p = 1
      OBVIOUS
    <3> QED
      BY <2>2, <2>3, <3>1
  <2> QED
    BY <2>1, <2>3, <2>4, BufferFacts, InsertRight
<1>2. CASE ~Readable(k)
  <2>1. pc' = "thrown"
    BY <1>2 DEF InsertStringOf, Throw
  <2>2. InTable => ~Holds!RowReadable(table, index)
    <3>1. 1 \in 1..PartsOf(field) /\ ~(StringAt(k) <= table.length)
      BY <1>2 DEF Readable
    <3> QED
      BY <3>1, RefusedPart
  <2>3. InTable' = InTable /\ IdTables' = IdTables
    BY LayoutKept DEF InTable
  <2> QED
    BY <2>1, <2>2, <2>3, BufferFacts DEF RowInv
<1> QED
  BY <1>1, <1>2

LEMMA InsertionRight ==
    ASSUME WalkInv, RowInv, Insertion
    PROVE  RowInv'
<1>1. table' = table /\ UNCHANGED <<dataOffset, buffer, index>> /\ Decoding
  BY DEF Insertion, InsertNumber, InsertString, InsertLangString, InsertLegacyLangString
<1>2. /\ table \in Tables /\ buffer \in Nat /\ dataOffset = IdTables /\ index \in Nat
      /\ This \in Field /\ At \in Nat
  BY <1>1, BufferFacts, NextParts
<1>3. PartsOf(field) = IF Localized(This) /\ table.legacy THEN LangStrings + 1 ELSE 1
  BY <1>2, HeldFacts DEF PartsOf, This
<1>4. field \in 1..Len(schema) /\ table.schema = schema /\ table.schema[field] = This
  <2>1. Len(schema) \in Nat
    BY <1>2, TableFacts
  <2> QED
    BY <1>1, <2>1 DEF Decoding, WalkInv, AtElement, This, schema
<1>5. InTable => NoWrap
  BY DEF InTable
<1>6. CASE InsertNumber
  <2>1. CASE HasInteger(This)
    <3> DEFINE part == Number(At, This.bytes, viewOffset)
    <3>1. Insert(<<part>>, This.bytes, This.bytes) /\ This.type \in {"INT", "FLOAT"}
      BY <1>6, <2>1 DEF InsertNumber, HasInteger, At
    <3>2. PartsOf(field) = 1
      BY <1>3, <3>1 DEF Localized
    <3>3. InTable => Holds!PartOf(table, This, At, 1) = <<"number", At>>
      BY <1>2, <1>5, <3>1, PlacesOfElement
    <3>4. Plain(part) = <<"number", At>> /\ InFile(part)
      BY DEF Number, Plain, InFile
    <3> HIDE DEF part
    <3>5. <<part>> \in Seq({part}) /\ Len(<<part>>) = 1 /\ <<part>>[1] = part
      OBVIOUS
    <3>6. InTable => \A p \in 1..Len(<<part>>) :
                          /\ Plain(<<part>>[p]) = Holds!PartOf(table, This, At, p)
                          /\ InFile(<<part>>[p])
      <4>1. \A p \in 1..1 : p = 1
        OBVIOUS
      <4> QED
        BY <3>3, <3>4, <3>5, <4>1
    <3> QED
      BY <1>1, <1>2, <2>1, <3>1, <3>2, <3>5, <3>6, InsertRight
  <2>2. CASE ~HasInteger(This)
    <3>1. pc' = "thrown"
      BY <1>6, <2>2 DEF InsertNumber, HasInteger, Throw
    <3>2. ~Holds!RowReadable(table, index)
      BY <1>4, <2>2 DEF Holds!RowReadable, HasInteger
    <3>3. IdTables' = IdTables
      BY <1>1, LayoutKept
    <3>4. Holds!RowReadable(table, index)' = Holds!RowReadable(table, index)
      BY <1>1
    <3> QED
      BY <1>1, <1>2, <3>1, <3>2, <3>3, <3>4 DEF RowInv
  <2> QED
    BY <2>1, <2>2
<1>7. CASE InsertString
  <2>1. InsertStringOf(0, StringRef) /\ This.type \in {"STRING", "LANG_STRING"} /\ ~Localized(This)
    BY <1>7 DEF InsertString
  <2>2. PartsOf(field) = 1 /\ HasInteger(This)
    BY <1>3, <2>1 DEF HasInteger
  <2>3. InTable => Holds!PartOf(table, This, At, 1) = <<"string", StringAt(0)>>
    BY <1>2, <1>5, <2>1, PlacesOfElement
  <2> QED
    BY <1>1, <2>1, <2>2, <2>3, StringRight
<1>8. CASE InsertLangString
  <2>1. InsertStringOf(table.locale, LangStringSize) /\ Localized(This) /\ ~table.legacy
    BY <1>8 DEF InsertLangString
  <2>2. PartsOf(field) = 1 /\ HasInteger(This)
    BY <1>3, <2>1 DEF HasInteger, Localized
  <2>3. InTable => Holds!PartOf(table, This, At, 1) = <<"string", StringAt(table.locale)>>
    BY <1>2, <1>5, <2>1, PlacesOfElement
  <2> QED
    BY <1>1, <2>1, <2>2, <2>3, StringRight
<1>9. CASE InsertLegacyLangString
  <2> DEFINE n == LangStrings
  <2>1. n \in Nat \ {0} /\ Localized(This) /\ table.legacy
    BY <1>9 DEF InsertLegacyLangString, LangStrings
  <2>2. PartsOf(field) = n + 1 /\ HasInteger(This)
    BY <1>3, <2>1 DEF HasInteger, Localized
  <2>3. InTable =>
          /\ \A p \in 1..n : Holds!PartOf(table, This, At, p) = <<"string", StringAt(p - 1)>>
          /\ Holds!PartOf(table, This, At, n + 1) = <<"number", At + StringRef * n>>
    BY <1>2, <1>5, <2>1, PlacesOfElement
  <2>4. CASE \A k \in 0..n - 1 : Readable(k)
    <3> DEFINE strings == [k \in 1..n |-> String(StringAt(k - 1), viewOffset + StringData * (k - 1))]
               flags == Number(At + StringRef * n, 4, viewOffset + StringData * n)
               elements == strings \o <<flags>>
               T == {strings[k] : k \in 1..n} \union {flags}
    <3>1. Insert(elements, LangStringSize, n * StringData + 4)
      BY <1>9, <2>4 DEF InsertLegacyLangString, At
    <3>2. /\ \A k \in 1..n : Plain(strings[k]) = <<"string", StringAt(k - 1)>> /\ InFile(strings[k])
          /\ Plain(flags) = <<"number", At + StringRef * n>> /\ InFile(flags)
      <4>1. \A k \in 1..n : Readable(k - 1)
        BY <2>1, <2>4
      <4> QED
        BY <4>1 DEF String, Number, Plain, InFile, Readable
    <3>3. strings \in Seq(T) /\ <<flags>> \in Seq(T) /\ Len(strings) = n
      <4>1. (\A k \in 1..n : strings[k] \in T) /\ flags \in T
        <5> HIDE DEF strings, flags
        <5> QED
          OBVIOUS
      <4>2. strings = [k \in 1..n |-> strings[k]]
        OBVIOUS
      <4> HIDE DEF T, strings, flags
      <4>3. strings \in [1..n -> T]
        BY <4>1, <4>2
      <4>4. strings \in Seq(T) /\ Len(strings) = n
        BY <2>1, <4>3
      <4> QED
        BY <4>1, <4>4
    <3>4. /\ elements \in Seq(T) /\ Len(elements) = n + 1
          /\ \A k \in 1..n : elements[k] = strings[k]
          /\ elements[n + 1] = flags
      <4> HIDE DEF T, strings, flags
      <4> QED
        BY <2>1, <3>3
    <3> HIDE DEF T, strings, flags, elements
    <3>5. InTable => \A p \in 1..Len(elements) :
                        /\ Plain(elements[p]) = Holds!PartOf(table, This, At, p)
                        /\ InFile(elements[p])
      <4>1. \A p \in 1..n + 1 : p \in 1..n \/ p = n + 1
        BY <2>1
      <4> QED
        BY <2>3, <3>2, <3>4, <4>1
    <3> QED
      BY <1>1, <1>2, <2>2, <3>1, <3>4, <3>5, InsertRight
  <2>5. CASE ~(\A k \in 0..n - 1 : Readable(k))
    <3>1. pc' = "thrown"
      BY <1>9, <2>5 DEF InsertLegacyLangString, Throw
    <3>2. PICK k \in 0..n - 1 : ~(StringAt(k) <= table.length)
      BY <2>5 DEF Readable
    <3>3. InTable => ~Holds!RowReadable(table, index)
      <4>1. k + 1 \in 1..n /\ (k + 1) - 1 = k /\ k + 1 \in 1..PartsOf(field)
        BY <2>1, <2>2
      <4>2. InTable => Holds!PartOf(table, This, At, k + 1) = <<"string", StringAt(k)>>
        BY <2>3, <4>1
      <4> QED
        BY <1>1, <3>2, <4>1, <4>2, RefusedPart
    <3>4. IdTables' = IdTables /\ InTable' = InTable
      BY <1>1, LayoutKept DEF InTable
    <3>5. Holds!RowReadable(table, index)' = Holds!RowReadable(table, index)
      BY <1>1
    <3> QED
      BY <1>1, <1>2, <3>1, <3>3, <3>4, <3>5 DEF RowInv
  <2> QED
    BY <2>4, <2>5
<1> QED
  BY <1>6, <1>7, <1>8, <1>9 DEF Insertion

\* One record behind the other.
LEMMA NextRecord ==
    ASSUME table \in Tables, NEW i \in Nat
    PROVE  Holds!RecordAt(table, i + 1) = Holds!RecordAt(table, i) + header.recordSize
<1> DEFINE r == header.recordSize
           a == Holds!Records(table)
<1>1. r \in Nat /\ table.header = header /\ header.maxId \in Nat /\ header.minId \in Nat
  BY TableFacts DEF header
<1>2. a \in Int
  <2>1. Holds!Ids(table) \in Int
    BY <1>1 DEF Holds!Ids
  <2> QED
    BY <2>1 DEF Holds!Records
<1>3. Holds!RecordAt(table, i + 1) = a + (i + 1) * r /\ Holds!RecordAt(table, i) = a + i * r
  BY <1>1 DEF Holds!RecordAt
<1> HIDE DEF a, r
<1>4. (i + 1) * r = i * r + r /\ i * r \in Int
  BY <1>1
<1>5. a + (i + 1) * r = a + i * r + r
  BY <1>1, <1>2, <1>4
<1> QED
  BY <1>3, <1>5 DEF r

LEMMA RowInductive == WalkInv /\ RowInv /\ [Steps]_vars => RowInv'
<1> SUFFICES ASSUME WalkInv, RowInv, [Steps]_vars PROVE RowInv'
  OBVIOUS
<1>1. table \in Tables /\ index \in Nat
  BY DEF WalkInv, RowInv
<1>2. ASSUME table' = table
      PROVE  /\ schema' = schema /\ header' = header /\ IdTables' = IdTables /\ NoWrap' = NoWrap
             /\ size' = size /\ PartsRead' = IF field' <= Len(schema)
                                            THEN Before(field' - 1) + z' * PartsOf(field')
                                            ELSE Before(Len(schema))
             /\ HeaderSize' = HeaderSize
  BY <1>2, LayoutKept DEF PartsRead, HeaderSize, Before, PartsOf
<1>3. CASE Open
  <2>1. table' = table /\ index' = index /\ pc' \in {"refused", "ready"}
        /\ (pc' = "ready" => dataOffset' = IdTables)
    BY <1>3 DEF Open, call
  <2> QED
    BY <1>1, <1>2, <2>1 DEF RowInv
<1>4. ASSUME NEW i \in Nat, Ask(i) PROVE RowInv'
  <2>1. /\ table' = table /\ index' = i /\ pc' = "asked" /\ pos' = RecordPos(i)
        /\ dataOffset' = dataOffset /\ pc \notin {"new", "refused"}
    BY <1>4 DEF Ask, Idle
  <2>2. RecordPos(index)' = RecordPos(i)
    BY <1>2, <2>1 DEF RecordPos
  <2> QED
    BY <1>2, <2>1, <2>2 DEF RowInv
<1>5. CASE ReadRecord
  <2>1. /\ table' = table /\ index' = index /\ dataOffset' = dataOffset /\ pc = "asked"
        /\ pos = RecordPos(index) /\ dataOffset = IdTables
    BY <1>5 DEF ReadRecord, RowInv
  <2>2. RecordPos(index)' = RecordPos(index)
    BY <1>2, <2>1 DEF RecordPos
  <2>3. CASE CanRead(header.recordSize)
    <3>1. /\ pc' = "decoding" /\ buffer' = pos /\ field' = 1 /\ z' = 0 /\ record' = << >>
          /\ pos + header.recordSize <= table.length
      BY <1>5, <2>3 DEF ReadRecord, CanRead
    <3>2. PartsRead' = 0
      <4>1. Len(schema) \in Nat /\ Before(0) = 0
        BY <1>1, TableFacts, PartsFacts
      <4>2. CASE 1 <= Len(schema)
        <5>1. 1 \in 1..Len(schema) /\ 1 - 1 = 0
          BY <4>1, <4>2
        <5>2. PartsOf(1) \in Nat
          BY <1>1, <5>1, PartsFacts
        <5>3. 0 * PartsOf(1) = 0
          BY <5>2
        <5>4. PartsRead' = Before(1 - 1) + 0 * PartsOf(1)
          BY <1>2, <2>1, <3>1, <4>2
        <5> QED
          BY <4>1, <5>1, <5>3, <5>4
      <4>3. CASE Len(schema) = 0
        BY <1>2, <2>1, <3>1, <4>1, <4>3
      <4> QED
        BY <4>1, <4>2, <4>3
    <3>3. Len(record') = 0 /\ 1..Len(record') = {} /\ 1..field' - 1 = {}
      BY <3>1
    <3>4. buffer' + header'.recordSize <= table'.length
      BY <1>2, <2>1, <3>1
    <3> QED
      BY <1>1, <1>2, <2>1, <2>2, <3>1, <3>2, <3>3, <3>4 DEF RowInv
  <2>4. CASE ~CanRead(header.recordSize)
    <3>1. pc' = "thrown"
      BY <1>5, <2>4 DEF ReadRecord, Throw
    <3>2. InTable => ~Holds!RowReadable(table, index)
      <4> SUFFICES ASSUME InTable PROVE ~Holds!RowReadable(table, index)
        OBVIOUS
      <4>1. size \in Nat /\ index \in 0..size
        <5>1. size \in Nat
          BY <1>1, TableFacts DEF size
        <5> QED
          BY <1>1, <5>1 DEF InTable
      <4>2. Holds!RecordAt(table, index) = pos
        BY <1>1, <2>1, <4>1, RecordPlaces DEF InTable
      <4>3. ~(Holds!RecordAt(table, index + 1) <= table.length)
        BY <1>1, <2>4, <4>2, NextRecord DEF CanRead
      <4> QED
        BY <4>3 DEF Holds!RowReadable
    <3>3. InTable' = InTable
      BY <1>2, <2>1 DEF InTable
    <3>4. Holds!RowReadable(table, index)' = Holds!RowReadable(table, index)
      BY <2>1
    <3> QED
      BY <1>1, <1>2, <2>1, <3>1, <3>2, <3>3, <3>4 DEF RowInv
  <2> QED
    BY <2>3, <2>4
<1>6. CASE Insertion
  BY <1>6, InsertionRight
<1>7. ASSUME UNCHANGED <<table, dataOffset, buffer, index, field, z, record>>
      PROVE  /\ PartsRead' = PartsRead /\ RecordPos(index)' = RecordPos(index)
             /\ InTable' = InTable /\ schema' = schema /\ header' = header /\ IdTables' = IdTables
             /\ Holds!RowReadable(table, index)' = Holds!RowReadable(table, index)
  <2>1. PartsRead' = PartsRead
    BY <1>2, <1>7 DEF PartsRead
  <2> QED
    BY <1>2, <1>7, <2>1 DEF RecordPos, InTable
<1>8. CASE Return
  <2>1. /\ pc = "decoding" /\ field > Len(schema) /\ pc' = "returned"
        /\ UNCHANGED <<table, dataOffset, buffer, index, field, z, record>>
    BY <1>8 DEF Return, call
  <2>2. field = Len(schema) + 1
    <3>1. field \in 1..Len(schema) + 1 /\ Len(schema) \in Nat
      BY <1>1, <2>1, TableFacts DEF WalkInv, AtElement
    <3> QED
      BY <2>1, <3>1
  <2> QED
    BY <1>7, <2>1, <2>2 DEF RowInv, Plain, InFile, HasInteger
<1>9. CASE UNCHANGED vars
  <2>1. UNCHANGED <<table, dataOffset, buffer, index, field, z, record>> /\ pc' = pc /\ pos' = pos
    BY <1>9 DEF vars, call
  <2> QED
    BY <1>7, <2>1 DEF RowInv, Plain, InFile, HasInteger
<1> QED
  BY <1>3, <1>4, <1>5, <1>6, <1>8, <1>9 DEF Steps, CallStep

LEMMA RowInit == Init => RowInv
BY DEF Init, RowInv

LEMMA RowsRight == Spec => [](WalkInv /\ RowInv)
<1> QED
  BY WalkInit, RowInit, NextSteps, WalkInductive, RowInductive, PTL DEF Spec

\* The row that was walked to its end.
LEMMA WholeRow ==
    ASSUME WalkInv, RowInv, pc = "returned", InTable
    PROVE  /\ DOMAIN record = 1..Len(record)
           /\ Holds!RowParts(table, index)
                = [m \in 1..Len(record) |-> Holds!RowPart(table, buffer, m)]
           /\ \A m \in 1..Len(record) :
                Plain(record[m]) = Holds!RowPart(table, buffer, m) /\ InFile(record[m])
           /\ Holds!RecordAt(table, index + 1) <= table.length
           /\ \A k \in 1..Len(schema) : HasInteger(schema[k])
<1>1. /\ table \in Tables /\ index \in Nat /\ dataOffset = IdTables /\ buffer = RecordPos(index)
      /\ field = Len(schema) + 1 /\ Len(record) = PartsRead
      /\ buffer + header.recordSize <= table.length
  BY DEF WalkInv, RowInv
<1>2. Len(schema) \in Nat /\ size \in Nat /\ table.schema = schema
  BY <1>1, TableFacts DEF size, schema
<1>3. Holds!RecordAt(table, index) = buffer
  <2>1. index \in 0..size
    BY <1>1, <1>2 DEF InTable
  <2> QED
    BY <1>1, <2>1, RecordPlaces DEF InTable
<1>4. PartsRead = Holds!PartsUpTo(table)[Len(table.schema)]
  BY <1>1, <1>2 DEF PartsRead, Before
<1>5. DOMAIN record = 1..Len(record)
  <2>1. PICK T : record \in Seq(T)
    BY DEF WalkInv
  <2> QED
    BY <2>1
<1>6. Holds!RowParts(table, index) = [m \in 1..Len(record) |-> Holds!RowPart(table, buffer, m)]
  BY <1>1, <1>3, <1>4 DEF Holds!RowParts
<1>7. Holds!RecordAt(table, index + 1) <= table.length
  BY <1>1, <1>3, NextRecord
<1>8. \A k \in 1..Len(schema) : HasInteger(schema[k])
  <2>1. field - 1 = Len(schema)
    BY <1>1, <1>2
  <2> QED
    BY <2>1 DEF RowInv
<1> QED
  BY <1>5, <1>6, <1>7, <1>8 DEF RowInv

LEMMA DecodedFromInv == WalkInv /\ RowInv => RowDecoded
<1> SUFFICES ASSUME WalkInv, RowInv, pc = "returned", InTable
             PROVE  [k \in DOMAIN record |-> <<record[k].kind, record[k].at>>]
                      = Holds!RowParts(table, index)
  BY DEF RowDecoded, InTable
<1> QED
  BY WholeRow DEF Plain

LEMMA RefusedFromInv == WalkInv /\ RowInv => RefusedRows
<1> SUFFICES ASSUME WalkInv, RowInv, pc \in {"returned", "thrown"}, InTable
             PROVE  pc = "returned" <=> Holds!RowReadable(table, index)
  BY DEF RefusedRows, InTable
<1>1. CASE pc = "thrown"
  BY <1>1 DEF RowInv
<1>2. CASE pc = "returned"
  <2> DEFINE parts == Holds!RowParts(table, index)
  <2>1. DOMAIN parts = 1..Len(record)
    BY <1>2, WholeRow
  <2>2. ASSUME NEW m \in DOMAIN parts, parts[m][1] = "string"
        PROVE  parts[m][2] <= table.length
    <3>1. m \in 1..Len(record) /\ parts[m] = <<record[m].kind, record[m].at>>
      BY <1>2, <2>1, WholeRow DEF Plain
    <3> HIDE DEF parts
    <3>2. record[m].kind = "string" /\ parts[m][2] = record[m].at
      BY <2>2, <3>1
    <3>3. InFile(record[m])
      BY <1>2, <3>1, WholeRow
    <3> QED
      BY <3>2, <3>3 DEF InFile
  <2>3. \A k \in 1..Len(table.schema) :
          table.schema[k].type = "INT" => table.schema[k].bytes \in {1, 2, 4, 8}
    BY <1>2, WholeRow DEF HasInteger, schema
  <2>4. Holds!RecordAt(table, index + 1) <= table.length
    BY <1>2, WholeRow
  <2> QED
    BY <1>2, <2>2, <2>3, <2>4 DEF Holds!RowReadable
<1> QED
  BY <1>1, <1>2

(* A record that operator[] gives has the numbers and the strings the file *)
(* holds for its row, in the order of the schema: for every schema,        *)
(* format, version and number of locales, and whatever the string          *)
(* references say (DBCFile.hpp:292-409, DB2File.hpp:886-943).              *)
THEOREM RowsDecodedRight == Spec => []RowDecoded
<1> QED
  BY RowsRight, DecodedFromInv, PTL

(* operator[] refuses a row if and only if its record or one of its        *)
(* strings is not in the file, or its schema has an integer the library    *)
(* does not know (DBCFile.hpp:292-409, DB2File.hpp:886-943).               *)
THEOREM RowsRefusedRight == Spec => []RefusedRows
<1> QED
  BY RowsRight, RefusedFromInv, PTL
=============================================================================
