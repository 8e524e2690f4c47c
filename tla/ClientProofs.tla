---------------------------- MODULE ClientProofs ----------------------------
(***************************************************************************)
(* Theorems about the parts a client composes, for files of any size, any  *)
(* calls and any number of failures, records of any fields and bytes of    *)
(* any number of bits: each source is a FileSource; get<>() returns only   *)
(* when all its names were found, and is refused only when they cannot be; *)
(* a bit-packed value has the bits of its place; the file comes from the   *)
(* archive that overrides the others; detection gives the clients that are *)
(* there; a decoded field is the number its bits stand for; get<>() gives  *)
(* the values of the fields as asked for, but for a sign it loses; and a   *)
(* program opens the table that is there and no other, and every end has   *)
(* its cause.                                                              *)
(***************************************************************************)
EXTENDS ClientProperties, LeastElement, SequenceTheorems, FiniteSetTheorems, TLAPS

-----------------------------------------------------------------------------
(* Sources.  The invariant says when the two positions of a source agree:  *)
(* as long as each call since the last setPos() gave all it was asked for, *)
(* the stream or the library reads where getPos() tells.                   *)

SourceTypeOK ==
    /\ source \in SourceKinds \union {"none"}
    /\ fileSize \in Nat \union {-1}
    /\ pos \in Nat \union {Failed}
    /\ handle \in Nat
    /\ got \in [from : Nat, bytes : Nat, asked : Nat] \union {NotGot}
    /\ lost \in BOOLEAN
    /\ failures \in Nat

\* Where the next read begins is known.
InStep == ~lost => pos = handle /\ source # "none"

(* What a source has given lies inside its file, is all that was asked     *)
(* for, but of a CASC source, and it is in step.                           *)
SourceInv ==
    /\ SourceTypeOK
    /\ InStep
    /\ got # NotGot => /\ got.from + got.bytes <= fileSize
                       /\ got.bytes = got.asked \/ source = "casc"

LEMMA SourceInit == NoSource => SourceInv
BY DEF NoSource, SourceInv, SourceTypeOK, InStep, NotGot, Failed

LEMMA OpenKeepsInv ==
    ASSUME SourceInv, NEW kind \in SourceKinds, NEW size \in FileSizes, OpenSource(kind, size)
    PROVE  SourceInv'
<1>1. size \in Nat \union {-1} /\ kind # "none" /\ kind \in SourceKinds
  BY SourceAssumption
<1> QED
  BY <1>1 DEF SourceInv, SourceTypeOK, InStep, OpenSource, NotGot, Failed

LEMMA SetPosKeepsInv ==
    ASSUME SourceInv, source # "none", NEW p \in Nat, SetPos(p)
    PROVE  SourceInv'
<1>1. got' = NotGot /\ UNCHANGED <<source, fileSize>> /\ lost' \in BOOLEAN
  BY DEF SetPos
<1>2. pos' \in Nat \union {Failed} /\ handle' \in Nat /\ failures' \in Nat
  BY SourceAssumption DEF SetPos, SourceInv, SourceTypeOK, Sought, LibraryFails, Failed
<1>3. ~lost' => pos' = handle'
  BY DEF SetPos, Sought, Failed
<1> QED
  BY <1>1, <1>2, <1>3 DEF SourceInv, SourceTypeOK, InStep

(* A read gives bytes from where the stream is: all of them, or from a     *)
(* CASC source fewer; or none.                                             *)
LEMMA ReadFacts ==
    ASSUME SourceInv, source # "none", NEW n \in Nat \ {0}, Read(n)
    PROVE  /\ pos' \in Nat \union {Failed} /\ handle' \in Nat /\ failures' \in Nat
           /\ \/ got' = NotGot /\ (status' # "ok" \/ source = "casc")
              \/ /\ got' = [from |-> handle, bytes |-> n, asked |-> n]
                 /\ handle' = handle + n
                 /\ handle' <= fileSize
                 /\ pos = handle => pos' = handle'
              \/ /\ source = "casc"
                 /\ \E res \in 1..n - 1 :
                       /\ got' = [from |-> handle, bytes |-> res, asked |-> n]
                       /\ handle + res <= fileSize
<1> USE DEF Gives, GivesNothing, Within, NotGot, Failed
<1>1. CASE ReadMemory(n)
  BY <1>1 DEF ReadMemory, SourceInv, SourceTypeOK
<1>2. CASE ReadNative(n)
  BY <1>2 DEF ReadNative, AllGiven, SourceInv, SourceTypeOK
<1>3. CASE ReadMPQ(n)
  <2>1. pos \in Nat \union {-1} /\ handle \in Nat /\ fileSize \in Int /\ failures \in Nat
    BY DEF SourceInv, SourceTypeOK
  <2>2. \A res \in 0..n : res \in Nat
    OBVIOUS
  <2> QED
    BY <1>3, <2>1, <2>2 DEF ReadMPQ, LibraryFails
<1>4. CASE ReadCASC(n)
  <2>1. /\ pos \in Nat \union {-1} /\ handle \in Nat /\ fileSize \in Int /\ failures \in Nat
        /\ source = "casc"
    BY <1>4 DEF SourceInv, SourceTypeOK, ReadCASC
  <2>2. CASE /\ Within(n) /\ Gives(n) /\ pos' = pos + n /\ UNCHANGED failures
    BY <2>1, <2>2
  <2>3. CASE GivesNothing("thrown") /\ UNCHANGED pos /\ handle' \in handle..handle + n
             /\ failures' \in {failures, failures + 1}
    BY <2>1, <2>3
  <2>4. CASE \E res \in 0..n - 1 :
             /\ res <= Left
             /\ failures' \in {failures, failures + 1}
             /\ got' = FirstOf(res, n) /\ status' = "ok"
             /\ pos' = pos + n
             /\ handle' \in IF res = 0 THEN {handle, handle + n} ELSE {handle + res}
    <3>1. PICK res \in 0..n - 1 :
             /\ res <= Left
             /\ failures' \in {failures, failures + 1}
             /\ got' = FirstOf(res, n)
             /\ pos' = pos + n
             /\ handle' \in IF res = 0 THEN {handle, handle + n} ELSE {handle + res}
      BY <2>4
    <3>2. pos' \in Nat \union {-1} /\ handle' \in Nat /\ failures' \in Nat
      BY <2>1, <3>1
    <3>3. CASE res = 0
      BY <2>1, <3>1, <3>2, <3>3 DEF FirstOf
    <3>4. CASE res # 0
      <4>1. res \in 1..n - 1 /\ handle + res <= fileSize
        BY <2>1, <3>1, <3>4 DEF Left
      <4>2. got' = [from |-> handle, bytes |-> res, asked |-> n]
        BY <3>1, <3>4 DEF FirstOf
      <4> QED
        BY <2>1, <3>2, <4>1, <4>2
    <3> QED
      BY <3>3, <3>4
  <2> QED
    BY <1>4, <2>2, <2>3, <2>4 DEF ReadCASC, LibraryFails
<1> QED
  BY <1>1, <1>2, <1>3, <1>4 DEF Read

(* After a read that gave less than it was asked for the place is lost.    *)
LEMMA LostFacts ==
    ASSUME SourceInv, NEW n, Read(n)
    PROVE  /\ got'.bytes < n => lost'
           /\ ~(got'.bytes < n) => (lost' <=> lost)
           /\ lost => lost'
           /\ lost' \in BOOLEAN
<1> DEFINE Less == got'.bytes < n
<1>1. lost' = (lost \/ Less) /\ lost \in BOOLEAN
  BY DEF Read, SourceInv, SourceTypeOK
<1> HIDE DEF Less
<1>2. /\ Less => lost'
      /\ ~Less => (lost' <=> lost)
      /\ lost => lost'
      /\ lost' \in BOOLEAN
  BY <1>1
<1> QED
  BY <1>2 DEF Less

LEMMA ReadKeepsInv ==
    ASSUME SourceInv, source # "none", NEW n \in Nat \ {0}, Read(n)
    PROVE  SourceInv'
<1>1. UNCHANGED <<source, fileSize>> /\ n \in Nat \ {0} /\ n \in Int
  BY DEF Read
<1>2. /\ handle \in Nat
      /\ \/ got' = NotGot
         \/ \E res \in 1..n : /\ got' = [from |-> handle, bytes |-> res, asked |-> n]
                              /\ handle + res <= fileSize
                              /\ res = n \/ source = "casc"
                              /\ res = n => (pos = handle => pos' = handle')
  BY ReadFacts DEF SourceInv, SourceTypeOK
<1>3. got' \in [from : Nat, bytes : Nat, asked : Nat] \union {NotGot}
  BY <1>2
<1>4. SourceTypeOK'
  BY <1>1, <1>3, ReadFacts, LostFacts DEF SourceInv, SourceTypeOK
<1>5. InStep'
  <2>1. CASE got' = NotGot
    <3>1. got'.bytes < n
      BY <1>1, <2>1 DEF NotGot
    <3> QED
      BY <3>1, LostFacts DEF InStep
  <2>2. CASE got' # NotGot
    <3>1. PICK res \in 1..n : /\ got' = [from |-> handle, bytes |-> res, asked |-> n]
                              /\ res = n => (pos = handle => pos' = handle')
      BY <1>2, <2>2
    <3>2. got'.bytes = res /\ (res # n => got'.bytes < n)
      BY <1>1, <3>1
    <3>3. CASE res # n
      BY <3>2, <3>3, LostFacts DEF InStep
    <3>4. CASE res = n
      BY <1>1, <3>1, <3>4, LostFacts DEF SourceInv, InStep
    <3> QED
      BY <3>3, <3>4
  <2> QED
    BY <2>1, <2>2
<1>6. got' # NotGot => /\ got'.from + got'.bytes <= fileSize'
                       /\ got'.bytes = got'.asked \/ source' = "casc"
  BY <1>1, <1>2
<1> QED
  BY <1>4, <1>5, <1>6 DEF SourceInv

LEMMA SourceStep == SourceInv /\ [SourceNext]_sourceVars => SourceInv'
<1> SUFFICES ASSUME SourceInv, [SourceNext]_sourceVars PROVE SourceInv'
  OBVIOUS
<1>1. CASE source = "none" /\ \E kind \in SourceKinds, size \in FileSizes : OpenSource(kind, size)
  BY <1>1, OpenKeepsInv
<1>2. CASE source # "none" /\ \E p \in Nat : SetPos(p)
  BY <1>2, SetPosKeepsInv
<1>3. CASE source # "none" /\ \E n \in Nat \ {0} : Read(n)
  BY <1>3, ReadKeepsInv
<1>4. CASE UNCHANGED sourceVars
  BY <1>4 DEF sourceVars, SourceInv, SourceTypeOK, InStep
<1> QED
  BY <1>1, <1>2, <1>3, <1>4 DEF SourceNext

(* The positions of a source agree whenever the next read may start.       *)
THEOREM SourceInvariant == SourceSpec => []SourceInv
BY SourceInit, SourceStep, PTL DEF SourceSpec
-----------------------------------------------------------------------------
(* The calls of a source are steps of the FileSource.                      *)
LEMMA OpenIsOpen ==
    ASSUME SourceInv, source = "none", NEW kind \in SourceKinds, NEW size \in FileSizes,
           OpenSource(kind, size)
    PROVE  Contract!Open
BY SourceAssumption DEF SourceInv, InStep, SourceTypeOK, OpenSource, Contract!Open, Contract!Nothing

LEMMA SetPosIsSetPos ==
    ASSUME SourceInv, source # "none", NEW p \in Nat, SetPos(p)
    PROVE  Contract!SetPos \/ Contract!Lost
<1>1. /\ got' = NotGot /\ UNCHANGED <<source, fileSize>> /\ lost' = (status' # "ok" \/ pos' = Failed)
      /\ status' = "ok" /\ pos' = Failed => fileSize = -1
  BY DEF SetPos, Sought, Missing, Failed
<1>2. ~lost' => pos' \in Nat
  BY SetPosKeepsInv DEF SourceInv, SourceTypeOK, InStep
<1>3. CASE status' = "ok"
  BY <1>1, <1>2, <1>3 DEF Contract!SetPos, Contract!Nothing
<1>4. CASE status' # "ok"
  BY <1>1, <1>4 DEF Contract!Lost, Contract!Nothing
<1> QED
  BY <1>3, <1>4

LEMMA ReadIsRead ==
    ASSUME SourceInv, source # "none", NEW n \in Nat \ {0}, Read(n)
    PROVE  Contract!Read \/ Contract!ReadLess \/ Contract!ReadAnywhere \/ Contract!Lost
<1>1. /\ UNCHANGED <<source, fileSize>>
      /\ handle \in Nat /\ fileSize \in Int /\ n \in Nat
  BY DEF Read, SourceInv, SourceTypeOK
<1>2. CASE got' = NotGot /\ (status' # "ok" \/ source = "casc")
  <2>1. got'.bytes < n
    BY <1>1, <1>2 DEF NotGot
  <2>2. lost'
    BY <2>1, LostFacts
  <2> QED
    BY <1>1, <1>2, <2>2 DEF Contract!Lost, Contract!Nothing
<1>3. CASE /\ got' = [from |-> handle, bytes |-> n, asked |-> n]
           /\ handle' = handle + n
           /\ handle' <= fileSize
           /\ pos = handle => pos' = handle'
  <2>1. got' # NotGot /\ got'.from = handle /\ got'.bytes = n /\ got'.asked = n /\ handle + n <= fileSize
    BY <1>1, <1>3 DEF NotGot
  <2>2. CASE lost
    <3>1. lost' /\ handle # Anywhere
      BY <1>1, <2>2, LostFacts, SourceAssumption
    <3> QED
      BY <1>1, <2>1, <2>2, <3>1 DEF Contract!ReadAnywhere, Contract!Nothing, Contract!Inside
  <2>3. CASE ~lost
    <3>1. pos = handle /\ pos \in Nat /\ pos # Anywhere
      BY <1>1, <2>3, SourceAssumption DEF SourceInv, InStep
    <3>2. pos' = pos + n
      BY <1>3, <3>1
    <3>3. ~(got'.bytes < n)
      BY <1>1, <2>1
    <3>4. ~lost'
      BY <2>3, <3>3, LostFacts
    <3> QED
      BY <1>1, <2>1, <2>3, <3>1, <3>2, <3>4 DEF Contract!Read, Contract!Inside
  <2> QED
    BY <2>2, <2>3 DEF SourceInv, SourceTypeOK
<1>4. CASE /\ source = "casc"
           /\ \E res \in 1..n - 1 :
                 /\ got' = [from |-> handle, bytes |-> res, asked |-> n]
                 /\ handle + res <= fileSize
  <2>1. PICK res \in 1..n - 1 : /\ got' = [from |-> handle, bytes |-> res, asked |-> n]
                                /\ handle + res <= fileSize
    BY <1>4
  <2>2. /\ got' # NotGot /\ got'.from = handle /\ got'.bytes < got'.asked
        /\ got'.from + got'.bytes <= fileSize
    BY <1>1, <2>1 DEF NotGot
  <2>3. lost' /\ handle # Anywhere
    <3>1. got'.bytes < n
      BY <1>1, <2>1
    <3> QED
      BY <1>1, <3>1, LostFacts, SourceAssumption
  <2>4. CASE lost
    BY <1>1, <1>4, <2>2, <2>3, <2>4 DEF Contract!ReadAnywhere, Contract!Nothing, Contract!Inside
  <2>5. CASE ~lost
    <3>1. pos = handle
      BY <2>5 DEF SourceInv, InStep
    <3> QED
      BY <1>1, <1>4, <2>2, <2>3, <2>5, <3>1 DEF Contract!ReadLess, Contract!Inside
  <2> QED
    BY <2>4, <2>5 DEF SourceInv, SourceTypeOK
<1> QED
  BY <1>2, <1>3, <1>4, ReadFacts

LEMMA SourceImplementsStep ==
    SourceInv /\ [SourceNext]_sourceVars =>
        [Contract!Next]_<<source, fileSize, IF lost THEN Anywhere ELSE pos,
                          IF got = NotGot THEN [from |-> Anywhere, bytes |-> 0, asked |-> 0] ELSE got,
                          status>>
<1> SUFFICES ASSUME SourceInv, [SourceNext]_sourceVars
             PROVE  \/ Contract!Next
                    \/ UNCHANGED <<source, fileSize, IF lost THEN Anywhere ELSE pos,
                          IF got = NotGot THEN [from |-> Anywhere, bytes |-> 0, asked |-> 0] ELSE got,
                          status>>
  OBVIOUS
<1>1. CASE source = "none" /\ \E kind \in SourceKinds, size \in FileSizes : OpenSource(kind, size)
  BY <1>1, OpenIsOpen DEF Contract!Next
<1>2. CASE source # "none" /\ \E p \in Nat : SetPos(p)
  BY <1>2, SetPosIsSetPos DEF Contract!Next
<1>3. CASE source # "none" /\ \E n \in Nat \ {0} : Read(n)
  BY <1>3, ReadIsRead DEF Contract!Next
<1>4. CASE UNCHANGED sourceVars
  BY <1>4 DEF sourceVars
<1> QED
  BY <1>1, <1>2, <1>3, <1>4 DEF SourceNext

LEMMA SourceImplementsInit == NoSource => Contract!Init
BY DEF NoSource, Contract!Init, Contract!Nothing

(* Whatever is called of a source, and whatever its library does, what its *)
(* reads give is what a FileSource promises.                               *)
THEOREM SourcesImplementContract == SourceSpec => ImplementsFileSource
BY SourceInvariant, SourceImplementsInit, SourceImplementsStep, PTL
   DEF SourceSpec, ImplementsFileSource, Contract!Spec
-----------------------------------------------------------------------------
(* get<>().  While it goes through the fields, the requests found are      *)
(* those whose name a field before has and no request before has.          *)

FoundBefore(k) ==
    {i \in 1..Len(requests) :
        /\ \E j \in 1..k - 1 : schema[j].name = requests[i].name
        /\ \A j \in 1..i - 1 : requests[j].name # requests[i].name}

GetInv ==
    /\ \E worlds \in Families : world \in worlds
    /\ Len(schema) \in Nat
    /\ access = "getting" =>
          /\ Len(requests) \in Nat
          /\ it \in 1..Len(schema) + 1
          /\ found = FoundBefore(it)
          /\ Len(requests) = 0 \/ ~AllFound(found)
    /\ GetMatches

(* The least of a set of naturals is in it.                                *)
LEMMA MinFacts ==
    ASSUME NEW S, S \subseteq Nat, S # {}
    PROVE  Min(S) \in S /\ \A x \in S : Min(S) <= x
<1>1. \E m \in S : \A x \in S : m <= x
  BY LeastNatural
<1> QED
  BY <1>1 DEF Min

(* A value is refused for its type, for its size or as undefined.          *)
LEMMA RefusedFacts ==
    ASSUME NEW value, NEW field, NEW dest, ~ValRead(value, field, dest).ok
    PROVE  ValRead(value, field, dest).why \in {"type", "overflow", "undefined"}
BY DEF ValRead, Cast, Given, Refused

(* The fields found behind field k are those before it, and the request    *)
(* that is the first of the field's name.                                  *)
LEMMA FoundMore ==
    ASSUME Len(schema) \in Nat, Len(requests) \in Nat, NEW k \in 1..Len(schema)
    PROVE  /\ Named(k) = {} => FoundBefore(k + 1) = FoundBefore(k)
           /\ Named(k) # {} => FoundBefore(k + 1) = FoundBefore(k) \union {FirstNamed(k)}
<1>1. Named(k) \subseteq Nat
  BY DEF Named
<1>2. \A j : j \in 1..k <=> j \in 1..k - 1 \/ j = k
  OBVIOUS
<1>3. k + 1 - 1 = k
  OBVIOUS
<1>4. FoundBefore(k + 1) = FoundBefore(k) \union
        {i \in Named(k) : \A j \in 1..i - 1 : requests[j].name # requests[i].name}
  BY <1>2, <1>3 DEF FoundBefore, Named
<1>5. CASE Named(k) = {}
  BY <1>4, <1>5
<1>6. CASE Named(k) # {}
  <2>1. FirstNamed(k) \in Named(k) /\ \A i \in Named(k) : FirstNamed(k) <= i
    BY <1>1, <1>6, MinFacts DEF FirstNamed
  <2>2. ASSUME NEW i \in Named(k)
        PROVE  (\A j \in 1..i - 1 : requests[j].name # requests[i].name) <=> i = FirstNamed(k)
    <3>1. i \in 1..Len(requests) /\ requests[i].name = schema[k].name
      BY DEF Named
    <3>2. \A j \in 1..i - 1 : j \in Named(k) <=> requests[j].name = requests[i].name
      BY <3>1 DEF Named
    <3>3. CASE i = FirstNamed(k)
      BY <2>1, <3>1, <3>2, <3>3
    <3>4. CASE i # FirstNamed(k)
      <4>1. FirstNamed(k) \in 1..i - 1
        BY <2>1, <3>1, <3>4 DEF Named
      <4> QED
        BY <2>1, <3>2, <3>4, <4>1
    <3> QED
      BY <3>3, <3>4
  <2>3. {i \in Named(k) : \A j \in 1..i - 1 : requests[j].name # requests[i].name}
        = {FirstNamed(k)}
    BY <2>1, <2>2
  <2> QED
    BY <1>4, <1>6, <2>3
<1> QED
  BY <1>5, <1>6

(* What was found of all fields, and what it says of the names.            *)
LEMMA FoundAll ==
    ASSUME Len(schema) \in Nat, Len(requests) \in Nat, NEW k \in 1..Len(schema) + 1
    PROVE  /\ AllFound(FoundBefore(k)) => Matching
           /\ k = Len(schema) + 1 /\ Matching => AllFound(FoundBefore(k))
<1>1. ASSUME AllFound(FoundBefore(k)) PROVE Matching
  <2>1. ASSUME NEW i \in 1..Len(requests) PROVE Fields(requests[i].name) # {}
    BY <1>1, <2>1 DEF AllFound, FoundBefore, Fields
  <2>2. ASSUME NEW i \in 1..Len(requests), NEW j \in 1..Len(requests),
               requests[i].name = requests[j].name
        PROVE  i = j
    <3>1. \A m \in 1..i - 1 : requests[m].name # requests[i].name
      BY <1>1 DEF AllFound, FoundBefore
    <3>2. \A m \in 1..j - 1 : requests[m].name # requests[j].name
      BY <1>1 DEF AllFound, FoundBefore
    <3> QED
      BY <2>2, <3>1, <3>2
  <2> QED
    BY <2>1, <2>2 DEF Matching
<1>2. ASSUME k = Len(schema) + 1, Matching PROVE AllFound(FoundBefore(k))
  <2>1. ASSUME NEW i \in 1..Len(requests) PROVE i \in FoundBefore(k)
    <3>1. PICK j \in 1..Len(schema) : schema[j].name = requests[i].name
      BY <1>2 DEF Matching, Fields
    <3>2. j \in 1..k - 1
      BY <1>2
    <3>3. \A m \in 1..i - 1 : m \in 1..Len(requests) /\ m # i
      OBVIOUS
    <3> QED
      BY <1>2, <3>1, <3>2, <3>3 DEF Matching, FoundBefore
  <2> QED
    BY <2>1 DEF AllFound, FoundBefore
<1> QED
  BY <1>1, <1>2

LEMMA GetInit == Init => GetInv
<1> SUFFICES ASSUME Init PROVE GetInv
  OBVIOUS
<1>1. PICK worlds \in Families : world \in worlds
  BY DEF Init
<1>2. Len(world.fields) \in Nat
  BY <1>1, WorldsAssumption
<1>3. Len(schema) \in Nat
  <2> DEFINE n == Len(world.fields)
             F(k) == world.fields[k].field
  <2>1. n \in Nat /\ schema = [k \in 1..n |-> F(k)]
    BY <1>2 DEF Init
  <2> HIDE DEF n, F
  <2>2. [k \in 1..n |-> F(k)] \in Seq({F(k) : k \in 1..n})
    BY <2>1
  <2> QED
    BY <2>1, <2>2
<1>4. access = "idle"
  BY DEF Init, AccessInit
<1> QED
  BY <1>1, <1>3, <1>4 DEF GetInv, GetMatches

\* What get<>() has is kept by every step that leaves its variables alone.
LEMMA GetUntouched ==
    ASSUME GetInv, UNCHANGED <<schema, access, getVars, world>>
    PROVE  GetInv'
BY DEF GetInv, GetMatches, Matching, Fields, FoundBefore, AllFound, getVars

LEMMA GetStartStep ==
    ASSUME GetInv, NEW asked, Len(asked) \in Nat, GetStart(asked), UNCHANGED world
    PROVE  GetInv'
<1>1. /\ requests' = asked /\ it' = 1 /\ found' = {} /\ access' = "getting"
      /\ UNCHANGED <<schema, world>>
  BY DEF GetStart
<1>2. found' = FoundBefore(it)'
  BY <1>1 DEF FoundBefore
<1>3. Len(requests') = 0 \/ ~AllFound(found)'
  BY <1>1 DEF AllFound
<1> QED
  BY <1>1, <1>2, <1>3 DEF GetInv, GetMatches

\* No other way to end says that names did not match.
LEMMA OtherEnds ==
    ASSUME GetInv, UNCHANGED <<schema, world>>,
           access' \in {"named", "iterating", "undefined"} \/ (access' = "thrown" /\ why' # "unmatched")
    PROVE  GetInv'
BY DEF GetInv, GetMatches

LEMMA GetFieldStep ==
    ASSUME GetInv, GetField, UNCHANGED world
    PROVE  GetInv'
<1>1. /\ access = "getting" /\ it \in 1..Len(schema) /\ Len(schema) \in Nat
      /\ Len(requests) \in Nat /\ found = FoundBefore(it)
      /\ UNCHANGED <<schema, requests, world>>
  BY DEF GetField, GetInv
<1>3. CASE access' = "undefined"
  BY <1>1, <1>3, OtherEnds
<1>4. CASE Named(it) = {} /\ it' = it + 1 /\ UNCHANGED found
           /\ access' = IF AllFound(found) THEN "got" ELSE access
  <2>1. found' = FoundBefore(it)'
    <3>1. FoundBefore(it + 1) = FoundBefore(it)
      BY <1>1, <1>4, FoundMore
    <3> QED
      BY <1>1, <1>4, <3>1 DEF FoundBefore
  <2>2. it' \in 1..Len(schema) + 1
    BY <1>1, <1>4
  <2>3. AllFound(found) => Matching
    BY <1>1, FoundAll
  <2>4. AllFound(found)' = AllFound(found) /\ Matching' = Matching
    BY <1>1, <1>4 DEF AllFound, Matching, Fields
  <2> QED
    BY <1>1, <1>4, <2>1, <2>2, <2>3, <2>4 DEF GetInv, GetMatches
<1>5. CASE Named(it) # {} /\ Assign(FirstNamed(it))
  <2> DEFINE dest == requests[FirstNamed(it)].dest
             read == [z \in 1..Wanted(dest, it) |-> ValRead(ElementOf(it, z), schema[it], dest)]
             bad  == {z \in DOMAIN read : ~read[z].ok}
  <2>1. CASE bad = {}
    <3>1. /\ found' = found \union {FirstNamed(it)} /\ it' = it + 1
          /\ access' = IF AllFound(found') THEN "got" ELSE access
      BY <1>5, <2>1 DEF Assign
    <3>2. found' = FoundBefore(it + 1)
      BY <1>1, <1>5, <3>1, FoundMore
    <3>3. found' = FoundBefore(it)'
      BY <1>1, <3>1, <3>2 DEF FoundBefore
    <3>4. it' \in 1..Len(schema) + 1 /\ it + 1 \in 1..Len(schema) + 1
      BY <1>1, <3>1
    <3>5. AllFound(found') => Matching
      BY <1>1, <3>2, <3>4, FoundAll
    <3>6. AllFound(found)' = AllFound(found') /\ Matching' = Matching
      BY <1>1 DEF AllFound, Matching, Fields
    <3> QED
      BY <1>1, <3>1, <3>3, <3>4, <3>5, <3>6 DEF GetInv, GetMatches
  <2>2. CASE bad # {}
    <3>1. bad \subseteq Nat
      OBVIOUS
    <3>2. Min(bad) \in bad
      BY <2>2, <3>1, MinFacts
    <3>3. read[Min(bad)].why \in {"type", "overflow", "undefined"}
      BY <3>2, RefusedFacts
    <3>4. \/ access' = "undefined"
          \/ access' = "thrown" /\ why' = read[Min(bad)].why
      <4> HIDE DEF read
      <4> QED
        BY <1>5, <2>2 DEF Assign, AccessThrows, read
    <3> QED
      BY <1>1, <3>3, <3>4, OtherEnds
  <2> QED
    BY <2>1, <2>2
<1> QED
  BY <1>3, <1>4, <1>5 DEF GetField

LEMMA GetEndStep ==
    ASSUME GetInv, GetEnd, UNCHANGED world
    PROVE  GetInv'
<1>1. /\ access = "getting" /\ it = Len(schema) + 1 /\ Len(schema) \in Nat
      /\ Len(requests) \in Nat /\ found = FoundBefore(it)
      /\ Len(requests) = 0 \/ ~AllFound(found)
      /\ access' = "thrown" /\ UNCHANGED <<schema, requests, world>>
  BY DEF GetEnd, GetInv, AccessThrows
<1>2. Matching => AllFound(FoundBefore(it))
  BY <1>1, FoundAll
<1>3. Len(requests') = 0 \/ ~Matching'
  BY <1>1, <1>2 DEF Matching, Fields
<1> QED
  BY <1>1, <1>3 DEF GetInv, GetMatches

LEMMA IterateStep ==
    ASSUME GetInv, Iterate, UNCHANGED world
    PROVE  GetInv'
<1>1. access' \in {"iterating", "undefined"} /\ UNCHANGED schema
  BY DEF Iterate, Dereference, Advance
<1> QED
  BY <1>1, OtherEnds

LEMMA AskStep == ASSUME GetInv, Ask PROVE GetInv'
<1>1. UNCHANGED world
  BY DEF Ask, clientVars
<1>2. PICK ask \in world.asks :
        \/ ask.call = "get" /\ GetStart(ask.requests)
        \/ ask.call = "name" /\ ByName(ask.name)
        \/ ask.call = "iterate" /\ Begin
  BY DEF Ask
<1>3. CASE ask.call = "get" /\ GetStart(ask.requests)
  <2>1. Len(ask.requests) \in Nat
    BY <1>3, WorldsAssumption DEF GetInv, IsList
  <2> QED
    BY <1>1, <1>3, <2>1, GetStartStep
<1>4. CASE ByName(ask.name)
  <2>1. /\ access' \in {"named", "undefined"} \/ (access' = "thrown" /\ why' = "name")
        /\ UNCHANGED schema
    BY <1>4 DEF ByName, AccessThrows
  <2> QED
    BY <1>1, <2>1, OtherEnds
<1>5. CASE Begin
  <2>1. access' = "iterating" /\ UNCHANGED schema
    BY <1>5 DEF Begin
  <2> QED
    BY <1>1, <2>1, OtherEnds
<1> QED
  BY <1>2, <1>3, <1>4, <1>5

LEMMA GetStep == GetInv /\ [Next]_vars => GetInv'
<1> SUFFICES ASSUME GetInv, [Next]_vars PROVE GetInv'
  OBVIOUS
<1> USE GetUntouched
<1>1. CASE Detect \/ ChooseClient \/ DiscoverArchives \/ OpenMPQ \/ OpenCASC \/ OpenFile
  <2>1. UNCHANGED <<accessVars, world>>
    BY <1>1 DEF Detect, ChooseClient, DiscoverArchives, OpenMPQ, OpenCASC, OpenFile, clientVars
  <2> QED
    BY <2>1 DEF accessVars
<1>2. CASE ReadSignature \/ Rewind \/ Dispatch \/ ReadHeader \/ CallSource \/ FirstRow
  <2>1. UNCHANGED <<accessVars, world>>
    BY <1>2 DEF ReadSignature, Rewind, Dispatch, ReadHeader, CallSource, FirstRow
  <2> QED
    BY <2>1 DEF accessVars
<1>3. CASE DecodeField
  BY <1>3 DEF DecodeField
<1>4. CASE RecordRead \/ AccessEnds
  BY <1>4 DEF RecordRead, AccessEnds, accessVars
<1>5. CASE Ask
  BY <1>5, AskStep
<1>6. CASE Access
  <2>1. UNCHANGED world
    BY <1>6 DEF Access, clientVars
  <2> QED
    BY <1>6, <2>1, GetFieldStep, GetEndStep, IterateStep DEF Access, AccessStep
<1>7. CASE UNCHANGED vars
  BY <1>7 DEF vars, accessVars, clientVars
<1> QED
  BY <1>1, <1>2, <1>3, <1>4, <1>5, <1>6, <1>7 DEF Next

(* For any records and any names asked for, get<>() returns when each was  *)
(* found once, and throws as unmatched only if one is missing or doubled.  *)
THEOREM GetMatchesAlways == Spec => []GetMatches
<1>1. GetInv => GetMatches
  BY DEF GetInv
<1> QED
  BY <1>1, GetInit, GetStep, PTL DEF Spec
-----------------------------------------------------------------------------
(* Iterators.  A value that an iterator has loaded is that of the index it *)
(* was loaded from, in the copy too, and the record is the one it was: its *)
(* data grows only before it is asked for.                                 *)

IsIterator(i) == i = [index |-> i.index, loaded |-> i.loaded, val |-> i.val]

LoadedRight(i) ==
    i.loaded # 0 => i.val = [name |-> schema[i.loaded].name, value |-> ValueOf(i.loaded)]

\* Until the record is asked for, nothing was given or loaded.
NotAsked ==
    /\ access = "idle" /\ given.index = 0
    /\ iterators["it"].loaded = 0 /\ iterators["old"].loaded = 0

IteratorInv ==
    /\ DOMAIN iterators = {"it", "old"}
    /\ \A name \in {"it", "old"} : IsIterator(iterators[name]) /\ LoadedRight(iterators[name])
    /\ stage \notin {"access", "exit0", "exit1", "undefined"} => NotAsked
    /\ FieldGiven

LEMMA IteratorInit == Init => IteratorInv
<1> SUFFICES ASSUME Init PROVE IteratorInv
  OBVIOUS
<1>1. /\ access = "idle" /\ given.index = 0
      /\ iterators = [name \in {"it", "old"} |-> [index |-> 0, loaded |-> 0, val |-> << >>]]
  BY DEF Init, AccessInit, NoIterator, NothingGiven
<1> QED
  BY <1>1 DEF IteratorInv, IsIterator, LoadedRight, NotAsked, FieldGiven

\* A step that leaves the record and what was given of it alone.
LEMMA IteratorsKept ==
    ASSUME IteratorInv, UNCHANGED <<schema, data, iterVars>>,
           access' = access \/ access' # "named",
           stage' \in {"access", "exit0", "exit1", "undefined"} \/ NotAsked'
    PROVE  IteratorInv'
<1>1. UNCHANGED <<iterators, given>> /\ \A k : ValueOf(k)' = ValueOf(k)
  BY DEF iterVars, ValueOf, Offsets
<1>2. FieldGiven'
  BY <1>1 DEF IteratorInv, FieldGiven
<1>3. \A name \in {"it", "old"} : LoadedRight(iterators[name])' = LoadedRight(iterators[name])
  BY <1>1 DEF LoadedRight
<1>4. \A name \in {"it", "old"} : IsIterator(iterators[name])' = IsIterator(iterators[name])
  BY <1>1 DEF IsIterator
<1> QED
  BY <1>1, <1>2, <1>3, <1>4 DEF IteratorInv

LEMMA DereferenceStep ==
    ASSUME IteratorInv, stage = "access", stage' = "access",
           NEW name \in {"it", "old"}, Dereference(name)
    PROVE  IteratorInv'
<1> DEFINE i == iterators[name]
           current == [name |-> schema[i.index].name, value |-> ValueOf(i.index)]
           val == IF IsLoaded(i) THEN i.val ELSE current
<1>1. access = "iterating" /\ UNCHANGED <<schema, data>>
  BY DEF Dereference
<1>2. CASE access' = "undefined" /\ UNCHANGED iterVars
  BY <1>1, <1>2, IteratorsKept
<1>3. CASE /\ iterators' = [iterators EXCEPT ![name] =
                  [index |-> i.index, loaded |-> i.index, val |-> val]]
           /\ given' = [index |-> i.index, value |-> val.value, name |-> val.name]
           /\ UNCHANGED access
  <2>1. \A k : ValueOf(k)' = ValueOf(k)
    BY <1>1 DEF ValueOf, Offsets
  <2>2. i.index # 0 => val = current
    BY DEF IteratorInv, LoadedRight, IsLoaded
  <2>3. FieldGiven'
    BY <1>1, <1>3, <2>1, <2>2 DEF FieldGiven
  <2>4. iterators'[name] = [index |-> i.index, loaded |-> i.index, val |-> val]
    BY <1>3 DEF IteratorInv
  <2>5. LoadedRight(iterators[name])' /\ IsIterator(iterators[name])'
    <3> HIDE DEF val
    <3> QED
      BY <1>1, <2>1, <2>2, <2>4 DEF LoadedRight, IsIterator
  <2>6. ASSUME NEW other \in {"it", "old"}, other # name
        PROVE  LoadedRight(iterators[other])' /\ IsIterator(iterators[other])'
    <3>1. iterators'[other] = iterators[other]
      BY <1>3, <2>6 DEF IteratorInv
    <3> QED
      BY <1>1, <2>1, <2>6, <3>1 DEF IteratorInv, LoadedRight, IsIterator
  <2>7. DOMAIN iterators' = {"it", "old"}
    BY <1>3 DEF IteratorInv
  <2> QED
    BY <2>3, <2>5, <2>6, <2>7 DEF IteratorInv
<1> QED
  BY <1>2, <1>3 DEF Dereference

LEMMA AdvanceStep ==
    ASSUME IteratorInv, stage = "access", stage' = "access",
           NEW postfix \in BOOLEAN, Advance(postfix)
    PROVE  IteratorInv'
<1> DEFINE i == iterators["it"]
<1>1. /\ given' = NothingGiven /\ UNCHANGED <<schema, data>>
      /\ iterators' = [iterators EXCEPT !["it"].index = @ + 1,
                                        !["old"] = IF postfix THEN i ELSE @]
  BY DEF Advance
<1>2. \A k : ValueOf(k)' = ValueOf(k)
  BY <1>1 DEF ValueOf, Offsets
<1>3. /\ DOMAIN iterators' = {"it", "old"}
      /\ iterators'["it"] = [i EXCEPT !.index = i.index + 1]
      /\ iterators'["old"] \in {i, iterators["old"]}
  BY <1>1 DEF IteratorInv
<1>4. iterators'["it"] = [index |-> i.index + 1, loaded |-> i.loaded, val |-> i.val]
  <2>1. i = [index |-> i.index, loaded |-> i.loaded, val |-> i.val]
    BY DEF IteratorInv, IsIterator
  <2> HIDE DEF i
  <2> QED
    BY <1>3, <2>1
<1>5. LoadedRight(iterators["it"])' /\ IsIterator(iterators["it"])'
  BY <1>1, <1>2, <1>4 DEF IteratorInv, LoadedRight, IsIterator
<1>6. LoadedRight(iterators["old"])' /\ IsIterator(iterators["old"])'
  BY <1>1, <1>2, <1>3 DEF IteratorInv, LoadedRight, IsIterator
<1>7. FieldGiven'
  BY <1>1 DEF FieldGiven, NothingGiven
<1> QED
  BY <1>3, <1>5, <1>6, <1>7 DEF IteratorInv

LEMMA ByNameStep ==
    ASSUME IteratorInv, GetInv, stage = "access", stage' = "access", NEW name, ByName(name)
    PROVE  IteratorInv'
<1>1. UNCHANGED <<schema, data, iterators>> /\ access = "idle"
  BY DEF ByName
<1>2. CASE access' \in {"thrown", "undefined"} /\ UNCHANGED given
  BY <1>1, <1>2, IteratorsKept DEF iterVars
<1>3. CASE /\ Fields(name) # {} /\ access' = "named"
           /\ given' = [index |-> NameIndex(name), value |-> ValueOf(NameIndex(name)), name |-> name]
  <2>1. Fields(name) \subseteq Nat
    BY DEF GetInv, Fields
  <2>2. NameIndex(name) \in Fields(name) /\ \A k \in Fields(name) : NameIndex(name) <= k
    BY <1>3, <2>1, MinFacts DEF NameIndex
  <2>3. /\ NameIndex(name) \in 1..Len(schema) /\ schema[NameIndex(name)].name = name
        /\ Len(schema) \in Nat
    BY <2>2 DEF Fields, GetInv
  <2>4. \A k \in 1..NameIndex(name) - 1 : schema[k].name # name
    BY <2>2, <2>3 DEF Fields
  <2>5. \A k : ValueOf(k)' = ValueOf(k)
    BY <1>1 DEF ValueOf, Offsets
  <2>6. FieldGiven'
    BY <1>1, <1>3, <2>3, <2>4, <2>5 DEF FieldGiven
  <2>7. \A n \in {"it", "old"} :
          LoadedRight(iterators[n])' = LoadedRight(iterators[n])
          /\ IsIterator(iterators[n])' = IsIterator(iterators[n])
    BY <1>1, <2>5 DEF LoadedRight, IsIterator
  <2> QED
    BY <1>1, <2>6, <2>7 DEF IteratorInv
<1> QED
  BY <1>2, <1>3 DEF ByName, AccessThrows

LEMMA IteratorAskStep ==
    ASSUME IteratorInv, GetInv, Ask
    PROVE  IteratorInv'
<1>1. stage = "access" /\ stage' = "access"
  BY DEF Ask, clientVars
<1>2. PICK ask \in world.asks :
        \/ ask.call = "get" /\ GetStart(ask.requests)
        \/ ask.call = "name" /\ ByName(ask.name)
        \/ ask.call = "iterate" /\ Begin
  BY DEF Ask
<1>3. CASE GetStart(ask.requests)
  BY <1>1, <1>3, IteratorsKept DEF GetStart
<1>4. CASE ByName(ask.name)
  BY <1>1, <1>4, ByNameStep
<1>5. CASE Begin
  <2>1. /\ UNCHANGED <<schema, data, given>> /\ access' = "iterating"
        /\ iterators' = [name \in {"it", "old"} |-> [index |-> 1, loaded |-> 0, val |-> << >>]]
    BY <1>5 DEF Begin, NoIterator
  <2>2. \A k : ValueOf(k)' = ValueOf(k)
    BY <2>1 DEF ValueOf, Offsets
  <2>3. FieldGiven'
    BY <2>1, <2>2 DEF IteratorInv, FieldGiven
  <2>4. \A name \in {"it", "old"} : LoadedRight(iterators[name])' /\ IsIterator(iterators[name])'
    BY <2>1 DEF LoadedRight, IsIterator
  <2> QED
    BY <1>1, <2>1, <2>3, <2>4 DEF IteratorInv
<1> QED
  BY <1>2, <1>3, <1>4, <1>5

LEMMA IteratorStep == IteratorInv /\ GetInv /\ [Next]_vars => IteratorInv'
<1> SUFFICES ASSUME IteratorInv, GetInv, [Next]_vars PROVE IteratorInv'
  OBVIOUS
<1>1. CASE /\ UNCHANGED accessVars
           /\ stage \notin {"access", "exit0", "exit1", "undefined"}
  <2>1. NotAsked /\ UNCHANGED <<schema, data, access, iterators, given>>
    BY <1>1 DEF IteratorInv, accessVars, iterVars
  <2>2. NotAsked'
    BY <2>1 DEF NotAsked
  <2> QED
    BY <2>1, <2>2, IteratorsKept DEF iterVars
<1>2. CASE Detect \/ ChooseClient \/ DiscoverArchives \/ OpenMPQ \/ OpenCASC \/ OpenFile
  BY <1>1, <1>2 DEF Detect, ChooseClient, DiscoverArchives, OpenMPQ, OpenCASC, OpenFile
<1>3. CASE ReadSignature \/ Rewind \/ Dispatch \/ ReadHeader \/ CallSource \/ FirstRow
  BY <1>1, <1>3 DEF ReadSignature, Rewind, Dispatch, ReadHeader, CallSource, FirstRow
<1>4. CASE DecodeField
  <2>1. NotAsked /\ stage = "decode" /\ UNCHANGED <<schema, access, iterators, given>>
    BY <1>4 DEF IteratorInv, DecodeField, iterVars
  <2>2. NotAsked'
    BY <2>1 DEF NotAsked
  <2>3. \A name \in {"it", "old"} : LoadedRight(iterators[name])' /\ IsIterator(iterators[name])'
    BY <2>1 DEF IteratorInv, NotAsked, LoadedRight, IsIterator
  <2> QED
    BY <2>1, <2>2, <2>3 DEF IteratorInv, NotAsked, FieldGiven
<1>5. CASE RecordRead
  BY <1>1, <1>5 DEF RecordRead
<1>6. CASE AccessEnds
  <2>1. UNCHANGED accessVars /\ stage' \in {"exit0", "exit1", "undefined"}
    BY <1>6 DEF AccessEnds, Go
  <2> QED
    BY <2>1, IteratorsKept DEF accessVars
<1>7. CASE Ask
  BY <1>7, IteratorAskStep
<1>8. CASE Access
  <2>1. stage = "access" /\ stage' = "access"
    BY <1>8 DEF Access, clientVars
  <2>2. CASE GetField
    <3>1. UNCHANGED <<schema, data, iterVars>> /\ access = "getting"
      BY <2>2 DEF GetField
    <3>2. access' \in {"got", "getting", "undefined", "thrown"}
      BY <2>2, <3>1 DEF GetField, Assign, AccessThrows
    <3> QED
      BY <2>1, <3>1, <3>2, IteratorsKept
  <2>3. CASE GetEnd
    BY <2>1, <2>3, IteratorsKept DEF GetEnd, AccessThrows
  <2>4. CASE Iterate
    BY <2>1, <2>4, DereferenceStep, AdvanceStep DEF Iterate
  <2> QED
    BY <1>8, <2>2, <2>3, <2>4 DEF Access, AccessStep
<1>9. CASE UNCHANGED vars
  <2>1. UNCHANGED <<schema, data, access, iterators, given, stage>>
    BY <1>9 DEF vars, accessVars, iterVars, clientVars
  <2>2. stage' \in {"access", "exit0", "exit1", "undefined"} \/ NotAsked'
    BY <2>1 DEF IteratorInv, NotAsked
  <2> QED
    BY <2>1, <2>2, IteratorsKept DEF iterVars
<1> QED
  BY <1>2, <1>3, <1>4, <1>5, <1>6, <1>7, <1>8, <1>9 DEF Next

(* For any record, in any order of dereferencing, moving on and copying,   *)
(* an iterator and the copy that `it++' returned give the name and the     *)
(* values of the field they are at, never those of one loaded before; and  *)
(* a name gives the first field that has it (Schema.hpp:276-403).          *)
THEOREM FieldGivenAlways == Spec => []FieldGiven
<1>1. Init => IteratorInv /\ GetInv
  BY IteratorInit, GetInit
<1>2. IteratorInv /\ GetInv /\ [Next]_vars => IteratorInv' /\ GetInv'
  BY IteratorStep, GetStep
<1>3. IteratorInv => FieldGiven
  BY DEF IteratorInv
<1> QED
  BY <1>1, <1>2, <1>3, PTL DEF Spec
-----------------------------------------------------------------------------
(* Bit-packed values.                                                      *)

\* The bits of a buffer from a place, as many as there are of a word.
BitsFrom(buff, start, width) == [i \in Word |-> IF i < width THEN buff[start + i] ELSE 0]

(* getBitpackedValue gives the bits of the record from the place of the    *)
(* value on, as many as it has, and none of those before or behind it that *)
(* its eight-byte read has loaded (DB2File.hpp:400-412).                   *)
THEOREM BitpackedBitsOfPlace ==
    ASSUME NEW buff, NEW byte \in Nat, NEW bit_offset \in Nat, NEW width,
           Shiftable(bit_offset, width)
    PROVE  BitpackedBits(buff, byte, bit_offset, width)
             = BitsFrom(buff, byte * ByteBits + bit_offset, width)
<1> DEFINE before == bit_offset % ByteBits
           first  == byte + bit_offset \div ByteBits
           w      == LoadWord(buff, first)
           up     == WordBits - before - width
           down   == WordBits - width
<1>1. ByteBits \in Nat \ {0}
  BY ByteBitsAssumption
<1>2. WordBits \in Nat /\ bit_offset \div ByteBits \in Nat /\ before \in Nat
  <2>1. WordBits \in Nat
    BY <1>1 DEF WordBits
  <2>2. bit_offset \div ByteBits \in Nat /\ before \in 0..ByteBits - 1
    BY <1>1, DivisionFacts
  <2> QED
    BY <1>1, <2>1, <2>2
<1>3. width \in 1..WordBits /\ before + width <= WordBits
  BY DEF Shiftable
<1>4. first * ByteBits + before = byte * ByteBits + bit_offset
  <2>1. first * ByteBits = byte * ByteBits + (bit_offset \div ByteBits) * ByteBits
    BY <1>1, <1>2
  <2>2. bit_offset = (bit_offset \div ByteBits) * ByteBits + before
    BY <1>1, DivisionFacts
  <2>3. byte * ByteBits \in Nat /\ (bit_offset \div ByteBits) * ByteBits \in Nat
    BY <1>1, <1>2
  <2> HIDE DEF first, before
  <2> QED
    BY <1>2, <2>1, <2>2, <2>3
<1>5. first * ByteBits \in Nat /\ byte * ByteBits \in Nat
  BY <1>1, <1>2
<1> HIDE DEF first, before
<1>6. ASSUME NEW i \in Word, i < width
      PROVE  Shr(Shl(w, up), down)[i] = buff[byte * ByteBits + bit_offset + i]
  <2>1. PICK j \in Word : j = i + down /\ j < WordBits /\ j >= up /\ j - up = before + i
    BY <1>2, <1>3, <1>6 DEF Word
  <2>2. Shr(Shl(w, up), down)[i] = w[j - up]
    <3> HIDE DEF w, up, down
    <3>1. Shl(w, up)[j] = w[j - up]
      BY <2>1 DEF Shl
    <3>2. Shr(Shl(w, up), down)[i] = Shl(w, up)[i + down]
      BY <2>1 DEF Shr
    <3> QED
      BY <2>1, <3>1, <3>2
  <2>3. j - up = before + i
    BY <2>1
  <2>4. before + i \in Word
    BY <1>2, <1>3, <1>6 DEF Word
  <2>5. w[before + i] = buff[first * ByteBits + (before + i)]
    BY <2>4 DEF LoadWord
  <2>6. first * ByteBits + (before + i) = byte * ByteBits + bit_offset + i
    BY <1>2, <1>4, <1>5 DEF Word
  <2> QED
    BY <2>2, <2>3, <2>5, <2>6
<1>7. ASSUME NEW i \in Word, ~(i < width)
      PROVE  Shr(Shl(w, up), down)[i] = 0
  <2>1. ~(i + down < WordBits)
    BY <1>2, <1>3, <1>7 DEF Word
  <2> HIDE DEF w, up, down
  <2> QED
    BY <2>1 DEF Shr
<1>8. BitpackedBits(buff, byte, bit_offset, width) = Shr(Shl(w, up), down)
  BY DEF BitpackedBits, first, before
<1>9. Shr(Shl(w, up), down)
        = [i \in Word |-> IF i < width THEN buff[byte * ByteBits + bit_offset + i] ELSE 0]
  <2>1. Shr(Shl(w, up), down) = [i \in Word |-> Shr(Shl(w, up), down)[i]]
    BY DEF Shr
  <2> QED
    BY <1>6, <1>7, <2>1
<1> QED
  BY <1>8, <1>9 DEF BitsFrom

(* Flipping the sign bit and taking its value away leaves a number without *)
(* the bit, and makes one with it a negative number: SignExtend's way to   *)
(* read two's complement, for a sign bit that counts h in a type that      *)
(* counts to span (DB2File.hpp:386-392).                                   *)
THEOREM SignExtended ==
    ASSUME NEW h \in Nat \ {0}, NEW n \in 0..2 * h - 1, NEW span \in Nat, 2 * h <= span
    PROVE  (Flip(n, h) - h) % span = IF n < h THEN n ELSE n - 2 * h + span
<1> DEFINE q == n \div h
<1>1. q \in Nat /\ n % h \in 0..h - 1 /\ n = q * h + (n % h)
  <2>1. n \in Nat
    OBVIOUS
  <2> QED
    BY <2>1, DivisionFacts
<1> HIDE DEF q
<1>2. CASE n < h
  <2>1. q = 0
    <3> SUFFICES ASSUME q >= 1 PROVE FALSE
      BY <1>1
    <3>1. q * h >= h
      BY <1>1
    <3> QED
      BY <1>1, <1>2, <3>1
  <2>2. Flip(n, h) - h = n
    BY <2>1 DEF Flip, q
  <2>3. n % span = n
    BY <1>2
  <2> QED
    BY <1>2, <2>2, <2>3
<1>3. CASE ~(n < h)
  <2>1. q = 1
    <3>1. q # 0
      BY <1>1, <1>3
    <3>2. ~(q >= 2)
      <4> SUFFICES ASSUME q >= 2 PROVE FALSE
        OBVIOUS
      <4>1. q * h >= 2 * h
        BY <1>1
      <4> QED
        BY <1>1, <4>1
    <3> QED
      BY <1>1, <3>1, <3>2
  <2>2. Flip(n, h) - h = n - 2 * h
    BY <2>1 DEF Flip, q
  <2>3. n - 2 * h \in Int /\ n - 2 * h < 0 /\ -(n - 2 * h) <= span
    BY <1>3
  <2>4. \A x \in Int : x < 0 /\ -x <= span => x % span = x + span
    OBVIOUS
  <2> QED
    BY <1>3, <2>2, <2>3, <2>4
<1> QED
  BY <1>2, <1>3
-----------------------------------------------------------------------------
(* The order of archives.                                                  *)

Words == Seq(Nat)

\* Names of files.
FileNames == [dir : Words, stem : Words, ext : STRING]

(* A text starts with another when that is no longer and has its words.    *)
LEMMA StartFacts ==
    ASSUME NEW a \in Words, NEW b \in Words
    PROVE  StartsWith(a, b) <=> Len(b) <= Len(a) /\ \A j \in 1..Len(b) : a[j] = b[j]
<1>1. /\ Len(a) \in Nat /\ Len(b) \in Nat
      /\ SubSeq(b, 1, Len(b)) = [j \in 1..Len(b) |-> b[j]]
  BY DEF Words
<1>2. CASE Len(b) <= Len(a)
  <2>1. SubSeq(a, 1, Len(b)) = [j \in 1..Len(b) |-> a[j]]
    BY <1>1, <1>2 DEF Words
  <2>2. SubSeq(b, 1, Len(b)) = SubSeq(a, 1, Len(b)) <=> \A j \in 1..Len(b) : a[j] = b[j]
    <3>1. ASSUME SubSeq(b, 1, Len(b)) = SubSeq(a, 1, Len(b)), NEW j \in 1..Len(b)
          PROVE  a[j] = b[j]
      <4>1. [i \in 1..Len(b) |-> b[i]][j] = [i \in 1..Len(b) |-> a[i]][j]
        BY <1>1, <2>1, <3>1
      <4> QED
        BY <4>1
    <3> QED
      BY <1>1, <2>1, <3>1
  <2> QED
    BY <1>2, <2>2 DEF StartsWith, IsPrefix
<1>3. CASE ~(Len(b) <= Len(a))
  BY <1>3 DEF StartsWith, IsPrefix
<1> QED
  BY <1>2, <1>3

\* The first word where a text is greater than another.
FirstAt(a, b, k) ==
    /\ k \in 1..Len(a) /\ k <= Len(b)
    /\ a[k] > b[k] /\ \A j \in 1..k - 1 : a[j] = b[j]

LEMMA GreaterFacts ==
    ASSUME NEW a \in Words, NEW b \in Words
    PROVE  Greater(a, b) <=> \/ StartsWith(a, b) /\ Len(b) < Len(a)
                             \/ \E k : FirstAt(a, b, k)
<1>1. ASSUME StartsWith(a, b) PROVE a # b <=> Len(b) < Len(a)
  <2>1. Len(b) <= Len(a) /\ \A j \in 1..Len(b) : a[j] = b[j]
    BY <1>1, StartFacts
  <2>2. Len(a) = Len(b) => a = b
    BY <2>1, SeqEqual DEF Words
  <2> QED
    BY <2>1, <2>2 DEF Words
<1> QED
  BY <1>1 DEF Greater, FirstAt

(* One of two texts is the greater.                                        *)
LEMMA GreaterTotal ==
    ASSUME NEW a \in Words, NEW b \in Words, a # b
    PROVE  Greater(a, b) \/ Greater(b, a)
<1> DEFINE D == {k \in 1..Len(a) : k <= Len(b) /\ a[k] # b[k]}
<1>1. Len(a) \in Nat /\ Len(b) \in Nat
  BY DEF Words
<1>2. CASE D = {}
  <2>1. CASE Len(b) <= Len(a)
    BY <1>1, <1>2, <2>1, StartFacts DEF Greater
  <2>2. CASE ~(Len(b) <= Len(a))
    BY <1>1, <1>2, <2>2, StartFacts DEF Greater
  <2> QED
    BY <2>1, <2>2
<1>3. CASE D # {}
  <2>1. D \subseteq Nat
    OBVIOUS
  <2>2. PICK m \in D : \A k \in D : m <= k
    <3> HIDE DEF D
    <3> QED
      BY <1>3, <2>1, LeastNatural
  <2>3. /\ m \in 1..Len(a) /\ m \in 1..Len(b) /\ a[m] # b[m]
        /\ a[m] \in Nat /\ b[m] \in Nat
    BY <1>1, <2>2 DEF Words
  <2>4. \A j \in 1..m - 1 : a[j] = b[j]
    <3>1. ASSUME NEW j \in 1..m - 1, a[j] # b[j] PROVE FALSE
      <4>1. j \in D
        BY <1>1, <2>3, <3>1
      <4>2. ~(m <= j)
        BY <2>3
      <4> QED
        BY <2>2, <4>1, <4>2
    <3> QED
      BY <3>1
  <2>5. CASE a[m] > b[m]
    BY <1>1, <2>3, <2>4, <2>5 DEF Greater
  <2>6. CASE b[m] > a[m]
    BY <1>1, <2>3, <2>4, <2>6 DEF Greater
  <2> QED
    BY <2>3, <2>5, <2>6
<1> QED
  BY <1>2, <1>3

(* Not both.                                                               *)
LEMMA GreaterApart ==
    ASSUME NEW a \in Words, NEW b \in Words, Greater(a, b), Greater(b, a)
    PROVE  FALSE
<1>1. /\ Len(a) \in Nat /\ Len(b) \in Nat
      /\ \A j \in 1..Len(a) : a[j] \in Nat
      /\ \A j \in 1..Len(b) : b[j] \in Nat
  BY DEF Words
<1>2. CASE StartsWith(a, b) /\ Len(b) < Len(a)
  <2>1. PICK k : FirstAt(b, a, k)
    BY <1>1, <1>2, GreaterFacts, StartFacts
  <2> QED
    BY <1>1, <1>2, <2>1, StartFacts DEF FirstAt
<1>3. CASE StartsWith(b, a) /\ Len(a) < Len(b)
  <2>1. PICK k : FirstAt(a, b, k)
    BY <1>1, <1>3, GreaterFacts, StartFacts
  <2> QED
    BY <1>1, <1>3, <2>1, StartFacts DEF FirstAt
<1>4. ASSUME NEW k, FirstAt(a, b, k), NEW m, FirstAt(b, a, m)
      PROVE  FALSE
  <2>1. k \in 1..Len(a) /\ m \in 1..Len(a) /\ k \in 1..Len(b) /\ m \in 1..Len(b)
    BY <1>1, <1>4 DEF FirstAt
  <2>2. k < m \/ k = m \/ m < k
    BY <1>1, <2>1
  <2> QED
    BY <1>1, <1>4, <2>1, <2>2 DEF FirstAt
<1> QED
  BY <1>2, <1>3, <1>4, GreaterFacts

LEMMA GreaterThrough ==
    ASSUME NEW a \in Words, NEW b \in Words, NEW c \in Words, Greater(a, b), Greater(b, c)
    PROVE  Greater(a, c)
<1>1. /\ Len(a) \in Nat /\ Len(b) \in Nat /\ Len(c) \in Nat
      /\ \A j \in 1..Len(a) : a[j] \in Nat
      /\ \A j \in 1..Len(b) : b[j] \in Nat
      /\ \A j \in 1..Len(c) : c[j] \in Nat
  BY DEF Words
<1>2. CASE StartsWith(a, b) /\ Len(b) < Len(a)
  <2>1. \A j \in 1..Len(b) : a[j] = b[j]
    BY <1>2, StartFacts
  <2>2. CASE StartsWith(b, c) /\ Len(c) < Len(b)
    <3>1. StartsWith(a, c) /\ Len(c) < Len(a)
      BY <1>1, <1>2, <2>1, <2>2, StartFacts
    <3> QED
      BY <3>1, GreaterFacts
  <2>3. ASSUME NEW k, FirstAt(b, c, k) PROVE Greater(a, c)
    <3>1. FirstAt(a, c, k)
      BY <1>1, <1>2, <2>1, <2>3 DEF FirstAt
    <3> QED
      BY <3>1, GreaterFacts
  <2> QED
    BY <2>2, <2>3, GreaterFacts
<1>3. ASSUME NEW k, FirstAt(a, b, k) PROVE Greater(a, c)
  <2>1. /\ k \in 1..Len(a) /\ k \in 1..Len(b) /\ k \in Nat
        /\ a[k] > b[k] /\ \A j \in 1..k - 1 : a[j] = b[j]
    BY <1>1, <1>3 DEF FirstAt
  <2>2. CASE StartsWith(b, c) /\ Len(c) < Len(b)
    <3>1. \A j \in 1..Len(c) : b[j] = c[j]
      BY <2>2, StartFacts
    <3>2. CASE k <= Len(c)
      <4>1. FirstAt(a, c, k)
        BY <1>1, <2>1, <3>1, <3>2 DEF FirstAt
      <4> QED
        BY <4>1, GreaterFacts
    <3>3. CASE ~(k <= Len(c))
      <4>1. \A j \in 1..Len(c) : a[j] = c[j]
        BY <1>1, <2>1, <3>1, <3>3
      <4>2. Len(c) < Len(a)
        BY <1>1, <2>1, <3>3
      <4>3. StartsWith(a, c)
        BY <1>1, <4>1, <4>2, StartFacts
      <4> QED
        BY <4>2, <4>3, GreaterFacts
    <3> QED
      BY <3>2, <3>3
  <2>3. ASSUME NEW m, FirstAt(b, c, m) PROVE Greater(a, c)
    <3>1. /\ m \in 1..Len(b) /\ m \in 1..Len(c) /\ m \in Nat
          /\ b[m] > c[m] /\ \A j \in 1..m - 1 : b[j] = c[j]
      BY <1>1, <2>3 DEF FirstAt
    <3>2. CASE k <= m
      <4>1. k \in 1..Len(c) /\ a[k] > c[k]
        BY <1>1, <2>1, <3>1, <3>2
      <4>2. \A j \in 1..k - 1 : a[j] = c[j]
        BY <2>1, <3>1, <3>2
      <4>3. FirstAt(a, c, k)
        BY <2>1, <4>1, <4>2 DEF FirstAt
      <4> QED
        BY <4>3, GreaterFacts
    <3>3. CASE ~(k <= m)
      <4>1. m \in 1..Len(a) /\ a[m] = b[m]
        BY <1>1, <2>1, <3>1, <3>3
      <4>2. \A j \in 1..m - 1 : a[j] = c[j]
        BY <2>1, <3>1, <3>3
      <4>3. FirstAt(a, c, m)
        BY <3>1, <4>1, <4>2 DEF FirstAt
      <4> QED
        BY <4>3, GreaterFacts
    <3> QED
      BY <3>2, <3>3
  <2> QED
    BY <2>2, <2>3, GreaterFacts
<1> QED
  BY <1>2, <1>3, GreaterFacts

LEMMA OneOf ==
    ASSUME NEW l, NEW r, l # r, NEW S, S \subseteq {l, r}
    PROVE  Cardinality(S) = 1 <=> ~(l \in S <=> r \in S)
<1>1. IsFiniteSet({l, r})
  <2>1. IsFiniteSet({l} \union {r})
    BY FS_Singleton, FS_AddElement
  <2> QED
    BY <2>1
<1>2. IsFiniteSet(S)
  BY <1>1, FS_Subset
<1>3. Cardinality(S) = 1 <=> \E x : S = {x}
  BY <1>2, FS_Singleton
<1> QED
  BY <1>3

\* A text that starts with a word.
LEMMA FirstWord ==
    ASSUME NEW a \in Words, NEW word \in Nat
    PROVE  StartsWith(a, <<word>>) <=> a # << >> /\ a[1] = word
<1>1. Len(a) \in Nat /\ (a # << >> <=> 1 <= Len(a))
  BY DEF Words
<1>2. <<word>> \in Words /\ Len(<<word>>) = 1 /\ <<word>>[1] = word
  BY DEF Words
<1> QED
  BY <1>1, <1>2, StartFacts

(* Of two archives that are not entangled the comparison puts the one in   *)
(* front that is meant to override the other.                              *)
LEMMA BeforeIsOverrides ==
    ASSUME NEW a \in FileNames, NEW b \in FileNames, a # b, a.ext = b.ext, ~Entangled(a, b)
    PROVE  Before(a, b) <=> Overrides(a, b)
<1> DEFINE expansions == {f \in {a, b} : StartsWith(f.stem, <<Expansion>>)}
           patches    == {f \in {a, b} : StartsWith(f.stem, <<Patch>>)}
<1>1. /\ a.dir \in Words /\ b.dir \in Words /\ a.stem \in Words /\ b.stem \in Words
      /\ a.dir = b.dir => a.stem # b.stem
  BY DEF FileNames
<1>2. Cardinality(expansions) = 1 <=> ~(a \in expansions <=> b \in expansions)
  <2>1. expansions \subseteq {a, b}
    OBVIOUS
  <2> HIDE DEF expansions
  <2> QED
    BY <2>1, OneOf
<1>3. Cardinality(patches) = 1 <=> ~(a \in patches <=> b \in patches)
  <2>1. patches \subseteq {a, b}
    OBVIOUS
  <2> HIDE DEF patches
  <2> QED
    BY <2>1, OneOf
<1>4. \A f \in {a, b} : /\ f \in expansions <=> StartsWith(f.stem, <<Expansion>>)
                        /\ f \in patches <=> StartsWith(f.stem, <<Patch>>)
  OBVIOUS
<1>5. \A f \in {a, b} :
        /\ f \in expansions <=> f.stem # << >> /\ f.stem[1] = Expansion
        /\ f \in patches <=> f.stem # << >> /\ f.stem[1] = Patch
  <2> HIDE DEF expansions, patches
  <2> QED
    BY <1>1, <1>4, FirstWord, WordAssumption
<1>6. \A f \in {a, b} :
        Class(f) = IF f \in expansions THEN 1 ELSE IF f \in patches THEN 2 ELSE 3
  <2>1. ASSUME NEW f \in {a, b}
        PROVE Class(f) = IF f \in expansions THEN 1 ELSE IF f \in patches THEN 2 ELSE 3
    <3> HIDE DEF expansions, patches
    <3> QED
      BY <1>4, <1>5 DEF Class
  <2> QED
    BY <2>1
<1>7. CASE a.dir # b.dir
  BY <1>7 DEF Before, Overrides
<1>8. CASE a.dir = b.dir /\ Cardinality(expansions) = 1
  <2>1. Before(a, b) <=> a \in expansions
    BY <1>8 DEF Before
  <2> HIDE DEF expansions, patches
  <2> QED
    BY <1>2, <1>6, <1>8, <2>1 DEF Overrides
<1>9. CASE a.dir = b.dir /\ Cardinality(expansions) # 1 /\ Cardinality(patches) = 1
  <2>1. Before(a, b) <=> a \in patches
    BY <1>9 DEF Before
  <2> HIDE DEF expansions, patches
  <2>2. a \notin expansions /\ b \notin expansions
    BY <1>2, <1>3, <1>5, <1>9
  <2> QED
    BY <1>3, <1>6, <1>9, <2>1, <2>2 DEF Overrides
<1>10. CASE a.dir = b.dir /\ Cardinality(expansions) # 1 /\ Cardinality(patches) # 1
  <2>1. Before(a, b) <=> \/ LongerFirst(a, b)
                         \/ ~LongerFirst(a, b) /\ ~LongerFirst(b, a) /\ StemGreater(a, b)
    BY <1>10 DEF Before
  <2>2. Class(a) = Class(b)
    <3> HIDE DEF expansions, patches
    <3> QED
      BY <1>2, <1>3, <1>6, <1>10
  <2> HIDE DEF expansions, patches
  <2>3. Overrides(a, b) <=> Greater(a.stem, b.stem)
    BY <1>10, <2>2 DEF Overrides
  <2>4. CASE StartsWith(a.stem, b.stem)
    BY <1>1, <1>10, <2>1, <2>3, <2>4 DEF LongerFirst, Greater
  <2>5. CASE ~StartsWith(a.stem, b.stem) /\ StartsWith(b.stem, a.stem)
    <3>1. Greater(b.stem, a.stem)
      BY <1>1, <1>10, <2>5 DEF Greater
    <3>2. ~Greater(a.stem, b.stem)
      BY <1>1, <3>1, GreaterApart
    <3> QED
      BY <2>1, <2>3, <2>5, <3>2 DEF LongerFirst
  <2>6. CASE ~StartsWith(a.stem, b.stem) /\ ~StartsWith(b.stem, a.stem)
    <3>1. b.dir = << >>
      BY <1>10, <2>2, <2>6 DEF Entangled
    <3> QED
      BY <2>1, <2>3, <2>6, <3>1 DEF LongerFirst, StemGreater
  <2> QED
    BY <2>4, <2>5, <2>6
<1> QED
  BY <1>7, <1>8, <1>9, <1>10

LEMMA ClassFacts == \A f : Class(f) \in {1, 2, 3}
BY DEF Class

(* To override is a strict and total order of archives.                    *)
LEMMA OverridesTotal ==
    ASSUME NEW a \in FileNames, NEW b \in FileNames, a # b, a.ext = b.ext
    PROVE  Overrides(a, b) \/ Overrides(b, a)
<1>1. /\ a.dir \in Words /\ b.dir \in Words /\ a.stem \in Words /\ b.stem \in Words
      /\ a.dir = b.dir => a.stem # b.stem
  BY DEF FileNames
<1>2. Class(a) < Class(b) \/ Class(b) < Class(a) \/ Class(a) = Class(b)
  BY ClassFacts
<1> QED
  BY <1>1, <1>2, GreaterTotal DEF Overrides

LEMMA OverridesApart ==
    ASSUME NEW a \in FileNames, NEW b \in FileNames, Overrides(a, b), Overrides(b, a)
    PROVE  FALSE
<1>1. a.dir \in Words /\ b.dir \in Words /\ a.stem \in Words /\ b.stem \in Words
  BY DEF FileNames
<1>2. ~(Class(a) < Class(b) /\ Class(b) < Class(a))
  BY ClassFacts
<1> QED
  BY <1>1, <1>2, GreaterApart DEF Overrides

LEMMA OverridesThrough ==
    ASSUME NEW a \in FileNames, NEW b \in FileNames, NEW c \in FileNames,
           Overrides(a, b), Overrides(b, c)
    PROVE  Overrides(a, c)
<1>1. /\ a.dir \in Words /\ b.dir \in Words /\ c.dir \in Words
      /\ a.stem \in Words /\ b.stem \in Words /\ c.stem \in Words
  BY DEF FileNames
<1>2. CASE a.dir # b.dir \/ b.dir # c.dir
  <2>1. a.dir # b.dir => Greater(a.dir, b.dir)
    BY DEF Overrides
  <2>2. b.dir # c.dir => Greater(b.dir, c.dir)
    BY DEF Overrides
  <2>3. a.dir # c.dir
    BY <1>1, <1>2, <2>1, <2>2, GreaterApart
  <2>4. Greater(a.dir, c.dir)
    BY <1>1, <1>2, <2>1, <2>2, GreaterThrough
  <2> QED
    BY <2>3, <2>4 DEF Overrides
<1>3. CASE a.dir = b.dir /\ b.dir = c.dir
  <2>1. \/ Class(a) < Class(b)
        \/ Class(a) = Class(b) /\ Greater(a.stem, b.stem)
    BY <1>3 DEF Overrides
  <2>2. \/ Class(b) < Class(c)
        \/ Class(b) = Class(c) /\ Greater(b.stem, c.stem)
    BY <1>3 DEF Overrides
  <2>3. \/ Class(a) < Class(c) /\ Class(a) # Class(c)
        \/ Class(a) = Class(c) /\ Greater(a.stem, b.stem) /\ Greater(b.stem, c.stem)
    BY <2>1, <2>2, ClassFacts
  <2>4. CASE Greater(a.stem, b.stem) /\ Greater(b.stem, c.stem)
    <3>1. Greater(a.stem, c.stem)
      BY <1>1, <2>4, GreaterThrough
    <3> QED
      BY <1>3, <2>3, <3>1 DEF Overrides
  <2> QED
    BY <1>3, <2>3, <2>4 DEF Overrides
<1> QED
  BY <1>2, <1>3

\* Archives that were discovered.
AreArchives(D) == IsFiniteSet(D) /\ D \subseteq FileNames /\ \A f \in D : f.ext = "mpq"

(* Where no two archives are entangled the comparison is one to sort by.   *)
LEMMA ClearIsOrdered ==
    ASSUME NEW D, AreArchives(D), Clear(D)
    PROVE  WeakOrder(D)
<1>1. \A a, b \in D : a # b => (Before(a, b) <=> Overrides(a, b))
  <2>1. ASSUME NEW a \in D, NEW b \in D, a # b PROVE Before(a, b) <=> Overrides(a, b)
    <3>1. a \in FileNames /\ b \in FileNames /\ a.ext = b.ext /\ ~Entangled(a, b)
      BY DEF AreArchives, Clear
    <3> QED
      BY <2>1, <3>1, BeforeIsOverrides
  <2> QED
    BY <2>1
<1>2. \A a, b \in D : ~(Overrides(a, b) /\ Overrides(b, a))
  BY OverridesApart DEF AreArchives
<1>3. \A a, b, c \in D : Overrides(a, b) /\ Overrides(b, c) => Overrides(a, c)
  BY OverridesThrough DEF AreArchives
<1>4. \A a, b \in D : a # b => Overrides(a, b) \/ Overrides(b, a)
  BY OverridesTotal DEF AreArchives
<1>5. ASSUME NEW a \in D, NEW b \in D, NEW c \in D, a # b, b # c, a # c
      PROVE  /\ Before(a, b) /\ Before(b, c) => Before(a, c)
             /\ Before(a, b) => Before(a, c) \/ Before(c, b)
  <2>1. /\ Before(a, b) <=> Overrides(a, b)
        /\ Before(b, c) <=> Overrides(b, c)
        /\ Before(a, c) <=> Overrides(a, c)
        /\ Before(c, b) <=> Overrides(c, b)
    BY <1>1, <1>5
  <2>2. Overrides(a, c) \/ Overrides(c, a)
    BY <1>4, <1>5
  <2> QED
    BY <1>3, <2>1, <2>2
<1> QED
  BY <1>1, <1>2, <1>5 DEF WeakOrder

(* Every archive has a place in the order.                                 *)
LEMMA OrderHasAll ==
    ASSUME NEW D, IsFiniteSet(D), NEW order0 \in Orders(D), NEW f \in D
    PROVE  \E k \in 1..Cardinality(D) : order0[k] = f
<1> DEFINE n == Cardinality(D)
<1>1. n \in Nat /\ IsFiniteSet(1..n) /\ Cardinality(1..n) = n
  <2>1. n \in Nat
    BY FS_CardinalityType
  <2>2. IsFiniteSet(1..n) /\ Cardinality(1..n) = IF 1 > n THEN 0 ELSE n - 1 + 1
    BY <2>1, FS_Interval
  <2> QED
    BY <2>1, <2>2
<1>2. order0 \in [1..n -> D] /\ \A i, j \in 1..n : i < j => order0[i] # order0[j]
  BY DEF Orders
<1> HIDE DEF n
<1>3. order0 \in Injection(1..n, D)
  <2>1. \A i, j \in 1..n : order0[i] = order0[j] => i = j
    BY <1>1, <1>2
  <2> QED
    BY <1>2, <2>1 DEF Injection, IsInjective
<1>4. order0 \in Surjection(1..n, D)
  BY <1>1, <1>3, FS_Injection DEF n
<1> QED
  BY <1>4 DEF Surjection, n

(* The first archive of the order that has the file overrides all others   *)
(* that have it.                                                           *)
LEMMA FirstOverrides ==
    ASSUME NEW D, AreArchives(D), Clear(D), NEW order0 \in Orders(D), NEW H,
           NEW first \in FirstWith(order0, H), NEW other \in D \intersect H
    PROVE  first = other \/ Overrides(first, other)
<1> DEFINE n == Cardinality(D)
           having == {k \in 1..n : order0[k] \in H}
<1>1. n \in Nat /\ order0 \in [1..n -> D]
  BY FS_CardinalityType DEF AreArchives, Orders
<1>2. FirstWith(order0, H) = IF having = {} THEN {} ELSE {order0[Min(having)]}
  BY <1>1 DEF FirstWith
<1>3. PICK k \in 1..n : order0[k] = other
  BY OrderHasAll DEF AreArchives
<1>4. k \in having /\ having \subseteq Nat
  BY <1>3
<1> HIDE DEF having
<1>5. Min(having) \in having /\ Min(having) <= k /\ first = order0[Min(having)]
  BY <1>2, <1>4, MinFacts
<1>6. Min(having) \in 1..n
  BY <1>5 DEF having
<1>7. CASE Min(having) = k
  BY <1>3, <1>5, <1>7
<1>8. CASE Min(having) < k
  <2>1. first # other /\ ~Before(other, first)
    <3>1. WeakOrder(D)
      BY ClearIsOrdered
    <3>2. \A i, j \in 1..n : i < j => order0[i] # order0[j] /\ ~Before(order0[j], order0[i])
      BY <1>1, <3>1 DEF Orders
    <3> QED
      BY <1>3, <1>5, <1>6, <1>8, <3>2
  <2>2. /\ first \in FileNames /\ other \in FileNames /\ first.ext = other.ext
        /\ ~Entangled(other, first)
    BY <1>1, <1>5, <1>6 DEF AreArchives, Clear
  <2>3. ~Overrides(other, first)
    BY <2>1, <2>2, BeforeIsOverrides
  <2> QED
    BY <2>1, <2>2, <2>3, OverridesTotal
<1> QED
  BY <1>4, <1>5, <1>6, <1>7, <1>8
-----------------------------------------------------------------------------
(* Elements picked from a sequence.                                        *)

Picks(f, s, at, n) ==
    f = [k \in 0..n |-> IF k = 0 THEN << >>
                        ELSE IF k \in at THEN Append(f[k - 1], s[k]) ELSE f[k - 1]]

LEMMA PicksSteps ==
    ASSUME NEW n \in Nat, NEW s, NEW at, NEW f
    PROVE  Picks(f, s, at, n) <=>
             /\ f = [k \in 0..n |-> f[k]]
             /\ f[0] = << >>
             /\ \A k \in 1..n : f[k] = IF k \in at THEN Append(f[k - 1], s[k]) ELSE f[k - 1]
<1> DEFINE F(k) == IF k = 0 THEN << >>
                   ELSE IF k \in at THEN Append(f[k - 1], s[k]) ELSE f[k - 1]
<1>1. ASSUME f = [k \in 0..n |-> F(k)]
      PROVE  f = [k \in 0..n |-> f[k]] /\ \A k \in 0..n : f[k] = F(k)
  <2> HIDE DEF F
  <2> QED
    BY <1>1
<1>2. ASSUME f = [k \in 0..n |-> f[k]], \A k \in 0..n : f[k] = F(k)
      PROVE  f = [k \in 0..n |-> F(k)]
  <2> HIDE DEF F
  <2> QED
    BY <1>2
<1>3. (\A k \in 0..n : f[k] = F(k)) <=>
        /\ f[0] = << >>
        /\ \A k \in 1..n : f[k] = IF k \in at THEN Append(f[k - 1], s[k]) ELSE f[k - 1]
  <2>1. 0 \in 0..n /\ F(0) = << >> /\ \A k : k \in 0..n <=> k = 0 \/ k \in 1..n
    OBVIOUS
  <2>2. \A k \in 1..n : F(k) = IF k \in at THEN Append(f[k - 1], s[k]) ELSE f[k - 1]
    OBVIOUS
  <2> HIDE DEF F
  <2> QED
    BY <2>1, <2>2
<1> QED
  BY <1>1, <1>2, <1>3 DEF Picks

LEMMA PicksExist ==
    ASSUME NEW n \in Nat, NEW s, NEW at
    PROVE  \E f : Picks(f, s, at, n)
<1> DEFINE B == {m \in Nat : \E f : Picks(f, s, at, m)}
<1>1. 0 \in B
  <2> DEFINE f == [k \in 0..0 |-> << >>]
  <2>1. f = [k \in 0..0 |-> f[k]] /\ f[0] = << >> /\ 1..0 = {}
    OBVIOUS
  <2> HIDE DEF f
  <2>2. Picks(f, s, at, 0)
    BY <2>1, PicksSteps
  <2> QED
    BY <2>2
<1>2. ASSUME NEW m \in 1..n, m - 1 \in B PROVE m \in B
  <2>1. m \in Nat /\ m - 1 \in Nat /\ m # 0
    OBVIOUS
  <2>2. PICK g : Picks(g, s, at, m - 1)
    BY <1>2
  <2>3. /\ g[0] = << >>
        /\ \A k \in 1..m - 1 : g[k] = IF k \in at THEN Append(g[k - 1], s[k]) ELSE g[k - 1]
    BY <2>1, <2>2, PicksSteps
  <2> DEFINE last == IF m \in at THEN Append(g[m - 1], s[m]) ELSE g[m - 1]
             f == [k \in 0..m |-> IF k = m THEN last ELSE g[k]]
  <2>4. /\ f = [k \in 0..m |-> f[k]] /\ f[m] = last
        /\ \A k \in 0..m - 1 : f[k] = g[k]
    <3> HIDE DEF last
    <3> QED
      BY <2>1
  <2> HIDE DEF f
  <2>5. f[0] = << >>
    BY <2>1, <2>3, <2>4
  <2>6. ASSUME NEW k \in 1..m
        PROVE  f[k] = IF k \in at THEN Append(f[k - 1], s[k]) ELSE f[k - 1]
    <3>1. k - 1 \in 0..m - 1 /\ f[k - 1] = g[k - 1]
      BY <2>1, <2>4
    <3>2. CASE k = m
      BY <2>4, <3>1, <3>2
    <3>3. CASE k # m
      <4>1. k \in 1..m - 1 /\ f[k] = g[k]
        BY <2>1, <2>4, <3>3
      <4> QED
        BY <2>3, <3>1, <4>1
    <3> QED
      BY <3>2, <3>3
  <2>7. Picks(f, s, at, m)
    BY <2>1, <2>4, <2>5, <2>6, PicksSteps
  <2> QED
    BY <2>1, <2>7
<1> HIDE DEF B
<1>3. n \in B
  BY <1>1, <1>2, Reached
<1> QED
  BY <1>3 DEF B

LEMMA PicksSame ==
    ASSUME NEW n \in Nat, NEW m \in 0..n, NEW s, NEW at,
           NEW f, Picks(f, s, at, n), NEW g, Picks(g, s, at, m)
    PROVE  \A k \in 0..m : f[k] = g[k]
<1> DEFINE B == {k \in 0..m : f[k] = g[k]}
<1>1. m \in Nat
  OBVIOUS
<1>2. /\ f[0] = << >> /\ g[0] = << >>
      /\ \A k \in 1..n : f[k] = IF k \in at THEN Append(f[k - 1], s[k]) ELSE f[k - 1]
      /\ \A k \in 1..m : g[k] = IF k \in at THEN Append(g[k - 1], s[k]) ELSE g[k - 1]
  BY <1>1, PicksSteps
<1>3. \A k \in 1..m : k - 1 \in B => k \in B
  BY <1>1, <1>2
<1>4. 0 \in B
  BY <1>2
<1> HIDE DEF B
<1>5. \A k \in 0..m : k \in B
  BY <1>1, <1>3, <1>4, Reached
<1> QED
  BY <1>5 DEF B

(* Picked, one element after the other.                                    *)
LEMMA PickedSteps ==
    ASSUME NEW s, NEW at
    PROVE  /\ Picked(s, at, 0) = << >>
           /\ \A k \in Nat \ {0} : Picked(s, at, k) =
                IF k \in at THEN Append(Picked(s, at, k - 1), s[k]) ELSE Picked(s, at, k - 1)
<1>1. ASSUME NEW n \in Nat
      PROVE  \E f : Picks(f, s, at, n) /\ Picked(s, at, n) = f[n]
  <2> DEFINE f == CHOOSE f : Picks(f, s, at, n)
  <2>1. Picks(f, s, at, n)
    BY PicksExist
  <2>2. Picked(s, at, n) = f[n]
    BY DEF Picked, Picks
  <2> HIDE DEF f
  <2> QED
    BY <2>1, <2>2
<1>2. Picked(s, at, 0) = << >>
  BY <1>1, PicksSteps
<1>3. ASSUME NEW k \in Nat \ {0}
      PROVE  Picked(s, at, k) =
                IF k \in at THEN Append(Picked(s, at, k - 1), s[k]) ELSE Picked(s, at, k - 1)
  <2>1. k \in Nat /\ k - 1 \in Nat /\ k - 1 \in 0..k /\ k \in 1..k /\ k - 1 \in 0..k - 1
    OBVIOUS
  <2>2. PICK f : Picks(f, s, at, k) /\ Picked(s, at, k) = f[k]
    BY <1>1, <2>1
  <2>3. PICK g : Picks(g, s, at, k - 1) /\ Picked(s, at, k - 1) = g[k - 1]
    BY <1>1, <2>1
  <2>4. f[k - 1] = g[k - 1]
    BY <2>1, <2>2, <2>3, PicksSame
  <2>5. f[k] = IF k \in at THEN Append(f[k - 1], s[k]) ELSE f[k - 1]
    BY <2>1, <2>2, PicksSteps
  <2> QED
    BY <2>2, <2>3, <2>4, <2>5
<1> QED
  BY <1>2, <1>3

LEMMA PickedStep ==
    ASSUME NEW s, NEW at, NEW k \in Nat \ {0}
    PROVE  Picked(s, at, k) =
             IF k \in at THEN Append(Picked(s, at, k - 1), s[k]) ELSE Picked(s, at, k - 1)
<1>1. \A j \in Nat \ {0} : Picked(s, at, j) =
        IF j \in at THEN Append(Picked(s, at, j - 1), s[j]) ELSE Picked(s, at, j - 1)
  BY PickedSteps
<1> QED
  BY <1>1, Zenon

(* What is picked is a list of such elements.                              *)
LEMMA PickedSeq ==
    ASSUME NEW n \in Nat, NEW S, NEW s, NEW at, \A k \in 1..n : s[k] \in S
    PROVE  \A k \in 0..n : Picked(s, at, k) \in Seq(S)
<1> DEFINE B == {k \in 0..n : Picked(s, at, k) \in Seq(S)}
<1>1. 0 \in B
  <2>1. Picked(s, at, 0) = << >>
    BY PickedSteps
  <2>2. 0 \in 0..n /\ << >> \in Seq(S)
    OBVIOUS
  <2>3. Picked(s, at, 0) \in Seq(S)
    BY <2>1, <2>2
  <2> QED
    BY <2>2, <2>3
<1>2. ASSUME NEW k \in 1..n, k - 1 \in B PROVE k \in B
  <2>1. /\ k \in Nat \ {0} /\ s[k] \in S /\ Picked(s, at, k - 1) \in Seq(S)
        /\ Append(Picked(s, at, k - 1), s[k]) \in Seq(S)
    BY <1>2
  <2>2. Picked(s, at, k) =
          IF k \in at THEN Append(Picked(s, at, k - 1), s[k]) ELSE Picked(s, at, k - 1)
    <3>1. k \in Nat \ {0}
      BY <2>1
    <3> QED
      BY <3>1, PickedStep, Zenon
  <2>3. Picked(s, at, k) \in Seq(S)
    BY <2>1, <2>2
  <2> QED
    BY <2>3
<1> HIDE DEF B
<1>3. \A k \in 0..n : k \in B
  BY <1>1, <1>2, Reached
<1> QED
  BY <1>3 DEF B

\* b continues a.
Continues(a, b) == Len(a) <= Len(b) /\ \A i \in 1..Len(a) : b[i] = a[i]

(* What is picked of more elements continues what is picked of fewer.      *)
LEMMA PickedContinues ==
    ASSUME NEW n \in Nat, NEW S, NEW s, NEW at, \A k \in 1..n : s[k] \in S, NEW j \in 0..n
    PROVE  Continues(Picked(s, at, j), Picked(s, at, n))
<1> DEFINE B == {k \in 0..n : j <= k => Continues(Picked(s, at, j), Picked(s, at, k))}
<1>1. \A k \in 0..n : Picked(s, at, k) \in Seq(S)
  BY PickedSeq
<1>2. \A k \in 0..n : Continues(Picked(s, at, k), Picked(s, at, k))
  BY <1>1 DEF Continues
<1>3. 0 \in B
  <2>1. j <= 0 => j = 0
    OBVIOUS
  <2> QED
    BY <1>2, <2>1
<1>4. ASSUME NEW k \in 1..n, k - 1 \in B PROVE k \in B
  <2>1. /\ k \in Nat \ {0} /\ k \in 0..n /\ k - 1 \in 0..n /\ s[k] \in S
        /\ Picked(s, at, k - 1) \in Seq(S)
    BY <1>1
  <2>2. Continues(Picked(s, at, k - 1), Picked(s, at, k))
    <3>1. CASE k \in at
      <4>1. Picked(s, at, k) = Append(Picked(s, at, k - 1), s[k])
        BY <2>1, <3>1, PickedSteps
      <4> QED
        BY <2>1, <4>1 DEF Continues
    <3>2. CASE k \notin at
      BY <1>2, <2>1, <3>2, PickedSteps
    <3> QED
      BY <3>1, <3>2
  <2>3. CASE j <= k - 1
    <3>1. Continues(Picked(s, at, j), Picked(s, at, k - 1))
      BY <1>4, <2>3
    <3>2. Picked(s, at, j) \in Seq(S) /\ Picked(s, at, k) \in Seq(S)
      BY <1>1, <2>1
    <3>3. Continues(Picked(s, at, j), Picked(s, at, k))
      BY <2>1, <2>2, <3>1, <3>2 DEF Continues
    <3> QED
      BY <2>1, <3>3
  <2>4. CASE j = k
    BY <1>2, <2>1, <2>4
  <2>5. CASE ~(j <= k)
    BY <2>1, <2>5
  <2> QED
    BY <2>1, <2>3, <2>4, <2>5
<1> HIDE DEF B
<1>5. n \in B
  BY <1>3, <1>4, Reached
<1> QED
  BY <1>5 DEF B

(* An element that is not picked may be put in front.                      *)
LEMMA PickedBehind ==
    ASSUME NEW n \in Nat, NEW s, NEW at, NEW t, NEW ta, 1 \notin ta,
           \A k \in 1..n : t[k + 1] = s[k] /\ (k + 1 \in ta <=> k \in at)
    PROVE  Picked(t, ta, n + 1) = Picked(s, at, n)
<1> DEFINE B == {k \in 0..n : Picked(t, ta, k + 1) = Picked(s, at, k)}
<1>1. 0 \in B
  <2>1. 1 \in Nat \ {0} /\ 0 + 1 = 1 /\ 1 - 1 = 0
    OBVIOUS
  <2>2. Picked(t, ta, 1) = Picked(t, ta, 0)
    BY <2>1, PickedSteps
  <2>3. Picked(t, ta, 0) = << >> /\ Picked(s, at, 0) = << >>
    BY PickedSteps
  <2>4. Picked(t, ta, 0 + 1) = Picked(s, at, 0)
    BY <2>1, <2>2, <2>3
  <2> QED
    BY <2>4
<1>2. ASSUME NEW k \in 1..n, k - 1 \in B PROVE k \in B
  <2>1. /\ k \in Nat \ {0} /\ k + 1 \in Nat \ {0} /\ k + 1 - 1 = k /\ k - 1 + 1 = k
        /\ t[k + 1] = s[k] /\ (k + 1 \in ta <=> k \in at)
    OBVIOUS
  <2>2. Picked(t, ta, k) = Picked(s, at, k - 1)
    <3>1. Picked(t, ta, k - 1 + 1) = Picked(s, at, k - 1)
      BY <1>2
    <3> QED
      BY <2>1, <3>1
  <2>3. Picked(t, ta, k + 1) =
          IF k + 1 \in ta THEN Append(Picked(t, ta, k), t[k + 1]) ELSE Picked(t, ta, k)
    <3> DEFINE m == k + 1
    <3>1. m \in Nat \ {0} /\ m - 1 = k
      BY <2>1
    <3> HIDE DEF m
    <3>2. Picked(t, ta, m) =
            IF m \in ta THEN Append(Picked(t, ta, m - 1), t[m]) ELSE Picked(t, ta, m - 1)
      BY <3>1, PickedStep, Zenon
    <3>3. Picked(t, ta, m) = IF m \in ta THEN Append(Picked(t, ta, k), t[m]) ELSE Picked(t, ta, k)
      BY <3>1, <3>2
    <3> QED
      BY <3>3 DEF m
  <2>4. Picked(s, at, k) =
          IF k \in at THEN Append(Picked(s, at, k - 1), s[k]) ELSE Picked(s, at, k - 1)
    BY <2>1, PickedSteps
  <2>5. Picked(t, ta, k + 1) = Picked(s, at, k)
    BY <2>1, <2>2, <2>3, <2>4
  <2> QED
    BY <2>5
<1> HIDE DEF B
<1>3. n \in B
  BY <1>1, <1>2, Reached
<1> QED
  BY <1>3 DEF B
-----------------------------------------------------------------------------
(* The way through the program.                                            *)

\* Where a step that does not choose the way may lead.
Later == {"signature", "rewind", "dispatch", "header", "rows", "decode", "access",
          "exit0", "exit1", "undefined", "unread", "stopped"}

Chosen ==
    OpenMPQ \/ OpenCASC \/ OpenFile \/ ReadSignature \/ Rewind \/ Dispatch \/ ReadHeader
    \/ CallSource \/ FirstRow \/ DecodeField \/ RecordRead \/ Ask \/ Access \/ AccessEnds

LEMMA CallEnds ==
    ASSUME NEW n, SetPos(n) \/ Read(n)
    PROVE  status' \in {"ok", "thrown", "stopped"}
<1>1. CASE SetPos(n)
  BY <1>1 DEF SetPos
<1>2. CASE Read(n)
  BY <1>2 DEF Read, ReadMemory, ReadNative, ReadMPQ, ReadCASC, Gives, GivesNothing
<1> QED
  BY <1>1, <1>2

LEMMA CalledGoes ==
    ASSUME NEW n, SetPos(n) \/ Read(n), NEW s \in Later, Called(s)
    PROVE  stage' \in Later
<1>1. status' \in {"ok", "thrown", "stopped"}
  BY CallEnds
<1>2. stage' \in {s, "exit1", "stopped"}
  BY <1>1 DEF Called, Go
<1> QED
  BY <1>2 DEF Later

(* Once it has chosen where its table is the program does not go back.     *)
LEMMA LaterStages ==
    ASSUME Chosen
    PROVE  stage' \in Later /\ stage # "detect" /\ UNCHANGED <<infoVars, world, order>>
<1>1. CASE OpenMPQ \/ OpenCASC \/ OpenFile
  BY <1>1 DEF OpenMPQ, OpenCASC, OpenFile, Go, Later
<1>2. CASE ReadSignature
  <2>1. "rewind" \in Later
    BY DEF Later
  <2> QED
    BY <1>2, <2>1, CalledGoes DEF ReadSignature
<1>3. CASE Rewind
  <2>1. "dispatch" \in Later
    BY DEF Later
  <2> QED
    BY <1>3, <2>1, CalledGoes DEF Rewind, BackToStart
<1>4. CASE ReadHeader
  <2>1. PICK s \in {"rows", "exit1", "undefined"} : Called(s)
    <3>1. \A suits : (IF suits THEN "rows" ELSE "exit1") \in {"rows", "exit1", "undefined"}
      OBVIOUS
    <3> QED
      BY <1>4, <3>1 DEF ReadHeader
  <2>2. s \in Later
    BY DEF Later
  <2> QED
    BY <1>4, <2>1, <2>2, CalledGoes DEF ReadHeader
<1>5. CASE CallSource
  <2>1. "rows" \in Later
    BY DEF Later
  <2>2. PICK n : SetPos(n) \/ Read(n)
    BY <1>5 DEF CallSource
  <2> QED
    BY <1>5, <2>1, <2>2, CalledGoes DEF CallSource
<1>6. CASE Dispatch \/ FirstRow \/ DecodeField \/ RecordRead
  BY <1>6 DEF Dispatch, FirstRow, DecodeField, RecordRead, Go, Later
<1>7. CASE Ask \/ Access \/ AccessEnds
  BY <1>7 DEF Ask, Access, AccessEnds, Go, Later, clientVars
<1> QED
  BY <1>1, <1>2, <1>3, <1>4, <1>5, <1>6, <1>7 DEF Chosen

LEMMA NextChosen == Next <=> Detect \/ ChooseClient \/ DiscoverArchives \/ Chosen
BY DEF Next, Chosen
-----------------------------------------------------------------------------
(* The archive that is opened.                                             *)

ArchiveInv ==
    /\ \E worlds \in Families : world \in worlds
    /\ stage = "mpq" => order \in Orders(Discovered(world.files))
    /\ opened # {} =>
          \E ord \in Orders(Discovered(world.files)) : opened = FirstWith(ord, world.holds)

LEMMA ArchiveInit == Init => ArchiveInv
<1> SUFFICES ASSUME Init PROVE ArchiveInv
  OBVIOUS
<1>1. PICK worlds \in Families : world \in worlds
  BY DEF Init
<1>2. stage # "mpq" /\ opened = {}
  BY <1>1, WorldsAssumption DEF Init
<1> QED
  BY <1>1, <1>2 DEF ArchiveInv

LEMMA ArchiveStep == ArchiveInv /\ [Next]_vars => ArchiveInv'
<1> SUFFICES ASSUME ArchiveInv, [Next]_vars PROVE ArchiveInv'
  OBVIOUS
<1> USE DEF ArchiveInv
<1>1. CASE Detect \/ ChooseClient
  <2>1. stage' # "mpq" /\ UNCHANGED <<world, opened>>
    BY <1>1 DEF Detect, ChooseClient, Go, clientVars
  <2> QED
    BY <2>1
<1>2. CASE DiscoverArchives
  <2>1. /\ UNCHANGED <<world, opened>>
        /\ stage' = "mpq" => order' \in Orders(Discovered(world.files))
    BY <1>2 DEF DiscoverArchives, Go
  <2> QED
    BY <2>1
<1>3. CASE OpenMPQ
  <2>1. /\ UNCHANGED world /\ stage' # "mpq" /\ order \in Orders(Discovered(world.files))
        /\ opened' = FirstWith(order, world.holds)
    BY <1>3, LaterStages DEF OpenMPQ, Chosen, Later
  <2> QED
    BY <2>1
<1>4. CASE Chosen /\ ~OpenMPQ
  <2>1. stage' # "mpq" /\ UNCHANGED world
    BY <1>4, LaterStages DEF Later
  <2>2. UNCHANGED opened
    BY <1>4 DEF Chosen, OpenCASC, OpenFile, ReadSignature, Rewind, Dispatch, ReadHeader,
                CallSource, FirstRow, DecodeField, RecordRead, Ask, Access, AccessEnds, clientVars
  <2> QED
    BY <2>1, <2>2
<1>5. CASE UNCHANGED vars
  BY <1>5 DEF vars, clientVars
<1> QED
  BY <1>1, <1>2, <1>3, <1>4, <1>5, NextChosen

(* Whatever the archives of an installation, the file is taken from the    *)
(* one that overrides all others that have it, as far as the comparison    *)
(* does not entangle two of them.                                          *)
THEOREM OpenedOverridesAlways == Spec => []OpenedOverrides
<1>1. ASSUME ArchiveInv PROVE OpenedOverrides
  <2> DEFINE D == Discovered(world.files)
  <2>1. PICK worlds \in Families : world \in worlds
    BY <1>1 DEF ArchiveInv
  <2>2. AreArchives(D)
    <3>1. IsFiniteSet(world.files) /\ world.files \subseteq FileNames
      BY <2>1, WorldsAssumption DEF FileNames, Words
    <3>2. D \subseteq world.files /\ \A f \in D : f.ext = "mpq"
      BY DEF Discovered, IsArchive
    <3> QED
      BY <3>1, <3>2, FS_Subset DEF AreArchives
  <2>3. ASSUME opened # {}, Clear(D), NEW first \in opened, NEW other \in D \intersect world.holds
        PROVE  first = other \/ Overrides(first, other)
    <3>1. PICK ord \in Orders(D) : opened = FirstWith(ord, world.holds)
      BY <1>1, <2>3 DEF ArchiveInv
    <3> HIDE DEF D
    <3> QED
      BY <2>2, <2>3, <3>1, FirstOverrides
  <2> QED
    BY <2>3 DEF OpenedOverrides
<1> QED
  BY <1>1, ArchiveInit, ArchiveStep, PTL DEF Spec
-----------------------------------------------------------------------------
(* The clients of a directory.                                             *)

\* What buildFile keeps of the rows.
Found ==
    IF \A column \in {"Version", "Product", "Tags"} : Has(column)
    THEN Picked(rows, WithVersion, Len(rows))
    ELSE << >>

\* The lines that were read are the header and the rows behind it.
Gathered ==
    LET seen == Picked(directory.info, WithColumns, line)
    IN  /\ line # 0 => directory.hasInfo
        /\ header = << >> => rows = << >> /\ seen = << >>
        /\ header # << >> => seen = <<header>> \o rows
        /\ \A k \in 1..Len(rows) : Len(rows[k]) = Len(header)

DetectInv ==
    /\ IsDirectory(directory)
    /\ header \in Seq(Cells) /\ rows \in Seq(Seq(Cells))
    /\ line \in 0..Len(directory.info)
    /\ detecting \in {"info", "hints", "done", "thrown"}
    /\ detecting = "info" => clients = << >> /\ Gathered
    /\ detecting = "hints" => clients = << >> /\ InfoClients = << >>
    /\ detecting = "thrown" => clients = << >>
    /\ DetectedRight

LEMMA InfoTypes ==
    ASSUME IsDirectory(directory)
    PROVE  /\ Len(directory.info) \in Nat
           /\ \A k \in 1..Len(directory.info) : directory.info[k] \in Seq(Cells)
           /\ \A n \in 0..Len(directory.info) :
                 Picked(directory.info, WithColumns, n) \in Seq(Seq(Cells))
<1>1. /\ Len(directory.info) \in Nat
      /\ \A k \in 1..Len(directory.info) : directory.info[k] \in Seq(Cells)
  BY DEF IsDirectory
<1> QED
  BY <1>1, PickedSeq

(* find_index gives the first column of the name.                          *)
LEMMA ColumnIsFirst ==
    ASSUME header \in Seq(Cells), NEW name, Has(name)
    PROVE  /\ Column(name) = Min({k \in 1..Len(header) : header[k].text = name})
           /\ Column(name) \in 1..Len(header)
<1> DEFINE C == {k \in 1..Len(header) : header[k].text = name}
           First(k) == header[k].text = name /\ \A j \in 1..k - 1 : header[j].text # name
<1>1. C \subseteq Nat /\ C # {} /\ Len(header) \in Nat
  BY DEF Has
<1>2. Min(C) \in C /\ \A x \in C : Min(C) <= x
  <2> HIDE DEF C
  <2> QED
    BY <1>1, MinFacts
<1> DEFINE m == Min(C)
<1> HIDE DEF m
<1>3. m \in 1..Len(header) /\ First(m)
  <2>1. m \in 1..Len(header) /\ header[m].text = name
    BY <1>2 DEF m
  <2>2. ASSUME NEW j \in 1..m - 1, header[j].text = name PROVE FALSE
    <3>1. j \in C /\ j < m
      BY <1>1, <2>1, <2>2
    <3>2. m <= j
      BY <1>2, <3>1 DEF m
    <3> QED
      BY <1>1, <2>1, <3>1, <3>2
  <2> QED
    BY <2>1, <2>2
<1>4. Column(name) = CHOOSE k \in 1..Len(header) : First(k)
  BY DEF Column
<1>5. Column(name) \in 1..Len(header) /\ First(Column(name))
  BY <1>3, <1>4
<1>6. Column(name) \in C /\ m <= Column(name)
  BY <1>2, <1>5 DEF m
<1>7. Column(name) = m
  BY <1>1, <1>3, <1>5, <1>6
<1> QED
  BY <1>5, <1>7 DEF m

(* A header and rows of its length are clients by their whole versions.    *)
LEMMA InfoKept ==
    ASSUME header \in Seq(Cells), rows \in Seq(Seq(Cells)), header # << >>,
           directory.hasInfo, InfoRows = <<header>> \o rows,
           \A k \in 1..Len(rows) : Len(rows[k]) = Len(header)
    PROVE  InfoClients = [k \in 1..Len(Found) |-> RowClient(Found[k])]
<1> DEFINE named == {"Version", "Product", "Tags"}
<1>1. /\ Len(header) \in Nat /\ Len(rows) \in Nat /\ Len(InfoRows) = Len(rows) + 1
      /\ InfoRows # << >> /\ InfoRows[1] = header
      /\ \A k \in 1..Len(rows) : InfoRows[k + 1] = rows[k]
  OBVIOUS
<1>2. \A k \in 1..Len(InfoRows) : Len(InfoRows[k]) = Len(header)
  <2>1. ASSUME NEW k \in 1..Len(InfoRows), k # 1 PROVE Len(InfoRows[k]) = Len(header)
    <3>1. k - 1 \in 1..Len(rows) /\ InfoRows[k] = rows[k - 1]
      BY <1>1, <2>1
    <3> QED
      BY <3>1
  <2> QED
    BY <1>1, <2>1
<1>3. \A name : ColumnAt(name) = {k \in 1..Len(header) : header[k].text = name}
  BY <1>1 DEF ColumnAt
<1>4. InfoReadable <=> \A name \in named : Has(name)
  <2>1. \A name : ColumnAt(name) # {} <=> Has(name)
    BY <1>3 DEF Has
  <2> QED
    BY <1>1, <1>2, <2>1 DEF InfoReadable
<1>5. CASE ~InfoReadable
  <2>1. InfoClients = << >> /\ Found = << >>
    BY <1>4, <1>5 DEF InfoClients, Found
  <2> QED
    BY <2>1
<1>6. CASE InfoReadable
  <2>1. \A name \in named : Min(ColumnAt(name)) = Column(name)
    BY <1>3, <1>4, <1>6, ColumnIsFirst
  <2> DEFINE whole == {k \in 2..Len(InfoRows) :
                          Len(InfoRows[k][Min(ColumnAt("Version"))].version) > 3}
             kept == Picked(InfoRows, whole, Len(InfoRows))
             client(row) == [name |-> row[Min(ColumnAt("Product"))].text,
                             version |-> Version(row[Min(ColumnAt("Version"))].version),
                             locales |-> row[Min(ColumnAt("Tags"))].locales]
  <2>2. InfoClients = [k \in 1..Len(kept) |-> client(kept[k])]
    BY <1>6 DEF InfoClients
  <2>3. \A row : client(row) = RowClient(row)
    BY <2>1 DEF RowClient, Client
  <2>4. Found = Picked(rows, WithVersion, Len(rows))
    BY <1>4, <1>6 DEF Found
  <2>5. kept = Found
    <3>1. ASSUME NEW k \in 1..Len(rows) PROVE k + 1 \in whole <=> k \in WithVersion
      <4> DEFINE v == rows[k][Column("Version")].version
      <4>1. InfoRows[k + 1][Min(ColumnAt("Version"))].version = v
        BY <1>1, <2>1
      <4>2. Len(v) \in Nat
        <5>1. Column("Version") \in 1..Len(header)
          BY <1>4, <1>6, ColumnIsFirst
        <5>2. rows[k] \in Seq(Cells) /\ Len(rows[k]) = Len(header)
          OBVIOUS
        <5>3. rows[k][Column("Version")] \in Cells
          BY <5>1, <5>2
        <5>4. v \in Seq(Int)
          BY <5>3 DEF Cells
        <5> QED
          BY <5>4
      <4>3. k + 1 \in 2..Len(InfoRows)
        BY <1>1
      <4> HIDE DEF v
      <4>4. k + 1 \in whole <=> Len(v) > 3
        BY <4>1, <4>3
      <4>5. k \in WithVersion <=> Len(v) >= 4
        BY DEF WithVersion, HasVersion, v
      <4> QED
        BY <4>2, <4>4, <4>5
    <3>2. 1 \notin whole
      OBVIOUS
    <3> HIDE DEF whole
    <3> DEFINE n == Len(rows)
    <3>3. /\ n \in Nat /\ 1 \notin whole
          /\ \A k \in 1..n : InfoRows[k + 1] = rows[k] /\ (k + 1 \in whole <=> k \in WithVersion)
      BY <1>1, <3>1, <3>2
    <3> HIDE DEF n
    <3>4. Picked(InfoRows, whole, n + 1) = Picked(rows, WithVersion, n)
      BY <3>3, PickedBehind
    <3> QED
      BY <1>1, <2>4, <3>4 DEF n
  <2> HIDE DEF kept, client
  <2> QED
    BY <2>2, <2>3, <2>5
<1> QED
  BY <1>5, <1>6

\* Rows that are kept have a version.
LEMMA FoundTypes ==
    ASSUME header \in Seq(Cells), rows \in Seq(Seq(Cells))
    PROVE  Found \in Seq(Seq(Cells))
<1>1. Len(rows) \in Nat /\ \A k \in 1..Len(rows) : rows[k] \in Seq(Cells)
  OBVIOUS
<1>2. \A k \in 0..Len(rows) : Picked(rows, WithVersion, k) \in Seq(Seq(Cells))
  BY <1>1, PickedSeq
<1>3. Len(rows) \in 0..Len(rows)
  BY <1>1
<1>4. Picked(rows, WithVersion, Len(rows)) \in Seq(Seq(Cells))
  BY <1>2, <1>3
<1> QED
  BY <1>4 DEF Found

LEMMA DetectInvInit == Init => DetectInv
<1> SUFFICES ASSUME Init PROVE DetectInv
  OBVIOUS
<1>1. PICK worlds \in Families : world \in worlds
  BY DEF Init
<1>2. /\ directory = world.directory /\ IsDirectory(directory)
      /\ line = 0 /\ header = << >> /\ rows = << >> /\ clients = << >> /\ detecting = "info"
  BY <1>1, WorldsAssumption DEF Init, DetectInit
<1>3. Picked(directory.info, WithColumns, 0) = << >>
  BY PickedSteps
<1>4. Len(directory.info) \in Nat
  BY <1>2, InfoTypes
<1>5. Gathered
  BY <1>2, <1>3 DEF Gathered
<1> QED
  BY <1>2, <1>4, <1>5 DEF DetectInv, DetectedRight

\* The clients of a directory are as the directory is.
LEMMA DirectoryKept ==
    ASSUME UNCHANGED directory
    PROVE  /\ UNCHANGED <<WithColumns, InfoClients, ClientsOf>>
           /\ IsDirectory(directory) => IsDirectory(directory)'
<1>1. UNCHANGED <<InfoRows, WithColumns>>
  BY DEF InfoRows, WithColumns
<1>2. \A name : ColumnAt(name)' = ColumnAt(name)
  BY <1>1 DEF ColumnAt
<1>3. UNCHANGED InfoReadable
  BY <1>1, <1>2 DEF InfoReadable
<1>4. UNCHANGED InfoClients
  BY <1>1, <1>2, <1>3 DEF InfoClients
<1>5. UNCHANGED HintClients
  BY DEF HintClients
<1> QED
  BY <1>1, <1>4, <1>5 DEF ClientsOf, IsDirectory

(* A row of another length leaves the directory without clients.           *)
LEMMA OtherLength ==
    ASSUME IsDirectory(directory), header \in Seq(Cells), rows \in Seq(Seq(Cells)), header # << >>,
           line < Len(directory.info), line \in Nat,
           directory.info[line + 1] # << >>, Len(directory.info[line + 1]) # Len(header),
           Picked(directory.info, WithColumns, line) = <<header>> \o rows
    PROVE  InfoClients = << >>
<1> DEFINE n    == Len(directory.info)
           next == line + 1
           seen == Picked(directory.info, WithColumns, line)
           row  == directory.info[next]
           more == Picked(directory.info, WithColumns, next)
<1>1. /\ n \in Nat /\ next \in 1..n /\ next \in Nat \ {0} /\ next - 1 = line /\ next \in 0..n
      /\ n \in 0..n
  <2>1. n \in Nat
    BY InfoTypes
  <2>2. line < n /\ line \in Nat
    OBVIOUS
  <2> HIDE DEF n
  <2> QED
    BY <2>1, <2>2
<1>2. row \in Seq(Cells) /\ more \in Seq(Seq(Cells)) /\ InfoRows \in Seq(Seq(Cells))
  BY <1>1, InfoTypes DEF InfoRows
<1>3. more = Append(seen, row)
  <2>1. next \in WithColumns
    BY <1>1 DEF WithColumns
  <2>2. \A k \in Nat \ {0} : Picked(directory.info, WithColumns, k) =
          IF k \in WithColumns
          THEN Append(Picked(directory.info, WithColumns, k - 1), directory.info[k])
          ELSE Picked(directory.info, WithColumns, k - 1)
    BY PickedStep
  <2> HIDE DEF next
  <2> QED
    BY <1>1, <2>1, <2>2
<1>4. Continues(more, InfoRows)
  <2>1. \A k \in 1..n : directory.info[k] \in Seq(Cells)
    BY InfoTypes
  <2> HIDE DEF n, next
  <2>2. Continues(more, Picked(directory.info, WithColumns, n))
    BY <1>1, <2>1, PickedContinues
  <2> QED
    BY <2>2 DEF InfoRows, n
<1>5. /\ Len(more) = Len(rows) + 2 /\ more[1] = header /\ more[Len(rows) + 2] = row
      /\ Len(rows) \in Nat
  <2>1. seen = <<header>> \o rows /\ Len(rows) \in Nat
    OBVIOUS
  <2>2. seen \in Seq(Seq(Cells)) /\ Len(seen) = Len(rows) + 1 /\ seen[1] = header
    BY <2>1
  <2>3. row \in Seq(Cells)
    BY <1>2
  <2> HIDE DEF seen, row, more
  <2>4. more[1] = seen[1] /\ Len(more) = Len(seen) + 1 /\ more[Len(seen) + 1] = row
    BY <1>3, <2>1, <2>2, <2>3
  <2> QED
    BY <2>1, <2>2, <2>4
<1> HIDE DEF more, seen, row
<1>6. /\ Len(InfoRows) \in Nat /\ Len(rows) + 2 <= Len(InfoRows)
      /\ InfoRows[1] = header /\ InfoRows[Len(rows) + 2] = row
  <2>1. Len(InfoRows) \in Nat
    BY <1>2
  <2>2. 1 \in 1..Len(more) /\ Len(rows) + 2 \in 1..Len(more)
    BY <1>5
  <2> QED
    BY <1>4, <1>5, <2>1, <2>2 DEF Continues
<1>7. ~InfoReadable
  <2>1. Len(rows) + 2 \in 1..Len(InfoRows)
    BY <1>5, <1>6
  <2>2. Len(InfoRows[Len(rows) + 2]) # Len(InfoRows[1])
    BY <1>6 DEF row
  <2> QED
    BY <2>1, <2>2 DEF InfoReadable
<1> QED
  BY <1>7 DEF InfoClients

LEMMA ReadInfoLineStep ==
    ASSUME DetectInv, ReadInfoLine
    PROVE  DetectInv'
<1> DEFINE n    == Len(directory.info)
           next == line + 1
           row  == directory.info[next]
           seen == Picked(directory.info, WithColumns, line)
<1>1. /\ IsDirectory(directory) /\ header \in Seq(Cells) /\ rows \in Seq(Seq(Cells))
      /\ clients = << >> /\ Gathered /\ detecting = "info" /\ directory.hasInfo
      /\ UNCHANGED <<directory, clients>> /\ line' = next
  BY DEF DetectInv, ReadInfoLine
<1>2. n \in Nat /\ line \in 0..n /\ line < n /\ next \in 1..n /\ next - 1 = line /\ next # 0
  <2>1. n \in Nat
    BY <1>1, InfoTypes
  <2>2. line \in 0..n /\ line < n
    BY DEF DetectInv, ReadInfoLine
  <2> HIDE DEF n
  <2> QED
    BY <2>1, <2>2
<1>3. row \in Seq(Cells) /\ seen \in Seq(Seq(Cells))
  BY <1>1, <1>2, InfoTypes
<1>4. Picked(directory.info, WithColumns, next) =
        IF next \in WithColumns THEN Append(seen, row) ELSE seen
  <2>1. \A k \in Nat \ {0} : Picked(directory.info, WithColumns, k) =
          IF k \in WithColumns
          THEN Append(Picked(directory.info, WithColumns, k - 1), directory.info[k])
          ELSE Picked(directory.info, WithColumns, k - 1)
    BY PickedStep
  <2>2. next \in Nat \ {0}
    BY <1>2
  <2> HIDE DEF next
  <2> QED
    BY <1>2, <2>1, <2>2
<1>5. next \in WithColumns <=> row # << >>
  BY <1>2 DEF WithColumns
<1>6. /\ UNCHANGED <<WithColumns, InfoClients, ClientsOf>> /\ IsDirectory(directory)'
  BY <1>1, DirectoryKept
<1>7. Picked(directory.info, WithColumns, line)' = IF row # << >> THEN Append(seen, row) ELSE seen
  BY <1>1, <1>4, <1>5, <1>6
<1>8. /\ header = << >> => rows = << >> /\ seen = << >>
      /\ header # << >> => seen = <<header>> \o rows
      /\ \A k \in 1..Len(rows) : Len(rows[k]) = Len(header)
  BY <1>1 DEF Gathered
<1>9. line' \in 0..Len(directory.info)'
  BY <1>1, <1>2
<1>10. CASE row = << >> /\ UNCHANGED <<header, rows, detecting>>
  <2>1. Gathered'
    BY <1>1, <1>7, <1>8, <1>10 DEF Gathered
  <2> QED
    BY <1>1, <1>6, <1>9, <1>10, <2>1 DEF DetectInv, DetectedRight
<1>11. CASE row # << >> /\ header = << >> /\ header' = row /\ UNCHANGED <<rows, detecting>>
  <2>1. Append(seen, row) = <<row>> \o rows
    <3>1. Append(<< >>, row) = <<row>> /\ <<row>> \o << >> = <<row>>
      BY <1>3
    <3> QED
      BY <1>8, <1>11, <3>1
  <2>2. Len(rows') = 0
    BY <1>8, <1>11
  <2>3. Gathered'
    BY <1>1, <1>7, <1>11, <2>1, <2>2 DEF Gathered
  <2> QED
    BY <1>1, <1>3, <1>6, <1>9, <1>11, <2>3 DEF DetectInv, DetectedRight
<1>12. CASE /\ row # << >> /\ header # << >> /\ Len(row) = Len(header)
            /\ rows' = Append(rows, row) /\ UNCHANGED <<header, detecting>>
  <2> HIDE DEF row, seen
  <2>1. Append(seen, row) = <<header>> \o Append(rows, row)
    BY <1>1, <1>3, <1>8, <1>12
  <2>2. rows' \in Seq(Seq(Cells)) /\ \A k \in 1..Len(rows') : Len(rows'[k]) = Len(header)
    BY <1>1, <1>3, <1>8, <1>12
  <2>3. Gathered'
    BY <1>1, <1>7, <1>12, <2>1, <2>2 DEF Gathered
  <2> QED
    BY <1>1, <1>6, <1>9, <1>12, <2>2, <2>3 DEF DetectInv, DetectedRight
<1>13. CASE /\ row # << >> /\ header # << >> /\ Len(row) # Len(header)
            /\ detecting' = "hints" /\ UNCHANGED <<header, rows>>
  <2>1. InfoClients = << >>
    BY <1>1, <1>2, <1>8, <1>13, OtherLength
  <2> QED
    BY <1>1, <1>6, <1>9, <1>13, <2>1 DEF DetectInv, DetectedRight
<1> QED
  BY <1>10, <1>11, <1>12, <1>13 DEF ReadInfoLine, SameColumns

LEMMA BuildFileEndsStep ==
    ASSUME DetectInv, BuildFileEnds
    PROVE  DetectInv'
<1>1. /\ IsDirectory(directory) /\ header \in Seq(Cells) /\ rows \in Seq(Seq(Cells))
      /\ line \in 0..Len(directory.info) /\ Gathered
      /\ ~directory.hasInfo \/ line = Len(directory.info)
      /\ UNCHANGED <<directory, line, header, rows>>
  BY DEF DetectInv, BuildFileEnds
<1>2. /\ clients' = [k \in 1..Len(Found) |-> RowClient(Found[k])]
      /\ detecting' = IF Found = << >> THEN "hints" ELSE "done"
  BY DEF BuildFileEnds, Found
<1>3. InfoClients = clients'
  <2>1. CASE header = << >>
    <3>1. Found = << >>
      BY <2>1 DEF Found, Has
    <3>2. ~InfoReadable
      BY <1>1, <2>1 DEF InfoReadable, InfoRows, Gathered
    <3> QED
      BY <1>2, <3>1, <3>2 DEF InfoClients
  <2>2. CASE header # << >>
    <3>1. line # 0
      <4>1. Picked(directory.info, WithColumns, 0) = << >>
        BY PickedSteps
      <4>2. <<header>> \o rows # << >>
        BY <1>1
      <4> QED
        BY <1>1, <2>2, <4>1, <4>2 DEF Gathered
    <3>2. /\ directory.hasInfo /\ InfoRows = <<header>> \o rows
          /\ \A k \in 1..Len(rows) : Len(rows[k]) = Len(header)
      BY <1>1, <2>2, <3>1 DEF Gathered, InfoRows
    <3> QED
      BY <1>1, <1>2, <2>2, <3>2, InfoKept
  <2> QED
    BY <2>1, <2>2
<1>4. Found = << >> <=> clients' = << >>
  <2>1. Found \in Seq(Seq(Cells))
    BY <1>1, FoundTypes
  <2> HIDE DEF Found
  <2>2. CASE Found # << >>
    <3>1. 1 \in 1..Len(Found)
      BY <2>1, <2>2
    <3>2. 1 \in DOMAIN clients'
      BY <1>2, <3>1
    <3> QED
      BY <2>2, <3>2
  <2>3. CASE Found = << >>
    BY <1>2, <2>3
  <2> QED
    BY <2>2, <2>3
<1>5. /\ UNCHANGED <<InfoClients, ClientsOf>> /\ IsDirectory(directory)'
  BY <1>1, DirectoryKept
<1>6. CASE Found = << >>
  BY <1>1, <1>2, <1>3, <1>4, <1>5, <1>6 DEF DetectInv, DetectedRight
<1>7. CASE Found # << >>
  <2>1. clients' = ClientsOf
    BY <1>3, <1>4, <1>7 DEF ClientsOf
  <2> QED
    BY <1>1, <1>2, <1>5, <1>7, <2>1 DEF DetectInv, DetectedRight
<1> QED
  BY <1>6, <1>7

(* The first executable with a version is the one the hints tell of.       *)
LEMMA HintsKept ==
    ASSUME IsDirectory(directory), FilesystemHints, clients = << >>
    PROVE  clients' = IF detecting' = "thrown" THEN << >> ELSE HintClients
<1> DEFINE exes  == Versioned(directory.exes)
           whole == {k \in 1..Len(directory.exes) : Len(directory.exes[k]) > 3}
           first == CHOOSE k \in exes : \A j \in exes : k <= j
           n     == Len(directory.locales)
<1>1. exes = whole /\ whole \subseteq Nat
  <2>1. DOMAIN directory.exes = 1..Len(directory.exes) /\ Len(directory.exes) \in Nat
    BY DEF IsDirectory
  <2>2. \A k \in 1..Len(directory.exes) : Len(directory.exes[k]) \in Nat
    BY DEF IsDirectory
  <2>3. \A k \in 1..Len(directory.exes) :
          Len(directory.exes[k]) >= 4 <=> Len(directory.exes[k]) > 3
    BY <2>2
  <2> QED
    BY <2>1, <2>3 DEF Versioned, HasVersion
<1>2. CASE ~directory.windows \/ exes = {}
  BY <1>1, <1>2 DEF FilesystemHints, HintClients
<1>3. CASE directory.windows /\ exes # {} /\ ~directory.hasData
  BY <1>3 DEF FilesystemHints
<1>4. CASE directory.windows /\ exes # {} /\ directory.hasData
  <2>1. first = Min(whole)
    <3> HIDE DEF whole, exes
    <3>1. Min(whole) \in whole /\ \A x \in whole : Min(whole) <= x
      BY <1>1, <1>4, MinFacts
    <3>2. first = CHOOSE k \in whole : \A j \in whole : k <= j
      BY <1>1
    <3> DEFINE m == Min(whole)
               c == CHOOSE k \in whole : \A j \in whole : k <= j
    <3>3. c \in whole /\ \A j \in whole : c <= j
      BY <3>1
    <3>4. c <= m /\ m <= c /\ c \in Nat /\ m \in Nat
      BY <1>1, <3>1, <3>3
    <3> HIDE DEF m, c
    <3>5. m = c
      BY <3>4
    <3> QED
      BY <3>2, <3>5 DEF m, c
  <2>2. SubSeq(directory.locales, 1, Min({1, n})) =
          IF directory.locales = << >> THEN << >> ELSE <<Head(directory.locales)>>
    <3>1. directory.locales \in Seq(STRING) /\ n \in Nat
      BY DEF IsDirectory
    <3>2. Min({1, n}) \in {1, n} /\ Min({1, n}) <= 1 /\ Min({1, n}) <= n
      BY <3>1, MinFacts
    <3>3. CASE directory.locales = << >>
      <4>1. n = 0 /\ Min({1, n}) = 0
        BY <3>2, <3>3
      <4> QED
        BY <3>3, <4>1
    <3>4. CASE directory.locales # << >>
      <4>1. n >= 1
        BY <3>1, <3>4
      <4>2. Min({1, n}) = 1
        BY <3>1, <3>2, <4>1
      <4>3. SubSeq(directory.locales, 1, 1) = <<Head(directory.locales)>>
        <5> DEFINE s == directory.locales
        <5>1. s \in Seq(STRING) /\ s # << >> /\ Len(s) \in Nat /\ Len(s) >= 1
          BY <3>1, <3>4, <4>1
        <5> HIDE DEF s
        <5>2. SubSeq(s, 1, 1) = [i \in 1..1 |-> s[i]]
          BY <5>1
        <5>3. Head(s) = s[1] /\ <<s[1]>> = [i \in 1..1 |-> s[i]]
          BY <5>1
        <5> QED
          BY <5>2, <5>3 DEF s
      <4> QED
        BY <3>4, <4>2, <4>3
    <3> QED
      BY <3>3, <3>4
  <2>3. /\ detecting' = "done"
        /\ clients' = <<Client("", directory.exes[first],
                               IF directory.locales = << >> THEN << >>
                               ELSE <<Head(directory.locales)>>)>>
    BY <1>4 DEF FilesystemHints
  <2>4. HintClients = <<[name |-> "", version |-> Version(directory.exes[Min(whole)]),
                         locales |-> SubSeq(directory.locales, 1, Min({1, n}))]>>
    BY <1>1, <1>4 DEF HintClients
  <2> HIDE DEF first, whole, exes, n
  <2>5. clients' = HintClients
    BY <2>1, <2>2, <2>3, <2>4 DEF Client
  <2> QED
    BY <2>3, <2>5
<1> QED
  BY <1>2, <1>3, <1>4

LEMMA FilesystemHintsStep ==
    ASSUME DetectInv, FilesystemHints
    PROVE  DetectInv'
<1>1. /\ IsDirectory(directory) /\ header \in Seq(Cells) /\ rows \in Seq(Seq(Cells))
      /\ line \in 0..Len(directory.info) /\ clients = << >> /\ InfoClients = << >>
      /\ UNCHANGED <<directory, line, header, rows>> /\ detecting' \in {"done", "thrown"}
  BY DEF DetectInv, FilesystemHints
<1>2. clients' = IF detecting' = "thrown" THEN << >> ELSE HintClients
  BY <1>1, HintsKept
<1>3. UNCHANGED <<InfoClients, ClientsOf>> /\ IsDirectory(directory)'
  BY <1>1, DirectoryKept
<1>4. ClientsOf = HintClients
  BY <1>1 DEF ClientsOf
<1> QED
  BY <1>1, <1>2, <1>3, <1>4 DEF DetectInv, DetectedRight

LEMMA DetectUntouched ==
    ASSUME DetectInv, UNCHANGED infoVars
    PROVE  DetectInv'
<1>1. UNCHANGED <<directory, line, header, rows, clients, detecting>>
  BY DEF infoVars
<1>2. UNCHANGED <<WithColumns, InfoClients, ClientsOf>> /\ IsDirectory(directory)'
  BY <1>1, DirectoryKept DEF DetectInv
<1>3. Gathered => Gathered'
  BY <1>1, <1>2 DEF Gathered
<1> QED
  BY <1>1, <1>2, <1>3 DEF DetectInv, DetectedRight

LEMMA DetectInvStep == DetectInv /\ [Next]_vars => DetectInv'
<1> SUFFICES ASSUME DetectInv, [Next]_vars PROVE DetectInv'
  OBVIOUS
<1>1. CASE Detect
  BY <1>1, ReadInfoLineStep, BuildFileEndsStep, FilesystemHintsStep DEF Detect, DetectStep
<1>2. CASE ChooseClient \/ DiscoverArchives
  BY <1>2, DetectUntouched DEF ChooseClient, DiscoverArchives
<1>3. CASE Chosen
  BY <1>3, LaterStages, DetectUntouched
<1>4. CASE UNCHANGED vars
  BY <1>4, DetectUntouched DEF vars
<1> QED
  BY <1>1, <1>2, <1>3, <1>4, NextChosen

(* Whatever the lines and the executables of a directory, detect() gives   *)
(* the clients they tell of.                                               *)
THEOREM DetectedRightAlways == Spec => []DetectedRight
<1>1. DetectInv => DetectedRight
  BY DEF DetectInv
<1> QED
  BY <1>1, DetectInvInit, DetectInvStep, PTL DEF Spec
-----------------------------------------------------------------------------
(* The format of a version.                                                *)

Versions == [expansion : Nat, major : Nat, minor : Nat, build : Nat]

LEMMA VersionTypes == \A parts : Version(parts) \in Versions
<1>1. \A digits : Part(digits, ShortSpan) \in Nat /\ Part(digits, LongSpan) \in Nat
  BY SpanAssumption DEF Part
<1> QED
  BY <1>1 DEF Version, Versions

(* A version is earlier than a cut-off in its first part that differs.     *)
LEMMA EarlierFacts ==
    ASSUME NEW v \in Versions, NEW a \in Nat, NEW b \in Nat, NEW c \in Nat, NEW d \in Nat
    PROVE  Earlier(v, Cutoff(a, b, c, d)) <=>
             \/ v.expansion < a
             \/ v.expansion = a /\ v.major < b
             \/ v.expansion = a /\ v.major = b /\ v.minor < c
             \/ v.expansion = a /\ v.major = b /\ v.minor = c /\ v.build < d
<1> DEFINE p == <<v.expansion, v.major, v.minor, v.build>>
           q == <<a, b, c, d>>
           At(k) == p[k] < q[k] /\ \A j \in 1..k - 1 : p[j] = q[j]
<1>1. Earlier(v, Cutoff(a, b, c, d)) <=> \E k \in 1..4 : At(k)
  BY DEF Earlier, Cutoff
<1>2. /\ p[1] = v.expansion /\ p[2] = v.major /\ p[3] = v.minor /\ p[4] = v.build
      /\ q[1] = a /\ q[2] = b /\ q[3] = c /\ q[4] = d
  OBVIOUS
<1> HIDE DEF p, q
<1>3. /\ At(1) <=> p[1] < q[1]
      /\ At(2) <=> p[2] < q[2] /\ p[1] = q[1]
  <2>1. \A j : j \in 1..1 - 1 => FALSE
    OBVIOUS
  <2>2. \A j : j \in 1..2 - 1 <=> j = 1
    OBVIOUS
  <2> QED
    BY <2>1, <2>2
<1>4. /\ At(3) <=> p[3] < q[3] /\ p[1] = q[1] /\ p[2] = q[2]
      /\ At(4) <=> p[4] < q[4] /\ p[1] = q[1] /\ p[2] = q[2] /\ p[3] = q[3]
  <2>1. \A j : j \in 1..3 - 1 <=> j = 1 \/ j = 2
    OBVIOUS
  <2>2. \A j : j \in 1..4 - 1 <=> j = 1 \/ j = 2 \/ j = 3
    OBVIOUS
  <2> QED
    BY <2>1, <2>2
<1> HIDE DEF At
<1>5. (\E k \in 1..4 : At(k)) <=> At(1) \/ At(2) \/ At(3) \/ At(4)
  <2>1. \A k : k \in 1..4 <=> k = 1 \/ k = 2 \/ k = 3 \/ k = 4
    OBVIOUS
  <2> QED
    BY <2>1
<1> QED
  BY <1>1, <1>2, <1>3, <1>4, <1>5

\* The versions before 1.0, and from 2.0 up to 2.1.
OtherFormat(v) == v.expansion < 1 \/ (v.expansion = 2 /\ Earlier(v, Cutoff(2, 1, 0, 6692)))

(* For these versions, and for no others, the demo's rule and that of the  *)
(* library differ.                                                         *)
LEMMA FormatsDiffer ==
    ASSUME NEW v \in Versions
    PROVE  DemoVersion(v) # GetDBCVersion(v) <=> OtherFormat(v)
<1> DEFINE early == Earlier(v, Cutoff(2, 1, 0, 6692))
           late  == ~Earlier(v, Cutoff(4, 0, 0, 0))
<1>1. v.expansion \in Nat /\ v.major \in Nat /\ v.minor \in Nat /\ v.build \in Nat
  BY DEF Versions
<1>2. OtherFormat(v) <=> v.expansion < 1 \/ (v.expansion = 2 /\ early)
  BY DEF OtherFormat
<1>3. /\ v.expansion < 2 => early
      /\ v.expansion > 2 => ~early
  BY <1>1, EarlierFacts
<1>4. late <=> v.expansion >= 4
  BY <1>1, EarlierFacts
<1>5. GetDBCVersion(v) = IF early THEN "VANILLA" ELSE IF late THEN "CATA_PLUS" ELSE "BC_WOTLK"
  <2>1. ~(early /\ late)
    BY <1>1, <1>3, <1>4
  <2> QED
    BY <2>1 DEF GetDBCVersion
<1>6. DemoVersion(v) =
        IF v.expansion = 1 THEN "VANILLA"
        ELSE IF v.expansion \in {2, 3} THEN "BC_WOTLK" ELSE "CATA_PLUS"
  BY <1>1 DEF DemoVersion
<1> HIDE DEF early, late
<1> QED
  BY <1>1, <1>2, <1>3, <1>4, <1>5, <1>6

\* The first client, if there is one, has a version.
FirstVersion == clients # << >> => clients[1].version \in Versions

VersionInv ==
    /\ \E worlds \in Families : world \in worlds
    /\ FirstVersion
    /\ stage = "detect" => version = "none"
    /\ stage \in {"archives", "mpq"} => clients # << >>
    /\ world.start = "detect" =>
          /\ stage # "source"
          /\ version # "none" => clients # << >> /\ version = DemoVersion(clients[1].version)

LEMMA VersionInit == Init => VersionInv
<1> SUFFICES ASSUME Init PROVE VersionInv
  OBVIOUS
<1>1. PICK worlds \in Families : world \in worlds
  BY DEF Init
<1>2. stage = world.start /\ stage \in {"detect", "source", "decode", "access"}
  BY <1>1, WorldsAssumption DEF Init
<1>3. clients = << >> /\ version = "none"
  BY DEF Init, DetectInit
<1> QED
  BY <1>1, <1>2, <1>3 DEF VersionInv, FirstVersion

LEMMA DetectKeepsVersion ==
    ASSUME DetectInv, FirstVersion, DetectStep
    PROVE  FirstVersion'
<1>1. CASE ReadInfoLine
  BY <1>1 DEF ReadInfoLine, FirstVersion
<1>2. CASE BuildFileEnds
  <2>1. clients' = [k \in 1..Len(Found) |-> RowClient(Found[k])]
    BY <1>2 DEF BuildFileEnds, Found
  <2>2. Len(Found) \in Nat
    <3>1. Found \in Seq(Seq(Cells))
      BY FoundTypes DEF DetectInv
    <3> HIDE DEF Found
    <3> QED
      BY <3>1
  <2>3. CASE Len(Found) = 0
    BY <2>1, <2>3 DEF FirstVersion
  <2>4. CASE Len(Found) > 0
    <3>1. 1 \in 1..Len(Found)
      BY <2>2, <2>4
    <3>2. clients'[1] = RowClient(Found[1])
      BY <2>1, <3>1
    <3> QED
      BY <3>2, VersionTypes DEF FirstVersion, RowClient, Client
  <2> QED
    BY <2>2, <2>3, <2>4
<1>3. CASE FilesystemHints
  <2>1. CASE UNCHANGED clients
    BY <2>1 DEF FirstVersion
  <2>2. ASSUME NEW parts, NEW locales, clients' = <<Client("", parts, locales)>>
        PROVE  FirstVersion'
    <3>1. clients'[1] = Client("", parts, locales)
      BY <2>2
    <3>2. clients'[1].version = Version(parts)
      <4>1. Client("", parts, locales).version = Version(parts)
        BY DEF Client
      <4> HIDE DEF Client
      <4> QED
        BY <3>1, <4>1
    <3>3. Version(parts) \in Versions
      BY VersionTypes
    <3> QED
      BY <3>2, <3>3 DEF FirstVersion
  <2> QED
    BY <1>3, <2>1, <2>2 DEF FilesystemHints
<1> QED
  BY <1>1, <1>2, <1>3 DEF DetectStep

LEMMA VersionStep == VersionInv /\ DetectInv /\ [Next]_vars => VersionInv'
<1> SUFFICES ASSUME VersionInv, DetectInv, [Next]_vars PROVE VersionInv'
  OBVIOUS
<1>1. CASE Detect
  <2>1. stage = "detect" /\ UNCHANGED <<world, stage, version>> /\ DetectStep
    BY <1>1 DEF Detect, clientVars
  <2>2. FirstVersion'
    BY <2>1, DetectKeepsVersion DEF VersionInv
  <2> QED
    BY <2>1, <2>2 DEF VersionInv
<1>2. CASE ChooseClient \/ DiscoverArchives
  <2>1. /\ UNCHANGED <<world, version, clients>> /\ stage' # "detect" /\ stage' # "source"
        /\ stage' \in {"archives", "mpq"} => clients # << >>
    BY <1>2 DEF ChooseClient, DiscoverArchives, Go, infoVars, VersionInv
  <2> QED
    BY <2>1 DEF VersionInv, FirstVersion
<1>3. CASE Chosen
  <2>1. UNCHANGED <<world, clients>> /\ stage' \in Later
    BY <1>3, LaterStages DEF infoVars
  <2>2. stage' \notin {"detect", "archives", "mpq", "source"}
    BY <2>1 DEF Later
  <2>3. FirstVersion'
    BY <2>1 DEF VersionInv, FirstVersion
  <2>4. CASE OpenMPQ
    <3>1. version' = DemoVersion(clients[1].version) /\ clients # << >>
      BY <2>4 DEF OpenMPQ, VersionInv
    <3> QED
      BY <2>1, <2>2, <2>3, <3>1 DEF VersionInv
  <2>5. CASE OpenFile
    <3>1. world.start # "detect"
      BY <2>5 DEF OpenFile, VersionInv
    <3> QED
      BY <2>1, <2>2, <2>3, <3>1 DEF VersionInv
  <2>6. CASE Chosen /\ ~OpenMPQ /\ ~OpenFile
    <3>1. UNCHANGED version
      BY <2>6 DEF Chosen, OpenCASC, ReadSignature, Rewind, Dispatch, ReadHeader, CallSource,
                  FirstRow, DecodeField, RecordRead, Ask, Access, AccessEnds, clientVars
    <3> QED
      BY <2>1, <2>2, <2>3, <3>1 DEF VersionInv
  <2> QED
    BY <1>3, <2>4, <2>5, <2>6
<1>4. CASE UNCHANGED vars
  BY <1>4 DEF vars, clientVars, infoVars, VersionInv, FirstVersion
<1> QED
  BY <1>1, <1>2, <1>3, <1>4, NextChosen

(* The demo reads a client's tables in another format than getDBCVersion   *)
(* has for it if, and only if, the version is before 1.0 or from 2.0 up to *)
(* 2.1.0.6692.                                                             *)
THEOREM FormatTaken ==
    Spec => [](version # "none" /\ world.start = "detect" =>
                  (version # GetDBCVersion(clients[1].version) <=> OtherFormat(clients[1].version)))
<1>1. VersionInv =>
        (version # "none" /\ world.start = "detect" =>
            (version # GetDBCVersion(clients[1].version) <=> OtherFormat(clients[1].version)))
  BY FormatsDiffer DEF VersionInv, FirstVersion
<1> QED
  BY <1>1, VersionInit, VersionStep, DetectInvInit, DetectInvStep, PTL DEF Spec
-----------------------------------------------------------------------------
(* The record.  Its data has the values of its fields one behind another,  *)
(* of those that were decoded or that a record made by hand has.           *)

\* Fields have naturals of elements.
Sized == Len(schema) \in Nat /\ \A k \in 1..Len(schema) : schema[k].size \in Nat

(* The offsets are the sums of the sizes in front.                         *)
LEMMA OffsetsAreSums ==
    ASSUME Sized
    PROVE  \E g : /\ Sums(g, Len(schema), [k \in 1..Len(schema) |-> schema[k].size])
                  /\ Offsets = [k \in 1..Len(schema) |-> g[k - 1]]
<1> DEFINE n == Len(schema)
           e == [k \in 1..n |-> schema[k].size]
           F(g) == g = [k \in 0..n |-> IF k = 0 THEN 0 ELSE g[k - 1] + schema[k].size]
           c == CHOOSE g : F(g)
<1>1. \A g : Sums(g, n, e) <=> F(g)
  <2>1. ASSUME NEW g PROVE [k \in 0..n |-> IF k = 0 THEN 0 ELSE g[k - 1] + e[k]]
                         = [k \in 0..n |-> IF k = 0 THEN 0 ELSE g[k - 1] + schema[k].size]
    BY DEF Sized
  <2> HIDE DEF e
  <2> QED
    BY <2>1 DEF Sums
<1>2. \E g : F(g)
  <2>1. n \in Nat
    BY DEF Sized
  <2>2. \E g : Sums(g, n, e)
    BY <2>1, SumsExist
  <2> HIDE DEF e, F, n
  <2> QED
    BY <1>1, <2>2
<1>3. F(c)
  <2> HIDE DEF F
  <2> QED
    BY <1>2
<1>4. Offsets = [k \in 1..n |-> c[k - 1]]
  BY DEF Offsets
<1>5. Sums(c, n, e)
  <2> HIDE DEF F, c, e, n
  <2> QED
    BY <1>1, <1>3
<1> HIDE DEF F, c, e
<1> QED
  BY <1>4, <1>5 DEF e

(* Each field begins where the one before it ends.                         *)
LEMMA OffsetsGrow ==
    ASSUME Sized
    PROVE  /\ \A k \in 1..Len(schema) : Offsets[k] \in Nat
           /\ Len(schema) # 0 => Offsets[1] = 0
           /\ \A k \in 1..Len(schema) : k # 1 =>
                 Offsets[k] = Offsets[k - 1] + schema[k - 1].size
           /\ \A j, k \in 1..Len(schema) : j < k => Offsets[j] + schema[j].size <= Offsets[k]
<1> DEFINE n == Len(schema)
           e == [k \in 1..n |-> schema[k].size]
<1>1. n \in Nat /\ \A k \in 1..n : e[k] = schema[k].size /\ e[k] \in Nat
  BY DEF Sized
<1>2. PICK g : Sums(g, n, e) /\ Offsets = [k \in 1..n |-> g[k - 1]]
  BY OffsetsAreSums
<1> HIDE DEF e, n
<1>3. /\ g[0] = 0 /\ \A k \in 1..n : g[k] = g[k - 1] + e[k]
      /\ \A k \in 0..n : g[k] \in Nat
  BY <1>1, <1>2, SumsGrow
<1>4. \A k \in 1..n : Offsets[k] = g[k - 1] /\ k - 1 \in 0..n
  BY <1>1, <1>2
<1>5. \A k \in 1..n : Offsets[k] \in Nat
  BY <1>3, <1>4
<1>6. n # 0 => Offsets[1] = 0
  BY <1>1, <1>3, <1>4
<1>7. \A k \in 1..n : k # 1 => Offsets[k] = Offsets[k - 1] + schema[k - 1].size
  <2>1. ASSUME NEW k \in 1..n, k # 1 PROVE Offsets[k] = Offsets[k - 1] + schema[k - 1].size
    <3>1. k - 1 \in 1..n
      BY <1>1, <2>1
    <3>2. Offsets[k] = g[k - 1] /\ Offsets[k - 1] = g[k - 1 - 1]
      BY <1>4, <3>1
    <3>3. g[k - 1] = g[k - 1 - 1] + e[k - 1]
      BY <1>3, <3>1
    <3> QED
      BY <1>1, <3>1, <3>2, <3>3
  <2> QED
    BY <2>1
<1>8. \A j, k \in 1..n : j < k => Offsets[j] + schema[j].size <= Offsets[k]
  <2>1. ASSUME NEW j \in 1..n
        PROVE  \A k \in 1..n : j < k => Offsets[j] + schema[j].size <= Offsets[k]
    <3> DEFINE B == {k \in 0..n : k # 0 /\ j < k => Offsets[j] + schema[j].size <= Offsets[k]}
    <3>1. 0 \in B
      BY <1>1
    <3>2. ASSUME NEW k \in 1..n, k - 1 \in B PROVE k \in B
      <4>1. CASE ~(j < k)
        BY <4>1
      <4>2. CASE j = k - 1
        <5>1. Offsets[k] = Offsets[k - 1] + schema[k - 1].size
          BY <1>7, <4>2
        <5>2. Offsets[j] + schema[j].size <= Offsets[k]
          BY <1>1, <1>5, <4>2, <5>1
        <5> QED
          BY <5>2
      <4>3. CASE j < k - 1
        <5>1. k - 1 \in 1..n /\ k # 1
          BY <1>1, <4>3
        <5>2. Offsets[j] + schema[j].size <= Offsets[k - 1]
          BY <3>2, <4>3, <5>1
        <5>3. Offsets[k] = Offsets[k - 1] + schema[k - 1].size /\ schema[k - 1].size \in Nat
          BY <1>1, <1>7, <5>1
        <5>4. Offsets[j] + schema[j].size <= Offsets[k]
          BY <1>1, <1>5, <5>1, <5>2, <5>3
        <5> QED
          BY <5>4
      <4> QED
        BY <1>1, <4>1, <4>2, <4>3
    <3> HIDE DEF B
    <3>3. \A k \in 0..n : k \in B
      BY <1>1, <3>1, <3>2, Reached
    <3> QED
      BY <3>3 DEF B
  <2> QED
    BY <2>1
<1> QED
  BY <1>5, <1>6, <1>7, <1>8 DEF n

LEMMA ListIsSeq ==
    ASSUME NEW s, IsList(s)
    PROVE  s \in Seq({s[i] : i \in 1..Len(s)})
<1> DEFINE n == Len(s)
           F(i) == s[i]
<1>1. n \in Nat /\ s = [i \in 1..n |-> F(i)]
  BY DEF IsList
<1> HIDE DEF n, F
<1>2. [i \in 1..n |-> F(i)] \in Seq({F(i) : i \in 1..n})
  BY <1>1
<1>3. s \in Seq({F(i) : i \in 1..n})
  BY <1>1, <1>2
<1> QED
  BY <1>3 DEF n, F

LEMMA Joined ==
    ASSUME NEW s, IsList(s), NEW t, IsList(t)
    PROVE  /\ IsList(s \o t) /\ Len(s \o t) = Len(s) + Len(t)
           /\ \A i \in 1..Len(s) : (s \o t)[i] = s[i]
           /\ \A i \in 1..Len(t) : (s \o t)[Len(s) + i] = t[i]
<1> DEFINE A == {s[i] : i \in 1..Len(s)} \union {t[i] : i \in 1..Len(t)}
<1>1. s \in Seq(A) /\ t \in Seq(A)
  <2>1. s \in Seq({s[i] : i \in 1..Len(s)}) /\ t \in Seq({t[i] : i \in 1..Len(t)})
    BY ListIsSeq
  <2> QED
    BY <2>1
<1> HIDE DEF A
<1>2. s \o t \in Seq(A)
  BY <1>1
<1>3. /\ Len(s \o t) = Len(s) + Len(t)
      /\ \A i \in 1..Len(s) : (s \o t)[i] = s[i]
      /\ \A i \in 1..Len(t) : (s \o t)[Len(s) + i] = t[i]
  BY <1>1
<1>4. \A r \in Seq(A) : IsList(r)
  BY DEF IsList
<1> QED
  BY <1>2, <1>3, <1>4

\* What the data has of a field is what the field holds.
DataRight ==
    \A k \in 1..Len(schema) : \A z \in 1..schema[k].size :
        Offsets[k] + z <= Len(data) => data[Offsets[k] + z] = Content(k)[z]

DataInv ==
    /\ \E worlds \in Families : world \in worlds
    /\ schema = [k \in 1..Len(world.fields) |-> world.fields[k].field]
    /\ IsList(data) /\ decoded \in 0..Len(schema)
    /\ world.start # "access" => Len(data) = Elements(decoded)
    /\ world.start = "access" => stage \in {"access", "exit0", "exit1", "undefined"}
    /\ \A k \in 1..decoded : Handled(schema[k])
    /\ DataRight

\* The fields of a world's schema.
LEMMA SchemaOfWorld ==
    ASSUME NEW worlds \in Families, world \in worlds,
           schema = [k \in 1..Len(world.fields) |-> world.fields[k].field]
    PROVE  /\ Sized /\ Len(schema) = Len(world.fields)
           /\ \A k \in 1..Len(schema) : schema[k] = world.fields[k].field
<1> DEFINE n == Len(world.fields)
           F(k) == world.fields[k].field
<1>1. n \in Nat /\ \A k \in 1..n : F(k).size \in Nat
  BY WorldsAssumption
<1>2. schema = [k \in 1..n |-> F(k)]
  OBVIOUS
<1> HIDE DEF n, F
<1>3. [k \in 1..n |-> F(k)] \in Seq({F(k) : k \in 1..n})
  BY <1>1
<1>4. Len(schema) = n /\ \A k \in 1..n : schema[k] = F(k)
  BY <1>1, <1>2, <1>3
<1>5. Sized
  BY <1>1, <1>4 DEF Sized
<1> QED
  BY <1>4, <1>5 DEF n, F

(* A field holds its elements.                                             *)
LEMMA ContentFacts ==
    ASSUME DataInv, NEW k \in 1..Len(schema)
    PROVE  /\ Content(k) = [z \in 1..schema[k].size |-> Content(k)[z]]
           /\ DecodedField(k) = [z \in 1..schema[k].size |-> DecodedField(k)[z]]
<1>1. PICK worlds \in Families : world \in worlds
  BY DEF DataInv
<1>2. Len(schema) = Len(world.fields) /\ schema[k] = world.fields[k].field
  BY <1>1, SchemaOfWorld DEF DataInv
<1>3. DecodedField(k) = [z \in 1..schema[k].size |-> DecodedField(k)[z]]
  BY <1>2 DEF DecodedField
<1>4. CASE world.start = "access"
  <2>1. AsMade(world)
    BY <1>1, <1>4, WorldsAssumption
  <2>2. world.content[k] = [z \in 1..schema[k].size |-> world.content[k][z]]
    BY <1>2, <2>1 DEF AsMade
  <2> QED
    BY <1>3, <1>4, <2>2 DEF Content
<1>5. CASE world.start # "access"
  BY <1>3, <1>5 DEF Content
<1> QED
  BY <1>4, <1>5

LEMMA DataInit == Init => DataInv
<1> SUFFICES ASSUME Init PROVE DataInv
  OBVIOUS
<1>1. PICK worlds \in Families : world \in worlds
  BY DEF Init
<1>2. /\ schema = [k \in 1..Len(world.fields) |-> world.fields[k].field]
      /\ data = world.data /\ decoded = 0 /\ stage = world.start
  BY DEF Init
<1>3. /\ Sized /\ Len(schema) = Len(world.fields)
      /\ \A k \in 1..Len(schema) : schema[k] = world.fields[k].field
  BY <1>1, <1>2, SchemaOfWorld
<1>4. CASE world.start = "access"
  <2> DEFINE n == Len(schema)
             e == [k \in 1..n |-> schema[k].size]
             G(g) == g = [k \in 0..Len(world.fields) |->
                            IF k = 0 THEN 0 ELSE g[k - 1] + world.fields[k].field.size]
             first == CHOOSE g : G(g)
  <2>1. /\ IsList(world.data)
        /\ \A k \in 1..n : \A z \in 1..schema[k].size :
              first[k - 1] + z <= Len(world.data) =>
                  world.data[first[k - 1] + z] = world.content[k][z]
    <3>1. AsMade(world)
      BY <1>1, <1>4, WorldsAssumption
    <3> QED
      BY <1>3, <3>1 DEF AsMade
  <2>2. PICK g : Sums(g, n, e) /\ Offsets = [k \in 1..n |-> g[k - 1]]
    BY <1>3, OffsetsAreSums
  <2>3. G(g)
    <3>1. [k \in 0..n |-> IF k = 0 THEN 0 ELSE g[k - 1] + e[k]]
            = [k \in 0..n |-> IF k = 0 THEN 0 ELSE g[k - 1] + world.fields[k].field.size]
      BY <1>3 DEF Sized
    <3> HIDE DEF e
    <3> QED
      BY <1>3, <2>2, <3>1 DEF Sums
  <2>4. G(first)
    <3> HIDE DEF G
    <3> QED
      BY <2>3
  <2>5. \A k \in 0..n : first[k] = g[k]
    <3> DEFINE d == [k \in 1..n |-> world.fields[k].field.size]
    <3>1. n \in Nat /\ \A k \in 1..n : e[k] = d[k]
      BY <1>3 DEF Sized
    <3>2. Sums(first, n, d)
      <4>1. [k \in 0..n |-> IF k = 0 THEN 0 ELSE first[k - 1] + d[k]]
              = [k \in 0..n |-> IF k = 0 THEN 0 ELSE first[k - 1] + world.fields[k].field.size]
        <5> HIDE DEF first
        <5> QED
          BY <1>3 DEF Sized
      <4> HIDE DEF first, d
      <4> QED
        BY <1>3, <2>4, <4>1 DEF Sums
    <3>3. Sums(g, n, e)
      BY <2>2
    <3> HIDE DEF first, d, e, n
    <3> QED
      BY <3>1, <3>2, <3>3, SumsSame
  <2> HIDE DEF first, G, e
  <2>6. \A k \in 1..n : Offsets[k] = first[k - 1]
    BY <1>3, <2>2, <2>5 DEF Sized
  <2>7. DataRight
    <3>1. ASSUME NEW k \in 1..n, NEW z \in 1..schema[k].size, Offsets[k] + z <= Len(data)
          PROVE  data[Offsets[k] + z] = Content(k)[z]
      <4>1. Offsets[k] = first[k - 1]
        BY <2>6
      <4>2. data[Offsets[k] + z] = world.content[k][z]
        BY <1>2, <2>1, <3>1, <4>1
      <4> QED
        BY <1>4, <4>2 DEF Content
    <3> QED
      BY <3>1 DEF DataRight
  <2> QED
    BY <1>1, <1>2, <1>3, <1>4, <2>1, <2>7 DEF DataInv, Sized
<1>5. CASE world.start # "access"
  <2>1. data = << >> /\ Len(data) = 0
    <3>1. world.data = << >>
      BY <1>1, <1>5, WorldsAssumption
    <3> QED
      BY <1>2, <3>1
  <2>2. DataRight
    BY <1>3, <2>1, OffsetsGrow DEF DataRight, Sized
  <2>3. IsList(data)
    BY <2>1 DEF IsList
  <2> QED
    BY <1>1, <1>2, <1>3, <1>5, <2>1, <2>2, <2>3 DEF DataInv, Sized, Elements
<1> QED
  BY <1>4, <1>5

\* What the record holds is as the record and its world are.
LEMMA RecordKept ==
    ASSUME UNCHANGED <<schema, world>>
    PROVE  /\ UNCHANGED <<Offsets, Sized>>
           /\ \A k : Content(k)' = Content(k) /\ Elements(k)' = Elements(k)
<1>1. UNCHANGED Offsets
  BY DEF Offsets
<1>2. \A k : DecodedField(k)' = DecodedField(k)
  BY DEF DecodedField
<1>3. \A k : Content(k)' = Content(k)
  BY <1>2 DEF Content
<1> QED
  BY <1>1, <1>3 DEF Elements, Sized

LEMMA DataUntouched ==
    ASSUME DataInv, UNCHANGED <<schema, world, data, decoded>>,
           world.start = "access" => stage' \in {"access", "exit0", "exit1", "undefined"}
    PROVE  DataInv'
<1>1. UNCHANGED Offsets /\ \A k : Content(k)' = Content(k) /\ Elements(k)' = Elements(k)
  BY RecordKept
<1>2. DataRight'
  BY <1>1 DEF DataInv, DataRight
<1>3. IsList(data)'
  BY DEF DataInv, IsList
<1> QED
  BY <1>1, <1>2, <1>3 DEF DataInv

LEMMA DecodeFieldStep ==
    ASSUME DataInv, DecodeField
    PROVE  DataInv'
<1> DEFINE k0 == decoded + 1
           more == DecodedField(k0)
           size == schema[k0].size
<1>1. PICK worlds \in Families : world \in worlds
  BY DEF DataInv
<1>2. Sized
  BY <1>1, SchemaOfWorld DEF DataInv
<1>3. /\ stage = "decode" /\ world.start # "access" /\ UNCHANGED <<schema, world>>
      /\ decoded \in 0..Len(schema) /\ decoded < Len(schema) /\ Len(schema) \in Nat
      /\ IsList(data) /\ Len(data) = Elements(decoded) /\ DataRight
  BY <1>2 DEF DataInv, DecodeField, Sized
<1>4. CASE UNCHANGED <<data, decoded>>
  BY <1>3, <1>4, DataUntouched
<1>5. CASE data' = data \o more /\ decoded' = k0
  <2>1. k0 \in 1..Len(schema) /\ k0 \in Nat /\ k0 # 0 /\ k0 - 1 = decoded
    BY <1>3
  <2> HIDE DEF k0
  <2>2. size \in Nat /\ more = [z \in 1..size |-> more[z]]
    BY <1>2, <2>1, ContentFacts DEF Sized
  <2> HIDE DEF more, size
  <2>3. IsList(more) /\ Len(more) = size
    BY <2>2 DEF IsList
  <2>4. \A k \in 1..Len(schema) : Offsets[k] \in Nat
    BY <1>2, OffsetsGrow
  <2>5. Len(data) = Offsets[k0] /\ Len(data) \in Nat
    <3>1. CASE decoded = 0
      BY <1>2, <1>3, <2>1, <3>1, OffsetsGrow DEF Elements
    <3>2. CASE decoded # 0
      <4>1. k0 # 1
        BY <2>1, <3>2
      <4>2. Offsets[k0] = Offsets[decoded] + schema[decoded].size
        BY <1>2, <2>1, <4>1, OffsetsGrow
      <4> QED
        BY <1>3, <2>1, <2>4, <3>2, <4>2 DEF Elements
    <3> QED
      BY <3>1, <3>2
  <2>6. /\ IsList(data') /\ Len(data') = Offsets[k0] + size
        /\ \A i \in 1..Len(data) : data'[i] = data[i]
        /\ \A i \in 1..size : data'[Offsets[k0] + i] = more[i]
    <3>1. IsList(data)
      BY <1>3
    <3>2. /\ IsList(data \o more) /\ Len(data \o more) = Len(data) + Len(more)
          /\ \A i \in 1..Len(data) : (data \o more)[i] = data[i]
          /\ \A i \in 1..Len(more) : (data \o more)[Len(data) + i] = more[i]
      <4> DEFINE s == data
                 t == more
      <4>1. IsList(s) /\ IsList(t)
        BY <2>3, <3>1
      <4> HIDE DEF s, t
      <4>2. /\ IsList(s \o t) /\ Len(s \o t) = Len(s) + Len(t)
            /\ \A i \in 1..Len(s) : (s \o t)[i] = s[i]
            /\ \A i \in 1..Len(t) : (s \o t)[Len(s) + i] = t[i]
        BY <4>1, Joined
      <4> QED
        BY <4>2 DEF s, t
    <3> DEFINE joined == data \o more
    <3>3. data' = joined
      BY <1>5
    <3> HIDE DEF joined
    <3> QED
      BY <2>3, <2>5, <3>2, <3>3 DEF joined
  <2>7. Len(data') = Elements(k0)
    BY <2>1, <2>6 DEF Elements, size
  <2>8. ASSUME NEW k \in 1..Len(schema), NEW z \in 1..schema[k].size,
               Offsets[k] + z <= Len(data')
        PROVE  data'[Offsets[k] + z] = Content(k)[z]
    <3>1. Offsets[k] \in Nat /\ schema[k].size \in Nat /\ Offsets[k0] \in Nat
      BY <1>2, <2>1, <2>4 DEF Sized
    <3>2. CASE k = k0
      <4>1. data'[Offsets[k] + z] = more[z]
        BY <2>6, <3>2 DEF size
      <4> QED
        BY <1>3, <3>2, <4>1 DEF Content, more
    <3>3. CASE k < k0
      <4>1. Offsets[k] + schema[k].size <= Offsets[k0]
        BY <1>2, <2>1, <3>3, OffsetsGrow
      <4>2. Offsets[k] + z \in 1..Len(data)
        BY <2>5, <3>1, <4>1
      <4> QED
        BY <1>3, <2>6, <4>2 DEF DataRight
    <3>4. CASE k0 < k
      <4>1. Offsets[k0] + size <= Offsets[k]
        BY <1>2, <2>1, <3>4, OffsetsGrow DEF size
      <4> QED
        BY <2>2, <2>6, <2>8, <3>1, <4>1
    <3> QED
      BY <2>1, <3>2, <3>3, <3>4
  <2>9. /\ UNCHANGED Offsets
        /\ \A k : Content(k)' = Content(k) /\ Elements(k)' = Elements(k)
    BY <1>3, RecordKept
  <2>10. DataRight'
    BY <1>3, <2>8, <2>9 DEF DataRight
  <2>11. decoded' \in 0..Len(schema)
    BY <1>3, <1>5, <2>1
  <2>12. Len(data') = Elements(decoded)'
    BY <1>5, <2>7, <2>9 DEF Elements
  <2>13. IsList(data)' /\ UNCHANGED <<schema, world>>
    BY <1>3, <2>6 DEF IsList
  <2>14. \A k \in 1..decoded' : Handled(schema'[k])
    <3>1. \A k \in 1..decoded' : k \in 1..decoded \/ k = k0
      BY <1>3, <1>5, <2>1
    <3>2. Handled(schema[k0])
      BY <1>5, <2>1 DEF DecodeField, k0
    <3> QED
      BY <1>3, <3>1, <3>2 DEF DataInv
  <2> QED
    BY <1>3, <2>10, <2>11, <2>12, <2>13, <2>14 DEF DataInv
<1> QED
  BY <1>4, <1>5 DEF DecodeField

\* A record that is asked for stays.
LEMMA RecordStays ==
    ASSUME Ask \/ Access
    PROVE  UNCHANGED <<schema, world, data, decoded>> /\ stage = "access" /\ stage' = "access"
<1>1. CASE Ask
  BY <1>1 DEF Ask, clientVars, GetStart, ByName, Begin
<1>2. CASE Access
  BY <1>2 DEF Access, AccessStep, clientVars, GetField, GetEnd, Iterate, Dereference, Advance
<1> QED
  BY <1>1, <1>2

LEMMA DataStep == DataInv /\ [Next]_vars => DataInv'
<1> SUFFICES ASSUME DataInv, [Next]_vars PROVE DataInv'
  OBVIOUS
<1>1. CASE Detect
  BY <1>1, DataUntouched DEF Detect, accessVars, clientVars, DataInv
<1>2. CASE ChooseClient \/ DiscoverArchives
  <2>1. UNCHANGED <<schema, world, data, decoded>> /\ world.start # "access"
    BY <1>2 DEF ChooseClient, DiscoverArchives, accessVars, DataInv
  <2> QED
    BY <2>1, DataUntouched
<1>3. CASE OpenMPQ \/ OpenCASC \/ OpenFile
  <2>1. UNCHANGED <<schema, world, data, decoded>> /\ world.start # "access"
    BY <1>3 DEF OpenMPQ, OpenCASC, OpenFile, accessVars, DataInv
  <2> QED
    BY <2>1, DataUntouched
<1>4. CASE ReadSignature \/ Rewind \/ Dispatch \/ ReadHeader \/ CallSource
  <2>1. UNCHANGED <<schema, world, data, decoded>> /\ world.start # "access"
    BY <1>4 DEF ReadSignature, Rewind, Dispatch, ReadHeader, CallSource, accessVars, DataInv
  <2> QED
    BY <2>1, DataUntouched
<1>5. CASE FirstRow \/ RecordRead
  <2>1. UNCHANGED <<schema, world, data, decoded>> /\ world.start # "access"
    BY <1>5 DEF FirstRow, RecordRead, accessVars, DataInv
  <2> QED
    BY <2>1, DataUntouched
<1>6. CASE DecodeField
  BY <1>6, DecodeFieldStep
<1>7. CASE Ask \/ Access
  <2>1. UNCHANGED <<schema, world, data, decoded>> /\ stage' = "access"
    BY <1>7, RecordStays
  <2> QED
    BY <2>1, DataUntouched
<1>8. CASE AccessEnds
  <2>1. UNCHANGED <<schema, world, data, decoded>> /\ stage' \in {"exit0", "exit1", "undefined"}
    BY <1>8 DEF AccessEnds, Go, accessVars
  <2> QED
    BY <2>1, DataUntouched
<1>9. CASE UNCHANGED vars
  <2>1. UNCHANGED <<schema, world, data, decoded, stage>>
    BY <1>9 DEF vars, accessVars, clientVars
  <2> QED
    BY <2>1, DataUntouched DEF DataInv
<1> QED
  BY <1>1, <1>2, <1>3, <1>4, <1>5, <1>6, <1>7, <1>8, <1>9 DEF Next

LEMMA DataSized == DataInv => Sized /\ Len(schema) \in Nat
<1> SUFFICES ASSUME DataInv PROVE Sized /\ Len(schema) \in Nat
  OBVIOUS
<1>1. PICK worlds \in Families : world \in worlds
  BY DEF DataInv
<1> QED
  BY <1>1, SchemaOfWorld DEF DataInv, Sized

\* The data has all of a field.
HasField(k) == k \in 1..Len(schema) /\ Inside(k, schema[k].size)

(* What has all of a field has what it holds.                              *)
LEMMA ValueIsContent ==
    ASSUME DataInv, NEW k, HasField(k)
    PROVE  ValueOf(k) = Content(k)
<1> DEFINE first == Offsets[k]
           size  == schema[k].size
<1>1. /\ k \in 1..Len(schema) /\ first \in Nat /\ size \in Nat /\ first + size <= Len(data)
      /\ IsList(data)
  BY DataSized, OffsetsGrow DEF HasField, Inside, Sized, DataInv
<1>2. \A z \in 1..size : data[first + z] = Content(k)[z]
  <2>1. ASSUME NEW z \in 1..size PROVE first + z <= Len(data)
    <3>1. Len(data) \in Nat
      BY <1>1 DEF IsList
    <3> HIDE DEF first, size
    <3> QED
      BY <1>1, <3>1
  <2> QED
    BY <1>1, <2>1 DEF DataInv, DataRight
<1>3. Content(k) = [z \in 1..size |-> Content(k)[z]]
  BY <1>1, ContentFacts
<1>4. ValueOf(k) = SubSeq(data, first + 1, first + size)
  BY DEF ValueOf
<1> HIDE DEF first, size
<1>5. SubSeq(data, first + 1, first + size) = [z \in 1..size |-> data[first + z]]
  <2>1. data \in Seq({data[i] : i \in 1..Len(data)}) /\ Len(data) \in Nat
    BY <1>1, ListIsSeq DEF IsList
  <2>2. first + size - (first + 1) + 1 = size /\ \A z \in Int : first + 1 + z - 1 = first + z
    BY <1>1
  <2> DEFINE d == data
  <2>3. d \in Seq({d[i] : i \in 1..Len(d)}) /\ Len(d) \in Nat /\ first + size <= Len(d)
    BY <1>1, <2>1
  <2> HIDE DEF d
  <2>4. SubSeq(d, first + 1, first + size) = [z \in 1..size |-> d[first + z]]
    BY <1>1, <2>2, <2>3
  <2> QED
    BY <2>4 DEF d
<1>6. [z \in 1..size |-> data[first + z]] = [z \in 1..size |-> Content(k)[z]]
  BY <1>2
<1> QED
  BY <1>3, <1>4, <1>5, <1>6

GivesInv ==
    /\ \A name \in {"it", "old"} :
          /\ iterators[name].index \in 0..Len(schema) + 1
          /\ iterators[name].loaded # 0 => HasField(iterators[name].loaded)
          /\ access = "iterating" => iterators[name].index # 0
    /\ given.index # 0 => HasField(given.index)

LEMMA GivesInit == Init => GivesInv
<1> SUFFICES ASSUME Init PROVE GivesInv
  OBVIOUS
<1>1. /\ access = "idle" /\ given.index = 0
      /\ iterators = [name \in {"it", "old"} |-> [index |-> 0, loaded |-> 0, val |-> << >>]]
  BY DEF Init, AccessInit, NoIterator, NothingGiven
<1>2. Len(schema) \in Nat
  BY DataInit, DataSized
<1> QED
  BY <1>1, <1>2 DEF GivesInv

LEMMA GivesKept ==
    ASSUME GivesInv, UNCHANGED <<schema, data, iterators, given>>,
           access' = "iterating" => access = "iterating"
    PROVE  GivesInv'
<1>1. \A k : HasField(k)' = HasField(k)
  BY DEF HasField, Inside, Offsets
<1> QED
  BY <1>1 DEF GivesInv

LEMMA GivesAsk ==
    ASSUME GivesInv, IteratorInv, DataInv, Ask
    PROVE  GivesInv'
<1>1. UNCHANGED <<schema, data>> /\ Len(schema) \in Nat
  BY RecordStays, DataSized
<1>2. \A k : HasField(k)' = HasField(k)
  BY <1>1 DEF HasField, Inside, Offsets
<1>3. PICK ask \in world.asks :
        \/ ask.call = "get" /\ GetStart(ask.requests)
        \/ ask.call = "name" /\ ByName(ask.name)
        \/ ask.call = "iterate" /\ Begin
  BY DEF Ask
<1>4. CASE GetStart(ask.requests)
  BY <1>4, GivesKept DEF GetStart, iterVars
<1>5. CASE Begin
  <2>1. /\ iterators' = [name \in {"it", "old"} |-> [index |-> 1, loaded |-> 0, val |-> << >>]]
        /\ UNCHANGED given
    BY <1>5 DEF Begin, NoIterator
  <2> QED
    BY <1>1, <1>2, <2>1 DEF GivesInv
<1>6. CASE ByName(ask.name)
  <2> DEFINE name == ask.name
  <2>1. CASE access' # "iterating" /\ UNCHANGED <<iterators, given>>
    BY <1>1, <2>1, GivesKept
  <2>2. CASE /\ Fields(name) # {} /\ Inside(NameIndex(name), schema[NameIndex(name)].size)
             /\ access' = "named" /\ given'.index = NameIndex(name) /\ UNCHANGED iterators
    <3>1. Fields(name) \subseteq 1..Len(schema)
      BY DEF Fields
    <3>2. NameIndex(name) \in Fields(name)
      BY <1>1, <2>2, <3>1, MinFacts DEF NameIndex
    <3>3. HasField(NameIndex(name))
      BY <2>2, <3>1, <3>2 DEF HasField
    <3> QED
      BY <1>1, <1>2, <2>2, <3>3 DEF GivesInv
  <2> QED
    BY <1>6, <2>1, <2>2 DEF ByName, AccessThrows
<1> QED
  BY <1>3, <1>4, <1>5, <1>6

LEMMA GivesIterate ==
    ASSUME GivesInv, IteratorInv, DataInv, Iterate
    PROVE  GivesInv'
<1>1. UNCHANGED <<schema, data>> /\ Len(schema) \in Nat /\ access = "iterating"
  BY DataSized DEF Iterate, Dereference, Advance
<1>2. \A k : HasField(k)' = HasField(k)
  BY <1>1 DEF HasField, Inside, Offsets
<1>3. ASSUME NEW name \in {"it", "old"}, Dereference(name) PROVE GivesInv'
  <2> DEFINE i == iterators[name]
  <2>1. CASE access' = "undefined" /\ UNCHANGED iterVars
    BY <1>1, <2>1, GivesKept DEF iterVars
  <2>2. ASSUME NEW val,
               iterators' = [iterators EXCEPT ![name] =
                                [index |-> i.index, loaded |-> i.index, val |-> val]],
               given'.index = i.index, UNCHANGED access,
               IsLoaded(i) \/ Inside(i.index, schema[i.index].size)
        PROVE  GivesInv'
    <3>1. i.index \in 1..Len(schema)
      BY <1>1, <1>3 DEF GivesInv, Dereference
    <3>2. HasField(i.index)
      BY <2>2, <3>1 DEF GivesInv, HasField, IsLoaded
    <3>3. /\ iterators'[name] = [index |-> i.index, loaded |-> i.index, val |-> val]
          /\ \A other \in {"it", "old"} : other # name => iterators'[other] = iterators[other]
      BY <2>2 DEF IteratorInv
    <3> QED
      BY <1>1, <1>2, <2>2, <3>1, <3>2, <3>3 DEF GivesInv
  <2> QED
    BY <1>3, <2>1, <2>2 DEF Dereference
<1>4. ASSUME NEW postfix \in BOOLEAN, Advance(postfix) PROVE GivesInv'
  <2> DEFINE i == iterators["it"]
  <2>1. /\ given'.index = 0 /\ UNCHANGED access /\ i.index <= Len(schema)
        /\ iterators' = [iterators EXCEPT !["it"].index = @ + 1,
                                          !["old"] = IF postfix THEN i ELSE @]
    BY <1>4 DEF Advance, NothingGiven
  <2>2. /\ iterators'["it"] = [i EXCEPT !.index = i.index + 1]
        /\ iterators'["old"] \in {i, iterators["old"]}
    BY <2>1 DEF IteratorInv
  <2>3. i = [index |-> i.index, loaded |-> i.loaded, val |-> i.val]
    BY DEF IteratorInv, IsIterator
  <2>4. iterators'["it"].index = i.index + 1 /\ iterators'["it"].loaded = i.loaded
    <3> HIDE DEF i
    <3> QED
      BY <2>2, <2>3
  <2>5. i.index \in 1..Len(schema)
    BY <1>1, <2>1 DEF GivesInv
  <2> QED
    BY <1>1, <1>2, <2>1, <2>2, <2>4, <2>5 DEF GivesInv
<1> QED
  BY <1>3, <1>4 DEF Iterate

LEMMA GivesStep == GivesInv /\ IteratorInv /\ DataInv /\ [Next]_vars => GivesInv'
<1> SUFFICES ASSUME GivesInv, IteratorInv, DataInv, [Next]_vars PROVE GivesInv'
  OBVIOUS
<1>1. CASE UNCHANGED accessVars
  BY <1>1, GivesKept DEF accessVars, iterVars
<1>2. CASE Detect \/ ChooseClient \/ DiscoverArchives \/ OpenMPQ \/ OpenCASC \/ OpenFile
  BY <1>1, <1>2 DEF Detect, ChooseClient, DiscoverArchives, OpenMPQ, OpenCASC, OpenFile
<1>3. CASE ReadSignature \/ Rewind \/ Dispatch \/ ReadHeader \/ CallSource \/ FirstRow
  BY <1>1, <1>3 DEF ReadSignature, Rewind, Dispatch, ReadHeader, CallSource, FirstRow
<1>4. CASE DecodeField
  <2>1. NotAsked /\ UNCHANGED <<schema, access, iterators, given>>
    BY <1>4 DEF IteratorInv, DecodeField, iterVars
  <2> QED
    BY <2>1 DEF NotAsked, GivesInv
<1>5. CASE RecordRead \/ AccessEnds
  BY <1>1, <1>5 DEF RecordRead, AccessEnds
<1>6. CASE Ask
  BY <1>6, GivesAsk
<1>7. CASE Access
  <2>1. UNCHANGED <<schema, data>>
    BY <1>7, RecordStays
  <2>2. CASE GetField
    <3>1. UNCHANGED iterVars /\ access = "getting"
      BY <2>2 DEF GetField
    <3>2. access' \in {"got", "getting", "undefined", "thrown"}
      BY <2>2, <3>1 DEF GetField, Assign, AccessThrows
    <3> QED
      BY <2>1, <3>1, <3>2, GivesKept DEF iterVars
  <2>3. CASE GetEnd
    BY <2>3, GivesKept DEF GetEnd, AccessThrows, iterVars
  <2>4. CASE Iterate
    BY <2>4, GivesIterate
  <2> QED
    BY <1>7, <2>2, <2>3, <2>4 DEF Access, AccessStep
<1>8. CASE UNCHANGED vars
  BY <1>1, <1>8 DEF vars
<1> QED
  BY <1>2, <1>3, <1>4, <1>5, <1>6, <1>7, <1>8 DEF Next

(* For any record, decoded or made, and any order of reading, what an      *)
(* iterator or a name gives is all that its field holds.                   *)
THEOREM GivesItsFieldAlways == Spec => []GivesItsField
<1>1. DataInv /\ GivesInv /\ IteratorInv => GivesItsField
  BY ValueIsContent DEF GivesInv, IteratorInv, FieldGiven, GivesItsField
<1>2. Init => DataInv /\ GivesInv /\ IteratorInv /\ GetInv
  BY DataInit, GivesInit, IteratorInit, GetInit
<1>3. DataInv /\ GivesInv /\ IteratorInv /\ GetInv /\ [Next]_vars
        => DataInv' /\ GivesInv' /\ IteratorInv' /\ GetInv'
  BY DataStep, GivesStep, IteratorStep, GetStep
<1> QED
  BY <1>1, <1>2, <1>3, PTL DEF Spec
-----------------------------------------------------------------------------
(* Numbers of bits.                                                        *)

Doubles(p, n) == p = [k \in 0..n |-> IF k = 0 THEN 1 ELSE 2 * p[k - 1]]

LEMMA DoublesSteps ==
    ASSUME NEW n \in Nat, NEW p
    PROVE  Doubles(p, n) <=>
             p = [k \in 0..n |-> p[k]] /\ p[0] = 1 /\ \A k \in 1..n : p[k] = 2 * p[k - 1]
<1> DEFINE F(k) == IF k = 0 THEN 1 ELSE 2 * p[k - 1]
<1>1. p = [k \in 0..n |-> F(k)] => p = [k \in 0..n |-> p[k]] /\ \A k \in 0..n : p[k] = F(k)
  <2> HIDE DEF F
  <2> QED
    OBVIOUS
<1>2. p = [k \in 0..n |-> p[k]] /\ (\A k \in 0..n : p[k] = F(k)) => p = [k \in 0..n |-> F(k)]
  <2> HIDE DEF F
  <2> QED
    OBVIOUS
<1>3. (\A k \in 0..n : p[k] = F(k)) <=> p[0] = 1 /\ \A k \in 1..n : p[k] = 2 * p[k - 1]
  <2>1. 0 \in 0..n /\ F(0) = 1 /\ \A k : k \in 0..n <=> k = 0 \/ k \in 1..n
    OBVIOUS
  <2>2. \A k \in 1..n : F(k) = 2 * p[k - 1]
    OBVIOUS
  <2> HIDE DEF F
  <2> QED
    BY <2>1, <2>2
<1> QED
  BY <1>1, <1>2, <1>3 DEF Doubles

LEMMA DoublesExist ==
    ASSUME NEW n \in Nat
    PROVE  \E p : Doubles(p, n)
<1> DEFINE B == {m \in Nat : \E p : Doubles(p, m)}
<1>1. 0 \in B
  <2> DEFINE p == [k \in 0..0 |-> 1]
  <2>1. p = [k \in 0..0 |-> p[k]] /\ p[0] = 1 /\ 1..0 = {}
    OBVIOUS
  <2> HIDE DEF p
  <2>2. Doubles(p, 0)
    BY <2>1, DoublesSteps
  <2> QED
    BY <2>2
<1>2. ASSUME NEW m \in 1..n, m - 1 \in B PROVE m \in B
  <2>1. m \in Nat /\ m - 1 \in Nat /\ m # 0
    OBVIOUS
  <2>2. PICK q : Doubles(q, m - 1)
    BY <1>2
  <2>3. q[0] = 1 /\ \A k \in 1..m - 1 : q[k] = 2 * q[k - 1]
    BY <2>1, <2>2, DoublesSteps
  <2> DEFINE last == 2 * q[m - 1]
             p == [k \in 0..m |-> IF k = m THEN last ELSE q[k]]
  <2>4. p = [k \in 0..m |-> p[k]] /\ p[m] = last /\ \A k \in 0..m - 1 : p[k] = q[k]
    <3> HIDE DEF last
    <3> QED
      BY <2>1
  <2> HIDE DEF p
  <2>5. p[0] = 1
    BY <2>1, <2>3, <2>4
  <2>6. ASSUME NEW k \in 1..m PROVE p[k] = 2 * p[k - 1]
    <3>1. k - 1 \in 0..m - 1 /\ (k # m => k \in 0..m - 1 /\ k \in 1..m - 1)
      BY <2>1
    <3> HIDE DEF last
    <3>2. p[k - 1] = q[k - 1] /\ (k # m => p[k] = q[k])
      BY <2>4, <3>1
    <3>3. k = m => p[k] = 2 * q[m - 1]
      BY <2>4 DEF last
    <3>4. k # m => q[k] = 2 * q[k - 1]
      BY <2>3, <3>1
    <3> QED
      BY <3>2, <3>3, <3>4
  <2>7. Doubles(p, m)
    BY <2>1, <2>4, <2>5, <2>6, DoublesSteps
  <2> QED
    BY <2>1, <2>7
<1> HIDE DEF B
<1>3. n \in B
  BY <1>1, <1>2, Reached
<1> QED
  BY <1>3 DEF B

LEMMA DoublesSame ==
    ASSUME NEW n \in Nat, NEW m \in 0..n, NEW p, Doubles(p, n), NEW q, Doubles(q, m)
    PROVE  \A k \in 0..m : p[k] = q[k]
<1> DEFINE B == {k \in 0..m : p[k] = q[k]}
<1>1. m \in Nat
  OBVIOUS
<1>2. /\ p[0] = 1 /\ \A k \in 1..n : p[k] = 2 * p[k - 1]
      /\ q[0] = 1 /\ \A k \in 1..m : q[k] = 2 * q[k - 1]
  BY <1>1, DoublesSteps
<1>3. \A k \in 1..m : k - 1 \in B => k \in B
  BY <1>1, <1>2
<1>4. 0 \in B
  BY <1>2
<1> HIDE DEF B
<1>5. \A k \in 0..m : k \in B
  BY <1>1, <1>3, <1>4, Reached
<1> QED
  BY <1>5 DEF B

(* TwoTo doubles.                                                          *)
LEMMA TwoToSteps ==
    /\ TwoTo(0) = 1
    /\ \A n \in Nat : TwoTo(n + 1) = 2 * TwoTo(n)
<1>1. ASSUME NEW n \in Nat
      PROVE  \E p : Doubles(p, n) /\ TwoTo(n) = p[n]
  <2> DEFINE p == CHOOSE p : Doubles(p, n)
  <2>1. Doubles(p, n)
    BY DoublesExist
  <2>2. TwoTo(n) = p[n]
    BY DEF TwoTo, Doubles
  <2> HIDE DEF p
  <2> QED
    BY <2>1, <2>2
<1>2. TwoTo(0) = 1
  BY <1>1, DoublesSteps
<1>3. ASSUME NEW n \in Nat PROVE TwoTo(n + 1) = 2 * TwoTo(n)
  <2> DEFINE m == n + 1
  <2>1. m \in Nat /\ n \in 0..m /\ m \in 1..m /\ m - 1 = n /\ n \in 0..n
    OBVIOUS
  <2> HIDE DEF m
  <2>2. PICK p : Doubles(p, m) /\ TwoTo(m) = p[m]
    BY <1>1, <2>1
  <2>3. PICK q : Doubles(q, n) /\ TwoTo(n) = q[n]
    BY <1>1
  <2>4. p[n] = q[n]
    BY <2>1, <2>2, <2>3, DoublesSame
  <2>5. p[m] = 2 * p[n]
    <3>1. \A k \in 1..m : p[k] = 2 * p[k - 1]
      BY <2>1, <2>2, DoublesSteps
    <3> QED
      BY <2>1, <3>1
  <2> QED
    BY <2>2, <2>3, <2>4, <2>5 DEF m
<1> QED
  BY <1>2, <1>3

LEMMA TwoToNat == \A n \in Nat : TwoTo(n) \in Nat \ {0}
<1>1. ASSUME NEW n \in Nat PROVE TwoTo(n) \in Nat \ {0}
  <2> DEFINE B == {k \in 0..n : TwoTo(k) \in Nat \ {0}}
  <2>1. 0 \in B
    BY TwoToSteps
  <2>2. ASSUME NEW k \in 1..n, k - 1 \in B PROVE k \in B
    <3>1. k - 1 \in Nat /\ k - 1 + 1 = k /\ k \in 0..n
      OBVIOUS
    <3> DEFINE j == k - 1
    <3>2. TwoTo(j + 1) = 2 * TwoTo(j) /\ TwoTo(j) \in Nat \ {0}
      BY <2>2, <3>1, TwoToSteps
    <3>3. j + 1 = k
      OBVIOUS
    <3> HIDE DEF j
    <3>4. TwoTo(k) \in Nat \ {0}
      BY <3>2, <3>3
    <3> QED
      BY <3>1, <3>4
  <2> HIDE DEF B
  <2>3. n \in B
    BY <2>1, <2>2, Reached
  <2> QED
    BY <2>3 DEF B
<1> QED
  BY <1>1

(* Bits that are added multiply.                                           *)
LEMMA TwoToSum ==
    ASSUME NEW m \in Nat, NEW n \in Nat
    PROVE  TwoTo(m + n) = TwoTo(m) * TwoTo(n)
<1> DEFINE B == {k \in 0..n : TwoTo(m + k) = TwoTo(m) * TwoTo(k)}
<1>1. 0 \in B
  <2>1. m + 0 = m /\ TwoTo(0) = 1 /\ TwoTo(m) \in Nat
    BY TwoToSteps, TwoToNat
  <2> QED
    BY <2>1
<1>2. ASSUME NEW k \in 1..n, k - 1 \in B PROVE k \in B
  <2> DEFINE j == k - 1
  <2>1. j \in Nat /\ j + 1 = k /\ m + j \in Nat /\ m + j + 1 = m + k /\ k \in 0..n
    OBVIOUS
  <2>2. TwoTo(m + j) = TwoTo(m) * TwoTo(j)
    BY <1>2
  <2> HIDE DEF j
  <2>3. TwoTo(j + 1) = 2 * TwoTo(j)
    BY <2>1, TwoToSteps
  <2> DEFINE i == m + j
  <2>4. TwoTo(i + 1) = 2 * TwoTo(i)
    <3>1. i \in Nat
      BY <2>1
    <3> HIDE DEF i
    <3> QED
      BY <3>1, TwoToSteps
  <2>5. TwoTo(m) \in Nat /\ TwoTo(j) \in Nat
    BY <2>1, TwoToNat
  <2>6. 2 * (TwoTo(m) * TwoTo(j)) = TwoTo(m) * (2 * TwoTo(j))
    BY <2>5
  <2>7. TwoTo(m + k) = TwoTo(m) * TwoTo(k)
    BY <2>1, <2>2, <2>3, <2>4, <2>6
  <2> QED
    BY <2>1, <2>7
<1> HIDE DEF B
<1>3. n \in B
  BY <1>1, <1>2, Reached
<1> QED
  BY <1>3 DEF B

(* A number of more bits is at least twice as large.                       *)
LEMMA TwoToGrows ==
    ASSUME NEW m \in Nat, NEW n \in Nat, m < n
    PROVE  2 * TwoTo(m) <= TwoTo(n)
<1> DEFINE d == n - m - 1
<1>1. d \in Nat /\ n = m + 1 + d /\ m + 1 \in Nat
  OBVIOUS
<1> HIDE DEF d
<1>2. TwoTo(n) = TwoTo(m + 1) * TwoTo(d)
  BY <1>1, TwoToSum
<1>3. TwoTo(m + 1) = 2 * TwoTo(m)
  BY TwoToSteps
<1>4. TwoTo(m) \in Nat /\ TwoTo(d) \in Nat \ {0}
  BY <1>1, TwoToNat
<1>5. \A x \in Nat, y \in Nat \ {0} : x <= x * y
  OBVIOUS
<1>6. 2 * TwoTo(m) \in Nat
  BY <1>4
<1> QED
  BY <1>2, <1>3, <1>4, <1>5, <1>6

(* A bit far above does not change the bit that counts t.                  *)
LEMMA BitAbove ==
    ASSUME NEW t \in Nat \ {0}, NEW s \in Nat, NEW x \in Nat
    PROVE  ((s + 2 * (x * t)) \div t) % 2 = (s \div t) % 2
<1> DEFINE q == s \div t
           r == s % t
<1>1. q \in Nat /\ r \in 0..t - 1 /\ s = q * t + r
  BY DivisionFacts
<1> HIDE DEF q, r
<1> DEFINE y == q + 2 * x
<1>2. y \in Nat
  BY <1>1
<1>3. s + 2 * (x * t) = y * t + r
  <2>1. y * t = q * t + 2 * (x * t)
    BY <1>1
  <2>2. q * t \in Nat /\ x * t \in Nat /\ y * t \in Nat
    BY <1>1, <1>2
  <2> HIDE DEF y
  <2> QED
    BY <1>1, <2>1, <2>2
<1>4. (y * t + r) \div t = y
  <2> HIDE DEF y
  <2> QED
    BY <1>1, <1>2, QuotientIs
<1>5. y % 2 = q % 2
  BY <1>1
<1> QED
  BY <1>3, <1>4, <1>5 DEF q

\* The numbers the first bits of a word are.
Weight(w, m) == [k \in 1..m |-> w[k - 1] * TwoTo(k - 1)]

LEMMA NumberIsSum ==
    ASSUME NEW w, NEW m \in Nat
    PROVE  \E g : Sums(g, m, Weight(w, m)) /\ Number(w, m) = g[m]
<1> DEFINE e == Weight(w, m)
           F(g) == g = [k \in 0..m |-> IF k = 0 THEN 0 ELSE g[k - 1] + w[k - 1] * TwoTo(k - 1)]
           c == CHOOSE g : F(g)
<1>1. \A g : Sums(g, m, e) <=> F(g)
  <2>1. ASSUME NEW g
        PROVE  [k \in 0..m |-> IF k = 0 THEN 0 ELSE g[k - 1] + e[k]]
                 = [k \in 0..m |-> IF k = 0 THEN 0 ELSE g[k - 1] + w[k - 1] * TwoTo(k - 1)]
    BY DEF Weight
  <2> HIDE DEF e
  <2> QED
    BY <2>1 DEF Sums
<1>2. \E g : F(g)
  <2>1. \E g : Sums(g, m, e)
    BY SumsExist
  <2> HIDE DEF e, F
  <2> QED
    BY <1>1, <2>1
<1>3. F(c)
  <2> HIDE DEF F
  <2> QED
    BY <1>2
<1>4. Number(w, m) = c[m]
  BY DEF Number
<1>5. Sums(c, m, e)
  <2> HIDE DEF F, c, e
  <2> QED
    BY <1>1, <1>3
<1> HIDE DEF F, c, e
<1> QED
  BY <1>4, <1>5 DEF e

(* The number that n bits are, with zeros behind them, has those bits.     *)
LEMMA NumberHasBits ==
    ASSUME NEW w, NEW m \in Nat, NEW n \in 0..m,
           \A i \in 0..n - 1 : w[i] \in {0, 1}, \A i \in n..m - 1 : w[i] = 0
    PROVE  /\ Number(w, m) \in 0..TwoTo(n) - 1
           /\ \A i \in 0..n - 1 : (Number(w, m) \div TwoTo(i)) % 2 = w[i]
<1> DEFINE least(k) == IF k < n THEN k ELSE n
           Right(x, k) == /\ x \in 0..TwoTo(least(k)) - 1
                          /\ \A i \in 0..n - 1 : i < k => (x \div TwoTo(i)) % 2 = w[i]
<1>1. PICK g : Sums(g, m, Weight(w, m)) /\ Number(w, m) = g[m]
  BY NumberIsSum
<1>2. g[0] = 0 /\ \A k \in 1..m : g[k] = g[k - 1] + w[k - 1] * TwoTo(k - 1)
  <2>1. \A k \in 1..m : Weight(w, m)[k] = w[k - 1] * TwoTo(k - 1)
    BY DEF Weight
  <2>2. g[0] = 0 /\ \A k \in 1..m : g[k] = g[k - 1] + Weight(w, m)[k]
    BY <1>1 DEF Sums
  <2> QED
    BY <2>1, <2>2
<1> DEFINE B == {k \in 0..m : Right(g[k], k)}
<1>3. 0 \in B
  <2>1. least(0) = 0 /\ TwoTo(0) = 1
    BY TwoToSteps
  <2> QED
    BY <1>2, <2>1
<1>4. ASSUME NEW k \in 1..m, k - 1 \in B PROVE k \in B
  <2> DEFINE j == k - 1
             s == g[j]
             b == w[j]
  <2>1. j \in Nat /\ k \in Nat /\ k = j + 1 /\ k \in 0..m /\ j \in 0..m - 1
    OBVIOUS
  <2>2. Right(s, j)
    BY <1>4
  <2>3. g[k] = s + b * TwoTo(j)
    BY <1>2
  <2> HIDE DEF j, s, b
  <2>4. TwoTo(j) \in Nat \ {0} /\ TwoTo(k) = 2 * TwoTo(j)
    BY <2>1, TwoToNat, TwoToSteps
  <2>5. Right(g[k], k)
    <3>1. CASE j < n
      <4>1. b \in {0, 1} /\ least(j) = j /\ least(k) = k
        BY <2>1, <3>1 DEF b
      <4>2. s \in 0..TwoTo(j) - 1
        BY <2>2, <4>1
      <4>3. g[k] \in 0..TwoTo(k) - 1
        BY <2>3, <2>4, <4>1, <4>2
      <4>4. ASSUME NEW i \in 0..n - 1, i < k PROVE (g[k] \div TwoTo(i)) % 2 = w[i]
        <5>1. CASE i = j
          <6> DEFINE t == TwoTo(j)
          <6>1. g[k] = b * t + s /\ b \in Nat /\ t \in Nat \ {0} /\ s \in 0..t - 1
            BY <2>3, <2>4, <4>1, <4>2
          <6> HIDE DEF t
          <6>2. g[k] \div t = b
            BY <6>1, QuotientIs
          <6>3. b % 2 = b
            BY <4>1
          <6> QED
            BY <5>1, <6>2, <6>3 DEF t, b
        <5>2. CASE i < j
          <6> DEFINE d == j - i - 1
                     t == TwoTo(i)
                     x == b * TwoTo(d)
          <6>1. d \in Nat /\ i \in Nat /\ i + 1 \in Nat /\ j = i + 1 + d
            BY <2>1, <5>2
          <6> HIDE DEF d
          <6>2. TwoTo(j) = TwoTo(i + 1) * TwoTo(d)
            BY <6>1, TwoToSum
          <6>3. TwoTo(i + 1) = 2 * t /\ t \in Nat \ {0} /\ TwoTo(d) \in Nat
            BY <6>1, TwoToSteps, TwoToNat
          <6> HIDE DEF t
          <6>4. b * TwoTo(j) = 2 * (x * t) /\ x \in Nat
            BY <4>1, <6>2, <6>3
          <6> HIDE DEF x
          <6>5. g[k] = s + 2 * (x * t) /\ s \in Nat
            BY <2>3, <4>2, <6>4
          <6>6. ((s + 2 * (x * t)) \div t) % 2 = (s \div t) % 2
            BY <6>3, <6>4, <6>5, BitAbove
          <6>7. (s \div t) % 2 = w[i]
            BY <2>2, <5>2 DEF t
          <6> QED
            BY <6>5, <6>6, <6>7 DEF t
        <5> QED
          BY <2>1, <4>4, <5>1, <5>2
      <4> QED
        BY <4>1, <4>3, <4>4
    <3>2. CASE ~(j < n)
      <4>1. b = 0 /\ least(j) = n /\ least(k) = n
        BY <2>1, <3>2 DEF b
      <4>2. s \in 0..TwoTo(n) - 1 /\ TwoTo(n) \in Nat
        BY <2>2, <4>1, TwoToNat
      <4>3. g[k] = s
        BY <2>3, <2>4, <4>1, <4>2
      <4>4. \A i \in 0..n - 1 : i < j
        BY <2>1, <3>2
      <4> HIDE DEF least
      <4> QED
        BY <2>2, <4>1, <4>3, <4>4
    <3> QED
      BY <3>1, <3>2
  <2> QED
    BY <2>1, <2>5
<1> HIDE DEF B
<1>5. m \in B
  BY <1>3, <1>4, Reached
<1>6. least(m) = n /\ \A i \in 0..n - 1 : i < m
  OBVIOUS
<1> QED
  BY <1>1, <1>5, <1>6 DEF B

(* A field of a type there is a reader for lies within eight bytes.        *)
LEMMA TypeFacts ==
    ASSUME NEW field, Handled(field)
    PROVE  /\ TypeBytes(field) \in 1..8 /\ ByteBits \in Nat \ {0} /\ WordBits \in Nat
           /\ TypeBytes(field) * ByteBits \in 1..WordBits
<1>1. TypeBytes(field) \in {1, 2, 4, 8}
  BY DEF Handled, TypeBytes, IntegerSizes
<1>2. ByteBits \in Nat \ {0}
  BY ByteBitsAssumption
<1> QED
  BY <1>1, <1>2 DEF WordBits

(* A packed number has the bits of its place.                              *)
LEMMA PackedBits ==
    ASSUME NEW buff, NEW byte \in Nat, NEW info, info.bit_offset \in Nat,
           Shiftable(info.bit_offset, info.bit_width),
           NEW start, start = byte * ByteBits + info.bit_offset,
           \A i \in 0..info.bit_width - 1 : buff[start + i] \in {0, 1}
    PROVE  /\ Packed(buff, byte, info) \in 0..TwoTo(info.bit_width) - 1
           /\ \A i \in 0..info.bit_width - 1 :
                 (Packed(buff, byte, info) \div TwoTo(i)) % 2 = buff[start + i]
<1> DEFINE n == info.bit_width
           o == info.bit_offset
           w == BitpackedBits(buff, byte, o, n)
<1>1. WordBits \in Nat /\ n \in 1..WordBits
  BY ByteBitsAssumption DEF Shiftable, WordBits
<1>2. w = BitsFrom(buff, start, n)
  <2>1. o \in Nat /\ Shiftable(o, n) /\ start = byte * ByteBits + o
    OBVIOUS
  <2> HIDE DEF n, o
  <2> QED
    BY <2>1, BitpackedBitsOfPlace
<1> HIDE DEF w, n
<1>3. /\ \A i \in 0..n - 1 : w[i] = buff[start + i]
      /\ \A i \in n..WordBits - 1 : w[i] = 0
  BY <1>1, <1>2 DEF Word, BitsFrom
<1>4. n \in 0..WordBits /\ \A i \in 0..n - 1 : w[i] \in {0, 1}
  BY <1>1, <1>3 DEF n
<1>5. /\ Number(w, WordBits) \in 0..TwoTo(n) - 1
      /\ \A i \in 0..n - 1 : (Number(w, WordBits) \div TwoTo(i)) % 2 = w[i]
  BY <1>1, <1>3, <1>4, NumberHasBits
<1>6. Packed(buff, byte, info) = Number(w, WordBits)
  BY DEF Packed, w, n, o
<1> QED
  BY <1>3, <1>5, <1>6 DEF n

(* So many bits are no more than more of them.                             *)
LEMMA TwoToOrder ==
    ASSUME NEW m \in Nat, NEW n \in Nat, m <= n
    PROVE  TwoTo(m) <= TwoTo(n) /\ TwoTo(m) \in Nat \ {0} /\ TwoTo(n) \in Nat \ {0}
<1>1. TwoTo(m) \in Nat \ {0} /\ TwoTo(n) \in Nat \ {0}
  BY TwoToNat
<1>2. m < n => 2 * TwoTo(m) <= TwoTo(n)
  BY TwoToGrows
<1>3. m = n \/ m < n
  OBVIOUS
<1> QED
  BY <1>1, <1>2, <1>3

\* A field of the schema, its bytes and its storage.
FieldOf(k) == world.fields[k].field
InfoOf(k) == world.fields[k].info

(* A field that is not packed is its bytes.                                *)
LEMMA PlainStands ==
    ASSUME NEW k, IsStored(world, k), Handled(FieldOf(k)), FieldOf(k).size \in Nat,
           InfoOf(k).compression = "None", NEW z \in 0..FieldOf(k).size - 1
    PROVE  Stands(FieldValue(FieldOf(k), InfoOf(k), world.buff, world.dataOffset, z),
                  FieldOf(k), InfoOf(k), z)
<1> DEFINE field == FieldOf(k)
           info  == InfoOf(k)
           bytes == TypeBytes(field)
           bits  == bytes * ByteBits
           at    == info.field_offset_bits
           v     == Number(LoadWord(world.buff, at \div ByteBits + bytes * z), bits)
<1>1. /\ bytes \in 1..8 /\ bits \in Nat /\ field.size \in Nat /\ z \in 0..field.size - 1
      /\ at \in Nat /\ at % ByteBits = 0
      /\ \A p \in at..at + bits * field.size - 1 : world.buff[p] \in {0, 1}
  BY TypeFacts DEF IsStored, FieldOf, InfoOf
<1>2. FieldValue(field, info, world.buff, world.dataOffset, z) = FromBytes(field, v)
  BY DEF FieldValue
<1>3. Stands(FromBytes(field, v), field, info, z)
        <=> IF field.type = "FLOAT"
            THEN \E u \in 0..TwoTo(bits) - 1 :
                    HasBits(u, at + z * bits, bits) /\ FromBytes(field, v) = FloatOf(u)
            ELSE HasBits(FromBytes(field, v), at + z * bits, bits)
  BY DEF Stands
<1>4. \A i \in 0..bits - 1 : at + z * bits + i \in at..at + bits * field.size - 1
  <2> DEFINE s == field.size
  <2>1. s \in Nat /\ z \in 0..s - 1 /\ bits \in Nat /\ at \in Nat
    BY <1>1
  <2> HIDE DEF s, bits, at
  <2>2. z * bits + bits <= bits * s
    <3>1. s - z - 1 \in Nat
      BY <2>1
    <3>2. (s - z - 1) * bits >= 0 /\ (s - z - 1) * bits = bits * s - z * bits - bits
      BY <2>1, <3>1
    <3>3. bits * s \in Nat /\ z * bits \in Nat
      BY <2>1
    <3> QED
      BY <2>1, <3>2, <3>3
  <2>3. z * bits \in Nat /\ bits * s \in Nat
    BY <2>1
  <2>4. \A i \in 0..bits - 1 : at + z * bits + i \in at..at + bits * s - 1
    BY <2>1, <2>2, <2>3
  <2> QED
    BY <2>4 DEF s
<1>5. HasBits(v, at + z * bits, bits)
  <2> DEFINE b     == world.buff
             start == at + z * bits
             byte  == at \div ByteBits + bytes * z
             w     == LoadWord(b, byte)
  <2>1. \A i \in 0..bits - 1 : b[start + i] \in {0, 1}
    BY <1>1, <1>4
  <2>2. ByteBits \in Nat \ {0} /\ WordBits \in Nat /\ bits \in 1..WordBits /\ z \in Nat
    BY <1>1, TypeFacts
  <2>3. byte * ByteBits = start
    <3> DEFINE q == at \div ByteBits
    <3>1. q \in Nat /\ at = q * ByteBits
      <4>1. q \in Nat /\ at = q * ByteBits + (at % ByteBits)
        BY <1>1, <2>2, DivisionFacts
      <4> HIDE DEF q, at
      <4> QED
        BY <1>1, <2>2, <4>1
    <3> HIDE DEF q, at, bytes
    <3>2. (q + bytes * z) * ByteBits = q * ByteBits + z * (bytes * ByteBits)
      BY <1>1, <2>2, <3>1
    <3> QED
      BY <3>1, <3>2 DEF q
  <2> HIDE DEF b, bits, at, bytes, start, byte
  <2>4. \A i \in 0..bits - 1 : w[i] = b[start + i]
    BY <2>2, <2>3 DEF LoadWord, Word
  <2>5. v = Number(w, bits)
    BY DEF b, bits, at, bytes, byte
  <2> HIDE DEF w, v
  <2>6. \A i \in 0..bits - 1 : w[i] \in {0, 1}
    BY <2>1, <2>4
  <2>7. bits \in Nat /\ bits \in 0..bits /\ \A i \in bits..bits - 1 : w[i] = 0
    BY <2>2
  <2>8. /\ Number(w, bits) \in 0..TwoTo(bits) - 1
        /\ \A i \in 0..bits - 1 : (Number(w, bits) \div TwoTo(i)) % 2 = w[i]
    BY <2>6, <2>7, NumberHasBits
  <2>9. HasBits(v, start, bits)
    BY <2>4, <2>5, <2>8 DEF HasBits, b
  <2> QED
    BY <2>9 DEF start
<1>6. v \in 0..TwoTo(bits) - 1
  BY <1>5 DEF HasBits
<1>7. CASE field.type = "FLOAT"
  <2>1. FromBytes(field, v) = FloatOf(v)
    BY <1>7 DEF FromBytes
  <2> HIDE DEF v, bits, at
  <2> QED
    BY <1>2, <1>3, <1>5, <1>6, <1>7, <2>1
<1>8. CASE field.type # "FLOAT"
  <2>1. FromBytes(field, v) = v
    BY <1>8 DEF FromBytes
  <2> HIDE DEF v, bits, at
  <2> QED
    BY <1>2, <1>3, <1>5, <1>8, <2>1
<1> QED
  BY <1>7, <1>8

(* A packed number fits its type.                                          *)
LEMMA PackedFits ==
    ASSUME NEW k, IsStored(world, k), Handled(FieldOf(k)), InfoOf(k).compression # "None"
    PROVE  LET n == InfoOf(k).bit_width
               u == Packed(world.buff, world.dataOffset, InfoOf(k))
               span == Span(TypeBytes(FieldOf(k)))
           IN  /\ HasBits(u, world.dataOffset * ByteBits + InfoOf(k).bit_offset, n)
               /\ n \in Nat \ {0} /\ u \in 0..TwoTo(n) - 1
               /\ TwoTo(n) \in Nat \ {0} /\ span \in Nat \ {0} /\ TwoTo(n) <= span
<1> DEFINE info  == InfoOf(k)
           n     == info.bit_width
           o     == info.bit_offset
           byte  == world.dataOffset
           start == byte * ByteBits + o
           bits  == TypeBytes(FieldOf(k)) * ByteBits
           b     == world.buff
           u     == Packed(b, byte, info)
<1>1. /\ byte \in Nat /\ o \in Nat /\ Shiftable(o, n) /\ n <= bits
      /\ \A p \in start..start + n - 1 : b[p] \in {0, 1}
  BY DEF IsStored, FieldOf, InfoOf
<1>2. /\ bits \in Nat /\ n \in Nat \ {0} /\ start \in Nat
  BY <1>1, TypeFacts DEF Shiftable
<1>3. \A i \in 0..n - 1 : b[start + i] \in {0, 1}
  <2> HIDE DEF b, start, n
  <2>1. \A i \in 0..n - 1 : start + i \in start..start + n - 1
    BY <1>2
  <2> QED
    BY <1>1, <2>1
<1>4. /\ u \in 0..TwoTo(n) - 1
      /\ \A i \in 0..n - 1 : (u \div TwoTo(i)) % 2 = b[start + i]
  <2>1. start = byte * ByteBits + info.bit_offset /\ info.bit_offset \in Nat
        /\ Shiftable(info.bit_offset, info.bit_width)
        /\ \A i \in 0..info.bit_width - 1 : b[start + i] \in {0, 1}
    BY <1>1, <1>3
  <2>2. u = Packed(b, byte, info)
    OBVIOUS
  <2> HIDE DEF info, byte, start, b, u
  <2>3. /\ u \in 0..TwoTo(info.bit_width) - 1
        /\ \A i \in 0..info.bit_width - 1 : (u \div TwoTo(i)) % 2 = b[start + i]
    BY <1>1, <2>1, <2>2, PackedBits
  <2> QED
    BY <2>3
<1>5. HasBits(u, start, n)
  BY <1>4 DEF HasBits
<1>6. TwoTo(n) <= TwoTo(bits) /\ TwoTo(n) \in Nat \ {0} /\ TwoTo(bits) \in Nat \ {0}
  <2> HIDE DEF n, bits
  <2> QED
    BY <1>1, <1>2, TwoToOrder
<1> HIDE DEF u, n, start
<1> QED
  BY <1>2, <1>4, <1>5, <1>6 DEF Span, u, n, start

(* A packed field is the number, the entry of the pallet or the number     *)
(* with a sign that its bits say.                                          *)
LEMMA PackedStands ==
    ASSUME NEW k, IsStored(world, k), Handled(FieldOf(k)), FieldOf(k).type # "FLOAT",
           InfoOf(k).compression # "None", NEW z \in 0..FieldOf(k).size - 1
    PROVE  Stands(FieldValue(FieldOf(k), InfoOf(k), world.buff, world.dataOffset, z),
                  FieldOf(k), InfoOf(k), z)
<1> DEFINE field == FieldOf(k)
           info  == InfoOf(k)
           bytes == TypeBytes(field)
           n     == info.bit_width
           start == world.dataOffset * ByteBits + info.bit_offset
           u     == Packed(world.buff, world.dataOffset, info)
           span  == Span(bytes)
           value == FieldValue(field, info, world.buff, world.dataOffset, z)
<1>1. /\ HasBits(u, start, n) /\ n \in Nat \ {0} /\ u \in 0..TwoTo(n) - 1
      /\ TwoTo(n) \in Nat \ {0} /\ span \in Nat \ {0} /\ TwoTo(n) <= span
  BY PackedFits
<1>2. info.compression \in {"Bitpacked", "BitpackedSigned", "BitpackedIndexed",
                            "BitpackedIndexedArray"}
  BY DEF IsStored, InfoOf, FieldOf
<1>3. u % span = u
  <2> HIDE DEF u, span, n
  <2> QED
    BY <1>1
<1>4. CASE info.compression = "Bitpacked"
  <2>1. value = u % span
    BY <1>4 DEF FieldValue, FromNumber
  <2>2. Stands(value, field, info, z) <=> HasBits(value, start, n)
    BY <1>4 DEF Stands
  <2> HIDE DEF value, u, span, n, start
  <2> QED
    BY <1>1, <1>3, <2>1, <2>2 DEF value
<1>5. CASE info.compression = "BitpackedSigned"
  <2>1. value = SignExtend(u % span, n, bytes)
    BY <1>5 DEF FieldValue, FromBytes
  <2>2. Stands(value, field, info, z) <=>
          \E x \in 0..TwoTo(n) - 1 : HasBits(x, start, n) /\ value = TwosComplement(x, n, bytes)
    BY <1>5 DEF Stands
  <2>3. SignExtend(u, n, bytes) = TwosComplement(u, n, bytes)
    <3> DEFINE m == n - 1
               h == TwoTo(m)
    <3>1. m \in Nat /\ m + 1 = n
      BY <1>1
    <3>2. TwoTo(m + 1) = 2 * TwoTo(m) /\ TwoTo(m) \in Nat \ {0}
      <4> HIDE DEF m
      <4> QED
        BY <3>1, TwoToSteps, TwoToNat
    <3>3. TwoTo(n) = 2 * h /\ h \in Nat \ {0}
      BY <3>1, <3>2
    <3>4. SignExtend(u, n, bytes) = (Flip(u, h) - h) % span
      BY DEF SignExtend
    <3>5. TwosComplement(u, n, bytes) = IF u < h THEN u ELSE u - TwoTo(n) + span
      BY DEF TwosComplement
    <3> HIDE DEF h, u, n, span
    <3>6. u \in 0..2 * h - 1 /\ span \in Nat /\ 2 * h <= span
      BY <1>1, <3>3
    <3>7. (Flip(u, h) - h) % span = IF u < h THEN u ELSE u - 2 * h + span
      BY <3>3, <3>6, SignExtended
    <3> QED
      BY <3>3, <3>4, <3>5, <3>7
  <2> HIDE DEF value, u, span, n, start
  <2>4. value = TwosComplement(u, n, bytes)
    BY <1>3, <2>1, <2>3
  <2>5. Stands(value, field, info, z)
    BY <1>1, <2>2, <2>4
  <2> QED
    BY <2>5 DEF value
<1>6. CASE info.compression \in {"BitpackedIndexed", "BitpackedIndexedArray"}
  <2> DEFINE entry == info.pallet[u * info.array_size + z + 1] % span
  <2>1. value = entry
    <3>1. CASE info.compression = "BitpackedIndexed"
      <4>1. info.array_size = 1 /\ z = 0
        BY <3>1 DEF IsStored, InfoOf, FieldOf
      <4>2. u * info.array_size + z + 1 = u + 1
        <5> HIDE DEF u, n
        <5> QED
          BY <1>1, <4>1
      <4> QED
        BY <3>1, <4>2 DEF FieldValue, FromNumber
    <3>2. CASE info.compression = "BitpackedIndexedArray"
      BY <3>2 DEF FieldValue, FromNumber, PalletArray
    <3> QED
      BY <1>6, <3>1, <3>2
  <2>2. Stands(value, field, info, z) <=>
          \E x \in 0..TwoTo(n) - 1 :
              HasBits(x, start, n) /\ value = info.pallet[x * info.array_size + z + 1] % span
    BY <1>6 DEF Stands
  <2> HIDE DEF value, u, span, n, start
  <2>3. Stands(value, field, info, z)
    BY <1>1, <2>1, <2>2
  <2> QED
    BY <2>3 DEF value
<1> QED
  BY <1>2, <1>4, <1>5, <1>6

(* The data has all of every field that was decoded.                       *)
LEMMA DecodedInside ==
    ASSUME DataInv, world.start # "access", NEW k \in 1..decoded
    PROVE  k \in 1..Len(schema) /\ HasField(k)
<1>1. Sized /\ Len(schema) \in Nat /\ decoded \in 0..Len(schema) /\ Len(data) = Elements(decoded)
  BY DataSized DEF DataInv
<1>2. k \in 1..Len(schema) /\ decoded \in 1..Len(schema) /\ decoded # 0
  BY <1>1
<1>3. Len(data) = Offsets[decoded] + schema[decoded].size
  BY <1>1, <1>2 DEF Elements
<1>4. /\ Offsets[k] \in Nat /\ Offsets[decoded] \in Nat
      /\ schema[k].size \in Nat /\ schema[decoded].size \in Nat
  BY <1>1, <1>2, OffsetsGrow DEF Sized
<1>5. k < decoded => Offsets[k] + schema[k].size <= Offsets[decoded]
  BY <1>1, <1>2, OffsetsGrow
<1>6. Offsets[k] + schema[k].size <= Len(data)
  BY <1>1, <1>2, <1>3, <1>4, <1>5
<1> QED
  BY <1>2, <1>6 DEF HasField, Inside

LEMMA DataIsDecoded == DataInv => Decoded
<1> SUFFICES ASSUME DataInv, world.start # "access", NEW k \in 1..decoded,
                    schema[k].type # "FLOAT" \/ InfoOf(k).compression = "None",
                    NEW z \in 1..schema[k].size
             PROVE  Stands(data[Offsets[k] + z].n, schema[k], InfoOf(k), z - 1)
  BY DEF Decoded, InfoOf
<1>1. PICK worlds \in Families : world \in worlds
  BY DEF DataInv
<1>2. k \in 1..Len(schema) /\ HasField(k) /\ Handled(schema[k])
  BY DecodedInside DEF DataInv
<1>3. /\ Len(schema) = Len(world.fields) /\ schema[k] = FieldOf(k) /\ schema[k].size \in Nat
  BY <1>1, <1>2, SchemaOfWorld DEF DataInv, Sized, FieldOf
<1>4. IsStored(world, k)
  BY <1>1, <1>2, <1>3, WorldsAssumption
<1>5. data[Offsets[k] + z] = DecodedField(k)[z]
  <2>1. Offsets[k] \in Nat /\ Offsets[k] + schema[k].size <= Len(data) /\ Len(data) \in Nat
    BY <1>2, DataSized, OffsetsGrow DEF HasField, Inside, DataInv, IsList
  <2>2. Offsets[k] + z <= Len(data)
    BY <1>3, <2>1
  <2>3. data[Offsets[k] + z] = Content(k)[z]
    BY <1>2, <2>2 DEF DataInv, DataRight
  <2> QED
    BY <2>3 DEF Content
<1>6. DecodedField(k)[z].n
        = FieldValue(FieldOf(k), InfoOf(k), world.buff, world.dataOffset, z - 1)
  BY <1>3 DEF DecodedField, FieldOf, InfoOf
<1> DEFINE y == z - 1
<1>7. y \in 0..FieldOf(k).size - 1 /\ FieldOf(k).size \in Nat
  BY <1>3
<1> HIDE DEF y
<1>8. Stands(FieldValue(FieldOf(k), InfoOf(k), world.buff, world.dataOffset, y),
             FieldOf(k), InfoOf(k), y)
  <2>1. Handled(FieldOf(k))
    BY <1>2, <1>3
  <2>2. CASE InfoOf(k).compression = "None"
    BY <1>4, <1>7, <2>1, <2>2, PlainStands
  <2>3. CASE InfoOf(k).compression # "None"
    <3>1. FieldOf(k).type # "FLOAT"
      BY <1>3, <2>3
    <3> QED
      BY <1>4, <1>7, <2>1, <2>3, <3>1, PackedStands
  <2> QED
    BY <2>2, <2>3
<1> QED
  BY <1>3, <1>5, <1>6, <1>8 DEF y

(* For records of any fields and bits, bytes of any number of bits and     *)
(* pallets of any values: each integer is what the bits of its field say,  *)
(* with the sign or the entry of the pallet they stand for.                *)
THEOREM DecodedAlways == Spec => []Decoded
<1> QED
  BY DataInit, DataStep, DataIsDecoded, PTL DEF Spec
-----------------------------------------------------------------------------
(* Conversions.                                                            *)

(* Bytes count to an even number, and more bytes to twice as much.         *)
LEMMA SpanFacts ==
    ASSUME NEW a \in Nat \ {0}
    PROVE  \E h \in Nat \ {0} : Span(a) = 2 * h /\ Span(a) \div 2 = h
<1> DEFINE m == a * ByteBits - 1
<1>1. m \in Nat /\ m + 1 = a * ByteBits
  <2>1. ByteBits \in Nat \ {0}
    BY ByteBitsAssumption
  <2>2. a * ByteBits \in Nat \ {0}
    BY <2>1
  <2> QED
    BY <2>2
<1> HIDE DEF m
<1>2. TwoTo(m + 1) = 2 * TwoTo(m) /\ TwoTo(m) \in Nat \ {0}
  BY <1>1, TwoToSteps, TwoToNat
<1>3. Span(a) = 2 * TwoTo(m)
  BY <1>1, <1>2 DEF Span
<1>4. \A h \in Nat : (2 * h) \div 2 = h
  OBVIOUS
<1> QED
  BY <1>2, <1>3, <1>4

LEMMA SpanGrows ==
    ASSUME NEW a \in Nat, NEW b \in Nat, a < b
    PROVE  2 * Span(a) <= Span(b)
<1>1. ByteBits \in Nat \ {0}
  BY ByteBitsAssumption
<1>2. a * ByteBits \in Nat /\ b * ByteBits \in Nat /\ a * ByteBits < b * ByteBits
  <2>1. b - a \in Nat \ {0}
    OBVIOUS
  <2>2. (b - a) * ByteBits > 0 /\ (b - a) * ByteBits = b * ByteBits - a * ByteBits
    BY <1>1, <2>1
  <2>3. a * ByteBits \in Nat /\ b * ByteBits \in Nat
    BY <1>1
  <2> QED
    BY <2>2, <2>3
<1> QED
  BY <1>2, TwoToGrows DEF Span

(* The limits of an integer type.                                          *)
LEMMA LimitsOf ==
    ASSUME NEW dest, dest \in Dest
    PROVE  \E h \in Nat \ {0} :
              /\ Span(dest.bytes) = 2 * h /\ Span(dest.bytes) \div 2 = h
              /\ MinOf(dest) = IF dest.signed THEN -h ELSE 0
              /\ MaxOf(dest) = IF dest.signed THEN h - 1 ELSE 2 * h - 1
              /\ \A n \in Int : WrapTo(n, dest) =
                    IF ~dest.signed \/ n % (2 * h) < h THEN n % (2 * h) ELSE (n % (2 * h)) - 2 * h
<1>1. dest.bytes \in Nat \ {0} /\ dest.signed \in BOOLEAN
  BY DEF Dest
<1>2. PICK h \in Nat \ {0} : Span(dest.bytes) = 2 * h /\ Span(dest.bytes) \div 2 = h
  BY <1>1, SpanFacts
<1>3. MinOf(dest) = IF dest.signed THEN -h ELSE 0
  BY <1>2 DEF MinOf
<1>4. MaxOf(dest) = IF dest.signed THEN h - 1 ELSE 2 * h - 1
  BY <1>2 DEF MaxOf
<1>5. \A n \in Int : n % (2 * h) \in Int
  OBVIOUS
<1>6. \A n \in Int : WrapTo(n, dest) =
        IF ~dest.signed \/ n % (2 * h) < h THEN n % (2 * h) ELSE (n % (2 * h)) - 2 * h
  BY <1>2, <1>5 DEF WrapTo, Signed
<1> QED
  BY <1>2, <1>3, <1>4, <1>6

(* A number that fits a type is kept in it, and one of the same size keeps *)
(* its bits.                                                               *)
LEMMA WrapKeeps ==
    ASSUME NEW dest, dest \in Dest, NEW n \in Int
    PROVE  /\ n \in MinOf(dest)..MaxOf(dest) => WrapTo(n, dest) = n
           /\ n \in 0..Span(dest.bytes) - 1 => WrapTo(n, dest) % Span(dest.bytes) = n
<1>1. PICK h \in Nat \ {0} :
        /\ Span(dest.bytes) = 2 * h /\ Span(dest.bytes) \div 2 = h
        /\ MinOf(dest) = IF dest.signed THEN -h ELSE 0
        /\ MaxOf(dest) = IF dest.signed THEN h - 1 ELSE 2 * h - 1
        /\ \A x \in Int : WrapTo(x, dest) =
              IF ~dest.signed \/ x % (2 * h) < h THEN x % (2 * h) ELSE (x % (2 * h)) - 2 * h
  BY LimitsOf
<1>2. /\ \A x \in Int : x >= 0 /\ x < 2 * h => x % (2 * h) = x
      /\ \A x \in Int : x < 0 /\ x >= -(2 * h) => x % (2 * h) = x + 2 * h
  <2> DEFINE s == 2 * h
  <2>1. s \in Nat \ {0}
    OBVIOUS
  <2> HIDE DEF s
  <2>2. /\ \A x \in Int : x >= 0 /\ x < s => x % s = x
        /\ \A x \in Int : x < 0 /\ x >= -s => x % s = x + s
    BY <2>1
  <2> QED
    BY <2>2 DEF s
<1>3. /\ n \in MinOf(dest)..MaxOf(dest) =>
            IF dest.signed THEN n >= -h /\ n < h ELSE n >= 0 /\ n < 2 * h
      /\ n \in 0..Span(dest.bytes) - 1 => n >= 0 /\ n < 2 * h
  <2>1. dest.signed \in BOOLEAN
    BY DEF Dest
  <2>2. /\ Span(dest.bytes) = 2 * h
        /\ MinOf(dest) = IF dest.signed THEN -h ELSE 0
        /\ MaxOf(dest) = IF dest.signed THEN h - 1 ELSE 2 * h - 1
    BY <1>1
  <2> QED
    BY <2>1, <2>2
<1>4. ASSUME n \in MinOf(dest)..MaxOf(dest) PROVE WrapTo(n, dest) = n
  <2>1. CASE n >= 0
    <3>1. n < 2 * h /\ n % (2 * h) = n /\ (dest.signed => n < h)
      BY <1>2, <1>3, <1>4, <2>1
    <3> QED
      BY <1>1, <3>1
  <2>2. CASE n < 0
    <3>1. dest.signed /\ n >= -h
      BY <1>3, <1>4, <2>2
    <3>2. n % (2 * h) = n + 2 * h /\ ~(n + 2 * h < h)
      BY <1>2, <2>2, <3>1
    <3>3. WrapTo(n, dest) = (n % (2 * h)) - 2 * h
      BY <1>1, <3>1, <3>2
    <3> QED
      BY <3>2, <3>3
  <2> QED
    BY <2>1, <2>2
<1>5. ASSUME n \in 0..Span(dest.bytes) - 1 PROVE WrapTo(n, dest) % Span(dest.bytes) = n
  <2>1. n >= 0 /\ n < 2 * h /\ n % (2 * h) = n
    BY <1>2, <1>3, <1>5
  <2>2. WrapTo(n, dest) = n \/ WrapTo(n, dest) = n - 2 * h
    BY <1>1, <2>1
  <2>3. n - 2 * h \in Int /\ n - 2 * h < 0 /\ n - 2 * h >= -(2 * h)
    BY <2>1
  <2>4. (n - 2 * h) % (2 * h) = n
    <3> DEFINE y == n - 2 * h
    <3>1. y \in Int /\ y < 0 /\ y >= -(2 * h) /\ y + 2 * h = n
      BY <2>3
    <3> HIDE DEF y
    <3>2. y % (2 * h) = n
      BY <1>2, <3>1
    <3> QED
      BY <3>2 DEF y
  <2> QED
    BY <1>1, <2>1, <2>2, <2>4
<1> QED
  BY <1>4, <1>5

(* An integer of another size is read as what it stands for, if it is      *)
(* within the limits that it is compared with.                             *)
LEMMA WithinLimits ==
    ASSUME NEW value, NEW field, NEW dest, dest \in Dest, dest.kind \in {"int", "enum"},
           value.kind = "int", value.bytes \in Nat \ {0}, value.n \in 0..Span(value.bytes) - 1,
           value.bytes # dest.bytes,
           NEW sign \in BOOLEAN, sign => dest.signed,
           NEW n, n = IF sign THEN Signed(value.n, value.bytes) ELSE value.n,
           ~Exceeds(n, value, sign, dest)
    PROVE  n \in MinOf(dest)..MaxOf(dest)
<1> DEFINE min == MinOf(dest)
           max == MaxOf(dest)
<1>1. PICK h \in Nat \ {0} :
        /\ Span(dest.bytes) = 2 * h
        /\ min = IF dest.signed THEN -h ELSE 0
        /\ max = IF dest.signed THEN h - 1 ELSE 2 * h - 1
  BY LimitsOf
<1>2. PICK g \in Nat \ {0} : Span(value.bytes) = 2 * g /\ Span(value.bytes) \div 2 = g
  <2> DEFINE b == value.bytes
  <2>1. b \in Nat \ {0}
    OBVIOUS
  <2> HIDE DEF b
  <2>2. \E g \in Nat \ {0} : Span(b) = 2 * g /\ Span(b) \div 2 = g
    BY <2>1, SpanFacts
  <2> QED
    BY <2>2 DEF b
<1>3. dest.bytes \in Nat \ {0} /\ dest.signed \in BOOLEAN
  BY DEF Dest
<1>4. n \in Int /\ IF sign THEN n >= -g /\ n < g ELSE n >= 0 /\ n < 2 * g
  BY <1>2 DEF Signed
<1>5. min \in Int /\ max \in Int /\ min <= 0 /\ max >= 0 /\ max < 2 * h
  BY <1>1, <1>3
<1> HIDE DEF min, max
<1>6. CASE dest.bytes < value.bytes
  <2>1. 2 * (2 * h) <= 2 * g
    <3> DEFINE a == dest.bytes
               b == value.bytes
    <3>1. a \in Nat /\ b \in Nat /\ a < b
      BY <1>3, <1>6
    <3> HIDE DEF a, b
    <3>2. 2 * Span(a) <= Span(b)
      BY <3>1, SpanGrows
    <3> QED
      BY <1>1, <1>2, <3>2 DEF a, b
  <2>2. ~(n > Limit(max, value.bytes, sign)) /\ ~(n < Limit(min, value.bytes, sign))
    BY <1>6 DEF Exceeds, min, max
  <2>3. Limit(max, value.bytes, sign) = max
    <3>1. max % (2 * g) = max
      <4> DEFINE s == 2 * g
      <4>1. s \in Nat \ {0} /\ max < s
        BY <1>5, <2>1
      <4> HIDE DEF s
      <4>2. max % s = max
        BY <1>5, <4>1
      <4> QED
        BY <4>2 DEF s
    <3> QED
      BY <1>2, <3>1 DEF Limit
  <2>4. n <= max
    BY <1>4, <1>5, <2>2, <2>3
  <2>5. min <= n
    <3>1. CASE sign
      <4>1. Limit(min, value.bytes, sign) = min
        BY <3>1 DEF Limit
      <4> QED
        BY <1>4, <1>5, <2>2, <4>1
    <3>2. CASE ~sign
      BY <1>4, <1>5, <3>2
    <3> QED
      BY <3>1, <3>2
  <2> QED
    BY <1>4, <1>5, <2>4, <2>5 DEF min, max
<1>7. CASE value.bytes < dest.bytes
  <2>1. 2 * (2 * g) <= 2 * h
    <3> DEFINE a == value.bytes
               b == dest.bytes
    <3>1. a \in Nat /\ b \in Nat /\ a < b
      BY <1>3, <1>7
    <3> HIDE DEF a, b
    <3>2. 2 * Span(a) <= Span(b)
      BY <3>1, SpanGrows
    <3> QED
      BY <1>1, <1>2, <3>2 DEF a, b
  <2>2. min <= n /\ n <= max
    BY <1>1, <1>3, <1>4, <2>1
  <2> QED
    BY <1>4, <1>5, <2>2 DEF min, max
<1> QED
  BY <1>3, <1>6, <1>7

\* A value as a field of the library has it.
Typed(value) ==
    /\ value.kind \in Kinds
    /\ value.kind = "int" => value.bytes \in Nat \ {0} /\ value.n \in 0..Span(value.bytes) - 1

(* What val_read does not refuse it gives as it was asked for: a number in *)
(* another size keeps its value, with the sign its field and the caller    *)
(* agree on, and one of the same size its bits (Schema.hpp:419-470).  The  *)
(* exception is a signed integer asked for as a float of its size, which   *)
(* comes as the number of its bits without the sign (Schema.hpp:446).      *)
THEOREM ReadIsAsked ==
    ASSUME NEW value, Typed(value), NEW field, NEW dest, dest \in Dest,
           ValRead(value, field, dest).ok
    PROVE  ReadOrUnsigned(ValRead(value, field, dest).n, value, field, dest)
<1> DEFINE sign == TakesSign(value, field, dest)
           n    == IF sign THEN Signed(value.n, value.bytes) ELSE value.n
           r    == ValRead(value, field, dest)
<1>1. /\ Convertible(value, dest) /\ r = Cast(n, value, dest)
      /\ value.kind # "string" => ~Exceeds(n, value, sign, dest)
  BY DEF ValRead, Refused
<1>2. sign <=> /\ value.kind = "int" /\ dest.bytes # value.bytes /\ dest.kind # "enum"
               /\ dest.signed /\ field.signed
  BY DEF TakesSign
<1>3. dest.kind \in {"int", "enum", "float", "string"}
  BY DEF Dest, Kinds
<1> HIDE DEF sign, r
<1>4. CASE dest.kind \in {"float", "string"}
  <2>1. r.n = n
    BY <1>1, <1>4 DEF Cast, Given
  <2>2. CASE SignLost(value, field, dest)
    <3>1. n = value.n
      BY <1>2, <2>2 DEF SignLost
    <3> QED
      BY <2>1, <2>2, <3>1 DEF ReadOrUnsigned, r
  <2>3. CASE ~SignLost(value, field, dest)
    <3> DEFINE asked == value.kind = "int" /\ field.signed /\ dest.signed /\ dest.kind \in {"int", "float"}
    <3>1. sign => asked
      <4>1. value.kind = "int" => dest.kind # "string"
        BY <1>1 DEF Convertible
      <4> QED
        BY <1>2, <1>4, <4>1
    <3>2. asked => sign
      BY <1>2, <1>4, <2>3 DEF SignLost
    <3>3. Meant(value, field, dest) = IF asked THEN Signed(value.n, value.bytes) ELSE value.n
      BY DEF Meant
    <3>4. n = IF sign THEN Signed(value.n, value.bytes) ELSE value.n
      OBVIOUS
    <3> HIDE DEF asked, n
    <3>5. n = Meant(value, field, dest)
      BY <3>1, <3>2, <3>3, <3>4
    <3> QED
      BY <1>4, <2>1, <2>3, <3>5 DEF ReadOrUnsigned, ReadAs, Fits, r
  <2> QED
    BY <2>2, <2>3
<1> DEFINE asAsked == ReadAs(r.n, value, field, dest)
<1>5. ASSUME dest.kind \in {"int", "enum"} /\ value.kind = "float"
      PROVE  asAsked
  <2>1. n = value.n
    BY <1>2, <1>5
  <2>2. value.n \in MinOf(dest)..MaxOf(dest) /\ r.n = WrapTo(value.n, dest)
    BY <1>1, <1>5, <2>1 DEF Cast, Given, Refused, r
  <2>3. WrapTo(value.n, dest) = value.n
    <3> DEFINE x == value.n
    <3>1. x \in MinOf(dest)..MaxOf(dest) /\ x \in Int
      BY <2>2
    <3> HIDE DEF x
    <3>2. WrapTo(x, dest) = x
      BY <3>1, WrapKeeps
    <3> QED
      BY <3>2 DEF x
  <2>4. Meant(value, field, dest) = value.n
    BY <1>5 DEF Meant
  <2> QED
    BY <2>2, <2>3, <2>4 DEF ReadAs, Fits, r
<1>6. ASSUME dest.kind \in {"int", "enum"} /\ value.kind = "int"
      PROVE  asAsked
  <2>1. value.bytes \in Nat \ {0} /\ value.n \in 0..Span(value.bytes) - 1
    BY <1>6 DEF Typed
  <2>2. r.n = WrapTo(n, dest)
    BY <1>1, <1>6 DEF Cast, Given
  <2>3. CASE dest.bytes = value.bytes
    <3>1. n = value.n
      BY <1>2, <2>3
    <3> DEFINE x == value.n
    <3>2. x \in Int /\ x \in 0..Span(dest.bytes) - 1
      BY <2>1, <2>3
    <3> HIDE DEF x
    <3>3. WrapTo(x, dest) % Span(dest.bytes) = x
      BY <3>2, WrapKeeps
    <3>4. r.n % Span(dest.bytes) = value.n
      BY <2>2, <3>1, <3>3 DEF x
    <3> QED
      BY <1>6, <2>3, <3>4 DEF ReadAs, r
  <2>4. CASE dest.bytes # value.bytes
    <3>1. n = Meant(value, field, dest)
      BY <1>2, <1>6, <2>4 DEF Meant
    <3>2. sign => dest.signed
      BY <1>2
    <3>3. ~Exceeds(n, value, sign, dest)
      BY <1>1, <1>6
    <3>4. sign \in BOOLEAN
      BY DEF sign, TakesSign
    <3>5. n = IF sign THEN Signed(value.n, value.bytes) ELSE value.n
      OBVIOUS
    <3> HIDE DEF n
    <3>6. n \in MinOf(dest)..MaxOf(dest)
      BY <1>6, <2>1, <2>4, <3>2, <3>3, <3>4, <3>5, WithinLimits
    <3>7. n \in Int
      BY <3>6
    <3>8. WrapTo(n, dest) = n
      BY <3>6, <3>7, WrapKeeps
    <3> QED
      BY <2>2, <3>1, <3>6, <3>8 DEF ReadAs, Fits, r
  <2> QED
    BY <2>3, <2>4
<1>7. dest.kind \in {"int", "enum"} => value.kind \in {"int", "float"}
  BY <1>1 DEF Convertible, Typed, Kinds
<1> HIDE DEF asAsked
<1>8. asAsked /\ dest.kind # "float" => ReadOrUnsigned(ValRead(value, field, dest).n, value, field, dest)
  BY DEF asAsked, ReadOrUnsigned, SignLost, r
<1> QED
  BY <1>3, <1>4, <1>5, <1>6, <1>7, <1>8

(* The exception is a defect: a negative number of a signed field, asked   *)
(* for as a float of the field's size, is never refused and never given as *)
(* the number that it is (Schema.hpp:446-449, 465).                        *)
THEOREM NegativeIsLost ==
    ASSUME NEW value, Typed(value), NEW field, NEW dest, dest.signed,
           SignLost(value, field, dest), Signed(value.n, value.bytes) < 0
    PROVE  /\ ValRead(value, field, dest).ok
           /\ ~ReadAs(ValRead(value, field, dest).n, value, field, dest)
<1> DEFINE sign == TakesSign(value, field, dest)
           n    == IF sign THEN Signed(value.n, value.bytes) ELSE value.n
<1>1. ~sign /\ Convertible(value, dest) /\ value.kind = "int" /\ dest.kind = "float"
  BY DEF SignLost, TakesSign, Convertible
<1>2. value.n \in Nat /\ value.bytes \in Nat
  <2>1. value.bytes \in Nat \ {0} /\ value.n \in 0..Span(value.bytes) - 1
    BY <1>1 DEF Typed
  <2> QED
    BY <2>1
<1>3. ~Exceeds(n, value, sign, dest)
  BY <1>2 DEF Exceeds, SignLost
<1>4. ValRead(value, field, dest) = Given(value.n)
  BY <1>1, <1>3 DEF ValRead, Cast
<1>5. Meant(value, field, dest) = Signed(value.n, value.bytes)
  BY <1>1 DEF Meant, SignLost
<1>6. Meant(value, field, dest) # value.n
  <2> DEFINE m == Signed(value.n, value.bytes)
  <2>1. m < 0 /\ value.n >= 0 /\ value.n \in Int
    BY <1>2
  <2>2. m # value.n
    <3> HIDE DEF m
    <3> QED
      BY <2>1
  <2> QED
    BY <1>5, <2>2
<1> QED
  BY <1>1, <1>4, <1>6 DEF Given, ReadAs
-----------------------------------------------------------------------------
(* What get<>() returns.                                                   *)

(* An integer field has a number of its type.                              *)
LEMMA FieldInteger ==
    ASSUME NEW k, IsStored(world, k), Handled(FieldOf(k)), FieldOf(k).type = "INT",
           FieldOf(k).size \in Nat, NEW z \in 0..FieldOf(k).size - 1
    PROVE  FieldValue(FieldOf(k), InfoOf(k), world.buff, world.dataOffset, z)
             \in 0..Span(FieldOf(k).bytes) - 1
<1> DEFINE field == FieldOf(k)
           info  == InfoOf(k)
           n     == info.bit_width
           u     == Packed(world.buff, world.dataOffset, info)
           span  == Span(TypeBytes(field))
           value == FieldValue(field, info, world.buff, world.dataOffset, z)
<1>1. TypeBytes(field) = field.bytes /\ field.type # "FLOAT"
  BY DEF TypeBytes
<1>2. CASE info.compression = "None"
  <2>1. Stands(value, field, info, z)
    BY <1>2, PlainStands
  <2> HIDE DEF value
  <2>2. value \in 0..TwoTo(TypeBytes(field) * ByteBits) - 1
    BY <1>1, <1>2, <2>1 DEF Stands, HasBits
  <2> QED
    BY <1>1, <2>2 DEF Span, value
<1>3. CASE info.compression # "None"
  <2>1. /\ n \in Nat \ {0} /\ u \in 0..TwoTo(n) - 1
        /\ TwoTo(n) \in Nat \ {0} /\ span \in Nat \ {0} /\ TwoTo(n) <= span
    BY <1>3, PackedFits
  <2>2. info.compression \in {"Bitpacked", "BitpackedSigned", "BitpackedIndexed",
                              "BitpackedIndexedArray"}
    BY <1>3 DEF IsStored, InfoOf, FieldOf
  <2>3. \A x \in Int : x % span \in 0..span - 1
    <3> HIDE DEF span
    <3> QED
      BY <2>1
  <2>4. \E x \in Int : value = x % span
    <3>1. CASE info.compression = "Bitpacked"
      <4>1. value = u % span
        BY <1>1, <3>1 DEF FieldValue, FromNumber
      <4> HIDE DEF value, u, span, n
      <4> QED
        BY <2>1, <4>1
    <3>2. CASE info.compression = "BitpackedSigned"
      <4> DEFINE h == TwoTo(n - 1)
                 w == u % span
      <4>1. value = (Flip(w, h) - h) % span
        BY <1>1, <3>2 DEF FieldValue, FromBytes, SignExtend
      <4>2. w \in Int /\ h \in Int
        <5> DEFINE m == n - 1
        <5>1. m \in Nat
          BY <2>1
        <5> HIDE DEF m
        <5>2. TwoTo(m) \in Nat
          BY <5>1, TwoToNat
        <5> HIDE DEF u, span
        <5> QED
          BY <2>1, <2>3, <5>2 DEF m
      <4> HIDE DEF w, h
      <4>3. Flip(w, h) - h \in Int
        BY <4>2 DEF Flip
      <4> HIDE DEF value, span
      <4> QED
        BY <4>1, <4>3
    <3>3. CASE info.compression \in {"BitpackedIndexed", "BitpackedIndexedArray"}
      <4>1. Stands(value, field, info, z)
        BY <1>1, <1>3, PackedStands
      <4> HIDE DEF value, span
      <4>2. PICK x \in 0..TwoTo(n) - 1 : value = info.pallet[x * info.array_size + z + 1] % span
        BY <3>3, <4>1 DEF Stands, span
      <4> DEFINE y == z + 1
                 j == x * info.array_size
      <4>3. y \in 1..field.size /\ info.pallet[j + y] \in Nat
        <5>1. y \in 1..field.size
          OBVIOUS
        <5> HIDE DEF y
        <5> QED
          BY <3>3, <5>1 DEF IsStored, InfoOf, FieldOf
      <4>4. j + z + 1 = j + y
        <5>1. info.array_size \in Nat /\ x \in Nat
          BY <2>1, <3>3 DEF IsStored, InfoOf, FieldOf
        <5>2. j \in Nat
          BY <5>1
        <5> HIDE DEF j
        <5> QED
          BY <5>2
      <4> QED
        BY <4>2, <4>3, <4>4
    <3> QED
      BY <2>2, <3>1, <3>2, <3>3
  <2> HIDE DEF span
  <2>5. value \in 0..span - 1
    BY <2>3, <2>4
  <2> QED
    BY <1>1, <2>5 DEF span
<1> QED
  BY <1>2, <1>3

(* What a field holds are values of its kind.                              *)
LEMMA ContentTyped ==
    ASSUME DataInv, NEW k \in 1..Len(schema), NEW z \in 1..schema[k].size,
           world.start = "access" \/ Handled(schema[k])
    PROVE  Typed(Content(k)[z])
<1>1. PICK worlds \in Families : world \in worlds
  BY DEF DataInv
<1>2. Len(schema) = Len(world.fields) /\ schema[k] = FieldOf(k) /\ schema[k].size \in Nat
  BY <1>1, SchemaOfWorld DEF DataInv, Sized, FieldOf
<1>3. \A field : ValueKind(field) \in Kinds /\ (ValueKind(field) = "int" <=> field.type = "INT")
  BY DEF ValueKind, Kinds
<1>4. CASE world.start = "access"
  <2>1. AsMade(world)
    BY <1>1, <1>4, WorldsAssumption
  <2>2. IsValue(world.content[k][z], FieldOf(k))
    BY <1>2, <2>1 DEF AsMade, FieldOf
  <2>3. Content(k) = world.content[k]
    BY <1>4 DEF Content
  <2> QED
    BY <1>3, <2>2, <2>3 DEF IsValue, Typed
<1>5. CASE world.start # "access"
  <2> DEFINE y == z - 1
             v == DecodedField(k)[z]
  <2>1. IsStored(world, k) /\ Handled(FieldOf(k))
    BY <1>1, <1>2, <1>5, WorldsAssumption
  <2>2. y \in 0..FieldOf(k).size - 1 /\ FieldOf(k).size \in Nat
    BY <1>2
  <2>3. /\ v.kind = ValueKind(FieldOf(k)) /\ v.bytes = FieldOf(k).bytes
        /\ v.n = FieldValue(FieldOf(k), InfoOf(k), world.buff, world.dataOffset, y)
    BY <1>2 DEF DecodedField, FieldOf, InfoOf
  <2>4. FieldOf(k).type = "INT" =>
          FieldOf(k).bytes \in Nat \ {0} /\ v.n \in 0..Span(FieldOf(k).bytes) - 1
    <3>1. FieldOf(k).type = "INT" => FieldOf(k).bytes \in Nat \ {0}
      BY <2>1 DEF Handled, IntegerSizes
    <3> HIDE DEF y
    <3> QED
      BY <2>1, <2>2, <2>3, <3>1, FieldInteger
  <2>5. Content(k)[z] = v
    BY <1>5 DEF Content
  <2> HIDE DEF v
  <2> QED
    BY <1>3, <2>3, <2>4, <2>5 DEF Typed
<1> QED
  BY <1>4, <1>5

(* Who reads one element of a decoded record reads one that was decoded.   *)
LEMMA ReadsDecoded ==
    ASSUME DataInv, world.start # "access", NEW k \in 1..Len(schema), NEW n \in Nat \ {0},
           Inside(k, n)
    PROVE  Handled(schema[k])
<1>1. Sized /\ Len(schema) \in Nat /\ decoded \in 0..Len(schema) /\ Len(data) = Elements(decoded)
  BY DataSized DEF DataInv
<1>2. Offsets[k] \in Nat /\ Offsets[k] + n <= Len(data)
  BY <1>1, OffsetsGrow DEF Inside
<1>3. decoded # 0
  BY <1>1, <1>2 DEF Elements
<1>4. decoded \in 1..Len(schema) /\ Len(data) = Offsets[decoded] + schema[decoded].size
  BY <1>1, <1>3 DEF Elements
<1>5. ~(decoded < k)
  <2> SUFFICES ASSUME decoded < k PROVE FALSE
    OBVIOUS
  <2>1. Offsets[decoded] + schema[decoded].size <= Offsets[k]
    BY <1>1, <1>4, OffsetsGrow
  <2>2. Offsets[decoded] \in Nat /\ schema[decoded].size \in Nat
    BY <1>1, <1>4, OffsetsGrow DEF Sized
  <2> QED
    BY <1>2, <1>4, <2>1, <2>2
<1>6. k \in 1..decoded
  BY <1>1, <1>5
<1> QED
  BY <1>6 DEF DataInv

\* What a request of a type is given of field k.
Returned(value, k, dest) ==
    LET count == IF dest.count = 0 THEN 1 ELSE dest.count
    IN  /\ Len(value) = count
        /\ \A z \in 1..count :
              IF z <= schema[k].size
              THEN ReadOrUnsigned(value[z], Content(k)[z], schema[k], dest)
              ELSE value[z] = 0

(* Values that are all read, and the zeros behind them, are what was       *)
(* asked for.                                                              *)
LEMMA FilledReads ==
    ASSUME DataInv, NEW k \in 1..Len(schema), schema[k].size # 0,
           NEW dest, dest \in Dest, Inside(k, Wanted(dest, k)),
           NEW read, IsList(read), Len(read) = Wanted(dest, k),
           \A z \in 1..Wanted(dest, k) : /\ ValRead(ElementOf(k, z), schema[k], dest).ok
                                        /\ read[z] = ValRead(ElementOf(k, z), schema[k], dest).n
    PROVE  Returned(Filled(dest, read), k, dest)
<1> DEFINE size  == schema[k].size
           many  == Wanted(dest, k)
           count == IF dest.count = 0 THEN 1 ELSE dest.count
           more  == IF dest.count > many THEN dest.count - many ELSE 0
           zeros == [z \in 1..more |-> 0]
<1>1. /\ Sized /\ size \in Nat \ {0} /\ dest.count \in Nat
      /\ Offsets[k] \in Nat /\ Offsets[k] + many <= Len(data) /\ Len(data) \in Nat
  BY DataSized, OffsetsGrow DEF Sized, Dest, Inside, DataInv, IsList
<1>2. many = IF dest.count = 0 THEN 1 ELSE IF dest.count > size THEN size ELSE dest.count
  BY <1>1 DEF Wanted
<1>3. /\ many \in Nat \ {0} /\ many <= size /\ more \in Nat /\ count = many + more
      /\ \A z \in 1..count : z <= size <=> z <= many
  BY <1>1, <1>2
<1>4. \A z \in 1..many : ReadOrUnsigned(read[z], Content(k)[z], schema[k], dest)
  <2> SUFFICES ASSUME NEW z \in 1..many
               PROVE  ReadOrUnsigned(read[z], Content(k)[z], schema[k], dest)
    OBVIOUS
  <2>1. z \in 1..size /\ Offsets[k] + z <= Len(data)
    <3> HIDE DEF many, size
    <3> QED
      BY <1>1, <1>3
  <2>2. ElementOf(k, z) = Content(k)[z]
    BY <2>1 DEF DataInv, DataRight, ElementOf
  <2>3. world.start = "access" \/ Handled(schema[k])
    <3> HIDE DEF many
    <3>1. Inside(k, many)
      BY DEF many
    <3> QED
      BY <1>3, <3>1, ReadsDecoded
  <2> DEFINE v == Content(k)[z]
  <2>4. Typed(v)
    BY <2>1, <2>3, ContentTyped
  <2>5. ValRead(v, schema[k], dest).ok /\ read[z] = ValRead(v, schema[k], dest).n
    BY <2>2
  <2> HIDE DEF v
  <2>6. ReadOrUnsigned(ValRead(v, schema[k], dest).n, v, schema[k], dest)
    BY <2>4, <2>5, ReadIsAsked
  <2> QED
    BY <2>5, <2>6 DEF v
<1> HIDE DEF many, size
<1>5. IsList(read) /\ Len(read) = many
  BY DEF many
<1>6. IsList(zeros) /\ Len(zeros) = more /\ \A z \in 1..more : zeros[z] = 0
  <2> HIDE DEF more
  <2> QED
    BY <1>3 DEF IsList
<1>7. Filled(dest, read) = read \o zeros
  BY <1>5 DEF Filled
<1> HIDE DEF zeros, more, count
<1>8. /\ Len(read \o zeros) = count
      /\ \A i \in 1..many : (read \o zeros)[i] = read[i]
      /\ \A i \in 1..more : (read \o zeros)[many + i] = 0
  <2>1. /\ Len(read \o zeros) = Len(read) + Len(zeros)
        /\ \A i \in 1..Len(read) : (read \o zeros)[i] = read[i]
        /\ \A i \in 1..Len(zeros) : (read \o zeros)[Len(read) + i] = zeros[i]
    <3> DEFINE s == read
               t == zeros
    <3>1. IsList(s) /\ IsList(t)
      BY <1>5, <1>6
    <3> HIDE DEF s, t
    <3>2. /\ Len(s \o t) = Len(s) + Len(t)
          /\ \A i \in 1..Len(s) : (s \o t)[i] = s[i]
          /\ \A i \in 1..Len(t) : (s \o t)[Len(s) + i] = t[i]
      BY <3>1, Joined
    <3> QED
      BY <3>2 DEF s, t
  <2> QED
    BY <1>3, <1>5, <1>6, <2>1
<1>9. ASSUME NEW z \in 1..count
      PROVE  IF z <= size THEN ReadOrUnsigned((read \o zeros)[z], Content(k)[z], schema[k], dest)
             ELSE (read \o zeros)[z] = 0
  <2>1. CASE z <= size
    <3>1. z \in 1..many
      BY <1>3, <2>1
    <3> QED
      BY <1>4, <1>8, <2>1, <3>1
  <2>2. CASE ~(z <= size)
    <3> DEFINE i == z - many
    <3>1. i \in 1..more /\ many + i = z
      BY <1>3, <2>2
    <3> HIDE DEF i
    <3>2. (read \o zeros)[many + i] = 0
      BY <1>8, <3>1
    <3> QED
      BY <2>2, <3>1, <3>2
  <2> QED
    BY <2>1, <2>2
<1> DEFINE all == read \o zeros
<1>10. Len(all) = count /\ \A z \in 1..count :
         IF z <= schema[k].size THEN ReadOrUnsigned(all[z], Content(k)[z], schema[k], dest)
         ELSE all[z] = 0
  BY <1>8, <1>9 DEF size
<1> HIDE DEF all
<1>11. Returned(all, k, dest)
  BY <1>10 DEF Returned, count
<1> QED
  BY <1>7, <1>11 DEF all

\* A request has the values of a field of its name.
Answered(value, request) ==
    \E k \in 1..Len(schema) : schema[k].name = request.name /\ Returned(value, k, request.dest)

\* All that was found has its values.
ResultInv ==
    access \in {"getting", "got"} =>
        /\ Len(requests) \in Nat /\ \A i \in 1..Len(requests) : requests[i].dest \in Dest
        /\ result = [i \in 1..Len(requests) |-> result[i]]
        /\ found \subseteq 1..Len(requests)
        /\ \A i \in found : Answered(result[i], requests[i])
        /\ access = "got" => found = 1..Len(requests)

LEMMA ResultInit == Init => ResultInv
BY DEF Init, AccessInit, ResultInv

\* What a field is given of does not change with the data.
LEMMA AnsweredStays ==
    ASSUME UNCHANGED <<schema, world>>
    PROVE  \A value, request : Answered(value, request)' <=> Answered(value, request)
<1>1. \A k : Content(k)' = Content(k)
  BY RecordKept
<1>2. \A value, k, dest : Returned(value, k, dest)' <=> Returned(value, k, dest)
  BY <1>1 DEF Returned
<1> QED
  BY <1>2 DEF Answered

LEMMA ResultUntouched ==
    ASSUME ResultInv, UNCHANGED <<schema, world, access, requests, found, result>>
    PROVE  ResultInv'
BY AnsweredStays DEF ResultInv

LEMMA AssignAnswers ==
    ASSUME ResultInv, DataInv, access = "getting", it \in 1..Len(schema),
           NEW i \in Named(it), UNCHANGED <<schema, world, requests>>,
           Inside(it, Wanted(requests[i].dest, it)), Assign(i)
    PROVE  ResultInv'
<1> DEFINE dest == requests[i].dest
           F(z) == ValRead(ElementOf(it, z), schema[it], dest)
           n    == Wanted(dest, it)
           read == [z \in 1..n |-> F(z)]
           bad  == {z \in DOMAIN read : ~read[z].ok}
           numbers == [z \in 1..n |-> F(z).n]
           value   == Filled(dest, numbers)
<1>1. /\ i \in 1..Len(requests) /\ requests[i].name = schema[it].name /\ dest \in Dest
      /\ Len(requests) \in Nat /\ result = [j \in 1..Len(requests) |-> result[j]]
      /\ found \subseteq 1..Len(requests)
  BY DEF ResultInv, Named
<1>2. CASE bad = {}
  <2>1. /\ found' = found \union {i} /\ access' = IF AllFound(found') THEN "got" ELSE access
        /\ result' = [result EXCEPT ![i] = Filled(dest, [z \in DOMAIN read |-> read[z].n])]
    BY <1>2 DEF Assign
  <2>2. [z \in DOMAIN read |-> read[z].n] = numbers
    <3> HIDE DEF F
    <3> QED
      OBVIOUS
  <2>3. \A z \in 1..n : F(z).ok
    <3> HIDE DEF F
    <3> QED
      BY <1>2
  <2>4. Returned(value, it, dest)
    <3>1. Sized /\ n \in Nat /\ schema[it].size # 0
      <4>1. PICK worlds \in Families : world \in worlds
        BY DEF DataInv
      <4>2. it \in 1..Len(world.fields) /\ schema[it] = world.fields[it].field
        BY <4>1, SchemaOfWorld DEF DataInv
      <4>3. schema[it].size \in Nat \ {0}
        BY <4>1, <4>2, WorldsAssumption
      <4>4. dest.count \in Nat
        BY <1>1 DEF Dest
      <4> QED
        BY <4>3, <4>4, DataSized DEF Wanted
    <3>2. IsList(numbers) /\ Len(numbers) = n /\ \A z \in 1..n : numbers[z] = F(z).n
      <4> HIDE DEF n, F
      <4> QED
        BY <3>1 DEF IsList
    <3> DEFINE s == numbers
               k == it
    <3>3. /\ k \in 1..Len(schema) /\ schema[k].size # 0 /\ dest \in Dest
          /\ Inside(k, Wanted(dest, k)) /\ IsList(s) /\ Len(s) = Wanted(dest, k)
          /\ \A z \in 1..Wanted(dest, k) : /\ ValRead(ElementOf(k, z), schema[k], dest).ok
                                          /\ s[z] = ValRead(ElementOf(k, z), schema[k], dest).n
      BY <1>1, <2>3, <3>1, <3>2
    <3> HIDE DEF s, k, dest
    <3>4. Returned(Filled(dest, s), k, dest)
      BY <3>3, FilledReads
    <3> QED
      BY <3>4 DEF s, k
  <2> HIDE DEF value, dest, numbers, read
  <2>5. Answered(value, requests[i])
    BY <1>1, <2>4 DEF Answered, dest
  <2>6. result' = [result EXCEPT ![i] = value]
    BY <2>1, <2>2 DEF value
  <2>7. /\ result'[i] = value /\ \A j \in 1..Len(requests) : j # i => result'[j] = result[j]
        /\ result' = [j \in 1..Len(requests) |-> result'[j]]
    BY <1>1, <2>6
  <2>8. \A j \in found' : Answered(result'[j], requests[j])
    <3>1. ASSUME NEW j \in found' PROVE Answered(result'[j], requests[j])
      <4>1. CASE j = i
        BY <2>5, <2>7, <4>1
      <4>2. CASE j # i
        <5>1. j \in found /\ j \in 1..Len(requests)
          BY <1>1, <2>1, <4>2
        <5>2. result'[j] = result[j]
          BY <2>7, <4>2, <5>1
        <5> QED
          BY <5>1, <5>2 DEF ResultInv
      <4> QED
        BY <4>1, <4>2
    <3> QED
      BY <3>1
  <2>9. \A j \in found' : Answered(result[j], requests[j])'
    BY <2>8, AnsweredStays
  <2>10. access' = "got" => found' = 1..Len(requests)'
    BY <2>1 DEF AllFound
  <2> QED
    BY <1>1, <2>1, <2>7, <2>9, <2>10 DEF ResultInv
<1>3. CASE bad # {}
  <2>1. access' \in {"thrown", "undefined"}
    BY <1>3 DEF Assign, AccessThrows
  <2> QED
    BY <2>1 DEF ResultInv
<1> QED
  BY <1>2, <1>3

LEMMA GetFieldAnswers ==
    ASSUME ResultInv, GetInv, DataInv, GetField, UNCHANGED world
    PROVE  ResultInv'
<1>1. /\ access = "getting" /\ it \in 1..Len(schema) /\ Len(schema) \in Nat
      /\ UNCHANGED <<schema, requests>>
  BY DEF GetField, GetInv
<1>2. CASE access' = "undefined"
  BY <1>2 DEF ResultInv
<1>3. CASE /\ UNCHANGED <<found, result>>
           /\ access' = IF AllFound(found) THEN "got" ELSE access
  <2>1. access' = "got" => found = 1..Len(requests)
    BY <1>1, <1>3 DEF AllFound
  <2> QED
    BY <1>1, <1>3, <2>1, AnsweredStays DEF ResultInv
<1>4. CASE /\ Named(it) # {} /\ Assign(FirstNamed(it))
           /\ Inside(it, Wanted(requests[FirstNamed(it)].dest, it))
  <2>1. FirstNamed(it) \in Named(it)
    <3>1. Named(it) \subseteq Nat
      BY DEF Named
    <3> QED
      BY <1>4, <3>1, MinFacts DEF FirstNamed
  <2> DEFINE i == FirstNamed(it)
  <2>2. i \in Named(it) /\ Inside(it, Wanted(requests[i].dest, it)) /\ Assign(i)
    BY <1>4, <2>1
  <2> HIDE DEF i
  <2> QED
    BY <1>1, <2>2, AssignAnswers
<1> QED
  BY <1>2, <1>3, <1>4 DEF GetField

LEMMA ResultAsk ==
    ASSUME ResultInv, GetInv, Ask
    PROVE  ResultInv'
<1>1. PICK ask \in world.asks :
        \/ ask.call = "get" /\ GetStart(ask.requests)
        \/ ask.call = "name" /\ ByName(ask.name)
        \/ ask.call = "iterate" /\ Begin
  BY DEF Ask
<1>2. CASE ask.call = "get" /\ GetStart(ask.requests)
  <2>1. /\ requests' = ask.requests /\ found' = {} /\ access' = "getting"
        /\ result' = [i \in 1..Len(ask.requests) |-> << >>]
    BY <1>2 DEF GetStart
  <2>2. Len(ask.requests) \in Nat /\ \A i \in 1..Len(ask.requests) : ask.requests[i].dest \in Dest
    BY <1>2, WorldsAssumption DEF GetInv, IsList
  <2>3. result' = [i \in 1..Len(requests') |-> result'[i]]
    BY <2>1
  <2> QED
    BY <2>1, <2>2, <2>3 DEF ResultInv
<1>3. CASE ByName(ask.name) \/ Begin
  <2>1. access' \in {"named", "undefined", "thrown", "iterating"}
    BY <1>3 DEF ByName, Begin, AccessThrows
  <2> QED
    BY <2>1 DEF ResultInv
<1> QED
  BY <1>1, <1>2, <1>3

LEMMA ResultStep ==
    ResultInv /\ GetInv /\ DataInv /\ [Next]_vars => ResultInv'
<1> SUFFICES ASSUME ResultInv, GetInv, DataInv, [Next]_vars PROVE ResultInv'
  OBVIOUS
<1>1. CASE Detect \/ ChooseClient \/ DiscoverArchives \/ OpenMPQ \/ OpenCASC \/ OpenFile
  <2>1. UNCHANGED <<accessVars, world>>
    BY <1>1 DEF Detect, ChooseClient, DiscoverArchives, OpenMPQ, OpenCASC, OpenFile, clientVars
  <2> QED
    BY <2>1, ResultUntouched DEF accessVars, getVars
<1>2. CASE ReadSignature \/ Rewind \/ Dispatch \/ ReadHeader \/ CallSource \/ FirstRow
  <2>1. UNCHANGED <<accessVars, world>>
    BY <1>2 DEF ReadSignature, Rewind, Dispatch, ReadHeader, CallSource, FirstRow
  <2> QED
    BY <2>1, ResultUntouched DEF accessVars, getVars
<1>3. CASE DecodeField
  BY <1>3, ResultUntouched DEF DecodeField, getVars
<1>4. CASE RecordRead \/ AccessEnds
  BY <1>4, ResultUntouched DEF RecordRead, AccessEnds, accessVars, getVars
<1>5. CASE Ask
  BY <1>5, ResultAsk
<1>6. CASE Access
  <2>1. UNCHANGED world
    BY <1>6 DEF Access, clientVars
  <2>2. CASE GetField
    BY <2>1, <2>2, GetFieldAnswers
  <2>3. CASE GetEnd
    BY <2>3 DEF GetEnd, AccessThrows, ResultInv
  <2>4. CASE Iterate
    BY <2>4 DEF Iterate, Dereference, Advance, ResultInv
  <2> QED
    BY <1>6, <2>2, <2>3, <2>4 DEF Access, AccessStep
<1>7. CASE UNCHANGED vars
  BY <1>7, ResultUntouched DEF vars, accessVars, clientVars, getVars
<1> QED
  BY <1>1, <1>2, <1>3, <1>4, <1>5, <1>6, <1>7 DEF Next

(* For any record and any names and types asked for, get<>() returns for   *)
(* each the values of a field of its name, and zeros behind them: each the *)
(* number asked for, except that a signed integer asked for as a float of  *)
(* its size comes without its sign, as NegativeIsLost says.                *)
THEOREM GetReturnsFieldsAlways == Spec => []GetReturnsFields
<1>1. ResultInv => GetReturnsFields
  BY DEF ResultInv, Answered, Returned, GetReturnsFields
<1>2. Init => DataInv /\ GetInv /\ ResultInv
  BY DataInit, GetInit, ResultInit
<1>3. DataInv /\ GetInv /\ ResultInv /\ [Next]_vars => DataInv' /\ GetInv' /\ ResultInv'
  BY DataStep, GetStep, ResultStep
<1> QED
  BY <1>1, <1>2, <1>3, PTL DEF Spec
-----------------------------------------------------------------------------
(* The way to a table, and where it ends.                                  *)

(* A read that gives less and does not throw is one of a CASC source, of a *)
(* library that failed or behind the end; without a failure any read that  *)
(* gives less is behind the end.                                           *)
LEMMA ReadEnds ==
    ASSUME NEW n \in Nat \ {0}, Read(n), failures \in Nat
    PROVE  /\ failures' \in Nat /\ (failures' = 0 => failures = 0)
           /\ UNCHANGED <<source, fileSize>> /\ status' \in {"ok", "thrown"}
           /\ got'.bytes \in 0..n
           /\ got'.bytes = n => status' = "ok" /\ got'.from = handle /\ Within(n)
           /\ got'.bytes < n /\ status' = "ok" => source = "casc" /\ (failures' # 0 \/ Left < n)
           /\ got'.bytes < n /\ failures' = 0 => ~AllGiven(n) \/ Left < n
<1>1. LibraryFails => failures' \in Nat /\ failures' # 0
  BY DEF LibraryFails
<1>2. NotGot.bytes = 0 /\ 0 < n
  BY DEF NotGot
<1>3. CASE ReadMemory(n)
  BY <1>2, <1>3 DEF ReadMemory, Gives, GivesNothing, AllGiven, Read
<1>4. CASE ReadNative(n)
  BY <1>2, <1>4 DEF ReadNative, Gives, GivesNothing, AllGiven, Read
<1>5. CASE ReadMPQ(n)
  BY <1>1, <1>2, <1>5 DEF ReadMPQ, Gives, GivesNothing, AllGiven, Read
<1>6. CASE ReadCASC(n)
  <2>1. source = "casc" /\ UNCHANGED <<source, fileSize>>
    BY <1>6 DEF ReadCASC, Read
  <2>2. CASE Within(n) /\ Gives(n) /\ UNCHANGED failures
    BY <2>1, <2>2 DEF Gives
  <2>3. CASE /\ IF Within(n) THEN LibraryFails ELSE UNCHANGED failures
             /\ GivesNothing("thrown")
    BY <1>1, <1>2, <2>1, <2>3 DEF GivesNothing, AllGiven
  <2>4. CASE \E res \in 0..n - 1 :
                /\ IF Left < n /\ res = Left THEN UNCHANGED failures ELSE LibraryFails
                /\ got' = FirstOf(res, n) /\ status' = "ok"
    <3>1. PICK res \in 0..n - 1 :
                /\ IF Left < n /\ res = Left THEN UNCHANGED failures ELSE LibraryFails
                /\ got' = FirstOf(res, n) /\ status' = "ok"
      BY <2>4
    <3>2. got'.bytes = res
      BY <1>2, <3>1 DEF FirstOf
    <3>3. res \in 0..n /\ res < n /\ res # n
      OBVIOUS
    <3> QED
      BY <1>1, <2>1, <3>1, <3>2, <3>3
  <2> QED
    BY <1>6, <2>2, <2>3, <2>4 DEF ReadCASC
<1> QED
  BY <1>3, <1>4, <1>5, <1>6 DEF Read

LEMMA SetPosEnds ==
    ASSUME NEW p \in Nat, SetPos(p), failures \in Nat
    PROVE  /\ failures' \in Nat /\ (failures' = 0 => failures = 0)
           /\ UNCHANGED <<source, fileSize>> /\ status' \in {"ok", "thrown", "stopped"}
           /\ status' = "ok" => handle' = p /\ (pos' = p \/ fileSize = -1)
           /\ status' # "ok" /\ failures' = 0 => ~(p < fileSize)
<1>1. LibraryFails => failures' \in Nat /\ failures' # 0
  BY DEF LibraryFails
<1> QED
  BY <1>1 DEF SetPos, Sought, Missing
-----------------------------------------------------------------------------
ArchivesHere == Discovered(world.files)

\* The demo has a client, its schema and the directory of its data.
ClientHere == detecting = "done" /\ clients # << >> /\ world.hasSchema

DataHere == ClientHere /\ directory.hasData

\* The table is in an archive, or in the storage.
InArchive ==
    /\ ArchivesHere # {} /\ ArchivesHere \intersect world.broken = {}
    /\ ArchivesHere \intersect world.holds # {}
    /\ version = DemoVersion(clients[1].version)

InStorage == ArchivesHere = {} /\ clients[1].locales # << >> /\ world.casc = "opens"

\* What is known before the header is read: whose it is, and by which way the
\* program has come.
HeaderRight ==
    /\ fileSize = file.size
    /\ reader \in ToSet(Readers) \union {"WDBC"}
    /\ world.start = "source" =>
          (reader = "WDBC" => file.signature = "WDBC" /\ version \in file.versions)
    /\ world.start # "source" =>
          /\ world.start = "detect" /\ DataHere
          /\ reader = "WDBC" => InArchive
          /\ reader # "WDBC" => InStorage
    /\ failures = 0 /\ ~CutOff /\ reader # "WDBC" => reader = file.signature

\* Where a source is read next, as long as no library has failed.
FromStart == handle = 0 /\ (pos = 0 \/ fileSize = -1)

WayInv ==
    /\ \E worlds \in Families : world \in worlds
    /\ failures \in Nat /\ calls \in Nat
    /\ detecting = "thrown" => ~directory.hasData
    /\ stage \in {"detect", "archives", "mpq", "casc"} => world.start = "detect"
    /\ stage = "source" => world.start = "source"
    /\ stage = "archives" => ClientHere
    /\ stage \in {"mpq", "casc"} => DataHere
    /\ stage = "mpq" => order \in Orders(ArchivesHere) /\ ArchivesHere # {}
    /\ stage = "casc" => ArchivesHere = {}
    /\ stage \in {"signature", "rewind", "dispatch"} =>
          /\ fileSize = file.size
          /\ world.start = "source" => file.signature # "WDBC"
          /\ world.start # "source" => world.start = "detect" /\ DataHere /\ InStorage
    /\ stage \in {"rewind", "dispatch"} /\ failures = 0 /\ ~CutOff => signature = file.signature
    /\ stage \in {"signature", "dispatch", "header"} /\ failures = 0 => FromStart
    /\ stage = "header" => HeaderRight
    /\ stage \in {"rows", "decode", "access", "exit0"} /\ world.start \in {"detect", "source"} =>
          Readable /\ reader = file.signature
    /\ stage = "rows" => world.start \in {"detect", "source"}

LEMMA ReaderNames == ToSet(Readers) = {"WDC5", "WDC4", "WDC3", "WDB2"}
<1>1. DOMAIN Readers = 1..4
  BY DEF Readers
<1>2. Readers[1] = "WDC5" /\ Readers[2] = "WDC4" /\ Readers[3] = "WDC3" /\ Readers[4] = "WDB2"
  BY DEF Readers
<1>3. \A i : i \in 1..4 <=> i = 1 \/ i = 2 \/ i = 3 \/ i = 4
  OBVIOUS
<1> QED
  BY <1>1, <1>2, <1>3 DEF ToSet

\* A table is where it is as the world and its directory are.
LEMMA PlaceKept ==
    ASSUME UNCHANGED <<world, directory>>
    PROVE  UNCHANGED <<ClientsOf, Located, Readable, EncryptedRow, ArchivesHere, file>>
<1>1. UNCHANGED ClientsOf
  BY DirectoryKept
<1>2. UNCHANGED <<file, ArchivesHere>>
  BY DEF file, ArchivesHere
<1>3. UNCHANGED Located
  BY <1>1, <1>2 DEF Located, file
<1> QED
  BY <1>1, <1>2, <1>3 DEF Readable, EncryptedRow, file

LEMMA FileNumbers == ASSUME WayInv PROVE file.size \in Nat \union {-1} /\ file.rows \in Nat
<1>1. PICK worlds \in Families : world \in worlds
  BY DEF WayInv
<1> QED
  BY <1>1, WorldsAssumption, SourceAssumption DEF file

LEMMA WayInit == Init => WayInv
<1> SUFFICES ASSUME Init PROVE WayInv
  OBVIOUS
<1>1. PICK worlds \in Families : world \in worlds
  BY DEF Init
<1>2. stage = world.start /\ stage \in {"detect", "source", "decode", "access"}
  BY <1>1, WorldsAssumption DEF Init
<1>3. failures = 0 /\ calls = 0 /\ detecting = "info"
  BY DEF Init, NoSource, DetectInit
<1> QED
  BY <1>1, <1>2, <1>3 DEF WayInv

(* Where a table is located.                                               *)
LEMMA LocatedFacts ==
    ASSUME WayInv, DetectInv
    PROVE  /\ world.start = "source" =>
                 (Located <=> file.size > 0 /\ file.signature # "other")
           /\ world.start # "source" /\ detecting = "done" =>
                 (Located <=> /\ DataHere
                              /\ \/ /\ ArchivesHere # {} /\ ArchivesHere \intersect world.broken = {}
                                    /\ ArchivesHere \intersect world.holds # {}
                                    /\ file.signature = "WDBC"
                                    /\ DemoVersion(clients[1].version) \in file.versions
                                 \/ InStorage /\ file.signature \in ToSet(Readers))
           /\ world.start # "source" /\ ~directory.hasData => ~Located
<1>1. detecting = "done" => clients = ClientsOf
  BY DEF DetectInv, DetectedRight
<1> QED
  BY <1>1 DEF Located, DataHere, ClientHere, InStorage, ArchivesHere

LEMMA CalledEnds ==
    ASSUME NEW s, Called(s), status' \in {"ok", "thrown", "stopped"}
    PROVE  stage' = IF status' = "ok" THEN s ELSE IF status' = "thrown" THEN "exit1" ELSE "stopped"
BY DEF Called, Go

(* A sort has all archives, and none only if there are none.               *)
LEMMA OrderFacts ==
    ASSUME NEW D, IsFiniteSet(D), NEW ord \in Orders(D)
    PROVE  /\ ToSet(ord) = D /\ (ord = << >> <=> D = {})
           /\ \A holds : FirstWith(ord, holds) = {} <=> D \intersect holds = {}
<1>1. ord \in [1..Cardinality(D) -> D] /\ Cardinality(D) \in Nat
  BY FS_CardinalityType DEF Orders
<1>2. \A f \in D : \E k \in 1..Cardinality(D) : ord[k] = f
  BY OrderHasAll
<1>3. ToSet(ord) = D
  BY <1>1, <1>2 DEF ToSet
<1>4. ord = << >> <=> D = {}
  <2>1. ord \in Seq(D) /\ Len(ord) = Cardinality(D)
    BY <1>1
  <2>2. ord = << >> <=> Len(ord) = 0
    BY <2>1, EmptySeq
  <2>3. Cardinality(D) = 0 <=> D = {}
    BY FS_EmptySet
  <2> QED
    BY <2>1, <2>2, <2>3
<1>5. ASSUME NEW holds PROVE FirstWith(ord, holds) = {} <=> D \intersect holds = {}
  <2> DEFINE having == {k \in DOMAIN ord : ord[k] \in holds}
  <2>1. FirstWith(ord, holds) = {} <=> having = {}
    BY DEF FirstWith
  <2>2. having = {} <=> D \intersect holds = {}
    BY <1>1, <1>2
  <2> QED
    BY <2>1, <2>2
<1> QED
  BY <1>3, <1>4, <1>5

LEMMA ArchivesFinite == ASSUME WayInv PROVE IsFiniteSet(ArchivesHere)
<1>1. PICK worlds \in Families : world \in worlds
  BY DEF WayInv
<1>2. IsFiniteSet(world.files)
  BY <1>1, WorldsAssumption
<1>3. ArchivesHere \subseteq world.files
  BY DEF ArchivesHere, Discovered
<1> QED
  BY <1>2, <1>3, FS_Subset

LEMMA WayFound ==
    ASSUME WayInv, DetectInv, Detect \/ ChooseClient \/ DiscoverArchives
    PROVE  WayInv'
<1>1. UNCHANGED <<world, failures, calls, directory, ArchivesHere>>
  <2>1. UNCHANGED <<world, failures, calls, directory>>
    BY DEF Detect, DetectStep, ReadInfoLine, BuildFileEnds, FilesystemHints, ChooseClient,
           DiscoverArchives, sourceVars, clientVars, infoVars
  <2> QED
    BY <2>1 DEF ArchivesHere
<1>2. CASE Detect
  <2>1. stage' = "detect" /\ stage = "detect" /\ DetectStep
    BY <1>2 DEF Detect, clientVars
  <2>2. detecting' = "thrown" => ~directory.hasData
    BY <2>1 DEF DetectStep, ReadInfoLine, BuildFileEnds, FilesystemHints, WayInv
  <2> QED
    BY <1>1, <2>1, <2>2 DEF WayInv
<1>3. CASE ChooseClient
  <2>1. /\ stage = "detect" /\ stage' \in {"exit1", "archives"}
        /\ UNCHANGED <<detecting, clients>> /\ detecting \in {"done", "thrown"}
        /\ stage' = "archives" => detecting # "thrown" /\ clients # << >> /\ world.hasSchema
    BY <1>3 DEF ChooseClient, Go, infoVars
  <2> QED
    BY <1>1, <2>1 DEF WayInv, ClientHere
<1>4. CASE DiscoverArchives
  <2>1. /\ stage = "archives" /\ stage' \in {"exit1", "casc", "mpq"}
        /\ UNCHANGED <<detecting, clients>>
        /\ stage' # "exit1" =>
              /\ directory.hasData /\ order' \in Orders(ArchivesHere)
              /\ stage' = IF order' = << >> THEN "casc" ELSE "mpq"
    BY <1>4 DEF DiscoverArchives, Go, infoVars, ArchivesHere
  <2>2. stage' # "exit1" => (order' = << >> <=> ArchivesHere = {})
    BY <2>1, ArchivesFinite, OrderFacts
  <2>3. DataHere' <=> ClientHere /\ directory.hasData
    BY <1>1, <2>1 DEF DataHere, ClientHere
  <2> QED
    BY <1>1, <2>1, <2>2, <2>3 DEF WayInv
<1> QED
  BY <1>2, <1>3, <1>4

LEMMA WayOpened ==
    ASSUME WayInv, DetectInv, OpenMPQ \/ OpenCASC \/ OpenFile
    PROVE  WayInv'
<1>1. UNCHANGED <<world, failures, calls, directory, clients, detecting>>
  BY DEF OpenMPQ, OpenCASC, OpenFile, OpenSource, sourceVars, infoVars
<1>2. UNCHANGED <<ArchivesHere, file, DataHere>>
  BY <1>1 DEF ArchivesHere, file, DataHere, ClientHere
<1>3. \A kind : OpenSource(kind, file.size) => fileSize' = file.size /\ FromStart'
  BY DEF OpenSource, FromStart, Failed
<1>4. CASE OpenMPQ
  <2>1. /\ stage = "mpq" /\ stage' \in {"exit1", "undefined", "header"}
        /\ reader' = "WDBC" /\ version' = DemoVersion(clients[1].version)
        /\ stage' = "header" =>
              /\ ToSet(order) \intersect world.broken = {}
              /\ FirstWith(order, world.holds) # {} /\ OpenSource("mpq", file.size)
    BY <1>4 DEF OpenMPQ, Go
  <2>2. CASE stage' # "header"
    BY <1>1, <2>1, <2>2 DEF WayInv
  <2>3. CASE stage' = "header"
    <3>1. order \in Orders(ArchivesHere) /\ ArchivesHere # {} /\ DataHere /\ world.start = "detect"
      BY <2>1 DEF WayInv
    <3>2. ToSet(order) = ArchivesHere /\ ArchivesHere \intersect world.holds # {}
      BY <2>1, <2>3, <3>1, ArchivesFinite, OrderFacts
    <3>3. InArchive'
      BY <1>1, <1>2, <2>1, <2>3, <3>1, <3>2 DEF InArchive
    <3>4. HeaderRight'
      BY <1>1, <1>2, <1>3, <2>1, <2>3, <3>1, <3>3 DEF HeaderRight
    <3> QED
      BY <1>1, <1>2, <1>3, <2>1, <2>3, <3>4 DEF WayInv
  <2> QED
    BY <2>2, <2>3
<1>5. CASE OpenCASC
  <2>1. /\ stage = "casc" /\ stage' \in {"exit1", "undefined", "signature"}
        /\ stage' = "signature" =>
              /\ clients[1].locales # << >> /\ world.casc \notin {"absent", "error", "nothing"}
              /\ OpenSource("casc", file.size)
    BY <1>5 DEF OpenCASC, Go
  <2>2. CASE stage' # "signature"
    BY <1>1, <2>1, <2>2 DEF WayInv
  <2>3. CASE stage' = "signature"
    <3>1. PICK worlds \in Families : world \in worlds
      BY DEF WayInv
    <3>2. world.casc = "opens"
      BY <2>1, <2>3, <3>1, WorldsAssumption
    <3>3. InStorage' /\ DataHere /\ world.start = "detect"
      BY <1>1, <1>2, <2>1, <2>3, <3>2 DEF InStorage, WayInv
    <3> QED
      BY <1>1, <1>2, <1>3, <2>1, <2>3, <3>3 DEF WayInv
  <2> QED
    BY <2>2, <2>3
<1>6. CASE OpenFile
  <2>1. /\ stage = "source" /\ OpenSource(world.kind, file.size)
        /\ reader' = IF file.signature = "WDBC" THEN "WDBC" ELSE "none"
        /\ version' \in file.versions
        /\ stage' = IF reader' = "WDBC" THEN "header" ELSE "signature"
    BY <1>6 DEF OpenFile, Go
  <2>2. world.start = "source"
    BY <2>1 DEF WayInv
  <2>3. stage' = "header" => HeaderRight'
    BY <1>1, <1>2, <1>3, <2>1, <2>2 DEF HeaderRight
  <2> QED
    BY <1>1, <1>2, <1>3, <2>1, <2>2, <2>3 DEF WayInv
<1> QED
  BY <1>4, <1>5, <1>6

(* At the start of a table what is left is the whole file.                 *)
LEMMA CutShort ==
    ASSUME WayInv, stage \in {"signature", "header"}, failures = 0, NEW n \in {1, 2}, Left < n
    PROVE  file.size < 2
<1>1. FromStart /\ fileSize = file.size /\ file.size \in Nat \union {-1}
  BY FileNumbers DEF WayInv, HeaderRight
<1> QED
  BY <1>1 DEF FromStart, Left

LEMMA WaySignature ==
    ASSUME WayInv, ReadSignature \/ Rewind \/ Dispatch
    PROVE  WayInv'
<1>1. UNCHANGED <<world, calls, directory, clients, detecting, version>> /\ failures \in Nat
  BY DEF ReadSignature, Rewind, Dispatch, infoVars, WayInv
<1>2. UNCHANGED <<ArchivesHere, file, DataHere, InStorage>>
  BY <1>1 DEF ArchivesHere, file, DataHere, ClientHere, InStorage
<1>3. CASE ReadSignature
  <2>1. /\ stage = "signature" /\ Read(1) /\ Called("rewind")
        /\ ~(got'.bytes < 1) => signature' = file.signature
    BY <1>3 DEF ReadSignature
  <2>2. /\ failures' \in Nat /\ (failures' = 0 => failures = 0) /\ UNCHANGED <<source, fileSize>>
        /\ status' \in {"ok", "thrown"}
        /\ got'.bytes < 1 /\ status' = "ok" => source = "casc" /\ (failures' # 0 \/ Left < 1)
    BY <1>1, <2>1, ReadEnds
  <2>3. stage' \in {"rewind", "exit1"} /\ (stage' = "rewind" => status' = "ok")
    BY <2>1, <2>2, CalledEnds
  <2>4. failures = 0 /\ source = "casc" /\ Left < 1 => CutOff'
    BY <1>2, <2>1, <2>2, CutShort DEF CutOff
  <2>5. stage' = "rewind" /\ failures' = 0 /\ ~CutOff' => signature' = file.signature
    BY <2>1, <2>2, <2>3, <2>4
  <2> QED
    BY <1>1, <1>2, <2>1, <2>2, <2>3, <2>5 DEF WayInv
<1>4. CASE Rewind
  <2>1. stage = "rewind" /\ SetPos(0) /\ Called("dispatch") /\ UNCHANGED signature
    BY <1>4 DEF Rewind, BackToStart
  <2>2. /\ failures' \in Nat /\ (failures' = 0 => failures = 0) /\ UNCHANGED <<source, fileSize>>
        /\ status' \in {"ok", "thrown", "stopped"}
        /\ status' = "ok" => handle' = 0 /\ (pos' = 0 \/ fileSize = -1)
    BY <1>1, <2>1, SetPosEnds
  <2>3. /\ stage' \in {"dispatch", "exit1", "stopped"}
        /\ stage' = "dispatch" => status' = "ok"
    BY <2>1, <2>2, CalledEnds
  <2>4. (stage' = "dispatch" => FromStart') /\ UNCHANGED CutOff
    BY <1>2, <2>2, <2>3 DEF FromStart, CutOff
  <2> QED
    BY <1>1, <1>2, <2>1, <2>2, <2>3, <2>4 DEF WayInv
<1>5. CASE Dispatch
  <2>1. /\ stage = "dispatch" /\ UNCHANGED <<sourceVars, signature>>
        /\ \/ /\ signature \in ToSet(Readers) /\ reader' = signature /\ stage' = "header"
           \/ stage' \in {"unread", "undefined"}
    BY <1>5 DEF Dispatch, Go
  <2>2. UNCHANGED <<failures, fileSize, FromStart, CutOff>>
    BY <1>2, <2>1 DEF sourceVars, FromStart, CutOff
  <2>3. CASE stage' = "header" /\ signature \in ToSet(Readers) /\ reader' = signature
    <3>1. reader' # "WDBC"
      BY <2>3, ReaderNames
    <3>2. HeaderRight'
      BY <1>2, <1>1, <2>1, <2>2, <2>3, <3>1 DEF HeaderRight, WayInv
    <3> QED
      BY <1>1, <1>2, <2>1, <2>2, <2>3, <3>2 DEF WayInv
  <2>4. CASE stage' \in {"unread", "undefined"}
    BY <1>1, <2>2, <2>4 DEF WayInv
  <2> QED
    BY <2>1, <2>3, <2>4
<1> QED
  BY <1>3, <1>4, <1>5

(* A header that is taken for one is that of the table, at the start of it. *)
LEMMA HeaderTaken ==
    ASSUME WayInv, DetectInv, ReadHeader, stage' = "rows"
    PROVE  Readable /\ reader = file.signature /\ world.start \in {"detect", "source"}
<1> DEFINE read  == IF got'.from = 0 THEN file.signature ELSE "other"
           suits == read = reader /\ file.suits /\ (reader = "WDBC" => version \in file.versions)
<1>1. stage = "header" /\ Read(2) /\ HeaderRight /\ failures \in Nat
  BY DEF ReadHeader, WayInv
<1>2. /\ status' \in {"ok", "thrown"}
      /\ got'.bytes = 2 => got'.from = handle /\ Within(2)
  BY <1>1, ReadEnds
<1>3. got'.bytes = 2 /\ Called(IF suits THEN "rows" ELSE "exit1")
  <2>1. Called("exit1") => stage' # "rows"
    BY <1>2, CalledEnds
  <2>2. Called("undefined") => stage' # "rows"
    BY <1>2, CalledEnds
  <2> QED
    BY <2>1, <2>2 DEF ReadHeader
<1>4. suits
  <2>1. ~suits => Called("exit1")
    BY <1>3
  <2>2. Called("exit1") => stage' # "rows"
    BY <1>2, CalledEnds
  <2> QED
    BY <2>1, <2>2
<1>5. reader # "other" /\ (reader = "WDBC" <=> reader \notin ToSet(Readers))
  BY <1>1, ReaderNames DEF HeaderRight
<1>6. got'.from = 0 /\ reader = file.signature /\ file.suits
  BY <1>4, <1>5
<1>7. file.size >= 2
  BY <1>1, <1>2, <1>3, <1>6 DEF HeaderRight, Within
<1>8. Located
  <2>1. CASE world.start = "source"
    <3>1. file.size > 0
      BY <1>7, FileNumbers
    <3> QED
      BY <1>5, <1>6, <2>1, <3>1, LocatedFacts
  <2>2. CASE world.start # "source"
    <3>1. /\ DataHere /\ detecting = "done"
          /\ reader = "WDBC" => InArchive
          /\ reader # "WDBC" => InStorage
      BY <1>1, <2>2 DEF HeaderRight, DataHere, ClientHere
    <3>2. CASE reader = "WDBC"
      BY <1>4, <1>6, <2>2, <3>1, <3>2, LocatedFacts DEF InArchive
    <3>3. CASE reader # "WDBC"
      BY <1>5, <1>6, <2>2, <3>1, <3>3, LocatedFacts
    <3> QED
      BY <3>2, <3>3
  <2> QED
    BY <2>1, <2>2
<1> QED
  BY <1>1, <1>6, <1>7, <1>8 DEF Readable, HeaderRight

LEMMA WayHeader ==
    ASSUME WayInv, DetectInv, ReadHeader
    PROVE  WayInv'
<1>1. UNCHANGED <<world, calls, directory, detecting, reader>> /\ failures' \in Nat
  <2>1. Read(2) /\ failures \in Nat
    BY DEF ReadHeader, WayInv
  <2> QED
    BY <2>1, ReadEnds DEF ReadHeader, infoVars
<1>2. UNCHANGED <<Readable, file>>
  BY <1>1, PlaceKept
<1>3. stage' \in {"rows", "exit1", "undefined", "stopped"}
  <2>1. Read(2) /\ failures \in Nat
    BY DEF ReadHeader, WayInv
  <2>2. status' \in {"ok", "thrown", "stopped"}
    BY <2>1, ReadEnds
  <2>3. \A s \in {"rows", "exit1", "undefined"} : Called(s) => stage' \in {s, "exit1", "stopped"}
    BY <2>2, CalledEnds
  <2>4. \A suits : (IF suits THEN "rows" ELSE "exit1") \in {"rows", "exit1", "undefined"}
    OBVIOUS
  <2>5. PICK s \in {"rows", "exit1", "undefined"} : Called(s)
    BY <2>4 DEF ReadHeader
  <2> QED
    BY <2>3, <2>5
<1>4. stage' = "rows" => Readable /\ reader = file.signature /\ world.start \in {"detect", "source"}
  BY HeaderTaken
<1> QED
  BY <1>1, <1>2, <1>3, <1>4 DEF WayInv

LEMMA WayRows ==
    ASSUME WayInv, CallSource \/ FirstRow \/ DecodeField \/ RecordRead \/ Ask \/ Access \/ AccessEnds
    PROVE  WayInv'
<1>1. UNCHANGED <<world, directory, detecting, reader>>
  BY DEF CallSource, FirstRow, DecodeField, RecordRead, Ask, Access, AccessEnds, infoVars, clientVars
<1>2. UNCHANGED <<Readable, file>>
  BY <1>1, PlaceKept
<1>3. CASE CallSource
  <2>1. stage = "rows" /\ calls' = calls + 1 /\ failures \in Nat /\ calls \in Nat
    BY <1>3 DEF CallSource, WayInv
  <2>2. failures' \in Nat /\ status' \in {"ok", "thrown", "stopped"}
    <3>1. ASSUME NEW p \in 0..file.size, SetPos(p)
          PROVE  failures' \in Nat /\ status' \in {"ok", "thrown", "stopped"}
      <4>1. p \in Nat
        BY FileNumbers
      <4> QED
        BY <2>1, <3>1, <4>1, SetPosEnds
    <3>2. ASSUME NEW n \in 1..2, Read(n)
          PROVE  failures' \in Nat /\ status' \in {"ok", "thrown", "stopped"}
      BY <2>1, <3>2, ReadEnds
    <3> QED
      BY <1>3, <3>1, <3>2 DEF CallSource
  <2>3. Called("rows")
    BY <1>3 DEF CallSource
  <2>4. stage' \in {"rows", "exit1", "stopped"}
    BY <2>2, <2>3, CalledEnds
  <2> QED
    BY <1>1, <1>2, <2>1, <2>2, <2>4 DEF WayInv
<1>4. CASE FirstRow \/ DecodeField \/ RecordRead \/ Ask \/ Access \/ AccessEnds
  <2>1. UNCHANGED <<failures, calls>>
    BY <1>4 DEF FirstRow, DecodeField, RecordRead, Ask, Access, AccessEnds, sourceVars, clientVars
  <2>2. CASE FirstRow
    <3>1. stage = "rows" /\ stage' \in {"exit0", "access", "decode"}
      BY <2>2 DEF FirstRow, Go
    <3> QED
      BY <1>1, <1>2, <2>1, <3>1 DEF WayInv
  <2>3. CASE DecodeField \/ RecordRead
    <3>1. stage = "decode" /\ stage' \in {"exit1", "access", "decode"}
      BY <2>3 DEF DecodeField, RecordRead, Go
    <3> QED
      BY <1>1, <1>2, <2>1, <3>1 DEF WayInv
  <2>4. CASE Ask \/ Access \/ AccessEnds
    <3>1. stage = "access" /\ stage' \in {"access", "exit0", "exit1", "undefined"}
      BY <2>4, RecordStays DEF AccessEnds, Go
    <3> QED
      BY <1>1, <1>2, <2>1, <3>1 DEF WayInv
  <2> QED
    BY <1>4, <2>2, <2>3, <2>4
<1> QED
  BY <1>3, <1>4

LEMMA WayStep == WayInv /\ DetectInv /\ [Next]_vars => WayInv'
<1> SUFFICES ASSUME WayInv, DetectInv, [Next]_vars PROVE WayInv'
  OBVIOUS
<1>1. CASE UNCHANGED vars
  <2>1. UNCHANGED <<infoVars, sourceVars, clientVars>>
    BY <1>1 DEF vars
  <2>2. UNCHANGED <<world, directory, detecting, clients, failures, calls, stage, order, signature,
                    source, fileSize, handle, pos, reader, version>>
    BY <2>1 DEF infoVars, sourceVars, clientVars
  <2>3. UNCHANGED <<Readable, file, ArchivesHere>>
    BY <2>2, PlaceKept
  <2>4. UNCHANGED <<ClientHere, DataHere, InArchive, InStorage, FromStart, CutOff>>
    BY <2>2, <2>3 DEF ClientHere, DataHere, InArchive, InStorage, FromStart, CutOff
  <2>5. UNCHANGED HeaderRight
    BY <2>2, <2>3, <2>4 DEF HeaderRight
  <2> QED
    BY <2>2, <2>3, <2>4, <2>5 DEF WayInv
<1> QED
  BY <1>1, WayFound, WayOpened, WaySignature, WayHeader, WayRows DEF Next
-----------------------------------------------------------------------------
(* What a program reads that it must not.                                  *)

\* The record made by hand ends before its schema does.
EndsEarly == world.start = "access" /\ Len(data) < Elements(Len(schema))

\* Why an accessor leaves its data or casts what does not fit.
Undecoded == world.start \in {"detect", "source"} /\ EncryptedRow

Amiss == Undecoded \/ FloatMisfit \/ EndsEarly

\* Only an encrypted record is asked for without all of its fields.
WholeRecord ==
    stage = "access" /\ world.start # "access" /\ decoded # Len(schema) => Undecoded

(* An undefined cast is that of a float.                                   *)
LEMMA UndefinedFacts ==
    ASSUME NEW value, NEW field, NEW dest \in Dest,
           ~ValRead(value, field, dest).ok, ValRead(value, field, dest).why = "undefined"
    PROVE  value.kind = "float" /\ dest.kind \in {"int", "enum"} /\ ~Fits(value.n, dest)
<1> DEFINE sign == TakesSign(value, field, dest)
           n    == IF sign THEN Signed(value.n, value.bytes) ELSE value.n
<1>1. /\ ValRead(value, field, dest) = Cast(n, value, dest)
      /\ ~Cast(n, value, dest).ok
  <2>1. Refused("type").why # "undefined" /\ Refused("overflow").why # "undefined"
    BY DEF Refused
  <2>2. ValRead(value, field, dest) \in {Refused("type"), Refused("overflow"), Cast(n, value, dest)}
    BY DEF ValRead
  <2> QED
    BY <2>1, <2>2
<1>2. \A m : Given(m).ok
  BY DEF Given
<1>3. dest.kind \in {"int", "float", "string", "enum"}
  BY DEF Dest, Kinds
<1>4. value.kind = "float" /\ dest.kind \in {"int", "enum"} /\ n \notin MinOf(dest)..MaxOf(dest)
  BY <1>1, <1>2, <1>3 DEF Cast
<1>5. ~sign
  BY <1>4 DEF TakesSign
<1> QED
  BY <1>3, <1>4, <1>5 DEF Fits

(* What a field holds is of its kind.                                      *)
LEMMA ContentKind ==
    ASSUME DataInv, NEW k \in 1..Len(schema), NEW z \in 1..schema[k].size
    PROVE  Content(k)[z].kind = ValueKind(schema[k])
<1>1. PICK worlds \in Families : world \in worlds
  BY DEF DataInv
<1>2. Len(schema) = Len(world.fields) /\ schema[k] = world.fields[k].field
  BY <1>1, SchemaOfWorld DEF DataInv
<1>3. CASE world.start = "access"
  <2>1. AsMade(world)
    BY <1>1, <1>3, WorldsAssumption
  <2>2. IsValue(world.content[k][z], schema[k])
    BY <1>2, <2>1 DEF AsMade
  <2> QED
    BY <1>3, <2>2 DEF Content, IsValue
<1>4. CASE world.start # "access"
  BY <1>2, <1>4 DEF Content, DecodedField
<1> QED
  BY <1>3, <1>4

LEMMA FieldSizes ==
    ASSUME DataInv, NEW k \in 1..Len(schema)
    PROVE  /\ schema[k].size \in Nat \ {0} /\ Offsets[k] \in Nat
           /\ Offsets[k] + schema[k].size <= Elements(Len(schema))
<1>1. PICK worlds \in Families : world \in worlds
  BY DEF DataInv
<1>2. Sized /\ Len(schema) = Len(world.fields) /\ schema[k] = world.fields[k].field
  BY <1>1, SchemaOfWorld DEF DataInv
<1>3. schema[k].size \in Nat \ {0}
  BY <1>1, <1>2, WorldsAssumption
<1>4. Len(schema) \in Nat /\ Len(schema) # 0 /\ Len(schema) \in 1..Len(schema)
  BY <1>2 DEF Sized
<1>5. Elements(Len(schema)) = Offsets[Len(schema)] + schema[Len(schema)].size
  BY <1>4 DEF Elements
<1>6. /\ Offsets[k] \in Nat /\ Offsets[Len(schema)] \in Nat /\ schema[Len(schema)].size \in Nat
      /\ k < Len(schema) => Offsets[k] + schema[k].size <= Offsets[Len(schema)]
  BY <1>2, <1>4, OffsetsGrow DEF Sized
<1>7. k = Len(schema) \/ k < Len(schema)
  BY <1>4
<1> HIDE DEF Elements
<1>8. CASE k = Len(schema)
  BY <1>3, <1>5, <1>6, <1>8
<1>9. CASE k < Len(schema)
  BY <1>3, <1>5, <1>6, <1>9
<1> QED
  BY <1>7, <1>8, <1>9

(* A record that has not all of a field was made by hand, or is encrypted. *)
LEMMA OutsideIsAmiss ==
    ASSUME DataInv, WholeRecord, stage = "access", NEW k \in 1..Len(schema),
           ~Inside(k, schema[k].size)
    PROVE  Undecoded \/ EndsEarly
<1>1. /\ schema[k].size \in Nat \ {0} /\ Offsets[k] \in Nat
      /\ Offsets[k] + schema[k].size <= Elements(Len(schema))
  BY FieldSizes
<1>2. Len(data) \in Nat /\ ~(Offsets[k] + schema[k].size <= Len(data))
  BY DEF DataInv, IsList, Inside
<1>3. CASE world.start = "access"
  <2>1. Len(data) < Elements(Len(schema)) \/ Elements(Len(schema)) \notin Int
    BY <1>1, <1>2
  <2>2. Elements(Len(schema)) \in Int
    <3>1. Len(schema) \in Nat /\ Len(schema) \in 1..Len(schema)
      BY DataSized DEF Sized
    <3>2. Elements(Len(schema)) = Offsets[Len(schema)] + schema[Len(schema)].size
      BY <3>1 DEF Elements
    <3>3. Offsets[Len(schema)] \in Nat /\ schema[Len(schema)].size \in Nat
      BY <3>1, FieldSizes
    <3> QED
      BY <3>2, <3>3
  <2> QED
    BY <1>3, <2>1, <2>2 DEF EndsEarly
<1>4. CASE world.start # "access"
  <2>1. Len(data) = Elements(decoded)
    BY <1>4 DEF DataInv
  <2>2. decoded # Len(schema)
    BY <1>1, <1>2, <2>1
  <2> QED
    BY <1>4, <2>2 DEF WholeRecord
<1> QED
  BY <1>3, <1>4

LEMMA AssignAmiss ==
    ASSUME DataInv, ResultInv, access = "getting", it \in 1..Len(schema), NEW i \in Named(it),
           Inside(it, Wanted(requests[i].dest, it)), Assign(i), access' = "undefined"
    PROVE  FloatMisfit
<1> DEFINE dest == requests[i].dest
           n    == Wanted(dest, it)
           F(z) == ValRead(ElementOf(it, z), schema[it], dest)
           read == [z \in 1..n |-> F(z)]
           bad  == {z \in DOMAIN read : ~read[z].ok}
<1>1. i \in 1..Len(requests) /\ requests[i].name = schema[it].name /\ dest \in Dest
  BY DEF ResultInv, Named
<1>2. schema[it].size \in Nat \ {0} /\ Offsets[it] \in Nat
  BY FieldSizes
<1>3. n \in Nat /\ n <= schema[it].size
  <2>1. dest.count \in Nat
    BY <1>1 DEF Dest
  <2> QED
    BY <1>2, <2>1 DEF Wanted
<1>4. bad # {} /\ read[Min(bad)].why = "undefined"
  <2>1. Assign(i) => \/ access' \in {"got", access}
                     \/ /\ bad # {}
                        /\ IF read[Min(bad)].why = "undefined" THEN access' = "undefined"
                           ELSE access' = "thrown"
    BY DEF Assign, AccessThrows
  <2> HIDE DEF bad, read
  <2> QED
    BY <2>1
<1>5. Min(bad) \in bad
  <2>1. bad \subseteq Nat
    BY <1>3
  <2> HIDE DEF bad
  <2> QED
    BY <1>4, <2>1, MinFacts
<1> DEFINE z == Min(bad)
<1>6. z \in 1..n /\ ~F(z).ok /\ F(z).why = "undefined"
  <2>1. \A y \in bad : y \in 1..n /\ read[y] = F(y) /\ ~read[y].ok
    OBVIOUS
  <2> HIDE DEF bad, read, F
  <2> QED
    BY <1>4, <1>5, <2>1
<1> HIDE DEF z, bad, read
<1>7. /\ ElementOf(it, z).kind = "float" /\ dest.kind \in {"int", "enum"}
      /\ ~Fits(ElementOf(it, z).n, dest)
  BY <1>1, <1>6, UndefinedFacts
<1>8. z \in 1..schema[it].size /\ ElementOf(it, z) = Content(it)[z]
  <2>1. z \in 1..schema[it].size
    BY <1>2, <1>3, <1>6
  <2>2. Offsets[it] + z <= Len(data)
    <3>1. Offsets[it] + n <= Len(data) /\ Len(data) \in Nat
      BY DEF Inside, DataInv, IsList
    <3> HIDE DEF n
    <3> QED
      BY <1>2, <1>3, <1>6, <3>1
  <2> QED
    BY <2>1, <2>2 DEF DataInv, DataRight, ElementOf
<1>9. schema[it].type = "FLOAT"
  BY <1>7, <1>8, ContentKind DEF ValueKind
<1> HIDE DEF n
<1> QED
  BY <1>1, <1>7, <1>8, <1>9 DEF FloatMisfit

LEMMA GetFieldAmiss ==
    ASSUME DataInv, GetInv, ResultInv, WholeRecord, stage = "access", GetField,
           access' = "undefined"
    PROVE  Amiss
<1> DEFINE needed == IF Named(it) = {} THEN 1 ELSE Wanted(requests[FirstNamed(it)].dest, it)
<1>1. access = "getting" /\ it \in 1..Len(schema) /\ Len(schema) \in Nat
  BY DEF GetField, GetInv
<1>2. schema[it].size \in Nat \ {0} /\ Offsets[it] \in Nat
  BY <1>1, FieldSizes
<1>3. Named(it) # {} => FirstNamed(it) \in Named(it) /\ requests[FirstNamed(it)].dest \in Dest
  <2>1. Named(it) \subseteq Nat /\ Named(it) \subseteq 1..Len(requests)
    BY DEF Named
  <2>2. Named(it) # {} => FirstNamed(it) \in Named(it)
    BY <2>1, MinFacts DEF FirstNamed
  <2> QED
    BY <1>1, <2>1, <2>2 DEF ResultInv
<1>4. needed \in Nat /\ needed <= schema[it].size
  <2>1. Named(it) # {} => requests[FirstNamed(it)].dest.count \in Nat
    BY <1>3 DEF Dest
  <2> QED
    BY <1>2, <2>1 DEF Wanted
<1> HIDE DEF needed
<1>5. CASE ~Inside(it, needed)
  <2>1. Len(data) \in Nat
    BY DEF DataInv, IsList
  <2>2. ~Inside(it, schema[it].size)
    BY <1>2, <1>4, <1>5, <2>1 DEF Inside
  <2> QED
    BY <1>1, <2>2, OutsideIsAmiss DEF Amiss
<1>6. CASE Inside(it, needed)
  <2>1. Named(it) # {} /\ Assign(FirstNamed(it))
    BY <1>1, <1>6 DEF GetField, needed
  <2>2. Inside(it, Wanted(requests[FirstNamed(it)].dest, it))
    BY <1>6, <2>1 DEF needed
  <2> QED
    BY <1>1, <1>3, <2>1, <2>2, AssignAmiss DEF Amiss
<1> QED
  BY <1>5, <1>6

LEMMA IterateAmiss ==
    ASSUME DataInv, GivesInv, WholeRecord, stage = "access", Iterate, access' = "undefined"
    PROVE  Amiss
<1>1. PICK name \in {"it", "old"} : Dereference(name)
  BY DEF Iterate, Advance
<1> DEFINE k == iterators[name].index
<1>2. k \in 1..Len(schema) /\ ~Inside(k, schema[k].size)
  <2>1. access = "iterating" /\ k <= Len(schema) /\ ~Inside(k, schema[k].size)
    BY <1>1 DEF Dereference
  <2>2. k \in 0..Len(schema) + 1 /\ k # 0 /\ Len(schema) \in Nat
    BY <2>1, DataSized DEF GivesInv
  <2> HIDE DEF k
  <2> QED
    BY <2>1, <2>2
<1> HIDE DEF k
<1> QED
  BY <1>2, OutsideIsAmiss DEF Amiss

LEMMA ByNameAmiss ==
    ASSUME DataInv, WholeRecord, stage = "access", NEW name, ByName(name), access' = "undefined"
    PROVE  Amiss
<1> DEFINE k == NameIndex(name)
<1>1. Fields(name) # {} /\ ~Inside(k, schema[k].size)
  BY DEF ByName, AccessThrows
<1>2. Fields(name) \subseteq 1..Len(schema) /\ Fields(name) \subseteq Nat
  BY DEF Fields
<1>3. k \in Fields(name)
  BY <1>1, <1>2, MinFacts DEF NameIndex
<1> HIDE DEF k
<1> QED
  BY <1>1, <1>2, <1>3, OutsideIsAmiss DEF Amiss

\* What is amiss in a record stays so.
LEMMA AmissKept ==
    ASSUME UNCHANGED <<world, directory, schema, data, requests>>
    PROVE  UNCHANGED <<Undecoded, FloatMisfit, EndsEarly, Amiss>>
<1>1. UNCHANGED Undecoded
  BY PlaceKept DEF Undecoded
<1>2. \A k : Content(k)' = Content(k) /\ Elements(k)' = Elements(k)
  BY RecordKept
<1>3. UNCHANGED FloatMisfit
  BY <1>2 DEF FloatMisfit
<1>4. UNCHANGED EndsEarly
  BY <1>2 DEF EndsEarly
<1> QED
  BY <1>1, <1>3, <1>4 DEF Amiss

(* An accessor is undefined only where something is amiss.                 *)
LEMMA AccessAmiss ==
    ASSUME DataInv, GetInv, ResultInv, GivesInv, WholeRecord, access = "undefined" => Amiss,
           Ask \/ Access, UNCHANGED directory
    PROVE  access' = "undefined" => Amiss'
<1> SUFFICES ASSUME access' = "undefined" PROVE Amiss'
  OBVIOUS
<1>1. UNCHANGED <<schema, world, data, decoded>> /\ stage = "access"
  BY RecordStays
<1>2. ASSUME UNCHANGED requests, Amiss PROVE Amiss'
  BY <1>1, <1>2, AmissKept
<1>3. CASE Ask
  <2>1. PICK ask \in world.asks :
          \/ ask.call = "get" /\ GetStart(ask.requests)
          \/ ask.call = "name" /\ ByName(ask.name)
          \/ ask.call = "iterate" /\ Begin
    BY <1>3 DEF Ask
  <2>2. ByName(ask.name)
    BY <2>1 DEF GetStart, Begin
  <2>3. UNCHANGED requests
    BY <2>2 DEF ByName
  <2>4. Amiss
    BY <1>1, <2>2, ByNameAmiss
  <2> QED
    BY <1>2, <2>3, <2>4
<1>4. CASE Access
  <2>1. UNCHANGED requests
    BY <1>4 DEF Access, AccessStep, GetField, GetEnd, Iterate, Dereference, Advance, getVars
  <2>2. CASE GetField
    BY <1>1, <1>2, <2>1, <2>2, GetFieldAmiss
  <2>3. CASE GetEnd
    BY <2>3 DEF GetEnd, AccessThrows
  <2>4. CASE Iterate
    BY <1>1, <1>2, <2>1, <2>4, IterateAmiss
  <2> QED
    BY <1>4, <2>2, <2>3, <2>4 DEF Access, AccessStep
<1> QED
  BY <1>3, <1>4
-----------------------------------------------------------------------------
(* Where a program ends.                                                   *)

EndsWell ==
    /\ world.start \in {"detect", "source"}
    /\ stage \in {"exit1", "undefined", "unread", "stopped"} /\ failures = 0 /\ calls = 0 /\ Readable
    => EncryptedRow \/ AskedAmiss

EndsInv ==
    /\ WholeRecord
    /\ access = "undefined" => Amiss
    /\ EndsWell
    /\ UndefinedOnly

LEMMA EndsInit == Init => EndsInv
<1> SUFFICES ASSUME Init PROVE EndsInv
  OBVIOUS
<1>1. PICK worlds \in Families : world \in worlds
  BY DEF Init
<1>2. stage = world.start /\ stage \in {"detect", "source", "decode", "access"}
  BY <1>1, WorldsAssumption DEF Init
<1>3. access = "idle"
  BY DEF Init, AccessInit
<1> QED
  BY <1>2, <1>3 DEF EndsInv, WholeRecord, EndsWell, UndefinedOnly

\* The ways a program goes on or ends before it asks for its record.
LEMMA EndsNot ==
    ASSUME access' # "undefined",
           stage' \notin {"access", "exit1", "undefined", "unread", "stopped"}
    PROVE  EndsInv'
BY DEF EndsInv, WholeRecord, EndsWell, UndefinedOnly

LEMMA EndsFor ==
    ASSUME access' # "undefined", stage' \in {"exit1", "unread", "stopped"},
           failures' # 0 \/ calls' # 0 \/ ~Readable'
    PROVE  EndsInv'
BY DEF EndsInv, WholeRecord, EndsWell, UndefinedOnly

LEMMA EndsUndefined ==
    ASSUME access' # "undefined", stage' = "undefined",
           \/ failures' \in Nat \ {0}
           \/ CutOff' /\ ~Readable'
           \/ world'.start = "detect" /\ ~Located'
    PROVE  EndsInv'
BY DEF EndsInv, WholeRecord, EndsWell, UndefinedOnly, Readable

\* Before its record a program asks for nothing.
LEMMA NothingAsked ==
    ASSUME IteratorInv, stage \notin {"access", "exit0", "exit1", "undefined"}, UNCHANGED access
    PROVE  access' # "undefined"
BY DEF IteratorInv, NotAsked

LEMMA EndsFound ==
    ASSUME WayInv, DetectInv, IteratorInv, Detect \/ ChooseClient \/ DiscoverArchives
    PROVE  EndsInv'
<1>1. UNCHANGED <<world, directory, access>>
  BY DEF Detect, DetectStep, ReadInfoLine, BuildFileEnds, FilesystemHints, ChooseClient,
         DiscoverArchives, accessVars, clientVars, infoVars
<1>2. /\ stage \in {"detect", "archives"}
      /\ stage' \in {"detect", "exit1", "archives", "casc", "mpq"}
  BY DEF Detect, ChooseClient, DiscoverArchives, Go, clientVars
<1>3. access' # "undefined"
  BY <1>1, <1>2, NothingAsked
<1>4. CASE stage' # "exit1"
  BY <1>2, <1>3, <1>4, EndsNot
<1>5. CASE stage' = "exit1"
  <2>1. world.start # "source"
    BY <1>2 DEF WayInv
  <2>2. ~Located
    <3>1. CASE ChooseClient
      <4>1. detecting \in {"done", "thrown"}
            /\ (detecting = "thrown" \/ clients = << >> \/ ~world.hasSchema)
        BY <1>5, <3>1 DEF ChooseClient, Go
      <4>2. CASE detecting = "thrown"
        BY <2>1, <4>2, LocatedFacts DEF WayInv
      <4>3. CASE detecting = "done"
        <5>1. ~DataHere
          BY <4>1, <4>3 DEF DataHere, ClientHere
        <5>2. InStorage /\ DataHere => FALSE
          BY <5>1
        <5> QED
          BY <2>1, <4>3, <5>1, LocatedFacts
      <4> QED
        BY <4>1, <4>2, <4>3
    <3>2. CASE DiscoverArchives
      <4>1. ~directory.hasData
        BY <1>5, <3>2 DEF DiscoverArchives, Go
      <4> QED
        BY <2>1, <4>1, LocatedFacts
    <3>3. CASE Detect
      <4>1. stage' = "detect"
        BY <3>3 DEF Detect, clientVars
      <4> QED
        BY <1>5, <4>1
    <3> QED
      BY <3>1, <3>2, <3>3
  <2>3. ~Readable'
    BY <1>1, <2>2, PlaceKept DEF Readable
  <2> QED
    BY <1>3, <1>5, <2>3, EndsFor
<1> QED
  BY <1>4, <1>5

LEMMA EndsOpened ==
    ASSUME WayInv, DetectInv, IteratorInv, OpenMPQ \/ OpenCASC \/ OpenFile
    PROVE  EndsInv'
<1>1. UNCHANGED <<world, directory, access>>
  BY DEF OpenMPQ, OpenCASC, OpenFile, accessVars, infoVars
<1>2. /\ stage \in {"mpq", "casc", "source"}
      /\ stage' \in {"exit1", "undefined", "header", "signature"}
  BY DEF OpenMPQ, OpenCASC, OpenFile, Go
<1>3. access' # "undefined"
  BY <1>1, <1>2, NothingAsked
<1>4. CASE stage' \in {"header", "signature"}
  BY <1>3, <1>4, EndsNot
<1>5. CASE stage' \in {"exit1", "undefined"}
  <2>1. ~OpenFile
    BY <1>5 DEF OpenFile, Go
  <2>2. stage \in {"mpq", "casc"}
    BY <2>1 DEF OpenMPQ, OpenCASC
  <2>3. world.start = "detect" /\ DataHere /\ detecting = "done"
    BY <2>2 DEF WayInv, DataHere, ClientHere
  <2>4. ~Located
    <3>1. CASE OpenMPQ
      <4>1. /\ stage = "mpq"
            /\ \/ ToSet(order) \intersect world.broken # {}
               \/ FirstWith(order, world.holds) = {}
        BY <1>5, <3>1 DEF OpenMPQ, Go
      <4>2. order \in Orders(ArchivesHere) /\ ArchivesHere # {}
        BY <4>1 DEF WayInv
      <4>3. \/ ArchivesHere \intersect world.broken # {}
            \/ ArchivesHere \intersect world.holds = {}
        BY <4>1, <4>2, ArchivesFinite, OrderFacts
      <4>4. ~InStorage
        BY <4>2 DEF InStorage
      <4> QED
        BY <2>3, <4>3, <4>4, LocatedFacts
    <3>2. CASE OpenCASC
      <4>1. /\ stage = "casc"
            /\ clients[1].locales = << >> \/ world.casc # "opens"
        BY <1>5, <3>2 DEF OpenCASC, Go
      <4>2. ArchivesHere = {}
        BY <4>1 DEF WayInv
      <4>3. ~InStorage
        BY <4>1 DEF InStorage
      <4> QED
        BY <2>3, <4>2, <4>3, LocatedFacts
    <3> QED
      BY <2>1, <3>1, <3>2
  <2>5. ~Located' /\ ~Readable' /\ world'.start = "detect"
    BY <1>1, <2>3, <2>4, PlaceKept DEF Readable
  <2>6. CASE stage' = "exit1"
    BY <1>3, <2>5, <2>6, EndsFor
  <2>7. CASE stage' = "undefined"
    BY <1>3, <2>5, <2>7, EndsUndefined
  <2> QED
    BY <1>5, <2>6, <2>7
<1> QED
  BY <1>2, <1>4, <1>5

(* From the start of a table a read fails only if it is too short.         *)
LEMMA StartIsRead ==
    ASSUME WayInv, stage \in {"signature", "header"}, failures = 0, NEW n \in {1, 2},
           ~AllGiven(n) \/ Left < n
    PROVE  ~Readable
<1>1. FromStart /\ fileSize = file.size
  BY DEF WayInv, HeaderRight
<1>2. ~(file.size >= 2)
  <2>1. file.size \in Nat \union {-1}
    BY FileNumbers
  <2>2. CASE ~AllGiven(n)
    BY <1>1, <2>1, <2>2 DEF FromStart, AllGiven, Within, Failed
  <2>3. CASE Left < n
    BY <2>1, <2>3, CutShort
  <2> QED
    BY <2>2, <2>3
<1> QED
  BY <1>2 DEF Readable

LEMMA EndsSignature ==
    ASSUME WayInv, DetectInv, IteratorInv, ReadSignature \/ Rewind \/ Dispatch
    PROVE  EndsInv'
<1>1. UNCHANGED <<world, directory, access>> /\ failures \in Nat
  BY DEF ReadSignature, Rewind, Dispatch, accessVars, infoVars, WayInv
<1>2. stage \in {"signature", "rewind", "dispatch"}
  BY DEF ReadSignature, Rewind, Dispatch
<1>3. access' # "undefined"
  BY <1>1, <1>2, NothingAsked
<1>4. UNCHANGED <<Located, Readable>>
  BY <1>1, PlaceKept
<1>5. CASE ReadSignature
  <2>1. stage = "signature" /\ Read(1) /\ Called("rewind")
    BY <1>5 DEF ReadSignature
  <2>2. /\ failures' = 0 => failures = 0
        /\ status' \in {"ok", "thrown"}
        /\ status' = "thrown" /\ failures' = 0 => ~AllGiven(1) \/ Left < 1
    <3>1. /\ failures' = 0 => failures = 0
          /\ status' \in {"ok", "thrown"}
          /\ got'.bytes \in 0..1 /\ (got'.bytes = 1 => status' = "ok")
          /\ got'.bytes < 1 /\ failures' = 0 => ~AllGiven(1) \/ Left < 1
      BY <1>1, <2>1, ReadEnds
    <3> QED
      BY <3>1
  <2>3. stage' = IF status' = "ok" THEN "rewind" ELSE "exit1"
    BY <2>1, <2>2, CalledEnds
  <2>4. CASE status' = "ok"
    BY <1>3, <2>3, <2>4, EndsNot
  <2>5. CASE status' = "thrown"
    <3>1. failures' # 0 \/ ~Readable
      BY <2>1, <2>2, <2>5, StartIsRead
    <3> QED
      BY <1>3, <1>4, <2>3, <2>5, <3>1, EndsFor
  <2> QED
    BY <2>2, <2>4, <2>5
<1>6. CASE Rewind
  <2>1. stage = "rewind" /\ SetPos(0) /\ Called("dispatch") /\ fileSize = file.size
    BY <1>6 DEF Rewind, BackToStart, WayInv
  <2>2. /\ status' \in {"ok", "thrown", "stopped"}
        /\ status' # "ok" /\ failures' = 0 => ~(0 < fileSize)
    BY <1>1, <2>1, SetPosEnds
  <2>3. status' # "ok" => stage' \in {"exit1", "stopped"}
    BY <2>1, <2>2, CalledEnds
  <2>4. CASE status' = "ok"
    <3>1. stage' = "dispatch"
      BY <2>1, <2>2, <2>4, CalledEnds
    <3> QED
      BY <1>3, <3>1, EndsNot
  <2>5. CASE status' # "ok"
    <3>1. failures' # 0 \/ ~Readable
      BY <2>1, <2>2, <2>5, FileNumbers DEF Readable
    <3> QED
      BY <1>3, <1>4, <2>3, <2>5, <3>1, EndsFor
  <2> QED
    BY <2>4, <2>5
<1>7. CASE Dispatch
  <2>1. /\ stage = "dispatch" /\ UNCHANGED <<failures, sourceVars>>
        /\ \/ stage' = "header"
           \/ /\ signature \notin ToSet(Readers)
              /\ stage' = IF world.start = "source" THEN "unread" ELSE "undefined"
    BY <1>7 DEF Dispatch, Go, sourceVars
  <2>2. failures = 0 /\ ~CutOff => signature = file.signature
    BY <2>1 DEF WayInv
  <2>6. CutOff => ~Readable
    BY FileNumbers DEF CutOff, Readable
  <2>7. UNCHANGED CutOff
    BY <1>1, <2>1 DEF CutOff, sourceVars, file
  <2>3. CASE stage' = "header"
    BY <1>3, <2>3, EndsNot
  <2>4. CASE signature \notin ToSet(Readers) /\ world.start = "source" /\ stage' = "unread"
    <3>1. PICK worlds \in Families : world \in worlds
      BY DEF WayInv
    <3>2. file.signature \in ToSet(Readers) \union {"WDBC", "other"}
      BY <3>1, WorldsAssumption DEF file, Signatures
    <3>3. file.signature # "WDBC"
      BY <2>1, <2>4 DEF WayInv
    <3>4. failures = 0 => ~Readable
      BY <2>2, <2>4, <2>6, <3>2, <3>3, LocatedFacts DEF Readable
    <3> QED
      BY <1>3, <1>4, <2>1, <2>4, <3>4, EndsFor
  <2>5. CASE signature \notin ToSet(Readers) /\ world.start # "source" /\ stage' = "undefined"
    <3>1. world.start = "detect" /\ DataHere /\ detecting = "done" /\ ArchivesHere = {}
      BY <2>1, <2>5 DEF WayInv, DataHere, ClientHere, InStorage
    <3>2. failures = 0 /\ ~CutOff => ~Located
      BY <2>2, <2>5, <3>1, LocatedFacts
    <3>3. \/ failures' \in Nat \ {0}
          \/ CutOff' /\ ~Readable'
          \/ world'.start = "detect" /\ ~Located'
      BY <1>1, <1>4, <2>1, <2>6, <2>7, <3>1, <3>2
    <3> QED
      BY <1>3, <2>5, <3>3, EndsUndefined
  <2> QED
    BY <2>1, <2>3, <2>4, <2>5
<1> QED
  BY <1>5, <1>6, <1>7

(* As long as no library fails, the header of a table is taken.            *)
LEMMA HeaderRefused ==
    ASSUME WayInv, DetectInv, ReadHeader, stage' # "rows", failures' = 0
    PROVE  ~Readable
<1> DEFINE read  == IF got'.from = 0 THEN file.signature ELSE "other"
           suits == read = reader /\ file.suits /\ (reader = "WDBC" => version \in file.versions)
<1>1. stage = "header" /\ Read(2) /\ HeaderRight /\ failures \in Nat
  BY DEF ReadHeader, WayInv
<1>2. /\ failures = 0 /\ status' \in {"ok", "thrown"}
      /\ got'.bytes \in 0..2
      /\ got'.bytes = 2 => status' = "ok" /\ got'.from = handle
      /\ got'.bytes < 2 => ~AllGiven(2) \/ Left < 2
  BY <1>1, ReadEnds
<1>3. CASE got'.bytes < 2
  BY <1>1, <1>2, <1>3, StartIsRead
<1>4. CASE got'.bytes = 2
  <2>1. Called(IF suits THEN "rows" ELSE "exit1") /\ status' = "ok"
    BY <1>2, <1>4 DEF ReadHeader
  <2>2. ~suits
    BY <2>1, CalledEnds
  <2>3. FromStart
    BY <1>1, <1>2 DEF WayInv
  <2>4. read = file.signature
    BY <1>2, <1>4, <2>3 DEF FromStart
  <2>5. CASE reader # "WDBC"
    <3>1. CutOff => ~Readable
      BY FileNumbers DEF CutOff, Readable
    <3>2. ~CutOff => reader = file.signature
      BY <1>1, <1>2, <2>5 DEF HeaderRight
    <3> QED
      BY <2>2, <2>4, <2>5, <3>1, <3>2 DEF Readable
  <2>6. CASE reader = "WDBC" /\ world.start = "source"
    BY <1>1, <2>2, <2>4, <2>6 DEF HeaderRight, Readable
  <2>7. CASE reader = "WDBC" /\ world.start # "source"
    <3>1. /\ detecting = "done" /\ ArchivesHere # {}
          /\ version = DemoVersion(clients[1].version)
      BY <1>1, <2>7 DEF HeaderRight, InArchive, DataHere, ClientHere
    <3>2. Located => file.signature = "WDBC" /\ version \in file.versions
      BY <2>7, <3>1, LocatedFacts DEF InStorage
    <3> QED
      BY <2>2, <2>4, <2>7, <3>2 DEF Readable
  <2> QED
    BY <2>5, <2>6, <2>7
<1> QED
  BY <1>2, <1>3, <1>4

LEMMA EndsHeader ==
    ASSUME WayInv, DetectInv, IteratorInv, ReadHeader
    PROVE  EndsInv'
<1>1. UNCHANGED <<world, directory, access>> /\ stage = "header" /\ Read(2) /\ failures \in Nat
  BY DEF ReadHeader, accessVars, infoVars, WayInv
<1>2. access' # "undefined"
  BY <1>1, NothingAsked
<1>3. UNCHANGED Readable
  BY <1>1, PlaceKept
<1>4. /\ failures' \in Nat /\ status' \in {"ok", "thrown", "stopped"}
      /\ got'.bytes < 2 /\ status' = "ok" => failures' # 0 \/ (CutOff' /\ ~Readable')
  <2>1. /\ failures' \in Nat /\ status' \in {"ok", "thrown"} /\ (failures' = 0 => failures = 0)
        /\ UNCHANGED source
        /\ got'.bytes < 2 /\ status' = "ok" => source = "casc" /\ (failures' # 0 \/ Left < 2)
    BY <1>1, ReadEnds
  <2>2. failures = 0 /\ Left < 2 => file.size < 2
    BY <1>1, CutShort
  <2>3. UNCHANGED file
    BY <1>1 DEF file
  <2>4. file.size < 2 => ~Readable
    BY FileNumbers DEF Readable
  <2> QED
    BY <1>3, <2>1, <2>2, <2>3, <2>4 DEF CutOff
<1>5. \/ stage' \in {"rows", "exit1", "stopped"}
      \/ stage' = "undefined" /\ got'.bytes < 2 /\ status' = "ok"
  <2>1. \A s \in {"rows", "exit1"} : Called(s) => stage' \in {s, "exit1", "stopped"}
    BY <1>4, CalledEnds
  <2>2. Called("undefined") => stage' \in {"exit1", "stopped"} \/ (stage' = "undefined" /\ status' = "ok")
    BY <1>4, CalledEnds
  <2>3. \A suits : (IF suits THEN "rows" ELSE "exit1") \in {"rows", "exit1"}
    OBVIOUS
  <2>4. \/ \E s \in {"rows", "exit1"} : Called(s)
        \/ got'.bytes < 2 /\ Called("undefined")
    BY <2>3 DEF ReadHeader
  <2> QED
    BY <2>1, <2>2, <2>4
<1>6. CASE stage' = "rows"
  BY <1>2, <1>6, EndsNot
<1>7. CASE stage' \in {"exit1", "stopped"}
  <2>1. failures' = 0 => ~Readable
    BY <1>7, HeaderRefused
  <2> QED
    BY <1>2, <1>3, <1>7, <2>1, EndsFor
<1>8. CASE stage' = "undefined"
  <2>1. failures' \in Nat \ {0} \/ (CutOff' /\ ~Readable')
    BY <1>4, <1>5, <1>8
  <2> QED
    BY <1>2, <1>8, <2>1, EndsUndefined
<1> QED
  BY <1>5, <1>6, <1>7, <1>8

LEMMA EndsRows ==
    ASSUME WayInv, DataInv, IteratorInv, CallSource \/ FirstRow \/ DecodeField \/ RecordRead
    PROVE  EndsInv'
<1>1. UNCHANGED <<world, directory, access, schema, requests>> /\ stage \in {"rows", "decode"}
  BY DEF CallSource, FirstRow, DecodeField, RecordRead, accessVars, infoVars, getVars
<1>2. access' # "undefined"
  BY <1>1, NothingAsked
<1>3. UNCHANGED <<EncryptedRow, file>>
  BY <1>1, PlaceKept
<1>4. CASE CallSource
  <2>1. calls' # 0 /\ Called("rows")
    BY <1>4 DEF CallSource, WayInv
  <2>2. status' \in {"ok", "thrown", "stopped"}
    <3>1. PICK n : SetPos(n) \/ Read(n)
      BY <1>4 DEF CallSource
    <3> QED
      BY <3>1, CallEnds
  <2>3. stage' \in {"rows", "exit1", "stopped"}
    BY <2>1, <2>2, CalledEnds
  <2> QED
    BY <1>2, <2>1, <2>3, EndsNot, EndsFor
<1>5. CASE FirstRow
  <2>1. /\ stage = "rows" /\ stage' \in {"exit0", "access", "decode"}
        /\ stage' = "access" => file.rows # 0 /\ file.encrypted /\ reader # "WDBC"
    BY <1>5 DEF FirstRow, Go
  <2>2. CASE stage' = "access"
    <3>1. world.start \in {"detect", "source"} /\ reader = file.signature
      BY <2>1 DEF WayInv
    <3>2. EncryptedRow
      BY <2>1, <2>2, <3>1, FileNumbers DEF EncryptedRow
    <3>3. Undecoded'
      BY <1>1, <1>3, <3>1, <3>2 DEF Undecoded
    <3> QED
      BY <1>2, <2>2, <3>3 DEF EndsInv, WholeRecord, EndsWell, UndefinedOnly
  <2>3. CASE stage' # "access"
    BY <1>2, <2>1, <2>3, EndsNot
  <2> QED
    BY <2>2, <2>3
<1>6. CASE DecodeField
  <2>1. \/ stage' = "decode"
        \/ stage' = "exit1" /\ decoded < Len(schema) /\ ~Handled(schema[decoded + 1])
    BY <1>6 DEF DecodeField, Go
  <2>2. CASE stage' = "decode"
    BY <1>2, <2>2, EndsNot
  <2>3. CASE stage' = "exit1" /\ decoded < Len(schema) /\ ~Handled(schema[decoded + 1])
    <3>1. decoded + 1 \in 1..Len(schema)
      BY <2>3, DataSized DEF DataInv
    <3>2. AskedAmiss'
      BY <1>1, <2>3, <3>1 DEF AskedAmiss
    <3> QED
      BY <1>2, <2>3, <3>2 DEF EndsInv, WholeRecord, EndsWell, UndefinedOnly
  <2> QED
    BY <2>1, <2>2, <2>3
<1>7. CASE RecordRead
  <2>1. stage' = "access" /\ decoded' = Len(schema')
    BY <1>1, <1>7 DEF RecordRead, Go
  <2> QED
    BY <1>2, <2>1 DEF EndsInv, WholeRecord, EndsWell, UndefinedOnly
<1> QED
  BY <1>4, <1>5, <1>6, <1>7

LEMMA EndsAccess ==
    ASSUME EndsInv, DataInv, GetInv, ResultInv, GivesInv, Ask \/ Access
    PROVE  EndsInv'
<1>1. UNCHANGED <<schema, world, data, decoded>> /\ stage = "access" /\ stage' = "access"
  BY RecordStays
<1>2. UNCHANGED directory
  BY DEF Ask, Access, infoVars
<1>3. access' = "undefined" => Amiss'
  BY <1>1, <1>2, AccessAmiss DEF EndsInv
<1>4. UNCHANGED Undecoded
  BY <1>1, <1>2, PlaceKept DEF Undecoded
<1> QED
  BY <1>1, <1>3, <1>4 DEF EndsInv, WholeRecord, EndsWell, UndefinedOnly

LEMMA EndsAccessEnds ==
    ASSUME EndsInv, AccessEnds
    PROVE  EndsInv'
<1>1. /\ UNCHANGED <<world, directory, schema, data, requests, access>>
      /\ stage' \in {"exit0", "exit1", "undefined"}
      /\ stage' = "exit1" => access = "thrown"
      /\ stage' = "undefined" => access = "undefined"
  BY DEF AccessEnds, Go, accessVars, infoVars, getVars
<1>2. UNCHANGED <<Undecoded, FloatMisfit, EndsEarly, Amiss, EncryptedRow>>
  BY <1>1, AmissKept, PlaceKept
<1>3. access' = "undefined" => Amiss'
  BY <1>1, <1>2 DEF EndsInv
<1>4. EndsWell'
  <2>1. CASE stage' = "exit1"
    BY <1>1, <2>1 DEF EndsWell, AskedAmiss
  <2>2. CASE stage' = "undefined"
    BY <1>1, <1>3, <2>2 DEF EndsWell, AskedAmiss, Amiss, Undecoded, EndsEarly
  <2>3. CASE stage' = "exit0"
    BY <2>3 DEF EndsWell
  <2> QED
    BY <1>1, <2>1, <2>2, <2>3
<1>5. UndefinedOnly'
  BY <1>1, <1>3 DEF UndefinedOnly, Amiss, Undecoded, EndsEarly
<1>6. WholeRecord'
  BY <1>1 DEF WholeRecord
<1> QED
  BY <1>3, <1>4, <1>5, <1>6 DEF EndsInv

LEMMA EndsStep ==
    /\ EndsInv /\ WayInv /\ DetectInv /\ DataInv /\ GetInv /\ IteratorInv /\ ResultInv /\ GivesInv
    /\ [Next]_vars
    => EndsInv'
<1> SUFFICES ASSUME EndsInv, WayInv, DetectInv, DataInv, GetInv, IteratorInv, ResultInv, GivesInv,
                    [Next]_vars
             PROVE  EndsInv'
  OBVIOUS
<1>1. CASE UNCHANGED vars
  <2>1. UNCHANGED <<world, directory, schema, data, requests, access, stage, decoded, failures, calls>>
    BY <1>1 DEF vars, accessVars, infoVars, getVars, clientVars, sourceVars
  <2>2. UNCHANGED <<Undecoded, FloatMisfit, EndsEarly, Amiss, EncryptedRow, Readable, Located>>
    BY <2>1, AmissKept, PlaceKept
  <2>3. \A k : Elements(k)' = Elements(k)
    BY <2>1, RecordKept
  <2>4. UNCHANGED AskedAmiss
    BY <2>1, <2>2 DEF AskedAmiss
  <2>5. WholeRecord' /\ EndsWell' /\ (access' = "undefined" => Amiss')
    BY <2>1, <2>2, <2>4 DEF EndsInv, WholeRecord, EndsWell
  <2>6. UNCHANGED CutOff
    BY <1>1 DEF vars, clientVars, sourceVars, CutOff, file
  <2>7. UndefinedOnly'
    BY <2>1, <2>2, <2>3, <2>6 DEF EndsInv, UndefinedOnly
  <2> QED
    BY <2>5, <2>7 DEF EndsInv
<1>2. CASE Detect \/ ChooseClient \/ DiscoverArchives \/ OpenMPQ \/ OpenCASC \/ OpenFile
  BY <1>2, EndsFound, EndsOpened
<1>3. CASE ReadSignature \/ Rewind \/ Dispatch \/ ReadHeader
  BY <1>3, EndsSignature, EndsHeader
<1>4. CASE CallSource \/ FirstRow \/ DecodeField \/ RecordRead
  BY <1>4, EndsRows
<1>5. CASE Ask \/ Access \/ AccessEnds
  BY <1>5, EndsAccess, EndsAccessEnds
<1> QED
  BY <1>1, <1>2, <1>3, <1>4, <1>5 DEF Next

ProgramInv ==
    EndsInv /\ WayInv /\ DetectInv /\ DataInv /\ GetInv /\ IteratorInv /\ ResultInv /\ GivesInv

LEMMA ProgramInvariant == Spec => []ProgramInv
<1>1. Init => ProgramInv
  BY EndsInit, WayInit, DetectInvInit, DataInit, GetInit, IteratorInit, ResultInit, GivesInit
     DEF ProgramInv
<1>2. ProgramInv /\ [Next]_vars => ProgramInv'
  BY EndsStep, WayStep, DetectInvStep, DataStep, GetStep, IteratorStep, ResultStep, GivesStep
     DEF ProgramInv
<1> QED
  BY <1>1, <1>2, PTL DEF Spec

(* Of any installation and with any failures of the libraries, no other    *)
(* table is taken for the one that is there, by another reader than its    *)
(* own, and without a failure the program that finds it ends well.         *)
THEOREM OpensTableAlways == Spec => []OpensTable
<1>1. ProgramInv => OpensTable
  BY DEF ProgramInv, WayInv, EndsInv, EndsWell, OpensTable
<1> QED
  BY <1>1, ProgramInvariant, PTL

(* Whatever a program reads that it must not has one of the causes that    *)
(* are named, for any installation, failures, records and requests.        *)
THEOREM UndefinedOnlyAlways == Spec => []UndefinedOnly
<1>1. ProgramInv => UndefinedOnly
  BY DEF ProgramInv, EndsInv
<1> QED
  BY <1>1, ProgramInvariant, PTL
-----------------------------------------------------------------------------
(* The types of what a program has.                                        *)

\* The answers of a get<>() are as many as its requests, and an iterator ends
\* behind the last field.
AnswerTypes ==
    /\ access \in {"idle", "getting", "got", "thrown", "named", "iterating", "undefined"}
    /\ IsList(requests) /\ result = [i \in 1..Len(requests) |-> result[i]]
    /\ found \subseteq 1..Len(requests)
    /\ DOMAIN iterators = {"it", "old"}
    /\ \A name \in {"it", "old"} : iterators[name].index \in 0..Len(schema) + 1

ProgramTypes ==
    /\ stage \in Later \union {"detect", "archives", "mpq", "casc", "source"}
    /\ signature \in Signatures \union {"none"}
    /\ reader \in ToSet(Readers) \union {"WDBC", "none"}
    /\ calls \in 0..world.calls

LEMMA AnswerTypesInit == Init => AnswerTypes
<1> SUFFICES ASSUME Init PROVE AnswerTypes
  OBVIOUS
<1>1. /\ access = "idle" /\ requests = << >> /\ result = << >> /\ found = {}
      /\ iterators = [name \in {"it", "old"} |-> [index |-> 0, loaded |-> 0, val |-> << >>]]
  BY DEF Init, AccessInit, NoIterator
<1>2. Len(schema) \in Nat
  BY GetInit DEF GetInv
<1> QED
  BY <1>1, <1>2 DEF AnswerTypes, IsList

LEMMA AnswersKept ==
    ASSUME AnswerTypes, UNCHANGED <<schema, access, requests, found, result, iterators>>
    PROVE  AnswerTypes'
BY DEF AnswerTypes, IsList

LEMMA AnswerField ==
    ASSUME AnswerTypes, GetField
    PROVE  AnswerTypes'
<1>1. UNCHANGED <<schema, requests, iterators>> /\ access = "getting"
  BY DEF GetField, iterVars
<1>2. CASE access' \in {"undefined", "thrown", "got", "getting"} /\ UNCHANGED <<found, result>>
  BY <1>1, <1>2 DEF AnswerTypes, IsList
<1>3. CASE Named(it) # {} /\ Assign(FirstNamed(it))
  <2> DEFINE i == FirstNamed(it)
  <2>1. i \in 1..Len(requests)
    <3>1. Named(it) \subseteq Nat
      BY DEF Named
    <3> QED
      BY <1>3, <3>1, MinFacts DEF FirstNamed, Named
  <2>2. PICK value :
          \/ UNCHANGED <<found, result>> /\ access' \in {"undefined", "thrown"}
          \/ /\ found' = found \union {i} /\ result' = [result EXCEPT ![i] = value]
             /\ access' \in {"got", "getting"}
    BY <1>1, <1>3 DEF Assign, AccessThrows
  <2> HIDE DEF i
  <2>3. CASE found' = found \union {i} /\ result' = [result EXCEPT ![i] = value]
             /\ access' \in {"got", "getting"}
    <3>1. result = [j \in 1..Len(requests) |-> result[j]]
      BY DEF AnswerTypes
    <3>2. result' = [j \in 1..Len(requests) |-> result'[j]]
      BY <2>3, <3>1
    <3> QED
      BY <1>1, <2>1, <2>3, <3>2 DEF AnswerTypes, IsList
  <2> QED
    BY <1>2, <2>2, <2>3
<1>4. CASE Named(it) = {} /\ access' = (IF AllFound(found) THEN "got" ELSE access)
           /\ UNCHANGED <<found, result>>
  BY <1>1, <1>2, <1>4
<1>5. CASE access' = "undefined" /\ UNCHANGED <<found, result>>
  BY <1>2, <1>5
<1> QED
  BY <1>3, <1>4, <1>5 DEF GetField

LEMMA AnswerIterate ==
    ASSUME AnswerTypes, Iterate, Len(schema) \in Nat
    PROVE  AnswerTypes'
<1>1. /\ UNCHANGED <<schema, requests, result, found>> /\ access' \in {"iterating", "undefined"}
  BY DEF Iterate, Dereference, Advance, getVars
<1>2. /\ DOMAIN iterators' = {"it", "old"}
      /\ \A name \in {"it", "old"} : iterators'[name].index \in 0..Len(schema) + 1
  <2>1. CASE \E name \in {"it", "old"} : Dereference(name)
    <3>1. PICK name \in {"it", "old"} : Dereference(name)
      BY <2>1
    <3>2. PICK val :
            \/ UNCHANGED iterators
            \/ iterators' = [iterators EXCEPT ![name] =
                   [index |-> iterators[name].index, loaded |-> iterators[name].index, val |-> val]]
      BY <3>1 DEF Dereference, iterVars
    <3> QED
      BY <3>2 DEF AnswerTypes
  <2>2. CASE \E postfix \in BOOLEAN : Advance(postfix)
    <3> DEFINE i == iterators["it"]
    <3>1. PICK postfix \in BOOLEAN :
            /\ iterators' = [iterators EXCEPT !["it"].index = @ + 1,
                                              !["old"] = IF postfix THEN i ELSE @]
            /\ i.index <= Len(schema)
      BY <2>2 DEF Advance
    <3>2. i.index \in 0..Len(schema) + 1 /\ i.index + 1 \in 0..Len(schema) + 1
      BY <3>1 DEF AnswerTypes
    <3>3. /\ DOMAIN iterators' = {"it", "old"}
          /\ iterators'["it"] = [i EXCEPT !.index = i.index + 1]
          /\ iterators'["old"] \in {i, iterators["old"]}
      BY <3>1 DEF AnswerTypes
    <3>4. iterators'["it"].index = i.index + 1 \/ iterators'["it"].index = i.index
      BY <3>3
    <3> QED
      BY <3>2, <3>3, <3>4 DEF AnswerTypes
  <2> QED
    BY <2>1, <2>2 DEF Iterate
<1> QED
  BY <1>1, <1>2 DEF AnswerTypes, IsList

LEMMA AnswerAsk ==
    ASSUME AnswerTypes, GetInv, Ask
    PROVE  AnswerTypes'
<1>1. PICK ask \in world.asks :
        \/ ask.call = "get" /\ GetStart(ask.requests)
        \/ ask.call = "name" /\ ByName(ask.name)
        \/ ask.call = "iterate" /\ Begin
  BY DEF Ask
<1>2. CASE ask.call = "get" /\ GetStart(ask.requests)
  <2>1. IsList(ask.requests)
    BY <1>2, WorldsAssumption DEF GetInv
  <2>2. /\ requests' = ask.requests /\ found' = {} /\ access' = "getting"
        /\ result' = [i \in 1..Len(ask.requests) |-> << >>] /\ UNCHANGED <<schema, iterators>>
    BY <1>2 DEF GetStart, iterVars
  <2>3. IsList(requests)' /\ result' = [i \in 1..Len(requests') |-> result'[i]]
    BY <2>1, <2>2 DEF IsList
  <2> QED
    BY <2>2, <2>3 DEF AnswerTypes
<1>3. CASE ByName(ask.name)
  <2>1. /\ access' \in {"named", "undefined", "thrown"}
        /\ UNCHANGED <<schema, requests, found, result, iterators>>
    BY <1>3 DEF ByName, AccessThrows
  <2> QED
    BY <2>1 DEF AnswerTypes, IsList
<1>4. CASE Begin
  <2>1. /\ access' = "iterating" /\ UNCHANGED <<schema, requests, found, result>>
        /\ iterators' = [name \in {"it", "old"} |-> [index |-> 1, loaded |-> 0, val |-> << >>]]
    BY <1>4 DEF Begin, NoIterator, getVars
  <2>2. Len(schema) \in Nat
    BY DEF GetInv
  <2> QED
    BY <2>1, <2>2 DEF AnswerTypes, IsList
<1> QED
  BY <1>1, <1>2, <1>3, <1>4

LEMMA AnswerTypesStep == AnswerTypes /\ GetInv /\ [Next]_vars => AnswerTypes'
<1> SUFFICES ASSUME AnswerTypes, GetInv, [Next]_vars PROVE AnswerTypes'
  OBVIOUS
<1>1. CASE UNCHANGED accessVars
  BY <1>1, AnswersKept DEF accessVars, getVars, iterVars
<1>2. CASE Detect \/ ChooseClient \/ DiscoverArchives \/ OpenMPQ \/ OpenCASC \/ OpenFile
  BY <1>1, <1>2 DEF Detect, ChooseClient, DiscoverArchives, OpenMPQ, OpenCASC, OpenFile
<1>3. CASE ReadSignature \/ Rewind \/ Dispatch \/ ReadHeader \/ CallSource \/ FirstRow
  BY <1>1, <1>3 DEF ReadSignature, Rewind, Dispatch, ReadHeader, CallSource, FirstRow
<1>4. CASE DecodeField
  BY <1>4, AnswersKept DEF DecodeField, getVars, iterVars
<1>5. CASE RecordRead \/ AccessEnds
  BY <1>1, <1>5 DEF RecordRead, AccessEnds
<1>6. CASE Ask
  BY <1>6, AnswerAsk
<1>7. CASE Access
  <2>1. CASE GetEnd
    <3>1. access' = "thrown" /\ UNCHANGED <<schema, requests, found, result, iterators>>
      BY <2>1 DEF GetEnd, AccessThrows, iterVars
    <3> QED
      BY <3>1 DEF AnswerTypes, IsList
  <2>2. Len(schema) \in Nat
    BY DEF GetInv
  <2> QED
    BY <1>7, <2>1, <2>2, AnswerField, AnswerIterate DEF Access, AccessStep
<1>8. CASE UNCHANGED vars
  BY <1>1, <1>8 DEF vars
<1> QED
  BY <1>2, <1>3, <1>4, <1>5, <1>6, <1>7, <1>8 DEF Next

LEMMA ProgramTypesInit == Init => ProgramTypes
<1> SUFFICES ASSUME Init PROVE ProgramTypes
  OBVIOUS
<1>1. PICK worlds \in Families : world \in worlds
  BY DEF Init
<1>2. stage \in {"detect", "source", "decode", "access"} /\ world.calls \in Nat
  BY <1>1, WorldsAssumption DEF Init
<1>3. calls = 0 /\ signature = "none" /\ reader = "none"
  BY DEF Init
<1> QED
  BY <1>2, <1>3 DEF ProgramTypes, Later

LEMMA ProgramTypesStep == ProgramTypes /\ WayInv /\ [Next]_vars => ProgramTypes'
<1> SUFFICES ASSUME ProgramTypes, WayInv, [Next]_vars PROVE ProgramTypes'
  OBVIOUS
<1>1. PICK worlds \in Families : world \in worlds
  BY DEF WayInv
<1>2. world.calls \in Nat /\ file.signature \in Signatures
  BY <1>1, WorldsAssumption DEF file
<1>3. stage' \in Later \union {"detect", "archives", "mpq", "casc", "source"} /\ UNCHANGED world
  <2>1. CASE Detect \/ ChooseClient \/ DiscoverArchives \/ UNCHANGED vars
    BY <2>1 DEF ProgramTypes, Detect, ChooseClient, DiscoverArchives, Go, Later, vars, clientVars
  <2> QED
    BY <2>1, NextChosen, LaterStages
<1>4. CASE UNCHANGED <<signature, reader, calls>>
  BY <1>3, <1>4 DEF ProgramTypes
<1>5. CASE Detect \/ ChooseClient \/ DiscoverArchives \/ OpenCASC
  BY <1>4, <1>5 DEF Detect, ChooseClient, DiscoverArchives, OpenCASC, clientVars
<1>6. CASE OpenMPQ \/ OpenFile
  <2>1. reader' \in {"WDBC", "none"} /\ UNCHANGED <<signature, calls>>
    BY <1>6 DEF OpenMPQ, OpenFile
  <2> QED
    BY <1>3, <2>1 DEF ProgramTypes
<1>7. CASE ReadSignature
  <2>1. signature' \in Signatures /\ UNCHANGED <<reader, calls>>
    BY <1>2, <1>7 DEF ReadSignature
  <2> QED
    BY <1>3, <2>1 DEF ProgramTypes
<1>8. CASE Dispatch
  <2>1. (reader' = signature /\ signature \in ToSet(Readers)) \/ UNCHANGED reader
    BY <1>8 DEF Dispatch
  <2>2. UNCHANGED <<signature, calls>>
    BY <1>8 DEF Dispatch
  <2> QED
    BY <1>3, <2>1, <2>2 DEF ProgramTypes
<1>9. CASE CallSource
  <2>1. calls < world.calls /\ calls' = calls + 1 /\ UNCHANGED <<signature, reader>>
    BY <1>9 DEF CallSource
  <2> QED
    BY <1>2, <1>3, <2>1 DEF ProgramTypes
<1>10. CASE Rewind \/ ReadHeader \/ FirstRow
  BY <1>4, <1>10 DEF Rewind, ReadHeader, FirstRow
<1>11. CASE DecodeField \/ RecordRead \/ Ask \/ Access \/ AccessEnds \/ UNCHANGED vars
  BY <1>4, <1>11 DEF DecodeField, RecordRead, Ask, Access, AccessEnds, clientVars, vars
<1> QED
  BY <1>5, <1>6, <1>7, <1>8, <1>9, <1>10, <1>11 DEF Next

(* The types of a program's own variables, for worlds with any number of   *)
(* fields, requests and calls: a record has the elements of the fields     *)
(* that were decoded, a get<>() as many answers as requests, and no        *)
(* iterator goes on behind the end (Schema.hpp:276-403, 468-516).          *)
THEOREM ClientTypesAlways == Spec => []ClientTypeOK
<1>1. Init => AnswerTypes /\ ProgramTypes
  BY AnswerTypesInit, ProgramTypesInit
<1>2. /\ ProgramInv /\ AnswerTypes /\ ProgramTypes /\ [Next]_vars
      => AnswerTypes' /\ ProgramTypes'
  BY AnswerTypesStep, ProgramTypesStep DEF ProgramInv
<1>3. ProgramInv /\ AnswerTypes /\ ProgramTypes => ClientTypeOK
  <2> SUFFICES ASSUME ProgramInv, AnswerTypes, ProgramTypes PROVE ClientTypeOK
    OBVIOUS
  <2>1. Len(result) = Len(requests) /\ DOMAIN requests = 1..Len(requests)
    <3> DEFINE n == Len(requests)
    <3>1. n \in Nat /\ result = [i \in 1..n |-> result[i]]
      BY DEF AnswerTypes, IsList
    <3>2. DOMAIN requests = 1..n
      <4>1. requests \in Seq({requests[i] : i \in 1..n})
        BY ListIsSeq DEF AnswerTypes
      <4> QED
        BY <4>1
    <3> HIDE DEF n
    <3>3. [i \in 1..n |-> result[i]] \in Seq({result[i] : i \in 1..n})
      BY <3>1
    <3>4. Len(result) = n
      BY <3>1, <3>3
    <3> QED
      BY <3>2, <3>4 DEF n
  <2>2. line \in 0..Len(directory.info) /\ detecting \in {"info", "hints", "done", "thrown"}
    BY DEF ProgramInv, DetectInv
  <2>3. decoded \in 0..Len(schema) /\ (world.start # "access" => Len(data) = Elements(decoded))
    BY DEF ProgramInv, DataInv
  <2> QED
    BY <2>1, <2>2, <2>3 DEF ClientTypeOK, AnswerTypes, ProgramTypes, Later
<1> QED
  BY <1>1, <1>2, <1>3, ProgramInvariant, PTL DEF Spec
-----------------------------------------------------------------------------
(* A program's source is open when it calls it, and opened once.           *)

OpensOnce ==
    /\ \E worlds \in Families : world \in worlds
    /\ source \in SourceKinds \union {"none"}
    /\ stage \in {"detect", "archives", "mpq", "casc", "source"} => source = "none"
    /\ stage \in {"signature", "rewind", "dispatch", "header", "rows"} => source # "none"

LEMMA OpensOnceInit == Init => OpensOnce
<1> SUFFICES ASSUME Init PROVE OpensOnce
  OBVIOUS
<1>1. PICK worlds \in Families : world \in worlds
  BY DEF Init
<1>2. stage \in {"detect", "source", "decode", "access"} /\ source = "none"
  BY <1>1, WorldsAssumption DEF Init, NoSource
<1> QED
  BY <1>1, <1>2 DEF OpensOnce

\* What a program does to its source is a step of the source.
LEMMA StepsOfSource ==
    ASSUME OpensOnce, WayInv, [Next]_vars
    PROVE  [SourceNext]_sourceVars /\ OpensOnce'
<1>1. PICK worlds \in Families : world \in worlds
  BY DEF OpensOnce
<1>2. /\ file.size \in FileSizes /\ world.kind \in SourceKinds /\ {"mpq", "casc"} \subseteq SourceKinds
      /\ "none" \notin SourceKinds
  BY <1>1, WorldsAssumption, SourceAssumption DEF file
<1>3. UNCHANGED world
  <2>1. CASE Detect \/ ChooseClient \/ DiscoverArchives \/ UNCHANGED vars
    BY <2>1 DEF Detect, ChooseClient, DiscoverArchives, vars, clientVars
  <2> QED
    BY <2>1, NextChosen, LaterStages
<1>4. CASE Detect \/ ChooseClient \/ DiscoverArchives
  <2>1. /\ UNCHANGED sourceVars /\ stage \in {"detect", "archives"}
        /\ stage' \in {"detect", "archives", "mpq", "casc", "exit1"}
    BY <1>4 DEF Detect, ChooseClient, DiscoverArchives, Go, clientVars
  <2> QED
    BY <1>3, <2>1 DEF OpensOnce, sourceVars
<1>5. CASE OpenMPQ \/ OpenCASC \/ OpenFile
  <2>1. source = "none"
    BY <1>5 DEF OpenMPQ, OpenCASC, OpenFile, OpensOnce
  <2>2. CASE UNCHANGED sourceVars /\ stage' \in {"exit1", "undefined"}
    BY <1>3, <2>1, <2>2 DEF OpensOnce, sourceVars
  <2>3. CASE \E kind \in SourceKinds : OpenSource(kind, file.size)
    <3>1. PICK kind \in SourceKinds : OpenSource(kind, file.size)
      BY <2>3
    <3>2. source' = kind
      BY <3>1 DEF OpenSource
    <3>3. stage' \in Later
      BY <1>5, LaterStages DEF Chosen
    <3> QED
      BY <1>2, <1>3, <2>1, <3>1, <3>2, <3>3 DEF OpensOnce, SourceNext, Later
  <2> QED
    BY <1>2, <1>5, <2>2, <2>3 DEF OpenMPQ, OpenCASC, OpenFile, Go
<1>6. CASE ReadSignature \/ Rewind \/ ReadHeader \/ CallSource
  <2>1. source # "none" /\ stage \in {"signature", "rewind", "header", "rows"}
    BY <1>6 DEF ReadSignature, Rewind, ReadHeader, CallSource, OpensOnce
  <2>2. (\E p \in Nat : SetPos(p)) \/ (\E n \in Nat \ {0} : Read(n))
    <3>1. file.size \in Int
      BY FileNumbers
    <3>2. \A p \in 0..file.size : p \in Nat
      BY <3>1
    <3> QED
      BY <1>6, <3>2 DEF ReadSignature, Rewind, ReadHeader, CallSource, BackToStart
  <2>3. UNCHANGED source
    BY <2>2 DEF SetPos, Read
  <2>4. stage' \in Later
    BY <1>6, LaterStages DEF Chosen
  <2> QED
    BY <1>3, <2>1, <2>2, <2>3, <2>4 DEF OpensOnce, SourceNext, Later
<1>7. CASE Dispatch \/ FirstRow \/ DecodeField \/ RecordRead \/ Ask \/ Access \/ AccessEnds
  <2>1. UNCHANGED sourceVars
    BY <1>7 DEF Dispatch, FirstRow, DecodeField, RecordRead, Ask, Access, AccessEnds
  <2>2. stage' \in {"header"} => stage = "dispatch"
    BY <1>7 DEF Dispatch, FirstRow, DecodeField, RecordRead, Ask, Access, AccessEnds, Go, clientVars
  <2>3. stage' \notin {"detect", "archives", "mpq", "casc", "source", "signature", "rewind",
                       "dispatch", "rows"}
    BY <1>7 DEF Dispatch, FirstRow, DecodeField, RecordRead, Ask, Access, AccessEnds, Go, clientVars
  <2> QED
    BY <1>3, <2>1, <2>2, <2>3 DEF OpensOnce, sourceVars
<1>8. CASE UNCHANGED vars
  BY <1>8 DEF vars, clientVars, OpensOnce, sourceVars
<1> QED
  BY <1>4, <1>5, <1>6, <1>7, <1>8 DEF Next

(* The source of any program, from archive, storage, disk or memory, is a  *)
(* FileSource: it is opened once, and called only while it is open.        *)
THEOREM ProgramsImplementContract == Spec => ImplementsFileSource
<1>1. Init => OpensOnce /\ NoSource
  BY OpensOnceInit DEF Init
<1>2. ProgramInv /\ OpensOnce /\ [Next]_vars => [SourceNext]_sourceVars /\ OpensOnce'
  BY StepsOfSource DEF ProgramInv
<1>3. Spec => SourceSpec
  BY <1>1, <1>2, ProgramInvariant, PTL DEF Spec, SourceSpec
<1> QED
  BY <1>3, SourcesImplementContract, PTL
=============================================================================
