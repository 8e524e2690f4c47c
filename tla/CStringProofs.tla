--------------------------- MODULE CStringProofs ---------------------------
(***************************************************************************)
(* The string reader is right for every file, every start and every chunk  *)
(* size.  The invariant says what the loop has done so far: as long as no  *)
(* NUL was met, the buffer holds the bytes from the start to the position  *)
(* and none of them is a NUL; once one was met, it holds the string.       *)
(***************************************************************************)
EXTENDS CString, LeastElement, SequenceTheorems, TLAPS

\* A buffer holds the bytes of the file from the start to `end'.
Holds(buf, end) ==
    /\ Len(buf) = end - start
    /\ \A k \in 1..Len(buf) : buf[k] = bytes[start + k]

TypeOK ==
    /\ bytes \in Contents /\ start \in 0..MaxStart /\ pos \in Nat
    /\ buffer \in Seq(Byte)
    /\ endOfString \in BOOLEAN /\ endOfFile \in BOOLEAN
    /\ pc \in {"loop", "done", "thrown"}

LoopInv ==
    /\ TypeOK
    /\ start <= Len(bytes) => start <= pos /\ pos <= Len(bytes)
    /\ start > Len(bytes) =>
            pos = start /\ buffer = << >> /\ ~endOfString /\ ~endOfFile /\ pc # "done"
    /\ pc = "thrown" => start > Len(bytes)
    /\ endOfFile => pos = Len(bytes)
    /\ pc = "loop" /\ ~endOfString =>
            Holds(buffer, pos) /\ \A k \in start + 1..pos : bytes[k] # Nul
    /\ pc = "loop" /\ endOfString =>
            \E end \in start + 1..Len(bytes) : EndsAt(bytes, start, end) /\ Holds(buffer, end)
    /\ StringRead

(* Bytes of a file are bytes, and the file is shorter than size_t.         *)
LEMMA BytesFacts ==
    ASSUME bytes \in Contents
    PROVE  /\ bytes \in Seq(Byte) /\ Len(bytes) \in Nat /\ Len(bytes) < Modulus
           /\ \A k \in 1..Len(bytes) : bytes[k] \in Byte
BY ContentsAssumption, SizeAssumption

(* What a chunk has left to read: behind the end of the file the wrapped   *)
(* difference is at least a chunk, and the read fails.                     *)
LEMMA ChunkFacts ==
    ASSUME bytes \in Contents, pos \in Nat, start \in 0..MaxStart,
           pos <= Len(bytes) \/ pos = start
    PROVE  /\ ToRead \in 0..Chunk
           /\ pos <= Len(bytes) => CanRead
           /\ pos > Len(bytes) => ~CanRead
           /\ CanRead /\ Short => pos + ToRead = Len(bytes)
<1>1. Len(bytes) \in Nat /\ Len(bytes) < Modulus
  BY BytesFacts
<1>2. /\ MaxStart \in Nat /\ Chunk \in Nat /\ Chunk > 0 /\ Modulus \in Nat
      /\ MaxStart + Chunk <= Modulus
  BY SizeAssumption
<1>3. CASE pos <= Len(bytes)
  BY <1>1, <1>2, <1>3 DEF Left, ToRead, Short, CanRead
<1>4. CASE pos > Len(bytes)
  <2>1. Left = Len(bytes) - pos + Modulus /\ Left \in Int /\ pos <= MaxStart
    BY <1>1, <1>2, <1>4 DEF Left
  <2>2. Left >= Chunk
    BY <1>1, <1>2, <2>1
  <2> QED
    BY <1>1, <1>2, <1>4, <2>1, <2>2 DEF ToRead, Short, CanRead
<1> QED
  BY <1>1, <1>3, <1>4

(* The first NUL of a chunk is the least of its offsets.                   *)
LEMMA TakenFacts ==
    ASSUME bytes \in Contents, ToRead \in Nat
    PROVE  /\ Nuls = {} => Taken = ToRead
           /\ Nuls # {} => Taken \in Nuls /\ \A j \in Nuls : Taken <= j
<1>1. Nuls \subseteq Nat
  BY DEF Nuls
<1> QED
  BY <1>1, LeastNatural DEF Taken

(* Appending the bytes at the position moves what the buffer holds on.     *)
LEMMA HoldsMore ==
    ASSUME bytes \in Contents, start \in Nat, pos \in Nat, start <= pos, buffer \in Seq(Byte),
           Holds(buffer, pos), NEW n \in Nat, pos + n <= Len(bytes),
           buffer' = buffer \o [k \in 1..n |-> bytes[pos + k]], UNCHANGED <<bytes, start>>
    PROVE  Holds(buffer', pos + n) /\ buffer' \in Seq(Byte)
<1> DEFINE more == [k \in 1..n |-> bytes[pos + k]]
<1>1. \A k \in 1..n : bytes[pos + k] \in Byte
  BY BytesFacts
<1>2. more \in Seq(Byte) /\ Len(more) = n
  BY <1>1
<1> HIDE DEF more
<1>3. /\ buffer \o more \in Seq(Byte)
      /\ Len(buffer \o more) = Len(buffer) + n
      /\ \A k \in 1..Len(buffer) + n :
            (buffer \o more)[k] = IF k <= Len(buffer) THEN buffer[k] ELSE more[k - Len(buffer)]
  BY <1>2, ConcatProperties
<1>4. Len(buffer) = pos - start
  BY DEF Holds
<1>5. ASSUME NEW k \in 1..pos - start + n
      PROVE  (buffer \o more)[k] = bytes[start + k]
  <2>1. CASE k <= pos - start
    <3>1. k \in 1..Len(buffer) /\ k \in 1..Len(buffer) + n
      BY <1>4, <2>1
    <3>2. (buffer \o more)[k] = buffer[k]
      BY <1>3, <3>1
    <3>3. buffer[k] = bytes[start + k]
      BY <3>1 DEF Holds
    <3> QED
      BY <3>2, <3>3
  <2>2. CASE k > pos - start
    <3>1. k - (pos - start) \in 1..n
      BY <2>2
    <3>2. more[k - (pos - start)] = bytes[pos + (k - (pos - start))]
      BY <3>1 DEF more
    <3>3. pos + (k - (pos - start)) = start + k
      OBVIOUS
    <3>4. k \in 1..Len(buffer) + n /\ ~(k <= Len(buffer))
      BY <1>4, <2>2
    <3>5. (buffer \o more)[k] = more[k - Len(buffer)]
      BY <1>3, <3>4
    <3>6. more[k - Len(buffer)] = more[k - (pos - start)]
      BY <1>4, Zenon
    <3>7. bytes[pos + (k - (pos - start))] = bytes[start + k]
      BY <3>3, Zenon
    <3> QED
      BY <3>2, <3>5, <3>6, <3>7, Zenon
  <2>3. k <= pos - start \/ k > pos - start
    OBVIOUS
  <2> QED
    BY <2>1, <2>2, <2>3, Zenon
<1>6. buffer' = buffer \o more
  BY DEF more
<1>7. Len(buffer') = pos + n - start /\ pos - start + n = pos + n - start
  <2>1. Len(buffer') = Len(buffer) + n
    BY <1>3, <1>6, Zenon
  <2> QED
    BY <1>4, <2>1
<1>8. \A k \in 1..Len(buffer') : buffer'[k] = bytes[start + k]
  BY <1>5, <1>6, <1>7
<1>9. buffer' \in Seq(Byte)
  BY <1>3, <1>6, Zenon
<1> QED
  BY <1>7, <1>8, <1>9 DEF Holds

(* What the buffer holds, as a sequence.                                   *)
LEMMA HeldString ==
    ASSUME bytes \in Contents, start \in Nat, buffer \in Seq(Byte),
           NEW end \in start..Len(bytes), Holds(buffer, end)
    PROVE  buffer = SubSeq(bytes, start + 1, end)
<1>1. bytes \in Seq(Byte) /\ end \in Nat
  BY BytesFacts
<1>2. /\ SubSeq(bytes, start + 1, end) \in Seq(Byte)
      /\ Len(SubSeq(bytes, start + 1, end)) = end - start
      /\ \A k \in 1..end - start : SubSeq(bytes, start + 1, end)[k] = bytes[start + k]
  BY <1>1
<1> QED
  BY <1>2, SeqEqual DEF Holds

------------------------------------------------------------------------------
LEMMA LoopInit == Init => LoopInv
<1> SUFFICES ASSUME Init PROVE LoopInv
  OBVIOUS
<1>1. Len(bytes) \in Nat /\ start \in Nat /\ MaxStart \in Nat
  BY BytesFacts, SizeAssumption DEF Init
<1>2. TypeOK
  BY <1>1, EmptySeq DEF Init, TypeOK
<1>3. Holds(buffer, pos) /\ start + 1..pos = {}
  BY <1>1 DEF Init, Holds
<1> QED
  BY <1>1, <1>2, <1>3 DEF Init, LoopInv, StringRead

LEMMA ReadChunkKeeps == LoopInv /\ ReadChunk => LoopInv'
<1> SUFFICES ASSUME LoopInv, ReadChunk PROVE LoopInv'
  OBVIOUS
<1>1. /\ TypeOK /\ pc = "loop" /\ ~endOfString /\ ~endOfFile
      /\ Holds(buffer, pos) /\ \A k \in start + 1..pos : bytes[k] # Nul
      /\ UNCHANGED <<bytes, start>>
  BY DEF LoopInv, ReadChunk
<1>2. Len(bytes) \in Nat /\ start \in Nat /\ pos \in Nat /\ Chunk \in Nat
  BY <1>1, BytesFacts, SizeAssumption DEF TypeOK
<1>3. pos <= Len(bytes) \/ pos = start
  BY <1>2 DEF LoopInv
<1>4. /\ ToRead \in 0..Chunk
      /\ pos <= Len(bytes) => CanRead
      /\ pos > Len(bytes) => ~CanRead
      /\ CanRead /\ Short => pos + ToRead = Len(bytes)
  BY <1>1, <1>3, ChunkFacts DEF TypeOK
<1>5. CASE ~CanRead
  <2>1. start > Len(bytes)
    BY <1>2, <1>4, <1>5 DEF LoopInv
  <2>2. pc' = "thrown" /\ UNCHANGED <<bytes, start, pos, buffer, endOfString, endOfFile>>
    BY <1>1, <1>5 DEF ReadChunk
  <2> QED
    BY <1>1, <2>1, <2>2 DEF LoopInv, TypeOK, Holds, StringRead
<1>6. CASE CanRead
  <2>1. /\ start <= pos /\ pos <= Len(bytes) /\ start <= Len(bytes)
    BY <1>2, <1>4, <1>6 DEF LoopInv
  <2>2. ToRead \in Nat /\ pos + ToRead <= Len(bytes) /\ pos' = pos + ToRead /\ pc' = "loop"
    BY <1>1, <1>2, <1>4, <1>6 DEF CanRead, ReadChunk
  <2>3. Taken \in 0..ToRead
    <3>1. CASE Nuls = {}
      BY <1>1, <2>2, <3>1, TakenFacts DEF TypeOK
    <3>2. CASE Nuls # {}
      BY <1>1, <2>2, <3>2, TakenFacts DEF TypeOK, Nuls
    <3> QED
      BY <3>1, <3>2
  <2>4. buffer' = buffer \o [k \in 1..Taken |-> bytes[pos + k]]
    BY <1>6 DEF ReadChunk
  <2>5. Holds(buffer', pos + Taken) /\ buffer' \in Seq(Byte)
    <3>1. Taken \in Nat /\ pos + Taken <= Len(bytes)
      BY <1>2, <2>2, <2>3
    <3>2. bytes \in Contents /\ buffer \in Seq(Byte)
      BY <1>1 DEF TypeOK
    <3> QED
      BY <1>1, <1>2, <2>1, <2>4, <3>1, <3>2, HoldsMore
  <2>6. endOfString' = (Nuls # {}) /\ endOfFile' = Short
    BY <1>6 DEF ReadChunk
  <2>7. TypeOK'
    BY <1>1, <1>2, <2>2, <2>5, <2>6 DEF TypeOK, Short
  <2>8. endOfFile' => pos' = Len(bytes)
    BY <1>4, <1>6, <2>2, <2>6
  <2>9. ~endOfString' => Holds(buffer', pos') /\ \A k \in start + 1..pos' : bytes[k] # Nul
    <3> SUFFICES ASSUME ~endOfString'
                 PROVE  Holds(buffer', pos') /\ \A k \in start + 1..pos' : bytes[k] # Nul
      OBVIOUS
    <3>1. Nuls = {} /\ Taken = ToRead
      BY <1>1, <2>2, <2>6, TakenFacts DEF TypeOK
    <3>2. Holds(buffer', pos')
      BY <1>1, <2>2, <2>5, <3>1 DEF Holds
    <3>3. ASSUME NEW k \in start + 1..pos' PROVE bytes[k] # Nul
      <4>1. CASE k <= pos
        BY <1>1, <1>2, <4>1
      <4>2. CASE k > pos
        <5>1. k - pos \in 1..ToRead /\ pos + (k - pos) = k
          BY <1>2, <2>2, <4>2
        <5> QED
          BY <3>1, <5>1 DEF Nuls
      <4> QED
        BY <1>2, <4>1, <4>2
    <3> QED
      BY <3>2, <3>3
  <2>10. endOfString' =>
            \E end \in start + 1..Len(bytes) : EndsAt(bytes, start, end) /\ Holds(buffer', end)
    <3> SUFFICES ASSUME endOfString'
                 PROVE  \E end \in start + 1..Len(bytes) :
                            EndsAt(bytes, start, end) /\ Holds(buffer', end)
      OBVIOUS
    <3>1. Taken \in Nuls /\ \A j \in Nuls : Taken <= j
      BY <1>1, <2>2, <2>6, TakenFacts DEF TypeOK
    <3>2. Taken \in 1..ToRead /\ bytes[pos + Taken] = Nul
      BY <3>1 DEF Nuls
    <3>3. pos + Taken \in start + 1..Len(bytes)
      BY <1>2, <2>1, <2>2, <3>2
    <3>4. ASSUME NEW k \in NulsFrom(bytes, start) PROVE pos + Taken <= k
      <4>1. k \in start + 1..Len(bytes) /\ bytes[k] = Nul
        BY DEF NulsFrom
      <4>2. k > pos
        BY <1>1, <1>2, <4>1
      <4>3. CASE k <= pos + ToRead
        <5>1. k - pos \in 1..ToRead /\ pos + (k - pos) = k
          BY <1>2, <2>2, <4>1, <4>2, <4>3
        <5>2. k - pos \in Nuls
          BY <4>1, <5>1 DEF Nuls
        <5> QED
          BY <1>2, <3>1, <3>2, <4>1, <5>2
      <4> QED
        BY <1>2, <2>2, <3>2, <4>1, <4>3
    <3>5. EndsAt(bytes, start, pos + Taken)
      BY <3>2, <3>3, <3>4 DEF EndsAt, NulsFrom
    <3> QED
      BY <1>1, <2>5, <3>3, <3>5 DEF Holds
  <2> QED
    BY <1>1, <1>2, <2>1, <2>2, <2>7, <2>8, <2>9, <2>10 DEF LoopInv, StringRead, Holds
<1> QED
  BY <1>5, <1>6

LEMMA FinishKeeps == LoopInv /\ Finish => LoopInv'
<1> SUFFICES ASSUME LoopInv, Finish PROVE LoopInv'
  OBVIOUS
<1>1. /\ TypeOK /\ pc = "loop" /\ pc' = "done" /\ (endOfString \/ endOfFile)
      /\ UNCHANGED <<bytes, start, pos, endOfString, endOfFile>>
  BY DEF LoopInv, Finish
<1>2. Len(bytes) \in Nat /\ start \in Nat /\ pos \in Nat /\ bytes \in Seq(Byte)
  BY <1>1, BytesFacts, SizeAssumption DEF TypeOK
<1>3. start <= pos /\ pos <= Len(bytes) /\ start <= Len(bytes)
  BY <1>1, <1>2 DEF LoopInv
<1>4. CASE endOfString
  <2>1. buffer' = buffer
    BY <1>4 DEF Finish
  <2>2. PICK end \in start + 1..Len(bytes) : EndsAt(bytes, start, end) /\ Holds(buffer, end)
    BY <1>1, <1>4 DEF LoopInv
  <2>3. buffer = SubSeq(bytes, start + 1, end)
    BY <1>1, <1>2, <2>2, HeldString DEF TypeOK
  <2>4. StringRead'
    BY <1>1, <2>1, <2>2, <2>3 DEF StringRead, EndsAt
  <2> QED
    BY <1>1, <1>2, <1>3, <2>1, <2>4 DEF LoopInv, TypeOK
<1>5. CASE ~endOfString
  <2>1. buffer' = Append(buffer, Nul) /\ pos = Len(bytes)
    BY <1>1, <1>5 DEF Finish, LoopInv
  <2>2. Holds(buffer, Len(bytes)) /\ \A k \in start + 1..Len(bytes) : bytes[k] # Nul
    BY <1>1, <1>5, <2>1 DEF LoopInv
  <2>3. buffer = SubSeq(bytes, start + 1, Len(bytes))
    BY <1>1, <1>2, <1>3, <2>2, HeldString DEF TypeOK
  <2>4. NulsFrom(bytes, start) = {}
    BY <2>2 DEF NulsFrom
  <2>5. StringRead'
    BY <1>1, <2>1, <2>3, <2>4 DEF StringRead
  <2>6. buffer' \in Seq(Byte)
    BY <1>1, <2>1 DEF TypeOK, Nul, Byte
  <2> QED
    BY <1>1, <1>2, <1>3, <2>5, <2>6 DEF LoopInv, TypeOK
<1> QED
  BY <1>4, <1>5

LEMMA LoopStep == LoopInv /\ [Next]_vars => LoopInv'
<1>1. LoopInv /\ UNCHANGED vars => LoopInv'
  BY DEF vars, LoopInv, TypeOK, Holds, StringRead
<1> QED
  BY <1>1, ReadChunkKeeps, FinishKeeps DEF Next

LEMMA LoopAlways == Spec => []LoopInv
BY LoopInit, LoopStep, PTL DEF Spec

(* readCurrentString returns the string that starts at the position: the   *)
(* bytes up to the first NUL, or to the end of the file with a NUL added,  *)
(* for every file, position and chunk size.                                *)
THEOREM StringsRead == Spec => []StringRead
<1>1. LoopInv => StringRead
  BY DEF LoopInv
<1> QED
  BY <1>1, LoopAlways, PTL

(* It throws for a position behind the end of the file, although the count *)
(* of bytes left wraps there, and for no other.                            *)
THEOREM BehindEndThrows == Spec => []ThrowsBehindEnd
<1>1. LoopInv => ThrowsBehindEnd
  <2> SUFFICES ASSUME LoopInv PROVE ThrowsBehindEnd
    OBVIOUS
  <2>1. Len(bytes) \in Nat /\ start \in Nat
    BY BytesFacts, SizeAssumption DEF LoopInv, TypeOK
  <2> QED
    BY <2>1 DEF LoopInv, ThrowsBehindEnd
<1> QED
  BY <1>1, LoopAlways, PTL
============================================================================
