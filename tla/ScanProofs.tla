----------------------------- MODULE ScanProofs -----------------------------
(***************************************************************************)
(* Iterating over a table of any size, whose rows may throw: how often     *)
(* operator[] is called, and which rows are given.  The invariant says, at *)
(* each place of the loop, how many calls there were, that the call in     *)
(* progress is for the iterator's row, and that the rows given are the     *)
(* ones in front of it.  FrontInv adds that every row in front of the      *)
(* iterator that does not throw was given: then the loop, with the flat    *)
(* reader's answers, keeps the promise of RowScan.                         *)
(***************************************************************************)
EXTENDS Scan, FlatProofs

\* Before the first row is asked for by the iterator.
Starting == loop \in {"open", "begin", "beginning"}

\* The iterator is at a row of the table.
AtRow == loop \in {"loading", "body", "caught"}

TypeOK ==
    /\ table \in Tables
    /\ loop \in {"open", "begin", "beginning", "test", "loading", "body", "caught", "over"}
    /\ calls \in Nat /\ iteratorIndex \in Nat /\ loadedIndex \in Int

Counted ==
    /\ iteratorIndex <= size /\ calls <= iteratorIndex + 2 /\ calls <= size + 1
    /\ Starting => iteratorIndex = 0 /\ loadedIndex = NoIndex
    /\ loop \in {"open", "begin"} => calls = 0
    /\ loop \in {"beginning", "test"} => calls <= iteratorIndex + 1
    /\ AtRow => iteratorIndex < size

ValueKept ==
    /\ loop = "loading" => index = iteratorIndex
    /\ loop = "body" => Loaded
    /\ loadedIndex # NoIndex => val.recordIndex = loadedIndex

\* The rows given are in front of the iterator, or it is at the last of them.
GivenBehind ==
    /\ \E S : given \in Seq(S)
    /\ \A k \in 1..Len(given) :
        /\ given[k].row \in Nat /\ given[k].row <= iteratorIndex
        /\ loop \in {"beginning", "test", "loading", "caught"} => given[k].row < iteratorIndex
    /\ Starting => given = << >>

\* The rows given so far are in the order of the table, with their records.
GivenInOrder ==
    \A k \in 1..Len(given) :
        /\ given[k].row < size
        /\ given[k].value.recordIndex = given[k].row
        /\ \A j \in 1..k - 1 : given[j].row < given[k].row

LoopInv == TypeOK /\ Counted /\ ValueKept /\ GivenBehind /\ GivenInOrder

(* The number of rows is a number.                                         *)
LEMMA SizeIsNat == TypeOK => size \in Nat
BY TablesAssumption DEF TypeOK, TableShape, size, header

LEMMA LoopInit == ScanInit => LoopInv
<1> SUFFICES ASSUME ScanInit PROVE LoopInv
  OBVIOUS
<1>1. TypeOK
  BY DEF ScanInit, Init, TypeOK, NoIndex
<1>2. size \in Nat
  BY <1>1, SizeIsNat
<1>3. Counted /\ ValueKept
  BY <1>2 DEF ScanInit, Init, Counted, ValueKept, Starting, AtRow, NoIndex
<1>4. given \in Seq({}) /\ Len(given) = 0
  BY EmptySeq DEF ScanInit
<1>5. GivenBehind /\ GivenInOrder
  BY <1>4 DEF ScanInit, GivenBehind, GivenInOrder
<1> QED
  BY <1>1, <1>3, <1>5 DEF LoopInv

(* A call of operator[] changes neither the table nor what was asked.      *)
LEMMA CallKeeps == CallStep => UNCHANGED <<table, index, calls>>
BY DEF CallStep, ReadRecord, Insertion, Return, Throw, call

(* Giving the iterator's row, that no row given before is behind.          *)
LEMMA GiveKeeps ==
    ASSUME LoopInv, NEW value, Give(value), value.recordIndex = iteratorIndex,
           iteratorIndex < size, loop \in {"test", "loading"},
           UNCHANGED <<table, iteratorIndex>>
    PROVE  GivenBehind' /\ GivenInOrder'
<1> DEFINE new == [row |-> iteratorIndex, value |-> value]
<1>1. PICK S : given \in Seq(S)
  BY DEF LoopInv, GivenBehind
<1> DEFINE T == S \union {new}
<1>2. given \in Seq(T) /\ new \in T
  BY <1>1, SeqMonotonic
<1>3. given' = Append(given, new) /\ loop' = "body"
  BY DEF Give
<1>4. new.row = iteratorIndex /\ new.value.recordIndex = iteratorIndex
  OBVIOUS
<1> HIDE DEF new, T
<1>5. /\ given' \in Seq(T) /\ Len(given') = Len(given) + 1 /\ Len(given) \in Nat
      /\ \A k \in 1..Len(given) : given'[k] = given[k]
      /\ given'[Len(given) + 1] = new
  BY <1>2, <1>3, AppendProperties, LenProperties
<1>6. iteratorIndex \in Nat /\ iteratorIndex' = iteratorIndex /\ size' = size /\ size \in Nat
  BY SizeIsNat DEF LoopInv, TypeOK, size, header
<1>7. \A k \in 1..Len(given) : given[k].row \in Nat /\ given[k].row < iteratorIndex
  BY DEF LoopInv, GivenBehind
<1>8. \A k \in 1..Len(given') : given'[k].row \in Nat /\ given'[k].row <= iteratorIndex
  BY <1>4, <1>5, <1>6, <1>7
<1>9. GivenBehind'
  BY <1>3, <1>5, <1>6, <1>8 DEF GivenBehind, Starting
<1>10. GivenInOrder'
  <2> SUFFICES ASSUME NEW k \in 1..Len(given')
               PROVE  /\ given'[k].row < size
                      /\ given'[k].value.recordIndex = given'[k].row
                      /\ \A j \in 1..k - 1 : given'[j].row < given'[k].row
    BY <1>6 DEF GivenInOrder
  <2>1. CASE k \in 1..Len(given)
    <3>1. \A j \in 1..k - 1 : given'[j] = given[j]
      BY <1>5, <2>1
    <3> QED
      BY <1>5, <2>1, <3>1 DEF LoopInv, GivenInOrder
  <2>2. CASE k = Len(given) + 1
    BY <1>4, <1>5, <1>6, <1>7, <2>2
  <2> QED
    BY <1>5, <2>1, <2>2
<1> QED
  BY <1>9, <1>10

(* Steps that give no row.                                                 *)
LEMMA NothingGiven ==
    ASSUME LoopInv, UNCHANGED <<table, given>>,
           \/ UNCHANGED <<loop, iteratorIndex>>
           \/ iteratorIndex' = iteratorIndex /\ loop' \in {"body", "over"} /\ ~Starting
           \/ iteratorIndex' = iteratorIndex /\ Starting
           \/ iteratorIndex' = iteratorIndex /\ loop = "test" /\ loop' \in {"loading"}
           \/ iteratorIndex' = iteratorIndex /\ loop = "loading" /\ loop' \in {"caught"}
           \/ iteratorIndex' = iteratorIndex + 1 /\ ~Starting /\ loop' = "test"
    PROVE  GivenBehind' /\ GivenInOrder'
<1>1. size' = size /\ iteratorIndex \in Nat
  BY DEF size, header, LoopInv, TypeOK
<1>2. GivenInOrder'
  BY <1>1 DEF LoopInv, GivenInOrder
<1>3. CASE Starting
  <2>1. given = << >> /\ Len(given) = 0
    BY <1>3, EmptySeq DEF LoopInv, GivenBehind
  <2>2. \E S : given' \in Seq(S)
    BY DEF LoopInv, GivenBehind
  <2> QED
    BY <1>2, <2>1, <2>2 DEF GivenBehind
<1>4. CASE ~Starting
  BY <1>1, <1>2, <1>4 DEF LoopInv, GivenBehind, Starting
<1> QED
  BY <1>3, <1>4

LEMMA LoopStep == LoopInv /\ [ScanNext]_allVars => LoopInv'
<1> SUFFICES ASSUME LoopInv, [ScanNext]_allVars PROVE LoopInv'
  OBVIOUS
<1>1. /\ TypeOK /\ Counted /\ ValueKept /\ size \in Nat
  BY SizeIsNat DEF LoopInv
<1> USE DEF LoopInv, TypeOK, Counted, ValueKept, Starting, AtRow, NoIndex, Loaded
<1>2. CASE OpenTable
  <2>1. UNCHANGED <<table, calls, iteratorIndex, loadedIndex, val, given>> /\ loop' = "begin" /\ loop = "open"
    BY <1>2 DEF OpenTable, Open
  <2>2. size' = size
    BY <2>1 DEF size, header
  <2>3. GivenBehind' /\ GivenInOrder'
    BY <2>1, NothingGiven
  <2> QED
    BY <1>1, <2>1, <2>2, <2>3
<1>3. CASE Begin
  <2>1. CASE size > 0 /\ Ask(0) /\ loop' = "beginning"
    <3>1. /\ UNCHANGED <<table, iteratorIndex, loadedIndex, val, given>>
          /\ calls' = calls + 1 /\ loop = "begin"
      BY <1>3, <2>1 DEF Begin, Ask
    <3>2. size' = size
      BY <3>1 DEF size, header
    <3>3. GivenBehind' /\ GivenInOrder'
      BY <3>1, NothingGiven
    <3> QED
      BY <1>1, <2>1, <3>1, <3>2, <3>3
  <2>2. CASE ~(size > 0) /\ loop' = "test" /\ UNCHANGED vars
    <3>1. /\ UNCHANGED <<table, calls, index, iteratorIndex, loadedIndex, val, given>>
          /\ loop = "begin"
      BY <1>3, <2>2 DEF Begin, vars, call
    <3>2. size' = size
      BY <3>1 DEF size, header
    <3>3. GivenBehind' /\ GivenInOrder'
      BY <3>1, NothingGiven
    <3> QED
      BY <1>1, <2>2, <3>1, <3>2, <3>3
  <2> QED
    BY <1>3, <2>1, <2>2 DEF Begin
<1>4. CASE Begun
  <2>1. /\ UNCHANGED <<table, calls, index, iteratorIndex, loadedIndex, given>>
        /\ loop = "beginning" /\ loop' \in {"test", "over"}
    BY <1>4 DEF Begun, vars, call
  <2>2. size' = size
    BY <2>1 DEF size, header
  <2>3. GivenBehind' /\ GivenInOrder'
    BY <2>1, NothingGiven
  <2> QED
    BY <1>1, <2>1, <2>2, <2>3
<1>5. CASE Test
  <2> USE <1>5
  <2>0. loop = "test" /\ UNCHANGED <<table, iteratorIndex, loadedIndex, val>>
    BY DEF Test, Ask, vars
  <2>1. size' = size
    BY <2>0 DEF size, header
  <2>2. CASE iteratorIndex = size
    <3>1. loop' = "over" /\ UNCHANGED <<calls, index, given>>
      BY <2>2 DEF Test, vars, call
    <3>2. GivenBehind' /\ GivenInOrder'
      BY <2>0, <3>1, NothingGiven
    <3> QED
      BY <1>1, <2>0, <2>1, <3>1, <3>2
  <2>3. CASE iteratorIndex # size /\ Loaded
    <3>1. Give(val) /\ UNCHANGED <<calls, index>>
      BY <2>3 DEF Test, vars, call
    <3>2. val.recordIndex = iteratorIndex /\ iteratorIndex < size
      BY <1>1, <2>3
    <3>3. GivenBehind' /\ GivenInOrder'
      BY <2>0, <3>1, <3>2, GiveKeeps
    <3>4. loop' = "body"
      BY <3>1 DEF Give
    <3> QED
      BY <1>1, <2>0, <2>1, <2>3, <3>1, <3>2, <3>3, <3>4
  <2>4. CASE iteratorIndex # size /\ ~Loaded
    <3>1. Ask(iteratorIndex) /\ loop' = "loading" /\ UNCHANGED given
      BY <2>4 DEF Test
    <3>2. calls' = calls + 1 /\ index' = iteratorIndex
      BY <3>1 DEF Ask
    <3>3. GivenBehind' /\ GivenInOrder'
      BY <2>0, <3>1, NothingGiven
    <3> QED
      BY <1>1, <2>0, <2>1, <2>4, <3>1, <3>2, <3>3
  <2> QED
    BY <2>2, <2>3, <2>4
<1>6. CASE SetVal
  <2>1. /\ UNCHANGED <<table, calls, index, iteratorIndex>>
        /\ loop = "loading" /\ val' = Answer /\ loadedIndex' = iteratorIndex /\ Give(Answer)
    BY <1>6 DEF SetVal, LoadedFrom, vars, call
  <2>2. size' = size
    BY <2>1 DEF size, header
  <2>3. Answer.recordIndex = iteratorIndex /\ iteratorIndex < size
    BY <1>1, <2>1 DEF Answer
  <2>4. GivenBehind' /\ GivenInOrder'
    BY <2>1, <2>3, GiveKeeps
  <2>5. loop' = "body"
    BY <2>1 DEF Give
  <2> QED
    BY <1>1, <2>1, <2>2, <2>3, <2>4, <2>5
<1>7. CASE LoadThrows
  <2>1. /\ UNCHANGED <<table, calls, index, iteratorIndex, loadedIndex, val, given>>
        /\ loop = "loading" /\ loop' \in {"over", "caught"}
    BY <1>7 DEF LoadThrows, vars, call
  <2>2. size' = size
    BY <2>1 DEF size, header
  <2>3. GivenBehind' /\ GivenInOrder'
    BY <2>1, NothingGiven
  <2> QED
    BY <1>1, <2>1, <2>2, <2>3
<1>8. CASE DereferenceAgain
  <2>1. /\ UNCHANGED <<table, calls, index, loop, iteratorIndex, loadedIndex, val, given>>
    BY <1>8 DEF DereferenceAgain, vars, call
  <2>2. size' = size
    BY <2>1 DEF size, header
  <2>3. GivenBehind' /\ GivenInOrder'
    BY <2>1, NothingGiven
  <2> QED
    BY <1>1, <2>1, <2>2, <2>3
<1>9. CASE Increment
  <2>1. /\ UNCHANGED <<table, calls, index, loadedIndex, val, given>>
        /\ loop \in {"body", "caught"} /\ loop' = "test" /\ iteratorIndex' = iteratorIndex + 1
    BY <1>9 DEF Increment, vars, call
  <2>2. size' = size
    BY <2>1 DEF size, header
  <2>3. GivenBehind' /\ GivenInOrder'
    BY <2>1, NothingGiven
  <2> QED
    BY <1>1, <2>1, <2>2, <2>3
<1>10. CASE Running \/ UNCHANGED allVars
  <2>1. UNCHANGED <<table, calls, index, loop, iteratorIndex, loadedIndex, val, given>>
    BY <1>10, CallKeeps DEF Running, scanVars, allVars, vars, call
  <2>2. size' = size
    BY <2>1 DEF size, header
  <2>3. GivenBehind' /\ GivenInOrder'
    BY <2>1, NothingGiven
  <2> QED
    BY <1>1, <2>1, <2>2, <2>3
<1> QED
  BY <1>2, <1>3, <1>4, <1>5, <1>6, <1>7, <1>8, <1>9, <1>10 DEF ScanNext, Progress

LEMMA LoopInvariant == ScanSpec => []LoopInv
<1> QED
  BY LoopInit, LoopStep, PTL DEF ScanSpec, ScanSteps

(* A loop over a table of n rows calls operator[] at most n + 1 times,     *)
(* whichever rows throw and whatever the loop does behind them.            *)
THEOREM RowsReadOnce == ScanSpec => []ReadOnce
<1>1. LoopInv => ReadOnce
  BY DEF LoopInv, Counted, ReadOnce
<1> QED
  BY <1>1, LoopInvariant, PTL

-----------------------------------------------------------------------------
\* The number behind the last row given.
Front == IF given = << >> THEN 0 ELSE given[Len(given)].row + 1

Unread(from, to) == \A j \in from..to - 1 : ~Holds!RowReadable(table, j)

(* No row is given twice or passed over: those between the last row given  *)
(* and the iterator could not be read.                                     *)
FrontInv ==
    /\ loop \in {"test", "loading", "caught"} => loadedIndex < iteratorIndex
    /\ loop = "beginning" => index = 0 /\ size > 0
    /\ loop = "body" => Front = iteratorIndex + 1
    /\ loop \notin {"body", "over"} => Front <= iteratorIndex /\ Unread(Front, iteratorIndex)
    /\ loop = "caught" => ~Holds!RowReadable(table, iteratorIndex)

ScanInv == LoopInv /\ WalkInv /\ RowInv /\ FrontInv

\* The loop runs what FlatFile allows any caller.
LEMMA ScanTakesSteps ==
    ASSUME LoopInv, [ScanNext]_allVars
    PROVE  [Steps]_vars /\ table' = table
<1>1. 0 \in Nat /\ iteratorIndex \in Nat
  BY DEF LoopInv, TypeOK
<1>2. CASE OpenTable
  BY <1>2 DEF OpenTable, Steps, Open
<1>3. CASE Begin
  BY <1>1, <1>3 DEF Begin, Steps, Ask, vars
<1>4. CASE Begun \/ SetVal \/ LoadThrows \/ Increment \/ UNCHANGED allVars
  BY <1>4 DEF Begun, SetVal, LoadThrows, Increment, vars, allVars
<1>5. CASE Test
  BY <1>1, <1>5 DEF Test, Steps, Ask, vars
<1>6. CASE DereferenceAgain
  BY <1>1, <1>6 DEF DereferenceAgain, Steps, Ask, vars
<1>7. CASE Running
  BY <1>7, CallKeeps DEF Running, Steps
<1> QED
  BY <1>2, <1>3, <1>4, <1>5, <1>6, <1>7 DEF ScanNext, Progress

LEMMA FrontFacts ==
    ASSUME LoopInv
    PROVE  /\ table \in Tables /\ size \in Nat /\ iteratorIndex \in Nat /\ iteratorIndex <= size
           /\ loadedIndex \in Int /\ Len(given) \in Nat /\ Front \in Nat
           /\ \E S : given \in Seq(S)
<1>1. /\ table \in Tables /\ size \in Nat /\ iteratorIndex \in Nat /\ iteratorIndex <= size
      /\ loadedIndex \in Int
  BY SizeIsNat DEF LoopInv, TypeOK, Counted
<1>2. PICK S : given \in Seq(S)
  BY DEF LoopInv, GivenBehind
<1>3. Len(given) \in Nat /\ (given # << >> => Len(given) \in 1..Len(given))
  BY <1>2, EmptySeq, LenProperties
<1>4. given # << >> => given[Len(given)].row \in Nat
  BY <1>3 DEF LoopInv, GivenBehind
<1>5. Front \in Nat
  BY <1>4 DEF Front
<1> QED
  BY <1>1, <1>2, <1>3, <1>5

\* What a call of operator[] that has ended says of its row.
LEMMA Answered ==
    ASSUME WalkInv, RowInv, NoWrap, pc \in {"returned", "thrown"}, index < size
    PROVE  /\ pc = "thrown" => ~Holds!RowReadable(table, index)
           /\ pc = "returned" => /\ Holds!RowReadable(table, index)
                                 /\ Read(Answer) = [recordIndex |-> index,
                                                    data |-> Holds!RowParts(table, index)]
<1>1. pc = "returned" <=> Holds!RowReadable(table, index)
  BY RefusedFromInv DEF RefusedRows
<1>2. pc = "returned" =>
        [k \in DOMAIN record |-> <<record[k].kind, record[k].at>>] = Holds!RowParts(table, index)
  BY DecodedFromInv DEF RowDecoded
<1>3. Read(Answer) = [recordIndex |-> index,
                     data |-> [k \in DOMAIN record |-> <<record[k].kind, record[k].at>>]]
  BY DEF Read, Answer
<1> QED
  BY <1>1, <1>2, <1>3

LEMMA FrontStep ==
    ASSUME ScanInv, NoWrap, [ScanNext]_allVars
    PROVE  FrontInv'
<1>1. LoopInv /\ WalkInv /\ RowInv /\ FrontInv
  BY DEF ScanInv
<1>2. /\ size \in Nat /\ iteratorIndex \in Nat /\ iteratorIndex <= size
      /\ loadedIndex \in Int /\ Front \in Nat
  BY <1>1, FrontFacts
<1>3. table' = table /\ size' = size
  BY <1>1, ScanTakesSteps DEF size, header
<1>4. \A from, to : Unread(from, to)' = Unread(from, to)
  BY <1>3 DEF Unread
<1>5. \A j : Holds!RowReadable(table, j)' = Holds!RowReadable(table, j)
  BY <1>3
<1>6. given' = given => Front' = Front
  BY DEF Front
<1>7. CASE OpenTable
  BY <1>1, <1>4, <1>6, <1>7 DEF OpenTable, FrontInv, Front
<1>8. CASE Begin
  <2>1. /\ loop = "begin" /\ UNCHANGED <<iteratorIndex, loadedIndex, given>>
        /\ \/ size > 0 /\ index' = 0 /\ loop' = "beginning"
           \/ loop' = "test"
    BY <1>8 DEF Begin, Ask
  <2>2. loadedIndex < iteratorIndex
    BY <1>1, <2>1 DEF LoopInv, Counted, Starting, NoIndex
  <2> QED
    BY <1>1, <1>3, <1>4, <1>6, <2>1, <2>2 DEF FrontInv
<1>9. CASE Begun
  <2>1. /\ loop = "beginning" /\ loop' \in {"test", "over"}
        /\ UNCHANGED <<iteratorIndex, loadedIndex, given>>
    BY <1>9 DEF Begun
  <2>2. loadedIndex < iteratorIndex
    BY <1>1, <2>1 DEF LoopInv, Counted, Starting, NoIndex
  <2> QED
    BY <1>1, <1>4, <1>6, <2>1, <2>2 DEF FrontInv
<1>10. CASE Test
  <2>1. loop = "test" /\ UNCHANGED <<iteratorIndex, loadedIndex>> /\ ~Loaded
    BY <1>1, <1>2, <1>10 DEF Test, FrontInv, Loaded
  <2>2. loop' = "over" \/ (loop' = "loading" /\ given' = given)
    BY <1>10, <2>1 DEF Test
  <2> QED
    BY <1>1, <1>4, <1>6, <2>1, <2>2 DEF FrontInv
<1>11. CASE SetVal
  <2>1. loop' = "body" /\ iteratorIndex' = iteratorIndex
    BY <1>11 DEF SetVal, Give
  <2>2. Front' = iteratorIndex + 1
    <3> DEFINE new == [row |-> iteratorIndex, value |-> Answer]
    <3>1. given' = Append(given, new)
      BY <1>11 DEF SetVal, Give
    <3>2. PICK S : given \in Seq(S)
      BY <1>1, FrontFacts
    <3>3. new.row = iteratorIndex
      OBVIOUS
    <3> DEFINE T == S \union {new}
    <3>4. given \in Seq(T) /\ new \in T
      BY <3>2, SeqMonotonic
    <3> HIDE DEF new, T
    <3>5. /\ given' \in Seq(T) /\ Len(given') = Len(given) + 1 /\ Len(given) \in Nat
          /\ given'[Len(given) + 1] = new
      BY <3>1, <3>4, AppendProperties, LenProperties
    <3>6. given' # << >>
      BY <3>5, EmptySeq
    <3> QED
      BY <3>3, <3>5, <3>6 DEF Front
  <2> QED
    BY <2>1, <2>2 DEF FrontInv
<1>12. CASE LoadThrows
  <2>1. /\ loop = "loading" /\ pc = "thrown" /\ loop' \in {"over", "caught"}
        /\ UNCHANGED <<iteratorIndex, loadedIndex, given>>
    BY <1>12 DEF LoadThrows
  <2>2. ~Holds!RowReadable(table, iteratorIndex)
    <3>1. index = iteratorIndex /\ iteratorIndex < size
      BY <1>1, <2>1 DEF LoopInv, ValueKept, Counted, AtRow
    <3> QED
      BY <1>1, <2>1, <3>1, Answered
  <2> QED
    BY <1>1, <1>4, <1>5, <1>6, <2>1, <2>2 DEF FrontInv
<1>13. CASE DereferenceAgain
  <2>1. UNCHANGED <<loop, iteratorIndex, loadedIndex, given>> /\ loop = "body"
    BY <1>1, <1>13 DEF DereferenceAgain, LoopInv, ValueKept
  <2> QED
    BY <1>1, <1>6, <2>1 DEF FrontInv
<1>14. CASE Increment
  <2>1. /\ loop \in {"body", "caught"} /\ loop' = "test" /\ iteratorIndex' = iteratorIndex + 1
        /\ UNCHANGED <<loadedIndex, given>>
    BY <1>14 DEF Increment
  <2>2. loadedIndex < iteratorIndex + 1
    BY <1>1, <1>2, <2>1 DEF FrontInv, LoopInv, ValueKept, Loaded
  <2>3. Front <= iteratorIndex + 1 /\ Unread(Front, iteratorIndex + 1)
    <3>1. CASE loop = "body"
      <4>1. Front = iteratorIndex + 1
        BY <1>1, <3>1 DEF FrontInv
      <4>2. Front..(iteratorIndex + 1) - 1 = {}
        BY <1>2, <4>1
      <4> QED
        BY <1>2, <4>1, <4>2 DEF Unread
    <3>2. CASE loop = "caught"
      <4>1. Front <= iteratorIndex /\ Unread(Front, iteratorIndex)
            /\ ~Holds!RowReadable(table, iteratorIndex)
        BY <1>1, <3>2 DEF FrontInv
      <4>2. \A j \in Front..(iteratorIndex + 1) - 1 : j \in Front..iteratorIndex - 1 \/ j = iteratorIndex
        BY <1>2
      <4> QED
        BY <1>2, <4>1, <4>2 DEF Unread
    <3> QED
      BY <2>1, <3>1, <3>2
  <2> QED
    BY <1>4, <1>6, <2>1, <2>2, <2>3 DEF FrontInv
<1>15. CASE Running \/ UNCHANGED allVars
  <2>1. UNCHANGED <<loop, iteratorIndex, loadedIndex, given, index>>
    BY <1>15, CallKeeps DEF Running, scanVars, allVars, vars, call
  <2> QED
    BY <1>1, <1>3, <1>4, <1>5, <1>6, <2>1 DEF FrontInv
<1> QED
  BY <1>7, <1>8, <1>9, <1>10, <1>11, <1>12, <1>13, <1>14, <1>15 DEF ScanNext, Progress

LEMMA ScanInvInit == ScanInit => ScanInv
<1> SUFFICES ASSUME ScanInit PROVE ScanInv
  OBVIOUS
<1>1. LoopInv /\ WalkInv /\ RowInv
  BY LoopInit, WalkInit, RowInit DEF ScanInit
<1>2. Front = 0
  BY DEF Front, ScanInit
<1>3. Unread(0, 0)
  BY DEF Unread
<1>4. FrontInv
  BY <1>2, <1>3 DEF ScanInit, FrontInv
<1> QED
  BY <1>1, <1>4 DEF ScanInv

LEMMA ScanInvStep == ScanInv /\ NoWrap /\ [ScanNext]_allVars => ScanInv'
<1> SUFFICES ASSUME ScanInv, NoWrap, [ScanNext]_allVars PROVE ScanInv'
  OBVIOUS
<1>1. LoopInv /\ WalkInv /\ RowInv
  BY DEF ScanInv
<1>2. [Steps]_vars
  BY <1>1, ScanTakesSteps
<1>3. LoopInv' /\ WalkInv' /\ RowInv'
  BY <1>1, <1>2, LoopStep, WalkInductive, RowInductive
<1> QED
  BY <1>3, FrontStep DEF ScanInv
-----------------------------------------------------------------------------
\* The rows given, as RowScan sees them.
LEMMA GivenFacts ==
    ASSUME NEW S, given \in Seq(S)
    PROVE  /\ \E T : Given \in Seq(T)
           /\ Len(Given) = Len(given)
           /\ \A k \in 1..Len(given) :
                Given[k] = [row |-> given[k].row, value |-> Read(given[k].value)]
           /\ Promised!Behind = Front
<1> DEFINE n == Len(given)
           F(k) == [row |-> given[k].row, value |-> Read(given[k].value)]
           T == {F(k) : k \in 1..n}
<1>1. n \in Nat /\ DOMAIN given = 1..n
  BY LenProperties
<1>2. Given = [k \in 1..n |-> F(k)]
  BY <1>1 DEF Given
<1> HIDE DEF F, n
<1>3. Given \in [1..n -> T]
  BY <1>2
<1> HIDE DEF T
<1>4. Given \in Seq(T) /\ Len(Given) = n
  BY <1>1, <1>3
<1>5. \A k \in 1..n : Given[k] = F(k)
  BY <1>2
<1>6. Given = << >> <=> given = << >>
  BY <1>4, EmptySeq DEF n
<1>7. given # << >> => Given[n].row = given[n].row
  <2>1. given # << >> => n \in 1..n
    BY <1>1, EmptySeq DEF n
  <2>2. F(n).row = given[n].row
    BY DEF F
  <2> QED
    BY <1>5, <2>1, <2>2
<1>8. Promised!Behind = Front
  BY <1>4, <1>6, <1>7 DEF Promised!Behind, Front, n
<1> QED
  BY <1>4, <1>5, <1>8 DEF F, n

\* What is given behind the others is given behind them in RowScan too.
LEMMA GivenGrows ==
    ASSUME NEW S, given \in Seq(S), NEW i, NEW value,
           given' = Append(given, [row |-> i, value |-> value])
    PROVE  Given' = Append(Given, [row |-> i, value |-> Read(value)])
<1> DEFINE new == [row |-> i, value |-> value]
           seen == [row |-> i, value |-> Read(value)]
           n == Len(given)
<1>1. PICK T : Given \in Seq(T)
  BY GivenFacts
<1> DEFINE V == T \union {seen}
           U == S \union {new}
<1>2. given \in Seq(U) /\ new \in U /\ Given \in Seq(V) /\ seen \in V /\ n \in Nat /\ Len(Given) = n
  BY <1>1, SeqMonotonic, GivenFacts, LenProperties
<1>3. new.row = i /\ new.value = value
  OBVIOUS
<1>4. given' = Append(given, new)
  OBVIOUS
<1> HIDE DEF new, seen, V, U, n
<1>5. /\ given' \in Seq(U) /\ Len(given') = n + 1
      /\ \A k \in 1..n : given'[k] = given[k]
      /\ given'[n + 1] = new
  BY <1>2, <1>4, AppendProperties DEF n
<1>6. DOMAIN given' = 1..n + 1
  BY <1>2, <1>5, LenProperties
<1>7. Given' = [k \in 1..n + 1 |-> [row |-> given'[k].row, value |-> Read(given'[k].value)]]
  <2>1. \A v : Read(v)' = Read(v)
    BY DEF Read
  <2> QED
    BY <1>6 DEF Given, Read
<1> DEFINE G == Append(Given, seen)
<1>8. /\ G \in Seq(V) /\ Len(G) = n + 1
      /\ \A k \in 1..n : G[k] = Given[k]
      /\ G[n + 1] = seen
  BY <1>2, AppendProperties
<1>9. DOMAIN G = 1..n + 1 /\ G = [k \in 1..n + 1 |-> G[k]]
  BY <1>2, <1>8, LenProperties
<1> HIDE DEF G
<1>10. ASSUME NEW k \in 1..n + 1
       PROVE  G[k] = [row |-> given'[k].row, value |-> Read(given'[k].value)]
  <2>1. CASE k \in 1..n
    BY <1>5, <1>8, <2>1, GivenFacts DEF n
  <2>2. CASE k = n + 1
    BY <1>3, <1>5, <1>8, <2>2 DEF seen
  <2>3. k \in 1..n \/ k = n + 1
    <3>1. n \in Nat
      BY <1>2
    <3> QED
      BY <3>1
  <2> QED
    BY <2>1, <2>2, <2>3
<1>11. G = Given'
  BY <1>7, <1>9, <1>10
<1> QED
  BY <1>11 DEF G, seen

LEMMA RowFacts ==
    ASSUME size \in Nat
    PROVE  /\ DOMAIN Rows = 0..size - 1
           /\ \A j \in 0..size - 1 :
                /\ Promised!Readable(j) <=> Holds!RowReadable(table, j)
                /\ Promised!Readable(j) =>
                     Rows[j][1] = [recordIndex |-> j, data |-> Holds!RowParts(table, j)]
<1> DEFINE R(j) == [recordIndex |-> j, data |-> Holds!RowParts(table, j)]
<1>1. Rows = [j \in 0..size - 1 |-> IF Holds!RowReadable(table, j) THEN <<R(j)>> ELSE << >>]
  BY DEF Rows
<1> HIDE DEF R
<1>2. \A j \in 0..size - 1 : Rows[j] = IF Holds!RowReadable(table, j) THEN <<R(j)>> ELSE << >>
  BY <1>1
<1>3. \A x : <<x>> # << >> /\ <<x>>[1] = x
  OBVIOUS
<1> QED
  BY <1>1, <1>2, <1>3 DEF Promised!Readable, R

\* Each step of the loop is one of RowScan, or none for it.
LEMMA ScanStepPromised ==
    ASSUME ScanInv, NoWrap, [ScanNext]_allVars
    PROVE  [Promised!Next]_(Promised!vars)
<1>1. LoopInv /\ WalkInv /\ RowInv /\ FrontInv
  BY DEF ScanInv
<1>2. PICK S : given \in Seq(S)
  BY <1>1, FrontFacts
<1>3. /\ size \in Nat /\ iteratorIndex \in Nat /\ iteratorIndex <= size
      /\ Front \in Nat /\ Promised!Behind = Front
  BY <1>1, <1>2, FrontFacts, GivenFacts
<1>4. Rows' = Rows
  BY <1>1, ScanTakesSteps DEF Rows, size, header
<1>5. ASSUME given' = given PROVE Given' = Given
  BY <1>5 DEF Given, Read
<1>6. ASSUME given' = given, (loop = "over") = (loop' = "over") PROVE UNCHANGED Promised!vars
  BY <1>4, <1>5, <1>6 DEF Promised!vars
<1>7. /\ DOMAIN Rows = 0..size - 1
      /\ \A j \in 0..size - 1 : Promised!Readable(j) <=> Holds!RowReadable(table, j)
  BY <1>3, RowFacts
<1>8. ASSUME NEW i \in 0..size - 1, loop # "over", loop' = "over", given' = given,
             Front <= i, Unread(Front, i), ~Holds!RowReadable(table, i)
      PROVE  Promised!Next
  <2>1. \A j \in Front..i : ~Promised!Readable(j)
    <3>1. \A j \in Front..i : j \in 0..size - 1 /\ (j \in Front..i - 1 \/ j = i)
      BY <1>3
    <3> QED
      BY <1>7, <1>8, <3>1 DEF Unread
  <2>2. \E k \in DOMAIN Rows :
            k >= Promised!Behind /\ \A j \in Promised!Behind..k : ~Promised!Readable(j)
    BY <1>3, <1>7, <1>8, <2>1
  <2> QED
    BY <1>4, <1>5, <1>8, <2>2 DEF Promised!Next, Promised!Stop
<1>9. CASE OpenTable \/ Begin \/ Increment
  BY <1>6, <1>9 DEF OpenTable, Begin, Increment
<1>10. CASE Begun
  <2>1. CASE loop' = "test"
    BY <1>6, <1>10, <2>1 DEF Begun
  <2>2. CASE loop' = "over" /\ pc = "thrown"
    <3>1. loop = "beginning" /\ given' = given
      BY <1>10 DEF Begun
    <3>2. index = 0 /\ 0 < size /\ Front <= 0
      BY <1>1, <3>1 DEF FrontInv, LoopInv, Counted, Starting
    <3>3. Front = 0 /\ 0 \in 0..size - 1 /\ Unread(Front, 0)
      BY <1>3, <3>2 DEF Unread
    <3>4. ~Holds!RowReadable(table, 0)
      BY <1>1, <2>2, <3>2, Answered
    <3> QED
      BY <1>8, <2>2, <3>1, <3>2, <3>3, <3>4
  <2> QED
    BY <1>10, <2>1, <2>2 DEF Begun
<1>11. CASE Test
  <2>1. loop = "test" /\ ~Loaded /\ Front <= iteratorIndex /\ Unread(Front, iteratorIndex)
    BY <1>1, <1>11, FrontFacts DEF Test, FrontInv, Loaded
  <2>2. CASE iteratorIndex = size
    <3>1. loop' = "over" /\ given' = given
      BY <1>11, <2>2 DEF Test
    <3>2. \A j \in DOMAIN Rows : j < Promised!Behind \/ ~Promised!Readable(j)
      <4>1. \A j \in 0..size - 1 : j < Front \/ j \in Front..iteratorIndex - 1
        BY <1>3, <2>2
      <4> QED
        BY <1>3, <1>7, <2>1, <4>1 DEF Unread
    <3> QED
      BY <1>4, <1>5, <2>1, <3>1, <3>2 DEF Promised!Next, Promised!Stop
  <2>3. CASE iteratorIndex # size
    <3>1. loop' = "loading" /\ given' = given
      BY <1>11, <2>1, <2>3 DEF Test
    <3> QED
      BY <1>6, <2>1, <3>1
  <2> QED
    BY <2>2, <2>3
<1>12. CASE SetVal
  <2>1. /\ loop = "loading" /\ loop' = "body" /\ pc = "returned"
        /\ given' = Append(given, [row |-> iteratorIndex, value |-> Answer])
    BY <1>12 DEF SetVal, Give
  <2>2. index = iteratorIndex /\ iteratorIndex < size /\ iteratorIndex \in 0..size - 1
    BY <1>1, <1>3, <2>1 DEF LoopInv, ValueKept, Counted, AtRow
  <2>3. /\ Holds!RowReadable(table, iteratorIndex)
        /\ Read(Answer) = [recordIndex |-> iteratorIndex,
                           data |-> Holds!RowParts(table, iteratorIndex)]
    BY <1>1, <2>1, <2>2, Answered
  <2>4. Promised!Readable(iteratorIndex) /\ Rows[iteratorIndex][1] = Read(Answer)
    BY <1>3, <2>2, <2>3, RowFacts
  <2>5. Front <= iteratorIndex /\ Unread(Front, iteratorIndex)
    BY <1>1, <2>1 DEF FrontInv
  <2>6. \A j \in Promised!Behind..iteratorIndex - 1 : ~Promised!Readable(j)
    <3>1. \A j \in Front..iteratorIndex - 1 : j \in 0..size - 1
      BY <1>3, <2>2
    <3> QED
      BY <1>3, <1>7, <2>5, <3>1 DEF Unread
  <2>7. Given' = Append(Given, [row |-> iteratorIndex, value |-> Rows[iteratorIndex][1]])
    BY <1>2, <2>1, <2>4, GivenGrows
  <2>8. Promised!Give(iteratorIndex)
    BY <1>3, <1>4, <2>1, <2>4, <2>5, <2>6, <2>7 DEF Promised!Give
  <2> QED
    BY <1>7, <2>2, <2>8 DEF Promised!Next
<1>13. CASE LoadThrows
  <2>1. loop = "loading" /\ pc = "thrown" /\ loop' \in {"over", "caught"} /\ given' = given
    BY <1>13 DEF LoadThrows
  <2>2. CASE loop' = "caught"
    BY <1>6, <2>1, <2>2
  <2>3. CASE loop' = "over"
    <3>1. index = iteratorIndex /\ iteratorIndex \in 0..size - 1
      BY <1>1, <1>3, <2>1 DEF LoopInv, ValueKept, Counted, AtRow
    <3>2. Front <= iteratorIndex /\ Unread(Front, iteratorIndex)
      BY <1>1, <2>1 DEF FrontInv
    <3>3. ~Holds!RowReadable(table, iteratorIndex)
      BY <1>1, <1>3, <2>1, <3>1, Answered
    <3> QED
      BY <1>8, <2>1, <2>3, <3>1, <3>2, <3>3
  <2> QED
    BY <2>1, <2>2, <2>3
<1>14. CASE DereferenceAgain
  <2>1. given' = given /\ loop' = loop
    BY <1>1, <1>14 DEF DereferenceAgain, LoopInv, ValueKept
  <2> QED
    BY <1>6, <2>1
<1>15. CASE Running \/ UNCHANGED allVars
  <2>1. given' = given /\ loop' = loop
    BY <1>15 DEF Running, scanVars, allVars
  <2> QED
    BY <1>6, <2>1
<1> QED
  BY <1>9, <1>10, <1>11, <1>12, <1>13, <1>14, <1>15 DEF ScanNext, Progress

(* A loop over a flat table gives its rows in order, each once and as the  *)
(* layout of the file has it, and misses none but those operator[] cannot  *)
(* give: for tables of any size that fit into uint32_t, whatever throws    *)
(* and however often the body looks at a row (Database.hpp:16-106).        *)
THEOREM ScanKeepsPromise == ScanSpec /\ []NoWrap => ImplementsScan
<1>1. ScanInit => Promised!Init
  <2> SUFFICES ASSUME ScanInit PROVE Promised!Init
    OBVIOUS
  <2>1. given = << >> /\ loop # "over"
    BY DEF ScanInit
  <2>2. given \in Seq({}) /\ Len(given) = 0
    BY <2>1, EmptySeq
  <2>3. (\E T : Given \in Seq(T)) /\ Len(Given) = 0
    BY <2>2, GivenFacts
  <2>4. Given = << >>
    BY <2>3, EmptySeq
  <2> QED
    BY <2>1, <2>4 DEF Promised!Init
<1> QED
  BY <1>1, ScanInvInit, ScanInvStep, ScanStepPromised, PTL
  DEF ScanSpec, ScanSteps, ImplementsScan, Promised!Spec
=============================================================================
