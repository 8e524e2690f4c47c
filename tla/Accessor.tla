------------------------------ MODULE Accessor ------------------------------
(***************************************************************************)
(* RuntimeSchema and its record_accessor (Schema.hpp): the values of a     *)
(* record by iteration, by name, and several at once converted by get<>(). *)
(*                                                                         *)
(* The constructor's offsets place each field in the record's data, which  *)
(* has the elements of all fields one behind another.  The debug build     *)
(* asserts that a value is inside the data; the other build reads what     *)
(* lies behind it.  Both end in "undefined" here.                          *)
(***************************************************************************)
EXTENDS Conversions, FiniteSetsExt

VARIABLES
    schema,     \* fields with their names: RuntimeSchema has a list of each
    data,       \* RuntimeRecord::data
    access,     \* where the caller is: the pc of this module
    requests,   \* names and types of a get<>()
    it,         \* get<>()'s iterator: the index of its field, from 1
    found, result, why,
    iterators,  \* a caller's iterator and the copy `it++' returned
    given       \* what the last dereferenced iterator gave, and its index

getVars == <<requests, it, found, result, why>>
iterVars == <<iterators, given>>
accessVars == <<schema, data, access, getVars, iterVars>>

\* Mutant: the offsets count bytes.
ByteOffsets ==
    LET pos[k \in 0..Len(schema)] ==
            IF k = 0 THEN 0 ELSE pos[k - 1] + schema[k].size * schema[k].bytes
    IN  [k \in 1..Len(schema) |-> pos[k - 1]]

\* _field_offsets: the sizes of the fields in front.
Offsets ==
    LET pos[k \in 0..Len(schema)] == IF k = 0 THEN 0 ELSE pos[k - 1] + schema[k].size
    IN  [k \in 1..Len(schema) |-> pos[k - 1]]

\* set_val asserts it for the first element; the others are undefined as well
\* when they are read behind the data.
Inside(k, elements) == Offsets[k] + elements <= Len(data)

ElementOf(k, z) == data[Offsets[k] + z]

\* The values of field k, as the span set_val makes of them.
ValueOf(k) == SubSeq(data, Offsets[k] + 1, Offsets[k] + schema[k].size)

NoIterator == [index |-> 0, loaded |-> 0, val |-> << >>]

NothingGiven == [index |-> 0]

AccessInit ==
    /\ access = "idle"
    /\ requests = << >> /\ it = 0 /\ found = {} /\ result = << >> /\ why = ""
    /\ iterators = [name \in {"it", "old"} |-> NoIterator]
    /\ given = NothingGiven

AccessThrows(reason) == access' = "thrown" /\ why' = reason

-----------------------------------------------------------------------------
GetStart(asked) ==
    /\ access = "idle"
    /\ access' = "getting"
    /\ requests' = asked
    /\ it' = 1 /\ found' = {}
    /\ result' = [i \in 1..Len(asked) |-> << >>]
    /\ UNCHANGED <<schema, data, why, iterVars>>

\* Elements of field k read for a request: one, or as many as both arrays have.
Wanted(dest, k) ==
    CASE dest.count = 0 -> 1
      [] dest.count > schema[k].size -> schema[k].size
      [] OTHER -> dest.count

\* Excess elements are default initialized.
Filled(dest, read) ==
    read \o [z \in 1..(IF dest.count > Len(read) THEN dest.count - Len(read) ELSE 0) |-> 0]

\* The requests for the field's name; the fold over `||' stops at the first.
Named(k) == {i \in 1..Len(requests) : requests[i].name = schema[k].name}

FirstNamed(k) == Min(Named(k))

AllFound(indexes) == indexes = 1..Len(requests)

\* The outcome of request i for the field `it' is at: all its values are read,
\* up to the first that is refused.
Assign(i) ==
    LET dest == requests[i].dest
        read == [z \in 1..Wanted(dest, it) |-> ValRead(ElementOf(it, z), schema[it], dest)]
        bad  == {z \in DOMAIN read : ~read[z].ok}
    IN  \/ /\ bad = {}
           /\ found' = found \union {i}
           /\ result' = [result EXCEPT ![i] = Filled(dest, [z \in DOMAIN read |-> read[z].n])]
           /\ access' = IF AllFound(found') THEN "got" ELSE access
           /\ it' = it + 1
           /\ UNCHANGED why
        \/ /\ bad # {}
           /\ LET reason == read[Min(bad)].why
              IN  IF reason = "undefined" THEN access' = "undefined" /\ UNCHANGED why
                  ELSE AccessThrows(reason)
           /\ UNCHANGED <<it, found, result>>

\* One round of get<>()'s loop, for the field `it' is at.
GetField ==
    /\ access = "getting" /\ it <= Len(schema)
    /\ LET needed == IF Named(it) = {} THEN 1 ELSE Wanted(requests[FirstNamed(it)].dest, it)
       IN  \/ /\ ~Inside(it, needed)
              /\ access' = "undefined"
              /\ UNCHANGED <<it, found, result, why>>
           \/ /\ Inside(it, needed) /\ Named(it) = {}
              /\ access' = IF AllFound(found) THEN "got" ELSE access
              /\ it' = it + 1
              /\ UNCHANGED <<found, result, why>>
           \/ /\ Inside(it, needed) /\ Named(it) # {}
              /\ Assign(FirstNamed(it))
    /\ UNCHANGED <<schema, data, requests, iterVars>>

\* Mutant: a get<>() that has not found all of its names returns.
EndsAnyway ==
    /\ access = "getting" /\ it > Len(schema)
    /\ access' = "got"
    /\ UNCHANGED <<schema, data, requests, it, found, result, why, iterVars>>

GetEnd ==
    /\ access = "getting" /\ it > Len(schema)
    /\ AccessThrows("unmatched")
    /\ UNCHANGED <<schema, data, requests, it, found, result, iterVars>>
-----------------------------------------------------------------------------
Fields(name) == {k \in 1..Len(schema) : schema[k].name = name}

\* std::find over the names.
NameIndex(name) == Min(Fields(name))

\* accessor["name"] is not checked against the data.
ByName(name) ==
    /\ access = "idle"
    /\ IF Fields(name) = {}
       THEN AccessThrows("name") /\ UNCHANGED given
       ELSE IF ~Inside(NameIndex(name), schema[NameIndex(name)].size)
       THEN access' = "undefined" /\ UNCHANGED <<given, why>>
       ELSE /\ access' = "named"
            /\ given' = [index |-> NameIndex(name), value |-> ValueOf(NameIndex(name)), name |-> name]
            /\ UNCHANGED why
    /\ UNCHANGED <<schema, data, requests, it, found, result, iterators>>
-----------------------------------------------------------------------------
Begin ==
    /\ access = "idle"
    /\ access' = "iterating"
    /\ iterators' = [name \in {"it", "old"} |-> [NoIterator EXCEPT !.index = 1]]
    /\ UNCHANGED <<schema, data, getVars, given>>

\* Mutant: a value that is loaded stays.
LoadedOnce(i) == i.loaded # 0

IsLoaded(i) == i.loaded = i.index

\* operator* and operator->: set_val, and what it has loaded.  end() is not
\* dereferenced.
Dereference(name) ==
    LET i == iterators[name]
        current == [name |-> schema[i.index].name, value |-> ValueOf(i.index)]
        val == IF IsLoaded(i) THEN i.val ELSE current
    IN  /\ access = "iterating" /\ i.index <= Len(schema)
        /\ IF ~IsLoaded(i) /\ ~Inside(i.index, schema[i.index].size)
           THEN access' = "undefined" /\ UNCHANGED iterVars
           ELSE /\ iterators' = [iterators EXCEPT ![name] =
                        [index |-> i.index, loaded |-> i.index, val |-> val]]
                /\ given' = [index |-> i.index, value |-> val.value, name |-> val.name]
                /\ UNCHANGED access
        /\ UNCHANGED <<schema, data, getVars>>

\* it++ returns a copy of the iterator as it was; ++it does not.
Advance(postfix) ==
    /\ access = "iterating" /\ iterators["it"].index <= Len(schema)
    /\ iterators' = [iterators EXCEPT
            !["it"].index = @ + 1,
            !["old"] = IF postfix THEN iterators["it"] ELSE @]
    /\ given' = NothingGiven
    /\ UNCHANGED <<schema, data, access, getVars>>

Iterate ==
    \/ \E name \in {"it", "old"} : Dereference(name)
    \/ \E postfix \in BOOLEAN : Advance(postfix)

AccessStep == GetField \/ GetEnd \/ Iterate
-----------------------------------------------------------------------------
\* Each request names a field, and no other request names it.
Matching ==
    /\ \A i \in 1..Len(requests) : Fields(requests[i].name) # {}
    /\ \A i, j \in 1..Len(requests) : requests[i].name = requests[j].name => i = j

\* What the caller was given is the field's of the index it came from, and a
\* name's is the first field that has it.
FieldGiven ==
    given.index # 0 =>
        /\ given.name = schema[given.index].name /\ given.value = ValueOf(given.index)
        /\ access = "named" => \A k \in 1..given.index - 1 : schema[k].name # given.name

(* get<>() returns only for names of the schema, each asked for once, and  *)
(* refuses no such names as unmatched (Schema.hpp:501-516).                *)
GetMatches ==
    /\ access = "got" => Matching
    /\ access = "thrown" /\ why = "unmatched" => Len(requests) = 0 \/ ~Matching
=============================================================================
