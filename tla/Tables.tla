------------------------------- MODULE Tables -------------------------------
(***************************************************************************)
(* The hash tables of src/src/runtime/object.c: Table (globals, the intern *)
(* table, methods) and ValueTable (hash maps and sets), open addressing    *)
(* with linear probing and tombstones, and the operations of the language  *)
(* on them.  To implement Maps.                                            *)
(*                                                                         *)
(* A key is a Value; two keys with one text are equal to the table.  The   *)
(* loops that run over a whole table (a rehash, an operation on many keys) *)
(* take a step for each entry; a probe is one step, and there is none when *)
(* it would go round for ever.                                             *)
(***************************************************************************)
EXTENDS Integers, FiniteSets, SequencesExt, FiniteSetsExt

CONSTANTS
    Keys, Texts, Text, Hash, \* a key's contents and hash
    Values, Nil, True,
    Absent,                  \* the answer about a key there is not
    Globals, Strings, Super, Sub, Fields, \* Tables: methods of a class, an instance
    MethodOf,                \* the value a method of a class of its own has
    Map,                     \* a ValueTable
    Interval,                \* the keys of an interval of integers
    Uses,                    \* the sets of tables that programs use
    Exercised,               \* what the program does of HazardousUses
    MinCapacity,             \* of GROW_CAPACITY, a power of two
    MaxCapacity,             \* bound
    Sizes,                   \* the capacities up to MaxCapacity that it doubles to
    MaxBulk                  \* bound: keys of an operation on many

\* hashMapSize counts what was deleted; 0.0 and -0.0 are equal, and hash apart.
HazardousUses == {"stale_size", "signed_zero"}

VARIABLES
    table,   \* entries, from 0 up to the capacity, and count
    op,      \* the operation that runs, its table and the pairs it has yet to set
    grow,    \* adjustCapacity: the new entries, and the old one it is at
    answer,
    uses

vars == <<table, op, grow, answer, uses>>

Names == {Globals, Strings, Super, Sub, Fields, Map}
Pair == Keys \X (Values \cup {Nil})

\* An instance has a class.
ASSUME NamesAssumption ==
    /\ Cardinality(Names) = 6 /\ Uses \subseteq SUBSET Names
    /\ \A u \in Uses : Fields \in u => Sub \in u
ASSUME KeysAssumption ==
    /\ Text \in [Keys -> Texts] /\ Hash \in [Keys -> Nat]
    /\ Exercised \subseteq HazardousUses
    /\ Interval \in Seq(Keys) /\ IsInjective(Interval)
    /\ \/ "signed_zero" \in Exercised
       \/ \A k, l \in Keys : Text[k] = Text[l] => Hash[k] = Hash[l]
ASSUME ValuesAssumption ==
    /\ True \in Values /\ MethodOf \in [{Super, Sub} -> Values]
    /\ Nil \notin Values /\ Absent \notin Values \cup {Nil}
ASSUME BoundsAssumption ==
    /\ MinCapacity \in Nat \ {0, 1} /\ MaxCapacity \in Nat /\ MaxBulk \in Nat
    /\ MinCapacity \in Sizes /\ Sizes \subseteq Nat
    /\ \A c \in Sizes : c = MinCapacity \/ \E d \in Sizes : c = 2 * d
    /\ \A c \in Sizes : 2 * c \in Sizes \/ 2 * c > MaxCapacity

-----------------------------------------------------------------------------
(* Entries.  In a Table a key of NULL with the value nil is an empty entry,*)
(* and with the value true a tombstone; a ValueEntry has a state.          *)

Empty == [state |-> "empty", key |-> Absent, value |-> Nil]
Tombstone == [state |-> "tombstone", key |-> Absent, value |-> Nil]
Used(k, v) == [state |-> "used", key |-> k, value |-> v]
Entry == {Empty, Tombstone} \cup {Used(k, v) : k \in Keys, v \in Values \cup {Nil}}

Capacity(es) == Cardinality(DOMAIN es)
Buckets(capacity) == [i \in 0 .. capacity - 1 |-> Empty]
InUse(es) == {i \in DOMAIN es : es[i].state = "used"}

\* The entry at which a search for a key starts, and the d-th after it, round the end.
Home(es, k) == Hash[k] % Capacity(es)
Bucket(es, k, d) ==
    IF Home(es, k) + d < Capacity(es) THEN Home(es, k) + d
    ELSE Home(es, k) + d - Capacity(es)

\* findEntry stops at the first entry on its way that is empty or has the key.
Stops(es, k) ==
    {d \in DOMAIN es :
        LET e == es[Bucket(es, k, d)]
        IN  e.state = "empty" \/ (e.state = "used" /\ Text[e.key] = Text[k])}
CanProbe(es, k) == Stops(es, k) # {}
Stop(es, k) == Bucket(es, k, Min(Stops(es, k)))

\* Mutant: a tombstone ends the probe.
MutFind(es, k) ==
    LET way == {d \in DOMAIN es : es[Bucket(es, k, d)].state = "tombstone"}
    IN  IF way = {} THEN Stop(es, k)
        ELSE IF Min(way) < Min(Stops(es, k)) THEN Bucket(es, k, Min(way)) ELSE Stop(es, k)

\* findEntry: the key's entry, or else the first tombstone on the way to it.
Find(es, k) ==
    LET way == {d \in 0 .. Min(Stops(es, k)) : es[Bucket(es, k, d)].state = "tombstone"}
    IN  IF es[Stop(es, k)].state = "used" \/ way = {} THEN Stop(es, k)
        ELSE Bucket(es, k, Min(way))

HasKey(t, k) == t.count > 0 /\ t.entries[Find(t.entries, k)].state = "used"
Lookup(t, k) == t.entries[Find(t.entries, k)].value
Searchable(t, k) == t.count > 0 => CanProbe(t.entries, k)

\* tableSet counts a key that takes an empty entry, valueTableSet every new key.
Counted(n, e) == IF n = Map THEN e.state # "used" ELSE e.state = "empty"

\* tableSet once there is room.
Store(n, t, k, v) ==
    LET i == Find(t.entries, k)
    IN  [entries |-> [t.entries EXCEPT ![i] = Used(k, v)],
         count |-> IF Counted(n, t.entries[i]) THEN t.count + 1 ELSE t.count]

\* Mutant: the entry is empty again.
MutDeleted(t, k) == [t EXCEPT !.entries[Find(t.entries, k)] = Empty]

\* Mutant: the tombstone still holds its key and its value.
MutHeld(t, k) == [t EXCEPT !.entries[Find(t.entries, k)].state = "tombstone"]

\* tableDelete, valueTableDelete.
Deleted(t, k) == [t EXCEPT !.entries[Find(t.entries, k)] = Tombstone]

-----------------------------------------------------------------------------
(* Growth.                                                                 *)

Idle == [do |-> "idle", on |-> Globals, todo |-> <<>>]
Still == [at |-> 0, entries |-> <<>>]
Growing == grow.entries # <<>>
t0 == table[op.on]

\* Mutant: the new entries are no more than the old ones.
MutCapacity(capacity) == IF capacity < MinCapacity THEN MinCapacity ELSE capacity

\* GROW_CAPACITY.
NewCapacity(capacity) == IF capacity < MinCapacity THEN MinCapacity ELSE 2 * capacity

\* Mutant: as many keys as entries.
MutFull(t) == t.count + 1 > Capacity(t.entries)

\* TABLE_MAX_LOAD is 3/4.
Full(t) == 4 * (t.count + 1) > 3 * Capacity(t.entries)

\* valueTableReserve(n): the first of the capacities that holds n keys.
Holding(n) == {c \in Sizes : c > (4 * n) \div 3}
Reserved(n) == Min(Holding(n))

\* adjustCapacity starts with all entries empty and none counted.
Grow(n, capacity) ==
    /\ grow' = [at |-> 0, entries |-> Buckets(capacity)]
    /\ table' = [table EXCEPT ![n].count = 0]

StartGrowth ==
    /\ op.todo # <<>> /\ ~Growing /\ Full(t0)
    /\ Grow(op.on, NewCapacity(Capacity(t0.entries)))
    /\ UNCHANGED <<op, answer, uses>>

\* Mutant: entries keep their places.
MutMoved(es, i, e) == [es EXCEPT ![i] = e]

\* Where an entry goes: the place findEntry has for its key.
Moved(es, i, e) == [es EXCEPT ![Find(es, e.key)] = e]

\* One turn of the loop of adjustCapacity.
Rehash ==
    /\ Growing /\ grow.at < Capacity(t0.entries)
    /\ LET e == t0.entries[grow.at]
       IN  IF e.state = "used"
           THEN /\ CanProbe(grow.entries, e.key)
                /\ grow' = [at |-> grow.at + 1, entries |-> Moved(grow.entries, grow.at, e)]
                /\ table' = [table EXCEPT ![op.on].count = @ + 1]
           ELSE /\ grow' = [grow EXCEPT !.at = @ + 1]
                /\ UNCHANGED table
    /\ UNCHANGED <<op, answer, uses>>

EndGrowth ==
    /\ Growing /\ grow.at = Capacity(t0.entries)
    /\ table' = [table EXCEPT ![op.on].entries = grow.entries]
    /\ grow' = Still
    /\ op' = IF op.todo = <<>> THEN Idle ELSE op
    /\ UNCHANGED <<answer, uses>>

-----------------------------------------------------------------------------
(* Operations that set keys.                                               *)

\* Bound: the table can take these without growing past MaxCapacity.
HasRoom(n, pairs) == 4 * (table[n].count + Len(pairs)) <= 3 * MaxCapacity

Begin(do, n, pairs) ==
    /\ op = Idle /\ n \in uses /\ HasRoom(n, pairs)
    /\ op' = [do |-> do, on |-> n, todo |-> pairs]
    /\ answer' = <<>>
    /\ UNCHANGED uses

\* A reservation, if there is one, and then the first pair.
SetAfter(n, reserve, pairs) ==
    /\ Begin("set", n, pairs)
    /\ reserve > 0 => Holding(reserve) # {}    \* Bound: within MaxCapacity.
    /\ IF reserve > 0 /\ Reserved(reserve) > Capacity(table[n].entries)
       THEN Grow(n, Reserved(reserve)) ELSE UNCHANGED <<table, grow>>
Set(n, k, v) == SetAfter(n, 0, <<<<k, v>>>>)

\* OP_DEFINE_GLOBAL.
DefineGlobal == \E k \in Keys, v \in Values : Set(Globals, k, v)

\* OP_SET_GLOBAL.
SetGlobal == \E k \in Keys, v \in Values :
    /\ Begin("assign", Globals, <<<<k, v>>>>)
    /\ UNCHANGED <<table, grow>>

\* copyString and takeString, when tableFindString finds nothing.
Intern == \E k \in Keys :
    /\ Searchable(table[Strings], k) /\ ~HasKey(table[Strings], k)
    /\ Set(Strings, k, Nil)

\* OP_METHOD.  A class has its methods before another inherits from it, and before
\* it has instances.
SetMethod == \E n \in {Super, Sub}, k \in Keys :
    /\ n = Super => table[Sub].count = 0
    /\ table[Fields].count = 0
    /\ Set(n, k, MethodOf[n])

\* OP_INHERIT: tableAddAll, in the order of the entries, before the class's own methods.
Inherit ==
    LET from == table[Super].entries
        used == InUse(from)
    IN  /\ used # {} /\ table[Sub].count = 0
        /\ \E order \in [1 .. Cardinality(used) -> used] :
              /\ \A i, j \in DOMAIN order : i < j => order[i] < order[j]
              /\ SetAfter(Sub, 0, [i \in DOMAIN order |->
                                     <<from[order[i]].key, from[order[i]].value>>])

\* OP_SET_PROPERTY.
SetProperty == \E k \in Keys, v \in Values : Set(Fields, k, v)

\* hashMapSet, hashMapSetInt; hashSetAdd, whose value is true.
HashMapSet == \E k \in Keys, v \in Values : Set(Map, k, v)
HashSetAdd == \E k \in Keys : Set(Map, k, True)

\* hashMapSetBulk: the keys of an array, perhaps one of them again.
HashMapSetBulk == \E n \in 1 .. MaxBulk : \E ks \in [1 .. n -> Keys], vs \in [1 .. n -> Values] :
    SetAfter(Map, n, [i \in 1 .. n |-> <<ks[i], vs[i]>>])

\* hashMapFillRange, hashMapFillStringKeysRange: keys that are not equal.
HashMapFillRange == \E from, to \in DOMAIN Interval, v \in Values :
    /\ from <= to
    /\ SetAfter(Map, to - from + 1, [i \in 1 .. to - from + 1 |-> <<Interval[from + i - 1], v>>])

\* hashSetAddModRange: room for min(count, mod) keys, and count times one of them.
HashSetAddModRange == \E count \in 1 .. MaxBulk, mod \in DOMAIN Interval :
    SetAfter(Map, IF mod < count THEN mod ELSE count,
             [i \in 1 .. count |-> <<Interval[1 + ((i - 1) % mod)], True>>])

\* hashMapWithCapacity, hashSetWithCapacity.
WithCapacity == \E n \in 1 .. MaxBulk :
    /\ Capacity(table[Map].entries) = 0
    /\ SetAfter(Map, n, <<>>)

\* The next pair of the operation, when there is room for it.  An assignment that
\* made a new key deletes it again.
Put ==
    /\ op.todo # <<>> /\ ~Growing /\ ~Full(t0)
    /\ LET k == op.todo[1][1]
           value == op.todo[1][2]
           known == HasKey(t0, k)
       IN  /\ CanProbe(t0.entries, k)
           /\ \E stored \in {Store(op.on, t0, k, value)} :
                  table' = [table EXCEPT ![op.on] =
                      IF op.do = "assign" /\ ~known THEN Deleted(stored, k) ELSE stored]
           /\ answer' = IF op.do = "assign" THEN <<"known", Text[k], known>> ELSE <<>>
    /\ op' = IF Len(op.todo) = 1 THEN Idle ELSE [op EXCEPT !.todo = Tail(@)]
    /\ UNCHANGED <<grow, uses>>

-----------------------------------------------------------------------------
(* Operations of one step.                                                 *)

Read == op = Idle /\ UNCHANGED <<table, op, grow, uses>>

Found(n, k) == IF HasKey(table[n], k) THEN Lookup(table[n], k) ELSE Absent

\* OP_GET_GLOBAL.
GetGlobal == \E k \in Keys :
    /\ Read /\ Globals \in uses /\ Searchable(table[Globals], k)
    /\ answer' = <<"value", <<Globals>>, Text[k], Found(Globals, k)>>

\* tableFindString, which compares texts and never takes a tombstone.
FindString == \E k \in Keys :
    /\ Read /\ Strings \in uses /\ Searchable(table[Strings], k)
    /\ answer' = <<"value", <<Strings>>, Text[k], Found(Strings, k)>>

\* vm_bind_method and vm_invoke_from_class: in the class of a super call, or of a method.
GetMethod == \E n \in uses \cap {Super, Sub}, k \in Keys :
    /\ Read /\ Searchable(table[n], k)
    /\ answer' = <<"value", <<n>>, Text[k], Found(n, k)>>

\* OP_GET_PROPERTY, vm_invoke: a field hides a method.
GetProperty == \E k \in Keys :
    /\ Read /\ Fields \in uses
    /\ \A n \in {Fields, Sub} : Searchable(table[n], k)
    /\ LET n == IF HasKey(table[Fields], k) THEN Fields ELSE Sub
       IN  answer' = <<"value", <<Fields, Sub>>, Text[k], Found(n, k)>>

\* hashMapGet, hashMapHas.
HashMapGet == \E k \in Keys :
    /\ Read /\ Map \in uses /\ Searchable(table[Map], k)
    /\ answer' = <<"value", <<Map>>, Text[k], Found(Map, k)>>

\* hashMapDelete, hashSetDelete: the key has to be there.
HashMapDelete == \E k \in Keys :
    /\ op = Idle /\ Map \in uses /\ Searchable(table[Map], k)
    /\ table' = IF HasKey(table[Map], k)
                THEN [table EXCEPT ![Map] = Deleted(@, k)] ELSE table
    /\ answer' = <<"known", Text[k], HasKey(table[Map], k)>>
    /\ UNCHANGED <<op, grow, uses>>

\* processImports deletes the globals a module does not export.
DeleteGlobal == \E k \in Keys :
    /\ op = Idle /\ Globals \in uses
    /\ Searchable(table[Globals], k) /\ HasKey(table[Globals], k)
    /\ table' = [table EXCEPT ![Globals] = Deleted(@, k)]
    /\ answer' = <<"known", Text[k], TRUE>>
    /\ UNCHANGED <<op, grow, uses>>

\* hashMapClear, hashSetClear.
HashMapClear ==
    /\ op = Idle /\ Map \in uses
    /\ table' = [table EXCEPT ![Map] = [entries |-> <<>>, count |-> 0]]
    /\ answer' = <<>>
    /\ UNCHANGED <<op, grow, uses>>

\* hashMapSize, hashSetSize: count, which deletions do not lower.
HashMapSize ==
    /\ Read /\ Map \in uses
    /\ \/ "stale_size" \in Exercised
       \/ table[Map].count = Cardinality(InUse(table[Map].entries))
    /\ answer' = <<"size", table[Map].count>>

\* hashMapKeys and hashMapValues, hashSetValues.
HashMapKeys ==
    LET es == table[Map].entries
    IN  /\ Read /\ Map \in uses
        /\ answer' = <<"pairs", Cardinality(InUse(es)),
                       {<<Text[es[i].key], es[i].value>> : i \in InUse(es)}>>

\* hashMapCountPresentKeys, hashMapCountPresentRange and its StringKeys.
HashMapCountPresent == \E ks \in {SubSeq(Interval, i, i + 1) : i \in 1 .. Len(Interval) - 1} :
    /\ Read /\ Map \in uses
    /\ \A i \in 1 .. 2 : Searchable(table[Map], ks[i])
    /\ answer' = <<"present", Text[ks[1]], Text[ks[2]],
                 Cardinality({i \in 1 .. 2 : HasKey(table[Map], ks[i])})>>

-----------------------------------------------------------------------------
Init ==
    /\ table = [n \in Names |-> [entries |-> <<>>, count |-> 0]]
    /\ op = Idle /\ grow = Still /\ answer = <<>> /\ uses \in Uses

Goes == StartGrowth \/ Rehash \/ EndGrowth \/ Put
Next ==
    \/ StartGrowth \/ Rehash \/ EndGrowth \/ Put
    \/ DefineGlobal \/ SetGlobal \/ GetGlobal \/ DeleteGlobal \/ Intern \/ FindString
    \/ SetMethod \/ Inherit \/ GetMethod \/ SetProperty \/ GetProperty
    \/ HashMapSet \/ HashSetAdd \/ HashMapSetBulk \/ HashMapFillRange
    \/ HashSetAddModRange \/ WithCapacity \/ HashMapGet \/ HashMapDelete
    \/ HashMapClear \/ HashMapSize \/ HashMapKeys \/ HashMapCountPresent

Spec == Init /\ [][Next]_vars /\ WF_vars(Goes)

-----------------------------------------------------------------------------
(* Properties.                                                             *)

IsTable(es) == Capacity(es) \in Nat /\ es \in [0 .. Capacity(es) - 1 -> Entry]

\* Every entry is empty, a tombstone without a key, or has a key and a value; an
\* operation on many keys sets nothing else.
TypeOK ==
    /\ DOMAIN table = Names
    /\ \A n \in Names :
          /\ DOMAIN table[n] = {"entries", "count"}
          /\ IsTable(table[n].entries) /\ table[n].count \in Nat
    /\ op \in [do : {"idle", "set", "assign"}, on : Names, todo : Seq(Pair)]
    /\ DOMAIN grow = {"at", "entries"} /\ grow.at \in Nat /\ IsTable(grow.entries)
    /\ uses \in Uses

\* Every key in a table, old or growing, is where a search for it ends, so no key is
\* lost behind an empty entry and none is there twice.
FoundOf(es) == \A i \in InUse(es) : CanProbe(es, es[i].key) /\ Find(es, es[i].key) = i
Findable == FoundOf(grow.entries) /\ \A n \in Names : FoundOf(table[n].entries)

\* Deletions leave tombstones that count, so there is always an empty entry for
\* a probe to stop at.  A Table counts exactly the entries that are not empty; a
\* ValueTable may count a reused tombstone twice.
Occupied(es) == {i \in DOMAIN es : es[i].state # "empty"}
Counts ==
    \A n \in Names \ (IF Growing THEN {op.on} ELSE {}) :
        LET t == table[n]
        IN  /\ Cardinality(Occupied(t.entries)) <= t.count
            /\ n # Map => t.count = Cardinality(Occupied(t.entries))
            /\ 4 * t.count <= 3 * Capacity(t.entries)

\* Growth, and an operation on many keys, come to an end.
OperationsEnd == (op # Idle) ~> (op = Idle)

\* Refinement: the tables are maps, whatever the order of keys, deletions and growth.
Contents(es) ==
    [x \in {Text[es[i].key] : i \in InUse(es)} |->
        es[CHOOSE i \in InUse(es) : Text[es[i].key] = x].value]
Dictionary == INSTANCE Maps WITH
    Values <- Values \cup {Nil}, dict <- [n \in uses |-> Contents(table[n].entries)]
Implements == Dictionary!Spec

\* hashMapSize answers the number of keys the map has.
SizeAnswers ==
    [][HashMapSize => answer' = <<"size", Cardinality(InUse(table[Map].entries))>>]_vars
=============================================================================
