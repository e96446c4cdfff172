---------------------------- MODULE TablesProofs ----------------------------
(***************************************************************************)
(* Proofs about the hash tables: that no key is lost or there twice, that  *)
(* counts are right and a probe always ends, and that the tables implement *)
(* Maps, for any keys, hashes and capacities.                              *)
(*                                                                         *)
(* What a search finds depends on the entries it passes: a used entry is   *)
(* where it should be when every entry on the way to it from its key's     *)
(* home is a tombstone or has another text (Reached).  A deletion keeps    *)
(* that because a tombstone is passed; an insertion, because the place it  *)
(* takes is either where the search stopped or a tombstone before it.      *)
(***************************************************************************)
EXTENDS Tables, OrderLemmas

-----------------------------------------------------------------------------
(* The inductive invariant.                                                *)

\* The entries of the old table that a growth has moved.
Copied(old, at) == {i \in InUse(old) : i < at}

\* A growth that has come to an entry has moved just the keys before it, and counted
\* them, into entries that have no tombstones and room for all keys.
Moving(old, count, at, new) ==
    /\ at <= Capacity(old)
    /\ count = Cardinality(Copied(old, at))
    /\ count = Cardinality(InUse(new))
    /\ Occupied(new) = InUse(new)
    /\ \A j \in InUse(new) : \E i \in Copied(old, at) : new[j] = old[i]
    /\ \A i \in Copied(old, at) : \E j \in InUse(new) : new[j] = old[i]
    /\ 4 * Cardinality(InUse(old)) <= 3 * Capacity(new)

Underway == Growing => Moving(t0.entries, t0.count, grow.at, grow.entries)

\* Only an operation has pairs left to set, or a table that grows.
Busy == Growing \/ op.todo # <<>> => op.do # "idle" /\ op.on \in uses

IInv == TypeOK /\ Busy /\ Findable /\ Counts /\ Underway

-----------------------------------------------------------------------------
(* Entries and their places.                                               *)

LEMMA RemainderRange ==
    ASSUME NEW h \in Nat, NEW c \in Nat, c > 0
    PROVE  h % c \in 0 .. c - 1
OBVIOUS

LEMMA Entries ==
    ASSUME NEW e \in Entry
    PROVE  /\ e.state \in {"empty", "tombstone", "used"}
           /\ e.state = "empty" <=> e = Empty
           /\ e.state = "tombstone" <=> e = Tombstone
           /\ e.state = "used" =>
                e.key \in Keys /\ e.value \in Values \cup {Nil} /\ e = Used(e.key, e.value)
BY DEF Entry, Empty, Tombstone, Used

\* A function from an interval that starts at 0 has the capacity one expects.
LEMMA Sized ==
    ASSUME NEW c \in Nat, NEW es \in [0 .. c - 1 -> Entry]
    PROVE  Capacity(es) = c /\ IsTable(es)
<1>1. Cardinality(0 .. c - 1) = c
  BY FS_Interval
<1> QED BY <1>1 DEF Capacity, IsTable

\* Changing an entry of a table leaves its capacity alone.
LEMMA Changed ==
    ASSUME NEW es, IsTable(es), NEW i, NEW e \in Entry
    PROVE  /\ IsTable([es EXCEPT ![i] = e])
           /\ DOMAIN [es EXCEPT ![i] = e] = DOMAIN es
           /\ Capacity([es EXCEPT ![i] = e]) = Capacity(es)
BY DEF IsTable, Capacity

LEMMA Places ==
    ASSUME NEW es, IsTable(es)
    PROVE  /\ DOMAIN es = 0 .. Capacity(es) - 1
           /\ IsFiniteSet(DOMAIN es)
           /\ DOMAIN es \subseteq Nat
           /\ \A i \in DOMAIN es : es[i] \in Entry
           /\ InUse(es) \subseteq Occupied(es) /\ Occupied(es) \subseteq DOMAIN es
           /\ \A i \in InUse(es) : i \in DOMAIN es /\ es[i].key \in Keys
           /\ IsFiniteSet(InUse(es)) /\ IsFiniteSet(Occupied(es))
           /\ Cardinality(InUse(es)) \in Nat /\ Cardinality(Occupied(es)) \in Nat
           /\ Cardinality(InUse(es)) <= Cardinality(Occupied(es))
           /\ Cardinality(Occupied(es)) <= Capacity(es)
<1>1. DOMAIN es = 0 .. Capacity(es) - 1 /\ Capacity(es) \in Nat
  BY DEF IsTable
<1>2. IsFiniteSet(DOMAIN es) /\ Cardinality(DOMAIN es) = Capacity(es)
  BY <1>1, FS_Interval DEF Capacity
<1>3. \A i \in DOMAIN es : es[i] \in Entry
  BY DEF IsTable
<1>4. InUse(es) \subseteq Occupied(es) /\ Occupied(es) \subseteq DOMAIN es
  BY DEF InUse, Occupied
<1>5. \A i \in InUse(es) : i \in DOMAIN es /\ es[i].key \in Keys
  BY <1>3, Entries DEF InUse
<1>6. IsFiniteSet(Occupied(es)) /\ Cardinality(Occupied(es)) <= Capacity(es)
  BY <1>2, <1>4, FS_Subset
<1>7. IsFiniteSet(InUse(es)) /\ Cardinality(InUse(es)) <= Cardinality(Occupied(es))
  BY <1>6, <1>4, FS_Subset
<1>8. Cardinality(InUse(es)) \in Nat /\ Cardinality(Occupied(es)) \in Nat
  BY <1>6, <1>7, FS_CardinalityType
<1> QED BY <1>1, <1>2, <1>3, <1>4, <1>5, <1>6, <1>7, <1>8

LEMMA Buckets0 ==
    ASSUME NEW c \in Nat
    PROVE  /\ IsTable(Buckets(c)) /\ Capacity(Buckets(c)) = c
           /\ Occupied(Buckets(c)) = {} /\ InUse(Buckets(c)) = {}
<1>1. Buckets(c) \in [0 .. c - 1 -> Entry]
  BY DEF Buckets, Entry
<1> QED BY <1>1, Sized DEF Buckets, Occupied, InUse, Empty

\* A search goes through the places of the table, and reaches each of them.
LEMMA BucketIn ==
    ASSUME NEW es, IsTable(es), NEW k \in Keys, NEW d \in DOMAIN es
    PROVE  Bucket(es, k, d) \in DOMAIN es
<1>1. Home(es, k) \in 0 .. Capacity(es) - 1
  BY Places, RemainderRange, KeysAssumption DEF Home, IsTable
<1> QED BY <1>1, Places DEF Bucket, IsTable

LEMMA BucketOnto ==
    ASSUME NEW es, IsTable(es), NEW k \in Keys, NEW i \in DOMAIN es
    PROVE  \E d \in DOMAIN es : Bucket(es, k, d) = i
<1>1. Home(es, k) \in 0 .. Capacity(es) - 1
  BY Places, RemainderRange, KeysAssumption DEF Home, IsTable
<1> DEFINE h == Home(es, k)
           d == IF h <= i THEN i - h ELSE i - h + Capacity(es)
<1>2. d \in DOMAIN es /\ Bucket(es, k, d) = i
  BY <1>1, Places DEF Bucket, IsTable
<1> QED BY <1>2

-----------------------------------------------------------------------------
(* Where a search goes.                                                    *)

\* A search for k goes on past the entry e.
Passes(e, k) ==
    e.state = "tombstone" \/ (e.state = "used" /\ Text[e.key] # Text[k])

\* A search for k passes every entry before the d-th.
Comes(es, k, d) == \A c \in DOMAIN es : c < d => Passes(es[Bucket(es, k, c)], k)

\* A search for k comes to the entry i.
Reached(es, k, i) ==
    \E d \in DOMAIN es : Bucket(es, k, d) = i /\ Comes(es, k, d)

LEMMA StopOrPass ==
    ASSUME NEW es, IsTable(es), NEW k \in Keys, NEW d \in DOMAIN es
    PROVE  d \in Stops(es, k) <=> ~Passes(es[Bucket(es, k, d)], k)
<1> DEFINE e == es[Bucket(es, k, d)]
<1>1. e.state \in {"empty", "tombstone", "used"}
  BY BucketIn, Places, Entries
<1> QED BY <1>1 DEF Stops, Passes

\* The stop is the first entry that the search does not pass.
LEMMA FirstStop ==
    ASSUME NEW es, IsTable(es), NEW k \in Keys, CanProbe(es, k)
    PROVE  /\ Min(Stops(es, k)) \in DOMAIN es
           /\ Min(Stops(es, k)) \in Stops(es, k)
           /\ Comes(es, k, Min(Stops(es, k)))
           /\ Stop(es, k) \in DOMAIN es
           /\ Stop(es, k) = Bucket(es, k, Min(Stops(es, k)))
           /\ ~Passes(es[Stop(es, k)], k)
<1> DEFINE S == Stops(es, k)
           s == Min(S)
<1>1. S \subseteq DOMAIN es
  BY DEF Stops
<1>2. s \in S /\ \A y \in S : s <= y
  <2>1. S \in SUBSET Nat /\ S # {}
    BY <1>1, Places DEF CanProbe
  <2> HIDE DEF S
  <2> QED BY <2>1, LeastNatural
<1>3. s \in DOMAIN es
  BY <1>1, <1>2
<1>4. Comes(es, k, s)
  <2> SUFFICES ASSUME NEW c \in DOMAIN es, c < s PROVE Passes(es[Bucket(es, k, c)], k)
    BY DEF Comes
  <2>1. c \notin S
    BY <1>2, <1>3, Places
  <2> QED BY <2>1, StopOrPass
<1>5. Stop(es, k) = Bucket(es, k, s) /\ Stop(es, k) \in DOMAIN es
  BY <1>3, BucketIn DEF Stop
<1>6. ~Passes(es[Stop(es, k)], k)
  BY <1>2, <1>3, <1>5, StopOrPass
<1> QED BY <1>2, <1>3, <1>4, <1>5, <1>6

\* What findEntry answers: the search comes to it, and does not pass it before, and if
\* it is used it has the key's text.
LEMMA FindAnswers ==
    ASSUME NEW es, IsTable(es), NEW k \in Keys, CanProbe(es, k)
    PROVE  /\ Find(es, k) \in DOMAIN es
           /\ es[Find(es, k)].state = "used" =>
                Find(es, k) = Stop(es, k) /\ Text[es[Find(es, k)].key] = Text[k]
           /\ \E d \in DOMAIN es :
                /\ Bucket(es, k, d) = Find(es, k) /\ Comes(es, k, d)
                /\ \A c \in DOMAIN es : c < d => Bucket(es, k, c) # Find(es, k)
<1> DEFINE s == Min(Stops(es, k))
           way == {d \in 0 .. s : es[Bucket(es, k, d)].state = "tombstone"}
<1>0. /\ s \in DOMAIN es /\ s \in Nat
      /\ Comes(es, k, s)
      /\ Stop(es, k) = Bucket(es, k, s) /\ Stop(es, k) \in DOMAIN es
      /\ ~Passes(es[Stop(es, k)], k)
  BY FirstStop, Places
<1>1. CASE es[Stop(es, k)].state = "used" \/ way = {}
  <2>1. Find(es, k) = Stop(es, k)
    BY <1>1 DEF Find
  <2>2. es[Stop(es, k)].state = "used" => Text[es[Stop(es, k)].key] = Text[k]
    BY <1>0 DEF Passes
  <2>3. \A c \in DOMAIN es : c < s => Bucket(es, k, c) # Stop(es, k)
    BY <1>0 DEF Comes
  <2> QED BY <1>0, <2>1, <2>2, <2>3
<1>2. CASE ~(es[Stop(es, k)].state = "used" \/ way = {})
  <2> DEFINE d == Min(way)
  <2>1. way \in SUBSET Nat /\ way # {}
    BY <1>0, <1>2
  <2>2. d \in way /\ \A y \in way : d <= y
    <3> HIDE DEF way
    <3> QED BY <2>1, LeastNatural
  <2>3. Find(es, k) = Bucket(es, k, d)
    BY <1>2 DEF Find
  <2> HIDE DEF s
  <2>4. d \in 0 .. s /\ es[Bucket(es, k, d)].state = "tombstone"
    BY <2>2
  <2>5. d \in DOMAIN es /\ Bucket(es, k, d) \in DOMAIN es
    <3>1. d \in DOMAIN es
      <4> HIDE DEF d, way
      <4> QED BY <1>0, <2>4, Places DEF IsTable
    <3> QED BY <3>1, BucketIn
  <2>6. Comes(es, k, d)
    BY <1>0, <2>4, Places DEF Comes
  <2>7. \A c \in DOMAIN es : c < d => Bucket(es, k, c) # Find(es, k)
    <3> SUFFICES ASSUME NEW c \in DOMAIN es, c < d, Bucket(es, k, c) = Bucket(es, k, d)
                 PROVE FALSE
      BY <2>3
    <3>1. c \in 0 .. s
      BY <1>0, <2>4, Places
    <3>2. c \in way
      BY <2>4, <3>1
    <3>3. d <= c
      BY <2>2, <3>2
    <3> HIDE DEF d, way
    <3> QED BY <3>1, <3>3, <2>4, <1>0
  <2>8. es[Find(es, k)].state # "used"
    BY <2>3, <2>4
  <2> QED BY <2>3, <2>5, <2>6, <2>7, <2>8
<1> QED BY <1>1, <1>2

\* A used entry is found under its own key just when the search comes to it.
LEMMA FoundIsReached ==
    ASSUME NEW es, IsTable(es), NEW i \in InUse(es)
    PROVE  Reached(es, es[i].key, i)
             <=> CanProbe(es, es[i].key) /\ Find(es, es[i].key) = i
<1> DEFINE k == es[i].key
<1>1. k \in Keys /\ i \in DOMAIN es /\ es[i].state = "used"
  BY Places DEF InUse
<1> HIDE DEF k
<1>2. ASSUME Reached(es, k, i), k = es[i].key PROVE CanProbe(es, k) /\ Find(es, k) = i
  <2>1. PICK d \in DOMAIN es : Bucket(es, k, d) = i /\ Comes(es, k, d)
    BY <1>2 DEF Reached
  <2>2. d \in Stops(es, k)
    BY <1>1, <1>2, <2>1, StopOrPass DEF Passes
  <2>3. CanProbe(es, k)
    BY <2>2 DEF CanProbe
  <2> DEFINE s == Min(Stops(es, k))
  <2>4. s \in DOMAIN es /\ Comes(es, k, s) /\ ~Passes(es[Bucket(es, k, s)], k)
    BY <1>1, <2>3, FirstStop
  <2> HIDE DEF s
  <2>5. ~(s < d)
    BY <2>1, <2>4 DEF Comes
  <2>6. ~(d < s)
    BY <1>1, <1>2, <2>1, <2>4 DEF Comes, Passes
  <2>7. s = d
    BY <2>4, <2>5, <2>6, Places
  <2>8. Stop(es, k) = i
    BY <2>1, <2>7 DEF Stop, s
  <2>9. Find(es, k) = i
    BY <1>1, <2>8 DEF Find
  <2> QED BY <2>3, <2>9
<1>3. ASSUME CanProbe(es, k), Find(es, k) = i PROVE Reached(es, k, i)
  BY <1>1, <1>3, FindAnswers DEF Reached
<1> QED BY <1>2, <1>3 DEF k

LEMMA FoundOfReached ==
    ASSUME NEW es, IsTable(es)
    PROVE  FoundOf(es) <=> \A i \in InUse(es) : Reached(es, es[i].key, i)
BY FoundIsReached DEF FoundOf

-----------------------------------------------------------------------------
(* Keys with one text, where only 0.0 and -0.0 hash apart.                 *)

LEMMA SameText ==
    ASSUME "signed_zero" \notin Exercised, NEW es,
           NEW k \in Keys, NEW l \in Keys, Text[k] = Text[l]
    PROVE  /\ \A d : Bucket(es, k, d) = Bucket(es, l, d)
           /\ \A e : Passes(e, k) <=> Passes(e, l)
           /\ CanProbe(es, k) <=> CanProbe(es, l)
           /\ Stop(es, k) = Stop(es, l)
           /\ Find(es, k) = Find(es, l)
<1>1. Hash[k] = Hash[l]
  BY KeysAssumption
<1>2. \A d : Bucket(es, k, d) = Bucket(es, l, d)
  BY <1>1 DEF Bucket, Home
<1>3. Stops(es, k) = Stops(es, l)
  BY <1>2 DEF Stops
<1>4. Stop(es, k) = Stop(es, l)
  BY <1>2, <1>3 DEF Stop
<1>5. Find(es, k) = Find(es, l)
  <2>1. {d \in 0 .. Min(Stops(es, k)) : es[Bucket(es, k, d)].state = "tombstone"}
          = {d \in 0 .. Min(Stops(es, l)) : es[Bucket(es, l, d)].state = "tombstone"}
    BY <1>2, <1>3
  <2> QED BY <1>2, <1>4, <2>1 DEF Find
<1> QED BY <1>2, <1>3, <1>4, <1>5 DEF Passes, CanProbe

\* Of the entries of a table no two have one text.
LEMMA OneOfEach ==
    ASSUME "signed_zero" \notin Exercised, NEW es, IsTable(es), FoundOf(es),
           NEW i \in InUse(es), NEW j \in InUse(es), Text[es[i].key] = Text[es[j].key]
    PROVE  i = j
<1>1. es[i].key \in Keys /\ es[j].key \in Keys
  BY Places
<1>2. Find(es, es[i].key) = Find(es, es[j].key)
  BY <1>1, SameText
<1> QED BY <1>2 DEF FoundOf

\* A search for a key finds an entry with its text when there is one.
LEMMA FindsTheKey ==
    ASSUME "signed_zero" \notin Exercised, NEW es, IsTable(es), FoundOf(es),
           NEW k \in Keys
    PROVE  /\ \A i \in InUse(es) : Text[es[i].key] = Text[k] => CanProbe(es, k) /\ Find(es, k) = i
           /\ CanProbe(es, k) =>
                (es[Find(es, k)].state = "used" <=> Text[k] \in {Text[es[i].key] : i \in InUse(es)})
<1>1. ASSUME NEW i \in InUse(es), Text[es[i].key] = Text[k]
      PROVE  CanProbe(es, k) /\ Find(es, k) = i
  <2>1. es[i].key \in Keys
    BY Places
  <2>2. CanProbe(es, es[i].key) /\ Find(es, es[i].key) = i
    BY DEF FoundOf
  <2> QED BY <1>1, <2>1, <2>2, SameText
<1>2. ASSUME CanProbe(es, k), es[Find(es, k)].state = "used"
      PROVE  Find(es, k) \in InUse(es) /\ Text[es[Find(es, k)].key] = Text[k]
  BY <1>2, FindAnswers DEF InUse
<1>3. ASSUME Text[k] \in {Text[es[i].key] : i \in InUse(es)}
      PROVE  es[Find(es, k)].state = "used"
  <2>1. PICK i \in InUse(es) : Text[es[i].key] = Text[k]
    BY <1>3
  <2>2. Find(es, k) = i
    BY <1>1, <2>1
  <2> QED BY <2>2 DEF InUse
<1> QED BY <1>1, <1>2, <1>3

-----------------------------------------------------------------------------
(* Changes to entries.                                                     *)

\* An entry that turns into a tombstone hides no other.
LEMMA Buried ==
    ASSUME NEW es, IsTable(es), FoundOf(es), NEW j
    PROVE  /\ IsTable([es EXCEPT ![j] = Tombstone])
           /\ FoundOf([es EXCEPT ![j] = Tombstone])
           /\ InUse([es EXCEPT ![j] = Tombstone]) = InUse(es) \ {j}
           /\ j \in Occupied(es) => Occupied([es EXCEPT ![j] = Tombstone]) = Occupied(es)
<1> DEFINE new == [es EXCEPT ![j] = Tombstone]
<1>0. IsTable(new) /\ DOMAIN new = DOMAIN es /\ Capacity(new) = Capacity(es)
  <2>1. Tombstone \in Entry
    BY DEF Entry
  <2> QED BY <2>1, Changed
<1>1. InUse(new) = InUse(es) \ {j}
  BY <1>0 DEF InUse, Tombstone
<1>2. j \in Occupied(es) => Occupied(new) = Occupied(es)
  BY <1>0 DEF Occupied, Tombstone
<1>3. \A k, d : Bucket(new, k, d) = Bucket(es, k, d)
  BY <1>0 DEF Bucket, Home
<1>4. \A k : \A i \in DOMAIN es : Passes(es[i], k) => Passes(new[i], k)
  BY DEF Passes, Tombstone
<1>5. \A i \in InUse(new) : i \in InUse(es) /\ new[i] = es[i]
  BY <1>1, <1>0 DEF InUse
<1> HIDE DEF new
<1>6. \A i \in InUse(new) : Reached(new, new[i].key, i)
  <2> SUFFICES ASSUME NEW i \in InUse(new) PROVE Reached(new, es[i].key, i)
    BY <1>5
  <2> DEFINE k == es[i].key
  <2>1. Reached(es, k, i) /\ k \in Keys
    BY <1>5, FoundOfReached, Places
  <2> HIDE DEF k
  <2>2. PICK d \in DOMAIN es : Bucket(es, k, d) = i /\ Comes(es, k, d)
    BY <2>1 DEF Reached
  <2>3. \A c \in DOMAIN es : Bucket(es, k, c) \in DOMAIN es
    BY <2>1, BucketIn
  <2>4. Comes(new, k, d)
    BY <1>0, <1>3, <1>4, <2>2, <2>3 DEF Comes
  <2>5. Reached(new, k, i)
    BY <1>0, <1>3, <2>2, <2>4 DEF Reached
  <2> QED BY <2>5 DEF k
<1>7. FoundOf(new)
  BY <1>0, <1>6, FoundOfReached
<1> QED BY <1>0, <1>1, <1>2, <1>7 DEF new

\* A key is found where it is stored, and hides no other.
LEMMA Stored ==
    ASSUME "signed_zero" \notin Exercised, NEW es, IsTable(es), FoundOf(es),
           NEW k \in Keys, CanProbe(es, k), NEW v \in Values \cup {Nil}
    PROVE  LET f == Find(es, k)
               new == [es EXCEPT ![f] = Used(k, v)]
           IN  /\ IsTable(new) /\ FoundOf(new)
               /\ f \in DOMAIN es /\ new[f] = Used(k, v)
               /\ InUse(new) = InUse(es) \cup {f}
               /\ Occupied(new) = Occupied(es) \cup {f}
               /\ CanProbe(new, k) /\ Find(new, k) = f
<1> DEFINE f == Find(es, k)
           new == [es EXCEPT ![f] = Used(k, v)]
<1>0. IsTable(new) /\ DOMAIN new = DOMAIN es /\ Capacity(new) = Capacity(es)
  <2>1. Used(k, v) \in Entry
    BY DEF Entry
  <2> QED BY <2>1, Changed
<1>1. f \in DOMAIN es /\ (es[f].state = "used" => Text[es[f].key] = Text[k])
  BY FindAnswers
<1>2. PICK d0 \in DOMAIN es :
        /\ Bucket(es, k, d0) = f /\ Comes(es, k, d0)
        /\ \A c \in DOMAIN es : c < d0 => Bucket(es, k, c) # f
  BY FindAnswers
<1>3. \A l, d : Bucket(new, l, d) = Bucket(es, l, d)
  BY <1>0 DEF Bucket, Home
<1>4. /\ new[f] = Used(k, v)
      /\ \A i \in DOMAIN es : i # f => new[i] = es[i]
  BY <1>1
<1>5. InUse(new) = InUse(es) \cup {f} /\ Occupied(new) = Occupied(es) \cup {f}
  BY <1>0, <1>1, <1>4 DEF InUse, Occupied, Used
<1>6. new[f].key = k /\ new[f].state = "used"
  BY <1>4 DEF Used
<1> HIDE DEF new, f
<1>7. Reached(new, k, f)
  <2>1. \A c \in DOMAIN es : Bucket(es, k, c) \in DOMAIN es
    BY BucketIn
  <2>2. Comes(new, k, d0)
    BY <1>0, <1>2, <1>3, <1>4, <2>1 DEF Comes
  <2> QED BY <1>0, <1>2, <1>3, <2>2 DEF Reached
<1>8. \A i \in InUse(new) : Reached(new, new[i].key, i)
  <2> SUFFICES ASSUME NEW i \in InUse(es), i # f PROVE Reached(new, es[i].key, i)
    BY <1>4, <1>5, <1>6, <1>7, Places
  <2> DEFINE l == es[i].key
  <2>1. Reached(es, l, i) /\ l \in Keys
    BY FoundOfReached, Places
  <2>2. Text[k] # Text[l]
    BY FindsTheKey DEF f
  <2> HIDE DEF l
  <2>3. PICK d \in DOMAIN es : Bucket(es, l, d) = i /\ Comes(es, l, d)
    BY <2>1 DEF Reached
  <2>4. \A c \in DOMAIN es : Bucket(es, l, c) \in DOMAIN es
    BY <2>1, BucketIn
  <2>5. Passes(new[f], l)
    BY <1>6, <2>2 DEF Passes
  <2>6. Comes(new, l, d)
    BY <1>0, <1>3, <1>4, <2>3, <2>4, <2>5 DEF Comes
  <2>7. Reached(new, l, i)
    BY <1>0, <1>3, <2>3, <2>6 DEF Reached
  <2> QED BY <2>7 DEF l
<1>9. FoundOf(new)
  BY <1>0, <1>8, FoundOfReached
<1>10. CanProbe(new, k) /\ Find(new, k) = f
  BY <1>5, <1>6, <1>9 DEF FoundOf
<1> QED BY <1>0, <1>1, <1>4, <1>5, <1>9, <1>10 DEF new, f

\* While a table is not full of entries that are not empty, every search in it ends.
LEMMA SearchEnds ==
    ASSUME NEW es, IsTable(es), NEW k \in Keys, Cardinality(Occupied(es)) < Capacity(es)
    PROVE  CanProbe(es, k)
<1>1. Cardinality(DOMAIN es) = Capacity(es)
  BY DEF Capacity
<1>2. PICK i \in DOMAIN es : i \notin Occupied(es)
  BY <1>1, Places
<1>3. PICK d \in DOMAIN es : Bucket(es, k, d) = i
  BY BucketOnto
<1>4. es[Bucket(es, k, d)].state = "empty"
  BY <1>2, <1>3 DEF Occupied
<1>5. d \in Stops(es, k)
  BY <1>4 DEF Stops
<1> QED BY <1>5 DEF CanProbe

-----------------------------------------------------------------------------
(* The steps, by what they do to the tables.                               *)

Starting == \E n \in Names, reserve \in Nat, pairs \in Seq(Pair) :
    /\ SetAfter(n, reserve, pairs)
    /\ pairs # <<>> \/ (reserve > 0 /\ Capacity(table[n].entries) = 0)
Assigning == \E pairs \in Seq(Pair) :
    pairs # <<>> /\ Begin("assign", Globals, pairs) /\ UNCHANGED <<table, grow>>
Burying == \E n \in uses \cap Names, k \in Keys :
    /\ op = Idle /\ Searchable(table[n], k) /\ HasKey(table[n], k)
    /\ table' = [table EXCEPT ![n] = Deleted(@, k)]
    /\ UNCHANGED <<op, grow, uses>>
Resting == UNCHANGED <<table, op, grow, uses>>

LEMMA ListOf ==
    ASSUME NEW S, NEW n \in Nat, NEW f \in [1 .. n -> S]
    PROVE  f \in Seq(S) /\ (n > 0 => f # <<>>)
<1>1. f \in Seq(S) /\ Len(f) = n
  OBVIOUS
<1>2. n > 0 => f # <<>>
  BY <1>1
<1> QED BY <1>1, <1>2

LEMMA OnePair ==
    ASSUME NEW k \in Keys, NEW v \in Values \cup {Nil}
    PROVE  <<<<k, v>>>> \in Seq(Pair) /\ <<<<k, v>>>> # <<>>
<1>1. <<k, v>> \in Pair
  BY DEF Pair
<1> QED BY <1>1

LEMMA SetStarts ==
    ASSUME NEW n \in Names, NEW k \in Keys, NEW v \in Values \cup {Nil}, Set(n, k, v)
    PROVE  Starting
<1>1. SetAfter(n, 0, <<<<k, v>>>>)
  BY DEF Set
<1>2. <<<<k, v>>>> \in Seq(Pair) /\ <<<<k, v>>>> # <<>>
  BY OnePair
<1> QED BY <1>1, <1>2 DEF Starting

LEMMA Sets ==
    ASSUME DefineGlobal \/ Intern \/ SetMethod \/ SetProperty \/ HashMapSet \/ HashSetAdd
    PROVE  Starting
<1> USE DEF Names
<1>1. CASE DefineGlobal
  BY <1>1, SetStarts DEF DefineGlobal
<1>2. CASE Intern
  BY <1>2, SetStarts DEF Intern
<1>3. CASE SetMethod
  BY <1>3, SetStarts, ValuesAssumption DEF SetMethod
<1>4. CASE SetProperty
  BY <1>4, SetStarts DEF SetProperty
<1>5. CASE HashMapSet
  BY <1>5, SetStarts DEF HashMapSet
<1>6. CASE HashSetAdd
  BY <1>6, SetStarts, ValuesAssumption DEF HashSetAdd
<1> QED BY <1>1, <1>2, <1>3, <1>4, <1>5, <1>6

LEMMA Bulks ==
    ASSUME HashMapSetBulk \/ HashMapFillRange \/ HashSetAddModRange \/ WithCapacity
    PROVE  Starting
<1>0. Map \in Names /\ True \in Values /\ Interval \in Seq(Keys) /\ MaxBulk \in Nat
  BY ValuesAssumption, KeysAssumption, BoundsAssumption DEF Names
<1>1. CASE HashMapSetBulk
  <2>0. PICK n \in 1 .. MaxBulk : \E ks \in [1 .. n -> Keys], vs \in [1 .. n -> Values] :
          SetAfter(Map, n, [i \in 1 .. n |-> <<ks[i], vs[i]>>])
    BY <1>1 DEF HashMapSetBulk
  <2>1. PICK ks \in [1 .. n -> Keys], vs \in [1 .. n -> Values] :
          SetAfter(Map, n, [i \in 1 .. n |-> <<ks[i], vs[i]>>])
    BY <2>0
  <2>2. n \in Nat /\ n > 0
    BY <1>0
  <2>4. [i \in 1 .. n |-> <<ks[i], vs[i]>>] \in Seq(Pair)
        /\ [i \in 1 .. n |-> <<ks[i], vs[i]>>] # <<>>
    <3> DEFINE p == [i \in 1 .. n |-> <<ks[i], vs[i]>>]
    <3>1. p \in [1 .. n -> Pair]
      BY DEF Pair
    <3> HIDE DEF p
    <3>2. p \in Seq(Pair) /\ p # <<>>
      BY <2>2, <3>1, ListOf
    <3> QED BY <3>2 DEF p
  <2> QED BY <1>0, <2>1, <2>2, <2>4 DEF Starting
<1>2. CASE HashMapFillRange
  <2>1. PICK from \in DOMAIN Interval, to \in DOMAIN Interval, v \in Values :
          /\ from <= to
          /\ SetAfter(Map, to - from + 1,
                [i \in 1 .. to - from + 1 |-> <<Interval[from + i - 1], v>>])
    BY <1>2 DEF HashMapFillRange
  <2>2. from \in Nat /\ to \in Nat /\ from >= 1 /\ to <= Len(Interval)
        /\ to - from + 1 \in Nat /\ to - from + 1 > 0
    <3>1. from \in 1 .. Len(Interval) /\ to \in 1 .. Len(Interval) /\ Len(Interval) \in Nat
      BY <1>0
    <3>2. from <= to
      BY <2>1
    <3> QED BY <3>1, <3>2
  <2>3. \A i \in 1 .. to - from + 1 : Interval[from + i - 1] \in Keys
    BY <1>0, <2>2
  <2>4. \A i \in 1 .. to - from + 1 : <<Interval[from + i - 1], v>> \in Pair
    BY <2>3 DEF Pair
  <2>5. /\ [i \in 1 .. to - from + 1 |-> <<Interval[from + i - 1], v>>] \in Seq(Pair)
        /\ [i \in 1 .. to - from + 1 |-> <<Interval[from + i - 1], v>>] # <<>>
    <3> DEFINE p == [i \in 1 .. to - from + 1 |-> <<Interval[from + i - 1], v>>]
    <3>1. p \in [1 .. to - from + 1 -> Pair]
      BY <2>4
    <3> HIDE DEF p
    <3>2. p \in Seq(Pair) /\ p # <<>>
      BY <2>2, <3>1, ListOf
    <3> QED BY <3>2 DEF p
  <2> QED BY <1>0, <2>1, <2>2, <2>5 DEF Starting
<1>3. CASE HashSetAddModRange
  <2>1. PICK count \in 1 .. MaxBulk, mod \in DOMAIN Interval :
          SetAfter(Map, IF mod < count THEN mod ELSE count,
                   [i \in 1 .. count |-> <<Interval[1 + ((i - 1) % mod)], True>>])
    BY <1>3 DEF HashSetAddModRange
  <2>2. count \in Nat /\ count > 0 /\ mod \in Nat /\ mod >= 1 /\ mod <= Len(Interval)
    BY <1>0
  <2>3. ASSUME NEW i \in 1 .. count PROVE <<Interval[1 + ((i - 1) % mod)], True>> \in Pair
    <3>1. (i - 1) % mod \in 0 .. mod - 1
      BY <2>2, RemainderRange
    <3> DEFINE r == (i - 1) % mod
    <3> HIDE DEF r
    <3>2. 1 + r \in 1 .. Len(Interval)
      BY <2>2, <3>1, <1>0 DEF r
    <3>3. Interval[1 + r] \in Keys
      BY <1>0, <3>2
    <3> QED BY <1>0, <3>3 DEF Pair, r
  <2>4. /\ [i \in 1 .. count |-> <<Interval[1 + ((i - 1) % mod)], True>>] \in Seq(Pair)
        /\ [i \in 1 .. count |-> <<Interval[1 + ((i - 1) % mod)], True>>] # <<>>
    <3> DEFINE p == [i \in 1 .. count |-> <<Interval[1 + ((i - 1) % mod)], True>>]
    <3>1. p \in [1 .. count -> Pair]
      BY <2>3
    <3> HIDE DEF p
    <3>2. p \in Seq(Pair) /\ p # <<>>
      BY <3>1, <2>2, ListOf
    <3> QED BY <3>2 DEF p
  <2>5. (IF mod < count THEN mod ELSE count) \in Nat
    BY <2>2
  <2> QED BY <1>0, <2>1, <2>4, <2>5 DEF Starting
<1>4. CASE WithCapacity
  <2>1. <<>> \in Seq(Pair)
    OBVIOUS
  <2>2. PICK n \in 1 .. MaxBulk : SetAfter(Map, n, <<>>)
    BY <1>4 DEF WithCapacity
  <2>3. n \in Nat /\ n > 0 /\ Capacity(table[Map].entries) = 0
    BY <1>0, <1>4 DEF WithCapacity
  <2> QED BY <1>0, <2>1, <2>2, <2>3 DEF Starting
<1> QED BY <1>1, <1>2, <1>3, <1>4

LEMMA InheritStarts ==
    ASSUME TypeOK, Inherit
    PROVE  Starting
<1> DEFINE from == table[Super].entries
           used == InUse(from)
<1>0. Super \in Names /\ Sub \in Names /\ IsTable(from)
  BY DEF Names, TypeOK
<1>1. PICK order \in [1 .. Cardinality(used) -> used] :
        SetAfter(Sub, 0, [i \in DOMAIN order |->
                            <<from[order[i]].key, from[order[i]].value>>])
  BY DEF Inherit
<1>2. \A j \in used : <<from[j].key, from[j].value>> \in Pair
  BY <1>0, Places, Entries DEF InUse, Pair
<1>3. Cardinality(used) \in Nat /\ Cardinality(used) > 0
  <2>1. used # {} /\ IsFiniteSet(used) /\ Cardinality(used) \in Nat
    BY <1>0, Places DEF Inherit
  <2> HIDE DEF used
  <2>2. Cardinality(used) # 0
    BY <2>1, FS_EmptySet
  <2> QED BY <2>1, <2>2
<1> HIDE DEF from, used
<1>4. /\ [i \in DOMAIN order |-> <<from[order[i]].key, from[order[i]].value>>] \in Seq(Pair)
      /\ [i \in DOMAIN order |-> <<from[order[i]].key, from[order[i]].value>>] # <<>>
  <2> DEFINE p == [i \in DOMAIN order |-> <<from[order[i]].key, from[order[i]].value>>]
  <2>1. p \in [1 .. Cardinality(used) -> Pair]
    BY <1>2
  <2> HIDE DEF p
  <2>2. p \in Seq(Pair) /\ p # <<>>
    BY <1>3, <2>1, ListOf
  <2> QED BY <2>2 DEF p
<1> QED BY <1>0, <1>1, <1>4 DEF Starting

LEMMA Buries ==
    ASSUME uses \subseteq Names, HashMapDelete \/ DeleteGlobal
    PROVE  Burying \/ Resting
<1>1. CASE HashMapDelete
  BY <1>1 DEF HashMapDelete, Burying, Resting
<1>2. CASE DeleteGlobal
  BY <1>2 DEF DeleteGlobal, Burying
<1> QED BY <1>1, <1>2

LEMMA Reads ==
    ASSUME GetGlobal \/ FindString \/ GetMethod \/ GetProperty \/ HashMapGet
             \/ HashMapSize \/ HashMapKeys \/ HashMapCountPresent
    PROVE  Resting
BY DEF GetGlobal, FindString, GetMethod, GetProperty, HashMapGet, HashMapSize,
       HashMapKeys, HashMapCountPresent, Read, Resting

LEMMA AssignsOne ==
    ASSUME SetGlobal
    PROVE  Assigning
BY OnePair DEF SetGlobal, Assigning

LEMMA Kinds ==
    ASSUME TypeOK, [Next]_vars
    PROVE  \/ StartGrowth \/ Rehash \/ EndGrowth \/ Put
           \/ Starting \/ Assigning \/ Burying \/ HashMapClear \/ Resting
<1>0. uses \subseteq Names
  BY NamesAssumption DEF TypeOK
<1>1. CASE DefineGlobal \/ Intern \/ SetMethod \/ SetProperty \/ HashMapSet \/ HashSetAdd
  BY <1>1, Sets
<1>2. CASE HashMapSetBulk \/ HashMapFillRange \/ HashSetAddModRange \/ WithCapacity
  BY <1>2, Bulks
<1>3. CASE Inherit
  BY <1>3, InheritStarts
<1>4. CASE SetGlobal
  BY <1>4, AssignsOne
<1>5. CASE HashMapDelete \/ DeleteGlobal
  BY <1>0, <1>5, Buries
<1>6. CASE GetGlobal \/ FindString \/ GetMethod \/ GetProperty \/ HashMapGet
             \/ HashMapSize \/ HashMapKeys \/ HashMapCountPresent
  BY <1>6, Reads
<1>7. CASE UNCHANGED vars
  BY <1>7 DEF vars, Resting
<1> QED BY <1>1, <1>2, <1>3, <1>4, <1>5, <1>6, <1>7 DEF Next

-----------------------------------------------------------------------------
(* Type correctness.                                                       *)

LEMMA ReservedIs ==
    ASSUME NEW n, Holding(n) # {}
    PROVE  Reserved(n) \in Nat
<1>1. Holding(n) \in SUBSET Nat
  BY BoundsAssumption DEF Holding
<1> QED BY <1>1, LeastNatural DEF Reserved

LEMMA NewCapacityIs ==
    ASSUME NEW c \in Nat
    PROVE  NewCapacity(c) \in Nat /\ NewCapacity(c) >= c /\ NewCapacity(c) > 0
BY BoundsAssumption DEF NewCapacity

\* A growth starts with entries that are all empty.
LEMMA GrowTyped ==
    ASSUME TypeOK, NEW n \in Names, NEW c \in Nat, Grow(n, c), UNCHANGED uses,
           op' \in [do : {"idle", "set", "assign"}, on : Names, todo : Seq(Pair)]
    PROVE  TypeOK'
<1>1. IsTable(grow'.entries) /\ DOMAIN grow' = {"at", "entries"} /\ grow'.at = 0
  BY Buckets0 DEF Grow
<1>2. DOMAIN table' = Names
  BY DEF Grow, TypeOK
<1>3. \A m \in Names :
          /\ DOMAIN table'[m] = {"entries", "count"}
          /\ IsTable(table'[m].entries) /\ table'[m].count \in Nat
  BY DEF Grow, TypeOK
<1> QED BY <1>1, <1>2, <1>3 DEF TypeOK

\* A table gets new entries and a new count.
LEMMA TableTyped ==
    ASSUME TypeOK, NEW n \in Names, NEW t,
           DOMAIN t = {"entries", "count"}, IsTable(t.entries), t.count \in Nat,
           table' = [table EXCEPT ![n] = t]
    PROVE  /\ DOMAIN table' = Names
           /\ \A m \in Names :
                /\ DOMAIN table'[m] = {"entries", "count"}
                /\ IsTable(table'[m].entries) /\ table'[m].count \in Nat
BY DEF TypeOK

LEMMA EmptyTable ==
    IsTable(<<>>) /\ Capacity(<<>>) = 0 /\ InUse(<<>>) = {} /\ Occupied(<<>>) = {}
<1>1. <<>> \in [0 .. 0 - 1 -> Entry]
  OBVIOUS
<1>2. IsTable(<<>>) /\ Capacity(<<>>) = 0
  BY <1>1, Sized
<1> QED BY <1>2 DEF InUse, Occupied

LEMMA FirstPair ==
    ASSUME TypeOK, op.todo # <<>>
    PROVE  /\ op.todo[1][1] \in Keys /\ op.todo[1][2] \in Values \cup {Nil}
           /\ Tail(op.todo) \in Seq(Pair)
<1>1. op.todo \in Seq(Pair)
  BY DEF TypeOK
<1>2. op.todo[1] \in Pair /\ Tail(op.todo) \in Seq(Pair)
  BY <1>1
<1> QED BY <1>2 DEF Pair

LEMMA IdleTyped == Idle \in [do : {"idle", "set", "assign"}, on : Names, todo : Seq(Pair)]
BY DEF Idle, Names

\* A table as the operations of one key leave it.
LEMMA StoreTyped ==
    ASSUME NEW t, IsTable(t.entries), t.count \in Nat, NEW n,
           NEW k \in Keys, NEW v \in Values \cup {Nil}
    PROVE  /\ DOMAIN Store(n, t, k, v) = {"entries", "count"}
           /\ IsTable(Store(n, t, k, v).entries) /\ Store(n, t, k, v).count \in Nat
<1>1. Used(k, v) \in Entry
  BY DEF Entry
<1>2. \A i : IsTable([t.entries EXCEPT ![i] = Used(k, v)])
  BY <1>1, Changed
<1>3. Store(n, t, k, v).entries = [t.entries EXCEPT ![Find(t.entries, k)] = Used(k, v)]
  BY DEF Store
<1>4. Store(n, t, k, v).count \in Nat
  BY DEF Store
<1> QED BY <1>2, <1>3, <1>4 DEF Store

LEMMA DeletedTyped ==
    ASSUME NEW t, DOMAIN t = {"entries", "count"}, IsTable(t.entries), t.count \in Nat,
           NEW k
    PROVE  /\ DOMAIN Deleted(t, k) = {"entries", "count"}
           /\ Deleted(t, k).entries = [t.entries EXCEPT ![Find(t.entries, k)] = Tombstone]
           /\ IsTable(Deleted(t, k).entries) /\ Deleted(t, k).count = t.count
<1>1. Tombstone \in Entry
  BY DEF Entry
<1>2. \A i : IsTable([t.entries EXCEPT ![i] = Tombstone])
  BY <1>1, Changed
<1>3. /\ Deleted(t, k).entries = [t.entries EXCEPT ![Find(t.entries, k)] = Tombstone]
      /\ Deleted(t, k).count = t.count
      /\ DOMAIN Deleted(t, k) = {"entries", "count"}
  BY DEF Deleted
<1> QED BY <1>2, <1>3

LEMMA TypeInit ==
    ASSUME Init
    PROVE  TypeOK
<1>1. \A n \in Names :
          /\ DOMAIN table[n] = {"entries", "count"}
          /\ IsTable(table[n].entries) /\ table[n].count \in Nat
  BY EmptyTable DEF Init
<1>2. DOMAIN grow = {"at", "entries"} /\ grow.at \in Nat /\ IsTable(grow.entries)
  BY EmptyTable DEF Init, Still
<1> QED BY <1>1, <1>2, IdleTyped DEF Init, TypeOK

LEMMA TypeStep ==
    ASSUME TypeOK, [Next]_vars
    PROVE  TypeOK'
<1> DEFINE Op == [do : {"idle", "set", "assign"}, on : Names, todo : Seq(Pair)]
<1>0. /\ op.on \in Names /\ op.todo \in Seq(Pair) /\ op \in Op
      /\ DOMAIN t0 = {"entries", "count"} /\ IsTable(t0.entries) /\ t0.count \in Nat
      /\ t0 = table[op.on]
      /\ IsTable(grow.entries) /\ grow.at \in Nat /\ DOMAIN grow = {"at", "entries"}
      /\ Capacity(t0.entries) \in Nat
  BY DEF TypeOK, t0, IsTable
<1>1. CASE StartGrowth
  BY <1>0, <1>1, GrowTyped, NewCapacityIs DEF StartGrowth
<1>2. CASE Rehash
  <2> DEFINE e == t0.entries[grow.at]
  <2>1. e \in Entry
    BY <1>0, <1>2, Places DEF Rehash
  <2>2. CASE e.state = "used"
    <3>1. IsTable(Moved(grow.entries, grow.at, e))
      BY <1>0, <2>1, Changed DEF Moved
    <3>2. DOMAIN grow' = {"at", "entries"} /\ grow'.at \in Nat /\ IsTable(grow'.entries)
      BY <1>0, <1>2, <2>2, <3>1 DEF Rehash
    <3>3. table' = [table EXCEPT ![op.on].count = @ + 1]
      BY <1>2, <2>2 DEF Rehash
    <3> DEFINE t == [t0 EXCEPT !.count = @ + 1]
    <3>4. table' = [table EXCEPT ![op.on] = t]
      BY <3>3 DEF t0
    <3>6. DOMAIN t = {"entries", "count"} /\ IsTable(t.entries) /\ t.count \in Nat
      BY <1>0
    <3> HIDE DEF t
    <3>5. /\ DOMAIN table' = Names
          /\ \A m \in Names :
                /\ DOMAIN table'[m] = {"entries", "count"}
                /\ IsTable(table'[m].entries) /\ table'[m].count \in Nat
      BY <1>0, <3>4, <3>6, TableTyped
    <3> QED BY <1>2, <3>2, <3>5 DEF Rehash, TypeOK
  <2>3. CASE e.state # "used"
    <3>1. DOMAIN grow' = {"at", "entries"} /\ grow'.at \in Nat /\ grow'.entries = grow.entries
      BY <1>0, <1>2, <2>3 DEF Rehash
    <3> QED BY <1>0, <1>2, <2>3, <3>1 DEF Rehash, TypeOK
  <2> QED BY <2>2, <2>3
<1>3. CASE EndGrowth
  <2> DEFINE t == [t0 EXCEPT !.entries = grow.entries]
  <2>1. table' = [table EXCEPT ![op.on] = t]
    BY <1>3 DEF EndGrowth, t0
  <2>5. DOMAIN t = {"entries", "count"} /\ IsTable(t.entries) /\ t.count \in Nat
    BY <1>0
  <2> HIDE DEF t
  <2>2. /\ DOMAIN table' = Names
        /\ \A m \in Names :
              /\ DOMAIN table'[m] = {"entries", "count"}
              /\ IsTable(table'[m].entries) /\ table'[m].count \in Nat
    BY <1>0, <2>1, <2>5, TableTyped
  <2>3. op' \in Op
    BY <1>0, <1>3, IdleTyped DEF EndGrowth
  <2>4. DOMAIN grow' = {"at", "entries"} /\ grow'.at \in Nat /\ IsTable(grow'.entries)
    BY <1>3, EmptyTable DEF EndGrowth, Still
  <2> QED BY <1>3, <2>2, <2>3, <2>4 DEF EndGrowth, TypeOK
<1>4. CASE Put
  <2> DEFINE k == op.todo[1][1]
             v == op.todo[1][2]
             stored == Store(op.on, t0, k, v)
             t == IF op.do = "assign" /\ ~HasKey(t0, k) THEN Deleted(stored, k) ELSE stored
  <2>1. k \in Keys /\ v \in Values \cup {Nil} /\ Tail(op.todo) \in Seq(Pair)
    BY <1>4, FirstPair DEF Put
  <2>2. DOMAIN stored = {"entries", "count"} /\ IsTable(stored.entries) /\ stored.count \in Nat
    BY <1>0, <2>1, StoreTyped
  <2>3. DOMAIN t = {"entries", "count"} /\ IsTable(t.entries) /\ t.count \in Nat
    <3> HIDE DEF stored
    <3> QED BY <2>2, DeletedTyped, ZenonT(30)
  <2>4. table' = [table EXCEPT ![op.on] = t]
    BY <1>4 DEF Put
  <2> HIDE DEF t
  <2>5. /\ DOMAIN table' = Names
        /\ \A m \in Names :
              /\ DOMAIN table'[m] = {"entries", "count"}
              /\ IsTable(table'[m].entries) /\ table'[m].count \in Nat
    BY <1>0, <2>3, <2>4, TableTyped
  <2>6. op' \in Op
    BY <1>0, <1>4, <2>1, IdleTyped DEF Put
  <2> QED BY <1>0, <1>4, <2>5, <2>6 DEF Put, TypeOK
<1>5. CASE Starting
  <2>1. PICK n \in Names, reserve \in Nat, pairs \in Seq(Pair) : SetAfter(n, reserve, pairs)
    BY <1>5 DEF Starting
  <2>2. op' \in Op /\ UNCHANGED uses
    BY <2>1 DEF SetAfter, Begin
  <2>3. CASE UNCHANGED <<table, grow>>
    BY <2>2, <2>3 DEF TypeOK
  <2>4. CASE reserve > 0 /\ Grow(n, Reserved(reserve))
    <3>1. Reserved(reserve) \in Nat
      BY <2>1, <2>4, ReservedIs DEF SetAfter
    <3> QED BY <2>2, <2>4, <3>1, GrowTyped
  <2> QED BY <2>1, <2>3, <2>4 DEF SetAfter
<1>6. CASE Assigning
  <2>1. op' \in Op /\ UNCHANGED <<table, grow, uses>>
    BY <1>6 DEF Assigning, Begin, Names
  <2> QED BY <2>1 DEF TypeOK
<1>7. CASE Burying
  <2>1. PICK n \in Names, k \in Keys :
          table' = [table EXCEPT ![n] = Deleted(@, k)] /\ UNCHANGED <<op, grow, uses>>
    BY <1>7 DEF Burying
  <2>2. table' = [table EXCEPT ![n] = Deleted(table[n], k)]
    BY <2>1
  <2>3. /\ DOMAIN Deleted(table[n], k) = {"entries", "count"}
        /\ IsTable(Deleted(table[n], k).entries)
        /\ Deleted(table[n], k).count \in Nat
    BY DeletedTyped DEF TypeOK
  <2> HIDE DEF Op
  <2>4. /\ DOMAIN table' = Names
        /\ \A m \in Names :
              /\ DOMAIN table'[m] = {"entries", "count"}
              /\ IsTable(table'[m].entries) /\ table'[m].count \in Nat
    BY <2>2, <2>3, TableTyped
  <2> QED BY <2>1, <2>4 DEF TypeOK
<1>8. CASE HashMapClear
  <2> DEFINE t == [entries |-> <<>>, count |-> 0]
  <2>1. DOMAIN t = {"entries", "count"} /\ IsTable(t.entries) /\ t.count \in Nat
    BY EmptyTable
  <2>2. table' = [table EXCEPT ![Map] = t] /\ UNCHANGED <<op, grow, uses>> /\ Map \in Names
    BY <1>8 DEF HashMapClear, Names
  <2> HIDE DEF t
  <2>3. /\ DOMAIN table' = Names
        /\ \A m \in Names :
              /\ DOMAIN table'[m] = {"entries", "count"}
              /\ IsTable(table'[m].entries) /\ table'[m].count \in Nat
    BY <2>1, <2>2, TableTyped
  <2> QED BY <2>2, <2>3 DEF TypeOK
<1>9. CASE Resting
  BY <1>9 DEF Resting, TypeOK
<1> QED BY <1>1, <1>2, <1>3, <1>4, <1>5, <1>6, <1>7, <1>8, <1>9, Kinds

\* The tables keep their types, whatever the program does.
THEOREM Typing == Spec => []TypeOK
BY TypeInit, TypeStep, PTL DEF Spec

-----------------------------------------------------------------------------
(* The inductive invariant is one.                                         *)

CountsOf(n, t) ==
    /\ Cardinality(Occupied(t.entries)) <= t.count
    /\ n # Map => t.count = Cardinality(Occupied(t.entries))
    /\ 4 * t.count <= 3 * Capacity(t.entries)

LEMMA CountsAre ==
    Counts <=> \A n \in Names : ~(Growing /\ n = op.on) => CountsOf(n, table[n])
BY DEF Counts, CountsOf

LEMMA EmptyFound ==
    /\ FoundOf(<<>>)
    /\ \A n : CountsOf(n, [entries |-> <<>>, count |-> 0])
    /\ \A c \in Nat : FoundOf(Buckets(c)) /\ (c > 0 => Buckets(c) # <<>>)
<1>1. Cardinality({}) = 0
  BY FS_EmptySet
<1>2. FoundOf(<<>>)
  BY EmptyTable DEF FoundOf
<1>3. \A n : CountsOf(n, [entries |-> <<>>, count |-> 0])
  <2> DEFINE t == [entries |-> <<>>, count |-> 0]
  <2>1. Cardinality(Occupied(t.entries)) = 0 /\ Capacity(t.entries) = 0 /\ t.count = 0
    BY <1>1, EmptyTable
  <2> HIDE DEF t
  <2>2. \A n : CountsOf(n, t)
    BY <2>1 DEF CountsOf
  <2> QED BY <2>2 DEF t
<1>4. ASSUME NEW c \in Nat PROVE FoundOf(Buckets(c)) /\ (c > 0 => Buckets(c) # <<>>)
  <2>1. FoundOf(Buckets(c))
    BY Buckets0 DEF FoundOf
  <2>2. Capacity(Buckets(c)) = c
    BY Buckets0
  <2> QED BY <2>1, <2>2, EmptyTable
<1> QED BY <1>2, <1>3, <1>4

\* Nothing but one table changes, and none grows.
LEMMA OneTable ==
    ASSUME IInv, ~Growing, UNCHANGED grow, TypeOK', Busy', NEW n \in Names, NEW t,
           table' = [table EXCEPT ![n] = t], FoundOf(t.entries), CountsOf(n, t)
    PROVE  IInv'
<1>1. DOMAIN table = Names /\ ~Growing'
  BY DEF IInv, TypeOK, Growing
<1>2. table'[n] = t /\ \A m \in Names : m # n => table'[m] = table[m]
  BY <1>1
<1>3. \A m \in Names : FoundOf(table'[m].entries) /\ CountsOf(m, table'[m])
  BY <1>2, CountsAre DEF IInv, Findable
<1>4. Counts'
  BY <1>3 DEF Counts, CountsOf
<1>5. FoundOf(grow'.entries)
  BY DEF IInv, Findable
<1>6. Findable'
  BY <1>3, <1>5 DEF Findable
<1> QED BY <1>1, <1>4, <1>6 DEF IInv, Underway

LEMMA GrowKeeps ==
    ASSUME IInv, ~Growing, TypeOK', UNCHANGED uses, NEW n \in Names, NEW c \in Nat,
           c > 0, c >= Capacity(table[n].entries), Grow(n, c),
           op'.on = n, op'.do # "idle", n \in uses
    PROVE  IInv'
<1> DEFINE old == table[n].entries
<1>1. DOMAIN table = Names /\ IsTable(old) /\ table[n].count \in Nat /\ DOMAIN table[n] = {"entries", "count"}
  BY DEF IInv, TypeOK
<1>2. /\ table'[n].entries = old /\ table'[n].count = 0
      /\ \A m \in Names : m # n => table'[m] = table[m]
      /\ \A m \in Names : table'[m].entries = table[m].entries
  BY <1>1 DEF Grow
<1>3. grow'.at = 0 /\ grow'.entries = Buckets(c) /\ Growing' /\ t0' = table'[n]
  BY EmptyFound DEF Grow, Growing, t0
<1>4. Findable'
  BY <1>2, <1>3, EmptyFound DEF IInv, Findable
<1>5. Counts'
  <2>1. \A m \in Names : m # n => CountsOf(m, table'[m])
    BY <1>2, CountsAre DEF IInv
  <2> QED BY <1>3, <2>1 DEF Counts, CountsOf
<1>6. Moving(old, 0, 0, Buckets(c))
  <2>1. Copied(old, 0) = {}
    <3>1. \A i \in InUse(old) : i \in Nat
      BY <1>1, Places
    <3> HIDE DEF old
    <3> QED BY <3>1 DEF Copied
  <2>2. CountsOf(n, table[n])
    BY CountsAre DEF IInv
  <2>3. 4 * Cardinality(InUse(old)) <= 3 * c
    BY <1>1, <2>2, Places DEF CountsOf, IsTable
  <2>4. 0 <= Capacity(old)
    BY <1>1 DEF IsTable
  <2> QED BY <2>1, <2>3, <2>4, Buckets0, FS_EmptySet DEF Moving
<1>7. Underway'
  BY <1>2, <1>3, <1>6 DEF Underway
<1>8. Busy'
  BY DEF Busy
<1> QED BY <1>4, <1>5, <1>7, <1>8 DEF IInv

\* One turn of the rehash: the key takes an entry that was empty.
LEMMA MovesOne ==
    ASSUME "signed_zero" \notin Exercised, NEW old, NEW new, NEW count \in Nat, NEW at \in Nat,
           IsTable(old), IsTable(new), FoundOf(old), FoundOf(new),
           Moving(old, count, at, new), at < Capacity(old),
           old[at].state = "used", CanProbe(new, old[at].key)
    PROVE  /\ FoundOf(Moved(new, at, old[at]))
           /\ Moving(old, count + 1, at + 1, Moved(new, at, old[at]))
<1> DEFINE e == old[at]
           k == e.key
           f == Find(new, k)
           next == Moved(new, at, e)
<1>1. at \in DOMAIN old /\ at \in InUse(old) /\ k \in Keys /\ e = Used(k, e.value) /\ e.value \in Values \cup {Nil}
  <2>1. at \in DOMAIN old
    BY Places DEF IsTable
  <2>2. e \in Entry
    BY <2>1, Places
  <2> QED BY <2>1, <2>2, Entries DEF InUse
<1>2. /\ IsTable(next) /\ FoundOf(next) /\ f \in DOMAIN new /\ next[f] = e
      /\ InUse(next) = InUse(new) \cup {f} /\ Occupied(next) = Occupied(new) \cup {f}
  <2> DEFINE w == e.value
  <2>1. k \in Keys /\ w \in Values \cup {Nil} /\ e = Used(k, w)
    BY <1>1
  <2>2. next = [new EXCEPT ![f] = Used(k, w)]
    BY <2>1 DEF Moved
  <2> HIDE DEF w, next, f
  <2>3. LET g == Find(new, k)
            n == [new EXCEPT ![g] = Used(k, w)]
        IN  /\ IsTable(n) /\ FoundOf(n) /\ g \in DOMAIN new /\ n[g] = Used(k, w)
            /\ InUse(n) = InUse(new) \cup {g} /\ Occupied(n) = Occupied(new) \cup {g}
    BY <2>1, Stored, ZenonT(30)
  <2> QED BY <2>1, <2>2, <2>3 DEF f
<1>3. Capacity(next) = Capacity(new) /\ \A j \in DOMAIN new : j # f => next[j] = new[j]
  BY <1>1, Changed DEF Moved, Entry
<1>4. f \notin InUse(new)
  <2> SUFFICES ASSUME f \in InUse(new) PROVE FALSE
    OBVIOUS
  <2>1. Text[new[f].key] = Text[k]
    BY <1>1, FindAnswers DEF InUse
  <2>2. PICK i \in Copied(old, at) : new[f] = old[i]
    BY DEF Moving
  <2>3. i \in InUse(old) /\ i < at
    BY <2>2 DEF Copied
  <2>4. i = at
    BY <1>1, <2>1, <2>2, <2>3, OneOfEach
  <2> QED BY <2>3, <2>4
<1>5. Copied(old, at + 1) = Copied(old, at) \cup {at} /\ at \notin Copied(old, at)
  BY <1>1, Places DEF Copied
<1>6. IsFiniteSet(InUse(new)) /\ IsFiniteSet(Copied(old, at))
  <2>1. Copied(old, at) \subseteq InUse(old)
    BY DEF Copied
  <2> QED BY <2>1, Places, FS_Subset
<1>7. /\ Cardinality(InUse(next)) = count + 1
      /\ Cardinality(Copied(old, at + 1)) = count + 1
  <2>1. count = Cardinality(InUse(new)) /\ count = Cardinality(Copied(old, at))
    BY DEF Moving
  <2> HIDE DEF next, f
  <2>2. Cardinality(InUse(new) \cup {f}) = count + 1
    BY <1>4, <1>6, <2>1, FS_AddElement
  <2>3. Cardinality(Copied(old, at) \cup {at}) = count + 1
    BY <1>5, <1>6, <2>1, FS_AddElement
  <2> QED BY <1>2, <1>5, <2>2, <2>3
<1>8. \A j \in InUse(new) : next[j] = new[j]
  BY <1>3, <1>4, Places
<1> HIDE DEF next, f
<1>9. \A j \in InUse(next) : \E i \in Copied(old, at + 1) : next[j] = old[i]
  BY <1>2, <1>5, <1>8 DEF Moving
<1>10. \A i \in Copied(old, at + 1) : \E j \in InUse(next) : next[j] = old[i]
  BY <1>2, <1>5, <1>8 DEF Moving
<1>11. Occupied(next) = InUse(next)
  BY <1>2 DEF Moving
<1>12. at + 1 <= Capacity(old) /\ 4 * Cardinality(InUse(old)) <= 3 * Capacity(next)
  BY <1>3 DEF Moving, IsTable
<1>13. Moving(old, count + 1, at + 1, next)
  BY <1>7, <1>9, <1>10, <1>11, <1>12 DEF Moving
<1> QED BY <1>2, <1>13 DEF next

\* A key that is stored while the table is not full leaves it right.
LEMMA StoreKeeps ==
    ASSUME "signed_zero" \notin Exercised, NEW n, NEW t,
           IsTable(t.entries), t.count \in Nat, FoundOf(t.entries), CountsOf(n, t), ~Full(t),
           NEW k \in Keys, CanProbe(t.entries, k), NEW v \in Values \cup {Nil}
    PROVE  /\ FoundOf(Store(n, t, k, v).entries) /\ CountsOf(n, Store(n, t, k, v))
           /\ Find(Store(n, t, k, v).entries, k) \in Occupied(Store(n, t, k, v).entries)
<1> DEFINE es == t.entries
           f == Find(es, k)
           new == [es EXCEPT ![f] = Used(k, v)]
           stored == Store(n, t, k, v)
<1>1. /\ stored.entries = new
      /\ stored.count = IF Counted(n, es[f]) THEN t.count + 1 ELSE t.count
  BY DEF Store
<1>2. /\ IsTable(new) /\ FoundOf(new) /\ f \in DOMAIN es
      /\ Occupied(new) = Occupied(es) \cup {f} /\ Find(new, k) = f
  BY Stored
<1>3. Capacity(new) = Capacity(es) /\ Capacity(es) \in Nat
  <2>1. Used(k, v) \in Entry
    BY DEF Entry
  <2> QED BY <2>1, Changed DEF IsTable
<1>4. es[f] \in Entry /\ IsFiniteSet(Occupied(es)) /\ Cardinality(Occupied(es)) \in Nat
  BY <1>2, Places
<1> HIDE DEF new, stored, f, es
<1>5. /\ f \in Occupied(es) <=> es[f].state # "empty"
      /\ es[f].state \in {"empty", "tombstone", "used"}
  BY <1>2, <1>4, Entries DEF Occupied
<1>6. Cardinality(Occupied(new)) =
        IF es[f].state = "empty" THEN Cardinality(Occupied(es)) + 1 ELSE Cardinality(Occupied(es))
  BY <1>2, <1>4, <1>5, FS_AddElement
<1>7. /\ Cardinality(Occupied(es)) <= t.count
      /\ n # Map => t.count = Cardinality(Occupied(es))
      /\ 4 * (t.count + 1) <= 3 * Capacity(es)
  BY <1>3 DEF CountsOf, Full, es
<1>8. CountsOf(n, stored)
  <2>1. CASE n = Map
    BY <1>1, <1>3, <1>4, <1>5, <1>6, <1>7, <2>1 DEF CountsOf, Counted
  <2>2. CASE n # Map
    BY <1>1, <1>3, <1>4, <1>5, <1>6, <1>7, <2>2 DEF CountsOf, Counted
  <2> QED BY <2>1, <2>2
<1>9. Find(stored.entries, k) \in Occupied(stored.entries)
  BY <1>1, <1>2
<1> QED BY <1>1, <1>2, <1>8, <1>9 DEF stored

LEMMA DeletedKeeps ==
    ASSUME NEW n, NEW t, DOMAIN t = {"entries", "count"},
           IsTable(t.entries), t.count \in Nat, FoundOf(t.entries), CountsOf(n, t),
           NEW k, Find(t.entries, k) \in Occupied(t.entries)
    PROVE  FoundOf(Deleted(t, k).entries) /\ CountsOf(n, Deleted(t, k))
<1> DEFINE es == t.entries
           f == Find(es, k)
           new == [es EXCEPT ![f] = Tombstone]
<1>1. Deleted(t, k).entries = new /\ Deleted(t, k).count = t.count
  BY DeletedTyped
<1>2. FoundOf(new) /\ Occupied(new) = Occupied(es)
  BY Buried
<1>3. Capacity(new) = Capacity(es)
  <2>1. Tombstone \in Entry
    BY DEF Entry
  <2> QED BY <2>1, Changed
<1> QED BY <1>1, <1>2, <1>3 DEF CountsOf

LEMMA InitIInv ==
    ASSUME Init
    PROVE  IInv
<1>1. TypeOK
  BY TypeInit
<1>2. ~Growing /\ op.todo = <<>>
  BY DEF Init, Still, Growing, Idle
<1>3. Busy /\ Underway
  BY <1>2 DEF Busy, Underway
<1>4. Findable
  BY EmptyFound DEF Init, Still, Findable
<1>5. Counts
  <2>1. \A n \in Names : CountsOf(n, table[n])
    BY EmptyFound DEF Init
  <2> QED BY <2>1, CountsAre
<1> QED BY <1>1, <1>3, <1>4, <1>5 DEF IInv

LEMMA NotEmpty ==
    ASSUME NEW es, IsTable(es), es # <<>>
    PROVE  DOMAIN es # {}
<1>1. es = [i \in DOMAIN es |-> es[i]]
  BY DEF IsTable
<1>2. <<>> = [i \in {} |-> es[i]]
  OBVIOUS
<1> QED BY <1>1, <1>2

LEMMA RehashKeeps ==
    ASSUME "signed_zero" \notin Exercised, IInv, TypeOK', Rehash
    PROVE  IInv'
<1> DEFINE e == t0.entries[grow.at]
           old == t0.entries
           new == grow.entries
<1>1. /\ op.on \in Names /\ t0 = table[op.on] /\ DOMAIN table = Names
      /\ DOMAIN t0 = {"entries", "count"} /\ IsTable(old) /\ t0.count \in Nat
      /\ IsTable(new) /\ grow.at \in Nat /\ DOMAIN grow = {"at", "entries"}
      /\ Capacity(old) \in Nat
  BY DEF IInv, TypeOK, t0, IsTable
<1>2. FoundOf(old) /\ FoundOf(new) /\ Growing /\ Moving(old, t0.count, grow.at, new)
  BY <1>1 DEF IInv, Findable, Underway, Rehash
<1>3. UNCHANGED <<op, uses>> /\ grow.at < Capacity(old)
  BY DEF Rehash
<1>4. e \in Entry
  BY <1>1, <1>3, Places
<1>5. /\ grow'.at = grow.at + 1
      /\ FoundOf(grow'.entries)
      /\ Moving(old, t0'.count, grow'.at, grow'.entries)
      /\ t0'.entries = old
      /\ \A m \in Names : m # op.on => table'[m] = table[m]
      /\ Growing'
  <2>1. CASE e.state = "used"
    <3>1. /\ CanProbe(new, e.key)
          /\ grow' = [at |-> grow.at + 1, entries |-> Moved(new, grow.at, e)]
          /\ table' = [table EXCEPT ![op.on].count = @ + 1]
      BY <2>1 DEF Rehash
    <3>2. /\ t0'.count = t0.count + 1 /\ t0'.entries = old
          /\ \A m \in Names : m # op.on => table'[m] = table[m]
      BY <1>1, <1>3, <3>1 DEF t0
    <3>3. /\ FoundOf(Moved(new, grow.at, e))
          /\ Moving(old, t0.count + 1, grow.at + 1, Moved(new, grow.at, e))
      BY <1>1, <1>2, <1>3, <2>1, <3>1, MovesOne
    <3>4. Moved(new, grow.at, e) # <<>>
      <4>1. DOMAIN Moved(new, grow.at, e) = DOMAIN new
        BY DEF Moved
      <4>2. DOMAIN new # {}
        BY <1>1, <1>2, NotEmpty DEF Growing
      <4> QED BY <4>1, <4>2
    <3> QED BY <3>1, <3>2, <3>3, <3>4 DEF Growing
  <2>2. CASE e.state # "used"
    <3>1. grow' = [grow EXCEPT !.at = @ + 1] /\ UNCHANGED table
      BY <2>2 DEF Rehash
    <3>2. grow'.at = grow.at + 1 /\ grow'.entries = new /\ t0' = t0
      BY <1>1, <1>3, <3>1 DEF t0
    <3>3. Copied(old, grow.at + 1) = Copied(old, grow.at)
      <4>1. \A i \in InUse(old) : i \in Nat /\ i # grow.at
        BY <1>1, <2>2, Places DEF InUse
      <4> HIDE DEF old
      <4> QED BY <1>1, <4>1 DEF Copied
    <3>4. Moving(old, t0.count, grow.at + 1, new)
      <4> DEFINE at == grow.at
                 count == t0.count
      <4>1. at \in Nat /\ at < Capacity(old) /\ Capacity(old) \in Nat
        BY <1>1, <1>3
      <4>2. Moving(old, count, at, new) /\ Copied(old, at + 1) = Copied(old, at)
        BY <1>2, <3>3
      <4> HIDE DEF old, new, at, count
      <4>3. Moving(old, count, at + 1, new)
        <5>1. at + 1 <= Capacity(old)
          BY <4>1
        <5>2. /\ count = Cardinality(Copied(old, at + 1))
              /\ \A j \in InUse(new) : \E i \in Copied(old, at + 1) : new[j] = old[i]
              /\ \A i \in Copied(old, at + 1) : \E j \in InUse(new) : new[j] = old[i]
          BY <4>2, Zenon DEF Moving
        <5>3. /\ count = Cardinality(InUse(new)) /\ Occupied(new) = InUse(new)
              /\ 4 * Cardinality(InUse(old)) <= 3 * Capacity(new)
          BY <4>2, Zenon DEF Moving
        <5> QED BY <5>1, <5>2, <5>3, Zenon DEF Moving
      <4> QED BY <4>3 DEF at, count
    <3> QED BY <1>2, <3>1, <3>2, <3>4 DEF Growing
  <2> QED BY <2>1, <2>2
<1>6. \A m \in Names : table'[m].entries = table[m].entries
  BY <1>1, <1>3, <1>5 DEF t0
<1>7. Findable'
  BY <1>5, <1>6 DEF IInv, Findable
<1>8. Counts'
  <2>1. \A m \in Names : m # op.on => CountsOf(m, table'[m])
    BY <1>5, CountsAre DEF IInv
  <2> QED BY <1>3, <1>5, <2>1 DEF Counts, CountsOf
<1>9. Underway'
  BY <1>5 DEF Underway
<1>10. Busy'
  BY <1>2, <1>3 DEF IInv, Busy
<1> QED BY <1>7, <1>8, <1>9, <1>10 DEF IInv

LEMMA EndGrowthKeeps ==
    ASSUME IInv, TypeOK', EndGrowth
    PROVE  IInv'
<1> DEFINE old == t0.entries
           new == grow.entries
<1>1. /\ op.on \in Names /\ t0 = table[op.on] /\ DOMAIN table = Names
      /\ DOMAIN t0 = {"entries", "count"} /\ IsTable(old) /\ t0.count \in Nat
      /\ IsTable(new)
  BY DEF IInv, TypeOK, t0
<1>2. FoundOf(new) /\ Growing /\ Moving(old, t0.count, Capacity(old), new)
  BY <1>1 DEF IInv, Findable, Underway, EndGrowth
<1>3. /\ table'[op.on].entries = new /\ table'[op.on].count = t0.count
      /\ \A m \in Names : m # op.on => table'[m] = table[m]
  BY <1>1 DEF EndGrowth
<1>4. Copied(old, Capacity(old)) = InUse(old)
  <2>1. \A i \in InUse(old) : i < Capacity(old)
    BY <1>1, Places DEF IsTable
  <2> QED BY <2>1 DEF Copied
<1>5. CountsOf(op.on, table'[op.on])
  <2>1. /\ t0.count = Cardinality(Occupied(new)) /\ t0.count = Cardinality(InUse(old))
        /\ 4 * Cardinality(InUse(old)) <= 3 * Capacity(new)
    BY <1>2, <1>4 DEF Moving
  <2> HIDE DEF old, new
  <2> QED BY <1>1, <1>3, <2>1 DEF CountsOf
<1>6. ~Growing' /\ grow'.entries = <<>>
  BY DEF EndGrowth, Still, Growing
<1>7. Findable'
  BY <1>2, <1>3, <1>6, EmptyFound DEF IInv, Findable
<1>8. Counts'
  <2>1. \A m \in Names : CountsOf(m, table'[m])
    BY <1>3, <1>5, CountsAre DEF IInv
  <2> QED BY <2>1 DEF Counts, CountsOf
<1>9. Busy'
  BY <1>2, <1>6 DEF EndGrowth, IInv, Busy, Idle
<1> QED BY <1>6, <1>7, <1>8, <1>9 DEF IInv, Underway

\* What a step other than a growth's finds.
LEMMA AtRest ==
    ASSUME IInv, ~Growing, NEW n \in Names
    PROVE  /\ DOMAIN table = Names /\ DOMAIN table[n] = {"entries", "count"}
           /\ IsTable(table[n].entries) /\ table[n].count \in Nat
           /\ FoundOf(table[n].entries) /\ CountsOf(n, table[n])
BY CountsAre DEF IInv, TypeOK, Findable

\* The probe of a key that is not in the table ends too, so that the guard on it never
\* holds anything back.
LEMMA SearchesOf ==
    ASSUME NEW n, NEW t, IsTable(t.entries), t.count \in Nat, CountsOf(n, t), NEW k \in Keys
    PROVE  /\ t.count > 0 \/ ~Full(t) => CanProbe(t.entries, k)
           /\ HasKey(t, k) => CanProbe(t.entries, k)
           /\ CanProbe(t.entries, k) =>
                (HasKey(t, k) <=> t.entries[Find(t.entries, k)].state = "used")
<1> DEFINE es == t.entries
<1>1. /\ Cardinality(Occupied(es)) \in Nat /\ Capacity(es) \in Nat
      /\ Cardinality(Occupied(es)) <= t.count /\ 4 * t.count <= 3 * Capacity(es)
  BY Places DEF IsTable, CountsOf
<1> HIDE DEF es
<1>2. t.count > 0 => Cardinality(Occupied(es)) < Capacity(es)
  BY <1>1
<1>3. ~Full(t) => Cardinality(Occupied(es)) < Capacity(es)
  BY <1>1 DEF Full, es
<1>4. t.count > 0 \/ ~Full(t) => CanProbe(es, k)
  BY <1>2, <1>3, SearchEnds DEF es
<1>5. ASSUME CanProbe(es, k), es[Find(es, k)].state = "used"
      PROVE  t.count > 0
  <2>1. Find(es, k) \in Occupied(es)
    BY <1>5, FindAnswers DEF Occupied, es
  <2>2. Cardinality(Occupied(es)) # 0
    BY <2>1, Places, FS_EmptySet DEF es
  <2> QED BY <1>1, <2>2
<1> QED BY <1>4, <1>5 DEF HasKey, es

LEMMA PutKeeps ==
    ASSUME "signed_zero" \notin Exercised, IInv, TypeOK', Put
    PROVE  IInv'
<1> DEFINE k == op.todo[1][1]
           v == op.todo[1][2]
           stored == Store(op.on, t0, k, v)
           t == IF op.do = "assign" /\ ~HasKey(t0, k) THEN Deleted(stored, k) ELSE stored
<1>1. /\ op.on \in Names /\ t0 = table[op.on] /\ ~Growing /\ ~Full(t0)
      /\ k \in Keys /\ v \in Values \cup {Nil} /\ CanProbe(t0.entries, k)
  BY FirstPair DEF Put, IInv, TypeOK, t0
<1>2. /\ IsTable(t0.entries) /\ t0.count \in Nat /\ FoundOf(t0.entries) /\ CountsOf(op.on, t0)
  BY <1>1, AtRest
<1> HIDE DEF k, v
<1>3. /\ FoundOf(stored.entries) /\ CountsOf(op.on, stored)
      /\ Find(stored.entries, k) \in Occupied(stored.entries)
  BY <1>1, <1>2, StoreKeeps
<1>4. DOMAIN stored = {"entries", "count"} /\ IsTable(stored.entries) /\ stored.count \in Nat
  BY <1>1, <1>2, StoreTyped
<1>5. FoundOf(t.entries) /\ CountsOf(op.on, t)
  <2> HIDE DEF stored
  <2> QED BY <1>3, <1>4, DeletedKeeps
<1>6. table' = [table EXCEPT ![op.on] = t] /\ UNCHANGED <<grow, uses>>
  BY DEF Put, k, v
<1>7. Busy'
  BY <1>1 DEF Put, Busy, Growing, Idle, IInv
<1> HIDE DEF t
<1> QED BY <1>1, <1>5, <1>6, <1>7, OneTable

\* Nothing changes but the operation.
LEMMA OnlyBegins ==
    ASSUME IInv, ~Growing, TypeOK', UNCHANGED <<table, grow>>, Busy'
    PROVE  IInv'
BY DEF IInv, Findable, Counts, Underway, Growing

LEMMA StartKeeps ==
    ASSUME IInv, TypeOK', StartGrowth
    PROVE  IInv'
<1> DEFINE n == op.on
           c == NewCapacity(Capacity(t0.entries))
<1>1. n \in Names /\ t0 = table[n] /\ ~Growing /\ op.todo # <<>> /\ Grow(n, c)
      /\ UNCHANGED <<op, uses>>
  BY DEF StartGrowth, IInv, TypeOK, t0
<1>2. Capacity(t0.entries) \in Nat
  BY <1>1 DEF IInv, TypeOK, IsTable
<1>3. c \in Nat /\ c > 0 /\ c >= Capacity(table[n].entries)
  BY <1>1, <1>2, NewCapacityIs
<1>4. op.do # "idle" /\ n \in uses
  BY <1>1 DEF IInv, Busy
<1> HIDE DEF n, c
<1> QED BY <1>1, <1>3, <1>4, GrowKeeps DEF n

LEMMA StartingKeeps ==
    ASSUME IInv, TypeOK', Starting
    PROVE  IInv'
<1>1. PICK n \in Names, reserve \in Nat, pairs \in Seq(Pair) : SetAfter(n, reserve, pairs)
  BY DEF Starting
<1>2. /\ op = Idle /\ n \in uses /\ UNCHANGED uses
      /\ op' = [do |-> "set", on |-> n, todo |-> pairs]
  BY <1>1 DEF SetAfter, Begin
<1>3. ~Growing
  BY <1>2 DEF IInv, Busy, Idle
<1>4. CASE UNCHANGED <<table, grow>>
  BY <1>2, <1>3, <1>4, OnlyBegins DEF Busy
<1>5. CASE reserve > 0 /\ Reserved(reserve) > Capacity(table[n].entries)
             /\ Grow(n, Reserved(reserve))
  <2>1. Reserved(reserve) \in Nat
    BY <1>1, <1>5, ReservedIs DEF SetAfter
  <2>2. Capacity(table[n].entries) \in Nat
    BY DEF IInv, TypeOK, IsTable
  <2>3. Reserved(reserve) > 0 /\ Reserved(reserve) >= Capacity(table[n].entries)
    BY <1>5, <2>1, <2>2
  <2> QED BY <1>2, <1>3, <1>5, <2>1, <2>3, GrowKeeps
<1> QED BY <1>1, <1>4, <1>5 DEF SetAfter

LEMMA AssigningKeeps ==
    ASSUME IInv, TypeOK', Assigning
    PROVE  IInv'
<1>1. ~Growing /\ Busy' /\ UNCHANGED <<table, grow>>
  BY DEF IInv, Busy, Idle, Assigning, Begin
<1> QED BY <1>1, OnlyBegins

LEMMA BuryingKeeps ==
    ASSUME "signed_zero" \notin Exercised, IInv, TypeOK', Burying
    PROVE  IInv'
<1>1. PICK n \in Names, k \in Keys :
        /\ op = Idle /\ Searchable(table[n], k) /\ HasKey(table[n], k)
        /\ table' = [table EXCEPT ![n] = Deleted(@, k)] /\ UNCHANGED <<op, grow, uses>>
  BY DEF Burying
<1>2. ~Growing /\ Busy'
  BY <1>1 DEF IInv, Busy, Idle, Growing
<1> DEFINE t == table[n]
<1>3. /\ DOMAIN t = {"entries", "count"} /\ IsTable(t.entries) /\ t.count \in Nat
      /\ FoundOf(t.entries) /\ CountsOf(n, t)
  BY <1>2, AtRest
<1>4. Find(t.entries, k) \in Occupied(t.entries)
  <2>1. CanProbe(t.entries, k) /\ t.entries[Find(t.entries, k)].state = "used"
    BY <1>1, <1>3, SearchesOf DEF HasKey
  <2> QED BY <1>3, <2>1, FindAnswers DEF Occupied
<1>5. FoundOf(Deleted(t, k).entries) /\ CountsOf(n, Deleted(t, k))
  BY <1>3, <1>4, DeletedKeeps
<1>6. table' = [table EXCEPT ![n] = Deleted(t, k)]
  BY <1>1
<1> QED BY <1>1, <1>2, <1>5, <1>6, OneTable

LEMMA ClearKeeps ==
    ASSUME IInv, TypeOK', HashMapClear
    PROVE  IInv'
<1> DEFINE t == [entries |-> <<>>, count |-> 0]
<1>1. ~Growing /\ Busy'
  BY DEF HashMapClear, IInv, Busy, Idle, Growing
<1>2. FoundOf(t.entries) /\ CountsOf(Map, t)
  BY EmptyFound
<1>3. table' = [table EXCEPT ![Map] = t] /\ Map \in Names /\ UNCHANGED grow
  BY DEF HashMapClear, Names
<1> HIDE DEF t
<1> QED BY <1>1, <1>2, <1>3, OneTable

LEMMA RestingKeeps ==
    ASSUME IInv, TypeOK', Resting
    PROVE  IInv'
<1>1. Growing' <=> Growing
  BY DEF Resting, Growing
<1>2. t0' = t0
  BY DEF Resting, t0
<1>3. Busy' /\ Findable' /\ Counts'
  BY <1>1 DEF Resting, IInv, Busy, Findable, Counts
<1>4. Underway'
  BY <1>1, <1>2 DEF Resting, IInv, Underway
<1> QED BY <1>3, <1>4 DEF IInv

LEMMA Step ==
    ASSUME "signed_zero" \notin Exercised, IInv, [Next]_vars
    PROVE  IInv'
<1>1. TypeOK /\ TypeOK'
  BY TypeStep DEF IInv
<1> QED BY <1>1, Kinds, StartKeeps, RehashKeeps, EndGrowthKeeps, PutKeeps, StartingKeeps,
           AssigningKeeps, BuryingKeeps, ClearKeeps, RestingKeeps

\* The inductive invariant, while keys of one text have one hash.
THEOREM Invariance ==
    ASSUME "signed_zero" \notin Exercised
    PROVE  Spec => []IInv
BY InitIInv, Step, PTL DEF Spec

\* No key is lost behind an empty entry, and none is there twice.
THEOREM KeysAreFound ==
    ASSUME "signed_zero" \notin Exercised
    PROVE  Spec => []Findable
<1>1. IInv => Findable
  BY DEF IInv
<1> QED BY <1>1, Invariance, PTL

\* A table counts its entries, and no more than three in four are not empty.
THEOREM CountsAreRight ==
    ASSUME "signed_zero" \notin Exercised
    PROVE  Spec => []Counts
<1>1. IInv => Counts
  BY DEF IInv
<1> QED BY <1>1, Invariance, PTL

-----------------------------------------------------------------------------
(* Every search ends.                                                      *)

\* The loop of findEntry comes to an end: for any key in a table that has counted one or
\* has room for one, and in the new entries of a growth.  The guards CanProbe hold
\* nothing back.
SearchesEnd ==
    \A k \in Keys :
        /\ \A n \in Names : ~(Growing /\ n = op.on) => Searchable(table[n], k)
        /\ ~Growing /\ ~Full(t0) => CanProbe(t0.entries, k)
        /\ Growing => CanProbe(grow.entries, k)

THEOREM AllSearchesEnd ==
    ASSUME "signed_zero" \notin Exercised
    PROVE  Spec => []SearchesEnd
<1>1. ASSUME IInv PROVE SearchesEnd
  <2> SUFFICES ASSUME NEW k \in Keys
      PROVE  /\ \A n \in Names : ~(Growing /\ n = op.on) => Searchable(table[n], k)
             /\ ~Growing /\ ~Full(t0) => CanProbe(t0.entries, k)
             /\ Growing => CanProbe(grow.entries, k)
    BY DEF SearchesEnd
  <2>1. ASSUME NEW n \in Names, ~(Growing /\ n = op.on)
        PROVE  Searchable(table[n], k)
    <3>1. IsTable(table[n].entries) /\ table[n].count \in Nat /\ CountsOf(n, table[n])
      BY <1>1, <2>1, CountsAre DEF IInv, TypeOK
    <3> QED BY <3>1, SearchesOf DEF Searchable
  <2>2. ASSUME ~Growing, ~Full(t0) PROVE CanProbe(t0.entries, k)
    <3>1. op.on \in Names /\ t0 = table[op.on]
      BY <1>1 DEF IInv, TypeOK, t0
    <3>2. IsTable(t0.entries) /\ t0.count \in Nat /\ CountsOf(op.on, t0)
      BY <1>1, <2>2, <3>1, AtRest
    <3> QED BY <2>2, <3>2, SearchesOf
  <2>3. ASSUME Growing PROVE CanProbe(grow.entries, k)
    <3> DEFINE old == t0.entries
               new == grow.entries
    <3>1. IsTable(new) /\ IsTable(old) /\ Moving(old, t0.count, grow.at, new)
      BY <1>1, <2>3 DEF IInv, TypeOK, Underway, t0
    <3>2. Capacity(new) \in Nat /\ Capacity(new) # 0
      BY <2>3, <3>1, NotEmpty DEF Growing, IsTable
    <3>3. Cardinality(Copied(old, grow.at)) <= Cardinality(InUse(old))
      <4>1. Copied(old, grow.at) \subseteq InUse(old)
        BY DEF Copied
      <4> QED BY <3>1, <4>1, Places, FS_Subset
    <3>4. /\ Cardinality(Occupied(new)) = Cardinality(Copied(old, grow.at))
          /\ 4 * Cardinality(InUse(old)) <= 3 * Capacity(new)
      BY <3>1 DEF Moving
    <3>5. Cardinality(InUse(old)) \in Nat /\ Cardinality(Occupied(new)) \in Nat
      BY <3>1, Places
    <3>6. Cardinality(Occupied(new)) < Capacity(new)
      <4> HIDE DEF old, new
      <4> QED BY <3>2, <3>3, <3>4, <3>5
    <3> QED BY <3>1, <3>6, SearchEnds
  <2> QED BY <2>1, <2>2, <2>3
<1> QED BY <1>1, Invariance, PTL

-----------------------------------------------------------------------------
(* What the entries stand for.                                             *)

TextsOf(es) == {Text[es[i].key] : i \in InUse(es)}

\* The map that a table is has the value of each entry at its text.
LEMMA ContentsAre ==
    ASSUME "signed_zero" \notin Exercised, NEW es, IsTable(es), FoundOf(es)
    PROVE  /\ Contents(es) = [x \in TextsOf(es) |-> Contents(es)[x]]
           /\ DOMAIN Contents(es) = TextsOf(es)
           /\ \A i \in InUse(es) : Contents(es)[Text[es[i].key]] = es[i].value
<1>1. ASSUME NEW i \in InUse(es)
      PROVE  Contents(es)[Text[es[i].key]] = es[i].value
  <2> DEFINE x == Text[es[i].key]
             j == CHOOSE j \in InUse(es) : Text[es[j].key] = x
  <2>1. j \in InUse(es) /\ Text[es[j].key] = x
    OBVIOUS
  <2>2. j = i
    BY <2>1, OneOfEach
  <2>3. x \in TextsOf(es)
    BY DEF TextsOf
  <2>4. Contents(es)[x] = es[j].value
    BY <2>3 DEF Contents, TextsOf
  <2> HIDE DEF j
  <2> QED BY <2>2, <2>4
<1>2. Contents(es) = [x \in TextsOf(es) |-> Contents(es)[x]]
  BY DEF Contents, TextsOf
<1>3. DOMAIN Contents(es) = TextsOf(es)
  BY DEF Contents, TextsOf
<1> QED BY <1>1, <1>2, <1>3

\* A map that has the same texts with the same values is the same.
LEMMA ContentsEqual ==
    ASSUME "signed_zero" \notin Exercised, NEW es, IsTable(es), FoundOf(es),
           NEW D, NEW m, m = [x \in D |-> m[x]],
           D = TextsOf(es),
           \A i \in InUse(es) : m[Text[es[i].key]] = es[i].value
    PROVE  Contents(es) = m
<1>1. ASSUME NEW x \in D PROVE Contents(es)[x] = m[x]
  <2>1. PICK i \in InUse(es) : x = Text[es[i].key]
    BY DEF TextsOf
  <2>2. Contents(es)[x] = es[i].value
    BY <2>1, ContentsAre
  <2> QED BY <2>1, <2>2
<1> QED BY <1>1, ContentsAre

LEMMA ContentsOfEmpty == Contents(<<>>) = [x \in {} |-> Absent]
BY EmptyTable DEF Contents

LEMMA ContentsOfStored ==
    ASSUME "signed_zero" \notin Exercised, NEW es, IsTable(es), FoundOf(es),
           NEW k \in Keys, CanProbe(es, k), NEW v \in Values \cup {Nil}
    PROVE  Contents([es EXCEPT ![Find(es, k)] = Used(k, v)])
             = Dictionary!With(Contents(es), Text[k], v)
<1> DEFINE f == Find(es, k)
           new == [es EXCEPT ![f] = Used(k, v)]
           m == Dictionary!With(Contents(es), Text[k], v)
           D == TextsOf(es) \cup {Text[k]}
<1>1. /\ IsTable(new) /\ FoundOf(new) /\ f \in DOMAIN es /\ new[f] = Used(k, v)
      /\ InUse(new) = InUse(es) \cup {f}
  BY Stored
<1>2. \A i \in InUse(es) : i # f => new[i] = es[i]
  BY DEF InUse
<1>3. f \in InUse(es) => Text[es[f].key] = Text[k]
  BY FindAnswers DEF InUse
<1>4. \A i \in InUse(es) : i # f => Text[es[i].key] # Text[k]
  BY FindsTheKey
<1> HIDE DEF new, f
<1>5. new[f].key = k /\ new[f].value = v
  BY <1>1 DEF Used
<1>6. D = TextsOf(new)
  BY <1>1, <1>2, <1>3, <1>5 DEF TextsOf
<1>7. DOMAIN Contents(es) = TextsOf(es)
  BY ContentsAre
<1>8. m = [y \in D |-> IF y = Text[k] THEN v ELSE Contents(es)[y]]
  BY <1>7 DEF Dictionary!With
<1>9. \A i \in InUse(new) : m[Text[new[i].key]] = new[i].value
  <2> SUFFICES ASSUME NEW i \in InUse(new) PROVE m[Text[new[i].key]] = new[i].value
    OBVIOUS
  <2>1. Text[new[i].key] \in D
    BY <1>6 DEF TextsOf
  <2>2. CASE i = f
    BY <1>5, <1>8, <2>1, <2>2
  <2>3. CASE i # f
    <3>1. i \in InUse(es) /\ new[i] = es[i] /\ Text[es[i].key] # Text[k]
      BY <1>1, <1>2, <1>4, <2>3
    <3>2. Contents(es)[Text[es[i].key]] = es[i].value
      BY <3>1, ContentsAre
    <3> QED BY <1>8, <2>1, <3>1, <3>2
  <2> QED BY <2>2, <2>3
<1>10. m = [x \in D |-> m[x]]
  BY <1>8
<1> HIDE DEF m, D
<1>11. Contents(new) = m
  BY <1>1, <1>6, <1>9, <1>10, ContentsEqual
<1> QED BY <1>11 DEF new, f, m

LEMMA ContentsOfBuried ==
    ASSUME "signed_zero" \notin Exercised, NEW es, IsTable(es), FoundOf(es),
           NEW j \in InUse(es)
    PROVE  Contents([es EXCEPT ![j] = Tombstone])
             = Dictionary!Without(Contents(es), Text[es[j].key])
<1> DEFINE new == [es EXCEPT ![j] = Tombstone]
           x == Text[es[j].key]
           m == Dictionary!Without(Contents(es), x)
           D == TextsOf(es) \ {x}
<1>1. IsTable(new) /\ FoundOf(new) /\ InUse(new) = InUse(es) \ {j}
  BY Buried
<1>2. \A i \in InUse(new) : i \in InUse(es) /\ i # j /\ new[i] = es[i]
  BY <1>1 DEF InUse
<1>3. \A i \in InUse(es) : i # j => Text[es[i].key] # x
  BY OneOfEach
<1> HIDE DEF new
<1>4. D = TextsOf(new)
  BY <1>1, <1>2, <1>3 DEF TextsOf
<1>5. DOMAIN Contents(es) = TextsOf(es)
  BY ContentsAre
<1>6. m = [y \in D |-> Contents(es)[y]]
  BY <1>5 DEF Dictionary!Without
<1>7. \A i \in InUse(new) : m[Text[new[i].key]] = new[i].value
  <2> SUFFICES ASSUME NEW i \in InUse(new) PROVE m[Text[new[i].key]] = new[i].value
    OBVIOUS
  <2>1. Text[new[i].key] \in D
    BY <1>4 DEF TextsOf
  <2>2. Contents(es)[Text[es[i].key]] = es[i].value
    BY <1>2, ContentsAre
  <2> QED BY <1>2, <1>6, <2>1, <2>2
<1>8. m = [y \in D |-> m[y]]
  BY <1>6
<1> HIDE DEF m, D
<1>9. Contents(new) = m
  BY <1>1, <1>4, <1>7, <1>8, ContentsEqual
<1> QED BY <1>9 DEF new, m

\* A growth that is over has moved the whole map.
LEMMA ContentsOfMoved ==
    ASSUME "signed_zero" \notin Exercised, NEW old, NEW new, NEW count, NEW at,
           IsTable(old), IsTable(new), FoundOf(old), FoundOf(new),
           Moving(old, count, at, new), Copied(old, at) = InUse(old)
    PROVE  Contents(new) = Contents(old)
<1>1. /\ \A j \in InUse(new) : \E i \in InUse(old) : new[j] = old[i]
      /\ \A i \in InUse(old) : \E j \in InUse(new) : new[j] = old[i]
  BY DEF Moving
<1>2. TextsOf(old) = TextsOf(new)
  <2>1. TextsOf(old) \subseteq TextsOf(new)
    BY <1>1 DEF TextsOf
  <2>2. TextsOf(new) \subseteq TextsOf(old)
    BY <1>1 DEF TextsOf
  <2> QED BY <2>1, <2>2
<1>3. \A j \in InUse(new) : Contents(old)[Text[new[j].key]] = new[j].value
  BY <1>1, ContentsAre
<1> DEFINE m == Contents(old)
<1>4. m = [x \in TextsOf(old) |-> m[x]]
  BY ContentsAre
<1> HIDE DEF m
<1>5. Contents(new) = m
  BY <1>2, <1>3, <1>4, ContentsEqual DEF m
<1> QED BY <1>5 DEF m

\* A table has as many keys as entries in use.
LEMMA ContentsSize ==
    ASSUME "signed_zero" \notin Exercised, NEW es, IsTable(es), FoundOf(es)
    PROVE  Cardinality(DOMAIN Contents(es)) = Cardinality(InUse(es))
<1> DEFINE f == [i \in InUse(es) |-> Text[es[i].key]]
<1>1. f \in Bijection(InUse(es), TextsOf(es))
  <2>1. f \in [InUse(es) -> TextsOf(es)]
    BY DEF TextsOf
  <2>2. \A i, j \in InUse(es) : f[i] = f[j] => i = j
    BY OneOfEach
  <2>3. \A x \in TextsOf(es) : \E i \in InUse(es) : f[i] = x
    BY DEF TextsOf
  <2> HIDE DEF f
  <2> QED BY <2>1, <2>2, <2>3 DEF Bijection, Injection, Surjection, IsInjective
<1>2. Cardinality(TextsOf(es)) = Cardinality(InUse(es))
  <2>1. IsFiniteSet(InUse(es)) /\ ExistsBijection(InUse(es), TextsOf(es))
    BY <1>1, Places DEF ExistsBijection
  <2> QED BY <2>1, FS_Bijection
<1> QED BY <1>2, ContentsAre

\* A key is in the map when the table has it, with the value the table answers.
LEMMA HasIs ==
    ASSUME "signed_zero" \notin Exercised, NEW n, NEW t,
           IsTable(t.entries), t.count \in Nat, FoundOf(t.entries), CountsOf(n, t),
           NEW k \in Keys, Searchable(t, k)
    PROVE  /\ HasKey(t, k) <=> Text[k] \in DOMAIN Contents(t.entries)
           /\ HasKey(t, k) => /\ Lookup(t, k) = Contents(t.entries)[Text[k]]
                              /\ Find(t.entries, k) \in InUse(t.entries)
                              /\ Text[t.entries[Find(t.entries, k)].key] = Text[k]
<1> DEFINE es == t.entries
           f == Find(es, k)
<1>1. HasKey(t, k) => CanProbe(es, k) /\ es[f].state = "used"
  BY SearchesOf DEF HasKey
<1>2. CanProbe(es, k) => (HasKey(t, k) <=> Text[k] \in DOMAIN Contents(es))
  <2>1. CanProbe(es, k) => (HasKey(t, k) <=> es[f].state = "used")
    BY SearchesOf
  <2>2. CanProbe(es, k) => (es[f].state = "used" <=> Text[k] \in TextsOf(es))
    BY FindsTheKey DEF TextsOf
  <2> QED BY <2>1, <2>2, ContentsAre
<1>3. Text[k] \in DOMAIN Contents(es) => CanProbe(es, k)
  <2>1. Text[k] \in TextsOf(es) => CanProbe(es, k)
    BY FindsTheKey DEF TextsOf
  <2> QED BY <2>1, ContentsAre
<1>4. ASSUME HasKey(t, k)
      PROVE  f \in InUse(es) /\ Text[es[f].key] = Text[k]
  BY <1>1, <1>4, FindAnswers DEF InUse
<1>5. ASSUME HasKey(t, k) PROVE Lookup(t, k) = Contents(es)[Text[k]]
  BY <1>4, <1>5, ContentsAre DEF Lookup
<1> QED BY <1>1, <1>2, <1>3, <1>4, <1>5

-----------------------------------------------------------------------------
(* The refinement.  A growth stutters, and so does nothing else: the       *)
(* operation that begins is a read without an answer, and each pair it     *)
(* sets, a write.                                                          *)

dict == [n \in uses |-> Contents(table[n].entries)]

LEMMA UsesAre ==
    ASSUME TypeOK
    PROVE  uses \subseteq Names /\ (Fields \in uses => Sub \in uses)
BY NamesAssumption DEF TypeOK

LEMMA DictSame ==
    ASSUME UNCHANGED uses, \A n \in uses : Contents(table'[n].entries) = Contents(table[n].entries)
    PROVE  dict' = dict
BY DEF dict

LEMMA DictAt ==
    ASSUME TypeOK, UNCHANGED uses, NEW n \in Names, NEW t,
           table' = [table EXCEPT ![n] = t]
    PROVE  dict' = [dict EXCEPT ![n] = Contents(t.entries)]
<1>1. DOMAIN table = Names /\ uses \subseteq Names
  BY UsesAre DEF TypeOK
<1>2. \A m \in uses : table'[m] = IF m = n THEN t ELSE table[m]
  BY <1>1
<1>3. dict' = [m \in uses |-> Contents(table'[m].entries)]
  BY DEF dict
<1>4. \A m \in uses : Contents(table'[m].entries) = IF m = n THEN Contents(t.entries) ELSE dict[m]
  BY <1>2 DEF dict
<1>5. [dict EXCEPT ![n] = Contents(t.entries)]
        = [m \in uses |-> IF m = n THEN Contents(t.entries) ELSE dict[m]]
  BY DEF dict
<1> QED BY <1>3, <1>4, <1>5

LEMMA ContentsType ==
    ASSUME "signed_zero" \notin Exercised, IInv, ~Growing, NEW n \in uses
    PROVE  /\ n \in DOMAIN dict /\ dict[n] = Contents(table[n].entries)
           /\ dict[n] = [x \in DOMAIN dict[n] |-> dict[n][x]]
<1>1. n \in Names
  BY UsesAre DEF IInv
<1>2. IsTable(table[n].entries) /\ FoundOf(table[n].entries)
  BY <1>1, AtRest
<1>3. n \in DOMAIN dict /\ dict[n] = Contents(table[n].entries)
  BY DEF dict
<1> QED BY <1>2, <1>3, ContentsAre

LEMMA TextType == \A k \in Keys : Text[k] \in Texts
BY KeysAssumption

LEMMA RefinesPut ==
    ASSUME "signed_zero" \notin Exercised, IInv, Put
    PROVE  Dictionary!Next
<1> DEFINE k == op.todo[1][1]
           v == op.todo[1][2]
           x == Text[k]
           n == op.on
           m == Contents(t0.entries)
           stored == Store(n, t0, k, v)
           known == HasKey(t0, k)
           t == IF op.do = "assign" /\ ~known THEN Deleted(stored, k) ELSE stored
<1>1. /\ n \in Names /\ n \in uses /\ t0 = table[n] /\ ~Growing /\ ~Full(t0)
      /\ k \in Keys /\ v \in Values \cup {Nil} /\ CanProbe(t0.entries, k)
      /\ op.do \in {"set", "assign"} /\ UNCHANGED uses
  BY FirstPair DEF Put, IInv, TypeOK, t0, Busy
<1>2. /\ IsTable(t0.entries) /\ t0.count \in Nat /\ FoundOf(t0.entries) /\ CountsOf(n, t0)
  BY <1>1, AtRest
<1>3. /\ table' = [table EXCEPT ![n] = t]
      /\ answer' = IF op.do = "assign" THEN <<"known", x, known>> ELSE <<>>
  BY DEF Put
<1>4. x \in Texts
  BY <1>1, TextType
<1>5. dict[n] = m /\ n \in DOMAIN dict
  BY <1>1, ContentsType
<1> HIDE DEF k, v
<1>6. Contents(stored.entries) = Dictionary!With(m, x, v)
  <2>1. stored.entries = [t0.entries EXCEPT ![Find(t0.entries, k)] = Used(k, v)]
    BY DEF Store
  <2> QED BY <1>1, <1>2, <2>1, ContentsOfStored
<1>7. known <=> x \in DOMAIN m
  <2>1. Searchable(t0, k)
    BY <1>1 DEF Searchable
  <2> QED BY <1>1, <1>2, <2>1, HasIs
<1>8. ~known => Contents(Deleted(stored, k).entries) = m
  <2> SUFFICES ASSUME ~known PROVE Contents(Deleted(stored, k).entries) = m
    OBVIOUS
  <2> DEFINE es == stored.entries
             f == Find(t0.entries, k)
             w == Dictionary!With(m, x, v)
  <2>1. es = [t0.entries EXCEPT ![f] = Used(k, v)]
    BY DEF Store
  <2>2. /\ IsTable(es) /\ FoundOf(es) /\ es[f] = Used(k, v)
        /\ InUse(es) = InUse(t0.entries) \cup {f} /\ Find(es, k) = f
    <3> HIDE DEF es, stored
    <3> QED BY <1>1, <1>2, <2>1, Stored
  <2>3. f \in InUse(es) /\ Text[es[f].key] = x
    BY <2>2 DEF Used
  <2>4. Deleted(stored, k).entries = [es EXCEPT ![f] = Tombstone]
    <3>1. DOMAIN stored = {"entries", "count"} /\ IsTable(stored.entries) /\ stored.count \in Nat
      BY <1>1, <1>2, StoreTyped
    <3> HIDE DEF stored
    <3> QED BY <2>2, <3>1, DeletedTyped
  <2>5. Contents(Deleted(stored, k).entries) = Dictionary!Without(Contents(es), x)
    <3> HIDE DEF es, stored
    <3> QED BY <2>2, <2>3, <2>4, ContentsOfBuried
  <2>6. Contents(es) = w
    BY <1>6
  <2>7. m = [y \in DOMAIN m |-> m[y]] /\ x \notin DOMAIN m
    BY <1>2, <1>7, ContentsAre
  <2> HIDE DEF m, x, es, stored
  <2>8. DOMAIN w = DOMAIN m \cup {x} /\ \A y \in DOMAIN m : y # x => w[y] = m[y]
    BY DEF Dictionary!With
  <2>9. Dictionary!Without(w, x) = m
    <3>1. DOMAIN w \ {x} = DOMAIN m
      BY <2>7, <2>8
    <3>2. Dictionary!Without(w, x) = [y \in DOMAIN m |-> w[y]]
      BY <3>1 DEF Dictionary!Without
    <3>3. \A y \in DOMAIN m : w[y] = m[y]
      BY <2>7, <2>8
    <3> QED BY <2>7, <3>2, <3>3
  <2> QED BY <2>5, <2>6, <2>9
<1>9. dict' = [dict EXCEPT ![n] = Contents(t.entries)]
  <2>1. TypeOK
    BY DEF IInv
  <2> HIDE DEF t, n
  <2> QED BY <1>1, <1>3, <2>1, DictAt
<1> HIDE DEF stored, known, x, m, n
<1>10. CASE op.do = "set"
  <2>1. dict' = [dict EXCEPT ![n] = Dictionary!With(@, x, v)] /\ answer' = <<>>
    BY <1>3, <1>5, <1>6, <1>9, <1>10
  <2>2. Dictionary!Put(n)
    BY <1>1, <1>4, <2>1 DEF Dictionary!Put, dict
  <2> QED BY <1>5, <2>2 DEF Dictionary!Next, dict
<1>11. CASE op.do = "assign"
  <2>1. answer' = <<"known", x, x \in DOMAIN dict[n]>>
    <3>1. known \in BOOLEAN
      BY DEF known, HasKey
    <3>2. known = (x \in DOMAIN m)
      BY <1>7, <3>1
    <3> QED BY <1>3, <1>5, <1>11, <3>2
  <2>2. dict' = IF x \in DOMAIN dict[n] THEN [dict EXCEPT ![n] = Dictionary!With(@, x, v)] ELSE dict
    <3>1. CASE known
      BY <1>5, <1>6, <1>7, <1>9, <3>1
    <3>2. CASE ~known
      <4>1. dict' = [dict EXCEPT ![n] = dict[n]]
        BY <1>5, <1>8, <1>9, <1>11, <3>2
      <4>2. dict' = dict
        BY <4>1 DEF dict
      <4> QED BY <1>5, <1>7, <3>2, <4>2
    <3> QED BY <3>1, <3>2
  <2>3. Dictionary!Assign(n)
    BY <1>1, <1>4, <2>1, <2>2 DEF Dictionary!Assign, Dictionary!Has, dict
  <2> QED BY <1>5, <2>3 DEF Dictionary!Next, dict
<1> QED BY <1>1, <1>10, <1>11

LEMMA RefinesGrowth ==
    ASSUME "signed_zero" \notin Exercised, IInv, StartGrowth \/ Rehash \/ EndGrowth
    PROVE  UNCHANGED Dictionary!vars
<1>0. DOMAIN table = Names /\ op.on \in Names /\ t0 = table[op.on] /\ DOMAIN t0 = {"entries", "count"}
      /\ uses \subseteq Names
  BY UsesAre DEF IInv, TypeOK, t0
<1>1. UNCHANGED <<answer, uses>>
  BY DEF StartGrowth, Rehash, EndGrowth
<1>2. \A n \in uses : Contents(table'[n].entries) = Contents(table[n].entries)
  <2>1. CASE StartGrowth
    <3>1. \A n \in uses : table'[n].entries = table[n].entries
      BY <1>0, <2>1 DEF StartGrowth, Grow
    <3> QED BY <3>1
  <2>2. CASE Rehash
    <3>1. \A n \in uses : table'[n].entries = table[n].entries
      BY <1>0, <2>2 DEF Rehash
    <3> QED BY <3>1
  <2>3. CASE EndGrowth
    <3> DEFINE old == t0.entries
               new == grow.entries
    <3>1. /\ IsTable(old) /\ IsTable(new) /\ FoundOf(old) /\ FoundOf(new)
          /\ Moving(old, t0.count, Capacity(old), new)
      BY <1>0, <2>3 DEF IInv, TypeOK, Findable, Underway, EndGrowth
    <3>2. Copied(old, Capacity(old)) = InUse(old)
      <4>1. \A i \in InUse(old) : i < Capacity(old)
        BY <3>1, Places DEF IsTable
      <4> QED BY <4>1 DEF Copied
    <3>3. Contents(new) = Contents(old)
      <4> HIDE DEF old, new
      <4> QED BY <3>1, <3>2, ContentsOfMoved
    <3>4. /\ table'[op.on].entries = new
          /\ \A n \in Names : n # op.on => table'[n] = table[n]
      BY <1>0, <2>3 DEF EndGrowth
    <3>5. \A n \in uses : n # op.on => Contents(table'[n].entries) = Contents(table[n].entries)
      BY <1>0, <3>4
    <3>6. Contents(table'[op.on].entries) = Contents(table[op.on].entries)
      BY <1>0, <3>3, <3>4
    <3> QED BY <3>5, <3>6
  <2> QED BY <2>1, <2>2, <2>3
<1>3. dict' = dict
  BY <1>1, <1>2, DictSame
<1> QED BY <1>1, <1>3 DEF Dictionary!vars, dict

LEMMA RefinesBegin ==
    ASSUME IInv, Starting \/ Assigning
    PROVE  Dictionary!Next
<1>0. DOMAIN table = Names /\ uses \subseteq Names /\ \A n \in Names : DOMAIN table[n] = {"entries", "count"}
  BY UsesAre DEF IInv, TypeOK
<1>1. PICK n \in Names : n \in uses /\ answer' = <<>> /\ UNCHANGED uses
                         /\ \A m \in uses : table'[m].entries = table[m].entries
  <2>1. CASE Starting
    <3>1. PICK n \in Names, reserve \in Nat, pairs \in Seq(Pair) : SetAfter(n, reserve, pairs)
      BY <2>1 DEF Starting
    <3>2. n \in uses /\ answer' = <<>> /\ UNCHANGED uses
      BY <3>1 DEF SetAfter, Begin
    <3>3. \A m \in uses : table'[m].entries = table[m].entries
      <4>1. CASE UNCHANGED <<table, grow>>
        BY <4>1
      <4>2. CASE Grow(n, Reserved(reserve))
        BY <1>0, <4>2 DEF Grow
      <4> QED BY <3>1, <4>1, <4>2 DEF SetAfter
    <3> QED BY <3>2, <3>3
  <2>2. CASE Assigning
    BY <2>2 DEF Assigning, Begin, Names
  <2> QED BY <2>1, <2>2
<1>2. dict' = dict
  BY <1>1, DictSame
<1>3. Dictionary!Read(n)
  BY <1>1, <1>2 DEF Dictionary!Read, dict
<1>4. n \in DOMAIN dict
  BY <1>1 DEF dict
<1> QED BY <1>3, <1>4 DEF Dictionary!Next, dict

LEMMA RefinesRemove ==
    ASSUME "signed_zero" \notin Exercised, IInv, HashMapDelete \/ DeleteGlobal
    PROVE  Dictionary!Next
<1>0. TypeOK /\ uses \subseteq Names
  BY UsesAre DEF IInv
<1>1. PICK n \in uses, k \in Keys :
        /\ op = Idle /\ Searchable(table[n], k) /\ UNCHANGED <<op, grow, uses>>
        /\ table' = IF HasKey(table[n], k) THEN [table EXCEPT ![n] = Deleted(@, k)] ELSE table
        /\ answer' = <<"known", Text[k], HasKey(table[n], k)>>
  <2>1. CASE HashMapDelete
    BY <2>1 DEF HashMapDelete
  <2>2. CASE DeleteGlobal
    <3>1. PICK k \in Keys :
            /\ op = Idle /\ Globals \in uses
            /\ Searchable(table[Globals], k) /\ HasKey(table[Globals], k)
            /\ table' = [table EXCEPT ![Globals] = Deleted(@, k)]
            /\ answer' = <<"known", Text[k], TRUE>>
            /\ UNCHANGED <<op, grow, uses>>
      BY <2>2 DEF DeleteGlobal
    <3>2. HasKey(table[Globals], k) = TRUE
      BY <3>1, Zenon DEF HasKey
    <3> QED BY <3>1, <3>2
  <2> QED BY <2>1, <2>2
<1> DEFINE t == table[n]
           es == t.entries
           f == Find(es, k)
           x == Text[k]
           m == Contents(es)
<1>2. ~Growing /\ n \in Names
  BY <1>0, <1>1 DEF IInv, Busy, Idle
<1>3. /\ DOMAIN t = {"entries", "count"} /\ IsTable(es) /\ t.count \in Nat
      /\ FoundOf(es) /\ CountsOf(n, t)
  BY <1>2, AtRest
<1>4. dict[n] = m /\ n \in DOMAIN dict /\ dict[n] = [y \in DOMAIN dict[n] |-> dict[n][y]]
  BY <1>2, ContentsType
<1>5. /\ HasKey(t, k) <=> x \in DOMAIN m
      /\ HasKey(t, k) => f \in InUse(es) /\ Text[es[f].key] = x
  BY <1>1, <1>3, HasIs
<1>6. answer' = <<"known", x, x \in DOMAIN dict[n]>>
  <2>1. HasKey(t, k) = (x \in DOMAIN m)
    <3>1. HasKey(t, k) \in BOOLEAN
      BY DEF HasKey
    <3> QED BY <1>5, <3>1
  <2> QED BY <1>1, <1>4, <2>1
<1>7. dict' = [dict EXCEPT ![n] = Dictionary!Without(@, x)]
  <2>1. CASE HasKey(t, k)
    <3>1. table' = [table EXCEPT ![n] = Deleted(t, k)]
      BY <1>1, <2>1
    <3>2. Deleted(t, k).entries = [es EXCEPT ![f] = Tombstone]
      BY <1>3, DeletedTyped
    <3>3. Contents(Deleted(t, k).entries) = Dictionary!Without(m, x)
      <4> HIDE DEF f
      <4> QED BY <1>3, <1>5, <2>1, <3>2, ContentsOfBuried
    <3>4. dict' = [dict EXCEPT ![n] = Contents(Deleted(t, k).entries)]
      BY <1>0, <1>1, <1>2, <3>1, DictAt
    <3> QED BY <1>4, <3>3, <3>4
  <2>2. CASE ~HasKey(t, k)
    <3>1. dict' = dict
      BY <1>1, <2>2, DictSame
    <3> DEFINE d == dict[n]
    <3>2. d = [y \in DOMAIN d |-> d[y]] /\ x \notin DOMAIN d
      BY <1>4, <1>5, <2>2
    <3> HIDE DEF d, x
    <3>3. DOMAIN d \ {x} = DOMAIN d
      BY <3>2
    <3>4. Dictionary!Without(d, x) = d
      BY <3>2, <3>3 DEF Dictionary!Without
    <3>5. dict = [dict EXCEPT ![n] = dict[n]]
      BY DEF dict
    <3> QED BY <3>1, <3>4, <3>5 DEF d
  <2> QED BY <2>1, <2>2
<1>8. Dictionary!Remove(n)
  BY <1>1, <1>6, <1>7, TextType DEF Dictionary!Remove, Dictionary!Has, dict
<1> QED BY <1>4, <1>8 DEF Dictionary!Next, dict

LEMMA RefinesClear ==
    ASSUME IInv, HashMapClear
    PROVE  Dictionary!Next
<1> DEFINE t == [entries |-> <<>>, count |-> 0]
<1>1. Map \in uses /\ Map \in Names /\ TypeOK /\ UNCHANGED uses /\ answer' = <<>>
      /\ table' = [table EXCEPT ![Map] = t]
  BY DEF HashMapClear, Names, IInv
<1>2. t.entries = <<>>
  OBVIOUS
<1> HIDE DEF t
<1>3. dict' = [dict EXCEPT ![Map] = [x \in {} |-> Absent]]
  BY <1>1, <1>2, DictAt, ContentsOfEmpty
<1>4. Dictionary!Clear(Map)
  BY <1>1, <1>3 DEF Dictionary!Clear, Dictionary!None, dict
<1>5. Map \in DOMAIN dict
  BY <1>1 DEF dict
<1> QED BY <1>4, <1>5 DEF Dictionary!Next, dict

\* What a read finds is what the map says.
LEMMA FoundIs ==
    ASSUME "signed_zero" \notin Exercised, IInv, op = Idle, NEW n \in uses, NEW k \in Keys,
           Searchable(table[n], k)
    PROVE  /\ n \in DOMAIN dict
           /\ HasKey(table[n], k) <=> Text[k] \in DOMAIN dict[n]
           /\ Found(n, k) = IF Text[k] \in DOMAIN dict[n] THEN dict[n][Text[k]] ELSE Absent
<1>1. ~Growing /\ n \in Names
  BY UsesAre DEF IInv, Busy, Idle
<1>2. /\ IsTable(table[n].entries) /\ table[n].count \in Nat
      /\ FoundOf(table[n].entries) /\ CountsOf(n, table[n])
  BY <1>1, AtRest
<1>3. dict[n] = Contents(table[n].entries) /\ n \in DOMAIN dict
  BY <1>1, ContentsType
<1> QED BY <1>2, <1>3, HasIs DEF Found

LEMMA LeastOf ==
    Min({1}) = 1 /\ Min({2}) = 2 /\ Min({1, 2}) = 1
<1>1. ASSUME NEW S \in SUBSET Nat, NEW a \in S, \A y \in S : a <= y
      PROVE  Min(S) = a
  <2>1. Min(S) \in S /\ Min(S) <= a
    BY <1>1, LeastNatural
  <2>2. a <= Min(S)
    BY <1>1, <2>1
  <2>3. Min(S) \in Nat /\ a \in Nat
    BY <2>1
  <2> DEFINE s == Min(S)
  <2> HIDE DEF s
  <2>4. s = a
    BY <2>1, <2>2, <2>3 DEF s
  <2> QED BY <2>4 DEF s
<1>2. Min({1}) = 1
  BY <1>1
<1>3. Min({2}) = 2
  BY <1>1
<1>4. Min({1, 2}) = 1
  BY <1>1
<1> QED BY <1>2, <1>3, <1>4

\* Maps reads Min and Cardinality from its own copy of their modules.
LEMMA OwnMin == \A S : Dictionary!Min(S) = Min(S)
BY DEF Dictionary!Min, Min

LEMMA OwnCardinality == \A S : Dictionary!Cardinality(S) = Cardinality(S)
BY DEF Dictionary!Cardinality, Cardinality

LEMMA GetsOne ==
    ASSUME NEW n, NEW x \in Texts,
           answer' = <<"value", <<n>>, x, IF x \in DOMAIN dict[n] THEN dict[n][x] ELSE Absent>>
    PROVE  Dictionary!Get(<<n>>)
<1> DEFINE ns == <<n>>
           known == {i \in DOMAIN ns : Dictionary!Has(ns[i], x)}
<1>1. DOMAIN ns = {1} /\ ns[1] = n
  OBVIOUS
<1>2. Dictionary!Has(n, x) <=> x \in DOMAIN dict[n]
  BY DEF Dictionary!Has, dict
<1> DEFINE r == IF known = {} THEN Absent ELSE dict[ns[Min(known)]][x]
<1>3. r = IF x \in DOMAIN dict[n] THEN dict[n][x] ELSE Absent
  <2>1. CASE x \in DOMAIN dict[n]
    <3>1. known = {1}
      BY <1>1, <1>2, <2>1
    <3> HIDE DEF known
    <3> QED BY <1>1, <2>1, <3>1, LeastOf
  <2>2. CASE x \notin DOMAIN dict[n]
    <3>1. known = {}
      BY <1>1, <1>2, <2>2
    <3> QED BY <2>2, <3>1
  <2> QED BY <2>1, <2>2
<1>4. answer' = <<"value", ns, x, r>>
  <2> HIDE DEF r
  <2> QED BY <1>3
<1> QED BY <1>4, OwnMin DEF Dictionary!Get, dict

LEMMA GetsTwo ==
    ASSUME NEW n, NEW m, NEW x \in Texts,
           answer' = <<"value", <<n, m>>, x,
               IF x \in DOMAIN dict[n] THEN dict[n][x]
               ELSE IF x \in DOMAIN dict[m] THEN dict[m][x] ELSE Absent>>
    PROVE  Dictionary!Get(<<n, m>>)
<1> DEFINE ns == <<n, m>>
           known == {i \in DOMAIN ns : Dictionary!Has(ns[i], x)}
           r == IF known = {} THEN Absent ELSE dict[ns[Min(known)]][x]
<1>1. DOMAIN ns = {1, 2} /\ ns[1] = n /\ ns[2] = m
  OBVIOUS
<1>2. /\ Dictionary!Has(n, x) <=> x \in DOMAIN dict[n]
      /\ Dictionary!Has(m, x) <=> x \in DOMAIN dict[m]
  BY DEF Dictionary!Has, dict
<1>3. r = IF x \in DOMAIN dict[n] THEN dict[n][x]
          ELSE IF x \in DOMAIN dict[m] THEN dict[m][x] ELSE Absent
  <2>1. CASE x \in DOMAIN dict[n]
    <3>1. known = {1} \/ known = {1, 2}
      BY <1>1, <1>2, <2>1
    <3>2. known # {} /\ Min(known) = 1
      <4> HIDE DEF known
      <4> QED BY <3>1, LeastOf
    <3> HIDE DEF known
    <3> QED BY <1>1, <2>1, <3>2
  <2>2. CASE x \notin DOMAIN dict[n] /\ x \in DOMAIN dict[m]
    <3>1. known = {2}
      BY <1>1, <1>2, <2>2
    <3> HIDE DEF known
    <3> QED BY <1>1, <2>2, <3>1, LeastOf
  <2>3. CASE x \notin DOMAIN dict[n] /\ x \notin DOMAIN dict[m]
    <3>1. known = {}
      BY <1>1, <1>2, <2>3
    <3> QED BY <2>3, <3>1
  <2> QED BY <2>1, <2>2, <2>3
<1>4. answer' = <<"value", ns, x, r>>
  <2> HIDE DEF r
  <2> QED BY <1>3
<1> QED BY <1>4, OwnMin DEF Dictionary!Get, dict

LEMMA ReadIs ==
    ASSUME NEW n \in DOMAIN dict, dict' = dict,
           \/ Dictionary!Get(<<n>>) \/ \E m \in DOMAIN dict : Dictionary!Get(<<n, m>>)
           \/ Dictionary!Count(n) \/ Dictionary!List(n) \/ Dictionary!CountPresent(n)
    PROVE  Dictionary!Next
<1>1. Dictionary!Read(n)
  BY DEF Dictionary!Read, dict
<1> QED BY <1>1 DEF Dictionary!Next, dict

LEMMA RefinesGet ==
    ASSUME "signed_zero" \notin Exercised, IInv,
           GetGlobal \/ FindString \/ GetMethod \/ GetProperty \/ HashMapGet
    PROVE  Dictionary!Next
<1>0. op = Idle /\ dict' = dict
  <2>1. op = Idle /\ UNCHANGED <<table, op, grow, uses>>
    BY DEF GetGlobal, FindString, GetMethod, GetProperty, HashMapGet, Read
  <2> QED BY <2>1, DictSame
<1>1. CASE GetGlobal \/ FindString \/ GetMethod \/ HashMapGet
  <2>1. PICK n \in uses, k \in Keys :
          /\ Searchable(table[n], k) /\ answer' = <<"value", <<n>>, Text[k], Found(n, k)>>
    BY <1>1 DEF GetGlobal, FindString, GetMethod, HashMapGet
  <2>2. n \in DOMAIN dict
        /\ Found(n, k) = IF Text[k] \in DOMAIN dict[n] THEN dict[n][Text[k]] ELSE Absent
    BY <1>0, <2>1, FoundIs
  <2>3. Dictionary!Get(<<n>>)
    BY <2>1, <2>2, TextType, GetsOne
  <2> QED BY <1>0, <2>2, <2>3, ReadIs
<1>2. CASE GetProperty
  <2>1. PICK k \in Keys :
          /\ Fields \in uses /\ Searchable(table[Fields], k) /\ Searchable(table[Sub], k)
          /\ answer' = <<"value", <<Fields, Sub>>, Text[k],
                         Found(IF HasKey(table[Fields], k) THEN Fields ELSE Sub, k)>>
    BY <1>2 DEF GetProperty
  <2>2. Sub \in uses
    BY <2>1, UsesAre DEF IInv
  <2>3. /\ Fields \in DOMAIN dict /\ Sub \in DOMAIN dict
        /\ HasKey(table[Fields], k) <=> Text[k] \in DOMAIN dict[Fields]
        /\ Found(Fields, k) = IF Text[k] \in DOMAIN dict[Fields] THEN dict[Fields][Text[k]] ELSE Absent
        /\ Found(Sub, k) = IF Text[k] \in DOMAIN dict[Sub] THEN dict[Sub][Text[k]] ELSE Absent
    BY <1>0, <2>1, <2>2, FoundIs
  <2>4. answer' = <<"value", <<Fields, Sub>>, Text[k],
               IF Text[k] \in DOMAIN dict[Fields] THEN dict[Fields][Text[k]]
               ELSE IF Text[k] \in DOMAIN dict[Sub] THEN dict[Sub][Text[k]] ELSE Absent>>
    <3>1. CASE HasKey(table[Fields], k)
      BY <2>1, <2>3, <3>1
    <3>2. CASE ~HasKey(table[Fields], k)
      BY <2>1, <2>3, <3>2
    <3> QED BY <3>1, <3>2
  <2>5. Dictionary!Get(<<Fields, Sub>>)
    BY <2>4, TextType, GetsTwo
  <2> QED BY <1>0, <2>3, <2>5, ReadIs
<1> QED BY <1>1, <1>2

LEMMA RefinesList ==
    ASSUME Exercised = {}, IInv, HashMapSize \/ HashMapKeys
    PROVE  Dictionary!Next
<1> DEFINE es == table[Map].entries
<1>0. op = Idle /\ dict' = dict /\ Map \in uses /\ Map \in Names
  <2>1. op = Idle /\ UNCHANGED <<table, op, grow, uses>> /\ Map \in uses
    BY DEF HashMapSize, HashMapKeys, Read
  <2> QED BY <2>1, DictSame DEF Names
<1>1. ~Growing
  BY <1>0 DEF IInv, Busy, Idle
<1>2. /\ IsTable(es) /\ table[Map].count \in Nat
      /\ FoundOf(es) /\ CountsOf(Map, table[Map])
  BY <1>0, <1>1, AtRest
<1>3. dict[Map] = Contents(es) /\ Map \in DOMAIN dict
  BY <1>0, <1>1, ContentsType
<1>4. Cardinality(DOMAIN dict[Map]) = Cardinality(InUse(es))
  BY <1>2, <1>3, ContentsSize
<1>5. CASE HashMapSize
  <2>1. answer' = <<"size", Cardinality(DOMAIN dict[Map])>>
    BY <1>4, <1>5 DEF HashMapSize
  <2>2. Dictionary!Count(Map)
    BY <2>1, OwnCardinality DEF Dictionary!Count, dict
  <2> QED BY <1>0, <1>3, <2>2, ReadIs
<1>6. CASE HashMapKeys
  <2>1. answer' = <<"pairs", Cardinality(InUse(es)),
                    {<<Text[es[i].key], es[i].value>> : i \in InUse(es)}>>
    BY <1>6 DEF HashMapKeys
  <2>2. {<<Text[es[i].key], es[i].value>> : i \in InUse(es)}
          = {<<x, dict[Map][x]>> : x \in DOMAIN dict[Map]}
    <3> DEFINE m == dict[Map]
    <3>1. DOMAIN m = TextsOf(es) /\ \A i \in InUse(es) : m[Text[es[i].key]] = es[i].value
      BY <1>2, <1>3, ContentsAre
    <3> HIDE DEF m, es
    <3>2. ASSUME NEW i \in InUse(es)
          PROVE  <<Text[es[i].key], es[i].value>> \in {<<x, m[x]>> : x \in DOMAIN m}
      <4>1. Text[es[i].key] \in DOMAIN m
        BY <3>1 DEF TextsOf
      <4> QED BY <3>1, <4>1
    <3>3. ASSUME NEW x \in DOMAIN m
          PROVE  <<x, m[x]>> \in {<<Text[es[i].key], es[i].value>> : i \in InUse(es)}
      <4>1. PICK i \in InUse(es) : x = Text[es[i].key]
        BY <3>1 DEF TextsOf
      <4> QED BY <3>1, <4>1
    <3> QED BY <3>2, <3>3 DEF m
  <2>3. Dictionary!List(Map)
    BY <1>4, <2>1, <2>2, OwnCardinality DEF Dictionary!List, dict
  <2> QED BY <1>0, <1>3, <2>3, ReadIs
<1> QED BY <1>5, <1>6

LEMMA RefinesPresent ==
    ASSUME "signed_zero" \notin Exercised, IInv, HashMapCountPresent
    PROVE  Dictionary!Next
<1>1. PICK i \in 1 .. Len(Interval) - 1 :
        LET ks == SubSeq(Interval, i, i + 1)
        IN  /\ Read /\ Map \in uses
            /\ \A j \in 1 .. 2 : Searchable(table[Map], ks[j])
            /\ answer' = <<"present", Text[ks[1]], Text[ks[2]],
                  Cardinality({j \in 1 .. 2 : HasKey(table[Map], ks[j])})>>
  BY DEF HashMapCountPresent
<1> DEFINE ks == SubSeq(Interval, i, i + 1)
           x == Text[ks[1]]
           y == Text[ks[2]]
<1>2. ks[1] \in Keys /\ ks[2] \in Keys
  <2>1. Interval \in Seq(Keys)
    BY KeysAssumption
  <2> QED BY <2>1
<1>3. op = Idle /\ dict' = dict /\ Map \in uses
      /\ Searchable(table[Map], ks[1]) /\ Searchable(table[Map], ks[2])
      /\ answer' = <<"present", x, y, Cardinality({j \in 1 .. 2 : HasKey(table[Map], ks[j])})>>
  <2>1. UNCHANGED <<table, op, grow, uses>>
    BY <1>1 DEF Read
  <2>2. dict' = dict
    BY <2>1, DictSame
  <2> QED BY <1>1, <2>2 DEF Read
<1> HIDE DEF ks
<1>4. /\ Map \in DOMAIN dict
      /\ HasKey(table[Map], ks[1]) <=> x \in DOMAIN dict[Map]
      /\ HasKey(table[Map], ks[2]) <=> y \in DOMAIN dict[Map]
  BY <1>2, <1>3, FoundIs
<1>5. {j \in 1 .. 2 : HasKey(table[Map], ks[j])} = Dictionary!Present(Map, <<x, y>>)
  <2>1. Dictionary!Present(Map, <<x, y>>) = {j \in 1 .. 2 : <<x, y>>[j] \in DOMAIN dict[Map]}
    BY DEF Dictionary!Present, Dictionary!Has, dict
  <2>2. \A j \in 1 .. 2 : HasKey(table[Map], ks[j]) <=> <<x, y>>[j] \in DOMAIN dict[Map]
    <3> SUFFICES ASSUME NEW j \in 1 .. 2
                 PROVE  HasKey(table[Map], ks[j]) <=> <<x, y>>[j] \in DOMAIN dict[Map]
      OBVIOUS
    <3> HIDE DEF x, y
    <3>1. j = 1 \/ j = 2
      OBVIOUS
    <3> QED BY <1>4, <3>1
  <2> QED BY <2>1, <2>2
<1>6. x \in Texts /\ y \in Texts
  BY <1>2, TextType
<1> HIDE DEF x, y
<1>7. Dictionary!CountPresent(Map)
  BY <1>3, <1>5, <1>6, OwnCardinality DEF Dictionary!CountPresent, dict
<1> QED BY <1>3, <1>4, <1>7, ReadIs

LEMMA RefinesInit ==
    ASSUME Init
    PROVE  Dictionary!Init
<1>1. answer = <<>> /\ \A n \in Names : table[n].entries = <<>>
  BY DEF Init
<1>2. uses \subseteq Names
  BY NamesAssumption DEF Init
<1>3. \A n \in DOMAIN dict : dict[n] = [x \in {} |-> Absent]
  BY <1>1, <1>2, ContentsOfEmpty DEF dict
<1> QED BY <1>1, <1>3 DEF Dictionary!Init, Dictionary!None, dict

\* The hash tables implement maps: whatever the hashes, the order in which keys come and
\* go, and the growth in between, an operation answers what the map says.
THEOREM TablesImplementMaps ==
    ASSUME Exercised = {}
    PROVE  Spec => Implements
<1>0. "signed_zero" \notin Exercised
  OBVIOUS
<1>1. ASSUME IInv, [Next]_vars
      PROVE  Dictionary!Next \/ UNCHANGED Dictionary!vars
  <2>1. CASE StartGrowth \/ Rehash \/ EndGrowth
    BY <1>0, <1>1, <2>1, RefinesGrowth
  <2>2. CASE Put
    BY <1>0, <1>1, <2>2, RefinesPut
  <2>3. CASE DefineGlobal \/ Intern \/ SetMethod \/ SetProperty \/ HashMapSet \/ HashSetAdd
    BY <1>1, <2>3, Sets, RefinesBegin
  <2>4. CASE HashMapSetBulk \/ HashMapFillRange \/ HashSetAddModRange \/ WithCapacity
    BY <1>1, <2>4, Bulks, RefinesBegin
  <2>5. CASE Inherit \/ SetGlobal
    BY <1>1, <2>5, InheritStarts, AssignsOne, RefinesBegin DEF IInv
  <2>6. CASE HashMapDelete \/ DeleteGlobal
    BY <1>0, <1>1, <2>6, RefinesRemove
  <2>7. CASE HashMapClear
    BY <1>1, <2>7, RefinesClear
  <2>8. CASE GetGlobal \/ FindString \/ GetMethod \/ GetProperty \/ HashMapGet
    BY <1>0, <1>1, <2>8, RefinesGet
  <2>9. CASE HashMapSize \/ HashMapKeys
    BY <1>1, <2>9, RefinesList
  <2>10. CASE HashMapCountPresent
    BY <1>0, <1>1, <2>10, RefinesPresent
  <2>11. CASE UNCHANGED vars
    <3>1. dict' = dict /\ answer' = answer
      BY <2>11, DictSame DEF vars
    <3> QED BY <3>1 DEF Dictionary!vars, dict
  <2> QED BY <1>1, <2>1, <2>2, <2>3, <2>4, <2>5, <2>6, <2>7, <2>8, <2>9, <2>10, <2>11 DEF Next
<1>2. IInv /\ [Next]_vars => [Dictionary!Next]_(Dictionary!vars)
  BY <1>1
<1>3. Spec => []IInv
  BY <1>0, Invariance
<1>4. Init => Dictionary!Init
  BY RefinesInit
<1> QED BY <1>2, <1>3, <1>4, PTL DEF Spec, Implements, Dictionary!Spec
-----------------------------------------------------------------------------
(* Operations come to an end.                                              *)

\* A table has no entries, or as many as GROW_CAPACITY and valueTableReserve give it.
Rooms ==
    /\ \A n \in Names :
          Capacity(table[n].entries) = 0 \/ Capacity(table[n].entries) >= MinCapacity
    /\ Growing => Capacity(grow.entries) >= MinCapacity

\* An operation that has begun has keys to set, or a table that grows.
Pending == op # Idle => op.do # "idle" /\ (Growing \/ op.todo # <<>>)

\* Once the growth is over, one more key fits.
Roomy == 4 * (Cardinality(InUse(t0.entries)) + 1) <= 3 * Capacity(grow.entries)

\* What is left to do before the next key is set: entries to rehash, and, when that does
\* not make room for the key, a second growth.
Work ==
    IF Growing
    THEN Capacity(t0.entries) - grow.at + (IF Roomy THEN 1 ELSE Capacity(grow.entries) + 4)
    ELSE IF Full(t0) THEN Capacity(t0.entries) + 2 ELSE 0

WorkShrinks ==
    [][op # Idle =>
          \/ op' = Idle
          \/ Len(op'.todo) < Len(op.todo)
          \/ op'.todo = op.todo /\ Work \in Nat /\ Work' \in Nat /\ Work' < Work]_vars

\* An operation that has begun can go on: one of the guards of Goes holds.
CanGoOn ==
    op # Idle =>
        IF Growing
        THEN \/ grow.at = Capacity(t0.entries)
             \/ /\ grow.at < Capacity(t0.entries)
                /\ t0.entries[grow.at].state = "used" =>
                       CanProbe(grow.entries, t0.entries[grow.at].key)
        ELSE op.todo # <<>> /\ (Full(t0) \/ CanProbe(t0.entries, op.todo[1][1]))

\* A capacity that valueTableReserve comes to is 0 or a capacity that tables have.
LEMMA SizesFrom ==
    ASSUME NEW c \in Sizes, c # 0
    PROVE  c >= MinCapacity
<1> DEFINE low == {d \in Sizes : d # 0 /\ d < MinCapacity}
<1>1. Sizes \subseteq Nat /\ MinCapacity \in Nat
  BY BoundsAssumption
<1>2. low = {}
  <2> SUFFICES ASSUME low # {} PROVE FALSE
    OBVIOUS
  <2>1. low \in SUBSET Nat
    BY <1>1
  <2> DEFINE m == Min(low)
  <2>2. m \in low /\ \A d \in low : m <= d
    <3> HIDE DEF low
    <3> QED BY <2>1, LeastNatural
  <2> HIDE DEF m
  <2>3. m \in Sizes /\ m # 0 /\ m < MinCapacity /\ m \in Nat
    BY <1>1, <2>2
  <2>4. PICK d \in Sizes : m = 2 * d
    BY <1>1, <2>3, BoundsAssumption
  <2>5. d \in Nat /\ d # 0 /\ d < m /\ d < MinCapacity
    BY <1>1, <2>3, <2>4
  <2>6. m <= d
    BY <2>2, <2>5
  <2> QED BY <2>3, <2>5, <2>6
<1> QED BY <1>1, <1>2

\* A table that is as full as it may be has room for one more key once it has grown.
LEMMA GrowsEnough ==
    ASSUME NEW c \in Nat, c = 0 \/ c >= MinCapacity, NEW u \in Nat, 4 * u <= 3 * c
    PROVE  4 * (u + 1) <= 3 * NewCapacity(c)
<1>1. MinCapacity \in Nat /\ MinCapacity >= 2
  BY BoundsAssumption
<1>2. CASE c = 0
  BY <1>1, <1>2 DEF NewCapacity
<1>3. CASE c >= MinCapacity
  BY <1>1, <1>3 DEF NewCapacity
<1> QED BY <1>2, <1>3

LEMMA StoredCapacity ==
    ASSUME NEW t, DOMAIN t = {"entries", "count"}, IsTable(t.entries), t.count \in Nat, NEW n,
           NEW k \in Keys, NEW v \in Values \cup {Nil}
    PROVE  /\ Capacity(Store(n, t, k, v).entries) = Capacity(t.entries)
           /\ Capacity(Deleted(t, k).entries) = Capacity(t.entries)
<1>1. Used(k, v) \in Entry /\ Tombstone \in Entry
  BY DEF Entry
<1>2. Store(n, t, k, v).entries = [t.entries EXCEPT ![Find(t.entries, k)] = Used(k, v)]
  BY DEF Store
<1>3. Deleted(t, k).entries = [t.entries EXCEPT ![Find(t.entries, k)] = Tombstone]
  BY DeletedTyped
<1> QED BY <1>1, <1>2, <1>3, Changed

\* What a growth starts with.
LEMMA GrowStarts ==
    ASSUME TypeOK, NEW n \in Names, NEW c \in Nat, c > 0, Grow(n, c)
    PROVE  /\ \A m \in Names : table'[m].entries = table[m].entries
           /\ Growing' /\ Capacity(grow'.entries) = c /\ grow'.at = 0
<1>1. \A m \in Names : table'[m].entries = table[m].entries
  BY DEF Grow, TypeOK
<1>2. grow'.entries = Buckets(c) /\ grow'.at = 0
  BY DEF Grow
<1> QED BY <1>1, <1>2, EmptyFound, Buckets0 DEF Growing

\* What a turn of the rehash leaves alone.
LEMMA RehashLeaves ==
    ASSUME TypeOK, Rehash
    PROVE  /\ \A m \in Names : table'[m].entries = table[m].entries
           /\ Capacity(grow'.entries) = Capacity(grow.entries)
           /\ grow'.at = grow.at + 1 /\ Growing /\ op' = op
<1> DEFINE e == t0.entries[grow.at]
<1>1. /\ IsTable(grow.entries) /\ IsTable(t0.entries) /\ grow.at \in Nat
      /\ DOMAIN grow = {"at", "entries"} /\ op.on \in Names /\ DOMAIN table = Names
      /\ \A m \in Names : DOMAIN table[m] = {"entries", "count"}
  BY DEF TypeOK, t0
<1>2. e \in Entry
  <2>1. grow.at \in DOMAIN t0.entries
    BY <1>1, Places DEF Rehash, IsTable
  <2> QED BY <1>1, <2>1, Places
<1>3. CASE e.state = "used"
  <2>1. /\ grow' = [at |-> grow.at + 1, entries |-> Moved(grow.entries, grow.at, e)]
        /\ table' = [table EXCEPT ![op.on].count = @ + 1] /\ op' = op /\ Growing
    BY <1>3 DEF Rehash
  <2>2. Capacity(Moved(grow.entries, grow.at, e)) = Capacity(grow.entries)
    BY <1>1, <1>2, Changed DEF Moved
  <2> HIDE DEF e
  <2>3. \A m \in Names : table'[m].entries = table[m].entries
    BY <1>1, <2>1
  <2> QED BY <2>1, <2>2, <2>3
<1>4. CASE e.state # "used"
  BY <1>1, <1>4 DEF Rehash
<1> QED BY <1>3, <1>4

LEMMA EndGrowthLeaves ==
    ASSUME TypeOK, EndGrowth
    PROVE  /\ op.on \in Names /\ t0 = table[op.on]
           /\ table'[op.on].entries = grow.entries /\ table'[op.on].count = t0.count
           /\ \A m \in Names : m # op.on => table'[m] = table[m]
           /\ Growing /\ ~Growing'
BY DEF EndGrowth, TypeOK, t0, Growing, Still

LEMMA RoomsStep ==
    ASSUME IInv, Rooms, [Next]_vars
    PROVE  Rooms'
<1>0. TypeOK /\ DOMAIN table = Names /\ op.on \in Names
  BY DEF IInv, TypeOK
<1>1. CASE StartGrowth
  <2> DEFINE c == NewCapacity(Capacity(t0.entries))
  <2>1. Capacity(t0.entries) \in Nat
    BY <1>0 DEF TypeOK, IsTable, t0
  <2>2. c \in Nat /\ c >= MinCapacity /\ c > 0
    BY <2>1, BoundsAssumption DEF NewCapacity
  <2>3. Grow(op.on, c)
    BY <1>1 DEF StartGrowth
  <2> HIDE DEF c
  <2> QED BY <1>0, <2>2, <2>3, GrowStarts DEF Rooms
<1>2. CASE Rehash
  BY <1>0, <1>2, RehashLeaves DEF Rooms
<1>3. CASE EndGrowth
  BY <1>0, <1>3, EndGrowthLeaves DEF Rooms
<1>4. CASE Put
  <2> DEFINE k == op.todo[1][1]
             v == op.todo[1][2]
             stored == Store(op.on, t0, k, v)
             t == IF op.do = "assign" /\ ~HasKey(t0, k) THEN Deleted(stored, k) ELSE stored
  <2>1. k \in Keys /\ v \in Values \cup {Nil}
    BY <1>0, <1>4, FirstPair DEF Put
  <2>2. /\ t0 = table[op.on] /\ DOMAIN t0 = {"entries", "count"} /\ IsTable(t0.entries)
        /\ t0.count \in Nat
    BY <1>0 DEF TypeOK, t0
  <2> HIDE DEF k, v
  <2>3. /\ DOMAIN stored = {"entries", "count"} /\ IsTable(stored.entries) /\ stored.count \in Nat
        /\ Capacity(stored.entries) = Capacity(t0.entries)
    BY <2>1, <2>2, StoreTyped, StoredCapacity
  <2>4. Capacity(t.entries) = Capacity(t0.entries)
    <3> HIDE DEF stored
    <3> QED BY <2>1, <2>3, StoredCapacity
  <2>5. table' = [table EXCEPT ![op.on] = t] /\ grow' = grow
    BY <1>4 DEF Put, k, v
  <2> HIDE DEF t
  <2>6. \A m \in Names : Capacity(table'[m].entries) = Capacity(table[m].entries)
    BY <1>0, <2>2, <2>4, <2>5
  <2> QED BY <2>5, <2>6 DEF Rooms, Growing
<1>5. CASE Starting
  <2>1. PICK n \in Names, reserve \in Nat, pairs \in Seq(Pair) : SetAfter(n, reserve, pairs)
    BY <1>5 DEF Starting
  <2>2. CASE UNCHANGED <<table, grow>>
    BY <2>2 DEF Rooms, Growing
  <2>3. CASE reserve > 0 /\ Reserved(reserve) > Capacity(table[n].entries)
               /\ Grow(n, Reserved(reserve))
    <3> DEFINE c == Reserved(reserve)
    <3>1. c \in Sizes /\ c \in Nat
      <4>1. Holding(reserve) # {}
        BY <2>1, <2>3 DEF SetAfter
      <4>2. Holding(reserve) \in SUBSET Nat /\ Holding(reserve) \subseteq Sizes
        BY BoundsAssumption DEF Holding
      <4> QED BY <4>1, <4>2, LeastNatural DEF Reserved
    <3>2. Capacity(table[n].entries) \in Nat
      BY <1>0 DEF TypeOK, IsTable
    <3> HIDE DEF c
    <3>3. c > 0
      BY <2>3, <3>1, <3>2 DEF c
    <3>4. c >= MinCapacity
      BY <3>1, <3>3, SizesFrom
    <3> QED BY <1>0, <2>3, <3>1, <3>3, <3>4, GrowStarts DEF Rooms, c
  <2> QED BY <2>1, <2>2, <2>3 DEF SetAfter
<1>6. CASE Assigning \/ Resting
  BY <1>6 DEF Assigning, Resting, Rooms, Growing
<1>7. CASE Burying
  <2>1. PICK n \in Names, k \in Keys :
          table' = [table EXCEPT ![n] = Deleted(@, k)] /\ UNCHANGED <<op, grow, uses>>
    BY <1>7 DEF Burying
  <2>2. Capacity(Deleted(table[n], k).entries) = Capacity(table[n].entries)
    BY <1>0, StoredCapacity DEF TypeOK
  <2>3. \A m \in Names : Capacity(table'[m].entries) = Capacity(table[m].entries)
    BY <1>0, <2>1, <2>2
  <2> QED BY <2>1, <2>3 DEF Rooms, Growing
<1>8. CASE HashMapClear
  <2>1. /\ grow' = grow /\ table'[Map].entries = <<>>
        /\ \A m \in Names : m # Map => table'[m] = table[m]
    BY <1>0, <1>8 DEF HashMapClear, Names
  <2> QED BY <2>1, EmptyTable DEF Rooms, Growing
<1> QED BY <1>0, <1>1, <1>2, <1>3, <1>4, <1>5, <1>6, <1>7, <1>8, Kinds

LEMMA PendingStep ==
    ASSUME IInv, Rooms, Rooms', Pending, [Next]_vars
    PROVE  Pending'
<1>0. TypeOK /\ DOMAIN table = Names /\ op.on \in Names
      /\ op \in [do : {"idle", "set", "assign"}, on : Names, todo : Seq(Pair)]
  BY DEF IInv, TypeOK
<1>1. CASE StartGrowth
  <2> DEFINE c == NewCapacity(Capacity(t0.entries))
  <2>1. c \in Nat /\ c > 0
    <3>1. Capacity(t0.entries) \in Nat
      BY <1>0 DEF TypeOK, IsTable, t0
    <3> QED BY <3>1, NewCapacityIs
  <2>2. Grow(op.on, c) /\ op' = op
    BY <1>1 DEF StartGrowth
  <2> HIDE DEF c
  <2> QED BY <1>0, <2>1, <2>2, GrowStarts DEF Pending
<1>2. CASE Rehash
  <2>1. Capacity(grow'.entries) = Capacity(grow.entries) /\ Growing /\ op' = op
    BY <1>0, <1>2, RehashLeaves
  <2>2. Capacity(grow'.entries) # 0
    BY <2>1, BoundsAssumption DEF Rooms
  <2>3. Growing'
    BY <2>2, EmptyTable DEF Growing
  <2> QED BY <2>1, <2>3 DEF Pending
<1>3. CASE EndGrowth
  BY <1>3 DEF EndGrowth, Pending
<1>4. CASE Put
  <2>1. op.todo # <<>> /\ op.todo \in Seq(Pair) /\ op.do # "idle"
    BY <1>0, <1>4 DEF Put, IInv, Busy
  <2>2. op' = IF Len(op.todo) = 1 THEN Idle ELSE [op EXCEPT !.todo = Tail(@)]
    BY <1>4 DEF Put
  <2>3. CASE Len(op.todo) # 1
    <3>1. Tail(op.todo) # <<>>
      <4>1. Len(op.todo) \in Nat /\ Len(op.todo) # 0
        BY <2>1
      <4>2. Len(Tail(op.todo)) = Len(op.todo) - 1
        BY <2>1, <4>1
      <4>3. Len(Tail(op.todo)) # 0
        BY <2>3, <4>1, <4>2
      <4> DEFINE rest == Tail(op.todo)
      <4>4. Len(rest) # 0 /\ rest \in Seq(Pair)
        BY <2>1, <4>3
      <4> HIDE DEF rest
      <4>5. rest # <<>>
        BY <4>4
      <4> QED BY <4>5 DEF rest
    <3>2. op'.todo = Tail(op.todo) /\ op'.do = op.do
      BY <1>0, <2>2, <2>3
    <3> QED BY <2>1, <3>1, <3>2 DEF Pending
  <2> QED BY <2>2, <2>3 DEF Pending
<1>5. CASE Starting
  <2>1. PICK n \in Names, reserve \in Nat, pairs \in Seq(Pair) :
          /\ SetAfter(n, reserve, pairs)
          /\ pairs # <<>> \/ (reserve > 0 /\ Capacity(table[n].entries) = 0)
    BY <1>5 DEF Starting
  <2>2. op' = [do |-> "set", on |-> n, todo |-> pairs]
    BY <2>1 DEF SetAfter, Begin
  <2>3. CASE pairs # <<>>
    BY <2>2, <2>3 DEF Pending
  <2>4. CASE reserve > 0 /\ Capacity(table[n].entries) = 0
    <3> DEFINE c == Reserved(reserve)
    <3>1. c \in Holding(reserve) /\ c \in Nat
      <4>1. Holding(reserve) # {}
        BY <2>1, <2>4 DEF SetAfter
      <4>2. Holding(reserve) \in SUBSET Nat
        BY BoundsAssumption DEF Holding
      <4> QED BY <4>1, <4>2, LeastNatural DEF Reserved
    <3>2. c > 0
      <4>1. c > (4 * reserve) \div 3
        BY <3>1 DEF Holding
      <4>2. (4 * reserve) \div 3 \in Nat
        OBVIOUS
      <4> HIDE DEF c
      <4> QED BY <3>1, <4>1, <4>2
    <3>3. Grow(n, c)
      BY <2>1, <2>4, <3>2 DEF SetAfter
    <3> HIDE DEF c
    <3> QED BY <1>0, <2>2, <3>1, <3>2, <3>3, GrowStarts DEF Pending
  <2> QED BY <2>1, <2>3, <2>4
<1>6. CASE Assigning
  BY <1>6 DEF Assigning, Begin, Pending
<1>7. CASE Resting \/ Burying \/ HashMapClear
  BY <1>7 DEF Resting, Burying, HashMapClear, Pending, Growing
<1> QED BY <1>0, <1>1, <1>2, <1>3, <1>4, <1>5, <1>6, <1>7, Kinds

\* The three invariants of an operation that runs.
Running == IInv /\ Rooms /\ Pending

LEMMA RunningInvariant ==
    ASSUME "signed_zero" \notin Exercised
    PROVE  Spec => []Running
<1>1. Init => Running
  <2> SUFFICES ASSUME Init PROVE Running
    OBVIOUS
  <2>1. \A n \in Names : Capacity(table[n].entries) = 0
    BY EmptyTable DEF Init
  <2>2. ~Growing /\ op = Idle
    BY DEF Init, Growing, Still
  <2> QED BY <2>1, <2>2, InitIInv DEF Running, Rooms, Pending
<1>2. Running /\ [Next]_vars => Running'
  BY Step, RoomsStep, PendingStep DEF Running
<1> QED BY <1>1, <1>2, PTL DEF Spec

\* Only the loops of an operation run until it is over.
LEMMA OnlyGoes ==
    ASSUME Next, op # Idle
    PROVE  Goes
<1>1. ~(DefineGlobal \/ Intern \/ SetMethod \/ SetProperty \/ HashMapSet \/ HashSetAdd)
  BY DEF DefineGlobal, Intern, SetMethod, SetProperty, HashMapSet, HashSetAdd, Set,
         SetAfter, Begin
<1>2. ~(SetGlobal \/ Inherit \/ HashMapSetBulk \/ HashMapFillRange \/ HashSetAddModRange
          \/ WithCapacity)
  BY DEF SetGlobal, Inherit, HashMapSetBulk, HashMapFillRange, HashSetAddModRange,
         WithCapacity, SetAfter, Begin
<1>3. ~(GetGlobal \/ FindString \/ GetMethod \/ GetProperty \/ HashMapGet \/ HashMapSize
          \/ HashMapKeys \/ HashMapCountPresent)
  BY DEF GetGlobal, FindString, GetMethod, GetProperty, HashMapGet, HashMapSize, HashMapKeys,
         HashMapCountPresent, Read
<1>4. ~(DeleteGlobal \/ HashMapDelete \/ HashMapClear)
  BY DEF DeleteGlobal, HashMapDelete, HashMapClear
<1> QED BY <1>1, <1>2, <1>3, <1>4 DEF Next, Goes

LEMMA Shrinks ==
    ASSUME Running, Goes
    PROVE  \/ op' = Idle
           \/ Len(op'.todo) < Len(op.todo)
           \/ op'.todo = op.todo /\ Work \in Nat /\ Work' \in Nat /\ Work' < Work
<1> DEFINE old == t0.entries
           u == Cardinality(InUse(old))
<1>0. /\ TypeOK /\ op.on \in Names /\ t0 = table[op.on] /\ IsTable(old) /\ t0.count \in Nat
      /\ Capacity(old) \in Nat /\ u \in Nat /\ grow.at \in Nat
      /\ Capacity(grow.entries) \in Nat /\ op.todo \in Seq(Pair)
  BY Places DEF Running, IInv, TypeOK, t0, IsTable
<1>1. CASE StartGrowth
  <2> DEFINE c == NewCapacity(Capacity(old))
  <2>1. Grow(op.on, c) /\ ~Growing /\ Full(t0) /\ op' = op
    BY <1>1 DEF StartGrowth
  <2>2. c \in Nat /\ c > 0
    BY <1>0, NewCapacityIs
  <2>3. 4 * (u + 1) <= 3 * c
    <3>1. CountsOf(op.on, t0)
      BY <1>0, <2>1, AtRest DEF Running
    <3>2. 4 * u <= 3 * Capacity(old)
      <4>1. u <= Cardinality(Occupied(old)) /\ Cardinality(Occupied(old)) \in Nat
        BY <1>0, Places
      <4>2. Cardinality(Occupied(old)) <= t0.count /\ 4 * t0.count <= 3 * Capacity(old)
        BY <3>1 DEF CountsOf
      <4> HIDE DEF u, old
      <4> QED BY <1>0, <4>1, <4>2
    <3>3. Capacity(old) = 0 \/ Capacity(old) >= MinCapacity
      BY <1>0 DEF Running, Rooms
    <3> HIDE DEF u, old
    <3> QED BY <1>0, <3>2, <3>3, GrowsEnough
  <2> HIDE DEF c
  <2>4. /\ Growing' /\ Capacity(grow'.entries) = c /\ grow'.at = 0 /\ t0' = table'[op.on]
        /\ table'[op.on].entries = old
    BY <1>0, <2>1, <2>2, GrowStarts DEF t0
  <2>5. Roomy' /\ t0'.entries = old
    BY <2>3, <2>4 DEF Roomy
  <2>6. Work = Capacity(old) + 2
    BY <2>1 DEF Work
  <2>7. Work' = Capacity(old) - 0 + 1
    BY <2>4, <2>5 DEF Work
  <2> HIDE DEF old
  <2> QED BY <1>0, <2>1, <2>6, <2>7
<1>2. CASE Rehash
  <2>1. /\ Capacity(grow'.entries) = Capacity(grow.entries) /\ grow'.at = grow.at + 1 /\ Growing
        /\ op' = op /\ table'[op.on].entries = old
    BY <1>0, <1>2, RehashLeaves
  <2>2. t0' = table'[op.on] /\ grow.at < Capacity(old)
    BY <1>2, <2>1 DEF t0, Rehash
  <2>3. Growing'
    <3>1. Capacity(grow'.entries) # 0
      BY <2>1, BoundsAssumption DEF Running, Rooms
    <3> QED BY <3>1, EmptyTable DEF Growing
  <2>4. Roomy' = Roomy
    BY <2>1, <2>2 DEF Roomy
  <2> DEFINE end == IF Roomy THEN 1 ELSE Capacity(grow.entries) + 4
  <2>5. Work = Capacity(old) - grow.at + end /\ Work' = Capacity(old) - (grow.at + 1) + end
    BY <2>1, <2>2, <2>3, <2>4 DEF Work
  <2>6. end \in Nat
    BY <1>0
  <2> DEFINE c == Capacity(old)
             a == grow.at
  <2>7. c \in Nat /\ a \in Nat /\ a < c
    BY <1>0, <2>2
  <2> HIDE DEF old, end, c, a
  <2>8. c - a + end \in Nat /\ c - (a + 1) + end \in Nat /\ c - (a + 1) + end < c - a + end
    BY <2>6, <2>7
  <2>9. Work \in Nat /\ Work' \in Nat /\ Work' < Work
    BY <2>5, <2>8 DEF c, a
  <2> QED BY <2>1, <2>9
<1>3. CASE EndGrowth
  <2> DEFINE new == grow.entries
  <2>1. /\ table'[op.on].entries = new /\ table'[op.on].count = t0.count
        /\ Growing /\ ~Growing'
    BY <1>0, <1>3, EndGrowthLeaves
  <2>2. grow.at = Capacity(old) /\ op' = IF op.todo = <<>> THEN Idle ELSE op
    BY <1>3 DEF EndGrowth
  <2>3. t0.count = u
    <3>1. t0.count = Cardinality(Copied(old, Capacity(old)))
      BY <2>1, <2>2 DEF Running, IInv, Underway, Moving
    <3>2. Copied(old, Capacity(old)) = InUse(old)
      <4>1. \A i \in InUse(old) : i < Capacity(old)
        BY <1>0, Places DEF IsTable
      <4> QED BY <4>1 DEF Copied
    <3> QED BY <3>1, <3>2
  <2>4. CASE op' = op
    <3>1. t0' = table'[op.on]
      BY <2>4 DEF t0
    <3>2. Full(t0') <=> ~Roomy
      <4>1. Full(t0') <=> 4 * (u + 1) > 3 * Capacity(new)
        BY <2>1, <2>3, <3>1 DEF Full
      <4>2. Roomy <=> 4 * (u + 1) <= 3 * Capacity(new)
        BY DEF Roomy
      <4> HIDE DEF u, new
      <4> QED BY <1>0, <4>1, <4>2 DEF new
    <3>3. Work = Capacity(old) - grow.at + (IF Roomy THEN 1 ELSE Capacity(new) + 4)
      BY <2>1 DEF Work
    <3>4. Work' = IF Full(t0') THEN Capacity(new) + 2 ELSE 0
      BY <2>1, <3>1 DEF Work
    <3> HIDE DEF old, new
    <3>5. Capacity(new) \in Nat
      BY <1>0 DEF new
    <3> QED BY <1>0, <2>2, <2>4, <3>2, <3>3, <3>4, <3>5
  <2> QED BY <2>2, <2>4
<1>4. CASE Put
  <2>1. op.todo # <<>> /\ op' = IF Len(op.todo) = 1 THEN Idle ELSE [op EXCEPT !.todo = Tail(@)]
    BY <1>4 DEF Put
  <2>2. CASE Len(op.todo) # 1
    <3>1. op'.todo = Tail(op.todo)
      BY <1>0, <2>1, <2>2 DEF TypeOK
    <3>2. Len(Tail(op.todo)) < Len(op.todo)
      BY <1>0, <2>1
    <3> QED BY <3>1, <3>2
  <2> QED BY <2>1, <2>2
<1> QED BY <1>1, <1>2, <1>3, <1>4 DEF Goes

\* Every operation comes to an end, as far as steps can say it: each step of its loops
\* sets one of its keys, or leaves less to do before the next is set, and a rehash is
\* not followed by another for the same key but where a reservation was too small.
THEOREM OperationsShrink ==
    ASSUME "signed_zero" \notin Exercised
    PROVE  Spec => WorkShrinks
<1>1. Running /\ [Next]_vars =>
        [op # Idle =>
            \/ op' = Idle
            \/ Len(op'.todo) < Len(op.todo)
            \/ op'.todo = op.todo /\ Work \in Nat /\ Work' \in Nat /\ Work' < Work]_vars
  BY OnlyGoes, Shrinks
<1> QED BY <1>1, RunningInvariant, PTL DEF Spec, WorkShrinks

\* And it never gets stuck on the way: there is always a next step, whatever the hashes
\* and the tombstones.
THEOREM OperationsGoOn ==
    ASSUME "signed_zero" \notin Exercised
    PROVE  Spec => []CanGoOn
<1>1. Running /\ SearchesEnd => CanGoOn
  <2> SUFFICES ASSUME Running, SearchesEnd, op # Idle
               PROVE  IF Growing
                      THEN \/ grow.at = Capacity(t0.entries)
                           \/ /\ grow.at < Capacity(t0.entries)
                              /\ t0.entries[grow.at].state = "used" =>
                                     CanProbe(grow.entries, t0.entries[grow.at].key)
                      ELSE op.todo # <<>> /\ (Full(t0) \/ CanProbe(t0.entries, op.todo[1][1]))
    BY DEF CanGoOn
  <2>0. TypeOK /\ IsTable(t0.entries) /\ Capacity(t0.entries) \in Nat /\ grow.at \in Nat
    BY DEF Running, IInv, TypeOK, t0, IsTable
  <2>1. CASE Growing
    <3>1. grow.at <= Capacity(t0.entries)
      BY <2>1 DEF Running, IInv, Underway, Moving
    <3>2. CASE grow.at < Capacity(t0.entries)
      <4>1. grow.at \in DOMAIN t0.entries
        BY <2>0, <3>2 DEF IsTable
      <4>2. t0.entries[grow.at].state = "used" => t0.entries[grow.at].key \in Keys
        BY <2>0, <4>1, Places, Entries
      <4> QED BY <2>1, <3>2, <4>2 DEF SearchesEnd
    <3> QED BY <2>0, <2>1, <3>1, <3>2
  <2>2. CASE ~Growing
    <3>1. op.todo # <<>>
      BY <2>2 DEF Running, Pending
    <3>2. op.todo[1][1] \in Keys
      BY <2>0, <3>1, FirstPair
    <3> QED BY <2>2, <3>1, <3>2 DEF SearchesEnd
  <2> QED BY <2>1, <2>2
<1> QED BY <1>1, RunningInvariant, AllSearchesEnd, PTL
=============================================================================
