-------------------------------- MODULE Maps --------------------------------
(***************************************************************************)
(* What Blaze's tables promise: each is a map from the contents of keys to *)
(* values, and an operation answers what the map says.  There are no       *)
(* buckets here, no tombstones, no capacities.  Tables implements this.    *)
(***************************************************************************)
EXTENDS Integers, FiniteSetsExt

CONSTANTS Texts, Values, Absent

VARIABLES
    dict,   \* for each table, a function from the texts it has to their values
    answer  \* of the last operation; <<>> when it has none, or is not over

vars == <<dict, answer>>

None == [x \in {} |-> Absent]
Has(n, x) == x \in DOMAIN dict[n]
With(d, x, v) == [y \in DOMAIN d \cup {x} |-> IF y = x THEN v ELSE d[y]]
Without(d, x) == [y \in DOMAIN d \ {x} |-> d[y]]
Present(n, xs) == {i \in DOMAIN xs : Has(n, xs[i])}

-----------------------------------------------------------------------------
(* Reads, each of one table.                                               *)

\* The first table of a few that has the key; a field hides a method.
Get(ns) == \E x \in Texts :
    LET known == {i \in DOMAIN ns : Has(ns[i], x)}
    IN  answer' = <<"value", ns, x,
            IF known = {} THEN Absent ELSE dict[ns[Min(known)]][x]>>

Count(n) == answer' = <<"size", Cardinality(DOMAIN dict[n])>>

\* The keys, each once, with their values.
List(n) == answer' =
    <<"pairs", Cardinality(DOMAIN dict[n]), {<<x, dict[n][x]>> : x \in DOMAIN dict[n]}>>

\* How many of the keys asked for there are.
CountPresent(n) == \E x, y \in Texts :
    answer' = <<"present", x, y, Cardinality(Present(n, <<x, y>>))>>

Read(n) ==
    /\ \/ answer' = <<>>
       \/ Get(<<n>>) \/ \E m \in DOMAIN dict : Get(<<n, m>>)
       \/ Count(n) \/ List(n) \/ CountPresent(n)
    /\ UNCHANGED dict

-----------------------------------------------------------------------------
(* Writes.                                                                 *)

Put(n) == \E x \in Texts, v \in Values :
    /\ answer' = <<>>
    /\ dict' = [dict EXCEPT ![n] = With(@, x, v)]

\* Assignment to a key there is; to any other it fails and changes nothing.
Assign(n) == \E x \in Texts, v \in Values :
    /\ answer' = <<"known", x, Has(n, x)>>
    /\ dict' = IF Has(n, x) THEN [dict EXCEPT ![n] = With(@, x, v)] ELSE dict

Remove(n) == \E x \in Texts :
    /\ answer' = <<"known", x, Has(n, x)>>
    /\ dict' = [dict EXCEPT ![n] = Without(@, x)]

Clear(n) == answer' = <<>> /\ dict' = [dict EXCEPT ![n] = None]

Init == answer = <<>> /\ \A n \in DOMAIN dict : dict[n] = None
Next ==
    \E n \in DOMAIN dict :
        Read(n) \/ Put(n) \/ Assign(n) \/ Remove(n) \/ Clear(n)
Spec == Init /\ [][Next]_vars
=============================================================================
