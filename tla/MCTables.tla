------------------------------ MODULE MCTables ------------------------------
(* Small instances of Tables: keys that collide, wrap around, and one that  *)
(* stands alone.                                                            *)
EXTENDS Tables, TLC

CONSTANTS a, b, c, v, w

MCKeys == {a, b, c}
MCText == [k \in MCKeys |-> k]
MCHash == (a :> 3) @@ (b :> 3) @@ (c :> 0)
MCMethods == (Super :> v) @@ (Sub :> w)
MCUses == {{Globals}, {Strings}, {Super, Sub}, {Sub, Fields}, {Map}}
MCInterval == <<a, b, c>>
=============================================================================
