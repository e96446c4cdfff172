----------------------------- MODULE Namespaces -----------------------------
(***************************************************************************)
(* What imports promise: the names a program sees.  An import of a module  *)
(* gives it the names asked for, as the module defines them, or fails and  *)
(* gives it none of them.  There is no cache here, no snapshot of globals  *)
(* and nothing to clean up.  Imports implements this.                      *)
(***************************************************************************)
EXTENDS Integers

CONSTANTS
    Names, Values,
    Modules,    \* the files that hold modules
    Sources,    \* what a module's file may contain
    Exports     \* of a source that loads and runs: its names and their values

VARIABLES
    seen,       \* the names there are, and their values
    answer      \* of the last import; <<>> before one, and after something else

vars == <<seen, answer>>

Overlay(old, new) ==
    [n \in DOMAIN old \cup DOMAIN new |-> IF n \in DOMAIN new THEN new[n] ELSE old[n]]
Chosen(s, names) == [n \in DOMAIN Exports[s] \cap names |-> Exports[s][n]]

-----------------------------------------------------------------------------
Init == answer = <<>> /\ DOMAIN seen \subseteq Names \* the natives

\* import { names } from "m"
Select(m, s, names) ==
    /\ answer' = <<"selected", m, s, names>>
    /\ seen' = Overlay(seen, Chosen(s, names))

\* One name of a module that is imported as a whole, or of the program's own.
Define(n, v) ==
    /\ answer' = <<>>
    /\ seen' = Overlay(seen, [x \in {n} |-> v])

\* import "m": all of its names are there.
Import(m, s) ==
    /\ answer' = <<"imported", m, s>>
    /\ DOMAIN Exports[s] \subseteq DOMAIN seen
    /\ Exports[s] = [n \in DOMAIN Exports[s] |-> seen[n]]
    /\ UNCHANGED seen

Fail ==
    /\ UNCHANGED seen
    /\ answer' = <<"failed">>

Other ==
    /\ UNCHANGED seen
    /\ answer' = <<>>

Next ==
    \/ Fail \/ Other
    \/ \E m \in Modules, s \in DOMAIN Exports :
        Import(m, s) \/ \E names \in (SUBSET Names) \ {{}} : Select(m, s, names)
    \/ \E n \in Names, v \in Values : Define(n, v)

Spec == Init /\ [][Next]_vars
=============================================================================
