----------------------------- MODULE Activations -----------------------------
(***************************************************************************)
(* What Blaze promises about calls, whatever the stack machine does: an    *)
(* activation has variables of its own and the try blocks it is inside;    *)
(* closures share variables, through cells, with the activation that       *)
(* declared them for as long as it lasts, and keep the last value after    *)
(* that; an exception goes to the innermost try block any activation is    *)
(* inside.                                                                 *)
(*                                                                         *)
(* There is no stack here: no slots, no frames to reuse, no list of open   *)
(* upvalues.  Vm is shown to implement this module.                        *)
(***************************************************************************)
EXTENDS Integers, FiniteSets, SequencesExt

CONSTANTS
    Values,       \* what variables hold
    Nil,          \* the value of a cell that was never used
    Closures,     \* closures, a subset of Values
    Arity,        \* the parameters of each closure's function
    Target(_),    \* what a call of a value runs: code, and a value for `self`
    Answers(_, _), \* the results of a call, with n arguments, that runs no code
    MaxArgs,      \* arguments of such a call
    Initializer,  \* the method `init` of a class
    Cells,        \* captured variables
    MaxDepth,     \* activations at a time
    MaxTries      \* try blocks at a time

VARIABLES
    acts,    \* activations, the running one last: its code, variables and, for
             \* each try block it is inside, how many variables it had there
    cell,    \* a cell: variable `var` of activation `act`, or a value if act = 0
    env,     \* the cells of each closure made so far
    global   \* a global variable

vars == <<acts, cell, env, global>>

Activation == [code : Closures, vars : Seq(Values), tries : Seq(Nat)]
CellType == [act : Nat, var : Nat, val : Values \cup {Nil}]
Kept(v) == [act |-> 0, var |-> 0, val |-> v]
At(i, j) == [act |-> i, var |-> j, val |-> Nil]

Depth == Len(acts)
Top == Last(acts)
Running == acts # <<>>
Tries == Cardinality(UNION {{i} \X DOMAIN acts[i].tries : i \in DOMAIN acts})
Becomes(vs) == acts' = [acts EXCEPT ![Depth].vars = vs]
Begins(c, vs) == [code |-> c, vars |-> vs, tries |-> <<>>]

\* The cells of variables past the n-th of activation i, or of later activations,
\* are detached: they keep the value their variable has.
Detach(i, n) ==
    cell' = [u \in Cells |->
                IF cell[u].act > i \/ (cell[u].act = i /\ cell[u].var > n)
                THEN Kept(acts[cell[u].act].vars[cell[u].var])
                ELSE cell[u]]

-----------------------------------------------------------------------------
Begin(c) ==
    /\ acts = <<>>
    /\ acts' = <<Begins(c, <<c>>)>>
    /\ UNCHANGED <<cell, env, global>>

\* Declare a variable, or compute a temporary.
Declare(v) ==
    /\ Running
    /\ Becomes(Append(Top.vars, v))
    /\ UNCHANGED <<cell, env, global>>

\* Leave the scope of the last variable.
Discard ==
    /\ Running /\ Top.vars # <<>>
    /\ Becomes(Front(Top.vars))
    /\ Detach(Depth, Len(Top.vars) - 1)
    /\ UNCHANGED <<env, global>>

Assign(j) ==
    /\ Running /\ j \in DOMAIN Top.vars
    /\ Becomes([Top.vars EXCEPT ![j] = Last(Top.vars)])
    /\ UNCHANGED <<cell, env, global>>

\* Assign to a captured variable: for every closure that shares it, and for the
\* activation that declared it.
AssignCell(u) ==
    /\ Running /\ Top.vars # <<>> /\ u \in env[Top.code]
    /\ \/ /\ cell[u].act = 0
          /\ cell' = [cell EXCEPT ![u] = Kept(Last(Top.vars))]
          /\ UNCHANGED acts
       \/ /\ cell[u].act # 0
          /\ acts' = [acts EXCEPT ![cell[u].act].vars[cell[u].var] = Last(Top.vars)]
          /\ UNCHANGED cell
    /\ UNCHANGED <<env, global>>

\* A global takes the value of the last variable, which is discarded.
AssignGlobal ==
    /\ Running /\ Top.vars # <<>>
    /\ global' = Last(Top.vars)
    /\ Becomes(Front(Top.vars))
    /\ Detach(Depth, Len(Top.vars) - 1)
    /\ UNCHANGED env

\* A new closure: its cells are cells of the running code, or those of variables of
\* the running activation, each variable having one cell at most.
Close(c) ==
    /\ Running /\ c \notin DOMAIN env
    /\ Becomes(Append(Top.vars, c))
    /\ LET used == UNION {env[d] : d \in DOMAIN env}
           new == {u \in Cells : cell'[u] # cell[u]}
           shared == env'[c] \ new
       IN  /\ DOMAIN env' = DOMAIN env \cup {c}
           /\ \A d \in DOMAIN env : env'[d] = env[d]
           /\ new \subseteq env'[c] \ used
           /\ \A u \in shared : u \in env[Top.code] \/ cell[u].act = Depth
           /\ \A u \in new : \E j \in 1 .. Len(Top.vars) + 1 :
                 cell'[u] = At(Depth, j) /\ \A w \in Cells \ {u} : cell'[w] # At(Depth, j)
    /\ UNCHANGED global

-----------------------------------------------------------------------------
(* Calls: the last n variables are the arguments, the one before is the    *)
(* callee, whose place `self` takes in the new activation.                 *)

Arguments(n) == SubSeq(Top.vars, Len(Top.vars) - n + 1, Len(Top.vars))
Rest(n) == SubSeq(Top.vars, 1, Len(Top.vars) - n - 1)
Callee(n) == Top.vars[Len(Top.vars) - n]
Calls(c) == {t \in Target(Callee(Arity[c])) : t.code = c}

Call(c) ==
    /\ Running /\ Len(Top.vars) > Arity[c] /\ Depth < MaxDepth
    /\ \E t \in Calls(c) :
          acts' = Append([acts EXCEPT ![Depth].vars = Rest(Arity[c])],
                         Begins(c, <<t.self>> \o Arguments(Arity[c])))
    /\ UNCHANGED <<cell, env, global>>

\* A super call: the last variable is the superclass.
SuperCall(c) ==
    /\ Running /\ Len(Top.vars) > Arity[c] + 1 /\ Depth < MaxDepth
    /\ LET all == Front(Top.vars)
           low == Len(all) - Arity[c] - 1
       IN  acts' = Append([acts EXCEPT ![Depth].vars = SubSeq(all, 1, low)],
                          Begins(c, SubSeq(all, low + 1, Len(all))))
    /\ UNCHANGED <<cell, env, global>>

\* A call that needs no activation: of a native, or of a class without initializer.
Reply(n) ==
    /\ Running /\ Len(Top.vars) > n
    /\ \E v \in Answers(Callee(n), n) : Becomes(Append(Rest(n), v))
    /\ UNCHANGED <<cell, env, global>>

\* The activations after v is returned from the last one.
Returned(v) ==
    IF Depth = 1 THEN <<>>
    ELSE [Front(acts) EXCEPT ![Depth - 1].vars = Append(@, v)]

\* Return, with the last variable as its value; an initializer returns `this`.
Return ==
    /\ Running /\ Top.vars # <<>>
    /\ Top.code = Initializer => Last(Top.vars) = Head(Top.vars)
    /\ Detach(Depth, 0)
    /\ acts' = Returned(Last(Top.vars))
    /\ UNCHANGED <<env, global>>

\* return c(...): a call and a return of its result.  Inside a try block the call
\* must stay inside it, so there the activation cannot be given up.
TailCall(c) ==
    /\ Running /\ Top.tries = <<>> /\ Len(Top.vars) > Arity[c]
    /\ \E t \in Calls(c) :
          acts' = [acts EXCEPT ![Depth] = Begins(c, <<t.self>> \o Arguments(Arity[c]))]
    /\ Detach(Depth, 0)
    /\ UNCHANGED <<env, global>>

TailReply(n) ==
    /\ Running /\ Top.tries = <<>> /\ Len(Top.vars) > n
    /\ \E v \in Answers(Callee(n), n) : acts' = Returned(v)
    /\ Detach(Depth, 0)
    /\ UNCHANGED <<env, global>>

-----------------------------------------------------------------------------
(* Exceptions and errors.                                                  *)

EnterTry ==
    /\ Running /\ Tries < MaxTries
    /\ acts' = [acts EXCEPT ![Depth].tries = Append(@, Len(Top.vars))]
    /\ UNCHANGED <<cell, env, global>>

LeaveTry ==
    /\ Running /\ Top.tries # <<>> /\ Last(Top.tries) = Len(Top.vars)
    /\ acts' = [acts EXCEPT ![Depth].tries = Front(@)]
    /\ UNCHANGED <<cell, env, global>>

\* The innermost try block catches the value of the last variable; what was
\* declared inside the block, and every activation begun inside it, is gone.
Throw ==
    /\ Running /\ Top.vars # <<>>
    /\ \E i \in DOMAIN acts :
          /\ acts[i].tries # <<>>
          /\ \A k \in DOMAIN acts : k > i => acts[k].tries = <<>>
          /\ LET n == Last(acts[i].tries)
             IN  /\ Detach(i, n)
                 /\ acts' = Append(SubSeq(acts, 1, i - 1),
                                   [code |-> acts[i].code,
                                    vars |-> Append(SubSeq(acts[i].vars, 1, n), Last(Top.vars)),
                                    tries |-> Front(acts[i].tries)])
    /\ UNCHANGED <<env, global>>

\* A run-time error, or an exception no try block catches, ends every activation.
Fail ==
    /\ Running
    /\ Detach(0, 0)
    /\ acts' = <<>>
    /\ UNCHANGED <<env, global>>

-----------------------------------------------------------------------------
Init ==
    /\ acts = <<>> /\ cell = [u \in Cells |-> Kept(Nil)]
    /\ env \in UNION {[C -> {{}}] : C \in SUBSET Closures}
    /\ global \in Values

Next ==
    \/ \E c \in Closures : Begin(c) \/ Close(c) \/ Call(c) \/ SuperCall(c) \/ TailCall(c)
    \/ \E v \in Values : Declare(v)
    \/ \E n \in 0 .. MaxArgs : Reply(n) \/ TailReply(n)
    \/ Discard \/ AssignGlobal
    \/ Running /\ \E j \in DOMAIN Top.vars : Assign(j)
    \/ \E u \in Cells : AssignCell(u)
    \/ Return \/ EnterTry \/ LeaveTry \/ Throw \/ Fail

Spec == Init /\ [][Next]_vars

\* A cell that is not detached is a variable of an activation there is, and no two
\* cells are the same variable: closures that capture one variable share it.
CellsOK ==
    /\ \A u \in Cells : cell[u].act # 0 =>
          cell[u].act \in DOMAIN acts /\ cell[u].var \in DOMAIN acts[cell[u].act].vars
    /\ \A u, w \in Cells : cell[u].act # 0 /\ cell[u] = cell[w] => u = w
=============================================================================
