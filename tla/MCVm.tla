-------------------------------- MODULE MCVm --------------------------------
(* Small instances of Vm.                                                   *)
EXTENDS Vm, TLC

CONSTANTS f, g, u1, u2

MCClosures == {Script, Initializer, Method, f, g}
MCArity == [c \in MCClosures |-> IF c \in {Initializer, g} THEN 1 ELSE 0]
MCUpvalues == {u1, u2}
MCData == {0}

\* Calls, nested try blocks and exceptions.
Exceptions == [ops |-> {"CONSTANT", "POP", "CALL", "RETURN", "TRY", "THROW", "ERROR"},
               constants |-> {0, Bound}, height |-> 6]

\* Closures that share variables with the function that made them.
Sharing == [ops |-> {"CLOSURE", "UPVALUE", "CLOSE_UPVALUE", "LOCAL", "CALL", "RETURN"},
            constants |-> {}, height |-> 4]

\* Closures that outlive it.
Escaping == [ops |-> {"CONSTANT", "CLOSURE", "UPVALUE", "GLOBAL", "CALL", "RETURN"},
             constants |-> {0}, height |-> 4]

\* Exceptions thrown while variables are captured.
Unwinding == [ops |-> {"CONSTANT", "CLOSURE", "UPVALUE", "CALL", "RETURN", "TRY", "THROW", "POP"},
              constants |-> {0}, height |-> 4]

\* Tail calls over captured variables.
Tails == [ops |-> {"CONSTANT", "CLOSURE", "UPVALUE", "CALL", "TAIL_CALL", "RETURN"},
          constants |-> {0}, height |-> 5]

\* Everything that can be called.
Objects == [ops |-> {"CONSTANT", "CALL", "SUPER_INVOKE", "TAIL_CALL", "RETURN", "ERROR"},
            constants |-> {0, Native, Plain, Built, Bound}, height |-> 5]

MCPrograms == {Exceptions, Sharing, Escaping, Unwinding, Tails, Objects}
MCSymmetry == Permutations({u1, u2})
=============================================================================
