----------------------------- MODULE Execution ------------------------------
(***************************************************************************)
(* A program from its text to its end: the compiler's code (Codegen), run  *)
(* by the interpreter loop, against what the program means (Meaning).      *)
(*                                                                         *)
(* Here the instructions have operands and the stack has values; Vm has    *)
(* the same loop without either, over any code that keeps to its           *)
(* conventions.  Slots are numbered from 1, as are instructions.           *)
(***************************************************************************)
EXTENDS Meaning

CONSTANTS
    Programs,     \* what may be compiled: lists of statements
    FramesMax,    \* FRAMES_MAX
    HandlersMax,  \* EXCEPTION_HANDLERS_MAX
    Exercised     \* the hazards the programs may meet

ASSUME LimitsAssumption ==
    /\ LocalsMax \in Nat \ {0} /\ ConstantsMax \in Nat /\ JumpMax \in Nat /\ FinallyMax \in Nat
    /\ UnrollMax \in Nat /\ CStack \in Nat /\ FramesMax \in Nat \ {0} /\ HandlersMax \in Nat
    /\ Exercised \subseteq CompileHazards \union MeaningHazards \union {"throw_over_captured"}

VARIABLES
    phase,      \* "source", "run", then "done", "error" (an exception was not caught), "refused",
                \* "sunk" (the compiler never ends), "fault" (control is in another function's code)
                \* or "excluded" (a hazard that is not exercised)
    program,
    repl,       \* TRUE: a line of the REPL
    functions,  \* what the compiler made; the last is the script
    stack,
    frames,     \* closure, ip, base: the slot of the callee
    handlers,   \* frame, catch and height of the try blocks that were entered
    upvalues,   \* the slot each is open over, or 0 and a value of its own
    closures,   \* a function and its upvalues
    classes,    \* methods and fields
    objects,    \* class and fields
    globals,
    printed
source == <<program, repl, functions>>
made == <<closures, classes, objects>>
vars == <<phase, source, stack, frames, handlers, upvalues, made, globals, printed>>

Frame == Last(frames)
Code == functions[closures[Frame.closure].function]
Instr == Code.code[Frame.ip]
Named == Code.constants[Instr.arg].s
Peek(n) == stack[Len(stack) - n]
Pops(n) == SubSeq(stack, 1, Len(stack) - n)
Taken(n) == SubSeq(stack, Len(stack) - n + 1, Len(stack))
ClassVal(id) == [v |-> "class", id |-> id]
ObjectVal(id) == [v |-> "object", id |-> id]
BoundVal(receiver, id) == [v |-> "bound", this |-> receiver, id |-> id]
FunctionOf(id) == functions[closures[id].function]

-----------------------------------------------------------------------------
(* Instructions that replace values on the stack by another.               *)

Literals == {"CONSTANT", "NIL", "TRUE", "FALSE"}
Unary == {"NOT", "NEGATE_INT", "ARRAY_LENGTH"}
Binary == {"ADD_INT", "ADD_FLOAT", "ADD_MIXED", "LESS", "EQUAL", "INDEX_GET", "RANGE", "ARRAY_CONCAT"}
Operators == Literals \union Unary \union Binary \union {"ARRAY", "ARRAY_SLICE"}
Takes ==
    CASE Instr.op \in Literals -> 0
      [] Instr.op \in Unary -> 1
      [] Instr.op \in Binary -> 2
      [] Instr.op = "ARRAY_SLICE" -> 3
      [] Instr.op = "ARRAY" -> Instr.arg

Kinds(xs, kinds) == \A k \in DOMAIN xs : xs[k].v = kinds[k]
\* The arithmetic instructions look at no kinds: the compiler is to see to them.
Accepts(xs) ==
    CASE Instr.op \in Literals \union {"ARRAY", "EQUAL"} -> TRUE
      [] Instr.op = "NOT" -> Kinds(xs, <<"bool">>)
      [] Instr.op = "NEGATE_INT" -> Kinds(xs, <<"int">>)
      [] Instr.op \in {"ADD_INT", "RANGE"} -> Kinds(xs, <<"int", "int">>)
      [] Instr.op = "ADD_FLOAT" -> Kinds(xs, <<"float", "float">>)
      [] Instr.op \in {"LESS", "ADD_MIXED"} -> \A k \in DOMAIN xs : Number(xs[k])
      [] Instr.op = "ARRAY_LENGTH" -> Kinds(xs, <<"array">>)
      [] Instr.op = "ARRAY_CONCAT" -> Kinds(xs, <<"array", "array">>)
      [] Instr.op = "ARRAY_SLICE" -> Kinds(xs, <<"array", "int", "nil">>) /\ xs[2].n >= 0
      [] Instr.op = "INDEX_GET" -> Kinds(xs, <<"array", "int">>) /\ xs[2].n + 1 \in DOMAIN xs[1].elements
Produces(xs) ==
    CASE Instr.op = "CONSTANT" -> Code.constants[Instr.arg]
      [] Instr.op = "NIL" -> NilVal
      [] Instr.op \in {"TRUE", "FALSE"} -> BoolVal(Instr.op = "TRUE")
      [] Instr.op = "NOT" -> BoolVal(~ xs[1].b)
      [] Instr.op = "NEGATE_INT" -> IntVal(- xs[1].n)
      [] Instr.op \in {"ADD_INT", "ADD_FLOAT", "ADD_MIXED", "LESS", "EQUAL"} -> Compute(Instr.op, xs[1], xs[2])
      [] Instr.op = "ARRAY" -> ArrayVal(xs)
      [] Instr.op = "ARRAY_LENGTH" -> IntVal(Len(xs[1].elements))
      [] Instr.op = "INDEX_GET" -> xs[1].elements[xs[2].n + 1]
      [] Instr.op = "RANGE" -> Ints(xs[1].n, xs[2].n)
      [] Instr.op = "ARRAY_CONCAT" -> ArrayVal(xs[1].elements \o xs[2].elements)
      [] Instr.op = "ARRAY_SLICE" -> ArrayVal(SubSeq(xs[1].elements, xs[2].n + 1, Len(xs[1].elements)))

-----------------------------------------------------------------------------
(* What the other instructions need to find on the stack.                  *)

HasInitializer(class) == "init" \in DOMAIN classes[class].methods
Room == Len(frames) < FramesMax
\* vm_call_value, and what a tail call does itself: the arguments are as many as parameters.
Callable(callee, args) ==
    CASE callee.v \in {"closure", "bound"} -> FunctionOf(callee.id).arity = args
      [] callee.v = "class" ->
           IF HasInitializer(callee.id)
             THEN FunctionOf(classes[callee.id].methods["init"]).arity = args ELSE args = 0
      [] OTHER -> FALSE
MakesFrame(callee) == callee.v \in {"closure", "bound"} \/ HasInitializer(callee.id)
Fields(receiver) ==
    IF receiver.v = "object" THEN objects[receiver.id].fields ELSE classes[receiver.id].fields
Methods(receiver) ==
    IF receiver.v = "object" THEN classes[objects[receiver.id].class].methods ELSE <<>>

\* How many values above the frame's first slot.
Above == Len(stack) - Frame.base
Ready ==
    LET op == Instr.op
        arg == Instr.arg
    IN
    CASE op \in Operators -> Above >= Takes /\ Accepts(Taken(Takes))
      [] op = "GET_LOCAL" -> Frame.base + arg - 1 <= Len(stack)
      [] op = "SET_LOCAL" -> Frame.base + arg - 1 < Len(stack)
      [] op \in {"GET_UPVALUE", "CLOSURE", "CLASS", "JUMP", "LOOP", "TRY_END"} -> TRUE
      [] op \in {"POP", "DUP", "SET_UPVALUE", "CLOSE_UPVALUE", "PRINT", "DEFINE_GLOBAL", "RETURN",
                 "THROW"} -> Above >= 1
      [] op = "TRY" -> Len(handlers) < HandlersMax
      [] op = "JUMP_IF_FALSE" -> Above >= 1 /\ Peek(0).v = "bool"
      [] op = "GET_GLOBAL" -> Named \in DOMAIN globals
      [] op = "SET_GLOBAL" -> Above >= 1 /\ Named \in DOMAIN globals
      [] op = "CALL" -> Above > arg /\ Callable(Peek(arg), arg) /\ (MakesFrame(Peek(arg)) => Room)
      [] op = "TAIL_CALL" ->
           Above > arg /\ Callable(Peek(arg), arg) /\ (Peek(arg).v = "class" /\ MakesFrame(Peek(arg)) => Room)
      [] op = "GET_PROPERTY" -> Above >= 1 /\ Peek(0).v \in {"object", "class"}
                                /\ Named \in DOMAIN Fields(Peek(0)) \union DOMAIN Methods(Peek(0))
      [] op = "SET_PROPERTY" -> Above >= 2 /\ Peek(1).v \in {"object", "class"}
      [] op = "METHOD" -> Above >= 2 /\ Peek(0).v = "closure" /\ Peek(1).v = "class"
      [] op = "INHERIT" -> Above >= 2 /\ Peek(0).v = "class" /\ Peek(1).v = "class"
      [] op = "SUPER_INVOKE" ->
           /\ Above > arg.args /\ Peek(0).v = "class"
           /\ Code.constants[arg.name].s \in DOMAIN classes[Peek(0).id].methods
           /\ FunctionOf(classes[Peek(0).id].methods[Code.constants[arg.name].s]).arity = arg.args
           /\ Room

There == Frame.ip \in DOMAIN Code.code
Runs(op) == phase = "run" /\ There /\ Instr.op = op /\ Ready
Continue(ip) == frames' = Append(Front(frames), [Frame EXCEPT !.ip = ip])
Next1 == Continue(Frame.ip + 1)
OnlyStack == UNCHANGED <<phase, source, handlers, upvalues, made, globals, printed>>

-----------------------------------------------------------------------------
(* Captured variables.                                                     *)

\* What an upvalue that was left open finds above the top of the stack is not told.
Leftover == [v |-> "leftover"]
Slot(n) == IF n \in DOMAIN stack THEN stack[n] ELSE Leftover
OpenAt(ups, slot) == SelectInSeq(ups, LAMBDA u : u.slot = slot)
\* vm_close_upvalues: from a slot up.
ClosedFrom(ups, slot) ==
    [u \in DOMAIN ups |-> IF ups[u].slot >= slot THEN [slot |-> 0, value |-> Slot(ups[u].slot)] ELSE ups[u]]
UpvalueNow(u) == IF upvalues[u].slot = 0 THEN upvalues[u].value ELSE Slot(upvalues[u].slot)
\* vm_capture_upvalue: one upvalue for a slot.
Captures(ups, slot) == IF OpenAt(ups, slot) # 0 THEN ups ELSE Append(ups, [slot |-> slot, value |-> NilVal])

\* The upvalues a new closure gets, one after another, with all there are then.
Capturing(wanted) ==
    FoldLeft(LAMBDA a, w :
                 IF w.isLocal
                   THEN [ups |-> Captures(a.ups, Frame.base + w.index - 1),
                         got |-> Append(a.got, OpenAt(Captures(a.ups, Frame.base + w.index - 1),
                                                      Frame.base + w.index - 1))]
                   ELSE [a EXCEPT !.got = Append(@, closures[Frame.closure].upvalues[w.index])],
             [ups |-> upvalues, got |-> <<>>], wanted)

-----------------------------------------------------------------------------
(* Actions.                                                                *)

Init ==
    /\ phase = "source" /\ program \in Programs /\ repl \in BOOLEAN /\ functions = <<>>
    /\ stack = <<>> /\ frames = <<>> /\ handlers = <<>> /\ upvalues = <<>>
    /\ closures = <<>> /\ classes = <<>> /\ objects = <<>> /\ globals = <<>> /\ printed = <<>>

Compiled ==
    /\ phase = "source"
    /\ \E c \in {CompileScript(program, repl)} :
         /\ c.met \union Meaning(program).met \subseteq Exercised
         /\ phase' = IF c.overflow THEN "sunk" ELSE IF c.failed THEN "refused" ELSE "run"
         /\ functions' = c.functions
         /\ closures' = <<[function |-> Len(c.functions), upvalues |-> <<>>]>>
    /\ stack' = <<ClosureVal(1)>>
    /\ frames' = <<[closure |-> 1, ip |-> 1, base |-> 1]>>
    /\ UNCHANGED <<program, repl, handlers, upvalues, classes, objects, globals, printed>>

Operate(op) ==
    /\ Runs(op)
    /\ stack' = Append(Pops(Takes), Produces(Taken(Takes)))
    /\ Next1 /\ OnlyStack
Pop == Runs("POP") /\ stack' = Pops(1) /\ Next1 /\ OnlyStack
Dup == Runs("DUP") /\ stack' = Append(stack, Peek(0)) /\ Next1 /\ OnlyStack
GetLocal ==
    Runs("GET_LOCAL") /\ stack' = Append(stack, stack[Frame.base + Instr.arg - 1]) /\ Next1 /\ OnlyStack
SetLocal ==
    /\ Runs("SET_LOCAL")
    /\ stack' = [stack EXCEPT ![Frame.base + Instr.arg - 1] = Peek(0)]
    /\ Next1 /\ OnlyStack

GetUpvalue ==
    /\ Runs("GET_UPVALUE")
    /\ stack' = Append(stack, UpvalueNow(closures[Frame.closure].upvalues[Instr.arg]))
    /\ Next1 /\ OnlyStack
SetUpvalue ==
    /\ Runs("SET_UPVALUE")
    /\ \E u \in {closures[Frame.closure].upvalues[Instr.arg]} :
         IF upvalues[u].slot = 0
           THEN upvalues' = [upvalues EXCEPT ![u].value = Peek(0)] /\ UNCHANGED stack
           ELSE stack' = [n \in DOMAIN stack |-> IF n = upvalues[u].slot THEN Peek(0) ELSE stack[n]] /\ UNCHANGED upvalues
    /\ Next1
    /\ UNCHANGED <<phase, source, handlers, made, globals, printed>>
CloseUpvalue ==
    /\ Runs("CLOSE_UPVALUE")
    /\ upvalues' = ClosedFrom(upvalues, Len(stack))
    /\ stack' = Pops(1)
    /\ Next1
    /\ UNCHANGED <<phase, source, handlers, made, globals, printed>>
MakeClosure ==
    /\ Runs("CLOSURE")
    /\ \E f \in {Code.constants[Instr.arg].id} : \E c \in {Capturing(functions[f].upvalues)} :
         /\ closures' = Append(closures, [function |-> f, upvalues |-> c.got])
         /\ upvalues' = c.ups
    /\ stack' = Append(stack, ClosureVal(Len(closures) + 1))
    /\ Next1
    /\ UNCHANGED <<phase, source, handlers, classes, objects, globals, printed>>

DefineGlobal ==
    /\ Runs("DEFINE_GLOBAL")
    /\ globals' = (Named :> Peek(0)) @@ globals
    /\ stack' = Pops(1)
    /\ Next1
    /\ UNCHANGED <<phase, source, handlers, upvalues, made, printed>>
GetGlobal == Runs("GET_GLOBAL") /\ stack' = Append(stack, globals[Named]) /\ Next1 /\ OnlyStack
SetGlobal ==
    /\ Runs("SET_GLOBAL")
    /\ globals' = [globals EXCEPT ![Named] = Peek(0)]
    /\ Next1
    /\ UNCHANGED <<phase, source, stack, handlers, upvalues, made, printed>>
PrintValue ==
    /\ Runs("PRINT")
    /\ printed' = Append(printed, Peek(0))
    /\ stack' = Pops(1)
    /\ Next1
    /\ UNCHANGED <<phase, source, handlers, upvalues, made, globals>>

OnlyIp == UNCHANGED <<stack>> /\ OnlyStack
JumpAlways == Runs("JUMP") /\ Continue(Frame.ip + 1 + Instr.arg) /\ OnlyIp
JumpIfFalse ==
    Runs("JUMP_IF_FALSE") /\ Continue(Frame.ip + 1 + (IF Peek(0).b THEN 0 ELSE Instr.arg)) /\ OnlyIp
LoopBack == Runs("LOOP") /\ Continue(Frame.ip + 1 - Instr.arg) /\ OnlyIp

-----------------------------------------------------------------------------
(* Calls.                                                                  *)

Called(closure, base) ==
    frames' = Append(Append(Front(frames), [Frame EXCEPT !.ip = @ + 1]),
                     [closure |-> closure, ip |-> 1, base |-> base])
\* Slot 0 of a call: the callee, or what `this` is.
Receiving(args, value) == [stack EXCEPT ![Len(stack) - args] = value]
NewObject(class) == objects' = Append(objects, [class |-> class, fields |-> <<>>])
OnlyCall == UNCHANGED <<phase, source, handlers, upvalues, closures, classes, globals, printed>>

CallFunction ==
    /\ Runs("CALL") /\ Peek(Instr.arg).v \in {"closure", "bound"}
    /\ Called(Peek(Instr.arg).id, Len(stack) - Instr.arg)
    /\ stack' = IF Peek(Instr.arg).v = "bound" THEN Receiving(Instr.arg, Peek(Instr.arg).this) ELSE stack
    /\ UNCHANGED objects /\ OnlyCall
CallClass ==
    /\ Runs("CALL") /\ Peek(Instr.arg).v = "class"
    /\ NewObject(Peek(Instr.arg).id)
    /\ stack' = Receiving(Instr.arg, ObjectVal(Len(objects) + 1))
    /\ IF HasInitializer(Peek(Instr.arg).id)
         THEN Called(classes[Peek(Instr.arg).id].methods["init"], Len(stack) - Instr.arg)
         ELSE Next1
    /\ OnlyCall
SuperInvoke ==
    /\ Runs("SUPER_INVOKE")
    /\ Called(classes[Peek(0).id].methods[Code.constants[Instr.arg.name].s], Len(stack) - 1 - Instr.arg.args)
    /\ stack' = Pops(1)
    /\ UNCHANGED objects /\ OnlyCall

Return1(result) ==
    /\ upvalues' = ClosedFrom(upvalues, Frame.base)
    /\ frames' = Front(frames)
    /\ stack' = IF Len(frames) = 1 THEN <<>> ELSE Append(SubSeq(stack, 1, Frame.base - 1), result)
    /\ phase' = IF Len(frames) = 1 THEN "done" ELSE "run"
ReturnValue ==
    Runs("RETURN") /\ Return1(Peek(0)) /\ UNCHANGED <<source, handlers, made, globals, printed>>

\* The frame is used again: its variables are closed, then the call is moved over them.
TailCall ==
    /\ Runs("TAIL_CALL") /\ Peek(Instr.arg).v \in {"closure", "bound"}
    /\ upvalues' = ClosedFrom(upvalues, Frame.base)
    /\ stack' = SubSeq(stack, 1, Frame.base - 1)
                \o (IF Peek(Instr.arg).v = "bound" THEN <<Peek(Instr.arg).this>> ELSE <<Peek(Instr.arg)>>)
                \o Taken(Instr.arg)
    /\ frames' = Append(Front(frames), [Frame EXCEPT !.closure = Peek(Instr.arg).id, !.ip = 1])
    /\ UNCHANGED <<phase, source, handlers, made, globals, printed>>
\* A class is called and its instance returned; an initializer has only got its frame by
\* then, and it is that frame which is dropped.
TailCallClass ==
    /\ Runs("TAIL_CALL") /\ Peek(Instr.arg).v = "class"
    /\ NewObject(Peek(Instr.arg).id)
    /\ IF HasInitializer(Peek(Instr.arg).id)
         THEN /\ upvalues' = ClosedFrom(upvalues, Frame.base)
              /\ stack' = Append(SubSeq(stack, 1, Frame.base - 1),
                                 IF Instr.arg = 0 THEN ObjectVal(Len(objects) + 1) ELSE Peek(0))
              /\ Next1 /\ UNCHANGED phase
         ELSE Return1(ObjectVal(Len(objects) + 1))
    /\ UNCHANGED <<source, handlers, closures, classes, globals, printed>>

-----------------------------------------------------------------------------
(* Classes and instances.                                                  *)

MakeClass ==
    /\ Runs("CLASS")
    /\ classes' = Append(classes, [methods |-> <<>>, fields |-> <<>>])
    /\ stack' = Append(stack, ClassVal(Len(classes) + 1))
    /\ Next1
    /\ UNCHANGED <<phase, source, handlers, upvalues, closures, objects, globals, printed>>
AddMethod ==
    /\ Runs("METHOD")
    /\ classes' = [classes EXCEPT ![Peek(1).id].methods = (Named :> Peek(0).id) @@ @]
    /\ stack' = Pops(1)
    /\ Next1
    /\ UNCHANGED <<phase, source, handlers, upvalues, closures, objects, globals, printed>>
\* tableAddAll.
Inherit ==
    /\ Runs("INHERIT")
    /\ classes' = [classes EXCEPT ![Peek(0).id].methods = classes[Peek(1).id].methods @@ @]
    /\ Next1
    /\ UNCHANGED <<phase, source, stack, handlers, upvalues, closures, objects, globals, printed>>
GetProperty ==
    /\ Runs("GET_PROPERTY")
    /\ stack' = Append(Pops(1),
                       IF Named \in DOMAIN Fields(Peek(0)) THEN Fields(Peek(0))[Named]
                       ELSE BoundVal(Peek(0), Methods(Peek(0))[Named]))
    /\ Next1 /\ OnlyStack
SetProperty ==
    /\ Runs("SET_PROPERTY")
    /\ IF Peek(1).v = "object"
         THEN /\ objects' = [objects EXCEPT ![Peek(1).id].fields = (Named :> Peek(0)) @@ @]
              /\ UNCHANGED classes
         ELSE /\ classes' = [classes EXCEPT ![Peek(1).id].fields = (Named :> Peek(0)) @@ @]
              /\ UNCHANGED objects
    /\ stack' = Append(Pops(2), Peek(0))
    /\ Next1
    /\ UNCHANGED <<phase, source, handlers, upvalues, closures, globals, printed>>

-----------------------------------------------------------------------------
(* Exceptions.                                                             *)

Try1 ==
    /\ Runs("TRY")
    /\ handlers' = Append(handlers, [frame |-> Len(frames), function |-> closures[Frame.closure].function,
                                     ip |-> Instr.arg + 1, height |-> Len(stack)])
    /\ Next1
    /\ UNCHANGED <<phase, source, stack, upvalues, made, globals, printed>>
TryEnd ==
    /\ Runs("TRY_END")
    /\ handlers' = IF handlers = <<>> THEN handlers ELSE Front(handlers)
    /\ Next1
    /\ UNCHANGED <<phase, source, stack, upvalues, made, globals, printed>>
\* The frames above the handler's go, with their variables; those that are captured
\* stay open.
Unwound == SubSeq(frames, 1, Min({Last(handlers).frame, Len(frames)}))
OpenAbove(height) == \E u \in DOMAIN upvalues : upvalues[u].slot > height
ThrowCaught ==
    /\ Runs("THROW") /\ handlers # <<>>
    /\ phase' = IF \/ closures[Last(Unwound).closure].function # Last(handlers).function
                   \/ Last(handlers).height > Len(stack) THEN "fault"
                ELSE IF OpenAbove(Last(handlers).height) /\ "throw_over_captured" \notin Exercised
                  THEN "excluded" ELSE phase
    /\ frames' = [Unwound EXCEPT ![Len(Unwound)].ip = Last(handlers).ip]
    /\ stack' = Append(SubSeq(stack, 1, Min({Last(handlers).height, Len(stack)})), Peek(0))
    /\ handlers' = Front(handlers)
    /\ UNCHANGED <<source, upvalues, made, globals, printed>>
ThrowUncaught ==
    /\ Runs("THROW") /\ handlers = <<>>
    /\ phase' = "error"
    /\ UNCHANGED <<source, stack, frames, handlers, upvalues, made, globals, printed>>

Next ==
    \/ Compiled
    \/ \E op \in Operators : Operate(op)
    \/ Pop \/ Dup \/ GetLocal \/ SetLocal
    \/ GetUpvalue \/ SetUpvalue \/ CloseUpvalue \/ MakeClosure
    \/ DefineGlobal \/ GetGlobal \/ SetGlobal \/ PrintValue
    \/ JumpAlways \/ JumpIfFalse \/ LoopBack
    \/ CallFunction \/ CallClass \/ SuperInvoke \/ ReturnValue \/ TailCall \/ TailCallClass
    \/ MakeClass \/ AddMethod \/ Inherit \/ GetProperty \/ SetProperty
    \/ Try1 \/ TryEnd \/ ThrowCaught \/ ThrowUncaught
Spec == Init /\ [][Next]_vars

-----------------------------------------------------------------------------
(* Properties.                                                             *)

\* printValue: a float with no fraction is printed as an int is.
Shown(value) == IF Number(value) THEN [v |-> "number", n |-> value.n] ELSE value
Shows(values) == [k \in DOMAIN values |-> Shown(values[k])]

\* A program that is compiled never comes to an instruction that is not for what is on the
\* stack (a runtime error of the kind the checker is there to prevent, or a read of the
\* wrong kind of value); it prints what it means and ends in an exception just when it means
\* to: over returns and exceptions through finally bodies, closures over variables of blocks
\* and loops, arms, calls and the limits of a chunk.
Means ==
    /\ phase \notin {"sunk", "fault"}
    /\ phase = "run" => There /\ Ready
    /\ phase \in {"done", "error"} =>
         \A m \in {Meaning(program)} : phase = m.ends /\ Shows(printed) = Shows(m.printed)

\* Where a statement begins, on whatever path it is reached, the frame holds what the
\* compiler took it to hold: its locals, and a returned value over finally bodies.
SlotsAgree ==
    phase = "run" /\ Frame.ip \in DOMAIN Code.starts => Above + 1 = Code.starts[Frame.ip]
=============================================================================
