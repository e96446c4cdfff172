--------------------------------- MODULE Vm ---------------------------------
(***************************************************************************)
(* The stack machine of src/src/runtime (vm_execute.c, vm_call.c,          *)
(* vm_core.c): frames on one value stack, exception handlers, and open     *)
(* upvalues that point into the stack.  It is to implement Activations.    *)
(*                                                                         *)
(* What an instruction computes is left open; what is kept is which values *)
(* it moves between the stack, the upvalues and the globals, and what it   *)
(* does to frames, handlers and open upvalues.  A frame's ip is abstracted *)
(* to the function whose code it is in and the try blocks around it there, *)
(* each with the height of the frame at its OP_TRY: the compiler knows     *)
(* both, and emits no instruction that pops below that height.             *)
(***************************************************************************)
EXTENDS Integers, FiniteSets, SequencesExt, Functions

CONSTANTS
    Closures,     \* closures; each stands for its function too
    Arity,        \* function->arity
    Script, Initializer, Method,  \* the closures there are at the start
    Upvalues,     \* ObjUpvalue objects
    Data,         \* values that cannot be called
    Native,       \* a native function of one argument
    Plain, Built, \* classes without and with `init`
    Instance,     \* an instance of them
    Bound,        \* Method bound to Instance
    Nil,
    Programs,     \* the opcodes and the constants that programs use, and, as a
                  \* bound, the height of the stack (push does not check STACK_MAX)
    Exercised,    \* what the program does of HazardousUses
    FRAMES_MAX, EXCEPTION_HANDLERS_MAX,
    MaxCaptures,  \* bound: upvalues of a closure
    MaxArgs       \* bound: arguments of a call

\* What a program can do that makes the machine lose track of its state.
HazardousUses == {"return_in_try", "throw_over_captured", "error_over_captured",
                  "pop_captured", "tail_initializer"}

Opcodes == {"CONSTANT", "POP", "LOCAL", "UPVALUE", "GLOBAL", "CLOSURE", "CLOSE_UPVALUE",
            "CALL", "SUPER_INVOKE", "RETURN", "TAIL_CALL", "TRY", "THROW", "ERROR"}

VARIABLES
    stack, frames,
    handlers,      \* vm->exceptionHandlers
    upvalue,       \* location (0 when closed) and closed
    openUpvalues,  \* the list, ordered by location: a set says as much
    upvalues,      \* of each closure made so far
    global,
    program        \* the program that runs

vars == <<stack, frames, handlers, upvalue, openUpvalues, upvalues, global, program>>

Values == Data \cup Closures \cup {Native, Plain, Built, Instance, Bound}

\* A closure is no constant: OP_CLOSURE makes it.
ASSUME ProgramsAssumption ==
    Programs \subseteq
        [ops : SUBSET Opcodes, constants : SUBSET (Values \ Closures), height : Nat]
ASSUME ExercisedAssumption == Exercised \subseteq HazardousUses
ASSUME ClosuresAssumption ==
    /\ {Script, Initializer, Method} \subseteq Closures /\ Arity \in [Closures -> Nat]
    /\ Arity[Script] = 0
ASSUME ValuesAssumption ==
    /\ Cardinality({Native, Plain, Built, Instance, Bound}) = 5
    /\ {Native, Plain, Built, Instance, Bound} \cap (Data \cup Closures) = {}
    /\ Data \cap Closures = {} /\ Nil \notin Values
ASSUME BoundsAssumption ==
    /\ {MaxCaptures, MaxArgs} \subseteq Nat
    /\ {FRAMES_MAX, EXCEPTION_HANDLERS_MAX} \subseteq Nat \ {0}

Ip == [code : Closures, tries : Seq(Nat)]
Frame == [closure : Closures, ip : Ip, slots : Nat \ {0}]
Handler == [frameIndex : Nat \ {0}, catchIp : Ip, stackTop : Nat]

-----------------------------------------------------------------------------
(* The value stack.  frame->slots is the index of the frame's first slot.  *)

frame == Last(frames)
Running(op) == frames # <<>> /\ op \in program.ops
Peek(n) == stack[Len(stack) - n]
Drop(n) == SubSeq(stack, 1, Len(stack) - n)
Slots == frame.slots .. Len(stack)
Captured(i) == \E u \in openUpvalues : upvalue[u].location = i

\* What is in a slot: of what is left above the stack no more is known.
Content(i) == IF i \in DOMAIN stack THEN stack[i] ELSE Nil

\* The compiler captures locals only.  An upvalue that stays open on a slot that is gone
\* may have any value's slot later.
Strays == Exercised \cap {"throw_over_captured", "pop_captured"} # {}
Droppable(i) == Strays \/ ~Captured(i)

\* The first slot above what the code of the frame leaves alone: the callee, and
\* what was on the stack before the try blocks it is in.
Floor == frame.slots + (IF frame.ip.tries = <<>> THEN 1 ELSE Last(frame.ip.tries))

\* Temporaries.
Operands(n) ==
    /\ Len(stack) - n >= Floor - 1
    /\ \A i \in Len(stack) - n + 1 .. Len(stack) : Droppable(i)

-----------------------------------------------------------------------------
(* Upvalues.                                                               *)

Open(i) == [location |-> i, closed |-> Nil]
Closed(v) == [location |-> 0, closed |-> v]

\* Mutant: vm_close_upvalues stops at the slot it was given.
MutClosing(last) == {u \in openUpvalues : upvalue[u].location > last}

Closing(last) == {u \in openUpvalues : upvalue[u].location >= last}

\* vm_close_upvalues.
CloseUpvalues(last) ==
    /\ openUpvalues' = openUpvalues \ Closing(last)
    /\ upvalue' = [u \in Upvalues |->
                      IF u \in Closing(last) THEN Closed(Content(upvalue[u].location))
                      ELSE upvalue[u]]

Read(u) ==
    IF upvalue[u].location = 0 THEN upvalue[u].closed ELSE Content(upvalue[u].location)

\* vm_reset_stack.  The list of open upvalues is dropped as it is.
Reset ==
    /\ "error_over_captured" \in Exercised \/ openUpvalues = {}
    /\ stack' = <<>> /\ frames' = <<>> /\ handlers' = <<>> /\ openUpvalues' = {}
    /\ UNCHANGED upvalue

-----------------------------------------------------------------------------
(* Instructions of one frame.                                              *)

OnlyStack == UNCHANGED <<frames, handlers, upvalue, openUpvalues, upvalues, global, program>>
Push(s, v) == Len(s) < program.height /\ stack' = Append(s, v)

OpConstant ==
    /\ Running("CONSTANT")
    /\ \E v \in program.constants : Push(stack, v)
    /\ OnlyStack

\* OP_POP of a captured slot leaves its upvalue open.
OpPop ==
    /\ Running("POP") /\ Len(stack) >= Floor
    /\ Droppable(Len(stack))
    /\ stack' = Drop(1)
    /\ OnlyStack

OpGetLocal ==
    /\ Running("LOCAL")
    /\ \E i \in Slots : Push(stack, stack[i])
    /\ OnlyStack

OpSetLocal ==
    /\ Running("LOCAL") /\ Operands(1)
    /\ \E i \in Slots : stack' = [stack EXCEPT ![i] = Peek(0)]
    /\ OnlyStack

OpGetUpvalue ==
    /\ Running("UPVALUE")
    /\ \E u \in upvalues[frame.closure] : Push(stack, Read(u))
    /\ OnlyStack

OpSetUpvalue ==
    /\ Running("UPVALUE") /\ Operands(1)
    /\ \E u \in upvalues[frame.closure] :
          LET at == upvalue[u].location
          IN  /\ stack' = IF at \in DOMAIN stack THEN [stack EXCEPT ![at] = Peek(0)] ELSE stack
              /\ upvalue' = IF at = 0 THEN [upvalue EXCEPT ![u] = Closed(Peek(0))] ELSE upvalue
    /\ UNCHANGED <<frames, handlers, openUpvalues, upvalues, global, program>>

OpGetGlobal ==
    /\ Running("GLOBAL")
    /\ Push(stack, global)
    /\ OnlyStack

OpDefineGlobal ==
    /\ Running("GLOBAL") /\ Operands(1)
    /\ global' = Peek(0)
    /\ stack' = Drop(1)
    /\ UNCHANGED <<frames, handlers, upvalue, openUpvalues, upvalues, program>>

\* vm_capture_upvalue on each local slot of a new closure c: the upvalue that is open
\* on it, or a new one, create[i] on slot i.
Missing(locals) == {i \in locals : ~Captured(i)}
CaptureUpvalues(c, locals, outer, create) ==
    LET found == {u \in openUpvalues : upvalue[u].location \in locals}
        new == Range(create)
    IN  /\ openUpvalues' = openUpvalues \cup new
        /\ upvalue' = [u \in Upvalues |->
               IF u \in new THEN Open(CHOOSE i \in Missing(locals) : create[i] = u) ELSE upvalue[u]]
        /\ upvalues' = [d \in DOMAIN upvalues \cup {c} |->
               IF d = c THEN outer \cup found \cup new ELSE upvalues[d]]

\* OP_CLOSURE.
OpClosure ==
    /\ Running("CLOSURE")
    /\ \E c \in Closures \ DOMAIN upvalues,
          locals \in SUBSET (Slots \cup {Len(stack) + 1}), outer \in SUBSET upvalues[frame.closure] :
          /\ Push(stack, c)
          /\ Cardinality(locals) + Cardinality(outer) <= MaxCaptures
          /\ \E create \in Injection(Missing(locals), Upvalues \ UNION Range(upvalues)) :
                CaptureUpvalues(c, locals, outer, create)
    /\ UNCHANGED <<frames, handlers, global, program>>

OpCloseUpvalue ==
    /\ Running("CLOSE_UPVALUE") /\ Len(stack) >= Floor
    /\ CloseUpvalues(Len(stack))
    /\ stack' = Drop(1)
    /\ UNCHANGED <<frames, handlers, upvalues, global, program>>

-----------------------------------------------------------------------------
(* Calls.                                                                  *)

Ready(c) == [code |-> c, tries |-> <<>>]
Arguments(n, s) == SubSeq(s, Len(s) - n, Len(s))
Same == UNCHANGED <<handlers, upvalue, openUpvalues>>

\* Mutant: vm_call does not check FRAMES_MAX.
MutEnter(s, c, n) ==
    \/ /\ n = Arity[c]
       /\ stack' = s
       /\ frames' = Append(frames, [closure |-> c, ip |-> Ready(c), slots |-> Len(s) - n])
       /\ Same
    \/ n # Arity[c] /\ Reset

\* vm_call: arity, then FRAMES_MAX, then a new frame over the arguments.
Enter(s, c, n) ==
    \/ /\ n = Arity[c] /\ Len(frames) < FRAMES_MAX
       /\ stack' = s
       /\ frames' = Append(frames, [closure |-> c, ip |-> Ready(c), slots |-> Len(s) - n])
       /\ Same
    \/ (n # Arity[c] \/ Len(frames) = FRAMES_MAX) /\ Reset

\* What vm_call_value can call, and with what in slot 0: a closure with itself, a
\* method with its receiver, an initializer with the new instance.
Target(v) ==
    CASE v \in Closures -> {[code |-> v, self |-> v]}
      [] v = Bound -> {[code |-> Method, self |-> Instance]}
      [] v = Built -> {[code |-> Initializer, self |-> Instance]}
      [] OTHER -> {}

\* A native, or a class without initializer: the results it may leave in place of
\* the callee and its arguments.
Answers(v, n) ==
    CASE v = Native /\ n = 1 -> Data
      [] v = Plain /\ n = 0 -> {Instance}
      [] OTHER -> {}

\* vm_call_value with the callee in Peek(n).
OpCall ==
    /\ Running("CALL")
    /\ \E n \in 0 .. MaxArgs :
          /\ Operands(n + 1)
          /\ LET callee == Peek(n)
                 slot == Len(stack) - n
             IN  \/ \E t \in Target(callee) : Enter([stack EXCEPT ![slot] = t.self], t.code, n)
                 \/ /\ \E v \in Answers(callee, n) : stack' = Append(Drop(n + 1), v)
                    /\ Same /\ UNCHANGED frames
                 \/ Target(callee) = {} /\ Answers(callee, n) = {} /\ Reset
    /\ UNCHANGED <<upvalues, global, program>>

\* The superclass is popped; the receiver is below the arguments.
OpSuperInvoke ==
    /\ Running("SUPER_INVOKE")
    /\ \E n \in 0 .. MaxArgs :
          /\ Operands(n + 2) /\ Peek(0) \in {Plain, Built} /\ Peek(n + 1) = Instance
          /\ Enter(Drop(1), Method, n)
    /\ UNCHANGED <<upvalues, global, program>>

\* The tail of OP_RETURN.  The last frame takes one more value with it, and leaves
\* its locals on the stack.
Leave(result) ==
    /\ CloseUpvalues(frame.slots)
    /\ frames' = Front(frames)
    /\ stack' = IF Len(frames) = 1 THEN Drop(2)
                ELSE Append(SubSeq(stack, 1, frame.slots - 1), result)
    /\ UNCHANGED handlers

\* The compiler emits no OP_TRY_END for the try blocks a return statement is in.  A
\* script has no return statements: its code ends with the instruction.
CanReturn ==
    \/ frame.ip.tries = <<>>
    \/ "return_in_try" \in Exercised /\ frame.ip.code # Script

\* The compiler makes an initializer return slot 0.
OpReturn ==
    /\ Running("RETURN") /\ Operands(1) /\ CanReturn
    /\ frame.ip.code = Initializer => Peek(0) = stack[frame.slots]
    /\ Leave(Peek(0))
    /\ UNCHANGED <<upvalues, global, program>>

\* Mutant: the frame is reused before its upvalues are closed.
MutReuse(c, self, n) ==
    \/ /\ n = Arity[c]
       /\ stack' = SubSeq(stack, 1, frame.slots - 1)
                      \o Arguments(n, [stack EXCEPT ![Len(stack) - n] = self])
       /\ frames' = [frames EXCEPT ![Len(frames)] =
                        [closure |-> c, ip |-> Ready(c), slots |-> @.slots]]
       /\ Same
    \/ n # Arity[c] /\ Reset

\* OP_TAIL_CALL on a closure or a bound method: arity, then the callee and its
\* arguments move down over the frame, which changes hands.
Reuse(c, self, n) ==
    \/ /\ n = Arity[c]
       /\ CloseUpvalues(frame.slots)
       /\ stack' = SubSeq(stack, 1, frame.slots - 1)
                      \o Arguments(n, [stack EXCEPT ![Len(stack) - n] = self])
       /\ frames' = [frames EXCEPT ![Len(frames)] =
                        [closure |-> c, ip |-> Ready(c), slots |-> @.slots]]
       /\ UNCHANGED handlers
    \/ n # Arity[c] /\ Reset

\* OP_TAIL_CALL on a class with an initializer: vm_call pushes a frame, and the code
\* that returns the result of a finished call pops it again, and takes the last
\* argument for the result.
LoseInitializer(n) ==
    \/ /\ n = Arity[Initializer] /\ Len(frames) < FRAMES_MAX
       /\ CloseUpvalues(frame.slots)
       /\ stack' = Append(SubSeq(stack, 1, frame.slots - 1),
                          IF n = 0 THEN Instance ELSE Peek(0))
       /\ UNCHANGED <<frames, handlers>>
    \/ (n # Arity[Initializer] \/ Len(frames) = FRAMES_MAX) /\ Reset

OpTailCall ==
    /\ Running("TAIL_CALL")
    /\ CanReturn /\ frame.ip.code \notin {Script, Initializer}
    /\ \E n \in 0 .. MaxArgs :
          /\ Operands(n + 1)
          /\ LET callee == Peek(n)
             IN  \/ /\ callee # Built
                    /\ \E t \in Target(callee) : Reuse(t.code, t.self, n)
                 \/ /\ callee = Built /\ "tail_initializer" \in Exercised
                    /\ LoseInitializer(n)
                 \/ \E v \in Answers(callee, n) : Leave(v)
                 \/ Target(callee) = {} /\ Answers(callee, n) = {} /\ Reset
    /\ UNCHANGED <<upvalues, global, program>>

-----------------------------------------------------------------------------
(* Exceptions.                                                             *)

OpTry ==
    /\ Running("TRY")
    /\ LET height == Len(stack) - frame.slots + 1
       IN  \/ /\ Len(handlers) < EXCEPTION_HANDLERS_MAX
              /\ handlers' = Append(handlers, [frameIndex |-> Len(frames),
                                               catchIp |-> frame.ip,
                                               stackTop |-> Len(stack)])
              /\ frames' = [frames EXCEPT ![Len(frames)].ip.tries = Append(@, height)]
              /\ UNCHANGED <<stack, upvalue, openUpvalues>>
           \/ Len(handlers) = EXCEPTION_HANDLERS_MAX /\ Reset
    /\ UNCHANGED <<upvalues, global, program>>

\* Mutant: the handler stays.
MutTryEnd == UNCHANGED handlers

TryEnd == handlers' = IF handlers = <<>> THEN handlers ELSE Front(handlers)

\* The body of the try block was a block of its own, so its locals are gone.
OpTryEnd ==
    /\ Running("TRY") /\ frame.ip.tries # <<>>
    /\ Len(stack) = frame.slots + Last(frame.ip.tries) - 1
    /\ TryEnd
    /\ frames' = [frames EXCEPT ![Len(frames)].ip.tries = Front(@)]
    /\ UNCHANGED <<stack, upvalue, openUpvalues, upvalues, global, program>>

\* The stack cut, or raised over whatever is there, to a handler's height.
Restored(top) == [i \in 1 .. top |-> Content(i)]

\* Mutant: frames above the handler's stay.
MutUnwound(h) == frames

\* Frames above the handler's are popped; the top one goes to the handler's code.
Unwound(h) == SubSeq(frames, 1, IF h.frameIndex < Len(frames) THEN h.frameIndex ELSE Len(frames))

OpThrow ==
    /\ Running("THROW") /\ Operands(1)
    /\ \/ /\ handlers # <<>>
          /\ LET h == Last(handlers)
                 left == Unwound(h)
             IN  /\ "throw_over_captured" \in Exercised \/ Closing(h.stackTop + 1) = {}
                 /\ stack' = Append(Restored(h.stackTop), Peek(0))
                 /\ frames' = [left EXCEPT ![Len(left)].ip = h.catchIp]
          /\ handlers' = Front(handlers)
          /\ UNCHANGED <<upvalue, openUpvalues>>
       \/ handlers = <<>> /\ Reset
    /\ UNCHANGED <<upvalues, global, program>>

\* vm_runtime_error, from any instruction.
RuntimeError ==
    /\ Running("ERROR")
    /\ Reset
    /\ UNCHANGED <<upvalues, global, program>>

\* interpretInternal: the script's closure replaces the function on the stack and is
\* called.  Only vm_reset_stack clears handlers and upvalues.
Interpret ==
    /\ frames = <<>>
    /\ Push(stack, Script)
    /\ frames' = <<[closure |-> Script, ip |-> Ready(Script), slots |-> Len(stack) + 1]>>
    /\ UNCHANGED <<handlers, upvalue, openUpvalues, upvalues, global, program>>

-----------------------------------------------------------------------------
\* initVM, with the classes and natives the scripts use in place.
Init ==
    /\ stack = <<>> /\ frames = <<>> /\ handlers = <<>>
    /\ upvalue = [u \in Upvalues |-> Closed(Nil)] /\ openUpvalues = {}
    /\ upvalues = [c \in {Script, Initializer, Method} |-> {}]
    /\ global \in Data
    /\ program \in Programs

Next ==
    \/ OpConstant \/ OpPop \/ OpGetLocal \/ OpSetLocal \/ OpGetUpvalue \/ OpSetUpvalue
    \/ OpGetGlobal \/ OpDefineGlobal \/ OpClosure \/ OpCloseUpvalue
    \/ OpCall \/ OpSuperInvoke \/ OpReturn \/ OpTailCall
    \/ OpTry \/ OpTryEnd \/ OpThrow \/ RuntimeError \/ Interpret

Spec == Init /\ [][Next]_vars

-----------------------------------------------------------------------------
(* Properties.                                                             *)

\* Types, and the two limits vm_call and OP_TRY check.
TypeOK ==
    /\ stack \in Seq(Values) /\ frames \in Seq(Frame) /\ handlers \in Seq(Handler)
    /\ upvalue \in [Upvalues -> [location : Nat, closed : Values \cup {Nil}]]
    /\ openUpvalues \subseteq Upvalues
    /\ DOMAIN upvalues \subseteq Closures
    /\ \A c \in DOMAIN upvalues : upvalues[c] \subseteq Upvalues
    /\ global \in Values /\ program \in Programs
    /\ Len(frames) <= FRAMES_MAX /\ Len(handlers) <= EXCEPTION_HANDLERS_MAX

\* Frames lie one above the other on the stack, each with its callee in its first
\* slot: no call, return, tail call or unwinding leaves a frame over another's
\* slots.
FramesNest ==
    /\ \A i \in DOMAIN frames : frames[i].slots <= Len(stack)
    /\ \A i, j \in DOMAIN frames : i < j => frames[i].slots < frames[j].slots

\* vm.h: ip is an "instruction pointer within this function".  Handlers outlive
\* steps of several functions; the code a frame runs must still be its own.
OwnCode == \A i \in DOMAIN frames : frames[i].ip.code = frames[i].closure

\* The handlers are those of the try blocks the frames are in, frame after frame and
\* outermost first, each with the height its frame had there: a throw goes to the
\* innermost.  Those of frame i are handlers[first[i]] and the ones after it.
Lists(first) ==
    /\ first[1] = 1 /\ first[Len(frames) + 1] = Len(handlers) + 1
    /\ \A i \in DOMAIN frames :
          LET tries == frames[i].ip.tries
          IN  /\ first[i + 1] = first[i] + Len(tries)
              /\ \A k \in DOMAIN tries :
                    /\ handlers[first[i] + k - 1].frameIndex = i
                    /\ handlers[first[i] + k - 1].stackTop = frames[i].slots + tries[k] - 1
HandlersMatch ==
    \E first \in [1 .. Len(frames) + 1 -> 1 .. Len(handlers) + 1] : Lists(first)

\* An upvalue that points into the stack is on the list of open ones and points at
\* a slot of a frame, and no two point at the same one.
UpvaluesOpen ==
    /\ \A u \in Upvalues : upvalue[u].location # 0 =>
          /\ u \in openUpvalues
          /\ frames # <<>> /\ upvalue[u].location \in frames[1].slots .. Len(stack)
    /\ \A u, w \in openUpvalues : upvalue[u].location = upvalue[w].location => u = w

-----------------------------------------------------------------------------
(* The refinement.  An activation is a frame with the slots up to the next *)
(* frame's.                                                                *)

EndOf(i) == IF i < Len(frames) THEN frames[i + 1].slots - 1 ELSE Len(stack)
FrameOf(loc) == {i \in DOMAIN frames : frames[i].slots <= loc /\ loc <= EndOf(i)}

actsBar == [i \in DOMAIN frames |->
               [code |-> frames[i].ip.code,
                vars |-> SubSeq(stack, frames[i].slots, EndOf(i)),
                tries |-> frames[i].ip.tries]]
cellBar == [u \in Upvalues |->
               LET loc == upvalue[u].location
               IN  IF loc = 0 THEN [act |-> 0, var |-> 0, val |-> upvalue[u].closed]
                   ELSE IF FrameOf(loc) = {} THEN [act |-> 0, var |-> loc, val |-> Nil]
                   ELSE LET i == CHOOSE j \in FrameOf(loc) : TRUE
                        IN  [act |-> i, var |-> loc - frames[i].slots + 1, val |-> Nil]]

Language == INSTANCE Activations WITH
    Cells <- Upvalues, MaxDepth <- FRAMES_MAX, MaxTries <- EXCEPTION_HANDLERS_MAX,
    acts <- actsBar, cell <- cellBar, env <- upvalues

\* Refinement: every opcode does what the language promises about calls, captured
\* variables and exceptions, however frames, slots and upvalues are shared and reused.
Implements == Language!Spec
=============================================================================
