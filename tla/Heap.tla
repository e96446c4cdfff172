-------------------------------- MODULE Heap --------------------------------
(***************************************************************************)
(* The managed heap of the Blaze runtime: allocation, string interning and *)
(* the mark-sweep collector of src/src/runtime/object.c, driven by the     *)
(* opcodes, natives and compiler steps that allocate or that move          *)
(* references between the roots and the heap.                              *)
(*                                                                         *)
(* An allocation is the only point where a collection can start: a handler *)
(* reads its operands into C locals, calls allocateObject, which may       *)
(* collect, and goes on with the operands it read.  C locals are not       *)
(* roots, so the question at every allocation site is whether the          *)
(* operands the handler still holds survive.                               *)
(*                                                                         *)
(* References are abstracted to the set of objects an object points to;    *)
(* slots that hold no object are the value Nil.                            *)
(***************************************************************************)
EXTENDS Integers, FiniteSets, SequencesExt

CONSTANTS
    Obj,          \* addresses malloc can return
    Nil,          \* a slot that holds no object
    Text,         \* contents of strings
    NoText,       \* the text of what is not a string
    InitText,     \* the text "init", looked up by every instantiation
    Malloc(_),    \* the addresses malloc may return, given the free ones
    Images,       \* the heaps, roots and opcodes execution starts from
    Exercised,    \* unrooted uses the program makes: see UnrootedUses
    StressGC,     \* DEBUG_STRESS_GC: collect at every allocation
    FirstGC,      \* initial threshold, in objects
    MaxBytes,     \* bound: objects allocated in a behaviour
    MaxStack,     \* bound: value stack slots
    MaxFrames,    \* bound: call frames, and functions being compiled
    MaxUpvalues,  \* bound: upvalues of a closure
    MaxConstants  \* bound: constants of a function

\* What a program can do that leaves a C local or an AST node as the only
\* holder of an object while another allocation runs.
UnrootedUses == {"temp_operands", "dead_intern", "literals", "split"}

Kinds == {"free", "str", "arr", "nat", "fn", "clo", "upv", "cls", "ins", "bnd"}
Opcodes == {"CONSTANT", "NIL", "LOCAL", "GLOBAL", "UPVALUE", "POP", "SET_LOCAL",
            "SET_UPVALUE", "PROPERTY", "METHOD", "INHERIT", "SUPER", "ARRAY", "ARRAY_CONCAT", "CONCAT",
            "CLOSURE", "CLOSE_UPVALUE", "CALL", "TAIL_CALL", "RETURN", "CLASS",
            "SPLIT", "ERROR", "COMPILE"}

VARIABLES
    live,          \* the `objects` list
    kind, ref, text,  \* type, outgoing references and chars of an object
    loc,           \* an open upvalue's stack slot, 0 once closed
    strings,       \* keys of vm->strings, the intern table: not roots
    stack, frames, openUpvalues, globals,   \* the roots held by the VM
    compiling,     \* the chain of functions behind `current`: roots too
    ast,           \* string literals held by AST nodes: not roots
    ops,           \* the opcodes of the program that runs
    phase,         \* where the runtime stands: see Phases
    req,           \* the C locals of the handler that is allocating
    mark, gray,    \* isMarked, and the gray stack
    bytesAllocated, nextGC

heap == <<live, kind, ref, text, loc, strings>>
roots == <<stack, frames, openUpvalues, globals, compiling>>
gc == <<mark, gray>>
vars == <<heap, roots, ast, ops, phase, req, gc, bytesAllocated, nextGC>>

\* run: between allocations; mark, trace: inside collectGarbage; alloc: the
\* collection, if any, is over; deliver: the new object is in a C local;
\* loop: the handler is between two of its allocations.
Phases == {"run", "mark", "trace", "alloc", "deliver", "loop"}
GCPhases == {"mark", "trace"}

\* The handlers that allocate, or that run a loop of allocations.
Handlers == {"none", "ARRAY", "ARRAY_CONCAT", "CONCAT", "CLASS", "BIND", "INSTANCE",
             "INIT", "NATIVE", "SPLIT", "SPLIT_LOOP", "PIECE", "CLOSURE",
             "CAPTURE_LOOP", "UPVALUE", "LITERAL", "FUNCTION", "NAME", "SCRIPT"}
Requests == [op : Handlers, kind : Kinds, text : Text \cup {NoText},
             held : SUBSET Obj, slot : Nat, result : Obj \cup {Nil}]
NoRequest == [op |-> "none", kind |-> "free", text |-> NoText,
              held |-> {}, slot |-> 0, result |-> Nil]

ImageType ==
    [live : SUBSET Obj, kind : [Obj -> Kinds], ref : [Obj -> SUBSET Obj],
     text : [Obj -> Text \cup {NoText}], globals : SUBSET Obj,
     stack : Seq(Obj \cup {Nil}), frames : Seq([closure : Obj, slots : Nat \ {0}]),
     ops : SUBSET Opcodes, bytes : Nat]

\* What an image must be: every reference is to an allocated object, and two
\* allocated strings differ in text (they went through copyString).
GoodImage(im) ==
    /\ im \in ImageType
    /\ ToSet(im.stack) \subseteq im.live \cup {Nil}
    /\ \A i \in DOMAIN im.frames : im.frames[i].closure \in im.live
    /\ im.globals \subseteq im.live
    /\ \A o \in im.live : im.ref[o] \subseteq im.live
    /\ \A o, p \in im.live :
          im.kind[o] = "str" /\ im.kind[p] = "str" /\ im.text[o] = im.text[p] => o = p

ASSUME ValuesAssumption == Nil \notin Obj /\ NoText \notin Text /\ InitText \in Text
ASSUME FiniteAssumption == IsFiniteSet(Obj)
ASSUME MallocAssumption == \A F \in SUBSET Obj : Malloc(F) \subseteq F
ASSUME ImagesAssumption == \A im \in Images : GoodImage(im)
ASSUME ExercisedAssumption == Exercised \subseteq UnrootedUses
ASSUME BoundsAssumption ==
    /\ StressGC \in BOOLEAN
    /\ {FirstGC, MaxBytes, MaxStack, MaxFrames, MaxUpvalues, MaxConstants} \subseteq Nat

-----------------------------------------------------------------------------
(* Roots and reachability.                                                 *)

FrameClosures == {frames[i].closure : i \in DOMAIN frames}

\* Mutant: markValue does not ask whether the value is an object.
MutMarkNil ==
    ToSet(stack) \cup FrameClosures \cup openUpvalues \cup globals \cup ToSet(compiling)

\* Mutant: markRoots forgets vm->openUpvalues.
MutNoOpenRoots ==
    (ToSet(stack) \ {Nil}) \cup FrameClosures \cup globals \cup ToSet(compiling)

\* The objects markRoots marks.  vm->strings and the AST are not among them.
MarkedRoots ==
    (ToSet(stack) \ {Nil}) \cup FrameClosures \cup openUpvalues \cup globals
        \cup ToSet(compiling)

\* The objects the program can still get at, whatever the collector marks.
Roots ==
    (ToSet(stack) \ {Nil}) \cup FrameClosures \cup openUpvalues \cup globals
        \cup ToSet(compiling)

\* Reachable objects: those in every set of allocated objects that holds the
\* roots and that no reference leaves.
ReachFrom(known, links, objects) ==
    LET closed == {S \in {known \cup X : X \in SUBSET (objects \ known)} :
                      \A o \in S : links[o] \subseteq S}
    IN  {o \in Obj : \A S \in closed : o \in S}

Reach == ReachFrom(Roots, ref, live)

-----------------------------------------------------------------------------
(* Allocation.  Allocate is the head of allocateObject: it counts the      *)
(* bytes and decides whether to collect.  NewObject is its tail together   *)
(* with the constructor that called it.                                    *)

Collects == StressGC \/ bytesAllocated + 1 > nextGC

Allocate(op, k, t, held, slot) ==
    /\ bytesAllocated < MaxBytes
    /\ bytesAllocated' = bytesAllocated + 1
    /\ req' = [op |-> op, kind |-> k, text |-> t, held |-> held, slot |-> slot,
               result |-> Nil]
    /\ phase' = IF Collects THEN "mark" ELSE "alloc"
    /\ UNCHANGED <<heap, ops, gc, nextGC>>

\* Mutant: takeString and copyString allocate without looking the text up.
MutInterned(t) == {}

\* copyString and takeString: an interned string is returned as it is found,
\* even if it was swept: no sweep removes keys from vm->strings.
Interned(t) == {s \in strings : text[s] = t}

CopyString(op, t, held, slot) ==
    \/ \E s \in Interned(t) :
          /\ s \in live \/ "dead_intern" \in Exercised
          /\ req' = [op |-> op, kind |-> "str", text |-> t, held |-> held,
                     slot |-> slot, result |-> s]
          /\ phase' = "deliver"
          /\ UNCHANGED <<heap, ops, gc, bytesAllocated, nextGC>>
    \/ Interned(t) = {} /\ Allocate(op, "str", t, held, slot)

\* The references a constructor stores: those of its arguments.
Linked(k) == k \in {"clo", "cls", "ins", "bnd"}

NewObject ==
    /\ phase = "alloc"
    /\ \E o \in Malloc(Obj \ live) :
          /\ live' = live \cup {o}
          /\ kind' = [kind EXCEPT ![o] = req.kind]
          /\ ref' = [ref EXCEPT ![o] = IF Linked(req.kind) THEN req.held ELSE {}]
          /\ text' = [text EXCEPT ![o] = req.text]
          /\ loc' = [loc EXCEPT ![o] = 0]
          /\ strings' = IF req.kind = "str" THEN strings \cup {o} ELSE strings
          /\ req' = [req EXCEPT !.result = o]
    /\ phase' = "deliver"
    /\ UNCHANGED <<roots, ast, ops, gc, bytesAllocated, nextGC>>

-----------------------------------------------------------------------------
(* collectGarbage: markRoots, traceReferences one object of the gray stack *)
(* at a time (in any order: the order of the stack does not matter to what *)
(* is marked), sweep.                                                      *)

MarkRoots ==
    /\ phase = "mark"
    /\ mark' = MarkedRoots
    /\ gray' = MarkedRoots
    /\ phase' = "trace"
    /\ UNCHANGED <<heap, roots, ast, ops, req, bytesAllocated, nextGC>>

\* Mutant: blackenObject marks the function of a closure, not its upvalues.
MutTraced(o) == {p \in ref[o] : kind[p] # "upv"}

\* The references blackenObject marks.
Traced(o) == ref[o]

\* Mutant: markObject does not return early on an object that is marked.
MutRemark ==
    /\ phase = "trace"
    /\ \E o \in gray :
          /\ mark' = mark \cup Traced(o)
          /\ gray' = (gray \ {o}) \cup Traced(o)
    /\ UNCHANGED <<heap, roots, ast, ops, phase, req, bytesAllocated, nextGC>>

\* Mutant: markObject sets isMarked and does not push on the gray stack.
MutNoGray ==
    /\ phase = "trace"
    /\ \E o \in gray :
          /\ mark' = mark \cup Traced(o)
          /\ gray' = gray \ {o}
    /\ UNCHANGED <<heap, roots, ast, ops, phase, req, bytesAllocated, nextGC>>

\* blackenObject, and markObject on each reference.
Blacken ==
    /\ phase = "trace"
    /\ \E o \in gray :
          /\ mark' = mark \cup Traced(o)
          /\ gray' = (gray \ {o}) \cup (Traced(o) \ mark)
    /\ UNCHANGED <<heap, roots, ast, ops, phase, req, bytesAllocated, nextGC>>

\* sweep frees what is not marked and unmarks the rest.  The intern table is
\* not told: it keeps the keys that were freed.
Sweep ==
    /\ phase = "trace" /\ gray = {}
    /\ live' = live \cap mark
    /\ kind' = [o \in Obj |-> IF o \in live \ mark THEN "free" ELSE kind[o]]
    /\ ref' = [o \in Obj |-> IF o \in live \ mark THEN {} ELSE ref[o]]
    /\ mark' = {}
    /\ nextGC' = bytesAllocated * 2
    /\ phase' = "alloc"
    /\ UNCHANGED <<text, loc, strings, roots, ast, ops, req, gray, bytesAllocated>>

-----------------------------------------------------------------------------
(* The value stack.                                                        *)

Idle == phase = "run" /\ frames = <<>> /\ compiling = <<>>
Running(op) == phase = "run" /\ frames # <<>> /\ op \in ops

\* Operands lie above the slot of the running function, and no upvalue is open
\* on them: the compiler captures locals, and pops a captured local with
\* OP_CLOSE_UPVALUE.
Operands(n) ==
    /\ Len(stack) - n >= Last(frames).slots
    /\ \A u \in openUpvalues : loc[u] <= Len(stack) - n
Peek(n) == stack[Len(stack) - n]
Drop(n) == SubSeq(stack, 1, Len(stack) - n)
Push(s, v) == Len(s) < MaxStack /\ stack' = Append(s, v)

Locals == Last(frames).slots .. Len(stack)
Functions(c) == {f \in ref[c] : kind[f] = "fn"}
Upvalues(c) == {u \in ref[c] : kind[u] = "upv"}
Constants == UNION {ref[f] : f \in Functions(Last(frames).closure)}
Names == {n \in Constants : kind[n] = "str"}
Methods(k) == {m \in ref[k] : kind[m] = "clo"}
\* The fields or elements of an object: not its class, methods or name.  The
\* keys of a table are references too, not told apart from its values.
Fields(o) ==
    CASE kind[o] = "arr" -> ref[o]
      [] kind[o] = "ins" -> {x \in ref[o] : kind[x] \notin {"cls", "clo"}}
      [] kind[o] = "cls" -> {x \in ref[o] : kind[x] \notin {"str", "clo"}}
      [] OTHER -> {}
Captured(slot) == \E u \in openUpvalues : loc[u] = slot

\* vm_close_upvalues: every open upvalue at or above a slot takes its value.
Closing(slot) == {u \in openUpvalues : loc[u] >= slot}
CloseUpvalues(slot) ==
    /\ openUpvalues' = openUpvalues \ Closing(slot)
    /\ loc' = [u \in Obj |-> IF u \in Closing(slot) THEN 0 ELSE loc[u]]
    /\ ref' = [u \in Obj |-> IF u \in Closing(slot) THEN {stack[loc[u]]} \ {Nil}
                             ELSE ref[u]]
    /\ UNCHANGED <<live, kind, text, strings>>

\* Steps that neither allocate nor collect.
NoAllocation == UNCHANGED <<phase, req, ops, gc, bytesAllocated, nextGC>>
OnlyStack == UNCHANGED <<heap, frames, openUpvalues, globals, compiling, ast>>

-----------------------------------------------------------------------------
(* Opcodes that move references without allocating.                        *)

\* OP_CONSTANT, with a string.
OpConstant ==
    /\ Running("CONSTANT")
    /\ \E c \in Names : Push(stack, c)
    /\ OnlyStack /\ NoAllocation

\* OP_NIL, and every opcode that pushes a value that is not an object.
OpNil ==
    /\ Running("NIL")
    /\ Push(stack, Nil)
    /\ OnlyStack /\ NoAllocation

OpGetLocal ==
    /\ Running("LOCAL")
    /\ \E i \in Locals : Push(stack, stack[i])
    /\ OnlyStack /\ NoAllocation

OpSetLocal ==
    /\ Running("SET_LOCAL") /\ Operands(1)
    /\ \E i \in Locals : stack' = [stack EXCEPT ![i] = Peek(0)]
    /\ OnlyStack /\ NoAllocation

OpPop ==
    /\ Running("POP") /\ Operands(1)
    /\ stack' = Drop(1)
    /\ OnlyStack /\ NoAllocation

OpGetGlobal ==
    /\ Running("GLOBAL")
    /\ \E g \in globals : Push(stack, g)
    /\ OnlyStack /\ NoAllocation

\* OP_DEFINE_GLOBAL and OP_SET_GLOBAL: a name and a value enter the table.
OpDefineGlobal ==
    /\ Running("GLOBAL") /\ Operands(1)
    /\ \E n \in Names : globals' = globals \cup {n} \cup ({Peek(0)} \ {Nil})
    /\ stack' = Drop(1)
    /\ UNCHANGED <<heap, frames, openUpvalues, compiling, ast>> /\ NoAllocation

\* OP_GET_UPVALUE: *location, a stack slot while the upvalue is open.  An upvalue
\* that vm_reset_stack or OP_THROW left open off the list still points into the
\* stack; its use is left out here, as what it reads is not its own any more.
OpGetUpvalue ==
    /\ Running("UPVALUE")
    /\ \E u \in Upvalues(Last(frames).closure) :
          \/ u \in openUpvalues /\ loc[u] \in DOMAIN stack /\ Push(stack, stack[loc[u]])
          \/ loc[u] = 0 /\ \E v \in ref[u] : Push(stack, v)
          \/ loc[u] = 0 /\ ref[u] = {} /\ Push(stack, Nil)
    /\ OnlyStack /\ NoAllocation

OpSetUpvalue ==
    /\ Running("SET_UPVALUE") /\ Operands(1)
    /\ \E u \in Upvalues(Last(frames).closure) :
          \/ /\ u \in openUpvalues /\ loc[u] \in DOMAIN stack
             /\ stack' = [stack EXCEPT ![loc[u]] = Peek(0)]
             /\ UNCHANGED ref
          \/ /\ loc[u] = 0
             /\ ref' = [ref EXCEPT ![u] = {Peek(0)} \ {Nil}]
             /\ UNCHANGED stack
    /\ UNCHANGED <<live, kind, text, loc, strings, frames, openUpvalues, globals,
                   compiling, ast>>
    /\ NoAllocation

\* OP_GET_PROPERTY on a field, OP_INDEX_GET: the holder is replaced by what it
\* holds.
OpGetField ==
    /\ Running("PROPERTY") /\ Operands(1) /\ Peek(0) # Nil
    /\ \E v \in Fields(Peek(0)) : stack' = Append(Drop(1), v)
    /\ OnlyStack /\ NoAllocation

\* OP_SET_PROPERTY and OP_INDEX_SET: what the field held is forgotten, and its
\* name enters the table.
OpSetField ==
    /\ Running("PROPERTY") /\ Operands(2) /\ Peek(1) # Nil
    /\ kind[Peek(1)] \in {"ins", "cls", "arr"}
    /\ \E old \in Fields(Peek(1)) \cup {Nil},
          name \in IF kind[Peek(1)] = "arr" THEN {Nil} ELSE Names :
          ref' = [ref EXCEPT ![Peek(1)] = (@ \ {old}) \cup ({name, Peek(0)} \ {Nil})]
    /\ stack' = Append(Drop(2), Peek(0))
    /\ UNCHANGED <<live, kind, text, loc, strings, frames, openUpvalues, globals,
                   compiling, ast>>
    /\ NoAllocation

OpMethod ==
    /\ Running("METHOD") /\ Operands(2) /\ Nil \notin {Peek(0), Peek(1)}
    /\ kind[Peek(0)] = "clo" /\ kind[Peek(1)] = "cls"
    /\ \E name \in Names : ref' = [ref EXCEPT ![Peek(1)] = @ \cup {name, Peek(0)}]
    /\ stack' = Drop(1)
    /\ UNCHANGED <<live, kind, text, loc, strings, frames, openUpvalues, globals,
                   compiling, ast>>
    /\ NoAllocation

\* OP_INHERIT: tableAddAll copies the methods, and their names, down.
OpInherit ==
    /\ Running("INHERIT") /\ Operands(2) /\ Nil \notin {Peek(0), Peek(1)}
    /\ kind[Peek(0)] = "cls" /\ kind[Peek(1)] = "cls"
    /\ LET names == {n \in ref[Peek(1)] : Methods(Peek(1)) # {} /\ kind[n] = "str"}
       IN  ref' = [ref EXCEPT ![Peek(0)] = @ \cup Methods(Peek(1)) \cup names]
    /\ UNCHANGED <<live, kind, text, loc, strings, roots, ast>>
    /\ NoAllocation

OpCloseUpvalue ==
    /\ Running("CLOSE_UPVALUE") /\ Len(stack) > Last(frames).slots
    /\ CloseUpvalues(Len(stack))
    /\ stack' = Drop(1)
    /\ UNCHANGED <<frames, globals, compiling, ast>> /\ NoAllocation

-----------------------------------------------------------------------------
(* Calls.  A call site with n arguments finds the callee in Peek(n).       *)

Enter(s, c, slot) ==
    /\ Len(frames) < MaxFrames
    /\ stack' = s
    /\ frames' = Append(frames, [closure |-> c, slots |-> slot])

\* vm_call on a closure, and vm_call_value on a bound method, whose receiver
\* takes the callee's slot.
OpCall ==
    /\ Running("CALL")
    /\ \E n \in 0..1 :
          /\ Operands(n + 1) /\ Peek(n) # Nil
          /\ LET slot == Len(stack) - n
             IN  \/ /\ kind[Peek(n)] = "clo"
                    /\ Enter(stack, Peek(n), slot)
                 \/ /\ kind[Peek(n)] = "bnd"
                    /\ \E m, r \in ref[Peek(n)] :
                          /\ kind[m] = "clo" /\ ref[Peek(n)] = {m, r}
                          /\ Enter([stack EXCEPT ![slot] = r], m, slot)
    /\ UNCHANGED <<heap, openUpvalues, globals, compiling, ast>> /\ NoAllocation

\* OP_RETURN.  The script's own return pops one more slot and leaves the rest.
OpReturn ==
    /\ Running("RETURN") /\ Operands(1)
    /\ CloseUpvalues(Last(frames).slots)
    /\ frames' = Front(frames)
    /\ stack' = IF Len(frames) = 1 THEN Drop(2)
                ELSE Append(SubSeq(stack, 1, Last(frames).slots - 1), Peek(0))
    /\ UNCHANGED <<globals, compiling, ast>> /\ NoAllocation

\* The callee and its arguments move down to the frame's first slot, and the
\* frame changes hands.
Reuse(s, c, slot) ==
    /\ stack' = SubSeq(s, 1, Last(frames).slots - 1) \o SubSeq(s, slot, Len(s))
    /\ frames' = [frames EXCEPT ![Len(frames)].closure = c]

\* OP_TAIL_CALL on a closure or a bound method.  On a native, or on a class
\* without initializer, it is the call below and then OpReturn; what it does to
\* the frame of an initializer is control, which Heap does not follow.
OpTailCall ==
    /\ Running("TAIL_CALL")
    /\ \E n \in 0..1 :
          /\ Operands(n + 1) /\ Peek(n) # Nil
          /\ LET slot == Len(stack) - n
             IN  \/ /\ kind[Peek(n)] = "clo"
                    /\ Reuse(stack, Peek(n), slot)
                 \/ /\ kind[Peek(n)] = "bnd"
                    /\ \E m, r \in ref[Peek(n)] :
                          /\ kind[m] = "clo" /\ ref[Peek(n)] = {m, r}
                          /\ Reuse([stack EXCEPT ![slot] = r], m, slot)
    /\ CloseUpvalues(Last(frames).slots)
    /\ UNCHANGED <<globals, compiling, ast>> /\ NoAllocation

\* vm_runtime_error: vm_reset_stack forgets the stack, the frames and the list
\* of open upvalues.
RuntimeError ==
    /\ Running("ERROR")
    /\ stack' = <<>> /\ frames' = <<>> /\ openUpvalues' = {}
    /\ UNCHANGED <<heap, globals, compiling, ast>> /\ NoAllocation

-----------------------------------------------------------------------------
(* Opcodes and natives that allocate.  Each has a step that reads the      *)
(* operands and asks for the object, and a step named Deliver... that runs *)
(* when the constructor has returned.                                      *)

Deliver(op) == phase = "deliver" /\ req.op = op
Done == phase' = "run" /\ req' = NoRequest /\ UNCHANGED <<ops, gc, bytesAllocated, nextGC>>
OnlyRoots == UNCHANGED <<openUpvalues, globals, compiling, ast>>

\* OP_ARRAY: the elements stay on the stack until the array exists.
OpArray ==
    /\ Running("ARRAY")
    /\ \E n \in 0..2 : Operands(n) /\ Allocate("ARRAY", "arr", NoText, {}, n)
    /\ UNCHANGED roots /\ UNCHANGED ast

DeliverArray ==
    /\ Deliver("ARRAY")
    /\ LET elements == SubSeq(stack, Len(stack) - req.slot + 1, Len(stack))
       IN  ref' = [ref EXCEPT ![req.result] = ToSet(elements) \ {Nil}]
    /\ Push(Drop(req.slot), req.result)
    /\ UNCHANGED <<live, kind, text, loc, strings, frames>> /\ OnlyRoots /\ Done

\* OP_ARRAY_CONCAT and OP_ARRAY_SLICE pop the arrays before they allocate the
\* result, and read the elements after.
OpArrayConcat ==
    /\ Running("ARRAY_CONCAT") /\ Operands(2) /\ Nil \notin {Peek(0), Peek(1)}
    /\ kind[Peek(0)] = "arr" /\ kind[Peek(1)] = "arr"
    /\ stack' = Drop(2)
    /\ UNCHANGED frames /\ OnlyRoots
    /\ Allocate("ARRAY_CONCAT", "arr", NoText, {Peek(0), Peek(1)}, 0)
    /\ "temp_operands" \in Exercised \/ {Peek(0), Peek(1)} \subseteq Reach'

DeliverArrayConcat ==
    /\ Deliver("ARRAY_CONCAT")
    /\ ref' = [ref EXCEPT ![req.result] = UNION {ref[a] : a \in req.held}]
    /\ Push(stack, req.result)
    /\ UNCHANGED <<live, kind, text, loc, strings, frames>> /\ OnlyRoots /\ Done

\* OP_CONCAT pops the strings too, but has copied their chars when it allocates.
OpConcat ==
    /\ Running("CONCAT") /\ Operands(2) /\ Nil \notin {Peek(0), Peek(1)}
    /\ kind[Peek(0)] = "str" /\ kind[Peek(1)] = "str"
    /\ stack' = Drop(2)
    /\ \E t \in Text : CopyString("CONCAT", t, {}, 0)
    /\ UNCHANGED frames /\ OnlyRoots

DeliverConcat ==
    /\ Deliver("CONCAT")
    /\ Push(stack, req.result)
    /\ UNCHANGED <<heap, frames>> /\ OnlyRoots /\ Done

\* OP_CLASS.
OpClass ==
    /\ Running("CLASS")
    /\ \E n \in Constants :
          kind[n] = "str" /\ Allocate("CLASS", "cls", NoText, {n}, 0)
    /\ UNCHANGED roots /\ UNCHANGED ast

DeliverClass ==
    /\ Deliver("CLASS")
    /\ Push(stack, req.result)
    /\ UNCHANGED <<heap, frames>> /\ OnlyRoots /\ Done

\* vm_bind_method, from OP_GET_PROPERTY: the receiver stays on the stack.
OpBindMethod ==
    /\ Running("PROPERTY") /\ Operands(1) /\ Peek(0) # Nil /\ kind[Peek(0)] = "ins"
    /\ \E k \in ref[Peek(0)] : \E m \in Methods(k) :
          kind[k] = "cls" /\ Allocate("BIND", "bnd", NoText, {Peek(0), m}, 0)
    /\ UNCHANGED roots /\ UNCHANGED ast

\* vm_bind_method, from OP_GET_SUPER, which has popped the superclass.
OpGetSuper ==
    /\ Running("SUPER") /\ Operands(2) /\ Nil \notin {Peek(0), Peek(1)}
    /\ kind[Peek(0)] = "cls"
    /\ stack' = Drop(1)
    /\ UNCHANGED frames /\ OnlyRoots
    /\ \E m \in Methods(Peek(0)) :
          /\ Allocate("BIND", "bnd", NoText, {Peek(1), m}, 0)
          /\ "temp_operands" \in Exercised \/ m \in Reach'

DeliverBindMethod ==
    /\ Deliver("BIND")
    /\ stack' = Append(Drop(1), req.result)
    /\ UNCHANGED <<heap, frames>> /\ OnlyRoots /\ Done

\* vm_call_value on a class: newInstance, then copyString("init") to look for
\* an initializer among the methods.
OpInstantiate ==
    /\ Running("CALL")
    /\ \E n \in 0..1 :
          /\ Operands(n + 1) /\ Peek(n) # Nil /\ kind[Peek(n)] = "cls"
          /\ Allocate("INSTANCE", "ins", NoText, {Peek(n)}, Len(stack) - n)
    /\ UNCHANGED roots /\ UNCHANGED ast

DeliverInstance ==
    /\ Deliver("INSTANCE")
    /\ stack' = [stack EXCEPT ![req.slot] = req.result]
    /\ CopyString("INIT", InitText, req.held, req.slot)
    /\ UNCHANGED frames /\ OnlyRoots

DeliverInit ==
    /\ Deliver("INIT")
    /\ \/ \E k \in req.held : \E m \in Methods(k) :
             Enter(stack, m, req.slot) /\ UNCHANGED openUpvalues
       \/ req.slot = Len(stack) /\ UNCHANGED <<stack, frames, openUpvalues>>
       \/ req.slot # Len(stack) /\ stack' = <<>> /\ frames' = <<>> /\ openUpvalues' = {}
    /\ UNCHANGED <<heap, globals, compiling, ast>> /\ Done

\* A native that returns a string: its arguments are on the stack meanwhile.
OpCallNative ==
    /\ Running("CALL")
    /\ \E n \in 0..1, t \in Text :
          /\ Operands(n + 1) /\ Peek(n) # Nil /\ kind[Peek(n)] = "nat"
          /\ CopyString("NATIVE", t, {}, Len(stack) - n)
    /\ UNCHANGED roots /\ UNCHANGED ast

DeliverNative ==
    /\ Deliver("NATIVE")
    /\ stack' = Append(SubSeq(stack, 1, req.slot - 1), req.result)
    /\ UNCHANGED <<heap, frames>> /\ OnlyRoots /\ Done

\* splitNative: the result array is a C local while the pieces are allocated.
OpSplit ==
    /\ Running("SPLIT") /\ Operands(2) /\ Nil \notin {Peek(0), Peek(1)}
    /\ kind[Peek(1)] = "nat" /\ kind[Peek(0)] = "str"
    /\ Allocate("SPLIT", "arr", NoText, {}, Len(stack) - 1)
    /\ UNCHANGED roots /\ UNCHANGED ast

\* The loop of splitNative: another piece, or the array is returned.
Loop(op, held) ==
    /\ phase' = "loop"
    /\ req' = [NoRequest EXCEPT !.op = op, !.held = held, !.slot = req.slot]
    /\ UNCHANGED <<ops, gc, bytesAllocated, nextGC>>
InLoop(op) == phase = "loop" /\ req.op = op

DeliverSplit ==
    /\ Deliver("SPLIT")
    /\ Loop("SPLIT_LOOP", {req.result})
    /\ UNCHANGED <<heap, roots, ast>>

SplitPiece ==
    /\ InLoop("SPLIT_LOOP")
    /\ \E t \in Text : CopyString("PIECE", t, req.held, req.slot)
    /\ "split" \in Exercised \/ phase' # "mark"
    /\ UNCHANGED roots /\ UNCHANGED ast

DeliverPiece ==
    /\ Deliver("PIECE")
    /\ ref' = [o \in Obj |-> IF o \in req.held THEN ref[o] \cup {req.result} ELSE ref[o]]
    /\ Loop("SPLIT_LOOP", req.held)
    /\ UNCHANGED <<live, kind, text, loc, strings, roots, ast>>

ReturnSplit ==
    /\ InLoop("SPLIT_LOOP")
    /\ \E array \in req.held :
          /\ ref[array] # {}
          /\ stack' = Append(SubSeq(stack, 1, req.slot - 1), array)
    /\ UNCHANGED <<heap, frames>> /\ OnlyRoots /\ Done

-----------------------------------------------------------------------------
(* OP_CLOSURE: the closure is pushed before its upvalues are captured.     *)

OpClosure ==
    /\ Running("CLOSURE")
    /\ \E f \in Constants :
          kind[f] = "fn" /\ Allocate("CLOSURE", "clo", NoText, {f}, 0)
    /\ UNCHANGED roots /\ UNCHANGED ast

DeliverClosure ==
    /\ Deliver("CLOSURE")
    /\ Push(stack, req.result)
    /\ Loop("CAPTURE_LOOP", {req.result})
    /\ UNCHANGED <<heap, frames>> /\ OnlyRoots

\* closure->upvalues[i] = upvalue.
Capture(u) ==
    /\ ref' = [o \in Obj |-> IF o \in req.held THEN ref[o] \cup {u} ELSE ref[o]]
    /\ UNCHANGED <<live, kind, text, strings, stack, frames, globals, compiling, ast>>
CanCapture ==
    /\ InLoop("CAPTURE_LOOP")
    /\ \A c \in req.held : Cardinality(Upvalues(c)) < MaxUpvalues

\* vm_capture_upvalue, when the slot already has an open upvalue.
CaptureShared ==
    /\ CanCapture
    /\ \E u \in openUpvalues : loc[u] \in Locals /\ Capture(u)
    /\ UNCHANGED <<loc, openUpvalues>> /\ NoAllocation

\* An upvalue of the enclosing closure.
CaptureOuter ==
    /\ CanCapture
    /\ \E u \in Upvalues(Last(frames).closure) : Capture(u)
    /\ UNCHANGED <<loc, openUpvalues>> /\ NoAllocation

\* vm_capture_upvalue, when it has to create the upvalue.
CaptureNew ==
    /\ CanCapture
    /\ \E i \in Locals :
          ~Captured(i) /\ Allocate("UPVALUE", "upv", NoText, req.held, i)
    /\ UNCHANGED roots /\ UNCHANGED ast

DeliverUpvalue ==
    /\ Deliver("UPVALUE")
    /\ Capture(req.result)
    /\ loc' = [loc EXCEPT ![req.result] = req.slot]
    /\ openUpvalues' = openUpvalues \cup {req.result}
    /\ Loop("CAPTURE_LOOP", req.held)

CaptureDone ==
    /\ InLoop("CAPTURE_LOOP")
    /\ UNCHANGED <<heap, roots, ast>> /\ Done

-----------------------------------------------------------------------------
(* The parser and the compiler, which allocate strings and functions.      *)

Compiling == phase = "run" /\ compiling # <<>>
Pool == ref[Last(compiling)]

\* A string literal becomes a Value in an AST node, which is not a root.
ParseString ==
    /\ Idle /\ "COMPILE" \in ops
    /\ \E t \in Text : CopyString("LITERAL", t, {}, 0)
    /\ UNCHANGED roots /\ UNCHANGED ast

DeliverLiteral ==
    /\ Deliver("LITERAL")
    /\ ast' = ast \cup {req.result}
    /\ UNCHANGED <<heap, roots>> /\ Done

\* Parse or type errors: freeStatements.
AbandonSource ==
    /\ Idle /\ ast # {}
    /\ ast' = {}
    /\ UNCHANGED <<heap, roots>> /\ NoAllocation

\* initCompiler: newFunction runs while `current` is still the enclosing one.
InitCompiler ==
    /\ (Idle /\ "COMPILE" \in ops) \/ Compiling
    /\ Len(compiling) < MaxFrames
    /\ Allocate("FUNCTION", "fn", NoText, {}, 0)
    /\ UNCHANGED roots /\ UNCHANGED ast

DeliverFunction ==
    /\ Deliver("FUNCTION")
    /\ compiling' = Append(compiling, req.result)
    /\ UNCHANGED <<heap, stack, frames, openUpvalues, globals, ast>> /\ Done

\* copyString for a name, then makeConstant.
CompileName ==
    /\ Compiling /\ Cardinality(Pool) < MaxConstants
    /\ \E t \in Text : CopyString("NAME", t, {}, 0)
    /\ UNCHANGED roots /\ UNCHANGED ast

AddConstant(c) ==
    /\ ref' = [ref EXCEPT ![Last(compiling)] = @ \cup {c}]
    /\ UNCHANGED <<live, kind, text, loc, strings>>

DeliverName ==
    /\ Deliver("NAME")
    /\ AddConstant(req.result)
    /\ UNCHANGED <<roots, ast>> /\ Done

\* makeConstant on the value of a literal node.
CompileLiteral ==
    /\ Compiling /\ Cardinality(Pool) < MaxConstants
    /\ \E l \in ast : (l \in live \/ "literals" \in Exercised) /\ AddConstant(l)
    /\ UNCHANGED <<roots, ast>> /\ NoAllocation

\* endCompiler of a nested function, a constant of the enclosing one at once.
EndNested ==
    /\ Compiling /\ Len(compiling) > 1 /\ Cardinality(Pool) < MaxConstants
    /\ ref' = [ref EXCEPT ![compiling[Len(compiling) - 1]] = @ \cup {Last(compiling)}]
    /\ compiling' = Front(compiling)
    /\ UNCHANGED <<live, kind, text, loc, strings, stack, frames, openUpvalues, globals,
                   ast>>
    /\ NoAllocation

\* Mutant: interpretInternal does not push the function it compiled.
MutEndScript ==
    /\ Compiling /\ Len(compiling) = 1
    /\ compiling' = <<>>
    /\ ast' = {}
    /\ UNCHANGED <<stack, frames, openUpvalues, globals>>
    /\ Allocate("SCRIPT", "clo", NoText, {Last(compiling)}, 0)

\* endCompiler of the script: the function is pushed before freeStatements and
\* newClosure.
EndScript ==
    /\ Compiling /\ Len(compiling) = 1
    /\ compiling' = <<>>
    /\ ast' = {}
    /\ Push(stack, Last(compiling))
    /\ UNCHANGED <<frames, openUpvalues, globals>>
    /\ Allocate("SCRIPT", "clo", NoText, {Last(compiling)}, 0)

DeliverScript ==
    /\ Deliver("SCRIPT")
    /\ Enter(Append(Drop(1), req.result), req.result, Len(stack))
    /\ UNCHANGED heap /\ OnlyRoots /\ Done

\* A compile error: endCompiler still unlinks the function.
CompileError ==
    /\ Compiling /\ Len(compiling) = 1
    /\ compiling' = <<>> /\ ast' = {}
    /\ UNCHANGED <<heap, stack, frames, openUpvalues, globals>> /\ NoAllocation

-----------------------------------------------------------------------------
Init ==
    /\ \E im \in Images :
          /\ live = im.live /\ kind = im.kind /\ ref = im.ref /\ text = im.text
          /\ strings = {o \in im.live : im.kind[o] = "str"}
          /\ stack = im.stack /\ frames = im.frames /\ globals = im.globals
          /\ ops = im.ops
          /\ bytesAllocated = im.bytes
    /\ loc = [o \in Obj |-> 0]
    /\ openUpvalues = {} /\ compiling = <<>> /\ ast = {}
    /\ phase = "run" /\ req = NoRequest
    /\ mark = {} /\ gray = {}
    /\ nextGC = FirstGC

Collect == MarkRoots \/ Blacken \/ Sweep

Execute ==
    \/ OpConstant \/ OpNil \/ OpGetLocal \/ OpSetLocal \/ OpPop \/ OpGetGlobal
    \/ OpDefineGlobal \/ OpGetUpvalue \/ OpSetUpvalue \/ OpGetField \/ OpSetField
    \/ OpMethod \/ OpInherit \/ OpCloseUpvalue \/ OpCall \/ OpReturn \/ OpTailCall \/ RuntimeError

Request ==
    \/ OpArray \/ OpArrayConcat \/ OpConcat \/ OpClass \/ OpBindMethod
    \/ OpGetSuper \/ OpInstantiate \/ OpCallNative \/ OpSplit \/ SplitPiece \/ ReturnSplit
    \/ OpClosure \/ CaptureShared \/ CaptureOuter \/ CaptureNew \/ CaptureDone

Complete ==
    \/ DeliverArray \/ DeliverArrayConcat \/ DeliverConcat \/ DeliverClass
    \/ DeliverBindMethod \/ DeliverInstance \/ DeliverInit \/ DeliverNative
    \/ DeliverSplit \/ DeliverPiece \/ DeliverClosure \/ DeliverUpvalue

Compile ==
    \/ ParseString \/ DeliverLiteral \/ AbandonSource \/ InitCompiler
    \/ DeliverFunction \/ CompileName \/ DeliverName \/ CompileLiteral \/ EndNested
    \/ EndScript \/ DeliverScript \/ CompileError

Next == Collect \/ NewObject \/ Execute \/ Request \/ Complete \/ Compile

\* collectGarbage is a loop of the one thread there is: once in it, the
\* runtime stays in it until the sweep is over.
Spec == Init /\ [][Next]_vars /\ WF_vars(Collect)

-----------------------------------------------------------------------------
(* Properties.                                                             *)

TypeOK ==
    /\ live \subseteq Obj /\ kind \in [Obj -> Kinds] /\ ref \in [Obj -> SUBSET Obj]
    /\ text \in [Obj -> Text \cup {NoText}] /\ loc \in [Obj -> Nat]
    /\ strings \subseteq Obj
    /\ stack \in Seq(Obj \cup {Nil})
    /\ frames \in Seq([closure : Obj, slots : Nat \ {0}])
    /\ openUpvalues \subseteq Obj /\ globals \subseteq Obj
    /\ compiling \in Seq(Obj) /\ ast \subseteq Obj
    /\ ops \subseteq Opcodes /\ phase \in Phases /\ req \in Requests
    /\ mark \subseteq Obj /\ gray \subseteq Obj
    /\ bytesAllocated \in Nat /\ nextGC \in Nat

\* No root and no allocated object refers to an object that was swept.  The
\* claim is about every allocation site of the runtime and the compiler: each
\* must keep what it uses after allocateObject reachable from markRoots.
NoDangling ==
    /\ Roots \subseteq live
    /\ \A o \in live : ref[o] \subseteq live

\* What a handler holds in C locals across an allocation, and the object it
\* gets back, are allocated when it goes on.
OperandsSurvive ==
    phase \in {"alloc", "deliver", "loop"} =>
        req.held \subseteq live /\ req.result \in live \cup {Nil}

\* traceReferences, at every point: marked objects are reachable, the roots are
\* marked, and an object that was popped from the gray stack has all its
\* references marked.
TriColour ==
    /\ phase = "trace" =>
          /\ Roots \subseteq mark /\ gray \subseteq mark /\ mark \subseteq Reach
          /\ \A o \in mark \ gray : ref[o] \subseteq mark
    /\ phase # "trace" => mark = {} /\ gray = {}

\* String interning: copyString finds every allocated string, and two of them
\* never have the same text, so that comparing addresses compares texts
\* (valuesEqual, findEntry).
InternTable ==
    /\ \A o \in live : kind[o] = "str" => o \in strings
    /\ \A o, p \in live :
          kind[o] = "str" /\ kind[p] = "str" /\ text[o] = text[p] => o = p

\* A collection frees all the garbage and nothing else.
ExactCollection ==
    [][phase = "trace" /\ phase' = "alloc" => live' = live \cap Reach]_vars

\* A collection that starts ends.
CollectionEnds == phase \in GCPhases ~> phase = "alloc"
=============================================================================
