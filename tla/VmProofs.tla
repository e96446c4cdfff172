------------------------------ MODULE VmProofs ------------------------------
(* Proofs about the values and the upvalues of Vm, for every set of         *)
(* closures, upvalues, values and programs, and for every limit, of         *)
(* programs whose only hazardous use may be a tail call of a class with an  *)
(* initializer, which keeps the machine's state in order.                   *)
EXTENDS VmFrames, FiniteSetTheorems

-----------------------------------------------------------------------------
(* The inductive invariant: that of VmFrames, and what the slots and the   *)
(* upvalues hold.                                                          *)

\* The values there are: no closure that has yet to be made.
Known == Values \ (Closures \ DOMAIN upvalues)

Sorts ==
    /\ stack \in Seq(Known) /\ global \in Known
    /\ frames \in Seq(Frame) /\ handlers \in Seq(Handler)
    /\ upvalue \in [Upvalues -> [location : Nat, closed : Values \cup {Nil}]]
    /\ openUpvalues \subseteq Upvalues
    /\ DOMAIN upvalues \subseteq Closures
    /\ {Script, Initializer, Method} \subseteq DOMAIN upvalues
    /\ program \in Programs

\* The upvalues of a closure are open, or hold a value.
Captures == \A c \in DOMAIN upvalues :
    /\ upvalues[c] \subseteq Upvalues
    /\ \A u \in upvalues[c] : upvalue[u].location = 0 => upvalue[u].closed \in Known

\* A frame runs its own code, of a closure that was made.
Own == \A i \in DOMAIN frames :
    /\ frames[i].ip.code = frames[i].closure
    /\ frames[i].closure \in DOMAIN upvalues

\* The list has the upvalues that point into the stack, each at a slot of its own.
Opened ==
    /\ \A u \in Upvalues : u \in openUpvalues <=> upvalue[u].location # 0
    /\ \A u \in openUpvalues :
          frames # <<>> /\ upvalue[u].location \in frames[1].slots .. Len(stack)
    /\ \A u, w \in openUpvalues : upvalue[u].location = upvalue[w].location => u = w

IInv == Sorts /\ Captures /\ Limits /\ Own /\ Nest /\ Handling /\ Opened

-----------------------------------------------------------------------------
(* Consequences of the invariant.                                          *)

LEMMA Lay == IInv => Laid
<1> SUFFICES ASSUME IInv PROVE Laid
  OBVIOUS
<1>1. Line(stack)
  BY DEF IInv, Sorts, Line
<1>2. Recorded /\ OwnCode
  BY DEF IInv, Sorts, Recorded, Own, OwnCode
<1> QED BY <1>1, <1>2 DEF IInv, Laid

\* The running frame, and the height no opcode pops below.
LEMMA TopFrame ==
    ASSUME Sorts, Nest, frames # <<>>
    PROVE  /\ Len(frames) \in Nat /\ Len(frames) >= 1 /\ DOMAIN frames = 1 .. Len(frames)
           /\ frame = frames[Len(frames)] /\ frame \in Frame
           /\ Len(stack) \in Nat
           /\ frames[1].slots \in Nat /\ frames[1].slots >= 1 /\ frames[1].slots <= frame.slots
           /\ Floor \in Nat /\ frame.slots + 1 <= Floor /\ Floor - 1 <= Len(stack)
           /\ \A n \in Nat : Floor - 1 <= n => Reaches(Len(frames), n)
<1>1. Len(stack) \in Nat /\ frames \in Seq(Frame)
  BY DEF Sorts
<1> QED BY <1>1, Topmost

\* Slots an opcode may drop: none is captured.
LEMMA Uncaptured ==
    ASSUME ~Strays, Sorts, Opened, frames # <<>>, Nest, NEW n \in Nat, Operands(n)
    PROVE  /\ Len(stack) - n >= Floor - 1
           /\ \A u \in openUpvalues : upvalue[u].location <= Len(stack) - n
<1>1. Len(stack) \in Nat /\ Len(stack) - n >= Floor - 1
  BY TopFrame DEF Operands
<1>2. ASSUME NEW u \in openUpvalues PROVE upvalue[u].location <= Len(stack) - n
  <2>1. /\ upvalue[u].location \in Nat /\ upvalue[u].location <= Len(stack)
        /\ Captured(upvalue[u].location)
    BY TopFrame DEF Sorts, Opened, Captured
  <2> QED BY <1>1, <2>1 DEF Operands, Droppable
<1> QED BY <1>1, <1>2

\* What is left of the invariant, when the frames and the handlers are in order.
LEMMA Rest ==
    ASSUME IInv, Laid', Sorts', Captures', Opened',
           \A i \in DOMAIN frames' : frames'[i].closure \in DOMAIN upvalues'
    PROVE  IInv'
<1>1. Own'
  BY DEF Laid, OwnCode, Own
<1> QED BY <1>1 DEF IInv, Laid

\* A step that leaves the frames alone.
LEMMA SameFrames ==
    ASSUME IInv, Laid', UNCHANGED frames, DOMAIN upvalues \subseteq DOMAIN upvalues',
           Sorts', Captures', Opened'
    PROVE  IInv'
<1>1. \A i \in DOMAIN frames' : frames'[i].closure \in DOMAIN upvalues'
  BY DEF IInv, Own
<1> QED BY <1>1, Rest

\* An opcode that moves values, and drops no slot that is captured.
LEMMA StackStep ==
    ASSUME IInv, Laid', UNCHANGED <<frames, handlers, upvalue, openUpvalues, upvalues, program>>,
           stack' \in Seq(Known), global' \in Known,
           \A u \in openUpvalues : upvalue[u].location <= Len(stack')
    PROVE  IInv'
<1>1. Sorts'
  BY DEF IInv, Sorts, Known
<1>2. Captures'
  BY DEF IInv, Captures, Known
<1>3. Opened'
  BY DEF IInv, Opened, Sorts
<1> QED BY <1>1, <1>2, <1>3, SameFrames

\* What is on the stack.
LEMMA Slot ==
    ASSUME Sorts
    PROVE  /\ Len(stack) \in Nat /\ DOMAIN stack = 1 .. Len(stack) /\ stack \in Seq(Known)
           /\ \A i \in 1 .. Len(stack) : stack[i] \in Known
BY SeqElement DEF Sorts

\* A push is above every slot there is.
LEMMA PushStep ==
    ASSUME IInv, Laid', frames # <<>>, OnlyStack, NEW v \in Known, Push(stack, v)
    PROVE  IInv'
<1>1. stack' = Append(stack, v)
  BY DEF Push
<1>2. stack' \in Seq(Known) /\ Len(stack') = Len(stack) + 1
  <2> HIDE DEF Known
  <2> QED BY <1>1, SeqAppend DEF IInv, Sorts
<1>3. Len(stack) \in Nat /\ Floor \in Nat /\ Floor - 1 <= Len(stack)
  BY TopFrame DEF IInv
<1>4. \A u \in openUpvalues : upvalue[u].location <= Len(stack')
  BY <1>2, <1>3, TopFrame DEF IInv, Opened
<1>5. global' \in Known /\ UNCHANGED <<frames, handlers, upvalue, openUpvalues, upvalues, program>>
  BY DEF OnlyStack, IInv, Sorts
<1> QED BY <1>2, <1>3, <1>4, <1>5, StackStep

-----------------------------------------------------------------------------
(* Initial states.                                                         *)

LEMMA InitIInv == Init => IInv
<1> SUFFICES ASSUME Init PROVE IInv
  OBVIOUS
<1>1. Sorts
  <2>1. global \in Known
    BY ValuesAssumption DEF Init, Known, Values
  <2>2. upvalue \in [Upvalues -> [location : Nat, closed : Values \cup {Nil}]]
    BY DEF Init, Closed
  <2>3. DOMAIN upvalues = {Script, Initializer, Method}
    BY DEF Init
  <2> QED BY <2>1, <2>2, <2>3, ClosuresAssumption DEF Init, Sorts
<1>2. Captures /\ Own
  BY DEF Init, Captures, Own
<1>3. Limits /\ Nest /\ Handling
  BY InitLaid DEF Laid
<1>4. Opened
  BY DEF Init, Opened, Closed
<1> QED BY <1>1, <1>2, <1>3, <1>4 DEF IInv

-----------------------------------------------------------------------------
(* Instructions of one frame.                                              *)

LEMMA ConstantStep == IInv /\ Laid' /\ OpConstant => IInv'
<1> SUFFICES ASSUME IInv, Laid', OpConstant PROVE IInv'
  OBVIOUS
<1>1. PICK v \in program.constants : Push(stack, v)
  BY DEF OpConstant
<1>2. v \in Known
  BY ProgramsAssumption DEF IInv, Sorts, Known
<1> QED BY <1>1, <1>2, PushStep, Runs DEF OpConstant

LEMMA GetLocalStep == IInv /\ Laid' /\ OpGetLocal => IInv'
<1> SUFFICES ASSUME IInv, Laid', OpGetLocal PROVE IInv'
  OBVIOUS
<1>1. PICK i \in Slots : Push(stack, stack[i])
  BY DEF OpGetLocal
<1>2. frames # <<>>
  BY Runs DEF OpGetLocal
<1>3. frame.slots \in Nat /\ frame.slots >= 1
  BY <1>2, TopFrame DEF IInv, Frame
<1>4. stack[i] \in Known
  BY <1>1, <1>3, Slot DEF IInv, Slots
<1> QED BY <1>1, <1>2, <1>4, PushStep DEF OpGetLocal

LEMMA GetGlobalStep == IInv /\ Laid' /\ OpGetGlobal => IInv'
BY PushStep, Runs DEF OpGetGlobal, IInv, Sorts

\* An upvalue of a closure that was made is open on a slot, or holds a value.
LEMMA Reads ==
    ASSUME IInv, frames # <<>>, NEW c \in DOMAIN upvalues, NEW u \in upvalues[c]
    PROVE  /\ u \in Upvalues
           /\ upvalue[u].location = 0 => upvalue[u].closed \in Known
           /\ upvalue[u].location # 0 =>
                 /\ upvalue[u].location \in DOMAIN stack
                 /\ Content(upvalue[u].location) = stack[upvalue[u].location]
                 /\ stack[upvalue[u].location] \in Known
<1>1. u \in Upvalues /\ (upvalue[u].location = 0 => upvalue[u].closed \in Known)
  BY DEF IInv, Captures
<1>2. ASSUME upvalue[u].location # 0 PROVE upvalue[u].location \in DOMAIN stack
  <2>1. upvalue[u].location \in frames[1].slots .. Len(stack)
    BY <1>1, <1>2 DEF IInv, Opened
  <2>2. frames[1].slots \in Nat /\ frames[1].slots >= 1 /\ Len(stack) \in Nat
    BY TopFrame DEF IInv
  <2> QED BY <2>1, <2>2, Slot DEF IInv
<1>3. \A i \in DOMAIN stack : stack[i] \in Known
  BY Slot DEF IInv
<1> QED BY <1>1, <1>2, <1>3 DEF Content

LEMMA GetUpvalueStep == IInv /\ Laid' /\ OpGetUpvalue => IInv'
<1> SUFFICES ASSUME IInv, Laid', OpGetUpvalue PROVE IInv'
  OBVIOUS
<1>1. PICK u \in upvalues[frame.closure] : Push(stack, Read(u))
  BY DEF OpGetUpvalue
<1>2. frames # <<>>
  BY Runs DEF OpGetUpvalue
<1>3. frame.closure \in DOMAIN upvalues
  BY <1>2, TopFrame DEF IInv, Own
<1>4. Read(u) \in Known
  <2> HIDE DEF Known
  <2> QED BY <1>2, <1>3, Reads DEF Read
<1> QED BY <1>1, <1>2, <1>4, PushStep DEF OpGetUpvalue

LEMMA Dropped ==
    ASSUME Sorts, NEW n \in Nat, n <= Len(stack)
    PROVE  Drop(n) \in Seq(Known) /\ Len(Drop(n)) = Len(stack) - n
<1>1. Len(stack) - n \in Nat /\ Len(stack) - n <= Len(stack)
  BY Slot
<1>2. stack \in Seq(Known)
  BY DEF Sorts
<1> HIDE DEF Known
<1> QED BY <1>1, <1>2, SeqPrefix DEF Drop

\* The value on top, above what the frame leaves alone.
LEMMA TopOperand ==
    ASSUME ~Strays, IInv, frames # <<>>, NEW n \in Nat, Operands(n + 1)
    PROVE  /\ Len(stack) - n - 1 >= Floor - 1 /\ Len(stack) - n >= frame.slots + 1
           /\ \A i \in 0 .. n : Peek(i) \in Known
           /\ \A u \in openUpvalues : upvalue[u].location <= Len(stack) - n - 1
<1>1. /\ Len(stack) - (n + 1) >= Floor - 1
      /\ \A u \in openUpvalues : upvalue[u].location <= Len(stack) - (n + 1)
  BY Uncaptured DEF IInv
<1>2. /\ Floor \in Nat /\ frame.slots + 1 <= Floor /\ Len(stack) \in Nat
      /\ frame.slots \in Nat /\ frame.slots >= 1
  BY TopFrame DEF IInv, Frame
<1>3. \A i \in 0 .. n : Len(stack) - i \in 1 .. Len(stack)
  BY <1>1, <1>2
<1>4. \A i \in 0 .. n : Peek(i) \in Known
  <2> HIDE DEF Known
  <2> QED BY <1>3, Slot DEF IInv, Peek
<1>5. \A u \in openUpvalues : upvalue[u].location <= Len(stack) - n - 1
  BY <1>1, <1>2
<1> QED BY <1>1, <1>2, <1>4, <1>5

LEMMA PopStep ==
    ASSUME ~Strays PROVE IInv /\ Laid' /\ OpPop => IInv'
<1> SUFFICES ASSUME IInv, Laid', OpPop PROVE IInv'
  OBVIOUS
<1>1. frames # <<>>
  BY Runs DEF OpPop
<1>2. ~Captured(Len(stack)) /\ Len(stack) >= Floor /\ stack' = Drop(1)
  BY DEF OpPop, Droppable
<1>3. Floor \in Nat /\ Len(stack) \in Nat /\ Floor >= 1 /\ frame.slots \in Nat
  BY <1>1, TopFrame DEF IInv, Frame
<1>4. stack' \in Seq(Known) /\ Len(stack') = Len(stack) - 1
  BY <1>2, <1>3, Dropped DEF IInv
<1>5. \A u \in openUpvalues : upvalue[u].location \in Nat /\ upvalue[u].location <= Len(stack)
  BY <1>1, TopFrame DEF IInv, Opened
<1>6. \A u \in openUpvalues : upvalue[u].location <= Len(stack')
  BY <1>2, <1>3, <1>4, <1>5 DEF Captured
<1>7. global' \in Known /\ UNCHANGED <<frames, handlers, upvalue, openUpvalues, upvalues, program>>
  BY DEF OpPop, OnlyStack, IInv, Sorts
<1> QED BY <1>4, <1>6, <1>7, StackStep

\* A slot of the stack that is set, as by OP_SET_LOCAL and OP_SET_UPVALUE.
LEMMA StoreStep ==
    ASSUME IInv, Laid', frames # <<>>, OnlyStack, NEW i \in DOMAIN stack, NEW v \in Known,
           stack' = [stack EXCEPT ![i] = v]
    PROVE  IInv'
<1>1. stack' \in Seq(Known) /\ Len(stack') = Len(stack)
  <2> HIDE DEF Known
  <2> QED BY SeqExcept, Slot DEF IInv
<1>2. \A u \in openUpvalues : upvalue[u].location <= Len(stack')
  BY <1>1, TopFrame DEF IInv, Opened
<1>3. global' \in Known /\ UNCHANGED <<frames, handlers, upvalue, openUpvalues, upvalues, program>>
  BY DEF OnlyStack, IInv, Sorts
<1> QED BY <1>1, <1>2, <1>3, StackStep

LEMMA SetLocalStep ==
    ASSUME ~Strays PROVE IInv /\ Laid' /\ OpSetLocal => IInv'
<1> SUFFICES ASSUME IInv, Laid', OpSetLocal PROVE IInv'
  OBVIOUS
<1>1. frames # <<>> /\ Operands(0 + 1)
  BY Runs DEF OpSetLocal
<1>2. PICK i \in Slots : stack' = [stack EXCEPT ![i] = Peek(0)]
  BY DEF OpSetLocal
<1>3. Peek(0) \in Known
  BY <1>1, TopOperand
<1>4. i \in DOMAIN stack
  <2>1. frame.slots \in Nat /\ frame.slots >= 1
    BY <1>1, TopFrame DEF IInv, Frame
  <2> QED BY <1>2, <2>1, Slot DEF IInv, Slots
<1> QED BY <1>1, <1>2, <1>3, <1>4, StoreStep DEF OpSetLocal

LEMMA SetUpvalueStep ==
    ASSUME ~Strays PROVE IInv /\ Laid' /\ OpSetUpvalue => IInv'
<1> SUFFICES ASSUME IInv, Laid', OpSetUpvalue PROVE IInv'
  OBVIOUS
<1>1. frames # <<>> /\ Operands(0 + 1)
  BY Runs DEF OpSetUpvalue
<1>2. Peek(0) \in Known
  BY <1>1, TopOperand
<1>3. PICK u \in upvalues[frame.closure] :
        /\ stack' = IF upvalue[u].location \in DOMAIN stack
                    THEN [stack EXCEPT ![upvalue[u].location] = Peek(0)] ELSE stack
        /\ upvalue' = IF upvalue[u].location = 0 THEN [upvalue EXCEPT ![u] = Closed(Peek(0))]
                      ELSE upvalue
  BY DEF OpSetUpvalue
<1>4. UNCHANGED <<frames, handlers, openUpvalues, upvalues, global, program>>
  BY DEF OpSetUpvalue
<1>7. u \in Upvalues /\ (upvalue[u].location # 0 => upvalue[u].location \in DOMAIN stack)
  <2>1. frame.closure \in DOMAIN upvalues
    BY <1>1, TopFrame DEF IInv, Own
  <2> QED BY <1>1, <2>1, Reads
<1>5. CASE upvalue[u].location # 0
  <2>1. stack' = [stack EXCEPT ![upvalue[u].location] = Peek(0)] /\ UNCHANGED upvalue
    BY <1>3, <1>5, <1>7
  <2> QED BY <1>1, <1>2, <1>4, <1>5, <1>7, <2>1, StoreStep DEF OnlyStack
<1>6. CASE upvalue[u].location = 0
  <2>0. upvalue' = [upvalue EXCEPT ![u] = Closed(Peek(0))] /\ UNCHANGED stack
    <3>1. upvalue[u].location \notin DOMAIN stack
      BY <1>6, Slot DEF IInv
    <3> QED BY <1>3, <1>6, <3>1
  <2>1. Sorts'
    <3>1. upvalue' \in [Upvalues -> [location : Nat, closed : Values \cup {Nil}]]
      BY <1>2, <2>0 DEF IInv, Sorts, Closed, Known
    <3> QED BY <1>4, <2>0, <3>1 DEF IInv, Sorts, Known
  <2>2. \A w \in Upvalues : /\ upvalue'[w].location = upvalue[w].location
                            /\ w # u => upvalue'[w] = upvalue[w]
                            /\ w = u => upvalue'[w].closed = Peek(0)
    BY <1>6, <2>0 DEF IInv, Sorts, Closed
  <2>3. Captures'
    BY <1>2, <1>4, <2>2 DEF IInv, Captures, Known
  <2>4. Opened'
    BY <1>4, <2>0, <2>2 DEF IInv, Opened, Sorts
  <2> QED BY <1>4, <2>1, <2>3, <2>4, SameFrames
<1> QED BY <1>5, <1>6

LEMMA DefineGlobalStep ==
    ASSUME ~Strays PROVE IInv /\ Laid' /\ OpDefineGlobal => IInv'
<1> SUFFICES ASSUME IInv, Laid', OpDefineGlobal PROVE IInv'
  OBVIOUS
<1>1. frames # <<>> /\ Operands(0 + 1) /\ stack' = Drop(1) /\ global' = Peek(0)
  BY Runs DEF OpDefineGlobal
<1>2. /\ Len(stack) - 0 - 1 >= Floor - 1 /\ Peek(0) \in Known
      /\ \A u \in openUpvalues : upvalue[u].location <= Len(stack) - 0 - 1
      /\ Floor \in Nat /\ Len(stack) \in Nat /\ frame.slots + 1 <= Floor /\ frame.slots \in Nat
  <2>1. /\ Len(stack) - 0 - 1 >= Floor - 1 /\ \A i \in 0 .. 0 : Peek(i) \in Known
        /\ \A u \in openUpvalues : upvalue[u].location <= Len(stack) - 0 - 1
    <3> HIDE DEF Known
    <3> QED BY <1>1, TopOperand
  <2> QED BY <1>1, <2>1, TopFrame DEF IInv, Frame
<1>3. stack' \in Seq(Known) /\ Len(stack') = Len(stack) - 1
  BY <1>1, <1>2, Dropped DEF IInv
<1>4. UNCHANGED <<frames, handlers, upvalue, openUpvalues, upvalues, program>>
  BY DEF OpDefineGlobal
<1>5. \A u \in openUpvalues : upvalue[u].location <= Len(stack')
  BY <1>2, <1>3
<1> QED BY <1>1, <1>2, <1>3, <1>4, <1>5, StackStep

\* vm_close_upvalues: those at and above a slot get their values, the others stay.
LEMMA Closes ==
    ASSUME Sorts, Captures, Opened, frames # <<>>, Nest, NEW last \in Nat,
           CloseUpvalues(last), Known \subseteq Known'
    PROVE  /\ upvalue' \in [Upvalues -> [location : Nat, closed : Values \cup {Nil}]]
           /\ openUpvalues' \subseteq openUpvalues
           /\ \A u \in openUpvalues' : upvalue'[u] = upvalue[u] /\ upvalue[u].location < last
           /\ \A u \in Upvalues : u \in openUpvalues' <=> upvalue'[u].location # 0
           /\ \A c \in DOMAIN upvalues : \A u \in upvalues[c] :
                 upvalue'[u].location = 0 => upvalue'[u].closed \in Known
<1>1. /\ openUpvalues' = openUpvalues \ Closing(last)
      /\ upvalue' = [u \in Upvalues |->
                       IF u \in Closing(last) THEN Closed(Content(upvalue[u].location))
                       ELSE upvalue[u]]
  BY DEF CloseUpvalues
<1>2. \A u \in openUpvalues : /\ upvalue[u].location \in Nat /\ stack[upvalue[u].location] \in Known
                             /\ Content(upvalue[u].location) = stack[upvalue[u].location]
  <2>1. \A u \in openUpvalues : upvalue[u].location \in frames[1].slots .. Len(stack)
    BY DEF Opened
  <2>2. \A u \in openUpvalues : upvalue[u].location \in 1 .. Len(stack)
    BY <2>1, TopFrame
  <2> HIDE DEF Known
  <2> QED BY <2>2, Slot DEF Content
<1>3. ASSUME NEW u \in Closing(last)
      PROVE  /\ u \in Upvalues /\ upvalue'[u] = Closed(stack[upvalue[u].location])
             /\ upvalue'[u].closed \in Known /\ stack[upvalue[u].location] \in Known
  BY <1>1, <1>2 DEF Closing, Sorts, Closed
<1>4. ASSUME NEW u \in Upvalues, u \notin Closing(last) PROVE upvalue'[u] = upvalue[u]
  BY <1>1, <1>4
<1>5. upvalue' \in [Upvalues -> [location : Nat, closed : Values \cup {Nil}]]
  <2>1. ASSUME NEW u \in Upvalues
        PROVE  upvalue'[u] \in [location : Nat, closed : Values \cup {Nil}]
    <3>1. CASE u \in Closing(last)
      <4> DEFINE v == stack[upvalue[u].location]
      <4>1. v \in Values /\ upvalue'[u] = [location |-> 0, closed |-> v]
        BY <1>3, <3>1 DEF Known, Closed
      <4> HIDE DEF v
      <4> QED BY <4>1
    <3>2. CASE u \notin Closing(last)
      BY <1>4, <3>2 DEF Sorts
    <3> QED BY <3>1, <3>2
  <2> QED BY <1>1, <2>1
<1>6. \A u \in openUpvalues' : upvalue'[u] = upvalue[u] /\ upvalue[u].location < last
  BY <1>1, <1>2, <1>4 DEF Closing, Sorts
<1>7. \A u \in Upvalues : u \in openUpvalues' <=> upvalue'[u].location # 0
  <2>1. \A u \in Upvalues : u \in Closing(last) => u \notin openUpvalues' /\ upvalue'[u].location = 0
    BY <1>1, <1>3 DEF Closed
  <2> QED BY <1>1, <1>4, <2>1 DEF Opened
<1>8. \A c \in DOMAIN upvalues : \A u \in upvalues[c] :
         upvalue'[u].location = 0 => upvalue'[u].closed \in Known
  <2>1. ASSUME NEW c \in DOMAIN upvalues, NEW u \in upvalues[c], upvalue'[u].location = 0
        PROVE  upvalue'[u].closed \in Known
    <3>1. CASE u \in Closing(last)
      BY <1>3, <3>1
    <3>2. CASE u \notin Closing(last)
      BY <1>4, <2>1, <3>2 DEF Captures
    <3> QED BY <3>1, <3>2
  <2> QED BY <2>1
<1> QED BY <1>1, <1>5, <1>6, <1>7, <1>8

LEMMA CloseUpvalueStep == IInv /\ Laid' /\ OpCloseUpvalue => IInv'
<1> SUFFICES ASSUME IInv, Laid', OpCloseUpvalue PROVE IInv'
  OBVIOUS
<1>1. /\ frames # <<>> /\ Len(stack) >= Floor /\ CloseUpvalues(Len(stack)) /\ stack' = Drop(1)
      /\ UNCHANGED <<frames, handlers, upvalues, global, program>>
  BY Runs DEF OpCloseUpvalue
<1>2. Floor \in Nat /\ Len(stack) \in Nat /\ frame.slots + 1 <= Floor /\ frame.slots \in Nat
  BY <1>1, TopFrame DEF IInv, Frame
<1>3. stack' \in Seq(Known) /\ Len(stack') = Len(stack) - 1
  BY <1>1, <1>2, Dropped DEF IInv
<1>4. /\ upvalue' \in [Upvalues -> [location : Nat, closed : Values \cup {Nil}]]
      /\ openUpvalues' \subseteq openUpvalues
      /\ \A u \in openUpvalues' : upvalue'[u] = upvalue[u] /\ upvalue[u].location < Len(stack)
      /\ \A u \in Upvalues : u \in openUpvalues' <=> upvalue'[u].location # 0
      /\ \A c \in DOMAIN upvalues : \A u \in upvalues[c] :
            upvalue'[u].location = 0 => upvalue'[u].closed \in Known
  BY <1>1, <1>2, Closes DEF IInv, Known
<1>5. Sorts' /\ Captures'
  BY <1>1, <1>3, <1>4 DEF IInv, Sorts, Captures, Known
<1>6. Opened'
  <2>1. \A u \in openUpvalues' :
          upvalue[u].location \in frames[1].slots .. Len(stack) /\ frames[1].slots \in Nat
    BY <1>1, <1>4, TopFrame DEF IInv, Opened
  <2>2. \A u \in openUpvalues' : upvalue'[u].location \in frames[1].slots .. Len(stack')
    BY <1>2, <1>3, <1>4, <2>1
  <2>3. \A u, w \in openUpvalues' : upvalue'[u].location = upvalue'[w].location => u = w
    BY <1>4 DEF IInv, Opened
  <2> QED BY <1>1, <1>4, <2>2, <2>3 DEF Opened
<1> QED BY <1>1, <1>5, <1>6, SameFrames

-----------------------------------------------------------------------------
(* Errors.                                                                 *)

LEMMA ResetStep ==
    ASSUME "error_over_captured" \notin Exercised, IInv, Laid', Reset,
           UNCHANGED <<upvalues, global, program>>
    PROVE  IInv'
<1>1. /\ openUpvalues = {} /\ stack' = <<>> /\ frames' = <<>> /\ handlers' = <<>>
      /\ openUpvalues' = {} /\ UNCHANGED <<upvalue, upvalues, global, program>>
  BY DEF Reset
<1>2. Sorts' /\ Captures'
  BY <1>1 DEF IInv, Sorts, Captures, Known
<1>3. Opened'
  BY <1>1 DEF IInv, Opened
<1> QED BY <1>1, <1>2, <1>3, Rest

LEMMA RuntimeErrorStep ==
    ASSUME "error_over_captured" \notin Exercised PROVE IInv /\ Laid' /\ RuntimeError => IInv'
BY ResetStep DEF RuntimeError

-----------------------------------------------------------------------------
(* Closures.                                                               *)

LEMMA ClosureStep == IInv /\ Laid' /\ OpClosure => IInv'
<1> SUFFICES ASSUME IInv, Laid', OpClosure PROVE IInv'
  OBVIOUS
<1>1. frames # <<>> /\ UNCHANGED <<frames, handlers, global, program>>
  BY Runs DEF OpClosure
<1> DEFINE used == UNION Range(upvalues)
<1>a. PICK c \in Closures \ DOMAIN upvalues,
           locals \in SUBSET (Slots \cup {Len(stack) + 1}), outer \in SUBSET upvalues[frame.closure] :
        /\ Push(stack, c)
        /\ \E create \in Injection(Missing(locals), Upvalues \ used) :
              CaptureUpvalues(c, locals, outer, create)
  BY DEF OpClosure
<1>b. PICK create \in Injection(Missing(locals), Upvalues \ used) :
              CaptureUpvalues(c, locals, outer, create)
  BY <1>a
<1> DEFINE absent == Missing(locals)
           found == {u \in openUpvalues : upvalue[u].location \in locals}
           new == Range(create)
           at(u) == CHOOSE i \in absent : create[i] = u
<1>2. /\ stack' = Append(stack, c)
      /\ openUpvalues' = openUpvalues \cup new
      /\ upvalue' = [u \in Upvalues |-> IF u \in new THEN Open(at(u)) ELSE upvalue[u]]
      /\ upvalues' = [d \in DOMAIN upvalues \cup {c} |->
            IF d = c THEN outer \cup found \cup new ELSE upvalues[d]]
  BY <1>a, <1>b DEF Push, CaptureUpvalues
<1>3. /\ new \subseteq Upvalues \ used
      /\ \A u \in new : at(u) \in absent /\ create[at(u)] = u
  BY <1>b DEF Injection, IsInjective, Range
<1>0. /\ absent \subseteq Slots \cup {Len(stack) + 1} /\ \A i \in absent : ~Captured(i)
      /\ outer \subseteq upvalues[frame.closure] /\ found \subseteq openUpvalues
      /\ c \in Closures \ DOMAIN upvalues
  BY <1>a DEF Missing
<1>d. \A u : u \in used <=> \E d \in DOMAIN upvalues : u \in upvalues[d]
  BY DEF Range
<1> HIDE DEF used, absent, new, at, found
<1>4. /\ Len(stack) \in Nat /\ frames[1].slots \in Nat /\ frames[1].slots >= 1
      /\ frames[1].slots <= frame.slots /\ frame.slots \in Nat
      /\ frame.slots <= Len(stack) /\ Floor \in Nat /\ Floor - 1 <= Len(stack)
  BY <1>1, TopFrame DEF IInv, Frame
<1>5. \A i \in absent : i \in frames[1].slots .. Len(stack) + 1 /\ i \in Nat /\ i # 0
  BY <1>0, <1>4 DEF Slots
<1>6. Known \subseteq Known' /\ c \in Known' /\ DOMAIN upvalues' = DOMAIN upvalues \cup {c}
  BY <1>0, <1>2 DEF Known, Values
<1>7. stack' \in Seq(Known') /\ Len(stack') = Len(stack) + 1
  <2>1. stack \in Seq(Known)
    BY DEF IInv, Sorts
  <2>2. stack \in Seq(Known')
    <3> HIDE DEF Known
    <3> QED BY <1>6, <2>1, SeqMono
  <2>3. c \in Known'
    BY <1>6
  <2> DEFINE K == Known'
  <2> HIDE DEF K
  <2>4. stack \in Seq(K) /\ c \in K
    BY <2>2, <2>3 DEF K
  <2>5. stack' \in Seq(K) /\ Len(stack') = Len(stack) + 1
    BY <1>0, <1>2, <2>4, SeqAppend
  <2> QED BY <2>5 DEF K
<1>8. /\ \A u \in new : u \in Upvalues /\ upvalue'[u] = [location |-> at(u), closed |-> Nil]
      /\ \A u \in new : upvalue'[u].location = at(u)
      /\ \A u \in Upvalues \ new : upvalue'[u] = upvalue[u]
  BY <1>2, <1>3 DEF Open
<1>9. upvalue' \in [Upvalues -> [location : Nat, closed : Values \cup {Nil}]]
  <2>1. ASSUME NEW u \in Upvalues
        PROVE  upvalue'[u] \in [location : Nat, closed : Values \cup {Nil}]
    <3>1. CASE u \in new
      <4>1. upvalue'[u] = [location |-> at(u), closed |-> Nil] /\ at(u) \in Nat
        BY <1>3, <1>5, <1>8, <3>1
      <4> QED BY <4>1
    <3>2. CASE u \notin new
      BY <1>8, <3>2 DEF IInv, Sorts
    <3> QED BY <3>1, <3>2
  <2> QED BY <1>0, <1>2, <2>1
<1>10. Sorts'
  BY <1>1, <1>2, <1>3, <1>6, <1>7, <1>9 DEF IInv, Sorts
<1>11. frame.closure \in DOMAIN upvalues
  BY <1>1, TopFrame DEF IInv, Own
<1>12. Captures'
  <2>1. ASSUME NEW d \in DOMAIN upvalues'
        PROVE  /\ upvalues'[d] \subseteq Upvalues
               /\ \A u \in upvalues'[d] : u \in used \/ u \in openUpvalues \/ u \in new
    <3>1. \A e \in DOMAIN upvalues : upvalues[e] \subseteq Upvalues /\ upvalues[e] \subseteq used
      BY <1>d DEF IInv, Captures
    <3>2. found \subseteq Upvalues /\ outer \subseteq upvalues[frame.closure]
      BY <1>0 DEF IInv, Sorts
    <3>3. CASE d = c
      <4>1. upvalues'[d] = outer \cup found \cup new
        BY <1>2, <3>3
      <4> QED BY <1>0, <1>3, <1>11, <3>1, <3>2, <4>1
    <3>4. CASE d # c
      <4>1. d \in DOMAIN upvalues /\ upvalues'[d] = upvalues[d]
        BY <1>2, <2>1, <3>4
      <4> QED BY <3>1, <4>1
    <3> QED BY <3>3, <3>4
  <2>2. ASSUME NEW u \in Upvalues, upvalue'[u].location = 0,
               u \in used \/ u \in openUpvalues \/ u \in new
        PROVE  upvalue'[u].closed \in Known'
    <3>1. u \notin new
      BY <1>3, <1>5, <1>8, <2>2
    <3>2. upvalue'[u] = upvalue[u]
      BY <1>8, <3>1
    <3>3. u \notin openUpvalues
      BY <2>2, <3>2 DEF IInv, Opened
    <3>4. u \in used
      BY <2>2, <3>1, <3>3
    <3>5. PICK d \in DOMAIN upvalues : u \in upvalues[d]
      BY <1>d, <3>4
    <3> QED BY <1>6, <2>2, <3>2, <3>5 DEF IInv, Captures
  <2> QED BY <2>1, <2>2 DEF Captures
<1>13. Opened'
  <2>1. \A u \in Upvalues : u \in openUpvalues' <=> upvalue'[u].location # 0
    BY <1>0, <1>2, <1>3, <1>5, <1>8 DEF IInv, Opened
  <2>2. \A u \in openUpvalues : upvalue[u].location \in frames[1].slots .. Len(stack)
                                /\ Captured(upvalue[u].location)
    BY DEF IInv, Opened, Captured
  <2>3. ASSUME NEW u \in openUpvalues'
        PROVE  /\ upvalue'[u].location \in frames[1].slots .. Len(stack')
               /\ IF u \in new THEN ~Captured(upvalue'[u].location)
                  ELSE u \in openUpvalues /\ u \in Upvalues /\ upvalue'[u] = upvalue[u]
    <3>1. CASE u \in new
      BY <1>0, <1>3, <1>5, <1>7, <1>8, <3>1
    <3>2. CASE u \notin new
      <4>1. u \in openUpvalues /\ u \in Upvalues /\ upvalue'[u] = upvalue[u]
        BY <1>2, <1>8, <3>2 DEF IInv, Sorts
      <4> QED BY <1>4, <1>7, <2>2, <3>2, <4>1
    <3> QED BY <3>1, <3>2
  <2>4. ASSUME NEW u \in openUpvalues', NEW w \in openUpvalues',
               upvalue'[u].location = upvalue'[w].location
        PROVE  u = w
    <3>1. CASE u \in new /\ w \in new
      BY <1>3, <1>8, <2>4, <3>1
    <3>2. CASE u \in new /\ w \notin new
      BY <2>2, <2>3, <2>4, <3>2
    <3>3. CASE u \notin new /\ w \in new
      BY <2>2, <2>3, <2>4, <3>3
    <3>4. CASE u \notin new /\ w \notin new
      BY <1>0, <1>2, <1>8, <2>4, <3>4 DEF IInv, Opened, Sorts
    <3> QED BY <3>1, <3>2, <3>3, <3>4
  <2> QED BY <1>1, <2>1, <2>3, <2>4 DEF Opened
<1>14. DOMAIN upvalues \subseteq DOMAIN upvalues'
  BY <1>6
<1> QED BY <1>1, <1>10, <1>12, <1>13, <1>14, SameFrames

-----------------------------------------------------------------------------
(* Calls.                                                                  *)

\* The k lowest frames, and one above them, in the place of frame k + 1 if there is one.
LEMMA Lowest ==
    ASSUME Sorts, frames # <<>>, NEW k \in 0 .. Len(frames), NEW f \in Frame,
           k < Len(frames) => f.slots = frames[k + 1].slots,
           frames' = Append(SubSeq(frames, 1, k), f)
    PROVE  /\ frames' \in Seq(Frame) /\ frames' # <<>> /\ frames'[1].slots = frames[1].slots
           /\ \A i \in DOMAIN frames' :
                 frames'[i].closure = f.closure \/ \E j \in DOMAIN frames : frames'[i] = frames[j]
<1> DEFINE under == SubSeq(frames, 1, k)
<1>1. /\ Len(frames) \in Nat /\ Len(frames) >= 1 /\ DOMAIN frames = 1 .. Len(frames)
      /\ frames \in Seq(Frame)
  BY SeqEnds DEF Sorts
<1>2. k \in Nat /\ k <= Len(frames) /\ \A i \in 1 .. k : i \in DOMAIN frames
  BY <1>1
<1>3. under \in Seq(Frame) /\ Len(under) = k /\ \A i \in 1 .. k : under[i] = frames[i]
  BY <1>1, <1>2, SeqPrefix
<1>4. frames' = Append(under, f)
  OBVIOUS
<1> HIDE DEF under
<1>5. /\ frames' \in Seq(Frame) /\ Len(frames') = k + 1 /\ DOMAIN frames' = 1 .. k + 1
      /\ frames'[k + 1] = f /\ \A i \in 1 .. k : frames'[i] = frames[i]
  BY <1>3, <1>4, SeqAppend
<1>6. frames' # <<>>
  <2>1. Len(frames') # 0
    BY <1>2, <1>5
  <2> QED BY <2>1
<1>7. frames'[1].slots = frames[1].slots
  <2>1. CASE k = 0
    <3>1. f.slots = frames[1].slots /\ frames'[1] = f
      BY <1>1, <1>5, <2>1
    <3> QED BY <3>1
  <2>2. CASE k # 0
    <3>1. 1 \in 1 .. k
      BY <1>2, <2>2
    <3> QED BY <1>5, <3>1
  <2> QED BY <2>1, <2>2
<1>8. ASSUME NEW i \in DOMAIN frames'
      PROVE  frames'[i].closure = f.closure \/ \E j \in DOMAIN frames : frames'[i] = frames[j]
  <2>1. i = k + 1 \/ i \in 1 .. k
    BY <1>2, <1>5
  <2> QED BY <1>2, <1>5, <2>1
<1> QED BY <1>5, <1>6, <1>7, <1>8

\* A step that leaves the k lowest frames, and one above them.
LEMMA OverStep ==
    ASSUME IInv, Laid', frames # <<>>, UNCHANGED <<upvalues, program>>, global' \in Known,
           stack' \in Seq(Known),
           NEW k \in 0 .. Len(frames), NEW f \in Frame, f.closure \in DOMAIN upvalues,
           k < Len(frames) => f.slots = frames[k + 1].slots,
           frames' = Append(SubSeq(frames, 1, k), f),
           upvalue' \in [Upvalues -> [location : Nat, closed : Values \cup {Nil}]],
           openUpvalues' \subseteq openUpvalues,
           \A u \in openUpvalues' :
              upvalue'[u] = upvalue[u] /\ upvalue[u].location <= Len(stack'),
           \A u \in Upvalues : u \in openUpvalues' <=> upvalue'[u].location # 0,
           \A c \in DOMAIN upvalues : \A u \in upvalues[c] :
              upvalue'[u].location = 0 => upvalue'[u].closed \in Known
    PROVE  IInv'
<1>1. /\ frames' # <<>> /\ frames'[1].slots = frames[1].slots
      /\ \A i \in DOMAIN frames' :
            frames'[i].closure = f.closure \/ \E j \in DOMAIN frames : frames'[i] = frames[j]
  BY Lowest DEF IInv
<1>2. Sorts'
  BY DEF Laid, Recorded, IInv, Sorts, Known
<1>3. Captures'
  BY DEF IInv, Captures, Known
<1>4. Opened'
  <2>1. ASSUME NEW u \in openUpvalues'
        PROVE  frames' # <<>> /\ upvalue'[u].location \in frames'[1].slots .. Len(stack')
    <3>1. upvalue[u].location \in Nat /\ frames[1].slots <= upvalue[u].location
      BY TopFrame DEF IInv, Opened
    <3>2. frames[1].slots \in Nat /\ Len(stack') \in Nat
      BY <1>2, TopFrame DEF IInv, Sorts
    <3>3. upvalue'[u].location = upvalue[u].location /\ upvalue[u].location <= Len(stack')
      OBVIOUS
    <3> DEFINE at == upvalue[u].location
               low == frames[1].slots
               top == Len(stack')
    <3>4. at \in Nat /\ low \in Nat /\ top \in Nat /\ low <= at /\ at <= top
      BY <3>1, <3>2, <3>3
    <3> HIDE DEF at, low, top
    <3>5. at \in low .. top
      BY <3>4
    <3> QED BY <1>1, <3>3, <3>5 DEF at, low, top
  <2>2. \A u, w \in openUpvalues' : upvalue'[u].location = upvalue'[w].location => u = w
    BY DEF IInv, Opened
  <2> QED BY <2>1, <2>2 DEF Opened
<1>5. \A i \in DOMAIN frames' : frames'[i].closure \in DOMAIN upvalues'
  BY <1>1 DEF IInv, Own
<1> QED BY <1>2, <1>3, <1>4, <1>5, Rest

\* Upvalues that stay as they are.
LEMMA SameUpvalues ==
    ASSUME IInv, UNCHANGED <<upvalue, openUpvalues>>
    PROVE  /\ upvalue' \in [Upvalues -> [location : Nat, closed : Values \cup {Nil}]]
           /\ openUpvalues' \subseteq openUpvalues
           /\ \A u \in openUpvalues' : upvalue'[u] = upvalue[u]
           /\ \A u \in Upvalues : u \in openUpvalues' <=> upvalue'[u].location # 0
           /\ \A c \in DOMAIN upvalues : \A u \in upvalues[c] :
                 upvalue'[u].location = 0 => upvalue'[u].closed \in Known
BY DEF IInv, Sorts, Captures, Opened

\* A new frame, above the ones there are.
LEMMA EnterStep ==
    ASSUME "error_over_captured" \notin Exercised, IInv, Laid', frames # <<>>,
           UNCHANGED <<upvalues, global, program>>,
           NEW s \in Seq(Known), NEW c \in DOMAIN upvalues, NEW n \in Nat, Enter(s, c, n),
           Len(s) - n >= Floor, \A u \in openUpvalues : upvalue[u].location <= Len(s)
    PROVE  IInv'
<1> DEFINE new == [closure |-> c, ip |-> Ready(c), slots |-> Len(s) - n]
<1>1. CASE Reset
  BY <1>1, ResetStep
<1>2. CASE /\ stack' = s /\ frames' = Append(frames, new) /\ UNCHANGED <<upvalue, openUpvalues>>
  <2>1. /\ Len(frames) \in Nat /\ frames \in Seq(Frame) /\ Floor \in Nat /\ Floor >= 1
        /\ Len(s) \in Nat
    BY TopFrame, SMTT(30) DEF IInv, Sorts, Frame
  <2>2. new \in Frame /\ new.closure = c
    <3>1. Len(s) - n \in Nat \ {0} /\ c \in Closures
      BY <2>1 DEF IInv, Sorts
    <3> QED BY <3>1 DEF Frame, Ip, Ready
  <2> HIDE DEF new
  <2>3. Len(frames) \in 0 .. Len(frames) /\ frames' = Append(SubSeq(frames, 1, Len(frames)), new)
        /\ ~(Len(frames) < Len(frames))
    BY <1>2, <2>1
  <2>4. global' \in Known
    BY DEF IInv, Sorts
  <2> HIDE DEF Known
  <2> QED BY <1>2, <2>2, <2>3, <2>4, SameUpvalues, OverStep
<1> QED BY <1>1, <1>2 DEF Enter, Same

LEMMA Distinct == Built # Bound
<1>1. SUFFICES ASSUME Built = Bound PROVE FALSE
  OBVIOUS
<1>2. {Native, Plain, Built, Instance, Bound} = (({Native} \cup {Plain}) \cup {Built}) \cup {Instance}
  BY <1>1
<1>3. IsFiniteSet({Native}) /\ Cardinality({Native}) = 1
  BY FS_Singleton
<1>4. IsFiniteSet({Native} \cup {Plain}) /\ Cardinality({Native} \cup {Plain}) \in 1 .. 2
  BY <1>3, FS_AddElement
<1>5. /\ IsFiniteSet(({Native} \cup {Plain}) \cup {Built})
      /\ Cardinality(({Native} \cup {Plain}) \cup {Built}) \in 1 .. 3
  BY <1>4, FS_AddElement
<1>6. Cardinality((({Native} \cup {Plain}) \cup {Built}) \cup {Instance}) \in 1 .. 4
  BY <1>5, FS_AddElement
<1> QED BY <1>2, <1>6, ValuesAssumption

\* What is called was made, and what goes into slot 0 is a value.
LEMMA Targets ==
    ASSUME Sorts, NEW v \in Known, NEW t \in Target(v)
    PROVE  t.code \in DOMAIN upvalues /\ t.self \in Known
<1>1. Instance \in Known
  BY ValuesAssumption DEF Known, Values
<1>2. CASE v \in Closures
  <2>1. t = [code |-> v, self |-> v]
    <3>1. v # Bound /\ v # Built
      BY <1>2, ValuesAssumption
    <3> QED BY <1>2, <3>1 DEF Target
  <2>2. v \in DOMAIN upvalues
    BY <1>2 DEF Known
  <2> QED BY <2>1, <2>2
<1>3. CASE v \notin Closures /\ v = Bound
  <2>1. t = [code |-> Method, self |-> Instance]
    <3>1. v # Built
      BY <1>3, Distinct
    <3> QED BY <1>3, <3>1 DEF Target
  <2> QED BY <1>1, <2>1 DEF Sorts
<1>4. CASE v \notin Closures /\ v # Bound
  <2>1. t = [code |-> Initializer, self |-> Instance]
    BY <1>4 DEF Target
  <2> QED BY <1>1, <2>1 DEF Sorts
<1> QED BY <1>2, <1>3, <1>4

LEMMA Results ==
    ASSUME NEW v, NEW n, NEW r \in Answers(v, n)
    PROVE  r \in Known
<1>1. Instance \in Known /\ Data \subseteq Known
  BY ValuesAssumption DEF Known, Values
<1>2. r \in Data \/ r = Instance
  BY DEF Answers
<1> QED BY <1>1, <1>2

LEMMA CallStep ==
    ASSUME Exercised \subseteq {"tail_initializer"} PROVE IInv /\ Laid' /\ OpCall => IInv'
<1> SUFFICES ASSUME IInv, Laid', OpCall PROVE IInv'
  OBVIOUS
<1>1. frames # <<>> /\ UNCHANGED <<upvalues, global, program>>
  BY Runs DEF OpCall
<1>t. ~Strays /\ "error_over_captured" \notin Exercised
  BY DEF Strays
<1>2. PICK n \in 0 .. MaxArgs :
        /\ Operands(n + 1)
        /\ \/ \E t \in Target(Peek(n)) : Enter([stack EXCEPT ![Len(stack) - n] = t.self], t.code, n)
           \/ /\ \E v \in Answers(Peek(n), n) : stack' = Append(Drop(n + 1), v)
              /\ Same /\ UNCHANGED frames
           \/ Reset
  BY DEF OpCall
<1>3. n \in Nat
  BY BoundsAssumption
<1>4. /\ Len(stack) - n - 1 >= Floor - 1 /\ Peek(n) \in Known
      /\ \A u \in openUpvalues : upvalue[u].location <= Len(stack) - n - 1
  <2> HIDE DEF Known
  <2>1. n \in 0 .. n
    BY <1>3
  <2> QED BY <1>t, <1>1, <1>2, <1>3, <2>1, TopOperand
<1>5. /\ Len(stack) \in Nat /\ stack \in Seq(Known) /\ Floor \in Nat /\ Floor >= 2
      /\ \A u \in openUpvalues : upvalue[u].location \in Nat
  <2>1. frame.slots \in Nat /\ frame.slots >= 1
    BY <1>1, TopFrame DEF IInv, Frame
  <2> QED BY <1>1, <2>1, TopFrame DEF IInv, Sorts
<1>6. ASSUME NEW t \in Target(Peek(n)), Enter([stack EXCEPT ![Len(stack) - n] = t.self], t.code, n)
      PROVE  IInv'
  <2> DEFINE s == [stack EXCEPT ![Len(stack) - n] = t.self]
  <2>1. t.code \in DOMAIN upvalues /\ t.self \in Known
    BY <1>4, <1>6, Targets DEF IInv
  <2>2. Len(stack) - n \in 1 .. Len(stack)
    BY <1>3, <1>4, <1>5
  <2>3. s \in Seq(Known) /\ Len(s) = Len(stack)
    <3> HIDE DEF Known
    <3> QED BY <1>5, <2>1, <2>2, SeqExcept
  <2>4. Enter(s, t.code, n)
    BY <1>6
  <2> HIDE DEF s
  <2>5. Len(s) - n >= Floor /\ \A u \in openUpvalues : upvalue[u].location <= Len(s)
    BY <1>3, <1>4, <1>5, <2>3
  <2> HIDE DEF Known
  <2> QED BY <1>t, <1>1, <1>3, <2>1, <2>3, <2>4, <2>5, EnterStep
<1>7. ASSUME NEW v \in Answers(Peek(n), n), stack' = Append(Drop(n + 1), v), Same, UNCHANGED frames
      PROVE  IInv'
  <2>1. v \in Known
    BY <1>7, Results
  <2>2. n + 1 \in Nat /\ n + 1 <= Len(stack)
    BY <1>3, <1>4, <1>5
  <2>3. Drop(n + 1) \in Seq(Known) /\ Len(Drop(n + 1)) = Len(stack) - (n + 1)
    BY <2>2, Dropped DEF IInv
  <2>4. stack' \in Seq(Known) /\ Len(stack') = Len(stack) - n
    <3> HIDE DEF Known
    <3>1. Len(stack') = Len(Drop(n + 1)) + 1
      BY <1>7, <2>1, <2>3, SeqAppend
    <3> QED BY <1>3, <1>5, <1>7, <2>1, <2>3, <3>1, SeqAppend
  <2>5. \A u \in openUpvalues : upvalue[u].location <= Len(stack')
    BY <1>3, <1>4, <1>5, <2>4
  <2>6. global' \in Known /\ UNCHANGED <<frames, handlers, upvalue, openUpvalues, upvalues, program>>
    BY <1>1, <1>7 DEF Same, IInv, Sorts
  <2> QED BY <2>4, <2>5, <2>6, StackStep
<1>8. CASE Reset
  BY <1>t, <1>1, <1>8, ResetStep
<1> QED BY <1>2, <1>6, <1>7, <1>8

LEMMA SuperInvokeStep ==
    ASSUME Exercised \subseteq {"tail_initializer"} PROVE IInv /\ Laid' /\ OpSuperInvoke => IInv'
<1> SUFFICES ASSUME IInv, Laid', OpSuperInvoke PROVE IInv'
  OBVIOUS
<1>1. frames # <<>> /\ UNCHANGED <<upvalues, global, program>>
  BY Runs DEF OpSuperInvoke
<1>t. ~Strays /\ "error_over_captured" \notin Exercised
  BY DEF Strays
<1>2. PICK n \in 0 .. MaxArgs : Operands(n + 2) /\ Enter(Drop(1), Method, n)
  BY DEF OpSuperInvoke
<1>3. n \in Nat
  BY BoundsAssumption
<1>4. /\ Len(stack) - (n + 2) >= Floor - 1
      /\ \A u \in openUpvalues : upvalue[u].location <= Len(stack) - (n + 2)
  BY <1>t, <1>1, <1>2, <1>3, Uncaptured DEF IInv
<1>5. /\ Len(stack) \in Nat /\ Floor \in Nat /\ Floor >= 2
      /\ \A u \in openUpvalues : upvalue[u].location \in Nat
  <2>1. frame.slots \in Nat /\ frame.slots >= 1
    BY <1>1, TopFrame DEF IInv, Frame
  <2> QED BY <1>1, <2>1, TopFrame DEF IInv, Sorts
<1>6. Drop(1) \in Seq(Known) /\ Len(Drop(1)) = Len(stack) - 1
  BY <1>3, <1>4, <1>5, Dropped DEF IInv
<1>7. Len(Drop(1)) - n >= Floor /\ \A u \in openUpvalues : upvalue[u].location <= Len(Drop(1))
  BY <1>3, <1>4, <1>5, <1>6
<1>8. Method \in DOMAIN upvalues
  BY DEF IInv, Sorts
<1> HIDE DEF Known
<1> QED BY <1>t, <1>1, <1>2, <1>3, <1>6, <1>7, <1>8, EnterStep

-----------------------------------------------------------------------------
(* Returns and tail calls.                                                 *)

\* The slots under the running frame.
LEMMA UnderSlots ==
    ASSUME IInv, frames # <<>>, NEW low, low = SubSeq(stack, 1, frame.slots - 1)
    PROVE  low \in Seq(Known) /\ Len(low) = frame.slots - 1
<1>1. frame.slots - 1 \in Nat /\ frame.slots - 1 <= Len(stack) /\ stack \in Seq(Known)
  <2>1. /\ Len(stack) \in Nat /\ Floor \in Nat /\ frame.slots + 1 <= Floor /\ Floor - 1 <= Len(stack)
        /\ frame.slots \in Nat /\ frame.slots >= 1
    BY TopFrame DEF IInv, Frame
  <2> QED BY <2>1 DEF IInv, Sorts
<1> HIDE DEF Known
<1> QED BY <1>1, SeqPrefix

\* What vm_close_upvalues leaves open from the first slot of the frame.
LEMMA ClosesFrame ==
    ASSUME IInv, frames # <<>>, CloseUpvalues(frame.slots), UNCHANGED upvalues
    PROVE  /\ upvalue' \in [Upvalues -> [location : Nat, closed : Values \cup {Nil}]]
           /\ openUpvalues' \subseteq openUpvalues
           /\ \A u \in openUpvalues' : upvalue'[u] = upvalue[u] /\ upvalue[u].location < frame.slots
           /\ \A u \in Upvalues : u \in openUpvalues' <=> upvalue'[u].location # 0
           /\ \A c \in DOMAIN upvalues : \A u \in upvalues[c] :
                 upvalue'[u].location = 0 => upvalue'[u].closed \in Known
<1>1. frame.slots \in Nat /\ Known \subseteq Known'
  BY TopFrame DEF IInv, Frame, Known
<1> QED BY <1>1, Closes DEF IInv

LEMMA LeaveStep ==
    ASSUME IInv, Laid', frames # <<>>, Len(stack) >= Floor,
           NEW result \in Known, Leave(result), UNCHANGED <<upvalues, global, program>>
    PROVE  IInv'
<1>1. /\ CloseUpvalues(frame.slots) /\ frames' = SubSeq(frames, 1, Len(frames) - 1)
      /\ stack' = IF Len(frames) = 1 THEN Drop(2)
                  ELSE Append(SubSeq(stack, 1, frame.slots - 1), result)
      /\ UNCHANGED <<handlers, upvalues, global, program>>
  BY DEF Leave, Front
<1>2. /\ Len(frames) \in Nat /\ Len(frames) >= 1 /\ frame = frames[Len(frames)]
      /\ Len(stack) \in Nat /\ Floor \in Nat /\ frame.slots + 1 <= Floor
      /\ frame.slots \in Nat /\ frame.slots >= 1
      /\ frames[1].slots \in Nat /\ frames[1].slots <= frame.slots /\ frames \in Seq(Frame)
      /\ DOMAIN frames = 1 .. Len(frames)
  BY TopFrame DEF IInv, Sorts, Frame
<1>3. /\ frames' \in Seq(Frame) /\ Len(frames') = Len(frames) - 1
      /\ DOMAIN frames' = 1 .. Len(frames) - 1
      /\ \A i \in 1 .. Len(frames) - 1 : frames'[i] = frames[i] /\ i \in DOMAIN frames
  <2>1. Len(frames) - 1 \in Nat /\ Len(frames) - 1 <= Len(frames)
    BY <1>2
  <2> QED BY <1>1, <1>2, <2>1, SeqPrefix
<1>4. /\ upvalue' \in [Upvalues -> [location : Nat, closed : Values \cup {Nil}]]
      /\ openUpvalues' \subseteq openUpvalues
      /\ \A u \in openUpvalues' : upvalue'[u] = upvalue[u] /\ upvalue[u].location < frame.slots
      /\ \A u \in Upvalues : u \in openUpvalues' <=> upvalue'[u].location # 0
      /\ \A c \in DOMAIN upvalues : \A u \in upvalues[c] :
            upvalue'[u].location = 0 => upvalue'[u].closed \in Known
  BY <1>1, ClosesFrame
<1>5. stack' \in Seq(Known) /\ (Len(frames) # 1 => Len(stack') = frame.slots)
  <2>1. CASE Len(frames) = 1
    <3>1. 2 \in Nat /\ 2 <= Len(stack)
      BY <1>2
    <3> QED BY <1>1, <2>1, <3>1, Dropped DEF IInv
  <2>2. CASE Len(frames) # 1
    <3> DEFINE low == SubSeq(stack, 1, frame.slots - 1)
    <3>1. low \in Seq(Known) /\ Len(low) = frame.slots - 1 /\ stack' = Append(low, result)
      <4> HIDE DEF Known
      <4> QED BY <1>1, <2>2, UnderSlots
    <3> HIDE DEF low, Known
    <3> QED BY <1>2, <3>1, SeqAppend
  <2> QED BY <2>1, <2>2
<1>6. Sorts' /\ Captures'
  BY <1>1, <1>3, <1>4, <1>5 DEF IInv, Sorts, Captures, Known
<1>7. Opened'
  <2>1. \A u \in openUpvalues' :
          upvalue[u].location \in Nat /\ frames[1].slots <= upvalue[u].location
    BY <1>2, <1>4 DEF IInv, Opened
  <2>2. ASSUME NEW u \in openUpvalues'
        PROVE  frames' # <<>> /\ upvalue'[u].location \in frames'[1].slots .. Len(stack')
    <3>1. Len(frames) # 1
      BY <1>2, <1>4, <2>1
    <3>2. frames'[1] = frames[1] /\ Len(frames') # 0 /\ Len(stack') = frame.slots
      <4>1. 1 \in 1 .. Len(frames) - 1 /\ Len(frames) - 1 # 0
        BY <1>2, <3>1
      <4> QED BY <1>3, <1>5, <3>1, <4>1
    <3>3. frames' # <<>>
      BY <3>2
    <3> QED BY <1>2, <1>4, <2>1, <3>2, <3>3
  <2>3. \A u, w \in openUpvalues' : upvalue'[u].location = upvalue'[w].location => u = w
    BY <1>4 DEF IInv, Opened
  <2> QED BY <1>4, <2>2, <2>3 DEF Opened
<1>8. \A i \in DOMAIN frames' : frames'[i].closure \in DOMAIN upvalues'
  BY <1>1, <1>3 DEF IInv, Own
<1> QED BY <1>6, <1>7, <1>8, Rest

LEMMA ReturnStep ==
    ASSUME Exercised \subseteq {"tail_initializer"} PROVE IInv /\ Laid' /\ OpReturn => IInv'
<1> SUFFICES ASSUME IInv, Laid', OpReturn PROVE IInv'
  OBVIOUS
<1>1. frames # <<>> /\ Operands(0 + 1) /\ Leave(Peek(0)) /\ ~Strays
  BY Runs DEF OpReturn, Strays
<1>2. Len(stack) - 0 - 1 >= Floor - 1 /\ \A i \in 0 .. 0 : Peek(i) \in Known
  <2> HIDE DEF Known
  <2> QED BY <1>1, TopOperand
<1>3. Peek(0) \in Known
  BY <1>2
<1>4. Len(stack) >= Floor
  BY <1>1, <1>2, TopFrame DEF IInv
<1> QED BY <1>1, <1>3, <1>4, LeaveStep DEF OpReturn

\* OP_TAIL_CALL on a closure: the frame changes hands.
LEMMA ReuseStep ==
    ASSUME "error_over_captured" \notin Exercised, IInv, Laid', frames # <<>>,
           NEW c \in DOMAIN upvalues,
           NEW self \in Known, NEW n \in Nat, Len(stack) - n >= Floor, Reuse(c, self, n),
           UNCHANGED <<upvalues, global, program>>
    PROVE  IInv'
<1>1. CASE Reset
  BY <1>1, ResetStep
<1>2. CASE /\ CloseUpvalues(frame.slots)
           /\ stack' = SubSeq(stack, 1, frame.slots - 1)
                          \o Arguments(n, [stack EXCEPT ![Len(stack) - n] = self])
           /\ frames' = [frames EXCEPT ![Len(frames)] =
                            [closure |-> c, ip |-> Ready(c), slots |-> @.slots]]
  <2>1. /\ Len(frames) \in Nat /\ Len(frames) >= 1 /\ frame = frames[Len(frames)]
        /\ Len(stack) \in Nat /\ stack \in Seq(Known) /\ Floor \in Nat /\ frame.slots + 1 <= Floor
        /\ frame \in Frame /\ frame.slots \in Nat /\ frame.slots >= 1 /\ frames \in Seq(Frame)
        /\ DOMAIN frames = 1 .. Len(frames)
    BY TopFrame DEF IInv, Sorts, Frame
  <2> DEFINE f == [closure |-> c, ip |-> Ready(c), slots |-> frame.slots]
             k == Len(frames) - 1
             s == [stack EXCEPT ![Len(stack) - n] = self]
             low == SubSeq(stack, 1, frame.slots - 1)
  <2>2. f \in Frame /\ f.closure = c /\ f.slots = frame.slots
    BY <2>1 DEF Frame, Ip, Ready, IInv, Sorts
  <2>3. frames' = Append(SubSeq(frames, 1, Len(frames) - 1), f)
    <3>1. frames' = [frames EXCEPT ![Len(frames)] = f]
      BY <1>2, <2>1
    <3> HIDE DEF f
    <3> QED BY <2>1, <2>2, <3>1, SeqTop
  <2>4. stack' = low \o SubSeq(s, Len(s) - n, Len(s))
    BY <1>2 DEF Arguments
  <2>5. s \in Seq(Known) /\ Len(s) = Len(stack) /\ n < Len(s)
    <3>1. Len(stack) - n \in 1 .. Len(stack) /\ n < Len(stack)
      BY <2>1
    <3> HIDE DEF Known
    <3> QED BY <2>1, <3>1, SeqExcept
  <2>6. low \in Seq(Known) /\ Len(low) = frame.slots - 1
    <3> HIDE DEF Known
    <3> QED BY UnderSlots
  <2> HIDE DEF f, s, low
  <2>7. stack' \in Seq(Known) /\ Len(stack') = frame.slots + n
    <3> HIDE DEF Known
    <3>1. stack' \in Seq(Known) /\ Len(stack') = Len(low) + n + 1
      BY <2>4, <2>5, <2>6, SeqMove
    <3> QED BY <2>1, <2>6, <3>1, SMTT(30)
  <2>8. k \in 0 .. Len(frames) /\ f.slots = frames[k + 1].slots
    BY <2>1, <2>2
  <2>9. /\ upvalue' \in [Upvalues -> [location : Nat, closed : Values \cup {Nil}]]
        /\ openUpvalues' \subseteq openUpvalues
        /\ \A u \in openUpvalues' : upvalue'[u] = upvalue[u] /\ upvalue[u].location < frame.slots
        /\ \A u \in Upvalues : u \in openUpvalues' <=> upvalue'[u].location # 0
        /\ \A d \in DOMAIN upvalues : \A u \in upvalues[d] :
              upvalue'[u].location = 0 => upvalue'[u].closed \in Known
    BY <1>2, ClosesFrame
  <2>10. \A u \in openUpvalues' : upvalue[u].location <= Len(stack')
    <3>1. \A u \in openUpvalues' : upvalue[u].location \in Nat /\ upvalue[u].location < frame.slots
      BY <2>9 DEF IInv, Sorts
    <3> QED BY <2>1, <2>7, <3>1
  <2>11. global' \in Known
    BY DEF IInv, Sorts
  <2>12. frames' = Append(SubSeq(frames, 1, k), f)
    BY <2>3
  <2> HIDE DEF k, Known
  <2> QED BY <2>2, <2>7, <2>8, <2>9, <2>10, <2>11, <2>12, OverStep
<1> QED BY <1>1, <1>2 DEF Reuse

\* OP_TAIL_CALL on a class with an initializer: the frame stays, its upvalues are closed.
LEMMA LoseStep ==
    ASSUME "error_over_captured" \notin Exercised, IInv, Laid', frames # <<>>,
           NEW n \in Nat, LoseInitializer(n), Peek(0) \in Known,
           UNCHANGED <<upvalues, global, program>>
    PROVE  IInv'
<1>1. CASE Reset
  BY <1>1, ResetStep
<1>2. ASSUME NEW v \in Known, CloseUpvalues(frame.slots), UNCHANGED frames,
             stack' = Append(SubSeq(stack, 1, frame.slots - 1), v)
      PROVE  IInv'
  <2> DEFINE low == SubSeq(stack, 1, frame.slots - 1)
  <2>1. low \in Seq(Known) /\ Len(low) = frame.slots - 1 /\ stack' = Append(low, v)
    <3> HIDE DEF Known
    <3> QED BY <1>2, UnderSlots
  <2> HIDE DEF low
  <2>2. frame.slots \in Nat /\ frames[1].slots \in Nat
    BY TopFrame DEF IInv, Frame
  <2>3. stack' \in Seq(Known) /\ Len(stack') = frame.slots
    <3> HIDE DEF Known
    <3> QED BY <2>1, <2>2, SeqAppend
  <2>4. /\ upvalue' \in [Upvalues -> [location : Nat, closed : Values \cup {Nil}]]
        /\ openUpvalues' \subseteq openUpvalues
        /\ \A u \in openUpvalues' : upvalue'[u] = upvalue[u] /\ upvalue[u].location < frame.slots
        /\ \A u \in Upvalues : u \in openUpvalues' <=> upvalue'[u].location # 0
        /\ \A d \in DOMAIN upvalues : \A u \in upvalues[d] :
              upvalue'[u].location = 0 => upvalue'[u].closed \in Known
    BY <1>2, ClosesFrame
  <2>5. Sorts' /\ Captures'
    BY <1>2, <2>3, <2>4 DEF Laid, Recorded, IInv, Sorts, Captures, Known
  <2>6. Opened'
    <3>1. ASSUME NEW u \in openUpvalues'
          PROVE  frames' # <<>> /\ upvalue'[u].location \in frames'[1].slots .. Len(stack')
      <4>1. upvalue[u].location \in Nat /\ frames[1].slots <= upvalue[u].location
            /\ upvalue[u].location < frame.slots /\ upvalue'[u].location = upvalue[u].location
        BY <2>2, <2>4 DEF IInv, Opened
      <4> QED BY <1>2, <2>2, <2>3, <4>1
    <3>2. \A u, w \in openUpvalues' : upvalue'[u].location = upvalue'[w].location => u = w
      BY <2>4 DEF IInv, Opened
    <3> QED BY <2>4, <3>1, <3>2 DEF Opened
  <2> QED BY <1>2, <2>5, <2>6, SameFrames
<1>3. Instance \in Known
  BY ValuesAssumption DEF Known, Values
<1> QED BY <1>1, <1>2, <1>3 DEF LoseInitializer

LEMMA TailCallStep ==
    ASSUME Exercised \subseteq {"tail_initializer"} PROVE IInv /\ Laid' /\ OpTailCall => IInv'
<1> SUFFICES ASSUME IInv, Laid', OpTailCall PROVE IInv'
  OBVIOUS
<1>1. /\ frames # <<>> /\ UNCHANGED <<upvalues, global, program>>
      /\ ~Strays /\ "error_over_captured" \notin Exercised
  BY Runs DEF OpTailCall, Strays
<1>2. PICK n \in 0 .. MaxArgs :
        /\ Operands(n + 1)
        /\ \/ \E t \in Target(Peek(n)) : Reuse(t.code, t.self, n)
           \/ LoseInitializer(n)
           \/ \E v \in Answers(Peek(n), n) : Leave(v)
           \/ Reset
  BY DEF OpTailCall
<1>3. n \in Nat
  BY BoundsAssumption
<1>4. Len(stack) - n - 1 >= Floor - 1 /\ Peek(n) \in Known /\ Peek(0) \in Known
  <2> HIDE DEF Known
  <2>1. n \in 0 .. n /\ 0 \in 0 .. n
    BY <1>3
  <2> QED BY <1>1, <1>2, <1>3, <2>1, TopOperand
<1>5. Len(stack) - n >= Floor /\ Len(stack) >= Floor
  BY <1>1, <1>3, <1>4, TopFrame DEF IInv
<1>6. ASSUME NEW t \in Target(Peek(n)), Reuse(t.code, t.self, n) PROVE IInv'
  <2>1. t.code \in DOMAIN upvalues /\ t.self \in Known
    BY <1>4, Targets DEF IInv
  <2> QED BY <1>1, <1>3, <1>5, <1>6, <2>1, ReuseStep
<1>7. ASSUME NEW v \in Answers(Peek(n), n), Leave(v) PROVE IInv'
  <2>1. v \in Known
    BY Results
  <2> QED BY <1>1, <1>5, <1>7, <2>1, LeaveStep
<1>8. CASE Reset
  BY <1>1, <1>8, ResetStep
<1>9. CASE LoseInitializer(n)
  BY <1>1, <1>3, <1>4, <1>9, LoseStep
<1> QED BY <1>2, <1>6, <1>7, <1>8, <1>9

-----------------------------------------------------------------------------
(* Exceptions.                                                             *)

\* The running frame enters or leaves a try block.
LEMMA TriesStep ==
    ASSUME IInv, Laid', frames # <<>>, NEW t, frames' = [frames EXCEPT ![Len(frames)].ip.tries = t],
           UNCHANGED <<stack, upvalue, openUpvalues, upvalues, global, program>>
    PROVE  IInv'
<1>1. /\ Len(frames) \in Nat /\ Len(frames) >= 1 /\ DOMAIN frames = 1 .. Len(frames)
      /\ frame = frames[Len(frames)] /\ frame \in Frame
  BY TopFrame DEF IInv
<1> DEFINE g == [closure |-> frame.closure, ip |-> [code |-> frame.ip.code, tries |-> t],
                 slots |-> frame.slots]
<1>2. frames' = [frames EXCEPT ![Len(frames)] = g]
  <2>1. g = [frame EXCEPT !.ip.tries = t]
    BY <1>1, FrameUpdate
  <2>2. frames' = [frames EXCEPT ![Len(frames)] = [frame EXCEPT !.ip.tries = t]]
    BY <1>1
  <2> HIDE DEF g
  <2> QED BY <2>1, <2>2
<1>3. g.closure = frame.closure /\ g.slots = frame.slots
  OBVIOUS
<1> HIDE DEF g
<1>4. DOMAIN frames' = DOMAIN frames /\ frames' # <<>>
      /\ \A i \in DOMAIN frames : frames'[i] = IF i = Len(frames) THEN g ELSE frames[i]
  <2>1. /\ DOMAIN frames' = DOMAIN frames
        /\ \A i \in DOMAIN frames : frames'[i] = IF i = Len(frames) THEN g ELSE frames[i]
    BY <1>1, <1>2
  <2>2. 1 \in DOMAIN frames'
    BY <1>1, <2>1
  <2> QED BY <2>1, <2>2
<1>5. \A i \in DOMAIN frames :
         frames'[i].closure = frames[i].closure /\ frames'[i].slots = frames[i].slots
  BY <1>1, <1>3, <1>4
<1>6. Sorts' /\ Captures'
  BY DEF Laid, Recorded, IInv, Sorts, Captures, Known
<1>7. Opened'
  <2>1. frames'[1].slots = frames[1].slots
    <3>1. 1 \in DOMAIN frames
      BY <1>1
    <3> QED BY <1>5, <3>1
  <2> QED BY <1>4, <2>1 DEF IInv, Opened
<1>8. \A i \in DOMAIN frames' : frames'[i].closure \in DOMAIN upvalues'
  BY <1>4, <1>5 DEF IInv, Own
<1> QED BY <1>6, <1>7, <1>8, Rest

LEMMA TryStep ==
    ASSUME "error_over_captured" \notin Exercised PROVE IInv /\ Laid' /\ OpTry => IInv'
<1> SUFFICES ASSUME IInv, Laid', OpTry PROVE IInv'
  OBVIOUS
<1>1. frames # <<>> /\ UNCHANGED <<upvalues, global, program>>
  BY Runs DEF OpTry
<1>2. CASE Reset
  BY <1>1, <1>2, ResetStep
<1>3. ASSUME NEW t, frames' = [frames EXCEPT ![Len(frames)].ip.tries = t],
             UNCHANGED <<stack, upvalue, openUpvalues>>
      PROVE  IInv'
  BY <1>1, <1>3, TriesStep
<1> QED BY <1>2, <1>3 DEF OpTry

LEMMA TryEndStep == IInv /\ Laid' /\ OpTryEnd => IInv'
<1> SUFFICES ASSUME IInv, Laid', OpTryEnd PROVE IInv'
  OBVIOUS
<1>1. /\ frames # <<>> /\ UNCHANGED <<stack, upvalue, openUpvalues, upvalues, global, program>>
      /\ \E t : frames' = [frames EXCEPT ![Len(frames)].ip.tries = t]
  BY Runs DEF OpTryEnd
<1> QED BY <1>1, TriesStep

LEMMA ThrowStep ==
    ASSUME Exercised \subseteq {"tail_initializer"} PROVE IInv /\ Laid' /\ OpThrow => IInv'
<1> SUFFICES ASSUME IInv, Laid', OpThrow PROVE IInv'
  OBVIOUS
<1> DEFINE h == Last(handlers)
           left == Unwound(h)
           top == h.stackTop
<1>1. /\ frames # <<>> /\ Operands(0 + 1) /\ UNCHANGED <<upvalues, global, program>>
      /\ ~Strays /\ "error_over_captured" \notin Exercised
  BY Runs DEF OpThrow, Strays
<1>2. CASE Reset
  BY <1>1, <1>2, ResetStep
<1>3. CASE /\ handlers # <<>> /\ Closing(top + 1) = {}
           /\ stack' = Append(Restored(top), Peek(0))
           /\ frames' = [left EXCEPT ![Len(left)].ip = h.catchIp]
           /\ UNCHANGED <<upvalue, openUpvalues>>
  <2>1. /\ frames \in Seq(Frame) /\ Len(frames) \in Nat /\ DOMAIN frames = 1 .. Len(frames)
        /\ handlers \in Seq(Handler) /\ Len(stack) \in Nat /\ Laid
    BY <1>1, TopFrame, Lay DEF IInv, Sorts
  <2>2. h.catchIp \in Ip /\ top \in Nat
    <3>1. h \in Handler
      <4>1. handlers \in Seq(Handler) /\ handlers # <<>>
        BY <1>3, <2>1
      <4>2. Last(handlers) \in Handler
        BY <4>1, SeqEnds
      <4> QED BY <4>2
    <3> HIDE DEF h
    <3> QED BY <3>1 DEF Handler
  <2>3. PICK i \in 1 .. Len(frames) :
          /\ frames[i].ip.tries # <<>>
          /\ top = frames[i].slots + Last(frames[i].ip.tries) - 1
          /\ frames' = Append(SubSeq(frames, 1, i - 1), Resumed(frames[i], h.catchIp))
    <3> HIDE DEF h, left
    <3> QED BY <1>1, <1>3, <2>1, Caught DEF h, left, top
  <2> DEFINE f == frames[i]
             g == Resumed(f, h.catchIp)
             k == i - 1
  <2> HIDE DEF h, left, top
  <2>4. f \in Frame /\ f.closure \in DOMAIN upvalues
    BY <2>1, SeqElement DEF IInv, Own
  <2>5. g \in Frame /\ g.closure = f.closure /\ g.slots = f.slots
    <3>1. f.closure \in Closures /\ f.slots \in Nat \ {0}
      BY <2>4 DEF Frame
    <3> QED BY <2>2, <3>1 DEF Frame, Resumed
  <2>6. k \in 0 .. Len(frames) /\ g.slots = frames[k + 1].slots
    BY <2>1, <2>5
  <2>7. frames' = Append(SubSeq(frames, 1, k), g)
    BY <2>3
  <2>8. top <= Len(stack)
    <3> DEFINE t == f.ip.tries
    <3>1. t \in Seq(Nat) /\ t # <<>> /\ Extent(f, Len(stack))
      BY <2>1, <2>3, <2>4, FrameFacts DEF IInv, Nest, Stacked
    <3>2. Len(t) \in DOMAIN t /\ Last(t) = t[Len(t)]
      <4>1. t \in Seq(Nat) /\ t # <<>>
        BY <3>1
      <4> HIDE DEF t
      <4>2. /\ Len(t) \in Nat /\ Len(t) >= 1 /\ DOMAIN t = 1 .. Len(t) /\ Last(t) = t[Len(t)]
        BY <4>1, SeqEnds
      <4> QED BY <4>2
    <3> QED BY <2>3, <3>1, <3>2 DEF Extent
  <2>9. stack' \in Seq(Known) /\ Len(stack') = top + 1
    <3>1. \A j \in 1 .. top : j \in DOMAIN stack /\ Content(j) \in Known
      BY <2>1, <2>2, <2>8, Slot DEF IInv, Content
    <3> DEFINE r == Restored(top)
    <3>2. r \in [1 .. top -> Known]
      BY <3>1 DEF Restored
    <3> HIDE DEF r, Known
    <3>3. r \in Seq(Known) /\ Len(r) = top
      BY <2>2, <3>2
    <3>4. Peek(0) \in Known
      <4>1. \A j \in 0 .. 0 : Peek(j) \in Known
        BY <1>1, TopOperand
      <4> QED BY <4>1
    <3>5. stack' = Append(r, Peek(0))
      BY <1>3 DEF r
    <3> QED BY <3>3, <3>4, <3>5, SeqAppend
  <2>10. \A u \in openUpvalues' : upvalue[u].location <= Len(stack')
    <3>1. \A u \in openUpvalues : upvalue[u].location \in Nat /\ ~(upvalue[u].location >= top + 1)
      BY <1>1, <1>3, TopFrame DEF IInv, Opened, Closing
    <3> QED BY <1>3, <2>2, <2>9, <3>1
  <2>11. global' \in Known
    BY <1>1 DEF IInv, Sorts
  <2>12. g.closure \in DOMAIN upvalues
    BY <2>4, <2>5
  <2> HIDE DEF f, g, k, Known
  <2> QED BY <1>1, <1>3, <2>5, <2>6, <2>7, <2>9, <2>10, <2>11, <2>12, SameUpvalues, OverStep
<1> QED BY <1>1, <1>2, <1>3 DEF OpThrow

-----------------------------------------------------------------------------
(* Scripts.                                                                *)

LEMMA InterpretStep == IInv /\ Laid' /\ Interpret => IInv'
<1> SUFFICES ASSUME IInv, Laid', Interpret PROVE IInv'
  OBVIOUS
<1>1. /\ frames = <<>> /\ stack' = Append(stack, Script)
      /\ frames' = <<[closure |-> Script, ip |-> Ready(Script), slots |-> Len(stack) + 1]>>
      /\ UNCHANGED <<upvalue, openUpvalues, upvalues, global, program>>
  BY DEF Interpret, Push
<1>2. Script \in Known /\ Script \in DOMAIN upvalues
  BY ClosuresAssumption DEF IInv, Sorts, Known, Values
<1>3. stack' \in Seq(Known)
  <2>1. stack \in Seq(Known)
    BY DEF IInv, Sorts
  <2> HIDE DEF Known
  <2> QED BY <1>1, <1>2, <2>1, SeqAppend
<1>4. openUpvalues = {}
  BY <1>1 DEF IInv, Opened
<1>5. Sorts' /\ Captures'
  BY <1>1, <1>3 DEF Laid, Recorded, IInv, Sorts, Captures, Known
<1>6. Opened'
  BY <1>1, <1>4 DEF IInv, Opened
<1>7. \A i \in DOMAIN frames' : frames'[i].closure \in DOMAIN upvalues'
  BY <1>1, <1>2
<1> QED BY <1>5, <1>6, <1>7, Rest

LEMMA NextStep ==
    ASSUME Exercised \subseteq {"tail_initializer"} PROVE IInv /\ [Next]_vars => IInv'
<1> SUFFICES ASSUME IInv, [Next]_vars PROVE IInv'
  OBVIOUS
<1>1. Laid'
  BY Lay, LaidNext
<1>2. ~Strays /\ "error_over_captured" \notin Exercised
  BY DEF Strays
<1>3. CASE OpConstant \/ OpPop \/ OpGetLocal \/ OpSetLocal \/ OpGetUpvalue \/ OpSetUpvalue
  BY <1>1, <1>2, <1>3, ConstantStep, PopStep, GetLocalStep, SetLocalStep, GetUpvalueStep,
     SetUpvalueStep
<1>4. CASE OpGetGlobal \/ OpDefineGlobal \/ OpClosure \/ OpCloseUpvalue
  BY <1>1, <1>2, <1>4, GetGlobalStep, DefineGlobalStep, ClosureStep, CloseUpvalueStep
<1>5. CASE OpCall \/ OpSuperInvoke \/ OpReturn \/ OpTailCall
  BY <1>1, <1>5, CallStep, SuperInvokeStep, ReturnStep, TailCallStep
<1>6. CASE OpTry \/ OpTryEnd \/ OpThrow \/ RuntimeError \/ Interpret
  BY <1>1, <1>2, <1>6, TryStep, TryEndStep, ThrowStep, RuntimeErrorStep, InterpretStep
<1>7. CASE UNCHANGED vars
  <2>1. Sorts' /\ Captures' /\ Opened' /\ UNCHANGED <<frames, upvalues>>
    BY <1>7 DEF vars, IInv, Sorts, Captures, Opened, Known
  <2> QED BY <1>1, <2>1, SameFrames
<1> QED BY <1>3, <1>4, <1>5, <1>6, <1>7 DEF Next

-----------------------------------------------------------------------------
(* Theorems.                                                               *)

\* The machine never loses track of a captured variable, in programs whose only
\* hazardous use is a tail call of a class with an initializer: that one loses a call
\* (Implements), but leaves the machine's state in order.
THEOREM Invariance ==
    ASSUME Exercised \subseteq {"tail_initializer"} PROVE Spec => []IInv
<1>1. Init => IInv
  BY InitIInv
<1>2. IInv /\ [Next]_vars => IInv'
  BY NextStep
<1> QED BY <1>1, <1>2, PTL DEF Spec

\* What the stack, the frames, the handlers and the upvalues hold, and the two limits
\* that vm_call and OP_TRY check.
THEOREM Typing ==
    ASSUME Exercised \subseteq {"tail_initializer"} PROVE Spec => []TypeOK
<1>1. IInv => TypeOK
  <2> SUFFICES ASSUME IInv PROVE TypeOK
    OBVIOUS
  <2>1. stack \in Seq(Values) /\ global \in Values
    BY DEF IInv, Sorts, Known
  <2>2. \A c \in DOMAIN upvalues : upvalues[c] \subseteq Upvalues
    BY DEF IInv, Captures
  <2> QED BY <2>1, <2>2 DEF IInv, Sorts, Limits, TypeOK
<1> QED BY <1>1, Invariance, PTL

\* An upvalue that points into the stack is on the list of open ones, points at a slot
\* of a frame, and shares it with no other: a captured variable has one copy.
THEOREM OpenUpvaluesPoint ==
    ASSUME Exercised \subseteq {"tail_initializer"} PROVE Spec => []UpvaluesOpen
<1>1. IInv => UpvaluesOpen
  BY DEF IInv, Opened, UpvaluesOpen
<1> QED BY <1>1, Invariance, PTL
=============================================================================
