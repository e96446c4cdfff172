----------------------------- MODULE HeapProofs -----------------------------
(* Proofs about Heap, for every set of addresses, allocator, program image *)
(* and bound, of programs that make no unrooted use (Exercised = {}).      *)
EXTENDS Heap, TLAPS

-----------------------------------------------------------------------------
(* The inductive invariant.                                                *)

\* Every root is an object of S; sequences keep their shape.
RootsIn(S) ==
    /\ stack \in Seq(S \cup {Nil})
    /\ frames \in Seq([closure : S, slots : Nat \ {0}])
    /\ compiling \in Seq(S)
    /\ openUpvalues \subseteq S
    /\ globals \subseteq S

HeapOK ==
    /\ live \subseteq Obj
    /\ \A o \in live : ref[o] \subseteq live

\* An open upvalue stands on a slot of the stack.
OpenSlots == \A u \in openUpvalues : loc[u] \in 1 .. Len(stack)

\* What a handler relies on when it goes on after an allocation.
Handler ==
    /\ phase = "run" => req = NoRequest
    /\ req.op \in {"NATIVE", "SPLIT", "SPLIT_LOOP", "PIECE"} =>
          /\ req.slot \in 1 .. Len(stack)
          /\ \A u \in openUpvalues : loc[u] < req.slot
    /\ req.op = "ARRAY" =>
          /\ req.slot \in 0 .. Len(stack)
          /\ \A u \in openUpvalues : loc[u] <= Len(stack) - req.slot
    /\ req.op \in {"INSTANCE", "INIT", "UPVALUE"} => req.slot \in 1 .. Len(stack)
    /\ req.op \in {"BIND", "SCRIPT"} => stack # <<>>
    /\ req.op \in {"CLOSURE", "CAPTURE_LOOP", "UPVALUE"} => frames # <<>>
    /\ req.op \in {"CAPTURE_LOOP", "UPVALUE"} => req.held \subseteq ToSet(stack)
    /\ req.op = "INSTANCE" => req.kind = "ins"
    /\ req.op = "INSTANCE" /\ phase = "deliver" => req.held \subseteq ref[req.result]
    /\ req.op = "NAME" => compiling # <<>>

Held ==
    /\ phase \in GCPhases => req.held \subseteq Reach
    /\ phase \in {"alloc", "deliver", "loop"} => req.held \subseteq live
    /\ IF phase = "deliver" THEN req.result \in live ELSE req.result = Nil

\* The string being allocated is not in the intern table.
Fresh ==
    phase \in {"mark", "trace", "alloc"} /\ req.kind = "str" => Interned(req.text) = {}

Types ==
    /\ kind \in [Obj -> Kinds] /\ ref \in [Obj -> SUBSET Obj]
    /\ text \in [Obj -> Text \cup {NoText}] /\ loc \in [Obj -> Nat]
    /\ strings \subseteq Obj /\ ast \subseteq Obj
    /\ ops \subseteq Opcodes /\ phase \in Phases /\ req \in Requests
    /\ mark \subseteq Obj /\ gray \subseteq Obj
    /\ bytesAllocated \in Nat /\ nextGC \in Nat

IInv ==
    /\ Types
    /\ HeapOK
    /\ RootsIn(live)
    /\ OpenSlots
    /\ Handler
    /\ Held
    /\ TriColour
    /\ InternTable
    /\ Fresh

-----------------------------------------------------------------------------
(* Sequences.                                                              *)

\* A sequence over a set is a sequence over a larger set.
LEMMA SeqMono ==
    ASSUME NEW S, NEW T, S \subseteq T, NEW s \in Seq(S)
    PROVE  s \in Seq(T)
OBVIOUS

\* What Push, Drop and a store into a slot do to the values of a stack.
LEMMA StackOps ==
    ASSUME NEW S, NEW s \in Seq(S), NEW v \in S
    PROVE  /\ Append(s, v) \in Seq(S)
           /\ Len(Append(s, v)) = Len(s) + 1
           /\ \A i \in DOMAIN s : [s EXCEPT ![i] = v] \in Seq(S)
           /\ \A i \in DOMAIN s : Len([s EXCEPT ![i] = v]) = Len(s)
           /\ \A i \in 1 .. Len(s) : s[i] \in S
BY SMT

\* A prefix of a stack.
LEMMA StackPrefix ==
    ASSUME NEW S, NEW s \in Seq(S), NEW n \in Int, n <= Len(s)
    PROVE  /\ SubSeq(s, 1, n) \in Seq(S)
           /\ n >= 0 => Len(SubSeq(s, 1, n)) = n
BY SMT

\* The ends of a sequence that is not empty.
LEMMA SeqEnds ==
    ASSUME NEW S, NEW s \in Seq(S), s # <<>>
    PROVE  /\ Len(s) \in DOMAIN s /\ Len(s) \in Nat \ {0}
           /\ Last(s) = s[Len(s)] /\ Last(s) \in S
           /\ Front(s) \in Seq(S)
<1>1. Len(s) \in Nat \ {0} /\ DOMAIN s = 1 .. Len(s)
  <2>1. Len(s) \in Nat /\ DOMAIN s = 1 .. Len(s)
    OBVIOUS
  <2>2. Len(s) # 0
    OBVIOUS
  <2> QED BY <2>1, <2>2
<1>2. s[Len(s)] \in S
  BY <1>1
<1>3. SubSeq(s, 1, Len(s) - 1) \in Seq(S)
  BY <1>1
<1> QED BY <1>1, <1>2, <1>3 DEF Last, Front

\* The elements of a sequence decide the set it is over.
LEMMA SeqOver ==
    ASSUME NEW S, NEW s \in Seq(S), NEW T, \A i \in DOMAIN s : s[i] \in T
    PROVE  s \in Seq(T)
OBVIOUS

LEMMA SeqElement ==
    ASSUME NEW S, NEW s \in Seq(S), NEW i \in DOMAIN s
    PROVE  s[i] \in S
OBVIOUS

\* The values of a stack.
LEMMA ToSetSeq ==
    ASSUME NEW S, NEW s \in Seq(S)
    PROVE  /\ ToSet(s) \subseteq S
           /\ \A i \in DOMAIN s : s[i] \in ToSet(s)
BY DEF ToSet

-----------------------------------------------------------------------------
(* Reachability.                                                           *)

LEMMA ReachRoots ==
    ASSUME NEW known \in SUBSET Obj, NEW links, NEW objects
    PROVE  known \subseteq ReachFrom(known, links, objects)
BY DEF ReachFrom

LEMMA ReachStep ==
    ASSUME NEW known, NEW links \in [Obj -> SUBSET Obj], NEW objects,
           NEW o \in ReachFrom(known, links, objects)
    PROVE  links[o] \subseteq ReachFrom(known, links, objects)
BY DEF ReachFrom

\* Reach is the least closed set around the roots.
LEMMA ReachLeast ==
    ASSUME NEW known, NEW links, NEW objects, NEW S,
           known \subseteq S, S \subseteq objects, \A o \in S : links[o] \subseteq S
    PROVE  ReachFrom(known, links, objects) \subseteq S
<1>1. S \in {known \cup X : X \in SUBSET (objects \ known)}
  <2>1. S = known \cup (S \ known) /\ S \ known \in SUBSET (objects \ known)
    OBVIOUS
  <2> QED BY <2>1
<1> QED BY <1>1 DEF ReachFrom

-----------------------------------------------------------------------------
(* Initial states.                                                         *)

LEMMA InitIInv == Init => IInv
<1> SUFFICES ASSUME Init PROVE IInv
  OBVIOUS
<1>1. PICK im \in Images :
        /\ live = im.live /\ kind = im.kind /\ ref = im.ref /\ text = im.text
        /\ strings = {o \in im.live : im.kind[o] = "str"}
        /\ stack = im.stack /\ frames = im.frames /\ globals = im.globals
        /\ ops = im.ops /\ bytesAllocated = im.bytes
  BY DEF Init
<1>2. GoodImage(im)
  BY ImagesAssumption
<1>3. /\ loc = [o \in Obj |-> 0] /\ openUpvalues = {} /\ compiling = <<>> /\ ast = {}
      /\ phase = "run" /\ req = NoRequest /\ mark = {} /\ gray = {} /\ nextGC = FirstGC
  BY DEF Init
<1>4. NoRequest \in Requests /\ NoRequest.op = "none" /\ NoRequest.result = Nil
  BY DEF NoRequest, Requests, Kinds, Handlers
<1>5. Types
  BY <1>1, <1>2, <1>3, <1>4, BoundsAssumption DEF Types, GoodImage, ImageType, Phases
<1>6. HeapOK /\ OpenSlots /\ TriColour /\ Held /\ Fresh
  BY <1>1, <1>2, <1>3, <1>4
  DEF HeapOK, OpenSlots, TriColour, Held, Fresh, GoodImage, ImageType, GCPhases
<1>7. stack \in Seq(live \cup {Nil})
  <2>1. im.stack \in Seq(Obj \cup {Nil}) /\ ToSet(im.stack) \subseteq im.live \cup {Nil}
    BY <1>2 DEF GoodImage, ImageType
  <2>2. \A i \in 1 .. Len(im.stack) : im.stack[i] \in im.live \cup {Nil}
    BY <2>1 DEF ToSet
  <2> QED BY <2>1, <2>2, <1>1
<1>8. frames \in Seq([closure : live, slots : Nat \ {0}])
  <2>1. /\ im.frames \in Seq([closure : Obj, slots : Nat \ {0}])
        /\ \A i \in DOMAIN im.frames : im.frames[i].closure \in im.live
    BY <1>2 DEF GoodImage, ImageType
  <2> DEFINE R == [closure : Obj, slots : Nat \ {0}]
             T == [closure : live, slots : Nat \ {0}]
  <2>2. ASSUME NEW i \in DOMAIN im.frames PROVE im.frames[i] \in T
    <3>1. im.frames[i] \in R
      <4> HIDE DEF R
      <4> QED BY <2>1, SeqElement DEF R
    <3> QED BY <3>1, <2>1, <1>1
  <2>3. im.frames \in Seq(R)
    BY <2>1
  <2>4. im.frames \in Seq(T)
    <3> HIDE DEF R, T
    <3> QED BY <2>2, <2>3, SeqOver
  <2> QED BY <2>4, <1>1
<1>9. RootsIn(live)
  BY <1>1, <1>2, <1>3, <1>7, <1>8 DEF RootsIn, GoodImage
<1>10. Handler
  BY <1>3, <1>4 DEF Handler
<1>11. InternTable
  BY <1>1, <1>2 DEF InternTable, GoodImage
<1> QED BY <1>5, <1>6, <1>9, <1>10, <1>11 DEF IInv

-----------------------------------------------------------------------------
(* Consequences of the invariant.                                          *)

LEMMA RootsLive ==
    ASSUME IInv
    PROVE  Roots \subseteq live /\ live \subseteq Obj /\ Roots \in SUBSET Obj
<1>1. ToSet(stack) \subseteq live \cup {Nil} /\ ToSet(compiling) \subseteq live
  BY ToSetSeq DEF IInv, RootsIn
<1>2. FrameClosures \subseteq live
  <2> DEFINE R == [closure : live, slots : Nat \ {0}]
  <2>1. frames \in Seq(R)
    BY DEF IInv, RootsIn
  <2>2. ASSUME NEW i \in DOMAIN frames PROVE frames[i] \in R
    <3> HIDE DEF R
    <3> QED BY <2>1, SeqElement
  <2> QED BY <2>2 DEF FrameClosures
<1> QED BY <1>1, <1>2 DEF Roots, IInv, RootsIn, HeapOK

LEMMA ReachLive ==
    ASSUME IInv
    PROVE  Reach \subseteq live /\ Roots \subseteq Reach
<1>1. Roots \subseteq live /\ live \subseteq Obj /\ Roots \in SUBSET Obj
  BY RootsLive
<1>2. \A o \in live : ref[o] \subseteq live
  BY DEF IInv, HeapOK
<1>3. ReachFrom(Roots, ref, live) \subseteq live
  BY <1>1, <1>2, ReachLeast
<1>4. Roots \subseteq ReachFrom(Roots, ref, live)
  BY <1>1, ReachRoots
<1> QED BY <1>3, <1>4 DEF Reach

\* What the running function can name is reachable.
LEMMA RunningFrame ==
    ASSUME IInv, frames # <<>>
    PROVE  /\ Last(frames).closure \in live /\ Last(frames).slots \in Nat \ {0}
           /\ Last(frames).closure \in Reach
           /\ Constants \subseteq Reach /\ Constants \subseteq live
           /\ Names \subseteq live
           /\ Upvalues(Last(frames).closure) \subseteq live
           /\ Front(frames) \in Seq([closure : live, slots : Nat \ {0}])
<1>1. frames \in Seq([closure : live, slots : Nat \ {0}])
  BY DEF IInv, RootsIn
<1> DEFINE R == [closure : live, slots : Nat \ {0}]
<1>2. /\ Last(frames) \in R /\ Len(frames) \in DOMAIN frames
      /\ Last(frames) = frames[Len(frames)] /\ Front(frames) \in Seq(R)
  <2> HIDE DEF R
  <2> QED BY <1>1, SeqEnds DEF R
<1>3. Last(frames).closure \in Roots
  BY <1>2 DEF Roots, FrameClosures
<1>4. Last(frames).closure \in Reach /\ Reach \subseteq live
  BY <1>3, ReachLive
<1>5. ref \in [Obj -> SUBSET Obj] /\ \A o \in live : ref[o] \subseteq live
  BY DEF IInv, Types, HeapOK
<1>6. \A o \in Reach : ref[o] \subseteq Reach
  BY <1>5, ReachStep DEF Reach
<1>7. Constants \subseteq Reach
  BY <1>4, <1>6 DEF Constants, Functions
<1> QED BY <1>2, <1>4, <1>5, <1>6, <1>7 DEF Upvalues, Names

-----------------------------------------------------------------------------
(* The three ways a step of the program ends: without an allocation, with  *)
(* an allocation requested, with an interned string found.                 *)

LEMMA LocalStep ==
    ASSUME IInv,
           phase \in {"run", "deliver", "loop"}, phase' \in {"run", "loop"},
           req' \in Requests, req'.held \subseteq live, req'.result = Nil,
           UNCHANGED <<live, kind, text, strings, ops, gc, bytesAllocated, nextGC>>,
           ref' \in [Obj -> SUBSET Obj], loc' \in [Obj -> Nat], ast' \subseteq Obj,
           HeapOK', RootsIn(live)', OpenSlots', Handler'
    PROVE  IInv'
<1>1. Types'
  BY DEF IInv, Types, gc, Phases
<1>2. Held' /\ Fresh' /\ TriColour'
  BY DEF IInv, Held, Fresh, TriColour, GCPhases, gc
<1>3. InternTable'
  BY DEF IInv, InternTable
<1> QED BY <1>1, <1>2, <1>3 DEF IInv

LEMMA RequestStep ==
    ASSUME IInv,
           NEW op \in Handlers, NEW k \in Kinds, NEW t \in Text \cup {NoText},
           NEW held \in SUBSET live, NEW slot \in Nat,
           phase \in {"run", "deliver", "loop"},
           Allocate(op, k, t, held, slot),
           ast' \subseteq Obj,
           RootsIn(live)', OpenSlots', Handler',
           Collects => held \subseteq ReachFrom(Roots', ref, live),
           k = "str" => Interned(t) = {}
    PROVE  IInv'
<1>1. /\ req' = [op |-> op, kind |-> k, text |-> t, held |-> held, slot |-> slot,
                 result |-> Nil]
      /\ phase' = IF Collects THEN "mark" ELSE "alloc"
      /\ bytesAllocated' = bytesAllocated + 1
      /\ UNCHANGED <<live, kind, ref, text, loc, strings, ops, mark, gray, nextGC>>
  BY DEF Allocate, heap, gc
<1>2. live \subseteq Obj
  BY DEF IInv, HeapOK
<1>3. req' \in Requests
  BY <1>1, <1>2 DEF Requests
<1>4. Types'
  BY <1>1, <1>3 DEF IInv, Types, Phases
<1>5. HeapOK' /\ InternTable'
  BY <1>1 DEF IInv, HeapOK, InternTable
<1>6. TriColour'
  BY <1>1 DEF IInv, TriColour
<1>7. Held'
  BY <1>1 DEF Held, Reach, GCPhases
<1>8. Fresh'
  BY <1>1 DEF Fresh, Interned
<1> QED BY <1>4, <1>5, <1>6, <1>7, <1>8 DEF IInv

LEMMA CopyStringStep ==
    ASSUME Exercised = {}, IInv,
           NEW op \in Handlers, NEW t \in Text, NEW held \in SUBSET live, NEW slot \in Nat,
           phase \in {"run", "deliver", "loop"},
           CopyString(op, t, held, slot),
           ast' \subseteq Obj,
           RootsIn(live)', OpenSlots', Handler',
           phase' = "mark" => held \subseteq ReachFrom(Roots', ref, live)
    PROVE  IInv'
<1>1. CASE Interned(t) = {} /\ Allocate(op, "str", t, held, slot)
  BY <1>1, RequestStep DEF Allocate, Kinds
<1>2. ASSUME NEW s \in Interned(t), s \in live,
             req' = [op |-> op, kind |-> "str", text |-> t, held |-> held,
                     slot |-> slot, result |-> s],
             phase' = "deliver",
             UNCHANGED <<heap, ops, gc, bytesAllocated, nextGC>>
      PROVE  IInv'
  <2>1. UNCHANGED <<live, kind, ref, text, loc, strings, ops, mark, gray, nextGC,
                    bytesAllocated>>
    BY <1>2 DEF heap, gc
  <2>2. live \subseteq Obj
    BY DEF IInv, HeapOK
  <2>3. req' \in Requests
    BY <1>2, <2>2 DEF Requests, Kinds
  <2>4. Types'
    BY <1>2, <2>1, <2>3 DEF IInv, Types, Phases
  <2>5. HeapOK' /\ InternTable'
    BY <2>1 DEF IInv, HeapOK, InternTable
  <2>6. TriColour' /\ Held' /\ Fresh'
    BY <1>2, <2>1 DEF IInv, TriColour, Held, Fresh, GCPhases
  <2> QED BY <2>4, <2>5, <2>6 DEF IInv
<1> QED BY <1>1, <1>2 DEF CopyString

LEMMA CopyStringShape ==
    ASSUME NEW op, NEW t, NEW held, NEW slot, CopyString(op, t, held, slot)
    PROVE  /\ req'.op = op /\ req'.slot = slot /\ req'.held = held /\ req'.kind = "str"
           /\ phase' \in {"deliver", "mark", "alloc"}
           /\ UNCHANGED heap
BY DEF CopyString, Allocate

-----------------------------------------------------------------------------
(* The collector.                                                          *)

LEMMA MarkRootsStep == IInv /\ MarkRoots => IInv'
<1> SUFFICES ASSUME IInv, MarkRoots PROVE IInv'
  OBVIOUS
<1>1. /\ phase = "mark" /\ phase' = "trace" /\ mark' = Roots /\ gray' = Roots
      /\ UNCHANGED <<live, kind, ref, text, loc, strings, stack, frames, openUpvalues,
                     globals, compiling, ast, ops, req, bytesAllocated, nextGC>>
  BY DEF MarkRoots, MarkedRoots, Roots, heap, roots
<1>2. Roots \subseteq live /\ live \subseteq Obj /\ Roots \subseteq Reach
  BY RootsLive, ReachLive
<1>3. Roots' = Roots /\ Reach' = Reach
  BY <1>1 DEF Roots, Reach, FrameClosures
<1>4. Types'
  BY <1>1, <1>2 DEF IInv, Types, Phases
<1>5. HeapOK' /\ RootsIn(live)' /\ OpenSlots' /\ InternTable' /\ Handler'
  BY <1>1 DEF IInv, HeapOK, RootsIn, OpenSlots, InternTable, Handler
<1>6. Held' /\ Fresh'
  BY <1>1, <1>3 DEF IInv, Held, Fresh, GCPhases, Interned
<1>7. TriColour'
  BY <1>1, <1>2, <1>3 DEF TriColour
<1> QED BY <1>4, <1>5, <1>6, <1>7 DEF IInv

LEMMA BlackenStep == IInv /\ Blacken => IInv'
<1> SUFFICES ASSUME IInv, Blacken PROVE IInv'
  OBVIOUS
<1>1. PICK o \in gray :
        mark' = mark \cup ref[o] /\ gray' = (gray \ {o}) \cup (ref[o] \ mark)
  BY DEF Blacken, Traced
<1>2. /\ phase = "trace"
      /\ UNCHANGED <<phase, live, kind, ref, text, loc, strings, stack, frames,
                     openUpvalues, globals, compiling, ast, ops, req, bytesAllocated, nextGC>>
  BY DEF Blacken, heap, roots
<1>3. /\ Roots \subseteq mark /\ gray \subseteq mark /\ mark \subseteq Reach
      /\ \A p \in mark \ gray : ref[p] \subseteq mark
  BY <1>2 DEF IInv, TriColour
<1>4. ref \in [Obj -> SUBSET Obj] /\ mark \subseteq Obj /\ o \in Obj
  BY <1>3 DEF IInv, Types
<1>5. ref[o] \subseteq Reach
  BY <1>3, <1>4, ReachStep DEF Reach
<1>6. Roots' = Roots /\ Reach' = Reach
  BY <1>2 DEF Roots, Reach, FrameClosures
<1>7. Types'
  BY <1>1, <1>2, <1>4 DEF IInv, Types
<1>8. HeapOK' /\ RootsIn(live)' /\ OpenSlots' /\ InternTable' /\ Handler'
  BY <1>2 DEF IInv, HeapOK, RootsIn, OpenSlots, InternTable, Handler
<1>9. Held' /\ Fresh'
  BY <1>2, <1>6 DEF IInv, Held, Fresh, GCPhases, Interned
<1>10. TriColour'
  BY <1>1, <1>2, <1>3, <1>4, <1>5, <1>6 DEF TriColour
<1> QED BY <1>7, <1>8, <1>9, <1>10 DEF IInv

\* When the gray stack is empty, the marked objects are the reachable ones.
LEMMA MarkedIsReach ==
    ASSUME IInv, phase = "trace", gray = {}
    PROVE  mark = Reach /\ mark \subseteq live /\ Roots \subseteq mark
           /\ \A o \in mark : ref[o] \subseteq mark
<1>1. /\ Roots \subseteq mark /\ mark \subseteq Reach
      /\ \A p \in mark : ref[p] \subseteq mark
  BY DEF IInv, TriColour
<1>2. mark \subseteq live
  BY <1>1, ReachLive
<1>3. Reach \subseteq mark
  BY <1>1, <1>2, ReachLeast DEF Reach
<1> QED BY <1>1, <1>2, <1>3

LEMMA SweepStep == IInv /\ Sweep => IInv'
<1> SUFFICES ASSUME IInv, Sweep PROVE IInv'
  OBVIOUS
<1>1. /\ phase = "trace" /\ phase' = "alloc" /\ gray = {} /\ gray' = {} /\ mark' = {}
      /\ live' = live \cap mark
      /\ kind' = [o \in Obj |-> IF o \in live \ mark THEN "free" ELSE kind[o]]
      /\ ref' = [o \in Obj |-> IF o \in live \ mark THEN {} ELSE ref[o]]
      /\ nextGC' = bytesAllocated * 2
      /\ UNCHANGED <<text, loc, strings, stack, frames, openUpvalues, globals, compiling,
                     ast, ops, req, bytesAllocated>>
  BY DEF Sweep, roots
<1>2. mark = Reach /\ mark \subseteq live /\ Roots \subseteq mark
      /\ \A o \in mark : ref[o] \subseteq mark
  BY <1>1, MarkedIsReach
<1>3. live \subseteq Obj
  BY DEF IInv, HeapOK
<1>4. Types'
  BY <1>1 DEF IInv, Types, Phases, Kinds
<1>5. HeapOK'
  BY <1>1, <1>2, <1>3 DEF HeapOK
<1>6. RootsIn(live)'
  <2> DEFINE R == [closure : live, slots : Nat \ {0}]
             T == [closure : mark, slots : Nat \ {0}]
  <2>1. /\ stack \in Seq(live \cup {Nil}) /\ frames \in Seq(R) /\ compiling \in Seq(live)
    BY DEF IInv, RootsIn
  <2>2. /\ ToSet(stack) \subseteq mark \cup {Nil} /\ ToSet(compiling) \subseteq mark
        /\ openUpvalues \subseteq mark /\ globals \subseteq mark /\ FrameClosures \subseteq mark
    BY <1>2 DEF Roots
  <2>3. stack \in Seq(mark \cup {Nil})
    <3>1. \A i \in DOMAIN stack : stack[i] \in mark \cup {Nil}
      BY <2>1, <2>2, ToSetSeq
    <3> QED BY <3>1, <2>1, SeqOver
  <2>4. compiling \in Seq(mark)
    <3>1. \A i \in DOMAIN compiling : compiling[i] \in mark
      BY <2>1, <2>2, ToSetSeq
    <3> QED BY <3>1, <2>1, SeqOver
  <2>5. frames \in Seq(T)
    <3>1. ASSUME NEW i \in DOMAIN frames PROVE frames[i] \in T
      <4>1. frames[i] \in R
        <5> HIDE DEF R
        <5> QED BY <2>1, SeqElement
      <4> QED BY <4>1, <2>2 DEF FrameClosures
    <3> HIDE DEF R, T
    <3> QED BY <3>1, <2>1, SeqOver
  <2>6. live' = mark
    BY <1>1, <1>2
  <2> QED BY <1>1, <2>2, <2>3, <2>4, <2>5, <2>6 DEF RootsIn
<1>7. OpenSlots' /\ Handler'
  BY <1>1 DEF IInv, OpenSlots, Handler
<1>8. Held'
  BY <1>1, <1>2 DEF IInv, Held, GCPhases
<1>9. TriColour'
  BY <1>1 DEF TriColour
<1>10. InternTable'
  <2>1. \A o \in live' : kind'[o] = kind[o] /\ o \in live
    BY <1>1, <1>3
  <2> QED BY <2>1, <1>1 DEF IInv, InternTable
<1>11. Fresh'
  BY <1>1 DEF IInv, Fresh, Interned
<1> QED BY <1>4, <1>5, <1>6, <1>7, <1>8, <1>9, <1>10, <1>11 DEF IInv

\* The new object is free memory, and refers only to what its handler holds.
LEMMA NewObjectStep == IInv /\ NewObject => IInv'
<1> SUFFICES ASSUME IInv, NewObject PROVE IInv'
  OBVIOUS
<1>1. PICK o \in Malloc(Obj \ live) :
          /\ live' = live \cup {o}
          /\ kind' = [kind EXCEPT ![o] = req.kind]
          /\ ref' = [ref EXCEPT ![o] = IF Linked(req.kind) THEN req.held ELSE {}]
          /\ text' = [text EXCEPT ![o] = req.text]
          /\ loc' = [loc EXCEPT ![o] = 0]
          /\ strings' = IF req.kind = "str" THEN strings \cup {o} ELSE strings
          /\ req' = [req EXCEPT !.result = o]
  BY DEF NewObject
<1>2. /\ phase = "alloc" /\ phase' = "deliver"
      /\ UNCHANGED <<stack, frames, openUpvalues, globals, compiling, ast, ops, mark, gray,
                     bytesAllocated, nextGC>>
  BY DEF NewObject, roots, gc
<1>3. o \in Obj /\ o \notin live
  BY MallocAssumption
<1>4. req \in Requests /\ req.held \subseteq live /\ live \subseteq Obj
  BY <1>2 DEF IInv, Types, Held, HeapOK
<1>5. req' \in Requests /\ req'.result = o /\ req'.held = req.held /\ req'.op = req.op
      /\ req'.slot = req.slot /\ req'.kind = req.kind
  BY <1>1, <1>3, <1>4 DEF Requests
<1>6. Types'
  BY <1>1, <1>2, <1>3, <1>4, <1>5 DEF IInv, Types, Requests, Phases
<1>7. HeapOK'
  BY <1>1, <1>3, <1>4 DEF IInv, HeapOK, Types
<1>8. RootsIn(live)'
  <2> DEFINE R == [closure : live, slots : Nat \ {0}]
             T == [closure : live', slots : Nat \ {0}]
  <2>1. stack \in Seq(live \cup {Nil}) /\ frames \in Seq(R) /\ compiling \in Seq(live)
        /\ openUpvalues \subseteq live /\ globals \subseteq live
    BY DEF IInv, RootsIn
  <2>2. live \cup {Nil} \subseteq live' \cup {Nil} /\ live \subseteq live' /\ R \subseteq T
    BY <1>1
  <2>3. stack \in Seq(live' \cup {Nil}) /\ compiling \in Seq(live')
    BY <2>1, <2>2, SeqMono
  <2>4. frames \in Seq(T)
    <3> HIDE DEF R, T
    <3> QED BY <2>1, <2>2, SeqMono
  <2> QED BY <1>2, <2>1, <2>2, <2>3, <2>4 DEF RootsIn
<1>9. OpenSlots'
  BY <1>1, <1>2, <1>3 DEF IInv, OpenSlots, RootsIn, Types
<1>10. Handler'
  <2>1. \A u \in openUpvalues : loc'[u] = loc[u]
    BY <1>1, <1>3 DEF IInv, RootsIn, Types, HeapOK
  <2>2. req.op = "INSTANCE" => req.held = ref'[o]
    BY <1>1, <1>3 DEF IInv, Handler, Types, Linked
  <2> QED BY <1>2, <1>5, <2>1, <2>2 DEF IInv, Handler
<1>11. Held' /\ TriColour' /\ Fresh'
  BY <1>1, <1>2, <1>4, <1>5 DEF IInv, Held, TriColour, Fresh, GCPhases
<1>12. InternTable'
  <2>1. \A p \in live : kind'[p] = kind[p] /\ text'[p] = text[p]
    BY <1>1, <1>3, <1>4 DEF IInv, Types
  <2>2. kind'[o] = req.kind /\ text'[o] = req.text
    BY <1>1, <1>3 DEF IInv, Types
  <2>3. ASSUME NEW p \in live, kind[p] = "str", req.kind = "str" PROVE text[p] # req.text
    BY <2>3, <1>2 DEF IInv, InternTable, Fresh, Interned
  <2>4. \A p \in live : kind[p] = "str" => p \in strings
    BY DEF IInv, InternTable
  <2>5. \A p, q \in live : kind[p] = "str" /\ kind[q] = "str" /\ text[p] = text[q] => p = q
    BY DEF IInv, InternTable
  <2> QED BY <1>1, <2>1, <2>2, <2>3, <2>4, <2>5 DEF InternTable
<1> QED BY <1>6, <1>7, <1>8, <1>9, <1>10, <1>11, <1>12 DEF IInv

-----------------------------------------------------------------------------
(* Opcodes that do not allocate.                                           *)

\* A step after which the interpreter is between two instructions.
LEMMA RunStep ==
    ASSUME IInv,
           phase \in {"run", "deliver", "loop"}, phase' = "run", req' = NoRequest,
           UNCHANGED <<live, kind, text, strings, ops, gc, bytesAllocated, nextGC>>,
           ref' \in [Obj -> SUBSET Obj], loc' \in [Obj -> Nat], ast' \subseteq Obj,
           HeapOK', RootsIn(live)', OpenSlots'
    PROVE  IInv'
<1>1. /\ NoRequest \in Requests /\ NoRequest.op = "none" /\ NoRequest.held = {}
      /\ NoRequest.result = Nil
  BY DEF NoRequest, Requests, Kinds, Handlers
<1>2. Handler'
  BY <1>1 DEF Handler
<1> QED BY <1>1, <1>2, LocalStep

\* What the invariant says of the state an instruction starts in.
LEMMA AtRest ==
    ASSUME IInv
    PROVE  /\ phase = "run" => req = NoRequest
           /\ stack \in Seq(live \cup {Nil}) /\ Len(stack) \in Nat
           /\ DOMAIN stack = 1 .. Len(stack)
           /\ \A i \in 1 .. Len(stack) : stack[i] \in live \cup {Nil}
           /\ live \subseteq Obj /\ openUpvalues \subseteq live /\ globals \subseteq live
           /\ compiling \in Seq(live)
           /\ frames \in Seq([closure : live, slots : Nat \ {0}])
           /\ ref \in [Obj -> SUBSET Obj] /\ \A o \in live : ref[o] \subseteq live
           /\ loc \in [Obj -> Nat] /\ ast \subseteq Obj
           /\ \A u \in openUpvalues : loc[u] \in 1 .. Len(stack)
           /\ req \in Requests
BY DEF IInv, Types, HeapOK, RootsIn, OpenSlots, Handler

\* The operands of an instruction, and the stack without them.
LEMMA OperandFacts ==
    ASSUME IInv, frames # <<>>, NEW n \in Nat, Operands(n)
    PROVE  /\ Len(stack) - n \in 1 .. Len(stack)
           /\ Drop(n) \in Seq(live \cup {Nil}) /\ Len(Drop(n)) = Len(stack) - n
           /\ \A k \in 0 .. n : Peek(k) \in live \cup {Nil}
           /\ \A u \in openUpvalues : loc[u] <= Len(stack) - n
           /\ n >= 1 => n - 1 \in Nat /\ \A k \in 0 .. n - 1 : Len(stack) - k \in 2 .. Len(stack)
<1>1. Last(frames).slots \in Nat \ {0}
  BY RunningFrame
<1>2. Len(stack) \in Nat /\ stack \in Seq(live \cup {Nil})
      /\ \A i \in 1 .. Len(stack) : stack[i] \in live \cup {Nil}
  BY AtRest
<1>3. Len(stack) - n \in 1 .. Len(stack) /\ \A u \in openUpvalues : loc[u] <= Len(stack) - n
  BY <1>1, <1>2 DEF Operands
<1>4. Drop(n) \in Seq(live \cup {Nil}) /\ Len(Drop(n)) = Len(stack) - n
  BY <1>2, <1>3, StackPrefix DEF Drop
<1>5. \A k \in 0 .. n : Peek(k) \in live \cup {Nil}
  BY <1>2, <1>3 DEF Peek
<1>6. n >= 1 => n - 1 \in Nat /\ \A k \in 0 .. n - 1 : Len(stack) - k \in 2 .. Len(stack)
  BY <1>2, <1>3
<1> QED BY <1>3, <1>4, <1>5, <1>6

\* A step that moves references on the stack only.
LEMMA StackStep ==
    ASSUME IInv, phase = "run", NoAllocation, OnlyStack,
           stack' \in Seq(live \cup {Nil}),
           \A u \in openUpvalues : loc[u] <= Len(stack')
    PROVE  IInv'
<1>1. /\ UNCHANGED <<live, kind, ref, text, loc, strings, frames, openUpvalues, globals,
                     compiling, ast, phase, req, ops, gc, bytesAllocated, nextGC>>
  BY DEF NoAllocation, OnlyStack, heap
<1>2. HeapOK' /\ RootsIn(live)'
  BY <1>1 DEF IInv, HeapOK, RootsIn
<1>3. Len(stack') \in Nat
  OBVIOUS
<1>4. OpenSlots'
  BY <1>1, <1>3, AtRest DEF OpenSlots
<1> QED BY <1>1, <1>2, <1>4, AtRest, RunStep

\* A step that pushes a value.
LEMMA PushStep ==
    ASSUME IInv, phase = "run", NoAllocation, OnlyStack,
           NEW v \in live \cup {Nil}, Push(stack, v)
    PROVE  IInv'
<1>1. stack' = Append(stack, v) /\ stack \in Seq(live \cup {Nil}) /\ Len(stack) \in Nat
      /\ \A u \in openUpvalues : loc[u] \in 1 .. Len(stack)
  BY AtRest DEF Push
<1>2. stack' \in Seq(live \cup {Nil}) /\ Len(stack') = Len(stack) + 1
  BY <1>1, StackOps
<1>3. \A u \in openUpvalues : loc[u] <= Len(stack')
  BY <1>1, <1>2
<1> QED BY <1>2, <1>3, StackStep

\* A step that changes the references of one object, and pops.
LEMMA StoreStep ==
    ASSUME IInv, phase = "run", NoAllocation,
           UNCHANGED <<live, kind, text, loc, strings, frames, openUpvalues, globals,
                       compiling, ast>>,
           NEW o, NEW new \in SUBSET live,
           ref' = [ref EXCEPT ![o] = new],
           stack' \in Seq(live \cup {Nil}),
           \A u \in openUpvalues : loc[u] <= Len(stack')
    PROVE  IInv'
<1>1. UNCHANGED <<phase, req, ops, gc, bytesAllocated, nextGC>>
  BY DEF NoAllocation
<1>2. ref' \in [Obj -> SUBSET Obj] /\ \A p \in live : ref'[p] \subseteq live
  BY AtRest
<1>3. HeapOK'
  BY <1>2, AtRest DEF HeapOK
<1>4. RootsIn(live)'
  BY DEF IInv, RootsIn
<1>5. Len(stack') \in Nat
  OBVIOUS
<1>6. OpenSlots'
  BY <1>5, AtRest DEF OpenSlots
<1> QED BY <1>1, <1>2, <1>3, <1>4, <1>6, AtRest, RunStep

LEMMA OpConstantStep == IInv /\ OpConstant => IInv'
<1> SUFFICES ASSUME IInv, OpConstant PROVE IInv'
  OBVIOUS
<1>1. PICK c \in Names : Push(stack, c)
  BY DEF OpConstant
<1>2. c \in live
  BY RunningFrame DEF OpConstant, Running
<1> QED BY <1>1, <1>2, PushStep DEF OpConstant, Running

LEMMA OpGetLocalStep == IInv /\ OpGetLocal => IInv'
<1> SUFFICES ASSUME IInv, OpGetLocal PROVE IInv'
  OBVIOUS
<1>1. PICK i \in Locals : Push(stack, stack[i])
  BY DEF OpGetLocal
<1>2. Last(frames).slots \in Nat \ {0}
  BY RunningFrame DEF OpGetLocal, Running
<1>3. i \in 1 .. Len(stack)
  BY <1>2, AtRest DEF Locals
<1>4. stack[i] \in live \cup {Nil}
  BY <1>3, AtRest
<1> QED BY <1>1, <1>4, PushStep DEF OpGetLocal, Running

LEMMA OpSetLocalStep == IInv /\ OpSetLocal => IInv'
<1> SUFFICES ASSUME IInv, OpSetLocal PROVE IInv'
  OBVIOUS
<1>1. PICK i \in Locals : stack' = [stack EXCEPT ![i] = Peek(0)]
  BY DEF OpSetLocal
<1>2. phase = "run" /\ frames # <<>> /\ Operands(1) /\ NoAllocation /\ OnlyStack
  BY DEF OpSetLocal, Running
<1>3. Last(frames).slots \in Nat \ {0}
  BY <1>2, RunningFrame
<1>4. Peek(0) \in live \cup {Nil}
  BY <1>2, OperandFacts
<1>5. i \in DOMAIN stack
  BY <1>3, AtRest DEF Locals
<1>6. stack' \in Seq(live \cup {Nil}) /\ Len(stack') = Len(stack)
  BY <1>1, <1>4, <1>5, AtRest, StackOps
<1>7. \A u \in openUpvalues : loc[u] <= Len(stack')
  BY <1>6, AtRest
<1> QED BY <1>2, <1>6, <1>7, StackStep

LEMMA OpPopStep == IInv /\ OpPop => IInv'
<1> SUFFICES ASSUME IInv, OpPop PROVE IInv'
  OBVIOUS
<1>1. phase = "run" /\ frames # <<>> /\ Operands(1) /\ NoAllocation /\ OnlyStack
      /\ stack' = Drop(1)
  BY DEF OpPop, Running
<1>2. Drop(1) \in Seq(live \cup {Nil}) /\ Len(Drop(1)) = Len(stack) - 1
      /\ \A u \in openUpvalues : loc[u] <= Len(stack) - 1
  BY <1>1, OperandFacts
<1> QED BY <1>1, <1>2, StackStep

LEMMA OpDefineGlobalStep == IInv /\ OpDefineGlobal => IInv'
<1> SUFFICES ASSUME IInv, OpDefineGlobal PROVE IInv'
  OBVIOUS
<1>1. PICK n \in Names : globals' = globals \cup {n} \cup ({Peek(0)} \ {Nil})
  BY DEF OpDefineGlobal
<1>2. /\ phase = "run" /\ frames # <<>> /\ Operands(1) /\ stack' = Drop(1)
      /\ UNCHANGED <<live, kind, ref, text, loc, strings, frames, openUpvalues, compiling, ast,
                     phase, req, ops, gc, bytesAllocated, nextGC>>
  BY DEF OpDefineGlobal, Running, NoAllocation, heap
<1>3. /\ stack' \in Seq(live \cup {Nil}) /\ Len(stack') = Len(stack) - 1
      /\ Peek(0) \in live \cup {Nil}
      /\ \A u \in openUpvalues : loc[u] <= Len(stack) - 1
  BY <1>2, OperandFacts
<1>4. n \in live
  BY <1>2, RunningFrame
<1>5. HeapOK'
  BY <1>2, AtRest DEF HeapOK
<1>6. RootsIn(live)'
  BY <1>1, <1>2, <1>3, <1>4 DEF IInv, RootsIn
<1>7. OpenSlots'
  BY <1>2, <1>3, AtRest DEF OpenSlots
<1> QED BY <1>2, <1>5, <1>6, <1>7, AtRest, RunStep

LEMMA OpGetUpvalueStep == IInv /\ OpGetUpvalue => IInv'
<1> SUFFICES ASSUME IInv, OpGetUpvalue PROVE IInv'
  OBVIOUS
<1>1. PICK u \in Upvalues(Last(frames).closure) :
          \/ u \in openUpvalues /\ loc[u] \in DOMAIN stack /\ Push(stack, stack[loc[u]])
          \/ loc[u] = 0 /\ \E v \in ref[u] : Push(stack, v)
          \/ loc[u] = 0 /\ ref[u] = {} /\ Push(stack, Nil)
  BY DEF OpGetUpvalue
<1>2. u \in live
  BY RunningFrame DEF OpGetUpvalue, Running
<1>3. \E v \in live \cup {Nil} : Push(stack, v)
  BY <1>1, <1>2, AtRest
<1> QED BY <1>3, PushStep DEF OpGetUpvalue, Running

LEMMA OpSetUpvalueStep == IInv /\ OpSetUpvalue => IInv'
<1> SUFFICES ASSUME IInv, OpSetUpvalue PROVE IInv'
  OBVIOUS
<1>1. PICK u \in Upvalues(Last(frames).closure) :
          \/ /\ u \in openUpvalues /\ loc[u] \in DOMAIN stack
             /\ stack' = [stack EXCEPT ![loc[u]] = Peek(0)]
             /\ UNCHANGED ref
          \/ /\ loc[u] = 0
             /\ ref' = [ref EXCEPT ![u] = {Peek(0)} \ {Nil}]
             /\ UNCHANGED stack
  BY DEF OpSetUpvalue
<1>2. /\ phase = "run" /\ frames # <<>> /\ Operands(1) /\ NoAllocation
      /\ UNCHANGED <<live, kind, text, loc, strings, frames, openUpvalues, globals,
                     compiling, ast>>
  BY DEF OpSetUpvalue, Running
<1>3. Peek(0) \in live \cup {Nil}
  BY <1>2, OperandFacts
<1>4. CASE u \in openUpvalues /\ loc[u] \in DOMAIN stack
           /\ stack' = [stack EXCEPT ![loc[u]] = Peek(0)] /\ UNCHANGED ref
  <2>1. stack' \in Seq(live \cup {Nil}) /\ Len(stack') = Len(stack)
    BY <1>3, <1>4, AtRest, StackOps
  <2>2. \A w \in openUpvalues : loc[w] <= Len(stack')
    BY <2>1, AtRest
  <2> QED BY <1>2, <1>4, <2>1, <2>2, StackStep DEF OnlyStack, heap
<1>5. CASE ref' = [ref EXCEPT ![u] = {Peek(0)} \ {Nil}] /\ UNCHANGED stack
  <2>1. stack' \in Seq(live \cup {Nil}) /\ \A w \in openUpvalues : loc[w] <= Len(stack')
    BY <1>5, AtRest
  <2>2. {Peek(0)} \ {Nil} \in SUBSET live
    BY <1>3
  <2> QED BY <1>2, <1>5, <2>1, <2>2, StoreStep
<1> QED BY <1>1, <1>4, <1>5

LEMMA OpGetFieldStep == IInv /\ OpGetField => IInv'
<1> SUFFICES ASSUME IInv, OpGetField PROVE IInv'
  OBVIOUS
<1>1. PICK v \in Fields(Peek(0)) : stack' = Append(Drop(1), v)
  BY DEF OpGetField
<1>2. phase = "run" /\ frames # <<>> /\ Operands(1) /\ NoAllocation /\ OnlyStack
      /\ Peek(0) # Nil
  BY DEF OpGetField, Running
<1>3. /\ Drop(1) \in Seq(live \cup {Nil}) /\ Len(Drop(1)) = Len(stack) - 1
      /\ Peek(0) \in live \cup {Nil}
  BY <1>2, OperandFacts
<1>4. v \in live
  BY <1>1, <1>2, <1>3, AtRest DEF Fields
<1>5. stack' \in Seq(live \cup {Nil}) /\ Len(stack') = Len(stack) - 1 + 1
  BY <1>1, <1>3, <1>4, StackOps
<1>6. \A u \in openUpvalues : loc[u] <= Len(stack')
  BY <1>5, AtRest
<1> QED BY <1>2, <1>5, <1>6, StackStep

LEMMA OpSetFieldStep == IInv /\ OpSetField => IInv'
<1> SUFFICES ASSUME IInv, OpSetField PROVE IInv'
  OBVIOUS
<1>1. PICK old \in Fields(Peek(1)) \cup {Nil},
           name \in IF kind[Peek(1)] = "arr" THEN {Nil} ELSE Names :
          ref' = [ref EXCEPT ![Peek(1)] = (@ \ {old}) \cup ({name, Peek(0)} \ {Nil})]
  BY DEF OpSetField
<1>2. /\ phase = "run" /\ frames # <<>> /\ Operands(2) /\ NoAllocation
      /\ stack' = Append(Drop(2), Peek(0)) /\ Peek(1) # Nil
      /\ UNCHANGED <<live, kind, text, loc, strings, frames, openUpvalues, globals,
                     compiling, ast>>
  BY DEF OpSetField, Running
<1>3. /\ Drop(2) \in Seq(live \cup {Nil}) /\ Len(Drop(2)) = Len(stack) - 2
      /\ Peek(0) \in live \cup {Nil} /\ Peek(1) \in live \cup {Nil}
      /\ \A u \in openUpvalues : loc[u] <= Len(stack) - 2
  BY <1>2, OperandFacts
<1>4. (ref[Peek(1)] \ {old}) \cup ({name, Peek(0)} \ {Nil}) \in SUBSET live
  <2>1. name \in live \cup {Nil}
    BY <1>2, RunningFrame
  <2> QED BY <1>2, <1>3, <2>1, AtRest
<1>5. ref' = [ref EXCEPT ![Peek(1)] =
                (ref[Peek(1)] \ {old}) \cup ({name, Peek(0)} \ {Nil})]
  BY <1>1
<1>6. stack' \in Seq(live \cup {Nil}) /\ Len(stack') = Len(stack) - 2 + 1
  BY <1>2, <1>3, StackOps
<1>7. \A u \in openUpvalues : loc[u] <= Len(stack')
  BY <1>3, <1>6, AtRest
<1> QED BY <1>2, <1>4, <1>5, <1>6, <1>7, StoreStep

LEMMA OpMethodStep == IInv /\ OpMethod => IInv'
<1> SUFFICES ASSUME IInv, OpMethod PROVE IInv'
  OBVIOUS
<1>1. /\ phase = "run" /\ frames # <<>> /\ Operands(2) /\ NoAllocation
      /\ Nil \notin {Peek(0), Peek(1)}
      /\ stack' = Drop(1)
      /\ UNCHANGED <<live, kind, text, loc, strings, frames, openUpvalues, globals,
                     compiling, ast>>
  BY DEF OpMethod, Running
<1>2. /\ Len(stack) - 2 \in 1 .. Len(stack)
      /\ Peek(0) \in live /\ Peek(1) \in live
      /\ \A u \in openUpvalues : loc[u] <= Len(stack) - 2
  BY <1>1, OperandFacts
<1> PICK name \in Names : ref' = [ref EXCEPT ![Peek(1)] = ref[Peek(1)] \cup {name, Peek(0)}]
  BY DEF OpMethod
<1>3. ref[Peek(1)] \cup {name, Peek(0)} \in SUBSET live
  <2>1. name \in live
    BY <1>1, RunningFrame
  <2> QED BY <1>2, <2>1, AtRest
<1>4. stack' \in Seq(live \cup {Nil}) /\ Len(stack') = Len(stack) - 1
  BY <1>1, <1>2, AtRest, StackPrefix DEF Drop
<1>5. \A u \in openUpvalues : loc[u] <= Len(stack')
  BY <1>2, <1>4, AtRest
<1> QED BY <1>1, <1>3, <1>4, <1>5, StoreStep

LEMMA OpInheritStep == IInv /\ OpInherit => IInv'
<1> SUFFICES ASSUME IInv, OpInherit PROVE IInv'
  OBVIOUS
<1> DEFINE new == ref[Peek(0)] \cup Methods(Peek(1))
                    \cup {n \in ref[Peek(1)] : Methods(Peek(1)) # {} /\ kind[n] = "str"}
<1>1. /\ phase = "run" /\ frames # <<>> /\ Operands(2) /\ NoAllocation
      /\ Nil \notin {Peek(0), Peek(1)}
      /\ ref' = [ref EXCEPT ![Peek(0)] = new]
      /\ UNCHANGED <<live, kind, text, loc, strings, stack, frames, openUpvalues, globals,
                     compiling, ast>>
  BY DEF OpInherit, Running, roots
<1>2. Peek(0) \in live /\ Peek(1) \in live
  BY <1>1, OperandFacts
<1>3. new \in SUBSET live
  BY <1>2, AtRest DEF Methods
<1>4. stack' \in Seq(live \cup {Nil}) /\ \A u \in openUpvalues : loc[u] <= Len(stack')
  BY <1>1, AtRest
<1> HIDE DEF new
<1> QED BY <1>1, <1>3, <1>4, StoreStep

-----------------------------------------------------------------------------
(* Calls, returns and the upvalues they close.                             *)

LEMMA ClosedUpvalues ==
    ASSUME IInv, NEW slot \in Nat, CloseUpvalues(slot)
    PROVE  /\ openUpvalues' \subseteq live
           /\ \A u \in openUpvalues' : loc'[u] \in 1 .. slot - 1
           /\ loc' \in [Obj -> Nat] /\ ref' \in [Obj -> SUBSET Obj]
           /\ HeapOK'
           /\ UNCHANGED <<live, kind, text, strings>>
<1>1. /\ openUpvalues' = openUpvalues \ Closing(slot)
      /\ loc' = [u \in Obj |-> IF u \in Closing(slot) THEN 0 ELSE loc[u]]
      /\ ref' = [u \in Obj |-> IF u \in Closing(slot) THEN {stack[loc[u]]} \ {Nil}
                               ELSE ref[u]]
      /\ UNCHANGED <<live, kind, text, strings>>
  BY DEF CloseUpvalues
<1>2. \A u \in Closing(slot) : u \in openUpvalues /\ stack[loc[u]] \in live \cup {Nil}
  BY AtRest DEF Closing
<1>3. \A u \in openUpvalues' : loc'[u] \in 1 .. slot - 1
  <2>1. ASSUME NEW u \in openUpvalues' PROVE loc'[u] \in 1 .. slot - 1
    <3>1. u \in openUpvalues /\ ~(loc[u] >= slot) /\ u \in Obj /\ loc[u] \in Nat /\ loc[u] >= 1
      BY <1>1, AtRest DEF Closing
    <3>2. loc'[u] = loc[u]
      BY <1>1, <3>1 DEF Closing
    <3> QED BY <3>1, <3>2
  <2> QED BY <2>1
<1>4. loc' \in [Obj -> Nat]
  BY <1>1, AtRest
<1>5. ref' \in [Obj -> SUBSET Obj] /\ \A o \in live : ref'[o] \subseteq live
  BY <1>1, <1>2, AtRest
<1>6. HeapOK'
  BY <1>1, <1>5, AtRest DEF HeapOK
<1> QED BY <1>1, <1>3, <1>4, <1>5, <1>6, AtRest

\* A step that closes upvalues, and leaves a stack that reaches up to the
\* slots that stay open.
LEMMA CloseStep ==
    ASSUME IInv, phase = "run", NoAllocation,
           NEW slot \in Nat, CloseUpvalues(slot),
           UNCHANGED <<globals, compiling, ast>>,
           stack' \in Seq(live \cup {Nil}), slot - 1 <= Len(stack'),
           frames' \in Seq([closure : live, slots : Nat \ {0}])
    PROVE  IInv'
<1>1. UNCHANGED <<phase, req, ops, gc, bytesAllocated, nextGC>>
  BY DEF NoAllocation
<1>2. /\ openUpvalues' \subseteq live
      /\ \A u \in openUpvalues' : loc'[u] \in 1 .. slot - 1
      /\ loc' \in [Obj -> Nat] /\ ref' \in [Obj -> SUBSET Obj]
      /\ HeapOK'
      /\ UNCHANGED <<live, kind, text, strings>>
  BY ClosedUpvalues
<1>3. RootsIn(live)'
  BY <1>2, AtRest DEF RootsIn
<1>4. Len(stack') \in Nat
  OBVIOUS
<1>5. OpenSlots'
  BY <1>2, <1>4 DEF OpenSlots
<1> QED BY <1>1, <1>2, <1>3, <1>5, AtRest, RunStep

\* The frames after a call and after a tail call.
LEMMA FrameOps ==
    ASSUME NEW S, NEW fs \in Seq([closure : S, slots : Nat \ {0}]),
           NEW c \in S, NEW slot \in Nat \ {0}
    PROVE  /\ Append(fs, [closure |-> c, slots |-> slot])
                \in Seq([closure : S, slots : Nat \ {0}])
           /\ fs # <<>> => [fs EXCEPT ![Len(fs)].closure = c]
                             \in Seq([closure : S, slots : Nat \ {0}])
<1> DEFINE R == [closure : S, slots : Nat \ {0}]
           new == [closure |-> c, slots |-> slot]
<1>1. new \in R /\ fs \in Seq(R)
  OBVIOUS
<1>2. Append(fs, new) \in Seq(R)
  <2> HIDE DEF R, new
  <2> QED BY <1>1
<1>3. ASSUME fs # <<>> PROVE [fs EXCEPT ![Len(fs)].closure = c] \in Seq(R)
  <2> DEFINE top == [fs[Len(fs)] EXCEPT !.closure = c]
  <2>1. Len(fs) \in DOMAIN fs /\ fs[Len(fs)] \in R
    <3> HIDE DEF R
    <3> QED BY <1>1, <1>3, SeqEnds
  <2>2. top \in R
    BY <2>1
  <2>3. [fs EXCEPT ![Len(fs)] = top] \in Seq(R)
    <3> HIDE DEF R, top
    <3> QED BY <1>1, <2>1, <2>2, StackOps
  <2> QED BY <2>3
<1> QED BY <1>2, <1>3

LEMMA OpCloseUpvalueStep == IInv /\ OpCloseUpvalue => IInv'
<1> SUFFICES ASSUME IInv, OpCloseUpvalue PROVE IInv'
  OBVIOUS
<1>1. /\ phase = "run" /\ frames # <<>> /\ NoAllocation
      /\ Len(stack) > Last(frames).slots /\ CloseUpvalues(Len(stack)) /\ stack' = Drop(1)
      /\ UNCHANGED <<frames, globals, compiling, ast>>
  BY DEF OpCloseUpvalue, Running
<1>2. Last(frames).slots \in Nat \ {0}
  BY <1>1, RunningFrame
<1>3. stack' \in Seq(live \cup {Nil}) /\ Len(stack') = Len(stack) - 1
  BY <1>1, <1>2, AtRest, StackPrefix, SMTT(30) DEF Drop
<1>4. frames' \in Seq([closure : live, slots : Nat \ {0}])
  BY <1>1, AtRest
<1>5. Len(stack) \in Nat /\ Len(stack) - 1 <= Len(stack')
  BY <1>3, AtRest
<1> QED BY <1>1, <1>3, <1>4, <1>5, CloseStep

LEMMA OpReturnStep == IInv /\ OpReturn => IInv'
<1> SUFFICES ASSUME IInv, OpReturn PROVE IInv'
  OBVIOUS
<1>1. /\ phase = "run" /\ frames # <<>> /\ NoAllocation /\ Operands(1)
      /\ CloseUpvalues(Last(frames).slots) /\ frames' = Front(frames)
      /\ stack' = IF Len(frames) = 1 THEN Drop(2)
                  ELSE Append(SubSeq(stack, 1, Last(frames).slots - 1), Peek(0))
      /\ UNCHANGED <<globals, compiling, ast>>
  BY DEF OpReturn, Running
<1>2. /\ Last(frames).slots \in Nat \ {0}
      /\ Front(frames) \in Seq([closure : live, slots : Nat \ {0}])
  BY <1>1, RunningFrame
<1>3. Len(stack) - 1 >= Last(frames).slots /\ Peek(0) \in live \cup {Nil}
  BY <1>1, OperandFacts DEF Operands
<1>4. stack' \in Seq(live \cup {Nil}) /\ Last(frames).slots - 1 <= Len(stack')
  <2>1. CASE Len(frames) = 1
    <3>1. Len(stack) - 2 \in Nat
      BY <1>2, <1>3, AtRest
    <3>2. Drop(2) \in Seq(live \cup {Nil}) /\ Len(Drop(2)) = Len(stack) - 2
      BY <3>1, AtRest, StackPrefix, SMTT(30) DEF Drop
    <3> QED BY <1>1, <1>2, <1>3, <2>1, <3>2, AtRest
  <2>2. CASE Len(frames) # 1
    <3> DEFINE base == SubSeq(stack, 1, Last(frames).slots - 1)
    <3>1. base \in Seq(live \cup {Nil}) /\ Len(base) = Last(frames).slots - 1
      BY <1>2, <1>3, AtRest, StackPrefix
    <3>2. Append(base, Peek(0)) \in Seq(live \cup {Nil}) /\ Len(Append(base, Peek(0))) = Len(base) + 1
      <4> HIDE DEF base
      <4> QED BY <1>3, <3>1, StackOps
    <3> QED BY <1>1, <1>2, <2>2, <3>1, <3>2
  <2> QED BY <2>1, <2>2
<1> QED BY <1>1, <1>2, <1>4, CloseStep

\* The callee and the arguments of a tail call, moved down.
LEMMA ReuseStep ==
    ASSUME IInv, phase = "run", frames # <<>>, NoAllocation,
           CloseUpvalues(Last(frames).slots), UNCHANGED <<globals, compiling, ast>>,
           NEW s \in Seq(live \cup {Nil}), NEW c \in live, NEW slot \in Nat \ {0},
           Last(frames).slots <= slot, slot <= Len(s), Reuse(s, c, slot)
    PROVE  IInv'
<1> DEFINE base == Last(frames).slots
           low == SubSeq(s, 1, base - 1)
           high == SubSeq(s, slot, Len(s))
<1>1. base \in Nat \ {0}
  BY RunningFrame
<1>2. stack' = low \o high /\ frames' = [frames EXCEPT ![Len(frames)].closure = c]
  BY DEF Reuse
<1>3. frames' \in Seq([closure : live, slots : Nat \ {0}])
  BY <1>1, <1>2, AtRest, FrameOps
<1>4. low \in Seq(live \cup {Nil}) /\ Len(low) = base - 1
  <2>1. base - 1 \in Int /\ base - 1 <= Len(s) /\ base - 1 >= 0
    BY <1>1
  <2> HIDE DEF base
  <2> QED BY <2>1, StackPrefix
<1>5. high \in Seq(live \cup {Nil})
  OBVIOUS
<1>6. low \o high \in Seq(live \cup {Nil}) /\ Len(low \o high) >= Len(low)
  <2> HIDE DEF low, high
  <2> QED BY <1>4, <1>5
<1>7. stack' \in Seq(live \cup {Nil}) /\ base - 1 <= Len(stack')
  BY <1>1, <1>2, <1>4, <1>6
<1> QED BY <1>1, <1>3, <1>7, CloseStep

LEMMA OpTailCallStep == IInv /\ OpTailCall => IInv'
<1> SUFFICES ASSUME IInv, OpTailCall PROVE IInv'
  OBVIOUS
<1> DEFINE Slot(n) == Len(stack) - n
<1>1. PICK n \in 0 .. 1 :
          /\ Operands(n + 1) /\ Peek(n) # Nil
          /\ \/ Reuse(stack, Peek(n), Slot(n))
             \/ \E m, r \in ref[Peek(n)] : Reuse([stack EXCEPT ![Slot(n)] = r], m, Slot(n))
  BY DEF OpTailCall
<1>2. /\ phase = "run" /\ frames # <<>> /\ NoAllocation
      /\ CloseUpvalues(Last(frames).slots)
      /\ UNCHANGED <<globals, compiling, ast>>
  BY DEF OpTailCall, Running
<1>3. n + 1 \in Nat /\ n \in 0 .. n + 1 /\ n \in 0 .. (n + 1) - 1 /\ n + 1 >= 1
  OBVIOUS
<1>4. Peek(n) \in live /\ Slot(n) \in 2 .. Len(stack)
  BY <1>1, <1>2, <1>3, OperandFacts
<1>5. Last(frames).slots \in Nat \ {0} /\ Len(stack) - (n + 1) >= Last(frames).slots
  BY <1>1, <1>2, RunningFrame DEF Operands
<1>6. /\ Slot(n) \in Nat \ {0} /\ Slot(n) \in DOMAIN stack /\ stack \in Seq(live \cup {Nil})
      /\ Last(frames).slots <= Slot(n) /\ Slot(n) <= Len(stack)
  <2>1. /\ Len(stack) \in Nat /\ stack \in Seq(live \cup {Nil})
        /\ DOMAIN stack = 1 .. Len(stack)
    BY <1>2, AtRest
  <2>2. Slot(n) \in Nat \ {0} /\ Slot(n) \in DOMAIN stack /\ Slot(n) <= Len(stack)
    <3> HIDE DEF Slot
    <3> QED BY <2>1, <1>4
  <2>3. Last(frames).slots <= Slot(n)
    BY <2>1, <1>5
  <2> HIDE DEF Slot
  <2> QED BY <2>1, <2>2, <2>3
<1>7. CASE Reuse(stack, Peek(n), Slot(n))
  <2> HIDE DEF Slot
  <2> QED BY <1>2, <1>4, <1>6, <1>7, ReuseStep
<1>8. ASSUME NEW m \in ref[Peek(n)], NEW r \in ref[Peek(n)],
             Reuse([stack EXCEPT ![Slot(n)] = r], m, Slot(n))
      PROVE  IInv'
  <2> DEFINE s == [stack EXCEPT ![Slot(n)] = r]
  <2>1. m \in live /\ r \in live
    BY <1>4, AtRest
  <2>2. s \in Seq(live \cup {Nil}) /\ Len(s) = Len(stack)
    <3> HIDE DEF Slot
    <3> QED BY <1>6, <2>1, StackOps
  <2>3. Reuse(s, m, Slot(n))
    BY <1>8
  <2> HIDE DEF s, Slot
  <2> QED BY <1>2, <1>6, <2>1, <2>2, <2>3, ReuseStep
<1> QED BY <1>1, <1>7, <1>8

\* A step that enters a function, from an instruction or from a handler.
LEMMA EnterStep ==
    ASSUME IInv,
           phase \in {"run", "deliver", "loop"}, phase' = "run", req' = NoRequest,
           UNCHANGED <<heap, openUpvalues, globals, compiling, ast, ops, gc, bytesAllocated,
                       nextGC>>,
           NEW s \in Seq(live \cup {Nil}), NEW c \in live, NEW slot \in Nat \ {0},
           Enter(s, c, slot),
           \A u \in openUpvalues : loc[u] <= Len(s)
    PROVE  IInv'
<1>1. /\ stack' = s /\ frames' = Append(frames, [closure |-> c, slots |-> slot])
      /\ UNCHANGED <<live, kind, ref, text, loc, strings>>
  BY DEF Enter, heap
<1>2. frames \in Seq([closure : live, slots : Nat \ {0}])
  BY AtRest
<1>3. Append(frames, [closure |-> c, slots |-> slot]) \in Seq([closure : live, slots : Nat \ {0}])
  BY <1>2, FrameOps
<1>4. frames' \in Seq([closure : live, slots : Nat \ {0}])
  BY <1>1, <1>3
<1>5. HeapOK'
  BY <1>1, AtRest DEF HeapOK
<1>6. RootsIn(live)'
  BY <1>1, <1>4, AtRest DEF RootsIn
<1>7. Len(s) \in Nat
  OBVIOUS
<1>8. OpenSlots'
  BY <1>1, <1>7, AtRest DEF OpenSlots
<1> QED BY <1>1, <1>5, <1>6, <1>8, AtRest, RunStep

LEMMA OpCallStep == IInv /\ OpCall => IInv'
<1> SUFFICES ASSUME IInv, OpCall PROVE IInv'
  OBVIOUS
<1> DEFINE Slot(n) == Len(stack) - n
<1>1. PICK n \in 0 .. 1 :
          /\ Operands(n + 1) /\ Peek(n) # Nil
          /\ \/ kind[Peek(n)] = "clo" /\ Enter(stack, Peek(n), Slot(n))
             \/ \E m, r \in ref[Peek(n)] : Enter([stack EXCEPT ![Slot(n)] = r], m, Slot(n))
  BY DEF OpCall
<1>2. /\ phase = "run" /\ frames # <<>>
      /\ UNCHANGED <<heap, openUpvalues, globals, compiling, ast, phase, req, ops, gc,
                     bytesAllocated, nextGC>>
  BY DEF OpCall, Running, NoAllocation
<1>3. n + 1 \in Nat /\ n \in 0 .. n + 1 /\ n \in 0 .. (n + 1) - 1 /\ n + 1 >= 1
  OBVIOUS
<1>4. Peek(n) \in live /\ Slot(n) \in 2 .. Len(stack)
  BY <1>1, <1>2, <1>3, OperandFacts
<1>5. /\ Slot(n) \in Nat \ {0} /\ Slot(n) \in DOMAIN stack /\ stack \in Seq(live \cup {Nil})
      /\ \A u \in openUpvalues : loc[u] <= Len(stack)
      /\ req = NoRequest
  <2>1. /\ Len(stack) \in Nat /\ stack \in Seq(live \cup {Nil})
        /\ DOMAIN stack = 1 .. Len(stack) /\ req = NoRequest
        /\ \A u \in openUpvalues : loc[u] \in 1 .. Len(stack)
    BY <1>2, AtRest
  <2>2. Slot(n) \in Nat \ {0} /\ Slot(n) \in DOMAIN stack
    <3> HIDE DEF Slot
    <3> QED BY <2>1, <1>4
  <2>3. \A u \in openUpvalues : loc[u] <= Len(stack)
    BY <2>1
  <2> HIDE DEF Slot
  <2> QED BY <2>1, <2>2, <2>3
<1>6. CASE Enter(stack, Peek(n), Slot(n))
  <2> HIDE DEF Slot
  <2> QED BY <1>2, <1>4, <1>5, <1>6, EnterStep
<1>7. ASSUME NEW m \in ref[Peek(n)], NEW r \in ref[Peek(n)],
             Enter([stack EXCEPT ![Slot(n)] = r], m, Slot(n))
      PROVE  IInv'
  <2> DEFINE s == [stack EXCEPT ![Slot(n)] = r]
  <2>1. m \in live /\ r \in live
    BY <1>4, AtRest
  <2>2. s \in Seq(live \cup {Nil}) /\ Len(s) = Len(stack)
    <3> HIDE DEF Slot
    <3> QED BY <1>5, <2>1, StackOps
  <2>3. \A u \in openUpvalues : loc[u] <= Len(s)
    BY <1>5, <2>2
  <2>4. Enter(s, m, Slot(n))
    BY <1>7
  <2> HIDE DEF s, Slot
  <2> QED BY <1>2, <1>5, <2>1, <2>2, <2>3, <2>4, EnterStep
<1> QED BY <1>1, <1>6, <1>7

LEMMA RuntimeErrorStep == IInv /\ RuntimeError => IInv'
<1> SUFFICES ASSUME IInv, RuntimeError PROVE IInv'
  OBVIOUS
<1>1. /\ phase = "run" /\ stack' = <<>> /\ frames' = <<>> /\ openUpvalues' = {}
      /\ UNCHANGED <<live, kind, ref, text, loc, strings, globals, compiling, ast, phase, req,
                     ops, gc, bytesAllocated, nextGC>>
  BY DEF RuntimeError, Running, NoAllocation, heap
<1>2. HeapOK' /\ OpenSlots'
  BY <1>1, AtRest DEF HeapOK, OpenSlots
<1>3. RootsIn(live)'
  BY <1>1, AtRest DEF RootsIn
<1> QED BY <1>1, <1>2, <1>3, AtRest, RunStep

LEMMA ExecuteStep == IInv /\ Execute => IInv'
<1> SUFFICES ASSUME IInv, Execute PROVE IInv'
  OBVIOUS
<1>1. CASE OpNil
  BY <1>1, PushStep DEF OpNil, Running
<1>2. CASE OpGetGlobal
  BY <1>2, AtRest, PushStep DEF OpGetGlobal, Running
<1> QED BY <1>1, <1>2, OpConstantStep, OpGetLocalStep, OpSetLocalStep, OpPopStep,
           OpDefineGlobalStep, OpGetUpvalueStep, OpSetUpvalueStep, OpGetFieldStep,
           OpSetFieldStep, OpMethodStep, OpInheritStep, OpCloseUpvalueStep, OpCallStep, OpReturnStep,
           OpTailCallStep, RuntimeErrorStep DEF Execute

-----------------------------------------------------------------------------
(* Opcodes and natives that ask for an object.                             *)

LEMMA AllocateShape ==
    ASSUME NEW op, NEW k, NEW t, NEW held, NEW slot, Allocate(op, k, t, held, slot)
    PROVE  /\ req'.op = op /\ req'.slot = slot /\ req'.held = held /\ req'.kind = k
           /\ phase' \in {"mark", "alloc"}
           /\ UNCHANGED <<live, kind, ref, text, loc, strings>>
BY DEF Allocate, heap

\* What the instruction at hand can name is reachable.
LEMMA StackReach ==
    ASSUME IInv
    PROVE  /\ \A i \in DOMAIN stack : stack[i] # Nil => stack[i] \in Reach
           /\ \A c \in ToSet(stack) : c # Nil => c \in Reach
           /\ \A o \in Reach : ref[o] \subseteq Reach
<1>1. Roots \subseteq Reach
  BY ReachLive
<1>2. \A i \in DOMAIN stack : stack[i] \in ToSet(stack)
  BY DEF ToSet
<1>3. \A c \in ToSet(stack) : c # Nil => c \in Reach
  BY <1>1 DEF Roots
<1>4. \A o \in Reach : ref[o] \subseteq Reach
  BY AtRest, ReachStep DEF Reach
<1> QED BY <1>2, <1>3, <1>4

\* A request that leaves the roots alone.
LEMMA AskStep ==
    ASSUME IInv,
           NEW op \in Handlers, NEW k \in Kinds, NEW t \in Text \cup {NoText},
           NEW held \in SUBSET Reach, NEW slot \in Nat,
           phase \in {"run", "deliver", "loop"},
           Allocate(op, k, t, held, slot), k # "str",
           UNCHANGED roots, UNCHANGED ast,
           Handler'
    PROVE  IInv'
<1>1. UNCHANGED <<stack, frames, openUpvalues, globals, compiling, live, ref, loc>>
  BY AllocateShape DEF roots
<1>2. RootsIn(live)' /\ OpenSlots'
  BY <1>1, AtRest DEF RootsIn, OpenSlots
<1>3. ReachFrom(Roots', ref, live) = Reach
  BY <1>1 DEF Reach, Roots, FrameClosures
<1>4. held \in SUBSET live
  BY ReachLive
<1>5. ast' \subseteq Obj
  BY AtRest
<1> QED BY <1>2, <1>3, <1>4, <1>5, RequestStep

LEMMA AskString ==
    ASSUME Exercised = {}, IInv,
           NEW op \in Handlers, NEW t \in Text, NEW held \in SUBSET live, NEW slot \in Nat,
           phase \in {"run", "deliver", "loop"},
           CopyString(op, t, held, slot),
           held = {} \/ phase' # "mark",
           UNCHANGED roots, UNCHANGED ast,
           Handler'
    PROVE  IInv'
<1>1. UNCHANGED <<stack, frames, openUpvalues, globals, compiling, live, ref, loc>>
  BY CopyStringShape DEF roots, heap
<1>2. RootsIn(live)' /\ OpenSlots'
  BY <1>1, AtRest DEF RootsIn, OpenSlots
<1>3. ast' \subseteq Obj
  BY AtRest
<1> QED BY <1>2, <1>3, CopyStringStep

LEMMA OpArrayStep == IInv /\ OpArray => IInv'
<1> SUFFICES ASSUME IInv, OpArray PROVE IInv'
  OBVIOUS
<1>1. PICK n \in 0 .. 2 : Operands(n) /\ Allocate("ARRAY", "arr", NoText, {}, n)
  BY DEF OpArray
<1>2. phase = "run" /\ frames # <<>> /\ UNCHANGED roots /\ UNCHANGED ast
  BY DEF OpArray, Running
<1>3. n \in 0 .. Len(stack) /\ \A u \in openUpvalues : loc[u] <= Len(stack) - n
  <2>1. n \in Nat /\ Len(stack) \in Nat
    BY AtRest
  <2>2. Len(stack) - n \in 1 .. Len(stack) /\ \A u \in openUpvalues : loc[u] <= Len(stack) - n
    BY <1>1, <1>2, <2>1, OperandFacts
  <2> QED BY <2>1, <2>2
<1>4. /\ req'.op = "ARRAY" /\ req'.slot = n /\ phase' # "run"
      /\ UNCHANGED <<stack, openUpvalues, loc>>
  BY <1>1, <1>2, AllocateShape DEF roots
<1>5. Handler'
  BY <1>3, <1>4 DEF Handler
<1>6. "ARRAY" \in Handlers /\ "arr" \in Kinds /\ n \in Nat
  BY DEF Handlers, Kinds
<1> QED BY <1>1, <1>2, <1>5, <1>6, AskStep

LEMMA OpClassStep == IInv /\ OpClass => IInv'
<1> SUFFICES ASSUME IInv, OpClass PROVE IInv'
  OBVIOUS
<1>1. PICK n \in Constants : Allocate("CLASS", "cls", NoText, {n}, 0)
  BY DEF OpClass
<1>2. phase = "run" /\ frames # <<>> /\ UNCHANGED roots /\ UNCHANGED ast
  BY DEF OpClass, Running
<1>3. {n} \in SUBSET Reach
  BY <1>2, RunningFrame
<1>4. req'.op = "CLASS" /\ phase' # "run"
  BY <1>1, AllocateShape
<1>5. Handler'
  BY <1>4 DEF Handler
<1>6. "CLASS" \in Handlers /\ "cls" \in Kinds
  BY DEF Handlers, Kinds
<1> QED BY <1>1, <1>2, <1>3, <1>5, <1>6, AskStep

LEMMA OpClosureStep == IInv /\ OpClosure => IInv'
<1> SUFFICES ASSUME IInv, OpClosure PROVE IInv'
  OBVIOUS
<1>1. PICK f \in Constants : Allocate("CLOSURE", "clo", NoText, {f}, 0)
  BY DEF OpClosure
<1>2. phase = "run" /\ frames # <<>> /\ UNCHANGED roots /\ UNCHANGED ast
  BY DEF OpClosure, Running
<1>3. {f} \in SUBSET Reach
  BY <1>2, RunningFrame
<1>4. req'.op = "CLOSURE" /\ phase' # "run" /\ frames' = frames
  BY <1>1, <1>2, AllocateShape DEF roots
<1>5. Handler'
  BY <1>2, <1>4 DEF Handler
<1>6. "CLOSURE" \in Handlers /\ "clo" \in Kinds
  BY DEF Handlers, Kinds
<1> QED BY <1>1, <1>2, <1>3, <1>5, <1>6, AskStep

LEMMA OpBindMethodStep == IInv /\ OpBindMethod => IInv'
<1> SUFFICES ASSUME IInv, OpBindMethod PROVE IInv'
  OBVIOUS
<1>1. PICK k \in ref[Peek(0)] : \E m \in ref[k] : Allocate("BIND", "bnd", NoText, {Peek(0), m}, 0)
  BY DEF OpBindMethod, Methods
<1>2. PICK m \in ref[k] : Allocate("BIND", "bnd", NoText, {Peek(0), m}, 0)
  BY <1>1
<1>3. /\ phase = "run" /\ frames # <<>> /\ UNCHANGED roots /\ UNCHANGED ast
      /\ Operands(1) /\ Peek(0) # Nil
  BY DEF OpBindMethod, Running
<1>4. Len(stack) - 1 \in 1 .. Len(stack) /\ Len(stack) \in Nat
  BY <1>3, OperandFacts, AtRest
<1>5. Len(stack) - 0 \in DOMAIN stack
  BY <1>4, AtRest
<1>6. Peek(0) \in Reach
  BY <1>3, <1>5, StackReach DEF Peek
<1>7. {Peek(0), m} \in SUBSET Reach
  BY <1>1, <1>2, <1>6, StackReach
<1>8. req'.op = "BIND" /\ phase' # "run" /\ stack' # <<>>
  BY <1>2, <1>3, <1>4, AllocateShape DEF roots
<1>9. Handler'
  BY <1>8 DEF Handler
<1>10. "BIND" \in Handlers /\ "bnd" \in Kinds
  BY DEF Handlers, Kinds
<1> QED BY <1>2, <1>3, <1>7, <1>9, <1>10, AskStep

LEMMA OpGetSuperStep == Exercised = {} /\ IInv /\ OpGetSuper => IInv'
<1> SUFFICES ASSUME Exercised = {}, IInv, OpGetSuper PROVE IInv'
  OBVIOUS
<1>1. PICK m \in Methods(Peek(0)) :
          Allocate("BIND", "bnd", NoText, {Peek(1), m}, 0) /\ m \in Reach'
  BY DEF OpGetSuper
<1>2. /\ phase = "run" /\ frames # <<>> /\ Operands(2) /\ Nil \notin {Peek(0), Peek(1)}
      /\ stack' = Drop(1) /\ UNCHANGED <<frames, openUpvalues, globals, compiling, ast>>
  BY DEF OpGetSuper, Running, OnlyRoots
<1>3. UNCHANGED <<live, ref, loc>> /\ req'.op = "BIND" /\ phase' # "run"
  BY <1>1, AllocateShape
<1>4. /\ Len(stack) - 2 \in 1 .. Len(stack) /\ Len(stack) \in Nat
      /\ Peek(0) \in live /\ Peek(1) \in live
      /\ \A u \in openUpvalues : loc[u] <= Len(stack) - 2
  <2>1. Len(stack) \in Nat
    BY AtRest
  <2>2. /\ Len(stack) - 2 \in 1 .. Len(stack)
        /\ Peek(0) \in live \cup {Nil} /\ Peek(1) \in live \cup {Nil}
        /\ \A u \in openUpvalues : loc[u] <= Len(stack) - 2
    BY <1>2, OperandFacts
  <2> QED BY <1>2, <2>1, <2>2
<1>5. stack' \in Seq(live \cup {Nil}) /\ Len(stack') = Len(stack) - 1
  BY <1>2, <1>4, AtRest, StackPrefix DEF Drop
<1>6. RootsIn(live)' /\ OpenSlots'
  BY <1>2, <1>3, <1>4, <1>5, AtRest DEF RootsIn, OpenSlots
<1>7. Handler'
  BY <1>3, <1>4, <1>5 DEF Handler
<1>8. Peek(1) \in ReachFrom(Roots', ref, live)
  <2>1. Len(stack) - 1 \in 1 .. Len(stack') /\ stack'[Len(stack) - 1] = Peek(1)
    BY <1>2, <1>4, <1>5, AtRest DEF Drop, Peek
  <2>2. Peek(1) \in Roots'
    BY <1>2, <1>5, <2>1 DEF Roots, ToSet
  <2>3. Roots' \in SUBSET Obj
    <3>1. ToSet(stack') \ {Nil} \subseteq live
      BY <1>5, ToSetSeq
    <3>2. Roots' \subseteq Roots \cup (ToSet(stack') \ {Nil})
      BY <1>2 DEF Roots, FrameClosures
    <3> QED BY <3>1, <3>2, RootsLive
  <2> QED BY <2>2, <2>3, ReachRoots
<1>9. {Peek(1), m} \subseteq ReachFrom(Roots', ref, live) /\ {Peek(1), m} \in SUBSET live
  BY <1>1, <1>3, <1>4, <1>8, AtRest DEF Reach, Methods
<1>10. "BIND" \in Handlers /\ "bnd" \in Kinds /\ ast' \subseteq Obj
  BY <1>2, AtRest DEF Handlers, Kinds
<1> QED BY <1>1, <1>2, <1>6, <1>7, <1>9, <1>10, RequestStep

LEMMA OpInstantiateStep == IInv /\ OpInstantiate => IInv'
<1> SUFFICES ASSUME IInv, OpInstantiate PROVE IInv'
  OBVIOUS
<1>1. PICK n \in 0 .. 1 :
          /\ Operands(n + 1) /\ Peek(n) # Nil
          /\ Allocate("INSTANCE", "ins", NoText, {Peek(n)}, Len(stack) - n)
  BY DEF OpInstantiate
<1>2. phase = "run" /\ frames # <<>> /\ UNCHANGED roots /\ UNCHANGED ast
  BY DEF OpInstantiate, Running
<1>3. n + 1 \in Nat /\ n \in 0 .. (n + 1) - 1 /\ n + 1 >= 1
  OBVIOUS
<1>4. Len(stack) - n \in 2 .. Len(stack)
  BY <1>1, <1>2, <1>3, OperandFacts
<1>5. Len(stack) - n \in DOMAIN stack /\ Len(stack) - n \in Nat
  BY <1>4, AtRest
<1>6. {Peek(n)} \in SUBSET Reach
  BY <1>1, <1>5, StackReach DEF Peek
<1>7. /\ req'.op = "INSTANCE" /\ phase' \in {"mark", "alloc"} /\ stack' = stack
      /\ req'.slot = Len(stack) - n /\ req'.kind = "ins"
  BY <1>1, <1>2, AllocateShape DEF roots
<1>8. Handler'
  BY <1>4, <1>5, <1>7, AtRest DEF Handler
<1>9. "INSTANCE" \in Handlers /\ "ins" \in Kinds
  BY DEF Handlers, Kinds
<1> QED BY <1>1, <1>2, <1>5, <1>6, <1>8, <1>9, AskStep

LEMMA OpSplitStep == IInv /\ OpSplit => IInv'
<1> SUFFICES ASSUME IInv, OpSplit PROVE IInv'
  OBVIOUS
<1>1. /\ Operands(2) /\ phase = "run" /\ frames # <<>> /\ UNCHANGED roots /\ UNCHANGED ast
      /\ Allocate("SPLIT", "arr", NoText, {}, Len(stack) - 1)
  BY DEF OpSplit, Running
<1>2. /\ Len(stack) - 2 \in 1 .. Len(stack) /\ Len(stack) \in Nat
      /\ \A u \in openUpvalues : loc[u] <= Len(stack) - 2 /\ loc[u] \in Nat
  BY <1>1, OperandFacts, AtRest
<1>3. /\ req'.op = "SPLIT" /\ phase' \in {"mark", "alloc"} /\ req'.slot = Len(stack) - 1
      /\ UNCHANGED <<stack, openUpvalues, loc>>
  BY <1>1, AllocateShape DEF roots
<1>4. Handler'
  BY <1>2, <1>3 DEF Handler
<1>5. "SPLIT" \in Handlers /\ "arr" \in Kinds /\ Len(stack) - 1 \in Nat
  BY <1>2 DEF Handlers, Kinds
<1> QED BY <1>1, <1>4, <1>5, AskStep

LEMMA CaptureNewStep == IInv /\ CaptureNew => IInv'
<1> SUFFICES ASSUME IInv, CaptureNew PROVE IInv'
  OBVIOUS
<1>1. PICK i \in Locals : Allocate("UPVALUE", "upv", NoText, req.held, i)
  BY DEF CaptureNew
<1>2. phase = "loop" /\ req.op = "CAPTURE_LOOP" /\ UNCHANGED roots /\ UNCHANGED ast
  BY DEF CaptureNew, CanCapture, InLoop
<1>3. frames # <<>> /\ req.held \subseteq ToSet(stack) /\ req.held \subseteq live
  BY <1>2 DEF IInv, Handler, Held
<1>4. Last(frames).slots \in Nat \ {0}
  BY <1>3, RunningFrame
<1>5. i \in 1 .. Len(stack) /\ i \in Nat
  BY <1>4, AtRest DEF Locals
<1>6. req.held \in SUBSET Reach
  BY <1>3, StackReach, AtRest, ValuesAssumption
<1>7. /\ req'.op = "UPVALUE" /\ phase' \in {"mark", "alloc"} /\ req'.slot = i
      /\ req'.held = req.held /\ UNCHANGED <<stack, frames>>
  BY <1>1, <1>2, AllocateShape DEF roots
<1>8. Handler'
  BY <1>3, <1>5, <1>7 DEF Handler
<1>9. "UPVALUE" \in Handlers /\ "upv" \in Kinds
  BY DEF Handlers, Kinds
<1> QED BY <1>1, <1>2, <1>5, <1>6, <1>8, <1>9, AskStep

LEMMA OpArrayConcatStep == Exercised = {} /\ IInv /\ OpArrayConcat => IInv'
<1> SUFFICES ASSUME Exercised = {}, IInv, OpArrayConcat PROVE IInv'
  OBVIOUS
<1> DEFINE held == {Peek(0), Peek(1)}
<1>1. /\ phase = "run" /\ frames # <<>> /\ Operands(2) /\ Nil \notin held
      /\ stack' = Drop(2) /\ UNCHANGED <<frames, openUpvalues, globals, compiling, ast>>
      /\ Allocate("ARRAY_CONCAT", "arr", NoText, held, 0)
      /\ held \subseteq Reach'
  BY DEF OpArrayConcat, Running, OnlyRoots
<1>2. UNCHANGED <<live, ref, loc>> /\ req'.op = "ARRAY_CONCAT" /\ phase' # "run"
  BY <1>1, AllocateShape
<1>3. /\ stack' \in Seq(live \cup {Nil}) /\ Len(stack') = Len(stack) - 2
      /\ Len(stack) - 2 \in 1 .. Len(stack)
      /\ held \in SUBSET live
      /\ \A u \in openUpvalues : loc[u] <= Len(stack) - 2
  BY <1>1, OperandFacts
<1>4. RootsIn(live)' /\ OpenSlots'
  BY <1>1, <1>2, <1>3, AtRest DEF RootsIn, OpenSlots
<1>5. Handler'
  BY <1>2 DEF Handler
<1>6. held \subseteq ReachFrom(Roots', ref, live)
  BY <1>1, <1>2 DEF Reach
<1>7. "ARRAY_CONCAT" \in Handlers /\ "arr" \in Kinds /\ ast' \subseteq Obj
  BY <1>1, AtRest DEF Handlers, Kinds
<1> HIDE DEF held
<1> QED BY <1>1, <1>3, <1>4, <1>5, <1>6, <1>7, RequestStep

LEMMA OpConcatStep == Exercised = {} /\ IInv /\ OpConcat => IInv'
<1> SUFFICES ASSUME Exercised = {}, IInv, OpConcat PROVE IInv'
  OBVIOUS
<1>1. /\ phase = "run" /\ frames # <<>> /\ Operands(2)
      /\ stack' = Drop(2) /\ UNCHANGED <<frames, openUpvalues, globals, compiling, ast>>
  BY DEF OpConcat, Running, OnlyRoots
<1>2. PICK t \in Text : CopyString("CONCAT", t, {}, 0)
  BY DEF OpConcat
<1>3. UNCHANGED <<live, ref, loc>> /\ req'.op = "CONCAT" /\ phase' # "run"
  BY <1>2, CopyStringShape DEF heap
<1>4. /\ stack' \in Seq(live \cup {Nil}) /\ Len(stack') = Len(stack) - 2
      /\ Len(stack) - 2 \in 1 .. Len(stack)
      /\ \A u \in openUpvalues : loc[u] <= Len(stack) - 2
  BY <1>1, OperandFacts
<1>5. RootsIn(live)' /\ OpenSlots'
  BY <1>1, <1>3, <1>4, AtRest DEF RootsIn, OpenSlots
<1>6. Handler'
  BY <1>3 DEF Handler
<1>7. "CONCAT" \in Handlers /\ ast' \subseteq Obj
  BY <1>1, AtRest DEF Handlers
<1> QED BY <1>1, <1>2, <1>5, <1>6, <1>7, CopyStringStep

LEMMA OpCallNativeStep == Exercised = {} /\ IInv /\ OpCallNative => IInv'
<1> SUFFICES ASSUME Exercised = {}, IInv, OpCallNative PROVE IInv'
  OBVIOUS
<1>1. PICK n \in 0 .. 1, t \in Text :
          Operands(n + 1) /\ CopyString("NATIVE", t, {}, Len(stack) - n)
  BY DEF OpCallNative
<1>2. phase = "run" /\ frames # <<>> /\ UNCHANGED roots /\ UNCHANGED ast
  BY DEF OpCallNative, Running
<1>3. n + 1 \in Nat
  OBVIOUS
<1>4. /\ Len(stack) - (n + 1) \in 1 .. Len(stack) /\ Len(stack) \in Nat
      /\ \A u \in openUpvalues : loc[u] <= Len(stack) - (n + 1) /\ loc[u] \in Nat
  BY <1>1, <1>2, <1>3, OperandFacts, AtRest
<1>5. /\ req'.op = "NATIVE" /\ phase' # "run" /\ req'.slot = Len(stack) - n
      /\ UNCHANGED <<stack, openUpvalues, loc>>
  BY <1>1, <1>2, CopyStringShape DEF roots, heap
<1>6. Handler'
  BY <1>4, <1>5 DEF Handler
<1>7. "NATIVE" \in Handlers /\ Len(stack) - n \in Nat
  BY <1>4 DEF Handlers
<1> QED BY <1>1, <1>2, <1>6, <1>7, AskString

LEMMA SplitPieceStep == Exercised = {} /\ IInv /\ SplitPiece => IInv'
<1> SUFFICES ASSUME Exercised = {}, IInv, SplitPiece PROVE IInv'
  OBVIOUS
<1>1. PICK t \in Text : CopyString("PIECE", t, req.held, req.slot)
  BY DEF SplitPiece
<1>2. /\ phase = "loop" /\ req.op = "SPLIT_LOOP" /\ phase' # "mark"
      /\ UNCHANGED roots /\ UNCHANGED ast
  BY DEF SplitPiece, InLoop
<1>3. req.held \in SUBSET live /\ req.slot \in Nat
  BY <1>2 DEF IInv, Held, Types, Requests
<1>4. /\ req'.op = "PIECE" /\ phase' # "run" /\ req'.slot = req.slot
      /\ UNCHANGED <<stack, openUpvalues, loc>>
  BY <1>1, <1>2, CopyStringShape DEF roots, heap
<1>5. Handler'
  BY <1>2, <1>4 DEF IInv, Handler
<1>6. "PIECE" \in Handlers
  BY DEF Handlers
<1> QED BY <1>1, <1>2, <1>3, <1>5, <1>6, AskString

-----------------------------------------------------------------------------
(* The steps that run when the object has been made.                       *)

\* The end of a handler that leaves a stack and stores into one object.
LEMMA DoneStep ==
    ASSUME IInv, phase \in {"deliver", "loop"}, Done,
           UNCHANGED <<live, kind, text, loc, strings, frames>>, OnlyRoots,
           ref' \in [Obj -> SUBSET Obj], \A o \in live : ref'[o] \subseteq live,
           stack' \in Seq(live \cup {Nil}),
           \A u \in openUpvalues : loc[u] <= Len(stack')
    PROVE  IInv'
<1>1. /\ phase' = "run" /\ req' = NoRequest
      /\ UNCHANGED <<ops, gc, bytesAllocated, nextGC, openUpvalues, globals, compiling, ast>>
  BY DEF Done, OnlyRoots
<1>2. HeapOK' /\ RootsIn(live)'
  BY <1>1, AtRest DEF HeapOK, RootsIn
<1>3. Len(stack') \in Nat
  OBVIOUS
<1>4. OpenSlots'
  BY <1>1, <1>3, AtRest DEF OpenSlots
<1> QED BY <1>1, <1>2, <1>4, AtRest, RunStep

\* What a handler holds, and the object it gets, are allocated.
LEMMA Delivered ==
    ASSUME IInv, phase \in {"deliver", "loop"}
    PROVE  /\ req.held \subseteq live /\ req.slot \in Nat
           /\ phase = "deliver" => req.result \in live
BY DEF IInv, Held, Types, Requests

\* A value pushed on a prefix of the stack that covers the open upvalues.
LEMMA ReplacedTop ==
    ASSUME IInv, NEW n \in Nat, n <= Len(stack), NEW v \in live \cup {Nil},
           stack' = Append(SubSeq(stack, 1, n), v)
    PROVE  stack' \in Seq(live \cup {Nil}) /\ Len(stack') = n + 1
<1> DEFINE s == SubSeq(stack, 1, n)
<1>1. s \in Seq(live \cup {Nil}) /\ Len(s) = n
  BY AtRest, StackPrefix
<1>2. Append(s, v) \in Seq(live \cup {Nil}) /\ Len(Append(s, v)) = Len(s) + 1
  <2> HIDE DEF s
  <2> QED BY <1>1, StackOps
<1> QED BY <1>1, <1>2

LEMMA DeliverArrayStep == IInv /\ DeliverArray => IInv'
<1> SUFFICES ASSUME IInv, DeliverArray PROVE IInv'
  OBVIOUS
<1> DEFINE elements == SubSeq(stack, Len(stack) - req.slot + 1, Len(stack))
<1>1. /\ phase = "deliver" /\ req.op = "ARRAY" /\ Done /\ OnlyRoots
      /\ ref' = [ref EXCEPT ![req.result] = ToSet(elements) \ {Nil}]
      /\ stack' = Append(Drop(req.slot), req.result)
      /\ UNCHANGED <<live, kind, text, loc, strings, frames>>
  BY DEF DeliverArray, Deliver, Push
<1>2. req.result \in live /\ Len(stack) \in Nat /\ stack \in Seq(live \cup {Nil})
  BY <1>1, Delivered, AtRest
<1>3. /\ req.slot \in 0 .. Len(stack)
      /\ \A u \in openUpvalues : loc[u] <= Len(stack) - req.slot /\ loc[u] \in Nat
  BY <1>1, AtRest DEF IInv, Handler
<1>4. elements \in Seq(live \cup {Nil})
  BY <1>2, <1>3
<1>5. ToSet(elements) \ {Nil} \in SUBSET live
  <2> HIDE DEF elements
  <2> QED BY <1>4, ToSetSeq
<1>6. ref' \in [Obj -> SUBSET Obj] /\ \A o \in live : ref'[o] \subseteq live
  <2> HIDE DEF elements
  <2> QED BY <1>1, <1>5, AtRest
<1>7. Len(stack) - req.slot \in Nat /\ Len(stack) - req.slot <= Len(stack)
  BY <1>2, <1>3
<1>8. stack' \in Seq(live \cup {Nil}) /\ Len(stack') = Len(stack) - req.slot + 1
  BY <1>1, <1>2, <1>7, ReplacedTop DEF Drop
<1>9. \A u \in openUpvalues : loc[u] <= Len(stack')
  BY <1>3, <1>7, <1>8
<1> QED BY <1>1, <1>6, <1>8, <1>9, DoneStep

\* A handler that ends by pushing its result.
LEMMA DeliverPush ==
    ASSUME IInv, phase \in {"deliver", "loop"}, Done,
           UNCHANGED <<live, kind, text, loc, strings, frames>>, OnlyRoots,
           ref' \in [Obj -> SUBSET Obj], \A o \in live : ref'[o] \subseteq live,
           NEW v \in live, stack' = Append(stack, v)
    PROVE  IInv'
<1>1. stack' \in Seq(live \cup {Nil}) /\ Len(stack') = Len(stack) + 1
  BY AtRest, StackOps
<1>2. \A u \in openUpvalues : loc[u] <= Len(stack')
  BY <1>1, AtRest
<1> QED BY <1>1, <1>2, DoneStep

LEMMA DeliverArrayConcatStep == IInv /\ DeliverArrayConcat => IInv'
<1> SUFFICES ASSUME IInv, DeliverArrayConcat PROVE IInv'
  OBVIOUS
<1>1. /\ phase = "deliver" /\ Done /\ OnlyRoots
      /\ ref' = [ref EXCEPT ![req.result] = UNION {ref[a] : a \in req.held}]
      /\ stack' = Append(stack, req.result)
      /\ UNCHANGED <<live, kind, text, loc, strings, frames>>
  BY DEF DeliverArrayConcat, Deliver, Push
<1>2. req.result \in live /\ req.held \subseteq live
  BY <1>1, Delivered
<1>3. UNION {ref[a] : a \in req.held} \in SUBSET live
  BY <1>2, AtRest
<1>4. ref' \in [Obj -> SUBSET Obj] /\ \A o \in live : ref'[o] \subseteq live
  BY <1>1, <1>3, AtRest
<1> QED BY <1>1, <1>2, <1>4, DeliverPush

LEMMA DeliverConcatStep == IInv /\ (DeliverConcat \/ DeliverClass) => IInv'
<1> SUFFICES ASSUME IInv, DeliverConcat \/ DeliverClass PROVE IInv'
  OBVIOUS
<1>1. /\ phase = "deliver" /\ Done /\ OnlyRoots
      /\ stack' = Append(stack, req.result)
      /\ UNCHANGED <<live, kind, ref, text, loc, strings, frames>>
  BY DEF DeliverConcat, DeliverClass, Deliver, Push, heap
<1>2. req.result \in live
  BY <1>1, Delivered
<1>3. ref' \in [Obj -> SUBSET Obj] /\ \A o \in live : ref'[o] \subseteq live
  BY <1>1, AtRest
<1> QED BY <1>1, <1>2, <1>3, DeliverPush

LEMMA DeliverBindMethodStep == IInv /\ DeliverBindMethod => IInv'
<1> SUFFICES ASSUME IInv, DeliverBindMethod PROVE IInv'
  OBVIOUS
<1>1. /\ phase = "deliver" /\ req.op = "BIND" /\ Done /\ OnlyRoots
      /\ stack' = Append(Drop(1), req.result)
      /\ UNCHANGED <<live, kind, ref, text, loc, strings, frames>>
  BY DEF DeliverBindMethod, Deliver, heap
<1>2. req.result \in live
  BY <1>1, Delivered
<1>3. stack # <<>>
  BY <1>1 DEF IInv, Handler
<1>4. Len(stack) - 1 \in Nat /\ Len(stack) - 1 <= Len(stack)
  BY <1>3, AtRest, SeqEnds
<1>5. stack' \in Seq(live \cup {Nil}) /\ Len(stack') = Len(stack) - 1 + 1
  BY <1>1, <1>2, <1>4, ReplacedTop DEF Drop
<1>6. \A u \in openUpvalues : loc[u] <= Len(stack')
  BY <1>5, AtRest
<1>7. ref' \in [Obj -> SUBSET Obj] /\ \A o \in live : ref'[o] \subseteq live
  BY <1>1, AtRest
<1> QED BY <1>1, <1>5, <1>6, <1>7, DoneStep

LEMMA DeliverInstanceStep == Exercised = {} /\ IInv /\ DeliverInstance => IInv'
<1> SUFFICES ASSUME Exercised = {}, IInv, DeliverInstance PROVE IInv'
  OBVIOUS
<1>1. /\ phase = "deliver" /\ req.op = "INSTANCE"
      /\ stack' = [stack EXCEPT ![req.slot] = req.result]
      /\ CopyString("INIT", InitText, req.held, req.slot)
      /\ UNCHANGED <<frames, openUpvalues, globals, compiling, ast>>
  BY DEF DeliverInstance, Deliver, OnlyRoots
<1>2. /\ req.result \in live /\ req.held \in SUBSET live /\ req.slot \in Nat
  BY <1>1, Delivered
<1>3. req.slot \in DOMAIN stack /\ req.held \subseteq ref[req.result]
  BY <1>1, AtRest DEF IInv, Handler
<1>4. stack' \in Seq(live \cup {Nil}) /\ Len(stack') = Len(stack)
  BY <1>1, <1>2, <1>3, AtRest, StackOps
<1>5. UNCHANGED <<live, ref, loc>> /\ req'.op = "INIT" /\ req'.slot = req.slot
      /\ phase' # "run"
  BY <1>1, CopyStringShape DEF heap
<1>6. RootsIn(live)' /\ OpenSlots'
  BY <1>1, <1>4, <1>5, AtRest DEF RootsIn, OpenSlots
<1>7. Handler'
  <2>1. req.slot \in 1 .. Len(stack)
    BY <1>3, AtRest
  <2> QED BY <1>4, <1>5, <2>1 DEF Handler
<1>8. req.held \subseteq ReachFrom(Roots', ref, live)
  <2>1. stack'[req.slot] = req.result /\ DOMAIN stack' = DOMAIN stack
    BY <1>1, <1>3, AtRest
  <2>2. req.result \in ToSet(stack')
    BY <1>3, <2>1 DEF ToSet
  <2>3. req.result # Nil
    BY <1>2, AtRest, ValuesAssumption
  <2>4. req.result \in Roots'
    BY <2>2, <2>3 DEF Roots
  <2>5. Roots' \in SUBSET Obj
    <3>1. ToSet(stack') \ {Nil} \subseteq live
      BY <1>4, ToSetSeq
    <3>2. Roots' \subseteq Roots \cup (ToSet(stack') \ {Nil})
      BY <1>1 DEF Roots, FrameClosures
    <3> QED BY <3>1, <3>2, RootsLive
  <2>6. req.result \in ReachFrom(Roots', ref, live)
    BY <2>4, <2>5, ReachRoots
  <2>7. ref \in [Obj -> SUBSET Obj]
    BY AtRest
  <2>8. ref[req.result] \subseteq ReachFrom(Roots', ref, live)
    BY <2>6, <2>7, ReachStep
  <2> QED BY <1>3, <2>8
<1>9. "INIT" \in Handlers /\ InitText \in Text /\ ast' \subseteq Obj
  BY <1>1, AtRest, ValuesAssumption DEF Handlers
<1> QED BY <1>1, <1>2, <1>6, <1>7, <1>8, <1>9, CopyStringStep

LEMMA DeliverInitStep == IInv /\ DeliverInit => IInv'
<1> SUFFICES ASSUME IInv, DeliverInit PROVE IInv'
  OBVIOUS
<1>1. /\ phase = "deliver" /\ req.op = "INIT" /\ phase' = "run" /\ req' = NoRequest
      /\ UNCHANGED <<heap, globals, compiling, ast, ops, gc, bytesAllocated, nextGC>>
  BY DEF DeliverInit, Deliver, Done
<1>2. /\ req.held \subseteq live /\ req.slot \in Nat \ {0}
  BY <1>1, Delivered DEF IInv, Handler
<1>3. ASSUME NEW k \in req.held, NEW m \in ref[k], Enter(stack, m, req.slot),
             UNCHANGED openUpvalues
      PROVE  IInv'
  <2>1. m \in live /\ stack \in Seq(live \cup {Nil})
    BY <1>2, AtRest
  <2>2. \A u \in openUpvalues : loc[u] <= Len(stack)
    BY AtRest
  <2> QED BY <1>1, <1>2, <1>3, <2>1, <2>2, EnterStep
<1>4. CASE UNCHANGED <<stack, frames, openUpvalues>>
  <2>1. Done /\ OnlyRoots /\ UNCHANGED <<live, kind, ref, text, loc, strings>>
    BY <1>1, <1>4 DEF Done, OnlyRoots, heap
  <2>2. \A u \in openUpvalues : loc[u] <= Len(stack)
    BY AtRest
  <2> QED BY <1>1, <1>4, <2>1, <2>2, AtRest, DoneStep
<1>5. CASE stack' = <<>> /\ frames' = <<>> /\ openUpvalues' = {}
  <2>1. UNCHANGED <<live, kind, ref, text, loc, strings>>
    BY <1>1 DEF heap
  <2>2. HeapOK' /\ OpenSlots' /\ RootsIn(live)'
    BY <1>1, <1>5, <2>1, AtRest DEF HeapOK, OpenSlots, RootsIn
  <2> QED BY <1>1, <2>1, <2>2, AtRest, RunStep
<1> QED BY <1>3, <1>4, <1>5 DEF DeliverInit, Methods

LEMMA DeliverNativeStep == IInv /\ DeliverNative => IInv'
<1> SUFFICES ASSUME IInv, DeliverNative PROVE IInv'
  OBVIOUS
<1>1. /\ phase = "deliver" /\ req.op = "NATIVE" /\ Done /\ OnlyRoots
      /\ stack' = Append(SubSeq(stack, 1, req.slot - 1), req.result)
      /\ UNCHANGED <<live, kind, ref, text, loc, strings, frames>>
  BY DEF DeliverNative, Deliver, heap
<1>2. req.result \in live
  BY <1>1, Delivered
<1>3. /\ req.slot \in 1 .. Len(stack) /\ Len(stack) \in Nat
      /\ \A u \in openUpvalues : loc[u] < req.slot /\ loc[u] \in Nat
  BY <1>1, AtRest DEF IInv, Handler
<1>4. req.slot - 1 \in Nat /\ req.slot - 1 <= Len(stack)
  BY <1>3
<1>5. stack' \in Seq(live \cup {Nil}) /\ Len(stack') = req.slot - 1 + 1
  BY <1>1, <1>2, <1>4, ReplacedTop
<1>6. \A u \in openUpvalues : loc[u] <= Len(stack')
  BY <1>3, <1>5
<1>7. ref' \in [Obj -> SUBSET Obj] /\ \A o \in live : ref'[o] \subseteq live
  BY <1>1, AtRest
<1> QED BY <1>1, <1>5, <1>6, <1>7, DoneStep

LEMMA ReturnSplitStep == IInv /\ ReturnSplit => IInv'
<1> SUFFICES ASSUME IInv, ReturnSplit PROVE IInv'
  OBVIOUS
<1>1. PICK array \in req.held :
          stack' = Append(SubSeq(stack, 1, req.slot - 1), array)
  BY DEF ReturnSplit
<1>2. /\ phase = "loop" /\ req.op = "SPLIT_LOOP" /\ Done /\ OnlyRoots
      /\ UNCHANGED <<live, kind, ref, text, loc, strings, frames>>
  BY DEF ReturnSplit, InLoop, heap
<1>3. array \in live
  BY <1>1, <1>2, Delivered
<1>4. /\ req.slot \in 1 .. Len(stack) /\ Len(stack) \in Nat
      /\ \A u \in openUpvalues : loc[u] < req.slot /\ loc[u] \in Nat
  BY <1>2, AtRest DEF IInv, Handler
<1>5. req.slot - 1 \in Nat /\ req.slot - 1 <= Len(stack)
  BY <1>4
<1>6. stack' \in Seq(live \cup {Nil}) /\ Len(stack') = req.slot - 1 + 1
  BY <1>1, <1>3, <1>5, ReplacedTop
<1>7. \A u \in openUpvalues : loc[u] <= Len(stack')
  BY <1>4, <1>6
<1>8. ref' \in [Obj -> SUBSET Obj] /\ \A o \in live : ref'[o] \subseteq live
  BY <1>2, AtRest
<1> QED BY <1>2, <1>6, <1>7, <1>8, DoneStep

\* A handler that goes on to another allocation.
LEMMA LoopShape ==
    ASSUME IInv, NEW op \in Handlers, NEW held \in SUBSET live, Loop(op, held)
    PROVE  /\ phase' = "loop" /\ req' \in Requests
           /\ req'.op = op /\ req'.held = held /\ req'.slot = req.slot
           /\ req'.result = Nil
           /\ UNCHANGED <<ops, gc, bytesAllocated, nextGC>>
<1>1. live \subseteq Obj /\ req.slot \in Nat
  BY AtRest DEF Requests
<1>2. req' = [op |-> op, kind |-> "free", text |-> NoText, held |-> held, slot |-> req.slot,
              result |-> Nil]
  BY DEF Loop, NoRequest
<1>3. req' \in Requests
  BY <1>1, <1>2 DEF Requests, Kinds
<1>4. req'.op = op /\ req'.held = held /\ req'.slot = req.slot /\ req'.result = Nil
  BY <1>2
<1> QED BY <1>3, <1>4 DEF Loop

LEMMA DeliverSplitStep == IInv /\ DeliverSplit => IInv'
<1> SUFFICES ASSUME IInv, DeliverSplit PROVE IInv'
  OBVIOUS
<1>1. /\ phase = "deliver" /\ req.op = "SPLIT" /\ Loop("SPLIT_LOOP", {req.result})
      /\ UNCHANGED <<live, kind, ref, text, loc, strings, stack, frames, openUpvalues,
                     globals, compiling, ast>>
  BY DEF DeliverSplit, Deliver, heap, roots
<1>2. {req.result} \in SUBSET live /\ "SPLIT_LOOP" \in Handlers
  BY <1>1, Delivered DEF Handlers
<1>3. /\ phase' = "loop" /\ req' \in Requests /\ req'.op = "SPLIT_LOOP"
      /\ req'.held \subseteq live /\ req'.slot = req.slot /\ req'.result = Nil
      /\ UNCHANGED <<ops, gc, bytesAllocated, nextGC>>
  BY <1>1, <1>2, LoopShape
<1>4. HeapOK' /\ RootsIn(live)' /\ OpenSlots'
  BY <1>1, AtRest DEF HeapOK, RootsIn, OpenSlots
<1>5. Handler'
  BY <1>1, <1>3 DEF IInv, Handler
<1> QED BY <1>1, <1>3, <1>4, <1>5, AtRest, LocalStep

LEMMA DeliverPieceStep == IInv /\ DeliverPiece => IInv'
<1> SUFFICES ASSUME IInv, DeliverPiece PROVE IInv'
  OBVIOUS
<1>1. /\ phase = "deliver" /\ req.op = "PIECE" /\ Loop("SPLIT_LOOP", req.held)
      /\ ref' = [o \in Obj |-> IF o \in req.held THEN ref[o] \cup {req.result} ELSE ref[o]]
      /\ UNCHANGED <<live, kind, text, loc, strings, stack, frames, openUpvalues,
                     globals, compiling, ast>>
  BY DEF DeliverPiece, Deliver, roots
<1>2. req.held \in SUBSET live /\ req.result \in live /\ "SPLIT_LOOP" \in Handlers
  BY <1>1, Delivered DEF Handlers
<1>3. /\ phase' = "loop" /\ req' \in Requests /\ req'.op = "SPLIT_LOOP"
      /\ req'.held \subseteq live /\ req'.slot = req.slot /\ req'.result = Nil
      /\ UNCHANGED <<ops, gc, bytesAllocated, nextGC>>
  BY <1>1, <1>2, LoopShape
<1>4. ref' \in [Obj -> SUBSET Obj] /\ \A o \in live : ref'[o] \subseteq live
  BY <1>1, <1>2, AtRest
<1>5. HeapOK' /\ RootsIn(live)' /\ OpenSlots'
  BY <1>1, <1>4, AtRest DEF HeapOK, RootsIn, OpenSlots
<1>6. Handler'
  BY <1>1, <1>3 DEF IInv, Handler
<1> QED BY <1>1, <1>3, <1>4, <1>5, <1>6, AtRest, LocalStep

LEMMA DeliverClosureStep == IInv /\ DeliverClosure => IInv'
<1> SUFFICES ASSUME IInv, DeliverClosure PROVE IInv'
  OBVIOUS
<1>1. /\ phase = "deliver" /\ req.op = "CLOSURE" /\ Loop("CAPTURE_LOOP", {req.result})
      /\ stack' = Append(stack, req.result)
      /\ UNCHANGED <<live, kind, ref, text, loc, strings, frames, openUpvalues,
                     globals, compiling, ast>>
  BY DEF DeliverClosure, Deliver, Push, OnlyRoots, heap
<1>2. {req.result} \in SUBSET live /\ req.result \in live /\ "CAPTURE_LOOP" \in Handlers
  BY <1>1, Delivered DEF Handlers
<1>3. /\ phase' = "loop" /\ req' \in Requests /\ req'.op = "CAPTURE_LOOP"
      /\ req'.held = {req.result} /\ req'.slot = req.slot /\ req'.result = Nil
      /\ UNCHANGED <<ops, gc, bytesAllocated, nextGC>>
  BY <1>1, <1>2, LoopShape
<1>4. /\ stack' \in Seq(live \cup {Nil}) /\ Len(stack') = Len(stack) + 1
      /\ Len(stack') \in DOMAIN stack' /\ stack'[Len(stack')] = req.result
  BY <1>1, <1>2, AtRest
<1>5. req.result \in ToSet(stack')
  BY <1>4 DEF ToSet
<1>6. HeapOK' /\ RootsIn(live)' /\ OpenSlots'
  BY <1>1, <1>4, AtRest DEF HeapOK, RootsIn, OpenSlots
<1>7. Handler'
  BY <1>1, <1>3, <1>5 DEF IInv, Handler
<1> QED BY <1>1, <1>2, <1>3, <1>6, <1>7, AtRest, LocalStep

\* A captured upvalue enters the closure under construction.
LEMMA CaptureRefs ==
    ASSUME IInv, phase \in {"deliver", "loop"}, NEW u \in live, Capture(u)
    PROVE  ref' \in [Obj -> SUBSET Obj] /\ \A o \in live : ref'[o] \subseteq live
BY AtRest, Delivered DEF Capture

LEMMA CaptureFoundStep == IInv /\ (CaptureShared \/ CaptureOuter) => IInv'
<1> SUFFICES ASSUME IInv, CaptureShared \/ CaptureOuter PROVE IInv'
  OBVIOUS
<1>1. /\ phase = "loop" /\ req.op = "CAPTURE_LOOP" /\ UNCHANGED <<loc, openUpvalues>>
      /\ UNCHANGED <<phase, req, ops, gc, bytesAllocated, nextGC>>
  BY DEF CaptureShared, CaptureOuter, CanCapture, InLoop, NoAllocation
<1>2. frames # <<>> /\ req.held \subseteq ToSet(stack)
  BY <1>1 DEF IInv, Handler
<1>3. \E u \in live : Capture(u)
  BY <1>2, AtRest, RunningFrame DEF CaptureShared, CaptureOuter
<1>4. /\ ref' \in [Obj -> SUBSET Obj] /\ \A o \in live : ref'[o] \subseteq live
      /\ UNCHANGED <<live, kind, text, strings, stack, frames, globals, compiling, ast>>
  BY <1>1, <1>3, CaptureRefs DEF Capture
<1>5. HeapOK' /\ RootsIn(live)' /\ OpenSlots'
  BY <1>1, <1>4, AtRest DEF HeapOK, RootsIn, OpenSlots
<1>6. Handler'
  BY <1>1, <1>2, <1>4 DEF Handler
<1>7. req' \in Requests /\ req'.held \subseteq live /\ req'.result = Nil
  BY <1>1, AtRest, Delivered DEF IInv, Held
<1> QED BY <1>1, <1>4, <1>5, <1>6, <1>7, AtRest, LocalStep

LEMMA DeliverUpvalueStep == IInv /\ DeliverUpvalue => IInv'
<1> SUFFICES ASSUME IInv, DeliverUpvalue PROVE IInv'
  OBVIOUS
<1>1. /\ phase = "deliver" /\ req.op = "UPVALUE" /\ Capture(req.result)
      /\ loc' = [loc EXCEPT ![req.result] = req.slot]
      /\ openUpvalues' = openUpvalues \cup {req.result}
      /\ Loop("CAPTURE_LOOP", req.held)
  BY DEF DeliverUpvalue, Deliver
<1>2. /\ req.held \in SUBSET live /\ req.result \in live /\ "CAPTURE_LOOP" \in Handlers
      /\ req.slot \in Nat
  BY <1>1, Delivered DEF Handlers
<1>3. /\ phase' = "loop" /\ req' \in Requests /\ req'.op = "CAPTURE_LOOP"
      /\ req'.held = req.held /\ req'.result = Nil
      /\ UNCHANGED <<ops, gc, bytesAllocated, nextGC>>
  BY <1>1, <1>2, LoopShape
<1>4. /\ ref' \in [Obj -> SUBSET Obj] /\ \A o \in live : ref'[o] \subseteq live
      /\ UNCHANGED <<live, kind, text, strings, stack, frames, globals, compiling, ast>>
  BY <1>1, <1>2, CaptureRefs DEF Capture
<1>5. frames # <<>> /\ req.held \subseteq ToSet(stack) /\ req.slot \in 1 .. Len(stack)
  BY <1>1 DEF IInv, Handler
<1>6. loc' \in [Obj -> Nat]
  BY <1>1, <1>2, AtRest
<1>7. \A u \in openUpvalues' : loc'[u] \in 1 .. Len(stack)
  BY <1>1, <1>2, <1>5, AtRest
<1>8. HeapOK' /\ RootsIn(live)' /\ OpenSlots'
  BY <1>1, <1>2, <1>4, <1>7, AtRest DEF HeapOK, RootsIn, OpenSlots
<1>9. Handler'
  BY <1>3, <1>4, <1>5 DEF Handler
<1> QED BY <1>1, <1>2, <1>3, <1>4, <1>6, <1>8, <1>9, AtRest, LocalStep

LEMMA CaptureDoneStep == IInv /\ CaptureDone => IInv'
<1> SUFFICES ASSUME IInv, CaptureDone PROVE IInv'
  OBVIOUS
<1>1. /\ phase = "loop" /\ Done /\ OnlyRoots
      /\ UNCHANGED <<live, kind, ref, text, loc, strings, frames, stack>>
  BY DEF CaptureDone, InLoop, OnlyRoots, heap, roots
<1>2. \A u \in openUpvalues : loc[u] <= Len(stack)
  BY AtRest
<1> QED BY <1>1, <1>2, AtRest, DoneStep

-----------------------------------------------------------------------------
(* The parser and the compiler.                                            *)

LEMMA CompileStrings == Exercised = {} /\ IInv /\ (ParseString \/ CompileName) => IInv'
<1> SUFFICES ASSUME Exercised = {}, IInv, ParseString \/ CompileName PROVE IInv'
  OBVIOUS
<1>1. CASE ParseString
  <2>1. PICK t \in Text : CopyString("LITERAL", t, {}, 0)
    BY <1>1 DEF ParseString
  <2>2. req'.op = "LITERAL" /\ phase' # "run"
    BY <2>1, CopyStringShape
  <2>3. Handler' /\ "LITERAL" \in Handlers
    BY <2>2 DEF Handler, Handlers
  <2> QED BY <1>1, <2>1, <2>3, AskString DEF ParseString, Idle
<1>2. CASE CompileName
  <2>1. PICK t \in Text : CopyString("NAME", t, {}, 0)
    BY <1>2 DEF CompileName
  <2>2. req'.op = "NAME" /\ phase' # "run"
    BY <2>1, CopyStringShape
  <2>3. compiling' # <<>>
    BY <1>2 DEF CompileName, Compiling, roots
  <2>4. Handler' /\ "NAME" \in Handlers
    BY <2>2, <2>3 DEF Handler, Handlers
  <2> QED BY <1>2, <2>1, <2>4, AskString DEF CompileName, Compiling
<1> QED BY <1>1, <1>2

LEMMA InitCompilerStep == IInv /\ InitCompiler => IInv'
<1> SUFFICES ASSUME IInv, InitCompiler PROVE IInv'
  OBVIOUS
<1>1. /\ phase = "run" /\ Allocate("FUNCTION", "fn", NoText, {}, 0)
      /\ UNCHANGED roots /\ UNCHANGED ast
  BY DEF InitCompiler, Idle, Compiling
<1>2. req'.op = "FUNCTION" /\ phase' # "run"
  BY <1>1, AllocateShape
<1>3. Handler' /\ "FUNCTION" \in Handlers /\ "fn" \in Kinds
  BY <1>2 DEF Handler, Handlers, Kinds
<1> QED BY <1>1, <1>3, AskStep

\* A step of the compiler that ends with no request, and leaves the stack, the
\* frames and the upvalues alone.
LEMMA CompilerStep ==
    ASSUME IInv,
           phase \in {"run", "deliver", "loop"}, phase' = "run", req' = NoRequest,
           UNCHANGED <<live, kind, text, loc, strings, stack, frames, openUpvalues, globals,
                       ops, gc, bytesAllocated, nextGC>>,
           compiling' \in Seq(live), ast' \subseteq Obj,
           ref' \in [Obj -> SUBSET Obj], \A o \in live : ref'[o] \subseteq live
    PROVE  IInv'
<1>1. HeapOK' /\ RootsIn(live)' /\ OpenSlots'
  BY AtRest DEF HeapOK, RootsIn, OpenSlots
<1> QED BY <1>1, AtRest, RunStep

LEMMA DeliverLiteralStep == IInv /\ (DeliverLiteral \/ AbandonSource \/ CompileError) => IInv'
<1> SUFFICES ASSUME IInv, DeliverLiteral \/ AbandonSource \/ CompileError PROVE IInv'
  OBVIOUS
<1>1. /\ phase \in {"run", "deliver"} /\ phase' = "run" /\ req' = NoRequest
      /\ UNCHANGED <<live, kind, ref, text, loc, strings, stack, frames, openUpvalues, globals,
                     ops, gc, bytesAllocated, nextGC>>
  BY AtRest DEF DeliverLiteral, AbandonSource, CompileError, Deliver, Idle, Compiling, Done,
                NoAllocation, heap, roots
<1>2. compiling' = compiling \/ compiling' = <<>>
  BY DEF DeliverLiteral, AbandonSource, CompileError, roots
<1>3. compiling' \in Seq(live)
  <2>1. compiling \in Seq(live) /\ <<>> \in Seq(live)
    BY AtRest
  <2> QED BY <1>2, <2>1
<1>4. DeliverLiteral => req.result \in live
  BY Delivered DEF DeliverLiteral, Deliver
<1>5. ast' \subseteq Obj
  BY <1>4, AtRest DEF DeliverLiteral, AbandonSource, CompileError
<1> QED BY <1>1, <1>3, <1>5, AtRest, CompilerStep

LEMMA DeliverFunctionStep == IInv /\ DeliverFunction => IInv'
<1> SUFFICES ASSUME IInv, DeliverFunction PROVE IInv'
  OBVIOUS
<1>1. /\ phase = "deliver" /\ phase' = "run" /\ req' = NoRequest
      /\ compiling' = Append(compiling, req.result)
      /\ UNCHANGED <<live, kind, ref, text, loc, strings, stack, frames, openUpvalues, globals,
                     ast, ops, gc, bytesAllocated, nextGC>>
  BY DEF DeliverFunction, Deliver, Done, heap
<1>2. compiling' \in Seq(live)
  BY <1>1, AtRest, Delivered, StackOps
<1> QED BY <1>1, <1>2, AtRest, CompilerStep

\* The function that is being compiled is allocated; a constant joins its pool.
LEMMA AddConstantStep ==
    ASSUME IInv, NEW c \in live, compiling # <<>>, AddConstant(c)
    PROVE  ref' \in [Obj -> SUBSET Obj] /\ \A o \in live : ref'[o] \subseteq live
<1>1. Last(compiling) \in live
  BY AtRest, SeqEnds
<1> QED BY <1>1, AtRest DEF AddConstant

LEMMA DeliverNameStep == Exercised = {} /\ IInv /\ (DeliverName \/ CompileLiteral) => IInv'
<1> SUFFICES ASSUME Exercised = {}, IInv, DeliverName \/ CompileLiteral PROVE IInv'
  OBVIOUS
<1>1. compiling # <<>>
  BY DEF DeliverName, CompileLiteral, Deliver, Compiling, IInv, Handler
<1>2. \E c \in live : AddConstant(c)
  BY Delivered DEF DeliverName, CompileLiteral, Deliver
<1>3. /\ phase \in {"run", "deliver"} /\ phase' = "run" /\ req' = NoRequest
      /\ UNCHANGED <<live, kind, text, loc, strings, stack, frames, openUpvalues, globals,
                     compiling, ast, ops, gc, bytesAllocated, nextGC>>
  BY AtRest DEF DeliverName, CompileLiteral, AddConstant, Deliver, Compiling, Done,
                NoAllocation, roots
<1>4. ref' \in [Obj -> SUBSET Obj] /\ \A o \in live : ref'[o] \subseteq live
  BY <1>1, <1>2, AddConstantStep
<1> QED BY <1>3, <1>4, AtRest, CompilerStep

LEMMA EndNestedStep == IInv /\ EndNested => IInv'
<1> SUFFICES ASSUME IInv, EndNested PROVE IInv'
  OBVIOUS
<1> DEFINE outer == compiling[Len(compiling) - 1]
<1>1. /\ phase = "run" /\ phase' = "run" /\ req' = NoRequest /\ Len(compiling) > 1
      /\ compiling # <<>>
      /\ ref' = [ref EXCEPT ![outer] = @ \cup {Last(compiling)}]
      /\ compiling' = Front(compiling)
      /\ UNCHANGED <<live, kind, text, loc, strings, stack, frames, openUpvalues, globals,
                     ast, ops, gc, bytesAllocated, nextGC>>
  BY AtRest DEF EndNested, Compiling, NoAllocation
<1>2. Last(compiling) \in live /\ Front(compiling) \in Seq(live)
  BY <1>1, AtRest, SeqEnds
<1>3. outer \in live
  BY <1>1, AtRest
<1>4. ref' \in [Obj -> SUBSET Obj] /\ \A o \in live : ref'[o] \subseteq live
  <2> HIDE DEF outer
  <2> QED BY <1>1, <1>2, <1>3, AtRest
<1> QED BY <1>1, <1>2, <1>4, AtRest, CompilerStep

LEMMA EndScriptStep == IInv /\ EndScript => IInv'
<1> SUFFICES ASSUME IInv, EndScript PROVE IInv'
  OBVIOUS
<1> DEFINE f == Last(compiling)
<1>1. /\ phase = "run" /\ compiling # <<>> /\ compiling' = <<>> /\ ast' = {}
      /\ stack' = Append(stack, f)
      /\ UNCHANGED <<frames, openUpvalues, globals>>
      /\ Allocate("SCRIPT", "clo", NoText, {f}, 0)
  BY DEF EndScript, Compiling, Push
<1>2. f \in live
  BY <1>1, AtRest, SeqEnds
<1>3. UNCHANGED <<live, ref, loc>> /\ req'.op = "SCRIPT" /\ phase' # "run"
  BY <1>1, AllocateShape
<1> HIDE DEF f
<1>4. /\ stack' \in Seq(live \cup {Nil}) /\ Len(stack') = Len(stack) + 1
      /\ Len(stack') \in DOMAIN stack' /\ stack'[Len(stack')] = f /\ stack' # <<>>
  <2>1. stack \in Seq(live \cup {Nil}) /\ Len(stack) \in Nat
    BY AtRest
  <2> QED BY <1>1, <1>2, <2>1
<1>5. RootsIn(live)' /\ OpenSlots'
  BY <1>1, <1>3, <1>4, AtRest DEF RootsIn, OpenSlots
<1>6. Handler'
  BY <1>3, <1>4 DEF Handler
<1>7. {f} \subseteq ReachFrom(Roots', ref, live)
  <2>1. f \in Roots'
    BY <1>2, <1>4, AtRest, ValuesAssumption DEF Roots, ToSet
  <2>2. Roots' \in SUBSET Obj
    <3>1. ToSet(stack') \ {Nil} \subseteq live
      BY <1>4, ToSetSeq
    <3>2. Roots' \subseteq Roots \cup (ToSet(stack') \ {Nil})
      BY <1>1 DEF Roots, FrameClosures, ToSet
    <3> QED BY <3>1, <3>2, RootsLive
  <2> QED BY <2>1, <2>2, ReachRoots
<1>8. "SCRIPT" \in Handlers /\ "clo" \in Kinds /\ {f} \in SUBSET live /\ ast' \subseteq Obj
  BY <1>1, <1>2 DEF Handlers, Kinds
<1> QED BY <1>1, <1>5, <1>6, <1>7, <1>8, RequestStep

LEMMA DeliverScriptStep == IInv /\ DeliverScript => IInv'
<1> SUFFICES ASSUME IInv, DeliverScript PROVE IInv'
  OBVIOUS
<1> DEFINE s == Append(Drop(1), req.result)
<1>1. /\ phase = "deliver" /\ req.op = "SCRIPT" /\ phase' = "run" /\ req' = NoRequest
      /\ Enter(s, req.result, Len(stack))
      /\ UNCHANGED <<heap, openUpvalues, globals, compiling, ast, ops, gc, bytesAllocated,
                     nextGC>>
  BY DEF DeliverScript, Deliver, Done, OnlyRoots
<1>2. req.result \in live
  BY <1>1, Delivered
<1>3. stack # <<>>
  BY <1>1 DEF IInv, Handler
<1>4. Len(stack) \in Nat \ {0} /\ Len(stack) - 1 \in Nat /\ Len(stack) - 1 <= Len(stack)
  BY <1>3, AtRest, SeqEnds
<1>5. stack' = Append(SubSeq(stack, 1, Len(stack) - 1), req.result) /\ stack' = s
  BY <1>1 DEF Enter, Drop
<1>6. s \in Seq(live \cup {Nil}) /\ Len(s) = Len(stack) - 1 + 1
  BY <1>2, <1>4, <1>5, ReplacedTop
<1>7. \A u \in openUpvalues : loc[u] <= Len(s)
  BY <1>6, AtRest
<1> HIDE DEF s
<1> QED BY <1>1, <1>2, <1>4, <1>6, <1>7, EnterStep

-----------------------------------------------------------------------------
(* The theorems.                                                           *)

LEMMA NextIInv == Exercised = {} /\ IInv /\ [Next]_vars => IInv'
<1> SUFFICES ASSUME Exercised = {}, IInv, [Next]_vars PROVE IInv'
  OBVIOUS
<1>1. CASE Collect
  BY <1>1, MarkRootsStep, BlackenStep, SweepStep DEF Collect
<1>2. CASE NewObject
  BY <1>2, NewObjectStep
<1>3. CASE Execute
  BY <1>3, ExecuteStep
<1>4. CASE Request
  BY <1>4, OpArrayStep, OpArrayConcatStep, OpConcatStep, OpClassStep, OpBindMethodStep,
     OpGetSuperStep, OpInstantiateStep, OpCallNativeStep, OpSplitStep, SplitPieceStep, ReturnSplitStep,
     OpClosureStep, CaptureFoundStep, CaptureNewStep, CaptureDoneStep DEF Request
<1>5. CASE Complete
  BY <1>5, DeliverArrayStep, DeliverArrayConcatStep, DeliverConcatStep,
     DeliverBindMethodStep, DeliverInstanceStep, DeliverInitStep, DeliverNativeStep,
     DeliverSplitStep, DeliverPieceStep, DeliverClosureStep, DeliverUpvalueStep
     DEF Complete
<1>6. CASE Compile
  BY <1>6, CompileStrings, DeliverLiteralStep, InitCompilerStep, DeliverFunctionStep,
     DeliverNameStep, EndNestedStep, EndScriptStep, DeliverScriptStep DEF Compile
<1>7. CASE UNCHANGED vars
  <2>1. UNCHANGED <<live, kind, ref, text, loc, strings, stack, frames, openUpvalues, globals,
                    compiling, ast, ops, phase, req, mark, gray, bytesAllocated, nextGC>>
    BY <1>7 DEF vars, heap, roots, gc
  <2>2. Roots' = Roots /\ Reach' = Reach
    BY <2>1 DEF Roots, FrameClosures, Reach
  <2> QED BY <2>1, <2>2 DEF IInv, Types, HeapOK, RootsIn, OpenSlots, Handler, Held, TriColour,
                            InternTable, Fresh, Interned
<1> QED BY <1>1, <1>2, <1>3, <1>4, <1>5, <1>6, <1>7 DEF Next

\* IInv is an invariant of the programs that make no unrooted use.
THEOREM Invariance ==
    ASSUME Exercised = {}
    PROVE  Spec => []IInv
<1>1. Init => IInv
  BY InitIInv
<1>2. IInv /\ [Next]_vars => IInv'
  BY NextIInv
<1> QED BY <1>1, <1>2, PTL DEF Spec

\* Every variable of the runtime keeps its type, for every program image.
THEOREM HeapTypes ==
    ASSUME Exercised = {}
    PROVE  Spec => []TypeOK
<1>1. IInv => TypeOK
  <2> SUFFICES ASSUME IInv PROVE TypeOK
    OBVIOUS
  <2>1. stack \in Seq(Obj \cup {Nil}) /\ compiling \in Seq(Obj)
    <3>1. live \cup {Nil} \subseteq Obj \cup {Nil} /\ live \subseteq Obj
      BY AtRest
    <3> QED BY <3>1, AtRest, SeqMono
  <2>2. frames \in Seq([closure : Obj, slots : Nat \ {0}])
    <3> DEFINE R == [closure : live, slots : Nat \ {0}]
               T == [closure : Obj, slots : Nat \ {0}]
    <3>1. frames \in Seq(R)
      BY AtRest
    <3>2. R \subseteq T
      BY AtRest
    <3>3. frames \in Seq(T)
      <4> HIDE DEF R, T
      <4> QED BY <3>1, <3>2, SeqMono
    <3> QED BY <3>3
  <2>3. openUpvalues \subseteq Obj /\ globals \subseteq Obj /\ live \subseteq Obj
    BY AtRest
  <2> QED BY <2>1, <2>2, <2>3 DEF IInv, Types, TypeOK
<1> QED BY <1>1, Invariance, PTL

\* No allocation site of the interpreter, the natives or the compiler leaves a
\* root or an object that refers to memory the sweep gave back.
THEOREM HeapSafety ==
    ASSUME Exercised = {}
    PROVE  Spec => []NoDangling
<1>1. IInv => NoDangling
  BY RootsLive, AtRest DEF NoDangling
<1> QED BY <1>1, Invariance, PTL

\* What a handler holds in C locals while it allocates is still allocated when
\* it goes on, whatever the collector did.
THEOREM OperandSafety ==
    ASSUME Exercised = {}
    PROVE  Spec => []OperandsSurvive
<1>1. IInv => OperandsSurvive
  <2> SUFFICES ASSUME IInv, phase \in {"alloc", "deliver", "loop"}
               PROVE  req.held \subseteq live /\ req.result \in live \cup {Nil}
    BY DEF OperandsSurvive
  <2>1. req.held \subseteq live /\ (phase = "deliver" => req.result \in live)
    BY DEF IInv, Held
  <2>2. phase # "deliver" => req.result = Nil
    BY DEF IInv, Held
  <2> QED BY <2>1, <2>2
<1> QED BY <1>1, Invariance, PTL

\* The tracing invariant of traceReferences.
THEOREM Tracing ==
    ASSUME Exercised = {}
    PROVE  Spec => []TriColour
<1>1. IInv => TriColour
  BY DEF IInv
<1> QED BY <1>1, Invariance, PTL

\* Equal strings are the same object.
THEOREM Interning ==
    ASSUME Exercised = {}
    PROVE  Spec => []InternTable
<1>1. IInv => InternTable
  BY DEF IInv
<1> QED BY <1>1, Invariance, PTL

\* Only Sweep leaves the trace, and what it keeps is what is reachable.
THEOREM Exactness ==
    ASSUME Exercised = {}
    PROVE  Spec => ExactCollection
<1>1. IInv /\ [Next]_vars => [phase = "trace" /\ phase' = "alloc" => live' = live \cap Reach]_vars
  <2> SUFFICES ASSUME IInv, Next, phase = "trace", phase' = "alloc"
               PROVE  live' = live \cap Reach
    OBVIOUS
  <2>1. ~Execute
    BY DEF Execute, Running, OpConstant, OpNil, OpGetLocal, OpSetLocal, OpPop, OpGetGlobal,
           OpDefineGlobal, OpGetUpvalue, OpSetUpvalue, OpGetField, OpSetField, OpMethod,
           OpInherit, OpCloseUpvalue, OpCall, OpReturn, OpTailCall, RuntimeError
  <2>2. ~Request
    BY DEF Request, Running, InLoop, CanCapture, OpArray, OpArrayConcat, OpConcat, OpClass,
           OpBindMethod, OpGetSuper, OpInstantiate, OpCallNative, OpSplit, SplitPiece, ReturnSplit,
           OpClosure, CaptureShared, CaptureOuter, CaptureNew, CaptureDone
  <2>3. ~Complete
    BY DEF Complete, Deliver, DeliverArray, DeliverArrayConcat, DeliverConcat, DeliverClass,
           DeliverBindMethod, DeliverInstance, DeliverInit, DeliverNative, DeliverSplit,
           DeliverPiece, DeliverClosure, DeliverUpvalue
  <2>4. ~Compile
    BY DEF Compile, Deliver, Idle, Compiling, ParseString, DeliverLiteral, AbandonSource,
           InitCompiler, DeliverFunction, CompileName, DeliverName, CompileLiteral, EndNested,
           EndScript, DeliverScript, CompileError
  <2>5. Sweep
    BY <2>1, <2>2, <2>3, <2>4 DEF Next, Collect, MarkRoots, Blacken, NewObject
  <2>6. live' = live \cap mark /\ gray = {}
    BY <2>5 DEF Sweep
  <2> QED BY <2>6, MarkedIsReach
<1> QED BY <1>1, Invariance, PTL DEF Spec, ExactCollection
-----------------------------------------------------------------------------
(* What the program sees of the collector.                                 *)

\* What the program can tell of the heap: its roots, the objects it can get at with
\* all they hold, and the C locals of the handler that allocates.
Visible ==
    <<roots, Reach, [o \in Reach |-> <<kind[o], ref[o], text[o], loc[o]>>], ast, ops, req>>
CollectionUnseen == [][Collect => UNCHANGED Visible]_vars

\* What the program holds: reachable objects, and those in C locals.
InHand == Reach \cup req.held \cup ({req.result} \ {Nil})
KindsKept == [][\A o \in InHand : kind'[o] = kind[o] /\ text'[o] = text[o]]_vars

\* The objects whose references are marked.
Black == mark \ gray
BlackenedOnce ==
    [][phase = "trace" /\ Collect =>
          \/ Sweep /\ Black = Reach
          \/ Black' \subseteq Reach /\ \E o \in Reach \ Black : Black' = Black \cup {o}]_vars

\* What is reachable does not change when what is not is swept.
LEMMA ReachSwept ==
    ASSUME NEW known, NEW links, NEW objects, NEW swept, NEW kept,
           known \subseteq kept, kept = ReachFrom(known, links, objects),
           kept \subseteq objects, kept \subseteq Obj,
           \A o \in kept : links[o] \subseteq kept /\ swept[o] = links[o]
    PROVE  ReachFrom(known, swept, kept) = kept
<1>1. ReachFrom(known, swept, kept) \subseteq kept
  BY ReachLeast
<1>2. ASSUME NEW S \in {known \cup X : X \in SUBSET (kept \ known)},
             \A o \in S : swept[o] \subseteq S
      PROVE  kept \subseteq S
  <2>1. known \subseteq S /\ S \subseteq kept
    OBVIOUS
  <2>2. \A o \in S : links[o] \subseteq S
    BY <1>2, <2>1
  <2> QED BY <2>1, <2>2, ReachLeast
<1>3. kept \subseteq ReachFrom(known, swept, kept)
  BY <1>2 DEF ReachFrom
<1> QED BY <1>1, <1>3

\* Marking and tracing change nothing but marks.
LEMMA TraceUnseen ==
    ASSUME MarkRoots \/ Blacken
    PROVE  UNCHANGED Visible
<1>1. UNCHANGED <<live, kind, ref, text, loc, stack, frames, openUpvalues, globals,
                  compiling, ast, ops, req>>
  BY DEF MarkRoots, Blacken, heap, roots
<1>2. Roots' = Roots /\ Reach' = Reach /\ roots' = roots
  BY <1>1 DEF Roots, Reach, FrameClosures, roots
<1> QED BY <1>1, <1>2 DEF Visible

\* What is swept is out of the program's reach.
LEMMA SweepUnseen ==
    ASSUME IInv, Sweep
    PROVE  UNCHANGED Visible
<1>1. /\ phase = "trace" /\ gray = {} /\ live' = live \cap mark
      /\ kind' = [o \in Obj |-> IF o \in live \ mark THEN "free" ELSE kind[o]]
      /\ ref' = [o \in Obj |-> IF o \in live \ mark THEN {} ELSE ref[o]]
      /\ UNCHANGED <<text, loc, stack, frames, openUpvalues, globals, compiling, ast, ops,
                     req>>
  BY DEF Sweep, roots
<1>2. /\ mark = Reach /\ mark \subseteq live /\ Roots \subseteq mark
      /\ \A o \in mark : ref[o] \subseteq mark
  BY <1>1, MarkedIsReach
<1>3. live' = Reach /\ Reach \subseteq live /\ Reach \subseteq Obj /\ Roots \subseteq Reach
  BY <1>1, <1>2, RootsLive
<1>4. \A o \in Reach : kind'[o] = kind[o] /\ ref'[o] = ref[o]
  BY <1>1, <1>2, <1>3
<1>5. Roots' = Roots /\ roots' = roots
  BY <1>1 DEF Roots, FrameClosures, roots
<1>6. Reach' = Reach
  <2>1. \A o \in Reach : ref[o] \subseteq Reach /\ ref'[o] = ref[o]
    BY <1>2, <1>4
  <2>2. Reach = ReachFrom(Roots, ref, live)
    BY DEF Reach
  <2> HIDE DEF Reach
  <2>3. ReachFrom(Roots, ref', Reach) = Reach
    BY <1>3, <2>1, <2>2, ReachSwept
  <2> QED BY <1>3, <1>5, <2>3 DEF Reach
<1>7. [o \in Reach |-> <<kind[o], ref[o], text[o], loc[o]>>]
          = [o \in Reach |-> <<kind'[o], ref'[o], text'[o], loc'[o]>>]
  BY <1>1, <1>4
<1> QED BY <1>1, <1>5, <1>6, <1>7 DEF Visible

\* The collector is invisible: collectGarbage, started at any allocation of a
\* handler, leaves what the program can reach, and all it holds, as it was.
THEOREM CollectorUnseen ==
    ASSUME Exercised = {}
    PROVE  Spec => CollectionUnseen
<1>1. IInv /\ [Next]_vars => [Collect => UNCHANGED Visible]_vars
  BY TraceUnseen, SweepUnseen DEF Collect
<1> QED BY <1>1, Invariance, PTL DEF Spec, CollectionUnseen

\* Types and contents are written when an object is made and when it is freed.
LEMMA KindsWritten ==
    ASSUME Next, ~NewObject, ~Sweep
    PROVE  UNCHANGED <<kind, text>>
<1>1. MarkRoots \/ Blacken => UNCHANGED <<kind, text>>
  BY DEF MarkRoots, Blacken, heap
<1>2. Execute => UNCHANGED <<kind, text>>
  BY DEF Execute, OnlyStack, heap, OpConstant, OpNil, OpGetLocal, OpSetLocal, OpPop,
         OpGetGlobal, OpDefineGlobal, OpGetUpvalue, OpSetUpvalue, OpGetField, OpSetField,
         OpMethod, OpInherit, OpCloseUpvalue, OpCall, OpReturn, OpTailCall, RuntimeError,
         CloseUpvalues
<1>3. \A op, k, t, held, slot : Allocate(op, k, t, held, slot) => UNCHANGED <<kind, text>>
  BY DEF Allocate, heap
<1>4. \A op, t, held, slot : CopyString(op, t, held, slot) => UNCHANGED <<kind, text>>
  BY CopyStringShape DEF heap
<1>5. Request => UNCHANGED <<kind, text>>
  BY <1>3, <1>4
  DEF Request, NoAllocation, heap, OpArray, OpArrayConcat, OpConcat, OpClass, OpBindMethod,
      OpGetSuper, OpInstantiate, OpCallNative, OpSplit, SplitPiece, ReturnSplit, OpClosure,
      CaptureShared, CaptureOuter, CaptureNew, CaptureDone, Capture
<1>6. Complete => UNCHANGED <<kind, text>>
  BY <1>3, <1>4
  DEF Complete, heap, DeliverArray, DeliverArrayConcat, DeliverConcat, DeliverClass,
      DeliverBindMethod, DeliverInstance, DeliverInit, DeliverNative, DeliverSplit,
      DeliverPiece, DeliverClosure, DeliverUpvalue, Capture
<1>7. Compile => UNCHANGED <<kind, text>>
  BY <1>3, <1>4
  DEF Compile, heap, ParseString, DeliverLiteral, AbandonSource, InitCompiler,
      DeliverFunction, CompileName, DeliverName, CompileLiteral, EndNested, EndScript,
      DeliverScript, CompileError, AddConstant
<1> QED BY <1>1, <1>2, <1>5, <1>6, <1>7 DEF Next, Collect

\* An object stays what it is while anything holds it: its memory is not handed out
\* again, and no collection frees it, as long as it is reachable or in a C local.
THEOREM ObjectsKeepKind ==
    ASSUME Exercised = {}
    PROVE  Spec => KindsKept
<1>1. IInv /\ [Next]_vars => [\A o \in InHand : kind'[o] = kind[o] /\ text'[o] = text[o]]_vars
  <2> SUFFICES ASSUME IInv, Next, NEW o \in InHand
               PROVE  kind'[o] = kind[o] /\ text'[o] = text[o]
    OBVIOUS
  <2>1. Reach \subseteq live /\ live \subseteq Obj /\ kind \in [Obj -> Kinds]
        /\ text \in [Obj -> Text \cup {NoText}]
    BY ReachLive DEF IInv, HeapOK, Types
  <2>2. CASE NewObject
    <3>1. phase = "alloc" /\ req.held \subseteq live /\ req.result = Nil
      BY <2>2 DEF NewObject, IInv, Held
    <3>2. o \in live
      BY <2>1, <3>1 DEF InHand
    <3>3. PICK p \in Malloc(Obj \ live) :
              /\ kind' = [kind EXCEPT ![p] = req.kind]
              /\ text' = [text EXCEPT ![p] = req.text]
      BY <2>2 DEF NewObject
    <3>4. p \notin live
      BY MallocAssumption
    <3> QED BY <2>1, <3>2, <3>3, <3>4
  <2>3. CASE Sweep
    <3>1. /\ phase = "trace" /\ gray = {} /\ text' = text
          /\ kind' = [q \in Obj |-> IF q \in live \ mark THEN "free" ELSE kind[q]]
      BY <2>3 DEF Sweep
    <3>2. req.held \subseteq Reach /\ req.result = Nil
      BY <3>1 DEF IInv, Held, GCPhases
    <3>3. o \in mark /\ o \in Obj
      BY <2>1, <3>1, <3>2, MarkedIsReach DEF InHand
    <3> QED BY <3>1, <3>3
  <2> QED BY <2>2, <2>3, KindsWritten
<1> QED BY <1>1, Invariance, PTL DEF Spec, KindsKept

\* Tracing comes to an end: each step of traceReferences blackens one more of the
\* reachable objects, none twice, and the sweep begins when all of them are black.
THEOREM TracingEnds ==
    ASSUME Exercised = {}
    PROVE  Spec => BlackenedOnce
<1>1. IInv /\ [Next]_vars =>
        [phase = "trace" /\ Collect =>
            \/ Sweep /\ Black = Reach
            \/ Black' \subseteq Reach /\ \E o \in Reach \ Black : Black' = Black \cup {o}]_vars
  <2> SUFFICES ASSUME IInv, phase = "trace", Collect
               PROVE  \/ Sweep /\ Black = Reach
                      \/ Black' \subseteq Reach /\ \E o \in Reach \ Black : Black' = Black \cup {o}
    OBVIOUS
  <2>1. gray \subseteq mark /\ mark \subseteq Reach
    BY DEF IInv, TriColour
  <2>2. CASE Sweep
    BY <2>2, MarkedIsReach DEF Sweep, Black
  <2>3. CASE Blacken
    <3>1. PICK o \in gray :
            mark' = mark \cup ref[o] /\ gray' = (gray \ {o}) \cup (ref[o] \ mark)
      BY <2>3 DEF Blacken, Traced
    <3>2. o \in Reach \ Black /\ Black' = Black \cup {o}
      BY <2>1, <3>1 DEF Black
    <3> QED BY <2>1, <3>2 DEF Black
  <2>4. ~MarkRoots
    BY DEF MarkRoots
  <2> QED BY <2>2, <2>3, <2>4 DEF Collect
<1> QED BY <1>1, Invariance, PTL DEF Spec, BlackenedOnce
=============================================================================
