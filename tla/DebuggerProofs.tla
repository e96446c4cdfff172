--------------------------- MODULE DebuggerProofs ---------------------------
(***************************************************************************)
(* Proofs about the debugger: where its steps stop, what it counts and     *)
(* which breakpoints it keeps, for any programs, commands and bounds.      *)
(*                                                                         *)
(* The invariant has four parts.  Core is about the machine alone: the     *)
(* frames, and the handlers of the try blocks they are in.  Kept is about  *)
(* the breakpoints and their file.  Asked and Counted relate what the      *)
(* debugger remembers to the machine.                                      *)
(***************************************************************************)
EXTENDS Debugger, OrderLemmas, SequenceTheorems

Running == phase \in {"hook", "paused", "saving", "execute"}
Stepping == mode \in {"next", "out"}

-----------------------------------------------------------------------------
(* The invariant.                                                          *)

\* What a process that does not run a program has.
Resting ==
    /\ Running => frames # <<>> /\ pending = <<>>
    /\ ~Running =>
          /\ frames = <<>> /\ handlers = <<>> /\ calls = 0 /\ mode = "none"
          /\ last = Nowhere /\ visited = Nowhere /\ visits = Unvisited
    /\ phase = "off" => breakpoints = <<>> /\ pending = <<>>

\* The frames of a program c after n calls: callers are older than what they called, and
\* have made their call.
FrameOf(c) == [fn : DOMAIN c, ip : Nat, arg : Nat, act : Acts]
Stack(c, fs, n) ==
    /\ fs \in Seq(FrameOf(c))
    /\ \A i \in DOMAIN fs : fs[i].ip \in DOMAIN c[fs[i].fn]
    /\ Len(fs) <= MaxDepth
    /\ \A i \in DOMAIN fs : fs[i].act \in 1 .. n
    /\ \A i, j \in DOMAIN fs : i < j => fs[i].act < fs[j].act
    /\ \A i \in DOMAIN fs : i < Len(fs) => fs[i].ip > 1
MovedTo(fs, i) == [fs EXCEPT ![Len(fs)].ip = i]

\* The try blocks that a frame is in, and the number of them that a catch block ends.
Tries(c, fr) == c[fr.fn][fr.ip].tries
Level(c, fr, catch) == Len(c[fr.fn][catch].tries) + 1

\* The handlers are those of the try blocks that the frames are in, and in their order.
Owned(c, fs, h) ==
    /\ h.depth \in DOMAIN fs
    /\ h.catch \in Range(Tries(c, fs[h.depth]))
Inner(c, fs, g, h) ==
    g.depth < h.depth \/ (g.depth = h.depth
        /\ Level(c, fs[g.depth], g.catch) < Level(c, fs[h.depth], h.catch))
Guarded(c, fs, hs) ==
    /\ \A i \in DOMAIN hs : Owned(c, fs, hs[i])
    /\ \A i, j \in DOMAIN hs : i < j => Inner(c, fs, hs[i], hs[j])
    /\ \A d \in DOMAIN fs : \A x \in Range(Tries(c, fs[d])) :
          \E i \in DOMAIN hs : hs[i].depth = d /\ hs[i].catch = x

\* The breakpoints that there may be.
BreakpointType == [line : Lines, cond : Conditions, hits : Nat]
Good(bs) ==
    /\ bs \in Seq(BreakpointType) /\ Len(bs) <= BREAKPOINTS_MAX
    /\ \A i, j \in DOMAIN bs : bs[i].line = bs[j].line => i = j

HandlerType == [depth : 1 .. MaxDepth, catch : Nat]
Machine ==
    /\ code \in Programs /\ calls \in Acts
    /\ Stack(code, frames, calls)
    /\ handlers \in Seq(HandlerType) /\ Guarded(code, frames, handlers)
Memory ==
    /\ phase \in {"off", "load", "hook", "paused", "saving", "execute"} /\ stale \in BOOLEAN
    /\ mode \in {"none", "in", "next", "out"} /\ depth \in 0 .. MaxDepth
    /\ input \in {"open", "closed"} /\ commands \in 0 .. MaxCommands /\ runs \in 0 .. MaxRuns
Store ==
    /\ Good(breakpoints)
    /\ file \in Seq(Lines \X Conditions) /\ pending \in Seq(Lines \X Conditions)
Core == Machine /\ Memory /\ Store /\ Resting

\* Nothing in the file is lost while it is loaded: what is not there yet is to come, and
\* there is room for it.
LinesOf(bs) == {bs[i].line : i \in DOMAIN bs}
Copied(n) ==
    /\ n < Len(file) => Len(breakpoints) <= n
    /\ \A i \in 1 .. n : file[i][1] \in LinesOf(breakpoints)
    /\ \A i \in n + 1 .. Len(file) : i - n \in DOMAIN pending /\ pending[i - n] = file[i]

\* A file that is not stale has what is wanted; while one is written it is stale.
Kept ==
    /\ Len(file) <= BREAKPOINTS_MAX
    /\ ~stale => wanted \subseteq Listed /\ Range(file) \subseteq allowed
    /\ Range(pending) \cup Pairs(breakpoints) \subseteq allowed
    /\ phase = "load" => ~stale /\ \E n \in 0 .. Len(file) : Copied(n)
    /\ phase = "saving" => stale
    /\ Running => wanted \subseteq LinesOf(breakpoints)
    /\ Running /\ ~stale => Listed \subseteq LinesOf(breakpoints)

\* While a step over or out is under way, the frames it was asked in are there, or have
\* just gone.
Asked ==
    /\ asked \in Seq(Nat)
    /\ \A i, j \in DOMAIN asked : i < j => asked[i] < asked[j]
    /\ phase \in {"paused", "saving", "execute"} => last[2] = Len(frames)
    /\ Running /\ Stepping =>
          /\ Len(asked) = depth
          /\ \A i \in DOMAIN asked : i \in DOMAIN frames => frames[i].act = asked[i]
    /\ phase = "execute" /\ Stepping => Len(frames) >= depth
    /\ phase = "hook" /\ Stepping => last[2] >= depth
    /\ phase \in {"paused", "saving"} =>
          /\ why = "next" => mode = "next" /\ Len(frames) <= depth
          /\ why = "out" => mode = "out" /\ Len(frames) < depth

\* Where the debugger sees a new location there is a new visit, and nowhere else.
Counted ==
    /\ phase \in {"paused", "saving", "execute"} => last = Location /\ visited = Visit
    /\ phase = "hook" => (last = Location <=> visited = Visit)
    /\ visits \in [Lines -> Nat]
    /\ \A i \in DOMAIN breakpoints : breakpoints[i].hits = visits[breakpoints[i].line]

IInv == Core /\ Kept /\ Asked /\ Counted

-----------------------------------------------------------------------------
(* Sequences.                                                              *)

\* Front and Last.
LEMMA FrontLast ==
    ASSUME NEW S, NEW s \in Seq(S), s # <<>>
    PROVE  /\ Front(s) \in Seq(S) /\ Len(Front(s)) = Len(s) - 1
           /\ DOMAIN Front(s) = 1 .. Len(s) - 1 /\ Len(s) \in DOMAIN s
           /\ \A i \in DOMAIN Front(s) : i \in DOMAIN s /\ Front(s)[i] = s[i]
           /\ Last(s) = s[Len(s)] /\ Last(s) \in S
<1>1. Len(s) \in Nat \ {0} /\ DOMAIN s = 1 .. Len(s)
  OBVIOUS
<1> QED BY <1>1 DEF Front, Last

\* The first n elements.
LEMMA FirstOf ==
    ASSUME NEW S, NEW s \in Seq(S), NEW n \in 0 .. Len(s)
    PROVE  /\ SubSeq(s, 1, n) \in Seq(S) /\ Len(SubSeq(s, 1, n)) = n
           /\ \A i \in 1 .. n : i \in DOMAIN s /\ SubSeq(s, 1, n)[i] = s[i]
OBVIOUS

\* All elements but one.
LEMMA RemoveOne ==
    ASSUME NEW S, NEW s \in Seq(S), NEW n \in DOMAIN s
    PROVE  /\ RemoveAt(s, n) \in Seq(S) /\ Len(RemoveAt(s, n)) = Len(s) - 1
           /\ \A i \in DOMAIN RemoveAt(s, n) :
                 RemoveAt(s, n)[i] = IF i < n THEN s[i] ELSE s[i + 1]
<1> DEFINE a == SubSeq(s, 1, n - 1)
           b == SubSeq(s, n + 1, Len(s))
<1>1. n \in 1 .. Len(s) /\ Len(s) \in Nat
  OBVIOUS
<1>2. a \in Seq(S) /\ Len(a) = n - 1 /\ \A i \in 1 .. n - 1 : a[i] = s[i]
  BY <1>1
<1>3. b \in Seq(S) /\ Len(b) = Len(s) - n /\ \A i \in 1 .. Len(s) - n : b[i] = s[n + i]
  BY <1>1
<1>4. RemoveAt(s, n) = a \o b
  BY DEF RemoveAt
<1> HIDE DEF a, b
<1>5. a \o b \in Seq(S) /\ Len(a \o b) = Len(s) - 1
  BY <1>1, <1>2, <1>3
<1>6. \A i \in 1 .. Len(s) - 1 : (a \o b)[i] = IF i < n THEN s[i] ELSE s[i + 1]
  <2> SUFFICES ASSUME NEW i \in 1 .. Len(s) - 1
               PROVE  (a \o b)[i] = IF i < n THEN s[i] ELSE s[i + 1]
    OBVIOUS
  <2>1. CASE i < n
    BY <1>1, <1>2, <1>3, <2>1
  <2>2. CASE ~(i < n)
    <3>0. i \in Nat /\ i > Len(a) /\ i <= Len(a) + Len(b)
      BY <1>1, <1>2, <1>3, <2>2
    <3>1. (a \o b)[i] = b[i - (n - 1)]
      <4>1. i \in 1 .. Len(a) + Len(b) /\ ~(i <= Len(a))
        BY <1>2, <1>3, <3>0
      <4>2. (a \o b)[i] = b[i - Len(a)]
        BY <1>2, <1>3, <4>1, ConcatProperties
      <4> QED BY <1>2, <4>2
    <3>2. b[i - (n - 1)] = s[n + (i - (n - 1))]
      BY <1>1, <1>3, <2>2
    <3> QED BY <1>1, <2>2, <3>1, <3>2
  <2> QED BY <2>1, <2>2
<1>7. DOMAIN (a \o b) = 1 .. Len(s) - 1
  BY <1>1, <1>5
<1> QED BY <1>4, <1>5, <1>6, <1>7

-----------------------------------------------------------------------------
(* Breakpoints.                                                            *)

\* The breakpoint of a line, if there is one.
LEMMA FirstAt ==
    ASSUME NEW bs, Good(bs), NEW l, At(bs, l) # {}
    PROVE  Min(At(bs, l)) \in DOMAIN bs /\ bs[Min(At(bs, l))].line = l
<1>1. At(bs, l) \in SUBSET Nat
  BY DEF At, Good
<1> QED BY <1>1, LeastNatural DEF At

\* debuggerAddBreakpoint replaces the breakpoint of the line, or adds one, or does nothing.
LEMMA AddedFacts ==
    ASSUME NEW bs, Good(bs), NEW l \in Lines, NEW c \in Conditions
    PROVE  /\ Good(Added(bs, l, c))
           /\ \A i \in DOMAIN bs : i \in DOMAIN Added(bs, l, c) /\ Added(bs, l, c)[i].line = bs[i].line
           /\ \A i \in DOMAIN Added(bs, l, c) :
                 \/ Added(bs, l, c)[i] = Breakpoint(l, c, 0)
                 \/ i \in DOMAIN bs /\ Added(bs, l, c)[i] = bs[i] /\ bs[i].line # l
           /\ At(Added(bs, l, c), l) = {} => Added(bs, l, c) = bs
           /\ At(bs, l) = {} /\ Len(bs) < BREAKPOINTS_MAX => At(Added(bs, l, c), l) # {}
           /\ Len(Added(bs, l, c)) <= Len(bs) + 1
<1> DEFINE new == Breakpoint(l, c, 0)
           n == Min(At(bs, l))
<1>0. new \in BreakpointType /\ new.line = l
  BY DEF Breakpoint, BreakpointType
<1>1. CASE At(bs, l) # {}
  <2>1. n \in DOMAIN bs /\ bs[n].line = l
    BY <1>1, FirstAt
  <2>2. Added(bs, l, c) = [bs EXCEPT ![n] = new]
    BY <1>1 DEF Added
  <2> HIDE DEF n, new
  <2>3. Added(bs, l, c) \in Seq(BreakpointType) /\ Len(Added(bs, l, c)) = Len(bs)
        /\ Added(bs, l, c)[n] = new
        /\ \A i \in DOMAIN bs : i # n => Added(bs, l, c)[i] = bs[i]
        /\ DOMAIN Added(bs, l, c) = DOMAIN bs
    BY <1>0, <2>1, <2>2 DEF Good
  <2>4. \A i \in DOMAIN bs : Added(bs, l, c)[i].line = bs[i].line
    BY <1>0, <2>1, <2>3
  <2>5. n \in At(Added(bs, l, c), l)
    BY <1>0, <2>1, <2>3 DEF At
  <2>6. \A i \in DOMAIN bs : i # n => bs[i].line # l
    BY <2>1 DEF Good
  <2>7. Len(bs) \in Nat
    BY DEF Good
  <2> QED BY <1>1, <2>3, <2>4, <2>5, <2>6, <2>7 DEF Good, new
<1>2. CASE At(bs, l) = {} /\ ~(Len(bs) >= BREAKPOINTS_MAX)
  <2>1. Added(bs, l, c) = Append(bs, new)
    BY <1>2 DEF Added
  <2> HIDE DEF new
  <2>2. /\ Append(bs, new) \in Seq(BreakpointType) /\ Len(Append(bs, new)) = Len(bs) + 1
        /\ DOMAIN Append(bs, new) = 1 .. Len(bs) + 1 /\ DOMAIN bs = 1 .. Len(bs)
        /\ \A i \in DOMAIN bs : Append(bs, new)[i] = bs[i]
        /\ Append(bs, new)[Len(bs) + 1] = new /\ Len(bs) \in Nat
    BY <1>0 DEF Good
  <2>3. \A i \in DOMAIN bs : bs[i].line # l
    BY <1>2 DEF At
  <2>4. Len(bs) + 1 <= BREAKPOINTS_MAX
    BY <1>2, <2>2, ProgramsAssumption
  <2>5. Len(bs) + 1 \in At(Append(bs, new), l)
    BY <1>0, <2>2 DEF At
  <2>6. \A i, j \in DOMAIN Append(bs, new) :
            Append(bs, new)[i].line = Append(bs, new)[j].line => i = j
    BY <1>0, <2>2, <2>3 DEF Good
  <2>7. Good(Append(bs, new))
    BY <2>2, <2>4, <2>6 DEF Good
  <2>8. \A i \in DOMAIN Append(bs, new) :
            Append(bs, new)[i] = new \/ (i \in DOMAIN bs /\ Append(bs, new)[i] = bs[i])
    BY <2>2
  <2>9. \A i \in DOMAIN bs : i \in DOMAIN Append(bs, new) /\ Append(bs, new)[i].line = bs[i].line
    BY <2>2
  <2>10. At(Added(bs, l, c), l) # {} /\ Len(Added(bs, l, c)) <= Len(bs) + 1
    BY <2>1, <2>2, <2>5
  <2> QED BY <1>2, <2>1, <2>3, <2>7, <2>8, <2>9, <2>10 DEF new
<1>3. CASE At(bs, l) = {} /\ Len(bs) >= BREAKPOINTS_MAX
  <2>1. Added(bs, l, c) = bs
    BY <1>3 DEF Added
  <2>2. ~(Len(bs) < BREAKPOINTS_MAX)
    BY <1>3, ProgramsAssumption DEF Good
  <2>3. Len(bs) \in Nat
    BY DEF Good
  <2> QED BY <1>3, <2>1, <2>2, <2>3 DEF At
<1> QED BY <1>1, <1>2, <1>3

\* What is added is one more at most, and is there if there is room.
LEMMA AddedRoom ==
    ASSUME NEW bs, Good(bs), NEW l \in Lines, NEW c \in Conditions
    PROVE  /\ Good(Added(bs, l, c)) /\ Len(Added(bs, l, c)) <= Len(bs) + 1
           /\ At(bs, l) = {} /\ Len(bs) < BREAKPOINTS_MAX => At(Added(bs, l, c), l) # {}
BY AddedFacts

\* Each is the one that is set, or was there before.
LEMMA AddedEach ==
    ASSUME NEW bs, Good(bs), NEW l \in Lines, NEW c \in Conditions
    PROVE  \A i \in DOMAIN Added(bs, l, c) :
              \/ Added(bs, l, c)[i] = Breakpoint(l, c, 0)
              \/ i \in DOMAIN bs /\ Added(bs, l, c)[i] = bs[i]
BY AddedFacts

\* debuggerRemoveBreakpoint takes the breakpoint of the line and no other.
LEMMA RemovedFacts ==
    ASSUME NEW bs, Good(bs), NEW l
    PROVE  /\ Good(Removed(bs, l))
           /\ \A i \in DOMAIN Removed(bs, l) : \E j \in DOMAIN bs :
                 Removed(bs, l)[i] = bs[j] /\ bs[j].line # l
           /\ \A j \in DOMAIN bs : bs[j].line = l \/ \E i \in DOMAIN Removed(bs, l) :
                 Removed(bs, l)[i] = bs[j]
           /\ At(bs, l) = {} => Removed(bs, l) = bs
<1> DEFINE n == Min(At(bs, l))
           r == Removed(bs, l)
<1>1. CASE At(bs, l) # {}
  <2>1. n \in DOMAIN bs /\ bs[n].line = l
    BY <1>1, FirstAt
  <2>2. r = RemoveAt(bs, n)
    BY <1>1 DEF Removed
  <2> HIDE DEF n, r
  <2>3. bs \in Seq(BreakpointType) /\ Len(bs) \in Nat /\ DOMAIN bs = 1 .. Len(bs)
    BY DEF Good
  <2>4. /\ r \in Seq(BreakpointType) /\ Len(r) = Len(bs) - 1
        /\ \A i \in DOMAIN r : r[i] = IF i < n THEN bs[i] ELSE bs[i + 1]
    BY <2>1, <2>2, <2>3, RemoveOne
  <2>5. DOMAIN r = 1 .. Len(bs) - 1
    BY <2>3, <2>4
  <2> DEFINE from(i) == IF i < n THEN i ELSE i + 1
  <2>6. \A i \in DOMAIN r : from(i) \in DOMAIN bs /\ r[i] = bs[from(i)] /\ from(i) # n
    BY <2>1, <2>3, <2>4, <2>5
  <2>7. \A i, j \in DOMAIN r : from(i) = from(j) => i = j
    BY <2>1, <2>3, <2>5
  <2>8. \A j \in DOMAIN bs : j = n \/ \E i \in DOMAIN r : from(i) = j
    <3> SUFFICES ASSUME NEW j \in DOMAIN bs, j # n PROVE \E i \in DOMAIN r : from(i) = j
      OBVIOUS
    <3>1. CASE j < n
      BY <2>1, <2>3, <2>5, <3>1
    <3>2. CASE ~(j < n)
      <4>1. j - 1 \in DOMAIN r /\ from(j - 1) = j
        BY <2>1, <2>3, <2>5, <3>2
      <4> QED BY <4>1
    <3> QED BY <3>1, <3>2
  <2> HIDE DEF from
  <2>9. \A i \in DOMAIN bs : i # n => bs[i].line # l
    BY <2>1 DEF Good
  <2>10. Good(r)
    <3>1. Len(r) <= BREAKPOINTS_MAX
      BY <2>3, <2>4, ProgramsAssumption DEF Good
    <3>2. \A i, j \in DOMAIN r : r[i].line = r[j].line => i = j
      BY <2>6, <2>7 DEF Good
    <3> QED BY <2>4, <3>1, <3>2 DEF Good
  <2>11. \A i \in DOMAIN r : \E j \in DOMAIN bs : r[i] = bs[j] /\ bs[j].line # l
    BY <2>6, <2>9
  <2>12. \A j \in DOMAIN bs : bs[j].line = l \/ \E i \in DOMAIN r : r[i] = bs[j]
    BY <2>1, <2>6, <2>8
  <2> QED BY <1>1, <2>10, <2>11, <2>12 DEF r
<1>2. CASE At(bs, l) = {}
  <2>1. r = bs
    BY <1>2 DEF Removed
  <2>2. \A i \in DOMAIN bs : bs[i].line # l
    BY <1>2 DEF At
  <2> QED BY <2>1, <2>2
<1> QED BY <1>1, <1>2

\* A hit changes nothing but its counter.
LEMMA HitFacts ==
    ASSUME NEW bs, Good(bs), NEW l
    PROVE  /\ Good(Hit(bs, l)) /\ DOMAIN Hit(bs, l) = DOMAIN bs
           /\ \A i \in DOMAIN bs :
                 /\ Hit(bs, l)[i].line = bs[i].line /\ Hit(bs, l)[i].cond = bs[i].cond
                 /\ Hit(bs, l)[i].hits = IF bs[i].line = l THEN bs[i].hits + 1 ELSE bs[i].hits
<1>1. bs \in Seq(BreakpointType) /\ Len(bs) \in Nat /\ DOMAIN bs = 1 .. Len(bs)
  BY DEF Good
<1>2. \A i \in DOMAIN bs : bs[i] \in BreakpointType
  BY <1>1
<1> DEFINE e(i) == IF bs[i].line = l THEN [bs[i] EXCEPT !.hits = @ + 1] ELSE bs[i]
<1>3. \A i \in DOMAIN bs :
         /\ e(i) \in BreakpointType /\ e(i).line = bs[i].line /\ e(i).cond = bs[i].cond
         /\ e(i).hits = IF bs[i].line = l THEN bs[i].hits + 1 ELSE bs[i].hits
  BY <1>2 DEF BreakpointType
<1>4. Hit(bs, l) = [i \in 1 .. Len(bs) |-> e(i)]
  BY <1>1 DEF Hit
<1> HIDE DEF e
<1>5. Hit(bs, l) \in Seq(BreakpointType) /\ Len(Hit(bs, l)) = Len(bs)
  BY <1>1, <1>3, <1>4
<1> QED BY <1>1, <1>3, <1>4, <1>5 DEF Good

\* What is saved are the lines and conditions there are.
LEMMA SavedFacts ==
    ASSUME NEW bs, Good(bs)
    PROVE  /\ Saved(bs) \in Seq(Lines \X Conditions) /\ Len(Saved(bs)) = Len(bs)
           /\ DOMAIN Saved(bs) = DOMAIN bs
           /\ \A i \in DOMAIN bs : Saved(bs)[i] = <<bs[i].line, bs[i].cond>>
<1>1. bs \in Seq(BreakpointType) /\ Len(bs) \in Nat /\ DOMAIN bs = 1 .. Len(bs)
  BY DEF Good
<1>2. \A i \in DOMAIN bs : <<bs[i].line, bs[i].cond>> \in Lines \X Conditions
  <2>1. \A i \in DOMAIN bs : bs[i] \in BreakpointType
    BY <1>1
  <2> QED BY <2>1 DEF BreakpointType
<1> QED BY <1>1, <1>2 DEF Saved

\* What is in the file while it is written.
LEMMA WrittenFacts ==
    ASSUME NEW bs, Good(bs), NEW k \in DOMAIN bs, NEW cut \in {<<>>} \cup {<<p>> : p \in Torn}
    PROVE  LET f == SubSeq(Saved(bs), 1, k - 1) \o cut
           IN  f \in Seq(Lines \X Conditions) /\ Len(f) <= BREAKPOINTS_MAX
<1> DEFINE T == Lines \X Conditions
           a == SubSeq(Saved(bs), 1, k - 1)
<1>1. Saved(bs) \in Seq(T) /\ Len(Saved(bs)) = Len(bs)
  BY SavedFacts
<1>2. Len(bs) \in Nat /\ k \in 1 .. Len(bs) /\ Len(bs) <= BREAKPOINTS_MAX
  BY DEF Good
<1>3. a \in Seq(T) /\ Len(a) = k - 1
  <2>1. k - 1 \in 0 .. Len(Saved(bs))
    BY <1>1, <1>2
  <2> HIDE DEF T
  <2> QED BY <1>1, <2>1, FirstOf
<1>4. cut \in Seq(T) /\ Len(cut) \in 0 .. 1
  <2>1. CASE cut = <<>>
    BY <2>1
  <2>2. CASE cut # <<>>
    <3>1. PICK p \in Torn : cut = <<p>>
      BY <2>2
    <3>2. p \in T
      BY LinesAssumption
    <3> HIDE DEF T
    <3>3. <<p>> \in Seq(T) /\ Len(<<p>>) = 1
      BY <3>2
    <3> QED BY <3>1, <3>3
  <2> QED BY <2>1, <2>2
<1> HIDE DEF a, T
<1>5. a \o cut \in Seq(T) /\ Len(a \o cut) = Len(a) + Len(cut)
  BY <1>3, <1>4, ConcatProperties
<1>6. Len(a \o cut) <= BREAKPOINTS_MAX
  <2>1. BREAKPOINTS_MAX \in Nat
    BY ProgramsAssumption
  <2>2. k \in Nat /\ k <= BREAKPOINTS_MAX
    BY <1>2, <2>1
  <2>3. Len(a \o cut) = k - 1 + Len(cut)
    BY <1>3, <1>5
  <2>4. \A m \in 0 .. 1 : k - 1 + m <= BREAKPOINTS_MAX
    BY <2>1, <2>2
  <2> QED BY <1>4, <2>3, <2>4
<1> QED BY <1>5, <1>6 DEF a, T

-----------------------------------------------------------------------------
(* Frames.                                                                 *)

\* The innermost frame moves on.
LEMMA FrameMoves ==
    ASSUME NEW c, NEW fs, NEW n \in Nat, Stack(c, fs, n), WellFormed(c), fs # <<>>,
           NEW i \in DOMAIN c[fs[Len(fs)].fn]
    PROVE  /\ Stack(c, MovedTo(fs, i), n)
           /\ Len(MovedTo(fs, i)) = Len(fs) /\ DOMAIN MovedTo(fs, i) = DOMAIN fs
           /\ \A j \in DOMAIN fs :
                 /\ MovedTo(fs, i)[j].fn = fs[j].fn /\ MovedTo(fs, i)[j].act = fs[j].act
                 /\ MovedTo(fs, i)[j].ip = IF j = Len(fs) THEN i ELSE fs[j].ip
<1> DEFINE F == FrameOf(c)
           top == [fs[Len(fs)] EXCEPT !.ip = i]
           gs == [fs EXCEPT ![Len(fs)] = top]
<1>1. fs \in Seq(F) /\ Len(fs) \in Nat \ {0} /\ DOMAIN fs = 1 .. Len(fs)
  BY DEF Stack
<1>2. fs[Len(fs)] \in F
  <2>1. Len(fs) \in DOMAIN fs
    BY <1>1
  <2> QED BY <1>1, <2>1
<1>3. i \in Nat
  BY <1>2 DEF WellFormed, FrameOf
<1>4. top \in F /\ top.fn = fs[Len(fs)].fn /\ top.act = fs[Len(fs)].act /\ top.ip = i
  BY <1>2, <1>3 DEF FrameOf
<1>5. MovedTo(fs, i) = gs
  BY DEF MovedTo
<1> HIDE DEF top
<1>6. gs \in Seq(F) /\ Len(gs) = Len(fs) /\ DOMAIN gs = DOMAIN fs
  BY <1>1, <1>4
<1>7. \A j \in DOMAIN fs : gs[j] = IF j = Len(fs) THEN top ELSE fs[j]
  OBVIOUS
<1> HIDE DEF gs
<1>8. \A j \in DOMAIN fs :
         /\ gs[j].fn = fs[j].fn /\ gs[j].act = fs[j].act
         /\ gs[j].ip = IF j = Len(fs) THEN i ELSE fs[j].ip
  BY <1>4, <1>7
<1>9. \A j \in DOMAIN fs : gs[j].ip \in DOMAIN c[gs[j].fn]
  BY <1>8 DEF Stack
<1>10. \A j \in DOMAIN fs : j < Len(fs) => gs[j].ip > 1
  <2>1. \A j \in DOMAIN fs : j < Len(fs) => j # Len(fs)
    BY <1>1
  <2>2. \A j \in DOMAIN fs : j < Len(fs) => fs[j].ip > 1
    BY DEF Stack
  <2> QED BY <1>8, <2>1, <2>2
<1>11. /\ \A j \in DOMAIN fs : gs[j].act \in 1 .. n
       /\ \A j, k \in DOMAIN fs : j < k => gs[j].act < gs[k].act
  BY <1>8 DEF Stack
<1>12. Stack(c, gs, n)
  BY <1>6, <1>9, <1>10, <1>11 DEF Stack
<1> QED BY <1>5, <1>6, <1>8, <1>12

\* Frames are left, innermost first.
LEMMA FramesLeft ==
    ASSUME NEW c, NEW fs, NEW n \in Nat, Stack(c, fs, n), NEW k \in 0 .. Len(fs)
    PROVE  /\ Stack(c, SubSeq(fs, 1, k), n)
           /\ Len(SubSeq(fs, 1, k)) = k /\ DOMAIN SubSeq(fs, 1, k) = 1 .. k
           /\ \A j \in 1 .. k : j \in DOMAIN fs /\ SubSeq(fs, 1, k)[j] = fs[j]
<1> DEFINE F == FrameOf(c)
           gs == SubSeq(fs, 1, k)
<1>1. fs \in Seq(F) /\ Len(fs) \in Nat /\ DOMAIN fs = 1 .. Len(fs)
  BY DEF Stack
<1>2. /\ gs \in Seq(F) /\ Len(gs) = k
      /\ \A j \in 1 .. k : j \in DOMAIN fs /\ gs[j] = fs[j]
  <2> HIDE DEF F
  <2> QED BY <1>1, FirstOf
<1>3. DOMAIN gs = 1 .. k
  BY <1>2
<1> HIDE DEF gs
<1>4. k <= MaxDepth
  BY <1>1, ProgramsAssumption DEF Stack
<1>5. \A j \in 1 .. k : j < k => j < Len(fs)
  BY <1>1
<1>6. Stack(c, gs, n)
  BY <1>2, <1>3, <1>4, <1>5 DEF Stack
<1> QED BY <1>2, <1>3, <1>6 DEF gs

\* A call, from a frame that has one after it.
LEMMA FrameEntered ==
    ASSUME NEW c, NEW fs, NEW n \in Nat, Stack(c, fs, n), WellFormed(c),
           fs # <<>> => fs[Len(fs)].ip > 1, Len(fs) < MaxDepth, n < MaxCalls,
           NEW f \in DOMAIN c, NEW a \in Nat, NEW t \in 1 .. n + 1,
           \A j \in DOMAIN fs : fs[j].act < t
    PROVE  LET gs == Append(fs, Frame(f, a, t))
           IN  /\ Stack(c, gs, n + 1)
               /\ Len(gs) = Len(fs) + 1 /\ DOMAIN gs = 1 .. Len(fs) + 1
               /\ \A j \in DOMAIN fs : j \in DOMAIN gs /\ gs[j] = fs[j]
               /\ gs[Len(fs) + 1] = Frame(f, a, t)
<1> DEFINE F == FrameOf(c)
           new == Frame(f, a, t)
           gs == Append(fs, new)
<1>1. fs \in Seq(F) /\ Len(fs) \in Nat /\ DOMAIN fs = 1 .. Len(fs)
  BY DEF Stack
<1>2. 1 \in DOMAIN c[f]
  BY DEF WellFormed
<1>3. new \in F /\ new.ip = 1 /\ new.fn = f /\ new.act = t
  BY ProgramsAssumption DEF Frame, Acts, FrameOf
<1> HIDE DEF new
<1>4. /\ gs \in Seq(F) /\ Len(gs) = Len(fs) + 1 /\ DOMAIN gs = 1 .. Len(fs) + 1
      /\ \A j \in DOMAIN fs : j \in DOMAIN gs /\ gs[j] = fs[j]
      /\ gs[Len(fs) + 1] = new
  BY <1>1, <1>3
<1> HIDE DEF gs
<1>5. \A j \in DOMAIN gs : j = Len(fs) + 1 \/ j \in DOMAIN fs
  BY <1>1, <1>4
<1>6. \A j \in DOMAIN gs : gs[j].ip \in DOMAIN c[gs[j].fn]
  BY <1>2, <1>3, <1>4, <1>5 DEF Stack
<1>7. \A j \in DOMAIN gs : gs[j].act \in 1 .. n + 1
  <2>1. \A j \in DOMAIN fs : gs[j].act \in 1 .. n
    BY <1>4 DEF Stack
  <2> QED BY <1>3, <1>4, <1>5, <2>1
<1>8. \A j, k \in DOMAIN gs : j < k => gs[j].act < gs[k].act
  <2> SUFFICES ASSUME NEW j \in DOMAIN gs, NEW k \in DOMAIN gs, j < k
               PROVE  gs[j].act < gs[k].act
    OBVIOUS
  <2>1. j \in DOMAIN fs
    BY <1>1, <1>4, <1>5
  <2>2. CASE k \in DOMAIN fs
    BY <1>4, <2>1, <2>2 DEF Stack
  <2>3. CASE k = Len(fs) + 1
    BY <1>3, <1>4, <2>1, <2>3
  <2> QED BY <1>5, <2>2, <2>3
<1>9. \A j \in DOMAIN gs : j < Len(gs) => gs[j].ip > 1
  <2> SUFFICES ASSUME NEW j \in DOMAIN gs, j < Len(gs) PROVE gs[j].ip > 1
    OBVIOUS
  <2>1. j \in DOMAIN fs /\ gs[j] = fs[j] /\ j <= Len(fs) /\ fs # <<>>
    BY <1>1, <1>4
  <2>2. CASE j < Len(fs)
    BY <2>1, <2>2 DEF Stack
  <2>3. CASE j = Len(fs)
    BY <2>1, <2>3
  <2> QED BY <1>1, <2>1, <2>2, <2>3
<1>10. Len(gs) <= MaxDepth
  BY <1>1, <1>4, ProgramsAssumption
<1>11. Stack(c, gs, n + 1)
  BY <1>4, <1>6, <1>7, <1>8, <1>9, <1>10 DEF Stack
<1> QED BY <1>4, <1>11 DEF gs, new

-----------------------------------------------------------------------------
(* Try blocks and handlers.                                                *)

\* The catch blocks of the try blocks around an instruction, outermost first, tell how
\* many are around each.
LEMMA TriesNest ==
    ASSUME NEW c, WellFormed(c), NEW f \in DOMAIN c, NEW i \in DOMAIN c[f]
    PROVE  LET t == c[f][i].tries
           IN  /\ t \in Seq(DOMAIN c[f]) /\ DOMAIN t = 1 .. Len(t) /\ Len(t) \in Nat
               /\ \A k \in DOMAIN t :
                     /\ t[k] \in DOMAIN c[f] /\ c[f][t[k]].tries = SubSeq(t, 1, k - 1)
                     /\ Len(c[f][t[k]].tries) + 1 = k
<1> DEFINE t == c[f][i].tries
<1>1. t \in Seq(DOMAIN c[f]) /\ DOMAIN t = 1 .. Len(t) /\ Len(t) \in Nat
  BY DEF WellFormed
<1>2. \A k \in DOMAIN t : t[k] \in DOMAIN c[f] /\ c[f][t[k]].tries = SubSeq(t, 1, k - 1)
  BY DEF WellFormed, Nested
<1> HIDE DEF t
<1>3. \A k \in DOMAIN t : Len(SubSeq(t, 1, k - 1)) + 1 = k
  BY <1>1
<1> QED BY <1>1, <1>2, <1>3 DEF t

\* A frame's catch blocks, one per level.
LEMMA FrameNests ==
    ASSUME NEW c, NEW fs, NEW n, Stack(c, fs, n), WellFormed(c), NEW d \in DOMAIN fs
    PROVE  LET t == Tries(c, fs[d])
           IN  /\ t \in Seq(DOMAIN c[fs[d].fn]) /\ DOMAIN t = 1 .. Len(t) /\ Len(t) \in Nat
               /\ \A x \in Range(t) : Level(c, fs[d], x) \in DOMAIN t /\ t[Level(c, fs[d], x)] = x
               /\ \A k \in DOMAIN t : Level(c, fs[d], t[k]) = k /\ t[k] \in Range(t)
<1>1. fs[d].fn \in DOMAIN c /\ fs[d].ip \in DOMAIN c[fs[d].fn]
  <2>1. fs[d] \in FrameOf(c)
    BY DEF Stack
  <2> QED BY <2>1 DEF Stack, FrameOf
<1> DEFINE t == Tries(c, fs[d])
<1>2. /\ t \in Seq(DOMAIN c[fs[d].fn]) /\ DOMAIN t = 1 .. Len(t) /\ Len(t) \in Nat
      /\ \A k \in DOMAIN t : Level(c, fs[d], t[k]) = k
  BY <1>1, TriesNest DEF Tries, Level
<1> QED BY <1>2 DEF Range

\* Frames that have the functions and the try blocks of others have their handlers.
LEMMA GuardedAlike ==
    ASSUME NEW c, NEW fs, NEW gs, NEW hs, Guarded(c, fs, hs),
           \A d \in DOMAIN fs \cap DOMAIN gs :
               gs[d].fn = fs[d].fn /\ Tries(c, gs[d]) = Tries(c, fs[d]),
           \A d \in DOMAIN fs \ DOMAIN gs : Tries(c, fs[d]) = <<>>,
           \A d \in DOMAIN gs \ DOMAIN fs : Tries(c, gs[d]) = <<>>
    PROVE  Guarded(c, gs, hs)
<1>1. \A i \in DOMAIN hs : hs[i].depth \in DOMAIN fs \cap DOMAIN gs
  BY DEF Guarded, Owned, Range
<1>2. \A i \in DOMAIN hs : Owned(c, gs, hs[i])
  BY <1>1 DEF Guarded, Owned
<1>3. \A i \in DOMAIN hs : \A x : Level(c, gs[hs[i].depth], x) = Level(c, fs[hs[i].depth], x)
  BY <1>1 DEF Level
<1>4. \A i, j \in DOMAIN hs : i < j => Inner(c, gs, hs[i], hs[j])
  BY <1>3 DEF Guarded, Inner
<1>5. ASSUME NEW d \in DOMAIN gs, NEW x \in Range(Tries(c, gs[d]))
      PROVE  \E i \in DOMAIN hs : hs[i].depth = d /\ hs[i].catch = x
  <2>1. d \in DOMAIN fs
    BY <1>5 DEF Range
  <2> QED BY <2>1 DEF Guarded
<1> QED BY <1>2, <1>4, <1>5 DEF Guarded

\* The handler on top is that of the innermost try block of its frame.
LEMMA InnermostHandler ==
    ASSUME NEW c, NEW fs, NEW n, Stack(c, fs, n), WellFormed(c),
           NEW H, NEW hs \in Seq(H), Guarded(c, fs, hs),
           NEW d \in DOMAIN fs, Tries(c, fs[d]) # <<>>,
           \A i \in DOMAIN hs : hs[i].depth <= d
    PROVE  LET t == Tries(c, fs[d])
           IN  hs # <<>> /\ hs[Len(hs)].depth = d /\ hs[Len(hs)].catch = t[Len(t)]
<1> DEFINE t == Tries(c, fs[d])
           m == Len(hs)
<1>1. /\ DOMAIN t = 1 .. Len(t) /\ Len(t) \in Nat /\ t \in Seq(DOMAIN c[fs[d].fn])
      /\ \A x \in Range(t) : Level(c, fs[d], x) \in DOMAIN t /\ t[Level(c, fs[d], x)] = x
      /\ \A k \in DOMAIN t : Level(c, fs[d], t[k]) = k /\ t[k] \in Range(t)
  BY FrameNests
<1>2. Len(t) \in DOMAIN t
  BY <1>1
<1>3. PICK i \in DOMAIN hs : hs[i].depth = d /\ hs[i].catch = t[Len(t)]
  BY <1>1, <1>2 DEF Guarded
<1>4. m \in Nat /\ DOMAIN hs = 1 .. m /\ m \in DOMAIN hs /\ i <= m
  BY <1>3
<1>5. Owned(c, fs, hs[m]) /\ hs[m].depth <= d
  BY <1>4 DEF Guarded
<1>6. CASE i = m
  BY <1>3, <1>4, <1>6
<1>7. CASE i < m
  <2>1. Inner(c, fs, hs[i], hs[m])
    BY <1>4, <1>7 DEF Guarded
  <2>2. d \in Nat /\ hs[m].depth \in Nat
    BY <1>4, <1>5 DEF Stack, Owned
  <2>3. hs[m].depth = d /\ Len(t) < Level(c, fs[d], hs[m].catch)
    BY <1>1, <1>2, <1>3, <1>5, <2>1, <2>2 DEF Inner
  <2>4. Level(c, fs[d], hs[m].catch) \in DOMAIN t
    BY <1>1, <1>5, <2>3 DEF Owned
  <2> QED BY <1>1, <2>3, <2>4
<1> QED BY <1>3, <1>4, <1>6, <1>7

\* A throw leaves the frames above that of its handler.
LEMMA GuardedBelow ==
    ASSUME NEW c, NEW fs, NEW n \in Nat, Stack(c, fs, n), NEW hs, Guarded(c, fs, hs),
           NEW k \in 0 .. Len(fs), \A i \in DOMAIN hs : hs[i].depth <= k
    PROVE  Guarded(c, SubSeq(fs, 1, k), hs)
<1> DEFINE gs == SubSeq(fs, 1, k)
<1>1. DOMAIN gs = 1 .. k /\ \A j \in 1 .. k : j \in DOMAIN fs /\ gs[j] = fs[j]
  BY FramesLeft
<1> HIDE DEF gs
<1>2. \A i \in DOMAIN hs : hs[i].depth \in 1 .. k /\ gs[hs[i].depth] = fs[hs[i].depth]
  <2> SUFFICES ASSUME NEW i \in DOMAIN hs
               PROVE  hs[i].depth \in 1 .. k /\ gs[hs[i].depth] = fs[hs[i].depth]
    OBVIOUS
  <2>1. hs[i].depth \in DOMAIN fs
    BY DEF Guarded, Owned
  <2>2. DOMAIN fs = 1 .. Len(fs) /\ Len(fs) \in Nat
    BY DEF Stack
  <2>3. hs[i].depth \in 1 .. k
    BY <2>1, <2>2
  <2> QED BY <1>1, <2>3
<1>3. \A i \in DOMAIN hs : Owned(c, gs, hs[i])
  BY <1>1, <1>2 DEF Guarded, Owned
<1>4. \A i, j \in DOMAIN hs : i < j => Inner(c, gs, hs[i], hs[j])
  BY <1>2 DEF Guarded, Inner
<1>5. \A d \in DOMAIN gs : \A x \in Range(Tries(c, gs[d])) :
          \E i \in DOMAIN hs : hs[i].depth = d /\ hs[i].catch = x
  BY <1>1 DEF Guarded
<1> QED BY <1>3, <1>4, <1>5 DEF Guarded, gs

\* A frame that enters a try block has one handler more.
LEMMA GuardedTry ==
    ASSUME NEW c, NEW fs, NEW n \in Nat, Stack(c, fs, n), WellFormed(c), fs # <<>>,
           NEW H, NEW hs \in Seq(H), Guarded(c, fs, hs),
           NEW i \in DOMAIN c[fs[Len(fs)].fn], NEW x \in DOMAIN c[fs[Len(fs)].fn],
           c[fs[Len(fs)].fn][x].tries = Tries(c, fs[Len(fs)]),
           c[fs[Len(fs)].fn][i].tries = Append(Tries(c, fs[Len(fs)]), x),
           NEW h \in H, h.depth = Len(fs), h.catch = x
    PROVE  Guarded(c, MovedTo(fs, i), Append(hs, h))
<1> DEFINE gs == MovedTo(fs, i)
           d == Len(fs)
           t == Tries(c, fs[d])
           ks == Append(hs, h)
<1>1. d \in Nat /\ DOMAIN fs = 1 .. d /\ d \in DOMAIN fs
  BY DEF Stack
<1>2. /\ t \in Seq(DOMAIN c[fs[d].fn]) /\ DOMAIN t = 1 .. Len(t) /\ Len(t) \in Nat
      /\ \A y \in Range(t) : Level(c, fs[d], y) \in DOMAIN t /\ t[Level(c, fs[d], y)] = y
  BY <1>1, FrameNests
<1>3. /\ DOMAIN gs = DOMAIN fs
      /\ \A j \in DOMAIN fs :
            /\ gs[j].fn = fs[j].fn
            /\ gs[j].ip = IF j = Len(fs) THEN i ELSE fs[j].ip
  BY FrameMoves
<1> HIDE DEF gs
<1>4. Tries(c, gs[d]) = Append(t, x) /\ \A j \in DOMAIN fs : j # d => Tries(c, gs[j]) = Tries(c, fs[j])
  BY <1>1, <1>3 DEF Tries
<1>5. \A j \in DOMAIN fs : \A y : Level(c, gs[j], y) = Level(c, fs[j], y)
  BY <1>3 DEF Level
<1>6. Level(c, gs[d], x) = Len(t) + 1
  BY <1>1, <1>3 DEF Level
<1> HIDE DEF t
<1>7. Range(Append(t, x)) = Range(t) \cup {x}
  <2>1. DOMAIN Append(t, x) = 1 .. Len(t) + 1 /\ Append(t, x)[Len(t) + 1] = x
        /\ \A k \in 1 .. Len(t) : Append(t, x)[k] = t[k]
    BY <1>2
  <2>2. \A k \in 1 .. Len(t) + 1 : k \in 1 .. Len(t) \/ k = Len(t) + 1
    BY <1>2
  <2>3. Len(t) + 1 \in 1 .. Len(t) + 1 /\ \A k \in 1 .. Len(t) : k \in 1 .. Len(t) + 1
    BY <1>2
  <2> QED BY <1>2, <2>1, <2>2, <2>3 DEF Range
<1>8. /\ Len(hs) \in Nat /\ DOMAIN hs = 1 .. Len(hs) /\ DOMAIN ks = 1 .. Len(hs) + 1
      /\ \A j \in DOMAIN hs : j \in DOMAIN ks /\ ks[j] = hs[j]
      /\ ks[Len(hs) + 1] = h /\ Len(hs) + 1 \in DOMAIN ks
      /\ \A j \in DOMAIN ks : j = Len(hs) + 1 \/ j \in DOMAIN hs
  OBVIOUS
<1> HIDE DEF ks
<1>9. Owned(c, gs, h)
  BY <1>1, <1>3, <1>4, <1>7 DEF Owned
<1>10. \A j \in DOMAIN hs : Owned(c, gs, hs[j])
  <2> SUFFICES ASSUME NEW j \in DOMAIN hs PROVE Owned(c, gs, hs[j])
    OBVIOUS
  <2>1. hs[j].depth \in DOMAIN fs /\ hs[j].catch \in Range(Tries(c, fs[hs[j].depth]))
    BY DEF Guarded, Owned
  <2>2. hs[j].catch \in Range(Tries(c, gs[hs[j].depth]))
    BY <1>4, <1>7, <2>1 DEF t
  <2> QED BY <1>3, <2>1, <2>2 DEF Owned
<1>11. \A j \in DOMAIN hs : Inner(c, gs, hs[j], h)
  <2> SUFFICES ASSUME NEW j \in DOMAIN hs PROVE Inner(c, gs, hs[j], h)
    OBVIOUS
  <2>1. hs[j].depth \in DOMAIN fs /\ hs[j].catch \in Range(Tries(c, fs[hs[j].depth]))
    BY DEF Guarded, Owned
  <2>2. CASE hs[j].depth = d
    <3>1. Level(c, fs[d], hs[j].catch) \in DOMAIN t
      BY <1>2, <2>1, <2>2 DEF t
    <3>2. Level(c, fs[d], hs[j].catch) < Len(t) + 1
      BY <1>2, <3>1
    <3> QED BY <1>1, <1>5, <1>6, <2>2, <3>2 DEF Inner
  <2>3. CASE hs[j].depth # d
    BY <1>1, <2>1, <2>3 DEF Inner
  <2> QED BY <2>2, <2>3
<1>12. \A j, k \in DOMAIN hs : j < k => Inner(c, gs, hs[j], hs[k])
  <2>1. \A j \in DOMAIN hs : hs[j].depth \in DOMAIN fs
    BY DEF Guarded, Owned
  <2> QED BY <1>5, <2>1 DEF Guarded, Inner
<1>13. \A j, k \in DOMAIN ks : j < k => Inner(c, gs, ks[j], ks[k])
  <2> SUFFICES ASSUME NEW j \in DOMAIN ks, NEW k \in DOMAIN ks, j < k
               PROVE  Inner(c, gs, ks[j], ks[k])
    OBVIOUS
  <2>1. j \in DOMAIN hs
    BY <1>8
  <2> QED BY <1>8, <1>11, <1>12, <2>1
<1>14. ASSUME NEW e \in DOMAIN gs, NEW y \in Range(Tries(c, gs[e]))
       PROVE  \E j \in DOMAIN ks : ks[j].depth = e /\ ks[j].catch = y
  <2>1. CASE e = d /\ y = x
    BY <1>8, <2>1
  <2>2. CASE ~(e = d /\ y = x)
    <3>1. y \in Range(Tries(c, fs[e]))
      BY <1>3, <1>4, <1>7, <1>14, <2>2 DEF t
    <3>2. PICK j \in DOMAIN hs : hs[j].depth = e /\ hs[j].catch = y
      BY <1>3, <1>14, <3>1 DEF Guarded
    <3> QED BY <1>8, <3>2
  <2> QED BY <2>1, <2>2
<1> QED
  <2>1. \A j \in DOMAIN ks : Owned(c, gs, ks[j])
    BY <1>8, <1>9, <1>10
  <2> QED BY <1>13, <1>14, <2>1 DEF Guarded, gs, ks

\* A frame that leaves a try block has one handler less.
LEMMA GuardedLeave ==
    ASSUME NEW c, NEW fs, NEW n \in Nat, Stack(c, fs, n), WellFormed(c), fs # <<>>,
           NEW H, NEW hs \in Seq(H), Guarded(c, fs, hs),
           Tries(c, fs[Len(fs)]) # <<>>, NEW i \in DOMAIN c[fs[Len(fs)].fn],
           c[fs[Len(fs)].fn][i].tries = Front(Tries(c, fs[Len(fs)]))
    PROVE  hs # <<>> /\ Guarded(c, MovedTo(fs, i), Front(hs))
<1> DEFINE gs == MovedTo(fs, i)
           d == Len(fs)
           t == Tries(c, fs[d])
           ks == Front(hs)
<1>1. d \in Nat /\ DOMAIN fs = 1 .. d /\ d \in DOMAIN fs
  BY DEF Stack
<1>2. /\ t \in Seq(DOMAIN c[fs[d].fn]) /\ DOMAIN t = 1 .. Len(t) /\ Len(t) \in Nat
      /\ \A y \in Range(t) : Level(c, fs[d], y) \in DOMAIN t /\ t[Level(c, fs[d], y)] = y
      /\ \A k \in DOMAIN t : Level(c, fs[d], t[k]) = k /\ t[k] \in Range(t)
  BY <1>1, FrameNests
<1>3. /\ DOMAIN gs = DOMAIN fs
      /\ \A j \in DOMAIN fs :
            /\ gs[j].fn = fs[j].fn
            /\ gs[j].ip = IF j = Len(fs) THEN i ELSE fs[j].ip
  BY FrameMoves
<1>4. \A j \in DOMAIN hs : hs[j].depth <= d
  BY <1>1 DEF Guarded, Owned
<1>5. hs # <<>> /\ hs[Len(hs)].depth = d /\ hs[Len(hs)].catch = t[Len(t)]
  BY <1>1, <1>4, InnermostHandler
<1> HIDE DEF gs
<1>6. Tries(c, gs[d]) = Front(t) /\ \A j \in DOMAIN fs : j # d => Tries(c, gs[j]) = Tries(c, fs[j])
  BY <1>1, <1>3 DEF Tries
<1>7. \A j \in DOMAIN fs : \A y : Level(c, gs[j], y) = Level(c, fs[j], y)
  BY <1>3 DEF Level
<1> HIDE DEF t
<1>8. t # <<>>
  BY DEF t
<1>9. /\ Len(t) \in DOMAIN t /\ DOMAIN Front(t) = 1 .. Len(t) - 1
      /\ \A k \in DOMAIN Front(t) : k \in DOMAIN t /\ Front(t)[k] = t[k]
  BY <1>2, <1>8, FrontLast
<1>10. /\ Len(hs) \in Nat /\ DOMAIN hs = 1 .. Len(hs) /\ DOMAIN ks = 1 .. Len(hs) - 1
       /\ Len(hs) \in DOMAIN hs
       /\ \A j \in DOMAIN ks : j \in DOMAIN hs /\ ks[j] = hs[j] /\ j < Len(hs)
       /\ \A j \in DOMAIN hs : j = Len(hs) \/ j \in DOMAIN ks
  <2>1. /\ DOMAIN ks = 1 .. Len(hs) - 1 /\ Len(hs) \in DOMAIN hs
        /\ \A j \in DOMAIN ks : j \in DOMAIN hs /\ ks[j] = hs[j]
    BY <1>5, FrontLast
  <2> HIDE DEF ks
  <2>2. Len(hs) \in Nat /\ DOMAIN hs = 1 .. Len(hs)
    OBVIOUS
  <2> QED BY <2>1, <2>2
<1> HIDE DEF ks
<1>11. \A j \in DOMAIN hs : /\ hs[j].depth \in DOMAIN fs
                            /\ hs[j].catch \in Range(Tries(c, fs[hs[j].depth]))
  BY DEF Guarded, Owned
<1>12. \A j \in DOMAIN ks : Owned(c, gs, ks[j])
  <2> SUFFICES ASSUME NEW j \in DOMAIN ks PROVE Owned(c, gs, hs[j])
    BY <1>10
  <2>1. j \in DOMAIN hs /\ j < Len(hs)
    BY <1>10
  <2>2. CASE hs[j].depth # d
    BY <1>3, <1>6, <1>11, <2>1, <2>2 DEF Owned
  <2>3. CASE hs[j].depth = d
    <3>1. Inner(c, fs, hs[j], hs[Len(hs)])
      BY <1>10, <2>1 DEF Guarded
    <3>2. Level(c, fs[d], hs[j].catch) < Len(t)
      BY <1>1, <1>2, <1>5, <1>9, <2>3, <3>1 DEF Inner
    <3>3. /\ Level(c, fs[d], hs[j].catch) \in DOMAIN t
          /\ t[Level(c, fs[d], hs[j].catch)] = hs[j].catch
      BY <1>2, <1>11, <2>1, <2>3 DEF t
    <3>4. Level(c, fs[d], hs[j].catch) \in DOMAIN Front(t)
      BY <1>2, <1>9, <3>2, <3>3
    <3>5. hs[j].catch \in Range(Front(t))
      BY <1>9, <3>3, <3>4 DEF Range
    <3> QED BY <1>1, <1>3, <1>6, <2>3, <3>5 DEF Owned
  <2> QED BY <2>2, <2>3
<1>13. \A j, k \in DOMAIN ks : j < k => Inner(c, gs, ks[j], ks[k])
  <2>1. \A j, k \in DOMAIN hs : j < k => Inner(c, gs, hs[j], hs[k])
    BY <1>7, <1>11 DEF Guarded, Inner
  <2> QED BY <1>10, <2>1
<1>14. ASSUME NEW e \in DOMAIN gs, NEW y \in Range(Tries(c, gs[e]))
       PROVE  \E j \in DOMAIN ks : ks[j].depth = e /\ ks[j].catch = y
  <2>1. /\ y \in Range(Tries(c, fs[e]))
        /\ e = d => y # t[Len(t)]
    <3>1. CASE e = d
      <4>1. PICK k \in DOMAIN Front(t) : y = Front(t)[k]
        BY <1>6, <1>14, <3>1 DEF Range
      <4>2. k \in DOMAIN t /\ y = t[k] /\ k # Len(t)
        BY <1>2, <1>9, <4>1
      <4>3. Level(c, fs[d], y) = k /\ Level(c, fs[d], t[Len(t)]) = Len(t)
        BY <1>2, <1>9, <4>2
      <4> QED BY <1>2, <3>1, <4>2, <4>3 DEF t
    <3>2. CASE e # d
      BY <1>3, <1>6, <1>14, <3>2
    <3> QED BY <3>1, <3>2
  <2>2. PICK j \in DOMAIN hs : hs[j].depth = e /\ hs[j].catch = y
    BY <1>3, <1>14, <2>1 DEF Guarded
  <2>3. j # Len(hs)
    BY <1>5, <2>1, <2>2
  <2> QED BY <1>10, <2>2, <2>3
<1> QED BY <1>5, <1>12, <1>13, <1>14 DEF Guarded, gs, ks

-----------------------------------------------------------------------------
(* Core.                                                                   *)

\* The invariant says all that the type invariant does.
LEMMA CoreTypes == Core => TypeOK
<1> SUFFICES ASSUME Core PROVE TypeOK
  OBVIOUS
<1>1. /\ frames \in Seq([fn : DOMAIN code, ip : Nat, arg : Nat, act : Acts])
      /\ \A i \in DOMAIN frames : frames[i].ip \in DOMAIN code[frames[i].fn]
  BY DEF Core, Machine, Stack, FrameOf
<1>2. /\ breakpoints \in Seq([line : Lines, cond : Conditions, hits : Nat])
      /\ Len(breakpoints) <= BREAKPOINTS_MAX
      /\ IsInjective([i \in DOMAIN breakpoints |-> breakpoints[i].line])
  BY DEF Core, Store, Good, BreakpointType, IsInjective
<1>3. handlers \in Seq([depth : 1 .. MaxDepth, catch : Nat])
  BY DEF Core, Machine, HandlerType
<1> QED BY <1>1, <1>2, <1>3 DEF Core, Machine, Memory, Store, TypeOK

\* The instruction that is next, and what the compiler says of it.
LEMMA Here ==
    ASSUME Machine, frames # <<>>
    PROVE  /\ Len(frames) \in Nat \ {0} /\ DOMAIN frames = 1 .. Len(frames)
           /\ Len(frames) \in DOMAIN frames /\ Top = frames[Len(frames)]
           /\ WellFormed(code) /\ calls \in Nat
           /\ Top.fn \in DOMAIN code /\ Top.ip \in DOMAIN code[Top.fn] /\ Top.ip \in Nat \ {0}
           /\ Instruction = code[Top.fn][Top.ip] /\ Tries(code, Top) = Instruction.tries
<1>1. frames \in Seq(FrameOf(code)) /\ code \in Programs /\ calls \in Nat
  BY ProgramsAssumption DEF Machine, Stack, Acts
<1>2. /\ Len(frames) \in Nat \ {0} /\ DOMAIN frames = 1 .. Len(frames)
      /\ Len(frames) \in DOMAIN frames /\ Top = frames[Len(frames)] /\ Top \in FrameOf(code)
  BY <1>1, FrontLast DEF Top
<1>3. WellFormed(code)
  BY <1>1, ProgramsAssumption
<1>4. Top.fn \in DOMAIN code /\ Top.ip \in DOMAIN code[Top.fn]
  BY <1>2 DEF FrameOf, Machine, Stack
<1>5. Top.ip \in Nat \ {0}
  BY <1>3, <1>4 DEF WellFormed
<1> QED BY <1>1, <1>2, <1>3, <1>4, <1>5 DEF Instruction, Tries

\* A step that leaves the machine alone.
LEMMA MachineRests ==
    ASSUME Machine, UNCHANGED <<code, frames, handlers, calls>>
    PROVE  Machine'
BY DEF Machine

\* Where an instruction leads within its function, with the handlers that leaves.
LEMMA SimpleLeads ==
    ASSUME Machine, frames # <<>>, Simple
    PROVE  \E i \in DOMAIN code[Top.fn] :
              /\ frames' = MovedTo(frames, i)
              /\ handlers' \in Seq(HandlerType) /\ Guarded(code, frames', handlers')
<1> DEFINE ins == code[Top.fn]
           x == Instruction
           d == Len(frames)
<1>1. /\ d \in Nat \ {0} /\ DOMAIN frames = 1 .. d /\ d \in DOMAIN frames /\ Top = frames[d]
      /\ WellFormed(code) /\ calls \in Nat
      /\ Top.fn \in DOMAIN code /\ Top.ip \in DOMAIN ins /\ Top.ip \in Nat \ {0}
      /\ x = ins[Top.ip] /\ Tries(code, Top) = x.tries
  BY Here
<1>2. Stack(code, frames, calls) /\ Guarded(code, frames, handlers) /\ handlers \in Seq(HandlerType)
      /\ d <= MaxDepth
  BY DEF Machine, Stack
<1>3. /\ Falls(x) => Top.ip + 1 \in DOMAIN ins
      /\ Goes(x) => x.to \in DOMAIN ins
  BY <1>1 DEF WellFormed
<1>4. /\ Goes(x) => ins[x.to].tries = x.tries
      /\ x.op \in {"plain", "branch", "call"} => ins[Top.ip + 1].tries = x.tries
      /\ x.op = "try" => ins[Top.ip + 1].tries = Append(x.tries, x.to)
      /\ x.op = "try_end" => x.tries # <<>> /\ ins[Top.ip + 1].tries = Front(x.tries)
  BY <1>1 DEF WellFormed, Nested
<1>5. \A i : Moved(i) = MovedTo(frames, i)
  BY DEF Moved, MovedTo
<1> HIDE DEF ins, x, d
<1>6. ASSUME NEW i \in DOMAIN ins, ins[i].tries = x.tries
      PROVE  Guarded(code, MovedTo(frames, i), handlers)
  <2>1. /\ DOMAIN MovedTo(frames, i) = DOMAIN frames
        /\ \A j \in DOMAIN frames :
              /\ MovedTo(frames, i)[j].fn = frames[j].fn
              /\ MovedTo(frames, i)[j].ip = IF j = Len(frames) THEN i ELSE frames[j].ip
    BY <1>1, <1>2, <1>6, FrameMoves DEF ins, d
  <2>2. \A j \in DOMAIN frames : Tries(code, MovedTo(frames, i)[j]) = Tries(code, frames[j])
    BY <1>1, <1>6, <2>1 DEF Tries, ins, d
  <2> QED BY <1>2, <2>1, <2>2, GuardedAlike
<1>7. CASE Instructions("plain") /\ frames' = Moved(Top.ip + 1) /\ UNCHANGED handlers
  <2>1. x.op = "plain" /\ Top.ip + 1 \in DOMAIN ins /\ ins[Top.ip + 1].tries = x.tries
    BY <1>3, <1>4, <1>7 DEF Instructions, Falls, x
  <2> QED BY <1>2, <1>5, <1>6, <1>7, <2>1 DEF ins
<1>8. CASE Instructions("jump") /\ frames' = Moved(x.to) /\ UNCHANGED handlers
  <2>1. x.op = "jump" /\ x.to \in DOMAIN ins /\ ins[x.to].tries = x.tries
    BY <1>3, <1>4, <1>8 DEF Instructions, Goes, x
  <2> QED BY <1>2, <1>5, <1>6, <1>8, <2>1 DEF ins, x
<1>9. CASE /\ Instructions("branch")
           /\ \E i \in {x.to, Top.ip + 1} : frames' = Moved(i)
           /\ UNCHANGED handlers
  <2>1. /\ x.op = "branch" /\ x.to \in DOMAIN ins /\ ins[x.to].tries = x.tries
        /\ Top.ip + 1 \in DOMAIN ins /\ ins[Top.ip + 1].tries = x.tries
    BY <1>3, <1>4, <1>9 DEF Instructions, Goes, Falls, x
  <2>2. PICK i \in {x.to, Top.ip + 1} : frames' = Moved(i)
    BY <1>9
  <2>3. i \in DOMAIN ins /\ ins[i].tries = x.tries
    BY <2>1
  <2> QED BY <1>2, <1>5, <1>6, <1>9, <2>1, <2>2, <2>3 DEF ins, x
<1>10. CASE /\ Instructions("try")
            /\ frames' = Moved(Top.ip + 1)
            /\ handlers' = Append(handlers, [depth |-> Len(frames), catch |-> x.to])
  <2> DEFINE h == [depth |-> Len(frames), catch |-> x.to]
  <2>1. /\ x.op = "try" /\ x.to \in DOMAIN ins /\ ins[x.to].tries = x.tries
        /\ Top.ip + 1 \in DOMAIN ins /\ ins[Top.ip + 1].tries = Append(x.tries, x.to)
    BY <1>3, <1>4, <1>10 DEF Instructions, Goes, Falls, x
  <2>2. x.to \in Nat
    <3>1. DOMAIN ins = 1 .. Len(ins)
      BY <1>1 DEF WellFormed, ins
    <3> QED BY <2>1, <3>1
  <2>3. h \in HandlerType /\ h.depth = Len(frames) /\ h.catch = x.to
    BY <1>1, <1>2, <2>2, ProgramsAssumption DEF HandlerType, d
  <2> HIDE DEF h
  <2>4. Guarded(code, MovedTo(frames, Top.ip + 1), Append(handlers, h))
    BY <1>1, <1>2, <2>1, <2>3, GuardedTry DEF ins, d
  <2>5. Append(handlers, h) \in Seq(HandlerType)
    BY <1>2, <2>3
  <2> QED BY <1>5, <1>10, <2>1, <2>4, <2>5 DEF ins, h
<1>11. CASE /\ Instructions("try_end")
            /\ frames' = Moved(Top.ip + 1)
            /\ handlers' = IF handlers = <<>> THEN handlers ELSE Front(handlers)
  <2>1. /\ x.op = "try_end" /\ x.tries # <<>>
        /\ Top.ip + 1 \in DOMAIN ins /\ ins[Top.ip + 1].tries = Front(x.tries)
    BY <1>3, <1>4, <1>11 DEF Instructions, Falls, x
  <2>2. handlers # <<>> /\ Guarded(code, MovedTo(frames, Top.ip + 1), Front(handlers))
    BY <1>1, <1>2, <2>1, GuardedLeave DEF ins, d
  <2>3. Front(handlers) \in Seq(HandlerType)
    BY <1>2, <2>2, FrontLast
  <2> QED BY <1>5, <1>11, <2>1, <2>2, <2>3 DEF ins
<1> QED BY <1>7, <1>8, <1>9, <1>10, <1>11 DEF Simple, x

\* Values, jumps, OP_TRY and OP_TRY_END: the frame moves on.
LEMMA SimpleMoves ==
    ASSUME Machine, frames # <<>>, Simple
    PROVE  /\ Machine' /\ Len(frames') = Len(frames)
           /\ \A j \in DOMAIN frames :
                 j \in DOMAIN frames' /\ frames'[j].fn = frames[j].fn /\ frames'[j].act = frames[j].act
<1>1. /\ Len(frames) \in Nat \ {0} /\ DOMAIN frames = 1 .. Len(frames)
      /\ Len(frames) \in DOMAIN frames /\ Top = frames[Len(frames)]
      /\ WellFormed(code) /\ calls \in Nat
      /\ Top.fn \in DOMAIN code /\ Top.ip \in DOMAIN code[Top.fn]
      /\ Instruction = code[Top.fn][Top.ip]
  BY Here
<1>2. PICK i \in DOMAIN code[Top.fn] :
         /\ frames' = MovedTo(frames, i)
         /\ handlers' \in Seq(HandlerType) /\ Guarded(code, frames', handlers')
  BY SimpleLeads
<1>3. /\ Stack(code, frames', calls) /\ Len(frames') = Len(frames) /\ DOMAIN frames' = DOMAIN frames
      /\ \A j \in DOMAIN frames :
            /\ frames'[j].fn = frames[j].fn /\ frames'[j].act = frames[j].act
            /\ frames'[j].ip = IF j = Len(frames) THEN i ELSE frames[j].ip
  <2>1. Stack(code, frames, calls)
    BY DEF Machine
  <2> QED BY <1>1, <1>2, <2>1, FrameMoves
<1>4. code' = code /\ calls' = calls
  BY DEF Simple, After
<1>5. Machine'
  BY <1>2, <1>3, <1>4 DEF Machine
<1> QED BY <1>1, <1>3, <1>5

\* A call has a new frame, and a tail call that of its caller.
LEMMA CallEnters ==
    ASSUME Machine, frames # <<>>, Call
    PROVE  /\ Machine' /\ calls' = calls + 1
           /\ Len(frames') = IF Instruction.op = "tail" THEN Len(frames) ELSE Len(frames) + 1
           /\ \A j \in DOMAIN frames : j \in DOMAIN frames' /\ frames'[j].act = frames[j].act
           /\ Instruction.op # "tail" => frames'[Len(frames')].act = calls + 1
<1> DEFINE d == Len(frames)
           x == Instruction
<1>0. PICK t : t = (IF x.op = "tail" THEN Top.act ELSE calls + 1)
  OBVIOUS
<1> DEFINE new == Frame(x.to, x.arg, t)
<1>1. /\ d \in Nat \ {0} /\ DOMAIN frames = 1 .. d /\ d \in DOMAIN frames /\ Top = frames[d]
      /\ WellFormed(code) /\ calls \in Nat
      /\ Top.fn \in DOMAIN code /\ Top.ip \in DOMAIN code[Top.fn] /\ Top.ip \in Nat \ {0}
      /\ x = code[Top.fn][Top.ip] /\ Tries(code, Top) = x.tries
  BY Here
<1>2. Stack(code, frames, calls) /\ Guarded(code, frames, handlers) /\ handlers \in Seq(HandlerType)
  BY DEF Machine
<1>3. x.op \in {"call", "tail"} /\ calls < MaxCalls /\ d < MaxDepth
  BY DEF Call, Instructions
<1>4. x.to \in DOMAIN code /\ x.arg \in Nat
  BY <1>1, <1>3 DEF WellFormed
<1>5. 1 \in DOMAIN code[x.to] /\ code[x.to][1].tries = <<>>
  BY <1>1, <1>4 DEF WellFormed, Nested
<1>6. /\ code' = code /\ calls' = calls + 1 /\ handlers' = handlers
      /\ frames' = IF x.op = "tail" THEN Append(Front(frames), new)
                   ELSE Append(Moved(Top.ip + 1), new)
  BY <1>0 DEF Call, After
<1> HIDE DEF x, d
<1>7. PICK fs : /\ frames' = Append(fs, new) /\ Stack(code, fs, calls) /\ Guarded(code, fs, handlers)
                /\ Len(fs) = IF x.op = "tail" THEN d - 1 ELSE d
                /\ fs # <<>> => fs[Len(fs)].ip > 1
                /\ \A j \in 1 .. Len(fs) : j \in DOMAIN frames /\ fs[j].act = frames[j].act
  <2>1. CASE x.op = "tail"
    <3> DEFINE fs == SubSeq(frames, 1, d - 1)
    <3>1. d - 1 \in 0 .. Len(frames)
      BY <1>1 DEF d
    <3>2. /\ Stack(code, fs, calls) /\ Len(fs) = d - 1 /\ DOMAIN fs = 1 .. d - 1
          /\ \A j \in 1 .. d - 1 : j \in DOMAIN frames /\ fs[j] = frames[j]
      BY <1>1, <1>2, <3>1, FramesLeft
    <3>3. frames' = Append(fs, new)
      BY <1>6, <2>1 DEF Front, d
    <3>4. x.tries = <<>>
      BY <1>1, <2>1 DEF WellFormed, Nested
    <3> HIDE DEF fs
    <3>5. Guarded(code, fs, handlers)
      <4>1. DOMAIN frames \ DOMAIN fs = {d}
        BY <1>1, <3>2
      <4>2. Tries(code, frames[d]) = <<>>
        BY <1>1, <3>4
      <4>3. DOMAIN fs \subseteq DOMAIN frames
        BY <3>2
      <4> QED BY <1>2, <3>2, <4>1, <4>2, <4>3, GuardedAlike
    <3>6. fs # <<>> => fs[Len(fs)].ip > 1
      <4> SUFFICES ASSUME fs # <<>> PROVE fs[Len(fs)].ip > 1
        OBVIOUS
      <4>1. fs \in Seq(FrameOf(code))
        BY <3>2 DEF Stack
      <4>2. d - 1 \in 1 .. d - 1 /\ d - 1 < Len(frames)
        BY <1>1, <3>2, <4>1 DEF d
      <4> QED BY <1>2, <3>2, <4>2 DEF Stack
    <3> QED BY <2>1, <3>2, <3>3, <3>5, <3>6
  <2>2. CASE x.op = "call"
    <3> DEFINE fs == MovedTo(frames, Top.ip + 1)
    <3>1. Top.ip + 1 \in DOMAIN code[Top.fn] /\ code[Top.fn][Top.ip + 1].tries = x.tries
      BY <1>1, <2>2 DEF WellFormed, Nested, Falls
    <3>2. /\ Stack(code, fs, calls) /\ Len(fs) = d /\ DOMAIN fs = DOMAIN frames
          /\ \A j \in DOMAIN frames :
                /\ fs[j].fn = frames[j].fn /\ fs[j].act = frames[j].act
                /\ fs[j].ip = IF j = Len(frames) THEN Top.ip + 1 ELSE frames[j].ip
      BY <1>1, <1>2, <3>1, FrameMoves DEF d
    <3>3. frames' = Append(fs, new)
      BY <1>6, <2>2 DEF Moved, MovedTo
    <3> HIDE DEF fs
    <3>4. \A j \in DOMAIN frames : Tries(code, fs[j]) = Tries(code, frames[j])
      BY <1>1, <3>1, <3>2 DEF Tries, d
    <3>5. Guarded(code, fs, handlers)
      BY <1>2, <3>2, <3>4, GuardedAlike
    <3>6. fs[Len(fs)].ip > 1
      BY <1>1, <3>2 DEF d
    <3> QED BY <1>1, <2>2, <3>2, <3>3, <3>5, <3>6
  <2> QED BY <1>3, <2>1, <2>2
<1>17. /\ t \in 1 .. calls + 1 /\ \A j \in DOMAIN fs : fs[j].act < t
       /\ x.op = "tail" => t = frames[d].act
  <2>1. \A j \in DOMAIN fs : j \in 1 .. Len(fs) /\ fs[j].act = frames[j].act /\ j \in DOMAIN frames
    BY <1>7 DEF Stack
  <2>2. \A j \in DOMAIN frames : frames[j].act \in 1 .. calls
    BY <1>2 DEF Stack
  <2>3. CASE x.op = "tail"
    <3>1. t = frames[d].act
      BY <1>0, <1>1, <2>3
    <3>2. \A j \in DOMAIN fs : j < d
      BY <1>1, <1>7, <2>1, <2>3
    <3>3. \A j \in DOMAIN fs : fs[j].act < frames[d].act
      BY <1>1, <1>2, <2>1, <3>2 DEF Stack
    <3> QED BY <1>1, <2>2, <3>1, <3>3
  <2>4. CASE x.op # "tail"
    BY <1>0, <1>1, <2>1, <2>2, <2>4
  <2> QED BY <2>3, <2>4
<1>8. /\ Stack(code, Append(fs, new), calls + 1) /\ Len(Append(fs, new)) = Len(fs) + 1
      /\ DOMAIN Append(fs, new) = 1 .. Len(fs) + 1
      /\ \A j \in DOMAIN fs : j \in DOMAIN Append(fs, new) /\ Append(fs, new)[j] = fs[j]
      /\ Append(fs, new)[Len(fs) + 1] = new
  <2>1. Len(fs) < MaxDepth
    BY <1>1, <1>3, <1>7, ProgramsAssumption
  <2>2. /\ calls \in Nat /\ Stack(code, fs, calls) /\ WellFormed(code)
        /\ (fs # <<>> => fs[Len(fs)].ip > 1) /\ calls < MaxCalls
        /\ x.to \in DOMAIN code /\ x.arg \in Nat
        /\ t \in 1 .. calls + 1 /\ \A j \in DOMAIN fs : fs[j].act < t
    BY <1>1, <1>3, <1>4, <1>7, <1>17
  <2> HIDE DEF d, x
  <2> QED BY <2>1, <2>2, FrameEntered
<1>9. Len(fs) \in Nat /\ DOMAIN fs = 1 .. Len(fs)
  BY <1>7 DEF Stack
<1>10. new.fn = x.to /\ new.ip = 1 /\ new.act = t
  BY DEF Frame
<1> HIDE DEF new
<1>11. Guarded(code, Append(fs, new), handlers)
  <2>1. \A j \in DOMAIN Append(fs, new) \ DOMAIN fs : j = Len(fs) + 1
    BY <1>8, <1>9
  <2>2. \A j \in DOMAIN Append(fs, new) \ DOMAIN fs : Tries(code, Append(fs, new)[j]) = <<>>
    BY <1>5, <1>8, <1>10, <2>1 DEF Tries
  <2>3. DOMAIN fs \ DOMAIN Append(fs, new) = {}
    BY <1>8
  <2> QED BY <1>7, <1>8, <2>2, <2>3, GuardedAlike
<1>12. calls + 1 \in Acts
  BY <1>1, <1>3, ProgramsAssumption DEF Acts
<1>13. Machine'
  BY <1>2, <1>6, <1>7, <1>8, <1>11, <1>12 DEF Machine
<1>14. Len(frames') = IF x.op = "tail" THEN d ELSE d + 1
  BY <1>1, <1>7, <1>8
<1>15. \A j \in DOMAIN frames : j \in DOMAIN frames' /\ frames'[j].act = frames[j].act
  <2> SUFFICES ASSUME NEW j \in DOMAIN frames
               PROVE  j \in DOMAIN frames' /\ frames'[j].act = frames[j].act
    OBVIOUS
  <2>1. CASE j \in 1 .. Len(fs)
    BY <1>7, <1>8, <1>9, <2>1
  <2>2. CASE j \notin 1 .. Len(fs)
    <3>1. x.op = "tail" /\ j = d /\ d = Len(fs) + 1
      BY <1>1, <1>3, <1>7, <1>9, <2>2
    <3>2. frames'[d] = new /\ d \in DOMAIN frames'
      BY <1>7, <1>8, <1>9, <3>1
    <3>3. new.act = frames[d].act
      BY <1>10, <1>17, <3>1
    <3> QED BY <3>1, <3>2, <3>3
  <2> QED BY <2>1, <2>2
<1>16. x.op # "tail" => frames'[Len(frames')].act = calls + 1
  BY <1>0, <1>7, <1>8, <1>10
<1> QED BY <1>6, <1>13, <1>14, <1>15, <1>16 DEF x, d

\* A return to the caller, if there is one.
LEMMA ReturnLeaves ==
    ASSUME Machine, frames # <<>>, Return, Len(frames) # 1
    PROVE  /\ Machine' /\ frames' # <<>> /\ Len(frames') = Len(frames) - 1
           /\ \A j \in DOMAIN frames' : j \in DOMAIN frames /\ frames'[j] = frames[j]
<1> DEFINE d == Len(frames)
           x == Instruction
           fs == SubSeq(frames, 1, d - 1)
<1>1. /\ d \in Nat \ {0} /\ DOMAIN frames = 1 .. d /\ d \in DOMAIN frames /\ Top = frames[d]
      /\ WellFormed(code) /\ calls \in Nat
      /\ Top.fn \in DOMAIN code /\ Top.ip \in DOMAIN code[Top.fn]
      /\ x = code[Top.fn][Top.ip] /\ Tries(code, Top) = x.tries
  BY Here
<1>2. Stack(code, frames, calls) /\ Guarded(code, frames, handlers) /\ handlers \in Seq(HandlerType)
  BY DEF Machine
<1>3. /\ x.op = "return" /\ code' = code /\ calls' = calls /\ handlers' = handlers
      /\ frames' = fs
  BY DEF Return, Instructions, After, Front
<1>4. d - 1 \in 0 .. Len(frames) /\ d - 1 \in 1 .. d - 1 /\ d - 1 < Len(frames)
  BY <1>1
<1>5. /\ Stack(code, fs, calls) /\ Len(fs) = d - 1 /\ DOMAIN fs = 1 .. d - 1
      /\ \A j \in 1 .. d - 1 : j \in DOMAIN frames /\ fs[j] = frames[j]
  BY <1>1, <1>2, <1>4, FramesLeft
<1>6. x.tries = <<>>
  BY <1>1, <1>3 DEF WellFormed, Nested
<1> HIDE DEF fs, d, x
<1>7. Guarded(code, fs, handlers)
  <2>1. DOMAIN frames \ DOMAIN fs = {d} /\ DOMAIN fs \subseteq DOMAIN frames
    BY <1>1, <1>5
  <2>2. Tries(code, frames[d]) = <<>>
    BY <1>1, <1>6
  <2> QED BY <1>2, <1>5, <2>1, <2>2, GuardedAlike
<1>8. fs # <<>>
  BY <1>4, <1>5
<1>9. Machine'
  BY <1>2, <1>3, <1>5, <1>7 DEF Machine
<1> QED BY <1>3, <1>5, <1>8, <1>9 DEF d

\* A throw goes to the catch block of the innermost try block, and leaves the frames above.
LEMMA ThrowLeaves ==
    ASSUME Machine, frames # <<>>, Throw, handlers # <<>>
    PROVE  LET h == Last(handlers)
           IN  /\ Machine' /\ frames' # <<>> /\ Len(frames') = h.depth /\ h.depth \in DOMAIN frames
               /\ \A j \in 1 .. h.depth :
                     j \in DOMAIN frames' /\ frames'[j].fn = frames[j].fn /\ frames'[j].act = frames[j].act
<1> DEFINE h == Last(handlers)
           k == h.depth
           fs == SubSeq(frames, 1, k)
<1>1. /\ Len(frames) \in Nat \ {0} /\ DOMAIN frames = 1 .. Len(frames)
      /\ WellFormed(code) /\ calls \in Nat
  BY Here
<1>2. Stack(code, frames, calls) /\ Guarded(code, frames, handlers) /\ handlers \in Seq(HandlerType)
  BY DEF Machine
<1>3. /\ code' = code /\ calls' = calls /\ handlers' = Front(handlers)
      /\ frames' = [fs EXCEPT ![k].ip = h.catch]
  BY DEF Throw, After
<1>4. /\ Len(handlers) \in DOMAIN handlers /\ h = handlers[Len(handlers)] /\ h \in HandlerType
      /\ Front(handlers) \in Seq(HandlerType)
      /\ Len(handlers) \in Nat /\ DOMAIN handlers = 1 .. Len(handlers)
  BY <1>2, FrontLast
<1> HIDE DEF h
<1>5. k \in DOMAIN frames /\ h.catch \in Range(Tries(code, frames[k]))
  BY <1>2, <1>4 DEF Guarded, Owned
<1>6. k \in 0 .. Len(frames) /\ k \in 1 .. k /\ k \in Nat
  BY <1>1, <1>5
<1>7. \A i \in DOMAIN handlers : handlers[i].depth <= k
  <2> SUFFICES ASSUME NEW i \in DOMAIN handlers PROVE handlers[i].depth <= k
    OBVIOUS
  <2>1. CASE i = Len(handlers)
    BY <1>4, <1>6, <2>1
  <2>2. CASE i < Len(handlers)
    <3>1. Inner(code, frames, handlers[i], h)
      BY <1>2, <1>4, <2>2 DEF Guarded
    <3>2. handlers[i].depth \in Nat
      BY <1>1, <1>2 DEF Guarded, Owned
    <3> QED BY <1>6, <3>1, <3>2 DEF Inner
  <2> QED BY <1>4, <2>1, <2>2
<1>8. /\ Stack(code, fs, calls) /\ Len(fs) = k /\ DOMAIN fs = 1 .. k
      /\ \A j \in 1 .. k : j \in DOMAIN frames /\ fs[j] = frames[j]
  BY <1>1, <1>2, <1>6, FramesLeft
<1>9. Guarded(code, fs, handlers)
  BY <1>1, <1>2, <1>6, <1>7, GuardedBelow
<1>10. frames' = MovedTo(fs, h.catch)
  BY <1>3, <1>8 DEF MovedTo
<1> HIDE DEF fs
<1> DEFINE t == Tries(code, fs[k])
           f == fs[k].fn
<1>11. fs # <<>> /\ k \in DOMAIN fs /\ t # <<>> /\ h.catch \in Range(t) /\ fs[k] = frames[k]
  BY <1>5, <1>6, <1>8 DEF Range
<1>12. h.catch = t[Len(t)]
  <2>1. /\ handlers[Len(handlers)].depth = k
        /\ handlers[Len(handlers)].catch = Tries(code, fs[k])[Len(Tries(code, fs[k]))]
    <3> HIDE DEF k
    <3>1. Tries(code, fs[k]) # <<>>
      BY <1>11
    <3> QED BY <1>1, <1>2, <1>7, <1>8, <1>9, <1>11, <3>1, InnermostHandler
  <2> QED BY <1>4, <2>1
<1>13. f \in DOMAIN code /\ fs[k].ip \in DOMAIN code[f]
  <2>1. fs[k] \in FrameOf(code)
    BY <1>8, <1>11 DEF Stack
  <2> QED BY <1>8, <1>11, <2>1 DEF Stack, FrameOf
<1>14. /\ h.catch \in DOMAIN code[f] /\ code[f][h.catch].tries = SubSeq(t, 1, Len(t) - 1)
  <2>1. /\ t \in Seq(DOMAIN code[f]) /\ DOMAIN t = 1 .. Len(t) /\ Len(t) \in Nat
        /\ \A i \in DOMAIN t : t[i] \in DOMAIN code[f] /\ code[f][t[i]].tries = SubSeq(t, 1, i - 1)
    <3> DEFINE i == fs[k].ip
    <3>1. t = code[f][i].tries /\ i \in DOMAIN code[f] /\ f \in DOMAIN code
      BY <1>13 DEF Tries
    <3> HIDE DEF t, f, i
    <3>2. LET u == code[f][i].tries
          IN  /\ u \in Seq(DOMAIN code[f]) /\ DOMAIN u = 1 .. Len(u) /\ Len(u) \in Nat
              /\ \A j \in DOMAIN u :
                    /\ u[j] \in DOMAIN code[f] /\ code[f][u[j]].tries = SubSeq(u, 1, j - 1)
                    /\ Len(code[f][u[j]].tries) + 1 = j
      BY <1>1, <3>1, TriesNest
    <3> QED BY <3>1, <3>2
  <2>2. Len(t) \in DOMAIN t
    <3> HIDE DEF t, f
    <3> QED BY <1>11, <2>1
  <2> QED BY <1>12, <2>1, <2>2
<1>15. Guarded(code, frames', Front(handlers))
  <2>1. code[fs[Len(fs)].fn][h.catch].tries = Front(Tries(code, fs[Len(fs)]))
    BY <1>8, <1>14 DEF Front
  <2>2. h.catch \in DOMAIN code[fs[Len(fs)].fn] /\ Tries(code, fs[Len(fs)]) # <<>>
    BY <1>8, <1>11, <1>14
  <2> HIDE DEF k
  <2> QED BY <1>1, <1>2, <1>8, <1>9, <1>10, <1>11, <2>1, <2>2, GuardedLeave
<1>16. /\ Stack(code, frames', calls) /\ Len(frames') = k /\ DOMAIN frames' = 1 .. k
       /\ \A j \in 1 .. k :
             /\ frames'[j].fn = fs[j].fn /\ frames'[j].act = fs[j].act
             /\ frames'[j].ip = IF j = Len(fs) THEN h.catch ELSE fs[j].ip
  <2>1. h.catch \in DOMAIN code[fs[Len(fs)].fn]
    BY <1>8, <1>14
  <2> HIDE DEF k
  <2> QED BY <1>1, <1>8, <1>10, <1>11, <2>1, FrameMoves
<1>17. frames' # <<>>
  BY <1>6, <1>16
<1>18. Machine'
  BY <1>2, <1>3, <1>4, <1>15, <1>16 DEF Machine
<1> QED BY <1>5, <1>6, <1>8, <1>11, <1>16, <1>17, <1>18 DEF h

\* The end of the process.
LEMMA ExitMachine == Machine /\ Exit => Machine'
<1> SUFFICES ASSUME Machine, Exit PROVE Machine'
  OBVIOUS
<1>1. frames' = <<>> /\ handlers' = <<>> /\ calls' = 0 /\ code' = code
  BY DEF Exit
<1>2. Stack(code, <<>>, 0)
  BY ProgramsAssumption DEF Stack
<1>3. Guarded(code, <<>>, <<>>)
  BY DEF Guarded
<1>4. 0 \in Acts /\ <<>> \in Seq(HandlerType)
  BY ProgramsAssumption DEF Acts
<1> QED BY <1>1, <1>2, <1>3, <1>4 DEF Machine

\* A program starts in its script.
LEMMA RunMachine == Machine /\ frames = <<>> /\ handlers = <<>> /\ calls = 0 /\ Run => Machine'
<1> SUFFICES ASSUME Machine, frames = <<>>, handlers = <<>>, calls = 0, Run PROVE Machine'
  OBVIOUS
<1>1. WellFormed(code) /\ code \in Programs
  BY ProgramsAssumption DEF Machine
<1>2. Main \in DOMAIN code /\ 1 \in DOMAIN code[Main]
  BY <1>1 DEF WellFormed
<1>3. Stack(code, <<>>, 0)
  BY ProgramsAssumption DEF Stack
<1>4. Append(<<>>, Frame(Main, 0, 1)) = <<Frame(Main, 0, 1)>>
  OBVIOUS
<1>5. Stack(code, <<Frame(Main, 0, 1)>>, 1)
  <2>1. Len(<<>>) < MaxDepth /\ 0 < MaxCalls
    BY ProgramsAssumption
  <2> DEFINE fs == <<>>
  <2>2. /\ Stack(code, fs, 0) /\ 0 \in Nat /\ 1 \in 1 .. 0 + 1 /\ Len(fs) < MaxDepth
        /\ (fs # <<>> => fs[Len(fs)].ip > 1) /\ \A j \in DOMAIN fs : fs[j].act < 1
    BY <1>3, <2>1
  <2> HIDE DEF fs
  <2>3. Stack(code, Append(fs, Frame(Main, 0, 1)), 0 + 1)
    BY <1>1, <1>2, <2>1, <2>2, FrameEntered
  <2> QED BY <1>4, <2>3 DEF fs
<1>6. Guarded(code, <<Frame(Main, 0, 1)>>, <<>>)
  <2>1. \A d \in DOMAIN <<Frame(Main, 0, 1)>> : Tries(code, <<Frame(Main, 0, 1)>>[d]) = <<>>
    BY <1>1 DEF WellFormed, Nested, Tries, Frame
  <2> QED BY <2>1 DEF Guarded, Range
<1>7. frames' = <<Frame(Main, 0, 1)>> /\ handlers' = <<>> /\ calls' = 1 /\ code' = code
  BY DEF Run
<1>8. 1 \in Acts
  BY ProgramsAssumption DEF Acts
<1>9. <<>> \in Seq(HandlerType)
  OBVIOUS
<1> QED BY <1>1, <1>2, <1>5, <1>6, <1>7, <1>8, <1>9 DEF Machine

\* Initially nothing runs.
LEMMA CoreInit == Init => Core
<1> SUFFICES ASSUME Init PROVE Core
  OBVIOUS
<1>1. Stack(code, <<>>, 0) /\ Guarded(code, <<>>, <<>>)
  BY ProgramsAssumption DEF Stack, Guarded
<1>2. <<>> \in Seq(HandlerType) /\ <<>> \in Seq(Lines \X Conditions)
  OBVIOUS
<1>3. Good(<<>>)
  BY ProgramsAssumption DEF Good
<1>4. 0 \in Acts /\ 0 \in 0 .. MaxDepth /\ 0 \in 0 .. MaxCommands /\ 0 \in 0 .. MaxRuns
  BY ProgramsAssumption DEF Acts
<1>5. Machine
  BY <1>1, <1>2, <1>4 DEF Init, Machine
<1>6. Memory
  BY <1>4 DEF Init, Memory
<1>7. Store
  BY <1>2, <1>3 DEF Init, Store
<1>8. Resting
  BY DEF Init, Resting, Running
<1> QED BY <1>5, <1>6, <1>7, <1>8 DEF Core

\* The end of a process leaves nothing but the file.
LEMMA CoreExit == Core /\ Exit => Core'
<1> SUFFICES ASSUME Core, Exit PROVE Core'
  OBVIOUS
<1>1. Machine'
  BY ExitMachine DEF Core
<1>2. Memory'
  BY ProgramsAssumption DEF Core, Memory, Exit
<1>3. Good(<<>>) /\ <<>> \in Seq(Lines \X Conditions)
  BY ProgramsAssumption DEF Good
<1>4. Store'
  BY <1>3 DEF Core, Store, Exit
<1>5. Resting'
  BY DEF Exit, Resting, Running
<1> QED BY <1>1, <1>2, <1>4, <1>5 DEF Core

\* An instruction.
LEMMA CoreExecutes ==
    ASSUME Core, Simple \/ Call \/ Return \/ Throw
    PROVE  Core'
<1>1. phase = "execute" /\ frames # <<>> /\ pending = <<>> /\ Machine
  BY DEF Simple, Call, Return, Throw, Instructions, Core, Resting, Running
<1>2. ASSUME Machine', frames' # <<>>, phase' = "hook", After PROVE Core'
  <2>1. Memory'
    BY <1>2 DEF Core, Memory, After, stepping, kept
  <2>2. Store'
    BY <1>2 DEF Core, Store, After, kept
  <2>3. Resting'
    BY <1>1, <1>2 DEF Resting, Running, After
  <2> QED BY <1>2, <2>1, <2>2, <2>3 DEF Core
<1>3. Len(frames) \in Nat \ {0}
  BY <1>1, Here
<1>4. CASE Simple
  <2>1. Machine' /\ Len(frames') = Len(frames)
    BY <1>1, <1>4, SimpleMoves
  <2>2. frames' # <<>>
    BY <1>3, <2>1
  <2> QED BY <1>2, <1>4, <2>1, <2>2 DEF Simple
<1>5. CASE Call
  <2>1. Machine' /\ Len(frames') = IF Instruction.op = "tail" THEN Len(frames) ELSE Len(frames) + 1
    BY <1>1, <1>5, CallEnters
  <2>2. frames' # <<>>
    BY <1>3, <2>1
  <2> QED BY <1>2, <1>5, <2>1, <2>2 DEF Call
<1>6. CASE Return
  <2>1. CASE Len(frames) = 1
    BY <1>6, <2>1, CoreExit DEF Return
  <2>2. CASE Len(frames) # 1
    BY <1>1, <1>2, <1>6, <2>2, ReturnLeaves DEF Return
  <2> QED BY <2>1, <2>2
<1>7. CASE Throw
  <2>1. CASE handlers = <<>>
    BY <1>7, <2>1, CoreExit DEF Throw
  <2>2. CASE handlers # <<>>
    BY <1>1, <1>2, <1>7, <2>2, ThrowLeaves DEF Throw
  <2> QED BY <2>1, <2>2
<1> QED BY <1>4, <1>5, <1>6, <1>7

\* A step of the debugger, or of the start of a process.
LEMMA CoreDebugs ==
    ASSUME Core,
           \/ Start \/ Load \/ Run \/ Hook \/ SetBreakpoint \/ RemoveBreakpoint \/ Write
           \/ EndOfInput
           \/ \E m \in {"none", "in", "next", "out"} : Resume(m)
    PROVE  Core'
<1>1. /\ Machine /\ Memory /\ Store /\ Resting /\ Good(breakpoints)
      /\ file \in Seq(Lines \X Conditions) /\ pending \in Seq(Lines \X Conditions)
      /\ runs \in Nat /\ commands \in Nat /\ Len(frames) \in 0 .. MaxDepth
  BY ProgramsAssumption DEF Core, Store, Memory, Machine, Stack
<1>2. CASE Start
  <2>1. PICK more \in Startup : pending' = file \o more
    BY <1>2 DEF Start
  <2>2. pending' \in Seq(Lines \X Conditions)
    <3>1. more \in Seq(Lines \X Conditions)
      BY LinesAssumption
    <3> HIDE DEF Start
    <3> QED BY <1>1, <2>1, <3>1, ConcatProperties
  <2>3. Machine'
    BY <1>1, <1>2, MachineRests DEF Start
  <2>4. Memory'
    <3>1. /\ UNCHANGED <<stepping, input, commands>> /\ phase' = "load" /\ stale' = FALSE
          /\ runs' = runs + 1 /\ runs < MaxRuns
      BY <1>2 DEF Start
    <3>2. runs' \in 0 .. MaxRuns
      BY <1>1, <3>1, ProgramsAssumption
    <3> QED BY <1>1, <3>1, <3>2 DEF Memory, stepping
  <2>5. Store'
    BY <1>1, <1>2, <2>2 DEF Start, Store
  <2>6. Resting'
    BY <1>1, <1>2 DEF Start, Resting, Running, stepping
  <2> QED BY <2>3, <2>4, <2>5, <2>6 DEF Core
<1>3. CASE Load
  <2> DEFINE p == Head(pending)
  <2>1. p \in Lines \X Conditions /\ Tail(pending) \in Seq(Lines \X Conditions)
    BY <1>1, <1>3 DEF Load
  <2>2. p[1] \in Lines /\ p[2] \in Conditions
    BY <2>1
  <2>3. Good(Added(breakpoints, p[1], p[2]))
    BY <1>1, <2>2, AddedFacts
  <2>4. Machine'
    BY <1>1, <1>3, MachineRests DEF Load
  <2>5. Memory'
    BY <1>1, <1>3 DEF Load, Memory, stepping
  <2>6. Store'
    BY <1>1, <1>3, <2>1, <2>3 DEF Load, Store
  <2>7. Resting'
    BY <1>1, <1>3 DEF Load, Resting, Running, stepping
  <2> QED BY <2>4, <2>5, <2>6, <2>7 DEF Core
<1>4. CASE Run
  <2>1. Machine'
    BY <1>1, <1>4, RunMachine DEF Run, Resting, Running
  <2>2. Memory'
    BY <1>1, <1>4 DEF Run, Memory, kept
  <2>3. Store'
    BY <1>1, <1>4 DEF Run, Store, kept
  <2>4. Resting'
    BY <1>1, <1>4 DEF Run, Resting, Running
  <2> QED BY <2>1, <2>2, <2>3, <2>4 DEF Core
<1>5. CASE Hook
  <2>1. Good(breakpoints')
    BY <1>1, <1>5, HitFacts DEF Hook
  <2>2. Machine'
    BY <1>1, <1>5, MachineRests DEF Hook, machine
  <2>3. Memory'
    BY <1>1, <1>5 DEF Hook, Memory, stepping
  <2>4. Store'
    BY <1>1, <1>5, <2>1 DEF Hook, Store, machine
  <2>5. Resting'
    BY <1>1, <1>5 DEF Hook, Resting, Running, machine, stepping
  <2> QED BY <2>2, <2>3, <2>4, <2>5 DEF Core
<1>6. CASE SetBreakpoint
  <2>1. PICK l \in Lines, c \in Conditions :
           /\ breakpoints' = Added(breakpoints, l, c)
           /\ file' \in {<<>>, file}
    BY <1>6 DEF SetBreakpoint, Save
  <2>2. Good(breakpoints') /\ file' \in Seq(Lines \X Conditions)
    <3>1. Good(breakpoints')
      BY <1>1, <2>1, AddedFacts
    <3>2. <<>> \in Seq(Lines \X Conditions)
      OBVIOUS
    <3> QED BY <1>1, <2>1, <3>1, <3>2
  <2>3. Machine'
    BY <1>1, <1>6, MachineRests DEF SetBreakpoint, Command, machine
  <2>4. Memory'
    <3>1. /\ UNCHANGED <<stepping, last, input, runs>>
          /\ commands' = commands + 1 /\ commands < MaxCommands
          /\ phase' \in {"paused", "saving"}
      BY <1>6 DEF SetBreakpoint, Save, Command
    <3>2. commands' \in 0 .. MaxCommands
      BY <1>1, <3>1, ProgramsAssumption
    <3>3. stale' \in BOOLEAN
      BY <1>1, <1>6 DEF SetBreakpoint, Save, Memory
    <3> QED BY <1>1, <3>1, <3>2, <3>3 DEF Memory, stepping
  <2>5. Store'
    BY <1>1, <1>6, <2>1, <2>2 DEF SetBreakpoint, Command, Store, machine
  <2>6. Resting'
    BY <1>1, <1>6 DEF SetBreakpoint, Save, Command, Resting, Running, machine, stepping
  <2> QED BY <2>3, <2>4, <2>5, <2>6 DEF Core
<1>7. CASE RemoveBreakpoint
  <2>1. PICK l \in Lines :
           /\ breakpoints' = Removed(breakpoints, l)
           /\ file' \in {<<>>, file}
    BY <1>7 DEF RemoveBreakpoint, Save
  <2>2. Good(breakpoints') /\ file' \in Seq(Lines \X Conditions)
    <3>1. Good(breakpoints')
      BY <1>1, <2>1, RemovedFacts
    <3>2. <<>> \in Seq(Lines \X Conditions)
      OBVIOUS
    <3> QED BY <1>1, <2>1, <3>1, <3>2
  <2>3. Machine'
    BY <1>1, <1>7, MachineRests DEF RemoveBreakpoint, Command, machine
  <2>4. Memory'
    <3>1. /\ UNCHANGED <<stepping, last, input, runs>>
          /\ commands' = commands + 1 /\ commands < MaxCommands
          /\ phase' \in {"paused", "saving"}
      BY <1>7 DEF RemoveBreakpoint, Save, Command
    <3>2. commands' \in 0 .. MaxCommands
      BY <1>1, <3>1, ProgramsAssumption
    <3>3. stale' \in BOOLEAN
      BY <1>1, <1>7 DEF RemoveBreakpoint, Save, Memory
    <3> QED BY <1>1, <3>1, <3>2, <3>3 DEF Memory, stepping
  <2>5. Store'
    BY <1>1, <1>7, <2>1, <2>2 DEF RemoveBreakpoint, Command, Store, machine
  <2>6. Resting'
    BY <1>1, <1>7 DEF RemoveBreakpoint, Save, Command, Resting, Running, machine, stepping
  <2> QED BY <2>3, <2>4, <2>5, <2>6 DEF Core
<1>8. CASE EndOfInput
  <2>1. Machine'
    BY <1>1, <1>8, MachineRests DEF EndOfInput, machine
  <2>2. Memory'
    BY <1>1, <1>8 DEF EndOfInput, Memory, kept
  <2>3. Store'
    BY <1>1, <1>8 DEF EndOfInput, Store, machine, kept
  <2>4. Resting'
    BY <1>1, <1>8 DEF EndOfInput, Resting, Running, machine
  <2> QED BY <2>1, <2>2, <2>3, <2>4 DEF Core
<1>9. ASSUME NEW m \in {"none", "in", "next", "out"}, Resume(m) PROVE Core'
  <2>1. Machine'
    BY <1>1, <1>9, MachineRests DEF Resume, Command, machine
  <2>2. Memory'
    BY <1>1, <1>9, ProgramsAssumption DEF Resume, Command, Memory, kept
  <2>3. Store'
    BY <1>1, <1>9 DEF Resume, Command, Store, machine, kept
  <2>4. Resting'
    BY <1>1, <1>9 DEF Resume, Command, Resting, Running, machine
  <2> QED BY <2>1, <2>2, <2>3, <2>4 DEF Core
<1>10. CASE Write
  <2>1. Machine'
    BY <1>1, <1>10, MachineRests DEF Write, machine
  <2>2. Memory'
    BY <1>1, <1>10 DEF Write, Memory, stepping
  <2>3. file' \in Seq(Lines \X Conditions)
    <3>1. \A k \in DOMAIN breakpoints, cut \in {<<>>} \cup {<<p>> : p \in Torn} :
             SubSeq(Saved(breakpoints), 1, k - 1) \o cut \in Seq(Lines \X Conditions)
      BY <1>1, WrittenFacts
    <3>2. Saved(breakpoints) \in Seq(Lines \X Conditions)
      BY <1>1, SavedFacts
    <3> QED BY <1>1, <1>10, <3>1, <3>2 DEF Write
  <2>4. Store'
    BY <1>1, <1>10, <2>3 DEF Write, Store, machine
  <2>5. Resting'
    BY <1>1, <1>10 DEF Write, Resting, Running, machine, stepping
  <2> QED BY <2>1, <2>2, <2>4, <2>5 DEF Core
<1> QED BY <1>2, <1>3, <1>4, <1>5, <1>6, <1>7, <1>8, <1>9, <1>10

\* A step that changes nothing.
LEMMA CoreStutters == Core /\ UNCHANGED vars => Core'
BY DEF Core, Machine, Memory, Store, Resting, Running, vars, machine, stepping, kept

LEMMA CoreStep == Core /\ [Next]_vars => Core'
<1> SUFFICES ASSUME Core, [Next]_vars PROVE Core'
  OBVIOUS
<1>1. CASE Kill
  BY <1>1, CoreExit DEF Kill
<1>2. CASE Simple \/ Call \/ Return \/ Throw
  BY <1>2, CoreExecutes
<1>3. CASE \/ Start \/ Load \/ Run \/ Hook \/ SetBreakpoint \/ RemoveBreakpoint \/ Write
           \/ EndOfInput
           \/ \E m \in {"none", "in", "next", "out"} : Resume(m)
  BY <1>3, CoreDebugs
<1> QED BY <1>1, <1>2, <1>3, CoreStutters DEF Next

-----------------------------------------------------------------------------
(* Kept.                                                                   *)

\* The pairs of lines and conditions.
LEMMA PairsOf ==
    ASSUME NEW bs, Good(bs)
    PROVE  \A p : p \in Pairs(bs) <=> \E i \in DOMAIN bs : p = <<bs[i].line, bs[i].cond>>
BY SavedFacts DEF Pairs, Range

\* What is there after a breakpoint was added, and what was not there before.
LEMMA AddedPairs ==
    ASSUME NEW bs, Good(bs), NEW l \in Lines, NEW c \in Conditions
    PROVE  /\ LinesOf(bs) \subseteq LinesOf(Added(bs, l, c))
           /\ l \in LinesOf(Added(bs, l, c)) \/ Added(bs, l, c) = bs
           /\ \A p \in Pairs(Added(bs, l, c)) :
                 p = <<l, c>> \/ (p \in Pairs(bs) /\ p[1] # l)
<1> DEFINE r == Added(bs, l, c)
<1>1. /\ Good(r)
      /\ \A i \in DOMAIN bs : i \in DOMAIN r /\ r[i].line = bs[i].line
      /\ \A i \in DOMAIN r :
            r[i] = Breakpoint(l, c, 0) \/ (i \in DOMAIN bs /\ r[i] = bs[i] /\ bs[i].line # l)
      /\ At(r, l) = {} => r = bs
  BY AddedFacts
<1> HIDE DEF r
<1>2. LinesOf(bs) \subseteq LinesOf(r)
  BY <1>1 DEF LinesOf
<1>3. l \in LinesOf(r) \/ r = bs
  BY <1>1 DEF LinesOf, At
<1>4. ASSUME NEW p \in Pairs(r) PROVE p = <<l, c>> \/ (p \in Pairs(bs) /\ p[1] # l)
  <2>1. PICK i \in DOMAIN r : p = <<r[i].line, r[i].cond>>
    BY <1>1, <1>4, PairsOf
  <2>2. CASE r[i] = Breakpoint(l, c, 0)
    BY <2>1, <2>2 DEF Breakpoint
  <2>3. CASE i \in DOMAIN bs /\ r[i] = bs[i] /\ bs[i].line # l
    <3>1. p = <<bs[i].line, bs[i].cond>> /\ p[1] # l
      BY <2>1, <2>3
    <3> QED BY <2>3, <3>1, PairsOf
  <2> QED BY <1>1, <2>2, <2>3
<1> QED BY <1>2, <1>3, <1>4 DEF r

\* What is there after a breakpoint was removed.
LEMMA RemovedPairs ==
    ASSUME NEW bs, Good(bs), NEW l
    PROVE  /\ LinesOf(Removed(bs, l)) = LinesOf(bs) \ {l}
           /\ \A p \in Pairs(Removed(bs, l)) : p \in Pairs(bs) /\ p[1] # l
<1> DEFINE r == Removed(bs, l)
<1>1. /\ Good(r)
      /\ \A i \in DOMAIN r : \E j \in DOMAIN bs : r[i] = bs[j] /\ bs[j].line # l
      /\ \A j \in DOMAIN bs : bs[j].line = l \/ \E i \in DOMAIN r : r[i] = bs[j]
  BY RemovedFacts
<1> HIDE DEF r
<1>2. LinesOf(r) = LinesOf(bs) \ {l}
  BY <1>1 DEF LinesOf
<1>3. ASSUME NEW p \in Pairs(r) PROVE p \in Pairs(bs) /\ p[1] # l
  <2>1. PICK i \in DOMAIN r : p = <<r[i].line, r[i].cond>>
    BY <1>1, <1>3, PairsOf
  <2>2. PICK j \in DOMAIN bs : r[i] = bs[j] /\ bs[j].line # l
    BY <1>1
  <2>3. p = <<bs[j].line, bs[j].cond>> /\ p[1] # l
    BY <2>1, <2>2
  <2> QED BY <2>3, PairsOf
<1> QED BY <1>2, <1>3 DEF r

\* A file that was just saved.
LEMMA SavedKept ==
    ASSUME Good(breakpoints'), file' = Saved(breakpoints')
    PROVE  /\ Len(file') <= BREAKPOINTS_MAX /\ Listed' = LinesOf(breakpoints')
           /\ Range(file') = Pairs(breakpoints')
<1>1. /\ Len(file') = Len(breakpoints') /\ DOMAIN file' = DOMAIN breakpoints'
      /\ \A i \in DOMAIN breakpoints' : file'[i] = <<breakpoints'[i].line, breakpoints'[i].cond>>
  BY SavedFacts
<1>2. \A i \in DOMAIN file' : file'[i][1] = breakpoints'[i].line
  BY <1>1
<1>3. Listed' = LinesOf(breakpoints')
  BY <1>1, <1>2 DEF Listed, LinesOf
<1> QED BY <1>1, <1>3 DEF Good, Pairs

LEMMA KeptInit == Init => Kept
<1> SUFFICES ASSUME Init PROVE Kept
  OBVIOUS
<1>1. file = <<>> /\ breakpoints = <<>> /\ pending = <<>> /\ wanted = {} /\ phase = "off"
  BY DEF Init
<1>2. Pairs(<<>>) = {} /\ Range(<<>>) = {}
  BY DEF Pairs, Range, Saved
<1> QED BY <1>1, <1>2, ProgramsAssumption DEF Kept, Running

\* The file is read from its first line, and then what the command line adds.
LEMMA KeptStart == Core /\ Kept /\ Start => Kept'
<1> SUFFICES ASSUME Core, Kept, Start PROVE Kept'
  OBVIOUS
<1>1. /\ phase = "off" /\ phase' = "load" /\ breakpoints = <<>> /\ UNCHANGED <<breakpoints, file>>
      /\ ~stale' /\ wanted' = IF stale THEN Listed ELSE wanted
      /\ file \in Seq(Lines \X Conditions) /\ Len(file) \in Nat /\ DOMAIN file = 1 .. Len(file)
  BY DEF Core, Resting, Store, Start
<1>2. PICK more \in Startup :
         /\ pending' = file \o more
         /\ allowed' = Range(more) \cup (IF stale THEN Range(file) ELSE allowed)
  BY DEF Start
<1>3. /\ Len(more) \in Nat /\ DOMAIN more = 1 .. Len(more)
      /\ file \o more \in Seq(Lines \X Conditions)
      /\ Len(file \o more) = Len(file) + Len(more)
      /\ \A i \in 1 .. Len(file) + Len(more) :
            (file \o more)[i] = IF i <= Len(file) THEN file[i] ELSE more[i - Len(file)]
  <2>1. more \in Seq(Lines \X Conditions)
    BY LinesAssumption
  <2> HIDE DEF Start
  <2>2. Len(more) \in Nat /\ DOMAIN more = 1 .. Len(more)
    BY <2>1
  <2> QED BY <1>1, <2>1, <2>2, ConcatProperties
<1> DEFINE both == file \o more
<1> HIDE DEF both
<1>4. both \in Seq(Lines \X Conditions) /\ DOMAIN both = 1 .. Len(file) + Len(more)
  <2>1. both \in Seq(Lines \X Conditions) /\ Len(both) = Len(file) + Len(more)
    BY <1>3 DEF both
  <2> QED BY <2>1
<1>5. \A i \in DOMAIN file : i \in DOMAIN both /\ both[i] = file[i]
  BY <1>1, <1>3, <1>4 DEF both
<1>6. Range(both) \subseteq Range(file) \cup Range(more)
  <2> SUFFICES ASSUME NEW i \in DOMAIN both PROVE both[i] \in Range(file) \cup Range(more)
    BY DEF Range
  <2>1. CASE i <= Len(file)
    <3>1. i \in DOMAIN file /\ both[i] = file[i]
      BY <1>1, <1>3, <1>4, <2>1 DEF both
    <3> QED BY <3>1 DEF Range
  <2>2. CASE ~(i <= Len(file))
    <3>1. i - Len(file) \in DOMAIN more /\ both[i] = more[i - Len(file)]
      BY <1>1, <1>3, <1>4, <2>2 DEF both
    <3> QED BY <3>1 DEF Range
  <2> QED BY <2>1, <2>2
<1>7. Range(file') \cup Range(pending') \cup Pairs(breakpoints') \subseteq allowed'
  <2>1. Pairs(breakpoints') = {}
    BY <1>1 DEF Pairs, Saved, Range
  <2>2. Range(file) \subseteq allowed'
    BY <1>2 DEF Kept
  <2> QED BY <1>1, <1>2, <1>6, <2>1, <2>2 DEF both
<1>8. \E n \in 0 .. Len(file') : Copied(n)'
  <2>1. Len(breakpoints') = 0 /\ file' = file
    BY <1>1
  <2>2. \A i \in 1 .. Len(file) : i - 0 \in DOMAIN pending' /\ pending'[i - 0] = file[i]
    BY <1>1, <1>2, <1>5 DEF both
  <2>3. 0 \in 0 .. Len(file') /\ 0 + 1 = 1
    BY <1>1
  <2>4. Copied(0)'
    BY <1>1, <2>1, <2>2, <2>3 DEF Copied
  <2> QED BY <2>3, <2>4
<1>9. ~Running' /\ phase' # "saving"
  BY <1>1 DEF Running
<1>10. Listed' = Listed /\ wanted' \subseteq Listed
  BY <1>1 DEF Listed, Kept
<1> QED BY <1>1, <1>7, <1>8, <1>9, <1>10 DEF Kept

\* One more breakpoint of those that are to come.
LEMMA KeptLoad == Core /\ Kept /\ Load => Kept'
<1> SUFFICES ASSUME Core, Kept, Load PROVE Kept'
  OBVIOUS
<1> DEFINE p == Head(pending)
           bs == Added(breakpoints, p[1], p[2])
<1>1. /\ phase = "load" /\ phase' = "load" /\ UNCHANGED <<file, stale, wanted, allowed>>
      /\ breakpoints' = bs /\ pending' = Tail(pending) /\ pending # <<>>
  BY DEF Load
<1>2. /\ file \in Seq(Lines \X Conditions) /\ Len(file) \in Nat /\ DOMAIN file = 1 .. Len(file)
      /\ pending \in Seq(Lines \X Conditions) /\ Good(breakpoints)
      /\ Len(breakpoints) \in Nat
  BY DEF Core, Store, Good
<1>3. /\ p = pending[1] /\ 1 \in DOMAIN pending /\ p \in Lines \X Conditions
      /\ \A i \in DOMAIN Tail(pending) : i + 1 \in DOMAIN pending /\ Tail(pending)[i] = pending[i + 1]
      /\ \A i \in DOMAIN pending : i > 1 => i - 1 \in DOMAIN Tail(pending) /\ i \in Nat
  BY <1>1, <1>2
<1>4. p = <<p[1], p[2]>> /\ p[1] \in Lines /\ p[2] \in Conditions
  <2> HIDE DEF p
  <2> QED BY <1>3
<1>5. p \in Range(pending) /\ Range(Tail(pending)) \subseteq Range(pending)
  BY <1>3 DEF Range
<1>6. Range(pending') \cup Pairs(breakpoints') \subseteq allowed'
  <2>1. \A q \in Pairs(bs) : q = p \/ q \in Pairs(breakpoints)
    BY <1>2, <1>4, AddedPairs
  <2> QED BY <1>1, <1>5, <2>1 DEF Kept
<1> HIDE DEF p
<1>7. PICK n \in 0 .. Len(file) : Copied(n)
  BY <1>1 DEF Kept
<1>8. LinesOf(breakpoints) \subseteq LinesOf(breakpoints')
  BY <1>1, <1>2, <1>4, AddedPairs
<1>9. CASE n = Len(file)
  <2>1. /\ \A i \in 1 .. n : file'[i][1] \in LinesOf(breakpoints')
        /\ \A i \in n + 1 .. Len(file') : FALSE
    <3>1. \A i \in 1 .. n : file[i][1] \in LinesOf(breakpoints)
      BY <1>7 DEF Copied
    <3> QED BY <1>1, <1>2, <1>8, <1>9, <3>1
  <2>2. Copied(n)'
    BY <1>1, <1>9, <2>1 DEF Copied
  <2> QED BY <1>1, <1>6, <1>7, <2>2 DEF Kept, Running, Listed
<1>10. CASE n # Len(file)
  <2>1. n \in Nat /\ n < Len(file) /\ n + 1 \in 0 .. Len(file) /\ Len(breakpoints) <= n
    BY <1>2, <1>7, <1>10 DEF Copied
  <2>2. p = file[n + 1]
    <3>1. n + 1 \in n + 1 .. Len(file) /\ (n + 1) - n = 1
      BY <1>2, <2>1
    <3>2. pending[(n + 1) - n] = file[n + 1]
      BY <1>7, <3>1 DEF Copied
    <3> QED BY <1>3, <3>1, <3>2
  <2>3. Len(breakpoints) < BREAKPOINTS_MAX
    BY <1>2, <2>1, ProgramsAssumption DEF Kept
  <2>4. /\ At(breakpoints, p[1]) = {} => At(bs, p[1]) # {}
        /\ Len(bs) <= Len(breakpoints) + 1 /\ Good(bs)
    BY <1>2, <1>4, <2>3, AddedRoom
  <2>5. p[1] \in LinesOf(breakpoints')
    <3>1. CASE At(breakpoints, p[1]) = {}
      BY <1>1, <2>4, <3>1 DEF At, LinesOf
    <3>2. CASE At(breakpoints, p[1]) # {}
      BY <1>8, <3>2 DEF At, LinesOf
    <3> QED BY <3>1, <3>2
  <2> HIDE DEF bs
  <2>6. \A i \in 1 .. n + 1 : file'[i][1] \in LinesOf(breakpoints')
    <3>1. \A i \in 1 .. n + 1 : i \in 1 .. n \/ i = n + 1
      BY <2>1
    <3> QED BY <1>1, <1>7, <1>8, <2>2, <2>5, <3>1 DEF Copied
  <2>7. \A i \in n + 2 .. Len(file) :
           i - (n + 1) \in DOMAIN pending' /\ pending'[i - (n + 1)] = file[i]
    <3> SUFFICES ASSUME NEW i \in n + 2 .. Len(file)
                 PROVE  i - (n + 1) \in DOMAIN pending' /\ pending'[i - (n + 1)] = file[i]
      OBVIOUS
    <3>1. /\ i \in n + 1 .. Len(file) /\ i - n \in Nat /\ i - n > 1 /\ (i - n) - 1 = i - (n + 1)
          /\ (i - (n + 1)) + 1 = i - n
      BY <1>2, <2>1
    <3>2. i - n \in DOMAIN pending /\ pending[i - n] = file[i]
      BY <1>7, <3>1 DEF Copied
    <3>3. i - (n + 1) \in DOMAIN Tail(pending)
      BY <1>3, <3>1, <3>2
    <3> QED BY <1>1, <1>3, <3>1, <3>2, <3>3
  <2>8. Len(breakpoints') <= n + 1
    <3>1. Len(bs) \in Nat
      BY <2>4 DEF Good
    <3> QED BY <1>1, <1>2, <2>1, <2>4, <3>1
  <2>9. (n + 1) + 1 = n + 2
    BY <2>1
  <2>10. Copied(n + 1)'
    BY <1>1, <2>6, <2>7, <2>8, <2>9 DEF Copied
  <2> QED BY <1>1, <1>6, <2>1, <2>10 DEF Kept, Running, Listed
<1> QED BY <1>9, <1>10

\* A command that sets a breakpoint.
LEMMA KeptSet == Core /\ Kept /\ SetBreakpoint => Kept'
<1> SUFFICES ASSUME Core, Kept, SetBreakpoint PROVE Kept'
  OBVIOUS
<1>1. PICK l \in Lines, c \in Conditions :
         /\ breakpoints' = Added(breakpoints, l, c)
         /\ Save(At(breakpoints', l) # {})
         /\ wanted' = IF At(breakpoints', l) = {} THEN wanted ELSE wanted \cup {l}
         /\ allowed' = {p \in allowed : p[1] # l} \cup {<<l, c>>}
  BY DEF SetBreakpoint
<1>2. Good(breakpoints) /\ pending = <<>> /\ pending' = <<>> /\ Running /\ phase = "paused"
  BY DEF Core, Store, Resting, SetBreakpoint, Command, machine, Running
<1>3. /\ LinesOf(breakpoints) \subseteq LinesOf(breakpoints')
      /\ l \in LinesOf(breakpoints') \/ breakpoints' = breakpoints
      /\ \A p \in Pairs(breakpoints') : p = <<l, c>> \/ (p \in Pairs(breakpoints) /\ p[1] # l)
  BY <1>1, <1>2, AddedPairs
<1>4. Range(pending') \cup Pairs(breakpoints') \subseteq allowed'
  <2>1. Range(pending') = {}
    BY <1>2 DEF Range
  <2> QED BY <1>1, <1>3, <2>1 DEF Kept
<1>5. At(breakpoints', l) # {} <=> l \in LinesOf(breakpoints')
  BY DEF At, LinesOf
<1>6. wanted' \subseteq LinesOf(breakpoints')
  BY <1>1, <1>2, <1>3, <1>5 DEF Kept
<1>7. CASE file' = <<>> /\ stale' = TRUE /\ phase' = "saving"
  BY <1>4, <1>6, <1>7, ProgramsAssumption DEF Kept, Running
<1>8. CASE UNCHANGED <<file, phase>> /\ stale' = (stale \/ At(breakpoints', l) # {})
  <2>1. CASE stale'
    BY <1>2, <1>4, <1>6, <1>8, <2>1 DEF Kept
  <2>2. CASE ~stale'
    <3>1. ~stale /\ At(breakpoints', l) = {}
      BY <1>8, <2>2
    <3>2. Listed' = Listed /\ wanted' = wanted /\ breakpoints' = breakpoints
      BY <1>1, <1>3, <1>5, <1>8, <3>1 DEF Listed
    <3>3. l \notin Listed
      BY <1>2, <1>3, <1>5, <3>1 DEF Kept
    <3>4. \A p \in Range(file) : p[1] # l
      BY <3>3 DEF Range, Listed
    <3>5. Range(file') \subseteq allowed'
      BY <1>1, <1>8, <3>1, <3>4 DEF Kept
    <3>6. Listed' \subseteq LinesOf(breakpoints') /\ wanted' \subseteq Listed'
      BY <1>2, <3>1, <3>2 DEF Kept
    <3> QED BY <1>2, <1>4, <1>6, <1>8, <3>1, <3>5, <3>6 DEF Kept
  <2> QED BY <2>1, <2>2
<1> QED BY <1>1, <1>7, <1>8 DEF Save

\* A command that removes one.
LEMMA KeptRemove == Core /\ Kept /\ RemoveBreakpoint => Kept'
<1> SUFFICES ASSUME Core, Kept, RemoveBreakpoint PROVE Kept'
  OBVIOUS
<1>1. PICK l \in Lines :
         /\ breakpoints' = Removed(breakpoints, l)
         /\ Save(At(breakpoints, l) # {})
         /\ wanted' = wanted \ {l}
         /\ allowed' = {p \in allowed : p[1] # l}
  BY DEF RemoveBreakpoint
<1>2. Good(breakpoints) /\ pending = <<>> /\ pending' = <<>> /\ Running /\ phase = "paused"
  BY DEF Core, Store, Resting, RemoveBreakpoint, Command, machine, Running
<1>3. /\ LinesOf(breakpoints') = LinesOf(breakpoints) \ {l}
      /\ \A p \in Pairs(breakpoints') : p \in Pairs(breakpoints) /\ p[1] # l
  BY <1>1, <1>2, RemovedPairs
<1>4. Range(pending') \cup Pairs(breakpoints') \subseteq allowed'
  <2>1. Range(pending') = {}
    BY <1>2 DEF Range
  <2> QED BY <1>1, <1>3, <2>1 DEF Kept
<1>5. wanted' \subseteq LinesOf(breakpoints')
  BY <1>1, <1>2, <1>3 DEF Kept
<1>6. CASE file' = <<>> /\ stale' = TRUE /\ phase' = "saving"
  BY <1>4, <1>5, <1>6, ProgramsAssumption DEF Kept, Running
<1>7. CASE UNCHANGED <<file, phase>> /\ stale' = (stale \/ At(breakpoints, l) # {})
  <2>1. CASE stale'
    BY <1>2, <1>4, <1>5, <1>7, <2>1 DEF Kept
  <2>2. CASE ~stale'
    <3>1. ~stale /\ At(breakpoints, l) = {}
      BY <1>7, <2>2
    <3>2. l \notin LinesOf(breakpoints)
      BY <3>1 DEF At, LinesOf
    <3>3. Listed' = Listed /\ l \notin Listed
      BY <1>2, <1>7, <3>1, <3>2 DEF Listed, Kept
    <3>4. \A p \in Range(file) : p[1] # l
      BY <3>3 DEF Range, Listed
    <3>5. Range(file') \subseteq allowed'
      BY <1>1, <1>7, <3>1, <3>4 DEF Kept
    <3>6. Listed' \subseteq LinesOf(breakpoints') /\ wanted' \subseteq Listed'
      BY <1>1, <1>2, <1>3, <3>1, <3>3 DEF Kept
    <3> QED BY <1>2, <1>4, <1>5, <1>7, <3>1, <3>5, <3>6 DEF Kept
  <2> QED BY <2>1, <2>2
<1> QED BY <1>1, <1>6, <1>7 DEF Save

\* The file is written: it is stale until all of it is.
LEMMA KeptWrite == Core /\ Kept /\ Write => Kept'
<1> SUFFICES ASSUME Core, Kept, Write PROVE Kept'
  OBVIOUS
<1>1. /\ phase = "saving" /\ stale /\ Good(breakpoints) /\ Running
      /\ UNCHANGED <<breakpoints, wanted, allowed, pending>>
  BY DEF Write, Kept, Core, Store, Running, machine
<1>2. /\ Range(pending') \cup Pairs(breakpoints') \subseteq allowed'
      /\ wanted' \subseteq LinesOf(breakpoints')
  BY <1>1 DEF Kept
<1>3. ASSUME NEW k \in DOMAIN breakpoints, NEW cut \in {<<>>} \cup {<<p>> : p \in Torn},
             file' = SubSeq(Saved(breakpoints), 1, k - 1) \o cut, UNCHANGED <<phase, stale>>
      PROVE  Kept'
  <2>1. Len(file') <= BREAKPOINTS_MAX
    BY <1>1, <1>3, WrittenFacts
  <2> QED BY <1>1, <1>2, <1>3, <2>1 DEF Kept
<1>4. CASE file' = Saved(breakpoints) /\ stale' = FALSE /\ phase' = "paused"
  <2>1. /\ Len(file') <= BREAKPOINTS_MAX /\ Listed' = LinesOf(breakpoints')
        /\ Range(file') = Pairs(breakpoints')
    BY <1>1, <1>4, SavedKept
  <2> QED BY <1>2, <1>4, <2>1 DEF Kept
<1>5. CASE phase' = "paused" /\ UNCHANGED <<file, stale>>
  BY <1>1, <1>2, <1>5 DEF Kept
<1> QED BY <1>3, <1>4, <1>5 DEF Write

\* Steps that leave the breakpoints and the file.
LEMMA KeptElse ==
    ASSUME Core, Kept, UNCHANGED <<breakpoints, file, stale, wanted, allowed, pending>>,
           phase' = phase \/ (Running /\ Running' /\ phase' # "saving")
    PROVE  Kept'
<1>1. Listed' = Listed /\ (Running' => Running)
  BY DEF Listed, Running
<1>2. phase' = "load" => phase = "load"
  BY DEF Running
<1>3. phase = "load" => \E n \in 0 .. Len(file') : Copied(n)'
  BY DEF Kept, Copied
<1> QED BY <1>1, <1>2, <1>3 DEF Kept

\* A process ends and leaves its file, or begins to run with what was loaded.
LEMMA KeptExit == Core /\ Kept /\ Exit => Kept'
<1> SUFFICES ASSUME Core, Kept, Exit PROVE Kept'
  OBVIOUS
<1>1. /\ breakpoints' = <<>> /\ pending' = <<>> /\ phase' = "off"
      /\ UNCHANGED <<file, stale, wanted, allowed>>
  BY DEF Exit
<1>2. Pairs(<<>>) = {} /\ Range(<<>>) = {} /\ Listed' = Listed
  BY <1>1 DEF Pairs, Range, Saved, Listed
<1> QED BY <1>1, <1>2 DEF Kept, Running

LEMMA KeptRun == Core /\ Kept /\ Run => Kept'
<1> SUFFICES ASSUME Core, Kept, Run PROVE Kept'
  OBVIOUS
<1>1. /\ phase = "load" /\ phase' = "hook" /\ pending = <<>>
      /\ UNCHANGED <<breakpoints, file, stale, wanted, allowed, pending>>
  BY DEF Run, kept
<1>2. PICK n \in 0 .. Len(file) : Copied(n)
  BY <1>1 DEF Kept
<1>3. Len(file) \in Nat /\ DOMAIN file = 1 .. Len(file)
  BY DEF Core, Store
<1>4. n = Len(file)
  <2> DEFINE L == Len(file)
  <2>1. n \in 0 .. L /\ L \in Nat
    BY <1>3
  <2>2. \A i \in n + 1 .. L : i - n \in DOMAIN pending
    BY <1>2 DEF Copied
  <2>3. DOMAIN pending = {}
    BY <1>1
  <2> HIDE DEF L
  <2>4. ~(n + 1 \in n + 1 .. L)
    BY <2>2, <2>3
  <2>5. n = L
    BY <2>1, <2>4
  <2> QED BY <2>5 DEF L
<1>5. Listed' = Listed /\ Listed \subseteq LinesOf(breakpoints) /\ wanted \subseteq Listed
  <2>1. \A i \in DOMAIN file : file[i][1] \in LinesOf(breakpoints)
    BY <1>2, <1>3, <1>4 DEF Copied
  <2> QED BY <1>1, <2>1 DEF Kept, Listed
<1> QED BY <1>1, <1>5 DEF Kept

\* A hit changes neither lines nor conditions.
LEMMA KeptHook == Core /\ Kept /\ Hook => Kept'
<1> SUFFICES ASSUME Core, Kept, Hook PROVE Kept'
  OBVIOUS
<1> DEFINE bs == Hit(breakpoints, FrameLine(Top))
<1>1. /\ phase = "hook" /\ Running' /\ phase' \notin {"load", "saving"}
      /\ UNCHANGED <<file, stale, wanted, allowed, pending>>
      /\ breakpoints' \in {bs, breakpoints} /\ Good(breakpoints)
  BY DEF Hook, Running, machine, Core, Store
<1>2. /\ Good(bs) /\ DOMAIN bs = DOMAIN breakpoints
      /\ \A i \in DOMAIN bs :
            bs[i].line = breakpoints[i].line /\ bs[i].cond = breakpoints[i].cond
  BY <1>1, HitFacts
<1> HIDE DEF bs
<1>3. Pairs(bs) \subseteq Pairs(breakpoints)
  BY <1>1, <1>2, PairsOf
<1>4. LinesOf(bs) = LinesOf(breakpoints)
  BY <1>2 DEF LinesOf
<1>5. Listed' = Listed
  BY <1>1 DEF Listed
<1>6. Pairs(breakpoints') \subseteq Pairs(breakpoints) /\ LinesOf(breakpoints') = LinesOf(breakpoints)
  BY <1>1, <1>3, <1>4
<1> QED BY <1>1, <1>5, <1>6 DEF Kept, Running

LEMMA KeptStep == Core /\ Kept /\ [Next]_vars => Kept'
<1> SUFFICES ASSUME Core, Kept, [Next]_vars PROVE Kept'
  OBVIOUS
<1>1. CASE UNCHANGED vars
  BY <1>1, KeptElse DEF vars, machine, kept
<1>2. CASE Kill
  BY <1>2, KeptExit DEF Kill
<1>3. ASSUME NEW m \in {"none", "in", "next", "out"}, Resume(m) PROVE Kept'
  BY <1>3, KeptElse DEF Resume, Command, Running, machine, kept
<1>4. CASE EndOfInput
  BY <1>4, KeptElse DEF EndOfInput, Running, machine, kept
<1>5. CASE Simple \/ Call
  BY <1>5, KeptElse DEF Simple, Call, Instructions, After, Running, kept
<1>6. CASE Return
  BY <1>6, KeptElse, KeptExit DEF Return, Instructions, After, Running, kept
<1>7. CASE Throw
  BY <1>7, KeptElse, KeptExit DEF Throw, Instructions, After, Running, kept
<1> QED BY <1>1, <1>2, <1>3, <1>4, <1>5, <1>6, <1>7, KeptStart, KeptLoad, KeptRun, KeptHook,
           KeptSet, KeptRemove, KeptWrite DEF Next

-----------------------------------------------------------------------------
(* Asked.                                                                  *)

\* The innermost frame after a step.
LEMMA TopAfter ==
    ASSUME Machine', frames' # <<>>
    PROVE  /\ Top' = frames'[Len(frames')] /\ Len(frames') \in Nat \ {0}
           /\ DOMAIN frames' = 1 .. Len(frames') /\ Len(frames') \in DOMAIN frames'
<1>1. frames' \in Seq(FrameOf(code'))
  BY DEF Machine, Stack
<1> QED BY <1>1, FrontLast DEF Top

\* What an instruction does to the frames below it, and to the innermost.
LEMMA Moves ==
    ASSUME Core, Simple \/ Call \/ Return \/ Throw, ~Exit
    PROVE  /\ phase = "execute" /\ phase' = "hook" /\ After
           /\ frames # <<>> /\ frames' # <<>> /\ Machine'
           /\ \A j \in DOMAIN frames \cap DOMAIN frames' : frames'[j].act = frames[j].act
           /\ Len(frames') > Len(frames) => frames'[Len(frames')].act = calls + 1
<1>1. phase = "execute" /\ frames # <<>> /\ Machine
  BY DEF Simple, Call, Return, Throw, Instructions, Core, Resting, Running
<1>2. /\ Len(frames) \in Nat \ {0} /\ DOMAIN frames = 1 .. Len(frames)
      /\ Top = frames[Len(frames)]
      /\ Top.fn \in DOMAIN code /\ Top.ip \in DOMAIN code[Top.fn]
      /\ Instruction = code[Top.fn][Top.ip]
  BY <1>1, Here
<1>3. CASE Simple
  <2>1. /\ Machine' /\ Len(frames') = Len(frames)
        /\ \A j \in DOMAIN frames : j \in DOMAIN frames' /\ frames'[j].act = frames[j].act
    BY <1>1, <1>3, SimpleMoves
  <2> QED BY <1>1, <1>2, <1>3, <2>1 DEF Simple
<1>4. CASE Call
  <2>1. /\ Machine'
        /\ Len(frames') = IF Instruction.op = "tail" THEN Len(frames) ELSE Len(frames) + 1
        /\ \A j \in DOMAIN frames : j \in DOMAIN frames' /\ frames'[j].act = frames[j].act
        /\ Instruction.op # "tail" => frames'[Len(frames')].act = calls + 1
    BY <1>1, <1>4, CallEnters
  <2>2. frames' # <<>>
    BY <1>2, <2>1
  <2>3. phase' = "hook" /\ After
    BY <1>4 DEF Call
  <2>4. Len(frames') > Len(frames) => frames'[Len(frames')].act = calls + 1
    BY <1>2, <2>1
  <2> QED BY <1>1, <2>1, <2>2, <2>3, <2>4
<1>5. CASE Return
  <2>1. Len(frames) # 1
    BY <1>5 DEF Return
  <2>2. /\ Machine' /\ frames' # <<>> /\ Len(frames') = Len(frames) - 1
        /\ \A j \in DOMAIN frames' : j \in DOMAIN frames /\ frames'[j] = frames[j]
    BY <1>1, <1>5, <2>1, ReturnLeaves
  <2> QED BY <1>1, <1>2, <1>5, <2>1, <2>2 DEF Return
<1>6. CASE Throw
  <2>1. handlers # <<>>
    BY <1>6 DEF Throw
  <2> DEFINE h == Last(handlers)
  <2>2. /\ Machine' /\ frames' # <<>> /\ Len(frames') = h.depth /\ h.depth \in DOMAIN frames
        /\ \A j \in 1 .. h.depth :
              j \in DOMAIN frames' /\ frames'[j].fn = frames[j].fn /\ frames'[j].act = frames[j].act
    BY <1>1, <1>6, <2>1, ThrowLeaves
  <2> HIDE DEF h
  <2>3. DOMAIN frames' = 1 .. h.depth
    BY <2>2, TopAfter
  <2>4. ~(Len(frames') > Len(frames))
    BY <1>2, <2>2
  <2> QED BY <1>1, <1>6, <2>1, <2>2, <2>3, <2>4 DEF Throw
<1> QED BY <1>3, <1>4, <1>5, <1>6

LEMMA AskedInit == Init => Asked
BY DEF Init, Asked, Running, Stepping

LEMMA AskedExit == Exit => Asked'
BY DEF Exit, Asked, Running, Stepping

\* An instruction leaves the frames that a step was asked in, or is on its way out of them.
LEMMA AskedExecutes ==
    ASSUME Core, Asked, Simple \/ Call \/ Return \/ Throw
    PROVE  Asked'
<1>1. CASE Exit
  BY <1>1, AskedExit
<1>2. CASE ~Exit
  <2>1. /\ phase = "execute" /\ phase' = "hook" /\ After
        /\ frames # <<>> /\ frames' # <<>> /\ Machine'
        /\ \A j \in DOMAIN frames \cap DOMAIN frames' : frames'[j].act = frames[j].act
    BY <1>2, Moves
  <2>2. UNCHANGED <<asked, depth, mode, last>>
    BY <2>1 DEF After, stepping
  <2>3. last[2] = Len(frames)
    BY <2>1 DEF Asked
  <2>4. ASSUME Stepping
        PROVE  /\ Len(asked) = depth /\ last[2] >= depth
               /\ \A i \in DOMAIN asked : i \in DOMAIN frames' => frames'[i].act = asked[i]
    <3>1. /\ Len(asked) = depth /\ Len(frames) >= depth /\ asked \in Seq(Nat)
          /\ \A i \in DOMAIN asked : i \in DOMAIN frames => frames[i].act = asked[i]
      BY <2>1, <2>4 DEF Asked, Running
    <3>2. \A i \in DOMAIN asked : i \in DOMAIN frames
      <4>1. DOMAIN asked = 1 .. depth /\ depth \in Nat
        BY <3>1
      <4>2. DOMAIN frames = 1 .. Len(frames) /\ Len(frames) \in Nat
        BY <2>1, Here DEF Core
      <4> QED BY <3>1, <4>1, <4>2
    <3> QED BY <2>1, <2>3, <3>1, <3>2
  <2> QED BY <2>1, <2>2, <2>4 DEF Asked, Running, Stepping
<1> QED BY <1>1, <1>2

\* The hook lets a step pass no location at which it may stop.
LEMMA AskedHook == Core /\ Asked /\ Hook => Asked'
<1> SUFFICES ASSUME Core, Asked, Hook PROVE Asked'
  OBVIOUS
<1>1. /\ phase = "hook" /\ phase' = (IF why' = "none" THEN "execute" ELSE "paused")
      /\ last' = Location /\ UNCHANGED <<frames, mode, depth, asked>>
      /\ Changed <=> Location # last
  BY DEF Hook, machine, stepping, Changed
<1>2. /\ Location[2] = Len(frames) /\ Len(frames) \in Nat /\ depth \in Nat
      /\ mode \in {"none", "in", "next", "out"}
  <2>1. frames # <<>> /\ Machine
    BY <1>1 DEF Core, Resting, Running
  <2>2. Len(frames) \in Nat
    BY <2>1, Here
  <2>3. depth \in Nat /\ mode \in {"none", "in", "next", "out"}
    BY ProgramsAssumption DEF Core, Memory
  <2> QED BY <2>2, <2>3 DEF Location
<1>3. why' = IF ~ Changed THEN "none"
             ELSE IF Breaks(Hit(breakpoints, FrameLine(Top)), FrameLine(Top)) THEN "breakpoint"
             ELSE IF Steps THEN mode ELSE "none"
  BY DEF Hook
<1>4. why' \in {"next", "out"} => Steps /\ mode = why'
  BY <1>3
<1>5. why' = "none" => ~Changed \/ ~Steps
  BY <1>2, <1>3 DEF Steps
<1>6. ASSUME Stepping, why' = "none" PROVE Len(frames) >= depth
  <2>1. CASE ~Changed
    <3>1. last[2] = Len(frames) /\ last[2] >= depth
      BY <1>1, <1>2, <1>6, <2>1 DEF Asked
    <3> QED BY <3>1
  <2>2. CASE ~Steps
    BY <1>2, <1>6, <2>2 DEF Steps, Stepping
  <2> QED BY <1>5, <1>6, <2>1, <2>2
<1>7. /\ why' = "next" => mode = "next" /\ Len(frames) <= depth
      /\ why' = "out" => mode = "out" /\ Len(frames) < depth
  BY <1>4 DEF Steps
<1>8. last'[2] = Len(frames)
  BY <1>1, <1>2
<1> QED BY <1>1, <1>6, <1>7, <1>8 DEF Asked, Running, Stepping

\* A command to go on notes the frames there are.
LEMMA AskedResume ==
    ASSUME Core, Asked, NEW m \in {"none", "in", "next", "out"}, Resume(m)
    PROVE  Asked'
<1>1. /\ phase = "paused" /\ phase' = "execute" /\ mode' = m /\ UNCHANGED <<frames, last>>
      /\ m \in {"next", "out"} => depth' = Len(frames)
      /\ asked' = [i \in DOMAIN frames |-> frames[i].act]
  BY DEF Resume, Command, machine
<1>2. frames # <<>> /\ Machine
  BY <1>1 DEF Core, Resting, Running
<1>3. /\ Len(frames) \in Nat /\ DOMAIN frames = 1 .. Len(frames)
      /\ calls \in Nat
  BY <1>2, Here
<1>4. /\ \A i \in DOMAIN frames : frames[i].act \in Nat
      /\ \A i, j \in DOMAIN frames : i < j => frames[i].act < frames[j].act
  BY <1>2, <1>3 DEF Machine, Stack
<1>5. asked' = [i \in 1 .. Len(frames) |-> frames[i].act]
  BY <1>1, <1>3
<1>6. /\ asked' \in Seq(Nat) /\ Len(asked') = Len(frames) /\ DOMAIN asked' = DOMAIN frames
      /\ \A i \in DOMAIN frames : asked'[i] = frames[i].act
  BY <1>3, <1>4, <1>5
<1>7. last'[2] = Len(frames')
  BY <1>1 DEF Asked
<1>8. Stepping' => Len(asked') = depth' /\ Len(frames') >= depth'
  BY <1>1, <1>3, <1>6 DEF Stepping
<1> QED BY <1>1, <1>4, <1>6, <1>7, <1>8 DEF Asked

LEMMA AskedStep == Core /\ Asked /\ [Next]_vars => Asked'
<1> SUFFICES ASSUME Core, Asked, [Next]_vars PROVE Asked'
  OBVIOUS
<1>1. CASE UNCHANGED vars
  BY <1>1 DEF Asked, vars, machine, stepping, Running, Stepping
<1>2. CASE Kill
  BY <1>2, AskedExit DEF Kill
<1>3. CASE SetBreakpoint \/ RemoveBreakpoint \/ Write
  BY <1>3 DEF SetBreakpoint, RemoveBreakpoint, Save, Write, Command, Asked, machine, stepping, Running, Stepping
<1>4. CASE EndOfInput
  BY <1>4 DEF EndOfInput, Asked, machine, Running, Stepping
<1>5. CASE Start \/ Load
  BY <1>5 DEF Start, Load, Asked, stepping, Running, Stepping
<1>6. CASE Run
  BY <1>6 DEF Run, Asked, Running, Stepping
<1> QED BY <1>1, <1>2, <1>3, <1>4, <1>5, <1>6, AskedHook, AskedResume, AskedExecutes DEF Next

-----------------------------------------------------------------------------
(* Counted.                                                                *)

LEMMA CountedInit == Init => Counted
BY DEF Init, Counted, Unvisited

LEMMA CountedExit == Exit => Counted'
BY DEF Exit, Counted, Unvisited

\* An instruction changes the location when it changes the line, the frame or its function.
LEMMA CountedExecutes ==
    ASSUME Core, Counted, Simple \/ Call \/ Return \/ Throw
    PROVE  Counted'
<1>1. CASE Exit
  BY <1>1, CountedExit
<1>2. CASE ~Exit
  <2>1. /\ phase = "execute" /\ phase' = "hook" /\ After
        /\ frames # <<>> /\ frames' # <<>> /\ Machine' /\ Machine
        /\ \A j \in DOMAIN frames \cap DOMAIN frames' : frames'[j].act = frames[j].act
        /\ Len(frames') > Len(frames) => frames'[Len(frames')].act = calls + 1
    BY <1>2, Moves DEF Core
  <2>2. /\ Len(frames) \in Nat /\ DOMAIN frames = 1 .. Len(frames) /\ calls \in Nat
        /\ Len(frames) \in DOMAIN frames /\ Top = frames[Len(frames)]
    BY <2>1, Here
  <2>3. /\ Len(frames') \in Nat /\ DOMAIN frames' = 1 .. Len(frames')
        /\ Len(frames') \in DOMAIN frames' /\ Top' = frames'[Len(frames')]
    BY <2>1, TopAfter
  <2>4. UNCHANGED <<last, visited, visits, breakpoints>>
    BY <2>1 DEF After, kept
  <2>5. last = Location /\ visited = Visit
    BY <2>1 DEF Counted
  <2>6. /\ Location = <<FrameLine(Top), Len(frames), Top.fn>>
        /\ Location' = <<FrameLine(Top)', Len(frames'), Top'.fn>>
        /\ Visit = <<FrameLine(Top), Top.act, Top.fn>>
        /\ Visit' = <<FrameLine(Top)', Top'.act, Top'.fn>>
    BY DEF Location, Visit
  <2>7. /\ \A i \in DOMAIN frames : frames[i].act \in 1 .. calls
        /\ \A i, j \in DOMAIN frames : i < j => frames[i].act < frames[j].act
    BY <2>1 DEF Machine, Stack
  <2>8. CASE Len(frames') = Len(frames)
    <3>1. Top'.act = Top.act
      BY <2>1, <2>2, <2>3, <2>8
    <3>2. Location' = last <=> Visit' = visited
      BY <2>5, <2>6, <2>8, <3>1
    <3> QED BY <2>1, <2>4, <3>2 DEF Counted
  <2>9. CASE Len(frames') # Len(frames)
    <3>1. Top'.act # Top.act
      <4>1. CASE Len(frames') < Len(frames)
        <5>1. Len(frames') \in DOMAIN frames
          BY <2>2, <2>3, <4>1
        <5>2. Top'.act = frames[Len(frames')].act
          BY <2>1, <2>3, <5>1
        <5>3. frames[Len(frames')].act < Top.act
          BY <2>2, <2>7, <4>1, <5>1
        <5>4. frames[Len(frames')].act \in Nat /\ Top.act \in Nat
          BY <2>2, <2>7, <5>1
        <5> QED BY <5>2, <5>3, <5>4
      <4>2. CASE Len(frames') > Len(frames)
        <5>1. Top'.act = calls + 1 /\ Top.act \in 1 .. calls
          BY <2>1, <2>2, <2>3, <2>7, <4>2
        <5> QED BY <2>2, <5>1
      <4>3. Len(frames') < Len(frames) \/ Len(frames') > Len(frames)
        <5> DEFINE m == Len(frames)
                   n == Len(frames')
        <5>1. m \in Nat /\ n \in Nat /\ n # m
          BY <2>2, <2>3, <2>9
        <5> HIDE DEF m, n
        <5>2. n < m \/ n > m
          BY <5>1
        <5> QED BY <5>2 DEF m, n
      <4> QED BY <4>1, <4>2, <4>3
    <3>2. Location' # last
      <4>1. Location'[2] = Len(frames') /\ last[2] = Len(frames)
        BY <2>5 DEF Location
      <4> QED BY <2>9, <4>1
    <3>3. Visit' # visited
      BY <2>5, <2>6, <3>1
    <3> QED BY <2>1, <2>4, <3>2, <3>3 DEF Counted
  <2> QED BY <2>8, <2>9
<1> QED BY <1>1, <1>2

\* A hook that sees a change hits the breakpoints of the line.
LEMMA CountedHook == Core /\ Counted /\ Hook => Counted'
<1> SUFFICES ASSUME Core, Counted, Hook PROVE Counted'
  OBVIOUS
<1> DEFINE line == FrameLine(Top)
<1>1. /\ phase = "hook" /\ phase' = (IF why' = "none" THEN "execute" ELSE "paused")
      /\ breakpoints' = IF Changed THEN Hit(breakpoints, line) ELSE breakpoints
      /\ last' = Location /\ visited' = Visit
      /\ visits' = IF visited' = visited \/ At(breakpoints, line) = {}
                   THEN visits ELSE [visits EXCEPT ![line] = @ + 1]
      /\ UNCHANGED <<frames, code>>
  BY DEF Hook, machine
<1>2. Changed <=> visited' # visited
  BY <1>1 DEF Counted, Changed
<1>3. Location' = last' /\ visited' = Visit'
  BY <1>1 DEF Location, Visit, FrameLine, Top
<1> HIDE DEF line
<1>4. Good(breakpoints)
  BY DEF Core, Store
<1>5. /\ visits \in [Lines -> Nat]
      /\ \A i \in DOMAIN breakpoints : breakpoints[i].hits = visits[breakpoints[i].line]
  BY DEF Counted
<1>6. \A i \in DOMAIN breakpoints : breakpoints[i].line \in Lines
  <2>1. breakpoints \in Seq(BreakpointType)
    BY <1>4 DEF Good
  <2>2. \A i \in DOMAIN breakpoints : breakpoints[i] \in BreakpointType
    BY <2>1
  <2> QED BY <2>2 DEF BreakpointType
<1>7. /\ visits' \in [Lines -> Nat]
      /\ \A i \in DOMAIN breakpoints' : breakpoints'[i].hits = visits'[breakpoints'[i].line]
  <2>1. CASE ~Changed
    BY <1>1, <1>2, <1>5, <2>1
  <2>2. CASE Changed
    <3> DEFINE bs == Hit(breakpoints, line)
    <3>1. breakpoints' = bs
      BY <1>1, <1>2, <2>2
    <3>2. /\ DOMAIN bs = DOMAIN breakpoints
          /\ \A i \in DOMAIN breakpoints :
                /\ bs[i].line = breakpoints[i].line
                /\ bs[i].hits = IF breakpoints[i].line = line THEN breakpoints[i].hits + 1
                                ELSE breakpoints[i].hits
      BY <1>4, HitFacts
    <3> HIDE DEF bs
    <3>3. CASE At(breakpoints, line) = {}
      <4>1. \A i \in DOMAIN breakpoints : breakpoints[i].line # line
        BY <3>3 DEF At
      <4>2. visits' = visits
        BY <1>1, <3>3
      <4> QED BY <1>5, <3>1, <3>2, <4>1, <4>2
    <3>4. CASE At(breakpoints, line) # {}
      <4>1. line \in Lines
        BY <1>6, <3>4 DEF At
      <4>2. visits' = [visits EXCEPT ![line] = @ + 1]
        BY <1>1, <1>2, <2>2, <3>4
      <4>3. /\ visits' \in [Lines -> Nat] /\ visits'[line] = visits[line] + 1
            /\ \A l \in Lines : l # line => visits'[l] = visits[l]
        BY <1>5, <4>1, <4>2
      <4>4. ASSUME NEW i \in DOMAIN breakpoints PROVE bs[i].hits = visits'[bs[i].line]
        <5>1. CASE breakpoints[i].line = line
          BY <1>5, <3>2, <4>3, <5>1
        <5>2. CASE breakpoints[i].line # line
          BY <1>5, <1>6, <3>2, <4>3, <5>2
        <5> QED BY <5>1, <5>2
      <4> QED BY <3>1, <3>2, <4>3, <4>4
    <3> QED BY <3>3, <3>4
  <2> QED BY <2>1, <2>2
<1> QED BY <1>1, <1>3, <1>7 DEF Counted

\* A breakpoint that is set starts from none, and so does its line.
LEMMA CountedSets == Core /\ Counted /\ (SetBreakpoint \/ RemoveBreakpoint) => Counted'
<1> SUFFICES ASSUME Core, Counted, SetBreakpoint \/ RemoveBreakpoint PROVE Counted'
  OBVIOUS
<1>1. Good(breakpoints)
  BY DEF Core, Store
<1>2. /\ visits \in [Lines -> Nat]
      /\ \A i \in DOMAIN breakpoints : breakpoints[i].hits = visits[breakpoints[i].line]
  BY DEF Counted
<1>3. \A i \in DOMAIN breakpoints : breakpoints[i].line \in Lines
  <2>1. breakpoints \in Seq(BreakpointType)
    BY <1>1 DEF Good
  <2>2. \A i \in DOMAIN breakpoints : breakpoints[i] \in BreakpointType
    BY <2>1
  <2> QED BY <2>2 DEF BreakpointType
<1>4. PICK l \in Lines :
         /\ visits' = [visits EXCEPT ![l] = 0]
         /\ \A i \in DOMAIN breakpoints' :
               \/ breakpoints'[i].line = l /\ breakpoints'[i].hits = 0
               \/ \E j \in DOMAIN breakpoints :
                     breakpoints'[i] = breakpoints[j] /\ breakpoints[j].line # l
  <2>1. CASE SetBreakpoint
    <3>1. PICK l \in Lines, c \in Conditions :
             breakpoints' = Added(breakpoints, l, c) /\ visits' = [visits EXCEPT ![l] = 0]
      BY <2>1 DEF SetBreakpoint
    <3>2. \A i \in DOMAIN breakpoints' :
             \/ breakpoints'[i] = Breakpoint(l, c, 0)
             \/ i \in DOMAIN breakpoints /\ breakpoints'[i] = breakpoints[i] /\ breakpoints[i].line # l
      BY <1>1, <3>1, AddedFacts
    <3>3. Breakpoint(l, c, 0).line = l /\ Breakpoint(l, c, 0).hits = 0
      BY DEF Breakpoint
    <3> QED BY <3>1, <3>2, <3>3
  <2>2. CASE RemoveBreakpoint
    <3>1. PICK l \in Lines :
             breakpoints' = Removed(breakpoints, l) /\ visits' = [visits EXCEPT ![l] = 0]
      BY <2>2 DEF RemoveBreakpoint
    <3>2. \A i \in DOMAIN breakpoints' : \E j \in DOMAIN breakpoints :
             breakpoints'[i] = breakpoints[j] /\ breakpoints[j].line # l
      BY <1>1, <3>1, RemovedFacts
    <3> QED BY <3>1, <3>2
  <2> QED BY <2>1, <2>2
<1>5. visits' \in [Lines -> Nat] /\ visits'[l] = 0 /\ \A k \in Lines : k # l => visits'[k] = visits[k]
  BY <1>2, <1>4
<1>6. \A i \in DOMAIN breakpoints' : breakpoints'[i].hits = visits'[breakpoints'[i].line]
  BY <1>2, <1>3, <1>4, <1>5
<1>7. /\ UNCHANGED <<last, visited, frames, code>>
      /\ phase = "paused" /\ phase' \in {"paused", "saving"}
  BY DEF SetBreakpoint, RemoveBreakpoint, Save, Command, machine
<1> QED BY <1>5, <1>6, <1>7 DEF Counted, Location, Visit, FrameLine, Top

\* What is loaded before the program starts has not been visited.
LEMMA CountedLoad == Core /\ Counted /\ Load => Counted'
<1> SUFFICES ASSUME Core, Counted, Load PROVE Counted'
  OBVIOUS
<1>1. /\ phase = "load" /\ phase' = "load" /\ visits = Unvisited /\ visits' = visits
      /\ Good(breakpoints) /\ pending \in Seq(Lines \X Conditions) /\ pending # <<>>
      /\ breakpoints' = Added(breakpoints, Head(pending)[1], Head(pending)[2])
  BY DEF Load, Core, Store, Resting, Running
<1> DEFINE l == Head(pending)[1]
           c == Head(pending)[2]
<1>2. l \in Lines /\ c \in Conditions
  <2>1. Head(pending) \in Lines \X Conditions
    BY <1>1
  <2> QED BY <2>1
<1> HIDE DEF l, c
<1>3. \A i \in DOMAIN breakpoints' :
         \/ breakpoints'[i] = Breakpoint(l, c, 0)
         \/ i \in DOMAIN breakpoints /\ breakpoints'[i] = breakpoints[i]
  <2>1. breakpoints' = Added(breakpoints, l, c)
    BY <1>1 DEF l, c
  <2> QED BY <1>1, <1>2, <2>1, AddedEach
<1>4. Breakpoint(l, c, 0).line = l /\ Breakpoint(l, c, 0).hits = 0
  BY DEF Breakpoint
<1>5. visits[l] = 0
  BY <1>1, <1>2 DEF Unvisited
<1> QED BY <1>1, <1>3, <1>4, <1>5 DEF Counted

\* The program starts where nothing was visited.
LEMMA CountedRun == Core /\ Counted /\ Run => Counted'
<1> SUFFICES ASSUME Core, Counted, Run PROVE Counted'
  OBVIOUS
<1>1. /\ phase = "load" /\ phase' = "hook" /\ frames' = <<Frame(Main, 0, 1)>>
      /\ UNCHANGED <<last, visited, visits, breakpoints>>
      /\ last = Nowhere /\ visited = Nowhere
  BY DEF Run, kept, Core, Resting, Running
<1>2. Top' = Frame(Main, 0, 1)
  BY <1>1 DEF Top, Last
<1>3. Location'[2] = 1 /\ last'[2] = 0
  BY <1>1 DEF Location, Nowhere
<1>4. Top'.act = 1
  BY <1>2 DEF Frame
<1>5. visited' # Visit'
  BY <1>1, <1>4 DEF Nowhere, Visit
<1>6. last' # Location'
  BY <1>3
<1> QED BY <1>1, <1>5, <1>6 DEF Counted

LEMMA CountedStep == Core /\ Counted /\ [Next]_vars => Counted'
<1> SUFFICES ASSUME Core, Counted, [Next]_vars PROVE Counted'
  OBVIOUS
<1>1. ASSUME UNCHANGED <<code, frames, last, visited, visits, breakpoints>>,
             \/ phase' = phase
             \/ phase = "paused" /\ phase' = "execute"
             \/ phase = "saving" /\ phase' = "paused"
      PROVE  Counted'
  BY <1>1 DEF Counted, Location, Visit, FrameLine, Top
<1>2. CASE UNCHANGED vars
  BY <1>1, <1>2 DEF vars, machine, kept
<1>3. CASE Kill
  BY <1>3, CountedExit DEF Kill
<1>4. ASSUME NEW m \in {"none", "in", "next", "out"}, Resume(m) PROVE Counted'
  BY <1>1, <1>4 DEF Resume, Command, machine, kept
<1>5. CASE EndOfInput
  BY <1>1, <1>5 DEF EndOfInput, machine, kept
<1>6. CASE Start
  BY <1>6 DEF Start, Counted
<1>7. CASE Write
  BY <1>1, <1>7 DEF Write, machine
<1> QED BY <1>2, <1>3, <1>4, <1>5, <1>6, <1>7, CountedLoad, CountedRun, CountedHook, CountedSets,
           CountedExecutes DEF Next

-----------------------------------------------------------------------------
(* The theorems.                                                           *)

\* The machine, the memory of the debugger and its breakpoints are what they should be,
\* for all programs and all commands.
LEMMA CoreKeptInvariance == Spec => [](Core /\ Kept)
<1>1. Init => Core /\ Kept
  BY CoreInit, KeptInit
<1>2. Core /\ Kept /\ [Next]_vars => (Core /\ Kept)'
  BY CoreStep, KeptStep
<1> QED BY <1>1, <1>2, PTL DEF Spec

\* Type correctness: no program and no commands lead out of the types (vm_debugger.c).
\* It says that an instruction pointer never leaves its function, that a throw always
\* finds the frame of its handler, and that no line has two breakpoints.
THEOREM Typing == Spec => []TypeOK
<1>1. Core /\ Kept => TypeOK
  BY CoreTypes
<1> QED BY <1>1, CoreKeptInvariance, PTL

\* Breakpoints set by commands and not deleted are there in this run, and in all later
\* ones unless the last save of the run before did not open its file, did not write all
\* of it or was cut short by the end of the process; then those are there that it left
\* in the file.  And no others are (vm_save_breakpoints, vm_load_breakpoints).
THEOREM KeepsBreakpoints == Spec => []BreakpointsKept
<1>1. ASSUME Core, Kept PROVE BreakpointsKept
  <2> SUFFICES ASSUME Running
               PROVE  /\ \A l \in wanted : At(breakpoints, l) # {}
                      /\ Pairs(breakpoints) \subseteq allowed
    BY DEF BreakpointsKept, Running
  <2>1. wanted \subseteq LinesOf(breakpoints) /\ Pairs(breakpoints) \subseteq allowed
    BY <1>1 DEF Kept
  <2> QED BY <2>1 DEF LinesOf, At
<1>2. Core /\ Kept => BreakpointsKept
  BY <1>1
<1> QED BY <1>2, CoreKeptInvariance, PTL

\* What Asked says of a pause.
LEMMA AskedStops == Core /\ Asked => StepsStop
<1> SUFFICES ASSUME Core, Asked, phase = "paused"
             PROVE  /\ why = "next" => Top.act \in Range(asked)
                    /\ why = "out" =>
                          Top.act \in Range(Front(asked)) /\ Last(asked) \notin Activations
  BY DEF StepsStop
<1> DEFINE d == Len(frames)
           n == Len(asked)
<1>1. frames # <<>> /\ Machine /\ Running
  BY DEF Core, Resting, Running
<1>2. d \in Nat \ {0} /\ DOMAIN frames = 1 .. d /\ d \in DOMAIN frames /\ Top = frames[d]
  BY <1>1, Here
<1>3. asked \in Seq(Nat) /\ n \in Nat /\ DOMAIN asked = 1 .. n
  BY DEF Asked
<1>4. \A i, j \in DOMAIN asked : i < j => asked[i] < asked[j]
  BY DEF Asked
<1>5. Stepping => n = depth /\ \A i \in DOMAIN asked : i \in DOMAIN frames => frames[i].act = asked[i]
  BY <1>1 DEF Asked
<1>6. ASSUME why = "next" PROVE Top.act \in Range(asked)
  <2>1. n = depth /\ d <= depth /\ Top.act = asked[d] /\ d \in DOMAIN asked
    <3>1. mode = "next" /\ d <= depth
      BY <1>6 DEF Asked
    <3>2. n = depth
      BY <1>5, <3>1 DEF Stepping
    <3>3. d \in DOMAIN asked
      BY <1>2, <1>3, <3>1, <3>2
    <3> QED BY <1>2, <1>5, <3>1, <3>2, <3>3 DEF Stepping
  <2> QED BY <2>1 DEF Range
<1>7. ASSUME why = "out"
      PROVE  Top.act \in Range(Front(asked)) /\ Last(asked) \notin Activations
  <2>1. mode = "out" /\ d < depth
    BY <1>7 DEF Asked
  <2>2. n = depth /\ d < n /\ \A i \in DOMAIN asked : i \in DOMAIN frames => frames[i].act = asked[i]
    BY <1>5, <2>1 DEF Stepping
  <2> HIDE DEF d, n
  <2>3. asked # <<>> /\ n \in DOMAIN asked /\ d \in DOMAIN asked /\ DOMAIN frames \subseteq DOMAIN asked
    BY <1>2, <1>3, <2>2 DEF n
  <2>4. /\ DOMAIN Front(asked) = 1 .. n - 1 /\ Last(asked) = asked[n]
        /\ \A i \in DOMAIN Front(asked) : Front(asked)[i] = asked[i]
    BY <1>3, <2>3, FrontLast DEF n
  <2>5. d \in DOMAIN Front(asked) /\ Front(asked)[d] = Top.act
    BY <1>2, <1>3, <2>2, <2>3, <2>4
  <2>6. ASSUME NEW i \in DOMAIN frames PROVE frames[i].act # Last(asked)
    <3>1. i \in DOMAIN asked /\ frames[i].act = asked[i] /\ i < n
      BY <1>2, <1>3, <2>2, <2>3, <2>6
    <3>2. asked[i] < asked[n] /\ asked[i] \in Nat /\ asked[n] \in Nat
      BY <1>3, <1>4, <2>3, <3>1
    <3> QED BY <2>4, <3>1, <3>2
  <2>7. Last(asked) \notin Activations
    BY <2>6 DEF Activations
  <2> QED BY <2>5, <2>7 DEF Range
<1> QED BY <1>6, <1>7

\* A step over and a step out pause where they should (the hook in vm_execute.c), though
\* they compare numbers of frames, whatever is called, returned and thrown in between.
THEOREM StepsStopRightly == Spec => []StepsStop
<1>1. Init => Asked
  BY AskedInit
<1>2. Core /\ Asked /\ [Next]_vars => Asked'
  BY AskedStep
<1>3. Core /\ Asked => StepsStop
  BY AskedStops
<1> QED BY <1>1, <1>2, <1>3, CoreKeptInvariance, PTL DEF Spec

\* All of the invariant.
THEOREM Invariance == Spec => []IInv
<1>1. Init => IInv
  BY CoreInit, KeptInit, AskedInit, CountedInit DEF IInv
<1>2. IInv /\ [Next]_vars => IInv'
  BY CoreStep, KeptStep, AskedStep, CountedStep DEF IInv
<1> QED BY <1>1, <1>2, PTL DEF Spec

\* The hits of a breakpoint are the visits of its line since it was set
\* (vm_should_pause_for_breakpoint), as its conditions take them to be.
THEOREM HitsCountVisits == Spec => []HitsAreVisits
<1>1. IInv => HitsAreVisits
  BY DEF IInv, Counted, HitsAreVisits
<1> QED BY <1>1, Invariance, PTL
=============================================================================
