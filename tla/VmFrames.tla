------------------------------ MODULE VmFrames ------------------------------
(* Proofs about the frames and the handlers of Vm, for every set of         *)
(* closures, upvalues, values and programs, and for every limit, of         *)
(* programs that return from no try block.  Whatever else a program does to *)
(* captured variables, and whatever is in its slots, its frames lie one     *)
(* above the other, each in its own code, and the handlers are theirs.      *)
EXTENDS Vm, TLAPS

-----------------------------------------------------------------------------
(* The inductive invariant.                                                *)

\* A sequence, of any values.
Line(s) == \E S : s \in Seq(S)

Recorded == frames \in Seq(Frame) /\ handlers \in Seq(Handler)

Limits == Len(frames) <= FRAMES_MAX /\ Len(handlers) <= EXCEPTION_HANDLERS_MAX

\* A frame reaches up to slot n: its callee, and what its try blocks were entered over.
Extent(f, n) ==
    /\ f.slots <= n
    /\ \A k \in DOMAIN f.ip.tries : f.slots + f.ip.tries[k] - 1 <= n

\* Try blocks nest: an inner one was entered over at least as many slots.
Rise(t) ==
    /\ \A k \in DOMAIN t : t[k] >= 1
    /\ \A k, l \in DOMAIN t : k < l => t[k] <= t[l]

\* Frames fs lie one above the other, up to slot n.
Stacked(fs, n) ==
    /\ \A i \in DOMAIN fs : Rise(fs[i].ip.tries) /\ Extent(fs[i], n)
    /\ \A i, j \in DOMAIN fs : i < j => Extent(fs[i], fs[j].slots - 1)

Reaches(i, n) == Extent(frames[i], n)
Nest == Stacked(frames, Len(stack))

\* Handler h is that of the k-th try block of frame i, f: it goes on where that began.
Handles(h, f, i, k) ==
    /\ h.frameIndex = i /\ h.stackTop = f.slots + f.ip.tries[k] - 1
    /\ h.catchIp = [code |-> f.closure, tries |-> SubSeq(f.ip.tries, 1, k - 1)]

\* Handlers hs are those of frames fs, first[i] the first one of frame i.
From(first, fs, hs) ==
    /\ first \in [1 .. Len(fs) + 1 -> 1 .. Len(hs) + 1]
    /\ first[1] = 1 /\ first[Len(fs) + 1] = Len(hs) + 1
    /\ \A i \in DOMAIN fs :
          /\ first[i + 1] = first[i] + Len(fs[i].ip.tries)
          /\ \A k \in DOMAIN fs[i].ip.tries : Handles(hs[first[i] + k - 1], fs[i], i, k)
    /\ \A i, j \in 1 .. Len(fs) + 1 : i < j => first[i] <= first[j]
    /\ \A m \in DOMAIN hs : \E i \in DOMAIN fs : first[i] <= m /\ m < first[i + 1]
Matched(fs, hs) == \E first : From(first, fs, hs)
Handling == Matched(frames, handlers)

Laid == Line(stack) /\ Recorded /\ Limits /\ OwnCode /\ Nest /\ Handling

-----------------------------------------------------------------------------
(* Sequences.                                                              *)

LEMMA TopOrUnder ==
    ASSUME NEW n \in Nat, NEW i \in 1 .. n
    PROVE  i = n \/ i < n
OBVIOUS

LEMMA Within ==
    ASSUME NEW a \in Nat, NEW l \in Nat, NEW m \in Nat, NEW k \in 1 .. l, 1 <= a, a + l <= m + 1
    PROVE  a + k - 1 \in 1 .. m
OBVIOUS

\* A sequence over a set is a sequence over a larger set.
LEMMA SeqMono ==
    ASSUME NEW S, NEW T, S \subseteq T, NEW s \in Seq(S)
    PROVE  s \in Seq(T)
OBVIOUS

LEMMA SeqElement ==
    ASSUME NEW S, NEW s \in Seq(S)
    PROVE  /\ Len(s) \in Nat /\ DOMAIN s = 1 .. Len(s)
           /\ \A i \in 1 .. Len(s) : s[i] \in S
OBVIOUS

\* The top of a stack, and what is under it.
LEMMA SeqEnds ==
    ASSUME NEW S, NEW s \in Seq(S), s # <<>>
    PROVE  /\ Len(s) \in Nat /\ Len(s) >= 1 /\ DOMAIN s = 1 .. Len(s)
           /\ Last(s) = s[Len(s)] /\ Last(s) \in S
           /\ Front(s) \in Seq(S) /\ Len(Front(s)) = Len(s) - 1
           /\ \A i \in 1 .. Len(s) - 1 : Front(s)[i] = s[i]
<1>1. Len(s) \in Nat /\ DOMAIN s = 1 .. Len(s)
  OBVIOUS
<1>2. Len(s) # 0
  OBVIOUS
<1>3. s[Len(s)] \in S
  BY <1>1, <1>2
<1>4. /\ SubSeq(s, 1, Len(s) - 1) \in Seq(S) /\ Len(SubSeq(s, 1, Len(s) - 1)) = Len(s) - 1
      /\ \A i \in 1 .. Len(s) - 1 : SubSeq(s, 1, Len(s) - 1)[i] = s[i]
  BY <1>1, <1>2
<1> QED BY <1>1, <1>2, <1>3, <1>4 DEF Last, Front

\* A push.
LEMMA SeqAppend ==
    ASSUME NEW S, NEW s \in Seq(S), NEW v \in S
    PROVE  /\ Append(s, v) \in Seq(S) /\ Len(Append(s, v)) = Len(s) + 1
           /\ DOMAIN Append(s, v) = 1 .. Len(s) + 1
           /\ \A i \in 1 .. Len(s) : Append(s, v)[i] = s[i]
           /\ Append(s, v)[Len(s) + 1] = v
OBVIOUS

\* A stack cut to a height.
LEMMA SeqPrefix ==
    ASSUME NEW S, NEW s \in Seq(S), NEW n \in Nat, n <= Len(s)
    PROVE  /\ SubSeq(s, 1, n) \in Seq(S) /\ Len(SubSeq(s, 1, n)) = n
           /\ DOMAIN SubSeq(s, 1, n) = 1 .. n
           /\ \A i \in 1 .. n : SubSeq(s, 1, n)[i] = s[i]
OBVIOUS

\* A slot that is set.
LEMMA SeqExcept ==
    ASSUME NEW S, NEW s \in Seq(S), NEW v \in S, NEW n \in 1 .. Len(s)
    PROVE  /\ [s EXCEPT ![n] = v] \in Seq(S) /\ Len([s EXCEPT ![n] = v]) = Len(s)
           /\ DOMAIN [s EXCEPT ![n] = v] = 1 .. Len(s)
           /\ [s EXCEPT ![n] = v][n] = v
           /\ \A i \in 1 .. Len(s) : i # n => [s EXCEPT ![n] = v][i] = s[i]
OBVIOUS

LEMMA SeqSame ==
    ASSUME NEW S, NEW s \in Seq(S), NEW t \in Seq(S), Len(s) = Len(t),
           \A i \in 1 .. Len(s) : s[i] = t[i]
    PROVE  s = t
OBVIOUS

\* What is on top is replaced.
LEMMA SeqTop ==
    ASSUME NEW S, NEW s \in Seq(S), s # <<>>, NEW v \in S
    PROVE  [s EXCEPT ![Len(s)] = v] = Append(SubSeq(s, 1, Len(s) - 1), v)
<1>1. Len(s) \in Nat /\ Len(s) >= 1 /\ Len(s) - 1 \in Nat /\ Len(s) - 1 <= Len(s)
  BY SeqEnds
<1> DEFINE t == [s EXCEPT ![Len(s)] = v]
           low == SubSeq(s, 1, Len(s) - 1)
<1>2. /\ t \in Seq(S) /\ DOMAIN t = 1 .. Len(s) /\ t[Len(s)] = v /\ Len(t) = Len(s)
      /\ \A i \in 1 .. Len(s) : i # Len(s) => t[i] = s[i]
  BY <1>1, SeqExcept
<1>3. low \in Seq(S) /\ Len(low) = Len(s) - 1 /\ \A i \in 1 .. Len(s) - 1 : low[i] = s[i]
  BY <1>1, SeqPrefix
<1> DEFINE u == Append(low, v)
<1>4. /\ u \in Seq(S) /\ u[Len(s)] = v /\ Len(u) = Len(s)
      /\ \A i \in 1 .. Len(s) - 1 : u[i] = s[i]
  <2> HIDE DEF low
  <2> QED BY <1>1, <1>3, SeqAppend
<1> HIDE DEF t, low, u
<1>5. ASSUME NEW i \in 1 .. Len(s) PROVE t[i] = u[i]
  <2>1. CASE i = Len(s)
    BY <1>2, <1>4, <2>1
  <2>2. CASE i # Len(s)
    <3>1. i \in 1 .. Len(s) - 1
      BY <1>1, <2>2
    <3> QED BY <1>2, <1>4, <2>2, <3>1
  <2> QED BY <2>1, <2>2
<1>6. t = u
  BY <1>2, <1>4, <1>5, SeqSame
<1> QED BY <1>6 DEF t, low, u

\* Values moved down onto a cut stack.
LEMMA SeqMove ==
    ASSUME NEW S, NEW s \in Seq(S), NEW n \in Nat, n < Len(s), NEW low \in Seq(S)
    PROVE  /\ low \o SubSeq(s, Len(s) - n, Len(s)) \in Seq(S)
           /\ Len(low \o SubSeq(s, Len(s) - n, Len(s))) = Len(low) + n + 1
<1>1. Len(s) \in Nat /\ Len(s) - n >= 1 /\ Len(s) - n \in Nat
  BY SeqElement
<1>2. /\ SubSeq(s, Len(s) - n, Len(s)) \in Seq(S)
      /\ Len(SubSeq(s, Len(s) - n, Len(s))) = n + 1
  BY <1>1
<1>3. Len(low) \in Nat
  OBVIOUS
<1> QED BY <1>2, <1>3

-----------------------------------------------------------------------------
(* Frames and their handlers.                                              *)

LEMMA FrameFacts ==
    ASSUME NEW f \in Frame
    PROVE  /\ f.slots \in Nat /\ f.slots >= 1 /\ f.ip.tries \in Seq(Nat)
           /\ Len(f.ip.tries) \in Nat /\ DOMAIN f.ip.tries = 1 .. Len(f.ip.tries)
           /\ \A k \in DOMAIN f.ip.tries : f.ip.tries[k] \in Nat
<1>1. f.slots \in Nat /\ f.slots >= 1 /\ f.ip.tries \in Seq(Nat)
  BY DEF Frame, Ip
<1> QED BY <1>1, SeqElement

LEMMA FrameUpdate ==
    ASSUME NEW f \in Frame, NEW p
    PROVE  /\ [f EXCEPT !.ip = p] = [closure |-> f.closure, ip |-> p, slots |-> f.slots]
           /\ [f EXCEPT !.ip.tries = p] =
                 [closure |-> f.closure, ip |-> [code |-> f.ip.code, tries |-> p], slots |-> f.slots]
<1>1. f = [closure |-> f.closure, ip |-> f.ip, slots |-> f.slots]
  BY DEF Frame
<1>2. f.ip = [code |-> f.ip.code, tries |-> f.ip.tries]
  BY DEF Frame, Ip
<1>3. [f.ip EXCEPT !.tries = p] = [code |-> f.ip.code, tries |-> p]
  BY <1>2
<1> QED BY <1>1, <1>3

\* A frame that reaches up to a slot reaches up to every higher one.
LEMMA ExtentUp ==
    ASSUME NEW f \in Frame, NEW m \in Int, NEW n \in Int, m <= n, Extent(f, m)
    PROVE  Extent(f, n)
<1>1. /\ f.slots \in Nat /\ f.slots <= m
      /\ \A k \in DOMAIN f.ip.tries : f.ip.tries[k] \in Nat /\ f.slots + f.ip.tries[k] - 1 <= m
  BY FrameFacts DEF Extent
<1>2. ASSUME NEW a \in Int, a <= m PROVE a <= n
  BY <1>2
<1>3. \A k \in DOMAIN f.ip.tries : f.slots + f.ip.tries[k] - 1 \in Int
  BY <1>1
<1> QED BY <1>1, <1>2, <1>3 DEF Extent

LEMMA StackedUp ==
    ASSUME NEW fs \in Seq(Frame), NEW m \in Int, NEW n \in Int, m <= n, Stacked(fs, m)
    PROVE  Stacked(fs, n)
<1>1. \A i \in DOMAIN fs : fs[i] \in Frame
  BY SeqElement
<1> QED BY <1>1, ExtentUp DEF Stacked

\* Frames that are left when those above are popped.
LEMMA StackedCut ==
    ASSUME NEW fs \in Seq(Frame), NEW m \in Int, Stacked(fs, m), NEW k \in Nat, k < Len(fs)
    PROVE  Stacked(SubSeq(fs, 1, k), fs[k + 1].slots - 1)
<1> DEFINE cut == SubSeq(fs, 1, k)
<1>1. Len(fs) \in Nat /\ DOMAIN fs = 1 .. Len(fs)
  BY SeqElement
<1>2. DOMAIN cut = 1 .. k /\ \A i \in 1 .. k : cut[i] = fs[i]
  BY <1>1, SeqPrefix
<1>3. 1 .. k \subseteq DOMAIN fs /\ k + 1 \in DOMAIN fs /\ \A i \in 1 .. k : i < k + 1
  BY <1>1
<1> HIDE DEF cut
<1>4. Stacked(cut, fs[k + 1].slots - 1)
  BY <1>2, <1>3 DEF Stacked
<1> QED BY <1>4 DEF cut

\* A frame on top of the others.
LEMMA StackedPush ==
    ASSUME NEW fs \in Seq(Frame), NEW f \in Frame, Stacked(fs, f.slots - 1),
           NEW n \in Int, f.slots - 1 <= n, Extent(f, n), Rise(f.ip.tries)
    PROVE  Stacked(Append(fs, f), n)
<1> DEFINE all == Append(fs, f)
<1>1. Len(fs) \in Nat /\ DOMAIN fs = 1 .. Len(fs) /\ \A i \in 1 .. Len(fs) : fs[i] \in Frame
  BY SeqElement
<1>2. DOMAIN all = 1 .. Len(fs) + 1 /\ all[Len(fs) + 1] = f
      /\ \A i \in 1 .. Len(fs) : all[i] = fs[i]
  BY SeqAppend
<1>3. \A i \in 1 .. Len(fs) : Rise(fs[i].ip.tries) /\ Extent(fs[i], f.slots - 1) /\ Extent(fs[i], n)
  BY <1>1, FrameFacts, ExtentUp DEF Stacked
<1> HIDE DEF all
<1>4. \A i \in DOMAIN all : Rise(all[i].ip.tries) /\ Extent(all[i], n)
  BY <1>1, <1>2, <1>3
<1>5. \A i, j \in DOMAIN all : i < j => Extent(all[i], all[j].slots - 1)
  BY <1>1, <1>2, <1>3 DEF Stacked
<1>6. Stacked(all, n)
  BY <1>4, <1>5 DEF Stacked
<1> QED BY <1>6 DEF all

LEMMA FromFacts ==
    ASSUME NEW fs \in Seq(Frame), NEW hs \in Seq(Handler), NEW first, From(first, fs, hs)
    PROVE  /\ Len(fs) \in Nat /\ DOMAIN fs = 1 .. Len(fs)
           /\ Len(hs) \in Nat /\ DOMAIN hs = 1 .. Len(hs)
           /\ \A i \in 1 .. Len(fs) + 1 : first[i] \in Nat /\ 1 <= first[i] /\ first[i] <= Len(hs) + 1
           /\ first[1] = 1 /\ first[Len(fs) + 1] = Len(hs) + 1
           /\ \A i \in 1 .. Len(fs) :
                 /\ first[i + 1] = first[i] + Len(fs[i].ip.tries)
                 /\ \A k \in DOMAIN fs[i].ip.tries : Handles(hs[first[i] + k - 1], fs[i], i, k)
           /\ \A i, j \in 1 .. Len(fs) + 1 : i < j => first[i] <= first[j]
           /\ \A m \in 1 .. Len(hs) : \E i \in 1 .. Len(fs) : first[i] <= m /\ m < first[i + 1]
<1>1. /\ Len(fs) \in Nat /\ DOMAIN fs = 1 .. Len(fs)
      /\ Len(hs) \in Nat /\ DOMAIN hs = 1 .. Len(hs)
  BY SeqElement
<1>2. \A i \in 1 .. Len(fs) + 1 : first[i] \in 1 .. Len(hs) + 1
  BY <1>1 DEF From
<1>3. \A i \in 1 .. Len(fs) + 1 : first[i] \in Nat /\ 1 <= first[i] /\ first[i] <= Len(hs) + 1
  BY <1>1, <1>2
<1> QED BY <1>1, <1>3 DEF From

LEMMA MatchedNone == Matched(<<>>, <<>>)
<1> DEFINE first == [i \in 1 .. 1 |-> 1]
<1>1. From(first, <<>>, <<>>)
  BY DEF From
<1> QED BY <1>1 DEF Matched

\* Frames in no try block can be popped.
LEMMA MatchedCut ==
    ASSUME NEW fs \in Seq(Frame), NEW hs \in Seq(Handler), Matched(fs, hs),
           NEW k \in Nat, k <= Len(fs),
           \A i \in k + 1 .. Len(fs) : fs[i].ip.tries = <<>>
    PROVE  Matched(SubSeq(fs, 1, k), hs)
<1> DEFINE cut == SubSeq(fs, 1, k)
<1>1. Len(fs) \in Nat /\ DOMAIN fs = 1 .. Len(fs) /\ Len(hs) \in Nat /\ k \in Nat
  BY SeqElement
<1>2. DOMAIN cut = 1 .. k /\ Len(cut) = k /\ \A i \in 1 .. k : cut[i] = fs[i]
  BY <1>1, SeqPrefix
<1>3. PICK first : From(first, fs, hs)
  BY DEF Matched
<1>4. /\ first \in [1 .. Len(fs) + 1 -> 1 .. Len(hs) + 1]
      /\ first[1] = 1 /\ first[Len(fs) + 1] = Len(hs) + 1
      /\ \A i, j \in 1 .. Len(fs) + 1 : i < j => first[i] <= first[j]
      /\ \A m \in DOMAIN hs : \E i \in DOMAIN fs : first[i] <= m /\ m < first[i + 1]
      /\ \A i \in DOMAIN fs : first[i + 1] = first[i] + Len(fs[i].ip.tries)
  BY <1>3 DEF From
<1>5. first[k + 1] = Len(hs) + 1
  <2>1. SUFFICES ASSUME first[k + 1] # Len(hs) + 1 PROVE FALSE
    OBVIOUS
  <2>2. first[k + 1] \in 1 .. Len(hs)
    BY <1>1, <1>4, <2>1
  <2>3. Len(hs) \in DOMAIN hs
    BY <1>1, <2>2, SeqElement
  <2>4. PICK i \in DOMAIN fs : first[i] <= Len(hs) /\ Len(hs) < first[i + 1]
    BY <1>4, <2>3
  <2>5. first[i] \in Int /\ first[i + 1] = first[i] + Len(fs[i].ip.tries)
    BY <1>1, <1>4
  <2>6. CASE i > k
    <3>1. Len(fs[i].ip.tries) = 0
      BY <1>1, <2>6
    <3> QED BY <1>1, <2>4, <2>5, <3>1
  <2>7. CASE i <= k
    <3>1. first[i + 1] <= first[k + 1]
      <4>1. i \in Nat /\ (i = k \/ i + 1 < k + 1) /\ i + 1 \in 1 .. Len(fs) + 1
        BY <1>1, <2>7
      <4>2. first[k + 1] \in Int /\ k + 1 \in 1 .. Len(fs) + 1
        BY <1>1, <2>2
      <4> QED BY <1>4, <4>1, <4>2
    <3> QED BY <1>1, <2>2, <2>4, <2>5, <2>7, <3>1
  <2> QED BY <1>1, <2>6, <2>7
<1> DEFINE before == [i \in 1 .. k + 1 |-> first[i]]
<1>9. 1 .. k + 1 \subseteq 1 .. Len(fs) + 1
  BY <1>1
<1>6. /\ before \in [1 .. k + 1 -> 1 .. Len(hs) + 1]
      /\ \A i \in 1 .. k + 1 : before[i] = first[i]
  BY <1>4, <1>9
<1> HIDE DEF before, cut
<1>7. From(before, cut, hs)
  <2>1. before[1] = 1 /\ before[k + 1] = Len(hs) + 1
    BY <1>1, <1>4, <1>5, <1>6
  <2>2. \A i \in DOMAIN cut :
          /\ before[i + 1] = before[i] + Len(cut[i].ip.tries)
          /\ \A l \in DOMAIN cut[i].ip.tries : Handles(hs[before[i] + l - 1], cut[i], i, l)
    <3>1. ASSUME NEW i \in 1 .. k
          PROVE  /\ i \in 1 .. Len(fs) /\ cut[i] = fs[i] /\ before[i] = first[i]
                 /\ before[i + 1] = first[i + 1]
      BY <1>1, <1>2, <1>6
    <3>2. \A i \in 1 .. Len(fs) :
            /\ first[i + 1] = first[i] + Len(fs[i].ip.tries)
            /\ \A l \in DOMAIN fs[i].ip.tries : Handles(hs[first[i] + l - 1], fs[i], i, l)
      BY <1>3, FromFacts
    <3> QED BY <1>2, <3>1, <3>2
  <2>3. \A i, j \in 1 .. k + 1 : i < j => before[i] <= before[j]
    BY <1>1, <1>4, <1>6
  <2>4. \A m \in DOMAIN hs : \E i \in DOMAIN cut : before[i] <= m /\ m < before[i + 1]
    <3>1. ASSUME NEW m \in DOMAIN hs
          PROVE  \E i \in DOMAIN cut : before[i] <= m /\ m < before[i + 1]
      <4>1. PICK i \in 1 .. Len(fs) : first[i] <= m /\ m < first[i + 1]
        BY <1>3, FromFacts
      <4>2. m <= Len(hs) /\ m \in Nat
        BY <1>3, FromFacts
      <4>3. i <= k
        <5>1. SUFFICES ASSUME i >= k + 1 PROVE FALSE
          BY <1>1
        <5>2. first[k + 1] <= first[i]
          <6>1. CASE i = k + 1
            BY <1>1, <1>5, <6>1
          <6>2. CASE i > k + 1
            BY <1>1, <1>4, <6>2
          <6> QED BY <1>1, <5>1, <6>1, <6>2
        <5>3. first[i] \in Nat
          BY <1>1, <1>3, FromFacts
        <5> QED BY <1>1, <1>5, <4>1, <4>2, <5>2, <5>3
      <4>4. i \in DOMAIN cut /\ before[i] = first[i] /\ before[i + 1] = first[i + 1]
        BY <1>1, <1>2, <1>6, <4>3
      <4> QED BY <4>1, <4>4
    <3> QED BY <3>1
  <2> QED BY <1>2, <1>6, <2>1, <2>2, <2>3, <2>4 DEF From
<1>8. Matched(cut, hs)
  BY <1>7 DEF Matched
<1> QED BY <1>8 DEF cut

\* The handlers of the frame on top are the last ones.
LEMMA MatchedTop ==
    ASSUME NEW fs \in Seq(Frame), NEW f \in Frame, NEW hs \in Seq(Handler),
           NEW m \in Nat, Len(hs) = m + Len(f.ip.tries)
    PROVE  Matched(Append(fs, f), hs) <=>
              /\ Matched(fs, SubSeq(hs, 1, m))
              /\ \A k \in DOMAIN f.ip.tries : Handles(hs[m + k], f, Len(fs) + 1, k)
<1> DEFINE all == Append(fs, f)
           low == SubSeq(hs, 1, m)
           n == Len(fs)
<1>1. /\ n \in Nat /\ DOMAIN fs = 1 .. n /\ Len(hs) \in Nat /\ m <= Len(hs)
      /\ Len(f.ip.tries) \in Nat /\ DOMAIN f.ip.tries = 1 .. Len(f.ip.tries)
      /\ DOMAIN hs = 1 .. Len(hs)
  BY SeqElement, FrameFacts
<1>6. Len(hs) + 1 = (m + 1) + Len(f.ip.tries)
  <2> DEFINE l == Len(f.ip.tries)
  <2>1. l \in Nat /\ Len(hs) = m + l
    BY <1>1
  <2> HIDE DEF l
  <2>2. Len(hs) + 1 = (m + 1) + l
    BY <2>1
  <2> QED BY <2>2 DEF l
<1>2. /\ all \in Seq(Frame) /\ Len(all) = n + 1 /\ all[n + 1] = f
      /\ \A i \in 1 .. n : all[i] = fs[i]
  BY SeqAppend
<1>3. low \in Seq(Handler) /\ Len(low) = m /\ \A j \in 1 .. m : low[j] = hs[j]
  BY <1>1, SeqPrefix
<1> HIDE DEF all, low, n
<1>4. ASSUME Matched(all, hs)
      PROVE  /\ Matched(fs, low)
             /\ \A k \in DOMAIN f.ip.tries : Handles(hs[m + k], f, n + 1, k)
  <2>1. PICK first : From(first, all, hs)
    BY <1>4 DEF Matched
  <2>2. /\ \A i \in 1 .. n + 2 : first[i] \in Nat /\ 1 <= first[i]
        /\ first[1] = 1 /\ first[n + 2] = Len(hs) + 1
        /\ \A i \in 1 .. n + 1 :
              /\ first[i + 1] = first[i] + Len(all[i].ip.tries)
              /\ \A k \in DOMAIN all[i].ip.tries : Handles(hs[first[i] + k - 1], all[i], i, k)
        /\ \A i, j \in 1 .. n + 2 : i < j => first[i] <= first[j]
        /\ \A j \in 1 .. Len(hs) : \E i \in 1 .. n + 1 : first[i] <= j /\ j < first[i + 1]
    <3>1. Len(all) + 1 = n + 2 /\ Len(all) = n + 1
      BY <1>1, <1>2
    <3>2. /\ \A i \in 1 .. Len(all) + 1 : first[i] \in Nat /\ 1 <= first[i]
          /\ first[1] = 1 /\ first[Len(all) + 1] = Len(hs) + 1
          /\ \A i \in 1 .. Len(all) :
                /\ first[i + 1] = first[i] + Len(all[i].ip.tries)
                /\ \A k \in DOMAIN all[i].ip.tries : Handles(hs[first[i] + k - 1], all[i], i, k)
          /\ \A i, j \in 1 .. Len(all) + 1 : i < j => first[i] <= first[j]
          /\ \A j \in 1 .. Len(hs) : \E i \in 1 .. Len(all) : first[i] <= j /\ j < first[i + 1]
      BY <1>2, <2>1, FromFacts
    <3> QED BY <3>1, <3>2
  <2>3. n + 1 \in 1 .. n + 1 /\ first[n + 1] \in Nat /\ (n + 1) + 1 = n + 2
    BY <1>1, <2>2
  <2>4. first[n + 1] = m + 1
    <3>1. first[(n + 1) + 1] = first[n + 1] + Len(f.ip.tries)
      BY <1>2, <2>2, <2>3
    <3>2. first[n + 1] + Len(f.ip.tries) = Len(hs) + 1
      BY <2>2, <2>3, <3>1
    <3> DEFINE a == first[n + 1]
               l == Len(f.ip.tries)
    <3>3. a \in Nat /\ l \in Nat /\ a + l = (m + 1) + l
      BY <1>1, <1>6, <2>3, <3>2
    <3> HIDE DEF a, l
    <3>4. a = m + 1
      BY <3>3
    <3> QED BY <3>4 DEF a
  <2>5. \A k \in DOMAIN f.ip.tries : Handles(hs[m + k], f, n + 1, k)
    <3>1. \A k \in DOMAIN f.ip.tries : first[n + 1] + k - 1 = m + k
      BY <1>1, <2>4
    <3> QED BY <1>2, <2>2, <2>3, <3>1
  <2> DEFINE before == [i \in 1 .. n + 1 |-> first[i]]
  <2>6. \A i \in 1 .. n + 1 : before[i] = first[i]
    OBVIOUS
  <2>7. ASSUME NEW i \in 1 .. n + 1 PROVE first[i] \in 1 .. m + 1
    <3>1. i = n + 1 \/ i < n + 1
      BY <1>1
    <3>2. first[i] <= first[n + 1] /\ first[i] \in Nat /\ 1 <= first[i]
      <4>1. i \in 1 .. n + 2 /\ n + 1 \in 1 .. n + 2
        BY <1>1
      <4>2. first[i] \in Nat /\ 1 <= first[i] /\ (i < n + 1 => first[i] <= first[n + 1])
        BY <2>2, <4>1
      <4>3. CASE i = n + 1
        BY <4>2, <4>3
      <4> QED BY <3>1, <4>2, <4>3
    <3> QED BY <2>4, <3>2
  <2>8. before \in [1 .. n + 1 -> 1 .. m + 1]
    BY <2>7
  <2> HIDE DEF before
  <2>9. ASSUME NEW i \in DOMAIN fs
        PROVE  /\ before[i + 1] = before[i] + Len(fs[i].ip.tries)
               /\ \A k \in DOMAIN fs[i].ip.tries : Handles(low[before[i] + k - 1], fs[i], i, k)
    <3>1. i \in 1 .. n + 1 /\ i + 1 \in 1 .. n + 1 /\ i \in 1 .. n
      BY <1>1
    <3>2. /\ before[i + 1] = before[i] + Len(fs[i].ip.tries)
          /\ \A k \in DOMAIN fs[i].ip.tries : Handles(hs[before[i] + k - 1], fs[i], i, k)
      BY <1>2, <2>2, <2>6, <3>1
    <3>3. fs[i] \in Frame
      BY SeqElement
    <3>4. ASSUME NEW k \in DOMAIN fs[i].ip.tries PROVE before[i] + k - 1 \in 1 .. m
      <4>1. k \in 1 .. Len(fs[i].ip.tries) /\ Len(fs[i].ip.tries) \in Nat
        BY <3>3, FrameFacts
      <4>2. before[i + 1] \in 1 .. m + 1 /\ before[i] \in 1 .. m + 1
        BY <2>8, <3>1
      <4>3. before[i] + Len(fs[i].ip.tries) <= m + 1 /\ before[i] \in Nat /\ 1 <= before[i]
        BY <3>2, <4>2
      <4> QED BY <4>1, <4>3, Within
    <3> QED BY <1>3, <3>2, <3>4
  <2>10. ASSUME NEW j \in DOMAIN low
         PROVE  \E i \in DOMAIN fs : before[i] <= j /\ j < before[i + 1]
    <3>1. j \in 1 .. m /\ j \in 1 .. Len(hs)
      BY <1>1, <1>3, SeqElement
    <3>2. PICK i \in 1 .. n + 1 : first[i] <= j /\ j < first[i + 1]
      BY <2>2, <3>1
    <3>3. i # n + 1
      BY <2>4, <3>1, <3>2
    <3>4. i \in 1 .. n /\ i + 1 \in 1 .. n + 1
      BY <1>1, <3>3
    <3> QED BY <1>1, <2>6, <3>2, <3>4
  <2>11. before[1] = 1 /\ before[n + 1] = m + 1
    BY <1>1, <2>2, <2>4, <2>6
  <2>12. \A i, j \in 1 .. n + 1 : i < j => before[i] <= before[j]
    BY <1>1, <2>2, <2>6
  <2>13. From(before, fs, low)
    BY <1>3, <2>8, <2>9, <2>10, <2>11, <2>12 DEF From, n
  <2> QED BY <2>5, <2>13 DEF Matched
<1>5. ASSUME Matched(fs, low),
             \A k \in DOMAIN f.ip.tries : Handles(hs[m + k], f, n + 1, k)
      PROVE  Matched(all, hs)
  <2>1. PICK first : From(first, fs, low)
    BY <1>5 DEF Matched
  <2>2. /\ \A i \in 1 .. n + 1 : first[i] \in Nat /\ 1 <= first[i] /\ first[i] <= m + 1
        /\ first[1] = 1 /\ first[n + 1] = m + 1
        /\ \A i \in 1 .. n :
              /\ first[i + 1] = first[i] + Len(fs[i].ip.tries)
              /\ \A k \in DOMAIN fs[i].ip.tries : Handles(low[first[i] + k - 1], fs[i], i, k)
        /\ \A i, j \in 1 .. n + 1 : i < j => first[i] <= first[j]
        /\ \A j \in 1 .. m : \E i \in 1 .. n : first[i] <= j /\ j < first[i + 1]
    BY <1>3, <2>1, FromFacts DEF n
  <2> DEFINE after == [i \in 1 .. n + 2 |-> IF i = n + 2 THEN Len(hs) + 1 ELSE first[i]]
  <2>3. /\ \A i \in 1 .. n + 1 : after[i] = first[i]
        /\ after[n + 2] = Len(hs) + 1
    BY <1>1
  <2>4. \A i \in 1 .. n + 1 : first[i] \in 1 .. Len(hs) + 1
    BY <1>1, <2>2
  <2>5. after \in [1 .. n + 2 -> 1 .. Len(hs) + 1]
    <3>1. ASSUME NEW i \in 1 .. n + 2 PROVE after[i] \in 1 .. Len(hs) + 1
      <4>1. CASE i = n + 2
        BY <1>1, <2>3, <4>1
      <4>2. CASE i # n + 2
        <5>1. i \in 1 .. n + 1
          BY <1>1, <4>2
        <5> QED BY <2>3, <2>4, <5>1
      <4> QED BY <4>1, <4>2
    <3> QED BY <3>1
  <2> HIDE DEF after
  <2>6. ASSUME NEW i \in 1 .. n + 1
        PROVE  /\ after[i + 1] = after[i] + Len(all[i].ip.tries)
               /\ \A k \in DOMAIN all[i].ip.tries : Handles(hs[after[i] + k - 1], all[i], i, k)
    <3>1. CASE i = n + 1
      <4>1. after[i] = m + 1 /\ after[i + 1] = Len(hs) + 1 /\ all[i] = f
        BY <1>1, <1>2, <2>2, <2>3, <3>1
      <4>2. \A k \in DOMAIN f.ip.tries : after[i] + k - 1 = m + k
        BY <1>1, <4>1
      <4>3. \A k \in DOMAIN f.ip.tries : Handles(hs[after[i] + k - 1], f, n + 1, k)
        BY <1>5, <4>2
      <4> QED BY <1>6, <3>1, <4>1, <4>3
    <3>2. CASE i # n + 1
      <4>1. i \in 1 .. n /\ i + 1 \in 1 .. n + 1 /\ all[i] = fs[i] /\ i \in DOMAIN fs
        BY <1>1, <1>2, <3>2
      <4>2. after[i] = first[i] /\ after[i + 1] = first[i + 1] /\ fs[i] \in Frame
        BY <2>3, <4>1, SeqElement
      <4>3. ASSUME NEW k \in DOMAIN fs[i].ip.tries PROVE first[i] + k - 1 \in 1 .. m
        <5>1. k \in 1 .. Len(fs[i].ip.tries) /\ Len(fs[i].ip.tries) \in Nat
          BY <4>2, FrameFacts
        <5>2. first[i + 1] <= m + 1 /\ first[i] \in Nat /\ 1 <= first[i]
              /\ first[i + 1] = first[i] + Len(fs[i].ip.tries)
          BY <2>2, <4>1
        <5>3. first[i] + Len(fs[i].ip.tries) <= m + 1
          BY <5>2
        <5> QED BY <5>1, <5>2, <5>3, Within
      <4> QED BY <1>3, <2>2, <4>1, <4>2, <4>3
    <3> QED BY <3>1, <3>2
  <2>7. ASSUME NEW i \in 1 .. n + 2, NEW j \in 1 .. n + 2, i < j PROVE after[i] <= after[j]
    <3>1. i \in 1 .. n + 1 /\ after[i] = first[i] /\ first[i] <= Len(hs) + 1
      BY <1>1, <2>3, <2>4, <2>7
    <3>2. CASE j = n + 2
      BY <2>3, <3>1, <3>2
    <3>3. CASE j # n + 2
      <4>1. j \in 1 .. n + 1
        BY <1>1, <3>3
      <4> QED BY <2>2, <2>3, <2>7, <3>1, <4>1
    <3> QED BY <3>2, <3>3
  <2>8. ASSUME NEW j \in 1 .. Len(hs)
        PROVE  \E i \in 1 .. n + 1 : after[i] <= j /\ j < after[i + 1]
    <3>1. CASE j \in 1 .. m
      <4>1. PICK i \in 1 .. n : first[i] <= j /\ j < first[i + 1]
        BY <2>2, <3>1
      <4>2. i \in 1 .. n + 1 /\ i + 1 \in 1 .. n + 1
        BY <1>1
      <4> QED BY <2>3, <4>1, <4>2
    <3>2. CASE j \notin 1 .. m
      <4>1. n + 1 \in 1 .. n + 1 /\ (n + 1) + 1 = n + 2
        BY <1>1
      <4>2. after[n + 1] <= j /\ j < after[(n + 1) + 1]
        BY <1>1, <2>2, <2>3, <3>2, <4>1
      <4> QED BY <4>1, <4>2
    <3> QED BY <3>1, <3>2
  <2>9. DOMAIN all = 1 .. n + 1 /\ Len(all) + 1 = n + 2 /\ after[1] = 1
    BY <1>1, <1>2, <2>2, <2>3, SeqElement
  <2>10. From(after, all, hs)
    BY <1>1, <2>3, <2>5, <2>6, <2>7, <2>8, <2>9 DEF From
  <2> QED BY <2>10 DEF Matched
<1> QED BY <1>4, <1>5 DEF all, low, n

\* A frame in no try block has no handler.
LEMMA MatchedPush ==
    ASSUME NEW fs \in Seq(Frame), NEW hs \in Seq(Handler), NEW f \in Frame,
           f.ip.tries = <<>>, Matched(fs, hs)
    PROVE  Matched(Append(fs, f), hs)
<1>1. Len(hs) \in Nat /\ SubSeq(hs, 1, Len(hs)) = hs
  OBVIOUS
<1>2. Len(f.ip.tries) = 0 /\ DOMAIN f.ip.tries = {}
  OBVIOUS
<1> DEFINE m == Len(hs)
<1>3. m \in Nat /\ Len(hs) = m /\ Matched(fs, SubSeq(hs, 1, m))
  BY <1>1
<1> HIDE DEF m
<1>4. m = m + 0
  BY <1>3
<1>5. Len(hs) = m + Len(f.ip.tries)
  BY <1>2, <1>3, <1>4
<1> QED BY <1>2, <1>3, <1>5, MatchedTop

\* What a handler says of a try block does not depend on the ones inside it.
LEMMA HandlesSame ==
    ASSUME NEW f \in Frame, NEW g \in Frame, NEW h, NEW i, NEW k \in DOMAIN f.ip.tries,
           g.slots = f.slots, g.closure = f.closure, k \in DOMAIN g.ip.tries,
           \A l \in 1 .. k : g.ip.tries[l] = f.ip.tries[l]
    PROVE  Handles(h, f, i, k) <=> Handles(h, g, i, k)
<1>1. /\ f.ip.tries \in Seq(Nat) /\ g.ip.tries \in Seq(Nat)
      /\ k \in 1 .. Len(f.ip.tries) /\ k \in 1 .. Len(g.ip.tries)
      /\ Len(f.ip.tries) \in Nat /\ Len(g.ip.tries) \in Nat
  BY FrameFacts
<1> DEFINE t == SubSeq(f.ip.tries, 1, k - 1)
           r == SubSeq(g.ip.tries, 1, k - 1)
<1>2. k - 1 \in Nat /\ k - 1 <= Len(f.ip.tries) /\ k - 1 <= Len(g.ip.tries) /\ k \in 1 .. k
  BY <1>1, SMTT(30)
<1>3. t \in Seq(Nat) /\ Len(t) = k - 1 /\ \A l \in 1 .. k - 1 : t[l] = f.ip.tries[l]
  BY <1>1, <1>2, SeqPrefix, ZenonT(30)
<1>4. r \in Seq(Nat) /\ Len(r) = k - 1 /\ \A l \in 1 .. k - 1 : r[l] = g.ip.tries[l]
  BY <1>1, <1>2, SeqPrefix, ZenonT(30)
<1>5. \A l \in 1 .. k - 1 : l \in 1 .. k
  BY <1>2
<1> HIDE DEF t, r
<1>6. t = r
  BY <1>3, <1>4, <1>5, SeqSame
<1>7. SubSeq(f.ip.tries, 1, k - 1) = SubSeq(g.ip.tries, 1, k - 1)
  BY <1>6 DEF t, r
<1>8. g.ip.tries[k] = f.ip.tries[k]
  BY <1>2
<1> QED BY <1>7, <1>8 DEF Handles

\* OP_TRY: one more try block, one more handler.
LEMMA MatchedTry ==
    ASSUME NEW fs \in Seq(Frame), NEW f \in Frame, NEW g \in Frame, NEW hs \in Seq(Handler),
           NEW h \in Handler, NEW x \in Nat, Matched(Append(fs, f), hs), Len(f.ip.tries) <= Len(hs),
           g.slots = f.slots, g.closure = f.closure, g.ip.tries = Append(f.ip.tries, x),
           Handles(h, g, Len(fs) + 1, Len(f.ip.tries) + 1)
    PROVE  Matched(Append(fs, g), Append(hs, h))
<1> DEFINE l == Len(f.ip.tries)
           m == Len(hs) - l
           more == Append(hs, h)
<1>1. l \in Nat /\ Len(hs) \in Nat /\ m \in Nat /\ Len(hs) = m + l /\ m <= Len(hs)
      /\ f.ip.tries \in Seq(Nat) /\ DOMAIN f.ip.tries = 1 .. l
  BY FrameFacts
<1>2. Len(g.ip.tries) = l + 1 /\ DOMAIN g.ip.tries = 1 .. l + 1
      /\ \A k \in 1 .. l : g.ip.tries[k] = f.ip.tries[k]
  BY <1>1, SeqAppend
<1>3. more \in Seq(Handler) /\ Len(more) = Len(hs) + 1 /\ more[Len(hs) + 1] = h
      /\ \A j \in 1 .. Len(hs) : more[j] = hs[j]
  BY SeqAppend
<1> HIDE DEF m, l, more
<1>4. Matched(fs, SubSeq(hs, 1, m)) /\ \A k \in 1 .. l : Handles(hs[m + k], f, Len(fs) + 1, k)
  <2>1. Len(hs) = m + Len(f.ip.tries) /\ DOMAIN f.ip.tries = 1 .. l
    BY <1>1 DEF l
  <2> QED BY <1>1, <2>1, MatchedTop
<1>5. SubSeq(more, 1, m) = SubSeq(hs, 1, m)
  <2> DEFINE a == SubSeq(more, 1, m)
             b == SubSeq(hs, 1, m)
  <2>1. a \in Seq(Handler) /\ Len(a) = m /\ \A j \in 1 .. m : a[j] = more[j]
    BY <1>1, <1>3, SeqPrefix
  <2>2. b \in Seq(Handler) /\ Len(b) = m /\ \A j \in 1 .. m : b[j] = hs[j]
    BY <1>1, SeqPrefix
  <2>3. \A j \in 1 .. m : j \in 1 .. Len(hs)
    BY <1>1
  <2> HIDE DEF a, b
  <2>4. a = b
    BY <1>3, <2>1, <2>2, <2>3, SeqSame
  <2> QED BY <2>4 DEF a, b
<1>6. ASSUME NEW k \in 1 .. l + 1 PROVE Handles(more[m + k], g, Len(fs) + 1, k)
  <2>1. CASE k = l + 1
    <3>1. m + k = Len(hs) + 1
      BY <1>1, <2>1
    <3> QED BY <1>3, <2>1, <3>1 DEF l
  <2>2. CASE k # l + 1
    <3>1. k \in 1 .. l /\ m + k \in 1 .. Len(hs) /\ \A j \in 1 .. k : j \in 1 .. l
      BY <1>1, <2>2
    <3>2. Handles(hs[m + k], f, Len(fs) + 1, k) /\ more[m + k] = hs[m + k]
      BY <1>3, <1>4, <3>1
    <3>3. k \in DOMAIN f.ip.tries /\ k \in DOMAIN g.ip.tries
      BY <1>1, <1>2, <3>1
    <3> QED BY <1>2, <3>1, <3>2, <3>3, HandlesSame
  <2> QED BY <2>1, <2>2
<1>7. Len(more) = m + Len(g.ip.tries)
  BY <1>1, <1>2, <1>3
<1>8. Matched(fs, SubSeq(more, 1, m))
  BY <1>4, <1>5
<1>9. Matched(Append(fs, g), more)
  BY <1>1, <1>2, <1>3, <1>6, <1>7, <1>8, MatchedTop
<1> QED BY <1>9 DEF more

\* OP_TRY_END and a throw: one try block less, one handler less.
LEMMA MatchedTryEnd ==
    ASSUME NEW fs \in Seq(Frame), NEW f \in Frame, NEW g \in Frame, NEW hs \in Seq(Handler),
           Matched(Append(fs, f), hs), f.ip.tries # <<>>, Len(f.ip.tries) <= Len(hs),
           g.slots = f.slots, g.closure = f.closure, g.ip.tries = Front(f.ip.tries)
    PROVE  Matched(Append(fs, g), Front(hs))
<1> DEFINE l == Len(f.ip.tries)
           m == Len(hs) - l
           less == Front(hs)
<1>1. l \in Nat /\ l >= 1 /\ Len(hs) \in Nat /\ m \in Nat /\ Len(hs) = m + l /\ m <= Len(hs)
      /\ f.ip.tries \in Seq(Nat) /\ DOMAIN f.ip.tries = 1 .. l
  BY FrameFacts, SeqEnds
<1>2. Len(g.ip.tries) = l - 1 /\ DOMAIN g.ip.tries = 1 .. l - 1
      /\ \A k \in 1 .. l - 1 : g.ip.tries[k] = f.ip.tries[k]
  BY <1>1, FrameFacts, SeqEnds
<1>3. less \in Seq(Handler) /\ Len(less) = Len(hs) - 1 /\ \A j \in 1 .. Len(hs) - 1 : less[j] = hs[j]
  <2>1. hs # <<>>
    BY <1>1
  <2> QED BY <2>1, SeqEnds
<1> HIDE DEF m, l, less
<1>4. Matched(fs, SubSeq(hs, 1, m)) /\ \A k \in 1 .. l : Handles(hs[m + k], f, Len(fs) + 1, k)
  <2>1. Len(hs) = m + Len(f.ip.tries) /\ DOMAIN f.ip.tries = 1 .. l
    BY <1>1 DEF l
  <2> QED BY <1>1, <2>1, MatchedTop
<1>5. SubSeq(less, 1, m) = SubSeq(hs, 1, m)
  <2> DEFINE a == SubSeq(less, 1, m)
             b == SubSeq(hs, 1, m)
  <2>1. a \in Seq(Handler) /\ Len(a) = m /\ \A j \in 1 .. m : a[j] = less[j]
    BY <1>1, <1>3, SeqPrefix
  <2>2. b \in Seq(Handler) /\ Len(b) = m /\ \A j \in 1 .. m : b[j] = hs[j]
    BY <1>1, SeqPrefix
  <2>3. \A j \in 1 .. m : j \in 1 .. Len(hs) - 1
    BY <1>1
  <2> HIDE DEF a, b
  <2>4. a = b
    BY <1>3, <2>1, <2>2, <2>3, SeqSame
  <2> QED BY <2>4 DEF a, b
<1>6. ASSUME NEW k \in 1 .. l - 1 PROVE Handles(less[m + k], g, Len(fs) + 1, k)
  <2>1. k \in 1 .. l /\ m + k \in 1 .. Len(hs) - 1 /\ \A j \in 1 .. k : j \in 1 .. l - 1
    BY <1>1
  <2>2. Handles(hs[m + k], f, Len(fs) + 1, k) /\ less[m + k] = hs[m + k]
    BY <1>3, <1>4, <2>1
  <2>3. k \in DOMAIN f.ip.tries /\ k \in DOMAIN g.ip.tries
    BY <1>1, <1>2, <2>1
  <2> QED BY <1>2, <2>1, <2>2, <2>3, HandlesSame
<1>7. Len(less) = m + Len(g.ip.tries)
  BY <1>1, <1>2, <1>3
<1>8. Matched(fs, SubSeq(less, 1, m))
  BY <1>4, <1>5
<1>9. Matched(Append(fs, g), less)
  BY <1>1, <1>2, <1>3, <1>6, <1>7, <1>8, MatchedTop
<1> QED BY <1>9 DEF less

\* A frame has as many handlers as it is in try blocks.
LEMMA MatchedLength ==
    ASSUME NEW fs \in Seq(Frame), NEW hs \in Seq(Handler), Matched(fs, hs), fs # <<>>
    PROVE  Len(fs[Len(fs)].ip.tries) <= Len(hs)
<1>1. PICK first : From(first, fs, hs)
  BY DEF Matched
<1>2. Len(fs) \in Nat /\ Len(fs) \in 1 .. Len(fs) /\ fs[Len(fs)] \in Frame
  BY SeqEnds
<1>3. /\ first[Len(fs)] \in Nat /\ 1 <= first[Len(fs)] /\ Len(hs) \in Nat
      /\ Len(hs) + 1 = first[Len(fs)] + Len(fs[Len(fs)].ip.tries)
  BY <1>1, <1>2, FromFacts
<1>4. Len(fs[Len(fs)].ip.tries) \in Nat
  BY <1>2, FrameFacts
<1> QED BY <1>3, <1>4

\* The handler on top is that of the innermost try block of its frame, and the frames
\* above are in none.
LEMMA MatchedLast ==
    ASSUME NEW fs \in Seq(Frame), NEW hs \in Seq(Handler), Matched(fs, hs), hs # <<>>
    PROVE  \E i \in 1 .. Len(fs) :
              /\ fs[i].ip.tries # <<>>
              /\ Handles(Last(hs), fs[i], i, Len(fs[i].ip.tries))
              /\ \A j \in i + 1 .. Len(fs) : fs[j].ip.tries = <<>>
<1>1. PICK first : From(first, fs, hs)
  BY DEF Matched
<1>2. /\ Len(fs) \in Nat /\ DOMAIN fs = 1 .. Len(fs)
      /\ Len(hs) \in Nat /\ DOMAIN hs = 1 .. Len(hs)
      /\ \A i \in 1 .. Len(fs) + 1 : first[i] \in Nat /\ 1 <= first[i] /\ first[i] <= Len(hs) + 1
      /\ first[1] = 1 /\ first[Len(fs) + 1] = Len(hs) + 1
      /\ \A i \in 1 .. Len(fs) :
            /\ first[i + 1] = first[i] + Len(fs[i].ip.tries)
            /\ \A k \in DOMAIN fs[i].ip.tries : Handles(hs[first[i] + k - 1], fs[i], i, k)
      /\ \A i, j \in 1 .. Len(fs) + 1 : i < j => first[i] <= first[j]
      /\ \A m \in 1 .. Len(hs) : \E i \in 1 .. Len(fs) : first[i] <= m /\ m < first[i + 1]
  BY <1>1, FromFacts
<1>3. Len(hs) \in 1 .. Len(hs) /\ Last(hs) = hs[Len(hs)]
  <2>1. Len(hs) \in Nat /\ Len(hs) >= 1 /\ Last(hs) = hs[Len(hs)]
    BY SeqEnds
  <2> QED BY <2>1
<1>4. PICK i \in 1 .. Len(fs) : first[i] <= Len(hs) /\ Len(hs) < first[i + 1]
  BY <1>2, <1>3
<1>5. /\ i \in 1 .. Len(fs) + 1 /\ i + 1 \in 1 .. Len(fs) + 1 /\ fs[i] \in Frame
      /\ i \in Nat
  BY <1>2, SeqElement
<1>6. /\ first[i] \in Nat /\ first[i + 1] \in Nat /\ first[i + 1] = Len(hs) + 1
  <2>1. first[i] \in Nat /\ first[i + 1] \in Nat /\ first[i + 1] <= Len(hs) + 1
    BY <1>2, <1>5
  <2> QED BY <1>2, <1>4, <2>1
<1>7. /\ fs[i].ip.tries \in Seq(Nat) /\ Len(fs[i].ip.tries) \in Nat
      /\ DOMAIN fs[i].ip.tries = 1 .. Len(fs[i].ip.tries)
      /\ first[i + 1] = first[i] + Len(fs[i].ip.tries)
  BY <1>2, <1>5, FrameFacts
<1>8. /\ Len(fs[i].ip.tries) >= 1 /\ first[i] + Len(fs[i].ip.tries) - 1 = Len(hs)
      /\ Len(fs[i].ip.tries) \in DOMAIN fs[i].ip.tries
  <2> DEFINE l == Len(fs[i].ip.tries)
  <2>1. l \in Nat /\ Len(hs) \in Nat /\ first[i] <= Len(hs) /\ first[i] \in Nat /\ 1 <= first[i]
        /\ Len(hs) + 1 = first[i] + l
    BY <1>2, <1>4, <1>5, <1>6, <1>7
  <2> HIDE DEF l
  <2>2. l >= 1 /\ first[i] + l - 1 = Len(hs) /\ l \in 1 .. l
    BY <2>1
  <2> QED BY <1>7, <2>2 DEF l
<1>9. Handles(Last(hs), fs[i], i, Len(fs[i].ip.tries))
  BY <1>2, <1>3, <1>8
<1>10. ASSUME NEW j \in i + 1 .. Len(fs) PROVE fs[j].ip.tries = <<>>
  <2>1. j \in 1 .. Len(fs) /\ j \in 1 .. Len(fs) + 1 /\ j + 1 \in 1 .. Len(fs) + 1
        /\ (j = i + 1 \/ i + 1 < j) /\ fs[j] \in Frame
    BY <1>2, <1>5, SeqElement
  <2>2. first[j] >= Len(hs) + 1 /\ first[j] \in Nat
    BY <1>2, <1>5, <1>6, <2>1
  <2>3. first[j + 1] \in Nat /\ first[j + 1] <= Len(hs) + 1
        /\ first[j + 1] = first[j] + Len(fs[j].ip.tries)
    BY <1>2, <2>1
  <2>4. fs[j].ip.tries \in Seq(Nat) /\ Len(fs[j].ip.tries) \in Nat
    BY <2>1, FrameFacts
  <2>5. Len(fs[j].ip.tries) = 0
    BY <1>2, <2>2, <2>3, <2>4, SMTT(20)
  <2> QED BY <2>4, <2>5
<1>11. fs[i].ip.tries # <<>>
  BY <1>8
<1> QED BY <1>9, <1>10, <1>11

-----------------------------------------------------------------------------
(* Stacks of any values.                                                   *)

LEMMA LineFacts ==
    ASSUME NEW s, Line(s)
    PROVE  Len(s) \in Nat /\ DOMAIN s = 1 .. Len(s)
BY SeqElement DEF Line

LEMMA LineAppend ==
    ASSUME NEW s, Line(s), NEW v
    PROVE  Line(Append(s, v)) /\ Len(Append(s, v)) = Len(s) + 1
<1>1. PICK S : s \in Seq(S)
  BY DEF Line
<1> DEFINE T == S \cup {v}
<1>2. S \subseteq T /\ v \in T
  OBVIOUS
<1> HIDE DEF T
<1>3. s \in Seq(T)
  BY <1>1, <1>2, SeqMono
<1>4. Append(s, v) \in Seq(T) /\ Len(Append(s, v)) = Len(s) + 1
  BY <1>2, <1>3, SeqAppend
<1> QED BY <1>4 DEF Line

LEMMA LineCut ==
    ASSUME NEW s, Line(s), NEW n \in Nat, n <= Len(s)
    PROVE  Line(SubSeq(s, 1, n)) /\ Len(SubSeq(s, 1, n)) = n
<1>1. PICK S : s \in Seq(S)
  BY DEF Line
<1>2. SubSeq(s, 1, n) \in Seq(S) /\ Len(SubSeq(s, 1, n)) = n
  BY <1>1, SeqPrefix
<1> QED BY <1>2 DEF Line

LEMMA LineSet ==
    ASSUME NEW s, Line(s), NEW n \in DOMAIN s, NEW v
    PROVE  Line([s EXCEPT ![n] = v]) /\ Len([s EXCEPT ![n] = v]) = Len(s)
<1>1. PICK S : s \in Seq(S)
  BY DEF Line
<1> DEFINE T == S \cup {v}
<1>2. S \subseteq T /\ v \in T
  OBVIOUS
<1> HIDE DEF T
<1>3. s \in Seq(T) /\ n \in 1 .. Len(s)
  BY <1>1, <1>2, SeqMono, SeqElement
<1>4. [s EXCEPT ![n] = v] \in Seq(T) /\ Len([s EXCEPT ![n] = v]) = Len(s)
  BY <1>2, <1>3, SeqExcept
<1> QED BY <1>4 DEF Line

LEMMA LineMove ==
    ASSUME NEW s, Line(s), NEW low, Line(low), NEW n \in Nat, n < Len(s)
    PROVE  /\ Line(low \o SubSeq(s, Len(s) - n, Len(s)))
           /\ Len(low \o SubSeq(s, Len(s) - n, Len(s))) = Len(low) + n + 1
<1>1. PICK S : s \in Seq(S)
  BY DEF Line
<1>2. PICK R : low \in Seq(R)
  BY DEF Line
<1> DEFINE T == S \cup R
<1>3. S \subseteq T /\ R \subseteq T
  OBVIOUS
<1> HIDE DEF T
<1>4. s \in Seq(T) /\ low \in Seq(T)
  BY <1>1, <1>2, <1>3, SeqMono
<1>5. /\ low \o SubSeq(s, Len(s) - n, Len(s)) \in Seq(T)
      /\ Len(low \o SubSeq(s, Len(s) - n, Len(s))) = Len(low) + n + 1
  BY <1>4, SeqMove
<1> QED BY <1>5 DEF Line

LEMMA LineRestored ==
    ASSUME NEW top \in Nat
    PROVE  Line(Restored(top)) /\ Len(Restored(top)) = top
<1> DEFINE T == {Content(i) : i \in 1 .. top}
           r == Restored(top)
<1>1. r \in [1 .. top -> T]
  BY DEF Restored
<1> HIDE DEF T, r
<1>2. r \in Seq(T) /\ Len(r) = top
  BY <1>1
<1> QED BY <1>2 DEF Line, r

-----------------------------------------------------------------------------
(* Consequences of the invariant.                                          *)

\* The running frame, and the height no opcode pops below.
LEMMA Topmost ==
    ASSUME Len(stack) \in Nat, frames \in Seq(Frame), Nest, frames # <<>>
    PROVE  /\ Len(frames) \in Nat /\ Len(frames) >= 1 /\ DOMAIN frames = 1 .. Len(frames)
           /\ frame = frames[Len(frames)] /\ frame \in Frame
           /\ frame.slots \in Nat /\ frame.slots >= 1
           /\ frames[1].slots \in Nat /\ frames[1].slots >= 1 /\ frames[1].slots <= frame.slots
           /\ Floor \in Nat /\ frame.slots + 1 <= Floor /\ Floor - 1 <= Len(stack)
           /\ \A n \in Nat : Floor - 1 <= n => Reaches(Len(frames), n)
<1>1. /\ Len(frames) \in Nat /\ Len(frames) >= 1 /\ DOMAIN frames = 1 .. Len(frames)
      /\ frame = frames[Len(frames)] /\ frame \in Frame
  BY SeqEnds DEF frame
<1>3. frames[1] \in Frame
  BY <1>1, SeqElement
<1>4. /\ frames[1].slots \in Nat /\ frames[1].slots >= 1 /\ frames[1].slots <= frame.slots
      /\ frame.slots \in Nat /\ frame.slots >= 1
  <2>1. CASE Len(frames) = 1
    BY <1>1, <1>3, <2>1 DEF Frame
  <2>2. CASE Len(frames) > 1
    <3>1. Reaches(1, frames[Len(frames)].slots - 1)
      BY <1>1, <2>2 DEF Nest, Stacked, Reaches
    <3> QED BY <1>1, <1>3, <3>1 DEF Frame, Reaches, Extent
  <2> QED BY <1>1, <2>1, <2>2
<1> DEFINE t == frame.ip.tries
<1>5. /\ t \in Seq(Nat) /\ t = frames[Len(frames)].ip.tries
      /\ Rise(t) /\ Reaches(Len(frames), Len(stack))
  BY <1>1 DEF Frame, Ip, Nest, Stacked, Reaches
<1>6. Len(t) \in Nat /\ DOMAIN t = 1 .. Len(t)
  BY <1>5, SeqElement
<1>7. CASE t = <<>>
  <2>1. Floor = frame.slots + 1
    BY <1>7 DEF Floor
  <2>2. DOMAIN frames[Len(frames)].ip.tries = {}
    BY <1>5, <1>7
  <2> QED BY <1>1, <1>4, <1>5, <2>1, <2>2 DEF Reaches, Extent
<1>8. CASE t # <<>>
  <2>1. Len(t) >= 1 /\ Last(t) = t[Len(t)] /\ Last(t) \in Nat
    BY <1>5, <1>8, SeqEnds
  <2>2. Floor = frame.slots + t[Len(t)]
    BY <1>8, <2>1 DEF Floor
  <2>3. t[Len(t)] \in Nat /\ t[Len(t)] >= 1 /\ \A k \in DOMAIN t : t[k] \in Nat /\ t[k] <= t[Len(t)]
    <3>1. \A k \in DOMAIN t : t[k] \in Nat
      BY <1>5, SeqElement
    <3>2. /\ \A k \in DOMAIN t : t[k] >= 1
          /\ \A k, j \in DOMAIN t : k < j => t[k] <= t[j]
      BY <1>5 DEF Rise
    <3>3. Len(t) \in DOMAIN t /\ \A k \in DOMAIN t : k < Len(t) \/ k = Len(t)
      BY <1>6, <2>1
    <3> HIDE DEF t
    <3> QED BY <3>1, <3>2, <3>3
  <2>4. frame.slots + t[Len(t)] - 1 <= Len(stack)
    BY <1>1, <1>5, <1>6, <2>1, SMTT(20) DEF Reaches, Extent
  <2>5. ASSUME NEW n \in Nat, Floor - 1 <= n PROVE Reaches(Len(frames), n)
    <3>1. frame.slots <= n /\ \A k \in DOMAIN t : frame.slots + t[k] - 1 <= n
      <4> DEFINE x == t[Len(t)]
                 y == frame.slots
      <4>1. x \in Nat /\ x >= 1 /\ y \in Nat /\ Floor = y + x /\ Floor - 1 <= n
        BY <1>4, <2>2, <2>3, <2>5
      <4>2. \A k \in DOMAIN t : t[k] \in Nat /\ t[k] <= x
        BY <2>3
      <4> HIDE DEF x, y, t
      <4>3. y <= n /\ y + x - 1 <= n
        BY <4>1
      <4>4. \A k \in DOMAIN t : y + t[k] - 1 <= n
        BY <4>1, <4>2, <4>3
      <4> QED BY <4>3, <4>4 DEF y
    <3> QED BY <1>1, <3>1 DEF Reaches, Extent
  <2>6. Floor \in Nat /\ frame.slots + 1 <= Floor /\ Floor - 1 <= Len(stack)
    <3> DEFINE x == t[Len(t)]
               y == frame.slots
    <3>1. x \in Nat /\ x >= 1 /\ y \in Nat /\ Floor = y + x /\ y + x - 1 <= Len(stack)
      BY <1>4, <2>2, <2>3, <2>4
    <3> HIDE DEF x, y
    <3>2. Floor \in Nat /\ y + 1 <= Floor /\ Floor - 1 <= Len(stack)
      BY <3>1
    <3> QED BY <3>2 DEF y
  <2> QED BY <1>1, <1>4, <2>5, <2>6
<1> QED BY <1>7, <1>8

LEMMA LaidTop ==
    ASSUME Laid, frames # <<>>
    PROVE  /\ Len(stack) \in Nat /\ DOMAIN stack = 1 .. Len(stack) /\ frames \in Seq(Frame)
           /\ Len(frames) \in Nat /\ Len(frames) >= 1 /\ DOMAIN frames = 1 .. Len(frames)
           /\ frame = frames[Len(frames)] /\ frame \in Frame
           /\ frame.slots \in Nat /\ frame.slots >= 1
           /\ Floor \in Nat /\ frame.slots + 1 <= Floor /\ Floor - 1 <= Len(stack)
           /\ \A n \in Nat : Floor - 1 <= n => Extent(frame, n)
<1>1. Len(stack) \in Nat /\ DOMAIN stack = 1 .. Len(stack) /\ frames \in Seq(Frame) /\ Nest
  BY LineFacts DEF Laid, Recorded
<1> QED BY <1>1, Topmost DEF Reaches

LEMMA Runs ==
    ASSUME NEW op, Running(op)
    PROVE  frames # <<>>
BY DEF Running

\* The running frame on top of the others.
LEMMA TopOfFrames ==
    ASSUME Laid, frames # <<>>
    PROVE  /\ Len(frames) \in Nat /\ Len(frames) \in 1 .. Len(frames)
           /\ SubSeq(frames, 1, Len(frames) - 1) \in Seq(Frame)
           /\ Len(SubSeq(frames, 1, Len(frames) - 1)) = Len(frames) - 1
           /\ frame = frames[Len(frames)] /\ frame \in Frame
           /\ frames = Append(SubSeq(frames, 1, Len(frames) - 1), frame)
           /\ Rise(frame.ip.tries) /\ Extent(frame, Len(stack)) /\ Len(stack) \in Nat
           /\ frame.ip.code = frame.closure /\ handlers \in Seq(Handler)
           /\ Matched(frames, handlers) /\ Len(frame.ip.tries) <= Len(handlers)
<1>1. /\ Len(frames) \in Nat /\ Len(frames) >= 1 /\ DOMAIN frames = 1 .. Len(frames)
      /\ frame = frames[Len(frames)] /\ frame \in Frame /\ frames \in Seq(Frame)
      /\ Len(stack) \in Nat /\ handlers \in Seq(Handler) /\ Matched(frames, handlers)
  BY LaidTop DEF Laid, Recorded, Handling
<1>2. Len(frames) - 1 \in Nat /\ Len(frames) - 1 <= Len(frames) /\ Len(frames) \in DOMAIN frames
  BY <1>1
<1>3. /\ SubSeq(frames, 1, Len(frames) - 1) \in Seq(Frame)
      /\ Len(SubSeq(frames, 1, Len(frames) - 1)) = Len(frames) - 1
  BY <1>1, <1>2, SeqPrefix
<1>4. frames = Append(SubSeq(frames, 1, Len(frames) - 1), frame)
  <2>1. [frames EXCEPT ![Len(frames)] = frame] = frames
    BY <1>1
  <2> QED BY <1>1, <2>1, SeqTop
<1>5. Rise(frame.ip.tries) /\ Extent(frame, Len(stack)) /\ frame.ip.code = frame.closure
  BY <1>1, <1>2 DEF Laid, Nest, Stacked, OwnCode
<1>6. Len(frame.ip.tries) <= Len(handlers)
  BY <1>1, MatchedLength
<1> QED BY <1>1, <1>2, <1>3, <1>4, <1>5, <1>6

-----------------------------------------------------------------------------
(* Steps of one frame.                                                     *)

\* A step that leaves the frames and the handlers alone.
LEMMA LaidSame ==
    ASSUME Laid, frames # <<>>, UNCHANGED <<frames, handlers>>, Line(stack'),
           Len(stack') >= Floor - 1
    PROVE  Laid'
<1>1. /\ Len(frames) \in Nat /\ DOMAIN frames = 1 .. Len(frames) /\ frames \in Seq(Frame)
      /\ Floor \in Nat /\ frame.slots + 1 <= Floor /\ frame = frames[Len(frames)]
      /\ frame.slots \in Nat /\ \A n \in Nat : Floor - 1 <= n => Extent(frame, n)
  BY LaidTop
<1>2. Len(stack') \in Nat
  BY LineFacts
<1>3. ASSUME NEW i \in 1 .. Len(frames) PROVE Extent(frames[i], Len(stack'))
  <2>1. CASE i = Len(frames)
    BY <1>1, <1>2, <2>1
  <2>2. CASE i < Len(frames)
    <3>1. Extent(frames[i], frame.slots - 1) /\ frames[i] \in Frame
      BY <1>1, <2>2, SeqElement DEF Laid, Nest, Stacked
    <3>2. frame.slots - 1 \in Int /\ frame.slots - 1 <= Len(stack')
      BY <1>1, <1>2
    <3> QED BY <1>2, <3>1, <3>2, ExtentUp
  <2> QED BY <1>1, <2>1, <2>2, TopOrUnder
<1>4. Nest'
  <2>1. Stacked(frames, Len(stack'))
    BY <1>1, <1>3 DEF Laid, Nest, Stacked
  <2> QED BY <2>1 DEF Nest
<1>5. Recorded' /\ Limits' /\ OwnCode' /\ Handling'
  BY DEF Laid, Recorded, Limits, OwnCode, Handling
<1> QED BY <1>4, <1>5 DEF Laid

LEMMA LaidPush ==
    ASSUME Laid, frames # <<>>, UNCHANGED <<frames, handlers>>, NEW v, stack' = Append(stack, v)
    PROVE  Laid'
<1>1. Len(stack) \in Nat /\ Floor \in Nat /\ Floor - 1 <= Len(stack)
  BY LaidTop
<1>2. Line(stack') /\ Len(stack') = Len(stack) + 1
  BY LineAppend DEF Laid
<1>3. Len(stack') >= Floor - 1
  BY <1>1, <1>2
<1> QED BY <1>2, <1>3, LaidSame

LEMMA Dropping ==
    ASSUME Laid, frames # <<>>, NEW n \in Nat, Len(stack) - n >= Floor - 1
    PROVE  /\ Line(Drop(n)) /\ Len(Drop(n)) = Len(stack) - n
           /\ Len(stack) - n >= frame.slots /\ Len(stack) - n \in Nat
<1>1. Len(stack) \in Nat /\ Floor \in Nat /\ frame.slots \in Nat /\ frame.slots + 1 <= Floor
  BY LaidTop
<1>2. Len(stack) - n \in Nat /\ Len(stack) - n <= Len(stack) /\ Len(stack) - n >= frame.slots
  BY <1>1
<1> QED BY <1>2, LineCut DEF Laid, Drop

LEMMA LaidDrop ==
    ASSUME Laid, frames # <<>>, UNCHANGED <<frames, handlers>>, NEW n \in Nat,
           Len(stack) - n >= Floor - 1, stack' = Drop(n)
    PROVE  Laid'
<1>1. Line(stack') /\ Len(stack') = Len(stack) - n
  BY Dropping
<1>2. Len(stack') >= Floor - 1
  BY <1>1
<1> QED BY <1>1, <1>2, LaidSame

LEMMA LaidStore ==
    ASSUME Laid, frames # <<>>, UNCHANGED <<frames, handlers>>, NEW i \in DOMAIN stack, NEW v,
           stack' = [stack EXCEPT ![i] = v]
    PROVE  Laid'
<1>1. Line(stack') /\ Len(stack') = Len(stack)
  BY LineSet DEF Laid
<1>2. Floor - 1 <= Len(stack)
  BY LaidTop
<1> QED BY <1>1, <1>2, LaidSame

\* An opcode of one frame pops nothing below what the frame leaves alone.
LEMMA LaidInFrame ==
    Laid /\ ( \/ OpConstant \/ OpPop \/ OpGetLocal \/ OpSetLocal \/ OpGetUpvalue \/ OpSetUpvalue
              \/ OpGetGlobal \/ OpDefineGlobal \/ OpClosure \/ OpCloseUpvalue) => Laid'
<1> SUFFICES ASSUME Laid PROVE
       (\/ OpConstant \/ OpPop \/ OpGetLocal \/ OpSetLocal \/ OpGetUpvalue \/ OpSetUpvalue
        \/ OpGetGlobal \/ OpDefineGlobal \/ OpClosure \/ OpCloseUpvalue) => Laid'
  OBVIOUS
<1>1. ASSUME OpConstant \/ OpGetLocal \/ OpGetUpvalue \/ OpGetGlobal \/ OpClosure PROVE Laid'
  <2>1. frames # <<>> /\ UNCHANGED <<frames, handlers>>
    BY <1>1, Runs DEF OpConstant, OpGetLocal, OpGetUpvalue, OpGetGlobal, OpClosure, OnlyStack
  <2>2. \E v : stack' = Append(stack, v)
    BY <1>1 DEF OpConstant, OpGetLocal, OpGetUpvalue, OpGetGlobal, OpClosure, Push
  <2> QED BY <2>1, <2>2, LaidPush
<1>2. ASSUME OpPop \/ OpDefineGlobal \/ OpCloseUpvalue PROVE Laid'
  <2>1. frames # <<>> /\ UNCHANGED <<frames, handlers>> /\ stack' = Drop(1)
    BY <1>2, Runs DEF OpPop, OpDefineGlobal, OpCloseUpvalue, OnlyStack
  <2>2. Len(stack) >= Floor \/ Len(stack) - 1 >= Floor - 1
    BY <1>2 DEF OpPop, OpDefineGlobal, OpCloseUpvalue, Operands
  <2>3. Len(stack) - 1 >= Floor - 1
    <3>1. Len(stack) \in Nat /\ Floor \in Nat
      BY <2>1, LaidTop
    <3> QED BY <2>2, <3>1
  <2> QED BY <2>1, <2>3, LaidDrop
<1>3. ASSUME OpSetLocal PROVE Laid'
  <2>1. frames # <<>> /\ UNCHANGED <<frames, handlers>>
    BY <1>3, Runs DEF OpSetLocal, OnlyStack
  <2>2. PICK i \in Slots : stack' = [stack EXCEPT ![i] = Peek(0)]
    BY <1>3 DEF OpSetLocal
  <2>3. i \in DOMAIN stack
    <3>1. DOMAIN stack = 1 .. Len(stack) /\ frame.slots \in Nat /\ frame.slots >= 1
      BY <2>1, LaidTop
    <3> QED BY <2>2, <3>1 DEF Slots
  <2> QED BY <2>1, <2>2, <2>3, LaidStore
<1>4. ASSUME OpSetUpvalue PROVE Laid'
  <2>1. frames # <<>> /\ UNCHANGED <<frames, handlers>>
    BY <1>4, Runs DEF OpSetUpvalue
  <2>2. PICK at : stack' = IF at \in DOMAIN stack THEN [stack EXCEPT ![at] = Peek(0)] ELSE stack
    BY <1>4 DEF OpSetUpvalue
  <2>3. CASE at \in DOMAIN stack
    BY <2>1, <2>2, <2>3, LaidStore
  <2>4. CASE at \notin DOMAIN stack
    <3>1. stack' = stack /\ Line(stack) /\ Len(stack) >= Floor - 1
      BY <2>1, <2>2, <2>4, LaidTop DEF Laid
    <3> QED BY <2>1, <3>1, LaidSame
  <2> QED BY <2>3, <2>4
<1> QED BY <1>1, <1>2, <1>3, <1>4

\* vm_reset_stack leaves none.
LEMMA LaidReset == Reset => Laid'
<1> SUFFICES ASSUME Reset PROVE Laid'
  OBVIOUS
<1>1. stack' = <<>> /\ frames' = <<>> /\ handlers' = <<>>
  BY DEF Reset
<1>2. Line(<<>>)
  <2>1. <<>> \in Seq({})
    OBVIOUS
  <2> QED BY <2>1 DEF Line
<1>3. Recorded' /\ Limits' /\ OwnCode' /\ Nest'
  BY <1>1, BoundsAssumption DEF Recorded, Limits, OwnCode, Nest, Stacked
<1>4. Handling'
  BY <1>1, MatchedNone DEF Handling
<1> QED BY <1>1, <1>2, <1>3, <1>4 DEF Laid

-----------------------------------------------------------------------------
(* Calls.                                                                  *)

\* A step that leaves the k lowest frames, and one above them.
LEMMA LaidOver ==
    ASSUME Laid, frames # <<>>, Line(stack'), handlers' \in Seq(Handler),
           Len(handlers') <= EXCEPTION_HANDLERS_MAX,
           NEW k \in 0 .. Len(frames), NEW f \in Frame, k < FRAMES_MAX,
           frames' = Append(SubSeq(frames, 1, k), f), f.ip.code = f.closure, Rise(f.ip.tries),
           Extent(f, Len(stack')), Stacked(SubSeq(frames, 1, k), f.slots - 1), Handling'
    PROVE  Laid'
<1> DEFINE under == SubSeq(frames, 1, k)
<1>1. /\ Len(frames) \in Nat /\ frames \in Seq(Frame) /\ Len(stack') \in Nat /\ k \in Nat
      /\ k <= Len(frames) /\ FRAMES_MAX \in Nat /\ DOMAIN frames = 1 .. Len(frames)
  BY LaidTop, LineFacts, BoundsAssumption
<1>2. under \in Seq(Frame) /\ Len(under) = k /\ \A i \in 1 .. k : under[i] = frames[i]
  BY <1>1, SeqPrefix
<1> HIDE DEF under
<1>3. frames' = Append(under, f) /\ Stacked(under, f.slots - 1)
  BY DEF under
<1>4. /\ frames' \in Seq(Frame) /\ Len(frames') = k + 1 /\ DOMAIN frames' = 1 .. k + 1
      /\ frames'[k + 1] = f /\ \A i \in 1 .. k : frames'[i] = frames[i]
  BY <1>2, <1>3, SeqAppend
<1>5. Recorded' /\ Limits' /\ OwnCode'
  <2>1. \A i \in 1 .. k : i \in DOMAIN frames
    BY <1>1
  <2> QED BY <1>1, <1>4, <2>1 DEF Laid, Recorded, Limits, OwnCode
<1>6. Nest'
  <2>1. f.slots \in Nat /\ f.slots - 1 <= Len(stack')
    BY <1>1, FrameFacts DEF Extent
  <2>2. Stacked(Append(under, f), Len(stack'))
    BY <1>1, <1>2, <1>3, <2>1, StackedPush
  <2> QED BY <1>3, <2>2 DEF Nest
<1> QED BY <1>5, <1>6 DEF Laid

\* vm_call: a new frame, above the ones there are.
LEMMA LaidEnter ==
    ASSUME Laid, frames # <<>>, NEW s, Line(s), NEW c \in Closures, NEW n \in Nat,
           Enter(s, c, n), Len(s) - n >= Floor
    PROVE  Laid'
<1> DEFINE new == [closure |-> c, ip |-> Ready(c), slots |-> Len(s) - n]
<1>1. CASE Reset
  BY <1>1, LaidReset
<1>2. CASE /\ Len(frames) < FRAMES_MAX /\ stack' = s /\ frames' = Append(frames, new)
           /\ UNCHANGED handlers
  <2>1. /\ Len(frames) \in Nat /\ Len(frames) >= 1 /\ DOMAIN frames = 1 .. Len(frames)
        /\ Floor \in Nat /\ frame = frames[Len(frames)] /\ frame.slots + 1 <= Floor
        /\ frame.slots \in Nat /\ frame.slots >= 1 /\ frames \in Seq(Frame)
        /\ \A m \in Nat : Floor - 1 <= m => Extent(frame, m)
    BY LaidTop
  <2>2. Len(s) \in Nat
    BY LineFacts
  <2>3. Len(s) - n \in Nat /\ Len(s) - n >= frame.slots + 1 /\ Len(s) - n <= Len(s)
        /\ Len(s) - n - 1 \in Nat /\ Floor - 1 <= Len(s) - n - 1
    BY <2>1, <2>2
  <2>4. new \in Frame /\ new.ip.code = c /\ new.ip.tries = <<>> /\ new.slots = Len(s) - n
        /\ new.closure = c
    BY <2>1, <2>3 DEF Frame, Ip, Ready
  <2> HIDE DEF new
  <2>5. frames' = Append(SubSeq(frames, 1, Len(frames)), new) /\ SubSeq(frames, 1, Len(frames)) = frames
    BY <1>2, <2>1
  <2>6. Stacked(frames, new.slots - 1)
    <3>1. ASSUME NEW i \in 1 .. Len(frames) PROVE Extent(frames[i], new.slots - 1)
      <4>1. CASE i = Len(frames)
        BY <2>1, <2>3, <2>4, <4>1
      <4>2. CASE i < Len(frames)
        <5>1. Extent(frames[i], frame.slots - 1) /\ frames[i] \in Frame
          <6>1. frames[i] \in Frame
            BY <2>1, SeqElement
          <6>2. Extent(frames[i], frames[Len(frames)].slots - 1)
            BY <2>1, <4>2 DEF Laid, Nest, Stacked
          <6> QED BY <2>1, <6>1, <6>2
        <5>2. frame.slots - 1 \in Int /\ new.slots - 1 \in Int /\ frame.slots - 1 <= new.slots - 1
          BY <2>1, <2>3, <2>4
        <5> QED BY <5>1, <5>2, ExtentUp
      <4> QED BY <2>1, <4>1, <4>2, TopOrUnder
    <3> QED BY <2>1, <3>1 DEF Laid, Nest, Stacked
  <2>7. Rise(new.ip.tries) /\ Extent(new, Len(stack'))
    BY <1>2, <2>3, <2>4 DEF Rise, Extent
  <2>8. Handling'
    <3>1. handlers \in Seq(Handler) /\ Matched(frames, handlers)
      BY DEF Laid, Recorded, Handling
    <3> QED BY <1>2, <2>1, <2>4, <3>1, MatchedPush DEF Handling
  <2>9. Len(frames) \in 0 .. Len(frames) /\ handlers' \in Seq(Handler)
        /\ Len(handlers') <= EXCEPTION_HANDLERS_MAX
    BY <1>2, <2>1 DEF Laid, Limits, Recorded
  <2> QED BY <1>2, <2>4, <2>5, <2>6, <2>7, <2>8, <2>9, LaidOver
<1> QED BY <1>1, <1>2 DEF Enter, Same

\* What is called is a closure.
LEMMA TargetCode ==
    ASSUME NEW v, NEW t \in Target(v)
    PROVE  t.code \in Closures
BY ClosuresAssumption DEF Target

LEMMA LaidCall == Laid /\ OpCall => Laid'
<1> SUFFICES ASSUME Laid, OpCall PROVE Laid'
  OBVIOUS
<1>1. frames # <<>>
  BY Runs DEF OpCall
<1>2. PICK n \in 0 .. MaxArgs :
        /\ Operands(n + 1)
        /\ \/ \E t \in Target(Peek(n)) : Enter([stack EXCEPT ![Len(stack) - n] = t.self], t.code, n)
           \/ /\ \E v \in Answers(Peek(n), n) : stack' = Append(Drop(n + 1), v)
              /\ Same /\ UNCHANGED frames
           \/ Reset
  BY DEF OpCall
<1>3. n \in Nat /\ n + 1 \in Nat
  BY BoundsAssumption
<1>4. /\ Line(Drop(n + 1)) /\ Len(Drop(n + 1)) = Len(stack) - (n + 1)
      /\ Len(stack) - (n + 1) >= Floor - 1 /\ Len(stack) \in Nat /\ Floor \in Nat /\ Floor >= 2
      /\ DOMAIN stack = 1 .. Len(stack)
  <2>1. /\ frame.slots >= 1 /\ frame.slots \in Nat /\ frame.slots + 1 <= Floor /\ Floor \in Nat
        /\ Len(stack) \in Nat /\ DOMAIN stack = 1 .. Len(stack)
    BY <1>1, LaidTop
  <2>2. Len(stack) - (n + 1) >= Floor - 1
    BY <1>2 DEF Operands
  <2>3. Line(Drop(n + 1)) /\ Len(Drop(n + 1)) = Len(stack) - (n + 1)
    BY <1>1, <1>3, <2>2, Dropping
  <2>4. Floor >= 2
    BY <2>1
  <2> QED BY <2>1, <2>2, <2>3, <2>4
<1>5. ASSUME NEW t \in Target(Peek(n)), Enter([stack EXCEPT ![Len(stack) - n] = t.self], t.code, n)
      PROVE  Laid'
  <2> DEFINE s == [stack EXCEPT ![Len(stack) - n] = t.self]
  <2>1. Len(stack) - n \in DOMAIN stack
    BY <1>3, <1>4
  <2>2. Line(s) /\ Len(s) = Len(stack)
    BY <2>1, LineSet DEF Laid
  <2>3. t.code \in Closures
    BY TargetCode
  <2>4. Enter(s, t.code, n)
    BY <1>5
  <2> HIDE DEF s
  <2>5. Len(s) - n >= Floor
    BY <1>3, <1>4, <2>2
  <2> QED BY <1>1, <1>3, <2>2, <2>3, <2>4, <2>5, LaidEnter
<1>6. ASSUME NEW v, stack' = Append(Drop(n + 1), v), Same, UNCHANGED frames
      PROVE  Laid'
  <2>1. Line(stack') /\ Len(stack') = Len(stack) - (n + 1) + 1
    BY <1>4, <1>6, LineAppend
  <2>2. Len(stack') >= Floor - 1
    BY <1>3, <1>4, <2>1
  <2> QED BY <1>1, <1>6, <2>1, <2>2, LaidSame DEF Same
<1>7. CASE Reset
  BY <1>7, LaidReset
<1> QED BY <1>2, <1>5, <1>6, <1>7

LEMMA LaidSuperInvoke == Laid /\ OpSuperInvoke => Laid'
<1> SUFFICES ASSUME Laid, OpSuperInvoke PROVE Laid'
  OBVIOUS
<1>1. frames # <<>>
  BY Runs DEF OpSuperInvoke
<1>2. PICK n \in 0 .. MaxArgs : Operands(n + 2) /\ Enter(Drop(1), Method, n)
  BY DEF OpSuperInvoke
<1>3. n \in Nat /\ Len(stack) - (n + 2) >= Floor - 1 /\ Len(stack) \in Nat /\ Floor \in Nat
  BY <1>1, <1>2, BoundsAssumption, LaidTop DEF Operands
<1>4. Len(stack) - 1 >= Floor - 1 /\ 1 \in Nat
  BY <1>3
<1>5. Line(Drop(1)) /\ Len(Drop(1)) = Len(stack) - 1
  BY <1>1, <1>4, Dropping
<1>6. Len(Drop(1)) - n >= Floor
  BY <1>3, <1>5
<1> QED BY <1>1, <1>2, <1>3, <1>5, <1>6, LaidEnter, ClosuresAssumption

-----------------------------------------------------------------------------
(* Returns and tail calls.                                                 *)

\* The frames under the running one, when it is in no try block.
LEMMA Under ==
    ASSUME Laid, frames # <<>>, frame.ip.tries = <<>>, NEW under,
           under = SubSeq(frames, 1, Len(frames) - 1)
    PROVE  /\ under \in Seq(Frame) /\ Len(under) = Len(frames) - 1
           /\ DOMAIN under = 1 .. Len(frames) - 1
           /\ \A i \in 1 .. Len(frames) - 1 : under[i] = frames[i] /\ i \in DOMAIN frames
           /\ Stacked(under, frame.slots - 1) /\ Matched(under, handlers)
<1>1. /\ Len(frames) \in Nat /\ Len(frames) >= 1 /\ frames \in Seq(Frame) /\ Len(stack) \in Int
      /\ frame = frames[Len(frames)] /\ DOMAIN frames = 1 .. Len(frames) /\ handlers \in Seq(Handler)
      /\ Stacked(frames, Len(stack)) /\ Matched(frames, handlers)
  BY LaidTop DEF Laid, Recorded, Nest, Handling
<1> DEFINE k == Len(frames) - 1
<1>2. k \in Nat /\ k < Len(frames) /\ k <= Len(frames) /\ k + 1 = Len(frames)
  BY <1>1
<1>3. /\ under \in Seq(Frame) /\ Len(under) = k /\ DOMAIN under = 1 .. k
      /\ \A i \in 1 .. k : under[i] = frames[i] /\ i \in DOMAIN frames
  BY <1>1, <1>2, SeqPrefix
<1>4. Stacked(under, frames[k + 1].slots - 1)
  <2> HIDE DEF k
  <2>1. Stacked(SubSeq(frames, 1, k), frames[k + 1].slots - 1)
    BY <1>1, <1>2, StackedCut
  <2> QED BY <2>1 DEF k
<1>5. \A i \in k + 1 .. Len(frames) : frames[i].ip.tries = <<>>
  BY <1>1, <1>2
<1>6. Matched(under, handlers)
  <2> HIDE DEF k
  <2>1. Matched(SubSeq(frames, 1, k), handlers)
    BY <1>1, <1>2, <1>5, MatchedCut
  <2> QED BY <2>1 DEF k
<1> QED BY <1>1, <1>2, <1>3, <1>4, <1>6

\* The slots under the running frame.
LEMMA BelowFrame ==
    ASSUME Laid, frames # <<>>, NEW low, low = SubSeq(stack, 1, frame.slots - 1)
    PROVE  Line(low) /\ Len(low) = frame.slots - 1
<1>1. frame.slots - 1 \in Nat /\ frame.slots - 1 <= Len(stack)
  <2>1. /\ Len(stack) \in Nat /\ Floor \in Nat /\ frame.slots + 1 <= Floor /\ Floor - 1 <= Len(stack)
        /\ frame.slots \in Nat /\ frame.slots >= 1
    BY LaidTop
  <2> QED BY <2>1
<1> QED BY <1>1, LineCut DEF Laid

LEMMA LaidLeave ==
    ASSUME Laid, frames # <<>>, frame.ip.tries = <<>>, Len(stack) >= Floor, NEW result, Leave(result)
    PROVE  Laid'
<1>1. /\ frames' = SubSeq(frames, 1, Len(frames) - 1)
      /\ stack' = IF Len(frames) = 1 THEN Drop(2)
                  ELSE Append(SubSeq(stack, 1, frame.slots - 1), result)
      /\ UNCHANGED handlers
  BY DEF Leave, Front
<1>2. /\ Len(frames) \in Nat /\ Len(frames) >= 1 /\ Len(stack) \in Nat
      /\ Floor \in Nat /\ frame.slots + 1 <= Floor /\ frame.slots \in Nat /\ frame.slots >= 1
      /\ frame = frames[Len(frames)] /\ DOMAIN frames = 1 .. Len(frames)
  BY LaidTop
<1>3. /\ frames' \in Seq(Frame) /\ Len(frames') = Len(frames) - 1
      /\ DOMAIN frames' = 1 .. Len(frames) - 1
      /\ \A i \in 1 .. Len(frames) - 1 : frames'[i] = frames[i] /\ i \in DOMAIN frames
      /\ Stacked(frames', frame.slots - 1) /\ Matched(frames', handlers)
  BY <1>1, Under
<1>4. Line(stack') /\ (Len(frames) # 1 => Len(stack') = frame.slots)
  <2>1. CASE Len(frames) = 1
    <3>1. Len(stack) - 2 \in Nat /\ Len(stack) - 2 <= Len(stack)
      BY <1>2
    <3> QED BY <1>1, <2>1, <3>1, LineCut DEF Drop, Laid
  <2>2. CASE Len(frames) # 1
    <3> DEFINE low == SubSeq(stack, 1, frame.slots - 1)
    <3>1. Line(low) /\ Len(low) = frame.slots - 1
      BY BelowFrame
    <3>2. stack' = Append(low, result)
      BY <1>1, <2>2
    <3> HIDE DEF low
    <3> QED BY <1>2, <3>1, <3>2, LineAppend
  <2> QED BY <2>1, <2>2
<1>5. Recorded' /\ Limits' /\ OwnCode'
  <2>1. Recorded' /\ OwnCode'
    BY <1>1, <1>3 DEF Laid, Recorded, OwnCode
  <2>2. Len(frames) <= FRAMES_MAX /\ FRAMES_MAX \in Nat /\ Len(handlers) <= EXCEPTION_HANDLERS_MAX
    BY BoundsAssumption DEF Laid, Limits
  <2>3. Len(frames') <= FRAMES_MAX /\ Len(handlers') <= EXCEPTION_HANDLERS_MAX
    BY <1>1, <1>2, <1>3, <2>2
  <2> QED BY <2>1, <2>3 DEF Limits
<1>6. Nest'
  <2>1. CASE Len(frames) = 1
    <3>1. DOMAIN frames' = {}
      BY <1>3, <2>1
    <3> QED BY <3>1 DEF Nest, Stacked
  <2>2. CASE Len(frames) # 1
    <3>1. frame.slots - 1 \in Int /\ Len(stack') \in Int /\ frame.slots - 1 <= Len(stack')
      BY <1>2, <1>4, <2>2
    <3> QED BY <1>3, <3>1, StackedUp DEF Nest
  <2> QED BY <2>1, <2>2
<1>7. Handling'
  BY <1>1, <1>3 DEF Handling
<1> QED BY <1>4, <1>5, <1>6, <1>7 DEF Laid

LEMMA LaidReuse ==
    ASSUME Laid, frames # <<>>, frame.ip.tries = <<>>, NEW c \in Closures, NEW self,
           NEW n \in Nat, Len(stack) - n >= Floor, Reuse(c, self, n)
    PROVE  Laid'
<1>1. CASE Reset
  BY <1>1, LaidReset
<1>2. CASE /\ stack' = SubSeq(stack, 1, frame.slots - 1)
                          \o Arguments(n, [stack EXCEPT ![Len(stack) - n] = self])
           /\ frames' = [frames EXCEPT ![Len(frames)] =
                            [closure |-> c, ip |-> Ready(c), slots |-> @.slots]]
           /\ UNCHANGED handlers
  <2>2. /\ Len(frames) \in Nat /\ Len(frames) >= 1 /\ frame = frames[Len(frames)]
        /\ Len(stack) \in Nat /\ DOMAIN stack = 1 .. Len(stack) /\ Floor \in Nat
        /\ frame.slots + 1 <= Floor /\ frame \in Frame /\ frame.slots \in Nat /\ frame.slots >= 1
        /\ frames \in Seq(Frame) /\ DOMAIN frames = 1 .. Len(frames)
    BY LaidTop
  <2> DEFINE f == [closure |-> c, ip |-> Ready(c), slots |-> frame.slots]
             k == Len(frames) - 1
             under == SubSeq(frames, 1, k)
             s == [stack EXCEPT ![Len(stack) - n] = self]
             low == SubSeq(stack, 1, frame.slots - 1)
  <2>3. f \in Frame /\ f.ip.code = f.closure /\ f.closure = c /\ f.ip.tries = <<>>
        /\ f.slots = frame.slots
    BY <2>2 DEF Frame, Ip, Ready
  <2>4. frames' = Append(under, f)
    <3>1. frames' = [frames EXCEPT ![Len(frames)] = f]
      BY <1>2, <2>2
    <3> QED BY <2>2, <2>3, <3>1, SeqTop
  <2>5. stack' = low \o SubSeq(s, Len(s) - n, Len(s))
    BY <1>2 DEF Arguments
  <2>6. Line(s) /\ Len(s) = Len(stack) /\ n < Len(s)
    <3>1. Len(stack) - n \in DOMAIN stack /\ n < Len(stack)
      BY <2>2
    <3> QED BY <3>1, LineSet DEF Laid
  <2>7. Line(low) /\ Len(low) = frame.slots - 1
    BY BelowFrame
  <2> HIDE DEF f, s, low
  <2>8. Line(stack') /\ Len(stack') = frame.slots + n
    <3>1. Line(stack') /\ Len(stack') = Len(low) + n + 1
      BY <2>5, <2>6, <2>7, LineMove
    <3>2. Len(low) = frame.slots - 1 /\ frame.slots \in Nat /\ n \in Nat
      BY <2>2, <2>7
    <3> QED BY <3>1, <3>2
  <2>9. /\ under \in Seq(Frame) /\ k \in 0 .. Len(frames) /\ k < FRAMES_MAX
        /\ Stacked(under, f.slots - 1) /\ Matched(under, handlers)
    <3>1. k < FRAMES_MAX
      BY <2>2, BoundsAssumption DEF Laid, Limits
    <3>2. under \in Seq(Frame) /\ Stacked(under, frame.slots - 1) /\ Matched(under, handlers)
      BY Under
    <3>3. k \in 0 .. Len(frames)
      BY <2>2
    <3> QED BY <2>3, <3>1, <3>2, <3>3
  <2> HIDE DEF under
  <2>10. Handling' /\ handlers' \in Seq(Handler) /\ Len(handlers') <= EXCEPTION_HANDLERS_MAX
    <3>1. handlers \in Seq(Handler) /\ Len(handlers) <= EXCEPTION_HANDLERS_MAX
      BY DEF Laid, Recorded, Limits
    <3> QED BY <1>2, <2>3, <2>4, <2>9, <3>1, MatchedPush DEF Handling
  <2>11. Rise(f.ip.tries) /\ Extent(f, Len(stack'))
    <3>1. DOMAIN f.ip.tries = {}
      BY <2>3
    <3>2. f.slots <= Len(stack')
      BY <2>2, <2>3, <2>8
    <3> QED BY <3>1, <3>2 DEF Rise, Extent
  <2> QED BY <2>3, <2>4, <2>8, <2>9, <2>10, <2>11, LaidOver DEF under
<1> QED BY <1>1, <1>2 DEF Reuse

\* OP_TAIL_CALL on a class with an initializer: the frame stays, over one slot.
LEMMA LaidLose ==
    ASSUME Laid, frames # <<>>, frame.ip.tries = <<>>, NEW n, LoseInitializer(n)
    PROVE  Laid'
<1>1. CASE Reset
  BY <1>1, LaidReset
<1>2. ASSUME NEW v, stack' = Append(SubSeq(stack, 1, frame.slots - 1), v),
             UNCHANGED <<frames, handlers>>
      PROVE  Laid'
  <2> DEFINE low == SubSeq(stack, 1, frame.slots - 1)
  <2>1. Line(low) /\ Len(low) = frame.slots - 1 /\ stack' = Append(low, v)
    BY <1>2, BelowFrame
  <2> HIDE DEF low
  <2>2. Line(stack') /\ Len(stack') = frame.slots - 1 + 1
    BY <2>1, LineAppend
  <2>3. Floor = frame.slots + 1 /\ frame.slots \in Nat
    BY LaidTop DEF Floor
  <2>4. Len(stack') >= Floor - 1
    BY <2>2, <2>3
  <2> QED BY <1>2, <2>2, <2>4, LaidSame
<1> QED BY <1>1, <1>2 DEF LoseInitializer

LEMMA LaidReturn ==
    ASSUME "return_in_try" \notin Exercised PROVE Laid /\ OpReturn => Laid'
<1> SUFFICES ASSUME Laid, OpReturn PROVE Laid'
  OBVIOUS
<1>1. frames # <<>> /\ Operands(1) /\ frame.ip.tries = <<>> /\ Leave(Peek(0))
  BY Runs DEF OpReturn, CanReturn
<1>2. Len(stack) >= Floor
  <2>1. Len(stack) \in Nat /\ Floor \in Nat /\ Len(stack) - 1 >= Floor - 1
    BY <1>1, LaidTop DEF Operands
  <2> QED BY <2>1
<1> QED BY <1>1, <1>2, LaidLeave

LEMMA LaidTailCall ==
    ASSUME "return_in_try" \notin Exercised PROVE Laid /\ OpTailCall => Laid'
<1> SUFFICES ASSUME Laid, OpTailCall PROVE Laid'
  OBVIOUS
<1>1. frames # <<>> /\ frame.ip.tries = <<>>
  BY Runs DEF OpTailCall, CanReturn
<1>2. PICK n \in 0 .. MaxArgs :
        /\ Operands(n + 1)
        /\ \/ \E t \in Target(Peek(n)) : Reuse(t.code, t.self, n)
           \/ LoseInitializer(n)
           \/ \E v \in Answers(Peek(n), n) : Leave(v)
           \/ Reset
  BY DEF OpTailCall
<1>3. n \in Nat /\ Len(stack) - (n + 1) >= Floor - 1 /\ Len(stack) \in Nat /\ Floor \in Nat
  BY <1>1, <1>2, BoundsAssumption, LaidTop DEF Operands
<1>4. Len(stack) - n >= Floor /\ Len(stack) >= Floor
  BY <1>3
<1>5. ASSUME NEW t \in Target(Peek(n)), Reuse(t.code, t.self, n) PROVE Laid'
  BY <1>1, <1>3, <1>4, <1>5, TargetCode, LaidReuse
<1>6. ASSUME NEW v, Leave(v) PROVE Laid'
  BY <1>1, <1>4, <1>6, LaidLeave
<1> QED BY <1>1, <1>2, <1>5, <1>6, LaidLose, LaidReset

-----------------------------------------------------------------------------
(* Exceptions.                                                             *)

\* Frame i goes on in other code, the frames above it are popped.
LEMMA LaidRewind ==
    ASSUME Laid, frames # <<>>, NEW i \in 1 .. Len(frames), NEW g \in Frame,
           g.slots = frames[i].slots, g.ip.code = g.closure, Rise(g.ip.tries),
           Line(stack'), Extent(g, Len(stack')),
           frames' = Append(SubSeq(frames, 1, i - 1), g), handlers' \in Seq(Handler),
           Len(handlers') <= EXCEPTION_HANDLERS_MAX, Handling'
    PROVE  Laid'
<1> DEFINE k == i - 1
<1>1. /\ Len(frames) \in Nat /\ frames \in Seq(Frame) /\ Len(stack) \in Int
      /\ DOMAIN frames = 1 .. Len(frames) /\ Stacked(frames, Len(stack)) /\ FRAMES_MAX \in Nat
  BY LaidTop, BoundsAssumption DEF Laid, Nest
<1>2. k \in Nat /\ k + 1 = i /\ k < Len(frames) /\ k \in 0 .. Len(frames) /\ k < FRAMES_MAX
  BY <1>1 DEF Laid, Limits
<1>3. frames' = Append(SubSeq(frames, 1, k), g)
  OBVIOUS
<1> HIDE DEF k
<1>4. Stacked(SubSeq(frames, 1, k), frames[k + 1].slots - 1)
  BY <1>1, <1>2, StackedCut
<1>5. Stacked(SubSeq(frames, 1, k), g.slots - 1)
  BY <1>2, <1>4
<1> QED BY <1>2, <1>3, <1>5, LaidOver

LEMMA LaidTry == Laid /\ OpTry => Laid'
<1> SUFFICES ASSUME Laid, OpTry PROVE Laid'
  OBVIOUS
<1> DEFINE height == Len(stack) - frame.slots + 1
           h == [frameIndex |-> Len(frames), catchIp |-> frame.ip, stackTop |-> Len(stack)]
           ip == [code |-> frame.ip.code, tries |-> Append(frame.ip.tries, height)]
           g == [closure |-> frame.closure, ip |-> ip, slots |-> frame.slots]
           under == SubSeq(frames, 1, Len(frames) - 1)
<1>1. frames # <<>>
  BY Runs DEF OpTry
<1>2. CASE Reset
  BY <1>1, <1>2, LaidReset
<1>3. CASE /\ Len(handlers) < EXCEPTION_HANDLERS_MAX
           /\ handlers' = Append(handlers, h)
           /\ frames' = [frames EXCEPT ![Len(frames)].ip.tries = Append(@, height)]
           /\ UNCHANGED stack
  <2>1. /\ Len(frames) \in Nat /\ Len(frames) \in 1 .. Len(frames)
        /\ under \in Seq(Frame) /\ Len(under) = Len(frames) - 1
        /\ frame = frames[Len(frames)] /\ frame \in Frame /\ frames = Append(under, frame)
        /\ Rise(frame.ip.tries) /\ Extent(frame, Len(stack)) /\ Len(stack) \in Nat
        /\ frame.ip.code = frame.closure /\ handlers \in Seq(Handler)
        /\ Matched(frames, handlers) /\ Len(frame.ip.tries) <= Len(handlers)
    BY <1>1, TopOfFrames
  <2>2. /\ frame.slots \in Nat /\ frame.slots >= 1 /\ frame.ip.tries \in Seq(Nat)
        /\ Len(frame.ip.tries) \in Nat /\ DOMAIN frame.ip.tries = 1 .. Len(frame.ip.tries)
        /\ \A k \in DOMAIN frame.ip.tries : frame.ip.tries[k] \in Nat
        /\ frame.ip \in Ip /\ frame.closure \in Closures /\ frame.ip.code \in Closures
        /\ frame.ip = [code |-> frame.ip.code, tries |-> frame.ip.tries]
    BY <2>1, FrameFacts DEF Frame, Ip
  <2>3. height \in Nat /\ height >= 1 /\ frame.slots + height - 1 = Len(stack)
        /\ \A k \in DOMAIN frame.ip.tries : frame.ip.tries[k] <= height
    <3>1. frame.slots <= Len(stack) /\ \A k \in DOMAIN frame.ip.tries :
             frame.ip.tries[k] \in Nat /\ frame.slots + frame.ip.tries[k] - 1 <= Len(stack)
      BY <2>1, <2>2 DEF Extent
    <3> DEFINE n == Len(stack)
               a == frame.slots
    <3>2. n \in Nat /\ a \in Nat /\ a <= n
      BY <2>1, <2>2, <3>1
    <3>3. ASSUME NEW k \in DOMAIN frame.ip.tries PROVE frame.ip.tries[k] <= n - a + 1
      <4> DEFINE x == frame.ip.tries[k]
      <4>1. x \in Nat /\ a + x - 1 <= n
        BY <3>1
      <4> HIDE DEF a, n, x
      <4>2. x <= n - a + 1
        BY <3>2, <4>1
      <4> QED BY <4>2 DEF x
    <3>4. n - a + 1 \in Nat /\ n - a + 1 >= 1 /\ a + (n - a + 1) - 1 = n
      <4> HIDE DEF a, n
      <4> QED BY <3>2
    <3> QED BY <3>3, <3>4
  <2>4. frames' = Append(under, g)
    <3>1. frames' = [frames EXCEPT ![Len(frames)] = g]
      <4>1. g = [frame EXCEPT !.ip.tries = Append(frame.ip.tries, height)]
        BY <2>1, FrameUpdate
      <4>2. frames' = [frames EXCEPT ![Len(frames)] =
                          [frame EXCEPT !.ip.tries = Append(frame.ip.tries, height)]]
        BY <1>3, <2>1
      <4> HIDE DEF g
      <4> QED BY <4>1, <4>2
    <3>2. g \in Frame
      BY <2>2, <2>3, SeqAppend DEF Frame, Ip
    <3>3. frames \in Seq(Frame)
      BY DEF Laid, Recorded
    <3> HIDE DEF g
    <3> QED BY <1>1, <3>1, <3>2, <3>3, SeqTop
  <2>5. /\ g \in Frame /\ g.slots = frame.slots /\ g.closure = frame.closure /\ g.ip.code = g.closure
        /\ g.ip.tries = Append(frame.ip.tries, height)
    <3>1. ip \in Ip
      <4>1. Append(frame.ip.tries, height) \in Seq(Nat)
        BY <2>2, <2>3, SeqAppend
      <4> HIDE DEF height
      <4> QED BY <2>2, <4>1 DEF Ip
    <3>2. g \in Frame
      <4> HIDE DEF ip
      <4> QED BY <2>2, <3>1 DEF Frame
    <3> QED BY <2>1, <3>2
  <2>6. h \in Handler
    BY <2>1, <2>2 DEF Handler
  <2>7. h.frameIndex = Len(frames) /\ h.catchIp = frame.ip /\ h.stackTop = Len(stack)
    OBVIOUS
  <2> HIDE DEF g, h, height, ip, under
  <2> DEFINE t == frame.ip.tries
             l == Len(t)
  <2>8. /\ g.ip.tries \in Seq(Nat) /\ DOMAIN g.ip.tries = 1 .. l + 1 /\ g.ip.tries[l + 1] = height
        /\ \A k \in 1 .. l : g.ip.tries[k] = t[k]
    BY <2>2, <2>3, <2>5, SeqAppend
  <2>9. Rise(g.ip.tries) /\ Extent(g, Len(stack'))
    <3>1. \A k \in 1 .. l : t[k] \in Nat /\ t[k] >= 1 /\ t[k] <= height /\ frame.slots + t[k] - 1 <= Len(stack)
      BY <2>1, <2>2, <2>3 DEF Rise, Extent
    <3>2. \A k, j \in 1 .. l : k < j => t[k] <= t[j]
      BY <2>1, <2>2 DEF Rise
    <3>3. l \in Nat /\ frame.slots <= Len(stack)
      BY <2>1, <2>2 DEF Extent
    <3> HIDE DEF t, l
    <3>4. ASSUME NEW k \in 1 .. l + 1
          PROVE  g.ip.tries[k] >= 1 /\ g.slots + g.ip.tries[k] - 1 <= Len(stack)
      <4>1. CASE k = l + 1
        <5>1. g.ip.tries[k] = height /\ g.slots = frame.slots
          BY <2>5, <2>8, <4>1
        <5>2. height \in Nat /\ height >= 1 /\ frame.slots + height - 1 <= Len(stack)
          BY <2>1, <2>2, <2>3
        <5> QED BY <5>1, <5>2
      <4>2. CASE k # l + 1
        <5>1. k \in 1 .. l
          BY <3>3, <4>2
        <5> QED BY <2>5, <2>8, <3>1, <5>1
      <4> QED BY <4>1, <4>2
    <3>5. ASSUME NEW k \in 1 .. l + 1, NEW j \in 1 .. l + 1, k < j
          PROVE  g.ip.tries[k] <= g.ip.tries[j]
      <4>1. k \in 1 .. l /\ (j = l + 1 \/ j \in 1 .. l)
        BY <3>3, <3>5
      <4> QED BY <2>8, <3>1, <3>2, <3>5, <4>1
    <3> QED BY <1>3, <2>5, <2>8, <3>3, <3>4, <3>5 DEF Rise, Extent
  <2>10. Handles(h, g, Len(under) + 1, l + 1)
    <3>1. SubSeq(g.ip.tries, 1, (l + 1) - 1) = t
      <4>1. l \in Nat /\ (l + 1) - 1 = l /\ t \in Seq(Nat) /\ Len(g.ip.tries) = l + 1
        BY <2>2, <2>8
      <4>2. l <= Len(g.ip.tries)
        BY <4>1
      <4> DEFINE r == SubSeq(g.ip.tries, 1, l)
      <4>3. r \in Seq(Nat) /\ Len(r) = l /\ \A k \in 1 .. l : r[k] = g.ip.tries[k]
        BY <2>8, <4>1, <4>2, SeqPrefix
      <4>4. r = t
        <5> HIDE DEF r, t
        <5> QED BY <2>8, <4>1, <4>3, SeqSame DEF l
      <4> QED BY <4>1, <4>4
    <3>2. h.catchIp = [code |-> g.closure, tries |-> t]
      BY <2>1, <2>2, <2>5, <2>7
    <3>3. h.stackTop = g.slots + g.ip.tries[l + 1] - 1 /\ h.frameIndex = Len(under) + 1
      <4>1. h.stackTop = g.slots + g.ip.tries[l + 1] - 1
        BY <2>3, <2>5, <2>7, <2>8
      <4>2. Len(under) + 1 = Len(frames)
        BY <2>1
      <4> QED BY <2>7, <4>1, <4>2
    <3> QED BY <3>1, <3>2, <3>3 DEF Handles
  <2>11. Handling'
    <3>1. Matched(Append(under, frame), handlers)
      BY <2>1
    <3>2. Matched(Append(under, g), Append(handlers, h))
      BY <2>1, <2>3, <2>5, <2>6, <2>10, <3>1, MatchedTry
    <3> QED BY <1>3, <2>4, <3>2 DEF Handling
  <2>12. handlers' \in Seq(Handler) /\ Len(handlers') <= EXCEPTION_HANDLERS_MAX
    <3>1. EXCEPTION_HANDLERS_MAX \in Nat
      BY BoundsAssumption
    <3> QED BY <1>3, <2>1, <2>6, <3>1, SeqAppend
  <2>13. Line(stack')
    BY <1>3 DEF Laid
  <2>14. frames' = Append(SubSeq(frames, 1, Len(frames) - 1), g)
    BY <2>4 DEF under
  <2> QED BY <1>1, <1>3, <2>1, <2>5, <2>9, <2>11, <2>12, <2>13, <2>14, LaidRewind
<1> QED BY <1>1, <1>2, <1>3 DEF OpTry

\* The try blocks that are left when the innermost one ends.
LEMMA RiseFront ==
    ASSUME NEW f \in Frame, Rise(f.ip.tries), f.ip.tries # <<>>, NEW g \in Frame,
           g.slots = f.slots, g.ip.tries = Front(f.ip.tries), NEW n \in Nat,
           f.slots + Last(f.ip.tries) - 1 <= n
    PROVE  Rise(g.ip.tries) /\ Extent(g, n) /\ f.slots + Last(f.ip.tries) - 1 \in Nat
<1> DEFINE t == f.ip.tries
           l == Len(t)
<1>1. /\ f.slots \in Nat /\ f.slots >= 1 /\ t \in Seq(Nat) /\ l \in Nat /\ l >= 1
      /\ Last(t) = t[l] /\ DOMAIN t = 1 .. l /\ \A k \in 1 .. l : t[k] \in Nat
  BY FrameFacts, SeqEnds
<1>2. DOMAIN g.ip.tries = 1 .. l - 1 /\ \A k \in 1 .. l - 1 : g.ip.tries[k] = t[k]
  BY <1>1, FrameFacts, SeqEnds
<1>3. /\ \A k \in 1 .. l : t[k] >= 1
      /\ \A k, j \in 1 .. l : k < j => t[k] <= t[j]
  BY <1>1 DEF Rise
<1>4. \A k \in 1 .. l - 1 : k \in 1 .. l /\ k < l /\ l \in 1 .. l
  BY <1>1
<1>5. t[l] \in Nat /\ t[l] >= 1 /\ f.slots + t[l] - 1 <= n
  <2>1. l \in 1 .. l
    BY <1>1
  <2> QED BY <1>1, <1>3, <2>1
<1> HIDE DEF t, l
<1>6. Rise(g.ip.tries)
  BY <1>2, <1>3, <1>4 DEF Rise
<1>7. ASSUME NEW k \in 1 .. l - 1 PROVE g.slots + g.ip.tries[k] - 1 <= n
  <2>1. t[k] \in Nat /\ t[k] <= t[l] /\ g.ip.tries[k] = t[k]
    BY <1>1, <1>2, <1>3, <1>4
  <2> QED BY <1>1, <1>5, <2>1
<1>8. g.slots <= n /\ f.slots + t[l] - 1 \in Nat
  BY <1>1, <1>5
<1> QED BY <1>1, <1>2, <1>6, <1>7, <1>8 DEF Extent, t

LEMMA LaidTryEnd == Laid /\ OpTryEnd => Laid'
<1> SUFFICES ASSUME Laid, OpTryEnd PROVE Laid'
  OBVIOUS
<1> DEFINE ip == [code |-> frame.ip.code, tries |-> Front(frame.ip.tries)]
           g == [closure |-> frame.closure, ip |-> ip, slots |-> frame.slots]
           under == SubSeq(frames, 1, Len(frames) - 1)
<1>1. /\ frames # <<>> /\ frame.ip.tries # <<>> /\ TryEnd
      /\ Len(stack) = frame.slots + Last(frame.ip.tries) - 1
      /\ frames' = [frames EXCEPT ![Len(frames)].ip.tries = Front(@)]
      /\ UNCHANGED stack
  BY Runs DEF OpTryEnd
<1>2. /\ Len(frames) \in Nat /\ Len(frames) \in 1 .. Len(frames)
      /\ under \in Seq(Frame) /\ Len(under) = Len(frames) - 1
      /\ frame = frames[Len(frames)] /\ frame \in Frame /\ frames = Append(under, frame)
      /\ Rise(frame.ip.tries) /\ Extent(frame, Len(stack)) /\ Len(stack) \in Nat
      /\ frame.ip.code = frame.closure /\ handlers \in Seq(Handler)
      /\ Matched(frames, handlers) /\ Len(frame.ip.tries) <= Len(handlers)
  BY <1>1, TopOfFrames
<1>3. /\ frame.ip.tries \in Seq(Nat) /\ Front(frame.ip.tries) \in Seq(Nat)
      /\ Len(frame.ip.tries) \in Nat /\ Len(frame.ip.tries) >= 1
      /\ frame.closure \in Closures /\ frame.ip.code \in Closures /\ frame.slots \in Nat \ {0}
  BY <1>1, <1>2, FrameFacts, SeqEnds DEF Frame, Ip
<1>4. /\ g \in Frame /\ g.slots = frame.slots /\ g.closure = frame.closure /\ g.ip.code = g.closure
      /\ g.ip.tries = Front(frame.ip.tries)
  <2>1. ip \in Ip
    BY <1>3 DEF Ip
  <2>2. g \in Frame
    <3> HIDE DEF ip
    <3> QED BY <1>3, <2>1 DEF Frame
  <2> QED BY <1>2, <2>2
<1>5. frames' = Append(under, g)
  <2>1. g = [frame EXCEPT !.ip.tries = Front(frame.ip.tries)]
    BY <1>2, FrameUpdate
  <2>2. frames' = [frames EXCEPT ![Len(frames)] = [frame EXCEPT !.ip.tries = Front(frame.ip.tries)]]
    BY <1>1, <1>2
  <2>3. frames \in Seq(Frame)
    BY DEF Laid, Recorded
  <2> HIDE DEF g
  <2> QED BY <1>1, <1>4, <2>1, <2>2, <2>3, SeqTop
<1> HIDE DEF ip, g, under
<1>6. Rise(g.ip.tries) /\ Extent(g, Len(stack'))
  <2>1. frame.slots + Last(frame.ip.tries) - 1 <= Len(stack)
    BY <1>1, <1>2
  <2> QED BY <1>1, <1>2, <1>4, <2>1, RiseFront
<1>7. handlers # <<>> /\ handlers' = Front(handlers)
  <2>1. handlers # <<>>
    BY <1>2, <1>3
  <2> QED BY <1>1, <2>1 DEF TryEnd
<1>8. handlers' \in Seq(Handler) /\ Len(handlers') <= EXCEPTION_HANDLERS_MAX
  <2>1. handlers' \in Seq(Handler) /\ Len(handlers') = Len(handlers) - 1 /\ Len(handlers) \in Nat
    BY <1>2, <1>7, SeqEnds
  <2>2. Len(handlers) <= EXCEPTION_HANDLERS_MAX /\ EXCEPTION_HANDLERS_MAX \in Nat
    BY BoundsAssumption DEF Laid, Limits
  <2> QED BY <2>1, <2>2
<1>9. Handling'
  <2>1. Matched(Append(under, frame), handlers)
    BY <1>2
  <2>2. Matched(Append(under, g), Front(handlers))
    BY <1>1, <1>2, <1>4, <2>1, MatchedTryEnd
  <2> QED BY <1>5, <1>7, <2>2 DEF Handling
<1>10. Line(stack')
  BY <1>1 DEF Laid
<1>11. frames' = Append(SubSeq(frames, 1, Len(frames) - 1), g)
  BY <1>5 DEF under
<1> QED BY <1>1, <1>2, <1>4, <1>6, <1>8, <1>9, <1>10, <1>11, LaidRewind

\* The last handler is that of the innermost try block, of frame i: a throw unwinds
\* to that frame, and out of the block.
Resumed(f, ip) == [closure |-> f.closure, ip |-> ip, slots |-> f.slots]
LEMMA Caught ==
    ASSUME Laid, frames # <<>>, handlers # <<>>, NEW h, h = Last(handlers),
           NEW left, left = Unwound(h), frames' = [left EXCEPT ![Len(left)].ip = h.catchIp]
    PROVE  \E i \in 1 .. Len(frames) :
              /\ frames[i].ip.tries # <<>>
              /\ \A j \in i + 1 .. Len(frames) : frames[j].ip.tries = <<>>
              /\ h.stackTop = frames[i].slots + Last(frames[i].ip.tries) - 1
              /\ h.catchIp = [code |-> frames[i].closure, tries |-> Front(frames[i].ip.tries)]
              /\ frames' = Append(SubSeq(frames, 1, i - 1), Resumed(frames[i], h.catchIp))
              /\ Matched(Append(SubSeq(frames, 1, i - 1), frames[i]), handlers)
<1>1. /\ frames \in Seq(Frame) /\ Len(frames) \in Nat /\ DOMAIN frames = 1 .. Len(frames)
      /\ handlers \in Seq(Handler) /\ Matched(frames, handlers) /\ Len(stack) \in Nat
  BY LaidTop DEF Laid, Recorded, Handling
<1>2. PICK i \in 1 .. Len(frames) :
        /\ frames[i].ip.tries # <<>>
        /\ Handles(h, frames[i], i, Len(frames[i].ip.tries))
        /\ \A j \in i + 1 .. Len(frames) : frames[j].ip.tries = <<>>
  BY <1>1, MatchedLast
<1> DEFINE f == frames[i]
           t == f.ip.tries
           g == [closure |-> f.closure, ip |-> h.catchIp, slots |-> f.slots]
           under == SubSeq(frames, 1, i - 1)
<1>3. i \in Nat /\ i >= 1 /\ i <= Len(frames) /\ i - 1 \in Nat /\ i - 1 <= Len(frames)
  BY <1>1
<1>4. /\ f \in Frame /\ t \in Seq(Nat) /\ t # <<>> /\ f.slots \in Nat \ {0}
      /\ f.closure \in Closures /\ f.ip.code = f.closure /\ Rise(t) /\ Extent(f, Len(stack))
  <2>1. f \in Frame
    BY <1>1, SeqElement
  <2> QED BY <1>1, <1>2, <2>1 DEF Frame, Ip, Laid, OwnCode, Nest, Stacked
<1>5. /\ Len(t) \in Nat /\ Len(t) \in DOMAIN t /\ Last(t) = t[Len(t)] /\ Last(t) \in Nat
      /\ Front(t) \in Seq(Nat) /\ Front(t) = SubSeq(t, 1, Len(t) - 1)
  <2>1. Len(t) \in Nat /\ Len(t) >= 1 /\ DOMAIN t = 1 .. Len(t) /\ Last(t) = t[Len(t)]
        /\ Last(t) \in Nat /\ Front(t) \in Seq(Nat)
    BY <1>4, SeqEnds
  <2> QED BY <2>1 DEF Front
<1>6. /\ h.frameIndex = i /\ h.stackTop = f.slots + Last(t) - 1
      /\ h.catchIp = [code |-> f.closure, tries |-> Front(t)]
  BY <1>2, <1>5 DEF Handles
<1>8. /\ g \in Frame /\ g.slots = f.slots /\ g.closure = f.closure /\ g.ip.code = g.closure
      /\ g.ip.tries = Front(t)
  <2>1. h.catchIp \in Ip /\ h.catchIp.code = f.closure /\ h.catchIp.tries = Front(t)
    BY <1>4, <1>5, <1>6 DEF Ip
  <2>2. g \in Frame
    BY <1>4, <2>1 DEF Frame
  <2> QED BY <2>1, <2>2
<1>9. SubSeq(frames, 1, i) \in Seq(Frame) /\ Len(SubSeq(frames, 1, i)) = i
      /\ DOMAIN SubSeq(frames, 1, i) = 1 .. i
      /\ \A j \in 1 .. i : SubSeq(frames, 1, i)[j] = frames[j]
  BY <1>1, <1>3, SeqPrefix
<1>10. left = SubSeq(frames, 1, i)
  <2>1. CASE i < Len(frames)
    BY <1>6, <2>1 DEF Unwound
  <2>2. CASE i = Len(frames)
    BY <1>1, <1>6, <2>2 DEF Unwound
  <2> QED BY <1>1, <2>1, <2>2, TopOrUnder
<1>7. left \in Seq(Frame) /\ Len(left) = i /\ \A j \in 1 .. i : left[j] = frames[j]
  BY <1>9, <1>10
<1>11. under \in Seq(Frame) /\ Len(under) = i - 1 /\ \A j \in 1 .. i - 1 : under[j] = frames[j]
  BY <1>1, <1>3, SeqPrefix
<1>12. SubSeq(left, 1, i - 1) = under
  <2> DEFINE a == SubSeq(left, 1, i - 1)
  <2>1. a \in Seq(Frame) /\ Len(a) = i - 1 /\ \A j \in 1 .. i - 1 : a[j] = left[j]
    BY <1>3, <1>7, SeqPrefix
  <2>2. \A j \in 1 .. i - 1 : j \in 1 .. i
    BY <1>3
  <2> HIDE DEF a, under
  <2>3. \A j \in 1 .. i - 1 : a[j] = under[j]
    BY <1>7, <1>11, <2>1, <2>2
  <2>4. a = under
    BY <1>11, <2>1, <2>3, SeqSame
  <2> QED BY <2>4 DEF a
<1>13. /\ left \in Seq(Frame) /\ Len(left) = i /\ left # <<>> /\ left[Len(left)] = f
       /\ Len(left) \in DOMAIN left
  BY <1>3, <1>9, <1>10
<1> HIDE DEF g, under
<1>14. frames' = Append(under, g)
  <2>1. g = [f EXCEPT !.ip = h.catchIp]
    BY <1>4, FrameUpdate DEF g
  <2>2. frames' = [left EXCEPT ![Len(left)] = [f EXCEPT !.ip = h.catchIp]]
    BY <1>13
  <2>3. frames' = Append(SubSeq(left, 1, Len(left) - 1), g)
    <3> HIDE DEF f
    <3> QED BY <1>8, <1>13, <2>1, <2>2, SeqTop
  <2> QED BY <1>12, <1>13, <2>3
<1>15. Matched(Append(under, f), handlers)
  <2>1. Matched(SubSeq(frames, 1, i), handlers)
    BY <1>1, <1>2, <1>3, MatchedCut
  <2>2. [left EXCEPT ![Len(left)] = f] = left
    BY <1>13
  <2>3. left = Append(under, f)
    <3> HIDE DEF f
    <3> QED BY <1>4, <1>12, <1>13, <2>2, SeqTop
  <2> QED BY <1>10, <2>1, <2>3
<1> QED BY <1>2, <1>6, <1>14, <1>15 DEF under, g, Resumed

LEMMA LaidThrow == Laid /\ OpThrow => Laid'
<1> SUFFICES ASSUME Laid, OpThrow PROVE Laid'
  OBVIOUS
<1> DEFINE h == Last(handlers)
           left == Unwound(h)
<1>1. frames # <<>>
  BY Runs DEF OpThrow
<1>2. CASE Reset
  BY <1>1, <1>2, LaidReset
<1>3. CASE /\ handlers # <<>>
           /\ stack' = Append(Restored(h.stackTop), Peek(0))
           /\ frames' = [left EXCEPT ![Len(left)].ip = h.catchIp]
           /\ handlers' = Front(handlers)
  <2>1. /\ frames \in Seq(Frame) /\ Len(frames) \in Nat /\ DOMAIN frames = 1 .. Len(frames)
        /\ handlers \in Seq(Handler) /\ Matched(frames, handlers) /\ Len(stack) \in Nat
    BY <1>1, LaidTop DEF Laid, Recorded, Handling
  <2>2. PICK i \in 1 .. Len(frames) :
          /\ frames[i].ip.tries # <<>>
          /\ h.stackTop = frames[i].slots + Last(frames[i].ip.tries) - 1
          /\ h.catchIp = [code |-> frames[i].closure, tries |-> Front(frames[i].ip.tries)]
          /\ frames' = Append(SubSeq(frames, 1, i - 1), Resumed(frames[i], h.catchIp))
          /\ Matched(Append(SubSeq(frames, 1, i - 1), frames[i]), handlers)
    <3> HIDE DEF h, left
    <3> QED BY <1>1, <1>3, Caught DEF h, left
  <2> DEFINE f == frames[i]
             t == f.ip.tries
             g == [closure |-> f.closure, ip |-> h.catchIp, slots |-> f.slots]
             under == SubSeq(frames, 1, i - 1)
  <2>3. i \in Nat /\ i >= 1 /\ i <= Len(frames) /\ i - 1 \in Nat /\ i - 1 <= Len(frames)
    BY <2>1
  <2>4. /\ f \in Frame /\ t \in Seq(Nat) /\ t # <<>> /\ f.slots \in Nat \ {0}
        /\ f.closure \in Closures /\ f.ip.code = f.closure /\ Rise(t) /\ Extent(f, Len(stack))
    <3>1. f \in Frame
      BY <2>1, SeqElement
    <3> QED BY <2>1, <2>2, <3>1 DEF Frame, Ip, Laid, OwnCode, Nest, Stacked
  <2>5. /\ Len(t) \in Nat /\ Len(t) \in DOMAIN t /\ Last(t) = t[Len(t)] /\ Last(t) \in Nat
        /\ Front(t) \in Seq(Nat) /\ Front(t) = SubSeq(t, 1, Len(t) - 1)
    <3>1. Len(t) \in Nat /\ Len(t) >= 1 /\ DOMAIN t = 1 .. Len(t) /\ Last(t) = t[Len(t)]
          /\ Last(t) \in Nat /\ Front(t) \in Seq(Nat)
      BY <2>4, SeqEnds
    <3> QED BY <3>1 DEF Front
  <2>6. /\ h.stackTop = f.slots + Last(t) - 1
        /\ h.catchIp = [code |-> f.closure, tries |-> Front(t)]
    BY <2>2
  <2> DEFINE top == h.stackTop
  <2>7. top <= Len(stack) /\ top \in Int
    <3>1. f.slots + t[Len(t)] - 1 <= Len(stack)
      BY <2>4, <2>5 DEF Extent
    <3>2. f.slots \in Nat /\ Last(t) \in Nat
      BY <2>4, <2>5
    <3> QED BY <2>5, <2>6, <3>1, <3>2
  <2>8. /\ g \in Frame /\ g.slots = f.slots /\ g.closure = f.closure /\ g.ip.code = g.closure
        /\ g.ip.tries = Front(t)
    <3>1. h.catchIp \in Ip /\ h.catchIp.code = f.closure /\ h.catchIp.tries = Front(t)
      BY <2>4, <2>5, <2>6 DEF Ip
    <3>2. g \in Frame
      BY <2>4, <3>1 DEF Frame
    <3> QED BY <3>1, <3>2
  <2>11. under \in Seq(Frame) /\ Len(under) = i - 1 /\ \A j \in 1 .. i - 1 : under[j] = frames[j]
    BY <2>1, <2>3, SeqPrefix
  <2>14. frames' = Append(under, g)
    BY <2>2 DEF Resumed
  <2>15. Matched(Append(under, f), handlers)
    BY <2>2
  <2> HIDE DEF h, left, g, under, top
  <2>16. Handling'
    <3>1. Len(t) <= Len(handlers)
      <4>1. Append(under, f) \in Seq(Frame) /\ Len(Append(under, f)) = i
            /\ Append(under, f)[i] = f /\ Append(under, f) # <<>>
        <5> HIDE DEF f
        <5>1. Append(under, f) \in Seq(Frame) /\ Len(Append(under, f)) = (i - 1) + 1
              /\ Append(under, f)[(i - 1) + 1] = f
          BY <2>4, <2>11, SeqAppend
        <5>2. (i - 1) + 1 = i /\ i # 0
          BY <2>3
        <5> QED BY <5>1, <5>2
      <4> HIDE DEF f
      <4> QED BY <2>1, <2>15, <4>1, MatchedLength DEF t
    <3>2. Matched(Append(under, g), Front(handlers))
      <4> HIDE DEF f
      <4> QED BY <2>1, <2>4, <2>8, <2>11, <2>15, <3>1, MatchedTryEnd DEF t
    <3> QED BY <1>3, <2>14, <3>2 DEF Handling
  <2>17. Line(stack') /\ Len(stack') = top + 1 /\ top \in Nat
    <3>1. top \in Nat /\ top >= 1
      <4>1. Last(t) \in Nat /\ Last(t) >= 1
        BY <2>4, <2>5 DEF Rise
      <4>2. top = f.slots + Last(t) - 1 /\ f.slots \in Nat /\ f.slots >= 1
        BY <2>4, <2>6 DEF top
      <4> HIDE DEF f, t
      <4> QED BY <4>1, <4>2
    <3>2. stack' = Append(Restored(top), Peek(0))
      BY <1>3 DEF top
    <3> QED BY <3>1, <3>2, LineRestored, LineAppend
  <2>18. Rise(g.ip.tries) /\ Extent(g, Len(stack'))
    <3>1. top + 1 \in Nat /\ f.slots + Last(t) - 1 <= top + 1
      BY <2>6, <2>17 DEF top
    <3>2. Rise(g.ip.tries) /\ Extent(g, top + 1)
      <4> HIDE DEF f
      <4> QED BY <2>4, <2>8, <3>1, RiseFront DEF t
    <3> QED BY <2>17, <3>2
  <2>19. handlers' \in Seq(Handler) /\ Len(handlers') <= EXCEPTION_HANDLERS_MAX
    <3>1. handlers' \in Seq(Handler) /\ Len(handlers') = Len(handlers) - 1 /\ Len(handlers) \in Nat
      BY <1>3, <2>1, SeqEnds
    <3>2. Len(handlers) <= EXCEPTION_HANDLERS_MAX /\ EXCEPTION_HANDLERS_MAX \in Nat
      BY BoundsAssumption DEF Laid, Limits
    <3> QED BY <3>1, <3>2
  <2>20. frames' = Append(SubSeq(frames, 1, i - 1), g)
    BY <2>14 DEF under
  <2>21. g.slots = frames[i].slots /\ g.closure = frames[i].closure
    BY <2>8
  <2> QED BY <1>1, <1>3, <2>8, <2>16, <2>17, <2>18, <2>19, <2>20, <2>21, LaidRewind
<1> QED BY <1>1, <1>2, <1>3 DEF OpThrow

-----------------------------------------------------------------------------
(* Initial states, scripts, and the theorems.                              *)

LEMMA InitLaid == Init => Laid
<1> SUFFICES ASSUME Init PROVE Laid
  OBVIOUS
<1>1. stack = <<>> /\ frames = <<>> /\ handlers = <<>>
  BY DEF Init
<1>2. Line(<<>>)
  <2>1. <<>> \in Seq({})
    OBVIOUS
  <2> QED BY <2>1 DEF Line
<1>3. Recorded /\ Limits /\ OwnCode /\ Nest
  BY <1>1, BoundsAssumption DEF Recorded, Limits, OwnCode, Nest, Stacked
<1>4. Handling
  BY <1>1, MatchedNone DEF Handling
<1> QED BY <1>1, <1>2, <1>3, <1>4 DEF Laid

\* A script starts on what the last one left.
LEMMA LaidInterpret == Laid /\ Interpret => Laid'
<1> SUFFICES ASSUME Laid, Interpret PROVE Laid'
  OBVIOUS
<1> DEFINE f == [closure |-> Script, ip |-> Ready(Script), slots |-> Len(stack) + 1]
<1>1. /\ frames = <<>> /\ stack' = Append(stack, Script) /\ frames' = <<f>> /\ UNCHANGED handlers
  BY DEF Interpret, Push
<1>2. Line(stack') /\ Len(stack') = Len(stack) + 1 /\ Len(stack) \in Nat
  BY <1>1, LineAppend, LineFacts DEF Laid
<1>3. f \in Frame /\ f.ip.tries = <<>> /\ f.ip.code = f.closure /\ f.slots = Len(stack) + 1
  BY <1>2, ClosuresAssumption DEF Frame, Ip, Ready
<1> HIDE DEF f
<1>4. frames' \in Seq(Frame) /\ Len(frames') = 1 /\ DOMAIN frames' = 1 .. 1 /\ frames'[1] = f
      /\ frames' = Append(<<>>, f)
  BY <1>1, <1>3
<1>5. Recorded' /\ Limits' /\ OwnCode'
  <2>1. FRAMES_MAX >= 1
    BY BoundsAssumption
  <2> QED BY <1>1, <1>3, <1>4, <2>1 DEF Laid, Recorded, Limits, OwnCode
<1>6. Nest'
  <2>1. DOMAIN f.ip.tries = {} /\ f.slots <= Len(stack')
    BY <1>2, <1>3
  <2> QED BY <1>4, <2>1 DEF Nest, Stacked, Rise, Extent
<1>7. Handling'
  <2>1. <<>> \in Seq(Frame) /\ handlers \in Seq(Handler) /\ Matched(<<>>, handlers)
    BY <1>1 DEF Laid, Recorded, Handling
  <2> QED BY <1>1, <1>3, <1>4, <2>1, MatchedPush DEF Handling
<1> QED BY <1>2, <1>5, <1>6, <1>7 DEF Laid

LEMMA LaidNext ==
    ASSUME "return_in_try" \notin Exercised PROVE Laid /\ [Next]_vars => Laid'
<1> SUFFICES ASSUME Laid, [Next]_vars PROVE Laid'
  OBVIOUS
<1>1. CASE RuntimeError
  BY <1>1, LaidReset DEF RuntimeError
<1>2. CASE UNCHANGED vars
  <2>1. UNCHANGED <<stack, frames, handlers>>
    BY <1>2 DEF vars
  <2> QED BY <2>1 DEF Laid, Recorded, Limits, OwnCode, Nest, Handling
<1> QED BY <1>1, <1>2, LaidInFrame, LaidCall, LaidSuperInvoke, LaidReturn, LaidTailCall, LaidTry,
           LaidTryEnd, LaidThrow, LaidInterpret DEF Next

\* The machine never loses track of a frame or a handler, in programs that return
\* from no try block.
THEOREM FramesInvariance ==
    ASSUME "return_in_try" \notin Exercised PROVE Spec => []Laid
<1>1. Init => Laid
  BY InitLaid
<1>2. Laid /\ [Next]_vars => Laid'
  BY LaidNext
<1> QED BY <1>1, <1>2, PTL DEF Spec

\* Frames lie one above the other, whatever is called, returned from, called in tail
\* position or unwound, and whatever it does to captured variables.
THEOREM Nesting ==
    ASSUME "return_in_try" \notin Exercised PROVE Spec => []FramesNest
<1>1. Laid => FramesNest
  <2> SUFFICES ASSUME Laid PROVE FramesNest
    OBVIOUS
  <2>1. \A i \in DOMAIN frames : frames[i].slots <= Len(stack) /\ frames[i] \in Frame
    BY SeqElement DEF Laid, Recorded, Nest, Stacked, Extent
  <2>2. \A i, j \in DOMAIN frames : i < j => frames[i].slots <= frames[j].slots - 1
    BY DEF Laid, Nest, Stacked, Extent
  <2>3. \A i \in DOMAIN frames : frames[i].slots \in Nat
    BY <2>1, FrameFacts
  <2> QED BY <2>1, <2>2, <2>3 DEF FramesNest
<1> QED BY <1>1, FramesInvariance, PTL

\* A frame's ip stays within its function: no handler sends a frame into another
\* function's code.
THEOREM CodeIsOwn ==
    ASSUME "return_in_try" \notin Exercised PROVE Spec => []OwnCode
<1>1. Laid => OwnCode
  BY DEF Laid
<1> QED BY <1>1, FramesInvariance, PTL

\* The handlers are those of the try blocks that the frames are in, each at the height
\* its frame had there.
THEOREM HandlersAreTries ==
    ASSUME "return_in_try" \notin Exercised PROVE Spec => []HandlersMatch
<1>1. Laid => HandlersMatch
  <2> SUFFICES ASSUME Laid PROVE HandlersMatch
    OBVIOUS
  <2>1. PICK first : From(first, frames, handlers)
    BY DEF Laid, Handling, Matched
  <2>2. Lists(first)
    BY <2>1 DEF From, Handles, Lists
  <2> QED BY <2>1, <2>2 DEF From, HandlersMatch
<1> QED BY <1>1, FramesInvariance, PTL
=============================================================================
