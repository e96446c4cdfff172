---------------------------- MODULE VmRefinement ----------------------------
(***************************************************************************)
(* That the stack machine implements activations: every opcode of a        *)
(* program that makes no hazardous use does what Activations promises of   *)
(* it, for every set of closures, upvalues, values and programs, and for   *)
(* every limit.                                                            *)
(***************************************************************************)
EXTENDS VmProofs, OrderLemmas

-----------------------------------------------------------------------------
(* The refinement, for any frames fs on a stack s, or one of n slots.      *)

EndIn(fs, n, i) == IF i < Len(fs) THEN fs[i + 1].slots - 1 ELSE n
Act(f, vs) == [code |-> f.ip.code, vars |-> vs, tries |-> f.ip.tries]
Acts(fs, s) == [i \in DOMAIN fs |-> Act(fs[i], SubSeq(s, fs[i].slots, EndIn(fs, Len(s), i)))]

Inside(fs, n, loc) == {i \in DOMAIN fs : fs[i].slots <= loc /\ loc <= EndIn(fs, n, i)}
At(i, j) == [act |-> i, var |-> j, val |-> Nil]
Kept(v) == [act |-> 0, var |-> 0, val |-> v]
CellIn(fs, n, up) ==
    IF up.location = 0 THEN Kept(up.closed)
    ELSE IF Inside(fs, n, up.location) = {} THEN [Kept(Nil) EXCEPT !.var = up.location]
    ELSE LET i == CHOOSE j \in Inside(fs, n, up.location) : TRUE
         IN  At(i, up.location - fs[i].slots + 1)

\* The frames below the running one, their slots, and its own.
Callers == SubSeq(frames, 1, Len(frames) - 1)
Below == SubSeq(stack, 1, frame.slots - 1)
Locals == SubSeq(stack, frame.slots, Len(stack))
Over(low, vs) == low \o vs

\* A sequence with one element replaced.
Stored(s, j, v) == [s EXCEPT ![j] = v]

\* The elements of a sequence from the m-th to the n-th.
Piece(s, m, n) == SubSeq(s, m, n)

\* The k-th place is not one from the m-th to the n-th.
Apart(m, k, n) == ~(m <= k /\ k <= n)

\* A sequence over S with elements from the m-th to the n-th, perhaps none.
HasPart(S, s, m, n) ==
    s \in Seq(S) /\ m \in Nat /\ 1 <= m /\ n \in Int /\ m <= n + 1 /\ n <= Len(s)

LEMMA Bars ==
    /\ actsBar = Acts(frames, stack)
    /\ actsBar' = Acts(frames', stack')
    /\ cellBar = [u \in Upvalues |-> CellIn(frames, Len(stack), upvalue[u])]
    /\ cellBar' = [u \in Upvalues |-> CellIn(frames', Len(stack'), upvalue'[u])]
BY DEF actsBar, Acts, Act, cellBar, CellIn, Inside, At, Kept, FrameOf, EndOf, EndIn

-----------------------------------------------------------------------------
(* Sequences.                                                              *)

LEMMA Concat ==
    ASSUME NEW S, NEW a \in Seq(S), NEW b \in Seq(S)
    PROVE  /\ a \o b \in Seq(S) /\ Len(a) \in Nat /\ Len(b) \in Nat
           /\ Len(a \o b) = Len(a) + Len(b) /\ DOMAIN (a \o b) = 1 .. Len(a) + Len(b)
           /\ \A i \in 1 .. Len(a) : (a \o b)[i] = a[i]
           /\ \A i \in 1 .. Len(b) : (a \o b)[Len(a) + i] = b[i]
<1>1. Len(a) \in Nat /\ Len(b) \in Nat /\ a \o b \in Seq(S) /\ Len(a \o b) = Len(a) + Len(b)
  OBVIOUS
<1>2. \A i \in 1 .. Len(a) + Len(b) : (a \o b)[i] = IF i <= Len(a) THEN a[i] ELSE b[i - Len(a)]
  OBVIOUS
<1>3. ASSUME NEW i \in 1 .. Len(a) PROVE (a \o b)[i] = a[i]
  BY <1>1, <1>2
<1>4. ASSUME NEW i \in 1 .. Len(b) PROVE (a \o b)[Len(a) + i] = b[i]
  <2>1. Len(a) + i \in 1 .. Len(a) + Len(b) /\ ~(Len(a) + i <= Len(a)) /\ Len(a) + i - Len(a) = i
    BY <1>1
  <2> QED BY <1>2, <2>1
<1>5. DOMAIN (a \o b) = 1 .. Len(a) + Len(b)
  BY <1>1
<1> QED BY <1>1, <1>3, <1>4, <1>5

\* Part of a sequence.
LEMMA Part ==
    ASSUME NEW S, NEW s \in Seq(S), NEW m \in Nat, 1 <= m, NEW n \in Int, m <= n + 1, n <= Len(s)
    PROVE  /\ SubSeq(s, m, n) \in Seq(S) /\ Len(SubSeq(s, m, n)) = n - m + 1
           /\ \A i \in 1 .. n - m + 1 : SubSeq(s, m, n)[i] = s[m + i - 1]
OBVIOUS

\* What a concatenation is.
LEMMA ConcatIs ==
    ASSUME NEW S, NEW a \in Seq(S), NEW b \in Seq(S), NEW s \in Seq(S),
           Len(s) = Len(a) + Len(b),
           \A i \in 1 .. Len(a) : s[i] = a[i],
           \A i \in 1 .. Len(b) : s[Len(a) + i] = b[i]
    PROVE  s = a \o b
<1>1. /\ a \o b \in Seq(S) /\ Len(a \o b) = Len(s) /\ Len(a) \in Nat /\ Len(b) \in Nat
      /\ \A i \in 1 .. Len(a) : (a \o b)[i] = a[i]
      /\ \A i \in 1 .. Len(b) : (a \o b)[Len(a) + i] = b[i]
  BY Concat
<1>2. ASSUME NEW i \in 1 .. Len(s) PROVE s[i] = (a \o b)[i]
  <2>1. CASE i <= Len(a)
    BY <1>1, <2>1
  <2>2. CASE ~(i <= Len(a))
    <3>1. i - Len(a) \in 1 .. Len(b) /\ Len(a) + (i - Len(a)) = i
      BY <1>1, <2>2
    <3> QED BY <1>1, <3>1
  <2> QED BY <2>1, <2>2
<1> QED BY <1>1, <1>2, SeqSame

\* A sequence in two.
LEMMA InTwo ==
    ASSUME NEW S, NEW s \in Seq(S), NEW n \in 0 .. Len(s)
    PROVE  /\ SubSeq(s, 1, n) \in Seq(S) /\ Len(SubSeq(s, 1, n)) = n
           /\ SubSeq(s, n + 1, Len(s)) \in Seq(S) /\ Len(SubSeq(s, n + 1, Len(s))) = Len(s) - n
           /\ s = SubSeq(s, 1, n) \o SubSeq(s, n + 1, Len(s))
<1> DEFINE a == SubSeq(s, 1, n)
           b == SubSeq(s, n + 1, Len(s))
<1>1. Len(s) \in Nat /\ n \in Nat
  BY SeqElement
<1>2. a \in Seq(S) /\ Len(a) = n /\ \A i \in 1 .. n : a[i] = s[i]
  BY <1>1
<1>3. b \in Seq(S) /\ Len(b) = Len(s) - n /\ \A i \in 1 .. Len(s) - n : b[i] = s[n + i]
  BY <1>1
<1> HIDE DEF a, b
<1>4. s = a \o b
  <2>1. Len(s) = Len(a) + Len(b)
    BY <1>1, <1>2, <1>3
  <2> QED BY <1>2, <1>3, <2>1, ConcatIs, ZenonT(30)
<1> QED BY <1>2, <1>3, <1>4 DEF a, b

\* The two parts of a concatenation, and a part of the first.
LEMMA Halves ==
    ASSUME NEW S, NEW a \in Seq(S), NEW b \in Seq(S)
    PROVE  /\ SubSeq(a \o b, Len(a) + 1, Len(a) + Len(b)) = b
           /\ \A m \in Nat, n \in Int : 1 <= m /\ m <= n + 1 /\ n <= Len(a) =>
                 SubSeq(a \o b, m, n) = SubSeq(a, m, n)
<1> DEFINE s == a \o b
<1>1. /\ s \in Seq(S) /\ Len(s) = Len(a) + Len(b) /\ Len(a) \in Nat /\ Len(b) \in Nat
      /\ \A i \in 1 .. Len(a) : s[i] = a[i]
      /\ \A i \in 1 .. Len(b) : s[Len(a) + i] = b[i]
  BY Concat
<1> HIDE DEF s
<1>2. SubSeq(s, Len(a) + 1, Len(a) + Len(b)) = b
  <2> DEFINE p == SubSeq(s, Len(a) + 1, Len(a) + Len(b))
  <2>1. p \in Seq(S) /\ Len(p) = Len(b) /\ \A i \in 1 .. Len(b) : p[i] = s[Len(a) + i]
    BY <1>1
  <2> HIDE DEF p
  <2>2. p = b
    BY <1>1, <2>1, SeqSame
  <2> QED BY <2>2 DEF p
<1>3. ASSUME NEW m \in Nat, NEW n \in Int, 1 <= m, m <= n + 1, n <= Len(a)
      PROVE  SubSeq(s, m, n) = SubSeq(a, m, n)
  <2> DEFINE p == SubSeq(s, m, n)
             q == SubSeq(a, m, n)
  <2>1. n <= Len(s)
    BY <1>1, <1>3
  <2>2. p \in Seq(S) /\ Len(p) = n - m + 1 /\ \A i \in 1 .. n - m + 1 : p[i] = s[m + i - 1]
    BY <1>1, <1>3, <2>1, Part
  <2>3. q \in Seq(S) /\ Len(q) = n - m + 1 /\ \A i \in 1 .. n - m + 1 : q[i] = a[m + i - 1]
    BY <1>3, Part
  <2>4. ASSUME NEW i \in 1 .. n - m + 1 PROVE m + i - 1 \in 1 .. Len(a)
    BY <1>1, <1>3
  <2> HIDE DEF p, q
  <2>5. Len(p) = Len(q) /\ \A i \in 1 .. Len(p) : p[i] = q[i]
    BY <1>1, <2>2, <2>3, <2>4
  <2>6. p = q
    BY <2>2, <2>3, <2>5, SeqSame
  <2> QED BY <2>6 DEF p, q
<1> QED BY <1>2, <1>3 DEF s

\* A push, a cut and a store over other slots.
LEMMA OverPush ==
    ASSUME NEW S, NEW a \in Seq(S), NEW b \in Seq(S), NEW v \in S
    PROVE  Append(Over(a, b), v) = Over(a, Append(b, v))
<1> DEFINE s == a \o b
<1>1. /\ s \in Seq(S) /\ Len(s) = Len(a) + Len(b) /\ Len(a) \in Nat /\ Len(b) \in Nat
      /\ \A i \in 1 .. Len(a) : s[i] = a[i]
      /\ \A i \in 1 .. Len(b) : s[Len(a) + i] = b[i]
  BY Concat
<1> HIDE DEF s
<1>2. Append(s, v) = a \o Append(b, v)
  <2>1. /\ Append(b, v) \in Seq(S) /\ Len(Append(b, v)) = Len(b) + 1
        /\ \A i \in 1 .. Len(b) : Append(b, v)[i] = b[i]
        /\ Append(b, v)[Len(b) + 1] = v
    BY SeqAppend
  <2>2. /\ Append(s, v) \in Seq(S) /\ Len(Append(s, v)) = Len(s) + 1
        /\ \A i \in 1 .. Len(s) : Append(s, v)[i] = s[i]
        /\ Append(s, v)[Len(s) + 1] = v
    BY <1>1, SeqAppend
  <2>3. \A i \in 1 .. Len(a) : Append(s, v)[i] = a[i]
    BY <1>1, <2>2
  <2>4. ASSUME NEW i \in 1 .. Len(b) + 1 PROVE Append(s, v)[Len(a) + i] = Append(b, v)[i]
    <3>1. CASE i = Len(b) + 1
      <4>1. Len(a) + i = Len(s) + 1
        BY <1>1, <3>1
      <4> QED BY <2>1, <2>2, <3>1, <4>1
    <3>2. CASE i # Len(b) + 1
      <4>1. i \in 1 .. Len(b) /\ Len(a) + i \in 1 .. Len(s)
        BY <1>1, <3>2
      <4> QED BY <1>1, <2>1, <2>2, <4>1
    <3> QED BY <3>1, <3>2
  <2>5. Len(Append(s, v)) = Len(a) + Len(Append(b, v))
    BY <1>1, <2>1, <2>2
  <2> DEFINE p == Append(s, v)
             q == Append(b, v)
  <2>6. p \in Seq(S) /\ q \in Seq(S) /\ Len(p) = Len(a) + Len(q) /\ Len(q) = Len(b) + 1
    BY <2>1, <2>2, <2>5
  <2>7. (\A i \in 1 .. Len(a) : p[i] = a[i]) /\ \A i \in 1 .. Len(b) + 1 : p[Len(a) + i] = q[i]
    BY <2>3, <2>4
  <2> HIDE DEF p, q
  <2>8. \A i \in 1 .. Len(q) : p[Len(a) + i] = q[i]
    BY <2>6, <2>7
  <2>9. p = a \o q
    BY <2>6, <2>7, <2>8, ConcatIs
  <2> QED BY <2>9 DEF p, q
<1> QED BY <1>2 DEF s, Over

LEMMA OverCut ==
    ASSUME NEW S, NEW a \in Seq(S), NEW b \in Seq(S), NEW n \in 0 .. Len(b)
    PROVE  SubSeq(Over(a, b), 1, Len(a) + n) = Over(a, SubSeq(b, 1, n))
<1> DEFINE s == a \o b
<1>1. /\ s \in Seq(S) /\ Len(s) = Len(a) + Len(b) /\ Len(a) \in Nat /\ Len(b) \in Nat
      /\ \A i \in 1 .. Len(a) : s[i] = a[i]
      /\ \A i \in 1 .. Len(b) : s[Len(a) + i] = b[i]
  BY Concat
<1> HIDE DEF s
<1>2. SubSeq(s, 1, Len(a) + n) = a \o SubSeq(b, 1, n)
  <2> DEFINE p == SubSeq(s, 1, Len(a) + n)
             q == SubSeq(b, 1, n)
  <2>1. n \in Nat /\ n <= Len(b) /\ Len(a) + n \in Nat /\ Len(a) + n <= Len(s)
    BY <1>1
  <2>2. p \in Seq(S) /\ Len(p) = Len(a) + n /\ \A i \in 1 .. Len(a) + n : p[i] = s[i]
    BY <1>1, <2>1, SeqPrefix
  <2>3. q \in Seq(S) /\ Len(q) = n /\ \A i \in 1 .. n : q[i] = b[i]
    BY <2>1, SeqPrefix
  <2> HIDE DEF p, q
  <2>4. \A i \in 1 .. Len(a) : p[i] = a[i]
    BY <1>1, <2>1, <2>2
  <2>5. \A i \in 1 .. n : p[Len(a) + i] = q[i]
    <3>1. ASSUME NEW i \in 1 .. n PROVE Len(a) + i \in 1 .. Len(a) + n /\ i \in 1 .. Len(b)
      BY <1>1, <2>1
    <3> QED BY <1>1, <2>2, <2>3, <3>1
  <2>6. Len(p) = Len(a) + Len(q) /\ \A i \in 1 .. Len(q) : p[Len(a) + i] = q[i]
    BY <2>2, <2>3, <2>5
  <2>7. p = a \o q
    BY <2>2, <2>3, <2>4, <2>6, ConcatIs
  <2> QED BY <2>7 DEF p, q
<1> QED BY <1>2 DEF s, Over

LEMMA OverStore ==
    ASSUME NEW S, NEW a \in Seq(S), NEW b \in Seq(S), NEW v \in S, NEW n \in 1 .. Len(b)
    PROVE  [Over(a, b) EXCEPT ![Len(a) + n] = v] = Over(a, [b EXCEPT ![n] = v])
<1> DEFINE s == a \o b
<1>1. /\ s \in Seq(S) /\ Len(s) = Len(a) + Len(b) /\ Len(a) \in Nat /\ Len(b) \in Nat
      /\ \A i \in 1 .. Len(a) : s[i] = a[i]
      /\ \A i \in 1 .. Len(b) : s[Len(a) + i] = b[i]
  BY Concat
<1> HIDE DEF s
<1>2. [s EXCEPT ![Len(a) + n] = v] = a \o [b EXCEPT ![n] = v]
  <2> DEFINE m == Len(a) + n
             p == [s EXCEPT ![m] = v]
             q == [b EXCEPT ![n] = v]
  <2>1. m \in 1 .. Len(s) /\ m > Len(a) /\ n \in Nat
    BY <1>1
  <2>2. p \in Seq(S) /\ Len(p) = Len(s) /\ p[m] = v /\ \A i \in 1 .. Len(s) : i # m => p[i] = s[i]
    <3> HIDE DEF m
    <3> QED BY <1>1, <2>1, SeqExcept
  <2>3. q \in Seq(S) /\ Len(q) = Len(b) /\ q[n] = v /\ \A i \in 1 .. Len(b) : i # n => q[i] = b[i]
    BY SeqExcept
  <2> HIDE DEF p, q
  <2>4. \A i \in 1 .. Len(a) : p[i] = a[i]
    BY <1>1, <2>1, <2>2
  <2>5. ASSUME NEW i \in 1 .. Len(b) PROVE p[Len(a) + i] = q[i]
    <3>1. CASE i = n
      BY <2>2, <2>3, <3>1
    <3>2. CASE i # n
      <4>1. Len(a) + i \in 1 .. Len(s) /\ Len(a) + i # m
        BY <1>1, <2>1, <3>2
      <4> QED BY <1>1, <2>2, <2>3, <3>2, <4>1
    <3> QED BY <3>1, <3>2
  <2>6. Len(p) = Len(a) + Len(q) /\ \A i \in 1 .. Len(q) : p[Len(a) + i] = q[i]
    BY <1>1, <2>2, <2>3, <2>5
  <2>7. p = a \o q
    BY <2>2, <2>3, <2>4, <2>6, ConcatIs
  <2> QED BY <2>7 DEF p, q
<1> QED BY <1>2 DEF s, Over

\* A store, with what is under it and over it.
LEMMA StoredIs ==
    ASSUME NEW S, NEW s \in Seq(S), NEW j \in 1 .. Len(s), NEW v \in S
    PROVE  Stored(s, j, v) = Over(SubSeq(s, 1, j - 1), Over(<<v>>, SubSeq(s, j + 1, Len(s))))
<1> DEFINE p == [s EXCEPT ![j] = v]
           a == SubSeq(s, 1, j - 1)
           b == SubSeq(s, j + 1, Len(s))
           c == <<v>> \o b
<1>1. Len(s) \in Nat /\ j \in Nat /\ j >= 1 /\ j <= Len(s)
  BY SeqElement
<1>2. p \in Seq(S) /\ Len(p) = Len(s) /\ p[j] = v /\ \A i \in 1 .. Len(s) : i # j => p[i] = s[i]
  BY SeqExcept
<1>3. a \in Seq(S) /\ Len(a) = j - 1 /\ \A i \in 1 .. j - 1 : a[i] = s[i]
  BY <1>1
<1>4. b \in Seq(S) /\ Len(b) = Len(s) - j /\ \A i \in 1 .. Len(s) - j : b[i] = s[j + i]
  BY <1>1
<1> HIDE DEF p, a, b
<1>5. <<v>> \in Seq(S) /\ Len(<<v>>) = 1 /\ <<v>>[1] = v
  OBVIOUS
<1>6. /\ c \in Seq(S) /\ Len(c) = 1 + Len(b) /\ c[1] = v
      /\ \A i \in 1 .. Len(b) : c[1 + i] = b[i]
  <2>1. /\ c \in Seq(S) /\ Len(c) = Len(<<v>>) + Len(b)
        /\ \A i \in 1 .. Len(<<v>>) : c[i] = <<v>>[i]
        /\ \A i \in 1 .. Len(b) : c[Len(<<v>>) + i] = b[i]
    BY <1>4, <1>5, Concat
  <2> HIDE DEF c
  <2> QED BY <1>5, <2>1
<1> HIDE DEF c
<1>7. Len(p) = Len(a) + Len(c)
  BY <1>1, <1>2, <1>3, <1>4, <1>6
<1>8. \A i \in 1 .. Len(a) : p[i] = a[i]
  BY <1>1, <1>2, <1>3
<1>9. ASSUME NEW i \in 1 .. Len(c) PROVE p[Len(a) + i] = c[i]
  <2>1. CASE i = 1
    BY <1>1, <1>2, <1>3, <1>6, <2>1
  <2>2. CASE i # 1
    <3>1. i - 1 \in 1 .. Len(b) /\ 1 + (i - 1) = i
      BY <1>1, <1>4, <1>6, <2>2
    <3>2. Len(a) + i = j + (i - 1) /\ j + (i - 1) \in 1 .. Len(s) /\ j + (i - 1) # j
      BY <1>1, <1>3, <1>4, <3>1
    <3>3. c[i] = b[i - 1]
      BY <1>6, <3>1
    <3>4. b[i - 1] = s[j + (i - 1)]
      BY <1>4, <3>1
    <3> QED BY <1>2, <3>2, <3>3, <3>4
  <2> QED BY <2>1, <2>2
<1>10. p = a \o c
  BY <1>2, <1>3, <1>6, <1>7, <1>8, <1>9, ConcatIs
<1> QED BY <1>10 DEF p, a, b, c, Over, Stored

-----------------------------------------------------------------------------
(* Frames and activations.                                                 *)

Activations(S) == [code : Closures, vars : Seq(S), tries : Seq(Nat)]

\* Where frames begin and end, one above the other.
LEMMA Ends ==
    ASSUME NEW fs \in Seq(Frame), NEW n \in Nat, Stacked(fs, n)
    PROVE  /\ Len(fs) \in Nat /\ DOMAIN fs = 1 .. Len(fs)
           /\ \A i \in 1 .. Len(fs) :
                 /\ fs[i] \in Frame /\ fs[i].slots \in Nat /\ 1 <= fs[i].slots /\ fs[i].slots <= n
                 /\ EndIn(fs, n, i) \in Nat /\ fs[i].slots <= EndIn(fs, n, i) /\ EndIn(fs, n, i) <= n
           /\ \A i, j \in 1 .. Len(fs) : i < j =>
                 fs[i].slots < fs[j].slots /\ EndIn(fs, n, i) < fs[j].slots
<1>1. Len(fs) \in Nat /\ DOMAIN fs = 1 .. Len(fs) /\ \A i \in 1 .. Len(fs) : fs[i] \in Frame
  BY SeqElement
<1>2. \A i \in 1 .. Len(fs) : fs[i].slots \in Nat /\ 1 <= fs[i].slots /\ fs[i].slots <= n
  BY <1>1, FrameFacts DEF Stacked, Extent
<1>3. ASSUME NEW i \in 1 .. Len(fs), NEW j \in 1 .. Len(fs), i < j
      PROVE  fs[i].slots < fs[j].slots
  <2>1. fs[i].slots <= fs[j].slots - 1
    BY <1>1, <1>3 DEF Stacked, Extent
  <2> QED BY <1>2, <2>1
<1>4. ASSUME NEW i \in 1 .. Len(fs)
      PROVE  EndIn(fs, n, i) \in Nat /\ fs[i].slots <= EndIn(fs, n, i) /\ EndIn(fs, n, i) <= n
  <2>1. CASE i < Len(fs)
    <3>1. i + 1 \in 1 .. Len(fs) /\ i < i + 1
      BY <1>1, <2>1
    <3>2. fs[i].slots < fs[i + 1].slots
      BY <1>3, <3>1
    <3> QED BY <1>2, <2>1, <3>1, <3>2 DEF EndIn
  <2>2. CASE ~(i < Len(fs))
    BY <1>2, <2>2 DEF EndIn
  <2> QED BY <2>1, <2>2
<1>5. ASSUME NEW i \in 1 .. Len(fs), NEW j \in 1 .. Len(fs), i < j
      PROVE  EndIn(fs, n, i) < fs[j].slots
  <2>1. i < Len(fs) /\ i + 1 \in 1 .. Len(fs) /\ (i + 1 = j \/ i + 1 < j)
    BY <1>1, <1>5
  <2>2. EndIn(fs, n, i) = fs[i + 1].slots - 1
    BY <2>1 DEF EndIn
  <2>3. fs[i + 1].slots <= fs[j].slots
    BY <1>2, <1>3, <2>1
  <2> QED BY <1>2, <2>1, <2>2, <2>3
<1> QED BY <1>1, <1>2, <1>3, <1>4, <1>5

\* The activations of frames that lie one above the other.
LEMMA ActsFacts ==
    ASSUME NEW S, NEW s \in Seq(S), NEW fs \in Seq(Frame), Stacked(fs, Len(s))
    PROVE  /\ Acts(fs, s) \in Seq(Activations(S)) /\ Len(Acts(fs, s)) = Len(fs)
           /\ Len(fs) \in Nat /\ DOMAIN Acts(fs, s) = 1 .. Len(fs)
           /\ \A i \in 1 .. Len(fs) :
                 Acts(fs, s)[i] = Act(fs[i], SubSeq(s, fs[i].slots, EndIn(fs, Len(s), i)))
<1>1. Len(s) \in Nat
  BY SeqElement
<1>2. /\ Len(fs) \in Nat /\ DOMAIN fs = 1 .. Len(fs)
      /\ \A i \in 1 .. Len(fs) :
            /\ fs[i] \in Frame /\ fs[i].slots \in Nat /\ 1 <= fs[i].slots
            /\ EndIn(fs, Len(s), i) \in Nat /\ fs[i].slots <= EndIn(fs, Len(s), i)
            /\ EndIn(fs, Len(s), i) <= Len(s)
  BY <1>1, Ends
<1>3. ASSUME NEW i \in 1 .. Len(fs)
      PROVE  Act(fs[i], SubSeq(s, fs[i].slots, EndIn(fs, Len(s), i))) \in Activations(S)
  <2>1. SubSeq(s, fs[i].slots, EndIn(fs, Len(s), i)) \in Seq(S)
    BY <1>2, Part
  <2>2. fs[i].ip.code \in Closures /\ fs[i].ip.tries \in Seq(Nat)
    BY <1>2 DEF Frame, Ip
  <2> QED BY <2>1, <2>2 DEF Act, Activations
<1> DEFINE A == Activations(S)
           f(i) == Act(fs[i], SubSeq(s, fs[i].slots, EndIn(fs, Len(s), i)))
<1>4. Acts(fs, s) = [i \in 1 .. Len(fs) |-> f(i)]
  BY <1>2 DEF Acts
<1>5. \A i \in 1 .. Len(fs) : f(i) \in A
  BY <1>3
<1> HIDE DEF A, f
<1>6. /\ Acts(fs, s) \in Seq(A) /\ Len(Acts(fs, s)) = Len(fs) /\ DOMAIN Acts(fs, s) = 1 .. Len(fs)
      /\ \A i \in 1 .. Len(fs) : Acts(fs, s)[i] = f(i)
  BY <1>2, <1>4, <1>5
<1> QED BY <1>2, <1>6 DEF A, f

\* The activation of a frame over others.
LEMMA ActsTop ==
    ASSUME NEW S, NEW low \in Seq(S), NEW vs \in Seq(S), NEW fs \in Seq(Frame), NEW f \in Frame,
           Len(low) = f.slots - 1, Stacked(fs, f.slots - 1), vs # <<>>
    PROVE  Acts(Append(fs, f), Over(low, vs)) = Append(Acts(fs, low), Act(f, vs))
<1> DEFINE s == low \o vs
           all == Append(fs, f)
<1>1. Len(low) \in Nat /\ Len(vs) \in Nat /\ s \in Seq(S) /\ Len(s) = Len(low) + Len(vs) /\ Len(vs) # 0
  <2>1. Len(vs) # 0
    OBVIOUS
  <2> QED BY <2>1, Concat
<1>2. /\ SubSeq(s, Len(low) + 1, Len(low) + Len(vs)) = vs
      /\ \A m \in Nat, n \in Int : 1 <= m /\ m <= n + 1 /\ n <= Len(low) =>
            SubSeq(s, m, n) = SubSeq(low, m, n)
  BY Halves
<1>3. /\ Len(fs) \in Nat /\ DOMAIN fs = 1 .. Len(fs)
      /\ \A i \in 1 .. Len(fs) :
            /\ fs[i].slots \in Nat /\ 1 <= fs[i].slots
            /\ EndIn(fs, Len(low), i) \in Nat /\ fs[i].slots <= EndIn(fs, Len(low), i)
            /\ EndIn(fs, Len(low), i) <= Len(low)
  BY <1>1, Ends
<1>4. /\ DOMAIN all = 1 .. Len(fs) + 1 /\ Len(all) = Len(fs) + 1 /\ all[Len(fs) + 1] = f
      /\ \A i \in 1 .. Len(fs) : all[i] = fs[i]
  BY SeqAppend
<1>5. /\ Acts(fs, low) \in Seq(Activations(S)) /\ Len(Acts(fs, low)) = Len(fs)
      /\ \A i \in 1 .. Len(fs) :
            Acts(fs, low)[i] = Act(fs[i], SubSeq(low, fs[i].slots, EndIn(fs, Len(low), i)))
  BY ActsFacts
<1>6. f.slots \in Nat /\ f.ip.code \in Closures /\ f.ip.tries \in Seq(Nat)
  BY DEF Frame, Ip
<1>7. Act(f, vs) \in Activations(S)
  BY <1>6 DEF Act, Activations
<1> DEFINE A == Activations(S)
           below == Acts(fs, low)
           a == Act(f, vs)
           right == Append(below, a)
           left == Acts(all, s)
<1>8. /\ DOMAIN right = 1 .. Len(fs) + 1 /\ right[Len(fs) + 1] = a
      /\ \A i \in 1 .. Len(fs) : right[i] = below[i]
      /\ right = [i \in 1 .. Len(fs) + 1 |-> right[i]]
  <2>1. below \in Seq(A) /\ a \in A /\ Len(below) = Len(fs)
    BY <1>5, <1>7
  <2> HIDE DEF below, a, A
  <2>2. /\ right \in Seq(A) /\ DOMAIN right = 1 .. Len(below) + 1 /\ right[Len(below) + 1] = a
        /\ \A i \in 1 .. Len(below) : right[i] = below[i]
    BY <2>1, SeqAppend
  <2> HIDE DEF right
  <2>3. right = [i \in DOMAIN right |-> right[i]]
    BY <2>2
  <2> QED BY <2>1, <2>2, <2>3
<1>9. left = [i \in 1 .. Len(fs) + 1 |-> Act(all[i], SubSeq(s, all[i].slots, EndIn(all, Len(s), i)))]
  BY <1>4 DEF Acts
<1>10. ASSUME NEW i \in 1 .. Len(fs) + 1
       PROVE  Act(all[i], SubSeq(s, all[i].slots, EndIn(all, Len(s), i))) = right[i]
  <2>1. CASE i = Len(fs) + 1
    <3>1. EndIn(all, Len(s), i) = Len(low) + Len(vs)
      BY <1>1, <1>3, <1>4, <2>1 DEF EndIn
    <3>2. all[i] = f /\ f.slots = Len(low) + 1 /\ right[i] = a
      BY <1>1, <1>4, <1>6, <1>8, <2>1
    <3> QED BY <1>2, <3>1, <3>2
  <2>2. CASE i # Len(fs) + 1
    <3>1. i \in 1 .. Len(fs)
      BY <1>3, <2>2
    <3>2. EndIn(all, Len(s), i) = EndIn(fs, Len(low), i)
      <4>1. CASE i = Len(fs)
        <5>1. i < Len(all) /\ all[i + 1] = f /\ ~(i < Len(fs))
          BY <1>3, <1>4, <4>1
        <5> QED BY <1>1, <5>1 DEF EndIn
      <4>2. CASE i # Len(fs)
        <5>1. i + 1 \in 1 .. Len(fs) /\ i < Len(fs) /\ i < Len(all)
          <6>1. Len(fs) \in Nat /\ Len(all) = Len(fs) + 1
            BY <1>3, <1>4
          <6> HIDE DEF all
          <6> QED BY <3>1, <4>2, <6>1
        <5>2. all[i + 1] = fs[i + 1]
          BY <1>4, <5>1
        <5> QED BY <5>1, <5>2 DEF EndIn
      <4> QED BY <4>1, <4>2
    <3>3. SubSeq(s, fs[i].slots, EndIn(fs, Len(low), i)) = SubSeq(low, fs[i].slots, EndIn(fs, Len(low), i))
      <4> DEFINE m == fs[i].slots
                 n == EndIn(fs, Len(low), i)
      <4>1. m \in Nat /\ n \in Int /\ 1 <= m /\ m <= n + 1 /\ n <= Len(low)
        BY <1>3, <3>1
      <4> HIDE DEF m, n
      <4>2. SubSeq(s, m, n) = SubSeq(low, m, n)
        BY <1>2, <4>1
      <4> QED BY <4>2 DEF m, n
    <3>4. right[i] = Act(fs[i], SubSeq(low, fs[i].slots, EndIn(fs, Len(low), i))) /\ all[i] = fs[i]
      BY <1>4, <1>5, <1>8, <3>1
    <3> QED BY <3>2, <3>3, <3>4
  <2> QED BY <2>1, <2>2
<1> HIDE DEF right, left, a, below
<1>11. left = right
  BY <1>8, <1>9, <1>10
<1> QED BY <1>11 DEF right, left, a, below, Over

-----------------------------------------------------------------------------
(* Cells.                                                                  *)

\* Which frame a slot is of depends on the frames up to that slot only.
LEMMA InsideLow ==
    ASSUME NEW fs \in Seq(Frame), NEW n \in Nat, Stacked(fs, n), NEW k \in 0 .. Len(fs),
           NEW loc \in Nat, loc <= n, k < Len(fs) => loc < fs[k + 1].slots
    PROVE  Inside(fs, n, loc) =
              {i \in 1 .. k : fs[i].slots <= loc /\ (i < k => loc < fs[i + 1].slots)}
<1>1. /\ Len(fs) \in Nat /\ DOMAIN fs = 1 .. Len(fs)
      /\ \A i \in 1 .. Len(fs) : fs[i].slots \in Nat
      /\ \A i, j \in 1 .. Len(fs) : i < j => fs[i].slots < fs[j].slots
  BY Ends
<1>2. k \in Nat /\ k <= Len(fs)
  BY <1>1
<1>3. ASSUME NEW i \in 1 .. Len(fs), fs[i].slots <= loc PROVE i <= k
  <2> SUFFICES ASSUME ~(i <= k) PROVE FALSE
    OBVIOUS
  <2>1. k < Len(fs) /\ k + 1 \in 1 .. Len(fs) /\ (i = k + 1 \/ k + 1 < i)
    BY <1>1, <1>2
  <2>2. fs[k + 1].slots <= fs[i].slots
    BY <1>1, <2>1
  <2> QED BY <1>1, <1>3, <2>1, <2>2
<1>4. ASSUME NEW i \in 1 .. Len(fs), i <= k
      PROVE  loc <= EndIn(fs, n, i) <=> (i < k => loc < fs[i + 1].slots)
  <2>1. CASE i < k
    <3>1. i < Len(fs) /\ i + 1 \in 1 .. Len(fs)
      BY <1>1, <1>2, <2>1
    <3>2. EndIn(fs, n, i) = fs[i + 1].slots - 1 /\ fs[i + 1].slots \in Nat
      BY <1>1, <3>1 DEF EndIn
    <3> QED BY <2>1, <3>2
  <2>2. CASE i = k
    <3>1. CASE k < Len(fs)
      <4>1. EndIn(fs, n, i) = fs[k + 1].slots - 1 /\ fs[k + 1].slots \in Nat
        BY <1>1, <1>2, <2>2, <3>1 DEF EndIn
      <4> QED BY <2>2, <3>1, <4>1
    <3>2. CASE ~(k < Len(fs))
      BY <2>2, <3>2 DEF EndIn
    <3> QED BY <3>1, <3>2
  <2> QED BY <1>2, <1>4, <2>1, <2>2
<1>5. 1 .. k \subseteq 1 .. Len(fs) /\ \A i \in 1 .. k : i <= k
  BY <1>1, <1>2
<1>6. ASSUME NEW i
      PROVE  i \in Inside(fs, n, loc) <=>
                i \in 1 .. k /\ fs[i].slots <= loc /\ (i < k => loc < fs[i + 1].slots)
  <2>1. i \in Inside(fs, n, loc) <=> i \in 1 .. Len(fs) /\ fs[i].slots <= loc /\ loc <= EndIn(fs, n, i)
    BY <1>1 DEF Inside
  <2>2. i \in 1 .. Len(fs) /\ i <= k => i \in 1 .. k
    BY <1>1, <1>2
  <2> QED BY <1>3, <1>4, <1>5, <2>1, <2>2
<1> QED BY <1>6

\* Frames that agree up to a slot say the same of it.
LEMMA SameCell ==
    ASSUME NEW fs \in Seq(Frame), NEW n \in Nat, Stacked(fs, n),
           NEW gs \in Seq(Frame), NEW m \in Nat, Stacked(gs, m),
           NEW k \in Nat, k <= Len(fs), k <= Len(gs),
           \A i \in 1 .. k : fs[i].slots = gs[i].slots,
           NEW up, up.location \in Nat, up.location <= n, up.location <= m,
           k < Len(fs) => up.location < fs[k + 1].slots,
           k < Len(gs) => up.location < gs[k + 1].slots
    PROVE  CellIn(fs, n, up) = CellIn(gs, m, up)
<1> DEFINE loc == up.location
           F == {i \in 1 .. k : fs[i].slots <= loc /\ (i < k => loc < fs[i + 1].slots)}
           G == {i \in 1 .. k : gs[i].slots <= loc /\ (i < k => loc < gs[i + 1].slots)}
<1>1. k \in 0 .. Len(fs) /\ k \in 0 .. Len(gs) /\ Len(fs) \in Nat /\ Len(gs) \in Nat
  BY SeqElement
<1>2. Inside(fs, n, loc) = F
  BY <1>1, InsideLow, SMTT(30)
<1>3. Inside(gs, m, loc) = G
  BY <1>1, InsideLow
<1>4. \A i \in 1 .. k : i < k => i + 1 \in 1 .. k
  OBVIOUS
<1>5. F = G
  <2> HIDE DEF loc
  <2> QED BY <1>4
<1>6. CASE loc = 0
  BY <1>6 DEF CellIn
<1>7. CASE loc # 0 /\ F = {}
  <2> HIDE DEF F, G
  <2> QED BY <1>2, <1>3, <1>5, <1>7 DEF CellIn
<1>8. CASE loc # 0 /\ F # {}
  <2> DEFINE i == CHOOSE j \in F : TRUE
  <2>1. fs[i].slots = gs[i].slots
    BY <1>8
  <2> HIDE DEF F, G
  <2>2. CellIn(fs, n, up) = At(i, loc - fs[i].slots + 1)
    BY <1>2, <1>8 DEF CellIn
  <2>3. CellIn(gs, m, up) = At(i, loc - gs[i].slots + 1)
    BY <1>3, <1>5, <1>8 DEF CellIn
  <2> QED BY <2>1, <2>2, <2>3
<1> QED BY <1>6, <1>7, <1>8

\* An open upvalue is a variable of the frame its slot is in.
LEMMA FrameAt ==
    ASSUME NEW fs \in Seq(Frame), NEW n \in Nat, Stacked(fs, n), fs # <<>>,
           NEW loc \in Nat, fs[1].slots <= loc, loc <= n
    PROVE  \E i \in 1 .. Len(fs) :
              fs[i].slots <= loc /\ loc <= EndIn(fs, n, i) /\ Inside(fs, n, loc) = {i}
<1>1. /\ Len(fs) \in Nat /\ DOMAIN fs = 1 .. Len(fs) /\ Len(fs) >= 1
      /\ \A i \in 1 .. Len(fs) : fs[i].slots \in Nat /\ EndIn(fs, n, i) \in Nat
      /\ \A i, j \in 1 .. Len(fs) : i < j => EndIn(fs, n, i) < fs[j].slots
  BY Ends, SeqEnds
\* The first frame that ends at the slot or above it.
<1> DEFINE T == {j \in 1 .. Len(fs) : loc <= EndIn(fs, n, j)}
<1>2. T # {}
  <2>1. Len(fs) \in 1 .. Len(fs) /\ EndIn(fs, n, Len(fs)) = n
    BY <1>1 DEF EndIn
  <2> QED BY <2>1
<1>3. PICK i \in T : \A j \in T : i <= j
  <2>1. T \in SUBSET Nat
    OBVIOUS
  <2> HIDE DEF T
  <2> QED BY <1>2, <2>1, LeastNatural
<1>4. fs[i].slots <= loc
  <2>1. CASE i = 1
    BY <2>1
  <2>2. CASE i # 1
    <3>1. i - 1 \in 1 .. Len(fs) /\ i - 1 < Len(fs) /\ ~(i <= i - 1) /\ (i - 1) + 1 = i
      BY <1>1, <2>2
    <3>2. ~(loc <= EndIn(fs, n, i - 1))
      BY <1>3, <3>1
    <3>3. EndIn(fs, n, i - 1) = fs[i].slots - 1
      BY <3>1 DEF EndIn
    <3> QED BY <1>1, <3>2, <3>3
  <2> QED BY <2>1, <2>2
<1>5. ASSUME NEW j \in 1 .. Len(fs), fs[j].slots <= loc, loc <= EndIn(fs, n, j) PROVE j = i
  <2>1. i <= j
    BY <1>3, <1>5
  <2>2. ~(i < j)
    BY <1>1, <1>5
  <2> QED BY <2>1, <2>2
<1>6. Inside(fs, n, loc) = {i}
  BY <1>1, <1>4, <1>5 DEF Inside
<1> QED BY <1>4, <1>6

-----------------------------------------------------------------------------
(* The running activation, and those below it.                             *)

LEMMA Split ==
    ASSUME IInv, frames # <<>>
    PROVE  /\ Callers \in Seq(Frame) /\ Len(Callers) = Len(frames) - 1 /\ Len(frames) \in Nat
           /\ Len(frames) >= 1 /\ frame \in Frame /\ frames = Append(Callers, frame)
           /\ frame = frames[Len(frames)] /\ \A i \in 1 .. Len(frames) - 1 : Callers[i] = frames[i]
           /\ Below \in Seq(Values) /\ Len(Below) = frame.slots - 1
           /\ Locals \in Seq(Values) /\ Len(Locals) = Len(stack) - frame.slots + 1 /\ Locals # <<>>
           /\ stack = Over(Below, Locals) /\ Len(stack) \in Nat /\ stack \in Seq(Values)
           /\ frame.slots \in Nat /\ 1 <= frame.slots /\ frame.slots <= Len(stack)
           /\ \A i \in 1 .. Len(Locals) : Locals[i] = stack[frame.slots + i - 1]
           /\ Stacked(Callers, frame.slots - 1)
<1>1. /\ Len(frames) \in Nat /\ Len(frames) >= 1 /\ frame = frames[Len(frames)] /\ frame \in Frame
      /\ Len(stack) \in Nat /\ frame.slots \in Nat /\ 1 <= frame.slots /\ frame.slots <= Len(stack)
      /\ Callers \in Seq(Frame) /\ frames = Append(Callers, frame) /\ Len(Callers) = Len(frames) - 1
  <2>1. /\ frame.slots \in Nat /\ 1 <= frame.slots /\ frame.slots + 1 <= Floor
        /\ Floor \in Nat /\ Floor - 1 <= Len(stack) /\ Len(stack) \in Nat
        /\ Len(frames) \in Nat /\ Len(frames) >= 1 /\ frame \in Frame /\ frame = frames[Len(frames)]
    BY TopFrame, FrameFacts DEF IInv
  <2>2. /\ Callers \in Seq(Frame) /\ frames = Append(Callers, frame)
        /\ Len(Callers) = Len(frames) - 1
    BY TopOfFrames, Lay DEF Callers
  <2> QED BY <2>1, <2>2
<1>2. stack \in Seq(Values)
  <2>1. Known \subseteq Values /\ stack \in Seq(Known)
    BY DEF Known, IInv, Sorts
  <2> HIDE DEF Known
  <2> QED BY <2>1, SeqMono
<1>3. \A i \in 1 .. Len(frames) - 1 : Callers[i] = frames[i]
  <2>1. Len(frames) - 1 \in Nat /\ Len(frames) - 1 <= Len(frames) /\ frames \in Seq(Frame)
    BY <1>1 DEF IInv, Sorts
  <2> QED BY <2>1, SeqPrefix DEF Callers
<1> DEFINE n == frame.slots - 1
<1>4. n \in 0 .. Len(stack) /\ n + 1 = frame.slots
  BY <1>1
<1>5. /\ Below \in Seq(Values) /\ Len(Below) = n
      /\ Locals \in Seq(Values) /\ Len(Locals) = Len(stack) - n /\ stack = Over(Below, Locals)
  <2>1. Below = SubSeq(stack, 1, n) /\ Locals = SubSeq(stack, n + 1, Len(stack))
    BY <1>4 DEF Below, Locals
  <2> HIDE DEF n
  <2> QED BY <1>2, <1>4, <2>1, InTwo DEF Over
<1>6. Len(Locals) = Len(stack) - frame.slots + 1 /\ Locals # <<>>
  <2>1. Len(Locals) = Len(stack) - frame.slots + 1 /\ Len(Locals) # 0
    BY <1>1, <1>5, SMTT(30)
  <2> QED BY <2>1
<1>7. \A i \in 1 .. Len(Locals) : Locals[i] = stack[frame.slots + i - 1]
  <2>1. \A i \in 1 .. Len(Locals) : (Below \o Locals)[Len(Below) + i] = Locals[i]
    BY <1>5, Concat
  <2>2. \A i \in 1 .. Len(Locals) : Len(Below) + i = frame.slots + i - 1
    BY <1>1, <1>5, SMTT(30)
  <2>3. stack = Below \o Locals
    BY <1>5 DEF Over
  <2> QED BY <2>1, <2>2, <2>3
<1>8. Stacked(Callers, frame.slots - 1)
  <2> DEFINE k == Len(frames) - 1
  <2>1. k \in Nat /\ k < Len(frames) /\ frames \in Seq(Frame) /\ Stacked(frames, Len(stack))
        /\ k + 1 = Len(frames) /\ Len(stack) \in Int
    BY <1>1 DEF IInv, Sorts, Nest
  <2>2. Callers = SubSeq(frames, 1, k)
    BY DEF Callers
  <2> HIDE DEF k
  <2>3. Stacked(SubSeq(frames, 1, k), frames[k + 1].slots - 1)
    BY <2>1, StackedCut
  <2> QED BY <1>1, <2>1, <2>2, <2>3
<1> QED BY <1>1, <1>2, <1>3, <1>5, <1>6, <1>7, <1>8

\* The activations: those of the frames below, and the running one.
LEMMA ActsSplit ==
    ASSUME IInv, frames # <<>>
    PROVE  /\ actsBar = Append(Acts(Callers, Below), Act(frame, Locals))
           /\ Acts(Callers, Below) \in Seq(Activations(Values))
           /\ Len(Acts(Callers, Below)) = Len(frames) - 1
           /\ Act(frame, Locals) \in Activations(Values)
<1>1. actsBar = Acts(frames, stack)
  BY Bars
<1>2. /\ Callers \in Seq(Frame) /\ frame \in Frame /\ frames = Append(Callers, frame)
      /\ Below \in Seq(Values) /\ Locals \in Seq(Values) /\ stack = Over(Below, Locals)
      /\ Len(Below) = frame.slots - 1 /\ Stacked(Callers, frame.slots - 1) /\ Locals # <<>>
      /\ Len(Callers) = Len(frames) - 1
  BY Split
<1>3. Acts(Append(Callers, frame), Over(Below, Locals)) = Append(Acts(Callers, Below), Act(frame, Locals))
  BY <1>2, ActsTop
<1>4. /\ Acts(Callers, Below) \in Seq(Activations(Values))
      /\ Len(Acts(Callers, Below)) = Len(Callers)
  BY <1>2, ActsFacts
<1>5. Act(frame, Locals) \in Activations(Values)
  BY <1>2 DEF Act, Activations, Frame, Ip
<1> QED BY <1>1, <1>2, <1>3, <1>4, <1>5

\* What a step of the running frame that keeps its first slot makes of them.
LEMMA ActsNext ==
    ASSUME IInv, frames # <<>>, NEW g \in Frame, NEW vs \in Seq(Values), vs # <<>>,
           g.slots = frame.slots, frames' = Append(Callers, g), stack' = Over(Below, vs)
    PROVE  actsBar' = Append(Acts(Callers, Below), Act(g, vs))
<1>1. actsBar' = Acts(frames', stack')
  BY Bars
<1>2. /\ Callers \in Seq(Frame) /\ Below \in Seq(Values)
      /\ Len(Below) = g.slots - 1 /\ Stacked(Callers, g.slots - 1)
  BY Split
<1>3. Acts(Append(Callers, g), Over(Below, vs)) = Append(Acts(Callers, Below), Act(g, vs))
  BY <1>2, ActsTop
<1> QED BY <1>1, <1>3

\* The top of a sequence of activations.
LEMMA ActsEnd ==
    ASSUME NEW S, NEW B \in Seq(S), NEW A \in S, NEW v \in S
    PROVE  /\ Append(B, A) # <<>> /\ Len(Append(B, A)) = Len(B) + 1
           /\ Append(B, A)[Len(B) + 1] = A
           /\ [Append(B, A) EXCEPT ![Len(B) + 1] = v] = Append(B, v)
           /\ SubSeq(Append(B, A), 1, Len(B)) = B
<1> DEFINE s == Append(B, A)
<1>1. /\ s \in Seq(S) /\ Len(s) = Len(B) + 1 /\ s[Len(B) + 1] = A /\ Len(B) \in Nat
      /\ \A i \in 1 .. Len(B) : s[i] = B[i]
  BY SeqAppend
<1> HIDE DEF s
<1>2. s # <<>>
  <2>1. Len(s) # 0
    BY <1>1
  <2> QED BY <2>1
<1>3. SubSeq(s, 1, Len(B)) = B
  <2> DEFINE p == SubSeq(s, 1, Len(B))
  <2>1. p \in Seq(S) /\ Len(p) = Len(B) /\ \A i \in 1 .. Len(B) : p[i] = s[i]
    BY <1>1, SeqPrefix
  <2> HIDE DEF p
  <2>2. p = B
    BY <1>1, <2>1, SeqSame
  <2> QED BY <2>2 DEF p
<1>4. [s EXCEPT ![Len(B) + 1] = v] = Append(B, v)
  <2>1. Len(s) - 1 = Len(B)
    BY <1>1
  <2>2. [s EXCEPT ![Len(s)] = v] = Append(SubSeq(s, 1, Len(s) - 1), v)
    BY <1>1, <1>2, SeqTop
  <2> QED BY <1>1, <1>3, <2>1, <2>2
<1> QED BY <1>1, <1>2, <1>3, <1>4 DEF s

\* The same, as the language has it.
LEMMA Tops ==
    ASSUME IInv, frames # <<>>
    PROVE  /\ Language!Running /\ Language!Depth = Len(frames) /\ Len(frames) \in Nat
           /\ Language!Top = Act(frame, Locals)
           /\ SubSeq(actsBar, 1, Len(frames) - 1) = Acts(Callers, Below)
           /\ \A A \in Activations(Values) :
                 [actsBar EXCEPT ![Len(frames)] = A] = Append(Acts(Callers, Below), A)
<1> DEFINE B == Acts(Callers, Below)
           A == Act(frame, Locals)
           S == Activations(Values)
<1>1. actsBar = Append(B, A) /\ B \in Seq(S) /\ Len(B) = Len(frames) - 1 /\ A \in S
      /\ Len(frames) \in Nat /\ Len(B) + 1 = Len(frames)
  BY ActsSplit, Split
<1> HIDE DEF B, A, S
<1>2. /\ actsBar # <<>> /\ Len(actsBar) = Len(frames) /\ actsBar[Len(frames)] = A
      /\ SubSeq(actsBar, 1, Len(frames) - 1) = B
  BY <1>1, ActsEnd
<1>3. ASSUME NEW v \in S PROVE [actsBar EXCEPT ![Len(frames)] = v] = Append(B, v)
  BY <1>1, ActsEnd
<1>4. Language!Running /\ Language!Depth = Len(frames) /\ Language!Top = A
  BY <1>2 DEF Language!Running, Language!Depth, Language!Top, Language!Last
<1> QED BY <1>1, <1>2, <1>3, <1>4 DEF A, B, S

\* A step that gives the running frame other slots.
LEMMA Become ==
    ASSUME IInv, frames # <<>>, NEW vs \in Seq(Values), vs # <<>>,
           frames' = frames, stack' = Over(Below, vs)
    PROVE  Language!Becomes(vs)
<1>1. actsBar' = Append(Acts(Callers, Below), Act(frame, vs))
  <2>1. frame \in Frame /\ frames' = Append(Callers, frame)
    BY Split
  <2> QED BY <2>1, ActsNext
<1>2. /\ Language!Depth = Len(frames) /\ actsBar[Len(frames)] = Act(frame, Locals)
      /\ \A A \in Activations(Values) :
            [actsBar EXCEPT ![Len(frames)] = A] = Append(Acts(Callers, Below), A)
  <2>1. actsBar[Len(actsBar)] = Act(frame, Locals) /\ Len(actsBar) = Len(frames)
    BY Tops DEF Language!Top, Language!Depth, Language!Last
  <2> QED BY <2>1, Tops
<1>3. [Act(frame, Locals) EXCEPT !.vars = vs] = Act(frame, vs)
  BY DEF Act
<1>4. Act(frame, vs) \in Activations(Values)
  BY Split DEF Act, Activations, Frame, Ip
<1>5. [actsBar EXCEPT ![Len(frames)].vars = vs] = [actsBar EXCEPT ![Len(frames)] = Act(frame, vs)]
  BY <1>2, <1>3
<1> QED BY <1>1, <1>2, <1>4, <1>5 DEF Language!Becomes

\* Upvalues that stay as they are stay the same cells, when frames come and go above
\* the slots they are open on.
LEMMA CellsKept ==
    ASSUME IInv, IInv', NEW W \in SUBSET Upvalues, \A u \in W : upvalue'[u] = upvalue[u],
           NEW k \in Nat, k <= Len(frames), k <= Len(frames'),
           \A i \in 1 .. k : frames[i].slots = frames'[i].slots,
           \A u \in W \cap openUpvalues :
              /\ k < Len(frames) => upvalue[u].location < frames[k + 1].slots
              /\ k < Len(frames') => upvalue[u].location < frames'[k + 1].slots
    PROVE  \A u \in W : cellBar'[u] = cellBar[u]
<1> SUFFICES ASSUME NEW u \in W PROVE cellBar'[u] = cellBar[u]
  OBVIOUS
<1>1. /\ cellBar[u] = CellIn(frames, Len(stack), upvalue[u])
      /\ cellBar'[u] = CellIn(frames', Len(stack'), upvalue[u])
  <2>1. cellBar'[u] = CellIn(frames', Len(stack'), upvalue'[u])
    BY Bars
  <2> QED BY <2>1, Bars
<1>2. CASE upvalue[u].location = 0
  BY <1>1, <1>2 DEF CellIn
<1>3. CASE upvalue[u].location # 0
  <2>1. u \in openUpvalues /\ u \in openUpvalues' /\ upvalue[u].location \in Nat
    BY <1>3 DEF IInv, Sorts, Opened
  <2>2. upvalue[u].location <= Len(stack) /\ Len(stack) \in Nat /\ frames # <<>>
    <3>1. upvalue[u].location \in frames[1].slots .. Len(stack) /\ frames # <<>>
      BY <2>1 DEF IInv, Opened
    <3>2. Len(stack) \in Nat
      BY SeqElement DEF IInv, Sorts
    <3> QED BY <2>1, <3>1, <3>2
  <2>3. upvalue[u].location <= Len(stack') /\ Len(stack') \in Nat
    <3>1. upvalue'[u].location \in frames'[1].slots .. Len(stack')
      BY <2>1 DEF IInv, Opened
    <3>2. Len(stack') \in Nat
      BY SeqElement DEF IInv, Sorts
    <3> QED BY <2>1, <3>1, <3>2
  <2>4. frames \in Seq(Frame) /\ Stacked(frames, Len(stack))
    BY DEF IInv, Sorts, Nest
  <2>5. frames' \in Seq(Frame) /\ Stacked(frames', Len(stack'))
    BY DEF IInv, Sorts, Nest
  <2>6. /\ k < Len(frames) => upvalue[u].location < frames[k + 1].slots
        /\ k < Len(frames') => upvalue[u].location < frames'[k + 1].slots
    BY <2>1
  <2> DEFINE up == upvalue[u]
             fs == frames
             gs == frames'
             n == Len(stack)
             m == Len(stack')
  <2>7. up.location \in Nat /\ up.location <= n /\ up.location <= m /\ n \in Nat /\ m \in Nat
    BY <2>1, <2>2, <2>3
  <2>8. /\ fs \in Seq(Frame) /\ Stacked(fs, n) /\ gs \in Seq(Frame) /\ Stacked(gs, m)
        /\ k <= Len(fs) /\ k <= Len(gs) /\ \A i \in 1 .. k : fs[i].slots = gs[i].slots
        /\ k < Len(fs) => up.location < fs[k + 1].slots
        /\ k < Len(gs) => up.location < gs[k + 1].slots
    BY <2>4, <2>5, <2>6
  <2>9. cellBar[u] = CellIn(fs, n, up) /\ cellBar'[u] = CellIn(gs, m, up)
    BY <1>1
  <2> HIDE DEF up, fs, gs, n, m
  <2>10. CellIn(fs, n, up) = CellIn(gs, m, up)
    BY <2>7, <2>8, SameCell
  <2> QED BY <2>9, <2>10
<1> QED BY <1>2, <1>3

\* What an upvalue is as a cell.
LEMMA CellAt ==
    ASSUME IInv, NEW u \in Upvalues
    PROVE  /\ u \notin openUpvalues => upvalue[u].location = 0 /\ cellBar[u] = Kept(upvalue[u].closed)
           /\ u \in openUpvalues =>
                 \E i \in 1 .. Len(frames) :
                    /\ frames[i].slots <= upvalue[u].location
                    /\ upvalue[u].location <= EndIn(frames, Len(stack), i)
                    /\ cellBar[u] = At(i, upvalue[u].location - frames[i].slots + 1)
                    /\ actsBar[i].vars[upvalue[u].location - frames[i].slots + 1] =
                          stack[upvalue[u].location]
                    /\ upvalue[u].location - frames[i].slots + 1 \in DOMAIN actsBar[i].vars
                    /\ frames[i].slots \in Nat /\ i \in Nat /\ i # 0 /\ upvalue[u].location \in Nat
<1>1. cellBar[u] = CellIn(frames, Len(stack), upvalue[u])
  BY Bars
<1>2. ASSUME u \notin openUpvalues
      PROVE  upvalue[u].location = 0 /\ cellBar[u] = Kept(upvalue[u].closed)
  <2>1. upvalue[u].location = 0
    BY <1>2 DEF IInv, Opened
  <2> QED BY <1>1, <2>1 DEF CellIn
<1>3. ASSUME u \in openUpvalues
      PROVE  \E i \in 1 .. Len(frames) :
                    /\ frames[i].slots <= upvalue[u].location
                    /\ upvalue[u].location <= EndIn(frames, Len(stack), i)
                    /\ cellBar[u] = At(i, upvalue[u].location - frames[i].slots + 1)
                    /\ actsBar[i].vars[upvalue[u].location - frames[i].slots + 1] =
                          stack[upvalue[u].location]
                    /\ upvalue[u].location - frames[i].slots + 1 \in DOMAIN actsBar[i].vars
                    /\ frames[i].slots \in Nat /\ i \in Nat /\ i # 0 /\ upvalue[u].location \in Nat
  <2> DEFINE loc == upvalue[u].location
  <2>1. /\ upvalue[u].location # 0 /\ upvalue[u].location \in Nat /\ frames # <<>>
        /\ upvalue[u].location \in frames[1].slots .. Len(stack)
    BY <1>3 DEF IInv, Sorts, Opened
  <2>2. /\ Len(stack) \in Nat /\ frames \in Seq(Frame) /\ Stacked(frames, Len(stack))
        /\ stack \in Seq(Values) /\ frames[1].slots \in Nat
    BY <2>1, Split, TopFrame DEF IInv, Sorts, Nest
  <2>3. loc \in Nat /\ frames[1].slots <= loc /\ loc <= Len(stack) /\ loc # 0
    BY <2>1, <2>2
  <2> HIDE DEF loc
  <2>4. PICK i \in 1 .. Len(frames) :
           /\ frames[i].slots <= loc /\ loc <= EndIn(frames, Len(stack), i)
           /\ Inside(frames, Len(stack), loc) = {i}
    BY <2>1, <2>2, <2>3, FrameAt, SMTT(30)
  <2>5. cellBar[u] = At(i, loc - frames[i].slots + 1)
    <3>1. (CHOOSE j \in {i} : TRUE) = i
      OBVIOUS
    <3> QED BY <1>1, <2>3, <2>4, <3>1 DEF CellIn, loc
  <2>6. /\ Len(frames) \in Nat /\ frames[i].slots \in Nat /\ 1 <= frames[i].slots
        /\ EndIn(frames, Len(stack), i) \in Nat /\ EndIn(frames, Len(stack), i) <= Len(stack)
    BY <2>2, Ends
  <2>7. actsBar[i] = Act(frames[i], SubSeq(stack, frames[i].slots, EndIn(frames, Len(stack), i)))
    BY <2>2, ActsFacts, Bars
  <2> DEFINE vs == SubSeq(stack, frames[i].slots, EndIn(frames, Len(stack), i))
             j == loc - frames[i].slots + 1
             m == frames[i].slots
             e == EndIn(frames, Len(stack), i)
  <2>8. m \in Nat /\ 1 <= m /\ e \in Int /\ m <= e + 1 /\ e <= Len(stack) /\ j \in 1 .. e - m + 1
        /\ m + j - 1 = loc
    BY <2>3, <2>4, <2>6, SMTT(30)
  <2>9. vs = SubSeq(stack, m, e) /\ actsBar[i].vars = vs
    <3>1. Act(frames[i], vs).vars = vs
      BY DEF Act
    <3> QED BY <2>7, <3>1
  <2> HIDE DEF vs, j, m, e
  <2>10. vs \in Seq(Values) /\ Len(vs) = e - m + 1 /\ vs[j] = stack[loc]
    BY <2>2, <2>8, <2>9, Part
  <2>11. j \in DOMAIN vs
    BY <2>8, <2>10, SeqElement
  <2>12. actsBar[i].vars[j] = stack[loc] /\ j \in DOMAIN actsBar[i].vars
    BY <2>9, <2>10, <2>11
  <2>13. i \in Nat /\ i # 0
    BY <2>6
  <2> QED BY <2>3, <2>4, <2>5, <2>6, <2>12, <2>13 DEF j, loc
<1> QED BY <1>2, <1>3

\* An open upvalue points to a slot there is.
LEMMA OpenSlot ==
    ASSUME IInv, NEW u \in openUpvalues
    PROVE  Content(upvalue[u].location) = stack[upvalue[u].location]
<1>1. u \in Upvalues /\ upvalue[u].location \in Nat /\ frames # <<>>
  BY DEF IInv, Sorts, Opened
<1>2. upvalue[u].location \in frames[1].slots .. Len(stack)
  BY DEF IInv, Opened
<1>3. frames[1].slots \in Nat /\ frames[1].slots >= 1 /\ Len(stack) \in Nat
  BY <1>1, TopFrame DEF IInv
<1>4. upvalue[u].location \in DOMAIN stack
  BY <1>2, <1>3, Slot DEF IInv
<1> QED BY <1>4 DEF Content

\* vm_close_upvalues detaches the cells of the variables of a frame past its n-th,
\* and those of the frames above it.
LEMMA Detaches ==
    ASSUME IInv, IInv', NEW i \in 1 .. Len(frames), NEW n \in Nat, NEW last,
           last = frames[i].slots + n, last <= EndIn(frames, Len(stack), i) + 1,
           CloseUpvalues(last), \A u \in openUpvalues' : cellBar'[u] = cellBar[u]
    PROVE  Language!Detach(i, n)
<1> DEFINE gone(u) == cellBar[u].act > i \/ (cellBar[u].act = i /\ cellBar[u].var > n)
           value(u) == actsBar[cellBar[u].act].vars[cellBar[u].var]
<1>1. /\ \A u \in Upvalues : u \in Closing(last) => upvalue'[u] = Closed(Content(upvalue[u].location))
      /\ \A u \in Upvalues : u \notin Closing(last) => upvalue'[u] = upvalue[u]
      /\ openUpvalues' = openUpvalues \ Closing(last)
  BY DEF CloseUpvalues
<1>2. /\ frames \in Seq(Frame) /\ Stacked(frames, Len(stack)) /\ Len(stack) \in Nat
  BY SeqElement DEF IInv, Sorts, Nest
<1>3. /\ Len(frames) \in Nat
      /\ \A j \in 1 .. Len(frames) : frames[j].slots \in Nat /\ EndIn(frames, Len(stack), j) \in Nat
      /\ \A j, l \in 1 .. Len(frames) : j < l => EndIn(frames, Len(stack), j) < frames[l].slots
      /\ frames[i].slots <= EndIn(frames, Len(stack), i)
  BY <1>2, Ends
<1>4. i \in Nat /\ i # 0 /\ last \in Nat
  BY <1>3
<1>5. ASSUME NEW u \in Upvalues
      PROVE  cellBar'[u] = IF gone(u) THEN Kept(value(u)) ELSE cellBar[u]
  <2>1. CASE u \notin openUpvalues
    <3>1. cellBar[u] = Kept(upvalue[u].closed) /\ upvalue[u].location = 0
      BY <2>1, CellAt
    <3>2. ~gone(u)
      BY <1>4, <3>1 DEF Kept
    <3>3. u \notin Closing(last)
      BY <2>1 DEF Closing
    <3>4. upvalue'[u] = upvalue[u]
      BY <1>1, <3>3
    <3>5. cellBar'[u] = CellIn(frames', Len(stack'), upvalue'[u])
      BY Bars
    <3>6. cellBar'[u] = Kept(upvalue[u].closed)
      BY <3>1, <3>4, <3>5 DEF CellIn
    <3> QED BY <3>1, <3>2, <3>6
  <2>2. CASE u \in openUpvalues
    <3> DEFINE loc == upvalue[u].location
    <3>1. PICK j \in 1 .. Len(frames) :
             /\ frames[j].slots <= loc /\ loc <= EndIn(frames, Len(stack), j)
             /\ cellBar[u] = At(j, loc - frames[j].slots + 1)
             /\ actsBar[j].vars[loc - frames[j].slots + 1] = stack[loc]
             /\ frames[j].slots \in Nat /\ j \in Nat /\ j # 0 /\ loc \in Nat
      BY <2>2, CellAt
    <3>2. cellBar[u].act = j /\ cellBar[u].var = loc - frames[j].slots + 1
      BY <3>1 DEF At
    <3>3. value(u) = stack[loc]
      BY <3>1, <3>2
    <3>4. u \in Closing(last) <=> last <= loc
      BY <1>4, <2>2, <3>1 DEF Closing
    <3>5. gone(u) <=> last <= loc
      <4> HIDE DEF loc
      <4>1. CASE j = i
        BY <1>3, <1>4, <3>1, <3>2, <4>1, SMTT(30)
      <4>2. CASE j < i
        <5>1. EndIn(frames, Len(stack), j) < frames[i].slots
          BY <1>3, <4>2
        <5>2. frames[i].slots <= last /\ frames[i].slots \in Nat
          BY <1>3
        <5>3. EndIn(frames, Len(stack), j) \in Nat
          BY <1>3
        <5>4. ~(last <= loc)
          BY <1>4, <3>1, <5>1, <5>2, <5>3
        <5> QED BY <1>4, <3>1, <3>2, <4>2, <5>4
      <4>3. CASE i < j
        <5>1. EndIn(frames, Len(stack), i) < frames[j].slots
          BY <1>3, <4>3
        <5>2. EndIn(frames, Len(stack), i) \in Nat /\ last <= EndIn(frames, Len(stack), i) + 1
          BY <1>3
        <5>3. last <= loc
          BY <1>4, <3>1, <5>1, <5>2, SMTT(30)
        <5> QED BY <1>4, <3>1, <3>2, <4>3, <5>3
      <4> QED BY <1>4, <3>1, <4>1, <4>2, <4>3
    <3>6. CASE u \in Closing(last)
      <4>5. Content(loc) = stack[loc]
        BY <2>2, OpenSlot
      <4>1. upvalue'[u] = Closed(stack[loc])
        BY <1>1, <3>6, <4>5
      <4>2. cellBar'[u] = CellIn(frames', Len(stack'), upvalue'[u])
        BY Bars
      <4>3. cellBar'[u] = Kept(stack[loc])
        BY <4>1, <4>2 DEF CellIn, Closed
      <4>4. gone(u)
        BY <3>4, <3>5, <3>6
      <4> QED BY <3>3, <4>3, <4>4
    <3>7. CASE u \notin Closing(last)
      <4>1. u \in openUpvalues'
        BY <1>1, <2>2, <3>7
      <4>2. ~gone(u)
        BY <3>4, <3>5, <3>7
      <4> QED BY <4>1, <4>2
    <3> QED BY <3>6, <3>7
  <2> QED BY <2>1, <2>2
<1>6. cellBar' = [u \in Upvalues |-> cellBar'[u]]
  BY Bars
<1> HIDE DEF gone, value
<1>7. cellBar' = [u \in Upvalues |-> IF gone(u) THEN Kept(value(u)) ELSE cellBar[u]]
  BY <1>5, <1>6
<1> QED BY <1>7 DEF gone, value, Kept, Language!Detach, Language!Kept

\* Where no upvalue is open there is nothing to close.
LEMMA NothingCloses ==
    ASSUME IInv, NEW last, UNCHANGED <<upvalue, openUpvalues>>,
           \A u \in openUpvalues : ~(upvalue[u].location >= last)
    PROVE  CloseUpvalues(last)
<1>1. Closing(last) = {}
  BY DEF Closing
<1>2. upvalue = [u \in Upvalues |-> upvalue[u]]
  BY DEF IInv, Sorts
<1> QED BY <1>1, <1>2 DEF CloseUpvalues

\* The machine is reset when no upvalue is open, and nothing is left to detach.
LEMMA ResetFails ==
    ASSUME Exercised = {}, IInv, frames # <<>>, Reset, UNCHANGED <<upvalues, global>>
    PROVE  Language!Fail
<1>1. openUpvalues = {} /\ stack' = <<>> /\ frames' = <<>> /\ UNCHANGED upvalue
  BY DEF Reset
<1>2. Language!Running
  BY Tops
<1>3. actsBar' = <<>>
  BY <1>1, Bars DEF Acts
<1>4. ASSUME NEW u \in Upvalues
      PROVE  cellBar'[u] = cellBar[u] /\ cellBar[u].act = 0 /\ cellBar[u].var = 0
  <2>1. upvalue[u].location = 0 /\ cellBar[u] = Kept(upvalue[u].closed)
    BY <1>1, CellAt
  <2>2. cellBar'[u] = CellIn(frames', Len(stack'), upvalue'[u])
    BY Bars
  <2>3. cellBar'[u] = Kept(upvalue[u].closed)
    BY <1>1, <2>1, <2>2 DEF CellIn
  <2> QED BY <2>1, <2>3 DEF Kept
<1>5. cellBar' = [u \in Upvalues |-> cellBar'[u]]
  BY Bars
<1>6. Language!Detach(0, 0)
  BY <1>4, <1>5 DEF Language!Detach
<1> QED BY <1>2, <1>3, <1>6 DEF Language!Fail

-----------------------------------------------------------------------------
(* Instructions of one frame.                                              *)

\* The running frame's slots, as the instructions move them.
LEMMA Moves ==
    ASSUME IInv, frames # <<>>
    PROVE  /\ Language!Top.vars = Locals /\ Language!Top.code = frame.closure
           /\ Language!Top.tries = frame.ip.tries
           /\ Len(Locals) \in Nat /\ Last(Locals) = Peek(0) /\ Peek(0) \in Values
           /\ \A n \in 0 .. Len(Locals) - 1 :
                 Peek(n) = Locals[Len(Locals) - n] /\ Peek(n) \in Values /\ Len(Locals) - n \in 1 .. Len(Locals)
           /\ \A v \in Values : Append(stack, v) = Over(Below, Append(Locals, v))
           /\ \A n \in 0 .. Len(Locals) :
                 /\ Drop(n) = Over(Below, SubSeq(Locals, 1, Len(Locals) - n))
                 /\ SubSeq(Locals, 1, Len(Locals) - n) \in Seq(Values)
                 /\ Len(SubSeq(Locals, 1, Len(Locals) - n)) = Len(Locals) - n
           /\ \A j \in 1 .. Len(Locals), v \in Values :
                 /\ [stack EXCEPT ![frame.slots + j - 1] = v] = Over(Below, [Locals EXCEPT ![j] = v])
                 /\ [Locals EXCEPT ![j] = v] \in Seq(Values) /\ [Locals EXCEPT ![j] = v] # <<>>
<1>1. /\ Below \in Seq(Values) /\ Len(Below) = frame.slots - 1
      /\ Locals \in Seq(Values) /\ Len(Locals) = Len(stack) - frame.slots + 1 /\ Locals # <<>>
      /\ stack = Over(Below, Locals) /\ Len(stack) \in Nat
      /\ frame.slots \in Nat /\ 1 <= frame.slots /\ frame.slots <= Len(stack)
      /\ \A i \in 1 .. Len(Locals) : Locals[i] = stack[frame.slots + i - 1]
  BY Split
<1> DEFINE a == Below
           b == Locals
<1>a. a \in Seq(Values) /\ b \in Seq(Values)
  BY <1>1
<1>b. stack = Over(a, b) /\ Len(a) = frame.slots - 1
  BY <1>1
<1>2. /\ Language!Top.vars = Locals /\ Language!Top.code = frame.closure
      /\ Language!Top.tries = frame.ip.tries
  BY Tops, TopOfFrames, Lay DEF Act
<1>3. Len(Locals) \in Nat /\ Len(Locals) >= 1 /\ \A i \in 1 .. Len(Locals) : Locals[i] \in Values
  BY <1>1, SeqElement
<1>4. ASSUME NEW n \in 0 .. Len(Locals) - 1
      PROVE  Peek(n) = Locals[Len(Locals) - n] /\ Peek(n) \in Values /\ Len(Locals) - n \in 1 .. Len(Locals)
  <2> DEFINE j == Len(Locals) - n
  <2>1. j \in 1 .. Len(Locals) /\ frame.slots + j - 1 = Len(stack) - n
    BY <1>1, <1>3, SMTT(30)
  <2> HIDE DEF j
  <2>2. Locals[j] = stack[Len(stack) - n] /\ Locals[j] \in Values
    BY <1>1, <1>3, <2>1
  <2> QED BY <2>1, <2>2 DEF Peek, j
<1>5. Last(Locals) = Peek(0) /\ Peek(0) \in Values
  <2>1. 0 \in 0 .. Len(Locals) - 1 /\ Len(Locals) - 0 = Len(Locals)
    BY <1>3
  <2> QED BY <1>4, <2>1 DEF Last
<1>6. ASSUME NEW v \in Values PROVE Append(stack, v) = Over(Below, Append(Locals, v))
  <2> HIDE DEF a, b
  <2>1. Append(Over(a, b), v) = Over(a, Append(b, v))
    BY <1>a, OverPush
  <2> QED BY <1>b, <2>1 DEF a, b
<1>7. ASSUME NEW n \in 0 .. Len(Locals)
      PROVE  /\ Drop(n) = Over(Below, SubSeq(Locals, 1, Len(Locals) - n))
             /\ SubSeq(Locals, 1, Len(Locals) - n) \in Seq(Values)
             /\ Len(SubSeq(Locals, 1, Len(Locals) - n)) = Len(Locals) - n
  <2> DEFINE j == Len(Locals) - n
  <2>1. Len(b) \in Nat /\ n \in 0 .. Len(b) /\ Len(b) = Len(stack) - frame.slots + 1
    BY <1>1, <1>3
  <2> HIDE DEF a, b
  <2>2. j \in 0 .. Len(b) /\ j \in Nat /\ j <= Len(b) /\ Len(a) + j = Len(stack) - n
    <3>1. j = Len(b) - n
      BY DEF b
    <3> HIDE DEF j
    <3>2. n \in Nat /\ n <= Len(b) /\ Len(b) \in Nat
      BY <2>1
    <3>3. Len(stack) \in Nat /\ frame.slots \in Nat
      BY <1>1
    <3>4. j \in 0 .. Len(b) /\ j \in Nat /\ j <= Len(b)
      BY <3>1, <3>2
    <3>5. Len(a) + j = Len(stack) - n
      <4>1. Len(a) = frame.slots - 1 /\ Len(b) = Len(stack) - frame.slots + 1
        BY <1>b, <2>1
      <4>2. \A x, y, z \in Int : (x - 1) + ((y - x + 1) - z) = y - z
        OBVIOUS
      <4>3. Len(a) + j = (frame.slots - 1) + ((Len(stack) - frame.slots + 1) - n)
        BY <3>1, <4>1
      <4> QED BY <3>2, <3>3, <4>2, <4>3
    <3> QED BY <3>4, <3>5
  <2> HIDE DEF j
  <2>3. SubSeq(Over(a, b), 1, Len(a) + j) = Over(a, SubSeq(b, 1, j))
    BY <1>a, <2>2, OverCut
  <2>4. SubSeq(b, 1, j) \in Seq(Values) /\ Len(SubSeq(b, 1, j)) = j
    BY <1>a, <2>2, SeqPrefix
  <2>5. Drop(n) = Over(a, SubSeq(b, 1, j))
    BY <1>b, <2>2, <2>3 DEF Drop
  <2> QED BY <2>4, <2>5 DEF a, b, j
<1>8. ASSUME NEW j \in 1 .. Len(Locals), NEW v \in Values
      PROVE  /\ [stack EXCEPT ![frame.slots + j - 1] = v] = Over(Below, [Locals EXCEPT ![j] = v])
             /\ [Locals EXCEPT ![j] = v] \in Seq(Values) /\ [Locals EXCEPT ![j] = v] # <<>>
  <2>1. [stack EXCEPT ![frame.slots + j - 1] = v] = Over(Below, [Locals EXCEPT ![j] = v])
    <3>1. j \in 1 .. Len(b)
      OBVIOUS
    <3> HIDE DEF a, b
    <3>2. [Over(a, b) EXCEPT ![Len(a) + j] = v] = Over(a, [b EXCEPT ![j] = v])
      BY <1>a, <3>1, OverStore
    <3>3. Len(a) + j = frame.slots + j - 1
      BY <1>1, <1>b, <3>1
    <3> QED BY <1>b, <3>2, <3>3 DEF a, b
  <2> DEFINE w == [Locals EXCEPT ![j] = v]
  <2>3. w \in Seq(Values) /\ Len(w) = Len(Locals)
    BY <1>1, SeqExcept
  <2>4. w # <<>>
    <3> HIDE DEF w
    <3>1. Len(w) # 0
      BY <1>3, <2>3
    <3> QED BY <3>1
  <2> QED BY <2>1, <2>3, <2>4
<1> QED BY <1>2, <1>3, <1>4, <1>5, <1>6, <1>7, <1>8

\* A captured slot is not dropped when nothing leaves an upvalue open on one.
LEMMA NoStrays == Exercised = {} => ~Strays
BY DEF Strays

\* Operands are above the callee.
LEMMA Above ==
    ASSUME IInv, frames # <<>>, NEW n \in Nat, Operands(n)
    PROVE  n < Len(Locals)
<1>1. /\ Floor \in Nat /\ frame.slots + 1 <= Floor /\ Len(stack) \in Nat /\ frame.slots \in Nat
      /\ Len(Locals) = Len(stack) - frame.slots + 1
  BY Split, TopFrame DEF IInv
<1>2. Len(stack) - n >= Floor - 1
  BY DEF Operands
<1> QED BY <1>1, <1>2

\* The cells are the same while upvalues and frames are, whatever is on the stack.
LEMMA CellsSame ==
    ASSUME IInv, IInv', UNCHANGED upvalue, Len(frames') = Len(frames),
           \A i \in 1 .. Len(frames) : frames[i].slots = frames'[i].slots
    PROVE  UNCHANGED cellBar
<1>1. Len(frames) \in Nat
  BY SeqElement DEF IInv, Sorts
<1>2. \A u \in Upvalues : cellBar'[u] = cellBar[u]
  <2> DEFINE k == Len(frames)
  <2>1. k \in Nat /\ k <= Len(frames) /\ k <= Len(frames') /\ ~(k < Len(frames)) /\ ~(k < Len(frames'))
    BY <1>1
  <2>2. \A i \in 1 .. k : frames[i].slots = frames'[i].slots
    OBVIOUS
  <2> HIDE DEF k
  <2> QED BY <2>1, <2>2, CellsKept
<1> QED BY <1>2, Bars

LEMMA PushDeclares ==
    ASSUME IInv, IInv', frames # <<>>, OnlyStack, NEW v \in Values, Push(stack, v)
    PROVE  Language!Next
<1>1. stack' = Over(Below, Append(Locals, v))
  BY Moves DEF Push
<1>2. Append(Locals, v) \in Seq(Values) /\ Append(Locals, v) # <<>>
  <2>1. /\ Locals \in Seq(Values) /\ Append(Locals, v) \in Seq(Values)
        /\ Len(Append(Locals, v)) = Len(Locals) + 1 /\ Len(Locals) \in Nat
    BY Split, SeqAppend, SeqElement
  <2> DEFINE w == Append(Locals, v)
  <2>2. w \in Seq(Values) /\ Len(w) # 0
    BY <2>1
  <2> HIDE DEF w
  <2>3. w # <<>>
    BY <2>2
  <2> QED BY <2>2, <2>3 DEF w
<1>3. Language!Becomes(Append(Locals, v))
  BY <1>1, <1>2, Become DEF OnlyStack
<1>4. UNCHANGED <<cellBar, upvalues, global>>
  BY CellsSame DEF OnlyStack
<1>5. Language!Declare(v)
  BY <1>3, <1>4, Moves, Tops DEF Language!Declare
<1> QED BY <1>5 DEF Language!Next

LEMMA ConstantDeclares == IInv /\ IInv' /\ OpConstant => Language!Next
<1> SUFFICES ASSUME IInv, IInv', OpConstant PROVE Language!Next
  OBVIOUS
<1>1. PICK v \in program.constants : Push(stack, v)
  BY DEF OpConstant
<1>2. v \in Values
  BY ProgramsAssumption DEF IInv, Sorts
<1> QED BY <1>1, <1>2, PushDeclares DEF OpConstant, Running

LEMMA GetLocalDeclares == IInv /\ IInv' /\ OpGetLocal => Language!Next
<1> SUFFICES ASSUME IInv, IInv', OpGetLocal PROVE Language!Next
  OBVIOUS
<1>1. PICK i \in Slots : Push(stack, stack[i])
  BY DEF OpGetLocal
<1>2. frames # <<>>
  BY DEF OpGetLocal, Running
<1>3. stack[i] \in Values
  <2>1. i \in 1 .. Len(stack)
    BY <1>2, Split DEF Slots
  <2> QED BY <1>2, <2>1, Split, SeqElement
<1> QED BY <1>1, <1>2, <1>3, PushDeclares DEF OpGetLocal

LEMMA GetGlobalDeclares == IInv /\ IInv' /\ OpGetGlobal => Language!Next
BY PushDeclares DEF OpGetGlobal, Running, IInv, Sorts, Known

LEMMA GetUpvalueDeclares == IInv /\ IInv' /\ OpGetUpvalue => Language!Next
<1> SUFFICES ASSUME IInv, IInv', OpGetUpvalue PROVE Language!Next
  OBVIOUS
<1>1. PICK u \in upvalues[frame.closure] : Push(stack, Read(u))
  BY DEF OpGetUpvalue
<1>2. frames # <<>>
  BY DEF OpGetUpvalue, Running
<1>3. Read(u) \in Values
  <2>1. frame.closure \in DOMAIN upvalues
    BY <1>2, TopFrame DEF IInv, Own
  <2>2. Known \subseteq Values
    BY DEF Known
  <2> HIDE DEF Known
  <2>3. Read(u) \in Known
    BY <1>2, <2>1, Reads DEF Read
  <2> QED BY <2>2, <2>3
<1> QED BY <1>1, <1>2, <1>3, PushDeclares DEF OpGetUpvalue

LEMMA Ended ==
    ASSUME NEW S, NEW s \in Seq(S), s # <<>>
    PROVE  Language!Last(s) = Last(s) /\ Language!Front(s) = SubSeq(s, 1, Len(s) - 1)
BY DEF Last, Language!Last, Language!Front

LEMMA SetLocalAssigns == IInv /\ IInv' /\ OpSetLocal => Language!Next
<1> SUFFICES ASSUME IInv, IInv', OpSetLocal PROVE Language!Next
  OBVIOUS
<1>1. frames # <<>>
  BY DEF OpSetLocal, Running
<1>2. PICK i \in Slots : stack' = [stack EXCEPT ![i] = Peek(0)]
  BY DEF OpSetLocal
<1> DEFINE j == i - frame.slots + 1
           vs == [Locals EXCEPT ![j] = Peek(0)]
<1>3. j \in 1 .. Len(Locals) /\ i = frame.slots + j - 1
  <2>1. /\ frame.slots \in Nat /\ Len(stack) \in Nat /\ Len(Locals) = Len(stack) - frame.slots + 1
        /\ i \in Int /\ frame.slots <= i /\ i <= Len(stack)
    BY <1>1, Split DEF Slots
  <2> QED BY <2>1
<1>4. stack' = Over(Below, vs) /\ vs \in Seq(Values) /\ vs # <<>>
  <2> HIDE DEF j
  <2> QED BY <1>1, <1>2, <1>3, Moves
<1>5. Language!Becomes(vs)
  <2> HIDE DEF vs
  <2> QED BY <1>1, <1>4, Become DEF OpSetLocal, OnlyStack
<1>6. Language!Running /\ Language!Top.vars = Locals /\ Language!Last(Locals) = Peek(0)
  BY <1>1, Tops, Moves, Ended, Split
<1>7. j \in DOMAIN Locals
  BY <1>1, <1>3, Split, SeqElement
<1>8. UNCHANGED <<cellBar, upvalues, global>>
  BY CellsSame DEF OpSetLocal, OnlyStack
<1>9. Language!Assign(j)
  BY <1>5, <1>6, <1>7, <1>8 DEF Language!Assign
<1> QED BY <1>6, <1>7, <1>9 DEF Language!Next

\* What is open when vm_close_upvalues is done.
LEMMA LeftOpen ==
    ASSUME IInv, NEW last \in Nat, CloseUpvalues(last)
    PROVE  /\ openUpvalues' \in SUBSET Upvalues /\ openUpvalues' \subseteq openUpvalues
           /\ \A u \in openUpvalues' : upvalue'[u] = upvalue[u] /\ upvalue[u].location < last
<1>1. openUpvalues \subseteq Upvalues /\ \A u \in Upvalues : upvalue[u].location \in Nat
  BY DEF IInv, Sorts
<1> QED BY <1>1 DEF CloseUpvalues, Closing

\* A slot that is dropped is a variable that is discarded, and a cell of it detached.
LEMMA Discards ==
    ASSUME IInv, IInv', frames # <<>>, UNCHANGED frames, stack' = Drop(1), Len(Locals) >= 2,
           CloseUpvalues(Len(stack))
    PROVE  /\ Language!Running /\ Language!Top.vars # <<>>
           /\ Language!Becomes(Language!Front(Language!Top.vars))
           /\ Language!Detach(Language!Depth, Len(Language!Top.vars) - 1)
<1> DEFINE vs == SubSeq(Locals, 1, Len(Locals) - 1)
           n == Len(Locals) - 1
           i == Len(frames)
<1>1. /\ Locals # <<>> /\ Language!Top.vars = Locals /\ Language!Front(Locals) = vs
      /\ Language!Running /\ Language!Depth = i
  BY Split, Tops, Moves, Ended
<1>2. vs \in Seq(Values) /\ Len(vs) = Len(Locals) - 1 /\ stack' = Over(Below, vs)
  <2>1. 1 \in 0 .. Len(Locals)
    BY Moves
  <2> QED BY <2>1, Moves
<1>3. vs # <<>>
  <2> HIDE DEF vs
  <2>1. Len(vs) # 0
    BY <1>2, Moves, SMTT(30)
  <2> QED BY <2>1
<1>4. Language!Becomes(vs)
  <2> HIDE DEF vs
  <2> QED BY <1>2, <1>3, Become
<1>5. /\ i \in 1 .. Len(frames) /\ i \in Nat /\ n \in Nat /\ Len(stack) = frames[i].slots + n
      /\ Len(stack) <= EndIn(frames, Len(stack), i) + 1 /\ Len(stack) \in Nat
  <2>1. /\ frame.slots \in Nat /\ Len(stack) \in Nat /\ Len(Locals) = Len(stack) - frame.slots + 1
        /\ Len(frames) \in Nat /\ Len(frames) >= 1 /\ frames[i].slots = frame.slots
    BY Split
  <2>2. EndIn(frames, Len(stack), i) = Len(stack)
    BY <2>1 DEF EndIn
  <2> QED BY <2>1, <2>2
<1>6. \A u \in openUpvalues' : cellBar'[u] = cellBar[u]
  <2> DEFINE W == openUpvalues'
  <2>1. W \in SUBSET Upvalues /\ \A u \in W : upvalue'[u] = upvalue[u]
    BY <1>5, LeftOpen
  <2>2. /\ i <= Len(frames) /\ i <= Len(frames') /\ ~(i < Len(frames)) /\ ~(i < Len(frames'))
        /\ \A k \in 1 .. i : frames[k].slots = frames'[k].slots
    BY <1>5
  <2> HIDE DEF W, i
  <2>3. \A u \in W : cellBar'[u] = cellBar[u]
    BY <1>5, <2>1, <2>2, CellsKept
  <2> QED BY <2>3 DEF W
<1>7. Language!Detach(i, n)
  <2> HIDE DEF i, n
  <2> QED BY <1>5, <1>6, Detaches
<1> QED BY <1>1, <1>4, <1>7

\* What is left of the frame when one operand is dropped.
LEMMA OneLess ==
    ASSUME IInv, frames # <<>>, Len(stack) >= Floor
    PROVE  Len(Locals) >= 2
<1>1. /\ Floor \in Nat /\ frame.slots + 1 <= Floor /\ Len(stack) \in Nat /\ frame.slots \in Nat
      /\ Len(Locals) = Len(stack) - frame.slots + 1
  BY Split, TopFrame DEF IInv
<1> QED BY <1>1

LEMMA CloseUpvalueDiscards == IInv /\ IInv' /\ OpCloseUpvalue => Language!Next
<1> SUFFICES ASSUME IInv, IInv', OpCloseUpvalue PROVE Language!Next
  OBVIOUS
<1>1. frames # <<>> /\ Len(stack) >= Floor /\ CloseUpvalues(Len(stack)) /\ stack' = Drop(1)
  BY DEF OpCloseUpvalue, Running
<1>2. Language!Discard
  BY <1>1, OneLess, Discards DEF OpCloseUpvalue, Language!Discard
<1> QED BY <1>2 DEF Language!Next

LEMMA PopDiscards ==
    ASSUME Exercised = {} PROVE IInv /\ IInv' /\ OpPop => Language!Next
<1> SUFFICES ASSUME IInv, IInv', OpPop PROVE Language!Next
  OBVIOUS
<1>1. frames # <<>> /\ Len(stack) >= Floor /\ stack' = Drop(1) /\ ~Captured(Len(stack))
  BY NoStrays DEF OpPop, Running, Droppable
<1>2. CloseUpvalues(Len(stack))
  <2>1. ASSUME NEW u \in openUpvalues PROVE ~(upvalue[u].location >= Len(stack))
    <3>1. upvalue[u].location \in Nat /\ upvalue[u].location <= Len(stack) /\ Len(stack) \in Nat
      BY <1>1, TopFrame DEF IInv, Opened
    <3>2. upvalue[u].location # Len(stack)
      BY <1>1 DEF Captured
    <3> QED BY <3>1, <3>2
  <2>2. UNCHANGED <<upvalue, openUpvalues>>
    BY DEF OpPop, OnlyStack
  <2> QED BY <2>1, <2>2, NothingCloses
<1>3. Language!Discard
  BY <1>1, <1>2, OneLess, Discards DEF OpPop, OnlyStack, Language!Discard
<1> QED BY <1>3 DEF Language!Next

LEMMA DefineGlobalAssigns ==
    ASSUME Exercised = {} PROVE IInv /\ IInv' /\ OpDefineGlobal => Language!Next
<1> SUFFICES ASSUME IInv, IInv', OpDefineGlobal PROVE Language!Next
  OBVIOUS
<1>1. /\ frames # <<>> /\ Operands(1) /\ stack' = Drop(1) /\ global' = Peek(0)
      /\ UNCHANGED <<frames, upvalue, openUpvalues, upvalues>>
  BY DEF OpDefineGlobal, Running
<1>2. Len(Locals) >= 2 /\ \A u \in openUpvalues : ~(upvalue[u].location >= Len(stack))
  <2>1. /\ Len(stack) - 1 >= Floor - 1 /\ Len(stack) \in Nat /\ Floor \in Nat
        /\ \A u \in openUpvalues : upvalue[u].location <= Len(stack) - 1 /\ upvalue[u].location \in Nat
    BY <1>1, Uncaptured, NoStrays, TopFrame DEF IInv, Sorts
  <2> QED BY <1>1, <2>1, OneLess
<1>3. CloseUpvalues(Len(stack))
  BY <1>1, <1>2, NothingCloses
<1>4. Language!Last(Language!Top.vars) = Peek(0)
  BY <1>1, Moves, Ended, Split
<1>5. Language!AssignGlobal
  BY <1>1, <1>2, <1>3, <1>4, Discards DEF Language!AssignGlobal
<1> QED BY <1>5 DEF Language!Next

\* Part of a sequence in which an element was stored.
LEMMA PartKept ==
    ASSUME NEW S, NEW s, NEW m, NEW n, HasPart(S, s, m, n), NEW k \in 1 .. Len(s), NEW v \in S,
           Apart(m, k, n)
    PROVE  Piece(Stored(s, k, v), m, n) = Piece(s, m, n)
<1> USE DEF Apart
<1> DEFINE t == [s EXCEPT ![k] = v]
           p == SubSeq(s, m, n)
           q == SubSeq(t, m, n)
<1>a. s \in Seq(S) /\ m \in Nat /\ 1 <= m /\ n \in Int /\ m <= n + 1 /\ n <= Len(s)
  BY DEF HasPart
<1>1. t \in Seq(S) /\ Len(t) = Len(s) /\ t[k] = v /\ \A i \in 1 .. Len(s) : i # k => t[i] = s[i]
  BY <1>a, SeqExcept
<1>2. Len(s) \in Nat /\ k \in Int
  BY <1>a, SeqElement
<1>3. p \in Seq(S) /\ Len(p) = n - m + 1 /\ \A i \in 1 .. n - m + 1 : p[i] = s[m + i - 1]
  BY <1>a, Part
<1>4. q \in Seq(S) /\ Len(q) = n - m + 1 /\ \A i \in 1 .. n - m + 1 : q[i] = t[m + i - 1]
  <2> HIDE DEF t
  <2> QED BY <1>a, <1>1, Part
<1> HIDE DEF t, p, q
<1>5. \A i \in 1 .. n - m + 1 : m + i - 1 \in 1 .. Len(s)
  BY <1>a, <1>2
<1>6. q = p
  <2>1. ASSUME NEW i \in 1 .. n - m + 1 PROVE q[i] = p[i]
    <3>1. m + i - 1 # k
      BY <1>a, <1>2
    <3> QED BY <1>1, <1>3, <1>4, <1>5, <3>1
  <2>2. Len(q) = Len(p) /\ \A i \in 1 .. Len(q) : q[i] = p[i]
    BY <1>3, <1>4, <2>1
  <2> QED BY <1>3, <1>4, <2>2, SeqSame
<1> QED BY <1>6 DEF p, q, t, Stored, Piece

LEMMA PartStored ==
    ASSUME NEW S, NEW s, NEW m, NEW n, HasPart(S, s, m, n), NEW k \in 1 .. Len(s), NEW v \in S,
           m <= k, k <= n
    PROVE  Piece(Stored(s, k, v), m, n) = Stored(Piece(s, m, n), k - m + 1, v)
<1> DEFINE t == [s EXCEPT ![k] = v]
           p == SubSeq(s, m, n)
           q == SubSeq(t, m, n)
<1>a. s \in Seq(S) /\ m \in Nat /\ 1 <= m /\ n \in Int /\ m <= n + 1 /\ n <= Len(s)
  BY DEF HasPart
<1>1. t \in Seq(S) /\ Len(t) = Len(s) /\ t[k] = v /\ \A i \in 1 .. Len(s) : i # k => t[i] = s[i]
  BY <1>a, SeqExcept
<1>2. Len(s) \in Nat /\ k \in Int
  BY <1>a, SeqElement
<1>3. p \in Seq(S) /\ Len(p) = n - m + 1 /\ \A i \in 1 .. n - m + 1 : p[i] = s[m + i - 1]
  BY <1>a, Part
<1>4. q \in Seq(S) /\ Len(q) = n - m + 1 /\ \A i \in 1 .. n - m + 1 : q[i] = t[m + i - 1]
  <2> HIDE DEF t
  <2> QED BY <1>a, <1>1, Part
<1> HIDE DEF t, p, q
<1>5. \A i \in 1 .. n - m + 1 : m + i - 1 \in 1 .. Len(s)
  BY <1>a, <1>2
<1>6. q = [p EXCEPT ![k - m + 1] = v]
  <2> DEFINE j == k - m + 1
             r == [p EXCEPT ![j] = v]
  <2>1. j \in 1 .. n - m + 1 /\ m + j - 1 = k
    BY <1>a, <1>2
  <2> HIDE DEF j
  <2>2. r \in Seq(S) /\ Len(r) = Len(p) /\ r[j] = v /\ \A i \in 1 .. Len(p) : i # j => r[i] = p[i]
    BY <1>3, <2>1, SeqExcept
  <2> HIDE DEF r
  <2>3. ASSUME NEW i \in 1 .. n - m + 1 PROVE q[i] = r[i]
    <3>1. CASE i = j
      BY <1>1, <1>4, <2>1, <2>2, <3>1
    <3>2. CASE i # j
      <4>1. m + i - 1 # k
        BY <1>a, <1>2, <2>1, <3>2
      <4>2. q[i] = s[m + i - 1]
        BY <1>1, <1>4, <1>5, <4>1
      <4>3. r[i] = p[i]
        BY <1>3, <2>2, <3>2
      <4> QED BY <1>3, <4>2, <4>3
    <3> QED BY <3>1, <3>2
  <2>4. Len(q) = Len(r) /\ \A i \in 1 .. Len(q) : q[i] = r[i]
    BY <1>3, <1>4, <2>2, <2>3
  <2>5. q = r
    BY <1>4, <2>2, <2>4, SeqSame
  <2> QED BY <2>5 DEF r, j
<1> QED BY <1>6 DEF p, q, t, Stored, Piece

LEMMA SetUpvalueAssigns == IInv /\ IInv' /\ OpSetUpvalue => Language!Next
<1> SUFFICES ASSUME IInv, IInv', OpSetUpvalue PROVE Language!Next
  OBVIOUS
<1>1. frames # <<>> /\ Operands(1) /\ UNCHANGED <<frames, openUpvalues, upvalues, global>>
  BY DEF OpSetUpvalue, Running
<1>a. PICK u \in upvalues[frame.closure] :
         /\ stack' = IF upvalue[u].location \in DOMAIN stack
                     THEN [stack EXCEPT ![upvalue[u].location] = Peek(0)] ELSE stack
         /\ upvalue' = IF upvalue[u].location = 0
                       THEN [upvalue EXCEPT ![u] = Closed(Peek(0))] ELSE upvalue
  BY DEF OpSetUpvalue
<1>3. u \in Upvalues /\ frame.closure \in DOMAIN upvalues
  <2>1. Len(frames) \in DOMAIN frames /\ frame = frames[Len(frames)]
    BY <1>1, TopFrame DEF IInv
  <2> QED BY <2>1 DEF IInv, Own, Captures
<1>2. \/ /\ upvalue[u].location \in DOMAIN stack
         /\ stack' = [stack EXCEPT ![upvalue[u].location] = Peek(0)]
         /\ UNCHANGED upvalue
      \/ /\ upvalue[u].location = 0
         /\ upvalue' = [upvalue EXCEPT ![u] = Closed(Peek(0))]
         /\ UNCHANGED stack
  <2>1. upvalue[u].location # 0 => upvalue[u].location \in DOMAIN stack
    BY <1>1, <1>3, <1>a, Reads
  <2>2. upvalue[u].location = 0 => upvalue[u].location \notin DOMAIN stack
    BY Slot DEF IInv
  <2> QED BY <1>a, <2>1, <2>2
<1>4. /\ Language!Running /\ Language!Top.vars # <<>> /\ u \in upvalues[Language!Top.code]
      /\ Language!Last(Language!Top.vars) = Peek(0) /\ Peek(0) \in Values
  BY <1>1, Tops, Moves, Ended, Split
<1> DEFINE v == Peek(0)
<1> HIDE DEF v
<1>5. CASE /\ upvalue[u].location = 0
           /\ upvalue' = [upvalue EXCEPT ![u] = Closed(v)]
           /\ UNCHANGED stack
  <2>1. cellBar[u] = Kept(upvalue[u].closed)
    BY <1>3, <1>5, CellAt DEF IInv, Opened
  <2>2. upvalue'[u] = Closed(v)
    BY <1>3, <1>5 DEF IInv, Sorts
  <2>3. cellBar'[u] = Kept(v)
    <3>1. cellBar'[u] = CellIn(frames', Len(stack'), upvalue'[u])
      BY <1>3, Bars
    <3> QED BY <2>2, <3>1 DEF CellIn, Closed
  <2>4. \A w \in Upvalues \ {u} : cellBar'[w] = cellBar[w]
    <3> DEFINE W == Upvalues \ {u}
               k == Len(frames)
    <3>1. W \in SUBSET Upvalues /\ \A w \in W : upvalue'[w] = upvalue[w]
      BY <1>5 DEF IInv, Sorts
    <3>2. /\ k \in Nat /\ k <= Len(frames) /\ k <= Len(frames')
          /\ ~(k < Len(frames)) /\ ~(k < Len(frames'))
          /\ \A i \in 1 .. k : frames[i].slots = frames'[i].slots
      BY <1>1, Split
    <3> HIDE DEF W, k
    <3>3. \A w \in W : cellBar'[w] = cellBar[w]
      BY <3>1, <3>2, CellsKept
    <3> QED BY <3>3 DEF W
  <2>5. cellBar' = [cellBar EXCEPT ![u] = Kept(v)]
    <3>1. /\ cellBar = [w \in Upvalues |-> cellBar[w]] /\ cellBar' = [w \in Upvalues |-> cellBar'[w]]
      BY Bars
    <3> QED BY <1>3, <2>3, <2>4, <3>1
  <2>6. UNCHANGED actsBar
    BY <1>1, <1>5, Bars DEF Acts, EndIn
  <2>7. Language!AssignCell(u)
    BY <1>1, <1>4, <2>1, <2>5, <2>6 DEF Language!AssignCell, Language!Kept, Kept, v
  <2> QED BY <1>3, <2>7 DEF Language!Next
<1>6. CASE /\ upvalue[u].location \in DOMAIN stack
           /\ stack' = [stack EXCEPT ![upvalue[u].location] = v]
           /\ UNCHANGED upvalue
  <2> DEFINE loc == upvalue[u].location
  <2>1. /\ stack \in Seq(Values) /\ Len(stack) \in Nat /\ frames \in Seq(Frame)
        /\ Stacked(frames, Len(stack)) /\ loc \in 1 .. Len(stack)
    BY <1>1, <1>6, Split, SeqElement DEF IInv, Sorts, Nest
  <2>2. u \in openUpvalues
    BY <1>3, <2>1 DEF IInv, Opened
  <2>3. PICK i \in 1 .. Len(frames) :
           /\ frames[i].slots <= loc /\ loc <= EndIn(frames, Len(stack), i)
           /\ cellBar[u] = At(i, loc - frames[i].slots + 1) /\ i # 0
    BY <1>3, <2>2, CellAt
  <2>4. /\ Len(frames) \in Nat
        /\ \A k \in 1 .. Len(frames) :
              /\ frames[k].slots \in Nat /\ 1 <= frames[k].slots
              /\ EndIn(frames, Len(stack), k) \in Nat
              /\ frames[k].slots <= EndIn(frames, Len(stack), k)
              /\ EndIn(frames, Len(stack), k) <= Len(stack)
        /\ \A k, l \in 1 .. Len(frames) : k < l => EndIn(frames, Len(stack), k) < frames[l].slots
    BY <2>1, Ends
  <2> DEFINE part(s, k) == SubSeq(s, frames[k].slots, EndIn(frames, Len(stack), k))
             j == loc - frames[i].slots + 1
             A == actsBar
             f(k) == Act(frames[k], part(stack, k))
  <2>5. A = [k \in 1 .. Len(frames) |-> f(k)]
    <3>1. DOMAIN frames = 1 .. Len(frames)
      BY <2>1, SeqElement
    <3> QED BY <3>1, Bars DEF Acts
  <2>6. Len(stack') = Len(stack)
    BY <1>4, <1>6, <2>1, SeqExcept DEF v
  <2>7. A' = [k \in 1 .. Len(frames) |-> Act(frames[k], part(stack', k))]
    <3>1. DOMAIN frames = 1 .. Len(frames)
      BY <2>1, SeqElement
    <3> QED BY <1>1, <2>6, <3>1, Bars DEF Acts
  <2>8. ASSUME NEW k \in 1 .. Len(frames)
        PROVE  /\ k # i => part(stack', k) = part(stack, k)
               /\ k = i => part(stack', k) = [part(stack, k) EXCEPT ![j] = v]
    <3> DEFINE m == frames[k].slots
               e == EndIn(frames, Len(stack), k)
               p == SubSeq(stack, m, e)
               q == SubSeq(Stored(stack, loc, v), m, e)
    <3>1. m \in Nat /\ 1 <= m /\ e \in Int /\ m <= e + 1 /\ e <= Len(stack)
      BY <2>4
    <3>2. part(stack, k) = p /\ part(stack', k) = q
      BY <1>6 DEF Stored
    <3>3. m <= loc /\ loc <= e <=> k = i
      <4>1. CASE k = i
        BY <2>3, <4>1
      <4>2. CASE k < i
        <5>1. e < frames[i].slots
          BY <2>4, <4>2
        <5>2. frames[i].slots \in Nat /\ loc \in Nat
          BY <2>1, <2>4
        <5> HIDE DEF loc, e
        <5> QED BY <2>3, <3>1, <4>2, <5>1, <5>2
      <4>3. CASE i < k
        <5>1. EndIn(frames, Len(stack), i) < m
          BY <2>4, <4>3
        <5>2. EndIn(frames, Len(stack), i) \in Nat /\ loc \in Nat
          BY <2>1, <2>4
        <5> HIDE DEF loc, m
        <5> QED BY <2>3, <3>1, <4>3, <5>1, <5>2
      <4>4. k = i \/ k < i \/ i < k
        BY <2>4
      <4> QED BY <4>1, <4>2, <4>3, <4>4
    <3>4. v \in Values
      BY <1>4 DEF v
    <3> DEFINE s == stack
               l == loc
    <3>5. s \in Seq(Values) /\ l \in 1 .. Len(s) /\ e <= Len(s) /\ (m <= l /\ l <= e <=> k = i)
      BY <2>1, <3>1, <3>3
    <3>6. p = Piece(s, m, e) /\ q = Piece(Stored(s, l, v), m, e)
      BY DEF Piece
    <3>7. j = l - frames[i].slots + 1
      OBVIOUS
    <3> HIDE DEF m, e, p, q, s, l, j
    <3>8. HasPart(Values, s, m, e) /\ l \in 1 .. Len(s)
      BY <3>1, <3>5 DEF HasPart
    <3>10. ASSUME ~(m <= l /\ l <= e) PROVE Piece(Stored(s, l, v), m, e) = Piece(s, m, e)
      <4>1. Apart(m, l, e)
        BY <3>10 DEF Apart
      <4> QED BY <3>4, <3>8, <4>1, PartKept
    <3>11. ASSUME m <= l, l <= e
           PROVE  Piece(Stored(s, l, v), m, e) = Stored(Piece(s, m, e), l - m + 1, v)
      BY <3>4, <3>8, <3>11, PartStored
    <3>9. k = i => j = l - m + 1
      BY <3>7 DEF m
    <3> QED BY <3>2, <3>5, <3>6, <3>9, <3>10, <3>11 DEF Stored
  <2>9. A[i] = f(i)
    BY <2>5
  <2>10. [A[i] EXCEPT !.vars[j] = v] = Act(frames[i], part(stack', i))
    <3>1. part(stack', i) = [part(stack, i) EXCEPT ![j] = v]
      BY <2>8
    <3> HIDE DEF part, j
    <3>2. A[i] = Act(frames[i], part(stack, i))
      BY <2>9
    <3> QED BY <3>1, <3>2 DEF Act
  <2>11. \A k \in 1 .. Len(frames) : k # i => Act(frames[k], part(stack', k)) = f(k)
    <3> HIDE DEF part
    <3> QED BY <2>8
  <2>12. A' = [A EXCEPT ![i].vars[j] = v]
    <3> HIDE DEF part, j, A
    <3>1. [A EXCEPT ![i].vars[j] = v] = [A EXCEPT ![i] = [A[i] EXCEPT !.vars[j] = v]]
      OBVIOUS
    <3>2. [A EXCEPT ![i] = Act(frames[i], part(stack', i))] = A'
      BY <2>5, <2>7, <2>11
    <3> QED BY <2>10, <3>1, <3>2
  <2>13. UNCHANGED cellBar
    <3>1. UNCHANGED upvalue
      BY <1>6
    <3> QED BY <1>1, <3>1, CellsSame
  <2>14. Language!AssignCell(u)
    <3>1. cellBar[u].act = i /\ cellBar[u].var = j
      BY <2>3 DEF At
    <3> HIDE DEF j
    <3> QED BY <1>1, <1>4, <2>3, <2>12, <2>13, <3>1 DEF Language!AssignCell, v
  <2> QED BY <1>3, <2>14 DEF Language!Next
<1> QED BY <1>2, <1>5, <1>6 DEF v

-----------------------------------------------------------------------------
(* Closures.                                                               *)

\* An upvalue that points into the stack is a variable of some frame's.
LEMMA CellOf ==
    ASSUME NEW fs \in Seq(Frame), NEW n \in Nat, Stacked(fs, n), fs # <<>>,
           NEW up, up.location \in Nat, up.location # 0,
           fs[1].slots <= up.location, up.location <= n
    PROVE  \E i \in 1 .. Len(fs) :
              /\ fs[i].slots <= up.location /\ up.location <= EndIn(fs, n, i)
              /\ CellIn(fs, n, up) = At(i, up.location - fs[i].slots + 1)
              /\ fs[i].slots \in Nat /\ EndIn(fs, n, i) \in Nat /\ Len(fs) \in Nat
              /\ i < Len(fs) => EndIn(fs, n, i) < fs[Len(fs)].slots
<1> DEFINE loc == up.location
<1>1. loc \in Nat /\ fs[1].slots <= loc /\ loc <= n
  OBVIOUS
<1>2. PICK i \in 1 .. Len(fs) :
         fs[i].slots <= loc /\ loc <= EndIn(fs, n, i) /\ Inside(fs, n, loc) = {i}
  <2> HIDE DEF loc
  <2> QED BY <1>1, FrameAt
<1>3. CellIn(fs, n, up) = At(i, up.location - fs[i].slots + 1)
  <2>1. (CHOOSE j \in {i} : TRUE) = i
    OBVIOUS
  <2> QED BY <1>2, <2>1 DEF CellIn
<1>4. /\ fs[i].slots \in Nat /\ EndIn(fs, n, i) \in Nat /\ Len(fs) \in Nat
      /\ i < Len(fs) => EndIn(fs, n, i) < fs[Len(fs)].slots
  <2>1. /\ Len(fs) \in Nat
        /\ \A k \in 1 .. Len(fs) : fs[k].slots \in Nat /\ EndIn(fs, n, k) \in Nat
        /\ \A k, l \in 1 .. Len(fs) : k < l => EndIn(fs, n, k) < fs[l].slots
    BY Ends
  <2>2. Len(fs) \in 1 .. Len(fs)
    BY <2>1
  <2> QED BY <2>1, <2>2
<1> QED BY <1>2, <1>3, <1>4

\* One that points at a slot of the running frame's is a variable of it.
LEMMA CellTop ==
    ASSUME NEW fs \in Seq(Frame), NEW n \in Nat, Stacked(fs, n), fs # <<>>,
           NEW up, up.location \in Nat, fs[Len(fs)].slots <= up.location, up.location <= n
    PROVE  CellIn(fs, n, up) = At(Len(fs), up.location - fs[Len(fs)].slots + 1)
<1>1. /\ Len(fs) \in Nat /\ Len(fs) >= 1
      /\ \A i \in 1 .. Len(fs) : fs[i].slots \in Nat /\ 1 <= fs[i].slots
      /\ \A i, j \in 1 .. Len(fs) : i < j => fs[i].slots < fs[j].slots
  BY Ends, SeqEnds
<1>2. fs[1].slots <= up.location /\ up.location # 0
  <2>1. Len(fs) = 1 \/ 1 < Len(fs)
    BY <1>1, TopOrUnder
  <2>2. 1 \in 1 .. Len(fs) /\ Len(fs) \in 1 .. Len(fs)
    BY <1>1
  <2>3. fs[1].slots <= fs[Len(fs)].slots
    BY <1>1, <2>1, <2>2
  <2> QED BY <1>1, <2>2, <2>3
<1>3. PICK i \in 1 .. Len(fs) :
              /\ fs[i].slots <= up.location /\ up.location <= EndIn(fs, n, i)
              /\ CellIn(fs, n, up) = At(i, up.location - fs[i].slots + 1)
              /\ fs[i].slots \in Nat /\ EndIn(fs, n, i) \in Nat
              /\ i < Len(fs) => EndIn(fs, n, i) < fs[Len(fs)].slots
  BY <1>2, CellOf
<1>4. i = Len(fs)
  <2> SUFFICES ASSUME i # Len(fs) PROVE FALSE
    OBVIOUS
  <2>1. i < Len(fs)
    BY <1>1
  <2>2. fs[Len(fs)].slots \in Nat
    BY <1>1
  <2> QED BY <1>3, <2>1, <2>2
<1> QED BY <1>3, <1>4

\* No two upvalues are the same variable of the running frame.
LEMMA CellOnly ==
    ASSUME NEW fs \in Seq(Frame), NEW n \in Nat, Stacked(fs, n), fs # <<>>,
           NEW up, up.location \in Nat,
           up.location # 0 => fs[1].slots <= up.location /\ up.location <= n,
           NEW j \in Nat, CellIn(fs, n, up) = At(Len(fs), j)
    PROVE  up.location # 0 /\ up.location = fs[Len(fs)].slots + j - 1
<1>1. Len(fs) \in Nat /\ Len(fs) # 0
  BY SeqEnds
<1>2. up.location # 0
  <2> SUFFICES ASSUME up.location = 0 PROVE FALSE
    OBVIOUS
  <2>1. CellIn(fs, n, up).act = 0
    BY DEF CellIn, Kept
  <2>2. CellIn(fs, n, up).act = Len(fs)
    BY DEF At
  <2> QED BY <1>1, <2>1, <2>2
<1>3. PICK i \in 1 .. Len(fs) :
         CellIn(fs, n, up) = At(i, up.location - fs[i].slots + 1) /\ fs[i].slots \in Nat
  BY <1>2, CellOf
<1>4. i = Len(fs) /\ up.location - fs[i].slots + 1 = j
  <2>1. At(i, up.location - fs[i].slots + 1) = At(Len(fs), j)
    BY <1>3
  <2> QED BY <2>1 DEF At
<1> QED BY <1>2, <1>3, <1>4

LEMMA ClosureCloses == IInv /\ IInv' /\ OpClosure => Language!Next
<1> SUFFICES ASSUME IInv, IInv', OpClosure PROVE Language!Next
  OBVIOUS
<1>1. frames # <<>> /\ UNCHANGED <<frames, global>>
  BY Runs DEF OpClosure
<1> DEFINE used == UNION Range(upvalues)
<1>2. PICK c \in Closures \ DOMAIN upvalues,
           locals \in SUBSET (Slots \cup {Len(stack) + 1}), outer \in SUBSET upvalues[frame.closure] :
        /\ Push(stack, c)
        /\ \E create \in Injection(Missing(locals), Upvalues \ used) :
              CaptureUpvalues(c, locals, outer, create)
  BY DEF OpClosure
<1>3. PICK create \in Injection(Missing(locals), Upvalues \ used) :
              CaptureUpvalues(c, locals, outer, create)
  BY <1>2
<1> DEFINE absent == Missing(locals)
           found == {u \in openUpvalues : upvalue[u].location \in locals}
           made == Range(create)
           at(u) == CHOOSE i \in absent : create[i] = u
           new == {u \in Upvalues : cellBar'[u] # cellBar[u]}
           shared == upvalues'[c] \ new
           top == Len(frames)
<1>4. /\ stack' = Append(stack, c)
      /\ upvalue' = [u \in Upvalues |-> IF u \in made THEN Open(at(u)) ELSE upvalue[u]]
      /\ upvalues' = [d \in DOMAIN upvalues \cup {c} |->
            IF d = c THEN outer \cup found \cup made ELSE upvalues[d]]
  BY <1>2, <1>3 DEF Push, CaptureUpvalues
<1>5. /\ made \subseteq Upvalues \ used
      /\ \A u \in made : at(u) \in absent
      /\ absent \subseteq Slots \cup {Len(stack) + 1} /\ locals \subseteq Slots \cup {Len(stack) + 1}
      /\ outer \subseteq upvalues[frame.closure] /\ found \subseteq openUpvalues
      /\ \A u \in found : upvalue[u].location \in locals
  BY <1>2, <1>3 DEF Injection, IsInjective, Range, Missing
<1>6. \A u : u \in used <=> \E d \in DOMAIN upvalues : u \in upvalues[d]
  BY DEF Range
<1>7. c \notin DOMAIN upvalues /\ c \in Closures /\ c \in Values
  BY <1>2 DEF Values
<1> HIDE DEF used, absent, found, made, at
<1>8. /\ top \in Nat /\ top >= 1 /\ frames \in Seq(Frame) /\ frame = frames[top]
      /\ Stacked(frames, Len(stack)) /\ Len(stack) \in Nat
      /\ frame.slots \in Nat /\ frame.slots <= Len(stack) /\ 1 <= frame.slots
      /\ Len(Locals) = Len(stack) - frame.slots + 1
      /\ stack \in Seq(Values) /\ Len(stack') = Len(stack) + 1
  <2>1. /\ top \in Nat /\ top >= 1 /\ frames \in Seq(Frame) /\ frame = frames[top]
        /\ Stacked(frames, Len(stack)) /\ Len(stack) \in Nat
        /\ frame.slots \in Nat /\ frame.slots <= Len(stack) /\ 1 <= frame.slots
        /\ Len(Locals) = Len(stack) - frame.slots + 1 /\ stack \in Seq(Values)
    BY <1>1, Split DEF IInv, Sorts, Nest
  <2>2. Len(stack') = Len(stack) + 1
    BY <1>4, <1>7, <2>1, SeqAppend
  <2> QED BY <2>1, <2>2
<1>9. Stacked(frames, Len(stack')) /\ Len(stack') \in Nat
  BY <1>1, <1>8 DEF IInv, Nest
<1>10. \A u \in Upvalues \ made : cellBar'[u] = cellBar[u]
  <2> DEFINE W == Upvalues \ made
             k == top
  <2>1. W \in SUBSET Upvalues /\ \A u \in W : upvalue'[u] = upvalue[u]
    BY <1>4
  <2>2. /\ k \in Nat /\ k <= Len(frames) /\ k <= Len(frames')
        /\ ~(k < Len(frames)) /\ ~(k < Len(frames'))
        /\ \A i \in 1 .. k : frames[i].slots = frames'[i].slots
    BY <1>1, <1>8
  <2> HIDE DEF W, k
  <2>3. \A w \in W : cellBar'[w] = cellBar[w]
    BY <2>1, <2>2, CellsKept
  <2> QED BY <2>3 DEF W
<1>11. new \subseteq made
  BY <1>10
\* A new upvalue is on a slot of the frame, and no other is on that slot.
<1>12. ASSUME NEW u \in made
       PROVE  \E j \in 1 .. Len(Locals) + 1 :
                 cellBar'[u] = At(top, j) /\ \A w \in Upvalues \ {u} : cellBar'[w] # At(top, j)
  <2> DEFINE j == at(u) - frame.slots + 1
  <2>1. upvalue'[u].location = at(u) /\ at(u) \in Nat /\ frame.slots <= at(u) /\ at(u) <= Len(stack')
        /\ j \in 1 .. Len(Locals) + 1 /\ u \in Upvalues
    <3>1. upvalue'[u].location = at(u) /\ u \in Upvalues /\ at(u) \in Slots \cup {Len(stack) + 1}
      BY <1>4, <1>5 DEF Open
    <3>2. at(u) \in Nat /\ frame.slots <= at(u) /\ at(u) <= Len(stack) + 1
      BY <1>8, <3>1 DEF Slots
    <3> DEFINE a == at(u)
    <3>3. a \in Nat /\ frame.slots <= a /\ a <= Len(stack) + 1
      BY <3>2
    <3> HIDE DEF a
    <3>4. a - frame.slots + 1 \in 1 .. Len(Locals) + 1
      BY <1>8, <3>3
    <3> QED BY <1>8, <3>1, <3>3, <3>4 DEF a
  <2>2. cellBar'[u] = At(top, j)
    <3>1. cellBar'[u] = CellIn(frames, Len(stack'), upvalue'[u])
      BY <1>1, <2>1, Bars
    <3> DEFINE up == upvalue'[u]
               n == Len(stack')
    <3>2. up.location \in Nat /\ frames[Len(frames)].slots <= up.location /\ up.location <= n
          /\ n \in Nat /\ Stacked(frames, n) /\ up.location = at(u)
      BY <1>8, <1>9, <2>1
    <3> HIDE DEF up, n
    <3>3. CellIn(frames, n, up) = At(Len(frames), up.location - frames[Len(frames)].slots + 1)
      BY <1>1, <1>8, <3>2, CellTop
    <3> QED BY <1>8, <3>1, <3>2, <3>3 DEF up, n
  <2>3. ASSUME NEW w \in Upvalues \ {u}, cellBar'[w] = At(top, j) PROVE FALSE
    <3>1. cellBar'[w] = CellIn(frames, Len(stack'), upvalue'[w])
      BY <1>1, Bars
    <3>2. /\ upvalue'[w].location \in Nat
          /\ upvalue'[w].location # 0 =>
                frames[1].slots <= upvalue'[w].location /\ upvalue'[w].location <= Len(stack')
      <4>1. upvalue'[w].location \in Nat
        BY DEF IInv, Sorts
      <4>2. upvalue'[w].location # 0 => upvalue'[w].location \in frames'[1].slots .. Len(stack')
        BY DEF IInv, Opened
      <4>3. frames[1].slots \in Nat
        BY <1>1, TopFrame DEF IInv
      <4> QED BY <1>1, <1>9, <4>1, <4>2, <4>3
    <3>3. j \in Nat
      BY <2>1
    <3> DEFINE up == upvalue'[w]
               n == Len(stack')
    <3>4. up.location \in Nat /\ n \in Nat /\ Stacked(frames, n) /\ CellIn(frames, n, up) = At(Len(frames), j)
          /\ (up.location # 0 => frames[1].slots <= up.location /\ up.location <= n)
      BY <1>9, <2>3, <3>1, <3>2
    <3> HIDE DEF up, n, j
    <3>5. up.location # 0 /\ up.location = frames[Len(frames)].slots + j - 1
      BY <1>1, <1>8, <3>3, <3>4, CellOnly
    <3>6. upvalue'[w].location # 0 /\ upvalue'[w].location = at(u)
      BY <1>8, <2>1, <3>5, SMTT(30) DEF up, j
    <3>7. w \in openUpvalues' /\ u \in openUpvalues'
      BY <1>8, <2>1, <3>6 DEF IInv, Opened
    <3> QED BY <2>1, <3>6, <3>7 DEF IInv, Opened
  <2> HIDE DEF j
  <2> QED BY <2>1, <2>2, <2>3
<1>13. ASSUME NEW u \in shared PROVE u \in upvalues[frame.closure] \/ cellBar[u].act = top
  <2>1. u \in outer \cup found \cup made /\ u \notin new
    BY <1>4
  <2>2. CASE u \in outer
    BY <1>5, <2>2
  <2>3. CASE u \in found
    <3>1. u \in openUpvalues /\ upvalue[u].location \in Slots \cup {Len(stack) + 1} /\ u \in Upvalues
      BY <1>5, <2>3 DEF IInv, Sorts
    <3>2. upvalue[u].location \in Nat /\ upvalue[u].location <= Len(stack)
      BY <1>1, <3>1, TopFrame DEF IInv, Opened
    <3>3. frames[Len(frames)].slots <= upvalue[u].location
      BY <1>8, <3>1, <3>2 DEF Slots
    <3> DEFINE up == upvalue[u]
               n == Len(stack)
    <3>4. up.location \in Nat /\ frames[Len(frames)].slots <= up.location /\ up.location <= n
          /\ n \in Nat /\ Stacked(frames, n) /\ cellBar[u] = CellIn(frames, n, up)
      BY <1>8, <3>1, <3>2, <3>3, Bars
    <3> HIDE DEF up, n
    <3>5. CellIn(frames, n, up) = At(Len(frames), up.location - frames[Len(frames)].slots + 1)
      BY <1>1, <1>8, <3>4, CellTop
    <3> QED BY <3>4, <3>5 DEF At
  <2>4. CASE u \in made
    <3>1. cellBar'[u] = cellBar[u]
      BY <1>5, <2>1, <2>4
    <3>2. PICK j \in 1 .. Len(Locals) + 1 : cellBar'[u] = At(top, j)
      BY <1>12, <2>4
    <3>3. At(top, j).act = top
      BY DEF At
    <3> QED BY <3>1, <3>2, <3>3
  <2> QED BY <2>1, <2>2, <2>3, <2>4
<1>14. new \subseteq upvalues'[c] \ used
  BY <1>4, <1>5, <1>11
<1>15. DOMAIN upvalues' = DOMAIN upvalues \cup {c} /\ \A d \in DOMAIN upvalues : upvalues'[d] = upvalues[d]
  BY <1>4, <1>7
<1>16. Language!Running /\ Language!Top.vars = Locals /\ Language!Top.code = frame.closure
       /\ Language!Depth = top
  BY <1>1, Tops, Moves
<1>17. Language!Becomes(Append(Locals, c))
  <2>1. Append(stack, c) = Over(Below, Append(Locals, c))
    BY <1>1, <1>7, Moves
  <2> DEFINE vs == Append(Locals, c)
  <2>2. vs \in Seq(Values) /\ vs # <<>>
    <3>1. Locals \in Seq(Values)
      BY <1>1, Split
    <3>2. vs \in Seq(Values) /\ Len(vs) = Len(Locals) + 1 /\ Len(Locals) \in Nat
      BY <1>7, <3>1, SeqAppend, SeqElement
    <3> HIDE DEF vs
    <3>3. Len(vs) # 0
      BY <3>2
    <3> QED BY <3>2, <3>3
  <2> HIDE DEF vs
  <2>3. stack' = Over(Below, vs)
    BY <1>4, <2>1 DEF vs
  <2>4. Language!Becomes(vs)
    BY <1>1, <2>2, <2>3, Become
  <2> QED BY <2>4 DEF vs
<1>18. used = UNION {upvalues[d] : d \in DOMAIN upvalues}
  BY <1>6
<1>19. \A u \in new : \E j \in 1 .. Len(Locals) + 1 :
          cellBar'[u] = Language!At(top, j) /\ \A w \in Upvalues \ {u} : cellBar'[w] # Language!At(top, j)
  BY <1>11, <1>12 DEF At, Language!At
<1>20. Language!Close(c)
  <2> HIDE DEF top
  <2> QED BY <1>1, <1>7, <1>13, <1>14, <1>15, <1>16, <1>17, <1>18, <1>19 DEF Language!Close
<1> QED BY <1>7, <1>20 DEF Language!Next

-----------------------------------------------------------------------------
(* Calls.                                                                  *)

LEMMA Nonempty ==
    ASSUME NEW S, NEW s \in Seq(S)
    PROVE  /\ Len(s) \in Nat /\ (s # <<>> <=> Len(s) >= 1)
OBVIOUS

\* The running activation with other variables.
LEMMA Changed ==
    ASSUME IInv, frames # <<>>, NEW vs \in Seq(Values)
    PROVE  [actsBar EXCEPT ![Language!Depth].vars = vs] = Append(Acts(Callers, Below), Act(frame, vs))
<1>1. /\ Language!Depth = Len(frames) /\ actsBar[Len(frames)] = Act(frame, Locals)
      /\ \A A \in Activations(Values) :
            [actsBar EXCEPT ![Len(frames)] = A] = Append(Acts(Callers, Below), A)
  <2>1. actsBar[Len(actsBar)] = Act(frame, Locals) /\ Len(actsBar) = Len(frames)
    BY Tops DEF Language!Top, Language!Depth, Language!Last
  <2> QED BY <2>1, Tops
<1>2. [Act(frame, Locals) EXCEPT !.vars = vs] = Act(frame, vs)
  BY DEF Act
<1>3. Act(frame, vs) \in Activations(Values)
  BY Split DEF Act, Activations, Frame, Ip
<1> QED BY <1>1, <1>2, <1>3

\* A frame over the last slots of the running one.
LEMMA Entered ==
    ASSUME IInv, IInv', frames # <<>>, NEW new \in Frame, frames' = Append(frames, new),
           NEW rest \in Seq(Values), NEW vs \in Seq(Values), rest # <<>>, vs # <<>>,
           stack' = Over(Over(Below, rest), vs), new.slots = frame.slots + Len(rest),
           UNCHANGED upvalue, \A u \in openUpvalues : upvalue[u].location < new.slots
    PROVE  /\ actsBar' = Append([actsBar EXCEPT ![Language!Depth].vars = rest], Act(new, vs))
           /\ UNCHANGED cellBar
<1>1. /\ Callers \in Seq(Frame) /\ frame \in Frame /\ frames = Append(Callers, frame)
      /\ Below \in Seq(Values) /\ Len(Below) = frame.slots - 1 /\ Stacked(Callers, frame.slots - 1)
      /\ Len(frames) \in Nat /\ frame.slots \in Nat /\ frames \in Seq(Frame)
  BY Split DEF IInv, Sorts
<1> DEFINE low == Over(Below, rest)
           n == Len(frames)
<1>2. low \in Seq(Values) /\ Len(low) = Len(Below) + Len(rest) /\ Len(rest) \in Nat
  BY <1>1, Concat DEF Over
<1>3. Len(low) = new.slots - 1 /\ new.slots \in Nat
  <2> HIDE DEF low
  <2> QED BY <1>1, <1>2, SMTT(30)
<1>4. /\ Len(frames') = n + 1 /\ frames'[n + 1] = new /\ \A i \in 1 .. n : frames'[i] = frames[i]
      /\ frames' \in Seq(Frame) /\ SubSeq(frames', 1, n) = frames
  <2>1. \A i \in 1 .. n : Append(frames, new)[i] = frames[i]
    BY <1>1, SeqAppend, SMTT(30)
  <2>2. Append(frames, new) \in Seq(Frame) /\ Len(Append(frames, new)) = n + 1
        /\ Append(frames, new)[n + 1] = new
    BY <1>1, SeqAppend
  <2>3. SubSeq(Append(frames, new), 1, Len(frames)) = frames
    BY <1>1, ActsEnd
  <2> QED BY <2>1, <2>2, <2>3
<1>5. Stacked(frames, new.slots - 1)
  <2>1. Stacked(frames', Len(stack')) /\ Len(stack') \in Int
    BY SeqElement DEF IInv, Sorts, Nest
  <2>2. n \in Nat /\ n < Len(frames')
    BY <1>1, <1>4
  <2> DEFINE fs == frames'
             m == Len(stack')
  <2>3. fs \in Seq(Frame) /\ m \in Int /\ Stacked(fs, m) /\ n < Len(fs)
    BY <1>4, <2>1, <2>2
  <2> HIDE DEF fs, m, n
  <2>4. Stacked(SubSeq(fs, 1, n), fs[n + 1].slots - 1)
    BY <2>2, <2>3, StackedCut
  <2> QED BY <1>4, <2>4 DEF fs
<1>6. actsBar' = Append(Acts(frames, low), Act(new, vs))
  <2>1. actsBar' = Acts(Append(frames, new), Over(low, vs))
    BY Bars
  <2> HIDE DEF low
  <2>2. Acts(Append(frames, new), Over(low, vs)) = Append(Acts(frames, low), Act(new, vs))
    BY <1>1, <1>2, <1>3, <1>5, ActsTop
  <2> QED BY <2>1, <2>2
<1>7. Acts(frames, low) = Append(Acts(Callers, Below), Act(frame, rest))
  BY <1>1, ActsTop
<1>8. Acts(frames, low) = [actsBar EXCEPT ![Language!Depth].vars = rest]
  BY <1>7, Changed
<1>9. \A u \in Upvalues : cellBar'[u] = cellBar[u]
  <2> DEFINE W == Upvalues
  <2>1. W \in SUBSET Upvalues /\ \A u \in W : upvalue'[u] = upvalue[u]
    OBVIOUS
  <2>2. /\ n \in Nat /\ n <= Len(frames) /\ n <= Len(frames') /\ ~(n < Len(frames))
        /\ \A i \in 1 .. n : frames[i].slots = frames'[i].slots
        /\ \A u \in W \cap openUpvalues : upvalue[u].location < frames'[n + 1].slots
    BY <1>1, <1>4
  <2> HIDE DEF W, n
  <2>3. \A w \in W : cellBar'[w] = cellBar[w]
    BY <2>1, <2>2, CellsKept
  <2> QED BY <2>3 DEF W
<1>10. UNCHANGED cellBar
  BY <1>9, Bars
<1> QED BY <1>6, <1>8, <1>10

\* The arguments of a call, with the callee below them.
LEMMA Operated ==
    ASSUME Exercised = {}, IInv, frames # <<>>, NEW n \in Nat, Operands(n + 1), NEW v \in Values
    PROVE  /\ n + 1 < Len(Locals) /\ Len(Locals) \in Nat
           /\ Language!Callee(n) = Peek(n)
           /\ Language!Rest(n) = SubSeq(Locals, 1, Len(Locals) - n - 1)
           /\ Language!Rest(n) \in Seq(Values) /\ Language!Rest(n) # <<>>
           /\ Len(Language!Rest(n)) = Len(Locals) - n - 1
           /\ Language!Arguments(n) = SubSeq(stack, Len(stack) - n + 1, Len(stack))
           /\ Language!Arguments(n) \in Seq(Values) /\ Len(Language!Arguments(n)) = n
           /\ [stack EXCEPT ![Len(stack) - n] = v] =
                 Over(Over(Below, Language!Rest(n)), <<v>> \o Language!Arguments(n))
           /\ Drop(n + 1) = Over(Below, Language!Rest(n))
           /\ <<v>> \o Language!Arguments(n) \in Seq(Values) /\ <<v>> \o Language!Arguments(n) # <<>>
           /\ \A u \in openUpvalues : upvalue[u].location <= Len(stack) - n - 1
           /\ Len(Locals) = Len(stack) - frame.slots + 1 /\ Len(stack) \in Nat /\ frame.slots \in Nat
<1>1. /\ Below \in Seq(Values) /\ Len(Below) = frame.slots - 1
      /\ Locals \in Seq(Values) /\ Len(Locals) = Len(stack) - frame.slots + 1
      /\ stack = Over(Below, Locals) /\ Len(stack) \in Nat /\ stack \in Seq(Values)
      /\ frame.slots \in Nat /\ 1 <= frame.slots /\ frame.slots <= Len(stack)
  BY Split
<1>2. n + 1 < Len(Locals) /\ Len(Locals) \in Nat
  <2>1. n + 1 \in Nat
    OBVIOUS
  <2> QED BY <1>1, <2>1, Above, Nonempty
<1>3. Language!Top.vars = Locals /\ Language!Callee(n) = Peek(n)
  <2>1. n \in 0 .. Len(Locals) - 1
    BY <1>2
  <2> QED BY <2>1, Moves DEF Language!Callee
<1> DEFINE rest == SubSeq(Locals, 1, Len(Locals) - n - 1)
           args == SubSeq(Locals, Len(Locals) - n + 1, Len(Locals))
<1>4. Language!Rest(n) = rest /\ Language!Arguments(n) = args
  BY <1>3 DEF Language!Rest, Language!Arguments
<1>5. rest \in Seq(Values) /\ Len(rest) = Len(Locals) - n - 1 /\ Drop(n + 1) = Over(Below, rest)
  <2>1. n + 1 \in 0 .. Len(Locals) /\ Len(Locals) - (n + 1) = Len(Locals) - n - 1
    BY <1>2
  <2> QED BY <2>1, Moves
<1>6. rest # <<>>
  <2> HIDE DEF rest
  <2> QED BY <1>2, <1>5, Nonempty
<1>7. args \in Seq(Values) /\ Len(args) = n /\ \A i \in 1 .. n : args[i] = Locals[Len(Locals) - n + i]
  <2> DEFINE m == Len(Locals) - n + 1
             e == Len(Locals)
  <2>1. m \in Nat /\ 1 <= m /\ e \in Int /\ m <= e + 1 /\ e <= Len(Locals) /\ e - m + 1 = n
        /\ \A i \in 1 .. n : m + i - 1 = Len(Locals) - n + i
    BY <1>2
  <2> HIDE DEF m, e
  <2> DEFINE p == SubSeq(Locals, m, e)
  <2>2. Locals \in Seq(Values)
    BY <1>1
  <2>3. p \in Seq(Values) /\ Len(p) = e - m + 1 /\ \A i \in 1 .. e - m + 1 : p[i] = Locals[m + i - 1]
    BY <2>1, <2>2, Part
  <2>4. p = args
    BY DEF m, e
  <2> HIDE DEF p, args
  <2>5. Len(args) = n /\ \A i \in 1 .. n : args[i] = Locals[Len(Locals) - n + i]
    BY <2>1, <2>3, <2>4
  <2> QED BY <2>3, <2>4, <2>5
<1> DEFINE high == SubSeq(stack, Len(stack) - n + 1, Len(stack))
<1>8. high \in Seq(Values) /\ Len(high) = n /\ \A i \in 1 .. n : high[i] = stack[Len(stack) - n + i]
  <2> DEFINE m == Len(stack) - n + 1
             e == Len(stack)
  <2>1. m \in Nat /\ 1 <= m /\ e \in Int /\ m <= e + 1 /\ e <= Len(stack) /\ e - m + 1 = n
        /\ \A i \in 1 .. n : m + i - 1 = Len(stack) - n + i
    <3>1. n <= Len(stack)
      BY <1>1, <1>2
    <3> QED BY <1>1, <3>1
  <2> HIDE DEF m, e
  <2> DEFINE p == SubSeq(stack, m, e)
  <2>3. p \in Seq(Values) /\ Len(p) = e - m + 1 /\ \A i \in 1 .. e - m + 1 : p[i] = stack[m + i - 1]
    BY <1>1, <2>1, Part
  <2>4. p = high
    BY DEF m, e
  <2> HIDE DEF p, high
  <2>5. Len(high) = n /\ \A i \in 1 .. n : high[i] = stack[Len(stack) - n + i]
    BY <2>1, <2>3, <2>4
  <2> QED BY <2>3, <2>4, <2>5
<1>9. args = high
  <2>1. ASSUME NEW i \in 1 .. n PROVE args[i] = high[i]
    <3> DEFINE k == Len(Locals) - n + i
    <3>1. k \in 1 .. Len(Locals) /\ frame.slots + k - 1 = Len(stack) - n + i
      <4>1. Len(Locals) \in Nat /\ n < Len(Locals) /\ Len(Locals) = Len(stack) - frame.slots + 1
        BY <1>1, <1>2
      <4>2. frame.slots \in Nat /\ Len(stack) \in Nat
        BY <1>1
      <4> QED BY <4>1, <4>2, SMTT(30)
    <3> HIDE DEF k
    <3>2. Locals[k] = stack[Len(stack) - n + i]
      BY <3>1, Split
    <3> HIDE DEF args, high
    <3> QED BY <1>7, <1>8, <3>2 DEF k
  <2> HIDE DEF args, high
  <2>2. Len(args) = Len(high) /\ \A i \in 1 .. Len(args) : args[i] = high[i]
    BY <1>7, <1>8, <2>1
  <2> QED BY <1>7, <1>8, <2>2, SeqSame
<1>10. [stack EXCEPT ![Len(stack) - n] = v] = Over(Over(Below, rest), <<v>> \o args)
  <2> DEFINE j == Len(stack) - n
  <2>1. j \in 1 .. Len(stack) /\ Len(stack) - (n + 1) = j - 1
    BY <1>1, <1>2
  <2>2. Drop(n + 1) = SubSeq(stack, 1, j - 1) /\ high = SubSeq(stack, j + 1, Len(stack))
    BY <2>1 DEF Drop
  <2> HIDE DEF j, high
  <2> HIDE DEF args, rest
  <2>5. stack \in Seq(Values) /\ v \in Values
    BY <1>1
  <2>3. Stored(stack, j, v) = Over(SubSeq(stack, 1, j - 1), Over(<<v>>, SubSeq(stack, j + 1, Len(stack))))
    BY <2>1, <2>5, StoredIs
  <2>4. Stored(stack, j, v) = Over(Drop(n + 1), Over(<<v>>, high))
    BY <2>2, <2>3
  <2> HIDE DEF args, rest
  <2>6. Stored(stack, j, v) = Over(Over(Below, rest), Over(<<v>>, args))
    BY <1>5, <1>9, <2>4
  <2> QED BY <2>6 DEF Over, Stored, j
<1>11. <<v>> \o args \in Seq(Values) /\ <<v>> \o args # <<>>
  <2> DEFINE one == <<v>>
  <2>1. one \in Seq(Values) /\ Len(one) = 1
    OBVIOUS
  <2>a. args \in Seq(Values) /\ Len(args) = n
    BY <1>7
  <2> HIDE DEF one, args
  <2> HIDE DEF Values
  <2>2. one \o args \in Seq(Values) /\ Len(one \o args) = 1 + n
    BY <2>1, <2>a, Concat
  <2>3. one \o args # <<>>
    <3> DEFINE w == one \o args
    <3>1. w \in Seq(Values) /\ Len(w) >= 1
      BY <2>2
    <3> HIDE DEF w
    <3>2. w # <<>>
      BY <3>1, Nonempty
    <3> QED BY <3>2 DEF w
  <2> QED BY <2>2, <2>3 DEF one
<1>12. \A u \in openUpvalues : upvalue[u].location <= Len(stack) - n - 1
  BY TopOperand, NoStrays
<1> HIDE DEF rest, args, high
<1>13. Language!Arguments(n) = SubSeq(stack, Len(stack) - n + 1, Len(stack))
  BY <1>4, <1>9 DEF high
<1>14. Language!Rest(n) = SubSeq(Locals, 1, Len(Locals) - n - 1)
  BY <1>4 DEF rest
<1> QED BY <1>1, <1>2, <1>3, <1>4, <1>5, <1>6, <1>7, <1>10, <1>11, <1>12, <1>13, <1>14

LEMMA EnterCalls ==
    ASSUME Exercised = {}, IInv, IInv', frames # <<>>, UNCHANGED <<upvalues, global>>,
           NEW n \in Nat, Operands(n + 1), NEW t \in Target(Peek(n)),
           Enter([stack EXCEPT ![Len(stack) - n] = t.self], t.code, n)
    PROVE  Language!Next
<1> DEFINE s == [stack EXCEPT ![Len(stack) - n] = t.self]
           c == t.code
           new == [closure |-> c, ip |-> Ready(c), slots |-> Len(stack) - n]
           rest == Language!Rest(n)
           vs == <<t.self>> \o Language!Arguments(n)
<1>1. t.code \in Closures /\ t.self \in Values
  <2>1. \A i \in 0 .. n : Peek(i) \in Known
    BY TopOperand, NoStrays
  <2>2. Peek(n) \in Known
    BY <2>1
  <2>3. t.code \in DOMAIN upvalues /\ t.self \in Known
    BY <2>2, Targets DEF IInv
  <2>4. Known \subseteq Values /\ DOMAIN upvalues \subseteq Closures
    BY DEF IInv, Sorts, Known
  <2> QED BY <2>3, <2>4
<1>2. CASE Reset
  BY <1>2, ResetFails DEF Language!Next
<1>3. CASE /\ n = Arity[c] /\ Len(frames) < FRAMES_MAX
           /\ stack' = s
           /\ frames' = Append(frames, [closure |-> c, ip |-> Ready(c), slots |-> Len(s) - n])
           /\ Same
  <2>1. /\ n + 1 < Len(Locals) /\ Len(Locals) \in Nat
        /\ Language!Callee(n) = Peek(n)
        /\ rest \in Seq(Values) /\ rest # <<>> /\ Len(rest) = Len(Locals) - n - 1
        /\ vs \in Seq(Values) /\ vs # <<>>
        /\ \A u \in openUpvalues : upvalue[u].location <= Len(stack) - n - 1
        /\ Len(Locals) = Len(stack) - frame.slots + 1 /\ Len(stack) \in Nat /\ frame.slots \in Nat
    BY <1>1, Operated
  <2>2. s = Over(Over(Below, rest), vs)
    BY <1>1, Operated
  <2>3. Len(s) = Len(stack)
    <3>1. frame.slots >= 1 /\ stack \in Seq(Values)
      BY Split
    <3>2. /\ n < Len(Locals) /\ Len(Locals) = Len(stack) - frame.slots + 1
          /\ Len(stack) \in Nat /\ frame.slots \in Nat
      BY <2>1
    <3>3. Len(stack) - n \in 1 .. Len(stack)
      BY <3>1, <3>2
    <3> QED BY <1>1, <3>1, <3>3, SeqExcept
  <2> HIDE DEF s, vs, rest
  <2>4. frames' = Append(frames, new) /\ stack' = Over(Over(Below, rest), vs)
    BY <1>3, <2>2, <2>3
  <2>5. new \in Frame /\ new.slots = Len(stack) - n /\ new.ip = Ready(c)
    BY <1>1, <2>1, SMTT(30) DEF Frame, Ip, Ready
  <2> HIDE DEF new
  <2>6. new.slots = frame.slots + Len(rest) /\ Len(stack) - n - 1 < new.slots
    <3>1. /\ Len(rest) = Len(Locals) - n - 1 /\ Len(Locals) = Len(stack) - frame.slots + 1
          /\ Len(stack) \in Nat /\ frame.slots \in Nat /\ Len(Locals) \in Nat
      BY <2>1
    <3>2. new.slots = Len(stack) - n
      BY <2>5
    <3>3. \A a, b, d, m \in Int : b = d - a + 1 => (d - m) = a + (b - m - 1)
      OBVIOUS
    <3>4. Len(stack) - n = frame.slots + (Len(Locals) - n - 1)
      BY <3>1, <3>3, SMTT(30)
    <3>5. Len(stack) - n - 1 < Len(stack) - n
      BY <3>1
    <3> QED BY <3>1, <3>2, <3>4, <3>5
  <2>7. \A u \in openUpvalues : upvalue[u].location < new.slots
    <3>1. \A u \in openUpvalues : upvalue[u].location \in Nat
      BY DEF IInv, Sorts
    <3>2. /\ \A u \in openUpvalues : upvalue[u].location <= Len(stack) - n - 1
          /\ Len(stack) \in Nat /\ new.slots = Len(stack) - n
      BY <2>1, <2>5
    <3> QED BY <3>1, <3>2
  <2>8. Act(new, vs) = Language!Begins(c, vs)
    BY <2>5 DEF Act, Ready, Language!Begins
  <2>9. actsBar' = Append([actsBar EXCEPT ![Language!Depth].vars = rest], Act(new, vs)) /\ UNCHANGED cellBar
    BY <1>3, <2>1, <2>4, <2>5, <2>6, <2>7, Entered DEF Same
  <2>10. Language!Running /\ Language!Depth = Len(frames) /\ Language!Top.vars = Locals
    BY Tops, Moves
  <2>11. t \in Language!Calls(c) /\ Len(Language!Top.vars) > Arity[c] /\ Language!Depth < FRAMES_MAX
    <3>1. Language!Callee(Arity[c]) = Peek(n) /\ n < Len(Locals)
      BY <1>3, <2>1
    <3> QED BY <1>3, <2>10, <3>1 DEF Language!Calls
  <2>12. actsBar' = Append([actsBar EXCEPT ![Language!Depth].vars = Language!Rest(Arity[c])],
                           Language!Begins(c, <<t.self>> \o Language!Arguments(Arity[c])))
    BY <1>3, <2>8, <2>9 DEF rest, vs
  <2>13. Language!Call(c)
    BY <2>9, <2>10, <2>11, <2>12 DEF Language!Call
  <2> QED BY <1>1, <2>13 DEF Language!Next
<1> QED BY <1>2, <1>3 DEF Enter

LEMMA Replies ==
    ASSUME Exercised = {}, IInv, IInv', frames # <<>>, UNCHANGED <<upvalues, global, frames>>, Same,
           NEW n \in 0 .. MaxArgs, Operands(n + 1), NEW v \in Answers(Peek(n), n),
           stack' = Append(Drop(n + 1), v)
    PROVE  Language!Next
<1>1. n \in Nat /\ v \in Values
  <2>1. v \in Known
    BY Results
  <2> QED BY <2>1, BoundsAssumption DEF Known
<1> DEFINE rest == Language!Rest(n)
<1>2. /\ n + 1 < Len(Locals) /\ Len(Locals) \in Nat
      /\ Language!Callee(n) = Peek(n)
      /\ rest \in Seq(Values) /\ Drop(n + 1) = Over(Below, rest)
  BY <1>1, Operated
<1> HIDE DEF rest
<1>3. Append(rest, v) \in Seq(Values) /\ Append(rest, v) # <<>>
  <2> DEFINE w == Append(rest, v)
  <2>1. w \in Seq(Values) /\ Len(w) = Len(rest) + 1 /\ Len(rest) \in Nat
    BY <1>1, <1>2, SeqAppend, SeqElement
  <2> HIDE DEF w
  <2>2. w # <<>>
    BY <2>1, Nonempty
  <2> QED BY <2>1, <2>2 DEF w
<1>4. stack' = Over(Below, Append(rest, v))
  <2>1. Below \in Seq(Values)
    BY Split
  <2> QED BY <1>1, <1>2, <2>1, OverPush
<1>5. Language!Becomes(Append(rest, v))
  <2> DEFINE w == Append(rest, v)
  <2> HIDE DEF w
  <2>1. w \in Seq(Values) /\ w # <<>> /\ stack' = Over(Below, w)
    BY <1>3, <1>4 DEF w
  <2> QED BY <2>1, Become DEF w
<1>6. UNCHANGED cellBar
  BY CellsSame DEF Same
<1>7. Language!Running /\ Language!Top.vars = Locals
  BY Tops, Moves
<1>8. Language!Reply(n)
  <2>1. Len(Language!Top.vars) > n
    BY <1>1, <1>2, <1>7
  <2>2. v \in Answers(Language!Callee(n), n)
    BY <1>2
  <2> QED BY <1>5, <1>6, <1>7, <2>1, <2>2 DEF Language!Reply, rest
<1> QED BY <1>8 DEF Language!Next

LEMMA CallCalls ==
    ASSUME Exercised = {} PROVE IInv /\ IInv' /\ OpCall => Language!Next
<1> SUFFICES ASSUME IInv, IInv', OpCall PROVE Language!Next
  OBVIOUS
<1>1. frames # <<>> /\ UNCHANGED <<upvalues, global, program>>
  BY Runs DEF OpCall
<1>2. PICK n \in 0 .. MaxArgs :
        /\ Operands(n + 1)
        /\ \/ \E t \in Target(Peek(n)) : Enter([stack EXCEPT ![Len(stack) - n] = t.self], t.code, n)
           \/ /\ \E v \in Answers(Peek(n), n) : stack' = Append(Drop(n + 1), v)
              /\ Same /\ UNCHANGED frames
           \/ Reset
  BY DEF OpCall
<1>3. n \in Nat
  BY BoundsAssumption
<1>4. ASSUME NEW t \in Target(Peek(n)), Enter([stack EXCEPT ![Len(stack) - n] = t.self], t.code, n)
      PROVE  Language!Next
  BY <1>1, <1>2, <1>3, <1>4, EnterCalls
<1>5. ASSUME NEW v \in Answers(Peek(n), n), stack' = Append(Drop(n + 1), v), Same, UNCHANGED frames
      PROVE  Language!Next
  BY <1>1, <1>2, <1>5, Replies
<1>6. CASE Reset
  BY <1>1, <1>6, ResetFails DEF Language!Next
<1> QED BY <1>2, <1>4, <1>5, <1>6

\* A super call: the superclass goes, and the frame lies over the receiver.
LEMMA SuperInvokeCalls ==
    ASSUME Exercised = {} PROVE IInv /\ IInv' /\ OpSuperInvoke => Language!Next
<1> SUFFICES ASSUME IInv, IInv', OpSuperInvoke PROVE Language!Next
  OBVIOUS
<1>1. frames # <<>> /\ UNCHANGED <<upvalues, global, program>>
  BY Runs DEF OpSuperInvoke
<1>2. PICK n \in 0 .. MaxArgs : Operands(n + 2) /\ Enter(Drop(1), Method, n)
  BY DEF OpSuperInvoke
<1>3. n \in Nat /\ n + 1 \in Nat /\ Operands((n + 1) + 1)
  <2>1. n \in Nat
    BY BoundsAssumption
  <2>2. (n + 1) + 1 = n + 2
    BY <2>1
  <2> QED BY <1>2, <2>1, <2>2
<1>4. CASE Reset
  BY <1>1, <1>4, ResetFails DEF Language!Next
<1>5. CASE /\ n = Arity[Method] /\ Len(frames) < FRAMES_MAX
           /\ stack' = Drop(1)
           /\ frames' = Append(frames, [closure |-> Method, ip |-> Ready(Method), slots |-> Len(Drop(1)) - n])
           /\ Same
  <2> DEFINE all == SubSeq(Locals, 1, Len(Locals) - 1)
             low == Len(all) - n - 1
             rest == SubSeq(all, 1, low)
             vs == SubSeq(all, low + 1, Len(all))
             new == [closure |-> Method, ip |-> Ready(Method), slots |-> Len(Drop(1)) - n]
  <2>1. /\ Len(Locals) \in Nat /\ n + 2 < Len(Locals)
        /\ Len(Locals) = Len(stack) - frame.slots + 1 /\ Len(stack) \in Nat /\ frame.slots \in Nat
    <3>1. (n + 1) + 1 < Len(Locals)
      <4>1. (n + 1) + 1 \in Nat
        BY <1>3
      <4> QED BY <1>1, <1>3, <4>1, Above
    <3>2. /\ Len(Locals) \in Nat /\ Len(Locals) = Len(stack) - frame.slots + 1
          /\ Len(stack) \in Nat /\ frame.slots \in Nat
      BY <1>1, Split, Moves
    <3> QED BY <1>3, <3>1, <3>2
  <2>2. all \in Seq(Values) /\ Len(all) = Len(Locals) - 1 /\ Drop(1) = Over(Below, all)
    <3>1. 1 \in 0 .. Len(Locals)
      BY <1>3, <2>1
    <3> QED BY <1>1, <3>1, Moves
  <2>3. all = Language!Front(Language!Top.vars) /\ Language!Top.vars = Locals
    <3>1. Locals \in Seq(Values) /\ Locals # <<>>
      BY <1>1, Split
    <3>2. Language!Front(Locals) = SubSeq(Locals, 1, Len(Locals) - 1)
      BY <3>1, Ended
    <3>3. Language!Top.vars = Locals
      BY <1>1, Moves
    <3> QED BY <3>2, <3>3
  <2>4. Len(Drop(1)) = Len(stack) - 1
    <3>1. 1 \in Nat /\ 1 <= Len(stack)
      <4>1. Len(stack) \in Nat /\ frame.slots \in Nat /\ 1 <= frame.slots /\ frame.slots <= Len(stack)
        BY <1>1, Split
      <4> QED BY <4>1
    <3> QED BY <3>1, Dropped DEF IInv
  <2> HIDE DEF all
  <2>5. low \in 0 .. Len(all) /\ low \in Nat /\ low >= 1 /\ Len(all) - low = n + 1
    <3>1. Len(all) = Len(Locals) - 1 /\ n + 2 < Len(Locals) /\ Len(Locals) \in Nat
      BY <2>1, <2>2
    <3> QED BY <1>3, <3>1
  <2> HIDE DEF low
  <2>6. /\ rest \in Seq(Values) /\ Len(rest) = low /\ vs \in Seq(Values) /\ Len(vs) = Len(all) - low
        /\ all = Over(rest, vs)
    BY <2>2, <2>5, InTwo DEF Over
  <2> HIDE DEF rest, vs
  <2>7. rest # <<>> /\ vs # <<>>
    BY <1>3, <2>5, <2>6, Nonempty
  <2>8. Over(Below, all) = Over(Over(Below, rest), vs)
    <3>1. Below \in Seq(Values)
      BY <1>1, Split
    <3>2. Over(Below, Over(rest, vs)) = Over(Over(Below, rest), vs)
      BY <2>6, <3>1, SMTT(30) DEF Over
    <3> QED BY <2>6, <3>2
  <2>9. stack' = Over(Over(Below, rest), vs)
    BY <1>5, <2>2, <2>8
  <2>10. new \in Frame /\ new.slots = Len(stack) - 1 - n /\ new.ip = Ready(Method)
    <3>1. Len(stack) - 1 - n \in Nat \ {0}
      <4>1. 1 <= frame.slots
        BY <1>1, Split
      <4> QED BY <1>3, <2>1, <4>1
    <3> QED BY <2>4, <3>1, ClosuresAssumption DEF Frame, Ip, Ready
  <2>11. frames' = Append(frames, new)
    BY <1>5
  <2>12. Act(new, vs) = Language!Begins(Method, vs)
    BY <2>10 DEF Act, Ready, Language!Begins
  <2> HIDE DEF new
  <2>13. new.slots = frame.slots + Len(rest)
    <3>1. Len(rest) = low /\ low = Len(all) - n - 1 /\ Len(all) = Len(Locals) - 1 /\ low \in Nat
      BY <2>2, <2>5, <2>6 DEF low
    <3>2. \A a, b, d, m \in Int : b = d - a + 1 => d - 1 - m = a + (b - 1 - m - 1)
      OBVIOUS
    <3>3. Len(stack) - 1 - n = frame.slots + (Len(Locals) - 1 - n - 1)
      BY <1>3, <2>1, <3>2
    <3> QED BY <2>10, <3>1, <3>3
  <2>14. \A u \in openUpvalues : upvalue[u].location < new.slots
    <3>1. \A u \in openUpvalues : upvalue[u].location <= Len(stack) - (n + 1) - 1
      BY <1>1, <1>3, TopOperand, NoStrays
    <3>2. \A u \in openUpvalues : upvalue[u].location \in Nat
      BY DEF IInv, Sorts
    <3>3. new.slots = Len(stack) - 1 - n /\ Len(stack) \in Nat
      BY <2>1, <2>10
    <3> QED BY <1>3, <3>1, <3>2, <3>3
  <2>15. actsBar' = Append([actsBar EXCEPT ![Language!Depth].vars = rest], Act(new, vs)) /\ UNCHANGED cellBar
    BY <1>1, <1>5, <2>6, <2>7, <2>9, <2>10, <2>11, <2>13, <2>14, Entered DEF Same
  <2>16. Language!Running /\ Language!Depth = Len(frames)
    BY <1>1, Tops
  <2>17. /\ actsBar' = Append([actsBar EXCEPT ![Language!Depth].vars =
                                 SubSeq(all, 1, Len(all) - Arity[Method] - 1)],
                              Language!Begins(Method, SubSeq(all, Len(all) - Arity[Method] - 1 + 1, Len(all))))
    BY <1>5, <2>12, <2>15 DEF rest, vs, low
  <2>18. Len(Language!Top.vars) > Arity[Method] + 1 /\ Language!Depth < FRAMES_MAX
    <3>1. Len(Locals) > n + 1
      BY <1>3, <2>1
    <3> QED BY <1>5, <2>3, <2>16, <3>1
  <2>19. Language!SuperCall(Method)
    <3> DEFINE a == Language!Front(Language!Top.vars)
    <3>1. /\ actsBar' = Append([actsBar EXCEPT ![Language!Depth].vars =
                                 SubSeq(a, 1, Len(a) - Arity[Method] - 1)],
                              Language!Begins(Method, SubSeq(a, Len(a) - Arity[Method] - 1 + 1, Len(a))))
      BY <2>3, <2>17
    <3> HIDE DEF a
    <3>2. UNCHANGED <<cellBar, upvalues, global>>
      BY <1>1, <2>15
    <3> QED BY <2>16, <2>18, <3>1, <3>2 DEF Language!SuperCall, a
  <2> QED BY <2>19, ClosuresAssumption DEF Language!Next
<1> QED BY <1>2, <1>4, <1>5 DEF Enter

\* The cells of the running activation's variables, when its upvalues are closed.
LEMMA TopDetaches ==
    ASSUME IInv, IInv', frames # <<>>, CloseUpvalues(frame.slots),
           Len(frames) - 1 <= Len(frames'),
           \A i \in 1 .. Len(frames) - 1 : frames[i].slots = frames'[i].slots,
           Len(frames) - 1 < Len(frames') => frames'[Len(frames)].slots = frame.slots
    PROVE  Language!Detach(Language!Depth, 0)
<1> DEFINE i == Len(frames)
           k == Len(frames) - 1
           W == openUpvalues'
<1>1. /\ frame.slots \in Nat /\ 1 <= frame.slots /\ frame.slots <= Len(stack) /\ Len(stack) \in Nat
      /\ Len(frames) \in Nat /\ Len(frames) >= 1 /\ frames[i].slots = frame.slots
  BY Split
<1>2. Language!Depth = i
  BY Tops
<1>3. /\ i \in 1 .. Len(frames) /\ frame.slots = frames[i].slots + 0
      /\ frame.slots <= EndIn(frames, Len(stack), i) + 1
  <2>1. EndIn(frames, Len(stack), i) = Len(stack)
    BY <1>1 DEF EndIn
  <2> QED BY <1>1, <2>1
<1>4. /\ W \in SUBSET Upvalues /\ \A u \in W : upvalue'[u] = upvalue[u]
      /\ \A u \in W : upvalue[u].location < frame.slots
  BY <1>1, LeftOpen
<1>5. k \in Nat /\ k <= Len(frames) /\ k <= Len(frames') /\ k + 1 = i
      /\ \A j \in 1 .. k : frames[j].slots = frames'[j].slots
  BY <1>1
<1>6. \A u \in W \cap openUpvalues :
         /\ k < Len(frames) => upvalue[u].location < frames[k + 1].slots
         /\ k < Len(frames') => upvalue[u].location < frames'[k + 1].slots
  BY <1>1, <1>4, <1>5
<1> HIDE DEF k, W
<1>7. \A u \in W : cellBar'[u] = cellBar[u]
  BY <1>4, <1>5, <1>6, CellsKept
<1> HIDE DEF i
<1>8. Language!Detach(i, 0)
  BY <1>3, <1>7, Detaches DEF W
<1> QED BY <1>2, <1>8

\* Activation i gains a value.
Gained(P, i, v) == [P EXCEPT ![i].vars = Append(@, v)]

\* A frame's activation when a value is pushed on it.
LEMMA Gains ==
    ASSUME NEW S, NEW B \in Seq(Activations(S)), NEW f \in Frame, NEW vs \in Seq(S), NEW v \in S
    PROVE  Gained(Append(B, Act(f, vs)), Len(B) + 1, v) = Append(B, Act(f, Append(vs, v)))
<1> DEFINE A == Act(f, vs)
           w == Append(vs, v)
           P == Append(B, A)
<1>1. A \in Activations(S) /\ A.vars = vs
  BY DEF Act, Activations, Frame, Ip
<1>2. w \in Seq(S)
  BY SeqAppend
<1>3. [A EXCEPT !.vars = w] = Act(f, w)
  <2> HIDE DEF w
  <2> QED BY DEF Act
<1>4. Act(f, w) \in Activations(S)
  <2> HIDE DEF w
  <2> QED BY <1>2 DEF Act, Activations, Frame, Ip
<1> HIDE DEF A, w
<1>5. P[Len(B) + 1] = A /\ [P EXCEPT ![Len(B) + 1] = Act(f, w)] = Append(B, Act(f, w))
  BY <1>1, <1>4, ActsEnd
<1> HIDE DEF P
<1>6. [P EXCEPT ![Len(B) + 1].vars = Append(@, v)] = [P EXCEPT ![Len(B) + 1] = Act(f, w)]
  BY <1>1, <1>3, <1>5 DEF w
<1> QED BY <1>5, <1>6 DEF P, A, w, Gained

\* The tail of OP_RETURN: the caller gains the result.
LEMMA LeaveReturns ==
    ASSUME IInv, IInv', frames # <<>>, NEW v \in Values, Leave(v)
    PROVE  Language!Detach(Language!Depth, 0) /\ actsBar' = Language!Returned(v)
<1>1. CloseUpvalues(frame.slots) /\ frames' = Callers
  BY DEF Leave, Front, Callers
<1>2. /\ Callers \in Seq(Frame) /\ Len(Callers) = Len(frames) - 1 /\ Len(frames) \in Nat
      /\ Len(frames) >= 1 /\ frame \in Frame
      /\ \A i \in 1 .. Len(frames) - 1 : Callers[i] = frames[i]
      /\ Below \in Seq(Values) /\ Len(Below) = frame.slots - 1 /\ frame.slots \in Nat
      /\ Stacked(Callers, frame.slots - 1)
  BY Split
<1>3. Language!Detach(Language!Depth, 0)
  <2>1. /\ Len(frames) - 1 <= Len(frames') /\ ~(Len(frames) - 1 < Len(frames'))
        /\ \A i \in 1 .. Len(frames) - 1 : frames[i].slots = frames'[i].slots
    BY <1>1, <1>2
  <2> QED BY <1>1, <2>1, TopDetaches
<1>4. Language!Depth = Len(frames)
  BY Tops
<1>5. CASE Len(frames) = 1
  <2>1. frames' = <<>>
    BY <1>1, <1>2, <1>5
  <2>2. actsBar' = <<>>
    BY <2>1, Bars DEF Acts
  <2> QED BY <1>3, <1>4, <1>5, <2>2 DEF Language!Returned
<1>6. CASE Len(frames) # 1
  <2> DEFINE k == Len(Callers)
             g == Callers[k]
             CC == SubSeq(Callers, 1, k - 1)
             n == Len(Below)
             low == SubSeq(Below, 1, g.slots - 1)
             vs == SubSeq(Below, g.slots, n)
             B == Acts(CC, low)
  <2>1. k \in Nat /\ k >= 1 /\ k = Len(frames) - 1 /\ n \in Nat /\ n = frame.slots - 1
        /\ Stacked(Callers, n)
    BY <1>2, <1>6, SeqElement
  <2> HIDE DEF n
  <2>2. g \in Frame /\ g.slots \in Nat /\ 1 <= g.slots /\ g.slots <= n
    <3>1. k \in 1 .. Len(Callers)
      BY <2>1
    <3> QED BY <1>2, <2>1, <3>1, Ends
  <2>3. Callers = Append(CC, g) /\ CC \in Seq(Frame) /\ Len(CC) = k - 1
    <3>1. Callers # <<>>
      BY <1>2, <2>1, Nonempty
    <3>2. [Callers EXCEPT ![Len(Callers)] = g] = Append(SubSeq(Callers, 1, Len(Callers) - 1), g)
      BY <1>2, <2>2, <3>1, SeqTop
    <3>3. [Callers EXCEPT ![Len(Callers)] = g] = Callers
      BY <1>2
    <3>4. k - 1 \in Nat /\ k - 1 <= Len(Callers)
      BY <2>1
    <3>5. CC \in Seq(Frame) /\ Len(CC) = k - 1
      BY <1>2, <3>4, SeqPrefix
    <3> QED BY <3>2, <3>3, <3>5
  <2>4. Stacked(CC, g.slots - 1)
    <3>1. k - 1 \in Nat /\ k - 1 < Len(Callers) /\ k - 1 + 1 = k /\ n \in Int
      BY <2>1
    <3>2. Stacked(SubSeq(Callers, 1, k - 1), Callers[k - 1 + 1].slots - 1)
      BY <1>2, <2>1, <3>1, StackedCut
    <3> QED BY <3>1, <3>2
  <2> HIDE DEF k, g, CC
  <2>5. /\ low \in Seq(Values) /\ Len(low) = g.slots - 1
        /\ vs \in Seq(Values) /\ Len(vs) = n - (g.slots - 1) /\ Below = Over(low, vs)
    <3> DEFINE m == g.slots - 1
    <3>1. m \in 0 .. Len(Below) /\ m + 1 = g.slots
      BY <2>2 DEF n
    <3> HIDE DEF m
    <3>2. /\ SubSeq(Below, 1, m) \in Seq(Values) /\ Len(SubSeq(Below, 1, m)) = m
          /\ SubSeq(Below, m + 1, Len(Below)) \in Seq(Values)
          /\ Len(SubSeq(Below, m + 1, Len(Below))) = Len(Below) - m
          /\ Below = Over(SubSeq(Below, 1, m), SubSeq(Below, m + 1, Len(Below)))
      BY <1>2, <3>1, InTwo DEF Over
    <3> QED BY <3>1, <3>2 DEF n, m
  <2> HIDE DEF low, vs
  <2>6. vs # <<>>
    <3>1. Len(vs) >= 1
      BY <2>1, <2>2, <2>5
    <3> QED BY <2>5, <3>1, Nonempty
  <2> DEFINE w == Append(vs, v)
  <2>7. w \in Seq(Values) /\ w # <<>>
    <3>1. w \in Seq(Values) /\ Len(w) = Len(vs) + 1 /\ Len(vs) \in Nat
      BY <2>5, SeqAppend, SeqElement
    <3> HIDE DEF w
    <3>2. w # <<>>
      BY <3>1, Nonempty
    <3> QED BY <3>1, <3>2
  <2>8. stack' = Over(low, w)
    <3>1. stack' = Append(Below, v)
      BY <1>6 DEF Leave, Below
    <3>2. Append(Over(low, vs), v) = Over(low, Append(vs, v))
      BY <2>5, OverPush
    <3> QED BY <2>5, <3>1, <3>2
  <2> HIDE DEF w
  <2>9. Acts(Callers, Below) = Append(B, Act(g, vs))
    <3>1. Acts(Append(CC, g), Over(low, vs)) = Append(Acts(CC, low), Act(g, vs))
      BY <2>2, <2>3, <2>4, <2>5, <2>6, ActsTop
    <3> QED BY <2>3, <2>5, <3>1
  <2>10. actsBar' = Append(B, Act(g, w))
    <3>1. Acts(Append(CC, g), Over(low, w)) = Append(Acts(CC, low), Act(g, w))
      BY <2>2, <2>3, <2>4, <2>5, <2>7, ActsTop
    <3> QED BY <1>1, <2>3, <2>8, <3>1, Bars
  <2>11. B \in Seq(Activations(Values)) /\ Len(B) = k - 1
    <3>1. Stacked(CC, Len(low))
      BY <2>4, <2>5
    <3> QED BY <2>3, <2>5, <3>1, ActsFacts
  <2>12. Language!Front(actsBar) = Acts(Callers, Below)
    <3>1. actsBar \in Seq(Activations(Values)) /\ actsBar # <<>> /\ Len(actsBar) = Len(frames)
      <4>1. actsBar \in Seq(Activations(Values))
        <5> HIDE DEF B
        <5> DEFINE X == Acts(Callers, Below)
                   Y == Act(frame, Locals)
        <5>1. X \in Seq(Activations(Values)) /\ Y \in Activations(Values) /\ actsBar = Append(X, Y)
          BY ActsSplit
        <5> HIDE DEF X, Y
        <5> QED BY <5>1, SeqAppend
      <4> QED BY <1>4, <4>1, Tops DEF Language!Depth, Language!Running
    <3> QED BY <3>1, Ended, Tops
  <2> HIDE DEF B
  <2>13. Language!Depth # 1 /\ Language!Depth - 1 = Len(B) + 1
    BY <1>2, <1>4, <1>6, <2>1, <2>11
  <2>14. Gained(Append(B, Act(g, vs)), Len(B) + 1, v) = Append(B, Act(g, w))
    <3>1. vs \in Seq(Values) /\ B \in Seq(Activations(Values)) /\ g \in Frame
      BY <2>2, <2>5, <2>11
    <3>2. Gained(Append(B, Act(g, vs)), Len(B) + 1, v) = Append(B, Act(g, Append(vs, v)))
      BY <3>1, Gains
    <3> QED BY <3>2 DEF w
  <2>15. Language!Returned(v) = Append(B, Act(g, w))
    BY <2>9, <2>12, <2>13, <2>14 DEF Language!Returned, Gained
  <2> QED BY <1>3, <2>10, <2>15
<1> QED BY <1>5, <1>6

LEMMA ReturnReturns == IInv /\ IInv' /\ OpReturn => Language!Next
<1> SUFFICES ASSUME IInv, IInv', OpReturn PROVE Language!Next
  OBVIOUS
<1>1. /\ frames # <<>> /\ UNCHANGED <<upvalues, global>> /\ Leave(Peek(0))
      /\ frame.ip.code = Initializer => Peek(0) = stack[frame.slots]
  BY Runs DEF OpReturn
<1>2. /\ Locals \in Seq(Values) /\ Locals # <<>> /\ frame.slots \in Nat
      /\ \A i \in 1 .. Len(Locals) : Locals[i] = stack[frame.slots + i - 1]
  BY <1>1, Split
<1>3. /\ Language!Top.vars = Locals /\ Language!Top.code = frame.closure
      /\ Last(Locals) = Peek(0) /\ Peek(0) \in Values /\ Language!Running
  BY <1>1, Moves, Tops
<1>4. Language!Last(Locals) = Peek(0)
  BY <1>2, <1>3, Ended
<1>5. Language!Top.code = Initializer => Language!Last(Locals) = Head(Locals)
  <2>1. frame.ip.code = frame.closure
    BY <1>1, TopOfFrames, Lay
  <2>2. Head(Locals) = Locals[1] /\ 1 \in 1 .. Len(Locals)
    BY <1>2
  <2>3. frame.slots + 1 - 1 = frame.slots
    BY <1>2
  <2>4. Locals[1] = stack[frame.slots]
    BY <1>2, <2>2, <2>3
  <2> QED BY <1>1, <1>3, <1>4, <2>1, <2>2, <2>4
<1>6. Language!Detach(Language!Depth, 0) /\ actsBar' = Language!Returned(Peek(0))
  BY <1>1, <1>3, LeaveReturns
<1>7. Language!Return
  BY <1>1, <1>2, <1>3, <1>4, <1>5, <1>6 DEF Language!Return
<1> QED BY <1>7 DEF Language!Next

\* A tail call gives the frame up for the new activation.
LEMMA ReuseCalls ==
    ASSUME Exercised = {}, IInv, IInv', frames # <<>>, UNCHANGED <<upvalues, global>>,
           frame.ip.tries = <<>>, NEW n \in Nat, Operands(n + 1), NEW t \in Target(Peek(n)),
           Reuse(t.code, t.self, n)
    PROVE  Language!Next
<1> DEFINE s == [stack EXCEPT ![Len(stack) - n] = t.self]
           c == t.code
           g == [closure |-> c, ip |-> Ready(c), slots |-> frame.slots]
           rest == Language!Rest(n)
           vs == <<t.self>> \o Language!Arguments(n)
<1>1. t.code \in Closures /\ t.self \in Values
  <2>1. \A i \in 0 .. n : Peek(i) \in Known
    BY TopOperand, NoStrays
  <2>2. Peek(n) \in Known
    BY <2>1
  <2>3. t.code \in DOMAIN upvalues /\ t.self \in Known
    BY <2>2, Targets DEF IInv
  <2>4. Known \subseteq Values /\ DOMAIN upvalues \subseteq Closures
    BY DEF IInv, Sorts, Known
  <2> QED BY <2>3, <2>4
<1>2. CASE Reset
  BY <1>2, ResetFails DEF Language!Next
<1>3. CASE /\ n = Arity[c]
           /\ CloseUpvalues(frame.slots)
           /\ stack' = SubSeq(stack, 1, frame.slots - 1) \o Arguments(n, s)
           /\ frames' = [frames EXCEPT ![Len(frames)] =
                            [closure |-> c, ip |-> Ready(c), slots |-> @.slots]]
           /\ UNCHANGED handlers
  <2>1. /\ n + 1 < Len(Locals) /\ Len(Locals) \in Nat
        /\ Language!Callee(n) = Peek(n)
        /\ rest \in Seq(Values)
        /\ vs \in Seq(Values) /\ vs # <<>>
    BY <1>1, Operated
  <2>2. s = Over(Over(Below, rest), vs)
    BY <1>1, Operated
  <2>3. /\ frames \in Seq(Frame) /\ frame \in Frame /\ frame = frames[Len(frames)]
        /\ Len(frames) \in Nat /\ Len(frames) >= 1 /\ frame.slots \in Nat /\ 1 <= frame.slots
        /\ Below \in Seq(Values)
    BY Split DEF IInv, Sorts
  <2>4. g \in Frame /\ g.slots = frame.slots /\ g.ip = Ready(c)
    BY <1>1, <2>3 DEF Frame, Ip, Ready
  <2>5. frames' = [frames EXCEPT ![Len(frames)] = g]
    BY <1>3, <2>3
  <2>6. Act(g, vs) = Language!Begins(c, vs)
    BY <2>4 DEF Act, Ready, Language!Begins
  <2> HIDE DEF g
  <2>7. frames' = Append(Callers, g)
    BY <2>3, <2>4, <2>5, SeqTop DEF Callers
  <2>8. Len(vs) = n + 1
    <3> DEFINE a == Language!Arguments(n)
               one == <<t.self>>
    <3>1. a \in Seq(Values) /\ Len(a) = n
      BY <1>1, Operated
    <3>2. one \in Seq(Values) /\ Len(one) = 1
      BY <1>1
    <3> HIDE DEF a, one
    <3>3. Len(one \o a) = Len(one) + Len(a)
      BY <3>1, <3>2, Concat
    <3>4. Len(one \o a) = n + 1
      BY <3>1, <3>2, <3>3
    <3> QED BY <3>4 DEF one, a
  <2> HIDE DEF vs, rest
  <2>9. Arguments(n, s) = vs
    <3> DEFINE X == Over(Below, rest)
    <3>1. X \in Seq(Values)
      BY <2>1, <2>3, Concat DEF Over
    <3> HIDE DEF s, X
    <3>2. s = X \o vs
      BY <2>2 DEF Over, X
    <3>3. Len(s) = Len(X) + Len(vs) /\ Len(X) \in Nat /\ Len(vs) \in Nat
      BY <2>1, <3>1, <3>2, Concat
    <3>4. SubSeq(X \o vs, Len(X) + 1, Len(X) + Len(vs)) = vs
      BY <2>1, <3>1, Halves
    <3>5. Len(s) - n = Len(X) + 1
      BY <2>8, <3>3
    <3>6. SubSeq(s, Len(s) - n, Len(s)) = vs
      BY <3>2, <3>3, <3>4, <3>5
    <3> QED BY <3>6 DEF Arguments
  <2>10. stack' = Over(Below, vs)
    BY <1>3, <2>9 DEF Over, Below
  <2>11. actsBar' = Append(Acts(Callers, Below), Act(g, vs))
    BY <2>1, <2>4, <2>7, <2>10, ActsNext
  <2>12. Act(g, vs) \in Activations(Values)
    BY <2>1, <2>4 DEF Act, Activations, Frame, Ip
  <2>13. Language!Running /\ Language!Depth = Len(frames) /\ Language!Top.vars = Locals
         /\ Language!Top.tries = <<>>
    BY Tops, Moves
  <2>14. actsBar' = [actsBar EXCEPT ![Language!Depth] = Language!Begins(c, vs)]
    BY <2>6, <2>11, <2>12, <2>13, Tops
  <2>15. Language!Detach(Language!Depth, 0)
    <3>1. Len(frames') = Len(frames) /\ frames'[Len(frames)] = g
          /\ \A i \in 1 .. Len(frames) - 1 : frames[i] = frames'[i]
      BY <2>3, <2>4, <2>5, SeqExcept
    <3>2. Len(frames) - 1 <= Len(frames')
      BY <2>3, <3>1
    <3> QED BY <1>3, <2>4, <3>1, <3>2, TopDetaches
  <2>16. t \in Language!Calls(c) /\ Len(Language!Top.vars) > Arity[c]
    <3>1. Language!Callee(Arity[c]) = Peek(n) /\ n < Len(Locals)
      BY <1>3, <2>1
    <3> QED BY <1>3, <2>13, <3>1 DEF Language!Calls
  <2>17. actsBar' = [actsBar EXCEPT ![Language!Depth] =
                        Language!Begins(c, <<t.self>> \o Language!Arguments(Arity[c]))]
    BY <1>3, <2>14 DEF vs
  <2>18. Language!TailCall(c)
    BY <2>13, <2>15, <2>16, <2>17 DEF Language!TailCall
  <2> QED BY <1>1, <2>18 DEF Language!Next
<1> QED BY <1>2, <1>3 DEF Reuse

LEMMA TailCallCalls ==
    ASSUME Exercised = {} PROVE IInv /\ IInv' /\ OpTailCall => Language!Next
<1> SUFFICES ASSUME IInv, IInv', OpTailCall PROVE Language!Next
  OBVIOUS
<1>1. frames # <<>> /\ UNCHANGED <<upvalues, global, program>> /\ frame.ip.tries = <<>>
  BY Runs DEF OpTailCall, CanReturn
<1>2. PICK n \in 0 .. MaxArgs :
        /\ Operands(n + 1)
        /\ \/ \E t \in Target(Peek(n)) : Reuse(t.code, t.self, n)
           \/ \E v \in Answers(Peek(n), n) : Leave(v)
           \/ Reset
  BY DEF OpTailCall
<1>3. n \in Nat
  BY BoundsAssumption
<1>4. ASSUME NEW t \in Target(Peek(n)), Reuse(t.code, t.self, n)
      PROVE  Language!Next
  BY <1>1, <1>2, <1>3, <1>4, ReuseCalls
<1>5. ASSUME NEW v \in Answers(Peek(n), n), Leave(v)
      PROVE  Language!Next
  <2>1. v \in Values
    <3>1. v \in Known
      BY Results
    <3> QED BY <3>1 DEF Known
  <2>2. Language!Detach(Language!Depth, 0) /\ actsBar' = Language!Returned(v)
    BY <1>1, <1>5, <2>1, LeaveReturns
  <2>3. Language!Running /\ Language!Top.vars = Locals /\ Language!Top.tries = <<>>
    BY <1>1, Tops, Moves
  <2>4. n < Len(Locals) /\ Language!Callee(n) = Peek(n)
    <3>1. n + 1 < Len(Locals) /\ Len(Locals) \in Nat /\ Language!Callee(n) = Peek(n)
      BY <1>1, <1>2, <1>3, <2>1, Operated
    <3> QED BY <1>3, <3>1
  <2>5. Language!TailReply(n)
    BY <1>1, <2>2, <2>3, <2>4 DEF Language!TailReply
  <2> QED BY <2>5 DEF Language!Next
<1>6. CASE Reset
  BY <1>1, <1>6, ResetFails DEF Language!Next
<1> QED BY <1>2, <1>4, <1>5, <1>6

-----------------------------------------------------------------------------
(* Exceptions.                                                             *)

LEMMA Counted ==
    ASSUME NEW S
    PROVE  Language!Cardinality(S) = Cardinality(S)
BY DEF Language!Cardinality, Cardinality

\* Every try block an activation is in has a handler.
LEMMA TriesHandled ==
    ASSUME IInv, frames # <<>>
    PROVE  Language!Tries \in Nat /\ Language!Tries <= Len(handlers)
<1> DEFINE T == UNION {{i} \X DOMAIN actsBar[i].tries : i \in DOMAIN actsBar}
           m == Len(handlers)
<1>1. PICK first : From(first, frames, handlers)
  BY DEF IInv, Handling, Matched
<1>2. frames \in Seq(Frame) /\ handlers \in Seq(Handler)
  BY DEF IInv, Sorts
<1>3. /\ Len(frames) \in Nat /\ m \in Nat
      /\ \A i \in 1 .. Len(frames) + 1 : first[i] \in Nat /\ 1 <= first[i] /\ first[i] <= m + 1
      /\ \A i \in 1 .. Len(frames) : first[i + 1] = first[i] + Len(frames[i].ip.tries)
      /\ \A i, j \in 1 .. Len(frames) + 1 : i < j => first[i] <= first[j]
  BY <1>1, <1>2, FromFacts
<1>4. /\ DOMAIN actsBar = 1 .. Len(frames)
      /\ \A i \in 1 .. Len(frames) : /\ actsBar[i].tries = frames[i].ip.tries
                                     /\ DOMAIN frames[i].ip.tries = 1 .. Len(frames[i].ip.tries)
                                     /\ Len(frames[i].ip.tries) \in Nat
  <2>1. /\ DOMAIN actsBar = 1 .. Len(frames)
        /\ \A i \in 1 .. Len(frames) : actsBar[i].tries = frames[i].ip.tries
    BY <1>2 DEF actsBar
  <2>2. \A i \in 1 .. Len(frames) : frames[i] \in Frame
    BY <1>2, SeqElement
  <2> QED BY <2>1, <2>2, FrameFacts
<1> HIDE DEF m
<1> DEFINE F == [p \in T |-> first[p[1]] + p[2] - 1]
<1>5. ASSUME NEW p \in T
      PROVE  /\ p = <<p[1], p[2]>> /\ p[1] \in 1 .. Len(frames) /\ p[2] \in Nat /\ F[p] \in 1 .. m
             /\ first[p[1]] <= F[p] /\ F[p] < first[p[1] + 1] /\ F[p] = first[p[1]] + p[2] - 1
  <2>1. PICK i \in 1 .. Len(frames) : p \in {i} \X (1 .. Len(frames[i].ip.tries))
    BY <1>4
  <2>2. p[1] = i /\ p[2] \in 1 .. Len(frames[i].ip.tries) /\ p = <<p[1], p[2]>>
    BY <2>1
  <2>3. F[p] = first[i] + p[2] - 1
    BY <2>2
  <2> HIDE DEF F
  <2> DEFINE a == first[i]
             b == first[i + 1]
             l == Len(frames[i].ip.tries)
             k == p[2]
  <2>4. a \in Nat /\ 1 <= a /\ b = a + l /\ b <= m + 1 /\ l \in Nat /\ m \in Nat /\ k \in 1 .. l
    <3>1. i \in 1 .. Len(frames) + 1 /\ i + 1 \in 1 .. Len(frames) + 1
      BY <1>3
    <3> QED BY <1>3, <1>4, <2>2, <3>1
  <2> HIDE DEF a, b, l, k
  <2>5. a + k - 1 \in 1 .. m /\ a <= a + k - 1 /\ a + k - 1 < b /\ k \in Nat
    BY <2>4
  <2> QED BY <2>2, <2>3, <2>5 DEF a, b, l, k
<1>a. F \in [T -> 1 .. m]
  BY <1>5
<1> HIDE DEF F, T
<1>6. ASSUME NEW p \in T, NEW q \in T, F[p] = F[q] PROVE p = q
  <2> DEFINE i == p[1]
             j == q[1]
  <2>1. i \in 1 .. Len(frames) /\ j \in 1 .. Len(frames)
    BY <1>5
  <2>2. ASSUME NEW c \in 1 .. Len(frames), NEW d \in 1 .. Len(frames), c < d
        PROVE  first[c + 1] <= first[d]
    <3>1. c + 1 \in 1 .. Len(frames) + 1 /\ d \in 1 .. Len(frames) + 1 /\ (c + 1 = d \/ c + 1 < d)
      BY <1>3, <2>2
    <3> QED BY <1>3, <3>1
  <2>3. /\ p = <<i, p[2]>> /\ q = <<j, q[2]>> /\ p[2] \in Nat /\ q[2] \in Nat
        /\ F[p] = first[i] + p[2] - 1 /\ F[q] = first[j] + q[2] - 1 /\ F[p] \in Nat
        /\ first[i] <= F[p] /\ F[p] < first[i + 1] /\ first[j] <= F[q] /\ F[q] < first[j + 1]
    BY <1>5
  <2>4. first[i] \in Nat /\ first[i + 1] \in Nat /\ first[j] \in Nat /\ first[j + 1] \in Nat
    <3>1. {i, i + 1, j, j + 1} \subseteq 1 .. Len(frames) + 1
      BY <1>3, <2>1
    <3> QED BY <1>3, <3>1
  <2> HIDE DEF i, j
  <2> DEFINE z == F[p]
             a == first[i]
             b == first[j]
             c == p[2]
             d == q[2]
  <2>5. i = j
    <3> DEFINE aa == first[i + 1]
               bb == first[j + 1]
    <3>1. i < j => aa <= b
      BY <2>1, <2>2
    <3>2. j < i => bb <= a
      BY <2>1, <2>2
    <3>3. /\ z \in Nat /\ a \in Nat /\ b \in Nat /\ aa \in Nat /\ bb \in Nat
          /\ z < aa /\ b <= z /\ z < bb /\ a <= z
      BY <1>6, <2>3, <2>4
    <3> HIDE DEF z, a, b, aa, bb
    <3>4. i \in Nat /\ j \in Nat /\ ~(i < j) /\ ~(j < i)
      BY <2>1, <3>1, <3>2, <3>3
    <3> QED BY <3>4
  <2>6. c = d
    <3>1. a \in Nat /\ c \in Nat /\ d \in Nat /\ z = a + c - 1 /\ z = a + d - 1
      BY <1>6, <2>3, <2>4, <2>5
    <3> HIDE DEF z, a, c, d
    <3> QED BY <3>1
  <2> QED BY <2>3, <2>5, <2>6
<1>7. F \in Injection(T, 1 .. m)
  BY <1>6, <1>a DEF Injection, IsInjective
<1>8. IsFiniteSet(1 .. m) /\ Cardinality(1 .. m) = m
  BY <1>3, FS_Interval, SMTT(30)
<1>9. IsFiniteSet(T) /\ Cardinality(T) <= m
  BY <1>7, <1>8, FS_Injection
<1>10. Cardinality(T) \in Nat
  BY <1>9, FS_CardinalityType
<1>11. Language!Tries = Cardinality(T)
  BY Counted DEF Language!Tries, T
<1> QED BY <1>9, <1>10, <1>11 DEF m

\* The running frame enters or leaves a try block.
LEMMA Retried ==
    ASSUME IInv, IInv', frames # <<>>, UNCHANGED <<stack, upvalue>>, NEW ts \in Seq(Nat),
           frames' = [frames EXCEPT ![Len(frames)].ip.tries = ts]
    PROVE  actsBar' = [actsBar EXCEPT ![Language!Depth].tries = ts] /\ UNCHANGED cellBar
<1> DEFINE g == [closure |-> frame.closure, ip |-> [code |-> frame.ip.code, tries |-> ts], slots |-> frame.slots]
<1>1. /\ frames \in Seq(Frame) /\ frame \in Frame /\ frame = frames[Len(frames)]
      /\ Len(frames) \in Nat /\ Len(frames) >= 1 /\ stack = Over(Below, Locals)
      /\ Locals \in Seq(Values) /\ Locals # <<>>
  BY Split DEF IInv, Sorts
<1>2. /\ g \in Frame /\ g.slots = frame.slots /\ g.ip = [code |-> frame.ip.code, tries |-> ts]
      /\ g = [frame EXCEPT !.ip.tries = ts]
  <2>1. g = [frame EXCEPT !.ip.tries = ts]
    BY <1>1, FrameUpdate
  <2>2. g \in Frame
    BY <1>1 DEF Frame, Ip
  <2> QED BY <2>1, <2>2
<1> HIDE DEF g
<1>3. frames' = [frames EXCEPT ![Len(frames)] = g]
  BY <1>1, <1>2
<1>4. frames' = Append(Callers, g)
  BY <1>1, <1>2, <1>3, SeqTop DEF Callers
<1>5. actsBar' = Append(Acts(Callers, Below), Act(g, Locals))
  BY <1>1, <1>2, <1>4, ActsNext
<1>6. /\ Language!Depth = Len(frames) /\ actsBar[Len(frames)] = Act(frame, Locals)
      /\ \A A \in Activations(Values) :
            [actsBar EXCEPT ![Len(frames)] = A] = Append(Acts(Callers, Below), A)
  <2>1. actsBar[Len(actsBar)] = Act(frame, Locals) /\ Len(actsBar) = Len(frames)
    BY Tops DEF Language!Top, Language!Depth, Language!Last
  <2> QED BY <2>1, Tops
<1>7. [Act(frame, Locals) EXCEPT !.tries = ts] = Act(g, Locals)
  BY <1>2 DEF Act
<1>8. Act(g, Locals) \in Activations(Values)
  BY <1>1, <1>2 DEF Act, Activations, Frame, Ip
<1>9. UNCHANGED cellBar
  <2>1. /\ Len(frames') = Len(frames)
        /\ \A i \in 1 .. Len(frames) : i # Len(frames) => frames'[i] = frames[i]
        /\ frames'[Len(frames)] = g
    <3>1. g \in Frame /\ frames \in Seq(Frame) /\ Len(frames) \in 1 .. Len(frames)
      BY <1>1, <1>2
    <3> QED BY <1>3, <3>1, SeqExcept
  <2>2. \A i \in 1 .. Len(frames) : frames[i].slots = frames'[i].slots
    BY <1>1, <1>2, <2>1
  <2> QED BY <2>1, <2>2, CellsSame
<1> QED BY <1>5, <1>6, <1>7, <1>8, <1>9

LEMMA TryEnters ==
    ASSUME Exercised = {} PROVE IInv /\ IInv' /\ OpTry => Language!Next
<1> SUFFICES ASSUME IInv, IInv', OpTry PROVE Language!Next
  OBVIOUS
<1> DEFINE height == Len(stack) - frame.slots + 1
           h == [frameIndex |-> Len(frames), catchIp |-> frame.ip, stackTop |-> Len(stack)]
           ts == Append(frame.ip.tries, height)
<1>1. frames # <<>> /\ UNCHANGED <<upvalues, global>>
  BY Runs DEF OpTry
<1>2. CASE Reset
  BY <1>1, <1>2, ResetFails DEF Language!Next
<1>3. CASE /\ Len(handlers) < EXCEPTION_HANDLERS_MAX
           /\ frames' = [frames EXCEPT ![Len(frames)].ip.tries = Append(@, height)]
           /\ UNCHANGED <<stack, upvalue>>
  <2>1. /\ frame \in Frame /\ frame = frames[Len(frames)] /\ Len(frames) \in 1 .. Len(frames)
        /\ Len(Locals) = height /\ Len(Locals) \in Nat
    BY <1>1, Split, Moves
  <2>2. frame.ip.tries \in Seq(Nat)
    BY <2>1, FrameFacts
  <2> HIDE DEF height
  <2>3. ts \in Seq(Nat)
    BY <2>1, <2>2, SeqAppend
  <2>4. frames' = [frames EXCEPT ![Len(frames)].ip.tries = ts]
    BY <1>3, <2>1
  <2> HIDE DEF ts
  <2>5. actsBar' = [actsBar EXCEPT ![Language!Depth].tries = ts] /\ UNCHANGED cellBar
    BY <1>1, <1>3, <2>3, <2>4, Retried
  <2>6. /\ Language!Running /\ Language!Depth = Len(frames) /\ Language!Top.vars = Locals
        /\ Language!Top.tries = frame.ip.tries
    BY <1>1, Tops, Moves
  <2>7. Language!Top = actsBar[Language!Depth]
    BY DEF Language!Top, Language!Depth, Language!Last
  <2>8. actsBar' = [actsBar EXCEPT ![Language!Depth].tries = Append(@, Len(Language!Top.vars))]
    BY <2>1, <2>5, <2>6, <2>7 DEF ts
  <2>9. Language!Tries < EXCEPTION_HANDLERS_MAX
    <3>1. Language!Tries \in Nat /\ Language!Tries <= Len(handlers)
      BY <1>1, TriesHandled
    <3>2. Len(handlers) \in Nat /\ EXCEPTION_HANDLERS_MAX \in Nat
      BY BoundsAssumption, SeqElement DEF IInv, Sorts
    <3> QED BY <1>3, <3>1, <3>2
  <2>10. Language!EnterTry
    BY <1>1, <2>5, <2>6, <2>8, <2>9 DEF Language!EnterTry
  <2> QED BY <2>10 DEF Language!Next
<1> QED BY <1>2, <1>3 DEF OpTry

LEMMA TryEndLeaves == IInv /\ IInv' /\ OpTryEnd => Language!Next
<1> SUFFICES ASSUME IInv, IInv', OpTryEnd PROVE Language!Next
  OBVIOUS
<1> DEFINE t == frame.ip.tries
           ts == Front(t)
<1>1. /\ frames # <<>> /\ UNCHANGED <<stack, upvalue, upvalues, global>>
      /\ t # <<>> /\ Len(stack) = frame.slots + Last(t) - 1
      /\ frames' = [frames EXCEPT ![Len(frames)].ip.tries = Front(@)]
  BY Runs DEF OpTryEnd
<1>2. /\ frame \in Frame /\ frame = frames[Len(frames)] /\ Len(frames) \in 1 .. Len(frames)
      /\ Len(Locals) = Len(stack) - frame.slots + 1 /\ frame.slots \in Nat /\ Len(stack) \in Nat
  BY <1>1, Split
<1>3. t \in Seq(Nat)
  BY <1>2, FrameFacts
<1>4. ts \in Seq(Nat) /\ Last(t) \in Nat
  BY <1>1, <1>3, SeqEnds
<1>5. Language!Last(t) = Last(t) /\ Language!Front(t) = ts
  BY <1>1, <1>3, Ended DEF Front
<1>6. frames' = [frames EXCEPT ![Len(frames)].ip.tries = ts]
  BY <1>1, <1>2
<1> HIDE DEF ts
<1>7. actsBar' = [actsBar EXCEPT ![Language!Depth].tries = ts] /\ UNCHANGED cellBar
  BY <1>1, <1>4, <1>6, Retried
<1>8. /\ Language!Running /\ Language!Depth = Len(frames) /\ Language!Top.vars = Locals
      /\ Language!Top.tries = t
  BY <1>1, Tops, Moves
<1>9. Language!Top = actsBar[Language!Depth]
  BY DEF Language!Top, Language!Depth, Language!Last
<1>10. actsBar' = [actsBar EXCEPT ![Language!Depth].tries = Language!Front(@)]
  BY <1>5, <1>7, <1>8, <1>9
<1>11. Last(t) = Len(Locals)
  <2>1. Len(stack) = frame.slots + Last(t) - 1
    BY <1>1
  <2> HIDE DEF t
  <2> QED BY <1>2, <1>4, <2>1
<1>12. Language!LeaveTry
  BY <1>1, <1>5, <1>7, <1>8, <1>10, <1>11 DEF Language!LeaveTry
<1> QED BY <1>12 DEF Language!Next

LEMMA RuntimeErrorFails ==
    ASSUME Exercised = {} PROVE IInv /\ IInv' /\ RuntimeError => Language!Next
BY Runs, ResetFails DEF RuntimeError, Language!Next

\* The activations of the frames below frame i.
LEMMA ActsLow ==
    ASSUME NEW S, NEW s \in Seq(S), NEW fs \in Seq(Frame), Stacked(fs, Len(s)), NEW i \in 1 .. Len(fs)
    PROVE  SubSeq(Acts(fs, s), 1, i - 1) = Acts(SubSeq(fs, 1, i - 1), SubSeq(s, 1, fs[i].slots - 1))
<1> DEFINE all == Acts(fs, s)
           a == SubSeq(all, 1, i - 1)
           n == fs[i].slots - 1
           low == SubSeq(s, 1, n)
           high == SubSeq(s, n + 1, Len(s))
           under == SubSeq(fs, 1, i - 1)
           b == Acts(under, low)
<1>1. /\ all \in Seq(Activations(S)) /\ Len(all) = Len(fs) /\ Len(fs) \in Nat
      /\ \A j \in 1 .. Len(fs) : all[j] = Act(fs[j], SubSeq(s, fs[j].slots, EndIn(fs, Len(s), j)))
  BY ActsFacts
<1>2. i \in Nat /\ i >= 1 /\ i - 1 \in Nat /\ i - 1 <= Len(fs) /\ i - 1 < Len(fs) /\ (i - 1) + 1 = i
  BY <1>1
<1>3. /\ Len(s) \in Nat
      /\ \A j \in 1 .. Len(fs) : /\ fs[j].slots \in Nat /\ 1 <= fs[j].slots /\ fs[j].slots <= Len(s)
                                 /\ EndIn(fs, Len(s), j) \in Nat /\ fs[j].slots <= EndIn(fs, Len(s), j)
      /\ \A j, l \in 1 .. Len(fs) : j < l => EndIn(fs, Len(s), j) < fs[l].slots
  BY SeqElement, Ends
<1>4. n \in 0 .. Len(s) /\ n \in Nat
  BY <1>3
<1>5. under \in Seq(Frame) /\ Len(under) = i - 1 /\ \A j \in 1 .. i - 1 : under[j] = fs[j]
  BY <1>2, SeqPrefix
<1>6. Stacked(under, n)
  <2>1. Stacked(SubSeq(fs, 1, i - 1), fs[(i - 1) + 1].slots - 1)
    BY <1>2, <1>3, StackedCut
  <2> QED BY <1>2, <2>1
<1> HIDE DEF n
<1>7. low \in Seq(S) /\ Len(low) = n /\ high \in Seq(S) /\ s = low \o high
  BY <1>4, InTwo, ZenonT(30)
<1> HIDE DEF all, low, high, under
<1>8. a \in Seq(Activations(S)) /\ Len(a) = i - 1 /\ \A j \in 1 .. i - 1 : a[j] = all[j]
  BY <1>1, <1>2, SeqPrefix
<1>9. /\ b \in Seq(Activations(S)) /\ Len(b) = i - 1
      /\ \A j \in 1 .. i - 1 : b[j] = Act(under[j], SubSeq(low, under[j].slots, EndIn(under, n, j)))
  <2>1. Stacked(under, Len(low))
    BY <1>6, <1>7
  <2> QED BY <1>5, <1>7, <2>1, ActsFacts
<1> HIDE DEF a, b
<1>10. ASSUME NEW j \in 1 .. i - 1 PROVE a[j] = b[j]
  <2> DEFINE m == fs[j].slots
             e == EndIn(fs, Len(s), j)
  <2>1. j \in 1 .. Len(fs) /\ j < i /\ j \in Nat
    BY <1>1, <1>2
  <2>2. EndIn(under, n, j) = e
    <3>1. CASE j < i - 1
      <4>1. j + 1 \in 1 .. i - 1 /\ j < Len(under) /\ j < Len(fs)
        BY <1>1, <1>2, <1>5, <3>1
      <4> QED BY <1>5, <4>1 DEF EndIn
    <3>2. CASE j = i - 1
      <4>1. j + 1 = i /\ ~(j < Len(under)) /\ j < Len(fs)
        BY <1>1, <1>2, <1>5, <3>2
      <4> QED BY <4>1 DEF EndIn, n
    <3> QED BY <1>2, <3>1, <3>2, TopOrUnder
  <2>3. m \in Nat /\ 1 <= m /\ e \in Nat /\ m <= e /\ e < fs[i].slots /\ fs[i].slots \in Nat
    BY <1>3, <2>1
  <2>4. e <= n /\ m <= e + 1 /\ e \in Int
    <3> DEFINE x == fs[i].slots
    <3>1. m \in Nat /\ e \in Nat /\ m <= e /\ e < x /\ x \in Nat /\ n = x - 1
      BY <2>3 DEF n
    <3> HIDE DEF x, m, e
    <3> QED BY <3>1
  <2> HIDE DEF m, e
  <2>5. \A p \in Nat, q \in Int : 1 <= p /\ p <= q + 1 /\ q <= Len(low) =>
           SubSeq(low \o high, p, q) = SubSeq(low, p, q)
    BY <1>7, Halves
  <2>6. SubSeq(s, m, e) = SubSeq(low, m, e)
    BY <1>7, <2>3, <2>4, <2>5
  <2>7. all[j] = Act(fs[j], SubSeq(s, m, e))
    BY <1>1, <2>1 DEF m, e
  <2>8. b[j] = Act(fs[j], SubSeq(low, m, e))
    BY <1>5, <1>9, <2>2 DEF m
  <2> QED BY <1>8, <2>6, <2>7, <2>8
<1>11. a = b
  BY <1>8, <1>9, <1>10, SeqSame
<1> QED BY <1>11 DEF a, b, all, low, under, n

\* A frame reaches no further than its slots.
LEMMA EndExtent ==
    ASSUME NEW fs \in Seq(Frame), NEW n \in Nat, Stacked(fs, n), NEW i \in 1 .. Len(fs)
    PROVE  Extent(fs[i], EndIn(fs, n, i)) /\ EndIn(fs, n, i) \in Nat
<1>1. Len(fs) \in Nat /\ DOMAIN fs = 1 .. Len(fs) /\ EndIn(fs, n, i) \in Nat
  BY Ends
<1>2. CASE i = Len(fs)
  <2>1. ~(i < Len(fs))
    BY <1>1, <1>2
  <2> QED BY <1>1, <2>1 DEF EndIn, Stacked
<1>3. CASE i < Len(fs)
  <2>1. i + 1 \in 1 .. Len(fs) /\ i < i + 1
    BY <1>1, <1>3
  <2>2. Extent(fs[i], fs[i + 1].slots - 1)
    BY <1>1, <2>1 DEF Stacked
  <2> QED BY <1>1, <1>3, <2>2 DEF EndIn
<1> QED BY <1>1, <1>2, <1>3, TopOrUnder

LEMMA PartOfPart ==
    ASSUME NEW S, NEW s \in Seq(S), NEW m \in Nat, 1 <= m, NEW e \in Int, m <= e + 1, e <= Len(s),
           NEW n \in Nat, n <= e - m + 1
    PROVE  SubSeq(SubSeq(s, m, e), 1, n) = SubSeq(s, m, m + n - 1)
<1> DEFINE p == SubSeq(s, m, e)
           a == SubSeq(p, 1, n)
           b == SubSeq(s, m, m + n - 1)
<1>1. p \in Seq(S) /\ Len(p) = e - m + 1 /\ \A i \in 1 .. e - m + 1 : p[i] = s[m + i - 1]
  BY Part
<1>2. m + n - 1 \in Int /\ m <= (m + n - 1) + 1 /\ m + n - 1 <= Len(s) /\ (m + n - 1) - m + 1 = n
  BY SeqElement
<1>3. b \in Seq(S) /\ Len(b) = n /\ \A i \in 1 .. n : b[i] = s[m + i - 1]
  <2> DEFINE q == m + n - 1
  <2> HIDE DEF q
  <2>1. /\ SubSeq(s, m, q) \in Seq(S) /\ Len(SubSeq(s, m, q)) = q - m + 1
        /\ \A i \in 1 .. q - m + 1 : SubSeq(s, m, q)[i] = s[m + i - 1]
    BY <1>2, Part DEF q
  <2> QED BY <1>2, <2>1 DEF q
<1> HIDE DEF p, b
<1>4. a \in Seq(S) /\ Len(a) = n /\ \A i \in 1 .. n : a[i] = p[i]
  BY <1>1, SeqPrefix
<1> HIDE DEF a
<1>5. \A i \in 1 .. n : i \in 1 .. e - m + 1
  OBVIOUS
<1>6. \A i \in 1 .. n : a[i] = b[i]
  BY <1>1, <1>3, <1>4, <1>5
<1>7. a = b
  BY <1>3, <1>4, <1>6, SeqSame
<1> QED BY <1>7 DEF a, b, p

\* A caught exception: frame i goes on after its try block, with the value.
LEMMA ThrowCatches ==
    ASSUME IInv, IInv', frames # <<>>, handlers # <<>>, Operands(0 + 1),
           UNCHANGED <<upvalue, openUpvalues, upvalues, global>>,
           NEW h, h = Last(handlers), NEW left, left = Unwound(h),
           Closing(h.stackTop + 1) = {}, stack' = Append(Restored(h.stackTop), Peek(0)),
           frames' = [left EXCEPT ![Len(left)].ip = h.catchIp]
    PROVE  Language!Throw
<1>1. PICK i \in 1 .. Len(frames) :
         /\ frames[i].ip.tries # <<>>
         /\ \A j \in i + 1 .. Len(frames) : frames[j].ip.tries = <<>>
         /\ h.stackTop = frames[i].slots + Last(frames[i].ip.tries) - 1
         /\ h.catchIp = [code |-> frames[i].closure, tries |-> Front(frames[i].ip.tries)]
         /\ frames' = Append(SubSeq(frames, 1, i - 1), Resumed(frames[i], h.catchIp))
  BY Caught, Lay
<1> DEFINE f == frames[i]
           a == f.slots
           t == f.ip.tries
           n == Last(t)
           v == Peek(0)
           L == Len(stack)
           e == EndIn(frames, L, i)
           V == SubSeq(stack, a, e)
           low == SubSeq(stack, 1, a - 1)
           top == a + n - 1
           kept == SubSeq(stack, a, top)
           w == Append(kept, v)
           g == Resumed(f, h.catchIp)
           under == SubSeq(frames, 1, i - 1)
           X == Act(g, w)
<1>2. /\ frames \in Seq(Frame) /\ Len(frames) \in Nat /\ stack \in Seq(Values) /\ L \in Nat
      /\ Stacked(frames, L) /\ i \in Nat /\ i >= 1 /\ i <= Len(frames)
      /\ DOMAIN frames = 1 .. Len(frames)
  BY Split, SeqElement DEF IInv, Sorts, Nest
<1>3. f \in Frame /\ a \in Nat /\ 1 <= a /\ t \in Seq(Nat) /\ f.ip.code = f.closure
  BY <1>2, SeqElement, FrameFacts DEF IInv, Own
<1>4. /\ n \in Nat /\ Front(t) \in Seq(Nat) /\ n = t[Len(t)] /\ Len(t) \in DOMAIN t
      /\ Language!Last(t) = n /\ Language!Front(t) = Front(t)
  <2>1. t # <<>> /\ t \in Seq(Nat)
    BY <1>1, <1>3
  <2> HIDE DEF t
  <2>2. Language!Last(t) = Last(t) /\ Language!Front(t) = Front(t)
    BY <2>1, Ended DEF Front
  <2>3. /\ Len(t) \in Nat /\ Len(t) >= 1 /\ DOMAIN t = 1 .. Len(t) /\ Last(t) = t[Len(t)]
        /\ Last(t) \in Nat /\ Front(t) \in Seq(Nat)
    BY <2>1, SeqEnds
  <2>4. Len(t) \in DOMAIN t
    BY <2>3
  <2> QED BY <2>2, <2>3, <2>4
<1>5. e \in Nat /\ a <= e /\ e <= L /\ a + n - 1 <= e /\ n >= 1
      /\ (i < Len(frames) => e = frames[i + 1].slots - 1)
  <2>1. e \in Nat /\ a <= e /\ e <= L
    BY <1>2, Ends
  <2>2. Extent(f, e)
    <3> HIDE DEF L
    <3> QED BY <1>2, EndExtent
  <2>3. a + t[Len(t)] - 1 <= e
    BY <1>4, <2>2 DEF Extent
  <2>4. n >= 1
    BY <1>2, <1>4 DEF Stacked, Rise
  <2>5. i < Len(frames) => e = frames[i + 1].slots - 1
    BY DEF EndIn
  <2> QED BY <1>4, <2>1, <2>3, <2>4, <2>5
<1>6. h.stackTop = top /\ h.catchIp = [code |-> f.closure, tries |-> Front(t)]
      /\ frames' = Append(under, g)
  BY <1>1
<1>7. /\ g \in Frame /\ g.slots = a /\ g.ip = [code |-> f.ip.code, tries |-> Front(t)]
  <2>1. h.catchIp \in Ip
    <3>1. f.closure \in Closures /\ Front(t) \in Seq(Nat)
      BY <1>3, <1>4 DEF Frame
    <3>2. h.catchIp = [code |-> f.closure, tries |-> Front(t)]
      BY <1>6
    <3> QED BY <3>1, <3>2 DEF Ip
  <2>2. f.closure \in Closures /\ a \in Nat \ {0}
    BY <1>3 DEF Frame
  <2> QED BY <1>3, <1>6, <2>1, <2>2 DEF Frame, Resumed
<1> HIDE DEF f, t, n, e, g, L, a
<1>8. /\ top \in Nat /\ top \in Int /\ top + 1 = a + n /\ top + 1 <= e + 1 /\ top <= L
      /\ a - 1 \in 0 .. top /\ a - 1 \in Nat /\ (a - 1) + 1 = a /\ a <= top + 1 /\ a - 1 <= L
      /\ a <= e + 1 /\ e \in Int /\ n <= e - a + 1 /\ 1 <= top + 1 /\ a - 1 <= top - 1 + 1
      /\ 1 + (a - 1) - 1 = a - 1 /\ a - 1 <= top
  <2>1. /\ a \in Nat /\ 1 <= a /\ n \in Nat /\ n >= 1 /\ e \in Nat /\ a <= e /\ e <= L /\ L \in Nat
        /\ a + n - 1 <= e
    BY <1>2, <1>3, <1>4, <1>5
  <2>2. /\ top \in Nat /\ top \in Int /\ top + 1 = a + n /\ top + 1 <= e + 1 /\ top <= L
    BY <2>1, SMTT(30)
  <2>3. a - 1 \in Nat /\ a - 1 <= top
    BY <2>1
  <2>4. /\ (a - 1) + 1 = a /\ a <= top + 1 /\ a - 1 <= L
        /\ a <= e + 1 /\ e \in Int /\ n <= e - a + 1
    BY <2>1, SMTT(30)
  <2> HIDE DEF top
  <2>5. a - 1 \in 0 .. top /\ 1 <= top + 1
    BY <2>2, <2>3
  <2>6. a - 1 <= top - 1 + 1 /\ 1 + (a - 1) - 1 = a - 1
    BY <2>1, <2>2, <2>3, SMTT(30)
  <2> QED BY <2>2, <2>3, <2>4, <2>5, <2>6
<1>9. v \in Values
  BY Moves
<1>10. stack' = Over(low, w)
  <2> DEFINE r == SubSeq(stack, 1, top)
             k == a - 1
  <2> HIDE DEF top
  <2>1. r \in Seq(Values) /\ Len(r) = top /\ \A j \in 1 .. top : r[j] = stack[j]
    BY <1>2, <1>8, SeqPrefix DEF L
  <2>2. Restored(top) = [j \in 1 .. top |-> stack[j]]
    <3>1. \A j \in 1 .. top : j \in DOMAIN stack
      BY <1>2, <1>8 DEF L
    <3> QED BY <3>1 DEF Restored, Content
  <2> HIDE DEF r, top, k
  <2>3. r = [j \in 1 .. top |-> stack[j]]
    BY <2>1
  <2>4. stack' = Append(r, v)
    BY <1>6, <2>2, <2>3
  <2>5. k \in 0 .. top /\ k + 1 = a
    BY <1>8 DEF top, k
  <2>6. SubSeq(r, 1, k) = low
    <3>1. /\ 1 \in Nat /\ 1 <= top + 1 /\ top \in Int /\ k \in Nat /\ k <= top - 1 + 1
          /\ 1 + k - 1 = k /\ top <= Len(stack)
      BY <1>8 DEF k, L
    <3>2. SubSeq(SubSeq(stack, 1, top), 1, k) = SubSeq(stack, 1, 1 + k - 1)
      BY <1>2, <3>1, PartOfPart, SMTT(30)
    <3> QED BY <3>1, <3>2 DEF r, k
  <2>7. SubSeq(r, k + 1, Len(r)) = kept
    <3> DEFINE p == SubSeq(r, a, top)
    <3>1. a \in Nat /\ 1 <= a /\ top \in Int /\ a <= top + 1 /\ top <= Len(stack)
      BY <1>3, <1>8 DEF L
    <3>2. p \in Seq(Values) /\ Len(p) = top - a + 1
          /\ \A j \in 1 .. top - a + 1 : p[j] = r[a + j - 1]
      <4>1. r \in Seq(Values) /\ top <= Len(r)
        BY <1>8, <2>1
      <4> QED BY <3>1, <4>1, Part, SMTT(30)
    <3>3. kept \in Seq(Values) /\ Len(kept) = top - a + 1
          /\ \A j \in 1 .. top - a + 1 : kept[j] = stack[a + j - 1]
      <4>1. stack \in Seq(Values)
        BY <1>2
      <4> QED BY <3>1, <4>1, Part, SMTT(30)
    <3>4. \A j \in 1 .. top - a + 1 : a + j - 1 \in 1 .. top
      BY <3>1
    <3> HIDE DEF p, kept
    <3>5. \A j \in 1 .. top - a + 1 : p[j] = kept[j]
      BY <2>1, <3>2, <3>3, <3>4
    <3>6. p = kept
      BY <3>2, <3>3, <3>5, SeqSame
    <3>7. k + 1 = a /\ Len(r) = top
      BY <2>1, <2>5
    <3> QED BY <3>6, <3>7 DEF p
  <2> HIDE DEF r, k, low, kept
  <2>8. r = Over(low, kept) /\ low \in Seq(Values) /\ kept \in Seq(Values)
    <3>1. k \in 0 .. Len(r)
      BY <2>1, <2>5
    <3> QED BY <2>1, <2>6, <2>7, <3>1, InTwo DEF Over
  <2>9. Append(Over(low, kept), v) = Over(low, Append(kept, v))
    <3>1. low \in Seq(Values) /\ kept \in Seq(Values)
      BY <2>8
    <3> QED BY <1>9, <3>1, OverPush
  <2> QED BY <2>4, <2>8, <2>9 DEF w
<1>11. low \in Seq(Values) /\ Len(low) = a - 1
  <2>1. a - 1 \in Nat /\ a - 1 <= Len(stack)
    BY <1>8 DEF L
  <2> QED BY <1>2, <2>1, SeqPrefix
<1>12. kept \in Seq(Values) /\ kept = SubSeq(V, 1, n)
  <2>1. /\ stack \in Seq(Values) /\ a \in Nat /\ 1 <= a /\ e \in Int /\ a <= e + 1 /\ e <= Len(stack)
        /\ n \in Nat /\ n <= e - a + 1
    BY <1>2, <1>3, <1>4, <1>5, <1>8 DEF L
  <2>2. SubSeq(SubSeq(stack, a, e), 1, n) = SubSeq(stack, a, a + n - 1)
    BY <2>1, PartOfPart, ZenonT(30)
  <2>3. top \in Int /\ a <= top + 1 /\ top <= Len(stack)
    BY <1>8 DEF L
  <2> HIDE DEF top
  <2>4. kept \in Seq(Values)
    BY <2>1, <2>3, Part
  <2> QED BY <2>2, <2>4 DEF top
<1> HIDE DEF low, kept, top, V
<1>13. w \in Seq(Values) /\ w # <<>>
  <2>1. w \in Seq(Values) /\ Len(w) = Len(kept) + 1 /\ Len(kept) \in Nat
    BY <1>9, <1>12, SeqAppend, SeqElement
  <2> HIDE DEF w
  <2>2. w # <<>>
    BY <2>1, Nonempty
  <2> QED BY <2>1, <2>2
<1> HIDE DEF w
<1>14. under \in Seq(Frame) /\ Len(under) = i - 1 /\ Stacked(under, a - 1)
       /\ \A j \in 1 .. i - 1 : under[j] = frames[j]
  <2>1. i - 1 \in Nat /\ i - 1 < Len(frames) /\ (i - 1) + 1 = i /\ i - 1 <= Len(frames)
    BY <1>2
  <2>2. Stacked(SubSeq(frames, 1, i - 1), frames[(i - 1) + 1].slots - 1)
    <3>1. L \in Int
      BY <1>2
    <3> QED BY <1>2, <2>1, <3>1, StackedCut
  <2>3. Stacked(under, a - 1)
    BY <2>1, <2>2 DEF f, a
  <2> QED BY <1>2, <2>1, <2>3, SeqPrefix
<1> DEFINE B == Acts(under, low)
<1>15. actsBar' = Append(B, X)
  <2> HIDE DEF under
  <2>1. Acts(Append(under, g), Over(low, w)) = Append(Acts(under, low), Act(g, w))
    BY <1>7, <1>11, <1>13, <1>14, ActsTop
  <2> QED BY <1>6, <1>10, <2>1, Bars DEF under
<1>16. /\ actsBar \in Seq(Activations(Values)) /\ Len(actsBar) = Len(frames)
       /\ DOMAIN actsBar = 1 .. Len(frames)
       /\ \A j \in 1 .. Len(frames) :
             actsBar[j] = Act(frames[j], SubSeq(stack, frames[j].slots, EndIn(frames, Len(stack), j)))
  BY <1>2, Bars, ActsFacts DEF L
<1>17. SubSeq(actsBar, 1, i - 1) = B
  BY <1>2, Bars, ActsLow DEF f, a, low, under, L
<1>22. actsBar[i] = Act(f, V) /\ actsBar[i].tries = t /\ actsBar[i].vars = V /\ actsBar[i].code = f.ip.code
  <2>1. actsBar[i] = Act(f, V)
    BY <1>2, <1>16 DEF f, a, V, e, L
  <2> QED BY <2>1 DEF Act, t
<1>23. X = [code |-> f.ip.code, vars |-> Append(SubSeq(V, 1, n), v), tries |-> Language!Front(t)]
  <2>1. X = [code |-> f.ip.code, vars |-> w, tries |-> Front(t)]
    BY <1>7 DEF Act
  <2> HIDE DEF X
  <2> QED BY <1>4, <1>12, <2>1 DEF w
<1> HIDE DEF B, X
<1>24. actsBar' = Append(SubSeq(actsBar, 1, i - 1),
                         [code |-> actsBar[i].code,
                          vars |-> Append(SubSeq(actsBar[i].vars, 1, n), v),
                          tries |-> Language!Front(actsBar[i].tries)])
  BY <1>15, <1>17, <1>22, <1>23
<1>25. Language!Detach(i, n)
  <2> DEFINE last == top + 1
             W == openUpvalues'
  <2>1. \A u \in openUpvalues : ~(upvalue[u].location >= last)
    BY <1>6 DEF Closing
  <2>2. CloseUpvalues(last)
    BY <2>1, NothingCloses
  <2>3. W \in SUBSET Upvalues /\ \A u \in W : upvalue'[u] = upvalue[u]
    BY DEF IInv, Sorts
  <2>4. Len(frames') = i /\ \A j \in 1 .. i : frames[j].slots = frames'[j].slots
    <3> HIDE DEF under
    <3>1. /\ Len(Append(under, g)) = (i - 1) + 1 /\ Append(under, g)[(i - 1) + 1] = g
          /\ \A j \in 1 .. i - 1 : Append(under, g)[j] = under[j]
      BY <1>7, <1>14, SeqAppend
    <3>2. \A j \in 1 .. i : j = i \/ j \in 1 .. i - 1
      BY <1>2
    <3>3. (i - 1) + 1 = i
      BY <1>2
    <3>4. Len(frames') = i
      BY <1>6, <3>1, <3>3
    <3>5. ASSUME NEW j \in 1 .. i PROVE frames[j].slots = frames'[j].slots
      <4>1. CASE j = i
        BY <1>6, <1>7, <3>1, <3>3, <4>1 DEF f, a
      <4>2. CASE j \in 1 .. i - 1
        BY <1>6, <1>14, <3>1, <4>2
      <4> QED BY <3>2, <4>1, <4>2
    <3> QED BY <3>4, <3>5
  <2>5. \A u \in W \cap openUpvalues :
           /\ i < Len(frames) => upvalue[u].location < frames[i + 1].slots
           /\ i < Len(frames') => upvalue[u].location < frames'[i + 1].slots
    <3>1. \A u \in openUpvalues : upvalue[u].location \in Nat
      BY DEF IInv, Sorts
    <3>2. ~(i < Len(frames'))
      BY <1>2, <2>4
    <3>3. i < Len(frames) => top + 1 <= frames[i + 1].slots /\ frames[i + 1].slots \in Nat
      <4>1. SUFFICES ASSUME i < Len(frames) PROVE top + 1 <= frames[i + 1].slots /\ frames[i + 1].slots \in Nat
        OBVIOUS
      <4>2. frames[i + 1].slots \in Nat
        <5>1. i + 1 \in 1 .. Len(frames)
          BY <1>2, <4>1
        <5> QED BY <1>2, <5>1, Ends
      <4>3. e = frames[i + 1].slots - 1
        BY <1>5, <4>1
      <4> DEFINE x == frames[i + 1].slots
      <4>4. x \in Nat /\ e = x - 1 /\ top + 1 <= e + 1 /\ top \in Nat
        BY <1>8, <4>2, <4>3
      <4> HIDE DEF x
      <4>5. top + 1 <= x
        BY <4>4
      <4> QED BY <4>2, <4>5 DEF x
    <3>4. ASSUME NEW u \in openUpvalues, i < Len(frames) PROVE upvalue[u].location < frames[i + 1].slots
      <4> DEFINE x == frames[i + 1].slots
                 y == upvalue[u].location
      <4>1. x \in Nat /\ y \in Nat /\ ~(y >= top + 1) /\ top + 1 <= x /\ top \in Nat
        BY <1>8, <2>1, <3>1, <3>3, <3>4
      <4> HIDE DEF x, y
      <4>2. y < x
        BY <4>1
      <4> QED BY <4>2 DEF x, y
    <3> QED BY <3>2, <3>4
  <2>6. i \in Nat /\ i <= Len(frames) /\ i <= Len(frames')
    BY <1>2, <2>4
  <2> HIDE DEF W, last
  <2>7. \A u \in W : cellBar'[u] = cellBar[u]
    BY <2>3, <2>4, <2>5, <2>6, CellsKept
  <2>8. last = frames[i].slots + n /\ last <= EndIn(frames, Len(stack), i) + 1
    BY <1>8 DEF last, f, a, e, L
  <2>9. \A u \in openUpvalues' : cellBar'[u] = cellBar[u]
    BY <2>7 DEF W
  <2> QED BY <1>4, <2>2, <2>8, <2>9, Detaches
<1>26. /\ Language!Running /\ Language!Top.vars = Locals /\ Locals # <<>>
       /\ Language!Last(Locals) = v
  <2>1. Locals \in Seq(Values) /\ Locals # <<>> /\ Last(Locals) = Peek(0)
    BY Split, Moves
  <2> QED BY <2>1, Tops, Moves, Ended
<1>27. \A k \in DOMAIN actsBar : k > i => actsBar[k].tries = <<>>
  <2>1. \A k \in 1 .. Len(frames) : k > i => k \in i + 1 .. Len(frames)
    BY <1>2
  <2> SUFFICES ASSUME NEW k \in 1 .. Len(frames), k > i PROVE actsBar[k].tries = <<>>
    BY <1>16
  <2>2. frames[k].ip.tries = <<>>
    BY <1>1, <2>1
  <2> QED BY <1>16, <2>2 DEF Act
<1>28. i \in DOMAIN actsBar /\ actsBar[i].tries # <<>> /\ Language!Last(actsBar[i].tries) = n
  BY <1>1, <1>4, <1>16, <1>22 DEF f, t
<1>29. UNCHANGED <<upvalues, global>>
  OBVIOUS
<1> QED BY <1>24, <1>25, <1>26, <1>27, <1>28, <1>29 DEF Language!Throw

LEMMA ThrowThrows ==
    ASSUME Exercised = {} PROVE IInv /\ IInv' /\ OpThrow => Language!Next
<1> SUFFICES ASSUME IInv, IInv', OpThrow PROVE Language!Next
  OBVIOUS
<1> DEFINE h == Last(handlers)
           left == Unwound(h)
<1>1. frames # <<>> /\ Operands(0 + 1) /\ UNCHANGED <<upvalues, global>>
  BY Runs DEF OpThrow
<1>2. CASE Reset
  BY <1>1, <1>2, ResetFails DEF Language!Next
<1>3. CASE /\ handlers # <<>> /\ Closing(h.stackTop + 1) = {}
           /\ stack' = Append(Restored(h.stackTop), Peek(0))
           /\ frames' = [left EXCEPT ![Len(left)].ip = h.catchIp]
           /\ UNCHANGED <<upvalue, openUpvalues>>
  <2> HIDE DEF h, left
  <2>1. h = Last(handlers) /\ left = Unwound(h)
    BY DEF h, left
  <2>2. Language!Throw
    BY <1>1, <1>3, <2>1, ThrowCatches
  <2> QED BY <2>2 DEF Language!Next
<1> QED BY <1>1, <1>2, <1>3 DEF OpThrow

-----------------------------------------------------------------------------
(* Scripts.                                                                *)

LEMMA InterpretBegins == IInv /\ IInv' /\ Interpret => Language!Next
<1> SUFFICES ASSUME IInv, IInv', Interpret PROVE Language!Next
  OBVIOUS
<1> DEFINE f == [closure |-> Script, ip |-> Ready(Script), slots |-> Len(stack) + 1]
           one == <<Script>>
           none == SubSeq(frames, 1, 0)
<1>1. /\ frames = <<>> /\ stack' = Append(stack, Script) /\ frames' = <<f>>
      /\ UNCHANGED <<upvalue, openUpvalues, upvalues, global>>
  BY DEF Interpret, Push
<1>2. stack \in Seq(Values) /\ Len(stack) \in Nat /\ Script \in Closures /\ Script \in Values
  <2>1. stack \in Seq(Known) /\ Known \subseteq Values
    BY DEF IInv, Sorts, Known
  <2>2. stack \in Seq(Values)
    <3> HIDE DEF Known, Values
    <3> QED BY <2>1, SeqMono
  <2>3. Len(stack) \in Nat
    BY <2>2, SeqElement
  <2> QED BY <2>2, <2>3, ClosuresAssumption DEF Values
<1>3. f \in Frame /\ f.slots = Len(stack) + 1 /\ f.ip = Ready(Script)
  BY <1>2 DEF Frame, Ip, Ready
<1>4. Act(f, one) = Language!Begins(Script, <<Script>>)
  BY <1>3 DEF Act, Ready, Language!Begins
<1>5. none \in Seq(Frame) /\ none = <<>> /\ frames' = Append(none, f)
  BY <1>1
<1>6. one \in Seq(Values) /\ one # <<>> /\ stack' = Over(stack, one)
  <2>1. Append(stack, Script) = stack \o <<Script>>
    BY <1>2
  <2> QED BY <1>1, <1>2, <2>1 DEF Over
<1> HIDE DEF f, one, none
<1>7. Stacked(none, f.slots - 1) /\ Len(stack) = f.slots - 1
  BY <1>2, <1>3, <1>5 DEF Stacked
<1>8. actsBar' = <<Language!Begins(Script, <<Script>>)>>
  <2>1. Acts(Append(none, f), Over(stack, one)) = Append(Acts(none, stack), Act(f, one))
    BY <1>2, <1>3, <1>5, <1>6, <1>7, ActsTop
  <2>2. Acts(none, stack) = <<>>
    BY <1>5 DEF Acts
  <2> QED BY <1>4, <1>5, <1>6, <2>1, <2>2, Bars
<1>9. actsBar = <<>>
  BY <1>1, Bars DEF Acts
<1>10. \A u \in Upvalues : cellBar'[u] = cellBar[u]
  <2> DEFINE W == Upvalues
             k == 0
  <2>1. W \in SUBSET Upvalues /\ \A u \in W : upvalue'[u] = upvalue[u]
    BY <1>1
  <2>2. k \in Nat /\ k <= Len(frames) /\ k <= Len(frames') /\ \A i \in 1 .. k : frames[i].slots = frames'[i].slots
    BY <1>1
  <2>3. ASSUME NEW u \in Upvalues PROVE u \notin openUpvalues
    <3>1. 1 .. Len(frames) = {}
      BY <1>1
    <3> QED BY <3>1, CellAt
  <2>4. W \cap openUpvalues = {}
    BY <2>3
  <2> HIDE DEF W, k
  <2>5. \A u \in W : cellBar'[u] = cellBar[u]
    BY <2>1, <2>2, <2>4, CellsKept
  <2> QED BY <2>5 DEF W
<1>11. UNCHANGED cellBar
  BY <1>10, Bars
<1>12. Language!Begin(Script)
  BY <1>1, <1>8, <1>9, <1>11 DEF Language!Begin
<1> QED BY <1>2, <1>12 DEF Language!Next

\* The virtual machine's initial states and steps, as the language's.
LEMMA InitBegins == Init => Language!Init
<1> SUFFICES ASSUME Init PROVE Language!Init
  OBVIOUS
<1>1. actsBar = <<>>
  BY Bars DEF Acts, Init
<1>2. cellBar = [u \in Upvalues |-> Language!Kept(Nil)]
  BY DEF Init, Closed, cellBar, Language!Kept
<1>3. upvalues \in UNION {[C -> {{}}] : C \in SUBSET Closures}
  <2> DEFINE C == {Script, Initializer, Method}
  <2>1. C \in SUBSET Closures /\ upvalues \in [C -> {{}}]
    BY ClosuresAssumption DEF Init
  <2> HIDE DEF C
  <2> QED BY <2>1
<1>4. global \in Values
  BY DEF Init, Values
<1> QED BY <1>1, <1>2, <1>3, <1>4 DEF Language!Init

LEMMA StepImplements ==
    ASSUME Exercised = {} PROVE IInv /\ IInv' /\ [Next]_vars => [Language!Next]_(Language!vars)
<1> SUFFICES ASSUME IInv, IInv', [Next]_vars PROVE Language!Next \/ UNCHANGED Language!vars
  BY DEF Language!vars
<1>1. CASE Next
  BY <1>1, ConstantDeclares, PopDiscards, GetLocalDeclares, SetLocalAssigns, GetUpvalueDeclares,
     SetUpvalueAssigns, GetGlobalDeclares, DefineGlobalAssigns, ClosureCloses,
     CloseUpvalueDiscards, CallCalls, SuperInvokeCalls, ReturnReturns, TailCallCalls, TryEnters,
     TryEndLeaves, ThrowThrows, RuntimeErrorFails, InterpretBegins DEF Next
<1>2. CASE UNCHANGED vars
  <2>1. UNCHANGED <<stack, frames, upvalue, upvalues, global>>
    BY <1>2 DEF vars
  <2>2. UNCHANGED actsBar /\ UNCHANGED cellBar
    BY <2>1, Bars
  <2> QED BY <2>1, <2>2 DEF Language!vars
<1> QED BY <1>1, <1>2

\* The stack machine does what the language promises: calls, tail calls, captured
\* variables and exceptions of every program without a hazardous use are those of
\* activations that share nothing but cells, whatever slots, frames, handlers and
\* upvalues vm_execute.c reuses for them.
THEOREM VmImplementsActivations ==
    ASSUME Exercised = {} PROVE Spec => Implements
<1>1. Init => Language!Init
  BY InitBegins
<1>2. IInv /\ IInv' /\ [Next]_vars => [Language!Next]_(Language!vars)
  BY StepImplements
<1>3. Spec => []IInv
  BY Invariance
<1> QED BY <1>1, <1>2, <1>3, PTL DEF Spec, Implements, Language!Spec
=============================================================================
