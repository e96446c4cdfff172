----------------------------- MODULE MCDebugger -----------------------------
(* Programs to debug: two calls of a function on two lines; a for loop      *)
(* around a call; a while loop, whose jump back lands behind code of another *)
(* line; an exception through two frames; recursion; tail calls; and one    *)
(* without calls, which is debugged more than once.                         *)
EXTENDS Debugger

I(line, op) == [line |-> line, op |-> op, to |-> 0, arg |-> 0, tries |-> <<>>]
To(line, op, i) == [I(line, op) EXCEPT !.to = i]
CallOf(line, f, n) == [I(line, "call") EXCEPT !.to = f, !.arg = n]
In(x, tries) == [x EXCEPT !.tries = tries]
Of(script, f, g) == [n \in {"script", "f", "g"} |->
    CASE n = "script" -> script [] n = "f" -> f [] n = "g" -> g]
Two(line, op) == <<I(line, "plain"), I(line, op)>>

Calls == Of(<<CallOf(3, "f", 1), I(3, "plain"), CallOf(4, "f", 2), I(4, "return")>>,
            <<I(1, "plain"), CallOf(2, "g", 1), I(2, "return")>>, Two(1, "return"))
Loop == Of(<<I(3, "plain"), To(3, "branch", 6), CallOf(4, "f", 1), I(3, "plain"),
             To(3, "jump", 2), I(4, "return")>>,
           <<I(1, "plain"), I(2, "return")>>, Two(1, "return"))
Exception == Of(<<To(3, "try", 5), In(CallOf(4, "f", 1), <<5>>), In(I(3, "try_end"), <<5>>), To(3, "jump", 6),
                  I(3, "plain"), I(4, "return")>>,
                <<CallOf(1, "g", 1), I(1, "return")>>, Two(2, "throw"))
Recursion == Of(<<CallOf(3, "f", 1), I(4, "return")>>,
                <<I(1, "plain"), To(1, "branch", 4), CallOf(1, "f", 2), I(1, "plain"), I(2, "return")>>,
                Two(1, "return"))
While == Of(<<I(1, "plain"), To(2, "branch", 5), CallOf(3, "f", 1), To(3, "jump", 2), I(4, "return")>>,
            Two(1, "return"), Two(1, "return"))
TailOf(line, f, n) == [CallOf(line, f, n) EXCEPT !.op = "tail"]
Tails == Of(<<CallOf(3, "f", 1), I(4, "return")>>,
            <<To(1, "branch", 3), TailOf(1, "f", 2), TailOf(1, "g", 1)>>, <<I(2, "plain"), I(2, "return")>>)
Short == Of(<<I(3, "plain"), I(4, "return")>>, Two(1, "return"), Two(1, "return"))
MCRepeated == {Short}
MCPrograms == {Calls, Loop, While, Exception, Recursion, Tails, Short}

Clauses(of, op, value) == <<[of |-> of, op |-> op, value |-> value, index |-> 1]>>
MCConditions == {
    <<>>, Clauses("hit", ">=", 2),
    Clauses("local", "==", 2) \o Clauses("unreadable", "<", 0) \o Clauses("depth", "!=", 1)}
MCStartup == {<<>>, <<<<1, <<>>>>, <<4, Clauses("hit", ">=", 2)>>>>}
MCTorn == {<<1, <<>>>>}
=============================================================================
