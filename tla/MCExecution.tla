---------------------------- MODULE MCExecution -----------------------------
(* Small instances of Execution: try statements, loops and closures,        *)
(* matches, classes, operators, calls, and programs at the limits.          *)
EXTENDS Execution

Num(n) == [e |-> "lit", value |-> IntVal(n)]
Real(n) == [e |-> "lit", value |-> FloatVal(n)]
Bool(b) == [e |-> "lit", value |-> BoolVal(b)]
Nil == [e |-> "lit", value |-> NilVal]
Var(name) == [e |-> "var", name |-> name]
Set(name, value) == [e |-> "assign", name |-> name, value |-> value]
Bin(op, left, right) == [e |-> "binary", op |-> op, left |-> left, right |-> right]
Plus(left, right) == Bin("ADD_INT", left, right)
\* `+` where the checker knows no type: of a method that is called on this or super.
UntypedSum(left, right) == Bin("ADD_MIXED", left, right)
Un(op, of) == [e |-> "unary", op |-> op, of |-> of]
Neg(n) == Un("NEGATE_INT", Num(n))
Logic(kind, left, right) == [e |-> kind, left |-> left, right |-> right]
CallTo(callee, args) == [e |-> "call", callee |-> callee, args |-> args]
CallBy(name, args) == CallTo(Var(name), args)
Arrow(params, result) == [e |-> "lambda", params |-> params, result |-> result, block |-> None]
Lambda(params, body) ==
    [e |-> "lambda", params |-> params, result |-> None, block |-> [s |-> "block", body |-> body]]
Array(elements) == [e |-> "array", elements |-> elements]
Spreading(of) == [e |-> "spread", of |-> of]
Item1(of, index) == [e |-> "index", of |-> of, index |-> index]
Dot(of, name) == [e |-> "get", of |-> of, name |-> name, optional |-> FALSE]
Opt(of, name) == [e |-> "get", of |-> of, name |-> name, optional |-> TRUE]
SetDot(of, name, value) == [e |-> "set", of |-> of, name |-> name, value |-> value]
This == [e |-> "this"]
SuperCall(method, args) == [e |-> "super", method |-> method, args |-> args]

Do(e) == [s |-> "expr", value |-> e]
Print1(e) == [s |-> "print", value |-> e]
Let(name, value) == [s |-> "let", name |-> name, value |-> value]
Block(body) == [s |-> "block", body |-> body]
If(cond, then, else) == [s |-> "if", cond |-> cond, then |-> then, else |-> else]
While1(cond, body) == [s |-> "while", cond |-> cond, body |-> Block(body)]
For1(name, over, body) == [s |-> "for", name |-> name, over |-> over, body |-> Block(body)]
Fn(name, params, body) == [s |-> "fn", name |-> name, params |-> params, body |-> body]
Ret(e) == [s |-> "return", value |-> e]
Throw1(e) == [s |-> "throw", value |-> e]
TryTo(body, catch, finally) ==
    [s |-> "try", body |-> Block(body), name |-> "e", catch |-> Block(catch),
     finally |-> IF finally = <<>> THEN None ELSE Block(finally)]
Arm(pattern, body) == [pattern |-> pattern, body |-> Block(body)]
Case(pattern, result) == [pattern |-> pattern, result |-> result]
Matching(value, arms) == [s |-> "match", value |-> value, arms |-> arms]
MatchTo(value, arms) == [e |-> "match", value |-> value, arms |-> arms]
Binding(tag, names) == [e |-> "binding", tag |-> tag, names |-> names]
Enum1(name, variants) == [s |-> "enum", name |-> name, variants |-> variants]
Class1(name, extends, methods) == [s |-> "class", name |-> name, extends |-> extends, methods |-> methods]
Method1(name, params, body) == [name |-> name, params |-> params, body |-> body]
Destructure(names, rest, value) ==
    [s |-> "destructure", names |-> names, rest |-> rest, value |-> value]

Thrower == Fn("t", <<>>, <<Throw1(Num(9))>>)
Noisy == Fn("r", <<"n">>, <<Print1(Var("n")), Ret(Plus(Var("n"), Num(1)))>>)

-----------------------------------------------------------------------------
(* Try statements: every way out of each of their blocks, alone and nested, *)
(* in a function with a local, called where exceptions are and are not      *)
(* caught.                                                                  *)

Bodies == {
    <<Print1(Num(2))>>, <<Ret(Num(3))>>, <<Ret(CallBy("r", <<Num(4)>>))>>, <<Throw1(Num(5))>>,
    <<Do(CallBy("t", <<>>))>>, <<Let("y", Num(6)), Ret(Plus(Var("y"), Var("x")))>>}
Catches == {<<Print1(Var("e"))>>, <<Ret(Num(17))>>, <<Print1(Var("e")), Ret(CallBy("r", <<Num(18)>>))>>,
            <<Throw1(Num(7))>>}
Finallies1 == {
    <<>>, <<Print1(Num(10))>>, <<Print1(Var("x"))>>, <<Do(Set("x", Plus(Var("x"), Num(20))))>>,
    <<Let("y", Num(30)), Print1(Var("y"))>>, <<Ret(Num(40))>>, <<Let("k", Arrow(<<>>, Var("x"))), Print1(CallBy("k", <<>>))>>}
Tries == {TryTo(body, catch, finally) : body \in Bodies, catch \in Catches, finally \in Finallies1}
Inner == {TryTo(body, catch, finally) :
            body \in {<<Print1(Num(2))>>, <<Ret(Num(3))>>, <<Throw1(Num(5))>>, <<Let("x", Num(6)), Ret(Var("x"))>>},
            catch \in {<<Print1(Var("e"))>>, <<Throw1(Num(7))>>},
            finally \in {<<>>, <<Print1(Num(10))>>, <<Print1(Var("x"))>>}}
NestedTries ==
    {TryTo(<<t>>, <<Print1(Var("e"))>>, finally) :
       t \in Inner, finally \in {<<>>, <<Print1(Num(11))>>, <<Print1(Var("x"))>>}}
    \union {TryTo(<<Throw1(Num(1))>>, <<t>>, <<Print1(Num(11))>>) : t \in Inner}
    \union {TryTo(<<Ret(Num(1))>>, <<Print1(Var("e"))>>, <<t>>) : t \in Inner}
InFunction(t) == Fn("f", <<"p">>, <<Let("x", Num(1)), t, Print1(Var("x")), Ret(Num(8))>>)
TryPrograms ==
    {<<Thrower, Noisy, InFunction(t), Print1(CallBy("f", <<Num(0)>>))>> : t \in Tries \union NestedTries}
    \union {<<Thrower, Noisy, InFunction(t), TryTo(<<Print1(CallBy("f", <<Num(0)>>))>>, <<Print1(Var("e"))>>, <<>>),
              Do(CallBy("t", <<>>))>> : t \in Tries}

-----------------------------------------------------------------------------
(* Loops over every kind of sequence, with closures over their variables    *)
(* and over locals of their bodies, at top level and in functions.          *)

Overs == {
    Bin("RANGE", Num(0), Num(2)), Bin("RANGE", Num(2), Num(0)), Bin("RANGE", Var("a"), Num(3)),
    Bin("RANGE", Num(1), Num(1)), Array(<<Num(4), Num(5)>>), Array(<<Var("a"), Var("a")>>), Var("c"),
    Array(<<Spreading(Var("c")), Num(7)>>)}
LoopBodies == {
    <<Do(Set("a", Plus(Var("a"), Var("i"))))>>,
    <<Do(Set("k", Arrow(<<>>, Var("i"))))>>,
    <<Let("j", Var("i")), Do(Set("k", Arrow(<<>>, Var("j"))))>>,
    <<Let("j", Var("i")), Do(Set("k", Arrow(<<>>, Set("j", Plus(Var("j"), Var("a")))))),
      Print1(CallBy("k", <<>>)), Print1(Var("j"))>>,
    <<For1("j", Var("c"), <<Print1(Plus(Var("i"), Var("j")))>>)>>,
    <<If(Bin("LESS", Var("i"), Num(2)), Block(<<Let("j", Num(1)), Print1(Var("j"))>>), None)>>}
Around(loop) ==
    <<Let("a", Num(1)), Let("c", Array(<<Num(8), Num(9)>>)), Let("k", Arrow(<<>>, Num(0))), loop,
      Print1(CallBy("k", <<>>)), Print1(Var("a"))>>
Loops ==
    {For1("i", over, body) : over \in Overs, body \in LoopBodies}
    \union {Block(<<Let("i", Num(0)),
                    While1(Bin("LESS", Var("i"), Num(2)), body \o <<Do(Set("i", Plus(Var("i"), Num(1))))>>)>>)
              : body \in LoopBodies}
LoopPrograms ==
    {Around(loop) : loop \in Loops}
    \union {<<Fn("f", <<"p">>, Around(loop)), Do(CallBy("f", <<Num(0)>>))>> : loop \in Loops}
    \union {<<Fn("f", <<"p">>, <<Let("a", Num(1)), Let("c", Array(<<Num(8)>>)), Let("k", Arrow(<<>>, Num(0))),
                                 For1("i", over, <<If(Bin("LESS", Num(1), Var("i")), Ret(Var("i")), None)>>),
                                 Ret(Num(0))>>),
              Print1(CallBy("f", <<Num(0)>>))>> : over \in Overs}

\* Closures that share a variable, that outlive it, and over two functions.
ClosurePrograms == {
    <<Fn("make", <<"n">>, <<Fn("inc", <<>>, <<Do(Set("n", Plus(Var("n"), Num(1)))), Ret(Var("n"))>>),
                            Do(CallBy("inc", <<>>)), Ret(Var("inc"))>>),
      Let("g", CallBy("make", <<Num(1)>>)), Let("h", CallBy("make", <<Num(5)>>)),
      Print1(CallBy("g", <<>>)), Print1(CallBy("h", <<>>)), Print1(CallBy("g", <<>>))>>,
    <<Fn("pair", <<"n">>, <<Let("put", Arrow(<<>>, Set("n", Plus(Var("n"), Num(3))))),
                            Let("get", Arrow(<<>>, Var("n"))), Do(CallBy("put", <<>>)),
                            Print1(CallBy("get", <<>>)), Print1(Var("n")), Let("both", Array(<<Var("put"), Var("get")>>)),
                            Do(CallTo(Item1(Var("both"), Num(0)), <<>>)), Print1(CallTo(Item1(Var("both"), Num(1)), <<>>)),
                            Ret(Var("get"))>>),
      Let("p", CallBy("pair", <<Num(1)>>)), Print1(CallBy("p", <<>>))>>,
    <<Fn("outer", <<"n">>, <<Ret(Lambda(<<>>, <<Ret(Arrow(<<"m">>, Plus(Var("n"), Var("m"))))>>))>>),
      Print1(CallTo(CallTo(CallBy("outer", <<Num(1)>>), <<>>), <<Num(2)>>))>>,
    <<Let("x", Num(1)), Let("k", Arrow(<<>>, Var("x"))),
      Block(<<Let("x", Num(2)), Let("l", Arrow(<<>>, Var("x"))), Print1(CallBy("l", <<>>)),
              Do(Set("k", Var("l")))>>),
      Let("y", Num(3)), Print1(CallBy("k", <<>>)), Print1(Var("x")), Print1(Var("y"))>>,
    <<Fn("g", <<>>, <<Ret(Num(1))>>), Block(<<Fn("g", <<>>, <<Ret(Num(2))>>), Print1(CallBy("g", <<>>))>>),
      Print1(CallBy("g", <<>>))>>}

-----------------------------------------------------------------------------
(* Matches, as statements and expressions, nested, with locals, closures    *)
(* and returns in their arms; over literals and over variants of an enum.   *)

Arms == {
    <<Arm(Num(1), <<Print1(Num(11))>>), Arm(Num(2), <<Let("y", Num(12)), Print1(Var("y"))>>)>>,
    <<Arm(Num(1), <<Let("y", Num(12)), Do(Set("k", Arrow(<<>>, Var("y"))))>>), Arm(None, <<Print1(Num(13))>>)>>,
    <<Arm(Num(2), <<Matching(Var("x"), <<Arm(Num(1), <<>>), Arm(Num(2), <<Print1(Num(14))>>)>>), Print1(Num(15))>>),
      Arm(Num(1), <<TryTo(<<Throw1(Num(16))>>, <<Print1(Var("e"))>>, <<>>)>>)>>,
    <<Arm(Plus(Var("x"), Num(0)), <<Print1(Var("x"))>>), Arm(Num(3), <<Print1(Num(17))>>)>>,
    <<>>}
ReturningArms == <<Arm(Num(1), <<Let("y", Num(12)), Ret(Var("y"))>>), Arm(Num(2), <<Ret(CallBy("r", <<Num(18)>>))>>)>>
Cases == {
    <<Case(Num(1), Num(11)), Case(Num(2), CallBy("r", <<Num(12)>>))>>,
    <<Case(Num(1), MatchTo(Var("x"), <<Case(Num(2), Num(13)), Case(None, Num(14))>>)), Case(None, Num(15))>>}
Option == Enum1("Opt", <<[name |-> "Some", fields |-> 1], [name |-> "Both", fields |-> 2], [name |-> "Empty", fields |-> 0]>>)
Variants == {CallBy("Some", <<Num(1)>>), CallBy("Both", <<Num(2), Num(3)>>), Var("Empty")}
ArmsOfOption == {
    <<Arm(Binding("Some", <<"v">>), <<Print1(Var("v"))>>), Arm(Binding("Both", <<"v", "w">>), <<Print1(Plus(Var("v"), Var("w")))>>),
      Arm(Binding("Empty", <<>>), <<Print1(Num(0))>>)>>,
    <<Arm(Binding("Both", <<"v", "w">>), <<Do(Set("k", Arrow(<<>>, Plus(Var("v"), Var("w")))))>>),
      Arm(Binding("Some", <<"x">>), <<Let("y", Var("x")), Print1(Var("y"))>>), Arm(None, <<Print1(Num(4))>>)>>}
MatchPrograms ==
    {<<Noisy, Let("k", Arrow(<<>>, Num(0))), Let("x", Num(n)), Matching(Var("x"), arms), Let("z", Num(5)),
       Print1(CallBy("k", <<>>)), Print1(Var("z"))>> : n \in 1..3, arms \in Arms}
    \union {<<Noisy, Fn("f", <<"x">>, <<Matching(Var("x"), ReturningArms), Ret(Num(6))>>), Print1(CallBy("f", <<Num(n)>>))>>
              : n \in 1..3}
    \union {<<Noisy, Let("x", Num(n)), Let("z", Plus(Num(1), MatchTo(Var("x"), cases))), Print1(Var("z"))>>
              : n \in 1..2, cases \in Cases}
    \union {<<Option, Fn("f", <<"o">>, <<Let("k", Arrow(<<>>, Num(0))), Matching(Var("o"), arms), Print1(CallBy("k", <<>>))>>),
              Do(CallBy("f", <<v>>))>> : v \in Variants, arms \in ArmsOfOption}
    \union {<<Option, Print1(MatchTo(v, <<Case(Binding("Some", <<"w">>), Num(1)), Case(None, Num(2))>>))>> : v \in Variants}
    \union {<<Fn("f", <<>>, <<Option, Matching(Var("Empty"), <<Arm(Binding("Empty", <<>>), <<Print1(Num(1))>>)>>)>>),
              Do(CallBy("f", <<>>))>>}

-----------------------------------------------------------------------------
(* Classes: initializers, methods, super calls, bound methods, closures     *)
(* over parameters of methods, fields.                                      *)

Point == Class1("P", "", <<
    Method1("init", <<"x">>, <<Do(SetDot(This, "x", Var("x"))), If(Bin("LESS", Var("x"), Num(1)), Ret(None), None),
                               Print1(Var("x"))>>),
    Method1("get", <<>>, <<Ret(Dot(This, "x"))>>),
    Method1("add", <<"n">>, <<Ret(UntypedSum(CallTo(Dot(This, "get"), <<>>), Var("n")))>>),
    Method1("adder", <<"n">>, <<Ret(Arrow(<<"m">>, Plus(Var("n"), Var("m"))))>>)>>)
Itself == Class1("S", "P", <<Method1("me", <<>>, <<Ret(Arrow(<<>>, Dot(This, "x")))>>)>>)
Sub == Class1("Q", "P", <<
    Method1("init", <<"x">>, <<Do(SuperCall("init", <<Plus(Var("x"), Num(1))>>)), Do(SetDot(This, "y", Var("x")))>>),
    Method1("get", <<>>, <<Ret(UntypedSum(SuperCall("get", <<>>), Dot(This, "y")))>>),
    Method1("guarded", <<>>, <<TryTo(<<Ret(SuperCall("add", <<Num(50)>>))>>, <<Print1(Var("e"))>>, <<Print1(Dot(This, "y"))>>)>>)>>)
Empty1 == Class1("R", "", <<Method1("m", <<>>, <<Ret(Num(1))>>)>>)
Uses == {
    <<Print1(CallTo(Dot(Var("p"), "get"), <<>>))>>,
    <<Print1(CallTo(Dot(Var("p"), "add"), <<Num(10)>>))>>,
    <<Let("b", Dot(Var("p"), "add")), Do(SetDot(Var("p"), "x", Num(20))), Print1(CallBy("b", <<Num(1)>>))>>,
    <<Print1(CallTo(CallTo(Dot(Var("p"), "adder"), <<Num(1)>>), <<Num(2)>>))>>,
    <<Fn("f", <<"b">>, <<Ret(CallBy("b", <<Num(3)>>))>>), Print1(CallBy("f", <<Dot(Var("p"), "add")>>))>>,
    <<Let("z", Var("p")), Do(Set("z", Nil)), Print1(Logic("coalesce", Opt(Var("z"), "x"), Num(30)))>>,
    <<Print1(Opt(Var("p"), "x"))>>}
ClassPrograms ==
    {<<Point, Let("p", CallBy("P", <<x>>))>> \o use : x \in {Num(1), Num(0)}, use \in Uses}
    \union {<<Point, Sub, Let("p", CallBy("Q", <<Num(5)>>))>> \o use : use \in Uses}
    \union {<<Point, Sub, Print1(CallTo(Dot(CallBy("Q", <<Num(5)>>), "guarded"), <<>>))>>,
            <<Fn("f", <<>>, <<Point, Sub, Let("p", CallBy("Q", <<Num(5)>>)), Ret(CallTo(Dot(Var("p"), "get"), <<>>))>>),
              Print1(CallBy("f", <<>>))>>,
            <<Point, Let("p", CallBy("P", <<Num(1)>>)), Fn("g", <<"z">>, <<Print1(Plus(Var("z"), Num(3)))>>),
              Do(CallBy("g", <<CallTo(Dot(Var("p"), "add"), <<Num(2)>>)>>))>>,
            <<Point, Itself, Print1(CallTo(CallTo(Dot(CallBy("S", <<Num(1)>>), "me"), <<>>), <<>>))>>,
            <<Empty1, Fn("f", <<"k">>, <<Ret(CallBy("R", <<>>))>>), Print1(CallTo(Dot(CallBy("f", <<Num(1)>>), "m"), <<>>))>>,
            <<Point, Fn("f", <<"k">>, <<Ret(CallBy("P", <<Num(1)>>))>>), Print1(Dot(CallBy("f", <<Num(2)>>), "x"))>>}

-----------------------------------------------------------------------------
(* Operators that decide what is evaluated, and what is computed at once.   *)

Asking == Fn("q", <<"n", "b">>, <<Print1(Var("n")), Ret(Var("b"))>>)
Conditions == {Bool(TRUE), Bool(FALSE), CallBy("q", <<Num(1), Bool(TRUE)>>), CallBy("q", <<Num(2), Bool(FALSE)>>),
               Un("NOT", Bool(TRUE)), Un("NOT", CallBy("q", <<Num(3), Bool(TRUE)>>))}
OperatorPrograms ==
    {<<Asking, If(Logic(kind, l, Logic(other, m, Bin("LESS", Num(1), Num(2)))), Print1(Num(4)), Print1(Num(5)))>>
       : kind \in {"and", "or"}, other \in {"and", "or"}, l \in Conditions, m \in Conditions}
    \union {<<Let("x", x), Let("y", Logic("coalesce", Var("x"), Num(6))), Print1(Var("y"))>> : x \in {None, Nil, Num(7)}}
    \union {<<Let("a", Num(2)), Let("c", Array(<<Num(8), Var("a")>>)),
              Let("d", Array(<<Spreading(Var("c")), Var("a"), Num(9), Spreading(Array(<<Num(6)>>)), Spreading(Var("c"))>>)),
              Print1(Plus(Item1(Var("d"), Num(1)), Item1(Var("d"), Plus(Var("a"), Num(2))))),
              Destructure(<<"u", "v", "w">>, rest, Var("d")),
              Print1(IF rest = 3 THEN Item1(Var("w"), Num(2)) ELSE Var("w")), Print1(Un("NEGATE_INT", Var("v")))>> : rest \in {0, 3}}
    \union {<<Noisy, Destructure(<<"u", "v">>, 0, Array(<<CallBy("r", <<Num(1)>>), CallBy("r", <<Num(2)>>)>>)), Print1(Var("v"))>>,
            <<Let("y", Num(2)), Print1(Plus(Un("NEGATE_INT", Num(1)), Plus(Num(3), Num(4)))), Print1(Bin("ADD_FLOAT", Real(1), Real(4)))>>,
            <<Let("b", Real(2)), Let("a", Num(2)), Print1(Plus(Var("a"), Num(3)))>>,
            <<If(Bin("EQUAL", Num(1), Real(1)), Print1(Num(6)), Print1(Num(7)))>>,
            <<Let("y", Num(2)), If(Bin("EQUAL", Var("y"), Real(3)), Print1(Num(6)), Print1(Num(7)))>>,
            <<Let("x", Num(10)), Let("y", Real(3)), Print1(Bin("ADD_FLOAT", Var("x"), Var("y")))>>,
            <<Let("x", Neg(1)), If(Bin("LESS", Var("x"), Num(1)), Print1(Num(6)), Print1(Num(7)))>>}

-----------------------------------------------------------------------------
(* Calls deeper than FramesMax, when they are tail calls; and programs that *)
(* reach a limit of the compiler.                                           *)

TailPrograms ==
    {<<Fn("count", <<"n", "a">>, <<If(Bin("LESS", Var("n"), Num(1)), Ret(Var("a")), None),
                                   Ret(CallBy("count", <<Plus(Var("n"), Neg(1)), Plus(Var("a"), Num(2))>>))>>),
       Print1(CallBy("count", <<Num(7), Num(0)>>))>>,
     <<Fn("f", <<"n", "k">>, <<If(Bin("LESS", Var("n"), Num(1)), Ret(CallBy("k", <<>>)), None), Let("m", Plus(Var("n"), Neg(1))),
                               Ret(CallBy("f", <<Var("m"), Arrow(<<>>, Var("m"))>>))>>),
       Print1(CallBy("f", <<Num(6), Arrow(<<>>, Num(9))>>))>>}
Repeated(n, stmts) == FlattenSeq([k \in 1..n |-> stmts])
Long(n) == Repeated(n, <<Print1(Plus(Var("x"), Num(1)))>>)
LimitPrograms ==
    {<<Let("x", Num(1)), If(cond, Block(Long(n)), Print1(Num(2)))>> : cond \in {Bool(TRUE), Bool(FALSE)}, n \in 20..24}
    \union {<<Let("x", Num(1)), While1(Bin("LESS", Var("x"), Num(2)), Long(n) \o <<Do(Set("x", Num(2)))>>)>> : n \in 18..22}
    \union {<<Let("x", Num(1)), TryTo(Long(n), <<Print1(Var("e"))>>, <<>>)>> : n \in 20..23}
    \union {<<Let("x", Num(1))>> \o Long(n) \o <<TryTo(<<Throw1(Num(1))>>, <<Print1(Var("e"))>>, <<>>)>> : n \in {20, 24}}
    \union {<<Fn("f", [k \in 1..n |-> "p"], <<Let("x", Num(3)), Ret(Var("x"))>>),
              Print1(CallBy("f", [k \in 1..n |-> Num(k)]))>> : n \in 9..12}
    \union {[k \in 1..n |-> Print1(Num(k))] : n \in 19..21}
    \union {<<TryTo(<<TryTo(<<TryTo(<<TryTo(<<Print1(Num(1))>>, <<>>, f)>>, <<>>, <<Print1(Num(3))>>)>>, <<>>, <<Print1(Num(4))>>)>>,
                    <<>>, <<Print1(Num(5))>>)>> : f \in {<<>>, <<Print1(Num(2))>>}}
    \union {<<Fn("f", <<>>, <<Let("x", Num(1)), Let("k", Arrow(<<>>, Var("x"))), TryTo(<<Let("y", Num(2)), Do(Set("k", Arrow(<<>>, Var("y")))),
                                                                   Throw1(Num(3))>>, <<Let("z", Num(4)), Print1(CallBy("k", <<>>))>>, <<>>)>>),
              Do(CallBy("f", <<>>))>>}

MCPrograms ==
    TryPrograms \union LoopPrograms \union ClosurePrograms \union MatchPrograms \union ClassPrograms
    \union OperatorPrograms \union TailPrograms \union LimitPrograms
=============================================================================
