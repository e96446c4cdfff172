------------------------------ MODULE MCChecker ------------------------------
(* Small instances of Checker: statements about optionals and unions, about *)
(* functions, throws, classes, templates and interfaces, and about each of  *)
(* the natives.                                                             *)
EXTENDS Checker

S(name) == Node("simple", name, <<>>)
Opt(n) == Node("optional", "", <<n>>)
Or(ns) == Node("union", "", ns)
Gen(name, ns) == Node("generic", name, ns)

Lit(kind) == [e |-> "lit", kind |-> kind]
Native(id) == [e |-> "any", id |-> id]
Flip == [e |-> "flip"]
Var(name, id) == [e |-> "var", name |-> name, id |-> id]
Set(name, value, id) == [e |-> "assign", name |-> name, value |-> value, id |-> id]
Bin(op, l, r, id) == [e |-> "binary", op |-> op, left |-> l, right |-> r, id |-> id]
OrElse(l, r, id) == [e |-> "coalesce", left |-> l, right |-> r, id |-> id]
Is(name, kind, id) == [e |-> "guard", name |-> name, kind |-> kind, positive |-> TRUE, id |-> id]
IsNot(name, kind, id) == [Is(name, kind, id) EXCEPT !.positive = FALSE]
New(name, args, id) == [e |-> "new", name |-> name, args |-> args, values |-> <<>>, id |-> id]
CallTo(name, values, id) == [e |-> "call", name |-> name, values |-> values, id |-> id]
Invoke(object, method, values, id) ==
    [e |-> "invoke", object |-> object, method |-> method, values |-> values, id |-> id]
Super(method, values, id) == [e |-> "super", method |-> method, values |-> values, id |-> id]

Let(name, type, init, id) ==
    [s |-> "let", name |-> name, type |-> type, init |-> init, const |-> FALSE, id |-> id]
Const(name, init, id) == [Let(name, NoNode, init, id) EXCEPT !.const = TRUE]
Do(e) == [s |-> "expr", value |-> e]
If(cond, then, else) == [s |-> "if", cond |-> cond, then |-> then, else |-> else]
While(body) == [s |-> "while", cond |-> Flip, body |-> body]
Ret(e) == [s |-> "return", value |-> e]
Fn(name, params, types, result, body) ==
    [s |-> "fn", name |-> name, typeParams |-> <<>>, params |-> params, types |-> types,
     result |-> result, body |-> body]
Class(name, extends, implements, methods) ==
    [s |-> "class", name |-> name, typeParams |-> <<>>, bounds |-> <<>>, variances |-> <<>>,
     extends |-> extends, implements |-> implements, methods |-> methods]
Template(name, bound, variance, extends, methods) ==
    [Class(name, extends, <<>>, methods)
       EXCEPT !.typeParams = <<"T">>, !.bounds = <<bound>>, !.variances = <<variance>>]

\* Optionals, unions and guards.
Variables == {
    Let("x", Opt(S("int")), Native(1), 2),
    Let("x", Or(<<S("int"), S("string")>>), Native(1), 2),
    Let("x", Or(<<S("int"), S("string"), S("nil")>>), Native(1), 2),
    Let("y", S("int"), Lit("int"), 1),
    Let("y", S("int"), NoExpr, 1),
    Let("y", Opt(S("float")), Lit("int"), 1),
    Let("y", S("int"), OrElse(Var("x", 1), Lit("int"), 2), 3),
    Let("w", NoNode, Bin("+", Var("y", 1), Lit("float"), 2), 3),
    If(IsNot("x", "nil", 1), <<Do(Set("y", Bin("-", Var("x", 2), Lit("int"), 3), 4))>>, <<>>),
    If(Is("x", "int", 1), <<Let("z", NoNode, Bin("-", Var("x", 2), Lit("int"), 3), 4)>>,
       <<Let("z", NoNode, Bin("+", Var("x", 5), Var("x", 6), 7), 8)>>),
    If(Is("x", "nil", 1), <<Do(Set("x", Lit("nil"), 2))>>,
       <<If(Is("x", "int", 3), <<Do(Set("y", Var("x", 4), 5)), Do(Set("x", Lit("int"), 6))>>,
            <<Let("x", NoNode, Bin("+", Var("x", 7), Lit("string"), 8), 9)>>)>>),
    [s |-> "block", body |-> <<Let("y", NoNode, Bin("*", Lit("int"), Lit("float"), 1), 2),
                               Do(Set("y", Bin("+", Var("y", 3), Lit("float"), 4), 5))>>],
    While(<<Do(Set("x", Native(1), 2)), Let("x", NoNode, Lit("string"), 3),
            Do(Set("x", Bin("+", Var("x", 4), Lit("string"), 5), 6))>>)}

\* Functions that change what their callers narrowed, and generic functions.
Functions == {
    Let("x", Opt(S("int")), Native(1), 2),
    Let("y", S("int"), Lit("int"), 1),
    Const("k", Lit("int"), 1),
    Do(Set("k", Lit("int"), 1)),
    Fn("f", <<"a">>, <<Opt(S("int"))>>, S("int"),
       <<If(IsNot("a", "nil", 1), <<Ret(Bin("-", Var("a", 2), Lit("int"), 3))>>, <<>>), Ret(Lit("int"))>>),
    Fn("g", <<"a">>, <<S("int")>>, Opt(S("int")), <<If(Flip, <<Ret(Var("a", 1))>>, <<>>)>>),
    Fn("g", <<>>, <<>>, S("int"), <<While(<<Ret(Lit("int"))>>)>>),
    Fn("h", <<>>, <<>>, NoNode, <<Do(Set("x", Lit("nil"), 1))>>),
    [Fn("id", <<"a">>, <<S("T")>>, S("T"), <<Ret(Var("a", 1))>>) EXCEPT !.typeParams = <<"T">>],
    Do(Set("y", CallTo("f", <<Var("x", 1)>>, 2), 3)),
    Do(Set("x", CallTo("g", <<Var("y", 1)>>, 2), 3)),
    Do(Set("y", CallTo("id", <<Native(1)>>, 2), 3)),
    If(IsNot("x", "nil", 1), <<Do(CallTo("h", <<>>, 2)), Do(Set("y", Var("x", 3), 4))>>, <<>>)}

\* Strings that are thrown out of scopes and calls, and caught there or not at all.
TryDo(body, name, catch) == [s |-> "try", body |-> body, name |-> name, catch |-> catch]
Throw1(e) == [s |-> "throw", value |-> e]
Throws == {
    Let("e", S("int"), Lit("int"), 1),
    Let("x", Opt(S("string")), Native(1), 2),
    Fn("f", <<"a">>, <<Opt(S("string"))>>, S("int"),
       <<If(IsNot("a", "nil", 1), <<Let("e", NoNode, Lit("float"), 2), Throw1(Var("a", 3))>>, <<>>),
         Ret(Lit("int"))>>),
    TryDo(<<Do(Set("e", CallTo("f", <<Var("x", 1)>>, 2), 3)), Do(Set("x", Lit("string"), 4))>>,
        "e", <<Do(Set("x", Bin("+", Var("e", 5), Lit("string"), 6), 7)),
               Let("e", NoNode, Lit("int"), 8)>>),
    While(<<TryDo(<<If(Is("x", "nil", 1), <<Throw1(Native(4))>>, <<>>)>>,
                "x", <<Do(Set("x", Bin("+", Var("x", 2), Lit("string"), 3), 5)), Throw1(Var("x", 6))>>)>>),
    Let("r", NoNode, Bin("+", Var("e", 1), Lit("int"), 2), 3)}

\* Classes, templates, the instances made of them, and interfaces.
Add == Fn("add", <<"a", "b">>, <<S("T"), S("T")>>, S("T"), <<Ret(Bin("+", Var("a", 1), Var("b", 2), 3))>>)
Method(result) == Fn("m", <<>>, <<>>, S(result), <<Ret(Lit(result))>>)
Twice == Fn("twice", <<"a">>, <<S("T")>>, S("T"),
    <<Let("r", NoNode, Super("add", <<Var("a", 1), Var("a", 2)>>, 3), 4),
      Ret(Bin("+", Var("r", 5), Var("a", 6), 7))>>)
Box == Template("Box", "", "invariant", NoNode, <<Add>>)
SubBox == Template("Sub", "", "out", Gen("Box", <<S("T")>>), <<Twice>>)
Instances == {
    Box, SubBox,
    Class("C", Gen("Box", <<S("int")>>), <<>>,
          <<[Twice EXCEPT !.types = <<S("int")>>, !.result = S("int")]>>),
    Let("b", NoNode, New("Box", <<S("int")>>, 1), 2),
    Let("n", Gen("Box", <<S("string")>>), New("Box", <<S("string")>>, 1), 2),
    Let("s", Gen("Sub", <<Opt(S("int"))>>), New("Sub", <<S("int")>>, 1), 2),
    Let("s", NoNode, New("Sub", <<S("string")>>, 1), 2),
    Template("Cell", "", "out", NoNode, <<>>),
    Template("Pair", "", "in", Gen("Cell", <<S("T")>>), <<>>),
    Let("e", NoNode, New("Cell", <<Opt(S("int"))>>, 1), 2),
    Let("f", NoNode, New("Cell", <<Opt(S("string"))>>, 1), 2),
    Let("e", NoNode, New("Pair", <<Opt(S("int"))>>, 1), 2),
    Let("e", NoNode, New("Pair", <<Gen("Cell", <<Opt(S("int"))>>)>>, 1), 2),
    Let("e", NoNode, New("Pair", <<Gen("Pair", <<S("int")>>)>>, 1), 2),
    Let("s", NoNode, New("Sub", <<Gen("Sub", <<S("int")>>)>>, 1), 2),
    Let("c", NoNode, CallTo("C", <<>>, 1), 2),
    Let("r", NoNode, Invoke(Var("b", 1), "add", <<Lit("int"), Lit("int")>>, 2), 3),
    Let("r", NoNode, Invoke(Var("s", 1), "twice", <<Lit("int")>>, 2), 3),
    Let("r", S("int"), Invoke(Var("c", 1), "twice", <<Lit("int")>>, 2), 3)}
Interfaces == {
    [s |-> "interface", name |-> "I", methods |-> <<Method("int")>>],
    Class("A", NoNode, <<"I">>, <<Method("int")>>),
    Class("A", NoNode, <<"I">>, <<Method("string")>>),
    Class("B", NoNode, <<>>, <<Method("string")>>),
    Let("a", NoNode, CallTo("A", <<>>, 1), 2),
    Let("i", S("I"), CallTo("B", <<>>, 1), 2),
    Let("i", S("I"), Var("a", 1), 2),
    Template("P", "I", "in", NoNode, <<[Add EXCEPT !.body = <<Ret(Var("b", 1))>>]>>),
    Let("p", Gen("P", <<S("A")>>), New("P", <<S("A")>>, 1), 2),
    Let("p", Gen("P", <<S("B")>>), New("P", <<S("B")>>, 1), 2),
    Let("p", NoNode, New("P", <<S("int")>>, 1), 2),
    Template("Q", "", "out", S("B"), <<>>),
    Let("q", NoNode, New("Q", <<S("int")>>, 1), 2),
    Let("q", Gen("Q", <<S("A")>>), New("Q", <<S("A")>>, 1), 2),
    Let("q", NoNode, New("Q", <<S("B")>>, 1), 2),
    Let("r", S("A"), Invoke(Var("p", 1), "add", <<Var("a", 2), Var("i", 3)>>, 4), 5)}

\* A native, called with what it is declared to take and with what it may not be.
Argument(t) == IF t.kind \in Primitives THEN Lit(t.kind) ELSE Native(9)
CallsTo(n) ==
    LET type == Declared[n]
        args == [i \in DOMAIN Params(type) |-> Argument(Params(type)[i])]
        kind == Result(type).kind
    IN  {Let("a", NoNode, Native(1), 2),
         Let("x", IF kind \in Primitives THEN S(kind) ELSE NoNode, CallTo(n, args, 1), 2),
         Let("y", NoNode, CallTo(n, [i \in DOMAIN args |-> Var("a", i)], 3), 4),
         Let("z", NoNode, Bin("+", Var("x", 1), Lit(IF kind = "string" THEN kind ELSE "float"), 2), 3)}
MCPools == {Variables, Functions, Throws, Instances, Interfaces} \cup {CallsTo(n) : n \in DOMAIN Declared}
=============================================================================
