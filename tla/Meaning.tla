------------------------------ MODULE Meaning -------------------------------
(***************************************************************************)
(* What a program means: what it prints, and whether an exception is left  *)
(* at its end.  Names are bound to cells; blocks end the names they        *)
(* declare; functions keep the cells they were made with; a loop has a     *)
(* variable of its own in each iteration; a finally body runs once,        *)
(* however its try statement is left.  There is no code, no stack and no   *)
(* limit here.                                                             *)
(*                                                                         *)
(* `m` is the store: cells, objects, functions, what was printed and which *)
(* of `MeaningHazards` were met.                                           *)
(***************************************************************************)
EXTENDS Codegen

MeaningHazards == {
    "catch_throw",        \* a catch block with a finally body ends in an exception
    "return_in_try",      \* a return left a try block, and later something is thrown
    "tail_initializer",   \* a returned call makes an instance of a class with init
    "mixed_addition",     \* an int is added to a float, not both literals
    "negative_number",    \* a negative int is ordered, compared with a float or of no known type
    "unknown_sum"}        \* a sum of operands of no known type is added to an int

\* `trying`: in a try block; `ending`: in a try or catch block that has a finally body;
\* both of this function.  `top`: at top level.
Within(names, top) == [names |-> names, trying |-> FALSE, ending |-> FALSE, top |-> top]
Nowhere == Within(<<>>, FALSE)
EmptyStore == [cells |-> <<>>, globals |-> <<>>, closures |-> <<>>, classes |-> <<>>, objects |-> <<>>,
               printed |-> <<>>, left |-> FALSE, met |-> {}]
MetIn(hazard, cond, m) == IF cond THEN [m EXCEPT !.met = @ \union {hazard}] ELSE m

\* Evaluations and executions end normally, with a value or the names that are known
\* next, or are left by a return or an exception.
Result(c, value, env, m) == [c |-> c, value |-> value, env |-> env, m |-> m]
Normal(value, m) == Result("normal", value, Nowhere, m)
Went(env, m) == Result("normal", NilVal, env, m)
Raised(value, m) == Result("throw", value, Nowhere, MetIn("return_in_try", m.left, m))
\* What follows, unless it was left.
Given(r, F(_)) == F(r)
Then(r, F(_, _)) == IF r.c = "normal" THEN F(r.value, r.m) ELSE r
After(r, F(_, _)) == IF r.c = "normal" THEN F(r.env, r.m) ELSE r

Bound(env, name, m) == [env EXCEPT !.names = (name :> Len(m.cells)) @@ @]
Cell(value, m) == [m EXCEPT !.cells = Append(@, value)]
Declared(env, name, value, m) == Went(Bound(env, name, Cell(value, m)), Cell(value, m))
DeclaredAll(env, names, values, m) ==
    FoldLeft(LAMBDA r, k : After(r, LAMBDA e, n : Declared(e, names[k], values[k], n)),
             Went(env, m), [k \in DOMAIN names |-> k])
Lookup(env, name, m) == IF name \in DOMAIN env.names THEN m.cells[env.names[name]] ELSE m.globals[name]
Stored(env, name, value, m) ==
    IF name \in DOMAIN env.names THEN [m EXCEPT !.cells[env.names[name]] = value]
                                 ELSE [m EXCEPT !.globals[name] = value]
GlobalNow(name, value, m) == [m EXCEPT !.globals = (name :> value) @@ @]

\* Functions: `result` is the body of a lambda without a block.
Closure(params, body, result, env) ==
    [params |-> params, body |-> body, result |-> result,
     env |-> [env EXCEPT !.trying = FALSE, !.ending = FALSE, !.top = FALSE]]
Made(closure, m) == [m EXCEPT !.closures = Append(@, closure)]
ClosureVal(id) == [v |-> "closure", id |-> id]
Newest(m) == ClosureVal(Len(m.closures))

ArrayVal(elements) == [v |-> "array", elements |-> elements]
Ints(from, to) == ArrayVal([k \in DOMAIN Counted(from, to) |-> IntVal(Counted(from, to)[k])])

Equals(a, b) == IF Number(a) /\ Number(b) THEN a.n = b.n ELSE a = b
\* A sum of operands of no known type is a float.
Applied(op, a, b) ==
    CASE op = "ADD_INT" -> IntVal(a.n + b.n)
      [] op \in {"ADD_FLOAT", "ADD_MIXED"} -> FloatVal(a.n + b.n)
      [] op = "LESS" -> BoolVal(a.n < b.n)
      [] op = "EQUAL" -> BoolVal(Equals(a, b))
      [] op = "RANGE" -> Ints(a.n, b.n)
Negative(x) == x.v = "int" /\ x.n < 0
MetBy(e, a, b, m) ==
    MetIn("mixed_addition", e.op = "ADD_FLOAT" /\ a.v # b.v /\ ~ Folds(e),
    MetIn("unknown_sum", e.op = "ADD_INT" /\ (a.v # "int" \/ b.v # "int"),
    MetIn("negative_number", /\ Negative(a) \/ Negative(b)
                             /\ e.op \in {"LESS", "ADD_MIXED"} \/ (e.op = "EQUAL" /\ a.v # b.v), m)))
Variant(tag, fields) == [v |-> "variant", tag |-> tag, fields |-> fields]
HasInit(m, class) == "init" \in DOMAIN m.classes[class]
\* What an instance has under a name: a field, or a method that is bound to it.
Property(object, name, m) ==
    IF name \in DOMAIN m.objects[object.id].fields THEN m.objects[object.id].fields[name]
    ELSE [v |-> "bound", this |-> object, id |-> m.classes[m.objects[object.id].class][name]]

RECURSIVE Eval(_, _, _), EvalAll(_, _, _), EvalArms(_, _, _, _), Call(_, _, _), Exec(_, _, _),
          ExecAll(_, _, _), ExecArms(_, _, _, _), While(_, _, _)

EvalAll(es, env, m) ==
    FoldLeft(LAMBDA r, e : Then(r, LAMBDA vs, m1 : Then(Eval(e, env, m1), LAMBDA v, m2 :
                 Normal(IF e.e = "spread" THEN vs \o v.elements ELSE Append(vs, v), m2))),
             Normal(<<>>, m), es)
Eval(e, env, m) ==
    CASE e.e = "lit" -> Normal(e.value, m)
      [] e.e = "spread" -> Eval(e.of, env, m)
      [] e.e = "var" -> Normal(Lookup(env, e.name, m), m)
      [] e.e = "this" -> Normal(Lookup(env, "this", m), m)
      [] e.e = "assign" -> Then(Eval(e.value, env, m), LAMBDA v, m1 : Normal(v, Stored(env, e.name, v, m1)))
      [] e.e = "binary" ->
           Then(EvalAll(<<e.left, e.right>>, env, m), LAMBDA vs, m1 :
               Normal(Applied(e.op, vs[1], vs[2]), MetBy(e, vs[1], vs[2], m1)))
      [] e.e = "unary" ->
           Then(Eval(e.of, env, m), LAMBDA v, m1 :
               Normal(IF e.op = "NOT" THEN BoolVal(~ v.b) ELSE IntVal(- v.n), m1))
      [] e.e = "and" -> Then(Eval(e.left, env, m), LAMBDA v, m1 :
                            IF v.b THEN Eval(e.right, env, m1) ELSE Normal(v, m1))
      [] e.e = "or" -> Then(Eval(e.left, env, m), LAMBDA v, m1 :
                           IF v.b THEN Normal(v, m1) ELSE Eval(e.right, env, m1))
      [] e.e = "coalesce" -> Then(Eval(e.left, env, m), LAMBDA v, m1 :
                                 IF v = NilVal THEN Eval(e.right, env, m1) ELSE Normal(v, m1))
      [] e.e = "array" -> Then(EvalAll(e.elements, env, m), LAMBDA vs, m1 : Normal(ArrayVal(vs), m1))
      [] e.e = "index" -> Then(EvalAll(<<e.of, e.index>>, env, m), LAMBDA vs, m1 :
                              Normal(vs[1].elements[vs[2].n + 1], m1))
      [] e.e = "lambda" ->
           LET made == Made(Closure(e.params, IF e.block = None THEN <<>> ELSE <<e.block>>, e.result, env), m)
           IN  Normal(Newest(made), made)
      [] e.e = "call" -> Then(Eval(e.callee, env, m), LAMBDA f, m1 :
                             Then(EvalAll(e.args, env, m1), LAMBDA vs, m2 : Call(f, vs, m2)))
      [] e.e = "super" ->
           Then(EvalAll(e.args, env, m), LAMBDA vs, m1 :
               Call([v |-> "bound", this |-> Lookup(env, "this", m1),
                     id |-> m1.classes[Lookup(env, "super", m1).id][e.method]], vs, m1))
      [] e.e = "get" -> Then(Eval(e.of, env, m), LAMBDA o, m1 :
                            Normal(IF o = NilVal THEN NilVal ELSE Property(o, e.name, m1), m1))
      [] e.e = "set" ->
           Then(EvalAll(<<e.of, e.value>>, env, m), LAMBDA vs, m1 :
               Normal(vs[2], [m1 EXCEPT !.objects[vs[1].id].fields = (e.name :> vs[2]) @@ @]))
      [] e.e = "match" -> Then(Eval(e.value, env, m), LAMBDA v, m1 : EvalArms(e.arms, v, env, m1))

\* The first arm that matches, with what its pattern names.
Matches(arm, v, env, m) ==
    CASE arm.pattern = None -> Went(env, m)
      [] arm.pattern.e = "binding" ->
           IF v.v = "variant" /\ v.tag = arm.pattern.tag
             THEN DeclaredAll(env, arm.pattern.names, v.fields, m) ELSE Result("no", v, env, m)
      [] OTHER -> Then(Eval(arm.pattern, env, m), LAMBDA p, m1 :
                      IF Equals(v, p) THEN Went(env, m1) ELSE Result("no", v, env, m1))
EvalArms(arms, v, env, m) ==
    IF arms = <<>> THEN Normal(NilVal, m)
    ELSE Given(Matches(arms[1], v, env, m), LAMBDA r :
             IF r.c = "no" THEN EvalArms(Tail(arms), v, env, r.m)
                           ELSE After(r, LAMBDA inner, m1 : Eval(arms[1].result, inner, m1)))
ExecArms(arms, v, env, m) ==
    IF arms = <<>> THEN Went(env, m)
    ELSE Given(Matches(arms[1], v, env, m), LAMBDA r :
             IF r.c = "no" THEN ExecArms(Tail(arms), v, env, r.m)
                           ELSE After(r, LAMBDA inner, m1 : Exec(arms[1].body, inner, m1)))

\* A function's body: a return is its value, the end of it nil.
Returned(r) == IF r.c = "throw" THEN r ELSE Normal(r.value, r.m)
Run(closure, names, values, m) ==
    After(DeclaredAll(closure.env, names \o closure.params, values, m), LAMBDA env, m1 :
        IF closure.result # None THEN Eval(closure.result, env, m1)
                                 ELSE Returned(ExecAll(closure.body, env, m1)))
New(class, m) == [m EXCEPT !.objects = Append(@, [class |-> class, fields |-> <<>>])]
Call(f, args, m) ==
    CASE f.v = "closure" -> Run(m.closures[f.id], <<>>, args, m)
      [] f.v = "bound" -> Run(m.closures[f.id], <<"this">>, <<f.this>> \o args, m)
      [] f.v = "constructor" -> Normal(Variant(f.tag, args), m)
      [] f.v = "class" ->
           LET o == [v |-> "object", id |-> Len(m.objects) + 1]
           IN  IF ~ HasInit(m, f.id) THEN Normal(o, New(f.id, m))
               ELSE Then(Run(m.closures[m.classes[f.id]["init"]], <<"this">>, <<o>> \o args, New(f.id, m)),
                         LAMBDA v, m1 : Normal(o, m1))

\* Statements.  A block ends the names it declares.
ExecAll(stmts, env, m) ==
    FoldLeft(LAMBDA r, s : After(r, LAMBDA inner, m1 : Exec(s, inner, m1)), Went(env, m), stmts)
Scoped(env, r) == After(r, LAMBDA inner, m : Went(env, m))
While(s, env, m) ==
    Then(Eval(s.cond, env, m), LAMBDA v, m1 :
        IF v.b THEN After(Exec(s.body, env, m1), LAMBDA inner, m2 : While(s, env, m2)) ELSE Went(env, m1))
\* A variable of its own for each iteration.
For(s, elements, env, m) ==
    FoldLeft(LAMBDA r, v : After(r, LAMBDA e, m1 :
                 After(Declared(env, s.name, v, m1), LAMBDA inner, m2 : Scoped(env, Exec(s.body, inner, m2)))),
             Went(env, m), elements)

\* A returned call is a tail call unless there are finally bodies to run first.
Leaving(s, env, m) ==
    [m EXCEPT !.left = @ \/ (env.trying /\ s.value.e = "call" /\ ~ env.ending)]
Initializes(e, env, m) ==
    e.e = "call" /\ e.callee.e = "var" /\ Lookup(env, e.callee.name, m).v = "class"
    /\ HasInit(m, Lookup(env, e.callee.name, m).id)
Return(s, env, m) ==
    IF s.value = None THEN Result("return", NilVal, Nowhere, [m EXCEPT !.left = @ \/ env.trying])
    ELSE Then(Eval(s.value, env, MetIn("tail_initializer", ~ env.ending /\ Initializes(s.value, env, m),
                                       Leaving(s, env, m))),
              LAMBDA v, m1 : Result("return", v, Nowhere, [m1 EXCEPT !.left = @ \/ env.trying]))

Caught(s, env, r) ==
    IF r.c # "throw" THEN r
    ELSE After(Declared([env EXCEPT !.ending = @ \/ s.finally # None], s.name, r.value, r.m),
               LAMBDA inner, m1 : Given(Exec(s.catch, inner, m1), LAMBDA q :
                   [q EXCEPT !.m = MetIn("catch_throw", q.c = "throw" /\ s.finally # None, @)]))
\* However it was left; unless the finally body is left itself.
Finally(s, env, r) ==
    IF s.finally = None THEN r
    ELSE Given(Exec(s.finally, env, r.m), LAMBDA f : IF f.c = "normal" THEN [r EXCEPT !.m = f.m] ELSE f)
Try(s, env, m) ==
    Finally(s, env, Caught(s, env,
        Exec(s.body, [env EXCEPT !.trying = TRUE, !.ending = @ \/ s.finally # None], m)))

\* Functions and enums of the top level are known everywhere.
DeclareFunction(s, env, m) ==
    IF env.top THEN LET made == Made(Closure(s.params, s.body, None, env), m)
                    IN  Went(env, GlobalNow(s.name, Newest(made), made))
    ELSE After(Declared(env, s.name, ClosureVal(Len(m.closures) + 1), m), LAMBDA inner, m1 :
             Went(inner, Made(Closure(s.params, s.body, None, inner), m1)))
VariantValue(variant) ==
    IF variant.fields = 0 THEN Variant(variant.name, <<>>) ELSE [v |-> "constructor", tag |-> variant.name]
DeclareEnum(s, env, m) ==
    FoldLeft(LAMBDA r, variant : After(r, LAMBDA inner, m1 :
                 IF env.top THEN Went(inner, GlobalNow(variant.name, VariantValue(variant), m1))
                            ELSE Declared(inner, variant.name, VariantValue(variant), m1)),
             Went(env, m), s.variants)
\* A class has the methods of the one it extends, and its own.
DeclareClass(s, env, m) ==
    After(Declared(env, s.name, [v |-> "class", id |-> Len(m.classes) + 1], m), LAMBDA outer, m1 :
        After(IF s.extends = "" THEN Went(outer, m1)
              ELSE Declared(outer, "super", Lookup(env, s.extends, m1), m1), LAMBDA inner, m2 :
            LET first == Len(m2.closures)
                own == [name \in {s.methods[k].name : k \in DOMAIN s.methods} |->
                          first + CHOOSE k \in DOMAIN s.methods : s.methods[k].name = name]
                made == FoldLeft(LAMBDA n, d : Made(Closure(d.params, d.body, None, inner), n), m2, s.methods)
                inherited == IF s.extends = "" THEN <<>> ELSE m2.classes[Lookup(env, s.extends, m2).id]
            IN  Went(outer, [made EXCEPT !.classes = Append(@, own @@ inherited)])))

Exec(s, env, m) ==
    CASE s.s = "expr" -> Then(Eval(s.value, env, m), LAMBDA v, m1 : Went(env, m1))
      [] s.s = "print" -> Then(Eval(s.value, env, m), LAMBDA v, m1 :
                              Went(env, [m1 EXCEPT !.printed = Append(@, v)]))
      [] s.s = "let" -> IF s.value = None THEN Declared(env, s.name, NilVal, m)
                        ELSE Then(Eval(s.value, env, m), LAMBDA v, m1 : Declared(env, s.name, v, m1))
      [] s.s = "destructure" -> \* the initializer is evaluated once per name
           FoldLeft(LAMBDA r, k : After(r, LAMBDA e, m1 : Then(Eval(s.value, e, m1), LAMBDA v, m2 :
                        Declared(e, s.names[k],
                                 IF k = s.rest THEN ArrayVal(SubSeq(v.elements, k, Len(v.elements)))
                                               ELSE v.elements[k], m2))),
                    Went(env, m), [k \in DOMAIN s.names |-> k])
      [] s.s = "block" -> Scoped(env, ExecAll(s.body, [env EXCEPT !.top = FALSE], m))
      [] s.s = "if" -> Then(Eval(s.cond, env, m), LAMBDA v, m1 :
                           IF v.b THEN Exec(s.then, env, m1)
                           ELSE IF s.else = None THEN Went(env, m1) ELSE Exec(s.else, env, m1))
      [] s.s = "while" -> While(s, env, m)
      [] s.s = "for" -> Then(Eval(s.over, env, m), LAMBDA v, m1 : For(s, v.elements, env, m1))
      [] s.s = "fn" -> DeclareFunction(s, env, m)
      [] s.s = "return" -> Return(s, env, m)
      [] s.s = "match" -> Then(Eval(s.value, env, m), LAMBDA v, m1 : Scoped(env, ExecArms(s.arms, v, env, m1)))
      [] s.s = "try" -> Scoped(env, Try(s, env, m))
      [] s.s = "throw" -> Then(Eval(s.value, env, m), LAMBDA v, m1 : Raised(v, m1))
      [] s.s = "enum" -> DeclareEnum(s, env, m)
      [] s.s = "class" -> DeclareClass(s, env, m)

Meaning(program) ==
    Given(ExecAll(program, Within(<<>>, TRUE), EmptyStore), LAMBDA r :
        [printed |-> r.m.printed, ends |-> IF r.c = "throw" THEN "error" ELSE "done", met |-> r.m.met])
=============================================================================
