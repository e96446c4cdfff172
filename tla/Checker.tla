------------------------------- MODULE Checker -------------------------------
(***************************************************************************)
(* A line of source on its way from the type checker to the machine:       *)
(* typeCheck, which notes a type with every node; the bodies of generic    *)
(* instances; their lowering to classes; and a run of the code that was    *)
(* chosen by the notes, over values that are kinds.                        *)
(*                                                                         *)
(* A program grows by one statement of a pool at a time, so every program  *)
(* of up to MaxStatements is met.  Nodes that get a note have an id that is   *)
(* theirs in their statement.                                              *)
(***************************************************************************)
EXTENDS Natives, FiniteSets

CONSTANTS
    Pools,          \* the sets of statements that programs are written with
    MaxStatements,
    AnyKinds,       \* the kinds of values that are met where no type is known
    Exercised       \* the hazards programs may meet; each is described below

Hazards == {
    "int_as_float",       \* an int goes where a float is expected, unconverted
    "wildcard",           \* a value of unknown type, or type parameter, goes anywhere
    "no_value",           \* nil for want of an initializer or of a return
    "redeclared",         \* a second declaration in a scope, which the checker ignores
    "captured_narrowing", \* a function changes a variable its caller has narrowed
    "shared_body",        \* instances of one template choose different opcodes
    "mangled_names",      \* different instances of the same name
    "plain_superclass",   \* an instance is lowered before the class it extends
    "class_argument",     \* an instance at a class extends an instance at it
    "constructor_bound",  \* a constructor call, which does not look at bounds
    "thrown_value",       \* something else than a string is caught
    "missing_file"}       \* readFile, a string to the checker, of no file
ASSUME Exercised \subseteq Hazards /\ AnyKinds \subseteq Kinds

VARIABLES
    pool,       \* the statements of this program's kind
    phase,      \* "check", "bodies", "lower", "run", "done" or "rejected"
    size,       \* how many statements the program has
    checker,    \* the TypeChecker, and what it has noted
    next,       \* the instance whose bodies are next, or which is lowered next
    lowered,    \* the classes made of instances, in the order they are defined
    classes,    \* the classes the machine has, by name
    code,       \* the statements of the program, in order
    frames,     \* the machine's calls, script first
    uses,       \* what the last step took for what: pairs of a value and a type
    missing     \* the classes that were not there when they were looked up
vars == <<pool, phase, size, checker, next, lowered, classes, code, frames, uses, missing>>

NoType == TypeOf("none", "", <<>>)
NoExpr == [e |-> "none"]

-----------------------------------------------------------------------------
(* Symbols: [name, depth, type, const] (and, when it runs, [name, depth,   *)
(* value]), innermost last.                                                *)

Found(list, name) == {i \in DOMAIN list : list[i].name = name}
Lookup(list, name) == list[CHOOSE i \in Found(list, name) : \A j \in Found(list, name) : j <= i]
Trim(list, depth) == SelectSeq(list, LAMBDA s : s.depth # depth)

BeginScope(c) == [c EXCEPT !.depth = @ + 1]
\* Mutant: the names stay.
EndScopeKeeping(c) == [c EXCEPT !.depth = @ - 1]
EndScope(c) == [c EXCEPT !.syms = Trim(@, c.depth), !.depth = @ - 1]
\* The natives were defined first, below the globals of the prelude, whose scope is
\* outside the script's: a name of the script hides them.
Known(c, name) == Found(c.syms, name) # {} \/ name \in DOMAIN Declared
TypeNamed(c, name) == IF Found(c.syms, name) # {} THEN Lookup(c.syms, name).type ELSE Declared[name]
Constant(c, name) == IF Found(c.syms, name) # {} THEN Lookup(c.syms, name).const
                                                 ELSE name \in DOMAIN Declared
KindNamed(c, name) == IF Known(c, name) THEN TypeNamed(c, name).kind ELSE "none"

\* A name the scope already has keeps its first type.
Define(c, name, type, const) ==
    IF \E i \in Found(c.syms, name) : c.syms[i].depth = c.depth
      THEN [c EXCEPT !.again = TRUE]
      ELSE [c EXCEPT !.syms =
               Append(@, [name |-> name, depth |-> c.depth, type |-> type, const |-> const])]
DefineAll(c, names, types, const) ==
    FoldLeft(LAMBDA d, i : Define(d, names[i], types[i], const), c,
             [i \in DOMAIN names |-> i])

Failed(c) == [c EXCEPT !.failed = TRUE]
Unless(ok, c) == IF ok THEN c ELSE Failed(c)
Typed(t, c) == [t |-> t, c |-> c]
More(acc, r) == [ts |-> Append(acc.ts, r.t), c |-> r.c]
NoneYet(c) == [ts |-> <<>>, c |-> c]
\* F of a result that is computed once.
Given(r, F(_)) == F(r)
Wrong(c) == Typed(ErrorType, Failed(c))
Noted(c, id, t) == [c EXCEPT !.notes = (<<c.at, id>> :> t) @@ @]

Converts(c, s, t) == Assignable(s, t, [n \in DOMAIN c.decls |-> c.decls[n].interfaces],
                                [n \in DOMAIN c.decls |-> c.decls[n].stmt.variances])

-----------------------------------------------------------------------------
(* Annotations and instances (typechecker_resolve, typechecker_narrow).    *)

RECURSIVE Concrete(_)
Concrete(inst) == \A i \in DOMAIN inst.parts :
    LET a == inst.parts[i] IN ~ Wild(a) /\ a.kind # "error" /\ (a.kind = "inst" => Concrete(a))

Meets(c, arg, bound) ==
    arg.kind = "class" /\ \E i \in c.decls[arg.name].interfaces : Equal(i, TypeNamed(c, bound))
MeetBounds(c, bounds, args) == \A i \in DOMAIN bounds :
    bounds[i] = "" \/ (KindNamed(c, bounds[i]) = "interface" /\ Meets(c, args[i], bounds[i]))

RECURSIVE Resolve(_, _), Instance(_, _), Push(_, _), SuperOf(_, _)
ResolveAll(nodes, c) ==
    FoldLeft(LAMBDA acc, n : More(acc, Resolve(n, acc.c)), NoneYet(c), nodes)
Resolve(n, c) == Given(ResolveAll(n.parts, c), LAMBDA all :
    CASE n.kind = "none" -> Typed(UnknownType, c)
      [] n.kind = "simple" ->
           IF n.name \in Primitives THEN Typed(Primitive(n.name), c)
           ELSE IF KindNamed(c, n.name) \in {"class", "param", "inst", "interface"}
                  THEN Typed(TypeNamed(c, n.name), c)
                  ELSE Wrong(c)
      [] n.kind = "array" -> Typed(ArrayType(all.ts[1]), all.c)
      [] n.kind = "optional" -> Typed(OptionalType(all.ts[1]), all.c)
      [] n.kind = "union" -> Typed(UnionType(all.ts), all.c)
      [] n.kind = "function" -> Typed(FunctionType(Front(all.ts), Last(all.ts)), all.c)
      [] n.kind = "generic" ->
           IF KindNamed(c, n.name) # "template" \/ Len(all.ts) # Len(c.decls[n.name].stmt.typeParams)
             THEN Wrong(c)
             ELSE Instance(InstType(n.name, all.ts),
                           Unless(MeetBounds(all.c, c.decls[n.name].stmt.bounds, all.ts), all.c)))
Instance(inst, c) == Typed(inst, Push(inst, c))

\* pushGenericInst: once each, and after the instance it extends.
\* Mutant: an instance is known by its template.
PushedTemplate(c, inst) == \E i \in DOMAIN c.insts : c.insts[i].name = inst.name
Pushed(c, inst) == \E i \in DOMAIN c.insts : Equal(c.insts[i], inst)
SuperOf(inst, c) ==
    LET d == c.decls[inst.name].stmt
    IN  IF d.extends = NoNode THEN Typed(NoType, c)
        ELSE Resolve(SubstituteNode(d.extends, d.typeParams, inst.parts), c)
\* Mutant: the instance it extends is left for later.
PushAlone(inst, c) ==
    IF Pushed(c, inst) \/ ~ Concrete(inst) THEN c ELSE [c EXCEPT !.insts = Append(@, inst)]
Push(inst, c) ==
    IF Pushed(c, inst) \/ ~ Concrete(inst) THEN c
    ELSE Given(SuperOf(inst, c), LAMBDA super :
           [(IF super.t.kind = "inst" THEN Push(super.t, super.c) ELSE super.c)
              EXCEPT !.insts = Append(@, inst)])

\* applyTypeNarrowing, for a guard [name, kind, positive].
\* Mutant: any guard that fails takes nil away.
NarrowedAnyway(t, guard) ==
    CASE t.kind \notin {"union", "optional"} -> NoType
      [] guard.positive -> Primitive(guard.kind)
      [] OTHER -> IF t.kind = "optional" THEN t.parts[1] ELSE NoType
Narrowed(t, guard) ==
    LET rest == SelectSeq(t.parts, LAMBDA m : ~ Equal(m, Primitive(guard.kind)))
    IN  CASE t.kind \notin {"union", "optional"} -> NoType
          [] guard.positive -> Primitive(guard.kind)
          [] t.kind = "optional" -> IF guard.kind = "nil" THEN t.parts[1] ELSE NoType
          [] OTHER -> IF rest = <<>> THEN NoType
                      ELSE IF Len(rest) = 1 THEN rest[1] ELSE UnionType(rest)
Narrow(c, guard) ==
    Given(IF Known(c, guard.name) THEN Narrowed(TypeNamed(c, guard.name), guard) ELSE NoType,
          LAMBDA t : IF t = NoType THEN c ELSE Define(c, guard.name, t, Constant(c, guard.name)))

-----------------------------------------------------------------------------
(* Expressions (typechecker_expr).  Each gives a type and the checker.     *)

\* checkBinary: the type that chooses the opcode.
Combined(op, l, r) ==
    CASE "error" \in {l.kind, r.kind} -> ErrorType
      [] Wild(l) \/ Wild(r) -> UnknownType
      [] l.kind = "int" /\ r.kind = "int" -> IntType
      [] IsNumeric(l) /\ IsNumeric(r) -> FloatType
      [] op = "+" /\ l.kind = "string" /\ r.kind = "string" -> StringType
      [] OTHER -> ErrorType
\* checkNullCoalesce: the type, or an error beside it.
Coalesced(c, l, r) ==
    LET inner == l.parts[1]
    IN  CASE l.kind = "optional" /\ r.kind = "optional" ->
               Typed(r, Unless(Equal(inner, r.parts[1]) \/
                               "unknown" \in {inner.kind, r.parts[1].kind}, c))
          [] l.kind = "optional" /\ r.kind # "optional" ->
               Typed(inner, Unless(Converts(c, r, inner), c))
          [] l.kind = "nil" -> Typed(r, c)
          [] OTHER -> Typed(IF l.kind = "unknown" THEN r ELSE l,
                            Unless(l.kind = "unknown" \/ Converts(c, r, l), c))
Comparable(t, kind) ==
    Wild(t) \/ t.kind = kind \/ t.kind = "optional" \/
    (t.kind = "union" /\ InUnion(Primitive(kind), t))

\* checkSuper: the method as this class inherits it, for these arguments.
Inherited(c, method) ==
    LET super == c.decls[c.class].super
        d == c.decls[super.name]
        found == {i \in DOMAIN d.stmt.methods : d.stmt.methods[i].name = method}
        type == d.types[CHOOSE i \in found : TRUE]
        seen == IF super.kind = "inst" THEN Substitute(type, super.parts) ELSE type
    IN  IF c.class = "" \/ super.kind \notin {"class", "inst"} \/ found = {} THEN ErrorType
        ELSE IF c.this.kind = "inst" THEN Substitute(seen, c.this.parts) ELSE seen

RECURSIVE Check(_, _)
CheckAll(es, c) ==
    FoldLeft(LAMBDA acc, e : More(acc, Check(e, acc.c)), NoneYet(c), es)
\* checkCall, once the type of the callee is known.
Called(callee, values, c) == Given(CheckAll(values, c), LAMBDA all :
    CASE callee.kind \in {"class", "inst", "unknown"} -> Typed(callee, all.c)
      [] callee.kind = "function" ->
           IF Len(values) # Len(Params(callee)) THEN Wrong(c)
           ELSE Typed(Result(callee),
                      Unless(\A i \in DOMAIN values :
                                Converts(all.c, all.ts[i], Params(callee)[i]), all.c))
      [] OTHER -> Wrong(c))
\* The constructor of a template does not look at the bounds of its parameters.
Constructed(e, c) ==
    IF Len(e.args) # Len(c.decls[e.name].stmt.typeParams) THEN Wrong(c)
    ELSE Given(ResolveAll(e.args, c), LAMBDA all :
           LET met == MeetBounds(c, c.decls[e.name].stmt.bounds, all.ts)
           IN  Instance(InstType(e.name, all.ts), [all.c EXCEPT !.unbound = @ \/ ~ met]))
Unchecked(e, c) ==
    CASE e.e = "lit" -> Typed(Primitive(e.kind), c)
      [] e.e = "any" -> Typed(UnknownType, c)
      [] e.e = "flip" -> Typed(BoolType, c)
      [] e.e = "var" -> IF Known(c, e.name) THEN Typed(TypeNamed(c, e.name), c) ELSE Wrong(c)
      [] e.e = "guard" ->
           IF ~ Known(c, e.name) THEN Wrong(c)
           ELSE IF e.kind = "nil" /\ ~ Comparable(TypeNamed(c, e.name), "nil") THEN Wrong(c)
           ELSE Typed(BoolType, Noted(c, e.id, TypeNamed(c, e.name)))
      [] e.e = "assign" ->
           IF ~ Known(c, e.name) \/ Constant(c, e.name) THEN Wrong(c)
           ELSE Given(Check(e.value, c), LAMBDA r :
                  IF Converts(r.c, r.t, TypeNamed(c, e.name))
                    THEN Typed(TypeNamed(c, e.name), r.c) ELSE Wrong(r.c))
      [] e.e \in {"binary", "coalesce"} ->
           Given(CheckAll(<<e.left, e.right>>, c), LAMBDA both :
             IF e.e = "coalesce" THEN Coalesced(both.c, both.ts[1], both.ts[2])
             ELSE Given(Combined(e.op, both.ts[1], both.ts[2]), LAMBDA t :
                          Typed(t, Unless(t.kind # "error", both.c))))
      [] e.e = "new" ->
           IF KindNamed(c, e.name) = "template" THEN Constructed(e, c) ELSE Wrong(c)
      [] e.e \in {"call", "super"} /\ (e.e = "call" => Known(c, e.name)) ->
           Called(IF e.e = "call" THEN TypeNamed(c, e.name) ELSE Inherited(c, e.method), e.values, c)
      [] e.e = "invoke" ->
           Given(CheckAll(<<e.object>> \o e.values, c), LAMBDA all :
             IF all.ts[1].kind \in {"class", "inst", "unknown"} THEN Typed(UnknownType, all.c)
                                                                 ELSE Wrong(c))
      [] OTHER -> Wrong(c)
\* checkExpr: the node keeps its type.
Check(e, c) == Given(Unchecked(e, c), LAMBDA r :
    IF e.e \in {"lit", "flip", "guard"} THEN r ELSE Typed(r.t, Noted(r.c, e.id, r.t)))

-----------------------------------------------------------------------------
(* Statements (typechecker_stmt).                                          *)

RECURSIVE CheckStmt(_, _)
CheckStmts(body, c) == FoldLeft(LAMBDA d, s : CheckStmt(s, d), c, body)
CheckBlock(body, c) == EndScope(CheckStmts(body, BeginScope(c)))

Signature(f, c) == Given(ResolveAll(f.types, c), LAMBDA params :
    Given(IF f.result = NoNode THEN Typed(NilType, params.c) ELSE Resolve(f.result, params.c),
          LAMBDA result : Typed(FunctionType(params.ts, result.t), result.c)))
TypeParams(c, names) ==
    DefineAll(c, names, [i \in DOMAIN names |-> ParamType(names[i], i)], TRUE)

\* The body of a function or method, with names already in scope.
CheckBody(f, type, c) ==
    [EndScope(CheckBlock(f.body, DefineAll(BeginScope([c EXCEPT !.ret = Result(type)]),
                                           f.params, Params(type), FALSE)))
       EXCEPT !.ret = c.ret]

\* checkFunctionStmt: the signature in a scope of its own, and the body in another.
CheckFunction(f, c) ==
    Given(Signature(f, TypeParams(BeginScope(c), f.typeParams)), LAMBDA sig :
      Given(Define(EndScope(sig.c), f.name, sig.t, TRUE), LAMBDA d :
        EndScope(CheckBody(f, sig.t, TypeParams(BeginScope(
          [d EXCEPT !.fns = (f.name :> [stmt |-> f, at |-> c.at, type |-> sig.t]) @@ @]),
          f.typeParams)))))

\* classStmtSatisfiesInterface and verifyImplementsForInstantiation.
Provides(d, interface, args) ==
    \A i \in DOMAIN interface.parts : \E j \in DOMAIN d.stmt.methods :
        /\ d.stmt.methods[j].name = interface.parts[i].name
        /\ Equal(Substitute(d.types[j], args), interface.parts[i].parts[1])
Implemented(c, s) == {TypeNamed(c, n) : n \in
    {s.implements[i] : i \in {j \in DOMAIN s.implements : KindNamed(c, s.implements[j]) = "interface"}}}
\* Mutant: only the names of the interfaces are checked.
ImplementingByName(c, s, args) ==
    Unless(Cardinality(Implemented(c, s)) = Len(s.implements), c)
Implementing(c, s, args) ==
    Unless(Cardinality(Implemented(c, s)) = Len(s.implements) /\
           \A i \in Implemented(c, s) : Provides(c.decls[s.name], i, args), c)

Signatures(fs, c) ==
    FoldLeft(LAMBDA acc, f : More(acc, Signature(f, acc.c)), NoneYet(c), fs)
Decl(c, s) == [stmt |-> s, at |-> c.at, super |-> NoType, types |-> <<>>, interfaces |-> {}]
Declare(c, d) == [c EXCEPT !.decls = (d.stmt.name :> d) @@ @]

Extended(s, c) == IF s.extends = NoNode THEN Typed(NoType, c) ELSE Resolve(s.extends, c)

CheckTemplate(s, c) ==
    Given(Signatures(s.methods, TypeParams(
            BeginScope(Define(Declare(c, Decl(c, s)), s.name, TemplateType(s.name), TRUE)),
            s.typeParams)), LAMBDA sigs :
      Given(Extended(s, sigs.c), LAMBDA super :
        EndScope(Declare(super.c, [Decl(c, s) EXCEPT !.super = super.t, !.types = sigs.ts]))))

CheckMethod(class, m, c) == Given(Signature(m, c), LAMBDA sig :
    CheckBody(m, sig.t, [sig.c EXCEPT !.decls[class].types = Append(@, sig.t)]))
CheckClass(s, c) ==
    Given(Extended(s, Define(Declare(c, Decl(c, s)), s.name, ClassType(s.name), TRUE)), LAMBDA super :
      Given(FoldLeft(LAMBDA d, m : CheckMethod(s.name, m, d),
                     [Declare(super.c, [Decl(c, s) EXCEPT !.super = super.t])
                        EXCEPT !.this = ClassType(s.name), !.class = s.name],
                     s.methods), LAMBDA d :
        [Implementing([d EXCEPT !.decls[s.name].interfaces = Implemented(d, s)], s, <<>>)
           EXCEPT !.this = c.this, !.class = c.class]))

CheckInterface(s, c) == Given(Signatures(s.methods, c), LAMBDA sigs :
    Define(sigs.c, s.name,
           InterfaceType(s.name, [i \in DOMAIN s.methods |->
                                    [name |-> s.methods[i].name, type |-> sigs.ts[i]]]), TRUE))

CheckLet(s, c) == Given(Resolve(s.type, c), LAMBDA declared :
    IF s.init = NoExpr
      THEN Define(Noted(Unless(s.type # NoNode, declared.c), s.id, declared.t),
                  s.name, declared.t, s.const)
      ELSE Given(Check(s.init, declared.c), LAMBDA init :
             Given(IF s.type # NoNode THEN declared.t ELSE init.t, LAMBDA t :
               Define(Noted(Unless(s.type = NoNode \/ Converts(init.c, init.t, t), init.c), s.id, t),
                      s.name, t, s.const))))
\* A branch of an if: positive says which, and if the condition is a guard it narrows.
Under(body, cond, positive, c) == EndScope(CheckStmts(body,
    IF cond.e = "guard" THEN Narrow(BeginScope(c), [cond EXCEPT !.positive = (@ = positive)])
                        ELSE BeginScope(c)))
CheckIf(s, c) == Given(Check(s.cond, c), LAMBDA cond :
    Under(s.else, s.cond, FALSE,
          Under(s.then, s.cond, TRUE, Unless(cond.t.kind = "bool", cond.c))))
\* Anything may be thrown; what is caught is a string.
CheckTry(s, c) ==
    EndScope(CheckBlock(s.catch,
        Define(BeginScope(CheckBlock(s.body, c)), s.name, StringType, FALSE)))
CheckReturn(s, c) ==
    Given(IF s.value = NoExpr THEN Typed(NilType, c) ELSE Check(s.value, c), LAMBDA r :
      IF c.ret = NoType THEN Failed(c)
      ELSE Unless(r.t.kind = "unknown" \/ Converts(r.c, r.t, c.ret), r.c))
CheckStmt(s, c) ==
    CASE s.s = "expr" -> Check(s.value, c).c
      [] s.s = "let" -> CheckLet(s, c)
      [] s.s = "block" -> CheckBlock(s.body, c)
      [] s.s = "if" -> CheckIf(s, c)
      [] s.s = "while" ->
           CheckBlock(s.body, Given(Check(s.cond, c), LAMBDA cond :
                                      Unless(cond.t.kind = "bool", cond.c)))
      [] s.s = "fn" -> CheckFunction(s, c)
      [] s.s = "return" -> CheckReturn(s, c)
      [] s.s = "try" -> CheckTry(s, c)
      [] s.s = "throw" -> Check(s.value, c).c
      [] s.s = "interface" -> CheckInterface(s, c)
      [] s.s = "class" -> IF s.typeParams # <<>> THEN CheckTemplate(s, c) ELSE CheckClass(s, c)

\* checkGenericInstanceBodies, for one instance: the template's own statements, with
\* the types of the instance.
CheckInstance(inst, c) ==
    LET d == c.decls[inst.name]
        Method(e, i) == EndScope(CheckBody(d.stmt.methods[i], Substitute(d.types[i], inst.parts),
                                           Define(BeginScope(e), "this", inst, FALSE)))
    IN  [Implementing(FoldLeft(Method, [c EXCEPT !.this = inst, !.class = inst.name, !.at = d.at],
                               [i \in DOMAIN d.stmt.methods |-> i]), d.stmt, inst.parts)
           EXCEPT !.this = c.this, !.class = c.class, !.at = c.at]

-----------------------------------------------------------------------------
(* Values are kinds; an object also has the name of its class.  Code is a  *)
(* sequence of statements with the place, at, their notes are kept under.  *)

NoClass == <<>>
Value(kind) == [kind |-> kind, class |-> NoClass]
Object(class) == [kind |-> "object", class |-> class]
Nil == Value("nil")
AnyValues == {Value(kind) : kind \in AnyKinds}
ClassName(t) == IF t.kind = "inst" THEN Mangled(t) ELSE <<t.name>>

RECURSIVE Fits(_, _)
Fits(v, t) ==
    CASE t.kind \in Primitives -> v.kind = t.kind
      [] t.kind = "optional" -> v = Nil \/ Fits(v, t.parts[1])
      [] t.kind = "union" -> \E i \in DOMAIN t.parts : Fits(v, t.parts[i])
      [] t.kind \in {"class", "inst"} -> v = Object(ClassName(t))
      [] t.kind = "number" -> v.kind \in {"int", "float"}
      [] t.kind = "interface" ->
           v.kind = "object" /\ v.class \in DOMAIN classes /\
           LET class == classes[v.class]
           IN  Provides(checker.decls[class.decl], t, class.args)
      [] OTHER -> TRUE

Items(at, body) == [i \in DOMAIN body |-> [at |-> at, s |-> body[i]]]
\* Leaves a scope, in which a variable may have been narrowed.
Leave(name) == <<[at |-> 0, s |-> [s |-> "end", name |-> name]]>>

Note(at, id) == checker.notes[<<at, id>>]
Static(at, e) == CASE e.e = "lit" -> Primitive(e.kind) [] e.e = "flip" -> BoolType
                   [] OTHER -> Note(at, e.id)

top == Last(frames)
item == Head(top.code)
Rest == [top EXCEPT !.code = Tail(@)]
With(f) == Append(Front(frames), f)

\* A variable of the call, or of the script around it.
Read(name) == IF Found(top.env, name) # {} THEN Lookup(top.env, name).value
              ELSE Lookup(SelectSeq(frames[1].env, LAMBDA b : b.depth = 0), name).value

\* What an opcode takes its operands for: AS_INT, AS_FLOAT, AS_STRING or AS_NUMBER.
Operand(t) == IF t.kind = "unknown" THEN NumberType ELSE t
RECURSIVE Eval(_, _, _)
Eval(e, at, any) ==
    CASE e.e = "lit" -> [v |-> Value(e.kind), uses |-> {}]
      [] e.e = "any" -> [v |-> any, uses |-> {}]
      [] e.e = "var" -> [v |-> Read(e.name), uses |-> {<<Read(e.name), Note(at, e.id)>>}]
      [] e.e = "binary" ->
           LET l == Eval(e.left, at, any)
               r == Eval(e.right, at, any)
               t == Note(at, e.id)
           IN  [v |-> Value(IF t.kind = "unknown" THEN "float" ELSE t.kind),
                uses |-> l.uses \cup r.uses \cup {<<l.v, Operand(t)>>, <<r.v, Operand(t)>>}]
      [] e.e = "coalesce" ->
           LET l == Eval(e.left, at, any)
               r == Eval(e.right, at, any)
           IN  IF l.v = Nil THEN [r EXCEPT !.uses = @ \cup l.uses] ELSE l

\* May v, which the checker took for a source, be kept where a target is expected?
Kept(v, source, target) ==
    \/ Fits(v, target)
    \/ /\ Wild(source) => "wildcard" \in Exercised
       /\ v.kind = "int" /\ source.kind = "int" => "int_as_float" \in Exercised
       /\ v = Nil /\ source = NoType => "no_value" \in Exercised

-----------------------------------------------------------------------------
(* From source to classes.                                                 *)

NewChecker == [syms |-> <<>>, depth |-> 0, ret |-> NoType, this |-> NoType, class |-> "",
               failed |-> FALSE, again |-> FALSE, unbound |-> FALSE, insts |-> <<>>,
               decls |-> <<>>, fns |-> <<>>, notes |-> <<>>, at |-> 0]
Drop == [how |-> "drop", name |-> "", type |-> UnknownType, source |-> NoType]
Script == [code |-> <<>>, env |-> <<>>, depth |-> 0, class |-> NoClass, ret |-> NoType,
           into |-> Drop]

Init ==
    /\ pool \in Pools
    /\ phase = "check" /\ size = 0 /\ checker = NewChecker /\ next = 1
    /\ lowered = <<>> /\ classes = <<>> /\ code = <<>> /\ frames = <<Script>>
    /\ uses = {} /\ missing = {}

Met(hazard, caused) == caused => hazard \in Exercised
\* Are the arguments ones that typeToTypeNode has a node for, all the way down?
Nameable(t) == \A i \in DOMAIN t.parts : LET a == t.parts[i]
    IN  a.kind \in Primitives \/ (a.kind = "inst" /\ \A j \in DOMAIN a.parts : ToNode(a.parts[j]) # NoNode)
DistinctNames(c) == IsInjective([i \in DOMAIN c.insts |-> Mangled(c.insts[i])])

\* A line that does not type check is freed.
Checked(c) ==
    /\ Met("redeclared", c.again) /\ Met("constructor_bound", c.unbound)
    /\ Met("mangled_names", ~ DistinctNames(c))
    /\ \A i \in DOMAIN c.insts : LET d == c.decls[c.insts[i].name]
       IN  /\ Met("plain_superclass", d.super.kind = "class")
           /\ Met("class_argument", d.super.kind = "inst" /\ ~ Nameable(c.insts[i]))
    /\ IF c.failed THEN phase' = "rejected" /\ checker' = NewChecker /\ code' = <<>>
                   ELSE checker' = c

Write == \E s \in pool :
    /\ phase = "check" /\ size < MaxStatements
    /\ \E c \in {CheckStmt(s, [checker EXCEPT !.at = size + 1])} :
          /\ Checked(c)
          /\ ~ c.failed => phase' = phase /\ code' = code \o Items(size + 1, <<s>>)
    /\ size' = size + 1
    /\ UNCHANGED <<pool, next, lowered, classes, frames, uses, missing>>
Submit ==
    /\ phase = "check" /\ size > 0
    /\ phase' = "bodies"
    /\ UNCHANGED <<pool, size, checker, next, lowered, classes, code, frames, uses, missing>>

CheckInstanceBodies ==
    /\ phase = "bodies"
    /\ IF next > Len(checker.insts)
         THEN phase' = "lower" /\ next' = 1 /\ UNCHANGED <<checker, code>>
         ELSE \E c \in {CheckInstance(checker.insts[next], checker)} :
                  /\ Met("shared_body", \E n \in DOMAIN checker.notes : c.notes[n] # checker.notes[n])
                  /\ Checked(c)
                  /\ ~ c.failed => UNCHANGED <<phase, code>>
                  /\ next' = IF c.failed THEN 1 ELSE next + 1
    /\ UNCHANGED <<pool, size, lowered, classes, frames, uses, missing>>

\* lowerOneInstance.  Methods keep the template's bodies; the superclass is resolved
\* again, in the scope of the script.
LowerInstance ==
    /\ phase = "lower" /\ next <= Len(checker.insts)
    /\ \E super \in {SuperOf(checker.insts[next], checker)} :
          /\ lowered' = Append(lowered, [inst |-> checker.insts[next], super |-> super.t])
          /\ checker' = super.c
    /\ next' = next + 1
    /\ UNCHANGED <<pool, phase, size, classes, code, frames, uses, missing>>
Start ==
    /\ phase = "lower" /\ next > Len(checker.insts)
    /\ phase' = "run" /\ frames' = <<[Script EXCEPT !.code = code]>> /\ code' = <<>>
    /\ UNCHANGED <<pool, size, checker, next, lowered, classes, uses, missing>>

\* OP_CLASS and OP_INHERIT: a superclass is looked up when the class is made.
Made(name, decl, super, args) ==
    /\ classes' = (name :> [decl |-> decl, super |-> super, args |-> args]) @@ classes
    /\ missing' = IF super = NoType \/ ClassName(super) \in DOMAIN classes THEN missing
                  ELSE missing \cup {ClassName(super)}
MakeLowered ==
    /\ phase = "run" /\ lowered # <<>>
    /\ LET l == Head(lowered) IN Made(Mangled(l.inst), l.inst.name, l.super, l.inst.parts)
    /\ lowered' = Tail(lowered)
    /\ UNCHANGED <<pool, phase, size, checker, next, code, frames, uses>>

-----------------------------------------------------------------------------
(* The run.                                                                *)

Running == phase = "run" /\ lowered = <<>>
Next1(fs) == frames' = fs /\ UNCHANGED <<pool, phase, size, checker, next, lowered, code>>
Quiet == UNCHANGED <<classes, missing>>

\* What a statement computes, and where the value goes.
Computed(s) == IF s.s = "let" THEN s.init ELSE IF s.value.e = "assign" THEN s.value.value ELSE s.value
Into(at, s) ==
    CASE s.s = "let" -> [how |-> "let", name |-> s.name, type |-> Note(at, s.id), source |-> NoType]
      [] s.s = "expr" /\ s.value.e = "assign" ->
           [how |-> "set", name |-> s.value.name, type |-> Note(at, s.value.id), source |-> NoType]
      [] OTHER -> Drop
Replaced(env, name, v) ==
    LET last == CHOOSE i \in Found(env, name) : \A j \in Found(env, name) : j <= i
    IN  [env EXCEPT ![last].value = v]
Delivered(fs, into, v) ==
    LET n == Len(fs)
    IN  CASE into.how = "let" -> [fs EXCEPT ![n].env =
                  Append(@, [name |-> into.name, depth |-> fs[n].depth, value |-> v])]
          [] into.how = "set" ->
               IF Found(fs[n].env, into.name) # {}
                 THEN [fs EXCEPT ![n].env = Replaced(@, into.name, v)]
                 ELSE [fs EXCEPT ![1].env = Replaced(@, into.name, v)]
          [] OTHER -> fs
\* A call may not change what a caller has narrowed.
NarrowedBelow(name) == \E n \in 1 .. Len(frames) - 1 : \E i \in DOMAIN frames[n].code :
    frames[n].code[i].s.s = "end" /\ frames[n].code[i].s.name = name
Stores(n, into, source, v) ==
    /\ Kept(v, source, into.type)
    /\ Met("captured_narrowing",
           into.how = "set" /\ Found(frames[n].env, into.name) = {} /\ NarrowedBelow(into.name))
Careful(used) == \A u \in used :
    /\ Met("wildcard", u[2] = NumberType /\ ~ Fits(u[1], u[2]))
    /\ Met("int_as_float", u[2] = FloatType /\ u[1].kind = "int")

Calls == {"new", "call", "invoke", "super"}
Compute ==
    /\ Running /\ top.code # <<>> /\ item.s.s \in {"let", "expr"}
    /\ LET e == Computed(item.s)
           into == Into(item.at, item.s)
       IN  /\ e.e \notin Calls
           /\ \E any \in AnyValues :
                LET r == IF e = NoExpr THEN [v |-> Nil, uses |-> {}] ELSE Eval(e, item.at, any)
                    source == IF e = NoExpr THEN NoType ELSE Static(item.at, e)
                IN  /\ Stores(Len(frames), into, source, r.v) /\ Careful(r.uses)
                    /\ uses' = r.uses
                    /\ Next1(Delivered(With(Rest), into, r.v))
    /\ Quiet

\* A call to name a class: the object, before any initializer.
IsClass(e) == e.e = "new" \/ (e.e = "call" /\ e.name \in DOMAIN checker.decls)
Construct ==
    /\ Running /\ top.code # <<>> /\ item.s.s \in {"let", "expr"}
    /\ LET e == Computed(item.s)
           into == Into(item.at, item.s)
       IN  /\ e.e \in Calls /\ IsClass(e)
           /\ LET t == Note(item.at, e.id)
              IN  /\ Stores(Len(frames), into, t, Object(ClassName(t)))
                  /\ missing' = missing \cup ({ClassName(t)} \ DOMAIN classes)
                  /\ Next1(Delivered(With(Rest), into, Object(ClassName(t))))
    /\ uses' = {} /\ UNCHANGED classes

\* callValue of an ObjNative: its arguments are values already on the stack.
IsNative(e) == e.e = "call" /\ e.name \in DOMAIN Declared \ DOMAIN checker.fns
CallNative ==
    /\ Running /\ top.code # <<>> /\ item.s.s \in {"let", "expr"}
    /\ LET e == Computed(item.s)
           into == Into(item.at, item.s)
       IN  /\ e.e \in Calls /\ IsNative(e)
           /\ \E any \in AnyValues :
              \E args \in {[i \in DOMAIN e.values |-> Eval(e.values[i], item.at, any)]} :
              \E kinds \in {[i \in DOMAIN args |-> args[i].v.kind]} :
              \E kind \in Results(e.name, kinds) :
                /\ \A i \in DOMAIN args :
                      Kept(args[i].v, Static(item.at, e.values[i]), Params(Declared[e.name])[i])
                /\ Met("missing_file", e.name = "readFile" /\ kind = "nil")
                /\ Stores(Len(frames), into, Note(item.at, e.id), Value(kind))
                /\ uses' = {<<args[i].v, Taken(e.name, kinds)[i]>> : i \in DOMAIN Taken(e.name, kinds)}
                           \cup UNION {args[i].uses : i \in DOMAIN args}
                /\ Careful(uses')
                /\ Next1(Delivered(With(Rest), into, Value(kind)))
    /\ Quiet

RECURSIVE FindMethod(_, _)
FindMethod(class, method) ==
    LET c == classes[class]
        d == checker.decls[c.decl]
        own == {i \in DOMAIN d.stmt.methods : d.stmt.methods[i].name = method}
    IN  IF own # {} THEN LET i == CHOOSE j \in own : TRUE
                         IN  [stmt |-> d.stmt.methods[i], at |-> d.at, class |-> class,
                              type |-> Substitute(d.types[i], c.args)]
        ELSE IF c.super = NoType THEN [stmt |-> NoExpr] ELSE FindMethod(ClassName(c.super), method)
\* What is called, with the lexical class of its body.
Callee(e) ==
    CASE e.e = "call" -> LET f == checker.fns[e.name]
                         IN  [stmt |-> f.stmt, at |-> f.at, class |-> NoClass, type |-> f.type]
      [] e.e = "invoke" -> FindMethod(Read(e.object.name).class, e.method)
      [] e.e = "super" -> FindMethod(ClassName(classes[top.class].super), e.method)

Call ==
    /\ Running /\ top.code # <<>> /\ item.s.s \in {"let", "expr"}
    /\ LET e == Computed(item.s)
           f == Callee(e)
           into == [Into(item.at, item.s) EXCEPT !.source = Note(item.at, e.id)]
       IN  /\ e.e \in Calls /\ ~ IsClass(e) /\ ~ IsNative(e)
           /\ \E any \in AnyValues :
                LET args == [i \in DOMAIN e.values |-> Eval(e.values[i], item.at, any)]
                    env == [i \in DOMAIN args |->
                              [name |-> f.stmt.params[i], depth |-> 0, value |-> args[i].v]]
                    source(i) == IF e.e = "invoke" THEN UnknownType ELSE Static(item.at, e.values[i])
                IN  /\ \A i \in DOMAIN args : Kept(args[i].v, source(i), Params(f.type)[i])
                    /\ uses' = UNION {args[i].uses : i \in DOMAIN args} /\ Careful(uses')
                    /\ Next1(Append(With([Rest EXCEPT !.into = into]),
                          [code |-> Items(f.at, f.stmt.body), env |-> env, depth |-> 0,
                           class |-> f.class, ret |-> Result(f.type),
                           into |-> Drop]))
    /\ Quiet

\* OP_RETURN, for a return or at the end of the body; source is the type of v.
Returned(v, source) ==
    LET n == Len(frames) - 1
    IN  /\ Kept(v, source, top.ret)
        /\ Stores(n, frames[n].into, frames[n].into.source, v)
        /\ Next1(Delivered([Front(frames) EXCEPT ![n].into = Drop], frames[n].into, v))
Return ==
    /\ Running /\ Len(frames) > 1 /\ top.code # <<>> /\ item.s.s = "return"
    /\ \E any \in AnyValues :
         LET e == item.s.value
             r == IF e = NoExpr THEN [v |-> Nil, uses |-> {}] ELSE Eval(e, item.at, any)
         IN  /\ Returned(r.v, IF e = NoExpr THEN NilType ELSE Static(item.at, e))
             /\ uses' = r.uses /\ Careful(r.uses)
    /\ Quiet
FallOff ==
    /\ Running /\ Len(frames) > 1 /\ top.code = <<>>
    /\ Returned(Nil, NoType)
    /\ uses' = {} /\ Quiet

Entered(at, body, name) ==
    With([Rest EXCEPT !.depth = @ + 1, !.code = Items(at, body) \o Leave(name) \o @])
Branch ==
    /\ Running /\ top.code # <<>> /\ item.s.s = "if"
    /\ LET cond == item.s.cond
           guarded == cond.e = "guard"
           v == Read(cond.name)
           holds == (v.kind = cond.kind) = cond.positive
       IN  /\ \E taken \in IF guarded THEN {holds} ELSE BOOLEAN :
                Next1(Entered(item.at, IF taken THEN item.s.then ELSE item.s.else,
                              IF guarded THEN cond.name ELSE ""))
           /\ uses' = IF guarded THEN {<<v, Note(item.at, cond.id)>>} ELSE {}
    /\ Quiet
Loop ==
    /\ Running /\ top.code # <<>> /\ item.s.s = "while"
    /\ \/ Next1(With(Rest))
       \/ Next1(With([top EXCEPT !.depth = @ + 1,
                     !.code = Items(item.at, item.s.body) \o Leave("") \o @]))
    /\ uses' = {} /\ Quiet
Block ==
    /\ Running /\ top.code # <<>> /\ item.s.s = "block"
    /\ Next1(Entered(item.at, item.s.body, ""))
    /\ uses' = {} /\ Quiet
EndBlock ==
    /\ Running /\ top.code # <<>> /\ item.s.s = "end"
    /\ Next1(With([Rest EXCEPT !.env = Trim(@, top.depth), !.depth = @ - 1]))
    /\ uses' = {} /\ Quiet

\* OP_TRY and OP_TRY_END: the end of a try block marks its place in the code.
Try ==
    /\ Running /\ top.code # <<>> /\ item.s.s = "try"
    /\ Next1(With([Rest EXCEPT !.depth = @ + 1, !.code =
                  Items(item.at, item.s.body) \o Leave("") \o
                  <<[item EXCEPT !.s.s = "catch"]>> \o @]))
    /\ uses' = {} /\ Quiet
TryEnd ==
    /\ Running /\ top.code # <<>> /\ item.s.s = "catch"
    /\ Next1(With(Rest)) /\ uses' = {} /\ Quiet
\* OP_THROW: to the innermost catch, with the value in the place of its variable.
Catches(f) == {i \in DOMAIN f.code : f.code[i].s.s = "catch"}
Caught(f, v) ==
    LET i == CHOOSE j \in Catches(f) : \A k \in Catches(f) : j <= k
        left == Len(SelectSeq(SubSeq(f.code, 1, i), LAMBDA x : x.s.s = "end"))
        depth == f.depth - left
    IN  [f EXCEPT
           !.code = Items(f.code[i].at, f.code[i].s.catch) \o Leave("") \o SubSeq(@, i + 1, Len(@)),
           !.env = Append(SelectSeq(@, LAMBDA b : b.depth <= depth),
                          [name |-> f.code[i].s.name, depth |-> depth + 1, value |-> v]),
           !.depth = depth + 1, !.into = Drop]
Throw ==
    /\ Running /\ top.code # <<>> /\ item.s.s = "throw"
    /\ \E any \in AnyValues : \E r \in {Eval(item.s.value, item.at, any)} :
         /\ uses' = r.uses /\ Careful(r.uses)
         /\ Met("thrown_value", ~ Fits(r.v, StringType))
         /\ LET catching == {n \in DOMAIN frames : Catches(frames[n]) # {}}
                n == CHOOSE m \in catching : \A k \in catching : k <= m
            IN  IF catching = {}
                  THEN phase' = "done" /\
                       UNCHANGED <<pool, size, checker, next, lowered, code, frames>>
                  ELSE Next1(Append(SubSeq(frames, 1, n - 1), Caught(frames[n], r.v)))
    /\ Quiet

Declaration ==
    /\ Running /\ top.code # <<>> /\ item.s.s \in {"fn", "interface", "class"}
    /\ Next1(With(Rest)) /\ uses' = {}
    /\ IF item.s.s = "class" /\ item.s.typeParams = <<>>
         THEN Made(<<item.s.name>>, item.s.name, checker.decls[item.s.name].super, <<>>)
         ELSE Quiet

\* The end of the script.
Finish ==
    /\ Running /\ Len(frames) = 1 /\ top.code = <<>>
    /\ phase' = "done"
    /\ UNCHANGED <<pool, size, checker, next, lowered, classes, code, frames, uses, missing>>

Next ==
    \/ Write \/ Submit \/ CheckInstanceBodies \/ LowerInstance \/ Start \/ MakeLowered
    \/ Compute \/ Construct \/ CallNative \/ Call \/ Return \/ FallOff \/ Branch \/ Loop \/ Block
    \/ EndBlock \/ Try \/ TryEnd \/ Throw \/ Declaration \/ Finish

Spec == Init /\ [][Next]_vars

-----------------------------------------------------------------------------
(* Properties.                                                             *)

\* The shapes of the state.
TypeOK ==
    /\ phase \in {"check", "bodies", "lower", "run", "done", "rejected"}
    /\ size \in 0 .. MaxStatements /\ next \in 1 .. Len(checker.insts) + 1
    /\ checker.depth = 0 /\ checker.ret = NoType /\ checker.this = NoType
    /\ ~ checker.failed
    /\ \A i \in DOMAIN checker.syms : checker.syms[i].depth = 0
    /\ \A i \in DOMAIN frames : \A j \in DOMAIN frames[i].env :
          frames[i].env[j].depth \in 0 .. frames[i].depth

\* What the type checker promises the machine: whatever a program that checks reads
\* has the type it was read at, narrowed or not, and whatever an opcode takes for an
\* int, a float, a string or a number is one.
Sound == \A u \in uses : Fits(u[1], u[2])

\* Instances become classes once each, a superclass before what extends it, so no
\* constructor and no class statement looks for a class that is not there.
Position(inst) == {i \in DOMAIN checker.insts : Equal(checker.insts[i], inst)}
Lowered ==
    /\ missing = {}
    /\ DistinctNames(checker)
    /\ \A i \in DOMAIN checker.insts :
          /\ Position(checker.insts[i]) = {i} /\ Concrete(checker.insts[i])
          /\ LET super == Substitute(checker.decls[checker.insts[i].name].super,
                                     checker.insts[i].parts)
             IN  super.kind = "inst" => \E j \in Position(super) : j < i

\* lowerGenericClasses has room for the instances there were when it began: resolving
\* their superclasses again may not make another.
NoneAdded == [][phase = "lower" => checker'.insts = checker.insts]_vars

\* An argument of an instance has what its parameter's bound asks for: the methods of
\* that interface, with those types.  What an interface bounds is decided by name,
\* before the methods of the instance are looked at.
BoundsHold == \A i \in DOMAIN checker.insts :
    LET inst == checker.insts[i]
        bounds == checker.decls[inst.name].stmt.bounds
    IN  \A j \in DOMAIN bounds : bounds[j] # "" =>
            /\ inst.parts[j].kind = "class"
            /\ Provides(checker.decls[inst.parts[j].name], TypeNamed(checker, bounds[j]), <<>>)
=============================================================================
