------------------------------ MODULE Codegen -------------------------------
(***************************************************************************)
(* The compiler (codegen/): from the syntax tree of a checked program to   *)
(* the code of its functions.                                              *)
(*                                                                         *)
(* What a construct compiles to is a list of items: opcodes, parts that    *)
(* are compiled in their turn, and what the compiler notes between them    *)
(* (scopes, locals, places to jump to).  Item says what each one does.     *)
(* An instruction with its operands is one unit of code.                   *)
(*                                                                         *)
(* `met` collects the hazards of `CompileHazards` a program meets on its way; the     *)
(* compiler does not know of them.                                         *)
(***************************************************************************)
EXTENDS Integers, SequencesExt, FiniteSetsExt

CONSTANTS
    LocalsMax,      \* UINT8_COUNT, for the locals and the upvalues of a function
    ConstantsMax,   \* UINT8_COUNT, for the constants of a chunk
    JumpMax,        \* UINT16_MAX
    FinallyMax,     \* COMPILER_MAX_FINALLY_DEPTH
    UnrollMax,      \* 16: the iterations a loop is unrolled to
    CStack          \* how deep the compiler can be in finally bodies at once

CompileHazards == {
    "for_capture",        \* a closure over the variable of a loop that is not unrolled
    "unroll_late",        \* an element of an unrolled array that an iteration may change
    "return_in_finally",  \* a return that leaves its own finally body
    "return_value",       \* a finally body has locals while a returned value is on the stack
    "finally_shadowed",   \* a finally body, where it is compiled, sees a local it should not
    "match_bindings",     \* a match expression with a pattern that binds
    "empty_match",        \* a match without arms
    "local_enum",         \* an enum with variants that is not at top level
    "repl_block",         \* a function or enum in a block of a line of the REPL
    "this_in_lambda",     \* this or super in a lambda or local function
    "equal_constants",    \* a chunk has an int and a float of the same number
    "folded_equality",    \* a literal int is compared with a literal float
    "long_try"}           \* a catch block beyond JumpMax

-----------------------------------------------------------------------------
(* Values, as far as the compiler handles them.                            *)

IntVal(n) == [v |-> "int", n |-> n]
FloatVal(n) == [v |-> "float", n |-> n]
StringVal(s) == [v |-> "string", s |-> s]
BoolVal(b) == [v |-> "bool", b |-> b]
NilVal == [v |-> "nil"]
Number(x) == x.v \in {"int", "float"}
\* AS_INT of a negative int is unsigned; where it is not stored, as in AS_NUMBER, it is
\* beyond every other number (2^64, here Wide).
Wide == 65536
AsNumber(x) == IF x.v = "int" THEN x.n % Wide ELSE x.n
\* valuesEqual: strings by their text, numbers across their types.
ValuesEqual(a, b) == IF Number(a) /\ Number(b) /\ a.v # b.v THEN AsNumber(a) = AsNumber(b) ELSE a = b

-----------------------------------------------------------------------------
(* The compiler of a function, and the chain of them.  `starts` notes how   *)
(* many values the frame is to hold where a statement begins; `held` how    *)
(* many of them are no locals; `hidden` the slots that are out of scope in  *)
(* the text that is compiled.                                               *)

Local(name, depth) == [name |-> name, depth |-> depth, captured |-> FALSE]
InitCompiler(type, arity, depth) ==
    [type |-> type, arity |-> arity, depth |-> depth, outermost |-> depth, code |-> <<>>, constants |-> <<>>,
     locals |-> <<Local(IF type = "function" THEN "" ELSE "this", 0)>>,
     upvalues |-> <<>>, finally |-> <<>>, nesting |-> 0, starts |-> <<>>, held |-> 0,
     hidden |-> {}]

Current(c) == Last(c.chain)
TopLevel(f) == f.depth <= 1 /\ f.type = "script"
CompileError(c) == [c EXCEPT !.failed = TRUE]
Unless(ok, c) == IF ok THEN c ELSE CompileError(c)
Meeting(hazard, cond, c) == IF cond THEN [c EXCEPT !.met = @ \union {hazard}] ELSE c

Emit(c, op, arg) == [c EXCEPT !.chain[Len(c.chain)].code = Append(@, [op |-> op, arg |-> arg])]

\* addConstant: an equal constant is used again.
PoolIndex(pool, value) == SelectInSeq(pool, LAMBDA k : ValuesEqual(k, value))
AddConstant(c, value) ==
    IF PoolIndex(Current(c).constants, value) # 0 THEN c
    ELSE Unless(Len(Current(c).constants) < ConstantsMax,
                [c EXCEPT !.chain[Len(c.chain)].constants = Append(@, value)])
EmitPooled(c, op, value) ==
    Emit(Meeting("equal_constants",
                 Current(c).constants[PoolIndex(Current(c).constants, value)] # value, c),
         op, PoolIndex(Current(c).constants, value))
EmitConstant(c, op, value) == EmitPooled(AddConstant(c, value), op, value)

AddLocal(c, name) ==
    IF Len(Current(c).locals) = LocalsMax THEN CompileError(c)
    ELSE Meeting("return_value", Current(c).held > 0,
                 [c EXCEPT !.chain[Len(c.chain)].locals = Append(@, Local(name, Current(c).depth))])

\* Positions from 1; 0 when there is none.
ResolveLocal(f, name) == SelectLastInSeq(f.locals, LAMBDA l : l.name = name)
UpvalueIndex(f, index, isLocal) ==
    SelectInSeq(f.upvalues, LAMBDA u : u.index = index /\ u.isLocal = isLocal)
AddUpvalue(c, k, index, isLocal) ==
    IF UpvalueIndex(c.chain[k], index, isLocal) # 0 THEN c
    ELSE IF Len(c.chain[k].upvalues) = LocalsMax THEN CompileError(c)
    ELSE [c EXCEPT !.chain[k].upvalues = Append(@, [index |-> index, isLocal |-> isLocal])]
Captured(c, k, i) ==
    Meeting("finally_shadowed", i \in c.chain[k].hidden, [c EXCEPT !.chain[k].locals[i].captured = TRUE])

\* resolveUpvalue for the compiler k of the chain: the compilers, changed, with the
\* upvalue found as `at`.
FoundUpvalue(c, k, index, isLocal) ==
    [c |-> AddUpvalue(c, k, index, isLocal),
     at |-> UpvalueIndex(AddUpvalue(c, k, index, isLocal).chain[k], index, isLocal)]
RECURSIVE ResolveUpvalue(_, _, _)
ResolveUpvalue(c, k, name) ==
    IF k = 1 THEN [c |-> c, at |-> 0]
    ELSE IF ResolveLocal(c.chain[k - 1], name) # 0
      THEN FoundUpvalue(Captured(c, k - 1, ResolveLocal(c.chain[k - 1], name)), k,
                        ResolveLocal(c.chain[k - 1], name), TRUE)
      ELSE \* at most one element: the enclosing compiler's upvalue
           FoldLeft(LAMBDA none, r : IF r.at = 0 THEN r ELSE FoundUpvalue(r.c, k, r.at, FALSE),
                    [c |-> c, at |-> 0], <<ResolveUpvalue(c, k - 1, name)>>)

\* A name is a local, an upvalue or else a global.
EmitAccess(r, name, up, global) ==
    IF r.at # 0 THEN Emit(r.c, up, r.at) ELSE EmitConstant(r.c, global, StringVal(name))
EmitVariable(c, name, local, up, global) ==
    IF ResolveLocal(Current(c), name) # 0
      THEN Meeting("finally_shadowed", ResolveLocal(Current(c), name) \in Current(c).hidden,
                   Emit(c, local, ResolveLocal(Current(c), name)))
      ELSE EmitAccess(ResolveUpvalue(c, Len(c.chain), name), name, up, global)

BeginScope(c) == [c EXCEPT !.chain[Len(c.chain)].depth = @ + 1]
DropLocal(c) == [c EXCEPT !.chain[Len(c.chain)].locals = Front(@)]
EndLocal(c) ==
    DropLocal(Emit(c, IF Last(Current(c).locals).captured THEN "CLOSE_UPVALUE" ELSE "POP", 0))
EndScope(c) ==
    FoldLeft(LAMBDA d, l : EndLocal(d), [c EXCEPT !.chain[Len(c.chain)].depth = @ - 1],
             SelectSeq(Current(c).locals, LAMBDA l : l.depth >= Current(c).depth))

-----------------------------------------------------------------------------
(* Items.                                                                  *)

Op(op) == [i |-> "op", op |-> op, arg |-> 0]
OpArg(op, arg) == [i |-> "op", op |-> op, arg |-> arg]
Const(op, value) == [i |-> "const", op |-> op, value |-> value]
Invoke(name, args) == [i |-> "invoke", name |-> name, args |-> args]
Push(value) == Const("CONSTANT", value)
X(e) == [i |-> "expr", e |-> e]
S(s) == [i |-> "stmt", s |-> s]
Begin == [i |-> "begin"]
End == [i |-> "end"]
Declare(name) == [i |-> "declare", name |-> name]
Forget == [i |-> "forget"]
Get(name) == [i |-> "get", name |-> name]
Put(name) == [i |-> "put", name |-> name]
\* The local that was declared `back` before the next one.
Recent(op, back) == [i |-> "recent", op |-> op, back |-> back]
Jump(op, label) == [i |-> "jump", op |-> op, label |-> label]
Patch(label) == [i |-> "patch", label |-> label]
Mark(label) == [i |-> "mark", label |-> label]
Loop(label) == [i |-> "loop", label |-> label]
PatchTry == [i |-> "patch_try"]
Function(type, params, body) == [i |-> "function", type |-> type, params |-> params, body |-> body]
ClassBegin(hasSuper) == [i |-> "class", hasSuper |-> hasSuper]
ClassEnd == [i |-> "class_end"]
Forbid(cond) == [i |-> "forbid", cond |-> cond]
NeedClass(super) == [i |-> "need_class", super |-> super]
PushFinally(body, below) == [i |-> "push_finally", body |-> body, below |-> below]
PopFinally == [i |-> "pop_finally"]
Finallies(held) == [i |-> "finallies", held |-> held]
Note(hazard, cond) == [i |-> "note", hazard |-> hazard, cond |-> cond]

Items(seq, F(_)) == [k \in DOMAIN seq |-> F(seq[k])]
Each(seq, F(_)) == FlattenSeq(Items(seq, F))
None == [s |-> "none", e |-> "none"]
Literal(e) == e.e = "lit"

-----------------------------------------------------------------------------
(* Expressions (compiler_expr.inc).                                        *)

LiteralItems(e) ==
    <<CASE e.value.v = "nil" -> Op("NIL")
        [] e.value.v = "bool" -> Op(IF e.value.b THEN "TRUE" ELSE "FALSE")
        [] OTHER -> Push(e.value)>>

\* What an operator does to values of the kinds it is for.
Compute(op, a, b) ==
    CASE op = "ADD_INT" -> IntVal(a.n + b.n)
      [] op = "ADD_FLOAT" -> FloatVal(a.n + b.n)
      [] op = "ADD_MIXED" -> FloatVal(AsNumber(a) + AsNumber(b))
      [] op = "LESS" -> BoolVal(AsNumber(a) < AsNumber(b))
      [] op = "EQUAL" -> BoolVal(ValuesEqual(a, b))
\* Folding compares by kinds first.
Fold(op, a, b) == IF op = "EQUAL" THEN BoolVal(a = b) ELSE Compute(op, a, b)
Folds(e) ==
    /\ Literal(e.left) /\ Literal(e.right) /\ e.op # "RANGE"
    /\ e.op = "LESS" => e.left.value.v = e.right.value.v
BinaryItems(e) ==
    IF Folds(e) THEN <<Note("folded_equality", e.op = "EQUAL" /\ e.left.value # e.right.value
                                               /\ ValuesEqual(e.left.value, e.right.value)),
                       Push(Fold(e.op, e.left.value, e.right.value))>>
    ELSE <<X(e.left), X(e.right), Op(e.op)>>
UnaryItems(e) ==
    IF Literal(e.of) THEN <<Push(IF e.op = "NOT" THEN BoolVal(~ e.of.value.b) ELSE IntVal(- e.of.value.n))>>
    ELSE <<X(e.of), Op(e.op)>>

BoolLiteral(e) == Literal(e) /\ e.value.v = "bool"
AndItems(e) ==
    IF BoolLiteral(e.left) /\ BoolLiteral(e.right)
      THEN <<Push(BoolVal(e.left.value.b /\ e.right.value.b))>>
    ELSE IF BoolLiteral(e.left)
      THEN IF e.left.value.b THEN <<X(e.right)>> ELSE <<Push(BoolVal(FALSE))>>
    ELSE <<X(e.left), Jump("JUMP_IF_FALSE", "end"), Op("POP"), X(e.right), Patch("end")>>
OrItems(e) ==
    IF BoolLiteral(e.left) /\ BoolLiteral(e.right)
      THEN <<Push(BoolVal(e.left.value.b \/ e.right.value.b))>>
    ELSE IF BoolLiteral(e.left)
      THEN IF e.left.value.b THEN <<Push(BoolVal(TRUE))>> ELSE <<X(e.right)>>
    ELSE <<X(e.left), Jump("JUMP_IF_FALSE", "else"), Jump("JUMP", "end"), Patch("else"), Op("POP"),
           X(e.right), Patch("end")>>
CoalesceItems(e) ==
    <<X(e.left), Op("DUP"), Op("NIL"), Op("EQUAL"), Jump("JUMP_IF_FALSE", "left"), Op("POP"), Op("POP"),
      X(e.right), Jump("JUMP", "end"), Patch("left"), Op("POP"), Patch("end")>>

AssignItems(e) == <<X(e.value), Put(e.name)>>
CallItems(e) == <<X(e.callee)>> \o Items(e.args, X) \o <<OpArg("CALL", Len(e.args))>>
NoThis(f) == f.type \notin {"method", "initializer"}
ThisItems(f) == <<NeedClass(FALSE), Note("this_in_lambda", NoThis(f)), OpArg("GET_LOCAL", 1)>>
SuperCallItems(e, f) ==
    <<NeedClass(TRUE), Note("this_in_lambda", NoThis(f)), OpArg("GET_LOCAL", 1)>> \o Items(e.args, X)
    \o <<Get("super"), Invoke(e.method, Len(e.args))>>
LambdaItems(e) ==
    <<Function("function", e.params,
               IF e.block # None THEN <<S(e.block)>> ELSE <<X(e.result), Op("RETURN")>>)>>

\* Elements between spreads become an array; it and what is spread are joined in turn.
Joined(a) == IF a.has THEN <<Op("ARRAY_CONCAT")>> ELSE <<>>
Flushed(a) ==
    IF a.run = <<>> THEN a
    ELSE [out |-> a.out \o Items(a.run, X) \o <<OpArg("ARRAY", Len(a.run))>> \o Joined(a),
          run |-> <<>>, has |-> TRUE]
Spread(a, e) == [a EXCEPT !.out = @ \o <<X(e.of)>> \o Joined(a), !.has = TRUE]
ArrayItems(e) ==
    IF e.elements = <<>> THEN <<OpArg("ARRAY", 0)>>
    ELSE Flushed(FoldLeft(LAMBDA a, x : IF x.e = "spread" THEN Spread(Flushed(a), x)
                                                          ELSE [a EXCEPT !.run = Append(@, x)],
                          [out |-> <<>>, run |-> <<>>, has |-> FALSE], e.elements)).out

IndexItems(e) == <<X(e.of), X(e.index), Op("INDEX_GET")>>
GetItems(e) ==
    IF ~ e.optional THEN <<X(e.of), Const("GET_PROPERTY", StringVal(e.name))>>
    ELSE <<X(e.of), Op("DUP"), Op("NIL"), Op("EQUAL"), Jump("JUMP_IF_FALSE", "there"), Op("POP"),
           Jump("JUMP", "end"), Patch("there"), Op("POP"), Const("GET_PROPERTY", StringVal(e.name)),
           Patch("end")>>
SetItems(e) == <<X(e.of), X(e.value), Const("SET_PROPERTY", StringVal(e.name))>>

-----------------------------------------------------------------------------
(* Matches, as statements and as expressions: an arm has a body of one or  *)
(* of the other kind.                                                      *)

FieldNames == <<"$0", "$1">>
\* Mutant: the locals of the arm are popped after the jump.
ArmEndLate(label) == <<Jump("JUMP", "end"), End>>
ArmEnd(label) == <<End, Jump("JUMP", label)>>
TestItems(pattern) ==
    IF pattern.e = "binding"
      THEN <<Const("GET_PROPERTY", StringVal("$tag")), Push(StringVal(pattern.tag)), Op("EQUAL")>>
      ELSE <<X(pattern), Op("EQUAL")>>
BindItems(pattern) ==
    IF pattern.e # "binding" THEN <<Op("POP")>>
    ELSE <<Declare("")>>
         \o FlattenSeq([j \in DOMAIN pattern.names |->
               <<Recent("GET_LOCAL", j), Const("GET_PROPERTY", StringVal(FieldNames[j])),
                 Declare(pattern.names[j])>>])
ArmItems(arm, body) ==
    IF arm.pattern = None THEN <<Begin, Op("POP"), body, End>>
    ELSE <<Op("DUP")>> \o TestItems(arm.pattern)
         \o <<Jump("JUMP_IF_FALSE", "next"), Op("POP"), Begin>> \o BindItems(arm.pattern)
         \o <<body>> \o ArmEnd("end") \o <<Patch("next"), Op("POP")>>
Exhaustive(arms) == arms = <<>> \/ Last(arms).pattern = None

MatchItems(s) ==
    <<Note("empty_match", s.arms = <<>>), X(s.value)>> \o Each(s.arms, LAMBDA arm : ArmItems(arm, S(arm.body)))
    \o (IF Exhaustive(s.arms) THEN <<>> ELSE <<Op("POP")>>) \o <<Patch("end")>>
MatchExprItems(e) ==
    <<Note("empty_match", e.arms = <<>>), X(e.value)>>
    \o Each(e.arms, LAMBDA arm :
            <<Note("match_bindings", arm.pattern.e = "binding")>> \o ArmItems(arm, X(arm.result)))
    \o (IF Exhaustive(e.arms) THEN <<>> ELSE <<Op("POP"), Op("NIL")>>) \o <<Patch("end")>>

-----------------------------------------------------------------------------
(* Statements (compiler_stmt.inc).                                         *)

\* What comes after a return or a throw is not compiled.
UpToTerminator(stmts) ==
    LET ends == {k \in DOMAIN stmts : stmts[k].s \in {"return", "throw"}}
    IN  IF ends = {} THEN stmts ELSE SubSeq(stmts, 1, Min(ends))
Body(stmts) == Items(UpToTerminator(stmts), S)

ExpressionItems(s) == <<X(s.value), Op("POP")>>
PrintItems(s) == <<X(s.value), Op("PRINT")>>
DefineItems(name, f) ==
    IF f.depth > 0 THEN <<Declare(name)>> ELSE <<Const("DEFINE_GLOBAL", StringVal(name))>>
VarItems(s, f) == (IF s.value = None THEN <<Op("NIL")>> ELSE <<X(s.value)>>) \o DefineItems(s.name, f)
\* The initializer is compiled once for each name.
DestructureItems(s, f) ==
    FlattenSeq([k \in DOMAIN s.names |->
        <<X(s.value), Push(IntVal(k - 1))>>
        \o (IF k = s.rest THEN <<Op("NIL"), Op("ARRAY_SLICE")>> ELSE <<Op("INDEX_GET")>>)
        \o DefineItems(s.names[k], f)])
BlockItems(s) == <<Begin>> \o Body(s.body) \o <<End>>
IfItems(s) ==
    <<X(s.cond), Jump("JUMP_IF_FALSE", "else"), Op("POP"), S(s.then), Jump("JUMP", "end"),
      Patch("else"), Op("POP")>>
    \o (IF s.else = None THEN <<>> ELSE <<S(s.else)>>) \o <<Patch("end")>>
WhileItems(s) ==
    <<Mark("start"), X(s.cond), Jump("JUMP_IF_FALSE", "exit"), Op("POP"), S(s.body), Loop("start"),
      Patch("exit"), Op("POP")>>

\* Loops are unrolled over small literal ranges, both ways, and array literals.
Counted(from, to) == IF from <= to THEN [k \in 1..(to - from) |-> from + k - 1]
                                 ELSE [k \in 1..(from - to) |-> from - k + 1]
IsUnrollableRange(e) ==
    /\ e.e = "binary" /\ e.op = "RANGE" /\ Literal(e.left) /\ Literal(e.right)
    /\ Len(Counted(e.left.value.n, e.right.value.n)) <= UnrollMax
IsUnrollableArray(e) ==
    /\ e.e = "array" /\ Len(e.elements) <= UnrollMax
    /\ \A k \in DOMAIN e.elements : e.elements[k].e # "spread"
Iteration(s, item) == <<Begin, item, Declare(s.name), S(s.body), End>>
ForItems(s) ==
    IF IsUnrollableRange(s.over)
      THEN Each(Counted(s.over.left.value.n, s.over.right.value.n), LAMBDA n : Iteration(s, Push(IntVal(n))))
    ELSE IF IsUnrollableArray(s.over)
      THEN <<Note("unroll_late",
                  \E k \in DOMAIN s.over.elements : k > 1 /\ ~ Literal(s.over.elements[k]))>>
           \o Each(s.over.elements, LAMBDA e : Iteration(s, X(e)))
    ELSE <<Begin, X(s.over), Declare("$array"), Recent("GET_LOCAL", 1), Op("ARRAY_LENGTH"),
           Declare("$length"), Push(IntVal(0)), Declare("$index"),
           Mark("start"), Recent("GET_LOCAL", 1), Recent("GET_LOCAL", 2), Op("LESS"),
           Jump("JUMP_IF_FALSE", "exit"), Op("POP"),
           Recent("GET_LOCAL", 3), Recent("GET_LOCAL", 1), Op("INDEX_GET"), Declare(s.name),
           S(s.body), Op("POP"), Forget,
           Recent("GET_LOCAL", 1), Push(IntVal(1)), Op("ADD_INT"), Recent("SET_LOCAL", 1), Op("POP"),
           Loop("start"), Patch("exit"), Op("POP"), End>>

\* A function is a local of its own for recursive calls, but at top level a global.
FunctionItems(s, f) ==
    <<Note("repl_block", TopLevel(f) /\ f.depth > f.outermost)>>
    \o (IF TopLevel(f) THEN <<>> ELSE <<Declare(s.name)>>)
    \o <<Function("function", s.params, Body(s.body))>>
    \o (IF TopLevel(f) THEN <<Const("DEFINE_GLOBAL", StringVal(s.name))>> ELSE <<>>)

\* Mutant: a returned call is a tail call, whatever is to be done after it.
ReturnCallAtOnce(s, f) ==
    <<X(s.value.callee)>> \o Items(s.value.args, X) \o <<OpArg("TAIL_CALL", Len(s.value.args))>>
ReturnCallItems(s, f) ==
    IF f.finally # <<>>
      THEN <<X(s.value), Declare(""), Finallies(0), Recent("GET_LOCAL", 1), Op("RETURN"), Forget>>
      ELSE <<X(s.value.callee)>> \o Items(s.value.args, X) \o <<OpArg("TAIL_CALL", Len(s.value.args))>>
ReturnItems(s, f) ==
    IF f.type = "initializer"
      THEN <<Forbid(s.value # None), OpArg("GET_LOCAL", 1), Finallies(1), Op("RETURN")>>
    ELSE IF s.value.e = "call" THEN ReturnCallItems(s, f)
    ELSE <<IF s.value = None THEN Op("NIL") ELSE X(s.value), Finallies(1), Op("RETURN")>>

\* The finally body is compiled where the block ends, where the catch block ends and
\* at every return inside either.
TryItems(s) ==
    LET push(below) == IF s.finally = None THEN <<>> ELSE <<PushFinally(s.finally, below)>>
        pop == IF s.finally = None THEN <<>> ELSE <<PopFinally>>
        finally == IF s.finally = None THEN <<>> ELSE <<S(s.finally)>>
    IN  <<Jump("TRY", "catch")>> \o push(0) \o <<S(s.body)>> \o pop \o <<Op("TRY_END")>> \o finally
        \o <<Jump("JUMP", "end"), PatchTry, Begin, Declare(s.name)>> \o push(1) \o <<S(s.catch)>> \o pop
        \o <<End>> \o finally \o <<Patch("end")>>
ThrowItems(s) == <<X(s.value), Op("THROW")>>

\* A variant with fields is a function that makes an instance; one without is an instance.
TagItems(name) == <<Op("DUP"), Push(StringVal(name)), Const("SET_PROPERTY", StringVal("$tag")), Op("POP")>>
VariantFunction(enum, v) ==
    Function("function", SubSeq(FieldNames, 1, v.fields),
             <<Get(enum), OpArg("CALL", 0)>> \o TagItems(v.name)
             \o Each([j \in 1..v.fields |-> j],
                     LAMBDA j : <<Op("DUP"), OpArg("GET_LOCAL", j + 1),
                                  Const("SET_PROPERTY", StringVal(FieldNames[j])), Op("POP")>>)
             \o <<Op("RETURN")>>)
VariantItems(enum, v, top) ==
    <<Op("DUP")>>
    \o (IF v.fields > 0 THEN <<VariantFunction(enum, v)>>
                        ELSE <<Op("DUP"), OpArg("CALL", 0)>> \o TagItems(v.name))
    \o <<Const("SET_PROPERTY", StringVal(v.name)), Op("POP"), Op("DUP"), Const("GET_PROPERTY", StringVal(v.name)),
         IF top THEN Const("DEFINE_GLOBAL", StringVal(v.name)) ELSE Declare(v.name)>>
EnumItems(s, f) ==
    <<Note("repl_block", TopLevel(f) /\ f.depth > f.outermost), Note("local_enum", ~ TopLevel(f)),
      Const("CLASS", StringVal(s.name)),
      IF TopLevel(f) THEN Const("DEFINE_GLOBAL", StringVal(s.name)) ELSE Declare(s.name),
      IF TopLevel(f) THEN Const("GET_GLOBAL", StringVal(s.name)) ELSE Get(s.name)>>
    \o Each(s.variants, LAMBDA v : VariantItems(s.name, v, TopLevel(f))) \o <<Op("POP")>>

MethodItems(m) ==
    <<Function(IF m.name = "init" THEN "initializer" ELSE "method", m.params,
               Body(m.body) \o (IF m.name = "init" THEN <<OpArg("GET_LOCAL", 1), Op("RETURN")>> ELSE <<>>)),
      Const("METHOD", StringVal(m.name))>>
\* The superclass stays on the stack as a local of a scope around the methods.
ClassItems(s, f) ==
    <<Const("CLASS", StringVal(s.name))>> \o DefineItems(s.name, f) \o <<ClassBegin(s.extends # "")>>
    \o (IF s.extends = "" THEN <<>>
        ELSE <<Get(s.extends), Get(s.name), Op("INHERIT"), Op("POP"), Begin, Declare("super")>>)
    \o <<Get(s.name)>> \o FlattenSeq([k \in DOMAIN s.methods |-> MethodItems(s.methods[k])]) \o <<Op("POP")>>
    \o (IF s.extends = "" THEN <<>> ELSE <<End>>) \o <<ClassEnd>>

StmtItems(s, f) ==
    CASE s.s = "expr" -> ExpressionItems(s)      [] s.s = "print" -> PrintItems(s)
      [] s.s = "let" -> VarItems(s, f)           [] s.s = "destructure" -> DestructureItems(s, f)
      [] s.s = "block" -> BlockItems(s)          [] s.s = "if" -> IfItems(s)
      [] s.s = "while" -> WhileItems(s)          [] s.s = "for" -> ForItems(s)
      [] s.s = "fn" -> FunctionItems(s, f)       [] s.s = "return" -> ReturnItems(s, f)
      [] s.s = "match" -> MatchItems(s)          [] s.s = "try" -> TryItems(s)
      [] s.s = "throw" -> ThrowItems(s)          [] s.s = "enum" -> EnumItems(s, f)
      [] s.s = "class" -> ClassItems(s, f)
ExprItems(e, f) ==
    CASE e.e = "lit" -> LiteralItems(e)          [] e.e = "binary" -> BinaryItems(e)
      [] e.e = "unary" -> UnaryItems(e)          [] e.e = "and" -> AndItems(e)
      [] e.e = "or" -> OrItems(e)                [] e.e = "coalesce" -> CoalesceItems(e)
      [] e.e = "var" -> <<Get(e.name)>>          [] e.e = "assign" -> AssignItems(e)
      [] e.e = "call" -> CallItems(e)            [] e.e = "super" -> SuperCallItems(e, f)
      [] e.e = "lambda" -> LambdaItems(e)        [] e.e = "array" -> ArrayItems(e)
      [] e.e = "index" -> IndexItems(e)          [] e.e = "get" -> GetItems(e)
      [] e.e = "set" -> SetItems(e)              [] e.e = "this" -> ThisItems(f)
      [] e.e = "match" -> MatchExprItems(e)

-----------------------------------------------------------------------------
(* What an item does to the compilers, `a.c`; `a.at` are the places a      *)
(* label stands for while the list is compiled.                            *)

Here(c) == Len(Current(c).code) + 1
Places(a, label) == IF label \in DOMAIN a.at THEN a.at[label] ELSE {}
At(a, label, place) == (label :> (Places(a, label) \union {place})) @@ a.at

\* A jump is as far as the code emitted since.
PatchJump(c, from) ==
    Unless(Here(c) - from - 1 <= JumpMax,
           [c EXCEPT !.chain[Len(c.chain)].code[from].arg = Here(c) - from - 1])
PatchAll(c, places) == FoldSet(LAMBDA from, d : PatchJump(d, from), c, places)
EmitLoop(c, start) ==
    Unless(Here(c) + 1 - start <= JumpMax, Emit(c, "LOOP", Here(c) + 1 - start))
\* The catch block is noted by its place, in as many bits as a jump, unchecked.
PatchCatch(c, from) ==
    Meeting("long_try", Here(c) - 1 > JumpMax,
            [c EXCEPT !.chain[Len(c.chain)].code[from].arg = (Here(c) - 1) % (JumpMax + 1)])

PushFinallyBody(c, body, below) ==
    IF Len(Current(c).finally) >= FinallyMax THEN CompileError(c)
    ELSE [c EXCEPT !.chain[Len(c.chain)].finally =
              Append(@, [body |-> body, below |-> Len(Current(c).locals) - below])]
PopFinallyBody(c) ==
    [c EXCEPT !.chain[Len(c.chain)].finally = IF @ = <<>> THEN @ ELSE Front(@)]

OpenCompiler(c, type, arity) == [c EXCEPT !.chain = Append(@, InitCompiler(type, arity, 1))]
Closed(c, f) ==
    [c EXCEPT !.chain = Front(@),
              !.functions = Append(@, [arity |-> f.arity, code |-> f.code, starts |-> f.starts,
                                       constants |-> f.constants, upvalues |-> f.upvalues])]
EndCompiler(c) == Closed(c, Current(Emit(Emit(c, "NIL", 0), "RETURN", 0)))
FunctionValue(c) == [v |-> "function", id |-> Len(c.functions)]

EmitClosure(c) == EmitConstant(c, "CLOSURE", FunctionValue(c))
\* Into the finally bodies of a return, with `held` values on the stack, and back.
Enter(c, held) ==
    Meeting("return_in_finally", Current(c).nesting > 0,
            [c EXCEPT !.chain[Len(c.chain)].nesting = @ + 1, !.chain[Len(c.chain)].held = @ + held])
Returning(c, f) ==
    [c EXCEPT !.chain[Len(c.chain)].nesting = f.nesting, !.chain[Len(c.chain)].held = f.held,
              !.chain[Len(c.chain)].hidden = f.hidden]

RECURSIVE Compile(_, _), Item(_, _), CompileFunction(_, _), EmitReturnFinallyBodies(_, _)
Compile(items, c) == FoldLeft(Item, [c |-> c, at |-> <<>>], items).c
\* The start of a statement is noted; then what it consists of is compiled.
CompileStmt(s, c) ==
    Compile(StmtItems(s, Current(c)),
            [c EXCEPT !.chain[Len(c.chain)].starts =
                 (Here(c) :> Len(Current(c).locals) + Current(c).held) @@ @])
CompileFunction(c, it) ==
    EmitClosure(EndCompiler(Compile(it.body,
        FoldLeft(AddLocal, OpenCompiler(c, it.type, Len(it.params)), it.params))))
\* The active bodies, innermost first; all of them stay active while they are compiled.
FinallyBody(c, active, top) ==
    CompileStmt(active.body, [c EXCEPT !.chain[Len(c.chain)].hidden = (active.below + 1)..top])
EmitReturnFinallyBodies(c, held) ==
    IF Current(c).finally = <<>> THEN c
    ELSE IF Current(c).nesting = CStack THEN [c EXCEPT !.overflow = TRUE]
    ELSE Returning(FoldRight(LAMBDA active, d : FinallyBody(d, active, Len(Current(c).locals)),
                             Current(c).finally, Enter(c, held)), Current(c))
Item(a, it) ==
    LET c == a.c
        to(d) == [a EXCEPT !.c = d]
    IN
    CASE it.i = "op" -> to(Emit(c, it.op, it.arg))
      [] it.i = "const" -> to(EmitConstant(c, it.op, it.value))
      [] it.i = "invoke" ->
           to(Emit(AddConstant(c, StringVal(it.name)), "SUPER_INVOKE",
                   [name |-> PoolIndex(Current(AddConstant(c, StringVal(it.name))).constants, StringVal(it.name)),
                    args |-> it.args]))
      [] it.i = "expr" -> to(Compile(ExprItems(it.e, Current(c)), c))
      [] it.i = "stmt" -> to(CompileStmt(it.s, c))
      [] it.i = "begin" -> to(BeginScope(c))
      [] it.i = "end" -> to(EndScope(c))
      [] it.i = "declare" -> to(AddLocal(c, it.name))
      [] it.i = "forget" -> to(Meeting("for_capture", Last(Current(c).locals).captured, DropLocal(c)))
      [] it.i = "get" -> to(EmitVariable(c, it.name, "GET_LOCAL", "GET_UPVALUE", "GET_GLOBAL"))
      [] it.i = "put" -> to(EmitVariable(c, it.name, "SET_LOCAL", "SET_UPVALUE", "SET_GLOBAL"))
      [] it.i = "recent" -> to(Emit(c, it.op, Len(Current(c).locals) + 1 - it.back))
      [] it.i = "jump" -> [c |-> Emit(c, it.op, 0), at |-> At(a, it.label, Here(c))]
      [] it.i = "patch" -> [c |-> PatchAll(c, Places(a, it.label)), at |-> (it.label :> {}) @@ a.at]
      [] it.i = "mark" -> [a EXCEPT !.at = At(a, it.label, Here(c))]
      [] it.i = "loop" -> to(EmitLoop(c, Max(a.at[it.label])))
      [] it.i = "patch_try" -> to(PatchCatch(c, Max(a.at["catch"])))
      [] it.i = "function" -> to(CompileFunction(c, it))
      [] it.i = "class" -> to([c EXCEPT !.classes = Append(@, it.hasSuper)])
      [] it.i = "class_end" -> to([c EXCEPT !.classes = Front(@)])
      [] it.i = "need_class" ->
           to(Unless(c.classes # <<>> /\ (it.super => Last(c.classes)), c))
      [] it.i = "forbid" -> to(Unless(~ it.cond, c))
      [] it.i = "push_finally" -> to(PushFinallyBody(c, it.body, it.below))
      [] it.i = "pop_finally" -> to(PopFinallyBody(c))
      [] it.i = "finallies" -> to(EmitReturnFinallyBodies(c, it.held))
      [] it.i = "note" -> to(Meeting(it.hazard, it.cond, c))

\* compileImpl: the variables of a line of the REPL are globals, for they outlive it.
CompileScript(program, repl) ==
    EndCompiler(Compile(Body(program),
        [chain |-> <<InitCompiler("script", 0, IF repl THEN 0 ELSE 1)>>, functions |-> <<>>,
         classes |-> <<>>, failed |-> FALSE, overflow |-> FALSE, met |-> {}]))
=============================================================================
