------------------------------- MODULE Syntax --------------------------------
(***************************************************************************)
(* What the parser is to read: the grammar of the language as data, which  *)
(* texts it derives, and what trees of operators are right, said without a *)
(* parser.  It is the grammar of src/LANGUAGE_SPECIFICATIONS.md, sections  *)
(* 2 to 13, but for the Departures: there the document says one thing and  *)
(* the parser does another, and AsParser says whom to follow.              *)
(***************************************************************************)
EXTENDS Integers, Sequences, SequencesExt

CONSTANT AsParser         \* in which of the Departures the grammar is as the parser has it
VARIABLE text             \* a sequence of tokens, as in Parser

\* With the line of the document.
Departures == {
    "type_parameters",    \* 117: before the name of a function; the parser has them after it
    "interface_methods",  \* 155: end with a newline or `;`; the parser has no `;`, needs no newline
    "enum_variants",      \* 164: each ends with a newline; the parser needs none
    "empty_lists",        \* 118, 135, 166, 182, 231: of types and their parameters are not empty
    "rest_last",          \* 94: `...` anywhere in a pattern; the parser has it last
    "lambda_parameters",  \* 122, 237: have types; the parser does without, and ends with a comma
    "type_names",         \* 241: a name is an Identifier; the parser takes the word `type` for one
    "match_statements",   \* 284: a match expression may be a statement; the parser sees the other
    "union_members",      \* 175: may be function types; for the parser, only the first
    "generic_calls",      \* 227: of any expression; for the parser, of a name where a comparison may be
    "wildcard_last",      \* 255, 277: arms in any order
    "separators",         \* 255: between arms of a match expression, or not
    "coalescing",         \* 213: there is no operator `??`
    "else_if"}            \* 272: "else" "if" IfStmt, and IfStmt begins with "if"

Kind(word) == IF word \in {"_", "from"} THEN "id" ELSE word
At(k) == IF k \in DOMAIN text THEN text[k] ELSE "eof"

-----------------------------------------------------------------------------
(* Grammar expressions.                                                     *)

Words(of) == [g |-> "words", of |-> of]
One(word) == Words({word})
Spelled(word) == [g |-> "spelled", of |-> word]
Rule(name) == [g |-> "rule", of |-> name]
Level(k) == [g |-> "level", of |-> k]
Line(es) == [g |-> "line", of |-> es]            \* one after the other
Among(es) == [g |-> "any", of |-> es]              \* one of them
Opt(e) == [g |-> "opt", of |-> e]
Rep(e) == [g |-> "rep", of |-> e]
Not(e) == [g |-> "not", of |-> e]                \* it does not come next; reads nothing
Ahead(words) == [g |-> "ahead", of |-> words]    \* one of them comes next; reads nothing
Behind(n, words) == [g |-> "behind", n |-> n, of |-> words]
List(e) == Line(<<e, Rep(Line(<<One(","), e>>))>>)

Id == One("id")
Expr == Rule("Expression")
TypeOf == Rule("Type")
BlockOf == Rule("Block")
Follow(departure, parser, document) == IF departure \in AsParser THEN parser ELSE document
\* Lists between commas that the document does not let be empty.
Filled(e) == Follow("empty_lists", Opt(List(e)), List(e))

\* Where blank lines may stand the document does not say; where a terminator may be left out it
\* leaves to the parser (section 14).
Newlines == Rep(One("nl"))
Term == Among(<<Line(<<Words({"nl", ";"}), Newlines>>), Ahead({"}", "eof"})>>)

-----------------------------------------------------------------------------
(* Operators, by how tight they bind.                                       *)

Infixes == <<{"="}, Follow("coalescing", {"||", "??"}, {"||"}), {"&&"}, {"|"}, {"^"}, {"&"}, {"==", "!="}, {"<", ">", "<=", ">="},
             {"<<", ">>"}, {".."}, {"+", "-"}, {"*", "/", "%"}>>
Unary == {"!", "-", "~"}
UnaryLevel == Len(Infixes) + 1
Comparison == 8
Tighter == UNION {Infixes[k] : k \in Comparison .. Len(Infixes)} \cup Unary

\* `<` opens type arguments when `>` `(` come after a list of types.  The document lets every
\* postfix expression be called so; the parser only a name, and only where a comparison may
\* begin: in 1 + f<int>(2) it takes f for an operand of +.
Opens == Line(<<One("<"), Filled(TypeOf), One(">"), Ahead({"("})>>)
Callee == Among(<<Behind(2, Tighter), Behind(2, {".", "?."})>>)
Brackets == Follow("generic_calls", Line(<<Behind(1, {"id"}), Not(Callee), Opens>>), Opens)
Infix(k) == IF k = Comparison THEN Line(<<Not(Brackets), Words(Infixes[k])>>) ELSE Words(Infixes[k])

-----------------------------------------------------------------------------
(* The rules.                                                               *)

Arguments == Line(<<One("("), Opt(List(Line(<<Newlines, Expr, Newlines>>))), One(")")>>)
LambdaHead ==
    LET typed == Line(<<Id, One(":"), TypeOf>>)
        parameter == Follow("lambda_parameters", Among(<<Id, typed>>), typed)
        comma == Follow("lambda_parameters", Opt(One(",")), Line(<<>>))
    IN  Line(<<One("("), Opt(Line(<<List(parameter), comma>>)), One(")"),
               Opt(Line(<<One("->"), TypeOf>>)), One("=>")>>)
Primary ==
    Among(<<Words({"1", "str", "true", "false", "nil", "this"}),
          Follow("type_names", Words({"id", "type"}), Id),
          Line(<<One("super"), One("."), Id>>),
          Line(<<Not(Rule("LambdaHead")), One("("), Expr, One(")")>>),
          Line(<<Rule("LambdaHead"), BlockOf>>),
          Line(<<One("["), Opt(List(Line(<<Newlines, Opt(One("...")), Expr, Newlines>>))), One("]")>>),
          Line(<<One("match"), Expr, One("{"), Newlines, Rule("Cases"), One("}")>>)>>)
Call == Among(<<Arguments, Line(<<Brackets, Arguments>>)>>)
Postfix == Among(<<Call, Line(<<Words({".", "?."}), Id>>), Line(<<One("["), Expr, One("]")>>)>>)
\* What may be assigned to: the document has "only valid lvalues".
Target ==
    Among(<<Id, Line(<<Rule("Primary"), Rep(Rule("Postfix")),
                     Among(<<Line(<<One("."), Id>>), Line(<<One("["), Expr, One("]")>>)>>)>>)>>)
\* A lambda to an expression reaches as far as it can: nothing is applied to it.
UnaryRule ==
    Line(<<Rep(Words(Unary)),
           Among(<<Line(<<Rule("Primary"), Rep(Rule("Postfix"))>>),
                 Line(<<Rule("LambdaHead"), Expr>>)>>)>>)

Named == Among(<<Words({"int", "float", "bool", "string", "nil"}),
               Line(<<Id, Opt(Line(<<One("<"), Filled(TypeOf), One(">")>>))>>)>>)
ArrayOf == Line(<<One("["), TypeOf, One("]")>>)
FunctionOf == Line(<<One("fn"), One("("), Opt(List(TypeOf)), One(")"), One("->"), TypeOf>>)
TypeRule ==
    Line(<<Among(<<ArrayOf, FunctionOf, Named>>), Opt(One("?")),
           Rep(Line(<<One("|"), Among(<<ArrayOf, Named>> \o Follow("union_members", <<>>, <<FunctionOf>>)),
                      Opt(One("?"))>>))>>)

Parameters == Line(<<One("("), Opt(List(Line(<<Id, One(":"), TypeOf>>))), One(")"),
                     Opt(Line(<<One("->"), TypeOf>>))>>)
Method == Line(<<One("fn"), Id, Parameters>>)
Binding ==
    LET rest == Line(<<One("..."), Id>>)
        elements == Follow("rest_last", Among(<<List(Id), Line(<<Rep(Line(<<Id, One(",")>>)), rest>>)>>),
                           List(Among(<<Id, rest>>)))
        names == Among(<<Line(<<One("["), Opt(elements), One("]")>>),
                       Line(<<One("{"), Opt(List(Id)), One("}")>>)>>)
    IN  Line(<<Among(<<Id, names>>), Opt(Line(<<One(":"), TypeOf>>)), One("="), Expr>>)
Variable == Line(<<One("let"), Among(<<Binding, Line(<<Id, Opt(Line(<<One(":"), TypeOf>>))>>)>>), Term>>)
TypeParameter == Line(<<Opt(Words({"in", "out"})), Id, Opt(Line(<<One(":"), Id>>))>>)
Class ==
    Line(<<One("class"), Id, Opt(Line(<<One("<"), Filled(TypeParameter), One(">")>>)),
           Opt(Line(<<One("extends"), TypeOf>>)), Opt(Line(<<One("implements"), List(Id)>>)),
           One("{"), Newlines,
           Rep(Line(<<Among(<<Line(<<Method, BlockOf>>), Line(<<Id, One(":"), TypeOf, Term>>)>>), Newlines>>)),
           One("}")>>)
Interface ==
    LET method == Line(<<Method, Follow("interface_methods", Line(<<>>), Term), Newlines>>)
    IN  Line(<<One("interface"), Id, One("{"), Newlines, Rep(method), One("}")>>)
Enum ==
    LET comma == Opt(One(","))
        end == Follow("enum_variants", Line(<<Newlines, comma>>), Line(<<comma, One("nl")>>))
        variant == Line(<<Id, Opt(Line(<<One("("), Filled(TypeOf), One(")")>>)), end, Newlines>>)
    IN  Line(<<One("enum"), Id, One("{"), Newlines, Rep(variant), One("}")>>)
Import ==
    Line(<<One("import"), Opt(Line(<<One("{"), List(Id), One("}"), Spelled("from")>>)), One("str"), Term>>)

\* The document's CallExpr has no rule: what binds as tight as a call, as the parser has it.
Wildcard == Spelled("_")
Pattern == Line(<<Not(Wildcard), UnaryRule>>)
\* Arms with a pattern, and for everything else; for the parser that one is the last.
ArmsOf(named, wildcard) ==
    Follow("wildcard_last", Line(<<Rep(named), Opt(wildcard)>>), Rep(Among(<<named, wildcard>>)))
Cases ==
    LET result == Line(<<One("=>"), Expr>>)
        comma == Line(<<One(","), Newlines>>)
        mark == Follow("separators", Among(<<Ahead({"}"}), comma, Line(<<Not(One(",")), Term>>)>>),
                       Opt(Among(<<comma, Term>>)))
        wildcard == Line(<<Wildcard, result, Follow("wildcard_last", Newlines, mark)>>)
    IN  ArmsOf(Line(<<Pattern, result, mark>>), wildcard)
Arms ==
    LET body == Among(<<Line(<<Opt(One("=>")), BlockOf, Newlines>>),
                      Line(<<One("=>"), Expr, Term>>)>>)
    IN  ArmsOf(Line(<<Pattern, body>>), Line(<<Wildcard, body>>))

If == Line(<<One("if"), Expr, BlockOf, Newlines,
             Opt(Line(<<One("else"),
                        Among(<<Follow("else_if", Rule("If"), Line(<<One("if"), Rule("If")>>)),
                                BlockOf>>)>>))>>)
Statement ==
    Among(<<Line(<<One("print"), One("("), Expr, One(")"), Term>>),
          Rule("If"),
          Line(<<One("while"), Expr, BlockOf>>),
          Line(<<One("for"), Id, Opt(Line(<<One(":"), TypeOf>>)), One("in"), Expr, BlockOf>>),
          Line(<<One("return"), Among(<<Ahead({"nl", ";", "}", "eof"}), Expr>>), Term>>),
          Line(<<One("match"), Expr, One("{"), Newlines, Rule("Arms"), One("}")>>),
          Line(<<One("try"), BlockOf, One("catch"), One("("), Id, One(")"), BlockOf,
                 Opt(Line(<<One("finally"), BlockOf>>))>>),
          Line(<<One("throw"), Expr, Term>>),
          BlockOf,
          Line(<<Not(Words({"type"} \cup Follow("match_statements", {"match"}, {}))), Expr, Term>>)>>)
FunctionName ==
    LET generics == Opt(Line(<<One("<"), Filled(Id), One(">")>>))
    IN  Line(Follow("type_parameters", <<Id, generics>>, <<generics, Id>>))
Declaration ==
    Among(<<Import, Variable, Line(<<One("const"), Binding, Term>>),
          Line(<<One("type"), Id, One("="), TypeOf, Term>>),
          Line(<<One("fn"), FunctionName, Parameters, BlockOf>>),
          Class, Interface, Enum, Statement>>)

RuleOf(name) ==
    CASE name = "Primary" -> Primary
      [] name = "Postfix" -> Postfix
      [] name = "LambdaHead" -> LambdaHead
      [] name = "Type" -> TypeRule
      [] name = "Expression" -> Among(<<Line(<<Target, One("="), Expr>>), Level(2)>>)
      [] name = "Cases" -> Cases
      [] name = "Arms" -> Arms
      [] name = "If" -> If
      [] name = "Block" ->
             Line(<<One("{"), Newlines, Rep(Line(<<Rule("Declaration"), Newlines>>)), One("}")>>)
      [] name = "Declaration" -> Declaration

-----------------------------------------------------------------------------
(* What is derived: Ends(chart, e, i) are the places where a text that begins *)
(* at i and that e derives may end. The chart holds them for the places at   *)
(* the end of the text, so that each is worked out once.                     *)

RECURSIVE Ends(_, _, _), Repeated(_, _, _)
After(chart, e, places) == UNION {Ends(chart, e, i) : i \in places}
Repeated(chart, e, places) ==
    LET more == places \cup After(chart, e, places)
    IN  IF more = places THEN places ELSE Repeated(chart, e, more)
Ends(chart, e, i) ==
    LET known == i + Len(chart) - Len(text) - 1
    IN  CASE e.g = "words" -> IF i <= Len(text) /\ Kind(At(i)) \in e.of THEN {i + 1} ELSE {}
          [] e.g = "spelled" -> IF At(i) = e.of THEN {i + 1} ELSE {}
          [] e.g = "rule" -> IF known > 0 THEN chart[known][e.of] ELSE Ends(chart, RuleOf(e.of), i)
          [] e.g = "level" ->
                 IF e.of = UnaryLevel THEN Ends(chart, UnaryRule, i)
                 ELSE Repeated(chart, Line(<<Infix(e.of), Level(e.of + 1)>>),
                               Ends(chart, Level(e.of + 1), i))
          [] e.g = "line" -> FoldLeft(LAMBDA places, part : After(chart, part, places), {i}, e.of)
          [] e.g = "any" -> UNION {Ends(chart, e.of[k], i) : k \in DOMAIN e.of}
          [] e.g = "opt" -> {i} \cup Ends(chart, e.of, i)
          [] e.g = "rep" -> Repeated(chart, e.of, {i})
          [] e.g = "not" -> IF Ends(chart, e.of, i) = {} THEN {i} ELSE {}
          [] e.g = "ahead" -> IF Kind(At(i)) \in e.of THEN {i} ELSE {}
          [] e.g = "behind" -> IF Kind(At(i - e.n)) \in e.of THEN {i} ELSE {}

Entry(chart, i) ==
    LET all(name) == Ends(chart, RuleOf(name), i)
    IN  [Primary |-> all("Primary"), Postfix |-> all("Postfix"), LambdaHead |-> all("LambdaHead"),
         Type |-> all("Type"), Expression |-> all("Expression"), Cases |-> all("Cases"),
         Arms |-> all("Arms"), If |-> all("If"), Block |-> all("Block"),
         Declaration |-> all("Declaration")]
RECURSIVE Completed(_)
Completed(chart) ==
    IF Len(chart) > Len(text) THEN chart
    ELSE Completed(<<Entry(chart, Len(text) + 1 - Len(chart))>> \o chart)

Derived ==
    /\ "bad" \notin Range(text)
    /\ \E chart \in {Completed(<<>>)} :
         Len(text) + 1 \in Ends(chart, Line(<<Newlines, Rep(Line(<<Rule("Declaration"), Newlines>>))>>), 1)
=============================================================================
