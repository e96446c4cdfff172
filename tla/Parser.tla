------------------------------- MODULE Parser --------------------------------
(***************************************************************************)
(* The recursive-descent parser: src/src/syntax/parser.c and the files it  *)
(* includes. A source is a sequence of tokens (the scanner's work is done),*)
(* one step of the machine is one declaration of parse's loop. Every       *)
(* function of the parser is an operator from the parser to the parser     *)
(* after it and the nodes it made; an error does not stop it: it goes on   *)
(* with what it has, in panic mode, until the declaration ends.            *)
(***************************************************************************)
EXTENDS Integers, Sequences, SequencesExt, FiniteSets

CONSTANTS
    Sources,              \* the programs to parse: sequences of tokens
    AsParser              \* where the grammar of Syntax is as the parser, not as its document

VARIABLES
    source,               \* the one that is parsed
    parser,               \* the Parser of parser.h, with its place in source
    statements,           \* what parse has collected, while there is no error
    result                \* "parsing", then what parse returns

vars == <<source, parser, statements, result>>

-----------------------------------------------------------------------------
(* Tokens. "id" is an identifier; `_` and `from` are identifiers whose      *)
(* spelling is looked at. "1" and "str" are literals, "nl" a newline, "bad" *)
(* a TOKEN_ERROR; the others are spelled as they are.                       *)

Type(word) == IF word \in {"_", "from"} THEN "id" ELSE word
Token(k) == IF k \in DOMAIN source THEN source[k] ELSE "eof"
Current(p) == Type(Token(p.next))
Previous(p) == Type(Token(p.at))
Check(p, type) == Current(p) = type

\* stuck: in a loop that does not end, or at a null pointer that is read.
Fresh == [at |-> 0, next |-> 0, hadError |-> FALSE, panicMode |-> FALSE, speculativeDepth |-> 0,
          reported |-> FALSE, stuck |-> "no"]
Stuck(p) == p.stuck # "no"

Error(p) ==
    IF p.speculativeDepth > 0 THEN [p EXCEPT !.hadError = TRUE]
    ELSE IF p.panicMode THEN p
    ELSE [p EXCEPT !.panicMode = TRUE, !.hadError = TRUE, !.reported = TRUE]

Advance(p) ==
    LET end == Len(source) + 1
        good == {k \in (p.next + 1) .. Len(source) : Token(k) # "bad"}
        next == IF good = {} THEN end ELSE CHOOSE k \in good : \A j \in good : k <= j
    IN  [(IF \E k \in (p.next + 1) .. (next - 1) : Token(k) = "bad" THEN Error(p) ELSE p)
         EXCEPT !.at = p.next, !.next = next]

Consume(p, type) == IF Check(p, type) THEN Advance(p) ELSE Error(p)

RECURSIVE SkipNewlines(_)
SkipNewlines(p) == IF Check(p, "nl") THEN SkipNewlines(Advance(p)) ELSE p

ConsumeNewlineOrSemicolon(p) ==
    IF Current(p) \in {"nl", ";"} THEN SkipNewlines(Advance(p))
    ELSE IF Current(p) \in {"eof", "}"} THEN p
    ELSE Error(p)

Starters == {"class", "enum", "fn", "type", "let", "const", "for", "if", "while", "print", "return"}
RECURSIVE SkipStatement(_)
SkipStatement(p) ==
    IF Check(p, "eof") \/ Previous(p) \in {"nl", ";"} \/ Current(p) \in Starters THEN p
    ELSE SkipStatement(Advance(p))
Synchronize(p) == SkipStatement([p EXCEPT !.panicMode = FALSE])

-----------------------------------------------------------------------------
(* Nodes, and what a function returns: the parser after it and nodes.       *)

Node(kind, kids) == [kind |-> kind, kids |-> kids, at |-> 0]
Word(p) == [kind |-> "word", kids |-> <<>>, at |-> p.at]
Null == Node("null", <<>>)

\* broke: the loop it is a turn of is over.
Start(p) == [p |-> p, kids |-> <<>>, broke |-> FALSE]
Broken(r) == [r EXCEPT !.p = Error(@), !.broke = TRUE]
Then(r, Fn(_)) == LET s == Fn(r.p) IN [s EXCEPT !.kids = r.kids \o @]
Eat(r, types) == [r EXCEPT !.p = FoldLeft(Consume, @, types)]
Add(r) == [r EXCEPT !.kids = Append(@, Word(r.p))]
Take(r, type) == Add(Eat(r, <<type>>))
Name(r) == Take(r, "id")
End(r) == [r EXCEPT !.p = ConsumeNewlineOrSemicolon(@)]
Lines(r) == [r EXCEPT !.p = SkipNewlines(@)]
\* if (match(type)) { ... }
IfMatch(r, type, Fn(_)) == IF Check(r.p, type) THEN Then(Eat(r, <<type>>), Fn) ELSE r
Made(kind, r) == [r EXCEPT !.kids = <<Node(kind, r.kids)>>]

\* Every function that is called from below itself: Parse works them out, at the end.
RECURSIVE Parse(_, _, _)
Parsed(what, p) == Parse(what, 0, p)
ParsePrecedence(p, level) == Parse("precedence", level, p)
TypeAnnotation(p) == Parsed("type", p)
Block(p) == Parsed("block", p)
Declaration(p) == Parsed("declaration", p)
IfStatement(p) == Parsed("if", p)

PrecAssignment == 1
PrecCall == 14
Expression(p) == ParsePrecedence(p, PrecAssignment)

-----------------------------------------------------------------------------
(* What is repeated: items between commas, members between braces.          *)

OptionalType(r) == IfMatch(r, ":", TypeAnnotation)
Returns(r) == IfMatch(r, "->", TypeAnnotation)
Body(r) == Then(Eat(r, <<"{">>), Block)

Parameter(p) == Then(Eat(Name(Start(p)), <<":">>), TypeAnnotation)
TypeParameter(p) ==
    LET marked == IF Current(p) \in {"out", "in"} THEN Start(Advance(p)) ELSE Start(p)
    IN  IfMatch(Name(marked), ":", LAMBDA q : Name(Start(q)))
Element(p) ==
    LET q == SkipNewlines(p)
    IN  Lines(IF Check(q, "...") THEN Expression(Advance(q)) ELSE Expression(q))
\* A rest name must be the last one.
PatternName(p) ==
    LET rest == Check(p, "...")
        name == Name(Start(IF rest THEN Advance(p) ELSE p))
    IN  IF rest /\ Check(name.p, ",") THEN [name EXCEPT !.p = Error(@)] ELSE name

RECURSIVE Items(_, _), Members(_, _)
\* do { ... } while (match(parser, TOKEN_COMMA));
Items(kind, r) ==
    LET item == Then(r, LAMBDA p : Parsed(kind, p))
    IN  IF Check(item.p, ",") THEN Items(kind, Eat(item, <<",">>)) ELSE item
\* The same, unless the closing token comes at once.
UpTo(close, kind, r) == Eat(IF Check(r.p, close) THEN r ELSE Items(kind, r), <<close>>)
\* while (!check(TOKEN_RIGHT_BRACE) && !check(TOKEN_EOF)) { ... }: a turn that leaves the
\* parser as it was is taken for ever.
Members(kind, r) ==
    LET turn == Then(r, LAMBDA p : Parsed(kind, p))
    IN  IF Current(r.p) \in {"}", "eof"} \/ Stuck(r.p) THEN r
        ELSE IF turn.broke THEN turn
        ELSE IF turn.p = r.p THEN [turn EXCEPT !.p.stuck = kind]
        ELSE Members(kind, turn)
Loop(kind, r) == Members(kind, Lines(r))

Signature(r) == Returns(UpTo(")", "parameter", Eat(r, <<"(">>)))
IsWildcard(p) == Token(p.next) = "_"
Pattern(p) ==
    IF IsWildcard(p) THEN Add(Start(Advance(p)))
    ELSE IfMatch(ParsePrecedence(p, PrecCall), "(", LAMBDA q : UpTo(")", "name", Start(q)))
AtEnd(p) == Current(p) \in {"}", "eof"}

Arm(p) ==
    LET pattern == Pattern(p)
        arrow == Check(pattern.p, "=>")
        at == IF arrow THEN Eat(pattern, <<"=>">>) ELSE pattern
        body == Lines(IF Check(at.p, "{") THEN Body(at) ELSE End(Then(at, Expression)))
    IN  IF ~arrow /\ ~Check(at.p, "{") THEN Broken(at)
        ELSE IF IsWildcard(p) /\ ~AtEnd(body.p) THEN Broken(body)
        ELSE body

MatchCase(p) ==
    LET value == Then(Eat(Pattern(p), <<"=>">>), Expression)
        last == IF IsWildcard(p) THEN Lines(value) ELSE value
    IN  IF IsWildcard(p) /\ ~AtEnd(last.p) THEN Broken(last)
        ELSE Lines(CASE Check(last.p, "}") -> last
                     [] Check(last.p, ",") -> Eat(last, <<",">>)
                     [] OTHER -> End(last))

\* Mutant: what is no member is reported and left where it is.
ClassMemberStays(p) ==
    CASE Check(p, "fn") -> Lines(Body(Signature(Name(Start(Advance(p))))))
      [] Check(p, "id") -> Lines(End(Parameter(p)))
      [] OTHER -> Lines(Start(Error(p)))
ClassMember(p) ==
    CASE Check(p, "fn") -> Lines(Body(Signature(Name(Start(Advance(p))))))
      [] Check(p, "id") -> Lines(End(Parameter(p)))
      [] OTHER -> Lines(Start(Advance(Error(p))))
InterfaceMethod(p) ==
    IF Check(p, "fn") THEN Lines(Signature(Name(Start(Advance(p)))))
    ELSE Broken(Start(p))
Variant(p) ==
    LET r == Lines(IfMatch(Name(Start(p)), "(", LAMBDA q : UpTo(")", "type", Start(q))))
    IN  IF Check(r.p, ",") THEN Lines(Eat(r, <<",">>)) ELSE r

-----------------------------------------------------------------------------
(* Types: the words they are made of.                                       *)

SimpleTypes == {"int", "float", "bool", "string", "nil", "id"}
RECURSIVE MoreTypes(_)

\* `<` is consumed.
TypeArguments(p) == Add(UpTo(">", "type", Add(Start(p))))

ArrayType(p) == Eat(Then(Start(Advance(p)), TypeAnnotation), <<"]">>)
NamedType(p) ==
    LET name == Add(Start(Advance(p)))
    IN  IF Previous(name.p) = "id" THEN IfMatch(name, "<", TypeArguments) ELSE name
FunctionType(p) ==
    Then(Eat(UpTo(")", "type", Eat(Start(Advance(p)), <<"(">>)), <<"->">>), TypeAnnotation)
Optional(r) == IfMatch(r, "?", Start)

TypeRule(p) ==
    CASE Check(p, "[") -> MoreTypes(Optional(ArrayType(p)))
      [] Check(p, "fn") -> MoreTypes(Optional(FunctionType(p)))
      [] Current(p) \in SimpleTypes -> MoreTypes(Optional(NamedType(p)))
      [] OTHER -> Start(Error(p))
\* A member of a union is no function type.
MoreTypes(r) ==
    IF ~Check(r.p, "|") THEN r
    ELSE LET bar == Add(Eat(r, <<"|">>))
         IN  CASE Check(bar.p, "[") -> MoreTypes(Optional(Then(bar, ArrayType)))
               [] Current(bar.p) \in SimpleTypes -> MoreTypes(Optional(Then(bar, NamedType)))
               [] OTHER -> Start(Error(bar.p))

-----------------------------------------------------------------------------
(* Expressions.                                                             *)

PrecOr == 2
PrecUnary == 13


\* rules[type].precedence; PREC_NONE is 0.
Precedence(type) ==
    CASE type \in {"||", "??"} -> PrecOr
      [] type = "&&" -> 3
      [] type = "|" -> 4
      [] type = "^" -> 5
      [] type = "&" -> 6
      [] type \in {"==", "!="} -> 7
      [] type \in {"<", ">", "<=", ">="} -> 8
      [] type \in {"<<", ">>"} -> 9
      [] type = ".." -> 10
      [] type \in {"+", "-"} -> 11
      [] type \in {"*", "/", "%"} -> 12
      [] type \in {"(", "[", ".", "?."} -> PrecCall
      [] OTHER -> 0
\* rules[type].prefix is not NULL.
Literals == {"1", "str", "true", "false", "nil"}
PrefixTokens == Literals \cup {"(", "[", "-", "!", "~", "id", "type", "this", "super", "match"}

\* `=` is consumed: what is assigned.
Value(r) == Then(Add(Eat(r, <<"=">>)), Expression)

Arguments(r) == Made("call", UpTo(")", "argument", r))

\* Mutant: an operator takes its equals on the right.
BinaryToTheRight(r, level) ==
    Made("binary", Then(r, LAMBDA p : ParsePrecedence(p, level)))
Binary(r, level) ==
    Made("binary", Then(r, LAMBDA p : ParsePrecedence(p, level + 1)))

\* Mutant: an error met in what was tried as types stays.
LessThanKeepsError(r) ==
    LET tried == Then(r, LAMBDA p : TypeArguments([p EXCEPT !.speculativeDepth = @ + 1]))
    IN  IF tried.p.hadError \/ ~Check(tried.p, "(")
          THEN Binary(Add([r EXCEPT !.p.hadError = tried.p.hadError]), Precedence("<"))
        ELSE Arguments(Eat([tried EXCEPT !.p.speculativeDepth = @ - 1], <<"(">>))
\* What a name before `<` makes of it: a call if a list of types and `(` come next and no
\* error has been met so far; or all is as it was, and it is a comparison.
LessThan(r) ==
    LET tried == Then(r, LAMBDA p : TypeArguments([p EXCEPT !.speculativeDepth = @ + 1]))
    IN  IF tried.p.hadError \/ ~Check(tried.p, "(") THEN Binary(Add(r), Precedence("<"))
        ELSE Arguments(Eat([tried EXCEPT !.p.speculativeDepth = @ - 1], <<"(">>))

Variable(p, canAssign) ==
    LET name == Add(Start(p))
    IN  IF canAssign /\ Check(p, "=") THEN Made("assign", Value(name))
        ELSE Made("variable", name)

Property(r, canAssign) ==
    LET optional == Previous(r.p) = "?."
        name == Name(Add(r))
        set == Add(Eat(name, <<"=">>))
    IN  IF canAssign /\ Check(name.p, "=") THEN
            Made("assign", Then(IF optional THEN [set EXCEPT !.p = Error(@)] ELSE set, Expression))
        ELSE Made("get", name)

Index(r, canAssign) ==
    LET at == Eat(Then(r, Expression), <<"]">>)
    IN  IF canAssign /\ Check(at.p, "=") THEN Made("assign", Value(at))
        ELSE Made("index", at)

RECURSIVE Infix(_, _)
\* The loop of parsePrecedence: r holds what is on the left.
Infix(r, level) ==
    IF level > Precedence(Current(r.p)) THEN r
    ELSE LET q == [r EXCEPT !.p = Advance(@)]
             op == Previous(q.p)
             left == r.kids[1].kind
         IN  Infix(CASE op = "(" -> Arguments(q)
                     [] op \in {".", "?."} -> Property(q, level <= PrecAssignment)
                     [] op = "[" -> Index(q, level <= PrecAssignment)
                     [] op = "<" /\ left = "null" -> [q EXCEPT !.p.stuck = "null"]
                     [] op = "<" /\ left = "variable" -> LessThan(q)
                     [] OTHER -> Binary(Add(q), Precedence(op)), level)

\* (a, b: T) -> R =>, as far as it goes.
RECURSIVE LambdaParameters(_)
LambdaParameters(r) ==
    IF ~Check(r.p, "id") THEN r
    ELSE LET one == OptionalType(Name(r))
         IN  IF Check(one.p, ",") THEN LambdaParameters(Eat(one, <<",">>)) ELSE one
\* When it is no lambda the parser goes back; errors it has met in a type stay.
Parenthesized(p, tried) ==
    LET inner == Expression([tried.p EXCEPT !.at = p.at, !.next = p.next])
        closed == Eat(inner, <<")">>)
    IN  IF inner.kids = <<Null>> THEN [closed EXCEPT !.p.stuck = "null"] ELSE Made("group", closed)
LambdaBody(r) ==
    IF Check(r.p, "{") THEN Made("lambda", Body(r)) ELSE Made("lambda to", Then(r, Expression))
LambdaReturns(p, r) ==
    IF Check(r.p, "=>") THEN LambdaBody(Eat(r, <<"=>">>)) ELSE Parenthesized(p, r)
LambdaOrGroup(p, r) ==
    IF Check(r.p, ")") THEN LambdaReturns(p, Returns(Eat(r, <<")">>))) ELSE Parenthesized(p, r)
Grouping(p) == LambdaOrGroup(p, LambdaParameters(Start(p)))

MatchExpression(p) ==
    LET r == Loop("case", Eat(Expression(p), <<"{">>))
    IN  IF r.broke THEN [Start(r.p) EXCEPT !.kids = <<Null>>] ELSE Made("match", Eat(r, <<"}">>))

Prefix(p, canAssign) ==
    LET word == Add(Start(p))
    IN  CASE Previous(p) = "(" -> Grouping(p)
          [] Previous(p) = "[" -> Made("array", UpTo("]", "element", Start(p)))
          [] Previous(p) \in {"-", "!", "~"} ->
                 Made("unary", Then(word, LAMBDA q : ParsePrecedence(q, PrecUnary)))
          [] Previous(p) \in {"id", "type"} -> Variable(p, canAssign)
          [] Previous(p) = "super" -> Made("super", Name(Take(word, ".")))
          [] Previous(p) = "match" -> MatchExpression(p)
          [] OTHER -> Made("literal", word)

InvalidAssignment(r, level) ==
    IF level <= PrecAssignment /\ Check(r.p, "=") THEN [r EXCEPT !.p = Error(Advance(@))] ELSE r
PrecedenceRule(p, level) ==
    LET q == Advance(p)
    IN  IF Previous(q) \in PrefixTokens
        THEN InvalidAssignment(Infix(Prefix(q, level <= PrecAssignment), level), level)
        ELSE [Start(Error(q)) EXCEPT !.kids = <<Null>>]

-----------------------------------------------------------------------------
(* Statements: each is called when its keyword is consumed.                 *)

BlockRule(p) == Made("block", Eat(Loop("line", Start(p)), <<"}">>))

PrintStatement(p) == End(Eat(Then(Eat(Start(p), <<"(">>), Expression), <<")">>))

IfRule(p) ==
    LET then == Lines(Body(Expression(p)))
        else == Eat(then, <<"else">>)
    IN  IF ~Check(then.p, "else") THEN then
        ELSE IF Check(else.p, "if") THEN Then(Eat(else, <<"if">>), IfStatement)
        ELSE Body(else)

WhileStatement(p) == Body(Expression(p))
ForStatement(p) == Body(Then(Eat(OptionalType(Name(Start(p))), <<"in">>), Expression))
ThrowStatement(p) == End(Expression(p))
ReturnStatement(p) ==
    End(IF Current(p) \in {"nl", ";", "}", "eof"} THEN Start(p) ELSE Expression(p))

VarDeclaration(p, isConst) ==
    LET names == CASE Check(p, "[") -> UpTo("]", "pattern name", Start(Advance(p)))
                   [] Check(p, "{") -> UpTo("}", "name", Start(Advance(p)))
                   [] OTHER -> Name(Start(p))
        typed == OptionalType(names)
    IN  End(IF Check(typed.p, "=") THEN Value(typed)
            ELSE IF Current(p) \in {"[", "{"} \/ isConst THEN [typed EXCEPT !.p = Error(@)]
            ELSE typed)

TypeParameters(kind, r) ==
    IfMatch(r, "<", LAMBDA p : Add(UpTo(">", kind, Add(Start(p)))))
FunctionDeclaration(p) == Body(Signature(TypeParameters("name", Name(Start(p)))))

InterfaceDeclaration(p) == Eat(Loop("method", Eat(Name(Start(p)), <<"{">>)), <<"}">>)
ClassDeclaration(p) ==
    LET extends == IfMatch(TypeParameters("type parameter", Name(Start(p))), "extends", TypeAnnotation)
        implements == IfMatch(extends, "implements", LAMBDA q : Items("name", Start(q)))
    IN  Eat(Loop("class member", Eat(implements, <<"{">>)), <<"}">>)
EnumDeclaration(p) == Eat(Loop("variant", Eat(Name(Start(p)), <<"{">>)), <<"}">>)
TypeAliasDeclaration(p) == End(Then(Take(Name(Add(Start(p))), "="), TypeAnnotation))

MatchStatement(p) ==
    LET r == Loop("arm", Eat(Expression(p), <<"{">>))
    IN  IF r.broke THEN Start(r.p) ELSE Eat(r, <<"}">>)

TryStatement(p) ==
    LET caught == Name(Eat(Body(Start(p)), <<"catch", "(">>))
    IN  IfMatch(Body(Eat(caught, <<")">>)), "finally", LAMBDA q : Body(Start(q)))

ImportDeclaration(p) ==
    LET names == Eat(Items("name", Start(Advance(p))), <<"}">>)
    IN  IF ~Check(p, "{") THEN End(Take(Start(p), "str"))
        ELSE IF Token(names.p.next) # "from" THEN Start(Error(names.p))
        ELSE End(Take(Name(names), "str"))

ExpressionStatement(p) ==
    LET r == End(Expression(p)) IN IF r.kids = <<Null>> THEN Start(r.p) ELSE r

ByKeyword(p) ==
    LET q == Advance(p)
    IN  CASE Check(p, "import") -> ImportDeclaration(q)
          [] Check(p, "let") -> VarDeclaration(q, FALSE)
          [] Check(p, "const") -> VarDeclaration(q, TRUE)
          [] Check(p, "type") -> TypeAliasDeclaration(q)
          [] Check(p, "fn") -> FunctionDeclaration(q)
          [] Check(p, "class") -> ClassDeclaration(q)
          [] Check(p, "interface") -> InterfaceDeclaration(q)
          [] Check(p, "enum") -> EnumDeclaration(q)
          [] Check(p, "print") -> PrintStatement(q)
          [] Check(p, "if") -> IfStatement(q)
          [] Check(p, "while") -> WhileStatement(q)
          [] Check(p, "for") -> ForStatement(q)
          [] Check(p, "return") -> ReturnStatement(q)
          [] Check(p, "match") -> MatchStatement(q)
          [] Check(p, "try") -> TryStatement(q)
          [] Check(p, "throw") -> ThrowStatement(q)
          [] Check(p, "{") -> Block(q)
          [] OTHER -> ExpressionStatement(p)

Settled(r) ==
    Made("statement", [r EXCEPT !.p = IF @.panicMode THEN Synchronize(@) ELSE @])
DeclarationRule(p) ==
    LET q == SkipNewlines(p)
    IN  IF Check(q, "eof") THEN Start(q) ELSE Settled(ByKeyword(q))

Parse(what, level, p) ==
    CASE what = "precedence" -> PrecedenceRule(p, level)
      [] what = "type" -> TypeRule(p)
      [] what = "block" -> BlockRule(p)
      [] what = "if" -> IfRule(p)
      [] what = "declaration" -> DeclarationRule(p)
      [] what = "name" -> Name(Start(p))
      [] what = "parameter" -> Parameter(p)
      [] what = "type parameter" -> TypeParameter(p)
      [] what = "pattern name" -> PatternName(p)
      [] what = "argument" -> Lines(Expression(SkipNewlines(p)))
      [] what = "element" -> Element(p)
      [] what = "line" -> Lines(Declaration(p))
      [] what = "class member" -> ClassMember(p)
      [] what = "method" -> InterfaceMethod(p)
      [] what = "variant" -> Variant(p)
      [] what = "arm" -> Arm(p)
      [] what = "case" -> MatchCase(p)

-----------------------------------------------------------------------------
(* parse.                                                                   *)

Init ==
    /\ source \in Sources
    /\ parser = Advance(Fresh)
    /\ statements = <<>>
    /\ result = "parsing"

Declare ==
    /\ result = "parsing" /\ ~Stuck(parser) /\ ~Check(parser, "eof")
    /\ \E r \in {Declaration(parser)} :
         /\ parser' = r.p
         /\ statements' = IF r.p.hadError THEN <<>> ELSE statements \o r.kids
    /\ UNCHANGED <<source, result>>

Return ==
    /\ result = "parsing" /\ ~Stuck(parser) /\ Check(parser, "eof")
    /\ result' = IF parser.hadError THEN "refused" ELSE "accepted"
    /\ UNCHANGED <<source, parser, statements>>

Next == Declare \/ Return
Spec == Init /\ [][Next]_vars
-----------------------------------------------------------------------------
(* Properties.                                                              *)

Grammar == INSTANCE Syntax WITH text <- source
ASSUME AsParserAssumption == AsParser \subseteq Grammar!Departures

\* The words of a tree, from left to right; those of the source that are in one.
RECURSIVE WordsOf(_)
WordsOf(nodes) ==
    FlattenSeq([k \in DOMAIN nodes |->
                  IF nodes[k].kind = "word" THEN <<nodes[k].at>> ELSE WordsOf(nodes[k].kids)])
Silent == (Starters \ {"type"}) \cup
    {"(", ")", "{", "}", "[", "]", ",", "nl", ";", ":", "=>", "->", "?", "...", "import", "interface",
     "extends", "implements", "in", "out", "else", "match", "try", "catch", "finally", "throw"}
Spoken == SelectSeq([k \in DOMAIN source |-> k], LAMBDA k : source[k] \notin Silent)

\* How tight what is on top of a tree binds, and whether it reaches to the right as far as it can.
BindsAt(n) ==
    CASE n.kind = "assign" -> 1
      [] n.kind = "binary" ->
             CHOOSE k \in DOMAIN Grammar!Infixes : source[n.kids[2].at] \in Grammar!Infixes[k]
      [] n.kind = "unary" -> Grammar!UnaryLevel
      [] n.kind \in {"call", "get", "index"} -> Grammar!UnaryLevel + 1
      [] OTHER -> Grammar!UnaryLevel + 2
RECURSIVE Open(_), WellBound(_)
Open(n) ==
    \/ n.kind \in {"lambda to", "assign"}
    \/ n.kind \in {"binary", "unary"} /\ Open(Last(n.kids))
WellBound(n) ==
    /\ \A k \in DOMAIN n.kids : WellBound(n.kids[k])
    /\ n.kind \in {"binary", "call", "get", "index"} =>
         BindsAt(n.kids[1]) >= BindsAt(n) /\ ~Open(n.kids[1])
    /\ n.kind = "binary" => BindsAt(n.kids[3]) > BindsAt(n)
    /\ n.kind = "unary" => BindsAt(n.kids[2]) >= BindsAt(n)

\* The parser accepts just the texts the grammar derives, whatever it tried before, and its
\* trees hold every word in its place, bound as the levels of the operators say; what it
\* refuses it has reported. No text of the grammar hangs or crashes it.
Reads ==
    /\ Stuck(parser) => ~Grammar!Derived
    /\ result = "refused" => parser.reported /\ ~Grammar!Derived
    /\ result = "accepted" =>
         /\ Grammar!Derived
         /\ WordsOf(statements) = Spoken
         /\ \A k \in DOMAIN statements : WellBound(statements[k])

\* parse returns, also from a text full of errors: every declaration, and every turn of a loop
\* in one, consumes a token. Two places fall short: the body of an enum at what is no name,
\* and an expression that is missing in parentheses or before `<`: a null pointer is read.
Consumes ==
    [][/\ ~Stuck(parser') => parser'.next > parser.next \/ result' # "parsing"
       /\ parser'.stuck \in {"no", "variant", "null"}]_vars
=============================================================================
