-------------------------------- MODULE Types --------------------------------
(***************************************************************************)
(* The types of types.c, and the type nodes of a parsed annotation.  A     *)
(* type is a kind, a name and the types it is made of, in the order of the *)
(* fields of `Type`; a node has the same shape.  Classes and templates are *)
(* one object per declaration, so their name is their identity.  The limit *)
(* of the recursion (64) is far above the types of a program.              *)
(***************************************************************************)
EXTENDS Integers, SequencesExt

TypeOf(kind, name, parts) == [kind |-> kind, name |-> name, parts |-> parts]

NilType == TypeOf("nil", "", <<>>)
BoolType == TypeOf("bool", "", <<>>)
IntType == TypeOf("int", "", <<>>)
FloatType == TypeOf("float", "", <<>>)
StringType == TypeOf("string", "", <<>>)
UnknownType == TypeOf("unknown", "", <<>>)
ErrorType == TypeOf("error", "", <<>>)
Primitives == {"nil", "bool", "int", "float", "string"}
Primitive(kind) == TypeOf(kind, "", <<>>)

ArrayType(element) == TypeOf("array", "", <<element>>)
\* The return type is the last part.
FunctionType(params, result) == TypeOf("function", "", Append(params, result))
Result(function) == Last(function.parts)
Params(function) == Front(function.parts)
ClassType(name) == TypeOf("class", name, <<>>)
TemplateType(name) == TypeOf("template", name, <<>>)
InstType(name, args) == TypeOf("inst", name, args)
\* methods: a sequence of records [name, type].
InterfaceType(name, methods) ==
    TypeOf("interface", name,
           [i \in DOMAIN methods |-> TypeOf("method", methods[i].name, <<methods[i].type>>)])
ParamType(name, index) ==
    [kind |-> "param", name |-> name, parts |-> <<>>, index |-> index]

IsNumeric(t) == t.kind \in {"int", "float"}

-----------------------------------------------------------------------------
(* Equality, unions and optionals.                                         *)

\* typesEqualDepth: structure by structure; the members of unions in any order.
RECURSIVE Equal(_, _)
Equal(a, b) ==
    /\ a.kind = b.kind /\ a.name = b.name /\ Len(a.parts) = Len(b.parts)
    /\ a.kind = "param" => a.index = b.index
    /\ IF a.kind = "union"
         THEN \A i \in DOMAIN a.parts : \E j \in DOMAIN b.parts : Equal(a.parts[i], b.parts[j])
         ELSE \A i \in DOMAIN a.parts : Equal(a.parts[i], b.parts[i])

InUnion(t, union) == \E i \in DOMAIN union.parts : Equal(t, union.parts[i])

\* createUnionType: one level of unions is flattened, equal members are one, and one
\* member alone is no union.
Members(types) == FlattenSeq([i \in DOMAIN types |->
    IF types[i].kind = "union" THEN types[i].parts ELSE <<types[i]>>])
UnionType(types) ==
    LET Add(flat, t) == IF \E i \in DOMAIN flat : Equal(flat[i], t) THEN flat ELSE Append(flat, t)
        flat == FoldLeft(Add, <<>>, Members(types))
    IN  IF Len(flat) = 1 THEN flat[1] ELSE TypeOf("union", "", flat)

\* createOptionalType: optionals do not nest.
OptionalType(inner) ==
    IF inner.kind = "optional" THEN inner ELSE TypeOf("optional", "", <<inner>>)

\* substituteTypeInType: only these kinds are looked into.
RECURSIVE Substitute(_, _)
Substitute(t, args) ==
    LET parts == [i \in DOMAIN t.parts |-> Substitute(t.parts[i], args)]
    IN  CASE t.kind = "param" -> IF t.index <= Len(args) THEN args[t.index] ELSE t
          [] t.kind = "optional" -> OptionalType(parts[1])
          [] t.kind = "union" -> UnionType(parts)
          [] t.kind \in {"array", "function", "inst"} -> [t EXCEPT !.parts = parts]
          [] OTHER -> t

-----------------------------------------------------------------------------
(* Assignability.                                                          *)

Wild(t) == t.kind \in {"unknown", "param"}

\* How an argument of a template may vary: "in", "out" or not at all.
Varies(variances, i) == IF i \in DOMAIN variances THEN variances[i] ELSE "invariant"

\* typeIsAssignableToDepth.  Implemented[c] are the interfaces class c declared,
\* Variances[g] the variances of template g.
RECURSIVE Assignable(_, _, _, _)
Assignable(s, t, Implemented, Variances) ==
    LET To(a, b) == Assignable(a, b, Implemented, Variances)
    IN  \/ Equal(s, t) \/ Wild(s) \/ Wild(t)
        \/ s.kind = "int" /\ t.kind = "float"
        \/ s.kind = "array" /\ t.kind = "array" /\ s.parts[1].kind = "unknown"
        \/ CASE s.kind = "function" /\ t.kind = "function" ->
                  /\ Len(s.parts) = Len(t.parts)
                  /\ \A i \in DOMAIN Params(s) :
                        Params(s)[i].kind = "unknown" \/ Equal(Params(s)[i], Params(t)[i])
                  /\ To(Result(s), Result(t))
             [] t.kind = "optional" -> s.kind = "nil" \/ To(s, t.parts[1])
             [] s.kind = "inst" /\ t.kind = "inst" ->
                  /\ s.name = t.name /\ Len(s.parts) = Len(t.parts)
                  /\ \A i \in DOMAIN s.parts :
                        CASE Varies(Variances[s.name], i) = "out" -> To(s.parts[i], t.parts[i])
                          [] Varies(Variances[s.name], i) = "in" -> To(t.parts[i], s.parts[i])
                          [] OTHER -> Equal(s.parts[i], t.parts[i])
             [] s.kind = "class" /\ t.kind = "interface" ->
                  \E i \in Implemented[s.name] : Equal(i, t)
             [] t.kind = "union" -> InUnion(s, t)
             [] s.kind = "union" /\ t.kind \notin {"optional", "union"} ->
                  \A i \in DOMAIN s.parts : To(s.parts[i], t)
             [] OTHER -> FALSE

-----------------------------------------------------------------------------
(* Nodes, and the names of lowered classes.                                *)

Node(kind, name, parts) == [kind |-> kind, name |-> name, parts |-> parts]
NoNode == Node("none", "", <<>>)

\* typeToTypeNode: only primitives and instantiations have a node.
RECURSIVE ToNode(_)
ToNode(t) ==
    CASE t.kind \in Primitives -> Node("simple", t.kind, <<>>)
      [] t.kind = "inst" ->
           Node("generic", t.name, [i \in DOMAIN t.parts |-> ToNode(t.parts[i])])
      [] OTHER -> NoNode

\* substituteTypeNode: a parameter whose argument has no node stays as it is.
RECURSIVE SubstituteNode(_, _, _)
SubstituteNode(n, typeParams, args) ==
    IF n.kind = "simple"
      THEN IF \E i \in DOMAIN typeParams : typeParams[i] = n.name
             THEN LET arg == ToNode(args[SelectInSeq(typeParams, LAMBDA p : p = n.name)])
                  IN  IF arg # NoNode THEN arg ELSE n
             ELSE n
      ELSE [n EXCEPT !.parts =
                [i \in DOMAIN n.parts |-> SubstituteNode(n.parts[i], typeParams, args)]]

\* mangleGenericInstType: the names of an instantiation, outermost first.  The C
\* string joins them with "__", so how they nest is lost; an argument that is neither
\* primitive nor an instantiation is "unknown".
RECURSIVE Mangled(_)
Mangled(t) ==
    <<t.name>> \o FlattenSeq([i \in DOMAIN t.parts |->
        LET a == t.parts[i]
        IN  CASE a.kind = "inst" -> Mangled(a)
              [] a.kind \in Primitives -> <<a.kind>>
              [] OTHER -> <<"unknown">>])
=============================================================================
