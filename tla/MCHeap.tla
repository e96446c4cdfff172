------------------------------- MODULE MCHeap -------------------------------
(* Small instances of Heap: programs, each with the opcodes of one family,  *)
(* over a handful of addresses.                                            *)
EXTENDS Heap

CONSTANT N   \* addresses

MCObj == 1..N
MCNil == 0

\* malloc reuses the lowest free address: a swept object's address comes back
\* as soon as possible, the worst case for whoever still holds it.
MCMalloc(F) == {o \in F : \A p \in F : o <= p}

\* A script stopped at its first instruction.  objects gives each address its
\* kind, text and references; `script` is the closure that runs, and
\* `allocations` bounds what it allocates.
Image(objects, script, natives, allocations, opcodes) ==
    LET At(o, field, none) == IF o \in DOMAIN objects THEN objects[o][field] ELSE none
    IN  [live |-> DOMAIN objects,
         kind |-> [o \in Obj |-> At(o, "kind", "free")],
         text |-> [o \in Obj |-> At(o, "text", NoText)],
         ref |-> [o \in Obj |-> At(o, "ref", {})],
         globals |-> natives,
         stack |-> IF script = Nil THEN <<>> ELSE <<script>>,
         frames |-> IF script = Nil THEN <<>> ELSE <<[closure |-> script, slots |-> 1]>>,
         ops |-> opcodes,
         bytes |-> MaxBytes - allocations]

Object(k, r) == [kind |-> k, text |-> NoText, ref |-> r]
String(t) == [kind |-> "str", text |-> t, ref |-> {}]

\* Nothing compiled yet: the parser, the compiler, and a script that returns.
Source == Image([o \in {} |-> 0], Nil, {}, 5, {"COMPILE", "NIL", "SET_LOCAL", "POP", "RETURN"})

\* A script with two levels of nested functions; its locals are strings.
Closures ==
    Image(<<Object("fn", {2, 3}), Object("fn", {5}), String(InitText), Object("clo", {1}),
            Object("fn", {})>>,
          4, {}, 4, {"CONSTANT", "CLOSURE", "CALL", "TAIL_CALL", "RETURN", "UPVALUE",
                  "SET_UPVALUE", "CLOSE_UPVALUE", "ERROR"})

\* A script with a class name and a method's function.
Classes ==
    Image(<<Object("fn", {2, 3}), String("a"), Object("fn", {}), Object("clo", {1})>>,
          4, {}, 5, {"CLASS", "CLOSURE", "METHOD", "CALL", "PROPERTY", "TAIL_CALL"})

\* A script with, on its stack, an instance, a class with a method, and the
\* class of the instance, which is to inherit from it.
Inheritance == [
    Image(<<Object("fn", {2}), String("a"), Object("clo", {1}), Object("clo", {1}),
            Object("cls", {2, 4}), Object("cls", {2}), Object("ins", {6})>>,
          3, {}, 2, {"INHERIT", "POP", "SUPER", "PROPERTY", "CALL"})
    EXCEPT !.stack = <<3, 7, 5, 6>>]

\* A script that builds arrays of arrays and of a string.
Arrays ==
    Image(<<Object("fn", {2}), String("a"), Object("clo", {1})>>,
          3, {}, 3, {"ARRAY", "ARRAY_CONCAT", "LOCAL", "PROPERTY"})

\* A script with a string, which can make another, and a native among the globals.
Strings ==
    Image(<<Object("fn", {2}), String("a"), Object("clo", {1}), Object("nat", {})>>,
          3, {4}, 3, {"CONSTANT", "CONCAT", "CALL", "GLOBAL", "SPLIT", "POP"})

MCImages == {Source, Closures, Classes, Inheritance, Arrays, Strings}
=============================================================================
