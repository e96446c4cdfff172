------------------------------- MODULE Natives -------------------------------
(***************************************************************************)
(* The native functions: how initTypeChecker declares them, and what each  *)
(* does with the kinds of values it is called with.  A native has no type  *)
(* checks but its own: one that takes the number, the integer or the float *)
(* out of an argument without a check relies on how it is declared.        *)
(***************************************************************************)
EXTENDS Types, TLC

Every == UnknownType
Fn1(a, r) == FunctionType(<<a>>, r)
Fn2(a, b, r) == FunctionType(<<a, b>>, r)
Fn3(a, b, c, r) == FunctionType(<<a, b, c>>, r)
Each(names, type) == [n \in names |-> type]

-----------------------------------------------------------------------------
(* The declarations.                                                       *)

DeclaredTime ==
    [clock |-> FunctionType(<<>>, FloatType), time |-> FunctionType(<<>>, IntType)]
    @@ Each({"formatTime", "formatTimeUtc"}, Fn2(StringType, IntType, StringType))
DeclaredStrings ==
    [len |-> Fn1(Every, IntType),
     substr |-> Fn3(StringType, IntType, IntType, StringType),
     concat |-> Fn2(StringType, StringType, StringType),
     charAt |-> Fn2(StringType, IntType, StringType),
     indexOf |-> Fn2(StringType, StringType, IntType)]
    @@ Each({"toUpper", "toLower", "trim"}, Fn1(StringType, StringType))
DeclaredMath ==
    Each({"sqrt", "sin", "cos", "tan", "log", "log10", "exp"}, Fn1(Every, FloatType))
    @@ Each({"floor", "ceil", "round"}, Fn1(Every, IntType))
    @@ Each({"min", "max"}, Fn2(Every, Every, Every))
    @@ [abs |-> Fn1(Every, Every), pow |-> Fn2(Every, Every, FloatType)]
DeclaredConversions ==
    [toString |-> Fn1(Every, StringType), toInt |-> Fn1(Every, IntType),
     toFloat |-> Fn1(Every, FloatType), input |-> Fn1(StringType, StringType),
     flushOut |-> FunctionType(<<>>, Every), type |-> Fn1(Every, StringType)]
    @@ Each({"writeStr", "writeLine"}, Fn1(StringType, Every))
DeclaredArrays ==
    Each({"pop", "first", "last", "reverse", "clear"}, Fn1(Every, Every))
    @@ [push |-> Fn2(Every, Every, Every), contains |-> Fn2(Every, Every, BoolType),
        slice |-> Fn3(Every, IntType, IntType, Every), join |-> Fn2(Every, StringType, StringType),
        split |-> Fn2(StringType, StringType, Every),
        replace |-> Fn3(StringType, StringType, StringType, StringType),
        repeat |-> Fn2(StringType, IntType, StringType),
        random |-> FunctionType(<<>>, FloatType),
        randomInt |-> Fn2(IntType, IntType, IntType), sort |-> Fn1(Every, Every)]
    @@ Each({"startsWith", "endsWith"}, Fn2(StringType, StringType, BoolType))
DeclaredFiles ==
    [readFile |-> Fn1(StringType, StringType)]
    @@ Each({"writeFile", "appendFile"}, Fn2(StringType, StringType, BoolType))
    @@ Each({"fileExists", "deleteFile"}, Fn1(StringType, BoolType))
DeclaredMaps ==
    Each({"hashMap", "hashSet"}, FunctionType(<<>>, Every))
    @@ Each({"hashMapWithCapacity", "hashSetWithCapacity"}, Fn1(IntType, Every))
    @@ Each({"hashMapHas", "hashMapDelete"}, Fn2(Every, Every, BoolType))
    @@ Each({"hashMapClear", "hashMapKeys", "hashMapValues"}, Fn1(Every, Every))
    @@ Each({"hashMapFillRange", "hashMapFillStringKeysRange"}, Fn3(Every, IntType, IntType, Every))
    @@ Each({"hashMapCountPresentRange", "hashMapCountPresentStringKeysRange"},
            Fn3(Every, IntType, IntType, IntType))
    @@ [hashMapSet |-> Fn3(Every, Every, Every, Every), hashMapSetInt |-> Fn3(Every, IntType, IntType, Every),
        hashMapGet |-> Fn2(Every, Every, Every), hashMapHasInt |-> Fn2(Every, IntType, BoolType),
        hashMapSize |-> Fn1(Every, IntType), hashMapCountPresentKeys |-> Fn2(Every, Every, IntType),
        hashMapSetBulk |-> Fn3(Every, Every, Every, Every)]
DeclaredSets ==
    Each({"hashSetHas", "hashSetDelete"}, Fn2(Every, Every, BoolType))
    @@ Each({"hashSetClear", "hashSetValues"}, Fn1(Every, Every))
    @@ [hashSetAdd |-> Fn2(Every, Every, Every), hashSetAddInt |-> Fn2(Every, IntType, Every),
        hashSetSize |-> Fn1(Every, IntType), hashSetAddModRange |-> Fn3(Every, IntType, IntType, Every)]

Declared == DeclaredTime @@ DeclaredStrings @@ DeclaredMath @@ DeclaredConversions
            @@ DeclaredArrays @@ DeclaredFiles @@ DeclaredMaps @@ DeclaredSets

-----------------------------------------------------------------------------
(* What comes back: the kinds, for a call with arguments of kinds k.       *)

Kinds == {"nil", "bool", "int", "float", "string", "array", "map", "set"}
\* The same object again, or nil if it is not one of that kind.
Itself(k, kind) == {IF k[1] = kind THEN kind ELSE "nil"}

TimeResults(n, k) ==
    CASE n = "clock" -> {"float"} [] n = "time" -> {"int"} [] OTHER -> {"string"}
ArrayResults(n, k) ==
    CASE n = "len" -> {"int"}
      [] n \in {"push", "reverse", "clear", "sort", "slice"} -> Itself(k, "array")
      [] n \in {"pop", "first", "last"} -> IF k[1] = "array" THEN Kinds ELSE {"nil"}
      [] n = "contains" -> {"bool"}
PieceResults(n, k) ==
    CASE n = "join" -> {"string"} [] n = "split" -> {"array"} [] OTHER -> {"bool"}
StringResults(n, k) ==
    CASE n \in {"repeat", "substr", "concat", "charAt", "toUpper", "toLower", "trim"} -> {"string"}
      [] n = "replace" -> IF k = <<"string", "string", "string">> THEN {"string"} ELSE {k[1]}
      [] n = "indexOf" -> {"int"}
MathResults(n, k) ==
    CASE n = "abs" -> {IF k[1] = "float" THEN "float" ELSE "int"}
      [] n \in {"floor", "ceil", "round", "randomInt"} -> {"int"}
      [] n \in {"min", "max"} -> {IF k = <<"int", "int">> THEN "int" ELSE "float"}
      [] OTHER -> {"float"}
ConversionResults(n, k) ==
    CASE n \in {"toString", "input", "type"} -> {"string"}
      [] n = "toInt" -> {"int"}
      [] n = "toFloat" -> {"float"}
      [] n \in {"writeStr", "writeLine"} -> Itself(k, "string")
      [] n = "flushOut" -> {"nil"}
\* A file that cannot be opened is nil to readFile.
FileResults(n, k) ==
    IF n = "readFile" THEN IF k[1] = "string" THEN {"string", "nil"} ELSE {"nil"} ELSE {"bool"}
Created(n) == {IF n \in {"hashMap", "hashMapWithCapacity"} THEN "map" ELSE "set"}
MapResults(n, k) ==
    CASE n \in {"hashMapHas", "hashMapHasInt", "hashMapDelete"} -> {"bool"}
      [] n = "hashMapSize" -> {"int"}
      [] n \in {"hashMapSet", "hashMapClear"} -> Itself(k, "map")
      [] n = "hashMapSetInt" -> IF Tail(k) = <<"int", "int">> THEN Itself(k, "map") ELSE {"nil"}
      [] n \in {"hashMapKeys", "hashMapValues"} -> IF k[1] = "map" THEN {"array"} ELSE {"nil"}
      [] n = "hashMapGet" -> IF k[1] = "map" THEN Kinds ELSE {"nil"}
SetResults(n, k) ==
    CASE n \in {"hashSetHas", "hashSetDelete"} -> {"bool"}
      [] n = "hashSetSize" -> {"int"}
      [] n \in {"hashSetAdd", "hashSetClear"} -> Itself(k, "set")
      [] n = "hashSetAddInt" -> IF k[2] = "int" THEN Itself(k, "set") ELSE {"nil"}
      [] n = "hashSetValues" -> IF k[1] = "set" THEN {"array"} ELSE {"nil"}
\* Many keys at once, given as a range or as arrays.
BulkResults(n, k) ==
    CASE n \in {"hashMapCountPresentRange", "hashMapCountPresentStringKeysRange",
                "hashMapCountPresentKeys"} -> {"int"}
      [] n = "hashMapSetBulk" ->      \* nil, too, when the arrays are not equally long
           IF k = <<"map", "array", "array">> THEN {"map", "nil"} ELSE {"nil"}
      [] OTHER -> IF Tail(k) # <<"int", "int">> THEN {"nil"}
                  ELSE Itself(k, IF n = "hashSetAddModRange" THEN "set" ELSE "map")

ArrayNatives == {"len", "push", "reverse", "clear", "sort", "slice", "pop", "first", "last", "contains"}
Pieces == {"join", "split", "startsWith", "endsWith"}
Creators == {"hashMap", "hashMapWithCapacity", "hashSet", "hashSetWithCapacity"}
Bulk == {"hashMapFillRange", "hashMapFillStringKeysRange", "hashMapCountPresentRange",
         "hashMapCountPresentStringKeysRange", "hashMapCountPresentKeys", "hashMapSetBulk",
         "hashSetAddModRange"}
\* vm_register_natives: the machine knows the natives the checker knows.
Results(n, k) ==
    CASE n \in DOMAIN DeclaredTime -> TimeResults(n, k)
      [] n \in ArrayNatives -> ArrayResults(n, k)
      [] n \in Pieces -> PieceResults(n, k)
      [] n \in DOMAIN DeclaredMath \cup {"random", "randomInt"} -> MathResults(n, k)
      [] n \in DOMAIN DeclaredConversions -> ConversionResults(n, k)
      [] n \in DOMAIN DeclaredFiles -> FileResults(n, k)
      [] n \in Creators -> Created(n)
      [] n \in Bulk -> BulkResults(n, k)
      [] n \in DOMAIN DeclaredSets -> SetResults(n, k)
      [] n \in DOMAIN DeclaredMaps -> MapResults(n, k)
      [] OTHER -> StringResults(n, k)

\* What a native takes an argument for without a look at it, place by place.
NumberType == TypeOf("number", "", <<>>)
Taken(n, k) ==
    CASE n = "substr" -> IF k[1] = "string" THEN (2 :> IntType @@ 3 :> IntType) ELSE <<>>
      [] n = "charAt" -> IF k[1] = "string" THEN (2 :> IntType) ELSE <<>>
      [] n = "slice" -> IF k[1] = "array" THEN (2 :> IntType @@ 3 :> IntType) ELSE <<>>
      [] n = "randomInt" -> <<IntType, IntType>>
      [] n \in {"hashMapWithCapacity", "hashSetWithCapacity"} -> <<IntType>>
      [] n \in {"min", "max"} /\ k # <<"int", "int">> -> <<NumberType, NumberType>>
      [] n \in DOMAIN DeclaredMath \ {"abs", "min", "max"} -> [i \in DOMAIN k |-> NumberType]
      [] OTHER -> <<>>
=============================================================================
