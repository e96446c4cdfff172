---------------------------- MODULE ImportsProofs ----------------------------
(* Proofs about Imports, for every set of names, files, sources and         *)
(* scripts, and any number of lines.  What depends on programs meeting no   *)
(* hazard says on which one.                                                *)
EXTENDS Imports, OrderLemmas

-----------------------------------------------------------------------------
(* The inductive invariant.                                                *)

Importing == at \in {"load", "call", "run", "trim"}

\* Where interpretInternal is: an import is of a file there is; the machine runs what
\* was loaded; and the prelude comes first.
Place ==
    /\ at \in {"idle", "failed"} => todo = <<>>
    /\ Importing => todo # <<>> /\ Found(import.path) # {}
    /\ at = "load" => module.state = "loading"
    /\ Importing => module.state # "none"
    /\ at = "run" => module.function # NoFunction
    /\ at = "trim" => module.function = NoFunction \/ Stage[module.function] = "none"
    /\ at \in {"parse", "check", "main"} => preludeLoaded
    /\ at = "prelude" => ~ preludeLoaded /\ todo = <<>>

\* What the machine has left to do of a module is to define the rest of its names, and
\* what it did of it shows among the globals.
Ran ==
    /\ at = "run" => Range(body) \subseteq Range(Defines[module.function])
    /\ at \in {"run", "trim"} /\ module.function # NoFunction =>
        \A n \in Range(Defines[module.function]) :
            \/ at = "run" /\ n \in Range(body)
            \/ globals[n] = <<module.function, n>>
    /\ at = "main" => script.calls \subseteq Defined(globals) \cup Range(body)

\* All else is as the snapshot has it.
Snapshot ==
    at \in {"run", "trim"} /\ Selective => \A n \in Names :
        \/ globals[n] = existing[n]
        \/ /\ module.function # NoFunction /\ n \in Range(Defines[module.function])
           /\ globals[n] = <<module.function, n>>

\* What a file's module runs, if it loads: no step of the line changes this but the
\* failure to load it, which ends the line.
Will(f) == IF modules[f].state \in {"none", "loading"} THEN files[f] ELSE modules[f].function

\* The imports that the line has yet to do.
Ahead == {i \in Import :
    \/ i \in Range(todo)
    \/ at = "prelude" /\ i \in Range(Prelude)
    \/ at \in {"prelude", "parse"} /\ i \in Range(script.imports)
    \/ at \notin {"idle", "failed"} /\ ~ preludeLoaded /\ i \in Range(script.imports)}
AheadOfPrelude == {i \in Import :
    \/ at = "prelude" /\ i \in Range(Prelude)
    \/ at \notin {"idle", "prelude"} /\ ~ preludeLoaded /\ i \in Range(todo)}

\* Each was found to be careful before the line began, and is.
Loads(i) == Found(i.path) # {} /\ Will(Resolved(i.path)) \in Loadable
Helped(i) ==
    i.names # {} /\ Loads(i) => \A n \in i.names : Helpers[Will(Resolved(i.path)), n] \subseteq i.names
Fresh(i) == Found(i.path) # {} => Will(Resolved(i.path)) # NoFunction
Runs(i) == i.names # {} /\ Loads(i) => Stage[Will(Resolved(i.path))] # "run"
Provides(i) ==
    /\ Loads(i) /\ Stage[Will(Resolved(i.path))] = "none"
    /\ i.names \subseteq Range(Defines[Will(Resolved(i.path))])

Cared ==
    /\ "private_helpers" \notin Exercised => \A i \in Ahead : Helped(i)
    /\ "failed_again" \notin Exercised => \A i \in Ahead : Fresh(i)
    /\ "failing_body" \notin Exercised => \A i \in Ahead : Runs(i)
    /\ "failing_prelude" \notin Exercised => \A i \in AheadOfPrelude : Provides(i)

\* What a global refers to is there, or comes with the rest of the module.
ClosedIn(gs, more) == \A n \in Names :
    gs[n] # Absent /\ gs[n][1] \in Sources => Helpers[gs[n][1], n] \subseteq Defined(gs) \cup more
Closed ==
    "private_helpers" \notin Exercised =>
        /\ ClosedIn(globals, IF at = "run" THEN Range(body) ELSE {})
        /\ at \in {"run", "trim"} /\ Selective => ClosedIn(existing, {})
        /\ NothingUndefined

\* What the import that runs does not take away: the globals before it, if it is
\* selective.
Kept == IF at \in {"run", "trim"} /\ Selective THEN existing ELSE globals

\* What the prelude imports is there, or is yet to be imported.
PreludeSoFar ==
    "failing_prelude" \notin Exercised =>
        /\ preludeLoaded => \A i \in Range(Prelude) : i.names \subseteq Defined(Kept)
        /\ ~ preludeLoaded /\ at \notin {"idle", "prelude"} =>
            \A i \in Range(Prelude) : i \in Range(todo) \/ i.names \subseteq Defined(Kept)

IInv ==
    /\ TypeOK /\ CacheSound /\ DebuggerKept
    /\ Place /\ Ran /\ Snapshot /\ Cared /\ Closed /\ PreludeSoFar

-----------------------------------------------------------------------------
(* Facts about sequences, paths and import statements.                     *)

LEMMA SeqFacts ==
    ASSUME NEW S, NEW s \in Seq(S)
    PROVE  /\ Range(s) \subseteq S
           /\ s = <<>> => Range(s) = {}
           /\ s # <<>> => /\ Head(s) \in S /\ Head(s) \in Range(s)
                          /\ Tail(s) \in Seq(S) /\ Len(Tail(s)) = Len(s) - 1
                          /\ Range(s) = {Head(s)} \cup Range(Tail(s))
<1>1. Range(s) \subseteq S /\ (s = <<>> => Range(s) = {})
  BY DEF Range
<1>2. ASSUME s # <<>>
      PROVE  /\ Head(s) \in S /\ Head(s) \in Range(s)
             /\ Tail(s) \in Seq(S) /\ Len(Tail(s)) = Len(s) - 1
             /\ Range(s) = {Head(s)} \cup Range(Tail(s))
  <2>1. /\ Head(s) = s[1] /\ 1 \in DOMAIN s /\ DOMAIN s = 1 .. Len(s) /\ Len(s) \in Nat \ {0}
        /\ Tail(s) \in Seq(S) /\ Len(Tail(s)) = Len(s) - 1
        /\ DOMAIN Tail(s) = 1 .. Len(s) - 1
        /\ \A i \in DOMAIN Tail(s) : Tail(s)[i] = s[i + 1]
    BY <1>2
  <2>2. Range(s) \subseteq {Head(s)} \cup Range(Tail(s))
    <3> SUFFICES ASSUME NEW i \in DOMAIN s, i # 1
                 PROVE  s[i] \in Range(Tail(s))
      BY <2>1 DEF Range
    <3>1. i - 1 \in DOMAIN Tail(s) /\ Tail(s)[i - 1] = s[i]
      BY <2>1
    <3> QED BY <3>1 DEF Range
  <2>3. Range(Tail(s)) \subseteq Range(s)
    <3>1. \A i \in DOMAIN Tail(s) : i + 1 \in DOMAIN s /\ Tail(s)[i] = s[i + 1]
      BY <2>1
    <3> QED BY <3>1 DEF Range
  <2>4. Head(s) \in Range(s) /\ Head(s) \in S
    BY <2>1 DEF Range
  <2> QED BY <2>1, <2>2, <2>3, <2>4
<1> QED BY <1>1, <1>2

\* resolveModulePath returns a file there is.
LEMMA ResolvedFile ==
    ASSUME TypeOK, NEW p \in ImportPaths, Found(p) # {}
    PROVE  Resolved(p) \in Files /\ files[Resolved(p)] # Missing
<1>1. Candidates[p] \in Seq(Files) /\ Found(p) \in SUBSET Nat /\ Found(p) \subseteq DOMAIN Candidates[p]
  BY FilesAssumption DEF Found
<1>2. Min(Found(p)) \in Found(p)
  BY <1>1, LeastNatural
<1>3. files[Candidates[p][Min(Found(p))]] # Missing
  BY <1>2 DEF Found
<1> QED BY <1>1, <1>2, <1>3 DEF Resolved

\* The import statement that is next, and its file.
LEMMA NextImport ==
    ASSUME TypeOK, todo # <<>>
    PROVE  /\ import \in Import /\ import \in Range(todo)
           /\ import.path \in ImportPaths /\ import.names \subseteq Names
           /\ Range(todo) = {import} \cup Range(Tail(todo)) /\ Tail(todo) \in Seq(Import)
           /\ Len(Tail(todo)) = Len(todo) - 1
           /\ Found(import.path) # {} =>
                 /\ file \in Files /\ files[file] # Missing
                 /\ module \in [state : {"none", "loading", "loaded", "unloaded"},
                                function : Loadable \cup {NoFunction}]
<1>1. todo \in Seq(Import)
  BY DEF TypeOK
<1>2. /\ import \in Import /\ import \in Range(todo)
      /\ Range(todo) = {import} \cup Range(Tail(todo)) /\ Tail(todo) \in Seq(Import)
      /\ Len(Tail(todo)) = Len(todo) - 1
  BY <1>1, SeqFacts DEF import
<1>3. import.path \in ImportPaths /\ import.names \subseteq Names
  BY <1>2 DEF Import
<1>4. Found(import.path) # {} => file \in Files /\ files[file] # Missing
  BY <1>3, ResolvedFile DEF file
<1>5. Found(import.path) # {} =>
         module \in [state : {"none", "loading", "loaded", "unloaded"},
                     function : Loadable \cup {NoFunction}]
  BY <1>4 DEF module, TypeOK
<1> QED BY <1>2, <1>3, <1>4, <1>5

\* A step that leaves the files and the statements alone is about the same import.
LEMMA SamePaths ==
    ASSUME UNCHANGED files
    PROVE  \A p \in ImportPaths : Found(p)' = Found(p) /\ Resolved(p)' = Resolved(p)
<1>1. \A p \in ImportPaths : Found(p)' = Found(p)
  BY DEF Found
<1> QED BY <1>1 DEF Resolved

LEMMA SameImport ==
    ASSUME UNCHANGED <<files, todo>>
    PROVE  /\ import' = import /\ file' = file /\ Selective' = Selective
           /\ Found(import.path)' = Found(import.path)
<1>1. import' = import
  BY DEF import
<1>2. Found(import.path)' = Found(import.path)
  BY <1>1 DEF Found
<1> QED BY <1>1, <1>2 DEF file, Resolved, Selective

-----------------------------------------------------------------------------
(* What holds of every program: types, the cache, the debugger's switch and *)
(* where interpretInternal is.                                              *)

Bare == TypeOK /\ CacheSound /\ DebuggerKept /\ Place

LEMMA BareInit == Init => Bare
<1> SUFFICES ASSUME Init PROVE Bare
  OBVIOUS
<1>1. TypeOK
  <2>1. files \in [Files -> Sources \cup {Missing, Directory}]
    BY FilesAssumption DEF Init
  <2>2. modules \in [Files -> [state : {"none", "loading", "loaded", "unloaded"},
                               function : Loadable \cup {NoFunction}]]
    BY DEF Init, Unseen
  <2>3. globals \in [Names -> Value \cup {Absent}] /\ existing \in [Names -> Value \cup {Absent}]
    BY ScriptsAssumption DEF Init, Value, NoSnapshot
  <2>4. script \in Scripts
    BY ScriptsAssumption DEF Init
  <2>5. todo \in Seq(Import) /\ body \in Seq(Names) /\ lines \in 0 .. MaxLines
    BY ScriptsAssumption DEF Init
  <2> QED BY <2>1, <2>2, <2>3, <2>4, <2>5 DEF Init, TypeOK
<1>2. CacheSound
  BY DEF Init, CacheSound, Unseen, NoFunction
<1>3. DebuggerKept
  BY DEF Init, DebuggerKept
<1>4. Place
  BY DEF Init, Place, Importing
<1> QED BY <1>1, <1>2, <1>3, <1>4 DEF Bare

\* A name that is defined keeps the globals well-typed.
LEMMA DefineTyped ==
    ASSUME TypeOK, body # <<>>, NEW s \in Sources \cup {"script"}
    PROVE  /\ Head(body) \in Names /\ Tail(body) \in Seq(Names)
           /\ [globals EXCEPT ![Head(body)] = <<s, Head(body)>>] \in [Names -> Value \cup {Absent}]
<1>1. body \in Seq(Names) /\ Head(body) \in Names /\ Tail(body) \in Seq(Names)
  BY SeqFacts DEF TypeOK
<1>2. <<s, Head(body)>> \in Value
  BY <1>1 DEF Value
<1> QED BY <1>1, <1>2 DEF TypeOK

\* A script's imports and names.
LEMMA ScriptImports ==
    ASSUME TypeOK
    PROVE  script.imports \in Seq(Import) /\ script.defines \in Seq(Names) /\ script.calls \subseteq Names
<1>1. script \in Script
  BY ScriptsAssumption DEF TypeOK
<1> QED BY <1>1 DEF Script

\* The returns of interpretInternal before its code runs leave nothing to do, and the
\* debugger as the user had it.
Ending == PreludeFails \/ ImportsFail \/ ParseFails \/ LowerFails \/ TypeFails \/ CompileFails

LEMMA EmptySeq ==
    ASSUME NEW S
    PROVE  <<>> \in Seq(S)
OBVIOUS

LEMMA Ended ==
    ASSUME Ending
    PROVE  /\ at \in {"failed", "parse", "check"}
           /\ at' = "idle" /\ todo' = <<>> /\ body' = <<>>
           /\ result' = result \/ result' = <<"compile error">>
           /\ debuggerEnabled' = debuggerWasEnabled
           /\ preludeLoaded' = preludeLoaded \/ (at = "failed" /\ preludeLoaded' = TRUE)
           /\ UNCHANGED <<files, modules, globals, debuggerWasEnabled, script, existing, swept, lines>>
BY DEF Ending, Ends, PreludeFails, ImportsFail, ParseFails, LowerFails, TypeFails, CompileFails

LEMMA ImportFailed ==
    ASSUME ImportFails
    PROVE  /\ at' = "failed" /\ result' = <<"failed">> /\ todo' = <<>> /\ body' = <<>>
           /\ todo' \in Seq(Import) /\ body' \in Seq(Names)
           /\ existing' \in [Names -> Value \cup {Absent}]
           /\ UNCHANGED <<files, globals, preludeLoaded, debuggerEnabled, debuggerWasEnabled,
                          script, lines>>
<1>1. NoSnapshot \in [Names -> Value \cup {Absent}]
  BY DEF NoSnapshot
<1> QED BY <1>1, EmptySeq DEF ImportFails, loop

LEMMA TypeStep ==
    ASSUME Bare, [Next]_vars
    PROVE  TypeOK'
<1> USE DEF Bare
<1>1. CASE Edit
  BY <1>1, FilesAssumption DEF Edit, TypeOK
<1>2. CASE Interpret
  <2>1. script' \in Scripts /\ lines' \in 0 .. MaxLines
    BY <1>2, ScriptsAssumption DEF Interpret, TypeOK
  <2>2. at' \in {"prelude", "parse"}
    BY <1>2 DEF Interpret
  <2>3. {preludeLoaded', debuggerEnabled', debuggerWasEnabled'} \subseteq BOOLEAN
    BY <1>2 DEF Interpret, TypeOK
  <2> QED BY <1>2, <2>1, <2>2, <2>3 DEF Interpret, TypeOK
<1>3. CASE LoadPrelude
  BY <1>3, ScriptsAssumption DEF LoadPrelude, TypeOK
<1>4. CASE Parse
  BY <1>4, ScriptImports DEF Parse, loop, TypeOK
<1>5. CASE ImportsDone
  BY <1>5 DEF ImportsDone, TypeOK
<1>6. CASE Start
  <2>1. {preludeLoaded', debuggerEnabled', debuggerWasEnabled'} \subseteq BOOLEAN
    BY <1>6 DEF Start, TypeOK
  <2> QED BY <1>6, <2>1, ScriptImports DEF Start, TypeOK
<1>7. CASE Main
  <2>1. CASE body # <<>>
    <3>1. /\ globals' = [globals EXCEPT ![Head(body)] = <<"script", Head(body)>>]
          /\ body' = Tail(body)
          /\ UNCHANGED <<at, debuggerEnabled, todo>>
      BY <1>7, <2>1 DEF Main, loop
    <3>2. /\ globals' \in [Names -> Value \cup {Absent}] /\ body' \in Seq(Names)
          /\ UNCHANGED <<loop, at, todo, modules, existing, swept>>
      BY <1>7, <3>1, <2>1, DefineTyped DEF Main
    <3> QED BY <3>2 DEF loop, TypeOK
  <2>2. CASE body = <<>>
    <3>1. /\ at' = "idle" /\ todo' = <<>> /\ body' = <<>>
          /\ UNCHANGED <<files, modules, globals, preludeLoaded, debuggerEnabled,
                         debuggerWasEnabled, script, existing, swept, lines>>
      BY <1>7, <2>2 DEF Main, Ends
    <3> QED BY <3>1, EmptySeq DEF TypeOK
  <2> QED BY <2>1, <2>2
<1>8. CASE Define
  BY <1>8, DefineTyped, NextImport DEF Define, TypeOK, loop, Place, Importing, Loadable
<1>9. CASE NotFound
  BY <1>9, ImportFailed DEF NotFound, TypeOK
<1>10. CASE LoadModule
  BY <1>10, NextImport DEF LoadModule, loop, TypeOK
<1>11. CASE CompileModule
  <2>1. modules' \in [Files -> [state : {"none", "loading", "loaded", "unloaded"},
                                function : Loadable \cup {NoFunction}]]
    <3>1. CASE Unloadable(file)
      BY <1>11, <3>1 DEF CompileModule, TypeOK, Failed
    <3>2. CASE ~ Unloadable(file)
      <4>1. files[file] \in Loadable
        BY <1>11, <3>2, NextImport DEF CompileModule, TypeOK, Place, Importing, Unloadable, Loadable
      <4> QED BY <1>11, <3>2, <4>1 DEF CompileModule, TypeOK
    <3> QED BY <3>1, <3>2
  <2>2. CASE ImportFails
    BY <1>11, <2>1, <2>2, ImportFailed DEF CompileModule, TypeOK, loop
  <2>3. CASE ~ ImportFails
    BY <1>11, <2>1, <2>3 DEF CompileModule, TypeOK, loop
  <2> QED BY <2>2, <2>3
<1>12. CASE UseCached
  <2>1. CASE ImportFails
    BY <1>12, <2>1, ImportFailed DEF UseCached, TypeOK, loop
  <2>2. CASE ~ ImportFails
    BY <1>12, <2>2 DEF UseCached, TypeOK, loop
  <2> QED BY <2>1, <2>2
<1>13. CASE RunModule
  <2>1. existing' \in [Names -> Value \cup {Absent}]
    BY <1>13 DEF RunModule, TypeOK
  <2>2. body' \in Seq(Names)
    <3>1. module.function \in Loadable \cup {NoFunction}
      BY <1>13, NextImport DEF RunModule, Place, Importing
    <3>2. body' = <<>> \/ (module.function # NoFunction /\ body' = Defines[module.function])
      BY <1>13 DEF RunModule
    <3>3. module.function # NoFunction => Defines[module.function] \in Seq(Names)
      BY <3>1, SourcesAssumption DEF Loadable
    <3> QED BY <3>2, <3>3, EmptySeq
  <2> QED BY <1>13, <2>1, <2>2 DEF RunModule, loop, TypeOK
<1>14. CASE EndModule
  <2>1. CASE ImportFails
    BY <1>14, <2>1, ImportFailed DEF EndModule, TypeOK, loop
  <2>2. CASE ~ ImportFails
    BY <1>14, <2>2 DEF EndModule, TypeOK, loop
  <2> QED BY <2>1, <2>2
<1>15. CASE Trim
  <2>1. globals' \in [Names -> Value \cup {Absent}]
    BY <1>15 DEF Trim, TypeOK, Trimmed
  <2>2. todo' \in Seq(Import)
    BY <1>15, NextImport DEF Trim, Place, Importing, Remaining
  <2>3. existing' \in [Names -> Value \cup {Absent}]
    BY <1>15 DEF Trim, NoSnapshot
  <2> QED BY <1>15, <2>1, <2>2, <2>3 DEF Trim, loop, TypeOK
<1>16. CASE Collect
  BY <1>16 DEF Collect, loop, TypeOK, Garbage
<1>17. CASE UNCHANGED vars
  BY <1>17 DEF vars, TypeOK
<1>18. CASE Ending
  <2>1. {preludeLoaded', debuggerEnabled', debuggerWasEnabled'} \subseteq BOOLEAN
    BY <1>18, Ended DEF TypeOK
  <2> QED BY <1>18, <2>1, Ended, EmptySeq DEF TypeOK
<1> QED BY <1>1, <1>2, <1>3, <1>4, <1>5, <1>6, <1>7, <1>8, <1>9, <1>10, <1>11, <1>12, <1>13, <1>14, <1>15, <1>16, <1>17, <1>18 DEF Next, Step, Ending

\* The cache while an import fails, or is left to the next step of its module.
LEMMA CacheStep ==
    ASSUME Bare, [Next]_vars
    PROVE  CacheSound'
<1> USE DEF Bare
<1>1. ASSUME UNCHANGED modules, at # "load"
      PROVE  CacheSound'
  BY <1>1 DEF CacheSound
<1>2. ASSUME UNCHANGED <<modules, files, todo, at>>
      PROVE  CacheSound'
  BY <1>2, SameImport DEF CacheSound
<1>3. CASE LoadModule
  <2>1. /\ file' = file /\ file \in Files /\ at = "imports" /\ at' = "load"
        /\ modules' = [modules EXCEPT ![file] = [state |-> "loading", function |-> NoFunction]]
    BY <1>3, NextImport, SameImport DEF LoadModule, loop
  <2>2. \A f \in Files \ {file} : modules'[f] = modules[f] /\ modules[f].state # "loading"
    BY <2>1 DEF CacheSound, TypeOK
  <2>3. modules'[file] = [state |-> "loading", function |-> NoFunction]
    BY <2>1 DEF TypeOK
  <2> QED BY <2>1, <2>2, <2>3 DEF CacheSound
<1>4. CASE CompileModule
  <2>1. at = "load" /\ file \in Files /\ files[file] # Missing
    BY <1>4, NextImport DEF CompileModule, Place, Importing
  <2> DEFINE m == IF Unloadable(file) THEN Failed(file)
                  ELSE [state |-> "loaded", function |-> files[file]]
  <2>2. modules' = [modules EXCEPT ![file] = m]
    BY <1>4 DEF CompileModule
  <2>5. m.state \in {"loaded", "unloaded"} /\ (m.state = "loaded") = (m.function # NoFunction)
    <3>1. ~ Unloadable(file) => files[file] # NoFunction
      BY <2>1, SourcesAssumption DEF Unloadable, TypeOK
    <3> QED BY <3>1 DEF Failed
  <2> HIDE DEF m
  <2>3. \A f \in Files \ {file} : modules'[f] = modules[f] /\ modules[f].state # "loading"
    BY <2>1, <2>2 DEF CacheSound, TypeOK
  <2>4. modules'[file] = m
    BY <2>1, <2>2 DEF TypeOK
  <2> QED BY <2>3, <2>4, <2>5 DEF CacheSound
<1>5. CASE Edit \/ Interpret \/ LoadPrelude \/ Parse \/ ImportsDone \/ Start \/ Main \/ Define
  BY <1>1, <1>5 DEF Edit, Interpret, LoadPrelude, Parse, ImportsDone, Start, Main, Ends, Define
<1>6. CASE NotFound \/ UseCached \/ RunModule \/ EndModule \/ Trim
  BY <1>1, <1>6 DEF NotFound, UseCached, RunModule, EndModule, Trim
<1>7. CASE Collect
  BY <1>2, <1>7 DEF Collect, loop
<1>8. CASE UNCHANGED vars
  BY <1>2, <1>8 DEF vars
<1>9. CASE Ending
  BY <1>1, <1>9, Ended
<1> QED BY <1>3, <1>4, <1>5, <1>6, <1>7, <1>8, <1>9 DEF Next, Step, Ending

\* Every way out of interpretInternal puts the debugger back.
LEMMA DebuggerStep ==
    ASSUME Bare, [Next]_vars
    PROVE  DebuggerKept'
<1> USE DEF Bare
<1>1. ASSUME at' = "idle", debuggerEnabled' = debuggerWasEnabled, UNCHANGED debuggerWasEnabled
      PROVE  DebuggerKept'
  BY <1>1 DEF DebuggerKept, TypeOK
<1>2. ASSUME at \notin {"idle", "main"}, at' \notin {"idle", "main"},
             UNCHANGED <<debuggerEnabled, debuggerWasEnabled>>
      PROVE  DebuggerKept'
  BY <1>2 DEF DebuggerKept
<1>3. ASSUME UNCHANGED <<at, debuggerEnabled, debuggerWasEnabled>>
      PROVE  DebuggerKept'
  BY <1>3 DEF DebuggerKept
<1>4. CASE Edit \/ Collect \/ UNCHANGED vars
  BY <1>3, <1>4 DEF Edit, Collect, vars, loop
<1>5. CASE Interpret
  BY <1>5 DEF Interpret, DebuggerKept
<1>6. CASE LoadPrelude \/ ImportsDone
  BY <1>2, <1>6 DEF LoadPrelude, ImportsDone
<1>7. CASE LoadModule \/ RunModule \/ Trim
  BY <1>2, <1>7 DEF LoadModule, RunModule, Trim, loop
<1>8. CASE Parse
  BY <1>2, <1>8 DEF Parse, loop
<1>9. CASE Start
  BY <1>9 DEF Start, DebuggerKept, TypeOK
<1>10. CASE Main
  <2>1. at = "main" /\ at' \in {"idle", "main"} /\ UNCHANGED <<debuggerEnabled, debuggerWasEnabled>>
    BY <1>10 DEF Main, Ends, loop
  <2> QED BY <2>1 DEF DebuggerKept
<1>11. CASE Define
  BY <1>3, <1>11 DEF Define, loop
<1>12. ASSUME ImportFails, at \notin {"idle", "main"}
       PROVE  DebuggerKept'
  BY <1>2, <1>12, ImportFailed
<1>13. CASE NotFound \/ CompileModule \/ UseCached \/ EndModule
  BY <1>2, <1>12, <1>13 DEF NotFound, CompileModule, UseCached, EndModule, loop
<1>14. CASE Ending
  BY <1>1, <1>14, Ended
<1> QED BY <1>4, <1>5, <1>6, <1>7, <1>8, <1>9, <1>10, <1>11, <1>13, <1>14 DEF Next, Step, Ending

\* An import goes through its stages with one file, that the cache has.
LEMMA PlaceStep ==
    ASSUME Bare, [Next]_vars
    PROVE  Place'
<1> USE DEF Bare
<1>1. ASSUME at' \in {"idle", "failed"}, todo' = <<>>
      PROVE  Place'
  BY <1>1 DEF Place, Importing
<1>2. ASSUME at' \in {"imports", "freed", "main", "check"}, at' \in {"check", "main"} => preludeLoaded'
      PROVE  Place'
  BY <1>2 DEF Place, Importing
<1>3. ASSUME UNCHANGED <<files, modules, todo, at, preludeLoaded>>
      PROVE  Place'
  <2>1. /\ import' = import /\ file' = file /\ Found(import.path)' = Found(import.path)
        /\ module' = module
    BY <1>3, SameImport DEF module
  <2> QED BY <1>3, <2>1 DEF Place, Importing
<1>4. CASE Edit
  BY <1>1, <1>4 DEF Edit, Place
<1>5. CASE Interpret
  BY <1>5 DEF Interpret, Place, Importing, TypeOK
<1>6. CASE LoadPrelude
  BY <1>6 DEF LoadPrelude, Place, Importing, TypeOK
<1>7. CASE Parse
  BY <1>2, <1>7 DEF Parse
<1>8. CASE ImportsDone
  BY <1>8 DEF ImportsDone, Place, Importing
<1>9. CASE Start
  BY <1>2, <1>9 DEF Start, Place
<1>10. CASE Main
  BY <1>1, <1>2, <1>10 DEF Main, Ends, loop, Place
<1>11. CASE Define \/ Collect \/ UNCHANGED vars
  BY <1>3, <1>11 DEF Define, Collect, loop, vars
<1>12. CASE ImportFails
  BY <1>1, <1>12 DEF ImportFails
<1>13. CASE NotFound
  BY <1>12, <1>13 DEF NotFound
<1>14. CASE LoadModule
  <2>1. /\ file' = file /\ file \in Files /\ at' = "load" /\ todo' # <<>>
        /\ Found(import.path)' # {}
        /\ modules' = [modules EXCEPT ![file] = [state |-> "loading", function |-> NoFunction]]
    BY <1>14, NextImport, SameImport DEF LoadModule, loop
  <2>2. module' = [state |-> "loading", function |-> NoFunction]
    BY <2>1 DEF module, TypeOK
  <2> QED BY <2>1, <2>2 DEF Place, Importing
<1>15. CASE CompileModule
  <2>1. CASE Unloadable(file)
    BY <1>12, <1>15, <2>1 DEF CompileModule
  <2>2. CASE ~ Unloadable(file)
    <3>1. /\ file' = file /\ file \in Files /\ at' = "call" /\ todo' # <<>>
          /\ Found(import.path)' # {}
          /\ modules' = [modules EXCEPT ![file] =
                            [state |-> "loaded", function |-> files[file]]]
      BY <1>15, <2>2, NextImport, SameImport DEF CompileModule, loop, Place, Importing
    <3>2. module'.state = "loaded"
      BY <3>1 DEF module, TypeOK
    <3> QED BY <3>1, <3>2 DEF Place, Importing
  <2> QED BY <2>1, <2>2
<1>16. ASSUME UNCHANGED <<files, modules, todo>>, todo # <<>>, Found(import.path) # {},
              module.state # "none", at' \in {"call", "run", "trim"},
              at' = "run" => module.function # NoFunction,
              at' = "trim" => module.function = NoFunction \/ Stage[module.function] = "none"
       PROVE  Place'
  <2>1. /\ Found(import.path)' = Found(import.path) /\ module' = module
    BY <1>16, SameImport DEF module
  <2> QED BY <1>16, <2>1 DEF Place, Importing
<1>17. CASE UseCached
  <2>1. CASE module.state = "loading"
    BY <1>12, <1>17, <2>1 DEF UseCached
  <2>2. CASE module.state # "loading"
    <3>1. module.state # "none"
      BY <1>17 DEF UseCached, Cached, module
    <3> QED BY <1>16, <1>17, <2>2, <3>1 DEF UseCached, loop
  <2> QED BY <2>1, <2>2
<1>18. CASE RunModule
  BY <1>2, <1>16, <1>18 DEF RunModule, loop, Place, Importing
<1>19. CASE EndModule
  <2>1. CASE Stage[module.function] = "run"
    BY <1>12, <1>19, <2>1 DEF EndModule
  <2>2. CASE Stage[module.function] # "run"
    <3>1. module.function \in Loadable
      BY <1>19, NextImport DEF EndModule, Place, Importing
    <3>2. Stage[module.function] = "none"
      BY <2>2, <3>1 DEF Loadable, Fails
    <3> QED BY <1>16, <1>19, <2>2, <3>2 DEF EndModule, loop, Place, Importing
  <2> QED BY <2>1, <2>2
<1>20. CASE Trim
  BY <1>2, <1>20 DEF Trim
<1>21. CASE Ending
  BY <1>1, <1>21, Ended
<1> QED BY <1>4, <1>5, <1>6, <1>7, <1>8, <1>9, <1>10, <1>11, <1>13, <1>14, <1>15,
           <1>17, <1>18, <1>19, <1>20, <1>21 DEF Next, Step, Ending

LEMMA BareStep == Bare /\ [Next]_vars => Bare'
BY TypeStep, CacheStep, DebuggerStep, PlaceStep DEF Bare

LEMMA BareAlways == Spec => []Bare
BY BareInit, BareStep, PTL DEF Spec

-----------------------------------------------------------------------------
(* What an import has done so far.                                         *)

LEMMA SameModule ==
    ASSUME UNCHANGED <<files, todo, modules>>
    PROVE  /\ import' = import /\ file' = file /\ module' = module /\ Selective' = Selective
           /\ Found(import.path)' = Found(import.path)
BY SameImport DEF module

\* The module that the machine runs, and the name it is about to define.
LEMMA NextName ==
    ASSUME Bare, Ran, Define
    PROVE  /\ module.function \in Loadable /\ module' = module /\ Selective' = Selective
           /\ import' = import /\ file' = file /\ at = "run" /\ at' = "run"
           /\ Head(body) \in Names /\ Head(body) \in Range(Defines[module.function])
           /\ Range(body) = {Head(body)} \cup Range(body')
           /\ <<module.function, Head(body)>> \in Value
           /\ <<module.function, Head(body)>> # Absent
           /\ \A n \in Names \ {Head(body)} : globals'[n] = globals[n]
           /\ globals'[Head(body)] = <<module.function, Head(body)>>
<1>1. module.function \in Loadable
  BY NextImport DEF Bare, Define, Place, Importing
<1>2. /\ Head(body) \in Names /\ Head(body) \in Range(body) /\ body' = Tail(body)
      /\ Range(body) = {Head(body)} \cup Range(body')
  BY SeqFacts DEF Bare, Define, TypeOK
<1>3. <<module.function, Head(body)>> \in Value /\ <<module.function, Head(body)>> # Absent
  <2>1. <<module.function, Head(body)>> \in Value
    BY <1>1, <1>2 DEF Value, Loadable
  <2> QED BY <2>1, SourcesAssumption
<1>4. module' = module /\ Selective' = Selective /\ import' = import /\ file' = file
  BY SameModule DEF Define, loop
<1>5. globals' = [globals EXCEPT ![Head(body)] = <<module.function, Head(body)>>]
  BY DEF Define
<1> QED BY <1>1, <1>2, <1>3, <1>4, <1>5 DEF Define, Ran, Bare, TypeOK

LEMMA DefinesNames ==
    ASSUME NEW s \in Sources
    PROVE  Defines[s] \in Seq(Names) /\ Range(Defines[s]) \subseteq Names
BY SourcesAssumption, SeqFacts

LEMMA RanStep ==
    ASSUME Bare, Ran, [Next]_vars
    PROVE  Ran'
<1>1. ASSUME at' \notin {"run", "trim", "main"}
      PROVE  Ran'
  BY <1>1 DEF Ran
<1>2. CASE Edit \/ Interpret \/ LoadPrelude \/ Parse \/ ImportsDone
  BY <1>1, <1>2 DEF Edit, Interpret, LoadPrelude, Parse, ImportsDone, Bare
<1>3. CASE Start
  <2>1. at' = "main" /\ body' = script.defines /\ script.calls \subseteq Known
        /\ UNCHANGED <<script, globals>>
    BY <1>3 DEF Start, Typed
  <2> QED BY <2>1 DEF Ran, Known, Defined
<1>4. CASE Main
  <2>1. CASE body = <<>>
    BY <1>1, <1>4, <2>1 DEF Main, Ends
  <2>2. CASE body # <<>>
    <3>1. /\ at = "main" /\ at' = "main" /\ body' = Tail(body) /\ UNCHANGED script
          /\ globals' = [globals EXCEPT ![Head(body)] = <<"script", Head(body)>>]
      BY <1>4, <2>2 DEF Main, loop
    <3>2. Head(body) \in Names /\ Range(body) = {Head(body)} \cup Range(body')
      BY <2>2, <3>1, SeqFacts DEF Bare, TypeOK
    <3>3. <<"script", Head(body)>> \in Value /\ <<"script", Head(body)>> # Absent
      <4>1. <<"script", Head(body)>> \in Value
        BY <3>2 DEF Value
      <4> QED BY <4>1, SourcesAssumption
    <3>4. Defined(globals) \cup {Head(body)} \subseteq Defined(globals')
      BY <3>1, <3>2, <3>3 DEF Defined, Bare, TypeOK
    <3> QED BY <3>1, <3>2, <3>4 DEF Ran
  <2> QED BY <2>1, <2>2
<1>5. CASE Define
  <2>1. Range(body') \subseteq Range(Defines[module.function])
    BY <1>5, NextName DEF Ran
  <2>2. \A n \in Range(Defines[module.function]) :
           n \in Range(body') \/ globals'[n] = <<module.function, n>>
    <3> SUFFICES ASSUME NEW n \in Range(Defines[module.function]), n # Head(body),
                        n \notin Range(body')
                 PROVE  globals'[n] = <<module.function, n>>
      BY <1>5, NextName
    <3>1. n \notin Range(body) /\ n \in Names
      <4>1. Range(Defines[module.function]) \subseteq Names
        BY <1>5, NextName, SourcesAssumption, SeqFacts, ZenonT(30) DEF Loadable
      <4> QED BY <1>5, NextName, <4>1
    <3>2. globals[n] = <<module.function, n>>
      BY <1>5, <3>1, NextName, SourcesAssumption DEF Ran, Loadable
    <3> QED BY <1>5, <3>1, <3>2, NextName
  <2> QED BY <1>5, <2>1, <2>2, NextName DEF Ran
<1>6. CASE ImportFails
  BY <1>1, <1>6 DEF ImportFails
<1>7. CASE NotFound \/ LoadModule \/ CompileModule \/ UseCached \/ Trim
  BY <1>1, <1>6, <1>7 DEF NotFound, LoadModule, CompileModule, UseCached, Trim
<1>8. CASE RunModule
  <2>1. module' = module /\ UNCHANGED globals
    BY <1>8, SameModule DEF RunModule, loop
  <2>2. CASE module.function = NoFunction
    BY <1>8, <2>1, <2>2 DEF RunModule, Ran
  <2>3. CASE module.function # NoFunction
    BY <1>8, <2>1, <2>3 DEF RunModule, Ran
  <2> QED BY <2>2, <2>3
<1>9. CASE EndModule
  <2>1. CASE ImportFails
    BY <1>6, <2>1
  <2>2. CASE ~ ImportFails
    <3>1. /\ module' = module /\ at = "run" /\ at' = "trim" /\ Range(body) = {}
          /\ UNCHANGED globals
      BY <1>9, <2>2, SameModule DEF EndModule, loop, Range
    <3> QED BY <3>1 DEF Ran
  <2> QED BY <2>1, <2>2
<1>10. CASE Collect \/ UNCHANGED vars
  <2>1. /\ module' = module
        /\ UNCHANGED <<globals, at, body, script>>
    BY <1>10, SameModule DEF Collect, loop, vars
  <2> QED BY <2>1 DEF Ran, Defined
<1>11. CASE Ending
  BY <1>1, <1>11, Ended
<1> QED BY <1>2, <1>3, <1>4, <1>5, <1>7, <1>8, <1>9, <1>10, <1>11 DEF Next, Step, Ending

LEMMA SnapshotStep ==
    ASSUME Bare, Ran, Snapshot, [Next]_vars
    PROVE  Snapshot'
<1>1. ASSUME at' \notin {"run", "trim"}
      PROVE  Snapshot'
  BY <1>1 DEF Snapshot
<1>2. CASE Edit \/ Interpret \/ LoadPrelude \/ Parse \/ ImportsDone \/ Start \/ Main \/ Ending
  BY <1>1, <1>2, Ended DEF Edit, Interpret, LoadPrelude, Parse, ImportsDone, Start, Main, Ends, Bare
<1>3. CASE ImportFails
  BY <1>1, <1>3 DEF ImportFails
<1>4. CASE NotFound \/ LoadModule \/ CompileModule \/ UseCached \/ Trim
  BY <1>1, <1>3, <1>4 DEF NotFound, LoadModule, CompileModule, UseCached, Trim
<1>5. CASE Define
  BY <1>5, NextName, SourcesAssumption DEF Snapshot, Define, Loadable
<1>6. CASE RunModule
  BY <1>6, SameModule DEF RunModule, loop, Snapshot
<1>7. ASSUME UNCHANGED <<globals, existing>>, module' = module, Selective' = Selective,
             at \in {"run", "trim"} \/ at' = at
      PROVE  Snapshot'
  BY <1>7 DEF Snapshot
<1>8. CASE EndModule \/ Collect \/ UNCHANGED vars
  BY <1>3, <1>7, <1>8, SameModule DEF EndModule, Collect, loop, vars
<1> QED BY <1>2, <1>4, <1>5, <1>6, <1>8 DEF Next, Step, Ending

-----------------------------------------------------------------------------
(* What is ahead of a line stays as it was found to be.                    *)

\* A step of the line, unless it ends it, leaves files alone, changes no module that
\* is loaded and adds no import.
LEMMA AheadStep ==
    ASSUME Bare, Step \/ Collect, at' \notin {"idle", "failed"}
    PROVE  /\ Ahead' \subseteq Ahead /\ AheadOfPrelude' \subseteq AheadOfPrelude
           /\ UNCHANGED files
           /\ \A f \in Files : Will(f)' = Will(f)
<1> USE DEF Bare
<1>1. ASSUME UNCHANGED <<todo, script, preludeLoaded>>, at \notin {"idle", "prelude", "failed"},
             at' \notin {"idle", "prelude", "parse"}
      PROVE  Ahead' \subseteq Ahead /\ AheadOfPrelude' \subseteq AheadOfPrelude
  BY <1>1 DEF Ahead, AheadOfPrelude
<1>2. ASSUME UNCHANGED modules, UNCHANGED files
      PROVE  \A f \in Files : Will(f)' = Will(f)
  BY <1>2 DEF Will
<1>3. CASE LoadPrelude
  <2>1. /\ at = "prelude" /\ ~ preludeLoaded /\ todo = <<>> /\ UNCHANGED script
        /\ \/ Prelude = <<>> /\ at' = "parse" /\ preludeLoaded' = TRUE /\ UNCHANGED todo
           \/ at' = "imports" /\ todo' = Prelude /\ UNCHANGED preludeLoaded
    BY <1>3 DEF LoadPrelude, Place
  <2>2. Range(todo) = {}
    BY <2>1 DEF Range
  <2>3. Ahead' \subseteq Ahead /\ AheadOfPrelude' \subseteq AheadOfPrelude
    BY <2>1, <2>2 DEF Ahead, AheadOfPrelude
  <2> QED BY <1>2, <1>3, <2>3 DEF LoadPrelude
<1>4. CASE Parse
  <2>1. /\ at = "parse" /\ preludeLoaded /\ at' = "imports" /\ todo' = script.imports
        /\ UNCHANGED <<script, preludeLoaded>>
    BY <1>4 DEF Parse, loop, Place
  <2>2. Ahead' \subseteq Ahead /\ AheadOfPrelude' \subseteq AheadOfPrelude
    BY <2>1 DEF Ahead, AheadOfPrelude
  <2> QED BY <1>2, <1>4, <2>2 DEF Parse, loop
<1>5. CASE ImportsDone
  <2>1. /\ at = "imports" /\ todo = <<>> /\ UNCHANGED <<script, todo>>
        /\ preludeLoaded' = TRUE
        /\ at' = "check" \/ (~ preludeLoaded /\ at' = "parse")
    BY <1>5 DEF ImportsDone
  <2>2. Range(todo) = {}
    BY <2>1 DEF Range
  <2>3. Ahead' \subseteq Ahead /\ AheadOfPrelude' \subseteq AheadOfPrelude
    BY <2>1, <2>2 DEF Ahead, AheadOfPrelude
  <2> QED BY <1>2, <1>5, <2>3 DEF ImportsDone
<1>6. CASE Start \/ Main
  <2>1. /\ UNCHANGED <<todo, script, preludeLoaded>> /\ at \in {"check", "main"}
        /\ at' = "main" /\ UNCHANGED <<modules, files>>
    BY <1>6 DEF Start, Main, Ends, loop
  <2> QED BY <1>1, <1>2, <2>1
<1>7. ~ ImportFails
  BY DEF ImportFails
<1>8. CASE NotFound
  BY <1>7, <1>8 DEF NotFound
<1>9. CASE Define \/ UseCached \/ RunModule \/ EndModule
  <2>1. /\ UNCHANGED <<todo, script, preludeLoaded>> /\ at \in {"run", "imports", "call"}
        /\ at' \in {"run", "call", "trim", "freed"} /\ UNCHANGED <<modules, files>>
    BY <1>7, <1>9 DEF Define, UseCached, RunModule, EndModule, loop
  <2> QED BY <1>1, <1>2, <2>1
<1>10. CASE Collect
  <2>1. /\ UNCHANGED <<todo, script, preludeLoaded, at>> /\ at \in {"imports", "load", "run", "check", "main"}
        /\ UNCHANGED <<modules, files>>
    BY <1>10 DEF Collect, loop
  <2> QED BY <1>1, <1>2, <2>1
<1>11. CASE LoadModule
  <2>1. /\ UNCHANGED <<todo, script, preludeLoaded, files>> /\ at = "imports" /\ at' = "load"
        /\ file \in Files /\ modules[file].state = "none"
        /\ modules' = [modules EXCEPT ![file] = [state |-> "loading", function |-> NoFunction]]
    BY <1>11, NextImport DEF LoadModule, loop, Cached
  <2>2. \A f \in Files : Will(f)' = Will(f)
    BY <2>1 DEF Will, TypeOK
  <2> QED BY <1>1, <2>1, <2>2
<1>12. CASE CompileModule
  <2>1. /\ UNCHANGED <<todo, script, preludeLoaded, files>> /\ at = "load" /\ at' = "call"
        /\ file \in Files /\ modules[file].state = "loading"
        /\ modules' = [modules EXCEPT ![file] = [state |-> "loaded", function |-> files[file]]]
    BY <1>7, <1>12, NextImport DEF CompileModule, loop, Place, Importing, module
  <2>2. \A f \in Files : Will(f)' = Will(f)
    BY <2>1 DEF Will, TypeOK
  <2> QED BY <1>1, <2>1, <2>2
<1>13. CASE Trim
  <2>1. /\ todo' = Tail(todo) /\ UNCHANGED <<script, preludeLoaded, files, modules>>
        /\ at = "trim" /\ at' = "imports" /\ Range(todo') \subseteq Range(todo)
    BY <1>13, NextImport DEF Trim, loop, Remaining, Place, Importing
  <2>2. Ahead' \subseteq Ahead /\ AheadOfPrelude' \subseteq AheadOfPrelude
    BY <2>1 DEF Ahead, AheadOfPrelude
  <2> QED BY <1>2, <2>1, <2>2
<1>14. ~ Ending
  BY Ended
<1> QED BY <1>3, <1>4, <1>5, <1>6, <1>8, <1>9, <1>10, <1>11, <1>12, <1>13, <1>14 DEF Step, Ending

\* So what was found of an import before holds of it still.
LEMMA StillLoads ==
    ASSUME Bare, UNCHANGED files, \A f \in Files : Will(f)' = Will(f)
    PROVE  \A i \in Import :
              /\ Helped(i)' <=> Helped(i)
              /\ Fresh(i)' <=> Fresh(i)
              /\ Runs(i)' <=> Runs(i)
              /\ Provides(i)' <=> Provides(i)
<1> SUFFICES ASSUME NEW i \in Import
             PROVE  /\ Helped(i)' <=> Helped(i)
                    /\ Fresh(i)' <=> Fresh(i)
                    /\ Runs(i)' <=> Runs(i)
                    /\ Provides(i)' <=> Provides(i)
  OBVIOUS
<1>1. i.path \in ImportPaths
  BY DEF Import
<1>2. Found(i.path)' = Found(i.path) /\ Resolved(i.path)' = Resolved(i.path)
  BY <1>1, SamePaths
<1>3. Found(i.path) # {} => Resolved(i.path) \in Files
  BY <1>1, ResolvedFile DEF Bare
<1>4. Found(i.path) # {} => Will(Resolved(i.path))' = Will(Resolved(i.path))
  BY <1>2, <1>3 DEF Will
<1>5. Loads(i)' <=> Loads(i)
  BY <1>2, <1>4 DEF Loads
<1> QED BY <1>2, <1>4, <1>5 DEF Helped, Fresh, Runs, Provides, Loads

\* What Careful asks of an import before the line begins.
LEMMA Carefully ==
    ASSUME Bare, at = "idle", NEW i \in Import, NEW ofPrelude \in BOOLEAN, Careful(i, ofPrelude)
    PROVE  /\ "private_helpers" \notin Exercised => Helped(i)
           /\ "failed_again" \notin Exercised => Fresh(i)
           /\ "failing_body" \notin Exercised => Runs(i)
           /\ "failing_prelude" \notin Exercised /\ ofPrelude => Provides(i)
<1>1. Found(i.path) # {} => Resolved(i.path) \in Files
  BY ResolvedFile DEF Bare, Import
<1>2. \A f \in Files : modules[f].state # "loading"
  BY DEF Bare, CacheSound
<1>3. Found(i.path) # {} => Content(Resolved(i.path)) = Will(Resolved(i.path))
  BY <1>1, <1>2 DEF Content, Will
<1>4. Loads(i) <=> (/\ Found(i.path) # {} /\ Content(Resolved(i.path)) \in Sources
                    /\ ~ Fails(Content(Resolved(i.path))))
  BY <1>3 DEF Loads, Loadable
<1> QED BY <1>3, <1>4 DEF Careful, Helped, Fresh, Runs, Provides, Loads

LEMMA CaredStep ==
    ASSUME Bare, Cared, [Next]_vars
    PROVE  Cared'
<1>1. ASSUME at' \in {"idle", "failed"}, todo' = <<>>
      PROVE  Cared'
  <2>1. Range(todo') = {}
    BY <1>1 DEF Range
  <2>2. Ahead' = {} /\ AheadOfPrelude' = {}
    BY <1>1, <2>1 DEF Ahead, AheadOfPrelude
  <2> QED BY <2>2 DEF Cared
<1>2. ASSUME Ahead' \subseteq Ahead, AheadOfPrelude' \subseteq AheadOfPrelude,
             UNCHANGED files, \A f \in Files : Will(f)' = Will(f)
      PROVE  Cared'
  <2>1. \A i \in Import :
              /\ Helped(i)' <=> Helped(i)
              /\ Fresh(i)' <=> Fresh(i)
              /\ Runs(i)' <=> Runs(i)
              /\ Provides(i)' <=> Provides(i)
    BY <1>2, StillLoads
  <2>2. Ahead' \subseteq Import /\ AheadOfPrelude' \subseteq Import
    BY DEF Ahead, AheadOfPrelude
  <2> QED BY <1>2, <2>1, <2>2 DEF Cared
<1>3. CASE Edit
  BY <1>1, <1>3 DEF Edit, Bare, Place
<1>4. CASE Interpret
  <2>1. /\ at = "idle" /\ todo = <<>> /\ Range(todo') = {} /\ UNCHANGED <<files, modules>>
        /\ preludeLoaded' = preludeLoaded
        /\ script' \in Scripts /\ \A i \in Range(script'.imports) : Careful(i, FALSE)
        /\ ~ preludeLoaded => \A i \in Range(Prelude) : Careful(i, TRUE)
        /\ at' = IF preludeLoaded THEN "parse" ELSE "prelude"
    <3>1. ~ preludeLoaded => \A i \in Range(Prelude) : Careful(i, TRUE)
      BY <1>4, Zenon DEF Interpret
    <3>2. /\ at = "idle" /\ UNCHANGED <<files, modules, todo>> /\ preludeLoaded' = preludeLoaded
          /\ script' \in Scripts /\ at' = IF preludeLoaded THEN "parse" ELSE "prelude"
      BY <1>4 DEF Interpret
    <3>3. \A i \in Range(script'.imports) : Careful(i, FALSE)
      BY <1>4 DEF Interpret
    <3>4. todo = <<>> /\ Range(todo') = {}
      BY <3>2 DEF Bare, Place, Range
    <3> QED BY <3>1, <3>2, <3>3, <3>4
  <2>2. /\ \A i \in Ahead' : Careful(i, FALSE) \/ Careful(i, TRUE)
        /\ \A i \in AheadOfPrelude' : Careful(i, TRUE)
    BY <2>1 DEF Ahead, AheadOfPrelude
  <2>3. Ahead' \subseteq Import /\ AheadOfPrelude' \subseteq Import
    BY DEF Ahead, AheadOfPrelude
  <2>4. \A f \in Files : Will(f)' = Will(f)
    BY <2>1 DEF Will
  <2>5. \A i \in Import :
              /\ Helped(i)' <=> Helped(i)
              /\ Fresh(i)' <=> Fresh(i)
              /\ Runs(i)' <=> Runs(i)
              /\ Provides(i)' <=> Provides(i)
    BY <2>1, <2>4, StillLoads
  <2>6. /\ "private_helpers" \notin Exercised => \A i \in Ahead' : Helped(i)
        /\ "failed_again" \notin Exercised => \A i \in Ahead' : Fresh(i)
        /\ "failing_body" \notin Exercised => \A i \in Ahead' : Runs(i)
        /\ "failing_prelude" \notin Exercised => \A i \in AheadOfPrelude' : Provides(i)
    BY <2>1, <2>2, <2>3, Carefully
  <2> QED BY <2>3, <2>5, <2>6 DEF Cared
<1>5. CASE Step \/ Collect
  <2>1. at' \in {"idle", "failed"} => todo' = <<>>
    BY PlaceStep DEF Place
  <2> QED BY <1>1, <1>2, <1>5, <2>1, AheadStep
<1>6. CASE UNCHANGED vars
  <2>1. Ahead' = Ahead /\ AheadOfPrelude' = AheadOfPrelude
    BY <1>6 DEF vars, Ahead, AheadOfPrelude
  <2>2. UNCHANGED files /\ \A f \in Files : Will(f)' = Will(f)
    BY <1>6 DEF vars, Will
  <2> QED BY <1>2, <2>1, <2>2
<1> QED BY <1>3, <1>4, <1>5, <1>6 DEF Next

-----------------------------------------------------------------------------
(* The globals between two imports.                                        *)

\* What the module that is to be trimmed has defined.
LEMMA AtTrim ==
    ASSUME Bare, Ran, Trim
    PROVE  /\ import \in Import /\ import \in Ahead /\ import.names \subseteq Names
           /\ module.function # NoFunction =>
                 /\ module.function \in Loadable /\ Stage[module.function] = "none"
                 /\ Loads(import) /\ Will(Resolved(import.path)) = module.function
                 /\ \A n \in Range(Defines[module.function]) :
                       n \in Names /\ globals[n] = <<module.function, n>> /\ n \in Defined(globals)
<1> USE DEF Bare
<1>1. /\ import \in Import /\ import \in Range(todo) /\ import.names \subseteq Names
      /\ file \in Files /\ at = "trim" /\ module.state \notin {"none", "loading"}
      /\ module.function \in Loadable \cup {NoFunction} /\ Found(import.path) # {}
      /\ file = Resolved(import.path)
  BY NextImport DEF Trim, Place, Importing, CacheSound, module, file
<1>2. import \in Ahead
  BY <1>1 DEF Ahead
<1>3. ASSUME module.function # NoFunction
      PROVE  /\ module.function \in Loadable /\ Stage[module.function] = "none"
             /\ Loads(import) /\ Will(Resolved(import.path)) = module.function
             /\ \A n \in Range(Defines[module.function]) :
                       n \in Names /\ globals[n] = <<module.function, n>> /\ n \in Defined(globals)
  <2>1. module.function \in Loadable /\ Stage[module.function] = "none"
    BY <1>1, <1>3 DEF Place
  <2>2. Will(file) = module.function
    BY <1>1 DEF Will, module
  <2>3. Range(Defines[module.function]) \subseteq Names
    BY <2>1, SourcesAssumption, SeqFacts DEF Loadable
  <2>4. ASSUME NEW n \in Range(Defines[module.function])
        PROVE  globals[n] = <<module.function, n>> /\ n \in Defined(globals)
    <3>1. globals[n] = <<module.function, n>>
      BY <1>1, <1>3, <2>4 DEF Ran
    <3>2. <<module.function, n>> \in Value
      BY <2>1, <2>3 DEF Value, Loadable
    <3> QED BY <2>3, <3>1, <3>2, SourcesAssumption DEF Defined
  <2> QED BY <1>1, <2>1, <2>2, <2>3, <2>4 DEF Loads
<1> QED BY <1>1, <1>2, <1>3

\* While a selective import runs there is all that was there before it.
LEMMA KeptDefined ==
    ASSUME Bare, Snapshot
    PROVE  Defined(Kept) \subseteq Defined(globals)
<1> SUFFICES ASSUME at \in {"run", "trim"}, Selective, NEW n \in Names, existing[n] # Absent
             PROVE  globals[n] # Absent
  BY DEF Kept, Defined
<1>1. CASE globals[n] = existing[n]
  BY <1>1
<1>2. CASE module.function # NoFunction /\ globals[n] = <<module.function, n>>
  <2>1. module.function \in Loadable
    BY <1>2, NextImport DEF Bare, Place, Importing
  <2>2. <<module.function, n>> \in Value
    BY <2>1 DEF Value, Loadable
  <2> QED BY <1>2, <2>2, SourcesAssumption
<1> QED BY <1>1, <1>2 DEF Snapshot

\* What was there before an import is there after it.
LEMMA KeptGrows ==
    ASSUME Bare, Ran, Snapshot, [Next]_vars
    PROVE  Defined(Kept) \subseteq Defined(Kept')
<1> USE DEF Bare
<1>1. ASSUME UNCHANGED globals, at' \notin {"run", "trim"}
      PROVE  Defined(Kept) \subseteq Defined(Kept')
  <2>1. Kept' = globals
    BY <1>1 DEF Kept
  <2> QED BY <2>1, KeptDefined
<1>2. CASE Edit \/ Interpret \/ LoadPrelude \/ Parse \/ ImportsDone \/ Start \/ Ending
  BY <1>1, <1>2, Ended DEF Edit, Interpret, LoadPrelude, Parse, loop, ImportsDone, Start
<1>3. CASE Main
  <2>1. CASE body = <<>>
    BY <1>1, <1>3, <2>1 DEF Main, Ends
  <2>2. CASE body # <<>>
    <3>1. /\ at = "main" /\ at' = "main"
          /\ globals' = [globals EXCEPT ![Head(body)] = <<"script", Head(body)>>]
      BY <1>3, <2>2 DEF Main
    <3>2. Head(body) \in Names
      BY <2>2, SeqFacts DEF TypeOK
    <3>3. <<"script", Head(body)>> \in Value
      BY <3>2 DEF Value
    <3>4. Defined(globals) \subseteq Defined(globals')
      BY <3>1, <3>2, <3>3, SourcesAssumption DEF Defined, TypeOK
    <3> QED BY <3>1, <3>4 DEF Kept
  <2> QED BY <2>1, <2>2
<1>4. CASE Define
  <2>1. Defined(globals) \subseteq Defined(globals')
    BY <1>4, NextName DEF Defined
  <2>2. Kept = (IF Selective THEN existing ELSE globals)
    BY <1>4, NextName DEF Kept
  <2>3. Kept' = (IF Selective THEN existing ELSE globals')
    BY <1>4, NextName DEF Kept, Define
  <2> QED BY <2>1, <2>2, <2>3
<1>5. CASE ImportFails
  BY <1>1, <1>5 DEF ImportFails, loop
<1>6. CASE NotFound \/ LoadModule \/ CompileModule \/ UseCached
  BY <1>1, <1>5, <1>6 DEF NotFound, LoadModule, CompileModule, UseCached
<1>7. CASE RunModule
  BY <1>7, SameModule DEF RunModule, loop, Kept
<1>8. ASSUME UNCHANGED <<globals, existing, files, todo, modules>>,
             at' = at \/ (at \in {"run", "trim"} /\ at' \in {"run", "trim"})
      PROVE  Defined(Kept) \subseteq Defined(Kept')
  BY <1>8, SameModule DEF Kept
<1>9. CASE EndModule \/ Collect \/ UNCHANGED vars
  BY <1>5, <1>8, <1>9 DEF EndModule, Collect, loop, vars
<1>10. CASE Trim
  <2>1. Kept' = globals' /\ globals' = IF Selective THEN Trimmed ELSE globals
    BY <1>10 DEF Trim, Kept
  <2>2. CASE Selective
    <3>1. Defined(existing) \subseteq Defined(globals)
      BY <1>10, <2>2, KeptDefined DEF Trim, Kept
    <3>2. Defined(existing) \subseteq Defined(Trimmed)
      BY <3>1 DEF Trimmed, Defined
    <3> QED BY <1>10, <2>1, <2>2, <3>2 DEF Kept, Trim
  <2>3. CASE ~ Selective
    BY <2>1, <2>3 DEF Kept
  <2> QED BY <2>2, <2>3
<1> QED BY <1>2, <1>3, <1>4, <1>6, <1>7, <1>9, <1>10 DEF Next, Step, Ending

-----------------------------------------------------------------------------
(* No global refers to one that is not there.                              *)

LEMMA PairFirst ==
    ASSUME NEW a, NEW b, NEW v, v = <<a, b>>
    PROVE  v[1] = a
OBVIOUS

\* Trimming leaves globals that refer to each other only: the names that are asked for
\* call no others, and those that come back called none of the module's.
LEMMA TrimCloses ==
    ASSUME Bare, Ran, Snapshot, Cared, Trim, Selective, "private_helpers" \notin Exercised,
           ClosedIn(globals, {}), ClosedIn(existing, {})
    PROVE  ClosedIn(Trimmed, {})
<1> SUFFICES ASSUME NEW n \in Names, Trimmed[n] # Absent, Trimmed[n][1] \in Sources
             PROVE  Helpers[Trimmed[n][1], n] \subseteq Defined(Trimmed)
  BY DEF ClosedIn
<1>1. Defined(existing) \subseteq Defined(globals)
  BY KeptDefined DEF Trim, Kept
<1>2. Defined(existing) \subseteq Defined(Trimmed)
  BY <1>1 DEF Trimmed, Defined
<1>3. CASE Trimmed[n] = existing[n]
  BY <1>2, <1>3 DEF ClosedIn
<1>4. CASE Trimmed[n] # existing[n]
  <2>1. n \in import.names /\ Trimmed[n] = globals[n] /\ globals[n] # existing[n]
    BY <1>4 DEF Trimmed
  <2>2. module.function # NoFunction /\ globals[n] = <<module.function, n>>
    BY <2>1 DEF Snapshot, Trim
  <2>3. /\ module.function \in Loadable /\ import \in Ahead /\ Loads(import)
        /\ Will(Resolved(import.path)) = module.function
        /\ \A x \in Range(Defines[module.function]) : x \in Names /\ x \in Defined(globals)
    BY <2>2, AtTrim
  <2>4. Trimmed[n] = <<module.function, n>>
    BY <2>1, <2>2
  <2>5. ASSUME NEW m \in Helpers[module.function, n]
        PROVE  m \in Defined(Trimmed)
    <3>1. m \in import.names
      BY <2>1, <2>3, <2>5 DEF Cared, Helped
    <3>2. m \in Range(Defines[module.function])
      BY <2>3, <2>5, SourcesAssumption DEF Loadable
    <3>3. m \in Names /\ globals[m] # Absent
      BY <2>3, <3>2 DEF Defined
    <3> QED BY <3>1, <3>3 DEF Trimmed, Defined
  <2>6. Trimmed[n][1] = module.function
    BY <2>4, PairFirst
  <2> QED BY <2>5, <2>6
<1> QED BY <1>3, <1>4

LEMMA ClosedStep ==
    ASSUME Bare, Ran, Snapshot, Cared, Closed, [Next]_vars
    PROVE  Closed'
<1> USE DEF Bare
<1> SUFFICES ASSUME "private_helpers" \notin Exercised
             PROVE  Closed'
  BY DEF Closed
<1>1. /\ ClosedIn(globals, IF at = "run" THEN Range(body) ELSE {})
      /\ at \in {"run", "trim"} /\ Selective => ClosedIn(existing, {})
      /\ NothingUndefined
  BY DEF Closed
<1>2. ASSUME ClosedIn(globals', {}), at' \notin {"run", "trim"}, NothingUndefined'
      PROVE  Closed'
  BY <1>2 DEF Closed, ClosedIn, Defined
<1>3. CASE Edit \/ Interpret \/ LoadPrelude \/ Parse \/ ImportsDone \/ Start \/ Ending
  <2>1. /\ at # "run" /\ UNCHANGED globals /\ at' \notin {"run", "trim"}
        /\ result' = result \/ result' = <<"none">> \/ result' = <<"compile error">>
    BY <1>3, Ended DEF Edit, Interpret, LoadPrelude, Parse, loop, ImportsDone, Start
  <2>2. ClosedIn(globals', {})
    BY <1>1, <2>1
  <2>3. result' # <<"undefined">>
    <3>1. result # <<"undefined">>
      BY <1>1 DEF NothingUndefined
    <3>2. <<"none">> # <<"undefined">> /\ <<"compile error">> # <<"undefined">>
      OBVIOUS
    <3> QED BY <2>1, <3>1, <3>2
  <2> QED BY <1>2, <2>1, <2>2, <2>3 DEF NothingUndefined
<1>4. CASE Main /\ body = <<>>
  <2>1. /\ at = "main" /\ at' = "idle" /\ UNCHANGED globals
        /\ result' = IF \E n \in script.calls : Undefined(n) THEN <<"undefined">>
                     ELSE IF script.stage = "run" THEN <<"runtime error">> ELSE <<"ok">>
    BY <1>4 DEF Main, Ends
  <2>2. ClosedIn(globals, {})
    BY <1>1, <2>1
  <2>3. ASSUME NEW n \in script.calls
        PROVE  ~ Undefined(n)
    <3>1. n \in Defined(globals)
      <4>1. Range(body) = {}
        BY <1>4, SeqFacts DEF TypeOK
      <4>2. script.calls \subseteq Defined(globals) \cup Range(body)
        BY <2>1 DEF Ran
      <4> QED BY <4>1, <4>2
    <3> QED BY <2>2, <3>1 DEF Undefined, ClosedIn, Defined
  <2>4. NothingUndefined'
    BY <2>1, <2>3 DEF NothingUndefined
  <2> QED BY <1>2, <2>1, <2>2, <2>4
<1>5. CASE Main /\ body # <<>>
  <2>1. /\ at = "main" /\ at' = "main" /\ result' = <<"none">>
        /\ globals' = [globals EXCEPT ![Head(body)] = <<"script", Head(body)>>]
    BY <1>5 DEF Main
  <2>2. Head(body) \in Names
    BY <1>5, SeqFacts DEF TypeOK
  <2>3. <<"script", Head(body)>> \in Value
    BY <2>2 DEF Value
  <2>4. Defined(globals) \subseteq Defined(globals')
    BY <2>1, <2>2, <2>3, SourcesAssumption DEF Defined, TypeOK
  <2>5. ASSUME NEW n \in Names, globals'[n] # Absent, globals'[n][1] \in Sources
        PROVE  Helpers[globals'[n][1], n] \subseteq Defined(globals')
    <3>1. n # Head(body)
      BY <2>1, <2>2, <2>5, SourcesAssumption DEF TypeOK
    <3>2. globals'[n] = globals[n]
      BY <2>1, <2>2, <3>1 DEF TypeOK
    <3> QED BY <1>1, <2>1, <2>4, <2>5, <3>2 DEF ClosedIn
  <2>6. ClosedIn(globals', {})
    BY <2>5 DEF ClosedIn
  <2> QED BY <1>2, <2>1, <2>6 DEF NothingUndefined
<1>6. CASE Define
  <2>1. Ran'
    BY RanStep, <1>6 DEF Next, Step
  <2>2. Defined(globals) \cup Range(body) \subseteq Defined(globals') \cup Range(body')
    BY <1>6, NextName DEF Defined
  <2>3. ASSUME NEW n \in Names, globals'[n] # Absent, globals'[n][1] \in Sources
        PROVE  Helpers[globals'[n][1], n] \subseteq Defined(globals') \cup Range(body')
    <3>1. CASE n = Head(body)
      <4>1. Helpers[globals'[n][1], n] \subseteq Range(Defines[module.function])
        <5>1. globals'[n][1] = module.function /\ module.function \in Sources
          BY <1>6, <3>1, NextName DEF Loadable
        <5> QED BY <5>1, SourcesAssumption
      <4>2. ASSUME NEW m \in Range(Defines[module.function]), m \notin Range(body')
            PROVE  m \in Defined(globals')
        <5>1. globals'[m] = <<module.function, m>>
          BY <1>6, <2>1, <4>2, NextName, SourcesAssumption DEF Ran, Loadable
        <5>2. m \in Names
          BY <1>6, <4>2, NextName, DefinesNames DEF Loadable
        <5>3. <<module.function, m>> \in Value
          BY <1>6, <5>2, NextName DEF Value, Loadable
        <5> QED BY <5>1, <5>2, <5>3, SourcesAssumption DEF Defined
      <4> QED BY <4>1, <4>2
    <3>2. CASE n # Head(body)
      <4>1. globals'[n] = globals[n]
        BY <1>6, <3>2, NextName
      <4> QED BY <1>1, <1>6, <2>2, <2>3, <4>1, NextName DEF ClosedIn
    <3> QED BY <3>1, <3>2
  <2>4. ClosedIn(globals', Range(body'))
    BY <2>3 DEF ClosedIn
  <2>5. Selective' => ClosedIn(existing', {})
    BY <1>1, <1>6, NextName DEF Define
  <2>6. NothingUndefined' /\ at' = "run"
    BY <1>6, NextName DEF Define, NothingUndefined
  <2> QED BY <2>4, <2>5, <2>6 DEF Closed, ClosedIn, Defined
<1>7. CASE at # "run" /\ ImportFails
  BY <1>1, <1>2, <1>7 DEF ImportFails, loop, NothingUndefined
<1>8. CASE NotFound \/ LoadModule \/ CompileModule \/ UseCached
  BY <1>1, <1>2, <1>7, <1>8
  DEF NotFound, LoadModule, CompileModule, UseCached, NothingUndefined
<1>9. CASE RunModule
  <2>1. /\ at = "call" /\ UNCHANGED globals /\ result' = <<"none">> /\ Selective' = Selective
        /\ Selective => existing' = globals
    BY <1>9, SameModule DEF RunModule, loop
  <2>2. ClosedIn(globals', {}) /\ (Selective' => ClosedIn(existing', {}))
    BY <1>1, <2>1
  <2> QED BY <2>1, <2>2 DEF Closed, ClosedIn, Defined, NothingUndefined
<1>10. CASE EndModule
  <2>1. at = "run" /\ UNCHANGED globals /\ ClosedIn(globals', {})
    <3>1. at = "run" /\ UNCHANGED globals /\ Range(body) = {}
      BY <1>10, SeqFacts DEF EndModule, ImportFails, loop, TypeOK
    <3> QED BY <1>1, <3>1
  <2>2. CASE ImportFails
    BY <1>2, <2>1, <2>2 DEF ImportFails, NothingUndefined
  <2>3. CASE ~ ImportFails
    <3>1. Selective' = Selective /\ UNCHANGED <<existing, result>> /\ at' = "trim"
      BY <1>10, <2>3, SameModule DEF EndModule, loop
    <3> QED BY <1>1, <2>1, <3>1 DEF Closed, ClosedIn, Defined, NothingUndefined
  <2> QED BY <2>2, <2>3
<1>11. CASE Trim
  <2>1. /\ at = "trim" /\ at' = "imports" /\ result'[1] = "import"
        /\ globals' = IF Selective THEN Trimmed ELSE globals
    BY <1>11 DEF Trim
  <2>2. ClosedIn(globals, {}) /\ (Selective => ClosedIn(existing, {}))
    BY <1>1, <2>1
  <2>3. ClosedIn(globals', {})
    BY <1>11, <2>1, <2>2, TrimCloses
  <2> QED BY <1>2, <2>1, <2>3 DEF NothingUndefined
<1>12. CASE Collect \/ UNCHANGED vars
  <2>1. /\ Selective' = Selective
        /\ UNCHANGED <<globals, existing, at, body, result>>
    BY <1>12, SameModule DEF Collect, loop, vars
  <2> QED BY <1>1, <2>1 DEF Closed, ClosedIn, Defined, NothingUndefined
<1> QED BY <1>3, <1>4, <1>5, <1>6, <1>8, <1>9, <1>10, <1>11, <1>12 DEF Next, Step, Ending

-----------------------------------------------------------------------------
(* The prelude.                                                            *)

\* A prelude that was found to provide its names does not fail.
LEMMA PreludeLoads ==
    ASSUME Bare, Cared, "failing_prelude" \notin Exercised,
           ~ preludeLoaded, at \notin {"idle", "prelude"}, todo # <<>>
    PROVE  /\ Found(import.path) # {}
           /\ at = "load" => ~ Unloadable(file)
           /\ at \in {"call", "run", "trim"} =>
                 /\ module.function \in Loadable /\ Stage[module.function] = "none"
                 /\ import.names \subseteq Range(Defines[module.function])
<1> USE DEF Bare
<1>1. import \in Import /\ import \in Range(todo)
  BY NextImport
<1>2. import \in AheadOfPrelude
  BY <1>1 DEF AheadOfPrelude
<1>3. Provides(import)
  BY <1>2 DEF Cared
<1>4. /\ Found(import.path) # {} /\ file \in Files /\ Will(file) \in Loadable
      /\ Stage[Will(file)] = "none" /\ import.names \subseteq Range(Defines[Will(file)])
  BY <1>1, <1>3, NextImport DEF Provides, Loads, file
<1>5. ASSUME at = "load"
      PROVE  ~ Unloadable(file)
  <2>1. files[file] \in Loadable
    BY <1>4, <1>5 DEF Will, Place, module
  <2> QED BY <2>1, SourcesAssumption DEF Unloadable, Loadable
<1>6. ASSUME at \in {"call", "run", "trim"}
      PROVE  module.function = Will(file)
  BY <1>4, <1>6 DEF Will, module, Place, Importing, CacheSound
<1> QED BY <1>4, <1>5, <1>6

LEMMA PreludeStep ==
    ASSUME Bare, Ran, Snapshot, Cared, PreludeSoFar, [Next]_vars
    PROVE  PreludeSoFar'
<1> SUFFICES ASSUME "failing_prelude" \notin Exercised
             PROVE  PreludeSoFar'
  BY DEF PreludeSoFar
<1> USE DEF Bare
<1>1. Defined(Kept) \subseteq Defined(Kept')
  BY KeptGrows
<1> DEFINE There(i) == i.names \subseteq Defined(Kept')
<1>2. \A i \in Range(Prelude) : i.names \subseteq Defined(Kept) => There(i)
  BY <1>1
<1>3. ASSUME \A i \in Range(Prelude) : There(i)
      PROVE  PreludeSoFar'
  BY <1>3 DEF PreludeSoFar, Defined
<1>4. ASSUME ~ preludeLoaded', \A i \in Range(Prelude) : i \in Range(todo') \/ There(i)
      PROVE  PreludeSoFar'
  BY <1>4 DEF PreludeSoFar, Defined
<1>5. ASSUME ~ preludeLoaded', at' \in {"idle", "prelude"}
      PROVE  PreludeSoFar'
  BY <1>5 DEF PreludeSoFar
<1>6. CASE preludeLoaded
  <2>1. \A i \in Range(Prelude) : There(i)
    BY <1>2, <1>6 DEF PreludeSoFar
  <2> QED BY <1>3, <2>1
<1>7. CASE ~ preludeLoaded
  <2> USE <1>7
  <2>1. CASE Edit \/ Interpret
    BY <1>5, <2>1 DEF Edit, Interpret
  <2>2. CASE LoadPrelude
    <3>1. CASE Prelude = <<>>
      <4>1. Range(Prelude) = {}
        BY <3>1 DEF Range
      <4> QED BY <1>3, <4>1
    <3>2. CASE Prelude # <<>>
      BY <1>4, <2>2, <3>2 DEF LoadPrelude
    <3> QED BY <3>1, <3>2
  <2>3. at \notin {"idle", "prelude"} =>
           \A i \in Range(Prelude) : i \in Range(todo) \/ There(i)
    BY <1>2 DEF PreludeSoFar
  <2>4. ASSUME at \notin {"idle", "prelude"}, UNCHANGED <<todo, preludeLoaded>>
        PROVE  PreludeSoFar'
    BY <1>4, <2>3, <2>4
  <2>5. CASE Parse \/ Start \/ Main
    BY <2>5 DEF Parse, Start, Main, Place
  <2>6. CASE ImportsDone
    <3>1. Range(todo) = {} /\ at \notin {"idle", "prelude"}
      BY <2>6, SeqFacts DEF ImportsDone, TypeOK
    <3> QED BY <1>3, <2>3, <3>1
  <2>7. CASE Define \/ LoadModule \/ RunModule \/ Collect
    BY <2>4, <2>7 DEF Define, LoadModule, RunModule, Collect, loop
  <2>8. CASE NotFound
    BY <2>8, PreludeLoads DEF NotFound
  <2>9. CASE CompileModule
    <3>1. ~ Unloadable(file)
      BY <2>9, PreludeLoads DEF CompileModule, Place, Importing
    <3> QED BY <2>4, <2>9, <3>1 DEF CompileModule, loop
  <2>10. CASE UseCached
    <3>1. module.state # "loading"
      BY <2>10, NextImport DEF UseCached, CacheSound, module
    <3> QED BY <2>4, <2>10, <3>1 DEF UseCached, loop
  <2>11. CASE EndModule
    <3>1. Stage[module.function] # "run"
      BY <2>11, PreludeLoads DEF EndModule, Place, Importing
    <3> QED BY <2>4, <2>11, <3>1 DEF EndModule, loop
  <2>12. CASE Trim
    <3>1. /\ at = "trim" /\ todo # <<>> /\ UNCHANGED preludeLoaded /\ todo' = Tail(todo)
          /\ Range(todo) = {import} \cup Range(todo')
      BY <2>12, NextImport DEF Trim, loop, Place, Importing, Remaining
    <3>2. /\ module.function \in Loadable /\ import.names \subseteq Range(Defines[module.function])
      BY <3>1, PreludeLoads
    <3>3. import.names \subseteq Defined(globals)
      <4>1. module.function # NoFunction
        BY <3>2, SourcesAssumption DEF Loadable
      <4> QED BY <2>12, <3>2, <4>1, AtTrim
    <3>4. There(import)
      <4>1. Kept' = globals' /\ globals' = IF Selective THEN Trimmed ELSE globals
        BY <2>12 DEF Trim, Kept
      <4> QED BY <3>3, <4>1 DEF Trimmed, Defined
    <3> QED BY <1>4, <2>3, <3>1, <3>4
  <2>13. CASE UNCHANGED vars
    <3>1. UNCHANGED <<at, todo, preludeLoaded>>
      BY <2>13 DEF vars
    <3> QED BY <1>4, <1>5, <2>3, <3>1
  <2>14. CASE Ending
    <3>1. at = "failed" /\ todo = <<>>
      BY <2>14, Ended DEF Place
    <3>2. Range(todo) = {}
      BY <3>1, SeqFacts DEF TypeOK
    <3> QED BY <1>3, <2>3, <3>1, <3>2
  <2> QED BY <2>1, <2>2, <2>5, <2>6, <2>7, <2>8, <2>9, <2>10, <2>11, <2>12, <2>13, <2>14
          DEF Next, Step, Ending
<1> QED BY <1>6, <1>7

-----------------------------------------------------------------------------
(* The invariants.                                                         *)

\* The inductive invariant, of programs that meet any hazard at all: each part that
\* depends on programs meeting none of a kind says so.
THEOREM Invariance == Spec => []IInv
<1>1. Init => IInv
  <2> SUFFICES ASSUME Init PROVE IInv
    OBVIOUS
  <2>1. Bare
    BY BareInit
  <2>2. Ran /\ Snapshot
    BY DEF Init, Ran, Snapshot
  <2>3. Range(todo) = {}
    BY DEF Init, Range
  <2>4. Cared
    BY <2>3 DEF Init, Cared, Ahead, AheadOfPrelude
  <2>5. ClosedIn(globals, {})
    BY SourcesAssumption DEF Init, ClosedIn
  <2>6. Closed
    BY <2>5 DEF Init, Closed, NothingUndefined
  <2>7. PreludeSoFar
    BY DEF Init, PreludeSoFar
  <2> QED BY <2>1, <2>2, <2>4, <2>6, <2>7 DEF IInv, Bare
<1>2. IInv /\ [Next]_vars => IInv'
  BY BareStep, RanStep, SnapshotStep, CaredStep, ClosedStep, PreludeStep
  DEF IInv, Bare
<1> QED BY <1>1, <1>2, PTL DEF Spec

\* What interpretInternal, the cache and the globals hold.
THEOREM Typing == Spec => []TypeOK
<1>1. IInv => TypeOK
  BY DEF IInv
<1> QED BY <1>1, Invariance, PTL

\* A module has a function exactly when it is loaded, and no import finds one that is
\* being loaded: whatever files change, fail or are imported again.
THEOREM CacheIsSound == Spec => []CacheSound
<1>1. IInv => CacheSound
  BY DEF IInv
<1> QED BY <1>1, Invariance, PTL

\* The debugger is off during imports, and back whatever way a line ends.
THEOREM DebuggerIsKept == Spec => []DebuggerKept
<1>1. IInv => DebuggerKept
  BY DEF IInv
<1> QED BY <1>1, Invariance, PTL

\* The type check is right about globals, of programs that ask for what the names they
\* ask for call; modules may fail, throw and be imported again.
THEOREM NothingIsUndefined ==
    ASSUME "private_helpers" \notin Exercised PROVE Spec => []NothingUndefined
<1>1. IInv => NothingUndefined
  BY DEF IInv, Closed
<1> QED BY <1>1, Invariance, PTL

\* The names of a prelude that loads are there once and for all.
THEOREM PreludeIsThere ==
    ASSUME "failing_prelude" \notin Exercised PROVE Spec => []PreludeThere
<1>1. IInv => PreludeThere
  <2> SUFFICES ASSUME IInv PROVE PreludeThere
    OBVIOUS
  <2>1. Defined(Kept) \subseteq Defined(globals)
    BY KeptDefined DEF IInv, Bare
  <2> QED BY <2>1 DEF IInv, PreludeSoFar, PreludeThere
<1> QED BY <1>1, Invariance, PTL

-----------------------------------------------------------------------------
(* The refinement of Namespaces.  What a program sees is Kept: an import in *)
(* progress shows nothing of a module that is yet to be trimmed.            *)

LEMMA SeenIsKept == Seen = [n \in Defined(Kept) |-> Kept[n]]
BY DEF Seen, Kept

LEMMA SameSeen ==
    ASSUME Kept' = Kept
    PROVE  Seen' = Seen
<1>1. Seen' = [n \in Defined(Kept') |-> Kept'[n]]
  BY SeenIsKept DEF Defined, Seen, Kept
<1> QED BY <1>1, SeenIsKept

LEMMA NoAnswer ==
    ASSUME NEW s, result' = <<s>>, s \notin {"failed", "import"}
    PROVE  Answer' = <<>>
<1>1. <<s>> # <<"failed">> /\ <<s>>[1] # "import"
  OBVIOUS
<1>2. result' # <<"failed">> /\ result'[1] # "import"
  BY <1>1
<1> QED BY <1>2 DEF Answer

\* Steps that answer nothing, fail or define a name, as Namespaces has them.
LEMMA OtherStep ==
    ASSUME Kept' = Kept, NEW s, result' = <<s>>, s \notin {"failed", "import"}
    PROVE  Promise!Next
BY SameSeen, NoAnswer DEF Promise!Next, Promise!Other

LEMMA FailStep ==
    ASSUME Kept' = Kept, result' = <<"failed">>
    PROVE  Promise!Next
<1>1. Answer' = <<"failed">>
  BY DEF Answer
<1> QED BY <1>1, SameSeen DEF Promise!Next, Promise!Fail

LEMMA StutterStep ==
    ASSUME Kept' = Kept, UNCHANGED result
    PROVE  UNCHANGED Promise!vars
<1>1. Answer' = Answer
  BY DEF Answer
<1> QED BY <1>1, SameSeen DEF Promise!vars

LEMMA DefineStep ==
    ASSUME NEW n \in Names, NEW v \in Value,
           Kept \in [Names -> Value \cup {Absent}], Kept' = [Kept EXCEPT ![n] = v],
           NEW s, result' = <<s>>, s \notin {"failed", "import"}
    PROVE  Promise!Next
<1>1. Defined(Kept') = Defined(Kept) \cup {n}
  BY SourcesAssumption DEF Defined
<1>2. Seen' = [m \in Defined(Kept) \cup {n} |-> Kept'[m]]
  BY <1>1, SeenIsKept DEF Defined, Seen, Kept
<1>3. DOMAIN [x \in {n} |-> v] = {n} /\ DOMAIN Seen = Defined(Kept)
  BY SeenIsKept
<1>4. Seen' = Promise!Overlay(Seen, [x \in {n} |-> v])
  BY <1>2, <1>3, SeenIsKept DEF Promise!Overlay, Defined
<1> QED BY <1>4, NoAnswer DEF Promise!Next, Promise!Define

\* The end of an import: all of the module's names, or those that were asked for.
LEMMA TrimStep ==
    ASSUME IInv, Trim, "failed_again" \notin Exercised
    PROVE  Promise!Next
<1> DEFINE s == module.function
           names == import.names
           Exports == [x \in {y \in Sources : Stage[y] = "none"} |->
                          [n \in Range(Defines[x]) |-> <<x, n>>]]
<1>1. Bare /\ Ran /\ Snapshot /\ Cared
  BY DEF IInv, Bare
<1>2. /\ at = "trim" /\ at' = "imports" /\ result' = <<"import", names, file, s>>
      /\ globals' = (IF Selective THEN Trimmed ELSE globals)
  BY DEF Trim
<1>3. file \in Files /\ file = Resolved(import.path) /\ Found(import.path) # {}
  BY <1>1, <1>2, NextImport DEF Bare, Place, Importing, file
<1>4. s # NoFunction
  <2>1. module.state \notin {"none", "loading"}
    BY <1>1, <1>2, <1>3 DEF Bare, Place, Importing, CacheSound, module
  <2>2. Will(file) = s
    BY <2>1 DEF Will, module
  <2>3. Fresh(import)
    BY <1>1, AtTrim DEF Cared
  <2> QED BY <1>3, <2>2, <2>3 DEF Fresh
<1>5. /\ s \in Sources /\ Stage[s] = "none" /\ names \subseteq Names
      /\ \A n \in Range(Defines[s]) :
            n \in Names /\ globals[n] = <<s, n>> /\ n \in Defined(globals)
  BY <1>1, <1>4, AtTrim DEF Loadable
<1>6. s \in DOMAIN Exports /\ Exports[s] = [n \in Range(Defines[s]) |-> <<s, n>>]
  BY <1>5
<1>7. Kept' = globals'
  BY <1>2 DEF Kept
<1>8. Seen' = [n \in Defined(globals') |-> globals'[n]]
  BY <1>7, SeenIsKept DEF Defined, Seen, Kept
<1>9. CASE ~ Selective
  <2>1. Kept = globals /\ globals' = globals
    BY <1>2, <1>9 DEF Kept
  <2>2. Seen' = Seen /\ Seen = [n \in Defined(globals) |-> globals[n]]
    BY <1>7, <2>1, SameSeen, SeenIsKept
  <2>3. Answer' = <<"imported", file, s>>
    BY <1>2, <1>9 DEF Answer, Selective
  <2>4. DOMAIN Exports[s] \subseteq DOMAIN Seen
    BY <1>5, <1>6, <2>2
  <2>5. Exports[s] = [n \in DOMAIN Exports[s] |-> Seen[n]]
    BY <1>5, <1>6, <2>2
  <2>6. Promise!Import(file, s)
    BY <2>2, <2>3, <2>4, <2>5 DEF Promise!Import
  <2> QED BY <1>3, <1>6, <2>6 DEF Promise!Next
<1>10. CASE Selective
  <2>1. Kept = existing /\ globals' = Trimmed /\ names # {}
    BY <1>2, <1>10 DEF Kept, Selective
  <2>2. Seen = [n \in Defined(existing) |-> existing[n]]
    BY <2>1, SeenIsKept
  <2>3. Answer' = <<"selected", file, s, names>>
    BY <1>2, <2>1 DEF Answer
  <2>4. \A n \in Names : Trimmed[n] =
           IF n \in names \cap Range(Defines[s]) THEN <<s, n>> ELSE existing[n]
    BY <1>1, <1>2, <1>5, <1>10 DEF Trimmed, Snapshot
  <2>5. \A n \in names \cap Range(Defines[s]) : n \in Names /\ <<s, n>> # Absent
    <3>1. \A n \in Names : <<s, n>> \in Value
      BY <1>5 DEF Value
    <3> QED BY <1>5, <3>1, SourcesAssumption
  <2>6. Defined(Trimmed) = Defined(existing) \cup (names \cap Range(Defines[s]))
    BY <2>4, <2>5 DEF Defined
  <2>7. DOMAIN Exports[s] \cap names = names \cap Range(Defines[s])
    BY <1>6
  <2>8. Promise!Chosen(s, names) = [n \in names \cap Range(Defines[s]) |-> <<s, n>>]
    BY <1>5, <1>6, <2>7 DEF Promise!Chosen
  <2>9. Seen' = Promise!Overlay(Seen, Promise!Chosen(s, names))
    <3>1. Defined(Trimmed) \subseteq Names
      BY DEF Defined
    <3>2. Seen' = [n \in Defined(existing) \cup (names \cap Range(Defines[s])) |-> Trimmed[n]]
      BY <1>8, <2>1, <2>6
    <3> QED BY <2>2, <2>4, <2>6, <2>8, <3>1, <3>2 DEF Promise!Overlay
  <2>10. Promise!Select(file, s, names)
    BY <2>3, <2>9 DEF Promise!Select
  <2>11. names \in (SUBSET Names) \ {{}}
    BY <1>5, <2>1
  <2> QED BY <1>3, <1>6, <2>10, <2>11 DEF Promise!Next
<1> QED BY <1>9, <1>10

LEMMA RefineStep ==
    ASSUME IInv, [Next]_vars, {"failed_again", "failing_body"} \cap Exercised = {}
    PROVE  Promise!Next \/ UNCHANGED Promise!vars
<1>1. Bare /\ Ran /\ Snapshot /\ Cared
  BY DEF IInv, Bare
<1> USE <1>1 DEF Bare
<1>2. ASSUME UNCHANGED globals, at \notin {"run", "trim"}, at' \notin {"run", "trim"}
      PROVE  Kept' = Kept
  BY <1>2 DEF Kept
<1>3. CASE Edit
  BY <1>2, <1>3, StutterStep DEF Edit
<1>4. CASE Interpret
  <2>1. result' = <<"none">> /\ Kept' = Kept
    BY <1>2, <1>4 DEF Interpret
  <2> QED BY <2>1, OtherStep
<1>5. CASE LoadPrelude
  BY <1>2, <1>5, StutterStep DEF LoadPrelude
<1>6. CASE Parse \/ Start \/ Ending
  <2>1. Kept' = Kept /\ (UNCHANGED result \/ result' = <<"compile error">>)
    BY <1>2, <1>6, Ended DEF Parse, Start, loop
  <2> QED BY <2>1, OtherStep, StutterStep
<1>7. CASE ImportsDone
  <2>1. result' = <<"none">> /\ Kept' = Kept
    BY <1>2, <1>7 DEF ImportsDone
  <2> QED BY <2>1, OtherStep
<1>8. CASE Main /\ body = <<>>
  <2>1. /\ Kept' = Kept
        /\ \/ result' = <<"undefined">>
           \/ result' = <<"runtime error">>
           \/ result' = <<"ok">>
    BY <1>2, <1>8 DEF Main, Ends
  <2> QED BY <2>1, OtherStep
<1>9. CASE Main /\ body # <<>>
  <2>1. /\ globals' = [globals EXCEPT ![Head(body)] = <<"script", Head(body)>>]
        /\ at = "main" /\ at' = "main" /\ result' = <<"none">>
    BY <1>9 DEF Main
  <2>2. Kept = globals /\ Kept' = globals'
    BY <2>1 DEF Kept
  <2>3. Head(body) \in Names
    BY <1>9, SeqFacts DEF TypeOK
  <2>4. <<"script", Head(body)>> \in Value
    BY <2>3 DEF Value
  <2>5. Kept \in [Names -> Value \cup {Absent}]
    BY <2>2 DEF TypeOK
  <2> QED BY <2>1, <2>2, <2>3, <2>4, <2>5, DefineStep
<1>10. CASE Define
  <2>1. /\ globals' = [globals EXCEPT ![Head(body)] = <<module.function, Head(body)>>]
        /\ result' = <<"none">> /\ existing' = existing
    BY <1>10 DEF Define
  <2>2. CASE Selective
    <3>1. Kept' = Kept
      BY <1>10, <2>1, <2>2, NextName DEF Kept
    <3> QED BY <2>1, <3>1, OtherStep
  <2>3. CASE ~ Selective
    <3>1. Kept = globals /\ Kept' = globals'
      BY <1>10, <2>3, NextName DEF Kept
    <3>2. Kept \in [Names -> Value \cup {Absent}]
      BY <3>1 DEF TypeOK
    <3> QED BY <1>10, <2>1, <3>1, <3>2, NextName, DefineStep
  <2> QED BY <2>2, <2>3
<1>11. CASE ImportFails /\ at \in {"imports", "load"}
  <2>1. Kept' = Kept /\ result' = <<"failed">>
    BY <1>2, <1>11 DEF ImportFails, loop
  <2> QED BY <2>1, FailStep
<1>12. CASE NotFound
  BY <1>11, <1>12 DEF NotFound
<1>13. CASE (LoadModule \/ CompileModule \/ UseCached) /\ ~ ImportFails
  <2>1. Kept' = Kept /\ UNCHANGED result
    BY <1>2, <1>13 DEF LoadModule, CompileModule, UseCached
  <2> QED BY <2>1, StutterStep
<1>14. CASE LoadModule \/ CompileModule \/ UseCached
  BY <1>11, <1>13, <1>14 DEF LoadModule, CompileModule, UseCached
<1>15. CASE RunModule
  <2>1. result' = <<"none">> /\ Kept' = Kept
    BY <1>15, SameModule DEF RunModule, loop, Kept
  <2> QED BY <2>1, OtherStep
<1>16. CASE EndModule
  <2>1. CASE Stage[module.function] = "run"
    <3>1. ImportFails /\ at = "run" /\ body = <<>>
      BY <1>16, <2>1 DEF EndModule
    <3>2. ~ Selective
      <4>1. import \in Import /\ import \in Range(todo) /\ module.function \in Loadable
        BY <3>1, NextImport DEF Place, Importing
      <4>2. Will(file) = module.function /\ Found(import.path) # {}
        <5>1. Found(import.path) # {} /\ module.state # "none" /\ file \in Files
          BY <3>1, NextImport DEF Place, Importing
        <5>2. module.state # "loading"
          BY <3>1, <5>1 DEF CacheSound, module
        <5> QED BY <5>1, <5>2 DEF Will, module
      <4>3. Runs(import)
        BY <4>1 DEF Cared, Ahead
      <4> QED BY <2>1, <4>1, <4>2, <4>3 DEF Runs, Loads, Selective, file
    <3>3. Kept' = Kept /\ result' = <<"failed">>
      BY <3>1, <3>2 DEF Kept, ImportFails, loop
    <3> QED BY <3>3, FailStep
  <2>2. CASE Stage[module.function] # "run"
    <3>1. Kept' = Kept /\ UNCHANGED result
      BY <1>16, <2>2, SameModule DEF EndModule, loop, Kept
    <3> QED BY <3>1, StutterStep
  <2> QED BY <2>1, <2>2
<1>17. CASE Trim
  BY <1>17, TrimStep
<1>18. CASE Collect \/ UNCHANGED vars
  <2>1. Kept' = Kept /\ UNCHANGED result
    BY <1>18, SameModule DEF Collect, loop, vars, Kept
  <2> QED BY <2>1, StutterStep
<1> QED BY <1>3, <1>4, <1>5, <1>6, <1>7, <1>8, <1>9, <1>10, <1>12, <1>14, <1>15, <1>16,
           <1>17, <1>18 DEF Next, Step, Ending

\* Imports implements Namespaces: whatever it does with a cache, a snapshot of the
\* globals and a trim, a program sees an import give it the names it asked for, as the
\* module defines them, or fail and give it none; of programs that do not import again
\* a module that failed, nor select from one that throws.
THEOREM ImportsImplementNamespaces ==
    ASSUME {"failed_again", "failing_body"} \cap Exercised = {}
    PROVE  Spec => Implements
<1>1. Init => Promise!Init
  <2> SUFFICES ASSUME Init PROVE Promise!Init
    OBVIOUS
  <2>1. Answer = <<>>
    <3>1. result = <<"none">>
      BY DEF Init
    <3>2. result # <<"failed">> /\ result[1] # "import"
      BY <3>1
    <3> QED BY <3>2 DEF Answer
  <2>2. DOMAIN Seen \subseteq Names
    BY SeenIsKept DEF Defined
  <2> QED BY <2>1, <2>2 DEF Promise!Init
<1>2. IInv /\ [Next]_vars => [Promise!Next]_(Promise!vars)
  BY RefineStep
<1>3. Spec => Promise!Spec
  BY <1>1, <1>2, Invariance, PTL DEF Spec, Promise!Spec
<1> QED BY <1>3 DEF Implements

-----------------------------------------------------------------------------
(* A line comes to an end.  Where it is: the turns interpretInternal takes, *)
(* and within a turn of imports, the stages of the one that is next.       *)

Turn ==
    CASE at = "prelude" -> 5
      [] at = "parse" -> 3
      [] at = "check" -> 1
      [] at \in {"idle", "main", "failed", "freed"} -> 0
      [] OTHER -> IF preludeLoaded THEN 2 ELSE 4
Spot ==
    CASE at = "imports" -> 4
      [] at = "load" -> 3
      [] at = "call" -> 2
      [] at = "run" -> 1
      [] OTHER -> 0

\* Nearer to the end, in the lexicographic order of the turn, the imports it has yet to
\* do, the stage of the next, and what the code that runs has yet to define.
Nearer ==
    \/ Turn' < Turn
    \/ Turn' = Turn /\ Len(todo') < Len(todo)
    \/ Turn' = Turn /\ todo' = todo /\ Spot' < Spot
    \/ UNCHANGED <<preludeLoaded, at, todo>> /\ Len(body') < Len(body)

\* Every step of a line ends it or brings it nearer to its end, and neither the
\* collector nor the user takes it back: no import is done again for the imports that
\* follow it, and the prelude is not loaded again for the line that waits for it.
LineShrinks ==
    [][at # "idle" => IF Step THEN at' = "idle" \/ Nearer
                      ELSE UNCHANGED <<preludeLoaded, at, todo, body>>]_vars

LEMMA StepShrinks ==
    ASSUME Bare, Step
    PROVE  at' = "idle" \/ Nearer
<1> USE DEF Bare
<1>1. /\ preludeLoaded \in BOOLEAN /\ todo \in Seq(Import) /\ body \in Seq(Names)
      /\ todo # <<>> => Len(Tail(todo)) < Len(todo)
      /\ body # <<>> => Len(Tail(body)) < Len(body)
  <2>1. preludeLoaded \in BOOLEAN /\ todo \in Seq(Import) /\ body \in Seq(Names)
    BY DEF TypeOK
  <2>2. /\ todo # <<>> => Len(Tail(todo)) = Len(todo) - 1
        /\ body # <<>> => Len(Tail(body)) = Len(body) - 1
    BY <2>1, SeqFacts
  <2>3. Len(todo) \in Nat /\ Len(body) \in Nat
    BY <2>1
  <2> QED BY <2>1, <2>2, <2>3
<1>2. CASE LoadPrelude
  BY <1>1, <1>2 DEF LoadPrelude, Place, Nearer, Turn
<1>3. CASE Parse
  <2>1. preludeLoaded /\ at = "parse" /\ at' = "imports" /\ preludeLoaded'
    BY <1>3 DEF Parse, loop, Place
  <2>2. Turn' = 2 /\ Turn = 3
    BY <2>1 DEF Turn
  <2> QED BY <2>2 DEF Nearer
<1>4. CASE ImportsDone
  BY <1>1, <1>4 DEF ImportsDone, Nearer, Turn
<1>5. CASE Start
  <2>1. at = "check" /\ at' = "main"
    BY <1>5 DEF Start
  <2>2. Turn' = 0 /\ Turn = 1
    BY <2>1 DEF Turn
  <2> QED BY <2>2 DEF Nearer
<1>6. CASE Main
  BY <1>1, <1>6 DEF Main, Ends, loop, Nearer
<1>7. CASE Define
  BY <1>1, <1>7 DEF Define, loop, Nearer
<1>8. ASSUME UNCHANGED <<preludeLoaded, todo>>,
             \/ at = "imports" /\ at' \in {"load", "call"}
             \/ at = "load" /\ at' = "call"
             \/ at = "call" /\ at' \in {"run", "trim"}
             \/ at = "run" /\ at' = "trim"
      PROVE  Nearer
  <2>1. Turn' = Turn
    BY <1>8 DEF Turn
  <2>2. Spot' < Spot
    BY <1>8 DEF Spot
  <2> QED BY <1>8, <2>1, <2>2 DEF Nearer
<1>13. ASSUME at \in {"imports", "load", "call", "run"}, at' \in {"failed", "freed"}
       PROVE  Nearer
  <2>1. Turn' = 0
    BY <1>13 DEF Turn
  <2>2. Turn \in {2, 4}
    BY <1>13 DEF Turn
  <2> QED BY <2>1, <2>2 DEF Nearer
<1>9. CASE LoadModule \/ RunModule
  BY <1>8, <1>9, <1>13 DEF LoadModule, RunModule, loop
<1>10. ASSUME ImportFails, at \in {"imports", "load", "run"}
       PROVE  Nearer
  BY <1>10, <1>13 DEF ImportFails
<1>11. CASE NotFound \/ CompileModule \/ UseCached \/ EndModule
  BY <1>8, <1>10, <1>11 DEF NotFound, CompileModule, UseCached, EndModule, loop
<1>12. CASE Trim
  <2>1. todo # <<>> /\ todo' = Tail(todo) /\ Len(todo') < Len(todo)
    BY <1>1, <1>12 DEF Trim, Remaining, Place, Importing
  <2>2. Turn' = Turn
    BY <1>12 DEF Trim, loop, Turn
  <2> QED BY <2>1, <2>2 DEF Nearer
<1>14. CASE Ending
  BY <1>14, Ended
<1> QED BY <1>2, <1>3, <1>4, <1>5, <1>6, <1>7, <1>9, <1>11, <1>12, <1>14 DEF Step, Ending

\* No line runs forever, of any program: whatever modules fail, throw or are cached,
\* a measure of what is left of the line falls with every step.
THEOREM LinesShrink == Spec => LineShrinks
<1>1. ASSUME Bare, Next, at # "idle"
      PROVE  IF Step THEN at' = "idle" \/ Nearer
             ELSE UNCHANGED <<preludeLoaded, at, todo, body>>
  <2>1. CASE Step
    BY <1>1, <2>1, StepShrinks
  <2>2. CASE ~ Step
    <3>1. Collect
      BY <1>1, <2>2 DEF Next, Edit, Interpret
    <3> QED BY <2>2, <3>1 DEF Collect, loop
  <2> QED BY <2>1, <2>2
<1>2. Bare /\ [Next]_vars =>
        [at # "idle" => IF Step THEN at' = "idle" \/ Nearer
                        ELSE UNCHANGED <<preludeLoaded, at, todo, body>>]_vars
  BY <1>1
<1> QED BY <1>2, BareAlways, PTL DEF Spec, LineShrinks
=============================================================================
