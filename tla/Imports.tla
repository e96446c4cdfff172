------------------------------- MODULE Imports -------------------------------
(***************************************************************************)
(* interpretInternal, loadPrelude, processImports (src/src/runtime/vm.c)   *)
(* and the module system (src/src/module/module.c).  A line of the REPL,   *)
(* or a script, is interpreted: the prelude's imports on the first time,   *)
(* its own imports, then the type check, the lowering, the compiler and    *)
(* the machine.  An import loads a module, runs it, and trims the globals. *)
(*                                                                         *)
(* A source stands for a file's text: where it stops (Stage), what it      *)
(* defines, in order, and the globals its functions call (Helpers).  The   *)
(* user may change files between two lines, and the collector may run      *)
(* whenever the code allocates.                                            *)
(***************************************************************************)
EXTENDS Integers, FiniteSets, SequencesExt

CONSTANTS
    Names,
    Files,               \* paths that resolveModulePath returns
    ImportPaths,         \* what an import statement may name
    Candidates,          \* the files each stands for, in the order they are tried
    Sources, Stage, Defines, Helpers,
    Prelude,             \* the import statements of std/prelude; <<>>: there is none
    Scripts,             \* what may be interpreted
    Natives,             \* names that initVM defines
    InitialFiles, Edits, \* what the files contain; the changes a user may make
    Absent,              \* the value of a global there is not
    Exercised,           \* what programs do of HazardousUses
    MaxLines             \* bound: lines interpreted

HazardousUses == {
    "private_helpers",  \* a selective import leaves out what its names call
    "failed_again",     \* a module that failed is imported again
    "failing_body",     \* a module that a selective import runs throws
    "failing_prelude"}  \* one that the prelude imports does not load or run

Stages == {"parse", "type", "lower", "compile", "run", "none"}
Missing == "missing"
Directory == "directory" \* stat finds it, and it cannot be read
NoFunction == "NULL"
NoSnapshot == [n \in Names |-> Absent]
Unseen == [state |-> "none", function |-> NoFunction]

Value == {<<s, n>> : s \in Sources \cup {"native", "script"}, n \in Names}
Import == [path : ImportPaths, names : SUBSET Names] \* no names: import all
Script == [stage : Stages, imports : Seq(Import), calls : SUBSET Names, defines : Seq(Names)]

ASSUME SourcesAssumption ==
    /\ Stage \in [Sources -> Stages]
    /\ Defines \in [Sources -> Seq(Names)]
    /\ Helpers \in [Sources \X Names -> SUBSET Names]
    /\ \A s \in Sources, n \in Names : Helpers[s, n] \subseteq Range(Defines[s])
    /\ Sources \cap {Missing, Directory, NoFunction, "native", "script"} = {}
    /\ Absent \notin Value
ASSUME FilesAssumption ==
    /\ Candidates \in [ImportPaths -> Seq(Files)]
    /\ \A fs \in {InitialFiles} \cup Edits : fs \in [Files -> Sources \cup {Missing, Directory}]
ASSUME ScriptsAssumption ==
    /\ Scripts \subseteq Script /\ Scripts # {} /\ Prelude \in Seq(Import)
    /\ Natives \subseteq Names /\ MaxLines \in Nat /\ Exercised \subseteq HazardousUses

VARIABLES
    files,
    modules,             \* moduleSystem.modules, and Unseen for files it has not
    globals,
    preludeLoaded,
    debuggerEnabled,
    debuggerWasEnabled,  \* of interpretInternal
    at,                  \* how far interpretInternal is
    script,
    todo,                \* the import statements processImports has yet to do
    body,                \* of the module that runs: what it has yet to define
    existing,            \* existingKeys and existingValues
    swept,               \* cached modules whose function the collector freed
    result,              \* of the last import, or of the line
    lines

vars == <<files, modules, globals, preludeLoaded, debuggerEnabled, debuggerWasEnabled,
          at, script, todo, body, existing, swept, result, lines>>
loop == <<files, preludeLoaded, debuggerEnabled, debuggerWasEnabled, script, lines>>

-----------------------------------------------------------------------------
(* Paths and the cache.                                                    *)

\* resolveModulePath: the first candidate there is.
Found(path) == {i \in DOMAIN Candidates[path] : files[Candidates[path][i]] # Missing}
Resolved(path) == Candidates[path][Min(Found(path))]

import == Head(todo)
Selective == import.names # {}
file == Resolved(import.path)
module == modules[file]

Defined(gs) == {n \in Names : gs[n] # Absent}
Fails(s) == Stage[s] \notin {"none", "run"}

\* The stages of loadModule that end with no function.
Unloadable(f) == files[f] = Directory \/ Fails(files[f])

\* What the module would run, and whether a program imports it without meeting a
\* hazard that it is not to meet.
Content(f) == IF modules[f].state = "none" THEN files[f] ELSE modules[f].function
Careful(i, ofPrelude) ==
    LET found == Resolved(i.path)
        s == Content(found)
        loads == Found(i.path) # {} /\ s \in Sources /\ ~ Fails(s)
    IN  /\ "failing_prelude" \in Exercised \/
           (ofPrelude => loads /\ Stage[s] = "none" /\ i.names \subseteq Range(Defines[s]))
        /\ "failed_again" \in Exercised \/ Found(i.path) = {} \/ s # NoFunction
        /\ "private_helpers" \in Exercised \/ i.names = {} \/
           (loads => \A n \in i.names : Helpers[s, n] \subseteq i.names)
        /\ "failing_body" \in Exercised \/ i.names = {} \/ (loads => Stage[s] # "run")

-----------------------------------------------------------------------------
(* The user.                                                               *)

Init ==
    /\ files = InitialFiles
    /\ modules = [f \in Files |-> Unseen]
    /\ globals = [n \in Names |-> IF n \in Natives THEN <<"native", n>> ELSE Absent]
    /\ preludeLoaded = FALSE
    /\ debuggerEnabled \in BOOLEAN
    /\ debuggerWasEnabled = debuggerEnabled
    /\ at = "idle" /\ script = CHOOSE s \in Scripts : TRUE
    /\ todo = <<>> /\ body = <<>> /\ existing = NoSnapshot
    /\ swept = {} /\ result = <<"none">> /\ lines = 0

Edit ==
    /\ at = "idle"
    /\ files' \in Edits
    /\ files' # files
    /\ UNCHANGED <<modules, globals, preludeLoaded, debuggerEnabled, debuggerWasEnabled,
                   at, script, todo, body, existing, swept, result, lines>>

\* interpret, interpretRepl
Interpret ==
    /\ at = "idle" /\ lines < MaxLines
    /\ script' \in {s \in Scripts : \A i \in Range(s.imports) : Careful(i, FALSE)}
    /\ ~ preludeLoaded => (\A i \in Range(Prelude) : Careful(i, TRUE)) = TRUE
    /\ lines' = lines + 1
    /\ debuggerWasEnabled' = debuggerEnabled
    /\ debuggerEnabled' = FALSE
    /\ at' = IF preludeLoaded THEN "parse" ELSE "prelude"
    /\ result' = <<"none">>
    /\ UNCHANGED <<files, modules, globals, preludeLoaded, todo, body, existing, swept>>

-----------------------------------------------------------------------------
(* interpretInternal.                                                      *)

\* What the returns of interpretInternal have in common.  Each restores the debugger itself.
Ends(r) ==
    /\ at' = "idle" /\ result' = r /\ todo' = <<>> /\ body' = <<>>
    /\ UNCHANGED <<files, modules, globals, debuggerWasEnabled, script, existing, swept, lines>>

LoadPrelude ==
    /\ at = "prelude"
    /\ IF Prelude = <<>>
       THEN at' = "parse" /\ preludeLoaded' = TRUE /\ UNCHANGED todo
       ELSE at' = "imports" /\ todo' = Prelude /\ UNCHANGED preludeLoaded
    /\ UNCHANGED <<files, modules, globals, debuggerEnabled, debuggerWasEnabled,
                   script, body, existing, swept, result, lines>>

ParseFails ==
    /\ at = "parse" /\ script.stage = "parse"
    /\ Ends(<<"compile error">>)
    /\ debuggerEnabled' = debuggerWasEnabled /\ UNCHANGED preludeLoaded

Parse ==
    /\ at = "parse" /\ script.stage # "parse"
    /\ at' = "imports" /\ todo' = script.imports
    /\ UNCHANGED <<loop, modules, globals, body, existing, swept, result>>

\* processImports returned true to loadPrelude, or to interpretInternal.
ImportsDone ==
    /\ at = "imports" /\ todo = <<>>
    /\ at' = IF preludeLoaded THEN "check" ELSE "parse"
    /\ preludeLoaded' = TRUE
    /\ result' = <<"none">>
    /\ UNCHANGED <<files, modules, globals, debuggerEnabled, debuggerWasEnabled,
                   script, todo, body, existing, swept, lines>>

\* And false.
ImportFails ==
    /\ at' = "failed" /\ result' = <<"failed">>
    /\ todo' = <<>> /\ body' = <<>> /\ existing' = NoSnapshot
    /\ UNCHANGED <<loop, globals>>

\* loadPrelude returns that too, and notes that the prelude is loaded.
PreludeFails ==
    /\ at = "failed" /\ ~ preludeLoaded
    /\ preludeLoaded' = TRUE
    /\ Ends(result)
    /\ debuggerEnabled' = debuggerWasEnabled

ImportsFail ==
    /\ at = "failed" /\ preludeLoaded
    /\ Ends(result)
    /\ debuggerEnabled' = debuggerWasEnabled /\ UNCHANGED preludeLoaded

\* Mutant: the names that import statements list are taken on trust.
MutKnown ==
    Defined(globals) \cup Range(script.defines) \cup UNION {i.names : i \in Range(script.imports)}

\* The type check knows the globals.
Known == Defined(globals) \cup Range(script.defines)
Typed == script.stage # "type" /\ script.calls \subseteq Known

\* Mutant: this return leaves the debugger off.
MutLowerFails ==
    /\ at = "check" /\ script.stage = "lower"
    /\ Ends(<<"compile error">>)
    /\ UNCHANGED <<debuggerEnabled, preludeLoaded>>

\* Lowering runs before the verdict of the type check is read.
LowerFails ==
    /\ at = "check" /\ script.stage = "lower"
    /\ Ends(<<"compile error">>)
    /\ debuggerEnabled' = debuggerWasEnabled /\ UNCHANGED preludeLoaded

TypeFails ==
    /\ at = "check" /\ script.stage # "lower" /\ ~ Typed
    /\ Ends(<<"compile error">>)
    /\ debuggerEnabled' = debuggerWasEnabled /\ UNCHANGED preludeLoaded

CompileFails ==
    /\ at = "check" /\ script.stage = "compile" /\ Typed
    /\ Ends(<<"compile error">>)
    /\ debuggerEnabled' = debuggerWasEnabled /\ UNCHANGED preludeLoaded

\* The call of the line's code, which the empty stack of frames always has room for.
Start ==
    /\ at = "check" /\ script.stage \notin {"lower", "compile"} /\ Typed
    /\ at' = "main" /\ body' = script.defines
    /\ debuggerEnabled' = debuggerWasEnabled
    /\ UNCHANGED <<files, modules, globals, preludeLoaded, debuggerWasEnabled,
                   script, todo, existing, swept, result, lines>>

-----------------------------------------------------------------------------
(* The machine, on a module's code or on the line's.                       *)

\* Code that is compiled refers to what it calls by name.
Undefined(n) ==
    LET value == globals[n]
    IN  value = Absent \/ (value[1] \in Sources /\ ~ Helpers[value[1], n] \subseteq Defined(globals))

Main ==
    /\ at = "main"
    /\ \/ /\ body # <<>>
          /\ globals' = [globals EXCEPT ![Head(body)] = <<"script", Head(body)>>]
          /\ body' = Tail(body) /\ result' = <<"none">>
          /\ UNCHANGED <<loop, modules, at, todo, existing, swept>>
       \/ /\ body = <<>>
          /\ Ends(IF \E n \in script.calls : Undefined(n) THEN <<"undefined">>
                  ELSE IF script.stage = "run" THEN <<"runtime error">> ELSE <<"ok">>)
          /\ UNCHANGED <<preludeLoaded, debuggerEnabled>>

\* OP_DEFINE_GLOBAL
Define ==
    /\ at = "run" /\ body # <<>>
    /\ globals' = [globals EXCEPT ![Head(body)] = <<module.function, Head(body)>>]
    /\ body' = Tail(body) /\ result' = <<"none">>
    /\ UNCHANGED <<loop, modules, at, todo, existing, swept>>

-----------------------------------------------------------------------------
(* processImports, for the import statement that is next.                  *)

NotFound ==
    /\ at = "imports" /\ todo # <<>>
    /\ Found(import.path) = {}
    /\ ImportFails
    /\ UNCHANGED <<modules, swept>>

\* getModule
Cached(f) == modules[f].state # "none"

\* loadModule up to where it makes, and caches, a new module.
LoadModule ==
    /\ at = "imports" /\ todo # <<>> /\ Found(import.path) # {}
    /\ ~ Cached(file)
    /\ modules' = [modules EXCEPT ![file] = [state |-> "loading", function |-> NoFunction]]
    /\ at' = "load"
    /\ UNCHANGED <<loop, globals, todo, body, existing, swept, result>>

\* Mutant: a module is marked as loaded before it is compiled.
MutFailed(f) == [state |-> "loaded", function |-> NoFunction]

\* Mutant: and keeps what there is of it.
MutKept(f) == [state |-> "unloaded", function |-> files[f]]

\* A module that does not parse, check, lower or compile stays in the cache.
Failed(f) == [state |-> "unloaded", function |-> NoFunction]

\* Reading, parsing, checking, lowering and compiling it.
CompileModule ==
    /\ at = "load"
    /\ IF Unloadable(file)
       THEN /\ modules' = [modules EXCEPT ![file] = Failed(file)]
            /\ ImportFails /\ UNCHANGED swept
       ELSE /\ modules' = [modules EXCEPT ![file] = [state |-> "loaded", function |-> files[file]]]
            /\ at' = "call"
            /\ UNCHANGED <<loop, globals, todo, body, existing, swept, result>>

\* The arm of loadModule for a module it has seen.
UseCached ==
    /\ at = "imports" /\ todo # <<>> /\ Found(import.path) # {}
    /\ Cached(file)
    /\ IF module.state = "loading"
       THEN ImportFails /\ UNCHANGED <<modules, swept>>
       ELSE /\ at' = "call"
            /\ UNCHANGED <<loop, globals, modules, todo, body, existing, swept, result>>

\* The globals before it, then the call of the module's function.  What the memory of one
\* that was freed runs is not known: the model stops there.
RunModule ==
    /\ at = "call"
    /\ existing' = IF Selective THEN globals ELSE existing
    /\ at' = IF module.function = NoFunction THEN "trim"
             ELSE IF file \in swept THEN "freed" ELSE "run"
    /\ body' = IF module.function = NoFunction \/ file \in swept THEN <<>> ELSE Defines[module.function]
    /\ result' = <<"none">>
    /\ UNCHANGED <<loop, modules, globals, todo, swept>>

\* vm_execute_with_frames returned from it.
EndModule ==
    /\ at = "run" /\ body = <<>>
    /\ IF Stage[module.function] = "run"
       THEN ImportFails /\ UNCHANGED <<modules, swept>>
       ELSE /\ at' = "trim"
            /\ UNCHANGED <<loop, globals, modules, todo, body, existing, swept, result>>

\* Mutant: what the module overwrote is not put back.
MutTrimmed ==
    [n \in Names |-> IF n \in import.names \/ existing[n] # Absent THEN globals[n] ELSE Absent]

\* Mutant: all that is not asked for goes.
MutDeleted == [n \in Names |-> IF n \in import.names THEN globals[n] ELSE Absent]

\* What is new and not asked for goes, what was there and not asked for comes back.
Trimmed == [n \in Names |-> IF n \in import.names THEN globals[n] ELSE existing[n]]

\* Mutant: the statement is not left behind.
MutRemaining == todo

\* The next import statement.
Remaining == Tail(todo)

Trim ==
    /\ at = "trim"
    /\ globals' = IF Selective THEN Trimmed ELSE globals
    /\ todo' = Remaining
    /\ at' = "imports"
    /\ result' = <<"import", import.names, file, module.function>>
    /\ existing' = NoSnapshot
    /\ UNCHANGED <<loop, modules, body, swept>>

-----------------------------------------------------------------------------
(* The collector.  The cache is no root: what a module left among the      *)
(* globals keeps itself alive, the function of the module is kept only     *)
(* while a frame runs it.                                                  *)

Running == IF at = "run" THEN {file} ELSE {}

Garbage == {f \in Files : modules[f].function # NoFunction} \ Running

Collect ==
    /\ at \in {"imports", "load", "run", "check", "main"}
    /\ swept' = swept \cup Garbage
    /\ swept' # swept
    /\ UNCHANGED <<loop, modules, globals, at, todo, body, existing, result>>

Step ==
    \/ LoadPrelude \/ PreludeFails \/ ParseFails \/ Parse \/ ImportsDone \/ ImportsFail
    \/ LowerFails \/ TypeFails \/ CompileFails \/ Start \/ Main \/ Define \/ NotFound
    \/ LoadModule \/ CompileModule \/ UseCached \/ RunModule \/ EndModule \/ Trim

Next == Edit \/ Interpret \/ Step \/ Collect

\* interpretInternal runs to its end once it is called.
Spec == Init /\ [][Next]_vars /\ WF_vars(Step)

-----------------------------------------------------------------------------
(* Properties.                                                             *)

Loadable == {s \in Sources : ~ Fails(s)}

TypeOK ==
    /\ files \in [Files -> Sources \cup {Missing, Directory}]
    /\ modules \in [Files -> [state : {"none", "loading", "loaded", "unloaded"},
                              function : Loadable \cup {NoFunction}]]
    /\ globals \in [Names -> Value \cup {Absent}]
    /\ existing \in [Names -> Value \cup {Absent}]
    /\ {preludeLoaded, debuggerEnabled, debuggerWasEnabled} \subseteq BOOLEAN
    /\ at \in {"idle", "prelude", "parse", "imports", "load", "call", "run", "freed", "trim",
              "failed", "check", "main"}
    /\ script \in Scripts /\ todo \in Seq(Import) /\ body \in Seq(Names)
    /\ swept \subseteq Files /\ lines \in 0 .. MaxLines

\* The cache: a module has a function exactly when it is loaded, and is being loaded
\* only while loadModule is at it, so that no import finds one in that state.
CacheSound ==
    \A f \in Files :
        /\ (modules[f].state = "loaded") = (modules[f].function # NoFunction)
        /\ modules[f].state = "loading" => at = "load" /\ f = file

\* The function that the machine is to run for an import has not been freed: module.h:4 has
\* the module system "cache compiled modules".
RunsKept == at # "freed"

\* The debugger is off while the prelude and imports run (CHANGELOG.md:103), and as
\* the user had it when the line's own code runs and when the line is over, whatever
\* way it ended.
DebuggerKept ==
    debuggerEnabled = (at \in {"idle", "main"} /\ debuggerWasEnabled)

\* A line that passed the type checker finds every global it calls, and all those
\* that the functions it calls refer to, whatever imports came and were trimmed since.
NothingUndefined == result # <<"undefined">>

\* Once the prelude is loaded its names are there, in every line after it.
PreludeThere ==
    preludeLoaded => \A i \in Range(Prelude) : i.names \subseteq Defined(globals)

\* Imports do what Namespaces promises.
Answer ==
    IF result[1] # "import" THEN (IF result = <<"failed">> THEN result ELSE <<>>)
    ELSE IF result[2] = {} THEN <<"imported", result[3], result[4]>>
    ELSE <<"selected", result[3], result[4], result[2]>>
Seen ==
    LET gs == IF at \in {"run", "trim"} /\ Selective THEN existing ELSE globals
    IN  [n \in Defined(gs) |-> gs[n]]
Promise == INSTANCE Namespaces WITH
    Values <- Value, Modules <- Files,
    Exports <- [s \in {x \in Sources : Stage[x] = "none"} |->
                   [n \in Range(Defines[s]) |-> <<s, n>>]],
    seen <- Seen, answer <- Answer
Implements == Promise!Spec

\* Every line is over at some time, if it does not run what was freed.
LineEnds == (at # "idle") ~> (at \in {"idle", "freed"})
=============================================================================
