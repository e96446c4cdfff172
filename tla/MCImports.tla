------------------------------ MODULE MCImports ------------------------------
(* Small instances of Imports: a library whose f calls its h, another that  *)
(* defines f and g, and files that do not load or do not run.               *)
EXTENDS Imports, TLC

CONSTANTS f, g, h, k, n

MCNames == {f, g, h, k, n}
MCSources == {"util", "math", "broken", "throws"}
MCStage == ("util" :> "none") @@ ("math" :> "none") @@ ("broken" :> "type") @@ ("throws" :> "run")
MCDefines == ("util" :> <<h, f>>) @@ ("math" :> <<f, g, n>>) @@ ("broken" :> <<f>>)
             @@ ("throws" :> <<g, h>>)
MCHelpers == [p \in MCSources \X MCNames |->
    CASE p = <<"util", f>> -> {h} [] p = <<"math", g>> -> {f} [] OTHER -> {}]

MCFiles == {"./u", "./std/u", "./m"}
MCCandidates == ("u" :> <<"./u", "./std/u">>) @@ ("m" :> <<"./m">>)
MCContent(u, std, m) == ("./u" :> u) @@ ("./std/u" :> std) @@ ("./m" :> m)
MCInitialFiles == MCContent(Missing, "util", "math")
MCEdits == {MCContent(Directory, "util", "math"), MCContent("math", "util", "broken"),
            MCContent(Missing, "util", "throws"), MCContent(Missing, Missing, "math")}

MCImport(path, names) == [path |-> path, names |-> names]
MCPrelude == <<MCImport("u", {h})>>
MCLine(imports, calls, defines) ==
    [stage |-> "none", imports |-> imports, calls |-> calls, defines |-> defines]
MCScripts == {
    MCLine(<<MCImport("m", {})>>, {f}, <<>>),
    MCLine(<<MCImport("m", {g})>>, {g}, <<>>),
    MCLine(<<MCImport("m", {f, g})>>, {g, h}, <<>>),
    MCLine(<<MCImport("u", {}), MCImport("m", {n})>>, {n}, <<>>),
    MCLine(<<MCImport("m", {f}), MCImport("u", {f, h})>>, {f}, <<>>),
    MCLine(<<MCImport("m", {k, n})>>, {k}, <<>>),
    MCLine(<<>>, {f, g}, <<>>),
    MCLine(<<>>, {g}, <<g, h>>),
    [MCLine(<<MCImport("u", {h})>>, {}, <<h>>) EXCEPT !.stage = "parse"],
    [MCLine(<<MCImport("u", {h})>>, {}, <<h>>) EXCEPT !.stage = "lower"],
    [MCLine(<<>>, {}, <<h>>) EXCEPT !.stage = "compile"],
    [MCLine(<<>>, {}, <<g>>) EXCEPT !.stage = "run"]}
=============================================================================
