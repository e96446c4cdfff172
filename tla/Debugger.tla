------------------------------ MODULE Debugger ------------------------------
(***************************************************************************)
(* The debugger (src/src/runtime/vm_debugger.c) and the hook that calls it *)
(* before every instruction (vm_execute.c:537-569), on programs that jump, *)
(* call, return and throw; and the runs of the debugger one after another, *)
(* with the file that keeps the breakpoints between them.                  *)
(*                                                                         *)
(* code[f] are the instructions of a function: the source line of each,    *)
(* what it does, where it goes, and the catch blocks of the try blocks it  *)
(* is in.  Values are left out, except that a call passes a number.        *)
(***************************************************************************)
EXTENDS Integers, FiniteSets, SequencesExt

CONSTANTS
    Main, Programs,      \* the programs that may be debugged: the Code of each
    Lines, Conditions,
    Startup,             \* what --break and --break-if may add
    Torn,                \* what a line of the file that is cut short may read as
    BREAKPOINTS_MAX,     \* DEBUG_BREAKPOINTS_MAX
    MaxDepth, MaxCalls, MaxCommands, MaxRuns, \* bounds
    Repeated             \* bound: the programs that are debugged more than once

VARIABLES
    code,      \* of the program that is debugged
    frames,    \* function, ip, argument; act tells them apart
    handlers,  \* the depth of frames and the catchIp of each
    calls,     \* calls so far
    phase,     \* off, load, hook, paused, saving, execute
    pending,   \* breakpoints that are to be added before the program starts
    mode, depth,     \* debuggerStepMode, debuggerStepDepth
    last,            \* debuggerLastLine, debuggerLastFrameDepth, debuggerLastFunction
    breakpoints,
    file,            \* of breakpoints: its lines, when the process is not writing it
    input,           \* stdin: open or closed
    commands, runs,
    why,       \* what the last pause was for
    asked,     \* the frames there were at the last step command, innermost last
    visited,   \* the line, the frame and its function, at the last hook
    visits,    \* of each line that has a breakpoint, since it was set there
    wanted,    \* the lines of breakpoints set by commands, of this run and earlier ones
    allowed,   \* the breakpoints that anyone asked for
    stale      \* the last change is not in the file, or not all of it

machine == <<code, frames, handlers, calls, pending>>
stepping == <<mode, depth, asked>>
kept == <<breakpoints, file, stale, visits, wanted, allowed>>
vars == <<machine, phase, stepping, last, kept, input, commands, runs, why, visited>>

Ops == {"plain", "branch", "jump", "call", "tail", "return", "throw", "try", "try_end"}
Breakpoint(l, c, hits) == [line |-> l, cond |-> c, hits |-> hits]
Before(i) == IF i > 1 THEN i - 1 ELSE 1

-----------------------------------------------------------------------------
(* Where the machine is.                                                   *)

Top == Last(frames)
Instruction == code[Top.fn][Top.ip]

\* vm_current_frame_line
FrameLine(fr) == code[fr.fn][Before(fr.ip)].line

Location == <<FrameLine(Top), Len(frames), Top.fn>>

Goes(x) == x.op \in {"jump", "branch", "try"}
Falls(x) == x.op \in {"plain", "branch", "call", "try", "try_end"}

\* The try blocks that an instruction's are in, and those it leads to: its own, one more
\* or one less.  Nothing leaves a try block but its end and a throw: Vm has the handlers
\* that a return or a break leaves behind.
Nested(ins) ==
    /\ ins[1].tries = <<>>
    /\ \A i \in DOMAIN ins :
          LET x == ins[i]
          IN  /\ \A k \in DOMAIN x.tries :
                    /\ x.tries[k] \in DOMAIN ins
                    /\ ins[x.tries[k]].tries = SubSeq(x.tries, 1, k - 1)
              /\ Goes(x) => ins[x.to].tries = x.tries
              /\ x.op \in {"plain", "branch", "call"} => ins[i + 1].tries = x.tries
              /\ x.op = "try" => ins[i + 1].tries = Append(x.tries, x.to)
              /\ x.op = "try_end" => x.tries # <<>> /\ ins[i + 1].tries = Front(x.tries)
              /\ x.op \in {"return", "tail"} => x.tries = <<>>

\* What the compiler emits for such programs.
WellFormed(c) ==
    /\ Main \in DOMAIN c
    /\ \A f \in DOMAIN c :
          /\ Len(c[f]) \in Nat \ {0} /\ DOMAIN c[f] = 1 .. Len(c[f])
          /\ \A i \in DOMAIN c[f] :
                /\ c[f][i].line \in Lines /\ c[f][i].op \in Ops /\ c[f][i].arg \in Nat
                /\ c[f][i].tries \in Seq(DOMAIN c[f])
                /\ Falls(c[f][i]) => i + 1 \in DOMAIN c[f]
                /\ Goes(c[f][i]) => c[f][i].to \in DOMAIN c[f]
                /\ c[f][i].op \in {"call", "tail"} => c[f][i].to \in DOMAIN c
          /\ Nested(c[f])

ASSUME ProgramsAssumption ==
    /\ \A c \in Programs : WellFormed(c)
    /\ {MaxCommands, MaxRuns, BREAKPOINTS_MAX} \subseteq Nat
    /\ {MaxDepth, MaxCalls} \subseteq Nat \ {0}
ASSUME LinesAssumption ==
    /\ Lines \subseteq Nat \ {0} /\ <<>> \in Conditions
    /\ Startup \subseteq Seq(Lines \X Conditions) /\ Torn \subseteq Lines \X Conditions

-----------------------------------------------------------------------------
(* Breakpoints.                                                            *)

At(bs, l) == {i \in DOMAIN bs : bs[i].line = l}

\* Mutant: a breakpoint that is set again keeps its hits.
MutAdded(bs, l, c) ==
    IF At(bs, l) # {} THEN [bs EXCEPT ![Min(At(bs, l))] = Breakpoint(l, c, @.hits)]
    ELSE IF Len(bs) >= BREAKPOINTS_MAX THEN bs ELSE Append(bs, Breakpoint(l, c, 0))

\* Mutant: nothing stops at the limit.
MutUnlimited(bs, l, c) ==
    IF At(bs, l) # {} THEN [bs EXCEPT ![Min(At(bs, l))] = Breakpoint(l, c, 0)]
    ELSE Append(bs, Breakpoint(l, c, 0))

\* debuggerAddBreakpoint
Added(bs, l, c) ==
    IF At(bs, l) # {} THEN [bs EXCEPT ![Min(At(bs, l))] = Breakpoint(l, c, 0)]
    ELSE IF Len(bs) >= BREAKPOINTS_MAX THEN bs ELSE Append(bs, Breakpoint(l, c, 0))

\* Mutant: the breakpoints after it are dropped with it.
MutRemoved(bs, l) == IF At(bs, l) = {} THEN bs ELSE SubSeq(bs, 1, Min(At(bs, l)) - 1)

\* debuggerRemoveBreakpoint
Removed(bs, l) == IF At(bs, l) = {} THEN bs ELSE RemoveAt(bs, Min(At(bs, l)))

\* What vm_save_breakpoints writes; hits are not saved.
Saved(bs) == [i \in DOMAIN bs |-> <<bs[i].line, bs[i].cond>>]
Listed == {file[i][1] : i \in DOMAIN file}

Compared(x, op, y) ==
    CASE op = "==" -> x = y [] op = "!=" -> x # y [] op = "<" -> x < y
      [] op = "<=" -> x <= y [] op = ">" -> x > y [] op = ">=" -> x >= y

\* evaluateBreakpointClause: a local there is not fails.  A function's local[1] is its
\* parameter; the script has no locals.
Clause(cl, b) ==
    CASE cl.of = "hit" -> Compared(b.hits, cl.op, cl.value)
      [] cl.of = "line" -> Compared(b.line, cl.op, cl.value)
      [] cl.of = "depth" -> Compared(Len(frames), cl.op, cl.value)
      [] cl.of = "local" -> cl.index = 1 /\ Top.fn # Main /\ Compared(Top.arg, cl.op, cl.value)

\* evaluateBreakpointCondition: a clause it cannot read holds, and it reads none after it.
Read(cond) == {i \in DOMAIN cond : \A j \in 1 .. i : cond[j].of # "unreadable"}
Holds(b) == \A i \in Read(b.cond) : Clause(b.cond[i], b)

\* vm_should_pause_for_breakpoint counts the hit first.
Hit(bs, l) == [i \in DOMAIN bs |-> IF bs[i].line = l THEN [bs[i] EXCEPT !.hits = @ + 1] ELSE bs[i]]
Breaks(bs, l) == \E i \in At(bs, l) : Holds(bs[i])

-----------------------------------------------------------------------------
(* A run of the debugger.                                                  *)

Frame(f, n, a) == [fn |-> f, ip |-> 1, arg |-> n, act |-> a]
Nowhere == <<0, 0, "none">>

Unvisited == [l \in Lines |-> 0]

Init ==
    /\ code \in Programs /\ frames = <<>> /\ handlers = <<>> /\ calls = 0
    /\ pending = <<>> /\ phase = "off" /\ mode = "none" /\ depth = 0 /\ last = Nowhere /\ asked = <<>>
    /\ breakpoints = <<>> /\ file = <<>> /\ visits = Unvisited /\ wanted = {} /\ allowed = {}
    /\ stale = FALSE
    /\ input = "open" /\ commands = 0 /\ runs = 0 /\ why = "none" /\ visited = Nowhere

\* The end of the process, and of all it kept: only the file is left, as it is.
Exit ==
    /\ frames' = <<>> /\ handlers' = <<>> /\ calls' = 0
    /\ pending' = <<>> /\ phase' = "off" /\ mode' = "none" /\ depth' = 0 /\ last' = Nowhere /\ asked' = <<>>
    /\ breakpoints' = <<>> /\ visits' = Unvisited /\ input' = "open" /\ why' = "none"
    /\ visited' = Nowhere
    /\ UNCHANGED <<code, file, stale, wanted, allowed, commands, runs>>

\* runFile: what the file has is added, and then what the command line says.  A file that
\* the last run left stale is all there is of what was asked for before.
Start ==
    /\ phase = "off" /\ runs < MaxRuns /\ (runs = 0 \/ code \in Repeated)
    /\ \E more \in Startup :
          /\ pending' = file \o more
          /\ allowed' = Range(more) \cup (IF stale THEN Range(file) ELSE allowed)
    /\ wanted' = IF stale THEN Listed ELSE wanted
    /\ stale' = FALSE /\ phase' = "load" /\ runs' = runs + 1
    /\ UNCHANGED <<code, frames, handlers, calls, stepping, last, breakpoints, file, visits,
                   input, commands, why, visited>>

\* One turn of the loop of vm_load_breakpoints, or of runFile's.
Load ==
    /\ phase = "load" /\ pending # <<>>
    /\ breakpoints' = Added(breakpoints, Head(pending)[1], Head(pending)[2])
    /\ pending' = Tail(pending)
    /\ UNCHANGED <<code, frames, handlers, calls, phase, stepping, last, file, stale, visits,
                   wanted, allowed, input, commands, runs, why, visited>>

\* The call of interpret; the first line pauses.
Run ==
    /\ phase = "load" /\ pending = <<>>
    /\ frames' = <<Frame(Main, 0, 1)>> /\ calls' = 1
    /\ phase' = "hook" /\ mode' = "in"
    /\ UNCHANGED <<code, handlers, pending, depth, asked, last, kept, input, commands, runs,
                   why, visited>>

\* Mutant: a step over ends at any depth.
MutSteps == mode \in {"in", "next"} \/ (mode = "out" /\ Len(frames) < depth)

Steps ==
    \/ mode = "in"
    \/ mode = "next" /\ Len(frames) <= depth
    \/ mode = "out" /\ Len(frames) < depth

\* Mutant: a return to a line is no change of location.
MutChanged == Location[1] # last[1]

Changed == Location # last
Visit == <<FrameLine(Top), Top.act, Top.fn>>

\* The hook before the next instruction.
Hook ==
    /\ phase = "hook"
    /\ LET line == FrameLine(Top)
           hit == Hit(breakpoints, line)
       IN  /\ breakpoints' = IF Changed THEN hit ELSE breakpoints
           /\ why' = IF ~ Changed THEN "none" ELSE IF Breaks(hit, line) THEN "breakpoint"
                     ELSE IF Steps THEN mode ELSE "none"
    /\ phase' = IF why' = "none" THEN "execute" ELSE "paused"
    /\ last' = Location
    /\ visited' = Visit
    /\ visits' = IF visited' = visited \/ At(breakpoints, FrameLine(Top)) = {}
                  THEN visits ELSE [visits EXCEPT ![FrameLine(Top)] = @ + 1]
    /\ UNCHANGED <<machine, stepping, file, stale, wanted, allowed, input, commands, runs>>

-----------------------------------------------------------------------------
(* The commands of vm_debugger_repl, while it is paused.                   *)

Command ==
    /\ phase = "paused" /\ input = "open" /\ commands < MaxCommands
    /\ commands' = commands + 1
    /\ UNCHANGED <<machine, last, input, runs, why, visited>>

\* continue, step, next, out
Resume(m) ==
    /\ Command
    /\ mode' = m
    /\ depth' = IF m \in {"next", "out"} THEN Len(frames) ELSE depth
    /\ asked' = [i \in DOMAIN frames |-> frames[i].act]
    /\ phase' = "execute"
    /\ UNCHANGED kept

\* vm_save_breakpoints begins: it empties the file, or goes back when that does not open.
\* The commands save even what failed; those of the protocol do not.
Save(done) ==
    \/ file' = <<>> /\ stale' = TRUE /\ phase' = "saving"
    \/ stale' = (stale \/ done) /\ UNCHANGED <<file, phase>>

\* break, setBreakpoint
SetBreakpoint ==
    /\ Command
    /\ \E l \in Lines, c \in Conditions :
          /\ breakpoints' = Added(breakpoints, l, c)
          /\ Save(At(breakpoints', l) # {})
          /\ visits' = [visits EXCEPT ![l] = 0]
          /\ wanted' = IF At(breakpoints', l) = {} THEN wanted ELSE wanted \cup {l}
          /\ allowed' = {p \in allowed : p[1] # l} \cup {<<l, c>>}
    /\ UNCHANGED stepping

\* delete, removeBreakpoint
RemoveBreakpoint ==
    /\ Command
    /\ \E l \in Lines :
          /\ breakpoints' = Removed(breakpoints, l)
          /\ Save(At(breakpoints, l) # {})
          /\ wanted' = wanted \ {l}
          /\ visits' = [visits EXCEPT ![l] = 0]
          /\ allowed' = {p \in allowed : p[1] # l}
    /\ UNCHANGED stepping

\* The rest of vm_save_breakpoints is buffered.  A part of it goes out when the buffer is
\* full, and may end in a line that is cut short and reads as another; all of it does at
\* fclose, or what fails to, which nothing looks at.
Write ==
    /\ phase = "saving"
    /\ \/ \E k \in DOMAIN breakpoints, cut \in {<<>>} \cup {<<p>> : p \in Torn} :
             /\ Len(file) < k
             /\ file' = SubSeq(Saved(breakpoints), 1, k - 1) \o cut
             /\ UNCHANGED <<phase, stale>>
       \/ file' = Saved(breakpoints) /\ stale' = FALSE /\ phase' = "paused"
       \/ phase' = "paused" /\ UNCHANGED <<file, stale>>
    /\ UNCHANGED <<machine, stepping, last, breakpoints, visits, wanted, allowed, input,
                   commands, runs, why, visited>>

\* The end of the input: the program goes on, here and at every pause after it.
EndOfInput ==
    /\ phase = "paused"
    /\ input' = "closed" /\ mode' = "none" /\ phase' = "execute"
    /\ UNCHANGED <<machine, depth, asked, last, kept, commands, runs, why, visited>>

-----------------------------------------------------------------------------
(* The machine.                                                            *)

Instructions(op) == phase = "execute" /\ Instruction.op = op
After == UNCHANGED <<code, pending, stepping, last, kept, input, commands, runs, why, visited>>
Moved(i) == [frames EXCEPT ![Len(frames)].ip = i]

\* Values, jumps, OP_TRY and OP_TRY_END.
Simple ==
    /\ \/ /\ Instructions("plain")
          /\ frames' = Moved(Top.ip + 1) /\ UNCHANGED handlers
       \/ /\ Instructions("jump")
          /\ frames' = Moved(Instruction.to) /\ UNCHANGED handlers
       \/ /\ Instructions("branch")
          /\ \E i \in {Instruction.to, Top.ip + 1} : frames' = Moved(i)
          /\ UNCHANGED handlers
       \/ /\ Instructions("try")
          /\ frames' = Moved(Top.ip + 1)
          /\ handlers' = Append(handlers, [depth |-> Len(frames), catch |-> Instruction.to])
       \/ /\ Instructions("try_end")
          /\ frames' = Moved(Top.ip + 1)
          /\ handlers' = IF handlers = <<>> THEN handlers ELSE Front(handlers)
    /\ phase' = "hook"
    /\ UNCHANGED calls /\ After

\* OP_CALL of a closure, and OP_TAIL_CALL, which gives it the frame.
Call ==
    /\ Instructions("call") \/ Instructions("tail")
    /\ calls < MaxCalls /\ Len(frames) < MaxDepth
    /\ calls' = calls + 1
    /\ LET new(act) == Frame(Instruction.to, Instruction.arg, act)
       IN  frames' = IF Instruction.op = "tail" THEN Append(Front(frames), new(Top.act))
                     ELSE Append(Moved(Top.ip + 1), new(calls'))
    /\ phase' = "hook"
    /\ UNCHANGED handlers /\ After

\* OP_RETURN: the caller goes on after its call.
Return ==
    /\ Instructions("return")
    /\ IF Len(frames) = 1
       THEN Exit
       ELSE /\ frames' = Front(frames)
            /\ phase' = "hook"
            /\ UNCHANGED <<handlers, calls>> /\ After

\* OP_THROW: to the innermost handler, or out of the program.
Throw ==
    /\ Instructions("throw")
    /\ IF handlers = <<>>
       THEN Exit
       ELSE LET h == Last(handlers)
            IN  /\ frames' = [SubSeq(frames, 1, h.depth) EXCEPT ![h.depth].ip = h.catch]
                /\ handlers' = Front(handlers)
                /\ phase' = "hook"
                /\ UNCHANGED calls /\ After

\* A signal, between any two steps.
Kill == phase # "off" /\ Exit

Next ==
    \/ Start \/ Load \/ Run \/ Hook
    \/ \E m \in {"none", "in", "next", "out"} : Resume(m)
    \/ SetBreakpoint \/ RemoveBreakpoint \/ Write \/ EndOfInput
    \/ Simple \/ Call \/ Return \/ Throw \/ Kill

Spec == Init /\ [][Next]_vars

-----------------------------------------------------------------------------
(* Properties.                                                             *)

Activations == {frames[i].act : i \in DOMAIN frames}
Acts == 0 .. MaxCalls

TypeOK ==
    /\ code \in Programs /\ calls \in Acts /\ stale \in BOOLEAN
    /\ frames \in Seq([fn : DOMAIN code, ip : Nat, arg : Nat, act : Acts])
    /\ \A i \in DOMAIN frames : frames[i].ip \in DOMAIN code[frames[i].fn]
    /\ handlers \in Seq([depth : 1 .. MaxDepth, catch : Nat])
    /\ phase \in {"off", "load", "hook", "paused", "saving", "execute"}
    /\ pending \in Seq(Lines \X Conditions)
    /\ mode \in {"none", "in", "next", "out"} /\ depth \in 0 .. MaxDepth
    /\ breakpoints \in Seq([line : Lines, cond : Conditions, hits : Nat])
    /\ Len(breakpoints) <= BREAKPOINTS_MAX /\ IsInjective([i \in DOMAIN breakpoints |-> breakpoints[i].line])
    /\ file \in Seq(Lines \X Conditions) /\ input \in {"open", "closed"}
    /\ commands \in 0 .. MaxCommands /\ runs \in 0 .. MaxRuns

\* Step over pauses in the frame it was asked in, or in one that called it; step out
\* once that frame is gone: whatever was called, returned and thrown in between, though
\* all the debugger compares is the number of frames.  A tail call goes on in the frame
\* of the function it ends, which is paused in then.
StepsStop ==
    phase = "paused" =>
        /\ why = "next" => Top.act \in Range(asked)
        /\ why = "out" => Top.act \in Range(Front(asked)) /\ Last(asked) \notin Activations

\* A breakpoint counts the visits of its line: every time a function comes to it from
\* another line, or a frame from a call or a function that has left, and no other time.
\* The line is the one FrameLine says, also where a jump has come by no code of it.
HitsAreVisits ==
    phase = "paused" => \A i \in DOMAIN breakpoints :
        breakpoints[i].hits = visits[breakpoints[i].line]

\* What a command set and none deleted is there, in this run, and in every later one that
\* does not come after a save that failed or was cut short: there, what that save left
\* is.  No breakpoint is there that nobody asked for, or with another condition.
Pairs(bs) == Range(Saved(bs))
BreakpointsKept ==
    phase \in {"hook", "paused", "saving", "execute"} =>
        /\ \A l \in wanted : At(breakpoints, l) # {}
        /\ Pairs(breakpoints) \subseteq allowed

\* A breakpoint that is in the file stays there at every step, as long as it is wanted,
\* since the process may end at any: CHANGELOG.md:93 has the file "to persist and reload
\* breakpoints".
Persisted == [][Listed \cap wanted \cap wanted' \subseteq Listed']_vars
=============================================================================
