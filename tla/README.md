# Blaze: a TLA+ verification project

Blaze is a small statically typed language implemented in C: a scanner and a
Pratt parser produce a syntax tree, a type checker and a lowering of generic
classes work on it, a compiler emits bytecode, and a stack machine with a
mark-sweep collector runs it. This directory holds TLA+ models of that
implementation, their TLC configurations, and TLAPS proofs. Paths are those of
the repository (`src/runtime/object.c`); "Heap" and the like are modules here.

## 1. The system

| component | state it keeps | operations | what makes it correct |
|---|---|---|---|
| managed heap and collector (`runtime/object.c`) | object list, intern table `vm->strings`, gray stack, `bytesAllocated`, `nextGC` | allocateObject and the constructors, copyString, collectGarbage | nothing in use is freed, all garbage is, equal strings are one object |
| hash tables (`object.c` 249-582) | entries, count, size | get, set, delete, grow | a map; probes end; counts agree with contents |
| virtual machine (`vm_execute.c`, `vm_call.c`, `vm_core.c`) | value stack, frames, open upvalues, exception handlers, globals | one step per opcode; call, bind, invoke, capture, close | calls and handlers nest, a captured variable outlives its slot, limits are checked |
| natives (`vm_natives.c`) | none | pure functions and I/O | their results survive their own allocations |
| pipeline and imports (`vm.c`) | `preludeLoaded`, the module system, globals | interpret, loadPrelude, processImports | an import makes exactly the listed names visible; a failure leaves nothing behind |
| module loader (`module/module.c`) | cache of modules with states | resolve, get, load | a module is executed once, a failed one is not taken for loaded |
| compiler (`codegen/`) | chain of compilers: locals, upvalues, scope depth, active finally bodies | one function per statement and expression | the code keeps the stack in step with the locals and means what the statement means |
| scanner, parser (`syntax/`) | position, current and previous token, error and panic flags | scan, parse by precedence, synchronize | precedence and associativity; recovery ends |
| types, type checker (`semantics/`) | symbol table with scope depths, narrowings | assignability, unification, statements and expressions | assignability is a preorder; scopes restore what they shadow |
| generic lowering (`semantics/generic.c`) | worklist of instantiations | instantiate until nothing new | ends, one class per instance |
| values (`base/value.h`) | none | NaN boxing | a boxed value unboxes to itself |
| debugger (`vm_debugger.c`) | breakpoints, step mode and depth | break, step, continue | step over stops in the frame it was asked in |
| REPL and line editor (`main.c`) | input buffer, history | edit, count delimiters, run | the buffer is what was typed |

How they interact. Everything is one thread. `interpretInternal` calls parser,
import processing (which runs whole programs), type checker, lowering, compiler
and machine in this order. The parser, the compiler, the machine and the natives
all allocate from the same heap, and *an allocation is the only point where the
collector runs*. The collector calls back into the machine (`markRoots`) and
the compiler (`markCompilerRoots`) for its roots. So the hard behaviours are not
interleavings of threads; they are

 * collections, which may happen inside any handler that allocates, while C
   locals and syntax tree nodes hold objects no root holds;
 * long sequences of legal steps: exceptions and tail calls that leave frames,
   handlers and open upvalues out of step with each other;
 * failures in the middle: a module that does not load, a script that does not
   compile, after parts of it already took effect.

`PROJECT.json` lists every component with its status and every hazard with its
line and the properties that cover it. Most modules have a constant `Exercised`:
which of the uses of the language that the code does not serve, each described
where it is listed, the programs of a run make. The passing runs have none of them
(`imports` has one), and show what holds for every other program. Two have a run of
their own, in which TLC finds broken what the repository promises (section 3,
"Violations"). The others are hazards without a property, each with what TLC finds when
it is exercised (section 3, "The uses that are left out").

## 2. Modules

### Heap: the managed heap, interning and the collector

State. `live` is the `objects` list; `kind`, `ref`, `text` and `loc` are the
fields of objects (type, outgoing references, chars, an open upvalue's slot);
`strings` the keys of `vm->strings`; `stack`, `frames`, `openUpvalues`,
`globals`, `compiling` are what `markRoots` and `markCompilerRoots` start from;
`ast` are the strings of literal nodes, which nothing marks; `req` are the C
locals of the handler that is allocating; `mark`, `gray`, `bytesAllocated` and
`nextGC` are the collector's.

Actions. An opcode that does not allocate is one action. One that allocates is
two: `Op...` reads (and, where the code does, pops) its operands and calls
`Allocate` or `CopyString`; then `MarkRoots`, `Blacken` (once per object popped
from the gray stack) and `Sweep` run if the threshold is passed, `NewObject`
gets an address from `Malloc` and links it; and `Deliver...` is the handler's
remainder. `splitNative` and `OP_CLOSURE`, which allocate in a loop, have the
phase `loop` between two allocations. The parser's and compiler's allocations
and `interpretInternal`'s hand-over of the compiled function are the group
`Compile`.

Abstractions. References of an object are a set: elements of an array, fields,
table keys and values are not told apart unless an action needs it. One object
is one byte. Opcodes are enabled by `ops`, the opcodes of the program that runs;
in which order the program has them is left open, so every program over these
opcodes is covered. The operands of an opcode never have open upvalues on them
(`Operands`): the compiler captures locals only, and pops a captured local with
`OP_CLOSE_UPVALUE`. Upvalues that `vm_reset_stack` or `OP_THROW` leave open off
the list are not used afterwards: what they read is no longer theirs, and that
is the subject of Vm.

Unrooted uses. The code has four kinds of places where a C local or a syntax
tree node is all that holds an object while another allocation runs; the
constant `Exercised` says which of them a program makes:

| `UnrootedUses` | where |
|---|---|
| `temp_operands` | `OP_ARRAY_CONCAT`, `OP_ARRAY_SLICE`, `OP_GET_SUPER` pop operands that nothing else holds, then allocate |
| `dead_intern` | `copyString` finds a string that was swept: the intern table is weak and never purged (run `heap_interned`) |
| `literals` | a literal is compiled after a collection took its string |
| `split` | a collection inside the loop of `splitNative` |

With `Exercised = {}` the model is that of the programs that keep their
temporaries reachable by other means, and there the claims below hold; each of
the four members, alone, lets TLC violate `OperandsSurvive` (the first two and
`split`) or `NoDangling` (`literals`). A program meets `dead_intern` most easily: a
build with `DEBUG_STRESS_GC` reads freed memory in that way while it loads the
prelude.

### HeapProofs

The theorems about Heap, for every value of its constants. See section 4.

### MCHeap

Six programs ("images": a heap, a script stopped at its first instruction and
the opcodes it uses) over at most nine addresses: compiling a source from
nothing; closures and upvalues two levels deep; classes, methods and instances;
inheritance and `super`; arrays of arrays; strings and natives. `MCMalloc` gives
back the lowest free address, so a swept address is reused at the next
allocation, the worst case for whoever still holds it.

### Activations: what a call, a closure and an exception are

The abstract specification of the machine: a sequence of activations, each with
its own variables and the try blocks it is inside; cells, which are either a
variable of an activation or a value kept after the activation ended; one
environment of cells per closure; one global. There are no slots, no frames to
reuse and no list of open upvalues, and each action says what the language
promises: closures that capture one variable share it, a variable outlives its
activation in the cells that captured it, `return c(...)` is a call and a return,
an exception goes to the innermost try block of any activation and ends what was
begun inside it.

### Vm: the stack machine

State. `stack`, `frames`, `handlers`, `upvalue` (location and closed value of each
`ObjUpvalue`), `openUpvalues`, `upvalues` (of each closure) and a `global` are the
fields of `VM` and of its objects. A frame's `ip` is abstracted to the function
whose code it is in and the try blocks around it there: that is what makes it
visible that a handler's `catchIp` belongs to another function.

Actions. One per opcode (or per group of opcodes that move values the same way),
each with all arms of its handler: the arms of `vm_call_value` for closures,
natives, classes with and without `init` and bound methods; arity, frame and
handler limits, which end in `vm_runtime_error` (`Reset`); the arms of
`OP_TAIL_CALL`, which has its own copy of some of them. `Interpret` is the part
of `interpretInternal` that starts a script; several scripts may run one after
the other, as in the REPL, on what the last one left.

What the compiler guarantees is in the guards: an opcode finds its operands above
the frame's first slot and above what was there at the try blocks around it
(`Floor`); operands are never captured (`Operands`); an initializer returns slot
0; a script has no `return` (`typechecker_stmt.inc:287`). Five things it does not
guarantee, or a handler does wrong, are `HazardousUses`, and `Exercised` says
which of them the programs make. Two of them leave an upvalue open on a slot that
is gone. After that any slot that is filled again may have an upvalue on it, so
then no opcode's operands are known to be free of them (`Strays`, `Droppable`), and
what such an upvalue reads above the stack is unknown (`Content`):

| `HazardousUses` | where | what TLC then finds |
|---|---|---|
| `return_in_try` | `compileReturnStmt` emits no `OP_TRY_END` | `HandlersMatch`, `OwnCode` (run `vm_handlers`) |
| `throw_over_captured` | `OP_THROW` does not close upvalues | `UpvaluesOpen`, `Implements`; `Means` of Execution |
| `error_over_captured` | `vm_reset_stack` drops open upvalues | `UpvaluesOpen` |
| `pop_captured` | `compileForStmt` pops its captured variable with `OP_POP` | `UpvaluesOpen`; `Means` of Execution (`for_capture`) |
| `tail_initializer` | `OP_TAIL_CALL` of a class with `init` | `Implements` |

Refinement. Vm implements Activations: an activation is a frame with the slots up
to the next frame's, its try blocks are those around the frame's `ip` (of which
`HandlersMatch` says that they have the handlers), a cell is an upvalue, which is a variable of the frame its location is in,
or a value once closed (`actsBar`, `cellBar`).

VmFrames and VmProofs prove the invariants of Vm, VmRefinement the refinement
(section 4).

### MCVm

Six families of programs, each a set of opcodes and of constants, with the
height of the stack as bound: exceptions; shared captures; escaping closures;
exceptions over captures; tail calls; everything callable. Two upvalues,
symmetric; five closures.

### Maps, Tables, MCTables: the hash tables

Maps says what a table is: for each, a function from the contents of keys to
values, and operations that answer what the function says. Tables is the code:
open addressing, linear probing, tombstones, growth at three quarters, for
`Table` and `ValueTable`, under every caller that reads or writes one: globals,
the intern table, methods and their inheritance, fields, and the natives on maps
and sets. A loop over a whole table, a rehash or an operation on many keys,
takes one step per entry. `Implements` is the refinement; TablesProofs proves it. MCTables has three
keys, two of which collide, in tables of capacity 2 to 8 (the code starts at 8).
`Exercised` leaves out two uses that violate `Implements`: `stale_size`
(`hashMapSize` answers the count, which a deletion does not lower) and
`signed_zero` (0.0 and -0.0 are equal and hash apart; to see it, `Text` must make two
keys equal to which `Hash` gives different places).

### Namespaces, Imports, MCImports: a session, line after line

Namespaces says what an import gives a program: the names asked for, as the
module defines them, or a failure and none of them. Imports is
`interpretInternal`, `loadPrelude`, `processImports` and `loadModule`, with the
cache of modules, the globals, the snapshot a selective import takes of them, the
debugger's switch, edits of files between two lines and the collector. A source
is a stage at which it fails, the names it defines and the names its functions
call. MCImports: five names, three files, four modules (one that does not check,
one that throws), a prelude, twelve lines.

`interpretInternal` has seven returns before it runs the line's code, and each
restores the debugger itself, as its last return does before it: the actions
`PreludeFails`, `ParseFails`, `ImportsFail`, `LowerFails`, `TypeFails`,
`CompileFails` and `Start` (where the return for a failed `vm_call` cannot be taken,
with no frame on the stack) each have their own `debuggerEnabled'`. The collector
(`Collect`) may run at any step of a line that allocates, and frees every cached
function that is not running: nothing marks the module system, its modules or the
keys of its table. A line that then runs a freed function is `freed`, and the model
stops there, as what it does is not known. That is all `RunsKept` says, and the run
`imports_swept` shows it violated in the first line of a session; the other
properties speak of sessions up to there.

Four uses are told apart by `Exercised`. The run `imports` makes one of them: a prelude
may fail (`failing_prelude`). Then `loadPrelude` still notes that it is loaded, and the
lines after it do without its names: `PreludeThere`, which says that they are there, is
proved of the sessions whose prelude does not fail and is no property of the run.
The other three are left out: with `private_helpers` TLC finds `NothingUndefined`
violated, with `failed_again` or `failing_body` `Implements`.

### Debugger, MCDebugger

The hook of the interpreter loop, the commands, breakpoints with hit counts and
conditions, and the file that keeps them between runs. Breakpoints are loaded one
at a time (`pending`), and a signal may end the process at any step (`Kill`). A save
is as many steps as the code makes of it: `fopen` truncates the file, or fails, which
`vm_save_breakpoints` does not tell anyone (`Save`); what it prints is buffered, and
any part of it may reach the file before `fclose`, the last line cut short (`Torn`: the
lines such a piece may read as); `fclose` writes all, or fails unnoticed (`Write`).
So `Persisted`, that a breakpoint in the file stays there as long as it is wanted, is
violated (run `debugger_save`), and what `BreakpointsKept` says is what the code does
keep: after a save that was finished every later run has what was asked for, however
many processes end, also while they load; after one that failed or was cut short
(`stale`), what that save left; and never a breakpoint that neither a command, the
command line nor such a file asked for.

The programs are six lists of instructions with lines (a call of a call, a for loop,
a while loop, whose jump back lands behind code of another line, an exception,
recursion, tail calls) and a short one for the runs about the file; values are left
out but for one argument, which conditions read. Each instruction names the catch
blocks of the try blocks it is in (`tries`), and `WellFormed` says of programs what the
compiler makes true of them: jumps stay in their function and at their level of try
blocks, `OP_TRY` and `OP_TRY_END` change it by one. Programs that leave a try
block by a return or a break, and so its handler behind, are the subject of Vm and
Execution and left out here. To compare with, the model tells activations apart
(`act`), which the code does not, and counts visits of lines itself. A tail call gives
its frame to the function it calls, and `StepsStop` takes that for the same place. The
line of a frame is that of the byte before its `ip`, as in the code; after a jump it
is that of code that did not run, and visits are counted by it, too. Which line a
pause shows there no document says.

### Types, Natives, Checker, MCChecker: what is checked, lowered and run

Types has the types of `types.c`: equality, unions, assignability, inference of
type arguments, substitution. Natives has the declaration of each native and the
kinds of values it takes and answers. Checker takes a program through `typeCheck`
(one statement at a time), the bodies of generic instances, `generic.c`'s
lowering to classes, and a run over values that are kinds, with the opcodes the
checker's notes chose. So `Sound` relates what the checker believed to what a run
meets. MCChecker writes every program of up to five statements of each of its
pools: optionals, unions and guards; functions; throws; templates and their
instances; interfaces; and each native. `Exercised` leaves out twelve ways to
deceive the checker, each described where `Hazards` is defined: eight let TLC violate
`Sound`, three `Lowered`, and `constructor_bound` `BoundsHold`. Not in it: arrays
and their elements, enums and match, lambdas, fields, destructuring, aliases,
unary operators, `typeUsesOnlyClassTypeParams`, the lowering of a program that
did not check (its verdict is read only after it), and handlers left behind by a
return from a try block, which Vm and Execution have.

### Codegen, Meaning, Execution, MCExecution: code against meaning

Codegen translates a syntax tree to the code of its functions: scopes, locals,
upvalues, jumps, constants, unrolled loops, the active finally bodies. Each
construct is a list of items, opcodes and parts to compile in their turn, and
`Item` says what one item does to the compiler. Meaning says what a program
prints and how it ends, with names bound to cells and no code or stack.
Execution runs the code on the machine: instructions with operands, values,
frames, handlers and open upvalues. `Means` compares the two. `SlotsAgree` says
that the stack is as high as the compiler took it to be, wherever a statement
begins.

The code of the models was compared with the interpreter itself, compiled from
the repository: on every program of MCExecution that meets no hazard, 581 of
them, both print the same and end the same way.

Nineteen hazards (`CompileHazards`, `MeaningHazards`) and `throw_over_captured`
are uses of the language that the code does not give their meaning; exercised,
each lets TLC violate `Means` or `SlotsAgree`, and a program that meets one that
is not exercised stops as `excluded`.

Limits are the code's, lowered so that programs meet them (`LocalsMax` 12 for
256, `ConstantsMax` 20 for 256, `JumpMax` 90 for 65535, `FinallyMax` 3,
`UnrollMax` 3 for 16, `FramesMax` 5, `HandlersMax` 4). A jump is counted in
instructions, not bytes. `CStack` 2 stands for the C stack of a compiler that
does not end. Left out: object destructuring, index assignment, calls of generic
instances, interfaces and imports (no code), string operators, `OP_GET_SUPER`,
`OP_INVOKE` and natives.

### Syntax, Parser, MCParser: what the parser reads

Parser is `parse` and every function below it: precedence climbing, the try for
type arguments after a name and the one for a lambda after `(`, panic mode and
`synchronize`. A source is a sequence of tokens; a function of the parser is an
operator from the parser before to the parser after and the nodes it made (those
that need each other go through `Parse`), and a step of the machine is one turn of
`parse`'s loop. Syntax is the grammar of `LANGUAGE_SPECIFICATIONS.md` written as
data, and which texts it derives, found without precedence climbing, lookahead or
recovery.

`Reads` compares them on every text, right or wrong. The parser departs from the
document in fourteen places, which `Departures` lists with the document's lines; in
each of them the grammar says both, and the constant `AsParser` whom it follows.
With all of them the parser's way (run `parser`) `Reads` holds; with any one of them
the document's way TLC finds a text that violates it. Three change what every program
looks like:

 * `type_parameters` (:117): the document has them before a function's name, the
   parser after it;
 * `interface_methods` (:155): they end with a newline or `;`; the parser has no `;`
   and needs no newline;
 * `enum_variants` (:164): each ends with a newline; the parser needs none.

The others are: empty lists of types and type parameters; `...` anywhere in a
pattern; lambdas without types or with a comma at the end; `type` as the name of a
type; a match expression as a statement; function types after `|`; calls with type
arguments of any expression (:227), which the parser recognises after a name only,
and where a comparison may begin, so that `1 + id<int>(2)` is an error; arms after a
wildcard's; what is between arms; `??`, which the document does not have; and `else if
if`. Blank lines, and where a terminator may be missing, the document leaves open,
and there Syntax is as the parser is.

Two texts get the parser stuck, and the interpreter built from the repository does
what the model says. In the body of an enum, a word that is no name (`enum E { 1 }`)
is reported and never consumed, so the loop takes memory until there is none. And
a missing expression is a null pointer: `()`, `(+)`, and a match expression with a
wildcard arm before others that is followed by `<`, end the process. `Consumes`
says that these are all: every other loop ends, after any error.

## 3. Runs

| run | expects | shows |
|---|---|---|
| `heap` | pass | type invariant; `NoDangling`, `OperandsSurvive`, `TriColour`, `InternTable`; `ExactCollection`: a collection keeps exactly what is reachable; `CollectionEnds` |
| `vm` | pass | frames lie above one another (`FramesNest`), run their own function's code (`OwnCode`), have the handlers of their try blocks (`HandlersMatch`); open upvalues point into frames, one per slot (`UpvaluesOpen`); `Implements`: the refinement |
| `tables` | pass | every key is found where its search ends (`Findable`); an empty entry is left for a probe to stop at, and counts are right (`Counts`); the tables are maps (`Implements`); growth and bulk operations end (`OperationsEnd`) |
| `imports` | pass | the globals that lines and their callees refer to (`NothingUndefined`), and what imports promise (`Implements`), over lines, edits, selective imports and collections; the cache (`CacheSound`) and the debugger's switch on every way out (`DebuggerKept`), over preludes, files and lines that fail at every stage; every line ends (`LineEnds`) |
| `debugger` | pass | step over and out stop in the right activation (`StepsStop`); hits are visits (`HitsAreVisits`); breakpoints survive processes that end at any step, also in a save, as far as the save got, and no others appear (`BreakpointsKept`) |
| `types` | pass | what a checked program reads has the type it was read at (`Sound`); instances become classes once, superclass first (`Lowered`), and none is added on the way (`NoneAdded`); bounds hold (`BoundsHold`) |
| `codegen` | pass | compiled programs print what they mean (`Means`), with the stack as the compiler counted it (`SlotsAgree`) |
| `parser` | pass | the parser accepts just what the grammar derives, its departures included, with every word in its tree, and reports what it refuses (`Reads`); after any error it goes on and comes to an end, but in the two places named (`Consumes`) |

### Violations

Each of these checks one property at the bounds of the passing run of its module, and
TLC finds it violated. `PROJECT.json` quotes, for each, what the repository says of the
program there.

| run | property | what happens |
|---|---|---|
| `heap_interned` | `OperandsSurvive` | `copyString` hands back a freed string |
| `vm_handlers` | `OwnCode` | after a return from inside `try`, a throw elsewhere runs the wrong function's code |
| `imports_swept` | `RunsKept` | a cached module's function is swept and run |
| `debugger_save` | `Persisted` | a process that ends in a save loses the file |

### The uses that are left out

What a passing run leaves out, by `Exercised = {}` or a smaller set than there is, is
code that does not do what the property says. Each of these, put into `Exercised` of
the module's configuration, lets TLC violate the property beside it, within the bounds
of that configuration; so no passing run speaks of them.

| module | use | property | what happens |
|---|---|---|---|
| Heap | `temp_operands` | `OperandsSurvive` | `OP_GET_SUPER` and the array opcodes go on with operands that their own allocation freed |
| Heap | `split` | `OperandsSurvive` | `splitNative` pushes a piece to an array that is freed |
| Heap | `literals` | `NoDangling` | a literal is swept before the compiler makes it a constant |
| Vm | `tail_initializer` | `Implements` | `return C(...)` drops the initializer's frame |
| Vm | `error_over_captured` | `UpvaluesOpen` | an error leaves closures pointing into the stack |
| Tables | `stale_size`, `signed_zero` | `Implements` | a map counts what was deleted; equal keys are two |
| Imports | `private_helpers` | `NothingUndefined` | an imported function's helper is trimmed away |
| Imports | `failed_again` | `Implements` | a module that failed is imported, and defines nothing |
| Imports | `failing_body` | `Implements` | a module that throws leaves what it defined |
| Checker | `int_as_float`, `no_value`, `thrown_value` | `Sound` | an int is read as a float, a nil as an int, what was thrown as a string |
| Checker | `wildcard`, `redeclared`, `missing_file` | `Sound` | an unknown type, a second declaration, a native's nil are taken on trust |
| Checker | `captured_narrowing` | `Sound` | a call changes a variable that a guard had narrowed |
| Checker | `shared_body` | `Sound` | instances of a template run the opcodes of the one that was checked last |
| Checker | `mangled_names` | `Lowered` | `Cell<int?>` and `Cell<string?>` are one class |
| Checker | `plain_superclass`, `class_argument` | `Lowered` | an instance is made before the plain class it extends, or without its superclass |
| Checker | `constructor_bound` | `BoundsHold` | a constructor call does not look at bounds |
| Execution | `throw_over_captured`, `for_capture` | `Means` | a closure over a variable that a throw, or a for loop, took off the stack reads another value |
| Execution | `return_in_try`, `tail_initializer` | `Means` | as in Vm |
| Execution | `unroll_late` | `Means` | the elements of an unrolled array see what the iterations before them did |
| Execution | `catch_throw` | `Means` | a throw in a catch block skips the finally body |
| Execution | `return_in_finally` | `Means` | a return in a finally body compiles it for ever |
| Execution | `finally_shadowed`, `return_value` | `Means` | a finally body at a return sees the locals there, and its own are read one slot off |
| Execution | `match_bindings` | `Means` | a match expression with bindings gives its subject |
| Execution | `empty_match` | `SlotsAgree` | a match without arms leaves its subject on the stack |
| Execution | `local_enum`, `repl_block` | `Means` | the variants of a local enum are other slots; a block's function is a global of the REPL |
| Execution | `this_in_lambda` | `Means` | `this` in a lambda is the lambda |
| Execution | `mixed_addition`, `unknown_sum` | `Means` | `10 + 3.5` with the int in a variable is 10; a float is read as an int |
| Execution | `negative_number` | `Means` | a negative int compares as a number near 2^64 |
| Execution | `folded_equality`, `equal_constants` | `Means` | `0 == 0.0` is folded to false; 2 and 2.0 are one constant |
| Execution | `long_try` | `Means` | the catch offset of a long try block is cut to 16 bits |

`AsParser` of Parser is such a set, too: each of the fourteen departures that is taken
out of it lets TLC violate `Reads`.

### Bounds and fairness

Bounds of Tables: a table grows twice (capacities 2, 4, 8), a probe wraps around,
meets tombstones, and a bulk operation grows the table half way. Bounds of
Imports: four lines are what it takes for a name to come by one import, be
overwritten by another and be used by a third after an edit. Bounds of Debugger: three
commands, three frames, four calls; two breakpoints, so that a third finds no room; one
run of each program but the shortest (`Repeated`), which is run three times, so that
one run may be cut short in its save, and the next save what it found; the file
does not depend on calls, and that program has none. Bounds of
Checker: five statements, which is a template, an instance of it, a class that
extends one, and two uses. Bounds of Execution: the programs listed in
MCExecution, each as a file and as a line of the REPL. Bounds of Parser: every text
of up to three or four words that follows a place where the parser looks ahead or
goes back, over the words it tells apart there; and nineteen programs that have
every construct, with any one word taken out, replaced or put in, which is what
panic mode and recovery start from. Some 200 of these texts are accepted and some
2250 refused; the others get stuck.

Bounds of Vm: `FRAMES_MAX` 3 and `EXCEPTION_HANDLERS_MAX` 2 are the code's limits,
lowered so that programs meet them; stacks of 4 to 6 slots hold three frames, or
two with temporaries; `MaxCaptures` 1 with two upvalues lets two closures share a
variable, and one outlive the other; `MaxArgs` 1 tells a right arity from a wrong
one.

Bounds of Heap (all named constants): `MaxBytes` with the images' counts allows
2 to 5 allocations after the start, `MaxStack` 4 slots, `MaxFrames` 2,
`MaxUpvalues` 1, `MaxConstants` 2. They are enough for every handler to run
after, and before, a collection that frees something, for an address to be
reused, for an upvalue to be shared, closed, and read by an inner function, and
for a function to be compiled inside another. `StressGC = TRUE` makes every
allocation collect, which reaches the states a threshold would only reach in
long runs. How often a collection comes without it no property says; `nextGC` follows
the bytes ever allocated, since nothing lowers `bytesAllocated`.

Deadlock checking is off everywhere: a program, a line or a session ends, and the
bounds end it too. In Execution a program that should go on and cannot is caught
by `Means` instead (`There`, `Ready`).

Fairness. Three modules state any, and only for a loop of the single thread that
returns to its caller when it is done, so that as long as it can take a step it
does: `WF_vars(Collect)` in Heap for `collectGarbage`; `WF_vars(Goes)` in Tables for a
rehash and for the rest of an operation on many keys; `WF_vars(Step)` in Imports for
`interpretInternal`. Nothing is assumed about programs, users, or when the
collector runs. The properties of the other modules, their refinements included,
are safety.

## 4. Proofs

### HeapProofs

`HeapProofs` proves, with tlapm and for every set of addresses, texts, images
and bounds, under the named assumptions of Heap (good images, `Malloc` returns
free addresses) and `Exercised = {}`:

    Invariance       Spec => []IInv
    HeapTypes        Spec => []TypeOK
    HeapSafety       Spec => []NoDangling
    OperandSafety    Spec => []OperandsSurvive
    Tracing          Spec => []TriColour
    Interning        Spec => []InternTable
    Exactness        Spec => ExactCollection
    CollectorUnseen  Spec => CollectionUnseen
    ObjectsKeepKind  Spec => KindsKept
    TracingEnds      Spec => BlackenedOnce

The argument. `IInv` conjoins what the collector needs between the steps of
different components: types; every reference of an allocated object is to an
allocated object (`HeapOK`); so are the roots (`RootsIn(live)`); open upvalues
point into the stack (`OpenSlots`), which makes closing one store an allocated
object; what a handler holds is reachable while a collection runs and allocated
after (`Held`, with `Handler`, which says in which phase which handler can be);
the tri-colour invariant; interning; and that marks are clear outside a
collection (`Fresh`). `NoDangling` alone is not inductive: whether `Sweep`
preserves it depends on `mark` being the reachable set, which is `TriColour`
when `gray` is empty (lemma `MarkedIsReach`), and whether a `Deliver...` step
preserves it depends on `Held`. There is one lemma per action, resting on a few
about steps of the same shape (`StackStep`, `AskStep`, `DoneStep`, ...).

The last three are about steps, and follow from `IInv` too. What a program can see
(`Visible`: its roots, the reachable objects with their contents, what its handler
holds) is the same before and after every step of `collectGarbage`, so a program
cannot tell when it ran. An object keeps its type and text from the allocation on,
for as long as it is reachable or in a C local: its address is not handed out again.
And each turn of the loop of `traceReferences` blackens one reachable object that was
not black, so there are as many turns as reachable objects, and the sweep that
follows finds them all black.

`Exercised = {}` is a hypothesis of the theorems, not an assumption of Heap:
without it they are false, as the runs above show.

### VmFrames, VmProofs

They prove, for every set of closures, upvalues, values and programs, for every
`FRAMES_MAX`, `EXCEPTION_HANDLERS_MAX`, number of arguments and of captures, under
the named assumptions of Vm, each theorem for the programs it is true of:

    VmFrames: "return_in_try" not exercised
      FramesInvariance   Spec => []Laid
      Nesting            Spec => []FramesNest
      CodeIsOwn          Spec => []OwnCode
      HandlersAreTries   Spec => []HandlersMatch
    VmProofs: Exercised \subseteq {"tail_initializer"}
      Invariance         Spec => []IInv
      Typing             Spec => []TypeOK
      OpenUpvaluesPoint  Spec => []UpvaluesOpen

So frames and handlers do not depend on what becomes of captured variables. A throw
over one, a pop of one, a runtime error that forgets the list of open upvalues: each
of them may make a program read a wrong value, and none of them can make a frame run
another function's code or a throw cut into a caller. Only a `return` out of a `try`
can.

The argument. None of the properties is inductive by itself, and they need each
other. A throw cuts the stack to `stackTop` and sends a frame to `catchIp`: that
this is the frame's own code, and leaves the frames below whole, needs to be
known of every handler from its `OP_TRY` on, while frames come and go. So `Laid`
says of each frame that it runs its closure's code (`OwnCode`); that it reaches no
further than the slots under the next frame, its try blocks counted in, and that
these nest (`Stacked`); of the handlers, that they are those of the try blocks in
order, with height and code (`Matched`); of the stack only that it is a sequence
(`Line`), because once an upvalue points above the stack its slots may hold
anything. `Floor`, the height no opcode pops below, is where the compiler comes in
(lemma `Topmost`): an opcode that stays above it cannot cut a try block of its
frame or a frame below.

`Stacked` and `Matched` are stated of any sequences of frames and handlers, and
their lemmas (`StackedCut`, `StackedPush`, `MatchedTop` and what follows from it)
say what pushing, popping and rewinding do to them. Every action then is one of a
few shapes: slots move (`LaidSame`), a frame is put on those below (`LaidOver`,
`LaidEnter`), the top one goes or is reused (`LaidLeave`, `LaidReuse`, `LaidLose`),
the frames above a handler's go (`LaidRewind`), everything goes (`LaidReset`).

`IInv` of VmProofs is `Laid` (lemma `Lay`) and what slots and upvalues hold: values,
of which a closure was made before (`Sorts`), also in what an upvalue closed over
(`Captures`), and that the list of open upvalues has exactly those that point into
the stack, each at a slot of its own (`Opened`), which makes closing one store a
value that was made. Its step lemmas take `Laid'` from VmFrames.

The hypotheses are needed: each use in the table under Vm breaks what the table
says, all but `tail_initializer` an invariant (`vm_handlers` is the run that shows it
for `return_in_try`). That `tail_initializer` breaks none is part of what is proved:
it loses a call (`Implements`) and leaves the machine in order.

### VmRefinement

`VmRefinement` proves, for the same constants and assumptions, the refinement:

    VmImplementsActivations  Spec => Implements   Exercised = {}

Whatever a program does with closures, tail calls and exceptions, then, it cannot
tell that activations share one stack, that a tail call reuses its frame, that
a variable moves out of the stack when its slot goes, or that handlers are kept in
an array of their own.

The argument. There is a lemma per opcode (`...Declares`, `...Assigns`,
`...Calls` and so on), that it is a step of Activations when `IInv` holds before and
after it. It is seen from the running frame: the stack is what is under its slots
(`Below`) with its own slots (`Locals`) over it (`Split`), and what is written
over `Below` leaves the activations of the frames below as they are (`ActsSplit`,
`ActsNext`). So an opcode gives `acts'` by what it does to the top activation
(`Moves`, `Become`), a call by one more (`EnterCalls`), a return by one less
(`LeaveReturns`).

The cells are the harder half, as `cellBar` depends on frames, stack and upvalues
at once. An upvalue whose location a step does not touch, in a frame that
stays where it is, is the same cell (`CellsKept`); two upvalues are the same
variable only if they are the same upvalue (`SameCell`), which is `UpvaluesOpen`
and what makes a capture share (`ClosureCloses`) and an assignment through an
upvalue reach just one variable (`SetUpvalueAssigns`); and `vm_close_upvalues` from
a slot detaches just the cells of the variables that end, with the values they
have (`Detaches`). Operands are never captured, so a call that takes its arguments
from the caller's slots into its own takes no cell with them.

For exceptions, `handlers` and the try blocks of all activations are in one to one
correspondence (from `Matched`), so the limit of `OP_TRY` is the same on both sides
(`TriesHandled`), and the last handler is the innermost try block of the last
activation that is in one (`Caught`, in VmFrames). That the values above
`stackTop` are just the activations above it and what was declared inside the try
block, none of them captured, is `ThrowCatches`.

The hypothesis is needed: the uses of the table under Vm break the invariant, or,
as `tail_initializer` does, the refinement itself.

### TablesProofs

`TablesProofs` proves, for any keys, hashes, values, uses of tables and capacities,
under the named assumptions of Tables:

    Typing               Spec => []TypeOK
    Invariance           Spec => []IInv            "signed_zero" not exercised
    KeysAreFound         Spec => []Findable        the same
    CountsAreRight       Spec => []Counts          the same
    AllSearchesEnd       Spec => []SearchesEnd     the same
    OperationsShrink     Spec => WorkShrinks       the same
    OperationsGoOn       Spec => []CanGoOn         the same
    TablesImplementMaps  Spec => Implements        Exercised = {}

The argument. A used entry is where it should be when every entry from its key's
home to it is a tombstone or has another text (`Reached`); a table is `FoundOf`
when that is true of all its used entries (`FoundOfReached`). A tombstone in place of
any entry keeps that (`Buried`), because a search passes both; a key stored where
`findEntry` says keeps it (`Stored`), because that place is either the stop of
its own search or a tombstone on the way, and no other search had to stop there.
That two keys of one text have one hash is what both rest on (`SameText`,
`FindsTheKey`), which 0.0 and -0.0 do not: hence the hypothesis.

`Findable` and `Counts` are not inductive while a table grows, when its old entries
stand beside the new ones and its count starts again from 0. `IInv` adds `Moving`:
at every turn of the loop of `adjustCapacity` the new entries hold just the keys
before it, each once and without tombstones, the count is their number, and there
is room for all. That gives the counts after the growth and that the map is the same
(`ContentsOfMoved`). A count of at most three quarters and tombstones that count
leave an empty entry, and probing comes to every entry (`BucketOnto`), so every
search ends (`SearchEnds`): the guards `CanProbe` of the model, which stand for a
loop that does not go round for ever, never hold anything back.

The refinement maps a table to the function from its texts to their values. A
growth stutters; an operation that begins is a read without an answer; each pair set is
one write, and an assignment to a name there is none of, which the code does by
storing and deleting, is one that changes nothing (`RefinesPut`). The capacities
that `valueTableReserve` may come to are a constant, `Sizes`, of which the
assumptions say that they are what `MinCapacity` doubles to.

### ImportsProofs

`ImportsProofs` proves, for every set of names, files, sources and scripts and any
number of lines, under the named assumptions of Imports:

    Invariance                  Spec => []IInv
    Typing                      Spec => []TypeOK
    CacheIsSound                Spec => []CacheSound
    DebuggerIsKept              Spec => []DebuggerKept
    NothingIsUndefined          Spec => []NothingUndefined  "private_helpers" not exercised
    PreludeIsThere              Spec => []PreludeThere      "failing_prelude" not exercised
    LinesShrink                 Spec => LineShrinks
    ImportsImplementNamespaces  Spec => Implements          "failed_again" and "failing_body" not exercised

The first four and `LinesShrink` hold whatever programs do; each of the others depends
on just the uses named, of which each breaks it (section 2). That a cached function is
not swept is no theorem: it is not so (run `imports_swept`). `IInv` says where
`interpretInternal` is and what it has at hand (`Place`), what the machine ran of a
module's body shows among the globals (`Ran`), and that whatever else changed since
the snapshot of a selective import is to be trimmed (`Snapshot`). The properties of
whole lines need to be known from the line's start: `Cared` says of each import
still ahead that it was found careful before the line began, and is (`Will` does not
change until it is loaded); `Closed` that every global's function finds what it
calls; `PreludeSoFar` that a prelude that has not failed has its names. The refinement compares the globals a
program sees with those of Namespaces: during an import, `Kept` are those of before
it, and what a selective import must not leave is what the trim takes away.

The run `imports`, whose prelude may fail, shows all of these but `PreludeIsThere` on its
instance.

An overlap of two guards of a CASE, by which an operator of Imports had an
unspecified value, was found by this proof and is gone.

### DebuggerProofs

`DebuggerProofs` proves, for every set of well-formed programs, lines, conditions
and breakpoints of the command line, for every `BREAKPOINTS_MAX` and number of
frames, calls, commands and runs, under the named assumptions of Debugger:

    Typing            Spec => []TypeOK
    KeepsBreakpoints  Spec => []BreakpointsKept
    StepsStopRightly  Spec => []StepsStop
    Invariance        Spec => []IInv
    HitsCountVisits   Spec => []HitsAreVisits

The argument. `Core` is about the machine alone: that a throw finds a frame and a
catch block of the function it runs needs the handlers to be just those of the try
blocks that the frames are in, ordered by frame and nesting (`Guarded`); that a
caller's line can be read one before its `ip` needs every frame but the last to have
made a call (`Stack`, which also orders the activations by age). `Kept` says that a
file that is not stale lists all that is wanted, and nothing that nobody asked for,
and that a program that runs has a breakpoint for what is wanted and for each line of
such a file. While the file is loaded the latter is not so yet: the breakpoints so far
have what was read of it, the rest is first in `pending`, and there is room for it
(`Copied`), as the file never has more lines than there is room; so the breakpoints of
the command line, which come last, are the ones that may find none. While the file is
written it is stale, and becomes what it should be by the write that ends the save and
by no other step; a process that ends before leaves `wanted` to be what the next one
finds. `Asked` compares what the debugger kept of a
step, a depth, with the activations there were: every frame that was there when the
step was asked and has not gone is at its place, and the hook, called before every
instruction, sees each location at which frames go below that depth. `Counted` says
that the debugger, which knows line, depth and function, sees a change exactly when
line or activation change (two activations that follow each other never have the
same depth: lemma `Moves`), and that hits and visits then advance together.

Two things were found by these proofs: breakpoints were loaded in one step, which
hid that a process may end half way; and programs were arbitrary lists, so that
the frames of handlers were right in the listed programs only.

### OrderLemmas

That a set of natural numbers that is not empty has a least element and `Min` is
it: the form in which TablesProofs and ImportsProofs do induction, as the argument
that there is no least counterexample and that a search has a first stop;
DebuggerProofs takes from it where the breakpoint of a line is, VmRefinement which
frame a slot of the stack is in.

### Only model-checked

Liveness, as it needs fairness and `ENABLED`: the end of a collection
(`CollectionEnds`), of the operations on tables (`OperationsEnd`) and of a line
(`LineEnds`). What is proved of it, for every value of the constants, is the part
where a mistake in the code would be: a loop's every step brings it nearer to its end,
by a measure that cannot fall for ever (`TracingEnds`, `OperationsShrink`,
`LinesShrink`), nothing else takes that back, and for the tables, whose steps have a
guard that a search comes to an end, that there always is a next step
(`OperationsGoOn`). What is left to TLC is that the fair action is enabled in Heap and
Imports, and the temporal step itself. And everything about Checker, Execution
and Parser. Codegen, Meaning, Execution and Parser rest on recursive
functions over the program, about which an induction would be needed.

## 5. Not modelled

 * The scanner's characters, interpolation in strings, which scans inside a token,
   and the limit of 255 arguments. The trees other modules start from are those a
   parse succeeds with; they are not those of Parser, whose nodes hold only what
   `Reads` compares.
 * Arithmetic at its widths: 48-bit boxing and wrapping, conversions and the
   printing of floats. What a negative int compares as is in Execution.
 * What natives compute, except on hash maps and sets; files, the clock, random
   numbers, input.
 * The REPL's edit buffer and its count of delimiters (`main.c`): terminal I/O
   around a sequence of characters.
 * `freeObjects` at shutdown; sizes of blocks.
 * For good: cloning, printing and freeing of syntax tree nodes, the disassembler and colours
   (output only), the standard library (programs in Blaze),
   `vm_execute_legacy` (no caller).
