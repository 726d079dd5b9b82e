# A verification development of Cterpreter

Cterpreter is an interpreter for C: a prompt (`main.c`) around a library
(`src/`, `include/cterpreter.h`) whose programs run in a managed address space
and may themselves create interpreters, handle signals and read the terminal.
This directory holds TLA+ modules translated from that code, the TLC
configurations that check them on small instances, and proofs of their
properties that TLAPS checks for every value of the constants.

Paths below are the repository's. Line numbers in comments are those of the
commit the modules were written from.

## 1. The system

| Component | State | Operations | Talks to |
|---|---|---|---|
| Managed memory (`memory.c`, `memory.h`) | records, the sorted table, spare records, two lookup caches, byte and dead counts | allocate, release by address or record, find, access, forget the old dead, destroy | everything that has an address |
| Scopes and names (`interpreter.c` 98-214, 341-472) | a stack of scopes of pooled symbols, what each tree node remembers | open, clear, define, resolve with and without walking | memory, optimizer's marks |
| Nested interpreters (`bridge.c`, `interpret()` in `builtins.c`, `tick`) | limits and counters of each interpreter, its owner, the runs in progress | create, destroy, clear, set limits and nesting, run, charge | the host stack |
| Signals (`bridge.c` 540-627) | per-signal records and one flag shared by the process, saved native actions | arrive, poll, deliver, sigaction, settle, restore | asynchronous with all code |
| Session (`main.c`, `ct_eval`, `types.c`, parser's declarations) | interpreter, its units, globals and macros, session source, unfinished input, process-wide types | check, submit, cancel, `.clear`, `.save`, `.load`, `.restore` | parser, types, execution |
| Statements and control flow (`interpreter.c` 2637-2990, `optimizer.c` 80-420) | the value returned, the pending jump, labels that gotos remember, marks on trees | loops, switch, goto, blocks, static locals; the optimizer rewrites lists, binds names and leaves scopes out | scopes, expressions |
| Expressions (`parser.c` 704-865, `interpreter.c` 574-970, 2016-2521, `optimizer.c` 11-75) | shortcuts and folded constants in tree nodes | parse, fold, convert, operate, assign | memory, types |
| Declarations and types (`parser.c` 135-664, 948-1026, `types.c`) | interned derived types, the pointer cache, tags and typedef names, reference count | specifiers, declarators, members, layout, names of types, release | all interpreters of the process |
| Calls, frames, variadics (`interpreter.c` 1500-1790, 2540-2590) | frames kept for reuse, argument frames, `va_list` identities | simple and other calls, callbacks, va_start/arg/copy/end | scopes, memory |
| Built-ins (`builtins.c`) | open files, output | formatted I/O, strings, `qsort`, `bsearch`, allocation | memory, callbacks into programs |
| Preprocessor (`preprocessor.c`) | macros, headers included once, open files with their conditionals and lines | define, undefine, expand, include, conditionals, `#line` | session |
| Lexer | none that outlives a call | tokens | parser, preprocessor |
| Terminal and history (`terminal.c`) | line, cursor, history, reads inside reads | keys, suggestions, search, load, save | callbacks into the session |
| Preferences (`config.c`, `main.c`) | settings and their file | load, set, save | prompt |

What is hard here: pointers and answers remembered across code that may free,
reuse or shadow what they lead to (memory, names, labels, rows of types);
signals that arrive between any two instructions; programs that nest
interpreters and so share what is global to the process (the host stack, the
signal records, the table of types); operations that fail half-way after
publishing some of their effects; and a replay that must repeat a history.
There are no threads, no network and, apart from the preferences, the history
and saved sources, no persistent state.

What makes each component correct:

- *Memory*: caches never change an answer; live objects stay where and what they
  are; objects are apart; the counts that decide refusal and forgetting are exact.
- *Names*: a remembered resolution is what a walk of the chain would find; a
  declaration knows its innermost live symbol.
- *Nested interpreters*: no limit exceeds the host's, or the default that 0 stands
  for; every run is paid for in steps, so the chain is bounded; an `interpret()`
  chain shares one frame budget; runs end.
- *Signals*: no interrupt without a signal; nothing recorded is lost; native
  actions come back; handlers run.
- *Session*: rejected input changes nothing; nothing kept dangles; types are
  stable; the recorded source, if it is not too long for the limits of one
  evaluation, replays to the same session.
- *Control flow*: the rewritten tree shows the events of the text, a name means
  the declaration the text's scopes give it, a failure or `exit()` stops everything.
- *Expressions and declarations*: agreement with C's grammar, values and layouts,
  whichever shortcut, folding or cache answers.
- *Calls*: no frame is shared, no list reads another call's arguments, nothing is
  left behind by a failure.
- *Preprocessor*: groups as the grammar of conditionals selects them, expansion as
  C's hide sets, line numbers that stay true as long as the calls of macros over
  several lines keep count.
- *Sort and search, editor, preferences*: order and permutation whatever the
  comparison does; bounds that survive nested reads; files that survive crashes.

## 2. Modules

| Module | What it is |
|---|---|
| `ObjectStore` | abstract: what a program observes of objects, without records, tables or caches |
| `ManagedMemory` | `memory.c`, one action per call, refusals of the host included, and its refinement to `ObjectStore` |
| `NameResolution` | scopes, symbol pool and the two remembered answers of `resolve` |
| `NestedBudget` | steps, frames and nesting levels of a tree of interpreters |
| `Signals` | the forwarder against every read and write of the code that shares its records |
| `Session` | from a line typed to what it leaves behind, and its replay |
| `Statements` | the handlers of statements over an explicit stack, the optimizer's rewriting, and the text as a list of jumps to compare with |
| `NameBinding` | extends `Statements`: the optimizer's binder, the scopes it leaves out, and the scopes of the text |
| `Calls` | calls, frames, argument frames, callbacks and `va_list`s |
| `Preprocessor` | directives, conditionals, expansion, `#line`, `#include`, beside a reference for each |
| `Sorting` | `qsort` in both its forms and `bsearch`, a comparison at a time |
| `LineEditor`, `Console` | keys and nested reads; `Console` extends it with the prompt's loop, preferences, files, crashes and several processes |
| `Arithmetic` | integer types, conversions and operators, with the words they are computed in |
| `CExpressions` | reference: the trees C's grammar derives from a text, and what a tree means |
| `ExpressionParser` | the parser of expressions and its evaluator of constants |
| `Expressions` | the optimizer's folding and the evaluator with its shortcuts |
| `Types` | the table of types: interning, pointer cache, members, names |
| `CDeclarations` | reference: what a declaration declares by C's grammar, and C's layout |
| `Declarations` | the parser of declarations over that table, across restarts of the process's interpreters |
| `ManagedMemory_proofs`, `NameResolution_proofs`, `NestedBudget_proofs`, `Signals_proofs`, `Session_proofs`, `Calls_proofs`, `Sorting_proofs`, `Console_proofs` | the inductive invariant of each and the theorems, section 4 |

Each model has an `MC` module that instantiates it (`MCExpressions` composes
`Expressions` with `Declarations`, `MCStatements` takes `NameBinding`,
`MCConsole` takes `Console`).

Each module's header says what it abstracts. Operators whose comment begins with
"Mutant:" or "A defect to test the properties with:" are plausible bugs in the
definition they stand before; nothing uses them but the checks that every
property notices the bug it is there for.

**ManagedMemory.** `record`, `table`, `spares`, `cache`, `recent`, `bytes`,
`dead`, `capacity` are the fields of `Memory`. `Allocate` and its four refusals
(over the limit, no record, no bytes, no room for the table) follow the order of
`memory_allocate_record`: what was forgotten before a refusal stays forgotten.
`Find` is the lookup with both caches, `SearchTable` the one without. Since
addresses only grow, the sorted arrays are the set of records ordered by address;
binary search and compaction are left out, and so are bytes and their
initialised flags. `Covers` is `covers()` of the interpreter, by which an lvalue's
record, kept while the right-hand side ran, is accepted again or looked up anew.

**NameResolution.** `running` is the stack of scopes that calls and blocks make
current, `scopes[i]` a scope with its symbols, `cached[u]` what a use remembers,
`binding[d]` what a declaration node remembers. `Resolved` translates
`resolve_again` and `resolve`; `Lookup` is the walk they stand in for, the symbol of
the innermost scope of the chain (a set of places: a parent lies below its child)
that holds the name. Calls enter
a body below the globals or, when the optimizer has marked the body bare, no
scope at all. What the optimizer promises is a guard (`Evaluable`), not a result.

**NestedBudget.** One record per interpreter that exists and a stack of runs.
Unsigned arithmetic wraps at `Word`, which stands for 2^32; what programs pass are
64-bit numbers, which the code cuts to 32 bits before or after it clamps them
(`FrameBudget`, `Level`, `LevelLimit`).

**Signals.** `activity` is what the one thread is in the middle of: a program,
the delivery loop at slot *s*, the settling loop at slot *s*, a restore between
its two writes. `Arrive` is enabled in all of them, because the forwarder may run
between any two. `late`, `tangled` and `order` are histories.

**Session.** `eval` is the evaluation in progress, one piece of input per step,
first parsed and then executed. Each evaluation, and so each replay, has one
limit of expanded text, one of tree nodes and one of steps; `Cost` says how much of
them a piece takes. `rows` is the process-wide table of tagged
types, shared by two interpreters during a `.restore`. `exact` and the view saved
with `file` are histories: whether the source on record tells all the session
went through, and what the session was like when it was saved.

**Statements and NameBinding.** A statement is a record, an expression an event,
and what a test yields is chosen when it is asked. `stack` holds one frame per
handler that waits for a statement inside it (`execute`, `sequence`,
`perform_*`), `control` what happens next, `jump` the interpreter's pending jump
and `found` what gotos remember. `Optimized` is the rewriting of lists. `Flat`
makes of the same text, as it was written, a list of instructions with jumps, and
`due` is the instruction whose event must come next. `NameBinding` adds what
`bind_use`, `privatize`, `mark_simple` and `mark_bare` write into the tree
(`bound`) and the scopes of the text, with those the code does not open.

**Calls.** `stack` holds calls that evaluate arguments or run. `Simple` functions
get their frame before their arguments, as `run_call` does; others get an array,
a scope and an argument frame. `truth` is what `<stdarg.h>` says of each list.

**Preprocessor.** Files are not fixed beforehand: each step reads a line from an
alphabet, so all files made of those lines are read. Macro expansion is the
code's recursion with its list of disabled macros, and returns the text together
with the line counter, which the code moves wherever it copies the end of a line;
it is compared with an expansion by hide sets. Conditionals are compared with a reading of whole sections.

**Sorting.** `merge_sort` and `shell_sort` advance one comparison at a time,
because the comparison is the program's own function.

**LineEditor and Console.** One action per key; hints are functions that may read
a line themselves, so reads nest. `Console` saves preferences through a temporary
file a write at a time, and kills processes between any two steps. The two
processes share both files.

**Expressions.** One line or one expression in a function: parsed, folded once,
and run as often as `MaxRuns` says. Values are words; the reference computes with
numbers. The shortcuts of `runtime_prepare` (local assignments, steps, int pairs,
tests) are definitions of their own.

**Types and Declarations.** A table is a value, and what makes or finds a type
returns the handle with the table after it, as the C functions do with their
global. The parser's operators follow `type_specifier`, `declarator` (with its
second pass for what is inside parentheses), `parameter_list`, `aggregate_members`
and `declaration`; the name of a type cuts those of parameters at `NameLimit`. A script is a sequence of lines, or a
restart, where the last interpreter takes the table with it. A bound of an array
is an expression of `ExpressionParser`. A line is one declaration.

## 3. Runs

| Run | Question | Bounds, and why they are enough |
|---|---|---|
| `memory_lookup` | do caches, forgetting, reuse and refusals ever show, may a record be used where `covers()` accepts it, and do the counts that decide them drift? | four records, a cache of two slots, one remembered dead, the table growing from two: forgetting, reuse of a record at a new address, cache collisions and every refusal occur within five allocations |
| `names_resolve` | does any remembered answer differ from a walk, and does a declaration know its innermost symbol? | one name declared in a function, its block and globally, a private one, four symbols, five scopes ever: recursion, re-entry of a block and reuse of a pooled symbol for another name occur; a sixth scope only repeats one |
| `nested_limits` | what bounds the host stack, whatever programs ask for, do chains of `interpret()` share one frame budget, and do runs end? | two children (a chain of three and two siblings), four steps, two frames, three levels, words of 3 bits; arguments that are 0, that are small and that are cut to 0. That steps bound the number of runs (`ChainPaid`) takes a third child to break; it is proved |
| `signals_handled` | is a signal ever lost, invented or left unhandled? | a program and a child that share a signal, two signals, four activities deep: a handler interrupted in a loop run from a child fits |
| `session_replay` | does rejected input change anything, does anything dangle, does a replay repeat the session? | one tag, one member, two names, one macro, two rows, sources of five pieces: a structure declared ahead, defined in one line or over two or in a line that fails after it, used, saved and replayed with a full table fits; four pieces of text, three nodes and two steps to an evaluation, so that a session can be saved that is too long in any of the three ways |
| `statements_flow` | does the rewritten, half-scoped tree do what its text says? | 852 functions: every name used across blocks, loops, jumps and statics (72), loops around every jump (540), switches with labels, cases and dead code (240); two calls each, ten steps, four levels, so that remembered labels are used again and the limits are met |
| `statements_goto` | does a goto find every label around it? | one such function; ends in a counterexample, see below |
| `calls_frames` | does any call see another's frame or arguments? | a variadic, a simple and a plain function that call each other, `qsort` among them, three deep, three calls in two entries, two lists: recursion while arguments are evaluated, a list older than the reused frame, failures at each point |
| `preprocess_lines` | are groups, expansions and lines those of C? | five lines, two conditionals and two files deep, expansion eight deep; one alphabet per question; calls whose parentheses and arguments begin on later lines |
| `sort_search` | is the array sorted, stable and whole, and the element found? | every array of up to five elements: an odd run, a run with no partner and three passes, which end in either block |
| `console_sessions` | do editor, preferences and history survive nested reads, crashes and each other? | two processes, lines of two characters, a history of two, two reads inside each other; scenes limit which parts take part |
| `expressions_values` | does an expression come to what C says, and a declaration declare it? | widths of 2 to 5 bits for the five sizes, so that every pair of types meets with and without a common type that holds both; texts of five tokens, objects at their corners, two runs; declarators of three steps (every nesting of pointer, array, function), names of parameters' types cut at six tokens, four specifier words, three members, every three of fifteen lines with a restart, seven rows, sizes below 100 |

All but `statements_goto` finish without error, and each of their properties is
broken by a mutant of the code. `statements_goto` checks one sentence of the
documentation (`README.md:143`: goto jumps "to labels in the same or an enclosing
block") and TLC finds a function for which the code does otherwise: a label under
an earlier case of the switch block is not found, since `perform_switch` hands
`sequence` the list from the chosen case on.

Where a reference says what C leaves undefined, the properties ask that the
interpreter fail, or exempt the case by name (`OpensTwice`, `ManySigns`,
`TooLarge` in `Declarations`, `InLongLong` in `Expressions`); the exemptions are
listed among the divergences in section 5.

**Deadlock** is checked in `memory_lookup` and `console_sessions`. Elsewhere the
system may stop: the bounds on scopes ever opened end `names_resolve`, the host need
not evaluate again in `nested_limits`, nesting at its bound waits for nothing in
`signals_handled`, a crash ends `session_replay`, and functions, sources, arrays and
scripts come to their end in the others.

**Fairness.** `NestedBudget`: the host's one thread keeps executing the program
it runs (`WF_vars(Running)`); nothing is assumed of the host starting another.
`Signals`: native code runs on (`WF`); a handler and a child's program return, and
a running program polls again and again, every 1024 steps and at each builtin's
return (`SF`, since signals that keep arriving may disable these steps for a
while). Programs that let handlers fail for ever are excluded in the property
itself, not by fairness. `Statements` and
`NameBinding`: the one thread executes the function it is in (`WF` of its run);
the host need not call it again.

## 4. Proofs

Each `*_proofs` module states an inductive invariant `IndInv`, one lemma per action
that preserves it, `NextIndInv` that puts them together, `Invariance == Spec =>
[]IndInv`, and the properties that follow. The constants are arbitrary but for the
assumptions their modules name, which every run evaluates. TLC checked each
`IndInv` as an invariant of the run's instance before it was proved; `Recorded`,
below, quantifies over all sequences of states and was not.

| Module | Proved, for every value of the constants |
|---|---|
| `ManagedMemory_proofs` | `[]TypeOK`, `[]LookupAgrees`, `[]Separated`, `[]LiveRecordsAreFindable`, `[]CountsExact`, `LiveObjectsAreStable`, `ImplementsObjectStore` |
| `NameResolution_proofs` | `[]ResolutionAgrees`, `[]BindingsFollowScopes` |
| `NestedBudget_proofs` | `[]StaysWithinHost`, `[]InterpretSharesFrames` |
| `Signals_proofs` | `[]NoSpuriousInterrupt`, `[]OnlyLateArrivalsAreMissed`, `[]NestedRestore` |
| `Session_proofs` | `[]NothingDangles`, `CompleteRowsFixed`, `RejectedInputKeepsSession`, `ReplayReproduces` |
| `Calls_proofs` | `[]ListsNameTheirCall`, `[]FramesPrivate`, `[]CurrentIsInnermost` |
| `Sorting_proofs` | `[]NothingLost`, `[]SortsAndFinds` |
| `Console_proofs` | `[]EditorInBounds`, `[]PreferencesWhole`, `[]HistorySurvives` |

**ManagedMemory.** None of its properties is inductive alone. `LookupAgrees` needs to
know that what the caches hold is in the table and that a cached record still
covers what its slot says, which needs objects to be apart, which needs the next
address to lie above all, and that forgetting takes records out of the table and
the caches together. The strengthening adds `CachesKnown` (cached pointers lead
into the table) and `RecordsOwned` (a record outside the table is blank or dead,
a spare is outside it). A record that is alive is therefore in the table, and where
`Covers` accepts it `HolderIsLast` makes it what a lookup finds. `CountsExact` needs
the sum of sizes, which is the size of a set of pairs, a record and a number, so
that no fold is needed; a record taken into use or released adds or takes its own.

*The refinement.* `Mirrors` says when abstract objects are what the records of the
table look like to a program; since objects are apart, an address names at most one
record (`ViewMirrors`), and an operation changes the view as it changes the table.
Allocation, release by address and by record, access, forgetting, the refusals and
destruction each map to a step of `ObjectStore` or to a stutter. No object is at
address 0 (`NullIsFree`), so a null pointer is answered as the store answers it. The
theorem assumes `AddressesReach`: `Addresses`, what a program may form, includes
every address below the model's bound. The run enumerates a few, among them every
place its objects can have.

**NameResolution.** The innermost scope is the last one opened (or the globals,
during a bare call from them), and only it and the globals are added to. So a new
symbol of a declaration shadows the declaration's innermost symbol below it
(`Bound`), which is what the binding must lead to when the scope ends; and every
symbol node is in the pool or in one scope, whose serial it names (`Owned`). As
serials are never given out twice, an answer remembered with the serial of an open
scope and with as many symbols indexed as that scope has now saw the same symbols
(`Remembered`). An answer that is older is trusted only where its declaration's
innermost symbol can be reached with nothing of that name indexed on the way
(`reaches_unshadowed`); the blocks along a chain differ because enclosing blocks
nest, so that symbol is the one a walk meets first. `ProgramAssumption` says this
of the program: there are names, and blocks enclose each other to a finite depth.

**NestedBudget.** The levels that programs see do not bound anything: `ct_set_nesting`
can wrap one to 0. What does is that every interpreter was created, and every run
started, by a builtin call that cost its caller a step inside a frame that cost
another, and that a child gets no more steps than its caller had left. So `Paid`
holds of each interpreter at its distance from the host's in the tree of who created
whom (`Levels`, which exists and is not a variable); each run belongs to an
interpreter that the run below it owns, so the *k*-th run is at distance *k*-1
(`ChainDescends`), and half the host's steps bound the runs. `WithinLimits` is kept
by every clamp with the ceilings the code really has: the host's limit, or the
default that an argument cut to 0 stands for. No assumption is made about
arguments but that they are integers. A chain of `interpret()` alone is bounded by
the levels too, since nothing but `ct_set_nesting` from outside the chain moves them
(`HandedDown`).

`InterpretSharesFrames` uses `HandedDown` as well, which is kept beside `IndInv`: each
run of `interpret()` has the frame limit that its caller had left when it was
called, or one where none was left, and while it lasts its caller does not move.
Along a chain of such runs from *i* the sum is
therefore exact (`Accounted`): the frames below run *n* and the limit of *n* come to
the limit of *i* and one for each caller on the way that had none left. The
property states the two sides as the sizes of sets of pairs, a run and a frame of
it, so that a longer chain is a larger set and no fold is needed.

**Signals.** What the settling loop has read is still recorded, and unless a signal
came behind it, it has read all there is (`SettlingAgrees`); a flag that is set is
about a record or will be settled (`FlagHasCause`). The interpreters that handle a
signal are a list in which each saved what the one before it had set
(`Chained`), for as long as they let go in the reverse order.

**Session.** `EvaluationSound` says what the parser has let pass: pieces not yet
executed name complete rows and functions of the unit being made, and rows only
grow while an interpreter refers to them, so what was admitted stays so until it is
executed; `PromiseKept`, that what a rejection returns to is still what `before`
says. `NothingDangles` is asked of a session that has not crashed: the store of
section 5 through a variable without an object ends the process between executing
a function's definition and keeping its unit.
`ReplayReproduces` compares two sessions that went through the same text. The proof
states what a text tells, apart from any interpreter: a piece leads from what is
known of the tags and their members to what is known after it (`TypeSteps`), and
from what is known of the names to what is known after it (`NameSteps`). `Told`
says that its first *n* pieces lead somewhere; as each piece leads to one place at
most, they lead to one place (`ToldOnce`, by the least piece at which two ways
part). `Recorded` is the invariant: the source on record tells of the session, as
long as it is exact; a saved file of the session that was saved; the text behind
an evaluation, added to what it began with, of where the parser and the execution
stand. Rows are numbers and two interpreters number them differently, so a symbol
`StandsFor` a meaning by way of its tag, which takes that no two tags share a row
(`RowsApart`). The end of a replay is then what the file tells, which is what was
saved; and a piece that cannot be parsed or executed for any other reason than
want of room, of memory or of what one evaluation may take could not be part of a
text that tells something. An evaluation that passes one of its limits has met
pieces that cost as much, and they are pieces of its text (`WholeCost`,
`LimitPassed`), so the text as a whole costs too much. The attempt showed
that `ParseEnd` forgot, in the history `exact`, that a submission had completed a
structure declared ahead before it failed; the lines of the run now include it.

**Calls.** The calls in progress are a stack in which each call replaced what was
current below it (`Nested`), so that ending the innermost at any moment, returned
or failed, makes that current again. The frames ever made are divided between
calls and spare lists, each once (`Partition`). An identity is given out once, so
the search of `va_read` finds the call that started the list or, when it has
returned, nothing (`Stands`). `FramesPrivate` speaks of the beginning of a frame:
`frame_take` (`interpreter.c:516`) clears nothing, and behind a call's own locals
the frame holds what the last call left.

**Sorting.** The block a pass reads holds every element once, in runs that hold the
elements that stood there at first and, while the comparison orders the keys, are
in order, equal elements as they stood (`Read`). What the pass has written holds
exactly the elements it has taken, in runs of twice the length, and nothing left of
the two runs goes before what was taken from them (`Written`); where a pass ends,
what it wrote is what the next one reads. So the block read is whole after every
step, but the block written, which may be the array itself, is not. Shell sort only
exchanges: its array is whole throughout, and with the last gap, which is one,
only the element on its way down may stand too high (`OrderedBut`).
`bsearch` keeps what it looks for out of what it has left aside (`SearchInv`).

**Console.** The invariant has one part for each property. `Editors`: the terminal of
every process is in good order, whatever key, hint, search or nested read comes
next; an accepted line leaves a history that is no shorter, so the reads outside
the one that ends still point into it. `Saves`: as long as every write went well, a process's
temporary file is the beginning of its preferences, as many lines as it has
written; only a save that wrote them all renames it. `Closes`: a process that
is about to write its history and was crossed by no other finds the file empty and
is alone in it; what is known to have been written is still there, with nobody
about to empty it. That the file then reads back (`HistorySurvives`) is a fact
about two recursive functions, what is written of a history and what is read of a
text: `TextRead` goes through the entries, each of which comes back as it was up to the
first that fills the limit, by the least entry that would not.

Only model-checked:

- every liveness property (`ENABLED` and fairness are out of the prover's reach);
- `FollowsText`, `NamesAsScoped`, `StopsAtOnce`, `GroupsChosen`, `ExpandsAsC`,
  `LinesStayTrue`, `ParsesAsC`, `ValuesAsC`, `DeclaresAsC`, `TypesWhole` and
  `NamesReadBack`: the modules
  `Arithmetic`, `CExpressions`, `ExpressionParser`, `Expressions`, `Types`,
  `CDeclarations`, `Declarations`, `Statements`, `NameBinding` and `Preprocessor` are
  built on RECURSIVE operators or on `Bitwise`; grammars and trees are data of
  unbounded depth.

## 5. What is not modelled, and where the code diverges

Arithmetic on floating point, formatting, the C library behind the built-ins,
marshalling between a nested interpreter's memory and the host's, option
parsing, `boot.c` and the benchmarks have either no state that outlives a call or
only what the host's library keeps. Text is never modelled character by
character, but in the editor, where a line is one: elsewhere a line is a sequence
of tokens or pieces and a name a member of a small set. The hash buckets of a
scope are the names they index; that a bucket array that fails to grow loses a
symbol is listed as a hazard and not covered, and so are the row that a definition
which fails half-way has already written (`Session` writes it, and no property
forbids it, since the code does it: see below), a pointer into the table
of types held over an initializer (initializers of aggregates are not modelled),
the object of a refused declaration, and the bridge's one record of terminal
callbacks. Enumerations, storage classes, block-scope typedefs and tags,
prototypes, `main` after `.load`, pointers and aggregates in expressions, and the
evaluation of addresses are left out.

The modules follow the code where it differs from what a reader may expect. Each
of these was found while modelling; those marked * were seen in the built
interpreter too.

- *Memory.* The dead that are remembered are those with the highest addresses, not
  "the most recent deaths": what was allocated early and has just been freed is
  forgotten before what died long ago* (`memory.c:15`, against `memory.c:6` and
  `README.md:180`).
- *Nested interpreters.* A child's frame limit is fixed at its creation and not
  looked at again when it is run from deeper (`bridge.c:159`, against
  `README.md:174`); `ct_eval` on a child charges its caller nothing (against
  `README.md:124`); 2^32 frames are cut to 0 before they are clamped, and then stand for the
  default (`bridge.c:460`, `interpreter.c:3278`), and a level of 2^32 is cut to 0
  after it was clamped* (`bridge.c:471`), against `PROGRESS.md:11`: a child gets what
  its caller has left "whatever it asks for" and a deeper level.
- *Signals.* `settle_pending` overwrites the flag with what it read earlier, so
  that a handler may wait for the next signal (`bridge.c:554`, against
  `PROGRESS.md:13`); interpreters cleared in the order they installed leave a
  forwarder behind (`bridge.c:617`, against `CHANGELOG.md:22`).
- *Session.* Members parsed before an error stay in a structure declared ahead*
  (`parser.c:496`, against `README.md:46`); a variable that found no memory keeps
  its name with no object, and the next declaration with an initializer stores
  through it* (`interpreter.c:2711`, against `PROGRESS.md:104`). A session may be
  saved that cannot be restored, because the replay is one evaluation with one budget
  of steps (`interpreter.c:3186`)*, one of nodes (`parser.c:72`) and one limit of
  expanded text (`parser.c:1193`), where the session had one for each submission.
- *Statements.* The goto above*. A static whose initializer failed is zero at the
  next call*. `case -1` of an unsigned switch is not found*. `if (0) L: f();` runs
  `f`*. A jump past a declaration makes later uses name the outer variable*, and a
  block-scope `extern` declares nothing*.
- *Expressions.* The parser's constants fold `(_Bool)2` as 2 and compare unsigned
  ones as `long long`; `++(T)e` and `sizeof(T)++` parse and are refused when run.
- *Declarations.* A parenthesis directly inside a declarator's is refused
  (`int ((x))`)*; `signed unsigned int` takes the last sign*; a structure of 2^64
  bytes or more wraps*; with the table of types full, `double **pp` is silently a
  `void **`*; a typedef name of `void` is no empty parameter list; `int;` is
  accepted; an array without bounds is named `[0]`; the name of a parameter's type is cut
  at 127 characters in the name of the function's (`types.c:274`).
- *Initializers* (not modelled; against the brace elision and the designators of
  `README.md:136`). A designator of several steps continues after the outer member
  (`{.s.a=1, 2}`)*; a list that goes on after `.s=` enters no brace-elided
  structure*; a designator within an elided aggregate is "expected an expression"*;
  `int a[][2]={1,2,3,4}` has four rows*; a union's list may initialize its second
  member*; a second designator of the same member does not clear what the first
  wrote*; `int a[2]=1` is accepted*.
- *Preprocessor.* A macro named in its own argument expands once more than C
  allows*; `##` with an empty left side joins what stands before it; the ends of lines between
  a macro's name and its parenthesis, and those in an argument that is not used, is
  used twice or stands beside `#` or `##`, are counted not at all or twice, so that
  `__LINE__` is wrong until the next directive* (`preprocessor.c:316`;
  `README.md:170` warns of the lines of messages, nothing does of `__LINE__`); a `#line` name in
  an included file replaces the name the includer gave itself*.
- *Sorting.* A comparison that fails in a pass that writes the array leaves
  elements doubled*; after `exit()` the comparisons that remain answer the status*.
- *Console.* A history line of exactly the limit stops the loading of the file;
  the draft is remembered only the first time a line is left; two processes that
  end at once overwrite each other's history, and a crash while ending truncates it.

## 6. Plan

Done: every module of section 2 and the theorems of section 4. The order of what is
left, most important first:

1. Models: initializers with the table of types growing under them, enumerations
   and block scopes in `Declarations`, pointers in `Expressions` over `ObjectStore`,
   the composition of `Signals` with the run stack of `NestedBudget`.
2. Proofs: `Statements` with its trees as functions from places to nodes, so that
   the handlers' stack can be proved to follow the list of jumps; that a session of
   `Session` that crashes is one whose memory was exhausted before.

Modules meant for proofs use recursive functions and folds; reference semantics
that need RECURSIVE operators stay in modules that only TLC evaluates.
