---------------------------- MODULE NestedBudget ----------------------------
(***************************************************************************)
(* The limits of nested interpreters (src/src/bridge.c, interpret() of     *)
(* src/src/builtins.c, tick and the run entries of src/src/interpreter.c). *)
(* One host thread runs a stack of interpreters: a program calls interpret *)
(* and a child runs its file, or creates children with ct_create, limits   *)
(* them and evaluates in them whenever it likes.  Steps bound the work,    *)
(* frames the host stack, nesting levels the chain.                        *)
(*                                                                         *)
(* Abstractions.  A step is one tick; every frame is entered with a tick   *)
(* of its own, and every builtin call is made inside one frame at least.   *)
(* What the programs compute is left open.                                 *)
(***************************************************************************)
EXTENDS Integers, Sequences, SequencesExt, FiniteSets

CONSTANTS
  Children,          \* the child interpreters that can exist at once
  Main,              \* the host's interpreter
  NULL,
  StepLimit, FrameLimit, NestingLimit,          \* --max-steps, --max-depth, --max-nesting
  DefaultSteps, DefaultFrames, DefaultNesting,  \* what a limit of zero stands for
  Word,              \* unsigned values wrap at this
  StepArguments,     \* what programs pass to ct_set_limits
  FrameArguments,
  NestingArguments   \* and to ct_set_nesting

Engines == Children \cup {Main}

ASSUME MainAssumption  == Main \notin Children /\ NULL \notin Engines
ASSUME LimitAssumption ==
  /\ {StepLimit, FrameLimit, NestingLimit} \subseteq Nat \ {0}
  /\ {DefaultSteps, DefaultFrames, DefaultNesting} \subseteq Nat \ {0}
  /\ Word \in Nat /\ {FrameLimit, NestingLimit, DefaultFrames, DefaultNesting} \subseteq 1 .. Word - 1
ASSUME ArgumentAssumption == StepArguments \cup FrameArguments \cup NestingArguments \subseteq Int

VARIABLES
  engine,   \* the state of each interpreter that exists; its owner is NULL for one that does not
  running   \* the runs in progress, the host's first

vars == <<engine, running>>

Fresh == [owner |-> NULL, steps |-> 0, stepLimit |-> 0, depth |-> 0, depthLimit |-> 0,
          nesting |-> 0, nestingLimit |-> 0, failed |-> FALSE]

Init ==
  /\ engine = [e \in Engines |->
       IF e = Main THEN [Fresh EXCEPT !.owner = Main, !.stepLimit = StepLimit, !.depthLimit = FrameLimit,
                                      !.nestingLimit = NestingLimit]
       ELSE Fresh]
  /\ running = <<>>

Exists(e)  == engine[e].owner # NULL
Top        == Last(running).engine
Owns(e, c) == c # Main /\ engine[c].owner = e

\* The interpreters that go with c when ct_destroy discards its handles, c included: the
\* smallest set that has c and whatever its members created.
Owned(c) ==
  {d \in Children : \A gone \in SUBSET Children :
     c \in gone /\ (\A e \in Children : engine[e].owner \in gone => e \in gone) => d \in gone}

-----------------------------------------------------------------------------
(* One interpreter's own steps. *)

\* What ct_eval and ct_run_main reset before they run anything.
Started(r) == [r EXCEPT !.steps = 0, !.depth = 0, !.failed = FALSE]

\* Mutant: a step costs nothing.
Ticked_Free(r) == r

Ticked(r) == [r EXCEPT !.steps = @ + 1]

\* The running program can take a step within its budget.
CanTick == running # <<>> /\ ~engine[Top].failed /\ engine[Top].steps < engine[Top].stepLimit

\* tick_slow: the step that exceeds the limit stops the program.
OutOfSteps ==
  /\ running # <<>> /\ ~engine[Top].failed
  /\ engine[Top].steps >= engine[Top].stepLimit
  /\ engine' = [engine EXCEPT ![Top] = [Ticked(@) EXCEPT !.failed = TRUE]]
  /\ UNCHANGED running

\* A statement or an evaluated expression that enters a frame, when one is left.
Deeper(r) == IF r.depth + 1 > r.depthLimit THEN [Ticked(r) EXCEPT !.failed = TRUE]
             ELSE [Ticked(r) EXCEPT !.depth = @ + 1]
Enter ==
  /\ CanTick
  /\ engine' = [engine EXCEPT ![Top] = Deeper(@)]
  /\ UNCHANGED running

Leave ==
  /\ running # <<>> /\ ~engine[Top].failed /\ engine[Top].depth > 0
  /\ engine' = [engine EXCEPT ![Top].depth = @ - 1]
  /\ UNCHANGED running

\* A builtin is called from inside a frame and costs its caller a step.
Calls == CanTick /\ engine[Top].depth > 0

StepsLeft(r) == IF r.stepLimit > r.steps THEN r.stepLimit - r.steps ELSE 1

\* Mutant: a child gets its caller's whole frame budget, as before PROGRESS.md:98.
FramesLeft_Whole(r) == r.depthLimit

FramesLeft(r) == IF r.depthLimit > r.depth THEN r.depthLimit - r.depth ELSE 1

\* Mutant: a child starts at its caller's level.
NextLevel_Same(r) == r.nesting

\* One level deeper, in the unsigned arithmetic of the code.
NextLevel(r) == (r.nesting + 1) % Word

-----------------------------------------------------------------------------
(* ct_create and the limits of children. *)

\* What create_engine and interpret give a child of r.
Child(e, r) ==
  [owner |-> e, steps |-> 0, stepLimit |-> StepsLeft(r), depth |-> 0, depthLimit |-> FramesLeft(r),
   nesting |-> NextLevel(r), nestingLimit |-> r.nestingLimit, failed |-> FALSE]

Create(c) ==
  /\ Calls /\ ~Exists(c)
  /\ LET r == Ticked(engine[Top])
     IN  engine' = IF NextLevel(r) >= r.nestingLimit
                   THEN [engine EXCEPT ![Top] = [r EXCEPT !.failed = TRUE]]
                   ELSE [engine EXCEPT ![Top] = r, ![c] = Child(Top, r)]
  /\ UNCHANGED running

Destroy(c) ==
  /\ Calls /\ Owns(Top, c)
  /\ engine' = [e \in Engines |-> IF e \in Owned(c) THEN Fresh
                                  ELSE IF e = Top THEN Ticked(engine[e]) ELSE engine[e]]
  /\ UNCHANGED running

\* ct_clear of a child ends the interpreters it created.
Clear(c) ==
  /\ Calls /\ Owns(Top, c)
  /\ engine' = [e \in Engines |-> IF e \in Owned(c) \ {c} THEN Fresh
                                  ELSE IF e = Top THEN Ticked(engine[e]) ELSE engine[e]]
  /\ UNCHANGED running

Lower(a, b) == IF a > b THEN b ELSE a

\* The frame limit ct_set_limits leaves a child of r: (unsigned)depth is clamped to what
\* is left, and zero then means the default.
FrameBudget(depth, r) ==
  LET asked == Lower(IF depth > 0 THEN depth % Word ELSE DefaultFrames, FramesLeft(r))
  IN  IF asked = 0 THEN DefaultFrames ELSE asked

StepBudget(steps, r) == Lower(IF steps > 0 THEN steps ELSE DefaultSteps, StepsLeft(r))

SetLimits(c, steps, depth) ==
  /\ Calls /\ Owns(Top, c)
  /\ LET r == Ticked(engine[Top])
     IN  engine' = [engine EXCEPT ![Top] = r, ![c].stepLimit = StepBudget(steps, r),
                                  ![c].depthLimit = FrameBudget(depth, r)]
  /\ UNCHANGED running

\* The level is clamped as 64 bits and kept as 32.
Level(level, r) == IF level > NextLevel(r) THEN level % Word ELSE NextLevel(r)

LevelLimit(limit, r) ==
  LET asked == IF limit > 0 /\ limit % Word < r.nestingLimit THEN limit % Word ELSE r.nestingLimit
  IN  IF asked = 0 THEN DefaultNesting ELSE asked

SetNesting(c, level, limit) ==
  /\ Calls /\ Owns(Top, c)
  /\ LET r == engine[Top]
     IN  engine' = [engine EXCEPT ![Top] = Ticked(r), ![c].nesting = Level(level, r),
                                  ![c].nestingLimit = LevelLimit(limit, r)]
  /\ UNCHANGED running

-----------------------------------------------------------------------------
(* Running children. *)

\* ct_eval or ct_run_main on a child.
Run(c) ==
  /\ Calls /\ Owns(Top, c)
  /\ engine' = [engine EXCEPT ![Top] = Ticked(@), ![c] = Started(@)]
  /\ running' = Append(running, [engine |-> c, kind |-> "eval", budget |-> 0])

\* interpret(): a child for one file, limited to what its caller has left.
Interpret(c) ==
  /\ Calls /\ ~Exists(c)
  /\ LET r == Ticked(engine[Top])
     IN  IF NextLevel(r) >= r.nestingLimit
         THEN /\ engine' = [engine EXCEPT ![Top] = [r EXCEPT !.failed = TRUE]]
              /\ UNCHANGED running
         ELSE /\ engine' = [engine EXCEPT ![Top] = r, ![c] = Child(Top, r)]
              /\ running' = Append(running, [engine |-> c, kind |-> "interpret", budget |-> StepsLeft(r)])

\* The run on top has come to its end, or to an error that unwound it.
Ended == running # <<>> /\ (engine[Top].failed \/ engine[Top].depth = 0)

Caller == running[Len(running) - 1].engine

\* A run of ct_eval or ct_run_main returns to the program that called it, or to the host.
Return ==
  /\ Ended /\ Last(running).kind = "eval"
  /\ running' = Front(running)
  /\ engine' = [engine EXCEPT ![Top].depth = 0]

\* interpret() evaluated the file without error and finds a main to run.
InterpretMain ==
  /\ Ended /\ ~engine[Top].failed /\ Last(running).kind = "interpret"
  /\ running' = [running EXCEPT ![Len(running)].kind = "interpretMain"]
  /\ engine' = [engine EXCEPT ![Top] = Started(@)]

\* What interpret() charges its caller for.
Charge(run) ==
  run.budget - LET r == engine[run.engine]
               IN  IF r.stepLimit > r.steps THEN r.stepLimit - r.steps ELSE 0

InterpretReturn ==
  /\ Ended /\ Last(running).kind \in {"interpret", "interpretMain"}
  /\ running' = Front(running)
  /\ engine' = [e \in Engines |-> IF e \in Owned(Top) THEN Fresh
                                  ELSE IF e = Caller THEN [engine[e] EXCEPT !.steps = @ + Charge(Last(running))]
                                  ELSE engine[e]]

\* The host evaluates another submission; the children of earlier ones still exist.
HostRun ==
  /\ running = <<>>
  /\ running' = <<[engine |-> Main, kind |-> "eval", budget |-> 0]>>
  /\ engine' = [engine EXCEPT ![Main] = Started(@)]

Running ==
  \/ OutOfSteps \/ Enter \/ Leave \/ Return \/ InterpretMain \/ InterpretReturn
  \/ \E c \in Children : Create(c) \/ Destroy(c) \/ Clear(c) \/ Run(c) \/ Interpret(c)
  \/ \E c \in Children, steps \in StepArguments, depth \in FrameArguments : SetLimits(c, steps, depth)
  \/ \E c \in Children, level, limit \in NestingArguments : SetNesting(c, level, limit)

Next == HostRun \/ Running

\* The host thread keeps executing the program it runs.
Spec == Init /\ [][Next]_vars /\ WF_vars(Running)

-----------------------------------------------------------------------------
(* Properties. *)

\* The frames in use in the runs from i to j.
FramesInUse(i, j) == UNION {{k} \X (1 .. engine[running[k].engine].depth) : k \in i .. j}

\* The runs from i to j that have no frame left.
Spent(i, j) == {k \in i .. j : engine[running[k].engine].depth = engine[running[k].engine].depthLimit}

\* builtins.c:940, "Nested instances run on the same host stack, so they share one depth
\* budget": along a chain of interpret() calls the frames in use stay within the limit of
\* the program that started the chain, but for the one frame a child gets from a caller
\* with none left.
InterpretSharesFrames ==
  \A i, j \in 1 .. Len(running) :
    (i <= j /\ \A k \in i + 1 .. j : running[k].kind # "eval") =>
      Cardinality(FramesInUse(i, j)) <= engine[running[i].engine].depthLimit + Cardinality(Spent(i, j - 1))

Higher(a, b) == IF a > b THEN a ELSE b

\* No limit passes the host's, or the default it stands for where an argument that is cut to 32
\* bits comes to 0; what interpret() charges never takes its caller back to fewer steps than
\* none (steps are unsigned).
LimitsBounded ==
  \A e \in Engines :
    Exists(e) => /\ engine[e].stepLimit <= StepLimit
                 /\ engine[e].depthLimit <= Higher(FrameLimit, DefaultFrames)
                 /\ engine[e].nestingLimit <= Higher(NestingLimit, DefaultNesting)
                 /\ engine[e].steps >= 0

\* How many levels r may add below itself: those left to its limit, or, where ct_set_nesting has
\* put r past its limit, all of them once its next level has wrapped to 0.
LevelsLeft(r) == IF r.nesting < r.nestingLimit THEN r.nestingLimit - r.nesting - 1 ELSE r.nestingLimit

\* The levels bound every chain of interpret() calls, wherever its first program stands
\* (builtins.c:925, 945).
InterpretChainsBounded ==
  \A i, j \in 1 .. Len(running) :
    (i <= j /\ \A k \in i + 1 .. j : running[k].kind # "eval") =>
      j - i <= LevelsLeft(engine[running[i].engine])

\* Every program below the one that runs has paid for a statement and for a call out of steps
\* the next one cannot have again, so that the host's steps bound the runs in progress where
\* the levels, which programs may ask to have cut to 0, do not.
ChainPaid == running # <<>> => 2 * (Len(running) - 1) <= StepLimit

\* Whatever 64-bit limits and levels programs ask for, and however they create, run, clear and
\* destroy each other: together this is all that bounds the host stack (bridge.c:127-133,
\* 145-162, 456-474, builtins.c:922-964).  It is less than PROGRESS.md:11 says, that a child gets
\* what its caller has left "whatever it asks for" and a deeper level: 2^32 frames get it the
\* default, and a level of 2^32 the level of the host.
StaysWithinHost == LimitsBounded /\ InterpretChainsBounded /\ ChainPaid

\* A run always ends: every call into a child costs its caller a step, so even programs that
\* keep evaluating in children come to their end (or to their step limit).
RunsEnd == running # <<>> ~> running = <<>>
=============================================================================
