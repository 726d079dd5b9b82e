------------------------ MODULE NestedBudget_proofs ------------------------
(***************************************************************************)
(* Proofs about NestedBudget for any number of interpreters, any limits    *)
(* and any calls of the programs that run in them.                         *)
(***************************************************************************)
EXTENDS NestedBudget, SequenceTheorems, WellFoundedInduction, FiniteSetTheorems, TLAPS

-----------------------------------------------------------------------------
(* Sequences and numbers. *)

\* What is left of a sequence without its last element.
LEMMA FrontProperties ==
  ASSUME NEW S, NEW seq \in Seq(S), seq # <<>>
  PROVE  /\ Front(seq) \in Seq(S) /\ Len(Front(seq)) = Len(seq) - 1
         /\ \A k \in 1 .. Len(seq) - 1 : Front(seq)[k] = seq[k]
<1> DEFINE m == Len(seq) - 1
<1>1. m \in Nat /\ \A k \in 1 .. m : seq[k] \in S
  BY EmptySeq, ElementOfSeq
<1>2. Front(seq) = SubSeq(seq, 1, m)
  BY DEF Front
<1> HIDE DEF m
<1>3. /\ SubSeq(seq, 1, m) \in Seq(S)
      /\ Len(SubSeq(seq, 1, m)) = IF 1 <= m THEN m - 1 + 1 ELSE 0
      /\ \A k \in 1 .. m - 1 + 1 : SubSeq(seq, 1, m)[k] = seq[1 + k - 1]
  BY <1>1, SubSeqProperties
<1>4. Len(SubSeq(seq, 1, m)) = m
  BY <1>1, <1>3
<1>5. ASSUME NEW k \in 1 .. m
      PROVE  SubSeq(seq, 1, m)[k] = seq[k]
  <2>1. k \in 1 .. m - 1 + 1 /\ 1 + k - 1 = k
    BY <1>1
  <2> QED
    BY <2>1, <1>3
<1> QED
  BY <1>2, <1>3, <1>4, <1>5 DEF m

\* A set of natural numbers has a least one.
LEMMA LeastNatural ==
  ASSUME NEW T \in SUBSET Nat, T # {}
  PROVE  \E k \in T : \A l \in T : k <= l
<1> DEFINE less == {p \in Nat \X Nat : p[1] < p[2]}
<1>1. IsWellFoundedOn(less, Nat)
  BY NatLessThanWellFounded, Zenon DEF OpToRel
<1>2. \A l, k \in Nat : ~(<<l, k>> \in less) => k <= l
  OBVIOUS
<1> HIDE DEF less
<1>3. \E k \in T : \A l \in T : ~(<<l, k>> \in less)
  BY <1>1, WFMin
<1> QED
  BY <1>2, <1>3

-----------------------------------------------------------------------------
\* An interpreter, which has paid a step for each frame it is in.
Fields == [owner : Engines \cup {NULL}, steps : Nat, stepLimit : Nat, depth : Nat, depthLimit : Nat,
           nesting : Nat, nestingLimit : Nat, failed : BOOLEAN]
EngineRecord == {r \in Fields : r.depth <= r.steps}
RunRecord == [engine : Engines, kind : {"eval", "interpret", "interpretMain"}, budget : Nat]

TypeOK ==
  /\ engine \in [Engines -> EngineRecord]
  /\ running \in Seq(RunRecord)

\* What the host gave its own interpreter, or the default that 0 stands for.
FrameCeiling   == Higher(FrameLimit, DefaultFrames)
NestingCeiling == Higher(NestingLimit, DefaultNesting)

\* No interpreter has more, nor nothing at all.
Bounded(e) ==
  /\ engine[e].stepLimit \in 1 .. StepLimit
  /\ engine[e].depthLimit \in 1 .. FrameCeiling
  /\ engine[e].nestingLimit \in 1 .. NestingCeiling
WithinLimits == \A e \in Engines : Exists(e) => Bounded(e)

\* A run of interpret() has the budget it was given, and a caller to charge.
BudgetsKept ==
  \A k \in 1 .. Len(running) :
    running[k].kind # "eval" => k > 1 /\ engine[running[k].engine].stepLimit = running[k].budget

\* An interpreter n levels below the host's with this step limit is paid for: two steps for
\* each level above it, and its own.  Only the single step that a program without steps gives
\* its child is not.
Paid(n, limit) == 2 * n + limit <= StepLimit \/ (limit = 1 /\ 2 * n <= StepLimit)

\* How far each interpreter is from the host's in the tree of who created whom.  It is not the
\* level that programs see, which ct_set_nesting raises and can wrap.
Levels == [Engines -> Nat]

Tree(level) ==
  /\ engine[Main].owner = Main /\ level[Main] = 0
  /\ \A c \in Children : Exists(c) => /\ Exists(engine[c].owner)
                                      /\ level[c] = level[engine[c].owner] + 1
                                      /\ Paid(level[c], engine[c].stepLimit)

\* A program runs only children of its own, so the k-th run is k - 1 steps from the host.
ChainDescends(level) == \A k \in 1 .. Len(running) : Exists(running[k].engine) /\ level[running[k].engine] = k - 1

IndInv ==
  /\ TypeOK /\ WithinLimits /\ BudgetsKept
  /\ \E level \in Levels : Tree(level) /\ ChainDescends(level)

-----------------------------------------------------------------------------
(* What every step uses. *)

\* The run on top is there, and its program exists.
LEMMA TopExists ==
  ASSUME IndInv, running # <<>>
  PROVE  /\ Len(running) \in Nat \ {0} /\ Last(running) = running[Len(running)]
         /\ running[Len(running)] \in RunRecord
         /\ Top \in Engines /\ Exists(Top) /\ Bounded(Top) /\ engine[Top] \in EngineRecord
<1>1. TypeOK /\ WithinLimits /\ \E level \in Levels : ChainDescends(level)
  BY DEF IndInv
<1>2. Len(running) \in Nat \ {0}
  BY <1>1, EmptySeq DEF TypeOK
<1>3. running[Len(running)] \in RunRecord
  BY <1>1, <1>2, ElementOfSeq DEF TypeOK
<1>4. Top = running[Len(running)].engine /\ Top \in Engines
  BY <1>3 DEF Top, Last, RunRecord
<1>5. Exists(Top)
  BY <1>1, <1>2, <1>4 DEF ChainDescends
<1> QED
  BY <1>1, <1>2, <1>3, <1>4, <1>5 DEF WithinLimits, TypeOK, Last

\* The two ceilings, which unsigned values hold.
LEMMA Ceilings ==
  /\ FrameCeiling \in 1 .. Word - 1 /\ FrameLimit <= FrameCeiling /\ DefaultFrames <= FrameCeiling
  /\ NestingCeiling \in 1 .. Word - 1 /\ NestingLimit <= NestingCeiling /\ DefaultNesting <= NestingCeiling
BY LimitAssumption DEF FrameCeiling, NestingCeiling, Higher

\* What a caller has left is at least one and at most its limit.
LEMMA LeftIsWithin ==
  ASSUME NEW r \in EngineRecord, r.stepLimit \in 1 .. StepLimit, r.depthLimit \in 1 .. FrameCeiling
  PROVE  StepsLeft(r) \in 1 .. StepLimit /\ FramesLeft(r) \in 1 .. FrameCeiling
BY LimitAssumption, Ceilings DEF StepsLeft, FramesLeft, EngineRecord, Fields

\* The next level is one higher unless it wraps.
LEMMA NextLevelIs ==
  ASSUME NEW r \in EngineRecord
  PROVE  NextLevel(r) \in Nat /\ (r.nesting + 1 < Word => NextLevel(r) = r.nesting + 1)
<1>1. r.nesting \in Nat /\ Word \in Nat /\ Word > 0
  BY LimitAssumption DEF EngineRecord, Fields
<1> QED
  BY <1>1 DEF NextLevel

\* The host's own interpreter owes nothing.
LEMMA HostIsPaid == \A limit \in 1 .. StepLimit : Paid(0, limit)
BY LimitAssumption DEF Paid

\* A caller that has paid for a statement and for a call leaves a child that is paid for.
LEMMA ChildIsPaid ==
  ASSUME NEW r \in EngineRecord, NEW n \in Nat, Paid(n, r.stepLimit), r.steps \in 2 .. r.stepLimit,
         NEW limit \in 1 .. StepsLeft(r)
  PROVE  Paid(n + 1, limit)
<1>1. r.stepLimit \in Nat /\ r.steps \in Nat /\ StepLimit \in Nat
  BY LimitAssumption DEF EngineRecord, Fields
<1>2. 2 * n + r.stepLimit <= StepLimit
  BY <1>1 DEF Paid
<1>3. limit = 1 \/ limit <= r.stepLimit - 2
  BY <1>1 DEF StepsLeft
<1> QED
  BY <1>1, <1>2, <1>3 DEF Paid

\* A step that creates nobody, destroys nobody, starts no run and leaves the limits alone.
LEMMA SameShape ==
  ASSUME IndInv,
         engine' \in [Engines -> EngineRecord], running' \in Seq(RunRecord),
         \A e \in Engines : /\ engine'[e].owner = engine[e].owner
                            /\ engine'[e].nesting = engine[e].nesting
                            /\ engine'[e].stepLimit = engine[e].stepLimit
                            /\ engine'[e].depthLimit = engine[e].depthLimit
                            /\ engine'[e].nestingLimit = engine[e].nestingLimit,
         Len(running') <= Len(running),
         \A k \in 1 .. Len(running') :
            /\ running'[k].engine = running[k].engine
            /\ running'[k].kind # "eval" => running[k].kind # "eval" /\ running'[k].budget = running[k].budget
  PROVE  IndInv'
<1>0. TypeOK /\ WithinLimits /\ BudgetsKept
  BY DEF IndInv
<1>1. TypeOK'
  BY DEF TypeOK
<1>2. WithinLimits'
  BY <1>0 DEF WithinLimits, Bounded, Exists
<1>7. \A k \in 1 .. Len(running') : k \in 1 .. Len(running) /\ running[k] \in RunRecord
  BY <1>0, LenProperties, ElementOfSeq DEF TypeOK
<1>3. BudgetsKept'
  <2> SUFFICES ASSUME NEW k \in 1 .. Len(running'), running'[k].kind # "eval"
               PROVE  k > 1 /\ engine'[running'[k].engine].stepLimit = running'[k].budget
    BY DEF BudgetsKept
  <2>1. k \in 1 .. Len(running) /\ running[k].engine \in Engines
    BY <1>7 DEF RunRecord
  <2> QED
    BY <1>0, <2>1 DEF BudgetsKept
<1>4. PICK level \in Levels : Tree(level) /\ ChainDescends(level)
  BY DEF IndInv
<1>5. Tree(level)'
  <2>1. Main \in Engines /\ \A c \in Children : c \in Engines /\ (Exists(c) => engine[c].owner \in Engines)
    BY <1>0, MainAssumption DEF TypeOK, EngineRecord, Fields, Engines, Exists
  <2> QED
    BY <1>4, <2>1 DEF Tree, Exists
<1>6. ChainDescends(level)'
  <2> SUFFICES ASSUME NEW k \in 1 .. Len(running')
               PROVE  Exists(running[k].engine)' /\ level[running'[k].engine] = k - 1
    BY DEF ChainDescends
  <2>1. k \in 1 .. Len(running) /\ running[k].engine \in Engines
    BY <1>7 DEF RunRecord
  <2> QED
    BY <1>4, <2>1 DEF ChainDescends, Exists
<1> QED
  BY <1>1, <1>2, <1>3, <1>4, <1>5, <1>6 DEF IndInv

-----------------------------------------------------------------------------
(* One lemma per action. *)

LEMMA InitIndInv == Init => IndInv
<1> SUFFICES ASSUME Init PROVE IndInv
  OBVIOUS
<1> USE MainAssumption, LimitAssumption
<1>1. TypeOK
  <2> DEFINE host == [Fresh EXCEPT !.owner = Main, !.stepLimit = StepLimit, !.depthLimit = FrameLimit,
                                   !.nestingLimit = NestingLimit]
  <2>1. /\ Fresh \in Fields /\ Fresh.depth = 0 /\ Fresh.steps = 0
        /\ host \in Fields /\ host.depth = 0 /\ host.steps = 0
    BY DEF Fresh, Fields, Engines
  <2>2. engine = [e \in Engines |-> IF e = Main THEN host ELSE Fresh] /\ running = <<>>
    BY DEF Init
  <2> HIDE DEF host
  <2>3. Fresh \in EngineRecord /\ host \in EngineRecord
    BY <2>1 DEF EngineRecord
  <2> QED
    BY <2>2, <2>3 DEF TypeOK
<1>2. WithinLimits
  BY Ceilings DEF Init, Fresh, WithinLimits, Bounded, Exists
<1>3. BudgetsKept /\ Len(running) = 0
  BY DEF Init, BudgetsKept
<1>4. Tree([e \in Engines |-> 0]) /\ ChainDescends([e \in Engines |-> 0])
  <2>1. /\ engine[Main].owner = Main
        /\ \A c \in Children : engine[c].owner = NULL
    BY DEF Init, Fresh, Engines
  <2> QED
    BY <1>3, <2>1 DEF Tree, ChainDescends, Exists, Engines
<1>5. [e \in Engines |-> 0] \in Levels
  BY DEF Levels
<1> QED
  BY <1>1, <1>2, <1>3, <1>4, <1>5 DEF IndInv

\* An interpreter that has taken a step of its own is still within its limits and in its place.
Alike(r, s) ==
  /\ s \in EngineRecord
  /\ s.owner = r.owner /\ s.nesting = r.nesting
  /\ s.stepLimit = r.stepLimit /\ s.depthLimit = r.depthLimit /\ s.nestingLimit = r.nestingLimit

\* What a step of a program does to its own interpreter leaves its limits and its place alone.
LEMMA OwnRecords ==
  ASSUME NEW r \in EngineRecord
  PROVE  /\ Alike(r, Ticked(r)) /\ Alike(r, [Ticked(r) EXCEPT !.failed = TRUE])
         /\ Alike(r, [Ticked(r) EXCEPT !.depth = @ + 1])
         /\ r.depth > 0 => Alike(r, [r EXCEPT !.depth = @ - 1])
         /\ Alike(r, [r EXCEPT !.depth = 0])
         /\ Alike(r, Started(r))
<1>1. Alike(r, Ticked(r))
  BY DEF EngineRecord, Fields, Ticked, Alike
<1>2. \A failed \in BOOLEAN, depth \in Nat, s \in EngineRecord :
        Alike(r, s) => /\ Alike(r, [s EXCEPT !.failed = failed])
                       /\ depth <= s.steps => Alike(r, [s EXCEPT !.depth = depth])
  BY DEF EngineRecord, Fields, Alike
<1>3. /\ Alike(r, r) /\ r.depth \in Nat /\ r.steps \in Nat /\ r.depth <= r.steps
      /\ Ticked(r).depth = r.depth /\ Ticked(r).steps = r.steps + 1
  BY DEF EngineRecord, Fields, Alike, Ticked
<1>4. Alike(r, Started(r))
  <2>1. r \in Fields
    BY DEF EngineRecord
  <2>2. /\ Started(r) \in Fields /\ Started(r).depth = 0 /\ Started(r).steps = 0
        /\ Started(r).owner = r.owner /\ Started(r).nesting = r.nesting
        /\ Started(r).stepLimit = r.stepLimit /\ Started(r).depthLimit = r.depthLimit
        /\ Started(r).nestingLimit = r.nestingLimit
    BY <2>1 DEF Fields, Started
  <2>3. Started(r) \in EngineRecord
    BY <2>2 DEF EngineRecord
  <2> QED
    BY <2>2, <2>3 DEF Alike
<1>5. r.depth > 0 => r.depth - 1 \in Nat /\ r.depth - 1 <= r.steps
  BY <1>3
<1>6. r.depth + 1 \in Nat /\ r.depth + 1 <= Ticked(r).steps
  BY <1>3
<1>7. \A s : Alike(r, s) => s \in EngineRecord
  BY DEF Alike
<1>8. 0 \in Nat /\ TRUE \in BOOLEAN /\ 0 <= r.steps
  BY <1>3
<1>9. Alike(r, [Ticked(r) EXCEPT !.failed = TRUE])
  BY <1>1, <1>2, <1>7, <1>8
<1>10. Alike(r, [Ticked(r) EXCEPT !.depth = Ticked(r).depth + 1])
  BY <1>1, <1>2, <1>3, <1>6, <1>7
<1>11. r.depth > 0 => Alike(r, [r EXCEPT !.depth = r.depth - 1])
  BY <1>2, <1>3, <1>5
<1>12. Alike(r, [r EXCEPT !.depth = 0])
  BY <1>2, <1>3, <1>8
<1> QED
  BY <1>1, <1>4, <1>9, <1>10, <1>11, <1>12

\* Such a step, or the end of a run with one.
LEMMA AlikeIndInv ==
  ASSUME IndInv, running # <<>>, NEW s, Alike(engine[Top], s), engine' = [engine EXCEPT ![Top] = s],
         running' \in Seq(RunRecord), Len(running') <= Len(running),
         \A k \in 1 .. Len(running') :
            /\ running'[k].engine = running[k].engine
            /\ running'[k].kind # "eval" => running[k].kind # "eval" /\ running'[k].budget = running[k].budget
  PROVE  IndInv'
<1>1. Top \in Engines /\ engine \in [Engines -> EngineRecord]
  BY TopExists DEF IndInv, TypeOK
<1>2. engine' \in [Engines -> EngineRecord]
  BY <1>1 DEF Alike
<1>3. \A e \in Engines : /\ engine'[e].owner = engine[e].owner
                         /\ engine'[e].nesting = engine[e].nesting
                         /\ engine'[e].stepLimit = engine[e].stepLimit
                         /\ engine'[e].depthLimit = engine[e].depthLimit
                         /\ engine'[e].nestingLimit = engine[e].nestingLimit
  BY <1>1 DEF Alike
<1> QED
  BY <1>2, <1>3, SameShape

\* Ticks and the entering and leaving of frames keep the invariant.
LEMMA OwnStepsIndInv ==
  ASSUME IndInv, OutOfSteps \/ Enter \/ Leave
  PROVE  IndInv'
<1>1. running # <<>> /\ running' = running
  BY DEF OutOfSteps, Enter, Leave, CanTick
<1>2. Top \in Engines /\ engine[Top] \in EngineRecord /\ engine \in [Engines -> EngineRecord]
      /\ running' \in Seq(RunRecord) /\ Len(running') \in Nat
  BY <1>1, TopExists DEF IndInv, TypeOK
<1>3. \E s : Alike(engine[Top], s) /\ engine' = [engine EXCEPT ![Top] = s]
  <2>1. CASE OutOfSteps
    BY <1>2, <2>1, OwnRecords DEF OutOfSteps
  <2>2. CASE Enter
    <3>1. engine' = [engine EXCEPT ![Top] = Deeper(engine[Top])]
      BY <2>2 DEF Enter
    <3>2. Alike(engine[Top], Deeper(engine[Top]))
      BY <1>2, OwnRecords DEF Deeper
    <3> QED
      BY <3>1, <3>2
  <2>3. CASE Leave
    <3>1. engine[Top].depth > 0 /\ engine' = [engine EXCEPT ![Top] = [engine[Top] EXCEPT !.depth = @ - 1]]
      BY <1>2, <2>3 DEF Leave
    <3> QED
      BY <1>2, <3>1, OwnRecords
  <2> QED
    BY <2>1, <2>2, <2>3
<1>4. PICK s : Alike(engine[Top], s) /\ engine' = [engine EXCEPT ![Top] = s]
  BY <1>3
<1>5. /\ Len(running') <= Len(running)
      /\ \A k \in 1 .. Len(running') :
            /\ running'[k].engine = running[k].engine
            /\ running'[k].kind # "eval" => running[k].kind # "eval" /\ running'[k].budget = running[k].budget
  BY <1>1, <1>2
<1> QED
  BY <1>1, <1>2, <1>4, <1>5, AlikeIndInv

\* The end of an evaluation, and interpret() going on to main, keep the invariant.
LEMMA ReturnIndInv ==
  ASSUME IndInv, Return \/ InterpretMain
  PROVE  IndInv'
<1>1. running # <<>>
  BY DEF Return, InterpretMain, Ended
<1>2. Top \in Engines /\ engine[Top] \in EngineRecord /\ TypeOK /\ Len(running) \in Nat \ {0}
      /\ running[Len(running)] \in RunRecord
  BY <1>1, TopExists DEF IndInv
<1>3. \E s : Alike(engine[Top], s) /\ engine' = [engine EXCEPT ![Top] = s]
  <2>1. CASE Return
    <3>1. engine' = [engine EXCEPT ![Top] = [engine[Top] EXCEPT !.depth = 0]]
      BY <1>2, <2>1 DEF Return, TypeOK
    <3> QED
      BY <1>2, <3>1, OwnRecords
  <2>2. CASE InterpretMain
    <3>1. engine' = [engine EXCEPT ![Top] = Started(engine[Top])]
      BY <1>2, <2>2 DEF InterpretMain, TypeOK
    <3> QED
      BY <1>2, <3>1, OwnRecords
  <2> QED
    BY <2>1, <2>2
<1>4. PICK s : Alike(engine[Top], s) /\ engine' = [engine EXCEPT ![Top] = s]
  BY <1>3
<1>5. CASE Return
  <2>1. /\ running' \in Seq(RunRecord) /\ Len(running') = Len(running) - 1
        /\ \A k \in 1 .. Len(running') : running'[k] = running[k]
    BY <1>1, <1>2, <1>5, FrontProperties DEF Return, TypeOK
  <2>2. /\ Len(running') <= Len(running)
        /\ \A k \in 1 .. Len(running') :
              /\ running'[k].engine = running[k].engine
              /\ running'[k].kind # "eval" => running[k].kind # "eval" /\ running'[k].budget = running[k].budget
    BY <1>2, <2>1
  <2> QED
    BY <1>1, <1>2, <1>4, <2>1, <2>2, AlikeIndInv
<1>6. CASE InterpretMain
  <2>1. /\ running' \in Seq(RunRecord) /\ Len(running') <= Len(running)
        /\ \A k \in 1 .. Len(running') :
              /\ running'[k].engine = running[k].engine
              /\ running'[k].kind # "eval" => running[k].kind # "eval" /\ running'[k].budget = running[k].budget
    <3> DEFINE last == [running[Len(running)] EXCEPT !.kind = "interpretMain"]
    <3>1. running' = [running EXCEPT ![Len(running)] = last] /\ last \in RunRecord
      BY <1>2, <1>6 DEF InterpretMain, RunRecord
    <3>2. /\ last.engine = running[Len(running)].engine /\ last.budget = running[Len(running)].budget
          /\ running[Len(running)].kind # "eval"
      BY <1>2, <1>6 DEF InterpretMain, RunRecord, Last
    <3> HIDE DEF last
    <3>3. /\ running' \in Seq(RunRecord) /\ Len(running') = Len(running)
          /\ \A k \in 1 .. Len(running) : running'[k] = IF k = Len(running) THEN last ELSE running[k]
      BY <1>2, <3>1, ExceptSeq DEF TypeOK
    <3> QED
      BY <3>2, <3>3
  <2> QED
    BY <1>1, <1>2, <1>4, <2>1, AlikeIndInv
<1> QED
  BY <1>5, <1>6

\* A child of the program on top is not running: it is one step further from the host.
LEMMA ChildIdle ==
  ASSUME IndInv, running # <<>>, NEW c \in Children, Owns(Top, c) \/ ~Exists(c)
  PROVE  c # Top /\ c \in Engines /\ \A k \in 1 .. Len(running) : running[k].engine # c
<1>1. PICK level \in Levels : Tree(level) /\ ChainDescends(level)
  BY DEF IndInv
<1>2. Len(running) \in Nat \ {0} /\ Top = running[Len(running)].engine /\ Top \in Engines
  BY TopExists DEF Top
<1>3. CASE ~Exists(c)
  BY <1>1, <1>2, <1>3, TopExists DEF ChainDescends, Engines
<1>4. CASE Owns(Top, c)
  <2>1. Exists(c) /\ engine[c].owner = Top
    BY <1>2, <1>4, MainAssumption DEF Owns, Exists
  <2>2. level[c] = Len(running) - 1 + 1
    BY <1>1, <1>2, <2>1 DEF Tree, ChainDescends
  <2> QED
    BY <1>1, <1>2, <2>2 DEF ChainDescends, Engines
<1> QED
  BY <1>3, <1>4

\* A step of the program on top that creates, limits or runs one of its children: the
\* program becomes s and the child t, and the run may be entered.
ChildStep(c, s, t, run) ==
  /\ Owns(Top, c) \/ ~Exists(c)
  /\ Alike(engine[Top], s)
  /\ t \in EngineRecord /\ t.owner = Top
  /\ t.stepLimit \in 1 .. StepLimit /\ t.depthLimit \in 1 .. FrameCeiling /\ t.nestingLimit \in 1 .. NestingCeiling
  /\ \/ s.steps \in 2 .. s.stepLimit /\ t.stepLimit \in 1 .. StepsLeft(s)
     \/ Owns(Top, c) /\ t.stepLimit = engine[c].stepLimit
  /\ engine' = [engine EXCEPT ![Top] = s, ![c] = t]
  /\ run \in RunRecord /\ run.engine = c /\ (run.kind # "eval" => run.budget = t.stepLimit)
  /\ running' = running \/ running' = Append(running, run)

\* Creating, limiting or entering a child keeps the invariant when the child stays within limits.
LEMMA ChildIndInv ==
  ASSUME IndInv, running # <<>>, NEW c \in Children, NEW s, NEW t, NEW run, ChildStep(c, s, t, run)
  PROVE  IndInv'
<1> USE DEF ChildStep
<1>1. PICK level \in Levels : Tree(level) /\ ChainDescends(level)
  BY DEF IndInv
<1>2. TypeOK /\ WithinLimits /\ BudgetsKept
  BY DEF IndInv
<1>0. \A k \in 1 .. Len(running) : running[k] \in RunRecord /\ running[k].engine \in Engines
  <2>1. \A k \in 1 .. Len(running) : running[k] \in RunRecord
    BY <1>2, ElementOfSeq DEF TypeOK
  <2> QED
    BY <2>1 DEF RunRecord
<1>3. c # Top /\ c \in Engines /\ \A k \in 1 .. Len(running) : running[k].engine # c
  BY ChildIdle
<1>4. Len(running) \in Nat \ {0} /\ Top = running[Len(running)].engine /\ Top \in Engines /\ Exists(Top)
      /\ engine[Top] \in EngineRecord
  BY TopExists DEF Top
<1>5. /\ engine'[Top] = s /\ engine'[c] = t
      /\ \A e \in Engines \ {Top, c} : engine'[e] = engine[e]
  BY <1>2, <1>3, <1>4 DEF TypeOK
<1>6. /\ running' \in Seq(RunRecord)
      /\ \A k \in 1 .. Len(running) : running'[k] = running[k]
      /\ \A k \in 1 .. Len(running') : k \in 1 .. Len(running) \/ (k = Len(running) + 1 /\ running'[k] = run)
  <2>1. CASE running' = running
    BY <1>2, <2>1 DEF TypeOK
  <2>2. CASE running' = Append(running, run)
    <3>1. /\ running' \in Seq(RunRecord) /\ Len(running') = Len(running) + 1
          /\ \A k \in 1 .. Len(running) : running'[k] = running[k]
          /\ running'[Len(running) + 1] = run
      BY <1>2, <2>2, AppendProperties DEF TypeOK
    <3> QED
      BY <1>4, <3>1
  <2> QED
    BY <2>1, <2>2
<1>7. TypeOK'
  BY <1>2, <1>6 DEF TypeOK, Alike
<1>8. WithinLimits'
  <2> SUFFICES ASSUME NEW e \in Engines, engine'[e].owner # NULL
               PROVE  Bounded(e)'
    BY DEF WithinLimits, Exists
  <2>1. CASE e = Top
    BY <1>2, <1>4, <1>5, <2>1 DEF WithinLimits, Bounded, Alike
  <2>2. CASE e = c
    BY <1>5, <2>2 DEF Bounded
  <2>3. CASE e \notin {Top, c}
    BY <1>2, <1>5, <2>3 DEF WithinLimits, Bounded, Exists
  <2> QED
    BY <2>1, <2>2, <2>3
<1>9. BudgetsKept'
  <2> SUFFICES ASSUME NEW k \in 1 .. Len(running'), running'[k].kind # "eval"
               PROVE  k > 1 /\ engine'[running'[k].engine].stepLimit = running'[k].budget
    BY DEF BudgetsKept
  <2>1. CASE k \in 1 .. Len(running)
    <3>1. running[k].engine \in Engines
      BY <1>0, <2>1
    <3>2. engine'[running[k].engine].stepLimit = engine[running[k].engine].stepLimit
      BY <1>3, <1>4, <1>5, <2>1, <3>1 DEF Alike
    <3> QED
      BY <1>2, <1>6, <2>1, <3>2 DEF BudgetsKept
  <2>2. CASE k = Len(running) + 1 /\ running'[k] = run
    BY <1>4, <1>5, <2>2
  <2> QED
    BY <1>6, <2>1, <2>2
<1>10. level[Top] \in Nat /\ Paid(level[Top], engine[Top].stepLimit)
  <2>1. level[Top] \in Nat /\ (Top = Main \/ Top \in Children)
    BY <1>1, <1>4 DEF Levels, Engines
  <2>2. CASE Top = Main
    <3>1. level[Top] = 0 /\ engine[Top].stepLimit \in 1 .. StepLimit
      BY <1>1, <1>2, <1>4, <2>2 DEF Tree, WithinLimits, Bounded
    <3> QED
      BY <2>1, <3>1, HostIsPaid
  <2> QED
    BY <1>1, <1>4, <2>1, <2>2 DEF Tree
<1>11. Owns(Top, c) => Exists(c) /\ level[c] = level[Top] + 1 /\ Paid(level[c], engine[c].stepLimit)
  BY <1>1, <1>4, MainAssumption DEF Tree, Owns, Exists
<1>12. PICK next \in Levels : next[c] = level[Top] + 1 /\ \A e \in Engines \ {c} : next[e] = level[e]
  <2>1. level[Top] + 1 \in Nat
    BY <1>10
  <2>2. [level EXCEPT ![c] = level[Top] + 1] \in Levels
    BY <1>1, <2>1 DEF Levels
  <2> QED
    BY <1>1, <1>3, <2>2 DEF Levels
<1>13. Tree(next)'
  <2>1. engine'[Main].owner = Main /\ next[Main] = 0
    BY <1>1, <1>3, <1>4, <1>5, <1>12, MainAssumption DEF Tree, Alike, Engines
  <2> SUFFICES ASSUME NEW d \in Children, engine'[d].owner # NULL
               PROVE  /\ Exists(engine[d].owner)'
                      /\ next[d] = next[engine'[d].owner] + 1
                      /\ Paid(next[d], engine'[d].stepLimit)
    BY <2>1 DEF Tree, Exists
  <2>2. CASE d = c
    <3>1. engine'[d] = t /\ engine'[Top].owner # NULL /\ next[Top] = level[Top]
      BY <1>3, <1>4, <1>5, <1>12, <2>2 DEF Alike, Exists
    <3>2. Paid(level[Top] + 1, t.stepLimit)
      <4>1. CASE s.steps \in 2 .. s.stepLimit /\ t.stepLimit \in 1 .. StepsLeft(s)
        <5>1. s \in EngineRecord /\ s.stepLimit = engine[Top].stepLimit
          BY DEF Alike
        <5> QED
          BY <1>10, <4>1, <5>1, ChildIsPaid
      <4>2. CASE Owns(Top, c) /\ t.stepLimit = engine[c].stepLimit
        BY <1>11, <4>2
      <4> QED
        BY <4>1, <4>2
    <3> QED
      BY <1>12, <2>2, <3>1, <3>2 DEF Exists
  <2>3. CASE d # c
    <3>1. d \in Engines /\ engine'[d].owner = engine[d].owner /\ engine'[d].stepLimit = engine[d].stepLimit
      BY <1>5, <2>3 DEF Alike, Engines
    <3>2. Exists(d) /\ Exists(engine[d].owner) /\ engine[d].owner \in Engines
      BY <1>1, <1>2, <3>1 DEF Exists, Tree, TypeOK, EngineRecord, Fields
    <3>3. Exists(engine[d].owner)'
      <4>1. s.owner = engine[Top].owner /\ t.owner # NULL /\ engine[Top].owner # NULL
        BY <1>4, MainAssumption DEF Exists, Alike
      <4>2. engine[engine[d].owner].owner # NULL
        BY <3>2 DEF Exists
      <4>3. engine'[engine[d].owner].owner # NULL
        BY <1>5, <3>2, <4>1, <4>2
      <4> QED
        BY <3>1, <4>3 DEF Exists
    <3>4. engine[d].owner = c => Owns(Top, c) /\ next[c] = level[c]
      BY <1>11, <1>12, <3>2
    <3> QED
      BY <1>1, <1>12, <2>3, <3>1, <3>2, <3>3, <3>4 DEF Tree
  <2> QED
    BY <2>2, <2>3
<1>14. ChainDescends(next)'
  <2> SUFFICES ASSUME NEW k \in 1 .. Len(running')
               PROVE  Exists(running[k].engine)' /\ next[running'[k].engine] = k - 1
    BY DEF ChainDescends
  <2>1. CASE k \in 1 .. Len(running)
    <3>1. running[k].engine \in Engines
      BY <1>0, <2>1
    <3>2. running'[k].engine = running[k].engine /\ running[k].engine # c
      BY <1>3, <1>6, <2>1
    <3>3. engine[running[k].engine].owner # NULL /\ level[running[k].engine] = k - 1
      BY <1>1, <2>1 DEF ChainDescends, Exists
    <3>4. engine'[running[k].engine].owner = engine[running[k].engine].owner
      BY <1>4, <1>5, <3>1, <3>2 DEF Alike
    <3> QED
      BY <1>12, <3>1, <3>2, <3>3, <3>4 DEF Exists
  <2>2. CASE k = Len(running) + 1 /\ running'[k] = run
    <3>1. level[Top] = Len(running) - 1
      BY <1>1, <1>4 DEF ChainDescends
    <3>2. t.owner # NULL
      BY <1>4, MainAssumption
    <3> QED
      BY <1>4, <1>5, <1>12, <2>2, <3>1, <3>2 DEF Exists
  <2> QED
    BY <1>6, <2>1, <2>2
<1> QED
  BY <1>7, <1>8, <1>9, <1>12, <1>13, <1>14 DEF IndInv

\* The caller after the step that a builtin costs it.
LEMMA CallerSteps ==
  ASSUME IndInv, Calls
  PROVE  /\ running # <<>> /\ Top \in Engines /\ engine[Top] \in EngineRecord
         /\ Alike(engine[Top], Ticked(engine[Top])) /\ Ticked(engine[Top]) \in EngineRecord
         /\ StepsLeft(Ticked(engine[Top])) \in 1 .. StepLimit /\ FramesLeft(Ticked(engine[Top])) \in 1 .. FrameCeiling
         /\ engine[Top].nestingLimit \in 1 .. NestingCeiling
         /\ Ticked(engine[Top]).steps \in 2 .. Ticked(engine[Top]).stepLimit
         /\ engine \in [Engines -> EngineRecord]
<1>1. running # <<>> /\ TypeOK
  BY DEF Calls, CanTick, IndInv
<1>2. Top \in Engines /\ engine[Top] \in EngineRecord /\ Bounded(Top)
  BY <1>1, TopExists
<1>3. Alike(engine[Top], Ticked(engine[Top]))
  BY <1>2, OwnRecords
<1>4. /\ Ticked(engine[Top]) \in EngineRecord
      /\ Ticked(engine[Top]).stepLimit \in 1 .. StepLimit /\ Ticked(engine[Top]).depthLimit \in 1 .. FrameCeiling
  BY <1>2, <1>3 DEF Alike, Bounded
<1>5. Ticked(engine[Top]).steps \in 2 .. Ticked(engine[Top]).stepLimit
  <2>1. /\ engine[Top].depth \in Nat /\ engine[Top].steps \in Nat /\ engine[Top].stepLimit \in Nat
        /\ engine[Top].depth <= engine[Top].steps
        /\ Ticked(engine[Top]).steps = engine[Top].steps + 1
        /\ Ticked(engine[Top]).stepLimit = engine[Top].stepLimit
    BY <1>2 DEF EngineRecord, Fields, Ticked
  <2>2. engine[Top].depth > 0 /\ engine[Top].steps < engine[Top].stepLimit
    BY DEF Calls, CanTick
  <2> QED
    BY <2>1, <2>2
<1> QED
  BY <1>1, <1>2, <1>3, <1>4, <1>5, LeftIsWithin DEF Bounded, TypeOK

\* What a new child starts with.
LEMMA ChildRecord ==
  ASSUME NEW e \in Engines, NEW r \in EngineRecord, StepsLeft(r) \in Nat, FramesLeft(r) \in Nat
  PROVE  /\ Child(e, r) \in EngineRecord /\ Child(e, r).owner = e
         /\ Child(e, r).stepLimit = StepsLeft(r) /\ Child(e, r).depthLimit = FramesLeft(r)
         /\ Child(e, r).nesting = NextLevel(r) /\ Child(e, r).nestingLimit = r.nestingLimit
<1> DEFINE new == [owner |-> e, steps |-> 0, stepLimit |-> StepsLeft(r), depth |-> 0, depthLimit |-> FramesLeft(r),
                   nesting |-> NextLevel(r), nestingLimit |-> r.nestingLimit, failed |-> FALSE]
<1>1. Child(e, r) = new
  BY DEF Child
<1>2. NextLevel(r) \in Nat /\ r.nestingLimit \in Nat
  BY NextLevelIs DEF EngineRecord, Fields
<1>3. new \in EngineRecord
  BY <1>2 DEF EngineRecord, Fields
<1> QED
  BY <1>1, <1>3

\* A refused child costs its caller a step and stops it.
LEMMA RefusedIndInv ==
  ASSUME IndInv, Calls, engine' = [engine EXCEPT ![Top] = [Ticked(engine[Top]) EXCEPT !.failed = TRUE]],
         running' = running
  PROVE  IndInv'
<1>1. running # <<>> /\ Top \in Engines /\ engine[Top] \in EngineRecord
  BY CallerSteps
<1>2. Alike(engine[Top], [Ticked(engine[Top]) EXCEPT !.failed = TRUE])
  BY <1>1, OwnRecords
<1>3. running' \in Seq(RunRecord) /\ Len(running') \in Nat
  BY DEF IndInv, TypeOK
<1>4. /\ Len(running') <= Len(running)
      /\ \A k \in 1 .. Len(running') :
            /\ running'[k].engine = running[k].engine
            /\ running'[k].kind # "eval" => running[k].kind # "eval" /\ running'[k].budget = running[k].budget
  BY <1>3
<1> QED
  BY <1>1, <1>2, <1>3, <1>4, AlikeIndInv

\* A new child, and a run of it if interpret() made it.
LEMMA NewChildIndInv ==
  ASSUME IndInv, Calls, NEW c \in Children, ~Exists(c),
         engine' = [engine EXCEPT ![Top] = Ticked(engine[Top]), ![c] = Child(Top, Ticked(engine[Top]))],
         NEW kind \in {"eval", "interpret", "interpretMain"},
         \/ running' = running
         \/ running' = Append(running, [engine |-> c, kind |-> kind, budget |-> StepsLeft(Ticked(engine[Top]))])
  PROVE  IndInv'
<1> DEFINE r   == Ticked(engine[Top])
           run == [engine |-> c, kind |-> kind, budget |-> StepsLeft(r)]
<1>1. /\ running # <<>> /\ Top \in Engines /\ engine[Top] \in EngineRecord
      /\ Alike(engine[Top], r) /\ r \in EngineRecord
      /\ StepsLeft(r) \in 1 .. StepLimit /\ FramesLeft(r) \in 1 .. FrameCeiling
      /\ engine[Top].nestingLimit \in 1 .. NestingCeiling /\ r.steps \in 2 .. r.stepLimit
  BY CallerSteps
<1>2. r.nestingLimit = engine[Top].nestingLimit
  BY <1>1 DEF Alike
<1>3. /\ Child(Top, r) \in EngineRecord /\ Child(Top, r).owner = Top
      /\ Child(Top, r).stepLimit = StepsLeft(r) /\ Child(Top, r).depthLimit = FramesLeft(r)
      /\ Child(Top, r).nestingLimit = r.nestingLimit
  BY <1>1, ChildRecord
<1>4. run \in RunRecord /\ run.engine = c /\ run.budget = StepsLeft(r)
  BY <1>1 DEF RunRecord, Engines
<1>5. running' = running \/ running' = Append(running, run)
  OBVIOUS
<1> HIDE DEF r, run
<1>6. engine' = [engine EXCEPT ![Top] = r, ![c] = Child(Top, r)]
  BY DEF r
<1>7. /\ Child(Top, r).stepLimit \in 1 .. StepLimit /\ Child(Top, r).depthLimit \in 1 .. FrameCeiling
      /\ Child(Top, r).nestingLimit \in 1 .. NestingCeiling
      /\ Child(Top, r).stepLimit \in 1 .. StepsLeft(r)
      /\ run.kind # "eval" => run.budget = Child(Top, r).stepLimit
  BY <1>1, <1>2, <1>3, <1>4
<1>8. ChildStep(c, r, Child(Top, r), run)
  BY <1>1, <1>3, <1>4, <1>5, <1>6, <1>7 DEF ChildStep
<1> QED
  BY <1>1, <1>8, ChildIndInv

\* ct_create and interpret() keep the invariant.
LEMMA CreateIndInv ==
  ASSUME IndInv, NEW c \in Children, Create(c) \/ Interpret(c)
  PROVE  IndInv'
<1> DEFINE r == Ticked(engine[Top])
<1>1. Calls /\ ~Exists(c)
  BY DEF Create, Interpret
<1>2. CASE NextLevel(r) >= r.nestingLimit
  <2>1. engine' = [engine EXCEPT ![Top] = [r EXCEPT !.failed = TRUE]] /\ running' = running
    BY <1>2 DEF Create, Interpret
  <2> QED
    BY <1>1, <2>1, RefusedIndInv
<1>3. CASE ~(NextLevel(r) >= r.nestingLimit)
  <2>1. CASE Create(c)
    <3>1. running' = running /\ engine' = [engine EXCEPT ![Top] = r, ![c] = Child(Top, r)]
      BY <1>3, <2>1 DEF Create
    <3> QED
      BY <1>1, <1>3, <3>1, NewChildIndInv
  <2>2. CASE Interpret(c)
    <3>1. /\ running' = Append(running, [engine |-> c, kind |-> "interpret", budget |-> StepsLeft(r)])
          /\ engine' = [engine EXCEPT ![Top] = r, ![c] = Child(Top, r)]
      BY <1>3, <2>2 DEF Interpret
    <3>2. "interpret" \in {"eval", "interpret", "interpretMain"}
      OBVIOUS
    <3> QED
      BY <1>1, <1>3, <3>1, <3>2, NewChildIndInv
  <2> QED
    BY <2>1, <2>2
<1> QED
  BY <1>2, <1>3

\* What ct_set_limits leaves is no more than the caller has left, but that no frames after the
\* cut to 32 bits stand for the default.
LEMMA LimitsWithin ==
  ASSUME NEW r \in EngineRecord, r.stepLimit \in 1 .. StepLimit, r.depthLimit \in 1 .. FrameCeiling,
         NEW steps \in StepArguments, NEW depth \in FrameArguments
  PROVE  StepBudget(steps, r) \in 1 .. StepsLeft(r) /\ FrameBudget(depth, r) \in 1 .. FrameCeiling
<1>1. StepsLeft(r) \in 1 .. StepLimit /\ FramesLeft(r) \in 1 .. FrameCeiling
  BY LeftIsWithin
<1>2. {StepLimit, DefaultSteps, DefaultFrames, Word} \subseteq Nat /\ DefaultSteps > 0 /\ DefaultFrames > 0 /\ Word > 0
  BY LimitAssumption
<1>3. {steps, depth} \subseteq Int
  BY ArgumentAssumption
<1>4. depth > 0 => depth % Word \in Nat
  BY <1>2, <1>3
<1>5. StepBudget(steps, r) \in 1 .. StepsLeft(r)
  BY <1>1, <1>2, <1>3 DEF StepBudget, Lower
<1>6. FrameBudget(depth, r) \in 1 .. FrameCeiling
  BY <1>1, <1>2, <1>3, <1>4, Ceilings DEF FrameBudget, Lower
<1> QED
  BY <1>5, <1>6

\* Whatever level is asked for, the limit of levels is the caller's, a lower one or the default.
LEMMA LevelsWithin ==
  ASSUME NEW r \in EngineRecord, r.nestingLimit \in 1 .. NestingCeiling,
         NEW level \in NestingArguments, NEW limit \in NestingArguments
  PROVE  Level(level, r) \in Nat /\ LevelLimit(limit, r) \in 1 .. NestingCeiling
<1>1. NextLevel(r) \in Nat /\ {NestingCeiling, DefaultNesting, Word} \subseteq Nat /\ Word > 0 /\ DefaultNesting > 0
  BY LimitAssumption, Ceilings, NextLevelIs
<1>2. {level, limit} \subseteq Int
  BY ArgumentAssumption
<1>3. \A n \in {level, limit} : n % Word \in Nat
  BY <1>1, <1>2
<1>4. Level(level, r) \in Nat
  BY <1>1, <1>3 DEF Level
<1>5. LevelLimit(limit, r) \in 1 .. NestingCeiling
  BY <1>1, <1>2, <1>3, Ceilings DEF LevelLimit
<1> QED
  BY <1>4, <1>5

\* ct_set_limits, ct_set_nesting and ct_eval of a child keep the invariant.
LEMMA LimitsIndInv ==
  ASSUME IndInv, NEW c \in Children,
         \/ \E steps \in StepArguments, depth \in FrameArguments : SetLimits(c, steps, depth)
         \/ \E level, limit \in NestingArguments : SetNesting(c, level, limit)
         \/ Run(c)
  PROVE  IndInv'
<1> DEFINE s == Ticked(engine[Top])
           run == [engine |-> c, kind |-> "eval", budget |-> 0]
<1>1. Calls /\ Owns(Top, c)
  BY DEF SetLimits, SetNesting, Run
<1>2. /\ running # <<>> /\ Top \in Engines /\ engine[Top] \in EngineRecord
      /\ Alike(engine[Top], s) /\ s \in EngineRecord /\ s.steps \in 2 .. s.stepLimit
      /\ engine \in [Engines -> EngineRecord]
  BY <1>1, CallerSteps
<1>3. c # Top /\ c \in Engines /\ Exists(c) /\ Bounded(c) /\ engine[c].owner = Top /\ engine[c] \in EngineRecord
  <2>1. c # Top /\ c \in Engines
    BY <1>1, <1>2, ChildIdle
  <2>2. Exists(c) /\ engine[c].owner = Top
    BY <1>1, <1>2, MainAssumption DEF Owns, Exists
  <2> QED
    BY <1>2, <2>1, <2>2 DEF IndInv, WithinLimits
<1>4. s.stepLimit \in 1 .. StepLimit /\ s.depthLimit \in 1 .. FrameCeiling
      /\ engine[Top].nestingLimit \in 1 .. NestingCeiling
  BY <1>2, TopExists DEF Alike, Bounded
<1>5. run \in RunRecord /\ run.engine = c /\ run.kind = "eval"
  BY <1>3 DEF RunRecord
<1>6. /\ engine[c].stepLimit \in 1 .. StepLimit /\ engine[c].depthLimit \in 1 .. FrameCeiling
      /\ engine[c].nestingLimit \in 1 .. NestingCeiling
      /\ StepsLeft(s) \in 1 .. StepLimit
  BY <1>1, <1>3, CallerSteps DEF Bounded
<1>10. engine \in [Engines -> EngineRecord] /\ Top \in Engines /\ c \in Engines /\ c # Top
  BY <1>2, <1>3
<1> HIDE DEF s, run
<1>7. ASSUME NEW steps \in StepArguments, NEW depth \in FrameArguments, SetLimits(c, steps, depth)
      PROVE  IndInv'
  <2> DEFINE t == [engine[c] EXCEPT !.stepLimit = StepBudget(steps, s), !.depthLimit = FrameBudget(depth, s)]
  <2>1. /\ StepBudget(steps, s) \in 1 .. StepsLeft(s) /\ StepBudget(steps, s) \in 1 .. StepLimit
        /\ FrameBudget(depth, s) \in 1 .. FrameCeiling
    <3>1. StepBudget(steps, s) \in 1 .. StepsLeft(s) /\ FrameBudget(depth, s) \in 1 .. FrameCeiling
      BY <1>2, <1>4, LimitsWithin
    <3> QED
      BY <1>6, <3>1, LimitAssumption
  <2>2. /\ t \in EngineRecord /\ t.owner = Top /\ t.stepLimit \in 1 .. StepsLeft(s)
        /\ t.stepLimit \in 1 .. StepLimit /\ t.depthLimit \in 1 .. FrameCeiling /\ t.nestingLimit \in 1 .. NestingCeiling
    <3>1. StepBudget(steps, s) \in Nat /\ FrameBudget(depth, s) \in Nat
      BY <2>1, LimitAssumption, Ceilings
    <3>2. t \in EngineRecord
      BY <1>3, <3>1 DEF EngineRecord, Fields
    <3>3. /\ t.owner = engine[c].owner /\ t.nestingLimit = engine[c].nestingLimit
          /\ t.stepLimit = StepBudget(steps, s) /\ t.depthLimit = FrameBudget(depth, s)
      BY <1>3 DEF EngineRecord, Fields
    <3> QED
      BY <1>3, <1>6, <2>1, <3>2, <3>3
  <2>3. engine' = [engine EXCEPT ![Top] = s, ![c] = t] /\ running' = running
    BY <1>7, <1>10 DEF SetLimits, s
  <2> HIDE DEF t
  <2>4. ChildStep(c, s, t, run)
    BY <1>1, <1>2, <1>5, <2>2, <2>3 DEF ChildStep
  <2> QED
    BY <1>2, <2>4, ChildIndInv
<1>8. ASSUME NEW level \in NestingArguments, NEW limit \in NestingArguments, SetNesting(c, level, limit)
      PROVE  IndInv'
  <2> DEFINE r == engine[Top]
             t == [engine[c] EXCEPT !.nesting = Level(level, r), !.nestingLimit = LevelLimit(limit, r)]
  <2>1. Level(level, r) \in Nat /\ LevelLimit(limit, r) \in 1 .. NestingCeiling
    BY <1>2, <1>4, LevelsWithin
  <2>2. /\ t \in EngineRecord /\ t.owner = Top /\ t.stepLimit = engine[c].stepLimit
        /\ t.stepLimit \in 1 .. StepLimit /\ t.depthLimit \in 1 .. FrameCeiling /\ t.nestingLimit \in 1 .. NestingCeiling
    <3>1. LevelLimit(limit, r) \in Nat
      BY <2>1, Ceilings
    <3>2. t \in EngineRecord
      BY <1>3, <2>1, <3>1 DEF EngineRecord, Fields
    <3>3. /\ t.owner = engine[c].owner /\ t.stepLimit = engine[c].stepLimit /\ t.depthLimit = engine[c].depthLimit
          /\ t.nesting = Level(level, r) /\ t.nestingLimit = LevelLimit(limit, r)
      BY <1>3 DEF EngineRecord, Fields
    <3> QED
      BY <1>3, <1>6, <2>1, <3>2, <3>3
  <2>3. engine' = [engine EXCEPT ![Top] = s, ![c] = t] /\ running' = running
    BY <1>8, <1>10 DEF SetNesting, s
  <2> HIDE DEF t
  <2>4. ChildStep(c, s, t, run)
    BY <1>1, <1>2, <1>5, <2>2, <2>3 DEF ChildStep
  <2> QED
    BY <1>2, <2>4, ChildIndInv
<1>9. CASE Run(c)
  <2>1. engine' = [engine EXCEPT ![Top] = s, ![c] = Started(engine[c])] /\ running' = Append(running, run)
    BY <1>2, <1>3, <1>9 DEF Run, s, run
  <2>2. Alike(engine[c], Started(engine[c]))
    BY <1>3, OwnRecords
  <2>3. ChildStep(c, s, Started(engine[c]), run)
    BY <1>1, <1>2, <1>3, <1>5, <1>6, <2>1, <2>2 DEF ChildStep, Alike
  <2> QED
    BY <1>2, <2>3, ChildIndInv
<1> QED
  BY <1>7, <1>8, <1>9

-----------------------------------------------------------------------------
(* Steps that end interpreters. *)

\* With an interpreter go exactly those it created, directly or not: each has a higher level.
LEMMA OwnedProperties ==
  ASSUME IndInv, NEW c \in Children, NEW level \in Levels, Tree(level)
  PROVE  /\ Owned(c) \subseteq Children /\ c \in Owned(c)
         /\ \A d \in Children : engine[d].owner \in Owned(c) => d \in Owned(c)
         /\ \A d \in Owned(c) : d = c \/ (Exists(d) /\ level[d] > level[c])
<1>1. Owned(c) \subseteq Children /\ c \in Owned(c)
  BY DEF Owned
<1>2. ASSUME NEW d \in Children, engine[d].owner \in Owned(c)
      PROVE  d \in Owned(c)
  BY <1>2 DEF Owned
<1> DEFINE above == {d \in Children : d = c \/ (Exists(d) /\ level[d] > level[c])}
<1>3. ASSUME NEW e \in Children, engine[e].owner \in above
      PROVE  e \in above
  <2>1. engine[e].owner # NULL
    BY <1>3, MainAssumption DEF Engines
  <2>2. Exists(e) /\ level[e] = level[engine[e].owner] + 1
    BY <2>1 DEF Exists, Tree
  <2>3. level[engine[e].owner] >= level[c] /\ level[engine[e].owner] \in Nat /\ level[c] \in Nat
    BY <1>3 DEF Levels, Engines
  <2> QED
    BY <2>2, <2>3
<1>4. Owned(c) \subseteq above
  <2>1. above \in SUBSET Children /\ c \in above
    OBVIOUS
  <2> HIDE DEF above
  <2> QED
    BY <1>3, <2>1 DEF Owned
<1> QED
  BY <1>1, <1>2, <1>4

\* A step that ends the interpreters gone and lets x go on.
EndStep(gone, x, s) ==
  /\ gone \subseteq Children /\ \A d \in Children : engine[d].owner \in gone => d \in gone
  /\ x \in Engines \ gone /\ Alike(engine[x], s)
  /\ engine' = [e \in Engines |-> IF e \in gone THEN Fresh ELSE IF e = x THEN s ELSE engine[e]]
  /\ running' \in Seq(RunRecord) /\ Len(running') <= Len(running)
  /\ \A k \in 1 .. Len(running') : running'[k] = running[k] /\ running[k].engine \notin gone

\* Ending interpreters together with all they own keeps the invariant.
LEMMA EndIndInv ==
  ASSUME IndInv, NEW gone, NEW x, NEW s, EndStep(gone, x, s)
  PROVE  IndInv'
<1> USE DEF EndStep
<1>1. PICK level \in Levels : Tree(level) /\ ChainDescends(level)
  BY DEF IndInv
<1>2. TypeOK /\ WithinLimits /\ BudgetsKept
  BY DEF IndInv
<1>3. \A k \in 1 .. Len(running') : /\ k \in 1 .. Len(running) /\ running[k] \in RunRecord
                                    /\ running[k].engine \in Engines /\ running[k].engine \notin gone
                                    /\ running'[k] = running[k]
  <2>1. \A k \in 1 .. Len(running') : k \in 1 .. Len(running) /\ running[k] \in RunRecord
    BY <1>2, LenProperties, ElementOfSeq DEF TypeOK
  <2> QED
    BY <2>1 DEF RunRecord
<1>4. Fresh \in EngineRecord /\ Fresh.owner = NULL
  BY DEF Fresh, EngineRecord, Fields
<1>5. TypeOK'
  BY <1>2, <1>4 DEF TypeOK, Alike
<1>6. ASSUME NEW e \in Engines \ gone
      PROVE  /\ engine'[e].owner = engine[e].owner /\ engine'[e].nesting = engine[e].nesting
             /\ engine'[e].stepLimit = engine[e].stepLimit /\ engine'[e].depthLimit = engine[e].depthLimit
             /\ engine'[e].nestingLimit = engine[e].nestingLimit
  BY DEF Alike
<1>7. \A e \in gone : engine'[e].owner = NULL
  BY <1>4 DEF Engines
<1>8. WithinLimits'
  BY <1>2, <1>6, <1>7 DEF WithinLimits, Bounded, Exists
<1>9. BudgetsKept'
  <2> SUFFICES ASSUME NEW k \in 1 .. Len(running'), running'[k].kind # "eval"
               PROVE  k > 1 /\ engine'[running'[k].engine].stepLimit = running'[k].budget
    BY DEF BudgetsKept
  <2> QED
    BY <1>2, <1>3, <1>6 DEF BudgetsKept
<1>10. Tree(level)'
  <2>1. Main \in Engines \ gone
    BY MainAssumption DEF Engines
  <2>2. engine'[Main].owner = Main /\ level[Main] = 0
    BY <1>1, <1>6, <2>1 DEF Tree
  <2> SUFFICES ASSUME NEW d \in Children, engine'[d].owner # NULL
               PROVE  /\ Exists(engine[d].owner)'
                      /\ level[d] = level[engine'[d].owner] + 1
                      /\ Paid(level[d], engine'[d].stepLimit)
    BY <2>2 DEF Tree, Exists
  <2>3. d \in Engines \ gone
    BY <1>7 DEF Engines
  <2>4. engine'[d].owner = engine[d].owner /\ engine'[d].stepLimit = engine[d].stepLimit
    BY <1>6, <2>3
  <2>5. engine[d].owner \in Engines \ gone
    BY <1>2, <2>3, <2>4 DEF TypeOK, EngineRecord, Fields
  <2>6. /\ engine[engine[d].owner].owner # NULL /\ level[d] = level[engine[d].owner] + 1
        /\ Paid(level[d], engine[d].stepLimit)
    BY <1>1, <2>4 DEF Tree, Exists
  <2>7. engine'[engine[d].owner].owner = engine[engine[d].owner].owner
    BY <1>6, <2>5
  <2> QED
    BY <2>4, <2>6, <2>7 DEF Exists
<1>11. ChainDescends(level)'
  <2> SUFFICES ASSUME NEW k \in 1 .. Len(running')
               PROVE  Exists(running[k].engine)' /\ level[running'[k].engine] = k - 1
    BY DEF ChainDescends
  <2>1. engine[running[k].engine].owner # NULL /\ level[running[k].engine] = k - 1
    BY <1>1, <1>3 DEF ChainDescends, Exists
  <2>2. engine'[running[k].engine].owner = engine[running[k].engine].owner
    BY <1>3, <1>6
  <2> QED
    BY <1>3, <2>1, <2>2 DEF Exists
<1> QED
  BY <1>1, <1>5, <1>8, <1>9, <1>10, <1>11 DEF IndInv

\* ct_destroy and ct_clear end no interpreter that runs.
LEMMA DestroyEnds ==
  ASSUME IndInv, NEW c \in Children, Destroy(c) \/ Clear(c)
  PROVE  \E gone : EndStep(gone, Top, Ticked(engine[Top]))
<1> DEFINE gone == IF Destroy(c) THEN Owned(c) ELSE Owned(c) \ {c}
           s == Ticked(engine[Top])
<1>1. PICK level \in Levels : Tree(level) /\ ChainDescends(level)
  BY DEF IndInv
<1>2. Calls /\ Owns(Top, c)
  BY DEF Destroy, Clear
<1>3. running # <<>> /\ Top \in Engines /\ Alike(engine[Top], s)
  BY <1>2, CallerSteps
<1>4. /\ Len(running) \in Nat \ {0} /\ Exists(Top) /\ Top = running[Len(running)].engine
      /\ running \in Seq(RunRecord)
  BY <1>3, TopExists DEF Top, IndInv, TypeOK
<1>5. /\ Owned(c) \subseteq Children
      /\ \A d \in Children : engine[d].owner \in Owned(c) => d \in Owned(c)
      /\ \A d \in Owned(c) : d = c \/ (Exists(d) /\ level[d] > level[c])
  BY <1>1, OwnedProperties
<1>6. Exists(c) /\ engine[c].owner = Top /\ level[c] = Len(running)
  <2>1. Exists(c) /\ engine[c].owner = Top
    BY <1>2, <1>3, MainAssumption DEF Owns, Exists
  <2>2. level[Top] = Len(running) - 1
    BY <1>1, <1>4 DEF ChainDescends
  <2> QED
    BY <1>1, <1>4, <2>1, <2>2 DEF Tree
<1>7. \A k \in 1 .. Len(running) : running[k].engine \notin Owned(c)
  <2> SUFFICES ASSUME NEW k \in 1 .. Len(running), running[k].engine \in Owned(c)
               PROVE  FALSE
    OBVIOUS
  <2>1. level[running[k].engine] = k - 1
    BY <1>1 DEF ChainDescends
  <2>2. level[running[k].engine] >= level[c] /\ level[c] \in Int
    BY <1>4, <1>5, <1>6, <2>1
  <2> QED
    BY <1>4, <1>6, <2>1, <2>2
<1>8. Top \notin Owned(c)
  BY <1>4, <1>7
<1>9. \A d \in Children : engine[d].owner \in gone => d \in gone
  BY <1>5, <1>6, <1>8
<1>10. /\ engine' = [e \in Engines |-> IF e \in gone THEN Fresh ELSE IF e = Top THEN s ELSE engine[e]]
       /\ running' = running
  <2>1. CASE Destroy(c)
    <3>1. engine' = [e \in Engines |-> IF e \in Owned(c) THEN Fresh ELSE IF e = Top THEN Ticked(engine[e]) ELSE engine[e]]
      BY <2>1 DEF Destroy
    <3> QED
      BY <2>1, <3>1 DEF Destroy
  <2>2. CASE ~Destroy(c)
    <3>1. engine' = [e \in Engines |-> IF e \in Owned(c) \ {c} THEN Fresh ELSE IF e = Top THEN Ticked(engine[e]) ELSE engine[e]]
      BY <2>2 DEF Clear
    <3> QED
      BY <2>2, <3>1 DEF Clear
  <2> QED
    BY <2>1, <2>2
<1>11. gone \subseteq Owned(c)
  OBVIOUS
<1> HIDE DEF gone, s
<1>12. EndStep(gone, Top, s)
  BY <1>3, <1>4, <1>5, <1>7, <1>8, <1>9, <1>10, <1>11 DEF EndStep
<1> QED
  BY <1>12 DEF s

\* The caller once interpret() has charged it.
Charged == [engine[Caller] EXCEPT !.steps = @ + Charge(Last(running))]

\* The caller is never charged less than nothing, since a child cannot have more steps left
\* than the budget it was given; and with the child ends nobody that still runs.
LEMMA InterpretReturnEnds ==
  ASSUME IndInv, InterpretReturn
  PROVE  /\ EndStep(Owned(Top), Caller, Charged)
         /\ Charged.depth = engine[Caller].depth /\ Charged.depthLimit = engine[Caller].depthLimit
         /\ Charged.nesting = engine[Caller].nesting /\ Charged.nestingLimit = engine[Caller].nestingLimit
<1> DEFINE n == Len(running)
<1>1. PICK level \in Levels : Tree(level) /\ ChainDescends(level)
  BY DEF IndInv
<1>2. running # <<>> /\ running[n].kind # "eval"
  BY DEF InterpretReturn, Ended, Last
<1>3. /\ n \in Nat \ {0} /\ Top \in Engines /\ Exists(Top) /\ running[n] \in RunRecord /\ Last(running) = running[n]
      /\ Top = running[n].engine /\ engine[Top] \in EngineRecord /\ running \in Seq(RunRecord)
      /\ engine \in [Engines -> EngineRecord]
  BY <1>2, TopExists DEF Top, IndInv, TypeOK
<1>4. n > 1 /\ engine[Top].stepLimit = running[n].budget
  BY <1>2, <1>3 DEF IndInv, BudgetsKept
<1>5. level[Top] = n - 1 /\ Top \in Children
  BY <1>1, <1>3, <1>4 DEF ChainDescends, Tree, Engines
<1>6. Caller \in Engines /\ engine[Caller] \in EngineRecord
  <2>1. running[n - 1] \in RunRecord
    BY <1>3, <1>4, ElementOfSeq
  <2> QED
    BY <1>3, <2>1 DEF Caller, RunRecord
<1>7. Charge(Last(running)) \in Nat
  BY <1>3, <1>4 DEF Charge, EngineRecord, Fields, RunRecord
<1>8. /\ Alike(engine[Caller], Charged)
      /\ Charged.depth = engine[Caller].depth /\ Charged.depthLimit = engine[Caller].depthLimit
      /\ Charged.nesting = engine[Caller].nesting /\ Charged.nestingLimit = engine[Caller].nestingLimit
  BY <1>6, <1>7 DEF Alike, EngineRecord, Fields, Charged
<1>9. /\ Owned(Top) \subseteq Children /\ Top \in Owned(Top)
      /\ \A d \in Children : engine[d].owner \in Owned(Top) => d \in Owned(Top)
      /\ \A d \in Owned(Top) : d = Top \/ (Exists(d) /\ level[d] > level[Top])
  BY <1>1, <1>5, OwnedProperties
<1>10. \A k \in 1 .. n - 1 : running[k].engine \notin Owned(Top)
  <2> SUFFICES ASSUME NEW k \in 1 .. n - 1, running[k].engine \in Owned(Top)
               PROVE  FALSE
    OBVIOUS
  <2>1. level[running[k].engine] = k - 1
    BY <1>1, <1>3 DEF ChainDescends
  <2> QED
    BY <1>3, <1>5, <1>9, <2>1
<1>11. Caller \notin Owned(Top)
  BY <1>3, <1>4, <1>10 DEF Caller
<1>12. engine' = [e \in Engines |-> IF e \in Owned(Top) THEN Fresh
                                   ELSE IF e = Caller THEN Charged ELSE engine[e]]
  BY DEF InterpretReturn, Charged
<1>13. /\ running' \in Seq(RunRecord) /\ Len(running') = n - 1
       /\ \A k \in 1 .. n - 1 : running'[k] = running[k]
  BY <1>2, <1>3, FrontProperties DEF InterpretReturn
<1>14. EndStep(Owned(Top), Caller, Charged)
  BY <1>3, <1>6, <1>8, <1>9, <1>10, <1>11, <1>12, <1>13 DEF EndStep
<1> QED
  BY <1>8, <1>14

\* The host starting a program when none runs keeps the invariant.
LEMMA HostRunIndInv ==
  ASSUME IndInv, HostRun
  PROVE  IndInv'
<1> DEFINE run == [engine |-> Main, kind |-> "eval", budget |-> 0]
<1>1. PICK level \in Levels : Tree(level) /\ ChainDescends(level)
  BY DEF IndInv
<1>2. TypeOK /\ WithinLimits /\ Main \in Engines /\ engine[Main].owner = Main /\ level[Main] = 0
  BY <1>1 DEF IndInv, Engines, Tree
<1>3. engine' = [engine EXCEPT ![Main] = Started(engine[Main])] /\ Alike(engine[Main], Started(engine[Main]))
  BY <1>2, OwnRecords DEF HostRun, TypeOK
<1>4. engine' \in [Engines -> EngineRecord]
  BY <1>2, <1>3 DEF Alike, TypeOK
<1>5. \A e \in Engines : /\ engine'[e].owner = engine[e].owner /\ engine'[e].nesting = engine[e].nesting
                         /\ engine'[e].stepLimit = engine[e].stepLimit /\ engine'[e].depthLimit = engine[e].depthLimit
                         /\ engine'[e].nestingLimit = engine[e].nestingLimit
  BY <1>2, <1>3 DEF Alike, TypeOK
<1>6. run \in RunRecord /\ running' = <<run>>
  BY <1>2 DEF RunRecord, HostRun
<1>7. TypeOK' /\ WithinLimits'
  BY <1>2, <1>4, <1>5, <1>6 DEF TypeOK, WithinLimits, Bounded, Exists
<1>8. BudgetsKept' /\ ChainDescends(level)'
  BY <1>2, <1>5, <1>6, MainAssumption DEF BudgetsKept, ChainDescends, Exists
<1>9. Tree(level)'
  <2>1. \A c \in Children : c \in Engines /\ engine[c].owner \in Engines \cup {NULL}
    BY <1>2 DEF TypeOK, EngineRecord, Fields, Engines
  <2> QED
    BY <1>1, <1>2, <1>5, <2>1 DEF Tree, Exists
<1> QED
  BY <1>1, <1>7, <1>8, <1>9 DEF IndInv

\* Every step keeps the invariant.
LEMMA NextIndInv == IndInv /\ [Next]_vars => IndInv'
<1> SUFFICES ASSUME IndInv, [Next]_vars
             PROVE  IndInv'
  OBVIOUS
<1>1. CASE UNCHANGED vars
  BY <1>1 DEF vars, IndInv, TypeOK, WithinLimits, Bounded, BudgetsKept, Tree, ChainDescends, Exists
<1>2. CASE HostRun
  BY <1>2, HostRunIndInv
<1>3. CASE OutOfSteps \/ Enter \/ Leave
  BY <1>3, OwnStepsIndInv
<1>4. CASE Return \/ InterpretMain
  BY <1>4, ReturnIndInv
<1>5. CASE InterpretReturn
  BY <1>5, InterpretReturnEnds, EndIndInv
<1>6. ASSUME NEW c \in Children, Create(c) \/ Interpret(c)
      PROVE  IndInv'
  BY <1>6, CreateIndInv
<1>7. ASSUME NEW c \in Children, Destroy(c) \/ Clear(c)
      PROVE  IndInv'
  BY <1>7, DestroyEnds, EndIndInv
<1>8. ASSUME NEW c \in Children, Run(c)
      PROVE  IndInv'
  BY <1>8, LimitsIndInv
<1>9. ASSUME NEW c \in Children, NEW steps \in StepArguments, NEW depth \in FrameArguments, SetLimits(c, steps, depth)
      PROVE  IndInv'
  BY <1>9, LimitsIndInv
<1>10. ASSUME NEW c \in Children, NEW level \in NestingArguments, NEW limit \in NestingArguments,
              SetNesting(c, level, limit)
       PROVE  IndInv'
  BY <1>10, LimitsIndInv
<1> QED
  BY <1>1, <1>2, <1>3, <1>4, <1>5, <1>6, <1>7, <1>8, <1>9, <1>10 DEF Next, Running

-----------------------------------------------------------------------------
(* What a chain of interpret() calls shares. *)

\* The interpreter of the k-th run.
Program(k) == engine[running[k].engine]

\* Program r as interpret() made it for its caller q.
FromCaller(r, q) ==
  /\ r.depthLimit = FramesLeft(q)
  /\ r.nesting = NextLevel(q) /\ r.nestingLimit = q.nestingLimit /\ r.nesting < r.nestingLimit

\* No running program is past its frame limit, and what interpret() gave a child is what its
\* caller has left for as long as the child runs.
HandedDown ==
  \A k \in 1 .. Len(running) :
    /\ Program(k).depth <= Program(k).depthLimit
    /\ running[k].kind # "eval" => k > 1 /\ FromCaller(Program(k), Program(k - 1))

\* Two states of an interpreter between which nothing was given to it.
SamePlace(r, s) == s.depthLimit = r.depthLimit /\ s.nesting = r.nesting /\ s.nestingLimit = r.nestingLimit

\* A step leaves the frames, the levels and the limits of the first m runs alone.
Quiet(m) ==
  \A k \in 1 .. m : /\ engine'[running[k].engine].depth = Program(k).depth
                    /\ SamePlace(Program(k), engine'[running[k].engine])

\* Only frames in use, levels and limits matter to what was handed down.
LEMMA StillFromCaller ==
  ASSUME NEW r, NEW q, NEW r1, NEW q1, FromCaller(r, q), SamePlace(r, r1), SamePlace(q, q1), q1.depth = q.depth
  PROVE  FromCaller(r1, q1)
BY DEF FromCaller, SamePlace, FramesLeft, NextLevel

\* The runs in progress are runs of different interpreters.
LEMMA RunsDiffer ==
  ASSUME IndInv
  PROVE  /\ engine \in [Engines -> EngineRecord] /\ running \in Seq(RunRecord) /\ Len(running) \in Nat
         /\ \A k \in 1 .. Len(running) : /\ running[k] \in RunRecord /\ running[k].engine \in Engines
                                         /\ Program(k) \in EngineRecord
         /\ \A k, l \in 1 .. Len(running) : running[k].engine = running[l].engine => k = l
<1>1. engine \in [Engines -> EngineRecord] /\ running \in Seq(RunRecord) /\ Len(running) \in Nat
  BY LenProperties DEF IndInv, TypeOK
<1>2. \A k \in 1 .. Len(running) : running[k] \in RunRecord
  BY <1>1, ElementOfSeq
<1>3. \A k \in 1 .. Len(running) : running[k].engine \in Engines
  BY <1>2 DEF RunRecord
<1>4. PICK level \in Levels : ChainDescends(level)
  BY DEF IndInv
<1>5. \A k, l \in 1 .. Len(running) : running[k].engine = running[l].engine => k = l
  BY <1>1, <1>4 DEF ChainDescends
<1> QED
  BY <1>1, <1>2, <1>3, <1>5 DEF Program

\* A step that ends runs or none, and moves only the last of those that stay, within its limit.
LEMMA SameRuns ==
  ASSUME IndInv, HandedDown, Len(running') \in Nat, Len(running') <= Len(running),
         \A k \in 1 .. Len(running') :
            /\ running'[k].kind # "eval" => running[k].kind # "eval"
            /\ SamePlace(Program(k), Program(k)')
            /\ Program(k)'.depth <= Program(k)'.depthLimit
            /\ k < Len(running') => Program(k)'.depth = Program(k).depth
  PROVE  HandedDown'
<1> SUFFICES ASSUME NEW k \in 1 .. Len(running')
             PROVE  /\ Program(k)'.depth <= Program(k)'.depthLimit
                    /\ running'[k].kind # "eval" => k > 1 /\ FromCaller(Program(k)', Program(k - 1)')
  BY DEF HandedDown, FromCaller, FramesLeft, NextLevel
<1>1. Len(running) \in Nat /\ k \in 1 .. Len(running)
  BY RunsDiffer
<1>2. ASSUME running'[k].kind # "eval"
      PROVE  k > 1 /\ FromCaller(Program(k)', Program(k - 1)')
  <2>1. k > 1 /\ FromCaller(Program(k), Program(k - 1))
    BY <1>1, <1>2 DEF HandedDown
  <2>2. k - 1 \in 1 .. Len(running') /\ k - 1 < Len(running')
    BY <2>1
  <2>3. /\ SamePlace(Program(k), Program(k)') /\ SamePlace(Program(k - 1), Program(k - 1)')
        /\ Program(k - 1)'.depth = Program(k - 1).depth
    BY <2>2
  <2> QED
    BY <2>1, <2>3, StillFromCaller
<1> QED
  BY <1>2

\* A step in which the programs that keep running keep their frames, levels and limits.
LEMMA QuietRuns ==
  ASSUME IndInv, HandedDown, Len(running') \in Nat, Len(running') <= Len(running),
         Quiet(Len(running')), \A k \in 1 .. Len(running') : running'[k] = running[k]
  PROVE  HandedDown'
<1>1. Len(running) \in Nat
  BY RunsDiffer
<1>2. \A k \in 1 .. Len(running') : /\ Program(k)'.depth = Program(k).depth
                                    /\ SamePlace(Program(k), Program(k)')
                                    /\ k \in 1 .. Len(running)
  BY <1>1 DEF Program, Quiet
<1>3. \A k \in 1 .. Len(running') : /\ Program(k).depth <= Program(k).depthLimit
                                    /\ Program(k)'.depthLimit = Program(k).depthLimit
  BY <1>2 DEF HandedDown, SamePlace
<1> QED
  BY <1>2, <1>3, SameRuns

\* A child that starts to run, from interpret() with what its caller has left.
LEMMA EnteredRuns ==
  ASSUME IndInv, HandedDown, NEW run \in RunRecord, running' = Append(running, run), Quiet(Len(running)),
         engine'[run.engine].depth <= engine'[run.engine].depthLimit,
         run.kind # "eval" => Len(running) > 0 /\ FromCaller(engine'[run.engine], Program(Len(running)))
  PROVE  HandedDown'
<1>1. PICK n \in Nat, m \in Nat : n = Len(running) /\ m = n + 1
  BY RunsDiffer
<1>2. /\ Len(running') = m /\ running'[m] = run
      /\ \A k \in 1 .. n : running'[k] = running[k]
  BY <1>1, RunsDiffer, AppendProperties
<1>3. /\ Program(m)' = engine'[run.engine]
      /\ \A k \in 1 .. n : /\ Program(k)'.depth = Program(k).depth
                           /\ SamePlace(Program(k), Program(k)')
  BY <1>1, <1>2 DEF Program, Quiet
<1> SUFFICES ASSUME NEW k \in 1 .. m
             PROVE  /\ Program(k)'.depth <= Program(k)'.depthLimit
                    /\ running'[k].kind # "eval" => k > 1 /\ FromCaller(Program(k)', Program(k - 1)')
  BY <1>2 DEF HandedDown, FromCaller, FramesLeft, NextLevel
<1>4. CASE k = m
  <2>1. Program(m)'.depth <= Program(m)'.depthLimit
    BY <1>3
  <2>2. ASSUME running'[k].kind # "eval"
        PROVE  k > 1 /\ FromCaller(Program(k)', Program(k - 1)')
    <3>1. n > 0 /\ FromCaller(Program(m)', Program(n))
      BY <1>1, <1>2, <1>3, <1>4, <2>2
    <3>2. k - 1 = n /\ n \in 1 .. n /\ k > 1
      BY <1>1, <1>4, <3>1
    <3>3. SamePlace(Program(m)', Program(m)')
      BY DEF SamePlace
    <3>4. FromCaller(Program(m)', Program(n)')
      BY <1>3, <3>1, <3>2, <3>3, StillFromCaller
    <3> QED
      BY <1>4, <3>2, <3>4
  <2> QED
    BY <1>4, <2>1, <2>2
<1>5. CASE k \in 1 .. n
  <2>1. Program(k)'.depth <= Program(k)'.depthLimit
    BY <1>1, <1>3, <1>5 DEF HandedDown, SamePlace
  <2>2. ASSUME running'[k].kind # "eval"
        PROVE  k > 1 /\ FromCaller(Program(k)', Program(k - 1)')
    <3>1. k > 1 /\ FromCaller(Program(k), Program(k - 1))
      BY <1>1, <1>2, <1>5, <2>2 DEF HandedDown
    <3>2. k - 1 \in 1 .. n
      BY <1>1, <1>5, <3>1
    <3> QED
      BY <1>3, <1>5, <3>1, <3>2, StillFromCaller
  <2> QED
    BY <2>1, <2>2
<1> QED
  BY <1>1, <1>4, <1>5

\* A step of the program on top that moves it within its frame limit.
LEMMA TopRuns ==
  ASSUME IndInv, HandedDown, running # <<>>, NEW s, engine' = [engine EXCEPT ![Top] = s],
         SamePlace(engine[Top], s), s.depth <= s.depthLimit,
         Len(running') = Len(running),
         \A k \in 1 .. Len(running) : /\ running'[k].engine = running[k].engine
                                      /\ running'[k].kind # "eval" => running[k].kind # "eval"
  PROVE  HandedDown'
<1>1. PICK n \in Nat : n = Len(running) /\ n > 0 /\ Top = running[n].engine /\ Top \in Engines
  BY TopExists DEF Top
<1>2. /\ engine \in [Engines -> EngineRecord]
      /\ \A k \in 1 .. n : running[k].engine \in Engines /\ (running[k].engine = Top => k = n)
  BY <1>1, RunsDiffer
<1>3. \A k \in 1 .. n : Program(k)' = IF k = n THEN s ELSE Program(k)
  BY <1>1, <1>2 DEF Program
<1>4. Program(n) = engine[Top]
  BY <1>1 DEF Program
<1>5. \A k \in 1 .. n : Program(k).depth <= Program(k).depthLimit
  BY <1>1 DEF HandedDown
<1>6. \A k \in 1 .. n : /\ SamePlace(Program(k), Program(k)')
                        /\ Program(k)'.depth <= Program(k)'.depthLimit
                        /\ k < n => Program(k)'.depth = Program(k).depth
  <2>1. \A r : SamePlace(r, r)
    BY DEF SamePlace
  <2> QED
    BY <1>3, <1>4, <1>5, <2>1
<1> QED
  BY <1>1, <1>6, SameRuns

\* Ticks, frames entered and left, and interpret() going on to main.
LEMMA OwnStepsRuns ==
  ASSUME IndInv, HandedDown, OutOfSteps \/ Enter \/ Leave \/ InterpretMain
  PROVE  HandedDown'
<1>1. running # <<>>
  BY DEF OutOfSteps, Enter, Leave, CanTick, InterpretMain, Ended
<1>2. PICK r \in EngineRecord : r = engine[Top]
  BY <1>1, TopExists
<1>3. Len(running) \in Nat \ {0} /\ engine \in [Engines -> EngineRecord] /\ Top \in Engines
      /\ Program(Len(running)) = r /\ running \in Seq(RunRecord)
  BY <1>1, <1>2, TopExists, RunsDiffer DEF Top, Program
<1>4. r.depth \in Nat /\ r.depthLimit \in Nat /\ r.depth <= r.depthLimit
  BY <1>2, <1>3 DEF HandedDown, EngineRecord, Fields
<1>5. \E s : /\ engine' = [engine EXCEPT ![Top] = s]
             /\ SamePlace(r, s) /\ s.depth <= s.depthLimit
  <2>1. CASE OutOfSteps
    <3> DEFINE s == [Ticked(r) EXCEPT !.failed = TRUE]
    <3>1. engine' = [engine EXCEPT ![Top] = s]
      BY <1>2, <1>3, <2>1 DEF OutOfSteps
    <3>2. SamePlace(r, s) /\ s.depth <= s.depthLimit
      BY <1>4 DEF Ticked, EngineRecord, Fields, SamePlace
    <3> HIDE DEF s
    <3> QED
      BY <3>1, <3>2
  <2>2. CASE Enter
    <3>1. engine' = [engine EXCEPT ![Top] = Deeper(r)]
      BY <1>2, <1>3, <2>2 DEF Enter
    <3>2. SamePlace(r, Deeper(r)) /\ Deeper(r).depth <= Deeper(r).depthLimit
      BY <1>4 DEF Deeper, Ticked, EngineRecord, Fields, SamePlace
    <3> QED
      BY <3>1, <3>2
  <2>3. CASE Leave
    <3> DEFINE s == [r EXCEPT !.depth = @ - 1]
    <3>1. engine' = [engine EXCEPT ![Top] = s]
      BY <1>2, <1>3, <2>3 DEF Leave
    <3>2. SamePlace(r, s) /\ s.depth <= s.depthLimit
      BY <1>4 DEF EngineRecord, Fields, SamePlace
    <3> HIDE DEF s
    <3> QED
      BY <3>1, <3>2
  <2>4. CASE InterpretMain
    <3>1. engine' = [engine EXCEPT ![Top] = Started(r)]
      BY <1>2, <1>3, <2>4 DEF InterpretMain
    <3>2. SamePlace(r, Started(r)) /\ Started(r).depth <= Started(r).depthLimit
      BY <1>4 DEF EngineRecord, Fields, Started, SamePlace
    <3> QED
      BY <3>1, <3>2
  <2> QED
    BY <2>1, <2>2, <2>3, <2>4
<1>6. /\ Len(running') = Len(running)
      /\ \A k \in 1 .. Len(running) : /\ running'[k].engine = running[k].engine
                                      /\ running'[k].kind # "eval" => running[k].kind # "eval"
  <2>1. CASE OutOfSteps \/ Enter \/ Leave
    BY <2>1 DEF OutOfSteps, Enter, Leave
  <2>2. CASE InterpretMain
    <3> DEFINE last == [running[Len(running)] EXCEPT !.kind = "interpretMain"]
    <3>1. running[Len(running)] \in RunRecord /\ running[Len(running)].kind # "eval"
      BY <1>1, <2>2, TopExists DEF InterpretMain, Last
    <3>2. running' = [running EXCEPT ![Len(running)] = last]
      BY <1>3, <2>2 DEF InterpretMain
    <3>3. last \in RunRecord /\ last.engine = running[Len(running)].engine
      BY <3>1 DEF RunRecord
    <3> HIDE DEF last
    <3>4. /\ Len(running') = Len(running)
          /\ \A k \in 1 .. Len(running) : running'[k] = IF k = Len(running) THEN last ELSE running[k]
      BY <1>3, <3>2, <3>3, ExceptSeq
    <3> QED
      BY <3>1, <3>3, <3>4
  <2> QED
    BY <2>1, <2>2
<1> QED
  BY <1>1, <1>2, <1>5, <1>6, TopRuns

\* The end of a run of ct_eval or ct_run_main.
LEMMA ReturnRuns ==
  ASSUME IndInv, HandedDown, Return
  PROVE  HandedDown'
<1>1. running # <<>>
  BY DEF Return, Ended
<1>2. PICK n \in Nat : n = Len(running) /\ n > 0 /\ Top = running[n].engine /\ Top \in Engines
  BY <1>1, TopExists DEF Top
<1>3. /\ engine \in [Engines -> EngineRecord] /\ running \in Seq(RunRecord)
      /\ \A k \in 1 .. n : running[k].engine \in Engines /\ (running[k].engine = Top => k = n)
  BY <1>2, RunsDiffer
<1>4. Len(running') = n - 1 /\ \A k \in 1 .. n - 1 : running'[k] = running[k]
  BY <1>1, <1>2, <1>3, FrontProperties DEF Return
<1>5. \A k \in 1 .. n - 1 : engine'[running[k].engine] = engine[running[k].engine]
  BY <1>2, <1>3 DEF Return
<1> QED
  BY <1>2, <1>4, <1>5, QuietRuns DEF Program, Quiet, SamePlace

\* Interpreters that end are none of those that still run.
LEMMA EndRuns ==
  ASSUME IndInv, HandedDown, NEW gone, NEW x, NEW s, EndStep(gone, x, s),
         s.depth = engine[x].depth, SamePlace(engine[x], s)
  PROVE  HandedDown'
<1>1. /\ Len(running') \in Nat /\ Len(running') <= Len(running) /\ Len(running) \in Nat
      /\ \A k \in 1 .. Len(running') : running'[k] = running[k] /\ running[k].engine \notin gone
  BY RunsDiffer, LenProperties DEF EndStep
<1>2. ASSUME NEW k \in 1 .. Len(running')
      PROVE  /\ engine'[running[k].engine].depth = engine[running[k].engine].depth
             /\ SamePlace(engine[running[k].engine], engine'[running[k].engine])
  <2>1. running[k].engine \in Engines \ gone
    BY <1>1, RunsDiffer
  <2>2. engine'[running[k].engine] = IF running[k].engine = x THEN s ELSE engine[running[k].engine]
    BY <2>1 DEF EndStep
  <2> QED
    BY <2>2 DEF SamePlace
<1> QED
  BY <1>1, <1>2, QuietRuns DEF Program, Quiet

\* A step of the program on top at one of its children leaves the frames of those that run.
LEMMA ChildQuiet ==
  ASSUME IndInv, running # <<>>, NEW c \in Children, Owns(Top, c) \/ ~Exists(c), NEW s, NEW t,
         s.depth = engine[Top].depth, SamePlace(engine[Top], s),
         engine' = [engine EXCEPT ![Top] = s, ![c] = t]
  PROVE  engine'[c] = t /\ Quiet(Len(running))
<1>1. c # Top /\ c \in Engines /\ Top \in Engines /\ \A k \in 1 .. Len(running) : running[k].engine # c
  BY ChildIdle, TopExists
<1>2. engine \in [Engines -> EngineRecord] /\ \A k \in 1 .. Len(running) : running[k].engine \in Engines
  BY RunsDiffer
<1>3. \A e \in Engines : e # c => engine'[e].depth = engine[e].depth /\ SamePlace(engine[e], engine'[e])
  BY <1>1, <1>2 DEF SamePlace
<1> QED
  BY <1>1, <1>2, <1>3 DEF Program, Quiet

\* Children created, limited or run, with ct_ calls or by interpret().
LEMMA ChildRuns ==
  ASSUME IndInv, HandedDown, NEW c \in Children,
         \/ Create(c) \/ Interpret(c) \/ Run(c)
         \/ \E steps \in StepArguments, depth \in FrameArguments : SetLimits(c, steps, depth)
         \/ \E level, limit \in NestingArguments : SetNesting(c, level, limit)
  PROVE  HandedDown'
<1> DEFINE r == Ticked(engine[Top])
           n == Len(running)
<1>1. Calls /\ (Owns(Top, c) \/ ~Exists(c))
  BY DEF Create, Interpret, Run, SetLimits, SetNesting
<1>2. /\ running # <<>> /\ Top \in Engines /\ engine[Top] \in EngineRecord /\ r \in EngineRecord
      /\ engine \in [Engines -> EngineRecord] /\ n \in Nat \ {0} /\ Top = running[n].engine
      /\ FramesLeft(r) \in 1 .. FrameCeiling
  BY <1>1, CallerSteps, TopExists DEF Top
<1>3. /\ r.depth = engine[Top].depth /\ r.depthLimit = engine[Top].depthLimit
      /\ SamePlace(engine[Top], r) /\ engine[Top] = Program(n)
  BY <1>2 DEF Ticked, EngineRecord, Fields, Program, SamePlace
<1>4. \A t : FromCaller(t, r) => FromCaller(t, Program(n))
  BY <1>3 DEF FromCaller, FramesLeft, NextLevel, SamePlace
<1>5. c # Top /\ c \in Engines /\ engine[c] \in EngineRecord
  BY <1>1, <1>2, ChildIdle
<1> HIDE DEF r
<1>6. ASSUME NEW t, engine' = [engine EXCEPT ![Top] = r, ![c] = t], running' = running
      PROVE  HandedDown'
  <2>1. Quiet(n)
    BY <1>1, <1>2, <1>3, <1>6, ChildQuiet
  <2> QED
    BY <1>2, <1>6, <2>1, QuietRuns
<1>7. ASSUME NEW t, engine' = [engine EXCEPT ![Top] = r, ![c] = t],
             NEW run \in RunRecord, running' = Append(running, run), run.engine = c,
             t.depth <= t.depthLimit, run.kind # "eval" => FromCaller(t, r)
      PROVE  HandedDown'
  <2>1. engine'[c] = t /\ Quiet(n)
    BY <1>1, <1>2, <1>3, <1>7, ChildQuiet
  <2>2. engine'[run.engine].depth <= engine'[run.engine].depthLimit
    BY <1>7, <2>1
  <2>3. run.kind # "eval" => Len(running) > 0 /\ FromCaller(engine'[run.engine], Program(Len(running)))
    BY <1>2, <1>4, <1>7, <2>1
  <2> QED
    BY <1>7, <2>1, <2>2, <2>3, EnteredRuns
<1>8. ASSUME engine' = [engine EXCEPT ![Top] = [r EXCEPT !.failed = TRUE]], running' = running
      PROVE  HandedDown'
  <2> DEFINE s == [r EXCEPT !.failed = TRUE]
  <2>1. s.depth = r.depth /\ SamePlace(r, s)
    BY <1>2 DEF EngineRecord, Fields, SamePlace
  <2> HIDE DEF s
  <2>2. engine' = [engine EXCEPT ![Top] = s]
    BY <1>8 DEF s
  <2>3. Program(n).depth <= Program(n).depthLimit
    BY <1>2 DEF HandedDown
  <2>4. SamePlace(engine[Top], s) /\ s.depth <= s.depthLimit
    BY <1>3, <2>1, <2>3 DEF SamePlace
  <2>5. /\ Len(running') = Len(running)
        /\ \A k \in 1 .. Len(running) : /\ running'[k].engine = running[k].engine
                                        /\ running'[k].kind # "eval" => running[k].kind # "eval"
    BY <1>8
  <2> QED
    BY <1>2, <2>2, <2>4, <2>5, TopRuns
<1>9. CASE Create(c)
  <2> DEFINE t == Child(Top, r)
  <2>1. running' = running
        /\ \/ engine' = [engine EXCEPT ![Top] = [r EXCEPT !.failed = TRUE]]
           \/ engine' = [engine EXCEPT ![Top] = r, ![c] = t]
    BY <1>9 DEF Create, r
  <2> HIDE DEF t
  <2> QED
    BY <1>6, <1>8, <2>1
<1>10. CASE Interpret(c)
  <2> DEFINE run == [engine |-> c, kind |-> "interpret", budget |-> StepsLeft(r)]
             t   == Child(Top, r)
  <2>1. \/ running' = running /\ engine' = [engine EXCEPT ![Top] = [r EXCEPT !.failed = TRUE]]
        \/ /\ running' = Append(running, run) /\ engine' = [engine EXCEPT ![Top] = r, ![c] = t]
           /\ ~(NextLevel(r) >= r.nestingLimit)
    BY <1>10 DEF Interpret, r
  <2>2. StepsLeft(r) \in Nat
    BY <1>1, CallerSteps, LimitAssumption DEF r
  <2>3. run \in RunRecord /\ run.engine = c
    BY <1>5, <2>2 DEF RunRecord
  <2>4. /\ t.depth = 0 /\ t.depthLimit = FramesLeft(r)
        /\ t.nesting = NextLevel(r) /\ t.nestingLimit = r.nestingLimit
    BY DEF Child
  <2>5. t.depth <= t.depthLimit
    BY <1>2, <2>4
  <2>6. ~(NextLevel(r) >= r.nestingLimit) => FromCaller(t, r)
    <3>1. NextLevel(r) \in Nat /\ r.nestingLimit \in Nat
      BY <1>2, NextLevelIs DEF EngineRecord, Fields
    <3> QED
      BY <2>4, <3>1 DEF FromCaller
  <2> HIDE DEF run, t
  <2> QED
    BY <1>7, <1>8, <2>1, <2>3, <2>5, <2>6
<1>11. CASE Run(c)
  <2> DEFINE run == [engine |-> c, kind |-> "eval", budget |-> 0]
             t   == Started(engine[c])
  <2>1. running' = Append(running, run) /\ engine' = [engine EXCEPT ![Top] = r, ![c] = t]
    BY <1>2, <1>5, <1>11 DEF Run, r
  <2>2. run \in RunRecord /\ run.engine = c /\ run.kind = "eval"
    BY <1>5 DEF RunRecord
  <2>3. t.depth <= t.depthLimit
    <3>1. t.depth = 0 /\ t.depthLimit \in Nat
      BY <1>5 DEF Started, EngineRecord, Fields
    <3> QED
      BY <3>1
  <2> HIDE DEF run, t
  <2> QED
    BY <1>7, <2>1, <2>2, <2>3
<1>12. ASSUME NEW steps \in StepArguments, NEW depth \in FrameArguments, SetLimits(c, steps, depth)
       PROVE  HandedDown'
  <2> DEFINE t == [engine[c] EXCEPT !.stepLimit = StepBudget(steps, r), !.depthLimit = FrameBudget(depth, r)]
  <2>1. running' = running /\ engine' = [engine EXCEPT ![Top] = r, ![c] = t]
    BY <1>2, <1>5, <1>12 DEF SetLimits, r
  <2> HIDE DEF t
  <2> QED
    BY <1>6, <2>1
<1>13. ASSUME NEW level \in NestingArguments, NEW limit \in NestingArguments, SetNesting(c, level, limit)
       PROVE  HandedDown'
  <2> DEFINE t == [engine[c] EXCEPT !.nesting = Level(level, engine[Top]), !.nestingLimit = LevelLimit(limit, engine[Top])]
  <2>1. running' = running /\ engine' = [engine EXCEPT ![Top] = r, ![c] = t]
    BY <1>2, <1>5, <1>13 DEF SetNesting, r
  <2> HIDE DEF t
  <2> QED
    BY <1>6, <2>1
<1> QED
  BY <1>9, <1>10, <1>11, <1>12, <1>13

\* Every step keeps what was handed down.
LEMMA NextHandedDown == IndInv /\ HandedDown /\ [Next]_vars => HandedDown'
<1> SUFFICES ASSUME IndInv, HandedDown, [Next]_vars
             PROVE  HandedDown'
  OBVIOUS
<1>1. CASE UNCHANGED vars
  BY <1>1 DEF vars, HandedDown, FromCaller, FramesLeft, NextLevel, Program
<1>2. CASE HostRun
  <2>1. Main \in Engines /\ engine \in [Engines -> EngineRecord] /\ engine[Main] \in EngineRecord
    BY RunsDiffer DEF Engines
  <2>2. engine'[Main] = Started(engine[Main]) /\ Len(running') = 1
        /\ running'[1].engine = Main /\ running'[1].kind = "eval"
    BY <1>2, <2>1 DEF HostRun
  <2>3. Started(engine[Main]).depth = 0 /\ Started(engine[Main]).depthLimit \in Nat
    BY <2>1 DEF Started, EngineRecord, Fields
  <2>4. Program(1)'.depth <= Program(1)'.depthLimit
    BY <2>2, <2>3 DEF Program
  <2> QED
    BY <2>2, <2>4 DEF HandedDown
<1>3. CASE OutOfSteps \/ Enter \/ Leave \/ InterpretMain
  BY <1>3, OwnStepsRuns
<1>4. CASE Return
  BY <1>4, ReturnRuns
<1>5. CASE InterpretReturn
  <2>1. /\ EndStep(Owned(Top), Caller, Charged)
        /\ Charged.depth = engine[Caller].depth /\ SamePlace(engine[Caller], Charged)
    BY <1>5, InterpretReturnEnds DEF SamePlace
  <2> QED
    BY <2>1, EndRuns
<1>6. ASSUME NEW c \in Children, Destroy(c) \/ Clear(c)
      PROVE  HandedDown'
  <2>1. PICK gone : EndStep(gone, Top, Ticked(engine[Top]))
    BY <1>6, DestroyEnds
  <2>2. engine[Top] \in EngineRecord
    BY <1>6, CallerSteps DEF Destroy, Clear
  <2>3. Ticked(engine[Top]).depth = engine[Top].depth /\ SamePlace(engine[Top], Ticked(engine[Top]))
    BY <2>2 DEF Ticked, EngineRecord, Fields, SamePlace
  <2> QED
    BY <2>1, <2>3, EndRuns
<1>7. ASSUME NEW c \in Children,
             \/ Create(c) \/ Interpret(c) \/ Run(c)
             \/ \E steps \in StepArguments, depth \in FrameArguments : SetLimits(c, steps, depth)
             \/ \E level, limit \in NestingArguments : SetNesting(c, level, limit)
      PROVE  HandedDown'
  BY <1>7, ChildRuns
<1> QED
  BY <1>1, <1>2, <1>3, <1>4, <1>5, <1>6, <1>7 DEF Next, Running

\* A chain of interpret() calls that has reached the run n: the frames in use before it and
\* those it may use make up what the first program may use and one for each with none left.
Accounted(i, n) ==
  /\ IsFiniteSet(FramesInUse(i, n - 1)) /\ IsFiniteSet(Spent(i, n - 1))
  /\ Cardinality(FramesInUse(i, n - 1)) + Program(n).depthLimit
       = Program(i).depthLimit + Cardinality(Spent(i, n - 1))

\* One more run adds its frames, and itself if it has none left.
LEMMA OneMoreRun ==
  ASSUME IndInv, HandedDown, NEW i \in Nat, NEW n \in 1 .. Len(running), i <= n,
         IsFiniteSet(FramesInUse(i, n - 1)), IsFiniteSet(Spent(i, n - 1))
  PROVE  /\ IsFiniteSet(FramesInUse(i, n)) /\ IsFiniteSet(Spent(i, n))
         /\ Cardinality(FramesInUse(i, n)) = Cardinality(FramesInUse(i, n - 1)) + Program(n).depth
         /\ Cardinality(Spent(i, n)) = Cardinality(Spent(i, n - 1))
                                        + (IF Program(n).depth = Program(n).depthLimit THEN 1 ELSE 0)
<1> DEFINE before == FramesInUse(i, n - 1)
           own    == {n} \X (1 .. Program(n).depth)
<1>1. n \in Nat /\ Program(n).depth \in Nat
  BY RunsDiffer DEF EngineRecord, Fields
<1>2. i .. n = (i .. n - 1) \cup {n} /\ n \notin i .. n - 1
  BY <1>1
<1>3. FramesInUse(i, n) = before \cup own
  BY <1>2 DEF FramesInUse, Program
<1>4. before \cap own = {}
  BY <1>2 DEF FramesInUse
<1>5. IsFiniteSet(own) /\ Cardinality(own) = Program(n).depth
  <2>1. IsFiniteSet({n}) /\ Cardinality({n}) = 1
    BY FS_Singleton
  <2>2. PICK d \in Nat : d = Program(n).depth
    BY <1>1
  <2>3. IsFiniteSet(1 .. d) /\ Cardinality(1 .. d) = IF 1 > d THEN 0 ELSE d - 1 + 1
    <3>1. 1 \in Int /\ d \in Int
      OBVIOUS
    <3> QED
      BY <3>1, FS_Interval, Zenon
  <2>4. IsFiniteSet({n} \X (1 .. d)) /\ Cardinality({n} \X (1 .. d)) = Cardinality({n}) * Cardinality(1 .. d)
    BY <2>1, <2>3, FS_Product
  <2>5. Cardinality({n} \X (1 .. d)) = d
    BY <2>1, <2>3, <2>4
  <2> QED
    BY <2>2, <2>4, <2>5
<1> HIDE DEF before, own
<1>6. /\ IsFiniteSet(FramesInUse(i, n))
      /\ Cardinality(FramesInUse(i, n)) = Cardinality(before) + Program(n).depth
  <2>1. IsFiniteSet(before)
    BY DEF before
  <2>2. /\ IsFiniteSet(before \cup own)
        /\ Cardinality(before \cup own) = Cardinality(before) + Cardinality(own) - Cardinality(before \cap own)
    BY <1>5, <2>1, FS_Union
  <2>3. Cardinality(before) \in Nat /\ Cardinality(before \cap own) = 0
    BY <1>4, <2>1, FS_CardinalityType, FS_EmptySet
  <2> QED
    BY <1>1, <1>3, <1>5, <2>2, <2>3
<1>7. /\ IsFiniteSet(Spent(i, n))
      /\ Cardinality(Spent(i, n)) = Cardinality(Spent(i, n - 1))
                                     + (IF Program(n).depth = Program(n).depthLimit THEN 1 ELSE 0)
  <2>1. n \notin Spent(i, n - 1) /\ Cardinality(Spent(i, n - 1)) \in Nat
    BY <1>2, FS_CardinalityType DEF Spent
  <2>2. CASE Program(n).depth = Program(n).depthLimit
    <3>1. Spent(i, n) = Spent(i, n - 1) \cup {n}
      BY <1>2, <2>2 DEF Spent, Program
    <3> QED
      BY <2>1, <2>2, <3>1, FS_AddElement
  <2>3. CASE Program(n).depth # Program(n).depthLimit
    <3>1. Spent(i, n) = Spent(i, n - 1)
      BY <1>2, <2>3 DEF Spent, Program
    <3> QED
      BY <2>1, <2>3, <3>1
  <2> QED
    BY <2>2, <2>3
<1> QED
  BY <1>6, <1>7 DEF before

\* Along a chain of interpret() calls every run is accounted for: a first one that is not would
\* come after one that is.
LEMMA ChainAccounted ==
  ASSUME IndInv, HandedDown, NEW i \in 1 .. Len(running), NEW j \in 1 .. Len(running), i <= j,
         \A k \in i + 1 .. j : running[k].kind # "eval"
  PROVE  Accounted(i, j)
<1> DEFINE missed == {k \in i .. j : ~Accounted(i, k)}
<1>1. Len(running) \in Nat /\ i \in Nat /\ j \in Nat /\ missed \in SUBSET Nat
  BY RunsDiffer
<1>2. \A k \in 1 .. Len(running) : /\ Program(k).depth \in Nat /\ Program(k).depthLimit \in Nat
                                   /\ Program(k).depth <= Program(k).depthLimit
  BY RunsDiffer DEF EngineRecord, Fields, HandedDown
<1>3. Accounted(i, i)
  <2>1. i .. i - 1 = {}
    BY <1>1
  <2>2. FramesInUse(i, i - 1) = {} /\ Spent(i, i - 1) = {}
    BY <2>1 DEF FramesInUse, Spent
  <2>3. IsFiniteSet({}) /\ Cardinality({}) = 0
    BY FS_EmptySet
  <2>4. 0 + Program(i).depthLimit = Program(i).depthLimit + 0
    BY <1>2
  <2> QED
    BY <2>2, <2>3, <2>4 DEF Accounted
<1>4. ASSUME NEW n \in i .. j - 1, Accounted(i, n)
      PROVE  Accounted(i, n + 1)
  <2>1. PICK m \in Nat : m = n + 1
    BY <1>1
  <2>2. n \in 1 .. Len(running) /\ m \in 1 .. Len(running) /\ m \in i + 1 .. j /\ i <= n /\ m - 1 = n
    BY <1>1, <2>1
  <2>3. Program(m).depthLimit = FramesLeft(Program(n))
    BY <2>2 DEF HandedDown, FromCaller
  <2>4. /\ IsFiniteSet(FramesInUse(i, n)) /\ IsFiniteSet(Spent(i, n))
        /\ Cardinality(FramesInUse(i, n)) = Cardinality(FramesInUse(i, n - 1)) + Program(n).depth
        /\ Cardinality(Spent(i, n)) = Cardinality(Spent(i, n - 1))
                                       + (IF Program(n).depth = Program(n).depthLimit THEN 1 ELSE 0)
    BY <1>1, <1>4, <2>2, OneMoreRun DEF Accounted
  <2>5. Cardinality(FramesInUse(i, n - 1)) \in Nat /\ Cardinality(Spent(i, n - 1)) \in Nat
    BY <1>4, FS_CardinalityType DEF Accounted
  <2>6. Cardinality(FramesInUse(i, n)) + Program(m).depthLimit = Program(i).depthLimit + Cardinality(Spent(i, n))
    <3>1. Cardinality(FramesInUse(i, n - 1)) + Program(n).depthLimit
            = Program(i).depthLimit + Cardinality(Spent(i, n - 1))
      BY <1>4 DEF Accounted
    <3>2. Program(m).depthLimit = IF Program(n).depthLimit > Program(n).depth
                                  THEN Program(n).depthLimit - Program(n).depth ELSE 1
      BY <2>3 DEF FramesLeft
    <3>3. /\ Program(n).depth \in Nat /\ Program(n).depthLimit \in Nat /\ Program(n).depth <= Program(n).depthLimit
          /\ Program(i).depthLimit \in Nat
      BY <1>2, <2>2
    <3> QED
      BY <2>4, <2>5, <3>1, <3>2, <3>3
  <2>7. Accounted(i, m)
    BY <2>2, <2>4, <2>6 DEF Accounted
  <2> QED
    BY <2>1, <2>7
<1>5. missed = {}
  <2> SUFFICES ASSUME missed # {} PROVE FALSE
    OBVIOUS
  <2>1. PICK m \in missed : \A k \in missed : m <= k
    BY <1>1, LeastNatural
  <2>2. m \in i .. j /\ ~Accounted(i, m) /\ m # i
    BY <1>3, <2>1
  <2>3. m - 1 \in i .. j - 1 /\ m - 1 + 1 = m
    BY <1>1, <2>2
  <2>4. Accounted(i, m - 1)
    BY <1>1, <2>1, <2>3
  <2> QED
    BY <1>4, <2>2, <2>3, <2>4
<1> QED
  BY <1>1, <1>5

\* The levels along a chain of interpret() calls rise one by one to below the limit of the first
\* program: a first one that does not would come after one that does.
LEMMA ChainRises ==
  ASSUME IndInv, HandedDown, NEW i \in 1 .. Len(running), NEW j \in 1 .. Len(running), i <= j,
         \A k \in i + 1 .. j : running[k].kind # "eval"
  PROVE  j - i <= LevelsLeft(Program(i))
<1> DEFINE limit   == Program(i).nestingLimit
           left    == LevelsLeft(Program(i))
           Risen(k) == Program(k).nestingLimit = limit /\ Program(k).nesting >= limit - left - 1 + (k - i)
           missed  == {k \in i .. j : ~Risen(k)}
<1>1. Len(running) \in Nat /\ i \in Nat /\ j \in Nat /\ missed \in SUBSET Nat
  BY RunsDiffer
<1>2. \A k \in 1 .. Len(running) : /\ Program(k) \in EngineRecord /\ Program(k).nesting \in Nat
                                   /\ Program(k).nestingLimit \in Nat
  BY RunsDiffer DEF EngineRecord, Fields
<1>3. limit \in 1 .. Word - 1 /\ Word \in Nat
  <2>1. running[i].engine \in Engines /\ Exists(running[i].engine)
    <3>1. PICK level \in Levels : ChainDescends(level)
      BY DEF IndInv
    <3> QED
      BY <3>1, RunsDiffer DEF ChainDescends
  <2>2. limit \in 1 .. NestingCeiling
    BY <2>1 DEF IndInv, WithinLimits, Bounded, Program
  <2> QED
    BY <2>2, LimitAssumption, Ceilings
<1>4. left \in Nat /\ left = IF Program(i).nesting < limit THEN limit - Program(i).nesting - 1 ELSE limit
  <2>1. left = IF Program(i).nesting < limit THEN limit - Program(i).nesting - 1 ELSE limit
    BY DEF LevelsLeft
  <2> QED
    BY <1>2, <1>3, <2>1
<1>5. \A k \in i + 1 .. j : /\ k - 1 \in 1 .. Len(running) /\ k \in 1 .. Len(running)
                           /\ FromCaller(Program(k), Program(k - 1))
  BY <1>1 DEF HandedDown
<1> HIDE DEF limit, left
<1>6. Risen(i)
  BY <1>1, <1>2, <1>3, <1>4 DEF limit
<1>7. ASSUME NEW k \in i + 1 .. j, Risen(k - 1)
      PROVE  Risen(k)
  <2>1. PICK l \in 1 .. Len(running) : l = k - 1 /\ k \in 1 .. Len(running) /\ l \in i .. j
    BY <1>1, <1>5
  <2>2. /\ Program(k).nesting = NextLevel(Program(l)) /\ Program(k).nestingLimit = limit
        /\ Program(l).nesting \in Nat /\ Program(k).nesting \in Nat
        /\ Program(l).nesting >= limit - left - 1 + (l - i)
    BY <1>2, <1>5, <1>7, <2>1 DEF FromCaller
  <2>3. Program(l).nesting + 1 < Word => Program(k).nesting = Program(l).nesting + 1
    BY <1>2, <2>1, <2>2, NextLevelIs
  <2>4. CASE Program(l).nesting < limit
    <3>1. Program(k).nesting = Program(l).nesting + 1
      BY <1>3, <2>2, <2>3, <2>4
    <3>2. i \in Nat /\ l \in Nat /\ limit \in Nat /\ left \in Nat /\ k = l + 1
      BY <1>1, <1>3, <1>4, <2>1
    <3>3. Program(k).nesting >= limit - left - 1 + (k - i)
      BY <2>2, <3>1, <3>2
    <3> QED
      BY <2>2, <3>3
  <2>5. CASE ~(Program(l).nesting < limit)
    <3>1. l = i
      <4>1. l \in i + 1 .. j => Program(l).nesting < Program(l).nestingLimit /\ Program(l).nestingLimit = limit
        BY <1>5, <1>7, <2>1 DEF FromCaller
      <4> QED
        BY <1>1, <2>1, <2>5, <4>1
    <3>2. left = limit
      BY <1>4, <2>5, <3>1
    <3> QED
      BY <1>1, <1>3, <2>1, <2>2, <3>1, <3>2
  <2> QED
    BY <2>4, <2>5
<1>8. missed = {}
  <2> SUFFICES ASSUME missed # {} PROVE FALSE
    OBVIOUS
  <2>1. PICK m \in missed : \A k \in missed : m <= k
    BY <1>1, LeastNatural
  <2>2. m \in i .. j /\ ~Risen(m) /\ m # i
    BY <1>6, <2>1
  <2>3. m \in i + 1 .. j /\ m - 1 \in i .. j
    BY <1>1, <2>2
  <2>4. Risen(m - 1)
    BY <1>1, <2>1, <2>3
  <2> QED
    BY <1>7, <2>2, <2>3, <2>4
<1>9. Risen(j)
  BY <1>1, <1>8
<1> HIDE DEF Risen
<1>10. CASE j = i
  BY <1>1, <1>4, <1>10 DEF left
<1>11. CASE j # i
  <2>1. j \in i + 1 .. j
    BY <1>1, <1>11
  <2>2. Program(j).nesting < Program(j).nestingLimit
    BY <1>5, <2>1 DEF FromCaller
  <2>3. Program(j).nestingLimit = limit /\ Program(j).nesting >= limit - left - 1 + (j - i)
    BY <1>9 DEF Risen
  <2>4. j - i <= left
    BY <1>1, <1>2, <1>3, <1>4, <2>2, <2>3
  <2> QED
    BY <2>4 DEF left
<1> QED
  BY <1>10, <1>11

-----------------------------------------------------------------------------
(* Theorems. *)

\* In every reachable state ownership is a tree in which each level is paid for out of steps, the
\* runs in progress follow it, every limit is within the host's or the default that 0 stands
\* for, and a run of interpret() is still bounded by what its caller gave it (create_engine,
\* bridge_call, interpret).
THEOREM Invariance == Spec => [](IndInv /\ HandedDown)
<1>1. Init => IndInv
  BY InitIndInv
<1>2. Init => HandedDown
  BY DEF Init, HandedDown
<1>3. IndInv /\ [Next]_vars => IndInv'
  BY NextIndInv
<1>4. IndInv /\ HandedDown /\ [Next]_vars => HandedDown'
  BY NextHandedDown
<1> QED
  BY <1>1, <1>2, <1>3, <1>4, PTL DEF Spec

\* However programs create, limit, run and destroy interpreters, and whatever 64-bit limits and
\* levels they ask for: no limit passes the host's or the default that 0 stands for, no caller is
\* given steps back, a chain of interpret() calls is no longer than the levels its first program
\* has left, and the host's steps bound how many runs are in progress.
THEOREM HostIsTheLimit == Spec => []StaysWithinHost
<1>1. IndInv => LimitsBounded
  <2>1. \A r \in EngineRecord : r.steps \in Nat
    BY DEF EngineRecord, Fields
  <2> SUFFICES ASSUME IndInv, NEW e \in Engines, Exists(e)
               PROVE  /\ engine[e].stepLimit <= StepLimit
                      /\ engine[e].depthLimit <= FrameCeiling
                      /\ engine[e].nestingLimit <= NestingCeiling
                      /\ engine[e].steps >= 0
    BY DEF LimitsBounded, FrameCeiling, NestingCeiling
  <2>2. Bounded(e) /\ engine[e].steps \in Nat
    BY <2>1 DEF IndInv, WithinLimits, TypeOK
  <2> QED
    BY <2>2 DEF Bounded
<1>2. IndInv => ChainPaid
  <2> SUFFICES ASSUME IndInv, running # <<>>
               PROVE  2 * (Len(running) - 1) <= StepLimit
    BY DEF ChainPaid
  <2>1. PICK level \in Levels : Tree(level) /\ ChainDescends(level)
    BY DEF IndInv
  <2>2. /\ Len(running) \in Nat \ {0} /\ Top = running[Len(running)].engine
        /\ Top \in Engines /\ Exists(Top) /\ engine[Top].stepLimit \in 1 .. StepLimit
    BY TopExists DEF Top, Bounded
  <2>3. level[Top] = Len(running) - 1
    BY <2>1, <2>2 DEF ChainDescends
  <2>4. CASE Top = Main
    BY <2>1, <2>2, <2>3, <2>4, LimitAssumption DEF Tree
  <2>5. CASE Top \in Children
    <3>1. Paid(level[Top], engine[Top].stepLimit)
      BY <2>1, <2>2, <2>5 DEF Tree
    <3> QED
      BY <2>2, <2>3, <3>1, LimitAssumption DEF Paid
  <2> QED
    BY <2>2, <2>4, <2>5 DEF Engines
<1>3. IndInv /\ HandedDown => InterpretChainsBounded
  BY ChainRises DEF InterpretChainsBounded, Program
<1>4. IndInv /\ HandedDown => StaysWithinHost
  BY <1>1, <1>2, <1>3 DEF StaysWithinHost
<1> QED
  BY Invariance, <1>4, PTL

\* Along a chain of interpret() calls of any length the frames in use stay within the limit of the
\* program that started it, but for the one frame that each caller with none left gives its child:
\* nested programs share the host stack as builtins.c says, whatever they create and limit besides.
THEOREM OneFrameBudget == Spec => []InterpretSharesFrames
<1>1. IndInv /\ HandedDown => InterpretSharesFrames
  <2> SUFFICES ASSUME IndInv, HandedDown, NEW i \in 1 .. Len(running), NEW j \in 1 .. Len(running),
                      i <= j, \A k \in i + 1 .. j : running[k].kind # "eval"
               PROVE  Cardinality(FramesInUse(i, j)) <= Program(i).depthLimit + Cardinality(Spent(i, j - 1))
    BY DEF InterpretSharesFrames, Program
  <2>1. Accounted(i, j) /\ i \in Nat
    BY ChainAccounted
  <2>2. Cardinality(FramesInUse(i, j)) = Cardinality(FramesInUse(i, j - 1)) + Program(j).depth
    BY <2>1, OneMoreRun DEF Accounted
  <2>3. Program(j).depth <= Program(j).depthLimit /\ Program(j).depth \in Nat /\ Program(j).depthLimit \in Nat
    BY RunsDiffer DEF HandedDown, EngineRecord, Fields
  <2>4. Cardinality(FramesInUse(i, j - 1)) \in Nat
    BY <2>1, FS_CardinalityType DEF Accounted
  <2>5. Program(i).depthLimit \in Nat
    BY RunsDiffer DEF EngineRecord, Fields
  <2> QED
    BY <2>1, <2>2, <2>3, <2>4, <2>5 DEF Accounted
<1> QED
  BY Invariance, <1>1, PTL
=============================================================================
