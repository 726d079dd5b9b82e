--------------------------- MODULE Signals_proofs ---------------------------
(***************************************************************************)
(* Proofs about Signals, for any number of interpreters and signals.       *)
(*                                                                         *)
(* The flag is settled by a loop that reads the records one by one, so     *)
(* what it has read so far has to be related to what it still stands for:  *)
(* a record read as set stays set until the flag is written, and a record  *)
(* set behind the reader makes the arrival a late one.  Dispositions are   *)
(* related along the order in which interpreters took a signal over: each  *)
(* has saved what the one before it had set.                               *)
(***************************************************************************)
EXTENDS Signals, SequenceTheorems, TLAPS

-----------------------------------------------------------------------------
(* Sequences. *)

\* What is left of a sequence without its last element.
LEMMA FrontProperties ==
  ASSUME NEW S, NEW seq \in Seq(S), seq # <<>>
  PROVE  /\ Front(seq) \in Seq(S) /\ Len(Front(seq)) = Len(seq) - 1
         /\ \A k \in 1 .. Len(seq) - 1 : Front(seq)[k] = seq[k]
<1> DEFINE m == Len(seq) - 1
<1>1. m \in Nat /\ \A k \in 1 .. m : seq[k] \in S
  BY EmptySeq, ElementOfSeq
<1>2. Front(seq) = SubSeq(seq, 1, m)
  BY DEF Front
<1> HIDE DEF m
<1>3. /\ SubSeq(seq, 1, m) \in Seq(S)
      /\ Len(SubSeq(seq, 1, m)) = IF 1 <= m THEN m - 1 + 1 ELSE 0
      /\ \A k \in 1 .. m - 1 + 1 : SubSeq(seq, 1, m)[k] = seq[1 + k - 1]
  BY <1>1, SubSeqProperties
<1>4. Len(SubSeq(seq, 1, m)) = m
  BY <1>1, <1>3
<1>5. ASSUME NEW k \in 1 .. m
      PROVE  SubSeq(seq, 1, m)[k] = seq[k]
  <2>1. k \in 1 .. m - 1 + 1 /\ 1 + k - 1 = k
    BY <1>1
  <2> QED
    BY <2>1, <1>3
<1> QED
  BY <1>2, <1>3, <1>4, <1>5 DEF m

\* What is left of a sequence without its i-th element.
LEMMA RemoveAtProperties ==
  ASSUME NEW S, NEW seq \in Seq(S), NEW i \in 1 .. Len(seq)
  PROVE  /\ RemoveAt(seq, i) \in Seq(S) /\ Len(RemoveAt(seq, i)) = Len(seq) - 1
         /\ \A k \in 1 .. Len(seq) - 1 : RemoveAt(seq, i)[k] = IF k < i THEN seq[k] ELSE seq[k + 1]
<1> DEFINE n == Len(seq)
           before == SubSeq(seq, 1, i - 1)
           after  == SubSeq(seq, i + 1, n)
<1>1. n \in Nat /\ i \in Nat /\ i <= n /\ i >= 1 /\ \A k \in 1 .. n : seq[k] \in S
  BY ElementOfSeq, LenProperties
<1>2. RemoveAt(seq, i) = before \o after
  BY DEF RemoveAt
<1> HIDE DEF n
<1>3. /\ before \in Seq(S) /\ Len(before) = i - 1
      /\ \A k \in 1 .. i - 1 : before[k] = seq[k]
  <2>1. 1 \in Int /\ i - 1 \in Int /\ \A k \in 1 .. i - 1 : seq[k] \in S
    BY <1>1
  <2>2. /\ before \in Seq(S)
        /\ Len(before) = IF 1 <= i - 1 THEN (i - 1) - 1 + 1 ELSE 0
        /\ \A k \in 1 .. (i - 1) - 1 + 1 : before[k] = seq[1 + k - 1]
    BY <2>1, SubSeqProperties
  <2>3. \A k \in 1 .. i - 1 : k \in 1 .. (i - 1) - 1 + 1 /\ 1 + k - 1 = k
    BY <1>1
  <2> HIDE DEF before
  <2> QED
    BY <2>2, <2>3, <1>1
<1>4. /\ after \in Seq(S) /\ Len(after) = n - i
      /\ \A k \in 1 .. n - i : after[k] = seq[i + k]
  <2>1. i + 1 \in Int /\ n \in Int /\ \A k \in i + 1 .. n : seq[k] \in S
    BY <1>1
  <2>2. /\ after \in Seq(S)
        /\ Len(after) = IF i + 1 <= n THEN n - (i + 1) + 1 ELSE 0
        /\ \A k \in 1 .. n - (i + 1) + 1 : after[k] = seq[i + 1 + k - 1]
    BY <2>1, SubSeqProperties
  <2>3. \A k \in 1 .. n - i : k \in 1 .. n - (i + 1) + 1 /\ i + 1 + k - 1 = i + k
    BY <1>1
  <2> HIDE DEF after
  <2> QED
    BY <2>2, <2>3, <1>1
<1> HIDE DEF before, after
<1>5. /\ before \o after \in Seq(S) /\ Len(before \o after) = Len(before) + Len(after)
      /\ \A k \in 1 .. Len(before) + Len(after) :
           (before \o after)[k] = IF k <= Len(before) THEN before[k] ELSE after[k - Len(before)]
  BY <1>3, <1>4, ConcatProperties
<1>6. ASSUME NEW k \in 1 .. n - 1
      PROVE  (before \o after)[k] = IF k < i THEN seq[k] ELSE seq[k + 1]
  <2>1. k \in 1 .. Len(before) + Len(after)
    BY <1>1, <1>3, <1>4
  <2>2. CASE k < i
    <3>1. k <= Len(before) /\ k \in 1 .. i - 1
      BY <1>1, <1>3, <2>2
    <3> QED
      BY <2>1, <2>2, <3>1, <1>3, <1>5
  <2>3. CASE k >= i
    <3>1. k - Len(before) \in 1 .. n - i /\ i + (k - Len(before)) = k + 1 /\ ~(k <= Len(before)) /\ ~(k < i)
      BY <1>1, <1>3, <2>3
    <3>2. (before \o after)[k] = after[k - Len(before)]
      BY <2>1, <3>1, <1>5
    <3>3. after[k - Len(before)] = seq[k + 1]
      <4>1. after[k - Len(before)] = seq[i + (k - Len(before))]
        BY <3>1, <1>4
      <4> QED
        BY <3>1, <4>1
    <3> QED
      BY <3>1, <3>2, <3>3
  <2>4. k < i \/ k >= i
    BY <1>1
  <2> QED
    BY <2>2, <2>3, <2>4, Zenon
<1>7. Len(before) + Len(after) = n - 1
  BY <1>1, <1>3, <1>4
<1> QED
  BY <1>2, <1>5, <1>6, <1>7 DEF n

-----------------------------------------------------------------------------
Slots == 1 .. SignalSlots + 1

Activity ==
       [at : {"run"}, interpreter : Interpreters]
  \cup [at : {"deliver", "restore"}, interpreter : Interpreters, slot : Slots]
  \cup [at : {"forget"}, interpreter : Interpreters, slot : Signals]
  \cup [at : {"settle"}, slot : Slots, any : BOOLEAN]

Actions == {"host", "forward", "default"}

TypeOK ==
  /\ activity \in Seq(Activity)
  /\ disposition \in [Signals -> Actions]
  /\ arrived \in [Signals -> BOOLEAN]
  /\ pending \in BOOLEAN /\ late \in BOOLEAN
  /\ handled \in [Interpreters -> SUBSET Signals]
  /\ previous \in [Interpreters -> [Signals -> Actions \cup {NotInstalled}]]
  /\ order \in [Signals -> Seq(Interpreters)]
  /\ tangled \in [Signals -> BOOLEAN]

\* The host runs the program, and only the innermost activity is native code that runs no program.
Stacked ==
  /\ Len(activity) > 0 /\ activity[1].at = "run" /\ activity[1].interpreter = Program
  /\ \A k \in 1 .. Len(activity) - 1 : activity[k].at \in {"run", "deliver"}

\* A flag that is set is about a record, or will be settled.
FlagHasCause == pending => (\E s \in Signals : arrived[s]) \/ (\E k \in 1 .. Len(activity) : activity[k].at # "run")

\* What the settling loop has seen is still there, and unless a signal came behind its back
\* it has seen all there is.
SettlingAgrees(a) ==
  a.at = "settle" =>
    /\ a.any => \E s \in Signals : s < a.slot /\ arrived[s]
    /\ ~late => \A s \in Signals : s < a.slot /\ arrived[s] => a.any

FlagInv ==
  /\ Stacked /\ FlagHasCause /\ OnlyLateArrivalsAreMissed
  /\ SettlingAgrees(activity[Len(activity)])

\* order[s] lists, each once, the interpreters that have saved an action for s.
OrderTells(s) ==
  /\ \A e \in Interpreters : previous[e][s] # NotInstalled <=> \E k \in 1 .. Len(order[s]) : order[s][k] = e
  /\ \A j, k \in 1 .. Len(order[s]) : order[s][j] = order[s][k] => j = k

\* What the k-th installer of s, or the host before the first, has made of s.
MadeBy(s, k) ==
  IF k = 0 THEN "host" ELSE IF s \in handled[order[s][k]] THEN "forward" ELSE "default"

Chained(s) ==
  ~tangled[s] =>
    /\ disposition[s] = MadeBy(s, Len(order[s]))
    /\ \A k \in 1 .. Len(order[s]) : previous[order[s][k]][s] = MadeBy(s, k - 1)

DispositionInv == \A s \in Signals : OrderTells(s) /\ Chained(s)

IndInv == TypeOK /\ FlagInv /\ DispositionInv

-----------------------------------------------------------------------------
(* What the steps do to the stack of activities. *)

\* The innermost activity, by what it is.
LEMMA InnermostActivity ==
  ASSUME TypeOK, Stacked
  PROVE  /\ activity # <<>> /\ Len(activity) \in Nat \ {0}
         /\ Now = activity[Len(activity)] /\ Now \in Activity
         /\ Now.at \in {"run", "deliver", "restore", "settle", "forget"}
         /\ Now.at = "run" => Now \in [at : {"run"}, interpreter : Interpreters]
         /\ Now.at \in {"deliver", "restore"} => Now \in [at : {"deliver", "restore"}, interpreter : Interpreters, slot : Slots]
         /\ Now.at = "forget" => Now \in [at : {"forget"}, interpreter : Interpreters, slot : Signals]
         /\ Now.at = "settle" => Now \in [at : {"settle"}, slot : Slots, any : BOOLEAN]
         /\ Now.at # "run" => Len(activity) > 1
<1>1. Len(activity) \in Nat \ {0} /\ activity # <<>>
  BY EmptySeq, LenProperties DEF TypeOK, Stacked
<1>2. activity[Len(activity)] \in Activity
  BY <1>1, ElementOfSeq DEF TypeOK
<1>3. Now = activity[Len(activity)]
  BY DEF Now, Last
<1>4. Now \in Activity
  BY <1>2, <1>3
<1>5. Now.at # "run" => Len(activity) > 1
  BY <1>1, <1>3 DEF Stacked
<1> QED
  BY <1>1, <1>3, <1>4, <1>5 DEF Activity

\* The innermost activity going on as another leaves those around it.
LEMMA BecomeStack ==
  ASSUME TypeOK, Stacked, NEW a \in Activity, Become(a), Now.at # "run"
  PROVE  /\ activity' \in Seq(Activity) /\ Len(activity') = Len(activity) /\ activity'[Len(activity')] = a
         /\ \A k \in 1 .. Len(activity) - 1 : activity'[k] = activity[k]
         /\ Stacked'
<1>1. Len(activity) \in Nat \ {0} /\ Len(activity) > 1
  BY InnermostActivity
<1>2. activity' = [activity EXCEPT ![Len(activity)] = a]
  BY DEF Become
<1>3. /\ activity' \in Seq(Activity) /\ Len(activity') = Len(activity)
      /\ \A k \in 1 .. Len(activity) : activity'[k] = IF k = Len(activity) THEN a ELSE activity[k]
  BY <1>1, <1>2, ExceptSeq DEF TypeOK
<1>4. activity'[Len(activity')] = a /\ \A k \in 1 .. Len(activity) - 1 : activity'[k] = activity[k]
  BY <1>1, <1>3
<1> QED
  BY <1>1, <1>3, <1>4 DEF Stacked

\* Starting an activity leaves those around it.
LEMMA PushStack ==
  ASSUME TypeOK, Stacked, NEW a \in Activity, Push(a), Now.at \in {"run", "deliver"}
  PROVE  /\ activity' \in Seq(Activity) /\ Len(activity') = Len(activity) + 1 /\ activity'[Len(activity')] = a
         /\ \A k \in 1 .. Len(activity) : activity'[k] = activity[k]
         /\ Stacked'
<1>1. Len(activity) \in Nat \ {0} /\ Now = activity[Len(activity)]
  BY InnermostActivity
<1>2. activity' = Append(activity, a)
  BY DEF Push
<1>3. /\ activity' \in Seq(Activity) /\ Len(activity') = Len(activity) + 1 /\ activity'[Len(activity) + 1] = a
      /\ \A k \in 1 .. Len(activity) : activity'[k] = activity[k]
  BY <1>2, AppendProperties DEF TypeOK
<1>4. \A k \in 1 .. Len(activity') - 1 : k \in 1 .. Len(activity) /\ (k = Len(activity) \/ k \in 1 .. Len(activity) - 1)
  BY <1>1, <1>3
<1> QED
  BY <1>1, <1>3, <1>4 DEF Stacked

\* Ending an activity leaves those around it.
LEMMA PopStack ==
  ASSUME TypeOK, Stacked, activity' = Front(activity), Len(activity) > 1
  PROVE  /\ activity' \in Seq(Activity) /\ Len(activity') = Len(activity) - 1
         /\ \A k \in 1 .. Len(activity) - 1 : activity'[k] = activity[k]
         /\ Stacked'
<1>1. Len(activity) \in Nat \ {0} /\ activity # <<>>
  BY InnermostActivity
<1>2. /\ activity' \in Seq(Activity) /\ Len(activity') = Len(activity) - 1
      /\ \A k \in 1 .. Len(activity) - 1 : activity'[k] = activity[k]
  BY <1>1, FrontProperties DEF TypeOK
<1> QED
  BY <1>1, <1>2 DEF Stacked

-----------------------------------------------------------------------------
(* What the steps do to the records and the flag. *)

\* A step that sets no record and leaves the flag: it has to keep something that will settle
\* the flag where there was such a thing, and where it clears a record.
LEMMA FlagKept ==
  ASSUME TypeOK, FlagInv, Stacked', UNCHANGED <<pending, late>>,
         \A s \in Signals : arrived'[s] => arrived[s],
         \/ \E k \in 1 .. Len(activity') : activity'[k].at # "run"
         \/ arrived' = arrived /\ \A k \in 1 .. Len(activity) : activity[k].at = "run",
         SettlingAgrees(activity[Len(activity)])'
  PROVE  FlagInv'
BY DEF FlagInv, FlagHasCause, OnlyLateArrivalsAreMissed

\* The order in which signals were taken over and what is done with them do not change.
LEMMA DispositionsKept ==
  ASSUME DispositionInv, UNCHANGED <<disposition, handled, previous, order, tangled>>
  PROVE  DispositionInv'
BY DEF DispositionInv, OrderTells, Chained, MadeBy

\* The program starts with nothing taken over and nothing recorded.
LEMMA InitIndInv == Init => IndInv
<1> SUFFICES ASSUME Init PROVE IndInv
  OBVIOUS
<1>1. Program \in Interpreters /\ Running(Program) \in Activity
  BY DEF Interpreters, Running, Activity
<1>2. activity \in Seq(Activity) /\ Len(activity) = 1 /\ activity[1] = Running(Program)
  BY <1>1 DEF Init
<1>3. TypeOK
  <2>1. <<>> \in Seq(Interpreters)
    OBVIOUS
  <2>2. order \in [Signals -> Seq(Interpreters)]
    BY <2>1 DEF Init
  <2>3. previous \in [Interpreters -> [Signals -> Actions \cup {NotInstalled}]]
    BY DEF Init
  <2> QED
    BY <1>2, <2>2, <2>3 DEF Init, TypeOK, Actions
<1>4. FlagInv
  BY <1>2 DEF Init, FlagInv, Stacked, FlagHasCause, OnlyLateArrivalsAreMissed, SettlingAgrees, Running
<1>5. \A s \in Signals : order[s] = <<>> /\ Len(order[s]) = 0
  BY DEF Init
<1>6. \A s \in Signals : OrderTells(s)
  BY <1>5 DEF Init, OrderTells
<1>7. \A s \in Signals : Chained(s)
  BY <1>5 DEF Init, Chained, MadeBy
<1> QED
  BY <1>3, <1>4, <1>6, <1>7 DEF IndInv, DispositionInv

\* forward: a signal that comes behind the settling loop's back is a late one.
LEMMA ArriveIndInv == ASSUME IndInv, NEW s \in Signals, Arrive(s) PROVE IndInv'
<1>1. TypeOK /\ FlagInv /\ DispositionInv
  BY DEF IndInv
<1>2. activity' = activity /\ pending' = TRUE /\ late' = (late \/ BehindReader(s))
      /\ arrived' = [arrived EXCEPT ![s] = TRUE]
      /\ UNCHANGED <<disposition, handled, previous, order, tangled>>
  BY DEF Arrive
<1>3. TypeOK'
  <2>1. late' \in BOOLEAN
    BY <1>1, <1>2 DEF TypeOK, BehindReader
  <2>2. arrived' \in [Signals -> BOOLEAN]
    BY <1>1, <1>2 DEF TypeOK
  <2> QED
    BY <1>1, <1>2, <2>1, <2>2 DEF TypeOK
<1>4. \A r \in Signals : arrived'[r] <=> arrived[r] \/ r = s
  BY <1>1, <1>2 DEF TypeOK
<1>5. Stacked' /\ FlagHasCause' /\ OnlyLateArrivalsAreMissed'
  BY <1>1, <1>2, <1>4 DEF FlagInv, Stacked, FlagHasCause, OnlyLateArrivalsAreMissed
<1>6. SettlingAgrees(activity[Len(activity)])'
  <2>1. Len(activity) \in 1 .. Len(activity)
    BY <1>1, InnermostActivity DEF FlagInv
  <2>2. ASSUME Now.at = "settle", s < Now.slot, ~Now.any
        PROVE  late'
    BY <1>2, <2>1, <2>2 DEF BehindReader, Now, Last
  <2>3. late => late'
    BY <1>2
  <2> QED
    BY <1>1, <1>2, <1>4, <2>2, <2>3 DEF FlagInv, SettlingAgrees, Now, Last
<1> QED
  BY <1>1, <1>2, <1>3, <1>5, <1>6, DispositionsKept DEF IndInv, FlagInv

\* Steps that only start or end an activity.
Starts == (\E e \in Interpreters : Poll(e) \/ Clear(e)) \/ \E c \in Children : RunChild(c)

\* Polling, clearing and running a child keep the invariant.
LEMMA StartIndInv == IndInv /\ Starts => IndInv'
<1> SUFFICES ASSUME IndInv, Starts PROVE IndInv'
  OBVIOUS
<1>1. TypeOK /\ FlagInv /\ Stacked /\ DispositionInv
  BY DEF IndInv, FlagInv
<1>2. Now.at = "run" /\ UNCHANGED <<arrived, pending, late, disposition, handled, previous, order, tangled>>
  <2>1. \E e \in Interpreters : Now = Running(e)
    BY DEF Starts, Poll, Clear, RunChild, Interpreters
  <2>2. UNCHANGED <<disposition, arrived, pending, handled, previous, histories>>
    BY DEF Starts, Poll, Clear, RunChild
  <2> QED
    BY <2>1, <2>2 DEF Running, histories
<1>3. PICK a \in Activity : Push(a) /\ (a.at \in {"deliver", "restore"} \/ a.at = "run")
  <2>1. 1 \in Slots /\ Children \subseteq Interpreters
    BY SignalsAssumption DEF Slots, Interpreters
  <2>2. ASSUME NEW e \in Interpreters, NEW k \in {"deliver", "restore"}
        PROVE  [at |-> k, interpreter |-> e, slot |-> 1] \in Activity
    BY <2>1 DEF Activity
  <2>3. \A c \in Children : Running(c) \in Activity /\ Running(c).at = "run"
    BY <2>1 DEF Activity, Running
  <2> QED
    BY <2>2, <2>3 DEF Starts, Poll, Clear, RunChild
<1>4. /\ activity' \in Seq(Activity) /\ Len(activity') = Len(activity) + 1 /\ activity'[Len(activity')] = a
      /\ \A k \in 1 .. Len(activity) : activity'[k] = activity[k]
      /\ Stacked'
  BY <1>1, <1>2, <1>3, PushStack
<1>5. TypeOK'
  BY <1>1, <1>2, <1>4 DEF TypeOK
<1>6. SettlingAgrees(activity[Len(activity)])'
  BY <1>3, <1>4 DEF SettlingAgrees
<1>7. \/ \E k \in 1 .. Len(activity') : activity'[k].at # "run"
      \/ arrived' = arrived /\ \A k \in 1 .. Len(activity) : activity[k].at = "run"
  <2>1. Len(activity) \in Nat
    BY <1>1 DEF TypeOK
  <2> QED
    BY <1>2, <1>4, <2>1
<1> QED
  BY <1>1, <1>2, <1>4, <1>5, <1>6, <1>7, FlagKept, DispositionsKept DEF IndInv

\* Native code goes on to its next step.
LEMMA BecomeKeepsFlag ==
  ASSUME TypeOK, FlagInv, NEW a \in Activity, Become(a), Now.at # "run", a.at # "run", UNCHANGED <<pending, late>>,
         \A s \in Signals : arrived'[s] => arrived[s], SettlingAgrees(a)'
  PROVE  activity' \in Seq(Activity) /\ FlagInv'
<1>1. Stacked /\ Len(activity) \in Nat \ {0}
  BY InnermostActivity DEF FlagInv
<1>2. activity' \in Seq(Activity) /\ Len(activity') = Len(activity) /\ activity'[Len(activity')] = a /\ Stacked'
  BY <1>1, BecomeStack
<1>3. \E k \in 1 .. Len(activity') : activity'[k].at # "run"
  BY <1>1, <1>2
<1>4. SettlingAgrees(activity[Len(activity)])'
  BY <1>2 DEF SettlingAgrees
<1> QED
  BY <1>2, <1>3, <1>4, FlagKept

\* What native code goes on to.
LEMMA NextActivity ==
  ASSUME TypeOK, Stacked
  PROVE  /\ Now.at = "deliver" => \A i \in Slots : Past(i) \in Activity /\ Past(i).at = "deliver"
         /\ [at |-> "settle", slot |-> 1, any |-> FALSE] \in Activity
         /\ Now.at = "restore" =>
              /\ \A i \in Slots : [Now EXCEPT !.slot = i] \in Activity /\ [Now EXCEPT !.slot = i].at = "restore"
              /\ Now.slot \in Signals => [Now EXCEPT !.at = "forget"] \in Activity /\ [Now EXCEPT !.at = "forget"].at = "forget"
         /\ Now.at = "forget" => [at |-> "restore", interpreter |-> Now.interpreter, slot |-> Now.slot + 1] \in Activity
<1>1. 1 \in Slots /\ \A s \in Signals : s + 1 \in Slots
  BY SignalsAssumption DEF Slots, Signals
<1>2. Now.at = "deliver" => \A i \in Slots : Past(i) \in Activity /\ Past(i).at = "deliver"
  BY InnermostActivity DEF Past, Activity
<1>3. [at |-> "settle", slot |-> 1, any |-> FALSE] \in Activity
  BY <1>1 DEF Activity
<1>4. ASSUME Now.at = "restore"
      PROVE  /\ \A i \in Slots : [Now EXCEPT !.slot = i] \in Activity /\ [Now EXCEPT !.slot = i].at = "restore"
             /\ Now.slot \in Signals => [Now EXCEPT !.at = "forget"] \in Activity /\ [Now EXCEPT !.at = "forget"].at = "forget"
  BY <1>4, InnermostActivity DEF Activity
<1>5. ASSUME Now.at = "forget"
      PROVE  [at |-> "restore", interpreter |-> Now.interpreter, slot |-> Now.slot + 1] \in Activity
  <2>1. Now \in [at : {"forget"}, interpreter : Interpreters, slot : Signals]
    BY <1>5, InnermostActivity
  <2>2. Now.slot + 1 \in Slots /\ Now.interpreter \in Interpreters
    BY <2>1, <1>1
  <2> QED
    BY <2>2 DEF Activity
<1> QED
  BY <1>2, <1>3, <1>4, <1>5

\* The loops of bridge_deliver, of settle_pending and of bridge_cleanup's forgetting.
Rounds == Deliver \/ NoFrame \/ DeliverEnd \/ SettleRead \/ Forget \/ RestoreEnd

\* A round of a loop leaves the flag and the native actions alone.
LEMMA RoundFrame ==
  Rounds => Now.at # "run" /\ UNCHANGED <<pending, late, disposition, handled, previous, order, tangled>>
<1> SUFFICES ASSUME Rounds
             PROVE  Now.at # "run" /\ UNCHANGED <<pending, late, disposition, handled, previous, order, tangled>>
  OBVIOUS
<1>1. UNCHANGED <<disposition, pending, handled, previous, histories>>
  BY DEF Rounds, Deliver, NoFrame, DeliverEnd, SettleRead, Forget, RestoreEnd
<1>2. Now.at \in {"deliver", "settle", "forget", "restore"}
  BY DEF Rounds, Deliver, NoFrame, DeliverEnd, SettleRead, Forget, RestoreEnd
<1> QED
  BY <1>1, <1>2 DEF histories

\* A round that calls no handler.
LEMMA RoundIndInv ==
  ASSUME IndInv, Rounds, NEW a \in Activity, Become(a), a.at # "run", SettlingAgrees(a)',
         arrived' = arrived \/ \E s \in Signals : arrived' = [arrived EXCEPT ![s] = FALSE]
  PROVE  IndInv'
<1>1. TypeOK /\ FlagInv /\ DispositionInv
  BY DEF IndInv
<1>2. Now.at # "run" /\ UNCHANGED <<pending, late, disposition, handled, previous, order, tangled>>
  BY RoundFrame
<1>3. arrived' \in [Signals -> BOOLEAN] /\ \A s \in Signals : arrived'[s] => arrived[s]
  BY <1>1 DEF TypeOK
<1>4. activity' \in Seq(Activity) /\ FlagInv'
  BY <1>1, <1>2, <1>3, BecomeKeepsFlag
<1>5. TypeOK'
  BY <1>1, <1>2, <1>3, <1>4 DEF TypeOK
<1> QED
  BY <1>1, <1>2, <1>4, <1>5, DispositionsKept DEF IndInv

\* Reading a record in settle_pending keeps the loop's answer true.
LEMMA SettleReadIndInv == IndInv /\ SettleRead => IndInv'
<1> SUFFICES ASSUME IndInv, SettleRead PROVE IndInv'
  OBVIOUS
<1>1. TypeOK /\ FlagInv /\ Stacked
  BY DEF IndInv, FlagInv
<1>2. Now.at = "settle" /\ UNCHANGED <<arrived, pending, late>>
  BY DEF SettleRead, histories
<1>3. PICK s \in Signals : s = Now.slot
  BY <1>1, <1>2, InnermostActivity, SignalsAssumption DEF Slots, Signals, SettleRead
<1>4. arrived[s] \in BOOLEAN /\ s + 1 \in Slots
  BY <1>1, <1>3, SignalsAssumption DEF TypeOK, Slots, Signals
<1>5. Now \in [at : {"settle"}, slot : Slots, any : BOOLEAN]
  BY <1>1, <1>2, InnermostActivity
<1>6. PICK a \in Activity : Become(a) /\ a.at = "settle" /\ a.slot = s + 1 /\ (a.any <=> Now.any \/ arrived[s])
  <2> DEFINE next == [Now EXCEPT !.slot = @ + 1, !.any = @ \/ arrived[Now.slot]]
  <2>1. next \in Activity /\ next.at = "settle" /\ next.slot = s + 1 /\ (next.any <=> Now.any \/ arrived[s])
    BY <1>3, <1>4, <1>5 DEF Activity
  <2>2. Become(next)
    BY DEF SettleRead
  <2> QED
    BY <2>1, <2>2
<1>7. SettlingAgrees(a)'
  <2>1. \A r \in Signals : r < s + 1 <=> r < s \/ r = s
    BY DEF Signals
  <2>2. SettlingAgrees(Now)
    BY <1>1, InnermostActivity DEF FlagInv
  <2>3. Now.any => \E r \in Signals : r < s /\ arrived[r]
    BY <1>2, <1>3, <2>2 DEF SettlingAgrees
  <2>4. ~late => \A r \in Signals : r < s /\ arrived[r] => Now.any
    BY <1>2, <1>3, <2>2 DEF SettlingAgrees
  <2>5. a.any => \E r \in Signals : r < s + 1 /\ arrived[r]
    BY <1>6, <2>1, <2>3
  <2>6. ~late => \A r \in Signals : r < s + 1 /\ arrived[r] => a.any
    BY <1>6, <2>1, <2>4
  <2> QED
    BY <1>2, <1>6, <2>5, <2>6 DEF SettlingAgrees
<1>8. Rounds
  BY DEF Rounds
<1> QED
  BY <1>2, <1>6, <1>7, <1>8, RoundIndInv

\* The rounds that call no handler; a record that one clears was read by it.
LEMMA QuietRoundIndInv ==
  ASSUME IndInv, NoFrame \/ DeliverEnd \/ Forget \/ RestoreEnd \/ (Deliver /\ ~DeliverTo(Now.slot))
  PROVE  IndInv'
<1>1. TypeOK /\ FlagInv /\ Stacked
  BY DEF IndInv, FlagInv
<1>2. Rounds
  BY DEF Rounds
<1>3. SignalSlots + 1 \in Slots /\ \A i \in Slots : i <= SignalSlots => i \in Signals /\ i + 1 \in Slots
  BY SignalsAssumption DEF Slots, Signals
<1>4. ASSUME NEW a \in Activity, Become(a), a.at \in {"deliver", "restore"},
             arrived' = arrived \/ \E s \in Signals : arrived' = [arrived EXCEPT ![s] = FALSE]
      PROVE  IndInv'
  <2>1. a.at # "run" /\ SettlingAgrees(a)'
    BY <1>4 DEF SettlingAgrees
  <2> QED
    BY <1>2, <1>4, <2>1, RoundIndInv
<1>5. CASE NoFrame
  <2>1. Now.at = "deliver" /\ Now.slot \in Signals
    BY <1>1, <1>3, <1>5, InnermostActivity DEF NoFrame
  <2>2. Become(Past(SignalSlots + 1)) /\ arrived' = [arrived EXCEPT ![Now.slot] = FALSE]
    BY <1>5 DEF NoFrame
  <2>3. Past(SignalSlots + 1) \in Activity /\ Past(SignalSlots + 1).at = "deliver"
    BY <1>1, <1>3, <2>1, NextActivity
  <2> QED
    BY <1>4, <2>1, <2>2, <2>3
<1>6. CASE Deliver /\ ~DeliverTo(Now.slot)
  <2>1. Now.at = "deliver" /\ Now.slot + 1 \in Slots
    BY <1>1, <1>3, <1>6, InnermostActivity DEF Deliver
  <2>2. Become(Past(Now.slot + 1)) /\ arrived' = arrived
    BY <1>6 DEF Deliver
  <2>3. Past(Now.slot + 1) \in Activity /\ Past(Now.slot + 1).at = "deliver"
    BY <1>1, <2>1, NextActivity
  <2> QED
    BY <1>4, <2>2, <2>3
<1>7. CASE DeliverEnd \/ RestoreEnd
  <2> DEFINE a == [at |-> "settle", slot |-> 1, any |-> FALSE]
  <2>1. Become(a) /\ arrived' = arrived
    BY <1>7 DEF DeliverEnd, RestoreEnd
  <2>2. SettlingAgrees(a)'
    <3>1. \A s \in Signals : ~(s < 1)
      BY DEF Signals
    <3> QED
      BY <3>1 DEF SettlingAgrees
  <2>3. a \in Activity /\ a.at # "run"
    BY <1>1, NextActivity
  <2> HIDE DEF a
  <2> QED
    BY <1>2, <2>1, <2>2, <2>3, RoundIndInv
<1>8. CASE Forget
  <2>1. Now.at = "forget" /\ arrived' = [arrived EXCEPT ![Now.slot] = FALSE]
        /\ Become([at |-> "restore", interpreter |-> Now.interpreter, slot |-> Now.slot + 1])
    BY <1>8 DEF Forget
  <2>2. Now.slot \in Signals
    BY <1>1, <2>1, InnermostActivity
  <2>3. PICK a \in Activity : Become(a) /\ a.at = "restore"
    BY <1>1, <2>1, NextActivity
  <2> QED
    BY <1>4, <2>1, <2>2, <2>3
<1> QED
  BY <1>5, <1>6, <1>7, <1>8

\* A round that calls the handler: the loop it goes on with stays below the handler.
LEMMA CallHandlerIndInv == ASSUME IndInv, Deliver, DeliverTo(Now.slot) PROVE IndInv'
<1>1. TypeOK /\ FlagInv /\ Stacked /\ DispositionInv
  BY DEF IndInv, FlagInv
<1>2. Now.at = "deliver" /\ Now.slot <= SignalSlots /\ UNCHANGED <<pending, late, disposition, handled, previous, order, tangled>>
  BY RoundFrame DEF Deliver, Rounds
<1>3. Len(activity) \in Nat \ {0} /\ Len(activity) > 1 /\ Now.slot \in Signals /\ Now.interpreter \in Interpreters
  BY <1>1, <1>2, InnermostActivity, SignalsAssumption DEF Slots, Signals
<1>4. PICK past \in Activity, handler \in Activity :
        /\ past.at = "deliver" /\ handler.at = "run"
        /\ activity' = Append([activity EXCEPT ![Len(activity)] = past], handler)
  <2>1. Past(Now.slot + 1) \in Activity /\ Past(Now.slot + 1).at = "deliver"
    <3>1. Now.slot + 1 \in Slots
      BY <1>3, SignalsAssumption DEF Slots, Signals
    <3> QED
      BY <1>1, <1>2, <3>1, NextActivity
  <2>2. Running(Now.interpreter) \in Activity /\ Running(Now.interpreter).at = "run"
    BY <1>3 DEF Running, Activity
  <2>3. activity' = Append([activity EXCEPT ![Len(activity)] = Past(Now.slot + 1)], Running(Now.interpreter))
    BY DEF Deliver
  <2> QED
    BY <2>1, <2>2, <2>3
<1> DEFINE base == [activity EXCEPT ![Len(activity)] = past]
<1>5. /\ base \in Seq(Activity) /\ Len(base) = Len(activity)
      /\ \A k \in 1 .. Len(activity) : base[k] = IF k = Len(activity) THEN past ELSE activity[k]
  BY <1>1, <1>3, ExceptSeq DEF TypeOK
<1> HIDE DEF base
<1>6. /\ activity' \in Seq(Activity) /\ Len(activity') = Len(activity) + 1 /\ activity'[Len(activity) + 1] = handler
      /\ \A k \in 1 .. Len(activity) : activity'[k] = base[k]
  <2>1. activity' = Append(base, handler)
    BY <1>4 DEF base
  <2> QED
    BY <1>5, <2>1, AppendProperties
<1>7. Stacked'
  <2>1. activity'[1] = activity[1]
    BY <1>3, <1>5, <1>6
  <2>2. ASSUME NEW k \in 1 .. Len(activity') - 1
        PROVE  activity'[k].at \in {"run", "deliver"}
    <3>1. k \in 1 .. Len(activity) /\ (k = Len(activity) \/ k \in 1 .. Len(activity) - 1)
      BY <1>3, <1>6
    <3> QED
      BY <3>1, <1>1, <1>4, <1>5, <1>6 DEF Stacked
  <2> QED
    BY <1>1, <1>3, <1>6, <2>1, <2>2 DEF Stacked
<1>8. \E k \in 1 .. Len(activity') : activity'[k].at # "run"
  <2>1. Len(activity) \in 1 .. Len(activity') /\ activity'[Len(activity)] = past
    BY <1>3, <1>5, <1>6
  <2> QED
    BY <1>4, <2>1
<1>9. SettlingAgrees(activity[Len(activity)])'
  BY <1>4, <1>6 DEF SettlingAgrees
<1>10. arrived' \in [Signals -> BOOLEAN] /\ \A s \in Signals : arrived'[s] => arrived[s]
  <2>1. arrived' = [arrived EXCEPT ![Now.slot] = FALSE]
    BY DEF Deliver
  <2> QED
    BY <1>1, <2>1 DEF TypeOK
<1>11. TypeOK'
  BY <1>1, <1>2, <1>6, <1>10 DEF TypeOK
<1> QED
  BY <1>1, <1>2, <1>7, <1>8, <1>9, <1>10, <1>11, FlagKept, DispositionsKept DEF IndInv

\* A handler, or a child's program, that ends: the loop that called a handler is still to
\* settle the flag.
LEMMA ReturnIndInv == ASSUME IndInv, HandlerReturn \/ ChildReturn PROVE IndInv'
<1>1. TypeOK /\ FlagInv /\ Stacked /\ DispositionInv
  BY DEF IndInv, FlagInv
<1>2. Now.at = "run" /\ activity' = Front(activity)
      /\ UNCHANGED <<arrived, pending, late, disposition, handled, previous, order, tangled>>
  BY DEF HandlerReturn, ChildReturn, InHandler, histories
<1>3. Len(activity) \in Nat \ {0} /\ Len(activity) > 1 /\ activity[Len(activity)].at = "run"
  BY <1>1, <1>2, InnermostActivity DEF HandlerReturn, ChildReturn, InHandler, Stacked
<1>4. activity[Len(activity) - 1].at \in {"run", "deliver"}
  BY DEF HandlerReturn, ChildReturn, InHandler
<1>5. /\ activity' \in Seq(Activity) /\ Len(activity') = Len(activity) - 1
      /\ \A k \in 1 .. Len(activity) - 1 : activity'[k] = activity[k]
      /\ Stacked'
  BY <1>1, <1>2, <1>3, PopStack
<1>6. TypeOK'
  BY <1>1, <1>2, <1>5 DEF TypeOK
<1>7. SettlingAgrees(activity[Len(activity)])'
  BY <1>3, <1>4, <1>5 DEF SettlingAgrees
<1>8. \/ \E k \in 1 .. Len(activity') : activity'[k].at # "run"
      \/ arrived' = arrived /\ \A k \in 1 .. Len(activity) : activity[k].at = "run"
  <2>1. \A k \in 1 .. Len(activity) : k = Len(activity) \/ k \in 1 .. Len(activity) - 1
    BY <1>3
  <2> QED
    BY <1>2, <1>3, <1>5, <2>1
<1> QED
  BY <1>1, <1>2, <1>5, <1>6, <1>7, <1>8, FlagKept, DispositionsKept DEF IndInv

\* A failing handler leads to settling, which makes the flag true again.
LEMMA HandlerFailsIndInv == ASSUME IndInv, HandlerFails PROVE IndInv'
<1>1. TypeOK /\ FlagInv /\ Stacked /\ DispositionInv
  BY DEF IndInv, FlagInv
<1> DEFINE n == Len(activity) - 1
<1>2. UNCHANGED <<arrived, pending, late, disposition, handled, previous, order, tangled>>
  BY DEF HandlerFails, histories
<1>3. n \in Nat \ {0} /\ activity # <<>> /\ activity[n].at = "deliver" /\ Len(activity) = n + 1 /\ n \in 1 .. Len(activity)
  BY <1>1, InnermostActivity DEF HandlerFails, InHandler
<1>4. activity' = [Front(activity) EXCEPT ![n] = [activity[n] EXCEPT !.slot = SignalSlots + 1]]
  <2>1. activity' = [Front(activity) EXCEPT ![n] = [Front(activity)[n] EXCEPT !.slot = SignalSlots + 1]]
    BY DEF HandlerFails
  <2>2. Front(activity)[n] = activity[n]
    BY <1>1, <1>3, FrontProperties DEF TypeOK
  <2> QED
    BY <2>1, <2>2
<1>5. PICK a \in Activity : a.at = "deliver" /\ a = [activity[n] EXCEPT !.slot = SignalSlots + 1]
  <2>1. activity[n] \in Activity
    BY <1>1, <1>3, ElementOfSeq DEF TypeOK
  <2>2. activity[n] \in [at : {"deliver", "restore"}, interpreter : Interpreters, slot : Slots]
    BY <1>3, <2>1 DEF Activity
  <2>3. SignalSlots + 1 \in Slots
    BY SignalsAssumption DEF Slots
  <2>4. [activity[n] EXCEPT !.slot = SignalSlots + 1] \in Activity /\ [activity[n] EXCEPT !.slot = SignalSlots + 1].at = "deliver"
    BY <1>3, <2>2, <2>3 DEF Activity
  <2> QED
    BY <2>4
<1> DEFINE base == Front(activity)
<1>6. base \in Seq(Activity) /\ Len(base) = n /\ \A k \in 1 .. n : base[k] = activity[k]
  BY <1>1, <1>3, FrontProperties DEF TypeOK
<1>7. activity' = [base EXCEPT ![n] = a]
  BY <1>4, <1>5
<1> HIDE DEF base, n
<1>8. /\ activity' \in Seq(Activity) /\ Len(activity') = n
      /\ \A k \in 1 .. n : activity'[k] = IF k = n THEN a ELSE activity[k]
  <2>1. \A k \in 1 .. Len(base) : [base EXCEPT ![n] = a][k] = IF k = n THEN a ELSE base[k]
    BY <1>3, <1>6, ExceptSeq
  <2>2. [base EXCEPT ![n] = a] \in Seq(Activity) /\ Len([base EXCEPT ![n] = a]) = Len(base)
    BY <1>3, <1>6, ExceptSeq
  <2> QED
    BY <1>6, <1>7, <2>1, <2>2
<1>9. Stacked'
  <2>1. n # 1
    BY <1>1, <1>3 DEF Stacked
  <2> QED
    BY <1>1, <1>3, <1>8, <2>1 DEF Stacked
<1>10. Len(activity') \in 1 .. Len(activity') /\ activity'[Len(activity')].at = "deliver"
  <2>1. n \in 1 .. n
    BY <1>3
  <2>2. activity'[n] = a
    BY <1>8, <2>1
  <2> QED
    BY <1>5, <1>8, <2>1, <2>2
<1>11. (\E k \in 1 .. Len(activity') : activity'[k].at # "run") /\ SettlingAgrees(activity[Len(activity)])'
  BY <1>10 DEF SettlingAgrees
<1>12. TypeOK'
  BY <1>1, <1>2, <1>8 DEF TypeOK
<1> QED
  BY <1>1, <1>2, <1>8, <1>9, <1>11, <1>12, FlagKept, DispositionsKept DEF IndInv

\* settle_pending's write: what the loop has seen is what there is, or a signal came late.
LEMMA SettleWriteIndInv == ASSUME IndInv, SettleWrite PROVE IndInv'
<1>1. TypeOK /\ FlagInv /\ Stacked /\ DispositionInv
  BY DEF IndInv, FlagInv
<1>2. Now.at = "settle" /\ Now.slot > SignalSlots /\ pending' = Now.any /\ activity' = Front(activity)
      /\ UNCHANGED <<arrived, late, disposition, handled, previous, order, tangled>>
  BY DEF SettleWrite, histories
<1>3. Len(activity) \in Nat \ {0} /\ Len(activity) > 1 /\ Now = activity[Len(activity)] /\ Now.any \in BOOLEAN /\ Now.slot \in Slots
  BY <1>1, <1>2, InnermostActivity
<1>4. /\ activity' \in Seq(Activity) /\ Len(activity') = Len(activity) - 1
      /\ \A k \in 1 .. Len(activity) - 1 : activity'[k] = activity[k]
      /\ Stacked'
  BY <1>1, <1>2, <1>3, PopStack
<1>5. TypeOK'
  BY <1>1, <1>2, <1>3, <1>4 DEF TypeOK
<1>6. (Now.any => \E s \in Signals : arrived[s]) /\ (~late => \A s \in Signals : arrived[s] => Now.any)
  <2>1. \A s \in Signals : s < Now.slot
    BY <1>2, <1>3, SignalsAssumption DEF Signals, Slots
  <2> QED
    BY <1>1, <1>2, <1>3, <2>1 DEF FlagInv, SettlingAgrees
<1>7. FlagHasCause' /\ OnlyLateArrivalsAreMissed'
  BY <1>2, <1>6 DEF FlagHasCause, OnlyLateArrivalsAreMissed
<1>8. SettlingAgrees(activity[Len(activity)])'
  <2>1. activity'[Len(activity')].at \in {"run", "deliver"}
    BY <1>1, <1>3, <1>4 DEF Stacked
  <2> QED
    BY <2>1 DEF SettlingAgrees
<1> QED
  BY <1>1, <1>2, <1>4, <1>5, <1>7, <1>8, DispositionsKept DEF IndInv, FlagInv

-----------------------------------------------------------------------------
(* What sigaction and the restoring of actions do. *)

\* Where the order of s, and what its installers are seen to have made of it, are the same.
LEMMA OtherSignal ==
  ASSUME NEW s \in Signals, OrderTells(s), Chained(s), order[s] \in Seq(Interpreters),
         order'[s] = order[s], tangled'[s] = tangled[s], disposition'[s] = disposition[s],
         \A e \in Interpreters : previous'[e][s] = previous[e][s] /\ (s \in handled'[e] <=> s \in handled[e])
  PROVE  OrderTells(s)' /\ Chained(s)'
<1>1. \A k \in 1 .. Len(order[s]) : order[s][k] \in Interpreters
  BY ElementOfSeq
<1>2. OrderTells(s)'
  BY DEF OrderTells
<1>3. \A k \in 0 .. Len(order[s]) : MadeBy(s, k)' = MadeBy(s, k)
  BY <1>1 DEF MadeBy
<1>4. Len(order[s]) \in 0 .. Len(order[s]) /\ \A k \in 1 .. Len(order[s]) : k - 1 \in 0 .. Len(order[s])
  BY LenProperties
<1>5. ASSUME ~tangled'[s]
      PROVE  disposition'[s] = MadeBy(s, Len(order[s]))'
  BY <1>3, <1>4, <1>5 DEF Chained
<1>6. ASSUME ~tangled'[s], NEW k \in 1 .. Len(order'[s])
      PROVE  previous'[order'[s][k]][s] = MadeBy(s, k - 1)'
  BY <1>1, <1>3, <1>4, <1>6 DEF Chained
<1>7. Chained(s)'
  BY <1>5, <1>6 DEF Chained
<1> QED
  BY <1>2, <1>7

\* The first time: the interpreter comes last, with what it found saved.
LEMMA FirstSigaction ==
  ASSUME TypeOK, Stacked, NEW s \in Signals, NEW interpreted \in BOOLEAN, Sigaction(s, interpreted),
         OrderTells(s), Chained(s), previous[Now.interpreter][s] = NotInstalled
  PROVE  OrderTells(s)' /\ Chained(s)' /\ order'[s] \in Seq(Interpreters) /\ previous'[Now.interpreter][s] \in Actions
<1>1. PICK e \in Interpreters : e = Now.interpreter
  BY InnermostActivity DEF Sigaction
<1>0. PICK n \in Nat : n = Len(order[s])
  BY LenProperties DEF TypeOK
<1>2. order[s] \in Seq(Interpreters) /\ disposition[s] \in Actions /\ \A k \in 1 .. n : order[s][k] \in Interpreters
  BY <1>0, ElementOfSeq DEF TypeOK
<1>3. /\ disposition'[s] = IF interpreted THEN "forward" ELSE "default"
      /\ previous' = [previous EXCEPT ![e][s] = disposition[s]]
      /\ handled' = [handled EXCEPT ![e] = IF interpreted THEN @ \cup {s} ELSE @ \ {s}]
      /\ order'[s] = Append(order[s], e)
      /\ tangled'[s] = tangled[s]
  BY <1>1 DEF Sigaction, TypeOK
<1>4. /\ order'[s] \in Seq(Interpreters) /\ Len(order'[s]) = n + 1 /\ order'[s][n + 1] = e
      /\ \A k \in 1 .. n : order'[s][k] = order[s][k]
  BY <1>0, <1>2, <1>3, AppendProperties
<1>5. /\ previous'[e][s] = disposition[s]
      /\ \A f \in Interpreters : f # e => previous'[f] = previous[f] /\ handled'[f] = handled[f]
      /\ s \in handled'[e] <=> interpreted
  BY <1>3 DEF TypeOK
<1>6. \A k \in 1 .. n : order[s][k] # e
  BY <1>0, <1>1 DEF OrderTells
<1>7. \A k \in 1 .. n + 1 : k = n + 1 \/ k \in 1 .. n
  OBVIOUS
<1>8. OrderTells(s)'
  <2>1. previous'[e][s] # NotInstalled /\ n + 1 \in 1 .. n + 1
    BY <1>2, <1>5 DEF Actions, NotInstalled
  <2>2. ASSUME NEW f \in Interpreters
        PROVE  previous'[f][s] # NotInstalled <=> \E k \in 1 .. n + 1 : order'[s][k] = f
    <3>1. CASE f = e
      BY <1>4, <2>1, <3>1
    <3>2. CASE f # e
      <4>1. previous'[f][s] # NotInstalled <=> \E k \in 1 .. n : order[s][k] = f
        BY <1>0, <1>5, <3>2 DEF OrderTells
      <4>2. \A k \in 1 .. n : k \in 1 .. n + 1
        BY <1>2
      <4> QED
        BY <1>4, <1>7, <3>2, <4>1, <4>2
    <3> QED
      BY <3>1, <3>2
  <2>3. ASSUME NEW j \in 1 .. n + 1, NEW k \in 1 .. n + 1, order'[s][j] = order'[s][k]
        PROVE  j = k
    <3>1. \A i, m \in 1 .. n : order[s][i] = order[s][m] => i = m
      BY <1>0 DEF OrderTells
    <3> QED
      BY <1>4, <1>6, <1>7, <2>3, <3>1
  <2> QED
    BY <1>4, <2>2, <2>3 DEF OrderTells
<1>9. Chained(s)'
  <2> SUFFICES ASSUME ~tangled'[s]
               PROVE  /\ disposition'[s] = MadeBy(s, n + 1)'
                      /\ \A k \in 1 .. Len(order'[s]) : previous'[order'[s][k]][s] = MadeBy(s, k - 1)'
    BY <1>4 DEF Chained
  <2>1. \A k \in 0 .. n : MadeBy(s, k)' = MadeBy(s, k)
    BY <1>2, <1>4, <1>5, <1>6 DEF MadeBy
  <2>2. MadeBy(s, n + 1)' = disposition'[s]
    BY <1>2, <1>3, <1>4, <1>5 DEF MadeBy
  <2>3. disposition[s] = MadeBy(s, n) /\ \A k \in 1 .. n : previous[order[s][k]][s] = MadeBy(s, k - 1)
    BY <1>0, <1>3 DEF Chained
  <2>4. ASSUME NEW k \in 1 .. n
        PROVE  previous'[order'[s][k]][s] = MadeBy(s, k - 1)'
    <3>1. k - 1 \in 0 .. n /\ order'[s][k] = order[s][k] /\ previous'[order[s][k]] = previous[order[s][k]]
      BY <1>2, <1>4, <1>5, <1>6
    <3> QED
      BY <2>1, <2>3, <3>1
  <2>5. previous'[order'[s][n + 1]][s] = MadeBy(s, (n + 1) - 1)'
    <3>1. n \in 0 .. n /\ (n + 1) - 1 = n
      BY <1>2
    <3> QED
      BY <1>4, <1>5, <2>1, <2>3, <3>1
  <2> QED
    BY <1>4, <1>7, <2>2, <2>4, <2>5
<1> QED
  BY <1>1, <1>2, <1>4, <1>5, <1>8, <1>9

\* Again: the last in the order sets what it has made of the signal, anyone else tangles it.
LEMMA LaterSigaction ==
  ASSUME TypeOK, Stacked, NEW s \in Signals, NEW interpreted \in BOOLEAN, Sigaction(s, interpreted),
         OrderTells(s), Chained(s), previous[Now.interpreter][s] # NotInstalled
  PROVE  OrderTells(s)' /\ Chained(s)' /\ UNCHANGED <<order, previous>>
<1>1. PICK e \in Interpreters : e = Now.interpreter
  BY InnermostActivity DEF Sigaction
<1>2. PICK n \in Nat : n = Len(order[s])
  BY LenProperties DEF TypeOK
<1>3. /\ disposition'[s] = IF interpreted THEN "forward" ELSE "default"
      /\ previous' = previous /\ order' = order
      /\ handled' = [handled EXCEPT ![e] = IF interpreted THEN @ \cup {s} ELSE @ \ {s}]
      /\ tangled'[s] = (tangled[s] \/ ~LastInstaller(s))
  BY <1>1 DEF Sigaction, TypeOK
<1>4. /\ \A f \in Interpreters : f # e => handled'[f] = handled[f]
      /\ s \in handled'[e] <=> interpreted
  BY <1>3 DEF TypeOK
<1>5. OrderTells(s)'
  BY <1>3 DEF OrderTells
<1>6. Chained(s)'
  <2> SUFFICES ASSUME ~tangled'[s]
               PROVE  /\ disposition'[s] = MadeBy(s, n)'
                      /\ \A k \in 1 .. n : previous[order[s][k]][s] = MadeBy(s, k - 1)'
    BY <1>2, <1>3 DEF Chained
  <2>1. ~tangled[s] /\ order[s] # <<>> /\ order[s][n] = e
    BY <1>1, <1>2, <1>3 DEF LastInstaller, Last
  <2>2. n > 0
    BY <1>2, <2>1, EmptySeq DEF TypeOK
  <2>3. ASSUME NEW k \in 1 .. n
        PROVE  previous[order[s][k]][s] = MadeBy(s, k - 1)'
    <3>1. previous[order[s][k]][s] = MadeBy(s, k - 1)
      BY <1>2, <2>1 DEF Chained
    <3>2. CASE k = 1
      BY <3>1, <3>2 DEF MadeBy
    <3>3. CASE k > 1
      <4>1. k - 1 \in 1 .. n /\ n \in 1 .. n /\ k - 1 # n
        BY <2>2, <3>3
      <4>2. order[s][k - 1] \in Interpreters /\ order[s][k - 1] # e
        BY <1>2, <2>1, <4>1, ElementOfSeq DEF OrderTells, TypeOK
      <4>3. handled'[order[s][k - 1]] = handled[order[s][k - 1]]
        BY <1>4, <4>2
      <4> QED
        BY <1>3, <3>1, <4>1, <4>3 DEF MadeBy
    <3> QED
      BY <3>2, <3>3
  <2>4. disposition'[s] = MadeBy(s, n)'
    BY <1>3, <1>4, <2>1, <2>2 DEF MadeBy
  <2> QED
    BY <2>3, <2>4
<1> QED
  BY <1>3, <1>5, <1>6

\* sigaction saves what it replaces, once, and starts to settle.
LEMMA SigactionIndInv ==
  ASSUME IndInv, NEW s \in Signals, NEW interpreted \in BOOLEAN, Sigaction(s, interpreted)
  PROVE  IndInv'
<1>1. TypeOK /\ FlagInv /\ Stacked /\ DispositionInv
  BY DEF IndInv, FlagInv
<1>2. PICK e \in Interpreters : e = Now.interpreter
  BY <1>1, InnermostActivity DEF Sigaction
<1>3. UNCHANGED <<activity, arrived, pending, late>>
  BY DEF Sigaction
<1>4. /\ disposition' = [disposition EXCEPT ![s] = IF interpreted THEN "forward" ELSE "default"]
      /\ previous' = IF previous[e][s] # NotInstalled THEN previous ELSE [previous EXCEPT ![e][s] = disposition[s]]
      /\ handled' = [handled EXCEPT ![e] = IF interpreted THEN @ \cup {s} ELSE @ \ {s}]
      /\ order' = IF previous[e][s] # NotInstalled THEN order ELSE [order EXCEPT ![s] = Append(@, e)]
      /\ tangled' = [tangled EXCEPT ![s] = @ \/ (previous[e][s] # NotInstalled /\ ~LastInstaller(s))]
  BY <1>2 DEF Sigaction
<1>5. OrderTells(s) /\ Chained(s)
  BY <1>1 DEF DispositionInv
<1>6. OrderTells(s)' /\ Chained(s)' /\ order'[s] \in Seq(Interpreters)
  BY <1>1, <1>2, <1>5, FirstSigaction, LaterSigaction DEF TypeOK
<1>7. ASSUME NEW r \in Signals, r # s
      PROVE  OrderTells(r)' /\ Chained(r)'
  <2>1. order'[r] = order[r] /\ tangled'[r] = tangled[r] /\ disposition'[r] = disposition[r]
    BY <1>1, <1>4, <1>7 DEF TypeOK
  <2>2. \A f \in Interpreters : previous'[f][r] = previous[f][r] /\ (r \in handled'[f] <=> r \in handled[f])
    BY <1>1, <1>4, <1>7 DEF TypeOK
  <2>3. OrderTells(r) /\ Chained(r) /\ order[r] \in Seq(Interpreters)
    BY <1>1 DEF DispositionInv, TypeOK
  <2> QED
    BY <2>1, <2>2, <2>3, OtherSignal
<1>8. TypeOK'
  <2>1. disposition' \in [Signals -> Actions] /\ handled' \in [Interpreters -> SUBSET Signals]
    BY <1>1, <1>4 DEF TypeOK, Actions
  <2>2. previous' \in [Interpreters -> [Signals -> Actions \cup {NotInstalled}]]
    BY <1>1, <1>4 DEF TypeOK
  <2>3. order' \in [Signals -> Seq(Interpreters)]
    <3>1. Append(order[s], e) \in Seq(Interpreters)
      BY <1>1, AppendProperties DEF TypeOK
    <3> QED
      BY <1>1, <1>4, <3>1 DEF TypeOK
  <2>4. tangled' \in [Signals -> BOOLEAN]
    BY <1>1, <1>4 DEF TypeOK
  <2> QED
    BY <1>1, <1>3, <2>1, <2>2, <2>3, <2>4 DEF TypeOK
<1>9. FlagInv'
  BY <1>1, <1>3 DEF FlagInv, Stacked, FlagHasCause, OnlyLateArrivalsAreMissed, SettlingAgrees
<1> QED
  BY <1>6, <1>7, <1>8, <1>9 DEF IndInv, DispositionInv

\* The last in the order leaves what the one before it had made of the signal; anyone else
\* tangles it.
LEMMA RestoredSignal ==
  ASSUME TypeOK, NEW s \in Signals, NEW e \in Interpreters, OrderTells(s), Chained(s), previous[e][s] # NotInstalled,
         e = Now.interpreter,
         disposition'[s] = previous[e][s],
         previous' = [previous EXCEPT ![e][s] = NotInstalled],
         handled' = [handled EXCEPT ![e] = @ \ {s}],
         order'[s] = Without(order[s], e),
         tangled'[s] = (tangled[s] \/ ~LastInstaller(s))
  PROVE  OrderTells(s)' /\ Chained(s)' /\ order'[s] \in Seq(Interpreters)
<1>1. PICK n \in Nat : n = Len(order[s])
  BY LenProperties DEF TypeOK
<1>2. PICK i \in 1 .. n : order[s][i] = e /\ order'[s] = RemoveAt(order[s], i)
  <2>1. \E i \in 1 .. n : order[s][i] = e
    BY <1>1 DEF OrderTells
  <2> QED
    BY <1>1, <2>1 DEF Without
<1>3. /\ order'[s] \in Seq(Interpreters) /\ Len(order'[s]) = n - 1
      /\ \A k \in 1 .. n - 1 : order'[s][k] = IF k < i THEN order[s][k] ELSE order[s][k + 1]
  <2>1. PICK before \in Seq(Interpreters) : before = order[s] /\ Len(before) = n
    BY <1>1 DEF TypeOK
  <2>2. /\ RemoveAt(before, i) \in Seq(Interpreters) /\ Len(RemoveAt(before, i)) = n - 1
        /\ \A k \in 1 .. n - 1 : RemoveAt(before, i)[k] = IF k < i THEN before[k] ELSE before[k + 1]
    BY <2>1, RemoveAtProperties
  <2> QED
    BY <1>2, <2>1, <2>2
<1>4. /\ previous'[e][s] = NotInstalled
      /\ \A f \in Interpreters : f # e => previous'[f] = previous[f] /\ handled'[f] = handled[f]
  BY DEF TypeOK
<1>5. /\ \A k \in 1 .. n : order[s][k] \in Interpreters /\ (k # i => order[s][k] # e)
      /\ \A j, k \in 1 .. n : order[s][j] = order[s][k] => j = k
  BY <1>1, <1>2, ElementOfSeq DEF OrderTells, TypeOK
<1>6. OrderTells(s)'
  <2>1. ASSUME NEW k \in 1 .. n - 1
        PROVE  order'[s][k] # e /\ (\E j \in 1 .. n : order[s][j] = order'[s][k])
    <3>1. k \in 1 .. n /\ k + 1 \in 1 .. n /\ (k < i => k # i) /\ (~(k < i) => k + 1 # i)
      OBVIOUS
    <3> QED
      BY <1>3, <1>5, <3>1
  <2>2. ASSUME NEW f \in Interpreters
        PROVE  previous'[f][s] # NotInstalled <=> \E k \in 1 .. n - 1 : order'[s][k] = f
    <3>1. CASE f = e
      BY <1>4, <2>1, <3>1
    <3>2. CASE f # e
      <4>1. previous'[f][s] # NotInstalled <=> \E k \in 1 .. n : order[s][k] = f
        BY <1>1, <1>4, <3>2 DEF OrderTells
      <4>2. ASSUME NEW k \in 1 .. n, order[s][k] = f
            PROVE  \E j \in 1 .. n - 1 : order'[s][j] = f
        <5>1. k # i
          BY <1>2, <3>2, <4>2
        <5>2. CASE k < i
          <6>1. k \in 1 .. n - 1
            BY <5>2
          <6> QED
            BY <1>3, <4>2, <5>2, <6>1
        <5>3. CASE k > i
          <6>1. k - 1 \in 1 .. n - 1 /\ ~(k - 1 < i) /\ (k - 1) + 1 = k
            BY <5>3
          <6> QED
            BY <1>3, <4>2, <6>1
        <5> QED
          BY <5>1, <5>2, <5>3
      <4> QED
        BY <2>1, <4>1, <4>2
    <3> QED
      BY <3>1, <3>2
  <2>3. ASSUME NEW j \in 1 .. n - 1, NEW k \in 1 .. n - 1, order'[s][j] = order'[s][k]
        PROVE  j = k
    <3> DEFINE at(m) == IF m < i THEN m ELSE m + 1
    <3>1. at(j) \in 1 .. n /\ at(k) \in 1 .. n /\ (at(j) = at(k) => j = k)
      OBVIOUS
    <3>2. order'[s][j] = order[s][at(j)] /\ order'[s][k] = order[s][at(k)]
      BY <1>3
    <3> HIDE DEF at
    <3> QED
      BY <1>5, <2>3, <3>1, <3>2
  <2> QED
    BY <1>3, <2>2, <2>3 DEF OrderTells
<1>7. Chained(s)'
  <2> SUFFICES ASSUME ~tangled'[s]
               PROVE  /\ disposition'[s] = MadeBy(s, n - 1)'
                      /\ \A k \in 1 .. n - 1 : previous'[order'[s][k]][s] = MadeBy(s, k - 1)'
    BY <1>3 DEF Chained
  <2>1. ~tangled[s] /\ order[s][n] = e /\ n \in 1 .. n
    <3>1. ~tangled[s] /\ LastInstaller(s)
      OBVIOUS
    <3>2. order[s][n] = e
      BY <1>1, <3>1 DEF LastInstaller, Last
    <3> QED
      BY <3>1, <3>2
  <2>2. i = n
    BY <1>2, <1>5, <2>1
  <2>3. \A k \in 1 .. n - 1 : order'[s][k] = order[s][k] /\ order[s][k] \in Interpreters /\ order[s][k] # e
    <3>1. \A k \in 1 .. n - 1 : k \in 1 .. n /\ k < i /\ k # i
      BY <2>2
    <3> QED
      BY <1>3, <1>5, <3>1
  <2>4. \A k \in 0 .. n - 1 : MadeBy(s, k)' = MadeBy(s, k)
    BY <1>4, <2>3 DEF MadeBy
  <2>5. \A k \in 1 .. n : previous[order[s][k]][s] = MadeBy(s, k - 1)
    BY <1>1, <2>1 DEF Chained
  <2>6. disposition'[s] = MadeBy(s, n - 1)'
    <3>1. n - 1 \in 0 .. n - 1
      BY <2>1
    <3> QED
      BY <2>1, <2>4, <2>5, <3>1
  <2>7. ASSUME NEW k \in 1 .. n - 1
        PROVE  previous'[order'[s][k]][s] = MadeBy(s, k - 1)'
    <3>1. k \in 1 .. n /\ k - 1 \in 0 .. n - 1
      OBVIOUS
    <3> QED
      BY <1>4, <2>3, <2>4, <2>5, <3>1
  <2> QED
    BY <2>6, <2>7
<1> QED
  BY <1>3, <1>6, <1>7

\* A round of bridge_cleanup takes the interpreter out of the chain of saved actions.
LEMMA RestoreIndInv == ASSUME IndInv, Restore PROVE IndInv'
<1>1. TypeOK /\ FlagInv /\ Stacked /\ DispositionInv
  BY DEF IndInv, FlagInv
<1>2. Now.at = "restore" /\ Now.slot <= SignalSlots /\ UNCHANGED <<arrived, pending>>
  BY DEF Restore
<1>3. PICK e \in Interpreters, s \in Signals : e = Now.interpreter /\ s = Now.slot /\ s + 1 \in Slots
  BY <1>1, <1>2, InnermostActivity, SignalsAssumption DEF Slots, Signals
<1>4. ASSUME NEW a \in Activity, Become(a), a.at \in {"restore", "forget"}, late' = late
      PROVE  activity' \in Seq(Activity) /\ FlagInv'
  <2>1. a.at # "run" /\ SettlingAgrees(a)'
    BY <1>4 DEF SettlingAgrees
  <2> QED
    BY <1>1, <1>2, <1>4, <2>1, BecomeKeepsFlag
<1>5. CASE previous[e][s] = NotInstalled
  <2>1. Become([Now EXCEPT !.slot = s + 1]) /\ UNCHANGED <<disposition, handled, previous, order, tangled, late>>
    BY <1>3, <1>5 DEF Restore, histories
  <2>2. activity' \in Seq(Activity) /\ FlagInv'
    BY <1>1, <1>2, <1>3, <1>4, <2>1, NextActivity
  <2>3. TypeOK'
    BY <1>1, <1>2, <2>1, <2>2 DEF TypeOK
  <2> QED
    BY <1>1, <2>1, <2>2, <2>3, DispositionsKept DEF IndInv
<1>6. CASE previous[e][s] # NotInstalled
  <2>1. /\ Become([Now EXCEPT !.at = "forget"])
        /\ disposition' = [disposition EXCEPT ![s] = previous[e][s]]
        /\ previous' = [previous EXCEPT ![e][s] = NotInstalled]
        /\ handled' = [handled EXCEPT ![e] = @ \ {s}]
        /\ order' = [order EXCEPT ![s] = Without(@, e)]
        /\ tangled' = [tangled EXCEPT ![s] = @ \/ ~LastInstaller(s)]
        /\ late' = late
    BY <1>3, <1>6 DEF Restore
  <2>2. activity' \in Seq(Activity) /\ FlagInv'
    BY <1>1, <1>2, <1>3, <1>4, <2>1, NextActivity
  <2>3. OrderTells(s) /\ Chained(s)
    BY <1>1 DEF DispositionInv
  <2>4. /\ disposition'[s] = previous[e][s] /\ order'[s] = Without(order[s], e)
        /\ tangled'[s] = (tangled[s] \/ ~LastInstaller(s))
    BY <1>1, <2>1 DEF TypeOK
  <2>5. OrderTells(s)' /\ Chained(s)' /\ order'[s] \in Seq(Interpreters)
    BY <1>1, <1>3, <1>6, <2>1, <2>3, <2>4, RestoredSignal
  <2>6. ASSUME NEW r \in Signals, r # s
        PROVE  OrderTells(r)' /\ Chained(r)'
    <3>1. order'[r] = order[r] /\ tangled'[r] = tangled[r] /\ disposition'[r] = disposition[r]
      BY <1>1, <2>1, <2>6 DEF TypeOK
    <3>2. \A f \in Interpreters : previous'[f][r] = previous[f][r] /\ (r \in handled'[f] <=> r \in handled[f])
      BY <1>1, <2>1, <2>6 DEF TypeOK
    <3>3. OrderTells(r) /\ Chained(r) /\ order[r] \in Seq(Interpreters)
      BY <1>1 DEF DispositionInv, TypeOK
    <3> QED
      BY <3>1, <3>2, <3>3, OtherSignal
  <2>7. TypeOK'
    <3>1. previous[e][s] \in Actions
      BY <1>1, <1>6 DEF TypeOK
    <3>2. disposition' \in [Signals -> Actions] /\ handled' \in [Interpreters -> SUBSET Signals]
      BY <1>1, <2>1, <3>1 DEF TypeOK
    <3>3. previous' \in [Interpreters -> [Signals -> Actions \cup {NotInstalled}]]
      BY <1>1, <2>1 DEF TypeOK
    <3>4. order' \in [Signals -> Seq(Interpreters)]
      BY <1>1, <2>1, <2>4, <2>5 DEF TypeOK
    <3>5. tangled' \in [Signals -> BOOLEAN]
      BY <1>1, <2>1 DEF TypeOK
    <3> QED
      BY <1>1, <1>2, <2>1, <2>2, <3>2, <3>3, <3>4, <3>5 DEF TypeOK
  <2> QED
    BY <2>2, <2>5, <2>6, <2>7 DEF IndInv, DispositionInv
<1> QED
  BY <1>5, <1>6

\* Every step keeps the invariant.
LEMMA NextIndInv == IndInv /\ [Next]_vars => IndInv'
<1> SUFFICES ASSUME IndInv, [Next]_vars
             PROVE  IndInv'
  OBVIOUS
<1>1. CASE UNCHANGED vars
  BY <1>1 DEF vars, IndInv, TypeOK, FlagInv, Stacked, FlagHasCause, OnlyLateArrivalsAreMissed, SettlingAgrees,
              DispositionInv, OrderTells, Chained, MadeBy
<1>2. CASE Native
  <2>1. CASE SettleWrite
    BY <2>1, SettleWriteIndInv
  <2>2. CASE SettleRead
    BY <2>2, SettleReadIndInv
  <2>3. CASE Restore
    BY <2>3, RestoreIndInv
  <2>4. CASE Deliver /\ DeliverTo(Now.slot)
    BY <2>4, CallHandlerIndInv
  <2>5. CASE NoFrame \/ DeliverEnd \/ Forget \/ RestoreEnd \/ (Deliver /\ ~DeliverTo(Now.slot))
    BY <2>5, QuietRoundIndInv
  <2> QED
    BY <1>2, <2>1, <2>2, <2>3, <2>4, <2>5 DEF Native
<1>3. CASE HandlerReturn \/ ChildReturn
  BY <1>3, ReturnIndInv
<1>4. CASE HandlerFails
  BY <1>4, HandlerFailsIndInv
<1>5. ASSUME NEW s \in Signals, Arrive(s)
      PROVE  IndInv'
  BY <1>5, ArriveIndInv
<1>6. ASSUME NEW s \in Signals, NEW interpreted \in BOOLEAN, Sigaction(s, interpreted)
      PROVE  IndInv'
  BY <1>6, SigactionIndInv
<1>7. CASE Starts
  BY <1>7, StartIndInv
<1> QED
  BY <1>1, <1>2, <1>3, <1>4, <1>5, <1>6, <1>7 DEF Next, Starts

-----------------------------------------------------------------------------
(* Theorems. *)

\* In every reachable state the thread's activities nest as the code calls them, the flag and
\* the records agree with what each loop has still to do, and the saved actions form a chain.
THEOREM Invariance == Spec => []IndInv
BY InitIndInv, NextIndInv, PTL DEF Spec

\* Whenever only programs are in progress, the flag that interrupts children and reads of the
\* terminal is set for a signal that is recorded, however signals interleave with the loops.
THEOREM InterruptsHaveASignal == Spec => []NoSpuriousInterrupt
<1>1. IndInv => NoSpuriousInterrupt
  BY DEF IndInv, FlagInv, FlagHasCause, NoSpuriousInterrupt, InProgram
<1> QED
  BY Invariance, <1>1, PTL

\* A recorded signal that the flag does not tell of is one that came behind the back of the
\* loop that settles the flag; there is no other way to miss one.
THEOREM OnlyTheWindowMisses == Spec => []OnlyLateArrivalsAreMissed
<1>1. IndInv => OnlyLateArrivalsAreMissed
  BY DEF IndInv, FlagInv
<1> QED
  BY Invariance, <1>1, PTL

\* While the interpreters that share a signal let go of it in the reverse of the order in which
\* they took it over, sigaction and cleanup leave it to the last of them, and then to the host.
THEOREM ActionsComeBack == Spec => []NestedRestore
<1>1. IndInv => NestedRestore
  <2> SUFFICES ASSUME IndInv, NEW s \in Signals, ~tangled[s]
               PROVE  disposition[s] = IF order[s] = <<>> THEN "host"
                                       ELSE IF s \in handled[Last(order[s])] THEN "forward" ELSE "default"
    BY DEF NestedRestore
  <2>1. disposition[s] = MadeBy(s, Len(order[s])) /\ order[s] \in Seq(Interpreters)
    BY DEF IndInv, DispositionInv, Chained, TypeOK
  <2>2. order[s] = <<>> <=> Len(order[s]) = 0
    BY <2>1, EmptySeq
  <2> QED
    BY <2>1, <2>2 DEF MadeBy, Last
<1> QED
  BY Invariance, <1>1, PTL
=============================================================================
