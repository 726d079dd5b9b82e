------------------------------ MODULE Signals ------------------------------
(***************************************************************************)
(* Signals in interpreted programs (src/src/bridge.c).  sigaction installs *)
(* a native forwarder that records the signal; the interpreted handler     *)
(* runs when the interpreter that set it next polls or returns from a      *)
(* builtin.  The record and the flag that says something is recorded are   *)
(* shared by every interpreter of the process, and a signal may arrive     *)
(* between any two reads and writes of the code that keeps them together.  *)
(*                                                                         *)
(* Abstractions.  The host runs one program, which runs its children one   *)
(* at a time; children create no further children.  One thread executes    *)
(* everything, so the forwarder runs to its end before anything continues. *)
(* A signal whose disposition is the default one ends the process and is   *)
(* not modelled.                                                           *)
(***************************************************************************)
EXTENDS Integers, Sequences, SequencesExt, FiniteSets

CONSTANTS
  Program,        \* the interpreter the host runs
  Children,       \* the interpreters it creates
  SignalSlots,    \* the highest signal number
  Handles,        \* the signals each interpreter's program calls sigaction for
  MaxActivities   \* how deep handlers and runs nest, in place of the frame limit

ASSUME SignalsAssumption ==
  /\ Program \notin Children
  /\ SignalSlots \in Nat \ {0} /\ MaxActivities \in Nat \ {0}
  /\ Handles \in [Children \cup {Program} -> SUBSET (1 .. SignalSlots)]

Interpreters == Children \cup {Program}
Signals      == 1 .. SignalSlots

VARIABLES
  activity,     \* what the thread is in the middle of, innermost last
  disposition,  \* what the process does with each signal
  arrived,      \* signal_arrived
  pending,      \* bridge_pending
  handled,      \* the signals each interpreter has a handler for
  previous,     \* previous_actions of the signals each interpreter has installed
  order,        \* history: who installed each signal and has not been cleared, in order
  tangled,      \* history: whether someone but the last installer changed it
  late          \* history: whether a signal arrived behind a reader's back

vars == <<activity, disposition, arrived, pending, handled, previous, order, tangled, late>>
histories == <<order, tangled, late>>

NotInstalled == "none"

Running(e) == [at |-> "run", interpreter |-> e]
Now        == Last(activity)
Become(a)  == activity' = [activity EXCEPT ![Len(activity)] = a]
Push(a)    == Len(activity) < MaxActivities /\ activity' = Append(activity, a)

Init ==
  /\ activity = <<Running(Program)>>
  /\ disposition = [s \in Signals |-> "host"]
  /\ arrived = [s \in Signals |-> FALSE]
  /\ pending = FALSE
  /\ handled = [e \in Interpreters |-> {}]
  /\ previous = [e \in Interpreters |-> [s \in Signals |-> NotInstalled]]
  /\ order = [s \in Signals |-> <<>>]
  /\ tangled = [s \in Signals |-> FALSE]
  /\ late = FALSE

-----------------------------------------------------------------------------
(* The forwarder. *)

\* Some code has read the record of s and will write the flag, or is about to clear the
\* record, without looking again.
BehindReader(s) ==
  \E i \in 1 .. Len(activity) :
    \/ activity[i].at = "settle" /\ activity[i].slot > s /\ ~activity[i].any
    \/ activity[i].at = "forget" /\ activity[i].slot = s

\* forward, at any moment.
Arrive(s) ==
  /\ disposition[s] = "forward"
  /\ arrived' = [arrived EXCEPT ![s] = TRUE]
  /\ pending' = TRUE
  /\ late' = (late \/ BehindReader(s))
  /\ UNCHANGED <<activity, disposition, handled, previous, order, tangled>>

-----------------------------------------------------------------------------
(* bridge_deliver and settle_pending. *)

\* A poll, or the return of a builtin, with something pending.
Poll(e) ==
  /\ Now = Running(e) /\ pending
  /\ Push([at |-> "deliver", interpreter |-> e, slot |-> 1])
  /\ UNCHANGED <<disposition, arrived, pending, handled, previous, histories>>

Past(slot) == [Now EXCEPT !.slot = slot]

DeliverTo(s) == arrived[s] /\ s \in handled[Now.interpreter]

\* Mutant: one handler is run at a poll.
Deliver_OneAtATime ==
  /\ Now.at = "deliver" /\ Now.slot <= SignalSlots
  /\ LET s == Now.slot
     IN  \/ /\ DeliverTo(s) /\ Len(activity) < MaxActivities
            /\ arrived' = [arrived EXCEPT ![s] = FALSE]
            /\ activity' = Append([activity EXCEPT ![Len(activity)] = Past(SignalSlots + 1)], Running(Now.interpreter))
         \/ /\ ~DeliverTo(s) /\ Become(Past(s + 1)) /\ UNCHANGED arrived
  /\ UNCHANGED <<disposition, pending, handled, previous, histories>>

\* One round of bridge_deliver's loop: run this interpreter's handler, or pass on.
Deliver ==
  /\ Now.at = "deliver" /\ Now.slot <= SignalSlots
  /\ LET s == Now.slot
     IN  \/ /\ DeliverTo(s) /\ Len(activity) < MaxActivities
            /\ arrived' = [arrived EXCEPT ![s] = FALSE]
            /\ activity' = Append([activity EXCEPT ![Len(activity)] = Past(s + 1)], Running(Now.interpreter))
         \/ /\ ~DeliverTo(s) /\ Become(Past(s + 1)) /\ UNCHANGED arrived
  /\ UNCHANGED <<disposition, pending, handled, previous, histories>>

\* With no frame left the handler fails before it starts, and a failure ends the loop.
NoFrame ==
  /\ Now.at = "deliver" /\ Now.slot <= SignalSlots
  /\ DeliverTo(Now.slot) /\ Len(activity) = MaxActivities
  /\ arrived' = [arrived EXCEPT ![Now.slot] = FALSE]
  /\ Become(Past(SignalSlots + 1))
  /\ UNCHANGED <<disposition, pending, handled, previous, histories>>

InHandler == Len(activity) > 1 /\ Now.at = "run" /\ activity[Len(activity) - 1].at = "deliver"

\* The return of a handler to the loop that called it.
HandlerReturn ==
  /\ InHandler
  /\ activity' = Front(activity)
  /\ UNCHANGED <<disposition, arrived, pending, handled, previous, histories>>

\* A handler that fails: its interpreter has failed, and the loop ends.
HandlerFails ==
  /\ InHandler
  /\ activity' = [Front(activity) EXCEPT ![Len(activity) - 1].slot = SignalSlots + 1]
  /\ UNCHANGED <<disposition, arrived, pending, handled, previous, histories>>

DeliverEnd ==
  /\ Now.at = "deliver" /\ Now.slot > SignalSlots
  /\ Become([at |-> "settle", slot |-> 1, any |-> FALSE])
  /\ UNCHANGED <<disposition, arrived, pending, handled, previous, histories>>

\* Mutant: the last record read decides.
SettleRead_LastOnly ==
  /\ Now.at = "settle" /\ Now.slot <= SignalSlots
  /\ Become([Now EXCEPT !.slot = @ + 1, !.any = arrived[Now.slot]])
  /\ UNCHANGED <<disposition, arrived, pending, handled, previous, histories>>

SettleRead ==
  /\ Now.at = "settle" /\ Now.slot <= SignalSlots
  /\ Become([Now EXCEPT !.slot = @ + 1, !.any = @ \/ arrived[Now.slot]])
  /\ UNCHANGED <<disposition, arrived, pending, handled, previous, histories>>

SettleWrite ==
  /\ Now.at = "settle" /\ Now.slot > SignalSlots
  /\ pending' = Now.any
  /\ activity' = Front(activity)
  /\ UNCHANGED <<disposition, arrived, handled, previous, histories>>

-----------------------------------------------------------------------------
(* bridge_sigaction and bridge_cleanup. *)

LastInstaller(s) == order[s] # <<>> /\ Last(order[s]) = Now.interpreter

\* Mutant: every call saves what it replaces.
Sigaction_SavesAgain(s, interpreted) ==
  /\ Now.at = "run" /\ s \in Handles[Now.interpreter]
  /\ LET e == Now.interpreter
     IN  /\ disposition' = [disposition EXCEPT ![s] = IF interpreted THEN "forward" ELSE "default"]
         /\ previous' = [previous EXCEPT ![e][s] = disposition[s]]
         /\ handled' = [handled EXCEPT ![e] = IF interpreted THEN @ \cup {s} ELSE @ \ {s}]
         /\ order' = IF previous[e][s] # NotInstalled THEN order ELSE [order EXCEPT ![s] = Append(@, e)]
         /\ tangled' = [tangled EXCEPT ![s] = @ \/ (previous[e][s] # NotInstalled /\ ~LastInstaller(s))]
  /\ UNCHANGED <<activity, arrived, pending, late>>

\* An interpreted handler, or anything else, which the code takes for the default action.
Sigaction(s, interpreted) ==
  /\ Now.at = "run" /\ s \in Handles[Now.interpreter]
  /\ LET e == Now.interpreter
     IN  /\ disposition' = [disposition EXCEPT ![s] = IF interpreted THEN "forward" ELSE "default"]
         /\ previous' = IF previous[e][s] # NotInstalled THEN previous
                        ELSE [previous EXCEPT ![e][s] = disposition[s]]
         /\ handled' = [handled EXCEPT ![e] = IF interpreted THEN @ \cup {s} ELSE @ \ {s}]
         /\ order' = IF previous[e][s] # NotInstalled THEN order ELSE [order EXCEPT ![s] = Append(@, e)]
         /\ tangled' = [tangled EXCEPT ![s] = @ \/ (previous[e][s] # NotInstalled /\ ~LastInstaller(s))]
  /\ UNCHANGED <<activity, arrived, pending, late>>

\* ct_clear or ct_destroy of an interpreter that is not running: bridge_cleanup starts.  It
\* discards the interpreter's children first, so the program's is the last.
Clear(e) ==
  /\ Now = Running(Program)
  /\ IF e = Program
     THEN Len(activity) = 1 /\ \A c \in Children : \A s \in Signals : previous[c][s] = NotInstalled
     ELSE \A i \in 1 .. Len(activity) : activity[i].at = "run" => activity[i].interpreter # e
  /\ Push([at |-> "restore", interpreter |-> e, slot |-> 1])
  /\ UNCHANGED <<disposition, arrived, pending, handled, previous, histories>>

\* The order in which a signal was taken over, when e has let go of it.
Without(installers, e) == RemoveAt(installers, CHOOSE i \in 1 .. Len(installers) : installers[i] = e)

\* One signal the cleared interpreter had installed: the action before it comes back.
Restore ==
  /\ Now.at = "restore" /\ Now.slot <= SignalSlots
  /\ LET s == Now.slot
         e == Now.interpreter
     IN  IF previous[e][s] = NotInstalled
         THEN Become([Now EXCEPT !.slot = s + 1]) /\ UNCHANGED <<disposition, handled, previous, histories>>
         ELSE /\ Become([Now EXCEPT !.at = "forget"])
              /\ disposition' = [disposition EXCEPT ![s] = previous[e][s]]
              /\ previous' = [previous EXCEPT ![e][s] = NotInstalled]
              /\ handled' = [handled EXCEPT ![e] = @ \ {s}]
              /\ order' = [order EXCEPT ![s] = Without(@, e)]
              /\ tangled' = [tangled EXCEPT ![s] = @ \/ ~LastInstaller(s)]
              /\ UNCHANGED late
  /\ UNCHANGED <<arrived, pending>>

\* signal_arrived[i] = 0 after the action is restored.
Forget ==
  /\ Now.at = "forget"
  /\ arrived' = [arrived EXCEPT ![Now.slot] = FALSE]
  /\ Become([at |-> "restore", interpreter |-> Now.interpreter, slot |-> Now.slot + 1])
  /\ UNCHANGED <<disposition, pending, handled, previous, histories>>

\* Mutant: the flag is not settled again.
RestoreEnd_Unsettled ==
  /\ Now.at = "restore" /\ Now.slot > SignalSlots
  /\ activity' = Front(activity)
  /\ UNCHANGED <<disposition, arrived, pending, handled, previous, histories>>

RestoreEnd ==
  /\ Now.at = "restore" /\ Now.slot > SignalSlots
  /\ Become([at |-> "settle", slot |-> 1, any |-> FALSE])
  /\ UNCHANGED <<disposition, arrived, pending, handled, previous, histories>>

-----------------------------------------------------------------------------
(* Running children. *)

RunChild(c) ==
  /\ Now = Running(Program)
  /\ \A i \in 1 .. Len(activity) : activity[i] # Running(c)
  /\ Push(Running(c))
  /\ UNCHANGED <<disposition, arrived, pending, handled, previous, histories>>

ChildReturn ==
  /\ Now.at = "run" /\ Now.interpreter # Program
  /\ activity[Len(activity) - 1].at = "run"
  /\ activity' = Front(activity)
  /\ UNCHANGED <<disposition, arrived, pending, handled, previous, histories>>

Native == Deliver \/ NoFrame \/ DeliverEnd \/ SettleRead \/ SettleWrite \/ Restore \/ Forget \/ RestoreEnd

Next ==
  \/ Native \/ HandlerReturn \/ HandlerFails \/ ChildReturn
  \/ \E s \in Signals : Arrive(s) \/ (\E interpreted \in BOOLEAN : Sigaction(s, interpreted))
  \/ \E e \in Interpreters : Poll(e) \/ Clear(e)
  \/ \E c \in Children : RunChild(c)

\* Native code runs to its end, a handler and a child's program return, and a program
\* polls again and again while it runs: at every 1024th step and every builtin's return.
Fairness ==
  /\ WF_vars(Native)
  /\ SF_vars(HandlerReturn) /\ SF_vars(ChildReturn)
  /\ \A e \in Interpreters : SF_vars(Poll(e))

Spec == Init /\ [][Next]_vars /\ Fairness

-----------------------------------------------------------------------------
(* Properties. *)

InProgram == \A i \in 1 .. Len(activity) : activity[i].at = "run"

\* The flag is never left set with nothing recorded: children and the terminal, which are
\* interrupted by it (bridge.c:459, 402-405), are interrupted only by a signal that came.
NoSpuriousInterrupt == InProgram /\ pending => \E s \in Signals : arrived[s]

\* As long as interpreters are cleared in the reverse of the order in which they took a
\* signal over, its disposition is the last one's, and the host's when none is left.
NestedRestore ==
  \A s \in Signals :
    ~tangled[s] =>
      disposition[s] = IF order[s] = <<>> THEN "host"
                       ELSE IF s \in handled[Last(order[s])] THEN "forward" ELSE "default"

\* A recorded signal and the flag part only where a signal arrives behind the back of the
\* code that reads the records to set the flag, or clears a record it did not see set.
OnlyLateArrivalsAreMissed == ~late => \A s \in Signals : arrived[s] => pending

\* A failure that ends the loop before the highest signal has had its turn.
HandlerStops ==
  \/ HandlerFails /\ activity[Len(activity) - 1].slot <= SignalSlots
  \/ NoFrame /\ Now.slot < SignalSlots

\* A signal that the program has a handler for is handled, unless some signal arrives late,
\* the program lets go of it, or failures keep ending the loop early.
SignalsAreHandled ==
  \A s \in Signals :
    [](~late) /\ <>[][~HandlerStops]_vars => (arrived[s] /\ s \in handled[Program] ~> ~arrived[s] \/ s \notin handled[Program])
=============================================================================
