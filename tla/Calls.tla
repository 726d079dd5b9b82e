-------------------------------- MODULE Calls --------------------------------
(***************************************************************************)
(* Calls of interpreted functions (src/src/interpreter.c): the arguments   *)
(* that are evaluated one by one while other calls run, the frames each    *)
(* function keeps for its private locals, the chain of argument frames     *)
(* that <stdarg.h> reads, callbacks from library functions, and failures   *)
(* that unwind all of them.                                                *)
(*                                                                         *)
(* A call takes one of two paths.  A simple function (optimizer.c) gets    *)
(* its frame first and each argument is put there as it arrives; any other *)
(* function gets its arguments in an array, and then its frame, its scope  *)
(* and its argument frame.  A va_list is two integers in program memory:   *)
(* the identity of an argument frame and a cursor.  It may live longer     *)
(* than the call that started it, and be copied and handed around.         *)
(*                                                                         *)
(* Every call has a number, and every argument the number of its call and  *)
(* its place.  truth[l] is what <stdarg.h> says of the list l: which call  *)
(* started it and how much of it was read.  The code has no such variable. *)
(***************************************************************************)
EXTENDS Integers, SequencesExt

CONSTANTS Fns,          \* interpreted functions
          Variadic,     \* declared with ...
          Simple,       \* marked by the optimizer
          Slotted,      \* with private locals, which live in a frame
          Library,      \* builtins that call back
          Parameters,   \* named parameters of each function
          Counts,       \* how many arguments a call may have
          Kinds,        \* what an argument may be
          Lists,        \* va_list objects, which outlive calls
          DepthLimit,   \* interpreter->depth_limit
          MaxCalls,     \* bound: calls in all
          MaxEntries    \* bound: entries, one after another

ASSUME CallsAssumption ==
    /\ Variadic \subseteq Fns /\ Simple \subseteq Fns \ Variadic /\ Slotted \subseteq Fns
    /\ Library \cap Fns = {}
    /\ Parameters \in [Fns \cup Library -> Nat]
    /\ Counts \subseteq Nat
    /\ Kinds \subseteq {"int", "negative", "unsigned", "large", "struct", "void"}
    /\ {DepthLimit, MaxCalls, MaxEntries} \subseteq Nat

VARIABLES
    stack,     \* calls in progress: evaluating arguments, or running
    spare,     \* function->spare_frames
    frames,    \* what each frame ever made holds
    frame,     \* interpreter->frame
    vaFrame,   \* interpreter->va_frame: a place of the stack
    address,   \* the next address of program memory
    lists,     \* the va_lists: identity and cursor
    depth,     \* interpreter->depth
    failed,    \* interpreter->failed
    calls,     \* calls so far
    entries,   \* entries so far
    truth      \* what each va_list stands for

vars == <<stack, spare, frames, frame, vaFrame, address, lists, depth, failed, calls, entries, truth>>

None     == 0
Consumed == -1                \* UINT64_MAX: what formatted output leaves
Unset    == [id |-> None, at |-> 0]
Nothing  == [of |-> None, at |-> 0]

Top     == Last(stack)
Running == stack # <<>> /\ Top.state = "running"
Waiting == stack # <<>> /\ Top.state = "arguments"
InProgress == {i \in DOMAIN stack : stack[i].state = "running"}

\* The call whose expressions are being evaluated: the innermost running one,
\* also while the arguments of a further call are.
Body       == Max(InProgress \cup {None})
Evaluating == /\ ~failed /\ InProgress # {} /\ stack[Body].fn \in Fns
              /\ ~(Waiting /\ Len(Top.args) = Top.count)

Init ==
    /\ stack = <<>> /\ spare = [f \in Fns |-> <<>>] /\ frames = <<>>
    /\ frame = None /\ vaFrame = None /\ address = 1
    /\ lists = [l \in Lists |-> Unset] /\ truth = [l \in Lists |-> Nothing]
    /\ depth = 0 /\ failed = FALSE /\ calls = 0 /\ entries = 1

-----------------------------------------------------------------------------
(* Frames. *)

\* The frame frame_take hands out, and what is left: the last one given back,
\* or a new one.
Taken(f) == IF spare[f] = <<>> THEN Len(frames) + 1 ELSE Head(spare[f])

\* A defect to test the properties with: the frame stays on the spare list.
TakenAndKept(f) == spare

\* The frames frame_take leaves spare, and all there are once it has made one.
TakenFrom(f)  == [spare EXCEPT ![f] = IF @ = <<>> THEN @ ELSE Tail(@)]
Made(f)       == IF spare[f] = <<>> THEN Append(frames, <<>>) ELSE frames

\* frame_give.
Given(f, n) == IF n = None THEN spare ELSE [spare EXCEPT ![f] = <<n>> \o @]

\* frame_declare and encode_scalar: argument i is stored in the frame.
Bound(n, i, value) == [frames EXCEPT ![n] = SubSeq(@, 1, i - 1) \o <<value>>]

-----------------------------------------------------------------------------
(* Starting a call and evaluating its arguments. *)

\* The call a run of run_call has begun.
Begun(f, n, fr) == [state |-> "arguments", fn |-> f, count |-> n, args |-> <<>>, number |-> calls + 1,
                    frame |-> fr, outer |-> None, identity |-> None, parent |-> None, local |-> <<>>, direct |-> FALSE]

\* Only a call with the right number of arguments to a simple function goes
\* straight into its frame.
Direct(f, n) == f \in Simple /\ n = Parameters[f]

\* run_call: the depth is charged, and a simple function's frame taken.  An
\* expression calls a function or the library; at the top it is a new entry.
StartCall(f, n) ==
    /\ ~failed /\ calls < MaxCalls /\ depth + 1 <= DepthLimit
    /\ InProgress # {} => Evaluating
    /\ Waiting => Len(Top.args) < Top.count
    /\ depth' = depth + 1 /\ calls' = calls + 1
    /\ IF Direct(f, n) /\ f \in Slotted
       THEN /\ stack' = Append(stack, [Begun(f, n, Taken(f)) EXCEPT !.direct = TRUE])
            /\ spare' = TakenFrom(f) /\ frames' = Made(f)
       ELSE /\ stack' = Append(stack, [Begun(f, n, None) EXCEPT !.direct = Direct(f, n)])
            /\ UNCHANGED <<spare, frames>>
    /\ UNCHANGED <<frame, vaFrame, address, lists, failed, entries, truth>>

\* The depth limit refuses a call before any of its arguments.
RefuseDepth ==
    /\ ~failed /\ depth + 1 > DepthLimit
    /\ failed' = TRUE
    /\ UNCHANGED <<stack, spare, frames, frame, vaFrame, address, lists, depth, calls, entries, truth>>

\* fetch and bind_simple, or operand: one more argument has a value.
Argument(kind) ==
    LET i     == Len(Top.args) + 1
        value == [of |-> Top.number, at |-> i, kind |-> kind]
    IN  /\ ~failed /\ Waiting /\ i <= Top.count
        /\ kind # "int" => Top.fn \in Variadic /\ i > Parameters[Top.fn]
        /\ stack' = [stack EXCEPT ![Len(stack)].args = Append(@, value)]
        /\ frames' = IF Top.frame = None THEN frames ELSE Bound(Top.frame, i, value)
        /\ UNCHANGED <<spare, frame, vaFrame, address, lists, depth, failed, calls, entries, truth>>

-----------------------------------------------------------------------------
(* Entering a function. *)

Ready == ~failed /\ Waiting /\ Len(Top.args) = Top.count

\* enter_simple: the frame becomes current and the body runs.
EnterSimple ==
    /\ Ready /\ Top.direct
    /\ stack' = [stack EXCEPT ![Len(stack)] = [@ EXCEPT !.state = "running", !.outer = frame, !.local = Top.args]]
    /\ frame' = IF Top.frame # None THEN Top.frame ELSE frame
    /\ UNCHANGED <<spare, frames, vaFrame, address, lists, depth, failed, calls, entries, truth>>

\* A library function runs once its arguments are known.
EnterLibrary ==
    /\ Ready /\ Top.fn \in Library
    /\ stack' = [stack EXCEPT ![Len(stack)].state = "running"]
    /\ UNCHANGED <<spare, frames, frame, vaFrame, address, lists, depth, failed, calls, entries, truth>>

\* A defect to test the properties with: the depth as the identity.
IdentityByDepth(f) == IF f \in Variadic THEN depth ELSE None

\* The identity of an argument frame: the address of an object that lives in
\* the call's scope, so that no two calls ever share one.
Identity(f) == IF f \in Variadic THEN address ELSE None

\* The arguments behind the named ones, which va_arg reads.
Unnamed(call) == SubSeq(call.args, Parameters[call.fn] + 1, call.count)

\* collect_variadic refuses a void expression, after the frame is in place.
Collects(call) == call.fn \in Variadic => \A i \in 1..Len(Unnamed(call)) : Unnamed(call)[i].kind # "void"

\* The parameters that are private are stored in the frame, in order.
PrivateArgs(call) == IF call.fn \in Slotted THEN SubSeq(call.args, 1, Parameters[call.fn]) ELSE <<>>

\* What invoke makes of a call whose arguments are known.
Entered(call) ==
    [call EXCEPT !.state = "running", !.outer = frame, !.parent = vaFrame, !.identity = Identity(call.fn),
                 !.frame = IF call.fn \in Slotted THEN Taken(call.fn) ELSE None,
                 !.local = PrivateArgs(call)]

\* invoke: the frame is taken, the scope and the argument frame are put in
\* place at stack position n, and the parameters are stored, unless collecting
\* the unnamed arguments failed.
Invoke(call, n) ==
    LET f == call.fn
    IN  /\ IF f \in Slotted
           THEN /\ spare' = TakenFrom(f)
                /\ frames' = [Made(f) EXCEPT ![Taken(f)] = IF Collects(call) THEN PrivateArgs(call) ELSE @]
                /\ frame' = Taken(f)
           ELSE UNCHANGED <<spare, frames, frame>>
        /\ vaFrame' = n
        /\ address' = IF f \in Variadic THEN address + 1 ELSE address
        /\ failed' = ~Collects(call)

CountFits(f, n) == n >= Parameters[f] /\ (f \in Variadic \/ n = Parameters[f])

\* call: the arguments are in an array; a count that does not fit is refused
\* before anything is taken.
EnterFull ==
    LET n == Len(stack)
    IN  /\ Ready /\ ~Top.direct /\ Top.fn \in Fns
        /\ IF CountFits(Top.fn, Top.count)
           THEN /\ stack' = [stack EXCEPT ![n] = Entered(Top)]
                /\ Invoke(Top, n)
           ELSE /\ failed' = TRUE
                /\ UNCHANGED <<stack, spare, frames, frame, vaFrame, address>>
        /\ UNCHANGED <<lists, depth, calls, entries, truth>>

\* runtime_invoke: a library function calls back with arguments it has made.  A
\* simple function is given its frame now, and any other goes through invoke.
Callback(f) ==
    LET k    == Parameters[f]
        call == [Begun(f, k, None) EXCEPT !.args = [i \in 1..k |-> [of |-> calls + 1, at |-> i, kind |-> "int"]]]
        mine == IF f \in Slotted THEN Taken(f) ELSE None
    IN  /\ ~failed /\ Running /\ Top.fn \in Library
        /\ calls < MaxCalls /\ depth + 1 <= DepthLimit
        /\ depth' = depth + 1 /\ calls' = calls + 1
        /\ IF f \in Simple
           THEN /\ stack' = Append(stack, [call EXCEPT !.state = "running", !.direct = TRUE, !.frame = mine,
                                                       !.outer = frame, !.local = PrivateArgs(call)])
                /\ IF f \in Slotted
                   THEN /\ spare' = TakenFrom(f)
                        /\ frames' = [Made(f) EXCEPT ![mine] = PrivateArgs(call)]
                        /\ frame' = mine
                   ELSE UNCHANGED <<spare, frames, frame>>
                /\ UNCHANGED <<vaFrame, address, failed>>
           ELSE /\ stack' = Append(stack, Entered(call))
                /\ Invoke(call, Len(stack) + 1)
        /\ UNCHANGED <<lists, entries, truth>>

\* The body of a function assigns to a private local.
Assign ==
    LET value == [of |-> stack[Body].number, at |-> 0, kind |-> "int"]
    IN  /\ Evaluating /\ stack[Body].fn \in Slotted
        /\ frames' = [frames EXCEPT ![frame] = <<value>>]
        /\ stack' = [stack EXCEPT ![Body].local = <<value>>]
        /\ UNCHANGED <<spare, frame, vaFrame, address, lists, depth, failed, calls, entries, truth>>

-----------------------------------------------------------------------------
(* <stdarg.h>. *)

\* va_read's search: the argument frames of the calls in progress, innermost
\* first, until one has the identity.
FrameOf(n, id) ==
    LET Seek[k \in 0..Len(stack)] == IF k = None \/ stack[k].identity = id THEN k ELSE Seek[stack[k].parent]
    IN  Seek[n]

\* The frame va_read finds for a list, or None when it fails: the list is not
\* active, its call returned, or its cursor is past the end.
ReadFrame(list, ending) ==
    LET n == FrameOf(vaFrame, list.id)
    IN  CASE list.id = None -> None
          [] n = None -> None
          [] list.at > Len(Unnamed(stack[n])) \/ (list.at = Consumed /\ ~ending) -> None
          [] OTHER -> n

\* va_compatible, for a promoted argument and the type va_arg asks for.
Compatible(kind, type) ==
    CASE type = "struct"   -> kind = "struct"
      [] type = "int"      -> kind \in {"int", "negative", "unsigned"}
      [] type = "unsigned" -> kind \in {"int", "unsigned", "large"}

\* A body uses <stdarg.h>: whether the argument frame was found, what the list
\* becomes and what it then stands for.  A frame that was not found fails.
Uses(l, found, list, stands) ==
    /\ Evaluating
    /\ IF found THEN lists' = [lists EXCEPT ![l] = list] /\ truth' = [truth EXCEPT ![l] = stands]
                ELSE UNCHANGED <<lists, truth>>
    /\ failed' = ~found
    /\ UNCHANGED <<stack, spare, frames, frame, vaFrame, address, depth, calls, entries>>

\* va_start names the argument frame on top, which must be a variadic one with
\* a named parameter.  A function that has a va_start is never simple.
VaStart(l) == /\ Evaluating /\ stack[Body].fn \notin Simple
              /\ Uses(l, /\ vaFrame # None /\ stack[vaFrame].fn \in Variadic
                         /\ Parameters[stack[vaFrame].fn] > 0,
                      [id |-> stack[vaFrame].identity, at |-> 0], [of |-> stack[Body].number, at |-> 0])

VaCopy(l, from) == Uses(l, ReadFrame(lists[from], FALSE) # None, lists[from], truth[from])

VaEnd(l) == Uses(l, ReadFrame(lists[l], TRUE) # None, Unset, Nothing)

\* runtime_va_values: formatted input and output take what is left, and leave a
\* list that can only be ended.
VaFormatted(l) == Uses(l, ReadFrame(lists[l], FALSE) # None, [lists[l] EXCEPT !.at = Consumed],
                       [truth[l] EXCEPT !.at = Consumed])

\* The argument va_arg would read, if it accepts the list and the type.
Accepts(list, type) ==
    LET n == ReadFrame(list, FALSE)
    IN  /\ n # None /\ list.at < Len(Unnamed(stack[n]))
        /\ Compatible(Unnamed(stack[n])[list.at + 1].kind, type)
VaArg(l, type) == Uses(l, Accepts(lists[l], type), [lists[l] EXCEPT !.at = @ + 1], [truth[l] EXCEPT !.at = @ + 1])

-----------------------------------------------------------------------------
(* Leaving. *)

\* A defect to test the properties with: a failure leaves the frame behind.
ArgumentFrameUnlessFailed(call) ==
    IF call.state = "running" /\ ~call.direct /\ call.fn \in Fns /\ ~failed THEN call.parent ELSE vaFrame

\* The argument frame on top once a call is over: only invoke put one there.
ArgumentFrameAfter(call) ==
    IF call.state = "running" /\ ~call.direct /\ call.fn \in Fns THEN call.parent ELSE vaFrame

\* What every path does when the body is over: the frame is given back and the
\* outer one is current, the argument frame is taken off, the depth goes back.
Left(call) ==
    /\ stack' = Front(stack)
    /\ spare' = Given(call.fn, call.frame)
    /\ frame' = IF call.state = "running" /\ call.frame # None THEN call.outer ELSE frame
    /\ vaFrame' = ArgumentFrameAfter(call)
    /\ depth' = depth - 1
    /\ UNCHANGED <<frames, address, lists, calls, entries, truth>>

\* finish_call: the body is over.
Return == /\ ~failed /\ Running /\ Left(Top) /\ UNCHANGED failed

\* Something in an argument or in a body fails (runtime_error).
Fail == /\ ~failed /\ stack # <<>>
        /\ failed' = TRUE
        /\ UNCHANGED <<stack, spare, frames, frame, vaFrame, address, lists, depth, calls, entries, truth>>

\* A failure ends every call in progress, innermost first.
Unwind == /\ failed /\ stack # <<>> /\ Left(Top) /\ UNCHANGED failed

\* ct_eval: the next entry starts without the failure; program memory stays.
NextEntry ==
    /\ stack = <<>> /\ entries < MaxEntries
    /\ entries' = entries + 1 /\ failed' = FALSE
    /\ UNCHANGED <<stack, spare, frames, frame, vaFrame, address, lists, depth, calls, truth>>

Next ==
    \/ \E f \in Fns \cup Library, n \in Counts : StartCall(f, n)
    \/ RefuseDepth
    \/ \E k \in Kinds : Argument(k)
    \/ EnterSimple \/ EnterLibrary \/ EnterFull
    \/ \E f \in Fns : Callback(f)
    \/ Assign
    \/ \E l \in Lists : VaStart(l) \/ VaEnd(l) \/ VaFormatted(l)
    \/ \E l, from \in Lists : VaCopy(l, from)
    \/ \E l \in Lists, t \in {"int", "unsigned", "struct"} : VaArg(l, t)
    \/ Return \/ Fail \/ Unwind \/ NextEntry

Spec == Init /\ [][Next]_vars

-----------------------------------------------------------------------------
(* Properties. *)

CallOf(number) == {i \in InProgress : stack[i].number = number}

\* A va_list is read as <stdarg.h> says: while the call that started it is in
\* progress the code finds that very call and the next unread argument, and
\* afterwards, or once it was ended or used for formatted output, nothing; no
\* other call, however deep or recursive, can be taken for it (va_read).
ListsNameTheirCall ==
    \A l \in Lists :
        LET t == truth[l]
            n == ReadFrame(lists[l], FALSE)
        IN  IF t.of = None \/ t.at = Consumed \/ CallOf(t.of) = {} THEN n = None
            ELSE n \in CallOf(t.of) /\ lists[l].at = t.at

\* No two calls share a frame, and none is both in use and spare: each call
\* finds in its frame the arguments it was given and what it assigned,
\* whatever was called in between, itself included (frame_take, frame_give).
FramesPrivate ==
    /\ \A i, j \in DOMAIN stack : i # j /\ stack[i].frame # None => stack[i].frame # stack[j].frame
    /\ \A i \in DOMAIN stack, f \in Fns : stack[i].frame \notin ToSet(spare[f])
    /\ \A i \in DOMAIN stack : stack[i].frame # None /\ ~failed =>
           IsPrefix(IF stack[i].state = "running" THEN stack[i].local ELSE stack[i].args, frames[stack[i].frame])

\* The innermost running call with private locals reads its own frame, and the
\* argument frame on top is that of the innermost call through invoke, so an
\* entry that is over, even by a failure, leaves neither behind, nor depth.
CurrentIsInnermost ==
    LET slotted == {i \in InProgress : stack[i].frame # None}
        full    == {i \in InProgress : stack[i].fn \in Fns /\ ~stack[i].direct}
    IN  /\ frame = IF slotted = {} THEN None ELSE stack[Max(slotted)].frame
        /\ vaFrame = Max(full \cup {None})
        /\ depth = Len(stack)
        /\ stack = <<>> => Cardinality(UNION {ToSet(spare[f]) : f \in Fns}) = Len(frames)
==============================================================================
