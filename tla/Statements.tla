----------------------------- MODULE Statements -----------------------------
(***************************************************************************)
(* The statements of one interpreted function (src/src/interpreter.c,      *)
(* execute() and the perform_*() handlers) and the rewriting of its lists  *)
(* by the optimizer (src/src/optimizer.c).  A statement is a record; the   *)
(* evaluator's expressions are events, and what a test or a switch yields  *)
(* is chosen when it is asked.                                             *)
(*                                                                         *)
(* The tree is walked by an explicit stack, one frame for each handler     *)
(* that is waiting for a statement inside it.  Beside it runs the meaning  *)
(* the source text has: Flat() is the same function as a list of           *)
(* instructions with jumps, made from the statements as they were written, *)
(* and the history variable due is the instruction whose event must come   *)
(* next.                                                                   *)
(***************************************************************************)
EXTENDS Integers, Sequences, SequencesExt, TLC

CONSTANTS
    Programs,    \* the function bodies tried: from names to lists of statements
    CaseValues,  \* what a switch may find
    StepLimit,   \* interpreter->step_limit
    DepthLimit,  \* interpreter->depth_limit
    MaxCalls     \* bound: calls of the function in one session

ASSUME StatementsAssumption ==
    /\ StepLimit \in Nat \ {0} /\ DepthLimit \in Nat \ {0}
    /\ MaxCalls \in Nat \ {0}

VARIABLES
    program,  \* the name of the function that is run
    stack,    \* the handlers under way, the innermost last
    control,  \* what happens next: execute a statement, or return a flow
    jump,     \* interpreter->jump
    found,    \* node->cache.jump of every goto that has found its label
    statics,  \* the block-scope statics whose node has an address
    steps, depth,
    stopped,  \* "no", "failed" (interpreter->failed) or "exit"
    calls,    \* calls begun
    due       \* history: the instruction whose event must come next

vars == <<program, stack, control, jump, found, statics, steps, depth,
          stopped, calls, due>>

None == [k |-> "none"]

-----------------------------------------------------------------------------
(* The optimizer's work on statements. *)

Declares(s) == s.k \in {"decl", "static", "group", "label", "case"}

\* splice_safe: what may stand in for its enclosing if.
SpliceSafe(s) == ~Declares(s)

Removable(s) == s.k = "empty" \/ (s.k = "group" /\ s.items = <<>>)

JumpsAway(s) == s.k \in {"return", "break", "continue", "goto"}

RECURSIVE OptimizeStatement(_), OptimizeList(_, _)

OptimizeStatement(s) ==
    CASE s.k \in {"block", "switch"} -> [s EXCEPT !.items = OptimizeList(@, FALSE)]
      [] s.k = "do" -> [s EXCEPT !.body = OptimizeStatement(@)]
      [] s.k = "while" ->
           LET b == OptimizeStatement(s.body) IN
           CASE s.c = "F" -> [k |-> "empty"]
             [] s.c = "T" -> [k |-> "for", init |-> None, c |-> "T", step |-> None, body |-> b]
             [] OTHER     -> [s EXCEPT !.body = b]
      [] s.k = "for" -> [s EXCEPT !.body = OptimizeStatement(@)]
      [] s.k = "if" ->
           LET yes    == OptimizeStatement(s.then)
               no     == OptimizeStatement(s.else)
               branch == IF s.c = "T" THEN yes ELSE no
               kept   == [s EXCEPT !.then = yes, !.else = no]
           IN  IF s.c \notin {"T", "F"} THEN kept
               ELSE IF branch = None THEN [k |-> "empty"]
               ELSE IF SpliceSafe(branch) THEN branch ELSE kept
      [] OTHER -> s

\* optimize_list: groups are flattened, and what follows a jump is dropped up
\* to the next label or case.
OptimizeList(list, unreachable) ==
    IF list = <<>> THEN <<>>
    ELSE LET s    == OptimizeStatement(Head(list))
             skip == unreachable /\ s.k \notin {"label", "case"}
         IN  IF skip \/ Removable(s) THEN OptimizeList(Tail(list), skip)
             ELSE IF s.k = "group" THEN OptimizeList(s.items \o Tail(list), FALSE)
             ELSE <<s>> \o OptimizeList(Tail(list), JumpsAway(s))

-----------------------------------------------------------------------------
(* The reading of the text: the function as written, as jumps.  A place is *)
(* named by the path of its statement and a word, all of them strings.      *)

Do(e)        == <<[op |-> "do", x |-> e, to |-> <<>>]>>
Test(c, to)  == <<[op |-> "test", x |-> c, to |-> to]>>
JumpTo(to)   == <<[op |-> "jump", x |-> 0, to |-> to]>>
At(place)    == <<[op |-> "at", x |-> 0, to |-> place]>>
Op(name)     == <<[op |-> name, x |-> 0, to |-> <<>>]>>
Once(e)      == <<[op |-> "once", x |-> e, to |-> <<>>]>>
Choose(to)   == <<[op |-> "switch", x |-> 0, to |-> to]>>

LabelsOf(list) == {list[i].name : i \in {j \in DOMAIN list : list[j].k = "label"}}

\* The innermost enclosing list that has the label, or 0.
ListWith(name, lists) == SelectLastInSubSeq(lists, 1, Len(lists), LAMBDA l : name \in l.labels)

Case(p, v) == Append(p, "case " \o v)

RECURSIVE Flat(_, _, _), FlatList(_, _, _)

Flat(s, p, env) ==
    LET in(w) == [env EXCEPT !.break = Append(p, "end"), !.continue = Append(p, w)]
        end   == At(Append(p, "end"))
    IN
    CASE s.k \in {"none", "empty", "case"} -> <<>>
      [] s.k = "expr" -> Do(s.e)
      [] s.k = "decl" -> Do(s.e)
      [] s.k = "static" -> Once(s.e)
      [] s.k = "return" -> (IF s.e = 0 THEN <<>> ELSE Do(s.e)) \o Op("return")
      [] s.k = "label" -> At(Append(Front(p), s.name))
      [] s.k = "goto" -> LET l == ListWith(s.name, env.lists) IN
                         IF l = 0 THEN Op("lost") ELSE JumpTo(Append(env.lists[l].path, s.name))
      [] s.k = "break" -> JumpTo(env.break)
      [] s.k = "continue" -> JumpTo(env.continue)
      [] s.k \in {"block", "group"} -> FlatList(s.items, p, env)
      [] s.k = "if" ->
           Test(s.c, Append(p, "else")) \o Flat(s.then, Append(p, "1"), env) \o JumpTo(Append(p, "end"))
           \o At(Append(p, "else")) \o Flat(s.else, Append(p, "2"), env) \o end
      [] s.k = "while" ->
           At(Append(p, "again")) \o Test(s.c, Append(p, "end"))
           \o Flat(s.body, Append(p, "1"), in("again")) \o JumpTo(Append(p, "again")) \o end
      [] s.k = "do" ->
           At(Append(p, "start")) \o Flat(s.body, Append(p, "1"), in("again"))
           \o At(Append(p, "again")) \o Test(s.c, Append(p, "end")) \o JumpTo(Append(p, "start")) \o end
      [] s.k = "for" ->
           Flat(s.init, Append(p, "first"), env) \o At(Append(p, "start")) \o Test(s.c, Append(p, "end"))
           \o Flat(s.body, Append(p, "1"), in("again"))
           \o At(Append(p, "again")) \o Flat(s.step, Append(p, "2"), env) \o JumpTo(Append(p, "start")) \o end
      [] s.k = "switch" ->
           LET has(v)  == \E i \in DOMAIN s.items : s.items[i].k = "case" /\ s.items[i].v = v
               to(v)   == IF has(v) THEN Case(p, v)
                          ELSE IF has("default") THEN Case(p, "default") ELSE Append(p, "end")
           IN  Choose([v \in CaseValues |-> to(v)])
               \o FlatList(s.items, p, [env EXCEPT !.break = Append(p, "end")]) \o end

FlatList(list, p, env) ==
    LET inner == [env EXCEPT !.lists = Append(@, [path |-> p, labels |-> LabelsOf(list)])]
        one(i) == IF list[i].k = "case" THEN At(Case(p, list[i].v))
                  ELSE Flat(list[i], Append(p, ToString(i)), inner)
    IN  FoldLeftDomain(LAMBDA done, i : done \o one(i), <<>>, list)

Read(list) ==
    FlatList(list, <<>>, [break |-> <<>>, continue |-> <<>>, lists |-> <<>>]) \o Op("end")

\* What the parser leaves to the evaluator, and what it stands for.
Optimized == <<>> @@ [p \in DOMAIN Programs |-> OptimizeList(Programs[p], FALSE)]
Texts     == <<>> @@ [p \in DOMAIN Programs |-> Read(Programs[p])]
code      == Texts[program]

Place(l) == CHOOSE j \in DOMAIN code : code[j].op = "at" /\ code[j].to = l
Astray   == -1

\* The next instruction from i that shows: an event, a test to be asked, the
\* end; 0 when the text loops without showing anything.
RECURSIVE Settle(_, _, _)
Settle(i, done, seen) ==
    LET go(j) == Settle(j, done, seen \cup {i}) IN
    IF i \in seen THEN 0
    ELSE CASE code[i].op = "at" -> go(i + 1)
           [] code[i].op = "jump" -> go(Place(code[i].to))
           [] code[i].op = "test" /\ code[i].x = "T" -> go(i + 1)
           [] code[i].op = "test" /\ code[i].x = "F" -> go(Place(code[i].to))
           [] code[i].op = "once" /\ code[i].x \in done -> go(i + 1)
           [] OTHER -> i



\* The tree shows an event: the text must have come to the same one.
Shows(op, x)      == due > 0 /\ code[due].op = op /\ code[due].x = x
Observe(op, x, next) ==
    due' = IF Shows(op, x) THEN Settle(next, statics, {}) ELSE Astray

-----------------------------------------------------------------------------
(* What happens next: execute(s); the evaluation of s's expression, after   *)
(* which the flow is handed on; the condition of the innermost handler; the *)
(* head of sequence()'s loop; a flow handed to the innermost frame.         *)

Execute(s)     == [do |-> "execute", s |-> s, flow |-> "NORMAL"]
Evaluate(s, f) == [do |-> "evaluate", s |-> s, flow |-> f]
Condition      == [do |-> "test", s |-> None, flow |-> "NORMAL"]
Loop           == [do |-> "next", s |-> None, flow |-> "NORMAL"]
Yield(f)       == [do |-> "return", s |-> None, flow |-> f]
Idle           == [do |-> "idle", s |-> None, flow |-> "NORMAL"]

\* sequence(head): `list' and `i' are its node, which a goto moves.  A handler
\* waits for what it has started; for perform_for, `i' says which part.
Sequence(list, i) == [at |-> "sequence", s |-> None, list |-> list, i |-> i, head |-> <<list, i>>]
Handler(s)        == [at |-> s.k, s |-> s, list |-> <<>>, i |-> 0, head |-> <<>>]
Top               == Last(stack)
At_(i)            == [stack EXCEPT ![Len(stack)].i = i]

\* scoped(): an expression is evaluated in place, anything else executed.
Scoped(s) == IF s.k = "expr" THEN Evaluate(s, "NORMAL") ELSE Execute(s)

\* An expression is evaluated, fails, or calls exit().
Outcomes == {"no", "failed", "exit"}

\* tick(): a step is charged, and past a boundary the state is looked at.
TicksAfterStop   == steps < StepLimit
Ticks            == stopped = "no" /\ steps < StepLimit
ChargeNone       == steps' = steps
Charge           == steps' = steps + 1
AtDepthLimit     == depth = DepthLimit
\* tick() refuses: the limit is reached, or the program has already stopped.
Refused == /\ steps' = IF stopped = "no" THEN steps + 1 ELSE steps
           /\ stopped' = IF stopped = "no" THEN "failed" ELSE stopped

Init ==
    /\ program \in DOMAIN Programs
    /\ stack = <<>> /\ control = Idle /\ jump = None
    /\ found = <<>> /\ statics = {} /\ steps = 0 /\ depth = 0
    /\ stopped = "no" /\ calls = 0 /\ due = 0

Call ==
    /\ control.do = "idle" /\ calls < MaxCalls /\ stopped # "exit"
    /\ calls' = calls + 1 /\ steps' = 0 /\ depth' = 0 /\ stopped' = "no"
    /\ stack' = <<Sequence(Optimized[program], 1)>> /\ control' = Loop
    /\ due' = Settle(1, statics, {})
    /\ UNCHANGED <<program, jump, found, statics>>

\* The loop of sequence(), with its two shortcuts.
NextStatement ==
    LET s == Top.list[Top.i] IN
    /\ control.do = "next"
    /\ IF Top.i > Len(Top.list) \/ stopped # "no"
       THEN /\ stack' = Front(stack) /\ control' = Yield("NORMAL")
            /\ UNCHANGED <<steps, stopped>>
       ELSE IF s.k # "return" \/ AtDepthLimit
       THEN control' = Scoped(s) /\ UNCHANGED <<stack, steps, stopped>>
       ELSE IF Ticks
       THEN control' = Evaluate(s, "RETURN") /\ Charge /\ UNCHANGED <<stack, stopped>>
       ELSE Refused /\ stack' = Front(stack) /\ control' = Yield("NORMAL")
    /\ UNCHANGED <<program, jump, found, statics, depth, calls, due>>

\* The expression of a statement, or nothing when it has none.
EvaluateExpression ==
    LET s  == control.s
        op == IF s.k = "static" THEN "once" ELSE "do"
    IN
    /\ control.do = "evaluate" /\ control' = Yield(control.flow)
    /\ IF s.e = 0 THEN UNCHANGED <<steps, stopped, due>>
       ELSE IF Ticks
       THEN /\ Charge
            /\ stopped' \in Outcomes
            /\ Observe(op, s.e, due + 1)
       ELSE Refused /\ UNCHANGED due
    /\ UNCHANGED <<program, stack, jump, found, statics, depth, calls>>

\* A static whose node has no address yet; it has one from then on, whatever
\* becomes of its initializer.
FirstRun(s) == s.k = "static" /\ s.e \notin statics

\* execute() and the part of each perform_*() up to the first thing it waits for.
ExecuteStatement ==
    LET s     == control.s
        flow  == CASE s.k = "break" -> "BREAK" [] s.k = "continue" -> "CONTINUE"
                   [] s.k = "goto" -> "GOTO" [] OTHER -> "NORMAL"
        waits == s.k \in {"block", "group", "if", "while", "do", "for", "switch"}
        first == FirstRun(s)
    IN
    /\ control.do = "execute"
    /\ IF ~Ticks
       THEN Refused /\ control' = Yield("NORMAL") /\ UNCHANGED <<stack, depth, jump, statics>>
       ELSE /\ Charge
            /\ IF AtDepthLimit
               THEN /\ stopped' = "failed" /\ control' = Yield("NORMAL")
                    /\ UNCHANGED <<stack, depth, jump, statics>>
               ELSE /\ stopped' = stopped
                    /\ depth' = IF waits THEN depth + 1 ELSE depth
                    /\ jump' = IF s.k = "goto" THEN s ELSE jump
                    /\ statics' = IF first THEN statics \cup {s.e} ELSE statics
                    /\ stack' = CASE s.k \in {"block", "group"} -> stack \o <<Handler(s), Sequence(s.items, 1)>>
                                  [] waits -> Append(stack, Handler(s))
                                  [] OTHER -> stack
                    /\ control' =
                         CASE s.k \in {"block", "group"} -> Loop
                           [] s.k \in {"if", "while", "switch"} -> Condition
                           [] s.k = "do" -> Scoped(s.body)
                           [] s.k = "for" -> IF s.init = None THEN Condition ELSE Execute(s.init)
                           [] s.k \in {"expr", "decl"} \/ first -> Evaluate(s, "NORMAL")
                           [] s.k = "return" -> Evaluate(s, "RETURN")
                           [] OTHER -> Yield(flow)
    /\ UNCHANGED <<program, found, calls, due>>

\* What a condition's answer starts.  A decided one is a constant, read without
\* a tick.  perform_if asks only whether the condition failed.
Branch(s) == IF s.k = "if" THEN [yes |-> s.then, no |-> s.else]
                           ELSE [yes |-> s.body, no |-> None]
Leave(f)  == stack' = Front(stack) /\ depth' = depth - 1 /\ control' = Yield(f)

Continue(s, answer, stop) ==
    LET next == IF answer THEN Branch(s).yes ELSE Branch(s).no IN
    IF stop = "failed" \/ next = None THEN Leave("NORMAL")
    ELSE /\ stack' = At_(1) /\ control' = Scoped(next) /\ UNCHANGED depth

TestCondition ==
    LET s == Top.s IN
    /\ control.do = "test" /\ s.k # "switch"
    /\ IF s.k \in {"while", "for"} /\ stopped # "no"
       THEN Leave("NORMAL") /\ UNCHANGED <<steps, stopped, due>>
       ELSE IF s.c \in {"T", "F"}
       THEN Continue(s, s.c = "T", stopped) /\ UNCHANGED <<steps, stopped, due>>
       ELSE IF ~Ticks THEN Refused /\ Continue(s, FALSE, stopped') /\ UNCHANGED due
       ELSE /\ Charge
            /\ \E answer \in BOOLEAN, stop \in Outcomes :
                 /\ stop = "failed" => ~answer
                 /\ stopped' = stop /\ Continue(s, answer, stop)
                 /\ Observe("test", s.c, IF answer THEN due + 1 ELSE Place(code[due].to))
    /\ UNCHANGED <<program, jump, found, statics, calls>>

\* perform_switch: the case that matches, or else default; the list is run from
\* there, and that is the head its gotos are looked up from.
SwitchStarts(items, v) ==
    LET at(w) == SelectInSubSeq(items, 1, Len(items), LAMBDA t : t.k = "case" /\ t.v = w)
    IN  IF at(v) # 0 THEN at(v) ELSE at("default")

ChooseCase ==
    LET s == Top.s IN
    /\ control.do = "test" /\ s.k = "switch"
    /\ IF ~Ticks THEN Refused /\ Leave("NORMAL") /\ UNCHANGED due
       ELSE \E v \in CaseValues, stop \in Outcomes :
         /\ Charge /\ stopped' = stop
         /\ Observe("switch", 0, Place(code[due].to[v]))
         /\ IF stop = "failed" \/ SwitchStarts(s.items, v) = 0 THEN Leave("NORMAL")
            ELSE /\ stack' = Append(stack, Sequence(s.items, SwitchStarts(s.items, v)))
                 /\ control' = Loop /\ UNCHANGED depth
    /\ UNCHANGED <<program, jump, found, statics, calls>>

FindLabelAnyList(head) ==
    IF jump.id \in DOMAIN found THEN found[jump.id].label
    ELSE LET i == SelectInSubSeq(head[1], head[2], Len(head[1]), LAMBDA t : t.k = "label" /\ t.name = jump.name)
         IN  IF i = 0 THEN <<>> ELSE <<head[1], i>>

\* find_label: remembered with the head of the list it was found in.
FindLabel(head) ==
    IF jump.id \in DOMAIN found /\ found[jump.id].head = head THEN found[jump.id].label
    ELSE LET i == SelectInSubSeq(head[1], head[2], Len(head[1]), LAMBDA t : t.k = "label" /\ t.name = jump.name)
         IN  IF i = 0 THEN <<>> ELSE <<head[1], i>>

\* A flow reaches sequence().
SequenceTakes ==
    LET f     == control.flow
        label == FindLabel(Top.head)
    IN
    /\ control.do = "return" /\ stack # <<>> /\ Top.at = "sequence"
    /\ IF f = "NORMAL" THEN stack' = At_(Top.i + 1) /\ control' = Loop /\ UNCHANGED found
       ELSE IF f = "GOTO" /\ label # <<>>
       THEN /\ stack' = [stack EXCEPT ![Len(stack)].list = label[1], ![Len(stack)].i = label[2]]
            /\ control' = Loop
            /\ found' = (jump.id :> [head |-> Top.head, label |-> label]) @@ found
       ELSE stack' = Front(stack) /\ control' = control /\ UNCHANGED found
    /\ UNCHANGED <<program, jump, statics, steps, depth, stopped, calls, due>>

\* A flow reaches the handler that waits for it.
HandlerTakes ==
    LET f    == control.flow
        s    == Top.s
        out  == f \in {"RETURN", "GOTO", "BREAK"}
        past == IF f \in {"RETURN", "GOTO"} THEN f ELSE "NORMAL"
    IN
    /\ control.do = "return" /\ stack # <<>> /\ Top.at # "sequence"
    /\ CASE Top.at \in {"block", "group", "if"} -> Leave(f)
         [] Top.at = "switch" -> Leave(IF f = "BREAK" THEN "NORMAL" ELSE f)
         [] Top.at = "while" /\ out -> Leave(past)
         [] Top.at = "do" /\ (out \/ stopped # "no") -> Leave(past)
         [] Top.at = "for" /\ Top.i = 1 /\ (out \/ stopped = "failed") -> Leave(past)
         [] Top.at = "for" /\ Top.i = 1 /\ s.step # None ->
              stack' = At_(2) /\ control' = Evaluate(s.step, "NORMAL") /\ UNCHANGED depth
         [] OTHER -> stack' = stack /\ control' = Condition /\ UNCHANGED depth
    /\ UNCHANGED <<program, jump, found, statics, steps, stopped, calls, due>>

\* finish_call: a goto nobody took is an error; the text must have come to its
\* end, to a return, or to the jump that goes nowhere.
FinishCall ==
    LET lost == control.flow = "GOTO" /\ stopped = "no"
        ends == CASE control.flow = "GOTO" -> {"lost"}
                  [] control.flow = "RETURN" -> {"return"}
                  [] OTHER -> {"end"}
    IN
    /\ control.do = "return" /\ stack = <<>> /\ control' = Idle
    /\ stopped' = IF lost THEN "failed" ELSE stopped
    /\ due' = IF stopped # "no" THEN due
              ELSE IF due > 0 /\ code[due].op \in ends THEN due ELSE Astray
    /\ UNCHANGED <<program, stack, jump, found, statics, steps, depth, calls>>

Run  == \/ NextStatement \/ EvaluateExpression \/ ExecuteStatement \/ TestCondition
        \/ ChooseCase \/ SequenceTakes \/ HandlerTakes \/ FinishCall
Next == Call \/ Run

\* The evaluator is one thread that never waits.
Spec == Init /\ [][Next]_vars /\ WF_vars(Run)

-----------------------------------------------------------------------------

\* What the optimized tree does is what the text says, event by event, whatever
\* the tests answer and however often it is run: no jump taken from a list it
\* was not looked up in, no dropped statement that could have been reached, no
\* loop left or entered again at the wrong place, no static initialized again.
FollowsText == due # Astray

\* A goto is reported as unreachable only when no list around it has its label:
\* README.md:143 supports "jumps to labels in the same or an enclosing block".
JumpsFindLabels ==
    control = Yield("GOTO") /\ stack = <<>> /\ stopped = "no" /\ due > 0 => code[due].op = "lost"

\* After a failure, or after exit(), nothing observable is evaluated any more,
\* although the handlers are still on their way out and ask more conditions.
StopsAtOnce == [][stopped # "no" /\ control.do # "idle" => due' = due]_vars

\* With a step limit every call ends: each way round a loop passes a tick.
CallsEnd == (control.do # "idle") ~> (control.do = "idle")
=============================================================================
