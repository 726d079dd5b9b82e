------------------------------ MODULE NameBinding ------------------------------
(***************************************************************************)
(* The names of an interpreted function.  Before it runs, the optimizer    *)
(* (src/src/optimizer.c) decides of every use of a name whether it names a *)
(* declaration of the function, a global, or whatever the chain of scopes  *)
(* has when it is evaluated, and with that which declarations need no      *)
(* place in a scope and which blocks need no scope at all.  The evaluator  *)
(* (src/src/interpreter.c) then opens only the scopes that are needed.     *)
(*                                                                         *)
(* Statements runs the function; here its steps open, fill and close the   *)
(* scopes, those that are left out remembered beside those that are not.   *)
(* A declaration and an expression are known by their number.  Recursion   *)
(* and the reuse of symbols belong to NameResolution, frames to Calls.     *)
(***************************************************************************)
EXTENDS Statements, FiniteSets

CONSTANTS
    Parameters,  \* the declarations of the parameters
    Named,       \* the name of each declaration
    Mentions,    \* the names each expression uses, where it uses any
    Asks,        \* the names each condition uses, where it uses any
    Addressed,   \* the expressions that take the addresses of what they use
    Awkward,     \* the declarations of const, of aggregates and with braces
    Temporary    \* the expressions that may leave a temporary in their scope

VARIABLES
    bound,   \* what the optimizer wrote into the tree
    scopes,  \* the scopes of the text, the globals first
    frame    \* the private locals declared in this activation's frame

bindingVars == <<bound, scopes, frame>>
allVars == <<vars, bindingVars>>

-----------------------------------------------------------------------------
(* The binder.  An answer is a declaration, or: *)

Dynamic == 0
Global  == -1

Inside(s) == CASE s.k \in {"block", "group", "switch"} -> Range(s.items)
               [] s.k \in {"while", "do"} -> {s.body}
               [] s.k = "for" -> {s.init, s.body}
               [] s.k = "if"  -> {s.then, s.else}
               [] OTHER -> {}

RECURSIVE Within(_)
Within(s) == {s} \cup UNION {Within(t) : t \in Inside(s)}

IsDeclaration(s) == s.k \in {"decl", "static"}

\* A defect to test the properties with: only jumps with a name are taken for jumps.
SkipsNothingButLabels(s) == s.k \notin {"goto", "label"}

\* No jump here enters a scope past one of its declarations.
SkipsNothing(s) ==
    /\ s.k \notin {"goto", "label"}
    /\ s.k = "switch" => \A t \in Range(s.items) : ~IsDeclaration(t) /\ t.k # "group"

\* survey, of the parameters and the body.
Survey(body) ==
    LET all == UNION {Within(s) : s \in Range(Parameters) \cup Range(body)}
    IN  [declared |-> {s.e : s \in {t \in all : IsDeclaration(t)}},
         statics  |-> {s.e : s \in {t \in all : t.k = "static"}},
         lexical  |-> \A s \in all : SkipsNothing(s)]

\* What the binder knows at a point of the text.
Unbound == [visible |-> <<>>, start |-> 0, duplicated |-> FALSE, addressed |-> {}, uses |-> <<>>, asks |-> <<>>]

Declare(b, e) ==
    [b EXCEPT !.visible = Append(@, e),
              !.duplicated = @ \/ \E i \in b.start + 1 .. Len(b.visible) : Named[b.visible[i]] = Named[e]]

\* bind_use: the latest visible declaration of the name, if the text decides.
BindUse(f, b, name) ==
    LET i == SelectLastInSeq(b.visible, LAMBDA e : Named[e] = name)
    IN  CASE f.lexical /\ i # 0 -> b.visible[i]
          [] \E e \in f.declared : Named[e] = name /\ ~(f.lexical /\ i # 0) -> Dynamic
          [] OTHER -> Global

\* bind_expression and mark_addressed
BindExpression(f, b, e) ==
    IF e \notin DOMAIN Mentions THEN b
    ELSE LET answers == [n \in Mentions[e] |-> BindUse(f, b, n)]
         IN  [b EXCEPT !.uses = (e :> answers) @@ @,
                       !.addressed = IF e \in Addressed THEN @ \cup Range(answers) ELSE @]
BindTest(f, b, c) ==
    IF c \notin DOMAIN Asks THEN b ELSE [b EXCEPT !.asks = (c :> [n \in Asks[c] |-> BindUse(f, b, n)]) @@ @]

Enter(b) == [b EXCEPT !.start = Len(b.visible)]
Restored(b, after) == [after EXCEPT !.visible = b.visible, !.start = b.start]

RECURSIVE BindStatement(_, _, _)
BindList(f, b, list) == FoldLeft(LAMBDA done, s : BindStatement(f, done, s), b, list)
BindScoped(f, b, s)  == Restored(b, BindStatement(f, Enter(b), s))

BindStatement(f, b, s) ==
    CASE s.k = "block"  -> Restored(b, BindList(f, Enter(b), s.items))
      [] s.k = "switch" -> Restored(b, BindList(f, Enter(Enter(b)), s.items))
      [] s.k = "group"  -> BindList(f, b, s.items)
      [] s.k \in {"decl", "static"} -> BindExpression(f, Declare(b, s.e), s.e)
      [] s.k \in {"expr", "return"} -> BindExpression(f, b, s.e)
      [] s.k = "if" -> BindScoped(f, BindScoped(f, BindTest(f, b, s.c), s.then), s.else)
      [] s.k \in {"while", "do"} -> BindScoped(f, BindTest(f, b, s.c), s.body)
      [] s.k = "for" ->
           LET head == BindStatement(f, BindTest(f, BindStatement(f, Enter(b), s.init), s.c), s.step)
           IN  Restored(b, BindScoped(f, head, s.body))
      [] OTHER -> b

\* privatize and mark_simple: the declarations nothing looks up, those of them that
\* live in the frame, and whether the call needs no more than that.
Privatized(f, b) ==
    LET private == f.lexical /\ ~b.duplicated
        slots   == IF private THEN f.declared \ (b.addressed \cup f.statics \cup Awkward) ELSE {}
    IN  [uses |-> b.uses, asks |-> b.asks, slots |-> slots,
         unindexed |-> IF private THEN f.declared ELSE {},
         simple |-> \A p \in Range(Parameters) : p.e \in slots]

\* bind_function
BindFunction(body) ==
    LET f == Survey(body) IN Privatized(f, BindList(f, Unbound, Parameters \o body))

-----------------------------------------------------------------------------
(* Which blocks need a scope. *)

\* makes_temporaries, up to the statements with scopes of their own; a switch has its
\* list in a block.
RECURSIVE MakesTemporaries(_)
MakesTemporaries(s) ==
    CASE s.k \in {"decl", "static", "expr", "return"} -> s.e \in Temporary
      [] s.k \in {"group", "if", "while", "do"} -> \E t \in Inside(s) : MakesTemporaries(t)
      [] OTHER -> FALSE

\* mark_bare
Bare(items) ==
    \A s \in Range(items) :
        /\ s.k # "group"
        /\ IsDeclaration(s) => s.e \in bound.slots
        /\ ~MakesTemporaries(s)

-----------------------------------------------------------------------------
(* The scopes while the function runs.  A scope that is not open keeps what the text    *)
(* declares in it; what define() adds goes to the innermost one that is.               *)

Scope(open, declared, defined) == [open |-> open, declared |-> declared, defined |-> defined]

\* The handlers that open a scope: blocks, loops with a head, a switch's list, and what
\* scoped() runs when it is a declaration.
OpensScope(st, i) ==
    \/ i = 1 \/ st[i].at \in {"block", "for"}
    \/ st[i].at = "sequence" /\ st[i - 1].at = "switch"
    \/ st[i].at = "group" /\ (st[i - 1].at \in {"if", "while", "do"} \/ (st[i - 1].at = "for" /\ st[i - 1].i = 1))
Opening(st) == {i \in DOMAIN st : OpensScope(st, i)}

Opened(h) == Scope(h.at = "block" => ~Bare(h.s.items), <<>>, <<>>)

Innermost == SelectLastInSeq(scopes, LAMBDA s : s.open)

Numbers(list) == [i \in DOMAIN list |-> list[i].e]

\* perform_declaration and perform_local; a declaration fails before anything else when
\* its scope has the name.
Declared(e) ==
    LET written == [scopes EXCEPT ![Len(scopes)].declared = Append(@, e)]
    IN  IF e \in bound.slots THEN written ELSE [written EXCEPT ![Innermost].defined = Append(@, e)]

Declaring == control.do = "execute" /\ IsDeclaration(control.s) /\ Ticks /\ ~AtDepthLimit
IsDuplicate(e) ==
    /\ e \notin bound.unindexed
    /\ \E d \in Range(scopes[Innermost].defined) \ bound.unindexed : Named[d] = Named[e]

\* What a step of the evaluator does to the scopes.
KeepScopes ==
    LET before == Opening(stack)
        after  == Opening(stack')
    IN  /\ scopes' = CASE Cardinality(after) > Cardinality(before) ->
                            Append(scopes, Opened(stack'[CHOOSE i \in after : \A j \in after : j <= i]))
                       [] Cardinality(after) < Cardinality(before) -> Front(scopes)
                       [] OTHER -> IF Declaring THEN Declared(control.s.e) ELSE scopes
        /\ frame' = IF Declaring /\ control.s.e \in bound.slots THEN frame \cup {control.s.e} ELSE frame
        /\ bound' = bound

BindingInit ==
    /\ Init
    /\ bound = BindFunction(Optimized[program])
    /\ scopes = <<Scope(TRUE, <<>>, <<>>)>> /\ frame = {}

\* invoke and enter_simple: the parameters, in the frame or in the call's scope.
BindingCall ==
    /\ Call
    /\ scopes' = Append(scopes, Scope(~(bound.simple /\ Bare(Optimized[program])), Numbers(Parameters),
                                      SelectSeq(Numbers(Parameters), LAMBDA e : e \notin bound.slots)))
    /\ frame' = Range(Numbers(Parameters)) \cap bound.slots
    /\ bound' = bound

Redeclare ==
    /\ Declaring /\ IsDuplicate(control.s.e)
    /\ Charge /\ stopped' = "failed" /\ control' = Yield("NORMAL")
    /\ UNCHANGED <<program, stack, jump, found, statics, depth, calls, due, bindingVars>>

BindingRun  == (Run /\ ~(Declaring /\ IsDuplicate(control.s.e)) /\ KeepScopes) \/ Redeclare
BindingNext == BindingCall \/ BindingRun
BindingSpec == BindingInit /\ [][BindingNext]_allVars /\ WF_allVars(BindingRun)

-----------------------------------------------------------------------------
\* What a name means when every scope of the text is there.
Meant(name) ==
    LET i == SelectLastInSeq(scopes, LAMBDA s : \E e \in Range(s.declared) : Named[e] = name)
    IN  IF i = 0 THEN Global
        ELSE CHOOSE e \in Range(scopes[i].declared) : Named[e] = name

\* What it is found to be in the scopes that are open.
Indexed(s, name) == {e \in Range(s.defined) \ bound.unindexed : Named[e] = name}
Found(name) ==
    LET i == SelectLastInSeq(scopes, LAMBDA s : s.open /\ Indexed(s, name) # {})
    IN  IF i = 0 THEN {Global} ELSE Indexed(scopes[i], name)

\* What the answer of the binder leads to: resolve and local_symbol.
Lives(e) == IF e \in bound.slots THEN e \in frame ELSE \E i \in DOMAIN scopes : e \in Range(scopes[i].defined)
Reached(answer, name) ==
    CASE answer = Global  -> IF Indexed(scopes[1], name) = {} THEN {Global} ELSE Indexed(scopes[1], name)
      [] answer = Dynamic -> Found(name)
      [] OTHER -> {e \in {answer} : Lives(e)}

AsMeant(answers) == \A n \in DOMAIN answers : Reached(answers[n], n) = {Meant(n)}

\* Whenever a name is evaluated, what the optimizer bound it to is the declaration that a
\* walk of all the scopes of the text would find, live in this activation, although most
\* scopes are never opened and most declarations never entered in one; and a temporary is
\* made in a scope that ends with its block (optimizer.c: bind_use, privatize, mark_bare).
NamesAsScoped ==
    stopped = "no" =>
        /\ control.do = "evaluate" /\ control.s.e \in DOMAIN bound.uses => AsMeant(bound.uses[control.s.e])
        /\ control.do = "evaluate" /\ control.s.e \in Temporary => Last(scopes).open
        /\ control.do = "test" /\ Top.s.k # "switch" /\ Top.s.c \in DOMAIN bound.asks => AsMeant(bound.asks[Top.s.c])
=============================================================================
