------------------------------ MODULE Expressions ------------------------------
(***************************************************************************)
(* An expression of integers from its tokens to its values: the parser,    *)
(* which climbs precedences (src/src/parser.c), the optimizer, which folds *)
(* constants once (src/src/optimizer.c), and the evaluator, which runs the *)
(* same tree as often as the program reaches it (src/src/interpreter.c).   *)
(* CExpressions says what all of it should come to.                        *)
(*                                                                         *)
(* A token is its spelling.  The expression stands alone in a line of the  *)
(* session, or in a function, where its names may be local and read in     *)
(* place.  A type's name is one word.  Floating point, pointers, calls and *)
(* the limits on depth and steps are left out.                             *)
(***************************************************************************)
EXTENDS ExpressionParser

CONSTANTS Scenes,     \* sets of texts, with the places they stand in and what objects hold
          Completions,  \* what may be typed after a text that stops too soon
          Local,      \* the names that are local to a function
          Unset,      \* the content of an object nothing was stored in
          MaxRuns     \* how often an expression is run

VARIABLES place,      \* "line", or where in a function: "return", "if"
          text,       \* the tokens
          parsed,     \* the parser's answer: its status and the tree
          code,       \* the tree that runs
          store,      \* from the names to the bits their objects hold
          shown,      \* the last value
          runs        \* how often it has run

vars == <<place, text, parsed, code, store, shown, runs>>

\* What ends the expression where it stands; a line may also end with nothing.
Terminator == CASE place = "line" -> "end" [] place = "return" -> ";" [] place = "if" -> ")"
WholeText == text \o << Terminator, "end", "end" >>

-----------------------------------------------------------------------------
(* The evaluator.  An outcome is a value, Failure when it failed, and the store then. *)

Outcome(value, st) == [value |-> value, store |-> st]
Failed(outcome) == outcome.value = Failure

Decode(bits, type) == Wrap(type, bits)
Encode(value) == value.bits % (Mask(value.type) + 1)
Load(name, st) == IF st[name] = Unset THEN Failure ELSE Decode(st[name], Variables[name])

\* A name of the function's frame carries its type; to any other the resolver gives none.
LocalType(t) == IF place # "line" /\ t[1] = "name" /\ t[2] \in Local THEN Variables[t[2]] ELSE CT_VOID

RECURSIVE Evaluate(_, _)

\* An object takes a value of its own type.
Placed(name, value, st) == Outcome(value, [st EXCEPT ![name] = Encode(value)])

\* store_value: an object takes a value converted to its type; const is refused last.
StoreValue(name, value, st) ==
    IF value = Failure \/ name \in ReadOnly THEN Outcome(Failure, st)
    ELSE Placed(name, Convert(value, Variables[name]), st)

BaseOperator(op) == BaseOf[op]

\* assign_to: an operator reads its object before the right side runs.
Updated(op, old, value) == IF op = "=" \/ value = Failure THEN value ELSE Binary(BaseOperator(op), old, value)
AssignTo(t, old, right) == StoreValue(t[3][2], Updated(t[2], old, right.value), right.store)
Assignment(t, st) ==
    IF t[2] # "=" /\ st[t[3][2]] = Unset THEN Outcome(Failure, st)
    ELSE AssignTo(t, Load(t[3][2], st), Evaluate(t[4], st))

\* A local that cannot be written in place takes the general path before anything else.
InPlace(t, st) == t[3][2] \notin ReadOnly /\ (t[2] = "=" \/ st[t[3][2]] # Unset)

\* A defect to test the properties with: a local keeps the value it was given, whatever its type.
PlacedAsGiven(name, value, type, st) == IF value = Failure THEN Outcome(Failure, st) ELSE Placed(name, value, st)

\* A value is stored in place, once it has the local's type.
PlacedAs(name, value, type, st) ==
    IF value = Failure THEN Outcome(Failure, st) ELSE Placed(name, Convert(value, type), st)

\* assign_int: a local int is read and written as one.
UpdatedInt(op, old, value) ==
    CASE op = "=" \/ value = Failure -> value
      [] op # "=" /\ value.type = CT_INT -> IntBinary(BaseOperator(op), old, AsInteger(value.bits))
      [] OTHER -> Binary(BaseOperator(op), Integer(old), value)
IntAssigned(t, old, right) == PlacedAs(t[3][2], UpdatedInt(t[2], old, right.value), CT_INT, right.store)
AssignInt(t, st) ==
    IF ~InPlace(t, st) THEN Assignment(t, st)
    ELSE IntAssigned(t, IF t[2] = "=" THEN 0 ELSE AsInteger(Decode(st[t[3][2]], CT_INT).bits), Evaluate(t[4], st))

\* assign_local: so is a local of another type, with no look at the object after the right side ran.
LocalAssigned(t, old, right) ==
    PlacedAs(t[3][2], Updated(t[2], old, right.value), Variables[t[3][2]], right.store)
AssignLocal(t, st) ==
    IF ~InPlace(t, st) THEN Assignment(t, st) ELSE LocalAssigned(t, Load(t[3][2], st), Evaluate(t[4], st))

RunAssignment(t, st) ==
    CASE LocalType(t[3]) = CT_VOID -> Assignment(t, st)
      [] LocalType(t[3]) = CT_INT /\ t[2] \in {"=", "+=", "-=", "*="} -> AssignInt(t, st)
      [] OTHER -> AssignLocal(t, st)

\* ++ and --: an int steps without an operator unless it would leave its range; only a name
\* is an object here.
Moved(op, old) ==
    IF old.type = CT_INT /\ AsInteger(old.bits) # (IF op = "++" THEN Maximum(CT_INT) ELSE Minimum(CT_INT))
    THEN Integer(AsInteger(old.bits) + (IF op = "++" THEN 1 ELSE -1))
    ELSE Binary(IF op = "++" THEN "+" ELSE "-", old, Integer(1))
Stepping(t, old, after) == IF t[1] = "postfix" /\ ~Failed(after) THEN Outcome(old, after.store) ELSE after
Step(t, st) ==
    IF t[3][1] # "name" \/ st[t[3][2]] = Unset THEN Outcome(Failure, st)
    ELSE Stepping(t, Load(t[3][2], st), StoreValue(t[3][2], Moved(t[2], Load(t[3][2], st)), st))

\* Both operands are local ints, or the right one is an int constant.
IntPair(t) ==
    /\ LocalType(t[3]) = CT_INT
    /\ IF t[4][1] = "value" THEN t[4][2].type = CT_INT ELSE LocalType(t[4]) = CT_INT

IntOperand(t, st) == AsInteger(IF t[1] = "value" THEN t[2].bits ELSE Decode(st[t[2]], CT_INT).bits)
AllSet(t, st) == st[t[3][2]] # Unset /\ (t[4][1] = "value" \/ st[t[4][2]] # Unset)

\* What can only come to an int, by its shape.
RECURSIVE IntShaped(_)
IntShaped(t) ==
    CASE t[1] = "value" -> t[2].type = CT_INT
      [] t[1] = "name"  -> LocalType(t) = CT_INT
      [] t[1] = "cast"  -> t[2] = CT_INT
      [] t[1] \in {"unary", "postfix"} -> t[2] = "!" \/ IntShaped(t[3])
      [] t[1] = "binary" -> IF t[2] \in Assignments THEN LocalType(t[3]) = CT_INT
                            ELSE t[2] \in {"&&", "||"} \/ (IntShaped(t[3]) /\ IntShaped(t[4]))
      [] OTHER -> FALSE

\* int_expression: operands expected to be ints, which are looked at again once they have run.
IntExpression(op, left, right) ==
    IF left.type = CT_INT /\ right.type = CT_INT THEN IntBinary(op, AsInteger(left.bits), AsInteger(right.bits))
    ELSE Binary(op, left, right)

Applied(t, left, right) ==
    IF t[2] \notin Shifts /\ IntShaped(t[3]) /\ IntShaped(t[4]) THEN IntExpression(t[2], left, right) ELSE Binary(t[2], left, right)
RightSide(t, left, right) == IF Failed(right) THEN right ELSE Outcome(Applied(t, left.value, right.value), right.store)
LeftSide(t, left) == IF Failed(left) THEN left ELSE RightSide(t, left, Evaluate(t[4], left.store))
RunArithmetic(t, st) == LeftSide(t, Evaluate(t[3], st))

\* int_arithmetic: two locals, or a local and a constant, without evaluating either.
IntArithmetic(t, st) ==
    IF AllSet(t, st) THEN Outcome(IntBinary(t[2], IntOperand(t[3], st), IntOperand(t[4], st)), st) ELSE RunArithmetic(t, st)

Boolean(outcome) == IF Failed(outcome) THEN outcome ELSE Outcome(Integer(IF Truth(outcome.value) THEN 1 ELSE 0), outcome.store)
Decided(t, left) ==
    IF Failed(left) \/ Truth(left.value) = (t[2] = "||") THEN Boolean(left) ELSE Boolean(Evaluate(t[4], left.store))
RunLogical(t, st) == Decided(t, Evaluate(t[3], st))

Converted(outcome, type) == IF Failed(outcome) THEN outcome ELSE Outcome(Convert(outcome.value, type), outcome.store)
Chosen(t, condition) ==
    IF Failed(condition) THEN condition
    ELSE Converted(Evaluate(IF Truth(condition.value) THEN t[3] ELSE t[4], condition.store), TypeOf(t))
RunConditional(t, st) == Chosen(t, Evaluate(t[2], st))

RunCast(t, st) == Converted(Evaluate(t[3], st), t[2])

Operated(op, operand) ==
    IF op = "-" /\ operand.type = CT_INT /\ AsInteger(operand.bits) # Minimum(CT_INT) THEN Integer(-AsInteger(operand.bits))
    ELSE Unary(op, operand)
UnaryOf(op, outcome) == IF Failed(outcome) THEN outcome ELSE Outcome(Operated(op, outcome.value), outcome.store)
RunUnary(t, st) == UnaryOf(t[2], Evaluate(t[3], st))

CommaOf(t, left) == IF Failed(left) THEN left ELSE Evaluate(t[3], left.store)

\* The function runtime_prepare gives a node, or the general case.
Evaluate(t, st) ==
    CASE t[1] = "value" -> Outcome(t[2], st)
      [] t[1] = "name"  -> Outcome(Load(t[2], st), st)
      [] t[1] = "sizeof"   -> Outcome(Wrap(CT_ULONG, Bytes[TypeOf(t[2])]), st)
      [] t[1] = "sizetype" -> Outcome(Wrap(CT_ULONG, Bytes[t[2]]), st)
      [] t[1] = "cast"  -> RunCast(t, st)
      [] t[1] = "comma" -> CommaOf(t, Evaluate(t[2], st))
      [] t[1] = "conditional" -> RunConditional(t, st)
      [] t[1] \in {"unary", "postfix"} -> IF t[2] \in Steps THEN Step(t, st) ELSE RunUnary(t, st)
      [] t[1] = "binary" ->
           CASE t[2] \in Assignments  -> RunAssignment(t, st)
             [] t[2] \in {"&&", "||"} -> RunLogical(t, st)
             [] OTHER -> IF t[2] \notin Shifts /\ IntPair(t) THEN IntArithmetic(t, st) ELSE RunArithmetic(t, st)

\* test_int: a statement that asks for no more than the truth compares local ints itself.
TestInt(t, st) ==
    IF AllSet(t, st) THEN Outcome(Compared(t[2], IntOperand(t[3], st), IntOperand(t[4], st)), st) ELSE Evaluate(t, st)

Condition(t, st) ==
    Boolean(IF t[1] = "binary" /\ t[2] \in Comparisons /\ IntPair(t) THEN TestInt(t, st) ELSE Evaluate(t, st))

-----------------------------------------------------------------------------
(* The optimizer. *)

IsConstant(t) == t[1] = "value"

\* A defect to test the properties with: an operand that decides nothing is dropped as well.
EitherDecides(t) ==
    CASE t[1] = "unary" -> t[2] \in UnaryOperators /\ IsConstant(t[3])
      [] t[1] = "binary" -> /\ t[2] \notin Assignments
                            /\ IsConstant(t[3])
                            /\ t[2] \in {"&&", "||"} \/ IsConstant(t[4])
      [] t[1] = "conditional" -> \A k \in 2..4 : IsConstant(t[k])
      [] t[1] = "cast"   -> IsConstant(t[3])
      [] t[1] = "comma"  -> IsConstant(t[2]) /\ IsConstant(t[3])
      [] t[1] = "sizeof" -> IsConstant(t[2])
      [] OTHER -> t[1] = "sizetype"

Foldable(t) ==
    CASE t[1] = "unary" -> t[2] \in UnaryOperators /\ IsConstant(t[3])
      [] t[1] = "binary" ->
           /\ t[2] \notin Assignments
           /\ IsConstant(t[3])
           /\ \/ t[2] \in {"&&", "||"} /\ Truth(t[3][2]) = (t[2] = "||")
              \/ IsConstant(t[4])
      [] t[1] = "conditional" -> \A k \in 2..4 : IsConstant(t[k])
      [] t[1] = "cast"   -> IsConstant(t[3])
      [] t[1] = "comma"  -> IsConstant(t[2]) /\ IsConstant(t[3])
      [] t[1] = "sizeof" -> IsConstant(t[2])
      [] OTHER -> t[1] = "sizetype"

\* runtime_fold: a constant that fails to evaluate is left to fail when it runs.
Folded(t, outcome) == IF Failed(outcome) THEN t ELSE <<"value", outcome.value>>
Fold(t) == IF Foldable(t) THEN Folded(t, Evaluate(t, store)) ELSE t

RECURSIVE Optimized(_)
Optimized(t) ==
    Fold(CASE t[1] = "sizeof" -> <<t[1], Optimized(t[2])>>
           [] t[1] = "comma"  -> <<t[1], Optimized(t[2]), Optimized(t[3])>>
           [] t[1] = "binary" -> <<t[1], t[2], Optimized(t[3]), Optimized(t[4])>>
           [] t[1] = "conditional" -> <<t[1], Optimized(t[2]), Optimized(t[3]), Optimized(t[4])>>
           [] t[1] \in {"unary", "postfix", "cast"} -> <<t[1], t[2], Optimized(t[3])>>
           [] OTHER -> t)

-----------------------------------------------------------------------------
Open(where, tokens, contents) ==
    /\ place = where
    /\ text = tokens
    /\ store = contents
    /\ parsed = At(1, NoTree)
    /\ code = NoTree
    /\ shown = Failure
    /\ runs = 0
Init ==
    \E scene \in Scenes : \E where \in scene.places, tokens \in scene.texts, contents \in scene.stores :
        Open(where, tokens, contents)

\* A line that is cut short is asked for again with more of it, which is another text.
Parse ==
    /\ parsed = At(1, NoTree)
    /\ parsed' = Expect(WholeText, CommaExpression(WholeText, 1), Terminator)
    /\ UNCHANGED <<place, text, code, store, shown, runs>>

Optimize ==
    /\ parsed.status = "ok" /\ parsed.tree # NoTree /\ code = NoTree
    /\ code' = Optimized(parsed.tree)
    /\ UNCHANGED <<place, text, parsed, store, shown, runs>>

\* A failure ends what was running; the tree may run again.
Run ==
    /\ code # NoTree /\ runs < MaxRuns
    /\ \E outcome \in {IF place = "if" THEN Condition(code, store) ELSE Evaluate(code, store)} :
          shown' = outcome.value /\ store' = outcome.store
    /\ runs' = runs + 1
    /\ UNCHANGED <<place, text, parsed, code>>

Next == Parse \/ Optimize \/ Run
Spec == Init /\ [][Next]_vars

-----------------------------------------------------------------------------
IsParsed == parsed # At(1, NoTree)

\* A text the parser accepts has the one tree C's grammar derives from it, with the
\* types C gives its literals; a text it refuses has none; and a line is asked for again
\* exactly when more tokens would complete it (parser.c: expression, primary, fail_at).
ParsesAsC ==
    IsParsed => /\ Trees(text) = IF parsed.status = "ok" THEN {parsed.tree} ELSE {}
                /\ place = "line" /\ Len(text) <= 3 /\ parsed.status # "ok" =>
                     (parsed.status = "incomplete") = (\E more \in Completions : Trees(text \o more) # {})

Number(value) == IF IsSigned(value.type) THEN AsInteger(value.bits) ELSE value.bits
Held(st) == [name \in DOMAIN st |-> IF st[name] = Unset THEN Indeterminate ELSE Number(Load(name, st))]

\* What long long counts as the operands' own types do: nothing unsigned from int up.
RECURSIVE InLongLong(_)
InLongLong(t) ==
    /\ CType(t) \notin {CT_BOOL, CT_UINT, CT_ULONG, CT_ULLONG}
    /\ CASE t[1] \in {"unary", "postfix", "cast"} -> InLongLong(t[3])
         [] t[1] = "binary" -> InLongLong(t[3]) /\ InLongLong(t[4])
         [] t[1] = "conditional" -> \A k \in 2..4 : InLongLong(t[k])
         [] OTHER -> TRUE

\* Whenever an expression runs, folded or not, through whichever shortcut, it gives the
\* value and the type C gives it and leaves in the objects what C leaves, and it fails
\* exactly where C defines nothing.  The parser's evaluator of constants agrees, as far as
\* long long can tell (interpreter.c: evaluate, binary, runtime_prepare; parser.c: constant_value).
ValuesAsC ==
    [][runs' = runs + 1 =>
        \A meaning \in {Meaning(parsed.tree, Held(store))} :
            /\ (shown' # Failure) = meaning.defined
            /\ Held(store') = meaning.env
            /\ meaning.defined /\ place # "if" => shown'.type = CType(parsed.tree) /\ Number(shown') = meaning.n
            /\ meaning.defined /\ place = "if" => Truth(shown') = (meaning.n # 0)
            /\ meaning.defined /\ InLongLong(parsed.tree) => ConstantValue(parsed.tree) \subseteq {meaning.n}]_vars
==============================================================================
