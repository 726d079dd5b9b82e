--------------------------- MODULE ExpressionParser ---------------------------
(***************************************************************************)
(* The parser of expressions, which climbs precedences, and its evaluator  *)
(* of constants (src/src/parser.c).  A token is its spelling.              *)
(***************************************************************************)
EXTENDS CExpressions

Precedence(kind) ==
    CASE kind \in Assignments -> 1       [] kind = "?" -> 2                [] kind = "||" -> 3
      [] kind = "&&" -> 4                [] kind = "|" -> 5                [] kind = "^" -> 6
      [] kind = "&" -> 7                 [] kind \in {"==", "!="} -> 8     [] kind \in {"<", ">", "<=", ">="} -> 9
      [] kind \in {"<<", ">>"} -> 10     [] kind \in {"+", "-"} -> 11      [] kind \in {"*", "/", "%"} -> 12
      [] OTHER -> 0

-----------------------------------------------------------------------------
(* The parser: where it is in the tokens, its status and the tree it has built. *)

NoTree == <<"none">>
At(i, tree) == [at |-> i, status |-> "ok", tree |-> tree]

\* A token that the end of the input stands for asks for more of it.
Fail(s, p) == [p EXCEPT !.status = IF s[p.at] = "end" THEN "incomplete" ELSE "error"]
Expect(s, p, kind) ==
    CASE p.status # "ok"   -> p
      [] p.status = "ok" /\ s[p.at] = kind -> [p EXCEPT !.at = @ + 1]
      [] OTHER -> Fail(s, p)

RECURSIVE Expression(_, _, _), CommaRest(_, _)

CommaExpression(s, i) == CommaRest(s, Expression(s, i, 1))
CommaRest(s, p) ==
    IF p.status # "ok" \/ s[p.at] # "," THEN p
    ELSE CommaRest(s, [Expression(s, p.at + 1, 1) EXCEPT !.tree = <<"comma", p.tree, @>>])

Literal(s, i) ==
    LET l == Literals[s[i]]
        type == LiteralType(l.value, l.unsigned, l.longs, l.octal)
    IN IF type = CT_VOID THEN [At(i, NoTree) EXCEPT !.status = "error"] ELSE At(i + 1, <<"value", Value(type, l.value)>>)

\* An operand that binds tighter than any operator between two.
Operand(s, p, form) ==
    IF p.status # "ok" THEN p ELSE [Expression(s, p.at, 13) EXCEPT !.tree = form \o <<@>>]

Primary(s, i) ==
    CASE s[i] = "(" /\ s[i + 1] \in DOMAIN TypeWords ->
           Operand(s, Expect(s, At(i + 2, NoTree), ")"), <<"cast", TypeWords[s[i + 1]]>>)
      [] s[i] = "(" /\ s[i + 1] \notin DOMAIN TypeWords -> Expect(s, CommaExpression(s, i + 1), ")")
      [] s[i] = "sizeof" /\ s[i + 1] = "(" /\ s[i + 2] \in DOMAIN TypeWords ->
           Expect(s, At(i + 3, <<"sizetype", TypeWords[s[i + 2]]>>), ")")
      [] s[i] = "sizeof" /\ ~(s[i + 1] = "(" /\ s[i + 2] \in DOMAIN TypeWords) ->
           Operand(s, At(i + 1, NoTree), <<"sizeof">>)
      [] s[i] \in UnaryOperators \cup Steps -> Operand(s, At(i + 1, NoTree), <<"unary", s[i]>>)
      [] s[i] \in DOMAIN Literals  -> Literal(s, i)
      [] s[i] \in DOMAIN Variables -> At(i + 1, <<"name", s[i]>>)
      [] OTHER -> Fail(s, At(i, NoTree))

RECURSIVE Postfix(_, _), Climb(_, _, _)
Postfix(s, p) ==
    IF p.status = "ok" /\ s[p.at] \in Steps THEN Postfix(s, At(p.at + 1, <<"postfix", s[p.at], p.tree>>)) ELSE p

\* A defect to test the properties with: an operator takes the next of its level for its right side.
GroupedFromTheRight(s, p, op) ==
    IF op \in Assignments /\ p.tree[1] # "name" THEN [p EXCEPT !.status = "error"]
    ELSE [Expression(s, p.at + 1, Precedence(op)) EXCEPT !.tree = <<"binary", op, p.tree, @>>]

\* What follows a left side and its operator.
Binaries(s, p, op) ==
    IF op \in Assignments /\ p.tree[1] # "name" THEN [p EXCEPT !.status = "error"]
    ELSE [Expression(s, p.at + 1, IF op \in Assignments THEN Precedence(op) ELSE Precedence(op) + 1)
             EXCEPT !.tree = <<"binary", op, p.tree, @>>]
Third(s, condition, p) ==
    IF p.status # "ok" THEN p ELSE [Expression(s, p.at, 2) EXCEPT !.tree = <<"conditional", condition, p.tree, @>>]
Conditional(s, p) == Third(s, p.tree, Expect(s, CommaExpression(s, p.at + 1), ":"))

Climb(s, p, minimum) ==
    IF p.status # "ok" \/ Precedence(s[p.at]) < minimum THEN p
    ELSE Climb(s, IF s[p.at] = "?" THEN Conditional(s, p) ELSE Binaries(s, p, s[p.at]), minimum)

Expression(s, i, minimum) == Climb(s, Postfix(s, Primary(s, i)), minimum)

-----------------------------------------------------------------------------
RECURSIVE TypeOf(_)

\* expression_type: what an expression's type is, without running it.
TypeOf(t) ==
    CASE t[1] = "value" -> t[2].type
      [] t[1] = "name"  -> Variables[t[2]]
      [] t[1] = "cast"  -> t[2]
      [] t[1] = "comma" -> TypeOf(t[3])
      [] t[1] \in {"sizeof", "sizetype"} -> CT_ULONG
      [] t[1] \in {"unary", "postfix"} -> CASE t[2] = "!" -> CT_INT
                                            [] t[2] \in Steps -> TypeOf(t[3])
                                            [] OTHER -> Promoted(TypeOf(t[3]))
      [] t[1] = "binary" -> CASE t[2] \in Assignments -> TypeOf(t[3])
                              [] t[2] \in Shifts -> Promoted(TypeOf(t[3]))
                              [] t[2] \in Comparisons \cup {"&&", "||"} -> CT_INT
                              [] OTHER -> Common(TypeOf(t[3]), TypeOf(t[4]))
      [] t[1] = "conditional" -> Common(TypeOf(t[3]), TypeOf(t[4]))

-----------------------------------------------------------------------------
(* constant_value: the parser's own evaluator, for array bounds and the like, which counts *)
(* in long long and gives up where an int would not hold an operand.                       *)

RECURSIVE ConstantValue(_)

ConstantBinary(op, a, b) ==
    CASE {a, b} \cap Minimum(CT_INT)..Maximum(CT_INT) # {a, b} -> {}
      [] op \in Divisions /\ b = 0 -> {}
      [] op \in Shifts /\ (b \notin 0..(Width[CT_INT] - 1) \/ (op = "<<" /\ a < 0)) -> {}
      [] op = "<<" -> {a * 2^b}
      [] op = ">>" -> {a \div 2^b}
      [] op \in Comparisons -> {Compared(op, a, b).bits}
      [] op \in {"&&", "||"} -> {IF b # 0 THEN 1 ELSE 0}
      [] OTHER -> {Exact(op, a, b)}

\* One number, or none where it gives up.
ConstantValue(t) ==
    CASE t[1] = "value"    -> {AsInteger(t[2].bits)}
      [] t[1] = "sizeof"   -> {Bytes[TypeOf(t[2])]}
      [] t[1] = "sizetype" -> {Bytes[t[2]]}
      [] t[1] = "cast"     -> {AsInteger(Wrap(t[2], Bits(n)).bits) : n \in ConstantValue(t[3])}
      [] t[1] = "unary"    -> CASE t[2] = "+" -> ConstantValue(t[3])
                                [] t[2] = "-" -> {-n : n \in ConstantValue(t[3]) \ {Minimum(CT_LLONG)}}
                                [] t[2] = "~" -> {-1 - n : n \in ConstantValue(t[3])}
                                [] t[2] = "!" -> {IF n = 0 THEN 1 ELSE 0 : n \in ConstantValue(t[3])}
                                [] OTHER -> {}
      [] t[1] = "conditional" ->
           UNION {ConstantValue(IF n # 0 THEN t[3] ELSE t[4]) : n \in ConstantValue(t[2])}
      [] t[1] = "binary" /\ t[2] \notin Assignments ->
           UNION {CASE t[2] = "&&" /\ a = 0 -> {0}
                    [] t[2] = "||" /\ a # 0 -> {1}
                    [] OTHER -> UNION {ConstantBinary(t[2], a, b) : b \in ConstantValue(t[4])} : a \in ConstantValue(t[3])}
      [] OTHER -> {}
==============================================================================
