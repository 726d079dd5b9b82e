----------------------------- MODULE CExpressions -----------------------------
(***************************************************************************)
(* What C says of an expression, to compare the interpreter with: the      *)
(* trees its grammar derives from a text (C17 6.5) and what a tree means,  *)
(* computed with numbers and no words.  C leaves the order of operands     *)
(* open; here it is from left to right, and an assignment with an operator *)
(* reads its own object first.                                             *)
(*                                                                         *)
(* A tree is a tuple that begins with its form.  An object's number is     *)
(* Indeterminate until it is stored.                                       *)
(***************************************************************************)
EXTENDS Arithmetic, Sequences, FiniteSets

CONSTANTS Variables,      \* from the names of a text to their types
          ReadOnly,       \* the names declared const
          Literals,       \* from literals to their value and suffixes
          TypeWords,      \* from type names of one word to their types
          Bytes           \* what sizeof says of each type

ASSUME NamesAssumption ==
    /\ Variables \in [DOMAIN Variables -> IntegerTypes] /\ ReadOnly \subseteq DOMAIN Variables
    /\ TypeWords \in [DOMAIN TypeWords -> IntegerTypes]
    /\ Bytes \in [IntegerTypes -> 1..Maximum(CT_ULONG)]

\* The operators of each level of the grammar, which groups them from the left.
Levels == << {"||"}, {"&&"}, {"|"}, {"^"}, {"&"}, {"==", "!="}, {"<", ">", "<=", ">="},
             {"<<", ">>"}, {"+", "-"}, {"*", "/", "%"} >>
BaseOf == [op \in {"+=", "-=", "*=", "/=", "<<="} |->
              CASE op = "+=" -> "+" [] op = "-=" -> "-" [] op = "*=" -> "*" [] op = "/=" -> "/" [] op = "<<=" -> "<<"]
Assignments == {"="} \cup DOMAIN BaseOf
Steps       == {"++", "--"}
UnaryOperators == {"+", "-", "!", "~"}
Indeterminate == Maximum(CT_ULLONG) + 1   \* no object holds it

-----------------------------------------------------------------------------
(* The types (C17 6.3.1, 6.4.4.1). *)

Holds(type, other) == Minimum(type) <= Minimum(other) /\ Maximum(other) <= Maximum(type)
Smallest(S) == CHOOSE t \in S : \A u \in S : t <= u

CPromoted(type) == IF type >= CT_INT THEN type ELSE IF Holds(CT_INT, type) THEN CT_INT ELSE CT_UINT

\* From int up each type ranks below the next: operands meet at the first that neither
\* ranks above, and that holds all the values of an unsigned one.
CCommon(left, right) ==
    LET operands == {CPromoted(left), CPromoted(right)}
    IN Smallest({t \in CT_INT..CT_ULLONG : \A o \in operands : t >= o /\ (IsSigned(o) \/ Holds(t, o))})

\* A literal is of the first type that its suffixes allow and that holds it, if there is one.
CLiteral(l) ==
    LET allowed == {t \in CT_INT..CT_ULLONG : /\ l.value <= Maximum(t)
                                              /\ t >= CT_INT + 2 * l.longs
                                              /\ IF IsSigned(t) THEN ~l.unsigned ELSE l.unsigned \/ l.octal}
    IN {Value(t, l.value) : t \in {t \in allowed : \A u \in allowed : t <= u}}

-----------------------------------------------------------------------------
(* The grammar: the trees of s[i..j], of each kind of phrase. *)

TypeName(s, i) == i + 2 <= Len(s) /\ s[i] = "(" /\ s[i + 1] \in DOMAIN TypeWords /\ s[i + 2] = ")"

RECURSIVE CommaTrees(_, _, _), AssignmentTrees(_, _, _), ConditionalTrees(_, _, _), BinaryTrees(_, _, _, _),
          CastTrees(_, _, _), UnaryTrees(_, _, _), PostfixTrees(_, _, _)

CommaTrees(s, i, j) ==
    AssignmentTrees(s, i, j) \cup
    UNION {{<<"comma", l, r>> : l \in CommaTrees(s, i, m - 1), r \in AssignmentTrees(s, m + 1, j)}
           : m \in {m \in (i + 1)..(j - 1) : s[m] = ","}}

\* Only an object can be assigned to.
AssignmentTrees(s, i, j) ==
    ConditionalTrees(s, i, j) \cup
    UNION {{<<"binary", s[m], l, r>> : l \in {t \in CastTrees(s, i, m - 1) : t[1] = "name"},
                                       r \in AssignmentTrees(s, m + 1, j)}
           : m \in {m \in (i + 1)..(j - 1) : s[m] \in Assignments}}

ConditionalTrees(s, i, j) ==
    BinaryTrees(s, i, j, 1) \cup
    UNION {{<<"conditional", c, a, b>> : c \in BinaryTrees(s, i, m[1] - 1, 1),
                                         a \in CommaTrees(s, m[1] + 1, m[2] - 1),
                                         b \in ConditionalTrees(s, m[2] + 1, j)}
           : m \in {m \in ((i + 1)..(j - 1)) \X ((i + 1)..(j - 1)) : m[1] < m[2] /\ s[m[1]] = "?" /\ s[m[2]] = ":"}}

BinaryTrees(s, i, j, level) ==
    IF level > Len(Levels) THEN CastTrees(s, i, j)
    ELSE BinaryTrees(s, i, j, level + 1) \cup
         UNION {{<<"binary", s[m], l, r>> : l \in BinaryTrees(s, i, m - 1, level),
                                            r \in BinaryTrees(s, m + 1, j, level + 1)}
                : m \in {m \in (i + 1)..(j - 1) : s[m] \in Levels[level]}}

CastTrees(s, i, j) ==
    UnaryTrees(s, i, j) \cup
    (IF j > i + 2 /\ TypeName(s, i) THEN {<<"cast", TypeWords[s[i + 1]], t>> : t \in CastTrees(s, i + 3, j)} ELSE {})

\* C has no cast directly under ++ and --, and no ++ or -- after sizeof(type); the parser
\* takes them and leaves the object it does not find to be refused when they run.
UnaryTrees(s, i, j) ==
    PostfixTrees(s, i, j) \cup
    (IF i <= j /\ s[i] \in UnaryOperators \cup Steps
     THEN {<<"unary", s[i], t>> : t \in CastTrees(s, i + 1, j)} ELSE {}) \cup
    (IF i <= j /\ s[i] = "sizeof" THEN {<<"sizeof", t>> : t \in UnaryTrees(s, i + 1, j)} ELSE {})

PostfixTrees(s, i, j) ==
    CASE i > j -> {}
      [] i = j /\ s[i] \in DOMAIN Variables -> {<<"name", s[i]>>}
      [] i = j /\ s[i] \in DOMAIN Literals  -> {<<"value", v>> : v \in CLiteral(Literals[s[i]])}
      [] i < j /\ s[j] \in Steps            -> {<<"postfix", s[j], t>> : t \in PostfixTrees(s, i, j - 1)}
      [] i + 3 = j /\ s[i] = "sizeof" /\ TypeName(s, i + 1) -> {<<"sizetype", TypeWords[s[i + 2]]>>}
      [] i < j /\ s[i] = "(" /\ s[j] = ")"  -> CommaTrees(s, i + 1, j - 1)
      [] OTHER -> {}

Trees(s) == CommaTrees(s, 1, Len(s))

RECURSIVE CType(_)
CType(t) ==
    CASE t[1] = "name"    -> Variables[t[2]]
      [] t[1] = "value"   -> t[2].type
      [] t[1] = "cast"    -> t[2]
      [] t[1] \in {"sizeof", "sizetype"} -> CT_ULONG
      [] t[1] = "comma"   -> CType(t[3])
      [] t[1] = "postfix" \/ (t[1] = "unary" /\ t[2] \in Steps) -> CType(t[3])
      [] t[1] = "unary" /\ t[2] = "!" -> CT_INT
      [] t[1] = "unary" /\ t[2] \in UnaryOperators \ {"!"} -> CPromoted(CType(t[3]))
      [] t[1] = "conditional" -> CCommon(CType(t[3]), CType(t[4]))
      [] t[1] = "binary" /\ t[2] \in Assignments -> CType(t[3])
      [] t[1] = "binary" /\ t[2] \in Comparisons \cup {"&&", "||"} -> CT_INT
      [] t[1] = "binary" /\ t[2] \in Shifts -> CPromoted(CType(t[3]))
      [] OTHER -> CCommon(CType(t[3]), CType(t[4]))

-----------------------------------------------------------------------------
(* The meaning of a tree when the objects hold env: a number and what they hold then,  *)
(* or nothing where C leaves the expression undefined, which the interpreter refuses.  *)

Means(n, env)  == [defined |-> TRUE, n |-> n, env |-> env]
Undefined(env) == [defined |-> FALSE, n |-> 0, env |-> env]

CConverted(n, type) ==
    LET m == n % 2^Width[type]
    IN CASE type = CT_BOOL -> IF n = 0 THEN 0 ELSE 1
         [] type # CT_BOOL /\ m > Maximum(type) -> m - 2^Width[type]
         [] OTHER -> m

\* What an operator computes for two operands of the common type.
COperation(op, a, b, type) ==
    LET n == Exact(op, a, b)
    IN CASE op \in Divisions /\ b = 0 -> {}
         [] ~(op \in Divisions /\ b = 0) /\ ~IsSigned(type) -> {n % 2^Width[type]}
         [] op \in Divisions /\ b # 0 /\ IsSigned(type) /\ Quotient(a, b) > Maximum(type) -> {}
         [] OTHER -> {n} \cap Minimum(type)..Maximum(type)

CShift(op, a, count, type) ==
    CASE count \notin 0..(Width[type] - 1) -> {}
      [] op = ">>" /\ count \in 0..(Width[type] - 1) -> {a \div 2^count}
      [] OTHER -> IF IsSigned(type) THEN IF a < 0 THEN {} ELSE {a * 2^count} \cap 0..Maximum(type)
                                    ELSE {(a * 2^count) % 2^Width[type]}

\* The numbers an operator may give for operands of these types: one or none.
CResult(op, a, left, b, right) ==
    LET type == CCommon(left, right)
        x == CConverted(a, type)
        y == CConverted(b, type)
    IN CASE op \in Shifts -> CShift(op, CConverted(a, CPromoted(left)), b, CPromoted(left))
         [] op \in Comparisons -> {Compared(op, x, y).bits}
         [] OTHER -> COperation(op, x, y, type)

RECURSIVE Meaning(_, _)

\* A number stored in an object, converted to its type.
Stored(name, numbers, env) ==
    IF numbers = {} \/ name \in ReadOnly THEN Undefined(env)
    ELSE LET n == CConverted(CHOOSE n \in numbers : TRUE, Variables[name])
         IN Means(n, [env EXCEPT ![name] = n])

Assigned(t, env) ==
    LET name == t[3][2]
        right == Meaning(t[4], env)
    IN CASE t[2] # "=" /\ env[name] = Indeterminate -> Undefined(env)
         [] ~(t[2] # "=" /\ env[name] = Indeterminate) /\ ~right.defined -> right
         [] OTHER -> Stored(name, IF t[2] = "=" THEN {right.n}
                                  ELSE CResult(BaseOf[t[2]], env[name], Variables[name], right.n, CType(t[4])),
                            right.env)

Stepped(t, env) ==
    IF t[3][1] # "name" \/ env[t[3][2]] = Indeterminate THEN Undefined(env)
    ELSE LET name  == t[3][2]
             after == Stored(name, CResult(IF t[2] = "++" THEN "+" ELSE "-", env[name], Variables[name], 1, CT_INT), env)
         IN IF t[1] = "postfix" /\ after.defined THEN Means(env[name], after.env) ELSE after

Meaning(t, env) ==
    CASE t[1] = "value"    -> Means(t[2].bits, env)
      [] t[1] = "name"     -> IF env[t[2]] = Indeterminate THEN Undefined(env) ELSE Means(env[t[2]], env)
      [] t[1] = "sizeof"   -> Means(Bytes[CType(t[2])], env)
      [] t[1] = "sizetype" -> Means(Bytes[t[2]], env)
      [] t[1] = "postfix" \/ (t[1] = "unary" /\ t[2] \in Steps) -> Stepped(t, env)
      [] t[1] = "binary" /\ t[2] \in Assignments -> Assigned(t, env)
      [] t[1] \in {"cast", "comma", "conditional", "binary"} \/ (t[1] = "unary" /\ t[2] \in UnaryOperators) ->
           LET first == Meaning(IF t[1] = "comma" \/ t[1] = "conditional" THEN t[2] ELSE t[3], env)
           IN IF ~first.defined THEN first
              ELSE CASE t[1] = "cast"  -> Means(CConverted(first.n, t[2]), first.env)
                     [] t[1] = "comma" -> Meaning(t[3], first.env)
                     [] t[1] = "conditional" ->
                          LET chosen == Meaning(IF first.n # 0 THEN t[3] ELSE t[4], first.env)
                          IN [chosen EXCEPT !.n = CConverted(@, CType(t))]
                     [] t[1] = "unary" ->
                          LET n == CConverted(first.n, CType(t))
                          IN CASE t[2] = "!" -> Means(IF first.n = 0 THEN 1 ELSE 0, first.env)
                               [] t[2] = "+" -> Means(n, first.env)
                               [] t[2] = "~" -> Means(CConverted(-1 - n, CType(t)), first.env)
                               [] OTHER -> LET all == COperation("-", 0, n, CType(t))
                                           IN IF all = {} THEN Undefined(first.env)
                                              ELSE Means(CHOOSE m \in all : TRUE, first.env)
                     [] t[1] = "binary" /\ t[2] \in {"&&", "||"} ->
                          IF (first.n # 0) = (t[2] = "||") THEN Means(IF t[2] = "||" THEN 1 ELSE 0, first.env)
                          ELSE LET second == Meaning(t[4], first.env)
                               IN [second EXCEPT !.n = IF @ = 0 THEN 0 ELSE 1]
                     [] OTHER ->
                          LET second == Meaning(t[4], first.env)
                              all == CResult(t[2], first.n, CType(t[3]), second.n, CType(t[4]))
                          IN CASE ~second.defined -> second
                               [] second.defined /\ all = {} -> Undefined(second.env)
                               [] OTHER -> Means(CHOOSE m \in all : TRUE, second.env)
==============================================================================
