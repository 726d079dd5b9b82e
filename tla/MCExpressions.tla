----------------------------- MODULE MCExpressions -----------------------------
(***************************************************************************)
(* Lines of a session: an expression, or declarations.                     *)
(*                                                                         *)
(* Expressions on integers of two to five bits: every text of up to five   *)
(* tokens over six small alphabets, and every operator on operands of      *)
(* every pair of types whose contents are the corners of their ranges.     *)
(*                                                                         *)
(* Declarations after a typedef: every declarator of up to three steps,    *)
(* every text of up to five tokens over two alphabets, every four          *)
(* specifiers, aggregates of up to three members, and every three of       *)
(* fifteen lines, the end of the last interpreter among them.              *)
(***************************************************************************)
EXTENDS Expressions, Declarations, TLC

CONSTANT Scripts     \* the sessions that declare

MCWidth == [t \in IntegerTypes |-> CASE t <= CT_UCHAR -> 2 [] t <= CT_USHORT -> 3 [] t <= CT_UINT -> 4 [] OTHER -> 5]
MCBytes == [t \in IntegerTypes |-> CASE t <= CT_UCHAR -> 1 [] t <= CT_USHORT -> 2 [] t <= CT_UINT -> 4 [] OTHER -> 8]

Operands == [bool1 |-> CT_BOOL, char1 |-> CT_CHAR, ushort1 |-> CT_USHORT, int1 |-> CT_INT,
             uint1 |-> CT_UINT, long1 |-> CT_LONG, ulong1 |-> CT_ULONG, llong1 |-> CT_LLONG]
Others   == [bool2 |-> CT_BOOL, uchar2 |-> CT_UCHAR, short2 |-> CT_SHORT, int2 |-> CT_INT,
             uint2 |-> CT_UINT, long2 |-> CT_LONG, ulong2 |-> CT_ULONG, ullong2 |-> CT_ULLONG]
Fixed    == [const |-> CT_INT, a |-> CT_CHAR]
MCVariables == Operands @@ Others @@ Fixed
MCLocal     == {"bool1", "char1", "int1", "uint1", "uchar2", "int2", "ulong2", "const"}

Decimal(n, unsigned, longs) == [value |-> n, unsigned |-> unsigned, longs |-> longs, octal |-> FALSE]
MCLiterals == ("1" :> Decimal(1, FALSE, 0)) @@ ("7" :> Decimal(7, FALSE, 0)) @@ ("9" :> Decimal(9, FALSE, 0))
              @@ ("1u" :> Decimal(1, TRUE, 0)) @@ ("2l" :> Decimal(2, FALSE, 1)) @@ ("20" :> Decimal(20, FALSE, 0))
              @@ ("0x9" :> [Decimal(9, FALSE, 0) EXCEPT !.octal = TRUE]) @@ ("0" :> Decimal(0, FALSE, 0))
              @@ ("2" :> Decimal(2, FALSE, 0)) @@ ("3" :> Decimal(3, FALSE, 0))
MCTypeWords == ("bool" :> CT_BOOL) @@ ("char" :> CT_CHAR)

\* The corners of a type's range, as bits; an object of a type no corner is in holds its largest value.
Corner(type, bits) == IF type = CT_BOOL THEN IF bits = 0 THEN 0 ELSE 1 ELSE bits
Pick(type, k) == Corner(type, CASE k = 0 -> 0 [] k = 1 -> 1 [] k = 2 -> Mask(type) \div 2
                                [] k = 3 -> Mask(type) \div 2 + 1 [] k = 4 -> Mask(type))
Contents(k, l) ==
    [name \in DOMAIN MCVariables |-> LET corner == IF name \in DOMAIN Operands THEN k ELSE l
                                     IN IF corner = 5 THEN Unset ELSE Pick(MCVariables[name], corner)]

\* A bracket after the name of a type would begin a longer name.
Phrases(alphabet, n) ==
    {s \in UNION {[1..k -> alphabet] : k \in 1..n} :
        /\ s[1] \notin DOMAIN MCTypeWords
        /\ \A i \in 1..(Len(s) - 1) : s[i] \in DOMAIN MCTypeWords => s[i + 1] \notin {"("} \cup DOMAIN MCTypeWords}

Scene(texts, places, stores) == [texts |-> texts, places |-> places, stores |-> stores]
Syntax(alphabet, n, k) == Scene(Phrases(alphabet, n), {"line"}, {Contents(k, 1)})

Operators == {"+", "-", "*", "/", "%", "&", "|", "^", "<<", ">>", "==", "!=", "<", ">", "<=", ">=", "&&", "||"}
Pairs(left, ops, right) == {<<l, op, r>> : l \in left, op \in ops, r \in right}

MCScenes ==
    { Syntax({"int1", "7", "+", "*", "<<", "-"}, 5, 2),
      Syntax({"int1", "const", "=", "-=", ",", "<<="}, 5, 4),
      Syntax({"char1", "(", ")", "bool", "sizeof", "++"}, 5, 4),
      Syntax({"uint1", "9", "0x9", "20", "?", ":", "<"}, 5, 1),
      Syntax({"int1", "0", "2l", "&&", "||", "++"}, 5, 0),
      Syntax({"1u", "9", "2l", "-", ">>", "~", "!"}, 5, 0),
      Scene(Pairs(DOMAIN Operands, Operators \cup {"+=", "*=", "<<=", "="}, DOMAIN Others),
            {"line"}, {Contents(k, l) : k \in 0..4, l \in 0..4}),
      Scene(Pairs(DOMAIN Operands \cap MCLocal, Operators \cup {"-=", "/=", "="}, {"7", "int2", "uchar2", "ulong2"}),
            {"return", "if"}, {Contents(k, l) : k \in 0..5, l \in 0..5}),
      Scene({<<op, name>> : op \in {"!", "~", "-", "+", "++", "--"}, name \in DOMAIN MCVariables}
            \cup {<<name, op>> : op \in {"++", "--"}, name \in DOMAIN MCVariables},
            {"line", "return"}, {Contents(k, k) : k \in 0..5}) }

\* What completes every text of up to three tokens that can be completed.
MCCompletions == {<<")">>, <<"int1">>} \cup
                 { <<"int1", ")">>, <<"int1", ")", ")">>, <<"int1", ")", ")", ")">>, <<")", "int1">>, <<")", ")">>,
                   <<")", "int1", ")">>, <<":", "int1">>, <<"int1", ":", "int1">>, <<"int1", ":", "int1", ")">>,
                   <<"int1", ")", ":", "int1">>, <<"int1", ":", "int1", ":", "int1">> }

-----------------------------------------------------------------------------
\* A name in up to n steps of a declarator.
RECURSIVE Built(_)
Wrapped(d) ==
    {<<"*">> \o d, <<"(">> \o d \o <<")">>} \cup
    {d \o suffix : suffix \in { <<"[", "2", "]">>, <<"[", "3", "]">>, <<"[", "]">>, <<"(", ")">>, <<"(", "char", "x", ")">>,
                                <<"(", "short", "*", ",", "...", ")">>,
                                <<"(", "T", "x", "[", "2", "]", ",", "void", "(", "*", ")", "(", "int", ")", ")">> }}
Built(n) == IF n = 0 THEN {<<"f">>} ELSE Built(n - 1) \cup UNION {Wrapped(d) : d \in Built(n - 1)}

Texts(alphabet, n) == UNION {[1..k -> alphabet] : k \in 1..n}
Around(before, texts, after) == {before \o text1 \o after : text1 \in texts}
AfterTypedef(texts) == {<< <<"typedef", "char", "T", ";">>, line>> : line \in texts}

Member == { <<"char", "a", ";">>, <<"int", "b", "[", "3", "]", ";">>, <<"short", "a", ",", "*", "c", ";">>,
            <<"struct", "S", "*", "d", ";">>, <<"double", "e", ";">>, <<"struct", "S", "g", ";">>,
            <<"char", "h", "(", "void", ")", ";">>, <<"char", "i", "[", "]", ";">>, <<"long", "double", "j", ";">>,
            <<"T", "(", "*", "k", ")", "[", "7", "]", ";">> }
Bodies == {<<>>} \cup Member \cup {m \o n : m, n \in Member} \cup {l \o m \o n : l, m, n \in Member}

AnyLine == { <<"struct", "S", "{", "char", "a", ";", "long", "b", ";", "}", ";">>, <<"struct", "S", ";">>,
             <<"struct", "S", "*", "f", "(", "void", ")", ";">>, <<"union", "S", "x", ";">>, <<"int", "*", "x", ";">>,
             <<"int", "*", "*", "f", ",", "(", "*", "x", ")", "[", "2", "]", ";">>, <<"struct", "S", "x", "[", "2", "]", ";">>,
             <<"char", "(", "*", "f", "(", "int", ")", ")", "(", "int", "*", ")", ";">>,
             <<"typedef", "struct", "S", "T", "[", "2", "]", ";">>, <<"T", "*", "x", ";">>,
             <<"void", "(", "*", "x", ")", "(", "T", ")", ";">>, <<"struct", "{", "int", "x", ";", "}", "x", ";">>,
             <<"void", "f", "(", "struct", "S", "*", ")", ";">>, <<"int", "x", "(">>, Restart }

MCScripts ==
    AfterTypedef(Around(<<"int">>, Built(3), <<";">>) \cup Around(<<"typedef", "void">>, Built(2), <<";">>)
                 \cup Around(<<"int">>, Texts({"*", "(", ")", "f", "[", "]", "2", "T"}, 4), <<";">>)
                 \cup Texts({"*", "(", ")", "f", "int", "const", "T", ";"}, 5)
                 \cup Around(<<"struct", "S", "{">>, Bodies, <<"}", "x", ";">>)
                 \cup Around(<<"union", "S", "{">>, Bodies, <<"}", "x", "[", "2", "]", ";">>))
    \cup {<<line>> : line \in Around(<<>>, Texts(BasicWords \ {"float"}, 4), <<"*", "x", ";">>)}
    \cup [1..3 -> AnyLine]

-----------------------------------------------------------------------------
\* A session of declarations ends with an empty line.
SessionInit ==
    \/ Init /\ OpenSession(<<>>)
    \/ Open("line", <<>>, Contents(0, 0)) /\ \E script \in Scripts : OpenSession(script)
SessionNext ==
    \/ DeclareNext /\ UNCHANGED vars
    \/ lines = <<>> /\ Next /\ UNCHANGED declarationVars
SessionSpec == SessionInit /\ [][SessionNext]_<<vars, declarationVars>>
==============================================================================
