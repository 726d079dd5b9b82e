---------------------------- MODULE MCPreprocessor ----------------------------
(***************************************************************************)
(* Lines for Preprocessor in three alphabets: nested conditionals whose    *)
(* conditions change as macros come and go, macros of every kind and texts *)
(* that call them, some over two lines, and files inside files with #line  *)
(* and #pragma once.                                                       *)
(***************************************************************************)
EXTENDS Preprocessor

A == <<"A">>    B == <<"B">>    F == <<"F">>    G == <<"G">>
X == <<"x">>    Y == <<"y">>    P == <<"p">>    Open == <<"(">>    Close == <<")">>    Comma == <<",">>
Hash == <<"#">> Paste == <<"##">>

Object(body)           == [function |-> FALSE, variadic |-> FALSE, params |-> <<>>, body |-> body]
Function(params, body) == [function |-> TRUE, variadic |-> FALSE, params |-> params, body |-> body]
Rest(params, body)     == [function |-> TRUE, variadic |-> TRUE, params |-> params, body |-> body]

Line(tokens)     == [d |-> "text", tokens |-> tokens]
Def(n, m)        == [d |-> "define", name |-> n, macro |-> m]
Undef(n)         == [d |-> "undef", name |-> n]
IfExpr(tokens)   == [d |-> "if", tokens |-> tokens]
Elif(tokens)     == [d |-> "elif", tokens |-> tokens]
Ifdef(n)         == [d |-> "ifdef", name |-> n]
Ifndef(n)        == [d |-> "ifndef", name |-> n]
PlainElse        == [d |-> "else"]
PlainEndif       == [d |-> "endif"]
Bad              == [d |-> "error"]
PragmaOnce(b)    == [d |-> "pragma", once |-> b]
LineOf(n, name)  == [d |-> "line", number |-> n, name |-> name]
IncludeOf(n, system, missing) == [d |-> "include", name |-> n, system |-> system, missing |-> missing]

Conditionals == {Line(<<X>>), Def(A, Object(<< <<"1">> >>)), Undef(A), Ifdef(A), IfExpr(<<A>>),
                 Elif(<< <<"defined">>, A >>), PlainElse, PlainEndif}

Expansions == {Def(A, Object(<<B, P>>)), Def(B, Object(<<A>>)),
               Def(F, Function(<<X>>, <<X, Comma, A>>)), Def(G, Function(<<X, Y>>, <<X, Paste, Y, X>>)),
               Def(G, Rest(<<X, Y>>, <<F, Open, Y, Close, Hash, X>>)),
               Line(<<F, Open, F, Open, A, Close, Close, F>>),
               Line(<<G, Open, F, Open, A, Close, Comma, Open, B, Comma, X, Close, Close>>),
               Line(<<F, Open, G, Comma>>), Line(<<G, Open, P, Comma>>), Line(<<A, Close>>)}

Includes == {Line(<< <<"__LINE__">>, <<"__FILE__">> >>), LineOf(7, ""), LineOf(3, "g.c"),
             PragmaOnce(TRUE), Ifndef(A), PlainEndif, Bad,
             IncludeOf("h.h", FALSE, FALSE), IncludeOf("k.h", FALSE, TRUE), IncludeOf("stdarg.h", TRUE, FALSE)}

MCAlphabets  == {Conditionals, Expansions, Includes}
MCPredefined == (<<"__STDC__">> :> Object(<< <<"1">> >>))
==============================================================================
