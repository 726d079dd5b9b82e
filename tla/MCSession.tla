----------------------------- MODULE MCSession -----------------------------
(***************************************************************************)
(* The lines typed at the prompt in the runs of Session: a structure       *)
(* declared ahead, defined in one line with a variable of it, or in two    *)
(* that fail after it; a macro, a scalar variable and a function in one.   *)
(***************************************************************************)
EXTENDS Session

CONSTANTS tagS, memberA, nameX, nameF, macroM

MCTags    == {tagS}
MCMembers == {memberA}
MCNames   == {nameX, nameF}
MCMacros  == {macroM}

TypeLines ==
  { << <<"forward", tagS>> >>,
    << <<"begin", tagS>>, <<"member", memberA>> >>,
    << <<"end">>, <<"fault">> >>,
    << <<"begin", tagS>>, <<"member", memberA>>, <<"end">>, <<"variable", nameX, tagS, FALSE>> >> }

NameLines ==
  { << <<"macro", macroM>>, <<"variable", nameX, "int", TRUE>>, <<"function", nameF>> >> }

MCLines == TypeLines \cup NameLines \cup { << <<"bad">> >> }
=============================================================================
