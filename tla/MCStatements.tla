---------------------------- MODULE MCStatements ----------------------------
(***************************************************************************)
(* Function bodies for Statements and NameBinding: every loop, if and      *)
(* switch around short lists of jumps, labels and expressions, and what    *)
(* may come before and after; and functions that declare the name of their *)
(* parameter once more.  Expressions are numbered so that no two events    *)
(* look alike.                                                             *)
(***************************************************************************)
EXTENDS NameBinding

Expr(n)      == [k |-> "expr", e |-> n]
Ret(n)       == [k |-> "return", e |-> n]
Static(n)    == [k |-> "static", e |-> n]
Decl(n)      == [k |-> "decl", e |-> n]
Group(l)     == [k |-> "group", items |-> l]
Label(a)     == [k |-> "label", name |-> a]
Goto(a, n)   == [k |-> "goto", name |-> a, id |-> n]
CaseOf(w)    == [k |-> "case", v |-> w]
Block(l)     == [k |-> "block", items |-> l]
If(t, y, n)  == [k |-> "if", c |-> t, then |-> y, else |-> n]
While(t, b)  == [k |-> "while", c |-> t, body |-> b]
DoWhile(t, b) == [k |-> "do", c |-> t, body |-> b]
For(i, t, u, b) == [k |-> "for", init |-> i, c |-> t, step |-> u, body |-> b]
Switch(l)    == [k |-> "switch", items |-> l]
Break        == [k |-> "break"]
ContinueLoop == [k |-> "continue"]
Empty        == [k |-> "empty"]

\* A loop's list: a decision, then two more statements.  Everything is numbered
\* so that a program is a short name.
Inner   == <<Expr(1), Break, ContinueLoop, Goto("L", 1), Goto("M", 1), Ret(2)>>
Decided(n, x) == CASE n = 1 -> If("T", Inner[x], Expr(5))
                   [] n = 2 -> If("F", Inner[x], None)
                   [] n = 3 -> If("t2", Inner[x], None)
Body(n) == Block(<<Decided(n[1], n[2])>> \o
    << <<Expr(3), Group(<<Static(4)>>)>>, <<Label("M"), Group(<<Static(4)>>)>>, <<Label("M"), Break>> >>[n[3]])
Loop_(n, b) == CASE n = 1 -> While("T", b)
                 [] n = 2 -> While("t1", b)
                 [] n = 3 -> DoWhile("t1", b)
                 [] n = 4 -> DoWhile("F", b)
                 [] n = 5 -> For(Group(<<Decl(7)>>), "T", Expr(8), b)
\* The label L stands in front of the loop or behind it.
LoopPrograms == [n \in (1 .. 3) \X (1 .. 6) \X (1 .. 3) \X (1 .. 5) \X (1 .. 2) |->
    IF n[5] = 1 THEN <<Label("L"), Loop_(n[4], Body(n)), Expr(9)>>
                ELSE <<Loop_(n[4], Body(n)), Expr(9), Label("L"), Ret(10)>>]

\* A switch in a loop; its cases fall through, jump out, or declare.
FirstCase  == <<Expr(1), Empty, If("t1", Break, None),
                If("t1", Block(<<Break>>), None), Group(<<Decl(1)>>)>>
Between    == <<Expr(2), Break, Goto("L", 1), Goto("M", 2)>>
SecondCase == <<Break, Expr(3), ContinueLoop, Goto("M", 2)>>
LastCase   == <<Label("M"), Expr(5), Ret(6)>>
SwitchPrograms == [n \in (1 .. 5) \X (1 .. 4) \X (1 .. 4) \X (1 .. 3) |->
    <<Label("L"), While("t2", Block(<<
        Switch(<<CaseOf("1"), FirstCase[n[1]], Between[n[2]], CaseOf("2"), SecondCase[n[3]],
                 CaseOf("default"), LastCase[n[4]]>>), Expr(7)>>)), Expr(8)>>]

\* The parameter is x, and so are declarations 4, 7 and 11; 13 is a y that hides a global.
MCParameters == <<Decl(20)>>
MCNamed      == 1 :> "y" @@ 13 :> "y" @@ [e \in {4, 7, 11, 20} |-> "x"]
MCMentions   == [e \in {2, 3, 8, 14, 15} |-> {"x"}] @@ 9 :> {"x", "y"} @@ 13 :> {"y"}
MCAsks       == [c \in {"t1", "t3"} |-> {"x"}]

\* Another x inside; its use may leave a temporary (14) or take its address (15).
Shape(a, u) ==
    CASE a = 1 -> Block(<<Expr(2), Group(<<Decl(7)>>), u>>)
      [] a = 2 -> If("t1", Group(<<Decl(7)>>), u)
      [] a = 3 -> Switch(<<CaseOf("1"), Group(<<Decl(7)>>), CaseOf("2"), u>>)
      [] a = 4 -> For(Group(<<Decl(7)>>), "t1", Expr(8), Block(<<Group(<<Static(4)>>), u>>))
      [] a = 5 -> For(None, "t1", Expr(8), Block(<<If("t2", Break, None), Group(<<Decl(7)>>), u>>))
      [] a = 6 -> DoWhile("t1", Block(<<If("t3", ContinueLoop, None), Group(<<Decl(7)>>), u>>))
      [] a = 7 -> Block(<<If("t1", Goto("K", 1), None), Group(<<Decl(7)>>), Label("K"), u>>)
      [] a = 8 -> Block(<<Group(<<Decl(7)>>), If("t1", Block(<<Group(<<Static(4)>>), u>>), Expr(8))>>)
NamePrograms == [n \in (1 .. 8) \X (1 .. 3) \X (1 .. 3) |->
    <<Shape(n[1], Expr(<<3, 14, 15>>[n[2]])),
      <<Empty, Group(<<Decl(13)>>), If("t2", Ret(0), None)>>[n[3]],
      <<Empty, Empty, Group(<<Decl(11)>>)>>[n[3]],
      Ret(9)>>]

PassingPrograms == NamePrograms @@ LoopPrograms @@ SwitchPrograms

\* A label that stands before the case that is entered.
EarlierLabel == [n \in 1 .. 2 |->
    <<Switch(<<CaseOf("1"), Label("M"), Expr(1), Break, CaseOf("2"), Expr(2),
               <<If("t1", Goto("M", 1), None), Goto("M", 1)>>[n]>>), Expr(3)>>]
=============================================================================
