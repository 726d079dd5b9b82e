--------------------------- MODULE Session_proofs ---------------------------
(***************************************************************************)
(* Proofs about Session, for any tags, members, names, macros, lines and   *)
(* limits.                                                                 *)
(*                                                                         *)
(* A statement is executed long after it was parsed, so what the parser    *)
(* has made sure of has to be remembered: that the type of a variable is   *)
(* complete and that a function's submission is one that will be kept.     *)
(* Both stay true because a tag, once it means a row, means that row to    *)
(* the end of the evaluation, and because rows only come and complete      *)
(* ones do not change: the table goes only with the last interpreter, and  *)
(* two hold it while one is being restored.                                *)
(*                                                                         *)
(* That a replay makes the session again is argued from what a text tells, *)
(* a piece at a time: of the tags with their members, and of the names.  A *)
(* text tells one thing.  The recorded source tells of the session, a      *)
(* saved file of the session that was saved, and the part of its text that *)
(* an evaluation has behind it of where it is; so the end of a replay is   *)
(* what was saved, and a piece that failed could not have been recorded.   *)
(***************************************************************************)
EXTENDS Session, FiniteSetTheorems, SequenceTheorems, WellFoundedInduction, TLAPS

-----------------------------------------------------------------------------
(* Numbers. *)

\* A set of natural numbers has a least one.
LEMMA LeastNatural ==
  ASSUME NEW T \in SUBSET Nat, T # {}
  PROVE  \E k \in T : \A l \in T : k <= l
<1> DEFINE less == {p \in Nat \X Nat : p[1] < p[2]}
<1>1. IsWellFoundedOn(less, Nat)
  BY NatLessThanWellFounded, Zenon DEF OpToRel
<1>2. \A l, k \in Nat : ~(<<l, k>> \in less) => k <= l
  OBVIOUS
<1> HIDE DEF less
<1>3. \E k \in T : \A l \in T : ~(<<l, k>> \in less)
  BY <1>1, WFMin
<1> QED
  BY <1>2, <1>3

\* Among the first n numbers, those of a set have a last one.
LEMMA LastOfPositions ==
  ASSUME NEW n \in Nat, NEW T \in SUBSET (1 .. n), T # {}
  PROVE  \E k \in T : \A l \in T : l <= k
<1> DEFINE distances == {n - k : k \in T}
<1>1. distances \in SUBSET Nat /\ distances # {}
  <2>1. \A k \in T : k \in 1 .. n /\ n - k \in Nat
    OBVIOUS
  <2> QED
    BY <2>1
<1>2. PICK d \in distances : \A e \in distances : d <= e
  BY <1>1, LeastNatural
<1>3. PICK k \in T : d = n - k
  OBVIOUS
<1>4. ASSUME NEW l \in T
      PROVE  l <= k
  <2>1. d <= n - l
    BY <1>2
  <2> QED
    BY <2>1, <1>3
<1> QED
  BY <1>4

-----------------------------------------------------------------------------
Row    == [members : SUBSET Members, complete : BOOLEAN]
Unit   == [tags : [Tags -> Nat], functions : SUBSET Names]
Symbol ==
  {Absent} \cup [kind : {"variable"}, type : Nat, object : BOOLEAN, initialized : BOOLEAN]
           \cup [kind : {"function"}, unit : Nat]

EvaluationRecord ==
  [mode : {"check", "submit", "load", "restore"}, phase : {"parse", "execute"},
   text : Seq(Pieces), at : Nat \ {0}, open : Nat, unit : Unit, touched : BOOLEAN,
   before : Seq(Unit) \X [Names -> Symbol] \X (SUBSET Macros) \X Seq(Pieces)]

TypeOK ==
  /\ rows \in Seq(Row) /\ references \in Nat /\ current \in Interpreters
  /\ units \in [Interpreters -> Seq(Unit)]
  /\ symbols \in [Interpreters -> [Names -> Symbol]]
  /\ macros \in [Interpreters -> SUBSET Macros]
  /\ {source, buffer, file.text} \subseteq Seq(Pieces)
  /\ eval \in [mode : {"idle", "crashed"}] \cup EvaluationRecord

\* What the parser has let pass: a variable has a complete type, and a function makes its
\* unit one to keep.
Admitted(piece) ==
  /\ piece[1] = "variable" /\ piece[3] # "int" => TagRow(piece[3]) # 0 /\ rows[TagRow(piece[3])].complete
  /\ piece[1] = "function" => piece[2] \in eval.unit.functions

EvaluationSound ==
  Evaluating =>
    /\ eval.open <= Len(rows)
    /\ \A t \in Tags : eval.unit.tags[t] <= Len(rows)
    /\ \A k \in 1 .. Len(eval.text) : k < eval.at \/ eval.phase = "execute" => Admitted(eval.text[k])
    /\ eval.phase = "execute" =>
         \A x \in Names :
           symbols[Runner][x].kind = "function" /\ symbols[Runner][x].unit > Len(units[Runner]) =>
             x \in eval.unit.functions

\* What is promised back if the evaluation is rejected.
PromiseKept ==
  Evaluating /\ (eval.phase = "parse" \/ eval.mode = "restore") =>
    eval.before = <<units[current], symbols[current], macros[current], source>>

IndInv == TypeOK /\ NothingDangles /\ EvaluationSound /\ PromiseKept

-----------------------------------------------------------------------------
(* What every step uses. *)

\* What the parts of a piece are, by its kind.
LEMMA PieceParts ==
  ASSUME NEW p \in Pieces
  PROVE  /\ p[1] \in {"forward", "begin"} => p[2] \in Tags
         /\ p[1] = "member" => p[2] \in Members
         /\ p[1] = "macro" => p[2] \in Macros
         /\ p[1] = "function" => p[2] \in Names
         /\ p[1] = "variable" => p[2] \in Names /\ p[3] \in Tags \cup {"int"} /\ p[4] \in BOOLEAN
<1>1. CASE p \in {"forward", "begin"} \X Tags
  BY <1>1
<1>2. CASE p \in {"member"} \X Members
  BY <1>2
<1>3. CASE p = <<"end">> \/ p = <<"fault">> \/ p = <<"bad">>
  BY <1>3
<1>4. CASE p \in {"macro"} \X Macros
  BY <1>4
<1>5. CASE p \in {"function"} \X Names
  BY <1>5
<1>6. CASE p \in {"variable"} \X Names \X {"int"} \X BOOLEAN
  BY <1>6
<1>7. CASE p \in {"variable"} \X Names \X Tags \X {FALSE}
  BY <1>7
<1> QED
  BY <1>1, <1>2, <1>3, <1>4, <1>5, <1>6, <1>7 DEF Pieces

\* An evaluation in progress, and where it runs.
LEMMA EvaluationParts ==
  ASSUME TypeOK, Evaluating
  PROVE  /\ eval \in EvaluationRecord
         /\ eval.at \in Nat \ {0} /\ eval.open \in Nat /\ eval.unit \in Unit /\ eval.text \in Seq(Pieces)
         /\ eval.touched \in BOOLEAN
         /\ Runner \in Interpreters /\ current \in Interpreters /\ Other(current) \in Interpreters /\ Other(current) # current
         /\ \A t \in Tags : eval.unit.tags[t] \in Nat
<1>1. eval \in EvaluationRecord
  BY DEF TypeOK, Evaluating
<1>2. current \in Interpreters /\ Other(current) \in Interpreters /\ Other(current) # current
  BY DEF TypeOK, Interpreters, Other
<1>3. eval.at \in Nat \ {0} /\ eval.open \in Nat /\ eval.unit \in Unit /\ eval.text \in Seq(Pieces) /\ eval.touched \in BOOLEAN
  BY <1>1 DEF EvaluationRecord
<1> QED
  BY <1>1, <1>2, <1>3 DEF Runner, Unit

\* What a tag means to the units an interpreter keeps is a row.
LEMMA TagInIsRow ==
  ASSUME TypeOK, NothingDangles, eval.mode # "crashed", NEW i \in Interpreters, NEW t \in Tags
  PROVE  TagIn(i, t) \in 0 .. Len(rows)
<1> DEFINE kept == {k \in 1 .. Len(units[i]) : units[i][k].tags[t] # 0}
           last == CHOOSE k \in kept : \A l \in kept : l <= k
<1>1. TagIn(i, t) = IF kept = {} THEN 0 ELSE units[i][last].tags[t]
  BY DEF TagIn
<1>2. Len(rows) \in Nat /\ Len(units[i]) \in Nat /\ units[i] \in Seq(Unit)
  BY LenProperties DEF TypeOK
<1>3. ASSUME kept # {}
      PROVE  last \in 1 .. Len(units[i])
  <2>1. \E k \in kept : \A l \in kept : l <= k
    BY <1>2, <1>3, LastOfPositions
  <2> QED
    BY <2>1
<1> HIDE DEF last
<1>4. ASSUME kept # {}
      PROVE  units[i][last].tags[t] \in 0 .. Len(rows)
  <2>1. units[i][last] \in Unit
    BY <1>2, <1>3, <1>4, ElementOfSeq
  <2>2. units[i][last].tags[t] \in Nat
    BY <2>1 DEF Unit
  <2>3. units[i][last].tags[t] <= Len(rows)
    BY <1>3, <1>4 DEF NothingDangles
  <2> QED
    BY <1>2, <2>2, <2>3
<1> QED
  BY <1>1, <1>2, <1>4

\* The row a tag leads to, the evaluation's own tags included, is one of the table's.
LEMMA TagRowIsRow ==
  ASSUME TypeOK, NothingDangles, EvaluationSound, Evaluating, NEW t \in Tags
  PROVE  TagRow(t) \in 0 .. Len(rows)
<1>1. TagIn(Runner, t) \in 0 .. Len(rows)
  BY EvaluationParts, TagInIsRow DEF Evaluating
<1>2. eval.unit.tags[t] \in Nat /\ eval.unit.tags[t] <= Len(rows) /\ Len(rows) \in Nat
  BY EvaluationParts, LenProperties DEF EvaluationSound, TypeOK
<1> QED
  BY <1>1, <1>2 DEF TagRow

-----------------------------------------------------------------------------
(* Steps that evaluate nothing. *)

\* The rows that a step may leave: it adds some, and lets complete ones alone.
RowsGrow(newRows) ==
  /\ newRows \in Seq(Row) /\ Len(rows) <= Len(newRows)
  /\ \A r \in 1 .. Len(rows) : rows[r].complete => newRows[r] = rows[r]

\* What CompleteRowsFixed and RejectedInputKeepsSession say of a step.
CompleteKept ==
  \A r \in 1 .. Len(rows) : rows[r].complete => r <= Len(rows') /\ rows'[r] = rows[r]
Returned ==
  Over /\ (eval.phase = "parse" \/ (eval.mode = "restore" /\ current' = current)) =>
    eval.before = <<units[current], symbols[current], macros[current], source>>'

Right == IndInv' /\ CompleteKept /\ Returned

\* The session starts empty.
LEMMA InitIndInv == Init => IndInv
<1> SUFFICES ASSUME Init PROVE IndInv
  OBVIOUS
<1>1. NoSymbols \in [Names -> Symbol] /\ \A x \in Names : NoSymbols[x].kind = "absent"
  BY DEF NoSymbols, Symbol, Absent
<1>2. <<>> \in Seq(Unit) /\ <<>> \in Seq(Pieces) /\ <<>> \in Seq(Row) /\ Len(<<>>) = 0
  OBVIOUS
<1>3. TypeOK
  <2>1. units \in [Interpreters -> Seq(Unit)] /\ symbols \in [Interpreters -> [Names -> Symbol]]
        /\ macros \in [Interpreters -> SUBSET Macros]
    BY <1>1, <1>2 DEF Init
  <2>2. file.text = <<>> /\ current \in Interpreters /\ eval \in [mode : {"idle", "crashed"}]
    BY DEF Init, Saved, Interpreters, Idle
  <2> QED
    BY <1>2, <2>1, <2>2 DEF Init, TypeOK
<1>4. eval.mode = "idle"
  BY DEF Init, Idle
<1>5. NothingDangles
  BY <1>1, <1>2, <1>4 DEF Init, NothingDangles
<1> QED
  BY <1>3, <1>4, <1>5 DEF IndInv, EvaluationSound, PromiseKept, Evaluating

\* What an interpreter keeps stays, and all of it leads somewhere, unless the interpreter is emptied.
LEMMA SessionsStay ==
  ASSUME IndInv, eval.mode # "crashed", RowsGrow(rows'), NEW emptied \in SUBSET Interpreters,
         \A i \in Interpreters : /\ i \in emptied => units'[i] = <<>> /\ symbols'[i] = NoSymbols
                                 /\ i \notin emptied => units'[i] = units[i] /\ symbols'[i] = symbols[i],
         eval'.mode # "crashed" => references' = (IF eval'.mode = "restore" THEN 2 ELSE 1),
         Evaluating /\ eval.phase = "execute" /\ Runner \notin emptied =>
           (Evaluating /\ eval.phase = "execute")' /\ Runner' = Runner
  PROVE  NothingDangles'
<1>1. TypeOK /\ NothingDangles
  BY DEF IndInv
<1>2. Len(rows) \in Nat /\ Len(rows') \in Nat /\ Len(rows) <= Len(rows')
  BY <1>1, LenProperties DEF RowsGrow, TypeOK
<1>3. ASSUME NEW i \in emptied
      PROVE  Len(units'[i]) = 0 /\ \A x \in Names : symbols'[i][x].kind = "absent"
  <2>1. units'[i] = <<>> /\ symbols'[i] = NoSymbols
    <3>1. i \in Interpreters /\ i \in emptied
      OBVIOUS
    <3> QED
      BY <3>1, Zenon
  <2> QED
    BY <2>1 DEF NoSymbols, Absent
<1>4. ASSUME NEW i \in Interpreters, NEW k \in 1 .. Len(units'[i]), NEW t \in Tags
      PROVE  units'[i][k].tags[t] <= Len(rows')
  <2>1. units'[i] = units[i]
    <3>1. i \notin emptied
      BY <1>3, <1>4
    <3> QED
      BY <3>1
  <2>2. units[i][k] \in Unit
    BY <1>1, <1>4, <2>1, ElementOfSeq DEF TypeOK
  <2>3. units[i][k].tags[t] \in Nat /\ units[i][k].tags[t] <= Len(rows)
    BY <1>1, <1>4, <2>1, <2>2 DEF Unit, NothingDangles
  <2> QED
    BY <1>2, <2>1, <2>3
<1>5. ASSUME NEW i \in Interpreters, NEW x \in Names, symbols'[i][x].kind = "variable", symbols'[i][x].type # 0
      PROVE  symbols'[i][x].type <= Len(rows') /\ rows'[symbols'[i][x].type].complete
  <2>1. symbols'[i] = symbols[i]
    <3>1. i \notin emptied
      BY <1>3, <1>5
    <3> QED
      BY <3>1
  <2>2. symbols[i][x].type \in Nat
    <3>1. symbols[i][x] \in Symbol /\ symbols[i][x].kind = "variable"
      BY <1>1, <1>5, <2>1 DEF TypeOK
    <3> QED
      BY <3>1 DEF Symbol, Absent
  <2>3. symbols[i][x].type <= Len(rows) /\ rows[symbols[i][x].type].complete
    BY <1>1, <1>5, <2>1 DEF NothingDangles
  <2>4. symbols[i][x].type \in 1 .. Len(rows)
    BY <1>2, <1>5, <2>1, <2>2, <2>3
  <2> QED
    BY <1>2, <2>1, <2>2, <2>3, <2>4 DEF RowsGrow
<1>6. ASSUME NEW i \in Interpreters, NEW x \in Names, symbols'[i][x].kind = "function"
      PROVE  \/ symbols'[i][x].unit <= Len(units'[i])
             \/ (Evaluating /\ eval.phase = "execute")' /\ i = Runner' /\ symbols'[i][x].unit = Len(units'[i]) + 1
  <2>1. i \notin emptied /\ symbols'[i] = symbols[i] /\ units'[i] = units[i]
    <3>1. i \notin emptied
      BY <1>3, <1>6
    <3> QED
      BY <3>1
  <2> QED
    BY <1>1, <1>6, <2>1 DEF NothingDangles
<1> QED
  BY <1>4, <1>5, <1>6 DEF NothingDangles

\* A step that leaves units and symbols alone, and only adds rows, leaves nothing dangling.
LEMMA NamesStay ==
  ASSUME IndInv, eval.mode # "crashed", RowsGrow(rows'), UNCHANGED <<units, symbols>>,
         eval'.mode # "crashed" => references' = (IF eval'.mode = "restore" THEN 2 ELSE 1),
         Evaluating /\ eval.phase = "execute" => (Evaluating /\ eval.phase = "execute")' /\ Runner' = Runner
  PROVE  NothingDangles'
<1>1. {} \in SUBSET Interpreters /\ \A i \in Interpreters : i \notin {}
  OBVIOUS
<1> QED
  BY <1>1, SessionsStay

\* A submission, a check or a replay begins, with its promise.
Begins == Load \/ Restore \/ \E line \in Lines : Submit(line) \/ \E length \in 1 .. Len(line) : Check(line, length)

\* Beginning an evaluation records what a rejection will give back.
LEMMA BeginsRight == IndInv /\ Begins => Right
<1> SUFFICES ASSUME IndInv, Begins PROVE Right
  OBVIOUS
<1>1. TypeOK /\ NothingDangles /\ eval = Idle
  BY DEF IndInv, Begins, Load, Restore, Submit, Check
<1>2. eval.mode = "idle" /\ UNCHANGED <<rows, current, units, symbols, macros, source, file>>
  BY <1>1 DEF Idle, Begins, Load, Restore, Submit, Check, session
<1>3. PICK mode \in {"check", "submit", "load", "restore"}, text \in Seq(Pieces) :
        /\ eval' = Evaluation(mode, text) /\ buffer' \in Seq(Pieces)
        /\ references' = IF mode = "restore" THEN references + 1 ELSE references
  <2>0. <<>> \in Seq(Pieces) /\ file.text \in Seq(Pieces) /\ buffer \in Seq(Pieces)
    BY <1>1 DEF TypeOK
  <2>1. CASE Load \/ Restore
    BY <2>0, <2>1 DEF Load, Restore
  <2>2. ASSUME NEW line \in Lines, Submit(line)
        PROVE  /\ eval' = Evaluation("submit", buffer') /\ buffer' \in Seq(Pieces) /\ references' = references
    <3>1. line \in Seq(Pieces)
      BY LinesAssumption
    <3>2. buffer' = buffer \o line /\ buffer \o line \in Seq(Pieces)
      BY <2>0, <2>2, <3>1, ConcatProperties DEF Submit
    <3> QED
      BY <2>2, <3>2 DEF Submit
  <2>3. ASSUME NEW line \in Lines, NEW length \in 1 .. Len(line), Check(line, length)
        PROVE  \E text \in Seq(Pieces) :
                 eval' = Evaluation("check", text) /\ buffer' \in Seq(Pieces) /\ references' = references
    <3>1. line \in Seq(Pieces) /\ length \in Nat /\ \A k \in 1 .. length : line[k] \in Pieces
      BY LinesAssumption, ElementOfSeq
    <3>2. SubSeq(line, 1, length) \in Seq(Pieces)
      BY <3>1, SubSeqProperties
    <3>3. buffer \o SubSeq(line, 1, length) \in Seq(Pieces)
      BY <2>0, <3>2, ConcatProperties
    <3> QED
      BY <2>0, <2>3, <3>3 DEF Check
  <2> QED
    BY <2>1, <2>2, <2>3 DEF Begins
<1>4. /\ eval'.mode = mode /\ eval'.phase = "parse" /\ eval'.at = 1 /\ eval'.open = 0 /\ eval'.unit = NoUnit
      /\ eval'.before = <<units[current], symbols[current], macros[current], source>>
      /\ eval' \in EvaluationRecord
  <2>1. NoUnit \in Unit
    BY DEF NoUnit, Unit
  <2>2. <<units[current], symbols[current], macros[current], source>> \in Seq(Unit) \X [Names -> Symbol] \X (SUBSET Macros) \X Seq(Pieces)
    BY <1>1 DEF TypeOK
  <2> QED
    BY <1>3, <2>1, <2>2 DEF Evaluation, EvaluationRecord
<1>5. references = 1
  BY <1>1, <1>2 DEF NothingDangles
<1>6. TypeOK'
  BY <1>1, <1>2, <1>3, <1>4, <1>5 DEF TypeOK
<1>7. NothingDangles'
  <2>1. RowsGrow(rows')
    BY <1>1, <1>2, LenProperties DEF RowsGrow, TypeOK
  <2>2. references' = IF eval'.mode = "restore" THEN 2 ELSE 1
    BY <1>3, <1>4, <1>5
  <2> QED
    BY <1>2, <2>1, <2>2, NamesStay DEF Evaluating
<1>8. EvaluationSound'
  <2>1. \A t \in Tags : eval'.unit.tags[t] = 0
    BY <1>4 DEF NoUnit
  <2>2. \A k \in Nat \ {0} : ~(k < eval'.at)
    BY <1>4
  <2>3. Len(rows') \in Nat
    BY <1>6, LenProperties DEF TypeOK
  <2> QED
    BY <1>4, <2>1, <2>2, <2>3 DEF EvaluationSound
<1>9. PromiseKept'
  BY <1>2, <1>4 DEF PromiseKept
<1>10. CompleteKept /\ Returned
  BY <1>1, <1>2, LenProperties DEF CompleteKept, Returned, Over, Evaluating, TypeOK
<1> QED
  BY <1>6, <1>7, <1>8, <1>9, <1>10 DEF Right, IndInv

\* Commands that only forget or keep a copy.
LEMMA CommandRight == IndInv /\ (Cancel \/ Clear \/ Save) => Right
<1> SUFFICES ASSUME IndInv, Cancel \/ Clear \/ Save PROVE Right
  OBVIOUS
<1>1. TypeOK /\ NothingDangles /\ eval = Idle
  BY DEF IndInv, Cancel, Clear, Save
<1>2. eval.mode = "idle" /\ UNCHANGED <<rows, references, current, eval>>
  BY <1>1 DEF Idle, Cancel, Clear, Save
<1>3. ~Evaluating /\ ~Evaluating'
  BY <1>2 DEF Evaluating
<1>4. \/ UNCHANGED <<units, symbols, macros>>
      \/ EmptySession(current)
  BY DEF Cancel, Clear, Save, session
<1>5. TypeOK' /\ NothingDangles'
  <2>1. {source', buffer', file'.text} \subseteq Seq(Pieces)
    <3>1. <<>> \in Seq(Pieces) /\ {source, buffer, file.text} \subseteq Seq(Pieces)
      BY <1>1 DEF TypeOK
    <3>2. file'.text \in {file.text, source}
      BY DEF Cancel, Clear, Save, Saved
    <3>3. source' \in {<<>>, source} /\ buffer' \in {<<>>, buffer}
      BY DEF Cancel, Clear, Save
    <3> QED
      BY <3>1, <3>2, <3>3
  <2>2. CASE UNCHANGED <<units, symbols, macros>>
    <3>1. RowsGrow(rows')
      BY <1>1, <1>2, LenProperties DEF RowsGrow, TypeOK
    <3> QED
      BY <1>1, <1>2, <1>3, <2>1, <2>2, <3>1, NamesStay DEF TypeOK, NothingDangles
  <2>3. CASE EmptySession(current)
    <3>1. NoSymbols \in [Names -> Symbol] /\ \A x \in Names : NoSymbols[x].kind = "absent"
      BY DEF NoSymbols, Symbol, Absent
    <3>2. <<>> \in Seq(Unit) /\ Len(<<>>) = 0 /\ {} \in SUBSET Macros
      OBVIOUS
    <3>3. units' \in [Interpreters -> Seq(Unit)] /\ symbols' \in [Interpreters -> [Names -> Symbol]]
          /\ macros' \in [Interpreters -> SUBSET Macros]
      BY <1>1, <2>3, <3>1, <3>2 DEF TypeOK, EmptySession
    <3>4. TypeOK'
      BY <1>1, <1>2, <2>1, <3>3 DEF TypeOK
    <3>5. \A i \in Interpreters : /\ units'[i] = IF i = current THEN <<>> ELSE units[i]
                                  /\ symbols'[i] = IF i = current THEN NoSymbols ELSE symbols[i]
      BY <1>1, <2>3 DEF TypeOK, EmptySession
    <3>6. NothingDangles'
      BY <1>1, <1>2, <1>3, <3>1, <3>2, <3>5 DEF NothingDangles
    <3> QED
      BY <3>4, <3>6
  <2> QED
    BY <1>4, <2>2, <2>3
<1>6. CompleteKept /\ Returned
  BY <1>1, <1>2, <1>3, LenProperties DEF CompleteKept, Returned, Over, TypeOK
<1> QED
  BY <1>3, <1>5, <1>6 DEF Right, IndInv, EvaluationSound, PromiseKept

-----------------------------------------------------------------------------
(* Steps of the parser. *)

\* A step of the parser that goes on.  A tag that meant a row means it still.
LEMMA ParsedRight ==
  ASSUME IndInv, Parsing, eval.at <= Len(eval.text),
         NEW newRows, RowsGrow(newRows), NEW open \in 0 .. Len(newRows), NEW unit \in Unit, NEW touched \in BOOLEAN,
         Parsed(newRows, open, unit, touched),
         \A t \in Tags : unit.tags[t] = eval.unit.tags[t] \/ (TagRow(t) = 0 /\ unit.tags[t] \in 1 .. Len(newRows)),
         eval.unit.functions \subseteq unit.functions,
         Admitted(Piece) \/ (Piece[1] = "function" /\ Piece[2] \in unit.functions)
  PROVE  Right
<1>1. TypeOK /\ NothingDangles /\ EvaluationSound /\ PromiseKept
  BY DEF IndInv
<1>2. Evaluating /\ eval.phase = "parse" /\ UNCHANGED <<references, current, units, symbols, macros, source, buffer, file>>
  BY DEF Parsing, Parsed, session
<1>3. /\ eval \in EvaluationRecord /\ eval.at \in Nat \ {0} /\ eval.unit \in Unit /\ eval.text \in Seq(Pieces)
      /\ eval.touched \in BOOLEAN /\ Runner \in Interpreters
  BY <1>1, <1>2, EvaluationParts
<1>4. rows' = newRows /\ eval' = [eval EXCEPT !.at = @ + 1, !.open = open, !.unit = unit, !.touched = @ \/ touched]
  BY DEF Parsed
<1>5. Len(rows) \in Nat /\ Len(rows') \in Nat /\ Len(rows) <= Len(rows') /\ rows' \in Seq(Row)
  BY <1>1, <1>4, LenProperties DEF RowsGrow, TypeOK
<1>6. /\ eval' \in EvaluationRecord /\ eval'.mode = eval.mode /\ eval'.phase = eval.phase /\ eval'.text = eval.text
      /\ eval'.at = eval.at + 1 /\ eval'.open = open /\ eval'.unit = unit /\ eval'.before = eval.before
  <2>1. /\ eval'.mode = eval.mode /\ eval'.phase = eval.phase /\ eval'.text = eval.text /\ eval'.before = eval.before
        /\ eval'.at = eval.at + 1 /\ eval'.open = open /\ eval'.unit = unit /\ eval'.touched \in BOOLEAN
    BY <1>3, <1>4 DEF EvaluationRecord
  <2>2. eval.at + 1 \in Nat \ {0} /\ open \in Nat /\ unit \in Unit
    BY <1>3, <1>4, <1>5
  <2>3. PICK b \in BOOLEAN : b = (eval.touched \/ touched)
    BY <1>3
  <2>4. eval' \in EvaluationRecord
    BY <1>3, <1>4, <2>2, <2>3 DEF EvaluationRecord
  <2> QED
    BY <2>1, <2>4
<1>7. TypeOK'
  BY <1>1, <1>2, <1>5, <1>6 DEF TypeOK
<1>8. Runner' = Runner /\ Evaluating'
  BY <1>2, <1>6 DEF Runner, Evaluating, Other
<1>9. NothingDangles'
  BY <1>1, <1>2, <1>4, <1>6, <1>8, NamesStay DEF NothingDangles, Evaluating
<1>10. \A t \in Tags : TagIn(Runner, t)' = TagIn(Runner, t)
  BY <1>2, <1>8 DEF TagIn
<1>11. ASSUME NEW t \in Tags, TagRow(t) # 0
       PROVE  TagRow(t)' = TagRow(t)
  <2>1. eval'.unit.tags[t] = eval.unit.tags[t]
    BY <1>6, <1>11
  <2> QED
    BY <1>10, <2>1 DEF TagRow
<1>12. ASSUME NEW p \in Pieces, Admitted(p)
       PROVE  Admitted(p)'
  <2>1. ASSUME p[1] = "variable", p[3] # "int"
        PROVE  TagRow(p[3])' # 0 /\ rows'[TagRow(p[3])'].complete
    <3>1. p[3] \in Tags
      BY <2>1, PieceParts
    <3>2. TagRow(p[3]) # 0 /\ rows[TagRow(p[3])].complete
      BY <1>12, <2>1 DEF Admitted
    <3>3. TagRow(p[3]) \in 1 .. Len(rows)
      BY <1>1, <1>2, <1>5, <3>1, <3>2, TagRowIsRow
    <3> QED
      BY <1>4, <1>11, <3>1, <3>2, <3>3 DEF RowsGrow
  <2>2. ASSUME p[1] = "function"
        PROVE  p[2] \in eval'.unit.functions
    BY <1>6, <1>12, <2>2 DEF Admitted
  <2> QED
    BY <2>1, <2>2 DEF Admitted
<1>13. EvaluationSound'
  <2>1. ASSUME NEW t \in Tags
        PROVE  eval'.unit.tags[t] <= Len(rows')
    <3>1. eval.unit.tags[t] \in Nat /\ eval.unit.tags[t] <= Len(rows)
      BY <1>1, <1>2, <1>3 DEF EvaluationSound, Unit
    <3> QED
      BY <1>4, <1>5, <1>6, <3>1
  <2>2. ASSUME NEW k \in 1 .. Len(eval.text), k < eval.at + 1
        PROVE  Admitted(eval.text[k])'
    <3>1. eval.text[k] \in Pieces /\ k \in Nat
      BY <1>3, ElementOfSeq
    <3>2. CASE k < eval.at
      BY <1>1, <1>2, <1>6, <1>12, <3>1, <3>2 DEF EvaluationSound
    <3>3. CASE k = eval.at
      <4>1. eval.text[k] = Piece
        BY <3>3 DEF Piece
      <4>2. CASE Admitted(Piece)
        BY <1>6, <1>12, <3>1, <4>1, <4>2
      <4>3. CASE Piece[1] = "function" /\ Piece[2] \in unit.functions
        BY <1>6, <4>1, <4>3 DEF Admitted
      <4> QED
        BY <4>2, <4>3
    <3> QED
      BY <1>3, <2>2, <3>1, <3>2, <3>3
  <2>3. eval'.open <= Len(rows')
    BY <1>4, <1>5, <1>6
  <2> QED
    BY <1>2, <1>6, <2>1, <2>2, <2>3 DEF EvaluationSound
<1>14. PromiseKept'
  BY <1>1, <1>2, <1>6, <1>8 DEF PromiseKept
<1>15. CompleteKept /\ Returned
  <2>1. eval'.mode # "idle"
    BY <1>2, <1>6 DEF Evaluating
  <2>2. ~Over
    BY <2>1 DEF Over, Idle
  <2>3. CompleteKept
    BY <1>4, <1>5 DEF CompleteKept, RowsGrow
  <2> QED
    BY <2>2, <2>3 DEF Returned
<1> QED
  BY <1>7, <1>9, <1>13, <1>14, <1>15 DEF Right, IndInv

\* An interpreter that is emptied or destroyed.
LEMMA EmptiedTypes ==
  ASSUME TypeOK, NEW i \in Interpreters, EmptySession(i)
  PROVE  /\ units' \in [Interpreters -> Seq(Unit)] /\ symbols' \in [Interpreters -> [Names -> Symbol]]
         /\ macros' \in [Interpreters -> SUBSET Macros]
         /\ \A j \in Interpreters : /\ j \in {i} => units'[j] = <<>> /\ symbols'[j] = NoSymbols
                                    /\ j \notin {i} => units'[j] = units[j] /\ symbols'[j] = symbols[j]
                                    /\ j # i => macros'[j] = macros[j]
<1>1. NoSymbols \in [Names -> Symbol] /\ <<>> \in Seq(Unit) /\ {} \in SUBSET Macros
  BY DEF NoSymbols, Symbol, Absent
<1> QED
  BY <1>1 DEF TypeOK, EmptySession

\* A .restore that fails destroys its interpreter, and the other one still holds the table.
LEMMA DestroyedRight ==
  ASSUME IndInv, Evaluating, eval.mode = "restore", NEW newRows, RowsGrow(newRows), Destroy(Runner, newRows),
         NEW incomplete, Rejected(incomplete)
  PROVE  Right
<1>1. TypeOK /\ NothingDangles /\ PromiseKept
  BY DEF IndInv
<1>2. references = 2 /\ references' = 1 /\ rows' = newRows /\ EmptySession(Runner)
  BY <1>1 DEF NothingDangles, Destroy, Release
<1>3. Runner \in Interpreters /\ Runner # current /\ current \in Interpreters
  BY <1>1, EvaluationParts DEF Runner
<1>4. eval' = Idle /\ eval'.mode = "idle" /\ buffer' \in {<<>>, buffer} /\ UNCHANGED <<current, source, file>>
  BY DEF Rejected, Idle
<1>5. TypeOK'
  <2>1. buffer' \in Seq(Pieces)
    BY <1>1, <1>4, EmptySeq DEF TypeOK
  <2>2. eval' \in [mode : {"idle", "crashed"}] /\ rows' \in Seq(Row)
    BY <1>2, <1>4 DEF Idle, RowsGrow
  <2> QED
    BY <1>1, <1>2, <1>3, <1>4, <2>1, <2>2, EmptiedTypes DEF TypeOK
<1>6. NothingDangles'
  <2>1. {Runner} \in SUBSET Interpreters /\ Runner \in {Runner}
    BY <1>3
  <2>2. \A i \in Interpreters : /\ i \in {Runner} => units'[i] = <<>> /\ symbols'[i] = NoSymbols
                                /\ i \notin {Runner} => units'[i] = units[i] /\ symbols'[i] = symbols[i]
    BY <1>1, <1>2, <1>3, EmptiedTypes
  <2>3. eval.mode # "crashed" /\ references' = (IF eval'.mode = "restore" THEN 2 ELSE 1)
    BY <1>2, <1>4
  <2>4. PICK runner : runner = Runner
    OBVIOUS
  <2> QED
    BY <1>2, <2>1, <2>2, <2>3, <2>4, SessionsStay
<1>7. CompleteKept
  BY <1>1, <1>2, LenProperties DEF CompleteKept, RowsGrow, TypeOK
<1>8. Returned
  <2>1. units'[current] = units[current] /\ symbols'[current] = symbols[current] /\ macros'[current] = macros[current]
    BY <1>1, <1>2, <1>3, EmptiedTypes
  <2>2. eval.before = <<units[current], symbols[current], macros[current], source>>
    BY <1>1 DEF PromiseKept
  <2> QED
    BY <1>4, <2>1, <2>2 DEF Returned
<1> QED
  BY <1>4, <1>5, <1>6, <1>7, <1>8 DEF Right, IndInv, EvaluationSound, PromiseKept, Evaluating

\* A rejected piece keeps the invariant, the finished types and the promise.
LEMMA ParseFailsRight ==
  ASSUME IndInv, Evaluating, eval.phase = "parse", NEW newRows, RowsGrow(newRows), NEW incomplete, ParseFails(newRows, incomplete)
  PROVE  Right
<1>1. TypeOK /\ NothingDangles /\ PromiseKept /\ Evaluating /\ eval.phase = "parse" /\ Rejected(incomplete)
  BY DEF IndInv, Parsing, ParseFails
<1>2. CASE eval.mode = "restore"
  BY <1>1, <1>2, DestroyedRight DEF ParseFails
<1>3. CASE eval.mode # "restore"
  <2>1. rows' = newRows /\ UNCHANGED <<references, units, symbols, macros>>
    BY <1>3 DEF ParseFails, session
  <2>2. eval' = Idle /\ eval'.mode = "idle" /\ buffer' \in {<<>>, buffer} /\ UNCHANGED <<current, source, file>>
    BY <1>1 DEF Rejected, Idle
  <2>3. TypeOK'
    <3>1. buffer' \in Seq(Pieces)
      BY <1>1, <2>2, EmptySeq DEF TypeOK
    <3>2. eval' \in [mode : {"idle", "crashed"}] /\ rows' \in Seq(Row)
      BY <2>1, <2>2 DEF Idle, RowsGrow
    <3> QED
      BY <1>1, <2>1, <2>2, <3>1, <3>2 DEF TypeOK
  <2>4. NothingDangles'
    BY <1>1, <1>3, <2>1, <2>2, NamesStay DEF NothingDangles, Evaluating
  <2>5. CompleteKept
    BY <1>1, <2>1, LenProperties DEF CompleteKept, RowsGrow, TypeOK
  <2>6. Returned
    BY <1>1, <2>1, <2>2 DEF Returned, PromiseKept
  <2> QED
    BY <2>2, <2>3, <2>4, <2>5, <2>6 DEF Right, IndInv, EvaluationSound, PromiseKept, Evaluating
<1> QED
  BY <1>2, <1>3

\* What the parser does to the table: it appends a row, or changes one that is not complete.
LEMMA RowsOnlyGrow ==
  ASSUME TypeOK
  PROVE  /\ RowsGrow(rows) /\ RowsGrow(Append(rows, NewRow)) /\ Len(Append(rows, NewRow)) = Len(rows) + 1
         /\ \A r \in 1 .. Len(rows) : RowsGrow([rows EXCEPT ![r].complete = TRUE]) /\ Len([rows EXCEPT ![r].complete = TRUE]) = Len(rows)
         /\ \A r \in 1 .. Len(rows), m \in Members :
              ~rows[r].complete => /\ RowsGrow([rows EXCEPT ![r].members = @ \cup {m}])
                                   /\ Len([rows EXCEPT ![r].members = @ \cup {m}]) = Len(rows)
<1>1. rows \in Seq(Row) /\ Len(rows) \in Nat /\ \A r \in 1 .. Len(rows) : rows[r] \in Row
  BY LenProperties, ElementOfSeq DEF TypeOK
<1>2. NewRow \in Row
  BY DEF NewRow, Row
<1>3. RowsGrow(rows)
  BY <1>1 DEF RowsGrow
<1>4. RowsGrow(Append(rows, NewRow)) /\ Len(Append(rows, NewRow)) = Len(rows) + 1
  BY <1>1, <1>2, AppendProperties DEF RowsGrow
<1>5. ASSUME NEW r \in 1 .. Len(rows)
      PROVE  RowsGrow([rows EXCEPT ![r].complete = TRUE]) /\ Len([rows EXCEPT ![r].complete = TRUE]) = Len(rows)
  <2>1. PICK new \in Row : /\ new = [rows[r] EXCEPT !.complete = TRUE]
                           /\ rows[r].complete => new = rows[r]
    <3>1. ASSUME NEW row \in Row
          PROVE  /\ [row EXCEPT !.complete = TRUE] \in Row
                 /\ row.complete => [row EXCEPT !.complete = TRUE] = row
      BY DEF Row
    <3> QED
      BY <1>1, <3>1
  <2>2. [rows EXCEPT ![r].complete = TRUE] = [rows EXCEPT ![r] = new]
    BY <2>1
  <2>3. /\ [rows EXCEPT ![r] = new] \in Seq(Row) /\ Len([rows EXCEPT ![r] = new]) = Len(rows)
        /\ \A k \in 1 .. Len(rows) : [rows EXCEPT ![r] = new][k] = IF k = r THEN new ELSE rows[k]
    BY <1>1, ExceptSeq
  <2> QED
    BY <1>1, <2>1, <2>2, <2>3 DEF RowsGrow
<1>6. ASSUME NEW r \in 1 .. Len(rows), NEW m \in Members, ~rows[r].complete
      PROVE  /\ RowsGrow([rows EXCEPT ![r].members = @ \cup {m}])
             /\ Len([rows EXCEPT ![r].members = @ \cup {m}]) = Len(rows)
  <2>1. PICK new \in Row : new = [rows[r] EXCEPT !.members = @ \cup {m}]
    BY <1>1 DEF Row
  <2>2. [rows EXCEPT ![r].members = @ \cup {m}] = [rows EXCEPT ![r] = new]
    BY <2>1
  <2>3. /\ [rows EXCEPT ![r] = new] \in Seq(Row) /\ Len([rows EXCEPT ![r] = new]) = Len(rows)
        /\ \A k \in 1 .. Len(rows) : [rows EXCEPT ![r] = new][k] = IF k = r THEN new ELSE rows[k]
    BY <1>1, ExceptSeq
  <2> QED
    BY <1>1, <1>6, <2>1, <2>2, <2>3 DEF RowsGrow
<1> QED
  BY <1>3, <1>4, <1>5, <1>6

\* A step that goes on with the unit, the open definition or the table as they were.
LEMMA ParsedSame ==
  ASSUME IndInv, Parsing, eval.at <= Len(eval.text),
         NEW newRows, RowsGrow(newRows), NEW open \in 0 .. Len(newRows), NEW touched \in BOOLEAN,
         Parsed(newRows, open, eval.unit, touched), Admitted(Piece)
  PROVE  Right
<1>1. eval.unit \in Unit
  BY EvaluationParts DEF IndInv, Parsing
<1>2. PICK unit \in Unit : unit = eval.unit
  BY <1>1
<1>3. Parsed(newRows, open, unit, touched)
  BY <1>2
<1> QED
  BY <1>2, <1>3, ParsedRight

\* A tag that nobody knew gets the new row.
LEMMA ParsedNewTag ==
  ASSUME IndInv, Parsing, eval.at <= Len(eval.text), NEW t \in Tags, TagRow(t) = 0,
         NEW open \in {0, Len(rows) + 1}, Parsed(Append(rows, NewRow), open, WithTag(t, Len(rows) + 1), FALSE),
         Admitted(Piece)
  PROVE  Right
<1>1. TypeOK /\ eval.unit \in Unit /\ Len(rows) \in Nat
  BY EvaluationParts, LenProperties DEF IndInv, Parsing, TypeOK
<1>2. PICK unit \in Unit : /\ unit = WithTag(t, Len(rows) + 1) /\ unit.functions = eval.unit.functions
                           /\ \A u \in Tags : unit.tags[u] = IF u = t THEN Len(rows) + 1 ELSE eval.unit.tags[u]
  BY <1>1 DEF WithTag, Unit
<1>3. PICK newRows : newRows = Append(rows, NewRow)
  OBVIOUS
<1>4. RowsGrow(newRows) /\ Len(newRows) = Len(rows) + 1
  BY <1>1, <1>3, RowsOnlyGrow
<1>5. open \in 0 .. Len(newRows) /\ Len(rows) + 1 \in 1 .. Len(newRows)
  BY <1>1, <1>4
<1>6. \A u \in Tags : unit.tags[u] = eval.unit.tags[u] \/ (TagRow(u) = 0 /\ unit.tags[u] \in 1 .. Len(newRows))
  BY <1>2, <1>5
<1>7. Parsed(newRows, open, unit, FALSE) /\ FALSE \in BOOLEAN
  BY <1>2, <1>3
<1> QED
  BY <1>2, <1>4, <1>5, <1>6, <1>7, ParsedRight

\* struct t; and struct t {
LEMMA TagsRight == ASSUME IndInv, NEW t \in Tags, Forward(t) \/ Begin(t) PROVE Right
<1>1. TypeOK /\ Parsing /\ eval.at <= Len(eval.text) /\ Piece[1] \in {"forward", "begin"}
  BY DEF IndInv, Forward, Begin, At
<1>2. Admitted(Piece)
  BY <1>1 DEF Admitted
<1>3. Len(rows) \in Nat /\ TagRow(t) \in 0 .. Len(rows) /\ 0 \in 0 .. Len(rows)
  BY <1>1, TagRowIsRow, LenProperties DEF IndInv, Parsing, TypeOK
<1>4. RowsGrow(rows)
  BY <1>1, RowsOnlyGrow
<1>5. CASE ParseFails(rows, FALSE)
  BY <1>1, <1>4, <1>5, ParseFailsRight DEF Parsing
<1>6. CASE Parsed(rows, 0, eval.unit, FALSE)
  BY <1>1, <1>2, <1>3, <1>4, <1>6, ParsedSame
<1>7. CASE Parsed(rows, TagRow(t), eval.unit, FALSE)
  BY <1>1, <1>2, <1>3, <1>4, <1>7, ParsedSame
<1>8. CASE TagRow(t) = 0 /\ \E open \in {0, Len(rows) + 1} : Parsed(Append(rows, NewRow), open, WithTag(t, Len(rows) + 1), FALSE)
  BY <1>1, <1>2, <1>8, ParsedNewTag
<1> QED
  BY <1>5, <1>6, <1>7, <1>8 DEF Forward, Begin

\* A member, and the end of the definition, change a row that is not complete.
LEMMA MembersRight == ASSUME IndInv, End \/ \E m \in Members : Member(m) PROVE Right
<1>1. TypeOK /\ EvaluationSound /\ Parsing /\ Evaluating /\ eval.at <= Len(eval.text) /\ Piece[1] \in {"member", "end"}
  BY DEF IndInv, End, Member, At, Parsing
<1>2. Admitted(Piece)
  BY <1>1 DEF Admitted
<1>3. Len(rows) \in Nat /\ eval.open \in 0 .. Len(rows) /\ 0 \in 0 .. Len(rows)
  BY <1>1, EvaluationParts, LenProperties DEF EvaluationSound, TypeOK
<1>4. PICK touched \in BOOLEAN : touched = Published(eval.open)
  BY DEF Published
<1>5. CASE ParseFails(rows, FALSE)
  BY <1>1, <1>5, RowsOnlyGrow, ParseFailsRight DEF Parsing
<1>6. CASE End /\ ~ParseFails(rows, FALSE)
  <2>0. eval.open # 0 /\ Parsed([rows EXCEPT ![eval.open].complete = TRUE], 0, eval.unit, Published(eval.open))
    BY <1>6 DEF End
  <2>1. eval.open \in 1 .. Len(rows) /\ Parsed([rows EXCEPT ![eval.open].complete = TRUE], 0, eval.unit, touched)
    BY <1>3, <1>4, <2>0
  <2>2. PICK newRows : newRows = [rows EXCEPT ![eval.open].complete = TRUE]
    OBVIOUS
  <2>3. RowsGrow(newRows) /\ Len(newRows) = Len(rows)
    BY <1>1, <2>1, <2>2, RowsOnlyGrow
  <2>4. 0 \in 0 .. Len(newRows) /\ Parsed(newRows, 0, eval.unit, touched)
    BY <1>3, <2>1, <2>2, <2>3
  <2> QED
    BY <1>1, <1>2, <2>3, <2>4, ParsedSame
<1>7. ASSUME NEW m \in Members, Member(m), ~ParseFails(rows, FALSE)
      PROVE  Right
  <2>1. eval.open \in 1 .. Len(rows) /\ ~rows[eval.open].complete
        /\ Parsed([rows EXCEPT ![eval.open].members = @ \cup {m}], eval.open, eval.unit, touched)
    <3>1. eval.open # 0 /\ ~rows[eval.open].complete
          /\ Parsed([rows EXCEPT ![eval.open].members = @ \cup {m}], eval.open, eval.unit, Published(eval.open))
      BY <1>7 DEF Member
    <3> QED
      BY <1>3, <1>4, <3>1
  <2>2. PICK newRows, open : newRows = [rows EXCEPT ![eval.open].members = @ \cup {m}] /\ open = eval.open
    OBVIOUS
  <2>3. RowsGrow(newRows) /\ Len(newRows) = Len(rows)
    BY <1>1, <2>1, <2>2, RowsOnlyGrow
  <2>4. open \in 0 .. Len(newRows) /\ Parsed(newRows, open, eval.unit, touched)
    BY <1>3, <2>1, <2>2, <2>3
  <2> QED
    BY <1>1, <1>2, <2>3, <2>4, ParsedSame
<1> QED
  BY <1>5, <1>6, <1>7

\* A variable passes with a complete type, or leaves behind a row for its tag.
LEMMA VariableRight == ASSUME IndInv, NEW t \in Tags \cup {"int"}, Variable(t) PROVE Right
<1>1. TypeOK /\ Parsing /\ eval.at <= Len(eval.text) /\ Piece[1] = "variable" /\ Piece[3] = t
  BY DEF IndInv, Variable, At
<1>2. RowsGrow(rows) /\ RowsGrow(Append(rows, NewRow)) /\ 0 \in 0 .. Len(rows)
  BY <1>1, RowsOnlyGrow, LenProperties DEF TypeOK
<1>3. CASE t = "int" \/ (t # "int" /\ TagRow(t) # 0 /\ rows[TagRow(t)].complete)
  <2>1. Admitted(Piece)
    BY <1>1, <1>3 DEF Admitted
  <2>2. Parsed(rows, 0, eval.unit, FALSE)
    BY <1>3 DEF Variable
  <2> QED
    BY <1>1, <1>2, <2>1, <2>2, ParsedSame
<1>4. CASE ~(t = "int" \/ (t # "int" /\ TagRow(t) # 0 /\ rows[TagRow(t)].complete))
  <2>1. PICK newRows : /\ newRows = IF TagRow(t) = 0 /\ ~TableFull THEN Append(rows, NewRow) ELSE rows
                       /\ ParseFails(newRows, FALSE)
    BY <1>4 DEF Variable
  <2>2. RowsGrow(newRows)
    BY <1>2, <2>1
  <2> QED
    BY <1>1, <2>1, <2>2, ParseFailsRight DEF Parsing
<1> QED
  BY <1>3, <1>4

\* A function makes its submission's unit one that declares something.
LEMMA FunctionRight == ASSUME IndInv, Function PROVE Right
<1>1. TypeOK /\ Evaluating /\ Parsing /\ eval.at <= Len(eval.text) /\ Piece[1] = "function"
  BY DEF IndInv, Function, At, Parsing
<1>2. eval.unit \in Unit /\ Len(rows) \in Nat /\ eval.at \in 1 .. Len(eval.text) /\ eval.text \in Seq(Pieces)
  BY <1>1, EvaluationParts, LenProperties DEF TypeOK
<1>3. Piece[2] \in Names
  BY <1>1, <1>2, ElementOfSeq, PieceParts DEF Piece
<1>4. PICK unit \in Unit : /\ unit = [eval.unit EXCEPT !.functions = @ \cup {Piece[2]}]
                           /\ unit.tags = eval.unit.tags /\ unit.functions = eval.unit.functions \cup {Piece[2]}
  <2>1. ASSUME NEW u \in Unit, NEW f \in Names
        PROVE  /\ [u EXCEPT !.functions = @ \cup {f}] \in Unit
               /\ [u EXCEPT !.functions = @ \cup {f}].tags = u.tags
               /\ [u EXCEPT !.functions = @ \cup {f}].functions = u.functions \cup {f}
    BY DEF Unit
  <2> QED
    BY <1>2, <1>3, <2>1
<1>5. Parsed(rows, 0, unit, FALSE)
  <2>1. Parsed(rows, 0, [eval.unit EXCEPT !.functions = @ \cup {Piece[2]}], FALSE)
    BY DEF Function
  <2> QED
    BY <1>4, <2>1
<1>6. RowsGrow(rows) /\ 0 \in 0 .. Len(rows) /\ FALSE \in BOOLEAN
  BY <1>1, <1>2, RowsOnlyGrow
<1> QED
  BY <1>1, <1>4, <1>5, <1>6, ParsedRight

\* Directives, statements that declare nothing, errors, a limit and the end within a definition.
LEMMA PlainRight == ASSUME IndInv, Plain \/ Bad \/ TextTooLong \/ TreeTooLarge \/ Incomplete PROVE Right
<1>1. TypeOK /\ EvaluationSound /\ Evaluating /\ eval.phase = "parse"
  BY DEF IndInv, Plain, Bad, TextTooLong, TreeTooLarge, Incomplete, Parsing
<1>2. RowsGrow(rows) /\ Len(rows) \in Nat /\ eval.open \in 0 .. Len(rows)
  BY <1>1, RowsOnlyGrow, EvaluationParts, LenProperties DEF EvaluationSound, TypeOK
<1>3. CASE Bad \/ TextTooLong \/ TreeTooLarge \/ Incomplete
  <2>1. PICK incomplete \in BOOLEAN : ParseFails(rows, incomplete)
    BY <1>3 DEF Bad, TextTooLong, TreeTooLarge, Incomplete
  <2> QED
    BY <1>1, <1>2, <2>1, ParseFailsRight
<1>4. CASE Plain
  <2>1. Parsing /\ eval.at <= Len(eval.text) /\ Piece[1] \in {"macro", "fault"} /\ Parsed(rows, eval.open, eval.unit, FALSE)
    BY <1>4 DEF Plain, At
  <2>2. Admitted(Piece)
    BY <2>1 DEF Admitted
  <2>3. PICK open : open = eval.open
    OBVIOUS
  <2>4. open \in 0 .. Len(rows) /\ Parsed(rows, open, eval.unit, FALSE) /\ FALSE \in BOOLEAN
    BY <1>2, <2>1, <2>3
  <2> QED
    BY <1>1, <1>2, <2>1, <2>2, <2>4, ParsedSame
<1> QED
  BY <1>3, <1>4

\* The end of the parse: every piece has been admitted.
LEMMA ParseEndRight == ASSUME IndInv, ParseEnd PROVE Right
<1>1. TypeOK /\ NothingDangles /\ EvaluationSound /\ PromiseKept /\ Evaluating /\ Parsing
  BY DEF IndInv, ParseEnd, Parsing
<1>2. RowsGrow(rows)
  BY <1>1, RowsOnlyGrow
<1>3. CASE eval.mode = "check"
  BY <1>1, <1>2, <1>3, ParseFailsRight DEF ParseEnd, Parsing
<1>4. CASE eval.mode # "check"
  <2>1. /\ eval \in EvaluationRecord /\ Runner \in Interpreters /\ current \in Interpreters
        /\ eval.text \in Seq(Pieces) /\ eval.at \in Nat \ {0} /\ eval.phase = "parse" /\ eval.at > Len(eval.text)
    BY <1>1, EvaluationParts DEF ParseEnd, Parsing
  <2>2. PICK touched \in BOOLEAN : touched = (eval.touched \/ ~(MacrosOf(eval.text) \subseteq macros[Runner]))
    OBVIOUS
  <2>3. /\ eval' = [eval EXCEPT !.phase = "execute", !.at = 1, !.touched = touched]
        /\ macros' = [macros EXCEPT ![Runner] = @ \cup MacrosOf(eval.text)]
        /\ UNCHANGED <<rows, references, current, units, symbols, source, buffer, file>>
    <3>1. eval' = [eval EXCEPT !.phase = "execute", !.at = 1,
                               !.touched = @ \/ ~(MacrosOf(eval.text) \subseteq macros[Runner])]
      BY <1>4 DEF ParseEnd
    <3>2. /\ macros' = [macros EXCEPT ![Runner] = @ \cup MacrosOf(eval.text)]
          /\ UNCHANGED <<rows, references, current, units, symbols, source, buffer, file>>
      BY <1>4 DEF ParseEnd
    <3> QED
      BY <2>2, <3>1, <3>2
  <2>4. /\ eval' \in EvaluationRecord /\ eval'.mode = eval.mode /\ eval'.phase = "execute" /\ eval'.text = eval.text
        /\ eval'.at = 1 /\ eval'.open = eval.open /\ eval'.unit = eval.unit /\ eval'.before = eval.before
    <3>1. /\ eval'.mode = eval.mode /\ eval'.phase = "execute" /\ eval'.text = eval.text /\ eval'.at = 1
          /\ eval'.open = eval.open /\ eval'.unit = eval.unit /\ eval'.before = eval.before
      BY <2>1, <2>3 DEF EvaluationRecord
    <3>2. 1 \in Nat \ {0} /\ "execute" \in {"parse", "execute"}
      OBVIOUS
    <3>3. eval' \in EvaluationRecord
      BY <2>1, <2>3, <3>2 DEF EvaluationRecord
    <3> QED
      BY <3>1, <3>3
  <2>5. Evaluating' /\ Runner' = Runner
    BY <1>1, <2>3, <2>4 DEF Evaluating, Runner, Other
  <2>6. TypeOK'
    <3>1. MacrosOf(eval.text) \subseteq Macros
      BY DEF MacrosOf
    <3>2. macros' \in [Interpreters -> SUBSET Macros]
      BY <1>1, <2>1, <2>3, <3>1 DEF TypeOK
    <3> QED
      BY <1>1, <2>3, <2>4, <3>2 DEF TypeOK
  <2>7. NothingDangles'
    <3>1. rows' = rows /\ RowsGrow(rows')
      BY <1>2, <2>3
    <3> QED
      BY <1>1, <2>1, <2>3, <2>4, <2>5, <3>1, NamesStay DEF NothingDangles, Evaluating
  <2>8. EvaluationSound'
    <3>1. \A t \in Tags : TagRow(t)' = TagRow(t)
      BY <2>3, <2>4, <2>5 DEF TagRow, TagIn
    <3>2. ASSUME NEW k \in 1 .. Len(eval.text)
          PROVE  Admitted(eval.text[k])'
      <4>1. k < eval.at
        BY <2>1, LenProperties
      <4>2. Admitted(eval.text[k])
        BY <1>1, <4>1 DEF EvaluationSound
      <4>3. eval.text[k] \in Pieces
        BY <2>1, ElementOfSeq
      <4>4. eval.text[k][1] = "variable" => eval.text[k][3] \in Tags \cup {"int"}
        BY <4>3, PieceParts
      <4> QED
        BY <2>3, <2>4, <3>1, <4>2, <4>4 DEF Admitted
    <3>3. ASSUME NEW x \in Names, symbols[Runner][x].kind = "function"
          PROVE  ~(symbols[Runner][x].unit > Len(units[Runner]))
      <4>1. symbols[Runner][x].unit <= Len(units[Runner])
        BY <1>1, <2>1, <3>3 DEF NothingDangles, Evaluating
      <4>2. symbols[Runner][x] \in Symbol
        BY <1>1, <2>1 DEF TypeOK
      <4>3. symbols[Runner][x].unit \in Nat
        BY <3>3, <4>2 DEF Symbol, Absent
      <4>4. Len(units[Runner]) \in Nat
        BY <1>1, <2>1, LenProperties DEF TypeOK
      <4> QED
        BY <4>1, <4>3, <4>4
    <3> QED
      BY <1>1, <2>3, <2>4, <2>5, <3>2, <3>3 DEF EvaluationSound
  <2>9. PromiseKept'
    <3>1. eval.mode = "restore" => Runner # current
      BY <1>1, EvaluationParts DEF Runner
    <3>2. eval.mode = "restore" => macros'[current] = macros[current]
      BY <2>3, <3>1
    <3> QED
      BY <1>1, <2>1, <2>3, <2>4, <3>2 DEF PromiseKept
  <2>10. CompleteKept /\ Returned
    <3>1. eval' # Idle
      BY <2>4, <2>5 DEF Evaluating, Idle
    <3> QED
      BY <1>1, <2>3, <3>1, LenProperties DEF CompleteKept, Returned, Over, TypeOK
  <2> QED
    BY <2>6, <2>7, <2>8, <2>9, <2>10 DEF Right, IndInv
<1> QED
  BY <1>3, <1>4

-----------------------------------------------------------------------------
(* Steps of the execution. *)

\* A name that the running interpreter may have: its type is complete, and its unit is kept
\* or will be, since the submission declares the function.
Standing(x, symbol) ==
  /\ symbol \in Symbol
  /\ symbol.kind = "variable" /\ symbol.type # 0 => symbol.type <= Len(rows) /\ rows[symbol.type].complete
  /\ symbol.kind = "function" => \/ symbol.unit <= Len(units[Runner])
                                 \/ symbol.unit = Len(units[Runner]) + 1 /\ x \in eval.unit.functions

\* The names it has do.
LEMMA GlobalsStand ==
  ASSUME IndInv, Evaluating, eval.phase = "execute", NEW x \in Names
  PROVE  Standing(x, Globals[x])
<1>1. TypeOK /\ NothingDangles /\ EvaluationSound /\ Evaluating /\ eval.phase = "execute" /\ eval.mode # "crashed"
  BY DEF IndInv, Executing, Evaluating
<1>2. Runner \in Interpreters
  BY <1>1, EvaluationParts
<1>3. symbols[Runner][x] \in Symbol /\ Len(units[Runner]) \in Nat
  BY <1>1, <1>2, LenProperties DEF TypeOK
<1>4. symbols[Runner][x].kind = "variable" /\ symbols[Runner][x].type # 0 =>
        symbols[Runner][x].type <= Len(rows) /\ rows[symbols[Runner][x].type].complete
  BY <1>1, <1>2 DEF NothingDangles
<1>5. ASSUME symbols[Runner][x].kind = "function"
      PROVE  \/ symbols[Runner][x].unit <= Len(units[Runner])
             \/ symbols[Runner][x].unit = Len(units[Runner]) + 1 /\ x \in eval.unit.functions
  <2>1. \/ symbols[Runner][x].unit <= Len(units[Runner])
        \/ symbols[Runner][x].unit = Len(units[Runner]) + 1
    BY <1>1, <1>2, <1>5 DEF NothingDangles
  <2>2. CASE symbols[Runner][x].unit = Len(units[Runner]) + 1
    <3>1. symbols[Runner][x].unit > Len(units[Runner])
      BY <1>3, <2>2
    <3> QED
      BY <1>1, <1>5, <2>2, <3>1 DEF EvaluationSound
  <2> QED
    BY <2>1, <2>2
<1> QED
  BY <1>3, <1>4, <1>5 DEF Standing, Globals

\* What the parts of a name are.
LEMMA SymbolParts ==
  ASSUME NEW symbol \in Symbol
  PROVE  /\ symbol.kind = "variable" => symbol.type \in Nat
         /\ symbol.kind = "function" => symbol.unit \in Nat
BY DEF Symbol, Absent

\* A statement that succeeds.
LEMMA DoneRight ==
  ASSUME IndInv, Evaluating, eval.phase = "execute", NEW new \in [Names -> Symbol], \A x \in Names : Standing(x, new[x]), Done(new)
  PROVE  Right
<1>1. TypeOK /\ NothingDangles /\ EvaluationSound /\ PromiseKept /\ Evaluating /\ eval.phase = "execute"
  BY DEF IndInv, Executing
<1>2. /\ eval \in EvaluationRecord /\ eval.at \in Nat \ {0} /\ eval.touched \in BOOLEAN
      /\ Runner \in Interpreters /\ current \in Interpreters
  BY <1>1, EvaluationParts
<1>3. symbols' = [symbols EXCEPT ![Runner] = new] /\ UNCHANGED <<rows, references, current, units, macros, source, buffer, file>>
  BY DEF Done
<1>4. /\ eval' \in EvaluationRecord /\ eval'.mode = eval.mode /\ eval'.phase = eval.phase /\ eval'.text = eval.text
      /\ eval'.open = eval.open /\ eval'.unit = eval.unit /\ eval'.before = eval.before
  <2>1. PICK touched \in BOOLEAN : touched = (eval.touched \/ new # symbols[Runner])
    BY <1>2
  <2>2. eval' = [eval EXCEPT !.at = @ + 1, !.touched = touched]
    BY <1>2, <2>1 DEF Done, EvaluationRecord
  <2>3. eval.at + 1 \in Nat \ {0}
    BY <1>2
  <2>4. eval' \in EvaluationRecord
    BY <1>2, <2>1, <2>2, <2>3 DEF EvaluationRecord
  <2>5. /\ eval'.mode = eval.mode /\ eval'.phase = eval.phase /\ eval'.text = eval.text
        /\ eval'.open = eval.open /\ eval'.unit = eval.unit /\ eval'.before = eval.before
    BY <1>2, <2>2 DEF EvaluationRecord
  <2> QED
    BY <2>4, <2>5
<1>5. Evaluating' /\ Runner' = Runner
  BY <1>1, <1>3, <1>4 DEF Evaluating, Runner, Other
<1>6. TypeOK'
  <2>1. symbols' \in [Interpreters -> [Names -> Symbol]]
    BY <1>1, <1>2, <1>3 DEF TypeOK
  <2> QED
    BY <1>1, <1>3, <1>4, <2>1 DEF TypeOK
<1>7. \A i \in Interpreters : symbols'[i] = IF i = Runner THEN new ELSE symbols[i]
  BY <1>1, <1>2, <1>3 DEF TypeOK
<1>8. NothingDangles'
  <2>1. references' = IF eval'.mode = "restore" THEN 2 ELSE 1
    BY <1>1, <1>3, <1>4 DEF NothingDangles, Evaluating
  <2>2. \A i \in Interpreters : \A k \in 1 .. Len(units'[i]), t \in Tags : units'[i][k].tags[t] <= Len(rows')
    BY <1>1, <1>3 DEF NothingDangles, Evaluating
  <2>3. ASSUME NEW i \in Interpreters, NEW x \in Names
        PROVE  /\ symbols'[i][x].kind = "variable" /\ symbols'[i][x].type # 0 =>
                    symbols'[i][x].type <= Len(rows') /\ rows'[symbols'[i][x].type].complete
               /\ symbols'[i][x].kind = "function" =>
                    \/ symbols'[i][x].unit <= Len(units'[i])
                    \/ Evaluating' /\ eval'.phase = "execute" /\ i = Runner' /\ symbols'[i][x].unit = Len(units'[i]) + 1
    <3>1. CASE i = Runner
      BY <1>1, <1>3, <1>4, <1>5, <1>7, <3>1 DEF Standing
    <3>2. CASE i # Runner
      BY <1>1, <1>3, <1>7, <3>2 DEF NothingDangles, Evaluating
    <3> QED
      BY <3>1, <3>2
  <2> QED
    BY <2>1, <2>2, <2>3 DEF NothingDangles
<1>9. EvaluationSound'
  <2>1. \A t \in Tags : TagRow(t)' = TagRow(t)
    BY <1>3, <1>4, <1>5 DEF TagRow, TagIn
  <2>2. ASSUME NEW k \in 1 .. Len(eval.text)
        PROVE  Admitted(eval.text[k])'
    <3>1. Admitted(eval.text[k])
      BY <1>1 DEF EvaluationSound
    <3>2. eval.text[k] \in Pieces
      BY <1>1, ElementOfSeq, EvaluationParts
    <3>3. eval.text[k][1] = "variable" => eval.text[k][3] \in Tags \cup {"int"}
      BY <3>2, PieceParts
    <3> QED
      BY <1>3, <1>4, <2>1, <3>1, <3>3 DEF Admitted
  <2>3. ASSUME NEW x \in Names, new[x].kind = "function", new[x].unit > Len(units[Runner])
        PROVE  x \in eval.unit.functions
    <3>1. Standing(x, new[x]) /\ new[x] \in Symbol
      OBVIOUS
    <3>2. new[x].unit \in Nat /\ Len(units[Runner]) \in Nat
      BY <1>1, <1>2, <2>3, <3>1, SymbolParts, LenProperties DEF TypeOK
    <3>3. ~(new[x].unit <= Len(units[Runner]))
      BY <2>3, <3>2
    <3> QED
      BY <2>3, <3>1, <3>3 DEF Standing
  <2>4. symbols'[Runner] = new
    BY <1>2, <1>7
  <2> QED
    BY <1>1, <1>3, <1>4, <1>5, <2>2, <2>3, <2>4 DEF EvaluationSound
<1>10. PromiseKept'
  <2>1. eval.mode = "restore" => Runner # current
    BY <1>1, EvaluationParts DEF Runner
  <2> QED
    BY <1>1, <1>2, <1>3, <1>4, <1>7, <2>1 DEF PromiseKept
<1>11. CompleteKept /\ Returned
  <2>1. eval' # Idle
    BY <1>4, <1>5 DEF Evaluating, Idle
  <2> QED
    BY <1>1, <1>3, <2>1, LenProperties DEF CompleteKept, Returned, Over, TypeOK
<1> QED
  BY <1>6, <1>8, <1>9, <1>10, <1>11 DEF Right, IndInv

\* The units a finished evaluation leaves.
LEMMA KeptUnitsParts ==
  ASSUME IndInv, Evaluating, eval.phase = "execute"
  PROVE  /\ KeptUnits \in [Interpreters -> Seq(Unit)]
         /\ \A i \in Interpreters : i # Runner => KeptUnits[i] = units[i]
         /\ Len(units[Runner]) <= Len(KeptUnits[Runner])
         /\ \A x \in Names : x \in eval.unit.functions => Len(KeptUnits[Runner]) = Len(units[Runner]) + 1
         /\ \A i \in Interpreters : \A k \in 1 .. Len(KeptUnits[i]), t \in Tags : KeptUnits[i][k].tags[t] <= Len(rows)
<1>1. TypeOK /\ NothingDangles /\ EvaluationSound /\ Evaluating /\ eval.mode # "crashed"
  BY DEF IndInv, Executing, Evaluating
<1>2. Runner \in Interpreters /\ eval.unit \in Unit /\ units[Runner] \in Seq(Unit) /\ Len(units[Runner]) \in Nat
  BY <1>1, EvaluationParts, LenProperties DEF TypeOK
<1>3. \A i \in Interpreters : \A k \in 1 .. Len(units[i]), t \in Tags : units[i][k].tags[t] <= Len(rows)
  BY <1>1 DEF NothingDangles
<1>4. CASE HasFunctions
  <2>1. PICK kept : kept = Append(units[Runner], eval.unit)
    OBVIOUS
  <2>2. /\ kept \in Seq(Unit) /\ Len(kept) = Len(units[Runner]) + 1
        /\ \A k \in 1 .. Len(units[Runner]) : kept[k] = units[Runner][k]
        /\ kept[Len(units[Runner]) + 1] = eval.unit
    BY <1>2, <2>1, AppendProperties
  <2>3. KeptUnits = [units EXCEPT ![Runner] = kept]
    BY <1>4, <2>1 DEF KeptUnits
  <2>4. KeptUnits \in [Interpreters -> Seq(Unit)] /\ \A i \in Interpreters : KeptUnits[i] = IF i = Runner THEN kept ELSE units[i]
    BY <1>1, <1>2, <2>2, <2>3 DEF TypeOK
  <2>5. ASSUME NEW k \in 1 .. Len(kept), NEW t \in Tags
        PROVE  kept[k].tags[t] <= Len(rows)
    <3>1. CASE k = Len(units[Runner]) + 1
      BY <1>1, <2>2, <3>1 DEF EvaluationSound
    <3>2. CASE k # Len(units[Runner]) + 1
      <4>1. k \in 1 .. Len(units[Runner])
        BY <1>2, <2>2, <3>2
      <4> QED
        BY <1>2, <1>3, <2>2, <4>1
    <3> QED
      BY <3>1, <3>2
  <2>6. KeptUnits[Runner] = kept /\ \A i \in Interpreters : i # Runner => KeptUnits[i] = units[i]
    BY <1>2, <2>4
  <2>7. \A i \in Interpreters : \A k \in 1 .. Len(KeptUnits[i]), t \in Tags : KeptUnits[i][k].tags[t] <= Len(rows)
    <3>1. SUFFICES ASSUME NEW i \in Interpreters, NEW k \in 1 .. Len(KeptUnits[i]), NEW t \in Tags
                   PROVE  KeptUnits[i][k].tags[t] <= Len(rows)
      OBVIOUS
    <3>2. CASE i = Runner
      BY <2>5, <2>6, <3>2
    <3>3. CASE i # Runner
      BY <1>3, <2>6, <3>3
    <3> QED
      BY <3>2, <3>3
  <2>8. Len(units[Runner]) <= Len(KeptUnits[Runner]) /\ Len(KeptUnits[Runner]) = Len(units[Runner]) + 1
    BY <1>2, <2>2, <2>6
  <2> QED
    BY <2>4, <2>6, <2>7, <2>8
<1>5. CASE ~HasFunctions
  <2>1. KeptUnits = units
    BY <1>5 DEF KeptUnits
  <2>2. eval.unit.functions = {}
    BY <1>5 DEF HasFunctions, NoUnit
  <2> QED
    BY <1>1, <1>2, <1>3, <2>1, <2>2 DEF TypeOK
<1> QED
  BY <1>4, <1>5

\* An evaluation that ends with the names of its interpreter standing and its unit kept.
LEMMA KeptRight ==
  ASSUME IndInv, Evaluating, eval.phase = "execute", eval.mode # "restore",
         NEW new \in [Names -> Symbol], \A x \in Names : Standing(x, new[x]),
         symbols' = [symbols EXCEPT ![Runner] = new], units' = KeptUnits, eval' = Idle,
         source' \in Seq(Pieces), buffer' \in Seq(Pieces), UNCHANGED <<rows, references, current, macros, file>>
  PROVE  Right
<1>1. TypeOK /\ NothingDangles /\ Evaluating /\ eval.phase = "execute" /\ eval'.mode = "idle"
  BY DEF IndInv, Executing, Idle
<1>2. Runner \in Interpreters
  BY <1>1, EvaluationParts
<1>3. TypeOK'
  <2>1. symbols' \in [Interpreters -> [Names -> Symbol]] /\ units' \in [Interpreters -> Seq(Unit)]
    BY <1>1, <1>2, KeptUnitsParts DEF TypeOK
  <2>2. eval' \in [mode : {"idle", "crashed"}]
    BY DEF Idle
  <2> QED
    BY <1>1, <2>1, <2>2 DEF TypeOK
<1>4. \A i \in Interpreters : symbols'[i] = IF i = Runner THEN new ELSE symbols[i]
  BY <1>1, <1>2 DEF TypeOK
<1>5. NothingDangles'
  <2>1. references' = IF eval'.mode = "restore" THEN 2 ELSE 1
    BY <1>1 DEF NothingDangles, Evaluating
  <2>2. \A i \in Interpreters : \A k \in 1 .. Len(units'[i]), t \in Tags : units'[i][k].tags[t] <= Len(rows')
    BY KeptUnitsParts
  <2>3. ASSUME NEW i \in Interpreters, NEW x \in Names
        PROVE  /\ symbols'[i][x].kind = "variable" /\ symbols'[i][x].type # 0 =>
                    symbols'[i][x].type <= Len(rows') /\ rows'[symbols'[i][x].type].complete
               /\ symbols'[i][x].kind = "function" => symbols'[i][x].unit <= Len(units'[i])
    <3>1. CASE i = Runner
      <4>1. Standing(x, new[x]) /\ new[x] \in Symbol /\ symbols'[i][x] = new[x]
        BY <1>4, <3>1
      <4>2. ASSUME new[x].kind = "function"
            PROVE  new[x].unit <= Len(units'[i])
        <5>1. new[x].unit \in Nat /\ Len(units[Runner]) \in Nat /\ Len(units'[Runner]) \in Nat
          BY <1>1, <1>2, <1>3, <4>1, <4>2, SymbolParts, LenProperties DEF TypeOK
        <5>2. \/ new[x].unit <= Len(units[Runner])
              \/ new[x].unit = Len(units[Runner]) + 1 /\ x \in eval.unit.functions
          BY <4>1, <4>2 DEF Standing
        <5>3. /\ Len(units[Runner]) <= Len(units'[Runner])
              /\ x \in eval.unit.functions => Len(units'[Runner]) = Len(units[Runner]) + 1
          BY KeptUnitsParts
        <5> QED
          BY <3>1, <5>1, <5>2, <5>3
      <4> QED
        BY <4>1, <4>2 DEF Standing
    <3>2. CASE i # Runner
      <4>1. symbols'[i] = symbols[i] /\ units'[i] = units[i]
        BY <1>4, <3>2, KeptUnitsParts
      <4> QED
        BY <1>1, <3>2, <4>1 DEF NothingDangles, Evaluating
    <3> QED
      BY <3>1, <3>2
  <2> QED
    BY <2>1, <2>2, <2>3 DEF NothingDangles
<1>6. CompleteKept /\ Returned
  BY <1>1, LenProperties DEF CompleteKept, Returned, TypeOK
<1> QED
  BY <1>1, <1>3, <1>5, <1>6 DEF Right, IndInv, EvaluationSound, PromiseKept, Evaluating

\* A statement that fails.
LEMMA FailsRight ==
  ASSUME IndInv, Evaluating, eval.phase = "execute", NEW new \in [Names -> Symbol], \A x \in Names : Standing(x, new[x]), Fails(new)
  PROVE  Right
<1>1. TypeOK /\ Evaluating /\ Rejected(FALSE) /\ RowsGrow(rows)
  BY RowsOnlyGrow DEF IndInv, Executing, Fails
<1>2. CASE eval.mode = "restore"
  BY <1>1, <1>2, DestroyedRight DEF Fails
<1>3. CASE eval.mode # "restore"
  <2>1. /\ symbols' = [symbols EXCEPT ![Runner] = new] /\ units' = KeptUnits /\ eval' = Idle
        /\ UNCHANGED <<rows, references, current, macros, file, source>> /\ buffer' \in {<<>>, buffer}
    BY <1>1, <1>3 DEF Fails, Rejected
  <2>2. source' \in Seq(Pieces) /\ buffer' \in Seq(Pieces)
    BY <1>1, <2>1, EmptySeq DEF TypeOK
  <2> QED
    BY <1>3, <2>1, <2>2, KeptRight
<1> QED
  BY <1>2, <1>3

\* The evaluation succeeds: its unit is kept, and after a .restore the other interpreter goes.
LEMMA ExecutionEndRight == ASSUME IndInv, ExecutionEnd PROVE Right
<1>1. TypeOK /\ NothingDangles /\ Executing /\ Evaluating /\ eval.phase = "execute" /\ eval' = Idle /\ eval'.mode = "idle"
  BY DEF IndInv, ExecutionEnd, Executing, Idle
<1>2. Runner \in Interpreters /\ current \in Interpreters /\ eval.text \in Seq(Pieces)
  BY <1>1, EvaluationParts
<1>3. \A x \in Names : Standing(x, symbols[Runner][x])
  BY <1>1, GlobalsStand DEF Globals
<1>4. {source, buffer, file.text, <<>>, source \o eval.text} \subseteq Seq(Pieces)
  BY <1>1, <1>2, ConcatProperties, EmptySeq DEF TypeOK
<1>5. CASE eval.mode # "restore"
  <2>1. PICK new \in [Names -> Symbol] : new = symbols[Runner]
    BY <1>1, <1>2 DEF TypeOK
  <2>2. symbols' = [symbols EXCEPT ![Runner] = new]
    BY <1>1, <1>2, <1>5, <2>1 DEF ExecutionEnd, TypeOK
  <2>3. units' = KeptUnits /\ UNCHANGED <<rows, references, current, macros, file>>
    BY <1>5 DEF ExecutionEnd
  <2>4. source' \in Seq(Pieces) /\ buffer' \in Seq(Pieces)
    BY <1>4, <1>5 DEF ExecutionEnd
  <2>5. \A x \in Names : Standing(x, new[x])
    BY <1>3, <2>1
  <2> QED
    BY <1>1, <1>5, <2>1, <2>2, <2>3, <2>4, <2>5, KeptRight
<1>6. CASE eval.mode = "restore"
  <2>1. Runner # current /\ Runner = Other(current) /\ references = 2
    BY <1>1, <1>6, EvaluationParts DEF Runner, NothingDangles
  <2>2. /\ references' = 1 /\ rows' = rows /\ current' = Runner
        /\ units' = [KeptUnits EXCEPT ![current] = <<>>] /\ symbols' = [symbols EXCEPT ![current] = NoSymbols]
        /\ macros' = [macros EXCEPT ![current] = {}] /\ source' = file.text /\ UNCHANGED <<buffer, file>>
    BY <1>6, <2>1 DEF ExecutionEnd, Release
  <2>3. NoSymbols \in [Names -> Symbol] /\ \A x \in Names : NoSymbols[x].kind = "absent"
    BY DEF NoSymbols, Symbol, Absent
  <2>4. <<>> \in Seq(Unit) /\ Len(<<>>) = 0
    OBVIOUS
  <2>5. KeptUnits \in [Interpreters -> Seq(Unit)]
    BY <1>1, KeptUnitsParts
  <2>6. /\ units' \in [Interpreters -> Seq(Unit)] /\ symbols' \in [Interpreters -> [Names -> Symbol]]
        /\ macros' \in [Interpreters -> SUBSET Macros]
        /\ \A i \in Interpreters : /\ i = current => units'[i] = <<>> /\ symbols'[i] = NoSymbols
                                   /\ i # current => units'[i] = KeptUnits[i] /\ symbols'[i] = symbols[i]
    BY <1>1, <1>2, <2>2, <2>3, <2>4, <2>5 DEF TypeOK
  <2>7. TypeOK'
    <3>1. eval' \in [mode : {"idle", "crashed"}] /\ references' \in Nat /\ current' \in Interpreters
      BY <1>1, <1>2, <2>2 DEF Idle
    <3>2. {source', buffer', file'.text} \subseteq Seq(Pieces)
      BY <1>4, <2>2
    <3> QED
      BY <1>1, <2>2, <2>6, <3>1, <3>2 DEF TypeOK
  <2>8. NothingDangles'
    <3>1. references' = IF eval'.mode = "restore" THEN 2 ELSE 1
      BY <1>1, <2>2
    <3>2. \A i \in Interpreters : i # current => i = Runner
      BY <1>2, <2>1 DEF Interpreters
    <3>3. \A k \in 1 .. Len(KeptUnits[Runner]), t \in Tags : KeptUnits[Runner][k].tags[t] <= Len(rows)
      BY <1>1, <1>2, KeptUnitsParts
    <3>4. \A i \in Interpreters : \A k \in 1 .. Len(units'[i]), t \in Tags : units'[i][k].tags[t] <= Len(rows')
      BY <2>2, <2>4, <2>6, <3>2, <3>3
    <3>5. ASSUME NEW i \in Interpreters, NEW x \in Names
          PROVE  /\ symbols'[i][x].kind = "variable" /\ symbols'[i][x].type # 0 =>
                      symbols'[i][x].type <= Len(rows') /\ rows'[symbols'[i][x].type].complete
                 /\ symbols'[i][x].kind = "function" => symbols'[i][x].unit <= Len(units'[i])
      <4>1. CASE i = current
        BY <2>3, <2>6, <4>1
      <4>2. CASE i # current
        <5>1. i = Runner /\ symbols'[i] = symbols[Runner] /\ units'[i] = KeptUnits[Runner]
          BY <2>6, <3>2, <4>2
        <5>2. Standing(x, symbols[Runner][x]) /\ symbols[Runner][x] \in Symbol
          BY <1>3 DEF Standing
        <5>3. ASSUME symbols[Runner][x].kind = "function"
              PROVE  symbols[Runner][x].unit <= Len(KeptUnits[Runner])
          <6>1. symbols[Runner][x].unit \in Nat /\ Len(units[Runner]) \in Nat /\ Len(KeptUnits[Runner]) \in Nat
            BY <1>1, <1>2, <2>5, <5>2, <5>3, SymbolParts, LenProperties DEF TypeOK
          <6>2. \/ symbols[Runner][x].unit <= Len(units[Runner])
                \/ symbols[Runner][x].unit = Len(units[Runner]) + 1 /\ x \in eval.unit.functions
            BY <5>2, <5>3 DEF Standing
          <6>3. /\ Len(units[Runner]) <= Len(KeptUnits[Runner])
                /\ x \in eval.unit.functions => Len(KeptUnits[Runner]) = Len(units[Runner]) + 1
            BY <1>1, KeptUnitsParts
          <6> QED
            BY <6>1, <6>2, <6>3
        <5> QED
          BY <2>2, <5>1, <5>2, <5>3 DEF Standing
      <4> QED
        BY <4>1, <4>2
    <3> QED
      BY <3>1, <3>4, <3>5 DEF NothingDangles
  <2>9. CompleteKept /\ Returned
    BY <1>1, <2>1, <2>2, LenProperties DEF CompleteKept, Returned, TypeOK
  <2> QED
    BY <1>1, <2>7, <2>8, <2>9 DEF Right, IndInv, EvaluationSound, PromiseKept, Evaluating
<1> QED
  BY <1>5, <1>6

\* A name that a statement gives a meaning to.
LEMMA NamesStand ==
  ASSUME IndInv, Executing, NEW x \in Names, NEW symbol, Standing(x, symbol)
  PROVE  \E new \in [Names -> Symbol] : new = [Globals EXCEPT ![x] = symbol] /\ \A y \in Names : Standing(y, new[y])
<1>1. Globals \in [Names -> Symbol] /\ symbol \in Symbol
  BY EvaluationParts DEF IndInv, Executing, TypeOK, Globals, Standing
<1>2. PICK new \in [Names -> Symbol] : /\ new = [Globals EXCEPT ![x] = symbol]
                                       /\ \A y \in Names : new[y] = IF y = x THEN symbol ELSE Globals[y]
  <2>1. /\ [Globals EXCEPT ![x] = symbol] \in [Names -> Symbol]
        /\ \A y \in Names : [Globals EXCEPT ![x] = symbol][y] = IF y = x THEN symbol ELSE Globals[y]
    BY <1>1
  <2> QED
    BY <2>1
<1>3. ASSUME NEW y \in Names
      PROVE  Standing(y, new[y])
  <2>1. CASE y = x
    BY <1>2, <2>1
  <2>2. CASE y # x
    BY <1>2, <2>2, GlobalsStand DEF Executing
  <2> QED
    BY <2>1, <2>2
<1> QED
  BY <1>2, <1>3

\* A statement that fails with the names as they were, or does nothing.
LEMMA GlobalsRight == ASSUME IndInv, Evaluating, eval.phase = "execute", Fails(Globals) \/ Done(Globals) PROVE Right
<1>1. PICK new \in [Names -> Symbol] : new = Globals
  BY EvaluationParts DEF IndInv, Executing, TypeOK, Globals
<1>2. \A x \in Names : Standing(x, new[x])
  BY <1>1, GlobalsStand
<1>3. Fails(new) \/ Done(new)
  BY <1>1
<1> QED
  BY <1>2, <1>3, FailsRight, DoneRight

\* The piece that is executed has been admitted.
LEMMA PieceAdmitted ==
  ASSUME IndInv, Executing, eval.at <= Len(eval.text)
  PROVE  Piece \in Pieces /\ Admitted(Piece)
<1>1. TypeOK /\ EvaluationSound /\ Evaluating /\ eval.phase = "execute"
  BY DEF IndInv, Executing
<1>2. eval.text \in Seq(Pieces) /\ eval.at \in 1 .. Len(eval.text)
  BY <1>1, EvaluationParts, LenProperties
<1> QED
  BY <1>1, <1>2, ElementOfSeq DEF EvaluationSound, Piece

\* A variable is declared with the type the parser found complete.
LEMMA DeclareVariableRight == ASSUME IndInv, NEW room \in BOOLEAN, DeclareVariable(room) PROVE Right
<1>1. Executing /\ Evaluating /\ TypeOK /\ NothingDangles /\ EvaluationSound /\ eval.at <= Len(eval.text) /\ Piece[1] = "variable"
  BY DEF DeclareVariable, At, Executing, IndInv
<1>2. /\ Admitted(Piece) /\ Piece[2] \in Names /\ Piece[3] \in Tags \cup {"int"} /\ Piece[4] \in BOOLEAN
  BY <1>1, PieceAdmitted, PieceParts
<1>3. Len(rows) \in Nat
  BY <1>1, LenProperties DEF TypeOK
<1>4. PICK type \in Nat : /\ type = (IF Piece[3] = "int" THEN 0 ELSE TagRow(Piece[3]))
                          /\ type # 0 => type <= Len(rows) /\ rows[type].complete
  <2>1. CASE Piece[3] = "int"
    BY <2>1
  <2>2. CASE Piece[3] # "int"
    <3>1. Piece[3] \in Tags /\ rows[TagRow(Piece[3])].complete
      BY <1>1, <1>2, <2>2 DEF Admitted
    <3>2. TagRow(Piece[3]) \in 0 .. Len(rows)
      BY <1>1, <3>1, TagRowIsRow
    <3> QED
      BY <1>3, <2>2, <3>1, <3>2
  <2> QED
    BY <2>1, <2>2
<1>5. PICK initialized \in BOOLEAN : initialized = Piece[4]
  BY <1>2
<1>6. PICK symbol : symbol = [kind |-> "variable", type |-> type, object |-> room, initialized |-> initialized]
  OBVIOUS
<1>7. NewVariable(Piece[3], Piece[4], room) = symbol
  BY <1>4, <1>5, <1>6 DEF NewVariable
<1>8. Standing(Piece[2], symbol)
  <2>1. symbol \in Symbol /\ symbol.kind = "variable" /\ symbol.type = type
    BY <1>6 DEF Symbol
  <2> QED
    BY <1>4, <2>1 DEF Standing
<1>9. PICK new \in [Names -> Symbol] : new = [Globals EXCEPT ![Piece[2]] = symbol] /\ \A y \in Names : Standing(y, new[y])
  BY <1>1, <1>2, <1>8, NamesStand
<1>10. Done(new) \/ Fails(new)
  BY <1>7, <1>9 DEF DeclareVariable
<1> QED
  BY <1>1, <1>9, <1>10, DoneRight, FailsRight DEF Executing

\* A variable that is there already takes an initializer at most.
LEMMA RedeclareRight == ASSUME IndInv, Redeclare PROVE Right
<1>1. Executing /\ Evaluating /\ TypeOK /\ eval.at <= Len(eval.text) /\ Piece[1] = "variable" /\ Globals[Piece[2]] # Absent
  BY DEF Redeclare, At, Executing, IndInv
<1>2. Piece[2] \in Names /\ Piece[4] \in BOOLEAN
  BY <1>1, PieceAdmitted, PieceParts
<1>3. PICK x \in Names : x = Piece[2]
  BY <1>2
<1>4. CASE Fails(Globals)
  BY <1>1, <1>4, GlobalsRight DEF Executing
<1>5. CASE Crash
  <2>1. eval'.mode = "crashed" /\ eval' \in [mode : {"idle", "crashed"}] /\ eval' # Idle
    BY <1>5 DEF Crash, Idle
  <2>2. UNCHANGED <<rows, references, current, units, symbols, macros, source, buffer, file>>
    BY <1>5 DEF Crash, session
  <2>3. TypeOK'
    BY <1>1, <2>1, <2>2 DEF TypeOK
  <2>4. NothingDangles' /\ EvaluationSound' /\ PromiseKept'
    BY <2>1 DEF NothingDangles, EvaluationSound, PromiseKept, Evaluating
  <2>5. CompleteKept /\ Returned
    BY <1>1, <2>1, <2>2, LenProperties DEF CompleteKept, Returned, Over, TypeOK
  <2> QED
    BY <2>3, <2>4, <2>5 DEF Right, IndInv
<1>6. CASE Globals[x].kind # "function" /\ Done([Globals EXCEPT ![x].initialized = @ \/ Piece[4]])
  <2>1. Standing(x, Globals[x]) /\ Globals[x] \in Symbol
    BY <1>1, GlobalsStand DEF Standing, Executing
  <2>2. PICK old \in [kind : {"variable"}, type : Nat, object : BOOLEAN, initialized : BOOLEAN] : old = Globals[x]
    BY <1>1, <1>3, <1>6, <2>1 DEF Symbol, Absent
  <2>3. PICK initialized \in BOOLEAN : initialized = (old.initialized \/ Piece[4])
    BY <1>2, <2>2
  <2>4. PICK symbol : symbol = [old EXCEPT !.initialized = initialized]
    OBVIOUS
  <2>5. symbol \in Symbol /\ symbol.kind = "variable" /\ symbol.type = old.type
    BY <2>2, <2>4 DEF Symbol
  <2>6. Standing(x, symbol)
    BY <2>1, <2>2, <2>5 DEF Standing
  <2>7. [Globals EXCEPT ![x].initialized = @ \/ Piece[4]] = [Globals EXCEPT ![x] = symbol]
    BY <2>2, <2>3, <2>4
  <2>8. PICK new \in [Names -> Symbol] : new = [Globals EXCEPT ![x] = symbol] /\ \A y \in Names : Standing(y, new[y])
    BY <1>1, <2>6, NamesStand
  <2>9. Done(new)
    BY <1>6, <2>7, <2>8
  <2> QED
    BY <1>1, <2>8, <2>9, DoneRight DEF Executing
<1> QED
  BY <1>3, <1>4, <1>5, <1>6 DEF Redeclare

\* A function's body is in the unit of the submission, which declares it.
LEMMA DeclareFunctionRight == ASSUME IndInv, NEW room \in BOOLEAN, DeclareFunction(room) PROVE Right
<1>1. Executing /\ Evaluating /\ TypeOK /\ eval.at <= Len(eval.text) /\ Piece[1] = "function"
  BY DEF DeclareFunction, At, Executing, IndInv
<1>2. Admitted(Piece) /\ Piece[2] \in Names
  BY <1>1, PieceAdmitted, PieceParts
<1>3. Len(units[Runner]) \in Nat
  BY <1>1, EvaluationParts, LenProperties DEF TypeOK
<1>4. CASE Fails(Globals)
  BY <1>1, <1>4, GlobalsRight DEF Executing
<1>5. CASE ~Fails(Globals)
  <2>1. PICK unit \in Nat : unit = IF room THEN Len(units[Runner]) + 1 ELSE 0
    BY <1>3
  <2>2. PICK symbol : symbol = [kind |-> "function", unit |-> unit]
    OBVIOUS
  <2>3. symbol \in Symbol /\ symbol.kind = "function" /\ symbol.unit = unit
    BY <2>2 DEF Symbol
  <2>4. unit <= Len(units[Runner]) \/ (unit = Len(units[Runner]) + 1 /\ Piece[2] \in eval.unit.functions)
    BY <1>1, <1>2, <1>3, <2>1 DEF Admitted
  <2>5. Standing(Piece[2], symbol)
    BY <2>3, <2>4 DEF Standing
  <2>6. PICK new \in [Names -> Symbol] : new = [Globals EXCEPT ![Piece[2]] = symbol] /\ \A y \in Names : Standing(y, new[y])
    BY <1>1, <1>2, <2>5, NamesStand
  <2>7. Done(new) \/ Fails(new)
    BY <1>5, <2>1, <2>2, <2>6 DEF DeclareFunction
  <2> QED
    BY <1>1, <2>6, <2>7, DoneRight, FailsRight DEF Executing
<1> QED
  BY <1>4, <1>5

-----------------------------------------------------------------------------
(* Every step. *)

\* Every step of the session is right.
LEMMA NextRight == IndInv /\ Next => Right
<1> SUFFICES ASSUME IndInv, Next PROVE Right
  OBVIOUS
<1>1. CASE Begins
  BY <1>1, BeginsRight
<1>2. CASE Cancel \/ Clear \/ Save
  BY <1>2, CommandRight
<1>3. CASE Parse
  <2>1. CASE \E t \in Tags : Forward(t) \/ Begin(t)
    BY <2>1, TagsRight
  <2>2. CASE \E t \in Tags \cup {"int"} : Variable(t)
    BY <2>2, VariableRight
  <2>3. CASE End \/ \E m \in Members : Member(m)
    BY <2>3, MembersRight
  <2>4. CASE Function
    BY <2>4, FunctionRight
  <2>5. CASE Plain \/ Bad \/ TextTooLong \/ TreeTooLarge \/ Incomplete
    BY <2>5, PlainRight
  <2>6. CASE ParseEnd
    BY <2>6, ParseEndRight
  <2> QED
    BY <1>3, <2>1, <2>2, <2>3, <2>4, <2>5, <2>6 DEF Parse
<1>4. CASE Execute
  <2>1. CASE \E room \in BOOLEAN : DeclareVariable(room) \/ DeclareFunction(room)
    BY <2>1, DeclareVariableRight, DeclareFunctionRight
  <2>2. CASE Redeclare
    BY <2>2, RedeclareRight
  <2>3. CASE OutOfSteps \/ Fault \/ Skip
    BY <2>3, GlobalsRight DEF OutOfSteps, Fault, Skip, Executing
  <2>4. CASE ExecutionEnd
    BY <2>4, ExecutionEndRight
  <2> QED
    BY <1>4, <2>1, <2>2, <2>3, <2>4 DEF Execute
<1> QED
  BY <1>1, <1>2, <1>3, <1>4 DEF Next, Begins

\* Every step of the session keeps the invariant.
LEMMA NextIndInv == IndInv /\ [Next]_vars => IndInv'
<1> SUFFICES ASSUME IndInv, [Next]_vars PROVE IndInv'
  OBVIOUS
<1>1. CASE Next
  BY <1>1, NextRight DEF Right
<1>2. CASE UNCHANGED vars
  <2>1. UNCHANGED <<rows, references, current, units, symbols, macros, source, buffer, file, eval>>
    BY <1>2 DEF vars, session
  <2>2. TypeOK' /\ NothingDangles' /\ PromiseKept'
    BY <2>1 DEF IndInv, TypeOK, NothingDangles, PromiseKept, Evaluating, Runner, Other
  <2>3. EvaluationSound'
    <3>1. Runner' = Runner /\ (Evaluating' <=> Evaluating)
      BY <2>1 DEF Runner, Other, Evaluating
    <3>2. ASSUME NEW t PROVE TagRow(t)' = TagRow(t)
      BY <2>1, <3>1 DEF TagRow, TagIn
    <3>3. ASSUME NEW p PROVE Admitted(p)' <=> Admitted(p)
      BY <2>1, <3>2 DEF Admitted
    <3> QED
      BY <2>1, <3>1, <3>3 DEF IndInv, EvaluationSound
  <2> QED
    BY <2>2, <2>3 DEF IndInv
<1> QED
  BY <1>1, <1>2

\* Whatever is typed and however evaluations end, the parts of the session keep their types,
\* what has been parsed stays admitted until it is executed, and what was promised back is
\* still there to give back.
THEOREM Invariance == Spec => []IndInv
<1> QED
  BY InitIndInv, NextIndInv, PTL DEF Spec

\* Nothing the session keeps refers to what is gone, for any number of tags, names and lines
\* and any limits (types_retain, types_release, ct_eval's has_functions).
THEOREM NoDangling == Spec => []NothingDangles
<1>1. IndInv => NothingDangles
  BY DEF IndInv
<1> QED
  BY <1>1, Invariance, PTL

\* A complete type stays what it is (type_finish, type_add_member, types_release).
THEOREM CompleteStays == Spec => CompleteRowsFixed
<1>1. IndInv /\ [Next]_vars =>
        [\A r \in 1 .. Len(rows) : rows[r].complete => r <= Len(rows') /\ rows'[r] = rows[r]]_vars
  BY NextRight DEF Right, CompleteKept
<1> QED
  BY <1>1, Invariance, PTL DEF Spec, CompleteRowsFixed

\* Input that is rejected leaves the session as it found it (ct_eval's pending preprocessor,
\* command's previous interpreter).
THEOREM RejectionReturns == Spec => RejectedInputKeepsSession
<1>1. IndInv /\ [Next]_vars =>
        [Over /\ (eval.phase = "parse" \/ (eval.mode = "restore" /\ current' = current)) =>
           eval.before = <<units[current], symbols[current], macros[current], source>>']_vars
  BY NextRight DEF Right, Returned
<1> QED
  BY <1>1, Invariance, PTL DEF Spec, RejectedInputKeepsSession

-----------------------------------------------------------------------------
(* What a text tells, a piece at a time. *)

\* Steps that lead from one state to another by a piece lead from start to s by the first n
\* pieces of a text.
Told(steps, start, text, n, s) ==
  \E p : p[0] = start /\ p[n] = s /\ \A k \in 1 .. n : <<p[k - 1], text[k], p[k]>> \in steps

\* A piece leads from a state to one other at most.
Functional(steps) == \A r, piece, s, t : <<r, piece, s>> \in steps /\ <<r, piece, t>> \in steps => s = t

\* Nothing leads nowhere.
LEMMA ToldStart ==
  ASSUME NEW steps, NEW start, NEW text
  PROVE  Told(steps, start, text, 0, start)
<1> DEFINE p == [k \in {0} |-> start]
<1>1. p[0] = start /\ \A k \in 1 .. 0 : <<p[k - 1], text[k], p[k]>> \in steps
  OBVIOUS
<1> QED
  BY <1>1 DEF Told

\* One more piece leads one step further.
LEMMA ToldNext ==
  ASSUME NEW steps, NEW start, NEW text, NEW n \in Nat, NEW s, NEW t,
         Told(steps, start, text, n, s), <<s, text[n + 1], t>> \in steps
  PROVE  Told(steps, start, text, n + 1, t)
<1>1. PICK p : p[0] = start /\ p[n] = s /\ \A k \in 1 .. n : <<p[k - 1], text[k], p[k]>> \in steps
  BY DEF Told
<1> DEFINE q == [k \in Nat |-> IF k <= n THEN p[k] ELSE t]
<1>2. q[0] = start /\ q[n + 1] = t /\ q[n] = s
  BY <1>1
<1>3. ASSUME NEW k \in 1 .. n + 1
      PROVE  <<q[k - 1], text[k], q[k]>> \in steps
  <2>1. CASE k = n + 1
    BY <1>2, <2>1
  <2>2. CASE k # n + 1
    <3>1. k \in 1 .. n /\ k \in Nat /\ k - 1 \in Nat /\ k - 1 <= n /\ k <= n
      BY <2>2
    <3>2. q[k - 1] = p[k - 1] /\ q[k] = p[k]
      BY <3>1
    <3> QED
      BY <1>1, <3>1, <3>2
  <2> QED
    BY <2>1, <2>2
<1> HIDE DEF q
<1> QED
  BY <1>2, <1>3 DEF Told

\* What the first pieces tell does not depend on the others.
LEMMA ToldAgrees ==
  ASSUME NEW steps, NEW start, NEW text, NEW other, NEW n \in Nat, NEW s,
         Told(steps, start, text, n, s), \A k \in 1 .. n : other[k] = text[k]
  PROVE  Told(steps, start, other, n, s)
BY DEF Told

\* Before the last piece there is a state from which the next one leads on.
LEMMA ToldBefore ==
  ASSUME NEW steps, NEW start, NEW text, NEW n \in Nat, NEW s, Told(steps, start, text, n, s),
         NEW k \in 0 .. n - 1
  PROVE  \E r, t : Told(steps, start, text, k, r) /\ <<r, text[k + 1], t>> \in steps
<1>1. PICK p : p[0] = start /\ p[n] = s /\ \A l \in 1 .. n : <<p[l - 1], text[l], p[l]>> \in steps
  BY DEF Told
<1>2. PICK l \in 1 .. n : l = k + 1 /\ l - 1 = k
  OBVIOUS
<1>3. <<p[k], text[k + 1], p[k + 1]>> \in steps
  BY <1>1, <1>2
<1>4. Told(steps, start, text, k, p[k])
  BY <1>1 DEF Told
<1> QED
  BY <1>3, <1>4

\* A text tells one thing.
LEMMA ToldOnce ==
  ASSUME NEW steps, Functional(steps), NEW start, NEW text, NEW n \in Nat, NEW s, NEW t,
         Told(steps, start, text, n, s), Told(steps, start, text, n, t)
  PROVE  s = t
<1>1. PICK p : p[0] = start /\ p[n] = s /\ \A k \in 1 .. n : <<p[k - 1], text[k], p[k]>> \in steps
  BY DEF Told
<1>2. PICK q : q[0] = start /\ q[n] = t /\ \A k \in 1 .. n : <<q[k - 1], text[k], q[k]>> \in steps
  BY DEF Told
<1> DEFINE apart == {k \in 0 .. n : p[k] # q[k]}
<1>3. CASE apart = {}
  BY <1>1, <1>2, <1>3
<1>4. CASE apart # {}
  <2>1. apart \subseteq Nat
    OBVIOUS
  <2>2. PICK k \in apart : \A l \in apart : k <= l
    <3> HIDE DEF apart
    <3> QED
      BY <1>4, <2>1, LeastNatural
  <2>3. k \in 1 .. n /\ k - 1 \in 0 .. n /\ ~(k <= k - 1) /\ p[k] # q[k]
    BY <1>1, <1>2
  <2>4. p[k - 1] = q[k - 1]
    BY <2>2, <2>3
  <2>5. <<p[k - 1], text[k], p[k]>> \in steps /\ <<p[k - 1], text[k], q[k]>> \in steps
    BY <1>1, <1>2, <2>3, <2>4
  <2> QED
    BY <2>3, <2>5 DEF Functional
<1> QED
  BY <1>3, <1>4

-----------------------------------------------------------------------------
(* What a text tells of types, and then of names, a piece at a time. *)

\* What is known of each tag (nothing, or its row), and the tag whose definition is open.
Stages     == [tags : [Tags -> SUBSET Row], open : SUBSET Tags]
FirstStage == [tags |-> [t \in Tags |-> {}], open |-> {}]

\* The parser lets a piece pass at a stage, and the stage after it.
Parses(stage, piece) ==
  /\ piece[1] # "bad"
  /\ piece[1] \in {"forward", "begin", "variable", "function", "fault"} => stage.open = {}
  /\ piece[1] = "begin" => \A row \in stage.tags[piece[2]] : ~row.complete
  /\ piece[1] = "member" => \E t \in stage.open : \A row \in stage.tags[t] : ~row.complete /\ piece[2] \notin row.members
  /\ piece[1] = "end" => \E t \in stage.open : \A row \in stage.tags[t] : row.members # {}
  /\ piece[1] = "variable" /\ piece[3] # "int" => \E row \in stage.tags[piece[3]] : row.complete

After(stage, piece) ==
  CASE piece[1] \in {"forward", "begin"} ->
         [tags |-> [t \in Tags |-> IF t = piece[2] /\ stage.tags[t] = {} THEN {NewRow} ELSE stage.tags[t]],
          open |-> IF piece[1] = "begin" THEN {piece[2]} ELSE stage.open]
    [] piece[1] = "member" ->
         [tags |-> [t \in Tags |-> IF t \in stage.open
                                   THEN {[row EXCEPT !.members = @ \cup {piece[2]}] : row \in stage.tags[t]}
                                   ELSE stage.tags[t]],
          open |-> stage.open]
    [] piece[1] = "end" ->
         [tags |-> [t \in Tags |-> IF t \in stage.open THEN {[row EXCEPT !.complete = TRUE] : row \in stage.tags[t]}
                                   ELSE stage.tags[t]],
          open |-> {}]
    [] OTHER -> stage

\* What a name stands for, with its type by the tag.
Meanings    == [kind : {"absent", "variable", "function"}, tag : Tags \cup {"int"}, initialized : BOOLEAN]
Glossaries  == [Names -> Meanings]
NoMeaning   == [kind |-> "absent", tag |-> "int", initialized |-> FALSE]
NoGlossary  == [x \in Names |-> NoMeaning]

\* A piece can be executed, and what is known of the names after it.
Executes(names, piece) ==
  /\ piece[1] \notin {"bad", "fault"}
  /\ piece[1] = "variable" =>
       \/ names[piece[2]].kind = "absent"
       \/ /\ names[piece[2]].kind = "variable" /\ names[piece[2]].tag = piece[3]
          /\ ~(names[piece[2]].initialized /\ piece[4])
  /\ piece[1] = "function" => names[piece[2]].kind = "absent"
Learned(names, piece) ==
  CASE piece[1] = "variable" ->
         [names EXCEPT ![piece[2]] = [kind |-> "variable", tag |-> piece[3], initialized |-> @.initialized \/ piece[4]]]
    [] piece[1] = "function" -> [names EXCEPT ![piece[2]] = [NoMeaning EXCEPT !.kind = "function"]]
    [] OTHER -> names

TypeSteps == {st \in Stages \X Pieces \X Stages : Parses(st[1], st[2]) /\ st[3] = After(st[1], st[2])}
NameSteps == {st \in Glossaries \X Pieces \X Glossaries : Executes(st[1], st[2]) /\ st[3] = Learned(st[1], st[2])}

TypesTold(text, n, stage) == Told(TypeSteps, FirstStage, text, n, stage)
NamesTold(text, n, names) == Told(NameSteps, NoGlossary, text, n, names)

-----------------------------------------------------------------------------
(* The session, and what its source tells. *)

\* The row of each tag: to the interpreter in place, and to the evaluation.
KeptRows == [t \in Tags |-> TagIn(current, t)]
RunRows  == [t \in Tags |-> TagRow(t)]

\* No two tags lead to one row.
Apart(rowOf) == \A t, u \in Tags : rowOf[t] = rowOf[u] /\ rowOf[t] # 0 => t = u

\* The interpreter that is not in place keeps nothing, and no row is that of two tags or both
\* of a tag that is kept and of one that the evaluation has brought.
RowsApart ==
  /\ units[Other(current)] = <<>>
  /\ Apart(KeptRows)
  /\ Evaluating =>
       /\ Apart(RunRows)
       /\ \A t, u \in Tags : eval.unit.tags[t] # 0 => TagIn(current, u) # eval.unit.tags[t]
       /\ eval.open # 0 => \E t \in Tags : TagRow(t) = eval.open

Shapes(rowOf) == [t \in Tags |-> Shape(rowOf[t])]

\* The stage that the evaluation is at.
TagsOf(row) == {t \in Tags : row # 0 /\ TagRow(t) = row}
StageNow    == [tags |-> Shapes(RunRows), open |-> TagsOf(eval.open)]

\* A symbol stands for what a name means, when the tags are these rows.
StandsFor(symbol, meaning, rowOf) ==
  /\ symbol.kind = meaning.kind
  /\ symbol.kind = "variable" =>
       /\ symbol.initialized = meaning.initialized
       /\ symbol.type = IF meaning.tag = "int" THEN 0 ELSE rowOf[meaning.tag]
       /\ meaning.tag # "int" => rowOf[meaning.tag] # 0
  /\ symbol.kind # "variable" => meaning = [NoMeaning EXCEPT !.kind = symbol.kind]

\* The first pieces of a text, some of them executed, tell of a stage and of names that
\* these symbols stand for.
Tells(text, parsed, executed, stage, globals, rowOf) ==
  /\ TypesTold(text, parsed, stage)
  /\ \E names \in Glossaries :
       NamesTold(text, executed, names) /\ \A x \in Names : StandsFor(globals[x], names[x], rowOf)

\* A text tells what the interpreter in place is like.
KeptIs(text) ==
  /\ Tells(text, Len(text), Len(text), [tags |-> Shapes(KeptRows), open |-> {}], symbols[current], KeptRows)
  /\ macros[current] = MacrosOf(text)

\* The positions and phases of an evaluation, and the interpreter that is not in place.
Tidy ==
  /\ exact \in BOOLEAN
  /\ Evaluating => /\ eval.at <= Len(eval.text) + 1
                   /\ eval.phase = "execute" => eval.open = 0
                   /\ eval.mode = "restore" => eval.text = file.text
  /\ eval.mode \notin {"restore", "crashed"} =>
       symbols[Other(current)] = NoSymbols /\ macros[Other(current)] = {}

\* Unless it has lost count, the source tells of the session, or of what it was before the
\* evaluation did something.
SourceTold ==
  exact /\ eval.mode # "crashed" /\ (eval.mode \in {"check", "submit", "load"} => ~eval.touched) => KeptIs(source)

\* What the evaluation goes on from, and all that it comes to; how much of that is parsed and
\* how much is executed.
Base      == IF eval.mode = "restore" THEN <<>> ELSE source
Whole     == Base \o eval.text
TypesDone == Len(Base) + (IF eval.phase = "parse" THEN eval.at - 1 ELSE Len(eval.text))
NamesDone == Len(Base) + (IF eval.phase = "parse" THEN 0 ELSE eval.at - 1)

\* What is parsed and executed so far tells of the interpreter that runs.
EvaluationTold ==
  Evaluating /\ (exact \/ eval.mode = "restore") =>
    /\ Tells(Whole, TypesDone, NamesDone, StageNow, symbols[Runner], RunRows)
    /\ macros[Runner] = MacrosOf(IF eval.phase = "parse" THEN Base ELSE Whole)

\* What a program could tell of a session, from what is known of its tags, names and macros.
ViewOf(tags, names, known) ==
  [names  |-> [x \in Names |->
                 IF names[x].kind # "variable" THEN <<names[x].kind>>
                 ELSE <<"variable", names[x].initialized, IF names[x].tag = "int" THEN {} ELSE tags[names[x].tag]>>],
   tags   |-> tags,
   macros |-> known]

\* The saved text tells of the session as it was when it was saved.
FileTold ==
  file.exact =>
    \E tags, names :
      /\ TypesTold(file.text, Len(file.text), [tags |-> tags, open |-> {}])
      /\ NamesTold(file.text, Len(file.text), names)
      /\ file.view = ViewOf(tags, names, MacrosOf(file.text))

\* All of it together: what every step keeps.
Recorded == Tidy /\ RowsApart /\ SourceTold /\ EvaluationTold /\ FileTold

-----------------------------------------------------------------------------
(* Facts. *)

\* What a piece leads to is determined.
LEMMA StepsFunctional == Functional(TypeSteps) /\ Functional(NameSteps)
BY DEF Functional, TypeSteps, NameSteps

\* Types of the rows.
LEMMA RowFunctions ==
  ASSUME IndInv, eval.mode # "crashed"
  PROVE  /\ KeptRows \in [Tags -> 0 .. Len(rows)]
         /\ Len(rows) \in Nat /\ \A r \in 1 .. Len(rows) : rows[r] \in Row
         /\ \A r \in 0 .. Len(rows) : Shape(r) \in SUBSET Row /\ (Shape(r) = {} <=> r = 0)
         /\ Evaluating => RunRows \in [Tags -> 0 .. Len(rows)]
<1>1. TypeOK /\ NothingDangles /\ EvaluationSound /\ current \in Interpreters
  BY DEF IndInv, TypeOK
<1>2. KeptRows \in [Tags -> 0 .. Len(rows)]
  BY <1>1, TagInIsRow DEF KeptRows
<1>3. Len(rows) \in Nat /\ \A r \in 1 .. Len(rows) : rows[r] \in Row
  BY <1>1, LenProperties, ElementOfSeq DEF TypeOK
<1>4. \A r \in 0 .. Len(rows) : Shape(r) \in SUBSET Row /\ (Shape(r) = {} <=> r = 0)
  BY <1>3 DEF Shape
<1>5. Evaluating => RunRows \in [Tags -> 0 .. Len(rows)]
  BY <1>1, TagRowIsRow DEF RunRows
<1> QED
  BY <1>2, <1>3, <1>4, <1>5

\* What the stage says of the tags and of the open definition.
LEMMA StageFacts ==
  ASSUME IndInv, RowsApart, Evaluating
  PROVE  /\ StageNow \in Stages
         /\ \A t \in Tags : StageNow.tags[t] = Shape(TagRow(t)) /\ TagRow(t) \in 0 .. Len(rows)
         /\ \A t \in Tags : TagRow(t) = 0 => StageNow.tags[t] = {}
         /\ \A t \in Tags : TagRow(t) # 0 => StageNow.tags[t] = {rows[TagRow(t)]} /\ rows[TagRow(t)] \in Row
         /\ eval.open = 0 => StageNow.open = {}
         /\ eval.open # 0 => \E t \in Tags : StageNow.open = {t} /\ TagRow(t) = eval.open
<1>1. eval.mode # "crashed"
  BY DEF Evaluating
<1>2. /\ RunRows \in [Tags -> 0 .. Len(rows)] /\ Len(rows) \in Nat
      /\ \A r \in 1 .. Len(rows) : rows[r] \in Row
      /\ \A r \in 0 .. Len(rows) : Shape(r) \in SUBSET Row /\ (Shape(r) = {} <=> r = 0)
  BY <1>1, RowFunctions
<1>3. \A t \in Tags : RunRows[t] = TagRow(t)
  BY DEF RunRows
<1>4. \A t \in Tags : StageNow.tags[t] = Shape(TagRow(t)) /\ TagRow(t) \in 0 .. Len(rows)
  BY <1>2, <1>3 DEF StageNow, Shapes
<1>5. StageNow \in Stages
  <2>1. Shapes(RunRows) \in [Tags -> SUBSET Row]
    BY <1>2 DEF Shapes
  <2>2. TagsOf(eval.open) \in SUBSET Tags
    BY DEF TagsOf
  <2> QED
    BY <2>1, <2>2 DEF StageNow, Stages
<1>6. ASSUME NEW t \in Tags, TagRow(t) # 0
      PROVE  StageNow.tags[t] = {rows[TagRow(t)]} /\ rows[TagRow(t)] \in Row
  BY <1>2, <1>4, <1>6 DEF Shape
<1>7. ASSUME eval.open # 0
      PROVE  \E t \in Tags : StageNow.open = {t} /\ TagRow(t) = eval.open
  <2>1. PICK t \in Tags : TagRow(t) = eval.open
    BY <1>7 DEF RowsApart
  <2>2. \A u \in Tags : TagRow(u) = eval.open => u = t
    BY <1>3, <1>7, <2>1 DEF RowsApart, Apart
  <2>3. StageNow.open = {t}
    BY <1>7, <2>1, <2>2 DEF StageNow, TagsOf
  <2> QED
    BY <2>1, <2>3
<1>8. \A t \in Tags : TagRow(t) = 0 => StageNow.tags[t] = {}
  BY <1>4 DEF Shape
<1>9. eval.open = 0 => StageNow.open = {}
  BY DEF StageNow, TagsOf
<1> QED
  BY <1>4, <1>5, <1>6, <1>7, <1>8, <1>9

-----------------------------------------------------------------------------
(* Steps of the parser. *)

\* One more piece parsed; the rows of the tags that had one stay.
LEMMA TellsTypes ==
  ASSUME NEW text, NEW parsed \in Nat, NEW executed, NEW stage, NEW globals, NEW rowOf,
         Tells(text, parsed, executed, stage, globals, rowOf),
         NEW next, <<stage, text[parsed + 1], next>> \in TypeSteps,
         NEW rowOfNext, \A t \in Tags : rowOf[t] # 0 => rowOfNext[t] = rowOf[t]
  PROVE  Tells(text, parsed + 1, executed, next, globals, rowOfNext)
<1>1. TypesTold(text, parsed + 1, next)
  BY ToldNext DEF Tells, TypesTold
<1>2. PICK names \in Glossaries :
        NamesTold(text, executed, names) /\ \A x \in Names : StandsFor(globals[x], names[x], rowOf)
  BY DEF Tells
<1>3. ASSUME NEW x \in Names
      PROVE  StandsFor(globals[x], names[x], rowOfNext)
  <2>1. names[x].tag \in Tags \cup {"int"}
    BY <1>2 DEF Glossaries, Meanings
  <2> QED
    BY <1>2, <2>1 DEF StandsFor
<1> QED
  BY <1>1, <1>2, <1>3 DEF Tells

\* What a step of the parser makes of the evaluation.
LEMMA ParsedParts ==
  ASSUME IndInv, Parsing, eval.at <= Len(eval.text),
         NEW newRows, NEW open \in Nat, NEW unit \in Unit, NEW touched \in BOOLEAN,
         Parsed(newRows, open, unit, touched)
  PROVE  /\ Piece \in Pieces /\ eval.at \in 1 .. Len(eval.text) /\ Len(eval.text) \in Nat
         /\ rows' = newRows /\ UNCHANGED <<references, current, units, symbols, macros, source, buffer, file, exact>>
         /\ eval'.mode = eval.mode /\ eval'.phase = "parse" /\ eval'.text = eval.text /\ eval'.at = eval.at + 1
         /\ eval'.open = open /\ eval'.unit = unit /\ eval'.touched = (eval.touched \/ touched)
         /\ Evaluating' /\ Runner' = Runner
         /\ \A i, t : TagIn(i, t)' = TagIn(i, t)
         /\ \A t : TagRow(t)' = IF unit.tags[t] # 0 THEN unit.tags[t] ELSE TagIn(Runner, t)
<1>1. TypeOK /\ Evaluating /\ eval.phase = "parse"
  BY DEF IndInv, Parsing
<1>2. eval \in EvaluationRecord /\ eval.text \in Seq(Pieces) /\ eval.at \in Nat \ {0} /\ eval.touched \in BOOLEAN
  BY <1>1, EvaluationParts
<1>3. Len(eval.text) \in Nat /\ eval.at \in 1 .. Len(eval.text)
  BY <1>2, LenProperties
<1>4. Piece \in Pieces
  BY <1>2, <1>3, ElementOfSeq DEF Piece
<1>5. rows' = newRows /\ UNCHANGED <<references, current, units, symbols, macros, source, buffer, file, exact>>
  BY DEF Parsed, session
<1>6. /\ eval'.mode = eval.mode /\ eval'.phase = "parse" /\ eval'.text = eval.text /\ eval'.at = eval.at + 1
      /\ eval'.open = open /\ eval'.unit = unit /\ eval'.touched = (eval.touched \/ touched)
  <2>1. PICK now \in BOOLEAN : now = (eval.touched \/ touched)
    OBVIOUS
  <2>2. eval' = [eval EXCEPT !.at = @ + 1, !.open = open, !.unit = unit, !.touched = @ \/ touched]
    BY DEF Parsed
  <2>3. eval' = [eval EXCEPT !.at = @ + 1, !.open = open, !.unit = unit, !.touched = now]
    BY <2>1, <2>2
  <2>4. /\ eval'.mode = eval.mode /\ eval'.phase = "parse" /\ eval'.text = eval.text /\ eval'.at = eval.at + 1
        /\ eval'.open = open /\ eval'.unit = unit /\ eval'.touched = now
    BY <1>1, <1>2, <2>3 DEF EvaluationRecord
  <2> QED
    BY <2>1, <2>4
<1>7. Evaluating' /\ Runner' = Runner
  BY <1>1, <1>5, <1>6 DEF Evaluating, Runner, Other
<1>8. ASSUME NEW i, NEW t
      PROVE  TagIn(i, t)' = TagIn(i, t)
  BY <1>5 DEF TagIn
<1>9. ASSUME NEW t
      PROVE  TagRow(t)' = IF unit.tags[t] # 0 THEN unit.tags[t] ELSE TagIn(Runner, t)
  BY <1>5, <1>6, <1>7 DEF TagRow, TagIn
<1> QED
  BY <1>3, <1>4, <1>5, <1>6, <1>7, <1>8, <1>9

\* The rows of the kept tags look the same: the source still tells of them.
LEMMA KeptStays ==
  ASSUME current' = current, units'[current] = units[current], symbols'[current] = symbols[current],
         macros'[current] = macros[current], source' = source,
         \A t \in Tags : Shape(TagIn(current, t))' = Shape(TagIn(current, t))
  PROVE  /\ KeptRows' = KeptRows /\ Shapes(KeptRows)' = Shapes(KeptRows)
         /\ KeptIs(source) => KeptIs(source)'
<1>1. \A t : TagIn(current, t)' = TagIn(current, t)
  BY DEF TagIn
<1>2. KeptRows' = KeptRows
  BY <1>1 DEF KeptRows
<1>3. Shapes(KeptRows)' = Shapes(KeptRows)
  <2>1. ASSUME NEW t \in Tags
        PROVE  Shape(KeptRows[t])' = Shape(KeptRows[t])
    BY <1>1 DEF KeptRows, Shape
  <2> QED
    BY <2>1 DEF Shapes
<1> QED
  BY <1>2, <1>3 DEF KeptIs

\* The text of the evaluation, and where it is in it.
LEMMA WholeParts ==
  ASSUME IndInv, Evaluating
  PROVE  /\ source \in Seq(Pieces) /\ Base \in Seq(Pieces) /\ Len(Base) \in Nat
         /\ Whole \in Seq(Pieces) /\ Len(Whole) = Len(Base) + Len(eval.text)
         /\ \A k \in 1 .. Len(Base) : Whole[k] = Base[k]
         /\ eval.at <= Len(eval.text) => Whole[Len(Base) + eval.at] = Piece
<1>1. TypeOK /\ eval.text \in Seq(Pieces) /\ eval.at \in Nat \ {0}
  BY EvaluationParts DEF IndInv
<1>2. source \in Seq(Pieces) /\ Base \in Seq(Pieces)
  <2>1. <<>> \in Seq(Pieces)
    OBVIOUS
  <2> QED
    BY <1>1, <2>1 DEF TypeOK, Base
<1>3. PICK base \in Seq(Pieces), text \in Seq(Pieces) : base = Base /\ text = eval.text
  BY <1>1, <1>2
<1>4. /\ base \o text \in Seq(Pieces) /\ Len(base \o text) = Len(base) + Len(text)
      /\ \A k \in 1 .. Len(base) + Len(text) : (base \o text)[k] = IF k <= Len(base) THEN base[k] ELSE text[k - Len(base)]
  BY <1>3, ConcatProperties
<1>5. Len(base) \in Nat /\ Len(text) \in Nat
  BY <1>3, LenProperties
<1>6. ASSUME NEW at \in Nat \ {0}, at <= Len(text)
      PROVE  (base \o text)[Len(base) + at] = text[at]
  <2>1. Len(base) + at \in 1 .. Len(base) + Len(text) /\ ~(Len(base) + at <= Len(base)) /\ (Len(base) + at) - Len(base) = at
    BY <1>5, <1>6
  <2> QED
    BY <1>4, <2>1
<1>7. \A k \in 1 .. Len(base) : (base \o text)[k] = base[k]
  BY <1>4, <1>5
<1> QED
  BY <1>1, <1>2, <1>3, <1>4, <1>5, <1>6, <1>7 DEF Whole, Piece

\* A step of the parser that is a step between stages keeps what is recorded.
LEMMA ParsedRecorded ==
  ASSUME IndInv, Recorded, Parsing, eval.at <= Len(eval.text),
         NEW newRows, NEW open \in Nat, NEW unit \in Unit, NEW touched \in BOOLEAN,
         Parsed(newRows, open, unit, touched),
         \A t \in Tags : TagRow(t) # 0 => TagRow(t)' = TagRow(t),
         eval.mode = "restore" \/ ~touched => \A t \in Tags : Shape(TagIn(current, t))' = Shape(TagIn(current, t)),
         RowsApart',
         <<StageNow, Piece, StageNow'>> \in TypeSteps
  PROVE  Recorded' /\ eval' # Idle
<1>1. /\ Piece \in Pieces /\ eval.at \in 1 .. Len(eval.text) /\ Len(eval.text) \in Nat
      /\ rows' = newRows /\ UNCHANGED <<references, current, units, symbols, macros, source, buffer, file, exact>>
      /\ eval'.mode = eval.mode /\ eval'.phase = "parse" /\ eval'.text = eval.text /\ eval'.at = eval.at + 1
      /\ eval'.open = open /\ eval'.unit = unit /\ eval'.touched = (eval.touched \/ touched)
      /\ Evaluating' /\ Runner' = Runner
  <2>1. rows' = newRows /\ UNCHANGED <<references, current, units, symbols, macros, source, buffer, file, exact>>
    BY DEF Parsed, session
  <2>2. Piece \in Pieces /\ eval.at \in 1 .. Len(eval.text) /\ Len(eval.text) \in Nat
    BY ParsedParts
  <2>3. eval'.mode = eval.mode /\ eval'.phase = "parse" /\ eval'.text = eval.text /\ eval'.at = eval.at + 1
    BY ParsedParts
  <2>4. eval'.open = open /\ eval'.unit = unit /\ Evaluating' /\ Runner' = Runner
    BY ParsedParts
  <2>5. eval'.touched = (eval.touched \/ touched)
    BY ParsedParts
  <2> QED
    BY <2>1, <2>2, <2>3, <2>4, <2>5
<1>2. Evaluating /\ eval.phase = "parse" /\ Tidy /\ SourceTold /\ EvaluationTold /\ FileTold
  BY DEF Parsing, Recorded
<1>3. Tidy'
  BY <1>1, <1>2 DEF Tidy, Other
<1>4. SourceTold'
  <2>1. SUFFICES ASSUME exact', eval'.mode \in {"check", "submit", "load"} => ~eval'.touched
                 PROVE  KeptIs(source)'
    BY DEF SourceTold
  <2>2. eval.mode = "restore" \/ ~touched
    BY <1>1, <1>2, <2>1 DEF Evaluating
  <2>3. KeptIs(source)
    BY <1>1, <1>2, <2>1 DEF SourceTold, Evaluating
  <2> QED
    BY <1>1, <2>2, <2>3, KeptStays
<1>5. EvaluationTold'
  <2>1. SUFFICES ASSUME exact \/ eval.mode = "restore"
                 PROVE  /\ Tells(Whole', TypesDone', NamesDone', StageNow', symbols'[Runner'], RunRows')
                        /\ macros'[Runner'] = MacrosOf(Base')
    BY <1>1 DEF EvaluationTold, MacrosOf
  <2>2. Base' = Base /\ Whole' = Whole /\ TypesDone' = TypesDone + 1 /\ NamesDone' = NamesDone
        /\ TypesDone \in Nat /\ Whole[TypesDone + 1] = Piece
    <3>1. Base' = Base
      BY <1>1 DEF Base
    <3>2. Len(Base) \in Nat /\ Whole[Len(Base) + eval.at] = Piece
      BY <1>1, <1>2, WholeParts
    <3>3. TypesDone = Len(Base) + (eval.at - 1) /\ NamesDone = Len(Base) + 0
      BY <1>2 DEF TypesDone, NamesDone
    <3>4. TypesDone' = Len(Base) + (eval.at + 1 - 1) /\ NamesDone' = Len(Base) + 0
      BY <1>1, <3>1 DEF TypesDone, NamesDone
    <3>5. TypesDone \in Nat /\ TypesDone + 1 = Len(Base) + eval.at /\ TypesDone' = TypesDone + 1 /\ NamesDone' = NamesDone
      BY <1>1, <3>2, <3>3, <3>4
    <3>6. Whole' = Whole
      BY <1>1, <3>1 DEF Whole
    <3> QED
      BY <3>1, <3>2, <3>5, <3>6
  <2>3. Tells(Whole, TypesDone, NamesDone, StageNow, symbols[Runner], RunRows) /\ macros[Runner] = MacrosOf(Base)
    BY <1>2, <2>1 DEF EvaluationTold
  <2>4. \A t \in Tags : RunRows[t] # 0 => RunRows'[t] = RunRows[t]
    BY DEF RunRows
  <2>5. Tells(Whole, TypesDone + 1, NamesDone, StageNow', symbols[Runner], RunRows')
    BY <2>2, <2>3, <2>4, TellsTypes
  <2> QED
    BY <1>1, <2>2, <2>3, <2>5
<1>6. FileTold'
  BY <1>1, <1>2 DEF FileTold
<1>7. eval' # Idle
  BY <1>1 DEF Evaluating, Idle
<1> QED
  BY <1>3, <1>4, <1>5, <1>6, <1>7 DEF Recorded

\* An evaluation that is over without a record of it: what is still told of is as it was.
LEMMA OverRecorded ==
  ASSUME IndInv, Recorded, Evaluating, eval' = Idle, UNCHANGED <<current, source, file>>,
         \A r \in 1 .. Len(rows) : rows'[r] = rows[r],
         units'[Other(current)] = <<>>, symbols'[Other(current)] = NoSymbols, macros'[Other(current)] = {},
         Apart(KeptRows'), exact' \in BOOLEAN,
         exact' => /\ exact /\ (eval.mode = "restore" \/ ~eval.touched)
                   /\ units'[current] = units[current] /\ symbols'[current] = symbols[current]
                   /\ macros'[current] = macros[current]
  PROVE  Recorded'
<1>1. eval'.mode = "idle" /\ ~Evaluating' /\ Other(current)' = Other(current)
  BY DEF Idle, Evaluating, Other
<1>2. Tidy' /\ RowsApart' /\ EvaluationTold'
  BY <1>1 DEF Tidy, RowsApart, EvaluationTold
<1>3. FileTold'
  BY DEF FileTold, Recorded
<1>4. SourceTold'
  <2>1. SUFFICES ASSUME exact'
                 PROVE  KeptIs(source)'
    BY DEF SourceTold
  <2>2. KeptIs(source)
    BY <2>1 DEF Recorded, SourceTold, Evaluating
  <2>3. ASSUME NEW t \in Tags
        PROVE  Shape(TagIn(current, t))' = Shape(TagIn(current, t))
    <3>1. KeptRows[t] \in 0 .. Len(rows) /\ KeptRows[t] = TagIn(current, t) /\ Len(rows) \in Nat
      BY RowFunctions DEF KeptRows, Evaluating
    <3>2. TagIn(current, t)' = TagIn(current, t)
      <4>1. current' = current /\ units'[current] = units[current]
        BY <2>1
      <4> QED
        BY ONLY <4>1 DEF TagIn
    <3>3. PICK r \in 0 .. Len(rows) : r = TagIn(current, t)
      BY <3>1
    <3>4. r # 0 => rows'[r] = rows[r]
      BY <3>1
    <3> QED
      BY <3>2, <3>3, <3>4 DEF Shape
  <2> QED
    BY <2>1, <2>2, <2>3, KeptStays
<1> QED
  BY <1>2, <1>3, <1>4 DEF Recorded

\* Rows that a failed parse leaves: those there were, and a last one perhaps.
RowsOrOneMore(newRows) == newRows \in {rows, Append(rows, NewRow)}

\* The rows that are there stay the same when rows are only added.
LEMMA RowsThere ==
  ASSUME IndInv, NEW newRows, RowsOrOneMore(newRows)
  PROVE  \A r \in 1 .. Len(rows) : newRows[r] = rows[r]
<1>1. rows \in Seq(Row) /\ NewRow \in Row
  BY DEF IndInv, TypeOK, NewRow, Row
<1>2. \A r \in 1 .. Len(rows) : Append(rows, NewRow)[r] = rows[r]
  BY <1>1, AppendProperties
<1> QED
  BY <1>2 DEF RowsOrOneMore

\* The interpreter that was to restore the session goes, and nothing with it.
LEMMA RunnerDestroyed ==
  ASSUME IndInv, Evaluating, eval.mode = "restore", NEW newRows, Destroy(Runner, newRows)
  PROVE  /\ rows' = newRows
         /\ units'[Other(current)] = <<>> /\ symbols'[Other(current)] = NoSymbols /\ macros'[Other(current)] = {}
         /\ units'[current] = units[current] /\ symbols'[current] = symbols[current] /\ macros'[current] = macros[current]
<1>1. Runner = Other(current) /\ Other(current) \in Interpreters /\ current \in Interpreters /\ Other(current) # current
  BY EvaluationParts DEF Runner, IndInv
<1>2. references = 2
  BY DEF IndInv, NothingDangles
<1>3. units \in [Interpreters -> Seq(Unit)] /\ symbols \in [Interpreters -> [Names -> Symbol]] /\ macros \in [Interpreters -> SUBSET Macros]
  BY DEF IndInv, TypeOK
<1> QED
  BY <1>1, <1>2, <1>3 DEF Destroy, Release, EmptySession

\* A parse that fails.
LEMMA ParseFailsRecorded ==
  ASSUME IndInv, Recorded, Evaluating, eval.phase = "parse", NEW newRows, NEW incomplete, RowsOrOneMore(newRows), ParseFails(newRows, incomplete)
  PROVE  Recorded'
<1>1. Evaluating /\ Tidy /\ RowsApart /\ eval.touched \in BOOLEAN /\ exact \in BOOLEAN /\ eval.mode # "crashed"
  BY EvaluationParts DEF Parsing, Recorded, IndInv, Tidy, Evaluating
<1>2. eval' = Idle /\ UNCHANGED <<current, source, file>> /\ exact' = (exact /\ ~eval.touched)
  BY DEF ParseFails, Rejected
<1>3. /\ rows' = newRows
      /\ units'[Other(current)] = <<>> /\ symbols'[Other(current)] = NoSymbols /\ macros'[Other(current)] = {}
      /\ units'[current] = units[current] /\ symbols'[current] = symbols[current] /\ macros'[current] = macros[current]
  <2>1. CASE eval.mode = "restore"
    BY <1>1, <2>1, RunnerDestroyed DEF ParseFails
  <2>2. CASE eval.mode # "restore"
    BY <1>1, <2>2 DEF ParseFails, Tidy, RowsApart, session
  <2> QED
    BY <2>1, <2>2
<1>4. KeptRows' = KeptRows
  BY <1>2, <1>3 DEF KeptRows, TagIn
<1>5. Apart(KeptRows')
  BY <1>1, <1>4 DEF RowsApart
<1>6. exact' \in BOOLEAN /\ (exact' => exact /\ ~eval.touched)
  BY <1>1, <1>2
<1>7. \A r \in 1 .. Len(rows) : rows'[r] = rows[r]
  BY <1>3, RowsThere
<1> QED
  BY <1>1, <1>2, <1>3, <1>5, <1>6, <1>7, OverRecorded

\* What leads from a stage to another.
LEMMA IsTypeStep ==
  ASSUME NEW stage \in Stages, NEW piece \in Pieces, Parses(stage, piece), NEW next \in Stages, next = After(stage, piece)
  PROVE  <<stage, piece, next>> \in TypeSteps
BY DEF TypeSteps

\* A step that brings no tag: the rows of the tags stay, and a definition may be open.
LEMMA SameTags ==
  ASSUME IndInv, Recorded, Parsing, eval.at <= Len(eval.text),
         NEW newRows, NEW open \in Nat, NEW unit \in Unit, NEW touched \in BOOLEAN,
         Parsed(newRows, open, unit, touched),
         unit.tags = eval.unit.tags, open # 0 => \E t \in Tags : TagRow(t) = open
  PROVE  /\ RowsApart'
         /\ \A t \in Tags : TagRow(t)' = TagRow(t)
         /\ StageNow' = [tags |-> Shapes(RunRows)', open |-> TagsOf(open)]
<1>1. /\ UNCHANGED <<current, units>> /\ eval'.open = open /\ eval'.unit = unit
      /\ Evaluating' /\ Runner' = Runner
      /\ \A i, t : TagIn(i, t)' = TagIn(i, t)
      /\ \A t : TagRow(t)' = IF unit.tags[t] # 0 THEN unit.tags[t] ELSE TagIn(Runner, t)
  BY ParsedParts
<1>2. RowsApart /\ Evaluating
  BY DEF Recorded, Parsing
<1>3. \A t \in Tags : TagRow(t)' = TagRow(t)
  BY <1>1 DEF TagRow
<1>4. KeptRows' = KeptRows /\ RunRows' = RunRows /\ Other(current)' = Other(current)
  BY <1>1, <1>3 DEF KeptRows, RunRows, Other
<1>5. \A t, u \in Tags : eval'.unit.tags[t] # 0 => TagIn(current, u)' # eval'.unit.tags[t]
  BY <1>1, <1>2 DEF RowsApart
<1>6. eval'.open # 0 => \E t \in Tags : TagRow(t)' = eval'.open
  BY <1>1, <1>3
<1>7. units'[Other(current)'] = <<>>
  BY <1>1, <1>2, <1>4 DEF RowsApart
<1>8. RowsApart'
  <2>1. Apart(KeptRows)' /\ Apart(RunRows)'
    BY <1>2, <1>4 DEF RowsApart, Apart
  <2> QED
    BY <1>1, <1>5, <1>6, <1>7, <2>1 DEF RowsApart
<1>9. TagsOf(eval.open)' = TagsOf(open)
  BY <1>1, <1>3 DEF TagsOf
<1>10. StageNow' = [tags |-> Shapes(RunRows)', open |-> TagsOf(open)]
  BY <1>9 DEF StageNow
<1> QED
  BY <1>3, <1>8, <1>10

\* A step that changes no row either.
LEMMA SameRows ==
  ASSUME IndInv, Recorded, Parsing, eval.at <= Len(eval.text),
         NEW open \in Nat, NEW unit \in Unit, Parsed(rows, open, unit, FALSE),
         unit.tags = eval.unit.tags, open # 0 => \E t \in Tags : TagRow(t) = open,
         Piece \in Pieces => Parses(StageNow, Piece),
         After(StageNow, Piece) = [tags |-> StageNow.tags, open |-> TagsOf(open)]
  PROVE  Recorded' /\ eval' # Idle
<1>1. /\ rows' = rows /\ Piece \in Pieces /\ current' = current
      /\ \A i, t : TagIn(i, t)' = TagIn(i, t)
  BY ParsedParts
<1>2. /\ RowsApart' /\ \A t \in Tags : TagRow(t)' = TagRow(t)
      /\ StageNow' = [tags |-> Shapes(RunRows)', open |-> TagsOf(open)]
  BY SameTags
<1>3. Shapes(RunRows)' = Shapes(RunRows)
  <2>1. \A r : Shape(r)' = Shape(r)
    BY <1>1 DEF Shape
  <2>2. RunRows' = RunRows
    BY <1>2 DEF RunRows
  <2> QED
    BY <2>1, <2>2 DEF Shapes
<1>4. StageNow.tags = Shapes(RunRows)
  BY DEF StageNow
<1>5. StageNow \in Stages
  BY StageFacts DEF Recorded, Parsing
<1>6. StageNow' \in Stages
  <2>1. TagsOf(open) \in SUBSET Tags /\ StageNow.tags \in [Tags -> SUBSET Row]
    BY <1>5 DEF Stages, TagsOf
  <2> QED
    BY <1>2, <1>3, <1>4, <2>1 DEF Stages
<1>7. <<StageNow, Piece, StageNow'>> \in TypeSteps
  BY <1>1, <1>2, <1>3, <1>4, <1>5, <1>6, IsTypeStep
<1>8. \A t \in Tags : Shape(TagIn(current, t))' = Shape(TagIn(current, t))
  BY <1>1 DEF Shape
<1> QED
  BY <1>2, <1>7, <1>8, ParsedRecorded

\* A unit with a row for one more tag.
LEMMA UnitWithTag ==
  ASSUME eval.unit \in Unit, NEW t \in Tags, NEW r \in Nat
  PROVE  /\ WithTag(t, r) \in Unit
         /\ \A u \in Tags : WithTag(t, r).tags[u] = IF u = t THEN r ELSE eval.unit.tags[u]
BY DEF WithTag, Unit

\* A step that makes a row for a tag nobody knows.
LEMMA NewTag ==
  ASSUME IndInv, Recorded, Parsing, eval.at <= Len(eval.text),
         NEW t \in Tags, TagRow(t) = 0, NEW open \in {0, Len(rows) + 1},
         Parsed(Append(rows, NewRow), open, WithTag(t, Len(rows) + 1), FALSE),
         Piece \in Pieces => Parses(StageNow, Piece),
         After(StageNow, Piece) = [tags |-> [u \in Tags |-> IF u = t THEN {NewRow} ELSE StageNow.tags[u]],
                                   open |-> IF open = 0 THEN {} ELSE {t}]
  PROVE  Recorded' /\ eval' # Idle
<1>1. Evaluating /\ RowsApart /\ StageNow \in Stages /\ eval.mode # "crashed" /\ TypeOK
  BY StageFacts DEF Recorded, Parsing, Evaluating, IndInv
<1>2. /\ KeptRows \in [Tags -> 0 .. Len(rows)] /\ RunRows \in [Tags -> 0 .. Len(rows)] /\ Len(rows) \in Nat
  BY <1>1, RowFunctions
<1>3. PICK last \in Nat \ {0} : last = Len(rows) + 1
  BY <1>2
<1>4. PICK unit \in Unit : /\ unit = WithTag(t, Len(rows) + 1)
                           /\ \A u \in Tags : unit.tags[u] = IF u = t THEN last ELSE eval.unit.tags[u]
  <2>1. eval.unit \in Unit
    BY <1>1, EvaluationParts
  <2> QED
    BY <1>3, <2>1, UnitWithTag
<1>5. NewRow \in Row /\ rows \in Seq(Row)
  BY <1>1 DEF NewRow, Row, TypeOK
<1>6. PICK newRows : newRows = Append(rows, NewRow)
  OBVIOUS
<1>7. newRows[last] = NewRow /\ \A r \in 1 .. Len(rows) : newRows[r] = rows[r]
  BY <1>3, <1>5, <1>6, AppendProperties
<1>8. open \in Nat /\ Parsed(newRows, open, unit, FALSE)
  <2>1. open \in Nat
    BY <1>2
  <2>2. Parsed(newRows, open, unit, FALSE)
    BY <1>4, <1>6
  <2> QED
    BY <2>1, <2>2
<1>9. /\ Piece \in Pieces
      /\ rows' = newRows /\ UNCHANGED <<current, units>> /\ eval'.open = open /\ eval'.unit = unit
      /\ Evaluating' /\ Runner' = Runner
      /\ \A i, u : TagIn(i, u)' = TagIn(i, u)
      /\ \A u : TagRow(u)' = IF unit.tags[u] # 0 THEN unit.tags[u] ELSE TagIn(Runner, u)
  BY <1>8, ParsedParts
<1>10. \A u \in Tags : TagRow(u)' = IF u = t THEN last ELSE TagRow(u)
  BY <1>3, <1>4, <1>9 DEF TagRow
<1>11. \A u \in Tags : /\ TagRow(u) \in 0 .. Len(rows) /\ TagRow(u) # last
                       /\ TagIn(current, u) \in 0 .. Len(rows) /\ TagIn(current, u) # last
  BY <1>2, <1>3 DEF RunRows, KeptRows
<1>12. RowsApart'
  <2>1. KeptRows' = KeptRows /\ Other(current)' = Other(current)
    BY <1>9 DEF KeptRows, Other
  <2>2. Apart(RunRows)'
    <3>1. \A u \in Tags : RunRows'[u] = IF u = t THEN last ELSE RunRows[u]
      BY <1>10 DEF RunRows
    <3>2. \A u \in Tags : RunRows[u] # last
      BY <1>11 DEF RunRows
    <3>3. Apart(RunRows)
      BY <1>1 DEF RowsApart
    <3> QED
      BY <3>1, <3>2, <3>3 DEF Apart
  <2>3. Apart(KeptRows)'
    BY <1>1, <2>1 DEF RowsApart, Apart
  <2>4. ASSUME NEW v \in Tags, NEW u \in Tags, eval'.unit.tags[v] # 0
        PROVE  TagIn(current, u)' # eval'.unit.tags[v]
    BY <1>1, <1>4, <1>9, <1>11, <2>4 DEF RowsApart
  <2>5. eval'.open # 0 => \E u \in Tags : TagRow(u)' = eval'.open
    BY <1>3, <1>9, <1>10
  <2>6. units'[Other(current)'] = <<>>
    BY <1>1, <1>9, <2>1 DEF RowsApart
  <2> QED
    BY <1>9, <2>2, <2>3, <2>4, <2>5, <2>6 DEF RowsApart
<1>13. \A r \in 0 .. Len(rows) : Shape(r)' = Shape(r)
  <2>1. \A r \in 0 .. Len(rows) : r # 0 => rows'[r] = rows[r]
    BY <1>2, <1>7, <1>9
  <2> QED
    BY <2>1 DEF Shape
<1>14. StageNow' = [tags |-> [u \in Tags |-> IF u = t THEN {NewRow} ELSE StageNow.tags[u]],
                    open |-> IF open = 0 THEN {} ELSE {t}]
  <2>1. ASSUME NEW u \in Tags
        PROVE  Shape(RunRows[u])' = IF u = t THEN {NewRow} ELSE StageNow.tags[u]
    <3>1. CASE u = t
      <4>1. RunRows'[u] = last
        BY <1>10, <3>1 DEF RunRows
      <4>2. rows'[last] = NewRow
        BY <1>7, <1>9
      <4> QED
        BY <3>1, <4>1, <4>2 DEF Shape
    <3>2. CASE u # t
      <4>1. RunRows'[u] = TagRow(u) /\ TagRow(u) \in 0 .. Len(rows) /\ RunRows[u] = TagRow(u)
        BY <1>10, <1>11, <3>2 DEF RunRows
      <4>2. Shape(RunRows[u])' = Shape(TagRow(u))
        <5>1. Shape(TagRow(u))' = Shape(TagRow(u))
          <6>1. PICK r \in 0 .. Len(rows) : r = TagRow(u)
            BY <4>1
          <6>2. Shape(r)' = Shape(r)
            BY <1>13
          <6>3. TagRow(u)' = r
            BY <1>10, <3>2, <6>1
          <6> QED
            BY <6>1, <6>2, <6>3 DEF Shape
        <5>2. RunRows'[u] = TagRow(u)'
          BY DEF RunRows
        <5> QED
          BY <5>1, <5>2 DEF Shape
      <4>3. StageNow.tags[u] = Shape(TagRow(u))
        BY <4>1 DEF StageNow, Shapes
      <4> QED
        BY <3>2, <4>2, <4>3
    <3> QED
      BY <3>1, <3>2
  <2>2. Shapes(RunRows)' = [u \in Tags |-> IF u = t THEN {NewRow} ELSE StageNow.tags[u]]
    BY <2>1 DEF Shapes
  <2>3. TagsOf(eval.open)' = IF open = 0 THEN {} ELSE {t}
    BY <1>3, <1>9, <1>10, <1>11 DEF TagsOf
  <2> QED
    BY <2>2, <2>3 DEF StageNow
<1>15. StageNow' \in Stages
  <2>1. StageNow.tags \in [Tags -> SUBSET Row]
    BY <1>1 DEF Stages
  <2>2. [u \in Tags |-> IF u = t THEN {NewRow} ELSE StageNow.tags[u]] \in [Tags -> SUBSET Row]
    BY <1>5, <2>1
  <2>3. (IF open = 0 THEN {} ELSE {t}) \in SUBSET Tags
    OBVIOUS
  <2> QED
    BY <1>14, <2>2, <2>3 DEF Stages
<1>16. <<StageNow, Piece, StageNow'>> \in TypeSteps
  BY <1>1, <1>9, <1>14, <1>15, IsTypeStep
<1>17. \A u \in Tags : TagRow(u) # 0 => TagRow(u)' = TagRow(u)
  BY <1>10
<1>18. ASSUME NEW u \in Tags
       PROVE  Shape(TagIn(current, u))' = Shape(TagIn(current, u))
  <2>1. PICK r \in 0 .. Len(rows) : r = TagIn(current, u) /\ TagIn(current, u)' = r
    BY <1>9, <1>11
  <2>2. Shape(r)' = Shape(r)
    BY <1>13
  <2> QED
    BY <2>1, <2>2 DEF Shape
<1> QED
  BY <1>8, <1>12, <1>16, <1>17, <1>18, ParsedRecorded

\* What a restoring interpreter knows it has parsed itself.
LEMMA RestoredRows ==
  ASSUME IndInv, RowsApart, Evaluating, eval.mode = "restore", NEW t \in Tags
  PROVE  TagRow(t) = eval.unit.tags[t]
<1>1. units[Runner] = <<>>
  BY DEF RowsApart, Runner
<1>2. TagIn(Runner, t) = 0
  BY <1>1 DEF TagIn
<1> QED
  BY <1>2 DEF TagRow

\* A step that changes the row whose definition is open: a kept tag's, only if it says so.
LEMMA OpenRow ==
  ASSUME IndInv, Recorded, Parsing, eval.at <= Len(eval.text), eval.open # 0,
         NEW row \in Row, NEW open \in {0, eval.open}, NEW touched \in BOOLEAN, touched = Published(eval.open),
         Parsed([rows EXCEPT ![eval.open] = row], open, eval.unit, touched),
         Piece \in Pieces => Parses(StageNow, Piece),
         After(StageNow, Piece) = [tags |-> [u \in Tags |-> IF u \in StageNow.open THEN {row} ELSE StageNow.tags[u]],
                                   open |-> IF open = 0 THEN {} ELSE StageNow.open]
  PROVE  Recorded' /\ eval' # Idle
<1>1. Evaluating /\ RowsApart /\ StageNow \in Stages /\ eval.mode # "crashed" /\ TypeOK
  BY StageFacts DEF Recorded, Parsing, Evaluating, IndInv
<1>2. /\ KeptRows \in [Tags -> 0 .. Len(rows)] /\ RunRows \in [Tags -> 0 .. Len(rows)] /\ Len(rows) \in Nat
  BY <1>1, RowFunctions
<1>3. PICK t \in Tags : StageNow.open = {t} /\ TagRow(t) = eval.open
  BY <1>1, StageFacts
<1>4. PICK unit \in Unit : unit = eval.unit
  BY <1>1, EvaluationParts
<1>5. PICK newRows : newRows = [rows EXCEPT ![eval.open] = row]
  OBVIOUS
<1>6. eval.open \in 1 .. Len(rows)
  BY <1>2, <1>3 DEF RunRows
<1>7. newRows[eval.open] = row /\ \A r \in 1 .. Len(rows) : r # eval.open => newRows[r] = rows[r]
  <2>1. rows \in Seq(Row)
    BY <1>1 DEF TypeOK
  <2> QED
    BY <1>5, <1>6, <2>1
<1>8. open \in Nat /\ Parsed(newRows, open, unit, touched) /\ (open # 0 => \E u \in Tags : TagRow(u) = open)
  <2>1. open \in Nat /\ (open # 0 => \E u \in Tags : TagRow(u) = open)
    BY <1>2, <1>3, <1>6
  <2>2. Parsed(newRows, open, unit, touched)
    BY <1>4, <1>5
  <2> QED
    BY <2>1, <2>2
<1>9. Piece \in Pieces /\ rows' = newRows /\ current' = current /\ \A i, u : TagIn(i, u)' = TagIn(i, u)
  BY <1>8, ParsedParts
<1>10. /\ RowsApart' /\ \A u \in Tags : TagRow(u)' = TagRow(u)
       /\ StageNow' = [tags |-> Shapes(RunRows)', open |-> TagsOf(open)]
  <2>1. unit.tags = eval.unit.tags
    BY <1>4
  <2>2. open \in Nat /\ Parsed(newRows, open, unit, touched)
    BY <1>8
  <2>3. open # 0 => \E u \in Tags : TagRow(u) = open
    BY <1>8
  <2> QED
    BY <2>1, <2>2, <2>3, SameTags
<1>11. \A u \in Tags : TagRow(u) = eval.open <=> u = t
  BY <1>1, <1>3 DEF RowsApart, Apart, RunRows
<1>12. \A r \in 0 .. Len(rows) : r # eval.open => Shape(r)' = Shape(r)
  <2>1. \A r \in 0 .. Len(rows) : r # 0 /\ r # eval.open => rows'[r] = rows[r]
    BY <1>2, <1>7, <1>9
  <2> QED
    BY <2>1 DEF Shape
<1>13. StageNow' = [tags |-> [u \in Tags |-> IF u \in StageNow.open THEN {row} ELSE StageNow.tags[u]],
                    open |-> IF open = 0 THEN {} ELSE StageNow.open]
  <2>1. ASSUME NEW u \in Tags
        PROVE  Shape(RunRows[u])' = IF u \in StageNow.open THEN {row} ELSE StageNow.tags[u]
    <3>1. PICK r \in 0 .. Len(rows) : r = TagRow(u) /\ RunRows[u] = r /\ RunRows'[u] = r
      BY <1>2, <1>10 DEF RunRows
    <3>2. CASE u = t
      <4>1. r = eval.open /\ r # 0 /\ rows'[r] = row
        BY <1>3, <1>7, <1>9, <3>1, <3>2
      <4> QED
        BY <1>3, <3>1, <3>2, <4>1 DEF Shape
    <3>3. CASE u # t
      <4>1. Shape(r)' = Shape(r)
        BY <1>11, <1>12, <3>1, <3>3
      <4>2. Shape(RunRows[u])' = Shape(r)
        BY <3>1, <4>1 DEF Shape
      <4>3. StageNow.tags[u] = Shape(r)
        BY <3>1 DEF StageNow, Shapes
      <4> QED
        BY <1>3, <3>3, <4>2, <4>3
    <3> QED
      BY <3>2, <3>3
  <2>2. Shapes(RunRows)' = [u \in Tags |-> IF u \in StageNow.open THEN {row} ELSE StageNow.tags[u]]
    BY <2>1 DEF Shapes
  <2>3. TagsOf(open) = IF open = 0 THEN {} ELSE StageNow.open
    BY <1>3, <1>11 DEF TagsOf
  <2> QED
    BY <1>10, <2>2, <2>3
<1>14. StageNow' \in Stages
  <2>1. StageNow.tags \in [Tags -> SUBSET Row] /\ StageNow.open \in SUBSET Tags
    BY <1>1 DEF Stages
  <2>2. [u \in Tags |-> IF u \in StageNow.open THEN {row} ELSE StageNow.tags[u]] \in [Tags -> SUBSET Row]
    BY <2>1
  <2>3. (IF open = 0 THEN {} ELSE StageNow.open) \in SUBSET Tags
    BY <2>1
  <2> QED
    BY <1>13, <2>2, <2>3 DEF Stages
<1>15. <<StageNow, Piece, StageNow'>> \in TypeSteps
  BY <1>1, <1>9, <1>13, <1>14, IsTypeStep
<1>16. \A u \in Tags : TagRow(u) # 0 => TagRow(u)' = TagRow(u)
  BY <1>10
<1>17. ASSUME eval.mode = "restore" \/ ~touched, NEW u \in Tags
       PROVE  Shape(TagIn(current, u))' = Shape(TagIn(current, u))
  <2>1. PICK v \in Tags : eval.unit.tags[v] = eval.open
    <3>1. CASE eval.mode = "restore"
      BY <1>1, <1>3, <3>1, RestoredRows
    <3>2. CASE ~touched
      BY <3>2 DEF Published
    <3> QED
      BY <1>17, <3>1, <3>2
  <2>2. TagIn(current, u) # eval.open
    BY <1>1, <2>1 DEF RowsApart
  <2>3. PICK r \in 0 .. Len(rows) : r = TagIn(current, u) /\ TagIn(current, u)' = r
    BY <1>2, <1>9 DEF KeptRows
  <2>4. Shape(r)' = Shape(r)
    BY <1>12, <2>2, <2>3
  <2> QED
    BY <2>3, <2>4 DEF Shape
<1>18. eval.mode = "restore" \/ ~touched => \A u \in Tags : Shape(TagIn(current, u))' = Shape(TagIn(current, u))
  BY <1>17
<1> QED
  BY <1>8, <1>10, <1>15, <1>16, <1>18, ParsedRecorded

-----------------------------------------------------------------------------
(* The pieces, one by one: what is recorded stays, and a piece that leads on fails for want *)
(* of room alone.                                                                           *)

\* A stage with every tag as it was.
LEMMA SameStage ==
  ASSUME NEW stage \in Stages
  PROVE  stage = [tags |-> stage.tags, open |-> stage.open]
BY DEF Stages

\* The piece that is read.
LEMMA PieceRead ==
  ASSUME IndInv, Recorded, Parsing, eval.at <= Len(eval.text)
  PROVE  /\ Piece \in Pieces /\ Evaluating /\ RowsApart /\ Tidy
         /\ eval.unit \in Unit /\ eval.open \in Nat /\ 0 \in Nat /\ Len(rows) \in Nat
         /\ RowsOrOneMore(rows) /\ RowsOrOneMore(Append(rows, NewRow))
<1>1. Evaluating /\ RowsApart /\ Tidy /\ TypeOK
  BY DEF Parsing, Recorded, IndInv
<1>2. eval.text \in Seq(Pieces) /\ eval.at \in Nat \ {0} /\ eval.unit \in Unit /\ eval.open \in Nat
  BY <1>1, EvaluationParts
<1>3. Piece \in Pieces
  BY <1>2, ElementOfSeq, LenProperties DEF Piece
<1>4. Len(rows) \in Nat
  BY <1>1, LenProperties DEF TypeOK
<1> QED
  BY <1>1, <1>2, <1>3, <1>4 DEF RowsOrOneMore

\* A piece that parses leads on or there is no room for its row.
Led == Recorded' /\ (eval' = Idle => TableFull \/ ~Parses(StageNow, Piece))

\* Which kinds of piece need what, and what they lead to.
LEMMA StepKinds ==
  ASSUME NEW stage \in Stages, NEW piece \in Pieces
  PROVE  /\ piece[1] = "forward" => (Parses(stage, piece) <=> stage.open = {})
         /\ piece[1] = "begin" =>
              (Parses(stage, piece) <=> stage.open = {} /\ \A row \in stage.tags[piece[2]] : ~row.complete)
         /\ piece[1] = "member" =>
              (Parses(stage, piece) <=>
                 \E t \in stage.open : \A row \in stage.tags[t] : ~row.complete /\ piece[2] \notin row.members)
         /\ piece[1] = "end" =>
              (Parses(stage, piece) <=> \E t \in stage.open : \A row \in stage.tags[t] : row.members # {})
         /\ piece[1] = "variable" =>
              (Parses(stage, piece) <=>
                 stage.open = {} /\ (piece[3] = "int" \/ \E row \in stage.tags[piece[3]] : row.complete))
         /\ piece[1] \in {"function", "fault"} => (Parses(stage, piece) <=> stage.open = {})
         /\ piece[1] = "macro" => Parses(stage, piece)
         /\ piece[1] = "bad" => ~Parses(stage, piece)
         /\ piece[1] \in {"variable", "function", "fault", "macro", "bad"} => After(stage, piece) = stage
BY DEF Parses, After

\* struct t;
LEMMA ForwardLed == ASSUME IndInv, Recorded, NEW t \in Tags, Forward(t) PROVE Led
<1>1. Parsing /\ eval.at <= Len(eval.text) /\ Piece[1] = "forward" /\ Piece[2] = t /\ eval.open = 0
  BY DEF Forward, At
<1>2. Piece \in Pieces /\ Evaluating /\ RowsApart /\ eval.unit \in Unit /\ RowsOrOneMore(rows) /\ 0 \in Nat
  BY <1>1, PieceRead
<1>3. StageNow \in Stages /\ StageNow.open = {} /\ (TagRow(t) = 0 => StageNow.tags[t] = {})
      /\ (TagRow(t) # 0 => StageNow.tags[t] # {})
  BY <1>1, <1>2, StageFacts
<1>4. Parses(StageNow, Piece)
  BY <1>1, <1>2, <1>3, StepKinds
<1>5. After(StageNow, Piece) = [tags |-> [u \in Tags |-> IF u = t /\ StageNow.tags[t] = {} THEN {NewRow} ELSE StageNow.tags[u]],
                                open |-> StageNow.open]
  BY <1>1 DEF After
<1>6. CASE TagRow(t) # 0 /\ Parsed(rows, 0, eval.unit, FALSE)
  <2>1. [u \in Tags |-> IF u = t /\ StageNow.tags[t] = {} THEN {NewRow} ELSE StageNow.tags[u]] = StageNow.tags
    BY <1>3, <1>6 DEF Stages
  <2>2. TagsOf(0) = {}
    BY DEF TagsOf
  <2>3. After(StageNow, Piece) = [tags |-> StageNow.tags, open |-> TagsOf(0)]
    BY <1>3, <1>5, <2>1, <2>2
  <2>4. Recorded' /\ eval' # Idle
    BY <1>1, <1>2, <1>4, <1>6, <2>3, SameRows
  <2> QED
    BY <2>4 DEF Led
<1>7. CASE TagRow(t) = 0 /\ Parsed(Append(rows, NewRow), 0, WithTag(t, Len(rows) + 1), FALSE)
  <2>1. After(StageNow, Piece) = [tags |-> [u \in Tags |-> IF u = t THEN {NewRow} ELSE StageNow.tags[u]],
                                  open |-> {}]
    BY <1>3, <1>5, <1>7
  <2>2. PICK open \in {0, Len(rows) + 1} : open = 0
    OBVIOUS
  <2>3. Recorded' /\ eval' # Idle
    BY <1>1, <1>4, <1>7, <2>1, <2>2, NewTag
  <2> QED
    BY <2>3 DEF Led
<1>8. CASE TableFull /\ ParseFails(rows, FALSE)
  BY <1>1, <1>2, <1>8, ParseFailsRecorded DEF Led, Parsing
<1> QED
  BY <1>6, <1>7, <1>8 DEF Forward

\* struct t {
LEMMA BeginLed == ASSUME IndInv, Recorded, NEW t \in Tags, Begin(t) PROVE Led
<1>1. Parsing /\ eval.at <= Len(eval.text) /\ Piece[1] = "begin" /\ Piece[2] = t /\ eval.open = 0
  BY DEF Begin, At
<1>2. /\ Piece \in Pieces /\ Evaluating /\ RowsApart /\ eval.unit \in Unit /\ RowsOrOneMore(rows) /\ Len(rows) \in Nat
      /\ eval.mode # "crashed"
  BY <1>1, PieceRead DEF Evaluating
<1>3. StageNow \in Stages /\ StageNow.open = {} /\ (TagRow(t) = 0 => StageNow.tags[t] = {})
      /\ (TagRow(t) # 0 => StageNow.tags[t] = {rows[TagRow(t)]}) /\ TagRow(t) \in 0 .. Len(rows)
  BY <1>1, <1>2, StageFacts
<1>4. Parses(StageNow, Piece) <=> \A row \in StageNow.tags[t] : ~row.complete
  BY <1>1, <1>2, <1>3, StepKinds
<1>5. After(StageNow, Piece) = [tags |-> [u \in Tags |-> IF u = t /\ StageNow.tags[t] = {} THEN {NewRow} ELSE StageNow.tags[u]],
                                open |-> {t}]
  BY <1>1 DEF After
<1>6. CASE TagRow(t) # 0 /\ rows[TagRow(t)].complete /\ ParseFails(rows, FALSE)
  <2>1. ~Parses(StageNow, Piece)
    BY <1>3, <1>4, <1>6
  <2> QED
    BY <1>1, <1>2, <1>6, <2>1, ParseFailsRecorded DEF Led, Parsing
<1>7. CASE TagRow(t) # 0 /\ ~rows[TagRow(t)].complete /\ Parsed(rows, TagRow(t), eval.unit, FALSE)
  <2>1. [u \in Tags |-> IF u = t /\ StageNow.tags[t] = {} THEN {NewRow} ELSE StageNow.tags[u]] = StageNow.tags
    BY <1>3, <1>7 DEF Stages
  <2>2. PICK open \in Nat : open = TagRow(t)
    BY <1>2, <1>3
  <2>3. TagsOf(open) = {t}
    <3>1. \A u \in Tags : RunRows[u] = TagRow(u)
      BY DEF RunRows
    <3>2. \A u \in Tags : TagRow(u) = open => u = t
      BY <1>2, <1>7, <2>2, <3>1 DEF RowsApart, Apart
    <3> QED
      BY <1>7, <2>2, <3>2 DEF TagsOf
  <2>4. After(StageNow, Piece) = [tags |-> StageNow.tags, open |-> TagsOf(open)]
    BY <1>5, <2>1, <2>3
  <2>5. Parses(StageNow, Piece)
    BY <1>3, <1>4, <1>7
  <2>6. Parsed(rows, open, eval.unit, FALSE) /\ \E u \in Tags : TagRow(u) = open
    BY <1>7, <2>2
  <2>7. Recorded' /\ eval' # Idle
    BY <1>1, <1>2, <2>4, <2>5, <2>6, SameRows
  <2> QED
    BY <2>7 DEF Led
<1>8. CASE TableFull /\ ParseFails(rows, FALSE)
  BY <1>1, <1>2, <1>8, ParseFailsRecorded DEF Led, Parsing
<1>9. CASE TagRow(t) = 0 /\ Parsed(Append(rows, NewRow), Len(rows) + 1, WithTag(t, Len(rows) + 1), FALSE)
  <2>1. PICK open \in {0, Len(rows) + 1} : open = Len(rows) + 1 /\ open # 0
    BY <1>2
  <2>2. After(StageNow, Piece) = [tags |-> [u \in Tags |-> IF u = t THEN {NewRow} ELSE StageNow.tags[u]],
                                  open |-> IF open = 0 THEN {} ELSE {t}]
    BY <1>3, <1>5, <1>9, <2>1
  <2>3. Parses(StageNow, Piece)
    BY <1>3, <1>4, <1>9
  <2>4. Parsed(Append(rows, NewRow), open, WithTag(t, Len(rows) + 1), FALSE)
    BY <1>9, <2>1
  <2>5. Recorded' /\ eval' # Idle
    BY <1>1, <1>9, <2>2, <2>3, <2>4, NewTag
  <2> QED
    BY <2>5 DEF Led
<1> QED
  BY <1>6, <1>7, <1>8, <1>9 DEF Begin

\* The row that is open, in the table and in the stage.
LEMMA OpenDefinition ==
  ASSUME IndInv, Recorded, Parsing, eval.open # 0
  PROVE  \E t \in Tags : /\ StageNow.open = {t} /\ StageNow.tags[t] = {rows[eval.open]}
                         /\ rows[eval.open] \in Row /\ StageNow \in Stages
<1>1. Evaluating /\ RowsApart
  BY DEF Parsing, Recorded
<1>2. PICK t \in Tags : StageNow.open = {t} /\ TagRow(t) = eval.open
  BY <1>1, StageFacts
<1>3. StageNow.tags[t] = {rows[eval.open]} /\ rows[eval.open] \in Row /\ StageNow \in Stages
  BY <1>1, <1>2, StageFacts
<1> QED
  BY <1>2, <1>3

\* A member of the open definition.
LEMMA MemberLed == ASSUME IndInv, Recorded, NEW m \in Members, Member(m) PROVE Led
<1>1. Parsing /\ eval.at <= Len(eval.text) /\ Piece[1] = "member" /\ Piece[2] = m
  BY DEF Member, At
<1>2. Piece \in Pieces /\ Evaluating /\ RowsApart /\ RowsOrOneMore(rows)
  BY <1>1, PieceRead
<1>3. Parses(StageNow, Piece) <=>
        \E t \in StageNow.open : \A row \in StageNow.tags[t] : ~row.complete /\ m \notin row.members
  BY <1>1, <1>2, StageFacts, StepKinds
<1>4. CASE eval.open = 0
  <2>1. StageNow.open = {}
    BY <1>2, <1>4, StageFacts
  <2>2. ParseFails(rows, FALSE)
    BY <1>4 DEF Member
  <2> QED
    BY <1>1, <1>2, <1>3, <2>1, <2>2, ParseFailsRecorded DEF Led, Parsing
<1>5. CASE eval.open # 0
  <2>1. PICK t \in Tags : /\ StageNow.open = {t} /\ StageNow.tags[t] = {rows[eval.open]}
                          /\ rows[eval.open] \in Row /\ StageNow \in Stages
    BY <1>1, <1>5, OpenDefinition
  <2>2. Parses(StageNow, Piece) <=> ~rows[eval.open].complete /\ m \notin rows[eval.open].members
    BY <1>3, <2>1
  <2>3. CASE rows[eval.open].complete \/ m \in rows[eval.open].members
    <3>1. ParseFails(rows, FALSE)
      BY <1>5, <2>3 DEF Member
    <3> QED
      BY <1>1, <1>2, <2>2, <2>3, <3>1, ParseFailsRecorded DEF Led, Parsing
  <2>4. CASE ~(rows[eval.open].complete \/ m \in rows[eval.open].members)
    <3>1. PICK touched \in BOOLEAN : touched = Published(eval.open)
      BY DEF Published
    <3>2. PICK row \in Row : row = [rows[eval.open] EXCEPT !.members = @ \cup {m}]
      BY <2>1 DEF Row
    <3>3. PICK open \in {0, eval.open} : open = eval.open
      OBVIOUS
    <3>4. Parsed([rows EXCEPT ![eval.open] = row], open, eval.unit, touched)
      <4>1. Parsed([rows EXCEPT ![eval.open].members = @ \cup {m}], eval.open, eval.unit, Published(eval.open))
        BY <1>5, <2>4 DEF Member
      <4>2. [rows EXCEPT ![eval.open].members = @ \cup {m}] = [rows EXCEPT ![eval.open] = row]
        BY <3>2
      <4> QED
        BY <3>1, <3>3, <4>1, <4>2
    <3>5. After(StageNow, Piece) = [tags |-> [u \in Tags |-> IF u \in StageNow.open THEN {row} ELSE StageNow.tags[u]],
                                    open |-> IF open = 0 THEN {} ELSE StageNow.open]
      <4>1. After(StageNow, Piece) =
              [tags |-> [u \in Tags |-> IF u \in StageNow.open THEN {[r EXCEPT !.members = @ \cup {m}] : r \in StageNow.tags[u]}
                                        ELSE StageNow.tags[u]],
               open |-> StageNow.open]
        BY <1>1 DEF After
      <4>2. {[r EXCEPT !.members = @ \cup {m}] : r \in StageNow.tags[t]} = {row}
        BY <2>1, <3>2
      <4>3. [u \in Tags |-> IF u \in StageNow.open THEN {[r EXCEPT !.members = @ \cup {m}] : r \in StageNow.tags[u]}
                            ELSE StageNow.tags[u]]
            = [u \in Tags |-> IF u \in StageNow.open THEN {row} ELSE StageNow.tags[u]]
        BY <2>1, <4>2
      <4> QED
        BY <1>5, <3>3, <4>1, <4>3
    <3>6. Recorded' /\ eval' # Idle
      BY <1>1, <1>5, <2>2, <2>4, <3>1, <3>4, <3>5, OpenRow
    <3> QED
      BY <3>6 DEF Led
  <2> QED
    BY <2>3, <2>4
<1> QED
  BY <1>4, <1>5

\* The end of the open definition.
LEMMA EndLed == ASSUME IndInv, Recorded, End PROVE Led
<1>1. Parsing /\ eval.at <= Len(eval.text) /\ Piece[1] = "end"
  BY DEF End, At
<1>2. Piece \in Pieces /\ Evaluating /\ RowsApart /\ RowsOrOneMore(rows)
  BY <1>1, PieceRead
<1>3. Parses(StageNow, Piece) <=> \E t \in StageNow.open : \A row \in StageNow.tags[t] : row.members # {}
  BY <1>1, <1>2, StageFacts, StepKinds
<1>4. CASE eval.open = 0
  <2>1. StageNow.open = {}
    BY <1>2, <1>4, StageFacts
  <2>2. ParseFails(rows, FALSE)
    BY <1>4 DEF End
  <2> QED
    BY <1>1, <1>2, <1>3, <2>1, <2>2, ParseFailsRecorded DEF Led, Parsing
<1>5. CASE eval.open # 0
  <2>1. PICK t \in Tags : /\ StageNow.open = {t} /\ StageNow.tags[t] = {rows[eval.open]}
                          /\ rows[eval.open] \in Row /\ StageNow \in Stages
    BY <1>1, <1>5, OpenDefinition
  <2>2. Parses(StageNow, Piece) <=> rows[eval.open].members # {}
    BY <1>3, <2>1
  <2>3. CASE rows[eval.open].members = {}
    <3>1. ParseFails(rows, FALSE)
      BY <1>5, <2>3 DEF End
    <3> QED
      BY <1>1, <1>2, <2>2, <2>3, <3>1, ParseFailsRecorded DEF Led, Parsing
  <2>4. CASE rows[eval.open].members # {}
    <3>1. PICK touched \in BOOLEAN : touched = Published(eval.open)
      BY DEF Published
    <3>2. PICK row \in Row : row = [rows[eval.open] EXCEPT !.complete = TRUE]
      BY <2>1 DEF Row
    <3>3. PICK open \in {0, eval.open} : open = 0
      OBVIOUS
    <3>4. Parsed([rows EXCEPT ![eval.open] = row], open, eval.unit, touched)
      <4>1. Parsed([rows EXCEPT ![eval.open].complete = TRUE], 0, eval.unit, Published(eval.open))
        BY <1>5, <2>4 DEF End
      <4>2. [rows EXCEPT ![eval.open].complete = TRUE] = [rows EXCEPT ![eval.open] = row]
        BY <3>2
      <4> QED
        BY <3>1, <3>3, <4>1, <4>2
    <3>5. After(StageNow, Piece) = [tags |-> [u \in Tags |-> IF u \in StageNow.open THEN {row} ELSE StageNow.tags[u]],
                                    open |-> IF open = 0 THEN {} ELSE StageNow.open]
      <4>1. After(StageNow, Piece) =
              [tags |-> [u \in Tags |-> IF u \in StageNow.open THEN {[r EXCEPT !.complete = TRUE] : r \in StageNow.tags[u]}
                                        ELSE StageNow.tags[u]],
               open |-> {}]
        BY <1>1 DEF After
      <4>2. {[r EXCEPT !.complete = TRUE] : r \in StageNow.tags[t]} = {row}
        BY <2>1, <3>2
      <4>3. [u \in Tags |-> IF u \in StageNow.open THEN {[r EXCEPT !.complete = TRUE] : r \in StageNow.tags[u]}
                            ELSE StageNow.tags[u]]
            = [u \in Tags |-> IF u \in StageNow.open THEN {row} ELSE StageNow.tags[u]]
        BY <2>1, <4>2
      <4> QED
        BY <3>3, <4>1, <4>3
    <3>6. Recorded' /\ eval' # Idle
      BY <1>1, <1>5, <2>2, <2>4, <3>1, <3>4, <3>5, OpenRow
    <3> QED
      BY <3>6 DEF Led
  <2> QED
    BY <2>3, <2>4
<1> QED
  BY <1>4, <1>5

\* A piece that leaves the stage as it is.
LEMMA StageStays ==
  ASSUME IndInv, Recorded, Parsing, eval.at <= Len(eval.text),
         NEW unit \in Unit, Parsed(rows, eval.open, unit, FALSE), unit.tags = eval.unit.tags,
         Parses(StageNow, Piece), After(StageNow, Piece) = StageNow
  PROVE  Led
<1>1. Evaluating /\ RowsApart /\ eval.open \in Nat
  BY PieceRead
<1>2. StageNow \in Stages /\ (eval.open # 0 => \E t \in Tags : TagRow(t) = eval.open)
  BY <1>1, StageFacts
<1>3. PICK open \in Nat : open = eval.open
  BY <1>1
<1>4. After(StageNow, Piece) = [tags |-> StageNow.tags, open |-> TagsOf(open)]
  <2>1. StageNow.open = TagsOf(open)
    BY <1>3 DEF StageNow
  <2> QED
    BY <1>2, <2>1, SameStage
<1>5. Parsed(rows, open, unit, FALSE) /\ (open # 0 => \E t \in Tags : TagRow(t) = open)
  BY <1>2, <1>3
<1>6. Recorded' /\ eval' # Idle
  BY <1>4, <1>5, SameRows
<1> QED
  BY <1>6 DEF Led

\* A variable's type is complete, or there is no going on.
LEMMA VariableLed == ASSUME IndInv, Recorded, NEW t \in Tags \cup {"int"}, Variable(t) PROVE Led
<1>1. Parsing /\ eval.at <= Len(eval.text) /\ Piece[1] = "variable" /\ Piece[3] = t /\ eval.open = 0
  BY DEF Variable, At
<1>2. Piece \in Pieces /\ Evaluating /\ RowsApart /\ eval.unit \in Unit
      /\ RowsOrOneMore(rows) /\ RowsOrOneMore(Append(rows, NewRow))
  BY <1>1, PieceRead
<1>3. StageNow \in Stages /\ StageNow.open = {}
      /\ \A u \in Tags : /\ TagRow(u) = 0 => StageNow.tags[u] = {}
                         /\ TagRow(u) # 0 => StageNow.tags[u] = {rows[TagRow(u)]}
  BY <1>1, <1>2, StageFacts
<1>4. /\ Parses(StageNow, Piece) <=> (t = "int" \/ \E row \in StageNow.tags[t] : row.complete)
      /\ After(StageNow, Piece) = StageNow
  BY <1>1, <1>2, <1>3, StepKinds
<1>5. CASE t = "int" \/ (t # "int" /\ TagRow(t) # 0 /\ rows[TagRow(t)].complete)
  <2>1. Parses(StageNow, Piece)
    BY <1>3, <1>4, <1>5
  <2>2. Parsed(rows, eval.open, eval.unit, FALSE)
    BY <1>1, <1>5 DEF Variable
  <2> QED
    BY <1>1, <1>2, <1>4, <2>1, <2>2, StageStays
<1>6. CASE ~(t = "int" \/ (t # "int" /\ TagRow(t) # 0 /\ rows[TagRow(t)].complete))
  <2>1. ~Parses(StageNow, Piece)
    <3>1. t \in Tags /\ t # "int" /\ (TagRow(t) # 0 => ~rows[TagRow(t)].complete)
      BY <1>6
    <3>2. \A row \in StageNow.tags[t] : ~row.complete
      BY <1>3, <3>1
    <3> QED
      BY <1>4, <3>1, <3>2
  <2>2. PICK newRows : /\ newRows = IF TagRow(t) = 0 /\ ~TableFull THEN Append(rows, NewRow) ELSE rows
                       /\ ParseFails(newRows, FALSE)
    BY <1>6 DEF Variable
  <2>3. RowsOrOneMore(newRows)
    BY <1>2, <2>2
  <2> QED
    BY <1>1, <2>1, <2>2, <2>3, ParseFailsRecorded DEF Led, Parsing
<1> QED
  BY <1>5, <1>6

\* Functions, directives and statements that declare nothing.
LEMMA OthersLed == ASSUME IndInv, Recorded, Function \/ Plain \/ Bad PROVE Led
<1>1. Parsing /\ eval.at <= Len(eval.text)
  BY DEF Function, Plain, Bad, At
<1>2. Piece \in Pieces /\ Evaluating /\ RowsApart /\ eval.unit \in Unit /\ RowsOrOneMore(rows)
  BY <1>1, PieceRead
<1>3. StageNow \in Stages /\ (eval.open = 0 => StageNow.open = {})
  BY <1>2, StageFacts
<1>4. CASE Function
  <2>1. Piece[1] = "function" /\ eval.open = 0 /\ Piece[2] \in Names
    BY <1>2, <1>4, PieceParts DEF Function, At
  <2>2. Parses(StageNow, Piece) /\ After(StageNow, Piece) = StageNow
    BY <1>2, <1>3, <2>1, StepKinds
  <2>3. PICK unit \in Unit : unit = [eval.unit EXCEPT !.functions = @ \cup {Piece[2]}] /\ unit.tags = eval.unit.tags
    <3>1. ASSUME NEW u \in Unit, NEW f \in Names
          PROVE  /\ [u EXCEPT !.functions = @ \cup {f}] \in Unit
                 /\ [u EXCEPT !.functions = @ \cup {f}].tags = u.tags
      BY DEF Unit
    <3> QED
      BY <1>2, <2>1, <3>1
  <2>4. Parsed(rows, eval.open, unit, FALSE)
    <3>1. Parsed(rows, 0, [eval.unit EXCEPT !.functions = @ \cup {Piece[2]}], FALSE)
      BY <1>4 DEF Function
    <3> QED
      BY <2>1, <2>3, <3>1
  <2> QED
    BY <1>1, <2>2, <2>3, <2>4, StageStays
<1>5. CASE Plain
  <2>1. (Piece[1] = "macro" \/ (Piece[1] = "fault" /\ eval.open = 0)) /\ Parsed(rows, eval.open, eval.unit, FALSE)
    BY <1>5 DEF Plain, At
  <2>2. Parses(StageNow, Piece) /\ After(StageNow, Piece) = StageNow
    BY <1>2, <1>3, <2>1, StepKinds
  <2> QED
    BY <1>1, <1>2, <2>1, <2>2, StageStays
<1>6. CASE Bad
  <2>1. Piece[1] = "bad" /\ ParseFails(rows, FALSE)
    BY <1>6 DEF Bad, At
  <2>2. ~Parses(StageNow, Piece)
    BY <1>2, <1>3, <2>1, StepKinds
  <2> QED
    BY <1>1, <1>2, <2>1, <2>2, ParseFailsRecorded DEF Led, Parsing
<1> QED
  BY <1>4, <1>5, <1>6

\* The text ends within a definition, or passes a limit.
LEMMA IncompleteRecorded == ASSUME IndInv, Recorded, Incomplete \/ TextTooLong \/ TreeTooLarge PROVE Recorded'
<1>1. PICK incomplete : Evaluating /\ eval.phase = "parse" /\ ParseFails(rows, incomplete)
  BY DEF Incomplete, TextTooLong, TreeTooLarge, Parsing
<1> QED
  BY <1>1, ParseFailsRecorded DEF RowsOrOneMore

\* The macros of a text and then another.
LEMMA MacrosOfBoth ==
  ASSUME NEW s \in Seq(Pieces), NEW t \in Seq(Pieces)
  PROVE  MacrosOf(s \o t) = MacrosOf(s) \cup MacrosOf(t)
<1>1. /\ s \o t \in Seq(Pieces) /\ Len(s \o t) = Len(s) + Len(t) /\ Len(s) \in Nat /\ Len(t) \in Nat
      /\ \A k \in 1 .. Len(s) + Len(t) : (s \o t)[k] = IF k <= Len(s) THEN s[k] ELSE t[k - Len(s)]
  BY ConcatProperties, LenProperties
<1>2. ASSUME NEW p
      PROVE  Contains(s \o t, p) <=> Contains(s, p) \/ Contains(t, p)
  <2>1. ASSUME NEW k \in 1 .. Len(s \o t), (s \o t)[k] = p
        PROVE  Contains(s, p) \/ Contains(t, p)
    <3>1. CASE k <= Len(s)
      BY <1>1, <2>1, <3>1 DEF Contains
    <3>2. CASE ~(k <= Len(s))
      <4>1. k - Len(s) \in 1 .. Len(t) /\ t[k - Len(s)] = p
        BY <1>1, <2>1, <3>2
      <4> QED
        BY <4>1 DEF Contains
    <3> QED
      BY <3>1, <3>2
  <2>2. ASSUME NEW k \in 1 .. Len(s), s[k] = p
        PROVE  Contains(s \o t, p)
    <3>1. k \in 1 .. Len(s \o t) /\ (s \o t)[k] = p
      BY <1>1, <2>2
    <3> QED
      BY <3>1 DEF Contains
  <2>3. ASSUME NEW k \in 1 .. Len(t), t[k] = p
        PROVE  Contains(s \o t, p)
    <3>1. PICK l \in 1 .. Len(s \o t) : l = Len(s) + k
      BY <1>1
    <3>2. (s \o t)[l] = p
      BY <1>1, <2>3, <3>1
    <3> QED
      BY <3>2 DEF Contains
  <2> QED
    BY <2>1, <2>2, <2>3 DEF Contains
<1> QED
  BY <1>2 DEF MacrosOf

\* The end of the parse: all of the text has told its types, and the macros are there.
LEMMA ParseEndRecorded == ASSUME IndInv, Recorded, ParseEnd PROVE Recorded'
<1>1. Parsing /\ Evaluating /\ eval.phase = "parse" /\ eval.at > Len(eval.text) /\ eval.open = 0
  BY DEF ParseEnd, Parsing
<1>2. Tidy /\ RowsApart /\ SourceTold /\ EvaluationTold /\ FileTold /\ TypeOK
  BY DEF Recorded, IndInv
<1>3. CASE eval.mode = "check"
  <2>1. ParseFails(rows, FALSE) /\ RowsOrOneMore(rows)
    BY <1>3 DEF ParseEnd, RowsOrOneMore
  <2> QED
    BY <1>1, <2>1, ParseFailsRecorded
<1>4. CASE eval.mode # "check"
  <2>1. /\ eval \in EvaluationRecord /\ Runner \in Interpreters /\ current \in Interpreters
        /\ eval.text \in Seq(Pieces) /\ eval.at \in Nat \ {0} /\ Len(eval.text) \in Nat /\ eval.touched \in BOOLEAN
    BY <1>1, <1>2, EvaluationParts, LenProperties
  <2>2. PICK touched \in BOOLEAN : touched = (eval.touched \/ ~(MacrosOf(eval.text) \subseteq macros[Runner]))
    OBVIOUS
  <2>3. /\ eval' = [eval EXCEPT !.phase = "execute", !.at = 1, !.touched = touched]
        /\ macros' = [macros EXCEPT ![Runner] = @ \cup MacrosOf(eval.text)]
        /\ UNCHANGED <<rows, current, units, symbols, source, file, exact>>
    <3>1. eval' = [eval EXCEPT !.phase = "execute", !.at = 1,
                               !.touched = @ \/ ~(MacrosOf(eval.text) \subseteq macros[Runner])]
      BY <1>4 DEF ParseEnd
    <3>2. /\ macros' = [macros EXCEPT ![Runner] = @ \cup MacrosOf(eval.text)]
          /\ UNCHANGED <<rows, current, units, symbols, source, file, exact>>
      BY <1>4 DEF ParseEnd
    <3> QED
      BY <2>2, <3>1, <3>2
  <2>4. /\ eval'.mode = eval.mode /\ eval'.phase = "execute" /\ eval'.text = eval.text /\ eval'.at = 1
        /\ eval'.open = eval.open /\ eval'.unit = eval.unit /\ eval'.touched = touched
    BY <2>1, <2>3 DEF EvaluationRecord
  <2>5. Evaluating' /\ Runner' = Runner /\ Other(current)' = Other(current)
    BY <1>1, <2>3, <2>4 DEF Evaluating, Runner, Other
  <2>6. \A i, t : TagIn(i, t)' = TagIn(i, t)
    BY <2>3 DEF TagIn
  <2>7. \A t : TagRow(t)' = TagRow(t)
    BY <2>4, <2>5, <2>6 DEF TagRow
  <2>8. KeptRows' = KeptRows /\ RunRows' = RunRows
    BY <2>3, <2>6, <2>7 DEF KeptRows, RunRows
  <2>9. StageNow' = StageNow
    <3>1. \A r : Shape(r)' = Shape(r)
      BY <2>3 DEF Shape
    <3>2. Shapes(RunRows)' = Shapes(RunRows)
      BY <2>8, <3>1 DEF Shapes
    <3>3. TagsOf(eval.open)' = TagsOf(eval.open)
      BY <2>4, <2>7 DEF TagsOf
    <3> QED
      BY <3>2, <3>3 DEF StageNow
  <2>10. Tidy'
    <3>1. eval'.mode # "restore" => macros'[Other(current)] = macros[Other(current)]
      <4>1. eval.mode # "restore" => Runner = current /\ Other(current) # current
        BY <1>1, <1>2, EvaluationParts DEF Runner
      <4> QED
        BY <2>3, <2>4, <4>1
    <3> QED
      BY <1>1, <1>2, <2>1, <2>3, <2>4, <2>5, <3>1 DEF Tidy, Evaluating
  <2>11. RowsApart'
    <3>1. Apart(KeptRows)' /\ Apart(RunRows)'
      BY <1>1, <1>2, <2>8 DEF RowsApart, Apart
    <3> QED
      BY <1>1, <1>2, <2>3, <2>4, <2>5, <2>6, <2>7, <3>1 DEF RowsApart
  <2>12. SourceTold'
    <3>1. SUFFICES ASSUME exact', eval'.mode \in {"check", "submit", "load"} => ~eval'.touched
                   PROVE  KeptIs(source)'
      BY DEF SourceTold
    <3>2. KeptIs(source)
      BY <1>1, <1>2, <2>2, <2>3, <2>4, <3>1 DEF SourceTold, Evaluating
    <3>3. macros'[current] = macros[current]
      <4>1. CASE eval.mode = "restore"
        <5>1. Runner # current
          BY <1>1, <1>2, <4>1, EvaluationParts DEF Runner
        <5> QED
          BY <2>3, <5>1
      <4>2. CASE eval.mode # "restore"
        <5>1. ~touched /\ Runner = current
          BY <1>1, <2>4, <3>1, <4>2 DEF Evaluating, Runner
        <5>2. macros[Runner] \cup MacrosOf(eval.text) = macros[Runner]
          BY <2>2, <5>1
        <5>3. macros \in [Interpreters -> SUBSET Macros]
          BY <1>2 DEF TypeOK
        <5> QED
          BY <2>1, <2>3, <5>1, <5>2, <5>3
      <4> QED
        BY <4>1, <4>2
    <3>4. \A t \in Tags : Shape(TagIn(current, t))' = Shape(TagIn(current, t))
      BY <2>3, <2>6 DEF Shape
    <3> QED
      BY <2>3, <3>2, <3>3, <3>4, KeptStays
  <2>13. EvaluationTold'
    <3>1. SUFFICES ASSUME exact \/ eval.mode = "restore"
                   PROVE  /\ Tells(Whole', TypesDone', NamesDone', StageNow', symbols'[Runner'], RunRows')
                          /\ macros'[Runner'] = MacrosOf(Whole')
      BY <2>3, <2>4 DEF EvaluationTold, MacrosOf
    <3>2. Tells(Whole, TypesDone, NamesDone, StageNow, symbols[Runner], RunRows) /\ macros[Runner] = MacrosOf(Base)
      BY <1>1, <1>2, <3>1 DEF EvaluationTold
    <3>3. Base' = Base /\ Whole' = Whole
      BY <2>3, <2>4 DEF Base, Whole
    <3>4. eval.at - 1 = Len(eval.text)
      BY <1>1, <1>2, <2>1 DEF Tidy
    <3>5. TypesDone' = TypesDone /\ NamesDone' = NamesDone
      <4>1. TypesDone = Len(Base) + (eval.at - 1) /\ NamesDone = Len(Base) + 0
        BY <1>1 DEF TypesDone, NamesDone
      <4>2. TypesDone' = Len(Base) + Len(eval.text) /\ NamesDone' = Len(Base) + (1 - 1)
        BY <2>4, <3>3 DEF TypesDone, NamesDone
      <4> QED
        BY <3>4, <4>1, <4>2
    <3>6. macros'[Runner] = MacrosOf(Whole)
      <4>1. macros'[Runner] = macros[Runner] \cup MacrosOf(eval.text)
        BY <1>2, <2>1, <2>3 DEF TypeOK
      <4>2. MacrosOf(Whole) = MacrosOf(Base) \cup MacrosOf(eval.text)
        BY <1>1, <2>1, WholeParts, MacrosOfBoth DEF Whole
      <4> QED
        BY <3>2, <4>1, <4>2
    <3> QED
      BY <2>3, <2>5, <2>8, <2>9, <3>2, <3>3, <3>5, <3>6
  <2>14. FileTold'
    BY <1>2, <2>3 DEF FileTold
  <2> QED
    BY <2>10, <2>11, <2>12, <2>13, <2>14 DEF Recorded
<1> QED
  BY <1>3, <1>4

-----------------------------------------------------------------------------
(* Steps of the host. *)

\* Nothing tells of nothing.
LEMMA TellsNothing ==
  ASSUME NEW text, NEW rowOf
  PROVE  Tells(text, 0, 0, FirstStage, NoSymbols, rowOf)
<1>1. TypesTold(text, 0, FirstStage) /\ NamesTold(text, 0, NoGlossary)
  BY ToldStart DEF TypesTold, NamesTold
<1>2. NoMeaning \in Meanings /\ NoMeaning.kind = "absent" /\ [NoMeaning EXCEPT !.kind = "absent"] = NoMeaning
  BY DEF NoMeaning, Meanings
<1>3. NoGlossary \in Glossaries
  BY <1>2 DEF NoGlossary, Glossaries
<1>4. ASSUME NEW x \in Names
      PROVE  StandsFor(NoSymbols[x], NoGlossary[x], rowOf)
  <2>1. NoSymbols[x].kind = "absent" /\ NoGlossary[x] = NoMeaning
    BY DEF NoSymbols, Absent, NoGlossary
  <2> QED
    BY <1>2, <2>1 DEF StandsFor
<1> QED
  BY <1>1, <1>3, <1>4 DEF Tells

\* Where no tag has a row, it is the first stage.
LEMMA NoRows == [tags |-> [t \in Tags |-> Shape(0)], open |-> {}] = FirstStage
BY DEF FirstStage, Shape

\* An empty text defines no macro.
LEMMA NoMacros == MacrosOf(<<>>) = {}
BY DEF MacrosOf, Contains

\* A session without anything in it has nothing for its source.
LEMMA NothingKept == units[current] = <<>> /\ symbols[current] = NoSymbols /\ macros[current] = {} => KeptIs(<<>>)
<1> SUFFICES ASSUME units[current] = <<>>, symbols[current] = NoSymbols, macros[current] = {}
             PROVE  KeptIs(<<>>)
  OBVIOUS
<1>1. \A t : TagIn(current, t) = 0
  BY DEF TagIn
<1>2. Shapes(KeptRows) = [t \in Tags |-> Shape(0)]
  BY <1>1 DEF Shapes, KeptRows
<1>3. [tags |-> Shapes(KeptRows), open |-> {}] = FirstStage
  BY <1>2, NoRows
<1>4. Len(<<>>) = 0
  OBVIOUS
<1> QED
  BY <1>3, <1>4, NoMacros, TellsNothing DEF KeptIs

\* A session begins with records that are true.
LEMMA InitRecorded == Init => Recorded
<1> SUFFICES ASSUME Init PROVE Recorded
  OBVIOUS
<1>1. current = 1 /\ Other(current) = 2 /\ 1 \in Interpreters /\ 2 \in Interpreters /\ eval.mode = "idle" /\ exact = TRUE
      /\ source = <<>> /\ file.exact = FALSE
  BY DEF Init, Other, Interpreters, Idle, Saved
<1>2. units[1] = <<>> /\ units[2] = <<>> /\ symbols[1] = NoSymbols /\ symbols[2] = NoSymbols
      /\ macros[1] = {} /\ macros[2] = {}
  BY <1>1 DEF Init
<1>3. ~Evaluating
  BY <1>1 DEF Evaluating
<1>4. Tidy /\ EvaluationTold /\ FileTold
  BY <1>1, <1>2, <1>3 DEF Tidy, EvaluationTold, FileTold
<1>5. RowsApart
  <2>1. \A t \in Tags : KeptRows[t] = 0
    BY <1>1, <1>2 DEF KeptRows, TagIn
  <2> QED
    BY <1>1, <1>2, <1>3, <2>1 DEF RowsApart, Apart
<1>6. SourceTold
  BY <1>1, <1>2, NothingKept DEF SourceTold
<1> QED
  BY <1>4, <1>5, <1>6 DEF Recorded

\* An evaluation begins where the source leaves off, and a replay at nothing.
LEMMA BeginsRecorded == ASSUME IndInv, Recorded, Begins PROVE Recorded'
<1>1. TypeOK /\ eval = Idle /\ Tidy /\ RowsApart /\ SourceTold /\ FileTold
  BY DEF IndInv, Recorded, Begins, Load, Restore, Submit, Check
<1>2. eval.mode = "idle" /\ UNCHANGED <<rows, current, units, symbols, macros, source, file, exact>>
  BY <1>1 DEF Idle, Begins, Load, Restore, Submit, Check, session
<1>3. PICK mode, text : /\ mode \in {"check", "submit", "load", "restore"}
                        /\ eval' = Evaluation(mode, text) /\ (mode = "restore" => text = file.text)
  BY DEF Begins, Load, Restore, Submit, Check
<1>4. /\ eval'.mode = mode /\ eval'.phase = "parse" /\ eval'.at = 1 /\ eval'.open = 0 /\ eval'.unit = NoUnit
      /\ eval'.text = text /\ eval'.touched = FALSE
  BY <1>3 DEF Evaluation
<1>5. Evaluating' /\ Other(current)' = Other(current) /\ Runner' = (IF mode = "restore" THEN Other(current) ELSE current)
  BY <1>2, <1>3, <1>4 DEF Evaluating, Other, Runner
<1>6. text \in Seq(Pieces) /\ source \in Seq(Pieces)
  <2>1. TypeOK'
    BY NextRight, BeginsRight DEF Right, IndInv
  <2>2. eval' \in EvaluationRecord
    BY <1>5, <2>1 DEF TypeOK, Evaluating
  <2> QED
    BY <1>1, <1>4, <2>2 DEF EvaluationRecord, TypeOK
<1>7. Len(text) \in Nat /\ Len(source) \in Nat
  BY <1>6, LenProperties
<1>8. \A i, t : TagIn(i, t)' = TagIn(i, t)
  BY <1>2 DEF TagIn
<1>9. \A t \in Tags : eval'.unit.tags[t] = 0
  BY <1>4 DEF NoUnit
<1>10. \A t \in Tags : TagRow(t)' = IF mode = "restore" THEN 0 ELSE TagIn(current, t)
  <2>1. \A t : units[Other(current)] = <<>> => TagIn(Other(current), t) = 0
    BY DEF TagIn
  <2>2. \A t \in Tags : TagRow(t)' = TagIn(Runner, t)'
    BY <1>9 DEF TagRow
  <2>3. \A t \in Tags : TagIn(Runner, t)' = TagIn(IF mode = "restore" THEN Other(current) ELSE current, t)
    BY <1>2, <1>5 DEF TagIn
  <2> QED
    BY <1>1, <2>1, <2>2, <2>3 DEF RowsApart
<1>11. KeptRows' = KeptRows /\ RunRows' = [t \in Tags |-> IF mode = "restore" THEN 0 ELSE TagIn(current, t)]
  BY <1>2, <1>8, <1>10 DEF KeptRows, RunRows
<1>12. Tidy'
  BY <1>1, <1>2, <1>3, <1>4, <1>5, <1>7 DEF Tidy
<1>13. RowsApart'
  <2>1. Apart(KeptRows)'
    BY <1>1, <1>11 DEF RowsApart, Apart
  <2>2. Apart(RunRows)'
    <3>1. mode = "restore" => \A t \in Tags : RunRows'[t] = 0
      BY <1>11
    <3>2. mode # "restore" => \A t \in Tags : RunRows'[t] = KeptRows[t]
      BY <1>11 DEF KeptRows
    <3> QED
      BY <1>1, <3>1, <3>2 DEF RowsApart, Apart
  <2> QED
    BY <1>1, <1>2, <1>4, <1>5, <1>9, <2>1, <2>2 DEF RowsApart
<1>14. SourceTold'
  <2>1. SUFFICES ASSUME exact' PROVE KeptIs(source)'
    BY DEF SourceTold
  <2>2. KeptIs(source)
    BY <1>1, <1>2, <2>1 DEF SourceTold
  <2>3. \A t \in Tags : Shape(TagIn(current, t))' = Shape(TagIn(current, t))
    BY <1>2, <1>8 DEF Shape
  <2> QED
    BY <1>2, <2>2, <2>3, KeptStays
<1>15. EvaluationTold'
  <2>1. SUFFICES ASSUME exact \/ mode = "restore"
                 PROVE  /\ Tells(Whole', TypesDone', NamesDone', StageNow', symbols'[Runner'], RunRows')
                        /\ macros'[Runner'] = MacrosOf(Base')
    BY <1>2, <1>4 DEF EvaluationTold, MacrosOf
  <2>2. StageNow' = [tags |-> Shapes(RunRows)', open |-> {}]
    BY <1>4 DEF StageNow, TagsOf
  <2>3. \A r : Shape(r)' = Shape(r)
    BY <1>2 DEF Shape
  <2>4. CASE mode = "restore"
    <3>1. Base' = <<>> /\ Len(Base') = 0
      BY <1>4, <2>4 DEF Base
    <3>2. TypesDone' = 0 /\ NamesDone' = 0
      BY <1>4, <3>1 DEF TypesDone, NamesDone
    <3>3. symbols'[Runner'] = NoSymbols /\ macros'[Runner'] = {}
      BY <1>1, <1>2, <1>5, <2>4 DEF Tidy
    <3>4. Shapes(RunRows)' = [t \in Tags |-> Shape(0)]
      BY <1>11, <2>3, <2>4 DEF Shapes
    <3>5. StageNow' = FirstStage
      BY <2>2, <3>4, NoRows
    <3> QED
      BY <3>1, <3>2, <3>3, <3>5, NoMacros, TellsNothing
  <2>5. CASE mode # "restore"
    <3>1. Base' = source
      BY <1>2, <1>4, <2>5 DEF Base
    <3>2. TypesDone' = Len(source) /\ NamesDone' = Len(source) /\ Whole' = source \o text
      BY <1>4, <1>7, <3>1 DEF TypesDone, NamesDone, Whole
    <3>3. KeptIs(source)
      BY <1>1, <1>2, <2>1, <2>5 DEF SourceTold
    <3>4. symbols'[Runner'] = symbols[current] /\ macros'[Runner'] = macros[current]
      BY <1>2, <1>5, <2>5
    <3>5. RunRows' = KeptRows
      BY <1>11, <2>5 DEF KeptRows
    <3>6. StageNow' = [tags |-> Shapes(KeptRows), open |-> {}]
      <4>1. Shapes(RunRows)' = Shapes(KeptRows)
        BY <2>3, <3>5 DEF Shapes
      <4> QED
        BY <2>2, <4>1
    <3>7. \A k \in 1 .. Len(source) : (source \o text)[k] = source[k]
      BY <1>6, <1>7, ConcatProperties
    <3>8. Tells(source \o text, Len(source), Len(source), [tags |-> Shapes(KeptRows), open |-> {}], symbols[current], KeptRows)
      BY <1>7, <3>3, <3>7, ToldAgrees DEF KeptIs, Tells, TypesTold, NamesTold
    <3> QED
      BY <3>1, <3>2, <3>3, <3>4, <3>5, <3>6, <3>8 DEF KeptIs
  <2> QED
    BY <2>4, <2>5
<1>16. FileTold'
  BY <1>1, <1>2 DEF FileTold
<1> QED
  BY <1>12, <1>13, <1>14, <1>15, <1>16 DEF Recorded

\* What a program can tell of the interpreter in place follows from its source.
SourceView ==
  \E tags, names :
    /\ TypesTold(source, Len(source), [tags |-> tags, open |-> {}])
    /\ NamesTold(source, Len(source), names)
    /\ View(current) = ViewOf(tags, names, MacrosOf(source))

\* A source that tells of the interpreter in place tells what a program can tell of it.
LEMMA KeptView == KeptIs(source) => SourceView
<1> SUFFICES ASSUME KeptIs(source) PROVE SourceView
  OBVIOUS
<1>1. PICK names \in Glossaries :
        /\ TypesTold(source, Len(source), [tags |-> Shapes(KeptRows), open |-> {}])
        /\ NamesTold(source, Len(source), names)
        /\ \A x \in Names : StandsFor(symbols[current][x], names[x], KeptRows)
  BY DEF KeptIs, Tells
<1>2. \A t \in Tags : Shapes(KeptRows)[t] = Shape(KeptRows[t]) /\ KeptRows[t] = TagIn(current, t)
  BY DEF Shapes, KeptRows
<1>3. PICK tags : tags = Shapes(KeptRows)
  OBVIOUS
<1>4. ASSUME NEW x \in Names
      PROVE  (IF symbols[current][x].kind # "variable" THEN <<symbols[current][x].kind>>
              ELSE <<"variable", symbols[current][x].initialized, Shape(symbols[current][x].type)>>)
             = (IF names[x].kind # "variable" THEN <<names[x].kind>>
                ELSE <<"variable", names[x].initialized, IF names[x].tag = "int" THEN {} ELSE tags[names[x].tag]>>)
  <2>1. StandsFor(symbols[current][x], names[x], KeptRows) /\ names[x].tag \in Tags \cup {"int"}
    BY <1>1 DEF Glossaries, Meanings
  <2>2. Shape(0) = {}
    BY DEF Shape
  <2>3. symbols[current][x].kind = "variable" =>
          Shape(symbols[current][x].type) = IF names[x].tag = "int" THEN {} ELSE tags[names[x].tag]
    BY <1>2, <1>3, <2>1, <2>2 DEF StandsFor
  <2> QED
    BY <2>1, <2>3 DEF StandsFor
<1>5. View(current).names = ViewOf(tags, names, MacrosOf(source)).names
  BY <1>4 DEF View, ViewOf
<1>6. [t \in Tags |-> Shape(TagIn(current, t))] = tags
  BY <1>2, <1>3 DEF Shapes
<1>7. macros[current] = MacrosOf(source)
  BY DEF KeptIs
<1>8. View(current) = ViewOf(tags, names, MacrosOf(source))
  BY <1>5, <1>6, <1>7 DEF View, ViewOf
<1> QED
  BY <1>1, <1>3, <1>8 DEF SourceView

\* Commands that only forget or keep a copy.
LEMMA CommandRecorded == ASSUME IndInv, Recorded, Cancel \/ Clear \/ Save PROVE Recorded'
<1>1. TypeOK /\ eval = Idle /\ Tidy /\ RowsApart /\ SourceTold /\ FileTold
  BY DEF IndInv, Recorded, Cancel, Clear, Save
<1>2. eval.mode = "idle" /\ UNCHANGED <<rows, current, eval>>
  BY <1>1 DEF Idle, Cancel, Clear, Save
<1>3. ~Evaluating' /\ EvaluationTold' /\ Other(current)' = Other(current)
  BY <1>2 DEF Evaluating, EvaluationTold, Other
<1>4. CASE Cancel \/ Save
  <2>1. UNCHANGED <<units, symbols, macros, source, exact>>
    BY <1>4 DEF Cancel, Save, session
  <2>2. \A i, t : TagIn(i, t)' = TagIn(i, t)
    BY <2>1 DEF TagIn
  <2>3. KeptRows' = KeptRows
    BY <1>2, <2>2 DEF KeptRows
  <2>4. Tidy'
    BY <1>1, <1>2, <1>3, <2>1 DEF Tidy
  <2>5. RowsApart'
    <3>1. Apart(KeptRows)'
      BY <1>1, <2>3 DEF RowsApart, Apart
    <3> QED
      BY <1>1, <1>3, <2>1, <3>1 DEF RowsApart
  <2>6. SourceTold'
    <3>1. SUFFICES ASSUME exact' PROVE KeptIs(source)'
      BY DEF SourceTold
    <3>2. KeptIs(source)
      BY <1>1, <1>2, <2>1, <3>1 DEF SourceTold
    <3>3. \A t \in Tags : Shape(TagIn(current, t))' = Shape(TagIn(current, t))
      BY <1>2, <2>2 DEF Shape
    <3> QED
      BY <1>2, <2>1, <3>2, <3>3, KeptStays
  <2>7. FileTold'
    <3>1. CASE Cancel
      BY <1>1, <3>1 DEF FileTold, Cancel
    <3>2. CASE Save
      <4>1. file' = Saved(source, exact, View(current))
        BY <3>2 DEF Save
      <4>2. file'.text = source /\ file'.exact = exact /\ (exact => file'.view = View(current))
        BY <4>1 DEF Saved
      <4>3. exact => SourceView
        BY <1>1, <1>2, KeptView DEF SourceTold
      <4> QED
        BY <4>2, <4>3 DEF FileTold, SourceView
    <3> QED
      BY <1>4, <3>1, <3>2
  <2> QED
    BY <1>3, <2>4, <2>5, <2>6, <2>7 DEF Recorded
<1>5. CASE Clear
  <2>1. current \in Interpreters /\ Other(current) \in Interpreters /\ Other(current) # current
    BY <1>1 DEF TypeOK, Interpreters, Other
  <2>2. units'[current] = <<>> /\ symbols'[current] = NoSymbols /\ macros'[current] = {}
        /\ units'[Other(current)] = units[Other(current)] /\ symbols'[Other(current)] = symbols[Other(current)]
        /\ macros'[Other(current)] = macros[Other(current)]
    BY <1>1, <1>5, <2>1 DEF Clear, EmptySession, TypeOK
  <2>3. exact' = TRUE /\ source' = <<>> /\ file' = file
    BY <1>5 DEF Clear
  <2>4. Tidy'
    BY <1>1, <1>2, <1>3, <2>2, <2>3 DEF Tidy
  <2>5. RowsApart'
    <3>1. \A t \in Tags : KeptRows'[t] = 0
      BY <1>2, <2>2 DEF KeptRows, TagIn
    <3> QED
      BY <1>1, <1>3, <2>2, <3>1 DEF RowsApart, Apart
  <2>6. KeptIs(source)'
    <3>1. (units[current] = <<>> /\ symbols[current] = NoSymbols /\ macros[current] = {})'
      BY <1>2, <2>2
    <3>2. KeptIs(<<>>)'
      BY <3>1, NothingKept, PTL
    <3> QED
      BY <2>3, <3>2 DEF KeptIs
  <2>7. FileTold' /\ SourceTold'
    BY <1>1, <2>3, <2>6 DEF FileTold, SourceTold
  <2> QED
    BY <1>3, <2>4, <2>5, <2>7 DEF Recorded
<1> QED
  BY <1>4, <1>5

-----------------------------------------------------------------------------
(* Steps of the execution. *)

\* The newest of some units that says what a tag is.
Newest(list, t) ==
  LET kept == {k \in 1 .. Len(list) : list[k].tags[t] # 0}
  IN  IF kept = {} THEN 0
      ELSE list[CHOOSE k \in kept : \A l \in kept : l <= k].tags[t]

\* One more unit has its say before the others.
LEMMA NewestOfMore ==
  ASSUME NEW list \in Seq(Unit), NEW u \in Unit, NEW t \in Tags
  PROVE  Newest(Append(list, u), t) = IF u.tags[t] # 0 THEN u.tags[t] ELSE Newest(list, t)
<1>1. PICK more : more = Append(list, u)
  OBVIOUS
<1>2. PICK n \in Nat : n = Len(list) /\ Len(more) = n + 1
  BY <1>1, LenProperties, AppendProperties
<1>3. more[n + 1] = u /\ \A k \in 1 .. n : more[k] = list[k]
  BY <1>1, <1>2, AppendProperties
<1> DEFINE kept == {k \in 1 .. n : list[k].tags[t] # 0}
           now  == {k \in 1 .. n + 1 : more[k].tags[t] # 0}
           last(S) == CHOOSE k \in S : \A l \in S : l <= k
<1>4. Newest(list, t) = IF kept = {} THEN 0 ELSE list[last(kept)].tags[t]
  BY <1>2 DEF Newest
<1>5. Newest(more, t) = IF now = {} THEN 0 ELSE more[last(now)].tags[t]
  BY <1>2 DEF Newest
<1>6. CASE u.tags[t] # 0
  <2>1. n + 1 \in now /\ \A l \in now : l <= n + 1
    BY <1>2, <1>3, <1>6
  <2>2. last(now) \in now /\ \A l \in now : l <= last(now)
    <3> HIDE DEF now
    <3> QED
      BY <2>1
  <2>3. last(now) \in 1 .. n + 1 /\ n + 1 <= last(now)
    <3>1. now \subseteq 1 .. n + 1
      OBVIOUS
    <3> HIDE DEF now, last
    <3> QED
      BY <2>1, <2>2, <3>1
  <2>4. last(now) = n + 1
    <3> HIDE DEF now, last
    <3> QED
      BY <1>2, <2>3
  <2>5. now # {}
    BY <2>1
  <2> HIDE DEF now, last
  <2> QED
    BY <1>1, <1>3, <1>5, <1>6, <2>4, <2>5
<1>7. CASE u.tags[t] = 0
  <2>1. now = kept
    BY <1>2, <1>3, <1>7
  <2>2. kept # {} => last(kept) \in 1 .. n
    <3>1. kept \subseteq 1 .. n
      OBVIOUS
    <3>2. kept # {} => \E k \in kept : \A l \in kept : l <= k
      <4> HIDE DEF kept
      <4> QED
        BY <3>1, LastOfPositions
    <3>3. kept # {} => last(kept) \in kept
      <4> HIDE DEF kept
      <4> QED
        BY <3>2
    <3> HIDE DEF kept, last
    <3> QED
      BY <3>1, <3>3
  <2>3. kept # {} => more[last(kept)] = list[last(kept)]
    <3> HIDE DEF kept, last
    <3> QED
      BY <1>3, <2>2
  <2> HIDE DEF now, kept, last
  <2> QED
    BY <1>1, <1>4, <1>5, <1>7, <2>1, <2>3
<1> QED
  BY <1>6, <1>7

\* The unit of an evaluation, once kept, leaves the tags as the evaluation has them.
LEMMA KeptTags ==
  ASSUME IndInv, Evaluating, eval.phase = "execute", NEW t \in Tags
  PROVE  Newest(KeptUnits[Runner], t) = TagRow(t)
<1>1. TypeOK /\ Evaluating
  BY DEF IndInv, Executing
<1>2. Runner \in Interpreters /\ eval.unit \in Unit /\ units[Runner] \in Seq(Unit)
  BY <1>1, EvaluationParts DEF TypeOK
<1>3. TagIn(Runner, t) = Newest(units[Runner], t)
  BY DEF TagIn, Newest
<1>4. CASE HasFunctions
  <2>1. KeptUnits[Runner] = Append(units[Runner], eval.unit)
    BY <1>1, <1>2, <1>4 DEF KeptUnits, TypeOK
  <2> QED
    BY <1>2, <1>3, <2>1, NewestOfMore DEF TagRow
<1>5. CASE ~HasFunctions
  <2>1. eval.unit.tags[t] = 0 /\ KeptUnits[Runner] = units[Runner]
    BY <1>5 DEF HasFunctions, NoUnit, KeptUnits
  <2> QED
    BY <1>3, <2>1 DEF TagRow
<1> QED
  BY <1>4, <1>5

\* One more piece executed.
LEMMA TellsNames ==
  ASSUME NEW text, NEW parsed, NEW executed \in Nat, NEW stage, NEW globals, NEW rowOf,
         Tells(text, parsed, executed, stage, globals, rowOf), NEW globalsNext,
         \A names \in Glossaries :
           (\A x \in Names : StandsFor(globals[x], names[x], rowOf)) =>
              \E next \in Glossaries : /\ <<names, text[executed + 1], next>> \in NameSteps
                                       /\ \A x \in Names : StandsFor(globalsNext[x], next[x], rowOf)
  PROVE  Tells(text, parsed, executed + 1, stage, globalsNext, rowOf)
<1>1. PICK names \in Glossaries : NamesTold(text, executed, names) /\ \A x \in Names : StandsFor(globals[x], names[x], rowOf)
  BY DEF Tells
<1>2. PICK next \in Glossaries : /\ <<names, text[executed + 1], next>> \in NameSteps
                                 /\ \A x \in Names : StandsFor(globalsNext[x], next[x], rowOf)
  BY <1>1
<1>3. NamesTold(text, executed + 1, next)
  BY <1>1, <1>2, ToldNext DEF NamesTold
<1> QED
  BY <1>2, <1>3 DEF Tells

\* A statement that succeeds, and what the names then mean.
LEMMA DoneRecorded ==
  ASSUME IndInv, Recorded, Executing, eval.at <= Len(eval.text), NEW new \in [Names -> Symbol], Done(new),
         \A names \in Glossaries :
           (\A x \in Names : StandsFor(Globals[x], names[x], RunRows)) =>
              \E next \in Glossaries : /\ <<names, Piece, next>> \in NameSteps
                                       /\ \A x \in Names : StandsFor(new[x], next[x], RunRows)
  PROVE  Recorded' /\ eval' # Idle
<1>1. /\ TypeOK /\ Evaluating /\ eval.phase = "execute"
      /\ Tidy /\ RowsApart /\ SourceTold /\ EvaluationTold /\ FileTold
  BY DEF IndInv, Executing, Recorded
<1>2. /\ eval \in EvaluationRecord /\ eval.at \in Nat \ {0} /\ eval.touched \in BOOLEAN
      /\ Runner \in Interpreters /\ current \in Interpreters /\ Other(current) \in Interpreters /\ Other(current) # current
      /\ Len(eval.text) \in Nat
  BY <1>1, EvaluationParts, LenProperties
<1>3. symbols' = [symbols EXCEPT ![Runner] = new] /\ UNCHANGED <<rows, current, units, macros, source, file, exact>>
  BY DEF Done
<1>4. /\ eval'.mode = eval.mode /\ eval'.phase = eval.phase /\ eval'.text = eval.text /\ eval'.at = eval.at + 1
      /\ eval'.open = eval.open /\ eval'.unit = eval.unit /\ eval'.touched = (eval.touched \/ new # symbols[Runner])
  <2>1. PICK touched \in BOOLEAN : touched = (eval.touched \/ new # symbols[Runner])
    BY <1>2
  <2>2. eval' = [eval EXCEPT !.at = @ + 1, !.touched = touched]
    BY <1>2, <2>1 DEF Done, EvaluationRecord
  <2>3. /\ eval'.mode = eval.mode /\ eval'.phase = eval.phase /\ eval'.text = eval.text /\ eval'.at = eval.at + 1
        /\ eval'.open = eval.open /\ eval'.unit = eval.unit /\ eval'.touched = touched
    BY <1>2, <2>2 DEF EvaluationRecord
  <2> QED
    BY <2>1, <2>3
<1>5. Evaluating' /\ Runner' = Runner /\ Other(current)' = Other(current) /\ eval' # Idle
  BY <1>1, <1>3, <1>4 DEF Evaluating, Runner, Other, Idle
<1>6. \A i, t : TagIn(i, t)' = TagIn(i, t)
  BY <1>3 DEF TagIn
<1>7. \A t : TagRow(t)' = TagRow(t)
  BY <1>4, <1>5, <1>6 DEF TagRow
<1>8. KeptRows' = KeptRows /\ RunRows' = RunRows
  BY <1>3, <1>6, <1>7 DEF KeptRows, RunRows
<1>9. StageNow' = StageNow
  <2>1. \A r : Shape(r)' = Shape(r)
    BY <1>3 DEF Shape
  <2>2. Shapes(RunRows)' = Shapes(RunRows)
    BY <1>8, <2>1 DEF Shapes
  <2>3. TagsOf(eval.open)' = TagsOf(eval.open)
    BY <1>4, <1>7 DEF TagsOf
  <2> QED
    BY <2>2, <2>3 DEF StageNow
<1>10. \A i \in Interpreters : symbols'[i] = IF i = Runner THEN new ELSE symbols[i]
  BY <1>1, <1>2, <1>3 DEF TypeOK
<1>11. Tidy'
  <2>1. eval.mode # "restore" => symbols'[Other(current)] = symbols[Other(current)]
    BY <1>2, <1>10 DEF Runner
  <2> QED
    BY <1>1, <1>2, <1>3, <1>4, <1>5, <2>1 DEF Tidy
<1>12. RowsApart'
  <2>1. Apart(KeptRows)' /\ Apart(RunRows)'
    BY <1>1, <1>8 DEF RowsApart, Apart
  <2> QED
    BY <1>1, <1>3, <1>4, <1>5, <1>6, <1>7, <2>1 DEF RowsApart
<1>13. SourceTold'
  <2>1. SUFFICES ASSUME exact', eval'.mode \in {"check", "submit", "load"} => ~eval'.touched
                 PROVE  KeptIs(source)'
    BY DEF SourceTold
  <2>2. KeptIs(source)
    BY <1>1, <1>3, <1>4, <2>1 DEF SourceTold, Evaluating
  <2>3. symbols'[current] = symbols[current]
    <3>1. CASE eval.mode = "restore"
      BY <1>2, <1>10, <3>1 DEF Runner
    <3>2. CASE eval.mode # "restore"
      BY <1>1, <1>2, <1>4, <1>10, <2>1, <3>2 DEF Evaluating, Runner
    <3> QED
      BY <3>1, <3>2
  <2>4. \A t \in Tags : Shape(TagIn(current, t))' = Shape(TagIn(current, t))
    BY <1>3, <1>6 DEF Shape
  <2> QED
    BY <1>3, <2>2, <2>3, <2>4, KeptStays
<1>14. EvaluationTold'
  <2>1. SUFFICES ASSUME exact \/ eval.mode = "restore"
                 PROVE  /\ Tells(Whole', TypesDone', NamesDone', StageNow', symbols'[Runner'], RunRows')
                        /\ macros'[Runner'] = MacrosOf(Whole')
    BY <1>1, <1>3, <1>4 DEF EvaluationTold, MacrosOf
  <2>2. Tells(Whole, TypesDone, NamesDone, StageNow, symbols[Runner], RunRows) /\ macros[Runner] = MacrosOf(Whole)
    BY <1>1, <2>1 DEF EvaluationTold
  <2>3. Base' = Base /\ Whole' = Whole
    BY <1>3, <1>4 DEF Base, Whole
  <2>4. TypesDone' = TypesDone
    BY <1>1, <1>4, <2>3 DEF TypesDone
  <2>5. NamesDone \in Nat /\ NamesDone' = NamesDone + 1 /\ Whole[NamesDone + 1] = Piece
    <3>1. Len(Base) \in Nat /\ Whole[Len(Base) + eval.at] = Piece
      BY <1>1, WholeParts
    <3>2. NamesDone = Len(Base) + (eval.at - 1) /\ NamesDone' = Len(Base') + (eval'.at - 1)
      BY <1>1, <1>4 DEF NamesDone
    <3>3. NamesDone \in Nat /\ NamesDone + 1 = Len(Base) + eval.at /\ NamesDone' = NamesDone + 1
      <4>1. Len(Base') = Len(Base) /\ eval'.at = eval.at + 1 /\ eval.at \in Nat \ {0} /\ Len(Base) \in Nat
        BY <1>2, <1>4, <2>3, <3>1
      <4> QED
        BY <3>2, <4>1
    <3> QED
      BY <3>1, <3>3
  <2>6. Tells(Whole, TypesDone, NamesDone + 1, StageNow, new, RunRows)
    <3>1. Globals = symbols[Runner]
      BY DEF Globals
    <3> QED
      BY <2>2, <2>5, <3>1, TellsNames
  <2>7. symbols'[Runner] = new
    BY <1>2, <1>10
  <2> QED
    BY <1>3, <1>5, <1>8, <1>9, <2>2, <2>3, <2>4, <2>5, <2>6, <2>7
<1>15. FileTold'
  BY <1>1, <1>3 DEF FileTold
<1> QED
  BY <1>5, <1>11, <1>12, <1>13, <1>14, <1>15 DEF Recorded

\* A statement that fails, or a declaration whose object would be needed.
LEMMA FailsRecorded ==
  ASSUME IndInv, Recorded, Evaluating, eval.phase = "execute", NEW new, Fails(new)
  PROVE  Recorded'
<1>1. /\ TypeOK /\ Evaluating /\ Tidy /\ RowsApart
  BY DEF IndInv, Executing, Recorded
<1>2. /\ Runner \in Interpreters /\ current \in Interpreters /\ Other(current) \in Interpreters /\ Other(current) # current
      /\ eval.touched \in BOOLEAN /\ exact \in BOOLEAN
  BY <1>1, EvaluationParts DEF Tidy
<1>3. eval' = Idle /\ UNCHANGED <<current, source, file>>
  BY DEF Fails, Rejected
<1>4. CASE eval.mode = "restore"
  <2>1. /\ rows' = rows
        /\ units'[Other(current)] = <<>> /\ symbols'[Other(current)] = NoSymbols /\ macros'[Other(current)] = {}
        /\ units'[current] = units[current] /\ symbols'[current] = symbols[current] /\ macros'[current] = macros[current]
    BY <1>1, <1>4, RunnerDestroyed DEF Fails
  <2>2. exact' = exact
    BY <1>4 DEF Fails
  <2>3. Apart(KeptRows')
    <3>1. KeptRows' = KeptRows
      BY <1>3, <2>1 DEF KeptRows, TagIn
    <3> QED
      BY <1>1, <3>1 DEF RowsApart
  <2> QED
    BY <1>1, <1>2, <1>3, <1>4, <2>1, <2>2, <2>3, OverRecorded
<1>5. CASE eval.mode # "restore"
  <2>1. /\ symbols' = [symbols EXCEPT ![Runner] = new] /\ units' = KeptUnits /\ UNCHANGED <<macros, rows>>
        /\ exact' = (exact /\ ~eval.touched /\ new = symbols[Runner] /\ ~HasFunctions)
    BY <1>5 DEF Fails
  <2>2. Runner = current
    BY <1>1, <1>5 DEF Runner
  <2>3. units'[Other(current)] = <<>> /\ symbols'[Other(current)] = NoSymbols /\ macros'[Other(current)] = {}
    <3>1. KeptUnits[Other(current)] = units[Other(current)]
      BY <1>2, <2>2, KeptUnitsParts
    <3>2. symbols'[Other(current)] = symbols[Other(current)]
      BY <1>1, <1>2, <2>1, <2>2 DEF TypeOK
    <3>3. eval.mode \notin {"restore", "crashed"}
      BY <1>1, <1>5 DEF Evaluating
    <3> QED
      BY <1>1, <2>1, <3>1, <3>2, <3>3 DEF Tidy, RowsApart
  <2>4. Apart(KeptRows')
    <3>1. ASSUME NEW t \in Tags
          PROVE  KeptRows'[t] = RunRows[t]
      <4>1. TagIn(current, t)' = Newest(units'[current'], t)
        BY DEF TagIn, Newest
      <4>2. units'[current'] = KeptUnits[Runner]
        BY <1>3, <2>1, <2>2
      <4> QED
        BY <4>1, <4>2, KeptTags DEF KeptRows, RunRows
    <3> QED
      BY <1>1, <3>1 DEF RowsApart, Apart
  <2>5. exact' \in BOOLEAN
    BY <2>1
  <2>6. ASSUME exact'
        PROVE  /\ exact /\ ~eval.touched
               /\ units'[current] = units[current] /\ symbols'[current] = symbols[current]
               /\ macros'[current] = macros[current]
    <3>1. exact /\ ~eval.touched /\ new = symbols[Runner] /\ ~HasFunctions
      BY <2>1, <2>6
    <3>2. symbols'[current] = symbols[current]
      BY <1>1, <1>2, <2>1, <2>2, <3>1 DEF TypeOK
    <3> QED
      BY <2>1, <3>1, <3>2 DEF KeptUnits
  <2> QED
    BY <1>1, <1>3, <2>1, <2>3, <2>4, <2>5, <2>6, OverRecorded
<1> QED
  BY <1>4, <1>5

\* After a crash there is nothing left to tell of.
LEMMA CrashRecorded == ASSUME IndInv, Recorded, Evaluating, Crash PROVE Recorded'
<1>1. eval'.mode = "crashed" /\ UNCHANGED <<rows, current, units, symbols, macros, source, file, exact>>
  BY DEF Crash, session
<1>2. Tidy /\ RowsApart /\ FileTold
  BY DEF Recorded
<1>3. ~Evaluating' /\ Other(current)' = Other(current)
  BY <1>1 DEF Evaluating, Other
<1>4. Tidy' /\ SourceTold' /\ EvaluationTold' /\ FileTold'
  BY <1>1, <1>2, <1>3 DEF Tidy, SourceTold, EvaluationTold, FileTold
<1>5. KeptRows' = KeptRows
  BY <1>1 DEF KeptRows, TagIn
<1>6. RowsApart'
  <2>1. Apart(KeptRows)'
    BY <1>2, <1>5 DEF RowsApart, Apart
  <2> QED
    BY <1>1, <1>2, <1>3, <2>1 DEF RowsApart
<1> QED
  BY <1>4, <1>6 DEF Recorded

\* All of the text has been executed: it tells what the interpreter that ran it is like.
LEMMA WholeTold ==
  ASSUME IndInv, Recorded, Executing, eval.at > Len(eval.text), exact \/ eval.mode = "restore"
  PROVE  /\ Tells(Whole, Len(Whole), Len(Whole), [tags |-> Shapes(RunRows), open |-> {}], symbols[Runner], RunRows)
         /\ macros[Runner] = MacrosOf(Whole)
<1>1. TypeOK /\ Evaluating /\ eval.phase = "execute" /\ Tidy /\ EvaluationTold
  BY DEF IndInv, Executing, Recorded
<1>2. eval.at \in Nat \ {0} /\ Len(eval.text) \in Nat /\ eval.open = 0
  BY <1>1, EvaluationParts, LenProperties DEF Tidy
<1>3. eval.at = Len(eval.text) + 1
  BY <1>1, <1>2 DEF Tidy
<1>4. Len(Base) \in Nat /\ Len(Whole) = Len(Base) + Len(eval.text)
  BY <1>1, WholeParts
<1>5. TypesDone = Len(Whole)
  BY <1>1, <1>4 DEF TypesDone
<1>6. NamesDone = Len(Whole)
  <2>1. NamesDone = Len(Base) + (eval.at - 1)
    BY <1>1 DEF NamesDone
  <2> QED
    BY <1>2, <1>3, <1>4, <2>1
<1>7. StageNow = [tags |-> Shapes(RunRows), open |-> {}]
  BY <1>2 DEF StageNow, TagsOf
<1> QED
  BY <1>1, <1>5, <1>6, <1>7 DEF EvaluationTold

\* The evaluation succeeds, and its text is part of the source from now on.
LEMMA ExecutionEndRecorded == ASSUME IndInv, Recorded, ExecutionEnd PROVE Recorded'
<1>1. /\ TypeOK /\ NothingDangles /\ Executing /\ Evaluating /\ eval.at > Len(eval.text)
      /\ Tidy /\ RowsApart /\ FileTold
  BY DEF IndInv, ExecutionEnd, Executing, Recorded
<1>2. /\ Runner \in Interpreters /\ current \in Interpreters /\ Other(current) \in Interpreters /\ Other(current) # current
      /\ exact \in BOOLEAN /\ eval.text \in Seq(Pieces)
  BY <1>1, EvaluationParts DEF Tidy
<1>3. eval' = Idle /\ eval'.mode = "idle" /\ ~Evaluating' /\ EvaluationTold'
  BY DEF ExecutionEnd, Idle, Evaluating, EvaluationTold
<1>4. /\ rows' = rows /\ current' = Runner /\ units'[Runner] = KeptUnits[Runner] /\ symbols'[Runner] = symbols[Runner]
      /\ macros'[Runner] = macros[Runner] /\ file' = file /\ exact' \in BOOLEAN
      /\ units'[Other(Runner)] = <<>> /\ symbols'[Other(Runner)] = NoSymbols /\ macros'[Other(Runner)] = {}
      /\ exact' => (exact \/ eval.mode = "restore") /\ source' = Whole
  <2>1. CASE eval.mode # "restore"
    <3>1. Runner = current /\ Whole = source \o eval.text
      BY <2>1 DEF Runner, Whole, Base
    <3>2. /\ units' = KeptUnits /\ source' = (IF Recordable THEN source \o eval.text ELSE source)
          /\ exact' = (exact /\ Recordable) /\ UNCHANGED <<rows, current, symbols, macros, file>>
      BY <2>1 DEF ExecutionEnd
    <3>3. KeptUnits[Other(current)] = units[Other(current)]
      BY <1>1, <1>2, <3>1, KeptUnitsParts DEF Executing
    <3>4. eval.mode \notin {"restore", "crashed"}
      BY <1>1, <2>1 DEF Evaluating
    <3>5. symbols[Other(current)] = NoSymbols /\ macros[Other(current)] = {} /\ units[Other(current)] = <<>>
      BY <1>1, <3>4 DEF Tidy, RowsApart
    <3>6. exact' \in BOOLEAN /\ (exact' => exact /\ Recordable)
      BY <1>2, <3>2
    <3> QED
      BY <3>1, <3>2, <3>3, <3>5, <3>6
  <2>2. CASE eval.mode = "restore"
    <3>1. Runner = Other(current) /\ Other(Runner) = current /\ Runner # current /\ references = 2
      BY <1>1, <1>2, <2>2 DEF Runner, NothingDangles, Other, Interpreters
    <3>2. Whole = eval.text /\ eval.text = file.text
      <4>1. <<>> \o eval.text = eval.text
        BY <1>2
      <4> QED
        BY <1>1, <2>2, <4>1 DEF Whole, Base, Tidy
    <3>3. /\ rows' = rows /\ current' = Other(current)
          /\ units' = [KeptUnits EXCEPT ![current] = <<>>] /\ symbols' = [symbols EXCEPT ![current] = NoSymbols]
          /\ macros' = [macros EXCEPT ![current] = {}] /\ source' = file.text /\ file' = file /\ exact' = TRUE
      BY <2>2, <3>1 DEF ExecutionEnd, Release
    <3>4. KeptUnits \in [Interpreters -> Seq(Unit)]
      BY <1>1, KeptUnitsParts DEF Executing
    <3>5. /\ units'[Runner] = KeptUnits[Runner] /\ symbols'[Runner] = symbols[Runner] /\ macros'[Runner] = macros[Runner]
          /\ units'[current] = <<>> /\ symbols'[current] = NoSymbols /\ macros'[current] = {}
      BY <1>1, <1>2, <3>1, <3>3, <3>4 DEF TypeOK
    <3> QED
      BY <2>2, <3>1, <3>2, <3>3, <3>5
  <2> QED
    BY <2>1, <2>2
<1>5. KeptRows' = RunRows
  <2>1. ASSUME NEW t \in Tags
        PROVE  TagIn(current, t)' = TagRow(t)
    <3>1. TagIn(current, t)' = Newest(units'[current'], t)
      BY DEF TagIn, Newest
    <3>2. units'[current'] = KeptUnits[Runner]
      BY <1>4
    <3> QED
      BY <1>1, <3>1, <3>2, KeptTags DEF Executing
  <2> QED
    BY <2>1 DEF KeptRows, RunRows
<1>6. Other(current)' = Other(Runner)
  BY <1>4 DEF Other
<1>7. Tidy' /\ FileTold'
  BY <1>1, <1>3, <1>4, <1>6 DEF Tidy, FileTold
<1>8. RowsApart'
  <2>1. Apart(KeptRows)'
    BY <1>1, <1>5 DEF RowsApart, Apart
  <2> QED
    BY <1>3, <1>4, <1>6, <2>1 DEF RowsApart
<1>9. SourceTold'
  <2>1. SUFFICES ASSUME exact' PROVE KeptIs(source)'
    BY DEF SourceTold
  <2>2. source' = Whole /\ (exact \/ eval.mode = "restore")
    BY <1>4, <2>1
  <2>3. /\ Tells(Whole, Len(Whole), Len(Whole), [tags |-> Shapes(RunRows), open |-> {}], symbols[Runner], RunRows)
        /\ macros[Runner] = MacrosOf(Whole)
    BY <1>1, <2>2, WholeTold
  <2>4. Shapes(KeptRows)' = Shapes(RunRows)
    <3>1. \A r : Shape(r)' = Shape(r)
      BY <1>4 DEF Shape
    <3> QED
      BY <1>5, <3>1 DEF Shapes
  <2>5. symbols'[current'] = symbols[Runner] /\ macros'[current'] = macros[Runner]
    BY <1>4
  <2> QED
    BY <1>5, <2>2, <2>3, <2>4, <2>5 DEF KeptIs
<1> QED
  BY <1>3, <1>7, <1>8, <1>9 DEF Recorded

\* What is known of the names stands for the names that the running interpreter has.
Fits(names) == names \in Glossaries /\ \A x \in Names : StandsFor(Globals[x], names[x], RunRows)

\* A statement that could go on fails for want of memory alone.
Spoken ==
  /\ Recorded'
  /\ eval' = Idle => DeclareVariable(FALSE) \/ DeclareFunction(FALSE) \/ \A names : Fits(names) => ~Executes(names, Piece)

\* A statement that can be executed leads to what is learned of it.
LEMMA IsNameStep ==
  ASSUME NEW names \in Glossaries, NEW piece \in Pieces, Executes(names, piece), NEW next \in Glossaries,
         next = Learned(names, piece)
  PROVE  <<names, piece, next>> \in NameSteps
BY DEF NameSteps

\* The kinds of symbols.
LEMMA SymbolKinds ==
  ASSUME NEW symbol \in Symbol
  PROVE  /\ symbol = Absent <=> symbol.kind = "absent"
         /\ symbol.kind \in {"absent", "variable", "function"}
         /\ symbol.kind = "variable" =>
              symbol \in [kind : {"variable"}, type : Nat, object : BOOLEAN, initialized : BOOLEAN]
BY DEF Symbol, Absent

\* What a statement finds.
LEMMA StatementRead ==
  ASSUME IndInv, Recorded, Executing, eval.at <= Len(eval.text)
  PROVE  /\ TypeOK /\ Evaluating /\ RowsApart
         /\ Piece \in Pieces /\ Admitted(Piece) /\ Globals \in [Names -> Symbol]
         /\ \A t \in Tags : RunRows[t] = TagRow(t) /\ TagRow(t) \in Nat
         /\ \A t, u \in Tags : TagRow(t) = TagRow(u) /\ TagRow(t) # 0 => t = u
<1>1. TypeOK /\ Evaluating /\ RowsApart /\ eval.mode # "crashed"
  BY DEF IndInv, Executing, Recorded, Evaluating
<1>2. Runner \in Interpreters
  BY <1>1, EvaluationParts
<1>3. Piece \in Pieces /\ Admitted(Piece)
  BY PieceAdmitted
<1>4. Globals \in [Names -> Symbol]
  BY <1>1, <1>2 DEF Globals, TypeOK
<1>5. \A t \in Tags : RunRows[t] = TagRow(t) /\ TagRow(t) \in Nat
  <2>1. RunRows \in [Tags -> 0 .. Len(rows)]
    BY <1>1, RowFunctions
  <2>2. \A t \in Tags : RunRows[t] = TagRow(t)
    BY DEF RunRows
  <2> QED
    BY <2>1, <2>2
<1>6. \A t, u \in Tags : TagRow(t) = TagRow(u) /\ TagRow(t) # 0 => t = u
  BY <1>1, <1>5 DEF RowsApart, Apart
<1> QED
  BY <1>1, <1>3, <1>4, <1>5, <1>6

\* A statement that does something: one name gets a meaning.
LEMMA NameLearned ==
  ASSUME IndInv, Recorded, Executing, eval.at <= Len(eval.text), NEW x \in Names, NEW symbol \in Symbol,
         Done([Globals EXCEPT ![x] = symbol]),
         \A names : Fits(names) =>
           \E meaning \in Meanings : /\ Executes(names, Piece) /\ Learned(names, Piece) = [names EXCEPT ![x] = meaning]
                                     /\ StandsFor(symbol, meaning, RunRows)
  PROVE  Spoken
<1>1. Piece \in Pieces /\ Globals \in [Names -> Symbol]
  BY StatementRead
<1>2. PICK new \in [Names -> Symbol] : new = [Globals EXCEPT ![x] = symbol]
  BY <1>1
<1>3. ASSUME NEW names \in Glossaries, \A y \in Names : StandsFor(Globals[y], names[y], RunRows)
      PROVE  \E next \in Glossaries : /\ <<names, Piece, next>> \in NameSteps
                                      /\ \A y \in Names : StandsFor(new[y], next[y], RunRows)
  <2>1. Fits(names)
    BY <1>3 DEF Fits
  <2>2. PICK meaning \in Meanings :
          /\ Executes(names, Piece) /\ Learned(names, Piece) = [names EXCEPT ![x] = meaning]
          /\ StandsFor(symbol, meaning, RunRows)
    BY <2>1
  <2>3. PICK next \in Glossaries : next = [names EXCEPT ![x] = meaning]
    BY DEF Glossaries
  <2>4. <<names, Piece, next>> \in NameSteps
    BY <1>1, <2>2, <2>3, IsNameStep
  <2>5. ASSUME NEW y \in Names
        PROVE  StandsFor(new[y], next[y], RunRows)
    <3>1. new[y] = (IF y = x THEN symbol ELSE Globals[y]) /\ next[y] = (IF y = x THEN meaning ELSE names[y])
      BY <1>1, <1>2, <2>3 DEF Glossaries
    <3> QED
      BY <1>3, <2>2, <3>1
  <2> QED
    BY <2>4, <2>5
<1>4. Done(new)
  BY <1>2
<1>5. Recorded' /\ eval' # Idle
  BY <1>3, <1>4, DoneRecorded
<1> QED
  BY <1>5 DEF Spoken

\* A piece that does nothing when it is executed, and a statement that fails.
LEMMA SkipSpoken == ASSUME IndInv, Recorded, Skip \/ Fault PROVE Spoken
<1>1. Executing /\ eval.at <= Len(eval.text)
  BY DEF Skip, Fault, At
<1>2. Piece \in Pieces /\ Globals \in [Names -> Symbol]
  BY <1>1, StatementRead
<1>3. CASE Skip
  <2>1. Piece[1] \in {"forward", "begin", "member", "end", "macro"} /\ Done(Globals)
    BY <1>3 DEF Skip
  <2>2. ASSUME NEW names \in Glossaries
        PROVE  <<names, Piece, names>> \in NameSteps
    <3>1. Executes(names, Piece) /\ Learned(names, Piece) = names
      BY <2>1 DEF Executes, Learned
    <3> QED
      BY <1>2, <3>1, IsNameStep
  <2>3. PICK new \in [Names -> Symbol] : new = Globals
    BY <1>2
  <2>4. Done(new)
    BY <2>1, <2>3
  <2>5. Recorded' /\ eval' # Idle
    BY <1>1, <2>2, <2>3, <2>4, DoneRecorded
  <2> QED
    BY <2>5 DEF Spoken
<1>4. CASE Fault
  <2>1. Piece[1] = "fault" /\ Fails(Globals)
    BY <1>4 DEF Fault, At
  <2>2. \A names : ~Executes(names, Piece)
    BY <2>1 DEF Executes
  <2> QED
    BY <1>1, <2>1, <2>2, FailsRecorded DEF Spoken, Executing
<1> QED
  BY <1>3, <1>4

\* A new variable.
LEMMA DeclareVariableSpoken == ASSUME IndInv, Recorded, NEW room \in BOOLEAN, DeclareVariable(room) PROVE Spoken
<1>1. Executing /\ eval.at <= Len(eval.text) /\ Piece[1] = "variable" /\ Globals[Piece[2]] = Absent
  BY DEF DeclareVariable, At
<1>2. /\ Piece \in Pieces /\ Admitted(Piece) /\ Globals \in [Names -> Symbol]
      /\ \A t \in Tags : RunRows[t] = TagRow(t) /\ TagRow(t) \in Nat
  BY <1>1, StatementRead
<1>3. PICK x \in Names, t \in Tags \cup {"int"}, initialized \in BOOLEAN :
        x = Piece[2] /\ t = Piece[3] /\ initialized = Piece[4]
  BY <1>1, <1>2, PieceParts
<1>4. t # "int" => TagRow(t) # 0
  BY <1>1, <1>2, <1>3 DEF Admitted
<1>5. CASE room = FALSE
  <2>1. DeclareVariable(FALSE)
    BY <1>5
  <2>2. \E new : Fails(new)
    BY <2>1 DEF DeclareVariable
  <2> QED
    BY <1>1, <2>1, <2>2, FailsRecorded DEF Spoken, Executing
<1>6. CASE room = TRUE
  <2>1. PICK symbol \in Symbol : /\ symbol = NewVariable(t, initialized, room)
                                 /\ symbol.kind = "variable" /\ symbol.type = (IF t = "int" THEN 0 ELSE TagRow(t))
                                 /\ symbol.initialized = initialized
    <3>1. PICK type \in Nat : type = IF t = "int" THEN 0 ELSE TagRow(t)
      BY <1>2
    <3>2. NewVariable(t, initialized, room) = [kind |-> "variable", type |-> type, object |-> room, initialized |-> initialized]
      BY <3>1 DEF NewVariable
    <3> QED
      BY <3>1, <3>2 DEF Symbol
  <2>2. Done([Globals EXCEPT ![x] = symbol])
    BY <1>3, <1>6, <2>1 DEF DeclareVariable
  <2>3. ASSUME NEW names, Fits(names)
        PROVE  \E meaning \in Meanings : /\ Executes(names, Piece) /\ Learned(names, Piece) = [names EXCEPT ![x] = meaning]
                                         /\ StandsFor(symbol, meaning, RunRows)
    <3>1. names[x].kind = "absent" /\ names[x].initialized = FALSE
      <4>1. StandsFor(Globals[x], names[x], RunRows) /\ Globals[x].kind = "absent"
        BY <1>1, <1>3, <2>3 DEF Fits, Absent
      <4> QED
        BY <4>1 DEF StandsFor, NoMeaning
    <3>2. Executes(names, Piece)
      BY <1>1, <1>3, <3>1 DEF Executes
    <3>3. PICK meaning \in Meanings : meaning = [kind |-> "variable", tag |-> t, initialized |-> initialized]
      BY DEF Meanings
    <3>4. Learned(names, Piece) = [names EXCEPT ![x] = meaning]
      <4>1. (names[x].initialized \/ Piece[4]) = initialized
        BY <1>3, <3>1
      <4> QED
        BY <1>1, <1>3, <3>3, <4>1 DEF Learned
    <3>5. StandsFor(symbol, meaning, RunRows)
      BY <1>2, <1>4, <2>1, <3>3 DEF StandsFor
    <3> QED
      BY <3>2, <3>4, <3>5
  <2> QED
    BY <1>1, <2>2, <2>3, NameLearned
<1> QED
  BY <1>5, <1>6

\* A variable that is there already.
LEMMA RedeclareSpoken == ASSUME IndInv, Recorded, Redeclare PROVE Spoken
<1>1. Executing /\ eval.at <= Len(eval.text) /\ Piece[1] = "variable" /\ Globals[Piece[2]] # Absent
  BY DEF Redeclare, At
<1>2. /\ Evaluating /\ Piece \in Pieces /\ Admitted(Piece) /\ Globals \in [Names -> Symbol]
      /\ \A t \in Tags : RunRows[t] = TagRow(t) /\ TagRow(t) \in Nat
      /\ \A t, u \in Tags : TagRow(t) = TagRow(u) /\ TagRow(t) # 0 => t = u
  BY <1>1, StatementRead
<1>3. PICK x \in Names, t \in Tags \cup {"int"}, initialized \in BOOLEAN :
        x = Piece[2] /\ t = Piece[3] /\ initialized = Piece[4]
  BY <1>1, <1>2, PieceParts
<1>4. t # "int" => TagRow(t) # 0
  BY <1>1, <1>2, <1>3 DEF Admitted
<1>5. PICK old \in Symbol : old = Globals[x]
  BY <1>2
<1>6. old.kind # "absent" /\ old.kind \in {"absent", "variable", "function"}
  BY <1>1, <1>3, <1>5, SymbolKinds
<1>7. PICK type \in Nat : type = (IF t = "int" THEN 0 ELSE TagRow(t)) /\ NewVariable(Piece[3], FALSE, TRUE).type = type
  BY <1>2, <1>3 DEF NewVariable
<1>8. ASSUME NEW names, Fits(names)
      PROVE  StandsFor(old, names[x], RunRows) /\ names[x].kind = old.kind /\ names[x].tag \in Tags \cup {"int"}
  BY <1>5, <1>8 DEF Fits, StandsFor, Glossaries, Meanings
<1>9. ASSUME NEW names, Fits(names), old.kind = "variable"
      PROVE  names[x].tag = t <=> old.type = type
  BY <1>2, <1>4, <1>7, <1>8, <1>9 DEF StandsFor
<1>10. CASE old.kind = "function" \/ old.type # type \/ (initialized /\ old.initialized)
  <2>1. Fails(Globals)
    BY <1>3, <1>5, <1>7, <1>10 DEF Redeclare
  <2>2. ASSUME NEW names, Fits(names), Executes(names, Piece)
        PROVE  FALSE
    <3>1. old.kind = "variable" /\ names[x].tag = t /\ ~(names[x].initialized /\ initialized)
      BY <1>1, <1>3, <1>6, <1>8, <2>2 DEF Executes
    <3>2. names[x].initialized = old.initialized
      BY <1>8, <2>2, <3>1 DEF StandsFor
    <3> QED
      BY <1>9, <1>10, <2>2, <3>1, <3>2
  <2> QED
    BY <1>1, <2>1, <2>2, FailsRecorded DEF Spoken, Executing
<1>11. CASE ~(old.kind = "function" \/ old.type # type \/ (initialized /\ old.initialized))
  <2>1. old.kind = "variable" /\ old.type = type
    BY <1>6, <1>11
  <2>2. CASE initialized /\ ~old.object
    <3>1. Crash
      BY <1>3, <1>5, <1>7, <1>11, <2>2 DEF Redeclare
    <3>2. eval' # Idle
      BY <3>1 DEF Crash, Idle
    <3> QED
      BY <1>2, <3>1, <3>2, CrashRecorded DEF Spoken
  <2>3. CASE ~(initialized /\ ~old.object)
    <3>1. PICK now \in BOOLEAN : now = (old.initialized \/ initialized)
      OBVIOUS
    <3>2. PICK symbol \in Symbol : /\ symbol = [old EXCEPT !.initialized = now]
                                   /\ symbol.kind = "variable" /\ symbol.type = type /\ symbol.initialized = now
      <4>1. old \in [kind : {"variable"}, type : Nat, object : BOOLEAN, initialized : BOOLEAN]
        BY <2>1, SymbolKinds
      <4>2. PICK symbol : symbol = [old EXCEPT !.initialized = now]
        OBVIOUS
      <4>3. /\ symbol \in [kind : {"variable"}, type : Nat, object : BOOLEAN, initialized : BOOLEAN]
            /\ symbol.kind = "variable" /\ symbol.type = old.type /\ symbol.initialized = now
        BY <4>1, <4>2
      <4>4. symbol \in Symbol
        BY <4>3 DEF Symbol
      <4> QED
        BY <2>1, <4>2, <4>3, <4>4
    <3>3. Done([Globals EXCEPT ![x] = symbol])
      <4>1. Done([Globals EXCEPT ![x].initialized = @ \/ Piece[4]])
        BY <1>3, <1>5, <1>7, <1>11, <2>3 DEF Redeclare
      <4>2. [Globals EXCEPT ![x].initialized = @ \/ Piece[4]] = [Globals EXCEPT ![x] = symbol]
        BY <1>3, <1>5, <3>1, <3>2
      <4> QED
        BY <4>1, <4>2
    <3>4. ASSUME NEW names, Fits(names)
          PROVE  \E meaning \in Meanings : /\ Executes(names, Piece) /\ Learned(names, Piece) = [names EXCEPT ![x] = meaning]
                                           /\ StandsFor(symbol, meaning, RunRows)
      <4>1. names[x].kind = "variable" /\ names[x].tag = t /\ names[x].initialized = old.initialized
        BY <1>8, <1>9, <2>1, <3>4 DEF StandsFor
      <4>2. Executes(names, Piece)
        BY <1>1, <1>3, <1>11, <4>1 DEF Executes
      <4>3. PICK meaning \in Meanings : meaning = [kind |-> "variable", tag |-> t, initialized |-> now]
        BY DEF Meanings
      <4>4. Learned(names, Piece) = [names EXCEPT ![x] = meaning]
        <5>1. (names[x].initialized \/ Piece[4]) = now
          BY <1>3, <3>1, <4>1
        <5> QED
          BY <1>1, <1>3, <4>3, <5>1 DEF Learned
      <4>5. StandsFor(symbol, meaning, RunRows)
        BY <1>2, <1>4, <1>7, <3>2, <4>3 DEF StandsFor
      <4> QED
        BY <4>2, <4>4, <4>5
    <3> QED
      BY <1>1, <3>3, <3>4, NameLearned
  <2> QED
    BY <2>2, <2>3
<1> QED
  BY <1>10, <1>11

\* A function.
LEMMA DeclareFunctionSpoken == ASSUME IndInv, Recorded, NEW room \in BOOLEAN, DeclareFunction(room) PROVE Spoken
<1>1. Executing /\ eval.at <= Len(eval.text) /\ Piece[1] = "function"
  BY DEF DeclareFunction, At
<1>2. TypeOK /\ Evaluating /\ Piece \in Pieces /\ Globals \in [Names -> Symbol]
  BY <1>1, StatementRead
<1>3. PICK x \in Names : x = Piece[2]
  BY <1>1, <1>2, PieceParts
<1>4. ASSUME NEW names, Fits(names)
      PROVE  StandsFor(Globals[x], names[x], RunRows) /\ names[x].kind = Globals[x].kind
  BY <1>4 DEF Fits, StandsFor
<1>5. CASE Globals[x] # Absent
  <2>1. Fails(Globals)
    BY <1>3, <1>5 DEF DeclareFunction
  <2>2. Globals[x].kind # "absent"
    BY <1>2, <1>5, SymbolKinds
  <2>3. \A names : Fits(names) => ~Executes(names, Piece)
    BY <1>1, <1>3, <1>4, <2>2 DEF Executes
  <2> QED
    BY <1>1, <2>1, <2>3, FailsRecorded DEF Spoken, Executing
<1>6. CASE Globals[x] = Absent /\ room = FALSE
  <2>1. DeclareFunction(FALSE)
    BY <1>6
  <2>2. \E new : Fails(new)
    BY <1>3, <1>6, <2>1 DEF DeclareFunction
  <2> QED
    BY <1>1, <2>1, <2>2, FailsRecorded DEF Spoken, Executing
<1>7. CASE Globals[x] = Absent /\ room = TRUE
  <2>1. PICK unit \in Nat : unit = Len(units[Runner]) + 1
    <3>1. Len(units[Runner]) \in Nat
      BY <1>2, EvaluationParts, LenProperties DEF TypeOK
    <3> QED
      BY <3>1
  <2>2. PICK symbol \in Symbol : symbol = [kind |-> "function", unit |-> unit] /\ symbol.kind = "function"
    <3>1. PICK symbol : symbol = [kind |-> "function", unit |-> unit]
      OBVIOUS
    <3>2. symbol \in [kind : {"function"}, unit : Nat] /\ symbol.kind = "function"
      BY <3>1
    <3>3. symbol \in Symbol
      BY <3>2 DEF Symbol
    <3> QED
      BY <3>1, <3>2, <3>3
  <2>3. Done([Globals EXCEPT ![x] = symbol])
    BY <1>3, <1>7, <2>1, <2>2 DEF DeclareFunction
  <2>4. ASSUME NEW names, Fits(names)
        PROVE  \E meaning \in Meanings : /\ Executes(names, Piece) /\ Learned(names, Piece) = [names EXCEPT ![x] = meaning]
                                         /\ StandsFor(symbol, meaning, RunRows)
    <3>1. names[x].kind = "absent"
      BY <1>4, <1>7, <2>4 DEF Absent
    <3>2. Executes(names, Piece)
      BY <1>1, <1>3, <3>1 DEF Executes
    <3>3. PICK meaning \in Meanings : meaning = [NoMeaning EXCEPT !.kind = "function"]
      BY DEF Meanings, NoMeaning
    <3>4. Learned(names, Piece) = [names EXCEPT ![x] = meaning]
      BY <1>1, <1>3, <3>3 DEF Learned
    <3>5. StandsFor(symbol, meaning, RunRows)
      BY <2>2, <3>3 DEF StandsFor, NoMeaning
    <3> QED
      BY <3>2, <3>4, <3>5
  <2> QED
    BY <1>1, <2>3, <2>4, NameLearned
<1> QED
  BY <1>5, <1>6, <1>7

-----------------------------------------------------------------------------
(* A replay. *)

\* What ReplayReproduces says of a step.
Replayed ==
  eval.mode = "restore" /\ Over /\ file.exact =>
    IF current' # current THEN View(current)' = file.view
    ELSE TableFull \/ DeclareVariable(FALSE) \/ DeclareFunction(FALSE) \/ PassesLimit

\* The text that is replayed tells something to its end, and so does what has been done of it.
LEMMA Replaying ==
  ASSUME IndInv, Recorded, Evaluating, eval.mode = "restore", file.exact
  PROVE  /\ Whole = eval.text /\ eval.text = file.text /\ Len(Base) = 0 /\ Len(Whole) \in Nat
         /\ eval.at \in Nat \ {0} /\ eval.at <= Len(Whole) + 1
         /\ eval.at <= Len(Whole) => Whole[eval.at] = Piece
         /\ Tells(Whole, TypesDone, NamesDone, StageNow, symbols[Runner], RunRows)
         /\ \E tags, names :
              TypesTold(Whole, Len(Whole), [tags |-> tags, open |-> {}]) /\ NamesTold(Whole, Len(Whole), names)
<1>1. TypeOK /\ Tidy /\ EvaluationTold /\ FileTold
  BY DEF IndInv, Recorded
<1>2. eval.text \in Seq(Pieces) /\ eval.at \in Nat \ {0}
  BY <1>1, EvaluationParts
<1>3. Base = <<>> /\ Len(Base) = 0
  BY DEF Base
<1>4. Whole = eval.text
  <2>1. <<>> \o eval.text = eval.text
    BY <1>2
  <2> QED
    BY <1>3, <2>1 DEF Whole
<1>5. Len(Whole) \in Nat /\ (eval.at <= Len(Whole) => Whole[eval.at] = Piece)
  BY <1>2, <1>4, LenProperties DEF Piece
<1>6. eval.text = file.text /\ eval.at <= Len(Whole) + 1
  BY <1>1, <1>4 DEF Tidy
<1>7. Tells(Whole, TypesDone, NamesDone, StageNow, symbols[Runner], RunRows)
  BY <1>1 DEF EvaluationTold
<1>8. \E tags, names :
        TypesTold(Whole, Len(Whole), [tags |-> tags, open |-> {}]) /\ NamesTold(Whole, Len(Whole), names)
  BY <1>1, <1>4, <1>6 DEF FileTold
<1> QED
  BY <1>2, <1>3, <1>4, <1>5, <1>6, <1>7, <1>8

\* Every piece of it parses.
LEMMA ReplayParses ==
  ASSUME IndInv, Recorded, Parsing, eval.mode = "restore", file.exact, eval.at <= Len(eval.text)
  PROVE  Parses(StageNow, Piece)
<1>1. Evaluating /\ eval.phase = "parse"
  BY DEF Parsing
<1>2. /\ Whole = eval.text /\ Len(Base) = 0 /\ Len(Whole) \in Nat /\ eval.at \in Nat \ {0}
      /\ Whole[eval.at] = Piece /\ Tells(Whole, TypesDone, NamesDone, StageNow, symbols[Runner], RunRows)
  BY <1>1, Replaying
<1>3. PICK tags : TypesTold(Whole, Len(Whole), [tags |-> tags, open |-> {}])
  BY <1>1, Replaying
<1>4. PICK k \in 0 .. Len(Whole) - 1 : k = eval.at - 1 /\ k + 1 = eval.at /\ k \in Nat /\ TypesDone = k
  BY <1>1, <1>2 DEF TypesDone
<1>5. PICK r, t : Told(TypeSteps, FirstStage, Whole, k, r) /\ <<r, Whole[k + 1], t>> \in TypeSteps
  BY <1>2, <1>3, <1>4, ToldBefore DEF TypesTold
<1>6. Told(TypeSteps, FirstStage, Whole, k, StageNow)
  BY <1>2, <1>4 DEF Tells, TypesTold
<1>7. r = StageNow
  BY <1>4, <1>5, <1>6, ToldOnce, StepsFunctional
<1>8. <<StageNow, Piece, t>> \in TypeSteps
  BY <1>2, <1>4, <1>5, <1>7
<1> QED
  BY <1>8 DEF TypeSteps

\* What a piece costs, the whole text costs.
LEMMA WholeCost ==
  ASSUME TypeOK, Evaluating, NEW n, NEW limit \in Nat, ~(Cost(n) <= limit)
  PROVE  Cost(Len(eval.text)) > limit
<1>1. Len(eval.text) \in Nat /\ IsFiniteSet(1 .. Len(eval.text))
  BY EvaluationParts, LenProperties, FS_Interval
<1>2. PICK all : all = {k \in 1 .. Len(eval.text) : k <= Len(eval.text) /\ eval.text[k][1] \in Costly}
  OBVIOUS
<1>3. PICK some : some = {k \in 1 .. Len(eval.text) : k <= n /\ eval.text[k][1] \in Costly}
  OBVIOUS
<1>4. all \subseteq 1 .. Len(eval.text) /\ some \subseteq all
  BY <1>1, <1>2, <1>3
<1>5. IsFiniteSet(all)
  BY <1>1, <1>4, FS_Subset
<1>6. IsFiniteSet(some) /\ Cardinality(some) <= Cardinality(all)
  BY <1>4, <1>5, FS_Subset
<1>7. Cardinality(all) \in Nat /\ Cardinality(some) \in Nat
  BY <1>5, <1>6, FS_CardinalityType
<1>8. Cost(Len(eval.text)) = Cardinality(all) /\ Cost(n) = Cardinality(some)
  BY <1>2, <1>3 DEF Cost
<1> QED
  BY <1>6, <1>7, <1>8

\* An evaluation that passes a limit does so for what its text costs.
LEMMA LimitPassed == ASSUME TypeOK, TextTooLong \/ TreeTooLarge \/ OutOfSteps PROVE PassesLimit
<1>1. Evaluating
  BY DEF TextTooLong, TreeTooLarge, OutOfSteps
<1>2. ExpandedLimit \in Nat /\ NodeLimit \in Nat /\ StepLimit \in Nat
  BY LimitAssumption
<1>3. \/ ~(Cost(Len(eval.text)) <= ExpandedLimit)
      \/ ~(Cost(eval.at - 1) <= NodeLimit)
      \/ ~(Cost(eval.at) <= StepLimit)
  BY DEF TextTooLong, TreeTooLarge, OutOfSteps, TextFits, TreeFits, StepsLeft
<1> QED
  BY <1>1, <1>2, <1>3, WholeCost DEF PassesLimit

\* It does not end within a definition.
LEMMA ReplayCloses ==
  ASSUME IndInv, Recorded, Parsing, eval.mode = "restore", file.exact, eval.at > Len(eval.text)
  PROVE  eval.open = 0
<1>1. Evaluating /\ eval.phase = "parse" /\ RowsApart
  BY DEF Parsing, Recorded
<1>2. /\ Whole = eval.text /\ Len(Base) = 0 /\ Len(Whole) \in Nat /\ eval.at \in Nat \ {0} /\ eval.at <= Len(Whole) + 1
      /\ Tells(Whole, TypesDone, NamesDone, StageNow, symbols[Runner], RunRows)
  BY <1>1, Replaying
<1>3. PICK tags : TypesTold(Whole, Len(Whole), [tags |-> tags, open |-> {}])
  BY <1>1, Replaying
<1>4. TypesDone = Len(Whole)
  BY <1>1, <1>2 DEF TypesDone
<1>5. StageNow = [tags |-> tags, open |-> {}]
  <2>1. /\ Told(TypeSteps, FirstStage, Whole, Len(Whole), StageNow)
        /\ Told(TypeSteps, FirstStage, Whole, Len(Whole), [tags |-> tags, open |-> {}])
    BY <1>2, <1>3, <1>4 DEF Tells, TypesTold
  <2> QED
    BY <1>2, <2>1, ToldOnce, StepsFunctional
<1>6. eval.open # 0 => StageNow.open # {}
  BY <1>1, StageFacts
<1> QED
  BY <1>5, <1>6

\* Every statement of it can be executed.
LEMMA ReplayExecutes ==
  ASSUME IndInv, Recorded, Executing, eval.mode = "restore", file.exact, eval.at <= Len(eval.text)
  PROVE  \E names : Fits(names) /\ Executes(names, Piece)
<1>1. Evaluating /\ eval.phase = "execute"
  BY DEF Executing
<1>2. /\ Whole = eval.text /\ Len(Base) = 0 /\ Len(Whole) \in Nat /\ eval.at \in Nat \ {0}
      /\ Whole[eval.at] = Piece /\ Tells(Whole, TypesDone, NamesDone, StageNow, symbols[Runner], RunRows)
  BY <1>1, Replaying
<1>3. PICK known : NamesTold(Whole, Len(Whole), known)
  BY <1>1, Replaying
<1>4. PICK k \in 0 .. Len(Whole) - 1 : k = eval.at - 1 /\ k + 1 = eval.at /\ k \in Nat /\ NamesDone = k
  BY <1>1, <1>2 DEF NamesDone
<1>5. PICK names, next : Told(NameSteps, NoGlossary, Whole, k, names) /\ <<names, Whole[k + 1], next>> \in NameSteps
  BY <1>2, <1>3, <1>4, ToldBefore DEF NamesTold
<1>6. PICK others \in Glossaries : /\ Told(NameSteps, NoGlossary, Whole, k, others)
                                   /\ \A x \in Names : StandsFor(Globals[x], others[x], RunRows)
  BY <1>2, <1>4 DEF Tells, NamesTold, Globals
<1>7. names = others
  BY <1>4, <1>5, <1>6, ToldOnce, StepsFunctional
<1>8. <<others, Piece, next>> \in NameSteps
  BY <1>2, <1>4, <1>5, <1>7
<1>9. Executes(others, Piece)
  BY <1>8 DEF NameSteps
<1>10. Fits(others)
  BY <1>6 DEF Fits
<1> QED
  BY <1>9, <1>10

\* The interpreter that takes the place of the old one is as the saved one was.
LEMMA ReplayView ==
  ASSUME IndInv, Recorded, Recorded', ExecutionEnd, eval.mode = "restore", file.exact
  PROVE  current' # current /\ View(current)' = file.view
<1>1. TypeOK /\ Executing /\ Evaluating /\ FileTold
  BY DEF IndInv, ExecutionEnd, Executing, Recorded
<1>2. eval' = Idle /\ eval'.mode = "idle" /\ current' = Other(current) /\ source' = file.text /\ exact' = TRUE
  BY DEF ExecutionEnd, Idle
<1>3. current' # current
  BY <1>1, <1>2 DEF TypeOK, Interpreters, Other
<1>4. KeptIs(source)'
  BY <1>2 DEF Recorded, SourceTold
<1>5. SourceView'
  BY <1>4, KeptView, PTL
<1>6. Whole = file.text /\ Len(file.text) \in Nat
  BY <1>1, Replaying
<1>7. PICK tags, names :
        /\ TypesTold(file.text, Len(file.text), [tags |-> tags, open |-> {}])
        /\ NamesTold(file.text, Len(file.text), names)
        /\ file.view = ViewOf(tags, names, MacrosOf(file.text))
  BY <1>1 DEF FileTold
<1>8. PICK newTags, newNames :
        /\ TypesTold(file.text, Len(file.text), [tags |-> newTags, open |-> {}])
        /\ NamesTold(file.text, Len(file.text), newNames)
        /\ View(current)' = ViewOf(newTags, newNames, MacrosOf(file.text))
  BY <1>2, <1>5 DEF SourceView
<1>9. newNames = names
  BY <1>6, <1>7, <1>8, ToldOnce, StepsFunctional DEF NamesTold
<1>10. newTags = tags
  <2>1. [tags |-> newTags, open |-> {}] = [tags |-> tags, open |-> {}]
    BY <1>6, <1>7, <1>8, ToldOnce, StepsFunctional DEF TypesTold
  <2> QED
    BY <2>1
<1> QED
  BY <1>3, <1>7, <1>8, <1>9, <1>10

\* A step of the parser: the records stay true, and a replay fails for want of room or for its
\* length alone.
LEMMA ParseReplays == ASSUME IndInv, Recorded, Parse PROVE Recorded' /\ Replayed
<1>1. current' = current
  BY DEF Parse, Forward, Begin, Variable, Member, End, Function, Plain, Bad, TextTooLong, TreeTooLarge,
         Incomplete, ParseEnd, Parsed, ParseFails, Rejected
<1>2. CASE Parsing /\ eval.at <= Len(eval.text) /\ Led
  <2>1. eval.mode = "restore" /\ file.exact /\ eval' = Idle => TableFull
    BY <1>2, ReplayParses DEF Led
  <2> QED
    BY <1>1, <1>2, <2>1 DEF Led, Replayed, Over
<1>3. CASE \E t \in Tags : Forward(t) \/ Begin(t)
  <2>1. PICK t \in Tags : Forward(t) \/ Begin(t)
    BY <1>3
  <2>2. Parsing /\ eval.at <= Len(eval.text)
    BY <2>1 DEF Forward, Begin, At
  <2> QED
    BY <1>2, <2>1, <2>2, ForwardLed, BeginLed
<1>4. CASE \E t \in Tags \cup {"int"} : Variable(t)
  <2>1. PICK t \in Tags \cup {"int"} : Variable(t)
    BY <1>4
  <2>2. Parsing /\ eval.at <= Len(eval.text)
    BY <2>1 DEF Variable, At
  <2> QED
    BY <1>2, <2>1, <2>2, VariableLed
<1>5. CASE \E m \in Members : Member(m)
  <2>1. PICK m \in Members : Member(m)
    BY <1>5
  <2>2. Parsing /\ eval.at <= Len(eval.text)
    BY <2>1 DEF Member, At
  <2> QED
    BY <1>2, <2>1, <2>2, MemberLed
<1>6. CASE End
  <2>1. Parsing /\ eval.at <= Len(eval.text)
    BY <1>6 DEF End, At
  <2> QED
    BY <1>2, <1>6, <2>1, EndLed
<1>7. CASE Function \/ Plain \/ Bad
  <2>1. Parsing /\ eval.at <= Len(eval.text)
    BY <1>7 DEF Function, Plain, Bad, At
  <2> QED
    BY <1>2, <1>7, <2>1, OthersLed
<1>8. CASE Incomplete
  <2>1. ~(eval.mode = "restore" /\ file.exact)
    BY <1>8, ReplayCloses DEF Incomplete
  <2> QED
    BY <1>8, <2>1, IncompleteRecorded DEF Replayed
<1>9. CASE ParseEnd
  <2>1. eval.mode = "restore" => eval' # Idle
    <3>1. ASSUME eval.mode = "restore" PROVE eval'.mode = "restore"
      <4>1. eval \in EvaluationRecord
        BY <1>9, EvaluationParts DEF IndInv, ParseEnd, Parsing
      <4>2. PICK touched : eval' = [eval EXCEPT !.phase = "execute", !.at = 1, !.touched = touched]
        BY <1>9, <3>1 DEF ParseEnd
      <4> QED
        BY <3>1, <4>1, <4>2 DEF EvaluationRecord
    <3> QED
      BY <3>1 DEF Idle
  <2> QED
    BY <1>9, <2>1, ParseEndRecorded DEF Replayed, Over
<1>10. CASE TextTooLong \/ TreeTooLarge
  <2>1. PassesLimit
    BY <1>10, LimitPassed DEF IndInv
  <2> QED
    BY <1>1, <1>10, <2>1, IncompleteRecorded DEF Replayed
<1> QED
  BY <1>3, <1>4, <1>5, <1>6, <1>7, <1>8, <1>9, <1>10 DEF Parse

\* A step of the execution: the same, or the memory or the steps are exhausted.
LEMMA ExecuteReplays == ASSUME IndInv, Recorded, Execute PROVE Recorded' /\ Replayed
<1>1. CASE ExecutionEnd
  <2>1. Recorded'
    BY <1>1, ExecutionEndRecorded
  <2> QED
    BY <1>1, <2>1, ReplayView DEF Replayed
<1>2. CASE Executing /\ eval.at <= Len(eval.text) /\ Spoken /\ current' = current
  <2>1. ASSUME eval.mode = "restore", file.exact, eval' = Idle
        PROVE  DeclareVariable(FALSE) \/ DeclareFunction(FALSE)
    <3>1. \E names : Fits(names) /\ Executes(names, Piece)
      BY <1>2, <2>1, ReplayExecutes
    <3> QED
      BY <1>2, <2>1, <3>1 DEF Spoken
  <2> QED
    BY <1>2, <2>1 DEF Spoken, Replayed, Over
<1>3. CASE \E room \in BOOLEAN : DeclareVariable(room) \/ DeclareFunction(room)
  <2>1. PICK room \in BOOLEAN : DeclareVariable(room) \/ DeclareFunction(room)
    BY <1>3
  <2>2. Spoken
    BY <2>1, DeclareVariableSpoken, DeclareFunctionSpoken
  <2>3. Executing /\ eval.at <= Len(eval.text) /\ current' = current
    BY <2>1 DEF DeclareVariable, DeclareFunction, At, Done, Fails, Rejected
  <2> QED
    BY <1>2, <2>2, <2>3
<1>4. CASE Redeclare
  <2>1. Executing /\ eval.at <= Len(eval.text) /\ current' = current
    BY <1>4 DEF Redeclare, At, Done, Fails, Rejected, Crash
  <2> QED
    BY <1>2, <1>4, <2>1, RedeclareSpoken
<1>5. CASE Skip \/ Fault
  <2>1. Executing /\ eval.at <= Len(eval.text) /\ current' = current
    BY <1>5 DEF Skip, Fault, At, Done, Fails, Rejected
  <2> QED
    BY <1>2, <1>5, <2>1, SkipSpoken
<1>6. CASE OutOfSteps
  <2>1. PassesLimit /\ current' = current
    BY <1>6, LimitPassed DEF IndInv, OutOfSteps, Fails, Rejected
  <2>2. PICK new : Evaluating /\ eval.phase = "execute" /\ Fails(new)
    BY <1>6 DEF OutOfSteps
  <2> QED
    BY <2>1, <2>2, FailsRecorded DEF Replayed
<1> QED
  BY <1>1, <1>3, <1>4, <1>5, <1>6 DEF Execute

\* Every step keeps the records, and replays what it replays.
LEMMA NextReplays == IndInv /\ Recorded /\ Next => Recorded' /\ Replayed
<1> SUFFICES ASSUME IndInv, Recorded, Next PROVE Recorded' /\ Replayed
  OBVIOUS
<1>1. CASE eval = Idle
  <2>1. Replayed
    BY <1>1 DEF Replayed, Idle
  <2>2. Begins \/ Cancel \/ Clear \/ Save
    <3>1. ~Evaluating
      BY <1>1 DEF Evaluating, Idle
    <3>2. ~Parse /\ ~Execute
      BY <3>1 DEF Parse, Forward, Begin, Variable, Member, End, Function, Plain, Bad, TextTooLong, TreeTooLarge,
                  Incomplete, ParseEnd, Parsing, Execute, DeclareVariable, DeclareFunction, Redeclare, OutOfSteps,
                  Fault, Skip, ExecutionEnd, Executing
    <3> QED
      BY <3>2 DEF Next, Begins
  <2> QED
    BY <2>1, <2>2, BeginsRecorded, CommandRecorded
<1>2. CASE eval # Idle
  <2>1. Parse \/ Execute
    BY <1>2 DEF Next, Check, Submit, Cancel, Clear, Save, Load, Restore
  <2> QED
    BY <2>1, ParseReplays, ExecuteReplays
<1> QED
  BY <1>1, <1>2

\* Nothing happens, and the records stay true.
LEMMA StillRecorded == Recorded /\ UNCHANGED vars => Recorded'
<1> SUFFICES ASSUME Recorded, UNCHANGED vars PROVE Recorded'
  OBVIOUS
<1>1. UNCHANGED <<rows, current, units, symbols, macros, source, file, eval, exact>>
  BY DEF vars, session
<1>2. (Evaluating' <=> Evaluating) /\ Runner' = Runner /\ Other(current)' = Other(current)
  BY <1>1 DEF Evaluating, Runner, Other
<1>3. \A i, t : TagIn(i, t)' = TagIn(i, t)
  BY <1>1 DEF TagIn
<1>4. KeptRows' = KeptRows
  BY <1>1, <1>3 DEF KeptRows
<1>5. \A t : TagRow(t)' = TagRow(t)
  BY <1>1, <1>2, <1>3 DEF TagRow
<1>6. RunRows' = RunRows
  BY <1>5 DEF RunRows
<1>7. \A r : Shape(r)' = Shape(r)
  BY <1>1 DEF Shape
<1>8. Tidy' /\ FileTold'
  BY <1>1, <1>2 DEF Recorded, Tidy, FileTold
<1>9. RowsApart'
  <2>1. Apart(KeptRows)' <=> Apart(KeptRows)
    BY <1>4 DEF Apart
  <2>2. Apart(RunRows)' <=> Apart(RunRows)
    BY <1>6 DEF Apart
  <2> QED
    BY <1>1, <1>2, <1>3, <1>5, <2>1, <2>2 DEF Recorded, RowsApart
<1>10. SourceTold'
  <2>1. KeptIs(source) => KeptIs(source)'
    BY <1>1, <1>3, <1>7, KeptStays
  <2> QED
    BY <1>1, <2>1 DEF Recorded, SourceTold
<1>11. EvaluationTold'
  <2>1. StageNow' = StageNow
    <3>1. Shapes(RunRows)' = Shapes(RunRows)
      BY <1>6, <1>7 DEF Shapes
    <3>2. TagsOf(eval.open)' = TagsOf(eval.open)
      BY <1>1, <1>5 DEF TagsOf
    <3> QED
      BY <3>1, <3>2 DEF StageNow
  <2>2. Base' = Base /\ Whole' = Whole /\ TypesDone' = TypesDone /\ NamesDone' = NamesDone
    BY <1>1 DEF Base, Whole, TypesDone, NamesDone
  <2> QED
    BY <1>1, <1>2, <1>6, <2>1, <2>2 DEF Recorded, EvaluationTold
<1> QED
  BY <1>8, <1>9, <1>10, <1>11 DEF Recorded

\* The source of a session, unless it has lost count, tells of the session, a saved file tells
\* of the session that was saved, and what an evaluation has done so far is what its text
\* tells so far (evaluate's remember, save_source, ct_eval).
THEOREM Records == Spec => []Recorded
<1>1. IndInv /\ Recorded /\ [Next]_vars => Recorded'
  BY NextReplays, StillRecorded
<1> QED
  BY <1>1, InitRecorded, Invariance, PTL DEF Spec

\* Replaying the source of a session makes that session again, unless something of it was not
\* recorded, and fails only for want of room, of memory, or of the text, nodes and steps that one
\* evaluation has and the session had for each submission (command's .restore).
THEOREM ReplayIsFaithful == Spec => ReplayReproduces
<1>1. IndInv /\ Recorded /\ [Next]_vars =>
        [eval.mode = "restore" /\ Over /\ file.exact =>
           IF current' # current THEN View(current)' = file.view
           ELSE TableFull \/ DeclareVariable(FALSE) \/ DeclareFunction(FALSE) \/ PassesLimit]_vars
  BY NextReplays DEF Replayed
<1> QED
  BY <1>1, Records, Invariance, PTL DEF Spec, ReplayReproduces
=============================================================================
