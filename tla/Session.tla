------------------------------ MODULE Session ------------------------------
(***************************************************************************)
(* A session: what a line typed at the prompt does (src/main.c), from the  *)
(* submission it completes through the parser's declarations (parser.c)    *)
(* and the process-wide table of types (types.c) to the execution of its   *)
(* top-level statements (ct_eval in interpreter.c), and the session source *)
(* that .save writes and .restore replays in a fresh interpreter.          *)
(*                                                                         *)
(* Abstractions.  A submission is a sequence of pieces: the directives,    *)
(* declarations, member lists and statements that change what outlives it. *)
(* Aggregates do not nest and members are scalars; scalar types are always *)
(* there and always complete, and are left out of the table.  A statement  *)
(* either declares something or fails.  One syntax error stands for all.   *)
(* A declaration or statement costs one unit of the text after expansion,  *)
(* of the syntax tree and of the steps of an evaluation; what .save puts   *)
(* between two submissions costs nothing.                                  *)
(***************************************************************************)
EXTENDS Integers, Sequences, SequencesExt, FiniteSets

CONSTANTS
  Tags, Members, Names, Macros,
  Lines,         \* the lines a user types
  TypeLimit,     \* CT_TYPE_LIMIT, less the scalar types
  SourceLimit,   \* CT_SOURCE_LIMIT, of the session source
  ExpandedLimit, \* CT_SOURCE_LIMIT, of an input after expansion
  NodeLimit,     \* the nodes of a syntax tree
  StepLimit,     \* --max-steps
  BufferBound,   \* how long unfinished input grows: a bound of the model
  UnitBound      \* how many units a session keeps: a bound of the model

Pieces ==
  ({"forward", "begin"} \X Tags) \cup ({"member"} \X Members) \cup {<<"end">>}
    \cup ({"macro"} \X Macros) \cup ({"function"} \X Names) \cup {<<"fault">>, <<"bad">>}
    \cup ({"variable"} \X Names \X {"int"} \X BOOLEAN) \cup ({"variable"} \X Names \X Tags \X {FALSE})

ASSUME LinesAssumption == Lines \subseteq Seq(Pieces)
ASSUME LimitAssumption ==
  {TypeLimit, SourceLimit, ExpandedLimit, NodeLimit, StepLimit, BufferBound, UnitBound} \subseteq Nat

VARIABLES
  rows,        \* ct_type_table: the tagged aggregates
  references,  \* table_references
  current,     \* app->interpreter
  units,       \* the units each interpreter keeps, the newest last
  symbols,     \* the globals of each interpreter
  macros,      \* the macros of each interpreter
  source,      \* app->source
  buffer,      \* the REPL's buffer
  file,        \* the saved file, with a history: what the session was like
  eval,        \* the evaluation in progress, with a history: what it began with
  exact        \* history: whether source tells all that the session went through

session == <<units, symbols, macros>>
vars == <<rows, references, current, session, source, buffer, file, eval, exact>>

Interpreters == {1, 2}
Other(i)     == 3 - i

\* What a name of the session stands for: a variable with its row, or 0 for int, or a
\* function; without an object or a unit (0) when there was no memory left for it.
Absent == [kind |-> "absent"]

\* The declarations of a submission that outlive it.
NoUnit == [tags |-> [t \in Tags |-> 0], functions |-> {}]
Idle   == [mode |-> "idle"]
NoSymbols == [x \in Names |-> Absent]

\* find_alias among the units an interpreter keeps, the newest first.
TagIn(i, t) ==
  LET kept == {k \in 1 .. Len(units[i]) : units[i][k].tags[t] # 0}
  IN  IF kept = {} THEN 0
      ELSE units[i][CHOOSE k \in kept : \A l \in kept : l <= k].tags[t]

\* What a program can tell of a session: its names with what their types hold, the tags it
\* knows and its macros.
Shape(row) == IF row = 0 THEN {} ELSE {rows[row]}
View(i) ==
  [names  |-> [x \in Names |->
                 IF symbols[i][x].kind # "variable" THEN <<symbols[i][x].kind>>
                 ELSE <<"variable", symbols[i][x].initialized, Shape(symbols[i][x].type)>>],
   tags   |-> [t \in Tags |-> Shape(TagIn(i, t))],
   macros |-> macros[i]]

Saved(text, told, view) == [text |-> text, exact |-> told, view |-> IF told THEN view ELSE <<>>]

Init ==
  /\ rows = <<>>
  /\ references = 1
  /\ current = 1
  /\ units = [i \in Interpreters |-> <<>>]
  /\ symbols = [i \in Interpreters |-> NoSymbols]
  /\ macros = [i \in Interpreters |-> {}]
  /\ source = <<>>
  /\ buffer = <<>>
  /\ file = Saved(<<>>, FALSE, <<>>)
  /\ eval = Idle
  /\ exact = TRUE

-----------------------------------------------------------------------------
(* The host: lines, commands and what they evaluate. *)

\* Definitions do not nest: only members, directives and errors stand within one.
Flat(text) ==
  \A j \in 1 .. Len(text) :
    text[j][1] \in {"forward", "begin", "variable", "function", "fault"} =>
      Cardinality({k \in 1 .. j : text[k][1] = "end"}) =
      Cardinality({k \in 1 .. j - 1 : text[k][1] = "begin"})

Evaluation(mode, text) ==
  [mode |-> mode, phase |-> "parse", text |-> text, at |-> 1, open |-> 0, unit |-> NoUnit,
   touched |-> FALSE,
   before |-> <<units[current], symbols[current], macros[current], source>>]

Evaluating == eval.mode \in {"check", "submit", "load", "restore"}
\* The interpreter an evaluation runs in: .restore has a fresh one.
Runner     == IF eval.mode = "restore" THEN Other(current) ELSE current

\* session_hint checks what is typed so far once the line holds a ';' or a '}'.
Check(line, length) ==
  /\ eval = Idle
  /\ \E k \in 1 .. length : line[k][1] \notin {"begin", "macro"}
  /\ LET typed == buffer \o SubSeq(line, 1, length)
     IN  Len(typed) <= BufferBound /\ Flat(typed) /\ eval' = Evaluation("check", typed)
  /\ UNCHANGED <<rows, references, current, session, source, buffer, file, exact>>

Submit(line) ==
  /\ eval = Idle /\ Len(units[current]) < UnitBound
  /\ buffer' = buffer \o line
  /\ Len(buffer') <= BufferBound /\ Flat(buffer')
  /\ eval' = Evaluation("submit", buffer')
  /\ UNCHANGED <<rows, references, current, session, source, file, exact>>

\* Ctrl+C at the prompt.
Cancel ==
  /\ eval = Idle /\ buffer # <<>>
  /\ buffer' = <<>>
  /\ UNCHANGED <<rows, references, current, session, source, file, eval, exact>>

EmptySession(i) ==
  /\ units' = [units EXCEPT ![i] = <<>>]
  /\ symbols' = [symbols EXCEPT ![i] = NoSymbols]
  /\ macros' = [macros EXCEPT ![i] = {}]

\* Mutant: the table of types goes with the session.
Clear_Types ==
  /\ eval = Idle
  /\ EmptySession(current)
  /\ rows' = <<>>
  /\ source' = <<>> /\ buffer' = <<>>
  /\ exact' = TRUE
  /\ UNCHANGED <<references, current, file, eval>>

Clear ==
  /\ eval = Idle
  /\ EmptySession(current)
  /\ source' = <<>> /\ buffer' = <<>>
  /\ exact' = TRUE
  /\ UNCHANGED <<rows, references, current, file, eval>>

Save ==
  /\ eval = Idle
  /\ file' = Saved(source, exact, View(current))
  /\ buffer' = <<>>
  /\ UNCHANGED <<rows, references, current, session, source, eval, exact>>

Load ==
  /\ eval = Idle /\ Len(units[current]) < UnitBound /\ file.text # <<>>
  /\ buffer' = <<>>
  /\ eval' = Evaluation("load", file.text)
  /\ UNCHANGED <<rows, references, current, session, source, file, exact>>

Restore ==
  /\ eval = Idle /\ file.text # <<>>
  /\ references' = references + 1
  /\ buffer' = <<>>
  /\ eval' = Evaluation("restore", file.text)
  /\ UNCHANGED <<rows, current, session, source, file, exact>>

\* ct_destroy: the last interpreter to go takes the table of types, here newRows, with it.
Release(newRows) ==
  /\ references' = references - 1
  /\ rows' = IF references = 1 THEN <<>> ELSE newRows
Destroy(i, newRows) == EmptySession(i) /\ Release(newRows)

\* Mutant: the session source takes what was submitted, whatever became of it.
Rejected_Remembered(incomplete) ==
  /\ eval' = Idle
  /\ buffer' = IF eval.mode = "submit" /\ ~incomplete THEN <<>> ELSE buffer
  /\ source' = IF eval.mode = "submit" /\ ~incomplete /\ Len(source \o eval.text) <= SourceLimit
               THEN source \o eval.text ELSE source
  /\ UNCHANGED <<current, file>>

\* The evaluation is over and nothing of it is recorded.
Rejected(incomplete) ==
  /\ eval' = Idle
  /\ buffer' = IF eval.mode = "submit" /\ ~incomplete THEN <<>> ELSE buffer
  /\ UNCHANGED <<current, source, file>>

-----------------------------------------------------------------------------
(* The parser. *)

Costly == {"forward", "end", "variable", "function", "fault"}

\* What the first n pieces of the input cost.
Cost(n) == Cardinality({k \in 1 .. Len(eval.text) : k <= n /\ eval.text[k][1] \in Costly})

TextFits == Cost(Len(eval.text)) <= ExpandedLimit
TreeFits == Cost(eval.at - 1) <= NodeLimit

Parsing  == Evaluating /\ eval.phase = "parse" /\ TextFits /\ TreeFits
Piece    == eval.text[eval.at]
At(kind) == eval.at <= Len(eval.text) /\ Piece[1] = kind

\* find_alias: the unit being parsed, then the units before it.
TagRow(t) == IF eval.unit.tags[t] # 0 THEN eval.unit.tags[t] ELSE TagIn(Runner, t)

NewRow    == [members |-> {}, complete |-> FALSE]

TableFull == Len(rows) = TypeLimit

\* The parse goes on with the next piece and these rows, open definition and unit.
Parsed(newRows, open, unit, touched) ==
  /\ rows' = newRows
  /\ eval' = [eval EXCEPT !.at = @ + 1, !.open = open, !.unit = unit, !.touched = @ \/ touched]
  /\ UNCHANGED <<references, current, session, source, buffer, file, exact>>

\* A parse that fails keeps the session, and destroys the interpreter it was to restore.
\* The table of types stays as the parse has left it.
ParseFails(newRows, incomplete) ==
  /\ Rejected(incomplete)
  /\ exact' = (exact /\ ~eval.touched)
  /\ IF eval.mode = "restore"
     THEN Destroy(Runner, newRows)
     ELSE rows' = newRows /\ UNCHANGED <<references, session>>

WithTag(t, r) == [eval.unit EXCEPT !.tags[t] = r]

\* struct t;
Forward(t) ==
  /\ Parsing /\ At("forward") /\ Piece[2] = t /\ eval.open = 0
  /\ \/ TagRow(t) # 0 /\ Parsed(rows, 0, eval.unit, FALSE)
     \/ TagRow(t) = 0 /\ ~TableFull /\ Parsed(Append(rows, NewRow), 0, WithTag(t, Len(rows) + 1), FALSE)
     \/ TagRow(t) = 0 /\ TableFull /\ ParseFails(rows, FALSE)

\* struct t {
Begin(t) ==
  /\ Parsing /\ At("begin") /\ Piece[2] = t /\ eval.open = 0
  /\ \/ TagRow(t) # 0 /\ rows[TagRow(t)].complete /\ ParseFails(rows, FALSE)
     \/ TagRow(t) # 0 /\ ~rows[TagRow(t)].complete /\ Parsed(rows, TagRow(t), eval.unit, FALSE)
     \/ TagRow(t) = 0 /\ TableFull /\ ParseFails(rows, FALSE)
     \/ /\ TagRow(t) = 0 /\ ~TableFull
        /\ Parsed(Append(rows, NewRow), Len(rows) + 1, WithTag(t, Len(rows) + 1), FALSE)

\* The open row is one that an earlier submission published.
Published(r) == \A t \in Tags : eval.unit.tags[t] # r

\* type_add_member
Member(m) ==
  /\ Parsing /\ At("member") /\ Piece[2] = m
  /\ IF eval.open = 0 \/ (eval.open # 0 /\ (rows[eval.open].complete \/ m \in rows[eval.open].members))
     THEN ParseFails(rows, FALSE)
     ELSE Parsed([rows EXCEPT ![eval.open].members = @ \cup {m}], eval.open, eval.unit, Published(eval.open))

\* } and type_finish
End ==
  /\ Parsing /\ At("end")
  /\ IF eval.open = 0 \/ (eval.open # 0 /\ rows[eval.open].members = {})
     THEN ParseFails(rows, FALSE)
     ELSE Parsed([rows EXCEPT ![eval.open].complete = TRUE], 0, eval.unit, Published(eval.open))

\* A declaration names its type first, which makes a row for a tag nobody knows, and then
\* needs it complete.
Variable(t) ==
  /\ Parsing /\ At("variable") /\ Piece[3] = t /\ eval.open = 0
  /\ IF t = "int" \/ (t # "int" /\ TagRow(t) # 0 /\ rows[TagRow(t)].complete)
     THEN Parsed(rows, 0, eval.unit, FALSE)
     ELSE ParseFails(IF TagRow(t) = 0 /\ ~TableFull THEN Append(rows, NewRow) ELSE rows, FALSE)

Function ==
  /\ Parsing /\ At("function") /\ eval.open = 0
  /\ Parsed(rows, 0, [eval.unit EXCEPT !.functions = @ \cup {Piece[2]}], FALSE)

\* Mutant: a #define takes effect as it is read.
Plain_Publishes ==
  /\ Parsing /\ (At("macro") \/ (At("fault") /\ eval.open = 0))
  /\ eval' = [eval EXCEPT !.at = @ + 1]
  /\ macros' = IF At("macro") THEN [macros EXCEPT ![Runner] = @ \cup {Piece[2]}] ELSE macros
  /\ UNCHANGED <<rows, references, current, units, symbols, source, buffer, file, exact>>

\* A directive, in preprocess's copy of the macros, or a statement that declares nothing.
Plain ==
  /\ Parsing /\ (At("macro") \/ (At("fault") /\ eval.open = 0))
  /\ Parsed(rows, eval.open, eval.unit, FALSE)

Bad == Parsing /\ At("bad") /\ ParseFails(rows, FALSE)

\* parse_with_context refuses the expanded text before it parses anything of it.
TextTooLong ==
  Evaluating /\ eval.phase = "parse" /\ ~TextFits /\ ParseFails(rows, FALSE)

\* node counts those of the whole text.
TreeTooLarge ==
  Evaluating /\ eval.phase = "parse" /\ TextFits /\ ~TreeFits /\ ParseFails(rows, FALSE)

\* The text ends within a definition.
Incomplete == Parsing /\ eval.at > Len(eval.text) /\ eval.open # 0 /\ ParseFails(rows, TRUE)

MacrosOf(text) == {m \in Macros : Contains(text, <<"macro", m>>)}

\* The parse is done: preprocess's copy of the macros takes their place, and the statements
\* are executed.  A check ends here.
ParseEnd ==
  /\ Parsing /\ eval.at > Len(eval.text) /\ eval.open = 0
  /\ IF eval.mode = "check"
     THEN ParseFails(rows, FALSE)
     ELSE /\ macros' = [macros EXCEPT ![Runner] = @ \cup MacrosOf(eval.text)]
          /\ eval' = [eval EXCEPT !.phase = "execute", !.at = 1,
                                  !.touched = @ \/ ~(MacrosOf(eval.text) \subseteq macros[Runner])]
          /\ UNCHANGED <<rows, references, current, units, symbols, source, buffer, file, exact>>

-----------------------------------------------------------------------------
(* The execution of a submission's statements. *)

StepsLeft == Cost(eval.at) <= StepLimit
Executing == Evaluating /\ eval.phase = "execute" /\ StepsLeft

\* Mutant: only the unit of a submission that succeeds is kept.
HasFunctions_Succeeded == eval.unit # NoUnit /\ eval.at > Len(eval.text)

\* ct_eval keeps a unit that declared anything others may refer to, failed or not.
HasFunctions == eval.unit # NoUnit
KeptUnits    == IF HasFunctions THEN [units EXCEPT ![Runner] = Append(@, eval.unit)] ELSE units

Done(newSymbols) ==
  /\ symbols' = [symbols EXCEPT ![Runner] = newSymbols]
  /\ eval' = [eval EXCEPT !.at = @ + 1, !.touched = @ \/ newSymbols # symbols[Runner]]
  /\ UNCHANGED <<rows, references, current, units, macros, source, buffer, file, exact>>

\* A statement fails: its effects so far stay, unless they are those of a failed .restore.
Fails(newSymbols) ==
  /\ Rejected(FALSE)
  /\ IF eval.mode = "restore"
     THEN Destroy(Runner, rows) /\ UNCHANGED exact
     ELSE /\ symbols' = [symbols EXCEPT ![Runner] = newSymbols]
          /\ units' = KeptUnits
          /\ exact' = (exact /\ ~eval.touched /\ newSymbols = symbols[Runner] /\ ~HasFunctions)
          /\ UNCHANGED <<macros, rows, references>>

Crash ==
  /\ eval' = [mode |-> "crashed"]
  /\ UNCHANGED <<rows, references, current, session, source, buffer, file, exact>>

Globals == symbols[Runner]

NewVariable(t, initialized, room) ==
  [kind |-> "variable", type |-> IF t = "int" THEN 0 ELSE TagRow(t),
   object |-> room, initialized |-> initialized]

\* define and perform_declaration: the symbol is there before its object.
DeclareVariable(room) ==
  /\ Executing /\ At("variable") /\ Globals[Piece[2]] = Absent
  /\ LET new == [Globals EXCEPT ![Piece[2]] = NewVariable(Piece[3], Piece[4], room)]
     IN  IF room THEN Done(new) ELSE Fails(new)

\* redeclare, which stores through the symbol's object without looking whether there is one.
Redeclare ==
  /\ Executing /\ At("variable") /\ Globals[Piece[2]] # Absent
  /\ LET x   == Piece[2]
         old == Globals[x]
     IN  IF \/ old.kind = "function"
            \/ old.type # NewVariable(Piece[3], FALSE, TRUE).type
            \/ Piece[4] /\ old.initialized
         THEN Fails(Globals)
         ELSE IF Piece[4] /\ ~old.object THEN Crash
         ELSE Done([Globals EXCEPT ![x].initialized = @ \/ Piece[4]])

\* declare_function
DeclareFunction(room) ==
  /\ Executing /\ At("function")
  /\ LET f     == Piece[2]
         unit  == IF room THEN Len(units[Runner]) + 1 ELSE 0
         new   == [Globals EXCEPT ![f] = [kind |-> "function", unit |-> unit]]
     IN  IF Globals[f] # Absent THEN Fails(Globals)
         ELSE IF room THEN Done(new) ELSE Fails(new)

\* An evaluation has one budget of steps, however many submissions its text was.
OutOfSteps ==
  /\ Evaluating /\ eval.phase = "execute" /\ ~StepsLeft /\ eval.at <= Len(eval.text)
  /\ Fails(Globals)

Fault == Executing /\ At("fault") /\ Fails(Globals)

Skip == Executing /\ eval.at <= Len(eval.text) /\ Piece[1] \in {"forward", "begin", "member", "end", "macro"} /\ Done(Globals)

\* evaluate's remember: the session source takes the submission, or none of it.
Recordable == Len(source) + Len(eval.text) <= SourceLimit

\* The evaluation succeeded.  .restore puts the new interpreter in the old one's place.
ExecutionEnd ==
  /\ Executing /\ eval.at > Len(eval.text)
  /\ eval' = Idle
  /\ IF eval.mode = "restore"
     THEN /\ Release(rows)
          /\ units' = [KeptUnits EXCEPT ![current] = <<>>]
          /\ symbols' = [symbols EXCEPT ![current] = NoSymbols]
          /\ macros' = [macros EXCEPT ![current] = {}]
          /\ current' = Other(current)
          /\ source' = file.text
          /\ exact' = TRUE
          /\ UNCHANGED <<buffer, file>>
     ELSE /\ units' = KeptUnits
          /\ source' = IF Recordable THEN source \o eval.text ELSE source
          /\ exact' = (exact /\ Recordable)
          /\ buffer' = <<>>
          /\ UNCHANGED <<rows, references, current, symbols, macros, file>>

-----------------------------------------------------------------------------

Parse ==
  \/ \E t \in Tags : Forward(t) \/ Begin(t)
  \/ \E t \in Tags \cup {"int"} : Variable(t)
  \/ \E m \in Members : Member(m)
  \/ End \/ Function \/ Plain \/ Bad \/ TextTooLong \/ TreeTooLarge \/ Incomplete \/ ParseEnd

Execute ==
  \/ \E room \in BOOLEAN : DeclareVariable(room) \/ DeclareFunction(room)
  \/ Redeclare \/ OutOfSteps \/ Fault \/ Skip \/ ExecutionEnd

Next ==
  \/ \E line \in Lines : Submit(line) \/ (\E length \in 1 .. Len(line) : Check(line, length))
  \/ Cancel \/ Clear \/ Save \/ Load \/ Restore
  \/ Parse \/ Execute

Spec == Init /\ [][Next]_vars

-----------------------------------------------------------------------------
(* What must hold. *)

\* Nothing the session keeps while it lives refers to what is gone: the tags of a kept unit and the types of
\* its variables are rows of the table, the latter complete ones, the body of a function is
\* in a unit that is kept or still executing, and the table counts the interpreters that use
\* it (types_retain, types_release, ct_eval's has_functions).
NothingDangles ==
  eval.mode # "crashed" =>
    /\ references = (IF eval.mode = "restore" THEN 2 ELSE 1)
    /\ \A i \in Interpreters :
         /\ \A k \in 1 .. Len(units[i]), t \in Tags : units[i][k].tags[t] <= Len(rows)
         /\ \A x \in Names :
              /\ symbols[i][x].kind = "variable" /\ symbols[i][x].type # 0 =>
                   symbols[i][x].type <= Len(rows) /\ rows[symbols[i][x].type].complete
              /\ symbols[i][x].kind = "function" =>
                   \/ symbols[i][x].unit <= Len(units[i])
                   \/ Evaluating /\ eval.phase = "execute" /\ i = Runner
                      /\ symbols[i][x].unit = Len(units[i]) + 1

\* A type that is complete stays what it is, whatever is typed, cleared, replayed or thrown
\* away: objects of it have their size and members from the row (type_finish).
CompleteRowsFixed ==
  [][\A r \in 1 .. Len(rows) : rows[r].complete => r <= Len(rows') /\ rows'[r] = rows[r]]_vars

Over == Evaluating /\ eval' = Idle

\* Input that is checked, that does not parse, or that a .restore cannot replay leaves the
\* names, the functions, the macros and the session source as it found them (ct_eval's
\* pending preprocessor, command's previous interpreter).
RejectedInputKeepsSession ==
  [][Over /\ (eval.phase = "parse" \/ (eval.mode = "restore" /\ current' = current)) =>
       eval.before = <<units[current], symbols[current], macros[current], source>>']_vars

\* One evaluation of the whole input passes a limit that each submission of a session has to
\* itself.
PassesLimit == \E limit \in {ExpandedLimit, NodeLimit, StepLimit} : Cost(Len(eval.text)) > limit

\* Replaying the source of a session makes that session again, if no input of it failed after
\* it had done something or was too long to record.  It can fail for want of memory or of room
\* in the table of types, which still holds those of the present session, or because the
\* session, which had the limits of text, nodes and steps for each submission, is too long for
\* the one evaluation that replays it (main.c:308, interpreter.c:3186, parser.c:72, 1193); and
\* for nothing else.
ReplayReproduces ==
  [][eval.mode = "restore" /\ Over /\ file.exact =>
       IF current' # current THEN View(current)' = file.view
       ELSE TableFull \/ DeclareVariable(FALSE) \/ DeclareFunction(FALSE) \/ PassesLimit]_vars
=============================================================================
