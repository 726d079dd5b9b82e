------------------------------ MODULE LineEditor ------------------------------
(***************************************************************************)
(* The line editor and its history (src/src/terminal.c), as each process   *)
(* that has a terminal uses it.  One action is one key: the bytes of an    *)
(* escape sequence that come in time are one key, and those that come      *)
(* after the timeout of escape_byte are read as text, like Insert's.       *)
(*                                                                         *)
(* render() asks the session for hints, and those may be functions of an   *)
(* interpreted program (terminal_line and ask_session in src/src/bridge.c) *)
(* that read a line themselves: reads nest, over one history.              *)
(***************************************************************************)
EXTENDS Integers, SequencesExt

CONSTANTS Processes,
          Chars, Blanks,   \* what a line is made of, and which of it is white space
          Suggestions,     \* what completion() may answer
          LineLimit,       \* CT_SOURCE_LIMIT
          HistoryLimit,    \* entries a history holds (1000)
          MaxNested        \* bound: reads inside each other

\* A line is made of characters that do not end it, and a history holds a line.
ASSUME LineAssumption ==
    /\ "\n" \notin Chars
    /\ Suggestions \subseteq Seq(Chars)
    /\ LineLimit \in Nat /\ HistoryLimit \in Nat \ {0} /\ MaxNested \in Nat

VARIABLE term   \* of each process: its history and its reads, innermost last

Newline == "\n"
NoDraft == <<Newline>>   \* no line has one
NoTerminal == [history |-> <<>>, reads |-> <<>>]

Length(r)  == Len(r.line)
Reading(p) == term[p].reads # <<>>
Top(p)     == Last(term[p].reads)
History(p) == term[p].history
Count(p)   == Len(History(p))

\* history_add: no empty line, no line twice in a row, the oldest makes room.
HistoryAdd(h, text) ==
    IF text = <<>> \/ (h # <<>> /\ Last(h) = text) THEN h
    ELSE Append(IF Len(h) = HistoryLimit THEN Tail(h) ELSE h, text)

\* A file is a sequence of characters; terminal_init stops at a line that is
\* longer than the limit with its end counted in.
LineRead(read, c) ==
    IF read.stopped THEN read
    ELSE IF c # Newline THEN [read EXCEPT !.line = Append(@, c)]
    ELSE IF Len(read.line) + 1 > LineLimit THEN [read EXCEPT !.stopped = TRUE]
    ELSE [read EXCEPT !.history = HistoryAdd(@, read.line), !.line = <<>>]

Unread == [history |-> <<>>, line |-> <<>>, stopped |-> FALSE]

\* What has come of the first k characters.
ReadSoFar(file) ==
    LET read[k \in 0..Len(file)] == IF k = 0 THEN Unread ELSE LineRead(read[k - 1], file[k])
    IN  read

Loaded(file) ==
    LET read == ReadSoFar(file)[Len(file)]
    IN  IF read.stopped \/ Len(read.line) > LineLimit THEN read.history
        ELSE HistoryAdd(read.history, read.line)

\* What terminal_destroy writes, after k entries of the history.
Texts(h) ==
    LET text[k \in 0..Len(h)] == IF k = 0 THEN <<>> ELSE text[k - 1] \o Append(h[k], Newline)
    IN  text

Text(h) == Texts(h)[Len(h)]

-----------------------------------------------------------------------------
Keep(p, r) == term' = [term EXCEPT ![p].reads = Append(Front(@), r)]

\* terminal_read: by the front end, or by a hint while another read goes on.
Begin(p) ==
    /\ Len(term[p].reads) < MaxNested
    /\ term' = [term EXCEPT ![p].reads =
           Append(@, [line |-> <<>>, cursor |-> 0, index |-> Count(p), draft |-> NoDraft])]

\* Ctrl+A, Ctrl+E, Ctrl+B, Ctrl+F and the keys that do the same.
Move(p, key) ==
    LET r == Top(p)
    IN  /\ Reading(p)
        /\ \/ key = "start" /\ Keep(p, [r EXCEPT !.cursor = 0])
           \/ key = "end" /\ Keep(p, [r EXCEPT !.cursor = Length(r)])
           \/ key = "left" /\ r.cursor > 0 /\ Keep(p, [r EXCEPT !.cursor = @ - 1])
           \/ key = "right" /\ r.cursor < Length(r) /\ Keep(p, [r EXCEPT !.cursor = @ + 1])

\* Ctrl+W goes back over white space, and then over what is not.
WordStart(r) ==
    LET Start(set) == {i \in 0..r.cursor : \A k \in (i + 1)..r.cursor : r.line[k] \in set}
        blank == Min(Start(Blanks))
    IN  Min({i \in 0..blank : \A k \in (i + 1)..blank : r.line[k] \notin Blanks})

\* What a key takes out of the line: from after the first place to the second.
Cut(r, key) ==
    CASE key = "rest"   -> <<r.cursor, Length(r)>>
      [] key = "before" -> <<0, r.cursor>>
      [] key = "word"   -> <<WordStart(r), r.cursor>>
      [] key = "erase"  -> <<Max({r.cursor - 1, 0}), r.cursor>>
      [] key = "delete" -> <<r.cursor, Min({r.cursor + 1, Length(r)})>>

\* Ctrl+K, Ctrl+U, Ctrl+W, backspace and delete.
CutOut(p, key) ==
    LET r == Top(p)
        cut == Cut(r, key)
    IN  /\ Reading(p)
        /\ key = "delete" => r.line # <<>>       \* Ctrl+D ends the input instead
        /\ Keep(p, [r EXCEPT !.line = SubSeq(@, 1, cut[1]) \o SubSeq(@, cut[2] + 1, Len(@)),
                             !.cursor = cut[1]])

\* Tab: completion() answers with a suffix, or with none.
Complete(p, suffix) ==
    LET r == Top(p)
    IN  /\ Reading(p) /\ r.cursor = Length(r)
        /\ Len(suffix) <= LineLimit - Length(r)
        /\ Keep(p, [r EXCEPT !.line = @ \o suffix, !.cursor = Length(r) + Len(suffix)])

Insert(p, c) ==
    LET r == Top(p)
    IN  /\ Reading(p) /\ Length(r) < LineLimit
        /\ Keep(p, [r EXCEPT !.line = SubSeq(@, 1, r.cursor) \o <<c>> \o SubSeq(@, r.cursor + 1, Len(@)),
                             !.cursor = @ + 1])

\* The first line that is left for the history is the draft, for good.
Shown(r, index, line) ==
    [line |-> line, cursor |-> Len(line), index |-> index,
     draft |-> IF r.draft = NoDraft THEN r.line ELSE r.draft]

\* A defect to test the properties with: one entry too many below the last.
BelowLast(index, count) == index <= count

Below(index, count) == index < count

\* The arrows up and down: a history that is empty has nothing to show.
Recall(p, key) ==
    LET r == Top(p)
        index == CASE key = "up"   -> IF r.index > 0 THEN r.index - 1 ELSE r.index
                   [] key = "down" -> IF Below(r.index, Count(p)) THEN r.index + 1 ELSE r.index
        draft == IF r.draft = NoDraft THEN r.line ELSE r.draft
    IN  /\ Reading(p) /\ Count(p) > 0
        /\ Keep(p, Shown(r, index, IF index < Count(p) THEN History(p)[index + 1] ELSE draft))

\* Ctrl+R: the latest entry before the one shown that holds the line.
Search(p) ==
    LET r == Top(p)
        matches == {i \in 1..r.index : \E from, to \in 0..Len(History(p)[i]) :
                       SubSeq(History(p)[i], from + 1, to) = r.line}
    IN  /\ Reading(p) /\ matches # {}
        /\ Keep(p, Shown(r, Max(matches) - 1, History(p)[Max(matches)]))

\* Enter: the line goes to the history and to who asked for it.
Accept(p) ==
    /\ Reading(p)
    /\ term' = [term EXCEPT ![p].reads = Front(@), ![p].history = HistoryAdd(@, Top(p).line)]

\* Ctrl+D on an empty line, the end of the input, or an interrupt.
GiveUp(p) ==
    /\ Reading(p)
    /\ term' = [term EXCEPT ![p].reads = Front(@)]

-----------------------------------------------------------------------------
\* However keys, recalls, searches and reads inside reads follow each other,
\* the cursor stays within the line, the line within its buffer, and the place
\* in the history a read remembers within the history, which a read inside it
\* may have moved (terminal_read, history_add).  No history holds an empty line
\* or a line twice in a row.
EditorInBounds ==
    \A p \in Processes :
        /\ Count(p) <= HistoryLimit
        /\ \A i \in 1..Count(p) : History(p)[i] # <<>> /\ (i > 1 => History(p)[i] # History(p)[i - 1])
        /\ \A n \in DOMAIN term[p].reads :
              LET r == term[p].reads[n]
              IN  r.cursor \in 0..Length(r) /\ Length(r) <= LineLimit /\ r.index \in 0..Count(p)
==============================================================================
