----------------------------- MODULE Preprocessor -----------------------------
(***************************************************************************)
(* The preprocessor (src/src/preprocessor.c).  A source is read line by    *)
(* line: text lines wait until the next directive and are then expanded    *)
(* together, directives are performed unless a conditional skips them, and *)
(* an #include reads another file, or the definitions of a standard        *)
(* header, in between.                                                     *)
(*                                                                         *)
(* A token is a sequence of strings, so that ## can join two; "\n" is the  *)
(* end of a line.  What a file holds is not fixed beforehand: each step    *)
(* reads some line from the alphabet that was chosen at the start, so all  *)
(* files made of these lines are read.  A failure is final: preprocess     *)
(* returns nothing and its caller drops the copy of the macros.            *)
(*                                                                         *)
(* text, done, tested, held, base and from of an open file record what was *)
(* read and which lines were performed, for the properties only.           *)
(***************************************************************************)
EXTENDS Integers, SequencesExt

CONSTANTS Alphabets,         \* sets of lines a program may be made of
          MainFile,          \* the name of the source
          Predefined,        \* the macros predefine() leaves
          ExpansionLimit,    \* PP_DEPTH
          ConditionalLimit,  \* open conditionals in one file
          IncludeLimit,      \* files inside each other
          MaxLines           \* bound: lines read in all

VARIABLES macros, once,             \* the Preprocessor
          file, renamed, line,      \* the Expansion: file may point to renamed
          stack,                    \* process() calls in progress
          output, failed,
          alphabet, lines           \* bound: what is read, and how much was

vars == <<macros, once, file, renamed, line, stack, output, failed, alphabet, lines>>

Newline == <<"\n">>
Renamed == ""              \* expansion->file = expansion->renamed
FileName == IF file = Renamed THEN renamed ELSE file

-----------------------------------------------------------------------------
(* Expansion: the text that results and the line counter it leaves.  A      *)
(* failure shows as a token no source has.  __FILE__ and __COUNTER__ stay   *)
(* as they are: their values follow from their place in the output.         *)

Malformed  == << <<"malformed">> >>
Fails(out) == Contains(out, Malformed[1])
Placed     == {<<"__LINE__">>, <<"__FILE__">>, <<"__COUNTER__">>}
Blank(tokens) == \A i \in DOMAIN tokens : tokens[i] = Newline

\* The nesting of parentheses in front of token i.
Nesting(tokens, i) == Cardinality({j \in 1..(i - 1) : tokens[j] = <<"(">>}) -
                      Cardinality({j \in 1..(i - 1) : tokens[j] = <<")">>})

\* Where the arguments of a call end, given the tokens after its parenthesis.
Closing(tokens) == {i \in DOMAIN tokens : tokens[i] = <<")">> /\ Nesting(tokens, i) = 0}

\* The commas between arguments; the last parameter of a variadic macro takes
\* the rest.
Commas(m, tokens, close) ==
    LET all == {i \in 1..(close - 1) : tokens[i] = <<",">> /\ Nesting(tokens, i) = 0}
    IN  IF ~m.variadic THEN all ELSE {i \in all : Cardinality({j \in all : j < i}) < Len(m.params) - 1}

\* The arguments of a call: the tokens between the separators.
Arguments(m, tokens, close) ==
    LET ends == SetToSortSeq(Commas(m, tokens, close) \cup {0, close}, LAMBDA a, b : a < b)
        args == [i \in 1..(Len(ends) - 1) |-> SubSeq(tokens, ends[i] + 1, ends[i + 1] - 1)]
    IN  IF m.params = <<>> /\ Len(args) = 1 /\ Blank(args[1]) THEN <<>> ELSE args

\* ##: the text to the left and the text to the right become one token.
Joined(left, right) ==
    IF left = <<>> \/ right = <<>> THEN left \o right
    ELSE Front(left) \o <<Last(left) \o Head(right)>> \o Tail(right)

\* # and __FILE__: one string token.
Stringified(tokens) == << <<"str">> \o FlattenSeq(SelectSeq(tokens, LAMBDA t : t # Newline)) >>

Trimmed(tokens) == SelectSeq(tokens, LAMBDA t : t # Newline)

IsParameter(m, t) == \E i \in DOMAIN m.params : m.params[i] = t
ArgumentOf(m, args, t) == args[CHOOSE i \in DOMAIN m.params : m.params[i] = t]

\* A defect to test the properties with: only ## behind a parameter counts.
PastesAfter(body, i) == i < Len(body) /\ body[i + 1] = <<"##">>

\* A parameter next to ## is replaced by its argument as written.
Pastes(body, i) == \/ i < Len(body) /\ body[i + 1] = <<"##">>
                   \/ i > 1 /\ body[i - 1] = <<"##">>

\* A defect to test the properties with: what is read again counts again.
CountsAgain(t, disabled) == t = Newline

\* expansion->line goes up at the end of a line outside all replacements.
Counts(t, disabled) == t = Newline /\ disabled = <<>>

Replaced(text, at) == [text |-> text, line |-> at]

RECURSIVE Expand(_, _, _, _), Substitute(_, _, _, _, _, _)

\* substitute: the first i tokens of the body with parameters replaced, each ##
\* taking what is left of it.  An argument is expanded with what was disabled
\* around the call.
Substitute(ms, m, args, disabled, i, at) ==
    LET t      == m.body[i]
        left   == Substitute(ms, m, args, disabled, i - 1, at)
        string == i > 1 /\ m.body[i - 1] = <<"#">>
        first  == IF string THEN i - 1 ELSE i
        mine   == CASE ~IsParameter(m, t)  -> Replaced(IF string THEN Malformed ELSE <<t>>, left.line)
                    [] string              -> Replaced(Stringified(ArgumentOf(m, args, t)), left.line)
                    [] Pastes(m.body, i)   -> Replaced(Trimmed(ArgumentOf(m, args, t)), left.line)
                    [] OTHER               -> Expand(ms, ArgumentOf(m, args, t), disabled, left.line)
    IN  IF i = 0 THEN Replaced(<<>>, at)
        ELSE IF t = <<"##">> \/ t = <<"#">> THEN left
        ELSE IF first > 1 /\ m.body[first - 1] = <<"##">> THEN Replaced(Joined(left.text, mine.text), mine.line)
        ELSE Replaced(left.text \o mine.text, mine.line)

\* expand: the replacement of a macro is read again with the macro disabled,
\* and apart from the tokens that follow.  Ends of lines in front of and within
\* the parentheses of a call are counted only where an argument is expanded.
Expand(ms, source, disabled, at) ==
    LET t      == Head(source)
        rest   == Tail(source)
        after  == SelectInSeq(rest, LAMBDA x : x # Newline)
        tail   == SubSeq(rest, after + 1, Len(rest))
        close  == Min(Closing(tail))
        args   == Arguments(ms[t], tail, close)
        inside == Append(disabled, t)
        Before(part, others) == LET more == Expand(ms, others, disabled, part.line)
                                IN  Replaced(part.text \o more.text, more.line)
        Shown(text) == Before(Replaced(text, IF Counts(t, disabled) THEN at + 1 ELSE at), rest)
        call   == Substitute(ms, ms[t], args, disabled, Len(ms[t].body), at)
    IN  IF Len(disabled) >= ExpansionLimit THEN Replaced(Malformed, at)
        ELSE IF source = <<>> THEN Replaced(<<>>, at)
        ELSE IF t = <<"__LINE__">> THEN Shown(<< <<ToString(at)>> >>)
        ELSE IF t \in Placed \/ t \notin DOMAIN ms \/ Contains(disabled, t) THEN Shown(<<t>>)
        ELSE IF ~ms[t].function THEN Before(Expand(ms, ms[t].body, inside, at), rest)
        ELSE IF after = 0 \/ rest[after] # <<"(">> THEN Shown(<<t>>)
        ELSE IF Closing(tail) = {} \/ Len(args) # Len(ms[t].params) THEN Replaced(Malformed, at)
        ELSE Before(Expand(ms, call.text, inside, call.line), SubSeq(tail, close + 1, Len(tail)))

-----------------------------------------------------------------------------
(* Reading files (process). *)

\* process() begins on a file, or on a standard header's definitions.
Opened(name, system) ==
    [name |-> name, system |-> system, conditions |-> <<>>, active |-> TRUE,
     pending |-> <<>>, pendingLine |-> 1, outer |-> output, file |-> file, line |-> line,
     text |-> <<>>, done |-> {}, tested |-> {}, held |-> {}, base |-> [at |-> 0, line |-> 0], from |-> 0]

Init ==
    /\ macros = Predefined /\ once = {}
    /\ file = MainFile /\ renamed = "" /\ line = 1
    /\ output = <<>> /\ failed = FALSE
    /\ alphabet \in Alphabets /\ lines = 0
    /\ stack = << [Opened(MainFile, FALSE) EXCEPT !.outer = <<>>] >>

Top   == Last(stack)
Here  == Len(Top.text) + 1
Reads(l) == stack # <<>> /\ ~failed /\ lines < MaxLines

\* What is expanded when a directive, or the end, is reached, from the line it began on.
Flushing == Expand(macros, Top.pending, <<>>, Top.pendingLine)
Flushed  == Flushing.text

\* The innermost file after line l, whatever else the line did to it.
WithLine(f, l) == [f EXCEPT !.text = Append(@, l)]

\* A directive is read: pending text is expanded, the directive has its effect
\* on the file f, fails when bad, and leaves an empty line.
Directive(l, f, bad) ==
    LET out == Flushed
    IN  /\ failed' = (Fails(out) \/ bad)
        /\ output' = output \o out \o <<Newline>>
        /\ stack' = Append(Front(stack), WithLine([f EXCEPT !.pending = <<>>], l))
        /\ lines' = lines + 1
        /\ UNCHANGED alphabet

\* A text line joins the ones before it; a skipped one leaves an empty line.
Text(l) ==
    LET f == Top
    IN  /\ Reads(l) /\ l.d = "text"
        /\ stack' = Append(Front(stack), WithLine(
              [f EXCEPT !.pending = @ \o (IF f.active THEN l.tokens ELSE <<>>) \o <<Newline>>,
                        !.pendingLine = IF f.pending = <<>> THEN line ELSE @,
                        !.from = IF f.pending = <<>> THEN Here ELSE @,
                        !.done = IF f.active THEN @ \cup {Here} ELSE @], l))
        /\ line' = line + 1 /\ lines' = lines + 1
        /\ UNCHANGED <<macros, once, file, renamed, output, failed, alphabet>>

\* condition(): defined is replaced first, then macros, then other names by 0;
\* what is left must be a number.
Condition(tokens) ==
    LET defined == IF tokens[1] = <<"defined">>
                   THEN << IF tokens[2] \in DOMAIN macros THEN <<"1">> ELSE <<"0">> >> ELSE tokens
        e == Expand(macros, defined, <<>>, line).text
    IN  [value |-> e = << <<"1">> >>, bad |-> Fails(e) \/ Len(e) # 1]

Opens == {"if", "ifdef", "ifndef"}

\* The value of the condition of a directive that is not skipped.
Tested(l) ==
    CASE l.d \in {"if", "elif"} -> Condition(l.tokens)
      [] l.d = "else"           -> [value |-> TRUE, bad |-> FALSE]
      [] l.d = "ifdef"          -> [value |-> l.name \in DOMAIN macros, bad |-> FALSE]
      [] l.d = "ifndef"         -> [value |-> l.name \notin DOMAIN macros, bad |-> FALSE]
NotTested == [value |-> FALSE, bad |-> FALSE]

\* What a file remembers of the conditions that were tested.
Recorded(f, tests, value) ==
    [f EXCEPT !.tested = IF tests THEN @ \cup {Here} ELSE @, !.held = IF value THEN @ \cup {Here} ELSE @]

\* #if, #ifdef, #ifndef.
If(l) ==
    LET f == Top
        t == IF f.active THEN Tested(l) ELSE NotTested
    IN  /\ Reads(l) /\ l.d \in Opens
        /\ Directive(l, Recorded([f EXCEPT
              !.conditions = Append(@, [parent |-> f.active, taken |-> t.value, seenElse |-> FALSE]),
              !.active = f.active /\ t.value], f.active, t.value),
              Len(f.conditions) = ConditionalLimit \/ t.bad)
        /\ line' = line + 1
        /\ UNCHANGED <<macros, once, file, renamed>>

\* A defect to test the properties with: an earlier group is not remembered.
MayEnterAgain(c) == c.parent

\* Whether a further group of a section may be entered.
MayEnter(c) == c.parent /\ ~c.taken

\* #elif and #else.
Else(l) ==
    LET f == Top
        c == Last(f.conditions)
        tests == MayEnter(c)
        t == IF tests THEN Tested(l) ELSE NotTested
    IN  /\ Reads(l) /\ l.d \in {"elif", "else"}
        /\ IF f.conditions = <<>> \/ c.seenElse THEN Directive(l, f, TRUE)
           ELSE Directive(l, Recorded([f EXCEPT
                   !.conditions = Append(Front(@), [c EXCEPT !.taken = @ \/ t.value, !.seenElse = l.d = "else"]),
                   !.active = c.parent /\ t.value], tests, t.value), t.bad)
        /\ line' = line + 1
        /\ UNCHANGED <<macros, once, file, renamed>>

Endif(l) ==
    LET f == Top
    IN  /\ Reads(l) /\ l.d = "endif"
        /\ IF f.conditions = <<>> THEN Directive(l, f, TRUE)
           ELSE Directive(l, [f EXCEPT !.conditions = Front(@), !.active = Last(f.conditions).parent], FALSE)
        /\ line' = line + 1
        /\ UNCHANGED <<macros, once, file, renamed>>

\* Any other directive is skipped with its group.
Skipped(l) ==
    /\ Reads(l) /\ l.d \notin Opens \cup {"elif", "else", "endif", "text"} /\ ~Top.active
    /\ Directive(l, Top, FALSE)
    /\ line' = line + 1
    /\ UNCHANGED <<macros, once, file, renamed>>

Performs(l, d) == Reads(l) /\ l.d = d /\ Top.active
Done == [Top EXCEPT !.done = @ \cup {Here}]

\* define: an older definition is dropped.
Define(l) ==
    /\ Performs(l, "define") /\ Directive(l, Done, FALSE)
    /\ macros' = (l.name :> l.macro) @@ macros
    /\ line' = line + 1
    /\ UNCHANGED <<once, file, renamed>>

Undefine(l) ==
    /\ Performs(l, "undef") /\ Directive(l, Done, FALSE)
    /\ macros' = [n \in DOMAIN macros \ {l.name} |-> macros[n]]
    /\ line' = line + 1
    /\ UNCHANGED <<once, file, renamed>>

\* #error, and a directive that is not known.
Error(l) ==
    /\ Performs(l, "error") /\ Directive(l, Done, TRUE)
    /\ line' = line + 1
    /\ UNCHANGED <<macros, once, file, renamed>>

Pragma(l) ==
    /\ Performs(l, "pragma") /\ Directive(l, Done, FALSE)
    /\ once' = IF l.once THEN once \cup {FileName} ELSE once
    /\ line' = line + 1
    /\ UNCHANGED <<macros, file, renamed>>

\* line_directive: the next line has the given number, and maybe the file
\* another name, in the one buffer there is.
LineDirective(l) ==
    /\ Performs(l, "line")
    /\ Directive(l, [Done EXCEPT !.base = [at |-> Here, line |-> l.number - 1]], FALSE)
    /\ line' = l.number
    /\ IF l.name = "" THEN UNCHANGED <<file, renamed>> ELSE file' = Renamed /\ renamed' = l.name
    /\ UNCHANGED <<macros, once>>

\* include: a file that was read under #pragma once is skipped, one that is not
\* there fails, and otherwise its lines come before the rest of this one's.
Include(l) ==
    LET skipped == ~l.system /\ l.name \in once
        bad     == ~skipped /\ (l.missing \/ Len(stack) > IncludeLimit)
        into    == Opened(l.name, l.system)
    IN  /\ Performs(l, "include")
        /\ failed' = (Fails(Flushed) \/ bad)
        /\ lines' = lines + 1
        /\ IF skipped \/ bad \/ Fails(Flushed)
           THEN /\ stack' = Append(Front(stack), WithLine([Done EXCEPT !.pending = <<>>], l))
                /\ output' = output \o Flushed \o <<Newline>>
                /\ line' = line + 1 /\ file' = file
           ELSE /\ stack' = Append(Append(Front(stack), WithLine([Done EXCEPT !.pending = <<>>], l)),
                                   [into EXCEPT !.outer = output \o Flushed])
                /\ output' = IF l.system THEN <<>> ELSE output \o Flushed
                /\ line' = 1 /\ file' = IF l.system THEN file ELSE l.name
        /\ UNCHANGED <<macros, once, renamed, alphabet>>

\* What an #include leaves in the output of the includer: a header's
\* declarations on one line, and the end of the directive's line.
Included(f, out) == IF ~f.system THEN out \o <<Newline>>
                    ELSE f.outer \o SelectSeq(out, LAMBDA t : t # Newline) \o <<Newline>>

\* A defect to test the properties with: the header's lines are counted too.
LineAfterHeader(f) == (IF f.system THEN line ELSE f.line) + 1

\* The line the includer goes on with.
LineAfter(f) == f.line + 1

\* The end of a file: what is pending is expanded, and the includer goes on
\* with its own file and line.
EndOfFile ==
    LET f == Top
    IN  /\ stack # <<>> /\ ~failed
        /\ IF f.conditions # <<>> THEN failed' = TRUE /\ UNCHANGED <<output, line, file, stack>>
           ELSE /\ failed' = Fails(Flushed)
                /\ stack' = Front(stack)
                /\ output' = IF Len(stack) = 1 THEN output \o Flushed ELSE Included(f, output \o Flushed)
                /\ line' = CASE Len(stack) > 1      -> LineAfter(f)
                             [] f.pending # <<>>     -> Flushing.line
                             [] OTHER                -> line
                /\ file' = IF Len(stack) = 1 \/ f.system THEN file ELSE f.file
        /\ UNCHANGED <<macros, once, renamed, alphabet, lines>>

Next ==
    \/ \E l \in alphabet :
          \/ Text(l) \/ If(l) \/ Else(l) \/ Endif(l) \/ Skipped(l) \/ Define(l) \/ Undefine(l)
          \/ Error(l) \/ Pragma(l) \/ LineDirective(l) \/ Include(l)
    \/ EndOfFile

Spec == Init /\ [][Next]_vars

-----------------------------------------------------------------------------
(* Conditionals, as the C grammar reads them: an if-section is a chain of   *)
(* groups, each behind its branch line.                                     *)

Is(f, i, kinds) == f.text[i].d \in kinds

\* How many sections are open in front of line i.
Level(f, i) == Cardinality({j \in 1..(i - 1) : Is(f, j, Opens)}) -
               Cardinality({j \in 1..(i - 1) : Is(f, j, {"endif"})})

\* The branch lines before i of the section around it at a level.
BranchesBefore(f, i, level) ==
    LET first == Max({j \in 1..(i - 1) : Is(f, j, Opens) /\ Level(f, j) = level - 1})
    IN  {first} \cup {j \in first..(i - 1) : Is(f, j, {"elif", "else"}) /\ Level(f, j) = level}

\* Line i is in the first group of that section whose condition holds.
InChosenGroup(f, i, level) ==
    LET before == BranchesBefore(f, i, level)
    IN  Max(before) \in f.held /\ \A j \in before : j # Max(before) => j \notin f.held

Selected(f, i, level) == \A k \in 1..level : InChosenGroup(f, i, k)

\* A line is performed exactly when every section around it has chosen its
\* group, the first whose condition holds, and a condition is looked at only
\* when its section is not skipped and no group before it was taken, however
\* sections nest and follow each other (process).
GroupsChosen ==
    ~failed => \A n \in DOMAIN stack : \A i \in DOMAIN stack[n].text :
        LET f == stack[n]
        IN  CASE Is(f, i, Opens)            -> i \in f.tested <=> Selected(f, i, Level(f, i))
              [] Is(f, i, {"elif", "else"}) -> i \in f.tested <=>
                     /\ Selected(f, i, Level(f, i) - 1)
                     /\ BranchesBefore(f, i, Level(f, i)) \cap f.held = {}
              [] Is(f, i, {"endif"})        -> TRUE
              [] OTHER                      -> i \in f.done <=> Selected(f, i, Level(f, i))

-----------------------------------------------------------------------------
(* Expansion, as the C standard describes it: each token knows the macros   *)
(* it came from, and a replacement is read again with the rest of the text. *)

Marked(tokens, hide) == [i \in DOMAIN tokens |-> [t |-> tokens[i], hide |-> hide]]
Plain(marked) == [i \in DOMAIN marked |-> marked[i].t]

RECURSIVE Reference(_, _), Replacement(_, _, _, _)

\* The body of m from token i on, with its parameters replaced.
Replacement(ms, m, args, i) ==
    IF i > Len(m.body) THEN <<>>
    ELSE LET t == m.body[i]
             string == t = <<"#">>
             rest == Replacement(ms, m, args, IF string THEN i + 2 ELSE i + 1)
             mine == CASE string -> Marked(Stringified(Plain(ArgumentOf(m, args, m.body[i + 1]))), {})
                       [] ~IsParameter(m, t) -> Marked(<<t>>, {})
                       [] \E k \in {i - 1, i + 1} \cap DOMAIN m.body : m.body[k] = <<"##">> -> ArgumentOf(m, args, t)
                       [] OTHER -> Reference(ms, ArgumentOf(m, args, t))
         IN  IF t = <<"##">> THEN rest
             ELSE IF i < Len(m.body) /\ m.body[i + 1] = <<"##">>
             THEN Front(mine) \o Marked(<<Last(mine).t \o Head(rest).t>>, {}) \o Tail(rest)
             ELSE mine \o rest

Reference(ms, text) ==
    IF text = <<>> THEN <<>>
    ELSE LET h == Head(text)
             m == ms[h.t]
             calls == Len(text) > 1 /\ text[2].t = <<"(">>
             tail  == SubSeq(text, 3, Len(text))
             ends  == Closing(Plain(tail))
             close == Min(ends)
             args  == LET plain == Arguments(m, Plain(tail), close)
                          at(k) == FoldLeft(LAMBDA n, a : n + Len(a) + 1, 0, SubSeq(plain, 1, k - 1))
                      IN  [k \in DOMAIN plain |-> SubSeq(tail, at(k) + 1, at(k) + Len(plain[k]))]
             again(body, hide, rest) ==
                 Reference(ms, [k \in DOMAIN body |-> [body[k] EXCEPT !.hide = @ \cup hide]] \o rest)
         IN  IF h.t \notin DOMAIN ms \/ h.t \in h.hide THEN <<h>> \o Reference(ms, Tail(text))
             ELSE IF ~m.function THEN again(Marked(m.body, {}), h.hide \cup {h.t}, Tail(text))
             ELSE IF ~calls THEN <<h>> \o Reference(ms, Tail(text))
             ELSE IF ends = {} \/ Len(args) # Len(m.params) THEN Marked(Malformed, {})
             ELSE again(Replacement(ms, m, args, 1), (h.hide \cap tail[close].hide) \cup {h.t},
                        SubSeq(tail, close + 1, Len(tail)))

\* Where the code is meant to agree: macros that never come back to themselves,
\* or none with parameters; no call that is completed by what follows the
\* replacement it starts in; no empty argument; none of the names whose value
\* depends on the place.
Acyclic == \E rank \in [DOMAIN macros -> 1..Cardinality(DOMAIN macros)] :
               \A n \in DOMAIN macros : \A i \in DOMAIN macros[n].body :
                   macros[n].body[i] \in DOMAIN macros => rank[macros[n].body[i]] < rank[n]
Apart(tokens, firsts, seconds) ==
    \A i \in 1..(Len(tokens) - 1) : ~(tokens[i] \in firsts /\ tokens[i + 1] \in seconds)
EndsOpen(body) == body # <<>> /\ Last(body) \in DOMAIN macros /\ macros[Last(body)].function
Ordinary(tokens) ==
    /\ Acyclic \/ \A n \in DOMAIN macros : ~macros[n].function
    /\ \A n \in DOMAIN macros : ~EndsOpen(macros[n].body) /\ Apart(macros[n].body, {<<")">>}, {<<"(">>})
    /\ \A i \in DOMAIN tokens : tokens[i] \notin Placed
    /\ Apart(tokens, {<<")">>}, {<<"(">>}) /\ Apart(tokens, {<<"(">>, <<",">>}, {<<")">>, <<",">>})

\* What a text expands to is what the standard says, with arguments expanded
\* once unless they meet # or ##, the same macro nested in its own argument,
\* commas and parentheses inside arguments, and mutual recursion stopped; and
\* it fails exactly for calls that are malformed (expand, substitute).
ExpandsAsC ==
    stack # <<>> /\ ~failed /\ Top.pending # <<>> /\ Ordinary(Trimmed(Top.pending)) =>
        LET r   == Plain(Reference(macros, Marked(Trimmed(Top.pending), {})))
            out == Flushed
        IN  IF Fails(r) THEN Fails(out) ELSE Trimmed(out) = r

-----------------------------------------------------------------------------
(* Lines. *)

\* The number of the line a file is on, counted from its last #line.
Presumed(f, i) == f.base.line + i - f.base.at

\* The parameter x stands in the body once, and not next to # or ##.
ExpandedOnce(m, x) ==
    \E i \in DOMAIN m.body : /\ \A j \in DOMAIN m.body : m.body[j] = x <=> j = i
                             /\ ~Pastes(m.body, i) /\ ~(i > 1 /\ m.body[i - 1] = <<"#">>)

\* A call keeps count of the lines it goes over if its parenthesis is on the line
\* of its name, and an argument with an end of line in it is expanded once.
KeepsCount(tokens, i) ==
    LET m    == macros[tokens[i]]
        next == SelectInSubSeq(tokens, i + 1, Len(tokens), LAMBDA t : t # Newline)
        tail == SubSeq(tokens, next + 1, Len(tokens))
        args == Arguments(m, tail, Min(Closing(tail)))
    IN  tokens[i] \in DOMAIN macros /\ m.function /\ next # 0 /\ tokens[next] = <<"(">> /\ Closing(tail) # {} =>
            /\ next = i + 1
            /\ \A k \in DOMAIN args \cap DOMAIN m.params :
                  Contains(args[k], Newline) => ExpandedOnce(m, m.params[k])

\* The line that __LINE__ shows behind the text that waits.
LineShown == Expand(macros, Append(Top.pending, <<"__LINE__">>), <<>>, Top.pendingLine).text

\* The line counter is the line of the source, or what #line made of it, in
\* every open file: a header or an included file, with #line directives of its
\* own, does not disturb the files around it.  And __LINE__ shows that line in
\* text that waited for a directive and is expanded from the line it began on,
\* while macros are called in front of it, over several lines if these calls
\* keep count (process, expand).
LinesStayTrue ==
    ~failed => \A n \in DOMAIN stack :
        LET f == stack[n]
        IN  /\ f.pending # <<>> => f.pendingLine = Presumed(f, f.from)
            /\ IF n = Len(stack) THEN line = Presumed(f, Len(f.text) + 1)
                                 ELSE stack[n + 1].line = Presumed(f, Len(f.text))
            /\ n = Len(stack) /\ f.pending # <<>> /\ (\A i \in DOMAIN f.pending : KeepsCount(f.pending, i)) =>
                  LET out == LineShown IN Fails(out) \/ Last(out) = <<ToString(line)>>
==============================================================================
