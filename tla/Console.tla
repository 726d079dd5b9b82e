------------------------------- MODULE Console -------------------------------
(***************************************************************************)
(* The front end around the line editor (src/main.c, src/src/config.c): a  *)
(* process loads its preferences and its history, runs the loop of the     *)
(* REPL, changes and saves preferences on .config, and saves the history   *)
(* as it ends.  Several processes of one user share both files and run at  *)
(* once, and any of them may be killed at any step.                        *)
(*                                                                         *)
(* What a line says is left open: any line may be any command, and what is *)
(* evaluated may come out in any way.  A file of preferences is a sequence *)
(* of settings, and one of history a sequence of characters, because two   *)
(* processes may write over each other's.                                  *)
(***************************************************************************)
EXTENDS LineEditor, FiniteSets

CONSTANTS Settings,            \* their names, in the order they are written in
          Values,              \* what config_set takes for a setting
          Default,             \* config_defaults
          Scenes               \* bound: the processes, files, options, keys and steps taken part in

VARIABLES pc,           \* where each process is
          prefs,        \* CliConfig; update_color derives the use of color from it
          stored,       \* whether the process has a history file
          pending,      \* buffer.length > 0
          final,        \* the input has ended
          saving,       \* config_save: lines written, and whether all went well
          temporary,    \* its temporary file
          preferences, historyFile,
          saved, crossed, \* the history written last, and by whom at the same time,
                          \* for the properties only
          scene

config  == <<prefs, saving, temporary, preferences>>
session == <<stored, pending, final>>
files   == <<historyFile, saved, crossed>>
vars    == <<term, pc, config, session, files, scene>>

Configs == {c \in [Range(Settings) -> UNION {Values[s] : s \in Range(Settings)}] :
                \A s \in DOMAIN c : c[s] \in Values[s]}

ASSUME SettingsAssumption ==
    /\ Settings \in Seq(STRING) /\ "color" \in Range(Settings) /\ Default \in Configs
    /\ \A s \in Range(Settings) : Values[s] \subseteq STRING
    /\ \A s \in Range(Settings) \ {"color"} : {"on", "off"} \subseteq Values[s]
    /\ "toggle" \notin Values["color"]
ASSUME ScenesAssumption == \A s \in Scenes : s.files \subseteq Seq(STRING \X STRING)

Missing == << <<"no file", "none">> >>   \* stands for none: no setting has that name
Keys    == Chars \cup {"start", "end", "left", "right", "rest", "before", "word", "erase", "delete",
                       "up", "down", "search", "nested"}
NotSaving == [written |-> 0, ok |-> TRUE]
Unknown == [valid |-> FALSE, history |-> <<>>]

\* config_save writes every setting.
Written(c) == [i \in DOMAIN Settings |-> <<Settings[i], c[Settings[i]]>>]

\* config_load: one line that is no setting, and nothing of the file counts.
SetBy(read, entry) ==
    IF read.ok /\ entry[1] \in Range(Settings) /\ entry[2] \in Values[entry[1]]
    THEN [read EXCEPT !.config[entry[1]] = entry[2]] ELSE [read EXCEPT !.ok = FALSE]

\* What has come of the first k lines.
ParsedSoFar(file) ==
    LET read[k \in 0..Len(file)] ==
            IF k = 0 THEN [config |-> Default, ok |-> TRUE] ELSE SetBy(read[k - 1], file[k])
    IN  read

Parsed(file) == ParsedSoFar(file)[Len(file)]

Init ==
    /\ scene \in Scenes
    /\ term = [p \in Processes |-> NoTerminal] /\ pc = [p \in Processes |-> "off"]
    /\ prefs = [p \in Processes |-> Default]
    /\ stored = [p \in Processes |-> FALSE]
    /\ pending = [p \in Processes |-> FALSE] /\ final = [p \in Processes |-> FALSE]
    /\ saving = [p \in Processes |-> NotSaving] /\ temporary = [p \in Processes |-> Missing]
    /\ preferences \in scene.files
    /\ historyFile = <<>> /\ saved = Unknown /\ crossed = {}

Go(p, where) == pc' = [pc EXCEPT ![p] = where]
At(p, where) == p \in scene.processes /\ pc[p] = where

\* main: preferences that are there must be in good order if --config named
\* their file; --color overrides them; --no-config and --no-history do without.
Start(p, noConfig, explicit, colorOption, noHistory) ==
    LET file   == IF noConfig \/ preferences = Missing THEN <<>> ELSE preferences
        read   == Parsed(file)
        loaded == IF read.ok THEN read.config ELSE Default
        chosen == IF colorOption = "none" THEN loaded ELSE [loaded EXCEPT !["color"] = colorOption]
    IN  /\ At(p, "off")
        /\ [noConfig |-> noConfig, explicit |-> explicit, color |-> colorOption, noHistory |-> noHistory]
              \in scene.options
        /\ explicit /\ ~noConfig => read.ok
        /\ prefs' = [prefs EXCEPT ![p] = chosen]
        /\ stored' = [stored EXCEPT ![p] = ~noHistory]
        /\ term' = [term EXCEPT ![p].history = IF noHistory THEN <<>> ELSE Loaded(historyFile)]
        /\ Go(p, "ready")
        /\ UNCHANGED <<pending, final, saving, temporary, preferences, files, scene>>

-----------------------------------------------------------------------------
(* The loop of repl.                                                        *)

Prompt(p) ==
    /\ At(p, "ready") /\ Begin(p) /\ Go(p, "reading")
    /\ UNCHANGED <<config, session, files, scene>>

Typed(p) == At(p, "reading") /\ UNCHANGED <<pc, config, session, files, scene>>

Key(p, k) ==
    /\ Typed(p) /\ k \in scene.keys
    /\ \/ Move(p, k)
       \/ k \in {"rest", "before", "word", "erase", "delete"} /\ CutOut(p, k)
       \/ k \in {"up", "down"} /\ Recall(p, k)
       \/ k = "search" /\ Search(p)
       \/ k = "nested" /\ Begin(p)
       \/ k \in Chars /\ Insert(p, k)

\* Suggestions are a preference; a program's own completion may answer too.
Tab(p, suffix) ==
    /\ Typed(p) /\ "tab" \in scene.keys /\ prefs[p]["suggestions"] = "on"
    /\ Complete(p, suffix)

\* A line that is accepted adds to what waits to be evaluated, unless a hint
\* asked for it; where it does not fit with its end, the loop ends.
Enter(p) ==
    /\ At(p, "reading") /\ Accept(p)
    /\ \/ Len(term[p].reads) > 1 /\ UNCHANGED <<pc, pending>>
       \/ /\ Len(term[p].reads) = 1 /\ Length(Top(p)) < LineLimit
          /\ Go(p, "line") /\ pending' = [pending EXCEPT ![p] = TRUE]
       \/ /\ Len(term[p].reads) = 1 /\ (pending[p] \/ Length(Top(p)) = LineLimit)
          /\ Go(p, "ending") /\ UNCHANGED pending
    /\ UNCHANGED <<config, stored, final, files, scene>>

\* Ctrl+D: the loop ends, at once when nothing waits.
EndOfInput(p) ==
    /\ At(p, "reading") /\ Reading(p) /\ Top(p).line = <<>> /\ GiveUp(p)
    /\ IF Len(term[p].reads) > 1 THEN UNCHANGED <<pc, final>>
       ELSE /\ Go(p, IF pending[p] THEN "line" ELSE "ending")
            /\ final' = [final EXCEPT ![p] = TRUE]
    /\ UNCHANGED <<config, stored, pending, files, scene>>

\* Ctrl+C ends every read that goes on, and what waited is dropped.
Interrupt(p) ==
    /\ At(p, "reading")
    /\ term' = [term EXCEPT ![p].reads = <<>>]
    /\ Go(p, "ready") /\ pending' = [pending EXCEPT ![p] = FALSE]
    /\ UNCHANGED <<config, stored, final, files, scene>>

\* What waits was a command, .quit, or source that is complete, wrong, calls
\* exit() or needs more lines; at the end of the input it gets none.
Handle(p, outcome) ==
    /\ At(p, "line") /\ (final[p] => outcome \notin {"quit", "command"})
    /\ pending' = [pending EXCEPT ![p] = outcome = "incomplete" /\ ~final[p]]
    /\ Go(p, CASE outcome = "quit"    -> "ending"
               [] outcome = "command" -> "command"
               [] outcome = "exit"    -> "ending"
               [] OTHER               -> IF final[p] THEN "ending" ELSE "ready")
    /\ UNCHANGED <<term, config, stored, final, files, scene>>

Done(p) == Go(p, "ready") /\ UNCHANGED <<term, session, files, scene>>

OtherCommand(p) == At(p, "command") /\ Done(p) /\ UNCHANGED config

-----------------------------------------------------------------------------
(* .config, with configure and config_save.                                 *)

\* configure: a value, or "toggle" for what is on or off.
Change(p, setting, value) ==
    LET c    == prefs[p]
        to   == IF value # "toggle" THEN value ELSE IF c[setting] = "on" THEN "off" ELSE "on"
        next == [c EXCEPT ![setting] = to]
    IN  /\ At(p, "command") /\ scene.preferences
        /\ value \in Values[setting] \/ (value = "toggle" /\ setting # "color")
        /\ prefs' = [prefs EXCEPT ![p] = next]
        /\ Done(p) /\ UNCHANGED <<saving, temporary, preferences>>

Reset(p) ==
    /\ At(p, "command") /\ scene.preferences
    /\ prefs' = [prefs EXCEPT ![p] = Default]
    /\ Done(p) /\ UNCHANGED <<saving, temporary, preferences>>

\* mkstemp; where it fails, nothing happened.
SaveOpen(p) ==
    /\ At(p, "command") /\ scene.preferences
    /\ saving' = [saving EXCEPT ![p] = NotSaving]
    /\ temporary' = [temporary EXCEPT ![p] = <<>>]
    /\ Go(p, "saving")
    /\ UNCHANGED <<term, session, prefs, preferences, files, scene>>

\* One line is written, or the disk is full.
SaveLine(p, fits) ==
    LET i == saving[p].written + 1
    IN  /\ At(p, "saving") /\ i <= Len(Settings)
        /\ saving' = [saving EXCEPT ![p] = [written |-> i, ok |-> @.ok /\ fits]]
        /\ temporary' = IF fits THEN [temporary EXCEPT ![p] = Append(@, Written(prefs[p])[i])]
                        ELSE temporary
        /\ UNCHANGED <<term, pc, session, prefs, preferences, files, scene>>

\* A defect to test the properties with: what went wrong is not looked at.
TakesPlaceAnyway(s) == s.written = Len(Settings)

TakesPlace(s) == s.written = Len(Settings) /\ s.ok

\* The temporary file takes the place of the old one, or goes.
SaveEnd(p, renamed) ==
    /\ At(p, "saving") /\ saving[p].written = Len(Settings)
    /\ preferences' = IF TakesPlace(saving[p]) /\ renamed THEN temporary[p] ELSE preferences
    /\ temporary' = [temporary EXCEPT ![p] = Missing]
    /\ saving' = [saving EXCEPT ![p] = NotSaving]
    /\ Done(p) /\ UNCHANGED prefs

-----------------------------------------------------------------------------
(* The end of a process, with terminal_destroy.                             *)

\* A defect to test the properties with: the file is not emptied.
OpenedAsItIs(file) == file

Opened(file) == <<>>

EndOpen(p) ==
    /\ At(p, "ending")
    /\ IF stored[p]
       THEN /\ historyFile' = Opened(historyFile) /\ saved' = Unknown
            /\ LET others == {q \in Processes \ {p} : pc[q] = "closing" /\ stored[q]}
               IN  crossed' = IF others = {} THEN crossed \ {p} ELSE crossed \cup others \cup {p}
       ELSE UNCHANGED files
    /\ Go(p, "closing")
    /\ UNCHANGED <<term, config, session, scene>>

\* The lines go out at once as the file is closed, from its beginning: what
\* another process wrote meanwhile shows behind them.
EndWrite(p) ==
    LET text == Text(History(p))
    IN  /\ At(p, "closing")
        /\ IF stored[p]
           THEN /\ historyFile' = text \o SubSeq(historyFile, Len(text) + 1, Len(historyFile))
                /\ saved' = IF p \in crossed THEN Unknown ELSE [valid |-> TRUE, history |-> History(p)]
           ELSE UNCHANGED <<historyFile, saved>>
        /\ term' = [term EXCEPT ![p] = NoTerminal]
        /\ pending' = [pending EXCEPT ![p] = FALSE] /\ final' = [final EXCEPT ![p] = FALSE]
        /\ Go(p, "off")
        /\ UNCHANGED <<config, stored, crossed, scene>>

\* The process is killed.  Its temporary file stays, under a name that is not
\* used again.
Crash(p) ==
    /\ p \in scene.processes /\ scene.crashes /\ pc[p] # "off"
    /\ term' = [term EXCEPT ![p] = NoTerminal]
    /\ pending' = [pending EXCEPT ![p] = FALSE] /\ final' = [final EXCEPT ![p] = FALSE]
    /\ saving' = [saving EXCEPT ![p] = NotSaving] /\ temporary' = [temporary EXCEPT ![p] = Missing]
    /\ Go(p, "off")
    /\ UNCHANGED <<prefs, stored, preferences, files, scene>>

Next == \E p \in Processes :
    \/ \E noConfig, explicit, noHistory \in BOOLEAN, colorOption \in {"none"} \cup Values["color"] :
          Start(p, noConfig, explicit, colorOption, noHistory)
    \/ Prompt(p) \/ Enter(p) \/ EndOfInput(p) \/ Interrupt(p)
    \/ \E k \in Keys : Key(p, k)
    \/ \E suffix \in Suggestions : Tab(p, suffix)
    \/ \E outcome \in {"quit", "command", "incomplete", "complete", "exit"} : Handle(p, outcome)
    \/ OtherCommand(p) \/ Reset(p)
    \/ \E setting \in Range(Settings) : \E value \in Values[setting] \cup {"toggle"} :
          Change(p, setting, value)
    \/ SaveOpen(p) \/ (\E fits \in BOOLEAN : SaveLine(p, fits))
    \/ (\E renamed \in BOOLEAN : SaveEnd(p, renamed))
    \/ EndOpen(p) \/ EndWrite(p) \/ Crash(p)

Spec == Init /\ [][Next]_vars

-----------------------------------------------------------------------------
\* The file of preferences is at every moment one a user wrote or the whole of
\* what one process saved, whoever is killed, runs out of disk or saves at the
\* same time (config_save), and a save that is over leaves no temporary file.
PreferencesWhole ==
    /\ preferences \in scene.files \cup {Written(c) : c \in Configs}
    /\ \A p \in Processes : pc[p] # "saving" => temporary[p] = Missing

\* What a process leaves in the file of histories is what the next one starts
\* with, if no other ended at the same time: the file loses nothing on the way
\* (terminal_init, terminal_destroy), but for the lines from the first on that
\* fills the limit, which are not read again.
HistorySurvives ==
    saved.valid =>
        LET h == saved.history
            full == {i \in DOMAIN h : Len(h[i]) >= LineLimit}
        IN  Loaded(historyFile) = IF full = {} THEN h ELSE SubSeq(h, 1, Min(full) - 1)
==============================================================================
