------------------------------ MODULE MCConsole ------------------------------
(***************************************************************************)
(* Scenes for Console: one process at its line editor with every key; two  *)
(* processes that type short lines, save their histories and are killed;   *)
(* two processes that change and save preferences, from files good and bad.*)
(***************************************************************************)
EXTENDS Console, TLC

MCValues   == ("suggestions" :> {"on", "off"}) @@ ("color" :> {"auto", "never"})
MCDefault   == ("suggestions" :> "on") @@ ("color" :> "auto")
MCSettings  == <<"suggestions", "color">>
MCChars     == {"a", " "}
MCBlanks    == {" "}
MCSuggestions == {<<"a">>, <<"a", "a">>}

Plain == [noConfig |-> FALSE, explicit |-> FALSE, color |-> "none", noHistory |-> FALSE]
Options == {Plain, [Plain EXCEPT !.noConfig = TRUE], [Plain EXCEPT !.explicit = TRUE],
            [Plain EXCEPT !.color = "never"]}

Half == << <<"suggestions", "off">>, <<"color", "red">> >>
User == << <<"color", "never">> >>

Editing == [processes |-> {"p"}, keys |-> (Keys \ {"nested"}) \cup {"tab"}, options |-> {[Plain EXCEPT !.noHistory = TRUE]},
            files |-> {Missing}, preferences |-> FALSE, crashes |-> FALSE]
Hints == [Editing EXCEPT !.keys = {"a", "up", "down", "nested"}]
Histories == [processes |-> {"p", "q"}, keys |-> {"a"}, options |-> {Plain},
              files |-> {Missing}, preferences |-> FALSE, crashes |-> TRUE]
Changing == [processes |-> {"p", "q"}, keys |-> {}, options |-> Options,
             files |-> {Missing, Half, User}, preferences |-> TRUE, crashes |-> TRUE]

MCScenes == {Editing, Hints, Histories, Changing}
==============================================================================
