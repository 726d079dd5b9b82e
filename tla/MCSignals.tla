----------------------------- MODULE MCSignals -----------------------------
(* A program that handles every signal and children that share the lowest one with it. *)
EXTENDS Signals

MCHandles == [i \in Interpreters |-> IF i = Program THEN Signals ELSE {1}]
=============================================================================
