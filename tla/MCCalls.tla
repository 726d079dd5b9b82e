------------------------------- MODULE MCCalls -------------------------------
(***************************************************************************)
(* Three functions and a library call: v is variadic after one parameter,  *)
(* s is simple with a private parameter, n is neither and has a private    *)
(* parameter, and sort calls back.                                         *)
(***************************************************************************)
EXTENDS Calls

MCParameters == "v" :> 1 @@ "s" :> 1 @@ "n" :> 1 @@ "sort" :> 0
==============================================================================
