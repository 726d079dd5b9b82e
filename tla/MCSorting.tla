------------------------------ MODULE MCSorting ------------------------------
(***************************************************************************)
(* Arrays of up to five elements with three keys: three passes of          *)
(* merge_sort, runs without a partner, and both places the result can be   *)
(* in after the last pass.                                                 *)
(***************************************************************************)
EXTENDS Sorting

MCKeys == 1..3
==============================================================================
