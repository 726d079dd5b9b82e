-------------------------- MODULE MCManagedMemory --------------------------
(* A small address space for TLC: heap blocks too large to live in their record *)
(* and automatic objects of no bytes at all, at a handful of addresses.         *)
EXTENDS ManagedMemory, TLC

MCRequests  == {<<8, TRUE>>, <<0, FALSE>>}
MCAddresses == {0} \cup {FirstAddress + 16 * k : k \in 0 .. 4} \cup {FirstAddress + 4, FirstAddress + 36}
MCSymmetry  == Permutations(Records)
=============================================================================
