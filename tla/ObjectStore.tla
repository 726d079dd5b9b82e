---------------------------- MODULE ObjectStore ----------------------------
(***************************************************************************)
(* What the managed address space promises an interpreted program, with no *)
(* records, tables or caches: a set of objects at addresses, each alive or *)
(* ended, and a verdict on every access and release that depends on the    *)
(* objects alone.  An ended object may be forgotten while another is       *)
(* allocated; a live one never is.  ManagedMemory implements this module   *)
(* (src/src/memory.c seen through memory.h).                               *)
(***************************************************************************)
EXTENDS Integers

CONSTANTS Requests, Widths, Addresses

VARIABLES
  objects,  \* the objects that can still be told apart, by starting address
  fresh,    \* no object has ever been placed at or above this address
  error     \* the verdict on the last operation

vars == <<objects, fresh, error>>

Init == objects = [base \in {} |-> 0] /\ fresh = 0 /\ error = "none"

\* The object an address points into or one past.
Holders(a) == {base \in DOMAIN objects : base <= a /\ a <= base + objects[base].size}

AccessVerdict(a, n, write) ==
  IF a = 0 THEN {"null"}
  ELSE IF Holders(a) = {} THEN {"invalid"}
  ELSE {IF ~objects[base].alive THEN "ended"
        ELSE IF a + n > base + objects[base].size THEN "bounds"
        ELSE IF write /\ objects[base].readonly THEN "readonly"
        ELSE "none" : base \in Holders(a)}

Access(a, n, write) ==
  /\ error' \in AccessVerdict(a, n, write)
  /\ UNCHANGED <<objects, fresh>>

ReleaseVerdict(a, heapOnly) ==
  IF a = 0 THEN "none"
  ELSE IF a \notin DOMAIN objects THEN "not a start"
  ELSE IF ~objects[a].alive THEN "already freed"
  ELSE IF heapOnly /\ ~objects[a].heap THEN "not heap"
  ELSE "none"

Release(a, heapOnly) ==
  /\ error' = ReleaseVerdict(a, heapOnly)
  /\ objects' = IF error' = "none" /\ a # 0 THEN [objects EXCEPT ![a].alive = FALSE] ELSE objects
  /\ UNCHANGED fresh

SetReadonly(base, readonly) ==
  /\ objects[base].alive
  /\ objects' = [objects EXCEPT ![base].readonly = readonly]
  /\ UNCHANGED <<fresh, error>>

\* The objects that survive an allocation: all the live ones and some ended ones.
Survivors == {kept \in SUBSET DOMAIN objects : \A base \in DOMAIN objects \ kept : ~objects[base].alive}

Place(size, heap) ==
  /\ error' = "none"
  /\ \E base \in Addresses :
       /\ base > 0 /\ base >= fresh
       /\ fresh' > base + size
       /\ \E kept \in Survivors :
            objects' = [b \in kept \cup {base} |->
                          IF b = base
                          THEN [size |-> size, alive |-> TRUE, heap |-> heap, readonly |-> FALSE]
                          ELSE objects[b]]

\* An allocation may fail, and has then at most forgotten ended objects.
Refuse ==
  /\ error' \in {"limit", "out of memory"}
  /\ fresh' >= fresh
  /\ \E kept \in Survivors : objects' = [b \in kept |-> objects[b]]

Destroy == objects' = [base \in {} |-> 0] /\ fresh' = 0 /\ error' = "none"

\* A program names addresses; the interpreter, at the end of a scope, objects.
Next ==
  \/ \E a \in Addresses, n \in Widths, write \in BOOLEAN : Access(a, n, write)
  \/ \E a \in Addresses \cup DOMAIN objects, heapOnly \in BOOLEAN : Release(a, heapOnly)
  \/ \E base \in DOMAIN objects, readonly \in BOOLEAN : SetReadonly(base, readonly)
  \/ \E request \in Requests : Place(request[1], request[2])
  \/ Refuse
  \/ Destroy

Spec == Init /\ [][Next]_vars
=============================================================================
