--------------------------- MODULE ManagedMemory ---------------------------
(***************************************************************************)
(* The managed address space of the interpreter (src/src/memory.c and      *)
(* memory.h).  Every object an interpreted program can point to is a host  *)
(* record kept in a table ordered by address.  Freed objects stay in the   *)
(* table, so that a later access can be diagnosed, until so many have      *)
(* accumulated that the old ones are forgotten and their records reused.   *)
(* A lookup goes through two caches of record pointers before it searches  *)
(* the table; whether the caches still tell the truth once records are     *)
(* reused is the question this module is about.                            *)
(*                                                                         *)
(* Abstractions.  The table is the set of records it holds: addresses only *)
(* grow, so its order is the order of the addresses, and the arrays, their *)
(* binary search and their compaction are left out.  The stack of spare    *)
(* records is the set of them.  The bytes of an object and their           *)
(* initialised flags are left out.                                         *)
(***************************************************************************)
EXTENDS Integers, FiniteSets, FiniteSetsExt

CONSTANTS
  Records,         \* the Allocation records the host's malloc can return
  NULL,            \* the null record pointer
  Requests,        \* the <<size, heap>> pairs a program asks for
  Widths,          \* the sizes of the accesses it makes
  Addresses,       \* the addresses a program may form
  Slots,           \* MEMORY_FIND_CACHE_SIZE
  RememberedDead,  \* REMEMBERED_DEAD
  ByteLimit,       \* the 64 MiB limit on live bytes
  InlineBytes,     \* ALLOCATION_INLINE_BYTES
  FirstCapacity,   \* the table's first capacity, 64 entries
  FirstAddress,    \* the first address handed out, 4096
  AddressBound     \* no object is placed at or above it: a bound of the model

ASSUME NullAssumption     == NULL \notin Records
ASSUME RequestAssumption  == Requests \subseteq Nat \X BOOLEAN
ASSUME WidthAssumption    == Widths \subseteq Nat
ASSUME AddressAssumption  == Addresses \subseteq Nat
ASSUME ParameterAssumption ==
  /\ Slots \in Nat \ {0}
  /\ RememberedDead \in Nat
  /\ ByteLimit \in Nat
  /\ InlineBytes \in Nat
  /\ FirstCapacity \in Nat \ {0}
  /\ FirstAddress \in Nat \ {0}
  /\ AddressBound \in Nat

VARIABLES
  record,       \* the contents of every host record
  table,        \* memory->entries, as a set
  spares,       \* memory->spares, as a set
  cache,        \* memory->find_cache
  recent,       \* memory->recent
  nextAddress,  \* memory->next_address
  bytes,        \* memory->bytes
  dead,         \* memory->dead
  capacity,     \* memory->capacity
  error         \* memory->error

lookupState == <<cache, recent>>
vars == <<record, table, spares, cache, recent, nextAddress, bytes, dead, capacity, error>>

Errors == {"none", "limit", "out of memory", "null", "invalid", "ended", "bounds",
           "readonly", "not a start", "already freed", "not heap"}

Allocation == [address : Nat, size : Nat, alive : BOOLEAN, heap : BOOLEAN, readonly : BOOLEAN]

TypeOK ==
  /\ record \in [Records -> Allocation]
  /\ table \subseteq Records
  /\ spares \subseteq Records
  /\ cache \in [0 .. Slots - 1 -> Records \cup {NULL}]
  /\ recent \in Records \cup {NULL}
  /\ nextAddress \in Nat
  /\ bytes \in Int /\ bytes <= ByteLimit
  /\ dead \in Int
  /\ capacity \in Nat
  /\ error \in Errors

\* What a record that malloc has not handed out is taken to hold.
Blank == [address |-> 0, size |-> 0, alive |-> FALSE, heap |-> FALSE, readonly |-> FALSE]

Init ==
  /\ record = [r \in Records |-> Blank]
  /\ table = {}
  /\ spares = {}
  /\ cache = [slot \in 0 .. Slots - 1 |-> NULL]
  /\ recent = NULL
  /\ nextAddress = 0
  /\ bytes = 0
  /\ dead = 0
  /\ capacity = 0
  /\ error = "none"

-----------------------------------------------------------------------------
(* Looking an address up. *)

\* The one unsigned comparison of the code: an address below the record's wraps
\* to a difference far above any size.  One past the end belongs to the object.
Holds(r, a) == record[r].address <= a /\ a - record[r].address <= record[r].size

\* The binary search: the last record that starts at or below the address.
SearchTable(a) ==
  LET below == {r \in table : record[r].address <= a}
      last  == CHOOSE r \in below : \A q \in below : record[q].address <= record[r].address
  IN  IF below # {} /\ Holds(last, a) THEN last ELSE NULL

Slot(a) == (a \div 16) % Slots

FoundRecently(a) == recent # NULL /\ Holds(recent, a)
FoundCached(a)   == cache[Slot(a)] # NULL /\ Holds(cache[Slot(a)], a)

Find(a) ==
  IF FoundRecently(a) THEN recent
  ELSE IF FoundCached(a) THEN cache[Slot(a)]
  ELSE SearchTable(a)

\* What a lookup leaves behind in the caches.
FindCaches(a) ==
  LET found == Find(a)
  IN  IF found = NULL
      THEN UNCHANGED lookupState
      ELSE /\ recent' = found
           /\ cache' = IF FoundRecently(a) \/ FoundCached(a)
                       THEN cache
                       ELSE [cache EXCEPT ![Slot(a)] = found]

-----------------------------------------------------------------------------
(* Ending a lifetime, and accesses. *)

\* memory_release_record
EndLifetime(r) ==
  /\ record' = [record EXCEPT ![r].alive = FALSE]
  /\ dead' = dead + 1
  /\ bytes' = bytes - record[r].size
  /\ error' = "none"

\* Mutant: an object is freed twice without a word.
ReleaseVerdict_Twice(a, heapOnly) ==
  LET r == Find(a)
  IN  IF r = NULL THEN "not a start"
      ELSE IF record[r].address # a THEN "not a start"
      ELSE IF heapOnly /\ ~record[r].heap THEN "not heap"
      ELSE "none"

ReleaseVerdict(a, heapOnly) ==
  LET r == Find(a)
  IN  IF r = NULL THEN "not a start"
      ELSE IF record[r].address # a THEN "not a start"
      ELSE IF ~record[r].alive THEN "already freed"
      ELSE IF heapOnly /\ ~record[r].heap THEN "not heap"
      ELSE "none"

\* memory_release: free(), realloc() and the ends of scopes and temporaries.
Release(a, heapOnly) ==
  /\ UNCHANGED <<table, spares, nextAddress, capacity>>
  /\ \/ /\ a = 0
        /\ error' = "none"
        /\ UNCHANGED <<record, bytes, dead, lookupState>>
     \/ /\ a # 0
        /\ FindCaches(a)
        /\ IF ReleaseVerdict(a, heapOnly) = "none"
           THEN EndLifetime(Find(a))
           ELSE /\ error' = ReleaseVerdict(a, heapOnly)
                /\ UNCHANGED <<record, bytes, dead>>

\* scope_clear releases a symbol's object through the record the symbol kept.
ReleaseRecord(r) ==
  /\ r \in table /\ record[r].alive /\ ~record[r].heap
  /\ EndLifetime(r)
  /\ UNCHANGED <<table, spares, cache, recent, nextAddress, capacity>>

AccessVerdict(a, n, write) ==
  LET r == Find(a)
  IN  IF a = 0 THEN "null"
      ELSE IF r = NULL THEN "invalid"
      ELSE IF ~record[r].alive THEN "ended"
      ELSE IF n > record[r].size - (a - record[r].address) THEN "bounds"
      ELSE IF write /\ record[r].readonly THEN "readonly"
      ELSE "none"

\* memory_access
Access(a, n, write) ==
  /\ error' = AccessVerdict(a, n, write)
  /\ FindCaches(a)
  /\ UNCHANGED <<record, table, spares, nextAddress, bytes, dead, capacity>>

\* Mutant: a kept record is trusted by its place alone.
Covers_Dead(r, a, n) == Holds(r, a) /\ n <= record[r].size - (a - record[r].address)

\* Whether a record found earlier may be read or written without another lookup.
Covers(r, a, n) == record[r].alive /\ Holds(r, a) /\ n <= record[r].size - (a - record[r].address)

\* A declaration, a string literal or a redeclaration settles whether its object is const.
SetReadonly(r, readonly) ==
  /\ r \in table /\ record[r].alive /\ ~record[r].heap
  /\ record' = [record EXCEPT ![r].readonly = readonly]
  /\ UNCHANGED <<table, spares, cache, recent, nextAddress, bytes, dead, capacity, error>>

-----------------------------------------------------------------------------
(* Allocation. *)

\* A dead record is forgotten when at least RememberedDead dead records lie above it.
DeadAbove(r) == {q \in table : ~record[q].alive /\ record[q].address > record[r].address}
OldDead      == {r \in table : ~record[r].alive /\ Cardinality(DeadAbove(r)) >= RememberedDead}
MustForget   == dead > 2 * RememberedDead
Forgotten    == IF MustForget THEN OldDead ELSE {}

\* Mutant: forgetting does not count the dead it drops.
KeptDead_Never == dead

KeptDead == dead - Cardinality(Forgotten)

\* Mutant: forgetting drops the most recent record but not the other cache.
KeptCache_Stale == cache

\* forget_oldest_dead and its condition in remember: the caches are dropped whole.
KeptCache  == IF MustForget THEN [slot \in 0 .. Slots - 1 |-> NULL] ELSE cache
KeptRecent == IF MustForget THEN NULL ELSE recent

TableFull == Cardinality(table \ Forgotten) = capacity

\* Mutant: a spare record may be handed out without being taken off the list.
Available_InUse == Records

\* new_record: a spare one if there is one, else whatever malloc returns.
Available == IF spares # {} THEN spares ELSE Records \ table

\* Mutant: the limit is put on each object alone.
OverLimit_PerObject(size) == size > ByteLimit

OverLimit(size) == size > ByteLimit \/ bytes > ByteLimit - size
Base            == IF nextAddress = 0 THEN FirstAddress ELSE nextAddress
\* Mutant: rounding up leaves no gap.
Stride_NoGap(size) == ((size + 15) \div 16) * 16

Stride(size)    == ((size + 31) \div 16) * 16

RefuseOverLimit(size) ==
  /\ OverLimit(size)
  /\ error' = "limit"
  /\ UNCHANGED <<record, table, spares, cache, recent, nextAddress, bytes, dead, capacity>>

\* malloc has no record to give.
RefuseNoRecord(size) ==
  /\ ~OverLimit(size)
  /\ spares = {}
  /\ error' = "out of memory"
  /\ UNCHANGED <<record, table, spares, cache, recent, nextAddress, bytes, dead, capacity>>

\* Mutant: the record is filled in before its bytes are there.
Recycle_Filled(r, others) ==
  /\ record' = [record EXCEPT ![r].address = Base, ![r].readonly = FALSE, ![r].alive = TRUE]
  /\ spares' = (spares \cup others) \cup {r}
  /\ nextAddress' = Base
  /\ error' = "out of memory"
  /\ UNCHANGED <<bytes, capacity>>

\* recycle_record, after the record was given the address it would have had.
Recycle(r, others) ==
  /\ record' = [record EXCEPT ![r].address = Base, ![r].readonly = FALSE]
  /\ spares' = (spares \cup others) \cup {r}
  /\ nextAddress' = Base
  /\ error' = "out of memory"
  /\ UNCHANGED <<bytes, capacity>>

\* calloc fails for an object too large to live in its record.
RefuseNoBytes(size, r) ==
  /\ ~OverLimit(size)
  /\ size > InlineBytes
  /\ r \in Available
  /\ Recycle(r, {})
  /\ UNCHANGED <<table, cache, recent, dead>>

\* realloc fails to grow the table, after the old dead were forgotten.
RefuseNoTable(size, r) ==
  /\ ~OverLimit(size)
  /\ r \in Available
  /\ TableFull
  /\ table' = table \ Forgotten
  /\ dead' = KeptDead
  /\ cache' = KeptCache
  /\ recent' = KeptRecent
  /\ Recycle(r, Forgotten)

Allocate(size, heap, r) ==
  /\ ~OverLimit(size)
  /\ r \in Available
  /\ Base + Stride(size) <= AddressBound
  /\ record' = [record EXCEPT ![r] = [address |-> Base, size |-> size, alive |-> TRUE,
                                      heap |-> heap, readonly |-> FALSE]]
  /\ table' = (table \ Forgotten) \cup {r}
  /\ spares' = (spares \ {r}) \cup Forgotten
  /\ dead' = KeptDead
  /\ cache' = [KeptCache EXCEPT ![Slot(Base)] = r]
  /\ recent' = r
  /\ capacity' = IF ~TableFull THEN capacity ELSE IF capacity = 0 THEN FirstCapacity ELSE capacity * 2
  /\ nextAddress' = Base + Stride(size)
  /\ bytes' = bytes + size
  /\ error' = "none"

\* memory_destroy: ct_clear starts the address space again from nothing.
Destroy ==
  /\ record' = [r \in Records |-> Blank]
  /\ table' = {}
  /\ spares' = {}
  /\ cache' = [slot \in 0 .. Slots - 1 |-> NULL]
  /\ recent' = NULL
  /\ nextAddress' = 0
  /\ bytes' = 0
  /\ dead' = 0
  /\ capacity' = 0
  /\ error' = "none"

Next ==
  \/ \E request \in Requests : RefuseOverLimit(request[1])
  \/ \E request \in Requests : RefuseNoRecord(request[1])
  \/ \E request \in Requests, r \in Records : RefuseNoBytes(request[1], r)
  \/ \E request \in Requests, r \in Records : RefuseNoTable(request[1], r)
  \/ \E request \in Requests, r \in Records : Allocate(request[1], request[2], r)
  \/ \E a \in Addresses, heapOnly \in BOOLEAN : Release(a, heapOnly)
  \/ \E r \in Records : ReleaseRecord(r)
  \/ \E r \in Records, readonly \in BOOLEAN : SetReadonly(r, readonly)
  \/ \E a \in Addresses, n \in Widths, write \in BOOLEAN : Access(a, n, write)
  \/ Destroy

Spec == Init /\ [][Next]_vars

-----------------------------------------------------------------------------
(* Properties. *)

\* The caches never change an answer: whatever was allocated, freed, forgotten
\* and reused since they were filled, memory_find returns what a search of the
\* table alone would (memory.h:44-51 against memory.c:116-129).
LookupAgrees == \A a \in Addresses : Find(a) = SearchTable(a)

\* memory.c:113-115: objects are separated by at least sixteen bytes, so that one
\* object's one-past-the-end address never belongs to the next, and the next
\* address handed out lies above every object still in the table.
Separated ==
  /\ \A r \in table : record[r].address + record[r].size + 16 <= nextAddress
  /\ \A r, q \in table : r # q =>
        \/ record[r].address + record[r].size + 16 <= record[q].address
        \/ record[q].address + record[q].size + 16 <= record[r].address

\* A record pointer kept from any earlier moment (a symbol's object, an lvalue's
\* object while the right-hand side runs) may be used whenever covers() accepts
\* it: the record is in use, it is the one a lookup of the address would find now,
\* and memory_access would grant what is read or written through it
\* (interpreter.c:1136-1141, 1156-1160, 1216-1225).
LiveRecordsAreFindable ==
  \A r \in Records :
    /\ record[r].alive => r \in table \ spares
    /\ \A a \in Addresses, n \in Widths : Covers(r, a, n) =>
          /\ Find(a) = r
          /\ AccessVerdict(a, n, FALSE) = "none"
          /\ AccessVerdict(a, n, TRUE) = IF record[r].readonly THEN "readonly" ELSE "none"

\* The count of remembered dead objects, which decides when to forget, is exact.
DeadAccounted == dead = Cardinality({r \in table : ~record[r].alive})

\* The bytes of the live objects, each a pair of its record and a number.
LiveBytes == UNION {{r} \X (1 .. record[r].size) : r \in {q \in table : record[q].alive}}

\* The two counts that decide when to forget and when to refuse never drift: they
\* come to the dead and to the live bytes of the table after any releases by
\* address, by record or by scope, refusals, forgetting and reuse (memory.c:30, 40,
\* 73, 105, 170-178).
CountsExact == DeadAccounted /\ bytes = Cardinality(LiveBytes)

\* A live object keeps its place, size and storage until a release ends it, and
\* a release ends no other: an allocation, with the forgetting and recycling it
\* does, disturbs none (realloc reads its old record after allocating the new
\* one, builtins.c:1105-1116).
LiveObjectsAreStable ==
  [][ table' # {} =>
        \A r \in table : record[r].alive =>
          /\ r \in table'
          /\ \E alive, readonly \in BOOLEAN :
               record'[r] = [record[r] EXCEPT !.alive = alive, !.readonly = readonly]
          /\ record'[r].alive \/ \A q \in Records \ {r} : record'[q] = record[q] ]_vars

-----------------------------------------------------------------------------
(* What a program sees: ObjectStore's objects are the records of the table. *)

RecordAt(base) == CHOOSE r \in table : record[r].address = base

Objects ==
  [base \in {record[r].address : r \in table} |->
    LET r == record[RecordAt(base)]
    IN  [size |-> r.size, alive |-> r.alive, heap |-> r.heap, readonly |-> r.readonly]]

Store == INSTANCE ObjectStore WITH objects <- Objects, fresh <- nextAddress

\* What a program observes of its objects, lookups, accesses and releases is what
\* the objects alone determine: the caches, the reuse of records and the order of
\* forgetting never show, save that an old ended object may no longer be known.
ImplementsObjectStore == Store!Spec
=============================================================================
