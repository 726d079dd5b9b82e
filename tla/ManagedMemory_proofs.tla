------------------------ MODULE ManagedMemory_proofs ------------------------
(***************************************************************************)
(* Proofs about ManagedMemory for any set of records, any requests and     *)
(* any addresses.                                                          *)
(***************************************************************************)
EXTENDS ManagedMemory, FiniteSetTheorems, WellFoundedInduction, TLAPS

\* Both caches only ever point into the table.
CachesKnown ==
  /\ recent \in table \cup {NULL}
  /\ \A slot \in 0 .. Slots - 1 : cache[slot] \in table \cup {NULL}

\* Records are live only in the table, and none is both in use and spare.
RecordsOwned ==
  /\ \A r \in Records : record[r].alive => r \in table
  /\ table \cap spares = {}

\* The bytes refused or granted are those of the live objects.
BytesAccounted == IsFiniteSet(LiveBytes) /\ bytes = Cardinality(LiveBytes)

\* The inductive invariant.
IndInv ==
  /\ TypeOK
  /\ IsFiniteSet(table)
  /\ Separated
  /\ CachesKnown
  /\ RecordsOwned
  /\ DeadAccounted
  /\ BytesAccounted

-----------------------------------------------------------------------------
(* Arithmetic of addresses. *)

\* Rounding size + 31 down to a multiple of sixteen leaves a gap of at least sixteen.
LEMMA StrideGap ==
  ASSUME NEW size \in Nat
  PROVE  Stride(size) \in Nat /\ Stride(size) >= size + 16
BY DEF Stride

\* An address falls into one of the slots of the cache.
LEMMA SlotInRange ==
  ASSUME NEW a \in Nat
  PROVE  Slot(a) \in 0 .. Slots - 1
<1>1. Slots \in Nat /\ Slots > 0
  BY ParameterAssumption
<1>2. a \div 16 \in Nat
  OBVIOUS
<1> QED
  BY <1>1, <1>2 DEF Slot

\* Where an object starts at or below an address it holds, no other object does so higher up.
LEMMA HolderIsLast ==
  ASSUME TypeOK, Separated, NEW a \in Nat, NEW r \in table, Holds(r, a)
  PROVE  SearchTable(a) = r
<1> DEFINE below == {q \in table : record[q].address <= a}
           Last(p) == \A q \in below : record[q].address <= record[p].address
<1>1. r \in below
  BY DEF Holds
<1>2. \A q \in table : record[q].address \in Nat /\ record[q].size \in Nat
  BY DEF TypeOK, Allocation
<1>3. ASSUME NEW q \in below, q # r
      PROVE  record[q].address < record[r].address
  BY <1>1, <1>2, <1>3 DEF Separated, Holds
<1>4. Last(r)
  BY <1>2, <1>3, <1>1
<1>5. ASSUME NEW q \in below, Last(q)
      PROVE  q = r
  BY <1>1, <1>2, <1>3, <1>5
<1>6. (CHOOSE q \in below : Last(q)) = r
  BY <1>1, <1>4, <1>5
<1> QED
  BY <1>1, <1>6 DEF SearchTable

\* The record the binary search ends on exists as soon as one starts low enough.
LEMMA LastExists ==
  ASSUME TypeOK, NEW a \in Nat,
         NEW below, below = {q \in table : record[q].address <= a}, below # {}
  PROVE  \E r \in below : \A q \in below : record[q].address <= record[r].address
<1> DEFINE distances == {a - record[q].address : q \in below}
<1>1. \A q \in below : record[q].address \in Nat /\ a - record[q].address \in Nat
  BY DEF TypeOK, Allocation
<1>2. distances \in SUBSET Nat /\ distances # {}
  BY <1>1
<1>3. PICK d \in distances : \A e \in distances : d <= e
  <2> DEFINE less == {p \in Nat \X Nat : p[1] < p[2]}
  <2>1. IsWellFoundedOn(less, Nat)
    BY NatLessThanWellFounded, Zenon DEF OpToRel
  <2>2. \A e, d \in Nat : ~(<<e, d>> \in less) => d <= e
    OBVIOUS
  <2> HIDE DEF less
  <2>3. \E d \in distances : \A e \in distances : ~(<<e, d>> \in less)
    BY <1>2, <2>1, WFMin
  <2> QED
    BY <1>2, <2>2, <2>3
<1>4. PICK r \in below : d = a - record[r].address
  OBVIOUS
<1>5. ASSUME NEW q \in below
      PROVE  record[q].address <= record[r].address
  <2>1. d <= a - record[q].address
    BY <1>3
  <2> QED
    BY <2>1, <1>1, <1>4
<1> QED
  BY <1>5

\* What the search of the table returns is in the table and holds the address.
LEMMA SearchInTable ==
  ASSUME TypeOK, NEW a \in Nat
  PROVE  /\ SearchTable(a) \in table \cup {NULL}
         /\ SearchTable(a) # NULL => Holds(SearchTable(a), a)
<1> DEFINE below == {q \in table : record[q].address <= a}
           last  == CHOOSE r \in below : \A q \in below : record[q].address <= record[r].address
<1>1. SearchTable(a) = IF below # {} /\ Holds(last, a) THEN last ELSE NULL
  BY DEF SearchTable
<1>2. below # {} => last \in below
  BY LastExists
<1>3. last \in below => last \in table
  OBVIOUS
<1> HIDE DEF below, last
<1> QED
  BY <1>1, <1>2, <1>3

\* What a lookup returns is what the table alone would answer.
LEMMA FindInTable ==
  ASSUME TypeOK, Separated, CachesKnown, NEW a \in Nat
  PROVE  /\ Find(a) = SearchTable(a)
         /\ Find(a) \in table \cup {NULL}
         /\ Find(a) # NULL => Holds(Find(a), a)
<1>1. CASE FoundRecently(a)
  BY <1>1, HolderIsLast DEF FoundRecently, Find, CachesKnown
<1>2. CASE ~FoundRecently(a) /\ FoundCached(a)
  BY <1>2, HolderIsLast, SlotInRange DEF FoundCached, Find, CachesKnown
<1>3. CASE ~FoundRecently(a) /\ ~FoundCached(a)
  BY <1>3, SearchInTable DEF Find
<1> QED
  BY <1>1, <1>2, <1>3

-----------------------------------------------------------------------------
(* Bytes. *)

\* The bytes of one object are as many as its size says.
LEMMA ObjectBytes ==
  ASSUME NEW r, NEW size \in Nat
  PROVE  IsFiniteSet({r} \X (1 .. size)) /\ Cardinality({r} \X (1 .. size)) = size
<1>1. PICK one : one = {r}
  OBVIOUS
<1>2. PICK numbers : numbers = 1 .. size
  OBVIOUS
<1>3. IsFiniteSet(one) /\ Cardinality(one) = 1
  BY <1>1, FS_Singleton
<1>4. IsFiniteSet(numbers) /\ Cardinality(numbers) = size
  BY <1>2, FS_Interval
<1>5. IsFiniteSet(one \X numbers) /\ Cardinality(one \X numbers) = Cardinality(one) * Cardinality(numbers)
  BY <1>3, <1>4, FS_Product
<1>6. Cardinality(one) * Cardinality(numbers) = size
  BY <1>3, <1>4
<1> QED
  BY <1>1, <1>2, <1>5, <1>6

\* Sets that have nothing in common are together as many as each for itself.
LEMMA DisjointUnion ==
  ASSUME NEW S, NEW T, IsFiniteSet(S), IsFiniteSet(T), S \cap T = {}
  PROVE  IsFiniteSet(S \cup T) /\ Cardinality(S \cup T) = Cardinality(S) + Cardinality(T)
<1>1. Cardinality(S \cap T) = 0
  BY FS_EmptySet
<1>2. Cardinality(S) \in Nat /\ Cardinality(T) \in Nat
  BY FS_CardinalityType
<1>3. IsFiniteSet(S \cup T) /\ Cardinality(S \cup T) = Cardinality(S) + Cardinality(T) - Cardinality(S \cap T)
  BY FS_Union
<1> QED
  BY <1>1, <1>2, <1>3

\* Where the same objects live and none changes its size, the bytes stay.
LEMMA BytesStay ==
  ASSUME BytesAccounted, bytes' = bytes,
         {q \in table' : record'[q].alive} = {q \in table : record[q].alive},
         \A q \in table : record[q].alive => record'[q].size = record[q].size
  PROVE  BytesAccounted'
<1> DEFINE live == {q \in table : record[q].alive}
<1>1. \A q \in live : record'[q].size = record[q].size
  OBVIOUS
<1>2. {{q} \X (1 .. record'[q].size) : q \in live} = {{q} \X (1 .. record[q].size) : q \in live}
  BY <1>1
<1>3. LiveBytes' = LiveBytes
  BY <1>2 DEF LiveBytes
<1> QED
  BY <1>3 DEF BytesAccounted

\* Where one object more lives, its bytes are added.
LEMMA BytesGrow ==
  ASSUME BytesAccounted, NEW r, r \notin table, NEW size \in Nat, bytes' = bytes + size,
         {q \in table' : record'[q].alive} = {q \in table : record[q].alive} \cup {r},
         \A q \in table : record'[q] = record[q],
         record'[r].size = size
  PROVE  BytesAccounted'
<1> DEFINE live  == {q \in table : record[q].alive}
           added == {r} \X (1 .. size)
<1>1. LiveBytes = UNION {{q} \X (1 .. record[q].size) : q \in live}
  BY DEF LiveBytes
<1>2. LiveBytes' = UNION {{q} \X (1 .. record'[q].size) : q \in live \cup {r}}
  BY DEF LiveBytes
<1>3. \A q \in live : record'[q].size = record[q].size
  OBVIOUS
<1>4. LiveBytes' = LiveBytes \cup added
  BY <1>1, <1>2, <1>3
<1>5. LiveBytes \cap added = {}
  <2>1. \A p \in LiveBytes : p[1] \in table
    BY <1>1
  <2>2. \A p \in added : p[1] = r
    OBVIOUS
  <2> QED
    BY <2>1, <2>2
<1>6. IsFiniteSet(added) /\ Cardinality(added) = size
  BY ObjectBytes
<1> HIDE DEF added
<1>7. IsFiniteSet(LiveBytes \cup added)
      /\ Cardinality(LiveBytes \cup added) = Cardinality(LiveBytes) + Cardinality(added)
  BY <1>5, <1>6, DisjointUnion DEF BytesAccounted
<1> QED
  BY <1>4, <1>6, <1>7 DEF BytesAccounted

\* Where one object dies, its bytes are taken away.
LEMMA BytesShrink ==
  ASSUME BytesAccounted, NEW r \in table, record[r].alive, record[r].size \in Nat,
         table' = table, bytes' = bytes - record[r].size,
         \A q \in table : /\ record'[q].size = record[q].size
                         /\ record'[q].alive = IF q = r THEN FALSE ELSE record[q].alive
  PROVE  BytesAccounted'
<1> DEFINE live == {q \in table : record[q].alive}
           gone == {r} \X (1 .. record[r].size)
<1>1. LiveBytes = UNION {{q} \X (1 .. record[q].size) : q \in live}
  BY DEF LiveBytes
<1>2. LiveBytes' = UNION {{q} \X (1 .. record[q].size) : q \in live \ {r}}
  <2>1. {q \in table' : record'[q].alive} = live \ {r}
    OBVIOUS
  <2>2. \A q \in live \ {r} : record'[q].size = record[q].size
    OBVIOUS
  <2> HIDE DEF live
  <2>3. {{q} \X (1 .. record'[q].size) : q \in live \ {r}}
          = {{q} \X (1 .. record[q].size) : q \in live \ {r}}
    BY <2>2
  <2> QED
    BY <2>1, <2>3 DEF LiveBytes, live
<1>3. gone \subseteq LiveBytes
  BY <1>1
<1>4. LiveBytes' = LiveBytes \ gone
  BY <1>1, <1>2
<1>5. IsFiniteSet(gone) /\ Cardinality(gone) = record[r].size
  BY ObjectBytes
<1> HIDE DEF gone
<1>6. LiveBytes \cap gone = gone
  BY <1>3
<1>7. IsFiniteSet(LiveBytes \ gone)
      /\ Cardinality(LiveBytes \ gone) = Cardinality(LiveBytes) - Cardinality(LiveBytes \cap gone)
  BY FS_Difference DEF BytesAccounted
<1> QED
  BY <1>4, <1>5, <1>6, <1>7 DEF BytesAccounted

-----------------------------------------------------------------------------
(* Steps. *)

LEMMA InitIndInv == Init => IndInv
<1> SUFFICES ASSUME Init PROVE IndInv
  OBVIOUS
<1>1. TypeOK
  BY ParameterAssumption DEF Init, TypeOK, Allocation, Blank, Errors
<1>2. IsFiniteSet(table) /\ DeadAccounted
  <2>1. table = {} /\ {r \in table : ~record[r].alive} = {}
    BY DEF Init
  <2> QED
    BY <2>1, FS_EmptySet DEF Init, DeadAccounted
<1>3. Separated /\ CachesKnown /\ RecordsOwned
  BY DEF Init, Separated, CachesKnown, RecordsOwned, Blank
<1>4. BytesAccounted
  <2>1. LiveBytes = {}
    BY DEF Init, LiveBytes
  <2> QED
    BY <2>1, FS_EmptySet DEF Init, BytesAccounted
<1> QED
  BY <1>1, <1>2, <1>3, <1>4 DEF IndInv

\* A lookup leaves caches that point into the table.
LEMMA FindCachesKnown ==
  ASSUME IndInv, NEW a \in Nat, FindCaches(a), table' = table
  PROVE  /\ recent' \in Records \cup {NULL}
         /\ cache' \in [0 .. Slots - 1 -> Records \cup {NULL}]
         /\ CachesKnown'
<1> USE DEF IndInv
<1>1. Find(a) \in table \cup {NULL}
  BY FindInTable
<1>2. Slot(a) \in 0 .. Slots - 1
  BY SlotInRange
<1>3. table \subseteq Records
  BY DEF TypeOK
<1>4. CASE Find(a) = NULL
  BY <1>4 DEF FindCaches, lookupState, TypeOK, CachesKnown
<1>5. CASE Find(a) # NULL
  <2>1. recent' = Find(a) /\ (cache' = cache \/ cache' = [cache EXCEPT ![Slot(a)] = Find(a)])
    BY <1>5 DEF FindCaches
  <2> QED
    BY <1>1, <1>2, <1>3, <1>5, <2>1 DEF TypeOK, CachesKnown
<1> QED
  BY <1>4, <1>5

\* Steps that touch neither the records nor the table preserve the invariant
\* with the caches.
LEMMA TableUntouched ==
  ASSUME IndInv, UNCHANGED <<record, table, spares, bytes, dead, capacity>>,
         error' \in Errors, nextAddress' = nextAddress,
         recent' \in Records \cup {NULL},
         cache' \in [0 .. Slots - 1 -> Records \cup {NULL}],
         CachesKnown'
  PROVE  IndInv'
<1>1. BytesAccounted'
  BY BytesStay DEF IndInv
<1> QED
  BY <1>1 DEF IndInv, TypeOK, Separated, RecordsOwned, DeadAccounted

\* Ending the life of a live record of the table.
LEMMA EndLifetimeIndInv ==
  ASSUME IndInv, NEW r \in table, record[r].alive, EndLifetime(r),
         UNCHANGED <<table, spares, nextAddress, capacity>>,
         recent' \in Records \cup {NULL},
         cache' \in [0 .. Slots - 1 -> Records \cup {NULL}],
         CachesKnown'
  PROVE  IndInv'
<1> DEFINE deadOnes == {q \in table : ~record[q].alive}
<1> USE DEF IndInv
<1>1. r \in Records /\ record \in [Records -> Allocation] /\ record[r] \in Allocation
  BY DEF TypeOK
<1>2. record' = [record EXCEPT ![r].alive = FALSE]
  BY DEF EndLifetime
<1>3. \A q \in Records : /\ record'[q].address = record[q].address
                         /\ record'[q].size = record[q].size
                         /\ record'[q].alive = IF q = r THEN FALSE ELSE record[q].alive
  BY <1>1, <1>2 DEF Allocation
<1>4. TypeOK'
  <2>1. record' \in [Records -> Allocation]
    BY <1>1, <1>2 DEF Allocation
  <2>2. record[r].size \in Int /\ bytes \in Int /\ dead \in Int
    BY <1>1 DEF TypeOK, Allocation
  <2>3. bytes' = bytes - record[r].size /\ dead' = dead + 1 /\ error' = "none"
    BY DEF EndLifetime
  <2>4. bytes' \in Int /\ dead' \in Int /\ bytes' <= ByteLimit
    <3>1. record[r].size >= 0 /\ bytes <= ByteLimit /\ ByteLimit \in Int
      BY <1>1, ParameterAssumption DEF TypeOK, Allocation
    <3> QED
      BY <2>2, <2>3, <3>1
  <2>5. error' \in Errors
    BY <2>3 DEF Errors
  <2> QED
    BY <2>1, <2>4, <2>5 DEF TypeOK
<1>5. Separated' /\ RecordsOwned'
  BY <1>3 DEF Separated, RecordsOwned, TypeOK
<1>6. DeadAccounted'
  <2>1. {q \in table : ~record'[q].alive} = deadOnes \cup {r}
    BY <1>3 DEF TypeOK
  <2>2. IsFiniteSet(deadOnes)
    BY FS_Subset
  <2>3. Cardinality(deadOnes \cup {r}) = Cardinality(deadOnes) + 1
    BY <2>2, FS_AddElement
  <2> QED
    BY <2>1, <2>3 DEF EndLifetime, DeadAccounted
<1>7. BytesAccounted'
  <2>1. \A q \in table : /\ record'[q].size = record[q].size
                        /\ record'[q].alive = IF q = r THEN FALSE ELSE record[q].alive
    BY <1>3 DEF TypeOK
  <2>2. record[r].size \in Nat /\ bytes' = bytes - record[r].size
    BY <1>1 DEF Allocation, EndLifetime
  <2> QED
    BY <2>1, <2>2, BytesShrink
<1> QED
  BY <1>4, <1>5, <1>6, <1>7

\* free and realloc of an address keep the invariant, whichever record answers or none.
LEMMA ReleaseIndInv ==
  ASSUME IndInv, NEW a \in Addresses, NEW heapOnly \in BOOLEAN, Release(a, heapOnly)
  PROVE  IndInv'
<1>1. a \in Nat
  BY AddressAssumption
<1>2. CASE a = 0
  <2>1. UNCHANGED <<record, bytes, dead, cache, recent>> /\ error' = "none"
    BY <1>2 DEF Release, lookupState
  <2>2. UNCHANGED <<table, spares, nextAddress, capacity>>
    BY DEF Release
  <2>3. recent' \in Records \cup {NULL} /\ cache' \in [0 .. Slots - 1 -> Records \cup {NULL}]
        /\ CachesKnown' /\ error' \in Errors
    BY <2>1, <2>2 DEF IndInv, TypeOK, CachesKnown, Errors
  <2> QED
    BY <2>1, <2>2, <2>3, TableUntouched
<1>3. CASE a # 0
  <2>1. FindCaches(a) /\ UNCHANGED <<table, spares, nextAddress, capacity>>
    BY <1>3 DEF Release
  <2>2. recent' \in Records \cup {NULL} /\ cache' \in [0 .. Slots - 1 -> Records \cup {NULL}]
        /\ CachesKnown'
    BY <1>1, <2>1, FindCachesKnown
  <2>3. CASE ReleaseVerdict(a, heapOnly) = "none"
    <3>1. Find(a) \in table \cup {NULL}
      BY <1>1, FindInTable DEF IndInv
    <3>2. Find(a) # NULL /\ record[Find(a)].alive
      BY <2>3 DEF ReleaseVerdict
    <3>3. EndLifetime(Find(a))
      BY <1>3, <2>3 DEF Release
    <3> QED
      BY <2>1, <2>2, <3>1, <3>2, <3>3, EndLifetimeIndInv
  <2>4. CASE ReleaseVerdict(a, heapOnly) # "none"
    <3>1. UNCHANGED <<record, bytes, dead>> /\ error' = ReleaseVerdict(a, heapOnly)
      BY <1>3, <2>4 DEF Release
    <3>2. ReleaseVerdict(a, heapOnly) \in Errors
      BY DEF ReleaseVerdict, Errors
    <3> QED
      BY <2>1, <2>2, <3>1, <3>2, TableUntouched
  <2> QED
    BY <2>3, <2>4
<1> QED
  BY <1>2, <1>3

\* A read or a write changes the caches only, and these only to what a search finds.
LEMMA AccessIndInv ==
  ASSUME IndInv, NEW a \in Addresses, NEW n \in Widths, NEW write \in BOOLEAN, Access(a, n, write)
  PROVE  IndInv'
<1>1. a \in Nat /\ FindCaches(a) /\ UNCHANGED <<record, table, spares, nextAddress, bytes, dead, capacity>>
  BY AddressAssumption DEF Access
<1>2. error' \in Errors
  BY DEF Access, AccessVerdict, Errors
<1> QED
  BY <1>1, <1>2, FindCachesKnown, TableUntouched

\* The end of a scope's object keeps the invariant.
LEMMA ReleaseRecordIndInv ==
  ASSUME IndInv, NEW r \in Records, ReleaseRecord(r)
  PROVE  IndInv'
<1>1. r \in table /\ record[r].alive /\ EndLifetime(r)
      /\ UNCHANGED <<table, spares, nextAddress, capacity, recent, cache>>
  BY DEF ReleaseRecord
<1>2. recent' \in Records \cup {NULL} /\ cache' \in [0 .. Slots - 1 -> Records \cup {NULL}]
      /\ CachesKnown'
  BY <1>1 DEF IndInv, TypeOK, CachesKnown
<1> QED
  BY <1>1, <1>2, EndLifetimeIndInv

\* Marking an object read-only moves nothing.
LEMMA SetReadonlyIndInv ==
  ASSUME IndInv, NEW r \in Records, NEW readonly \in BOOLEAN, SetReadonly(r, readonly)
  PROVE  IndInv'
<1> USE DEF IndInv
<1>1. record \in [Records -> Allocation] /\ record' = [record EXCEPT ![r].readonly = readonly]
      /\ UNCHANGED <<table, spares, cache, recent, nextAddress, bytes, dead, capacity, error>>
  BY DEF SetReadonly, TypeOK
<1>2. record' \in [Records -> Allocation]
  BY <1>1 DEF Allocation
<1>3. \A q \in Records : /\ record'[q].address = record[q].address
                         /\ record'[q].size = record[q].size
                         /\ record'[q].alive = record[q].alive
  BY <1>1 DEF Allocation
<1>4. TypeOK' /\ CachesKnown' /\ IsFiniteSet(table)'
  BY <1>1, <1>2 DEF TypeOK, CachesKnown
<1>5. Separated' /\ RecordsOwned'
  BY <1>1, <1>3 DEF Separated, RecordsOwned, TypeOK
<1>6. {q \in table : ~record'[q].alive} = {q \in table : ~record[q].alive}
  BY <1>3 DEF TypeOK
<1>7. DeadAccounted'
  BY <1>1, <1>6 DEF DeadAccounted
<1>8. BytesAccounted'
  <2>1. {q \in table' : record'[q].alive} = {q \in table : record[q].alive}
        /\ \A q \in table : record'[q].size = record[q].size
    BY <1>1, <1>3 DEF TypeOK
  <2> QED
    BY <1>1, <2>1, BytesStay
<1> QED
  BY <1>4, <1>5, <1>7, <1>8

\* What forgetting takes away: dead records of the table, and the count follows.
LEMMA ForgettingCounts ==
  ASSUME IndInv
  PROVE  /\ Forgotten \subseteq {r \in table : ~record[r].alive}
         /\ KeptDead \in Int
         /\ KeptDead = Cardinality({r \in table : ~record[r].alive} \ Forgotten)
<1> DEFINE deadOnes == {r \in table : ~record[r].alive}
<1>1. Forgotten \subseteq deadOnes
  BY DEF Forgotten, OldDead
<1>2. IsFiniteSet(deadOnes) /\ dead = Cardinality(deadOnes)
  BY FS_Subset DEF IndInv, DeadAccounted
<1>3. deadOnes \cap Forgotten = Forgotten
  BY <1>1
<1> HIDE DEF deadOnes
<1>4. Cardinality(deadOnes \ Forgotten) = dead - Cardinality(Forgotten)
  BY <1>2, <1>3, FS_Difference
<1>5. Cardinality(deadOnes \ Forgotten) \in Nat
  BY <1>2, FS_Difference, FS_CardinalityType
<1> QED
  BY <1>1, <1>4, <1>5 DEF KeptDead, deadOnes

\* The record an allocation fills is not in the table, and so is not live.
LEMMA AvailableIsUnused ==
  ASSUME IndInv, NEW r \in Available
  PROVE  r \in Records \ table /\ ~record[r].alive
BY DEF IndInv, TypeOK, RecordsOwned, Available

\* The next object lies above every object there is.
LEMMA BaseIsFresh ==
  ASSUME IndInv
  PROVE  /\ Base \in Nat /\ Base > 0 /\ Base >= nextAddress
         /\ \A q \in table : record[q].address + record[q].size + 16 <= Base
<1>1. \A q \in table : record[q].address \in Nat /\ record[q].size \in Nat
  BY DEF IndInv, TypeOK, Allocation
<1> QED
  BY <1>1, ParameterAssumption DEF IndInv, TypeOK, Separated, Base

\* What the two failures after new_record have in common.
LEMMA RecycleIndInv ==
  ASSUME IndInv, NEW r \in Available, NEW gone,
         gone \subseteq {q \in table : ~record[q].alive},
         Recycle(r, gone), table' = table \ gone,
         dead' \in Int, dead' = Cardinality({q \in table : ~record[q].alive} \ gone),
         recent' \in table' \cup {NULL},
         cache' \in [0 .. Slots - 1 -> table' \cup {NULL}]
  PROVE  IndInv'
<1> USE DEF IndInv
<1>1. r \in Records \ table /\ ~record[r].alive
  BY AvailableIsUnused
<1>2. record \in [Records -> Allocation]
      /\ record' = [record EXCEPT ![r].address = Base, ![r].readonly = FALSE]
  BY DEF Recycle, TypeOK
<1>3. \A q \in Records : record'[q].alive = record[q].alive
  BY <1>1, <1>2 DEF Allocation
<1>4. \A q \in table : record'[q] = record[q]
  BY <1>1, <1>2 DEF TypeOK
<1>5. table' \subseteq table /\ table \subseteq Records /\ gone \subseteq Records
  BY DEF TypeOK
<1>6. TypeOK'
  <2>1. record' \in [Records -> Allocation]
    BY <1>1, <1>2, BaseIsFresh DEF Allocation
  <2>2. spares' \subseteq Records
    BY <1>1, <1>5 DEF Recycle, TypeOK
  <2>3. nextAddress' \in Nat /\ bytes' \in Int /\ bytes' <= ByteLimit /\ capacity' \in Nat /\ error' \in Errors
    BY BaseIsFresh DEF Recycle, TypeOK, Errors
  <2>4. recent' \in Records \cup {NULL} /\ cache' \in [0 .. Slots - 1 -> Records \cup {NULL}]
    BY <1>5
  <2> QED
    BY <1>5, <2>1, <2>2, <2>3, <2>4 DEF TypeOK
<1>7. IsFiniteSet(table')
  BY <1>5, FS_Subset
<1>8. Separated'
  <2>1. \A q \in table : record[q].address + record[q].size + 16 <= Base
    BY BaseIsFresh
  <2>2. nextAddress' = Base
    BY DEF Recycle
  <2> QED
    BY <1>4, <1>5, <2>1, <2>2 DEF Separated
<1>9. CachesKnown'
  BY DEF CachesKnown
<1>10. RecordsOwned'
  <2>1. spares' = (spares \cup gone) \cup {r}
    BY DEF Recycle
  <2> QED
    BY <1>1, <1>3, <2>1 DEF RecordsOwned
<1>11. DeadAccounted'
  <2>1. {q \in table' : ~record'[q].alive} = {q \in table : ~record[q].alive} \ gone
    BY <1>4
  <2> QED
    BY <2>1 DEF DeadAccounted
<1>12. BytesAccounted'
  <2>1. {q \in table' : record'[q].alive} = {q \in table : record[q].alive}
        /\ \A q \in table : record'[q].size = record[q].size
    BY <1>4
  <2>2. bytes' = bytes
    BY DEF Recycle
  <2> QED
    BY <2>1, <2>2, BytesStay
<1> QED
  BY <1>6, <1>7, <1>8, <1>9, <1>10, <1>11, <1>12

\* The caches that survive forgetting point into what is left of the table.
LEMMA KeptCachesKnown ==
  ASSUME IndInv
  PROVE  /\ KeptRecent \in (table \ Forgotten) \cup {NULL}
         /\ KeptCache \in [0 .. Slots - 1 -> (table \ Forgotten) \cup {NULL}]
<1>1. CASE MustForget
  BY <1>1 DEF KeptRecent, KeptCache
<1>2. CASE ~MustForget
  <2>1. Forgotten = {} /\ KeptRecent = recent /\ KeptCache = cache
    BY <1>2 DEF Forgotten, KeptRecent, KeptCache
  <2>2. cache \in [0 .. Slots - 1 -> Records \cup {NULL}] /\ CachesKnown
    BY DEF IndInv, TypeOK
  <2> QED
    BY <2>1, <2>2 DEF CachesKnown
<1> QED
  BY <1>1, <1>2

\* A refusal for want of bytes puts its record back among the spares.
LEMMA RefuseNoBytesIndInv ==
  ASSUME IndInv, NEW size \in Nat, NEW r \in Records, RefuseNoBytes(size, r)
  PROVE  IndInv'
<1>1. r \in Available /\ Recycle(r, {}) /\ UNCHANGED <<table, cache, recent, dead>>
  BY DEF RefuseNoBytes
<1>2. recent \in table \cup {NULL} /\ cache \in [0 .. Slots - 1 -> table \cup {NULL}]
  BY DEF IndInv, TypeOK, CachesKnown
<1>3. dead \in Int /\ dead = Cardinality({q \in table : ~record[q].alive} \ {})
  BY DEF IndInv, TypeOK, DeadAccounted
<1> QED
  BY <1>1, <1>2, <1>3, RecycleIndInv

\* A refusal for want of a longer table leaves what was forgotten before it forgotten.
LEMMA RefuseNoTableIndInv ==
  ASSUME IndInv, NEW size \in Nat, NEW r \in Records, RefuseNoTable(size, r)
  PROVE  IndInv'
<1>1. r \in Available /\ Recycle(r, Forgotten) /\ table' = table \ Forgotten
      /\ dead' = KeptDead /\ cache' = KeptCache /\ recent' = KeptRecent
  BY DEF RefuseNoTable
<1> QED
  BY <1>1, ForgettingCounts, KeptCachesKnown, RecycleIndInv

\* An allocation, with the forgetting before it, keeps the invariant.
LEMMA AllocateIndInv ==
  ASSUME IndInv, NEW size \in Nat, NEW heap \in BOOLEAN, NEW r \in Records, Allocate(size, heap, r)
  PROVE  IndInv'
<1> DEFINE new == [address |-> Base, size |-> size, alive |-> TRUE, heap |-> heap, readonly |-> FALSE]
<1> USE DEF IndInv
<1>1. r \in Records \ table /\ ~record[r].alive
  BY AvailableIsUnused DEF Allocate
<1>2. record \in [Records -> Allocation] /\ record' = [record EXCEPT ![r] = new]
  BY DEF Allocate, TypeOK
<1>3. table' = (table \ Forgotten) \cup {r} /\ spares' = (spares \ {r}) \cup Forgotten
  BY DEF Allocate
<1>4. Forgotten \subseteq {q \in table : ~record[q].alive}
  BY ForgettingCounts
<1>5. record'[r] = new /\ \A q \in Records \ {r} : record'[q] = record[q]
  BY <1>1, <1>2
<1>6. table \subseteq Records /\ Forgotten \subseteq Records
  BY <1>4 DEF TypeOK
<1>7. nextAddress' = Base + Stride(size) /\ nextAddress' \in Nat
      /\ Base + size + 16 <= nextAddress' /\ Base \in Nat
  BY StrideGap, BaseIsFresh DEF Allocate
<1>8. recent' \in table' \cup {NULL} /\ cache' \in [0 .. Slots - 1 -> table' \cup {NULL}]
  <2>1. KeptCache \in [0 .. Slots - 1 -> (table \ Forgotten) \cup {NULL}]
    BY KeptCachesKnown
  <2>2. cache' = [KeptCache EXCEPT ![Slot(Base)] = r] /\ recent' = r
    BY DEF Allocate
  <2>3. r \in table' /\ (table \ Forgotten) \subseteq table'
    BY <1>3
  <2> HIDE DEF IndInv
  <2> QED
    BY <2>1, <2>2, <2>3
<1>9. TypeOK'
  <2>1. record' \in [Records -> Allocation]
    BY <1>1, <1>2, BaseIsFresh DEF Allocation
  <2>2. table' \subseteq Records /\ spares' \subseteq Records
    BY <1>3, <1>6 DEF TypeOK
  <2>3. bytes' \in Int /\ bytes' <= ByteLimit
    BY ParameterAssumption DEF Allocate, OverLimit, TypeOK
  <2>4. dead' \in Int
    BY ForgettingCounts DEF Allocate
  <2>5. capacity' \in Nat
    BY ParameterAssumption DEF Allocate, TypeOK
  <2>6. error' \in Errors
    BY DEF Allocate, Errors
  <2>7. recent' \in Records \cup {NULL} /\ cache' \in [0 .. Slots - 1 -> Records \cup {NULL}]
    BY <1>8, <2>2
  <2> QED
    BY <1>7, <2>1, <2>2, <2>3, <2>4, <2>5, <2>6, <2>7 DEF TypeOK
<1>10. IsFiniteSet(table')
  BY <1>3, FS_Subset, FS_AddElement
<1>11. Separated'
  <2>1. \A q \in table : record[q].address + record[q].size + 16 <= Base
    BY BaseIsFresh
  <2>2. \A q \in table : record[q].address \in Nat /\ record[q].size \in Nat
    BY DEF TypeOK, Allocation
  <2>3. \A q \in table' \ {r} : q \in table /\ record'[q] = record[q]
    BY <1>3, <1>5, <1>6
  <2>4. record'[r].address = Base /\ record'[r].size = size
    BY <1>5
  <2>5. ASSUME NEW q \in table'
        PROVE  record'[q].address + record'[q].size + 16 <= nextAddress'
    BY <1>7, <2>1, <2>2, <2>3, <2>4
  <2>6. ASSUME NEW p \in table', NEW q \in table', p # q
        PROVE  \/ record'[p].address + record'[p].size + 16 <= record'[q].address
               \/ record'[q].address + record'[q].size + 16 <= record'[p].address
    BY <2>1, <2>3, <2>4, <2>6 DEF Separated
  <2> QED
    BY <2>5, <2>6 DEF Separated
<1>12. CachesKnown'
  BY <1>8 DEF CachesKnown
<1>13. RecordsOwned'
  BY <1>1, <1>3, <1>4, <1>5, <1>6 DEF RecordsOwned
<1>14. DeadAccounted'
  <2>1. {q \in table' : ~record'[q].alive} = {q \in table : ~record[q].alive} \ Forgotten
    BY <1>1, <1>3, <1>5, <1>6
  <2> QED
    BY <2>1, ForgettingCounts DEF DeadAccounted, Allocate
<1>15. BytesAccounted'
  <2>1. {q \in table' : record'[q].alive} = {q \in table : record[q].alive} \cup {r}
    BY <1>1, <1>3, <1>4, <1>5, <1>6
  <2>2. \A q \in table : record'[q] = record[q]
    BY <1>1, <1>5, <1>6
  <2>3. record'[r].size = size /\ bytes' = bytes + size
    BY <1>5 DEF Allocate
  <2> QED
    BY <1>1, <2>1, <2>2, <2>3, BytesGrow
<1> QED
  BY <1>9, <1>10, <1>11, <1>12, <1>13, <1>14, <1>15

\* Destroying the memory empties it.
LEMMA DestroyIndInv ==
  ASSUME IndInv, Destroy
  PROVE  IndInv'
<1>1. TypeOK'
  BY ParameterAssumption DEF Destroy, TypeOK, Allocation, Blank, Errors
<1>2. IsFiniteSet(table') /\ DeadAccounted'
  <2>1. table' = {} /\ dead' = 0 /\ {r \in table' : ~record'[r].alive} = {}
    BY DEF Destroy
  <2> QED
    BY <2>1, FS_EmptySet DEF DeadAccounted
<1>3. Separated' /\ CachesKnown' /\ RecordsOwned'
  BY DEF Destroy, Separated, CachesKnown, RecordsOwned, Blank
<1>4. BytesAccounted'
  <2>1. LiveBytes' = {} /\ bytes' = 0
    BY DEF Destroy, LiveBytes
  <2> QED
    BY <2>1, FS_EmptySet DEF BytesAccounted
<1> QED
  BY <1>1, <1>2, <1>3, <1>4 DEF IndInv

\* Every step of the memory keeps the invariant.
LEMMA NextIndInv == IndInv /\ [Next]_vars => IndInv'
<1> SUFFICES ASSUME IndInv, [Next]_vars PROVE IndInv'
  OBVIOUS
<1>1. \A request \in Requests : request[1] \in Nat /\ request[2] \in BOOLEAN
  BY RequestAssumption
<1>2. ASSUME UNCHANGED <<record, table, spares, cache, recent, nextAddress, bytes, dead, capacity>>,
             error' \in Errors
      PROVE  IndInv'
  <2>1. recent' \in Records \cup {NULL} /\ cache' \in [0 .. Slots - 1 -> Records \cup {NULL}]
        /\ CachesKnown'
    BY <1>2 DEF IndInv, TypeOK, CachesKnown
  <2> QED
    BY <1>2, <2>1, TableUntouched
<1>3. ASSUME NEW request \in Requests, RefuseOverLimit(request[1]) \/ RefuseNoRecord(request[1])
      PROVE  IndInv'
  BY <1>2, <1>3 DEF RefuseOverLimit, RefuseNoRecord, Errors
<1>4. ASSUME NEW request \in Requests, NEW r \in Records, RefuseNoBytes(request[1], r)
      PROVE  IndInv'
  BY <1>1, <1>4, RefuseNoBytesIndInv
<1>5. ASSUME NEW request \in Requests, NEW r \in Records, RefuseNoTable(request[1], r)
      PROVE  IndInv'
  BY <1>1, <1>5, RefuseNoTableIndInv
<1>6. ASSUME NEW request \in Requests, NEW r \in Records, Allocate(request[1], request[2], r)
      PROVE  IndInv'
  BY <1>1, <1>6, AllocateIndInv
<1>7. ASSUME NEW a \in Addresses, NEW heapOnly \in BOOLEAN, Release(a, heapOnly)
      PROVE  IndInv'
  BY <1>7, ReleaseIndInv
<1>8. ASSUME NEW r \in Records, ReleaseRecord(r)
      PROVE  IndInv'
  BY <1>8, ReleaseRecordIndInv
<1>9. ASSUME NEW r \in Records, NEW readonly \in BOOLEAN, SetReadonly(r, readonly)
      PROVE  IndInv'
  BY <1>9, SetReadonlyIndInv
<1>10. ASSUME NEW a \in Addresses, NEW n \in Widths, NEW write \in BOOLEAN, Access(a, n, write)
       PROVE  IndInv'
  BY <1>10, AccessIndInv
<1>11. CASE Destroy
  BY <1>11, DestroyIndInv
<1>12. CASE UNCHANGED vars
  BY <1>2, <1>12 DEF vars, IndInv, TypeOK
<1> QED
  BY <1>3, <1>4, <1>5, <1>6, <1>7, <1>8, <1>9, <1>10, <1>11, <1>12 DEF Next

-----------------------------------------------------------------------------
(* The theorems. *)

\* The strengthened invariant holds in every reachable state of memory.c.
THEOREM Invariance == Spec => []IndInv
BY InitIndInv, NextIndInv, PTL DEF Spec

\* No object starts at the null address.
NullIsFree == \A r \in table : record[r].address # 0

\* What a step does to the records of the table: it keeps their places, and a new one has
\* the next.
LEMMA PlacesKept ==
  ASSUME IndInv, Next, NEW q \in table'
  PROVE  (q \in table /\ record'[q].address = record[q].address) \/ record'[q].address = Base
<1>1. record \in [Records -> Allocation] /\ table \subseteq Records
  BY DEF IndInv, TypeOK
<1>2. \A r \in Records : EndLifetime(r) /\ table' = table =>
        q \in table /\ record'[q].address = record[q].address
  BY <1>1 DEF EndLifetime, Allocation
<1>3. ASSUME NEW request \in Requests,
             \/ RefuseOverLimit(request[1]) \/ RefuseNoRecord(request[1])
             \/ \E r \in Records : RefuseNoBytes(request[1], r) \/ RefuseNoTable(request[1], r)
      PROVE  q \in table /\ record'[q].address = record[q].address
  <2>1. CASE RefuseOverLimit(request[1]) \/ RefuseNoRecord(request[1])
    <3>1. table' = table /\ record' = record
      BY <2>1 DEF RefuseOverLimit, RefuseNoRecord
    <3> QED
      BY <3>1
  <2>2. ASSUME NEW r \in Records, RefuseNoBytes(request[1], r) \/ RefuseNoTable(request[1], r)
        PROVE  q \in table /\ record'[q].address = record[q].address
    <3>1. r \in Available /\ record' = [record EXCEPT ![r].address = Base, ![r].readonly = FALSE]
      BY <2>2 DEF RefuseNoBytes, RefuseNoTable, Recycle
    <3>3. q \in table
      <4>1. table' = table \/ table' = table \ Forgotten
        BY <2>2 DEF RefuseNoBytes, RefuseNoTable
      <4> QED
        BY <4>1
    <3>2. q # r
      BY <3>1, <3>3, AvailableIsUnused
    <3> QED
      BY <1>1, <3>1, <3>2, <3>3
  <2> QED
    BY <1>3, <2>1, <2>2
<1>4. ASSUME NEW request \in Requests, NEW r \in Records, Allocate(request[1], request[2], r)
      PROVE  (q \in table /\ record'[q].address = record[q].address) \/ record'[q].address = Base
  BY <1>1, <1>4 DEF Allocate
<1>5. ASSUME NEW a \in Addresses, NEW heapOnly \in BOOLEAN, Release(a, heapOnly)
      PROVE  q \in table /\ record'[q].address = record[q].address
  <2>1. CASE a # 0 /\ ReleaseVerdict(a, heapOnly) = "none"
    <3>1. EndLifetime(Find(a)) /\ table' = table
      BY <1>5, <2>1 DEF Release
    <3>2. Find(a) \in Records
      <4>1. Find(a) # NULL
        BY <2>1 DEF ReleaseVerdict
      <4> QED
        BY <1>1, <4>1, FindInTable, AddressAssumption DEF IndInv
    <3> QED
      BY <1>2, <3>1, <3>2
  <2>2. CASE ~(a # 0 /\ ReleaseVerdict(a, heapOnly) = "none")
    BY <1>5, <2>2 DEF Release
  <2> QED
    BY <2>1, <2>2
<1>6. ASSUME NEW r \in Records, ReleaseRecord(r)
      PROVE  q \in table /\ record'[q].address = record[q].address
  BY <1>2, <1>6 DEF ReleaseRecord
<1>7. ASSUME NEW r \in Records, NEW readonly \in BOOLEAN, SetReadonly(r, readonly)
      PROVE  q \in table /\ record'[q].address = record[q].address
  BY <1>1, <1>7 DEF SetReadonly, Allocation
<1>8. ASSUME NEW a \in Addresses, NEW n \in Widths, NEW write \in BOOLEAN, Access(a, n, write)
      PROVE  q \in table /\ record'[q].address = record[q].address
  BY <1>8 DEF Access
<1>9. ~Destroy
  BY DEF Destroy
<1> QED
  BY <1>3, <1>4, <1>5, <1>6, <1>7, <1>8, <1>9 DEF Next

\* No object of the table ever starts at the null address (memory.c:89).
LEMMA NullStaysFree == Spec => []NullIsFree
<1>1. Init => NullIsFree
  BY DEF Init, NullIsFree
<1>2. IndInv /\ NullIsFree /\ [Next]_vars => NullIsFree'
  <2> SUFFICES ASSUME IndInv, NullIsFree, [Next]_vars, NEW q \in table'
               PROVE  record'[q].address # 0
    BY DEF NullIsFree
  <2>1. CASE Next
    <3>1. Base # 0
      BY BaseIsFresh
    <3> QED
      BY <2>1, <3>1, PlacesKept DEF NullIsFree
  <2>2. CASE UNCHANGED vars
    BY <2>2 DEF vars, NullIsFree
  <2> QED
    BY <2>1, <2>2
<1> QED
  BY <1>1, <1>2, Invariance, PTL DEF Spec

\* Every variable keeps its type (memory.h:14-37).
THEOREM TypeCorrect == Spec => []TypeOK
<1>1. IndInv => TypeOK
  BY DEF IndInv
<1> QED
  BY <1>1, Invariance, PTL

\* However many records are forgotten and reused, memory_find answers what a
\* search of the table would (memory.h:44-51).
THEOREM LookupCorrect == Spec => []LookupAgrees
<1>1. IndInv => LookupAgrees
  BY FindInTable, AddressAssumption DEF IndInv, LookupAgrees
<1> QED
  BY <1>1, Invariance, PTL

\* Objects never touch, not even with their one-past-the-end addresses (memory.c:113-115).
THEOREM ObjectsSeparated == Spec => []Separated
<1>1. IndInv => Separated
  BY DEF IndInv
<1> QED
  BY <1>1, Invariance, PTL

\* A record kept from any earlier moment serves as a lookup would now, whenever covers()
\* accepts it (interpreter.c:1136-1141).
THEOREM LiveRecordsFound == Spec => []LiveRecordsAreFindable
<1>1. ASSUME IndInv, NEW r \in Records, record[r].alive
      PROVE  r \in table \ spares
  BY <1>1 DEF IndInv, RecordsOwned
<1>2. ASSUME IndInv, NullIsFree,
             NEW r \in Records, NEW a \in Addresses, NEW n \in Widths, Covers(r, a, n)
      PROVE  /\ Find(a) = r
             /\ AccessVerdict(a, n, FALSE) = "none"
             /\ AccessVerdict(a, n, TRUE) = IF record[r].readonly THEN "readonly" ELSE "none"
  <2>1. r \in table /\ record[r].alive /\ Holds(r, a) /\ a \in Nat /\ n \in Nat
    BY <1>1, <1>2, AddressAssumption, WidthAssumption DEF Covers
  <2>2. Find(a) = r
    BY <1>2, <2>1, HolderIsLast, FindInTable DEF IndInv
  <2>3. r # NULL
    BY NullAssumption
  <2>4. a # 0
    <3>1. record[r].address \in Nat /\ record[r].address # 0
      BY <1>2, <2>1 DEF IndInv, TypeOK, Allocation, NullIsFree
    <3> QED
      BY <2>1, <3>1 DEF Holds
  <2>5. ~(n > record[r].size - (a - record[r].address))
    <3>1. record[r].size \in Nat /\ record[r].address \in Nat
      BY <1>2, <2>1 DEF IndInv, TypeOK, Allocation
    <3> QED
      BY <1>2, <2>1, <3>1 DEF Covers
  <2> QED
    BY <2>1, <2>2, <2>3, <2>4, <2>5 DEF AccessVerdict
<1>3. IndInv /\ NullIsFree => LiveRecordsAreFindable
  BY <1>1, <1>2 DEF LiveRecordsAreFindable
<1> QED
  BY <1>3, Invariance, NullStaysFree, PTL

\* The counts that decide when to forget and when to refuse are those of the table, through
\* every path that changes them (memory.c:30, 40, 73, 105, 170-178).
THEOREM CountsKept == Spec => []CountsExact
<1>1. IndInv => CountsExact
  BY DEF IndInv, BytesAccounted, CountsExact
<1> QED
  BY <1>1, Invariance, PTL

\* An object keeps its record, place, size and storage for as long as it lives, and no step
\* ends two lifetimes (memory.c:13-37, 71-106, 170-178).
THEOREM LiveObjectsStay == Spec => LiveObjectsAreStable
<1> DEFINE Variant(r, new) == \E alive, readonly \in BOOLEAN :
                                new = [record[r] EXCEPT !.alive = alive, !.readonly = readonly]
           Stable(r) == /\ r \in table'
                        /\ Variant(r, record'[r])
                        /\ record'[r].alive \/ \A q \in Records \ {r} : record'[q] = record[q]
<1>1. ASSUME IndInv, Next, table' # {}, NEW r \in table, record[r].alive
      PROVE  Stable(r)
  <2>1. record \in [Records -> Allocation] /\ r \in Records /\ record[r] \in Allocation
    BY <1>1 DEF IndInv, TypeOK
  <2>2. /\ Variant(r, record[r])
        /\ Variant(r, [record[r] EXCEPT !.alive = FALSE])
        /\ \A readonly \in BOOLEAN : Variant(r, [record[r] EXCEPT !.readonly = readonly])
    BY <1>1, <2>1 DEF Allocation
  <2> HIDE DEF Variant
  <2>3. r \notin Forgotten
    BY <1>1, ForgettingCounts
  <2>4. ASSUME record' = record, r \in table'
        PROVE  Stable(r)
    BY <1>1, <2>2, <2>4
  <2>5. ASSUME NEW q \in Records, q # r, \A p \in Records \ {q} : record'[p] = record[p], r \in table'
        PROVE  Stable(r)
    BY <1>1, <2>1, <2>2, <2>5
  <2>6. ASSUME NEW q \in Records, EndLifetime(q), table' = table
        PROVE  Stable(r)
    <3>1. record' = [record EXCEPT ![q].alive = FALSE]
      BY <2>6 DEF EndLifetime
    <3>2. CASE q = r
      BY <2>1, <2>2, <2>6, <3>1, <3>2
    <3>3. CASE q # r
      BY <2>1, <2>5, <2>6, <3>1, <3>3
    <3> QED
      BY <3>2, <3>3
  <2>7. ASSUME NEW request \in Requests, RefuseOverLimit(request[1]) \/ RefuseNoRecord(request[1])
        PROVE  Stable(r)
    BY <2>4, <2>7 DEF RefuseOverLimit, RefuseNoRecord
  <2>8. ASSUME NEW q \in Available, NEW gone, Recycle(q, gone), r \in table'
        PROVE  Stable(r)
    <3>1. q \in Records /\ q # r
      BY <1>1, AvailableIsUnused
    <3>2. \A p \in Records \ {q} : record'[p] = record[p]
      BY <2>1, <2>8, <3>1 DEF Recycle
    <3> QED
      BY <2>5, <2>8, <3>1, <3>2
  <2>9. ASSUME NEW request \in Requests, NEW q \in Records,
               RefuseNoBytes(request[1], q) \/ RefuseNoTable(request[1], q)
        PROVE  Stable(r)
    BY <1>1, <2>3, <2>8, <2>9 DEF RefuseNoBytes, RefuseNoTable
  <2>10. ASSUME NEW request \in Requests, NEW q \in Records, Allocate(request[1], request[2], q)
         PROVE  Stable(r)
    <3>1. q # r /\ r \in table'
      BY <1>1, <2>3, <2>10, AvailableIsUnused DEF Allocate
    <3>2. \A p \in Records \ {q} : record'[p] = record[p]
      BY <2>1, <2>10 DEF Allocate
    <3> QED
      BY <2>5, <3>1, <3>2
  <2>11. ASSUME NEW a \in Addresses, NEW heapOnly \in BOOLEAN, Release(a, heapOnly)
         PROVE  Stable(r)
    <3>1. table' = table
      BY <2>11 DEF Release
    <3>2. CASE a # 0 /\ ReleaseVerdict(a, heapOnly) = "none"
      <4>1. EndLifetime(Find(a)) /\ Find(a) # NULL
        BY <2>11, <3>2 DEF Release, ReleaseVerdict
      <4>2. Find(a) \in Records
        BY <1>1, <4>1, FindInTable, AddressAssumption DEF IndInv, TypeOK
      <4> QED
        BY <2>6, <3>1, <4>1, <4>2
    <3>3. CASE ~(a # 0 /\ ReleaseVerdict(a, heapOnly) = "none")
      BY <2>4, <2>11, <3>1, <3>3 DEF Release
    <3> QED
      BY <3>2, <3>3
  <2>12. ASSUME NEW q \in Records, ReleaseRecord(q)
         PROVE  Stable(r)
    BY <2>6, <2>12 DEF ReleaseRecord
  <2>13. ASSUME NEW q \in Records, NEW readonly \in BOOLEAN, SetReadonly(q, readonly)
         PROVE  Stable(r)
    <3>1. table' = table /\ record' = [record EXCEPT ![q].readonly = readonly]
      BY <2>13 DEF SetReadonly
    <3>2. CASE q = r
      BY <1>1, <2>1, <2>2, <2>13, <3>1, <3>2 DEF Allocation
    <3>3. CASE q # r
      BY <2>1, <2>5, <2>13, <3>1, <3>3
    <3> QED
      BY <3>2, <3>3
  <2>14. ASSUME NEW a \in Addresses, NEW n \in Widths, NEW write \in BOOLEAN, Access(a, n, write)
         PROVE  Stable(r)
    BY <2>4, <2>14 DEF Access
  <2>15. ~Destroy
    BY <1>1 DEF Destroy
  <2> QED
    BY <1>1, <2>7, <2>9, <2>10, <2>11, <2>12, <2>13, <2>14, <2>15 DEF Next
<1> HIDE DEF Stable
<1>2. IndInv /\ [Next]_vars =>
        [table' # {} => \A r \in table : record[r].alive => Stable(r)]_vars
  BY <1>1
<1> USE DEF Stable
<1> QED
  BY <1>2, Invariance, PTL DEF Spec, LiveObjectsAreStable

-----------------------------------------------------------------------------
(* ManagedMemory implements ObjectStore. *)

\* A program may form any address below the bound of the model.
AddressesReach == 0 .. AddressBound \subseteq Addresses

\* What a program can tell of the object in a record.
Described(r) == [size |-> r.size, alive |-> r.alive, heap |-> r.heap, readonly |-> r.readonly]

\* objs is what the records rec of the table tab look like to a program.
Mirrors(objs, rec, tab) ==
  /\ objs = [base \in DOMAIN objs |-> objs[base]]
  /\ DOMAIN objs = {rec[r].address : r \in tab}
  /\ \A r \in tab : objs[rec[r].address] = Described(rec[r])

\* No two records of a table start at the same address, so an address names a record.
LEMMA ViewMirrors ==
  ASSUME NEW rec, NEW tab, \A r, q \in tab : rec[r].address = rec[q].address => r = q,
         NEW objs,
         objs = [base \in {rec[r].address : r \in tab} |->
                   Described(rec[CHOOSE r \in tab : rec[r].address = base])]
  PROVE  Mirrors(objs, rec, tab)
<1>1. \A r \in tab : (CHOOSE q \in tab : rec[q].address = rec[r].address) = r
  OBVIOUS
<1>2. DOMAIN objs = {rec[r].address : r \in tab} /\ objs = [base \in DOMAIN objs |-> objs[base]]
  OBVIOUS
<1>3. \A r \in tab : objs[rec[r].address] = Described(rec[r])
  BY <1>1
<1> QED
  BY <1>2, <1>3 DEF Mirrors

\* The objects mirror the table, before a step and after it.
LEMMA ObjectsMirror ==
  ASSUME IndInv, IndInv'
  PROVE  Mirrors(Objects, record, table) /\ Mirrors(Objects', record', table')
<1>1. \A r, q \in table : record[r].address = record[q].address => r = q
  <2>1. \A r \in table : record[r].address \in Nat /\ record[r].size \in Nat
    BY DEF IndInv, TypeOK, Allocation
  <2> QED
    BY <2>1 DEF IndInv, Separated
<1>2. \A r, q \in table' : record'[r].address = record'[q].address => r = q
  <2>1. \A r \in table' : record'[r].address \in Nat /\ record'[r].size \in Nat
    BY DEF IndInv, TypeOK, Allocation
  <2> QED
    BY <2>1 DEF IndInv, Separated
<1>3. Objects = [base \in {record[r].address : r \in table} |->
                   Described(record[CHOOSE r \in table : record[r].address = base])]
  BY DEF Objects, RecordAt, Described
<1>4. Objects' = [base \in {record'[r].address : r \in table'} |->
                   Described(record'[CHOOSE r \in table' : record'[r].address = base])]
  BY DEF Objects, RecordAt, Described
<1>5. Mirrors(Objects, record, table)
  BY <1>1, <1>3, ViewMirrors
<1>6. Mirrors(Objects', record', table')
  BY <1>2, <1>4, ViewMirrors
<1> QED
  BY <1>5, <1>6

\* Steps that leave the table and its records alone leave the objects alone.
LEMMA ObjectsStay ==
  ASSUME IndInv, IndInv', table' = table, \A r \in table : record'[r] = record[r]
  PROVE  Objects' = Objects
<1>1. PICK old : old = Objects /\ Mirrors(old, record, table)
  BY ObjectsMirror
<1>2. PICK new : new = Objects' /\ Mirrors(new, record', table')
  BY ObjectsMirror
<1>3. DOMAIN new = DOMAIN old
  BY <1>1, <1>2 DEF Mirrors
<1>4. \A base \in DOMAIN old : new[base] = old[base]
  BY <1>1, <1>2 DEF Mirrors
<1>5. new = old
  BY <1>1, <1>2, <1>3, <1>4 DEF Mirrors
<1> QED
  BY <1>1, <1>2, <1>5

\* The record a lookup finds is the object that holds the address.
LEMMA FoundHolds ==
  ASSUME IndInv, NEW a \in Nat, NEW objs, Mirrors(objs, record, table)
  PROVE  /\ Find(a) \in table => /\ record[Find(a)].address \in DOMAIN objs
                                 /\ record[Find(a)].address <= a
                                 /\ a <= record[Find(a)].address + objs[record[Find(a)].address].size
         /\ Find(a) \notin table => \A base \in DOMAIN objs : ~(base <= a /\ a <= base + objs[base].size)
<1>1. TypeOK /\ Separated /\ CachesKnown /\ \A r \in table : record[r].address \in Nat /\ record[r].size \in Nat
  BY DEF IndInv, TypeOK, Allocation
<1>2. ASSUME Find(a) \in table
      PROVE  /\ record[Find(a)].address \in DOMAIN objs /\ record[Find(a)].address <= a
             /\ a <= record[Find(a)].address + objs[record[Find(a)].address].size
  <2>1. Holds(Find(a), a)
    BY <1>1, <1>2, FindInTable, NullAssumption DEF TypeOK
  <2>2. record[Find(a)].address \in DOMAIN objs /\ objs[record[Find(a)].address].size = record[Find(a)].size
    <3>1. objs[record[Find(a)].address] = Described(record[Find(a)])
      BY <1>2 DEF Mirrors
    <3>2. record[Find(a)].address \in DOMAIN objs
      BY <1>2 DEF Mirrors
    <3> QED
      BY <3>1, <3>2 DEF Described
  <2> QED
    BY <1>1, <1>2, <2>1, <2>2 DEF Holds
<1>3. ASSUME NEW base \in DOMAIN objs, base <= a, a <= base + objs[base].size
      PROVE  Find(a) \in table
  <2>1. PICK r \in table : base = record[r].address
    BY DEF Mirrors
  <2>2. objs[base].size = record[r].size
    <3>1. objs[base] = Described(record[r])
      BY <2>1 DEF Mirrors
    <3> QED
      BY <3>1 DEF Described
  <2>3. Holds(r, a)
    BY <1>1, <1>3, <2>1, <2>2 DEF Holds
  <2>4. SearchTable(a) = r /\ Find(a) = SearchTable(a)
    BY <1>1, <2>3, HolderIsLast, FindInTable
  <2> QED
    BY <2>4
<1> QED
  BY <1>2, <1>3

\* A read or a write gets the verdict its object determines.
LEMMA AccessAsStore ==
  ASSUME IndInv, IndInv', NEW a \in Addresses, NEW n \in Widths, NEW write \in BOOLEAN, Access(a, n, write)
  PROVE  Store!Access(a, n, write)
<1>1. a \in Nat /\ n \in Nat /\ UNCHANGED <<record, table, nextAddress>> /\ error' = AccessVerdict(a, n, write)
  BY AddressAssumption, WidthAssumption DEF Access
<1>2. Objects' = Objects
  BY <1>1, ObjectsStay
<1>3. PICK objs : objs = Objects /\ Mirrors(objs, record, table)
  BY ObjectsMirror
<1>4. error' \in Store!AccessVerdict(a, n, write)
  <2> DEFINE holders == {base \in DOMAIN objs : base <= a /\ a <= base + objs[base].size}
             verdict(base) == IF ~objs[base].alive THEN "ended"
                              ELSE IF a + n > base + objs[base].size THEN "bounds"
                              ELSE IF write /\ objs[base].readonly THEN "readonly"
                              ELSE "none"
  <2>1. Store!AccessVerdict(a, n, write) =
          IF a = 0 THEN {"null"} ELSE IF holders = {} THEN {"invalid"} ELSE {verdict(base) : base \in holders}
    BY <1>3 DEF Store!AccessVerdict, Store!Holders
  <2>2. Find(a) \in table \cup {NULL} /\ NULL \notin table
    BY <1>1, FindInTable, NullAssumption DEF IndInv, TypeOK
  <2>3. CASE a = 0
    BY <1>1, <2>1, <2>3 DEF AccessVerdict
  <2>4. CASE a # 0 /\ Find(a) = NULL
    <3>1. holders = {}
      BY <1>1, <1>3, <2>2, <2>4, FoundHolds
    <3>2. AccessVerdict(a, n, write) = "invalid"
      BY <2>4 DEF AccessVerdict
    <3> QED
      BY <1>1, <2>1, <2>4, <3>1, <3>2
  <2>5. CASE a # 0 /\ Find(a) \in table
    <3> DEFINE base == record[Find(a)].address
    <3>1. base \in holders
      BY <1>1, <1>3, <2>5, FoundHolds
    <3>2. objs[base] = Described(record[Find(a)])
      BY <1>3, <2>5 DEF Mirrors
    <3>3. record[Find(a)].size \in Nat /\ base \in Nat
      BY <2>5 DEF IndInv, TypeOK, Allocation
    <3>4. /\ objs[base].alive = record[Find(a)].alive /\ objs[base].size = record[Find(a)].size
          /\ objs[base].readonly = record[Find(a)].readonly
      BY <3>2 DEF Described
    <3>5. n > record[Find(a)].size - (a - base) <=> a + n > base + objs[base].size
      BY <1>1, <3>3, <3>4
    <3>6. AccessVerdict(a, n, write) = verdict(base)
      BY <2>2, <2>5, <3>4, <3>5 DEF AccessVerdict
    <3> QED
      BY <1>1, <2>1, <2>5, <3>1, <3>6
  <2> QED
    BY <2>2, <2>3, <2>4, <2>5
<1> QED
  BY <1>1, <1>2, <1>4 DEF Store!Access

\* The end of an object's life is a release of the address it starts at.
LEMMA ReleaseAsStore ==
  ASSUME IndInv, IndInv', NullIsFree, NEW r \in table, EndLifetime(r), table' = table,
         nextAddress' = nextAddress, record[r].alive, NEW heapOnly \in BOOLEAN, heapOnly => record[r].heap
  PROVE  Store!Release(record[r].address, heapOnly) /\ record[r].address \in DOMAIN Objects
<1>1. PICK old : old = Objects /\ Mirrors(old, record, table)
  BY ObjectsMirror
<1>2. PICK new : new = Objects' /\ Mirrors(new, record', table')
  BY ObjectsMirror
<1>3. record \in [Records -> Allocation] /\ r \in Records /\ record' = [record EXCEPT ![r].alive = FALSE]
      /\ table \subseteq Records
  BY DEF IndInv, TypeOK, EndLifetime
<1>4. PICK a : a = record[r].address
  OBVIOUS
<1>5. \A q \in table : /\ record'[q].address = record[q].address
                       /\ q # r => record'[q] = record[q]
                       /\ record[q].address = a => q = r
  <2>1. \A q \in table : record'[q].address = record[q].address /\ (q # r => record'[q] = record[q])
    BY <1>3 DEF Allocation
  <2>2. \A q \in table : record[q].address \in Nat /\ record[q].size \in Nat
    BY <1>3 DEF Allocation
  <2>3. \A q \in table : record[q].address = a => q = r
    BY <1>4, <2>2 DEF IndInv, Separated
  <2> QED
    BY <2>1, <2>3
<1>6. DOMAIN old = {record[q].address : q \in table} /\ DOMAIN new = DOMAIN old
  BY <1>1, <1>2, <1>5 DEF Mirrors
<1>7. old[a] = Described(record[r]) /\ new[a] = Described(record'[r]) /\ a \in DOMAIN old
  BY <1>1, <1>2, <1>4, <1>5, <1>6 DEF Mirrors
<1>8. Described(record'[r]) = [Described(record[r]) EXCEPT !.alive = FALSE]
  <2>1. record[r] \in Allocation /\ record'[r] = [record[r] EXCEPT !.alive = FALSE]
    BY <1>3
  <2>2. /\ record'[r].size = record[r].size /\ record'[r].alive = FALSE
        /\ record'[r].heap = record[r].heap /\ record'[r].readonly = record[r].readonly
    BY <2>1 DEF Allocation
  <2>3. Described(record'[r]) = [size |-> record[r].size, alive |-> FALSE, heap |-> record[r].heap,
                                 readonly |-> record[r].readonly]
    BY <2>2 DEF Described
  <2>4. [Described(record[r]) EXCEPT !.alive = FALSE] =
          [size |-> record[r].size, alive |-> FALSE, heap |-> record[r].heap, readonly |-> record[r].readonly]
    <3> DEFINE Object == [size : Nat, alive : BOOLEAN, heap : BOOLEAN, readonly : BOOLEAN]
    <3>1. Described(record[r]) \in Object
      BY <2>1 DEF Allocation, Described
    <3>2. PICK before \in Object : before = Described(record[r])
      BY <3>1
    <3>3. PICK after : after = [before EXCEPT !.alive = FALSE]
      OBVIOUS
    <3>4. /\ after \in Object /\ after.size = before.size /\ after.alive = FALSE
          /\ after.heap = before.heap /\ after.readonly = before.readonly
      BY <3>3
    <3>5. after = [size |-> before.size, alive |-> FALSE, heap |-> before.heap, readonly |-> before.readonly]
      BY <3>4
    <3>6. before.size = record[r].size /\ before.heap = record[r].heap /\ before.readonly = record[r].readonly
      BY <3>2 DEF Described
    <3> QED
      BY <3>2, <3>3, <3>5, <3>6
  <2> QED
    BY <2>3, <2>4
<1>9. \A base \in DOMAIN old : base # a => new[base] = old[base]
  BY <1>1, <1>2, <1>4, <1>5, <1>6 DEF Mirrors
<1>10. new = [old EXCEPT ![a].alive = FALSE]
  <2>1. PICK ended : ended = [old[a] EXCEPT !.alive = FALSE]
    OBVIOUS
  <2>2. new[a] = ended
    BY <1>7, <1>8, <2>1
  <2>3. new = [base \in DOMAIN new |-> new[base]] /\ old = [base \in DOMAIN old |-> old[base]]
    BY <1>1, <1>2 DEF Mirrors
  <2>4. new = [old EXCEPT ![a] = ended]
    BY <1>6, <1>7, <1>9, <2>2, <2>3
  <2> QED
    BY <2>1, <2>4
<1>11. a # 0 /\ old[a].alive /\ (heapOnly => old[a].heap) /\ error' = "none"
  BY <1>4, <1>7 DEF NullIsFree, Described, EndLifetime
<1> QED
  BY <1>1, <1>2, <1>4, <1>7, <1>10, <1>11 DEF Store!Release, Store!ReleaseVerdict

\* Marking a record marks its object.
LEMMA SetReadonlyAsStore ==
  ASSUME IndInv, IndInv', NEW r \in Records, NEW readonly \in BOOLEAN, SetReadonly(r, readonly)
  PROVE  record[r].address \in DOMAIN Objects /\ Store!SetReadonly(record[r].address, readonly)
<1>1. PICK old : old = Objects /\ Mirrors(old, record, table)
  BY ObjectsMirror
<1>2. PICK new : new = Objects' /\ Mirrors(new, record', table')
  BY ObjectsMirror
<1>3. record \in [Records -> Allocation] /\ record' = [record EXCEPT ![r].readonly = readonly]
      /\ table \subseteq Records /\ r \in table /\ record[r].alive /\ UNCHANGED <<table, nextAddress, error>>
  BY DEF IndInv, TypeOK, SetReadonly
<1>4. PICK a : a = record[r].address
  OBVIOUS
<1>5. \A q \in table : /\ record'[q].address = record[q].address
                       /\ q # r => record'[q] = record[q]
                       /\ record[q].address = a => q = r
  <2>1. \A q \in table : record'[q].address = record[q].address /\ (q # r => record'[q] = record[q])
    BY <1>3 DEF Allocation
  <2>2. \A q \in table : record[q].address \in Nat /\ record[q].size \in Nat
    BY <1>3 DEF Allocation
  <2>3. \A q \in table : record[q].address = a => q = r
    BY <1>3, <1>4, <2>2 DEF IndInv, Separated
  <2> QED
    BY <2>1, <2>3
<1>6. DOMAIN old = {record[q].address : q \in table} /\ DOMAIN new = DOMAIN old
  BY <1>1, <1>2, <1>3, <1>5 DEF Mirrors
<1>7. old[a] = Described(record[r]) /\ new[a] = Described(record'[r]) /\ a \in DOMAIN old
  BY <1>1, <1>2, <1>3, <1>4, <1>5, <1>6 DEF Mirrors
<1>8. Described(record'[r]) = [Described(record[r]) EXCEPT !.readonly = readonly]
  <2> DEFINE Object == [size : Nat, alive : BOOLEAN, heap : BOOLEAN, readonly : BOOLEAN]
  <2>1. record[r] \in Allocation /\ record'[r] = [record[r] EXCEPT !.readonly = readonly]
    BY <1>3
  <2>2. /\ record'[r].size = record[r].size /\ record'[r].alive = record[r].alive
        /\ record'[r].heap = record[r].heap /\ record'[r].readonly = readonly
    BY <2>1 DEF Allocation
  <2>3. Described(record[r]) \in Object
    BY <2>1 DEF Allocation, Described
  <2>4. PICK before \in Object : before = Described(record[r])
    BY <2>3
  <2>5. PICK after : after = [before EXCEPT !.readonly = readonly]
    OBVIOUS
  <2>6. /\ after \in Object /\ after.size = before.size /\ after.alive = before.alive
        /\ after.heap = before.heap /\ after.readonly = readonly
    BY <2>5
  <2>7. after = [size |-> before.size, alive |-> before.alive, heap |-> before.heap, readonly |-> readonly]
    BY <2>6
  <2>8. /\ before.size = record[r].size /\ before.alive = record[r].alive /\ before.heap = record[r].heap
    BY <2>4 DEF Described
  <2>9. Described(record'[r]) = [size |-> record[r].size, alive |-> record[r].alive, heap |-> record[r].heap,
                                 readonly |-> readonly]
    BY <2>2 DEF Described
  <2> QED
    BY <2>4, <2>5, <2>7, <2>8, <2>9
<1>9. \A base \in DOMAIN old : base # a => new[base] = old[base]
  BY <1>1, <1>2, <1>3, <1>4, <1>5, <1>6 DEF Mirrors
<1>10. new = [old EXCEPT ![a].readonly = readonly]
  <2>1. PICK marked : marked = [old[a] EXCEPT !.readonly = readonly]
    OBVIOUS
  <2>2. new[a] = marked
    BY <1>7, <1>8, <2>1
  <2>3. new = [base \in DOMAIN new |-> new[base]] /\ old = [base \in DOMAIN old |-> old[base]]
    BY <1>1, <1>2 DEF Mirrors
  <2>4. new = [old EXCEPT ![a] = marked]
    BY <1>6, <1>7, <1>9, <2>2, <2>3
  <2> QED
    BY <2>1, <2>4
<1>11. old[a].alive
  BY <1>3, <1>7 DEF Described
<1> QED
  BY <1>1, <1>2, <1>3, <1>4, <1>7, <1>10, <1>11 DEF Store!SetReadonly

\* Forgetting dead records leaves a set of survivors of the objects.
LEMMA RestSurvives ==
  ASSUME IndInv, NEW gone, gone \subseteq {r \in table : ~record[r].alive}, NEW old, old = Objects,
         Mirrors(old, record, table)
  PROVE  {record[r].address : r \in table \ gone} \in Store!Survivors
<1> DEFINE kept == {record[r].address : r \in table \ gone}
<1>1. kept \subseteq DOMAIN old
  BY DEF Mirrors
<1>2. ASSUME NEW base \in DOMAIN old \ kept
      PROVE  ~old[base].alive
  <2>1. PICK r \in table : base = record[r].address
    BY DEF Mirrors
  <2>2. r \in gone
    BY <1>2, <2>1
  <2>3. old[base] = Described(record[r])
    BY <2>1 DEF Mirrors
  <2> QED
    BY <2>2, <2>3 DEF Described
<1>3. kept \in {left \in SUBSET DOMAIN old : \A base \in DOMAIN old \ left : ~old[base].alive}
  BY <1>1, <1>2
<1> QED
  BY <1>3 DEF Store!Survivors

\* A refusal forgets ended objects at most.
LEMMA RefuseAsStore ==
  ASSUME IndInv, IndInv', NEW gone, gone \subseteq {r \in table : ~record[r].alive}, table' = table \ gone,
         \A r \in table' : record'[r] = record[r],
         error' \in {"limit", "out of memory"}, nextAddress' >= nextAddress
  PROVE  Store!Refuse
<1>1. PICK old : old = Objects /\ Mirrors(old, record, table)
  BY ObjectsMirror
<1>2. PICK new : new = Objects' /\ Mirrors(new, record', table')
  BY ObjectsMirror
<1>3. PICK kept \in Store!Survivors : kept = {record[r].address : r \in table \ gone}
  BY <1>1, RestSurvives
<1>4. DOMAIN new = kept
  BY <1>2, <1>3 DEF Mirrors
<1>5. \A base \in kept : new[base] = old[base]
  <2> SUFFICES ASSUME NEW base \in kept PROVE new[base] = old[base]
    OBVIOUS
  <2>1. PICK r \in table \ gone : base = record[r].address
    BY <1>3
  <2>2. old[base] = Described(record[r]) /\ r \in table' /\ record'[r] = record[r]
    BY <1>1, <2>1 DEF Mirrors
  <2>3. new[base] = Described(record'[r])
    BY <1>2, <2>1, <2>2 DEF Mirrors
  <2> QED
    BY <2>2, <2>3
<1>6. new = [base \in kept |-> old[base]]
  BY <1>2, <1>4, <1>5 DEF Mirrors
<1> QED
  BY <1>1, <1>2, <1>3, <1>6 DEF Store!Refuse

\* An allocation places a new object above all others, and forgets ended ones at most.
LEMMA AllocateAsStore ==
  ASSUME AddressesReach, IndInv, IndInv', NEW size \in Nat, NEW heap \in BOOLEAN, NEW r \in Records,
         Allocate(size, heap, r)
  PROVE  Store!Place(size, heap)
<1> DEFINE object == [size |-> size, alive |-> TRUE, heap |-> heap, readonly |-> FALSE]
<1>1. PICK old : old = Objects /\ Mirrors(old, record, table)
  BY ObjectsMirror
<1>2. PICK new : new = Objects' /\ Mirrors(new, record', table')
  BY ObjectsMirror
<1>3. PICK base : base = Base
  OBVIOUS
<1>4. /\ base \in Nat /\ base > 0 /\ base >= nextAddress
      /\ \A q \in table : record[q].address + record[q].size + 16 <= base
  BY <1>3, BaseIsFresh
<1>5. base \in Addresses /\ nextAddress' > base + size
  <2>1. Stride(size) \in Nat /\ Stride(size) >= size + 16
    BY StrideGap
  <2>2. base + Stride(size) <= AddressBound /\ nextAddress' = base + Stride(size)
    BY <1>3 DEF Allocate
  <2> QED
    BY <1>4, <2>1, <2>2, ParameterAssumption DEF AddressesReach
<1>6. PICK kept \in Store!Survivors : kept = {record[q].address : q \in table \ Forgotten}
  BY <1>1, RestSurvives, ForgettingCounts
<1>7. /\ r \notin table /\ table' = (table \ Forgotten) \cup {r} /\ error' = "none"
      /\ record' = [record EXCEPT ![r] = [address |-> base, size |-> size, alive |-> TRUE,
                                          heap |-> heap, readonly |-> FALSE]]
      /\ record \in [Records -> Allocation] /\ table \subseteq Records
  BY <1>3, AvailableIsUnused DEF Allocate, IndInv, TypeOK
<1>8. \A q \in table \ Forgotten : q \in table' /\ record'[q] = record[q] /\ record[q].address # base
  <2>1. \A q \in table : record[q].address \in Nat /\ record[q].size \in Nat
    BY <1>7 DEF Allocation
  <2> QED
    BY <1>4, <1>7, <2>1
<1>9. record'[r].address = base /\ Described(record'[r]) = object /\ r \in table'
  BY <1>7 DEF Described
<1>10. DOMAIN new = kept \cup {base}
  <2>1. DOMAIN new = {record'[q].address : q \in table'}
    BY <1>2 DEF Mirrors
  <2>2. \A q \in table' : q = r \/ q \in table \ Forgotten
    BY <1>7
  <2> QED
    BY <1>6, <1>8, <1>9, <2>1, <2>2
<1>11. new[base] = object
  BY <1>2, <1>9 DEF Mirrors
<1>12. \A b \in kept : b # base /\ new[b] = old[b]
  <2> SUFFICES ASSUME NEW b \in kept PROVE b # base /\ new[b] = old[b]
    OBVIOUS
  <2>1. PICK q \in table \ Forgotten : b = record[q].address
    BY <1>6
  <2>2. old[b] = Described(record[q])
    BY <1>1, <2>1 DEF Mirrors
  <2>3. new[b] = Described(record'[q])
    BY <1>2, <1>8, <2>1 DEF Mirrors
  <2> QED
    BY <1>8, <2>1, <2>2, <2>3
<1>13. new = [b \in kept \cup {base} |-> IF b = base THEN object ELSE old[b]]
  <2>1. new = [b \in DOMAIN new |-> new[b]]
    BY <1>2 DEF Mirrors
  <2> HIDE DEF object
  <2> QED
    BY <1>10, <1>11, <1>12, <2>1
<1> QED
  BY <1>1, <1>2, <1>4, <1>5, <1>6, <1>7, <1>13 DEF Store!Place

\* Every step of the memory is a step of the objects, or shows nothing.
LEMMA StepAsStore ==
  ASSUME AddressesReach, IndInv, IndInv', NullIsFree, [Next]_vars
  PROVE  [Store!Next]_(Store!vars)
<1>1. \A request \in Requests : request[1] \in Nat /\ request[2] \in BOOLEAN
  BY RequestAssumption
<1>2. ASSUME NEW request \in Requests, RefuseOverLimit(request[1]) \/ RefuseNoRecord(request[1])
      PROVE  Store!Refuse
  <2>1. /\ table' = table \ {} /\ \A r \in table' : record'[r] = record[r]
        /\ error' \in {"limit", "out of memory"} /\ nextAddress' >= nextAddress
    <3>1. UNCHANGED <<record, table, nextAddress>> /\ error' \in {"limit", "out of memory"}
      BY <1>2 DEF RefuseOverLimit, RefuseNoRecord
    <3>2. nextAddress' >= nextAddress
      <4>1. nextAddress \in Nat
        BY DEF IndInv, TypeOK
      <4>2. nextAddress' = nextAddress
        BY <3>1
      <4>3. \A n \in Nat : n >= n
        OBVIOUS
      <4> QED
        BY <4>1, <4>2, <4>3
    <3>3. table' = table \ {} /\ \A r \in table' : record'[r] = record[r]
      BY <3>1
    <3> QED
      BY <3>1, <3>2, <3>3
  <2> QED
    BY <2>1, RefuseAsStore
<1>3. ASSUME NEW request \in Requests, NEW r \in Records,
             RefuseNoBytes(request[1], r) \/ RefuseNoTable(request[1], r)
      PROVE  Store!Refuse
  <2>1. PICK gone : /\ gone \subseteq {q \in table : ~record[q].alive}
                    /\ table' = table \ gone /\ Recycle(r, gone) /\ r \in Available
    <3>1. CASE RefuseNoBytes(request[1], r)
      BY <3>1 DEF RefuseNoBytes
    <3>2. CASE RefuseNoTable(request[1], r)
      BY <3>2, ForgettingCounts DEF RefuseNoTable
    <3> QED
      BY <1>3, <3>1, <3>2
  <2>2. \A q \in table' : record'[q] = record[q]
    <3>1. r \notin table /\ record \in [Records -> Allocation] /\ table \subseteq Records
      BY <2>1, AvailableIsUnused DEF IndInv, TypeOK
    <3>2. record' = [record EXCEPT ![r].address = Base, ![r].readonly = FALSE]
      BY <2>1 DEF Recycle
    <3> QED
      BY <2>1, <3>1, <3>2
  <2>3. error' \in {"limit", "out of memory"} /\ nextAddress' >= nextAddress
    BY <2>1, BaseIsFresh DEF Recycle
  <2> QED
    BY <2>1, <2>2, <2>3, RefuseAsStore
<1>4. ASSUME NEW request \in Requests, NEW r \in Records, Allocate(request[1], request[2], r)
      PROVE  Store!Place(request[1], request[2])
  BY <1>1, <1>4, AllocateAsStore
<1>5. ASSUME NEW a \in Addresses, NEW heapOnly \in BOOLEAN, Release(a, heapOnly)
      PROVE  Store!Release(a, heapOnly)
  <2>1. a \in Nat /\ table' = table /\ nextAddress' = nextAddress
    BY <1>5, AddressAssumption DEF Release
  <2>2. CASE a # 0 /\ ReleaseVerdict(a, heapOnly) = "none"
    <3>1. EndLifetime(Find(a))
      BY <1>5, <2>2 DEF Release
    <3>2. Find(a) # NULL /\ record[Find(a)].address = a /\ record[Find(a)].alive
          /\ (heapOnly => record[Find(a)].heap)
      BY <2>2 DEF ReleaseVerdict
    <3>3. Find(a) \in table
      BY <2>1, <3>2, FindInTable DEF IndInv
    <3> QED
      BY <2>1, <3>1, <3>2, <3>3, ReleaseAsStore
  <2>3. CASE a = 0
    <3>1. record' = record /\ error' = "none"
      BY <1>5, <2>3 DEF Release
    <3>2. Objects' = Objects
      BY <2>1, <3>1, ObjectsStay
    <3> QED
      BY <2>1, <2>3, <3>1, <3>2 DEF Store!Release, Store!ReleaseVerdict
  <2>4. CASE a # 0 /\ ReleaseVerdict(a, heapOnly) # "none"
    <3>1. record' = record /\ error' = ReleaseVerdict(a, heapOnly)
      BY <1>5, <2>4 DEF Release
    <3>2. PICK objs : objs = Objects /\ Mirrors(objs, record, table)
      BY ObjectsMirror
    <3>3. Objects' = Objects
      BY <2>1, <3>1, ObjectsStay
    <3>4. Find(a) \in table \cup {NULL} /\ NULL \notin table /\ table \subseteq Records
      BY <2>1, FindInTable, NullAssumption DEF IndInv, TypeOK
    <3>5. ReleaseVerdict(a, heapOnly) =
            IF a \notin DOMAIN objs THEN "not a start"
            ELSE IF ~objs[a].alive THEN "already freed"
            ELSE IF heapOnly /\ ~objs[a].heap THEN "not heap"
            ELSE "none"
      <4>1. CASE Find(a) # NULL /\ record[Find(a)].address = a
        <5>1. a \in DOMAIN objs /\ objs[a] = Described(record[Find(a)])
          BY <3>2, <3>4, <4>1 DEF Mirrors
        <5>2. objs[a].alive = record[Find(a)].alive /\ objs[a].heap = record[Find(a)].heap
          BY <5>1 DEF Described
        <5> QED
          BY <4>1, <5>1, <5>2 DEF ReleaseVerdict
      <4>2. CASE ~(Find(a) # NULL /\ record[Find(a)].address = a)
        <5>1. a \notin DOMAIN objs
          <6> SUFFICES ASSUME a \in DOMAIN objs PROVE FALSE
            OBVIOUS
          <6>1. PICK q \in table : record[q].address = a
            BY <3>2 DEF Mirrors
          <6>2. record[q].address \in Nat /\ record[q].size \in Nat
            BY <3>4 DEF IndInv, TypeOK, Allocation
          <6>3. Holds(q, a)
            BY <6>1, <6>2 DEF Holds
          <6>4. SearchTable(a) = q /\ Find(a) = SearchTable(a)
            BY <2>1, <6>3, HolderIsLast, FindInTable DEF IndInv
          <6> QED
            BY <3>4, <4>2, <6>1, <6>4
        <5> QED
          BY <4>2, <5>1 DEF ReleaseVerdict
      <4> QED
        BY <4>1, <4>2
    <3>6. Store!ReleaseVerdict(a, heapOnly) = ReleaseVerdict(a, heapOnly)
      BY <2>4, <3>2, <3>5 DEF Store!ReleaseVerdict
    <3> QED
      BY <2>1, <2>4, <3>1, <3>3, <3>6 DEF Store!Release
  <2> QED
    BY <2>2, <2>3, <2>4
<1>6. ASSUME NEW r \in Records, ReleaseRecord(r)
      PROVE  Store!Release(record[r].address, FALSE) /\ record[r].address \in DOMAIN Objects
  <2>1. r \in table /\ record[r].alive /\ EndLifetime(r) /\ table' = table /\ nextAddress' = nextAddress
    BY <1>6 DEF ReleaseRecord
  <2> QED
    BY <2>1, ReleaseAsStore
<1>7. ASSUME NEW r \in Records, NEW readonly \in BOOLEAN, SetReadonly(r, readonly)
      PROVE  record[r].address \in DOMAIN Objects /\ Store!SetReadonly(record[r].address, readonly)
  BY <1>7, SetReadonlyAsStore
<1>8. ASSUME NEW a \in Addresses, NEW n \in Widths, NEW write \in BOOLEAN, Access(a, n, write)
      PROVE  Store!Access(a, n, write)
  BY <1>8, AccessAsStore
<1>9. ASSUME Destroy
      PROVE  Store!Destroy
  <2>1. table' = {} /\ nextAddress' = 0 /\ error' = "none"
    BY <1>9 DEF Destroy
  <2>2. PICK new : new = Objects' /\ Mirrors(new, record', table')
    BY ObjectsMirror
  <2>3. DOMAIN new = {} /\ new = [base \in DOMAIN new |-> new[base]]
    BY <2>1, <2>2 DEF Mirrors
  <2>4. new = [base \in {} |-> 0]
    BY <2>3
  <2> QED
    BY <2>1, <2>2, <2>4 DEF Store!Destroy
<1>10. ASSUME UNCHANGED vars
       PROVE  UNCHANGED Store!vars
  <2>1. table' = table /\ record' = record /\ UNCHANGED <<nextAddress, error>>
    BY <1>10 DEF vars
  <2>2. Objects' = Objects
    BY <2>1, ObjectsStay
  <2> QED
    BY <2>1, <2>2 DEF Store!vars
<1>11. Next => Store!Next
  <2> SUFFICES ASSUME Next PROVE Store!Next
    OBVIOUS
  <2>1. CASE \E request \in Requests : RefuseOverLimit(request[1]) \/ RefuseNoRecord(request[1])
    BY <1>2, <2>1 DEF Store!Next
  <2>2. CASE \E request \in Requests, r \in Records : RefuseNoBytes(request[1], r) \/ RefuseNoTable(request[1], r)
    BY <1>3, <2>2 DEF Store!Next
  <2>3. CASE \E request \in Requests, r \in Records : Allocate(request[1], request[2], r)
    BY <1>4, <2>3 DEF Store!Next
  <2>4. CASE \E a \in Addresses, heapOnly \in BOOLEAN : Release(a, heapOnly)
    BY <1>5, <2>4 DEF Store!Next
  <2>5. CASE \E r \in Records : ReleaseRecord(r)
    BY <1>6, <2>5 DEF Store!Next
  <2>6. CASE \E r \in Records, readonly \in BOOLEAN : SetReadonly(r, readonly)
    BY <1>7, <2>6 DEF Store!Next
  <2>7. CASE \E a \in Addresses, n \in Widths, write \in BOOLEAN : Access(a, n, write)
    BY <1>8, <2>7 DEF Store!Next
  <2>8. CASE Destroy
    BY <1>9, <2>8 DEF Store!Next
  <2> QED
    BY <2>1, <2>2, <2>3, <2>4, <2>5, <2>6, <2>7, <2>8 DEF Next
<1> QED
  BY <1>10, <1>11

\* What a program observes of its objects is what ObjectStore says, for any records, caches
\* and limits: the reuse of records, the two caches and the order of forgetting never show
\* (memory.h as its callers see it).
THEOREM Refinement ==
  ASSUME AddressesReach
  PROVE  Spec => ImplementsObjectStore
<1>1. Init => Store!Init
  <2> SUFFICES ASSUME Init PROVE Store!Init
    OBVIOUS
  <2>1. table = {} /\ nextAddress = 0 /\ error = "none"
    BY DEF Init
  <2>2. Objects = [base \in {} |-> 0]
    BY <2>1 DEF Objects
  <2> QED
    BY <2>1, <2>2 DEF Store!Init
<1>2. IndInv /\ IndInv' /\ NullIsFree /\ [Next]_vars => [Store!Next]_(Store!vars)
  BY StepAsStore
<1> QED
  BY <1>1, <1>2, Invariance, NullStaysFree, PTL DEF Spec, Store!Spec, ImplementsObjectStore

=============================================================================
