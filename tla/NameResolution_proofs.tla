----------------------- MODULE NameResolution_proofs -----------------------
(***************************************************************************)
(* Proofs about NameResolution, for any program, nesting and recursion.    *)
(*                                                                         *)
(* The innermost scope is always the last one opened, and the only one     *)
(* that symbols are added to.  So each symbol of a declaration shadows the *)
(* innermost symbol the declaration had below it, which is what its        *)
(* binding must lead to again when the scope ends; and as a serial is      *)
(* never given out again, a remembered answer with the serial of an open   *)
(* scope, and with as many symbols indexed in it, saw the same symbols.    *)
(***************************************************************************)
EXTENDS NameResolution, SequenceTheorems, WellFoundedInduction, FiniteSetTheorems, TLAPS

-----------------------------------------------------------------------------
(* Sequences and numbers. *)

\* What is left of a sequence without its last element.
LEMMA FrontProperties ==
  ASSUME NEW S, NEW seq \in Seq(S), seq # <<>>
  PROVE  /\ Front(seq) \in Seq(S) /\ Len(Front(seq)) = Len(seq) - 1
         /\ \A k \in 1 .. Len(seq) - 1 : Front(seq)[k] = seq[k]
<1> DEFINE m == Len(seq) - 1
<1>1. m \in Nat /\ \A k \in 1 .. m : seq[k] \in S
  BY EmptySeq, ElementOfSeq
<1>2. Front(seq) = SubSeq(seq, 1, m)
  BY DEF Front
<1> HIDE DEF m
<1>3. /\ SubSeq(seq, 1, m) \in Seq(S)
      /\ Len(SubSeq(seq, 1, m)) = IF 1 <= m THEN m - 1 + 1 ELSE 0
      /\ \A k \in 1 .. m - 1 + 1 : SubSeq(seq, 1, m)[k] = seq[1 + k - 1]
  BY <1>1, SubSeqProperties
<1>4. Len(SubSeq(seq, 1, m)) = m
  BY <1>1, <1>3
<1>5. ASSUME NEW k \in 1 .. m
      PROVE  SubSeq(seq, 1, m)[k] = seq[k]
  <2>1. k \in 1 .. m - 1 + 1 /\ 1 + k - 1 = k
    BY <1>1
  <2> QED
    BY <2>1, <1>3
<1> QED
  BY <1>2, <1>3, <1>4, <1>5 DEF m

\* A set of natural numbers has a least one.
LEMMA LeastNatural ==
  ASSUME NEW T \in SUBSET Nat, T # {}
  PROVE  \E k \in T : \A l \in T : k <= l
<1> DEFINE less == {p \in Nat \X Nat : p[1] < p[2]}
<1>1. IsWellFoundedOn(less, Nat)
  BY NatLessThanWellFounded, Zenon DEF OpToRel
<1>2. \A l, k \in Nat : ~(<<l, k>> \in less) => k <= l
  OBVIOUS
<1> HIDE DEF less
<1>3. \E k \in T : \A l \in T : ~(<<l, k>> \in less)
  BY <1>1, WFMin
<1> QED
  BY <1>2, <1>3

\* Among the first n numbers, those of a set have a last one.
LEMMA LastOfPositions ==
  ASSUME NEW n \in Nat, NEW T \in SUBSET (1 .. n), T # {}
  PROVE  \E k \in T : \A l \in T : l <= k
<1> DEFINE distances == {n - k : k \in T}
<1>1. distances \in SUBSET Nat /\ distances # {}
  <2>1. \A k \in T : k \in 1 .. n /\ n - k \in Nat
    OBVIOUS
  <2> QED
    BY <2>1
<1>2. PICK d \in distances : \A e \in distances : d <= e
  BY <1>1, LeastNatural
<1>3. PICK k \in T : d = n - k
  OBVIOUS
<1>4. ASSUME NEW l \in T
      PROVE  l <= k
  <2>1. d <= n - l
    BY <1>2
  <2> QED
    BY <2>1, <1>3
<1> QED
  BY <1>4

-----------------------------------------------------------------------------
Scope == [serial : Nat, block : Blocks \cup {NULL}, parent : Nat, symbols : Seq(SymbolNodes)]
Symbol ==
  [name : Names, declaration : Declarations \cup {NULL}, home : Nat,
   shadowed : SymbolNodes \cup {NULL}, shadowedScope : Nat]
Binding == [symbol : SymbolNodes \cup {NULL}, scope : Nat]
Use ==
  [symbol : SymbolNodes \cup {NULL}, declaration : Declarations \cup {NULL},
   scope : Nat, home : Nat, count : Nat]

TypeOK ==
  /\ scopes \in Seq(Scope) /\ running \in Seq(Nat) /\ serial \in Nat
  /\ symbol \in [SymbolNodes -> Symbol] /\ pool \in SUBSET SymbolNodes
  /\ binding \in [Declarations -> Binding] /\ cached \in [Uses \cup GlobalUses -> Use]

\* The symbols of a scope, and those of them entered in its index.
Held(sc, i) == Range(sc[i].symbols)
Entered(sc, sy, i) == {s \in Held(sc, i) : sy[s].declaration \notin Private}

\* A scope lies on the globals or, inside the block around its own, on the scope below it.
Nest(sc, last) ==
  /\ Len(sc) >= 1 /\ sc[1].serial = 1 /\ sc[1].block = NULL /\ sc[1].parent = 0
  /\ \A i \in 1 .. Len(sc) : sc[i].serial >= 1 /\ sc[i].serial <= last
  /\ \A i, j \in 1 .. Len(sc) : i < j => sc[i].serial < sc[j].serial
  /\ \A i \in 2 .. Len(sc) :
       /\ sc[i].block \in Blocks
       /\ sc[i].parent \in {1, i - 1} /\ Enclosing[sc[i].block] = sc[sc[i].parent].block

\* Activations and blocks end in the order opposite to their beginning.
Active(sc, ru) ==
  /\ Len(ru) >= 1 /\ ru[1] = Globals
  /\ \A k \in 1 .. Len(ru) : ru[k] \in 1 .. Len(sc)
  /\ \A k, l \in 1 .. Len(ru) : k < l => ru[k] = Globals \/ ru[l] = Globals \/ ru[k] < ru[l]
  /\ \A i \in 2 .. Len(sc) : \E k \in 1 .. Len(ru) : ru[k] = i

\* A symbol stands in one scope, that of its declaration's block, and is spare in none.
Owned(sc, sy, po) ==
  /\ \A i \in 1 .. Len(sc) : \A s \in Held(sc, i) :
       /\ s \notin po /\ sy[s].home = sc[i].serial
       /\ sy[s].declaration = NULL <=> i = Globals
       /\ i # Globals => /\ Block[sy[s].declaration] = sc[i].block
                         /\ sy[s].name = DeclaredName[sy[s].declaration]
       /\ \A j \in 1 .. Len(sc) : s \in Held(sc, j) => j = i
       /\ \A t \in Held(sc, i) : i # Globals /\ sy[t].declaration = sy[s].declaration => t = s
  /\ \A i \in 1 .. Len(sc) : \A s, t \in Entered(sc, sy, i) : sy[s].name = sy[t].name => s = t

\* The innermost symbol of d in the first n scopes is this node, in the scope of serial home.
Innermost(sc, sy, n, d, node, home) ==
  \/ node = NULL /\ home = 0 /\ \A i \in 1 .. n : \A s \in Held(sc, i) : sy[s].declaration # d
  \/ \E i \in 1 .. n :
       /\ node \in Held(sc, i) /\ sy[node].declaration = d /\ home = sc[i].serial
       /\ \A j \in i + 1 .. n : \A s \in Held(sc, j) : sy[s].declaration # d

Bound(sc, sy, bi) ==
  /\ \A d \in Declarations : Innermost(sc, sy, Len(sc), d, bi[d].symbol, bi[d].scope)
  /\ \A i \in 2 .. Len(sc) : \A s \in Held(sc, i) :
       Innermost(sc, sy, i - 1, sy[s].declaration, sy[s].shadowed, sy[s].shadowedScope)

\* The globals, and the scopes no call separates from scope i.
Outward(sc, i) == {j \in 1 .. i : j = Globals \/ \A k \in j + 1 .. i : sc[k].parent # Globals}

\* A walk from scope i for the name meets this symbol first, or none (NULL).
Walk(sc, sy, i, name, s) ==
  \/ s = NULL /\ \A j \in Outward(sc, i) : \A t \in Entered(sc, sy, j) : sy[t].name # name
  \/ \E j \in Outward(sc, i) :
       /\ s \in Entered(sc, sy, j) /\ sy[s].name = name
       /\ \A l \in Outward(sc, i) : \A t \in Entered(sc, sy, l) : sy[t].name = name => l <= j

\* What a use remembers can be checked again, and still stands in a scope as full as it was.
Remembers(sc, sy, c, name, last) ==
  /\ c.scope <= last
  /\ c.declaration # NULL => c.declaration \notin Private /\ DeclaredName[c.declaration] = name
  /\ c.declaration = NULL =>
       \/ c.symbol = NULL /\ c.home = 0
       \/ c.symbol \in Held(sc, Globals) /\ sy[c.symbol].name = name /\ c.home = 1
  /\ \A i \in 1 .. Len(sc) : c.scope = sc[i].serial =>
       /\ c.count <= Cardinality(Entered(sc, sy, i))
       /\ c.count = Cardinality(Entered(sc, sy, i)) => Walk(sc, sy, i, name, c.symbol)

Remembered(sc, sy, ca, last) == \A u \in Uses \cup GlobalUses : Remembers(sc, sy, ca[u], UsedName[u], last)

IndInv ==
  /\ TypeOK /\ Nest(scopes, serial) /\ Active(scopes, running) /\ Owned(scopes, symbol, pool)
  /\ Bound(scopes, symbol, binding) /\ Remembered(scopes, symbol, cached, serial)

-----------------------------------------------------------------------------
(* What is held, entered and found, in any scopes. *)

\* A scope and what it holds.
LEMMA HeldTypes ==
  ASSUME NEW sc \in Seq(Scope), NEW i \in 1 .. Len(sc)
  PROVE  /\ sc[i] \in Scope /\ sc[i].serial \in Nat /\ sc[i].parent \in Nat /\ sc[i].symbols \in Seq(SymbolNodes)
         /\ Held(sc, i) \subseteq SymbolNodes /\ IsFiniteSet(Held(sc, i))
         /\ \A s \in Held(sc, i) : \E k \in 1 .. Len(sc[i].symbols) : s = sc[i].symbols[k]
<1>1. sc[i] \in Scope
  BY ElementOfSeq
<1>2. PICK q \in Seq(SymbolNodes) : q = sc[i].symbols
  BY <1>1 DEF Scope
<1>3. Len(q) \in Nat /\ DOMAIN q = 1 .. Len(q) /\ \A k \in 1 .. Len(q) : q[k] \in SymbolNodes
  BY ElementOfSeq, LenProperties
<1>4. Held(sc, i) = {q[k] : k \in 1 .. Len(q)}
  BY <1>2, <1>3 DEF Held, Range
<1>5. IsFiniteSet({q[k] : k \in 1 .. Len(q)})
  <2> DEFINE f == [k \in 1 .. Len(q) |-> q[k]]
             T == {q[k] : k \in 1 .. Len(q)}
  <2>1. f \in [1 .. Len(q) -> T] /\ \A t \in T : \E k \in 1 .. Len(q) : f[k] = t
    OBVIOUS
  <2>2. f \in Surjection(1 .. Len(q), T)
    BY <2>1 DEF Surjection
  <2>3. IsFiniteSet(1 .. Len(q))
    BY <1>3, FS_Interval
  <2> HIDE DEF f, T
  <2>4. IsFiniteSet(T)
    BY <2>2, <2>3, FS_Surjection
  <2> QED
    BY <2>4 DEF T
<1> QED
  BY <1>1, <1>2, <1>3, <1>4, <1>5 DEF Scope

\* Scopes whose first n have the same places and symbols have the same innermost symbols there.
LEMMA SameInnermost ==
  ASSUME NEW sc, NEW sy, NEW sc2, NEW sy2, NEW n \in Nat,
         \A i \in 1 .. n : sc2[i] = sc[i] /\ \A s \in Held(sc, i) : sy2[s] = sy[s],
         NEW m \in 0 .. n, NEW d, NEW node, NEW home, Innermost(sc, sy, m, d, node, home)
  PROVE  Innermost(sc2, sy2, m, d, node, home)
<1>1. \A i \in 1 .. m : i \in 1 .. n /\ \A j \in i + 1 .. m : j \in 1 .. n
  OBVIOUS
<1>2. \A i \in 1 .. n : Held(sc2, i) = Held(sc, i)
  BY DEF Held
<1>3. CASE node = NULL /\ home = 0 /\ \A i \in 1 .. m : \A s \in Held(sc, i) : sy[s].declaration # d
  BY <1>1, <1>2, <1>3 DEF Innermost
<1>4. ASSUME NEW i \in 1 .. m, node \in Held(sc, i), sy[node].declaration = d, home = sc[i].serial,
             \A j \in i + 1 .. m : \A s \in Held(sc, j) : sy[s].declaration # d
      PROVE  Innermost(sc2, sy2, m, d, node, home)
  <2>1. node \in Held(sc2, i) /\ sy2[node].declaration = d /\ home = sc2[i].serial
    BY <1>1, <1>2, <1>4
  <2>2. \A j \in i + 1 .. m : \A s \in Held(sc2, j) : sy2[s].declaration # d
    BY <1>1, <1>2, <1>4
  <2> QED
    BY <2>1, <2>2 DEF Innermost
<1> QED
  BY <1>3, <1>4 DEF Innermost

\* An innermost symbol that is not in the last scope is the innermost one without it.
LEMMA InnermostBelow ==
  ASSUME NEW sc, NEW sy, NEW n \in Nat \ {0}, NEW d, NEW node, NEW home, Innermost(sc, sy, n, d, node, home),
         \A s \in Held(sc, n) : sy[s].declaration # d
  PROVE  Innermost(sc, sy, n - 1, d, node, home)
<1>1. \A i \in 1 .. n - 1 : i \in 1 .. n /\ \A j \in i + 1 .. n - 1 : j \in i + 1 .. n
  OBVIOUS
<1>2. CASE node = NULL /\ home = 0 /\ \A i \in 1 .. n : \A s \in Held(sc, i) : sy[s].declaration # d
  BY <1>1, <1>2 DEF Innermost
<1>3. ASSUME NEW i \in 1 .. n, node \in Held(sc, i), sy[node].declaration = d, home = sc[i].serial,
             \A j \in i + 1 .. n : \A s \in Held(sc, j) : sy[s].declaration # d
      PROVE  Innermost(sc, sy, n - 1, d, node, home)
  <2>1. i # n
    BY <1>3
  <2>2. i \in 1 .. n - 1
    BY <2>1
  <2> QED
    BY <1>1, <1>3, <2>2 DEF Innermost
<1> QED
  BY <1>2, <1>3 DEF Innermost

\* Scopes whose first n have the same parents and the same symbols entered find the same.
LEMMA SameWalk ==
  ASSUME NEW sc, NEW sy, NEW sc2, NEW sy2, NEW n \in Nat,
         \A i \in 1 .. n : /\ sc2[i].parent = sc[i].parent /\ Entered(sc2, sy2, i) = Entered(sc, sy, i)
                           /\ \A s \in Entered(sc, sy, i) : sy2[s].name = sy[s].name,
         NEW i \in 1 .. n, NEW name, NEW s, Walk(sc, sy, i, name, s)
  PROVE  Walk(sc2, sy2, i, name, s)
<1>1. \A j \in 1 .. i : j \in 1 .. n /\ \A k \in j + 1 .. i : k \in 1 .. n
  OBVIOUS
<1>2. Outward(sc2, i) = Outward(sc, i)
  BY <1>1 DEF Outward
<1>3. \A j \in Outward(sc, i) : j \in 1 .. n
  BY <1>1 DEF Outward
<1>4. CASE s = NULL /\ \A j \in Outward(sc, i) : \A t \in Entered(sc, sy, j) : sy[t].name # name
  BY <1>2, <1>3, <1>4 DEF Walk
<1>5. ASSUME NEW j \in Outward(sc, i), s \in Entered(sc, sy, j), sy[s].name = name,
             \A l \in Outward(sc, i) : \A t \in Entered(sc, sy, l) : sy[t].name = name => l <= j
      PROVE  Walk(sc2, sy2, i, name, s)
  <2>1. s \in Entered(sc2, sy2, j) /\ sy2[s].name = name
    BY <1>3, <1>5
  <2>2. \A l \in Outward(sc2, i) : \A t \in Entered(sc2, sy2, l) : sy2[t].name = name => l <= j
    BY <1>2, <1>3, <1>5
  <2> QED
    BY <1>2, <2>1, <2>2 DEF Walk
<1> QED
  BY <1>4, <1>5 DEF Walk

-----------------------------------------------------------------------------
(* What a walk of the chain finds. *)

\* The places and parents of the open scopes.
LEMMA ScopeFacts ==
  ASSUME TypeOK, Nest(scopes, serial)
  PROVE  /\ Len(scopes) \in Nat /\ 1 \in 1 .. Len(scopes) /\ scopes[1].parent = 0
         /\ \A i \in 1 .. Len(scopes) : /\ scopes[i] \in Scope /\ scopes[i].serial \in Nat \ {0}
                                        /\ scopes[i].parent \in 0 .. i - 1
         /\ \A i \in 1 .. Len(scopes) : i # 1 => /\ i \in 2 .. Len(scopes) /\ scopes[i].parent \in {1, i - 1}
                                                 /\ scopes[i].block \in Blocks /\ scopes[i].block # NULL
<1>1. scopes \in Seq(Scope) /\ Len(scopes) \in Nat
  BY LenProperties DEF TypeOK
<1>2. Len(scopes) >= 1 /\ scopes[1].parent = 0
  BY DEF Nest
<1>3. ASSUME NEW i \in 1 .. Len(scopes)
      PROVE  scopes[i] \in Scope /\ scopes[i].serial \in Nat \ {0}
  <2>1. scopes[i] \in Scope /\ scopes[i].serial \in Nat
    BY <1>1, HeldTypes
  <2>2. scopes[i].serial >= 1
    BY DEF Nest
  <2> QED
    BY <2>1, <2>2
<1>4. ASSUME NEW i \in 1 .. Len(scopes), i # 1
      PROVE  /\ i \in 2 .. Len(scopes) /\ scopes[i].parent \in {1, i - 1} /\ scopes[i].parent \in 0 .. i - 1
             /\ scopes[i].block \in Blocks /\ scopes[i].block # NULL
  <2>1. i \in 2 .. Len(scopes)
    BY <1>4
  <2>2. scopes[i].block \in Blocks /\ scopes[i].parent \in {1, i - 1}
    BY <2>1 DEF Nest
  <2> QED
    BY <2>1, <2>2, NullAssumption
<1>5. 0 \in 0 .. 1 - 1
  OBVIOUS
<1> QED
  BY <1>1, <1>2, <1>3, <1>4, <1>5

\* The chain from scope i is made of the globals and the scopes no call separates from it.
LEMMA ChainIs ==
  ASSUME TypeOK, Nest(scopes, serial), NEW i \in 0 .. Len(scopes)
  PROVE  Chain(i) = Outward(scopes, i)
<1> DEFINE Body(g, j) == IF j = 0 THEN {} ELSE {j} \cup g[scopes[j].parent]
           Walked  == [j \in 0 .. Len(scopes) |-> Outward(scopes, j)]
           Visited == CHOOSE g : g = [j \in 0 .. Len(scopes) |-> Body(g, j)]
<1>1. Len(scopes) \in Nat /\ 0 \in 0 .. Len(scopes)
  BY ScopeFacts
<1>2. ASSUME NEW j \in 1 .. Len(scopes)
      PROVE  /\ scopes[j].parent \in 0 .. j - 1 /\ scopes[j].parent \in 0 .. Len(scopes)
             /\ Outward(scopes, j) = {j} \cup Outward(scopes, scopes[j].parent)
  <2>1. PICK p \in 0 .. j - 1 : p = scopes[j].parent
    BY ScopeFacts
  <2>2. p \in 0 .. Len(scopes)
    BY <1>1, <2>1
  <2>3. CASE j = 1
    <3>1. p = 0
      BY <2>1, <2>3
    <3>2. Outward(scopes, 0) = {}
      BY DEF Outward
    <3>3. Outward(scopes, 1) = {1}
      BY DEF Outward, Globals
    <3> QED
      BY <2>1, <2>2, <2>3, <3>1, <3>2, <3>3
  <2>4. CASE j # 1
    <3>1. p \in {1, j - 1} /\ p \in 1 .. j - 1
      BY <2>1, <2>4, ScopeFacts
    <3>2. ASSUME NEW m
          PROVE  m \in Outward(scopes, j) <=> m = j \/ m \in Outward(scopes, p)
      <4>1. CASE m = j
        <5>1. j \in 1 .. j /\ \A k \in j + 1 .. j : FALSE
          OBVIOUS
        <5> QED
          BY <4>1, <5>1 DEF Outward
      <4>2. CASE m = 1
        <5>1. 1 \in 1 .. j /\ 1 \in 1 .. p
          BY <3>1
        <5> QED
          BY <4>2, <5>1 DEF Outward, Globals
      <4>3. CASE m # j /\ m # 1 /\ p = 1
        <5>1. m \notin 1 .. p
          BY <4>3
        <5>2. m \in 1 .. j => j \in m + 1 .. j
          BY <4>3
        <5> QED
          BY <2>1, <4>3, <5>1, <5>2 DEF Outward, Globals
      <4>4. CASE m # j /\ m # 1 /\ p # 1
        <5>1. p = j - 1 /\ scopes[j].parent # 1
          BY <2>1, <3>1, <4>4
        <5>2. m \in 1 .. j <=> m \in 1 .. p
          BY <4>4, <5>1
        <5>3. m \in 1 .. p => \A k : k \in m + 1 .. j <=> k = j \/ k \in m + 1 .. p
          BY <5>1
        <5> QED
          BY <4>4, <5>1, <5>2, <5>3 DEF Outward, Globals
      <4> QED
        BY <4>1, <4>2, <4>3, <4>4
    <3> QED
      BY <2>1, <2>2, <3>2
  <2> QED
    BY <2>3, <2>4
<1>3. Walked = [j \in 0 .. Len(scopes) |-> Body(Walked, j)]
  <2>1. ASSUME NEW j \in 0 .. Len(scopes)
        PROVE  Outward(scopes, j) = Body(Walked, j)
    <3>1. CASE j = 0
      BY <3>1 DEF Outward
    <3>2. CASE j # 0
      <4>1. j \in 1 .. Len(scopes)
        BY <1>1, <3>2
      <4> QED
        BY <1>2, <3>2, <4>1
    <3> QED
      BY <3>1, <3>2
  <2> QED
    BY <2>1
<1> HIDE DEF Walked
<1>4. Visited = [j \in 0 .. Len(scopes) |-> Body(Visited, j)]
  BY <1>3
<1>5. Chain(i) = Visited[i]
  BY DEF Chain
<1> HIDE DEF Visited
<1>6. ASSUME NEW j \in 0 .. Len(scopes)
      PROVE  Visited[j] = Walked[j]
  <2> DEFINE Differ == {k \in 0 .. Len(scopes) : Visited[k] # Walked[k]}
  <2>1. ASSUME Differ # {}
        PROVE  FALSE
    <3>1. Differ \in SUBSET Nat
      BY <1>1
    <3>2. PICK k \in Differ : \A l \in Differ : k <= l
      BY <2>1, <3>1, LeastNatural
    <3>3. Visited[k] = Body(Visited, k) /\ Walked[k] = Body(Walked, k)
      BY <1>3, <1>4
    <3>4. k # 0
      BY <3>3
    <3>5. k \in 1 .. Len(scopes)
      BY <1>1, <3>4
    <3>6. PICK p : p = scopes[k].parent
      OBVIOUS
    <3>7. p \in 0 .. k - 1 /\ p \in 0 .. Len(scopes)
      BY <1>2, <3>5, <3>6
    <3>8. p \notin Differ
      BY <3>2, <3>5, <3>7
    <3>9. Visited[p] = Walked[p]
      BY <3>7, <3>8
    <3> QED
      BY <3>2, <3>3, <3>4, <3>6, <3>9
  <2> QED
    BY <2>1
<1> QED
  BY <1>5, <1>6 DEF Walked

\* What scope i, or any scope, has entered is in use.
LEMMA WalkIsOne ==
  ASSUME TypeOK, Nest(scopes, serial), Owned(scopes, symbol, pool), NEW i \in 1 .. Len(scopes), NEW name,
         NEW s, NEW t, Walk(scopes, symbol, i, name, s), Walk(scopes, symbol, i, name, t)
  PROVE  s = t
<1>1. ASSUME NEW j \in Outward(scopes, i), NEW r \in Entered(scopes, symbol, j)
      PROVE  r # NULL /\ j \in 1 .. Len(scopes) /\ j \in Nat
  <2>1. j \in 1 .. i /\ Len(scopes) \in Nat
    BY ScopeFacts DEF Outward
  <2>2. j \in 1 .. Len(scopes) /\ j \in Nat
    BY <2>1
  <2>3. Held(scopes, j) \subseteq SymbolNodes
    BY <2>2, HeldTypes DEF TypeOK
  <2> QED
    BY <2>2, <2>3, NullAssumption DEF Entered
<1>2. CASE s = NULL /\ \A j \in Outward(scopes, i) : \A r \in Entered(scopes, symbol, j) : symbol[r].name # name
  BY <1>2 DEF Walk
<1>3. CASE t = NULL /\ \A j \in Outward(scopes, i) : \A r \in Entered(scopes, symbol, j) : symbol[r].name # name
  BY <1>3 DEF Walk
<1>4. ASSUME NEW j \in Outward(scopes, i), s \in Entered(scopes, symbol, j), symbol[s].name = name,
             \A l \in Outward(scopes, i) : \A r \in Entered(scopes, symbol, l) : symbol[r].name = name => l <= j,
             NEW k \in Outward(scopes, i), t \in Entered(scopes, symbol, k), symbol[t].name = name,
             \A l \in Outward(scopes, i) : \A r \in Entered(scopes, symbol, l) : symbol[r].name = name => l <= k
      PROVE  s = t
  <2>1. j <= k /\ k <= j /\ j \in Nat /\ k \in Nat /\ j \in 1 .. Len(scopes)
    BY <1>1, <1>4
  <2>2. j = k
    BY <2>1
  <2> QED
    BY <1>4, <2>1, <2>2 DEF Owned
<1> QED
  BY <1>2, <1>3, <1>4 DEF Walk

\* lookup_hashed finds what the walk meets first.
LEMMA LookupWalks ==
  ASSUME TypeOK, Nest(scopes, serial), NEW i \in 1 .. Len(scopes), NEW name
  PROVE  Walk(scopes, symbol, i, name, Lookup(i, name))
<1> DEFINE declaring == {k \in Chain(i) : Declares(k, name)}
<1>1. Chain(i) = Outward(scopes, i) /\ Len(scopes) \in Nat
  <2>1. i \in 0 .. Len(scopes)
    OBVIOUS
  <2> QED
    BY <2>1, ChainIs, ScopeFacts
<1>2. \A k : Indexed(k) = Entered(scopes, symbol, k)
  BY DEF Indexed, Entered, Held
<1>3. Lookup(i, name) = IF declaring = {} THEN NULL ELSE InScope(Max(declaring), name)
  BY DEF Lookup
<1>4. \A k : k \in declaring <=> k \in Outward(scopes, i) /\ \E s \in Entered(scopes, symbol, k) : symbol[s].name = name
  BY <1>1, <1>2 DEF Declares
<1> HIDE DEF declaring
<1>5. CASE declaring = {}
  BY <1>3, <1>4, <1>5 DEF Walk
<1>6. CASE declaring # {}
  <2>1. declaring \in SUBSET (1 .. i)
    BY <1>4 DEF Outward
  <2>2. \E k \in declaring : \A l \in declaring : k >= l
    <3>1. i \in Nat
      BY <1>1
    <3>2. PICK k \in declaring : \A l \in declaring : l <= k
      BY <1>6, <2>1, <3>1, LastOfPositions
    <3>3. \A l \in declaring : k >= l
      BY <2>1, <3>2
    <3> QED
      BY <3>3
  <2>3. Max(declaring) \in declaring /\ \A l \in declaring : Max(declaring) >= l
    BY <2>2 DEF Max
  <2>4. PICK k \in declaring : k = Max(declaring) /\ \A l \in declaring : l <= k
    <3>1. PICK m : m = Max(declaring)
      OBVIOUS
    <3>2. m \in declaring /\ \A l \in declaring : m >= l
      BY <2>3, <3>1
    <3>3. \A l \in declaring : l <= m
      BY <2>1, <3>2
    <3> QED
      BY <3>1, <3>2, <3>3
  <2>5. PICK s \in Entered(scopes, symbol, k) : symbol[s].name = name /\ s = InScope(k, name)
    <3>1. \E s \in Entered(scopes, symbol, k) : symbol[s].name = name
      BY <1>4
    <3>2. InScope(k, name) \in Indexed(k) /\ symbol[InScope(k, name)].name = name
      BY <1>2, <3>1 DEF InScope
    <3> QED
      BY <1>2, <3>2
  <2>6. Lookup(i, name) = s
    BY <1>3, <1>6, <2>4, <2>5
  <2>7. \A l \in Outward(scopes, i) : \A r \in Entered(scopes, symbol, l) : symbol[r].name = name => l <= k
    BY <1>4, <2>4
  <2>8. Walk(scopes, symbol, i, name, s)
    BY <1>4, <2>5, <2>7 DEF Walk
  <2> QED
    BY <2>6, <2>8
<1> QED
  BY <1>5, <1>6

\* The innermost scope is the globals or the last one opened.
LEMMA CurrentIsLast ==
  ASSUME TypeOK, Nest(scopes, serial), Active(scopes, running)
  PROVE  /\ Len(running) \in Nat /\ Current = running[Len(running)] /\ Current \in 1 .. Len(scopes)
         /\ Current # Globals => Current = Len(scopes)
         /\ Len(running) = 1 => Current = Globals /\ Len(scopes) = 1
<1>1. Len(running) \in Nat /\ Len(running) >= 1 /\ Len(scopes) \in Nat /\ Len(scopes) >= 1 /\ running[1] = Globals
  BY LenProperties, ScopeFacts DEF TypeOK, Active, Nest
<1>2. PICK n : n = Len(running)
  OBVIOUS
<1>3. n \in 1 .. Len(running) /\ n \in Nat
  BY <1>1, <1>2
<1>4. Current = running[n] /\ running[n] \in 1 .. Len(scopes)
  BY <1>2, <1>3 DEF Current, Last, Active
<1>5. ASSUME Current # Globals
      PROVE  Current = Len(scopes)
  <2>1. running[n] # 1 /\ Len(scopes) \in 2 .. Len(scopes)
    BY <1>1, <1>4, <1>5 DEF Globals
  <2>2. PICK k \in 1 .. Len(running) : running[k] = Len(scopes)
    BY <2>1 DEF Active
  <2>3. CASE k = n
    BY <1>4, <2>2, <2>3
  <2>4. CASE k # n
    <3>1. k < n
      BY <1>2, <1>3, <2>4
    <3>2. running[k] = 1 \/ running[n] = 1 \/ running[k] < running[n]
      BY <1>3, <3>1 DEF Active, Globals
    <3>3. PICK a, b : a = running[n] /\ b = Len(scopes)
      OBVIOUS
    <3>4. a # 1 /\ a \in 1 .. b /\ b \in 2 .. b
      BY <1>4, <2>1, <3>3
    <3>5. b = 1 \/ a = 1 \/ b < a
      BY <2>2, <3>2, <3>3
    <3> QED
      BY <3>4, <3>5
  <2> QED
    BY <2>3, <2>4
<1>6. ASSUME n = 1
      PROVE  Current = Globals /\ Len(scopes) = 1
  <2>1. Current = Globals
    BY <1>1, <1>4, <1>6
  <2>2. ASSUME Len(scopes) # 1
        PROVE  FALSE
    <3>1. 2 \in 2 .. Len(scopes)
      BY <1>1, <2>2
    <3>2. PICK k \in 1 .. Len(running) : running[k] = 2
      BY <3>1 DEF Active
    <3>3. k = 1
      BY <1>2, <1>6
    <3> QED
      BY <1>1, <3>2, <3>3 DEF Globals
  <2> QED
    BY <2>1, <2>2
<1> QED
  BY <1>1, <1>2, <1>4, <1>5, <1>6

\* What is remembered and checked again is what a walk finds (resolve_again, reaches_unshadowed).
LEMMA RevalidatedWalks ==
  ASSUME IndInv, NEW u \in Uses \cup GlobalUses, ScopeOf(u) \in 1 .. Len(scopes), Revalidated(u)
  PROVE  Walk(scopes, symbol, ScopeOf(u), UsedName[u], RememberedSymbol(u))
<1>1. PICK i \in 1 .. Len(scopes) : i = ScopeOf(u)
  OBVIOUS
<1>2. PICK name : name = UsedName[u]
  OBVIOUS
<1>3. PICK home, node : home = RememberedHome(u) /\ node = RememberedSymbol(u)
  OBVIOUS
<1>4. /\ TypeOK /\ Nest(scopes, serial) /\ Owned(scopes, symbol, pool) /\ Bound(scopes, symbol, binding)
      /\ Remembers(scopes, symbol, cached[u], name, serial) /\ scopes \in Seq(Scope)
  BY <1>2 DEF IndInv, Remembered, TypeOK
<1>5. /\ Len(scopes) \in Nat /\ 1 \in 1 .. Len(scopes)
      /\ \A k \in 1 .. Len(scopes) : scopes[k].serial \in Nat \ {0}
      /\ \A k, l \in 1 .. Len(scopes) : scopes[k].serial = scopes[l].serial => k = l
  <2>1. /\ Len(scopes) \in Nat /\ 1 \in 1 .. Len(scopes)
        /\ \A k \in 1 .. Len(scopes) : scopes[k].serial \in Nat \ {0}
    BY <1>4, ScopeFacts
  <2>2. ASSUME NEW k \in 1 .. Len(scopes), NEW l \in 1 .. Len(scopes), scopes[k].serial = scopes[l].serial
        PROVE  k = l
    <3>1. \A a, b \in 1 .. Len(scopes) : a < b => scopes[a].serial < scopes[b].serial
      BY <1>4 DEF Nest
    <3>2. ~(k < l) /\ ~(l < k)
      BY <2>1, <2>2, <3>1
    <3> QED
      BY <2>1, <3>2
  <2> QED
    BY <2>1, <2>2
<1>6. /\ Chain(i) = Outward(scopes, i) /\ \A k : Indexed(k) = Entered(scopes, symbol, k)
      /\ \A k \in Outward(scopes, i) : k \in 1 .. Len(scopes)
  <2>1. i \in 0 .. Len(scopes)
    OBVIOUS
  <2>2. \A k \in 1 .. i : k \in 1 .. Len(scopes)
    BY <1>5
  <2> QED
    BY <1>4, <2>1, <2>2, ChainIs DEF Indexed, Entered, Held, Outward
\* What is remembered stands nowhere, or in the scope of that serial.
<1>7. \/ node = NULL /\ home = 0
      \/ \E k \in 1 .. Len(scopes) :
           home = scopes[k].serial /\ node \in Entered(scopes, symbol, k) /\ symbol[node].name = name
  <2>1. CASE cached[u].declaration = NULL
    <3>1. home = cached[u].home /\ node = cached[u].symbol
      BY <1>3, <2>1 DEF RememberedHome, RememberedSymbol
    <3>2. CASE node = NULL /\ home = 0
      BY <3>2
    <3>3. CASE node \in Held(scopes, 1) /\ symbol[node].name = name /\ home = 1
      <4>1. symbol[node].declaration = NULL
        BY <1>4, <1>5, <3>3 DEF Owned, Globals
      <4>2. node \in Entered(scopes, symbol, 1)
        BY <3>3, <4>1, NullAssumption, ProgramAssumption DEF Entered
      <4>3. scopes[1].serial = 1
        BY <1>4 DEF Nest
      <4> QED
        BY <1>5, <3>3, <4>2, <4>3
    <3> QED
      BY <1>4, <2>1, <3>1, <3>2, <3>3 DEF Remembers, Globals
  <2>2. CASE cached[u].declaration # NULL
    <3>1. PICK d : d = cached[u].declaration
      OBVIOUS
    <3>2. d \in Declarations
      <4>1. cached[u] \in Use
        BY <1>4 DEF TypeOK
      <4> QED
        BY <2>2, <3>1, <4>1 DEF Use
    <3>3. home = binding[d].scope /\ node = binding[d].symbol
      BY <1>3, <2>2, <3>1 DEF RememberedHome, RememberedSymbol
    <3>4. d \notin Private /\ DeclaredName[d] = name
      BY <1>4, <2>2, <3>1 DEF Remembers
    <3>5. Innermost(scopes, symbol, Len(scopes), d, node, home)
      BY <1>4, <3>2, <3>3 DEF Bound
    <3>6. CASE node = NULL /\ home = 0
      BY <3>6
    <3>7. ASSUME NEW k \in 1 .. Len(scopes), node \in Held(scopes, k), symbol[node].declaration = d,
                 home = scopes[k].serial
          PROVE  node \in Entered(scopes, symbol, k) /\ symbol[node].name = name
      <4>1. d # NULL
        BY <3>2, NullAssumption
      <4>2. k # Globals
        BY <1>4, <3>7, <4>1 DEF Owned
      <4>3. symbol[node].name = DeclaredName[d]
        BY <1>4, <3>7, <4>2 DEF Owned
      <4> QED
        BY <3>4, <3>7, <4>3 DEF Entered
    <3> QED
      BY <3>5, <3>6, <3>7 DEF Innermost
  <2> QED
    BY <2>1, <2>2
<1>8. ReachesUnshadowed(i, name, home)
  BY <1>1, <1>2, <1>3 DEF Revalidated
<1> DEFINE at == {k \in Chain(i) : scopes[k].serial = home}
           declaring == {k \in Chain(i) : Declares(k, name)}
<1>9. IF at # {} THEN \E k \in at : \A l \in declaring : l <= k ELSE declaring = {} /\ home = 0
  BY <1>8 DEF ReachesUnshadowed
<1>10. /\ \A k : k \in at <=> k \in Outward(scopes, i) /\ scopes[k].serial = home
       /\ \A k : k \in declaring <=> k \in Outward(scopes, i) /\ \E s \in Entered(scopes, symbol, k) : symbol[s].name = name
  BY <1>6 DEF Declares
<1> HIDE DEF at, declaring
<1>11. CASE at = {}
  <2>1. home = 0 /\ declaring = {}
    BY <1>9, <1>11
  <2>2. node = NULL
    BY <1>5, <1>7, <2>1
  <2>3. \A k \in Outward(scopes, i) : \A s \in Entered(scopes, symbol, k) : symbol[s].name # name
    BY <1>10, <2>1
  <2> QED
    BY <1>1, <1>2, <1>3, <2>2, <2>3 DEF Walk
<1>12. CASE at # {}
  <2>1. PICK k \in at : \A l \in declaring : l <= k
    BY <1>9, <1>12
  <2>2. k \in Outward(scopes, i) /\ k \in 1 .. Len(scopes) /\ scopes[k].serial = home
    BY <1>6, <1>10
  <2>3. node \in Entered(scopes, symbol, k) /\ symbol[node].name = name
    <3>1. home # 0
      BY <1>5, <2>2
    <3>2. PICK l \in 1 .. Len(scopes) :
             home = scopes[l].serial /\ node \in Entered(scopes, symbol, l) /\ symbol[node].name = name
      BY <1>7, <3>1
    <3>3. l = k
      BY <1>5, <2>2, <3>2
    <3> QED
      BY <3>2, <3>3
  <2>4. \A l \in Outward(scopes, i) : \A t \in Entered(scopes, symbol, l) : symbol[t].name = name => l <= k
    BY <1>10, <2>1
  <2> QED
    BY <1>1, <1>2, <1>3, <2>2, <2>3, <2>4 DEF Walk
<1> QED
  BY <1>11, <1>12

\* resolve returns what a walk finds, whichever way it takes.
LEMMA ResolvedWalks ==
  ASSUME IndInv, NEW u \in Uses \cup GlobalUses
  PROVE  ScopeOf(u) \in 1 .. Len(scopes) /\ Walk(scopes, symbol, ScopeOf(u), UsedName[u], Resolved(u))
<1>1. TypeOK /\ Nest(scopes, serial) /\ Active(scopes, running) /\ Remembered(scopes, symbol, cached, serial)
  BY DEF IndInv
<1>2. ScopeOf(u) \in 1 .. Len(scopes)
  BY <1>1, ScopeFacts, CurrentIsLast DEF ScopeOf, Globals
<1>3. CASE Fresh(u)
  <2>1. cached[u].scope = scopes[ScopeOf(u)].serial /\ cached[u].count = Cardinality(Entered(scopes, symbol, ScopeOf(u)))
    BY <1>3 DEF Fresh, Indexed, Entered, Held
  <2>2. Remembers(scopes, symbol, cached[u], UsedName[u], serial)
    BY <1>1 DEF Remembered
  <2>3. Walk(scopes, symbol, ScopeOf(u), UsedName[u], cached[u].symbol)
    BY <1>2, <2>1, <2>2 DEF Remembers
  <2> QED
    BY <1>2, <1>3, <2>3 DEF Resolved
<1>4. CASE ~Fresh(u) /\ Revalidated(u)
  BY <1>2, <1>4, RevalidatedWalks DEF Resolved
<1>5. CASE ~Fresh(u) /\ ~Revalidated(u)
  BY <1>1, <1>2, <1>5, LookupWalks DEF Resolved
<1> QED
  BY <1>3, <1>4, <1>5

-----------------------------------------------------------------------------
(* The actions preserve the invariant. *)

\* It holds at first: the globals alone, nothing remembered.
LEMMA InitIndInv == Init => IndInv
<1> SUFFICES ASSUME Init
             PROVE  IndInv
  OBVIOUS
<1>1. PICK g : g = [serial |-> 1, block |-> NULL, parent |-> 0, symbols |-> <<>>]
  OBVIOUS
<1>2. g \in Scope /\ g.serial = 1 /\ g.block = NULL /\ g.parent = 0 /\ g.symbols = <<>>
  <2>1. <<>> \in Seq(SymbolNodes)
    BY EmptySeq
  <2> QED
    BY <1>1, <2>1 DEF Scope
<1>3. scopes = <<g>> /\ Len(scopes) = 1 /\ scopes[1] = g /\ scopes \in Seq(Scope)
  BY <1>1, <1>2 DEF Init
<1>4. running = <<1>> /\ Len(running) = 1 /\ running[1] = 1 /\ running \in Seq(Nat)
  BY DEF Init, Globals
<1>5. \A i \in 1 .. Len(scopes) : i = 1 /\ Held(scopes, i) = {} /\ \A sy : Entered(scopes, sy, i) = {}
  BY <1>2, <1>3 DEF Held, Range, Entered
<1>6. TypeOK
  <2>1. symbol \in [SymbolNodes -> Symbol]
    <3>1. (CHOOSE n \in Names : TRUE) \in Names
      BY ProgramAssumption
    <3> QED
      BY <3>1 DEF Init, Symbol
  <2>2. binding \in [Declarations -> Binding] /\ cached \in [Uses \cup GlobalUses -> Use]
    BY DEF Init, Binding, Use
  <2>3. serial \in Nat /\ pool \in SUBSET SymbolNodes
    BY DEF Init
  <2> QED
    BY <1>3, <1>4, <2>1, <2>2, <2>3 DEF TypeOK
<1>7. Nest(scopes, serial)
  <2>1. serial = 1 /\ \A i \in 1 .. Len(scopes) : scopes[i].serial = 1
    BY <1>2, <1>3, <1>5 DEF Init
  <2>2. \A i \in 2 .. Len(scopes) : FALSE
    BY <1>3
  <2>3. \A i, j \in 1 .. Len(scopes) : ~(i < j)
    BY <1>5
  <2> QED
    BY <1>2, <1>3, <2>1, <2>2, <2>3 DEF Nest
<1>8. Active(scopes, running)
  BY <1>3, <1>4 DEF Active, Globals
<1>9. Owned(scopes, symbol, pool)
  BY <1>5 DEF Owned
<1>10. Bound(scopes, symbol, binding)
  <2>1. \A d \in Declarations : binding[d].symbol = NULL /\ binding[d].scope = 0
    BY DEF Init
  <2>2. \A i \in 2 .. Len(scopes) : FALSE
    BY <1>3
  <2> QED
    BY <1>5, <2>1, <2>2 DEF Bound, Innermost
<1>11. Remembered(scopes, symbol, cached, serial)
  <2>1. \A u \in Uses \cup GlobalUses : /\ cached[u].symbol = NULL /\ cached[u].declaration = NULL
                                        /\ cached[u].scope = 0 /\ cached[u].home = 0
    BY DEF Init
  <2>2. serial = 1 /\ \A i \in 1 .. Len(scopes) : scopes[i].serial = 1
    BY <1>2, <1>3, <1>5 DEF Init
  <2> QED
    BY <2>1, <2>2 DEF Remembered, Remembers
<1> QED
  BY <1>6, <1>7, <1>8, <1>9, <1>10, <1>11 DEF IndInv

\* A scope opened on the globals or inside the innermost one (scope_open).
LEMMA OpenIndInv ==
  ASSUME IndInv, NEW block \in Blocks, NEW parent \in 1 .. Len(scopes), Open(block, parent),
         parent \in {1, Len(scopes)}, Enclosing[block] = scopes[parent].block
  PROVE  IndInv'
<1>1. /\ TypeOK /\ Nest(scopes, serial) /\ Active(scopes, running) /\ Owned(scopes, symbol, pool)
      /\ Bound(scopes, symbol, binding) /\ Remembered(scopes, symbol, cached, serial)
      /\ scopes \in Seq(Scope) /\ running \in Seq(Nat) /\ serial \in Nat
  BY DEF IndInv, TypeOK
<1>2. PICK n : n = Len(scopes)
  OBVIOUS
<1>3. n \in Nat /\ n >= 1 /\ n + 1 \in 2 .. n + 1 /\ n + 1 - 1 = n /\ \A i \in 1 .. n + 1 : i = n + 1 \/ i \in 1 .. n
  BY <1>1, <1>2, ScopeFacts
<1>4. PICK new : new = [serial |-> serial + 1, block |-> block, parent |-> parent, symbols |-> <<>>]
  OBVIOUS
<1>5. /\ new \in Scope /\ new.serial = serial + 1 /\ new.block = block /\ new.parent = parent /\ new.symbols = <<>>
      /\ serial + 1 \in Nat
  <2>1. <<>> \in Seq(SymbolNodes)
    BY EmptySeq
  <2>2. parent \in Nat /\ serial + 1 \in Nat
    BY <1>1, <1>2, <1>3
  <2> QED
    BY <1>4, <2>1, <2>2 DEF Scope
<1>6. PICK sc \in Seq(Scope) : /\ sc = scopes' /\ Len(sc) = n + 1 /\ sc[n + 1] = new
                               /\ \A i \in 1 .. n : sc[i] = scopes[i]
  <2>1. scopes' = Append(scopes, new)
    BY <1>4 DEF Open
  <2>2. /\ Append(scopes, new) \in Seq(Scope) /\ Len(Append(scopes, new)) = Len(scopes) + 1
        /\ \A i \in 1 .. Len(scopes) : Append(scopes, new)[i] = scopes[i]
        /\ Append(scopes, new)[Len(scopes) + 1] = new
    BY <1>1, <1>5, AppendProperties
  <2> QED
    BY <1>2, <2>1, <2>2
<1>7. /\ Held(sc, n + 1) = {} /\ \A sy : Entered(sc, sy, n + 1) = {}
      /\ \A i \in 1 .. n : Held(sc, i) = Held(scopes, i) /\ Entered(sc, symbol, i) = Entered(scopes, symbol, i)
  BY <1>5, <1>6 DEF Held, Entered, Range
<1>8. /\ serial' = serial + 1 /\ symbol' = symbol /\ pool' = pool /\ binding' = binding /\ cached' = cached
      /\ running' = Append(running, n + 1)
  BY <1>2 DEF Open
<1>9. TypeOK'
  <2>1. running' \in Seq(Nat)
    BY <1>1, <1>3, <1>8, AppendProperties
  <2> QED
    BY <1>1, <1>5, <1>6, <1>8, <2>1 DEF TypeOK
<1>10. Nest(sc, serial + 1)
  <2>1. /\ Len(sc) >= 1 /\ sc[1].serial = 1 /\ sc[1].block = NULL /\ sc[1].parent = 0
    <3>1. 1 \in 1 .. n /\ n + 1 >= 1
      BY <1>3
    <3> QED
      BY <1>1, <1>6, <3>1 DEF Nest
  <2>2. ASSUME NEW i \in 1 .. n
        PROVE  sc[i].serial >= 1 /\ sc[i].serial <= serial + 1 /\ sc[i].serial < new.serial
    <3>1. scopes[i].serial >= 1 /\ scopes[i].serial <= serial /\ scopes[i].serial \in Nat
      BY <1>1, <1>2, HeldTypes DEF Nest
    <3> QED
      BY <1>1, <1>5, <1>6, <3>1
  <2>3. \A i \in 1 .. n + 1 : sc[i].serial >= 1 /\ sc[i].serial <= serial + 1
    <3>1. sc[n + 1].serial >= 1 /\ sc[n + 1].serial <= serial + 1
      BY <1>1, <1>5, <1>6
    <3> QED
      BY <1>3, <2>2, <3>1
  <2>4. ASSUME NEW i \in 1 .. n + 1, NEW j \in 1 .. n + 1, i < j
        PROVE  sc[i].serial < sc[j].serial
    <3>1. i \in 1 .. n
      BY <1>3, <2>4
    <3>2. CASE j = n + 1
      BY <1>6, <2>2, <3>1, <3>2
    <3>3. CASE j \in 1 .. n
      <4>1. scopes[i].serial < scopes[j].serial
        BY <1>1, <1>2, <2>4, <3>1, <3>3 DEF Nest
      <4> QED
        BY <1>6, <3>1, <3>3, <4>1
    <3> QED
      BY <1>3, <3>2, <3>3
  <2>5. ASSUME NEW i \in 2 .. n + 1
        PROVE  sc[i].block \in Blocks /\ sc[i].parent \in {1, i - 1} /\ Enclosing[sc[i].block] = sc[sc[i].parent].block
    <3>1. CASE i = n + 1
      <4>1. sc[parent] = scopes[parent]
        BY <1>2, <1>6
      <4> QED
        BY <1>2, <1>3, <1>5, <1>6, <3>1, <4>1
    <3>2. CASE i # n + 1
      <4>1. i \in 2 .. n /\ i \in 1 .. n /\ i - 1 \in 1 .. n /\ 1 \in 1 .. n
        BY <1>3, <3>2
      <4>2. /\ scopes[i].block \in Blocks /\ scopes[i].parent \in {1, i - 1}
            /\ Enclosing[scopes[i].block] = scopes[scopes[i].parent].block
        BY <1>1, <1>2, <4>1 DEF Nest
      <4> QED
        BY <1>6, <4>1, <4>2
    <3> QED
      BY <3>1, <3>2
  <2> QED
    BY <1>6, <2>1, <2>3, <2>4, <2>5 DEF Nest
<1>11. Active(sc, running')
  <2>1. PICK ru \in Seq(Nat), m \in Nat :
          /\ ru = running' /\ m = Len(running) /\ Len(ru) = m + 1 /\ ru[m + 1] = n + 1 /\ m >= 1
          /\ \A k \in 1 .. m : ru[k] = running[k]
    <3>1. Len(running) \in Nat /\ Len(running) >= 1
      BY <1>1, LenProperties DEF Active
    <3>2. /\ Append(running, n + 1) \in Seq(Nat) /\ Len(Append(running, n + 1)) = Len(running) + 1
          /\ \A k \in 1 .. Len(running) : Append(running, n + 1)[k] = running[k]
          /\ Append(running, n + 1)[Len(running) + 1] = n + 1
      BY <1>1, <1>3, AppendProperties
    <3> QED
      BY <1>8, <3>1, <3>2
  <2>2. 1 \in 1 .. m /\ m + 1 \in 1 .. m + 1 /\ \A k \in 1 .. m + 1 : k = m + 1 \/ k \in 1 .. m
    BY <2>1
  <2>3. \A k \in 1 .. m : k \in 1 .. m + 1 /\ running[k] \in 1 .. n
    BY <1>1, <1>2, <2>1 DEF Active
  <2>4. ASSUME NEW k \in 1 .. m + 1
        PROVE  ru[k] \in 1 .. n + 1
    <3>1. CASE k = m + 1
      BY <1>3, <2>1, <3>1
    <3>2. CASE k \in 1 .. m
      <4>1. ru[k] \in 1 .. n
        BY <2>1, <2>3, <3>2
      <4> QED
        BY <1>3, <4>1
    <3> QED
      BY <2>2, <3>1, <3>2
  <2>5. ASSUME NEW k \in 1 .. m + 1, NEW l \in 1 .. m + 1, k < l
        PROVE  ru[k] = Globals \/ ru[l] = Globals \/ ru[k] < ru[l]
    <3>1. k \in 1 .. m
      BY <2>1, <2>5
    <3>2. CASE l = m + 1
      <4>1. ru[k] \in 1 .. n /\ ru[l] = n + 1
        BY <2>1, <2>3, <3>1, <3>2
      <4> QED
        BY <1>3, <4>1
    <3>3. CASE l \in 1 .. m
      BY <1>1, <2>1, <2>5, <3>1, <3>3 DEF Active
    <3> QED
      BY <2>2, <3>2, <3>3
  <2>6. ASSUME NEW i \in 2 .. n + 1
        PROVE  \E k \in 1 .. m + 1 : ru[k] = i
    <3>1. CASE i = n + 1
      BY <2>1, <2>2, <3>1
    <3>2. CASE i # n + 1
      <4>1. i \in 2 .. Len(scopes)
        BY <1>2, <1>3, <3>2
      <4>2. PICK k \in 1 .. m : running[k] = i
        BY <1>1, <2>1, <4>1 DEF Active
      <4> QED
        BY <2>1, <2>3, <4>2
    <3> QED
      BY <3>1, <3>2
  <2>7. Len(ru) >= 1 /\ ru[1] = Globals
    BY <1>1, <2>1, <2>2 DEF Active
  <2>8. Active(sc, ru)
    BY <1>6, <2>1, <2>4, <2>5, <2>6, <2>7 DEF Active
  <2> QED
    BY <2>1, <2>8
<1>12. Owned(sc, symbol, pool)
  <2>1. \A i \in 1 .. n + 1 : \A s \in Held(sc, i) : i \in 1 .. n /\ s \in Held(scopes, i)
    BY <1>3, <1>7
  <2>2. ASSUME NEW i \in 1 .. n, NEW s \in Held(scopes, i)
        PROVE  /\ s \notin pool /\ symbol[s].home = sc[i].serial
               /\ symbol[s].declaration = NULL <=> i = Globals
               /\ i # Globals => /\ Block[symbol[s].declaration] = sc[i].block
                                 /\ symbol[s].name = DeclaredName[symbol[s].declaration]
               /\ \A j \in 1 .. n : s \in Held(scopes, j) => j = i
               /\ \A t \in Held(scopes, i) : i # Globals /\ symbol[t].declaration = symbol[s].declaration => t = s
    BY <1>1, <1>2, <1>6 DEF Owned
  <2>3. ASSUME NEW i \in 1 .. n + 1, NEW s \in Entered(sc, symbol, i), NEW t \in Entered(sc, symbol, i),
               symbol[s].name = symbol[t].name
        PROVE  s = t
    <3>1. i \in 1 .. n /\ s \in Entered(scopes, symbol, i) /\ t \in Entered(scopes, symbol, i)
      BY <1>3, <1>7
    <3> QED
      BY <1>1, <1>2, <2>3, <3>1 DEF Owned
  <2>4. ASSUME NEW i \in 1 .. n + 1, NEW s \in Held(sc, i)
        PROVE  /\ s \notin pool /\ symbol[s].home = sc[i].serial
               /\ symbol[s].declaration = NULL <=> i = Globals
               /\ i # Globals => /\ Block[symbol[s].declaration] = sc[i].block
                                 /\ symbol[s].name = DeclaredName[symbol[s].declaration]
               /\ \A j \in 1 .. n + 1 : s \in Held(sc, j) => j = i
               /\ \A t \in Held(sc, i) : i # Globals /\ symbol[t].declaration = symbol[s].declaration => t = s
    <3>1. i \in 1 .. n /\ s \in Held(scopes, i)
      BY <2>1
    <3>2. \A j \in 1 .. n + 1 : s \in Held(sc, j) => j = i
      BY <2>1, <2>2, <3>1
    <3>3. \A t \in Held(sc, i) : i # Globals /\ symbol[t].declaration = symbol[s].declaration => t = s
      BY <2>1, <2>2, <3>1
    <3> QED
      BY <2>2, <3>1, <3>2, <3>3
  <2> QED
    BY <1>6, <2>3, <2>4 DEF Owned
<1>13. Bound(sc, symbol, binding)
  <2>1. \A i \in 1 .. n : sc[i] = scopes[i] /\ \A s \in Held(scopes, i) : symbol[s] = symbol[s]
    BY <1>6
  <2>2. ASSUME NEW d \in Declarations
        PROVE  Innermost(sc, symbol, n + 1, d, binding[d].symbol, binding[d].scope)
    <3>1. PICK node, home : node = binding[d].symbol /\ home = binding[d].scope
      OBVIOUS
    <3>2. Innermost(scopes, symbol, n, d, node, home)
      BY <1>1, <1>2, <3>1 DEF Bound
    <3>3. n \in 0 .. n
      BY <1>3
    <3>4. Innermost(sc, symbol, n, d, node, home)
      BY <1>3, <2>1, <3>2, <3>3, SameInnermost
    <3>5. Innermost(sc, symbol, n + 1, d, node, home)
      <4>1. CASE node = NULL /\ home = 0 /\ \A i \in 1 .. n : \A s \in Held(sc, i) : symbol[s].declaration # d
        BY <1>3, <1>7, <4>1 DEF Innermost
      <4>2. ASSUME NEW i \in 1 .. n, node \in Held(sc, i), symbol[node].declaration = d, home = sc[i].serial,
                   \A j \in i + 1 .. n : \A s \in Held(sc, j) : symbol[s].declaration # d
            PROVE  Innermost(sc, symbol, n + 1, d, node, home)
        <5>1. i \in 1 .. n + 1 /\ \A j \in i + 1 .. n + 1 : j = n + 1 \/ j \in i + 1 .. n
          BY <1>3
        <5> QED
          BY <1>7, <4>2, <5>1 DEF Innermost
      <4> QED
        BY <3>4, <4>1, <4>2 DEF Innermost
    <3> QED
      BY <3>1, <3>5
  <2>3. ASSUME NEW i \in 2 .. n + 1, NEW s \in Held(sc, i)
        PROVE  Innermost(sc, symbol, i - 1, symbol[s].declaration, symbol[s].shadowed, symbol[s].shadowedScope)
    <3>1. i \in 2 .. n /\ i - 1 \in 0 .. n /\ s \in Held(scopes, i)
      <4>1. i # n + 1
        BY <1>7
      <4>2. i \in 2 .. n /\ i \in 1 .. n /\ i - 1 \in 0 .. n
        BY <1>3, <4>1
      <4> QED
        BY <1>7, <4>2
    <3>2. Innermost(scopes, symbol, i - 1, symbol[s].declaration, symbol[s].shadowed, symbol[s].shadowedScope)
      BY <1>1, <1>2, <3>1 DEF Bound
    <3>3. PICK m, d, node, home :
            m = i - 1 /\ d = symbol[s].declaration /\ node = symbol[s].shadowed /\ home = symbol[s].shadowedScope
      OBVIOUS
    <3>4. m \in 0 .. n /\ Innermost(scopes, symbol, m, d, node, home)
      BY <3>1, <3>2, <3>3
    <3>5. Innermost(sc, symbol, m, d, node, home)
      BY <1>3, <2>1, <3>4, SameInnermost
    <3> QED
      BY <3>3, <3>5
  <2> QED
    BY <1>6, <2>2, <2>3 DEF Bound
<1>14. Remembered(sc, symbol, cached, serial + 1)
  <2>1. ASSUME NEW u \in Uses \cup GlobalUses
        PROVE  Remembers(sc, symbol, cached[u], UsedName[u], serial + 1)
    <3>1. PICK c, name : c = cached[u] /\ name = UsedName[u]
      OBVIOUS
    <3>2. Remembers(scopes, symbol, c, name, serial) /\ c \in Use
      BY <1>1, <3>1 DEF Remembered, TypeOK
    <3>3. c.scope \in Nat /\ c.scope <= serial
      BY <3>2 DEF Use, Remembers
    <3>4. c.scope <= serial + 1 /\ c.scope # new.serial
      BY <1>1, <1>5, <3>3
    <3>5. Held(sc, Globals) = Held(scopes, Globals)
      BY <1>3, <1>7 DEF Globals
    <3>6. ASSUME NEW i \in 1 .. n + 1, c.scope = sc[i].serial
          PROVE  /\ c.count <= Cardinality(Entered(sc, symbol, i))
                 /\ c.count = Cardinality(Entered(sc, symbol, i)) => Walk(sc, symbol, i, name, c.symbol)
      <4>1. i \in 1 .. n
        BY <1>3, <1>6, <3>4, <3>6
      <4>2. /\ c.count <= Cardinality(Entered(scopes, symbol, i))
            /\ c.count = Cardinality(Entered(scopes, symbol, i)) => Walk(scopes, symbol, i, name, c.symbol)
        BY <1>2, <1>6, <3>2, <3>6, <4>1 DEF Remembers
      <4>3. \A j \in 1 .. n : /\ sc[j].parent = scopes[j].parent /\ Entered(sc, symbol, j) = Entered(scopes, symbol, j)
                              /\ \A s \in Entered(scopes, symbol, j) : symbol[s].name = symbol[s].name
        BY <1>6, <1>7
      <4>4. Walk(scopes, symbol, i, name, c.symbol) => Walk(sc, symbol, i, name, c.symbol)
        BY <1>3, <4>1, <4>3, SameWalk
      <4> QED
        BY <1>7, <4>1, <4>2, <4>4
    <3>7. Remembers(sc, symbol, c, name, serial + 1)
      BY <1>6, <3>2, <3>4, <3>5, <3>6 DEF Remembers
    <3> QED
      BY <3>1, <3>7
  <2> QED
    BY <2>1 DEF Remembered
<1> QED
  BY <1>6, <1>8, <1>9, <1>10, <1>11, <1>12, <1>13, <1>14 DEF IndInv

\* A call in the globals, and the return from one, disturb no activation.
LEMMA BareActivations ==
  ASSUME NEW sc \in Seq(Scope), Len(sc) >= 1, NEW ru \in Seq(Nat), Active(sc, ru)
  PROVE  /\ Append(ru, Globals) \in Seq(Nat) /\ Active(sc, Append(ru, Globals))
         /\ Len(ru) > 1 => Front(ru) \in Seq(Nat)
         /\ Len(ru) > 1 /\ ru[Len(ru)] = Globals => Active(sc, Front(ru))
<1>1. PICK m : m = Len(ru)
  OBVIOUS
<1>2. m \in Nat /\ m >= 1 /\ Len(sc) \in Nat /\ 1 \in Nat
  BY <1>1, LenProperties DEF Active
<1>3. /\ ru[1] = 1 /\ \A k \in 1 .. m : ru[k] \in 1 .. Len(sc)
      /\ \A k, l \in 1 .. m : k < l => ru[k] = 1 \/ ru[l] = 1 \/ ru[k] < ru[l]
      /\ \A i \in 2 .. Len(sc) : \E k \in 1 .. m : ru[k] = i
  BY <1>1 DEF Active, Globals
<1>4. PICK r \in Seq(Nat) : /\ r = Append(ru, Globals) /\ Len(r) = m + 1 /\ r[m + 1] = 1
                            /\ \A k \in 1 .. m : r[k] = ru[k]
  <2>1. /\ Append(ru, 1) \in Seq(Nat) /\ Len(Append(ru, 1)) = Len(ru) + 1
        /\ \A k \in 1 .. Len(ru) : Append(ru, 1)[k] = ru[k]
        /\ Append(ru, 1)[Len(ru) + 1] = 1
    BY <1>2, AppendProperties
  <2> QED
    BY <1>1, <2>1 DEF Globals
<1>5. Active(sc, r)
  <2>1. 1 \in 1 .. m /\ \A k \in 1 .. m + 1 : k = m + 1 \/ k \in 1 .. m
    BY <1>2
  <2>2. \A k \in 1 .. m : k \in 1 .. m + 1
    BY <1>2
  <2>3. \A k \in 1 .. m + 1 : r[k] \in 1 .. Len(sc)
    <3>1. 1 \in 1 .. Len(sc)
      BY <1>2
    <3> QED
      BY <1>3, <1>4, <2>1, <3>1
  <2>4. ASSUME NEW k \in 1 .. m + 1, NEW l \in 1 .. m + 1, k < l
        PROVE  r[k] = 1 \/ r[l] = 1 \/ r[k] < r[l]
    BY <1>3, <1>4, <2>1, <2>4
  <2>5. \A i \in 2 .. Len(sc) : \E k \in 1 .. m + 1 : r[k] = i
    BY <1>3, <1>4, <2>2
  <2>6. Len(r) >= 1 /\ r[1] = 1
    BY <1>2, <1>3, <1>4, <2>1
  <2> QED
    BY <1>4, <2>3, <2>4, <2>5, <2>6 DEF Active, Globals
<1>6. ASSUME Len(ru) > 1
      PROVE  /\ Front(ru) \in Seq(Nat)
             /\ ru[Len(ru)] = Globals => Active(sc, Front(ru))
  <2>1. PICK f \in Seq(Nat) : f = Front(ru) /\ Len(f) = m - 1 /\ \A k \in 1 .. m - 1 : f[k] = ru[k]
    <3>1. ru # <<>>
      BY <1>6, EmptySeq
    <3>2. /\ Front(ru) \in Seq(Nat) /\ Len(Front(ru)) = Len(ru) - 1
          /\ \A k \in 1 .. Len(ru) - 1 : Front(ru)[k] = ru[k]
      BY <3>1, FrontProperties
    <3> QED
      BY <1>1, <3>2
  <2>2. 1 \in 1 .. m - 1 /\ \A k \in 1 .. m - 1 : k \in 1 .. m
    BY <1>1, <1>2, <1>6
  <2>3. ASSUME ru[m] = 1
        PROVE  Active(sc, f)
    <3>1. ASSUME NEW i \in 2 .. Len(sc)
          PROVE  \E k \in 1 .. m - 1 : f[k] = i
      <4>1. PICK k \in 1 .. m : ru[k] = i
        BY <1>3
      <4>2. k # m
        BY <2>3, <4>1
      <4>3. k \in 1 .. m - 1
        BY <1>2, <4>2
      <4> QED
        BY <2>1, <4>1, <4>3
    <3>2. \A k, l \in 1 .. m - 1 : k < l => f[k] = 1 \/ f[l] = 1 \/ f[k] < f[l]
      BY <1>3, <2>1, <2>2
    <3>3. Len(f) >= 1 /\ f[1] = 1 /\ \A k \in 1 .. m - 1 : f[k] \in 1 .. Len(sc)
      BY <1>1, <1>2, <1>3, <1>6, <2>1, <2>2
    <3> QED
      BY <2>1, <3>1, <3>2, <3>3 DEF Active, Globals
  <2> QED
    BY <1>1, <2>1, <2>3 DEF Globals
<1> QED
  BY <1>4, <1>5, <1>6

\* A step that only begins or ends an activation in the globals.
LEMMA BareIndInv ==
  ASSUME IndInv, UNCHANGED <<scopes, symbol, pool, binding, cached, serial>>,
         running' \in Seq(Nat), Active(scopes, running')
  PROVE  IndInv'
<1>1. /\ scopes' = scopes /\ symbol' = symbol /\ pool' = pool /\ binding' = binding
      /\ cached' = cached /\ serial' = serial
  OBVIOUS
<1>2. TypeOK'
  BY <1>1 DEF IndInv, TypeOK
<1>3. /\ Nest(scopes, serial) /\ Owned(scopes, symbol, pool)
      /\ Bound(scopes, symbol, binding) /\ Remembered(scopes, symbol, cached, serial)
  BY DEF IndInv
<1> QED
  BY <1>1, <1>2, <1>3 DEF IndInv

\* What ending the innermost scope leaves every declaration bound to (scope_clear).
LEMMA UnboundAs ==
  ASSUME TypeOK, NEW i \in 1 .. Len(scopes), NEW d \in Declarations
  PROVE  \/ /\ Unbound(scopes[i].symbols)[d] = binding[d]
            /\ \A s \in Held(scopes, i) : symbol[s].declaration # d
         \/ \E s \in Held(scopes, i) :
              /\ symbol[s].declaration = d
              /\ Unbound(scopes[i].symbols)[d] = [symbol |-> symbol[s].shadowed, scope |-> symbol[s].shadowedScope]
<1>1. PICK q \in Seq(SymbolNodes) : q = scopes[i].symbols
  BY HeldTypes DEF TypeOK
<1>2. Len(q) \in Nat /\ DOMAIN q = 1 .. Len(q) /\ Held(scopes, i) = {q[k] : k \in 1 .. Len(q)}
  BY <1>1, LenProperties DEF Held, Range
<1>3. PICK of : of = Declaring(q, d)
  OBVIOUS
<1>4. \A k : k \in of <=> k \in 1 .. Len(q) /\ symbol[q[k]].declaration = d
  BY <1>2, <1>3 DEF Declaring
<1>5. Unbound(q)[d] = IF of = {} THEN binding[d]
                      ELSE [symbol |-> symbol[q[Max(of)]].shadowed, scope |-> symbol[q[Max(of)]].shadowedScope]
  BY <1>3 DEF Unbound
<1>6. CASE of = {}
  BY <1>1, <1>2, <1>4, <1>5, <1>6
<1>7. CASE of # {}
  <2>1. of \in SUBSET (1 .. Len(q))
    BY <1>4
  <2>2. PICK k \in of : \A l \in of : l <= k
    BY <1>2, <1>7, <2>1, LastOfPositions
  <2>3. \A l \in of : k >= l
    BY <2>1, <2>2
  <2>4. Max(of) \in of
    BY <2>3 DEF Max
  <2>5. PICK m \in of : m = Max(of)
    BY <2>4
  <2>6. q[m] \in Held(scopes, i) /\ symbol[q[m]].declaration = d
    BY <1>2, <1>4, <2>5
  <2> QED
    BY <1>1, <1>5, <1>7, <2>5, <2>6
<1> QED
  BY <1>6, <1>7

\* The end of a scope.
LEMMA LeaveIndInv ==
  ASSUME IndInv, Leave, Current # Globals
  PROVE  IndInv'
<1>1. /\ TypeOK /\ Nest(scopes, serial) /\ Active(scopes, running) /\ Owned(scopes, symbol, pool)
      /\ Bound(scopes, symbol, binding) /\ Remembered(scopes, symbol, cached, serial)
      /\ scopes \in Seq(Scope) /\ running \in Seq(Nat) /\ symbol \in [SymbolNodes -> Symbol]
  BY DEF IndInv, TypeOK
<1>2. PICK n : n = Len(scopes)
  OBVIOUS
<1>3. /\ n \in Nat /\ n >= 2 /\ Current = n /\ n \in 1 .. n /\ n \in 2 .. n /\ n - 1 \in Nat /\ n - 1 >= 1
      /\ \A i \in 1 .. n : i = n \/ i \in 1 .. n - 1
      /\ \A i \in 1 .. n - 1 : i \in 1 .. n /\ i # n
  <2>1. n \in Nat /\ Current = n /\ Current \in 1 .. n /\ Current # 1
    BY <1>1, <1>2, ScopeFacts, CurrentIsLast DEF Globals
  <2> QED
    BY <2>1
<1>4. PICK sc \in Seq(Scope) : sc = scopes' /\ Len(sc) = n - 1 /\ \A i \in 1 .. n - 1 : sc[i] = scopes[i]
  <2>1. scopes # <<>>
    BY <1>2, <1>3, EmptySeq
  <2>2. /\ Front(scopes) \in Seq(Scope) /\ Len(Front(scopes)) = Len(scopes) - 1
        /\ \A k \in 1 .. Len(scopes) - 1 : Front(scopes)[k] = scopes[k]
    BY <1>1, <2>1, FrontProperties
  <2> QED
    BY <1>2, <2>2 DEF Leave
<1>5. \A i \in 1 .. n - 1 : Held(sc, i) = Held(scopes, i) /\ Entered(sc, symbol, i) = Entered(scopes, symbol, i)
  BY <1>4 DEF Held, Entered
<1>6. /\ serial' = serial /\ symbol' = symbol /\ cached' = cached /\ running' = Front(running) /\ Len(running) > 1
      /\ pool' = pool \cup Held(scopes, n) /\ binding' = Unbound(scopes[n].symbols)
  BY <1>3 DEF Leave, Held
<1>7. PICK bi : bi = binding'
  OBVIOUS
<1>8. ASSUME NEW d \in Declarations
      PROVE  /\ bi[d] \in Binding
             /\ Innermost(scopes, symbol, n - 1, d, bi[d].symbol, bi[d].scope)
  <2>1. bi[d] = Unbound(scopes[n].symbols)[d]
    BY <1>6, <1>7
  <2>2. CASE bi[d] = binding[d] /\ \A s \in Held(scopes, n) : symbol[s].declaration # d
    <3>1. PICK node, home : node = bi[d].symbol /\ home = bi[d].scope
      OBVIOUS
    <3>2. Innermost(scopes, symbol, n, d, node, home)
      BY <1>1, <1>2, <2>2, <3>1 DEF Bound
    <3>3. n \in Nat \ {0}
      BY <1>3
    <3>4. Innermost(scopes, symbol, n - 1, d, node, home)
      BY <2>2, <3>2, <3>3, InnermostBelow
    <3>5. binding[d] \in Binding
      BY <1>1 DEF TypeOK
    <3>6. bi[d] \in Binding
      BY <2>2, <3>5
    <3> QED
      BY <3>1, <3>4, <3>6
  <2>3. ASSUME NEW s \in Held(scopes, n), symbol[s].declaration = d,
               bi[d] = [symbol |-> symbol[s].shadowed, scope |-> symbol[s].shadowedScope]
        PROVE  bi[d] \in Binding /\ Innermost(scopes, symbol, n - 1, d, bi[d].symbol, bi[d].scope)
    <3>1. Innermost(scopes, symbol, n - 1, symbol[s].declaration, symbol[s].shadowed, symbol[s].shadowedScope)
      BY <1>1, <1>2, <1>3 DEF Bound
    <3>2. bi[d].symbol = symbol[s].shadowed /\ bi[d].scope = symbol[s].shadowedScope
      BY <2>3
    <3>3. s \in SymbolNodes
      BY <1>1, <1>2, <1>3, HeldTypes
    <3>4. symbol[s] \in Symbol
      BY <1>1, <3>3
    <3>5. bi[d] \in Binding
      BY <2>3, <3>4 DEF Symbol, Binding
    <3> QED
      BY <2>3, <3>1, <3>2, <3>5
  <2>4. \/ bi[d] = binding[d] /\ \A s \in Held(scopes, n) : symbol[s].declaration # d
        \/ \E s \in Held(scopes, n) :
             /\ symbol[s].declaration = d
             /\ bi[d] = [symbol |-> symbol[s].shadowed, scope |-> symbol[s].shadowedScope]
    <3>1. n \in 1 .. Len(scopes)
      BY <1>2, <1>3
    <3>2. \/ Unbound(scopes[n].symbols)[d] = binding[d] /\ \A s \in Held(scopes, n) : symbol[s].declaration # d
          \/ \E s \in Held(scopes, n) :
               /\ symbol[s].declaration = d
               /\ Unbound(scopes[n].symbols)[d] = [symbol |-> symbol[s].shadowed, scope |-> symbol[s].shadowedScope]
      BY <1>1, <3>1, UnboundAs, Zenon
    <3> QED
      BY <2>1, <3>2, Zenon
  <2> QED
    BY <2>2, <2>3, <2>4
<1>9. TypeOK'
  <2>1. running' \in Seq(Nat)
    BY <1>1, <1>2, <1>3, <1>6, BareActivations
  <2>2. pool' \in SUBSET SymbolNodes
    BY <1>1, <1>2, <1>3, <1>6, HeldTypes DEF TypeOK
  <2>3. binding' \in [Declarations -> Binding]
    <3>1. bi = [d \in Declarations |-> bi[d]]
      BY <1>6, <1>7 DEF Unbound
    <3> QED
      BY <1>7, <1>8, <3>1
  <2> QED
    BY <1>1, <1>4, <1>6, <2>1, <2>2, <2>3 DEF TypeOK
<1>10. Nest(sc, serial)
  <2>1. /\ Len(sc) >= 1 /\ sc[1].serial = 1 /\ sc[1].block = NULL /\ sc[1].parent = 0
    <3>1. 1 \in 1 .. n - 1
      BY <1>3
    <3> QED
      BY <1>1, <1>3, <1>4, <3>1 DEF Nest
  <2>2. /\ \A i \in 1 .. n - 1 : sc[i].serial >= 1 /\ sc[i].serial <= serial
        /\ \A i, j \in 1 .. n - 1 : i < j => sc[i].serial < sc[j].serial
    BY <1>1, <1>2, <1>3, <1>4 DEF Nest
  <2>3. ASSUME NEW i \in 2 .. n - 1
        PROVE  sc[i].block \in Blocks /\ sc[i].parent \in {1, i - 1} /\ Enclosing[sc[i].block] = sc[sc[i].parent].block
    <3>1. i \in 2 .. n /\ i \in 1 .. n - 1 /\ i - 1 \in 1 .. n - 1 /\ 1 \in 1 .. n - 1
      BY <1>3
    <3>2. /\ scopes[i].block \in Blocks /\ scopes[i].parent \in {1, i - 1}
          /\ Enclosing[scopes[i].block] = scopes[scopes[i].parent].block
      BY <1>1, <1>2, <3>1 DEF Nest
    <3> QED
      BY <1>4, <3>1, <3>2
  <2> QED
    BY <1>4, <2>1, <2>2, <2>3 DEF Nest
<1>11. Active(sc, running')
  <2>1. PICK f \in Seq(Nat), m \in Nat : /\ f = running' /\ m = Len(running) /\ Len(f) = m - 1 /\ m > 1
                                         /\ \A k \in 1 .. m - 1 : f[k] = running[k]
    <3>1. running # <<>> /\ Len(running) \in Nat
      BY <1>1, <1>6, EmptySeq, LenProperties
    <3>2. /\ Front(running) \in Seq(Nat) /\ Len(Front(running)) = Len(running) - 1
          /\ \A k \in 1 .. Len(running) - 1 : Front(running)[k] = running[k]
      BY <1>1, <3>1, FrontProperties
    <3> QED
      BY <1>6, <3>1, <3>2
  <2>2. 1 \in 1 .. m - 1 /\ m \in 1 .. m /\ \A k \in 1 .. m - 1 : k \in 1 .. m /\ k < m
    BY <2>1
  <2>3. /\ running[1] = 1 /\ running[m] = n /\ \A k \in 1 .. m : running[k] \in 1 .. n
        /\ \A k, l \in 1 .. m : k < l => running[k] = 1 \/ running[l] = 1 \/ running[k] < running[l]
        /\ \A i \in 2 .. n : \E k \in 1 .. m : running[k] = i
    <3>1. running[m] = n
      BY <1>1, <1>3, <2>1, CurrentIsLast
    <3> QED
      BY <1>1, <1>2, <2>1, <3>1 DEF Active, Globals
  <2>4. ASSUME NEW k \in 1 .. m - 1
        PROVE  f[k] \in 1 .. n - 1
    <3>1. k \in 1 .. m /\ k < m /\ f[k] = running[k]
      BY <2>1, <2>2
    <3>2. running[k] \in 1 .. n /\ (running[k] = 1 \/ running[m] = 1 \/ running[k] < running[m])
      BY <2>2, <2>3, <3>1
    <3>3. PICK a : a = running[k]
      OBVIOUS
    <3>4. a \in 1 .. n /\ (a = 1 \/ a < n)
      BY <1>3, <2>3, <3>2, <3>3
    <3> QED
      BY <1>3, <3>1, <3>3, <3>4
  <2>5. ASSUME NEW k \in 1 .. m - 1, NEW l \in 1 .. m - 1, k < l
        PROVE  f[k] = 1 \/ f[l] = 1 \/ f[k] < f[l]
    <3>1. k \in 1 .. m /\ l \in 1 .. m /\ f[k] = running[k] /\ f[l] = running[l]
      BY <2>1, <2>2
    <3>2. running[k] = 1 \/ running[l] = 1 \/ running[k] < running[l]
      BY <2>3, <2>5, <3>1
    <3> QED
      BY <3>1, <3>2
  <2>6. ASSUME NEW i \in 2 .. n - 1
        PROVE  \E k \in 1 .. m - 1 : f[k] = i
    <3>1. i \in 2 .. n /\ i # n
      BY <1>3
    <3>2. PICK k \in 1 .. m : running[k] = i
      BY <2>3, <3>1
    <3>3. k # m
      BY <2>3, <3>1, <3>2
    <3>4. k \in 1 .. m - 1
      BY <2>1, <3>3
    <3> QED
      BY <2>1, <3>2, <3>4
  <2>7. Len(f) >= 1 /\ f[1] = 1
    BY <2>1, <2>2, <2>3
  <2>8. Active(sc, f)
    BY <1>4, <2>1, <2>4, <2>5, <2>6, <2>7 DEF Active, Globals
  <2> QED
    BY <2>1, <2>8
<1>12. Owned(sc, symbol, pool')
  <2>1. ASSUME NEW i \in 1 .. n - 1, NEW s \in Held(sc, i)
        PROVE  /\ s \notin pool' /\ symbol[s].home = sc[i].serial
               /\ symbol[s].declaration = NULL <=> i = Globals
               /\ i # Globals => /\ Block[symbol[s].declaration] = sc[i].block
                                 /\ symbol[s].name = DeclaredName[symbol[s].declaration]
               /\ \A j \in 1 .. n - 1 : s \in Held(sc, j) => j = i
               /\ \A t \in Held(sc, i) : i # Globals /\ symbol[t].declaration = symbol[s].declaration => t = s
    <3>1. i \in 1 .. n /\ i # n /\ s \in Held(scopes, i)
      BY <1>3, <1>5
    <3>2. s \notin pool /\ \A j \in 1 .. n : s \in Held(scopes, j) => j = i
      BY <1>1, <1>2, <3>1 DEF Owned
    <3>3. s \notin pool'
      BY <1>3, <1>6, <3>1, <3>2
    <3>4. \A j \in 1 .. n - 1 : s \in Held(sc, j) => j = i
      BY <1>3, <1>5, <3>2
    <3>5. /\ symbol[s].home = scopes[i].serial
          /\ symbol[s].declaration = NULL <=> i = Globals
          /\ i # Globals => /\ Block[symbol[s].declaration] = scopes[i].block
                            /\ symbol[s].name = DeclaredName[symbol[s].declaration]
          /\ \A t \in Held(scopes, i) : i # Globals /\ symbol[t].declaration = symbol[s].declaration => t = s
      BY <1>1, <1>2, <3>1 DEF Owned
    <3> QED
      BY <1>4, <1>5, <3>3, <3>4, <3>5
  <2>2. ASSUME NEW i \in 1 .. n - 1
        PROVE  \A s, t \in Entered(sc, symbol, i) : symbol[s].name = symbol[t].name => s = t
    <3>1. i \in 1 .. n
      BY <1>3
    <3> QED
      BY <1>1, <1>2, <1>5, <3>1 DEF Owned
  <2> QED
    BY <1>4, <2>1, <2>2 DEF Owned
<1>13. Bound(sc, symbol, bi)
  <2>1. \A i \in 1 .. n - 1 : sc[i] = scopes[i] /\ \A s \in Held(scopes, i) : symbol[s] = symbol[s]
    BY <1>4
  <2>2. ASSUME NEW d \in Declarations
        PROVE  Innermost(sc, symbol, n - 1, d, bi[d].symbol, bi[d].scope)
    <3>1. PICK m, node, home : m = n - 1 /\ node = bi[d].symbol /\ home = bi[d].scope
      OBVIOUS
    <3>2. m \in Nat /\ m \in 0 .. m /\ Innermost(scopes, symbol, m, d, node, home)
      BY <1>3, <1>8, <3>1
    <3>3. \A i \in 1 .. m : sc[i] = scopes[i] /\ \A s \in Held(scopes, i) : symbol[s] = symbol[s]
      BY <2>1, <3>1
    <3>4. Innermost(sc, symbol, m, d, node, home)
      BY <3>2, <3>3, SameInnermost
    <3> QED
      BY <3>1, <3>4
  <2>3. ASSUME NEW i \in 2 .. n - 1, NEW s \in Held(sc, i)
        PROVE  Innermost(sc, symbol, i - 1, symbol[s].declaration, symbol[s].shadowed, symbol[s].shadowedScope)
    <3>1. i \in 2 .. n /\ i \in 1 .. n - 1 /\ i - 1 \in 0 .. n - 1
      BY <1>3
    <3>2. Innermost(scopes, symbol, i - 1, symbol[s].declaration, symbol[s].shadowed, symbol[s].shadowedScope)
      BY <1>1, <1>2, <1>5, <3>1 DEF Bound
    <3>3. PICK k, m, d, node, home :
            /\ k = n - 1 /\ m = i - 1 /\ d = symbol[s].declaration
            /\ node = symbol[s].shadowed /\ home = symbol[s].shadowedScope
      OBVIOUS
    <3>4. k \in Nat /\ m \in 0 .. k /\ Innermost(scopes, symbol, m, d, node, home)
      BY <1>3, <3>1, <3>2, <3>3
    <3>5. \A j \in 1 .. k : sc[j] = scopes[j] /\ \A t \in Held(scopes, j) : symbol[t] = symbol[t]
      BY <2>1, <3>3
    <3>6. Innermost(sc, symbol, m, d, node, home)
      BY <3>4, <3>5, SameInnermost
    <3> QED
      BY <3>3, <3>6
  <2> QED
    BY <1>4, <2>2, <2>3 DEF Bound
<1>14. Remembered(sc, symbol, cached, serial)
  <2>1. ASSUME NEW u \in Uses \cup GlobalUses
        PROVE  Remembers(sc, symbol, cached[u], UsedName[u], serial)
    <3>1. PICK c, name, k : c = cached[u] /\ name = UsedName[u] /\ k = n - 1
      OBVIOUS
    <3>2. Remembers(scopes, symbol, c, name, serial)
      BY <1>1, <3>1 DEF Remembered
    <3>3. Held(sc, Globals) = Held(scopes, Globals)
      <4>1. 1 \in 1 .. n - 1
        BY <1>3
      <4> QED
        BY <1>5, <4>1 DEF Globals
    <3>4. k \in Nat /\ \A j \in 1 .. k : /\ sc[j].parent = scopes[j].parent
                                         /\ Entered(sc, symbol, j) = Entered(scopes, symbol, j)
                                         /\ \A s \in Entered(scopes, symbol, j) : symbol[s].name = symbol[s].name
      BY <1>3, <1>4, <1>5, <3>1
    <3>5. ASSUME NEW i \in 1 .. k, c.scope = sc[i].serial
          PROVE  /\ c.count <= Cardinality(Entered(sc, symbol, i))
                 /\ c.count = Cardinality(Entered(sc, symbol, i)) => Walk(sc, symbol, i, name, c.symbol)
      <4>1. i \in 1 .. n /\ sc[i] = scopes[i] /\ Entered(sc, symbol, i) = Entered(scopes, symbol, i)
        BY <1>3, <1>4, <1>5, <3>1
      <4>2. /\ c.count <= Cardinality(Entered(scopes, symbol, i))
            /\ c.count = Cardinality(Entered(scopes, symbol, i)) => Walk(scopes, symbol, i, name, c.symbol)
        BY <1>2, <3>2, <3>5, <4>1 DEF Remembers
      <4>3. Walk(scopes, symbol, i, name, c.symbol) => Walk(sc, symbol, i, name, c.symbol)
        BY <3>4, SameWalk
      <4> QED
        BY <4>1, <4>2, <4>3
    <3>6. Remembers(sc, symbol, c, name, serial)
      BY <1>4, <3>1, <3>2, <3>3, <3>5 DEF Remembers
    <3> QED
      BY <3>1, <3>6
  <2> QED
    BY <2>1 DEF Remembered
<1> QED
  BY <1>4, <1>6, <1>7, <1>9, <1>10, <1>11, <1>12, <1>13, <1>14 DEF IndInv

\* A symbol that no open scope holds comes first in the innermost one, which is the last one.
Added(s, home, sc, sy) ==
  /\ sc \in Seq(Scope) /\ Len(sc) = Len(scopes) /\ sy \in [SymbolNodes -> Symbol]
  /\ \A i \in 1 .. Len(scopes) - 1 : sc[i] = scopes[i]
  /\ LET n == Len(scopes)
     IN  /\ sc[n].serial = scopes[n].serial /\ sc[n].block = scopes[n].block /\ sc[n].parent = scopes[n].parent
         /\ Held(sc, n) = Held(scopes, n) \cup {s} /\ home = scopes[n].serial
  /\ \A i \in 1 .. Len(scopes) : s \notin Held(scopes, i)
  /\ \A t \in SymbolNodes : t # s => sy[t] = symbol[t]

\* What define does to the scopes and the nodes.
LEMMA DefineAdds ==
  ASSUME IndInv, NEW s \in SymbolNodes, NEW name \in Names, NEW declaration \in Declarations \cup {NULL},
         Current = Len(scopes), Define(s, name, declaration)
  PROVE  /\ Added(s, scopes[Current].serial, scopes', symbol')
         /\ symbol'[s].name = name /\ symbol'[s].declaration = declaration
         /\ symbol'[s].home = scopes[Current].serial
         /\ declaration # NULL => /\ symbol'[s].shadowed = binding[declaration].symbol
                                  /\ symbol'[s].shadowedScope = binding[declaration].scope
<1>1. /\ TypeOK /\ Nest(scopes, serial) /\ Owned(scopes, symbol, pool)
      /\ scopes \in Seq(Scope) /\ symbol \in [SymbolNodes -> Symbol] /\ pool \in SUBSET SymbolNodes
  BY DEF IndInv, TypeOK
<1>2. PICK n : n = Len(scopes)
  OBVIOUS
<1>3. n \in Nat /\ n \in 1 .. n /\ Current = n
  BY <1>1, <1>2, ScopeFacts
<1>4. PICK old \in Scope, q \in Seq(SymbolNodes) : old = scopes[n] /\ q = old.symbols /\ old.serial \in Nat
  BY <1>1, <1>2, <1>3, HeldTypes
<1>5. PICK longer \in Seq(SymbolNodes) :
        longer = <<s>> \o q /\ {longer[k] : k \in 1 .. Len(longer)} = {q[k] : k \in 1 .. Len(q)} \cup {s}
  <2>1. <<s>> \in Seq(SymbolNodes) /\ Len(<<s>>) = 1 /\ <<s>>[1] = s /\ Len(q) \in Nat
    BY LenProperties
  <2>2. /\ <<s>> \o q \in Seq(SymbolNodes) /\ Len(<<s>> \o q) = Len(<<s>>) + Len(q)
        /\ \A k \in 1 .. Len(<<s>>) + Len(q) :
             (<<s>> \o q)[k] = IF k <= Len(<<s>>) THEN <<s>>[k] ELSE q[k - Len(<<s>>)]
    BY <2>1, ConcatProperties
  <2>3. PICK r \in Seq(SymbolNodes) :
          /\ r = <<s>> \o q /\ Len(r) = 1 + Len(q)
          /\ \A k \in 1 .. 1 + Len(q) : r[k] = IF k <= 1 THEN <<s>>[k] ELSE q[k - 1]
    BY <2>1, <2>2
  <2>4. r[1] = s /\ 1 \in 1 .. Len(r)
    BY <2>1, <2>3
  <2>5. ASSUME NEW k \in 1 .. Len(q)
        PROVE  k + 1 \in 1 .. Len(r) /\ r[k + 1] = q[k]
    <3>1. k + 1 \in 1 .. 1 + Len(q) /\ ~(k + 1 <= 1) /\ k + 1 - 1 = k
      BY <2>1
    <3> QED
      BY <2>3, <3>1
  <2>6. ASSUME NEW k \in 1 .. Len(r), k # 1
        PROVE  k - 1 \in 1 .. Len(q) /\ r[k] = q[k - 1]
    <3>1. k \in 1 .. 1 + Len(q) /\ ~(k <= 1) /\ k - 1 \in 1 .. Len(q)
      BY <2>1, <2>3, <2>6
    <3> QED
      BY <2>3, <3>1
  <2>7. {r[k] : k \in 1 .. Len(r)} = {q[k] : k \in 1 .. Len(q)} \cup {s}
    <3>1. \A k \in 1 .. Len(r) : r[k] \in {q[l] : l \in 1 .. Len(q)} \cup {s}
      BY <2>4, <2>6
    <3>2. \A k \in 1 .. Len(q) : q[k] \in {r[l] : l \in 1 .. Len(r)}
      BY <2>5
    <3>3. s \in {r[l] : l \in 1 .. Len(r)}
      BY <2>4
    <3> QED
      BY <3>1, <3>2, <3>3
  <2> QED
    BY <2>3, <2>7
<1>6. PICK top \in Scope : /\ top = [old EXCEPT !.symbols = <<s>> \o @] /\ top.serial = old.serial
                           /\ top.block = old.block /\ top.parent = old.parent /\ top.symbols = longer
  <2>1. PICK top : top = [old EXCEPT !.symbols = <<s>> \o @]
    OBVIOUS
  <2>2. /\ top.serial = old.serial /\ top.block = old.block /\ top.parent = old.parent /\ top.symbols = longer
        /\ top \in Scope
    BY <1>4, <1>5, <2>1 DEF Scope
  <2> QED
    BY <2>1, <2>2
<1>7. PICK sc \in Seq(Scope) : /\ sc = scopes' /\ Len(sc) = n /\ sc[n] = top
                               /\ \A i \in 1 .. n - 1 : sc[i] = scopes[i]
  <2>1. scopes' = [scopes EXCEPT ![n] = top]
    BY <1>3, <1>4, <1>6 DEF Define
  <2>2. /\ [scopes EXCEPT ![n] = top] \in Seq(Scope)
        /\ Len([scopes EXCEPT ![n] = top]) = Len(scopes)
        /\ \A i \in 1 .. Len(scopes) : [scopes EXCEPT ![n] = top][i] = IF i = n THEN top ELSE scopes[i]
    BY <1>1, <1>2, <1>3, <1>6, ExceptSeq
  <2>3. \A i \in 1 .. n - 1 : i \in 1 .. n /\ i # n
    BY <1>3
  <2> QED
    BY <1>2, <1>3, <2>1, <2>2, <2>3
<1>8. Held(sc, n) = Held(scopes, n) \cup {s}
  <2>1. DOMAIN q = 1 .. Len(q) /\ DOMAIN longer = 1 .. Len(longer)
    BY LenProperties
  <2>2. Held(sc, n) = {longer[k] : k \in 1 .. Len(longer)}
    <3>1. sc[n].symbols = longer
      BY <1>6, <1>7
    <3> QED
      BY <2>1, <3>1 DEF Held, Range
  <2>3. Held(scopes, n) = {q[k] : k \in 1 .. Len(q)}
    BY <1>4, <2>1 DEF Held, Range
  <2> QED
    BY <1>5, <2>2, <2>3
<1>9. ASSUME NEW i \in 1 .. n, s \in Held(scopes, i)
      PROVE  FALSE
  <2>1. s \in AvailableNodes
    BY DEF Define
  <2>2. s \notin pool
    BY <1>1, <1>2, <1>9 DEF Owned
  <2>3. s \notin InUse
    BY <2>1, <2>2 DEF AvailableNodes
  <2> QED
    BY <1>2, <1>9, <2>3 DEF InUse, Held
<1>10. PICK entry \in Symbol :
         /\ symbol' = [symbol EXCEPT ![s] = entry]
         /\ entry.name = name /\ entry.declaration = declaration /\ entry.home = old.serial
         /\ declaration # NULL => /\ entry.shadowed = binding[declaration].symbol
                                  /\ entry.shadowedScope = binding[declaration].scope
  <2>1. PICK node, home : /\ node = IF declaration = NULL THEN NULL ELSE binding[declaration].symbol
                          /\ home = IF declaration = NULL THEN 0 ELSE binding[declaration].scope
    OBVIOUS
  <2>2. node \in SymbolNodes \cup {NULL} /\ home \in Nat
    <3>1. CASE declaration = NULL
      BY <2>1, <3>1
    <3>2. CASE declaration # NULL
      <4>1. binding[declaration] \in Binding
        BY <1>1, <3>2 DEF TypeOK
      <4> QED
        BY <2>1, <3>2, <4>1 DEF Binding
    <3> QED
      BY <3>1, <3>2
  <2>3. PICK entry : entry = [name |-> name, declaration |-> declaration, home |-> old.serial,
                              shadowed |-> node, shadowedScope |-> home]
    OBVIOUS
  <2>4. entry \in Symbol
    BY <1>4, <2>2, <2>3 DEF Symbol
  <2>5. symbol' = [symbol EXCEPT ![s] = entry]
    BY <1>3, <1>4, <2>1, <2>3 DEF Define
  <2> QED
    BY <2>1, <2>3, <2>4, <2>5
<1>11. PICK sy \in [SymbolNodes -> Symbol] : sy = symbol' /\ sy[s] = entry /\ \A t \in SymbolNodes : t # s => sy[t] = symbol[t]
  BY <1>1, <1>10
<1>12. Added(s, old.serial, sc, sy)
  BY <1>2, <1>4, <1>6, <1>7, <1>8, <1>9, <1>11 DEF Added
<1> QED
  BY <1>3, <1>4, <1>7, <1>10, <1>11, <1>12

\* Nesting and ownership with the symbol added.
LEMMA AddedStands ==
  ASSUME IndInv, NEW s \in SymbolNodes, NEW home, NEW sc, NEW sy, Added(s, home, sc, sy), NEW po,
         po = pool \ {s}, sy[s].home = home, NEW declaration, sy[s].declaration = declaration,
         declaration = NULL <=> Len(scopes) = Globals,
         declaration # NULL =>
           /\ Block[declaration] = scopes[Len(scopes)].block /\ sy[s].name = DeclaredName[declaration]
           /\ \A t \in Held(scopes, Len(scopes)) : symbol[t].declaration # declaration,
         declaration \notin Private => \A t \in Entered(scopes, symbol, Len(scopes)) : symbol[t].name # sy[s].name
  PROVE  /\ Nest(sc, serial) /\ Active(sc, running) /\ Owned(sc, sy, po)
         /\ \A i \in 1 .. Len(scopes) - 1 : /\ Held(sc, i) = Held(scopes, i) /\ sc[i] = scopes[i]
                                            /\ Entered(sc, sy, i) = Entered(scopes, symbol, i)
         /\ \A i \in 1 .. Len(scopes) : \A t \in Held(scopes, i) : sy[t] = symbol[t] /\ t # s
         /\ Entered(sc, sy, Len(scopes)) = IF declaration \in Private THEN Entered(scopes, symbol, Len(scopes))
                                           ELSE Entered(scopes, symbol, Len(scopes)) \cup {s}
<1>1. /\ TypeOK /\ Nest(scopes, serial) /\ Active(scopes, running) /\ Owned(scopes, symbol, pool)
      /\ scopes \in Seq(Scope) /\ symbol \in [SymbolNodes -> Symbol]
  BY DEF IndInv, TypeOK
<1>2. PICK n : n = Len(scopes)
  OBVIOUS
<1>3. /\ n \in Nat /\ n >= 1 /\ n \in 1 .. n
      /\ \A i \in 1 .. n : i = n \/ i \in 1 .. n - 1
      /\ \A i \in 1 .. n - 1 : i \in 1 .. n /\ i # n
  BY <1>1, <1>2, ScopeFacts
<1>4. /\ sc \in Seq(Scope) /\ Len(sc) = n /\ sy \in [SymbolNodes -> Symbol]
      /\ \A i \in 1 .. n - 1 : sc[i] = scopes[i]
      /\ sc[n].serial = scopes[n].serial /\ sc[n].block = scopes[n].block /\ sc[n].parent = scopes[n].parent
      /\ Held(sc, n) = Held(scopes, n) \cup {s} /\ home = scopes[n].serial
      /\ \A i \in 1 .. n : s \notin Held(scopes, i)
      /\ \A t \in SymbolNodes : t # s => sy[t] = symbol[t]
  BY <1>2 DEF Added
<1>5. \A i \in 1 .. n : /\ sc[i].serial = scopes[i].serial /\ sc[i].block = scopes[i].block
                        /\ sc[i].parent = scopes[i].parent
  BY <1>3, <1>4
<1>6. ASSUME NEW i \in 1 .. n, NEW t \in Held(scopes, i)
      PROVE  sy[t] = symbol[t] /\ t # s
  <2>1. t \in SymbolNodes
    BY <1>1, <1>2, HeldTypes
  <2> QED
    BY <1>4, <2>1
<1>7. \A i \in 1 .. n - 1 : Held(sc, i) = Held(scopes, i)
  BY <1>4 DEF Held
<1>8. ASSUME NEW i \in 1 .. n - 1
      PROVE  Entered(sc, sy, i) = Entered(scopes, symbol, i)
  BY <1>3, <1>6, <1>7 DEF Entered
<1>9. Entered(sc, sy, n) = IF declaration \in Private THEN Entered(scopes, symbol, n)
                           ELSE Entered(scopes, symbol, n) \cup {s}
  BY <1>3, <1>4, <1>6 DEF Entered
<1>10. Nest(sc, serial)
  <2>1. 1 \in 1 .. n
    BY <1>3
  <2>2. /\ \A i \in 1 .. n : scopes[i].serial >= 1 /\ scopes[i].serial <= serial
        /\ \A i, j \in 1 .. n : i < j => scopes[i].serial < scopes[j].serial
        /\ n >= 1 /\ scopes[1].serial = 1 /\ scopes[1].block = NULL /\ scopes[1].parent = 0
    BY <1>1, <1>2 DEF Nest
  <2>3. ASSUME NEW i \in 2 .. n
        PROVE  sc[i].block \in Blocks /\ sc[i].parent \in {1, i - 1} /\ Enclosing[sc[i].block] = sc[sc[i].parent].block
    <3>1. i \in 1 .. n /\ i - 1 \in 1 .. n
      BY <1>3
    <3>2. /\ scopes[i].block \in Blocks /\ scopes[i].parent \in {1, i - 1}
          /\ Enclosing[scopes[i].block] = scopes[scopes[i].parent].block
      BY <1>1, <1>2 DEF Nest
    <3>3. scopes[i].parent \in 1 .. n
      BY <2>1, <3>1, <3>2
    <3> QED
      BY <1>5, <3>1, <3>2, <3>3
  <2> QED
    BY <1>4, <1>5, <2>1, <2>2, <2>3 DEF Nest
<1>11. Active(sc, running)
  BY <1>1, <1>2, <1>4 DEF Active
<1>12. Owned(sc, sy, po)
  <2>1. ASSUME NEW i \in 1 .. n, NEW t \in Held(scopes, i)
        PROVE  /\ t \notin pool /\ symbol[t].home = scopes[i].serial
               /\ symbol[t].declaration = NULL <=> i = Globals
               /\ i # Globals => /\ Block[symbol[t].declaration] = scopes[i].block
                                 /\ symbol[t].name = DeclaredName[symbol[t].declaration]
               /\ \A j \in 1 .. n : t \in Held(scopes, j) => j = i
               /\ \A r \in Held(scopes, i) : i # Globals /\ symbol[r].declaration = symbol[t].declaration => r = t
    BY <1>1, <1>2 DEF Owned
  <2>2. \A i \in 1 .. n : \A t \in Held(sc, i) : t \in Held(scopes, i) \/ (t = s /\ i = n)
    BY <1>3, <1>4, <1>7
  <2>3. \A i \in 1 .. n : \A t \in Held(scopes, i) : t \in Held(sc, i)
    BY <1>3, <1>4, <1>7
  <2>4. ASSUME NEW i \in 1 .. n, NEW t \in Held(scopes, i)
        PROVE  /\ t \notin po /\ sy[t].home = sc[i].serial
               /\ sy[t].declaration = NULL <=> i = Globals
               /\ i # Globals => Block[sy[t].declaration] = sc[i].block /\ sy[t].name = DeclaredName[sy[t].declaration]
               /\ \A j \in 1 .. n : t \in Held(sc, j) => j = i
               /\ \A r \in Held(sc, i) : i # Globals /\ sy[r].declaration = sy[t].declaration => r = t
    <3>1. sy[t] = symbol[t] /\ t # s
      BY <1>6
    <3>2. \A j \in 1 .. n : t \in Held(sc, j) => j = i
      BY <2>1, <2>2, <3>1
    <3>3. ASSUME NEW r \in Held(sc, i), i # Globals, sy[r].declaration = sy[t].declaration
          PROVE  r = t
      <4>1. CASE r \in Held(scopes, i)
        BY <1>6, <2>1, <3>1, <3>3, <4>1
      <4>2. CASE r = s /\ i = n
        <5>1. symbol[t].declaration = declaration /\ declaration # NULL
          BY <1>2, <3>1, <3>3, <4>2
        <5> QED
          BY <1>2, <4>2, <5>1
      <4> QED
        BY <2>2, <4>1, <4>2
    <3> QED
      BY <1>5, <2>1, <3>1, <3>2, <3>3
  <2>5. /\ s \notin po /\ sy[s].home = sc[n].serial /\ (sy[s].declaration = NULL <=> n = Globals)
        /\ n # Globals => Block[sy[s].declaration] = sc[n].block /\ sy[s].name = DeclaredName[sy[s].declaration]
    BY <1>2, <1>4
  <2>6. \A j \in 1 .. n : s \in Held(sc, j) => j = n
    BY <1>4, <2>2
  <2>7. ASSUME NEW r \in Held(sc, n), n # Globals, sy[r].declaration = sy[s].declaration
        PROVE  r = s
    <3>1. r # s => r \in Held(scopes, n)
      BY <1>4
    <3>2. r \in Held(scopes, n) => sy[r] = symbol[r] /\ symbol[r].declaration # declaration
      BY <1>2, <1>3, <1>6, <2>7
    <3> QED
      BY <2>7, <3>1, <3>2
  <2>8. ASSUME NEW i \in 1 .. n, NEW t \in Entered(sc, sy, i), NEW r \in Entered(sc, sy, i), sy[t].name = sy[r].name
        PROVE  t = r
    <3>1. \A a \in Entered(scopes, symbol, i) : a \in Held(scopes, i) /\ sy[a] = symbol[a]
      BY <1>6 DEF Entered
    <3>2. \A a, b \in Entered(scopes, symbol, i) : symbol[a].name = symbol[b].name => a = b
      BY <1>1, <1>2 DEF Owned
    <3>3. CASE t \in Entered(scopes, symbol, i) /\ r \in Entered(scopes, symbol, i)
      BY <2>8, <3>1, <3>2, <3>3
    <3>4. CASE ~(t \in Entered(scopes, symbol, i) /\ r \in Entered(scopes, symbol, i))
      <4>1. i = n /\ declaration \notin Private /\ (t = s \/ r = s)
        BY <1>3, <1>8, <1>9, <3>4
      <4>2. \A a \in Entered(scopes, symbol, n) : sy[a].name # sy[s].name
        BY <1>2, <3>1, <4>1
      <4> QED
        BY <1>9, <2>8, <4>1, <4>2
    <3> QED
      BY <3>3, <3>4
  <2>9. ASSUME NEW i \in 1 .. n, NEW t \in Held(sc, i)
        PROVE  /\ t \notin po /\ sy[t].home = sc[i].serial
               /\ sy[t].declaration = NULL <=> i = Globals
               /\ i # Globals => Block[sy[t].declaration] = sc[i].block /\ sy[t].name = DeclaredName[sy[t].declaration]
               /\ \A j \in 1 .. n : t \in Held(sc, j) => j = i
               /\ \A r \in Held(sc, i) : i # Globals /\ sy[r].declaration = sy[t].declaration => r = t
    <3>1. CASE t \in Held(scopes, i)
      BY <2>4, <3>1
    <3>2. CASE t = s /\ i = n
      BY <2>5, <2>6, <2>7, <3>2
    <3> QED
      BY <2>2, <3>1, <3>2
  <2> QED
    BY <1>4, <2>8, <2>9 DEF Owned
<1> QED
  BY <1>2, <1>4, <1>6, <1>7, <1>8, <1>9, <1>10, <1>11, <1>12

\* The bindings with the symbol added (define).
LEMMA AddedBound ==
  ASSUME IndInv, NEW s \in SymbolNodes, NEW home, NEW sc, NEW sy, Added(s, home, sc, sy), NEW bi, NEW declaration,
         sy[s].declaration = declaration, declaration = NULL <=> Len(scopes) = Globals,
         declaration # NULL =>
           /\ declaration \in Declarations
           /\ \A t \in Held(scopes, Len(scopes)) : symbol[t].declaration # declaration
           /\ bi[declaration].symbol = s /\ bi[declaration].scope = home
           /\ sy[s].shadowed = binding[declaration].symbol /\ sy[s].shadowedScope = binding[declaration].scope,
         \A d \in Declarations : d # declaration => bi[d] = binding[d],
         \A i \in 1 .. Len(scopes) : \A t \in Held(scopes, i) : sy[t] = symbol[t] /\ t # s,
         \A i \in 1 .. Len(scopes) - 1 : Held(sc, i) = Held(scopes, i)
  PROVE  Bound(sc, sy, bi)
<1>1. /\ TypeOK /\ Nest(scopes, serial) /\ Bound(scopes, symbol, binding) /\ scopes \in Seq(Scope)
  BY DEF IndInv, TypeOK
<1>2. PICK n : n = Len(scopes)
  OBVIOUS
<1>3. /\ n \in Nat \ {0} /\ n - 1 \in Nat /\ n \in 1 .. n
      /\ \A i \in 1 .. n : i = n \/ i \in 1 .. n - 1
      /\ \A i \in 1 .. n - 1 : i \in 1 .. n /\ i # n
  <2>1. n \in Nat /\ n >= 1
    BY <1>1, <1>2, ScopeFacts
  <2> QED
    BY <2>1
<1>4. /\ Len(sc) = n /\ \A i \in 1 .. n - 1 : sc[i] = scopes[i]
      /\ sc[n].serial = scopes[n].serial /\ home = scopes[n].serial /\ Held(sc, n) = Held(scopes, n) \cup {s}
  BY <1>2 DEF Added
<1>5. ASSUME NEW i \in 1 .. n
      PROVE  /\ sc[i].serial = scopes[i].serial
             /\ \A t \in Held(scopes, i) : t \in Held(sc, i) /\ sy[t] = symbol[t]
             /\ \A t \in Held(sc, i) : t \in Held(scopes, i) \/ (t = s /\ i = n)
  BY <1>2, <1>3, <1>4
<1>6. \A i \in 1 .. n - 1 : sc[i] = scopes[i] /\ \A t \in Held(scopes, i) : sy[t] = symbol[t]
  BY <1>3, <1>4, <1>5
<1>7. ASSUME NEW m \in 0 .. n - 1, NEW d, NEW node, NEW serialOf, Innermost(scopes, symbol, m, d, node, serialOf)
      PROVE  Innermost(sc, sy, m, d, node, serialOf)
  <2>1. PICK k \in Nat : k = n - 1
    BY <1>3
  <2>2. m \in 0 .. k /\ \A i \in 1 .. k : sc[i] = scopes[i] /\ \A t \in Held(scopes, i) : sy[t] = symbol[t]
    BY <1>6, <2>1
  <2> QED
    BY <1>7, <2>2, SameInnermost
<1>8. ASSUME NEW d \in Declarations
      PROVE  Innermost(sc, sy, n, d, bi[d].symbol, bi[d].scope)
  <2>1. CASE d = declaration
    <3>1. declaration # NULL
      BY <2>1, NullAssumption
    <3>2. bi[d].symbol = s /\ bi[d].scope = home /\ \A j \in n + 1 .. n : FALSE
      BY <1>3, <2>1, <3>1
    <3>3. s \in Held(sc, n) /\ home = sc[n].serial /\ sy[s].declaration = d
      BY <1>4, <2>1
    <3> QED
      BY <1>3, <3>2, <3>3 DEF Innermost
  <2>2. CASE d # declaration
    <3>1. PICK node, serialOf :
            /\ node = bi[d].symbol /\ serialOf = bi[d].scope
            /\ node = binding[d].symbol /\ serialOf = binding[d].scope
      BY <2>2
    <3>2. Innermost(scopes, symbol, n, d, node, serialOf)
      BY <1>1, <1>2, <3>1 DEF Bound
    <3>3. ASSUME NEW i \in 1 .. n, \A t \in Held(scopes, i) : symbol[t].declaration # d, NEW t \in Held(sc, i)
          PROVE  sy[t].declaration # d
      BY <1>5, <2>2, <3>3
    <3>4. CASE node = NULL /\ serialOf = 0 /\ \A i \in 1 .. n : \A t \in Held(scopes, i) : symbol[t].declaration # d
      <4>1. Innermost(sc, sy, n, d, node, serialOf)
        BY <3>3, <3>4 DEF Innermost
      <4> QED
        BY <3>1, <4>1
    <3>5. ASSUME NEW i \in 1 .. n, node \in Held(scopes, i), symbol[node].declaration = d,
                 serialOf = scopes[i].serial,
                 \A j \in i + 1 .. n : \A t \in Held(scopes, j) : symbol[t].declaration # d
          PROVE  Innermost(sc, sy, n, d, node, serialOf)
      <4>1. node \in Held(sc, i) /\ sy[node].declaration = d /\ serialOf = sc[i].serial
        BY <1>5, <3>5
      <4>2. \A j \in i + 1 .. n : j \in 1 .. n
        BY <1>3
      <4>3. \A j \in i + 1 .. n : \A t \in Held(sc, j) : sy[t].declaration # d
        BY <3>3, <3>5, <4>2
      <4> QED
        BY <4>1, <4>3 DEF Innermost
    <3>6. Innermost(sc, sy, n, d, node, serialOf)
      BY <3>1, <3>2, <3>4, <3>5 DEF Innermost
    <3> QED
      BY <3>1, <3>6
  <2> QED
    BY <2>1, <2>2
<1>9. ASSUME NEW i \in 2 .. n, NEW t \in Held(sc, i)
      PROVE  Innermost(sc, sy, i - 1, sy[t].declaration, sy[t].shadowed, sy[t].shadowedScope)
  <2>1. PICK m, d, node, serialOf :
          m = i - 1 /\ d = sy[t].declaration /\ node = sy[t].shadowed /\ serialOf = sy[t].shadowedScope
    OBVIOUS
  <2>2. i \in 1 .. n /\ m \in 0 .. n - 1
    BY <1>3, <2>1
  <2>3. CASE t \in Held(scopes, i)
    <3>1. sy[t] = symbol[t]
      BY <1>5, <2>2, <2>3
    <3>2. Innermost(scopes, symbol, i - 1, symbol[t].declaration, symbol[t].shadowed, symbol[t].shadowedScope)
      BY <1>1, <1>2, <2>3 DEF Bound
    <3>3. Innermost(scopes, symbol, m, d, node, serialOf)
      BY <2>1, <3>1, <3>2
    <3> QED
      BY <1>7, <2>1, <2>2, <3>3
  <2>4. CASE t = s /\ i = n
    <3>1. n # Globals
      BY <1>3, <2>4 DEF Globals
    <3>2. /\ d = declaration /\ declaration \in Declarations
          /\ node = binding[declaration].symbol /\ serialOf = binding[declaration].scope
          /\ \A r \in Held(scopes, n) : symbol[r].declaration # declaration
      BY <1>2, <2>1, <2>4, <3>1
    <3>3. Innermost(scopes, symbol, n, d, node, serialOf)
      BY <1>1, <1>2, <3>2 DEF Bound
    <3>4. Innermost(scopes, symbol, n - 1, d, node, serialOf)
      BY <1>3, <3>2, <3>3, InnermostBelow
    <3>5. Innermost(scopes, symbol, m, d, node, serialOf)
      BY <2>1, <2>4, <3>4
    <3> QED
      BY <1>7, <2>1, <2>2, <3>5
  <2> QED
    BY <1>5, <2>2, <2>3, <2>4
<1> QED
  BY <1>4, <1>8, <1>9 DEF Bound

\* What the uses remember with the symbol added: the innermost scope is as full as it was only if
\* the symbol is not indexed.
LEMMA AddedRemembered ==
  ASSUME IndInv, NEW s \in SymbolNodes, NEW home, NEW sc, NEW sy, Added(s, home, sc, sy), NEW declaration,
         \A i \in 1 .. Len(scopes) : \A t \in Held(scopes, i) : sy[t] = symbol[t] /\ t # s,
         \A i \in 1 .. Len(scopes) - 1 : /\ Held(sc, i) = Held(scopes, i) /\ sc[i] = scopes[i]
                                         /\ Entered(sc, sy, i) = Entered(scopes, symbol, i),
         Entered(sc, sy, Len(scopes)) = IF declaration \in Private THEN Entered(scopes, symbol, Len(scopes))
                                        ELSE Entered(scopes, symbol, Len(scopes)) \cup {s}
  PROVE  Remembered(sc, sy, cached, serial)
<1>1. /\ TypeOK /\ Nest(scopes, serial) /\ Remembered(scopes, symbol, cached, serial) /\ scopes \in Seq(Scope)
  BY DEF IndInv, TypeOK
<1>2. PICK n : n = Len(scopes)
  OBVIOUS
<1>3. /\ n \in Nat \ {0} /\ n - 1 \in Nat /\ n \in 1 .. n /\ 1 \in 1 .. n
      /\ \A i \in 1 .. n : i = n \/ i \in 1 .. n - 1
      /\ \A i \in 1 .. n - 1 : i \in 1 .. n /\ i # n
  <2>1. n \in Nat /\ n >= 1
    BY <1>1, <1>2, ScopeFacts
  <2> QED
    BY <2>1
<1>4. /\ Len(sc) = n /\ \A i \in 1 .. n - 1 : sc[i] = scopes[i]
      /\ sc[n].serial = scopes[n].serial /\ sc[n].parent = scopes[n].parent
      /\ Held(sc, n) = Held(scopes, n) \cup {s} /\ s \notin Held(scopes, n)
  BY <1>2, <1>3 DEF Added
<1>5. \A i \in 1 .. n : sc[i].serial = scopes[i].serial /\ sc[i].parent = scopes[i].parent
  BY <1>3, <1>4
<1>6. \A i \in 1 .. n : \A t \in Entered(scopes, symbol, i) : sy[t] = symbol[t]
  BY <1>2 DEF Entered
<1>7. ASSUME NEW u \in Uses \cup GlobalUses
      PROVE  Remembers(sc, sy, cached[u], UsedName[u], serial)
  <2>1. PICK c, name : c = cached[u] /\ name = UsedName[u]
    OBVIOUS
  <2>2. Remembers(scopes, symbol, c, name, serial) /\ c \in Use
    BY <1>1, <2>1 DEF Remembered, TypeOK
  <2>3. ASSUME c.symbol \in Held(scopes, Globals), symbol[c.symbol].name = name
        PROVE  c.symbol \in Held(sc, Globals) /\ sy[c.symbol].name = name
    <3>1. Held(scopes, 1) \subseteq Held(sc, 1)
      BY <1>2, <1>3, <1>4
    <3> QED
      BY <1>2, <1>3, <2>3, <3>1 DEF Globals
  <2>4. ASSUME NEW i \in 1 .. n, c.scope = sc[i].serial
        PROVE  /\ c.count <= Cardinality(Entered(sc, sy, i))
               /\ c.count = Cardinality(Entered(sc, sy, i)) => Walk(sc, sy, i, name, c.symbol)
    <3>1. /\ c.count <= Cardinality(Entered(scopes, symbol, i))
          /\ c.count = Cardinality(Entered(scopes, symbol, i)) => Walk(scopes, symbol, i, name, c.symbol)
      BY <1>2, <1>5, <2>2, <2>4 DEF Remembers
    <3>2. CASE i \in 1 .. n - 1
      <4>1. PICK k \in Nat : k = n - 1
        BY <1>3
      <4>2. \A j \in 1 .. k : /\ sc[j].parent = scopes[j].parent /\ Entered(sc, sy, j) = Entered(scopes, symbol, j)
                              /\ \A t \in Entered(scopes, symbol, j) : sy[t].name = symbol[t].name
        BY <1>2, <1>3, <1>5, <1>6, <4>1
      <4>3. Walk(scopes, symbol, i, name, c.symbol) => Walk(sc, sy, i, name, c.symbol)
        BY <3>2, <4>1, <4>2, SameWalk
      <4> QED
        BY <1>2, <3>1, <3>2, <4>3
    <3>3. CASE i = n /\ declaration \in Private
      <4>1. \A j \in 1 .. n : /\ sc[j].parent = scopes[j].parent /\ Entered(sc, sy, j) = Entered(scopes, symbol, j)
                              /\ \A t \in Entered(scopes, symbol, j) : sy[t].name = symbol[t].name
        BY <1>2, <1>3, <1>5, <1>6, <3>3
      <4>2. Walk(scopes, symbol, i, name, c.symbol) => Walk(sc, sy, i, name, c.symbol)
        BY <1>3, <4>1, SameWalk
      <4> QED
        BY <3>1, <4>1, <4>2
    <3>4. CASE i = n /\ declaration \notin Private
      <4>1. PICK E : E = Entered(scopes, symbol, n)
        OBVIOUS
      <4>2. IsFiniteSet(E) /\ s \notin E
        <5>1. IsFiniteSet(Held(scopes, n))
          BY <1>1, <1>2, <1>3, HeldTypes
        <5>2. E \subseteq Held(scopes, n)
          BY <4>1 DEF Entered
        <5> QED
          BY <1>4, <5>1, <5>2, FS_Subset
      <4>3. Cardinality(E \cup {s}) = Cardinality(E) + 1 /\ Cardinality(E) \in Nat
        BY <4>2, FS_AddElement, FS_CardinalityType
      <4>4. Entered(sc, sy, i) = E \cup {s} /\ c.count <= Cardinality(E) /\ c.count \in Nat
        BY <1>2, <2>2, <3>1, <3>4, <4>1 DEF Use
      <4>5. PICK a, b : a = c.count /\ b = Cardinality(E)
        OBVIOUS
      <4>6. a \in Nat /\ b \in Nat /\ a <= b /\ Cardinality(Entered(sc, sy, i)) = b + 1
        BY <4>3, <4>4, <4>5
      <4>7. a <= b + 1 /\ a # b + 1
        BY <4>6
      <4> QED
        BY <4>5, <4>6, <4>7
    <3> QED
      BY <1>3, <3>2, <3>3, <3>4
  <2>5. Remembers(sc, sy, c, name, serial)
    BY <1>4, <2>2, <2>3, <2>4 DEF Remembers
  <2> QED
    BY <2>1, <2>5
<1> QED
  BY <1>7 DEF Remembered

\* A declaration takes effect (define).
LEMMA DefineIndInv ==
  ASSUME IndInv, NEW s \in SymbolNodes, NEW name \in Names, NEW declaration \in Declarations \cup {NULL},
         Current = Len(scopes), Define(s, name, declaration),
         declaration = NULL <=> Len(scopes) = Globals,
         declaration # NULL =>
           /\ Block[declaration] = scopes[Len(scopes)].block /\ name = DeclaredName[declaration]
           /\ \A t \in Held(scopes, Len(scopes)) : symbol[t].declaration # declaration,
         declaration \notin Private => \A t \in Entered(scopes, symbol, Len(scopes)) : symbol[t].name # name
  PROVE  IndInv'
<1>1. PICK sc, sy, po, bi, home :
        sc = scopes' /\ sy = symbol' /\ po = pool \ {s} /\ bi = binding' /\ home = scopes[Len(scopes)].serial
  OBVIOUS
<1>2. /\ Added(s, home, sc, sy) /\ sy[s].name = name /\ sy[s].declaration = declaration /\ sy[s].home = home
      /\ declaration # NULL => /\ sy[s].shadowed = binding[declaration].symbol
                               /\ sy[s].shadowedScope = binding[declaration].scope
  BY <1>1, DefineAdds
<1>3. /\ Nest(sc, serial) /\ Active(sc, running) /\ Owned(sc, sy, po)
      /\ \A i \in 1 .. Len(scopes) - 1 : /\ Held(sc, i) = Held(scopes, i) /\ sc[i] = scopes[i]
                                         /\ Entered(sc, sy, i) = Entered(scopes, symbol, i)
      /\ \A i \in 1 .. Len(scopes) : \A t \in Held(scopes, i) : sy[t] = symbol[t] /\ t # s
      /\ Entered(sc, sy, Len(scopes)) = IF declaration \in Private THEN Entered(scopes, symbol, Len(scopes))
                                        ELSE Entered(scopes, symbol, Len(scopes)) \cup {s}
  BY <1>1, <1>2, AddedStands
<1>4. /\ running' = running /\ cached' = cached /\ serial' = serial /\ pool' = pool \ {s}
      /\ bi = IF declaration = NULL THEN binding ELSE [binding EXCEPT ![declaration] = [symbol |-> s, scope |-> home]]
  BY <1>1 DEF Define
<1>5. /\ binding \in [Declarations -> Binding] /\ home \in Nat /\ pool \in SUBSET SymbolNodes
      /\ scopes \in Seq(Scope) /\ running \in Seq(Nat) /\ serial \in Nat /\ cached \in [Uses \cup GlobalUses -> Use]
  <2>1. TypeOK /\ Nest(scopes, serial)
    BY DEF IndInv
  <2>2. Len(scopes) \in 1 .. Len(scopes) /\ scopes \in Seq(Scope)
    BY <2>1, ScopeFacts DEF TypeOK
  <2> QED
    BY <1>1, <2>1, <2>2, HeldTypes DEF TypeOK
<1>6. bi \in [Declarations -> Binding] /\ \A d \in Declarations : d # declaration => bi[d] = binding[d]
  <2>1. [symbol |-> s, scope |-> home] \in Binding
    BY <1>5 DEF Binding
  <2> QED
    BY <1>4, <1>5, <2>1
<1>7. declaration # NULL =>
        declaration \in Declarations /\ bi[declaration].symbol = s /\ bi[declaration].scope = home
  BY <1>4, <1>5
<1>8. Bound(sc, sy, bi)
  BY <1>2, <1>3, <1>6, <1>7, AddedBound
<1>9. Remembered(sc, sy, cached, serial)
  BY <1>2, <1>3, AddedRemembered
<1>10. TypeOK'
  <2>1. sc \in Seq(Scope) /\ sy \in [SymbolNodes -> Symbol]
    BY <1>2 DEF Added
  <2> QED
    BY <1>1, <1>4, <1>5, <1>6, <2>1 DEF TypeOK
<1> QED
  BY <1>1, <1>3, <1>4, <1>8, <1>9, <1>10 DEF IndInv

\* A use remembers what it found (resolve, resolve_again).
LEMMA ResolveIndInv ==
  ASSUME IndInv, NEW u \in Uses \cup GlobalUses, Resolve(u)
  PROVE  IndInv'
<1>1. /\ TypeOK /\ Nest(scopes, serial) /\ Active(scopes, running) /\ Owned(scopes, symbol, pool)
      /\ Bound(scopes, symbol, binding) /\ Remembered(scopes, symbol, cached, serial)
      /\ scopes \in Seq(Scope) /\ symbol \in [SymbolNodes -> Symbol] /\ cached \in [Uses \cup GlobalUses -> Use]
  BY DEF IndInv, TypeOK
<1>2. PICK i, name, found, c : i = ScopeOf(u) /\ name = UsedName[u] /\ found = Resolved(u) /\ c = cached[u]
  OBVIOUS
<1>3. i \in 1 .. Len(scopes) /\ Walk(scopes, symbol, i, name, found)
  BY <1>2, ResolvedWalks
<1>4. /\ Len(scopes) \in Nat /\ 1 \in 1 .. Len(scopes) /\ scopes[1].serial = 1
      /\ \A j \in 1 .. Len(scopes) : scopes[j].serial \in Nat /\ scopes[j].serial <= serial
      /\ \A j \in 1 .. Len(scopes) : scopes[j].serial = scopes[i].serial => j = i
  <2>1. /\ Len(scopes) \in Nat /\ 1 \in 1 .. Len(scopes)
        /\ \A j \in 1 .. Len(scopes) : scopes[j].serial \in Nat
    BY <1>1, ScopeFacts
  <2>2. /\ scopes[1].serial = 1 /\ \A j \in 1 .. Len(scopes) : scopes[j].serial <= serial
        /\ \A j, k \in 1 .. Len(scopes) : j < k => scopes[j].serial < scopes[k].serial
    BY <1>1 DEF Nest
  <2>3. ASSUME NEW j \in 1 .. Len(scopes), scopes[j].serial = scopes[i].serial
        PROVE  j = i
    <3>1. ~(j < i) /\ ~(i < j)
      BY <1>3, <2>1, <2>2, <2>3
    <3> QED
      BY <1>3, <2>1, <3>1
  <2> QED
    BY <2>1, <2>2, <2>3
<1>5. Entered(scopes, symbol, i) = Indexed(i) /\ Cardinality(Entered(scopes, symbol, i)) \in Nat
  <2>1. Entered(scopes, symbol, i) \subseteq Held(scopes, i) /\ IsFiniteSet(Held(scopes, i))
    BY <1>1, <1>3, HeldTypes DEF Entered
  <2>2. IsFiniteSet(Entered(scopes, symbol, i))
    BY <2>1, FS_Subset
  <2> QED
    BY <2>2, FS_CardinalityType DEF Entered, Held, Indexed
\* A symbol that was found is in use, under the name and where its declaration says.
<1>6. ASSUME found # NULL
      PROVE  /\ found \in SymbolNodes /\ symbol[found] \in Symbol
             /\ symbol[found].declaration # NULL =>
                  symbol[found].declaration \notin Private /\ DeclaredName[symbol[found].declaration] = name
             /\ symbol[found].declaration = NULL =>
                  found \in Held(scopes, Globals) /\ symbol[found].name = name /\ symbol[found].home = 1
  <2>1. PICK j \in Outward(scopes, i) : found \in Entered(scopes, symbol, j) /\ symbol[found].name = name
    BY <1>3, <1>6 DEF Walk
  <2>2. j \in 1 .. Len(scopes)
    <3>1. j \in 1 .. i
      BY DEF Outward
    <3> QED
      BY <1>3, <1>4, <3>1
  <2>3. found \in Held(scopes, j) /\ symbol[found].declaration \notin Private
    BY <2>1 DEF Entered
  <2>4. found \in SymbolNodes
    BY <1>1, <2>2, <2>3, HeldTypes
  <2>5. /\ symbol[found].home = scopes[j].serial
        /\ symbol[found].declaration = NULL <=> j = Globals
        /\ j # Globals => symbol[found].name = DeclaredName[symbol[found].declaration]
    BY <1>1, <2>2, <2>3 DEF Owned
  <2> QED
    BY <1>1, <1>4, <2>1, <2>3, <2>4, <2>5 DEF Globals
<1>7. PICK new :
        new = [symbol |-> found,
               declaration |-> IF Revalidated(u) THEN c.declaration
                               ELSE IF found = NULL THEN NULL ELSE symbol[found].declaration,
               home |-> IF Revalidated(u) THEN c.home ELSE IF found = NULL THEN 0 ELSE symbol[found].home,
               scope |-> scopes[i].serial,
               count |-> Cardinality(Entered(scopes, symbol, i))]
  OBVIOUS
<1>8. c \in Use /\ Remembers(scopes, symbol, c, name, serial)
  BY <1>1, <1>2 DEF Remembered
<1>9. new \in Use
  <2>1. found \in SymbolNodes \cup {NULL}
    BY <1>6
  <2>2. new.declaration \in Declarations \cup {NULL} /\ new.home \in Nat
    <3>1. CASE Revalidated(u)
      BY <1>7, <1>8, <3>1 DEF Use
    <3>2. CASE ~Revalidated(u) /\ found = NULL
      BY <1>7, <3>2
    <3>3. CASE ~Revalidated(u) /\ found # NULL
      BY <1>6, <1>7, <3>3 DEF Symbol
    <3> QED
      BY <3>1, <3>2, <3>3
  <2>3. new.scope \in Nat /\ new.count \in Nat /\ new.symbol = found
    BY <1>3, <1>4, <1>5, <1>7
  <2> QED
    BY <1>7, <2>1, <2>2, <2>3 DEF Use
<1>10. /\ cached' = [cached EXCEPT ![u] = new] /\ scopes' = scopes /\ running' = running /\ symbol' = symbol
       /\ pool' = pool /\ binding' = binding /\ serial' = serial /\ ~Fresh(u)
  BY <1>2, <1>5, <1>7 DEF Resolve
<1>11. TypeOK'
  BY <1>1, <1>9, <1>10 DEF TypeOK
<1>12. Remembers(scopes, symbol, new, name, serial)
  <2>1. new.scope <= serial
    BY <1>3, <1>4, <1>7
  <2>2. new.declaration # NULL => new.declaration \notin Private /\ DeclaredName[new.declaration] = name
    BY <1>6, <1>7, <1>8 DEF Remembers
  <2>3. ASSUME new.declaration = NULL
        PROVE  \/ new.symbol = NULL /\ new.home = 0
               \/ new.symbol \in Held(scopes, Globals) /\ symbol[new.symbol].name = name /\ new.home = 1
    <3>1. CASE Revalidated(u)
      <4>1. new.home = c.home /\ c.declaration = NULL
        BY <1>7, <2>3, <3>1
      <4>2. new.symbol = c.symbol
        BY <1>2, <1>7, <1>10, <3>1, <4>1 DEF Resolved, RememberedSymbol
      <4> QED
        BY <1>8, <4>1, <4>2 DEF Remembers
    <3>2. CASE ~Revalidated(u) /\ found = NULL
      BY <1>7, <3>2
    <3>3. CASE ~Revalidated(u) /\ found # NULL
      BY <1>6, <1>7, <2>3, <3>3
    <3> QED
      BY <3>1, <3>2, <3>3
  <2>4. ASSUME NEW j \in 1 .. Len(scopes), new.scope = scopes[j].serial
        PROVE  /\ new.count <= Cardinality(Entered(scopes, symbol, j))
               /\ new.count = Cardinality(Entered(scopes, symbol, j)) => Walk(scopes, symbol, j, name, new.symbol)
    <3>1. j = i
      BY <1>4, <1>7, <2>4
    <3>2. \A k \in Nat : k <= k
      OBVIOUS
    <3>3. new.count = Cardinality(Entered(scopes, symbol, i)) /\ new.symbol = found
      BY <1>7
    <3> QED
      BY <1>3, <1>5, <3>1, <3>2, <3>3
  <2> QED
    BY <2>1, <2>2, <2>3, <2>4 DEF Remembers
<1>13. Remembered(scopes, symbol, cached', serial)
  <2>1. ASSUME NEW v \in Uses \cup GlobalUses
        PROVE  Remembers(scopes, symbol, cached'[v], UsedName[v], serial)
    <3>1. CASE v = u
      BY <1>1, <1>2, <1>10, <1>12, <3>1
    <3>2. CASE v # u
      <4>1. cached'[v] = cached[v]
        BY <1>1, <1>10, <3>2
      <4> QED
        BY <1>1, <4>1 DEF Remembered
    <3> QED
      BY <3>1, <3>2
  <2> QED
    BY <2>1 DEF Remembered
<1> QED
  BY <1>1, <1>10, <1>11, <1>13 DEF IndInv

\* Every step of the machine, and a stutter, preserves the invariant.
LEMMA NextIndInv == IndInv /\ [Next]_vars => IndInv'
<1> SUFFICES ASSUME IndInv, [Next]_vars
             PROVE  IndInv'
  OBVIOUS
<1>1. /\ TypeOK /\ Nest(scopes, serial) /\ Active(scopes, running) /\ Owned(scopes, symbol, pool)
      /\ scopes \in Seq(Scope) /\ running \in Seq(Nat)
  BY DEF IndInv, TypeOK
<1>2. /\ Len(scopes) \in Nat /\ Len(scopes) >= 1 /\ 1 \in 1 .. Len(scopes) /\ scopes[1].block = NULL
      /\ Len(running) \in Nat /\ Current \in 1 .. Len(scopes) /\ Current = running[Len(running)]
      /\ Current # Globals => Current = Len(scopes)
      /\ Len(running) = 1 => Current = Globals /\ Len(scopes) = 1
  BY <1>1, ScopeFacts, CurrentIsLast DEF Nest
<1>3. ASSUME NEW block \in Blocks, EnterBlock(block)
      PROVE  IndInv'
  <2>1. Current = Len(scopes) /\ Enclosing[block] = scopes[Current].block /\ Open(block, Current)
    BY <1>2, <1>3 DEF EnterBlock
  <2> QED
    BY <1>2, <2>1, OpenIndInv
<1>4. ASSUME NEW block \in Blocks, Call(block)
      PROVE  IndInv'
  <2>1. Enclosing[block] = scopes[1].block /\ Open(block, 1)
    BY <1>2, <1>4 DEF Call, Globals
  <2> QED
    BY <1>2, <2>1, OpenIndInv
<1>5. CASE CallBare
  <2>1. Append(running, Globals) \in Seq(Nat) /\ Active(scopes, Append(running, Globals))
    BY <1>1, <1>2, BareActivations
  <2>2. running' = Append(running, Globals) /\ UNCHANGED <<scopes, symbol, pool, binding, cached, serial>>
    BY <1>5 DEF CallBare
  <2>3. running' \in Seq(Nat) /\ Active(scopes, running')
    BY <2>1, <2>2
  <2> QED
    BY <2>2, <2>3, BareIndInv
<1>6. CASE Leave /\ Current = Globals
  <2>1. running' = Front(running) /\ Len(running) > 1 /\ UNCHANGED <<scopes, symbol, pool, binding, cached, serial>>
    BY <1>6 DEF Leave
  <2>2. Front(running) \in Seq(Nat) /\ Active(scopes, Front(running))
    BY <1>1, <1>2, <1>6, <2>1, BareActivations
  <2>3. running' \in Seq(Nat) /\ Active(scopes, running')
    BY <2>1, <2>2
  <2> QED
    BY <2>1, <2>3, BareIndInv
<1>7. CASE Leave /\ Current # Globals
  BY <1>7, LeaveIndInv
<1>8. ASSUME NEW d \in Declarations, NEW s \in SymbolNodes, DeclareLocal(d, s)
      PROVE  IndInv'
  <2>1. scopes[Current].block = Block[d] /\ Block[d] \in Blocks /\ Define(s, DeclaredName[d], d)
    BY <1>8, ProgramAssumption DEF DeclareLocal
  <2>2. Current # Globals /\ Current = Len(scopes)
    BY <1>2, <2>1, NullAssumption DEF Globals
  <2>3. d \notin Private => \A t \in Entered(scopes, symbol, Len(scopes)) : symbol[t].name # DeclaredName[d]
    BY <1>8, <2>2 DEF DeclareLocal, Declares, Indexed, Entered, Held
  <2>4. ASSUME NEW t \in Held(scopes, Len(scopes)), symbol[t].declaration = d
        PROVE  FALSE
    <3>1. CASE d \in Private
      BY <1>8, <2>2, <2>4, <3>1 DEF DeclareLocal, Held
    <3>2. CASE d \notin Private
      <4>1. Len(scopes) \in 1 .. Len(scopes)
        BY <1>2
      <4>2. symbol[t].name = DeclaredName[d] /\ t \in Entered(scopes, symbol, Len(scopes))
        BY <1>1, <2>2, <2>4, <3>2, <4>1 DEF Owned, Entered
      <4> QED
        BY <2>3, <3>2, <4>2
    <3> QED
      BY <3>1, <3>2
  <2>5. d # NULL /\ Len(scopes) # Globals /\ DeclaredName[d] \in Names
    BY <2>2, NullAssumption, ProgramAssumption
  <2> QED
    BY <2>1, <2>2, <2>3, <2>4, <2>5, DefineIndInv
<1>9. ASSUME NEW name \in Names, NEW s \in SymbolNodes, DeclareGlobal(name, s)
      PROVE  IndInv'
  <2>1. running = <<1>> /\ ~Declares(1, name) /\ Define(s, name, NULL)
    BY <1>9 DEF DeclareGlobal, Globals
  <2>2. Current = Len(scopes) /\ Len(scopes) = 1
    <3>1. Len(running) = 1
      BY <2>1
    <3> QED
      BY <1>2, <3>1 DEF Globals
  <2>3. \A t \in Entered(scopes, symbol, Len(scopes)) : symbol[t].name # name
    BY <2>1, <2>2 DEF Declares, Indexed, Entered, Held
  <2> QED
    BY <2>1, <2>2, <2>3, DefineIndInv DEF Globals
<1>10. ASSUME NEW u \in Uses \cup GlobalUses, Resolve(u)
       PROVE  IndInv'
  BY <1>10, ResolveIndInv
<1>11. CASE UNCHANGED vars
  <2>1. running' = running /\ UNCHANGED <<scopes, symbol, pool, binding, cached, serial>>
    BY <1>11 DEF vars
  <2>2. running' \in Seq(Nat) /\ Active(scopes, running')
    BY <1>1, <2>1
  <2> QED
    BY <2>1, <2>2, BareIndInv
<1> QED
  BY <1>3, <1>4, <1>5, <1>6, <1>7, <1>8, <1>9, <1>10, <1>11 DEF Next

-----------------------------------------------------------------------------
(* Theorems. *)

\* In every reachable state, for any program: the innermost scope is the globals or the last opened,
\* every symbol in use stands in one scope of its declaration's block, each declaration is bound to
\* its innermost symbol, each symbol knows the one it shadows, and what a use remembers is either
\* seen to be stale or what a walk finds.
THEOREM Invariance == Spec => []IndInv
<1>1. Init => IndInv
  BY InitIndInv
<1>2. IndInv /\ [Next]_vars => IndInv'
  BY NextIndInv
<1> QED
  BY <1>1, <1>2, PTL DEF Spec

\* Whatever was remembered, and whatever calls, blocks and symbol nodes came and went since, a name
\* is resolved to what a walk of the scope chain would find (resolve, resolve_again).
THEOREM ResolutionIsLookup == Spec => []ResolutionAgrees
<1>1. ASSUME IndInv
      PROVE  ResolutionAgrees
  <2>1. TypeOK /\ Nest(scopes, serial) /\ Owned(scopes, symbol, pool)
    BY <1>1 DEF IndInv
  <2>2. ASSUME NEW u \in Uses \cup GlobalUses
        PROVE  Resolved(u) = Lookup(ScopeOf(u), UsedName[u])
    <3>1. ScopeOf(u) \in 1 .. Len(scopes) /\ Walk(scopes, symbol, ScopeOf(u), UsedName[u], Resolved(u))
      BY <1>1, ResolvedWalks
    <3>2. Walk(scopes, symbol, ScopeOf(u), UsedName[u], Lookup(ScopeOf(u), UsedName[u]))
      BY <2>1, <3>1, LookupWalks
    <3> QED
      BY <2>1, <3>1, <3>2, WalkIsOne
  <2> QED
    BY <2>2 DEF ResolutionAgrees
<1> QED
  BY <1>1, Invariance, PTL

\* Blocks nested in one another are different ones.
LEMMA BlocksNestProperly ==
  ASSUME IndInv, NEW i \in 1 .. Len(scopes), NEW j \in 1 .. Len(scopes), i # Globals, i < j,
         \A k \in i + 1 .. j : scopes[k].parent # Globals
  PROVE  scopes[i].block # scopes[j].block
<1>1. PICK depth \in [Blocks -> 0 .. Cardinality(Blocks)] :
        \A b \in Blocks : Enclosing[b] # NULL => depth[Enclosing[b]] < depth[b]
  BY ProgramAssumption
<1>2. Cardinality(Blocks) \in Nat
  BY ProgramAssumption, FS_CardinalityType
<1>3. TypeOK /\ Nest(scopes, serial) /\ Len(scopes) \in Nat
  BY ScopeFacts DEF IndInv
<1>4. ASSUME NEW k \in i .. j
      PROVE  scopes[k].block \in Blocks /\ scopes[k].block # NULL /\ depth[scopes[k].block] \in Nat
  <2>1. k \in 1 .. Len(scopes) /\ k # 1
    BY <1>3 DEF Globals
  <2>2. scopes[k].block \in Blocks /\ scopes[k].block # NULL
    BY <1>3, <2>1, ScopeFacts
  <2>3. depth[scopes[k].block] \in 0 .. Cardinality(Blocks)
    BY <1>1, <2>2
  <2> QED
    BY <1>2, <2>2, <2>3
<1>5. ASSUME NEW k \in i + 1 .. j
      PROVE  k - 1 \in i .. j /\ k \in i .. j /\ depth[scopes[k - 1].block] < depth[scopes[k].block]
  <2>1. k \in 2 .. Len(scopes) /\ k - 1 \in i .. j /\ k \in i .. j
    BY <1>3 DEF Globals
  <2>2. scopes[k].parent = k - 1
    BY <1>3, <2>1 DEF Nest, Globals
  <2>3. Enclosing[scopes[k].block] = scopes[k - 1].block
    BY <1>3, <2>1, <2>2 DEF Nest
  <2> QED
    BY <1>1, <1>4, <2>1, <2>3
<1>6. ASSUME NEW k \in i + 1 .. j
      PROVE  depth[scopes[i].block] < depth[scopes[k].block]
  <2> DEFINE Shallow == {l \in i + 1 .. j : ~(depth[scopes[i].block] < depth[scopes[l].block])}
  <2>1. ASSUME Shallow # {}
        PROVE  FALSE
    <3>1. Shallow \in SUBSET Nat
      BY <1>3
    <3>2. PICK l \in Shallow : \A m \in Shallow : l <= m
      BY <2>1, <3>1, LeastNatural
    <3>3. l \in i + 1 .. j /\ ~(depth[scopes[i].block] < depth[scopes[l].block])
      OBVIOUS
    <3>4. l - 1 \in i .. j /\ l \in i .. j /\ depth[scopes[l - 1].block] < depth[scopes[l].block]
      BY <1>5, <3>3
    <3>5. CASE l = i + 1
      <4>1. l - 1 = i
        BY <1>3, <3>5
      <4> QED
        BY <3>3, <3>4, <4>1
    <3>6. CASE l # i + 1
      <4>1. l - 1 \in i + 1 .. j /\ ~(l <= l - 1)
        BY <1>3, <3>3, <3>6
      <4>2. l - 1 \notin Shallow
        BY <3>2, <4>1
      <4>3. depth[scopes[i].block] < depth[scopes[l - 1].block]
        BY <4>1, <4>2
      <4>4. PICK a, b, c : /\ a = depth[scopes[i].block] /\ b = depth[scopes[l - 1].block]
                           /\ c = depth[scopes[l].block]
        OBVIOUS
      <4>5. i \in i .. j
        BY <1>3
      <4>6. a \in Nat /\ b \in Nat /\ c \in Nat /\ a < b /\ b < c /\ ~(a < c)
        BY <1>4, <3>3, <3>4, <4>3, <4>4, <4>5
      <4> QED
        BY <4>6
    <3> QED
      BY <3>5, <3>6
  <2> QED
    BY <2>1
<1>7. j \in i + 1 .. j /\ i \in i .. j /\ j \in i .. j
  BY <1>3
<1>8. PICK a \in Nat, b \in Nat : a = depth[scopes[i].block] /\ b = depth[scopes[j].block] /\ a < b
  BY <1>4, <1>6, <1>7
<1> QED
  BY <1>8

\* A live declaration is bound to the symbol of this activation, and a declaration nothing in use
\* was declared by leads nowhere (scope_clear, define).
THEOREM BindingsStayWithScopes == Spec => []BindingsFollowScopes
<1>1. ASSUME IndInv
      PROVE  BindingsFollowScopes
  <2>1. /\ TypeOK /\ Nest(scopes, serial) /\ Active(scopes, running) /\ Owned(scopes, symbol, pool)
        /\ Bound(scopes, symbol, binding) /\ scopes \in Seq(Scope) /\ binding \in [Declarations -> Binding]
    BY <1>1 DEF IndInv, TypeOK
  <2>2. /\ Len(scopes) \in Nat /\ Current \in 1 .. Len(scopes) /\ (Current # Globals => Current = Len(scopes))
    BY <2>1, ScopeFacts, CurrentIsLast
  <2>3. Chain(Current) = Outward(scopes, Current)
    <3>1. Current \in 0 .. Len(scopes)
      BY <2>2
    <3> QED
      BY <2>1, <3>1, ChainIs
  <2>4. ASSUME NEW d \in Declarations, NEW node, NEW home, binding[d].symbol = node, binding[d].scope = home
        PROVE  binding[d] = [symbol |-> node, scope |-> home]
    <3>1. binding[d] \in Binding
      BY <2>1
    <3> QED
      BY <2>4, <3>1 DEF Binding
  <2>5. ASSUME NEW i \in Chain(Current), NEW d \in Declarations, NEW s \in Range(scopes[i].symbols),
               symbol[s].declaration = d
        PROVE  binding[d] = [symbol |-> s, scope |-> scopes[i].serial]
    <3>1. i \in Outward(scopes, Current) /\ s \in Held(scopes, i) /\ d # NULL
      BY <2>3, NullAssumption DEF Held
    <3>2. i \in 1 .. Current /\ i \in 1 .. Len(scopes)
      BY <2>2, <3>1 DEF Outward
    <3>3. i # Globals
      BY <2>1, <2>5, <3>1, <3>2 DEF Owned
    <3>4. Current = Len(scopes) /\ \A k \in i + 1 .. Len(scopes) : scopes[k].parent # Globals
      <4>1. Current # Globals
        BY <2>2, <3>2, <3>3 DEF Globals
      <4> QED
        BY <2>2, <3>1, <3>3, <4>1 DEF Outward
    <3>5. Innermost(scopes, symbol, Len(scopes), d, binding[d].symbol, binding[d].scope)
      BY <2>1 DEF Bound
    <3>6. PICK j \in 1 .. Len(scopes) :
            /\ binding[d].symbol \in Held(scopes, j) /\ symbol[binding[d].symbol].declaration = d
            /\ binding[d].scope = scopes[j].serial
            /\ \A k \in j + 1 .. Len(scopes) : \A t \in Held(scopes, k) : symbol[t].declaration # d
      BY <2>5, <3>1, <3>2, <3>5 DEF Innermost
    <3>7. j # Globals
      BY <2>1, <3>1, <3>6 DEF Owned
    <3>8. scopes[i].block = Block[d] /\ scopes[j].block = Block[d]
      BY <2>1, <2>5, <3>1, <3>2, <3>3, <3>6, <3>7 DEF Owned
    <3>9. ~(j < i)
      <4>1. j < i => i \in j + 1 .. Len(scopes)
        BY <2>2, <3>2
      <4> QED
        BY <2>5, <3>1, <3>6, <4>1
    <3>10. ~(i < j)
      <4>1. \A k \in i + 1 .. j : k \in i + 1 .. Len(scopes)
        BY <2>2
      <4> QED
        BY <1>1, <3>2, <3>3, <3>4, <3>8, <4>1, BlocksNestProperly
    <3>11. i = j
      BY <2>2, <3>2, <3>9, <3>10
    <3>12. binding[d].symbol = s
      BY <2>1, <2>5, <3>1, <3>2, <3>3, <3>6, <3>11 DEF Owned
    <3> QED
      BY <2>4, <3>6, <3>11, <3>12
  <2>6. ASSUME NEW d \in Declarations
        PROVE  IF \E s \in InUse : symbol[s].declaration = d
               THEN binding[d].symbol \in InUse /\ symbol[binding[d].symbol].declaration = d
               ELSE binding[d] = [symbol |-> NULL, scope |-> 0]
    <3>1. \A s : s \in InUse <=> \E i \in 1 .. Len(scopes) : s \in Held(scopes, i)
      BY DEF InUse, Held
    <3>2. Innermost(scopes, symbol, Len(scopes), d, binding[d].symbol, binding[d].scope)
      BY <2>1 DEF Bound
    <3>3. CASE /\ binding[d].symbol = NULL /\ binding[d].scope = 0
               /\ \A i \in 1 .. Len(scopes) : \A s \in Held(scopes, i) : symbol[s].declaration # d
      BY <2>4, <3>1, <3>3
    <3>4. ASSUME NEW i \in 1 .. Len(scopes), binding[d].symbol \in Held(scopes, i),
                 symbol[binding[d].symbol].declaration = d
          PROVE  binding[d].symbol \in InUse /\ symbol[binding[d].symbol].declaration = d
      BY <3>1, <3>4
    <3> QED
      BY <3>1, <3>2, <3>3, <3>4 DEF Innermost
  <2> QED
    BY <2>5, <2>6 DEF BindingsFollowScopes
<1> QED
  BY <1>1, Invariance, PTL
=============================================================================
