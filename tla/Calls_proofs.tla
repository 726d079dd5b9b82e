---------------------------- MODULE Calls_proofs ----------------------------
(***************************************************************************)
(* Proofs about Calls, for any functions, parameters, lists and limits.    *)
(*                                                                         *)
(* The calls in progress are a stack, and what a call replaced when it     *)
(* became the innermost one, the frame and the argument frame, is what was *)
(* current below it: so ending the innermost call, at any moment and for   *)
(* any reason, makes that current again.  Every frame ever made is in use  *)
(* by one call or spare for one function, once.  An identity is given out  *)
(* only once, so that the chain of argument frames holds the one a va_list *)
(* names exactly while the call that started the list is in progress.      *)
(***************************************************************************)
EXTENDS Calls, SequenceTheorems, WellFoundedInduction, FiniteSetTheorems, TLAPS

-----------------------------------------------------------------------------
(* Sequences and numbers. *)

\* What is left of a sequence without its last element.
LEMMA FrontProperties ==
  ASSUME NEW S, NEW seq \in Seq(S), seq # <<>>
  PROVE  /\ Front(seq) \in Seq(S) /\ Len(Front(seq)) = Len(seq) - 1
         /\ \A k \in 1 .. Len(seq) - 1 : Front(seq)[k] = seq[k]
<1> DEFINE m == Len(seq) - 1
<1>1. m \in Nat /\ \A k \in 1 .. m : seq[k] \in S
  BY EmptySeq, ElementOfSeq
<1>2. Front(seq) = SubSeq(seq, 1, m)
  BY DEF Front
<1> HIDE DEF m
<1>3. /\ SubSeq(seq, 1, m) \in Seq(S)
      /\ Len(SubSeq(seq, 1, m)) = IF 1 <= m THEN m - 1 + 1 ELSE 0
      /\ \A k \in 1 .. m - 1 + 1 : SubSeq(seq, 1, m)[k] = seq[1 + k - 1]
  BY <1>1, SubSeqProperties
<1>4. Len(SubSeq(seq, 1, m)) = m
  BY <1>1, <1>3
<1>5. ASSUME NEW k \in 1 .. m
      PROVE  SubSeq(seq, 1, m)[k] = seq[k]
  <2>1. k \in 1 .. m - 1 + 1 /\ 1 + k - 1 = k
    BY <1>1
  <2> QED
    BY <2>1, <1>3
<1> QED
  BY <1>2, <1>3, <1>4, <1>5 DEF m

\* A set of natural numbers has a least one.
LEMMA LeastNatural ==
  ASSUME NEW T \in SUBSET Nat, T # {}
  PROVE  \E k \in T : \A l \in T : k <= l
<1> DEFINE less == {p \in Nat \X Nat : p[1] < p[2]}
<1>1. IsWellFoundedOn(less, Nat)
  BY NatLessThanWellFounded, Zenon DEF OpToRel
<1>2. \A l, k \in Nat : ~(<<l, k>> \in less) => k <= l
  OBVIOUS
<1> HIDE DEF less
<1>3. \E k \in T : \A l \in T : ~(<<l, k>> \in less)
  BY <1>1, WFMin
<1> QED
  BY <1>2, <1>3

\* Among the first n numbers, those of a set have a last one.
LEMMA LastOfPositions ==
  ASSUME NEW n \in Nat, NEW T \in SUBSET (1 .. n), T # {}
  PROVE  \E k \in T : \A l \in T : l <= k
<1> DEFINE distances == {n - k : k \in T}
<1>1. distances \in SUBSET Nat /\ distances # {}
  <2>1. \A k \in T : k \in 1 .. n /\ n - k \in Nat
    OBVIOUS
  <2> QED
    BY <2>1
<1>2. PICK d \in distances : \A e \in distances : d <= e
  BY <1>1, LeastNatural
<1>3. PICK k \in T : d = n - k
  OBVIOUS
<1>4. ASSUME NEW l \in T
      PROVE  l <= k
  <2>1. d <= n - l
    BY <1>2
  <2> QED
    BY <2>1, <1>3
<1> QED
  BY <1>4

-----------------------------------------------------------------------------
Value == [of : Nat, at : Nat, kind : Kinds \cup {"int"}]
Call ==
  [state : {"arguments", "running"}, fn : Fns \cup Library, count : Nat, args : Seq(Value), number : Nat,
   frame : Nat, outer : Nat, identity : Nat, parent : Nat, local : Seq(Value), direct : BOOLEAN]

TypeOK ==
  /\ stack \in Seq(Call) /\ spare \in [Fns -> Seq(Nat)] /\ frames \in Seq(Seq(Value))
  /\ frame \in Nat /\ vaFrame \in Nat /\ address \in Nat \ {None}
  /\ lists \in [Lists -> [id : Nat, at : Nat \cup {Consumed}]]
  /\ truth \in [Lists -> [of : Nat, at : Nat \cup {Consumed}]]
  /\ {depth, calls, entries} \subseteq Nat /\ failed \in BOOLEAN

\* A call that has put its frame, or its argument frame, in place.
Slot(c) == c.state = "running" /\ c.frame # None
Full(c) == c.state = "running" /\ c.fn \in Fns /\ ~c.direct

\* What each call is like by itself.
CallOK(c) ==
  /\ c.number # None /\ c.number <= calls /\ c.identity < address
  /\ c.direct => c.fn \in Simple
  /\ c.frame # None => c.fn \in Slotted
  /\ c.fn \in Slotted /\ (c.direct \/ c.state = "running") => c.frame # None
  /\ c.state = "arguments" /\ c.frame # None => c.direct
  /\ c.identity # None <=> Full(c) /\ c.fn \in Variadic
  /\ c.parent # None => Full(c)
  /\ c.state = "running" /\ c.fn \in Fns => Len(c.args) = c.count /\ Parameters[c.fn] <= c.count
  /\ c.direct => c.count = Parameters[c.fn]

CallsInv ==
  /\ \A i \in 1 .. Len(stack) : CallOK(stack[i])
  /\ \A i, j \in 1 .. Len(stack) : i # j =>
       /\ stack[i].number # stack[j].number
       /\ stack[i].identity # None => stack[i].identity # stack[j].identity

\* The innermost of the first n calls with a frame has this one, and the innermost argument
\* frame among them is at this place.
InnermostSlot(s, n, fr) ==
  \/ fr = None /\ \A i \in 1 .. n : ~Slot(s[i])
  \/ \E i \in 1 .. n : Slot(s[i]) /\ fr = s[i].frame /\ \A j \in i + 1 .. n : ~Slot(s[j])
InnermostFull(s, n, va) ==
  /\ va \in 0 .. n /\ (va # None => Full(s[va]))
  /\ \A j \in va + 1 .. n : ~Full(s[j])

\* Each of the first n calls replaced what was current below it, and this is current now.
Nested(s, n, fr, va) ==
  /\ \A i \in 1 .. n :
       /\ Slot(s[i]) => InnermostSlot(s, i - 1, s[i].outer)
       /\ s[i].parent \in 0 .. i - 1
       /\ Full(s[i]) => InnermostFull(s, i - 1, s[i].parent)
  /\ InnermostSlot(s, n, fr) /\ InnermostFull(s, n, va)

NestInv == Nested(stack, Len(stack), frame, vaFrame) /\ depth = Len(stack)

\* Of the frames up to n, those in use are in no list, and all others in one, once.
Partition(sp, used, n) ==
  /\ used \subseteq 1 .. n
  /\ \A f \in Fns : \A k \in 1 .. Len(sp[f]) : sp[f][k] \in (1 .. n) \ used
  /\ \A f, g \in Fns : \A k \in 1 .. Len(sp[f]), l \in 1 .. Len(sp[g]) : sp[f][k] = sp[g][l] => f = g /\ k = l
  /\ \A m \in (1 .. n) \ used : \E f \in Fns : \E k \in 1 .. Len(sp[f]) : sp[f][k] = m

InUse(s) == {s[i].frame : i \in 1 .. Len(s)} \ {None}

Content(c) == IF c.state = "running" THEN c.local ELSE c.args
Holds(fr, content) == Len(content) <= Len(fr) /\ \A k \in 1 .. Len(content) : fr[k] = content[k]

FrameInv ==
  /\ Partition(spare, InUse(stack), Len(frames))
  /\ \A i, j \in 1 .. Len(stack) : i # j /\ stack[i].frame # None => stack[i].frame # stack[j].frame
  /\ ~failed => \A i \in 1 .. Len(stack) : stack[i].frame # None => Holds(frames[stack[i].frame], Content(stack[i]))

\* A list stands for nothing, or its identity is that of its call and its cursor is right.
Stands(list, t, s) ==
  \/ list.id = None /\ t.of = None
  \/ /\ list.id # None /\ t.of # None /\ list.id < address /\ t.of <= calls /\ list.at = t.at
     /\ \A i \in 1 .. Len(s) :
          /\ s[i].identity = list.id <=> s[i].number = t.of
          /\ s[i].identity = list.id /\ list.at # Consumed => list.at <= Len(Unnamed(s[i]))

ListInv == \A l \in Lists : Stands(lists[l], truth[l], stack)

IndInv == TypeOK /\ CallsInv /\ NestInv /\ FrameInv /\ ListInv

-----------------------------------------------------------------------------
(* What is current, on any stack of calls. *)

\* Two stacks whose first n calls have the same frames in place have the same current ones.
LEMMA SameBelow ==
  ASSUME NEW s, NEW t, NEW n \in Nat,
         \A i \in 1 .. n : (Slot(t[i]) <=> Slot(s[i])) /\ (Full(t[i]) <=> Full(s[i])) /\ t[i].frame = s[i].frame,
         NEW m \in 0 .. n, NEW fr, NEW va
  PROVE  /\ InnermostSlot(s, m, fr) => InnermostSlot(t, m, fr)
         /\ InnermostFull(s, m, va) => InnermostFull(t, m, va)
<1>1. \A i \in 1 .. m : i \in 1 .. n
  OBVIOUS
<1>2. ASSUME InnermostSlot(s, m, fr)
      PROVE  InnermostSlot(t, m, fr)
  <2>1. CASE fr = None /\ \A i \in 1 .. m : ~Slot(s[i])
    BY <1>1, <2>1 DEF InnermostSlot
  <2>2. ASSUME NEW i \in 1 .. m, Slot(s[i]), fr = s[i].frame, \A j \in i + 1 .. m : ~Slot(s[j])
        PROVE  InnermostSlot(t, m, fr)
    <3>1. \A j \in i + 1 .. m : j \in 1 .. n
      OBVIOUS
    <3> QED
      BY <1>1, <2>2, <3>1 DEF InnermostSlot
  <2> QED
    BY <1>2, <2>1, <2>2 DEF InnermostSlot
<1>3. ASSUME InnermostFull(s, m, va)
      PROVE  InnermostFull(t, m, va)
  <2>1. va \in 0 .. m /\ \A j \in va + 1 .. m : j \in 1 .. n
    BY <1>3 DEF InnermostFull
  <2>2. va # None => va \in 1 .. n
    BY <2>1 DEF None
  <2> QED
    BY <1>3, <2>1, <2>2 DEF InnermostFull
<1> QED
  BY <1>2, <1>3

\* The stack without its innermost call.
LEMMA NestDrop ==
  ASSUME NEW s, NEW n \in Nat \ {0}, NEW fr, NEW va, Nested(s, n, fr, va)
  PROVE  Nested(s, n - 1, IF Slot(s[n]) THEN s[n].outer ELSE fr, IF Full(s[n]) THEN s[n].parent ELSE va)
<1>1. n - 1 \in Nat /\ n \in 1 .. n /\ \A i \in 1 .. n - 1 : i \in 1 .. n
  OBVIOUS
<1>2. InnermostSlot(s, n - 1, IF Slot(s[n]) THEN s[n].outer ELSE fr)
  <2>1. CASE Slot(s[n])
    BY <1>1, <2>1 DEF Nested
  <2>2. CASE ~Slot(s[n])
    <3>1. InnermostSlot(s, n, fr)
      BY DEF Nested
    <3>2. CASE fr = None /\ \A i \in 1 .. n : ~Slot(s[i])
      BY <1>1, <2>2, <3>2 DEF InnermostSlot
    <3>3. ASSUME NEW i \in 1 .. n, Slot(s[i]), fr = s[i].frame, \A j \in i + 1 .. n : ~Slot(s[j])
          PROVE  InnermostSlot(s, n - 1, fr)
      <4>1. i # n
        BY <2>2, <3>3
      <4>2. i \in 1 .. n - 1 /\ \A j \in i + 1 .. n - 1 : j \in i + 1 .. n
        BY <4>1
      <4> QED
        BY <3>3, <4>2 DEF InnermostSlot
    <3> QED
      BY <2>2, <3>1, <3>2, <3>3 DEF InnermostSlot
  <2> QED
    BY <2>1, <2>2
<1>3. InnermostFull(s, n - 1, IF Full(s[n]) THEN s[n].parent ELSE va)
  <2>1. CASE Full(s[n])
    BY <1>1, <2>1 DEF Nested
  <2>2. CASE ~Full(s[n])
    <3>1. va \in 0 .. n /\ (va # None => Full(s[va])) /\ \A j \in va + 1 .. n : ~Full(s[j])
      BY DEF Nested, InnermostFull
    <3>2. va \in 0 .. n - 1 /\ \A j \in va + 1 .. n - 1 : j \in va + 1 .. n
      BY <2>2, <3>1 DEF None
    <3> QED
      BY <2>2, <3>1, <3>2 DEF InnermostFull
  <2> QED
    BY <2>1, <2>2
<1> QED
  BY <1>1, <1>2, <1>3 DEF Nested

\* A stack whose first n calls are as they were, with no more above them.
LEMMA NestKept ==
  ASSUME NEW s, NEW t, NEW n \in Nat, NEW fr, NEW va, Nested(s, n, fr, va),
         \A i \in 1 .. n : /\ (Slot(t[i]) <=> Slot(s[i])) /\ (Full(t[i]) <=> Full(s[i]))
                           /\ t[i].frame = s[i].frame /\ t[i].outer = s[i].outer /\ t[i].parent = s[i].parent
  PROVE  Nested(t, n, fr, va)
<1>1. \A i \in 1 .. n : i - 1 \in 0 .. n /\ n \in 0 .. n
  OBVIOUS
<1>2. ASSUME NEW i \in 1 .. n
      PROVE  /\ Slot(t[i]) => InnermostSlot(t, i - 1, t[i].outer)
             /\ t[i].parent \in 0 .. i - 1
             /\ Full(t[i]) => InnermostFull(t, i - 1, t[i].parent)
  BY <1>1, SameBelow DEF Nested
<1>3. InnermostSlot(t, n, fr) /\ InnermostFull(t, n, va)
  <2>1. n \in 0 .. n
    OBVIOUS
  <2> QED
    BY <2>1, SameBelow DEF Nested
<1> QED
  BY <1>2, <1>3 DEF Nested

\* A call on top of n others that replaced what was current, if it has frames in place.
LEMMA NestTop ==
  ASSUME NEW s, NEW t, NEW n \in Nat, NEW fr, NEW va, Nested(s, n, fr, va),
         \A i \in 1 .. n : t[i] = s[i],
         NEW fr2, fr2 = IF Slot(t[n + 1]) THEN t[n + 1].frame ELSE fr, Slot(t[n + 1]) => t[n + 1].outer = fr,
         NEW va2, va2 = IF Full(t[n + 1]) THEN n + 1 ELSE va,
         t[n + 1].parent = IF Full(t[n + 1]) THEN va ELSE None
  PROVE  Nested(t, n + 1, fr2, va2)
<1>1. Nested(t, n, fr, va)
  BY NestKept
<1>2. n + 1 - 1 = n /\ n + 1 \in 1 .. n + 1 /\ \A i \in 1 .. n + 1 : i \in 1 .. n \/ i = n + 1
  OBVIOUS
<1>3. va \in 0 .. n /\ None \in 0 .. n
  BY <1>1 DEF Nested, InnermostFull, None
<1>4. ASSUME NEW i \in 1 .. n + 1
      PROVE  /\ Slot(t[i]) => InnermostSlot(t, i - 1, t[i].outer)
             /\ t[i].parent \in 0 .. i - 1
             /\ Full(t[i]) => InnermostFull(t, i - 1, t[i].parent)
  <2>1. CASE i \in 1 .. n
    BY <1>1, <2>1 DEF Nested
  <2>2. CASE i = n + 1
    BY <1>1, <1>2, <1>3, <2>2 DEF Nested
  <2> QED
    BY <1>2, <2>1, <2>2
<1>5. InnermostSlot(t, n + 1, fr2)
  <2>1. CASE Slot(t[n + 1])
    <3>1. \A j \in (n + 1) + 1 .. n + 1 : FALSE
      OBVIOUS
    <3> QED
      BY <1>2, <2>1, <3>1 DEF InnermostSlot
  <2>2. CASE ~Slot(t[n + 1])
    <3>1. InnermostSlot(t, n, fr) /\ fr2 = fr
      BY <1>1, <2>2 DEF Nested
    <3>2. \A i \in 1 .. n : \A j \in i + 1 .. n + 1 : j \in i + 1 .. n \/ j = n + 1
      OBVIOUS
    <3>3. \A i \in 1 .. n : i \in 1 .. n + 1
      OBVIOUS
    <3> QED
      BY <1>2, <2>2, <3>1, <3>2, <3>3 DEF InnermostSlot
  <2> QED
    BY <2>1, <2>2
<1>6. InnermostFull(t, n + 1, va2)
  <2>1. CASE Full(t[n + 1])
    <3>1. n + 1 \in 0 .. n + 1 /\ \A j \in (n + 1) + 1 .. n + 1 : FALSE
      OBVIOUS
    <3> QED
      BY <2>1, <3>1 DEF InnermostFull
  <2>2. CASE ~Full(t[n + 1])
    <3>1. InnermostFull(t, n, va) /\ va2 = va
      BY <1>1, <2>2 DEF Nested
    <3>2. va \in 0 .. n + 1 /\ \A j \in va + 1 .. n + 1 : j \in va + 1 .. n \/ j = n + 1
      BY <1>3
    <3> QED
      BY <2>2, <3>1, <3>2 DEF InnermostFull
  <2> QED
    BY <2>1, <2>2
<1> QED
  BY <1>4, <1>5, <1>6 DEF Nested

\* What is current is determined.
LEMMA InnermostIsMax ==
  ASSUME NEW n \in Nat, NEW T \in SUBSET (1 .. n), NEW k \in 1 .. n, k \in T, \A j \in k + 1 .. n : j \notin T
  PROVE  Max(T) = k /\ Max(T \cup {None}) = k
<1>1. \A j \in T : k >= j /\ j \in Nat
  <2>1. ASSUME NEW j \in T
        PROVE  k >= j /\ j \in Nat
    <3>1. j \in 1 .. n /\ j \notin k + 1 .. n
      OBVIOUS
    <3> QED
      BY <3>1
  <2> QED
    BY <2>1
<1>2. \A j \in T \cup {None} : k >= j /\ j \in Nat
  BY <1>1 DEF None
<1>3. ASSUME NEW S, k \in S, \A j \in S : k >= j /\ j \in Nat
      PROVE  Max(S) = k
  <2>1. \E x \in S : \A y \in S : x >= y
    BY <1>3
  <2>2. Max(S) \in S /\ \A y \in S : Max(S) >= y
    BY <2>1 DEF Max
  <2>3. PICK m : m = Max(S)
    OBVIOUS
  <2>4. m \in S /\ m >= k
    BY <1>3, <2>2, <2>3
  <2>5. k >= m /\ m \in Nat /\ k \in Nat
    BY <1>3, <2>4
  <2> QED
    BY <2>3, <2>4, <2>5
<1> QED
  BY <1>1, <1>2, <1>3

-----------------------------------------------------------------------------
(* Frames taken and given back. *)

\* frame_take: the frame was spare or is new.
LEMMA Taking ==
  ASSUME TypeOK, NEW used, Partition(spare, used, Len(frames)), NEW f \in Fns
  PROVE  /\ Taken(f) \in Nat \ {None} /\ Taken(f) \notin used
         /\ TakenFrom(f) \in [Fns -> Seq(Nat)] /\ Made(f) \in Seq(Seq(Value))
         /\ Taken(f) \in 1 .. Len(Made(f)) /\ Len(frames) <= Len(Made(f))
         /\ \A m \in 1 .. Len(frames) : Made(f)[m] = frames[m]
         /\ Partition(TakenFrom(f), used \cup {Taken(f)}, Len(Made(f)))
<1>1. /\ spare \in [Fns -> Seq(Nat)] /\ spare[f] \in Seq(Nat) /\ frames \in Seq(Seq(Value)) /\ Len(frames) \in Nat
      /\ \A g \in Fns : Len(spare[g]) \in Nat
  BY LenProperties DEF TypeOK
<1>2. /\ used \subseteq 1 .. Len(frames)
      /\ \A g \in Fns : \A k \in 1 .. Len(spare[g]) : spare[g][k] \in (1 .. Len(frames)) \ used
      /\ \A g, h \in Fns : \A k \in 1 .. Len(spare[g]), l \in 1 .. Len(spare[h]) : spare[g][k] = spare[h][l] => g = h /\ k = l
      /\ \A m \in (1 .. Len(frames)) \ used : \E g \in Fns : \E k \in 1 .. Len(spare[g]) : spare[g][k] = m
  BY DEF Partition
<1>3. CASE spare[f] = <<>>
  <2>1. Taken(f) = Len(frames) + 1 /\ Made(f) = Append(frames, <<>>)
    BY <1>3 DEF Taken, Made
  <2>2. TakenFrom(f) = spare
    BY <1>1, <1>3 DEF TakenFrom
  <2>3. <<>> \in Seq(Value)
    BY EmptySeq
  <2>4. /\ Made(f) \in Seq(Seq(Value)) /\ Len(Made(f)) = Len(frames) + 1
        /\ \A m \in 1 .. Len(frames) : Made(f)[m] = frames[m]
    BY <1>1, <2>1, <2>3, AppendProperties
  <2>5. Taken(f) \in Nat \ {None} /\ Taken(f) \notin used /\ Taken(f) \in 1 .. Len(Made(f)) /\ Len(frames) <= Len(Made(f))
    BY <1>1, <1>2, <2>1, <2>4 DEF None
  <2>6. Partition(spare, used \cup {Taken(f)}, Len(Made(f)))
    <3>1. used \cup {Taken(f)} \subseteq 1 .. Len(Made(f))
      <4>1. \A m \in 1 .. Len(frames) : m \in 1 .. Len(Made(f))
        BY <1>1, <2>4
      <4> QED
        BY <1>2, <2>5, <4>1
    <3>2. \A m \in 1 .. Len(frames) : m \in 1 .. Len(Made(f)) /\ m # Taken(f)
      BY <1>1, <2>1, <2>4
    <3>3. \A m \in (1 .. Len(Made(f))) \ (used \cup {Taken(f)}) : m \in (1 .. Len(frames)) \ used
      BY <1>1, <2>1, <2>4
    <3>4. \A g \in Fns : \A k \in 1 .. Len(spare[g]) : spare[g][k] \in (1 .. Len(Made(f))) \ (used \cup {Taken(f)})
      BY <1>2, <3>2
    <3> QED
      BY <1>2, <3>1, <3>3, <3>4 DEF Partition
  <2> QED
    BY <1>1, <2>2, <2>4, <2>5, <2>6
<1>4. CASE spare[f] # <<>>
  <2>1. /\ Taken(f) = Head(spare[f]) /\ Made(f) = frames /\ Head(spare[f]) = spare[f][1] /\ Len(spare[f]) >= 1
        /\ Tail(spare[f]) \in Seq(Nat) /\ Len(Tail(spare[f])) = Len(spare[f]) - 1
        /\ \A k \in 1 .. Len(spare[f]) - 1 : Tail(spare[f])[k] = spare[f][k + 1]
    BY <1>1, <1>4, HeadTailProperties, EmptySeq DEF Taken, Made
  <2>2. PICK rest \in Seq(Nat) : /\ rest = Tail(spare[f]) /\ Len(rest) = Len(spare[f]) - 1
                                 /\ \A k \in 1 .. Len(spare[f]) - 1 : rest[k] = spare[f][k + 1]
    BY <2>1
  <2>3. TakenFrom(f) = [spare EXCEPT ![f] = rest]
    BY <1>1, <1>4, <2>2 DEF TakenFrom
  <2>4. TakenFrom(f) \in [Fns -> Seq(Nat)] /\ TakenFrom(f)[f] = rest /\ \A g \in Fns : g # f => TakenFrom(f)[g] = spare[g]
    BY <1>1, <2>2, <2>3
  <2>5. 1 \in 1 .. Len(spare[f]) /\ Taken(f) = spare[f][1]
    BY <1>1, <2>1
  <2>6. Taken(f) \in (1 .. Len(frames)) \ used
    BY <1>2, <2>5
  <2>7. ASSUME NEW g \in Fns, NEW k \in 1 .. Len(TakenFrom(f)[g])
        PROVE  \E l \in 1 .. Len(spare[g]) : TakenFrom(f)[g][k] = spare[g][l] /\ l = (IF g = f THEN k + 1 ELSE k)
    <3>1. CASE g = f
      <4>1. k \in 1 .. Len(spare[f]) - 1 /\ k + 1 \in 1 .. Len(spare[f])
        BY <1>1, <2>2, <2>4, <3>1
      <4> QED
        BY <2>2, <2>4, <3>1, <4>1
    <3>2. CASE g # f
      BY <2>4, <3>2
    <3> QED
      BY <3>1, <3>2
  <2>8. Partition(TakenFrom(f), used \cup {Taken(f)}, Len(frames))
    <3>1. ASSUME NEW g \in Fns, NEW k \in 1 .. Len(TakenFrom(f)[g])
          PROVE  TakenFrom(f)[g][k] \in (1 .. Len(frames)) \ (used \cup {Taken(f)})
      <4>1. PICK l \in 1 .. Len(spare[g]) : TakenFrom(f)[g][k] = spare[g][l] /\ l = (IF g = f THEN k + 1 ELSE k)
        BY <2>7
      <4>2. ~(g = f /\ l = 1)
        <5>1. k \in Nat /\ k >= 1
          BY <2>4, LenProperties
        <5> QED
          BY <4>1, <5>1
      <4>3. spare[g][l] # Taken(f)
        BY <1>2, <2>5, <4>2
      <4> QED
        BY <1>2, <4>1, <4>3
    <3>2. ASSUME NEW g \in Fns, NEW h \in Fns, NEW k \in 1 .. Len(TakenFrom(f)[g]), NEW l \in 1 .. Len(TakenFrom(f)[h]),
                 TakenFrom(f)[g][k] = TakenFrom(f)[h][l]
          PROVE  g = h /\ k = l
      <4>1. PICK a \in 1 .. Len(spare[g]) : TakenFrom(f)[g][k] = spare[g][a] /\ a = (IF g = f THEN k + 1 ELSE k)
        BY <2>7
      <4>2. PICK b \in 1 .. Len(spare[h]) : TakenFrom(f)[h][l] = spare[h][b] /\ b = (IF h = f THEN l + 1 ELSE l)
        BY <2>7
      <4>3. g = h /\ a = b
        <5>1. spare[g][a] = spare[h][b]
          BY <3>2, <4>1, <4>2
        <5>2. \A i, j \in Fns : \A c \in 1 .. Len(spare[i]), d \in 1 .. Len(spare[j]) : spare[i][c] = spare[j][d] => i = j /\ c = d
          BY <1>2
        <5> QED
          BY <5>1, <5>2
      <4>4. k \in Int /\ l \in Int
        OBVIOUS
      <4> QED
        BY <4>1, <4>2, <4>3, <4>4
    <3>3. ASSUME NEW m \in (1 .. Len(frames)) \ (used \cup {Taken(f)})
          PROVE  \E g \in Fns : \E k \in 1 .. Len(TakenFrom(f)[g]) : TakenFrom(f)[g][k] = m
      <4>0. PICK g \in Fns : \E k \in 1 .. Len(spare[g]) : spare[g][k] = m
        BY <1>2
      <4>1. PICK k \in 1 .. Len(spare[g]) : spare[g][k] = m
        BY <4>0
      <4>2. CASE g = f
        <5>1. k # 1
          BY <2>5, <4>1, <4>2
        <5>2. k - 1 \in 1 .. Len(spare[f]) - 1 /\ (k - 1) + 1 = k
          BY <1>1, <4>2, <5>1
        <5>3. rest[k - 1] = m
          BY <2>2, <4>1, <4>2, <5>2
        <5> QED
          BY <2>2, <2>4, <4>2, <5>2, <5>3
      <4>3. CASE g # f
        BY <2>4, <4>1, <4>3
      <4> QED
        BY <4>2, <4>3
    <3>4. used \cup {Taken(f)} \subseteq 1 .. Len(frames)
      BY <1>2, <2>6
    <3> QED
      BY <3>1, <3>2, <3>3, <3>4 DEF Partition
  <2> QED
    BY <1>1, <2>1, <2>4, <2>6, <2>8 DEF None
<1> QED
  BY <1>3, <1>4

\* frame_give: a frame that was in use becomes spare.
LEMMA Giving ==
  ASSUME TypeOK, NEW used, NEW n, n \in 1 .. Len(frames), n \notin used, Partition(spare, used \cup {n}, Len(frames)), NEW f \in Fns
  PROVE  Given(f, n) \in [Fns -> Seq(Nat)] /\ Partition(Given(f, n), used, Len(frames))
<1>1. /\ spare \in [Fns -> Seq(Nat)] /\ spare[f] \in Seq(Nat) /\ Len(frames) \in Nat /\ n \in Nat
      /\ \A g \in Fns : Len(spare[g]) \in Nat
  BY LenProperties DEF TypeOK
<1>2. /\ used \cup {n} \subseteq 1 .. Len(frames)
      /\ \A g \in Fns : \A k \in 1 .. Len(spare[g]) : spare[g][k] \in (1 .. Len(frames)) \ (used \cup {n})
      /\ \A g, h \in Fns : \A k \in 1 .. Len(spare[g]), l \in 1 .. Len(spare[h]) : spare[g][k] = spare[h][l] => g = h /\ k = l
      /\ \A m \in (1 .. Len(frames)) \ (used \cup {n}) : \E g \in Fns : \E k \in 1 .. Len(spare[g]) : spare[g][k] = m
  BY DEF Partition
<1>3. /\ <<n>> \in Seq(Nat) /\ Len(<<n>>) = 1 /\ <<n>>[1] = n
  BY <1>1
<1>4. PICK list \in Seq(Nat) : /\ list = <<n>> \o spare[f] /\ Len(list) = Len(spare[f]) + 1 /\ list[1] = n
                               /\ \A k \in 1 .. Len(spare[f]) : list[k + 1] = spare[f][k]
  <2>1. /\ <<n>> \o spare[f] \in Seq(Nat) /\ Len(<<n>> \o spare[f]) = Len(<<n>>) + Len(spare[f])
        /\ \A k \in 1 .. Len(<<n>>) + Len(spare[f]) :
             (<<n>> \o spare[f])[k] = IF k <= Len(<<n>>) THEN <<n>>[k] ELSE spare[f][k - Len(<<n>>)]
    BY <1>1, <1>3, ConcatProperties
  <2>2. PICK list : list = <<n>> \o spare[f]
    OBVIOUS
  <2>3. list[1] = n /\ Len(list) = Len(spare[f]) + 1
    BY <1>1, <1>3, <2>1, <2>2
  <2>4. ASSUME NEW k \in 1 .. Len(spare[f])
        PROVE  list[k + 1] = spare[f][k]
    <3>1. k + 1 \in 1 .. Len(<<n>>) + Len(spare[f]) /\ ~(k + 1 <= Len(<<n>>)) /\ (k + 1) - Len(<<n>>) = k
      BY <1>1, <1>3
    <3> QED
      BY <2>1, <2>2, <3>1
  <2> QED
    BY <2>1, <2>2, <2>3, <2>4
<1>5. n # None /\ Given(f, n) = [spare EXCEPT ![f] = list]
  BY <1>1, <1>4 DEF Given, None
<1>0. PICK sp : sp = Given(f, n)
  OBVIOUS
<1>6. sp \in [Fns -> Seq(Nat)] /\ sp[f] = list /\ \A g \in Fns : g # f => sp[g] = spare[g]
  BY <1>0, <1>1, <1>4, <1>5
<1>7. ASSUME NEW g \in Fns, NEW k \in 1 .. Len(sp[g])
      PROVE  \/ g = f /\ k = 1 /\ sp[g][k] = n
             \/ \E l \in 1 .. Len(spare[g]) : sp[g][k] = spare[g][l] /\ k = (IF g = f THEN l + 1 ELSE l)
  <2>1. CASE g = f /\ k # 1
    <3>1. k - 1 \in 1 .. Len(spare[f]) /\ (k - 1) + 1 = k
      BY <1>1, <1>4, <1>6, <2>1
    <3> QED
      BY <1>4, <1>6, <2>1, <3>1
  <2>2. CASE g = f /\ k = 1
    BY <1>4, <1>6, <2>2
  <2>3. CASE g # f
    BY <1>6, <2>3
  <2> QED
    BY <2>1, <2>2, <2>3
<1>8. ASSUME NEW g \in Fns, NEW k \in 1 .. Len(sp[g])
      PROVE  sp[g][k] \in (1 .. Len(frames)) \ used
  <2>1. \A l \in 1 .. Len(spare[g]) : spare[g][l] \in (1 .. Len(frames)) \ used
    BY <1>2
  <2>2. n \in (1 .. Len(frames)) \ used
    OBVIOUS
  <2> QED
    BY <1>7, <2>1, <2>2
<1>9. ASSUME NEW g \in Fns, NEW h \in Fns, NEW k \in 1 .. Len(sp[g]), NEW l \in 1 .. Len(sp[h]), sp[g][k] = sp[h][l]
      PROVE  g = h /\ k = l
  <2>1. CASE (g = f /\ k = 1) /\ (h = f /\ l = 1)
    BY <2>1
  <2>2. ASSUME NEW a \in 1 .. Len(spare[g]), sp[g][k] = spare[g][a], k = (IF g = f THEN a + 1 ELSE a),
               NEW b \in 1 .. Len(spare[h]), sp[h][l] = spare[h][b], l = (IF h = f THEN b + 1 ELSE b)
        PROVE  g = h /\ k = l
    <3>1. g = h /\ a = b
      <4>1. spare[g][a] = spare[h][b]
        BY <1>9, <2>2
      <4>2. \A i, j \in Fns : \A c \in 1 .. Len(spare[i]), d \in 1 .. Len(spare[j]) : spare[i][c] = spare[j][d] => i = j /\ c = d
        BY <1>2
      <4> QED
        BY <4>1, <4>2
    <3> QED
      BY <2>2, <3>1
  <2>3. \A i \in Fns : \A a \in 1 .. Len(spare[i]) : spare[i][a] # n
    BY <1>2
  <2>4. \/ g = f /\ k = 1 /\ sp[g][k] = n
        \/ \E a \in 1 .. Len(spare[g]) : sp[g][k] = spare[g][a] /\ k = (IF g = f THEN a + 1 ELSE a)
    BY <1>7
  <2>5. \/ h = f /\ l = 1 /\ sp[h][l] = n
        \/ \E b \in 1 .. Len(spare[h]) : sp[h][l] = spare[h][b] /\ l = (IF h = f THEN b + 1 ELSE b)
    BY <1>7
  <2> QED
    BY <1>9, <2>1, <2>2, <2>3, <2>4, <2>5
<1>10. ASSUME NEW m \in (1 .. Len(frames)) \ used
       PROVE  \E g \in Fns : \E k \in 1 .. Len(sp[g]) : sp[g][k] = m
  <2>1. CASE m = n
    <3>1. 1 \in 1 .. Len(sp[f]) /\ sp[f][1] = n
      BY <1>1, <1>4, <1>6
    <3> QED
      BY <2>1, <3>1
  <2>2. CASE m # n
    <3>0. PICK g \in Fns : \E k \in 1 .. Len(spare[g]) : spare[g][k] = m
      BY <1>2, <2>2
    <3>1. PICK k \in 1 .. Len(spare[g]) : spare[g][k] = m
      BY <3>0
    <3>2. CASE g = f
      <4>1. k + 1 \in 1 .. Len(sp[f]) /\ sp[f][k + 1] = m
        BY <1>1, <1>4, <1>6, <3>1, <3>2
      <4> QED
        BY <4>1
    <3>3. CASE g # f
      BY <1>6, <3>1, <3>3
    <3> QED
      BY <3>2, <3>3
  <2> QED
    BY <2>1, <2>2
<1>11. used \subseteq 1 .. Len(frames)
  BY <1>2
<1>12. Partition(sp, used, Len(frames))
  BY <1>8, <1>9, <1>10, <1>11 DEF Partition
<1> QED
  BY <1>0, <1>6, <1>12

-----------------------------------------------------------------------------
(* A call that begins, or whose state changes, on top of n others. *)

Placed(n, c) ==
  /\ n \in Nat /\ (n = Len(stack) \/ n = Len(stack) - 1)
  /\ stack' \in Seq(Call) /\ Len(stack') = n + 1 /\ stack'[n + 1] = c
  /\ \A i \in 1 .. n : stack'[i] = stack[i]

\* Putting a sound call on top keeps the calls sound and what each list knows of them.
LEMMA PlacedCalls ==
  ASSUME TypeOK, CallsInv, ListInv, NEW n, NEW c \in Call, Placed(n, c), CallOK(c)',
         calls' \in Nat, calls <= calls', address' \in Nat, address <= address', UNCHANGED <<lists, truth>>,
         c.identity # None => c.identity >= address,
         \/ n = Len(stack) /\ c.number > calls
         \/ n = Len(stack) - 1 /\ c.number = stack[n + 1].number /\ stack[n + 1].identity = None
  PROVE  CallsInv' /\ ListInv'
<1>1. /\ stack \in Seq(Call) /\ Len(stack) \in Nat /\ n \in Nat /\ calls \in Nat /\ address \in Nat /\ n <= Len(stack)
      /\ \A i \in 1 .. n : i \in 1 .. Len(stack) /\ stack[i] \in Call /\ stack'[i] = stack[i] /\ i # n + 1
      /\ \A i \in 1 .. Len(stack') : i \in 1 .. n \/ (i = n + 1 /\ stack'[i] = c)
  <2>1. stack \in Seq(Call) /\ Len(stack) \in Nat /\ calls \in Nat /\ address \in Nat
    BY LenProperties DEF TypeOK
  <2>2. n \in Nat /\ n <= Len(stack)
    BY <2>1 DEF Placed
  <2>3. \A i \in 1 .. n : i \in 1 .. Len(stack)
    BY <2>1, <2>2
  <2>4. \A i \in 1 .. n : stack[i] \in Call
    BY <2>1, <2>3, ElementOfSeq
  <2>5. \A i \in 1 .. n + 1 : i \in 1 .. n \/ i = n + 1
    BY <2>2
  <2> QED
    BY <2>1, <2>2, <2>3, <2>4, <2>5 DEF Placed
<1>2. \A i \in 1 .. n : /\ stack[i].number \in Nat /\ stack[i].identity \in Nat
                        /\ stack[i].number <= calls /\ stack[i].identity < address /\ CallOK(stack[i])
  BY <1>1 DEF CallsInv, CallOK, Call
<1>3. c.number \in Nat /\ c.identity \in Nat
  BY DEF Call
<1>4. ASSUME NEW i \in 1 .. n
      PROVE  stack[i].number # c.number /\ (c.identity # None => stack[i].identity # c.identity)
  <2>1. stack[i].number # c.number
    <3>1. CASE n = Len(stack)
      BY <1>1, <1>2, <1>3, <3>1
    <3>2. CASE n = Len(stack) - 1
      <4>1. n + 1 \in 1 .. Len(stack) /\ i \in 1 .. Len(stack) /\ i # n + 1
        BY <1>1, <3>2
      <4>2. c.number = stack[n + 1].number
        BY <1>1, <3>2
      <4> QED
        BY <4>1, <4>2 DEF CallsInv
    <3> QED
      BY <3>1, <3>2
  <2> QED
    BY <1>1, <1>2, <1>3, <2>1
<1>5. ASSUME NEW i \in 1 .. n
      PROVE  CallOK(stack[i])'
  <2>1. CallOK(stack[i]) /\ stack'[i] = stack[i]
    BY <1>1, <1>2
  <2>2. stack[i].number <= calls' /\ stack[i].identity < address'
    BY <1>1, <1>2
  <2>3. PICK d : d = stack[i]
    OBVIOUS
  <2>4. CallOK(d)'
    BY <2>1, <2>2, <2>3 DEF CallOK, Slot, Full
  <2> QED
    BY <2>1, <2>3, <2>4 DEF CallOK, Slot, Full
<1>6. CallsInv'
  <2>1. \A i \in 1 .. Len(stack') : CallOK(stack[i])'
    <3>1. ASSUME NEW i \in 1 .. Len(stack')
          PROVE  CallOK(stack[i])'
      <4>1. CASE i \in 1 .. n
        BY <1>5, <4>1
      <4>2. CASE i = n + 1 /\ stack'[i] = c
        BY <4>2 DEF CallOK, Slot, Full
      <4> QED
        BY <1>1, <4>1, <4>2
    <3> QED
      BY <3>1
  <2>2. ASSUME NEW i \in 1 .. Len(stack'), NEW j \in 1 .. Len(stack'), i # j
        PROVE  /\ stack'[i].number # stack'[j].number
               /\ stack'[i].identity # None => stack'[i].identity # stack'[j].identity
    <3>1. CASE i \in 1 .. n /\ j \in 1 .. n
      BY <1>1, <2>2, <3>1 DEF CallsInv
    <3>2. CASE i \in 1 .. n /\ j = n + 1
      BY <1>1, <1>4, <3>2
    <3>3. CASE i = n + 1 /\ j \in 1 .. n
      BY <1>1, <1>4, <3>3
    <3> QED
      BY <1>1, <2>2, <3>1, <3>2, <3>3
  <2> QED
    BY <2>1, <2>2 DEF CallsInv
<1>7. ASSUME NEW l \in Lists
      PROVE  Stands(lists[l], truth[l], stack)'
  <2>1. PICK list, t : list = lists[l] /\ t = truth[l] /\ list = lists'[l] /\ t = truth'[l]
    OBVIOUS
  <2>2. Stands(list, t, stack)
    BY <2>1 DEF ListInv
  <2>3. CASE list.id = None /\ t.of = None
    BY <2>1, <2>3 DEF Stands
  <2>4. CASE ~(list.id = None /\ t.of = None)
    <3>1. /\ list.id # None /\ t.of # None /\ list.id < address /\ t.of <= calls /\ list.at = t.at
          /\ \A i \in 1 .. Len(stack) :
               /\ stack[i].identity = list.id <=> stack[i].number = t.of
               /\ stack[i].identity = list.id /\ list.at # Consumed => list.at <= Len(Unnamed(stack[i]))
      BY <2>2, <2>4 DEF Stands
    <3>2. list.id \in Nat /\ t.of \in Nat
      BY <2>1 DEF TypeOK
    <3>3. c.identity # list.id
      BY <1>1, <1>3, <3>1, <3>2 DEF None
    <3>4. c.number # t.of
      <4>1. CASE n = Len(stack)
        BY <1>1, <1>3, <3>1, <3>2, <4>1
      <4>2. CASE n = Len(stack) - 1
        <5>1. n + 1 \in 1 .. Len(stack) /\ c.number = stack[n + 1].number /\ stack[n + 1].identity = None
          BY <1>1, <4>2
        <5> QED
          BY <3>1, <5>1
      <4> QED
        BY <4>1, <4>2 DEF Placed
    <3>5. list.id < address' /\ t.of <= calls'
      BY <1>1, <3>1, <3>2
    <3>6. ASSUME NEW i \in 1 .. Len(stack')
          PROVE  /\ stack'[i].identity = list.id <=> stack'[i].number = t.of
                 /\ stack'[i].identity = list.id /\ list.at # Consumed => list.at <= Len(Unnamed(stack'[i]))
      BY <1>1, <3>1, <3>3, <3>4
    <3> QED
      BY <2>1, <3>1, <3>5, <3>6 DEF Stands, Unnamed
  <2> QED
    BY <2>3, <2>4
<1> QED
  BY <1>6, <1>7 DEF ListInv

\* A call put on top that remembers what was current before it keeps the nesting.
LEMMA PlacedNest ==
  ASSUME NestInv, TypeOK, NEW n, NEW c \in Call, Placed(n, c), n = Len(stack) - 1 => stack[n + 1].state = "arguments",
         Slot(c) => c.outer = frame, frame' = IF Slot(c) THEN c.frame ELSE frame,
         c.parent = IF Full(c) THEN vaFrame ELSE None, vaFrame' = IF Full(c) THEN n + 1 ELSE vaFrame,
         depth' = n + 1
  PROVE  NestInv'
<1>1. n \in Nat /\ Len(stack) \in Nat /\ Len(stack') = n + 1 /\ c = stack'[n + 1] /\ \A i \in 1 .. n : stack'[i] = stack[i]
  BY LenProperties DEF Placed, TypeOK
<1>2. Nested(stack, n, frame, vaFrame)
  <2>1. CASE n = Len(stack)
    BY <2>1 DEF NestInv
  <2>2. CASE n = Len(stack) - 1
    <3>1. ~Slot(stack[n + 1]) /\ ~Full(stack[n + 1]) /\ n + 1 = Len(stack) /\ n + 1 - 1 = n /\ n + 1 \in Nat \ {0}
      BY <1>1, <2>2 DEF Slot, Full
    <3>2. PICK m \in Nat \ {0} : m = n + 1
      BY <3>1
    <3>3. Nested(stack, m, frame, vaFrame)
      BY <3>1, <3>2 DEF NestInv
    <3>4. Nested(stack, m - 1, IF Slot(stack[m]) THEN stack[m].outer ELSE frame,
                               IF Full(stack[m]) THEN stack[m].parent ELSE vaFrame)
      BY <3>3, NestDrop
    <3>5. ~Slot(stack[m]) /\ ~Full(stack[m])
      BY <3>1, <3>2
    <3>6. m - 1 = n
      BY <1>1, <3>2
    <3> QED
      BY <3>4, <3>5, <3>6
  <2> QED
    BY <2>1, <2>2 DEF Placed
<1>3. PICK t, fr2, va2, fr, va : t = stack' /\ fr2 = frame' /\ va2 = vaFrame' /\ fr = frame /\ va = vaFrame
  OBVIOUS
<1>4. Nested(t, n + 1, fr2, va2)
  BY <1>1, <1>2, <1>3, NestTop
<1> QED
  BY <1>1, <1>3, <1>4 DEF NestInv, Nested, InnermostSlot, InnermostFull, Slot, Full

\* The frames of the first n calls.
Below(n) == {stack[i].frame : i \in 1 .. n} \ {None}

\* The frames in use are those of the calls below the top, and the top's own.
LEMMA BelowIs ==
  ASSUME TypeOK, FrameInv, NEW n \in Nat
  PROVE  /\ n = Len(stack) => Below(n) = InUse(stack)
         /\ n = Len(stack) - 1 => /\ InUse(stack) = Below(n) \cup ({stack[n + 1].frame} \ {None})
                                  /\ stack[n + 1].frame # None => stack[n + 1].frame \notin Below(n)
<1>1. Len(stack) \in Nat
  BY LenProperties DEF TypeOK
<1>2. ASSUME n = Len(stack) - 1
      PROVE  /\ InUse(stack) = Below(n) \cup ({stack[n + 1].frame} \ {None})
             /\ stack[n + 1].frame # None => stack[n + 1].frame \notin Below(n)
  <2>1. n + 1 \in 1 .. Len(stack) /\ \A i \in 1 .. Len(stack) : i \in 1 .. n \/ i = n + 1
    BY <1>1, <1>2
  <2>2. \A i \in 1 .. n : i \in 1 .. Len(stack) /\ i # n + 1
    BY <1>1, <1>2
  <2>3. InUse(stack) = Below(n) \cup ({stack[n + 1].frame} \ {None})
    BY <2>1, <2>2 DEF InUse, Below
  <2>4. stack[n + 1].frame # None => stack[n + 1].frame \notin Below(n)
    BY <2>1, <2>2 DEF FrameInv, Below
  <2> QED
    BY <2>3, <2>4
<1> QED
  BY <1>2 DEF Below, InUse

\* A call put on top with a frame of its own, or none, keeps the frames apart and their contents.
LEMMA PlacedFrames ==
  ASSUME TypeOK, FrameInv, NEW n, NEW c \in Call, Placed(n, c),
         Partition(spare', Below(n) \cup ({c.frame} \ {None}), Len(frames')),
         c.frame # None => c.frame \notin Below(n),
         ~failed' => ~failed,
         ~failed' => \A m \in Below(n) : frames'[m] = frames[m],
         ~failed' /\ c.frame # None => Holds(frames'[c.frame], Content(c))
  PROVE  FrameInv'
<1>1. /\ n \in Nat /\ Len(stack) \in Nat /\ n <= Len(stack) /\ Len(stack') = n + 1
      /\ \A i \in 1 .. n : stack'[i] = stack[i] /\ i \in 1 .. Len(stack)
      /\ \A i \in 1 .. n + 1 : i \in 1 .. n \/ (i = n + 1 /\ stack'[i] = c)
  <2>1. Len(stack) \in Nat
    BY LenProperties DEF TypeOK
  <2>2. n \in Nat /\ n <= Len(stack)
    BY <2>1 DEF Placed
  <2> QED
    BY <2>1, <2>2 DEF Placed
<1>2. InUse(stack') = Below(n) \cup ({c.frame} \ {None})
  <2>1. n + 1 \in 1 .. n + 1 /\ stack'[n + 1] = c /\ \A i \in 1 .. n : i \in 1 .. n + 1
    BY <1>1 DEF Placed
  <2> QED
    BY <1>1, <2>1 DEF InUse, Below
<1>3. Partition(spare', InUse(stack'), Len(frames'))
  BY <1>2
<1>4. \A i \in 1 .. n : stack[i].frame # None => stack[i].frame \in Below(n)
  BY DEF Below
<1>5. ASSUME NEW i \in 1 .. n + 1, NEW j \in 1 .. n + 1, i # j, stack'[i].frame # None
      PROVE  stack'[i].frame # stack'[j].frame
  <2>1. CASE i \in 1 .. n /\ j \in 1 .. n
    BY <1>1, <1>5, <2>1 DEF FrameInv
  <2>2. CASE i = n + 1 /\ stack'[i] = c /\ j \in 1 .. n
    BY <1>1, <1>4, <1>5, <2>2
  <2>3. CASE i \in 1 .. n /\ j = n + 1 /\ stack'[j] = c
    BY <1>1, <1>4, <1>5, <2>3
  <2> QED
    BY <1>1, <1>5, <2>1, <2>2, <2>3
<1>6. ASSUME ~failed', NEW i \in 1 .. n + 1, stack'[i].frame # None
      PROVE  Holds(frames'[stack'[i].frame], Content(stack'[i]))
  <2>1. CASE i \in 1 .. n
    <3>1. stack'[i] = stack[i] /\ i \in 1 .. Len(stack) /\ stack[i].frame \in Below(n) /\ ~failed
      BY <1>1, <1>4, <1>6, <2>1
    <3>2. Holds(frames[stack[i].frame], Content(stack[i]))
      BY <1>6, <3>1 DEF FrameInv
    <3>3. frames'[stack[i].frame] = frames[stack[i].frame]
      BY <1>6, <3>1
    <3> QED
      BY <3>1, <3>2, <3>3
  <2>2. CASE i = n + 1 /\ stack'[i] = c
    BY <1>6, <2>2
  <2> QED
    BY <1>1, <2>1, <2>2
<1> QED
  BY <1>1, <1>3, <1>5, <1>6 DEF FrameInv, Partition, InUse, Holds, Content

\* The length of the stack, its calls and its top.
LEMMA StackParts ==
  ASSUME TypeOK
  PROVE  /\ Len(stack) \in Nat /\ (stack = <<>> <=> Len(stack) = 0)
         /\ \A i \in 1 .. Len(stack) : stack[i] \in Call
         /\ stack # <<>> => /\ Len(stack) \in 1 .. Len(stack) /\ Top = stack[Len(stack)] /\ Top \in Call
                            /\ Len(stack) - 1 \in Nat /\ Len(stack) - 1 + 1 = Len(stack)
<1>1. Len(stack) \in Nat /\ (stack = <<>> <=> Len(stack) = 0) /\ \A i \in 1 .. Len(stack) : stack[i] \in Call
  BY LenProperties, EmptySeq, ElementOfSeq DEF TypeOK
<1>2. ASSUME stack # <<>>
      PROVE  Len(stack) \in 1 .. Len(stack) /\ Len(stack) - 1 \in Nat /\ Len(stack) - 1 + 1 = Len(stack)
  BY <1>1, <1>2
<1> QED
  BY <1>1, <1>2 DEF Top, Last

\* Pushing puts a call on top of all others.
LEMMA PushPlaced ==
  ASSUME TypeOK, NEW c \in Call, stack' = Append(stack, c)
  PROVE  Placed(Len(stack), c)
BY StackParts, AppendProperties DEF Placed, TypeOK

\* Replacing the top puts a call on top of those below it.
LEMMA ReplacePlaced ==
  ASSUME TypeOK, stack # <<>>, NEW c \in Call, stack' = [stack EXCEPT ![Len(stack)] = c]
  PROVE  Placed(Len(stack) - 1, c)
<1>1. /\ stack \in Seq(Call) /\ Len(stack) \in 1 .. Len(stack) /\ Len(stack) - 1 \in Nat /\ Len(stack) - 1 + 1 = Len(stack)
      /\ Len(stack) \in Nat
  BY StackParts DEF TypeOK
<1>2. /\ stack' \in Seq(Call) /\ Len(stack') = Len(stack)
      /\ \A k \in 1 .. Len(stack) : stack'[k] = IF k = Len(stack) THEN c ELSE stack[k]
  BY <1>1, ExceptSeq
<1>3. \A k \in 1 .. Len(stack) - 1 : k \in 1 .. Len(stack) /\ k # Len(stack)
  <2>1. \A n \in Nat : \A k \in 1 .. n - 1 : k \in 1 .. n /\ k # n
    OBVIOUS
  <2> QED
    BY <1>1, <2>1
<1> QED
  BY <1>1, <1>2, <1>3 DEF Placed

\* The fields of a call that has just begun.
LEMMA BegunParts ==
  ASSUME TypeOK, NEW f \in Fns \cup Library, NEW n \in Nat, NEW fr \in Nat, NEW d \in BOOLEAN
  PROVE  \E c \in Call :
           /\ c = [Begun(f, n, fr) EXCEPT !.direct = d]
           /\ c.state = "arguments" /\ c.fn = f /\ c.count = n /\ c.args = <<>> /\ c.number = calls + 1
           /\ c.frame = fr /\ c.identity = None /\ c.parent = None /\ c.direct = d
<1>1. calls + 1 \in Nat /\ <<>> \in Seq(Value) /\ None \in Nat
  BY EmptySeq DEF TypeOK, None
<1>2. Begun(f, n, fr) \in Call
  BY <1>1 DEF Begun, Call
<1>3. PICK c : c = [Begun(f, n, fr) EXCEPT !.direct = d]
  OBVIOUS
<1>4. c = [state |-> "arguments", fn |-> f, count |-> n, args |-> <<>>, number |-> calls + 1,
           frame |-> fr, outer |-> None, identity |-> None, parent |-> None, local |-> <<>>, direct |-> d]
  BY <1>3 DEF Begun
<1>5. c \in Call
  BY <1>1, <1>4 DEF Call
<1> QED
  BY <1>3, <1>4, <1>5

-----------------------------------------------------------------------------
(* The steps of a call. *)

\* run_call: only a direct call to a function with private locals takes its frame already.
LEMMA StartCallIndInv ==
  ASSUME IndInv, NEW f \in Fns \cup Library, NEW n \in Counts, StartCall(f, n)
  PROVE  IndInv'
<1>1. TypeOK /\ CallsInv /\ NestInv /\ FrameInv /\ ListInv
  BY DEF IndInv
<1>2. /\ n \in Nat /\ Simple \subseteq Fns \ Variadic /\ Slotted \subseteq Fns /\ Library \cap Fns = {}
  BY CallsAssumption
<1>3. /\ depth' = depth + 1 /\ calls' = calls + 1
      /\ UNCHANGED <<frame, vaFrame, address, lists, failed, entries, truth>>
  BY DEF StartCall
<1>4. PICK d \in BOOLEAN, fr \in Nat :
        /\ d = Direct(f, n)
        /\ fr # None => f \in Slotted /\ d
        /\ f \in Slotted /\ d => fr # None
        /\ stack' = Append(stack, [Begun(f, n, fr) EXCEPT !.direct = d])
        /\ spare' \in [Fns -> Seq(Nat)] /\ frames' \in Seq(Seq(Value))
        /\ Partition(spare', InUse(stack) \cup ({fr} \ {None}), Len(frames'))
        /\ fr # None => fr \notin InUse(stack) /\ fr \in 1 .. Len(frames')
        /\ \A m \in InUse(stack) : frames'[m] = frames[m]
  <2>1. InUse(stack) \subseteq 1 .. Len(frames) /\ Partition(spare, InUse(stack), Len(frames))
    BY <1>1 DEF FrameInv, Partition
  <2>2. CASE Direct(f, n) /\ f \in Slotted
    <3>1. f \in Fns /\ spare' = TakenFrom(f) /\ frames' = Made(f) /\ stack' = Append(stack, [Begun(f, n, Taken(f)) EXCEPT !.direct = TRUE])
      BY <1>2, <2>2 DEF StartCall
    <3>2. /\ Taken(f) \in Nat \ {None} /\ Taken(f) \notin InUse(stack)
          /\ spare' \in [Fns -> Seq(Nat)] /\ frames' \in Seq(Seq(Value)) /\ Taken(f) \in 1 .. Len(frames')
          /\ \A m \in 1 .. Len(frames) : frames'[m] = frames[m]
          /\ Partition(spare', InUse(stack) \cup {Taken(f)}, Len(frames'))
      BY <1>1, <2>1, <3>1, Taking
    <3>3. {Taken(f)} \ {None} = {Taken(f)}
      BY <3>2
    <3>4. PICK d \in BOOLEAN, fr \in Nat : d = TRUE /\ d = Direct(f, n) /\ fr = Taken(f)
      BY <2>2, <3>2
    <3> QED
      BY <2>1, <2>2, <3>1, <3>2, <3>3, <3>4
  <2>3. CASE ~(Direct(f, n) /\ f \in Slotted)
    <3>1. /\ stack' = Append(stack, [Begun(f, n, None) EXCEPT !.direct = Direct(f, n)]) /\ spare' = spare /\ frames' = frames
      BY <2>3 DEF StartCall
    <3>2. PICK d \in BOOLEAN, fr \in Nat : d = Direct(f, n) /\ fr = None
      BY DEF Direct, None
    <3>3. InUse(stack) \cup ({fr} \ {None}) = InUse(stack)
      BY <3>2
    <3> QED
      BY <1>1, <2>1, <2>3, <3>1, <3>2, <3>3 DEF TypeOK
  <2> QED
    BY <2>2, <2>3
<1>5. PICK c \in Call :
        /\ c = [Begun(f, n, fr) EXCEPT !.direct = d]
        /\ c.state = "arguments" /\ c.fn = f /\ c.count = n /\ c.args = <<>> /\ c.number = calls + 1
        /\ c.frame = fr /\ c.identity = None /\ c.parent = None /\ c.direct = d
  BY <1>1, <1>2, BegunParts
<1>6. Placed(Len(stack), c)
  BY <1>1, <1>4, <1>5, PushPlaced
<1>7. Len(stack) \in Nat /\ calls \in Nat /\ address \in Nat /\ ~Slot(c) /\ ~Full(c)
  BY <1>1, <1>5, StackParts DEF TypeOK, Slot, Full
<1>8. TypeOK'
  <2>1. stack' \in Seq(Call)
    BY <1>6 DEF Placed
  <2>2. depth' \in Nat /\ calls' \in Nat
    BY <1>1, <1>3 DEF TypeOK
  <2> QED
    BY <1>1, <1>3, <1>4, <2>1, <2>2 DEF TypeOK
<1>9. CallsInv' /\ ListInv'
  <2>1. CallOK(c)'
    <3>1. d => f \in Simple /\ n = Parameters[f]
      BY <1>4 DEF Direct
    <3>2. c.number # None /\ c.number <= calls' /\ c.identity < address'
      BY <1>1, <1>3, <1>5, <1>7 DEF TypeOK, None
    <3> QED
      BY <1>2, <1>4, <1>5, <1>7, <3>1, <3>2 DEF CallOK, Full
  <2>2. calls' \in Nat /\ calls <= calls' /\ address' \in Nat /\ address <= address' /\ c.number > calls
    BY <1>3, <1>5, <1>7
  <2> QED
    BY <1>1, <1>3, <1>5, <1>6, <1>7, <2>1, <2>2, PlacedCalls
<1>10. NestInv'
  <2>1. depth' = Len(stack) + 1
    BY <1>1, <1>3 DEF NestInv
  <2>2. Len(stack) # Len(stack) - 1
    BY <1>7
  <2> QED
    BY <1>1, <1>3, <1>5, <1>6, <1>7, <2>1, <2>2, PlacedNest
<1>11. FrameInv'
  <2>1. Below(Len(stack)) = InUse(stack)
    BY <1>1, <1>7, BelowIs
  <2>2. Content(c) = <<>> /\ Len(<<>>) = 0
    BY <1>5 DEF Content
  <2>3. fr # None => Holds(frames'[fr], Content(c))
    <3>1. fr # None => frames'[fr] \in Seq(Value)
      BY <1>4, ElementOfSeq
    <3>2. fr # None => Len(frames'[fr]) \in Nat
      BY <3>1, LenProperties
    <3> QED
      BY <2>2, <3>2 DEF Holds
  <2>4. Partition(spare', Below(Len(stack)) \cup ({c.frame} \ {None}), Len(frames'))
    BY <1>4, <1>5, <2>1
  <2>5. c.frame # None => c.frame \notin Below(Len(stack))
    BY <1>4, <1>5, <2>1
  <2>6. \A m \in Below(Len(stack)) : frames'[m] = frames[m]
    BY <1>4, <2>1
  <2>7. c.frame # None => Holds(frames'[c.frame], Content(c))
    BY <1>5, <2>3
  <2>8. ~failed' => ~failed
    BY <1>3
  <2> QED
    BY <1>1, <1>6, <2>4, <2>5, <2>6, <2>7, <2>8, PlacedFrames
<1> QED
  BY <1>8, <1>9, <1>10, <1>11 DEF IndInv

\* An argument that goes to an array, or into the frame behind those before it.
LEMMA ArgumentIndInv ==
  ASSUME IndInv, NEW kind \in Kinds, Argument(kind)
  PROVE  IndInv'
<1>1. TypeOK /\ CallsInv /\ NestInv /\ FrameInv /\ ListInv /\ stack # <<>> /\ Top.state = "arguments" /\ ~failed
  BY DEF IndInv, Argument, Waiting
<1>2. /\ UNCHANGED <<spare, frame, vaFrame, address, lists, depth, failed, calls, entries, truth>>
  BY DEF Argument
<1>3. /\ Len(stack) \in Nat /\ Len(stack) \in 1 .. Len(stack) /\ Top = stack[Len(stack)] /\ Top \in Call
      /\ Len(stack) - 1 \in Nat /\ Len(stack) - 1 + 1 = Len(stack)
  BY <1>1, StackParts
<1>4. CallOK(Top)
  BY <1>1, <1>3 DEF CallsInv
<1>5. PICK value \in Value : value = [of |-> Top.number, at |-> Len(Top.args) + 1, kind |-> kind]
  <2>1. Top.number \in Nat /\ Len(Top.args) + 1 \in Nat
    BY <1>3, LenProperties DEF Call
  <2> QED
    BY <2>1 DEF Value
<1>6. PICK args \in Seq(Value) : /\ args = Append(Top.args, value) /\ Len(args) = Len(Top.args) + 1
                                 /\ args[Len(Top.args) + 1] = value
                                 /\ \A k \in 1 .. Len(Top.args) : args[k] = Top.args[k]
  <2>1. Top.args \in Seq(Value)
    BY <1>3 DEF Call
  <2>2. /\ Append(Top.args, value) \in Seq(Value) /\ Len(Append(Top.args, value)) = Len(Top.args) + 1
        /\ Append(Top.args, value)[Len(Top.args) + 1] = value
        /\ \A k \in 1 .. Len(Top.args) : Append(Top.args, value)[k] = Top.args[k]
    BY <2>1, AppendProperties
  <2> QED
    BY <2>2
<1>7. PICK c \in Call : /\ c = [Top EXCEPT !.args = args] /\ c.args = args
                        /\ c.state = Top.state /\ c.fn = Top.fn /\ c.count = Top.count /\ c.number = Top.number
                        /\ c.frame = Top.frame /\ c.outer = Top.outer /\ c.identity = Top.identity
                        /\ c.parent = Top.parent /\ c.direct = Top.direct
  <2>1. ASSUME NEW r \in Call
        PROVE  LET d == [r EXCEPT !.args = args]
               IN  /\ d \in Call /\ d.args = args
                   /\ d.state = r.state /\ d.fn = r.fn /\ d.count = r.count /\ d.number = r.number
                   /\ d.frame = r.frame /\ d.outer = r.outer /\ d.identity = r.identity
                   /\ d.parent = r.parent /\ d.direct = r.direct
    BY DEF Call
  <2> QED
    BY <1>3, <2>1
<1>8. stack' = [stack EXCEPT ![Len(stack)] = c]
  <2>1. stack' = [stack EXCEPT ![Len(stack)].args = Append(@, value)]
    BY <1>5 DEF Argument
  <2>2. [stack EXCEPT ![Len(stack)].args = Append(@, value)] = [stack EXCEPT ![Len(stack)] = [Top EXCEPT !.args = Append(@, value)]]
    BY <1>3
  <2>3. [Top EXCEPT !.args = Append(@, value)] = c
    BY <1>6, <1>7
  <2> QED
    BY <2>1, <2>2, <2>3
<1>9. Placed(Len(stack) - 1, c)
  BY <1>1, <1>8, ReplacePlaced
<1>10. CallsInv' /\ ListInv'
  <2>1. CallOK(c)' /\ c.identity = None
    BY <1>1, <1>2, <1>4, <1>7 DEF CallOK, Full
  <2>2. calls \in Nat /\ address \in Nat
    BY <1>1 DEF TypeOK
  <2>3. stack[Len(stack) - 1 + 1].identity = None /\ stack[Len(stack) - 1 + 1].number = c.number
    BY <1>3, <1>7, <2>1
  <2> QED
    BY <1>1, <1>2, <1>9, <2>1, <2>2, <2>3, PlacedCalls
<1>11. NestInv'
  <2>1. ~Slot(c) /\ ~Full(c) /\ ~Slot(Top) /\ ~Full(Top)
    BY <1>1, <1>7 DEF Slot, Full
  <2>2. depth' = Len(stack) - 1 + 1
    BY <1>1, <1>2, <1>3 DEF NestInv
  <2>3. c.parent = None
    BY <1>4, <1>7, <2>1 DEF CallOK
  <2>4. stack[Len(stack) - 1 + 1].state = "arguments"
    BY <1>1, <1>3
  <2> QED
    BY <1>1, <1>2, <1>9, <2>1, <2>2, <2>3, <2>4, PlacedNest
<1>12. FrameInv' /\ frames' \in Seq(Seq(Value))
  <2>1. InUse(stack) = Below(Len(stack) - 1) \cup ({c.frame} \ {None}) /\ (c.frame # None => c.frame \notin Below(Len(stack) - 1))
    BY <1>1, <1>3, <1>7, BelowIs
  <2>2. CASE Top.frame = None
    <3>1. frames' = frames
      BY <2>2 DEF Argument
    <3> QED
      BY <1>1, <1>2, <1>7, <1>9, <2>1, <2>2, <3>1, PlacedFrames DEF FrameInv, TypeOK
  <2>3. CASE Top.frame # None
    <3>1. frames' = Bound(Top.frame, Len(Top.args) + 1, value)
      BY <1>5, <2>3 DEF Argument
    <3>2. Top.frame \in 1 .. Len(frames)
      BY <1>1, <1>7, <2>1, <2>3 DEF FrameInv, Partition
    <3>3. frames \in Seq(Seq(Value)) /\ frames[Top.frame] \in Seq(Value)
      BY <1>1, <3>2, ElementOfSeq DEF TypeOK
    <3>4. Holds(frames[Top.frame], Top.args)
      BY <1>1, <1>3, <2>3 DEF FrameInv, Content
    <3>5. PICK kept : kept = SubSeq(frames[Top.frame], 1, Len(Top.args))
      OBVIOUS
    <3>6. kept = Top.args
      <4>1. /\ Top.args \in Seq(Value) /\ Len(Top.args) \in Nat /\ Len(frames[Top.frame]) \in Nat
            /\ Len(Top.args) <= Len(frames[Top.frame])
        BY <1>3, <3>3, <3>4, LenProperties DEF Call, Holds
      <4>2. \A k \in 1 .. Len(Top.args) : frames[Top.frame][k] \in Value
        BY <3>3, <4>1, ElementOfSeq
      <4>3. /\ kept \in Seq(Value) /\ Len(kept) = IF 1 <= Len(Top.args) THEN Len(Top.args) - 1 + 1 ELSE 0
            /\ \A k \in 1 .. Len(Top.args) - 1 + 1 : kept[k] = frames[Top.frame][1 + k - 1]
        BY <3>5, <4>1, <4>2, SubSeqProperties
      <4>4. Len(kept) = Len(Top.args)
        BY <4>1, <4>3
      <4>5. ASSUME NEW k \in 1 .. Len(Top.args)
            PROVE  kept[k] = Top.args[k]
        <5>1. k \in 1 .. Len(Top.args) - 1 + 1 /\ 1 + k - 1 = k
          BY <4>1
        <5> QED
          BY <3>4, <4>3, <5>1 DEF Holds
      <4> QED
        BY <4>1, <4>3, <4>4, <4>5, SeqEqual
    <3>7. frames' = [frames EXCEPT ![Top.frame] = args]
      <4>1. Len(Top.args) + 1 - 1 = Len(Top.args)
        BY <1>3, LenProperties DEF Call
      <4>2. frames' = [frames EXCEPT ![Top.frame] = kept \o <<value>>]
        BY <3>1, <3>5, <4>1 DEF Bound
      <4>3. Top.args \o <<value>> = args
        <5>1. Top.args \in Seq(Value) /\ Len(Top.args) \in Nat
          BY <1>3, LenProperties DEF Call
        <5>2. <<value>> \in Seq(Value) /\ Len(<<value>>) = 1 /\ <<value>>[1] = value
          OBVIOUS
        <5>3. /\ Top.args \o <<value>> \in Seq(Value) /\ Len(Top.args \o <<value>>) = Len(Top.args) + 1
              /\ \A k \in 1 .. Len(Top.args) + 1 :
                   (Top.args \o <<value>>)[k] = IF k <= Len(Top.args) THEN Top.args[k] ELSE <<value>>[k - Len(Top.args)]
          BY <5>1, <5>2, ConcatProperties
        <5>4. ASSUME NEW k \in 1 .. Len(Top.args) + 1
              PROVE  (Top.args \o <<value>>)[k] = args[k]
          <6>1. CASE k <= Len(Top.args)
            BY <1>6, <5>1, <5>3, <6>1
          <6>2. CASE k = Len(Top.args) + 1
            <7>1. ~(k <= Len(Top.args)) /\ k - Len(Top.args) = 1
              BY <5>1, <6>2
            <7> QED
              BY <1>6, <5>2, <5>3, <6>2, <7>1
          <6> QED
            BY <5>1, <6>1, <6>2
        <5> QED
          BY <1>6, <5>3, <5>4, SeqEqual
      <4> QED
        BY <3>6, <4>2, <4>3
    <3>8. /\ frames' \in Seq(Seq(Value)) /\ Len(frames') = Len(frames)
          /\ \A m \in 1 .. Len(frames) : frames'[m] = IF m = Top.frame THEN args ELSE frames[m]
      BY <3>2, <3>3, <3>7, ExceptSeq
    <3>9. Holds(frames'[c.frame], Content(c))
      <4>1. frames'[c.frame] = args /\ Content(c) = args
        BY <1>1, <1>7, <3>2, <3>8 DEF Content
      <4>2. Len(args) \in Nat
        BY LenProperties
      <4> QED
        BY <4>1, <4>2 DEF Holds
    <3>10. \A m \in Below(Len(stack) - 1) : frames'[m] = frames[m]
      <4>1. Below(Len(stack) - 1) \subseteq 1 .. Len(frames)
        BY <1>1, <2>1 DEF FrameInv, Partition
      <4> QED
        BY <1>7, <2>1, <2>3, <3>8, <4>1
    <3>11. Partition(spare', Below(Len(stack) - 1) \cup ({c.frame} \ {None}), Len(frames'))
      BY <1>1, <1>2, <2>1, <3>8 DEF FrameInv
    <3> QED
      BY <1>1, <1>2, <1>9, <2>1, <3>8, <3>9, <3>10, <3>11, PlacedFrames
  <2> QED
    BY <2>2, <2>3
<1>13. TypeOK'
  <2>1. stack' \in Seq(Call)
    BY <1>9 DEF Placed
  <2> QED
    BY <1>1, <1>2, <1>12, <2>1 DEF TypeOK
<1> QED
  BY <1>10, <1>11, <1>12, <1>13 DEF IndInv

\* A direct call runs in the frame its arguments went to.
LEMMA EnterSimpleIndInv ==
  ASSUME IndInv, EnterSimple
  PROVE  IndInv'
<1>1. /\ TypeOK /\ CallsInv /\ NestInv /\ FrameInv /\ ListInv
      /\ stack # <<>> /\ Top.state = "arguments" /\ ~failed /\ Top.direct /\ Len(Top.args) = Top.count
  BY DEF IndInv, EnterSimple, Ready, Waiting
<1>2. /\ UNCHANGED <<spare, frames, vaFrame, address, lists, depth, failed, calls, entries, truth>>
      /\ frame' = IF Top.frame # None THEN Top.frame ELSE frame
  BY DEF EnterSimple
<1>3. /\ Len(stack) \in Nat /\ Len(stack) \in 1 .. Len(stack) /\ Top = stack[Len(stack)] /\ Top \in Call
      /\ Len(stack) - 1 \in Nat /\ Len(stack) - 1 + 1 = Len(stack)
  BY <1>1, StackParts
<1>4. CallOK(Top)
  BY <1>1, <1>3 DEF CallsInv
<1>5. PICK c \in Call : /\ c = [Top EXCEPT !.state = "running", !.outer = frame, !.local = Top.args]
                        /\ c.state = "running" /\ c.outer = frame /\ c.local = Top.args
                        /\ c.args = Top.args /\ c.fn = Top.fn /\ c.count = Top.count /\ c.number = Top.number
                        /\ c.frame = Top.frame /\ c.identity = Top.identity /\ c.parent = Top.parent /\ c.direct
  <2>1. ASSUME NEW r \in Call, NEW fr \in Nat, NEW args \in Seq(Value)
        PROVE  \E c \in Call : /\ c = [r EXCEPT !.state = "running", !.outer = fr, !.local = args]
                               /\ c.state = "running" /\ c.outer = fr /\ c.local = args
                               /\ c.args = r.args /\ c.fn = r.fn /\ c.count = r.count /\ c.number = r.number
                               /\ c.frame = r.frame /\ c.identity = r.identity /\ c.parent = r.parent
                               /\ c.direct = r.direct
    <3>1. PICK c : c = [r EXCEPT !.state = "running", !.outer = fr, !.local = args]
      OBVIOUS
    <3>2. "running" \in {"arguments", "running"}
      OBVIOUS
    <3>3. c \in Call
      BY <3>1, <3>2 DEF Call
    <3>4. c.state = "running" /\ c.outer = fr /\ c.local = args
      BY <3>1 DEF Call
    <3>5. c.args = r.args /\ c.fn = r.fn /\ c.count = r.count /\ c.number = r.number
      BY <3>1 DEF Call
    <3>6. c.frame = r.frame /\ c.identity = r.identity /\ c.parent = r.parent /\ c.direct = r.direct
      BY <3>1 DEF Call
    <3> QED
      BY <3>1, <3>3, <3>4, <3>5, <3>6
  <2>2. PICK top \in Call, fr \in Nat, args \in Seq(Value) : top = Top /\ fr = frame /\ args = Top.args
    BY <1>1, <1>3 DEF TypeOK, Call
  <2>3. PICK c \in Call : /\ c = [top EXCEPT !.state = "running", !.outer = fr, !.local = args]
                          /\ c.state = "running" /\ c.outer = fr /\ c.local = args
                          /\ c.args = top.args /\ c.fn = top.fn /\ c.count = top.count /\ c.number = top.number
                          /\ c.frame = top.frame /\ c.identity = top.identity /\ c.parent = top.parent
                          /\ c.direct = top.direct
    BY <2>1
  <2> QED
    BY <1>1, <2>2, <2>3
<1>6. Placed(Len(stack) - 1, c)
  <2>1. stack' = [stack EXCEPT ![Len(stack)] = [@ EXCEPT !.state = "running", !.outer = frame, !.local = Top.args]]
    BY DEF EnterSimple
  <2>2. stack' = [stack EXCEPT ![Len(stack)] = c]
    BY <1>3, <1>5, <2>1
  <2> QED
    BY <1>1, <2>2, ReplacePlaced
<1>7. ~Full(c) /\ ~Full(Top) /\ ~Slot(Top) /\ (Slot(c) <=> c.frame # None)
  BY <1>1, <1>5 DEF Full, Slot
<1>8. CallsInv' /\ ListInv'
  <2>1. CallOK(c)' /\ c.identity = None
    <3>1. Parameters[Top.fn] \in Nat
      BY <1>3, CallsAssumption DEF Call
    <3> QED
      BY <1>1, <1>2, <1>4, <1>5, <1>7, <3>1 DEF CallOK, Full
  <2>2. calls \in Nat /\ address \in Nat
    BY <1>1 DEF TypeOK
  <2>3. stack[Len(stack) - 1 + 1].identity = None /\ stack[Len(stack) - 1 + 1].number = c.number
    BY <1>3, <1>5, <2>1
  <2> QED
    BY <1>1, <1>2, <1>6, <2>1, <2>2, <2>3, PlacedCalls
<1>9. NestInv'
  <2>1. depth' = Len(stack) - 1 + 1
    BY <1>1, <1>2, <1>3 DEF NestInv
  <2>2. c.parent = None
    BY <1>4, <1>5, <1>7 DEF CallOK
  <2>3. stack[Len(stack) - 1 + 1].state = "arguments"
    BY <1>1, <1>3
  <2>4. Slot(c) => c.outer = frame
    BY <1>5
  <2>5. frame' = IF Slot(c) THEN c.frame ELSE frame
    BY <1>2, <1>5, <1>7
  <2>6. c.parent = (IF Full(c) THEN vaFrame ELSE None) /\ vaFrame' = IF Full(c) THEN Len(stack) - 1 + 1 ELSE vaFrame
    BY <1>2, <1>7, <2>2
  <2> QED
    BY <1>1, <1>6, <2>1, <2>3, <2>4, <2>5, <2>6, PlacedNest
<1>10. FrameInv'
  <2>1. InUse(stack) = Below(Len(stack) - 1) \cup ({c.frame} \ {None}) /\ (c.frame # None => c.frame \notin Below(Len(stack) - 1))
    BY <1>1, <1>3, <1>5, BelowIs
  <2>2. c.frame # None => Holds(frames'[c.frame], Content(c))
    <3>1. Content(c) = Top.args /\ Content(Top) = Top.args
      BY <1>1, <1>5 DEF Content
    <3> QED
      BY <1>1, <1>2, <1>3, <1>5, <3>1 DEF FrameInv
  <2>3. Partition(spare', Below(Len(stack) - 1) \cup ({c.frame} \ {None}), Len(frames'))
    BY <1>1, <1>2, <2>1 DEF FrameInv
  <2> QED
    BY <1>1, <1>2, <1>6, <2>1, <2>2, <2>3, PlacedFrames
<1>11. TypeOK'
  <2>1. stack' \in Seq(Call)
    BY <1>6 DEF Placed
  <2>2. frame' \in Nat
    BY <1>1, <1>2, <1>3 DEF TypeOK, Call
  <2> QED
    BY <1>1, <1>2, <2>1, <2>2 DEF TypeOK
<1> QED
  BY <1>8, <1>9, <1>10, <1>11 DEF IndInv

\* A library function has neither a frame nor an argument frame.
LEMMA EnterLibraryIndInv ==
  ASSUME IndInv, EnterLibrary
  PROVE  IndInv'
<1>1. /\ TypeOK /\ CallsInv /\ NestInv /\ FrameInv /\ ListInv
      /\ stack # <<>> /\ Top.state = "arguments" /\ ~failed /\ Top.fn \in Library
  BY DEF IndInv, EnterLibrary, Ready, Waiting
<1>2. UNCHANGED <<spare, frames, frame, vaFrame, address, lists, depth, failed, calls, entries, truth>>
  BY DEF EnterLibrary
<1>3. /\ Len(stack) \in Nat /\ Len(stack) \in 1 .. Len(stack) /\ Top = stack[Len(stack)] /\ Top \in Call
      /\ Len(stack) - 1 \in Nat /\ Len(stack) - 1 + 1 = Len(stack)
  BY <1>1, StackParts
<1>4. CallOK(Top) /\ Top.fn \notin Fns /\ Top.fn \notin Slotted /\ Top.fn \notin Simple
  BY <1>1, <1>3, CallsAssumption DEF CallsInv
<1>5. PICK c \in Call : /\ c = [Top EXCEPT !.state = "running"]
                        /\ c.state = "running" /\ c.fn = Top.fn /\ c.count = Top.count /\ c.number = Top.number
                        /\ c.frame = Top.frame /\ c.identity = Top.identity /\ c.parent = Top.parent /\ c.direct = Top.direct
  <2>1. ASSUME NEW r \in Call
        PROVE  LET d == [r EXCEPT !.state = "running"]
               IN  /\ d \in Call /\ d.state = "running" /\ d.fn = r.fn /\ d.count = r.count /\ d.number = r.number
                   /\ d.frame = r.frame /\ d.identity = r.identity /\ d.parent = r.parent /\ d.direct = r.direct
    BY DEF Call
  <2> QED
    BY <1>3, <2>1
<1>6. Placed(Len(stack) - 1, c)
  <2>1. stack' = [stack EXCEPT ![Len(stack)].state = "running"]
    BY DEF EnterLibrary
  <2>2. stack' = [stack EXCEPT ![Len(stack)] = c]
    BY <1>3, <1>5, <2>1
  <2> QED
    BY <1>1, <2>2, ReplacePlaced
<1>7. c.frame = None /\ ~c.direct /\ ~Full(c) /\ ~Full(Top) /\ ~Slot(c) /\ c.identity = None /\ c.parent = None
  BY <1>4, <1>5 DEF CallOK, Full, Slot
<1>8. CallsInv' /\ ListInv'
  <2>1. CallOK(c)'
    BY <1>2, <1>4, <1>5, <1>7 DEF CallOK, Full
  <2>2. calls \in Nat /\ address \in Nat
    BY <1>1 DEF TypeOK
  <2>3. stack[Len(stack) - 1 + 1].identity = None /\ stack[Len(stack) - 1 + 1].number = c.number
    BY <1>3, <1>5, <1>7
  <2> QED
    BY <1>1, <1>2, <1>6, <1>7, <2>1, <2>2, <2>3, PlacedCalls
<1>9. NestInv'
  <2>1. depth' = Len(stack) - 1 + 1
    BY <1>1, <1>2, <1>3 DEF NestInv
  <2>2. stack[Len(stack) - 1 + 1].state = "arguments"
    BY <1>1, <1>3
  <2> QED
    BY <1>1, <1>2, <1>6, <1>7, <2>1, <2>2, PlacedNest
<1>10. FrameInv'
  <2>1. InUse(stack) = Below(Len(stack) - 1) \cup ({c.frame} \ {None})
    BY <1>1, <1>3, <1>5, BelowIs
  <2>2. Partition(spare', Below(Len(stack) - 1) \cup ({c.frame} \ {None}), Len(frames'))
    BY <1>1, <1>2, <2>1 DEF FrameInv
  <2>3. ~failed' => ~failed /\ \A m \in Below(Len(stack) - 1) : frames'[m] = frames[m]
    BY <1>2
  <2>4. c.frame # None => c.frame \notin Below(Len(stack) - 1) /\ Holds(frames'[c.frame], Content(c))
    BY <1>7
  <2> QED
    BY <1>1, <1>6, <2>2, <2>3, <2>4, PlacedFrames
<1>11. TypeOK'
  <2>1. stack' \in Seq(Call)
    BY <1>6 DEF Placed
  <2> QED
    BY <1>1, <1>2, <2>1 DEF TypeOK
<1> QED
  BY <1>8, <1>9, <1>10, <1>11 DEF IndInv

\* A failure, a refused call or a new entry changes neither calls nor frames.
LEMMA SameCallsIndInv ==
  ASSUME IndInv, UNCHANGED <<stack, spare, frames, frame, vaFrame, address, lists, depth, calls, truth>>,
         failed' \in BOOLEAN, entries' \in Nat, ~failed' => ~failed \/ stack = <<>>
  PROVE  IndInv'
<1>1. TypeOK' /\ ListInv'
  BY DEF IndInv, TypeOK, ListInv, Stands, Unnamed
<1>2. CallsInv'
  BY DEF IndInv, CallsInv, CallOK, Full
<1>3. NestInv'
  BY DEF IndInv, NestInv, Nested, InnermostSlot, InnermostFull, Slot, Full
<1>4. FrameInv'
  <2>1. Len(stack) = 0 => \A i \in 1 .. Len(stack) : FALSE
    OBVIOUS
  <2>2. stack = <<>> => \A i \in 1 .. Len(stack) : FALSE
    BY <2>1, StackParts DEF IndInv
  <2>3. PICK s, sp, fr : s = stack /\ s = stack' /\ sp = spare /\ sp = spare' /\ fr = frames /\ fr = frames'
    OBVIOUS
  <2>4. Partition(sp, InUse(s), Len(fr))
    BY <2>3 DEF IndInv, FrameInv
  <2>5. \A i, j \in 1 .. Len(s) : i # j /\ s[i].frame # None => s[i].frame # s[j].frame
    BY <2>3 DEF IndInv, FrameInv
  <2>6. ~failed' => \A i \in 1 .. Len(s) : s[i].frame # None => Holds(fr[s[i].frame], Content(s[i]))
    BY <2>2, <2>3 DEF IndInv, FrameInv
  <2>7. Partition(spare, InUse(stack), Len(frames))'
    BY <2>3, <2>4 DEF Partition, InUse
  <2>8. ~failed' => \A i \in 1 .. Len(stack') : stack'[i].frame # None => Holds(frames[stack[i].frame], Content(stack[i]))'
    BY <2>3, <2>6 DEF Holds, Content
  <2> QED
    BY <2>3, <2>5, <2>7, <2>8 DEF FrameInv
<1> QED
  BY <1>1, <1>2, <1>3, <1>4 DEF IndInv

\* A call whose arguments are known, and fit.
Supplied(call) ==
  /\ call \in Call /\ call.fn \in Fns /\ ~call.direct /\ call.frame = None /\ call.number # None
  /\ Len(call.args) = call.count /\ Parameters[call.fn] <= call.count

\* The named arguments and those behind them.
LEMMA SuppliedParts ==
  ASSUME NEW call \in Call, Len(call.args) = call.count, Parameters[call.fn] <= call.count
  PROVE  /\ Parameters[call.fn] \in Nat
         /\ PrivateArgs(call) \in Seq(Value)
         /\ Len(Unnamed(call)) \in Nat
<1>1. Parameters[call.fn] \in Nat /\ call.count \in Nat /\ call.args \in Seq(Value)
  BY CallsAssumption DEF Call
<1>2. \A k \in 1 .. call.count : call.args[k] \in Value
  BY <1>1, ElementOfSeq
<1>3. PICK p \in Nat : p = Parameters[call.fn] /\ p <= call.count
  BY <1>1
<1>4. (\A k \in 1 .. p : call.args[k] \in Value) /\ \A k \in p + 1 .. call.count : call.args[k] \in Value
  <2>1. (\A k \in 1 .. p : k \in 1 .. call.count) /\ \A k \in p + 1 .. call.count : k \in 1 .. call.count
    BY <1>1, <1>3
  <2> QED
    BY <1>2, <2>1
<1>5. SubSeq(call.args, 1, p) \in Seq(Value) /\ SubSeq(call.args, p + 1, call.count) \in Seq(Value)
  <2>1. 1 \in Int /\ p \in Int /\ p + 1 \in Int /\ call.count \in Int
    BY <1>1
  <2> QED
    BY <1>4, <2>1, SubSeqProperties
<1>6. Len(SubSeq(call.args, p + 1, call.count)) \in Nat
  BY <1>5, LenProperties
<1>7. <<>> \in Seq(Value)
  BY EmptySeq
<1> QED
  BY <1>1, <1>3, <1>5, <1>6, <1>7 DEF PrivateArgs, Unnamed

\* What invoke makes of a call.
LEMMA EnteredParts ==
  ASSUME TypeOK, NEW call, Supplied(call)
  PROVE  \E c \in Call :
           /\ c = Entered(call)
           /\ c.state = "running" /\ c.outer = frame /\ c.parent = vaFrame /\ c.local = PrivateArgs(call)
           /\ c.identity = (IF call.fn \in Variadic THEN address ELSE None)
           /\ c.frame = (IF call.fn \in Slotted THEN Taken(call.fn) ELSE None)
           /\ c.fn = call.fn /\ c.count = call.count /\ c.args = call.args /\ c.number = call.number /\ ~c.direct
<1>1. ASSUME NEW r \in Call, NEW outer \in Nat, NEW parent \in Nat, NEW id \in Nat, NEW fr \in Nat, NEW local \in Seq(Value)
      PROVE  \E c \in Call :
               /\ c = [r EXCEPT !.state = "running", !.outer = outer, !.parent = parent, !.identity = id,
                                !.frame = fr, !.local = local]
               /\ c.state = "running" /\ c.outer = outer /\ c.parent = parent /\ c.local = local
               /\ c.identity = id /\ c.frame = fr
               /\ c.fn = r.fn /\ c.count = r.count /\ c.args = r.args /\ c.number = r.number /\ c.direct = r.direct
  <2>1. PICK c : c = [r EXCEPT !.state = "running", !.outer = outer, !.parent = parent, !.identity = id,
                               !.frame = fr, !.local = local]
    OBVIOUS
  <2>2. "running" \in {"arguments", "running"}
    OBVIOUS
  <2>3. c \in Call
    BY <2>1, <2>2 DEF Call
  <2>4. c.state = "running" /\ c.outer = outer /\ c.parent = parent /\ c.local = local
    BY <2>1 DEF Call
  <2>5. c.identity = id /\ c.frame = fr
    BY <2>1 DEF Call
  <2>6. c.fn = r.fn /\ c.count = r.count /\ c.args = r.args /\ c.number = r.number /\ c.direct = r.direct
    BY <2>1 DEF Call
  <2> QED
    BY <2>1, <2>3, <2>4, <2>5, <2>6
<1>2. /\ frame \in Nat /\ vaFrame \in Nat /\ address \in Nat /\ None \in Nat /\ PrivateArgs(call) \in Seq(Value)
  BY SuppliedParts DEF TypeOK, None, Supplied
<1>3. call.fn \in Slotted => Taken(call.fn) \in Nat
  <2>1. spare[call.fn] \in Seq(Nat) /\ Len(frames) + 1 \in Nat
    BY LenProperties DEF TypeOK, Supplied
  <2>2. spare[call.fn] # <<>> => Head(spare[call.fn]) \in Nat
    BY <2>1, HeadTailProperties
  <2> QED
    BY <2>1, <2>2 DEF Taken
<1>4. PICK r \in Call, outer \in Nat, parent \in Nat, id \in Nat, fr \in Nat, local \in Seq(Value) :
        /\ r = call /\ outer = frame /\ parent = vaFrame /\ local = PrivateArgs(call)
        /\ id = (IF call.fn \in Variadic THEN address ELSE None)
        /\ fr = (IF call.fn \in Slotted THEN Taken(call.fn) ELSE None)
  <2>1. (IF call.fn \in Variadic THEN address ELSE None) \in Nat /\ (IF call.fn \in Slotted THEN Taken(call.fn) ELSE None) \in Nat
    BY <1>2, <1>3
  <2> QED
    BY <1>2, <2>1 DEF Supplied
<1>5. Entered(call) = [r EXCEPT !.state = "running", !.outer = outer, !.parent = parent, !.identity = id,
                                !.frame = fr, !.local = local]
  BY <1>4 DEF Entered, Identity
<1>6. PICK c \in Call :
        /\ c = [r EXCEPT !.state = "running", !.outer = outer, !.parent = parent, !.identity = id,
                         !.frame = fr, !.local = local]
        /\ c.state = "running" /\ c.outer = outer /\ c.parent = parent /\ c.local = local
        /\ c.identity = id /\ c.frame = fr
        /\ c.fn = r.fn /\ c.count = r.count /\ c.args = r.args /\ c.number = r.number /\ c.direct = r.direct
  BY <1>1
<1>7. c = Entered(call)
  BY <1>5, <1>6
<1> QED
  BY <1>4, <1>6, <1>7 DEF Supplied

\* invoke, of a call that was evaluating its arguments or that a library function makes.
LEMMA InvokeIndInv ==
  ASSUME IndInv, ~failed, NEW n, NEW call, Supplied(call), Placed(n, Entered(call)), Invoke(call, n + 1),
         \/ n = Len(stack) /\ call.number > calls
         \/ n = Len(stack) - 1 /\ call.number = stack[n + 1].number /\ stack[n + 1].state = "arguments"
                               /\ stack[n + 1].frame = None /\ stack[n + 1].identity = None,
         depth' = n + 1, calls' \in Nat, calls <= calls', call.number <= calls', UNCHANGED <<lists, entries, truth>>
  PROVE  IndInv'
<1>1. TypeOK /\ CallsInv /\ NestInv /\ FrameInv /\ ListInv
  BY DEF IndInv
<1>2. PICK f \in Fns : f = call.fn
  BY DEF Supplied
<1>3. PICK c \in Call :
           /\ c = Entered(call)
           /\ c.state = "running" /\ c.outer = frame /\ c.parent = vaFrame /\ c.local = PrivateArgs(call)
           /\ c.identity = (IF call.fn \in Variadic THEN address ELSE None)
           /\ c.frame = (IF call.fn \in Slotted THEN Taken(call.fn) ELSE None)
           /\ c.fn = call.fn /\ c.count = call.count /\ c.args = call.args /\ c.number = call.number /\ ~c.direct
  BY <1>1, EnteredParts
<1>4. Placed(n, c)
  BY <1>3
<1>5. /\ n \in Nat /\ Len(stack) \in Nat /\ address \in Nat \ {None} /\ calls \in Nat /\ frame \in Nat /\ vaFrame \in Nat
      /\ n # Len(stack) - 1 \/ n # Len(stack)
  BY <1>1, StackParts DEF Placed, TypeOK
<1>6. /\ vaFrame' = n + 1 /\ address' = (IF f \in Variadic THEN address + 1 ELSE address) /\ failed' = ~Collects(call)
  BY <1>2 DEF Invoke
<1>7. Full(c)
  BY <1>2, <1>3 DEF Full
<1>8. /\ Below(n) = InUse(stack) /\ Partition(spare, Below(n), Len(frames))
  <2>1. CASE n = Len(stack)
    BY <1>1, <1>5, <2>1, BelowIs DEF FrameInv
  <2>2. CASE n = Len(stack) - 1
    <3>1. stack[n + 1].frame = None
      BY <1>5, <2>2
    <3>2. InUse(stack) = Below(n) \cup ({stack[n + 1].frame} \ {None})
      BY <1>1, <1>5, <2>2, BelowIs
    <3>3. InUse(stack) = Below(n)
      BY <3>1, <3>2
    <3> QED
      BY <1>1, <3>3 DEF FrameInv
  <2> QED
    BY <1>4, <2>1, <2>2 DEF Placed
<1>9. /\ spare' \in [Fns -> Seq(Nat)] /\ frames' \in Seq(Seq(Value)) /\ frame' \in Nat
      /\ f \in Slotted => c.frame # None
      /\ frame' = IF c.frame # None THEN c.frame ELSE frame
      /\ Partition(spare', Below(n) \cup ({c.frame} \ {None}), Len(frames'))
      /\ c.frame # None => c.frame \notin Below(n)
      /\ \A m \in Below(n) : frames'[m] = frames[m]
      /\ ~failed' /\ c.frame # None => frames'[c.frame] = PrivateArgs(call)
  <2>1. CASE f \in Slotted
    <3>1. PICK taken, made : taken = Taken(f) /\ made = Made(f)
      OBVIOUS
    <3>2. /\ taken \in Nat \ {None} /\ taken \notin Below(n)
          /\ TakenFrom(f) \in [Fns -> Seq(Nat)] /\ made \in Seq(Seq(Value))
          /\ taken \in 1 .. Len(made) /\ Len(frames) <= Len(made)
          /\ \A m \in 1 .. Len(frames) : made[m] = frames[m]
          /\ Partition(TakenFrom(f), Below(n) \cup {taken}, Len(made))
      BY <1>1, <1>8, <3>1, Taking
    <3>3. PICK content \in Seq(Value) : /\ content = IF Collects(call) THEN PrivateArgs(call) ELSE made[taken]
                                        /\ spare' = TakenFrom(f) /\ frames' = [made EXCEPT ![taken] = content] /\ frame' = taken
      <4>1. PrivateArgs(call) \in Seq(Value) /\ made[taken] \in Seq(Value)
        BY <3>2, SuppliedParts, ElementOfSeq DEF Supplied
      <4>2. frames' = [made EXCEPT ![taken] = IF Collects(call) THEN PrivateArgs(call) ELSE @]
        BY <1>2, <2>1, <3>1 DEF Invoke
      <4>3. frames' = [made EXCEPT ![taken] = IF Collects(call) THEN PrivateArgs(call) ELSE made[taken]]
        BY <3>2, <4>2
      <4> QED
        BY <1>2, <2>1, <3>1, <4>1, <4>3 DEF Invoke
    <3>4. /\ frames' \in Seq(Seq(Value)) /\ Len(frames') = Len(made)
          /\ \A m \in 1 .. Len(made) : frames'[m] = IF m = taken THEN content ELSE made[m]
      BY <3>2, <3>3, ExceptSeq
    <3>5. c.frame = taken /\ c.frame # None /\ {c.frame} \ {None} = {taken}
      BY <1>2, <1>3, <2>1, <3>1, <3>2
    <3>6. ASSUME NEW m \in Below(n)
          PROVE  frames'[m] = frames[m]
      <4>1. m \in 1 .. Len(frames) /\ m # taken
        BY <1>8, <3>2 DEF Partition
      <4>2. m \in 1 .. Len(made)
        BY <3>2, <4>1, LenProperties
      <4> QED
        BY <3>2, <3>4, <4>1, <4>2
    <3>7. ~failed' => frames'[c.frame] = PrivateArgs(call)
      BY <1>6, <3>2, <3>3, <3>4, <3>5
    <3>8. Partition(spare', Below(n) \cup ({c.frame} \ {None}), Len(frames'))
      BY <3>2, <3>3, <3>4, <3>5
    <3> QED
      BY <3>2, <3>3, <3>4, <3>5, <3>6, <3>7, <3>8
  <2>2. CASE f \notin Slotted
    <3>1. UNCHANGED <<spare, frames, frame>> /\ c.frame = None
      BY <1>2, <1>3, <2>2 DEF Invoke
    <3>2. Below(n) \cup ({c.frame} \ {None}) = Below(n)
      BY <3>1
    <3> QED
      BY <1>1, <1>8, <2>2, <3>1, <3>2 DEF TypeOK
  <2> QED
    BY <2>1, <2>2
<1>10. CallsInv' /\ ListInv'
  <2>1. address' \in Nat /\ address <= address' /\ (c.identity # None => c.identity >= address) /\ c.identity < address'
    BY <1>2, <1>3, <1>5, <1>6 DEF None
  <2>2. CallOK(c)'
    <3>1. f \in Slotted <=> c.frame # None
      BY <1>2, <1>3, <1>9
    <3>2. c.identity # None <=> f \in Variadic
      BY <1>2, <1>3, <1>5
    <3>3. c.number # None /\ c.number <= calls' /\ Len(c.args) = c.count /\ Parameters[c.fn] <= c.count
      BY <1>3 DEF Supplied
    <3> QED
      BY <1>2, <1>3, <1>7, <2>1, <3>1, <3>2, <3>3 DEF CallOK, Full
  <2>3. \/ n = Len(stack) /\ c.number > calls
        \/ n = Len(stack) - 1 /\ c.number = stack[n + 1].number /\ stack[n + 1].identity = None
    BY <1>3
  <2> QED
    BY <1>1, <1>4, <2>1, <2>2, <2>3, PlacedCalls
<1>11. NestInv'
  <2>1. frame' = IF Slot(c) THEN c.frame ELSE frame
    BY <1>3, <1>9 DEF Slot
  <2>2. c.parent = (IF Full(c) THEN vaFrame ELSE None) /\ vaFrame' = IF Full(c) THEN n + 1 ELSE vaFrame
    BY <1>3, <1>6, <1>7
  <2>3. n = Len(stack) - 1 => stack[n + 1].state = "arguments"
    BY <1>5
  <2>4. Slot(c) => c.outer = frame
    BY <1>3
  <2> QED
    BY <1>1, <1>4, <2>1, <2>2, <2>3, <2>4, PlacedNest
<1>12. FrameInv'
  <2>1. ~failed' => ~failed /\ \A m \in Below(n) : frames'[m] = frames[m]
    BY <1>9
  <2>2. ~failed' /\ c.frame # None => Holds(frames'[c.frame], Content(c))
    <3>1. Content(c) = PrivateArgs(call) /\ Len(PrivateArgs(call)) \in Nat
      BY <1>3, SuppliedParts, LenProperties DEF Content, Supplied
    <3> QED
      BY <1>9, <3>1 DEF Holds
  <2> QED
    BY <1>1, <1>4, <1>9, <2>1, <2>2, PlacedFrames
<1>13. TypeOK'
  <2>1. stack' \in Seq(Call)
    BY <1>4 DEF Placed
  <2>2. vaFrame' \in Nat /\ depth' \in Nat /\ address' \in Nat \ {None} /\ failed' \in BOOLEAN
    BY <1>5, <1>6 DEF None, Collects
  <2> QED
    BY <1>1, <1>9, <2>1, <2>2 DEF TypeOK
<1> QED
  BY <1>10, <1>11, <1>12, <1>13 DEF IndInv

\* call: the arguments are in an array, and their number fits or is refused.
LEMMA EnterFullIndInv ==
  ASSUME IndInv, EnterFull
  PROVE  IndInv'
<1>1. /\ TypeOK /\ CallsInv /\ NestInv
      /\ stack # <<>> /\ Top.state = "arguments" /\ ~failed /\ ~Top.direct /\ Len(Top.args) = Top.count /\ Top.fn \in Fns
      /\ UNCHANGED <<lists, depth, calls, entries, truth>>
  BY DEF IndInv, EnterFull, Ready, Waiting
<1>2. /\ Len(stack) \in Nat /\ Len(stack) \in 1 .. Len(stack) /\ Top = stack[Len(stack)] /\ Top \in Call
      /\ Len(stack) - 1 \in Nat /\ Len(stack) - 1 + 1 = Len(stack)
  BY <1>1, StackParts
<1>3. CASE ~CountFits(Top.fn, Top.count)
  <2>1. failed' = TRUE /\ UNCHANGED <<stack, spare, frames, frame, vaFrame, address>>
    BY <1>3 DEF EnterFull
  <2>2. failed' \in BOOLEAN /\ entries' \in Nat
    BY <1>1, <2>1 DEF TypeOK
  <2> QED
    BY <1>1, <2>1, <2>2, SameCallsIndInv
<1>4. CASE CountFits(Top.fn, Top.count)
  <2>1. CallOK(Top)
    BY <1>1, <1>2 DEF CallsInv
  <2>2. Parameters[Top.fn] <= Top.count
    <3>1. Parameters[Top.fn] \in Nat /\ Top.count \in Nat
      BY <1>1, <1>2, CallsAssumption DEF Call
    <3> QED
      BY <1>4, <3>1 DEF CountFits
  <2>3. PICK call : call = Top
    OBVIOUS
  <2>4. Supplied(call)
    BY <1>1, <1>2, <2>1, <2>2, <2>3 DEF Supplied, CallOK
  <2>5. PICK n \in Nat : n = Len(stack) - 1 /\ n + 1 = Len(stack)
    BY <1>2
  <2>6. stack' = [stack EXCEPT ![Len(stack)] = Entered(call)] /\ Invoke(call, n + 1)
    BY <1>4, <2>3, <2>5 DEF EnterFull
  <2>7. Entered(call) \in Call
    BY <1>1, <2>4, EnteredParts
  <2>8. Placed(n, Entered(call))
    BY <1>1, <2>5, <2>6, <2>7, ReplacePlaced
  <2>9. n = Len(stack) - 1 /\ call.number = stack[n + 1].number /\ stack[n + 1].state = "arguments"
                           /\ stack[n + 1].frame = None /\ stack[n + 1].identity = None
    BY <1>1, <1>2, <2>1, <2>3, <2>5 DEF CallOK, Full
  <2>10. depth' = n + 1
    BY <1>1, <2>5 DEF NestInv
  <2>11. calls' \in Nat /\ calls <= calls' /\ call.number <= calls'
    BY <1>1, <2>1, <2>3 DEF CallOK, TypeOK
  <2> QED
    BY <1>1, <2>4, <2>6, <2>8, <2>9, <2>10, <2>11, InvokeIndInv
<1> QED
  BY <1>3, <1>4

\* A call whose arguments are all there before it begins.
LEMMA WithArguments ==
  ASSUME NEW f \in Fns, NEW n \in Nat, NEW args \in Seq(Value), NEW number \in Nat, NEW none \in Nat, NEW d \in BOOLEAN
  PROVE  [state |-> "arguments", fn |-> f, count |-> n, args |-> args, number |-> number, frame |-> none,
          outer |-> none, identity |-> none, parent |-> none, local |-> <<>>, direct |-> d] \in Call
<1>1. "arguments" \in {"arguments", "running"} /\ f \in Fns \cup Library /\ <<>> \in Seq(Value)
  BY EmptySeq
<1> QED
  BY <1>1 DEF Call

\* What a library function hands to the function it calls back.
LEMMA CallbackParts ==
  ASSUME TypeOK, NEW f \in Fns, NEW call,
         call = [Begun(f, Parameters[f], None) EXCEPT
                   !.args = [i \in 1 .. Parameters[f] |-> [of |-> calls + 1, at |-> i, kind |-> "int"]]]
  PROVE  /\ Supplied(call) /\ call.fn = f /\ call.count = Parameters[f] /\ call.number = calls + 1
         /\ call.identity = None /\ call.parent = None
<1>1. PICK k \in Nat : k = Parameters[f]
  BY CallsAssumption
<1>2. PICK args : args = [i \in 1 .. k |-> [of |-> calls + 1, at |-> i, kind |-> "int"]]
  OBVIOUS
<1>3. calls + 1 \in Nat /\ None \in Nat /\ calls + 1 # None
  BY DEF TypeOK, None
<1>4. args \in [1 .. k -> Value]
  <2>1. \A i \in 1 .. k : [of |-> calls + 1, at |-> i, kind |-> "int"] \in Value
    BY <1>3 DEF Value
  <2> QED
    BY <1>2, <2>1
<1>5. args \in Seq(Value) /\ Len(args) = k
  BY <1>4, SeqDef
<1>6. <<>> \in Seq(Value)
  BY EmptySeq
<1>7. call = [state |-> "arguments", fn |-> f, count |-> k, args |-> args, number |-> calls + 1, frame |-> None,
              outer |-> None, identity |-> None, parent |-> None, local |-> <<>>, direct |-> FALSE]
  BY <1>1, <1>2 DEF Begun
<1>8. call \in Call
  <2>1. PICK number \in Nat, none \in Nat, d \in BOOLEAN : number = calls + 1 /\ none = None /\ d = FALSE
    BY <1>3
  <2>2. [state |-> "arguments", fn |-> f, count |-> k, args |-> args, number |-> number, frame |-> none,
         outer |-> none, identity |-> none, parent |-> none, local |-> <<>>, direct |-> d] \in Call
    BY <1>1, <1>5, <2>1, WithArguments
  <2> QED
    BY <1>7, <2>1, <2>2
<1> QED
  BY <1>1, <1>3, <1>5, <1>7, <1>8 DEF Supplied

\* A call back to a simple function.
LEMMA CallbackSimple ==
  ASSUME IndInv, NEW f \in Fns, f \in Simple, Callback(f)
  PROVE  IndInv'
<1>1. /\ TypeOK /\ CallsInv /\ NestInv /\ FrameInv /\ ListInv /\ ~failed
      /\ depth' = depth + 1 /\ calls' = calls + 1 /\ UNCHANGED <<lists, entries, truth>>
      /\ UNCHANGED <<vaFrame, address, failed>>
  BY DEF IndInv, Callback
<1>2. PICK call : call = [Begun(f, Parameters[f], None) EXCEPT
                            !.args = [i \in 1 .. Parameters[f] |-> [of |-> calls + 1, at |-> i, kind |-> "int"]]]
  OBVIOUS
<1>3. /\ Supplied(call) /\ call.fn = f /\ call.count = Parameters[f] /\ call.number = calls + 1
      /\ call.identity = None /\ call.parent = None
  BY <1>1, <1>2, CallbackParts
<1>4. PICK mine, local : mine = (IF f \in Slotted THEN Taken(f) ELSE None) /\ local = PrivateArgs(call)
  OBVIOUS
<1>5. /\ stack' = Append(stack, [call EXCEPT !.state = "running", !.direct = TRUE, !.frame = mine,
                                             !.outer = frame, !.local = local])
      /\ f \in Slotted => spare' = TakenFrom(f) /\ frames' = [Made(f) EXCEPT ![mine] = local] /\ frame' = mine
      /\ f \notin Slotted => UNCHANGED <<spare, frames, frame>>
  BY <1>2, <1>4 DEF Callback
<1>6. /\ Len(stack) \in Nat /\ frame \in Nat /\ calls \in Nat /\ address \in Nat \ {None} /\ local \in Seq(Value)
      /\ InUse(stack) = Below(Len(stack)) /\ Partition(spare, Below(Len(stack)), Len(frames))
  <2>1. Len(stack) \in Nat /\ frame \in Nat /\ calls \in Nat /\ address \in Nat \ {None}
    BY <1>1, StackParts DEF TypeOK
  <2>2. local \in Seq(Value)
    BY <1>3, <1>4, SuppliedParts DEF Supplied
  <2>3. InUse(stack) = Below(Len(stack))
    BY <1>1, <2>1, BelowIs
  <2> QED
    BY <1>1, <2>1, <2>2, <2>3 DEF FrameInv
<1>7. /\ mine \in Nat /\ (f \in Slotted <=> mine # None)
      /\ spare' \in [Fns -> Seq(Nat)] /\ frames' \in Seq(Seq(Value))
      /\ frame' = IF mine # None THEN mine ELSE frame
      /\ Partition(spare', Below(Len(stack)) \cup ({mine} \ {None}), Len(frames'))
      /\ mine # None => mine \notin Below(Len(stack)) /\ frames'[mine] = local
      /\ \A m \in Below(Len(stack)) : frames'[m] = frames[m]
  <2>1. CASE f \in Slotted
    <3>1. PICK made : made = Made(f)
      OBVIOUS
    <3>2. /\ mine \in Nat \ {None} /\ mine \notin Below(Len(stack))
          /\ TakenFrom(f) \in [Fns -> Seq(Nat)] /\ made \in Seq(Seq(Value))
          /\ mine \in 1 .. Len(made) /\ Len(frames) <= Len(made)
          /\ \A m \in 1 .. Len(frames) : made[m] = frames[m]
          /\ Partition(TakenFrom(f), Below(Len(stack)) \cup {mine}, Len(made))
      BY <1>1, <1>4, <1>6, <2>1, <3>1, Taking
    <3>3. /\ frames' \in Seq(Seq(Value)) /\ Len(frames') = Len(made)
          /\ \A m \in 1 .. Len(made) : frames'[m] = IF m = mine THEN local ELSE made[m]
      <4>1. frames' = [made EXCEPT ![mine] = local]
        BY <1>5, <2>1, <3>1
      <4> QED
        BY <1>6, <3>2, <4>1, ExceptSeq
    <3>4. ASSUME NEW m \in Below(Len(stack))
          PROVE  frames'[m] = frames[m]
      <4>1. m \in 1 .. Len(frames) /\ m # mine
        BY <1>6, <3>2 DEF Partition
      <4>2. m \in 1 .. Len(made)
        BY <3>2, <4>1, LenProperties
      <4> QED
        BY <3>2, <3>3, <4>1, <4>2
    <3>5. {mine} \ {None} = {mine}
      BY <3>2
    <3>6. Partition(spare', Below(Len(stack)) \cup ({mine} \ {None}), Len(frames'))
      BY <1>5, <2>1, <3>2, <3>3, <3>5
    <3>7. frames'[mine] = local
      BY <3>2, <3>3
    <3> QED
      BY <1>5, <2>1, <3>2, <3>3, <3>4, <3>6, <3>7
  <2>2. CASE f \notin Slotted
    <3>1. mine = None /\ None \in Nat /\ Below(Len(stack)) \cup ({mine} \ {None}) = Below(Len(stack))
      BY <1>4, <2>2 DEF None
    <3> QED
      BY <1>1, <1>5, <1>6, <2>2, <3>1 DEF TypeOK
  <2> QED
    BY <2>1, <2>2
<1>8. PICK c \in Call : /\ c = [call EXCEPT !.state = "running", !.direct = TRUE, !.frame = mine,
                                            !.outer = frame, !.local = local]
                        /\ c.state = "running" /\ c.direct /\ c.frame = mine /\ c.outer = frame /\ c.local = local
                        /\ c.fn = f /\ c.count = Parameters[f] /\ c.args = call.args /\ c.number = calls + 1
                        /\ c.identity = None /\ c.parent = None
  <2>1. PICK r \in Call, fr \in Nat, outer \in Nat, content \in Seq(Value), d \in BOOLEAN :
          d = TRUE /\ fr = mine /\ outer = frame /\ content = local /\ r = call
    BY <1>3, <1>6, <1>7 DEF Supplied
  <2>2. PICK c : c = [r EXCEPT !.state = "running", !.direct = d, !.frame = fr, !.outer = outer, !.local = content]
    OBVIOUS
  <2>3. "running" \in {"arguments", "running"}
    OBVIOUS
  <2>4. c \in Call
    BY <2>1, <2>2, <2>3 DEF Call
  <2>5. c.state = "running" /\ c.direct = d /\ c.frame = fr /\ c.outer = outer /\ c.local = content
    BY <2>1, <2>2 DEF Call
  <2>6. c.fn = r.fn /\ c.count = r.count /\ c.args = r.args /\ c.number = r.number
    BY <2>1, <2>2 DEF Call
  <2>7. c.identity = r.identity /\ c.parent = r.parent
    BY <2>1, <2>2 DEF Call
  <2> QED
    BY <1>3, <2>1, <2>2, <2>4, <2>5, <2>6, <2>7
<1>9. Placed(Len(stack), c)
  BY <1>1, <1>5, <1>8, PushPlaced
<1>10. ~Full(c) /\ (Slot(c) <=> c.frame # None)
  BY <1>8 DEF Full, Slot
<1>11. CallsInv' /\ ListInv'
  <2>1. CallOK(c)'
    <3>1. c.number # None /\ c.number <= calls' /\ c.identity < address'
      BY <1>1, <1>6, <1>8 DEF None
    <3>2. Len(c.args) = c.count /\ Parameters[c.fn] <= c.count
      BY <1>3, <1>8 DEF Supplied
    <3>3. c.fn \in Slotted <=> c.frame # None
      BY <1>7, <1>8
    <3> QED
      BY <1>8, <1>10, <3>1, <3>2, <3>3 DEF CallOK, Full
  <2>2. calls' \in Nat /\ calls <= calls' /\ address' \in Nat /\ address <= address' /\ c.number > calls
    BY <1>1, <1>6, <1>8
  <2> QED
    BY <1>1, <1>8, <1>9, <2>1, <2>2, PlacedCalls
<1>12. NestInv'
  <2>1. depth' = Len(stack) + 1
    BY <1>1 DEF NestInv
  <2>2. Len(stack) # Len(stack) - 1
    BY <1>6
  <2>3. frame' = IF Slot(c) THEN c.frame ELSE frame
    BY <1>7, <1>8, <1>10
  <2>4. /\ c.parent = (IF Full(c) THEN vaFrame ELSE None) /\ vaFrame' = (IF Full(c) THEN Len(stack) + 1 ELSE vaFrame)
        /\ Slot(c) => c.outer = frame
    BY <1>1, <1>8, <1>10
  <2> QED
    BY <1>1, <1>9, <2>1, <2>2, <2>3, <2>4, PlacedNest
<1>13. FrameInv'
  <2>1. c.frame = mine
    BY <1>8
  <2>2. Partition(spare', Below(Len(stack)) \cup ({c.frame} \ {None}), Len(frames'))
    BY <1>7, <2>1
  <2>3. c.frame # None => c.frame \notin Below(Len(stack))
    BY <1>7, <2>1
  <2>4. ~failed' => ~failed /\ \A m \in Below(Len(stack)) : frames'[m] = frames[m]
    BY <1>1, <1>7
  <2>5. c.frame # None => Holds(frames'[c.frame], Content(c))
    <3>1. Content(c) = local /\ Len(local) \in Nat
      BY <1>6, <1>8, LenProperties DEF Content
    <3> QED
      BY <1>7, <2>1, <3>1 DEF Holds
  <2> QED
    BY <1>1, <1>9, <2>2, <2>3, <2>4, <2>5, PlacedFrames
<1>14. TypeOK'
  <2>1. stack' \in Seq(Call)
    BY <1>9 DEF Placed
  <2>2. depth' \in Nat /\ calls' \in Nat /\ frame' \in Nat
    BY <1>1, <1>6, <1>7 DEF TypeOK
  <2> QED
    BY <1>1, <1>7, <2>1, <2>2 DEF TypeOK
<1> QED
  BY <1>11, <1>12, <1>13, <1>14 DEF IndInv

\* runtime_invoke.
LEMMA CallbackIndInv ==
  ASSUME IndInv, NEW f \in Fns, Callback(f)
  PROVE  IndInv'
<1>1. CASE f \in Simple
  BY <1>1, CallbackSimple
<1>2. CASE f \notin Simple
  <2>1. /\ TypeOK /\ NestInv /\ ~failed /\ depth' = depth + 1 /\ calls' = calls + 1 /\ UNCHANGED <<lists, entries, truth>>
    BY DEF IndInv, Callback
  <2>2. PICK call : call = [Begun(f, Parameters[f], None) EXCEPT
                              !.args = [i \in 1 .. Parameters[f] |-> [of |-> calls + 1, at |-> i, kind |-> "int"]]]
    OBVIOUS
  <2>3. Supplied(call) /\ call.number = calls + 1
    BY <2>1, <2>2, CallbackParts
  <2>4. stack' = Append(stack, Entered(call)) /\ Invoke(call, Len(stack) + 1)
    BY <1>2, <2>2 DEF Callback
  <2>5. Entered(call) \in Call
    BY <2>1, <2>3, EnteredParts
  <2>6. Placed(Len(stack), Entered(call))
    BY <2>1, <2>4, <2>5, PushPlaced
  <2>7. depth' = Len(stack) + 1
    BY <2>1 DEF NestInv
  <2>8. calls \in Nat /\ calls' \in Nat /\ calls <= calls' /\ call.number <= calls' /\ call.number > calls
    BY <2>1, <2>3 DEF TypeOK
  <2> QED
    BY <2>1, <2>3, <2>4, <2>6, <2>7, <2>8, InvokeIndInv
<1> QED
  BY <1>1, <1>2

-----------------------------------------------------------------------------
(* The steps of a body. *)

\* The body whose expressions are evaluated is that of the innermost running call.
LEMMA BodyIs ==
  ASSUME TypeOK, InProgress # {}
  PROVE  /\ Body \in 1 .. Len(stack) /\ stack[Body] \in Call /\ stack[Body].state = "running"
         /\ \A j \in Body + 1 .. Len(stack) : stack[j].state # "running"
<1>1. /\ Len(stack) \in Nat /\ DOMAIN stack = 1 .. Len(stack) /\ \A i \in 1 .. Len(stack) : stack[i] \in Call
  BY StackParts, LenProperties DEF TypeOK
<1>2. InProgress \in SUBSET (1 .. Len(stack))
  BY <1>1 DEF InProgress
<1>3. PICK k \in InProgress : \A l \in InProgress : l <= k
  BY <1>1, <1>2, LastOfPositions
<1>4. k \in 1 .. Len(stack) /\ \A j \in k + 1 .. Len(stack) : j \notin InProgress
  <2>1. k \in 1 .. Len(stack)
    BY <1>2
  <2>2. ASSUME NEW j \in k + 1 .. Len(stack), j \in InProgress
        PROVE  FALSE
    <3>1. j <= k
      BY <1>3, <2>2
    <3> QED
      BY <1>1, <2>1, <3>1
  <2> QED
    BY <2>1, <2>2
<1>5. Body = k
  <2>1. Max(InProgress \cup {None}) = k
    BY <1>1, <1>2, <1>4, InnermostIsMax
  <2> QED
    BY <2>1 DEF Body
<1>6. \A j \in k + 1 .. Len(stack) : j \in DOMAIN stack
  BY <1>1, <1>4
<1> QED
  BY <1>1, <1>3, <1>4, <1>5, <1>6 DEF InProgress

\* The frame and the argument frame that are current are those of the body.
LEMMA BodyIsCurrent ==
  ASSUME IndInv, Evaluating
  PROVE  /\ stack[Body].fn \in Slotted => frame = stack[Body].frame /\ frame # None
         /\ stack[Body].fn \notin Simple => vaFrame = Body /\ Full(stack[Body])
<1>1. /\ TypeOK /\ CallsInv /\ Nested(stack, Len(stack), frame, vaFrame) /\ InProgress # {} /\ stack[Body].fn \in Fns
      /\ Len(stack) \in Nat
  BY StackParts DEF IndInv, NestInv, Evaluating
<1>2. PICK b : b = Body
  OBVIOUS
<1>3. /\ b \in 1 .. Len(stack) /\ stack[b] \in Call /\ stack[b].state = "running"
      /\ \A j \in b + 1 .. Len(stack) : stack[j].state # "running"
  BY <1>1, <1>2, BodyIs
<1>4. CallOK(stack[b])
  BY <1>1, <1>3 DEF CallsInv
<1>5. ASSUME stack[b].fn \in Slotted
      PROVE  frame = stack[b].frame /\ frame # None
  <2>1. stack[b].frame # None /\ Slot(stack[b])
    BY <1>3, <1>4, <1>5 DEF CallOK, Slot
  <2>2. InnermostSlot(stack, Len(stack), frame)
    BY <1>1 DEF Nested
  <2>3. PICK i \in 1 .. Len(stack) : Slot(stack[i]) /\ frame = stack[i].frame /\ \A j \in i + 1 .. Len(stack) : ~Slot(stack[j])
    BY <1>3, <2>1, <2>2 DEF InnermostSlot
  <2>4. i = b
    <3>1. ~(b < i)
      <4>1. b < i => i \in b + 1 .. Len(stack)
        BY <1>1, <1>3
      <4> QED
        BY <1>3, <2>3, <4>1 DEF Slot
    <3>2. ~(i < b)
      <4>1. i < b => b \in i + 1 .. Len(stack)
        BY <1>1, <1>3
      <4> QED
        BY <2>1, <2>3, <4>1
    <3> QED
      BY <1>1, <1>3, <3>1, <3>2
  <2> QED
    BY <2>1, <2>3, <2>4
<1>6. ASSUME stack[b].fn \notin Simple
      PROVE  vaFrame = b /\ Full(stack[b])
  <2>1. Full(stack[b])
    BY <1>1, <1>2, <1>3, <1>4, <1>6 DEF CallOK, Full
  <2>2. vaFrame \in 0 .. Len(stack) /\ (vaFrame # None => Full(stack[vaFrame])) /\ \A j \in vaFrame + 1 .. Len(stack) : ~Full(stack[j])
    BY <1>1 DEF Nested, InnermostFull
  <2>3. ~(vaFrame < b)
    <3>1. vaFrame < b => b \in vaFrame + 1 .. Len(stack)
      BY <1>1, <1>3, <2>2
    <3> QED
      BY <2>1, <2>2, <3>1
  <2>4. ~(b < vaFrame)
    <3>1. b < vaFrame => vaFrame \in b + 1 .. Len(stack) /\ vaFrame # None
      BY <1>1, <1>3, <2>2 DEF None
    <3> QED
      BY <1>3, <2>2, <3>1 DEF Full
  <2> QED
    BY <1>1, <1>3, <2>1, <2>2, <2>3, <2>4
<1> QED
  BY <1>2, <1>5, <1>6

\* The body assigns to a private local: in its own frame.
LEMMA AssignIndInv ==
  ASSUME IndInv, Assign
  PROVE  IndInv'
<1>1. /\ TypeOK /\ CallsInv /\ NestInv /\ FrameInv /\ ListInv /\ Evaluating /\ ~failed /\ InProgress # {}
      /\ stack[Body].fn \in Slotted
      /\ UNCHANGED <<spare, frame, vaFrame, address, lists, depth, failed, calls, entries, truth>>
  BY DEF IndInv, Assign, Evaluating
<1>2. PICK b : b = Body
  OBVIOUS
<1>3. /\ b \in 1 .. Len(stack) /\ stack[b] \in Call /\ stack[b].state = "running" /\ Len(stack) \in Nat /\ stack \in Seq(Call)
  BY <1>1, <1>2, BodyIs, StackParts DEF TypeOK
<1>4. frame = stack[b].frame /\ frame # None
  BY <1>1, <1>2, BodyIsCurrent
<1>5. PICK v : v = [of |-> stack[b].number, at |-> 0, kind |-> "int"]
  OBVIOUS
<1>6. v \in Value
  <2>1. stack[b].number \in Nat /\ 0 \in Nat
    BY <1>3 DEF Call
  <2> QED
    BY <1>5, <2>1 DEF Value
<1>7. PICK w \in Seq(Value) : w = <<v>>
  <2>1. <<v>> \in Seq(Value)
    BY <1>6
  <2> QED
    BY <2>1
<1>8. PICK c : c = [stack[b] EXCEPT !.local = w]
  OBVIOUS
<1>9. c \in Call /\ c.local = w
  BY <1>3, <1>7, <1>8 DEF Call
<1>10. /\ c.state = stack[b].state /\ c.fn = stack[b].fn /\ c.count = stack[b].count /\ c.args = stack[b].args
       /\ c.number = stack[b].number /\ c.frame = stack[b].frame /\ c.outer = stack[b].outer
       /\ c.identity = stack[b].identity /\ c.parent = stack[b].parent /\ c.direct = stack[b].direct
  BY <1>3, <1>8 DEF Call
<1>11. /\ stack' \in Seq(Call) /\ Len(stack') = Len(stack)
       /\ \A i \in 1 .. Len(stack) : stack'[i] = IF i = b THEN c ELSE stack[i]
  <2>1. stack' = [stack EXCEPT ![b].local = w]
    BY <1>2, <1>5, <1>7 DEF Assign
  <2>2. stack' = [stack EXCEPT ![b] = c]
    BY <1>3, <1>8, <2>1
  <2> QED
    BY <1>3, <1>9, <2>2, ExceptSeq
<1>12. \A i \in 1 .. Len(stack) :
         /\ stack'[i].state = stack[i].state /\ stack'[i].fn = stack[i].fn /\ stack'[i].count = stack[i].count
         /\ stack'[i].args = stack[i].args /\ stack'[i].number = stack[i].number /\ stack'[i].frame = stack[i].frame
         /\ stack'[i].outer = stack[i].outer /\ stack'[i].identity = stack[i].identity
         /\ stack'[i].parent = stack[i].parent /\ stack'[i].direct = stack[i].direct
  BY <1>10, <1>11
<1>13. /\ b \in 1 .. Len(stack) /\ stack[b].frame \in 1 .. Len(frames)
       /\ frames' \in Seq(Seq(Value)) /\ Len(frames') = Len(frames)
       /\ \A m \in 1 .. Len(frames) : frames'[m] = IF m = frame THEN w ELSE frames[m]
  <2>1. stack[b].frame \in InUse(stack) /\ InUse(stack) \subseteq 1 .. Len(frames)
    BY <1>1, <1>3, <1>4 DEF InUse, FrameInv, Partition
  <2>2. frames' = [frames EXCEPT ![frame] = w] /\ frames \in Seq(Seq(Value))
    BY <1>1, <1>2, <1>5, <1>7 DEF Assign, TypeOK
  <2> QED
    BY <1>3, <1>4, <1>7, <2>1, <2>2, ExceptSeq
<1>14. TypeOK'
  BY <1>1, <1>11, <1>13 DEF TypeOK
<1>15. CallsInv'
  <2>1. \A i \in 1 .. Len(stack) : CallOK(stack[i])'
    <3>1. ASSUME NEW i \in 1 .. Len(stack)
          PROVE  CallOK(stack[i])'
      <4>1. CallOK(stack[i])
        BY <1>1 DEF CallsInv
      <4> QED
        BY <1>1, <1>12, <4>1 DEF CallOK, Full
    <3> QED
      BY <3>1
  <2>2. \A i, j \in 1 .. Len(stack) : i # j =>
          /\ stack[i].number # stack[j].number
          /\ stack[i].identity # None => stack[i].identity # stack[j].identity
    BY <1>1 DEF CallsInv
  <2> QED
    BY <1>11, <1>12, <2>1, <2>2 DEF CallsInv
<1>16. NestInv'
  <2>0. PICK n \in Nat : n = Len(stack) /\ n = Len(stack')
    BY <1>3, <1>11
  <2>1. PICK t, fr, va : t = stack' /\ fr = frame /\ fr = frame' /\ va = vaFrame /\ va = vaFrame' /\ n = Len(stack) /\ n = Len(stack')
    BY <1>1, <2>0
  <2>2. Nested(stack, n, fr, va)
    BY <1>1, <2>1 DEF NestInv
  <2>3. \A i \in 1 .. n : /\ (Slot(t[i]) <=> Slot(stack[i])) /\ (Full(t[i]) <=> Full(stack[i]))
                          /\ t[i].frame = stack[i].frame /\ t[i].outer = stack[i].outer /\ t[i].parent = stack[i].parent
    BY <1>12, <2>1 DEF Slot, Full
  <2>4. Nested(t, n, fr, va)
    BY <2>2, <2>3, NestKept
  <2> QED
    BY <1>1, <1>11, <2>1, <2>4 DEF NestInv, Nested, InnermostSlot, InnermostFull, Slot, Full
<1>17. FrameInv'
  <2>1. InUse(stack)' = InUse(stack)
    BY <1>11, <1>12 DEF InUse
  <2>2. PICK sp, used, n : sp = spare /\ sp = spare' /\ used = InUse(stack) /\ used = InUse(stack)' /\ n = Len(frames) /\ n = Len(frames')
    BY <1>1, <1>13, <2>1
  <2>3. Partition(sp, used, n)
    BY <1>1, <2>2 DEF FrameInv
  <2>4. Partition(spare, InUse(stack), Len(frames))'
    BY <2>2, <2>3 DEF Partition
  <2>5. \A i, j \in 1 .. Len(stack) : i # j /\ stack'[i].frame # None => stack'[i].frame # stack'[j].frame
    BY <1>1, <1>12 DEF FrameInv
  <2>6. ASSUME NEW i \in 1 .. Len(stack), stack'[i].frame # None
        PROVE  Holds(frames'[stack'[i].frame], Content(stack'[i]))
    <3>1. CASE i = b
      <4>1. Content(stack'[i]) = w /\ frames'[stack'[i].frame] = w /\ Len(w) \in Nat
        BY <1>3, <1>4, <1>9, <1>10, <1>11, <1>13, <3>1, LenProperties DEF Content
      <4> QED
        BY <4>1 DEF Holds
    <3>2. CASE i # b
      <4>1. stack'[i] = stack[i] /\ stack[i].frame # frame /\ stack[i].frame # None
        BY <1>1, <1>3, <1>4, <1>11, <2>6, <3>2 DEF FrameInv
      <4>2. stack[i].frame \in 1 .. Len(frames)
        <5>1. stack[i].frame \in InUse(stack) /\ InUse(stack) \subseteq 1 .. Len(frames)
          BY <1>1, <4>1 DEF InUse, FrameInv, Partition
        <5> QED
          BY <5>1
      <4>3. Holds(frames[stack[i].frame], Content(stack[i]))
        BY <1>1, <4>1 DEF FrameInv
      <4> QED
        BY <1>13, <4>1, <4>2, <4>3
    <3> QED
      BY <3>1, <3>2
  <2>7. \A i \in 1 .. Len(stack') : stack'[i].frame # None => Holds(frames[stack[i].frame], Content(stack[i]))'
    BY <1>11, <2>6 DEF Holds, Content
  <2> QED
    BY <1>11, <2>4, <2>5, <2>7 DEF FrameInv
<1>18. ListInv'
  <2>1. ASSUME NEW l \in Lists
        PROVE  Stands(lists[l], truth[l], stack)'
    <3>1. Stands(lists[l], truth[l], stack)
      BY <1>1 DEF ListInv
    <3>2. \A i \in 1 .. Len(stack) : Unnamed(stack[i])' = Unnamed(stack[i])
      BY <1>12 DEF Unnamed
    <3> QED
      BY <1>1, <1>11, <1>12, <3>1, <3>2 DEF Stands
  <2> QED
    BY <2>1 DEF ListInv
<1> QED
  BY <1>14, <1>15, <1>16, <1>17, <1>18 DEF IndInv

\* What va_read's search finds: an argument frame with the identity, or none when there is none.
LEMMA Search ==
  ASSUME TypeOK, CallsInv, Nested(stack, Len(stack), frame, vaFrame), NEW id, id # None
  PROVE  \E r \in 0 .. Len(stack) :
           /\ r = FrameOf(vaFrame, id)
           /\ r # None => stack[r].identity = id
           /\ r = None => \A j \in 1 .. Len(stack) : stack[j].identity # id
<1> DEFINE Named(k) == k \in 1 .. Len(stack) /\ stack[k].identity = id
           Found(k) == IF k # None /\ \E j \in 1 .. k : Named(j) THEN CHOOSE j \in 1 .. k : Named(j) ELSE None
           Witness  == [k \in 0 .. Len(stack) |-> IF k = None \/ Named(k) \/ Full(stack[k]) THEN Found(k) ELSE None]
           Body1(g, k) == IF k = None \/ stack[k].identity = id THEN k ELSE g[stack[k].parent]
           Seek     == CHOOSE g : g = [k \in 0 .. Len(stack) |-> Body1(g, k)]
<1>1. /\ Len(stack) \in Nat /\ 0 \in 0 .. Len(stack) /\ None = 0
  BY StackParts DEF None
<1>2. ASSUME NEW k \in 1 .. Len(stack)
      PROVE  /\ k \in 0 .. Len(stack) /\ k # None /\ k \in 1 .. k
             /\ stack[k].parent \in 0 .. k - 1 /\ stack[k].parent \in 0 .. Len(stack)
             /\ Named(k) => Full(stack[k])
             /\ ~Full(stack[k]) => stack[k].parent = None
             /\ Full(stack[k]) => /\ stack[k].parent # None => Full(stack[stack[k].parent])
                                  /\ \A j \in stack[k].parent + 1 .. k - 1 : ~Full(stack[j])
  <2>1. CallOK(stack[k]) /\ k \in 0 .. Len(stack) /\ k # None /\ k \in 1 .. k
    BY <1>1 DEF CallsInv
  <2>2. /\ stack[k].parent \in 0 .. k - 1
        /\ Full(stack[k]) => InnermostFull(stack, k - 1, stack[k].parent)
    BY DEF Nested
  <2>3. stack[k].parent \in 0 .. Len(stack)
    BY <1>1, <2>2
  <2> QED
    BY <2>1, <2>2, <2>3 DEF CallOK, InnermostFull
<1>3. ASSUME NEW i \in 1 .. Len(stack), NEW j \in 1 .. Len(stack), Named(i), Named(j)
      PROVE  i = j
  BY <1>3 DEF CallsInv
<1>4. ASSUME NEW k \in 0 .. Len(stack)
      PROVE  /\ Found(k) \in 0 .. k /\ (Found(k) # None => Named(Found(k)))
             /\ Found(k) = None => \A j \in 1 .. k : ~Named(j)
             /\ Named(k) => Found(k) = k
  <2>1. CASE k # None /\ \E j \in 1 .. k : Named(j)
    <3>1. Found(k) \in 1 .. k /\ Named(Found(k))
      BY <2>1
    <3>2. PICK m : m = Found(k)
      OBVIOUS
    <3>3. m \in 0 .. k /\ m # None
      BY <1>1, <3>1, <3>2
    <3>4. Named(k) => m = k
      BY <1>3, <3>1, <3>2
    <3> QED
      BY <3>1, <3>2, <3>3, <3>4
  <2>2. CASE ~(k # None /\ \E j \in 1 .. k : Named(j))
    <3>1. Found(k) = None /\ None \in 0 .. k
      BY <1>1, <2>2
    <3>2. \A j \in 1 .. k : ~Named(j)
      BY <1>1, <2>2
    <3>3. ~Named(k)
      BY <1>1, <3>2
    <3> QED
      BY <3>1, <3>2, <3>3
  <2> QED
    BY <2>1, <2>2
<1> HIDE DEF Found
<1>5. ASSUME NEW k \in 1 .. Len(stack), ~Named(k), Full(stack[k])
      PROVE  LET p == stack[k].parent
             IN  Found(k) = Found(p)
  <2>1. PICK p \in 0 .. k - 1 : p = stack[k].parent /\ p \in 0 .. Len(stack) /\ k \in 0 .. Len(stack)
    BY <1>2
  <2>2. ASSUME NEW j \in 1 .. k, Named(j)
        PROVE  j \in 1 .. p
    <3>1. Full(stack[j]) /\ j # k
      BY <1>2, <1>5, <2>2
    <3>2. ~(p < j)
      <4>1. p < j => j \in p + 1 .. k - 1
        BY <1>1, <2>1, <3>1
      <4> QED
        BY <1>2, <1>5, <2>1, <3>1, <4>1
    <3> QED
      BY <2>1, <3>2
  <2>3. \A j \in 1 .. p : j \in 1 .. k
    BY <2>1
  <2>4. PICK a, b : a = Found(k) /\ b = Found(p)
    OBVIOUS
  <2>5. /\ a \in 0 .. k /\ (a # None => Named(a) /\ a \in 1 .. k) /\ (a = None => \A j \in 1 .. k : ~Named(j))
        /\ b \in 0 .. p /\ (b # None => Named(b) /\ b \in 1 .. p) /\ (b = None => \A j \in 1 .. p : ~Named(j))
    BY <1>1, <1>4, <2>1, <2>4
  <2>6. a = b
    BY <1>3, <2>2, <2>3, <2>5
  <2> QED
    BY <2>1, <2>4, <2>6
<1>6. Witness = [k \in 0 .. Len(stack) |-> Body1(Witness, k)]
  <2>1. ASSUME NEW k \in 0 .. Len(stack)
        PROVE  Witness[k] = Body1(Witness, k)
    <3>1. CASE k = None
      <4>1. Found(k) = None
        BY <1>1, <1>4, <3>1
      <4> QED
        BY <3>1, <4>1
    <3>2. CASE Named(k)
      <4>1. Found(k) = k
        BY <1>4, <3>2
      <4> QED
        BY <3>2, <4>1
    <3>3. CASE k # None /\ ~Named(k)
      <4>1. k \in 1 .. Len(stack) /\ stack[k].identity # id
        BY <1>1, <3>3
      <4>2. Body1(Witness, k) = Witness[stack[k].parent]
        BY <3>3, <4>1
      <4>3. PICK p : p = stack[k].parent
        OBVIOUS
      <4>4. p \in 0 .. Len(stack)
        BY <1>2, <4>1, <4>3
      <4>5. CASE Full(stack[k])
        <5>1. Witness[k] = Found(k) /\ Found(k) = Found(p)
          BY <1>5, <3>3, <4>1, <4>3, <4>5
        <5>2. p = None \/ Full(stack[p])
          BY <1>2, <4>1, <4>3, <4>5
        <5>3. Witness[p] = Found(p)
          BY <4>4, <5>2
        <5> QED
          BY <4>2, <4>3, <5>1, <5>3
      <4>6. CASE ~Full(stack[k])
        <5>1. Witness[k] = None /\ p = None
          BY <1>2, <3>3, <4>1, <4>3, <4>6
        <5>2. Found(p) = None /\ Witness[p] = Found(p)
          BY <1>1, <1>4, <4>4, <5>1
        <5> QED
          BY <4>2, <4>3, <5>1, <5>2
      <4> QED
        BY <4>5, <4>6
    <3> QED
      BY <3>1, <3>2, <3>3
  <2> QED
    BY <2>1
<1> HIDE DEF Witness
<1>7. Seek = [k \in 0 .. Len(stack) |-> Body1(Seek, k)]
  BY <1>6
<1>8. FrameOf(vaFrame, id) = Seek[vaFrame]
  BY DEF FrameOf
<1> HIDE DEF Seek
<1>9. ASSUME NEW k \in 0 .. Len(stack)
      PROVE  Seek[k] = Witness[k]
  <2> DEFINE Differ == {j \in 0 .. Len(stack) : Seek[j] # Witness[j]}
             less == {p \in Nat \X Nat : p[1] < p[2]}
  <2>1. IsWellFoundedOn(less, Nat)
    BY NatLessThanWellFounded, Zenon DEF OpToRel
  <2>2. Differ \subseteq Nat
    BY <1>1
  <2>3. \A e, d \in Nat : ~(<<e, d>> \in less) => ~(e < d)
    OBVIOUS
  <2> HIDE DEF less
  <2>4. ASSUME Differ # {}
        PROVE  FALSE
    <3>0. \E j \in Differ : \A e \in Differ : ~(<<e, j>> \in less)
      BY <2>1, <2>2, <2>4, WFMin
    <3>1. PICK j \in Differ : \A e \in Differ : ~(e < j)
      BY <2>2, <2>3, <3>0
    <3>2. j \in 0 .. Len(stack) /\ Seek[j] # Witness[j]
      OBVIOUS
    <3>3. Seek[j] = Body1(Seek, j) /\ Witness[j] = Body1(Witness, j)
      BY <1>6, <1>7, <3>2
    <3>4. j # None /\ stack[j].identity # id
      BY <3>2, <3>3
    <3>5. j \in 1 .. Len(stack)
      BY <1>1, <3>2, <3>4
    <3>6. PICK p : p = stack[j].parent
      OBVIOUS
    <3>7. p \in 0 .. j - 1 /\ p \in 0 .. Len(stack)
      BY <1>2, <3>5, <3>6
    <3>8. p < j
      BY <1>1, <3>5, <3>7
    <3>9. Seek[p] = Witness[p]
      BY <3>1, <3>7, <3>8
    <3> QED
      BY <3>2, <3>3, <3>4, <3>6, <3>9
  <2> QED
    BY <2>4
<1>10. vaFrame \in 0 .. Len(stack) /\ (vaFrame # None => Full(stack[vaFrame])) /\ \A j \in vaFrame + 1 .. Len(stack) : ~Full(stack[j])
  BY DEF Nested, InnermostFull
<1>11. PICK r : r = FrameOf(vaFrame, id)
  OBVIOUS
<1>12. r = Found(vaFrame)
  <2>1. r = Witness[vaFrame]
    BY <1>8, <1>9, <1>10, <1>11
  <2> QED
    BY <1>10, <2>1 DEF Witness
<1>13. /\ r \in 0 .. vaFrame /\ (r # None => Named(r)) /\ (r = None => \A j \in 1 .. vaFrame : ~Named(j))
  BY <1>4, <1>10, <1>12
<1>14. r \in 0 .. Len(stack)
  BY <1>1, <1>10, <1>13
<1>15. ASSUME NEW j \in 1 .. Len(stack), Named(j), r = None
       PROVE  FALSE
  <2>1. Full(stack[j])
    BY <1>2, <1>15
  <2>2. ~(vaFrame < j)
    <3>1. vaFrame < j => j \in vaFrame + 1 .. Len(stack)
      BY <1>1, <1>10
    <3> QED
      BY <1>10, <2>1, <3>1
  <2>3. j \in 1 .. vaFrame
    BY <1>1, <1>10, <2>2
  <2> QED
    BY <1>13, <1>15, <2>3
<1> QED
  BY <1>11, <1>13, <1>14, <1>15

\* va_read finds the frame of the list's own call, unless that is over or the list is used up.
LEMMA Reading ==
  ASSUME IndInv, NEW l \in Lists, NEW ending \in BOOLEAN
  PROVE  \E n \in 0 .. Len(stack) :
           /\ n = ReadFrame(lists[l], ending)
           /\ n # None => /\ stack[n].identity = lists[l].id /\ lists[l].id # None /\ truth[l].of # None
                          /\ stack[n].number = truth[l].of /\ Full(stack[n])
                          /\ lists[l].at <= Len(Unnamed(stack[n])) /\ (lists[l].at # Consumed \/ ending)
           /\ n = None => \/ lists[l].id = None
                          \/ \A j \in 1 .. Len(stack) : stack[j].identity # lists[l].id
                          \/ lists[l].at = Consumed /\ ~ending
<1>1. /\ TypeOK /\ CallsInv /\ Nested(stack, Len(stack), frame, vaFrame) /\ Stands(lists[l], truth[l], stack)
      /\ Len(stack) \in Nat
  BY StackParts DEF IndInv, NestInv, ListInv
<1>2. PICK list, t : list = lists[l] /\ t = truth[l]
  OBVIOUS
<1>3. CASE list.id = None
  <2>1. ReadFrame(list, ending) = None
    BY <1>3 DEF ReadFrame
  <2>2. None \in 0 .. Len(stack)
    BY <1>1 DEF None
  <2> QED
    BY <1>2, <1>3, <2>1, <2>2
<1>4. CASE list.id # None
  <2>1. PICK r \in 0 .. Len(stack) : /\ r = FrameOf(vaFrame, list.id)
                                     /\ r # None => stack[r].identity = list.id
                                     /\ r = None => \A j \in 1 .. Len(stack) : stack[j].identity # list.id
    BY <1>1, <1>4, Search
  <2>2. CASE r = None
    <3>1. ReadFrame(list, ending) = None
      BY <1>4, <2>1, <2>2 DEF ReadFrame
    <3> QED
      BY <1>2, <2>1, <2>2, <3>1
  <2>3. CASE r # None
    <3>1. r \in 1 .. Len(stack)
      BY <1>1, <2>3 DEF None
    <3>2. CallOK(stack[r]) /\ stack[r] \in Call
      BY <1>1, <3>1, StackParts DEF CallsInv
    <3>3. Full(stack[r]) /\ stack[r].fn \in Fns
      BY <1>4, <2>1, <2>3, <3>2 DEF CallOK, Full
    <3>4. Len(Unnamed(stack[r])) \in Nat
      BY <3>2, <3>3, SuppliedParts DEF CallOK, Full
    <3>5. /\ t.of # None /\ stack[r].number = t.of
          /\ list.at # Consumed => list.at <= Len(Unnamed(stack[r]))
      BY <1>1, <1>2, <1>4, <2>1, <2>3, <3>1 DEF Stands
    <3>6. list.at \in Nat \cup {Consumed} /\ Consumed = -1
      BY <1>1, <1>2 DEF TypeOK, Consumed
    <3>7. list.at <= Len(Unnamed(stack[r])) /\ ~(list.at > Len(Unnamed(stack[r])))
      BY <3>4, <3>5, <3>6
    <3>8. CASE list.at = Consumed /\ ~ending
      <4>1. ReadFrame(list, ending) = None
        BY <1>4, <2>1, <2>3, <3>8 DEF ReadFrame
      <4>2. None \in 0 .. Len(stack)
        BY <1>1 DEF None
      <4> QED
        BY <1>2, <3>8, <4>1, <4>2
    <3>9. CASE ~(list.at = Consumed /\ ~ending)
      <4>1. ReadFrame(list, ending) = r
        BY <1>4, <2>1, <2>3, <3>7, <3>9 DEF ReadFrame
      <4> QED
        BY <1>2, <1>4, <2>1, <2>3, <3>3, <3>5, <3>7, <3>9, <4>1
    <3> QED
      BY <3>8, <3>9
  <2> QED
    BY <2>2, <2>3
<1> QED
  BY <1>3, <1>4

\* A use of <stdarg.h> after which the list stands for what it should.
LEMMA UsesIndInv ==
  ASSUME IndInv, NEW l \in Lists, NEW found \in BOOLEAN, NEW list, NEW stands, Uses(l, found, list, stands),
         found => /\ list \in [id : Nat, at : Nat \cup {Consumed}] /\ stands \in [of : Nat, at : Nat \cup {Consumed}]
                  /\ Stands(list, stands, stack)
  PROVE  IndInv'
<1>1. /\ TypeOK /\ CallsInv /\ NestInv /\ FrameInv /\ ListInv /\ ~failed
      /\ failed' = ~found /\ UNCHANGED <<stack, spare, frames, frame, vaFrame, address, depth, calls, entries>>
  BY DEF IndInv, Uses, Evaluating
<1>2. /\ \A m \in Lists : lists'[m] = (IF found /\ m = l THEN list ELSE lists[m])
      /\ \A m \in Lists : truth'[m] = (IF found /\ m = l THEN stands ELSE truth[m])
      /\ lists' \in [Lists -> [id : Nat, at : Nat \cup {Consumed}]] /\ truth' \in [Lists -> [of : Nat, at : Nat \cup {Consumed}]]
  <2>1. lists \in [Lists -> [id : Nat, at : Nat \cup {Consumed}]] /\ truth \in [Lists -> [of : Nat, at : Nat \cup {Consumed}]]
    BY <1>1 DEF TypeOK
  <2>2. CASE found
    <3>1. lists' = [lists EXCEPT ![l] = list] /\ truth' = [truth EXCEPT ![l] = stands]
      BY <2>2 DEF Uses
    <3> QED
      BY <2>1, <2>2, <3>1
  <2>3. CASE ~found
    <3>1. lists' = lists /\ truth' = truth
      BY <2>3 DEF Uses
    <3> QED
      BY <2>1, <2>3, <3>1
  <2> QED
    BY <2>2, <2>3
<1>3. ASSUME NEW m \in Lists
      PROVE  Stands(lists[m], truth[m], stack)'
  <2>1. PICK a, t : a = lists'[m] /\ t = truth'[m]
    OBVIOUS
  <2>2. Stands(a, t, stack)
    <3>1. Stands(lists[m], truth[m], stack)
      BY <1>1 DEF ListInv
    <3> QED
      BY <1>2, <2>1, <3>1
  <2> QED
    BY <1>1, <2>1, <2>2 DEF Stands, Unnamed
<1>4. TypeOK'
  BY <1>1, <1>2 DEF TypeOK
<1>5. CallsInv'
  BY <1>1 DEF CallsInv, CallOK, Full
<1>6. NestInv'
  BY <1>1 DEF NestInv, Nested, InnermostSlot, InnermostFull, Slot, Full
<1>7. FrameInv'
  <2>1. PICK s, sp, fr : s = stack /\ s = stack' /\ sp = spare /\ sp = spare' /\ fr = frames /\ fr = frames'
    BY <1>1
  <2>2. /\ Partition(sp, InUse(s), Len(fr))
        /\ \A i, j \in 1 .. Len(s) : i # j /\ s[i].frame # None => s[i].frame # s[j].frame
        /\ \A i \in 1 .. Len(s) : s[i].frame # None => Holds(fr[s[i].frame], Content(s[i]))
    BY <1>1, <2>1 DEF FrameInv
  <2>3. Partition(spare, InUse(stack), Len(frames))'
    BY <2>1, <2>2 DEF Partition, InUse
  <2>4. \A i \in 1 .. Len(stack') : stack'[i].frame # None => Holds(frames[stack[i].frame], Content(stack[i]))'
    BY <2>1, <2>2 DEF Holds, Content
  <2> QED
    BY <2>1, <2>2, <2>3, <2>4 DEF FrameInv
<1> QED
  BY <1>3, <1>4, <1>5, <1>6, <1>7 DEF IndInv, ListInv

\* va_start.
LEMMA VaStartIndInv ==
  ASSUME IndInv, NEW l \in Lists, VaStart(l)
  PROVE  IndInv'
<1>1. /\ TypeOK /\ CallsInv /\ Evaluating /\ InProgress # {} /\ stack[Body].fn \notin Simple
  BY DEF IndInv, VaStart, Evaluating
<1>2. PICK b : b = Body
  OBVIOUS
<1>3. b = vaFrame /\ Full(stack[b]) /\ b \in 1 .. Len(stack) /\ stack[b] \in Call
  BY <1>1, <1>2, BodyIs, BodyIsCurrent
<1>4. CallOK(stack[b]) /\ address \in Nat /\ calls \in Nat
  BY <1>1, <1>3 DEF CallsInv, TypeOK
<1>0. PICK found \in BOOLEAN : found = (vaFrame # None /\ stack[vaFrame].fn \in Variadic /\ Parameters[stack[vaFrame].fn] > 0)
  OBVIOUS
<1>5. PICK list, stands :
        /\ list = [id |-> stack[vaFrame].identity, at |-> 0] /\ stands = [of |-> stack[Body].number, at |-> 0]
        /\ found = (vaFrame # None /\ stack[vaFrame].fn \in Variadic /\ Parameters[stack[vaFrame].fn] > 0)
  BY <1>0
<1>6. Uses(l, found, list, stands)
  BY <1>5 DEF VaStart
<1>7. list.id = stack[b].identity /\ list.at = 0 /\ stands.of = stack[b].number /\ stands.at = 0
  BY <1>2, <1>3, <1>5
<1>8. list \in [id : Nat, at : Nat \cup {Consumed}] /\ stands \in [of : Nat, at : Nat \cup {Consumed}]
  <2>1. stack[b].identity \in Nat /\ stack[b].number \in Nat /\ 0 \in Nat \cup {Consumed}
    BY <1>3 DEF Call
  <2> QED
    BY <1>2, <1>3, <1>5, <2>1
<1>9. ASSUME found
      PROVE  Stands(list, stands, stack)
  <2>1. stack[b].identity # None /\ stack[b].identity < address /\ stack[b].number # None /\ stack[b].number <= calls
    BY <1>3, <1>4, <1>5, <1>9 DEF CallOK
  <2>2. ASSUME NEW i \in 1 .. Len(stack)
        PROVE  /\ stack[i].identity = list.id <=> stack[i].number = stands.of
               /\ stack[i].identity = list.id /\ list.at # Consumed => list.at <= Len(Unnamed(stack[i]))
    <3>1. CASE i = b
      <4>1. Len(Unnamed(stack[b])) \in Nat
        BY <1>3, <1>4, SuppliedParts DEF CallOK, Full
      <4> QED
        BY <1>7, <3>1, <4>1
    <3>2. CASE i # b
      BY <1>1, <1>3, <1>7, <2>1, <3>2 DEF CallsInv
    <3> QED
      BY <3>1, <3>2
  <2> QED
    BY <1>7, <2>1, <2>2 DEF Stands
<1> QED
  BY <1>6, <1>8, <1>9, UsesIndInv

\* va_copy, va_end and formatted output.
LEMMA VaListIndInv ==
  ASSUME IndInv, NEW l \in Lists,
         \/ \E from \in Lists : VaCopy(l, from)
         \/ VaEnd(l)
         \/ VaFormatted(l)
  PROVE  IndInv'
<1>1. ASSUME NEW m \in Lists
      PROVE  /\ Stands(lists[m], truth[m], stack)
             /\ lists[m] \in [id : Nat, at : Nat \cup {Consumed}] /\ truth[m] \in [of : Nat, at : Nat \cup {Consumed}]
  BY DEF IndInv, ListInv, TypeOK
<1>2. ASSUME NEW from \in Lists, VaCopy(l, from)
      PROVE  IndInv'
  <2>0. PICK found \in BOOLEAN : found = (ReadFrame(lists[from], FALSE) # None)
    OBVIOUS
  <2>1. PICK list, stands : found = (ReadFrame(lists[from], FALSE) # None) /\ list = lists[from] /\ stands = truth[from]
    BY <2>0
  <2>2. Uses(l, found, list, stands)
    BY <1>2, <2>1 DEF VaCopy
  <2> QED
    BY <1>1, <2>1, <2>2, UsesIndInv
<1>3. CASE VaEnd(l)
  <2>0. PICK found \in BOOLEAN : found = (ReadFrame(lists[l], TRUE) # None)
    OBVIOUS
  <2>1. PICK list, stands : found = (ReadFrame(lists[l], TRUE) # None) /\ list = Unset /\ stands = Nothing
    BY <2>0
  <2>2. Uses(l, found, list, stands)
    BY <1>3, <2>1 DEF VaEnd
  <2>3. /\ Stands(list, stands, stack)
        /\ list \in [id : Nat, at : Nat \cup {Consumed}] /\ stands \in [of : Nat, at : Nat \cup {Consumed}]
    BY <2>1 DEF Stands, Unset, Nothing, None
  <2> QED
    BY <2>2, <2>3, UsesIndInv
<1>4. CASE VaFormatted(l)
  <2>0. PICK found \in BOOLEAN : found = (ReadFrame(lists[l], FALSE) # None)
    OBVIOUS
  <2>1. PICK list, stands :
          /\ found = (ReadFrame(lists[l], FALSE) # None)
          /\ list = [lists[l] EXCEPT !.at = Consumed] /\ stands = [truth[l] EXCEPT !.at = Consumed]
    BY <2>0
  <2>2. Uses(l, found, list, stands)
    BY <1>4, <2>1 DEF VaFormatted
  <2>3. /\ list.id = lists[l].id /\ list.at = Consumed /\ stands.of = truth[l].of /\ stands.at = Consumed
        /\ list \in [id : Nat, at : Nat \cup {Consumed}] /\ stands \in [of : Nat, at : Nat \cup {Consumed}]
    BY <1>1, <2>1
  <2>4. Stands(list, stands, stack)
    BY <1>1, <2>3 DEF Stands
  <2> QED
    BY <2>2, <2>3, <2>4, UsesIndInv
<1> QED
  BY <1>2, <1>3, <1>4

\* va_arg: the cursor moves behind the argument that was read.
LEMMA VaArgIndInv ==
  ASSUME IndInv, NEW l \in Lists, NEW type, VaArg(l, type)
  PROVE  IndInv'
<1>1. /\ Stands(lists[l], truth[l], stack) /\ TypeOK /\ CallsInv /\ Len(stack) \in Nat
      /\ lists[l] \in [id : Nat, at : Nat \cup {Consumed}] /\ truth[l] \in [of : Nat, at : Nat \cup {Consumed}]
  BY StackParts DEF IndInv, ListInv, TypeOK
<1>0. PICK found \in BOOLEAN : found = Accepts(lists[l], type)
  BY DEF Accepts
<1>2. PICK list, stands :
        /\ found = Accepts(lists[l], type)
        /\ list = [lists[l] EXCEPT !.at = @ + 1] /\ stands = [truth[l] EXCEPT !.at = @ + 1]
  BY <1>0
<1>3. Uses(l, found, list, stands)
  BY <1>2 DEF VaArg
<1>4. ASSUME found
      PROVE  /\ list \in [id : Nat, at : Nat \cup {Consumed}] /\ stands \in [of : Nat, at : Nat \cup {Consumed}]
             /\ Stands(list, stands, stack)
  <2>1. PICK n \in 0 .. Len(stack) :
          /\ n = ReadFrame(lists[l], FALSE)
          /\ n # None => /\ stack[n].identity = lists[l].id /\ lists[l].id # None /\ truth[l].of # None
                         /\ stack[n].number = truth[l].of /\ Full(stack[n])
                         /\ lists[l].at <= Len(Unnamed(stack[n])) /\ (lists[l].at # Consumed \/ FALSE)
    BY Reading
  <2>2. n # None /\ lists[l].at < Len(Unnamed(stack[n]))
    BY <1>2, <1>4, <2>1 DEF Accepts
  <2>3. n \in 1 .. Len(stack) /\ lists[l].at \in Nat /\ lists[l].id # None
    <3>1. lists[l].at # Consumed /\ lists[l].id # None
      BY <2>1, <2>2
    <3>2. lists[l].at \in Nat \cup {Consumed}
      BY <1>1
    <3>3. n \in 1 .. Len(stack)
      BY <1>1, <2>2 DEF None
    <3> QED
      BY <3>1, <3>2, <3>3
  <2>4. truth[l].at = lists[l].at /\ truth[l].at \in Nat
    BY <1>1, <2>3 DEF Stands
  <2>5. /\ list.id = lists[l].id /\ list.at = lists[l].at + 1 /\ stands.of = truth[l].of /\ stands.at = lists[l].at + 1
        /\ list \in [id : Nat, at : Nat \cup {Consumed}] /\ stands \in [of : Nat, at : Nat \cup {Consumed}]
    BY <1>1, <1>2, <2>3, <2>4
  <2>6. Len(Unnamed(stack[n])) \in Nat
    <3>1. CallOK(stack[n]) /\ stack[n] \in Call /\ Full(stack[n])
      BY <1>1, <2>1, <2>2, <2>3, StackParts DEF CallsInv
    <3> QED
      BY <3>1, SuppliedParts DEF CallOK, Full
  <2>7. ASSUME NEW i \in 1 .. Len(stack)
        PROVE  /\ stack[i].identity = list.id <=> stack[i].number = stands.of
               /\ stack[i].identity = list.id /\ list.at # Consumed => list.at <= Len(Unnamed(stack[i]))
    <3>1. stack[i].identity = lists[l].id <=> stack[i].number = truth[l].of
      BY <1>1, <2>3 DEF Stands
    <3>2. stack[i].identity = lists[l].id => i = n
      BY <1>1, <2>1, <2>2, <2>3 DEF CallsInv
    <3>3. list.at <= Len(Unnamed(stack[n]))
      BY <2>2, <2>3, <2>5, <2>6
    <3> QED
      BY <2>5, <3>1, <3>2, <3>3
  <2> QED
    BY <1>1, <2>3, <2>5, <2>7 DEF Stands
<1> QED
  BY <1>3, <1>4, UsesIndInv

-----------------------------------------------------------------------------
(* Leaving. *)

\* The innermost call is over: what it replaced is current again.
LEMMA LeftIndInv ==
  ASSUME IndInv, stack # <<>>, Left(Top), UNCHANGED failed
  PROVE  IndInv'
<1>1. /\ TypeOK /\ CallsInv /\ NestInv /\ FrameInv /\ ListInv
      /\ stack' = Front(stack) /\ spare' = Given(Top.fn, Top.frame)
      /\ UNCHANGED <<frames, address, lists, calls, entries, truth, failed>>
  BY DEF IndInv, Left
<1>2. PICK n \in Nat : n = Len(stack) - 1
  BY StackParts DEF IndInv
<1>3. /\ Len(stack) \in Nat /\ stack \in Seq(Call) /\ n + 1 = Len(stack) /\ n + 1 \in 1 .. Len(stack) /\ Top = stack[n + 1] /\ Top \in Call
      /\ \A i \in 1 .. n : i \in 1 .. Len(stack)
  BY <1>1, <1>2, StackParts DEF TypeOK
<1>4. stack' \in Seq(Call) /\ Len(stack') = n /\ \A i \in 1 .. n : stack'[i] = stack[i]
  BY <1>1, <1>2, <1>3, FrontProperties
<1>5. CallOK(Top) /\ \A i \in 1 .. n : CallOK(stack[i])
  BY <1>1, <1>3 DEF CallsInv
<1>6. CallsInv'
  <2>1. ASSUME NEW i \in 1 .. n
        PROVE  CallOK(stack[i])'
    <3>1. CallOK(stack[i]) /\ stack'[i] = stack[i]
      BY <1>4, <1>5
    <3> QED
      BY <1>1, <3>1 DEF CallOK, Full
  <2>2. \A i, j \in 1 .. n : i # j =>
          /\ stack[i].number # stack[j].number
          /\ stack[i].identity # None => stack[i].identity # stack[j].identity
    BY <1>1, <1>3 DEF CallsInv
  <2> QED
    BY <1>4, <2>1, <2>2 DEF CallsInv
<1>7. ListInv'
  <2>1. ASSUME NEW l \in Lists
        PROVE  Stands(lists[l], truth[l], stack)'
    <3>1. Stands(lists[l], truth[l], stack)
      BY <1>1 DEF ListInv
    <3>2. \A i \in 1 .. n : Unnamed(stack[i])' = Unnamed(stack[i])
      BY <1>4 DEF Unnamed
    <3> QED
      BY <1>1, <1>3, <1>4, <3>1, <3>2 DEF Stands
  <2> QED
    BY <2>1 DEF ListInv
<1>8. NestInv'
  <2>1. PICK m \in Nat \ {0} : m = Len(stack) /\ m - 1 = n
    BY <1>2, <1>3
  <2>2. PICK fr, va : /\ fr = (IF Slot(stack[m]) THEN stack[m].outer ELSE frame)
                      /\ va = (IF Full(stack[m]) THEN stack[m].parent ELSE vaFrame)
    OBVIOUS
  <2>3. Nested(stack, m, frame, vaFrame)
    BY <1>1, <2>1 DEF NestInv
  <2>4. Nested(stack, m - 1, fr, va)
    BY <2>2, <2>3, NestDrop
  <2>5. Nested(stack, n, fr, va)
    BY <2>1, <2>4
  <2>6. frame' = fr /\ vaFrame' = va /\ depth' = n
    BY <1>1, <1>3, <2>1, <2>2 DEF Left, ArgumentFrameAfter, Slot, Full, NestInv
  <2>7. PICK t : t = stack'
    OBVIOUS
  <2>8. \A i \in 1 .. n : t[i] = stack[i]
    BY <1>4, <2>7
  <2>9. Nested(t, n, fr, va)
    BY <2>5, <2>8, NestKept
  <2> QED
    BY <1>4, <2>6, <2>7, <2>9 DEF NestInv, Nested, InnermostSlot, InnermostFull, Slot, Full
<1>9. spare' \in [Fns -> Seq(Nat)] /\ Partition(spare', Below(n), Len(frames))
  <2>1. /\ InUse(stack) = Below(n) \cup ({Top.frame} \ {None}) /\ (Top.frame # None => Top.frame \notin Below(n))
        /\ Partition(spare, InUse(stack), Len(frames)) /\ spare \in [Fns -> Seq(Nat)]
    BY <1>1, <1>2, <1>3, BelowIs DEF FrameInv, TypeOK
  <2>2. CASE Top.frame = None
    <3>1. spare' = spare /\ InUse(stack) = Below(n)
      BY <1>1, <2>1, <2>2 DEF Given
    <3> QED
      BY <2>1, <3>1
  <2>3. CASE Top.frame # None
    <3>1. Top.fn \in Fns
      BY <1>5, <2>3, CallsAssumption DEF CallOK
    <3>2. InUse(stack) = Below(n) \cup {Top.frame} /\ Top.frame \notin Below(n)
      BY <2>1, <2>3
    <3>3. Top.frame \in 1 .. Len(frames) /\ Partition(spare, Below(n) \cup {Top.frame}, Len(frames))
      BY <2>1, <3>2 DEF Partition
    <3> QED
      BY <1>1, <3>1, <3>2, <3>3, Giving
  <2> QED
    BY <2>2, <2>3
<1>10. FrameInv'
  <2>1. InUse(stack)' = Below(n)
    BY <1>4 DEF InUse, Below
  <2>2. PICK sp, st, fr : sp = spare' /\ st = stack' /\ fr = frames'
    OBVIOUS
  <2>3. Partition(sp, InUse(st), Len(fr))
    BY <1>1, <1>9, <2>1, <2>2 DEF InUse
  <2>4. Partition(spare, InUse(stack), Len(frames))'
    BY <2>2, <2>3 DEF Partition, InUse
  <2>5. \A i, j \in 1 .. n : i # j /\ stack[i].frame # None => stack[i].frame # stack[j].frame
    BY <1>1, <1>3 DEF FrameInv
  <2>6. ~failed => \A i \in 1 .. n : stack[i].frame # None => Holds(frames[stack[i].frame], Content(stack[i]))
    BY <1>1, <1>3 DEF FrameInv
  <2>7. ~failed' => \A i \in 1 .. n : stack'[i].frame # None => Holds(frames[stack[i].frame], Content(stack[i]))'
    BY <1>1, <1>4, <2>6 DEF Holds, Content
  <2> QED
    BY <1>4, <2>4, <2>5, <2>7 DEF FrameInv
<1>11. TypeOK'
  <2>1. frame' \in Nat /\ vaFrame' \in Nat
    BY <1>1, <1>3 DEF TypeOK, Call, Left, ArgumentFrameAfter
  <2>2. depth' = n /\ n \in Nat
    BY <1>1, <1>3 DEF NestInv, Left
  <2> QED
    BY <1>1, <1>4, <1>9, <2>1, <2>2 DEF TypeOK
<1> QED
  BY <1>6, <1>7, <1>8, <1>10, <1>11 DEF IndInv

-----------------------------------------------------------------------------
(* The theorems. *)

\* Before the first call nothing is in use and no list is set.
LEMMA InitIndInv == Init => IndInv
<1> SUFFICES ASSUME Init
             PROVE  IndInv
  OBVIOUS
<1>1. /\ stack = <<>> /\ Len(stack) = 0 /\ spare = [f \in Fns |-> <<>>] /\ frames = <<>> /\ Len(frames) = 0
      /\ frame = None /\ vaFrame = None /\ address = 1 /\ depth = 0 /\ calls = 0 /\ entries = 1 /\ failed = FALSE
      /\ \A l \in Lists : lists[l] = Unset /\ truth[l] = Nothing
      /\ \A i \in 1 .. Len(stack) : FALSE
  BY DEF Init
<1>2. TypeOK
  <2>1. stack \in Seq(Call) /\ frames \in Seq(Seq(Value)) /\ <<>> \in Seq(Nat)
    BY <1>1, EmptySeq
  <2>2. spare \in [Fns -> Seq(Nat)]
    BY <1>1, <2>1
  <2>3. lists \in [Lists -> [id : Nat, at : Nat \cup {Consumed}]] /\ truth \in [Lists -> [of : Nat, at : Nat \cup {Consumed}]]
    BY DEF Init, Unset, Nothing, None
  <2>4. frame \in Nat /\ vaFrame \in Nat /\ address \in Nat \ {None} /\ failed \in BOOLEAN
    <3>1. failed \in BOOLEAN
      BY <1>1, Zenon
    <3>2. frame = 0 /\ vaFrame = 0 /\ address = 1 /\ None = 0
      BY DEF Init, None
    <3> QED
      BY <3>1, <3>2
  <2>5. {depth, calls, entries} \subseteq Nat
    BY <1>1
  <2> QED
    BY <2>1, <2>2, <2>3, <2>4, <2>5 DEF TypeOK
<1>3. CallsInv
  BY <1>1 DEF CallsInv
<1>4. NestInv
  <2>1. 0 \in 0 .. 0 /\ \A j \in 0 + 1 .. 0 : FALSE
    OBVIOUS
  <2> QED
    BY <1>1, <2>1 DEF NestInv, Nested, InnermostSlot, InnermostFull, None
<1>5. FrameInv
  <2>1. \A f \in Fns : spare[f] = <<>> /\ Len(spare[f]) = 0
    BY <1>1
  <2>2. \A m \in 1 .. 0 : FALSE
    OBVIOUS
  <2>3. InUse(stack) = {}
    BY <1>1 DEF InUse
  <2> QED
    BY <1>1, <2>1, <2>2, <2>3 DEF FrameInv, Partition
<1>6. ListInv
  BY <1>1 DEF ListInv, Stands, Unset, Nothing
<1> QED
  BY <1>2, <1>3, <1>4, <1>5, <1>6 DEF IndInv

\* Every step of the calls keeps the invariant.
LEMMA NextIndInv == IndInv /\ [Next]_vars => IndInv'
<1> SUFFICES ASSUME IndInv, [Next]_vars
             PROVE  IndInv'
  OBVIOUS
<1>1. failed \in BOOLEAN /\ entries \in Nat
  BY DEF IndInv, TypeOK
<1>2. ASSUME NEW f \in Fns \cup Library, NEW n \in Counts, StartCall(f, n)
      PROVE  IndInv'
  BY <1>2, StartCallIndInv
<1>3. CASE RefuseDepth \/ Fail
  BY <1>1, <1>3, SameCallsIndInv DEF RefuseDepth, Fail
<1>4. ASSUME NEW kind \in Kinds, Argument(kind)
      PROVE  IndInv'
  BY <1>4, ArgumentIndInv
<1>5. CASE EnterSimple
  BY <1>5, EnterSimpleIndInv
<1>6. CASE EnterLibrary
  BY <1>6, EnterLibraryIndInv
<1>7. CASE EnterFull
  BY <1>7, EnterFullIndInv
<1>8. ASSUME NEW f \in Fns, Callback(f)
      PROVE  IndInv'
  BY <1>8, CallbackIndInv
<1>9. CASE Assign
  BY <1>9, AssignIndInv
<1>10. ASSUME NEW l \in Lists, VaStart(l)
       PROVE  IndInv'
  BY <1>10, VaStartIndInv
<1>11. ASSUME NEW l \in Lists, VaEnd(l) \/ VaFormatted(l) \/ \E from \in Lists : VaCopy(l, from)
       PROVE  IndInv'
  BY <1>11, VaListIndInv
<1>12. ASSUME NEW l \in Lists, NEW t \in {"int", "unsigned", "struct"}, VaArg(l, t)
       PROVE  IndInv'
  BY <1>12, VaArgIndInv
<1>13. CASE Return \/ Unwind
  BY <1>13, LeftIndInv DEF Return, Unwind, Running
<1>14. CASE NextEntry
  <2>1. entries' \in Nat
    BY <1>1, <1>14 DEF NextEntry
  <2> QED
    BY <1>14, <2>1, SameCallsIndInv DEF NextEntry
<1>15. CASE UNCHANGED vars
  BY <1>1, <1>15, SameCallsIndInv DEF vars
<1> QED
  BY <1>2, <1>3, <1>4, <1>5, <1>6, <1>7, <1>8, <1>9, <1>10, <1>11, <1>12, <1>13, <1>14, <1>15 DEF Next

\* The calls in progress nest: each replaced what was current below it, uses a frame of its own that
\* holds what it was given and what it assigned, and has an identity no other call ever had; and
\* every va_list stands for the call that started it and for as much of it as was read.
THEOREM Invariance == Spec => []IndInv
<1>1. Init => IndInv
  BY InitIndInv
<1>2. IndInv /\ [Next]_vars => IndInv'
  BY NextIndInv
<1> QED
  BY <1>1, <1>2, PTL DEF Spec

\* A va_list is read as <stdarg.h> says: the identity it holds finds the call that started it while
\* that call is in progress, and never another (va_read).
THEOREM ListsFindTheirCall == Spec => []ListsNameTheirCall
<1>1. ASSUME IndInv
      PROVE  ListsNameTheirCall
  <2>1. ASSUME NEW l \in Lists
        PROVE  LET t == truth[l]
                   n == ReadFrame(lists[l], FALSE)
               IN  IF t.of = None \/ t.at = Consumed \/ CallOf(t.of) = {} THEN n = None
                   ELSE n \in CallOf(t.of) /\ lists[l].at = t.at
    <3>1. /\ Stands(lists[l], truth[l], stack) /\ Len(stack) \in Nat /\ DOMAIN stack = 1 .. Len(stack)
          /\ \A i \in 1 .. Len(stack) : CallOK(stack[i])
      BY <1>1, StackParts, LenProperties DEF IndInv, ListInv, CallsInv, TypeOK
    <3>2. PICK n \in 0 .. Len(stack) :
           /\ n = ReadFrame(lists[l], FALSE)
           /\ n # None => /\ stack[n].identity = lists[l].id /\ lists[l].id # None /\ truth[l].of # None
                          /\ stack[n].number = truth[l].of /\ Full(stack[n])
                          /\ lists[l].at <= Len(Unnamed(stack[n])) /\ (lists[l].at # Consumed \/ FALSE)
           /\ n = None => \/ lists[l].id = None
                          \/ \A j \in 1 .. Len(stack) : stack[j].identity # lists[l].id
                          \/ lists[l].at = Consumed /\ ~FALSE
      BY <1>1, Reading
    <3>3. CASE n # None
      <4>0. n \in 1 .. Len(stack)
        BY <3>1, <3>3 DEF None
      <4>1. n \in 1 .. Len(stack) /\ stack[n].state = "running"
        BY <3>2, <3>3, <4>0 DEF Full
      <4>2. n \in CallOf(truth[l].of)
        BY <3>1, <3>2, <3>3, <4>1 DEF CallOf, InProgress
      <4>3. lists[l].at = truth[l].at /\ truth[l].of # None /\ truth[l].at # Consumed
        BY <3>1, <3>2, <3>3 DEF Stands
      <4> QED
        BY <3>2, <4>2, <4>3
    <3>4. CASE n = None
      <4>1. ASSUME truth[l].of # None, truth[l].at # Consumed, NEW i \in CallOf(truth[l].of)
            PROVE  FALSE
        <5>1. i \in 1 .. Len(stack) /\ stack[i].number = truth[l].of
          BY <3>1 DEF CallOf, InProgress
        <5>2. lists[l].id # None /\ stack[i].identity = lists[l].id /\ lists[l].at # Consumed
          BY <3>1, <4>1, <5>1 DEF Stands
        <5> QED
          BY <3>2, <3>4, <5>1, <5>2
      <4> QED
        BY <3>2, <3>4, <4>1
    <3> QED
      BY <3>3, <3>4
  <2> QED
    BY <2>1 DEF ListsNameTheirCall
<1> QED
  BY <1>1, Invariance, PTL

\* No two calls share a frame, no spare frame is in use, and a call finds in its frame what it was
\* given and what it assigned (frame_take, frame_give).
THEOREM FramesStayPrivate == Spec => []FramesPrivate
<1>1. ASSUME IndInv
      PROVE  FramesPrivate
  <2>1. /\ TypeOK /\ FrameInv /\ DOMAIN stack = 1 .. Len(stack) /\ \A i \in 1 .. Len(stack) : stack[i] \in Call
        /\ \A f \in Fns : spare[f] \in Seq(Nat) /\ DOMAIN spare[f] = 1 .. Len(spare[f])
    BY <1>1, StackParts, LenProperties DEF IndInv, TypeOK
  <2>2. \A i, j \in 1 .. Len(stack) : i # j /\ stack[i].frame # None => stack[i].frame # stack[j].frame
    BY <2>1 DEF FrameInv
  <2>3. ASSUME NEW i \in 1 .. Len(stack), NEW f \in Fns, stack[i].frame \in ToSet(spare[f])
        PROVE  FALSE
    <3>1. PICK k \in 1 .. Len(spare[f]) : spare[f][k] = stack[i].frame
      BY <2>1, <2>3 DEF ToSet
    <3>2. spare[f][k] \in (1 .. Len(frames)) \ InUse(stack)
      BY <2>1 DEF FrameInv, Partition
    <3>3. stack[i].frame # None
      BY <3>1, <3>2 DEF None
    <3> QED
      BY <3>1, <3>2, <3>3 DEF InUse
  <2>4. ASSUME NEW i \in 1 .. Len(stack), stack[i].frame # None, ~failed
        PROVE  IsPrefix(Content(stack[i]), frames[stack[i].frame])
    <3>1. PICK a, b : a = Content(stack[i]) /\ b = frames[stack[i].frame]
      OBVIOUS
    <3>2. Holds(b, a)
      BY <2>1, <2>4, <3>1 DEF FrameInv
    <3>3. stack[i].frame \in 1 .. Len(frames)
      BY <2>1, <2>4 DEF FrameInv, Partition, InUse
    <3>4. a \in Seq(Value) /\ b \in Seq(Value)
      <4>1. frames \in Seq(Seq(Value))
        BY <2>1 DEF TypeOK
      <4>2. b \in Seq(Value)
        BY <3>1, <3>3, <4>1, ElementOfSeq
      <4>3. stack[i].local \in Seq(Value) /\ stack[i].args \in Seq(Value)
        BY <2>1 DEF Call
      <4> QED
        BY <3>1, <4>2, <4>3 DEF Content
    <3>5. Len(a) \in Nat /\ Len(b) \in Nat /\ Len(a) <= Len(b) /\ \A k \in 1 .. Len(a) : b[k] = a[k]
      BY <3>2, <3>4, LenProperties DEF Holds
    <3>6. \A k \in 1 .. Len(a) : a[k] \in Value /\ b[k] \in Value
      BY <3>4, <3>5, ElementOfSeq
    <3>7. /\ SubSeq(a, 1, Len(a)) \in Seq(Value)
          /\ Len(SubSeq(a, 1, Len(a))) = IF 1 <= Len(a) THEN Len(a) - 1 + 1 ELSE 0
          /\ \A k \in 1 .. Len(a) - 1 + 1 : SubSeq(a, 1, Len(a))[k] = a[1 + k - 1]
      BY <3>5, <3>6, SubSeqProperties
    <3>8. /\ SubSeq(b, 1, Len(a)) \in Seq(Value)
          /\ Len(SubSeq(b, 1, Len(a))) = IF 1 <= Len(a) THEN Len(a) - 1 + 1 ELSE 0
          /\ \A k \in 1 .. Len(a) - 1 + 1 : SubSeq(b, 1, Len(a))[k] = b[1 + k - 1]
      BY <3>5, <3>6, SubSeqProperties
    <3>9. PICK s \in Seq(Value), t \in Seq(Value) : s = SubSeq(a, 1, Len(a)) /\ t = SubSeq(b, 1, Len(a))
      BY <3>7, <3>8
    <3>10. Len(s) = Len(t) /\ Len(s) = Len(a)
      BY <3>5, <3>7, <3>8, <3>9
    <3>11. ASSUME NEW k \in 1 .. Len(s)
           PROVE  s[k] = t[k]
      <4>1. k \in 1 .. Len(a) - 1 + 1 /\ 1 + k - 1 = k /\ k \in 1 .. Len(a)
        BY <3>5, <3>10
      <4> QED
        BY <3>5, <3>7, <3>8, <3>9, <4>1
    <3>12. s = t
      BY <3>10, <3>11, SeqEqual
    <3> QED
      BY <3>1, <3>5, <3>9, <3>12 DEF IsPrefix
  <2> QED
    BY <2>1, <2>2, <2>3, <2>4 DEF FramesPrivate, Content
<1> QED
  BY <1>1, Invariance, PTL

\* The innermost running call with private locals reads its own frame, the argument frame on top is
\* that of the innermost call through invoke, and an entry that is over leaves no frame in use.
THEOREM InnermostIsCurrent == Spec => []CurrentIsInnermost
<1>1. ASSUME IndInv
      PROVE  CurrentIsInnermost
  <2> DEFINE slotted == {i \in InProgress : stack[i].frame # None}
             full    == {i \in InProgress : stack[i].fn \in Fns /\ ~stack[i].direct}
  <2>1. /\ TypeOK /\ FrameInv /\ Nested(stack, Len(stack), frame, vaFrame) /\ depth = Len(stack)
        /\ Len(stack) \in Nat /\ DOMAIN stack = 1 .. Len(stack)
    BY <1>1, StackParts, LenProperties DEF IndInv, NestInv, TypeOK
  <2>2. /\ \A i : i \in slotted <=> i \in 1 .. Len(stack) /\ Slot(stack[i])
        /\ \A i : i \in full <=> i \in 1 .. Len(stack) /\ Full(stack[i])
    BY <2>1 DEF InProgress, Slot, Full
  <2>3. slotted \in SUBSET (1 .. Len(stack)) /\ full \in SUBSET (1 .. Len(stack))
    BY <2>2
  <2> HIDE DEF slotted, full
  <2>4. frame = IF slotted = {} THEN None ELSE stack[Max(slotted)].frame
    <3>1. InnermostSlot(stack, Len(stack), frame)
      BY <2>1 DEF Nested
    <3>2. CASE frame = None /\ \A i \in 1 .. Len(stack) : ~Slot(stack[i])
      BY <2>2, <3>2
    <3>3. ASSUME NEW i \in 1 .. Len(stack), Slot(stack[i]), frame = stack[i].frame,
                 \A j \in i + 1 .. Len(stack) : ~Slot(stack[j])
          PROVE  slotted # {} /\ frame = stack[Max(slotted)].frame
      <4>1. i \in slotted /\ \A j \in i + 1 .. Len(stack) : j \notin slotted
        BY <2>2, <3>3
      <4>2. Max(slotted) = i
        BY <2>1, <2>3, <4>1, InnermostIsMax
      <4> QED
        BY <3>3, <4>1, <4>2
    <3> QED
      BY <3>1, <3>2, <3>3 DEF InnermostSlot
  <2>5. vaFrame = Max(full \cup {None})
    <3>1. /\ vaFrame \in 0 .. Len(stack) /\ (vaFrame # None => Full(stack[vaFrame]))
          /\ \A j \in vaFrame + 1 .. Len(stack) : ~Full(stack[j])
      BY <2>1 DEF Nested, InnermostFull
    <3>2. CASE vaFrame = None
      <4>1. full = {}
        <5>1. \A j \in 1 .. Len(stack) : j \in vaFrame + 1 .. Len(stack)
          BY <2>1, <3>2 DEF None
        <5> QED
          BY <2>2, <3>1, <5>1
      <4>2. full \cup {None} = {0}
        BY <4>1 DEF None
      <4>3. Max({0}) = 0
        BY DEF Max
      <4> QED
        BY <3>2, <4>2, <4>3 DEF None
    <3>3. CASE vaFrame # None
      <4>1. vaFrame \in 1 .. Len(stack) /\ vaFrame \in full /\ \A j \in vaFrame + 1 .. Len(stack) : j \notin full
        BY <2>1, <2>2, <3>1, <3>3 DEF None
      <4> QED
        BY <2>1, <2>3, <4>1, InnermostIsMax
    <3> QED
      BY <3>2, <3>3
  <2>6. ASSUME stack = <<>>
        PROVE  Cardinality(UNION {ToSet(spare[f]) : f \in Fns}) = Len(frames)
    <3>1. InUse(stack) = {}
      <4>1. Len(stack) = 0 /\ \A i \in 1 .. Len(stack) : FALSE
        BY <2>6
      <4> QED
        BY <4>1 DEF InUse
    <3>2. Len(frames) \in Nat /\ \A f \in Fns : DOMAIN spare[f] = 1 .. Len(spare[f])
      BY <2>1, LenProperties DEF TypeOK
    <3>3. Partition(spare, {}, Len(frames))
      BY <2>1, <3>1 DEF FrameInv
    <3>4. \A f \in Fns : ToSet(spare[f]) \subseteq 1 .. Len(frames)
      BY <3>2, <3>3 DEF Partition, ToSet
    <3>5. ASSUME NEW m \in 1 .. Len(frames)
          PROVE  \E f \in Fns : m \in ToSet(spare[f])
      <4>1. PICK f \in Fns : \E k \in 1 .. Len(spare[f]) : spare[f][k] = m
        BY <3>3 DEF Partition
      <4> QED
        BY <3>2, <4>1 DEF ToSet
    <3>6. UNION {ToSet(spare[f]) : f \in Fns} = 1 .. Len(frames)
      BY <3>4, <3>5
    <3>7. Cardinality(1 .. Len(frames)) = IF 1 > Len(frames) THEN 0 ELSE Len(frames) - 1 + 1
      BY <3>2, FS_Interval
    <3>8. Cardinality(1 .. Len(frames)) = Len(frames)
      BY <3>2, <3>7
    <3> QED
      BY <3>6, <3>8
  <2> QED
    BY <2>1, <2>4, <2>5, <2>6 DEF CurrentIsInnermost, slotted, full
<1> QED
  BY <1>1, Invariance, PTL
=============================================================================
