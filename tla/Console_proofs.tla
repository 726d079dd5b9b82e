--------------------------- MODULE Console_proofs ---------------------------
(***************************************************************************)
(* Proofs about Console and its line editor, for any number of processes,  *)
(* lines and histories of any length, any settings and any files.          *)
(***************************************************************************)
EXTENDS Console, SequenceTheorems, WellFoundedInduction, TLAPS

-----------------------------------------------------------------------------
(* Numbers. *)

\* A set of natural numbers has a least one.
LEMMA LeastNatural ==
  ASSUME NEW T \in SUBSET Nat, T # {}
  PROVE  \E k \in T : \A l \in T : k <= l
<1> DEFINE less == {p \in Nat \X Nat : p[1] < p[2]}
<1>1. IsWellFoundedOn(less, Nat)
  BY NatLessThanWellFounded, Zenon DEF OpToRel
<1>2. \A l, k \in Nat : ~(<<l, k>> \in less) => k <= l
  OBVIOUS
<1> HIDE DEF less
<1>3. \E k \in T : \A l \in T : ~(<<l, k>> \in less)
  BY <1>1, WFMin
<1> QED
  BY <1>2, <1>3

\* Among the first n numbers, those of a set have a last one.
LEMMA LastOfPositions ==
  ASSUME NEW n \in Nat, NEW T \in SUBSET (1 .. n), T # {}
  PROVE  \E k \in T : \A l \in T : l <= k
<1> DEFINE distances == {n - k : k \in T}
<1>1. distances \in SUBSET Nat /\ distances # {}
  <2>1. \A k \in T : k \in 1 .. n /\ n - k \in Nat
    OBVIOUS
  <2> QED
    BY <2>1
<1>2. PICK d \in distances : \A e \in distances : d <= e
  BY <1>1, LeastNatural
<1>3. PICK k \in T : d = n - k
  OBVIOUS
<1>4. ASSUME NEW l \in T
      PROVE  l <= k
  <2>1. d <= n - l
    BY <1>2
  <2> QED
    BY <2>1, <1>3
<1> QED
  BY <1>4


-----------------------------------------------------------------------------
(* Recursion over the elements of a sequence. *)

\* A sequence of values in which each follows from the one before it by a step.
Follows(g, m, base, step) == g[0] = base /\ \A k \in 1..m : g[k] = step[<<g[k - 1], k>>]

\* What is defined step by step is defined.
LEMMA RecursionExists ==
  ASSUME NEW n \in Nat, NEW S, NEW base \in S, NEW step \in [S \X (1..n) -> S]
  PROVE  \E g \in [0..n -> S] : Follows(g, n, base, step)
<1> DEFINE Reached(m) == \E g \in [0..m -> S] : Follows(g, m, base, step)
           missed == {m \in 0..n : ~Reached(m)}
<1>1. Reached(0)
  <2> DEFINE first == [k \in 0..0 |-> base]
  <2>1. first \in [0..0 -> S] /\ first[0] = base /\ 1..0 = {}
    OBVIOUS
  <2> HIDE DEF first
  <2>2. Follows(first, 0, base, step)
    BY <2>1 DEF Follows
  <2> QED
    BY <2>1, <2>2
<1>2. ASSUME NEW m \in 0..n - 1, Reached(m)
      PROVE  Reached(m + 1)
  <2>1. PICK g \in [0..m -> S] : Follows(g, m, base, step)
    BY <1>2
  <2>2. PICK next \in Nat : next = m + 1 /\ next \in 1..n /\ m = next - 1 /\ m \in Nat
    OBVIOUS
  <2> DEFINE last == step[<<g[m], next>>]
             longer == [k \in 0..next |-> IF k = next THEN last ELSE g[k]]
  <2>3. g[m] \in S
    BY <2>2
  <2>4. last \in S
    BY <2>2, <2>3
  <2> HIDE DEF last
  <2>5. \A k \in 0..next : k # next => k \in 0..m
    BY <2>2
  <2>6. longer \in [0..next -> S] /\ longer[next] = last /\ \A k \in 0..m : longer[k] = g[k]
    BY <2>2, <2>4, <2>5
  <2> HIDE DEF longer
  <2>7. longer[0] = base
    BY <2>1, <2>2, <2>6 DEF Follows
  <2>8. ASSUME NEW k \in 1..next
        PROVE  longer[k] = step[<<longer[k - 1], k>>]
    <3>1. CASE k = next
      <4>1. longer[k - 1] = g[m]
        BY <2>2, <2>6, <3>1
      <4> QED
        BY <2>6, <3>1, <4>1 DEF last
    <3>2. CASE k # next
      <4>1. k \in 1..m /\ k \in 0..m /\ k - 1 \in 0..m
        BY <2>2, <3>2
      <4>2. g[k] = step[<<g[k - 1], k>>]
        BY <2>1, <4>1 DEF Follows
      <4> QED
        BY <2>6, <4>1, <4>2
    <3> QED
      BY <3>1, <3>2
  <2>9. Follows(longer, next, base, step)
    BY <2>7, <2>8 DEF Follows
  <2> QED
    BY <2>2, <2>6, <2>9
<1>3. missed = {}
  <2> SUFFICES ASSUME missed # {} PROVE FALSE
    OBVIOUS
  <2> HIDE DEF Reached
  <2>1. missed \in SUBSET Nat
    OBVIOUS
  <2>2. PICK m \in missed : \A k \in missed : m <= k
    BY <2>1, LeastNatural
  <2>3. m \in 0..n /\ ~Reached(m) /\ m # 0
    BY <1>1, <2>2
  <2>4. m - 1 \in 0..n - 1 /\ m - 1 + 1 = m
    BY <2>3
  <2>5. Reached(m - 1)
    BY <2>2, <2>4
  <2> QED
    BY <1>2, <2>3, <2>4, <2>5
<1> QED
  BY <1>3

-----------------------------------------------------------------------------
(* Lines, histories and files. *)

Lines     == {l \in Seq(Chars) : Len(l) <= LineLimit}
Histories == {h \in Seq(Lines \ {<<>>}) : Len(h) <= HistoryLimit /\ \A i \in 2..Len(h) : h[i] # h[i - 1]}
Files     == Seq(Chars \cup {Newline})
ReadState == [history : Histories, line : Seq(Chars), stopped : BOOLEAN]

\* The empty history and the empty line are among them.
LEMMA EmptyOnes == <<>> \in Lines /\ <<>> \in Histories /\ Unread \in ReadState
<1>1. <<>> \in Seq(Chars) /\ <<>> \in Seq(Lines \ {<<>>}) /\ Len(<<>>) = 0 /\ 2..0 = {}
  BY EmptySeq
<1>2. <<>> \in Lines /\ <<>> \in Histories
  BY <1>1, LineAssumption DEF Lines, Histories
<1> QED
  BY <1>1, <1>2 DEF Unread, ReadState

\* A history as history_add leaves it is one, and no shorter.
LEMMA HistoryAddSound ==
  ASSUME NEW h \in Histories, NEW text \in Lines
  PROVE  HistoryAdd(h, text) \in Histories /\ Len(h) \in Nat /\ Len(HistoryAdd(h, text)) \in Nat
         /\ Len(HistoryAdd(h, text)) >= Len(h)
<1>1. h \in Seq(Lines \ {<<>>}) /\ Len(h) \in Nat /\ Len(h) <= HistoryLimit /\ HistoryLimit \in Nat \ {0}
      /\ \A i \in 2..Len(h) : h[i] # h[i - 1]
  BY LenProperties, LineAssumption DEF Histories
<1>2. CASE text = <<>> \/ (h # <<>> /\ Last(h) = text)
  BY <1>1, <1>2 DEF HistoryAdd
<1>3. CASE ~(text = <<>> \/ (h # <<>> /\ Last(h) = text))
  <2> DEFINE kept == IF Len(h) = HistoryLimit THEN Tail(h) ELSE h
             m    == Len(kept)
  <2>1. /\ kept \in Seq(Lines \ {<<>>}) /\ m \in Nat /\ m < HistoryLimit /\ m + 1 >= Len(h)
        /\ \A i \in 2..m : kept[i] # kept[i - 1]
        /\ m > 0 => kept[m] = h[Len(h)] /\ h # <<>>
    <3>1. CASE Len(h) # HistoryLimit
      <4>1. kept = h
        BY <3>1
      <4>2. Len(h) > 0 => h # <<>>
        BY EmptySeq
      <4> QED
        BY <1>1, <3>1, <4>1, <4>2
    <3>2. CASE Len(h) = HistoryLimit
      <4>1. h # <<>>
        BY <1>1, <3>2, EmptySeq
      <4>2. /\ Tail(h) \in Seq(Lines \ {<<>>}) /\ Len(Tail(h)) = Len(h) - 1
            /\ \A i \in 1..Len(Tail(h)) : Tail(h)[i] = h[i + 1]
        BY <1>1, <4>1, HeadTailProperties
      <4>3. kept = Tail(h)
        BY <3>2
      <4> HIDE DEF kept
      <4>4. m \in Nat /\ m = Len(h) - 1
        BY <1>1, <3>2, <4>2, <4>3
      <4>5. ASSUME NEW i \in 2..m
            PROVE  kept[i] # kept[i - 1]
        <5>1. i \in 1..m /\ i - 1 \in 1..m /\ i + 1 \in 2..Len(h) /\ i + 1 - 1 = i /\ i - 1 + 1 = i
          BY <4>4
        <5>2. kept[i] = h[i + 1] /\ kept[i - 1] = h[i]
          BY <4>2, <4>3, <5>1
        <5> QED
          BY <1>1, <5>1, <5>2
      <4>6. m > 0 => kept[m] = h[Len(h)]
        BY <4>2, <4>3, <4>4
      <4> QED
        BY <1>1, <3>2, <4>1, <4>2, <4>3, <4>4, <4>5, <4>6
    <3> QED
      BY <3>1, <3>2
  <2> HIDE DEF kept
  <2>2. HistoryAdd(h, text) = Append(kept, text) /\ text \in Lines \ {<<>>}
    BY <1>3 DEF HistoryAdd, kept
  <2> DEFINE new == HistoryAdd(h, text)
  <2>3. /\ new \in Seq(Lines \ {<<>>}) /\ Len(new) = m + 1 /\ new[m + 1] = text
        /\ \A i \in 1..m : new[i] = kept[i]
    BY <2>1, <2>2, AppendProperties
  <2>4. m > 0 => kept[m] # text
    BY <1>3, <2>1 DEF Last
  <2> HIDE DEF new, m
  <2>5. ASSUME NEW i \in 2..Len(new)
        PROVE  new[i] # new[i - 1]
    <3>1. CASE i = m + 1
      <4>1. i - 1 = m /\ m \in 1..m /\ m > 0
        BY <2>1, <2>3, <3>1
      <4> QED
        BY <2>3, <2>4, <3>1, <4>1
    <3>2. CASE i # m + 1
      <4>1. i \in 2..m /\ i \in 1..m /\ i - 1 \in 1..m
        BY <2>1, <2>3, <3>2
      <4> QED
        BY <2>1, <2>3, <4>1
    <3> QED
      BY <3>1, <3>2
  <2>6. Len(new) <= HistoryLimit /\ Len(new) >= Len(h) /\ Len(new) \in Nat
    BY <1>1, <2>1, <2>3
  <2>7. new \in Histories
    BY <2>3, <2>5, <2>6 DEF Histories
  <2> QED
    BY <1>1, <2>6, <2>7 DEF new
<1> QED
  BY <1>2, <1>3

\* A line with one more character is a sequence of characters.
LEMMA LineReadSound ==
  ASSUME NEW read \in ReadState, NEW c \in Chars \cup {Newline}
  PROVE  LineRead(read, c) \in ReadState
<1>1. read.history \in Histories /\ read.line \in Seq(Chars) /\ read.stopped \in BOOLEAN
  BY DEF ReadState
<1>2. CASE read.stopped
  BY <1>2 DEF LineRead
<1>3. CASE ~read.stopped /\ c # Newline
  <2>1. Append(read.line, c) \in Seq(Chars)
    BY <1>1, <1>3, AppendProperties
  <2>2. LineRead(read, c) = [read EXCEPT !.line = Append(read.line, c)]
    BY <1>3 DEF LineRead, ReadState
  <2> QED
    BY <2>1, <2>2 DEF ReadState
<1>4. CASE ~read.stopped /\ c = Newline /\ Len(read.line) + 1 > LineLimit
  BY <1>4 DEF LineRead, ReadState
<1>5. CASE ~read.stopped /\ c = Newline /\ ~(Len(read.line) + 1 > LineLimit)
  <2>1. read.line \in Lines
    BY <1>1, <1>5, LenProperties, LineAssumption DEF Lines
  <2>2. HistoryAdd(read.history, read.line) \in Histories
    BY <1>1, <2>1, HistoryAddSound
  <2>3. LineRead(read, c) = [read EXCEPT !.history = HistoryAdd(read.history, read.line), !.line = <<>>]
    BY <1>5 DEF LineRead, ReadState
  <2>4. <<>> \in Seq(Chars)
    BY EmptySeq
  <2> QED
    BY <2>2, <2>3, <2>4 DEF ReadState
<1> QED
  BY <1>2, <1>3, <1>4, <1>5

\* Reading a file a character at a time.
LEMMA ReadSteps ==
  ASSUME NEW file \in Files
  PROVE  /\ Len(file) \in Nat /\ ReadSoFar(file) \in [0..Len(file) -> ReadState]
         /\ ReadSoFar(file)[0] = Unread
         /\ \A k \in 1..Len(file) : ReadSoFar(file)[k] = LineRead(ReadSoFar(file)[k - 1], file[k])
<1>1. PICK n \in Nat : n = Len(file)
  BY LenProperties DEF Files
<1>2. \A k \in 1..n : file[k] \in Chars \cup {Newline}
  BY <1>1, ElementOfSeq DEF Files
<1> DEFINE step == [x \in ReadState \X (1..n) |-> LineRead(x[1], file[x[2]])]
<1>3. step \in [ReadState \X (1..n) -> ReadState]
  BY <1>2, LineReadSound
<1>4. \A r \in ReadState, k \in 1..n : step[<<r, k>>] = LineRead(r, file[k])
  OBVIOUS
<1> HIDE DEF step
<1>5. PICK g \in [0..n -> ReadState] : Follows(g, n, Unread, step)
  BY <1>3, EmptyOnes, RecursionExists
<1> DEFINE Next0(f, k) == IF k = 0 THEN Unread ELSE LineRead(f[k - 1], file[k])
           Defines(f)  == f = [k \in 0..n |-> Next0(f, k)]
<1>6. Defines(g)
  <2>1. ASSUME NEW k \in 0..n
        PROVE  g[k] = Next0(g, k)
    <3>1. CASE k = 0
      BY <1>5, <3>1 DEF Follows
    <3>2. CASE k # 0
      <4>1. k \in 1..n /\ k - 1 \in 0..n
        BY <3>2
      <4>2. g[k] = step[<<g[k - 1], k>>] /\ g[k - 1] \in ReadState
        BY <1>5, <4>1 DEF Follows
      <4> QED
        BY <1>4, <3>2, <4>1, <4>2
    <3> QED
      BY <3>1, <3>2
  <2> QED
    BY <2>1
<1>7. ReadSoFar(file) = CHOOSE f : Defines(f)
  BY <1>1 DEF ReadSoFar
<1>8. Defines(ReadSoFar(file))
  BY <1>6, <1>7
<1> DEFINE read == ReadSoFar(file)
<1> HIDE DEF read
<1>9. \A k \in 0..n : read[k] = Next0(read, k)
  BY <1>8 DEF read
<1>10. read[0] = Unread /\ \A k \in 1..n : read[k] = LineRead(read[k - 1], file[k])
  BY <1>9
<1>11. \A k \in 0..n : read[k] \in ReadState
  <2> DEFINE wrong == {k \in 0..n : read[k] \notin ReadState}
  <2> SUFFICES ASSUME wrong # {} PROVE FALSE
    OBVIOUS
  <2>0. wrong \in SUBSET Nat
    OBVIOUS
  <2>1. PICK m \in wrong : \A k \in wrong : m <= k
    BY <2>0, LeastNatural
  <2>2. m \in 1..n /\ m - 1 \in 0..n /\ ~(m <= m - 1)
    BY <1>10, <2>1, EmptyOnes
  <2>3. read[m - 1] \in ReadState
    BY <2>1, <2>2
  <2>4. read[m] \in ReadState
    BY <1>2, <1>10, <2>2, <2>3, LineReadSound
  <2> QED
    BY <2>1, <2>4
<1>12. read = [k \in 0..n |-> read[k]]
  BY <1>8 DEF read
<1>13. read \in [0..n -> ReadState]
  BY <1>11, <1>12
<1> QED
  BY <1>1, <1>10, <1>13 DEF read

\* What terminal_init makes of any file is a history.
LEMMA LoadedSound ==
  ASSUME NEW file \in Files
  PROVE  Loaded(file) \in Histories
<1> DEFINE read == ReadSoFar(file)[Len(file)]
<1>1. read \in ReadState
  BY ReadSteps
<1>2. Loaded(file) = IF read.stopped \/ Len(read.line) > LineLimit THEN read.history
                     ELSE HistoryAdd(read.history, read.line)
  BY DEF Loaded
<1> HIDE DEF read
<1>3. read.history \in Histories /\ read.line \in Seq(Chars) /\ Len(read.line) \in Nat
  BY <1>1, LenProperties DEF ReadState
<1>4. CASE Len(read.line) > LineLimit
  BY <1>2, <1>3, <1>4
<1>5. CASE ~(Len(read.line) > LineLimit)
  <2>1. read.line \in Lines
    BY <1>3, <1>5, LineAssumption DEF Lines
  <2> QED
    BY <1>2, <1>3, <2>1, HistoryAddSound
<1> QED
  BY <1>4, <1>5

\* An entry with its end is a file.
LEMMA EntryText ==
  ASSUME NEW e \in Lines
  PROVE  /\ Append(e, Newline) \in Files /\ Len(e) \in Nat /\ Len(Append(e, Newline)) = Len(e) + 1
         /\ Append(e, Newline)[Len(e) + 1] = Newline
         /\ \A i \in 1..Len(e) : Append(e, Newline)[i] = e[i] /\ e[i] \in Chars
<1>1. e \in Seq(Chars) /\ Len(e) \in Nat
  BY LenProperties DEF Lines
<1>2. e \in Seq(Chars \cup {Newline})
  BY <1>1, SeqMonotonic
<1>3. \A i \in 1..Len(e) : e[i] \in Chars
  BY <1>1, ElementOfSeq
<1>4. Newline \in Chars \cup {Newline}
  OBVIOUS
<1> QED
  BY <1>1, <1>2, <1>3, <1>4, AppendProperties DEF Files

\* The entries of a history, written one behind the other.
LEMMA TextSteps ==
  ASSUME NEW h \in Histories
  PROVE  /\ Len(h) \in Nat /\ Texts(h) \in [0..Len(h) -> Files] /\ Texts(h)[0] = <<>>
         /\ \A k \in 1..Len(h) : h[k] \in Lines /\ Texts(h)[k] = Texts(h)[k - 1] \o Append(h[k], Newline)
<1>1. PICK n \in Nat : n = Len(h)
  BY LenProperties DEF Histories
<1>2. \A k \in 1..n : h[k] \in Lines
  BY <1>1, ElementOfSeq DEF Histories
<1>3. <<>> \in Files /\ \A f \in Files, k \in 1..n : f \o Append(h[k], Newline) \in Files
  <2>1. \A f \in Files, g \in Files : f \o g \in Files
    BY ConcatProperties DEF Files
  <2> QED
    BY <1>2, <2>1, EntryText, EmptySeq DEF Files
<1> DEFINE step == [x \in Files \X (1..n) |-> x[1] \o Append(h[x[2]], Newline)]
<1>4. step \in [Files \X (1..n) -> Files]
  BY <1>3
<1>5. \A f \in Files, k \in 1..n : step[<<f, k>>] = f \o Append(h[k], Newline)
  OBVIOUS
<1> HIDE DEF step
<1>6. PICK g \in [0..n -> Files] : Follows(g, n, <<>>, step)
  BY <1>3, <1>4, RecursionExists
<1> DEFINE Next0(f, k) == IF k = 0 THEN <<>> ELSE f[k - 1] \o Append(h[k], Newline)
           Defines(f)  == f = [k \in 0..n |-> Next0(f, k)]
<1>7. Defines(g)
  <2>1. ASSUME NEW k \in 0..n
        PROVE  g[k] = Next0(g, k)
    <3>1. CASE k = 0
      BY <1>6, <3>1 DEF Follows
    <3>2. CASE k # 0
      <4>1. k \in 1..n /\ k - 1 \in 0..n
        BY <3>2
      <4>2. g[k] = step[<<g[k - 1], k>>] /\ g[k - 1] \in Files
        BY <1>6, <4>1 DEF Follows
      <4>3. g[k] = g[k - 1] \o Append(h[k], Newline)
        BY <1>5, <4>1, <4>2
      <4> QED
        BY <3>2, <4>3, Zenon
    <3> QED
      BY <3>1, <3>2
  <2> QED
    BY <2>1
<1>8. Texts(h) = CHOOSE f : Defines(f)
  BY <1>1 DEF Texts
<1>9. Defines(Texts(h))
  BY <1>7, <1>8
<1> DEFINE text == Texts(h)
<1> HIDE DEF text
<1>10. \A k \in 0..n : text[k] = Next0(text, k)
  BY <1>9 DEF text
<1>11. text[0] = <<>> /\ \A k \in 1..n : text[k] = text[k - 1] \o Append(h[k], Newline)
  <2>1. 0 \in 0..n
    BY <1>1
  <2>2. text[0] = <<>>
    BY <1>10, <2>1
  <2>3. ASSUME NEW k \in 1..n
        PROVE  text[k] = text[k - 1] \o Append(h[k], Newline)
    <3>1. k \in 0..n /\ k # 0
      OBVIOUS
    <3> QED
      BY <1>10, <3>1
  <2> QED
    BY <2>2, <2>3
<1>12. \A k \in 0..n : text[k] \in Files
  <2> DEFINE wrong == {k \in 0..n : text[k] \notin Files}
  <2> SUFFICES ASSUME wrong # {} PROVE FALSE
    OBVIOUS
  <2>1. wrong \in SUBSET Nat
    OBVIOUS
  <2>2. PICK m \in wrong : \A k \in wrong : m <= k
    BY <2>1, LeastNatural
  <2>3. m \in 1..n /\ m - 1 \in 0..n /\ ~(m <= m - 1)
    BY <1>3, <1>11, <2>2
  <2>4. text[m - 1] \in Files
    BY <2>2, <2>3
  <2>5. text[m] \in Files
    BY <1>3, <1>11, <2>3, <2>4
  <2> QED
    BY <2>2, <2>5
<1>13. text = [k \in 0..n |-> text[k]]
  BY <1>9 DEF text
<1>14. text \in [0..n -> Files]
  BY <1>12, <1>13
<1> QED
  BY <1>1, <1>2, <1>11, <1>14 DEF text

\* The text of the first entries is where the whole text begins.
LEMMA TextBegins ==
  ASSUME NEW h \in Histories, NEW k \in 0..Len(h)
  PROVE  /\ Text(h) \in Files /\ Len(Text(h)) \in Nat /\ Len(Texts(h)[k]) \in Nat
         /\ Len(Texts(h)[k]) <= Len(Text(h))
         /\ \A i \in 1..Len(Texts(h)[k]) : Text(h)[i] = Texts(h)[k][i]
<1> DEFINE text == Texts(h)
           Begins(m) == /\ Len(text[k]) <= Len(text[m])
                        /\ \A i \in 1..Len(text[k]) : text[m][i] = text[k][i]
           wrong == {m \in k..Len(h) : ~Begins(m)}
<1>1. /\ Len(h) \in Nat /\ text \in [0..Len(h) -> Files]
      /\ \A m \in 1..Len(h) : h[m] \in Lines /\ text[m] = text[m - 1] \o Append(h[m], Newline)
  BY TextSteps
<1> HIDE DEF text
<1>2. \A m \in 0..Len(h) : text[m] \in Seq(Chars \cup {Newline}) /\ Len(text[m]) \in Nat
  BY <1>1, LenProperties DEF Files
<1>3. wrong = {}
  <2> SUFFICES ASSUME wrong # {} PROVE FALSE
    OBVIOUS
  <2>1. wrong \in SUBSET Nat
    BY <1>1
  <2> HIDE DEF Begins
  <2>2. PICK m \in wrong : \A l \in wrong : m <= l
    BY <2>1, LeastNatural
  <2>3. Begins(k)
    BY <1>2 DEF Begins
  <2>4. m \in 1..Len(h) /\ m - 1 \in k..Len(h) /\ m - 1 \in 0..Len(h) /\ ~(m <= m - 1)
    BY <1>1, <2>2, <2>3
  <2>5. Begins(m - 1)
    BY <2>2, <2>4
  <2>6. PICK before \in Files, entry \in Files : /\ before = text[m - 1] /\ entry = Append(h[m], Newline)
                                                 /\ text[m] = before \o entry
    BY <1>1, <2>4, EntryText
  <2>7. /\ Len(text[m]) = Len(before) + Len(entry) /\ Len(before) \in Nat /\ Len(entry) \in Nat
        /\ \A i \in 1..Len(before) : text[m][i] = before[i]
    <3>1. /\ before \in Seq(Chars \cup {Newline}) /\ entry \in Seq(Chars \cup {Newline})
          /\ Len(before) \in Nat /\ Len(entry) \in Nat
      BY LenProperties DEF Files
    <3>2. /\ Len(before \o entry) = Len(before) + Len(entry)
          /\ \A i \in 1..Len(before) + Len(entry) :
                (before \o entry)[i] = IF i <= Len(before) THEN before[i] ELSE entry[i - Len(before)]
      BY <3>1, ConcatProperties
    <3>3. ASSUME NEW i \in 1..Len(before)
          PROVE  (before \o entry)[i] = before[i]
      <4>1. i \in 1..Len(before) + Len(entry) /\ i <= Len(before)
        BY <3>1
      <4> QED
        BY <3>2, <4>1
    <3> QED
      BY <2>6, <3>1, <3>2, <3>3
  <2>8. Begins(m)
    <3>1. Len(text[k]) <= Len(before) /\ \A i \in 1..Len(text[k]) : before[i] = text[k][i]
      BY <2>5, <2>6 DEF Begins
    <3>2. PICK shorter \in Nat : shorter = Len(text[k])
      BY <1>2
    <3>3. \A i \in 1..shorter : i \in 1..Len(before)
      BY <2>7, <3>1, <3>2
    <3>4. \A i \in 1..shorter : text[m][i] = text[k][i]
      BY <2>7, <3>1, <3>2, <3>3
    <3>5. shorter <= Len(text[m])
      BY <2>7, <3>1, <3>2
    <3> QED
      BY <3>2, <3>4, <3>5 DEF Begins
  <2> QED
    BY <2>2, <2>8
<1>4. Begins(Len(h)) /\ Len(h) \in 0..Len(h)
  BY <1>1, <1>3
<1> QED
  BY <1>1, <1>2, <1>4 DEF Text, text

-----------------------------------------------------------------------------
(* A history that is written is read again. *)

\* The first elements of a sequence.
LEMMA PrefixProperties ==
  ASSUME NEW S, NEW seq \in Seq(S), NEW k \in 0..Len(seq)
  PROVE  /\ SubSeq(seq, 1, k) \in Seq(S) /\ Len(SubSeq(seq, 1, k)) = k /\ Len(seq) \in Nat
         /\ \A i \in 1..k : SubSeq(seq, 1, k)[i] = seq[i]
<1>1. 1 \in Int /\ k \in Int /\ k \in Nat /\ Len(seq) \in Nat /\ k <= Len(seq)
  BY LenProperties
<1>2. \A i \in 1..k : i \in 1..Len(seq) /\ seq[i] \in S
  BY <1>1, ElementOfSeq
<1>3. /\ SubSeq(seq, 1, k) \in Seq(S) /\ Len(SubSeq(seq, 1, k)) = IF 1 <= k THEN k - 1 + 1 ELSE 0
      /\ \A i \in 1..k - 1 + 1 : SubSeq(seq, 1, k)[i] = seq[1 + i - 1]
  BY <1>1, <1>2, SubSeqProperties
<1>4. ASSUME NEW i \in 1..k
      PROVE  SubSeq(seq, 1, k)[i] = seq[i]
  <2>1. i \in 1..k - 1 + 1 /\ 1 + i - 1 = i
    BY <1>1
  <2> QED
    BY <1>3, <2>1
<1> QED
  BY <1>1, <1>3, <1>4

\* What is left of a sequence without its last element.
LEMMA FrontProperties ==
  ASSUME NEW S, NEW seq \in Seq(S), seq # <<>>
  PROVE  Front(seq) \in Seq(S)
<1>1. Len(seq) - 1 \in 0..Len(seq)
  BY EmptySeq
<1> QED
  BY <1>1, PrefixProperties DEF Front

\* With one element more they are the first and the next.
LEMMA PrefixGrows ==
  ASSUME NEW S, NEW seq \in Seq(S), NEW k \in 1..Len(seq)
  PROVE  Append(SubSeq(seq, 1, k - 1), seq[k]) = SubSeq(seq, 1, k)
<1>1. k - 1 \in 0..Len(seq) /\ k \in 0..Len(seq) /\ k \in Nat /\ Len(seq) \in Nat /\ seq[k] \in S
  BY LenProperties, ElementOfSeq
<1> DEFINE shorter == SubSeq(seq, 1, k - 1)
           longer  == SubSeq(seq, 1, k)
<1>2. shorter \in Seq(S) /\ Len(shorter) = k - 1 /\ \A i \in 1..k - 1 : shorter[i] = seq[i]
  BY <1>1, PrefixProperties
<1>3. longer \in Seq(S) /\ Len(longer) = k /\ \A i \in 1..k : longer[i] = seq[i]
  BY <1>1, PrefixProperties
<1> HIDE DEF shorter, longer
<1>4. /\ Append(shorter, seq[k]) \in Seq(S) /\ Len(Append(shorter, seq[k])) = k
      /\ \A i \in 1..k - 1 : Append(shorter, seq[k])[i] = shorter[i]
      /\ Append(shorter, seq[k])[k] = seq[k]
  BY <1>1, <1>2, AppendProperties
<1>5. ASSUME NEW i \in 1..k
      PROVE  Append(shorter, seq[k])[i] = longer[i]
  <2>1. i \in 1..k - 1 \/ i = k
    BY <1>1
  <2> QED
    BY <1>2, <1>3, <1>4, <2>1
<1>6. Append(shorter, seq[k]) = longer
  BY <1>3, <1>4, <1>5, SeqEqual
<1> QED
  BY <1>6 DEF shorter, longer

\* history_add takes the entries of a history as they come.
LEMMA EntryAdded ==
  ASSUME NEW h \in Histories, NEW k \in 1..Len(h)
  PROVE  HistoryAdd(SubSeq(h, 1, k - 1), h[k]) = SubSeq(h, 1, k)
<1>1. h \in Seq(Lines \ {<<>>}) /\ Len(h) \in Nat /\ Len(h) <= HistoryLimit /\ HistoryLimit \in Nat
      /\ \A i \in 2..Len(h) : h[i] # h[i - 1]
  BY LenProperties, LineAssumption DEF Histories
<1>2. h[k] # <<>> /\ k - 1 \in 0..Len(h) /\ k - 1 < HistoryLimit
  BY <1>1, ElementOfSeq
<1> DEFINE before == SubSeq(h, 1, k - 1)
<1>3. before \in Seq(Lines \ {<<>>}) /\ Len(before) = k - 1 /\ \A i \in 1..k - 1 : before[i] = h[i]
  BY <1>1, <1>2, PrefixProperties
<1>4. Append(before, h[k]) = SubSeq(h, 1, k)
  BY <1>1, PrefixGrows
<1> HIDE DEF before
<1>5. ~(before # <<>> /\ Last(before) = h[k])
  <2> SUFFICES ASSUME before # <<>> PROVE Last(before) # h[k]
    OBVIOUS
  <2>1. Len(before) \in Nat \ {0}
    BY <1>3, EmptySeq
  <2>2. k \in 2..Len(h) /\ k - 1 \in 1..k - 1
    BY <1>3, <2>1
  <2>3. Last(before) = h[k - 1]
    BY <1>3, <2>2 DEF Last
  <2> QED
    BY <1>1, <2>2, <2>3
<1>6. Len(before) # HistoryLimit
  BY <1>1, <1>2, <1>3
<1>7. HistoryAdd(before, h[k]) = Append(before, h[k])
  BY <1>2, <1>5, <1>6 DEF HistoryAdd
<1> QED
  BY <1>4, <1>7 DEF before

\* Where the entries of a history stand in its text.
LEMMA EntryPlace ==
  ASSUME NEW h \in Histories, NEW k \in 1..Len(h)
  PROVE  /\ Len(Texts(h)[k - 1]) \in Nat /\ Len(h[k]) \in Nat
         /\ Len(Texts(h)[k]) = Len(Texts(h)[k - 1]) + (Len(h[k]) + 1)
         /\ Len(Texts(h)[k]) <= Len(Text(h))
         /\ \A i \in 1..Len(h[k]) : Text(h)[Len(Texts(h)[k - 1]) + i] = h[k][i] /\ h[k][i] \in Chars
         /\ Text(h)[Len(Texts(h)[k])] = Newline
<1>1. /\ Len(h) \in Nat /\ k \in 0..Len(h) /\ k - 1 \in 0..Len(h) /\ h[k] \in Lines
      /\ Texts(h)[k - 1] \in Files /\ Texts(h)[k] = Texts(h)[k - 1] \o Append(h[k], Newline)
  <2>1. Len(h) \in Nat /\ Texts(h) \in [0..Len(h) -> Files]
    BY TextSteps
  <2>2. k \in 0..Len(h) /\ k - 1 \in 0..Len(h)
    BY <2>1
  <2>3. Texts(h)[k - 1] \in Files
    BY <2>1, <2>2
  <2>4. h[k] \in Lines /\ Texts(h)[k] = Texts(h)[k - 1] \o Append(h[k], Newline)
    BY TextSteps
  <2> QED
    BY <2>1, <2>2, <2>3, <2>4
<1>2. PICK before \in Files, e \in Lines : before = Texts(h)[k - 1] /\ e = h[k]
  BY <1>1
<1> DEFINE entry == Append(e, Newline)
<1>3. /\ entry \in Files /\ Len(e) \in Nat /\ Len(entry) = Len(e) + 1 /\ entry[Len(e) + 1] = Newline
      /\ \A i \in 1..Len(e) : entry[i] = e[i] /\ e[i] \in Chars
  BY EntryText
<1>4. Texts(h)[k] = before \o entry
  BY <1>1, <1>2
<1> HIDE DEF entry
<1>5. PICK b \in Nat, l \in Nat : b = Len(before) /\ l = Len(e)
  BY <1>3, LenProperties DEF Files
<1>6. /\ Len(before \o entry) = b + (l + 1)
      /\ \A i \in 1..b + (l + 1) : (before \o entry)[i] = IF i <= b THEN before[i] ELSE entry[i - b]
  <2>1. before \in Seq(Chars \cup {Newline}) /\ entry \in Seq(Chars \cup {Newline})
    BY <1>3 DEF Files
  <2>2. /\ Len(before \o entry) = Len(before) + Len(entry)
        /\ \A i \in 1..Len(before) + Len(entry) :
              (before \o entry)[i] = IF i <= Len(before) THEN before[i] ELSE entry[i - Len(before)]
    BY <2>1, ConcatProperties
  <2>3. Len(before) = b /\ Len(entry) = l + 1
    BY <1>3, <1>5
  <2> QED
    BY <2>2, <2>3
<1>7. b + (l + 1) <= Len(Text(h)) /\ \A i \in 1..b + (l + 1) : Text(h)[i] = (before \o entry)[i]
  BY <1>1, <1>4, <1>6, TextBegins
<1>8. ASSUME NEW i \in 1..l + 1
      PROVE  Text(h)[b + i] = entry[i]
  <2>1. PICK j \in 1..b + (l + 1) : j = b + i /\ ~(j <= b) /\ j - b = i
    BY <1>5
  <2>2. Text(h)[j] = (before \o entry)[j]
    BY <1>7, <2>1
  <2>3. (before \o entry)[j] = entry[j - b]
    BY <1>6, <2>1
  <2> QED
    BY <2>1, <2>2, <2>3
<1>9. Text(h)[b + (l + 1)] = Newline
  BY <1>3, <1>5, <1>8
<1>10. \A i \in 1..l : Text(h)[b + i] = e[i] /\ e[i] \in Chars
  <2>1. \A i \in 1..l : i \in 1..l + 1
    OBVIOUS
  <2> QED
    BY <1>3, <1>5, <1>8, <2>1
<1> QED
  BY <1>2, <1>4, <1>5, <1>6, <1>7, <1>9, <1>10

ReadAs(h, l, stops) == [history |-> h, line |-> l, stopped |-> stops]

\* What one character does to what was read.
LEMMA CharacterRead ==
  ASSUME NEW h, NEW l, NEW c
  PROVE  /\ LineRead(ReadAs(h, l, TRUE), c) = ReadAs(h, l, TRUE)
         /\ c # Newline => LineRead(ReadAs(h, l, FALSE), c) = ReadAs(h, Append(l, c), FALSE)
<1>1. LineRead(ReadAs(h, l, TRUE), c) = ReadAs(h, l, TRUE)
  BY DEF LineRead, ReadAs
<1>2. c # Newline => LineRead(ReadAs(h, l, FALSE), c) = ReadAs(h, Append(l, c), FALSE)
  BY DEF LineRead, ReadAs
<1> QED
  BY <1>1, <1>2, Zenon

\* And the end of a line.
LEMMA LineEndRead ==
  ASSUME NEW h, NEW l
  PROVE  LineRead(ReadAs(h, l, FALSE), Newline) = IF Len(l) + 1 > LineLimit THEN ReadAs(h, l, TRUE)
                                                  ELSE ReadAs(HistoryAdd(h, l), <<>>, FALSE)
<1>1. Len(l) + 1 > LineLimit => LineRead(ReadAs(h, l, FALSE), Newline) = ReadAs(h, l, TRUE)
  BY DEF LineRead, ReadAs
<1>2. ~(Len(l) + 1 > LineLimit)
         => LineRead(ReadAs(h, l, FALSE), Newline) = ReadAs(HistoryAdd(h, l), <<>>, FALSE)
  BY DEF LineRead, ReadAs
<1> QED
  BY <1>1, <1>2, Zenon

\* After a line that is too long nothing is read.
LEMMA StaysStopped ==
  ASSUME NEW file \in Files, NEW j \in 0..Len(file), NEW h, NEW l,
         ReadSoFar(file)[j] = ReadAs(h, l, TRUE)
  PROVE  ReadSoFar(file)[Len(file)] = ReadAs(h, l, TRUE)
<1> DEFINE read  == ReadSoFar(file)
           Right(m) == read[m] = ReadAs(h, l, TRUE)
           wrong == {m \in j..Len(file) : ~Right(m)}
<1>1. Len(file) \in Nat /\ \A m \in 1..Len(file) : read[m] = LineRead(read[m - 1], file[m])
  BY ReadSteps
<1>2. Right(j)
  OBVIOUS
<1> HIDE DEF read
<1>3. wrong = {}
  <2> SUFFICES ASSUME wrong # {} PROVE FALSE
    OBVIOUS
  <2> HIDE DEF Right
  <2>1. wrong \in SUBSET Nat
    BY <1>1
  <2>2. PICK m \in wrong : \A i \in wrong : m <= i
    BY <2>1, LeastNatural
  <2>3. m \in 1..Len(file) /\ m - 1 \in j..Len(file) /\ ~(m <= m - 1)
    BY <1>1, <1>2, <2>2
  <2>4. Right(m - 1)
    BY <2>2, <2>3
  <2>5. Right(m)
    BY <1>1, <2>3, <2>4, CharacterRead DEF Right
  <2> QED
    BY <2>2, <2>5
<1>4. Len(file) \in j..Len(file)
  BY <1>1
<1> QED
  BY <1>3, <1>4 DEF read

\* An entry is read as it was written, if a line of its length may be read.
LEMMA EntryRead ==
  ASSUME NEW h \in Histories, NEW k \in 1..Len(h), NEW before,
         ReadSoFar(Text(h))[Len(Texts(h)[k - 1])] = ReadAs(before, <<>>, FALSE)
  PROVE  ReadSoFar(Text(h))[Len(Texts(h)[k])] =
             IF Len(h[k]) + 1 > LineLimit THEN ReadAs(before, h[k], TRUE)
             ELSE ReadAs(HistoryAdd(before, h[k]), <<>>, FALSE)
<1> DEFINE read == ReadSoFar(Text(h))
<1>1. PICK b \in Nat, size \in Nat : b = Len(Texts(h)[k - 1]) /\ size = Len(h[k])
  BY EntryPlace
<1>2. /\ Len(Texts(h)[k]) = b + (size + 1) /\ b + (size + 1) <= Len(Text(h)) /\ Text(h)[b + (size + 1)] = Newline
      /\ \A i \in 1..size : Text(h)[b + i] = h[k][i] /\ h[k][i] # Newline
  BY <1>1, EntryPlace, LineAssumption DEF Newline
<1>3. Text(h) \in Files /\ Len(Text(h)) \in Nat
  BY TextBegins
<1>4. \A m \in 1..Len(Text(h)) : read[m] = LineRead(read[m - 1], Text(h)[m])
  BY <1>3, ReadSteps
<1>5. read[b] = ReadAs(before, <<>>, FALSE)
  BY <1>1
<1>6. h[k] \in Seq(Chars)
  BY TextSteps DEF Lines
<1> HIDE DEF read
<1> DEFINE Right(i) == read[b + i] = ReadAs(before, SubSeq(h[k], 1, i), FALSE)
           wrong == {i \in 0..size : ~Right(i)}
<1>7. wrong = {}
  <2> SUFFICES ASSUME wrong # {} PROVE FALSE
    OBVIOUS
  <2> HIDE DEF Right
  <2>1. wrong \in SUBSET Nat
    OBVIOUS
  <2>2. PICK i \in wrong : \A j \in wrong : i <= j
    BY <2>1, LeastNatural
  <2>3. i # 0
    <3>1. SubSeq(h[k], 1, 0) = <<>> /\ b + 0 = b
      BY SubSeqEmpty
    <3>2. Right(0)
      BY <1>5, <3>1 DEF Right
    <3> QED
      BY <2>2, <3>2
  <2>4. /\ i \in 1..size /\ i - 1 \in 0..size /\ ~(i <= i - 1) /\ b + i \in 1..Len(Text(h))
        /\ b + i - 1 = b + (i - 1)
    BY <1>2, <1>3, <2>2, <2>3
  <2>5. read[b + (i - 1)] = ReadAs(before, SubSeq(h[k], 1, i - 1), FALSE)
    <3>1. Right(i - 1)
      BY <2>2, <2>4
    <3> QED
      BY <3>1 DEF Right
  <2>6. read[b + i] = LineRead(read[b + (i - 1)], h[k][i])
    BY <1>2, <1>4, <2>4
  <2>7. read[b + i] = ReadAs(before, Append(SubSeq(h[k], 1, i - 1), h[k][i]), FALSE)
    <3>1. h[k][i] # Newline
      BY <1>2, <2>4
    <3>2. LineRead(ReadAs(before, SubSeq(h[k], 1, i - 1), FALSE), h[k][i])
            = ReadAs(before, Append(SubSeq(h[k], 1, i - 1), h[k][i]), FALSE)
      BY <3>1, CharacterRead
    <3> QED
      BY <2>5, <2>6, <3>2
  <2>8. Append(SubSeq(h[k], 1, i - 1), h[k][i]) = SubSeq(h[k], 1, i)
    BY <1>1, <1>6, <2>4, PrefixGrows
  <2>9. Right(i)
    BY <2>7, <2>8 DEF Right
  <2> QED
    BY <2>2, <2>9
<1>8. read[b + size] = ReadAs(before, h[k], FALSE)
  <2>1. read[b + size] = ReadAs(before, SubSeq(h[k], 1, size), FALSE)
    <3> HIDE DEF Right
    <3>1. size \in 0..size
      OBVIOUS
    <3>2. Right(size)
      BY <1>7, <3>1
    <3> QED
      BY <3>2 DEF Right
  <2>2. SubSeq(h[k], 1, size) = h[k]
    BY <1>1, <1>6, SubSeqFull
  <2> QED
    BY <2>1, <2>2
<1>9. read[b + (size + 1)] = LineRead(read[b + size], Newline)
  <2>1. b + (size + 1) \in 1..Len(Text(h)) /\ b + (size + 1) - 1 = b + size
    BY <1>2, <1>3
  <2> QED
    BY <1>2, <1>4, <2>1
<1>10. read[b + (size + 1)] = IF Len(h[k]) + 1 > LineLimit THEN ReadAs(before, h[k], TRUE)
                              ELSE ReadAs(HistoryAdd(before, h[k]), <<>>, FALSE)
  BY <1>8, <1>9, LineEndRead, Zenon
<1> QED
  BY <1>2, <1>10 DEF read

\* The entries before the first that fills the limit come back one by one.
LEMMA EntriesRead ==
  ASSUME NEW h \in Histories, NEW n \in 0..Len(h), \A i \in 1..n : Len(h[i]) < LineLimit
  PROVE  ReadSoFar(Text(h))[Len(Texts(h)[n])] = ReadAs(SubSeq(h, 1, n), <<>>, FALSE)
<1> DEFINE At0(k) == ReadSoFar(Text(h))[Len(Texts(h)[k])]
           Right(k) == At0(k) = ReadAs(SubSeq(h, 1, k), <<>>, FALSE)
           wrong    == {k \in 0..n : ~Right(k)}
<1>1. Len(h) \in Nat /\ n \in Nat /\ \A k \in 1..n : k \in 1..Len(h) /\ Len(h[k]) \in Nat
  BY TextSteps, EntryPlace
<1>2. Right(0)
  <2>1. Texts(h)[0] = <<>> /\ Text(h) \in Files
    BY TextSteps, TextBegins, <1>1
  <2>2. ReadSoFar(Text(h))[0] = Unread
    BY <2>1, ReadSteps
  <2>3. Len(<<>>) = 0 /\ SubSeq(h, 1, 0) = <<>>
    BY SubSeqEmpty, EmptySeq
  <2> QED
    BY <2>1, <2>2, <2>3 DEF Unread, ReadAs
<1>3. wrong = {}
  <2> SUFFICES ASSUME wrong # {} PROVE FALSE
    OBVIOUS
  <2> HIDE DEF Right
  <2>1. wrong \in SUBSET Nat
    BY <1>1
  <2>2. PICK k \in wrong : \A j \in wrong : k <= j
    BY <2>1, LeastNatural
  <2>3. k # 0
    BY <1>2, <2>2
  <2>4. k \in 1..n /\ k \in 1..Len(h) /\ k - 1 \in 0..n /\ ~(k <= k - 1)
    BY <1>1, <2>2, <2>3
  <2>5. At0(k - 1) = ReadAs(SubSeq(h, 1, k - 1), <<>>, FALSE)
    <3>1. Right(k - 1)
      BY <2>2, <2>4
    <3> QED
      BY <3>1 DEF Right
  <2>6. ~(Len(h[k]) + 1 > LineLimit)
    <3>1. Len(h[k]) < LineLimit /\ Len(h[k]) \in Nat /\ LineLimit \in Nat
      BY <1>1, <2>4, LineAssumption
    <3> QED
      BY <3>1
  <2>7. At0(k) = ReadAs(HistoryAdd(SubSeq(h, 1, k - 1), h[k]), <<>>, FALSE)
    BY <2>4, <2>5, <2>6, EntryRead
  <2>8. HistoryAdd(SubSeq(h, 1, k - 1), h[k]) = SubSeq(h, 1, k)
    BY <2>4, EntryAdded
  <2>9. Right(k)
    BY <2>7, <2>8 DEF Right
  <2> QED
    BY <2>2, <2>9
<1>4. n \in 0..n
  BY <1>1
<1>5. Right(n)
  <2> HIDE DEF Right
  <2> QED
    BY <1>3, <1>4
<1> QED
  BY <1>5

\* A history that was written is read again, up to the first entry that fills
\* the limit.
LEMMA TextRead ==
  ASSUME NEW h \in Histories
  PROVE  LET full == {i \in DOMAIN h : Len(h[i]) >= LineLimit}
         IN  Loaded(Text(h)) = IF full = {} THEN h ELSE SubSeq(h, 1, Min(full) - 1)
<1> DEFINE full == {i \in DOMAIN h : Len(h[i]) >= LineLimit}
           end  == ReadSoFar(Text(h))[Len(Text(h))]
<1>1. /\ Len(h) \in Nat /\ DOMAIN h = 1..Len(h) /\ h \in Seq(Lines \ {<<>>}) /\ LineLimit \in Nat
      /\ \A k \in 1..Len(h) : h[k] \in Lines /\ Len(h[k]) \in Nat
  BY TextSteps, EntryPlace, LenProperties, LineAssumption DEF Histories
<1>2. Loaded(Text(h)) = IF end.stopped \/ Len(end.line) > LineLimit THEN end.history
                        ELSE HistoryAdd(end.history, end.line)
  BY DEF Loaded
<1>3. Text(h) \in Files /\ Len(Text(h)) \in Nat
  BY <1>1, TextBegins
<1> HIDE DEF end
<1>4. CASE full = {}
  <2>1. \A i \in 1..Len(h) : Len(h[i]) < LineLimit
    BY <1>1, <1>4
  <2>2. Len(h) \in 0..Len(h)
    BY <1>1
  <2>3. end = ReadAs(SubSeq(h, 1, Len(h)), <<>>, FALSE)
    BY <2>1, <2>2, EntriesRead DEF end, Text
  <2>4. SubSeq(h, 1, Len(h)) = h
    BY <1>1, SubSeqFull
  <2>5. Len(<<>>) = 0 /\ HistoryAdd(h, <<>>) = h
    BY EmptySeq DEF HistoryAdd
  <2>6. Loaded(Text(h)) = h
    BY <1>1, <1>2, <2>3, <2>4, <2>5 DEF ReadAs
  <2> QED
    BY <1>4, <2>6
<1>5. CASE full # {}
  <2>1. full \in SUBSET Nat
    BY <1>1
  <2>2. \E k \in full : \A j \in full : k <= j
    BY <1>5, <2>1, LeastNatural
  <2>3. PICK k \in full : k = Min(full) /\ \A j \in full : k <= j
    BY <2>2 DEF Min
  <2>4. k \in 1..Len(h) /\ k - 1 \in 0..Len(h) /\ Len(h[k]) + 1 > LineLimit
    BY <1>1, <2>3
  <2>5. \A i \in 1..k - 1 : Len(h[i]) < LineLimit
    <3>1. ASSUME NEW i \in 1..k - 1
          PROVE  Len(h[i]) < LineLimit
      <4>1. i \in 1..Len(h) /\ ~(k <= i)
        <5>1. k \in Nat /\ k <= Len(h) /\ Len(h) \in Nat /\ i \in 1..k - 1
          BY <1>1, <2>4
        <5> HIDE DEF full
        <5> QED
          BY <5>1
      <4>2. i \notin full
        BY <2>3, <4>1
      <4> QED
        BY <1>1, <4>1, <4>2
    <3> QED
      BY <3>1
  <2>6. ReadSoFar(Text(h))[Len(Texts(h)[k - 1])] = ReadAs(SubSeq(h, 1, k - 1), <<>>, FALSE)
    BY <2>4, <2>5, EntriesRead
  <2>7. ReadSoFar(Text(h))[Len(Texts(h)[k])] = ReadAs(SubSeq(h, 1, k - 1), h[k], TRUE)
    BY <2>4, <2>6, EntryRead
  <2>8. Len(Texts(h)[k]) \in 0..Len(Text(h))
    <3>1. k \in 0..Len(h)
      BY <1>1, <2>4
    <3>2. Len(Texts(h)[k]) \in Nat /\ Len(Texts(h)[k]) <= Len(Text(h))
      BY <3>1, TextBegins
    <3> QED
      BY <1>3, <3>2
  <2>9. end = ReadAs(SubSeq(h, 1, k - 1), h[k], TRUE)
    <3>1. PICK place \in 0..Len(Text(h)) : place = Len(Texts(h)[k])
      BY <2>8
    <3>2. ReadSoFar(Text(h))[place] = ReadAs(SubSeq(h, 1, k - 1), h[k], TRUE)
      BY <2>7, <3>1
    <3> QED
      BY <1>3, <3>2, StaysStopped DEF end
  <2>10. Loaded(Text(h)) = SubSeq(h, 1, k - 1)
    BY <1>2, <2>9 DEF ReadAs
  <2> QED
    BY <1>5, <2>3, <2>10
<1> QED
  BY <1>4, <1>5

-----------------------------------------------------------------------------
(* The line editor. *)

\* The reads of a process that has n entries in its history.
Reads(n) == {r \in [line : Lines, cursor : Nat, index : Nat, draft : Lines \cup {NoDraft}] :
                r.cursor <= Len(r.line) /\ r.index <= n}

Terminals == {t \in [history : Histories, reads : Seq(UNION {Reads(n) : n \in Nat})] :
                 t.reads \in Seq(Reads(Len(t.history)))}

\* What a read is made of.
LEMMA ReadParts ==
  ASSUME NEW n \in Nat, NEW r \in Reads(n)
  PROVE  /\ r = [line |-> r.line, cursor |-> r.cursor, index |-> r.index, draft |-> r.draft]
         /\ r.line \in Lines /\ Len(r.line) \in Nat /\ r.line \in Seq(Chars) /\ Len(r.line) <= LineLimit
         /\ r.cursor \in 0..Len(r.line) /\ r.index \in 0..n /\ r.draft \in Lines \cup {NoDraft}
         /\ LineLimit \in Nat
<1>1. /\ r \in [line : Lines, cursor : Nat, index : Nat, draft : Lines \cup {NoDraft}]
      /\ r.cursor <= Len(r.line) /\ r.index <= n
  BY DEF Reads
<1>2. r.line \in Lines /\ r.cursor \in Nat /\ r.index \in Nat /\ r.draft \in Lines \cup {NoDraft}
      /\ r = [line |-> r.line, cursor |-> r.cursor, index |-> r.index, draft |-> r.draft]
  BY <1>1
<1>3. r.line \in Seq(Chars) /\ Len(r.line) \in Nat /\ Len(r.line) <= LineLimit
  BY <1>2, LenProperties DEF Lines
<1> QED
  BY <1>1, <1>2, <1>3, LineAssumption

\* And what makes one.
LEMMA ReadMade ==
  ASSUME NEW n \in Nat, NEW line \in Lines, NEW cursor \in 0..Len(line), NEW index \in 0..n,
         NEW draft \in Lines \cup {NoDraft}
  PROVE  [line |-> line, cursor |-> cursor, index |-> index, draft |-> draft] \in Reads(n)
<1>1. Len(line) \in Nat
  BY LenProperties DEF Lines
<1>2. cursor \in Nat /\ cursor <= Len(line) /\ index \in Nat /\ index <= n
  BY <1>1
<1> QED
  BY <1>2 DEF Reads

\* What a terminal is made of.
LEMMA TerminalParts ==
  ASSUME NEW t \in Terminals
  PROVE  /\ t = [history |-> t.history, reads |-> t.reads] /\ t.history \in Histories
         /\ Len(t.history) \in Nat /\ t.reads \in Seq(Reads(Len(t.history)))
<1>1. t \in [history : Histories, reads : Seq(UNION {Reads(n) : n \in Nat})]
  BY DEF Terminals
<1>2. t.history \in Histories
  BY <1>1
<1>3. Len(t.history) \in Nat
  BY <1>2, LenProperties DEF Histories
<1> QED
  BY <1>1, <1>2, <1>3 DEF Terminals

\* And what makes one.
LEMMA TerminalMade ==
  ASSUME NEW history \in Histories, NEW reads \in Seq(Reads(Len(history)))
  PROVE  [history |-> history, reads |-> reads] \in Terminals
<1>1. Len(history) \in Nat
  BY LenProperties DEF Histories
<1>2. Reads(Len(history)) \subseteq UNION {Reads(n) : n \in Nat}
  BY <1>1
<1>3. reads \in Seq(UNION {Reads(n) : n \in Nat})
  BY <1>2, SeqMonotonic
<1> QED
  BY <1>3 DEF Terminals

\* What it becomes.
LEMMA TerminalChanged ==
  ASSUME NEW t \in Terminals, NEW h, NEW rs
  PROVE  /\ [t EXCEPT !.reads = rs] = [history |-> t.history, reads |-> rs]
         /\ [t EXCEPT !.history = h] = [history |-> h, reads |-> t.reads]
<1>1. t \in [history : Histories, reads : Seq(UNION {Reads(n) : n \in Nat})]
  BY DEF Terminals
<1>2. [t EXCEPT !.reads = rs] = [history |-> t.history, reads |-> rs]
  BY <1>1
<1>3. [t EXCEPT !.history = h] = [history |-> h, reads |-> t.reads]
  BY <1>1
<1> QED
  BY <1>2, <1>3, Zenon

\* A terminal that is not used is one.
LEMMA NoTerminalSound == NoTerminal \in Terminals
<1>1. <<>> \in Histories /\ <<>> \in Seq(Reads(Len(<<>>)))
  BY EmptyOnes, EmptySeq
<1> QED
  BY <1>1, TerminalMade DEF NoTerminal

\* The innermost read and the ones around it.
LEMMA TopSound ==
  ASSUME NEW t \in Terminals, t.reads # <<>>
  PROVE  /\ Last(t.reads) \in Reads(Len(t.history)) /\ Front(t.reads) \in Seq(Reads(Len(t.history)))
         /\ [t EXCEPT !.reads = Front(t.reads)] \in Terminals
<1>1. /\ t = [history |-> t.history, reads |-> t.reads] /\ t.history \in Histories
      /\ t.reads \in Seq(Reads(Len(t.history)))
  BY TerminalParts
<1>2. Front(t.reads) \in Seq(Reads(Len(t.history)))
  BY <1>1, FrontProperties
<1>3. Len(t.reads) \in 1..Len(t.reads)
  BY <1>1, EmptySeq
<1>4. Last(t.reads) \in Reads(Len(t.history))
  BY <1>1, <1>3, ElementOfSeq DEF Last
<1>5. [history |-> t.history, reads |-> Front(t.reads)] \in Terminals
  BY <1>1, <1>2, TerminalMade
<1>6. [t EXCEPT !.reads = Front(t.reads)] = [history |-> t.history, reads |-> Front(t.reads)]
  BY TerminalChanged, Zenon
<1> QED
  BY <1>2, <1>4, <1>5, <1>6

\* A key that changes the innermost read.
LEMMA KeepSound ==
  ASSUME NEW t \in Terminals, t.reads # <<>>, NEW r \in Reads(Len(t.history))
  PROVE  [t EXCEPT !.reads = Append(Front(t.reads), r)] \in Terminals
<1>1. t = [history |-> t.history, reads |-> t.reads] /\ t.history \in Histories
  BY TerminalParts
<1>2. Append(Front(t.reads), r) \in Seq(Reads(Len(t.history)))
  BY TopSound, AppendProperties
<1>3. [history |-> t.history, reads |-> Append(Front(t.reads), r)] \in Terminals
  BY <1>1, <1>2, TerminalMade
<1>4. [t EXCEPT !.reads = Append(Front(t.reads), r)]
        = [history |-> t.history, reads |-> Append(Front(t.reads), r)]
  BY TerminalChanged, Zenon
<1> QED
  BY <1>3, <1>4

\* A read that begins.
LEMMA BeginSound ==
  ASSUME NEW t \in Terminals
  PROVE  [t EXCEPT !.reads = Append(t.reads, [line |-> <<>>, cursor |-> 0, index |-> Len(t.history),
                                              draft |-> NoDraft])] \in Terminals
<1> DEFINE new == [line |-> <<>>, cursor |-> 0, index |-> Len(t.history), draft |-> NoDraft]
<1>1. /\ t = [history |-> t.history, reads |-> t.reads] /\ t.history \in Histories
      /\ Len(t.history) \in Nat /\ t.reads \in Seq(Reads(Len(t.history)))
  BY TerminalParts
<1>2. new \in Reads(Len(t.history))
  <2>1. /\ <<>> \in Lines /\ 0 \in 0..Len(<<>>) /\ Len(t.history) \in 0..Len(t.history)
        /\ NoDraft \in Lines \cup {NoDraft}
    BY <1>1, EmptyOnes, EmptySeq
  <2> QED
    BY <1>1, <2>1, ReadMade
<1> HIDE DEF new
<1>3. Append(t.reads, new) \in Seq(Reads(Len(t.history)))
  BY <1>1, <1>2, AppendProperties
<1>4. [history |-> t.history, reads |-> Append(t.reads, new)] \in Terminals
  BY <1>1, <1>3, TerminalMade
<1>5. [t EXCEPT !.reads = Append(t.reads, new)] = [history |-> t.history, reads |-> Append(t.reads, new)]
  BY TerminalChanged, Zenon
<1> QED
  BY <1>4, <1>5 DEF new

\* A line that is accepted, whose history the reads around it look at too.
LEMMA AcceptSound ==
  ASSUME NEW t \in Terminals, t.reads # <<>>
  PROVE  [history |-> HistoryAdd(t.history, Last(t.reads).line), reads |-> Front(t.reads)] \in Terminals
<1> DEFINE new == HistoryAdd(t.history, Last(t.reads).line)
<1>1. t = [history |-> t.history, reads |-> t.reads] /\ t.history \in Histories /\ Len(t.history) \in Nat
  BY TerminalParts
<1>2. Last(t.reads).line \in Lines
  BY <1>1, TopSound, ReadParts
<1>3. new \in Histories /\ Len(new) \in Nat /\ Len(new) >= Len(t.history)
  BY <1>1, <1>2, HistoryAddSound
<1> HIDE DEF new
<1>4. Reads(Len(t.history)) \subseteq Reads(Len(new))
  <2>1. \A i \in Nat : i <= Len(t.history) => i <= Len(new)
    BY <1>1, <1>3
  <2> QED
    BY <2>1 DEF Reads
<1>5. Front(t.reads) \in Seq(Reads(Len(new)))
  BY <1>4, TopSound, SeqMonotonic
<1>6. [history |-> new, reads |-> Front(t.reads)] \in Terminals
  BY <1>3, <1>5, TerminalMade
<1> QED
  BY <1>6 DEF new

Edited(r, l, c) == [r EXCEPT !.line = l, !.cursor = c]

\* A read whose line and cursor change.
LEMMA LineEdited ==
  ASSUME NEW n \in Nat, NEW r \in Reads(n), NEW l \in Lines, NEW c \in 0..Len(l)
  PROVE  Edited(r, l, c) \in Reads(n)
<1>1. /\ r = [line |-> r.line, cursor |-> r.cursor, index |-> r.index, draft |-> r.draft]
      /\ r.index \in 0..n /\ r.draft \in Lines \cup {NoDraft}
  BY ReadParts
<1>2. [line |-> l, cursor |-> c, index |-> r.index, draft |-> r.draft] \in Reads(n)
  BY <1>1, ReadMade
<1>3. [r EXCEPT !.line = l] = [line |-> l, cursor |-> r.cursor, index |-> r.index, draft |-> r.draft]
  BY <1>1
<1>4. [[line |-> l, cursor |-> r.cursor, index |-> r.index, draft |-> r.draft] EXCEPT !.cursor = c]
        = [line |-> l, cursor |-> c, index |-> r.index, draft |-> r.draft]
  OBVIOUS
<1> QED
  BY <1>2, <1>3, <1>4, Zenon DEF Edited

\* A read whose cursor moves.
LEMMA CursorMoved ==
  ASSUME NEW n \in Nat, NEW r \in Reads(n), NEW c \in 0..Len(r.line)
  PROVE  [r EXCEPT !.cursor = c] \in Reads(n)
<1>1. /\ r = [line |-> r.line, cursor |-> r.cursor, index |-> r.index, draft |-> r.draft]
      /\ r.line \in Lines /\ r.index \in 0..n /\ r.draft \in Lines \cup {NoDraft}
  BY ReadParts
<1>2. [line |-> r.line, cursor |-> c, index |-> r.index, draft |-> r.draft] \in Reads(n)
  BY <1>1, ReadMade
<1>3. [r EXCEPT !.cursor = c] = [line |-> r.line, cursor |-> c, index |-> r.index, draft |-> r.draft]
  BY <1>1
<1> QED
  BY <1>2, <1>3

\* A read that shows a line of the history or the draft.
LEMMA ShownSound ==
  ASSUME NEW n \in Nat, NEW r \in Reads(n), NEW index \in 0..n, NEW line \in Lines
  PROVE  Shown(r, index, line) \in Reads(n)
<1>1. /\ r.line \in Lines /\ r.draft \in Lines \cup {NoDraft} /\ Len(line) \in 0..Len(line)
  BY ReadParts, LenProperties DEF Lines
<1>2. (IF r.draft = NoDraft THEN r.line ELSE r.draft) \in Lines \cup {NoDraft}
  BY <1>1
<1> QED
  BY <1>1, <1>2, ReadMade DEF Shown

\* What follows the first elements of a sequence.
LEMMA SuffixProperties ==
  ASSUME NEW S, NEW seq \in Seq(S), NEW k \in 0..Len(seq)
  PROVE  SubSeq(seq, k + 1, Len(seq)) \in Seq(S) /\ Len(SubSeq(seq, k + 1, Len(seq))) = Len(seq) - k
<1>1. PICK n \in Nat : n = Len(seq)
  BY LenProperties
<1>2. k \in Nat /\ k <= n /\ k + 1 \in Int /\ n \in Int /\ \A i \in k + 1..n : i \in 1..Len(seq)
  BY <1>1
<1>3. \A i \in k + 1..n : seq[i] \in S
  BY <1>2, ElementOfSeq
<1>4. /\ SubSeq(seq, k + 1, n) \in Seq(S)
      /\ Len(SubSeq(seq, k + 1, n)) = IF k + 1 <= n THEN n - (k + 1) + 1 ELSE 0
  BY <1>2, <1>3, SubSeqProperties
<1>5. Len(SubSeq(seq, k + 1, n)) = n - k
  BY <1>2, <1>4
<1> QED
  BY <1>1, <1>4, <1>5

\* A line out of which a part is cut.
LEMMA CutSound ==
  ASSUME NEW l \in Lines, NEW a \in 0..Len(l), NEW b \in a..Len(l)
  PROVE  /\ SubSeq(l, 1, a) \o SubSeq(l, b + 1, Len(l)) \in Lines
         /\ a \in 0..Len(SubSeq(l, 1, a) \o SubSeq(l, b + 1, Len(l)))
<1> DEFINE before == SubSeq(l, 1, a)
           after  == SubSeq(l, b + 1, Len(l))
<1>1. l \in Seq(Chars) /\ Len(l) \in Nat /\ Len(l) <= LineLimit /\ LineLimit \in Nat
  BY LenProperties, LineAssumption DEF Lines
<1>2. b \in 0..Len(l) /\ a \in Nat /\ b \in Nat /\ a <= b /\ b <= Len(l)
  BY <1>1
<1>3. before \in Seq(Chars) /\ Len(before) = a
  BY <1>1, PrefixProperties
<1>4. after \in Seq(Chars) /\ Len(after) = Len(l) - b
  BY <1>1, <1>2, SuffixProperties
<1> HIDE DEF before, after
<1>5. before \o after \in Seq(Chars) /\ Len(before \o after) = a + (Len(l) - b)
  BY <1>3, <1>4, ConcatProperties
<1>6. Len(before \o after) \in Nat /\ a <= Len(before \o after) /\ Len(before \o after) <= LineLimit
  BY <1>1, <1>2, <1>5
<1>7. before \o after \in Lines
  BY <1>5, <1>6 DEF Lines
<1>8. a \in 0..Len(before \o after)
  BY <1>2, <1>6
<1> QED
  BY <1>7, <1>8 DEF before, after

\* A line into which a character is put.
LEMMA InsertSound ==
  ASSUME NEW l \in Lines, NEW a \in 0..Len(l), NEW c \in Chars, Len(l) < LineLimit
  PROVE  /\ SubSeq(l, 1, a) \o <<c>> \o SubSeq(l, a + 1, Len(l)) \in Lines
         /\ a + 1 \in 0..Len(SubSeq(l, 1, a) \o <<c>> \o SubSeq(l, a + 1, Len(l)))
<1> DEFINE before == SubSeq(l, 1, a)
           after  == SubSeq(l, a + 1, Len(l))
<1>1. l \in Seq(Chars) /\ Len(l) \in Nat /\ Len(l) < LineLimit /\ LineLimit \in Nat /\ a \in Nat /\ a <= Len(l)
  BY LenProperties, LineAssumption DEF Lines
<1>2. before \in Seq(Chars) /\ Len(before) = a
  BY <1>1, PrefixProperties
<1>3. after \in Seq(Chars) /\ Len(after) = Len(l) - a
  BY <1>1, SuffixProperties
<1>4. <<c>> \in Seq(Chars) /\ Len(<<c>>) = 1
  OBVIOUS
<1> HIDE DEF before, after
<1>5. before \o <<c>> \in Seq(Chars) /\ Len(before \o <<c>>) = a + 1
  BY <1>2, <1>4, ConcatProperties
<1>6. before \o <<c>> \o after \in Seq(Chars) /\ Len(before \o <<c>> \o after) = a + 1 + (Len(l) - a)
  BY <1>3, <1>5, ConcatProperties
<1>7. /\ Len(before \o <<c>> \o after) \in Nat /\ a + 1 <= Len(before \o <<c>> \o after)
      /\ Len(before \o <<c>> \o after) <= LineLimit
  BY <1>1, <1>6
<1>8. before \o <<c>> \o after \in Lines /\ a + 1 \in 0..Len(before \o <<c>> \o after)
  BY <1>1, <1>6, <1>7 DEF Lines
<1> QED
  BY <1>8 DEF before, after

\* The least and the greatest of some numbers.
LEMMA LeastIs ==
  ASSUME NEW T \in SUBSET Nat, T # {}
  PROVE  Min(T) \in T /\ \A k \in T : Min(T) <= k
<1>1. \E k \in T : \A l \in T : k <= l
  BY LeastNatural
<1> QED
  BY <1>1 DEF Min

\* The greatest number of a set is in it, and none of the set lies above.
LEMMA GreatestIs ==
  ASSUME NEW n \in Nat, NEW T \in SUBSET (1..n), T # {}
  PROVE  Max(T) \in T /\ \A k \in T : k <= Max(T)
<1>1. PICK k \in T : \A l \in T : l <= k
  BY LastOfPositions
<1>2. \A l \in T : k >= l
  BY <1>1
<1>3. Max(T) \in T /\ \A l \in T : Max(T) >= l
  BY <1>2 DEF Max
<1> QED
  BY <1>3

\* A word starts before the cursor.
LEMMA WordStartSound ==
  ASSUME NEW n \in Nat, NEW r \in Reads(n)
  PROVE  WordStart(r) \in 0..r.cursor
<1> DEFINE From(set) == {i \in 0..r.cursor : \A k \in (i + 1)..r.cursor : r.line[k] \in set}
           blank == Min(From(Blanks))
           word  == {i \in 0..blank : \A k \in (i + 1)..blank : r.line[k] \notin Blanks}
<1>1. r.cursor \in Nat
  BY ReadParts
<1>2. blank \in 0..r.cursor
  <2>1. r.cursor \in From(Blanks)
    <3>1. r.cursor \in 0..r.cursor /\ (r.cursor + 1)..r.cursor = {}
      BY <1>1
    <3> QED
      BY <3>1
  <2>2. From(Blanks) \in SUBSET (0..r.cursor) /\ 0..r.cursor \subseteq Nat
    OBVIOUS
  <2> HIDE DEF From
  <2>3. Min(From(Blanks)) \in From(Blanks)
    <3>1. From(Blanks) \in SUBSET Nat /\ From(Blanks) # {}
      BY <2>1, <2>2
    <3> QED
      BY <3>1, LeastIs
  <2> QED
    BY <2>2, <2>3
<1>3. WordStart(r) = Min(word)
  BY DEF WordStart
<1> HIDE DEF blank
<1>4. blank \in word
  <2>1. blank \in 0..blank /\ (blank + 1)..blank = {}
    BY <1>1, <1>2
  <2> QED
    BY <2>1
<1>5. word \in SUBSET (0..blank) /\ 0..blank \subseteq Nat
  OBVIOUS
<1> HIDE DEF word
<1>6. Min(word) \in word
  <2>1. word \in SUBSET Nat /\ word # {}
    BY <1>4, <1>5
  <2> QED
    BY <2>1, LeastIs
<1>7. Min(word) \in 0..blank
  BY <1>5, <1>6
<1> QED
  BY <1>1, <1>2, <1>3, <1>7

\* What a key takes out is a part of the line.
LEMMA CutInside ==
  ASSUME NEW n \in Nat, NEW r \in Reads(n), NEW key \in {"rest", "before", "word", "erase", "delete"}
  PROVE  Cut(r, key)[1] \in 0..Len(r.line) /\ Cut(r, key)[2] \in Cut(r, key)[1]..Len(r.line)
<1>1. PICK c \in Nat, size \in Nat : c = r.cursor /\ size = Len(r.line) /\ c <= size
  BY ReadParts
<1>2. Length(r) = size
  BY <1>1 DEF Length
<1>3. CASE key = "rest"
  <2>1. Cut(r, key) = <<c, size>>
    BY <1>1, <1>2, <1>3 DEF Cut
  <2> QED
    BY <1>1, <2>1
<1>4. CASE key = "before"
  <2>1. Cut(r, key) = <<0, c>>
    BY <1>1, <1>2, <1>4 DEF Cut
  <2> QED
    BY <1>1, <2>1
<1>5. CASE key = "word"
  <2>1. PICK w : w = WordStart(r)
    OBVIOUS
  <2>2. Cut(r, key) = <<w, c>>
    BY <1>1, <1>2, <1>5, <2>1 DEF Cut
  <2>3. w \in 0..c
    BY <1>1, <2>1, WordStartSound
  <2> QED
    BY <1>1, <2>2, <2>3
<1>6. CASE key = "erase"
  <2>1. PICK w : w = Max({c - 1, 0})
    OBVIOUS
  <2>2. Cut(r, key) = <<w, c>>
    BY <1>1, <1>2, <1>6, <2>1 DEF Cut
  <2>3. w \in 0..c
    <3>1. \E x \in {c - 1, 0} : \A y \in {c - 1, 0} : x >= y
      <4>1. CASE c = 0
        BY <4>1
      <4>2. CASE c # 0
        BY <1>1, <4>2
      <4> QED
        BY <4>1, <4>2
    <3>2. w \in {c - 1, 0} /\ \A y \in {c - 1, 0} : w >= y
      BY <2>1, <3>1 DEF Max
    <3> QED
      BY <1>1, <3>2
  <2> QED
    BY <1>1, <2>2, <2>3
<1>7. CASE key = "delete"
  <2>1. PICK w : w = Min({c + 1, size})
    OBVIOUS
  <2>2. Cut(r, key) = <<c, w>>
    BY <1>1, <1>2, <1>7, <2>1 DEF Cut
  <2>3. w \in c..size
    <3>1. {c + 1, size} \in SUBSET Nat /\ {c + 1, size} # {}
      BY <1>1
    <3>2. w \in {c + 1, size} /\ \A y \in {c + 1, size} : w <= y
      BY <2>1, <3>1, LeastIs
    <3> QED
      BY <1>1, <3>2
  <2> QED
    BY <1>1, <2>2, <2>3
<1> QED
  BY <1>3, <1>4, <1>5, <1>6, <1>7

\* What a process does at its terminal leaves those of the others alone.
TerminalsKept(p) == /\ term' \in [Processes -> Terminals]
                    /\ \A q \in Processes : q # p => term'[q] = term[q]

\* The innermost read of a process.
LEMMA TopRead ==
  ASSUME term \in [Processes -> Terminals], NEW p \in Processes, Reading(p)
  PROVE  /\ Count(p) \in Nat /\ Top(p) \in Reads(Count(p)) /\ term[p] \in Terminals /\ term[p].reads # <<>>
         /\ \A i \in 1..Count(p) : History(p)[i] \in Lines
<1>1. term[p] \in Terminals /\ term[p].reads # <<>>
  BY DEF Reading
<1>2. Last(term[p].reads) \in Reads(Len(term[p].history)) /\ Len(term[p].history) \in Nat
  BY <1>1, TopSound, TerminalParts
<1>3. term[p].history \in Seq(Lines \ {<<>>})
  BY <1>1, TerminalParts DEF Histories
<1>4. \A i \in 1..Len(term[p].history) : term[p].history[i] \in Lines
  BY <1>3, ElementOfSeq
<1> QED
  BY <1>1, <1>2, <1>4 DEF Top, Count, History

\* A key that changes a read into a read.
LEMMA KeepKeeps ==
  ASSUME term \in [Processes -> Terminals], NEW p \in Processes, Reading(p),
         NEW r \in Reads(Count(p)), Keep(p, r)
  PROVE  TerminalsKept(p)
<1>1. term[p] \in Terminals /\ term[p].reads # <<>> /\ r \in Reads(Len(term[p].history))
  BY TopRead DEF Count, History
<1>2. [term[p] EXCEPT !.reads = Append(Front(term[p].reads), r)] \in Terminals
  BY <1>1, KeepSound
<1>3. term' = [term EXCEPT ![p] = [term[p] EXCEPT !.reads = Append(Front(term[p].reads), r)]]
  BY DEF Keep
<1> QED
  BY <1>2, <1>3 DEF TerminalsKept

\* A read that begins is in good order: an empty line, the cursor at its start, at the end of the history.
LEMMA BeginKeeps ==
  ASSUME term \in [Processes -> Terminals], NEW p \in Processes, Begin(p)
  PROVE  TerminalsKept(p)
<1> DEFINE new == [term[p] EXCEPT !.reads = Append(term[p].reads,
                      [line |-> <<>>, cursor |-> 0, index |-> Len(term[p].history), draft |-> NoDraft])]
<1>1. new \in Terminals
  BY BeginSound
<1>2. term' = [term EXCEPT ![p] = new]
  BY DEF Begin, Count, History
<1> HIDE DEF new
<1> QED
  BY <1>1, <1>2 DEF TerminalsKept

\* The cursor moves within the line.
LEMMA MoveKeeps ==
  ASSUME term \in [Processes -> Terminals], NEW p \in Processes, NEW key, Move(p, key)
  PROVE  TerminalsKept(p)
<1>1. PICK r : r = Top(p)
  OBVIOUS
<1>2. Reading(p)
  BY DEF Move
<1>3. r \in Reads(Count(p)) /\ Count(p) \in Nat
  BY <1>1, <1>2, TopRead
<1>4. r.cursor \in 0..Len(r.line) /\ Len(r.line) \in Nat
  BY <1>3, ReadParts
<1>5. \E c \in 0..Len(r.line) : Keep(p, [r EXCEPT !.cursor = c])
  <2>1. \/ Keep(p, [r EXCEPT !.cursor = 0])
        \/ Keep(p, [r EXCEPT !.cursor = Len(r.line)])
        \/ r.cursor > 0 /\ Keep(p, [r EXCEPT !.cursor = r.cursor - 1])
        \/ r.cursor < Len(r.line) /\ Keep(p, [r EXCEPT !.cursor = r.cursor + 1])
    BY <1>1 DEF Move, Length
  <2>2. 0 \in 0..Len(r.line) /\ Len(r.line) \in 0..Len(r.line)
    BY <1>4
  <2>3. r.cursor > 0 => r.cursor - 1 \in 0..Len(r.line)
    BY <1>4
  <2>4. r.cursor < Len(r.line) => r.cursor + 1 \in 0..Len(r.line)
    BY <1>4
  <2> QED
    BY <2>1, <2>2, <2>3, <2>4, Zenon
<1>6. PICK c \in 0..Len(r.line) : Keep(p, [r EXCEPT !.cursor = c])
  BY <1>5
<1>7. [r EXCEPT !.cursor = c] \in Reads(Count(p))
  BY <1>3, CursorMoved
<1> QED
  BY <1>2, <1>6, <1>7, KeepKeeps

\* What is cut out of a line leaves a shorter one, with the cursor where the cut began.
LEMMA CutOutKeeps ==
  ASSUME term \in [Processes -> Terminals], NEW p \in Processes,
         NEW key \in {"rest", "before", "word", "erase", "delete"}, CutOut(p, key)
  PROVE  TerminalsKept(p)
<1>1. PICK r, from, to : r = Top(p) /\ from = Cut(Top(p), key)[1] /\ to = Cut(Top(p), key)[2]
  OBVIOUS
<1>2. Reading(p)
  BY DEF CutOut
<1>3. r \in Reads(Count(p)) /\ Count(p) \in Nat
  BY <1>1, <1>2, TopRead
<1>4. from \in 0..Len(r.line) /\ to \in from..Len(r.line) /\ r.line \in Lines
  BY <1>1, <1>3, CutInside, ReadParts
<1>5. PICK l : l = SubSeq(r.line, 1, from) \o SubSeq(r.line, to + 1, Len(r.line))
  OBVIOUS
<1>6. l \in Lines /\ from \in 0..Len(l)
  BY <1>4, <1>5, CutSound
<1>7. Keep(p, Edited(r, l, from))
  BY <1>1, <1>5 DEF CutOut, Edited
<1>8. Edited(r, l, from) \in Reads(Count(p))
  BY <1>3, <1>6, LineEdited
<1> QED
  BY <1>2, <1>7, <1>8, KeepKeeps

\* A character goes in only where the line has room (insert_text).
LEMMA InsertKeeps ==
  ASSUME term \in [Processes -> Terminals], NEW p \in Processes, NEW c \in Chars, Insert(p, c)
  PROVE  TerminalsKept(p)
<1>1. PICK r, at : r = Top(p) /\ at = Top(p).cursor
  OBVIOUS
<1>2. Reading(p)
  BY DEF Insert
<1>3. r \in Reads(Count(p)) /\ Count(p) \in Nat
  BY <1>1, <1>2, TopRead
<1>4. at \in 0..Len(r.line) /\ r.line \in Lines /\ Len(r.line) < LineLimit
  BY <1>1, <1>3, ReadParts DEF Insert, Length
<1>5. PICK l : l = SubSeq(r.line, 1, at) \o <<c>> \o SubSeq(r.line, at + 1, Len(r.line))
  OBVIOUS
<1>6. l \in Lines /\ at + 1 \in 0..Len(l)
  BY <1>4, <1>5, InsertSound
<1>7. Keep(p, Edited(r, l, at + 1))
  <2>1. Keep(p, [r EXCEPT !.line = l, !.cursor = @ + 1])
    BY <1>1, <1>5 DEF Insert
  <2>2. [r EXCEPT !.line = l, !.cursor = @ + 1] = [r EXCEPT !.line = l, !.cursor = at + 1]
    BY <1>1
  <2> QED
    BY <2>1, <2>2 DEF Edited
<1>8. Edited(r, l, at + 1) \in Reads(Count(p))
  BY <1>3, <1>6, LineEdited
<1> QED
  BY <1>2, <1>7, <1>8, KeepKeeps

\* So does a suggestion, whole or not at all.
LEMMA CompleteKeeps ==
  ASSUME term \in [Processes -> Terminals], NEW p \in Processes, NEW suffix \in Suggestions,
         Complete(p, suffix)
  PROVE  TerminalsKept(p)
<1>1. PICK r : r = Top(p)
  OBVIOUS
<1>2. Reading(p)
  BY DEF Complete
<1>3. r \in Reads(Count(p)) /\ Count(p) \in Nat
  BY <1>1, <1>2, TopRead
<1>4. r.line \in Seq(Chars) /\ Len(r.line) \in Nat /\ LineLimit \in Nat
  BY <1>3, ReadParts
<1>5. suffix \in Seq(Chars) /\ Len(suffix) \in Nat /\ Len(suffix) <= LineLimit - Len(r.line)
  BY <1>1, LineAssumption, LenProperties DEF Complete, Length
<1>6. PICK l, at : l = r.line \o suffix /\ at = Len(r.line) + Len(suffix)
  OBVIOUS
<1>7. l \in Seq(Chars) /\ Len(l) = at
  BY <1>4, <1>5, <1>6, ConcatProperties
<1>8. at \in Nat /\ at <= LineLimit /\ at \in 0..at
  BY <1>4, <1>5, <1>6
<1>9. l \in Lines /\ at \in 0..Len(l)
  BY <1>7, <1>8 DEF Lines
<1>10. Keep(p, Edited(r, l, at))
  BY <1>1, <1>6 DEF Complete, Length, Edited
<1>11. Edited(r, l, at) \in Reads(Count(p))
  BY <1>3, <1>9, LineEdited
<1> QED
  BY <1>2, <1>10, <1>11, KeepKeeps

\* What is recalled is an entry of the history, or the draft, with the cursor at its end.
LEMMA RecallKeeps ==
  ASSUME term \in [Processes -> Terminals], NEW p \in Processes, NEW key \in {"up", "down"}, Recall(p, key)
  PROVE  TerminalsKept(p)
<1> DEFINE Index(r, n) == CASE key = "up"   -> IF r.index > 0 THEN r.index - 1 ELSE r.index
                            [] key = "down" -> IF Below(r.index, n) THEN r.index + 1 ELSE r.index
           Draft(r) == IF r.draft = NoDraft THEN r.line ELSE r.draft
<1>1. PICK r, n : r = Top(p) /\ n = Count(p)
  OBVIOUS
<1>2. Reading(p)
  BY DEF Recall
<1>3. r \in Reads(n) /\ n \in Nat /\ \A i \in 1..n : History(p)[i] \in Lines
  BY <1>1, <1>2, TopRead
<1>4. r.index \in 0..n /\ r.line \in Lines /\ r.draft \in Lines \cup {NoDraft}
  BY <1>3, ReadParts
<1>5. PICK index, line : /\ index = Index(r, n)
                         /\ line = IF index < n THEN History(p)[index + 1] ELSE Draft(r)
  OBVIOUS
<1>6. Keep(p, Shown(r, index, line))
  BY <1>1, <1>5 DEF Recall
<1>7. index \in 0..n
  <2>1. CASE key = "up"
    <3>1. index = IF r.index > 0 THEN r.index - 1 ELSE r.index
      BY <1>5, <2>1
    <3> QED
      BY <1>3, <1>4, <3>1
  <2>2. CASE key = "down"
    <3>1. index = IF r.index < n THEN r.index + 1 ELSE r.index
      BY <1>5, <2>2 DEF Below
    <3> QED
      BY <1>3, <1>4, <3>1
  <2> QED
    BY <2>1, <2>2
<1>8. line \in Lines
  <2>1. CASE index < n
    <3>1. index + 1 \in 1..n
      BY <1>3, <1>7, <2>1
    <3> QED
      BY <1>3, <1>5, <2>1, <3>1
  <2>2. CASE ~(index < n)
    <3>1. line = Draft(r)
      BY <1>5, <2>2
    <3> QED
      BY <1>4, <3>1
  <2> QED
    BY <2>1, <2>2
<1>9. Shown(r, index, line) \in Reads(Count(p))
  BY <1>1, <1>3, <1>7, <1>8, ShownSound
<1> QED
  BY <1>2, <1>6, <1>9, KeepKeeps

\* A search takes a whole entry of the history, or changes nothing.
LEMMA SearchKeeps ==
  ASSUME term \in [Processes -> Terminals], NEW p \in Processes, Search(p)
  PROVE  TerminalsKept(p)
<1> DEFINE Matches(r) == {i \in 1..r.index : \E from, to \in 0..Len(History(p)[i]) :
                             SubSeq(History(p)[i], from + 1, to) = r.line}
<1>1. PICK r, n, matches : r = Top(p) /\ n = Count(p) /\ matches = Matches(r)
  OBVIOUS
<1>2. Reading(p) /\ matches # {} /\ Keep(p, Shown(r, Max(matches) - 1, History(p)[Max(matches)]))
  BY <1>1 DEF Search
<1>3. r \in Reads(n) /\ n \in Nat /\ \A i \in 1..n : History(p)[i] \in Lines
  BY <1>1, <1>2, TopRead
<1>4. r.index \in 0..n /\ r.index \in Nat
  BY <1>3, ReadParts
<1>5. matches \in SUBSET (1..r.index)
  BY <1>1
<1>6. Max(matches) \in 1..r.index
  BY <1>2, <1>4, <1>5, GreatestIs
<1>7. PICK last : last = Max(matches)
  OBVIOUS
<1>8. last \in 1..n /\ last - 1 \in 0..n
  BY <1>3, <1>4, <1>6, <1>7
<1>9. Shown(r, last - 1, History(p)[last]) \in Reads(n)
  BY <1>3, <1>8, ShownSound
<1> QED
  BY <1>1, <1>2, <1>7, <1>9, KeepKeeps

\* An accepted line leaves a history that is no shorter, so the reads outside still point into it.
LEMMA AcceptKeeps ==
  ASSUME term \in [Processes -> Terminals], NEW p \in Processes, Accept(p)
  PROVE  TerminalsKept(p)
<1> DEFINE new == [history |-> HistoryAdd(term[p].history, Last(term[p].reads).line),
                   reads |-> Front(term[p].reads)]
<1>1. term[p] \in Terminals /\ term[p].reads # <<>>
  BY DEF Accept, Reading
<1>2. new \in Terminals
  BY <1>1, AcceptSound
<1>3. PICK rs, h : rs = Front(term[p].reads) /\ h = HistoryAdd(term[p].history, Last(term[p].reads).line)
  OBVIOUS
<1>4. [term[p] EXCEPT !.reads = rs] = [history |-> term[p].history, reads |-> rs]
  BY <1>1, TerminalChanged, Zenon
<1>5. [[history |-> term[p].history, reads |-> rs] EXCEPT !.history = h] = [history |-> h, reads |-> rs]
  OBVIOUS
<1>6. term' = [[term EXCEPT ![p] = [term[p] EXCEPT !.reads = rs]] EXCEPT ![p] = [@ EXCEPT !.history = h]]
  BY <1>3 DEF Accept, Top
<1>7. PICK t1 : t1 = [term EXCEPT ![p] = [history |-> term[p].history, reads |-> rs]]
  OBVIOUS
<1>8. t1[p] = [history |-> term[p].history, reads |-> rs]
  BY <1>7
<1>9. term' = [t1 EXCEPT ![p] = [history |-> h, reads |-> rs]]
  <2>1. term' = [t1 EXCEPT ![p] = [t1[p] EXCEPT !.history = h]]
    BY <1>4, <1>6, <1>7
  <2> QED
    BY <1>5, <1>8, <2>1
<1>10. [history |-> h, reads |-> rs] \in Terminals
  BY <1>2, <1>3
<1>11. t1 \in [Processes -> {[history |-> term[p].history, reads |-> rs]} \cup Terminals]
       /\ \A q \in Processes : q # p => t1[q] = term[q]
  BY <1>7
<1> QED
  BY <1>9, <1>10, <1>11 DEF TerminalsKept

\* A read that is given up leaves the reads below it as they were.
LEMMA GiveUpKeeps ==
  ASSUME term \in [Processes -> Terminals], NEW p \in Processes, GiveUp(p)
  PROVE  TerminalsKept(p)
<1>1. term[p] \in Terminals /\ term[p].reads # <<>>
  BY DEF GiveUp, Reading
<1>2. [term[p] EXCEPT !.reads = Front(term[p].reads)] \in Terminals
  BY <1>1, TopSound
<1>3. term' = [term EXCEPT ![p] = [term[p] EXCEPT !.reads = Front(term[p].reads)]]
  BY DEF GiveUp
<1> QED
  BY <1>2, <1>3 DEF TerminalsKept

-----------------------------------------------------------------------------
(* Preferences. *)

\* What a line of a file says, the one that stands for no file included.
Entries     == (STRING \cup {"no file"}) \X (STRING \cup {"none"})
Preferences == {Written(c) : c \in Configs}
ParseState  == [config : Configs, ok : BOOLEAN]

\* A configuration gives every setting one of its values, and is one as long as
\* it does.
LEMMA ConfigChanged ==
  ASSUME NEW c \in Configs, NEW s \in Range(Settings), NEW v \in Values[s]
  PROVE  [c EXCEPT ![s] = v] \in Configs
<1> DEFINE any == UNION {Values[x] : x \in Range(Settings)}
<1>1. c \in [Range(Settings) -> any] /\ \A x \in Range(Settings) : c[x] \in Values[x]
  BY DEF Configs
<1>2. v \in any
  OBVIOUS
<1>3. Configs = {f \in [Range(Settings) -> any] : \A x \in DOMAIN f : f[x] \in Values[x]}
  BY DEF Configs
<1> HIDE DEF any
<1> DEFINE new == [c EXCEPT ![s] = v]
<1>4. new \in [Range(Settings) -> any] /\ DOMAIN new = Range(Settings)
  BY <1>1, <1>2
<1>5. \A x \in Range(Settings) : new[x] \in Values[x]
  BY <1>1
<1> HIDE DEF new
<1>6. new \in Configs
  BY <1>3, <1>4, <1>5
<1> QED
  BY <1>6 DEF new

\* What config_save writes has a line for every setting.
LEMMA WrittenSound ==
  ASSUME NEW c \in Configs
  PROVE  Written(c) \in Seq(Entries) /\ Len(Written(c)) = Len(Settings) /\ Len(Settings) \in Nat
<1>1. Settings \in Seq(STRING) /\ Len(Settings) \in Nat /\ DOMAIN Settings = 1..Len(Settings)
  BY SettingsAssumption, LenProperties
<1>2. ASSUME NEW i \in 1..Len(Settings)
      PROVE  <<Settings[i], c[Settings[i]]>> \in Entries
  <2>1. Settings[i] \in Range(Settings) /\ Settings[i] \in STRING
    BY <1>1, ElementOfSeq DEF Range
  <2>2. c[Settings[i]] \in Values[Settings[i]]
    BY <2>1 DEF Configs
  <2>3. c[Settings[i]] \in STRING
    BY <2>1, <2>2, SettingsAssumption
  <2>4. Settings[i] \in STRING \cup {"no file"} /\ c[Settings[i]] \in STRING \cup {"none"}
    BY <2>1, <2>3, Zenon
  <2> QED
    BY <2>4, Zenon DEF Entries
<1>3. Written(c) = [i \in 1..Len(Settings) |-> <<Settings[i], c[Settings[i]]>>]
  BY <1>1 DEF Written
<1>4. Written(c) \in [1..Len(Settings) -> Entries]
  BY <1>2, <1>3
<1> QED
  BY <1>1, <1>4

\* One line of a file of preferences.
LEMMA SetBySound ==
  ASSUME NEW read \in ParseState, NEW entry \in Entries
  PROVE  SetBy(read, entry) \in ParseState
<1>1. read.config \in Configs /\ read.ok \in BOOLEAN /\ read = [config |-> read.config, ok |-> read.ok]
  BY DEF ParseState
<1>2. CASE read.ok /\ entry[1] \in Range(Settings) /\ entry[2] \in Values[entry[1]]
  <2>1. [read.config EXCEPT ![entry[1]] = entry[2]] \in Configs
    BY <1>1, <1>2, ConfigChanged
  <2>2. SetBy(read, entry) = [read EXCEPT !.config = [read.config EXCEPT ![entry[1]] = entry[2]]]
    BY <1>2 DEF SetBy
  <2> QED
    BY <2>1, <2>2 DEF ParseState
<1>3. CASE ~(read.ok /\ entry[1] \in Range(Settings) /\ entry[2] \in Values[entry[1]])
  <2>1. SetBy(read, entry) = [read EXCEPT !.ok = FALSE]
    BY <1>3 DEF SetBy
  <2> QED
    BY <2>1 DEF ParseState
<1> QED
  BY <1>2, <1>3

\* What config_load makes of any file is a configuration.
LEMMA ParsedSound ==
  ASSUME NEW file \in Seq(Entries)
  PROVE  Parsed(file) \in ParseState
<1>1. PICK n \in Nat : n = Len(file)
  BY LenProperties
<1>2. \A k \in 1..n : file[k] \in Entries
  BY <1>1, ElementOfSeq
<1> DEFINE first == [config |-> Default, ok |-> TRUE]
           step  == [x \in ParseState \X (1..n) |-> SetBy(x[1], file[x[2]])]
<1>3. first \in ParseState
  BY SettingsAssumption DEF ParseState
<1>4. step \in [ParseState \X (1..n) -> ParseState]
  BY <1>2, SetBySound
<1>5. \A r \in ParseState, k \in 1..n : step[<<r, k>>] = SetBy(r, file[k])
  OBVIOUS
<1> HIDE DEF step, first
<1>6. PICK g \in [0..n -> ParseState] : Follows(g, n, first, step)
  BY <1>3, <1>4, RecursionExists
<1> DEFINE Next0(f, k) == IF k = 0 THEN first ELSE SetBy(f[k - 1], file[k])
           Defines(f)  == f = [k \in 0..n |-> Next0(f, k)]
<1>7. Defines(g)
  <2>1. ASSUME NEW k \in 0..n
        PROVE  g[k] = Next0(g, k)
    <3>1. CASE k = 0
      BY <1>6, <3>1 DEF Follows
    <3>2. CASE k # 0
      <4>1. k \in 1..n /\ k - 1 \in 0..n
        BY <3>2
      <4>2. g[k] = step[<<g[k - 1], k>>] /\ g[k - 1] \in ParseState
        BY <1>6, <4>1 DEF Follows
      <4>3. g[k] = SetBy(g[k - 1], file[k])
        BY <1>5, <4>1, <4>2
      <4> QED
        BY <3>2, <4>3, Zenon
    <3> QED
      BY <3>1, <3>2
  <2> QED
    BY <2>1
<1>8. ParsedSoFar(file) = CHOOSE f : Defines(f)
  BY <1>1 DEF ParsedSoFar, first
<1>9. Defines(ParsedSoFar(file))
  BY <1>7, <1>8
<1> DEFINE read == ParsedSoFar(file)
<1> HIDE DEF read
<1>10. \A k \in 0..n : read[k] = Next0(read, k)
  BY <1>9 DEF read
<1>11. \A k \in 0..n : read[k] \in ParseState
  <2> DEFINE wrong == {k \in 0..n : read[k] \notin ParseState}
  <2> SUFFICES ASSUME wrong # {} PROVE FALSE
    OBVIOUS
  <2>1. wrong \in SUBSET Nat
    OBVIOUS
  <2>2. PICK m \in wrong : \A k \in wrong : m <= k
    BY <2>1, LeastNatural
  <2>3. m \in 0..n /\ read[m] \notin ParseState
    BY <2>2
  <2>4. m # 0
    BY <1>3, <1>10, <2>3
  <2>5. m \in 1..n /\ m - 1 \in 0..n /\ ~(m <= m - 1)
    BY <2>3, <2>4
  <2>6. read[m - 1] \in ParseState
    BY <2>2, <2>5
  <2>7. read[m] = SetBy(read[m - 1], file[m])
    BY <1>10, <2>3, <2>4
  <2> QED
    BY <1>2, <2>3, <2>5, <2>6, <2>7, SetBySound
<1>12. n \in 0..n
  OBVIOUS
<1> QED
  BY <1>1, <1>11, <1>12 DEF Parsed, read

-----------------------------------------------------------------------------
(* The invariant, one part for each of the three properties. *)

Places == {"off", "ready", "reading", "line", "command", "saving", "ending", "closing"}

\* Every process has a terminal in good order, and one that is off has none.
Editors == /\ term \in [Processes -> Terminals] /\ pc \in [Processes -> Places]
           /\ \A p \in Processes : pc[p] = "off" => term[p] = NoTerminal

\* As long as all went well, the temporary file holds the first lines of the
\* preferences of the process that writes it.
Saves ==
    /\ prefs \in [Processes -> Configs] /\ pc \in [Processes -> Places]
    /\ saving \in [Processes -> [written : 0..Len(Settings), ok : BOOLEAN]]
    /\ temporary \in [Processes -> Seq(Entries)]
    /\ scene \in Scenes /\ preferences \in scene.files \cup Preferences
    /\ \A p \in Processes :
          /\ pc[p] # "saving" => temporary[p] = Missing
          /\ pc[p] = "saving" /\ saving[p].ok
                => temporary[p] = SubSeq(Written(prefs[p]), 1, saving[p].written)

\* A process that has emptied the file of histories, and has not written yet.
Closing(p) == pc[p] = "closing" /\ stored[p]

\* Where no other process was in its way, it finds the file as it left it; and
\* what is known to have been written is there until the next one empties it.
Closes ==
    /\ stored \in [Processes -> BOOLEAN] /\ historyFile \in Files /\ pc \in [Processes -> Places]
    /\ \A p \in Processes : Closing(p) /\ p \notin crossed
          => historyFile = <<>> /\ \A q \in Processes : Closing(q) => q = p
    /\ saved.valid => /\ saved.history \in Histories /\ historyFile = Text(saved.history)
                      /\ \A q \in Processes : ~Closing(q)

IndInv == Editors /\ Saves /\ Closes

\* What stands for no file is a file like others.
LEMMA MissingSound == Missing \in Seq(Entries)
<1>1. "no file" \in STRING \cup {"no file"} /\ "none" \in STRING \cup {"none"}
  OBVIOUS
<1>2. <<"no file", "none">> \in Entries
  BY <1>1, Zenon DEF Entries
<1>3. \A e \in Entries : <<e>> \in Seq(Entries)
  OBVIOUS
<1> QED
  BY <1>2, <1>3, Zenon DEF Missing

\* Nothing runs at first, and the files are those of the scene.
LEMMA InitIndInv == Init => IndInv
<1> SUFFICES ASSUME Init PROVE IndInv
  OBVIOUS
<1>1. Editors
  <2>1. term \in [Processes -> Terminals] /\ \A p \in Processes : term[p] = NoTerminal
    BY NoTerminalSound DEF Init
  <2>2. pc \in [Processes -> Places]
    BY DEF Init, Places
  <2> QED
    BY <2>1, <2>2 DEF Editors
<1>2. Saves
  <2>1. Missing \in Seq(Entries)
    BY MissingSound
  <2>2. NotSaving \in [written : 0..Len(Settings), ok : BOOLEAN]
    <3>1. Len(Settings) \in Nat
      BY SettingsAssumption, LenProperties
    <3> QED
      BY <3>1 DEF NotSaving
  <2>3. Default \in Configs
    BY SettingsAssumption
  <2>4. \A p \in Processes : pc[p] = "off" /\ temporary[p] = Missing
    BY DEF Init
  <2>5. pc \in [Processes -> Places]
    BY DEF Init, Places
  <2>6. prefs \in [Processes -> Configs]
    BY <2>3 DEF Init
  <2>7. saving \in [Processes -> [written : 0..Len(Settings), ok : BOOLEAN]]
    BY <2>2 DEF Init
  <2>8. temporary \in [Processes -> Seq(Entries)]
    BY <2>1 DEF Init
  <2>9. scene \in Scenes /\ preferences \in scene.files \cup Preferences
    BY DEF Init
  <2> QED
    BY <2>4, <2>5, <2>6, <2>7, <2>8, <2>9 DEF Saves
<1>3. Closes
  <2>1. \A p \in Processes : ~Closing(p)
    BY DEF Init, Closing
  <2>2. historyFile \in Files /\ stored \in [Processes -> BOOLEAN] /\ pc \in [Processes -> Places]
    <3>1. historyFile \in Files
      BY EmptySeq DEF Init, Files
    <3>2. stored \in [Processes -> BOOLEAN] /\ pc \in [Processes -> Places]
      BY DEF Init, Places
    <3> QED
      BY <3>1, <3>2
  <2>3. ~saved.valid
    BY DEF Init, Unknown
  <2> QED
    BY <2>1, <2>2, <2>3 DEF Closes
<1> QED
  BY <1>1, <1>2, <1>3 DEF IndInv

-----------------------------------------------------------------------------
(* How the steps keep it. *)

\* A process goes on, neither from nor to where a file is written.
Passes(p) == \E w \in Places \ {"off", "saving", "closing"} :
                pc[p] \notin {"off", "saving", "closing"} /\ pc' = [pc EXCEPT ![p] = w]

\* A step at the terminal: all the lines that are read and evaluated.
Talks(p) == Passes(p) /\ TerminalsKept(p) /\ UNCHANGED <<config, stored, files, scene>>

\* A step of .config.
Configures(p) ==
    /\ pc[p] \in {"command", "saving"} /\ (\E w \in {"ready", "saving"} : pc' = [pc EXCEPT ![p] = w])
    /\ UNCHANGED <<term, stored, files, scene>>

\* The first part survives a step that leaves a terminal in good order, at any place of the process.
LEMMA EditorsKept ==
  ASSUME Editors, NEW p \in Processes, TerminalsKept(p), NEW w \in Places, pc' = [pc EXCEPT ![p] = w],
         w = "off" => term'[p] = NoTerminal
  PROVE  Editors'
<1>1. pc' \in [Processes -> Places] /\ pc'[p] = w /\ \A q \in Processes : q # p => pc'[q] = pc[q]
  BY DEF Editors
<1>2. term' \in [Processes -> Terminals] /\ \A q \in Processes : q # p => term'[q] = term[q]
  BY DEF TerminalsKept
<1>3. ASSUME NEW q \in Processes, pc'[q] = "off"
      PROVE  term'[q] = NoTerminal
  <2>1. CASE q = p
    BY <1>1, <1>3, <2>1
  <2>2. CASE q # p
    BY <1>1, <1>2, <1>3, <2>2 DEF Editors
  <2> QED
    BY <2>1, <2>2
<1> QED
  BY <1>1, <1>2, <1>3 DEF Editors

\* A step that only talks, to the user or to the interpreter, disturbs nothing else.
LEMMA TalksIndInv ==
  ASSUME IndInv, NEW p \in Processes, Talks(p)
  PROVE  IndInv'
<1>1. PICK w \in Places \ {"off", "saving", "closing"} :
         pc[p] \notin {"off", "saving", "closing"} /\ pc' = [pc EXCEPT ![p] = w]
  BY DEF Talks, Passes
<1>2. UNCHANGED <<prefs, saving, temporary, preferences, scene, stored, historyFile, saved, crossed>>
  BY DEF Talks, config, files
<1>3. pc' \in [Processes -> Places] /\ pc'[p] = w /\ \A q \in Processes : q # p => pc'[q] = pc[q]
  BY <1>1 DEF IndInv, Editors, Places
<1>4. Editors'
  BY <1>1, EditorsKept DEF IndInv, Talks
<1>5. Saves'
  <2>1. \A q \in Processes : (pc'[q] = "saving") = (pc[q] = "saving")
    BY <1>1, <1>3
  <2> QED
    BY <1>2, <1>3, <2>1 DEF IndInv, Saves
<1>6. Closes'
  <2>1. \A q \in Processes : Closing(q)' = Closing(q)
    BY <1>1, <1>2, <1>3 DEF Closing
  <2> QED
    BY <1>2, <1>3, <2>1 DEF IndInv, Closes
<1> QED
  BY <1>4, <1>5, <1>6 DEF IndInv

\* A step about preferences leaves terminals and histories alone.
LEMMA ConfiguresIndInv ==
  ASSUME IndInv, NEW p \in Processes, Configures(p), Saves'
  PROVE  IndInv'
<1>1. PICK w \in {"ready", "saving"} : pc[p] \in {"command", "saving"} /\ pc' = [pc EXCEPT ![p] = w]
  BY DEF Configures
<1>2. UNCHANGED <<term, scene, stored, historyFile, saved, crossed>>
  BY DEF Configures, files
<1>3. pc' \in [Processes -> Places] /\ pc'[p] = w /\ \A q \in Processes : q # p => pc'[q] = pc[q]
  BY <1>1 DEF IndInv, Editors, Places
<1>4. Editors'
  BY <1>1, <1>2, <1>3, EditorsKept DEF IndInv, Editors, TerminalsKept, Places
<1>5. Closes'
  <2>1. \A q \in Processes : Closing(q)' = Closing(q)
    BY <1>1, <1>2, <1>3 DEF Closing
  <2> QED
    BY <1>2, <1>3, <2>1 DEF IndInv, Closes
<1> QED
  BY <1>4, <1>5 DEF IndInv

\* A process that stays where it is passes too.
LEMMA StaysPasses ==
  ASSUME IndInv, NEW p \in Processes, pc[p] \in {"ready", "reading", "line", "command", "ending"}, pc' = pc
  PROVE  Passes(p)
<1>1. pc = [pc EXCEPT ![p] = pc[p]] /\ pc[p] \in Places \ {"off", "saving", "closing"}
  BY DEF IndInv, Editors, Places
<1> QED
  BY <1>1 DEF Passes

\* And one that goes on.
LEMMA GoesPasses ==
  ASSUME NEW p \in Processes, pc[p] \in {"ready", "reading", "line", "command", "ending"},
         NEW w \in {"ready", "reading", "line", "command", "ending"}, Go(p, w)
  PROVE  Passes(p)
<1>1. w \in Places \ {"off", "saving", "closing"} /\ pc[p] \notin {"off", "saving", "closing"}
  BY DEF Places
<1> QED
  BY <1>1 DEF Passes, Go

\* The steps that only talk.
LEMMA PromptTalks ==
  ASSUME IndInv, NEW p \in Processes, Prompt(p)
  PROVE  Talks(p)
<1>1. pc[p] = "ready" /\ Begin(p) /\ Go(p, "reading")
  BY DEF Prompt, At
<1>2. TerminalsKept(p)
  BY <1>1, BeginKeeps DEF IndInv, Editors
<1>3. Passes(p)
  BY <1>1, GoesPasses
<1> QED
  BY <1>2, <1>3 DEF Talks, Prompt, session

\* A key changes the read it is typed in, or begins one inside it.
LEMMA KeyTalks ==
  ASSUME IndInv, NEW p \in Processes, NEW k \in Keys, Key(p, k)
  PROVE  Talks(p)
<1>1. pc[p] = "reading" /\ pc' = pc
  BY DEF Key, Typed, At
<1>2. term \in [Processes -> Terminals]
  BY DEF IndInv, Editors
<1>3. TerminalsKept(p)
  <2>1. CASE Move(p, k)
    BY <1>2, <2>1, MoveKeeps
  <2>2. CASE k \in {"rest", "before", "word", "erase", "delete"} /\ CutOut(p, k)
    BY <1>2, <2>2, CutOutKeeps
  <2>3. CASE k \in {"up", "down"} /\ Recall(p, k)
    BY <1>2, <2>3, RecallKeeps
  <2>4. CASE Search(p)
    BY <1>2, <2>4, SearchKeeps
  <2>5. CASE Begin(p)
    BY <1>2, <2>5, BeginKeeps
  <2>6. CASE k \in Chars /\ Insert(p, k)
    BY <1>2, <2>6, InsertKeeps
  <2> QED
    BY <2>1, <2>2, <2>3, <2>4, <2>5, <2>6 DEF Key
<1>4. Passes(p)
  BY <1>1, StaysPasses
<1> QED
  BY <1>3, <1>4 DEF Talks, Key, Typed, session

\* A suggestion goes into the line.
LEMMA TabTalks ==
  ASSUME IndInv, NEW p \in Processes, NEW suffix \in Suggestions, Tab(p, suffix)
  PROVE  Talks(p)
<1>1. pc[p] = "reading" /\ pc' = pc /\ Complete(p, suffix)
  BY DEF Tab, Typed, At
<1>2. TerminalsKept(p)
  BY <1>1, CompleteKeeps DEF IndInv, Editors
<1>3. Passes(p)
  BY <1>1, StaysPasses
<1> QED
  BY <1>2, <1>3 DEF Talks, Tab, Typed, session

\* A line goes to the prompt, or to the hint that asked for it.
LEMMA EnterTalks ==
  ASSUME IndInv, NEW p \in Processes, Enter(p)
  PROVE  Talks(p)
<1>1. pc[p] = "reading" /\ Accept(p) /\ (pc' = pc \/ Go(p, "line") \/ Go(p, "ending"))
  BY DEF Enter, At
<1>2. TerminalsKept(p)
  BY <1>1, AcceptKeeps DEF IndInv, Editors
<1>3. Passes(p)
  BY <1>1, StaysPasses, GoesPasses
<1> QED
  BY <1>2, <1>3 DEF Talks, Enter

\* The end of the input ends a read, and the innermost only.
LEMMA EndOfInputTalks ==
  ASSUME IndInv, NEW p \in Processes, EndOfInput(p)
  PROVE  Talks(p)
<1>1. pc[p] = "reading" /\ GiveUp(p) /\ (pc' = pc \/ Go(p, "line") \/ Go(p, "ending"))
  <2>1. pc' = pc \/ Go(p, IF pending[p] THEN "line" ELSE "ending")
    BY DEF EndOfInput
  <2> QED
    BY <2>1 DEF EndOfInput, At
<1>2. TerminalsKept(p)
  BY <1>1, GiveUpKeeps DEF IndInv, Editors
<1>3. Passes(p)
  BY <1>1, StaysPasses, GoesPasses
<1> QED
  BY <1>2, <1>3 DEF Talks, EndOfInput

\* An interrupt ends every read.
LEMMA InterruptTalks ==
  ASSUME IndInv, NEW p \in Processes, Interrupt(p)
  PROVE  Talks(p)
<1>1. pc[p] = "reading" /\ Go(p, "ready") /\ term' = [term EXCEPT ![p] = [term[p] EXCEPT !.reads = <<>>]]
  BY DEF Interrupt, At
<1>2. TerminalsKept(p)
  <2>1. term \in [Processes -> Terminals]
    BY DEF IndInv, Editors
  <2>2. term[p] \in Terminals /\ <<>> \in Seq(Reads(Len(term[p].history)))
    BY <2>1, EmptySeq
  <2>3. [history |-> term[p].history, reads |-> <<>>] \in Terminals
    BY <2>2, TerminalParts, TerminalMade
  <2>4. [term[p] EXCEPT !.reads = <<>>] = [history |-> term[p].history, reads |-> <<>>]
    BY <2>2, TerminalChanged, Zenon
  <2> QED
    BY <1>1, <2>1, <2>3, <2>4 DEF TerminalsKept
<1>3. Passes(p)
  BY <1>1, GoesPasses
<1> QED
  BY <1>2, <1>3 DEF Talks, Interrupt

\* What is entered is a command, or goes on being collected, or ends the process.
LEMMA HandleTalks ==
  ASSUME IndInv, NEW p \in Processes, NEW outcome \in {"quit", "command", "incomplete", "complete", "exit"},
         Handle(p, outcome)
  PROVE  Talks(p)
<1>1. pc[p] = "line" /\ UNCHANGED term
  BY DEF Handle, At
<1>2. Go(p, "ending") \/ Go(p, "command") \/ Go(p, "ready")
  <2>1. outcome = "quit" => Go(p, "ending")
    BY DEF Handle
  <2>2. outcome = "command" => Go(p, "command")
    BY DEF Handle
  <2>3. outcome = "exit" => Go(p, "ending")
    BY DEF Handle
  <2>4. outcome \in {"incomplete", "complete"} => Go(p, IF final[p] THEN "ending" ELSE "ready")
    BY DEF Handle
  <2> QED
    BY <2>1, <2>2, <2>3, <2>4
<1>3. TerminalsKept(p)
  BY <1>1 DEF IndInv, Editors, TerminalsKept
<1>4. Passes(p)
  BY <1>1, <1>2, GoesPasses
<1> QED
  BY <1>3, <1>4 DEF Talks, Handle

\* Commands about neither preferences nor files are answered.
LEMMA OtherCommandTalks ==
  ASSUME IndInv, NEW p \in Processes, OtherCommand(p)
  PROVE  Talks(p)
<1>1. pc[p] = "command" /\ Go(p, "ready") /\ UNCHANGED <<term, session, files, scene, config>>
  BY DEF OtherCommand, At, Done
<1>2. TerminalsKept(p)
  BY <1>1 DEF IndInv, Editors, TerminalsKept
<1>3. Passes(p)
  BY <1>1, GoesPasses
<1> QED
  BY <1>1, <1>2, <1>3 DEF Talks, session

\* A command that changes the preferences while no file is written.
LEMMA ChoiceIndInv ==
  ASSUME IndInv, NEW p \in Processes, pc[p] = "command", NEW c \in Configs,
         prefs' = [prefs EXCEPT ![p] = c], Done(p), UNCHANGED <<saving, temporary, preferences>>
  PROVE  IndInv'
<1>1. pc' = [pc EXCEPT ![p] = "ready"] /\ UNCHANGED <<term, stored, files, scene>>
  BY DEF Done, Go, session
<1>2. Configures(p)
  BY <1>1 DEF Configures
<1>3. Saves'
  <2>1. prefs' \in [Processes -> Configs] /\ pc' \in [Processes -> Places]
    BY <1>1 DEF IndInv, Saves, Places
  <2>2. \A q \in Processes : q # p => prefs'[q] = prefs[q] /\ pc'[q] = pc[q]
    BY <1>1 DEF IndInv, Saves
  <2>3. pc'[p] = "ready" /\ temporary[p] = Missing
    BY <1>1 DEF IndInv, Saves
  <2>4. /\ saving' = saving /\ temporary' = temporary /\ preferences' = preferences /\ scene' = scene
    BY <1>1
  <2>5. ASSUME NEW q \in Processes
        PROVE  /\ pc'[q] # "saving" => temporary'[q] = Missing
               /\ pc'[q] = "saving" /\ saving'[q].ok
                     => temporary'[q] = SubSeq(Written(prefs'[q]), 1, saving'[q].written)
    <3>1. CASE q = p
      BY <2>3, <2>4, <3>1
    <3>2. CASE q # p
      BY <2>2, <2>4, <3>2 DEF IndInv, Saves
    <3> QED
      BY <3>1, <3>2
  <2> QED
    BY <2>1, <2>4, <2>5 DEF IndInv, Saves
<1> QED
  BY <1>2, <1>3, ConfiguresIndInv

\* What is set is a value of the setting: "toggle" comes to one of its two (config_set).
LEMMA ChangeIndInv ==
  ASSUME IndInv, NEW p \in Processes, NEW setting \in Range(Settings),
         NEW value \in Values[setting] \cup {"toggle"}, Change(p, setting, value)
  PROVE  IndInv'
<1>1. PICK c \in Configs : c = prefs[p]
  BY DEF IndInv, Saves
<1>2. PICK to : to = IF value # "toggle" THEN value ELSE IF c[setting] = "on" THEN "off" ELSE "on"
  OBVIOUS
<1>3. to \in Values[setting]
  <2>1. CASE value # "toggle"
    BY <1>2, <2>1
  <2>2. CASE value = "toggle"
    <3>1. setting # "color"
      BY <2>2, SettingsAssumption DEF Change
    <3>2. {"on", "off"} \subseteq Values[setting]
      BY <3>1, SettingsAssumption
    <3> QED
      BY <1>2, <2>2, <3>2
  <2> QED
    BY <2>1, <2>2
<1>4. [c EXCEPT ![setting] = to] \in Configs
  BY <1>3, ConfigChanged
<1>5. prefs' = [prefs EXCEPT ![p] = [c EXCEPT ![setting] = to]]
  BY <1>1, <1>2 DEF Change
<1>6. pc[p] = "command" /\ Done(p) /\ UNCHANGED <<saving, temporary, preferences>>
  BY DEF Change, At
<1> QED
  BY <1>4, <1>5, <1>6, ChoiceIndInv

\* The defaults are preferences like others (config_defaults).
LEMMA ResetIndInv ==
  ASSUME IndInv, NEW p \in Processes, Reset(p)
  PROVE  IndInv'
<1>1. pc[p] = "command" /\ Done(p) /\ UNCHANGED <<saving, temporary, preferences>>
      /\ prefs' = [prefs EXCEPT ![p] = Default]
  BY DEF Reset, At
<1> QED
  BY <1>1, SettingsAssumption, ChoiceIndInv

\* A step of config_save, of which the other processes see nothing.
LEMMA SavingIndInv ==
  ASSUME IndInv, NEW p \in Processes, Configures(p), UNCHANGED prefs,
         NEW s \in [written : 0..Len(Settings), ok : BOOLEAN], NEW file \in Seq(Entries),
         saving' = [saving EXCEPT ![p] = s], temporary' = [temporary EXCEPT ![p] = file],
         preferences' \in scene.files \cup Preferences,
         IF pc'[p] = "saving" THEN s.ok => file = SubSeq(Written(prefs[p]), 1, s.written)
         ELSE file = Missing
  PROVE  IndInv'
<1>1. \E w \in {"ready", "saving"} : pc' = [pc EXCEPT ![p] = w]
  BY DEF Configures
<1>2. pc' \in [Processes -> Places] /\ \A q \in Processes : q # p => pc'[q] = pc[q]
  BY <1>1 DEF IndInv, Saves, Places
<1>3. /\ saving' \in [Processes -> [written : 0..Len(Settings), ok : BOOLEAN]]
      /\ saving'[p] = s /\ \A q \in Processes : q # p => saving'[q] = saving[q]
  BY DEF IndInv, Saves
<1>4. /\ temporary' \in [Processes -> Seq(Entries)]
      /\ temporary'[p] = file /\ \A q \in Processes : q # p => temporary'[q] = temporary[q]
  BY DEF IndInv, Saves
<1>5. ASSUME NEW q \in Processes
      PROVE  /\ pc'[q] # "saving" => temporary'[q] = Missing
             /\ pc'[q] = "saving" /\ saving'[q].ok
                   => temporary'[q] = SubSeq(Written(prefs'[q]), 1, saving'[q].written)
  <2>1. CASE q = p
    BY <1>3, <1>4, <2>1
  <2>2. CASE q # p
    BY <1>2, <1>3, <1>4, <2>2 DEF IndInv, Saves
  <2> QED
    BY <2>1, <2>2
<1>6. prefs' \in [Processes -> Configs] /\ scene' = scene /\ scene' \in Scenes
  BY DEF IndInv, Saves, Configures
<1>7. Saves'
  BY <1>2, <1>3, <1>4, <1>5, <1>6 DEF Saves
<1> QED
  BY <1>7, ConfiguresIndInv

\* A save begins with an empty temporary file.
LEMMA SaveOpenIndInv ==
  ASSUME IndInv, NEW p \in Processes, SaveOpen(p)
  PROVE  IndInv'
<1>1. pc[p] = "command" /\ pc' = [pc EXCEPT ![p] = "saving"] /\ pc'[p] = "saving"
  BY DEF SaveOpen, At, Go, IndInv, Saves
<1>2. Configures(p)
  BY <1>1 DEF Configures, SaveOpen, session
<1>3. NotSaving \in [written : 0..Len(Settings), ok : BOOLEAN] /\ NotSaving.written = 0
  <2>1. Len(Settings) \in Nat
    BY SettingsAssumption, LenProperties
  <2> QED
    BY <2>1 DEF NotSaving
<1>4. <<>> \in Seq(Entries) /\ <<>> = SubSeq(Written(prefs[p]), 1, 0)
  BY EmptySeq, SubSeqEmpty
<1>5. saving' = [saving EXCEPT ![p] = NotSaving] /\ temporary' = [temporary EXCEPT ![p] = <<>>]
      /\ UNCHANGED prefs /\ preferences' \in scene.files \cup Preferences
  BY DEF SaveOpen, IndInv, Saves
<1> QED
  BY <1>1, <1>2, <1>3, <1>4, <1>5, SavingIndInv

\* Each line written is the next one of the preferences, or the save has failed.
LEMMA SaveLineIndInv ==
  ASSUME IndInv, NEW p \in Processes, NEW fits \in BOOLEAN, SaveLine(p, fits)
  PROVE  IndInv'
<1>1. pc[p] = "saving" /\ pc' = pc /\ pc' = [pc EXCEPT ![p] = "saving"] /\ pc'[p] = "saving"
  BY DEF SaveLine, At, IndInv, Saves
<1>2. Configures(p)
  BY <1>1 DEF Configures, SaveLine, session
<1>3. PICK s \in [written : 0..Len(Settings), ok : BOOLEAN], c \in Configs : s = saving[p] /\ c = prefs[p]
  BY DEF IndInv, Saves
<1>4. PICK n \in Nat : n = s.written
  BY <1>3
<1>5. n + 1 \in 1..Len(Settings) /\ n + 1 \in 0..Len(Settings) /\ Len(Settings) \in Nat
  <2>1. n + 1 <= Len(Settings)
    BY <1>3, <1>4 DEF SaveLine
  <2>2. Len(Settings) \in Nat
    BY SettingsAssumption, LenProperties
  <2> QED
    BY <2>1, <2>2
<1>6. /\ Written(c) \in Seq(Entries) /\ n + 1 \in 1..Len(Written(c)) /\ Written(c)[n + 1] \in Entries
      /\ n + 1 \in 0..Len(Written(c))
  BY <1>5, WrittenSound, ElementOfSeq
<1> DEFINE new  == [written |-> n + 1, ok |-> s.ok /\ fits]
           file == IF fits THEN Append(temporary[p], Written(c)[n + 1]) ELSE temporary[p]
<1>7. new \in [written : 0..Len(Settings), ok : BOOLEAN]
  BY <1>5
<1>8. file \in Seq(Entries) /\ temporary[p] \in Seq(Entries)
  <2>1. temporary[p] \in Seq(Entries)
    BY DEF IndInv, Saves
  <2> QED
    BY <1>6, <2>1, AppendProperties
<1>9. saving' = [saving EXCEPT ![p] = new]
  BY <1>3, <1>4 DEF SaveLine
<1>10. temporary' = [temporary EXCEPT ![p] = file]
  <2>1. temporary \in [Processes -> Seq(Entries)]
    BY DEF IndInv, Saves
  <2>2. CASE fits
    BY <1>3, <1>4, <2>2 DEF SaveLine
  <2>3. CASE ~fits
    <3>1. temporary' = temporary
      BY <2>3 DEF SaveLine
    <3> QED
      BY <2>1, <2>3, <3>1
  <2> QED
    BY <2>2, <2>3
<1>11. new.ok => file = SubSeq(Written(prefs[p]), 1, new.written)
  <2> SUFFICES ASSUME s.ok, fits PROVE file = SubSeq(Written(c), 1, n + 1)
    BY <1>3
  <2>1. temporary[p] = SubSeq(Written(c), 1, n)
    BY <1>1, <1>3, <1>4 DEF IndInv, Saves
  <2>2. n + 1 - 1 = n
    OBVIOUS
  <2>3. Append(SubSeq(Written(c), 1, n), Written(c)[n + 1]) = SubSeq(Written(c), 1, n + 1)
    BY <1>6, <2>2, PrefixGrows
  <2> QED
    BY <2>1, <2>3
<1>12. UNCHANGED prefs /\ preferences' \in scene.files \cup Preferences
  BY DEF SaveLine, IndInv, Saves
<1> HIDE DEF new, file
<1> QED
  BY <1>1, <1>2, <1>7, <1>8, <1>9, <1>10, <1>11, <1>12, SavingIndInv

\* Only a file with every line replaces the preferences (config_save).
LEMMA SaveEndIndInv ==
  ASSUME IndInv, NEW p \in Processes, NEW renamed \in BOOLEAN, SaveEnd(p, renamed)
  PROVE  IndInv'
<1>1. pc[p] = "saving" /\ pc' = [pc EXCEPT ![p] = "ready"] /\ pc'[p] # "saving"
  BY DEF SaveEnd, At, Done, Go, IndInv, Saves
<1>2. Configures(p)
  BY <1>1 DEF Configures, SaveEnd, Done, session
<1>3. NotSaving \in [written : 0..Len(Settings), ok : BOOLEAN] /\ Len(Settings) \in Nat
  <2>1. Len(Settings) \in Nat
    BY SettingsAssumption, LenProperties
  <2> QED
    BY <2>1 DEF NotSaving
<1>4. Missing \in Seq(Entries)
  BY MissingSound
<1>5. preferences' \in scene.files \cup Preferences
  <2>1. CASE TakesPlace(saving[p]) /\ renamed
    <3>1. PICK c \in Configs : c = prefs[p]
      BY DEF IndInv, Saves
    <3>2. saving[p].ok /\ saving[p].written = Len(Settings)
      BY <2>1 DEF TakesPlace
    <3>3. temporary[p] = SubSeq(Written(c), 1, Len(Settings))
      BY <1>1, <3>1, <3>2 DEF IndInv, Saves
    <3>4. SubSeq(Written(c), 1, Len(Settings)) = Written(c)
      BY WrittenSound, SubSeqFull
    <3>5. preferences' = Written(c)
      BY <2>1, <3>3, <3>4 DEF SaveEnd
    <3> QED
      BY <3>5 DEF Preferences
  <2>2. CASE ~(TakesPlace(saving[p]) /\ renamed)
    BY <2>2 DEF SaveEnd, IndInv, Saves
  <2> QED
    BY <2>1, <2>2
<1>6. saving' = [saving EXCEPT ![p] = NotSaving] /\ temporary' = [temporary EXCEPT ![p] = Missing]
      /\ UNCHANGED prefs
  BY DEF SaveEnd
<1> QED
  BY <1>1, <1>2, <1>3, <1>4, <1>5, <1>6, SavingIndInv

\* The preferences a process starts with are some.
LEMMA ChosenSound ==
  ASSUME Saves, NEW file, file = <<>> \/ file = preferences, NEW colorOption \in {"none"} \cup Values["color"]
  PROVE  LET loaded == IF Parsed(file).ok THEN Parsed(file).config ELSE Default
         IN  (IF colorOption = "none" THEN loaded ELSE [loaded EXCEPT !["color"] = colorOption]) \in Configs
<1> DEFINE loaded == IF Parsed(file).ok THEN Parsed(file).config ELSE Default
<1> SUFFICES (IF colorOption = "none" THEN loaded ELSE [loaded EXCEPT !["color"] = colorOption]) \in Configs
  OBVIOUS
<1>1. file \in Seq(Entries)
  <2>1. CASE file = <<>>
    BY <2>1, EmptySeq
  <2>2. CASE file \in scene.files
    <3>1. file \in Seq(STRING \X STRING)
      BY <2>2, ScenesAssumption DEF Saves
    <3>2. STRING \X STRING \subseteq Entries
      <4>1. STRING \subseteq STRING \cup {"no file"} /\ STRING \subseteq STRING \cup {"none"}
        BY Zenon
      <4> QED
        BY <4>1, Zenon DEF Entries
    <3> QED
      BY <3>1, <3>2, SeqMonotonic
  <2>3. CASE file \in Preferences
    BY <2>3, WrittenSound DEF Preferences
  <2> QED
    BY <2>1, <2>2, <2>3 DEF Saves
<1>2. loaded \in Configs
  BY <1>1, ParsedSound, SettingsAssumption DEF ParseState
<1> HIDE DEF loaded
<1>3. CASE colorOption = "none"
  BY <1>2, <1>3
<1>4. CASE colorOption # "none"
  <2>1. [loaded EXCEPT !["color"] = colorOption] \in Configs
    BY <1>2, <1>4, SettingsAssumption, ConfigChanged
  <2> QED
    BY <1>4, <2>1
<1> QED
  BY <1>3, <1>4

\* A process that starts reads a history within its limits, and preferences that are whole.
LEMMA StartIndInv ==
  ASSUME IndInv, NEW p \in Processes, NEW noConfig \in BOOLEAN, NEW explicit \in BOOLEAN,
         NEW noHistory \in BOOLEAN, NEW colorOption \in {"none"} \cup Values["color"],
         Start(p, noConfig, explicit, colorOption, noHistory)
  PROVE  IndInv'
<1>1. pc[p] = "off" /\ pc' = [pc EXCEPT ![p] = "ready"]
  BY DEF Start, At, Go
<1>2. UNCHANGED <<saving, temporary, preferences, historyFile, saved, crossed, scene>>
  BY DEF Start, files
<1>3. /\ pc' \in [Processes -> Places] /\ pc'[p] = "ready"
      /\ \A q \in Processes : q # p => pc'[q] = pc[q]
  BY <1>1 DEF IndInv, Editors, Places
<1>4. PICK h \in Histories : term' = [term EXCEPT ![p] = [term[p] EXCEPT !.history = h]]
  <2>1. (IF noHistory THEN <<>> ELSE Loaded(historyFile)) \in Histories
    BY EmptyOnes, LoadedSound DEF IndInv, Closes
  <2>2. term' = [term EXCEPT ![p].history = IF noHistory THEN <<>> ELSE Loaded(historyFile)]
    BY DEF Start
  <2> QED
    BY <2>1, <2>2
<1>5. TerminalsKept(p)
  <2>1. term \in [Processes -> Terminals] /\ term[p] = NoTerminal
    BY <1>1 DEF IndInv, Editors
  <2>2. term[p].reads = <<>> /\ <<>> \in Seq(Reads(Len(h)))
    BY <2>1, EmptySeq DEF NoTerminal
  <2>3. [history |-> h, reads |-> term[p].reads] \in Terminals
    BY <2>2, TerminalMade
  <2>4. [term[p] EXCEPT !.history = h] = [history |-> h, reads |-> term[p].reads]
    BY <2>1, NoTerminalSound, TerminalChanged, Zenon
  <2> QED
    BY <1>4, <2>1, <2>3, <2>4 DEF TerminalsKept
<1>6. Editors'
  <2>1. "ready" \in Places /\ "ready" # "off"
    BY DEF Places
  <2> QED
    BY <1>1, <1>5, <2>1, EditorsKept DEF IndInv
<1>7. Saves'
  <2>1. PICK file : file = IF noConfig \/ preferences = Missing THEN <<>> ELSE preferences
    OBVIOUS
  <2>2. file = <<>> \/ file = preferences
    BY <2>1
  <2>3. PICK c \in Configs : prefs' = [prefs EXCEPT ![p] = c]
    <3> DEFINE loaded == IF Parsed(file).ok THEN Parsed(file).config ELSE Default
               chosen == IF colorOption = "none" THEN loaded ELSE [loaded EXCEPT !["color"] = colorOption]
    <3>1. chosen \in Configs
      BY <2>2, ChosenSound DEF IndInv
    <3>2. prefs' = [prefs EXCEPT ![p] = chosen]
      BY <2>1 DEF Start
    <3> HIDE DEF chosen
    <3> QED
      BY <3>1, <3>2
  <2>4. prefs' \in [Processes -> Configs] /\ \A q \in Processes : q # p => prefs'[q] = prefs[q]
    BY <2>3 DEF IndInv, Saves
  <2>5. ASSUME NEW q \in Processes
        PROVE  /\ pc'[q] # "saving" => temporary'[q] = Missing
               /\ pc'[q] = "saving" /\ saving'[q].ok
                     => temporary'[q] = SubSeq(Written(prefs'[q]), 1, saving'[q].written)
    <3>1. CASE q = p
      BY <1>1, <1>2, <1>3, <3>1 DEF IndInv, Saves
    <3>2. CASE q # p
      BY <1>2, <1>3, <2>4, <3>2 DEF IndInv, Saves
    <3> QED
      BY <3>1, <3>2
  <2> QED
    BY <1>2, <1>3, <2>4, <2>5 DEF IndInv, Saves
<1>8. Closes'
  <2>1. stored' \in [Processes -> BOOLEAN] /\ \A q \in Processes : q # p => stored'[q] = stored[q]
    BY DEF Start, IndInv, Closes
  <2>2. \A q \in Processes : Closing(q)' = Closing(q)
    BY <1>1, <1>3, <2>1 DEF Closing
  <2> QED
    BY <1>2, <1>3, <2>1, <2>2 DEF IndInv, Closes
<1> QED
  BY <1>6, <1>7, <1>8 DEF IndInv

\* Who empties the file of histories and those who have emptied it and not yet written are crossed.
LEMMA EndOpenIndInv ==
  ASSUME IndInv, NEW p \in Processes, EndOpen(p)
  PROVE  IndInv'
<1>1. pc[p] = "ending" /\ pc' = [pc EXCEPT ![p] = "closing"]
  BY DEF EndOpen, At, Go
<1>2. UNCHANGED <<term, prefs, saving, temporary, preferences, stored, scene>>
  BY DEF EndOpen, config, session
<1>3. /\ pc' \in [Processes -> Places] /\ pc'[p] = "closing"
      /\ \A q \in Processes : q # p => pc'[q] = pc[q]
  BY <1>1 DEF IndInv, Editors, Places
<1>4. Editors'
  <2>1. TerminalsKept(p)
    BY <1>2 DEF IndInv, Editors, TerminalsKept
  <2>2. "closing" \in Places /\ "closing" # "off"
    BY DEF Places
  <2> QED
    BY <1>1, <2>1, <2>2, EditorsKept DEF IndInv
<1>5. Saves'
  <2>1. \A q \in Processes : (pc'[q] = "saving") = (pc[q] = "saving")
    BY <1>1, <1>3
  <2> QED
    BY <1>2, <1>3, <2>1 DEF IndInv, Saves
<1>6. Closes'
  <2>1. \A q \in Processes : Closing(q)' = (Closing(q) \/ (q = p /\ stored[p]))
    BY <1>1, <1>2, <1>3 DEF Closing
  <2>2. stored' \in [Processes -> BOOLEAN]
    BY <1>2 DEF IndInv, Closes
  <2>3. CASE stored[p]
    <3> DEFINE others == {q \in Processes \ {p} : Closing(q)}
    <3>1. /\ historyFile' = <<>> /\ ~saved'.valid
          /\ crossed' = IF others = {} THEN crossed \ {p} ELSE crossed \cup others \cup {p}
      BY <2>3 DEF EndOpen, Opened, Unknown, Closing
    <3>2. historyFile' \in Files
      BY <3>1, EmptySeq DEF Files
    <3>3. ASSUME NEW q \in Processes, Closing(q)', q \notin crossed', NEW o \in Processes, Closing(o)'
          PROVE  o = q
      <4>1. CASE others = {}
        <5>1. \A x \in Processes : Closing(x)' => x = p
          BY <1>1, <2>1, <4>1 DEF Closing
        <5> QED
          BY <3>3, <5>1
      <4>2. CASE others # {}
        <5>1. q \notin others /\ q # p
          BY <3>1, <3>3, <4>2
        <5> QED
          BY <2>1, <3>3, <5>1
      <4> QED
        BY <4>1, <4>2
    <3> QED
      BY <1>3, <2>2, <3>1, <3>2, <3>3 DEF Closes
  <2>4. CASE ~stored[p]
    <3>1. UNCHANGED <<historyFile, saved, crossed>>
      BY <2>4 DEF EndOpen, files
    <3>2. \A q \in Processes : Closing(q)' = Closing(q)
      BY <1>1, <1>2, <1>3, <2>4 DEF Closing
    <3> QED
      BY <1>3, <2>2, <3>1, <3>2 DEF IndInv, Closes
  <2> QED
    BY <2>3, <2>4
<1> QED
  BY <1>4, <1>5, <1>6 DEF IndInv

\* Another process keeps what it has when this one ends.
LEMMA OffKeeps ==
  ASSUME Editors, NEW p \in Processes, pc' = [pc EXCEPT ![p] = "off"],
         term' = [term EXCEPT ![p] = NoTerminal]
  PROVE  Editors' /\ pc'[p] = "off" /\ \A q \in Processes : q # p => pc'[q] = pc[q]
<1>1. TerminalsKept(p) /\ term'[p] = NoTerminal
  BY NoTerminalSound DEF Editors, TerminalsKept
<1>2. "off" \in Places
  BY DEF Places
<1>3. Editors'
  BY <1>1, <1>2, EditorsKept
<1> QED
  BY <1>3 DEF Editors

\* Who was not crossed writes its history into an empty file, with nobody else about to.
LEMMA EndWriteIndInv ==
  ASSUME IndInv, NEW p \in Processes, EndWrite(p)
  PROVE  IndInv'
<1>1. pc[p] = "closing" /\ pc' = [pc EXCEPT ![p] = "off"] /\ term' = [term EXCEPT ![p] = NoTerminal]
  BY DEF EndWrite, At, Go
<1>2. UNCHANGED <<prefs, saving, temporary, preferences, stored, crossed, scene>>
  BY DEF EndWrite, config
<1>3. Editors' /\ pc'[p] = "off" /\ \A q \in Processes : q # p => pc'[q] = pc[q]
  BY <1>1, OffKeeps DEF IndInv
<1>4. pc' \in [Processes -> Places]
  BY <1>3 DEF Editors
<1>5. Saves'
  <2>1. \A q \in Processes : (pc'[q] = "saving") = (pc[q] = "saving")
    BY <1>1, <1>3
  <2> QED
    BY <1>2, <1>4, <2>1 DEF IndInv, Saves
<1>6. Closes'
  <2>1. \A q \in Processes : Closing(q)' => Closing(q) /\ q # p
    BY <1>1, <1>2, <1>3 DEF Closing
  <2>2. stored' \in [Processes -> BOOLEAN]
    BY <1>2 DEF IndInv, Closes
  <2>3. CASE ~stored[p]
    <3>1. UNCHANGED <<historyFile, saved>>
      BY <2>3 DEF EndWrite
    <3>2. \A q \in Processes : Closing(q)' = Closing(q)
      BY <1>1, <1>2, <1>3, <2>3 DEF Closing
    <3> QED
      BY <1>2, <1>4, <2>2, <3>1, <3>2 DEF IndInv, Closes
  <2>4. CASE stored[p]
    <3>1. PICK h \in Histories : h = History(p)
      <4>1. term[p] \in Terminals
        BY DEF IndInv, Editors
      <4> QED
        BY <4>1, TerminalParts DEF History
    <3>2. Closing(p)
      BY <1>1, <2>4 DEF Closing
    <3>3. Text(h) \in Files /\ Len(Text(h)) \in Nat
      <4>1. 0 \in 0..Len(h)
        BY TextSteps
      <4> QED
        BY <4>1, TextBegins
    <3>4. /\ historyFile' = Text(h) \o SubSeq(historyFile, Len(Text(h)) + 1, Len(historyFile))
          /\ saved' = IF p \in crossed THEN Unknown ELSE [valid |-> TRUE, history |-> h]
      BY <2>4, <3>1 DEF EndWrite
    <3>5. historyFile \in Files /\ Len(historyFile) \in Nat
      BY LenProperties DEF IndInv, Closes, Files
    <3>6. historyFile' \in Files
      <4> DEFINE rest == SubSeq(historyFile, Len(Text(h)) + 1, Len(historyFile))
      <4>1. rest \in Files
        <5>1. \A i \in Len(Text(h)) + 1..Len(historyFile) : i \in 1..Len(historyFile)
          BY <3>3, <3>5
        <5>2. \A i \in Len(Text(h)) + 1..Len(historyFile) : historyFile[i] \in Chars \cup {Newline}
          BY <3>5, <5>1, ElementOfSeq DEF Files
        <5> QED
          BY <3>3, <3>5, <5>2, SubSeqProperties DEF Files
      <4> HIDE DEF rest
      <4>2. Text(h) \o rest \in Files
        BY <3>3, <4>1, ConcatProperties DEF Files
      <4> QED
        BY <3>4, <4>2 DEF rest
    <3>7. ASSUME NEW q \in Processes, Closing(q)', q \notin crossed'
          PROVE  FALSE
      <4>1. Closing(q) /\ q # p /\ q \notin crossed
        BY <1>2, <2>1, <3>7
      <4> QED
        BY <3>2, <4>1 DEF IndInv, Closes
    <3>8. CASE p \in crossed
      <4>1. ~saved'.valid
        BY <3>4, <3>8 DEF Unknown
      <4> QED
        BY <1>4, <2>2, <3>6, <3>7, <4>1 DEF Closes
    <3>9. CASE p \notin crossed
      <4>1. historyFile = <<>> /\ \A q \in Processes : Closing(q) => q = p
        BY <3>2, <3>9 DEF IndInv, Closes
      <4>2. SubSeq(historyFile, Len(Text(h)) + 1, Len(historyFile)) = <<>>
        <5>1. Len(historyFile) = 0
          BY <4>1, EmptySeq
        <5> QED
          BY <3>3, <5>1, SubSeqEmpty
      <4>3. Text(h) \o <<>> = Text(h)
        BY <3>3, ConcatEmptySeq DEF Files
      <4>4. historyFile' = Text(h) /\ saved'.history = h
        BY <3>4, <3>9, <4>2, <4>3
      <4>5. \A q \in Processes : ~(Closing(q)')
        BY <2>1, <4>1
      <4> QED
        BY <1>4, <2>2, <3>6, <3>7, <4>4, <4>5 DEF Closes
    <3> QED
      BY <3>8, <3>9
  <2> QED
    BY <2>3, <2>4
<1> QED
  BY <1>3, <1>5, <1>6 DEF IndInv

\* A process killed at any moment leaves its temporary file under a name that no save uses again.
LEMMA CrashIndInv ==
  ASSUME IndInv, NEW p \in Processes, Crash(p)
  PROVE  IndInv'
<1>1. pc' = [pc EXCEPT ![p] = "off"] /\ term' = [term EXCEPT ![p] = NoTerminal]
  BY DEF Crash, Go
<1>2. UNCHANGED <<prefs, preferences, stored, historyFile, saved, crossed, scene>>
  BY DEF Crash, files
<1>3. Editors' /\ pc'[p] = "off" /\ \A q \in Processes : q # p => pc'[q] = pc[q]
  BY <1>1, OffKeeps DEF IndInv
<1>4. pc' \in [Processes -> Places]
  BY <1>3 DEF Editors
<1>5. Saves'
  <2>1. Len(Settings) \in Nat
    BY SettingsAssumption, LenProperties
  <2>2. /\ saving' \in [Processes -> [written : 0..Len(Settings), ok : BOOLEAN]]
        /\ \A q \in Processes : q # p => saving'[q] = saving[q]
    BY <2>1 DEF Crash, NotSaving, IndInv, Saves
  <2>3. /\ temporary' \in [Processes -> Seq(Entries)] /\ temporary'[p] = Missing
        /\ \A q \in Processes : q # p => temporary'[q] = temporary[q]
    BY MissingSound DEF Crash, IndInv, Saves
  <2>4. ASSUME NEW q \in Processes
        PROVE  /\ pc'[q] # "saving" => temporary'[q] = Missing
               /\ pc'[q] = "saving" /\ saving'[q].ok
                     => temporary'[q] = SubSeq(Written(prefs'[q]), 1, saving'[q].written)
    <3>1. CASE q = p
      BY <1>3, <2>3, <3>1
    <3>2. CASE q # p
      BY <1>2, <1>3, <2>2, <2>3, <3>2 DEF IndInv, Saves
    <3> QED
      BY <3>1, <3>2
  <2> QED
    BY <1>2, <1>4, <2>2, <2>3, <2>4 DEF IndInv, Saves
<1>6. Closes'
  <2>1. \A q \in Processes : Closing(q)' => Closing(q)
    BY <1>2, <1>3 DEF Closing
  <2> QED
    BY <1>2, <1>4, <2>1 DEF IndInv, Closes
<1> QED
  BY <1>3, <1>5, <1>6 DEF IndInv

\* Every step keeps the invariant.
LEMMA NextIndInv == IndInv /\ [Next]_vars => IndInv'
<1> SUFFICES ASSUME IndInv, [Next]_vars PROVE IndInv'
  OBVIOUS
<1>1. CASE UNCHANGED vars
  BY <1>1 DEF vars, config, session, files, IndInv, Editors, Saves, Closes, Closing
<1>2. ASSUME NEW p \in Processes, NEW noConfig \in BOOLEAN, NEW explicit \in BOOLEAN, NEW noHistory \in BOOLEAN,
             NEW colorOption \in {"none"} \cup Values["color"],
             Start(p, noConfig, explicit, colorOption, noHistory)
      PROVE  IndInv'
  BY <1>2, StartIndInv
<1>3. ASSUME NEW p \in Processes, Prompt(p) \/ Enter(p) \/ EndOfInput(p) \/ Interrupt(p) \/ OtherCommand(p)
      PROVE  IndInv'
  BY <1>3, PromptTalks, EnterTalks, EndOfInputTalks, InterruptTalks, OtherCommandTalks, TalksIndInv
<1>4. ASSUME NEW p \in Processes, NEW k \in Keys, Key(p, k)
      PROVE  IndInv'
  BY <1>4, KeyTalks, TalksIndInv
<1>5. ASSUME NEW p \in Processes, NEW suffix \in Suggestions, Tab(p, suffix)
      PROVE  IndInv'
  BY <1>5, TabTalks, TalksIndInv
<1>6. ASSUME NEW p \in Processes, NEW outcome \in {"quit", "command", "incomplete", "complete", "exit"},
             Handle(p, outcome)
      PROVE  IndInv'
  BY <1>6, HandleTalks, TalksIndInv
<1>7. ASSUME NEW p \in Processes, NEW setting \in Range(Settings), NEW value \in Values[setting] \cup {"toggle"},
             Change(p, setting, value)
      PROVE  IndInv'
  BY <1>7, ChangeIndInv
<1>8. ASSUME NEW p \in Processes, Reset(p) \/ SaveOpen(p) \/ EndOpen(p) \/ EndWrite(p) \/ Crash(p)
      PROVE  IndInv'
  BY <1>8, ResetIndInv, SaveOpenIndInv, EndOpenIndInv, EndWriteIndInv, CrashIndInv
<1>9. ASSUME NEW p \in Processes, NEW fits \in BOOLEAN, SaveLine(p, fits)
      PROVE  IndInv'
  BY <1>9, SaveLineIndInv
<1>10. ASSUME NEW p \in Processes, NEW renamed \in BOOLEAN, SaveEnd(p, renamed)
       PROVE  IndInv'
  BY <1>10, SaveEndIndInv
<1> QED
  BY <1>1, <1>2, <1>3, <1>4, <1>5, <1>6, <1>7, <1>8, <1>9, <1>10 DEF Next

-----------------------------------------------------------------------------
\* The invariant holds in every state of every behavior.
THEOREM Invariance == Spec => []IndInv
<1>1. Init => IndInv
  BY InitIndInv
<1>2. IndInv /\ [Next]_vars => IndInv'
  BY NextIndInv
<1> QED
  BY <1>1, <1>2, PTL DEF Spec

\* However keys, recalls, searches and reads inside reads follow each other, the
\* editor of every process stays within its line, its buffer and its history.
THEOREM EditorStaysInBounds == Spec => []EditorInBounds
<1>1. IndInv => EditorInBounds
  <2> SUFFICES ASSUME IndInv, NEW p \in Processes
               PROVE  /\ Count(p) <= HistoryLimit
                      /\ \A i \in 1..Count(p) : /\ History(p)[i] # <<>>
                                                /\ i > 1 => History(p)[i] # History(p)[i - 1]
                      /\ \A n \in DOMAIN term[p].reads :
                            LET r == term[p].reads[n]
                            IN  r.cursor \in 0..Length(r) /\ Length(r) <= LineLimit /\ r.index \in 0..Count(p)
    BY DEF EditorInBounds
  <2>1. term[p] \in Terminals
    BY DEF IndInv, Editors
  <2>2. PICK h \in Histories : h = term[p].history /\ h = History(p) /\ Len(h) \in Nat
    BY <2>1, TerminalParts DEF History
  <2>3. PICK reads \in Seq(Reads(Len(h))) : reads = term[p].reads
    BY <2>1, <2>2, TerminalParts
  <2>4. h \in Seq(Lines \ {<<>>}) /\ Len(h) <= HistoryLimit /\ \A i \in 2..Len(h) : h[i] # h[i - 1]
    BY DEF Histories
  <2>5. ASSUME NEW i \in 1..Len(h)
        PROVE  h[i] # <<>> /\ (i > 1 => h[i] # h[i - 1])
    <3>1. h[i] # <<>>
      BY <2>4, ElementOfSeq
    <3>2. i > 1 => i \in 2..Len(h)
      BY <2>2
    <3> QED
      BY <2>4, <3>1, <3>2
  <2>6. ASSUME NEW n \in DOMAIN reads
        PROVE  reads[n].cursor \in 0..Len(reads[n].line) /\ Len(reads[n].line) <= LineLimit
               /\ reads[n].index \in 0..Len(h)
    <3>1. reads[n] \in Reads(Len(h))
      BY LenProperties, ElementOfSeq
    <3> QED
      BY <2>2, <3>1, ReadParts
  <2> QED
    BY <2>2, <2>3, <2>4, <2>5, <2>6 DEF Count, Length
<1> QED
  BY <1>1, Invariance, PTL

\* Whoever is killed, runs out of disk or saves at the same time, the file of
\* preferences is one that a user wrote or the whole of what one process saved.
THEOREM PreferencesStayWhole == Spec => []PreferencesWhole
<1>1. IndInv => PreferencesWhole
  BY DEF IndInv, Saves, Preferences, PreferencesWhole
<1> QED
  BY <1>1, Invariance, PTL

\* What a process leaves in the file of histories is what the next one starts
\* with, up to the first line that fills the limit.
THEOREM HistoryComesBack == Spec => []HistorySurvives
<1>1. IndInv => HistorySurvives
  <2> SUFFICES ASSUME IndInv, saved.valid
               PROVE  LET h == saved.history
                          full == {i \in DOMAIN h : Len(h[i]) >= LineLimit}
                      IN  Loaded(historyFile) = IF full = {} THEN h ELSE SubSeq(h, 1, Min(full) - 1)
    BY DEF HistorySurvives
  <2>1. saved.history \in Histories /\ historyFile = Text(saved.history)
    BY DEF IndInv, Closes
  <2> QED
    BY <2>1, TextRead
<1> QED
  BY <1>1, Invariance, PTL
=============================================================================
