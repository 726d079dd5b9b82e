--------------------------- MODULE Sorting_proofs ---------------------------
(***************************************************************************)
(* Proofs about Sorting, for arrays of any size and any keys.              *)
(*                                                                         *)
(* While a pass of merge_sort goes on, the block it reads holds every      *)
(* element once, in runs that are in order and keep to the places their    *)
(* elements had at first; the block it writes holds, up to the place it    *)
(* has come to, exactly the elements that were taken from the runs, in     *)
(* runs of twice the length; and none of those left in the pair of runs    *)
(* it is in goes before one that was taken.  The gaps of shell_sort end    *)
(* with one, where what stands before the place it is in is in order but   *)
(* for the element that is on its way down.  Outside what bsearch has not  *)
(* looked at, keys are smaller on the left and greater on the right.       *)
(***************************************************************************)
EXTENDS Sorting, FiniteSetTheorems, TLAPS

MergeRecord  == [run : Nat \ {0}, low : Nat, left : Nat, right : Nat, out : Nat]
ShellRecord  == [gap : Nat, i : Nat, j : Nat]
SearchRecord == [low : Nat, high : Nat]

TypeOK ==
  /\ n \in Nat /\ key \in [Elements -> Keys] /\ wanted \in Keys
  /\ answers \in {"ordered", "any"} /\ from \in Blocks /\ exited \in SUBSET {-1, 0, 1}
  /\ array \in [Blocks -> [Elements -> Elements \cup {NoElement}]]
  /\ \A i \in Elements : array["base"][i] \in Elements
  /\ failed \in BOOLEAN /\ done \in BOOLEAN /\ ~(done /\ failed)
  /\ \/ how = "merge" /\ at \in MergeRecord
     \/ how = "shell" /\ at \in ShellRecord
     \/ how = "search" /\ at \in SearchRecord

\* Whether the answers so far were those of an order on the keys.
Orderly == answers = "ordered" /\ exited = {} /\ ~failed

-----------------------------------------------------------------------------
(* What is said of blocks f and g of m elements, whose keys are k. *)

Before(k, a, b) == k[a] < k[b] \/ (k[a] = k[b] /\ a < b)

\* A run of the given length starts at s; the runs of f up to end hold elements that were at
\* first in the same places, and each run is in order.
Starts(s, run) == \E q \in Nat : s = q * run
Placed(f, run, end) ==
  \A s, x \in Nat : Starts(s, run) /\ s <= x /\ x < s + run /\ x < end => s <= f[x] /\ f[x] < s + run
Sorted(k, f, run, end) ==
  \A s, x, y \in Nat : Starts(s, run) /\ s <= x /\ x < y /\ y < s + run /\ y < end => Before(k, f[x], f[y])

Read(k, m, f, run, orderly) ==
  /\ {f[i] : i \in 0 .. m - 1} = 0 .. m - 1
  /\ Placed(f, run, m) /\ (orderly => Sorted(k, f, run, m))

\* The two runs from a.low on are merged; which places were taken, and which are left.
MiddleOf(a, m) == Smaller(a.low + a.run, m)
HighOf(a, m)   == Smaller(MiddleOf(a, m) + a.run, m)
Taken(a, m, x) == x < a.left \/ (MiddleOf(a, m) <= x /\ x < a.right)
Left(a, m, x)  == (a.left <= x /\ x < MiddleOf(a, m)) \/ (a.right <= x /\ x < HighOf(a, m))

Place(a, m) ==
  /\ Starts(a.low, 2 * a.run)
  /\ IF a.low < m THEN /\ a.low <= a.left /\ a.left <= MiddleOf(a, m)
                       /\ MiddleOf(a, m) <= a.right /\ a.right <= HighOf(a, m)
     ELSE a.left = a.low /\ a.right = MiddleOf(a, m)
  /\ a.out = a.left + (a.right - MiddleOf(a, m))

Written(k, m, f, g, a, orderly) ==
  /\ \A i \in 0 .. m - 1 : i < a.out => \E x \in 0 .. m - 1 : Taken(a, m, x) /\ g[i] = f[x]
  /\ \A x \in 0 .. m - 1 : Taken(a, m, x) => \E i \in 0 .. m - 1 : i < a.out /\ g[i] = f[x]
  /\ Placed(g, 2 * a.run, Smaller(a.out, m))
  /\ orderly => /\ Sorted(k, g, 2 * a.run, Smaller(a.out, m))
                /\ \A x, y \in 0 .. m - 1 : a.low <= x /\ x < a.out /\ Left(a, m, y) => Before(k, g[x], f[y])

\* As far as the place i, only the element at j may go before one that stands below it.
OrderedBut(k, m, f, i, j) ==
  \A x, y \in 0 .. m - 1 : x < y /\ y <= i /\ y # j => k[f[x]] <= k[f[y]]

\* The head of a run, at p, is taken and moved to the place the pass has come to, and goes
\* before all that is left of the two runs.
Advanced(a, b, p) ==
  /\ b.run = a.run /\ b.low = a.low /\ b.out = a.out + 1
  /\ \/ p = a.left /\ b.left = a.left + 1 /\ b.right = a.right
     \/ p = a.right /\ b.left = a.left /\ b.right = a.right + 1
Overwritten(m, g, h, out, e) == h[out] = e /\ \A i \in 0 .. m - 1 : i # out => h[i] = g[i]
LeavesLess(m, a, b, p)       == \A y \in 0 .. m - 1 : Left(b, m, y) => Left(a, m, y) /\ y # p
GoesFirst(k, m, f, a, p)     == \A y \in 0 .. m - 1 : Left(a, m, y) /\ y # p => Before(k, f[p], f[y])

\* What is left of one run when the other is used up is copied, and the next two are begun.
RestAt(a, m, first, count) ==
  IF a.left < MiddleOf(a, m) THEN first = a.left /\ count = MiddleOf(a, m) - a.left
  ELSE first = a.right /\ count = HighOf(a, m) - a.right
Copied(m, f, g, h, out, first, count) ==
  \A i \in 0 .. m - 1 : h[i] = IF i \in out .. (out + count - 1) THEN f[first + i - out] ELSE g[i]
NextPair(a, b, m) ==
  b.run = a.run /\ b.low = a.low + 2 * a.run /\ b.left = b.low /\ b.right = MiddleOf(b, m) /\ b.out = b.low

-----------------------------------------------------------------------------
(* The invariant. *)

MergeInv ==
  how = "merge" =>
    /\ Read(key, n, array[from], at.run, Orderly)
    /\ done \/ (Place(at, n) /\ Written(key, n, array[from], array[Other(from)], at, Orderly))
    /\ done => array["base"] = array[from] /\ at.run >= n

\* With a gap of one, only the element at j may stand too high.
ShellInv ==
  how = "shell" =>
    /\ at.gap <= at.j /\ at.j <= at.i /\ (at.i >= n => at.j = at.i) /\ (done => at.gap = 0)
    /\ Orderly => /\ at.gap = 0 => OrderedBut(key, n, array["base"], n, n)
                  /\ at.gap = 1 => OrderedBut(key, n, array["base"], at.i, at.j)

SearchInv ==
  how = "search" =>
    /\ \A i, j \in Elements : i < j => key[i] <= key[j]
    /\ at.low <= at.high /\ at.high <= n
    /\ Orderly =>
         /\ \A i \in Elements : (i < at.low => key[i] < wanted) /\ (i >= at.high => wanted < key[i])
         /\ IF done THEN Found ELSE found = NoElement

IndInv ==
  /\ TypeOK /\ MergeInv /\ ShellInv /\ SearchInv
  /\ how # "merge" => from = "base" /\ IsPermutation(array["base"])

-----------------------------------------------------------------------------
(* Runs. *)

\* Of two runs of a length, the first ends where the second starts or before.
LEMMA RunsApart ==
  ASSUME NEW run \in Nat, NEW s \in Nat, NEW t \in Nat, Starts(s, run), Starts(t, run), s < t
  PROVE  s + run <= t
<1>1. PICK p \in Nat : s = p * run
  BY DEF Starts
<1>2. PICK q \in Nat : t = q * run
  BY DEF Starts
<1>3. p < q
  <2>1. SUFFICES ASSUME q <= p
                 PROVE  FALSE
    OBVIOUS
  <2>2. PICK d \in Nat : p = q + d
    <3>1. p - q \in Nat /\ p = q + (p - q)
      BY <2>1
    <3> QED
      BY <3>1
  <2>3. d * run \in Nat /\ p * run = q * run + d * run
    BY <2>2
  <2> QED
    BY <1>1, <1>2, <2>3
<1>4. PICK d \in Nat : q = p + 1 + d
  <2>1. q - p - 1 \in Nat /\ q = p + 1 + (q - p - 1)
    BY <1>3
  <2> QED
    BY <2>1
<1>5. d * run \in Nat /\ q * run = p * run + run + d * run
  BY <1>4
<1> QED
  BY <1>1, <1>2, <1>5

\* A run of twice the length is two runs, and the next of its length follows it.
LEMMA RunsDouble ==
  ASSUME NEW run \in Nat, NEW s \in Nat, Starts(s, 2 * run)
  PROVE  Starts(s, run) /\ Starts(s + run, run) /\ Starts(s + 2 * run, 2 * run)
<1>1. PICK q \in Nat : s = q * (2 * run)
  BY DEF Starts
<1>2. 2 * q \in Nat /\ s = (2 * q) * run
  BY <1>1
<1>3. 2 * q + 1 \in Nat /\ s + run = (2 * q + 1) * run
  BY <1>1
<1>4. q + 1 \in Nat /\ s + 2 * run = (q + 1) * (2 * run)
  BY <1>1
<1> QED
  BY <1>2, <1>3, <1>4 DEF Starts

\* Two runs that have a place in common are one.
LEMMA RunOfPlace ==
  ASSUME NEW run \in Nat, NEW s \in Nat, NEW t \in Nat, Starts(s, run), Starts(t, run),
         NEW x \in Nat, s <= x, x < s + run, t <= x, x < t + run
  PROVE  s = t
<1>1. s < t => s + run <= t
  BY RunsApart
<1>2. t < s => t + run <= s
  BY RunsApart
<1> QED
  BY <1>1, <1>2

\* The earlier of two places.
LEMMA SmallerIsLess ==
  ASSUME NEW a \in Nat, NEW b \in Nat
  PROVE  Smaller(a, b) \in Nat /\ Smaller(a, b) <= a /\ Smaller(a, b) <= b /\ (Smaller(a, b) = a \/ Smaller(a, b) = b)
BY DEF Smaller

\* Where the pair of runs that is merged ends.
LEMMA PairOfRuns ==
  ASSUME NEW m \in Nat, NEW a \in MergeRecord
  PROVE  /\ MiddleOf(a, m) \in Nat /\ HighOf(a, m) \in Nat
         /\ MiddleOf(a, m) <= HighOf(a, m) /\ HighOf(a, m) <= m
         /\ MiddleOf(a, m) <= a.low + a.run /\ HighOf(a, m) <= a.low + 2 * a.run
         /\ a.low < m => a.low < MiddleOf(a, m)
         /\ a.low >= m => MiddleOf(a, m) = m
         /\ MiddleOf(a, m) < HighOf(a, m) => MiddleOf(a, m) = a.low + a.run
         /\ HighOf(a, m) < a.low + 2 * a.run => HighOf(a, m) = m
<1> DEFINE b == a.low + a.run
           mid == MiddleOf(a, m)
           c == mid + a.run
<1>1. a.low \in Nat /\ a.run \in Nat /\ a.run > 0 /\ b \in Nat
  BY DEF MergeRecord
<1>2. mid \in Nat /\ mid <= b /\ mid <= m /\ (mid = b \/ mid = m)
  BY <1>1, SmallerIsLess DEF MiddleOf
<1>3. c \in Nat
  BY <1>1, <1>2
<1>4. HighOf(a, m) \in Nat /\ HighOf(a, m) <= c /\ HighOf(a, m) <= m /\ (HighOf(a, m) = c \/ HighOf(a, m) = m)
  <2> HIDE DEF mid
  <2>1. HighOf(a, m) = Smaller(c, m)
    BY DEF HighOf, mid
  <2> QED
    BY <1>3, <2>1, SmallerIsLess
<1> HIDE DEF mid
<1> QED
  BY <1>1, <1>2, <1>4 DEF mid

\* A step on through one of the runs.
LEMMA RecordAdvances ==
  ASSUME NEW a \in MergeRecord
  PROVE  /\ [a EXCEPT !.out = @ + 1, !.right = @ + 1] \in MergeRecord
         /\ [a EXCEPT !.out = @ + 1, !.left = @ + 1] \in MergeRecord
<1>1. PICK x \in Nat, y \in Nat, z \in Nat : x = a.out + 1 /\ y = a.right + 1 /\ z = a.left + 1
  BY DEF MergeRecord
<1>2. [a EXCEPT !.out = x, !.right = y] \in MergeRecord /\ [a EXCEPT !.out = x, !.left = z] \in MergeRecord
  BY DEF MergeRecord
<1> QED
  BY <1>1, <1>2

\* Elements are told apart by key and by their place at first.
LEMMA BeforeIsTransitive ==
  ASSUME NEW m \in Nat, NEW k \in [0 .. m - 1 -> Int],
         NEW a \in 0 .. m - 1, NEW b \in 0 .. m - 1, NEW c \in 0 .. m - 1, Before(k, a, b), Before(k, b, c)
  PROVE  Before(k, a, c)
<1>1. k[a] \in Int /\ k[b] \in Int /\ k[c] \in Int
  OBVIOUS
<1> QED
  BY <1>1 DEF Before

-----------------------------------------------------------------------------
(* Merging. *)

\* What the comparison of the heads of two runs decides: the one that is taken goes before all
\* that is left, and an equal element of the left run goes first.
LEMMA HeadGoesFirst ==
  ASSUME NEW m \in Nat, NEW k \in [0 .. m - 1 -> Int], NEW f \in [0 .. m - 1 -> 0 .. m - 1],
         NEW a \in MergeRecord, Place(a, m), a.low < m,
         Placed(f, a.run, m), Sorted(k, f, a.run, m),
         a.left < MiddleOf(a, m), a.right < HighOf(a, m),
         NEW p \in {a.left, a.right}, p = a.right <=> k[f[a.left]] > k[f[a.right]],
         NEW y \in 0 .. m - 1, Left(a, m, y), y # p
  PROVE  Before(k, f[p], f[y])
<1>1. PICK mid \in Nat, high \in Nat : mid = MiddleOf(a, m) /\ high = HighOf(a, m)
  BY PairOfRuns
<1>2. PICK low \in Nat, run \in Nat \ {0}, l \in Nat, r \in Nat :
        low = a.low /\ run = a.run /\ l = a.left /\ r = a.right
  BY DEF MergeRecord
<1>3. /\ mid \in Nat /\ high \in Nat /\ mid = low + run /\ high <= m /\ high <= low + 2 * run /\ mid <= high
      /\ low <= l /\ l < mid /\ mid <= r /\ r < high
  <2>1. /\ mid \in Nat /\ high \in Nat /\ mid <= high /\ high <= m /\ high <= low + 2 * run
        /\ mid < high => mid = low + run
    BY <1>1, <1>2, PairOfRuns
  <2>2. low <= l /\ l < mid /\ mid <= r /\ r < high
    BY <1>1, <1>2 DEF Place
  <2> QED
    BY <2>1, <2>2
<1>4. Starts(low, run) /\ Starts(mid, run)
  <2>1. Starts(low, 2 * run)
    BY <1>2 DEF Place
  <2> QED
    BY <1>3, <2>1, RunsDouble
<1>5. (l <= y /\ y < mid) \/ (r <= y /\ y < high)
  BY <1>1, <1>2 DEF Left
<1>6. f[l] \in 0 .. m - 1 /\ f[r] \in 0 .. m - 1 /\ f[y] \in 0 .. m - 1 /\ l \in 0 .. m - 1 /\ r \in 0 .. m - 1
  BY <1>3
<1>7. l < y /\ y < mid => Before(k, f[l], f[y])
  <2>1. \A s, x, z \in Nat : Starts(s, run) /\ s <= x /\ x < z /\ z < s + run /\ z < m => Before(k, f[x], f[z])
    BY <1>2 DEF Sorted
  <2>2. l < y /\ y < mid => low <= l /\ y < low + run /\ y < m /\ y \in Nat
    BY <1>3
  <2> QED
    BY <1>2, <1>4, <2>1, <2>2
<1>8. r < y /\ y < high => Before(k, f[r], f[y])
  <2>1. high <= mid + run
    BY <1>3
  <2>2. ASSUME r < y, y < high
        PROVE  mid <= r /\ r < y /\ y < mid + run /\ y < m /\ y \in Nat
    BY <1>3, <2>1, <2>2
  <2>3. \A s, x, z \in Nat : Starts(s, run) /\ s <= x /\ x < z /\ z < s + run /\ z < m => Before(k, f[x], f[z])
    BY <1>2 DEF Sorted
  <2> QED
    BY <1>2, <1>3, <1>4, <2>2, <2>3
<1>9. k[f[l]] \in Int /\ k[f[r]] \in Int
  BY <1>6
<1>10. CASE k[f[l]] > k[f[r]]
  <2>1. p = r /\ Before(k, f[r], f[l])
    BY <1>2, <1>9, <1>10 DEF Before
  <2>2. y = l \/ (l < y /\ y < mid) \/ (r < y /\ y < high)
    <3>1. y # r /\ y \in Nat
      BY <2>1
    <3> QED
      BY <1>3, <1>5, <3>1
  <2>3. l < y /\ y < mid => Before(k, f[r], f[y])
    BY <1>6, <1>7, <2>1, BeforeIsTransitive
  <2> QED
    BY <1>8, <2>1, <2>2, <2>3
<1>11. CASE ~(k[f[l]] > k[f[r]])
  <2>1. p = l
    BY <1>2, <1>11
  <2>2. f[l] < low + run
    <3>1. low <= l /\ l < low + run /\ l < m
      BY <1>3
    <3>2. \A s, x \in Nat : Starts(s, run) /\ s <= x /\ x < s + run /\ x < m => f[x] < s + run
      BY <1>2 DEF Placed
    <3> QED
      BY <1>2, <1>4, <3>1, <3>2
  <2>3. mid <= f[r]
    <3>1. mid <= r /\ r < mid + run /\ r < m
      BY <1>3
    <3>2. \A s, x \in Nat : Starts(s, run) /\ s <= x /\ x < s + run /\ x < m => s <= f[x]
      BY <1>2 DEF Placed
    <3> QED
      BY <1>3, <1>4, <3>1, <3>2
  <2>4. Before(k, f[l], f[r])
    BY <1>3, <1>6, <1>9, <1>11, <2>2, <2>3 DEF Before
  <2>5. y = r \/ (l < y /\ y < mid) \/ (r < y /\ y < high)
    <3>1. y # l /\ y \in Nat
      BY <2>1
    <3> QED
      BY <1>3, <1>5, <3>1
  <2>6. r < y /\ y < high => Before(k, f[l], f[y])
    BY <1>6, <1>8, <2>4, BeforeIsTransitive
  <2> QED
    BY <1>7, <2>1, <2>4, <2>5, <2>6
<1> QED
  BY <1>10, <1>11

\* What is taken, left and written when the head of a run is taken.
LEMMA TakenPlace ==
  ASSUME NEW m \in Nat, NEW a \in MergeRecord, Place(a, m), a.low < m,
         a.left < MiddleOf(a, m), a.right < HighOf(a, m),
         NEW p \in Nat, NEW b \in MergeRecord, Advanced(a, b, p)
  PROVE  /\ Place(b, m) /\ Left(a, m, p)
         /\ a.out \in 0 .. m - 1 /\ a.low <= a.out /\ a.out < a.low + 2 * a.run
         /\ p \in 0 .. m - 1 /\ a.low <= p
         /\ Starts(a.low, a.run) /\ Starts(a.low + a.run, a.run)
         /\ p < a.low + a.run \/ (a.low + a.run <= p /\ p < a.low + a.run + a.run)
         /\ \A x \in 0 .. m - 1 : Taken(b, m, x) <=> Taken(a, m, x) \/ x = p
         /\ LeavesLess(m, a, b, p)
<1>1. PICK low \in Nat, run \in Nat \ {0}, l \in Nat, r \in Nat, out \in Nat :
        low = a.low /\ run = a.run /\ l = a.left /\ r = a.right /\ out = a.out
  BY DEF MergeRecord
<1>2. PICK bl \in Nat, br \in Nat, bo \in Nat : bl = b.left /\ br = b.right /\ bo = b.out
  BY DEF MergeRecord
<1>3. bo = out + 1 /\ b.run = a.run /\ b.low = a.low
  BY <1>1, <1>2 DEF Advanced
<1>4. (p = l /\ bl = l + 1 /\ br = r) \/ (p = r /\ bl = l /\ br = r + 1)
  BY <1>1, <1>2 DEF Advanced
<1>5. PICK mid \in Nat, high \in Nat : mid = MiddleOf(a, m) /\ high = HighOf(a, m)
  BY PairOfRuns
<1>6. mid = MiddleOf(b, m) /\ high = HighOf(b, m)
  BY <1>3, <1>5 DEF MiddleOf, HighOf
<1>7. /\ mid = low + run /\ high <= m /\ high <= low + 2 * run /\ low < m
      /\ low <= l /\ l < mid /\ mid <= r /\ r < high
      /\ out = l + (r - mid)
  <2>1. mid <= high /\ high <= m /\ high <= low + 2 * run /\ (mid < high => mid = low + run)
    BY <1>1, <1>5, PairOfRuns
  <2>2. low <= l /\ l < mid /\ mid <= r /\ r < high /\ out = l + (r - mid)
    BY <1>1, <1>5 DEF Place
  <2> QED
    BY <1>1, <2>1, <2>2
<1>8. /\ out \in 0 .. m - 1 /\ low <= out /\ out < low + 2 * run
      /\ p \in 0 .. m - 1 /\ low <= p
      /\ p < low + run \/ (low + run <= p /\ p < low + run + run)
  <2>1. 0 <= out /\ out < m /\ low <= out /\ out < low + 2 * run
    BY <1>7
  <2>2. CASE p = l
    BY <1>7, <2>1, <2>2
  <2>3. CASE p = r
    BY <1>7, <2>1, <2>3
  <2> QED
    BY <1>4, <2>2, <2>3
<1>9. Starts(low, 2 * run) /\ Starts(low, run) /\ Starts(low + run, run)
  <2>1. Starts(low, 2 * run)
    BY <1>1 DEF Place
  <2> QED
    BY <2>1, RunsDouble
<1>10. Place(b, m)
  <2>1. low < m /\ low <= bl /\ bl <= mid /\ mid <= br /\ br <= high /\ bo = bl + (br - mid)
    BY <1>3, <1>4, <1>7
  <2>2. b.low = low /\ b.run = run
    BY <1>1, <1>3
  <2> QED
    BY <1>2, <1>6, <1>9, <2>1, <2>2 DEF Place
<1>11. Left(a, m, p)
  <2>1. (l <= p /\ p < mid) \/ (r <= p /\ p < high)
    BY <1>4, <1>7
  <2> QED
    BY <1>1, <1>5, <2>1 DEF Left
<1>12. ASSUME NEW x \in 0 .. m - 1
       PROVE  Taken(b, m, x) <=> Taken(a, m, x) \/ x = p
  <2>1. Taken(a, m, x) <=> x < l \/ (mid <= x /\ x < r)
    BY <1>1, <1>5 DEF Taken
  <2>2. Taken(b, m, x) <=> x < bl \/ (mid <= x /\ x < br)
    BY <1>2, <1>6 DEF Taken
  <2>3. x \in Nat
    OBVIOUS
  <2>4. CASE p = l /\ bl = l + 1 /\ br = r
    BY <1>7, <2>1, <2>2, <2>3, <2>4
  <2>5. CASE p = r /\ bl = l /\ br = r + 1
    BY <1>7, <2>1, <2>2, <2>3, <2>5
  <2> QED
    BY <1>4, <2>4, <2>5
<1>13. ASSUME NEW y \in 0 .. m - 1, Left(b, m, y)
       PROVE  Left(a, m, y) /\ y # p
  <2>1. Left(a, m, y) <=> (l <= y /\ y < mid) \/ (r <= y /\ y < high)
    BY <1>1, <1>5 DEF Left
  <2>2. (bl <= y /\ y < mid) \/ (br <= y /\ y < high)
    BY <1>2, <1>6, <1>13 DEF Left
  <2>3. y \in Nat
    OBVIOUS
  <2>4. CASE p = l /\ bl = l + 1 /\ br = r
    BY <1>7, <2>1, <2>2, <2>3, <2>4
  <2>5. CASE p = r /\ bl = l /\ br = r + 1
    BY <1>7, <2>1, <2>2, <2>3, <2>5
  <2> QED
    BY <1>4, <2>4, <2>5
<1> QED
  BY <1>1, <1>8, <1>9, <1>10, <1>11, <1>12, <1>13 DEF LeavesLess

\* One element is moved from the head of a run to the place the pass has come to.
LEMMA TakenOne ==
  ASSUME NEW m \in Nat, NEW k \in [0 .. m - 1 -> Int], NEW f \in [0 .. m - 1 -> 0 .. m - 1],
         NEW g \in [0 .. m - 1 -> Int], NEW h \in [0 .. m - 1 -> Int],
         NEW a \in MergeRecord, Place(a, m), a.low < m,
         a.left < MiddleOf(a, m), a.right < HighOf(a, m), Placed(f, a.run, m),
         NEW before \in BOOLEAN, NEW after \in BOOLEAN, after => before, Written(k, m, f, g, a, before),
         NEW p \in Nat, NEW b \in MergeRecord, Advanced(a, b, p),
         Overwritten(m, g, h, a.out, f[p]), after => GoesFirst(k, m, f, a, p)
  PROVE  Place(b, m) /\ Written(k, m, f, h, b, after)
<1>1. PICK low \in Nat, run \in Nat \ {0}, out \in Nat : low = a.low /\ run = a.run /\ out = a.out
  BY DEF MergeRecord
<1>2. /\ b.low = low /\ b.run = run /\ b.out = out + 1
      /\ h[out] = f[p] /\ \A i \in 0 .. m - 1 : i # out => h[i] = g[i]
  BY <1>1 DEF Advanced, Overwritten
<1>3. /\ Place(b, m) /\ Left(a, m, p)
      /\ out \in 0 .. m - 1 /\ low <= out /\ out < low + 2 * run
      /\ p \in 0 .. m - 1 /\ low <= p
      /\ Starts(low, 2 * run) /\ Starts(low, run) /\ Starts(low + run, run)
      /\ p < low + run \/ (low + run <= p /\ p < low + run + run)
  <2>1. Place(b, m) /\ Left(a, m, p)
    BY TakenPlace
  <2>2. a.out \in 0 .. m - 1 /\ a.low <= a.out /\ a.out < a.low + 2 * a.run
    BY TakenPlace
  <2>3. p \in 0 .. m - 1 /\ a.low <= p
    BY TakenPlace
  <2>4. Starts(low, run) /\ Starts(low + run, run)
    <3>1. Starts(low, 2 * run)
      BY <1>1 DEF Place
    <3> QED
      BY <3>1, RunsDouble
  <2>5. p < a.low + a.run \/ (a.low + a.run <= p /\ p < a.low + a.run + a.run)
    BY TakenPlace
  <2>6. Starts(a.low, 2 * a.run)
    BY DEF Place
  <2> QED
    BY <1>1, <2>1, <2>2, <2>3, <2>4, <2>5, <2>6
<1>4. \A x \in 0 .. m - 1 : Taken(b, m, x) <=> Taken(a, m, x) \/ x = p
  BY TakenPlace
<1>5. \A y \in 0 .. m - 1 : Left(b, m, y) => Left(a, m, y) /\ y # p
  <2>1. LeavesLess(m, a, b, p)
    BY TakenPlace
  <2> QED
    BY <2>1 DEF LeavesLess
<1>6. /\ \A i \in 0 .. m - 1 : i < out => \E x \in 0 .. m - 1 : Taken(a, m, x) /\ g[i] = f[x]
      /\ \A x \in 0 .. m - 1 : Taken(a, m, x) => \E i \in 0 .. m - 1 : i < out /\ g[i] = f[x]
      /\ Placed(g, 2 * run, Smaller(out, m))
  BY <1>1 DEF Written
<1>7. after => /\ Sorted(k, g, 2 * run, Smaller(out, m))
               /\ \A x, y \in 0 .. m - 1 : low <= x /\ x < out /\ Left(a, m, y) => Before(k, g[x], f[y])
  BY <1>1 DEF Written
<1>8. Smaller(out, m) = out /\ Smaller(out + 1, m) = out + 1
  <2>1. out < m /\ (out + 1 < m \/ out + 1 = m)
    BY <1>3
  <2> QED
    BY <2>1 DEF Smaller
<1>9. ASSUME NEW i \in 0 .. m - 1, i < out + 1
      PROVE  \E x \in 0 .. m - 1 : Taken(b, m, x) /\ h[i] = f[x]
  <2>1. CASE i = out
    BY <1>2, <1>3, <1>4, <2>1
  <2>2. CASE i # out
    <3>1. i < out
      BY <1>9, <2>2
    <3>2. PICK x \in 0 .. m - 1 : Taken(a, m, x) /\ g[i] = f[x]
      BY <1>6, <3>1
    <3> QED
      BY <1>2, <1>4, <2>2, <3>2
  <2> QED
    BY <2>1, <2>2
<1>10. ASSUME NEW x \in 0 .. m - 1, Taken(b, m, x)
      PROVE  \E i \in 0 .. m - 1 : i < out + 1 /\ h[i] = f[x]
  <2>1. CASE x = p
    <3>1. out < out + 1
      OBVIOUS
    <3> QED
      BY <1>2, <1>3, <2>1, <3>1
  <2>2. CASE Taken(a, m, x)
    <3>1. PICK i \in 0 .. m - 1 : i < out /\ g[i] = f[x]
      BY <1>6, <2>2
    <3>2. i < out + 1 /\ i # out
      BY <3>1
    <3> QED
      BY <1>2, <3>1, <3>2
  <2> QED
    BY <1>4, <1>10, <2>1, <2>2
<1>11. low <= f[p] /\ f[p] < low + 2 * run
  <2>1. \A s, x \in Nat : Starts(s, run) /\ s <= x /\ x < s + run /\ x < m => s <= f[x] /\ f[x] < s + run
    BY <1>1 DEF Placed
  <2>2. p < m /\ f[p] \in Int
    BY <1>3
  <2>3. CASE p < low + run
    BY <1>3, <2>1, <2>2, <2>3
  <2>4. CASE low + run <= p /\ p < low + run + run
    <3>1. low + run \in Nat
      OBVIOUS
    <3>2. low + run <= f[p] /\ f[p] < low + run + run
      BY <1>3, <2>1, <2>2, <2>4, <3>1
    <3> QED
      BY <2>2, <3>2
  <2> QED
    BY <1>3, <2>3, <2>4
<1>12. ASSUME NEW s \in Nat, Starts(s, 2 * run), s <= out, out < s + 2 * run
       PROVE  s = low
  <2>1. 2 * run \in Nat /\ out \in Nat
    OBVIOUS
  <2> QED
    BY <1>3, <1>12, <2>1, RunOfPlace
<1>13. Placed(h, 2 * run, out + 1)
  <2> SUFFICES ASSUME NEW s \in Nat, NEW x \in Nat, Starts(s, 2 * run), s <= x, x < s + 2 * run, x < out + 1
               PROVE  s <= h[x] /\ h[x] < s + 2 * run
    BY DEF Placed
  <2>1. x \in 0 .. m - 1
    BY <1>3
  <2>2. CASE x = out
    BY <1>2, <1>11, <1>12, <2>2
  <2>3. CASE x # out
    <3>1. x < out /\ h[x] = g[x]
      BY <1>2, <2>1, <2>3
    <3> QED
      BY <1>6, <1>8, <3>1 DEF Placed
  <2> QED
    BY <2>2, <2>3
<1>14. ASSUME after
       PROVE  Sorted(k, h, 2 * run, out + 1)
  <2> SUFFICES ASSUME NEW s \in Nat, NEW x \in Nat, NEW y \in Nat,
                      Starts(s, 2 * run), s <= x, x < y, y < s + 2 * run, y < out + 1
               PROVE  Before(k, h[x], h[y])
    BY DEF Sorted
  <2>1. x \in 0 .. m - 1 /\ y \in 0 .. m - 1 /\ x < out
    BY <1>3
  <2>2. h[x] = g[x]
    BY <1>2, <2>1
  <2>3. CASE y = out
    <3>1. s = low
      BY <1>12, <2>3
    <3>2. Before(k, g[x], f[p])
      BY <1>3, <1>7, <1>14, <2>1, <3>1
    <3> QED
      BY <1>2, <2>2, <2>3, <3>2
  <2>4. CASE y # out
    <3>1. y < out /\ h[y] = g[y]
      BY <1>2, <2>1, <2>4
    <3> QED
      BY <1>7, <1>8, <1>14, <2>2, <3>1 DEF Sorted
  <2> QED
    BY <2>3, <2>4
<1>15. ASSUME after, NEW x \in 0 .. m - 1, NEW y \in 0 .. m - 1, low <= x, x < out + 1, Left(b, m, y)
       PROVE  Before(k, h[x], f[y])
  <2>1. Left(a, m, y) /\ y # p
    BY <1>5, <1>15
  <2>2. CASE x = out
    BY <1>2, <1>15, <2>1, <2>2 DEF GoesFirst
  <2>3. CASE x # out
    <3>1. x < out /\ h[x] = g[x]
      BY <1>2, <1>15, <2>3
    <3> QED
      BY <1>7, <1>15, <2>1, <3>1
  <2> QED
    BY <2>2, <2>3
<1> QED
  <2>1. /\ Placed(h, 2 * b.run, Smaller(b.out, m))
        /\ after => /\ Sorted(k, h, 2 * b.run, Smaller(b.out, m))
                    /\ \A x, y \in 0 .. m - 1 : b.low <= x /\ x < b.out /\ Left(b, m, y) => Before(k, h[x], f[y])
    BY <1>2, <1>8, <1>13, <1>14, <1>15
  <2> QED
    BY <1>2, <1>3, <1>9, <1>10, <2>1 DEF Written

\* The rest of a run is moved when the other is used up, which ends the pair of runs.
LEMMA RestPlace ==
  ASSUME NEW m \in Nat, NEW a \in MergeRecord, Place(a, m), a.low < m,
         ~(a.left < MiddleOf(a, m) /\ a.right < HighOf(a, m)),
         NEW first \in Nat, NEW count \in Nat,
         RestAt(a, m, first, count)
  PROVE  /\ a.out + count = HighOf(a, m) /\ a.low <= a.out
         /\ a.low <= first /\ first + count <= m
         /\ count > 0 => \/ first + count <= a.low + a.run
                         \/ a.low + a.run <= first /\ first + count <= a.low + a.run + a.run
         /\ \A x \in 0 .. m - 1 : x < HighOf(a, m) <=> Taken(a, m, x) \/ (first <= x /\ x < first + count)
         /\ \A x \in 0 .. m - 1 : first <= x /\ x < first + count => Left(a, m, x)
<1>1. PICK low \in Nat, run \in Nat \ {0}, l \in Nat, r \in Nat, out \in Nat :
        low = a.low /\ run = a.run /\ l = a.left /\ r = a.right /\ out = a.out
  BY DEF MergeRecord
<1>2. PICK mid \in Nat, high \in Nat : mid = MiddleOf(a, m) /\ high = HighOf(a, m)
  BY PairOfRuns
<1>3. /\ high <= m /\ mid <= low + run /\ high <= low + 2 * run /\ (mid < high => mid = low + run)
      /\ low <= l /\ l <= mid /\ mid <= r /\ r <= high /\ low < m
      /\ out = l + (r - mid) /\ (l = mid \/ r = high)
  <2>1. high <= m /\ mid <= low + run /\ high <= low + 2 * run /\ (mid < high => mid = low + run)
    BY <1>1, <1>2, PairOfRuns
  <2>2. low <= l /\ l <= mid /\ mid <= r /\ r <= high /\ out = l + (r - mid)
    BY <1>1, <1>2 DEF Place
  <2>3. low < m /\ ~(l < mid /\ r < high)
    BY <1>1, <1>2
  <2> QED
    BY <2>1, <2>2, <2>3
<1>4. IF l < mid THEN first = l /\ count = mid - l ELSE first = r /\ count = high - r
  BY <1>1, <1>2 DEF RestAt
<1>5. out + count = high /\ low <= out /\ low <= first /\ first + count <= m
  BY <1>3, <1>4
<1>6. count > 0 => \/ first + count <= low + run
                   \/ low + run <= first /\ first + count <= low + run + run
  BY <1>3, <1>4
<1>7. ASSUME NEW x \in 0 .. m - 1
      PROVE  /\ x < high <=> Taken(a, m, x) \/ (first <= x /\ x < first + count)
             /\ first <= x /\ x < first + count => Left(a, m, x)
  <2>1. x \in Nat
    OBVIOUS
  <2>2. Taken(a, m, x) <=> x < l \/ (mid <= x /\ x < r)
    BY <1>1, <1>2 DEF Taken
  <2>3. Left(a, m, x) <=> (l <= x /\ x < mid) \/ (r <= x /\ x < high)
    BY <1>1, <1>2 DEF Left
  <2>4. CASE l < mid
    BY <1>3, <1>4, <2>1, <2>2, <2>3, <2>4
  <2>5. CASE ~(l < mid)
    BY <1>3, <1>4, <2>1, <2>2, <2>3, <2>5
  <2> QED
    BY <2>4, <2>5
<1> QED
  BY <1>1, <1>2, <1>5, <1>6, <1>7

\* What is written when a pair of runs is used up is what was read there, and a pass begins the
\* next pair.
LEMMA RestMoved ==
  ASSUME NEW m \in Nat, NEW k \in [0 .. m - 1 -> Int], NEW f \in [0 .. m - 1 -> 0 .. m - 1],
         NEW g \in [0 .. m - 1 -> Int], NEW h \in [0 .. m - 1 -> Int],
         NEW a \in MergeRecord, Place(a, m), a.low < m,
         ~(a.left < MiddleOf(a, m) /\ a.right < HighOf(a, m)),
         NEW orderly \in BOOLEAN, Read(k, m, f, a.run, orderly), Written(k, m, f, g, a, orderly),
         NEW first \in Nat, NEW count \in Nat,
         RestAt(a, m, first, count),
         Copied(m, f, g, h, a.out, first, count),
         NEW b \in MergeRecord, NextPair(a, b, m)
  PROVE  Place(b, m) /\ Written(k, m, f, h, b, orderly)
<1>1. PICK low \in Nat, run \in Nat \ {0}, out \in Nat : low = a.low /\ run = a.run /\ out = a.out
  BY DEF MergeRecord
<1>2. PICK high \in Nat : high = HighOf(a, m)
  BY PairOfRuns
<1>3. /\ high <= m /\ high <= low + 2 * run /\ (high < low + 2 * run => high = m)
      /\ out + count = high /\ low <= out /\ low <= first /\ first + count <= m /\ low < m
  <2>1. high <= m /\ high <= low + 2 * run /\ (high < low + 2 * run => high = m)
    BY <1>1, <1>2, PairOfRuns
  <2>2. a.out + count = HighOf(a, m) /\ a.low <= a.out /\ a.low <= first /\ first + count <= m
    BY RestPlace
  <2> QED
    BY <1>1, <1>2, <2>1, <2>2
<1>4. count > 0 => \/ first + count <= low + run
                   \/ low + run <= first /\ first + count <= low + run + run
  <2>1. count > 0 => \/ first + count <= a.low + a.run
                     \/ a.low + a.run <= first /\ first + count <= a.low + a.run + a.run
    BY RestPlace
  <2> QED
    BY <1>1, <2>1
<1>5. \A x \in 0 .. m - 1 : x < high <=> Taken(a, m, x) \/ (first <= x /\ x < first + count)
  <2>1. \A x \in 0 .. m - 1 : x < HighOf(a, m) <=> Taken(a, m, x) \/ (first <= x /\ x < first + count)
    BY RestPlace
  <2> QED
    BY <1>2, <2>1
<1>6. \A x \in 0 .. m - 1 : first <= x /\ x < first + count => Left(a, m, x)
  BY RestPlace
<1>7. Starts(low, 2 * run) /\ Starts(low, run) /\ Starts(low + run, run) /\ Starts(low + 2 * run, 2 * run)
  <2>1. Starts(low, 2 * run)
    BY <1>1 DEF Place
  <2> QED
    BY <2>1, RunsDouble
<1>8. PICK next \in Nat, mid \in Nat, end \in Nat :
        /\ next = low + 2 * run /\ mid = MiddleOf(b, m) /\ end = HighOf(b, m)
        /\ b.low = next /\ b.left = next /\ b.out = next /\ b.right = mid
  <2>1. low + 2 * run \in Nat
    OBVIOUS
  <2>2. MiddleOf(b, m) \in Nat /\ HighOf(b, m) \in Nat
    BY PairOfRuns
  <2> QED
    BY <1>1, <2>1, <2>2 DEF NextPair
<1>9. mid <= end /\ end <= m /\ (next < m => next < mid) /\ (next >= m => mid = m)
  <2>1. MiddleOf(b, m) <= HighOf(b, m) /\ HighOf(b, m) <= m
    BY PairOfRuns
  <2>2. b.low < m => b.low < MiddleOf(b, m)
    BY PairOfRuns
  <2>3. b.low >= m => MiddleOf(b, m) = m
    BY PairOfRuns
  <2> QED
    BY <1>8, <2>1, <2>2, <2>3
<1>10. Place(b, m)
  <2>1. Starts(b.low, 2 * b.run)
    BY <1>1, <1>7, <1>8 DEF NextPair
  <2>2. next = next + (mid - mid)
    OBVIOUS
  <2>3. next < m => next <= next /\ next <= mid /\ mid <= mid /\ mid <= end
    BY <1>9
  <2> QED
    BY <1>8, <2>1, <2>2, <2>3 DEF Place
<1>11. \A x \in 0 .. m - 1 : Taken(b, m, x) <=> x < high
  <2> SUFFICES ASSUME NEW x \in 0 .. m - 1
               PROVE  Taken(b, m, x) <=> x < high
    OBVIOUS
  <2>1. Taken(b, m, x) <=> x < next \/ (mid <= x /\ x < mid)
    BY <1>8 DEF Taken
  <2>2. x < next <=> x < high
    BY <1>3, <1>8
  <2> QED
    BY <2>1, <2>2
<1>12. \A y \in 0 .. m - 1 : Left(b, m, y) => next <= y
  <2> SUFFICES ASSUME NEW y \in 0 .. m - 1, Left(b, m, y)
               PROVE  next <= y
    OBVIOUS
  <2>1. (next <= y /\ y < mid) \/ (mid <= y /\ y < end)
    BY <1>8 DEF Left
  <2>2. CASE next < m
    <3>1. next < mid
      BY <1>9, <2>2
    <3>2. mid <= y => next <= y
      BY <3>1
    <3> QED
      BY <2>1, <3>2
  <2>3. CASE next >= m
    <3>1. mid = m /\ y < m
      BY <1>9, <2>3
    <3>2. ~(mid <= y)
      BY <3>1
    <3> QED
      BY <2>1, <3>2
  <2> QED
    BY <2>2, <2>3
<1>13. \A i \in 0 .. m - 1 : i < out => h[i] = g[i]
  <2> SUFFICES ASSUME NEW i \in 0 .. m - 1, i < out
               PROVE  h[i] = g[i]
    OBVIOUS
  <2>1. ~(i \in out .. (out + count - 1))
    OBVIOUS
  <2> QED
    BY <1>1, <2>1 DEF Copied
<1>14. \A i \in 0 .. m - 1 : out <= i /\ i < high => h[i] = f[first + i - out] /\ first + i - out \in 0 .. m - 1
  <2> SUFFICES ASSUME NEW i \in 0 .. m - 1, out <= i, i < high
               PROVE  h[i] = f[first + i - out] /\ first + i - out \in 0 .. m - 1
    OBVIOUS
  <2>1. i \in out .. (out + count - 1) /\ first + i - out \in 0 .. m - 1
    BY <1>3
  <2> QED
    BY <1>1, <2>1 DEF Copied
<1>15. /\ \A i \in 0 .. m - 1 : i < out => \E x \in 0 .. m - 1 : Taken(a, m, x) /\ g[i] = f[x]
       /\ \A x \in 0 .. m - 1 : Taken(a, m, x) => \E i \in 0 .. m - 1 : i < out /\ g[i] = f[x]
       /\ Placed(g, 2 * run, Smaller(out, m))
  BY <1>1 DEF Written
<1>16. orderly => /\ Sorted(k, g, 2 * run, Smaller(out, m))
                  /\ \A x, y \in 0 .. m - 1 : low <= x /\ x < out /\ Left(a, m, y) => Before(k, g[x], f[y])
  BY <1>1 DEF Written
<1>17. Placed(f, run, m) /\ (orderly => Sorted(k, f, run, m))
  BY <1>1 DEF Read
<1>18. Smaller(out, m) = out /\ Smaller(next, m) = high /\ high <= next
  BY <1>3, <1>8 DEF Smaller
<1>19. ASSUME NEW i \in 0 .. m - 1, i < next
       PROVE  \E x \in 0 .. m - 1 : Taken(b, m, x) /\ h[i] = f[x]
  <2>1. i < high
    BY <1>3, <1>8, <1>19
  <2>2. CASE i < out
    <3>1. PICK x \in 0 .. m - 1 : Taken(a, m, x) /\ g[i] = f[x]
      BY <1>15, <2>2
    <3> QED
      BY <1>5, <1>11, <1>13, <2>2, <3>1
  <2>3. CASE out <= i
    <3>1. PICK x \in 0 .. m - 1 : x = first + i - out /\ h[i] = f[x]
      BY <1>14, <2>1, <2>3
    <3>2. first <= x /\ x < first + count
      BY <1>3, <2>1, <2>3, <3>1
    <3> QED
      BY <1>5, <1>11, <3>1, <3>2
  <2> QED
    BY <2>2, <2>3
<1>20. ASSUME NEW x \in 0 .. m - 1, Taken(b, m, x)
       PROVE  \E i \in 0 .. m - 1 : i < next /\ h[i] = f[x]
  <2>1. Taken(a, m, x) \/ (first <= x /\ x < first + count)
    BY <1>5, <1>11, <1>20
  <2>2. CASE Taken(a, m, x)
    <3>1. PICK i \in 0 .. m - 1 : i < out /\ g[i] = f[x]
      BY <1>15, <2>2
    <3>2. i < next
      BY <1>3, <1>8, <3>1
    <3> QED
      BY <1>13, <3>1, <3>2
  <2>3. CASE first <= x /\ x < first + count
    <3>1. PICK i \in 0 .. m - 1 : i = out + x - first /\ out <= i /\ i < high /\ first + i - out = x
      <4>1. out + x - first \in 0 .. m - 1 /\ out <= out + x - first /\ out + x - first < high
        BY <1>3, <2>3
      <4>2. first + (out + x - first) - out = x
        OBVIOUS
      <4> QED
        BY <4>1, <4>2
    <3>2. h[i] = f[first + i - out]
      BY <1>14, <3>1
    <3>3. i < next
      BY <1>18, <3>1
    <3> QED
      BY <3>1, <3>2, <3>3
  <2> QED
    BY <2>1, <2>2, <2>3
<1>21. ASSUME NEW x \in 0 .. m - 1, first <= x, x < first + count
       PROVE  low <= f[x] /\ f[x] < low + 2 * run
  <2>1. \A s, z \in Nat : Starts(s, run) /\ s <= z /\ z < s + run /\ z < m => s <= f[z] /\ f[z] < s + run
    BY <1>17 DEF Placed
  <2>2. low <= x /\ x < m /\ x \in Nat /\ f[x] \in Int /\ low + run \in Nat
    BY <1>3, <1>21
  <2>3. x < low + run \/ (low + run <= x /\ x < low + run + run)
    BY <1>4, <1>21
  <2>4. CASE x < low + run
    BY <1>7, <2>1, <2>2, <2>4
  <2>5. CASE low + run <= x /\ x < low + run + run
    <3>1. low + run <= f[x] /\ f[x] < low + run + run
      BY <1>7, <2>1, <2>2, <2>5
    <3> QED
      BY <2>2, <3>1
  <2> QED
    BY <2>3, <2>4, <2>5
<1>22. ASSUME NEW s \in Nat, NEW x \in Nat, Starts(s, 2 * run), s <= x, x < s + 2 * run, out <= x, x < high
       PROVE  s = low
  <2>1. 2 * run \in Nat /\ low <= x /\ x < low + 2 * run
    BY <1>3, <1>22
  <2> QED
    BY <1>7, <1>22, <2>1, RunOfPlace
<1>23. Placed(h, 2 * run, high)
  <2> SUFFICES ASSUME NEW s \in Nat, NEW x \in Nat, Starts(s, 2 * run), s <= x, x < s + 2 * run, x < high
               PROVE  s <= h[x] /\ h[x] < s + 2 * run
    BY DEF Placed
  <2>1. x \in 0 .. m - 1
    BY <1>3
  <2>2. CASE x < out
    BY <1>13, <1>15, <1>18, <2>1, <2>2 DEF Placed
  <2>3. CASE out <= x
    <3>1. s = low
      BY <1>22, <2>3
    <3>2. PICK z \in 0 .. m - 1 : z = first + x - out /\ h[x] = f[z]
      BY <1>14, <2>1, <2>3
    <3>3. first <= z /\ z < first + count
      BY <1>3, <2>3, <3>2
    <3> QED
      BY <1>21, <3>1, <3>2, <3>3
  <2> QED
    BY <2>2, <2>3
<1>24. ASSUME orderly
       PROVE  Sorted(k, h, 2 * run, high)
  <2> SUFFICES ASSUME NEW s \in Nat, NEW x \in Nat, NEW y \in Nat,
                      Starts(s, 2 * run), s <= x, x < y, y < s + 2 * run, y < high
               PROVE  Before(k, h[x], h[y])
    BY DEF Sorted
  <2>1. x \in 0 .. m - 1 /\ y \in 0 .. m - 1 /\ x < high /\ x < s + 2 * run
    BY <1>3
  <2>2. CASE y < out
    <3>1. x < out
      BY <2>2
    <3>2. h[x] = g[x] /\ h[y] = g[y]
      BY <1>13, <2>1, <2>2, <3>1
    <3> QED
      BY <1>16, <1>18, <1>24, <2>2, <3>2 DEF Sorted
  <2>3. CASE out <= y
    <3>1. s = low
      <4>1. s <= y
        OBVIOUS
      <4> QED
        BY <1>22, <2>3, <4>1
    <3>2. PICK z \in 0 .. m - 1 : z = first + y - out /\ h[y] = f[z]
      BY <1>14, <2>1, <2>3
    <3>3. first <= z /\ z < first + count
      BY <1>3, <2>3, <3>2
    <3>4. CASE x < out
      <4>1. h[x] = g[x] /\ Left(a, m, z)
        BY <1>6, <1>13, <2>1, <3>3, <3>4
      <4> QED
        BY <1>16, <1>24, <2>1, <3>1, <3>2, <3>4, <4>1
    <3>5. CASE out <= x
      <4>1. PICK w \in 0 .. m - 1 : w = first + x - out /\ h[x] = f[w]
        BY <1>14, <2>1, <3>5
      <4>2. first <= w /\ w < z
        BY <3>2, <3>5, <4>1
      <4>3. \A t, u, v \in Nat : Starts(t, run) /\ t <= u /\ u < v /\ v < t + run /\ v < m => Before(k, f[u], f[v])
        BY <1>17, <1>24 DEF Sorted
      <4>4. count > 0 /\ z < m /\ low + run \in Nat /\ low <= w
        <5>1. low <= first /\ z \in Nat /\ w \in Nat /\ z < m
          BY <1>3
        <5> QED
          BY <3>3, <4>2, <5>1
      <4>5. CASE first + count <= low + run
        <5>1. z < low + run
          BY <3>3, <4>5
        <5> QED
          BY <1>7, <3>2, <4>1, <4>2, <4>3, <4>4, <5>1
      <4>6. CASE low + run <= first /\ first + count <= low + run + run
        <5>1. low + run <= w /\ z < low + run + run
          BY <3>3, <4>2, <4>6
        <5> QED
          BY <1>7, <3>2, <4>1, <4>2, <4>3, <4>4, <5>1
      <4> QED
        BY <1>4, <4>4, <4>5, <4>6
    <3> QED
      BY <3>4, <3>5
  <2> QED
    BY <2>2, <2>3
<1>25. \A x, y \in 0 .. m - 1 : ~(b.low <= x /\ x < b.out /\ Left(b, m, y))
  BY <1>8
<1>26. b.run = run
  BY <1>1 DEF NextPair
<1> QED
  BY <1>8, <1>10, <1>18, <1>19, <1>20, <1>23, <1>24, <1>25, <1>26 DEF Written

\* Blocks that hold what the other holds hold the same.
LEMMA SameElements ==
  ASSUME NEW D, NEW f, NEW g,
         \A x \in D : (\E y \in D : g[x] = f[y]) /\ (\E y \in D : g[y] = f[x])
  PROVE  {g[x] : x \in D} = {f[x] : x \in D}
<1>1. ASSUME NEW e \in {g[x] : x \in D}
      PROVE  e \in {f[x] : x \in D}
  BY <1>1
<1>2. ASSUME NEW e \in {f[x] : x \in D}
      PROVE  e \in {g[x] : x \in D}
  BY <1>2
<1> QED
  BY <1>1, <1>2

\* A pass begins with nothing taken and nothing written.
LEMMA PassBegins ==
  ASSUME NEW m \in Nat, NEW k, NEW f, NEW g, NEW orderly \in BOOLEAN, NEW a \in MergeRecord,
         a.low = 0, a.left = 0, a.out = 0, a.right = MiddleOf(a, m)
  PROVE  Place(a, m) /\ Written(k, m, f, g, a, orderly)
<1>1. PICK mid \in Nat, high \in Nat : mid = MiddleOf(a, m) /\ high = HighOf(a, m) /\ a.right = mid
  BY PairOfRuns
<1>2. mid <= high /\ (0 < m => 0 < mid)
  <2>1. MiddleOf(a, m) <= HighOf(a, m)
    BY PairOfRuns
  <2>2. a.low < m => a.low < MiddleOf(a, m)
    BY PairOfRuns
  <2> QED
    BY <1>1, <2>1, <2>2
<1>3. a.run \in Nat
  BY DEF MergeRecord
<1>4. Starts(0, 2 * a.run)
  <2>1. 0 = 0 * (2 * a.run)
    BY <1>3
  <2> QED
    BY <2>1 DEF Starts
<1>5. Place(a, m)
  <2>1. 0 = 0 + (mid - mid)
    BY <1>1
  <2> QED
    BY <1>1, <1>2, <1>4, <2>1 DEF Place
<1>6. ASSUME NEW x \in 0 .. m - 1
      PROVE  ~Taken(a, m, x)
  <2>1. Taken(a, m, x) <=> x < 0 \/ (mid <= x /\ x < mid)
    BY <1>1 DEF Taken
  <2> QED
    BY <1>1, <2>1
<1>7. Smaller(0, m) = 0
  BY DEF Smaller
<1>8. Placed(g, 2 * a.run, 0) /\ Sorted(k, g, 2 * a.run, 0)
  BY DEF Placed, Sorted
<1>9. \A i \in 0 .. m - 1 : ~(i < 0)
  OBVIOUS
<1> QED
  BY <1>5, <1>6, <1>7, <1>8, <1>9 DEF Written

\* At its end all was taken, and the block it wrote is the one the next pass reads.
LEMMA PassEnds ==
  ASSUME NEW m \in Nat, NEW k, NEW f, NEW g, NEW orderly \in BOOLEAN, NEW a \in MergeRecord,
         a.low >= m, Place(a, m), Read(k, m, f, a.run, orderly), Written(k, m, f, g, a, orderly)
  PROVE  Read(k, m, g, 2 * a.run, orderly)
<1>1. PICK low \in Nat, out \in Nat, left \in Nat : low = a.low /\ out = a.out /\ left = a.left
  BY DEF MergeRecord
<1>2. PICK mid \in Nat : mid = MiddleOf(a, m)
  BY PairOfRuns
<1>3. low >= m /\ left = low /\ out = low
  <2>1. left = low /\ a.right = mid /\ out = left + (mid - mid)
    BY <1>1, <1>2 DEF Place
  <2> QED
    BY <1>1, <2>1
<1>4. Smaller(out, m) = m
  BY <1>3 DEF Smaller
<1>5. \A x \in 0 .. m - 1 : x < out /\ Taken(a, m, x)
  BY <1>1, <1>3 DEF Taken
<1>6. \A i \in 0 .. m - 1 : \E x \in 0 .. m - 1 : g[i] = f[x]
  BY <1>1, <1>5 DEF Written
<1>7. \A x \in 0 .. m - 1 : \E i \in 0 .. m - 1 : g[i] = f[x]
  BY <1>1, <1>5 DEF Written
<1>8. {g[i] : i \in 0 .. m - 1} = 0 .. m - 1
  <2>1. {f[i] : i \in 0 .. m - 1} = 0 .. m - 1
    BY DEF Read
  <2>2. {g[i] : i \in 0 .. m - 1} = {f[i] : i \in 0 .. m - 1}
    BY <1>6, <1>7, SameElements
  <2> QED
    BY <2>1, <2>2
<1>9. Placed(g, 2 * a.run, m) /\ (orderly => Sorted(k, g, 2 * a.run, m))
  BY <1>1, <1>4 DEF Written
<1> QED
  BY <1>8, <1>9 DEF Read

\* A block that is one run is in order.
LEMMA OneRun ==
  ASSUME NEW m \in Nat, NEW k, NEW f, NEW run \in Nat, run >= m, Read(k, m, f, run, TRUE),
         NEW i \in 0 .. m - 1, NEW j \in 0 .. m - 1, i < j
  PROVE  Before(k, f[i], f[j])
<1>1. Starts(0, run)
  <2>1. 0 = 0 * run
    OBVIOUS
  <2> QED
    BY <2>1 DEF Starts
<1>2. \A s, x, y \in Nat : Starts(s, run) /\ s <= x /\ x < y /\ y < s + run /\ y < m => Before(k, f[x], f[y])
  BY DEF Read, Sorted
<1>3. i \in Nat /\ j \in Nat /\ 0 <= i /\ j < 0 + run /\ j < m
  OBVIOUS
<1> QED
  BY <1>1, <1>2, <1>3

\* Elements that are each in the place of their number are runs of one.
LEMMA RunsOfOne ==
  ASSUME NEW m \in Nat, NEW k, NEW f, \A i \in 0 .. m - 1 : f[i] = i
  PROVE  Read(k, m, f, 1, TRUE)
<1>1. {f[i] : i \in 0 .. m - 1} = 0 .. m - 1
  OBVIOUS
<1>2. Placed(f, 1, m)
  <2> SUFFICES ASSUME NEW s \in Nat, NEW x \in Nat, s <= x, x < s + 1, x < m
               PROVE  s <= f[x] /\ f[x] < s + 1
    BY DEF Placed
  <2>1. x \in 0 .. m - 1
    OBVIOUS
  <2> QED
    BY <2>1
<1>3. Sorted(k, f, 1, m)
  BY DEF Sorted
<1> QED
  BY <1>1, <1>2, <1>3 DEF Read

-----------------------------------------------------------------------------
(* Exchanging. *)

\* Two elements that change places are still there, and nothing else is.
LEMMA ExchangedStay ==
  ASSUME NEW m \in Nat, NEW f, NEW h, NEW p \in 0 .. m - 1, NEW q \in 0 .. m - 1,
         h[p] = f[q], h[q] = f[p], \A x \in 0 .. m - 1 : x # p /\ x # q => h[x] = f[x]
  PROVE  {h[x] : x \in 0 .. m - 1} = {f[x] : x \in 0 .. m - 1}
<1>1. \A x \in 0 .. m - 1 : (\E y \in 0 .. m - 1 : h[x] = f[y]) /\ (\E y \in 0 .. m - 1 : h[y] = f[x])
  OBVIOUS
<1> DEFINE D == 0 .. m - 1
<1>2. \A x \in D : (\E y \in D : h[x] = f[y]) /\ (\E y \in D : h[y] = f[x])
  BY <1>1
<1> HIDE DEF D
<1>3. {h[x] : x \in D} = {f[x] : x \in D}
  BY <1>2, SameElements
<1> QED
  BY <1>3 DEF D

\* An element that goes before the one below it takes its place.
LEMMA ExchangedInOrder ==
  ASSUME NEW m \in Nat, NEW k \in [0 .. m - 1 -> Int], NEW f \in [0 .. m - 1 -> 0 .. m - 1], NEW h,
         NEW i \in Nat, NEW j \in 1 .. m - 1, j <= i, OrderedBut(k, m, f, i, j),
         k[f[j - 1]] > k[f[j]],
         h[j - 1] = f[j], h[j] = f[j - 1], \A x \in 0 .. m - 1 : x # j - 1 /\ x # j => h[x] = f[x]
  PROVE  OrderedBut(k, m, h, i, j - 1)
<1>1. PICK p \in 0 .. m - 1 : p = j - 1 /\ p < j
  <2>1. j - 1 \in 0 .. m - 1 /\ j - 1 < j
    OBVIOUS
  <2> QED
    BY <2>1
<1>2. k[f[p]] > k[f[j]]
  BY <1>1
<1> SUFFICES ASSUME NEW x \in 0 .. m - 1, NEW y \in 0 .. m - 1, x < y, y <= i, y # p
             PROVE  k[h[x]] <= k[h[y]]
  BY <1>1 DEF OrderedBut
<1>3. j \in 0 .. m - 1 /\ k[f[j]] \in Int /\ k[f[p]] \in Int /\ k[f[x]] \in Int /\ k[f[y]] \in Int
  <2>1. j \in 0 .. m - 1
    OBVIOUS
  <2>2. \A z \in 0 .. m - 1 : k[f[z]] \in Int
    OBVIOUS
  <2> QED
    BY <2>1, <2>2
<1>4. /\ x < y /\ y <= i /\ y # j => k[f[x]] <= k[f[y]]
      /\ p < y /\ y <= i /\ y # j => k[f[p]] <= k[f[y]]
      /\ j < y /\ y <= i /\ y # j => k[f[j]] <= k[f[y]]
      /\ x < p /\ p <= i /\ p # j => k[f[x]] <= k[f[p]]
  BY <1>3 DEF OrderedBut
<1>5. CASE y = j
  <2>1. h[y] = f[p]
    BY <1>1, <1>5
  <2>2. CASE x = p
    <3>1. h[x] = f[j]
      BY <1>1, <2>2
    <3>2. PICK kj \in Int, kp \in Int : kj = k[f[j]] /\ kp = k[f[p]]
      BY <1>3
    <3>3. kj <= kp
      <4>1. kp > kj
        BY <1>2, <3>2, Zenon
      <4> QED
        BY <4>1
    <3> QED
      BY <2>1, <3>1, <3>2, <3>3
  <2>3. CASE x # p
    <3>1. x < p /\ h[x] = f[x] /\ p <= i /\ p # j
      BY <1>1, <1>5, <2>3
    <3> QED
      BY <1>4, <2>1, <3>1
  <2> QED
    BY <2>2, <2>3
<1>6. CASE y # j
  <2>1. h[y] = f[y]
    BY <1>1, <1>6
  <2>2. CASE x = p
    <3>1. h[x] = f[j] /\ j < y
      BY <1>1, <1>6, <2>2
    <3> QED
      BY <1>4, <1>6, <2>1, <3>1
  <2>3. CASE x = j
    <3>1. h[x] = f[p] /\ p < y
      BY <1>1, <2>3
    <3> QED
      BY <1>4, <1>6, <2>1, <3>1
  <2>4. CASE x # p /\ x # j
    BY <1>1, <1>4, <1>6, <2>1, <2>4
  <2> QED
    BY <2>2, <2>3, <2>4
<1> QED
  BY <1>5, <1>6

\* An element that does not is where it belongs.
LEMMA InPlace ==
  ASSUME NEW m \in Nat, NEW k \in [0 .. m - 1 -> Int], NEW f \in [0 .. m - 1 -> 0 .. m - 1],
         NEW i \in Nat, NEW j \in 1 .. m - 1, j <= i, OrderedBut(k, m, f, i, j), ~(k[f[j - 1]] > k[f[j]])
  PROVE  OrderedBut(k, m, f, i + 1, i + 1)
<1>1. PICK p \in 0 .. m - 1 : p = j - 1 /\ p < j
  <2>1. j - 1 \in 0 .. m - 1 /\ j - 1 < j
    OBVIOUS
  <2> QED
    BY <2>1
<1>2. ~(k[f[p]] > k[f[j]])
  BY <1>1
<1> SUFFICES ASSUME NEW x \in 0 .. m - 1, NEW y \in 0 .. m - 1, x < y, y <= i
             PROVE  k[f[x]] <= k[f[y]]
  <2>1. \A x, y \in 0 .. m - 1 : x < y /\ y <= i + 1 /\ y # i + 1 => x < y /\ y <= i
    OBVIOUS
  <2> QED
    BY <2>1 DEF OrderedBut
<1>3. j \in 0 .. m - 1 /\ k[f[j]] \in Int /\ k[f[p]] \in Int /\ k[f[x]] \in Int /\ k[f[y]] \in Int
  <2>1. j \in 0 .. m - 1
    OBVIOUS
  <2>2. \A z \in 0 .. m - 1 : k[f[z]] \in Int
    OBVIOUS
  <2> QED
    BY <2>1, <2>2
<1>4. /\ x < y /\ y <= i /\ y # j => k[f[x]] <= k[f[y]]
      /\ x < p /\ p <= i /\ p # j => k[f[x]] <= k[f[p]]
  BY DEF OrderedBut
<1>5. CASE y = j
  <2>1. x = p \/ (x < p /\ p <= i /\ p # j)
    BY <1>1, <1>5
  <2>2. PICK kj \in Int, kp \in Int, kx \in Int : kj = k[f[j]] /\ kp = k[f[p]] /\ kx = k[f[x]]
    BY <1>3
  <2>3. kp <= kj
    <3>1. ~(kp > kj)
      BY <1>2, <2>2, Zenon
    <3> QED
      BY <3>1
  <2>4. kx <= kp
    BY <1>4, <2>1, <2>2
  <2>5. kx <= kj
    BY <2>3, <2>4
  <2> QED
    BY <1>5, <2>2, <2>5
<1> QED
  BY <1>4, <1>5

-----------------------------------------------------------------------------
(* Comparing and moving. *)

\* Blocks and keys, by the number of elements.
LEMMA Shapes ==
  ASSUME TypeOK
  PROVE  \E m \in Nat : /\ m = n /\ Elements = 0 .. m - 1 /\ key \in [0 .. m - 1 -> Int]
                        /\ \A b \in Blocks : array[b] \in [0 .. m - 1 -> (0 .. m - 1) \cup {NoElement}]
                        /\ \A i \in 0 .. m - 1 : array["base"][i] \in 0 .. m - 1
<1>1. PICK m \in Nat : m = n
  BY DEF TypeOK
<1>2. Elements = 0 .. m - 1
  BY <1>1 DEF Elements
<1>3. key \in [0 .. m - 1 -> Int]
  BY <1>2, SizesAssumption DEF TypeOK
<1> QED
  BY <1>1, <1>2, <1>3 DEF TypeOK

\* A block that is a permutation of the elements holds nothing else.
LEMMA PermutationIsWhole ==
  ASSUME NEW m \in Nat, NEW f \in [0 .. m - 1 -> (0 .. m - 1) \cup {NoElement}],
         {f[i] : i \in 0 .. m - 1} = 0 .. m - 1
  PROVE  f \in [0 .. m - 1 -> 0 .. m - 1]
<1>1. \A i \in 0 .. m - 1 : f[i] \in 0 .. m - 1
  OBVIOUS
<1> QED
  BY <1>1

\* The answer is that of the keys when all are, and what ends the order ends it for good.
LEMMA CompareAnswers ==
  ASSUME TypeOK, NEW left \in Int, NEW right \in Int,
         NEW answer \in {-1, 0, 1}, NEW effect \in {"none", "exits", "fails"},
         Compare(left, right, answer, effect), ~failed, answers' = answers
  PROVE  /\ exited' \in SUBSET {-1, 0, 1} /\ failed' \in BOOLEAN
         /\ Orderly \in BOOLEAN /\ Orderly' \in BOOLEAN
         /\ Orderly' => Orderly /\ answer \in Answers(left, right)
<1>1. Orderly \in BOOLEAN /\ Orderly' \in BOOLEAN
  BY DEF Orderly
<1>2. CASE exited # {}
  <2>1. exited' = exited /\ failed' = failed
    BY <1>2 DEF Compare
  <2> QED
    BY <1>1, <1>2, <2>1 DEF Orderly, TypeOK
<1>3. CASE exited = {} /\ effect = "none"
  <2>1. exited' = exited /\ failed' = failed /\ answer \in Answers(left, right)
    BY <1>3 DEF Compare
  <2> QED
    BY <1>1, <2>1 DEF Orderly, TypeOK
<1>4. CASE exited = {} /\ effect = "exits"
  <2>1. exited' = {answer} /\ failed' = failed
    BY <1>4 DEF Compare
  <2> QED
    BY <1>1, <2>1 DEF Orderly, TypeOK
<1>5. CASE exited = {} /\ effect = "fails"
  <2>1. exited' = exited /\ failed' = TRUE
    BY <1>5 DEF Compare
  <2> QED
    BY <1>1, <2>1 DEF Orderly, TypeOK
<1> QED
  BY <1>2, <1>3, <1>4, <1>5

\* A comparison by key answers "greater" when the key is.
LEMMA AnswersByKey ==
  ASSUME NEW left \in Int, NEW right \in Int, NEW answer \in Answers(left, right), answers = "ordered"
  PROVE  /\ answer > 0 <=> left > right
         /\ how = "search" => (answer < 0 <=> left < right) /\ (answer = 0 <=> left = right)
<1>1. CASE left > right
  BY <1>1 DEF Answers
<1>2. CASE left = right
  BY <1>2 DEF Answers
<1>3. CASE left < right
  BY <1>3 DEF Answers
<1> QED
  BY <1>1, <1>2, <1>3

\* Elements are moved from the block that is read to the other, which alone changes.
LEMMA MovedBlock ==
  ASSUME TypeOK, IsPermutation(array[from]), NEW out \in Nat, NEW first \in Nat, NEW count \in Nat,
         first + count <= n, out + count <= n, array' = Moved(out, first, count), key' = key, from' = from
  PROVE  /\ n' = n /\ array'[from] = array[from]
         /\ array' \in [Blocks -> [Elements -> Elements \cup {NoElement}]]
         /\ \A i \in Elements : array'["base"][i] \in Elements
         /\ \A i \in Elements : array'[Other(from)][i] =
              IF i \in out .. (out + count - 1) THEN array[from][first + i - out] ELSE array[Other(from)][i]
<1>1. PICK m \in Nat : /\ m = n /\ Elements = 0 .. m - 1
                       /\ \A b \in Blocks : array[b] \in [0 .. m - 1 -> (0 .. m - 1) \cup {NoElement}]
                       /\ \A i \in 0 .. m - 1 : array["base"][i] \in 0 .. m - 1
  BY Shapes
<1>2. n' = n
  BY DEF n
<1>3. from \in Blocks /\ Other(from) \in Blocks /\ Other(from) # from /\ DOMAIN array = Blocks
  BY DEF TypeOK, Other, Blocks
<1>4. PICK f \in [0 .. m - 1 -> 0 .. m - 1] : f = array[from]
  <2>1. {array[from][i] : i \in 0 .. m - 1} = 0 .. m - 1
    BY <1>1 DEF IsPermutation
  <2> QED
    BY <1>1, <1>3, <2>1, PermutationIsWhole
<1>5. PICK g \in [0 .. m - 1 -> (0 .. m - 1) \cup {NoElement}] : g = array[Other(from)]
  BY <1>1, <1>3
<1> DEFINE h == [i \in 0 .. m - 1 |-> IF i \in out .. (out + count - 1) THEN f[first + i - out] ELSE g[i]]
<1>6. array' = [array EXCEPT ![Other(from)] = h]
  <2>1. DOMAIN array[Other(from)] = 0 .. m - 1
    BY <1>5
  <2> QED
    BY <1>3, <1>4, <1>5, <2>1 DEF Moved
<1>7. array'[from] = f /\ array'[Other(from)] = h
  BY <1>3, <1>4, <1>6
<1>8. ASSUME NEW i \in 0 .. m - 1
      PROVE  /\ h[i] \in (0 .. m - 1) \cup {NoElement}
             /\ g[i] \in 0 .. m - 1 => h[i] \in 0 .. m - 1
  <2>1. CASE i \in out .. (out + count - 1)
    <3>1. first + i - out \in 0 .. m - 1
      BY <1>1, <2>1
    <3>2. h[i] = f[first + i - out]
      BY <2>1
    <3> QED
      BY <3>1, <3>2
  <2>2. CASE i \notin out .. (out + count - 1)
    BY <2>2
  <2> QED
    BY <2>1, <2>2
<1>9. h \in [0 .. m - 1 -> (0 .. m - 1) \cup {NoElement}]
  BY <1>8
<1>10. \A i \in 0 .. m - 1 : h[i] = IF i \in out .. (out + count - 1) THEN f[first + i - out] ELSE g[i]
  OBVIOUS
<1> HIDE DEF h
<1>11. array' \in [Blocks -> [Elements -> Elements \cup {NoElement}]]
  BY <1>1, <1>3, <1>6, <1>9 DEF TypeOK
<1>12. \A i \in Elements : array'["base"][i] \in Elements
  <2> SUFFICES ASSUME NEW i \in 0 .. m - 1
               PROVE  array'["base"][i] \in 0 .. m - 1
    BY <1>1
  <2>1. CASE from = "base"
    BY <1>4, <1>7, <2>1
  <2>2. CASE Other(from) = "base"
    <3>1. g[i] \in 0 .. m - 1
      BY <1>1, <1>5, <2>2
    <3> QED
      BY <1>7, <1>8, <2>2, <3>1
  <2> QED
    BY <1>3, <2>1, <2>2 DEF Other, Blocks
<1>13. \A i \in Elements : array'[Other(from)][i] =
         IF i \in out .. (out + count - 1) THEN array[from][first + i - out] ELSE array[Other(from)][i]
  BY <1>1, <1>4, <1>5, <1>7, <1>10
<1>14. array'[from] = array[from]
  BY <1>4, <1>7
<1> QED
  BY <1>2, <1>11, <1>12, <1>13, <1>14

-----------------------------------------------------------------------------
(* Every step of merge_sort keeps the invariant. *)

\* What a pass reads and writes.
LEMMA InPass ==
  ASSUME IndInv, how = "merge", ~done
  PROVE  /\ n \in Nat /\ Elements = 0 .. n - 1 /\ at \in MergeRecord
         /\ key \in [0 .. n - 1 -> Int] /\ from \in Blocks /\ Other(from) \in Blocks
         /\ array[from] \in [0 .. n - 1 -> 0 .. n - 1] /\ array[Other(from)] \in [0 .. n - 1 -> Int]
         /\ Read(key, n, array[from], at.run, Orderly) /\ Place(at, n)
         /\ Written(key, n, array[from], array[Other(from)], at, Orderly)
<1>1. TypeOK /\ MergeInv
  BY DEF IndInv
<1>2. PICK m \in Nat : /\ m = n /\ Elements = 0 .. m - 1 /\ key \in [0 .. m - 1 -> Int]
                       /\ \A b \in Blocks : array[b] \in [0 .. m - 1 -> (0 .. m - 1) \cup {NoElement}]
  BY <1>1, Shapes
<1>3. from \in Blocks /\ Other(from) \in Blocks
  BY <1>1 DEF TypeOK, Other, Blocks
<1>4. at \in MergeRecord
  BY <1>1 DEF TypeOK
<1>5. /\ Read(key, n, array[from], at.run, Orderly)
      /\ Place(at, n) /\ Written(key, n, array[from], array[Other(from)], at, Orderly)
  BY <1>1 DEF MergeInv
<1>6. array[from] \in [0 .. m - 1 -> 0 .. m - 1]
  <2>1. {array[from][i] : i \in 0 .. m - 1} = 0 .. m - 1
    BY <1>2, <1>5 DEF Read
  <2> QED
    BY <1>2, <1>3, <2>1, PermutationIsWhole
<1>7. array[Other(from)] \in [0 .. m - 1 -> Int]
  <2>1. array[Other(from)] \in [0 .. m - 1 -> (0 .. m - 1) \cup {NoElement}]
    BY <1>2, <1>3
  <2>2. \A e \in (0 .. m - 1) \cup {NoElement} : e \in Int
    BY DEF NoElement
  <2> QED
    BY <2>1, <2>2
<1> QED
  BY <1>2, <1>3, <1>4, <1>5, <1>6, <1>7

\* What makes up the invariant after a step of a pass.
LEMMA PassKept ==
  ASSUME TypeOK, how = "merge", ~done, UNCHANGED <<how, answers, key, wanted, from, found, done>>,
         exited' \in SUBSET {-1, 0, 1}, failed' \in BOOLEAN, at' \in MergeRecord,
         array' \in [Blocks -> [Elements -> Elements \cup {NoElement}]],
         \A i \in Elements : array'["base"][i] \in Elements,
         Read(key, n, array'[from], at'.run, Orderly'),
         Place(at', n), Written(key, n, array'[from], array'[Other(from)], at', Orderly')
  PROVE  IndInv'
<1>1. n' = n /\ Elements' = Elements
  BY DEF n, Elements
<1>2. TypeOK'
  BY <1>1 DEF TypeOK
<1>3. MergeInv'
  BY <1>1 DEF MergeInv
<1>4. ShellInv' /\ SearchInv'
  BY DEF ShellInv, SearchInv
<1> QED
  BY <1>2, <1>3, <1>4 DEF IndInv

\* Less has to be said once the comparison is no order any more.
LEMMA LessToSay ==
  ASSUME NEW before \in BOOLEAN, NEW after \in BOOLEAN, after => before
  PROVE  /\ \A k, m, f, run : Read(k, m, f, run, before) => Read(k, m, f, run, after)
         /\ \A k, m, f, g, a : Written(k, m, f, g, a, before) => Written(k, m, f, g, a, after)
BY DEF Read, Written

\* The head of one of the runs is taken, or the comparison fails.
LEMMA TakeNextKeeps ==
  ASSUME IndInv, NEW answer \in {-1, 0, 1}, NEW effect \in {"none", "exits", "fails"}, TakeNext(answer, effect)
  PROVE  IndInv'
<1>1. /\ how = "merge" /\ ~failed /\ ~done /\ at.low < n
      /\ at.left < Middle(at.low, at.run) /\ at.right < High(at.low, at.run)
      /\ UNCHANGED <<how, answers, key, wanted, from, found, done>>
  BY DEF TakeNext, Merging, Holds
<1>2. TypeOK
  BY DEF IndInv
<1>3. PICK m \in Nat, a \in MergeRecord : m = n /\ a = at
  BY <1>1, InPass
<1>4. PICK f \in [0 .. m - 1 -> 0 .. m - 1], g \in [0 .. m - 1 -> Int] : f = array[from] /\ g = array[Other(from)]
  BY <1>1, <1>3, InPass
<1>5. /\ m = n /\ Elements = 0 .. m - 1 /\ f = array[from] /\ g = array[Other(from)] /\ a = at
      /\ key \in [0 .. m - 1 -> Int] /\ from \in Blocks /\ Other(from) \in Blocks
      /\ Read(key, m, f, a.run, Orderly) /\ Place(a, m) /\ Written(key, m, f, g, a, Orderly)
  BY <1>1, <1>3, <1>4, InPass
<1>6. a.low < m /\ a.left < MiddleOf(a, m) /\ a.right < HighOf(a, m)
  BY <1>1, <1>5 DEF Middle, High, MiddleOf, HighOf
<1>7. PICK l \in 0 .. m - 1, r \in 0 .. m - 1, out \in Nat :
        l = a.left /\ r = a.right /\ out = a.out /\ l # r /\ out < m
  <2>1. PICK mid \in Nat, high \in Nat : mid = MiddleOf(a, m) /\ high = HighOf(a, m)
    BY PairOfRuns
  <2>2. PICK l \in Nat, r \in Nat, out \in Nat : l = a.left /\ r = a.right /\ out = a.out
    BY DEF MergeRecord
  <2>3. mid <= high /\ high <= m
    BY <2>1, PairOfRuns
  <2>4. l < mid /\ mid <= r /\ r < high /\ out = l + (r - mid)
    BY <1>5, <1>6, <2>1, <2>2 DEF Place
  <2>5. l \in 0 .. m - 1 /\ r \in 0 .. m - 1 /\ l # r /\ out < m
    BY <2>3, <2>4
  <2> QED
    BY <2>2, <2>5
<1>8. PICK kl \in Int, kr \in Int : kl = key[f[l]] /\ kr = key[f[r]]
  BY <1>5
<1>9. Compare(kl, kr, answer, effect)
  BY <1>5, <1>7, <1>8 DEF TakeNext
<1>10. /\ exited' \in SUBSET {-1, 0, 1} /\ failed' \in BOOLEAN
       /\ Orderly \in BOOLEAN /\ Orderly' \in BOOLEAN /\ (Orderly' => Orderly /\ answer \in Answers(kl, kr))
  BY <1>1, <1>2, <1>9, CompareAnswers
<1>11. Read(key, m, f, a.run, Orderly')
  BY <1>5, <1>10, LessToSay
<1>12. CASE failed'
  <2>1. array' = array /\ at' = at
    BY <1>12 DEF TakeNext
  <2>2. Written(key, m, f, g, a, Orderly')
    BY <1>5, <1>10, LessToSay
  <2>3. /\ array' \in [Blocks -> [Elements -> Elements \cup {NoElement}]]
        /\ \A i \in Elements : array'["base"][i] \in Elements
    BY <1>2, <2>1 DEF TypeOK
  <2>4. Read(key, n, array'[from], at'.run, Orderly')
    BY <1>5, <1>11, <2>1
  <2>5. Place(at', n) /\ Written(key, n, array'[from], array'[Other(from)], at', Orderly')
    BY <1>5, <2>1, <2>2
  <2>6. at' \in MergeRecord
    BY <1>5, <2>1
  <2> QED
    BY <1>1, <1>2, <1>10, <2>3, <2>4, <2>5, <2>6, PassKept
<1>13. CASE ~failed'
  <2>1. PICK p \in 0 .. m - 1 : p = (IF answer > 0 THEN r ELSE l)
    OBVIOUS
  <2>2. array' = Moved(out, p, 1)
    BY <1>5, <1>7, <1>13, <2>1 DEF TakeNext, TakesRight
  <2>3. at' = [a EXCEPT !.out = @ + 1, !.right = IF answer > 0 THEN @ + 1 ELSE @,
                        !.left = IF answer > 0 THEN @ ELSE @ + 1]
    BY <1>5, <1>13 DEF TakeNext, TakesRight
  <2>4. PICK b \in MergeRecord :
          b = at' /\ b.run = a.run /\ Advanced(a, b, p)
    <3>1. CASE answer > 0
      <4>1. at' = [a EXCEPT !.out = @ + 1, !.right = @ + 1]
        BY <2>3, <3>1
      <4>2. at' \in MergeRecord
        <5>1. [a EXCEPT !.out = @ + 1, !.right = @ + 1] \in MergeRecord
          BY RecordAdvances
        <5> QED
          BY <4>1, <5>1
      <4>3. at'.run = a.run /\ at'.low = a.low /\ at'.out = a.out + 1 /\ at'.left = a.left /\ at'.right = a.right + 1
        BY <4>1 DEF MergeRecord
      <4> QED
        BY <1>7, <2>1, <3>1, <4>2, <4>3 DEF Advanced
    <3>2. CASE ~(answer > 0)
      <4>1. at' = [a EXCEPT !.out = @ + 1, !.left = @ + 1]
        BY <2>3, <3>2
      <4>2. at' \in MergeRecord
        <5>1. [a EXCEPT !.out = @ + 1, !.left = @ + 1] \in MergeRecord
          BY RecordAdvances
        <5> QED
          BY <4>1, <5>1
      <4>3. at'.run = a.run /\ at'.low = a.low /\ at'.out = a.out + 1 /\ at'.left = a.left + 1 /\ at'.right = a.right
        BY <4>1 DEF MergeRecord
      <4> QED
        BY <1>7, <2>1, <3>2, <4>2, <4>3 DEF Advanced
    <3> QED
      BY <3>1, <3>2
  <2>5. IsPermutation(array[from])
    BY <1>5 DEF Read, IsPermutation
  <2>6. /\ array'[from] = f
        /\ array' \in [Blocks -> [Elements -> Elements \cup {NoElement}]]
        /\ \A i \in Elements : array'["base"][i] \in Elements
        /\ \A i \in Elements : array'[Other(from)][i] =
             IF i \in out .. (out + 1 - 1) THEN f[p + i - out] ELSE g[i]
    <3>1. PICK count \in Nat : count = 1
      OBVIOUS
    <3>2. p \in Nat /\ out \in Nat /\ p + count <= n /\ out + count <= n /\ array' = Moved(out, p, count)
      BY <1>5, <1>7, <2>2, <3>1
    <3>3. key' = key /\ from' = from
      BY <1>1
    <3>4. /\ array'[from] = array[from]
          /\ array' \in [Blocks -> [Elements -> Elements \cup {NoElement}]]
          /\ \A i \in Elements : array'["base"][i] \in Elements
      BY <1>2, <2>5, <3>2, <3>3, MovedBlock
    <3>5. \A i \in Elements : array'[Other(from)][i] =
            IF i \in out .. (out + count - 1) THEN array[from][p + i - out] ELSE array[Other(from)][i]
      BY <1>2, <2>5, <3>2, <3>3, MovedBlock
    <3> QED
      BY <1>5, <3>1, <3>4, <3>5
  <2>7. PICK h \in [0 .. m - 1 -> Int] : h = array'[Other(from)]
    <3>1. array'[Other(from)] \in [0 .. m - 1 -> (0 .. m - 1) \cup {NoElement}]
      BY <1>5, <2>6
    <3>2. \A e \in (0 .. m - 1) \cup {NoElement} : e \in Int
      BY DEF NoElement
    <3> QED
      BY <3>1, <3>2
  <2>8. h[out] = f[p] /\ \A i \in 0 .. m - 1 : i # out => h[i] = g[i]
    <3>1. \A i \in 0 .. m - 1 : h[i] = IF i \in out .. (out + 1 - 1) THEN f[p + i - out] ELSE g[i]
      BY <1>5, <2>6, <2>7
    <3>2. out \in 0 .. m - 1 /\ p + out - out = p
      <4>1. out < m
        BY <1>7
      <4> QED
        BY <4>1
    <3>3. \A i \in 0 .. m - 1 : i \in out .. (out + 1 - 1) <=> i = out
      OBVIOUS
    <3> QED
      BY <3>1, <3>2, <3>3
  <2>9. Orderly' => GoesFirst(key, m, f, a, p)
    <3> SUFFICES ASSUME Orderly', NEW y \in 0 .. m - 1, Left(a, m, y), y # p
                 PROVE  Before(key, f[p], f[y])
      BY DEF GoesFirst
    <3>1. answers = "ordered" /\ answer \in Answers(kl, kr)
      BY <1>10 DEF Orderly
    <3>2. answer > 0 <=> kl > kr
      BY <3>1, AnswersByKey
    <3>3. p = a.right <=> kl > kr
      BY <1>7, <2>1, <3>2
    <3>4. p = a.right <=> key[f[a.left]] > key[f[a.right]]
      BY <1>7, <1>8, <3>3, Zenon
    <3>5. p \in {a.left, a.right}
      BY <2>4 DEF Advanced
    <3>6. Placed(f, a.run, m) /\ Sorted(key, f, a.run, m)
      BY <1>11 DEF Read
    <3> QED
      BY <1>5, <1>6, <3>4, <3>5, <3>6, HeadGoesFirst
  <2>10. Place(b, m) /\ Written(key, m, f, h, b, Orderly')
    <3>1. Placed(f, a.run, m)
      BY <1>5 DEF Read
    <3>2. Overwritten(m, g, h, a.out, f[p])
      BY <1>7, <2>8 DEF Overwritten
    <3>3. PICK before \in BOOLEAN, after \in BOOLEAN : before = Orderly /\ after = Orderly'
      BY <1>10
    <3>4. p \in Nat /\ (after => before) /\ Written(key, m, f, g, a, before)
      BY <1>5, <1>10, <3>3
    <3>5. after => GoesFirst(key, m, f, a, p)
      BY <2>9, <3>3
    <3>6. /\ key \in [0 .. m - 1 -> Int] /\ f \in [0 .. m - 1 -> 0 .. m - 1] /\ g \in [0 .. m - 1 -> Int]
          /\ Place(a, m)
      BY <1>5
    <3>7. Advanced(a, b, p)
      BY <2>4
    <3>8. Place(b, m) /\ Written(key, m, f, h, b, after)
      BY <1>6, <3>1, <3>2, <3>4, <3>5, <3>6, <3>7, TakenOne
    <3> QED
      BY <3>3, <3>8
  <2>11. at' \in MergeRecord
    BY <2>4
  <2>12. Read(key, n, array'[from], at'.run, Orderly')
    BY <1>5, <1>11, <2>4, <2>6
  <2>13. Place(at', n) /\ Written(key, n, array'[from], array'[Other(from)], at', Orderly')
    BY <1>5, <2>4, <2>6, <2>7, <2>10
  <2> QED
    BY <1>1, <1>2, <1>10, <2>6, <2>11, <2>12, <2>13, PassKept
<1> QED
  BY <1>10, <1>12, <1>13

\* What CopyRest moves is what is left of the run that was not used up.
LEMMA RestIsLeft ==
  ASSUME NEW m \in Nat, NEW a \in MergeRecord, m = n, a = at, Place(a, m), a.low < m,
         ~(a.left < MiddleOf(a, m) /\ a.right < HighOf(a, m))
  PROVE  /\ a.out \in Nat /\ Rest.first \in Nat /\ Rest.count \in Nat
         /\ RestAt(a, m, Rest.first, Rest.count)
         /\ Rest.first + Rest.count <= m /\ a.out + Rest.count <= m
<1>1. PICK low \in Nat, left \in Nat, right \in Nat, out \in Nat :
        low = a.low /\ left = a.left /\ right = a.right /\ out = a.out
  BY DEF MergeRecord
<1>2. PICK mid \in Nat, high \in Nat : mid = MiddleOf(a, m) /\ high = HighOf(a, m)
  BY PairOfRuns
<1>3. mid = Middle(at.low, at.run) /\ high = High(at.low, at.run)
  BY <1>2 DEF Middle, High, MiddleOf, HighOf
<1>4. right <= high
  BY <1>1, <1>2 DEF Place
<1>5. PICK first \in Nat, count \in Nat :
        /\ first = Rest.first /\ count = Rest.count
        /\ IF left < mid THEN first = left /\ count = mid - left ELSE first = right /\ count = high - right
  <2>1. CASE left < mid
    <3>1. mid - left \in Nat /\ Rest.first = left /\ Rest.count = mid - left
      BY <1>1, <1>3, <2>1 DEF Rest
    <3> QED
      BY <2>1, <3>1
  <2>2. CASE ~(left < mid)
    <3>1. high - right \in Nat /\ Rest.first = right /\ Rest.count = high - right
      BY <1>1, <1>3, <1>4, <2>2 DEF Rest
    <3> QED
      BY <2>2, <3>1
  <2> QED
    BY <2>1, <2>2
<1>6. RestAt(a, m, first, count)
  BY <1>1, <1>2, <1>5 DEF RestAt
<1>7. a.out + count = HighOf(a, m) /\ first + count <= m
  BY <1>6, RestPlace
<1>8. HighOf(a, m) <= m
  BY PairOfRuns
<1> QED
  BY <1>1, <1>5, <1>6, <1>7, <1>8

\* The rest of a run is copied, and the next pair is begun.
LEMMA CopyRestKeeps ==
  ASSUME IndInv, CopyRest
  PROVE  IndInv'
<1>1. /\ how = "merge" /\ ~failed /\ ~done /\ at.low < n
      /\ ~(at.left < Middle(at.low, at.run) /\ at.right < High(at.low, at.run))
      /\ array' = Moved(at.out, Rest.first, Rest.count) /\ at' = MergeAt(at.low + 2 * at.run, at.run)
      /\ UNCHANGED <<how, answers, key, wanted, from, exited, failed, found, done>>
  BY DEF CopyRest, Merging, Holds
<1>2. TypeOK
  BY DEF IndInv
<1>3. PICK m \in Nat, a \in MergeRecord : m = n /\ a = at
  BY <1>1, InPass
<1>4. PICK f \in [0 .. m - 1 -> 0 .. m - 1], g \in [0 .. m - 1 -> Int] : f = array[from] /\ g = array[Other(from)]
  BY <1>1, <1>3, InPass
<1>5. /\ Elements = 0 .. m - 1 /\ key \in [0 .. m - 1 -> Int] /\ from \in Blocks /\ Other(from) \in Blocks
      /\ Read(key, m, f, a.run, Orderly) /\ Place(a, m) /\ Written(key, m, f, g, a, Orderly)
  BY <1>1, <1>3, <1>4, InPass
<1>6. a.low < m /\ ~(a.left < MiddleOf(a, m) /\ a.right < HighOf(a, m))
  BY <1>1, <1>3 DEF Middle, High, MiddleOf, HighOf
<1>7. PICK out \in Nat, first \in Nat, count \in Nat : out = a.out /\ first = Rest.first /\ count = Rest.count
  BY <1>3, <1>5, <1>6, RestIsLeft
<1>8. RestAt(a, m, first, count) /\ first + count <= m /\ out + count <= m
  BY <1>3, <1>5, <1>6, <1>7, RestIsLeft
<1>9. /\ array'[from] = f
      /\ array' \in [Blocks -> [Elements -> Elements \cup {NoElement}]]
      /\ \A i \in Elements : array'["base"][i] \in Elements
      /\ \A i \in 0 .. m - 1 : array'[Other(from)][i] =
           IF i \in out .. (out + count - 1) THEN f[first + i - out] ELSE g[i]
  <2>1. IsPermutation(array[from])
    BY <1>3, <1>4, <1>5 DEF Read, IsPermutation
  <2>2. first + count <= n /\ out + count <= n /\ array' = Moved(out, first, count) /\ key' = key /\ from' = from
    BY <1>1, <1>3, <1>7, <1>8
  <2>3. /\ array'[from] = array[from]
        /\ array' \in [Blocks -> [Elements -> Elements \cup {NoElement}]]
        /\ \A i \in Elements : array'["base"][i] \in Elements
    BY <1>2, <2>1, <2>2, MovedBlock
  <2>4. \A i \in Elements : array'[Other(from)][i] =
          IF i \in out .. (out + count - 1) THEN array[from][first + i - out] ELSE array[Other(from)][i]
    BY <1>2, <2>1, <2>2, MovedBlock
  <2> QED
    BY <1>4, <1>5, <2>3, <2>4
<1>10. PICK h \in [0 .. m - 1 -> Int] : h = array'[Other(from)]
  <2>1. array'[Other(from)] \in [0 .. m - 1 -> (0 .. m - 1) \cup {NoElement}]
    BY <1>5, <1>9
  <2>2. \A e \in (0 .. m - 1) \cup {NoElement} : e \in Int
    BY DEF NoElement
  <2> QED
    BY <2>1, <2>2
<1>11. PICK b \in MergeRecord :
         b = at' /\ b.run = a.run /\ NextPair(a, b, m)
  <2>1. PICK run \in Nat \ {0}, next \in Nat : run = a.run /\ next = a.low + 2 * a.run
    <3>1. PICK run \in Nat \ {0}, low \in Nat : run = a.run /\ low = a.low
      BY DEF MergeRecord
    <3>2. low + 2 * run \in Nat
      OBVIOUS
    <3> QED
      BY <3>1, <3>2
  <2>2. Middle(next, run) \in Nat
    BY <1>3, SmallerIsLess DEF Middle
  <2>3. at' = [run |-> run, low |-> next, left |-> next, right |-> Middle(next, run), out |-> next]
    BY <1>1, <1>3, <2>1 DEF MergeAt
  <2>4. at' \in MergeRecord
    BY <2>2, <2>3 DEF MergeRecord
  <2>5. at'.right = MiddleOf(at', m)
    BY <1>3, <2>3 DEF Middle, MiddleOf
  <2>6. at'.run = run /\ at'.low = next /\ at'.left = next /\ at'.out = next
    BY <2>3
  <2> QED
    BY <2>1, <2>4, <2>5, <2>6 DEF NextPair
<1>12. PICK orderly \in BOOLEAN : orderly = Orderly /\ orderly = Orderly'
  <2>1. Orderly' = Orderly /\ Orderly \in BOOLEAN
    BY <1>1 DEF Orderly
  <2> QED
    BY <2>1
<1>13. Place(b, m) /\ Written(key, m, f, h, b, orderly)
  <2>1. Read(key, m, f, a.run, orderly) /\ Written(key, m, f, g, a, orderly) /\ Place(a, m)
    BY <1>5, <1>12
  <2>2. Copied(m, f, g, h, a.out, first, count)
    <3>1. Copied(m, f, g, h, out, first, count)
      BY <1>9, <1>10 DEF Copied
    <3> QED
      BY <1>7, <3>1
  <2>3. NextPair(a, b, m)
    BY <1>11
  <2>4. key \in [0 .. m - 1 -> Int]
    BY <1>5
  <2> QED
    BY <1>6, <1>8, <2>1, <2>2, <2>3, <2>4, RestMoved
<1>14. exited' \in SUBSET {-1, 0, 1} /\ failed' \in BOOLEAN /\ at' \in MergeRecord
  BY <1>1, <1>2, <1>11 DEF TypeOK
<1>15. Read(key, n, array'[from], at'.run, Orderly')
  BY <1>3, <1>5, <1>9, <1>11, <1>12
<1>16. Place(at', n) /\ Written(key, n, array'[from], array'[Other(from)], at', Orderly')
  BY <1>3, <1>9, <1>10, <1>11, <1>12, <1>13
<1> QED
  BY <1>1, <1>2, <1>9, <1>14, <1>15, <1>16, PassKept

\* The next pass reads what this one wrote.
LEMMA NextPassKeeps ==
  ASSUME IndInv, NextPass
  PROVE  IndInv'
<1>1. /\ how = "merge" /\ ~failed /\ ~done /\ at.low >= n
      /\ from' = Other(from) /\ at' = MergeAt(0, 2 * at.run)
      /\ UNCHANGED <<how, answers, key, wanted, array, exited, failed, found, done>>
  BY DEF NextPass, Merging
<1>2. TypeOK
  BY DEF IndInv
<1>3. PICK m \in Nat, a \in MergeRecord : m = n /\ a = at
  BY <1>1, InPass
<1>4. PICK f \in [0 .. m - 1 -> 0 .. m - 1], g \in [0 .. m - 1 -> Int] : f = array[from] /\ g = array[Other(from)]
  BY <1>1, <1>3, InPass
<1>5. PICK orderly \in BOOLEAN : orderly = Orderly /\ orderly = Orderly'
  <2>1. Orderly' = Orderly /\ Orderly \in BOOLEAN
    BY <1>1 DEF Orderly
  <2> QED
    BY <2>1
<1>6. Read(key, m, f, a.run, orderly) /\ Place(a, m) /\ Written(key, m, f, g, a, orderly)
  BY <1>1, <1>3, <1>4, <1>5, InPass
<1>7. Read(key, m, g, 2 * a.run, orderly)
  BY <1>1, <1>3, <1>6, PassEnds
<1>8. PICK b \in MergeRecord :
        b = at' /\ b.run = 2 * a.run /\ b.low = 0 /\ b.left = 0 /\ b.out = 0 /\ b.right = MiddleOf(b, m)
  <2>1. PICK run \in Nat \ {0} : run = 2 * a.run
    BY DEF MergeRecord
  <2>2. Middle(0, run) \in Nat
    BY <1>3, SmallerIsLess DEF Middle
  <2>3. at' = [run |-> run, low |-> 0, left |-> 0, right |-> Middle(0, run), out |-> 0]
    BY <1>1, <1>3, <2>1 DEF MergeAt
  <2>4. at' \in MergeRecord
    BY <2>2, <2>3 DEF MergeRecord
  <2>5. at'.right = MiddleOf(at', m)
    BY <1>3, <2>3 DEF Middle, MiddleOf
  <2>6. at'.run = run /\ at'.low = 0 /\ at'.left = 0 /\ at'.out = 0
    BY <2>3
  <2> QED
    BY <2>1, <2>4, <2>5, <2>6
<1>9. Place(b, m) /\ Written(key, m, g, f, b, orderly)
  BY <1>8, PassBegins
<1>10. n' = n /\ Elements' = Elements
  BY <1>1 DEF n, Elements
<1>11. Other(from) \in Blocks /\ Other(Other(from)) = from
  BY <1>2 DEF TypeOK, Other, Blocks
<1>12. TypeOK'
  BY <1>1, <1>2, <1>8, <1>10, <1>11 DEF TypeOK
<1>13. MergeInv'
  <2>1. key' = key /\ array'[from'] = g /\ array'[Other(from')] = f /\ at' = b /\ n' = m /\ done' = done
    BY <1>1, <1>3, <1>4, <1>8, <1>10, <1>11
  <2>2. Read(key', n', array'[from'], at'.run, Orderly')
    BY <1>5, <1>7, <1>8, <2>1
  <2>3. Place(at', n') /\ Written(key', n', array'[from'], array'[Other(from')], at', Orderly')
    BY <1>5, <1>9, <2>1
  <2> QED
    BY <1>1, <2>1, <2>2, <2>3 DEF MergeInv
<1>14. ShellInv' /\ SearchInv'
  BY <1>1 DEF ShellInv, SearchInv
<1> QED
  BY <1>1, <1>12, <1>13, <1>14 DEF IndInv

\* The array ends as the block the last pass left.
LEMMA FinishKeeps ==
  ASSUME IndInv, Finish
  PROVE  IndInv'
<1>1. /\ how = "merge" /\ ~failed /\ ~done /\ at.run >= n
      /\ array' = [array EXCEPT !["base"] = array[from]] /\ done' = TRUE
      /\ UNCHANGED <<how, answers, key, wanted, from, at, exited, failed, found>>
  BY DEF Finish
<1>2. TypeOK
  BY DEF IndInv
<1>3. n' = n /\ Elements' = Elements
  BY <1>1 DEF n, Elements
<1>4. /\ Elements = 0 .. n - 1 /\ array[from] \in [Elements -> Elements]
      /\ Read(key, n, array[from], at.run, Orderly)
  BY <1>1, InPass
<1>5. array'[from] = array[from] /\ array'["base"] = array[from]
  BY <1>1, <1>2 DEF TypeOK, Blocks
<1>6. TypeOK'
  <2>1. array[from] \in [Elements -> Elements \cup {NoElement}]
    BY <1>4
  <2>2. array' \in [Blocks -> [Elements -> Elements \cup {NoElement}]]
    BY <1>1, <1>2, <2>1 DEF TypeOK
  <2>3. \A i \in Elements : array'["base"][i] \in Elements
    BY <1>4, <1>5
  <2> QED
    BY <1>1, <1>2, <1>3, <2>2, <2>3 DEF TypeOK
<1>7. MergeInv'
  <2>1. Orderly' = Orderly
    BY <1>1 DEF Orderly
  <2>2. Read(key', n', array'[from'], at'.run, Orderly')
    BY <1>1, <1>3, <1>4, <1>5, <2>1
  <2>3. array'["base"] = array'[from'] /\ at'.run >= n' /\ done'
    BY <1>1, <1>3, <1>5
  <2> QED
    BY <2>2, <2>3 DEF MergeInv
<1>8. ShellInv' /\ SearchInv'
  BY <1>1 DEF ShellInv, SearchInv
<1> QED
  BY <1>1, <1>6, <1>7, <1>8 DEF IndInv

-----------------------------------------------------------------------------
(* Every step of shell_sort keeps the invariant. *)

\* An array that was sorted within itself.
LEMMA InArray ==
  ASSUME IndInv, how = "shell"
  PROVE  /\ n \in Nat /\ Elements = 0 .. n - 1 /\ at \in ShellRecord /\ from = "base"
         /\ key \in [0 .. n - 1 -> Int] /\ array["base"] \in [0 .. n - 1 -> 0 .. n - 1]
         /\ IsPermutation(array["base"])
         /\ at.gap <= at.j /\ at.j <= at.i /\ (at.i >= n => at.j = at.i)
<1>1. TypeOK /\ ShellInv
  BY DEF IndInv
<1>2. PICK m \in Nat : /\ m = n /\ Elements = 0 .. m - 1 /\ key \in [0 .. m - 1 -> Int]
                       /\ \A b \in Blocks : array[b] \in [0 .. m - 1 -> (0 .. m - 1) \cup {NoElement}]
                       /\ \A i \in 0 .. m - 1 : array["base"][i] \in 0 .. m - 1
  BY <1>1, Shapes
<1>3. array["base"] \in [0 .. m - 1 -> 0 .. m - 1]
  BY <1>2 DEF Blocks
<1>4. from = "base" /\ IsPermutation(array["base"])
  BY DEF IndInv
<1>5. at \in ShellRecord
  BY <1>1 DEF TypeOK
<1>6. at.gap <= at.j /\ at.j <= at.i /\ (at.i >= n => at.j = at.i)
  BY <1>1 DEF ShellInv
<1> QED
  BY <1>2, <1>3, <1>4, <1>5, <1>6

\* What makes up the invariant after a step of shell_sort.
LEMMA ArrayKept ==
  ASSUME IndInv, how = "shell", UNCHANGED <<how, answers, key, wanted, from, found>>,
         exited' \in SUBSET {-1, 0, 1}, failed' \in BOOLEAN, done' \in BOOLEAN, ~(done' /\ failed'),
         NEW b \in ShellRecord, at' = b,
         NEW h \in [Elements -> Elements], array' = [array EXCEPT !["base"] = h],
         {h[i] : i \in Elements} = Elements,
         b.gap <= b.j, b.j <= b.i, b.i >= n => b.j = b.i, done' => b.gap = 0,
         Orderly' /\ b.gap = 0 => OrderedBut(key, n, h, n, n),
         Orderly' /\ b.gap = 1 => OrderedBut(key, n, h, b.i, b.j)
  PROVE  IndInv'
<1>1. n' = n /\ Elements' = Elements
  BY DEF n, Elements
<1>2. TypeOK /\ from = "base"
  BY DEF IndInv
<1>3. array'["base"] = h
  BY <1>2 DEF TypeOK, Blocks
<1>4. array' \in [Blocks -> [Elements -> Elements \cup {NoElement}]]
  <2>1. h \in [Elements -> Elements \cup {NoElement}]
    OBVIOUS
  <2> QED
    BY <1>2, <2>1 DEF TypeOK
<1>5. \A i \in Elements : array'["base"][i] \in Elements
  BY <1>3
<1>6. TypeOK'
  BY <1>1, <1>2, <1>4, <1>5 DEF TypeOK
<1>7. ShellInv'
  BY <1>1, <1>3 DEF ShellInv
<1>8. MergeInv' /\ SearchInv'
  BY DEF MergeInv, SearchInv
<1>9. from' = "base" /\ IsPermutation(array["base"])'
  BY <1>1, <1>2, <1>3 DEF IsPermutation
<1> QED
  BY <1>6, <1>7, <1>8, <1>9 DEF IndInv

\* Two elements change places, or the one on its way down is where it belongs.
LEMMA ExchangeKeeps ==
  ASSUME IndInv, NEW answer \in {-1, 0, 1}, NEW effect \in {"none", "exits", "fails"}, Exchange(answer, effect)
  PROVE  IndInv'
<1> DEFINE next == [at EXCEPT !.i = @ + 1, !.j = at.i + 1]
<1>1. /\ how = "shell" /\ ~failed /\ ~done /\ at.gap > 0 /\ at.i < n
      /\ Compare(key[array["base"][at.j - at.gap]], key[array["base"][at.j]], answer, effect)
      /\ IF failed' \/ answer <= 0 THEN at' = next /\ array' = array
         ELSE /\ array' = [array EXCEPT !["base"] = [array["base"] EXCEPT ![at.j - at.gap] = array["base"][at.j],
                                                                         ![at.j] = array["base"][at.j - at.gap]]]
              /\ at' = IF at.j - at.gap >= at.gap THEN [at EXCEPT !.j = at.j - at.gap] ELSE next
      /\ UNCHANGED <<how, answers, key, wanted, from, found, done>>
  BY DEF Exchange
<1>2. TypeOK
  BY DEF IndInv
<1>3. PICK m \in Nat : m = n
  BY <1>1, InArray
<1>4. PICK f \in [0 .. m - 1 -> 0 .. m - 1] : f = array["base"]
  BY <1>1, <1>3, InArray
<1>5. PICK gap \in Nat, i \in Nat, j \in Nat : gap = at.gap /\ i = at.i /\ j = at.j
  BY <1>1, InArray DEF ShellRecord
<1>6. /\ Elements = 0 .. m - 1 /\ key \in [0 .. m - 1 -> Int] /\ IsPermutation(f)
      /\ gap <= j /\ j <= i /\ gap > 0 /\ i < m
  BY <1>1, <1>3, <1>4, <1>5, InArray
<1>7. PICK p \in 0 .. m - 1 : p = j - gap
  BY <1>6
<1>8. j \in 0 .. m - 1
  BY <1>6
<1>9. PICK kp \in Int, kj \in Int : kp = key[f[p]] /\ kj = key[f[j]]
  BY <1>6, <1>8
<1>10. Compare(kp, kj, answer, effect)
  BY <1>1, <1>4, <1>5, <1>7, <1>9
<1>11. /\ exited' \in SUBSET {-1, 0, 1} /\ failed' \in BOOLEAN
       /\ Orderly' => Orderly /\ answer \in Answers(kp, kj)
  BY <1>1, <1>2, <1>10, CompareAnswers
<1>12. Orderly' => ~failed' /\ (answer > 0 <=> kp > kj)
  <2> SUFFICES ASSUME Orderly'
               PROVE  ~failed' /\ (answer > 0 <=> kp > kj)
    OBVIOUS
  <2>1. answers = "ordered" /\ ~failed' /\ answer \in Answers(kp, kj)
    BY <1>11 DEF Orderly
  <2> QED
    BY <2>1, AnswersByKey
<1>13. Orderly' /\ gap = 1 => OrderedBut(key, m, f, i, j)
  <2>1. ShellInv
    BY DEF IndInv
  <2> QED
    BY <1>1, <1>3, <1>4, <1>5, <1>11, <2>1 DEF ShellInv
<1>14. PICK b \in ShellRecord : b = next /\ b.gap = gap /\ b.i = i + 1 /\ b.j = i + 1
  <2>1. PICK k \in Nat : k = i + 1
    OBVIOUS
  <2>2. at \in ShellRecord
    BY <1>1, InArray
  <2>3. [at EXCEPT !.i = k, !.j = k] \in ShellRecord
    BY <2>2 DEF ShellRecord
  <2>4. next = [at EXCEPT !.i = k, !.j = k]
    BY <1>5, <2>1
  <2>5. /\ [at EXCEPT !.i = k, !.j = k].gap = gap
        /\ [at EXCEPT !.i = k, !.j = k].i = k /\ [at EXCEPT !.i = k, !.j = k].j = k
    BY <1>5, <2>2 DEF ShellRecord
  <2> QED
    BY <2>1, <2>3, <2>4, <2>5
<1>15. done' \in BOOLEAN /\ ~done'
  BY <1>1, <1>2 DEF TypeOK
<1> HIDE DEF next
<1>16. CASE failed' \/ answer <= 0
  <2>1. at' = b /\ array' = [array EXCEPT !["base"] = f]
    <3>1. array = [array EXCEPT !["base"] = f]
      BY <1>2, <1>4 DEF TypeOK
    <3> QED
      BY <1>1, <1>14, <1>16, <3>1
  <2>2. Orderly' => ~(kp > kj)
    BY <1>12, <1>16
  <2>3. Orderly' /\ gap = 1 => OrderedBut(key, m, f, i + 1, i + 1)
    <3> SUFFICES ASSUME Orderly', gap = 1
                 PROVE  OrderedBut(key, m, f, i + 1, i + 1)
      OBVIOUS
    <3>1. j \in 1 .. m - 1 /\ j <= i /\ j - 1 = p
      BY <1>6, <1>7
    <3>2. ~(key[f[j - 1]] > key[f[j]])
      BY <1>9, <2>2, <3>1, Zenon
    <3>3. OrderedBut(key, m, f, i, j) /\ key \in [0 .. m - 1 -> Int]
      BY <1>6, <1>13
    <3> QED
      BY <3>1, <3>2, <3>3, InPlace
  <2>4. f \in [Elements -> Elements] /\ {f[x] : x \in Elements} = Elements
    BY <1>6 DEF IsPermutation
  <2>5. b.gap <= b.j /\ b.j <= b.i /\ (b.i >= n => b.j = b.i) /\ (done' => b.gap = 0)
    BY <1>6, <1>14, <1>15
  <2>6. b.gap # 0 /\ (Orderly' /\ b.gap = 1 => OrderedBut(key, n, f, b.i, b.j))
    BY <1>3, <1>6, <1>14, <2>3
  <2> QED
    BY <1>1, <1>11, <1>15, <2>1, <2>4, <2>5, <2>6, ArrayKept
<1>17. CASE ~(failed' \/ answer <= 0)
  <2> DEFINE h == [f EXCEPT ![p] = f[j], ![j] = f[p]]
  <2>1. h \in [0 .. m - 1 -> 0 .. m - 1]
    BY <1>8
  <2>2. h[p] = f[j] /\ h[j] = f[p] /\ \A x \in 0 .. m - 1 : x # p /\ x # j => h[x] = f[x]
    BY <1>8
  <2>3. array' = [array EXCEPT !["base"] = h] /\ at' = IF p >= gap THEN [at EXCEPT !.j = p] ELSE b
    BY <1>1, <1>4, <1>5, <1>7, <1>14, <1>17
  <2> HIDE DEF h
  <2>4. {h[x] : x \in Elements} = Elements
    <3>1. {h[x] : x \in 0 .. m - 1} = {f[x] : x \in 0 .. m - 1}
      BY <1>8, <2>2, ExchangedStay
    <3> QED
      BY <1>6, <3>1 DEF IsPermutation
  <2>5. Orderly' /\ gap = 1 => OrderedBut(key, m, h, i, p)
    <3> SUFFICES ASSUME Orderly', gap = 1
                 PROVE  OrderedBut(key, m, h, i, p)
      OBVIOUS
    <3>1. j \in 1 .. m - 1 /\ j <= i /\ j - 1 = p
      BY <1>6, <1>7
    <3>2. key[f[j - 1]] > key[f[j]]
      <4>1. kp > kj
        BY <1>12, <1>17
      <4> QED
        BY <1>9, <3>1, <4>1, Zenon
    <3>3. OrderedBut(key, m, f, i, j) /\ key \in [0 .. m - 1 -> Int]
      BY <1>6, <1>13
    <3>4. h[j - 1] = f[j] /\ h[j] = f[j - 1] /\ \A x \in 0 .. m - 1 : x # j - 1 /\ x # j => h[x] = f[x]
      BY <2>2, <3>1
    <3>5. OrderedBut(key, m, h, i, j - 1)
      BY <3>1, <3>2, <3>3, <3>4, ExchangedInOrder
    <3> QED
      BY <3>1, <3>5
  <2>6. h \in [Elements -> Elements]
    BY <1>6, <2>1
  <2>7. CASE p >= gap
    <3>1. PICK c \in ShellRecord : c = at' /\ c.gap = gap /\ c.i = i /\ c.j = p
      <4>1. at \in ShellRecord /\ p \in Nat
        BY <1>1, InArray
      <4>2. [at EXCEPT !.j = p] \in ShellRecord
        BY <4>1 DEF ShellRecord
      <4>3. [at EXCEPT !.j = p].gap = gap /\ [at EXCEPT !.j = p].i = i /\ [at EXCEPT !.j = p].j = p
        BY <1>5, <4>1 DEF ShellRecord
      <4> QED
        BY <2>3, <2>7, <4>2, <4>3
    <3>2. c.gap <= c.j /\ c.j <= c.i /\ (c.i >= n => c.j = c.i) /\ (done' => c.gap = 0)
      <4>1. gap <= p /\ p <= i /\ ~(i >= m)
        BY <1>6, <1>7, <2>7
      <4> QED
        BY <1>3, <1>15, <3>1, <4>1
    <3>3. c.gap # 0 /\ (Orderly' /\ c.gap = 1 => OrderedBut(key, n, h, c.i, c.j))
      <4>1. c.gap # 0
        BY <1>6, <3>1
      <4>2. Orderly' /\ c.gap = 1 => OrderedBut(key, n, h, c.i, c.j)
        BY <1>3, <2>5, <3>1, Zenon
      <4> QED
        BY <4>1, <4>2
    <3> QED
      BY <1>1, <1>11, <1>15, <2>3, <2>4, <2>6, <3>1, <3>2, <3>3, ArrayKept
  <2>8. CASE ~(p >= gap)
    <3>1. at' = b
      BY <2>3, <2>8
    <3>2. b.gap <= b.j /\ b.j <= b.i /\ (b.i >= n => b.j = b.i) /\ (done' => b.gap = 0)
      BY <1>6, <1>14, <1>15
    <3>3. Orderly' /\ gap = 1 => OrderedBut(key, m, h, i + 1, i + 1)
      <4> SUFFICES ASSUME Orderly', gap = 1
                   PROVE  OrderedBut(key, m, h, i + 1, i + 1)
        OBVIOUS
      <4>1. \A x, y \in 0 .. m - 1 : x < y /\ y <= i + 1 /\ y # i + 1 => y <= i /\ y # p
        BY <2>8
      <4> QED
        BY <2>5, <4>1 DEF OrderedBut
    <3>4. b.gap # 0 /\ (Orderly' /\ b.gap = 1 => OrderedBut(key, n, h, b.i, b.j))
      BY <1>3, <1>6, <1>14, <3>3
    <3> QED
      BY <1>1, <1>11, <1>15, <2>3, <2>4, <2>6, <3>1, <3>2, <3>4, ArrayKept
  <2> QED
    BY <2>7, <2>8
<1> QED
  BY <1>16, <1>17

\* The gaps end with one, after which everything is in order.
LEMMA NextGapKeeps ==
  ASSUME IndInv, NextGap
  PROVE  IndInv'
<1>1. /\ how = "shell" /\ ~failed /\ ~done
      /\ IF at.gap = 0 THEN done' = TRUE /\ at' = at
         ELSE at.i >= n /\ at' = ShellAt(at.gap \div 2) /\ done' = done
      /\ UNCHANGED <<how, answers, key, wanted, array, from, exited, failed, found>>
  BY DEF NextGap
<1>2. TypeOK /\ ShellInv
  BY DEF IndInv
<1>3. PICK m \in Nat : m = n
  BY <1>1, InArray
<1>4. PICK f \in [0 .. m - 1 -> 0 .. m - 1] : f = array["base"]
  BY <1>1, <1>3, InArray
<1>5. PICK gap \in Nat, i \in Nat, j \in Nat : gap = at.gap /\ i = at.i /\ j = at.j
  BY <1>1, InArray DEF ShellRecord
<1>6. Elements = 0 .. m - 1 /\ IsPermutation(f) /\ gap <= j /\ j <= i /\ (i >= m => j = i)
  BY <1>1, <1>3, <1>4, <1>5, InArray
<1>7. /\ f \in [Elements -> Elements] /\ {f[x] : x \in Elements} = Elements
      /\ array' = [array EXCEPT !["base"] = f]
  <2>1. array = [array EXCEPT !["base"] = f]
    BY <1>2, <1>4 DEF TypeOK
  <2> QED
    BY <1>1, <1>6, <2>1 DEF IsPermutation
<1>8. exited' \in SUBSET {-1, 0, 1} /\ failed' \in BOOLEAN /\ ~failed' /\ Orderly' = Orderly
  BY <1>1, <1>2 DEF TypeOK, Orderly
<1>9. /\ Orderly /\ gap = 0 => OrderedBut(key, m, f, m, m)
      /\ Orderly /\ gap = 1 => OrderedBut(key, m, f, i, j)
  BY <1>1, <1>2, <1>3, <1>4, <1>5 DEF ShellInv
<1>10. CASE gap = 0
  <2>1. done' = TRUE /\ at' = at
    BY <1>1, <1>5, <1>10
  <2>2. PICK b \in ShellRecord : b = at' /\ b.gap = gap /\ b.i = i /\ b.j = j
    BY <1>1, <1>5, <2>1, InArray
  <2>3. b.gap <= b.j /\ b.j <= b.i /\ (b.i >= n => b.j = b.i) /\ b.gap = 0 /\ b.gap # 1
    BY <1>3, <1>6, <1>10, <2>2
  <2>4. Orderly' => OrderedBut(key, n, f, n, n)
    BY <1>3, <1>8, <1>9, <1>10
  <2> QED
    BY <1>1, <1>7, <1>8, <2>1, <2>2, <2>3, <2>4, ArrayKept
<1>11. CASE gap # 0
  <2>1. i >= m /\ at' = ShellAt(gap \div 2) /\ done' = FALSE
    BY <1>1, <1>2, <1>3, <1>5, <1>11 DEF TypeOK
  <2>2. PICK half \in Nat : half = gap \div 2
    OBVIOUS
  <2>3. PICK b \in ShellRecord : b = at' /\ b.gap = half /\ b.i = half /\ b.j = half
    BY <2>1, <2>2 DEF ShellAt, ShellRecord
  <2>4. half = 0 => gap = 1
    BY <1>11, <2>2
  <2>5. Orderly' /\ half = 0 => OrderedBut(key, m, f, m, m)
    <3> SUFFICES ASSUME Orderly', half = 0
                 PROVE  OrderedBut(key, m, f, m, m)
      OBVIOUS
    <3>1. OrderedBut(key, m, f, i, j)
      BY <1>8, <1>9, <2>4
    <3>2. \A y \in 0 .. m - 1 : y <= i /\ y # j
      BY <1>6, <2>1
    <3> QED
      BY <3>1, <3>2 DEF OrderedBut
  <2>6. half = 1 => OrderedBut(key, m, f, half, half)
    <3> SUFFICES ASSUME half = 1
                 PROVE  OrderedBut(key, m, f, half, half)
      OBVIOUS
    <3>1. \A x, y \in 0 .. m - 1 : ~(x < y /\ y <= half /\ y # half)
      OBVIOUS
    <3> QED
      BY <3>1 DEF OrderedBut
  <2>7. b.gap <= b.j /\ b.j <= b.i /\ (b.i >= n => b.j = b.i)
    BY <2>3
  <2>8. /\ Orderly' /\ b.gap = 0 => OrderedBut(key, n, f, n, n)
        /\ Orderly' /\ b.gap = 1 => OrderedBut(key, n, f, b.i, b.j)
    BY <1>3, <2>3, <2>5, <2>6, Zenon
  <2>9. done' \in BOOLEAN /\ ~done'
    BY <2>1
  <2> QED
    BY <1>1, <1>7, <1>8, <2>3, <2>7, <2>8, <2>9, ArrayKept
<1> QED
  BY <1>10, <1>11

-----------------------------------------------------------------------------
(* Every step of bsearch keeps the invariant. *)

\* What makes up the invariant after a step of bsearch.
LEMMA SearchKept ==
  ASSUME IndInv, how = "search", UNCHANGED <<how, answers, key, wanted, array, from>>,
         exited' \in SUBSET {-1, 0, 1}, failed' \in BOOLEAN, done' \in BOOLEAN, ~(done' /\ failed'),
         NEW b \in SearchRecord, at' = b, b.low <= b.high, b.high <= n,
         Orderly' => \A i \in Elements : (i < b.low => key[i] < wanted) /\ (i >= b.high => wanted < key[i]),
         Orderly' => IF done' THEN Found' ELSE found' = NoElement
  PROVE  IndInv'
<1>1. n' = n /\ Elements' = Elements
  BY DEF n, Elements
<1>2. TypeOK /\ SearchInv
  BY DEF IndInv
<1>3. TypeOK'
  BY <1>1, <1>2 DEF TypeOK
<1>4. SearchInv'
  BY <1>1, <1>2 DEF SearchInv
<1>5. MergeInv' /\ ShellInv'
  BY DEF MergeInv, ShellInv
<1>6. from' = "base" /\ IsPermutation(array["base"])'
  BY <1>1 DEF IsPermutation, IndInv
<1> QED
  BY <1>3, <1>4, <1>5, <1>6 DEF IndInv

\* What bsearch has of the array and where it is.
LEMMA InSearch ==
  ASSUME IndInv, how = "search", ~done
  PROVE  /\ n \in Nat /\ Elements = 0 .. n - 1 /\ key \in [0 .. n - 1 -> Int] /\ wanted \in Int
         /\ at \in SearchRecord /\ at.low <= at.high /\ at.high <= n
         /\ \A i, j \in Elements : i < j => key[i] <= key[j]
         /\ Orderly => /\ found = NoElement
                       /\ \A i \in Elements : (i < at.low => key[i] < wanted) /\ (i >= at.high => wanted < key[i])
<1>1. TypeOK /\ SearchInv
  BY DEF IndInv
<1>2. n \in Nat /\ Elements = 0 .. n - 1 /\ key \in [0 .. n - 1 -> Int]
  BY <1>1, Shapes
<1>3. at \in SearchRecord /\ wanted \in Int
  BY <1>1, SizesAssumption DEF TypeOK
<1> QED
  BY <1>1, <1>2, <1>3 DEF SearchInv

\* The place in the middle is looked at.
LEMMA ProbeKeeps ==
  ASSUME IndInv, NEW answer \in {-1, 0, 1}, NEW effect \in {"none", "exits", "fails"}, Probe(answer, effect)
  PROVE  IndInv'
<1> DEFINE middle == at.low + (at.high - at.low) \div 2
<1>1. /\ how = "search" /\ ~failed /\ ~done /\ at.low < at.high
      /\ Compare(wanted, key[middle], answer, effect)
      /\ IF failed' THEN at' = at /\ found' = found /\ done' = done
         ELSE IF answer = 0 THEN found' = middle /\ done' = TRUE /\ at' = at
         ELSE at' = Half(middle, answer) /\ found' = found /\ done' = done
      /\ UNCHANGED <<how, answers, key, wanted, array, from>>
  BY DEF Probe
<1>2. TypeOK
  BY DEF IndInv
<1>3. PICK m \in Nat, low \in Nat, high \in Nat : m = n /\ low = at.low /\ high = at.high
  BY <1>1, InSearch DEF SearchRecord
<1>4. /\ Elements = 0 .. m - 1 /\ key \in [0 .. m - 1 -> Int] /\ wanted \in Int
      /\ low < high /\ high <= m
      /\ \A i, j \in 0 .. m - 1 : i < j => key[i] <= key[j]
      /\ Orderly => /\ found = NoElement
                    /\ \A i \in 0 .. m - 1 : (i < low => key[i] < wanted) /\ (i >= high => wanted < key[i])
  BY <1>1, <1>3, InSearch
<1>5. PICK mid \in 0 .. m - 1 : mid = middle /\ low <= mid /\ mid < high
  <2>1. (high - low) \div 2 \in Nat /\ (high - low) \div 2 < high - low
    BY <1>4
  <2>2. PICK half \in Nat : half = (high - low) \div 2 /\ half < high - low
    BY <2>1
  <2>3. low + half \in 0 .. m - 1 /\ low <= low + half /\ low + half < high
    BY <1>4, <2>2
  <2> QED
    BY <1>3, <2>2, <2>3
<1> HIDE DEF middle
<1>6. PICK kw \in Int, km \in Int : kw = wanted /\ km = key[mid]
  BY <1>4
<1>7. Compare(kw, km, answer, effect)
  BY <1>1, <1>5, <1>6
<1>8. /\ exited' \in SUBSET {-1, 0, 1} /\ failed' \in BOOLEAN
      /\ Orderly' => Orderly /\ answer \in Answers(kw, km)
  BY <1>1, <1>2, <1>7, CompareAnswers
<1>9. Orderly' => ~failed' /\ (answer < 0 <=> kw < km) /\ (answer = 0 <=> kw = km)
  <2> SUFFICES ASSUME Orderly'
               PROVE  ~failed' /\ (answer < 0 <=> kw < km) /\ (answer = 0 <=> kw = km)
    OBVIOUS
  <2>1. answers = "ordered" /\ ~failed' /\ answer \in Answers(kw, km)
    BY <1>8 DEF Orderly
  <2> QED
    BY <1>1, <2>1, AnswersByKey
<1>10. done = FALSE
  BY <1>1, <1>2 DEF TypeOK
<1>11. at \in SearchRecord
  BY <1>1, InSearch
<1>12. Orderly' => \A i \in 0 .. m - 1 : (i < low => key[i] < wanted) /\ (i >= high => wanted < key[i])
  BY <1>4, <1>8
<1>13. CASE failed'
  <2>1. ~Orderly' /\ at' = at /\ done' = FALSE
    BY <1>1, <1>10, <1>13 DEF Orderly
  <2>2. at.low <= at.high /\ at.high <= n
    BY <1>3, <1>4
  <2> QED
    BY <1>1, <1>8, <1>11, <2>1, <2>2, SearchKept
<1>14. CASE ~failed' /\ answer = 0
  <2>1. found' = mid /\ done' = TRUE /\ at' = at
    BY <1>1, <1>5, <1>14
  <2>2. at.low <= at.high /\ at.high <= n
    BY <1>3, <1>4
  <2>3. Orderly' => Found'
    <3> SUFFICES ASSUME Orderly'
                 PROVE  Found'
      OBVIOUS
    <3>1. key[mid] = wanted
      BY <1>6, <1>9, <1>14
    <3>2. Elements' = 0 .. m - 1 /\ key' = key /\ wanted' = wanted
      BY <1>1, <1>4 DEF Elements, n
    <3> QED
      BY <2>1, <3>1, <3>2 DEF Found
  <2>4. Orderly' => \A i \in Elements : (i < at.low => key[i] < wanted) /\ (i >= at.high => wanted < key[i])
    BY <1>3, <1>4, <1>12
  <2> QED
    BY <1>1, <1>8, <1>11, <1>14, <2>1, <2>2, <2>3, <2>4, SearchKept
<1>15. CASE ~failed' /\ answer < 0
  <2>1. PICK b \in SearchRecord : b = at' /\ b.low = low /\ b.high = mid
    <3>1. at' = [at EXCEPT !.high = mid]
      BY <1>1, <1>5, <1>15 DEF Half
    <3>2. mid \in Nat
      OBVIOUS
    <3> QED
      BY <1>3, <1>11, <3>1, <3>2 DEF SearchRecord
  <2>2. found' = found /\ done' = FALSE
    BY <1>1, <1>10, <1>15
  <2>3. b.low <= b.high /\ b.high <= n
    BY <1>3, <1>4, <1>5, <2>1
  <2>4. Orderly' => \A i \in 0 .. m - 1 : (i < low => key[i] < wanted) /\ (i >= mid => wanted < key[i])
    <3> SUFFICES ASSUME Orderly', NEW i \in 0 .. m - 1
                 PROVE  (i < low => key[i] < wanted) /\ (i >= mid => wanted < key[i])
      OBVIOUS
    <3>1. kw < km
      BY <1>9, <1>15
    <3>2. i = mid \/ (i > mid => key[mid] <= key[i])
      BY <1>4
    <3>3. i >= mid => wanted < key[i]
      BY <1>4, <1>6, <3>1, <3>2
    <3> QED
      BY <1>12, <3>3
  <2>5. Orderly' => found' = NoElement
    BY <1>4, <1>8, <2>2
  <2>6. Orderly' => \A i \in Elements : (i < b.low => key[i] < wanted) /\ (i >= b.high => wanted < key[i])
    BY <1>4, <2>1, <2>4
  <2> QED
    BY <1>1, <1>8, <2>1, <2>2, <2>3, <2>5, <2>6, SearchKept
<1>16. CASE ~failed' /\ answer > 0
  <2>1. PICK b \in SearchRecord : b = at' /\ b.low = mid + 1 /\ b.high = high
    <3>1. at' = [at EXCEPT !.low = mid + 1]
      BY <1>1, <1>5, <1>16 DEF Half
    <3>2. PICK k \in Nat : k = mid + 1
      OBVIOUS
    <3> QED
      BY <1>3, <1>11, <3>1, <3>2 DEF SearchRecord
  <2>2. found' = found /\ done' = FALSE
    BY <1>1, <1>10, <1>16
  <2>3. b.low <= b.high /\ b.high <= n
    BY <1>3, <1>4, <1>5, <2>1
  <2>4. Orderly' => \A i \in 0 .. m - 1 : (i < mid + 1 => key[i] < wanted) /\ (i >= high => wanted < key[i])
    <3> SUFFICES ASSUME Orderly', NEW i \in 0 .. m - 1
                 PROVE  (i < mid + 1 => key[i] < wanted) /\ (i >= high => wanted < key[i])
      OBVIOUS
    <3>1. km < kw
      BY <1>9, <1>16
    <3>2. i = mid \/ (i < mid => key[i] <= key[mid])
      BY <1>4
    <3>3. i < mid + 1 => key[i] < wanted
      BY <1>4, <1>6, <3>1, <3>2
    <3> QED
      BY <1>12, <3>3
  <2>5. Orderly' => found' = NoElement
    BY <1>4, <1>8, <2>2
  <2>6. Orderly' => \A i \in Elements : (i < b.low => key[i] < wanted) /\ (i >= b.high => wanted < key[i])
    BY <1>4, <2>1, <2>4
  <2> QED
    BY <1>1, <1>8, <2>1, <2>2, <2>3, <2>5, <2>6, SearchKept
<1> QED
  BY <1>8, <1>13, <1>14, <1>15, <1>16

\* Nothing is left to look at.
LEMMA NotThereKeeps ==
  ASSUME IndInv, NotThere
  PROVE  IndInv'
<1>1. /\ how = "search" /\ ~failed /\ ~done /\ at.low >= at.high /\ done' = TRUE
      /\ UNCHANGED <<how, answers, key, wanted, array, from, at, exited, failed, found>>
  BY DEF NotThere
<1>2. TypeOK
  BY DEF IndInv
<1>3. PICK m \in Nat, low \in Nat, high \in Nat : m = n /\ low = at.low /\ high = at.high
  BY <1>1, InSearch DEF SearchRecord
<1>4. /\ Elements = 0 .. m - 1 /\ key \in [0 .. m - 1 -> Int] /\ wanted \in Int
      /\ low = high /\ high <= m /\ at \in SearchRecord
      /\ Orderly => /\ found = NoElement
                    /\ \A i \in 0 .. m - 1 : (i < low => key[i] < wanted) /\ (i >= high => wanted < key[i])
  <2>1. at.low <= at.high /\ at.high <= n /\ at.low >= at.high
    BY <1>1, InSearch
  <2>2. low = high /\ high <= m
    BY <1>3, <2>1
  <2>3. /\ Elements = 0 .. m - 1 /\ key \in [0 .. m - 1 -> Int] /\ wanted \in Int /\ at \in SearchRecord
        /\ Orderly => /\ found = NoElement
                      /\ \A i \in Elements : (i < low => key[i] < wanted) /\ (i >= high => wanted < key[i])
    BY <1>1, <1>3, InSearch
  <2> QED
    BY <2>2, <2>3
<1>5. Orderly' = Orderly /\ exited' \in SUBSET {-1, 0, 1} /\ failed' \in BOOLEAN /\ ~failed'
  BY <1>1, <1>2 DEF Orderly, TypeOK
<1>6. Orderly' => Found'
  <2> SUFFICES ASSUME Orderly
               PROVE  Found'
    BY <1>5
  <2>1. \A i \in 0 .. m - 1 : key[i] # wanted
    <3> SUFFICES ASSUME NEW i \in 0 .. m - 1
                 PROVE  key[i] # wanted
      OBVIOUS
    <3>1. key[i] \in Int /\ (i < low \/ i >= high)
      BY <1>4
    <3>2. key[i] < wanted \/ wanted < key[i]
      BY <1>4, <3>1
    <3> QED
      BY <1>4, <3>1, <3>2
  <2>2. Elements' = 0 .. m - 1 /\ key' = key /\ wanted' = wanted /\ found' = NoElement
    BY <1>1, <1>4 DEF Elements, n
  <2> QED
    BY <2>1, <2>2 DEF Found
<1>7. Orderly' => \A i \in Elements : (i < at.low => key[i] < wanted) /\ (i >= at.high => wanted < key[i])
  BY <1>3, <1>4, <1>5
<1>8. at' = at /\ at.low <= at.high /\ at.high <= n
  BY <1>1, <1>3, <1>4
<1> QED
  BY <1>1, <1>4, <1>5, <1>6, <1>7, <1>8, SearchKept

-----------------------------------------------------------------------------
(* The theorems. *)

\* A call begins with the elements as they are in the array.
LEMMA InitKeeps == Init => IndInv
<1> SUFFICES ASSUME Init
             PROVE  IndInv
  OBVIOUS
<1>1. PICK size \in 0 .. MaxElements :
        /\ key \in [0 .. (size - 1) -> Keys]
        /\ array = [b \in Blocks |-> [i \in 0 .. (size - 1) |-> IF b = "base" THEN i ELSE NoElement]]
        /\ \/ how = "merge" /\ at = MergeAt(0, 1)
           \/ how = "shell" /\ at = ShellAt(size \div 2)
           \/ how = "search" /\ at = [low |-> 0, high |-> size]
  BY DEF Init
<1>2. /\ how = "search" => \A i, j \in Elements : i < j => key[i] <= key[j]
      /\ answers \in {"ordered", "any"} /\ wanted \in Keys
      /\ from = "base" /\ exited = {} /\ failed = FALSE /\ found = NoElement /\ done = FALSE
  BY DEF Init
<1>3. size \in Nat
  BY SizesAssumption
<1>4. n = size
  <2>1. DOMAIN key = 0 .. (size - 1)
    BY <1>1
  <2>2. size - 1 \in Int /\ 0 \in Int
    BY <1>3
  <2>3. Cardinality(0 .. (size - 1)) = IF 0 > size - 1 THEN 0 ELSE size - 1 - 0 + 1
    BY <2>2, FS_Interval
  <2>4. Cardinality(0 .. (size - 1)) = size
    BY <1>3, <2>3
  <2> QED
    BY <2>1, <2>4 DEF n
<1>5. Elements = 0 .. size - 1
  BY <1>4 DEF Elements
<1>6. /\ array["base"] = [i \in 0 .. (size - 1) |-> i]
      /\ \A i \in 0 .. size - 1 : array["base"][i] = i
  BY <1>1 DEF Blocks
<1>7. array \in [Blocks -> [Elements -> Elements \cup {NoElement}]]
  BY <1>1, <1>5
<1>8. IsPermutation(array["base"])
  BY <1>5, <1>6 DEF IsPermutation
<1>9. how = "merge" => /\ at \in MergeRecord /\ at.run = 1 /\ at.low = 0 /\ at.left = 0 /\ at.out = 0
                      /\ at.right = MiddleOf(at, n)
  <2> SUFFICES ASSUME how = "merge"
               PROVE  /\ at \in MergeRecord /\ at.run = 1 /\ at.low = 0 /\ at.left = 0 /\ at.out = 0
                      /\ at.right = MiddleOf(at, n)
    OBVIOUS
  <2>1. at = [run |-> 1, low |-> 0, left |-> 0, right |-> Middle(0, 1), out |-> 0]
    BY <1>1 DEF MergeAt
  <2>2. Middle(0, 1) \in Nat
    BY <1>3, <1>4, SmallerIsLess DEF Middle
  <2>3. at.right = MiddleOf(at, n)
    BY <2>1 DEF Middle, MiddleOf
  <2> QED
    BY <2>1, <2>2, <2>3 DEF MergeRecord
<1>10. how = "shell" => at \in ShellRecord /\ at.gap = size \div 2 /\ at.i = at.gap /\ at.j = at.gap
  <2>1. size \div 2 \in Nat
    BY <1>3
  <2> QED
    BY <1>1, <2>1 DEF ShellAt, ShellRecord
<1>11. how = "search" => at \in SearchRecord /\ at.low = 0 /\ at.high = size
  BY <1>1, <1>3 DEF SearchRecord
<1>12. TypeOK
  <2>1. \/ how = "merge" /\ at \in MergeRecord
        \/ how = "shell" /\ at \in ShellRecord
        \/ how = "search" /\ at \in SearchRecord
    BY <1>1, <1>9, <1>10, <1>11
  <2>2. \A i \in Elements : array["base"][i] \in Elements
    BY <1>5, <1>6
  <2> QED
    BY <1>1, <1>2, <1>3, <1>4, <1>5, <1>7, <2>1, <2>2 DEF TypeOK, Blocks
<1>13. MergeInv
  <2> SUFFICES ASSUME how = "merge"
               PROVE  /\ Read(key, n, array["base"], at.run, Orderly)
                      /\ Place(at, n) /\ Written(key, n, array["base"], array[Other("base")], at, Orderly)
    BY <1>2 DEF MergeInv
  <2>1. Orderly \in BOOLEAN
    BY DEF Orderly
  <2>2. Read(key, size, array["base"], 1, TRUE)
    BY <1>3, <1>6, RunsOfOne
  <2>3. Read(key, n, array["base"], at.run, Orderly)
    BY <1>4, <1>9, <2>2 DEF Read
  <2>4. n \in Nat
    BY <1>3, <1>4
  <2> QED
    BY <1>9, <2>1, <2>3, <2>4, PassBegins
<1>14. ShellInv
  <2> SUFFICES ASSUME how = "shell"
               PROVE  /\ at.gap <= at.j /\ at.j <= at.i /\ (at.i >= n => at.j = at.i)
                      /\ at.gap = 0 => OrderedBut(key, n, array["base"], n, n)
                      /\ at.gap = 1 => OrderedBut(key, n, array["base"], at.i, at.j)
    BY <1>2 DEF ShellInv
  <2>1. PICK gap \in Nat : gap = size \div 2 /\ at.gap = gap /\ at.i = gap /\ at.j = gap
    BY <1>3, <1>10
  <2>2. gap = 0 => size < 2
    BY <1>3, <2>1
  <2>3. gap = 0 => OrderedBut(key, size, array["base"], size, size)
    <3>1. size < 2 => \A x, y \in 0 .. size - 1 : ~(x < y)
      BY <1>3
    <3> QED
      BY <2>2, <3>1 DEF OrderedBut
  <2>4. gap = 1 => OrderedBut(key, size, array["base"], gap, gap)
    <3>1. gap = 1 => \A x, y \in 0 .. size - 1 : ~(x < y /\ y <= gap /\ y # gap)
      BY <1>3
    <3> QED
      BY <3>1 DEF OrderedBut
  <2>5. at.gap <= at.j /\ at.j <= at.i
    BY <2>1
  <2> QED
    BY <1>4, <2>1, <2>3, <2>4, <2>5
<1>15. SearchInv
  <2> SUFFICES ASSUME how = "search"
               PROVE  /\ at.low <= at.high /\ at.high <= n
                      /\ \A i \in Elements : (i < at.low => key[i] < wanted) /\ (i >= at.high => wanted < key[i])
    BY <1>2 DEF SearchInv
  <2>1. at.low = 0 /\ at.high = size
    BY <1>11
  <2>2. \A i \in 0 .. size - 1 : ~(i < 0) /\ ~(i >= size)
    BY <1>3
  <2> QED
    BY <1>3, <1>4, <1>5, <2>1, <2>2
<1> QED
  BY <1>2, <1>8, <1>12, <1>13, <1>14, <1>15 DEF IndInv

\* Every step does, and so does none.
LEMMA NextKeeps == IndInv /\ [Next]_vars => IndInv'
<1> SUFFICES ASSUME IndInv, [Next]_vars
             PROVE  IndInv'
  OBVIOUS
<1>1. ASSUME NEW answer \in {-1, 0, 1}, NEW effect \in {"none", "exits", "fails"},
             TakeNext(answer, effect) \/ Exchange(answer, effect) \/ Probe(answer, effect)
      PROVE  IndInv'
  BY <1>1, TakeNextKeeps, ExchangeKeeps, ProbeKeeps
<1>2. CASE CopyRest
  BY <1>2, CopyRestKeeps
<1>3. CASE NextPass
  BY <1>3, NextPassKeeps
<1>4. CASE Finish
  BY <1>4, FinishKeeps
<1>5. CASE NextGap
  BY <1>5, NextGapKeeps
<1>6. CASE NotThere
  BY <1>6, NotThereKeeps
<1>7. CASE UNCHANGED vars
  BY <1>7 DEF vars, IndInv, TypeOK, MergeInv, ShellInv, SearchInv, Orderly, Found, IsPermutation, Elements, n
<1> QED
  BY <1>1, <1>2, <1>3, <1>4, <1>5, <1>6, <1>7 DEF Next

\* The invariant holds in every state of a call, whatever the comparison does.
THEOREM Invariance == Spec => []IndInv
<1>1. Init => IndInv
  BY InitKeeps
<1>2. IndInv /\ [Next]_vars => IndInv'
  BY NextKeeps
<1> QED
  BY <1>1, <1>2, PTL DEF Spec

\* NothingLost, for arrays of any size: whatever the comparison answers, and where it fails or
\* ends the program, the block that is read holds every element once, and so does the array
\* that is left behind.
THEOREM NoneLost == Spec => []NothingLost
<1>1. IndInv => NothingLost
  <2> SUFFICES ASSUME IndInv
               PROVE  NothingLost
    OBVIOUS
  <2>1. TypeOK /\ MergeInv
    BY DEF IndInv
  <2>2. how = "merge" => IsPermutation(array[from])
    BY <2>1 DEF MergeInv, Read, IsPermutation, Elements
  <2>3. how = "merge" /\ done => IsPermutation(array["base"])
    BY <2>1, <2>2 DEF MergeInv
  <2>4. how # "merge" => IsPermutation(array[from]) /\ IsPermutation(array["base"])
    BY DEF IndInv
  <2> QED
    BY <2>1, <2>2, <2>3, <2>4 DEF NothingLost, TypeOK
<1> QED
  BY <1>1, Invariance, PTL

\* SortsAndFinds, for arrays of any size and any keys: when the comparison is an order, qsort
\* leaves the array in it, merge_sort keeps equal elements as they were, and bsearch finds
\* what it was asked for if it is there.
THEOREM SortedAndFound == Spec => []SortsAndFinds
<1>1. IndInv => SortsAndFinds
  <2> SUFFICES ASSUME IndInv, done, exited = {}, answers = "ordered"
               PROVE  IF how = "search" THEN Found ELSE InOrder
    BY DEF SortsAndFinds
  <2>1. TypeOK /\ MergeInv /\ ShellInv /\ SearchInv
    BY DEF IndInv
  <2>2. Orderly
    BY <2>1 DEF Orderly, TypeOK
  <2>3. CASE how = "search"
    BY <2>1, <2>2, <2>3 DEF SearchInv
  <2>4. PICK m \in Nat : /\ m = n /\ Elements = 0 .. m - 1 /\ key \in [0 .. m - 1 -> Int]
                         /\ \A i \in 0 .. m - 1 : array["base"][i] \in 0 .. m - 1
    BY <2>1, Shapes
  <2>5. CASE how = "merge"
    <3>1. Read(key, m, array["base"], at.run, TRUE) /\ at.run >= m /\ at.run \in Nat
      <4>1. Read(key, n, array[from], at.run, Orderly) /\ array["base"] = array[from] /\ at.run >= n
        BY <2>1, <2>5 DEF MergeInv
      <4>2. at \in MergeRecord
        BY <2>1, <2>5 DEF TypeOK
      <4>3. at.run \in Nat
        BY <4>2 DEF MergeRecord
      <4>4. Read(key, m, array["base"], at.run, TRUE)
        BY <2>2, <2>4, <4>1 DEF Read
      <4> QED
        BY <2>4, <4>1, <4>3, <4>4
    <3>2. ASSUME NEW i \in Elements, NEW j \in Elements, i < j
          PROVE  /\ key[array["base"][i]] <= key[array["base"][j]]
                 /\ key[array["base"][i]] = key[array["base"][j]] => array["base"][i] < array["base"][j]
      <4>1. PICK a \in 0 .. m - 1, b \in 0 .. m - 1 : a = array["base"][i] /\ b = array["base"][j]
        BY <2>4
      <4>2. Before(key, a, b)
        BY <2>4, <3>1, <3>2, <4>1, OneRun
      <4>3. PICK ka \in Int, kb \in Int : ka = key[a] /\ kb = key[b]
        BY <2>4
      <4>4. ka < kb \/ (ka = kb /\ a < b)
        BY <4>2, <4>3 DEF Before
      <4>5. ka <= kb /\ (ka = kb => a < b)
        BY <4>4
      <4> QED
        BY <4>1, <4>3, <4>5
    <3> QED
      BY <2>5, <3>2 DEF InOrder
  <2>6. CASE how = "shell"
    <3>1. OrderedBut(key, m, array["base"], m, m)
      BY <2>1, <2>2, <2>4, <2>6 DEF ShellInv
    <3>2. \A i, j \in Elements : i < j => key[array["base"][i]] <= key[array["base"][j]]
      <4>1. \A j \in 0 .. m - 1 : j <= m /\ j # m
        OBVIOUS
      <4> QED
        BY <2>4, <3>1, <4>1 DEF OrderedBut
    <3> QED
      BY <2>6, <3>2 DEF InOrder
  <2> QED
    BY <2>1, <2>3, <2>5, <2>6 DEF TypeOK
<1> QED
  BY <1>1, Invariance, PTL

=============================================================================
