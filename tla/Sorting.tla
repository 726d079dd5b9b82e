------------------------------- MODULE Sorting -------------------------------
(***************************************************************************)
(* qsort and bsearch (src/src/builtins.c).  The comparison is a function   *)
(* of the program, called back in the middle of the work: it may answer    *)
(* anything, fail, or call exit(), after which every comparison answers    *)
(* with the exit status and runs nothing.  qsort merges bottom-up between  *)
(* the array and a scratch block of the program's heap, and falls back on  *)
(* exchanges within the array when the heap has no room for one.           *)
(*                                                                         *)
(* An element is its place in the array at the start, so that equal keys   *)
(* stay apart; places count from 0 as in the code.  A comparison that      *)
(* frees one of the blocks fails here at once: the move that follows it    *)
(* needs both.                                                             *)
(***************************************************************************)
EXTENDS Integers, FiniteSets

CONSTANTS MaxElements,  \* bound: elements of an array
          Keys          \* what elements are compared by, integers

ASSUME SizesAssumption == MaxElements \in Nat /\ Keys \subseteq Int

VARIABLES how,      \* "merge", "shell" or "search"
          answers,  \* "ordered": by key; "any": whatever the program likes
          key,      \* of the elements; their number is that of the array
          wanted,   \* the key bsearch looks for
          array,    \* base and scratch: what they hold at each place
          from,     \* the block the pass reads
          at,       \* the counters of the loops
          exited,   \* the status exit() was called with, if it was
          failed, found, done

vars == <<how, answers, key, wanted, array, from, at, exited, failed, found, done>>

n        == Cardinality(DOMAIN key)
Elements == 0..(n - 1)
Blocks   == {"base", "scratch"}
Other(b) == IF b = "base" THEN "scratch" ELSE "base"
NoElement == -1            \* an uninitialised place, and bsearch's null pointer
Smaller(a, b) == IF a < b THEN a ELSE b

\* Where the run of merges that begins at low has its middle and its end.
Middle(low, run) == Smaller(low + run, n)
High(low, run)   == Smaller(Middle(low, run) + run, n)

MergeAt(low, run) == [run |-> run, low |-> low, left |-> low, right |-> Middle(low, run), out |-> low]
ShellAt(gap)      == [gap |-> gap, i |-> gap, j |-> gap]

\* A call of qsort or bsearch.  bsearch is given an array in order.
Init ==
    /\ \E size \in 0..MaxElements :
          /\ key \in [0..(size - 1) -> Keys]
          /\ array = [b \in Blocks |-> [i \in 0..(size - 1) |-> IF b = "base" THEN i ELSE NoElement]]
          /\ \/ how = "merge" /\ at = MergeAt(0, 1)
             \/ how = "shell" /\ at = ShellAt(size \div 2)
             \/ how = "search" /\ at = [low |-> 0, high |-> size]
    /\ how = "search" => \A i, j \in Elements : i < j => key[i] <= key[j]
    /\ answers \in {"ordered", "any"} /\ wanted \in Keys
    /\ how # "search" => wanted = CHOOSE k \in Keys : TRUE     \* of no use there
    /\ answers = "any" => \A i \in Elements : key[i] = wanted  \* nor the keys here
    /\ from = "base" /\ exited = {}
    /\ failed = FALSE /\ found = NoElement /\ done = FALSE

\* runtime_invoke: what a comparison may answer, and whether it ends the
\* program's run or fails.  A comparison by key need only tell "greater".
Answers(left, right) ==
    IF answers = "any" THEN {-1, 0, 1}
    ELSE IF left > right THEN {1} ELSE IF left = right THEN {0}
    ELSE IF how = "search" THEN {-1} ELSE {-1, 0}

Compare(left, right, answer, effect) ==
    IF exited # {} THEN answer \in exited /\ effect = "none" /\ UNCHANGED <<exited, failed>>
    ELSE CASE effect = "none"  -> answer \in Answers(left, right) /\ UNCHANGED <<exited, failed>>
           [] effect = "exits" -> exited' = {answer} /\ UNCHANGED failed
           [] effect = "fails" -> answer = 0 /\ failed' = TRUE /\ UNCHANGED exited

Merging == how = "merge" /\ ~failed /\ ~done /\ at.run < n
Holds   == at.left < Middle(at.low, at.run) /\ at.right < High(at.low, at.run)

\* move_bytes of one or more elements from one block to the other.
Moved(out, first, count) ==
    [array EXCEPT ![Other(from)] = [i \in DOMAIN @ |->
        IF i \in out..(out + count - 1) THEN array[from][first + i - out] ELSE @[i]]]

\* A defect to test the properties with: an equal element of the right run goes first.
TakesRightOfEqual(answer) == answer >= 0

TakesRight(answer) == answer > 0

\* One turn of the inner loop of merge_sort.
TakeNext(answer, effect) ==
    /\ Merging /\ at.low < n /\ Holds
    /\ Compare(key[array[from][at.left]], key[array[from][at.right]], answer, effect)
    /\ IF failed' THEN UNCHANGED <<array, at>>
       ELSE LET right == TakesRight(answer)
            IN  /\ array' = Moved(at.out, IF right THEN at.right ELSE at.left, 1)
                /\ at' = [at EXCEPT !.out = @ + 1, !.right = IF right THEN @ + 1 ELSE @,
                                    !.left = IF right THEN @ ELSE @ + 1]
    /\ UNCHANGED <<how, answers, key, wanted, from, found, done>>

\* A defect to test the properties with: a run that has no partner is not copied.
RestOfPairs ==
    IF High(at.low, at.run) = Middle(at.low, at.run) THEN [first |-> at.left, count |-> 0]
    ELSE IF at.left < Middle(at.low, at.run)
    THEN [first |-> at.left, count |-> Middle(at.low, at.run) - at.left]
    ELSE [first |-> at.right, count |-> High(at.low, at.run) - at.right]

\* What is left of the run that was not used up.
Rest ==
    IF at.left < Middle(at.low, at.run)
    THEN [first |-> at.left, count |-> Middle(at.low, at.run) - at.left]
    ELSE [first |-> at.right, count |-> High(at.low, at.run) - at.right]

CopyRest ==
    /\ Merging /\ at.low < n /\ ~Holds
    /\ array' = Moved(at.out, Rest.first, Rest.count)
    /\ at' = MergeAt(at.low + 2 * at.run, at.run)
    /\ UNCHANGED <<how, answers, key, wanted, from, exited, failed, found, done>>

NextPass ==
    /\ Merging /\ at.low >= n
    /\ from' = Other(from) /\ at' = MergeAt(0, 2 * at.run)
    /\ UNCHANGED <<how, answers, key, wanted, array, exited, failed, found, done>>

\* The result is copied back when the last pass left it in the scratch block.
Finish ==
    /\ how = "merge" /\ ~failed /\ ~done /\ at.run >= n
    /\ array' = [array EXCEPT !["base"] = array[from]]
    /\ done' = TRUE
    /\ UNCHANGED <<how, answers, key, wanted, from, at, exited, failed, found>>

-----------------------------------------------------------------------------
\* shell_sort: the inner loop ends where an element is in place.
Exchange(answer, effect) ==
    LET left == at.j - at.gap
        base == array["base"]
        next == [at EXCEPT !.i = @ + 1, !.j = at.i + 1]
    IN  /\ how = "shell" /\ ~failed /\ ~done /\ at.gap > 0 /\ at.i < n
        /\ Compare(key[base[left]], key[base[at.j]], answer, effect)
        /\ IF failed' \/ answer <= 0
           THEN at' = next /\ UNCHANGED array
           ELSE /\ array' = [array EXCEPT !["base"] = [base EXCEPT ![left] = base[at.j], ![at.j] = base[left]]]
                /\ at' = IF left >= at.gap THEN [at EXCEPT !.j = left] ELSE next
        /\ UNCHANGED <<how, answers, key, wanted, from, found, done>>

NextGap ==
    /\ how = "shell" /\ ~failed /\ ~done
    /\ IF at.gap = 0 THEN done' = TRUE /\ UNCHANGED at
       ELSE at.i >= n /\ at' = ShellAt(at.gap \div 2) /\ UNCHANGED done
    /\ UNCHANGED <<how, answers, key, wanted, array, from, exited, failed, found>>

-----------------------------------------------------------------------------
\* A defect to test the properties with: the place that was looked at last is
\* kept out of the half above it, and the one below it too.
HalfWithout(middle, answer) ==
    IF answer < 0 THEN [at EXCEPT !.high = middle - 1] ELSE [at EXCEPT !.low = middle + 1]

Half(middle, answer) ==
    IF answer < 0 THEN [at EXCEPT !.high = middle] ELSE [at EXCEPT !.low = middle + 1]

\* One turn of bsearch's loop.
Probe(answer, effect) ==
    LET middle == at.low + (at.high - at.low) \div 2
    IN  /\ how = "search" /\ ~failed /\ ~done /\ at.low < at.high
        /\ Compare(wanted, key[middle], answer, effect)
        /\ IF failed' THEN UNCHANGED <<at, found, done>>
           ELSE IF answer = 0 THEN found' = middle /\ done' = TRUE /\ UNCHANGED at
           ELSE at' = Half(middle, answer) /\ UNCHANGED <<found, done>>
        /\ UNCHANGED <<how, answers, key, wanted, array, from>>

NotThere ==
    /\ how = "search" /\ ~failed /\ ~done /\ at.low >= at.high
    /\ done' = TRUE
    /\ UNCHANGED <<how, answers, key, wanted, array, from, at, exited, failed, found>>

Next ==
    \/ \E answer \in {-1, 0, 1}, effect \in {"none", "exits", "fails"} :
          TakeNext(answer, effect) \/ Exchange(answer, effect) \/ Probe(answer, effect)
    \/ CopyRest \/ NextPass \/ Finish \/ NextGap \/ NotThere

Spec == Init /\ [][Next]_vars

-----------------------------------------------------------------------------
IsPermutation(block) == {block[i] : i \in Elements} = Elements

\* qsort leaves the array in order whenever the comparison is one, even when
\* it only tells "greater" from "not greater", and merge_sort is stable, as
\* its comment says of glibc's; exchanges keep no order of equal elements.
\* bsearch finds an element with the key it was asked for when there is one and
\* none when there is not.  (exit() in a comparison answers in its stead.)
InOrder ==
    \A i, j \in Elements :
        LET a == array["base"][i]    b == array["base"][j]
        IN  i < j => key[a] <= key[b] /\ (how = "merge" /\ key[a] = key[b] => a < b)
Found ==
    IF \E i \in Elements : key[i] = wanted
    THEN found \in Elements /\ key[found] = wanted ELSE found = NoElement
SortsAndFinds ==
    done /\ exited = {} /\ answers = "ordered" => IF how = "search" THEN Found ELSE InOrder

\* Whatever the comparison answers, and also when it stops the program half
\* way: no element is lost or doubled in the block a pass reads, so that no
\* comparison is given an uninitialised place or an element with itself, nor in
\* the array that is left behind.  Where a comparison fails, the pass that was
\* writing the array may leave elements doubled in it, but nothing else.
NothingLost ==
    /\ IsPermutation(array[from])
    /\ done \/ how # "merge" => IsPermutation(array["base"])
    /\ \A i \in Elements : array["base"][i] \in Elements
==============================================================================
