-------------------------------- MODULE Sort --------------------------------
(***************************************************************************)
(* src/src/hy_sort.c: HySortBubble and HySortQuick, one comparison or one  *)
(* exchange per step.  Both allocate scratch space and go on, or return,   *)
(* without telling the caller when that fails.                             *)
(*                                                                         *)
(* An item has the key that swap_cb compares and the place it came from,   *)
(* which swap_cb does not see.  The recursion of HySortQuick is a stack of *)
(* the calls still to be made.                                             *)
(***************************************************************************)
EXTENDS Integers, Sequences

CONSTANTS
  len,       \* number of items
  Key,       \* what swap_cb compares
  MaxFails   \* bound: allocations of _partition that fail

ASSUME SortAssumption ==
  /\ len \in Nat
  /\ Key \subseteq Int
  /\ MaxFails \in Nat

VARIABLES
  array,    \* the array, from 0
  given,    \* the keys it had (history)
  alg,      \* "bubble" or "quick"
  pc,       \* where the call is
  i, j,     \* the loops of HySortBubble
  calls,    \* HySortQuick: <<low, high>> of the calls to make, the next first
  part,     \* _partition: the bounds it was given, and low, high and tmp
  fails     \* allocations of _partition that have failed

vars == <<array, given, alg, pc, i, j, calls, part, fails>>

Index == 0..(len - 1)

(* swap_cb(a, b) > 0 *)
Above(a, b) == a.key > b.key

(* _mem_swap of two items *)
_mem_swap(a, x, y) == [a EXCEPT ![x] = a[y], ![y] = a[x]]

NoPart == [from |-> 0, to |-> 0, low |-> 0, high |-> 0,
           tmp |-> [key |-> 0, id |-> 0]]

(* HySortBubble(array, len, ..), or HySortQuick(array, 0, len - 1, ..). *)
Init == /\ given \in [Index -> Key]
        /\ array = [k \in Index |-> [key |-> given[k], id |-> k]]
        /\ alg \in {"bubble", "quick"}
        /\ pc = "call"
        /\ i = 0
        /\ j = 0
        /\ calls = IF alg = "quick" THEN << <<0, len - 1>> >> ELSE <<>>
        /\ part = NoPart
        /\ fails = 0

-----------------------------------------------------------------------------
(* HySortBubble                                                            *)

(* With nothing to sort, or without scratch space, it returns. *)
BubbleCall ==
  /\ alg = "bubble" /\ pc = "call"
  /\ pc' \in (IF len = 0 THEN {"return"} ELSE {"loop", "failed"})
  /\ UNCHANGED <<array, given, alg, i, j, calls, part, fails>>

(* Mutant of BubbleCompare: equal items are exchanged too. *)
BubbleCompareOrEqual ==
  /\ pc = "loop" /\ i < len /\ j + 1 < len - i
  /\ array' = IF ~Above(array[j + 1], array[j])
              THEN _mem_swap(array, j + 1, j) ELSE array
  /\ j' = j + 1
  /\ UNCHANGED <<given, alg, pc, i, calls, part, fails>>

BubbleCompare ==
  /\ pc = "loop" /\ i < len /\ j + 1 < len - i
  /\ array' = IF Above(array[j], array[j + 1])
              THEN _mem_swap(array, j + 1, j) ELSE array
  /\ j' = j + 1
  /\ UNCHANGED <<given, alg, pc, i, calls, part, fails>>

(* Mutant of BubblePass: the outer loop does not go on. *)
BubblePassAgain ==
  /\ pc = "loop" /\ i < len /\ ~(j + 1 < len - i)
  /\ j' = 0
  /\ UNCHANGED <<array, given, alg, pc, i, calls, part, fails>>

BubblePass ==
  /\ pc = "loop" /\ i < len /\ ~(j + 1 < len - i)
  /\ i' = i + 1
  /\ j' = 0
  /\ UNCHANGED <<array, given, alg, pc, calls, part, fails>>

BubbleReturn ==
  /\ pc = "loop" /\ ~(i < len)
  /\ pc' = "return"
  /\ UNCHANGED <<array, given, alg, i, j, calls, part, fails>>

HySortBubble == BubbleCall \/ BubbleCompare \/ BubblePass \/ BubbleReturn

-----------------------------------------------------------------------------
(* HySortQuick and _partition                                              *)

Low  == Head(calls)[1]
High == Head(calls)[2]

(* A range of one item, or of none, is sorted. *)
QuickTrivial ==
  /\ alg = "quick" /\ pc = "call" /\ calls # <<>>
  /\ ~(Low < High)
  /\ calls' = Tail(calls)
  /\ UNCHANGED <<array, given, alg, pc, i, j, part, fails>>

(* Both allocations succeed, and the first item is the pivot. *)
PartitionStart ==
  /\ alg = "quick" /\ pc = "call" /\ calls # <<>>
  /\ Low < High
  /\ part' = [from |-> Low, to |-> High, low |-> Low, high |-> High,
              tmp |-> array[Low]]
  /\ calls' = Tail(calls)
  /\ pc' = "high"
  /\ UNCHANGED <<array, given, alg, i, j, fails>>

(***************************************************************************)
(* One fails: the -1 that is returned is taken for a position, and the     *)
(* calls that follow are those to the left and the right of it.            *)
(***************************************************************************)
PartitionFails ==
  /\ alg = "quick" /\ pc = "call" /\ calls # <<>>
  /\ Low < High
  /\ fails < MaxFails
  /\ calls' = << <<Low, -2>>, <<0, High>> >> \o Tail(calls)
  /\ fails' = fails + 1
  /\ UNCHANGED <<array, given, alg, pc, i, j, part>>

HighDown ==
  /\ pc = "high"
  /\ part.low < part.high /\ ~Above(part.tmp, array[part.high])
  /\ part' = [part EXCEPT !.high = @ - 1]
  /\ UNCHANGED <<array, given, alg, pc, i, j, calls, fails>>

HighSwap ==
  /\ pc = "high"
  /\ ~(part.low < part.high /\ ~Above(part.tmp, array[part.high]))
  /\ array' = _mem_swap(array, part.low, part.high)
  /\ pc' = "low"
  /\ UNCHANGED <<given, alg, i, j, calls, part, fails>>

LowUp ==
  /\ pc = "low"
  /\ part.low < part.high /\ ~Above(array[part.low], part.tmp)
  /\ part' = [part EXCEPT !.low = @ + 1]
  /\ UNCHANGED <<array, given, alg, pc, i, j, calls, fails>>

(* Mutant of LowSwap: the item is copied, not exchanged. *)
LowSwapCopies ==
  /\ pc = "low"
  /\ ~(part.low < part.high /\ ~Above(array[part.low], part.tmp))
  /\ array' = [array EXCEPT ![part.high] = array[part.low]]
  /\ pc' = IF part.low < part.high THEN "high" ELSE "place"
  /\ UNCHANGED <<given, alg, i, j, calls, part, fails>>

LowSwap ==
  /\ pc = "low"
  /\ ~(part.low < part.high /\ ~Above(array[part.low], part.tmp))
  /\ array' = _mem_swap(array, part.high, part.low)
  /\ pc' = IF part.low < part.high THEN "high" ELSE "place"
  /\ UNCHANGED <<given, alg, i, j, calls, part, fails>>

(* Mutant of Place: the right part begins one too far. *)
PlaceSkips ==
  /\ pc = "place"
  /\ array' = [array EXCEPT ![part.low] = part.tmp]
  /\ calls' = << <<part.from, part.low - 1>>, <<part.low + 2, part.to>> >>
                \o calls
  /\ part' = NoPart
  /\ pc' = "call"
  /\ UNCHANGED <<given, alg, i, j, fails>>

(* The pivot is stored, and the two parts are sorted in turn. *)
Place ==
  /\ pc = "place"
  /\ array' = [array EXCEPT ![part.low] = part.tmp]
  /\ calls' = << <<part.from, part.low - 1>>, <<part.low + 1, part.to>> >>
                \o calls
  /\ part' = NoPart
  /\ pc' = "call"
  /\ UNCHANGED <<given, alg, i, j, fails>>

QuickReturn ==
  /\ alg = "quick" /\ pc = "call" /\ calls = <<>>
  /\ pc' = "return"
  /\ UNCHANGED <<array, given, alg, i, j, calls, part, fails>>

_partition == \/ PartitionStart \/ PartitionFails
              \/ HighDown \/ HighSwap \/ LowUp \/ LowSwap \/ Place

HySortQuick == QuickTrivial \/ _partition \/ QuickReturn

-----------------------------------------------------------------------------

Next == HySortBubble \/ HySortQuick

Spec == Init /\ [][Next]_vars

(* The calling thread is scheduled. *)
FairSpec == Spec /\ WF_vars(Next)

-----------------------------------------------------------------------------

Item == [key : Key, id : Index]

(* The locals stay inside the array. *)
TypeOK ==
  /\ given \in [Index -> Key]
  /\ array \in [Index -> Item]
  /\ alg \in {"bubble", "quick"}
  /\ pc \in (IF alg = "bubble" THEN {"call", "loop", "return", "failed"}
             ELSE {"call", "high", "low", "place", "return"})
  /\ i \in 0..len
  /\ j \in Nat /\ (j = 0 \/ j + i < len)
  /\ calls \in Seq((0..len) \X (-2..(len - 1)))
  /\ pc \in {"high", "low", "place"} =>
       /\ part.from \in Index /\ part.to \in Index
       /\ part.low \in part.from..part.to
       /\ part.high \in part.low..part.to
       /\ part.tmp \in Item
  /\ fails \in 0..MaxFails

(***************************************************************************)
(* No item is lost or doubled, at any step: the exchanges through tmp and  *)
(* the pivot that _partition keeps outside the array and stores at the end *)
(* leave a permutation of what was given.                                  *)
(***************************************************************************)
Permuted ==
  /\ \A k, m \in Index : array[k].id = array[m].id => k = m
  /\ \A k \in Index : array[k].key = given[array[k].id]

(***************************************************************************)
(* When the pivot is stored, nothing on its left in the range is above it  *)
(* and nothing on its right below, whatever equals of it there are.        *)
(***************************************************************************)
PivotSplits ==
  pc = "place" =>
    /\ \A k \in part.from..part.low : ~Above(array[k], part.tmp)
    /\ \A k \in part.low..part.to : ~Above(part.tmp, array[k])

(* The array and the cursors in it, at every step of either sort. *)
ArraySound == TypeOK /\ Permuted /\ PivotSplits

(***************************************************************************)
(* On return the array is in order, also after allocations of _partition   *)
(* have failed on the way.                                                 *)
(***************************************************************************)
Sorted ==
  pc = "return" => \A k, m \in Index : k < m => ~Above(array[k], array[m])

(***************************************************************************)
(* HySortBubble never changes the order of items that compare equal.       *)
(***************************************************************************)
BubbleStable ==
  alg = "bubble" =>
    \A k, m \in Index :
      k < m /\ array[k].key = array[m].key => array[k].id < array[m].id

(* Both return, as long as allocations do not fail for ever. *)
SortReturns == <>(pc \in {"return", "failed"})
=============================================================================
