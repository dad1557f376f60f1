----------------------------- MODULE SortProofs -----------------------------
(***************************************************************************)
(* Proofs about Sort for every length and every array: both sorts leave a  *)
(* permutation and return it in order, _partition divides its range, and   *)
(* HySortBubble keeps equal items in their order.                          *)
(***************************************************************************)
EXTENDS Sort, TLAPS

(* Where the pivot is in the array, between the exchanges. *)
PivotPlace ==
  /\ pc = "high" => array[part.low] = part.tmp
  /\ pc = "low" => array[part.high] = part.tmp
  /\ pc = "place" => part.low = part.high /\ array[part.low] = part.tmp

PermInv == TypeOK /\ PivotPlace /\ Permuted

(* What the passes of HySortBubble have done so far. *)
PassesDone ==
  /\ alg = "bubble" /\ pc = "call" => i = 0 /\ j = 0
  /\ pc = "loop" =>
       /\ \A k, m \in Index : k < m /\ m >= len - i => ~Above(array[k], array[m])
       /\ \A k \in Index : k < j => ~Above(array[k], array[j])

(* What _partition has compared with the pivot so far. *)
SplitSoFar ==
  pc \in {"high", "low", "place"} =>
    /\ \A k \in part.from..(part.low - 1) : ~Above(array[k], part.tmp)
    /\ \A k \in (part.high + 1)..part.to : ~Above(part.tmp, array[k])

(* Both places are in a range that is being sorted, or that will be. *)
Covered(k, m) ==
  \/ pc \in {"high", "low", "place"} /\ part.from <= k /\ m <= part.to
  \/ \E a \in 1..Len(calls) : calls[a][1] <= k /\ m <= calls[a][2]

(* Each of these ranges ends before the next one begins. *)
CallsApart ==
  /\ \A a, b \in 1..Len(calls) : a < b => calls[a][2] < calls[b][1]
  /\ pc \in {"high", "low", "place"} =>
       \A a \in 1..Len(calls) : part.to < calls[a][1]

(* What is out of order is so within one of them. *)
InversionsCovered ==
  alg = "quick" =>
    \A k, m \in Index : k < m /\ Above(array[k], array[m]) => Covered(k, m)

NoCallsLeft == alg = "quick" /\ pc = "return" => calls = <<>>

QuickInv == /\ PermInv /\ SplitSoFar /\ CallsApart /\ InversionsCovered
            /\ NoCallsLeft

BubbleInv == /\ TypeOK /\ BubbleStable /\ PassesDone
             /\ alg = "bubble" => Sorted

-----------------------------------------------------------------------------

(* An exchange keeps the type and the items of the array. *)
LEMMA SwapFacts ==
  ASSUME NEW a \in [Index -> Item], NEW x \in Index, NEW y \in Index
  PROVE  /\ _mem_swap(a, x, y) \in [Index -> Item]
         /\ _mem_swap(a, x, y)[x] = a[y]
         /\ _mem_swap(a, x, y)[y] = a[x]
         /\ \A k \in Index \ {x, y} : _mem_swap(a, x, y)[k] = a[k]
  BY DEF _mem_swap

(* An exchange keeps a permutation one. *)
LEMMA SwapPermutes ==
  ASSUME TypeOK, Permuted, NEW x \in Index, NEW y \in Index,
         array' = _mem_swap(array, x, y), given' = given
  PROVE  Permuted'
<1> DEFINE from(k) == IF k = x THEN y ELSE IF k = y THEN x ELSE k
<1>1. \A k \in Index : from(k) \in Index /\ array'[k] = array[from(k)]
  BY SwapFacts DEF TypeOK
<1>2. \A k, m \in Index : from(k) = from(m) => k = m
  OBVIOUS
<1> HIDE DEF from
<1>3. ASSUME NEW k \in Index, NEW m \in Index, array'[k].id = array'[m].id
      PROVE  k = m
  <2>1. array[from(k)].id = array[from(m)].id /\ from(k) \in Index /\ from(m) \in Index
    BY <1>1, <1>3
  <2> QED BY <2>1, <1>2 DEF Permuted
<1>4. ASSUME NEW k \in Index
      PROVE  array'[k].key = given'[array'[k].id]
  BY <1>1 DEF Permuted
<1> QED BY <1>3, <1>4 DEF Permuted

(* The cursors of _partition stay within the array. *)
LEMMA PartFacts ==
  ASSUME TypeOK, pc \in {"high", "low", "place"}
  PROVE  /\ part.from \in Index /\ part.to \in Index
         /\ part.low \in Index /\ part.high \in Index
         /\ part.low \in part.from..part.to
         /\ part.high \in part.low..part.to
         /\ part.low \in Int /\ part.high \in Int
         /\ part.tmp \in Item
  BY SortAssumption DEF TypeOK, Index

(* Storing the pivot where it is already changes nothing. *)
LEMMA PlaceNothing ==
  ASSUME TypeOK, PivotPlace, Place
  PROVE  array' = array
<1>1. part.low \in Index /\ array[part.low] = part.tmp
  BY PartFacts DEF PivotPlace, Place
<1>2. array \in [Index -> Item]
  BY DEF TypeOK
<1> QED BY <1>1, <1>2 DEF Place

(* The calls that are to be made stay within the array. *)
LEMMA CallFacts ==
  ASSUME TypeOK, calls # <<>>
  PROVE  /\ Low \in 0..len /\ High \in -2..(len - 1)
         /\ Tail(calls) \in Seq((0..len) \X (-2..(len - 1)))
  BY DEF TypeOK, Low, High

(* Two calls put before the ones that are to be made. *)
LEMMA PushFacts ==
  ASSUME NEW S, NEW x \in S, NEW y \in S, NEW q \in Seq(S)
  PROVE  << x, y >> \o q \in Seq(S)
  OBVIOUS

-----------------------------------------------------------------------------

(* Every step keeps the types. *)
LEMMA TypeStep ==
  ASSUME TypeOK, [Next]_vars
  PROVE  TypeOK'
<1> DEFINE Call == (0..len) \X (-2..(len - 1))
<1> USE SortAssumption
<1>1. CASE BubbleCall
  BY <1>1 DEF BubbleCall, TypeOK
<1>2. CASE BubbleCompare
  <2>1. j \in Index /\ j + 1 \in Index /\ j + 1 + i < len
    BY <1>2 DEF BubbleCompare, TypeOK, Index
  <2>2. array' \in [Index -> Item]
    BY <1>2, <2>1, SwapFacts DEF BubbleCompare, TypeOK
  <2> QED BY <1>2, <2>1, <2>2 DEF BubbleCompare, TypeOK, Index
<1>3. CASE BubblePass
  BY <1>3 DEF BubblePass, TypeOK
<1>4. CASE BubbleReturn
  BY <1>4 DEF BubbleReturn, TypeOK
<1>5. CASE QuickTrivial
  BY <1>5, CallFacts DEF QuickTrivial, TypeOK
<1>6. CASE PartitionStart
  <2>1. Low \in Index /\ High \in Index /\ Low < High
    BY <1>6, CallFacts DEF PartitionStart, Index
  <2>2. array[Low] \in Item
    BY <2>1 DEF TypeOK
  <2> QED BY <1>6, <2>1, <2>2, CallFacts DEF PartitionStart, TypeOK, Index
<1>7. CASE PartitionFails
  <2>1. <<Low, -2>> \in Call /\ <<0, High>> \in Call
    BY <1>7, CallFacts DEF PartitionFails
  <2>2. calls' \in Seq(Call)
    BY <1>7, <2>1, CallFacts, PushFacts DEF PartitionFails
  <2> QED BY <1>7, <2>2 DEF PartitionFails, TypeOK
<1>8. CASE HighDown
  <2>1. /\ part' = [part EXCEPT !.high = part.high - 1]
        /\ part.low < part.high /\ pc = "high" /\ pc' = pc
    BY <1>8 DEF HighDown
  <2>2. /\ part'.from = part.from /\ part'.to = part.to /\ part'.low = part.low
        /\ part'.high = part.high - 1 /\ part'.tmp = part.tmp
    BY <2>1 DEF TypeOK
  <2>3. /\ part'.from \in Index /\ part'.to \in Index
        /\ part'.low \in part'.from..part'.to
        /\ part'.high \in part'.low..part'.to
        /\ part'.tmp \in Item
    BY <2>1, <2>2, PartFacts DEF Index
  <2> QED BY <1>8, <2>3 DEF HighDown, TypeOK, Item, Index
<1>9. CASE HighSwap
  <2>1. array' \in [Index -> Item]
    BY <1>9, PartFacts, SwapFacts DEF HighSwap, TypeOK
  <2> QED BY <1>9, <2>1 DEF HighSwap, TypeOK
<1>10. CASE LowUp
  <2>1. /\ part' = [part EXCEPT !.low = part.low + 1]
        /\ part.low < part.high /\ pc = "low" /\ pc' = pc
    BY <1>10 DEF LowUp
  <2>2. /\ part'.from = part.from /\ part'.to = part.to
        /\ part'.low = part.low + 1
        /\ part'.high = part.high /\ part'.tmp = part.tmp
    BY <2>1 DEF TypeOK
  <2>3. /\ part'.from \in Index /\ part'.to \in Index
        /\ part'.low \in part'.from..part'.to
        /\ part'.high \in part'.low..part'.to
        /\ part'.tmp \in Item
    BY <2>1, <2>2, PartFacts DEF Index
  <2> QED BY <1>10, <2>3 DEF LowUp, TypeOK, Item, Index
<1>11. CASE LowSwap
  <2>1. array' \in [Index -> Item]
    BY <1>11, PartFacts, SwapFacts DEF LowSwap, TypeOK
  <2> QED BY <1>11, <2>1 DEF LowSwap, TypeOK
<1>12. CASE Place
  <2>1. /\ part.from \in Index /\ part.to \in Index /\ part.low \in Index
        /\ part.tmp \in Item
    BY <1>12, PartFacts DEF Place
  <2>2. <<part.from, part.low - 1>> \in Call /\ <<part.low + 1, part.to>> \in Call
    BY <2>1 DEF Index
  <2>3. calls' \in Seq(Call)
    BY <1>12, <2>2, PushFacts DEF Place, TypeOK
  <2>4. array' \in [Index -> Item]
    BY <1>12, <2>1 DEF Place, TypeOK
  <2> QED BY <1>12, <2>3, <2>4 DEF Place, TypeOK
<1>13. CASE QuickReturn
  BY <1>13 DEF QuickReturn, TypeOK
<1>14. CASE UNCHANGED vars
  BY <1>14 DEF vars, TypeOK, Item
<1> QED
  BY <1>1, <1>2, <1>3, <1>4, <1>5, <1>6, <1>7, <1>8, <1>9, <1>10, <1>11,
     <1>12, <1>13, <1>14
     DEF Next, HySortBubble, HySortQuick, _partition

(* Every step leaves the pivot where PivotPlace says. *)
LEMMA PivotStep ==
  ASSUME TypeOK, PivotPlace, [Next]_vars
  PROVE  PivotPlace'
<1> USE SortAssumption
<1>1. CASE PartitionStart
  BY <1>1, CallFacts DEF PartitionStart, PivotPlace
<1>2. CASE HighDown
  BY <1>2, PartFacts DEF HighDown, PivotPlace, TypeOK
<1>3. CASE HighSwap
  <2>1. array[part.low] = part.tmp /\ pc' = "low" /\ part' = part
    BY <1>3 DEF HighSwap, PivotPlace
  <2>2. array'[part.high] = array[part.low]
    BY <1>3, PartFacts, SwapFacts DEF HighSwap, TypeOK
  <2> QED BY <2>1, <2>2 DEF PivotPlace
<1>4. CASE LowUp
  BY <1>4, PartFacts DEF LowUp, PivotPlace, TypeOK
<1>5. CASE LowSwap
  <2>1. array[part.high] = part.tmp /\ part' = part
    BY <1>5 DEF LowSwap, PivotPlace
  <2>2. array'[part.low] = array[part.high]
    BY <1>5, PartFacts, SwapFacts DEF LowSwap, TypeOK
  <2>3. pc' = "high" \/ (pc' = "place" /\ part.low = part.high)
    BY <1>5, PartFacts DEF LowSwap
  <2> QED BY <2>1, <2>2, <2>3 DEF PivotPlace
<1>6. CASE pc' \notin {"high", "low", "place"}
  BY <1>6 DEF PivotPlace
<1>7. CASE UNCHANGED vars
  BY <1>7 DEF PivotPlace, vars
<1> QED
  BY <1>1, <1>2, <1>3, <1>4, <1>5, <1>6, <1>7
     DEF Next, HySortBubble, HySortQuick, _partition, BubbleCall, BubbleCompare,
         BubblePass, BubbleReturn, QuickTrivial, PartitionFails, Place,
         QuickReturn

(* Every step keeps the array a permutation of what was given. *)
LEMMA PermStep ==
  ASSUME PermInv, [Next]_vars
  PROVE  Permuted'
<1> USE SortAssumption DEF PermInv
<1>1. CASE BubbleCompare
  <2>1. CASE Above(array[j], array[j + 1])
    <3>1. j \in Index /\ j + 1 \in Index
      BY <1>1 DEF BubbleCompare, TypeOK, Index
    <3> QED BY <1>1, <2>1, <3>1, SwapPermutes DEF BubbleCompare
  <2>2. CASE ~Above(array[j], array[j + 1])
    BY <1>1, <2>2 DEF BubbleCompare, Permuted
  <2> QED BY <2>1, <2>2
<1>2. CASE HighSwap
  BY <1>2, PartFacts, SwapPermutes DEF HighSwap
<1>3. CASE LowSwap
  BY <1>3, PartFacts, SwapPermutes DEF LowSwap
<1>4. CASE Place
  BY <1>4, PlaceNothing DEF Place, Permuted
<1>5. CASE UNCHANGED <<array, given>>
  BY <1>5 DEF Permuted
<1> QED
  BY <1>1, <1>2, <1>3, <1>4, <1>5
     DEF Next, HySortBubble, HySortQuick, _partition, BubbleCall, BubblePass,
         BubbleReturn, QuickTrivial, PartitionStart, PartitionFails, HighDown,
         LowUp, QuickReturn, vars

(* All of it holds of an array that is about to be sorted. *)
LEMMA InitInv == Init => PermInv /\ BubbleInv
<1> SUFFICES ASSUME Init PROVE PermInv /\ BubbleInv
  OBVIOUS
<1> USE SortAssumption DEF Init
<1>1. array \in [Index -> Item]
  BY DEF Item
<1>2. calls \in Seq((0..len) \X (-2..(len - 1)))
  <2>1. <<0, len - 1>> \in (0..len) \X (-2..(len - 1))
    OBVIOUS
  <2>2. << <<0, len - 1>> >> \in Seq((0..len) \X (-2..(len - 1)))
    BY <2>1
  <2>3. <<>> \in Seq((0..len) \X (-2..(len - 1)))
    OBVIOUS
  <2> QED BY <2>2, <2>3
<1>3. TypeOK
  BY <1>1, <1>2 DEF TypeOK
<1>4. Permuted /\ PivotPlace
  BY DEF Permuted, PivotPlace
<1>5. BubbleStable /\ PassesDone /\ Sorted
  BY DEF BubbleStable, PassesDone, Sorted
<1> QED BY <1>3, <1>4, <1>5 DEF PermInv, BubbleInv

(* The two invariants hold always. *)
LEMMA PermAlways == Spec => []PermInv
<1>1. Init => PermInv
  BY InitInv
<1>2. PermInv /\ [Next]_vars => PermInv'
  BY TypeStep, PivotStep, PermStep DEF PermInv
<1> QED BY <1>1, <1>2, PTL DEF Spec

(***************************************************************************)
(* However long the array, no step of either sort loses or doubles an      *)
(* item.                                                                   *)
(***************************************************************************)
THEOREM PermutedAlways == Spec => []Permuted
<1>1. PermInv => Permuted
  BY DEF PermInv
<1> QED BY PermAlways, <1>1, PTL

-----------------------------------------------------------------------------

(* A comparison of HySortBubble keeps the order of equal items. *)
LEMMA CompareStable ==
  ASSUME BubbleInv, BubbleCompare
  PROVE  BubbleStable'
<1> USE SortAssumption
<1>1. j \in Index /\ j + 1 \in Index
  BY DEF BubbleInv, BubbleCompare, TypeOK, Index
<1>2. CASE ~Above(array[j], array[j + 1])
  BY <1>2 DEF BubbleInv, BubbleCompare, BubbleStable
<1>3. CASE Above(array[j], array[j + 1])
  <2> DEFINE from(k) == IF k = j THEN j + 1 ELSE IF k = j + 1 THEN j ELSE k
  <2>1. \A k \in Index : from(k) \in Index /\ array'[k] = array[from(k)]
    BY <1>1, <1>3, SwapFacts DEF BubbleInv, BubbleCompare, TypeOK
  <2>2. \A k, m \in Index : k < m /\ ~(k = j /\ m = j + 1) => from(k) < from(m)
    BY <1>1 DEF Index
  <2>3. from(j) = j + 1 /\ from(j + 1) = j
    BY <1>1 DEF Index
  <2>4. array'[j].key # array'[j + 1].key
    <3>1. array'[j] = array[j + 1] /\ array'[j + 1] = array[j]
      BY <1>1, <2>1, <2>3
    <3>2. array[j].key \in Int /\ array[j + 1].key \in Int
      BY <1>1 DEF BubbleInv, TypeOK, Item
    <3> QED BY <1>3, <3>1, <3>2 DEF Above
  <2> HIDE DEF from
  <2>5. ASSUME alg = "bubble", NEW k \in Index, NEW m \in Index, k < m,
               array'[k].key = array'[m].key
        PROVE  array'[k].id < array'[m].id
    <3>1. from(k) < from(m)
      BY <2>2, <2>4, <2>5
    <3>2. array[from(k)].key = array[from(m)].key
      BY <2>1, <2>5
    <3> QED BY <2>1, <2>5, <3>1, <3>2 DEF BubbleInv, BubbleStable
  <2> QED BY <2>5 DEF BubbleCompare, BubbleStable
<1> QED BY <1>2, <1>3

(* It carries the greatest item so far along, and leaves those behind it. *)
LEMMA ComparePasses ==
  ASSUME BubbleInv, BubbleCompare
  PROVE  PassesDone'
<1> USE SortAssumption
<1>1. /\ j \in Index /\ j + 1 \in Index /\ j + 1 < len - i
      /\ i \in Int /\ i' = i /\ j' = j + 1 /\ pc = "loop" /\ pc' = "loop"
  BY DEF BubbleInv, BubbleCompare, TypeOK, Index
<1>2. \A k \in Index : array[k].key \in Int
  BY DEF BubbleInv, TypeOK, Item
<1>3. /\ \A k, m \in Index : k < m /\ m >= len - i => ~(array[k].key > array[m].key)
      /\ \A k \in Index : k < j => ~(array[k].key > array[j].key)
  BY <1>1 DEF BubbleInv, PassesDone, Above
<1>4. CASE ~Above(array[j], array[j + 1])
  <2>1. array' = array
    BY <1>4 DEF BubbleCompare
  <2>2. ~(array[j].key > array[j + 1].key)
    BY <1>4 DEF Above
  <2>3. ASSUME NEW k \in Index, k < j + 1
        PROVE  ~(array[k].key > array[j + 1].key)
    <3>1. k = j \/ k < j
      BY <1>1, <2>3 DEF Index
    <3> QED BY <1>1, <1>2, <1>3, <2>2, <2>3, <3>1
  <2> QED BY <1>1, <1>3, <2>1, <2>3 DEF PassesDone, Above
<1>5. CASE Above(array[j], array[j + 1])
  <2>1. /\ array'[j] = array[j + 1] /\ array'[j + 1] = array[j]
        /\ \A k \in Index \ {j, j + 1} : array'[k] = array[k]
    BY <1>1, <1>5, SwapFacts DEF BubbleInv, BubbleCompare, TypeOK
  <2>2. array[j].key > array[j + 1].key
    BY <1>5 DEF Above
  <2>3. ASSUME NEW k \in Index, NEW m \in Index, k < m, m >= len - i
        PROVE  ~(array'[k].key > array'[m].key)
    <3>1. m # j /\ m # j + 1 /\ j < m /\ j + 1 < m
      BY <1>1, <2>3 DEF Index
    <3>2. array'[m] = array[m]
      BY <2>1, <3>1
    <3>3. PICK q \in Index : q < m /\ array'[k] = array[q]
      <4>1. CASE k = j
        BY <1>1, <2>1, <3>1, <4>1
      <4>2. CASE k = j + 1
        BY <1>1, <2>1, <3>1, <4>2
      <4>3. CASE k \notin {j, j + 1}
        BY <2>1, <2>3, <4>3
      <4> QED BY <4>1, <4>2, <4>3
    <3> QED BY <1>3, <2>3, <3>2, <3>3
  <2>4. ASSUME NEW k \in Index, k < j + 1
        PROVE  ~(array'[k].key > array'[j + 1].key)
    <3>1. CASE k = j
      BY <1>1, <1>2, <2>1, <2>2, <3>1
    <3>2. CASE k < j
      <4>1. k \notin {j, j + 1}
        BY <1>1, <3>2 DEF Index
      <4> QED BY <1>3, <2>1, <3>2, <4>1
    <3>3. k = j \/ k < j
      BY <1>1, <2>4 DEF Index
    <3> QED BY <3>1, <3>2, <3>3
  <2> QED BY <1>1, <2>3, <2>4 DEF PassesDone, Above
<1> QED BY <1>4, <1>5

(* A pass ends with one more item in its place. *)
LEMMA PassEnds ==
  ASSUME BubbleInv, BubblePass
  PROVE  PassesDone'
<1> USE SortAssumption
<1>1. /\ j = len - i - 1 /\ i \in Int /\ i' = i + 1 /\ j' = 0
      /\ array' = array /\ pc = "loop" /\ pc' = "loop"
  BY DEF BubbleInv, BubblePass, TypeOK
<1>2. ASSUME NEW k \in Index, NEW m \in Index, k < m, m >= len - (i + 1)
      PROVE  ~Above(array[k], array[m])
  <2>1. m = j \/ m >= len - i
    BY <1>1, <1>2 DEF Index
  <2> QED BY <1>1, <1>2, <2>1 DEF BubbleInv, PassesDone
<1>3. \A k \in Index : ~(k < 0)
  BY DEF Index
<1> QED BY <1>1, <1>2, <1>3 DEF PassesDone

(* Every step keeps what the passes of HySortBubble have done. *)
LEMMA BubbleStep ==
  ASSUME BubbleInv, [Next]_vars
  PROVE  BubbleInv'
<1> USE SortAssumption
<1>1. TypeOK'
  BY TypeStep DEF BubbleInv
<1>2. CASE BubbleCall
  <2>1. /\ array' = array /\ alg = "bubble" /\ alg' = alg /\ i' = 0 /\ j' = 0
        /\ pc' = "return" => len = 0
        /\ pc' \in {"return", "loop", "failed"}
    BY <1>2 DEF BubbleCall, BubbleInv, PassesDone
  <2>2. \A m \in Index : ~(m >= len - 0) /\ ~(m < 0) /\ len # 0
    BY DEF Index
  <2> QED BY <1>1, <2>1, <2>2 DEF BubbleInv, BubbleStable, PassesDone, Sorted
<1>3. CASE BubbleCompare
  <2>1. pc' = "loop"
    BY <1>3 DEF BubbleCompare
  <2> QED BY <1>1, <1>3, <2>1, CompareStable, ComparePasses DEF BubbleInv, Sorted
<1>4. CASE BubblePass
  <2>1. pc' = "loop" /\ array' = array /\ alg' = alg
    BY <1>4 DEF BubblePass
  <2> QED BY <1>1, <1>4, <2>1, PassEnds DEF BubbleInv, BubbleStable, Sorted
<1>5. CASE BubbleReturn
  <2>1. array' = array /\ alg' = alg /\ pc = "loop" /\ pc' = "return" /\ i = len
    BY <1>5 DEF BubbleReturn, BubbleInv, TypeOK
  <2>2. \A m \in Index : m >= len - i
    BY <2>1 DEF Index
  <2> QED BY <1>1, <2>1, <2>2 DEF BubbleInv, BubbleStable, PassesDone, Sorted
<1>6. CASE HySortQuick
  <2>1. alg # "bubble" /\ alg' = alg
    BY <1>6 DEF BubbleInv, TypeOK, HySortQuick, _partition, QuickTrivial,
       PartitionStart, PartitionFails, HighDown, HighSwap, LowUp, LowSwap,
       Place, QuickReturn
  <2>2. pc' # "loop"
    BY <1>1, <2>1 DEF TypeOK
  <2> QED BY <1>1, <2>1, <2>2 DEF BubbleInv, BubbleStable, PassesDone
<1>7. CASE UNCHANGED vars
  BY <1>1, <1>7 DEF BubbleInv, BubbleStable, PassesDone, Sorted, vars
<1> QED
  BY <1>2, <1>3, <1>4, <1>5, <1>6, <1>7 DEF Next, HySortBubble

(* The invariant of HySortBubble holds always. *)
LEMMA BubbleAlways == Spec => []BubbleInv
<1>1. Init => BubbleInv
  BY InitInv
<1>2. BubbleInv /\ [Next]_vars => BubbleInv'
  BY BubbleStep
<1> QED BY <1>1, <1>2, PTL DEF Spec

(* HySortBubble is stable: equal items keep their order, at every step. *)
THEOREM BubbleStableAlways == Spec => []BubbleStable
<1>1. BubbleInv => BubbleStable
  BY DEF BubbleInv
<1> QED BY BubbleAlways, <1>1, PTL

-----------------------------------------------------------------------------

(* What is left of the calls when the first is taken. *)
LEMMA TailIndex ==
  ASSUME NEW S, NEW q \in Seq(S), q # <<>>
  PROVE  /\ Len(q) \in Nat \ {0} /\ Head(q) = q[1]
         /\ Len(Tail(q)) = Len(q) - 1
         /\ \A a \in 1..Len(Tail(q)) : Tail(q)[a] = q[a + 1]
  OBVIOUS

(* Each of the others is one place nearer to the front. *)
LEMMA TailKeeps ==
  ASSUME NEW S, NEW q \in Seq(S), q # <<>>, NEW a \in 1..Len(q), a # 1
  PROVE  a - 1 \in 1..Len(Tail(q)) /\ Tail(q)[a - 1] = q[a]
<1>1. a - 1 \in 1..Len(Tail(q)) /\ (a - 1) + 1 = a
  BY TailIndex
<1>2. Tail(q)[a - 1] = q[(a - 1) + 1]
  BY <1>1, TailIndex
<1> QED BY <1>1, <1>2

(* Two calls are put before the others. *)
LEMMA PushIndex ==
  ASSUME NEW S, NEW q \in Seq(S), NEW x \in S, NEW y \in S,
         NEW r, r = << x, y >> \o q
  PROVE  /\ Len(r) = Len(q) + 2 /\ Len(q) \in Nat
         /\ r[1] = x /\ r[2] = y
         /\ \A a \in 3..Len(r) : r[a] = q[a - 2]
  OBVIOUS

(* A call is a pair of places. *)
LEMMA CallInts ==
  ASSUME TypeOK
  PROVE  /\ Len(calls) \in Nat
         /\ \A a \in 1..Len(calls) : calls[a][1] \in Int /\ calls[a][2] \in Int
<1>1. \A a \in 1..Len(calls) : calls[a] \in (0..len) \X (-2..(len - 1))
  BY DEF TypeOK
<1>2. \A c \in (0..len) \X (-2..(len - 1)) : c[1] \in Int /\ c[2] \in Int
  BY SortAssumption
<1> QED BY <1>1, <1>2 DEF TypeOK

(* No step loses what _partition has compared with the pivot. *)
LEMMA SplitStep ==
  ASSUME TypeOK, PivotPlace, SplitSoFar, [Next]_vars
  PROVE  SplitSoFar'
<1> USE SortAssumption
<1>1. CASE PartitionStart
  <2>1. /\ part'.from = part'.low /\ part'.to = part'.high
        /\ part'.low \in Int /\ part'.high \in Int
    BY <1>1, CallFacts DEF PartitionStart
  <2> QED BY <2>1 DEF SplitSoFar
<1>2. CASE HighDown
  <2>1. /\ part'.from = part.from /\ part'.to = part.to /\ part'.low = part.low
        /\ part'.high = part.high - 1 /\ part'.tmp = part.tmp
        /\ array' = array /\ pc = "high" /\ ~Above(part.tmp, array[part.high])
    BY <1>2 DEF HighDown, TypeOK
  <2>2. \A k \in part.high..part.to : k = part.high \/ k \in (part.high + 1)..part.to
    BY <2>1, PartFacts DEF Index
  <2>3. part.high - 1 + 1 = part.high
    BY <2>1, PartFacts
  <2> QED BY <2>1, <2>2, <2>3 DEF SplitSoFar
<1>3. CASE HighSwap \/ LowSwap
  <2>1. /\ part' = part /\ pc \in {"high", "low"} /\ pc' \in {"high", "low", "place"}
        /\ \A k \in Index \ {part.low, part.high} : array'[k] = array[k]
    BY <1>3, PartFacts, SwapFacts DEF HighSwap, LowSwap, TypeOK
  <2>2. /\ \A k \in part.from..(part.low - 1) : k \in Index \ {part.low, part.high}
        /\ \A k \in (part.high + 1)..part.to : k \in Index \ {part.low, part.high}
    BY <2>1, PartFacts DEF Index
  <2> QED BY <2>1, <2>2 DEF SplitSoFar
<1>4. CASE LowUp
  <2>1. /\ part'.from = part.from /\ part'.to = part.to
        /\ part'.low = part.low + 1
        /\ part'.high = part.high /\ part'.tmp = part.tmp
        /\ array' = array /\ pc = "low" /\ ~Above(array[part.low], part.tmp)
    BY <1>4 DEF LowUp, TypeOK
  <2>2. \A k \in part'.from..(part'.low - 1) :
          k = part.low \/ k \in part.from..(part.low - 1)
    BY <2>1, PartFacts DEF Index
  <2>3. \A k \in part'.from..(part'.low - 1) : ~Above(array'[k], part'.tmp)
    BY <2>1, <2>2 DEF SplitSoFar, Above
  <2>4. \A k \in (part'.high + 1)..part'.to : ~Above(part'.tmp, array'[k])
    BY <2>1 DEF SplitSoFar, Above
  <2> QED BY <2>3, <2>4 DEF SplitSoFar
<1>5. CASE pc' \notin {"high", "low", "place"}
  BY <1>5 DEF SplitSoFar
<1>6. CASE UNCHANGED vars
  BY <1>6 DEF SplitSoFar, vars
<1> QED
  BY <1>1, <1>2, <1>3, <1>4, <1>5, <1>6
     DEF Next, HySortBubble, HySortQuick, _partition, BubbleCall, BubbleCompare,
         BubblePass, BubbleReturn, QuickTrivial, PartitionFails, Place,
         QuickReturn

(* At the end of _partition the pivot divides its range. *)
LEMMA SplitPlace ==
  ASSUME TypeOK, PivotPlace, SplitSoFar
  PROVE  PivotSplits
<1> SUFFICES ASSUME pc = "place" PROVE PivotSplits
  BY DEF PivotSplits
<1>1. /\ part.low = part.high /\ array[part.low] = part.tmp
      /\ part.low \in Int /\ part.from \in Int /\ part.to \in Int
      /\ part.tmp.key \in Int
  <2>1. part.low \in Index /\ part.from \in Index /\ part.to \in Index /\ part.tmp \in Item
    BY PartFacts
  <2>2. part.low = part.high /\ array[part.low] = part.tmp
    BY DEF PivotPlace
  <2>3. \A t \in Item : t.key \in Int
    BY SortAssumption DEF Item
  <2>4. \A k \in Index : k \in Int
    BY SortAssumption DEF Index
  <2> QED BY <2>1, <2>2, <2>3, <2>4
<1>2. ~Above(part.tmp, part.tmp)
  BY <1>1 DEF Above
<1>3. ASSUME NEW k \in part.from..part.low
      PROVE  ~Above(array[k], part.tmp)
  <2>1. k = part.low \/ k \in part.from..(part.low - 1)
    BY <1>1, <1>3
  <2> QED BY <1>1, <1>2, <2>1 DEF SplitSoFar
<1>4. ASSUME NEW k \in part.low..part.to
      PROVE  ~Above(part.tmp, array[k])
  <2>1. k = part.low \/ k \in (part.high + 1)..part.to
    BY <1>1, <1>4
  <2> QED BY <1>1, <1>2, <2>1 DEF SplitSoFar
<1> QED BY <1>3, <1>4 DEF PivotSplits

(* The ranges that are still to be sorted stay apart. *)
LEMMA ApartStep ==
  ASSUME TypeOK, CallsApart, [Next]_vars
  PROVE  CallsApart'
<1> DEFINE Call == (0..len) \X (-2..(len - 1))
<1> USE SortAssumption
<1>1. calls \in Seq(Call)
  BY DEF TypeOK
<1>2. CASE QuickTrivial
  <2>1. calls # <<>> /\ calls' = Tail(calls) /\ pc' = "call"
    BY <1>2 DEF QuickTrivial
  <2> QED BY <1>1, <2>1, TailIndex DEF CallsApart
<1>3. CASE PartitionStart
  <2>1. calls # <<>> /\ calls' = Tail(calls) /\ part'.to = calls[1][2]
    BY <1>1, <1>3, TailIndex DEF PartitionStart, High
  <2>2. \A a \in 1..Len(calls') : a + 1 \in 1..Len(calls) /\ calls'[a] = calls[a + 1]
    BY <1>1, <2>1, TailIndex
  <2>3. 1 \in 1..Len(calls)
    BY <1>1, <2>1, TailIndex
  <2> QED BY <2>1, <2>2, <2>3 DEF CallsApart
<1>4. CASE PartitionFails
  <2> DEFINE x == <<Low, -2>>
             y == <<0, High>>
             q == Tail(calls)
  <2>1. /\ calls # <<>> /\ calls' = << x, y >> \o q /\ pc' = "call"
        /\ x \in Call /\ y \in Call /\ q \in Seq(Call)
    BY <1>4, CallFacts DEF PartitionFails
  <2>2. x[2] = -2 /\ y[1] = 0 /\ y[2] = calls[1][2]
    BY <1>1, <2>1, TailIndex DEF High
  <2> HIDE DEF x, y
  <2>3. \A a \in 1..Len(q) : /\ a + 1 \in 1..Len(calls) /\ q[a] = calls[a + 1]
                              /\ q[a][1] \in Nat
    <3>1. \A a \in 1..Len(q) : a + 1 \in 1..Len(calls) /\ q[a] = calls[a + 1]
      BY <1>1, <2>1, TailIndex
    <3>2. \A a \in 1..Len(q) : q[a] \in Call
      BY <2>1
    <3> QED BY <3>1, <3>2
  <2>4. 1 \in 1..Len(calls) /\ Len(calls) \in Nat
    BY <1>1, <2>1, TailIndex
  <2>5. \A a, b \in 1..Len(q) : a < b => q[a][2] < q[b][1]
    BY <2>3, <2>4 DEF CallsApart
  <2>6. \A b \in 1..Len(q) : y[2] < q[b][1]
    BY <2>2, <2>3, <2>4 DEF CallsApart
  <2>7. /\ Len(calls') = Len(q) + 2 /\ Len(q) \in Nat
        /\ calls'[1] = x /\ calls'[2] = y
        /\ \A a \in 3..Len(calls') : calls'[a] = q[a - 2]
    BY <2>1, PushIndex
  <2> HIDE DEF q
  <2>8. ASSUME NEW a \in 1..Len(calls'), NEW b \in 1..Len(calls'), a < b
        PROVE  calls'[a][2] < calls'[b][1]
    <3>1. CASE b = 2
      BY <2>2, <2>7, <2>8, <3>1
    <3>2. CASE b >= 3
      <4>1. b - 2 \in 1..Len(q) /\ calls'[b] = q[b - 2] /\ q[b - 2][1] \in Nat
        BY <2>3, <2>7, <3>2
      <4>2. CASE a = 1
        BY <2>2, <2>7, <4>1, <4>2
      <4>3. CASE a = 2
        BY <2>6, <2>7, <4>1, <4>3
      <4>4. CASE a >= 3
        <5>1. a - 2 \in 1..Len(q) /\ a - 2 < b - 2 /\ calls'[a] = q[a - 2]
          BY <2>7, <2>8, <4>4
        <5> QED BY <2>5, <4>1, <5>1
      <4> QED BY <4>2, <4>3, <4>4
    <3> QED BY <2>8, <3>1, <3>2
  <2> QED BY <2>1, <2>8 DEF CallsApart
<1>5. CASE Place
  <2> DEFINE x == <<part.from, part.low - 1>>
             y == <<part.low + 1, part.to>>
  <2>1. /\ calls' = << x, y >> \o calls /\ pc' = "call"
        /\ x \in Call /\ y \in Call
        /\ x[2] < y[1] /\ x[2] < part.to /\ y[2] = part.to
        /\ part.to \in Int /\ x[2] \in Int
    <3>1. /\ part.from \in Index /\ part.to \in Index /\ part.low \in Index
          /\ part.low <= part.to
      BY <1>5, PartFacts DEF Place, Index
    <3>2. /\ part.low - 1 \in -2..(len - 1) /\ part.low + 1 \in 0..len
          /\ part.from \in 0..len /\ part.to \in -2..(len - 1)
          /\ part.low - 1 < part.low + 1 /\ part.low - 1 < part.to
          /\ part.to \in Int /\ part.low - 1 \in Int
      BY <3>1 DEF Index
    <3>3. calls' = << x, y >> \o calls /\ pc' = "call"
      BY <1>5 DEF Place
    <3> QED BY <3>2, <3>3
  <2> HIDE DEF x, y
  <2>2. /\ Len(calls') = Len(calls) + 2 /\ Len(calls) \in Nat
        /\ calls'[1] = x /\ calls'[2] = y
        /\ \A a \in 3..Len(calls') : calls'[a] = calls[a - 2]
    BY <1>1, <2>1, PushIndex
  <2>3. \A b \in 1..Len(calls) : part.to < calls[b][1] /\ calls[b][1] \in Int
    BY <1>5, CallInts DEF CallsApart, Place
  <2>4. ASSUME NEW a \in 1..Len(calls'), NEW b \in 1..Len(calls'), a < b
        PROVE  calls'[a][2] < calls'[b][1]
    <3>1. CASE b = 2
      BY <2>1, <2>2, <2>4, <3>1
    <3>2. CASE b >= 3
      <4>1. b - 2 \in 1..Len(calls) /\ calls'[b] = calls[b - 2]
        BY <2>2, <3>2
      <4>2. CASE a = 1
        BY <2>1, <2>2, <2>3, <4>1, <4>2
      <4>3. CASE a = 2
        BY <2>1, <2>2, <2>3, <4>1, <4>3
      <4>4. CASE a >= 3
        <5>1. a - 2 \in 1..Len(calls) /\ a - 2 < b - 2 /\ calls'[a] = calls[a - 2]
          BY <2>2, <2>4, <4>4
        <5> QED BY <4>1, <5>1 DEF CallsApart
      <4> QED BY <4>2, <4>3, <4>4
    <3> QED BY <2>4, <3>1, <3>2
  <2> QED BY <2>1, <2>4 DEF CallsApart
<1>6. CASE HighDown \/ HighSwap \/ LowUp \/ LowSwap
  <2>1. part'.to = part.to /\ calls' = calls /\ pc \in {"high", "low"}
    <3>1. CASE HighDown
      BY <3>1 DEF HighDown, TypeOK
    <3>2. CASE LowUp
      BY <3>2 DEF LowUp, TypeOK
    <3>3. CASE HighSwap \/ LowSwap
      BY <3>3 DEF HighSwap, LowSwap
    <3> QED BY <1>6, <3>1, <3>2, <3>3
  <2> QED BY <2>1 DEF CallsApart
<1>7. CASE HySortBubble
  <2>1. calls' = calls /\ pc' \notin {"high", "low", "place"}
    BY <1>7 DEF HySortBubble, BubbleCall, BubbleCompare, BubblePass, BubbleReturn
  <2> QED BY <2>1 DEF CallsApart
<1>8. CASE QuickReturn
  BY <1>8 DEF QuickReturn, CallsApart
<1>9. CASE UNCHANGED vars
  BY <1>9 DEF vars, CallsApart
<1> QED
  BY <1>2, <1>3, <1>4, <1>5, <1>6, <1>7, <1>8, <1>9
     DEF Next, HySortQuick, _partition

(* An exchange within the range of _partition covers what it disorders. *)
LEMMA SwapCovered ==
  ASSUME TypeOK, CallsApart, InversionsCovered, alg = "quick",
         pc \in {"high", "low"}, pc' \in {"high", "low", "place"},
         array' = _mem_swap(array, part.low, part.high),
         part' = part, calls' = calls, alg' = alg
  PROVE  InversionsCovered'
<1> USE SortAssumption
<1>1. /\ part.low \in Index /\ part.high \in Index
      /\ part.from \in Int /\ part.to \in Int
      /\ part.from <= part.low /\ part.low <= part.to
      /\ part.from <= part.high /\ part.high <= part.to
  BY PartFacts DEF Index
<1>2. \A k \in Index : k \in Int
  BY DEF Index
<1> DEFINE from(k) == IF k = part.low THEN part.high
                      ELSE IF k = part.high THEN part.low ELSE k
<1>3. \A k \in Index : from(k) \in Index /\ array'[k] = array[from(k)]
  <2>1. /\ array'[part.low] = array[part.high] /\ array'[part.high] = array[part.low]
        /\ \A k \in Index \ {part.low, part.high} : array'[k] = array[k]
    BY <1>1, SwapFacts DEF TypeOK
  <2> QED BY <1>1, <2>1
<1>4. \A k \in Index :
        \/ from(k) = k
        \/ /\ part.from <= k /\ k <= part.to
           /\ part.from <= from(k) /\ from(k) <= part.to
  BY <1>1
<1> HIDE DEF from
<1>5. ASSUME NEW k \in Index, NEW m \in Index, k < m, Above(array'[k], array'[m])
      PROVE  Covered(k, m)'
  <2>1. CASE part.from <= k /\ m <= part.to
    BY <2>1 DEF Covered
  <2>2. CASE ~(part.from <= k /\ m <= part.to)
    <3>1. Above(array[from(k)], array[from(m)])
      BY <1>3, <1>5
    <3>2. /\ from(k) < from(m)
          /\ ~(part.from <= from(k) /\ from(m) <= part.to)
      BY <1>1, <1>2, <1>3, <1>4, <1>5, <2>2
    <3>3. Covered(from(k), from(m))
      BY <1>3, <3>1, <3>2 DEF InversionsCovered
    <3>4. PICK a \in 1..Len(calls) : calls[a][1] <= from(k) /\ from(m) <= calls[a][2]
      BY <3>2, <3>3 DEF Covered
    <3>5. /\ part.to < calls[a][1]
          /\ calls[a][1] \in Int /\ calls[a][2] \in Int
      BY <3>4, CallInts DEF CallsApart
    <3>6. part.to < from(k) /\ part.to < from(m)
      BY <1>1, <1>2, <1>3, <3>2, <3>4, <3>5
    <3>7. from(k) = k /\ from(m) = m
      BY <1>1, <1>2, <1>3, <1>4, <3>6
    <3> QED BY <3>4, <3>7 DEF Covered
  <2> QED BY <2>1, <2>2
<1> QED BY <1>5 DEF InversionsCovered

(* What is out of order stays within a range that is to be sorted. *)
LEMMA CoveredStep ==
  ASSUME PermInv, SplitSoFar, CallsApart, InversionsCovered, [Next]_vars
  PROVE  InversionsCovered'
<1> DEFINE Call == (0..len) \X (-2..(len - 1))
<1> USE SortAssumption
<1> USE DEF PermInv
<1>1. calls \in Seq(Call) /\ \A k \in Index : k \in Int /\ k >= 0
  BY DEF TypeOK, Index
<1>2. CASE QuickTrivial
  <2>1. /\ calls # <<>> /\ calls' = Tail(calls) /\ pc = "call" /\ pc' = "call"
        /\ array' = array /\ alg' = alg
        /\ ~(calls[1][1] < calls[1][2])
    BY <1>1, <1>2, TailIndex DEF QuickTrivial, Low, High
  <2>2. ASSUME NEW k \in Index, NEW m \in Index, k < m, Covered(k, m)
        PROVE  Covered(k, m)'
    <3>1. PICK a \in 1..Len(calls) : calls[a][1] <= k /\ m <= calls[a][2]
      BY <2>1, <2>2 DEF Covered
    <3>2. a # 1
      BY <1>1, <2>1, <2>2, <3>1, CallInts
    <3>3. a - 1 \in 1..Len(calls') /\ calls'[a - 1] = calls[a]
      BY <1>1, <2>1, <3>2, TailKeeps
    <3> QED BY <3>1, <3>3 DEF Covered
  <2> QED BY <2>1, <2>2 DEF InversionsCovered
<1>3. CASE PartitionStart
  <2>1. /\ calls # <<>> /\ calls' = Tail(calls) /\ pc = "call" /\ pc' = "high"
        /\ array' = array /\ alg' = alg
        /\ part'.from = calls[1][1] /\ part'.to = calls[1][2]
    BY <1>1, <1>3, TailIndex DEF PartitionStart, Low, High
  <2>2. ASSUME NEW k \in Index, NEW m \in Index, Covered(k, m)
        PROVE  Covered(k, m)'
    <3>1. PICK a \in 1..Len(calls) : calls[a][1] <= k /\ m <= calls[a][2]
      BY <2>1, <2>2 DEF Covered
    <3>2. CASE a = 1
      BY <2>1, <3>1, <3>2 DEF Covered
    <3>3. CASE a # 1
      <4>1. a - 1 \in 1..Len(calls') /\ calls'[a - 1] = calls[a]
        BY <1>1, <2>1, <3>3, TailKeeps
      <4> QED BY <3>1, <4>1 DEF Covered
    <3> QED BY <3>2, <3>3
  <2> QED BY <2>1, <2>2 DEF InversionsCovered
<1>4. CASE PartitionFails
  <2> DEFINE x == <<Low, -2>>
             y == <<0, High>>
             q == Tail(calls)
  <2>1. /\ calls # <<>> /\ calls' = << x, y >> \o q /\ pc = "call"
        /\ array' = array /\ alg' = alg
        /\ x \in Call /\ y \in Call /\ q \in Seq(Call)
    BY <1>4, CallFacts DEF PartitionFails
  <2>2. y[1] = 0 /\ y[2] = calls[1][2]
    BY <1>1, <2>1, TailIndex DEF High
  <2> HIDE DEF x, y
  <2>3. /\ Len(calls') = Len(q) + 2 /\ Len(q) \in Nat /\ calls'[2] = y
        /\ \A a \in 3..Len(calls') : calls'[a] = q[a - 2]
    BY <2>1, PushIndex
  <2>4. ASSUME NEW k \in Index, NEW m \in Index, Covered(k, m)
        PROVE  Covered(k, m)'
    <3>1. PICK a \in 1..Len(calls) : calls[a][1] <= k /\ m <= calls[a][2]
      BY <2>1, <2>4 DEF Covered
    <3>2. CASE a = 1
      <4>1. 2 \in 1..Len(calls') /\ calls'[2][1] <= k /\ m <= calls'[2][2]
        BY <1>1, <2>2, <2>3, <3>1, <3>2
      <4> QED BY <4>1 DEF Covered
    <3>3. CASE a # 1
      <4>1. a - 1 \in 1..Len(q) /\ q[a - 1] = calls[a]
        BY <1>1, <2>1, <3>3, TailKeeps
      <4> HIDE DEF q
      <4>2. a + 1 \in 1..Len(calls') /\ calls'[a + 1] = q[(a + 1) - 2] /\ (a + 1) - 2 = a - 1
        BY <2>3, <3>1, <4>1
      <4> QED BY <3>1, <4>1, <4>2 DEF Covered
    <3> QED BY <3>2, <3>3
  <2> QED BY <2>1, <2>4 DEF InversionsCovered
<1>5. CASE HighDown \/ LowUp
  <2>1. /\ part'.from = part.from /\ part'.to = part.to /\ calls' = calls
        /\ pc \in {"high", "low"} /\ pc' = pc /\ array' = array /\ alg' = alg
    <3>1. CASE HighDown
      BY <3>1 DEF HighDown, TypeOK
    <3>2. CASE LowUp
      BY <3>2 DEF LowUp, TypeOK
    <3> QED BY <1>5, <3>1, <3>2
  <2> QED BY <2>1 DEF InversionsCovered, Covered
<1>6. CASE HighSwap \/ LowSwap
  <2>1. _mem_swap(array, part.high, part.low) = _mem_swap(array, part.low, part.high)
    <3>1. part.low \in Index /\ part.high \in Index /\ array \in [Index -> Item]
      BY <1>6, PartFacts DEF HighSwap, LowSwap, TypeOK
    <3> QED BY <3>1 DEF _mem_swap
  <2>2. alg = "quick"
    BY <1>6 DEF HighSwap, LowSwap, TypeOK
  <2> QED BY <1>6, <2>1, <2>2, SwapCovered DEF HighSwap, LowSwap
<1>7. CASE Place
  <2> DEFINE x == <<part.from, part.low - 1>>
             y == <<part.low + 1, part.to>>
  <2>1. /\ calls' = << x, y >> \o calls /\ pc = "place" /\ alg' = alg
        /\ x \in Call /\ y \in Call /\ array' = array
        /\ part.low \in Index /\ part.from \in Int /\ part.to \in Int
        /\ part.tmp \in Item
    BY <1>7, PartFacts, PlaceNothing DEF Place, Index
  <2>2. /\ Len(calls') = Len(calls) + 2 /\ Len(calls) \in Nat
        /\ calls'[1] = x /\ calls'[2] = y
        /\ \A a \in 3..Len(calls') : calls'[a] = calls[a - 2]
    BY <1>1, <2>1, PushIndex
  <2>3. ASSUME NEW k \in Index, NEW m \in Index, k < m, Above(array[k], array[m]),
               Covered(k, m)
        PROVE  Covered(k, m)'
    <3>1. CASE \E a \in 1..Len(calls) : calls[a][1] <= k /\ m <= calls[a][2]
      <4>1. PICK a \in 1..Len(calls) : calls[a][1] <= k /\ m <= calls[a][2]
        BY <3>1
      <4>2. a + 2 \in 1..Len(calls') /\ calls'[a + 2] = calls[(a + 2) - 2] /\ (a + 2) - 2 = a
        BY <2>2, <4>1
      <4> QED BY <4>1, <4>2 DEF Covered
    <3>2. CASE part.from <= k /\ m <= part.to
      <4>1. CASE m < part.low
        <5>1. 1 \in 1..Len(calls') /\ calls'[1][1] <= k /\ m <= calls'[1][2]
          BY <1>1, <2>1, <2>2, <3>2, <4>1
        <5> QED BY <5>1 DEF Covered
      <4>2. CASE k > part.low
        <5>1. 2 \in 1..Len(calls') /\ calls'[2][1] <= k /\ m <= calls'[2][2]
          BY <1>1, <2>1, <2>2, <3>2, <4>2
        <5> QED BY <5>1 DEF Covered
      <4>3. CASE k <= part.low /\ part.low <= m
        <5>1. ~Above(array[k], part.tmp) /\ ~Above(part.tmp, array[m])
          BY <1>1, <2>1, <3>2, <4>3, SplitPlace DEF PivotSplits
        <5>2. /\ array[k].key \in Int /\ array[m].key \in Int
              /\ part.tmp.key \in Int
          BY <2>1 DEF TypeOK, Item
        <5> QED BY <2>3, <5>1, <5>2 DEF Above
      <4> QED BY <1>1, <2>1, <4>1, <4>2, <4>3
    <3> QED BY <2>3, <3>1, <3>2 DEF Covered
  <2> QED BY <2>1, <2>3 DEF InversionsCovered
<1>8. CASE QuickReturn
  BY <1>8 DEF QuickReturn, InversionsCovered, Covered
<1>9. CASE HySortBubble
  <2>1. alg' = "bubble"
    BY <1>9 DEF HySortBubble, BubbleCall, BubbleCompare, BubblePass,
       BubbleReturn, TypeOK
  <2> QED BY <2>1 DEF InversionsCovered
<1>10. CASE UNCHANGED vars
  BY <1>10 DEF vars, InversionsCovered, Covered
<1> QED
  BY <1>2, <1>3, <1>4, <1>5, <1>6, <1>7, <1>8, <1>9, <1>10
     DEF Next, HySortQuick, _partition

(* The invariant of HySortQuick holds always. *)
LEMMA QuickAlways == Spec => []QuickInv
<1> USE SortAssumption
<1>1. ASSUME Init PROVE QuickInv
  <2>1. PermInv
    BY <1>1, InitInv
  <2>2. SplitSoFar /\ NoCallsLeft
    BY <1>1 DEF Init, SplitSoFar, NoCallsLeft
  <2>3. CallsApart
    BY <1>1 DEF Init, CallsApart
  <2>4. InversionsCovered
    BY <1>1 DEF Init, InversionsCovered, Covered, Index
  <2> QED BY <2>1, <2>2, <2>3, <2>4 DEF QuickInv
<1>2. ASSUME QuickInv, [Next]_vars PROVE QuickInv'
  <2>1. PermInv' /\ SplitSoFar' /\ CallsApart' /\ InversionsCovered'
    BY <1>2, TypeStep, PivotStep, PermStep, SplitStep, ApartStep, CoveredStep
       DEF QuickInv, PermInv
  <2>2. NoCallsLeft'
    BY <1>2 DEF QuickInv, PermInv, NoCallsLeft, TypeOK, Next, HySortBubble,
       HySortQuick, _partition, BubbleCall, BubbleCompare, BubblePass,
       BubbleReturn, QuickTrivial, PartitionStart, PartitionFails, HighDown,
       HighSwap, LowUp, LowSwap, Place, QuickReturn, vars
  <2> QED BY <2>1, <2>2 DEF QuickInv
<1> QED BY <1>1, <1>2, PTL DEF Spec

(***************************************************************************)
(* _partition divides its range by the pivot, whatever the array.          *)
(***************************************************************************)
THEOREM PivotSplitsAlways == Spec => []PivotSplits
<1>1. QuickInv => PivotSplits
  BY SplitPlace DEF QuickInv, PermInv
<1> QED BY QuickAlways, <1>1, PTL

(***************************************************************************)
(* At every step of either sort: cursors inside the array, a permutation   *)
(* of what was given, and a pivot that divides its range when it is stored. *)
(***************************************************************************)
THEOREM ArraySoundAlways == Spec => []ArraySound
<1>1. QuickInv /\ PivotSplits => ArraySound
  BY DEF QuickInv, PermInv, ArraySound
<1> QED BY QuickAlways, PivotSplitsAlways, <1>1, PTL

(***************************************************************************)
(* HySortQuick and HySortBubble return a sorted array, whatever they were  *)
(* given, and also when allocations of _partition have failed.             *)
(***************************************************************************)
THEOREM SortedAlways == Spec => []Sorted
<1>1. QuickInv /\ BubbleInv => Sorted
  <2> SUFFICES ASSUME QuickInv, BubbleInv, pc = "return", alg = "quick",
                      NEW k \in Index, NEW m \in Index, k < m,
                      Above(array[k], array[m])
               PROVE  FALSE
    BY DEF Sorted, BubbleInv, TypeOK
  <2>1. calls = <<>>
    BY DEF QuickInv, NoCallsLeft
  <2>2. Covered(k, m)
    BY DEF QuickInv, InversionsCovered
  <2> QED BY <2>1, <2>2 DEF Covered
<1> QED BY QuickAlways, BubbleAlways, <1>1, PTL
=============================================================================
