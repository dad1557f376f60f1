----------------------------- MODULE HashProofs -----------------------------
(***************************************************************************)
(* Proofs about Hash for every set of threads, keys, values and items and  *)
(* every power of two of buckets: ChainSound, OnePerAdder, that for the    *)
(* keys of one thread the hash implements KeyMap, and ListsAsSequences.    *)
(*                                                                         *)
(* The chains are pointers, and what HEntries reads by following them is a *)
(* recursion.  Linked(h, b, q) says without it that the pointers of bucket *)
(* b make the chain q; the first part shows what hlist_add_head and        *)
(* hlist_del do to it, the second that a walk then reads q.  The inductive *)
(* invariant Inv(c) is about pointers, items and threads for given chains  *)
(* c; a step that links or unlinks an item names the chains it leads to,   *)
(* and IInv says it of the chains HEntries reads.                          *)
(*                                                                         *)
(* The last part is about all of hy_list.h.  A Path is a list or an hlist, *)
(* Two says that a heap has two of them, Exchange what an operation does   *)
(* to one when it puts some entries in the place of others.                *)
(***************************************************************************)
EXTENDS Hash, FiniteSetTheorems, SequenceTheorems, WellFoundedInduction,
        NaturalsInduction, TLAPS

-----------------------------------------------------------------------------
(* Natural numbers and sequences.                                          *)

(* The order of the naturals as a relation, for WFMin. *)
Below == OpToRel(<, Nat)

(* What it relates. *)
LEMMA BelowIs == \A x, y \in Nat : <<x, y>> \in Below <=> x < y
  BY DEF Below, OpToRel

(* A set of naturals with a member has a least one. *)
LEMMA Least ==
  ASSUME NEW S \in SUBSET Nat, NEW n \in S
  PROVE  \E m \in S : \A k \in S : m <= k
<1>1. IsWellFoundedOn(Below, Nat)
  BY NatLessThanWellFounded DEF Below
<1>2. S # {} /\ S \subseteq Nat
  OBVIOUS
<1>3. PICK m \in S : \A k \in S : ~ (<<k, m>> \in Below)
  BY <1>1, <1>2, WFMin, Zenon
<1>4. \A k \in S : ~ (k < m)
  BY <1>2, <1>3, BelowIs, Zenon
<1> QED BY <1>2, <1>4

(* A function on 1..n is a sequence. *)
LEMMA FunIsSeq ==
  ASSUME NEW S, NEW n \in Nat, NEW f \in [1..n -> S]
  PROVE  f \in Seq(S) /\ Len(f) = n
<1>1. f \in Seq(S)
  BY SeqDef
<1> QED BY <1>1, LenProperties

-----------------------------------------------------------------------------
(* The chain of a bucket as a sequence.                                    *)

(* The k-th entry of q, or NULL behind the last. *)
Ent(q, k) == IF k \in 1..Len(q) THEN q[k] ELSE NULL

(* The pointers in h make q the chain of head: next and pprev of each entry. *)
Linked(h, head, q) ==
  /\ q \in Seq(Nodes)
  /\ \A j, k \in 1..Len(q) : q[j] = q[k] => j = k
  /\ h[head].next = Ent(q, 1)
  /\ \A k \in 1..Len(q) :
       /\ h[q[k]].next = Ent(q, k + 1)
       /\ h[q[k]].prev = IF k = 1 THEN head ELSE q[k - 1]

(* What a pointer may be, and the pointers of all items and buckets. *)
Pointers == Nodes \union Heads \union {NULL, POISON}
Heaps == [Nodes \union Heads -> [next : Pointers, prev : Pointers]]

(* A chain depends on its own pointers only. *)
LEMMA LinkedFrame ==
  ASSUME NEW h, NEW g, NEW b \in Heads, NEW q, Linked(h, b, q),
         g[b] = h[b], \A k \in 1..Len(q) : g[q[k]] = h[q[k]]
  PROVE  Linked(g, b, q)
  BY DEF Linked, Ent

(* q with n in front, and q without its k-th entry. *)
Push(n, q) == [k \in 1..(Len(q) + 1) |-> IF k = 1 THEN n ELSE q[k - 1]]
Cut(q, k) == [j \in 1..(Len(q) - 1) |-> IF j < k THEN q[j] ELSE q[j + 1]]

(* Push is a sequence, with n first and the rest one place further. *)
LEMMA PushFacts ==
  ASSUME NEW n \in Nodes, NEW q \in Seq(Nodes)
  PROVE  /\ Push(n, q) \in Seq(Nodes) /\ Len(Push(n, q)) = Len(q) + 1
         /\ Push(n, q)[1] = n
         /\ \A k \in 1..Len(q) : Push(n, q)[k + 1] = q[k]
<1>1. Len(q) \in Nat /\ \A k \in 1..Len(q) : q[k] \in Nodes
  OBVIOUS
<1>2. Push(n, q) \in [1..(Len(q) + 1) -> Nodes]
  BY <1>1 DEF Push
<1>3. Len(q) + 1 \in Nat
  BY <1>1
<1> QED BY <1>1, <1>2, <1>3, FunIsSeq DEF Push

(* Cut is a sequence, one shorter, with what was behind k moved up. *)
LEMMA CutFacts ==
  ASSUME NEW q \in Seq(Nodes), NEW k \in 1..Len(q)
  PROVE  /\ Cut(q, k) \in Seq(Nodes) /\ Len(Cut(q, k)) = Len(q) - 1
         /\ \A j \in 1..(Len(q) - 1) :
              Cut(q, k)[j] = IF j < k THEN q[j] ELSE q[j + 1]
<1>1. Len(q) \in Nat /\ \A j \in 1..Len(q) : q[j] \in Nodes
  OBVIOUS
<1>2. Cut(q, k) \in [1..(Len(q) - 1) -> Nodes]
  BY <1>1 DEF Cut
<1>3. Len(q) - 1 \in Nat
  BY <1>1
<1> QED BY <1>1, <1>2, <1>3, FunIsSeq DEF Cut

(* What has pointers. *)
Structs == Nodes \union Heads

(* An assignment to next changes that pointer only. *)
LEMMA SetNextFacts ==
  ASSUME NEW h \in Heaps, NEW n \in Structs, NEW to \in Pointers
  PROVE  /\ SetNext(h, n, to) \in Heaps
         /\ SetNext(h, n, to)[n].next = to
         /\ SetNext(h, n, to)[n].prev = h[n].prev
         /\ \A x \in Structs : x # n => SetNext(h, n, to)[x] = h[x]
  BY DEF Heaps, SetNext, Structs

(* So does one to prev. *)
LEMMA SetPrevFacts ==
  ASSUME NEW h \in Heaps, NEW n \in Structs, NEW to \in Pointers
  PROVE  /\ SetPrev(h, n, to) \in Heaps
         /\ SetPrev(h, n, to)[n].prev = to
         /\ SetPrev(h, n, to)[n].next = h[n].next
         /\ \A x \in Structs : x # n => SetPrev(h, n, to)[x] = h[x]
  BY DEF Heaps, SetPrev, Structs

(* So does one through pprev, where there is an entry to write to. *)
LEMMA SetPprevFacts ==
  ASSUME NEW h \in Heaps, NEW n, NEW to \in Pointers, n \in Nodes \/ n = NULL
  PROVE  /\ SetPprev(h, n, to) \in Heaps
         /\ n \in Nodes => SetPprev(h, n, to)[n].prev = to
         /\ n \in Nodes => SetPprev(h, n, to)[n].next = h[n].next
         /\ \A x \in Structs : x # n => SetPprev(h, n, to)[x] = h[x]
<1>1. (n \in Structs /\ n # NULL) \/ n = NULL
  BY ListAssumption DEF Structs
<1>2. NULL \notin Nodes
  BY ListAssumption
<1> QED BY <1>1, <1>2, SetPrevFacts DEF SetPprev

(* The pointers that hlist_add_head writes, and that it writes no others. *)
LEMMA AddHeadFacts ==
  ASSUME NEW h \in Heaps, NEW b \in Heads, NEW n \in Nodes,
         h[b].next \in Nodes \union {NULL}, h[b].next # n
  PROVE  LET g == hlist_add_head(h, n, b)
             first == h[b].next
         IN /\ g \in Heaps
            /\ g[n].next = first /\ g[n].prev = b
            /\ g[b].next = n
            /\ first \in Nodes => /\ g[first].prev = n
                                  /\ g[first].next = h[first].next
            /\ \A x \in Structs : x \notin {n, b, first} => g[x] = h[x]
<1> DEFINE first == h[b].next
           h1 == SetNext(h, n, first)
           h2 == SetPprev(h1, first, n)
           h3 == SetNext(h2, b, n)
           h4 == SetPrev(h3, n, b)
<1>0. /\ n # b /\ b \notin Nodes /\ first # b
      /\ n \in Structs /\ b \in Structs /\ (first \in Nodes => first \in Structs)
      /\ n \in Pointers /\ b \in Pointers /\ first \in Pointers
  BY ListAssumption DEF Structs, Pointers
<1>6. first = h[b].next /\ first # n
  OBVIOUS
<1> HIDE DEF first
<1>1. /\ h1 \in Heaps /\ h1[n].next = first
      /\ \A x \in Structs : x # n => h1[x] = h[x]
  BY <1>0, SetNextFacts DEF h1
<1> HIDE DEF h1
<1>2. /\ h2 \in Heaps
      /\ first \in Nodes => h2[first].prev = n /\ h2[first].next = h1[first].next
      /\ \A x \in Structs : x # first => h2[x] = h1[x]
  <2>1. first \in Nodes \/ first = NULL
    BY <1>6
  <2>2. /\ SetPprev(h1, first, n) \in Heaps
        /\ first \in Nodes => /\ SetPprev(h1, first, n)[first].prev = n
                              /\ SetPprev(h1, first, n)[first].next = h1[first].next
        /\ \A x \in Structs : x # first => SetPprev(h1, first, n)[x] = h1[x]
    BY <2>1, <1>0, <1>1, SetPprevFacts
  <2> QED BY <2>2 DEF h2
<1> HIDE DEF h2
<1>3. /\ h3 \in Heaps /\ h3[b].next = n
      /\ \A x \in Structs : x # b => h3[x] = h2[x]
  BY <1>0, <1>2, SetNextFacts
<1> HIDE DEF h3
<1>4. /\ h4 \in Heaps /\ h4[n].prev = b /\ h4[n].next = h3[n].next
      /\ \A x \in Structs : x # n => h4[x] = h3[x]
  BY <1>0, <1>3, SetPrevFacts
<1>5. hlist_add_head(h, n, b) = h4
  BY <1>6 DEF hlist_add_head, h1, h2, h3, h4
<1> HIDE DEF h4
<1> QED BY <1>0, <1>1, <1>2, <1>3, <1>4, <1>5, <1>6

(* hlist_add_head puts a new entry in front of the chain of its bucket. *)
LEMMA AddHeadLinks ==
  ASSUME NEW h \in Heaps, NEW b \in Heads, NEW q, Linked(h, b, q),
         NEW n \in Nodes, \A k \in 1..Len(q) : q[k] # n
  PROVE  /\ hlist_add_head(h, n, b) \in Heaps
         /\ Linked(hlist_add_head(h, n, b), b, Push(n, q))
         /\ \A x \in Structs :
              x # b /\ x # n /\ (\A k \in 1..Len(q) : q[k] # x)
                => hlist_add_head(h, n, b)[x] = h[x]
<1> DEFINE g == hlist_add_head(h, n, b)
           p == Push(n, q)
           first == h[b].next
<1>1. /\ n # b /\ b \notin Nodes /\ NULL \notin Nodes /\ NULL # b
      /\ q \in Seq(Nodes) /\ Len(q) \in Nat
      /\ (\A k \in 1..Len(q) : q[k] \in Nodes)
      /\ n \in Structs
  BY ListAssumption DEF Linked, Structs
<1>2. /\ first = Ent(q, 1) /\ first \in Nodes \union {NULL} /\ first # n
  BY <1>1, ListAssumption DEF Linked, Ent
<1>3. /\ g \in Heaps
      /\ g[n].next = first /\ g[n].prev = b
      /\ g[b].next = n
      /\ first \in Nodes => /\ g[first].prev = n
                            /\ g[first].next = h[first].next
      /\ \A x \in Structs : x \notin {n, b, first} => g[x] = h[x]
  BY <1>2, AddHeadFacts
<1>4. /\ p \in Seq(Nodes) /\ Len(p) = Len(q) + 1 /\ p[1] = n
      /\ \A k \in 1..Len(q) : p[k + 1] = q[k]
  BY <1>1, PushFacts
<1> HIDE DEF g, p, first
<1>5. \A x \in Structs : x # b /\ x # n /\ (\A k \in 1..Len(q) : q[k] # x)
                         => g[x] = h[x]
  <2>1. first # NULL => first = q[1] /\ 1 \in 1..Len(q)
    BY <1>2 DEF Ent
  <2>2. NULL \notin Structs
    BY ListAssumption DEF Structs
  <2> QED BY <1>3, <2>1, <2>2
<1>6. Linked(g, b, p)
  <2>1. \A k \in 1..Len(p) : \/ k = 1 /\ p[k] = n
                             \/ k - 1 \in 1..Len(q) /\ k # 1 /\ p[k] = q[k - 1]
    BY <1>1, <1>4
  <2>2. \A j, k \in 1..Len(q) : q[j] = q[k] => j = k
    BY DEF Linked
  <2>3. ASSUME NEW j \in 1..Len(p), NEW k \in 1..Len(p), p[j] = p[k]
        PROVE  j = k
    <3>1. CASE j = 1 /\ k = 1
      BY <3>1
    <3>2. CASE j # 1 /\ k # 1
      <4>1. j - 1 = k - 1
        BY <2>1, <2>2, <2>3, <3>2
      <4> QED BY <1>1, <1>4, <4>1
    <3> QED BY <2>1, <2>3, <3>1, <3>2
  <2>4. g[b].next = Ent(p, 1)
    BY <1>1, <1>3, <1>4 DEF Ent
  <2>5. ASSUME NEW k \in 1..Len(p)
        PROVE  /\ g[p[k]].next = Ent(p, k + 1)
               /\ g[p[k]].prev = IF k = 1 THEN b ELSE p[k - 1]
    <3>1. Ent(p, k + 1) = Ent(q, k)
      BY <1>1, <1>4 DEF Ent
    <3>2. CASE k = 1
      BY <1>2, <1>3, <1>4, <3>1, <3>2
    <3>3. CASE k = 2
      <4>1. k - 1 = 1 /\ 1 \in 1..Len(q) /\ first = q[1] /\ p[k] = q[1]
        BY <1>1, <1>2, <1>4, <3>3 DEF Ent
      <4>2. h[q[1]].next = Ent(q, 2)
        BY <4>1 DEF Linked
      <4> QED BY <1>1, <1>3, <1>4, <3>1, <3>3, <4>1, <4>2
    <3>4. CASE k > 2
      <4> DEFINE j == k - 1
      <4>1. /\ j \in 1..Len(q) /\ j # 1 /\ 1 \in 1..Len(q) /\ first = q[1]
            /\ p[k] = q[j] /\ j + 1 = k /\ j - 1 \in 1..Len(q) /\ p[j] = q[j - 1]
        BY <1>1, <1>2, <1>4, <2>1, <3>4 DEF Ent
      <4>2. h[q[j]].next = Ent(q, j + 1) /\ h[q[j]].prev = q[j - 1]
        BY <4>1 DEF Linked
      <4>3. q[j] \notin {n, b, first} /\ q[j] \in Structs
        BY <1>1, <2>2, <4>1 DEF Structs
      <4> HIDE DEF j
      <4>4. g[p[k]] = h[q[j]]
        BY <1>3, <4>1, <4>3
      <4>5. k - 1 = j
        BY DEF j
      <4> QED BY <3>1, <3>4, <4>1, <4>2, <4>4, <4>5
    <3> QED BY <1>4, <3>2, <3>3, <3>4
  <2> QED BY <1>4, <2>3, <2>4, <2>5 DEF Linked
<1> QED BY <1>3, <1>5, <1>6 DEF g, p

(* The pointers that hlist_del writes, and that it writes no others. *)
LEMMA DelFacts ==
  ASSUME NEW h \in Heaps, NEW n \in Nodes,
         h[n].prev \in Structs, h[n].prev # n,
         h[n].next \in Nodes \/ h[n].next = NULL, h[n].next # n,
         h[n].next # h[n].prev
  PROVE  LET g == hlist_del(h, n)
             prev == h[n].prev
             next == h[n].next
         IN /\ g \in Heaps
            /\ g[prev].next = next /\ g[prev].prev = h[prev].prev
            /\ next \in Nodes => g[next].prev = prev
            /\ next \in Nodes => g[next].next = h[next].next
            /\ \A x \in Structs : x \notin {n, prev, next} => g[x] = h[x]
<1> DEFINE pv == h[n].prev
           nx == h[n].next
           h1 == SetNext(h, pv, nx)
           h2 == SetPprev(h1, nx, pv)
           h3 == [h2 EXCEPT ![n] = [next |-> POISON, prev |-> POISON]]
<1>0. /\ n \in Structs /\ pv \in Structs /\ pv # n
      /\ nx \in Nodes \/ nx = NULL
      /\ nx # n /\ nx # pv
      /\ (nx \in Nodes => nx \in Structs) /\ pv \in Pointers /\ nx \in Pointers
      /\ pv = h[n].prev /\ nx = h[n].next
  BY DEF Structs, Pointers
<1> HIDE DEF pv, nx
<1>1. /\ h1 \in Heaps /\ h1[pv].next = nx /\ h1[pv].prev = h[pv].prev
      /\ \A x \in Structs : x # pv => h1[x] = h[x]
  <2>0. h \in Heaps /\ pv \in Structs /\ nx \in Pointers
    BY <1>0
  <2> HIDE <1>0
  <2>1. /\ SetNext(h, pv, nx) \in Heaps
        /\ SetNext(h, pv, nx)[pv].next = nx
        /\ SetNext(h, pv, nx)[pv].prev = h[pv].prev
        /\ \A x \in Structs : x # pv => SetNext(h, pv, nx)[x] = h[x]
    BY <2>0, SetNextFacts
  <2> QED BY <2>1 DEF h1
<1> HIDE DEF h1
<1>2. /\ h2 \in Heaps
      /\ nx \in Nodes => h2[nx].prev = pv
      /\ nx \in Nodes => h2[nx].next = h1[nx].next
      /\ \A x \in Structs : x # nx => h2[x] = h1[x]
  BY <1>0, <1>1, SetPprevFacts
<1> HIDE DEF h2
<1>3. h3 \in Heaps /\ \A x \in Structs : x # n => h3[x] = h2[x]
  BY <1>0, <1>2 DEF Heaps, Structs, Pointers
<1>4. hlist_del(h, n) = h3
  BY <1>0 DEF hlist_del, __hlist_del, SetAt, h1, h2, h3
<1> HIDE DEF h3
<1> QED BY <1>0, <1>1, <1>2, <1>3, <1>4

(* hlist_del takes an entry out of its chain, wherever in it. *)
LEMMA DelLinks ==
  ASSUME NEW h \in Heaps, NEW b \in Heads, NEW q, Linked(h, b, q),
         NEW k \in 1..Len(q)
  PROVE  /\ hlist_del(h, q[k]) \in Heaps
         /\ Linked(hlist_del(h, q[k]), b, Cut(q, k))
         /\ \A x \in Structs : x # b /\ (\A j \in 1..Len(q) : q[j] # x)
                => hlist_del(h, q[k])[x] = h[x]
<1> DEFINE n == q[k]
           g == hlist_del(h, n)
           p == Cut(q, k)
           Place(j) == IF j = 0 THEN b ELSE q[j]
<1>1. /\ b \notin Nodes /\ NULL \notin Nodes /\ NULL # b /\ b \in Structs
      /\ q \in Seq(Nodes) /\ Len(q) \in Nat
      /\ (\A j \in 1..Len(q) : q[j] \in Nodes)
      /\ Nodes \subseteq Structs
  BY ListAssumption DEF Linked, Structs
<1>2. \A j, m \in 1..Len(q) : q[j] = q[m] => j = m
  BY DEF Linked
<1>3. \A j \in 0..Len(q) : h[Place(j)].next = Ent(q, j + 1)
  BY <1>1 DEF Linked
<1>4. \A j \in 1..Len(q) : h[q[j]].prev = Place(j - 1)
  BY <1>1 DEF Linked
<1>5. \A j, m \in 0..Len(q) : Place(j) = Place(m) => j = m
  BY <1>1, <1>2
<1>6. \A j \in 0..Len(q) : Place(j) \in Structs
  BY <1>1
<1>7. /\ k \in Int /\ k >= 1 /\ k <= Len(q) /\ n \in Nodes /\ Place(k) = n
      /\ k - 1 \in 0..Len(q) /\ k \in 0..Len(q)
  BY <1>1
<1>8. /\ h[n].prev = Place(k - 1) /\ h[n].next = Ent(q, k + 1)
  BY <1>3, <1>4, <1>7
<1>9. Place(k - 1) # n /\ Place(k - 1) \in Structs
  BY <1>5, <1>6, <1>7
<1>10. /\ Ent(q, k + 1) \in Nodes \/ Ent(q, k + 1) = NULL
       /\ Ent(q, k + 1) # n /\ Ent(q, k + 1) # Place(k - 1)
  <2>1. CASE k = Len(q)
    <3>1. Ent(q, k + 1) = NULL
      BY <1>1, <2>1 DEF Ent
    <3>2. NULL \notin Structs
      BY ListAssumption DEF Structs
    <3> QED BY <1>1, <1>7, <1>9, <3>1, <3>2
  <2>2. CASE k # Len(q)
    <3>1. Ent(q, k + 1) = Place(k + 1) /\ k + 1 \in 0..Len(q) /\ Ent(q, k + 1) \in Nodes
      BY <1>1, <1>7, <2>2 DEF Ent
    <3> QED BY <1>5, <1>7, <3>1
  <2> QED BY <2>1, <2>2
<1>11. /\ g \in Heaps
       /\ g[Place(k - 1)].next = Ent(q, k + 1)
       /\ g[Place(k - 1)].prev = h[Place(k - 1)].prev
       /\ Ent(q, k + 1) \in Nodes => g[Ent(q, k + 1)].prev = Place(k - 1)
       /\ Ent(q, k + 1) \in Nodes => g[Ent(q, k + 1)].next = h[Ent(q, k + 1)].next
       /\ \A x \in Structs : x \notin {n, Place(k - 1), Ent(q, k + 1)} => g[x] = h[x]
  BY <1>7, <1>8, <1>9, <1>10, DelFacts
<1>12. /\ p \in Seq(Nodes) /\ Len(p) = Len(q) - 1
       /\ \A j \in 1..(Len(q) - 1) : p[j] = IF j < k THEN q[j] ELSE q[j + 1]
  BY <1>1, CutFacts
<1>a. Place(0) = b /\ \A j \in 1..Len(q) : Place(j) = q[j]
  BY <1>1
<1> HIDE DEF g, p, n, Place
<1>13. \A j \in 0..Len(q) : j # k /\ j # k - 1 => g[Place(j)].next = Ent(q, j + 1)
  <2>1. ASSUME NEW j \in 0..Len(q), j # k, j # k - 1
        PROVE  g[Place(j)].next = Ent(q, j + 1)
    <3>1. h[Place(j)].next = Ent(q, j + 1)
      BY <1>3
    <3>2. CASE Place(j) = Ent(q, k + 1)
      <4>1. Ent(q, k + 1) \in Nodes
        BY <1>6, <1>10, <3>2, ListAssumption DEF Structs
      <4> QED BY <1>11, <3>1, <3>2, <4>1
    <3>3. CASE Place(j) # Ent(q, k + 1)
      <4>1. Place(j) \in Structs /\ Place(j) # n /\ Place(j) # Place(k - 1)
        BY <1>5, <1>6, <1>7, <2>1
      <4> QED BY <1>11, <3>1, <3>3, <4>1
    <3> QED BY <3>2, <3>3
  <2> QED BY <2>1
<1>14. \A j \in 1..Len(q) :
         j # k => g[q[j]].prev = IF j = k + 1 THEN Place(k - 1) ELSE Place(j - 1)
  <2>1. ASSUME NEW j \in 1..Len(q), j # k
        PROVE  g[q[j]].prev = IF j = k + 1 THEN Place(k - 1) ELSE Place(j - 1)
    <3>1. CASE j = k + 1
      <4>1. Ent(q, k + 1) = q[j] /\ q[j] \in Nodes
        BY <1>1, <3>1 DEF Ent
      <4> QED BY <1>11, <3>1, <4>1
    <3>2. CASE j = k - 1
      <4>1. Place(k - 1) = q[j] /\ j # k + 1 /\ h[q[j]].prev = Place(j - 1)
        BY <1>4, <1>7, <1>a, <3>2
      <4> QED BY <1>11, <4>1
    <3>3. CASE j # k + 1 /\ j # k - 1
      <4>1. q[j] # n /\ q[j] # Place(k - 1)
        BY <1>1, <1>5, <1>7, <1>a, <2>1, <3>3
      <4>2. q[j] # Ent(q, k + 1)
        BY <1>1, <1>2, <1>7, <3>3 DEF Ent
      <4>3. g[q[j]] = h[q[j]]
        BY <1>1, <1>11, <4>1, <4>2
      <4> QED BY <1>4, <3>3, <4>3
    <3> QED BY <3>1, <3>2, <3>3
  <2> QED BY <2>1
<1>15. \A x \in Structs : x # b /\ (\A j \in 1..Len(q) : q[j] # x) => g[x] = h[x]
  <2>1. ASSUME NEW x \in Structs, x # b, \A j \in 1..Len(q) : q[j] # x
        PROVE  x \notin {n, Place(k - 1), Ent(q, k + 1)}
    <3>1. x # n
      BY <2>1 DEF n
    <3>2. x # Place(k - 1)
      BY <2>1, <1>7, <1>1 DEF Place
    <3>3. x # Ent(q, k + 1)
      BY <2>1, <1>1, ListAssumption DEF Ent, Structs
    <3> QED BY <3>1, <3>2, <3>3
  <2> QED BY <1>11, <2>1
<1>16. Linked(g, b, p)
  <2>1. ASSUME NEW j \in 1..Len(p), NEW m \in 1..Len(p), p[j] = p[m]
        PROVE  j = m
    <3> DEFINE js == IF j < k THEN j ELSE j + 1
               ms == IF m < k THEN m ELSE m + 1
    <3>1. js \in 1..Len(q) /\ ms \in 1..Len(q) /\ p[j] = q[js] /\ p[m] = q[ms]
      BY <1>1, <1>7, <1>12
    <3>2. js = ms
      BY <1>2, <2>1, <3>1
    <3> QED BY <1>7, <3>2
  <2>2. g[b].next = Ent(p, 1)
    <3>1. CASE k = 1
      <4>1. Ent(p, 1) = Ent(q, 2)
        BY <1>1, <1>12, <3>1 DEF Ent
      <4> QED BY <1>11, <1>a, <3>1, <4>1
    <3>2. CASE k # 1
      <4>1. Ent(p, 1) = Ent(q, 1)
        <5>1. 1 \in 1..Len(q) /\ 1 \in 1..(Len(q) - 1) /\ 1 < k
          BY <1>1, <1>7, <3>2
        <5>2. 1 \in 1..Len(p) /\ p[1] = q[1]
          BY <1>12, <5>1
        <5> QED BY <5>1, <5>2 DEF Ent
      <4>2. 0 \in 0..Len(q) /\ 0 # k /\ 0 # k - 1
        BY <1>1, <1>7, <3>2
      <4> QED BY <1>13, <1>a, <4>1, <4>2
    <3> QED BY <3>1, <3>2
  <2>3. ASSUME NEW j \in 1..Len(p)
        PROVE  /\ g[p[j]].next = Ent(p, j + 1)
               /\ g[p[j]].prev = IF j = 1 THEN b ELSE p[j - 1]
    <3>4. j # 1 => j - 1 \in 1..(Len(q) - 1)
      BY <1>1, <1>12
    <3>5. j # 1 => p[j - 1] = IF j - 1 < k THEN q[j - 1] ELSE q[j]
      BY <1>1, <1>12, <3>4
    <3>6. j \in 1..Len(q) /\ j \in 1..(Len(q) - 1)
      BY <1>1, <1>12
    <3>7. j # 1 => Place(j - 1) = q[j - 1] /\ Place(j) = q[j]
      BY <1>a, <3>4, <3>6
    <3>8. j = 1 => Place(j - 1) = b
      BY <1>a
    <3>1. CASE j < k - 1
      <4>1. j # k /\ j # k - 1 /\ j # k + 1 /\ p[j] = q[j]
        BY <1>7, <1>12, <3>1, <3>6
      <4>2. Ent(p, j + 1) = Ent(q, j + 1)
        <5>1. j + 1 \in 1..Len(q) /\ j + 1 \in 1..(Len(q) - 1) /\ j + 1 < k
          BY <1>1, <1>7, <3>1, <3>6
        <5>2. j + 1 \in 1..Len(p) /\ p[j + 1] = q[j + 1]
          BY <1>12, <5>1
        <5> QED BY <5>1, <5>2 DEF Ent
      <4>3. Place(j - 1) = IF j = 1 THEN b ELSE p[j - 1]
        BY <1>7, <3>1, <3>5, <3>7, <3>8
      <4> QED BY <1>13, <1>14, <1>a, <3>6, <4>1, <4>2, <4>3
    <3>2. CASE j = k - 1
      <4>1. j # k /\ j # k + 1 /\ p[j] = q[j]
        BY <1>7, <1>12, <3>2, <3>6
      <4>2. Ent(p, j + 1) = Ent(q, k + 1)
        BY <1>1, <1>7, <1>12, <3>2 DEF Ent
      <4>3. Place(j - 1) = IF j = 1 THEN b ELSE p[j - 1]
        BY <1>7, <3>2, <3>5, <3>7, <3>8
      <4>4. g[p[j]].next = Ent(p, j + 1)
        BY <1>11, <1>a, <3>2, <3>6, <4>1, <4>2
      <4> QED BY <1>14, <3>6, <4>1, <4>3, <4>4
    <3>3. CASE j >= k
      <4>1. /\ j + 1 \in 1..Len(q) /\ j + 1 # k /\ j + 1 # k - 1 /\ p[j] = q[j + 1]
            /\ Ent(p, j + 1) = Ent(q, (j + 1) + 1)
        BY <1>1, <1>7, <1>12, <3>3 DEF Ent
      <4>2. g[p[j]].next = Ent(p, j + 1)
        BY <1>13, <1>a, <4>1
      <4>3. CASE j = k
        <5>1. Place(k - 1) = IF j = 1 THEN b ELSE p[j - 1]
          BY <1>1, <1>7, <1>12, <4>3 DEF Place
        <5> QED BY <1>14, <4>1, <4>2, <4>3, <5>1
      <4>4. CASE j # k
        <5>1. /\ Place((j + 1) - 1) = IF j = 1 THEN b ELSE p[j - 1]
              /\ j + 1 # k + 1
          BY <1>7, <3>3, <3>5, <3>7, <3>8, <4>4
        <5> QED BY <1>14, <4>1, <4>2, <5>1
      <4> QED BY <4>3, <4>4
    <3> QED BY <1>7, <1>12, <3>1, <3>2, <3>3
  <2> QED BY <1>12, <2>1, <2>2, <2>3 DEF Linked
<1> QED BY <1>11, <1>15, <1>16 DEF g, p, n

-----------------------------------------------------------------------------
(* Following pointers.                                                     *)

(* The members of a sequence, and that none is in it twice. *)
Elems(s) == {s[k] : k \in 1..Len(s)}
NoneTwice(s) == \A j, k \in 1..Len(s) : s[j] = s[k] => j = k

(* The steps of a walk. *)
Steps == 0..(Cardinality(Nodes) + 1)

(* The k-th entry of q, or where a walk through q ends. *)
Stop(q, k, end) == IF k \in 1..Len(q) THEN q[k] ELSE end

(* Following field from a struct leads through q to end. *)
Reads(h, field, from, q, end) ==
  /\ q \in Seq(Nodes) /\ NoneTwice(q) /\ end \notin Nodes
  /\ h[from][field] = Stop(q, 1, end)
  /\ \A k \in 1..Len(q) : h[q[k]][field] = Stop(q, k + 1, end)

WalkOn(h, field, from, w, k) ==
  IF k = 0 THEN <<h[from][field]>>
  ELSE LET q == w[k - 1]
       IN IF Last(q) \in Nodes THEN Append(q, h[Last(q)][field]) ELSE q
Walked(h, field, from, w) == w = [k \in Steps |-> WalkOn(h, field, from, w, k)]
WalkOf(h, field, from) == CHOOSE w : Walked(h, field, from, w)

(* Walk is the end of that walk, or Lost if the walk did not end. *)
LEMMA WalkIs ==
  ASSUME NEW h, NEW field, NEW from, NEW end
  PROVE  Walk(h, field, from, end) =
           LET all == WalkOf(h, field, from)[Cardinality(Nodes) + 1]
           IN IF Last(all) = end THEN Front(all) ELSE Lost
  BY DEF Walk, WalkOf, Walked, WalkOn, Steps

(* No entry is in a sequence twice: it is no longer than there are entries. *)
LEMMA NoneTwiceLength ==
  ASSUME NEW q \in Seq(Nodes), NoneTwice(q)
  PROVE  Len(q) \in Nat /\ Len(q) <= Cardinality(Nodes) /\ Cardinality(Nodes) \in Nat
<1>1. /\ Len(q) \in Nat
      /\ \A k \in 1..Len(q) : q[k] \in Nodes
      /\ \A j, k \in 1..Len(q) : q[j] = q[k] => j = k
  BY DEF NoneTwice
<1> DEFINE f == [k \in 1..Len(q) |-> q[k]]
<1>2. f \in Injection(1..Len(q), Nodes)
  BY <1>1 DEF Injection, IsInjective
<1>3. IsFiniteSet(Nodes)
  BY HashAssumption
<1> HIDE DEF f
<1>4. Cardinality(1..Len(q)) <= Cardinality(Nodes)
  BY <1>2, <1>3, FS_Injection
<1>5. Cardinality(1..Len(q)) = Len(q)
  <2>1. 1 \in Int /\ Len(q) \in Int
    BY <1>1
  <2>2. Cardinality(1..Len(q)) = IF 1 > Len(q) THEN 0 ELSE Len(q) - 1 + 1
    BY <2>1, FS_Interval
  <2> QED BY <1>1, <2>2
<1>6. Cardinality(Nodes) \in Nat
  BY <1>3, FS_CardinalityType
<1> QED BY <1>1, <1>4, <1>5, <1>6

(* What the walk has read after k steps. *)
Far(q, k) == IF k < Len(q) THEN k + 1 ELSE Len(q) + 1
SoFar(q, k, end) == [i \in 1..Far(q, k) |-> Stop(q, i, end)]

(* SoFar is a sequence, and its last member is where the walk is. *)
LEMMA SoFarFacts ==
  ASSUME NEW q \in Seq(Nodes), NEW end, NEW k \in Nat
  PROVE  /\ SoFar(q, k, end) \in Seq(Nodes \union {end})
         /\ Len(SoFar(q, k, end)) = Far(q, k)
         /\ \A i \in 1..Far(q, k) : SoFar(q, k, end)[i] = Stop(q, i, end)
         /\ Last(SoFar(q, k, end)) = Stop(q, Far(q, k), end)
<1> DEFINE m == Far(q, k)
           s == SoFar(q, k, end)
<1>1. Len(q) \in Nat /\ \A i \in 1..Len(q) : q[i] \in Nodes
  OBVIOUS
<1>2. m \in Nat \ {0}
  BY <1>1 DEF Far
<1>3. s = [i \in 1..m |-> Stop(q, i, end)]
  BY DEF SoFar
<1> HIDE DEF m
<1>4. \A i \in 1..m : Stop(q, i, end) \in Nodes \union {end}
  BY <1>1 DEF Stop
<1>5. s \in [1..m -> Nodes \union {end}]
  BY <1>3, <1>4
<1> HIDE DEF s
<1>6. s \in Seq(Nodes \union {end}) /\ Len(s) = m
  BY <1>2, <1>5, FunIsSeq
<1>7. \A i \in 1..m : s[i] = Stop(q, i, end)
  BY <1>3
<1>8. Last(s) = Stop(q, m, end)
  BY <1>2, <1>6, <1>7 DEF Last
<1> QED BY <1>6, <1>7, <1>8 DEF m, s

(* One step of the walk reads one entry more, until it is at the end. *)
LEMMA SoFarStep ==
  ASSUME NEW h, NEW field, NEW from, NEW q, NEW end, Reads(h, field, from, q, end),
         NEW k \in Nat \ {0}
  PROVE  SoFar(q, k, end) =
           LET s == SoFar(q, k - 1, end)
           IN IF Last(s) \in Nodes THEN Append(s, h[Last(s)][field]) ELSE s
<1> DEFINE s == SoFar(q, k - 1, end)
           t == SoFar(q, k, end)
<1>1. /\ q \in Seq(Nodes) /\ Len(q) \in Nat /\ \A i \in 1..Len(q) : q[i] \in Nodes
      /\ end \notin Nodes
  BY DEF Reads
<1>2. k - 1 \in Nat
  OBVIOUS
<1>3. CASE k - 1 < Len(q)
  <2>1. /\ s \in Seq(Nodes \union {end}) /\ Len(s) = k /\ Last(s) = q[k]
        /\ \A i \in 1..k : s[i] = Stop(q, i, end)
    <3>1. Far(q, k - 1) = k /\ Stop(q, k, end) = q[k]
      BY <1>1, <1>2, <1>3 DEF Far, Stop
    <3>2. /\ s \in Seq(Nodes \union {end}) /\ Len(s) = Far(q, k - 1)
          /\ \A i \in 1..Far(q, k - 1) : s[i] = Stop(q, i, end)
          /\ Last(s) = Stop(q, Far(q, k - 1), end)
      BY <1>1, <1>2, SoFarFacts
    <3> QED BY <3>1, <3>2
  <2> DEFINE next == Stop(q, k + 1, end)
  <2>2. h[Last(s)][field] = next
    <3>1. k \in 1..Len(q)
      BY <1>1, <1>2, <1>3
    <3>2. h[q[k]][field] = next
      BY <3>1 DEF Reads
    <3> QED BY <2>1, <3>2
  <2>3. next \in Nodes \union {end}
    BY <1>1 DEF Stop
  <2>4. /\ t \in Seq(Nodes \union {end}) /\ Len(t) = k + 1
        /\ \A i \in 1..(k + 1) : t[i] = Stop(q, i, end)
    <3>1. Far(q, k) = k + 1
      BY <1>1, <1>3 DEF Far
    <3> QED BY <1>1, <3>1, SoFarFacts
  <2>5. t[k + 1] = next
    BY <2>4
  <2> HIDE DEF s, t, next
  <2>6. t = Append(s, next)
    <3>1. /\ Append(s, next) \in Seq(Nodes \union {end})
          /\ Len(Append(s, next)) = k + 1 /\ Append(s, next)[k + 1] = next
          /\ \A i \in 1..k : Append(s, next)[i] = s[i]
      BY <2>1, <2>3
    <3>2. \A i \in 1..(k + 1) : i \in 1..k \/ i = k + 1
      OBVIOUS
    <3>3. \A i \in 1..(k + 1) : t[i] = Append(s, next)[i]
      BY <2>1, <2>4, <2>5, <3>1, <3>2
    <3> QED BY <2>4, <3>1, <3>3, SeqEqual
  <2>7. Last(s) \in Nodes
    BY <1>1, <1>2, <1>3, <2>1
  <2> QED BY <2>2, <2>6, <2>7 DEF s, t
<1>4. CASE ~ (k - 1 < Len(q))
  <2>1. Far(q, k - 1) = Len(q) + 1 /\ Far(q, k) = Len(q) + 1 /\ Stop(q, Len(q) + 1, end) = end
    BY <1>1, <1>4 DEF Far, Stop
  <2>2. Last(s) = end
    <3>1. Last(s) = Stop(q, Far(q, k - 1), end)
      BY <1>1, <1>2, SoFarFacts
    <3> QED BY <2>1, <3>1
  <2>3. t = s
    BY <2>1 DEF SoFar
  <2> QED BY <1>1, <2>2, <2>3
<1> QED BY <1>3, <1>4

(* Following the pointers reads that sequence. *)
LEMMA WalkReads ==
  ASSUME NEW h, NEW field, NEW from, NEW q, NEW end, Reads(h, field, from, q, end)
  PROVE  Walk(h, field, from, end) = q
<1> DEFINE N == Cardinality(Nodes) + 1
           w == WalkOf(h, field, from)
           v == [k \in Steps |-> SoFar(q, k, end)]
<1>1. /\ q \in Seq(Nodes) /\ Len(q) \in Nat /\ \A i \in 1..Len(q) : q[i] \in Nodes
      /\ end \notin Nodes /\ h[from][field] = Stop(q, 1, end) /\ NoneTwice(q)
  BY DEF Reads
<1>2. N \in Nat /\ Len(q) < N /\ Steps = 0..N
  BY <1>1, NoneTwiceLength DEF Steps
<1> HIDE DEF N
<1>3. SoFar(q, 0, end) = <<h[from][field]>>
  <2>1. 0 \in Nat /\ 1 \in 1..1 /\ Far(q, 0) = 1
    BY <1>1 DEF Far
  <2>2. /\ SoFar(q, 0, end) \in Seq(Nodes \union {end}) /\ Len(SoFar(q, 0, end)) = 1
        /\ SoFar(q, 0, end)[1] = Stop(q, 1, end)
    BY <1>1, <2>1, SoFarFacts
  <2> QED BY <1>1, <2>2
<1>4. Walked(h, field, from, v)
  <2>1. ASSUME NEW k \in Steps PROVE SoFar(q, k, end) = WalkOn(h, field, from, v, k)
    <3>1. CASE k = 0
      BY <1>3, <3>1 DEF WalkOn
    <3>2. CASE k # 0
      <4>1. k \in Nat \ {0} /\ k - 1 \in Steps
        BY <1>2, <3>2
      <4>2. v[k - 1] = SoFar(q, k - 1, end)
        BY <4>1
      <4> HIDE DEF v
      <4> QED BY <3>2, <4>1, <4>2, SoFarStep DEF WalkOn
    <3> QED BY <3>1, <3>2
  <2>2. v = [k \in Steps |-> WalkOn(h, field, from, v, k)]
    BY <2>1
  <2> HIDE DEF v
  <2> QED BY <2>2 DEF Walked
<1>5. Walked(h, field, from, w)
  <2> HIDE DEF v
  <2> QED BY <1>4 DEF WalkOf
<1> HIDE DEF v, w
<1>6. \A k \in Steps : w[k] = WalkOn(h, field, from, w, k)
  <2>1. w = [k \in Steps |-> WalkOn(h, field, from, w, k)]
    BY <1>5 DEF Walked
  <2> QED BY <2>1
<1>7. \A k \in Steps : w[k] = SoFar(q, k, end)
  <2> DEFINE Other == {k \in Steps : w[k] # SoFar(q, k, end)}
  <2>1. SUFFICES ASSUME NEW n \in Other PROVE FALSE
    OBVIOUS
  <2>2. Other \in SUBSET Nat
    BY <1>2
  <2>3. PICK m \in Other : \A k \in Other : m <= k
    BY <2>2, Least
  <2>4. m \in Steps /\ w[m] # SoFar(q, m, end) /\ m \in Nat
    BY <1>2, <2>3
  <2>5. CASE m = 0
    BY <1>3, <1>6, <2>4, <2>5 DEF WalkOn
  <2>6. CASE m # 0
    <3>1. m - 1 \in Steps /\ m \in Nat \ {0}
      BY <1>2, <2>4, <2>6
    <3>2. w[m - 1] = SoFar(q, m - 1, end)
      BY <2>3, <2>4, <3>1
    <3>3. w[m] = WalkOn(h, field, from, w, m)
      BY <1>6, <2>4
    <3> QED BY <2>4, <2>6, <3>1, <3>2, <3>3, SoFarStep DEF WalkOn
  <2> QED BY <2>5, <2>6
<1>8. /\ w[N] \in Seq(Nodes \union {end}) /\ Len(w[N]) = Len(q) + 1
      /\ \A i \in 1..(Len(q) + 1) : w[N][i] = Stop(q, i, end)
      /\ Last(w[N]) = end
  <2>1. N \in Steps
    BY <1>2
  <2>2. w[N] = SoFar(q, N, end)
    BY <1>7, <2>1
  <2>3. Stop(q, Len(q) + 1, end) = end /\ Far(q, N) = Len(q) + 1
    BY <1>1, <1>2 DEF Stop, Far
  <2>4. /\ SoFar(q, N, end) \in Seq(Nodes \union {end}) /\ Len(SoFar(q, N, end)) = Far(q, N)
        /\ \A i \in 1..Far(q, N) : SoFar(q, N, end)[i] = Stop(q, i, end)
        /\ Last(SoFar(q, N, end)) = Stop(q, Far(q, N), end)
    BY <1>1, <1>2, SoFarFacts
  <2> QED BY <2>2, <2>3, <2>4
<1>9. Front(w[N]) = q
  <2>1. Front(w[N]) = SubSeq(w[N], 1, Len(q))
    BY <1>1, <1>8 DEF Front
  <2>2. /\ SubSeq(w[N], 1, Len(q)) \in Seq(Nodes \union {end})
        /\ Len(SubSeq(w[N], 1, Len(q))) = Len(q)
        /\ \A i \in 1..Len(q) : SubSeq(w[N], 1, Len(q))[i] = w[N][i]
    BY <1>1, <1>8
  <2>3. \A i \in 1..Len(q) : SubSeq(w[N], 1, Len(q))[i] = q[i]
    BY <1>1, <1>8, <2>2 DEF Stop
  <2>4. q \in Seq(Nodes \union {end})
    BY <1>1
  <2> QED BY <1>1, <2>1, <2>2, <2>3, <2>4, SeqEqual
<1>10. Walk(h, field, from, end) = IF Last(w[N]) = end THEN Front(w[N]) ELSE Lost
  BY WalkIs DEF w, N
<1> QED BY <1>8, <1>9, <1>10

(* A chain is read as such. *)
LEMMA LinkedReads ==
  ASSUME NEW h, NEW b, NEW q, Linked(h, b, q)
  PROVE  HEntries(h, b) = q
<1>1. Reads(h, "next", b, q, NULL)
  BY ListAssumption DEF Reads, Linked, NoneTwice, Stop, Ent
<1> QED BY <1>1, WalkReads DEF HEntries

-----------------------------------------------------------------------------
(* _key_to_index returns a bucket.                                         *)

(* Its recursion: the hash of the first i characters. *)
IndexStep(key, f, i) ==
  IF i = 1 THEN key[1] ELSE (f[i - 1] * (Multiplier + key[i])) % Int32Mod
IsIndex(key, f) == f = [i \in 1..Len(key) |-> IndexStep(key, f, i)]
TheIndex(key) == CHOOSE f : IsIndex(key, f)

(* _key_to_index is the mask of what the recursion ends with. *)
LEMMA KeyToIndexIs ==
  ASSUME NEW key
  PROVE  _key_to_index(key) =
           LET top == (TheIndex(key)[Len(key)] * 32) \div Int32Mod
           IN (IF top >= 16 THEN top - 32 ELSE top) % bucket_max_len
  BY DEF _key_to_index, TheIndex, IsIndex, IndexStep

(* A step of the recursion makes an integer of an integer. *)
LEMMA IndexStepType ==
  ASSUME NEW key \in Seq(Nat), NEW i \in 1..Len(key), NEW f,
         i # 1 => f[i - 1] \in Int
  PROVE  IndexStep(key, f, i) \in Int
<1>1. key[i] \in Nat /\ key[1] \in Nat /\ Multiplier \in Nat /\ Int32Mod \in Nat \ {0}
  BY HashAssumption
<1>2. CASE i = 1
  BY <1>1, <1>2 DEF IndexStep
<1>3. CASE i # 1
  <2>1. f[i - 1] * (Multiplier + key[i]) \in Int
    BY <1>1, <1>3
  <2>2. \A x \in Int : x % Int32Mod \in Int
    BY <1>1
  <2> QED BY <1>3, <2>1, <2>2 DEF IndexStep
<1> QED BY <1>2, <1>3

(* The recursion has a solution: it can be extended by one character after another. *)
LEMMA IndexExists ==
  ASSUME NEW key \in Seq(Nat)
  PROVE  \E f : IsIndex(key, f)
<1> DEFINE Upto(n) == \E f \in [1..n -> Int] : \A i \in 1..n : f[i] = IndexStep(key, f, i)
           Failing == {n \in 0..Len(key) : ~ Upto(n)}
<1>1. Len(key) \in Nat
  OBVIOUS
<1>2. Failing = {}
  <2>1. SUFFICES ASSUME NEW n \in Failing PROVE FALSE
    OBVIOUS
  <2>2. Failing \in SUBSET Nat
    BY <1>1
  <2>3. PICK m \in Failing : \A k \in Failing : m <= k
    BY <2>2, Least
  <2>4. m \in 0..Len(key) /\ ~ Upto(m)
    BY <2>3
  <2>5. CASE m = 0
    <3>1. [i \in 1..0 |-> 0] \in [1..m -> Int] /\ 1..m = {}
      BY <2>5
    <3> QED BY <2>4, <3>1
  <2>6. CASE m # 0
    <3>1. m - 1 \in 0..Len(key) /\ m \in 1..Len(key) /\ ~ (m <= m - 1)
      BY <1>1, <2>4, <2>6
    <3>2. Upto(m - 1)
      BY <2>3, <3>1
    <3>3. PICK f \in [1..(m - 1) -> Int] :
            \A i \in 1..(m - 1) : f[i] = IndexStep(key, f, i)
      BY <3>2
    <3> DEFINE g == [i \in 1..m |-> IF i = m THEN IndexStep(key, f, m) ELSE f[i]]
    <3>4. m # 1 => f[m - 1] \in Int
      BY <3>1, <3>3
    <3>5. IndexStep(key, f, m) \in Int
      BY <3>1, <3>4, IndexStepType
    <3>6. g \in [1..m -> Int]
      BY <3>1, <3>3, <3>5
    <3>7. ASSUME NEW i \in 1..m PROVE g[i] = IndexStep(key, g, i)
      <4>1. i # 1 => g[i - 1] = f[i - 1]
        BY <3>1
      <4>2. IndexStep(key, g, i) = IndexStep(key, f, i)
        BY <4>1 DEF IndexStep
      <4>3. i # m => i \in 1..(m - 1)
        BY <3>1
      <4> QED BY <3>3, <4>2, <4>3
    <3> HIDE DEF g
    <3> QED BY <2>4, <3>6, <3>7
  <2> QED BY <2>5, <2>6
<1>3. Len(key) \in 0..Len(key)
  BY <1>1
<1>4. Upto(Len(key))
  BY <1>2, <1>3
<1>5. PICK f \in [1..Len(key) -> Int] : \A i \in 1..Len(key) : f[i] = IndexStep(key, f, i)
  BY <1>4
<1>6. f = [i \in 1..Len(key) |-> IndexStep(key, f, i)]
  BY <1>5
<1> QED BY <1>6 DEF IsIndex

(* Every key that is not empty has one of the buckets. *)
LEMMA KeyToIndexType ==
  ASSUME NEW key \in Seq(Nat) \ {<<>>}
  PROVE  _key_to_index(key) \in Heads
<1> DEFINE f == TheIndex(key)
           Failing == {i \in 1..Len(key) : f[i] \notin Int}
<1>1. key \in Seq(Nat) /\ Len(key) \in Nat \ {0}
  BY EmptySeq
<1>2. IsIndex(key, f)
  BY <1>1, IndexExists DEF TheIndex
<1> HIDE DEF f
<1>3. \A i \in 1..Len(key) : f[i] = IndexStep(key, f, i)
  <2>1. f = [i \in 1..Len(key) |-> IndexStep(key, f, i)]
    BY <1>2 DEF IsIndex
  <2> QED BY <2>1
<1>4. Failing = {}
  <2>1. SUFFICES ASSUME NEW n \in Failing PROVE FALSE
    OBVIOUS
  <2>2. Failing \in SUBSET Nat
    BY <1>1
  <2>3. PICK m \in Failing : \A k \in Failing : m <= k
    BY <2>2, Least
  <2>4. m \in 1..Len(key) /\ f[m] \notin Int
    BY <2>3
  <2>5. m # 1 => f[m - 1] \in Int
    BY <1>1, <2>3, <2>4
  <2> QED BY <1>1, <1>3, <2>4, <2>5, IndexStepType
<1>5. f[Len(key)] \in Int
  BY <1>1, <1>4
<1> DEFINE top == (f[Len(key)] * 32) \div Int32Mod
<1>6. top \in Int
  BY <1>5, HashAssumption
<1> HIDE DEF top
<1>7. bucket_max_len \in Nat \ {0}
  BY HashAssumption
<1>8. \A x \in Int : x % bucket_max_len \in 0..(bucket_max_len - 1)
  BY <1>7
<1>9. _key_to_index(key) = (IF top >= 16 THEN top - 32 ELSE top) % bucket_max_len
  BY KeyToIndexIs DEF top, f
<1>10. Heads = 0..(bucket_max_len - 1)
  BY HashAssumption
<1>11. (IF top >= 16 THEN top - 32 ELSE top) \in Int
  BY <1>6
<1> QED BY <1>8, <1>9, <1>10, <1>11

-----------------------------------------------------------------------------
(* The inductive invariant.                                                *)

(* Where a thread is, and what it knows of its call. *)
Pcs == {"idle", "lock", "scan", "unlock", "unlock_add", "init", "lock_add"}

Calls == [pc : Pcs, op : {"none", "add", "del", "get"}, id : AllIds \union {NULL},
          val : Vals \union {NULL}, pos : Nodes \union {NULL},
          n : Nodes \union {NULL}]

(* Types of all that changes. *)
TypeOK == /\ heap \in Heaps
          /\ item \in [Nodes -> [id : AllIds, val : Vals] \union {NoItem}]
          /\ mutex \in [Heads -> Threads \union {NULL}]
          /\ thr \in [Threads -> Calls]
          /\ status \in {"up", "crashed", "final", "gone"}

(* A thread asks for keys of its own. *)
CallOwn(r, t) == r.pc # "idle" => r.id \in AllIds /\ t \in Users(r.id) /\ r.val \in Vals
CallsOwn == \A t \in Threads : CallOwn(thr[t], t)

(* A bucket's mutex is held by the thread that walks its chain, or has. *)
Holds(r, b) == r.pc \in {"scan", "unlock", "unlock_add"} /\ Bucket(r.id) = b
MutexHeld == \A t \in Threads, b \in Heads : mutex[b] = t <=> Holds(thr[t], b)

(* An item that is not linked yet is one thread's, with its key and value. *)
InHand ==
  \A t \in Threads : thr[t].pc = "lock_add" =>
    /\ thr[t].pos \in Nodes
    /\ item[thr[t].pos] = [id |-> thr[t].id, val |-> thr[t].val]
    /\ \A u \in Threads : thr[u].pc = "lock_add" /\ thr[u].pos = thr[t].pos => u = t

(* Nothing runs while the hash is destroyed; then every bucket is empty. *)
Over == /\ status \in {"final", "gone"} => \A t \in Threads : thr[t].pc = "idle"
        /\ status = "gone" => \A b \in Heads : heap[b].next = NULL

(* The threads that did not find a key and add it; with its entries they are
   no more than the key has users. *)
Adds(r, id) == r.pc \in {"unlock_add", "init", "lock_add"} /\ r.id = id
Adders(id) == {t \in Threads : Adds(thr[t], id)}
Counted == \A id \in AllIds :
  Cardinality(ItemsOf(id)) + Cardinality(Adders(id)) <= Cardinality(Users(id))

(* The chains are c, of allocated items of their bucket. *)
Whole(c) ==
  /\ c \in [Heads -> Seq(Nodes)]
  /\ \A b \in Heads : Linked(heap, b, c[b])
  /\ \A b \in Heads : \A k \in 1..Len(c[b]) :
       item[c[b][k]] # NoItem /\ Bucket(item[c[b][k]].id) = b

(* Item a is in one of the chains c. *)
Listed(a, c) == \E b \in Heads : \E k \in 1..Len(c[b]) : c[b][k] = a

(* An allocated item is in a chain or in a thread's hand. *)
AllListed(c) ==
  \A a \in Nodes : item[a] # NoItem =>
    \/ Listed(a, c)
    \/ \E t \in Threads : thr[t].pc = "lock_add" /\ thr[t].pos = a

(* It is not in both. *)
HandApart(c) == \A t \in Threads : thr[t].pc = "lock_add" => ~ Listed(thr[t].pos, c)

(* The cursor r is at an entry of q or at its end, knows the entry behind it,
   and what it has passed has another key. *)
CursorAt(it, r, q) ==
  \E k \in 1..(Len(q) + 1) :
    /\ r.pos = Ent(q, k)
    /\ r.pos # NULL => r.n = Ent(q, k + 1)
    /\ \A j \in 1..(k - 1) : it[q[j]].id # r.id

(* So is every thread in its bucket. *)
Scanned(c) == \A t \in Threads : thr[t].pc = "scan" =>
                CursorAt(item, thr[t], c[Bucket(thr[t].id)])

(* The chains of all buckets. *)
Chains == [b \in Heads |-> Chain(b)]

(* The invariant, of given chains and of those there are. *)
Inv(c) == /\ TypeOK /\ CallsOwn /\ MutexHeld /\ InHand /\ Over /\ Counted
          /\ Whole(c) /\ AllListed(c) /\ HandApart(c) /\ Scanned(c)
IInv == Inv(Chains)

(* Every key has a bucket. *)
LEMMA BucketType ==
  ASSUME NEW id \in AllIds
  PROVE  Bucket(id) \in Heads
<1>1. PICK t \in Threads : \E k \in Keys[t] : id = Id(k)
  BY DEF AllIds
<1>3. PICK k \in Keys[t] : id = Id(k)
  BY <1>1
<1>2. k \in Seq(Nat) \ {<<>>}
  BY HashAssumption
<1> QED BY <1>2, <1>3, KeyToIndexType DEF Id, Bucket

(* The users of a key can be counted. *)
LEMMA UsersFinite ==
  ASSUME NEW id
  PROVE  IsFiniteSet(Users(id)) /\ Cardinality(Users(id)) \in Nat
<1>1. Users(id) \in SUBSET Threads
  BY DEF Users
<1> QED BY <1>1, HashAssumption, FS_Subset, FS_CardinalityType

(* So can its entries and the threads that add it, before and after a step. *)
LEMMA SetsFinite ==
  ASSUME NEW id
  PROVE  /\ IsFiniteSet(ItemsOf(id)) /\ IsFiniteSet(ItemsOf(id)')
         /\ IsFiniteSet(Adders(id)) /\ IsFiniteSet(Adders(id)')
<1>1. ItemsOf(id) \in SUBSET Nodes /\ ItemsOf(id)' \in SUBSET Nodes
  BY DEF ItemsOf, Live
<1>2. Adders(id) \in SUBSET Threads /\ Adders(id)' \in SUBSET Threads
  BY DEF Adders
<1> QED BY <1>1, <1>2, HashAssumption, FS_Subset

(* Fewer entries and fewer adders of every key keep the count. *)
LEMMA CountKeeps ==
  ASSUME Counted,
         \A id \in AllIds : ItemsOf(id)' \subseteq ItemsOf(id),
         \A id \in AllIds : Adders(id)' \subseteq Adders(id)
  PROVE  Counted'
<1>1. ASSUME NEW id \in AllIds
      PROVE  Cardinality(ItemsOf(id)') + Cardinality(Adders(id)') <= Cardinality(Users(id))
  <2>1. /\ IsFiniteSet(ItemsOf(id)) /\ IsFiniteSet(ItemsOf(id)')
        /\ IsFiniteSet(Adders(id)) /\ IsFiniteSet(Adders(id)')
    BY SetsFinite
  <2>2. ItemsOf(id)' \in SUBSET ItemsOf(id) /\ Adders(id)' \in SUBSET Adders(id)
    OBVIOUS
  <2>3. Cardinality(ItemsOf(id)') <= Cardinality(ItemsOf(id))
    BY <2>1, <2>2, FS_Subset
  <2>4. Cardinality(Adders(id)') <= Cardinality(Adders(id))
    BY <2>1, <2>2, FS_Subset
  <2>5. /\ Cardinality(ItemsOf(id)) \in Nat /\ Cardinality(ItemsOf(id)') \in Nat
        /\ Cardinality(Adders(id)) \in Nat /\ Cardinality(Adders(id)') \in Nat
        /\ Cardinality(Users(id)) \in Nat
    BY <2>1, FS_CardinalityType, UsersFinite
  <2>6. Cardinality(ItemsOf(id)) + Cardinality(Adders(id)) <= Cardinality(Users(id))
    BY DEF Counted
  <2> QED BY <2>3, <2>4, <2>5, <2>6
<1> QED BY <1>1 DEF Counted

(* The entries of a key depend on the items and on who has one in hand. *)
LEMMA ItemsSame ==
  ASSUME NEW id, item' = item, \A u \in Threads : Unlinked(u)' = Unlinked(u)
  PROVE  ItemsOf(id)' = ItemsOf(id)
  BY DEF ItemsOf, Live

(* A step that changes no pointer and no item. *)
LEMMA ThrStep ==
  ASSUME NEW c, Inv(c), NEW t \in Threads, NEW r \in Calls, status = "up",
         thr' = [thr EXCEPT ![t] = r], UNCHANGED <<heap, item>>,
         status' \in {"up", "crashed"},
         mutex' \in [Heads -> Threads \union {NULL}], MutexHeld',
         CallOwn(r, t), thr[t].pc # "lock_add", r.pc # "lock_add",
         r.pc = "scan" => CursorAt(item, r, c[Bucket(r.id)]),
         Counted'
  PROVE  Inv(c)'
<1>1. /\ TypeOK /\ CallsOwn /\ InHand /\ Whole(c) /\ AllListed(c) /\ HandApart(c)
      /\ Scanned(c)
  BY DEF Inv
<1>2. thr'[t] = r /\ \A u \in Threads : u # t => thr'[u] = thr[u]
  BY <1>1 DEF TypeOK
<1>3. \A u \in Threads : thr'[u].pc = "lock_add" <=> thr[u].pc = "lock_add"
  BY <1>2
<1>4. \A u \in Threads : thr'[u].pc = "lock_add" => thr'[u] = thr[u]
  BY <1>2
<1>5. TypeOK'
  BY <1>1 DEF TypeOK
<1>6. CallsOwn'
  BY <1>1, <1>2 DEF CallsOwn
<1>7. InHand'
  BY <1>1, <1>3, <1>4 DEF InHand
<1>8. Over'
  BY DEF Over
<1>9. Whole(c)'
  BY <1>1 DEF Whole
<1>10. AllListed(c)'
  BY <1>1, <1>3, <1>4 DEF AllListed, Listed
<1>11. HandApart(c)'
  BY <1>1, <1>4 DEF HandApart, Listed
<1>12. Scanned(c)'
  <2>1. ASSUME NEW u \in Threads, thr'[u].pc = "scan"
        PROVE  CursorAt(item, thr'[u], c[Bucket(thr'[u].id)])
    BY <1>1, <1>2, <2>1 DEF Scanned
  <2> QED BY <2>1 DEF Scanned
<1> QED BY <1>5, <1>6, <1>7, <1>8, <1>9, <1>10, <1>11, <1>12 DEF Inv

(* HEntries reads the chains that the pointers make. *)
LEMMA ChainsAre ==
  ASSUME NEW h, NEW c \in [Heads -> Seq(Nodes)], \A b \in Heads : Linked(h, b, c[b])
  PROVE  [b \in Heads |-> HEntries(h, b)] = c
  BY LinkedReads

(* What holds of some chains holds of those HEntries reads. *)
LEMMA InvIsIInv == ASSUME NEW c, Inv(c)' PROVE IInv'
<1>1. Whole(c)'
  BY DEF Inv
<1>2. c \in [Heads -> Seq(Nodes)] /\ \A b \in Heads : Linked(heap', b, c[b])
  BY <1>1 DEF Whole
<1>3. Chains' = [b \in Heads |-> HEntries(heap', b)]
  BY DEF Chains, Chain
<1>4. Chains' = c
  BY <1>2, <1>3, ChainsAre
<1> QED BY <1>4 DEF IInv

(* Two threads do not hold one mutex. *)
LEMMA UniqueHolder ==
  ASSUME MutexHeld, NEW t \in Threads, NEW u \in Threads, NEW b \in Heads,
         Holds(thr[t], b), Holds(thr[u], b)
  PROVE  t = u
  BY DEF MutexHeld

-----------------------------------------------------------------------------
(* Each action preserves the invariant.                                    *)

(* A call begins with a key of the caller's. *)
LEMMA StepCall ==
  ASSUME NEW c, Inv(c), NEW t \in Threads, Call(t)
  PROVE  Inv(c)'
<1>1. /\ TypeOK /\ MutexHeld /\ Counted
  BY DEF Inv
<1>2. /\ status = "up" /\ thr[t].pc = "idle" /\ UNCHANGED <<heap, item, mutex, status>>
  BY DEF Call, At
<1>3. PICK op \in {"add", "del", "get"}, v \in Vals :
        \E key \in Keys[t] :
          thr' = [thr EXCEPT ![t] =
                     [Idle EXCEPT !.pc = "lock", !.op = op, !.id = Id(key), !.val = v]]
  BY DEF Call
<1>4. PICK key \in Keys[t] :
          thr' = [thr EXCEPT ![t] =
                     [Idle EXCEPT !.pc = "lock", !.op = op, !.id = Id(key), !.val = v]]
  BY <1>3
<1> DEFINE r == [Idle EXCEPT !.pc = "lock", !.op = op, !.id = Id(key), !.val = v]
<1>5. Id(key) \in AllIds /\ t \in Users(Id(key))
  BY DEF AllIds, Users
<1>6. r \in Calls /\ r.pc = "lock" /\ r.id = Id(key) /\ r.val = v
  BY <1>5 DEF Calls, Pcs, Idle
<1>7. thr' = [thr EXCEPT ![t] = r]
  BY <1>4
<1> HIDE DEF r
<1>8. CallOwn(r, t)
  BY <1>5, <1>6 DEF CallOwn
<1>9. thr'[t] = r /\ \A u \in Threads : u # t => thr'[u] = thr[u]
  BY <1>1, <1>7 DEF TypeOK
<1>10. MutexHeld'
  BY <1>1, <1>2, <1>6, <1>9 DEF MutexHeld, Holds
<1>11. Counted'
  <2>1. \A id \in AllIds : ItemsOf(id)' = ItemsOf(id)
    BY <1>2, <1>6, <1>9, ItemsSame DEF Unlinked
  <2>2. \A id \in AllIds : Adders(id)' \subseteq Adders(id)
    BY <1>6, <1>9 DEF Adders, Adds
  <2> QED BY <1>1, <2>1, <2>2, CountKeeps
<1> QED BY <1>1, <1>2, <1>6, <1>7, <1>8, <1>10, <1>11, ThrStep DEF TypeOK

(* GoTo changes where the thread is and keeps what it knows. *)
LEMMA GoToIs ==
  ASSUME TypeOK, NEW t \in Threads, NEW pc \in Pcs, GoTo(t, pc)
  PROVE  \E r \in Calls : /\ thr' = [thr EXCEPT ![t] = r]
                          /\ r.pc = pc /\ r.id = thr[t].id /\ r.val = thr[t].val
                          /\ r.pos = thr[t].pos
<1> DEFINE r == [thr[t] EXCEPT !.pc = pc]
<1>1. thr[t] \in Calls /\ thr \in [Threads -> Calls]
  BY DEF TypeOK
<1>2. thr' = [thr EXCEPT ![t] = r]
  BY DEF GoTo
<1>3. /\ r \in Calls /\ r.pc = pc /\ r.id = thr[t].id /\ r.val = thr[t].val
      /\ r.pos = thr[t].pos
  BY <1>1 DEF Calls
<1> HIDE DEF r
<1> QED BY <1>2, <1>3

(* Cursor reads the entry behind the one it is set to. *)
LEMMA CursorIs ==
  ASSUME TypeOK, NEW t \in Threads, NEW a \in Nodes \union {NULL},
         a # NULL => heap[a].next \in Nodes \union {NULL}, Cursor(t, a)
  PROVE  \E r \in Calls : /\ thr' = [thr EXCEPT ![t] = r]
                          /\ r.pc = "scan" /\ r.id = thr[t].id /\ r.val = thr[t].val
                          /\ r.pos = a /\ (a # NULL => r.n = heap[a].next)
<1>1. thr[t] \in Calls /\ thr \in [Threads -> Calls]
  BY DEF TypeOK
<1> DEFINE nx == IF a = NULL THEN NULL ELSE heap[a].next
           r == [thr[t] EXCEPT !.pc = "scan", !.pos = a, !.n = nx]
<1>2. thr' = [thr EXCEPT ![t] = r]
  BY DEF Cursor
<1>3. nx \in Nodes \union {NULL} /\ (a # NULL => nx = heap[a].next)
  OBVIOUS
<1> HIDE DEF nx
<1>4. /\ r \in Calls /\ r.pc = "scan" /\ r.id = thr[t].id /\ r.val = thr[t].val
      /\ r.pos = a /\ r.n = nx
  BY <1>1, <1>3 DEF Calls, Pcs
<1> HIDE DEF r
<1> QED BY <1>2, <1>3, <1>4

(* The mutex was free, and the cursor is at the first entry. *)
LEMMA StepLock ==
  ASSUME NEW c, Inv(c), NEW t \in Threads, Lock(t)
  PROVE  Inv(c)'
<1>1. /\ TypeOK /\ MutexHeld /\ Counted /\ CallsOwn /\ Whole(c)
  BY DEF Inv
<1> DEFINE b == Bucket(thr[t].id)
           q == c[b]
           a == heap[b].next
<1>2. /\ status = "up" /\ thr[t].pc = "lock" /\ UNCHANGED <<heap, item, status>>
      /\ mutex[b] = NULL /\ mutex' = [mutex EXCEPT ![b] = t]
      /\ Cursor(t, a)
  BY DEF Lock, At, Acquire
<1>3. thr[t].id \in AllIds /\ t \in Users(thr[t].id) /\ thr[t].val \in Vals
  BY <1>1, <1>2 DEF CallsOwn, CallOwn
<1>4. b \in Heads
  BY <1>3, BucketType
<1>5. /\ Linked(heap, b, q) /\ q \in Seq(Nodes) /\ Len(q) \in Nat
      /\ \A k \in 1..Len(q) : q[k] \in Nodes
      /\ a = Ent(q, 1) /\ NULL \notin Nodes
  BY <1>1, <1>4, ListAssumption DEF Whole, Linked
<1>6. /\ a \in Nodes \union {NULL}
      /\ a # NULL => heap[a].next = Ent(q, 2)
      /\ a # NULL => heap[a].next \in Nodes \union {NULL}
  <2>1. CASE Len(q) = 0
    BY <1>5, <2>1 DEF Ent
  <2>2. CASE Len(q) # 0
    <3>1. 1 \in 1..Len(q) /\ a = q[1]
      BY <1>5, <2>2 DEF Ent
    <3>2. heap[a].next = Ent(q, 1 + 1)
      BY <1>5, <3>1 DEF Linked
    <3> QED BY <1>5, <3>1, <3>2 DEF Ent
  <2> QED BY <2>1, <2>2
<1> HIDE DEF b, q, a
<1>7. PICK r \in Calls : /\ thr' = [thr EXCEPT ![t] = r]
                         /\ r.pc = "scan" /\ r.id = thr[t].id /\ r.val = thr[t].val
                         /\ r.pos = a /\ (a # NULL => r.n = heap[a].next)
  BY <1>1, <1>2, <1>6, CursorIs, Zenon
<1>8. CallOwn(r, t)
  BY <1>3, <1>7 DEF CallOwn
<1>9. thr'[t] = r /\ \A u \in Threads : u # t => thr'[u] = thr[u]
  BY <1>1, <1>7 DEF TypeOK
<1>10. mutex' \in [Heads -> Threads \union {NULL}]
  BY <1>1, <1>2 DEF TypeOK
<1>11. MutexHeld'
  <2>1. ASSUME NEW u \in Threads, NEW d \in Heads
        PROVE  mutex'[d] = u <=> Holds(thr'[u], d)
    <3>1. mutex'[d] = IF d = b THEN t ELSE mutex[d]
      BY <1>1, <1>2 DEF TypeOK
    <3>2. Holds(r, d) <=> d = b
      BY <1>7 DEF Holds, b
    <3>3. ~ Holds(thr[t], d)
      BY <1>2 DEF Holds
    <3>4. mutex[d] = u <=> Holds(thr[u], d)
      BY <1>1 DEF MutexHeld
    <3>5. u # NULL
      BY HashAssumption
    <3> QED BY <1>2, <1>9, <3>1, <3>2, <3>3, <3>4, <3>5
  <2> QED BY <2>1 DEF MutexHeld
<1>12. Counted'
  <2>1. \A id \in AllIds : ItemsOf(id)' = ItemsOf(id)
    BY <1>2, <1>7, <1>9, ItemsSame DEF Unlinked
  <2>2. \A id \in AllIds : Adders(id)' \subseteq Adders(id)
    BY <1>7, <1>9 DEF Adders, Adds
  <2> QED BY <1>1, <2>1, <2>2, CountKeeps
<1>13. CursorAt(item, r, c[Bucket(r.id)])
  <2>1. 1 \in 1..(Len(q) + 1) /\ r.pos = Ent(q, 1) /\ (r.pos # NULL => r.n = Ent(q, 1 + 1))
        /\ \A j \in 1..(1 - 1) : item[q[j]].id # r.id
    BY <1>5, <1>6, <1>7
  <2>2. CursorAt(item, r, q)
    BY <2>1 DEF CursorAt
  <2> QED BY <1>7, <2>2 DEF q, b
<1> QED BY <1>1, <1>2, <1>7, <1>8, <1>10, <1>11, <1>12, <1>13, ThrStep DEF TypeOK

(* The entry the cursor passes has another key, and the next one is known. *)
LEMMA StepStep ==
  ASSUME NEW c, Inv(c), NEW t \in Threads, Step(t)
  PROVE  Inv(c)'
<1>1. /\ TypeOK /\ MutexHeld /\ Counted /\ CallsOwn /\ Whole(c) /\ Scanned(c)
  BY DEF Inv
<1> DEFINE b == Bucket(thr[t].id)
           q == c[b]
           a == thr[t].n
<1>2. /\ status = "up" /\ thr[t].pc = "scan" /\ UNCHANGED <<heap, item, mutex, status>>
      /\ thr[t].pos # NULL /\ item[thr[t].pos].id # thr[t].id
      /\ Cursor(t, a)
  BY DEF Step, At
<1>3. thr[t].id \in AllIds /\ t \in Users(thr[t].id) /\ thr[t].val \in Vals
  BY <1>1, <1>2 DEF CallsOwn, CallOwn
<1>4. b \in Heads
  BY <1>3, BucketType
<1>5. /\ Linked(heap, b, q) /\ q \in Seq(Nodes) /\ Len(q) \in Nat
      /\ \A k \in 1..Len(q) : q[k] \in Nodes
      /\ NULL \notin Nodes
  BY <1>1, <1>4, ListAssumption DEF Whole, Linked
<1>6. PICK k \in 1..(Len(q) + 1) :
        /\ thr[t].pos = Ent(q, k)
        /\ thr[t].pos # NULL => thr[t].n = Ent(q, k + 1)
        /\ \A j \in 1..(k - 1) : item[q[j]].id # thr[t].id
  BY <1>1, <1>2 DEF Scanned, CursorAt
<1> HIDE DEF b, q
<1>7. k \in 1..Len(q) /\ thr[t].pos = q[k] /\ a = Ent(q, k + 1)
  BY <1>2, <1>5, <1>6 DEF Ent
<1>8. k + 1 \in 1..(Len(q) + 1) /\ \A j \in 1..((k + 1) - 1) : item[q[j]].id # thr[t].id
  BY <1>2, <1>5, <1>6, <1>7
<1>9. /\ a \in Nodes \union {NULL}
      /\ a # NULL => heap[a].next = Ent(q, (k + 1) + 1)
      /\ a # NULL => heap[a].next \in Nodes \union {NULL}
  <2>1. CASE k = Len(q)
    BY <1>5, <1>7, <2>1 DEF Ent
  <2>2. CASE k # Len(q)
    <3>1. k + 1 \in 1..Len(q) /\ a = q[k + 1]
      BY <1>5, <1>7, <2>2 DEF Ent
    <3>2. heap[a].next = Ent(q, (k + 1) + 1)
      BY <1>5, <3>1 DEF Linked
    <3> QED BY <1>5, <3>1, <3>2 DEF Ent
  <2> QED BY <2>1, <2>2
<1>a. a = Ent(q, k + 1)
  BY <1>7
<1> HIDE DEF a
<1>10. PICK r \in Calls : /\ thr' = [thr EXCEPT ![t] = r]
                          /\ r.pc = "scan" /\ r.id = thr[t].id /\ r.val = thr[t].val
                          /\ r.pos = a /\ (a # NULL => r.n = heap[a].next)
  BY <1>1, <1>2, <1>9, CursorIs, Zenon
<1>11. CallOwn(r, t)
  BY <1>3, <1>10 DEF CallOwn
<1>12. thr'[t] = r /\ \A u \in Threads : u # t => thr'[u] = thr[u]
  BY <1>1, <1>10 DEF TypeOK
<1>13. MutexHeld'
  BY <1>1, <1>2, <1>10, <1>12 DEF MutexHeld, Holds
<1>14. Counted'
  <2>1. \A id \in AllIds : ItemsOf(id)' = ItemsOf(id)
    BY <1>2, <1>10, <1>12, ItemsSame DEF Unlinked
  <2>2. \A id \in AllIds : Adders(id)' \subseteq Adders(id)
    BY <1>10, <1>12 DEF Adders, Adds
  <2> QED BY <1>1, <2>1, <2>2, CountKeeps
<1>15. CursorAt(item, r, c[Bucket(r.id)])
  <2>1. r.pos = Ent(q, k + 1) /\ (r.pos # NULL => r.n = Ent(q, (k + 1) + 1))
        /\ \A j \in 1..((k + 1) - 1) : item[q[j]].id # r.id
    BY <1>8, <1>9, <1>10, <1>a
  <2>2. CursorAt(item, r, q)
    BY <1>8, <2>1 DEF CursorAt
  <2> QED BY <1>10, <2>2 DEF q, b
<1> QED BY <1>1, <1>2, <1>10, <1>11, <1>13, <1>14, <1>15, ThrStep DEF TypeOK

(* Only the status changes. *)
LEMMA StepReplace ==
  ASSUME NEW c, Inv(c), NEW t \in Threads, FoundReplace(t)
  PROVE  Inv(c)'
<1>1. /\ TypeOK /\ MutexHeld /\ Counted /\ CallsOwn /\ Scanned(c)
  BY DEF Inv
<1>2. /\ status = "up" /\ thr[t].pc = "scan" /\ status' = "crashed"
      /\ UNCHANGED <<heap, item, mutex, thr>>
  BY DEF FoundReplace, Found, At
<1>3. thr[t] \in Calls /\ thr' = [thr EXCEPT ![t] = thr[t]]
  BY <1>1, <1>2 DEF TypeOK
<1>4. MutexHeld'
  BY <1>1, <1>2 DEF MutexHeld
<1>5. Counted'
  BY <1>1, <1>2 DEF Counted, ItemsOf, Live, Unlinked, Adders
<1>6. CallOwn(thr[t], t) /\ CursorAt(item, thr[t], c[Bucket(thr[t].id)])
  BY <1>1, <1>2 DEF CallsOwn, Scanned
<1> QED BY <1>1, <1>2, <1>3, <1>4, <1>5, <1>6, ThrStep DEF TypeOK

(* Nothing but the thread changes. *)
LEMMA StepGet ==
  ASSUME NEW c, Inv(c), NEW t \in Threads, FoundGet(t)
  PROVE  Inv(c)'
<1>1. /\ TypeOK /\ MutexHeld /\ Counted /\ CallsOwn
  BY DEF Inv
<1>2. /\ status = "up" /\ thr[t].pc = "scan" /\ UNCHANGED <<heap, item, mutex, status>>
      /\ GoTo(t, "unlock") /\ "unlock" \in Pcs
  BY DEF FoundGet, Found, At, Pcs
<1>3. PICK r \in Calls : /\ thr' = [thr EXCEPT ![t] = r]
                         /\ r.pc = "unlock" /\ r.id = thr[t].id /\ r.val = thr[t].val
                         /\ r.pos = thr[t].pos
  BY <1>1, <1>2, GoToIs, Zenon
<1>4. CallOwn(r, t)
  BY <1>1, <1>2, <1>3 DEF CallsOwn, CallOwn
<1>5. thr'[t] = r /\ \A u \in Threads : u # t => thr'[u] = thr[u]
  BY <1>1, <1>3 DEF TypeOK
<1>6. MutexHeld'
  BY <1>1, <1>2, <1>3, <1>5 DEF MutexHeld, Holds
<1>7. Counted'
  <2>1. \A id \in AllIds : ItemsOf(id)' = ItemsOf(id)
    BY <1>2, <1>3, <1>5, ItemsSame DEF Unlinked
  <2>2. \A id \in AllIds : Adders(id)' \subseteq Adders(id)
    BY <1>3, <1>5 DEF Adders, Adds
  <2> QED BY <1>1, <2>1, <2>2, CountKeeps
<1> QED BY <1>1, <1>2, <1>3, <1>4, <1>6, <1>7, ThrStep DEF TypeOK

(* The walk came to the end: the bucket has no item of the key. *)
LEMMA NoneThere ==
  ASSUME NEW c, Inv(c), NEW t \in Threads, thr[t].pc = "scan", thr[t].pos = NULL
  PROVE  ItemsOf(thr[t].id) = {}
<1>1. /\ TypeOK /\ CallsOwn /\ Whole(c) /\ Scanned(c) /\ AllListed(c)
  BY DEF Inv
<1> DEFINE b == Bucket(thr[t].id)
           q == c[b]
<1>2. b \in Heads
  BY <1>1, BucketType DEF CallsOwn, CallOwn
<1>3. /\ q \in Seq(Nodes) /\ Len(q) \in Nat /\ NULL \notin Nodes
      /\ \A k \in 1..Len(q) : q[k] \in Nodes
  BY <1>1, <1>2, ListAssumption DEF Whole
<1>4. PICK k \in 1..(Len(q) + 1) :
        /\ thr[t].pos = Ent(q, k)
        /\ \A j \in 1..(k - 1) : item[q[j]].id # thr[t].id
  BY <1>1 DEF Scanned, CursorAt
<1>5. k = Len(q) + 1
  BY <1>3, <1>4 DEF Ent
<1>6. \A j \in 1..Len(q) : item[q[j]].id # thr[t].id
  BY <1>3, <1>4, <1>5
<1>7. SUFFICES ASSUME NEW a \in ItemsOf(thr[t].id) PROVE FALSE
  OBVIOUS
<1>8. /\ a \in Nodes /\ item[a] # NoItem /\ item[a].id = thr[t].id
      /\ \A u \in Threads : ~ (thr[u].pc = "lock_add" /\ thr[u].pos = a)
  BY DEF ItemsOf, Live, Unlinked
<1>9. PICK d \in Heads : \E j \in 1..Len(c[d]) : c[d][j] = a
  BY <1>1, <1>8 DEF AllListed, Listed
<1>10. PICK j \in 1..Len(c[d]) : c[d][j] = a
  BY <1>9
<1>11. d = b
  BY <1>1, <1>8, <1>10 DEF Whole
<1> QED BY <1>6, <1>8, <1>10, <1>11

(* An add that found nothing is counted: there is no entry, and whoever adds
   the key is one of its users. *)
LEMMA StepMissed ==
  ASSUME NEW c, Inv(c), NEW t \in Threads, Missed(t)
  PROVE  Inv(c)'
<1> DEFINE pc == IF thr[t].op = "add" THEN "unlock_add" ELSE "unlock"
<1>1. /\ TypeOK /\ MutexHeld /\ Counted /\ CallsOwn
  BY DEF Inv
<1>2. /\ status = "up" /\ thr[t].pc = "scan" /\ UNCHANGED <<heap, item, mutex, status>>
      /\ GoTo(t, pc) /\ thr[t].pos = NULL
  BY DEF Missed, At
<1>a. pc \in {"unlock_add", "unlock"} /\ pc \in Pcs
  BY DEF Pcs
<1> HIDE DEF pc
<1>3. PICK r \in Calls : /\ thr' = [thr EXCEPT ![t] = r]
                         /\ r.pc = pc /\ r.id = thr[t].id /\ r.val = thr[t].val
                         /\ r.pos = thr[t].pos
  BY <1>1, <1>2, <1>a, GoToIs, Zenon
<1>4. CallOwn(r, t) /\ thr[t].id \in AllIds /\ t \in Users(thr[t].id)
  BY <1>1, <1>2, <1>3 DEF CallsOwn, CallOwn
<1>5. thr'[t] = r /\ \A u \in Threads : u # t => thr'[u] = thr[u]
  BY <1>1, <1>3 DEF TypeOK
<1>6. MutexHeld'
  BY <1>1, <1>2, <1>a, <1>3, <1>5 DEF MutexHeld, Holds
<1>7. \A id \in AllIds : ItemsOf(id)' = ItemsOf(id)
  BY <1>2, <1>a, <1>3, <1>5, ItemsSame DEF Unlinked
<1>8. Counted'
  <2>1. ASSUME NEW id \in AllIds
        PROVE  Cardinality(ItemsOf(id)') + Cardinality(Adders(id)') <= Cardinality(Users(id))
    <3>1. CASE id = thr[t].id
      <4>1. ItemsOf(id)' = {}
        BY <1>2, <1>7, <3>1, NoneThere
      <4>2. Adders(id)' \in SUBSET Users(id)
        <5>1. ASSUME NEW u \in Threads, Adds(thr'[u], id) PROVE u \in Users(id)
          <6>1. CASE u = t
            BY <1>4, <3>1, <6>1
          <6>2. CASE u # t
            BY <1>1, <1>5, <5>1, <6>2 DEF Adds, CallsOwn, CallOwn
          <6> QED BY <6>1, <6>2
        <5> QED BY <5>1 DEF Adders
      <4>3. Cardinality(Adders(id)') <= Cardinality(Users(id))
        BY <4>2, UsersFinite, FS_Subset
      <4>4. Cardinality(Adders(id)') \in Nat /\ Cardinality(Users(id)) \in Nat
        BY SetsFinite, UsersFinite, FS_CardinalityType
      <4> QED BY <4>1, <4>3, <4>4, FS_EmptySet
    <3>2. CASE id # thr[t].id
      <4>1. Adders(id)' = Adders(id)
        BY <1>2, <1>3, <1>5, <3>2 DEF Adders, Adds
      <4> QED BY <1>1, <1>7, <4>1 DEF Counted
    <3> QED BY <3>1, <3>2
  <2> QED BY <2>1 DEF Counted
<1> QED BY <1>1, <1>2, <1>a, <1>3, <1>4, <1>6, <1>8, ThrStep DEF TypeOK

(* The thread gives up the mutex it held. *)
LEMMA StepUnlocked ==
  ASSUME NEW c, Inv(c), NEW t \in Threads, Unlocked(t) \/ UnlockedAdd(t)
  PROVE  Inv(c)'
<1> DEFINE b == Bucket(thr[t].id)
<1>1. /\ TypeOK /\ MutexHeld /\ Counted /\ CallsOwn
  BY DEF Inv
<1>2. /\ status = "up" /\ thr[t].pc \in {"unlock", "unlock_add"}
      /\ UNCHANGED <<heap, item, status>>
      /\ mutex' = [mutex EXCEPT ![b] = NULL]
  BY DEF Unlocked, UnlockedAdd, At, Unlock
<1>3. /\ thr[t].id \in AllIds /\ b \in Heads
      /\ t \in Users(thr[t].id) /\ thr[t].val \in Vals
  BY <1>1, <1>2, BucketType DEF CallsOwn, CallOwn
<1>4. PICK r \in Calls :
        /\ thr' = [thr EXCEPT ![t] = r]
        /\ r.pc = "idle" \/ (r.pc = "init" /\ r.id = thr[t].id /\ r.val = thr[t].val
                             /\ thr[t].pc = "unlock_add")
  <2>1. CASE Unlocked(t)
    <3>1. Idle \in Calls /\ Idle.pc = "idle" /\ thr' = [thr EXCEPT ![t] = Idle]
      BY <2>1 DEF Unlocked, Return, Idle, Calls, Pcs
    <3> QED BY <3>1
  <2>2. CASE UnlockedAdd(t)
    <3>1. GoTo(t, "init") /\ "init" \in Pcs /\ thr[t].pc = "unlock_add"
      BY <2>2 DEF UnlockedAdd, Pcs, At
    <3>2. PICK r \in Calls : /\ thr' = [thr EXCEPT ![t] = r]
                             /\ r.pc = "init" /\ r.id = thr[t].id /\ r.val = thr[t].val
                             /\ r.pos = thr[t].pos
      BY <1>1, <3>1, GoToIs, Zenon
    <3> QED BY <3>1, <3>2
  <2> QED BY <2>1, <2>2
<1>5. CallOwn(r, t)
  BY <1>3, <1>4 DEF CallOwn
<1>6. thr'[t] = r /\ \A u \in Threads : u # t => thr'[u] = thr[u]
  BY <1>1, <1>4 DEF TypeOK
<1>7. mutex' \in [Heads -> Threads \union {NULL}]
  BY <1>1, <1>2 DEF TypeOK
<1>8. MutexHeld'
  <2>1. ASSUME NEW u \in Threads, NEW d \in Heads
        PROVE  mutex'[d] = u <=> Holds(thr'[u], d)
    <3>1. mutex'[d] = IF d = b THEN NULL ELSE mutex[d]
      BY <1>1, <1>2 DEF TypeOK
    <3>2. ~ Holds(r, d)
      BY <1>4 DEF Holds
    <3>3. Holds(thr[t], d) <=> d = b
      BY <1>2 DEF Holds
    <3>4. /\ mutex[d] = u <=> Holds(thr[u], d)
          /\ mutex[d] = t <=> Holds(thr[t], d)
      BY <1>1 DEF MutexHeld
    <3>5. u # NULL
      BY HashAssumption
    <3> HIDE DEF b
    <3> QED BY <1>6, <3>1, <3>2, <3>3, <3>4, <3>5
  <2> QED BY <2>1 DEF MutexHeld
<1>9. Counted'
  <2>1. \A id \in AllIds : ItemsOf(id)' = ItemsOf(id)
    BY <1>2, <1>4, <1>6, ItemsSame DEF Unlinked
  <2>2. \A id \in AllIds : Adders(id)' \subseteq Adders(id)
    BY <1>4, <1>6 DEF Adders, Adds
  <2> QED BY <1>1, <2>1, <2>2, CountKeeps
<1> QED BY <1>1, <1>2, <1>4, <1>5, <1>7, <1>8, <1>9, ThrStep DEF TypeOK

(* An entry is in one chain, at one place. *)
LEMMA OnePlace ==
  ASSUME NEW c, Whole(c), NEW b \in Heads, NEW k \in 1..Len(c[b]),
         NEW e \in Heads, NEW j \in 1..Len(c[e]), c[b][k] = c[e][j]
  PROVE  b = e /\ k = j
<1>1. b = e
  BY DEF Whole
<1> QED BY <1>1 DEF Whole, Linked

(* The chains without one entry of one of them. *)
Without(c, b, k) == [c EXCEPT ![b] = Cut(c[b], k)]

(* What that does to the chain and to the others. *)
LEMMA WithoutFacts ==
  ASSUME NEW c \in [Heads -> Seq(Nodes)], NEW b \in Heads, NEW k \in 1..Len(c[b])
  PROVE  /\ Without(c, b, k) \in [Heads -> Seq(Nodes)]
         /\ Without(c, b, k)[b] = Cut(c[b], k)
         /\ \A e \in Heads : e # b => Without(c, b, k)[e] = c[e]
<1>1. Cut(c[b], k) \in Seq(Nodes)
  BY CutFacts
<1> QED BY <1>1 DEF Without

(* _del_item_from_list and _traverse_item_list: unlinked and freed. *)
Freed(a) == heap' = hlist_del(heap, a) /\ item' = [item EXCEPT ![a] = NoItem]

(* An item is taken out of its chain and freed. *)
LEMMA DelItem ==
  ASSUME NEW c, TypeOK, Whole(c), NEW b \in Heads, NEW k \in 1..Len(c[b]),
         Freed(c[b][k]),
         NEW d, d = Without(c, b, k)
  PROVE  /\ heap' \in Heaps
         /\ item' \in [Nodes -> [id : AllIds, val : Vals] \union {NoItem}]
         /\ Whole(d)'
         /\ \A a : Listed(a, d) <=> Listed(a, c) /\ a # c[b][k]
         /\ \A e \in Heads : e # b =>
              \A j \in 1..Len(c[e]) : item'[c[e][j]] = item[c[e][j]]
<1> DEFINE q == c[b]
           n == q[k]
           p == Cut(q, k)
<1>1. /\ c \in [Heads -> Seq(Nodes)] /\ \A e \in Heads : Linked(heap, e, c[e])
      /\ \A e \in Heads : \A j \in 1..Len(c[e]) :
           item[c[e][j]] # NoItem /\ Bucket(item[c[e][j]].id) = e
  BY DEF Whole
<1>2. /\ q \in Seq(Nodes) /\ Len(q) \in Nat /\ n \in Nodes
      /\ \A e \in Heads : Len(c[e]) \in Nat /\ \A j \in 1..Len(c[e]) : c[e][j] \in Nodes
  BY <1>1
<1>3. /\ hlist_del(heap, n) \in Heaps /\ Linked(hlist_del(heap, n), b, p)
      /\ \A x \in Structs : x # b /\ (\A j \in 1..Len(q) : q[j] # x)
                => hlist_del(heap, n)[x] = heap[x]
  <2>1. heap \in Heaps /\ Linked(heap, b, q) /\ k \in 1..Len(q)
    BY <1>1 DEF TypeOK
  <2>2. n = q[k]
    OBVIOUS
  <2> HIDE DEF n, q, p
  <2>3. /\ hlist_del(heap, q[k]) \in Heaps /\ Linked(hlist_del(heap, q[k]), b, Cut(q, k))
        /\ \A x \in Structs : x # b /\ (\A j \in 1..Len(q) : q[j] # x)
                => hlist_del(heap, q[k])[x] = heap[x]
    BY <2>1, DelLinks
  <2> QED BY <2>2, <2>3 DEF p
<1>4. /\ p \in Seq(Nodes) /\ Len(p) = Len(q) - 1
      /\ \A j \in 1..(Len(q) - 1) : p[j] = IF j < k THEN q[j] ELSE q[j + 1]
  BY <1>2, CutFacts
<1>5. \A j \in 1..Len(q) : q[j] = n => j = k
  BY OnePlace
<1>6. d[b] = p /\ (\A e \in Heads : e # b => d[e] = c[e]) /\ d \in [Heads -> Seq(Nodes)]
  BY <1>1, WithoutFacts
<1>h. heap' = hlist_del(heap, n) /\ item' = [item EXCEPT ![n] = NoItem]
  BY DEF Freed
<1>e. \A e \in Heads : e # b =>
        \A j \in 1..Len(c[e]) : c[e][j] # n /\ \A m \in 1..Len(q) : q[m] # c[e][j]
  BY OnePlace
<1>q. q = c[b]
  OBVIOUS
<1> HIDE DEF p, n, q
<1>7. /\ item' \in [Nodes -> [id : AllIds, val : Vals] \union {NoItem}]
      /\ \A x \in Nodes : x # n => item'[x] = item[x]
  BY <1>2, <1>h DEF TypeOK
<1>8. \A j \in 1..Len(p) : \E m \in 1..Len(q) : m # k /\ p[j] = q[m]
  <2>1. ASSUME NEW j \in 1..Len(p)
        PROVE  \E m \in 1..Len(q) : m # k /\ p[j] = q[m]
    <3>1. j < k => j \in 1..Len(q) /\ j # k /\ p[j] = q[j]
      BY <1>2, <1>4, <1>q
    <3>2. ~ (j < k) => j + 1 \in 1..Len(q) /\ j + 1 # k /\ p[j] = q[j + 1]
      BY <1>2, <1>4, <1>q
    <3> QED BY <3>1, <3>2
  <2> QED BY <2>1
<1>9. \A m \in 1..Len(q) : m # k => \E j \in 1..Len(p) : p[j] = q[m]
  <2>1. ASSUME NEW m \in 1..Len(q), m # k
        PROVE  \E j \in 1..Len(p) : p[j] = q[m]
    <3>1. m < k => m \in 1..Len(p) /\ p[m] = q[m]
      BY <1>2, <1>4, <1>q
    <3>2. ~ (m < k) => m - 1 \in 1..Len(p) /\ p[m - 1] = q[m]
      BY <1>2, <1>4, <1>q, <2>1
    <3> QED BY <3>1, <3>2
  <2> QED BY <2>1
<1>10. \A e \in Heads : Linked(heap', e, d[e])
  <2>1. ASSUME NEW e \in Heads, e # b PROVE Linked(heap', e, c[e])
    <3>1. Linked(heap, e, c[e])
      BY <1>1
    <3>2. e \in Structs /\ \A j \in 1..Len(c[e]) : c[e][j] \in Structs /\ c[e][j] # b
      BY <1>2, ListAssumption DEF Structs
    <3>3. \A j \in 1..Len(q) : q[j] # e
      BY <1>2, <1>q, ListAssumption
    <3>4. heap'[e] = heap[e]
      BY <1>3, <1>h, <2>1, <3>2, <3>3
    <3>5. \A j \in 1..Len(c[e]) : heap'[c[e][j]] = heap[c[e][j]]
      BY <1>3, <1>h, <1>e, <2>1, <3>2
    <3> QED BY <3>1, <3>4, <3>5, LinkedFrame
  <2> QED BY <1>3, <1>6, <1>h, <2>1
<1>11. \A e \in Heads : \A j \in 1..Len(d[e]) :
         item'[d[e][j]] # NoItem /\ Bucket(item'[d[e][j]].id) = e
  <2>1. ASSUME NEW e \in Heads, e # b, NEW j \in 1..Len(c[e])
        PROVE  item'[c[e][j]] # NoItem /\ Bucket(item'[c[e][j]].id) = e
    <3>1. c[e][j] \in Nodes /\ c[e][j] # n
      BY <1>2, <1>e, <2>1
    <3>2. item'[c[e][j]] = item[c[e][j]]
      BY <1>7, <3>1
    <3> QED BY <1>1, <3>2
  <2>2. ASSUME NEW j \in 1..Len(p)
        PROVE  item'[p[j]] # NoItem /\ Bucket(item'[p[j]].id) = b
    <3>1. PICK m \in 1..Len(q) : m # k /\ p[j] = q[m]
      BY <1>8
    <3>2. p[j] # n /\ p[j] \in Nodes
      BY <1>2, <1>5, <1>q, <3>1
    <3> QED BY <1>1, <1>7, <1>q, <3>1, <3>2
  <2> QED BY <1>6, <2>1, <2>2
<1>12. Whole(d)'
  BY <1>6, <1>10, <1>11 DEF Whole
<1>13. ASSUME NEW a PROVE Listed(a, d) <=> Listed(a, c) /\ a # n
  <2>1. ASSUME Listed(a, d) PROVE Listed(a, c) /\ a # n
    <3>1. PICK e \in Heads : \E j \in 1..Len(d[e]) : d[e][j] = a
      BY <2>1 DEF Listed
    <3>2. CASE e = b
      <4>1. PICK m \in 1..Len(q) : m # k /\ a = q[m]
        BY <1>6, <1>8, <3>1, <3>2
      <4> QED BY <1>5, <1>q, <4>1 DEF Listed
    <3>3. CASE e # b
      BY <1>6, <1>e, <3>1, <3>3 DEF Listed
    <3> QED BY <3>2, <3>3
  <2>2. ASSUME Listed(a, c), a # n PROVE Listed(a, d)
    <3>1. PICK e \in Heads : \E j \in 1..Len(c[e]) : c[e][j] = a
      BY <2>2 DEF Listed
    <3>2. CASE e = b
      <4>1. PICK m \in 1..Len(q) : q[m] = a
        BY <1>q, <3>1, <3>2
      <4>2. m # k
        BY <2>2, <4>1 DEF n
      <4> QED BY <1>6, <1>9, <4>1, <4>2 DEF Listed
    <3>3. CASE e # b
      BY <1>6, <3>1, <3>3 DEF Listed
    <3> QED BY <3>2, <3>3
  <2> QED BY <2>1, <2>2
<1>14. \A e \in Heads : e # b => \A j \in 1..Len(c[e]) : item'[c[e][j]] = item[c[e][j]]
  BY <1>2, <1>7, <1>e
<1>15. heap' \in Heaps
  BY <1>3, <1>h
<1> QED BY <1>6, <1>7, <1>12, <1>13, <1>14, <1>15 DEF p, n, q

(* A cursor does not see what happens to items of other buckets. *)
LEMMA CursorFrame ==
  ASSUME NEW it, NEW jt, NEW r, NEW q \in Seq(Nodes), CursorAt(it, r, q),
         \A j \in 1..Len(q) : jt[q[j]] = it[q[j]]
  PROVE  CursorAt(jt, r, q)
<1>1. Len(q) \in Nat
  OBVIOUS
<1>2. PICK k \in 1..(Len(q) + 1) :
        /\ r.pos = Ent(q, k)
        /\ r.pos # NULL => r.n = Ent(q, k + 1)
        /\ \A j \in 1..(k - 1) : it[q[j]].id # r.id
  BY DEF CursorAt
<1>3. \A j \in 1..(k - 1) : j \in 1..Len(q)
  BY <1>1
<1> QED BY <1>2, <1>3 DEF CursorAt

(* FoundDel takes its item out of the chain whose mutex it holds; the cursors
   of other threads are in other chains. *)
LEMMA StepDel ==
  ASSUME NEW c, Inv(c), NEW t \in Threads, FoundDel(t)
  PROVE  \E d : Inv(d)'
<1>1. /\ TypeOK /\ MutexHeld /\ Counted /\ CallsOwn /\ InHand /\ Whole(c)
      /\ AllListed(c) /\ HandApart(c) /\ Scanned(c)
  BY DEF Inv
<1>b. PICK b : b = Bucket(thr[t].id)
  OBVIOUS
<1>q. PICK q : q = c[b]
  OBVIOUS
<1>n. PICK n : n = thr[t].pos
  OBVIOUS
<1>2. /\ status = "up" /\ thr[t].pc = "scan" /\ UNCHANGED <<mutex, status>>
      /\ n # NULL /\ heap' = hlist_del(heap, n) /\ item' = [item EXCEPT ![n] = NoItem]
      /\ GoTo(t, "unlock") /\ "unlock" \in Pcs
  BY <1>n DEF FoundDel, Found, At, Pcs
<1>3. b \in Heads
  BY <1>b, <1>1, <1>2, BucketType DEF CallsOwn, CallOwn
<1>4. q \in Seq(Nodes) /\ Len(q) \in Nat
  BY <1>1, <1>3, <1>q DEF Whole
<1>5. PICK k \in 1..(Len(q) + 1) : n = Ent(q, k)
  BY <1>1, <1>2, <1>b, <1>q, <1>n DEF Scanned, CursorAt
<1>6. k \in 1..Len(q) /\ n = q[k]
  BY <1>2, <1>4, <1>5, ListAssumption DEF Ent
<1>c. n = c[b][k] /\ k \in 1..Len(c[b])
  BY <1>6, <1>q
<1>d. PICK d : d = Without(c, b, k)
  OBVIOUS
<1>7. /\ heap' \in Heaps
      /\ item' \in [Nodes -> [id : AllIds, val : Vals] \union {NoItem}]
      /\ Whole(d)'
      /\ \A a : Listed(a, d) <=> Listed(a, c) /\ a # c[b][k]
      /\ \A e \in Heads : e # b => d[e] = c[e]
      /\ \A e \in Heads : e # b => \A j \in 1..Len(c[e]) : item'[c[e][j]] = item[c[e][j]]
  <2>1. Freed(c[b][k])
    BY <1>2, <1>c DEF Freed
  <2>2. TypeOK /\ Whole(c) /\ b \in Heads /\ k \in 1..Len(c[b])
    BY <1>1, <1>3, <1>c
  <2>3. \A e \in Heads : e # b => d[e] = c[e]
    BY <1>d, <2>2, WithoutFacts DEF Whole
  <2> QED BY <1>d, <2>1, <2>2, <2>3, DelItem
<1>m. \A a : Listed(a, d) <=> Listed(a, c) /\ a # n
  BY <1>7, <1>c
<1>8. /\ n \in Nodes /\ Listed(n, c)
      /\ \A a \in Nodes : item'[a] = IF a = n THEN NoItem ELSE item[a]
  <2>1. n \in Nodes
    BY <1>4, <1>6
  <2> QED BY <1>1, <1>2, <1>3, <1>c, <1>6, <2>1 DEF Listed, TypeOK
<1>9. PICK r \in Calls : /\ thr' = [thr EXCEPT ![t] = r]
                         /\ r.pc = "unlock" /\ r.id = thr[t].id /\ r.val = thr[t].val
                         /\ r.pos = thr[t].pos
  BY <1>1, <1>2, GoToIs, Zenon
<1>10. thr'[t] = r /\ \A u \in Threads : u # t => thr'[u] = thr[u]
  BY <1>1, <1>9 DEF TypeOK
<1>11. \A u \in Threads : /\ thr'[u].pc = "lock_add" <=> thr[u].pc = "lock_add"
                          /\ thr'[u].pos = thr[u].pos /\ thr'[u].id = thr[u].id
                          /\ thr'[u].val = thr[u].val
  BY <1>2, <1>9, <1>10
<1>12. TypeOK'
  BY <1>1, <1>2, <1>7, <1>9 DEF TypeOK
<1>13. CallsOwn'
  BY <1>1, <1>2, <1>9, <1>10 DEF CallsOwn, CallOwn
<1>14. MutexHeld'
  BY <1>1, <1>2, <1>9, <1>10 DEF MutexHeld, Holds
<1>15. InHand'
  <2>1. ASSUME NEW u \in Threads, thr[u].pc = "lock_add"
        PROVE  thr[u].pos # n /\ thr[u].pos \in Nodes
    BY <1>1, <1>8, <2>1 DEF HandApart, InHand
  <2>2. ASSUME NEW u \in Threads, thr'[u].pc = "lock_add"
        PROVE  /\ thr'[u].pos \in Nodes
               /\ item'[thr'[u].pos] = [id |-> thr'[u].id, val |-> thr'[u].val]
               /\ \A w \in Threads :
                    thr'[w].pc = "lock_add" /\ thr'[w].pos = thr'[u].pos => w = u
    <3>1. thr[u].pc = "lock_add"
      BY <1>11, <2>2
    <3>2. item'[thr[u].pos] = item[thr[u].pos]
      BY <1>8, <2>1, <3>1
    <3>3. item[thr[u].pos] = [id |-> thr[u].id, val |-> thr[u].val] /\ thr[u].pos \in Nodes
      BY <1>1, <3>1 DEF InHand
    <3>4. \A w \in Threads : thr[w].pc = "lock_add" /\ thr[w].pos = thr[u].pos => w = u
      BY <1>1, <3>1 DEF InHand
    <3> QED BY <1>11, <3>2, <3>3, <3>4
  <2> QED BY <2>2 DEF InHand
<1>16. Over'
  BY <1>2 DEF Over
<1>17. Counted'
  <2>1. \A id \in AllIds : ItemsOf(id)' \subseteq ItemsOf(id)
    BY <1>8, <1>11 DEF ItemsOf, Live, Unlinked
  <2>2. \A id \in AllIds : Adders(id)' \subseteq Adders(id)
    BY <1>9, <1>10 DEF Adders, Adds
  <2> QED BY <1>1, <2>1, <2>2, CountKeeps
<1>18. AllListed(d)'
  <2>1. ASSUME NEW a \in Nodes, item'[a] # NoItem
        PROVE  \/ Listed(a, d)
               \/ \E u \in Threads : thr'[u].pc = "lock_add" /\ thr'[u].pos = a
    <3>1. a # n /\ item[a] # NoItem
      BY <1>8, <2>1
    <3>2. \/ Listed(a, c)
          \/ \E u \in Threads : thr[u].pc = "lock_add" /\ thr[u].pos = a
      BY <1>1, <3>1 DEF AllListed
    <3> QED BY <1>m, <1>11, <3>1, <3>2
  <2>2. \A a : Listed(a, d)' = Listed(a, d)
    BY DEF Listed
  <2> QED BY <2>1, <2>2 DEF AllListed
<1>19. HandApart(d)'
  <2>1. \A a : Listed(a, d)' = Listed(a, d)
    BY DEF Listed
  <2>2. ASSUME NEW u \in Threads, thr'[u].pc = "lock_add"
        PROVE  ~ Listed(thr'[u].pos, d)
    BY <1>1, <1>m, <1>11, <2>2 DEF HandApart
  <2> QED BY <2>1, <2>2 DEF HandApart
<1>20. Scanned(d)'
  <2>1. ASSUME NEW u \in Threads, thr'[u].pc = "scan"
        PROVE  CursorAt(item', thr'[u], d[Bucket(thr'[u].id)])
    <3> DEFINE e == Bucket(thr[u].id)
    <3>1. u # t /\ thr'[u] = thr[u] /\ thr[u].pc = "scan"
      BY <1>9, <1>10, <2>1
    <3>2. e \in Heads
      BY <1>1, <3>1, BucketType DEF CallsOwn, CallOwn
    <3>3. e # b
      BY <1>1, <1>2, <1>3, <1>b, <3>1, UniqueHolder DEF Holds, e
    <3>4. d[e] = c[e] /\ \A j \in 1..Len(c[e]) : item'[c[e][j]] = item[c[e][j]]
      BY <1>7, <3>2, <3>3
    <3>5. CursorAt(item, thr[u], c[e])
      BY <1>1, <3>1 DEF Scanned
    <3>6. c[e] \in Seq(Nodes)
      BY <1>1, <3>2 DEF Whole
    <3> HIDE DEF e
    <3>7. CursorAt(item', thr[u], c[e])
      BY <3>4, <3>5, <3>6, CursorFrame
    <3> QED BY <3>1, <3>4, <3>7 DEF e
  <2> QED BY <2>1 DEF Scanned
<1>21. Inv(d)'
  BY <1>7, <1>12, <1>13, <1>14, <1>15, <1>16, <1>17, <1>18, <1>19, <1>20 DEF Inv
<1> QED BY <1>21

(* The new item is in its thread's hand and in no chain. *)
LEMMA StepInit ==
  ASSUME NEW c, Inv(c), NEW t \in Threads, _item_init(t)
  PROVE  Inv(c)'
<1>1. /\ TypeOK /\ MutexHeld /\ Counted /\ CallsOwn /\ InHand /\ Whole(c)
      /\ AllListed(c) /\ HandApart(c) /\ Scanned(c)
  BY DEF Inv
<1>2. /\ status = "up" /\ thr[t].pc = "init" /\ UNCHANGED <<heap, mutex, status>>
  BY DEF _item_init, At
<1>3. PICK a \in Nodes \ Live :
        /\ item' = [item EXCEPT ![a] = [id |-> thr[t].id, val |-> thr[t].val]]
        /\ thr' = [thr EXCEPT ![t].pc = "lock_add", ![t].pos = a]
  BY DEF _item_init
<1>4. a \in Nodes /\ item[a] = NoItem
  BY DEF Live
<1>5. thr[t].id \in AllIds /\ thr[t].val \in Vals /\ t \in Users(thr[t].id)
  BY <1>1, <1>2 DEF CallsOwn, CallOwn
<1>6. PICK r \in Calls : /\ thr' = [thr EXCEPT ![t] = r]
                         /\ r.pc = "lock_add" /\ r.id = thr[t].id
                         /\ r.val = thr[t].val /\ r.pos = a
  <2> DEFINE r == [thr[t] EXCEPT !.pc = "lock_add", !.pos = a]
  <2>1. thr[t] \in Calls /\ thr \in [Threads -> Calls]
    BY <1>1 DEF TypeOK
  <2>2. thr' = [thr EXCEPT ![t] = r]
    BY <1>3, <2>1
  <2>3. /\ r \in Calls /\ r.pc = "lock_add" /\ r.id = thr[t].id
        /\ r.val = thr[t].val /\ r.pos = a
    BY <1>4, <2>1 DEF Calls, Pcs
  <2> HIDE DEF r
  <2> QED BY <2>2, <2>3
<1>7. thr'[t] = r /\ \A u \in Threads : u # t => thr'[u] = thr[u]
  BY <1>1, <1>6 DEF TypeOK
<1>8. /\ item' \in [Nodes -> [id : AllIds, val : Vals] \union {NoItem}]
      /\ item'[a] = [id |-> thr[t].id, val |-> thr[t].val]
      /\ \A x \in Nodes : x # a => item'[x] = item[x]
  BY <1>1, <1>3, <1>4, <1>5 DEF TypeOK
<1>9. item'[a] # NoItem
  <2>1. item'[a].val # NULL
    BY <1>5, <1>8, HashAssumption
  <2> QED BY <2>1 DEF NoItem
<1>10. \A b \in Heads : \A k \in 1..Len(c[b]) :
         c[b][k] \in Nodes /\ c[b][k] # a /\ item'[c[b][k]] = item[c[b][k]]
  <2>1. ASSUME NEW b \in Heads, NEW k \in 1..Len(c[b])
        PROVE  c[b][k] \in Nodes /\ c[b][k] # a
    <3>1. c[b] \in Seq(Nodes) /\ item[c[b][k]] # NoItem
      BY <1>1 DEF Whole
    <3>2. c[b][k] \in Nodes
      BY <3>1
    <3> QED BY <1>4, <3>1, <3>2
  <2> QED BY <1>8, <2>1
<1>11. \A u \in Threads : thr[u].pc = "lock_add" =>
         u # t /\ thr[u].pos \in Nodes /\ thr[u].pos # a
  <2>1. ASSUME NEW u \in Threads, thr[u].pc = "lock_add"
        PROVE  u # t /\ thr[u].pos \in Nodes /\ thr[u].pos # a
    <3>1. u # t
      BY <1>2, <2>1
    <3>2. /\ thr[u].pos \in Nodes /\ thr[u].val \in Vals
          /\ item[thr[u].pos] = [id |-> thr[u].id, val |-> thr[u].val]
      BY <1>1, <2>1 DEF InHand, CallsOwn, CallOwn
    <3>3. item[thr[u].pos].val # NULL
      BY <3>2, HashAssumption
    <3>4. item[a].val = NULL
      BY <1>4 DEF NoItem
    <3> QED BY <3>1, <3>2, <3>3, <3>4
  <2> QED BY <2>1
<1>12. TypeOK'
  BY <1>1, <1>2, <1>6, <1>8 DEF TypeOK
<1>13. CallsOwn'
  BY <1>1, <1>5, <1>6, <1>7 DEF CallsOwn, CallOwn
<1>14. MutexHeld'
  BY <1>1, <1>2, <1>6, <1>7 DEF MutexHeld, Holds
<1>15. InHand'
  <2>1. ASSUME NEW u \in Threads, thr'[u].pc = "lock_add"
        PROVE  /\ thr'[u].pos \in Nodes
               /\ item'[thr'[u].pos] = [id |-> thr'[u].id, val |-> thr'[u].val]
               /\ \A w \in Threads :
                    thr'[w].pc = "lock_add" /\ thr'[w].pos = thr'[u].pos => w = u
    <3>1. CASE u = t
      BY <1>4, <1>6, <1>7, <1>8, <1>11, <3>1
    <3>2. CASE u # t
      <4>1. /\ thr'[u] = thr[u] /\ thr[u].pc = "lock_add" /\ thr[u].pos # a
            /\ item[thr[u].pos] = [id |-> thr[u].id, val |-> thr[u].val]
            /\ thr[u].pos \in Nodes
        BY <1>1, <1>7, <1>11, <2>1, <3>2 DEF InHand
      <4>2. item'[thr[u].pos] = item[thr[u].pos]
        BY <1>8, <4>1
      <4>3. \A w \in Threads :
              thr'[w].pc = "lock_add" /\ thr'[w].pos = thr[u].pos => w = u
        BY <1>1, <1>6, <1>7, <4>1 DEF InHand
      <4> QED BY <4>1, <4>2, <4>3
    <3> QED BY <3>1, <3>2
  <2> QED BY <2>1 DEF InHand
<1>16. Over'
  BY <1>2 DEF Over
<1>17. Counted'
  <2>1. ASSUME NEW id \in AllIds PROVE ItemsOf(id)' \subseteq ItemsOf(id)
    BY <1>6, <1>7, <1>8, <1>9, <1>11 DEF ItemsOf, Live, Unlinked
  <2>2. \A id \in AllIds : Adders(id)' \subseteq Adders(id)
    BY <1>2, <1>6, <1>7 DEF Adders, Adds
  <2> QED BY <1>1, <2>1, <2>2, CountKeeps
<1>18. Whole(c)'
  BY <1>1, <1>2, <1>10 DEF Whole
<1>19. AllListed(c)'
  <2>1. ASSUME NEW x \in Nodes, item'[x] # NoItem
        PROVE  \/ Listed(x, c)
               \/ \E u \in Threads : thr'[u].pc = "lock_add" /\ thr'[u].pos = x
    <3>1. CASE x = a
      BY <1>6, <1>7, <3>1
    <3>2. CASE x # a
      BY <1>1, <1>7, <1>8, <1>11, <2>1, <3>2 DEF AllListed
    <3> QED BY <3>1, <3>2
  <2>2. \A x : Listed(x, c)' = Listed(x, c)
    BY DEF Listed
  <2> QED BY <2>1, <2>2 DEF AllListed
<1>20. HandApart(c)'
  <2>1. ~ Listed(a, c)
    BY <1>10 DEF Listed
  <2>2. \A x : Listed(x, c)' = Listed(x, c)
    BY DEF Listed
  <2>3. ASSUME NEW u \in Threads, thr'[u].pc = "lock_add"
        PROVE  ~ Listed(thr'[u].pos, c)
    BY <1>1, <1>6, <1>7, <2>1, <2>3 DEF HandApart
  <2> QED BY <2>2, <2>3 DEF HandApart
<1>21. Scanned(c)'
  <2>1. ASSUME NEW u \in Threads, thr'[u].pc = "scan"
        PROVE  CursorAt(item', thr'[u], c[Bucket(thr'[u].id)])
    <3>1. u # t /\ thr'[u] = thr[u] /\ thr[u].pc = "scan"
      BY <1>6, <1>7, <2>1
    <3>2. Bucket(thr[u].id) \in Heads
      BY <1>1, <3>1, BucketType DEF CallsOwn, CallOwn
    <3>3. CursorAt(item, thr[u], c[Bucket(thr[u].id)])
      BY <1>1, <3>1 DEF Scanned
    <3> QED BY <1>10, <3>1, <3>2, <3>3, CursorFrame, <1>18 DEF Whole
  <2> QED BY <2>1 DEF Scanned
<1> QED
  BY <1>12, <1>13, <1>14, <1>15, <1>16, <1>17, <1>18, <1>19, <1>20, <1>21 DEF Inv

(* The chains with one more entry at the front of one of them. *)
With(c, b, n) == [c EXCEPT ![b] = Push(n, c[b])]

(* What that does to the chain and to the others. *)
LEMMA WithFacts ==
  ASSUME NEW c \in [Heads -> Seq(Nodes)], NEW b \in Heads, NEW n \in Nodes
  PROVE  /\ With(c, b, n) \in [Heads -> Seq(Nodes)]
         /\ With(c, b, n)[b] = Push(n, c[b])
         /\ \A e \in Heads : e # b => With(c, b, n)[e] = c[e]
<1>1. Push(n, c[b]) \in Seq(Nodes)
  BY PushFacts
<1> QED BY <1>1 DEF With

(* An item is linked at the front of its bucket. *)
LEMMA AddItem ==
  ASSUME NEW c, TypeOK, Whole(c), NEW b \in Heads, NEW n \in Nodes,
         ~ Listed(n, c), item[n] # NoItem, Bucket(item[n].id) = b,
         heap' = hlist_add_head(heap, n, b), item' = item,
         NEW d, d = With(c, b, n)
  PROVE  /\ heap' \in Heaps
         /\ Whole(d)'
         /\ \A a : Listed(a, d) <=> Listed(a, c) \/ a = n
<1> DEFINE q == c[b]
           p == Push(n, q)
<1>1. /\ c \in [Heads -> Seq(Nodes)] /\ \A e \in Heads : Linked(heap, e, c[e])
      /\ \A e \in Heads : \A j \in 1..Len(c[e]) :
           item[c[e][j]] # NoItem /\ Bucket(item[c[e][j]].id) = e
  BY DEF Whole
<1>2. /\ q \in Seq(Nodes) /\ Len(q) \in Nat
      /\ \A e \in Heads : Len(c[e]) \in Nat /\ \A j \in 1..Len(c[e]) : c[e][j] \in Nodes
  BY <1>1
<1>3. \A e \in Heads : \A j \in 1..Len(c[e]) : c[e][j] # n
  BY DEF Listed
<1>4. /\ hlist_add_head(heap, n, b) \in Heaps
      /\ Linked(hlist_add_head(heap, n, b), b, Push(n, q))
      /\ \A x \in Structs :
              x # b /\ x # n /\ (\A k \in 1..Len(q) : q[k] # x)
                => hlist_add_head(heap, n, b)[x] = heap[x]
  <2>1. heap \in Heaps /\ Linked(heap, b, q) /\ \A k \in 1..Len(q) : q[k] # n
    BY <1>1, <1>3 DEF TypeOK
  <2> HIDE DEF q
  <2> QED BY <2>1, AddHeadLinks
<1>5. /\ p \in Seq(Nodes) /\ Len(p) = Len(q) + 1 /\ p[1] = n
      /\ \A k \in 1..Len(q) : p[k + 1] = q[k]
  BY <1>2, PushFacts
<1>6. d[b] = p /\ (\A e \in Heads : e # b => d[e] = c[e]) /\ d \in [Heads -> Seq(Nodes)]
  BY <1>1, WithFacts
<1>q. q = c[b] /\ p = Push(n, q)
  OBVIOUS
<1> HIDE DEF p, q
<1>7. \A j \in 1..Len(p) : p[j] = n \/ \E m \in 1..Len(q) : p[j] = q[m]
  <2>1. ASSUME NEW j \in 1..Len(p), j # 1
        PROVE  j - 1 \in 1..Len(q) /\ p[j] = q[j - 1]
    <3>1. j - 1 \in 1..Len(q) /\ (j - 1) + 1 = j
      BY <1>2, <1>5, <2>1
    <3> QED BY <1>5, <3>1
  <2> QED BY <1>5, <2>1
<1>8. \A m \in 1..Len(q) : \E j \in 1..Len(p) : p[j] = q[m]
  <2>1. ASSUME NEW m \in 1..Len(q) PROVE m + 1 \in 1..Len(p) /\ p[m + 1] = q[m]
    BY <1>2, <1>5
  <2> QED BY <2>1
<1>9. \E j \in 1..Len(p) : p[j] = n
  BY <1>2, <1>5
<1>10. \A e \in Heads : Linked(heap', e, d[e])
  <2>1. ASSUME NEW e \in Heads, e # b PROVE Linked(heap', e, c[e])
    <3>1. Linked(heap, e, c[e])
      BY <1>1
    <3>2. /\ e \in Structs /\ e # n
          /\ \A j \in 1..Len(c[e]) : c[e][j] \in Structs /\ c[e][j] # b /\ c[e][j] # n
      BY <1>2, <1>3, ListAssumption DEF Structs
    <3>3. \A j \in 1..Len(q) : q[j] # e
      BY <1>2, <1>q, ListAssumption
    <3>4. heap'[e] = heap[e]
      BY <1>4, <2>1, <3>2, <3>3
    <3>5. ASSUME NEW j \in 1..Len(c[e]) PROVE heap'[c[e][j]] = heap[c[e][j]]
      <4>1. \A m \in 1..Len(q) : q[m] # c[e][j]
        BY <1>q, <2>1, OnePlace
      <4> QED BY <1>4, <3>2, <4>1
    <3> QED BY <3>1, <3>4, <3>5, LinkedFrame
  <2> QED BY <1>4, <1>6, <1>q, <2>1
<1>11. \A e \in Heads : \A j \in 1..Len(d[e]) :
         item[d[e][j]] # NoItem /\ Bucket(item[d[e][j]].id) = e
  <2>1. ASSUME NEW j \in 1..Len(p)
        PROVE  item[p[j]] # NoItem /\ Bucket(item[p[j]].id) = b
    BY <1>1, <1>7, <1>q
  <2>2. ASSUME NEW e \in Heads, NEW j \in 1..Len(d[e])
        PROVE  item[d[e][j]] # NoItem /\ Bucket(item[d[e][j]].id) = e
    <3>1. CASE e = b
      BY <1>6, <2>1, <2>2, <3>1
    <3>2. CASE e # b
      BY <1>1, <1>6, <2>2, <3>2
    <3> QED BY <3>1, <3>2
  <2> QED BY <2>2
<1>12. Whole(d)'
  BY <1>6, <1>10, <1>11 DEF Whole
<1>13. ASSUME NEW a PROVE Listed(a, d) <=> Listed(a, c) \/ a = n
  <2>1. ASSUME Listed(a, d) PROVE Listed(a, c) \/ a = n
    <3>1. PICK e \in Heads : \E j \in 1..Len(d[e]) : d[e][j] = a
      BY <2>1 DEF Listed
    <3>2. CASE e = b
      <4>1. \E j \in 1..Len(p) : p[j] = a
        BY <1>6, <3>1, <3>2
      <4> QED BY <1>7, <1>q, <4>1 DEF Listed
    <3>3. CASE e # b
      BY <1>6, <3>1, <3>3 DEF Listed
    <3> QED BY <3>2, <3>3
  <2>2. ASSUME Listed(a, c) PROVE Listed(a, d)
    <3>1. PICK e \in Heads : \E j \in 1..Len(c[e]) : c[e][j] = a
      BY <2>2 DEF Listed
    <3> QED BY <1>6, <1>8, <1>q, <3>1 DEF Listed
  <2>3. Listed(n, d)
    BY <1>6, <1>9 DEF Listed
  <2> QED BY <2>1, <2>2, <2>3
<1>14. heap' \in Heaps
  BY <1>4
<1> QED BY <1>12, <1>13, <1>14

(* Nobody walks the chain the item is added to; the adder becomes an entry. *)
LEMMA StepAdd ==
  ASSUME NEW c, Inv(c), NEW t \in Threads, _add_item_to_list(t)
  PROVE  \E d : Inv(d)'
<1>1. /\ TypeOK /\ MutexHeld /\ Counted /\ CallsOwn /\ InHand /\ Whole(c)
      /\ AllListed(c) /\ HandApart(c) /\ Scanned(c)
  BY DEF Inv
<1>b. PICK b : b = Bucket(thr[t].id)
  OBVIOUS
<1>n. PICK n : n = thr[t].pos
  OBVIOUS
<1>i. PICK id : id = thr[t].id
  OBVIOUS
<1>2. /\ status = "up" /\ thr[t].pc = "lock_add" /\ UNCHANGED <<item, status>>
      /\ mutex[b] = NULL /\ mutex' = [mutex EXCEPT ![b] = t]
      /\ heap' = hlist_add_head(heap, n, b)
      /\ GoTo(t, "unlock") /\ "unlock" \in Pcs
  BY <1>b, <1>n DEF _add_item_to_list, Acquire, At, Pcs
<1>3. /\ id \in AllIds /\ thr[t].val \in Vals /\ b \in Heads /\ b = Bucket(id)
  BY <1>b, <1>i, <1>1, <1>2, BucketType DEF CallsOwn, CallOwn
<1>4. /\ n \in Nodes /\ item[n] = [id |-> id, val |-> thr[t].val]
      /\ \A u \in Threads : thr[u].pc = "lock_add" /\ thr[u].pos = n => u = t
      /\ ~ Listed(n, c)
  BY <1>n, <1>i, <1>1, <1>2 DEF InHand, HandApart
<1>5. item[n] # NoItem /\ Bucket(item[n].id) = b
  <2>1. item[n].val # NULL /\ item[n].id = id
    BY <1>3, <1>4, HashAssumption
  <2> QED BY <1>3, <2>1 DEF NoItem
<1>d. PICK d : d = With(c, b, n)
  OBVIOUS
<1>6. /\ heap' \in Heaps
      /\ Whole(d)'
      /\ \A a : Listed(a, d) <=> Listed(a, c) \/ a = n
  BY <1>d, <1>1, <1>2, <1>3, <1>4, <1>5, AddItem
<1>7. \A e \in Heads : e # b => d[e] = c[e]
  BY <1>d, <1>1, <1>3, <1>4, WithFacts DEF Whole
<1>8. PICK r \in Calls : /\ thr' = [thr EXCEPT ![t] = r]
                         /\ r.pc = "unlock" /\ r.id = thr[t].id /\ r.val = thr[t].val
                         /\ r.pos = thr[t].pos
  BY <1>1, <1>2, GoToIs, Zenon
<1>9. thr'[t] = r /\ \A u \in Threads : u # t => thr'[u] = thr[u]
  BY <1>1, <1>8 DEF TypeOK
<1>10. mutex' \in [Heads -> Threads \union {NULL}]
  BY <1>1, <1>2 DEF TypeOK
<1>11. TypeOK'
  BY <1>1, <1>2, <1>6, <1>8, <1>10 DEF TypeOK
<1>12. CallsOwn'
  BY <1>1, <1>2, <1>8, <1>9 DEF CallsOwn, CallOwn
<1>13. MutexHeld'
  <2>1. ASSUME NEW u \in Threads, NEW e \in Heads
        PROVE  mutex'[e] = u <=> Holds(thr'[u], e)
    <3>1. mutex'[e] = IF e = b THEN t ELSE mutex[e]
      BY <1>1, <1>2 DEF TypeOK
    <3>2. Holds(r, e) <=> e = b
      BY <1>8, <1>b DEF Holds
    <3>3. ~ Holds(thr[t], e)
      BY <1>2 DEF Holds
    <3>4. mutex[e] = u <=> Holds(thr[u], e)
      BY <1>1 DEF MutexHeld
    <3>5. u # NULL
      BY HashAssumption
    <3> QED BY <1>2, <1>9, <3>1, <3>2, <3>3, <3>4, <3>5
  <2> QED BY <2>1 DEF MutexHeld
<1>14. InHand'
  <2>1. ASSUME NEW u \in Threads, thr'[u].pc = "lock_add"
        PROVE  /\ thr'[u].pos \in Nodes
               /\ item'[thr'[u].pos] = [id |-> thr'[u].id, val |-> thr'[u].val]
               /\ \A w \in Threads :
                    thr'[w].pc = "lock_add" /\ thr'[w].pos = thr'[u].pos => w = u
    <3>1. u # t /\ thr'[u] = thr[u] /\ thr[u].pc = "lock_add"
      BY <1>8, <1>9, <2>1
    <3>2. \A w \in Threads : thr'[w].pc = "lock_add" => w # t /\ thr'[w] = thr[w]
      BY <1>8, <1>9
    <3> QED BY <1>1, <1>2, <3>1, <3>2 DEF InHand
  <2> QED BY <2>1 DEF InHand
<1>15. Over'
  BY <1>2 DEF Over
<1>16. Counted'
  <2>1. ASSUME NEW i \in AllIds
        PROVE  Cardinality(ItemsOf(i)') + Cardinality(Adders(i)') <= Cardinality(Users(i))
    <3>1. \A a : a \in ItemsOf(i)' <=> a \in ItemsOf(i) \/ (a = n /\ i = id)
      <4>1. \A a \in Nodes : (\A u \in Threads : a \notin Unlinked(u)') <=>
                             a = n \/ \A u \in Threads : a \notin Unlinked(u)
        BY <1>2, <1>4, <1>8, <1>9, <1>n DEF Unlinked
      <4>2. \A a : a \in ItemsOf(i) <=>
              /\ a \in Nodes /\ item[a] # NoItem /\ item[a].id = i
              /\ \A u \in Threads : a \notin Unlinked(u)
        BY DEF ItemsOf, Live
      <4>3. \A a : a \in ItemsOf(i)' <=>
              /\ a \in Nodes /\ item'[a] # NoItem /\ item'[a].id = i
              /\ \A u \in Threads : a \notin Unlinked(u)'
        BY DEF ItemsOf, Live
      <4>4. item[n].id = id
        BY <1>4
      <4> QED BY <1>2, <1>4, <1>5, <4>1, <4>2, <4>3, <4>4
    <3>2. CASE i # id
      <4>1. ItemsOf(i)' = ItemsOf(i)
        BY <3>1, <3>2
      <4>2. Adders(i)' = Adders(i)
        BY <1>8, <1>9, <1>i, <3>2 DEF Adders, Adds
      <4> QED BY <1>1, <4>1, <4>2 DEF Counted
    <3>3. CASE i = id
      <4>1. ItemsOf(i)' = ItemsOf(i) \union {n}
        BY <3>1, <3>3
      <4>2. Adders(i)' = Adders(i) \ {t} /\ t \in Adders(i)
        BY <1>2, <1>8, <1>9, <1>i, <3>3 DEF Adders, Adds
      <4>3. n \notin ItemsOf(i)
        BY <1>2, <1>n DEF ItemsOf, Unlinked
      <4>4. /\ IsFiniteSet(ItemsOf(i)) /\ IsFiniteSet(Adders(i))
            /\ Cardinality(ItemsOf(i)) \in Nat /\ Cardinality(Adders(i)) \in Nat
            /\ Cardinality(Users(i)) \in Nat
        BY SetsFinite, FS_CardinalityType, UsersFinite
      <4>5. Cardinality(ItemsOf(i)') = Cardinality(ItemsOf(i)) + 1
        BY <4>1, <4>3, <4>4, FS_AddElement
      <4>6. Cardinality(Adders(i)') = Cardinality(Adders(i)) - 1
        BY <4>2, <4>4, FS_RemoveElement
      <4>7. Cardinality(ItemsOf(i)) + Cardinality(Adders(i)) <= Cardinality(Users(i))
        BY <1>1 DEF Counted
      <4> QED BY <4>4, <4>5, <4>6, <4>7
    <3> QED BY <3>2, <3>3
  <2> QED BY <2>1 DEF Counted
<1>l. \A a : Listed(a, d)' = Listed(a, d)
  BY DEF Listed
<1>17. AllListed(d)'
  <2>1. ASSUME NEW a \in Nodes, item'[a] # NoItem
        PROVE  \/ Listed(a, d)
               \/ \E u \in Threads : thr'[u].pc = "lock_add" /\ thr'[u].pos = a
    <3>1. CASE a = n
      BY <1>6, <3>1
    <3>2. CASE a # n
      <4>1. \/ Listed(a, c)
            \/ \E u \in Threads : thr[u].pc = "lock_add" /\ thr[u].pos = a
        BY <1>1, <1>2, <2>1 DEF AllListed
      <4>2. \A u \in Threads : thr[u].pos = a => thr'[u] = thr[u]
        BY <1>9, <1>n, <3>2
      <4> QED BY <1>6, <4>1, <4>2
    <3> QED BY <3>1, <3>2
  <2> QED BY <1>l, <2>1 DEF AllListed
<1>18. HandApart(d)'
  <2>1. ASSUME NEW u \in Threads, thr'[u].pc = "lock_add"
        PROVE  ~ Listed(thr'[u].pos, d)
    <3>1. u # t /\ thr'[u] = thr[u] /\ thr[u].pc = "lock_add"
      BY <1>8, <1>9, <2>1
    <3>2. thr[u].pos # n /\ ~ Listed(thr[u].pos, c)
      BY <1>1, <1>4, <3>1 DEF HandApart
    <3> QED BY <1>6, <3>1, <3>2
  <2> QED BY <1>l, <2>1 DEF HandApart
<1>19. Scanned(d)'
  <2>1. ASSUME NEW u \in Threads, thr'[u].pc = "scan"
        PROVE  CursorAt(item', thr'[u], d[Bucket(thr'[u].id)])
    <3>1. u # t /\ thr'[u] = thr[u] /\ thr[u].pc = "scan"
      BY <1>8, <1>9, <2>1
    <3>2. PICK e : e = Bucket(thr[u].id)
      OBVIOUS
    <3>3. e \in Heads
      BY <1>1, <3>1, <3>2, BucketType DEF CallsOwn, CallOwn
    <3>4. mutex[e] = u
      BY <1>1, <3>1, <3>2, <3>3 DEF MutexHeld, Holds
    <3>5. u # NULL
      BY HashAssumption
    <3>6. d[e] = c[e]
      BY <1>2, <1>7, <3>3, <3>4, <3>5
    <3>7. CursorAt(item, thr[u], c[e])
      BY <1>1, <3>1, <3>2 DEF Scanned
    <3> QED BY <1>2, <3>1, <3>2, <3>6, <3>7
  <2> QED BY <2>1 DEF Scanned
<1>20. Inv(d)'
  BY <1>6, <1>11, <1>12, <1>13, <1>14, <1>15, <1>16, <1>17, <1>18, <1>19 DEF Inv
<1> QED BY <1>20

(* _context_final takes out the first item of a bucket. *)
LEMMA StepTraverse ==
  ASSUME NEW c, Inv(c), NEW b \in Heads, _traverse_item_list(b)
  PROVE  \E d : Inv(d)'
<1>1. /\ TypeOK /\ MutexHeld /\ Counted /\ CallsOwn /\ InHand /\ Whole(c)
      /\ AllListed(c) /\ HandApart(c) /\ Scanned(c) /\ Over
  BY DEF Inv
<1>n. PICK n : n = heap[b].next
  OBVIOUS
<1>2. /\ status = "final" /\ UNCHANGED <<mutex, thr, status>>
      /\ n # NULL /\ Freed(n)
      /\ item' = [item EXCEPT ![n] = NoItem]
  BY <1>n DEF _traverse_item_list, hlist_empty, Freed
<1>3. \A t \in Threads : thr[t].pc = "idle"
  BY <1>1, <1>2 DEF Over
<1>4. c[b] \in Seq(Nodes) /\ Len(c[b]) \in Nat /\ n = Ent(c[b], 1)
  BY <1>1, <1>n DEF Whole, Linked
<1>5. 1 \in 1..Len(c[b]) /\ n = c[b][1]
  BY <1>2, <1>4 DEF Ent
<1>d. PICK d : d = Without(c, b, 1)
  OBVIOUS
<1>6. /\ heap' \in Heaps
      /\ item' \in [Nodes -> [id : AllIds, val : Vals] \union {NoItem}]
      /\ Whole(d)'
      /\ \A a : Listed(a, d) <=> Listed(a, c) /\ a # c[b][1]
  <2>1. Freed(c[b][1])
    BY <1>2, <1>5
  <2> QED BY <1>d, <1>1, <1>5, <2>1, DelItem
<1>m. \A a : Listed(a, d) <=> Listed(a, c) /\ a # n
  BY <1>5, <1>6
<1>7. n \in Nodes /\ \A a \in Nodes : item'[a] = IF a = n THEN NoItem ELSE item[a]
  <2>1. n \in Nodes
    BY <1>4, <1>5
  <2> QED BY <1>1, <1>2, <2>1 DEF TypeOK
<1>8. TypeOK' /\ CallsOwn' /\ MutexHeld'
  BY <1>1, <1>2, <1>6 DEF TypeOK, CallsOwn, MutexHeld
<1>9. InHand' /\ HandApart(d)' /\ Scanned(d)'
  BY <1>2, <1>3 DEF InHand, HandApart, Scanned
<1>10. Over'
  BY <1>2, <1>3 DEF Over
<1>11. Counted'
  <2>1. \A id \in AllIds : ItemsOf(id)' \subseteq ItemsOf(id)
    BY <1>2, <1>7 DEF ItemsOf, Live, Unlinked
  <2>2. \A id \in AllIds : Adders(id)' \subseteq Adders(id)
    BY <1>2 DEF Adders
  <2> QED BY <1>1, <2>1, <2>2, CountKeeps
<1>12. AllListed(d)'
  <2>1. ASSUME NEW a \in Nodes, item'[a] # NoItem PROVE Listed(a, d)
    BY <1>1, <1>3, <1>m, <1>7, <2>1 DEF AllListed
  <2>2. \A a : Listed(a, d)' = Listed(a, d)
    BY DEF Listed
  <2> QED BY <2>1, <2>2 DEF AllListed
<1>13. Inv(d)'
  BY <1>6, <1>8, <1>9, <1>10, <1>11, <1>12 DEF Inv
<1> QED BY <1>13

(* Steps of the program as a whole, and none. *)
LEMMA StepProgram ==
  ASSUME NEW c, Inv(c), UtilsHashDestroy \/ _context_final \/ UNCHANGED vars
  PROVE  Inv(c)'
<1>1. /\ TypeOK /\ MutexHeld /\ Counted /\ CallsOwn /\ InHand /\ Whole(c)
      /\ AllListed(c) /\ HandApart(c) /\ Scanned(c) /\ Over
  BY DEF Inv
<1>2. UNCHANGED <<heap, item, mutex, thr>>
  BY DEF UtilsHashDestroy, _context_final, vars
<1>3. status' \in {"up", "crashed", "final", "gone"} /\ Over'
  <2>1. CASE UtilsHashDestroy
    BY <2>1 DEF UtilsHashDestroy, Over, Idle
  <2>2. CASE _context_final
    BY <1>1, <2>2 DEF _context_final, Over, hlist_empty
  <2>3. CASE UNCHANGED vars
    BY <1>1, <2>3 DEF vars, Over, TypeOK
  <2> QED BY <2>1, <2>2, <2>3
<1>4. TypeOK' /\ CallsOwn' /\ MutexHeld' /\ InHand'
  BY <1>1, <1>2, <1>3 DEF TypeOK, CallsOwn, MutexHeld, InHand
<1>5. Counted'
  BY <1>1, <1>2 DEF Counted, ItemsOf, Live, Unlinked, Adders
<1>6. Whole(c)' /\ AllListed(c)' /\ HandApart(c)' /\ Scanned(c)'
  BY <1>1, <1>2 DEF Whole, AllListed, Listed, HandApart, Scanned
<1> QED BY <1>3, <1>4, <1>5, <1>6 DEF Inv

(* Every chain is empty at the start. *)
LEMMA IInvInit == Init => IInv
<1> SUFFICES ASSUME Init PROVE IInv
  OBVIOUS
<1>1. /\ heap = [n \in Nodes \union Heads |-> [next |-> NULL, prev |-> NULL]]
      /\ item = [a \in Nodes |-> NoItem] /\ mutex = [b \in Heads |-> NULL]
      /\ thr = [t \in Threads |-> Idle] /\ status = "up"
  BY DEF Init
<1>c. PICK c : c = [b \in Heads |-> <<>>]
  OBVIOUS
<1>2. TypeOK
  <2>1. heap \in Heaps
    BY <1>1 DEF Heaps, Pointers
  <2>2. thr \in [Threads -> Calls]
    BY <1>1 DEF Idle, Calls, Pcs
  <2> QED BY <1>1, <2>1, <2>2 DEF TypeOK
<1>3. \A t \in Threads : thr[t].pc = "idle"
  BY <1>1 DEF Idle
<1>4. CallsOwn /\ InHand /\ Over /\ HandApart(c) /\ Scanned(c)
  BY <1>1, <1>3 DEF CallsOwn, CallOwn, InHand, Over, HandApart, Scanned
<1>5. MutexHeld
  BY <1>1, <1>3, HashAssumption DEF MutexHeld, Holds
<1>6. Counted
  <2>1. ASSUME NEW id \in AllIds
        PROVE  Cardinality(ItemsOf(id)) + Cardinality(Adders(id)) <= Cardinality(Users(id))
    <3>1. ItemsOf(id) = {} /\ Adders(id) = {}
      BY <1>1, <1>3 DEF ItemsOf, Live, Adders, Adds
    <3> QED BY <3>1, FS_EmptySet, UsersFinite
  <2> QED BY <2>1 DEF Counted
<1>7. AllListed(c)
  BY <1>1 DEF AllListed
<1>8. Whole(c)
  <2>1. <<>> \in Seq(Nodes) /\ Len(<<>>) = 0
    OBVIOUS
  <2>2. c \in [Heads -> Seq(Nodes)] /\ \A b \in Heads : c[b] = <<>>
    BY <1>c
  <2>3. ASSUME NEW b \in Heads PROVE Linked(heap, b, <<>>)
    BY <1>1, <2>1 DEF Linked, Ent
  <2> QED BY <2>1, <2>2, <2>3 DEF Whole
<1>9. Chains = c
  <2>1. c \in [Heads -> Seq(Nodes)] /\ \A b \in Heads : Linked(heap, b, c[b])
    BY <1>8 DEF Whole
  <2>2. Chains = [b \in Heads |-> HEntries(heap, b)]
    BY DEF Chains, Chain
  <2> QED BY <2>1, <2>2, ChainsAre
<1> QED BY <1>2, <1>4, <1>5, <1>6, <1>7, <1>8, <1>9 DEF IInv, Inv

(* Every step leads to chains of which the invariant holds. *)
LEMMA IInvStep ==
  ASSUME IInv, [Next]_vars
  PROVE  IInv'
<1>c. PICK c : c = Chains
  OBVIOUS
<1>1. Inv(c)
  BY <1>c DEF IInv
<1>2. \E d : Inv(d)'
  <2>1. ASSUME NEW t \in Threads, Thread(t) PROVE \E d : Inv(d)'
    <3>1. CASE Call(t)
      BY <1>1, <3>1, StepCall
    <3>2. CASE Lock(t)
      BY <1>1, <3>2, StepLock
    <3>3. CASE Step(t)
      BY <1>1, <3>3, StepStep
    <3>4. CASE FoundReplace(t)
      BY <1>1, <3>4, StepReplace
    <3>5. CASE FoundDel(t)
      BY <1>1, <3>5, StepDel
    <3>6. CASE FoundGet(t)
      BY <1>1, <3>6, StepGet
    <3>7. CASE Missed(t)
      BY <1>1, <3>7, StepMissed
    <3>8. CASE Unlocked(t) \/ UnlockedAdd(t)
      BY <1>1, <3>8, StepUnlocked
    <3>9. CASE _item_init(t)
      BY <1>1, <3>9, StepInit
    <3>10. CASE _add_item_to_list(t)
      BY <1>1, <3>10, StepAdd
    <3> QED
      BY <2>1, <3>1, <3>2, <3>3, <3>4, <3>5, <3>6, <3>7, <3>8, <3>9, <3>10
      DEF Thread
  <2>2. ASSUME NEW b \in Heads, _traverse_item_list(b) PROVE \E d : Inv(d)'
    BY <1>1, <2>2, StepTraverse
  <2>3. ASSUME UtilsHashDestroy \/ _context_final \/ UNCHANGED vars
        PROVE  \E d : Inv(d)'
    BY <1>1, <2>3, StepProgram
  <2> QED BY <2>1, <2>2, <2>3 DEF Next
<1>3. PICK d : Inv(d)'
  BY <1>2
<1> QED BY <1>3, InvIsIInv

(* The invariant holds throughout. *)
LEMMA IInvAlways == Spec => []IInv
<1>1. IInv /\ [Next]_vars => IInv'
  BY IInvStep
<1> QED BY IInvInit, <1>1, PTL DEF Spec

-----------------------------------------------------------------------------
(* The properties.                                                         *)

(* Whole is what IsHlist says of the chain; the rest says where items are. *)
LEMMA IInvSound == ASSUME IInv PROVE ChainSound
<1>c. PICK c : c = Chains
  OBVIOUS
<1>1. /\ TypeOK /\ InHand /\ Over /\ Whole(c) /\ AllListed(c)
  BY <1>c DEF IInv, Inv
<1>2. ASSUME NEW b \in Heads
      PROVE  /\ Chain(b) = c[b] /\ Linked(heap, b, c[b])
             /\ c[b] \in Seq(Nodes) /\ DOMAIN c[b] = 1..Len(c[b])
             /\ ToSet(Chain(b)) = {c[b][k] : k \in 1..Len(c[b])}
  <2>1. Chain(b) = c[b] /\ Linked(heap, b, c[b]) /\ c[b] \in Seq(Nodes)
    BY <1>1, <1>c DEF Chains, Whole
  <2>2. DOMAIN c[b] = 1..Len(c[b])
    BY <2>1
  <2> QED BY <2>1, <2>2 DEF ToSet
<1>3. ASSUME NEW b \in Heads
      PROVE  /\ IsHlist(heap, b, Chain(b))
             /\ \A a \in ToSet(Chain(b)) : a \in Live /\ Bucket(item[a].id) = b
  <2>1. HEntries(heap, b) = Chain(b)
    BY DEF Chain
  <2>2. \A k \in 1..Len(c[b]) : heap[c[b][k]].prev = IF k = 1 THEN b ELSE c[b][k - 1]
    BY <1>2 DEF Linked
  <2>3. \A a \in ToSet(Chain(b)) : a \in Live /\ Bucket(item[a].id) = b
    BY <1>1, <1>2 DEF Whole, Live
  <2> QED BY <1>2, <2>1, <2>2, <2>3 DEF IsHlist
<1>4. ASSUME NEW a PROVE (\E b \in Heads : a \in ToSet(Chain(b))) <=> Listed(a, c)
  BY <1>2 DEF Listed
<1>5. Live = (UNION {ToSet(Chain(b)) : b \in Heads})
             \union (UNION {Unlinked(t) : t \in Threads})
  <2>1. ASSUME NEW a \in Live
        PROVE  \/ \E b \in Heads : a \in ToSet(Chain(b))
               \/ \E t \in Threads : a \in Unlinked(t)
    BY <1>1, <1>4 DEF AllListed, Live, Unlinked
  <2>2. ASSUME NEW t \in Threads, NEW a \in Unlinked(t) PROVE a \in Live
    <3>1. thr[t].pc = "lock_add" /\ a = thr[t].pos
      BY DEF Unlinked
    <3>2. a \in Nodes /\ item[a] = [id |-> thr[t].id, val |-> thr[t].val]
      BY <1>1, <3>1 DEF InHand
    <3>3. thr[t].val \in Vals
      BY <1>c, <3>1 DEF IInv, Inv, CallsOwn, CallOwn
    <3> QED BY <3>2, <3>3, HashAssumption DEF Live, NoItem
  <2> QED BY <1>3, <2>1, <2>2
<1>6. ASSUME status = "gone" PROVE Live = {}
  <2>1. \A t \in Threads : Unlinked(t) = {}
    BY <1>1, <1>6 DEF Over, Unlinked
  <2>2. ASSUME NEW b \in Heads PROVE ToSet(Chain(b)) = {}
    <3>1. Ent(c[b], 1) = NULL
      BY <1>1, <1>2, <1>6 DEF Over, Linked
    <3>2. Len(c[b]) \in Nat /\ \A k \in 1..Len(c[b]) : c[b][k] \in Nodes
      BY <1>2
    <3>3. Len(c[b]) = 0
      BY <3>1, <3>2, ListAssumption DEF Ent
    <3> QED BY <1>2, <3>3
  <2> QED BY <1>5, <2>1, <2>2
<1> QED BY <1>3, <1>5, <1>6 DEF ChainSound

(***************************************************************************)
(* Whatever threads add to, delete from and read in a bucket at the same   *)
(* time, its chain is whole from either end, every item in it is allocated *)
(* and belongs there, every allocated item is in its chain or with the     *)
(* thread that adds it, and UtilsHashDestroy leaves none.                     *)
(***************************************************************************)
THEOREM ChainSoundAlways == Spec => []ChainSound
<1>1. IInv => ChainSound
  BY IInvSound
<1> QED BY <1>1, IInvAlways, PTL

(* The entries of a key are no more than they are with its adders. *)
LEMMA IInvCounts == ASSUME IInv PROVE OnePerAdder
<1>1. Counted
  BY DEF IInv, Inv
<1>2. ASSUME NEW id \in AllIds
      PROVE  Cardinality(ItemsOf(id)) <= Cardinality(Users(id))
  <2>1. /\ Cardinality(ItemsOf(id)) \in Nat /\ Cardinality(Adders(id)) \in Nat
        /\ Cardinality(Users(id)) \in Nat
    BY SetsFinite, FS_CardinalityType, UsersFinite
  <2> QED BY <1>1, <2>1 DEF Counted
<1> QED BY <1>2 DEF OnePerAdder

(***************************************************************************)
(* However the searches and the insertions of UtilsHashItemAdd interleave, *)
(* a key has at most one entry for each thread that uses it.               *)
(***************************************************************************)
THEOREM OnePerAdderAlways == Spec => []OnePerAdder
<1>1. IInv => OnePerAdder
  BY IInvCounts
<1> QED BY <1>1, IInvAlways, PTL

-----------------------------------------------------------------------------
(* For the keys of one thread the hash is a map.                           *)

(* The entry that ValueOf chooses. *)
OneIn(S) == CHOOSE a \in S : TRUE

(* Of one there is no choice. *)
LEMMA OneInSingleton == ASSUME NEW a PROVE OneIn({a}) = a
  BY DEF OneIn

(* The value of a key before and after a step. *)
LEMMA ValueIs ==
  ASSUME NEW id
  PROVE  /\ ValueOf(id) = IF ItemsOf(id) = {} THEN NULL
                          ELSE item[OneIn(ItemsOf(id))].val
         /\ ValueOf(id)' = IF ItemsOf(id)' = {} THEN NULL
                           ELSE item'[OneIn(ItemsOf(id)')].val
  BY DEF ValueOf, OneIn

(* A key whose entries and their values do not change has its value still. *)
LEMMA ValueKept ==
  ASSUME NEW id, ItemsOf(id)' = ItemsOf(id),
         \A a \in ItemsOf(id) : item'[a] = item[a]
  PROVE  ValueOf(id)' = ValueOf(id)
<1>1. ItemsOf(id) # {} => OneIn(ItemsOf(id)) \in ItemsOf(id)
  BY DEF OneIn
<1> QED BY <1>1, ValueIs

(* A key of one thread has one entry at most, and none while it is added. *)
LEMMA AddsCount ==
  ASSUME IInv, NEW id \in Own
  PROVE  /\ Adders(id) # {} => ItemsOf(id) = {}
         /\ \A a \in ItemsOf(id) : ItemsOf(id) = {a}
<1>1. /\ IsFiniteSet(ItemsOf(id)) /\ IsFiniteSet(Adders(id))
      /\ Cardinality(ItemsOf(id)) \in Nat /\ Cardinality(Adders(id)) \in Nat
  BY SetsFinite, FS_CardinalityType
<1>2. Cardinality(ItemsOf(id)) + Cardinality(Adders(id)) <= 1
  BY DEF IInv, Inv, Counted, Own
<1>3. Cardinality(Adders(id)) = 0 <=> Adders(id) = {}
  BY <1>1, FS_EmptySet
<1>4. Cardinality(ItemsOf(id)) = 0 <=> ItemsOf(id) = {}
  BY <1>1, FS_EmptySet
<1>5. Cardinality(ItemsOf(id)) = 1 => \E a : ItemsOf(id) = {a}
  BY <1>1, FS_Singleton
<1>6. Adders(id) # {} => ItemsOf(id) = {}
  BY <1>1, <1>2, <1>3, <1>4
<1>7. ASSUME NEW a \in ItemsOf(id) PROVE ItemsOf(id) = {a}
  <2>1. Cardinality(ItemsOf(id)) = 1
    BY <1>1, <1>2, <1>4, <1>7
  <2> QED BY <1>5, <1>7, <2>1
<1> QED BY <1>6, <1>7

(* The value of such a key is its entry's, and not NULL. *)
LEMMA OwnValue ==
  ASSUME IInv, NEW id \in Own, NEW a \in ItemsOf(id)
  PROVE  ValueOf(id) = item[a].val /\ ValueOf(id) # NULL
<1>1. ItemsOf(id) = {a} /\ a \in Nodes /\ item[a] # NoItem
  BY AddsCount DEF ItemsOf, Live
<1>2. ValueOf(id) = item[a].val
  BY <1>1, ValueIs, OneInSingleton
<1>3. item[a].val \in Vals
  BY <1>1 DEF IInv, Inv, TypeOK
<1> QED BY <1>2, <1>3, HashAssumption

(* What a walk has found is an entry of the key. *)
LEMMA FoundItem ==
  ASSUME IInv, NEW t \in Threads, thr[t].pc = "scan", thr[t].pos # NULL,
         item[thr[t].pos].id = thr[t].id
  PROVE  thr[t].pos \in ItemsOf(thr[t].id) /\ thr[t].id \in AllIds
<1>c. PICK c : c = Chains
  OBVIOUS
<1>1. /\ CallsOwn /\ Whole(c) /\ Scanned(c) /\ HandApart(c)
  BY <1>c DEF IInv, Inv
<1> DEFINE b == Bucket(thr[t].id)
           q == c[b]
<1>2. thr[t].id \in AllIds /\ b \in Heads
  BY <1>1, BucketType DEF CallsOwn, CallOwn
<1>3. q \in Seq(Nodes) /\ Len(q) \in Nat /\ \A k \in 1..Len(q) : q[k] \in Nodes
  BY <1>1, <1>2 DEF Whole
<1>4. PICK k \in 1..Len(q) : thr[t].pos = q[k]
  BY <1>1, <1>3 DEF Scanned, CursorAt, Ent
<1>5. item[thr[t].pos] # NoItem /\ Listed(thr[t].pos, c) /\ thr[t].pos \in Nodes
  BY <1>1, <1>2, <1>3, <1>4 DEF Whole, Listed
<1>6. \A u \in Threads : thr[t].pos \notin Unlinked(u)
  BY <1>1, <1>5 DEF HandApart, Unlinked
<1> QED BY <1>2, <1>5, <1>6 DEF ItemsOf, Live

(* The steps of KeyMap, by what they do to the values: none, *)
LEMMA MapStutter ==
  ASSUME \A i \in Own : ValueOf(i)' = ValueOf(i), got' = got, Up' = Up
  PROVE  UNCHANGED Map!vars
  BY DEF Map!vars

(* a put of a key that has no value, *)
LEMMA MapPut ==
  ASSUME NEW id \in Own, NEW v \in Vals, Up, Up', got' = got, ValueOf(id) = NULL,
         \A i \in Own : ValueOf(i)' = IF i = id THEN v ELSE ValueOf(i)
  PROVE  Map!Next
<1>1. Map!Put(id, v)
  BY DEF Map!Put
<1> QED BY <1>1 DEF Map!Next

(* a put of one that has, *)
LEMMA MapPutAgain ==
  ASSUME NEW id \in Own, Up, ~Up', got' = got, ValueOf(id) # NULL,
         \A i \in Own : ValueOf(i)' = ValueOf(i)
  PROVE  Map!Next
<1>1. Map!PutAgain(id)
  BY DEF Map!PutAgain
<1> QED BY <1>1 DEF Map!Next

(* a removal, *)
LEMMA MapRemove ==
  ASSUME NEW id \in Own, Up, Up', got' = got, ValueOf(id) # NULL,
         \A i \in Own : ValueOf(i)' = IF i = id THEN NULL ELSE ValueOf(i)
  PROVE  Map!Next
<1>1. Map!Remove(id)
  BY DEF Map!Remove
<1> QED BY <1>1 DEF Map!Next

(* a get, *)
LEMMA MapGet ==
  ASSUME NEW id \in Own, Up, Up', got' = <<id, ValueOf(id)>>,
         \A i \in Own : ValueOf(i)' = ValueOf(i)
  PROVE  Map!Next
<1>1. Map!Get(id)
  BY DEF Map!Get
<1> QED BY <1>1 DEF Map!Next

(* and its return. *)
LEMMA MapTaken ==
  ASSUME Up, Up', got' = NULL, \A i \in Own : ValueOf(i)' = ValueOf(i)
  PROVE  Map!Next
<1>1. Map!Taken
  BY DEF Map!Taken
<1> QED BY <1>1 DEF Map!Next

(* The map is up where the program has not crashed. *)
LEMMA UpThen ==
  ASSUME status # "crashed", status' # "crashed"
  PROVE  Up /\ Up'
  BY DEF Up

(* To take out an entry removes its key, or is no step if others use it too. *)
LEMMA ItemsRemoved ==
  ASSUME IInv, NEW n, NEW id \in AllIds, n \in ItemsOf(id),
         item' = [item EXCEPT ![n] = NoItem],
         \A u \in Threads : Unlinked(u)' = Unlinked(u),
         got' = got, status # "crashed", status' # "crashed"
  PROVE  [Map!Next]_(Map!vars)
<1>1. /\ n \in Nodes /\ item[n].id = id /\ item[n] # NoItem
      /\ \A a \in Nodes : item'[a] = IF a = n THEN NoItem ELSE item[a]
  BY DEF IInv, Inv, TypeOK, ItemsOf, Live
<1>2. \A i : ItemsOf(i)' = ItemsOf(i) \ {n}
  BY <1>1 DEF ItemsOf, Live
<1>3. ASSUME NEW i, i # id PROVE ValueOf(i)' = ValueOf(i)
  <2>1. ItemsOf(i)' = ItemsOf(i)
    BY <1>1, <1>2, <1>3 DEF ItemsOf
  <2>2. \A a \in ItemsOf(i) : item'[a] = item[a]
    BY <1>1, <1>3 DEF ItemsOf, Live
  <2> QED BY <2>1, <2>2, ValueKept
<1>4. Up /\ Up'
  BY UpThen
<1>5. CASE id \in Own
  <2>1. ItemsOf(id) = {n} /\ ValueOf(id) # NULL
    BY <1>5, AddsCount, OwnValue
  <2>2. ItemsOf(id)' = {}
    BY <1>2, <2>1
  <2>3. ValueOf(id)' = NULL
    BY <2>2, ValueIs
  <2> QED BY <1>3, <1>4, <1>5, <2>1, <2>3, MapRemove
<1>6. CASE id \notin Own
  <2>1. \A i \in Own : ValueOf(i)' = ValueOf(i)
    BY <1>3, <1>6
  <2> QED BY <1>4, <2>1, MapStutter
<1> QED BY <1>5, <1>6

(* FoundDel removes a key. *)
LEMMA MapDel ==
  ASSUME IInv, NEW t \in Threads, FoundDel(t)
  PROVE  [Map!Next]_(Map!vars)
<1>1. /\ status = "up" /\ status' = status /\ got' = got
      /\ thr[t].pc = "scan" /\ thr[t].pos # NULL /\ item[thr[t].pos].id = thr[t].id
      /\ item' = [item EXCEPT ![thr[t].pos] = NoItem]
      /\ thr' = [thr EXCEPT ![t].pc = "unlock"]
  BY DEF FoundDel, Found, At, GoTo
<1>2. thr \in [Threads -> Calls]
  BY DEF IInv, Inv, TypeOK
<1>3. \A u \in Threads : thr'[u].pc = "lock_add" <=> thr[u].pc = "lock_add"
  <2>1. thr'[t].pc = "unlock" /\ \A u \in Threads : u # t => thr'[u] = thr[u]
    BY <1>1, <1>2 DEF Calls
  <2> QED BY <1>1, <2>1
<1>4. \A u \in Threads : thr'[u].pos = thr[u].pos
  BY <1>1, <1>2 DEF Calls
<1>5. \A u \in Threads : Unlinked(u)' = Unlinked(u)
  BY <1>3, <1>4 DEF Unlinked
<1>6. thr[t].pos \in ItemsOf(thr[t].id) /\ thr[t].id \in AllIds
  BY <1>1, FoundItem
<1> QED BY <1>1, <1>5, <1>6, ItemsRemoved

(* So does _context_final with every entry it comes to. *)
LEMMA MapTraverse ==
  ASSUME IInv, NEW b \in Heads, _traverse_item_list(b)
  PROVE  [Map!Next]_(Map!vars)
<1>c. PICK c : c = Chains
  OBVIOUS
<1>n. PICK n : n = heap[b].next
  OBVIOUS
<1>1. /\ TypeOK /\ Over /\ Whole(c)
  BY <1>c DEF IInv, Inv
<1>2. /\ status = "final" /\ UNCHANGED <<thr, status, got>>
      /\ n # NULL /\ item' = [item EXCEPT ![n] = NoItem]
  BY <1>n DEF _traverse_item_list, hlist_empty
<1>3. \A t \in Threads : Unlinked(t) = {} /\ Unlinked(t)' = {}
  BY <1>1, <1>2 DEF Over, Unlinked
<1>4. c[b] \in Seq(Nodes) /\ n = Ent(c[b], 1)
  BY <1>1, <1>n DEF Whole, Linked
<1>5. 1 \in 1..Len(c[b]) /\ n = c[b][1] /\ n \in Nodes
  BY <1>2, <1>4 DEF Ent
<1>6. item[n] # NoItem
  BY <1>1, <1>5 DEF Whole
<1>7. item[n].id \in AllIds
  BY <1>1, <1>5, <1>6 DEF TypeOK
<1>8. n \in ItemsOf(item[n].id)
  BY <1>3, <1>5, <1>6 DEF ItemsOf, Live
<1> QED BY <1>2, <1>3, <1>7, <1>8, ItemsRemoved

(* Where no item changes and none is linked, no value changes. *)
LEMMA ValuesSame ==
  ASSUME item' = item, \A u \in Threads : Unlinked(u)' = Unlinked(u)
  PROVE  \A i \in Own : ValueOf(i)' = ValueOf(i)
<1>1. ASSUME NEW i \in Own PROVE ValueOf(i)' = ValueOf(i)
  <2>1. ItemsOf(i)' = ItemsOf(i)
    BY ItemsSame
  <2> QED BY <2>1, ValueKept
<1> QED BY <1>1

(* The steps of a call that change no item and link none. *)
LEMMA MapQuiet ==
  ASSUME IInv, NEW t \in Threads, NEW r, thr' = [thr EXCEPT ![t] = r],
         r.pc # "lock_add", thr[t].pc # "lock_add", item' = item
  PROVE  \A i \in Own : ValueOf(i)' = ValueOf(i)
<1>1. thr \in [Threads -> Calls]
  BY DEF IInv, Inv, TypeOK
<1>2. thr'[t] = r /\ \A u \in Threads : u # t => thr'[u] = thr[u]
  BY <1>1
<1>3. \A u \in Threads : Unlinked(u)' = Unlinked(u)
  BY <1>2 DEF Unlinked
<1> QED BY <1>3, ValuesSame

(* A call, its search and what follows an add that found nothing are no step. *)
LEMMA MapSearch ==
  ASSUME IInv, NEW t \in Threads,
         Call(t) \/ Lock(t) \/ Step(t) \/ UnlockedAdd(t)
  PROVE  [Map!Next]_(Map!vars)
<1>1. \E r : thr' = [thr EXCEPT ![t] = r] /\ r.pc \in {"lock", "scan", "init"}
  <2>1. thr[t] \in Calls /\ thr \in [Threads -> Calls]
    BY DEF IInv, Inv, TypeOK
  <2>2. CASE Call(t)
    <3>0. PICK op \in {"add", "del", "get"}, v \in Vals :
            \E key \in Keys[t] : thr' = [thr EXCEPT ![t] =
                      [Idle EXCEPT !.pc = "lock", !.op = op, !.id = Id(key), !.val = v]]
      BY <2>2 DEF Call
    <3>1. PICK key \in Keys[t] : thr' = [thr EXCEPT ![t] =
                      [Idle EXCEPT !.pc = "lock", !.op = op, !.id = Id(key), !.val = v]]
      BY <3>0
    <3>2. [Idle EXCEPT !.pc = "lock", !.op = op, !.id = Id(key), !.val = v].pc = "lock"
      BY DEF Idle
    <3> QED BY <3>1, <3>2
  <2>3. ASSUME NEW a, Cursor(t, a)
        PROVE  \E r : thr' = [thr EXCEPT ![t] = r] /\ r.pc = "scan"
    <3> DEFINE r == [thr[t] EXCEPT !.pc = "scan", !.pos = a,
                       !.n = IF a = NULL THEN NULL ELSE heap[a].next]
    <3>1. thr' = [thr EXCEPT ![t] = r]
      BY <2>3 DEF Cursor
    <3>2. r.pc = "scan"
      BY <2>1 DEF Calls
    <3> HIDE DEF r
    <3> QED BY <3>1, <3>2
  <2>4. CASE Lock(t) \/ Step(t)
    BY <2>3, <2>4 DEF Lock, Step
  <2>5. CASE UnlockedAdd(t)
    <3>1. GoTo(t, "init") /\ "init" \in Pcs /\ TypeOK
      BY <2>5 DEF UnlockedAdd, Pcs, IInv, Inv
    <3>2. PICK r \in Calls : /\ thr' = [thr EXCEPT ![t] = r]
                             /\ r.pc = "init" /\ r.id = thr[t].id /\ r.val = thr[t].val
                             /\ r.pos = thr[t].pos
      BY <3>1, GoToIs, Zenon
    <3> QED BY <3>2
  <2> QED BY <2>2, <2>4, <2>5
<1>2. /\ thr[t].pc # "lock_add" /\ item' = item /\ got' = got
      /\ status = "up" /\ status' = status
  BY DEF Call, Lock, Step, UnlockedAdd, At
<1>3. \A i \in Own : ValueOf(i)' = ValueOf(i)
  BY <1>1, <1>2, MapQuiet
<1> QED BY <1>2, <1>3, UpThen, MapStutter

(* The return of a call takes what a get has read. *)
LEMMA MapUnlocked ==
  ASSUME IInv, NEW t \in Threads, Unlocked(t)
  PROVE  [Map!Next]_(Map!vars)
<1>1. /\ thr' = [thr EXCEPT ![t] = Idle] /\ Idle.pc = "idle"
      /\ thr[t].pc # "lock_add" /\ item' = item /\ got' = NULL
      /\ status = "up" /\ status' = status
  BY DEF Unlocked, At, Return, Idle
<1>2. \A i \in Own : ValueOf(i)' = ValueOf(i)
  BY <1>1, MapQuiet
<1> QED BY <1>1, <1>2, UpThen, MapTaken

(* A get reads the value of its key, also where there is none. *)
LEMMA MapGets ==
  ASSUME IInv, NEW t \in Threads, FoundGet(t) \/ Missed(t)
  PROVE  [Map!Next]_(Map!vars)
<1>1. /\ thr[t].pc = "scan" /\ item' = item /\ status = "up" /\ status' = status
  BY DEF FoundGet, Found, Missed, At
<1>2. \E pc \in {"unlock", "unlock_add"} : GoTo(t, pc)
  BY DEF FoundGet, Missed
<1>3. PICK pc \in {"unlock", "unlock_add"} : GoTo(t, pc)
  BY <1>2
<1>4. TypeOK /\ pc \in Pcs
  BY DEF IInv, Inv, Pcs
<1>5. PICK r \in Calls : /\ thr' = [thr EXCEPT ![t] = r]
                         /\ r.pc = pc /\ r.id = thr[t].id /\ r.val = thr[t].val
                         /\ r.pos = thr[t].pos
  BY <1>3, <1>4, GoToIs, Zenon
<1>6. \A i \in Own : ValueOf(i)' = ValueOf(i)
  BY <1>1, <1>3, <1>5, MapQuiet
<1>7. Up /\ Up'
  BY <1>1, UpThen
<1>8. CASE got' = got
  BY <1>6, <1>7, <1>8, MapStutter
<1>9. CASE thr[t].id \in Own /\ got' = <<thr[t].id, ValueOf(thr[t].id)>>
  BY <1>6, <1>7, <1>9, MapGet
<1>10. ASSUME thr[t].id \in Own, got' # got
       PROVE  got' = <<thr[t].id, ValueOf(thr[t].id)>>
  <2>1. CASE FoundGet(t)
    <3>1. thr[t].pos \in ItemsOf(thr[t].id)
      BY <1>1, <2>1, FoundItem DEF FoundGet, Found
    <3>2. ValueOf(thr[t].id) = item[thr[t].pos].val
      BY <1>10, <3>1, OwnValue
    <3> QED BY <1>10, <2>1, <3>2 DEF FoundGet, Report
  <2>2. CASE Missed(t)
    <3>1. ItemsOf(thr[t].id) = {}
      BY <1>1, <2>2, NoneThere DEF Missed, IInv
    <3>2. ValueOf(thr[t].id) = NULL
      BY <3>1, ValueIs
    <3> QED BY <1>10, <2>2, <3>2 DEF Missed, Report
  <2> QED BY <2>1, <2>2
<1>11. thr[t].id \notin Own => got' = got
  BY DEF FoundGet, Missed, Report
<1> QED BY <1>8, <1>9, <1>10, <1>11

(* The crash is a second put if a thread is about to put its own key again. *)
LEMMA MapReplace ==
  ASSUME IInv, NEW t \in Threads, FoundReplace(t)
  PROVE  [Map!Next]_(Map!vars)
<1>1. /\ status = "up" /\ status' = "crashed" /\ UNCHANGED <<item, thr, got>>
  BY DEF FoundReplace, Found, At
<1>2. \A i \in Own : ValueOf(i)' = ValueOf(i)
  BY <1>1, ValuesSame DEF Unlinked
<1>3. Up
  BY <1>1 DEF Up
<1>4. \A u \in Threads : AddsAgain(u)' <=> AddsAgain(u)
  BY <1>1 DEF AddsAgain
<1>5. CASE \E u \in Threads : AddsAgain(u) /\ thr[u].id \in Own
  <2>1. PICK u \in Threads : AddsAgain(u) /\ thr[u].id \in Own
    BY <1>5
  <2>2. thr[u].pos \in ItemsOf(thr[u].id)
    BY <2>1, FoundItem DEF AddsAgain
  <2>3. ValueOf(thr[u].id) # NULL
    BY <2>1, <2>2, OwnValue
  <2>4. ~ Up'
    BY <1>1, <1>4, <2>1 DEF Up
  <2> QED BY <1>1, <1>2, <1>3, <2>1, <2>3, <2>4, MapPutAgain
<1>6. CASE ~ \E u \in Threads : AddsAgain(u) /\ thr[u].id \in Own
  <2>1. Up'
    BY <1>1, <1>4, <1>6 DEF Up
  <2> QED BY <1>1, <1>2, <1>3, <2>1, MapStutter
<1> QED BY <1>5, <1>6

(* An item that is not linked is no entry. *)
LEMMA MapInit ==
  ASSUME IInv, NEW t \in Threads, _item_init(t)
  PROVE  [Map!Next]_(Map!vars)
<1>1. TypeOK
  BY DEF IInv, Inv
<1>2. /\ status = "up" /\ status' = status /\ got' = got /\ thr[t].pc = "init"
  BY DEF _item_init, At
<1>3. PICK a \in Nodes \ Live :
        /\ item' = [item EXCEPT ![a] = [id |-> thr[t].id, val |-> thr[t].val]]
        /\ thr' = [thr EXCEPT ![t].pc = "lock_add", ![t].pos = a]
  BY DEF _item_init
<1>4. /\ a \in Nodes /\ item[a] = NoItem
      /\ \A x \in Nodes : x # a => item'[x] = item[x]
  BY <1>1, <1>3 DEF Live, TypeOK
<1>5. /\ thr'[t].pc = "lock_add" /\ thr'[t].pos = a
      /\ \A u \in Threads : u # t => thr'[u] = thr[u]
  BY <1>1, <1>3 DEF TypeOK, Calls
<1>6. /\ Unlinked(t) = {} /\ Unlinked(t)' = {a}
      /\ \A u \in Threads : u # t => Unlinked(u)' = Unlinked(u)
  BY <1>2, <1>5 DEF Unlinked
<1>7. ASSUME NEW i \in Own PROVE ValueOf(i)' = ValueOf(i)
  <2>1. a \notin ItemsOf(i) /\ a \notin ItemsOf(i)'
    BY <1>4, <1>6 DEF ItemsOf, Live
  <2>2. ASSUME NEW x, x # a PROVE x \in ItemsOf(i)' <=> x \in ItemsOf(i)
    BY <1>4, <1>6, <2>2 DEF ItemsOf, Live
  <2>3. ItemsOf(i)' = ItemsOf(i)
    BY <2>1, <2>2
  <2>4. \A x \in ItemsOf(i) : item'[x] = item[x]
    BY <1>4, <2>1 DEF ItemsOf, Live
  <2> QED BY <2>3, <2>4, ValueKept
<1> QED BY <1>2, <1>7, UpThen, MapStutter

(* The insertion puts the key: it had no entry, for its one user adds it. *)
LEMMA MapAdd ==
  ASSUME IInv, NEW t \in Threads, _add_item_to_list(t)
  PROVE  [Map!Next]_(Map!vars)
<1>1. TypeOK /\ CallsOwn /\ InHand
  BY DEF IInv, Inv
<1>n. PICK n : n = thr[t].pos
  OBVIOUS
<1>i. PICK id : id = thr[t].id
  OBVIOUS
<1>2. /\ status = "up" /\ status' = status /\ got' = got /\ item' = item
      /\ thr[t].pc = "lock_add" /\ GoTo(t, "unlock") /\ "unlock" \in Pcs
  BY DEF _add_item_to_list, At, Pcs
<1>3. /\ id \in AllIds /\ thr[t].val \in Vals /\ n \in Nodes
      /\ item[n] = [id |-> id, val |-> thr[t].val]
      /\ \A u \in Threads : thr[u].pc = "lock_add" /\ thr[u].pos = n => u = t
  BY <1>1, <1>2, <1>n, <1>i DEF CallsOwn, CallOwn, InHand
<1>4. item[n].id = id /\ item[n].val = thr[t].val /\ item[n] # NoItem
  <2>1. item[n].id = id /\ item[n].val = thr[t].val /\ item[n].val # NULL
    BY <1>3, HashAssumption
  <2> QED BY <2>1 DEF NoItem
<1>5. PICK r \in Calls : /\ thr' = [thr EXCEPT ![t] = r]
                         /\ r.pc = "unlock" /\ r.id = thr[t].id /\ r.val = thr[t].val
                         /\ r.pos = thr[t].pos
  BY <1>1, <1>2, GoToIs, Zenon
<1>6. thr'[t] = r /\ \A u \in Threads : u # t => thr'[u] = thr[u]
  BY <1>1, <1>5 DEF TypeOK
<1>7. /\ Unlinked(t) = {n} /\ Unlinked(t)' = {}
      /\ \A u \in Threads : u # t => Unlinked(u)' = Unlinked(u) /\ n \notin Unlinked(u)
  BY <1>2, <1>3, <1>5, <1>6, <1>n DEF Unlinked
<1>8. n \in ItemsOf(id)'
  BY <1>2, <1>3, <1>4, <1>7 DEF ItemsOf, Live
<1>9. \A i, x : x # n => (x \in ItemsOf(i)' <=> x \in ItemsOf(i))
  BY <1>2, <1>7 DEF ItemsOf, Live
<1>10. ASSUME NEW i, i # id PROVE ValueOf(i)' = ValueOf(i)
  <2>1. n \notin ItemsOf(i) /\ n \notin ItemsOf(i)'
    BY <1>2, <1>4, <1>10 DEF ItemsOf
  <2>2. ItemsOf(i)' = ItemsOf(i)
    BY <1>9, <2>1
  <2> QED BY <1>2, <2>2, ValueKept
<1>11. Up /\ Up'
  BY <1>2, UpThen
<1>12. CASE id \notin Own
  <2>1. \A i \in Own : ValueOf(i)' = ValueOf(i)
    BY <1>10, <1>12
  <2> QED BY <1>2, <1>11, <2>1, MapStutter
<1>13. CASE id \in Own
  <2>1. t \in Adders(id)
    BY <1>2, <1>i DEF Adders, Adds
  <2>2. ItemsOf(id) = {}
    BY <1>13, <2>1, AddsCount
  <2>3. ValueOf(id) = NULL
    BY <2>2, ValueIs
  <2>4. ItemsOf(id)' = {n}
    BY <1>8, <1>9, <2>2
  <2>5. ValueOf(id)' = thr[t].val
    BY <1>2, <1>4, <2>4, ValueIs, OneInSingleton
  <2>6. \A i \in Own : ValueOf(i)' = IF i = id THEN thr[t].val ELSE ValueOf(i)
    BY <1>10, <2>5
  <2> QED BY <1>2, <1>3, <1>11, <1>13, <2>3, <2>6, MapPut
<1> QED BY <1>12, <1>13

(* The start and the end of the destruction are no step. *)
LEMMA MapProgram ==
  ASSUME UtilsHashDestroy \/ _context_final \/ UNCHANGED vars
  PROVE  [Map!Next]_(Map!vars)
<1>1. UNCHANGED <<item, thr, got>>
  BY DEF UtilsHashDestroy, _context_final, vars
<1>2. \A i \in Own : ValueOf(i)' = ValueOf(i)
  BY <1>1, ValuesSame DEF Unlinked
<1>3. Up' = Up
  <2>1. CASE UtilsHashDestroy \/ _context_final
    <3>1. status # "crashed" /\ status' # "crashed"
      BY <2>1 DEF UtilsHashDestroy, _context_final
    <3>2. Up = TRUE /\ Up' = TRUE
      BY <3>1 DEF Up
    <3> QED BY <3>2
  <2>2. CASE UNCHANGED vars
    BY <2>2 DEF vars, Up, AddsAgain
  <2> QED BY <2>1, <2>2
<1> QED BY <1>1, <1>2, <1>3, MapStutter

(* The map is empty at the start. *)
LEMMA MapStart == Init => Map!Init
<1> SUFFICES ASSUME Init PROVE Map!Init
  OBVIOUS
<1>1. /\ \A a \in Nodes : item[a] = NoItem
      /\ status = "up" /\ got = NULL
  BY DEF Init
<1>2. ASSUME NEW id PROVE ValueOf(id) = NULL
  <2>1. ItemsOf(id) = {}
    BY <1>1 DEF ItemsOf, Live
  <2> QED BY <2>1, ValueIs
<1>3. Up = TRUE
  BY <1>1 DEF Up
<1> QED BY <1>1, <1>2, <1>3 DEF Map!Init

(* Every step of the hash is one of KeyMap's or none. *)
LEMMA MapStep ==
  ASSUME IInv, [Next]_vars
  PROVE  [Map!Next]_(Map!vars)
<1>1. ASSUME NEW t \in Threads, Thread(t) PROVE [Map!Next]_(Map!vars)
  <2>1. CASE Call(t) \/ Lock(t) \/ Step(t) \/ UnlockedAdd(t)
    BY <2>1, MapSearch
  <2>2. CASE FoundReplace(t)
    BY <2>2, MapReplace
  <2>3. CASE FoundDel(t)
    BY <2>3, MapDel
  <2>4. CASE FoundGet(t) \/ Missed(t)
    BY <2>4, MapGets
  <2>5. CASE Unlocked(t)
    BY <2>5, MapUnlocked
  <2>6. CASE _item_init(t)
    BY <2>6, MapInit
  <2>7. CASE _add_item_to_list(t)
    BY <2>7, MapAdd
  <2> QED BY <1>1, <2>1, <2>2, <2>3, <2>4, <2>5, <2>6, <2>7 DEF Thread
<1>2. ASSUME NEW b \in Heads, _traverse_item_list(b) PROVE [Map!Next]_(Map!vars)
  BY <1>2, MapTraverse
<1>3. CASE UtilsHashDestroy \/ _context_final \/ UNCHANGED vars
  BY <1>3, MapProgram
<1> QED BY <1>1, <1>2, <1>3 DEF Next

(***************************************************************************)
(* Whatever other threads do to the buckets they share, the hash loses no  *)
(* key of one thread's, keeps none that was deleted, and a get returns the *)
(* value put last: seen through Map, every behaviour of Hash is one of     *)
(* KeyMap, which does not survive a second put of a key.                   *)
(***************************************************************************)
THEOREM HashImplementsKeyMap == Spec => MapSpec
<1>1. IInv /\ [Next]_vars => [Map!Next]_(Map!vars)
  BY MapStep
<1> QED BY MapStart, <1>1, IInvAlways, PTL DEF Spec, MapSpec, Map!Spec

-----------------------------------------------------------------------------
(* The operations of hy_list.h on sequences.                               *)

(* Places of u \o v. *)
LEMMA CatIs ==
  ASSUME NEW u \in Seq(Nodes), NEW v \in Seq(Nodes)
  PROVE  /\ u \o v \in Seq(Nodes) /\ Len(u) \in Nat /\ Len(v) \in Nat
         /\ Len(u \o v) = Len(u) + Len(v)
         /\ \A k \in 1..Len(u) : u[k] \in Nodes /\ (u \o v)[k] = u[k]
         /\ \A k \in 1..Len(v) : v[k] \in Nodes /\ (u \o v)[Len(u) + k] = v[k]
  OBVIOUS

(* a points at b, and b, if it is a struct, back at a. *)
Link(h, a, b) == h[a].next = b /\ (b # NULL => h[b].prev = a)

(* Each member of s points at the next. *)
Chained(h, s) == \A k \in 1..(Len(s) - 1) : Link(h, s[k], s[k + 1])

LastOf(a, u) == IF u = <<>> THEN a ELSE u[Len(u)]
FirstOf(v, e) == IF v = <<>> THEN e ELSE v[1]

(* From a through u; through v to e; and all the way. *)
From(h, a, u) == Chained(h, u) /\ (u # <<>> => Link(h, a, u[1]))
To(h, v, e) == Chained(h, v) /\ (v # <<>> => Link(h, v[Len(v)], e))
Path(h, a, p, e) == From(h, a, p) /\ Link(h, LastOf(a, p), e)

(* An empty sequence has no places. *)
LEMMA EmptyIs ==
  ASSUME NEW u \in Seq(Nodes)
  PROVE  /\ u = <<>> <=> Len(u) = 0
         /\ u # <<>> => 1 \in 1..Len(u) /\ Len(u) \in 1..Len(u)
         /\ u \o <<>> = u /\ <<>> \o u = u
  OBVIOUS

(* The last of one sequence, or of the one before it. *)
LEMMA EndsOfCat ==
  ASSUME NEW u \in Seq(Nodes), NEW v \in Seq(Nodes), NEW a, NEW e
  PROVE  /\ LastOf(a, u \o v) = LastOf(LastOf(a, u), v)
         /\ FirstOf(u \o v, e) = FirstOf(u, FirstOf(v, e))
<1>1. CASE u = <<>>
  BY <1>1, EmptyIs DEF LastOf, FirstOf
<1>2. CASE v = <<>>
  BY <1>2, EmptyIs DEF LastOf, FirstOf
<1>3. CASE u # <<>> /\ v # <<>>
  <2>1. u \o v # <<>> /\ (u \o v)[1] = u[1]
        /\ (u \o v)[Len(u \o v)] = v[Len(v)]
    BY <1>3, CatIs, EmptyIs
  <2> QED BY <1>3, <2>1 DEF LastOf, FirstOf
<1> QED BY <1>1, <1>2, <1>3

(* Two chains, one behind the other. *)
LEMMA ChainedCat ==
  ASSUME NEW u \in Seq(Nodes), NEW v \in Seq(Nodes), NEW h
  PROVE  Chained(h, u \o v) <=>
           /\ Chained(h, u) /\ Chained(h, v)
           /\ u # <<>> /\ v # <<>> => Link(h, u[Len(u)], v[1])
<1> DEFINE c == u \o v
<1>1. /\ c \in Seq(Nodes) /\ Len(u) \in Nat /\ Len(v) \in Nat
      /\ Len(c) = Len(u) + Len(v)
      /\ \A k \in 1..Len(u) : c[k] = u[k]
      /\ \A k \in 1..Len(v) : c[Len(u) + k] = v[k]
  BY CatIs
<1>2. (u = <<>> <=> Len(u) = 0) /\ (v = <<>> <=> Len(v) = 0)
  BY EmptyIs
<1> HIDE DEF c
<1>3. ASSUME Chained(h, c)
      PROVE  /\ Chained(h, u) /\ Chained(h, v)
             /\ u # <<>> /\ v # <<>> => Link(h, u[Len(u)], v[1])
  <2>1. ASSUME NEW k \in 1..(Len(u) - 1) PROVE Link(h, u[k], u[k + 1])
    <3>1. k \in 1..(Len(c) - 1) /\ c[k] = u[k] /\ c[k + 1] = u[k + 1]
      BY <1>1
    <3> QED BY <1>3, <3>1 DEF Chained
  <2>2. ASSUME NEW k \in 1..(Len(v) - 1) PROVE Link(h, v[k], v[k + 1])
    <3>1. /\ Len(u) + k \in 1..(Len(c) - 1) /\ c[Len(u) + k] = v[k]
          /\ c[(Len(u) + k) + 1] = v[k + 1]
      <4>1. (Len(u) + k) + 1 = Len(u) + (k + 1) /\ k + 1 \in 1..Len(v) /\ k \in 1..Len(v)
        BY <1>1
      <4> QED BY <1>1, <4>1
    <3> QED BY <1>3, <3>1 DEF Chained
  <2>3. ASSUME u # <<>>, v # <<>> PROVE Link(h, u[Len(u)], v[1])
    <3>1. /\ Len(u) \in 1..(Len(c) - 1) /\ c[Len(u)] = u[Len(u)] /\ c[Len(u) + 1] = v[1]
      BY <1>1, <1>2, <2>3
    <3> QED BY <1>3, <3>1 DEF Chained
  <2> QED BY <2>1, <2>2, <2>3 DEF Chained
<1>4. ASSUME Chained(h, u), Chained(h, v),
             u # <<>> /\ v # <<>> => Link(h, u[Len(u)], v[1])
      PROVE  Chained(h, c)
  <2>1. ASSUME NEW k \in 1..(Len(c) - 1) PROVE Link(h, c[k], c[k + 1])
    <3>1. CASE k < Len(u)
      <4>1. k \in 1..(Len(u) - 1) /\ c[k] = u[k] /\ c[k + 1] = u[k + 1]
        BY <1>1, <3>1
      <4> QED BY <1>4, <4>1 DEF Chained
    <3>2. CASE k = Len(u)
      <4>1. c[k] = u[Len(u)] /\ c[k + 1] = v[1] /\ u # <<>> /\ v # <<>>
        BY <1>1, <1>2, <3>2
      <4> QED BY <1>4, <4>1
    <3>3. CASE k > Len(u)
      <4> DEFINE j == k - Len(u)
      <4>1. j \in 1..(Len(v) - 1) /\ k = Len(u) + j /\ k + 1 = Len(u) + (j + 1)
        BY <1>1, <3>3
      <4>2. j \in 1..Len(v) /\ j + 1 \in 1..Len(v)
        BY <1>1, <4>1
      <4> HIDE DEF j
      <4>3. c[k] = v[j] /\ c[k + 1] = v[j + 1]
        BY <1>1, <4>1, <4>2
      <4> QED BY <1>4, <4>1, <4>3 DEF Chained
    <3> QED BY <1>1, <3>1, <3>2, <3>3
  <2> QED BY <2>1 DEF Chained
<1> QED BY <1>3, <1>4 DEF c

(* A path that is cut in two. *)
LEMMA PathJoin ==
  ASSUME NEW u \in Seq(Nodes), NEW v \in Seq(Nodes), NEW h, NEW a, NEW e
  PROVE  Path(h, a, u \o v, e) <=>
           From(h, a, u) /\ Link(h, LastOf(a, u), FirstOf(v, e)) /\ To(h, v, e)
<1>1. CASE v = <<>>
  <2>1. u \o v = u /\ Chained(h, v)
    <3>1. Len(v) = 0
      BY <1>1
    <3> QED BY <1>1, <3>1, EmptyIs DEF Chained
  <2> QED BY <1>1, <2>1 DEF Path, To, FirstOf
<1>2. CASE v # <<>> /\ u = <<>>
  <2>1. u \o v = v /\ Chained(h, u)
    <3>1. Len(u) = 0
      BY <1>2
    <3> QED BY <1>2, <3>1, EmptyIs DEF Chained
  <2> QED BY <1>2, <2>1 DEF Path, From, To, FirstOf, LastOf
<1>3. CASE v # <<>> /\ u # <<>>
  <2>1. /\ u \o v # <<>> /\ (u \o v)[1] = u[1]
        /\ (u \o v)[Len(u \o v)] = v[Len(v)]
    BY <1>3, CatIs, EmptyIs
  <2> QED BY <1>3, <2>1, ChainedCat DEF Path, From, To, FirstOf, LastOf
<1> QED BY <1>1, <1>2, <1>3

(* The members of two sequences. *)
LEMMA ElemsCat ==
  ASSUME NEW u \in Seq(Nodes), NEW v \in Seq(Nodes)
  PROVE  /\ Elems(u) \subseteq Nodes
         /\ Elems(u \o v) = Elems(u) \union Elems(v)
         /\ NoneTwice(u \o v) <=>
              NoneTwice(u) /\ NoneTwice(v) /\ Elems(u) \intersect Elems(v) = {}
<1> DEFINE c == u \o v
<1>1. /\ c \in Seq(Nodes) /\ Len(u) \in Nat /\ Len(v) \in Nat
      /\ Len(c) = Len(u) + Len(v)
      /\ \A k \in 1..Len(u) : u[k] \in Nodes /\ c[k] = u[k]
      /\ \A k \in 1..Len(v) : c[Len(u) + k] = v[k]
  BY CatIs
<1> HIDE DEF c
<1>2. \A k \in 1..Len(c) : \/ k \in 1..Len(u)
                           \/ k - Len(u) \in 1..Len(v) /\ k = Len(u) + (k - Len(u))
  BY <1>1
<1>3. /\ \A k \in 1..Len(u) : k \in 1..Len(c)
      /\ \A k \in 1..Len(v) : Len(u) + k \in 1..Len(c)
  BY <1>1
<1>4. Elems(u) \subseteq Nodes
  BY <1>1 DEF Elems
<1>5. Elems(c) = Elems(u) \union Elems(v)
  <2>1. ASSUME NEW x \in Elems(c) PROVE x \in Elems(u) \union Elems(v)
    <3>1. PICK k \in 1..Len(c) : x = c[k]
      BY DEF Elems
    <3>2. k \in 1..Len(u) => x = u[k]
      BY <1>1, <3>1
    <3>3. k - Len(u) \in 1..Len(v) /\ k = Len(u) + (k - Len(u)) => x = v[k - Len(u)]
      BY <1>1, <3>1
    <3> QED BY <1>2, <3>1, <3>2, <3>3 DEF Elems
  <2>2. ASSUME NEW x \in Elems(u) PROVE x \in Elems(c)
    BY <1>1, <1>3 DEF Elems
  <2>3. ASSUME NEW x \in Elems(v) PROVE x \in Elems(c)
    <3>1. PICK k \in 1..Len(v) : x = v[k]
      BY DEF Elems
    <3>2. Len(u) + k \in 1..Len(c) /\ c[Len(u) + k] = x
      BY <1>1, <1>3, <3>1
    <3> HIDE DEF c
    <3> QED BY <3>2 DEF Elems
  <2> QED BY <2>1, <2>2, <2>3
<1>6. ASSUME NoneTwice(c)
      PROVE  NoneTwice(u) /\ NoneTwice(v) /\ Elems(u) \intersect Elems(v) = {}
  <2>1. NoneTwice(u)
    BY <1>1, <1>3, <1>6 DEF NoneTwice
  <2>2. ASSUME NEW j \in 1..Len(v), NEW k \in 1..Len(v), v[j] = v[k] PROVE j = k
    <3>1. c[Len(u) + j] = c[Len(u) + k]
      BY <1>1, <2>2
    <3>2. Len(u) + j = Len(u) + k
      BY <1>3, <1>6, <3>1 DEF NoneTwice
    <3> QED BY <1>1, <3>2
  <2>3. ASSUME NEW j \in 1..Len(u), NEW k \in 1..Len(v), u[j] = v[k] PROVE FALSE
    <3>1. c[j] = c[Len(u) + k]
      BY <1>1, <2>3
    <3>2. j = Len(u) + k
      BY <1>3, <1>6, <3>1 DEF NoneTwice
    <3> QED BY <1>1, <3>2
  <2> QED BY <2>1, <2>2, <2>3 DEF NoneTwice, Elems
<1>7. ASSUME NoneTwice(u), NoneTwice(v), Elems(u) \intersect Elems(v) = {}
      PROVE  NoneTwice(c)
  <2>1. \A j \in 1..Len(u), k \in 1..Len(v) : u[j] # v[k]
    BY <1>7 DEF Elems
  <2>2. ASSUME NEW j \in 1..Len(c), NEW k \in 1..Len(c), c[j] = c[k] PROVE j = k
    <3>1. CASE j \in 1..Len(u) /\ k \in 1..Len(u)
      BY <1>1, <1>7, <2>2, <3>1 DEF NoneTwice
    <3>2. CASE j \in 1..Len(u) /\ k \notin 1..Len(u)
      <4>1. k - Len(u) \in 1..Len(v) /\ k = Len(u) + (k - Len(u))
        BY <1>2, <3>2
      <4>2. u[j] = v[k - Len(u)]
        BY <1>1, <2>2, <3>2, <4>1
      <4> QED BY <2>1, <3>2, <4>1, <4>2
    <3>3. CASE j \notin 1..Len(u) /\ k \in 1..Len(u)
      <4>1. j - Len(u) \in 1..Len(v) /\ j = Len(u) + (j - Len(u))
        BY <1>2, <3>3
      <4>2. u[k] = v[j - Len(u)]
        BY <1>1, <2>2, <3>3, <4>1
      <4> QED BY <2>1, <3>3, <4>1, <4>2
    <3>4. CASE j \notin 1..Len(u) /\ k \notin 1..Len(u)
      <4>1. /\ j - Len(u) \in 1..Len(v) /\ j = Len(u) + (j - Len(u))
            /\ k - Len(u) \in 1..Len(v) /\ k = Len(u) + (k - Len(u))
        BY <1>2, <3>4
      <4>2. v[j - Len(u)] = v[k - Len(u)]
        BY <1>1, <2>2, <4>1
      <4>3. j - Len(u) = k - Len(u)
        BY <1>7, <4>1, <4>2 DEF NoneTwice
      <4> QED BY <4>1, <4>3
    <3> QED BY <3>1, <3>2, <3>3, <3>4
  <2> QED BY <2>2 DEF NoneTwice
<1> QED BY <1>4, <1>5, <1>6, <1>7 DEF c

(* From h to g, next was written at A at most, and prev at B. *)
Differ(h, g, A, B) ==
  \A s \in Structs : /\ s \notin A => g[s].next = h[s].next
                     /\ s \notin B => g[s].prev = h[s].prev

(* What is first and last is a member. *)
LEMMA EndsIn ==
  ASSUME NEW u \in Seq(Nodes), NEW a
  PROVE  /\ LastOf(a, u) \in {a} \union Elems(u)
         /\ FirstOf(u, a) \in {a} \union Elems(u)
         /\ u # <<>> => u[1] \in Elems(u) /\ u[Len(u)] \in Elems(u)
                        /\ LastOf(a, u) = u[Len(u)] /\ FirstOf(u, a) = u[1]
  BY EmptyIs DEF LastOf, FirstOf, Elems

(* Assignments to the last next, and none to prev, leave the beginning. *)
LEMMA FromFrame ==
  ASSUME NEW h, NEW g, NEW A, NEW B, Differ(h, g, A, B),
         NEW a \in Heads, NEW u \in Seq(Nodes), NoneTwice(u), From(h, a, u),
         A \intersect ({a} \union Elems(u)) \subseteq {LastOf(a, u)},
         B \intersect Elems(u) = {}
  PROVE  From(g, a, u)
<1>1. /\ Len(u) \in Nat /\ \A k \in 1..Len(u) : u[k] \in Structs /\ u[k] \in Nodes
      /\ a \in Structs /\ a \notin Nodes
  BY ListAssumption DEF Structs
<1>2. \A k \in 1..Len(u) : u[k] \notin B
  BY DEF Elems
<1>3. ASSUME NEW k \in 1..(Len(u) - 1) PROVE Link(g, u[k], u[k + 1])
  <2>1. k \in 1..Len(u) /\ k + 1 \in 1..Len(u) /\ k # Len(u) /\ Len(u) \in 1..Len(u) /\ u # <<>>
    BY <1>1, EmptyIs
  <2>2. u[k] # u[Len(u)]
    BY <2>1 DEF NoneTwice
  <2>3. u[k] \notin A
    BY <2>1, <2>2 DEF Elems, LastOf
  <2>4. Link(h, u[k], u[k + 1])
    BY DEF From, Chained
  <2> QED BY <1>1, <1>2, <2>1, <2>3, <2>4 DEF Link, Differ
<1>4. ASSUME u # <<>> PROVE Link(g, a, u[1])
  <2>1. 1 \in 1..Len(u) /\ LastOf(a, u) = u[Len(u)] /\ Len(u) \in 1..Len(u)
    BY <1>4, EmptyIs DEF LastOf
  <2>2. a \notin A
    BY <1>1, <2>1
  <2>3. Link(h, a, u[1])
    BY <1>4 DEF From
  <2> QED BY <1>1, <1>2, <2>1, <2>2, <2>3 DEF Link, Differ
<1> QED BY <1>3, <1>4 DEF From, Chained

(* Assignments to the first prev, and none to next, leave the end. *)
LEMMA ToFrame ==
  ASSUME NEW h, NEW g, NEW A, NEW B, Differ(h, g, A, B),
         NEW e \in Heads \union {NULL}, NEW v \in Seq(Nodes), NoneTwice(v), To(h, v, e),
         A \intersect Elems(v) = {},
         B \intersect ({e} \union Elems(v)) \subseteq {FirstOf(v, e)}
  PROVE  To(g, v, e)
<1>1. /\ Len(v) \in Nat /\ \A k \in 1..Len(v) : v[k] \in Structs /\ v[k] \in Nodes
      /\ (e # NULL => e \in Structs) /\ e \notin Nodes
  BY ListAssumption DEF Structs
<1>2. \A k \in 1..Len(v) : v[k] \notin A
  BY DEF Elems
<1>3. ASSUME NEW k \in 1..(Len(v) - 1) PROVE Link(g, v[k], v[k + 1])
  <2>1. k \in 1..Len(v) /\ k + 1 \in 1..Len(v) /\ k + 1 # 1 /\ 1 \in 1..Len(v) /\ v # <<>>
    BY <1>1, EmptyIs
  <2>2. v[k + 1] # v[1]
    BY <2>1 DEF NoneTwice
  <2>3. v[k + 1] \notin B
    BY <2>1, <2>2 DEF Elems, FirstOf
  <2>4. Link(h, v[k], v[k + 1])
    BY DEF To, Chained
  <2> QED BY <1>1, <1>2, <2>1, <2>3, <2>4 DEF Link, Differ
<1>4. ASSUME v # <<>> PROVE Link(g, v[Len(v)], e)
  <2>1. 1 \in 1..Len(v) /\ FirstOf(v, e) = v[1] /\ Len(v) \in 1..Len(v)
    BY <1>4, EmptyIs DEF FirstOf
  <2>2. e \notin B
    BY <1>1, <2>1
  <2>3. Link(h, v[Len(v)], e)
    BY <1>4 DEF To
  <2> QED BY <1>1, <1>2, <2>1, <2>2, <2>3 DEF Link, Differ
<1> QED BY <1>3, <1>4 DEF To, Chained

(* A list at a ends at a, an hlist at NULL. *)
EndOf(a, e) == e \in {a, NULL}

(* A path made of the beginning of one, of m, and of the end of one. *)
LEMMA Stitch ==
  ASSUME NEW h, NEW g, NEW A, NEW B, Differ(h, g, A, B),
         NEW a \in Heads, NEW e, EndOf(a, e),
         NEW u \in Seq(Nodes), NEW m \in Seq(Nodes), NEW v \in Seq(Nodes),
         NoneTwice(u \o (m \o v)), From(h, a, u), To(h, v, e), Chained(g, m),
         A \intersect ({a} \union Elems(u) \union Elems(v)) \subseteq {LastOf(a, u)},
         B \intersect ({e} \union Elems(u) \union Elems(v)) \subseteq {FirstOf(v, e)},
         Link(g, LastOf(a, u), FirstOf(m, FirstOf(v, e))),
         Link(g, LastOf(LastOf(a, u), m), FirstOf(v, e))
  PROVE  Path(g, a, u \o (m \o v), e)
<1>1. m \o v \in Seq(Nodes) /\ a \notin Nodes /\ e \notin Nodes /\ e \in Heads \union {NULL}
  BY CatIs, ListAssumption DEF EndOf
<1>2. /\ NoneTwice(u) /\ NoneTwice(v) /\ Elems(u) \intersect Elems(v) = {}
      /\ Elems(u) \subseteq Nodes /\ Elems(v) \subseteq Nodes
  BY <1>1, ElemsCat
<1>3. From(g, a, u)
  <2>1. FirstOf(v, e) \notin Elems(u)
    BY <1>1, <1>2, EndsIn
  <2>2. B \intersect Elems(u) = {}
    BY <2>1
  <2>3. A \intersect ({a} \union Elems(u)) \subseteq {LastOf(a, u)}
    OBVIOUS
  <2> QED BY <1>2, <2>2, <2>3, FromFrame
<1>4. To(g, v, e)
  <2>1. LastOf(a, u) \notin Elems(v)
    BY <1>1, <1>2, EndsIn
  <2>2. A \intersect Elems(v) = {}
    BY <2>1
  <2>3. B \intersect ({e} \union Elems(v)) \subseteq {FirstOf(v, e)}
    OBVIOUS
  <2> QED BY <1>1, <1>2, <2>2, <2>3, ToFrame
<1>5. To(g, m \o v, e)
  <2>1. CASE m = <<>>
    BY <1>4, <2>1, EmptyIs
  <2>2. CASE m # <<>>
    <3>1. LastOf(LastOf(a, u), m) = m[Len(m)]
      BY <2>2 DEF LastOf
    <3>2. CASE v = <<>>
      BY <2>2, <3>1, <3>2, EmptyIs DEF To, FirstOf
    <3>3. CASE v # <<>>
      <4>1. m \o v # <<>> /\ (m \o v)[Len(m \o v)] = v[Len(v)]
        BY <2>2, <3>3, CatIs, EmptyIs
      <4>2. Chained(g, m \o v)
        BY <1>4, <3>1, <3>3, ChainedCat DEF To, FirstOf
      <4> QED BY <1>4, <3>3, <4>1, <4>2 DEF To
    <3> QED BY <3>2, <3>3
  <2> QED BY <2>1, <2>2
<1>6. Link(g, LastOf(a, u), FirstOf(m \o v, e))
  BY EndsOfCat
<1> QED BY <1>1, <1>3, <1>5, <1>6, PathJoin

(* From h to g, m took the place of o between u and v. *)
Took(h, g, a, u, o, m, v, e) ==
  /\ Differ(h, g, {LastOf(a, u)} \union Elems(o) \union Elems(m),
                  {FirstOf(v, e)} \union Elems(o) \union Elems(m))
  /\ Chained(g, m)
  /\ Link(g, LastOf(a, u), FirstOf(m, FirstOf(v, e)))
  /\ Link(g, LastOf(LastOf(a, u), m), FirstOf(v, e))

(* In h, u o v is a path from a to e; in g, m has taken the place of o. *)
Exchanged(h, g, a, u, o, m, v, e) ==
  /\ EndOf(a, e) /\ NoneTwice(u \o (o \o v)) /\ Path(h, a, u \o (o \o v), e)
  /\ NoneTwice(m) /\ Elems(m) \intersect (Elems(u) \union Elems(v)) = {}
  /\ Took(h, g, a, u, o, m, v, e)

(* A path in which m took the place of o: its members are those, and only  *)
(* next in front of o and prev behind it were written besides.             *)
LEMMA Exchange ==
  ASSUME NEW h, NEW g, NEW a \in Heads, NEW e,
         NEW u \in Seq(Nodes), NEW o \in Seq(Nodes), NEW v \in Seq(Nodes),
         NEW m \in Seq(Nodes), Exchanged(h, g, a, u, o, m, v, e)
  PROVE  /\ u \o (m \o v) \in Seq(Nodes) /\ NoneTwice(u \o (m \o v))
         /\ Elems(u \o (m \o v)) = Elems(u) \union Elems(m) \union Elems(v)
         /\ Path(g, a, u \o (m \o v), e)
<1> DEFINE A == {LastOf(a, u)} \union Elems(o) \union Elems(m)
           B == {FirstOf(v, e)} \union Elems(o) \union Elems(m)
<1>0. /\ Differ(h, g, A, B) /\ Chained(g, m)
      /\ Link(g, LastOf(a, u), FirstOf(m, FirstOf(v, e)))
      /\ Link(g, LastOf(LastOf(a, u), m), FirstOf(v, e))
  BY DEF Exchanged, Took
<1>a. /\ EndOf(a, e) /\ NoneTwice(u \o (o \o v)) /\ Path(h, a, u \o (o \o v), e)
      /\ NoneTwice(m) /\ Elems(m) \intersect (Elems(u) \union Elems(v)) = {}
  BY DEF Exchanged
<1>1. o \o v \in Seq(Nodes) /\ m \o v \in Seq(Nodes) /\ a \notin Nodes /\ e \notin Nodes
  BY <1>a, CatIs, ListAssumption DEF EndOf
<1>2. /\ NoneTwice(u) /\ NoneTwice(o \o v)
      /\ Elems(u) \intersect Elems(o \o v) = {}
      /\ NoneTwice(o) /\ NoneTwice(v) /\ Elems(o) \intersect Elems(v) = {}
      /\ Elems(o \o v) = Elems(o) \union Elems(v)
      /\ Elems(u) \subseteq Nodes /\ Elems(v) \subseteq Nodes /\ Elems(o) \subseteq Nodes
      /\ Elems(m) \subseteq Nodes
  BY <1>a, <1>1, ElemsCat
<1>3. /\ NoneTwice(m \o v) /\ Elems(m \o v) = Elems(m) \union Elems(v)
      /\ NoneTwice(u \o (m \o v))
      /\ Elems(u \o (m \o v)) = Elems(u) \union Elems(m) \union Elems(v)
  <2>1. NoneTwice(m \o v) /\ Elems(m \o v) = Elems(m) \union Elems(v)
    BY <1>a, <1>2, ElemsCat
  <2>2. Elems(u) \intersect Elems(m \o v) = {}
    BY <1>a, <1>2, <2>1
  <2> QED BY <1>a, <1>1, <1>2, <2>1, <2>2, ElemsCat
<1>4. From(h, a, u) /\ To(h, o \o v, e)
  BY <1>a, <1>1, PathJoin
<1>5. To(h, v, e)
  <2>1. CASE o = <<>>
    BY <1>4, <2>1, EmptyIs
  <2>2. CASE o # <<>> /\ v = <<>>
    <3>1. Len(v) = 0
      BY <2>2
    <3> QED BY <2>2, <3>1 DEF To, Chained
  <2>3. CASE o # <<>> /\ v # <<>>
    <3>1. o \o v # <<>> /\ (o \o v)[Len(o \o v)] = v[Len(v)]
      BY <2>3, CatIs, EmptyIs
    <3> QED BY <1>4, <3>1, ChainedCat DEF To
  <2> QED BY <2>1, <2>2, <2>3
<1>6. A \intersect ({a} \union Elems(u) \union Elems(v)) \subseteq {LastOf(a, u)}
  BY <1>a, <1>1, <1>2
<1>7. B \intersect ({e} \union Elems(u) \union Elems(v)) \subseteq {FirstOf(v, e)}
  BY <1>a, <1>1, <1>2
<1>8. Path(g, a, u \o (m \o v), e)
  <2> HIDE DEF A, B
  <2> QED BY <1>a, <1>0, <1>3, <1>4, <1>5, <1>6, <1>7, Stitch
<1>9. u \o (m \o v) \in Seq(Nodes)
  BY <1>1, CatIs
<1> QED BY <1>3, <1>8, <1>9

(* A path that nothing was written to. *)
LEMMA PathFrame ==
  ASSUME NEW h, NEW g, NEW a \in Heads, NEW e, EndOf(a, e),
         NEW p \in Seq(Nodes), NoneTwice(p), Path(h, a, p, e),
         \A s \in {a} \union Elems(p) : g[s].next = h[s].next /\ g[s].prev = h[s].prev
  PROVE  Path(g, a, p, e)
<1>1. LastOf(a, p) \in {a} \union Elems(p) /\ Elems(p) \subseteq Nodes
  BY EndsIn, ElemsCat
<1>2. From(g, a, p)
  <2> DEFINE A == Structs \ ({a} \union Elems(p))
  <2>1. Differ(h, g, A, A) /\ A \intersect ({a} \union Elems(p)) = {}
    BY DEF Differ
  <2> HIDE DEF A
  <2>2. A \intersect ({a} \union Elems(p)) \subseteq {LastOf(a, p)} /\ A \intersect Elems(p) = {}
    BY <2>1
  <2> QED BY <2>1, <2>2, FromFrame DEF Path
<1>3. Link(g, LastOf(a, p), e)
  BY <1>1 DEF Path, Link, EndOf
<1> QED BY <1>2, <1>3 DEF Path

(* What a member points at. *)
LEMMA PathAt ==
  ASSUME NEW h, NEW a, NEW e, NEW n \in Nodes,
         NEW u \in Seq(Nodes), NEW v \in Seq(Nodes), Path(h, a, u \o (<<n>> \o v), e)
  PROVE  Link(h, LastOf(a, u), n) /\ Link(h, n, FirstOf(v, e))
<1>1. /\ <<n>> \in Seq(Nodes) /\ Len(<<n>>) = 1 /\ <<n>>[1] = n /\ <<n>> # <<>>
      /\ <<n>> \o v \in Seq(Nodes)
  BY CatIs
<1>2. /\ Link(h, LastOf(a, u), FirstOf(<<n>> \o v, e)) /\ To(h, <<n>> \o v, e)
  BY <1>1, PathJoin
<1>3. <<n>> \o v # <<>> /\ (<<n>> \o v)[1] = n /\ (<<n>> \o v)[Len(<<n>> \o v)] = LastOf(n, v)
  BY <1>1, EndsOfCat, CatIs, EmptyIs DEF LastOf
<1>4. Link(h, n, FirstOf(v, e))
  <2>1. CASE v = <<>>
    BY <1>2, <1>3, <2>1 DEF To, LastOf, FirstOf
  <2>2. CASE v # <<>>
    BY <1>1, <1>2, <2>2, ChainedCat DEF To, FirstOf
  <2> QED BY <2>1, <2>2
<1> QED BY <1>2, <1>3, <1>4 DEF FirstOf

(* From h to g, to was assigned to the next of s, or to its prev. *)
NextTo(h, g, s, to) == Differ(h, g, {s}, {}) /\ g[s].next = to
PrevTo(h, g, s, to) == Differ(h, g, {}, {s}) /\ g[s].prev = to

(* This is what an assignment does. *)
LEMMA WritesNext ==
  ASSUME NEW h \in Heaps, NEW s \in Structs, NEW to \in Pointers
  PROVE  SetNext(h, s, to) \in Heaps /\ NextTo(h, SetNext(h, s, to), s, to)
  BY SetNextFacts DEF NextTo, Differ

(* And one to prev. *)
LEMMA WritesPrev ==
  ASSUME NEW h \in Heaps, NEW s \in Structs, NEW to \in Pointers
  PROVE  SetPrev(h, s, to) \in Heaps /\ PrevTo(h, SetPrev(h, s, to), s, to)
  BY SetPrevFacts DEF PrevTo, Differ

(* A struct is a pointer. *)
LEMMA StructsPoint == Structs \subseteq Pointers /\ NULL \notin Structs /\ NULL \in Pointers
  BY ListAssumption DEF Structs, Pointers

(* __list_add links new to both. *)
LEMMA AddWrites ==
  ASSUME NEW h \in Heaps, NEW new \in Structs, NEW prev \in Structs \ {new},
         NEW next \in Structs \ {new}
  PROVE  LET g == __list_add(h, new, prev, next)
         IN /\ g \in Heaps /\ Link(g, prev, new) /\ Link(g, new, next)
            /\ Differ(h, g, {prev, new}, {new, next})
<1> DEFINE h1 == SetPrev(h, next, new)
           h2 == SetNext(h1, new, next)
           h3 == SetPrev(h2, new, prev)
           g == SetNext(h3, prev, new)
<1>1. h1 \in Heaps /\ PrevTo(h, h1, next, new)
  BY WritesPrev, StructsPoint
<1> HIDE DEF h1
<1>2. h2 \in Heaps /\ NextTo(h1, h2, new, next)
  BY <1>1, WritesNext, StructsPoint
<1> HIDE DEF h2
<1>3. h3 \in Heaps /\ PrevTo(h2, h3, new, prev)
  BY <1>2, WritesPrev, StructsPoint
<1> HIDE DEF h3
<1>4. g \in Heaps /\ NextTo(h3, g, prev, new)
  BY <1>3, WritesNext, StructsPoint
<1>5. g = __list_add(h, new, prev, next)
  BY DEF g, h3, h2, h1, __list_add
<1> HIDE DEF g
<1>6. Link(g, prev, new) /\ Link(g, new, next)
  BY <1>1, <1>2, <1>3, <1>4 DEF Link, Differ, NextTo, PrevTo
<1>7. Differ(h, g, {prev, new}, {new, next})
  BY <1>1, <1>2, <1>3, <1>4 DEF Differ, NextTo, PrevTo
<1> QED BY <1>4, <1>5, <1>6, <1>7

(* __list_del links prev and next. *)
LEMMA DelWrites ==
  ASSUME NEW h \in Heaps, NEW prev \in Structs, NEW next \in Structs
  PROVE  LET g == __list_del(h, prev, next)
         IN /\ g \in Heaps /\ Link(g, prev, next) /\ Differ(h, g, {prev}, {next})
<1> DEFINE h1 == SetPrev(h, next, prev)
           g == SetNext(h1, prev, next)
<1>1. h1 \in Heaps /\ PrevTo(h, h1, next, prev)
  BY WritesPrev, StructsPoint
<1> HIDE DEF h1
<1>2. g \in Heaps /\ NextTo(h1, g, prev, next)
  BY <1>1, WritesNext, StructsPoint
<1>3. g = __list_del(h, prev, next)
  BY DEF g, h1, __list_del
<1> HIDE DEF g
<1> QED BY <1>1, <1>2, <1>3 DEF Link, Differ, NextTo, PrevTo

(* Both pointers of an entry are written. *)
LEMMA BothWritten ==
  ASSUME NEW h \in Heaps, NEW s \in Structs, NEW a \in Pointers, NEW b \in Pointers
  PROVE  LET g == [h EXCEPT ![s] = [next |-> a, prev |-> b]]
         IN g \in Heaps /\ Differ(h, g, {s}, {s}) /\ g[s].next = a /\ g[s].prev = b
  BY DEF Heaps, Differ, Structs

(* INIT_LIST_HEAD leaves a struct alone with itself. *)
LEMMA InitWrites ==
  ASSUME NEW h \in Heaps, NEW s \in Structs
  PROVE  LET g == INIT_LIST_HEAD(h, s)
         IN g \in Heaps /\ Differ(h, g, {s}, {s}) /\ Link(g, s, s)
<1> DEFINE h1 == SetNext(h, s, s)
           g == SetPrev(h1, s, s)
<1>1. h1 \in Heaps /\ NextTo(h, h1, s, s)
  BY WritesNext, StructsPoint
<1> HIDE DEF h1
<1>2. g \in Heaps /\ PrevTo(h1, g, s, s)
  BY <1>1, WritesPrev, StructsPoint
<1>3. g = INIT_LIST_HEAD(h, s)
  BY DEF g, h1, INIT_LIST_HEAD
<1> HIDE DEF g
<1> QED BY <1>1, <1>2, <1>3 DEF Link, Differ, NextTo, PrevTo

(* Two lists, or hlists, of different entries; kind says which. *)
End(kind, x) == IF kind = "list" THEN x ELSE NULL

Two(kind, h, x, p, y, q) ==
  /\ h \in Heaps /\ p \in Seq(Nodes) /\ q \in Seq(Nodes)
  /\ NoneTwice(p) /\ NoneTwice(q) /\ Elems(p) \intersect Elems(q) = {}
  /\ Path(h, x, p, End(kind, x)) /\ Path(h, y, q, End(kind, y))

(* Either of them may be named first. *)
LEMMA TwoSwap ==
  ASSUME NEW kind, NEW h, NEW x, NEW p, NEW y, NEW q, Two(kind, h, x, p, y, q)
  PROVE  Two(kind, h, y, q, x, p)
  BY DEF Two

(* Exchange, with another list beside. *)
LEMMA TwoExchange ==
  ASSUME NEW kind, NEW h, NEW g \in Heaps,
         NEW x \in Heads, NEW y \in Heads, x # y,
         NEW u \in Seq(Nodes), NEW o \in Seq(Nodes), NEW v \in Seq(Nodes),
         NEW m \in Seq(Nodes), NEW q,
         Two(kind, h, x, u \o (o \o v), y, q),
         NoneTwice(m), Elems(m) \intersect (Elems(u) \union Elems(v) \union Elems(q)) = {},
         Took(h, g, x, u, o, m, v, End(kind, x))
  PROVE  Two(kind, g, x, u \o (m \o v), y, q)
<1>1. PICK e : e = End(kind, x) /\ EndOf(x, e)
  BY DEF End, EndOf
<1>2. PICK f : f = End(kind, y) /\ EndOf(y, f)
  BY DEF End, EndOf
<1>3. /\ Path(h, x, u \o (o \o v), e) /\ NoneTwice(u \o (o \o v)) /\ Path(h, y, q, f)
      /\ q \in Seq(Nodes) /\ NoneTwice(q) /\ Elems(u \o (o \o v)) \intersect Elems(q) = {}
  BY <1>1, <1>2 DEF Two
<1>4. Took(h, g, x, u, o, m, v, e) /\ Elems(m) \intersect (Elems(u) \union Elems(v)) = {}
  BY <1>1
<1>5. /\ u \o (m \o v) \in Seq(Nodes) /\ NoneTwice(u \o (m \o v))
      /\ Elems(u \o (m \o v)) = Elems(u) \union Elems(m) \union Elems(v)
      /\ Path(g, x, u \o (m \o v), e)
  <2>1. Exchanged(h, g, x, u, o, m, v, e)
    BY <1>1, <1>3, <1>4 DEF Exchanged
  <2> QED BY <2>1, Exchange
<1>6. /\ Elems(u \o (o \o v)) = Elems(u) \union Elems(o) \union Elems(v)
      /\ Elems(u) \subseteq Nodes /\ Elems(v) \subseteq Nodes
      /\ Elems(m) \subseteq Nodes /\ Elems(q) \subseteq Nodes /\ Elems(o) \subseteq Nodes
  <2>1. o \o v \in Seq(Nodes)
    BY CatIs
  <2>2. Elems(o \o v) = Elems(o) \union Elems(v) /\ Elems(o) \subseteq Nodes
    BY ElemsCat
  <2>3. Elems(u \o (o \o v)) = Elems(u) \union Elems(o \o v) /\ Elems(u) \subseteq Nodes
    BY <2>1, ElemsCat
  <2>4. \A s \in Seq(Nodes) : Elems(s) \subseteq Nodes
    BY DEF Elems
  <2> QED BY <1>3, <2>2, <2>3, <2>4
<1>7. Elems(q) \intersect (Elems(u) \union Elems(o) \union Elems(m) \union Elems(v)) = {}
  BY <1>3, <1>6
<1>8. LastOf(x, u) \in {x} \union Elems(u) /\ FirstOf(v, e) \in {e} \union Elems(v)
  BY EndsIn
<1>9. Path(g, y, q, f)
  <2>1. x \notin Nodes /\ y \notin Nodes /\ NULL \notin Nodes /\ NULL # y
    BY ListAssumption
  <2> DEFINE A == {LastOf(x, u)} \union Elems(o) \union Elems(m)
             B == {FirstOf(v, e)} \union Elems(o) \union Elems(m)
  <2>2. (A \union B) \intersect ({y} \union Elems(q)) = {}
    BY <1>1, <1>6, <1>7, <1>8, <2>1 DEF EndOf
  <2>3. Differ(h, g, A, B)
    BY <1>4 DEF Took
  <2>4. {y} \union Elems(q) \subseteq Structs
    BY <1>6 DEF Structs
  <2> HIDE DEF A, B
  <2>5. \A s \in {y} \union Elems(q) : g[s].next = h[s].next /\ g[s].prev = h[s].prev
    BY <2>2, <2>3, <2>4 DEF Differ
  <2> QED BY <1>2, <1>3, <2>5, PathFrame
<1>10. Elems(u \o (m \o v)) \intersect Elems(q) = {}
  BY <1>5, <1>7
<1> QED BY <1>1, <1>2, <1>3, <1>5, <1>9, <1>10 DEF Two

(* One entry as a sequence. *)
LEMMA OneIs ==
  ASSUME NEW n \in Nodes
  PROVE  /\ <<n>> \in Seq(Nodes) /\ NoneTwice(<<n>>) /\ Elems(<<n>>) = {n}
         /\ \A a : LastOf(a, <<n>>) = n /\ FirstOf(<<n>>, a) = n
         /\ \A h : Chained(h, <<n>>)
<1>1. <<n>> \in Seq(Nodes) /\ Len(<<n>>) = 1 /\ <<n>>[1] = n /\ <<n>> # <<>>
  OBVIOUS
<1>2. \A k \in 1..1 : k = 1
  OBVIOUS
<1>3. Elems(<<n>>) = {n}
  BY <1>1, <1>2 DEF Elems
<1>4. NoneTwice(<<n>>)
  BY <1>1, <1>2 DEF NoneTwice
<1>5. \A h : Chained(h, <<n>>)
  BY <1>1 DEF Chained
<1> QED BY <1>1, <1>3, <1>4, <1>5 DEF LastOf, FirstOf

(* No entry as a sequence. *)
LEMMA NoneIs ==
  /\ <<>> \in Seq(Nodes) /\ NoneTwice(<<>>) /\ Elems(<<>>) = {}
  /\ \A a : LastOf(a, <<>>) = a /\ FirstOf(<<>>, a) = a
  /\ \A h : Chained(h, <<>>)
  BY DEF NoneTwice, Elems, LastOf, FirstOf, Chained

(* An entry is linked in. *)
LEMMA TwoAdd ==
  ASSUME NEW kind, NEW h, NEW g \in Heaps,
         NEW x \in Heads, NEW y \in Heads, x # y,
         NEW u \in Seq(Nodes), NEW v \in Seq(Nodes), NEW q,
         Two(kind, h, x, u \o v, y, q),
         NEW n \in Nodes, n \notin Elems(u \o v), n \notin Elems(q),
         Differ(h, g, {LastOf(x, u), n}, {n, FirstOf(v, End(kind, x))}),
         Link(g, LastOf(x, u), n), Link(g, n, FirstOf(v, End(kind, x)))
  PROVE  Two(kind, g, x, u \o (<<n>> \o v), y, q)
<1> DEFINE o == <<>>
           m == <<n>>
           e == End(kind, x)
<1>1. /\ m \in Seq(Nodes) /\ NoneTwice(m) /\ Elems(m) = {n} /\ Chained(g, m)
      /\ LastOf(LastOf(x, u), m) = n /\ FirstOf(m, FirstOf(v, e)) = n
  BY OneIs
<1>2. o \in Seq(Nodes) /\ o \o v = v /\ Elems(o) = {}
  BY EmptyIs, NoneIs
<1>3. Elems(u \o v) = Elems(u) \union Elems(v)
  BY ElemsCat
<1>4. Two(kind, h, x, u \o (o \o v), y, q)
  BY <1>2
<1>5. Elems(m) \intersect (Elems(u) \union Elems(v) \union Elems(q)) = {}
  BY <1>1, <1>3
<1>6. Took(h, g, x, u, o, m, v, e)
  <2>1. /\ {LastOf(x, u)} \union Elems(o) \union Elems(m) = {LastOf(x, u), n}
        /\ {FirstOf(v, e)} \union Elems(o) \union Elems(m) = {n, FirstOf(v, e)}
    BY <1>1, <1>2
  <2> HIDE DEF o, m
  <2> QED BY <1>1, <2>1 DEF Took
<1> HIDE DEF o, m
<1>7. Two(kind, g, x, u \o (m \o v), y, q)
  BY <1>1, <1>2, <1>4, <1>5, <1>6, TwoExchange
<1> QED BY <1>7 DEF m

(* An entry is taken out. *)
LEMMA TwoDel ==
  ASSUME NEW kind, NEW h, NEW g \in Heaps,
         NEW x \in Heads, NEW y \in Heads, x # y,
         NEW u \in Seq(Nodes), NEW v \in Seq(Nodes), NEW q, NEW n \in Nodes,
         Two(kind, h, x, u \o (<<n>> \o v), y, q),
         Differ(h, g, {LastOf(x, u), n}, {n, FirstOf(v, End(kind, x))}),
         Link(g, LastOf(x, u), FirstOf(v, End(kind, x)))
  PROVE  /\ Two(kind, g, x, u \o v, y, q)
         /\ n \notin Elems(u \o v) /\ n \notin Elems(q)
<1> DEFINE o == <<n>>
           m == <<>>
           e == End(kind, x)
<1>1. o \in Seq(Nodes) /\ Elems(o) = {n} /\ o \o v \in Seq(Nodes)
  BY OneIs, CatIs
<1>2. /\ m \in Seq(Nodes) /\ m \o v = v /\ NoneTwice(m) /\ Elems(m) = {} /\ Chained(g, m)
      /\ LastOf(LastOf(x, u), m) = LastOf(x, u)
      /\ FirstOf(m, FirstOf(v, e)) = FirstOf(v, e)
  BY NoneIs, EmptyIs
<1>3. Two(kind, h, x, u \o (o \o v), y, q)
  OBVIOUS
<1>4. Elems(m) \intersect (Elems(u) \union Elems(v) \union Elems(q)) = {}
  BY <1>2
<1>5. Took(h, g, x, u, o, m, v, e)
  <2>1. /\ {LastOf(x, u)} \union Elems(o) \union Elems(m) = {LastOf(x, u), n}
        /\ {FirstOf(v, e)} \union Elems(o) \union Elems(m) = {n, FirstOf(v, e)}
    BY <1>1, <1>2
  <2> HIDE DEF o, m
  <2> QED BY <1>2, <2>1 DEF Took
<1>6. n \notin Elems(u \o v) /\ n \notin Elems(q)
  <2>1. NoneTwice(u \o (o \o v)) /\ Elems(u \o (o \o v)) \intersect Elems(q) = {}
    BY <1>3 DEF Two
  <2>2. /\ Elems(u) \intersect Elems(o \o v) = {} /\ Elems(o \o v) = Elems(o) \union Elems(v)
        /\ NoneTwice(o \o v) /\ Elems(u \o (o \o v)) = Elems(u) \union Elems(o \o v)
    BY <1>1, <2>1, ElemsCat
  <2>3. Elems(o) \intersect Elems(v) = {}
    BY <1>1, <2>2, ElemsCat
  <2>4. Elems(u \o v) = Elems(u) \union Elems(v)
    BY ElemsCat
  <2> QED BY <1>1, <2>1, <2>2, <2>3, <2>4
<1> HIDE DEF o, m
<1>7. Two(kind, g, x, u \o (m \o v), y, q)
  BY <1>1, <1>2, <1>3, <1>4, <1>5, TwoExchange
<1> QED BY <1>2, <1>6, <1>7

(* Something else is written. *)
LEMMA TwoFrame ==
  ASSUME NEW kind, NEW h, NEW g \in Heaps, NEW A, NEW B, Differ(h, g, A, B),
         NEW x \in Heads, NEW y \in Heads, NEW p, NEW q, Two(kind, h, x, p, y, q),
         (A \union B) \intersect ({x, y} \union Elems(p) \union Elems(q)) = {}
  PROVE  Two(kind, g, x, p, y, q)
<1> DEFINE e == End(kind, x)
           f == End(kind, y)
<1>1. EndOf(x, e) /\ EndOf(y, f)
  BY DEF End, EndOf
<1>2. Path(h, x, p, e) /\ Path(h, y, q, f)
  BY DEF Two
<1>3. Elems(p) \subseteq Nodes /\ Elems(q) \subseteq Nodes
  BY DEF Two, Elems
<1>4. \A s \in {x, y} \union Elems(p) \union Elems(q) :
        g[s].next = h[s].next /\ g[s].prev = h[s].prev
  BY <1>3 DEF Differ, Structs
<1> HIDE DEF e, f
<1>5. Path(g, x, p, e) /\ Path(g, y, q, f)
  BY <1>1, <1>2, <1>4, PathFrame DEF Two
<1> QED BY <1>5 DEF Two, e, f

-----------------------------------------------------------------------------
(* What the walks read of it.                                              *)

(* What the pointers of a path are. *)
LEMMA PathPoints ==
  ASSUME NEW h, NEW a \in Heads, NEW p \in Seq(Nodes), NEW e, EndOf(a, e), Path(h, a, p, e)
  PROVE  /\ h[a].next = Stop(p, 1, e)
         /\ \A k \in 1..Len(p) : /\ h[p[k]].next = Stop(p, k + 1, e)
                                 /\ h[p[k]].prev = Stop(p, k - 1, a)
         /\ e = a => h[a].prev = Stop(p, Len(p), a)
<1>1. /\ Len(p) \in Nat /\ (p = <<>> <=> Len(p) = 0)
      /\ \A k \in 1..Len(p) : p[k] \in Nodes /\ p[k] # NULL
      /\ a # NULL
  BY ListAssumption, EmptyIs
<1>2. /\ \A k \in 1..(Len(p) - 1) : Link(h, p[k], p[k + 1])
      /\ p # <<>> => Link(h, a, p[1])
      /\ Link(h, LastOf(a, p), e)
  BY DEF Path, From, Chained
<1>3. ASSUME NEW k \in 1..Len(p), k < Len(p)
      PROVE  h[p[k]].next = p[k + 1] /\ h[p[k + 1]].prev = p[k]
  BY <1>1, <1>2, <1>3 DEF Link
<1>4. p # <<>> => h[a].next = p[1] /\ h[p[1]].prev = a /\ h[p[Len(p)]].next = e
  BY <1>1, <1>2 DEF Link, LastOf
<1>5. p = <<>> => h[a].next = e
  BY <1>2 DEF Link, LastOf
<1>6. ASSUME NEW k \in 1..Len(p) PROVE h[p[k]].next = Stop(p, k + 1, e)
  BY <1>1, <1>3, <1>4 DEF Stop
<1>7. ASSUME NEW k \in 1..Len(p) PROVE h[p[k]].prev = Stop(p, k - 1, a)
  <2>1. CASE k = 1
    BY <1>1, <1>4, <2>1 DEF Stop
  <2>2. CASE k # 1
    <3>1. k - 1 \in 1..Len(p) /\ k - 1 < Len(p) /\ (k - 1) + 1 = k
      BY <1>1, <2>2
    <3>2. h[p[k]].prev = p[k - 1]
      BY <1>3, <3>1
    <3> QED BY <3>1, <3>2 DEF Stop
  <2> QED BY <2>1, <2>2
<1>8. h[a].next = Stop(p, 1, e)
  BY <1>1, <1>4, <1>5 DEF Stop
<1>9. e = a => h[a].prev = Stop(p, Len(p), a)
  BY <1>1, <1>2 DEF Link, LastOf, Stop
<1> QED BY <1>6, <1>7, <1>8, <1>9

(* A sequence backwards. *)
LEMMA ReverseIs ==
  ASSUME NEW p \in Seq(Nodes)
  PROVE  /\ Reverse(p) \in Seq(Nodes) /\ Len(Reverse(p)) = Len(p)
         /\ \A k \in 1..Len(p) : Reverse(p)[k] = p[(Len(p) - k) + 1]
<1>1. /\ Len(p) \in Nat /\ \A k \in 1..Len(p) : p[k] \in Nodes
      /\ \A k \in 1..Len(p) : (Len(p) - k) + 1 \in 1..Len(p)
  OBVIOUS
<1>2. Reverse(p) = [k \in 1..Len(p) |-> p[(Len(p) - k) + 1]]
  BY DEF Reverse
<1>3. Reverse(p) \in [1..Len(p) -> Nodes]
  BY <1>1, <1>2
<1> QED BY <1>1, <1>2, <1>3, FunIsSeq

(* A list or hlist is read from its head, *)
LEMMA PathReads ==
  ASSUME NEW h, NEW a \in Heads, NEW p \in Seq(Nodes), NoneTwice(p), NEW e, EndOf(a, e),
         Path(h, a, p, e)
  PROVE  Reads(h, "next", a, p, e)
<1>1. e \notin Nodes
  BY ListAssumption DEF EndOf
<1> QED BY <1>1, PathPoints DEF Reads

(* and a list backwards. *)
LEMMA RingReadsBack ==
  ASSUME NEW h, NEW a \in Heads, NEW p \in Seq(Nodes), NoneTwice(p), Path(h, a, p, a)
  PROVE  Reads(h, "prev", a, Reverse(p), a)
<1> DEFINE r == Reverse(p)
           m == Len(p)
<1>1. /\ m \in Nat /\ r \in Seq(Nodes) /\ Len(r) = m
      /\ \A k \in 1..m : r[k] = p[(m - k) + 1] /\ (m - k) + 1 \in 1..m
  BY ReverseIs
<1>2. EndOf(a, a) /\ a \notin Nodes
  BY ListAssumption DEF EndOf
<1>3. /\ \A k \in 1..m : h[p[k]].prev = Stop(p, k - 1, a)
      /\ h[a].prev = Stop(p, m, a)
  BY <1>2, PathPoints
<1>4. \A j, k \in 1..m : p[j] = p[k] => j = k
  BY DEF NoneTwice
<1> HIDE DEF r, m
<1>5. NoneTwice(r)
  <2>1. ASSUME NEW j \in 1..m, NEW k \in 1..m, r[j] = r[k] PROVE j = k
    <3>1. (m - j) + 1 = (m - k) + 1
      BY <1>1, <1>4, <2>1
    <3> QED BY <1>1, <3>1
  <2> QED BY <1>1, <2>1 DEF NoneTwice
<1>6. h[a].prev = Stop(r, 1, a)
  <2>1. CASE m = 0
    BY <1>1, <1>3, <2>1 DEF Stop, m
  <2>2. CASE m # 0
    <3>1. 1 \in 1..m /\ m \in 1..m /\ (m - 1) + 1 = m
      BY <1>1, <2>2
    <3> QED BY <1>1, <1>3, <3>1 DEF Stop, m
  <2> QED BY <2>1, <2>2
<1>7. ASSUME NEW k \in 1..m PROVE h[r[k]].prev = Stop(r, k + 1, a)
  <2> DEFINE j == (m - k) + 1
  <2>1. j \in 1..m /\ h[r[k]].prev = Stop(p, j - 1, a)
    BY <1>1, <1>3
  <2>2. CASE k = m
    <3>1. j - 1 \notin 1..m /\ k + 1 \notin 1..m
      BY <1>1, <2>2
    <3> QED BY <1>1, <2>1, <3>1 DEF Stop, m
  <2>3. CASE k # m
    <3>1. j - 1 \in 1..m /\ k + 1 \in 1..m /\ j - 1 = (m - (k + 1)) + 1
      BY <1>1, <2>3
    <3>2. r[k + 1] = p[j - 1]
      BY <1>1, <3>1
    <3> QED BY <1>1, <2>1, <3>1, <3>2 DEF Stop, m
  <2> QED BY <2>2, <2>3
<1> QED BY <1>1, <1>2, <1>5, <1>6, <1>7 DEF Reads, r

(* Rings are what IsList reads, *)
LEMMA RingIsList ==
  ASSUME NEW h, NEW x \in Heads, NEW p \in Seq(Nodes), NoneTwice(p), Path(h, x, p, x)
  PROVE  IsList(h, x, p)
<1>1. Reads(h, "next", x, p, x) /\ Reads(h, "prev", x, Reverse(p), x)
  BY PathReads, RingReadsBack DEF EndOf
<1> QED BY <1>1, WalkReads DEF IsList, Entries, Backward

(* and two of them are two lists; *)
LEMMA TwoAreLists ==
  ASSUME NEW h, NEW x \in Heads, NEW y \in Heads, NEW p, NEW q, Two("list", h, x, p, y, q)
  PROVE  AreLists(h, x, p, y, q)
  BY RingIsList DEF Two, End, AreLists

(* An hlist is read from its head, and each pprev is the pointer's place. *)
LEMMA PathIsHlist ==
  ASSUME NEW h, NEW x \in Heads, NEW p \in Seq(Nodes), NoneTwice(p), NEW e, e = NULL,
         Path(h, x, p, e)
  PROVE  IsHlist(h, x, p)
<1>1. EndOf(x, e)
  BY DEF EndOf
<1>2. Reads(h, "next", x, p, e)
  BY <1>1, PathReads
<1>3. HEntries(h, x) = p
  BY <1>2, WalkReads DEF HEntries
<1>4. \A k \in 1..Len(p) : h[p[k]].prev = Stop(p, k - 1, x)
  BY <1>1, PathPoints
<1>5. \A k \in 1..Len(p) : Stop(p, k - 1, x) = IF k = 1 THEN x ELSE p[k - 1]
  BY DEF Stop
<1>6. DOMAIN p = 1..Len(p)
  OBVIOUS
<1> QED BY <1>3, <1>4, <1>5, <1>6 DEF IsHlist

(* so it is with hlists. *)
LEMMA TwoAreHlists ==
  ASSUME NEW h, NEW x \in Heads, NEW y \in Heads, NEW p, NEW q, Two("hlist", h, x, p, y, q)
  PROVE  AreHlists(h, x, p, y, q)
  BY PathIsHlist DEF Two, End, AreHlists

-----------------------------------------------------------------------------
(* The operations of a list.                                               *)

(* Writing to more. *)
LEMMA DifferIn ==
  ASSUME NEW h, NEW g, NEW A, NEW B, NEW C, NEW D, Differ(h, g, A, B),
         A \subseteq C, B \subseteq D
  PROVE  Differ(h, g, C, D)
  BY DEF Differ

(* The place between u and v. *)
LEMMA TwoAt ==
  ASSUME NEW kind, NEW h, NEW x \in Heads, NEW y \in Heads,
         NEW u \in Seq(Nodes), NEW v \in Seq(Nodes), NEW q, Two(kind, h, x, u \o v, y, q)
  PROVE  /\ h \in Heaps
         /\ Link(h, LastOf(x, u), FirstOf(v, End(kind, x)))
         /\ LastOf(x, u) \in {x} \union Elems(u) /\ LastOf(x, u) \in Structs
         /\ LastOf(x, u) # NULL
         /\ FirstOf(v, End(kind, x)) \in {End(kind, x)} \union Elems(v)
         /\ FirstOf(v, End(kind, x)) \in Structs \union {NULL}
         /\ kind = "list" => FirstOf(v, End(kind, x)) \in Structs
         /\ kind = "hlist" => FirstOf(v, End(kind, x)) \in Nodes \union {NULL}
         /\ Elems(u) \subseteq Nodes /\ Elems(v) \subseteq Nodes
         /\ Elems(u \o v) = Elems(u) \union Elems(v)
         /\ Elems(u) \intersect Elems(v) = {} /\ NoneTwice(u) /\ NoneTwice(v)
<1> DEFINE e == End(kind, x)
<1>1. h \in Heaps /\ NoneTwice(u \o v) /\ Path(h, x, u \o v, e)
  BY DEF Two
<1>2. /\ Elems(u) \subseteq Nodes /\ Elems(v) \subseteq Nodes
      /\ Elems(u \o v) = Elems(u) \union Elems(v)
      /\ Elems(u) \intersect Elems(v) = {} /\ NoneTwice(u) /\ NoneTwice(v)
  <2>1. Elems(v) \subseteq Nodes
    BY DEF Elems
  <2> QED BY <1>1, <2>1, ElemsCat
<1>3. Link(h, LastOf(x, u), FirstOf(v, e))
  BY <1>1, PathJoin
<1>4. LastOf(x, u) \in {x} \union Elems(u) /\ FirstOf(v, e) \in {e} \union Elems(v)
  BY EndsIn
<1>5. x \in Structs /\ x # NULL /\ Nodes \subseteq Structs /\ NULL \notin Nodes
  BY ListAssumption DEF Structs
<1>6. (kind = "list" => e = x) /\ (kind = "hlist" => e = NULL) /\ e \in {x, NULL}
  BY DEF End
<1> HIDE DEF e
<1>7. /\ LastOf(x, u) \in Structs /\ LastOf(x, u) # NULL
      /\ FirstOf(v, e) \in Structs \union {NULL}
      /\ kind = "list" => FirstOf(v, e) \in Structs
      /\ kind = "hlist" => FirstOf(v, e) \in Nodes \union {NULL}
  BY <1>2, <1>4, <1>5, <1>6
<1> QED BY <1>1, <1>2, <1>3, <1>4, <1>7 DEF e

(* __list_add between u and v. *)
LEMMA AddBetween ==
  ASSUME NEW h, NEW x \in Heads, NEW y \in Heads, x # y,
         NEW u \in Seq(Nodes), NEW v \in Seq(Nodes), NEW q, Two("list", h, x, u \o v, y, q),
         NEW n \in Nodes, n \notin Elems(u \o v), n \notin Elems(q)
  PROVE  Two("list", __list_add(h, n, LastOf(x, u), FirstOf(v, x)), x, u \o (<<n>> \o v), y, q)
<1> DEFINE prev == LastOf(x, u)
           next == FirstOf(v, End("list", x))
           g == __list_add(h, n, prev, next)
<1>1. /\ h \in Heaps /\ prev \in Structs /\ next \in Structs
      /\ prev \in {x} \union Elems(u) /\ next \in {End("list", x)} \union Elems(v)
      /\ Elems(u \o v) = Elems(u) \union Elems(v)
  BY TwoAt
<1>2. n \in Structs /\ n # x /\ End("list", x) = x
  BY ListAssumption DEF Structs, End
<1> HIDE DEF prev, next
<1>3. n # prev /\ n # next
  BY <1>1, <1>2
<1>4. /\ g \in Heaps /\ Link(g, prev, n) /\ Link(g, n, next)
      /\ Differ(h, g, {prev, n}, {n, next})
  BY <1>1, <1>2, <1>3, AddWrites
<1> HIDE DEF g
<1>5. Two("list", g, x, u \o (<<n>> \o v), y, q)
  BY <1>4, TwoAdd DEF prev, next
<1> QED BY <1>2, <1>5 DEF g, prev, next

(* list_add and list_add_tail. *)
LEMMA ListAdd ==
  ASSUME NEW h, NEW x \in Heads, NEW y \in Heads, x # y, NEW p, NEW q,
         Two("list", h, x, p, y, q), NEW n \in Nodes, n \notin Elems(p), n \notin Elems(q)
  PROVE  /\ Two("list", list_add(h, n, x), x, <<n>> \o p, y, q)
         /\ Two("list", list_add_tail(h, n, x), x, p \o <<n>>, y, q)
<1>1. PICK o : o = <<>> /\ o \in Seq(Nodes)
  <2>1. <<>> \in Seq(Nodes)
    OBVIOUS
  <2> QED BY <2>1, Zenon
<1>2. p \in Seq(Nodes) /\ o \o p = p /\ p \o o = p
  BY <1>1 DEF Two
<1>3. End("list", x) = x /\ LastOf(x, o) = x /\ FirstOf(o, x) = x /\ x # NULL
  BY <1>1, ListAssumption DEF End, LastOf, FirstOf
<1>4. Two("list", h, x, o \o p, y, q) /\ Two("list", h, x, p \o o, y, q)
  BY <1>2
<1>5. Link(h, x, FirstOf(p, x)) /\ Link(h, LastOf(x, p), x)
  <2>1. /\ Link(h, LastOf(x, o), FirstOf(p, End("list", x)))
        /\ Link(h, LastOf(x, p), FirstOf(o, End("list", x)))
    BY <1>1, <1>2, <1>4, TwoAt
  <2> QED BY <1>3, <2>1
<1>6. h[x].next = FirstOf(p, x) /\ h[x].prev = LastOf(x, p)
  BY <1>3, <1>5 DEF Link
<1>7. Two("list", __list_add(h, n, LastOf(x, o), FirstOf(p, x)), x, o \o (<<n>> \o p), y, q)
  BY <1>1, <1>2, <1>4, AddBetween
<1>8. Two("list", __list_add(h, n, LastOf(x, p), FirstOf(o, x)), x, p \o (<<n>> \o o), y, q)
  BY <1>1, <1>2, <1>4, AddBetween
<1>9. o \o (<<n>> \o p) = <<n>> \o p /\ p \o (<<n>> \o o) = p \o <<n>>
  BY <1>1, <1>2
<1> QED BY <1>3, <1>6, <1>7, <1>8, <1>9 DEF list_add, list_add_tail

(* The place of an entry, and what its pointers are. *)
LEMMA TwoEntry ==
  ASSUME NEW kind, NEW h, NEW x \in Heads, NEW y \in Heads,
         NEW u \in Seq(Nodes), NEW v \in Seq(Nodes), NEW q, NEW n \in Nodes,
         Two(kind, h, x, u \o (<<n>> \o v), y, q)
  PROVE  /\ h \in Heaps
         /\ h[n].prev = LastOf(x, u) /\ h[n].next = FirstOf(v, End(kind, x))
         /\ LastOf(x, u) \in Structs /\ LastOf(x, u) # n /\ LastOf(x, u) # NULL
         /\ FirstOf(v, End(kind, x)) \in Structs \union {NULL}
         /\ kind = "list" => FirstOf(v, End(kind, x)) \in Structs
         /\ kind = "hlist" => FirstOf(v, End(kind, x)) \in Nodes \union {NULL}
         /\ FirstOf(v, End(kind, x)) # n
         /\ Link(h, LastOf(x, u), n) /\ Link(h, n, FirstOf(v, End(kind, x)))
<1> DEFINE e == End(kind, x)
           w == <<n>> \o v
           z == u \o <<n>>
           prev == LastOf(x, u)
           next == FirstOf(v, e)
<1>1. /\ <<n>> \in Seq(Nodes) /\ Elems(<<n>>) = {n} /\ w \in Seq(Nodes) /\ z \in Seq(Nodes)
      /\ u \o w = z \o v /\ n # NULL /\ n # x /\ n # e
  <2>1. n # NULL /\ n # x /\ n # e
    BY ListAssumption DEF End
  <2> QED BY <2>1, OneIs, CatIs
<1>2. Elems(w) = {n} \union Elems(v) /\ Elems(z) = Elems(u) \union {n}
  BY <1>1, ElemsCat
<1>3. Link(h, prev, n) /\ Link(h, n, next)
  <2>1. Path(h, x, u \o (<<n>> \o v), e)
    BY DEF Two
  <2> HIDE DEF e
  <2> QED BY <2>1, PathAt
<1>4. w \in Seq(Nodes) /\ Two(kind, h, x, u \o w, y, q)
  BY <1>1
<1>5. z \in Seq(Nodes) /\ Two(kind, h, x, z \o v, y, q)
  BY <1>1
<1> HIDE DEF w, z, e
<1>6. /\ h \in Heaps /\ prev \in {x} \union Elems(u) /\ prev \in Structs
      /\ Elems(u) \intersect Elems(w) = {}
  BY <1>4, TwoAt
<1>7. /\ next \in {e} \union Elems(v) /\ next \in Structs \union {NULL}
      /\ (kind = "list" => next \in Structs) /\ (kind = "hlist" => next \in Nodes \union {NULL})
      /\ Elems(z) \intersect Elems(v) = {}
  BY <1>5, TwoAt DEF e
<1> HIDE DEF e, prev, next
<1>8. prev # n /\ next # n /\ prev # NULL
  BY <1>1, <1>2, <1>6, <1>7, StructsPoint
<1>9. h[n].prev = prev /\ h[n].next = next
  BY <1>1, <1>3 DEF Link
<1> QED BY <1>3, <1>6, <1>7, <1>8, <1>9 DEF e, prev, next

(* Both of its pointers point at structs in a list, *)
LEMMA ListEntry ==
  ASSUME NEW h, NEW x \in Heads, NEW y \in Heads,
         NEW u \in Seq(Nodes), NEW v \in Seq(Nodes), NEW q, NEW n \in Nodes,
         Two("list", h, x, u \o (<<n>> \o v), y, q)
  PROVE  /\ h \in Heaps
         /\ h[n].prev = LastOf(x, u) /\ h[n].next = FirstOf(v, x)
         /\ LastOf(x, u) \in Structs \ {n} /\ FirstOf(v, x) \in Structs \ {n}
         /\ Link(h, LastOf(x, u), n) /\ Link(h, n, FirstOf(v, x))
<1>1. PICK kind : kind = "list"
  OBVIOUS
<1>2. End(kind, x) = x
  BY <1>1 DEF End
<1>3. Two(kind, h, x, u \o (<<n>> \o v), y, q)
  BY <1>1
<1>4. /\ h \in Heaps
      /\ h[n].prev = LastOf(x, u) /\ h[n].next = FirstOf(v, End(kind, x))
      /\ LastOf(x, u) \in Structs /\ LastOf(x, u) # n
      /\ kind = "list" => FirstOf(v, End(kind, x)) \in Structs
      /\ FirstOf(v, End(kind, x)) # n
      /\ Link(h, LastOf(x, u), n) /\ Link(h, n, FirstOf(v, End(kind, x)))
  BY <1>3, TwoEntry
<1> QED BY <1>1, <1>2, <1>4

(* and next is an entry or NULL in an hlist. *)
LEMMA HlistEntry ==
  ASSUME NEW h, NEW x \in Heads, NEW y \in Heads,
         NEW u \in Seq(Nodes), NEW v \in Seq(Nodes), NEW q, NEW n \in Nodes,
         Two("hlist", h, x, u \o (<<n>> \o v), y, q)
  PROVE  /\ h \in Heaps
         /\ h[n].prev = LastOf(x, u) /\ h[n].next = FirstOf(v, NULL)
         /\ LastOf(x, u) \in Structs \ {n}
         /\ FirstOf(v, NULL) \in (Nodes \union {NULL}) \ {n}
         /\ Link(h, LastOf(x, u), n) /\ Link(h, n, FirstOf(v, NULL))
<1>1. PICK kind : kind = "hlist"
  OBVIOUS
<1>2. End(kind, x) = NULL
  BY <1>1 DEF End
<1>3. Two(kind, h, x, u \o (<<n>> \o v), y, q)
  BY <1>1
<1>4. /\ h \in Heaps
      /\ h[n].prev = LastOf(x, u) /\ h[n].next = FirstOf(v, End(kind, x))
      /\ LastOf(x, u) \in Structs /\ LastOf(x, u) # n
      /\ kind = "hlist" => FirstOf(v, End(kind, x)) \in Nodes \union {NULL}
      /\ FirstOf(v, End(kind, x)) # n
      /\ Link(h, LastOf(x, u), n) /\ Link(h, n, FirstOf(v, End(kind, x)))
  BY <1>3, TwoEntry
<1> QED BY <1>1, <1>2, <1>4

(* __list_del_entry unlinks the entry from its neighbours. *)
LEMMA DelEntry ==
  ASSUME NEW h, NEW x \in Heads, NEW y \in Heads, x # y,
         NEW u \in Seq(Nodes), NEW v \in Seq(Nodes), NEW q, NEW n \in Nodes,
         Two("list", h, x, u \o (<<n>> \o v), y, q)
  PROVE  /\ Two("list", __list_del_entry(h, n), x, u \o v, y, q)
         /\ n \notin Elems(u \o v) /\ n \notin Elems(q)
<1> DEFINE prev == LastOf(x, u)
           next == FirstOf(v, x)
           g == __list_del(h, prev, next)
<1>1. /\ h \in Heaps /\ h[n].prev = prev /\ h[n].next = next
      /\ prev \in Structs /\ next \in Structs
  BY ListEntry
<1>2. g = __list_del_entry(h, n)
  BY <1>1 DEF __list_del_entry
<1> HIDE DEF prev, next
<1>3. g \in Heaps /\ Link(g, prev, next) /\ Differ(h, g, {prev}, {next})
  BY <1>1, DelWrites
<1> HIDE DEF g
<1>4. Differ(h, g, {prev, n}, {n, next})
  BY <1>3, DifferIn
<1>5. End("list", x) = x
  BY DEF End
<1>6. Two("list", g, x, u \o v, y, q) /\ n \notin Elems(u \o v) /\ n \notin Elems(q)
  BY <1>3, <1>4, <1>5, TwoDel DEF prev, next
<1> QED BY <1>2, <1>6

(* What is written to an entry of neither list is not noticed. *)
LEMMA TwoLeft ==
  ASSUME NEW kind, NEW h, NEW g \in Heaps, NEW x \in Heads, NEW y \in Heads, NEW p, NEW q,
         Two(kind, h, x, p, y, q), NEW n \in Nodes, n \notin Elems(p), n \notin Elems(q),
         Differ(h, g, {n}, {n})
  PROVE  Two(kind, g, x, p, y, q)
<1> DEFINE A == {n}
<1>1. n # x /\ n # y
  BY ListAssumption
<1>2. (A \union A) \intersect ({x, y} \union Elems(p) \union Elems(q)) = {}
  BY <1>1
<1>3. Differ(h, g, A, A)
  OBVIOUS
<1> HIDE DEF A
<1> QED BY <1>2, <1>3, TwoFrame

(* list_del and list_del_init. *)
LEMMA ListDel ==
  ASSUME NEW h, NEW x \in Heads, NEW y \in Heads, x # y,
         NEW u \in Seq(Nodes), NEW v \in Seq(Nodes), NEW q, NEW n \in Nodes,
         Two("list", h, x, u \o (<<n>> \o v), y, q)
  PROVE  /\ Two("list", list_del(h, n), x, u \o v, y, q)
         /\ Two("list", list_del_init(h, n), x, u \o v, y, q)
         /\ list_empty(list_del_init(h, n), n)
<1> DEFINE g == __list_del_entry(h, n)
           f == [g EXCEPT ![n] = [next |-> POISON, prev |-> POISON]]
           i == INIT_LIST_HEAD(g, n)
<1>1. Two("list", g, x, u \o v, y, q) /\ n \notin Elems(u \o v) /\ n \notin Elems(q)
  BY DelEntry
<1>2. g \in Heaps /\ n \in Structs /\ POISON \in Pointers /\ n # NULL
  BY <1>1, ListAssumption DEF Two, Structs, Pointers
<1>3. f = list_del(h, n) /\ i = list_del_init(h, n)
  BY DEF list_del, list_del_init
<1> HIDE DEF g
<1>4. f \in Heaps /\ Differ(g, f, {n}, {n})
  BY <1>2, BothWritten
<1>5. i \in Heaps /\ Differ(g, i, {n}, {n}) /\ Link(i, n, n)
  BY <1>2, InitWrites
<1> HIDE DEF f, i
<1>6. Two("list", f, x, u \o v, y, q)
  BY <1>1, <1>4, TwoLeft
<1>7. Two("list", i, x, u \o v, y, q)
  BY <1>1, <1>5, TwoLeft
<1>8. list_empty(i, n)
  BY <1>5 DEF list_empty, Link
<1> QED BY <1>3, <1>6, <1>7, <1>8

(* list_move and list_move_tail, to the same head or another. *)
LEMMA ListMove ==
  ASSUME NEW h, NEW x \in Heads, NEW y \in Heads, x # y,
         NEW u \in Seq(Nodes), NEW v \in Seq(Nodes), NEW q, NEW n \in Nodes,
         Two("list", h, x, u \o (<<n>> \o v), y, q)
  PROVE  /\ Two("list", list_move(h, n, y), x, u \o v, y, <<n>> \o q)
         /\ Two("list", list_move_tail(h, n, y), x, u \o v, y, q \o <<n>>)
         /\ Two("list", list_move_tail(h, n, x), x, (u \o v) \o <<n>>, y, q)
<1> DEFINE g == __list_del_entry(h, n)
           p == u \o v
<1>1. Two("list", g, x, p, y, q) /\ n \notin Elems(p) /\ n \notin Elems(q)
  BY DelEntry
<1>2. /\ list_move(h, n, y) = list_add(g, n, y)
      /\ list_move_tail(h, n, y) = list_add_tail(g, n, y)
      /\ list_move_tail(h, n, x) = list_add_tail(g, n, x)
  BY DEF list_move, list_move_tail
<1> HIDE DEF g, p
<1>3. Two("list", g, y, q, x, p)
  BY <1>1, TwoSwap
<1>4. /\ Two("list", list_add(g, n, y), y, <<n>> \o q, x, p)
      /\ Two("list", list_add_tail(g, n, y), y, q \o <<n>>, x, p)
  BY <1>1, <1>3, ListAdd
<1>5. Two("list", list_add_tail(g, n, x), x, p \o <<n>>, y, q)
  BY <1>1, ListAdd
<1>6. /\ Two("list", list_add(g, n, y), x, p, y, <<n>> \o q)
      /\ Two("list", list_add_tail(g, n, y), x, p, y, q \o <<n>>)
  BY <1>4, TwoSwap
<1> QED BY <1>2, <1>5, <1>6 DEF p

(* list_replace and list_replace_init: n is in the place of o. *)
LEMMA ListReplace ==
  ASSUME NEW h, NEW x \in Heads, NEW y \in Heads, x # y,
         NEW u \in Seq(Nodes), NEW v \in Seq(Nodes), NEW q, NEW o \in Nodes,
         Two("list", h, x, u \o (<<o>> \o v), y, q),
         NEW n \in Nodes, n \notin Elems(u \o (<<o>> \o v)), n \notin Elems(q)
  PROVE  /\ Two("list", list_replace(h, o, n), x, u \o (<<n>> \o v), y, q)
         /\ list_empty(list_replace_init(h, o, n), o)
<1> DEFINE prev == LastOf(x, u)
           next == FirstOf(v, x)
           s == <<o>>
           m == <<n>>
           h1 == SetNext(h, n, next)
           h2 == SetPrev(h1, next, n)
           h3 == SetPrev(h2, n, prev)
           g == SetNext(h3, prev, n)
<1>1. /\ h \in Heaps /\ h[o].next = next /\ h[o].prev = prev
      /\ prev \in Structs \ {o} /\ next \in Structs \ {o}
  BY ListEntry
<1>2. /\ s \in Seq(Nodes) /\ Elems(s) = {o}
      /\ m \in Seq(Nodes) /\ Elems(m) = {n} /\ NoneTwice(m)
      /\ LastOf(prev, m) = n /\ FirstOf(m, next) = n /\ s \o v \in Seq(Nodes)
  BY OneIs, CatIs
<1>3. Elems(u \o (s \o v)) = Elems(u) \union Elems(s) \union Elems(v)
  <2>1. Elems(s \o v) = Elems(s) \union Elems(v)
    BY <1>2, ElemsCat
  <2>2. Elems(u \o (s \o v)) = Elems(u) \union Elems(s \o v)
    BY <1>2, ElemsCat
  <2> QED BY <2>1, <2>2
<1>4. /\ prev \in {x} \union Elems(u) /\ next \in {x} \union Elems(v)
      /\ n \notin Elems(u) /\ n \notin Elems(v) /\ n # o /\ n # x
      /\ n \in Structs /\ o \in Structs /\ n # NULL
  <2>1. n # x /\ n # NULL /\ n \in Structs /\ o \in Structs
    BY ListAssumption DEF Structs
  <2>2. n \notin Elems(u) \union Elems(s) \union Elems(v)
    BY <1>3
  <2>3. prev \in {x} \union Elems(u) /\ next \in {x} \union Elems(v)
    BY EndsIn
  <2> QED BY <1>2, <2>1, <2>2, <2>3
<1> HIDE DEF prev, next, s, m
<1>5. /\ n # prev /\ n # next /\ prev \in Structs /\ next \in Structs
      /\ n \in Structs /\ n \in Pointers /\ prev \in Pointers /\ next \in Pointers
  BY <1>1, <1>4, StructsPoint
<1>6. h1 \in Heaps /\ NextTo(h, h1, n, next)
  BY <1>1, <1>5, WritesNext
<1> HIDE DEF h1
<1>7. h2 \in Heaps /\ PrevTo(h1, h2, next, n)
  BY <1>5, <1>6, WritesPrev
<1> HIDE DEF h2
<1>8. h3 \in Heaps /\ PrevTo(h2, h3, n, prev)
  BY <1>5, <1>7, WritesPrev
<1> HIDE DEF h3
<1>9. g \in Heaps /\ NextTo(h3, g, prev, n)
  BY <1>5, <1>8, WritesNext
<1> HIDE DEF g
<1>10. g = list_replace(h, o, n)
  <2>1. h1[n].next = next /\ h3[n].prev = prev
    BY <1>6, <1>8 DEF NextTo, PrevTo
  <2>2. h2[o].prev = prev
    BY <1>1, <1>4, <1>6, <1>7 DEF Differ, NextTo, PrevTo
  <2> QED BY <1>1, <2>1, <2>2 DEF list_replace, g, h3, h2, h1
<1>11. Link(g, prev, n) /\ Link(g, n, next)
  BY <1>1, <1>4, <1>5, <1>6, <1>7, <1>8, <1>9 DEF Differ, NextTo, PrevTo, Link
<1>12. Took(h, g, x, u, s, m, v, End("list", x))
  <2>1. Differ(h, g, {prev} \union Elems(s) \union Elems(m),
                     {next} \union Elems(s) \union Elems(m))
    BY <1>2, <1>6, <1>7, <1>8, <1>9 DEF Differ, NextTo, PrevTo
  <2>2. Chained(g, m)
    BY OneIs DEF m
  <2>3. End("list", x) = x
    BY DEF End
  <2> QED BY <1>2, <1>11, <2>1, <2>2, <2>3 DEF Took, prev, next
<1>13. Elems(m) \intersect (Elems(u) \union Elems(v) \union Elems(q)) = {}
  BY <1>2, <1>4
<1>14. Two("list", g, x, u \o (m \o v), y, q)
  <2>1. Two("list", h, x, u \o (s \o v), y, q)
    BY DEF s
  <2> QED BY <1>2, <1>9, <1>12, <1>13, <2>1, TwoExchange
<1>15. list_empty(INIT_LIST_HEAD(g, o), o)
  BY <1>4, <1>9, InitWrites DEF list_empty, Link
<1> QED BY <1>10, <1>14, <1>15 DEF m, list_replace_init

(* What an empty list is, one of one entry, and who is last. *)
LEMMA ListShape ==
  ASSUME NEW h, NEW x \in Heads, NEW y \in Heads, NEW p, NEW q, Two("list", h, x, p, y, q)
  PROVE  /\ h[x].next = FirstOf(p, x) /\ h[x].prev = LastOf(x, p)
         /\ list_empty(h, x) <=> p = <<>>
         /\ list_is_singular(h, x) <=> Len(p) = 1
         /\ \A n \in Nodes : list_is_last(h, n, x) /\ n \in Elems(p) => n = p[Len(p)]
         /\ p # <<>> => list_is_last(h, p[Len(p)], x)
<1>1. p \in Seq(Nodes) /\ NoneTwice(p) /\ Path(h, x, p, x) /\ EndOf(x, x)
  BY DEF Two, End, EndOf
<1>2. /\ h[x].next = Stop(p, 1, x) /\ h[x].prev = Stop(p, Len(p), x)
      /\ \A k \in 1..Len(p) : h[p[k]].next = Stop(p, k + 1, x)
  BY <1>1, PathPoints
<1>3. /\ Len(p) \in Nat /\ (p = <<>> <=> Len(p) = 0)
      /\ \A k \in 1..Len(p) : p[k] \in Nodes /\ p[k] # x
  BY <1>1, EmptyIs, ListAssumption
<1>4. h[x].next = FirstOf(p, x) /\ h[x].prev = LastOf(x, p)
  BY <1>2, <1>3 DEF Stop, FirstOf, LastOf
<1>5. list_empty(h, x) <=> p = <<>>
  BY <1>2, <1>3 DEF Stop, list_empty
<1>6. list_is_singular(h, x) <=> Len(p) = 1
  <2>1. CASE Len(p) = 0
    BY <1>3, <1>5, <2>1 DEF list_is_singular
  <2>2. CASE Len(p) # 0
    <3>1. h[x].next = p[1] /\ h[x].prev = p[Len(p)] /\ 1 \in 1..Len(p) /\ Len(p) \in 1..Len(p)
      BY <1>2, <1>3, <2>2 DEF Stop
    <3>2. p[1] = p[Len(p)] <=> Len(p) = 1
      BY <1>1, <3>1 DEF NoneTwice
    <3> QED BY <1>3, <1>5, <2>2, <3>1, <3>2 DEF list_is_singular
  <2> QED BY <2>1, <2>2
<1>7. ASSUME NEW k \in 1..Len(p), list_is_last(h, p[k], x) PROVE k = Len(p)
  <2>1. Stop(p, k + 1, x) = x
    BY <1>2, <1>7 DEF list_is_last
  <2>2. k + 1 \notin 1..Len(p)
    BY <1>3, <2>1 DEF Stop
  <2> QED BY <1>3, <2>2
<1>8. p # <<>> => list_is_last(h, p[Len(p)], x)
  BY <1>2, <1>3 DEF list_is_last, Stop
<1>9. \A n \in Nodes : list_is_last(h, n, x) /\ n \in Elems(p) => n = p[Len(p)]
  BY <1>7 DEF Elems
<1> QED BY <1>4, <1>5, <1>6, <1>8, <1>9

(* A sequence is its first entry and the rest. *)
LEMMA HeadTail ==
  ASSUME NEW p \in Seq(Nodes), p # <<>>
  PROVE  /\ p[1] \in Nodes /\ Tail(p) \in Seq(Nodes)
         /\ <<>> \o (<<p[1]>> \o Tail(p)) = p
         /\ (<<>> \o Tail(p)) \o <<p[1]>> = Append(Tail(p), p[1])
<1> DEFINE t == Tail(p)
           o == <<p[1]>>
<1>1. /\ p[1] \in Nodes /\ t \in Seq(Nodes) /\ Len(p) \in Nat \ {0}
      /\ Len(t) = Len(p) - 1 /\ \A k \in 1..(Len(p) - 1) : t[k] = p[k + 1]
  BY EmptyIs
<1>2. o \in Seq(Nodes) /\ Len(o) = 1 /\ o[1] = p[1]
  BY <1>1
<1>3. <<>> \o t = t
  BY <1>1
<1>4. t \o o = Append(t, p[1])
  BY <1>1
<1> HIDE DEF t, o
<1>5. /\ o \o t \in Seq(Nodes) /\ Len(o \o t) = Len(p)
      /\ (o \o t)[1] = p[1] /\ \A k \in 1..(Len(p) - 1) : (o \o t)[1 + k] = p[k + 1]
  <2>1. /\ o \o t \in Seq(Nodes) /\ Len(o \o t) = Len(o) + Len(t)
        /\ \A k \in 1..Len(o) : (o \o t)[k] = o[k]
        /\ \A k \in 1..Len(t) : (o \o t)[Len(o) + k] = t[k]
    BY <1>1, <1>2, CatIs
  <2> QED BY <1>1, <1>2, <2>1
<1>6. o \o t = p
  <2>1. ASSUME NEW k \in 1..Len(p) PROVE (o \o t)[k] = p[k]
    <3>1. CASE k = 1
      BY <1>5, <3>1
    <3>2. CASE k # 1
      <4>1. k - 1 \in 1..(Len(p) - 1) /\ 1 + (k - 1) = k /\ (k - 1) + 1 = k
        BY <1>1, <3>2
      <4> QED BY <1>5, <4>1
    <3> QED BY <3>1, <3>2
  <2> QED BY <1>5, <2>1, SeqEqual
<1>7. <<>> \o (o \o t) = o \o t
  BY <1>5
<1> QED BY <1>1, <1>3, <1>4, <1>6, <1>7 DEF t, o

(* list_rotate_left: the first entry is the last. *)
LEMMA ListRotate ==
  ASSUME NEW h, NEW x \in Heads, NEW y \in Heads, x # y, NEW p, NEW q,
         Two("list", h, x, p, y, q)
  PROVE  Two("list", list_rotate_left(h, x), x,
             IF p = <<>> THEN p ELSE Append(Tail(p), p[1]), y, q)
<1>1. p \in Seq(Nodes)
  BY DEF Two
<1>2. CASE p = <<>>
  BY <1>2, ListShape DEF list_rotate_left
<1>3. CASE p # <<>>
  <2> DEFINE u == <<>>
             v == Tail(p)
             n == p[1]
  <2>1. /\ n \in Nodes /\ u \in Seq(Nodes) /\ v \in Seq(Nodes)
        /\ u \o (<<n>> \o v) = p /\ (u \o v) \o <<n>> = Append(v, n)
    BY <1>1, <1>3, HeadTail
  <2>2. list_rotate_left(h, x) = list_move_tail(h, n, x)
    BY <1>3, ListShape DEF list_rotate_left, FirstOf
  <2> HIDE DEF u, v, n
  <2>3. Two("list", list_move_tail(h, n, x), x, (u \o v) \o <<n>>, y, q)
    BY <2>1, ListMove
  <2> QED BY <1>3, <2>1, <2>2, <2>3 DEF n, v
<1> QED BY <1>2, <1>3

(* Assignments to the last next and the first prev leave a chain. *)
LEMMA ChainedFrame ==
  ASSUME NEW h, NEW g, NEW A, NEW B, Differ(h, g, A, B),
         NEW m \in Seq(Nodes), NoneTwice(m), Chained(h, m), m # <<>>,
         A \intersect Elems(m) \subseteq {m[Len(m)]},
         B \intersect Elems(m) \subseteq {m[1]}
  PROVE  Chained(g, m)
<1>1. ASSUME NEW k \in 1..(Len(m) - 1) PROVE Link(g, m[k], m[k + 1])
  <2>1. /\ k \in 1..Len(m) /\ k + 1 \in 1..Len(m) /\ k # Len(m) /\ k + 1 # 1
        /\ 1 \in 1..Len(m) /\ Len(m) \in 1..Len(m)
    BY EmptyIs
  <2>2. m[k] # m[Len(m)] /\ m[k + 1] # m[1]
    BY <2>1 DEF NoneTwice
  <2>3. m[k] \notin A /\ m[k + 1] \notin B
    BY <2>1, <2>2 DEF Elems
  <2>4. m[k] \in Structs /\ m[k + 1] \in Structs
    BY <2>1 DEF Structs
  <2>5. Link(h, m[k], m[k + 1])
    BY DEF Chained
  <2> QED BY <2>3, <2>4, <2>5 DEF Link, Differ
<1> QED BY <1>1 DEF Chained

(* INIT_LIST_HEAD makes a list empty, whatever it was, and leaves another. *)
LEMMA TwoInit ==
  ASSUME NEW g \in Heaps, NEW x \in Heads, NEW y \in Heads, x # y,
         NEW p \in Seq(Nodes), NoneTwice(p), Path(g, x, p, x)
  PROVE  Two("list", INIT_LIST_HEAD(g, y), x, p, y, <<>>)
<1> DEFINE f == INIT_LIST_HEAD(g, y)
<1>1. y \in Structs /\ EndOf(x, x) /\ y \notin Nodes
  BY ListAssumption DEF Structs, EndOf
<1>2. f \in Heaps /\ Differ(g, f, {y}, {y}) /\ Link(f, y, y)
  BY <1>1, InitWrites
<1> HIDE DEF f
<1>3. Elems(p) \subseteq Nodes
  BY DEF Elems
<1>4. \A s \in {x} \union Elems(p) : f[s].next = g[s].next /\ f[s].prev = g[s].prev
  BY <1>1, <1>2, <1>3 DEF Differ, Structs
<1>5. Path(f, x, p, x)
  BY <1>1, <1>4, PathFrame
<1>6. Path(f, y, <<>>, y)
  BY <1>2, NoneIs DEF Path, From
<1>7. End("list", x) = x /\ End("list", y) = y
  BY DEF End
<1> QED BY <1>2, <1>5, <1>6, <1>7, NoneIs DEF Two, f

(* __list_splice between u and v. *)
LEMMA SpliceBetween ==
  ASSUME NEW h, NEW x \in Heads, NEW y \in Heads, x # y,
         NEW u \in Seq(Nodes), NEW v \in Seq(Nodes), NEW q, q # <<>>,
         Two("list", h, x, u \o v, y, q)
  PROVE  LET g == __list_splice(h, y, LastOf(x, u), FirstOf(v, x))
             p == u \o (q \o v)
         IN g \in Heaps /\ p \in Seq(Nodes) /\ NoneTwice(p) /\ Path(g, x, p, x)
<1> DEFINE prev == LastOf(x, u)
           next == FirstOf(v, x)
           first == q[1]
           last == q[Len(q)]
           o == <<>>
           h1 == SetPrev(h, first, prev)
           h2 == SetNext(h1, prev, first)
           h3 == SetNext(h2, last, next)
           g == SetPrev(h3, next, last)
<1>1. /\ h \in Heaps /\ q \in Seq(Nodes) /\ NoneTwice(q) /\ Elems(u \o v) \intersect Elems(q) = {}
      /\ Path(h, x, u \o v, x) /\ NoneTwice(u \o v) /\ Path(h, y, q, y)
      /\ EndOf(x, x)
  BY DEF Two, End, EndOf
<1>2. Elems(u \o v) = Elems(u) \union Elems(v) /\ Elems(u) \subseteq Nodes /\ Elems(v) \subseteq Nodes
  <2>1. Elems(v) \subseteq Nodes
    BY DEF Elems
  <2> QED BY <2>1, ElemsCat
<1>3. /\ prev \in {x} \union Elems(u) /\ next \in {x} \union Elems(v)
      /\ first \in Elems(q) /\ last \in Elems(q) /\ Elems(q) \subseteq Nodes
  <2>1. Elems(q) \subseteq Nodes
    BY <1>1 DEF Elems
  <2> QED BY <1>1, <2>1, EndsIn
<1>4. x \notin Nodes /\ x \in Structs /\ Nodes \subseteq Structs /\ Structs \subseteq Pointers
  BY ListAssumption, StructsPoint DEF Structs
<1>5. h[y].next = first /\ h[y].prev = last
  <2>1. Two("list", h, y, q, x, u \o v)
    BY TwoSwap
  <2>2. h[y].next = FirstOf(q, y) /\ h[y].prev = LastOf(y, q)
    BY <2>1, ListShape
  <2> QED BY <2>2 DEF FirstOf, LastOf
<1> HIDE DEF prev, next, first, last
<1>6. prev # last /\ next # first
  BY <1>1, <1>2, <1>3, <1>4
<1>7. /\ prev \in Structs /\ next \in Structs /\ first \in Structs /\ last \in Structs
      /\ prev \in Pointers /\ next \in Pointers /\ first \in Pointers /\ last \in Pointers
      /\ h \in Heaps
  BY <1>1, <1>2, <1>3, <1>4
<1>8. h1 \in Heaps /\ PrevTo(h, h1, first, prev)
  BY <1>7, WritesPrev
<1> HIDE DEF h1
<1>9. h2 \in Heaps /\ NextTo(h1, h2, prev, first)
  BY <1>7, <1>8, WritesNext
<1> HIDE DEF h2
<1>10. h3 \in Heaps /\ NextTo(h2, h3, last, next)
  BY <1>7, <1>9, WritesNext
<1> HIDE DEF h3
<1>11. g \in Heaps /\ PrevTo(h3, g, next, last)
  BY <1>7, <1>10, WritesPrev
<1>12. g = __list_splice(h, y, prev, next)
  BY <1>5 DEF __list_splice, g, h3, h2, h1
<1> HIDE DEF g
<1>13. Link(g, prev, first) /\ Link(g, last, next)
  BY <1>6, <1>7, <1>8, <1>9, <1>10, <1>11 DEF Differ, NextTo, PrevTo, Link
<1>14. Differ(h, g, {prev, last}, {next, first})
  BY <1>8, <1>9, <1>10, <1>11 DEF Differ, NextTo, PrevTo
<1>15. Chained(g, q)
  <2> DEFINE A == {prev, last}
             B == {next, first}
  <2>1. A \intersect Elems(q) \subseteq {last} /\ B \intersect Elems(q) \subseteq {first}
    BY <1>1, <1>2, <1>3, <1>4
  <2>2. Differ(h, g, A, B)
    BY <1>14
  <2> HIDE DEF A, B
  <2>3. Chained(h, q)
    BY <1>1 DEF Path, From
  <2> QED BY <1>1, <2>1, <2>2, <2>3, ChainedFrame DEF first, last
<1>16. o \in Seq(Nodes) /\ o \o v = v /\ Elems(o) = {}
  BY EmptyIs, NoneIs
<1> HIDE DEF o
<1>17. Took(h, g, x, u, o, q, v, x)
  <2>1. Differ(h, g, {prev} \union Elems(o) \union Elems(q), {next} \union Elems(o) \union Elems(q))
    BY <1>3, <1>14 DEF Differ, NextTo, PrevTo
  <2>2. LastOf(prev, q) = last /\ FirstOf(q, next) = first
    BY DEF LastOf, FirstOf, first, last
  <2> QED BY <1>13, <1>15, <2>1, <2>2 DEF Took, prev, next
<1>18. Exchanged(h, g, x, u, o, q, v, x)
  <2>1. Elems(q) \intersect (Elems(u) \union Elems(v)) = {}
    BY <1>1, <1>2
  <2> QED BY <1>1, <1>16, <1>17, <2>1 DEF Exchanged
<1> DEFINE p == u \o (q \o v)
<1>19. p \in Seq(Nodes) /\ NoneTwice(p) /\ Path(g, x, p, x)
  BY <1>1, <1>16, <1>18, Exchange
<1> QED BY <1>11, <1>12, <1>19 DEF prev, next

(* The four list_splice. *)
LEMMA ListSplice ==
  ASSUME NEW h, NEW x \in Heads, NEW y \in Heads, x # y, NEW p, NEW q,
         Two("list", h, x, p, y, q)
  PROVE  /\ IsList(list_splice(h, y, x), x, q \o p)
         /\ IsList(list_splice_tail(h, y, x), x, p \o q)
         /\ Two("list", list_splice_init(h, y, x), x, q \o p, y, <<>>)
         /\ Two("list", list_splice_tail_init(h, y, x), x, p \o q, y, <<>>)
<1>1. p \in Seq(Nodes) /\ q \in Seq(Nodes) /\ NoneTwice(p) /\ Path(h, x, p, x)
  BY DEF Two, End
<1>2. list_empty(h, y) <=> q = <<>>
  <2>1. Two("list", h, y, q, x, p)
    BY TwoSwap
  <2> QED BY <2>1, ListShape
<1>3. CASE q = <<>>
  <2>1. q \o p = p /\ p \o q = p
    BY <1>1, <1>3
  <2>2. IsList(h, x, p)
    BY <1>1, RingIsList
  <2> QED BY <1>2, <1>3, <2>1, <2>2
         DEF list_splice, list_splice_tail, list_splice_init, list_splice_tail_init
<1>4. CASE q # <<>>
  <2> DEFINE g == __list_splice(h, y, x, h[x].next)
             f == __list_splice(h, y, h[x].prev, x)
  <2>1. /\ list_splice(h, y, x) = g /\ list_splice_init(h, y, x) = INIT_LIST_HEAD(g, y)
        /\ list_splice_tail(h, y, x) = f
        /\ list_splice_tail_init(h, y, x) = INIT_LIST_HEAD(f, y)
    BY <1>2, <1>4 DEF list_splice, list_splice_tail, list_splice_init, list_splice_tail_init
  <2>2. PICK o : o = <<>> /\ o \in Seq(Nodes)
    BY NoneIs, Zenon
  <2>3. /\ o \o p = p /\ p \o o = p /\ LastOf(x, o) = x /\ FirstOf(o, x) = x
        /\ o \o (q \o p) = q \o p /\ p \o (q \o o) = p \o q
    BY <1>1, <2>2 DEF LastOf, FirstOf
  <2>4. g = __list_splice(h, y, LastOf(x, o), FirstOf(p, x))
        /\ f = __list_splice(h, y, LastOf(x, p), FirstOf(o, x))
    BY <2>3, ListShape
  <2> HIDE DEF g, f
  <2>5. Two("list", h, x, o \o p, y, q) /\ Two("list", h, x, p \o o, y, q)
    BY <2>3
  <2> DEFINE a == o \o (q \o p)
             b == p \o (q \o o)
  <2>6. g \in Heaps /\ a \in Seq(Nodes) /\ NoneTwice(a) /\ Path(g, x, a, x)
    BY <1>1, <1>4, <2>2, <2>4, <2>5, SpliceBetween
  <2>7. f \in Heaps /\ b \in Seq(Nodes) /\ NoneTwice(b) /\ Path(f, x, b, x)
    BY <1>1, <1>4, <2>2, <2>4, <2>5, SpliceBetween
  <2> HIDE DEF a, b
  <2>8. IsList(g, x, a) /\ IsList(f, x, b)
    BY <2>6, <2>7, RingIsList
  <2>9. /\ Two("list", INIT_LIST_HEAD(g, y), x, a, y, <<>>)
        /\ Two("list", INIT_LIST_HEAD(f, y), x, b, y, <<>>)
    BY <2>6, <2>7, TwoInit
  <2> QED BY <2>1, <2>3, <2>8, <2>9 DEF a, b
<1> QED BY <1>3, <1>4

(* __list_cut_position: y takes u and n, and x keeps v. *)
LEMMA CutAt ==
  ASSUME NEW h, NEW x \in Heads, NEW y \in Heads, x # y,
         NEW u \in Seq(Nodes), NEW v \in Seq(Nodes), NEW n \in Nodes, NEW q, q = <<>>,
         Two("list", h, x, u \o (<<n>> \o v), y, q)
  PROVE  Two("list", __list_cut_position(h, y, x, n), x, v, y, u \o <<n>>)
<1> DEFINE m == u \o <<n>>
           first == m[1]
           next == FirstOf(v, x)
           h1 == SetNext(h, y, first)
           h2 == SetPrev(h1, first, y)
           h3 == SetPrev(h2, y, n)
           h4 == SetNext(h3, n, y)
           h5 == SetNext(h4, x, next)
           g == SetPrev(h5, next, x)
<1>1. /\ h \in Heaps /\ h[n].next = next /\ next \in Structs /\ next # n
  BY ListEntry
<1>2. /\ <<n>> \in Seq(Nodes) /\ Elems(<<n>>) = {n} /\ m \in Seq(Nodes) /\ m # <<>>
      /\ m[Len(m)] = n /\ Elems(m) = Elems(u) \union {n} /\ m \o v = u \o (<<n>> \o v)
  <2>1. <<n>> \in Seq(Nodes) /\ Elems(<<n>>) = {n} /\ <<n>> # <<>>
    BY OneIs
  <2>2. m \in Seq(Nodes) /\ m \o v = u \o (<<n>> \o v) /\ m # <<>> /\ m[Len(m)] = n
    BY <2>1
  <2>3. Elems(m) = Elems(u) \union {n}
    BY <2>1, ElemsCat
  <2> QED BY <2>1, <2>2, <2>3
<1>3. NoneTwice(m \o v) /\ Path(h, x, m \o v, x) /\ EndOf(x, x) /\ EndOf(y, y)
  BY <1>2 DEF Two, End, EndOf
<1> HIDE DEF m
<1>4. /\ NoneTwice(m) /\ NoneTwice(v) /\ Elems(m) \intersect Elems(v) = {}
      /\ Elems(m) \subseteq Nodes /\ Elems(v) \subseteq Nodes
  <2>1. Elems(v) \subseteq Nodes
    BY DEF Elems
  <2> QED BY <1>2, <1>3, <2>1, ElemsCat
<1>5. /\ x \notin Nodes /\ x \in Structs /\ y \notin Nodes /\ y \in Structs
      /\ Nodes \subseteq Structs /\ Structs \subseteq Pointers
  BY ListAssumption, StructsPoint DEF Structs
<1>6. /\ first \in Elems(m) /\ next \in {x} \union Elems(v) /\ n \in Elems(m)
      /\ n = m[Len(m)]
  BY <1>2, EndsIn
<1>7. h[x].next = first
  <2>1. h[x].next = FirstOf(u \o (<<n>> \o v), x)
    BY ListShape
  <2>2. m \o v # <<>> /\ (m \o v)[1] = m[1]
    BY <1>2
  <2> QED BY <1>2, <2>1, <2>2 DEF FirstOf
<1>8. From(h, x, m) /\ To(h, v, x)
  BY <1>2, <1>3, PathJoin
<1> HIDE DEF first, next
<1>9. /\ first \in Structs /\ n \in Structs /\ next \in Structs /\ x \in Structs /\ y \in Structs
      /\ first \in Pointers /\ n \in Pointers /\ next \in Pointers /\ x \in Pointers
      /\ y \in Pointers /\ h \in Heaps
  BY <1>1, <1>4, <1>5, <1>6
<1>10. h1 \in Heaps /\ NextTo(h, h1, y, first)
  BY <1>9, WritesNext
<1> HIDE DEF h1
<1>11. h2 \in Heaps /\ PrevTo(h1, h2, first, y)
  BY <1>9, <1>10, WritesPrev
<1> HIDE DEF h2
<1>12. h3 \in Heaps /\ PrevTo(h2, h3, y, n)
  BY <1>9, <1>11, WritesPrev
<1> HIDE DEF h3
<1>13. h4 \in Heaps /\ NextTo(h3, h4, n, y)
  BY <1>9, <1>12, WritesNext
<1> HIDE DEF h4
<1>14. h5 \in Heaps /\ NextTo(h4, h5, x, next)
  BY <1>9, <1>13, WritesNext
<1> HIDE DEF h5
<1>15. g \in Heaps /\ PrevTo(h5, g, next, x)
  BY <1>9, <1>14, WritesPrev
<1>16. g = __list_cut_position(h, y, x, n)
  BY <1>1, <1>7, <1>10 DEF NextTo, __list_cut_position, g, h5, h4, h3, h2, h1
<1> HIDE DEF g
<1> DEFINE A == {y, n, x}
           B == {first, y, next}
<1>17. Differ(h, g, A, B)
  BY <1>10, <1>11, <1>12, <1>13, <1>14, <1>15 DEF Differ, NextTo, PrevTo
<1>18. x # y /\ n # x /\ n # y /\ first # next /\ first # y /\ next # y
  BY <1>4, <1>5, <1>6
<1>19. Link(g, y, first) /\ Link(g, n, y) /\ Link(g, x, next)
  <2>1. g[y].next = first /\ g[n].next = y /\ g[x].next = next
    BY <1>9, <1>10, <1>11, <1>12, <1>13, <1>14, <1>15, <1>18 DEF Differ, NextTo, PrevTo
  <2>2. g[first].prev = y /\ g[y].prev = n /\ g[next].prev = x
    BY <1>9, <1>10, <1>11, <1>12, <1>13, <1>14, <1>15, <1>18 DEF Differ, NextTo, PrevTo
  <2> QED BY <2>1, <2>2 DEF Link
<1>20. /\ A \intersect Elems(m) \subseteq {n} /\ B \intersect Elems(m) \subseteq {first}
       /\ A \intersect Elems(v) = {}
       /\ B \intersect ({x} \union Elems(v)) \subseteq {next}
  BY <1>4, <1>5, <1>6
<1> HIDE DEF A, B
<1>21. Chained(g, m)
  <2>1. A \intersect Elems(m) \subseteq {m[Len(m)]} /\ B \intersect Elems(m) \subseteq {m[1]}
    BY <1>6, <1>20 DEF first
  <2>2. Chained(h, m) /\ NoneTwice(m) /\ m \in Seq(Nodes) /\ m # <<>>
    BY <1>2, <1>4, <1>8 DEF From
  <2> QED BY <1>17, <2>1, <2>2, ChainedFrame
<1>22. Path(g, y, m, y)
  BY <1>2, <1>6, <1>19, <1>21 DEF Path, From, LastOf, first
<1>23. To(g, v, x)
  BY <1>4, <1>8, <1>17, <1>20, ToFrame DEF next
<1>24. Path(g, x, v, x)
  <2>1. PICK o : o = <<>> /\ o \in Seq(Nodes)
    BY NoneIs, Zenon
  <2>2. o \o v = v /\ LastOf(x, o) = x /\ From(g, x, o)
    BY <2>1, NoneIs DEF From
  <2>3. Path(g, x, o \o v, x)
    BY <1>19, <1>23, <2>1, <2>2, PathJoin DEF next
  <2> QED BY <2>2, <2>3
<1>25. Elems(v) \intersect Elems(m) = {}
  BY <1>4
<1>26. End("list", x) = x /\ End("list", y) = y
  BY DEF End
<1> QED BY <1>2, <1>4, <1>15, <1>16, <1>22, <1>24, <1>25, <1>26 DEF Two, m

(* list_cut_position, to an empty list. *)
LEMMA ListCut ==
  ASSUME NEW h, NEW x \in Heads, NEW y \in Heads, x # y, NEW p, NEW q, q = <<>>,
         Two("list", h, x, p, y, q)
  PROVE  /\ Two("list", list_cut_position(h, y, x, x), x, p, y, <<>>)
         /\ \A u, v \in Seq(Nodes), n \in Nodes :
              p = u \o (<<n>> \o v) =>
                Two("list", list_cut_position(h, y, x, n), x, v, y, u \o <<n>>)
<1>1. p \in Seq(Nodes) /\ NoneTwice(p) /\ Path(h, x, p, x) /\ h \in Heaps
  BY DEF Two, End
<1>2. Two("list", INIT_LIST_HEAD(h, y), x, p, y, <<>>)
  BY <1>1, TwoInit
<1>3. Two("list", list_cut_position(h, y, x, x), x, p, y, <<>>)
  BY <1>2 DEF list_cut_position
<1>4. ASSUME NEW u \in Seq(Nodes), NEW v \in Seq(Nodes), NEW n \in Nodes,
             p = u \o (<<n>> \o v)
      PROVE  Two("list", list_cut_position(h, y, x, n), x, v, y, u \o <<n>>)
  <2>1. Two("list", __list_cut_position(h, y, x, n), x, v, y, u \o <<n>>)
    BY <1>4, CutAt
  <2>2. p # <<>> /\ (Len(p) = 1 => p[1] = n) /\ n # x
    <3>1. /\ Len(<<n>>) = 1 /\ <<n>>[1] = n /\ <<n>> \in Seq(Nodes)
          /\ Len(u) \in Nat /\ Len(v) \in Nat
      BY <1>4
    <3>2. Len(p) = Len(u) + (1 + Len(v)) /\ p[Len(u) + 1] = n
      BY <1>4, <3>1
    <3>3. n # x
      BY <1>4, ListAssumption
    <3> QED BY <1>1, <3>1, <3>2, <3>3
  <2>3. ~ list_empty(h, x) /\ (list_is_singular(h, x) => h[x].next = n)
    BY <2>2, ListShape DEF FirstOf
  <2> QED BY <2>1, <2>2, <2>3 DEF list_cut_position
<1> QED BY <1>3, <1>4

-----------------------------------------------------------------------------
(* The operations of an hlist.                                             *)

(* An assignment to the pprev of what may be no entry. *)
PprevTo(h, g, s, to) == Differ(h, g, {}, {s}) /\ (s # NULL => g[s].prev = to)

(* This is what SetPprev does. *)
LEMMA WritesPprev ==
  ASSUME NEW h \in Heaps, NEW s, s \in Nodes \union {NULL}, NEW to \in Pointers
  PROVE  SetPprev(h, s, to) \in Heaps /\ PprevTo(h, SetPprev(h, s, to), s, to)
<1>1. CASE s = NULL
  BY <1>1 DEF SetPprev, PprevTo, Differ
<1>2. CASE s # NULL
  <2>1. s \in Structs /\ SetPprev(h, s, to) = SetPrev(h, s, to)
    BY <1>2 DEF Structs, SetPprev
  <2> QED BY <1>2, <2>1, WritesPrev DEF PprevTo, PrevTo
<1> QED BY <1>1, <1>2

(* What an hlist begins with. *)
LEMMA HlistShape ==
  ASSUME NEW h, NEW x \in Heads, NEW y \in Heads, NEW p, NEW q, Two("hlist", h, x, p, y, q)
  PROVE  /\ h[x].next = FirstOf(p, NULL)
         /\ FirstOf(p, NULL) \in {NULL} \union Elems(p)
         /\ FirstOf(p, NULL) \in Nodes \union {NULL}
         /\ hlist_empty(h, x) <=> p = <<>>
<1>1. PICK e : e = NULL
  OBVIOUS
<1>2. p \in Seq(Nodes) /\ Path(h, x, p, e) /\ EndOf(x, e)
  BY <1>1 DEF Two, End, EndOf
<1>3. h[x].next = Stop(p, 1, e)
  BY <1>2, PathPoints
<1>4. /\ p # <<>> <=> 1 \in 1..Len(p)
      /\ \A k \in 1..Len(p) : p[k] \in Nodes
      /\ NULL \notin Nodes
  BY <1>2, EmptyIs, ListAssumption
<1>5. h[x].next = FirstOf(p, NULL)
  BY <1>1, <1>3, <1>4 DEF Stop, FirstOf
<1>6. FirstOf(p, NULL) \in {NULL} \union Elems(p)
  BY <1>2, EndsIn
<1>7. FirstOf(p, NULL) \in Nodes \union {NULL} /\ (FirstOf(p, NULL) = NULL <=> p = <<>>)
  BY <1>4 DEF FirstOf
<1> QED BY <1>5, <1>6, <1>7 DEF hlist_empty

(* INIT_HLIST_HEAD makes an hlist empty and leaves another. *)
LEMMA HlistInit ==
  ASSUME NEW h, NEW x \in Heads, NEW y \in Heads, x # y, NEW p, NEW q,
         Two("hlist", h, x, p, y, q)
  PROVE  Two("hlist", INIT_HLIST_HEAD(h, x), x, <<>>, y, q)
<1> DEFINE g == SetNext(h, x, NULL)
<1>1. h \in Heaps /\ x \in Structs /\ NULL \in Pointers /\ x \notin Nodes
  BY StructsPoint, ListAssumption DEF Two, Structs
<1>2. g \in Heaps /\ NextTo(h, g, x, NULL)
  BY <1>1, WritesNext
<1> HIDE DEF g
<1>3. PICK e : e = NULL /\ EndOf(y, e)
  BY DEF EndOf
<1>4. /\ q \in Seq(Nodes) /\ NoneTwice(q) /\ Path(h, y, q, e)
      /\ Elems(q) \subseteq Nodes
  BY <1>3 DEF Two, End, Elems
<1>5. \A s \in {y} \union Elems(q) : g[s].next = h[s].next /\ g[s].prev = h[s].prev
  BY <1>1, <1>2, <1>4 DEF NextTo, Differ, Structs
<1>6. Path(g, y, q, e)
  BY <1>3, <1>4, <1>5, PathFrame
<1>7. Path(g, x, <<>>, e)
  BY <1>2, <1>3, NoneIs DEF Path, From, Link, NextTo
<1>8. End("hlist", x) = e /\ End("hlist", y) = e
  BY <1>3 DEF End
<1> QED BY <1>2, <1>4, <1>6, <1>7, <1>8, NoneIs DEF Two, INIT_HLIST_HEAD, g

(* hlist_add_head. *)
LEMMA HlistAddHead ==
  ASSUME NEW h, NEW x \in Heads, NEW y \in Heads, x # y, NEW p, NEW q,
         Two("hlist", h, x, p, y, q), NEW n \in Nodes, n \notin Elems(p), n \notin Elems(q)
  PROVE  Two("hlist", hlist_add_head(h, n, x), x, <<n>> \o p, y, q)
<1> DEFINE first == FirstOf(p, NULL)
           h1 == SetNext(h, n, first)
           h2 == SetPprev(h1, first, n)
           h3 == SetNext(h2, x, n)
           g == SetPrev(h3, n, x)
<1>1. /\ h[x].next = first /\ first \in {NULL} \union Elems(p)
      /\ first \in Nodes \union {NULL} /\ n # NULL /\ n # x /\ x # NULL
  BY HlistShape, ListAssumption
<1> HIDE DEF first
<1>2. /\ h \in Heaps /\ p \in Seq(Nodes) /\ n # first /\ first # x
      /\ x \in Structs /\ n \in Structs
      /\ first \in Pointers /\ x \in Pointers /\ n \in Pointers
  BY <1>1, StructsPoint, ListAssumption DEF Two, Structs, Pointers
<1>3. h1 \in Heaps /\ NextTo(h, h1, n, first)
  BY <1>2, WritesNext
<1> HIDE DEF h1
<1>4. h2 \in Heaps /\ PprevTo(h1, h2, first, n)
  BY <1>1, <1>2, <1>3, WritesPprev
<1> HIDE DEF h2
<1>5. h3 \in Heaps /\ NextTo(h2, h3, x, n)
  BY <1>2, <1>4, WritesNext
<1> HIDE DEF h3
<1>6. g \in Heaps /\ PrevTo(h3, g, n, x)
  BY <1>2, <1>5, WritesPrev
<1>7. g = hlist_add_head(h, n, x)
  BY <1>1 DEF hlist_add_head, g, h3, h2, h1
<1> HIDE DEF g
<1>8. Link(g, x, n) /\ Link(g, n, first)
  <2>1. g[x].next = n /\ g[n].prev = x /\ g[n].next = first
    BY <1>1, <1>2, <1>3, <1>4, <1>5, <1>6 DEF Differ, NextTo, PrevTo, PprevTo
  <2>2. first # NULL => g[first].prev = n /\ first \in Structs
    BY <1>1, <1>2, <1>3, <1>4, <1>5, <1>6 DEF Differ, NextTo, PrevTo, PprevTo, Structs
  <2> QED BY <2>1, <2>2 DEF Link
<1>9. Differ(h, g, {x, n}, {n, first})
  BY <1>3, <1>4, <1>5, <1>6 DEF Differ, NextTo, PrevTo, PprevTo
<1>10. PICK u : u = <<>> /\ u \in Seq(Nodes)
  BY NoneIs, Zenon
<1>11. /\ u \o p = p /\ LastOf(x, u) = x /\ End("hlist", x) = NULL
       /\ u \o (<<n>> \o p) = <<n>> \o p
  BY <1>2, <1>10 DEF LastOf, End
<1>12. /\ Two("hlist", h, x, u \o p, y, q) /\ n \notin Elems(u \o p)
       /\ FirstOf(p, End("hlist", x)) = first
       /\ Differ(h, g, {LastOf(x, u), n}, {n, FirstOf(p, End("hlist", x))})
       /\ Link(g, LastOf(x, u), n) /\ Link(g, n, FirstOf(p, End("hlist", x)))
  BY <1>8, <1>9, <1>11 DEF first
<1>13. Two("hlist", g, x, u \o (<<n>> \o p), y, q)
  BY <1>2, <1>6, <1>10, <1>12, TwoAdd
<1> QED BY <1>7, <1>11, <1>13

(* An entry in front of a sequence and behind one. *)
LEMMA OneMore ==
  ASSUME NEW u \in Seq(Nodes), NEW v \in Seq(Nodes), NEW n \in Nodes
  PROVE  /\ <<n>> \o v \in Seq(Nodes) /\ Elems(<<n>> \o v) = {n} \union Elems(v)
         /\ \A e : FirstOf(<<n>> \o v, e) = n
         /\ u \o <<n>> \in Seq(Nodes) /\ Elems(u \o <<n>>) = {n} \union Elems(u)
         /\ \A a : LastOf(a, u \o <<n>>) = n
         /\ (u \o <<n>>) \o v = u \o (<<n>> \o v)
<1> DEFINE o == <<n>>
<1>1. /\ o \in Seq(Nodes) /\ Len(o) = 1 /\ o[1] = n /\ o # <<>> /\ Elems(o) = {n}
      /\ \A a : LastOf(a, o) = n /\ FirstOf(o, a) = n
  BY OneIs
<1> HIDE DEF o
<1>2. Elems(o \o v) = {n} \union Elems(v) /\ Elems(u \o o) = {n} \union Elems(u)
  BY <1>1, ElemsCat
<1>3. o \o v \in Seq(Nodes) /\ u \o o \in Seq(Nodes) /\ (u \o o) \o v = u \o (o \o v)
  BY <1>1, CatIs, ConcatAssociative
<1>4. \A a : FirstOf(o \o v, a) = n /\ LastOf(a, u \o o) = n
  BY <1>1, EndsOfCat
<1> QED BY <1>2, <1>3, <1>4 DEF o

(* hlist_add_before. *)
LEMMA HlistAddBefore ==
  ASSUME NEW h, NEW x \in Heads, NEW y \in Heads, x # y,
         NEW u \in Seq(Nodes), NEW v \in Seq(Nodes), NEW q, NEW o \in Nodes,
         Two("hlist", h, x, u \o (<<o>> \o v), y, q),
         NEW n \in Nodes, n \notin Elems(u \o (<<o>> \o v)), n \notin Elems(q)
  PROVE  Two("hlist", hlist_add_before(h, n, o), x, u \o (<<n>> \o (<<o>> \o v)), y, q)
<1> DEFINE prev == LastOf(x, u)
           w == <<o>> \o v
           h1 == SetPrev(h, n, prev)
           h2 == SetNext(h1, n, o)
           h3 == SetPrev(h2, o, n)
           g == SetNext(h3, prev, n)
<1>1. h \in Heaps /\ h[o].prev = prev /\ prev \in Structs /\ prev # o
  BY HlistEntry
<1>2. prev \in {x} \union Elems(u) /\ n # x /\ n # NULL /\ o # NULL
  BY EndsIn, ListAssumption
<1>3. w \in Seq(Nodes) /\ Elems(u \o w) = Elems(u) \union Elems(w) /\ Elems(w) = {o} \union Elems(v)
      /\ FirstOf(w, NULL) = o
  <2>1. w \in Seq(Nodes) /\ Elems(w) = {o} \union Elems(v) /\ FirstOf(w, NULL) = o
    BY OneMore
  <2> HIDE DEF w
  <2>2. Elems(u \o w) = Elems(u) \union Elems(w)
    BY <2>1, ElemsCat
  <2> QED BY <2>1, <2>2
<1>4. n # prev /\ n # o
  BY <1>2, <1>3
<1> HIDE DEF prev, w
<1>5. /\ n \in Structs /\ o \in Structs
      /\ prev \in Pointers /\ n \in Pointers /\ o \in Pointers
  BY <1>1, StructsPoint DEF Structs
<1>6. h1 \in Heaps /\ PrevTo(h, h1, n, prev)
  BY <1>1, <1>5, WritesPrev
<1> HIDE DEF h1
<1>7. h2 \in Heaps /\ NextTo(h1, h2, n, o)
  BY <1>5, <1>6, WritesNext
<1> HIDE DEF h2
<1>8. h3 \in Heaps /\ PrevTo(h2, h3, o, n)
  BY <1>5, <1>7, WritesPrev
<1> HIDE DEF h3
<1>9. g \in Heaps /\ NextTo(h3, g, prev, n)
  BY <1>1, <1>5, <1>8, WritesNext
<1>10. g = hlist_add_before(h, n, o)
  <2>1. h3[n].prev = prev
    BY <1>4, <1>5, <1>6, <1>7, <1>8 DEF Differ, NextTo, PrevTo
  <2> QED BY <1>1, <2>1 DEF hlist_add_before, SetAt, g, h3, h2, h1
<1> HIDE DEF g
<1>11. Link(g, prev, n) /\ Link(g, n, o)
  <2>1. g[prev].next = n /\ g[n].prev = prev /\ g[n].next = o /\ g[o].prev = n
    BY <1>1, <1>4, <1>5, <1>6, <1>7, <1>8, <1>9 DEF Differ, NextTo, PrevTo
  <2> QED BY <2>1 DEF Link
<1>12. Differ(h, g, {prev, n}, {n, o})
  BY <1>6, <1>7, <1>8, <1>9 DEF Differ, NextTo, PrevTo
<1>13. End("hlist", x) = NULL
  BY DEF End
<1>14. /\ Two("hlist", h, x, u \o w, y, q) /\ n \notin Elems(u \o w)
       /\ FirstOf(w, End("hlist", x)) = o
       /\ Differ(h, g, {LastOf(x, u), n}, {n, FirstOf(w, End("hlist", x))})
       /\ Link(g, LastOf(x, u), n) /\ Link(g, n, FirstOf(w, End("hlist", x)))
  BY <1>3, <1>11, <1>12, <1>13 DEF prev, w
<1>15. Two("hlist", g, x, u \o (<<n>> \o w), y, q)
  BY <1>3, <1>9, <1>14, TwoAdd
<1> QED BY <1>10, <1>15 DEF w

(* hlist_add_behind. *)
LEMMA HlistAddBehind ==
  ASSUME NEW h, NEW x \in Heads, NEW y \in Heads, x # y,
         NEW u \in Seq(Nodes), NEW v \in Seq(Nodes), NEW q, NEW o \in Nodes,
         Two("hlist", h, x, u \o (<<o>> \o v), y, q),
         NEW n \in Nodes, n \notin Elems(u \o (<<o>> \o v)), n \notin Elems(q)
  PROVE  Two("hlist", hlist_add_behind(h, n, o), x, (u \o <<o>>) \o (<<n>> \o v), y, q)
<1> DEFINE next == FirstOf(v, NULL)
           w == u \o <<o>>
           h1 == SetNext(h, n, next)
           h2 == SetNext(h1, o, n)
           h3 == SetPrev(h2, n, o)
           g == SetPprev(h3, next, n)
<1>1. h \in Heaps /\ h[o].next = next /\ next \in Nodes \union {NULL} /\ next # o
  BY HlistEntry
<1>2. next \in {NULL} \union Elems(v) /\ n # x /\ n # NULL /\ o # NULL
  BY EndsIn, ListAssumption
<1>3. w \in Seq(Nodes) /\ Elems(w \o v) = Elems(w) \union Elems(v) /\ Elems(w) = {o} \union Elems(u)
      /\ LastOf(x, w) = o /\ w \o v = u \o (<<o>> \o v)
  <2>1. /\ w \in Seq(Nodes) /\ Elems(w) = {o} \union Elems(u) /\ LastOf(x, w) = o
        /\ w \o v = u \o (<<o>> \o v)
    <3>1. w \in Seq(Nodes) /\ w \o v = u \o (<<o>> \o v)
      BY OneMore
    <3>2. Elems(w) = {o} \union Elems(u)
      BY OneMore
    <3>3. LastOf(x, w) = o
      BY OneMore
    <3> QED BY <3>1, <3>2, <3>3
  <2> HIDE DEF w
  <2>2. Elems(w \o v) = Elems(w) \union Elems(v)
    BY <2>1, ElemsCat
  <2> QED BY <2>1, <2>2
<1>4. n # next /\ n # o
  BY <1>2, <1>3
<1> HIDE DEF next, w
<1>5. /\ n \in Structs /\ o \in Structs
      /\ next \in Pointers /\ n \in Pointers /\ o \in Pointers
  BY <1>1, StructsPoint DEF Structs
<1>6. h1 \in Heaps /\ NextTo(h, h1, n, next)
  BY <1>1, <1>5, WritesNext
<1> HIDE DEF h1
<1>7. h2 \in Heaps /\ NextTo(h1, h2, o, n)
  BY <1>5, <1>6, WritesNext
<1> HIDE DEF h2
<1>8. h3 \in Heaps /\ PrevTo(h2, h3, n, o)
  BY <1>5, <1>7, WritesPrev
<1> HIDE DEF h3
<1>9. g \in Heaps /\ PprevTo(h3, g, next, n)
  BY <1>1, <1>5, <1>8, WritesPprev
<1>10. g = hlist_add_behind(h, n, o)
  <2>1. h3[n].next = next
    BY <1>4, <1>5, <1>6, <1>7, <1>8 DEF Differ, NextTo, PrevTo
  <2> QED BY <1>1, <2>1 DEF hlist_add_behind, g, h3, h2, h1
<1> HIDE DEF g
<1>11. Link(g, o, n) /\ Link(g, n, next)
  <2>1. g[o].next = n /\ g[n].prev = o /\ g[n].next = next
    BY <1>4, <1>5, <1>6, <1>7, <1>8, <1>9 DEF Differ, NextTo, PrevTo, PprevTo
  <2>2. next # NULL => g[next].prev = n
    BY <1>9 DEF PprevTo
  <2> QED BY <2>1, <2>2 DEF Link
<1>12. Differ(h, g, {o, n}, {n, next})
  BY <1>6, <1>7, <1>8, <1>9 DEF Differ, NextTo, PrevTo, PprevTo
<1>13. End("hlist", x) = NULL
  BY DEF End
<1>14. /\ Two("hlist", h, x, w \o v, y, q) /\ n \notin Elems(w \o v)
       /\ Differ(h, g, {LastOf(x, w), n}, {n, FirstOf(v, End("hlist", x))})
       /\ Link(g, LastOf(x, w), n) /\ Link(g, n, FirstOf(v, End("hlist", x)))
  BY <1>3, <1>11, <1>12, <1>13 DEF next
<1>15. Two("hlist", g, x, w \o (<<n>> \o v), y, q)
  BY <1>3, <1>9, <1>14, TwoAdd
<1> QED BY <1>10, <1>15 DEF w

(* INIT_HLIST_NODE writes to one entry. *)
LEMMA NodeWrites ==
  ASSUME NEW h \in Heaps, NEW s \in Structs
  PROVE  LET g == INIT_HLIST_NODE(h, s)
         IN g \in Heaps /\ Differ(h, g, {s}, {s}) /\ g[s].prev = NULL
  BY DEF Heaps, Differ, Structs, Pointers, INIT_HLIST_NODE

(* hlist_del and hlist_del_init; an entry that is in no hlist stays as it is. *)
LEMMA HlistDel ==
  ASSUME NEW h, NEW x \in Heads, NEW y \in Heads, x # y,
         NEW u \in Seq(Nodes), NEW v \in Seq(Nodes), NEW q, NEW n \in Nodes,
         Two("hlist", h, x, u \o (<<n>> \o v), y, q)
  PROVE  /\ Two("hlist", hlist_del(h, n), x, u \o v, y, q)
         /\ Two("hlist", hlist_del_init(h, n), x, u \o v, y, q)
         /\ hlist_unhashed(hlist_del_init(h, n), n)
         /\ hlist_del_init(hlist_del_init(h, n), n) = hlist_del_init(h, n)
<1> DEFINE prev == LastOf(x, u)
           next == FirstOf(v, NULL)
           h1 == SetNext(h, prev, next)
           g == SetPprev(h1, next, prev)
           f == [g EXCEPT ![n] = [next |-> POISON, prev |-> POISON]]
           i == INIT_HLIST_NODE(g, n)
<1>1. /\ h \in Heaps /\ h[n].prev = prev /\ h[n].next = next /\ prev \in Structs
      /\ prev # n /\ next # n /\ next \in Nodes \union {NULL}
  BY HlistEntry
<1> HIDE DEF prev, next
<1>2. /\ n \in Structs /\ prev \in Pointers /\ next \in Pointers /\ prev # NULL
      /\ POISON \in Pointers /\ NULL \in Pointers
  BY <1>1, StructsPoint DEF Structs, Pointers
<1>3. h1 \in Heaps /\ NextTo(h, h1, prev, next)
  BY <1>1, <1>2, WritesNext
<1> HIDE DEF h1
<1>4. g \in Heaps /\ PprevTo(h1, g, next, prev)
  BY <1>1, <1>2, <1>3, WritesPprev
<1>5. /\ g = __hlist_del(h, n) /\ f = hlist_del(h, n) /\ i = hlist_del_init(h, n)
  BY <1>1, <1>2 DEF __hlist_del, hlist_del, hlist_del_init, hlist_unhashed,
                    SetAt, g, f, i, h1
<1> HIDE DEF g
<1>6. Link(g, prev, next)
  BY <1>1, <1>3, <1>4 DEF Link, Differ, NextTo, PprevTo
<1>7. Differ(h, g, {prev, n}, {n, next})
  BY <1>3, <1>4 DEF Differ, NextTo, PprevTo
<1>8. End("hlist", x) = NULL
  BY DEF End
<1>9. /\ Differ(h, g, {LastOf(x, u), n}, {n, FirstOf(v, End("hlist", x))})
      /\ Link(g, LastOf(x, u), FirstOf(v, End("hlist", x)))
  BY <1>6, <1>7, <1>8 DEF prev, next
<1>10. Two("hlist", g, x, u \o v, y, q) /\ n \notin Elems(u \o v) /\ n \notin Elems(q)
  BY <1>4, <1>9, TwoDel
<1>11. f \in Heaps /\ Differ(g, f, {n}, {n})
  BY <1>2, <1>4, BothWritten
<1>12. i \in Heaps /\ Differ(g, i, {n}, {n}) /\ i[n].prev = NULL
  BY <1>2, <1>4, NodeWrites
<1> HIDE DEF f, i
<1>13. Two("hlist", f, x, u \o v, y, q)
  BY <1>10, <1>11, TwoLeft
<1>14. Two("hlist", i, x, u \o v, y, q)
  BY <1>10, <1>12, TwoLeft
<1>15. hlist_unhashed(i, n) /\ hlist_del_init(i, n) = i
  BY <1>12 DEF hlist_unhashed, hlist_del_init
<1> QED BY <1>5, <1>13, <1>14, <1>15

(* hlist_move_list, to an empty hlist. *)
LEMMA HlistMoveList ==
  ASSUME NEW h, NEW x \in Heads, NEW y \in Heads, x # y, NEW p, NEW q, q = <<>>,
         Two("hlist", h, x, p, y, q)
  PROVE  Two("hlist", hlist_move_list(h, x, y), x, <<>>, y, p)
<1> DEFINE first == FirstOf(p, NULL)
           h1 == SetNext(h, y, first)
           h2 == SetPprev(h1, first, y)
           g == SetNext(h2, x, NULL)
<1>1. /\ h[x].next = first /\ first \in {NULL} \union Elems(p)
      /\ first \in Nodes \union {NULL}
  BY HlistShape
<1>2. /\ h \in Heaps /\ p \in Seq(Nodes) /\ NoneTwice(p) /\ Elems(p) \subseteq Nodes
      /\ End("hlist", x) = NULL /\ End("hlist", y) = NULL /\ Path(h, x, p, NULL)
  BY DEF Two, End, Elems
<1>3. /\ x \in Structs /\ y \in Structs /\ NULL \in Pointers /\ first \in Pointers
      /\ x \in Pointers /\ y \in Pointers /\ first # x /\ first # y
      /\ x \notin Nodes /\ y \notin Nodes /\ NULL # y
  BY <1>1, StructsPoint, ListAssumption DEF Structs
<1> HIDE DEF first
<1>4. h1 \in Heaps /\ NextTo(h, h1, y, first)
  BY <1>2, <1>3, WritesNext
<1> HIDE DEF h1
<1>5. h2 \in Heaps /\ PprevTo(h1, h2, first, y)
  BY <1>1, <1>3, <1>4, WritesPprev
<1> HIDE DEF h2
<1>6. g \in Heaps /\ NextTo(h2, g, x, NULL)
  BY <1>3, <1>5, WritesNext
<1>7. g = hlist_move_list(h, x, y)
  <2>1. h1[y].next = first
    BY <1>4 DEF NextTo
  <2> QED BY <1>1, <2>1 DEF hlist_move_list, g, h2, h1
<1> HIDE DEF g
<1>8. Path(g, x, <<>>, NULL)
  BY <1>6, NoneIs DEF Path, From, Link, NextTo
<1>9. Link(g, y, first)
  BY <1>1, <1>3, <1>4, <1>5, <1>6 DEF Link, Differ, NextTo, PprevTo, Structs
<1>10. CASE p = <<>>
  <2>1. first = NULL
    BY <1>10 DEF first, FirstOf
  <2>2. Path(g, y, <<>>, NULL)
    BY <1>9, <2>1, NoneIs DEF Path, From
  <2> QED BY <1>2, <1>6, <1>7, <1>8, <1>10, <2>2, NoneIs DEF Two
<1>11. CASE p # <<>>
  <2> DEFINE A == {y, x}
             B == {first}
  <2>1. first = p[1] /\ LastOf(x, p) = p[Len(p)] /\ LastOf(y, p) = p[Len(p)]
        /\ p[Len(p)] \in Elems(p)
    BY <1>2, <1>11, EndsIn DEF first, FirstOf, LastOf
  <2>2. /\ A \intersect Elems(p) \subseteq {p[Len(p)]}
        /\ B \intersect Elems(p) \subseteq {p[1]}
    BY <1>2, <1>3, <2>1
  <2>3. Differ(h, g, A, B)
    BY <1>4, <1>5, <1>6 DEF Differ, NextTo, PprevTo
  <2>4. p[Len(p)] \notin A /\ p[Len(p)] \in Structs
    BY <1>2, <1>3, <2>1 DEF Structs
  <2> HIDE DEF A, B
  <2>5. Chained(h, p) /\ Link(h, p[Len(p)], NULL)
    BY <1>2, <2>1 DEF Path, From
  <2>6. Chained(g, p)
    BY <1>2, <1>11, <2>2, <2>3, <2>5, ChainedFrame
  <2>7. Link(g, p[Len(p)], NULL)
    BY <2>3, <2>4, <2>5 DEF Differ, Link
  <2>8. Path(g, y, p, NULL)
    BY <1>9, <2>1, <2>6, <2>7 DEF Path, From
  <2>9. Elems(<<>>) \intersect Elems(p) = {}
    BY NoneIs
  <2> QED BY <1>2, <1>6, <1>7, <1>8, <2>8, <2>9, NoneIs DEF Two
<1> QED BY <1>10, <1>11

-----------------------------------------------------------------------------
(* The heap the operations begin with, and the safe walks.                 *)

(* Where an entry is. *)
LEMMA PlaceIs ==
  ASSUME NEW S, NEW c \in Seq(S), \A j, k \in 1..Len(c) : c[j] = c[k] => j = k
  PROVE  \A k \in 1..Len(c) : PlaceIn(c, c[k]) = k
<1> TAKE k \in 1..Len(c)
<1>1. DOMAIN c = 1..Len(c)
  OBVIOUS
<1>2. \E j \in DOMAIN c : c[j] = c[k]
  BY <1>1
<1>3. PlaceIn(c, c[k]) \in DOMAIN c /\ c[PlaceIn(c, c[k])] = c[k]
  BY <1>2 DEF PlaceIn
<1> QED BY <1>1, <1>3

(* The sequence on both sides of an entry. *)
LEMMA SplitAt ==
  ASSUME NEW p \in Seq(Nodes), NoneTwice(p), NEW n \in Elems(p)
  PROVE  /\ n \in Nodes /\ Before(p, n) \in Seq(Nodes) /\ After(p, n) \in Seq(Nodes)
         /\ p = Before(p, n) \o (<<n>> \o After(p, n))
         /\ Removed(p, n) = Before(p, n) \o After(p, n)
<1>1. PICK k \in 1..Len(p) : p[k] = n
  BY DEF Elems
<1>2. PlaceIn(p, n) = k
  BY <1>1, PlaceIs DEF NoneTwice
<1>3. Len(p) \in Nat /\ n \in Nodes /\ k \in Nat \ {0} /\ k <= Len(p)
  BY <1>1
<1> DEFINE u == SubSeq(p, 1, k - 1)
           v == SubSeq(p, k + 1, Len(p))
           o == <<n>>
<1>4. /\ u \in Seq(Nodes) /\ Len(u) = k - 1
      /\ \A j \in 1..(k - 1) : u[j] = p[j]
  BY <1>3
<1>5. /\ v \in Seq(Nodes) /\ Len(v) = Len(p) - k
      /\ \A j \in 1..(Len(p) - k) : v[j] = p[k + j]
  <2>1. /\ k + 1 \in 1..(Len(p) + 1) /\ Len(p) - (k + 1) + 1 = Len(p) - k
        /\ \A j \in 1..(Len(p) - k) : (k + 1) + j - 1 = k + j
    BY <1>3
  <2> DEFINE a == k + 1
             b == Len(p)
  <2>2. a \in Int /\ b \in Int /\ \A j \in a..b : p[j] \in Nodes
    BY <1>3
  <2>3. a \in Nat /\ b \in Nat /\ a <= b + 1 /\ b - a + 1 = Len(p) - k
    BY <1>3
  <2> HIDE DEF a, b
  <2>4. /\ SubSeq(p, a, b) \in Seq(Nodes)
        /\ Len(SubSeq(p, a, b)) = IF a <= b THEN b - a + 1 ELSE 0
        /\ \A j \in 1..(b - a + 1) : SubSeq(p, a, b)[j] = p[a + j - 1]
    BY <2>2, SubSeqProperties
  <2>5. Len(SubSeq(p, a, b)) = b - a + 1
    BY <2>3, <2>4
  <2>6. \A j \in 1..(Len(p) - k) : SubSeq(p, a, b)[j] = p[k + j]
    BY <2>1, <2>3, <2>4 DEF a
  <2>7. v = SubSeq(p, a, b)
    BY DEF a, b
  <2> HIDE DEF v
  <2> QED BY <2>3, <2>4, <2>5, <2>6, <2>7
<1>6. o \in Seq(Nodes) /\ Len(o) = 1 /\ o[1] = n
  BY <1>3
<1> HIDE DEF u, v, o
<1>7. /\ o \o v \in Seq(Nodes) /\ Len(o \o v) = 1 + Len(v) /\ (o \o v)[1] = n
      /\ \A j \in 1..Len(v) : (o \o v)[1 + j] = v[j]
  <2>1. /\ o \o v \in Seq(Nodes) /\ Len(o \o v) = Len(o) + Len(v)
        /\ \A j \in 1..Len(o) : (o \o v)[j] = o[j]
        /\ \A j \in 1..Len(v) : (o \o v)[Len(o) + j] = v[j]
    BY <1>5, <1>6, CatIs
  <2> QED BY <1>6, <2>1
<1> DEFINE w == o \o v
<1> HIDE DEF w
<1>8. /\ u \o w \in Seq(Nodes) /\ Len(u \o w) = Len(u) + Len(w)
      /\ \A j \in 1..Len(u) : (u \o w)[j] = u[j]
      /\ \A j \in 1..Len(w) : (u \o w)[Len(u) + j] = w[j]
  <2>1. w \in Seq(Nodes)
    BY <1>7 DEF w
  <2> QED BY <1>4, <2>1, CatIs
<1>9. p = u \o w
  <2>1. Len(u \o w) = Len(p)
    BY <1>3, <1>4, <1>5, <1>7, <1>8 DEF w
  <2>2. ASSUME NEW j \in 1..Len(p) PROVE (u \o w)[j] = p[j]
    <3>1. CASE j < k
      <4>1. j \in 1..(k - 1) /\ j \in 1..Len(u)
        BY <1>3, <1>4, <3>1
      <4> QED BY <1>4, <1>8, <4>1
    <3>2. CASE j = k
      <4>1. 1 \in 1..Len(w) /\ Len(u) + 1 = k /\ w[1] = n
        BY <1>3, <1>4, <1>5, <1>7 DEF w
      <4> QED BY <1>1, <1>8, <3>2, <4>1
    <3>3. CASE j > k
      <4> DEFINE i == j - k
      <4>1. i \in 1..Len(v) /\ i \in 1..(Len(p) - k) /\ 1 + i \in 1..Len(w)
            /\ Len(u) + (1 + i) = j /\ k + i = j
        BY <1>3, <1>4, <1>5, <1>7, <3>3 DEF w
      <4> HIDE DEF i
      <4>2. w[1 + i] = v[i] /\ v[i] = p[j]
        BY <1>5, <1>7, <4>1 DEF w
      <4> QED BY <1>8, <4>1, <4>2
    <3>4. j < k \/ j = k \/ j > k
      BY <1>3
    <3> QED BY <3>1, <3>2, <3>3, <3>4
  <2> QED BY <1>8, <2>1, <2>2, SeqEqual
<1>10. Before(p, n) = u /\ After(p, n) = v
  BY <1>2 DEF Before, After, u, v
<1> QED BY <1>3, <1>4, <1>5, <1>9, <1>10 DEF w, o, Removed

(* The pointers that Strung makes. *)
LEMMA StrungIs ==
  ASSUME NEW g \in Heaps, NEW x \in Heads, NEW p \in Seq(Nodes), NoneTwice(p),
         NEW end, EndOf(x, end), NEW back \in Pointers,
         end = x => back = LastOf(x, p)
  PROVE  /\ Strung(g, x, p, end, back) \in Heaps
         /\ Path(Strung(g, x, p, end, back), x, p, end)
         /\ \A s \in Structs : s \notin {x} \union Elems(p) =>
              Strung(g, x, p, end, back)[s] = g[s]
<1> DEFINE c == <<x>> \o p
           m == Len(p)
           f == Strung(g, x, p, end, back)
<1>1. /\ x \in Structs /\ x \notin Nodes /\ Nodes \subseteq Structs /\ end \in Pointers
      /\ Structs \subseteq Pointers
  BY ListAssumption, StructsPoint DEF Structs, EndOf
<1>2. /\ m \in Nat /\ \A k \in 1..m : p[k] \in Nodes
      /\ \A j, k \in 1..m : p[j] = p[k] => j = k
  BY DEF NoneTwice
<1>3. /\ c \in Seq(Structs) /\ Len(c) = m + 1 /\ c[1] = x
      /\ \A k \in 1..m : c[k + 1] = p[k]
  <2>1. <<x>> \in Seq(Structs) /\ p \in Seq(Structs) /\ Len(<<x>>) = 1 /\ <<x>>[1] = x
    BY <1>1
  <2> QED BY <1>2, <2>1
<1> HIDE DEF c
<1>4. \A k \in 1..(m + 1) : k # 1 => k - 1 \in 1..m /\ c[k] = p[k - 1]
  <2>1. ASSUME NEW k \in 1..(m + 1), k # 1 PROVE k - 1 \in 1..m /\ c[k] = p[k - 1]
    <3>1. k - 1 \in 1..m /\ (k - 1) + 1 = k
      BY <1>2, <2>1
    <3> QED BY <1>3, <3>1
  <2> QED BY <2>1
<1>5. \A j, k \in 1..Len(c) : c[j] = c[k] => j = k
  <2>1. ASSUME NEW j \in 1..(m + 1), NEW k \in 1..(m + 1), c[j] = c[k] PROVE j = k
    <3>1. CASE j = 1 \/ k = 1
      <4>1. \A i \in 1..(m + 1) : c[i] = x => i = 1
        BY <1>1, <1>2, <1>4
      <4>2. c[j] = x /\ c[k] = x
        BY <1>3, <2>1, <3>1
      <4> QED BY <4>1, <4>2
    <3>2. CASE j # 1 /\ k # 1
      <4>1. j - 1 = k - 1
        BY <1>2, <1>4, <2>1, <3>2
      <4> QED BY <1>2, <4>1
    <3> QED BY <3>1, <3>2
  <2> QED BY <1>3, <2>1
<1>6. \A k \in 1..(m + 1) : PlaceIn(c, c[k]) = k
  BY <1>3, <1>5, PlaceIs
<1>7. ToSet(c) = {x} \union Elems(p)
  <2>1. ToSet(c) = {c[k] : k \in 1..(m + 1)}
    BY <1>3 DEF ToSet
  <2>2. ASSUME NEW k \in 1..(m + 1) PROVE c[k] \in {x} \union Elems(p)
    BY <1>3, <1>4 DEF Elems
  <2>3. ASSUME NEW k \in 1..m PROVE p[k] \in ToSet(c)
    <3>1. k + 1 \in 1..(m + 1)
      BY <1>2
    <3> QED BY <1>3, <2>1, <3>1
  <2>4. x \in ToSet(c)
    BY <1>2, <1>3, <2>1
  <2> QED BY <2>1, <2>2, <2>3, <2>4 DEF Elems
<1>8. Last(c) = c[m + 1]
  BY <1>3 DEF Last
<1>9. DOMAIN g = Structs /\ \A s \in Structs : g[s] \in [next : Pointers, prev : Pointers]
  BY DEF Heaps, Structs
<1>10. \A s \in Structs : s \notin {x} \union Elems(p) => f[s] = g[s]
  BY <1>7, <1>9 DEF Strung, c
<1>11. ASSUME NEW k \in 1..(m + 1)
       PROVE  f[c[k]] = [next |-> IF k = m + 1 THEN end ELSE c[k + 1],
                         prev |-> IF k = 1 THEN back ELSE c[k - 1]]
  <2>1. c[k] \in Structs /\ c[k] \in ToSet(c)
    BY <1>2, <1>3 DEF ToSet
  <2>2. c[k] = Last(c) <=> k = m + 1
    BY <1>2, <1>3, <1>5, <1>8
  <2>3. c[k] = x <=> k = 1
    BY <1>2, <1>3, <1>5
  <2>4. f[c[k]] = [next |-> IF c[k] = Last(c) THEN end ELSE c[PlaceIn(c, c[k]) + 1],
                   prev |-> IF c[k] = x THEN back ELSE c[PlaceIn(c, c[k]) - 1]]
    BY <1>9, <2>1 DEF Strung, c
  <2>5. PlaceIn(c, c[k]) = k
    BY <1>6
  <2> QED BY <2>2, <2>3, <2>4, <2>5
<1> DEFINE N(k) == IF k = m + 1 THEN end ELSE c[k + 1]
           B(k) == IF k = 1 THEN back ELSE c[k - 1]
<1>19. \A k \in 1..(m + 1) : f[c[k]] = [next |-> N(k), prev |-> B(k)]
  BY <1>11
<1>20. /\ \A k \in 1..m : N(k) = c[k + 1] /\ B(k + 1) = c[k]
       /\ N(m + 1) = end /\ B(1) = back
  BY <1>2
<1>21. \A k \in 1..(m + 1) : N(k) \in Pointers /\ B(k) \in Pointers
  <2>1. ASSUME NEW k \in 1..(m + 1) PROVE N(k) \in Pointers /\ B(k) \in Pointers
    <3>1. k # m + 1 => c[k + 1] \in Pointers
      BY <1>1, <1>2, <1>3
    <3>2. k # 1 => c[k - 1] \in Pointers
      <4>1. k # 1 => k - 1 \in 1..(m + 1)
        BY <1>2
      <4> QED BY <1>1, <1>3, <4>1
    <3> QED BY <1>1, <3>1, <3>2
  <2> QED BY <2>1
<1> HIDE DEF N, B
<1>12. f \in Heaps
  <2>1. DOMAIN f = Structs /\ f = [s \in Structs |-> f[s]]
    BY <1>9 DEF Strung
  <2>2. ASSUME NEW k \in 1..(m + 1) PROVE f[c[k]] \in [next : Pointers, prev : Pointers]
    <3>1. f[c[k]] = [next |-> N(k), prev |-> B(k)]
      BY <1>19
    <3>2. N(k) \in Pointers /\ B(k) \in Pointers
      BY <1>21
    <3> QED BY <3>1, <3>2
  <2>3. ASSUME NEW s \in Structs PROVE f[s] \in [next : Pointers, prev : Pointers]
    <3>1. CASE s \in ToSet(c)
      <4>1. PICK k \in 1..(m + 1) : c[k] = s
        BY <1>3, <3>1 DEF ToSet
      <4> QED BY <2>2, <4>1
    <3>2. CASE s \notin ToSet(c)
      BY <1>7, <1>9, <1>10, <3>2
    <3> QED BY <3>1, <3>2
  <2> QED BY <2>1, <2>3 DEF Heaps, Structs
<1> HIDE DEF f
<1>13. \A k \in 1..m : f[c[k]].next = c[k + 1] /\ f[c[k + 1]].prev = c[k]
  <2>1. ASSUME NEW k \in 1..m PROVE f[c[k]].next = c[k + 1] /\ f[c[k + 1]].prev = c[k]
    <3>1. k \in 1..(m + 1) /\ k + 1 \in 1..(m + 1) /\ k # m + 1 /\ k + 1 # 1 /\ (k + 1) - 1 = k
      BY <1>2
    <3>2. /\ f[c[k]] = [next |-> N(k), prev |-> B(k)]
          /\ f[c[k + 1]] = [next |-> N(k + 1), prev |-> B(k + 1)]
      BY <1>19, <3>1
    <3>3. N(k) = c[k + 1] /\ B(k + 1) = c[k]
      BY <1>20
    <3> QED BY <3>2, <3>3
  <2> QED BY <2>1
<1>14. f[c[m + 1]].next = end /\ f[x].prev = back
  <2>1. m + 1 \in 1..(m + 1) /\ 1 \in 1..(m + 1)
    BY <1>2
  <2>2. /\ f[c[m + 1]] = [next |-> N(m + 1), prev |-> B(m + 1)]
        /\ f[x] = [next |-> N(1), prev |-> B(1)]
    BY <1>3, <1>19, <2>1
  <2> QED BY <1>20, <2>2
<1>15. Chained(f, p)
  <2>1. ASSUME NEW k \in 1..(m - 1) PROVE Link(f, p[k], p[k + 1])
    <3>1. k + 1 \in 1..m /\ k \in 1..m
      BY <1>2
    <3>2. c[k + 1] = p[k] /\ c[(k + 1) + 1] = p[k + 1]
      BY <1>3, <3>1
    <3> QED BY <1>13, <3>1, <3>2 DEF Link
  <2> QED BY <2>1 DEF Chained
<1>16. p # <<>> => Link(f, x, p[1])
  <2>1. p # <<>> => 1 \in 1..m
    BY EmptyIs
  <2>2. 1 \in 1..m => f[x].next = p[1] /\ f[p[1]].prev = x
    BY <1>3, <1>13
  <2> QED BY <2>1, <2>2 DEF Link
<1>17. LastOf(x, p) = c[m + 1]
  <2>1. CASE p = <<>>
    BY <1>3, <2>1 DEF LastOf
  <2>2. CASE p # <<>>
    <3>1. m \in 1..m
      BY <2>2, EmptyIs
    <3> QED BY <1>3, <2>2, <3>1 DEF LastOf
  <2> QED BY <2>1, <2>2
<1>18. Link(f, LastOf(x, p), end)
  BY <1>14, <1>17, ListAssumption DEF Link, EndOf
<1> QED BY <1>10, <1>12, <1>15, <1>16, <1>18 DEF Path, From, f

(* The last of x and p, and the members of p, as ListSpec names them. *)
LEMMA LastIs ==
  ASSUME NEW x, NEW p \in Seq(Nodes)
  PROVE  /\ Last(<<x>> \o p) = LastOf(x, p) /\ ToSet(p) = Elems(p)
         /\ p # <<>> => Last(p) = p[Len(p)]
<1>1. CASE p = <<>>
  BY <1>1 DEF Last, LastOf, ToSet, Elems
<1>2. CASE p # <<>>
  <2>1. /\ Len(p) \in Nat \ {0} /\ Len(<<x>> \o p) = Len(p) + 1
        /\ (<<x>> \o p)[Len(p) + 1] = p[Len(p)]
    BY <1>2
  <2> QED BY <1>2, <2>1 DEF Last, LastOf, ToSet, Elems
<1> QED BY <1>1, <1>2

(* The heap that the operations begin with, of either kind. *)
LEMMA StrungTwo ==
  ASSUME NEW kind, NEW g \in Heaps, NEW x \in Heads, NEW y \in Heads, x # y,
         NEW p \in Seq(Nodes), NEW q \in Seq(Nodes), NoneTwice(p), NoneTwice(q),
         Elems(p) \intersect Elems(q) = {},
         NEW b1 \in Pointers, NEW b2 \in Pointers,
         End(kind, x) = x => b1 = LastOf(x, p), End(kind, y) = y => b2 = LastOf(y, q)
  PROVE  Two(kind, Strung(Strung(g, x, p, End(kind, x), b1), y, q, End(kind, y), b2),
             x, p, y, q)
<1> DEFINE e == End(kind, x)
           d == End(kind, y)
<1>1. EndOf(x, e) /\ EndOf(y, d)
  BY DEF EndOf, End
<1> HIDE DEF e, d
<1> DEFINE h == Strung(g, x, p, e, b1)
<1>2. h \in Heaps /\ Path(h, x, p, e)
  BY <1>1, StrungIs DEF e
<1> HIDE DEF h
<1> DEFINE f == Strung(h, y, q, d, b2)
<1>3. /\ f \in Heaps /\ Path(f, y, q, d)
      /\ \A s \in Structs : s \notin {y} \union Elems(q) => f[s] = h[s]
  BY <1>1, <1>2, StrungIs DEF d
<1> HIDE DEF f
<1>4. ASSUME NEW s \in {x} \union Elems(p)
      PROVE  f[s].next = h[s].next /\ f[s].prev = h[s].prev
  <2>1. Elems(p) \subseteq Nodes /\ Elems(q) \subseteq Nodes
    BY ElemsCat
  <2>2. s \in Structs /\ s \notin {y} \union Elems(q)
    BY <2>1, ListAssumption DEF Structs
  <2> QED BY <1>3, <2>2
<1>5. Path(f, x, p, e)
  BY <1>1, <1>2, <1>4, PathFrame
<1> QED BY <1>3, <1>5 DEF Two, e, d, f, h

(* Lists and HLists are such heaps. *)
LEMMA ListsTwo ==
  ASSUME NEW g \in Heaps, NEW x \in Heads, NEW y \in Heads, x # y,
         NEW p \in Seq(Nodes), NEW q \in Seq(Nodes), NoneTwice(p), NoneTwice(q),
         Elems(p) \intersect Elems(q) = {}
  PROVE  /\ Two("list", Lists(g, x, p, y, q), x, p, y, q)
         /\ Two("hlist", HLists(g, x, p, y, q), x, p, y, q)
<1> DEFINE b == LastOf(x, p)
           d == LastOf(y, q)
<1>1. x \in Pointers /\ y \in Pointers /\ Nodes \subseteq Pointers
      /\ Elems(p) \subseteq Nodes /\ Elems(q) \subseteq Nodes
  BY StructsPoint, ElemsCat DEF Structs
<1>2. b \in Pointers /\ d \in Pointers
  BY <1>1, EndsIn
<1>3. End("list", x) = x /\ End("list", y) = y
      /\ End("hlist", x) = NULL /\ End("hlist", y) = NULL /\ x # NULL /\ y # NULL
  BY ListAssumption DEF End
<1>4. Two("list", Lists(g, x, p, y, q), x, p, y, q)
  <2>1. Lists(g, x, p, y, q) = Strung(Strung(g, x, p, x, b), y, q, y, d)
    BY LastIs DEF Lists, Circle
  <2> HIDE DEF b, d
  <2>2. b = LastOf(x, p) /\ d = LastOf(y, q)
    BY DEF b, d
  <2>3. Two("list", Strung(Strung(g, x, p, End("list", x), b), y, q, End("list", y), d), x, p, y, q)
    BY <1>2, <2>2, StrungTwo
  <2> QED BY <1>3, <2>1, <2>3
<1>5. Two("hlist", HLists(g, x, p, y, q), x, p, y, q)
  <2> DEFINE b1 == g[x].prev
             h == Strung(g, x, p, NULL, b1)
             b2 == h[y].prev
  <2>1. HLists(g, x, p, y, q) = Strung(h, y, q, NULL, b2)
    BY DEF HLists, Line
  <2>2. b1 \in Pointers
    BY DEF Heaps, Structs
  <2> HIDE DEF b1
  <2>3. h \in Heaps
    BY <1>3, <2>2, StrungIs, StructsPoint DEF EndOf
  <2>4. h = Strung(g, x, p, NULL, b1)
    OBVIOUS
  <2> HIDE DEF h
  <2>5. b2 \in Pointers
    BY <2>3 DEF Heaps, Structs
  <2> HIDE DEF b2
  <2>6. Two("hlist", Strung(Strung(g, x, p, End("hlist", x), b1), y, q, End("hlist", y), b2), x, p, y, q)
    BY <1>3, <2>2, <2>5, StrungTwo
  <2> QED BY <1>3, <2>1, <2>4, <2>6
<1> QED BY <1>4, <1>5

(* A safe walk has read s, and v is what is left of p. *)
Going(field, p, v, s) ==
  IF field = "next" THEN p = s \o v
  ELSE \E t \in Seq(Nodes) : s = Reverse(t) /\ p = v \o t

Place(field, v, x) == IF field = "next" THEN FirstOf(v, x) ELSE LastOf(x, v)

(* The reverse of a sequence with one more in front. *)
LEMMA ReverseMore ==
  ASSUME NEW t \in Seq(Nodes), NEW n \in Nodes
  PROVE  Reverse(<<n>> \o t) = Append(Reverse(t), n)
<1> DEFINE w == <<n>> \o t
           r == Append(Reverse(t), n)
           m == Len(t)
<1>1. m \in Nat /\ Reverse(t) \in Seq(Nodes) /\ Len(Reverse(t)) = m
      /\ \A k \in 1..m : Reverse(t)[k] = t[(m - k) + 1]
  BY ReverseIs
<1>2. /\ r \in Seq(Nodes) /\ Len(r) = m + 1 /\ r[m + 1] = n
      /\ \A k \in 1..m : r[k] = Reverse(t)[k]
  BY <1>1
<1>3. w \in Seq(Nodes) /\ Len(w) = m + 1 /\ w[1] = n /\ \A k \in 1..m : w[k + 1] = t[k]
  OBVIOUS
<1> HIDE DEF w, r, m
<1>4. Reverse(w) \in Seq(Nodes) /\ Len(Reverse(w)) = m + 1
      /\ \A k \in 1..(m + 1) : Reverse(w)[k] = w[((m + 1) - k) + 1]
  BY <1>3, ReverseIs
<1>5. ASSUME NEW k \in 1..(m + 1) PROVE Reverse(w)[k] = r[k]
  <2>1. CASE k = m + 1
    <3>1. ((m + 1) - k) + 1 = 1
      BY <1>1, <2>1
    <3> QED BY <1>2, <1>3, <1>4, <2>1, <3>1
  <2>2. CASE k # m + 1
    <3>1. k \in 1..m /\ (m - k) + 1 \in 1..m /\ ((m + 1) - k) + 1 = ((m - k) + 1) + 1
      BY <1>1, <2>2
    <3> QED BY <1>1, <1>2, <1>3, <1>4, <3>1
  <2> QED BY <2>1, <2>2
<1>6. Reverse(w) = r
  BY <1>2, <1>4, <1>5, SeqEqual
<1> QED BY <1>6 DEF w, r

(* The last of a sequence, taken off. *)
LEMMA LastOff ==
  ASSUME NEW v \in Seq(Nodes), v # <<>>
  PROVE  \E u \in Seq(Nodes), n \in Nodes :
           n = v[Len(v)] /\ v = u \o <<n>> /\ Len(v) = Len(u) + 1
<1> DEFINE u == SubSeq(v, 1, Len(v) - 1)
           n == v[Len(v)]
<1>1. Len(v) \in Nat \ {0} /\ n \in Nodes
  BY EmptyIs
<1>2. u \in Seq(Nodes) /\ Len(u) = Len(v) - 1 /\ \A k \in 1..(Len(v) - 1) : u[k] = v[k]
  <2>1. PICK m \in Nat \ {0} : m = Len(v)
    BY <1>1
  <2>2. /\ SubSeq(v, 1, m - 1) \in Seq(Nodes) /\ Len(SubSeq(v, 1, m - 1)) = m - 1
        /\ \A k \in 1..(m - 1) : SubSeq(v, 1, m - 1)[k] = v[k]
    BY <2>1
  <2> QED BY <2>1, <2>2
<1>3. <<n>> \in Seq(Nodes) /\ Len(<<n>>) = 1 /\ <<n>>[1] = n
  BY <1>1
<1> DEFINE o == <<n>>
<1> HIDE DEF u, n, o
<1>4. /\ u \o o \in Seq(Nodes) /\ Len(u \o o) = Len(u) + 1
      /\ \A k \in 1..Len(u) : (u \o o)[k] = u[k]
      /\ (u \o o)[Len(u) + 1] = n
  BY <1>2, <1>3, CatIs DEF o
<1>5. ASSUME NEW k \in 1..Len(v) PROVE (u \o o)[k] = v[k]
  <2>1. CASE k = Len(v)
    BY <1>1, <1>2, <1>4, <2>1 DEF n
  <2>2. CASE k # Len(v)
    <3>1. k \in 1..(Len(v) - 1)
      BY <1>1, <2>2
    <3> QED BY <1>2, <1>4, <3>1
  <2> QED BY <2>1, <2>2
<1>6. v = u \o o
  BY <1>1, <1>2, <1>4, <1>5, SeqEqual
<1>7. n = v[Len(v)] /\ v = u \o <<n>>
  BY <1>6 DEF n, o
<1>8. Len(v) = Len(u) + 1
  BY <1>1, <1>2
<1> QED BY <1>1, <1>2, <1>7, <1>8

(* Concatenation is associative. *)
LEMMA CatAssoc ==
  ASSUME NEW u \in Seq(Nodes), NEW v \in Seq(Nodes), NEW w \in Seq(Nodes)
  PROVE  (u \o v) \o w = u \o (v \o w)
BY ConcatAssociative

(* The last of one sequence as the first of the next. *)
LEMMA ShiftOne ==
  ASSUME NEW u \in Seq(Nodes), NEW n \in Nodes, NEW t \in Seq(Nodes)
  PROVE  /\ <<n>> \o t \in Seq(Nodes) /\ (u \o <<n>>) \o t = u \o (<<n>> \o t)
         /\ Append(u, n) \o t = u \o (<<n>> \o t)
<1> DEFINE m == <<n>>
<1>1. m \in Seq(Nodes) /\ Append(u, n) = u \o m
  OBVIOUS
<1> HIDE DEF m
<1>2. m \in Seq(Nodes)
  BY <1>1
<1>3. m \o t \in Seq(Nodes) /\ (u \o m) \o t = u \o (m \o t)
  BY <1>2, CatAssoc, CatIs
<1> QED BY <1>1, <1>3 DEF m

(* One more of v. *)
LEMMA GoOn ==
  ASSUME NEW field \in {"next", "prev"}, NEW x, NEW p \in Seq(Nodes),
         NEW v \in Seq(Nodes), v # <<>>, NEW s \in Seq(Nodes), Going(field, p, v, s)
  PROVE  \E n \in Nodes, u, w \in Seq(Nodes) :
           /\ v = u \o (<<n>> \o w) /\ n = Place(field, v, x)
           /\ field = "next" => u = <<>>
           /\ field = "prev" => w = <<>>
           /\ Going(field, p, u \o w, Append(s, n))
<1>1. CASE field = "next"
  <2>1. PICK o \in Seq(Nodes) : o = <<>>
    BY NoneIs, Zenon
  <2> DEFINE n == v[1]
             w == Tail(v)
  <2>2. n \in Nodes /\ w \in Seq(Nodes) /\ v = <<>> \o (<<n>> \o w)
    BY HeadTail
  <2> HIDE DEF n, w
  <2>3. v = o \o (<<n>> \o w) /\ v = <<n>> \o w /\ o \o w = w
    BY <2>1, <2>2
  <2>4. n = Place(field, v, x)
    BY <1>1 DEF Place, FirstOf, n
  <2>5. p = Append(s, n) \o w
    <3>1. p = s \o (<<n>> \o w)
      BY <1>1, <2>3 DEF Going
    <3>2. Append(s, n) \o w = s \o (<<n>> \o w)
      BY <2>2, ShiftOne
    <3> QED BY <3>1, <3>2
  <2>6. Going(field, p, o \o w, Append(s, n))
    BY <1>1, <2>3, <2>5 DEF Going
  <2>7. field # "prev"
    BY <1>1
  <2> QED BY <2>1, <2>2, <2>3, <2>4, <2>6, <2>7
<1>2. CASE field = "prev"
  <2>1. PICK o \in Seq(Nodes) : o = <<>>
    BY NoneIs, Zenon
  <2>2. field # "next"
    BY <1>2
  <2>3. PICK t \in Seq(Nodes) : s = Reverse(t) /\ p = v \o t
    BY <2>2 DEF Going
  <2>4. PICK u \in Seq(Nodes), n \in Nodes : n = v[Len(v)] /\ v = u \o <<n>>
    BY LastOff
  <2>5. v = u \o (<<n>> \o o) /\ u \o o = u
    BY <2>1, <2>4
  <2>6. n = Place(field, v, x)
    BY <2>2, <2>4 DEF Place, LastOf
  <2>7. <<n>> \o t \in Seq(Nodes) /\ p = u \o (<<n>> \o t)
    <3>1. <<n>> \o t \in Seq(Nodes) /\ (u \o <<n>>) \o t = u \o (<<n>> \o t)
      BY <2>3, <2>4, ShiftOne
    <3> QED BY <2>3, <2>4, <3>1
  <2>8. Append(s, n) = Reverse(<<n>> \o t)
    BY <2>3, <2>4, ReverseMore
  <2>9. Going(field, p, u, Append(s, n))
    BY <2>2, <2>7, <2>8 DEF Going
  <2> QED BY <2>1, <2>2, <2>4, <2>5, <2>6, <2>9
<1> QED BY <1>1, <1>2

(* Nothing left. *)
LEMMA GoneAll ==
  ASSUME NEW field \in {"next", "prev"}, NEW p \in Seq(Nodes),
         NEW v \in Seq(Nodes), NEW s \in Seq(Nodes), Going(field, p, v, s)
  PROVE  /\ Len(p) = Len(v) + Len(s)
         /\ v = <<>> => s = IF field = "next" THEN p ELSE Reverse(p)
<1>1. CASE field = "next"
  BY <1>1, EmptyIs, CatIs DEF Going
<1>2. CASE field = "prev"
  <2>1. PICK t \in Seq(Nodes) : s = Reverse(t) /\ p = v \o t
    BY <1>2 DEF Going
  <2>2. Len(s) = Len(t)
    BY <2>1, ReverseIs
  <2>3. Len(p) = Len(v) + Len(s)
    BY <2>1, <2>2, CatIs
  <2>4. v = <<>> => p = t
    BY <2>1, EmptyIs
  <2> QED BY <1>2, <2>1, <2>3, <2>4
<1> QED BY <1>1, <1>2

(* SafeWalk as a function that satisfies its recursion, the body being list_del
   or a move to y. *)
Ran(body, y, h, n) == IF body = "del" THEN list_del(h, n) ELSE list_move_tail(h, n, y)

SafeOn(h, field, x, body, y, walk, k) ==
  IF k = 0 THEN [heap |-> h, pos |-> h[x][field],
                 n |-> h[h[x][field]][field], seen |-> <<>>]
  ELSE LET w  == walk[k - 1]
           h1 == Ran(body, y, w.heap, w.pos)
       IN IF w.pos = x THEN w
          ELSE [heap |-> h1, pos |-> w.n, n |-> h1[w.n][field],
                seen |-> Append(w.seen, w.pos)]

IsSafe(h, field, x, body, y, w) == w = [k \in Steps |-> SafeOn(h, field, x, body, y, w, k)]

SafeEnd(x, w) ==
  LET end == w[Cardinality(Nodes) + 1]
  IN [heap |-> end.heap, seen |-> IF end.pos = x THEN end.seen ELSE Lost]

(* The recursion has a solution. *)
LEMMA SafeExists ==
  ASSUME NEW h, NEW field, NEW x, NEW body, NEW y, Cardinality(Nodes) \in Nat
  PROVE  \E w : IsSafe(h, field, x, body, y, w)
<1> DEFINE S(f, k) == SafeOn(h, field, x, body, y, f, k)
           Upto(n) == \E f : f = [k \in 0..n |-> S(f, k)]
           Failing == {n \in Nat : ~ Upto(n)}
<1>1. ASSUME NEW f, NEW g, NEW k, k # 0 => f[k - 1] = g[k - 1]
      PROVE  S(f, k) = S(g, k)
  BY <1>1 DEF SafeOn
<1> HIDE DEF S
<1>2. Upto(0)
  <2> DEFINE g == [k \in 0..0 |-> S(<<>>, 0)]
  <2>1. ASSUME NEW k \in 0..0 PROVE g[k] = S(g, k)
    <3>1. k = 0 /\ g[k] = S(<<>>, 0)
      OBVIOUS
    <3> HIDE DEF g
    <3>2. S(<<>>, 0) = S(g, 0)
      BY <1>1
    <3> QED BY <3>1, <3>2
  <2>2. g = [k \in 0..0 |-> g[k]]
    OBVIOUS
  <2> HIDE DEF g
  <2>3. g = [k \in 0..0 |-> S(g, k)]
    BY <2>1, <2>2
  <2> QED BY <2>3
<1>3. ASSUME NEW m \in Nat, m # 0, Upto(m - 1) PROVE Upto(m)
  <2>1. PICK f : f = [k \in 0..(m - 1) |-> S(f, k)]
    BY <1>3
  <2> DEFINE g == [k \in 0..m |-> IF k = m THEN S(f, m) ELSE f[k]]
  <2>2. \A k \in 0..(m - 1) : f[k] = S(f, k)
    BY <2>1
  <2>3. m \in 0..m /\ \A k \in 0..m : k # m => k \in 0..(m - 1)
    BY <1>3
  <2>4. ASSUME NEW k \in 0..m PROVE g[k] = S(g, k)
    <3>1. g[k] = S(f, k)
      BY <2>2, <2>3
    <3>2. k # 0 => g[k - 1] = f[k - 1]
      <4>1. k # 0 => k - 1 \in 0..m /\ k - 1 # m
        BY <1>3
      <4> QED BY <4>1
    <3> HIDE DEF g
    <3>3. S(f, k) = S(g, k)
      BY <1>1, <3>2
    <3> QED BY <3>1, <3>3
  <2>5. g = [k \in 0..m |-> g[k]]
    OBVIOUS
  <2> HIDE DEF g
  <2>6. g = [k \in 0..m |-> S(g, k)]
    BY <2>4, <2>5
  <2> QED BY <2>6
<1> HIDE DEF Upto
<1>4. Failing = {}
  <2>1. SUFFICES ASSUME NEW n \in Failing PROVE FALSE
    OBVIOUS
  <2>2. Failing \in SUBSET Nat
    OBVIOUS
  <2>3. PICK m \in Failing : \A k \in Failing : m <= k
    BY <2>2, Least
  <2>4. m \in Nat /\ ~ Upto(m)
    BY <2>3
  <2>5. m # 0
    BY <1>2, <2>4
  <2>6. m - 1 \in Nat /\ ~ (m <= m - 1)
    BY <2>4, <2>5
  <2>7. Upto(m - 1)
    BY <2>3, <2>6
  <2> QED BY <1>3, <2>4, <2>5, <2>7
<1>5. Upto(Cardinality(Nodes) + 1)
  BY <1>4
<1> QED BY <1>5 DEF Upto, IsSafe, Steps, S

(* The two functions that SafeWalk chooses are such solutions. *)
DelOn(h, field, x, walk, k) ==
  IF k = 0 THEN [heap |-> h, pos |-> h[x][field],
                 n |-> h[h[x][field]][field], seen |-> <<>>]
  ELSE LET w  == walk[k - 1]
           h1 == list_del(w.heap, w.pos)
       IN IF w.pos = x THEN w
          ELSE [heap |-> h1, pos |-> w.n, n |-> h1[w.n][field],
                seen |-> Append(w.seen, w.pos)]
DelOf(h, field, x) == CHOOSE w : w = [k \in Steps |-> DelOn(h, field, x, w, k)]

MoveOn(h, field, x, y, walk, k) ==
  IF k = 0 THEN [heap |-> h, pos |-> h[x][field],
                 n |-> h[h[x][field]][field], seen |-> <<>>]
  ELSE LET w  == walk[k - 1]
           h1 == list_move_tail(w.heap, w.pos, y)
       IN IF w.pos = x THEN w
          ELSE [heap |-> h1, pos |-> w.n, n |-> h1[w.n][field],
                seen |-> Append(w.seen, w.pos)]
MoveOf(h, field, x, y) == CHOOSE w : w = [k \in Steps |-> MoveOn(h, field, x, y, w, k)]

(* SafeWalk gives what these end with. *)
LEMMA SafeDelIs ==
  ASSUME NEW h, NEW field, NEW x
  PROVE  DelWalk(h, field, x) = SafeEnd(x, DelOf(h, field, x))
BY DEF DelWalk, SafeWalk, SafeEnd, Steps, DelOf, DelOn

LEMMA SafeMoveIs ==
  ASSUME NEW h, NEW field, NEW x, NEW y
  PROVE  MoveWalk(h, field, x, y) = SafeEnd(x, MoveOf(h, field, x, y))
BY DEF MoveWalk, SafeWalk, SafeEnd, Steps, MoveOf, MoveOn

(* Both satisfy the recursion. *)
LEMMA DelIsSafe ==
  ASSUME NEW h, NEW field, NEW x, NEW y, Cardinality(Nodes) \in Nat
  PROVE  IsSafe(h, field, x, "del", y, DelOf(h, field, x))
<1> DEFINE W == DelOf(h, field, x)
<1>1. ASSUME NEW w, NEW k PROVE DelOn(h, field, x, w, k) = SafeOn(h, field, x, "del", y, w, k)
  BY DEF SafeOn, DelOn, Ran
<1>2. ASSUME NEW w
      PROVE  IsSafe(h, field, x, "del", y, w) <=> w = [k \in Steps |-> DelOn(h, field, x, w, k)]
  BY <1>1 DEF IsSafe
<1>3. \E w : w = [k \in Steps |-> DelOn(h, field, x, w, k)]
  BY <1>2, SafeExists
<1>4. W = [k \in Steps |-> DelOn(h, field, x, W, k)]
  BY <1>3 DEF DelOf
<1> QED BY <1>2, <1>4

LEMMA MoveIsSafe ==
  ASSUME NEW h, NEW field, NEW x, NEW y, Cardinality(Nodes) \in Nat
  PROVE  IsSafe(h, field, x, "move", y, MoveOf(h, field, x, y))
<1> DEFINE W == MoveOf(h, field, x, y)
<1>1. ASSUME NEW w, NEW k
      PROVE  MoveOn(h, field, x, y, w, k) = SafeOn(h, field, x, "move", y, w, k)
  BY DEF SafeOn, MoveOn, Ran
<1>2. ASSUME NEW w
      PROVE  IsSafe(h, field, x, "move", y, w)
               <=> w = [k \in Steps |-> MoveOn(h, field, x, y, w, k)]
  BY <1>1 DEF IsSafe
<1>3. \E w : w = [k \in Steps |-> MoveOn(h, field, x, y, w, k)]
  BY <1>2, SafeExists
<1>4. W = [k \in Steps |-> MoveOn(h, field, x, y, W, k)]
  BY <1>3 DEF MoveOf
<1> QED BY <1>2, <1>4

(* What the walk moved so far. *)
Got(body, q, s) == IF body = "del" THEN q ELSE q \o s

(* After k steps. *)
SafeAt(h, field, x, body, y, p, q, k, w) ==
  \E v, s \in Seq(Nodes) :
    /\ Going(field, p, v, s) /\ Two("list", w.heap, x, v, y, Got(body, q, s))
    /\ w.seen = s /\ w.pos = Place(field, v, x) /\ w.n = w.heap[w.pos][field]
    /\ v # <<>> => Len(s) = k

(* One more at the end of a concatenation. *)
LEMMA AppendCat ==
  ASSUME NEW q \in Seq(Nodes), NEW s \in Seq(Nodes), NEW n \in Nodes
  PROVE  (q \o s) \o <<n>> = q \o Append(s, n)
<1> DEFINE m == <<n>>
<1>1. m \in Seq(Nodes) /\ Append(s, n) = s \o m
  OBVIOUS
<1> HIDE DEF m
<1>2. m \in Seq(Nodes)
  BY <1>1
<1>3. (q \o s) \o m = q \o (s \o m)
  BY <1>2, CatAssoc
<1> QED BY <1>1, <1>3 DEF m

(* The body run for an entry. *)
LEMMA RanIs ==
  ASSUME NEW body \in {"del", "move"}, NEW h, NEW x \in Heads, NEW y \in Heads, x # y,
         NEW u \in Seq(Nodes), NEW v \in Seq(Nodes), NEW n \in Nodes,
         NEW q \in Seq(Nodes), NEW s \in Seq(Nodes),
         Two("list", h, x, u \o (<<n>> \o v), y, Got(body, q, s))
  PROVE  Two("list", Ran(body, y, h, n), x, u \o v, y, Got(body, q, Append(s, n)))
<1>1. CASE body = "del"
  <2>1. Two("list", h, x, u \o (<<n>> \o v), y, q)
    BY <1>1 DEF Got
  <2>2. Two("list", list_del(h, n), x, u \o v, y, q)
    BY <2>1, ListDel
  <2> QED BY <1>1, <2>2 DEF Got, Ran
<1>2. CASE body = "move"
  <2>1. body # "del"
    BY <1>2
  <2>2. Two("list", h, x, u \o (<<n>> \o v), y, q \o s)
    BY <2>1 DEF Got
  <2>3. Two("list", list_move_tail(h, n, y), x, u \o v, y, (q \o s) \o <<n>>)
    BY <2>2, ListMove
  <2>4. (q \o s) \o <<n>> = q \o Append(s, n)
    BY AppendCat
  <2> QED BY <2>1, <2>3, <2>4 DEF Got, Ran
<1> QED BY <1>1, <1>2

(* What the walk has before its first step. *)
LEMMA SafeStart ==
  ASSUME NEW h, NEW field \in {"next", "prev"}, NEW x \in Heads, NEW y \in Heads,
         NEW body, NEW p \in Seq(Nodes), NEW q \in Seq(Nodes), Two("list", h, x, p, y, q),
         NEW walk
  PROVE  SafeAt(h, field, x, body, y, p, q, 0, SafeOn(h, field, x, body, y, walk, 0))
<1>1. PICK o \in Seq(Nodes) : o = <<>>
  BY NoneIs, Zenon
<1>2. Len(o) = 0 /\ q \o o = q /\ o \o p = p /\ p \o o = p /\ Reverse(o) = o
  <2>1. Len(o) = 0 /\ q \o o = q /\ o \o p = p /\ p \o o = p
    BY <1>1
  <2>2. Reverse(o) \in Seq(Nodes) /\ Len(Reverse(o)) = 0
    BY <2>1, ReverseIs
  <2>3. Reverse(o) = <<>>
    BY <2>2, EmptyIs
  <2> QED BY <1>1, <2>1, <2>3
<1>3. Going(field, p, p, o)
  <2>1. p = o \o p /\ p = p \o o /\ o = Reverse(o)
    BY <1>2
  <2>2. \E t \in Seq(Nodes) : o = Reverse(t) /\ p = p \o t
    <3> WITNESS o \in Seq(Nodes)
    <3> QED BY <2>1
  <2> QED BY <2>1, <2>2 DEF Going
<1>4. Got(body, q, o) = q
  BY <1>2 DEF Got
<1>5. h[x].next = FirstOf(p, x) /\ h[x].prev = LastOf(x, p)
  BY ListShape
<1>6. h[x][field] = Place(field, p, x)
  BY <1>5 DEF Place
<1> DEFINE w == SafeOn(h, field, x, body, y, walk, 0)
<1>7. w.heap = h /\ w.pos = h[x][field] /\ w.n = h[h[x][field]][field] /\ w.seen = o
  BY <1>1 DEF SafeOn
<1> HIDE DEF w
<1> QED BY <1>2, <1>3, <1>4, <1>6, <1>7 DEF SafeAt, w

(* A step of the walk. *)
LEMMA SafeStep ==
  ASSUME NEW h, NEW field \in {"next", "prev"}, NEW x \in Heads, NEW y \in Heads, x # y,
         NEW body \in {"del", "move"}, NEW p \in Seq(Nodes), NEW q \in Seq(Nodes),
         NEW walk, NEW k \in Nat, k # 0,
         SafeAt(h, field, x, body, y, p, q, k - 1, walk[k - 1])
  PROVE  SafeAt(h, field, x, body, y, p, q, k, SafeOn(h, field, x, body, y, walk, k))
<1> DEFINE w == walk[k - 1]
           z == SafeOn(h, field, x, body, y, walk, k)
<1>1. PICK v, s \in Seq(Nodes) :
        /\ Going(field, p, v, s) /\ Two("list", w.heap, x, v, y, Got(body, q, s))
        /\ w.seen = s /\ w.pos = Place(field, v, x) /\ w.n = w.heap[w.pos][field]
        /\ v # <<>> => Len(s) = k - 1
  BY DEF SafeAt
<1>2. CASE v = <<>>
  <2>1. w.pos = x
    BY <1>1, <1>2 DEF Place, FirstOf, LastOf
  <2>2. z = w
    BY <2>1 DEF SafeOn
  <2> HIDE DEF w, z
  <2>3. SafeAt(h, field, x, body, y, p, q, k, w)
    BY <1>1, <1>2 DEF SafeAt
  <2> QED BY <2>2, <2>3 DEF z
<1>3. CASE v # <<>>
  <2>1. PICK n \in Nodes, u \in Seq(Nodes), t \in Seq(Nodes) :
           /\ v = u \o (<<n>> \o t) /\ n = Place(field, v, x)
           /\ field = "next" => u = <<>>
           /\ field = "prev" => t = <<>>
           /\ Going(field, p, u \o t, Append(s, n))
    BY <1>1, <1>3, GoOn
  <2>2. w.pos = n /\ n # x
    BY <1>1, <2>1, ListAssumption
  <2> DEFINE g == Ran(body, y, w.heap, n)
  <2>3. z.heap = g /\ z.pos = w.n /\ z.n = g[w.n][field] /\ z.seen = Append(s, n)
    BY <1>1, <2>2 DEF SafeOn
  <2> HIDE DEF z
  <2>4. Two("list", w.heap, x, u \o (<<n>> \o t), y, Got(body, q, s))
    BY <1>1, <2>1
  <2>5. Two("list", g, x, u \o t, y, Got(body, q, Append(s, n)))
    BY <1>1, <2>1, <2>4, RanIs
  <2>6. w.heap[n].prev = LastOf(x, u) /\ w.heap[n].next = FirstOf(t, x)
    BY <2>1, <2>4, ListEntry
  <2>7. w.n = Place(field, u \o t, x)
    <3>1. CASE field = "next"
      <4>1. u \o t = t
        BY <2>1, <3>1
      <4> QED BY <1>1, <2>2, <2>6, <3>1, <4>1 DEF Place
    <3>2. CASE field = "prev"
      <4>1. u \o t = u
        BY <2>1, <3>2
      <4> QED BY <1>1, <2>2, <2>6, <3>2, <4>1 DEF Place
    <3> QED BY <3>1, <3>2
  <2>8. u \o t \in Seq(Nodes) /\ Append(s, n) \in Seq(Nodes) /\ Len(Append(s, n)) = k
    BY <1>1, <1>3, <2>1
  <2> HIDE DEF g, w
  <2> DEFINE r == Append(s, n)
             v1 == u \o t
  <2>9. r \in Seq(Nodes) /\ v1 \in Seq(Nodes)
    BY <2>8
  <2>10. /\ Going(field, p, v1, r) /\ Two("list", z.heap, x, v1, y, Got(body, q, r))
         /\ z.seen = r /\ z.pos = Place(field, v1, x) /\ z.n = z.heap[z.pos][field]
         /\ v1 # <<>> => Len(r) = k
    BY <2>1, <2>3, <2>5, <2>7, <2>8
  <2> HIDE DEF r, v1
  <2> QED BY <2>9, <2>10 DEF SafeAt, z
<1> QED BY <1>2, <1>3

(* A safe walk runs its body for each entry, and leaves the list empty. *)
LEMMA SafeReads ==
  ASSUME NEW h, NEW field \in {"next", "prev"}, NEW x \in Heads, NEW y \in Heads, x # y,
         NEW body \in {"del", "move"}, NEW p \in Seq(Nodes), NEW q \in Seq(Nodes),
         Two("list", h, x, p, y, q), NEW w, IsSafe(h, field, x, body, y, w)
  PROVE  /\ Emptied(SafeEnd(x, w), field, x, p)
         /\ Two("list", SafeEnd(x, w).heap, x, <<>>, y, Got(body, q, SafeEnd(x, w).seen))
<1> DEFINE N == Cardinality(Nodes) + 1
           Here(k) == SafeAt(h, field, x, body, y, p, q, k, w[k])
           Failing == {k \in Steps : ~ Here(k)}
<1>1. NoneTwice(p)
  BY DEF Two
<1>2. Len(p) \in Nat /\ Len(p) < N /\ N \in Nat /\ Cardinality(Nodes) \in Nat
  BY <1>1, NoneTwiceLength
<1>3. \A k \in Steps : w[k] = SafeOn(h, field, x, body, y, w, k)
  BY DEF IsSafe
<1>4. Failing = {}
  <2>1. SUFFICES ASSUME NEW n \in Failing PROVE FALSE
    OBVIOUS
  <2>2. Failing \in SUBSET Nat
    BY <1>2 DEF Steps
  <2>3. PICK m \in Failing : \A k \in Failing : m <= k
    BY <2>2, Least
  <2>4. m \in Steps /\ m \in Nat /\ ~ Here(m)
    BY <2>2, <2>3
  <2>5. CASE m = 0
    <3>1. SafeAt(h, field, x, body, y, p, q, 0, SafeOn(h, field, x, body, y, w, 0))
      BY SafeStart
    <3> QED BY <1>3, <2>4, <2>5, <3>1
  <2>6. CASE m # 0
    <3>1. m - 1 \in Steps /\ ~ (m <= m - 1)
      BY <1>2, <2>4, <2>6 DEF Steps
    <3>2. Here(m - 1)
      BY <2>3, <3>1
    <3>3. SafeAt(h, field, x, body, y, p, q, m, SafeOn(h, field, x, body, y, w, m))
      BY <2>4, <2>6, <3>2, SafeStep
    <3> QED BY <1>3, <2>4, <3>3
  <2> QED BY <2>5, <2>6
<1>5. N \in Steps
  BY <1>2 DEF Steps
<1>6. Here(N)
  BY <1>4, <1>5
<1> DEFINE e == w[N]
<1>7. PICK v, s \in Seq(Nodes) :
        /\ Going(field, p, v, s) /\ Two("list", e.heap, x, v, y, Got(body, q, s))
        /\ e.seen = s /\ e.pos = Place(field, v, x)
        /\ v # <<>> => Len(s) = N
  BY <1>6 DEF SafeAt
<1>8. SafeEnd(x, w) = [heap |-> e.heap, seen |-> IF e.pos = x THEN e.seen ELSE Lost]
  BY DEF SafeEnd
<1> HIDE DEF e, N
<1>9. v = <<>>
  <2>1. Len(p) = Len(v) + Len(s)
    BY <1>7, GoneAll
  <2>2. Len(v) \in Nat
    BY <1>7
  <2> QED BY <1>2, <1>7, <2>1, <2>2
<1>10. s = IF field = "next" THEN p ELSE Reverse(p)
  BY <1>7, <1>9, GoneAll
<1>11. e.pos = x
  BY <1>7, <1>9 DEF Place, FirstOf, LastOf
<1> DEFINE r == SafeEnd(x, w)
<1>12. r.heap = e.heap /\ r.seen = s
  BY <1>7, <1>8, <1>11
<1> HIDE DEF r
<1>13. Two("list", r.heap, x, v, y, Got(body, q, r.seen))
  BY <1>7, <1>12
<1>14. list_empty(r.heap, x)
  BY <1>9, <1>13, ListShape
<1> QED BY <1>9, <1>10, <1>12, <1>13, <1>14 DEF Emptied, r

(* The safe walks of ListSpec. *)
LEMMA WalksAre ==
  ASSUME NEW h, NEW x \in Heads, NEW y \in Heads, x # y,
         NEW p \in Seq(Nodes), NEW q \in Seq(Nodes), Two("list", h, x, p, y, q)
  PROVE  Walks(h, p, q, x, y)
<1>1. Cardinality(Nodes) \in Nat
  BY NoneTwiceLength, NoneIs
<1>2. ASSUME NEW field \in {"next", "prev"}
      PROVE  /\ Emptied(DelWalk(h, field, x), field, x, p)
             /\ Emptied(MoveWalk(h, field, x, y), field, x, p)
             /\ AreLists(MoveWalk(h, field, x, y).heap, x, <<>>, y,
                         q \o MoveWalk(h, field, x, y).seen)
  <2>1. Emptied(DelWalk(h, field, x), field, x, p)
    <3>1. IsSafe(h, field, x, "del", y, DelOf(h, field, x))
      BY <1>1, DelIsSafe
    <3>2. Emptied(SafeEnd(x, DelOf(h, field, x)), field, x, p)
      BY <3>1, SafeReads
    <3> QED BY <3>2, SafeDelIs
  <2> DEFINE w == MoveOf(h, field, x, y)
             m == SafeEnd(x, w)
  <2>2. IsSafe(h, field, x, "move", y, w)
    BY <1>1, MoveIsSafe
  <2>3. MoveWalk(h, field, x, y) = m
    BY SafeMoveIs
  <2> HIDE DEF w
  <2>4. Emptied(m, field, x, p) /\ Two("list", m.heap, x, <<>>, y, Got("move", q, m.seen))
    BY <2>2, SafeReads
  <2> HIDE DEF m
  <2>5. Got("move", q, m.seen) = q \o m.seen
    BY DEF Got
  <2>6. AreLists(m.heap, x, <<>>, y, q \o m.seen)
    BY <2>4, <2>5, TwoAreLists
  <2> QED BY <2>1, <2>3, <2>4, <2>6
<1> QED BY <1>2 DEF Walks

(* Two entries between two sequences. *)
LEMMA ShiftTwo ==
  ASSUME NEW u \in Seq(Nodes), NEW n \in Nodes, NEW o \in Nodes, NEW v \in Seq(Nodes)
  PROVE  (u \o <<n, o>>) \o v = u \o (<<n>> \o (<<o>> \o v))
<1>1. PICK r \in Seq(Nodes) : r = u \o <<n>>
  <2>1. u \o <<n>> \in Seq(Nodes)
    BY OneMore
  <2> QED BY <2>1
<1>2. u \o <<n, o>> = r \o <<o>>
  <2>1. PICK s \in Seq(Nodes) : s = <<n>>
    BY OneIs
  <2>2. (u \o s) \o <<o>> = u \o Append(s, o)
    BY AppendCat
  <2>3. Append(s, o) = <<n, o>>
    <3>1. /\ Append(s, o) \in Seq(Nodes) /\ Len(Append(s, o)) = 2
          /\ Append(s, o)[1] = n /\ Append(s, o)[2] = o
      BY <2>1
    <3>2. PICK t \in Seq(Nodes) : t = <<n, o>>
      <4>1. <<n, o>> \in Seq(Nodes)
        OBVIOUS
      <4> QED BY <4>1, Zenon
    <3>3. Len(t) = 2 /\ t[1] = n /\ t[2] = o
      BY <3>2
    <3>4. \A k \in 1..2 : k = 1 \/ k = 2
      OBVIOUS
    <3>5. Append(s, o) = t
      BY <3>1, <3>3, <3>4, SeqEqual
    <3> QED BY <3>2, <3>5
  <2> QED BY <1>1, <2>1, <2>2, <2>3
<1>3. (r \o <<o>>) \o v = r \o (<<o>> \o v)
  BY <1>1, ShiftOne
<1>4. PICK w \in Seq(Nodes) : w = <<o>> \o v
  BY ShiftOne
<1>5. (u \o <<n>>) \o w = u \o (<<n>> \o w)
  BY <1>4, ShiftOne
<1> QED BY <1>1, <1>2, <1>3, <1>4, <1>5

(* The entries of neither list. *)
LEMMA FreshIs ==
  ASSUME NEW p \in Seq(Nodes), NEW q \in Seq(Nodes), NEW n \in Fresh(p, q)
  PROVE  n \in Nodes /\ n \notin Elems(p) /\ n \notin Elems(q)
<1> DEFINE w == p \o q
<1>1. w \in Seq(Nodes)
  BY CatIs
<1>2. Elems(w) = Elems(p) \union Elems(q)
  BY ElemsCat
<1> HIDE DEF w
<1>3. ToSet(w) = Elems(w)
  BY <1>1, LastIs
<1> QED BY <1>2, <1>3 DEF Fresh, w

(* The operations on one entry. *)
LEMMA EntryOpsFresh ==
  ASSUME NEW h, NEW x \in Heads, NEW y \in Heads, x # y,
         NEW p \in Seq(Nodes), NEW q \in Seq(Nodes), Two("list", h, x, p, y, q),
         NEW n \in Fresh(p, q)
  PROVE  /\ AreLists(list_add(h, n, x), x, <<n>> \o p, y, q)
         /\ AreLists(list_add_tail(h, n, x), x, p \o <<n>>, y, q)
         /\ \A o \in ToSet(p) :
              /\ AreLists(list_replace(h, o, n), x, Before(p, o) \o <<n>> \o After(p, o), y, q)
              /\ list_empty(list_replace_init(h, o, n), o)
<1>1. n \in Nodes /\ n \notin Elems(p) /\ n \notin Elems(q)
  BY FreshIs
<1>2. /\ Two("list", list_add(h, n, x), x, <<n>> \o p, y, q)
      /\ Two("list", list_add_tail(h, n, x), x, p \o <<n>>, y, q)
  BY <1>1, ListAdd
<1>3. /\ AreLists(list_add(h, n, x), x, <<n>> \o p, y, q)
      /\ AreLists(list_add_tail(h, n, x), x, p \o <<n>>, y, q)
  BY <1>2, TwoAreLists
<1>4. ASSUME NEW o \in ToSet(p)
      PROVE  /\ AreLists(list_replace(h, o, n), x, Before(p, o) \o <<n>> \o After(p, o), y, q)
             /\ list_empty(list_replace_init(h, o, n), o)
  <2>1. o \in Elems(p) /\ NoneTwice(p)
    BY LastIs DEF Two
  <2> DEFINE u == Before(p, o)
             v == After(p, o)
  <2>2. o \in Nodes /\ u \in Seq(Nodes) /\ v \in Seq(Nodes) /\ p = u \o (<<o>> \o v)
    BY <2>1, SplitAt
  <2> HIDE DEF u, v
  <2>3. Two("list", h, x, u \o (<<o>> \o v), y, q) /\ n \notin Elems(u \o (<<o>> \o v))
    BY <1>1, <2>2
  <2>4. /\ Two("list", list_replace(h, o, n), x, u \o (<<n>> \o v), y, q)
        /\ list_empty(list_replace_init(h, o, n), o)
    BY <1>1, <2>2, <2>3, ListReplace
  <2>5. (u \o <<n>>) \o v = u \o (<<n>> \o v)
    <3>1. u \in Seq(Nodes) /\ v \in Seq(Nodes)
      BY <2>2
    <3> QED BY <1>1, <3>1, ShiftOne
  <2>6. Two("list", list_replace(h, o, n), x, (u \o <<n>>) \o v, y, q)
    BY <2>4, <2>5
  <2>7. AreLists(list_replace(h, o, n), x, (u \o <<n>>) \o v, y, q)
    BY <2>6, TwoAreLists
  <2> QED BY <2>4, <2>7 DEF u, v
<1> QED BY <1>3, <1>4

(* Those on an entry of the list. *)
LEMMA EntryOpsOf ==
  ASSUME NEW h, NEW x \in Heads, NEW y \in Heads, x # y,
         NEW p \in Seq(Nodes), NEW q \in Seq(Nodes), Two("list", h, x, p, y, q),
         NEW n \in ToSet(p)
  PROVE  /\ AreLists(list_del(h, n), x, Removed(p, n), y, q)
         /\ AreLists(list_del_init(h, n), x, Removed(p, n), y, q)
         /\ list_empty(list_del_init(h, n), n)
         /\ AreLists(list_move(h, n, y), x, Removed(p, n), y, <<n>> \o q)
         /\ AreLists(list_move_tail(h, n, x), x, Removed(p, n) \o <<n>>, y, q)
         /\ list_is_last(h, n, x) <=> Last(p) = n
<1>1. n \in Elems(p) /\ NoneTwice(p)
  BY LastIs DEF Two
<1> DEFINE u == Before(p, n)
           v == After(p, n)
<1>2. /\ n \in Nodes /\ u \in Seq(Nodes) /\ v \in Seq(Nodes) /\ p = u \o (<<n>> \o v)
      /\ Removed(p, n) = u \o v
  BY <1>1, SplitAt
<1> HIDE DEF u, v
<1>3. Two("list", h, x, u \o (<<n>> \o v), y, q)
  BY <1>2
<1>4. /\ Two("list", list_del(h, n), x, u \o v, y, q)
      /\ Two("list", list_del_init(h, n), x, u \o v, y, q)
      /\ list_empty(list_del_init(h, n), n)
  BY <1>2, <1>3, ListDel
<1>5. /\ Two("list", list_move(h, n, y), x, u \o v, y, <<n>> \o q)
      /\ Two("list", list_move_tail(h, n, x), x, (u \o v) \o <<n>>, y, q)
  BY <1>2, <1>3, ListMove
<1>6. /\ AreLists(list_del(h, n), x, u \o v, y, q)
      /\ AreLists(list_del_init(h, n), x, u \o v, y, q)
  BY <1>4, TwoAreLists
<1>7. /\ AreLists(list_move(h, n, y), x, u \o v, y, <<n>> \o q)
      /\ AreLists(list_move_tail(h, n, x), x, (u \o v) \o <<n>>, y, q)
  BY <1>5, TwoAreLists
<1>8. list_is_last(h, n, x) <=> Last(p) = n
  <2>1. p # <<>>
    BY <1>1, NoneIs
  <2>2. Last(p) = p[Len(p)]
    BY <2>1, LastIs
  <2>3. list_is_last(h, n, x) => n = p[Len(p)]
    BY <1>1, <1>2, ListShape
  <2>4. list_is_last(h, p[Len(p)], x)
    BY <2>1, ListShape
  <2> QED BY <2>2, <2>3, <2>4
<1> QED BY <1>2, <1>4, <1>6, <1>7, <1>8

(* All of them. *)
LEMMA EntryOpsAre ==
  ASSUME NEW h, NEW x \in Heads, NEW y \in Heads, x # y,
         NEW p \in Seq(Nodes), NEW q \in Seq(Nodes), Two("list", h, x, p, y, q)
  PROVE  EntryOps(h, p, q, x, y)
<1>1. AreLists(h, x, p, y, q)
  BY TwoAreLists
<1>2. AreLists(INIT_LIST_HEAD(h, x), x, <<>>, y, q)
  <2>1. /\ h \in Heaps /\ NoneTwice(q) /\ Path(h, y, q, End("list", y)) /\ End("list", y) = y
        /\ Two("list", h, y, q, x, p)
    BY TwoSwap DEF Two, End
  <2>2. Two("list", INIT_LIST_HEAD(h, x), y, q, x, <<>>)
    BY <2>1, TwoInit
  <2>3. Two("list", INIT_LIST_HEAD(h, x), x, <<>>, y, q)
    BY <2>2, TwoSwap
  <2> QED BY <2>3, TwoAreLists
<1> QED BY <1>1, <1>2, EntryOpsFresh, EntryOpsOf DEF EntryOps

(* The operations on whole lists. *)
LEMMA WholeOpsAre ==
  ASSUME NEW h, NEW x \in Heads, NEW y \in Heads, x # y,
         NEW p \in Seq(Nodes), NEW q \in Seq(Nodes), Two("list", h, x, p, y, q)
  PROVE  WholeOps(h, p, q, x, y)
<1>1. /\ list_empty(h, x) <=> p = <<>>
      /\ list_is_singular(h, x) <=> Len(p) = 1
  BY ListShape
<1>2. AreLists(list_rotate_left(h, x), x, IF p = <<>> THEN p ELSE Append(Tail(p), p[1]), y, q)
  <2> DEFINE r == IF p = <<>> THEN p ELSE Append(Tail(p), p[1])
  <2>1. Two("list", list_rotate_left(h, x), x, r, y, q)
    BY ListRotate
  <2> HIDE DEF r
  <2>2. AreLists(list_rotate_left(h, x), x, r, y, q)
    BY <2>1, TwoAreLists
  <2> QED BY <2>2 DEF r
<1>3. IsList(list_splice(h, y, x), x, q \o p) /\ IsList(list_splice_tail(h, y, x), x, p \o q)
  BY ListSplice
<1>4. /\ AreLists(list_splice_init(h, y, x), x, q \o p, y, <<>>)
      /\ AreLists(list_splice_tail_init(h, y, x), x, p \o q, y, <<>>)
  <2>1. /\ Two("list", list_splice_init(h, y, x), x, q \o p, y, <<>>)
        /\ Two("list", list_splice_tail_init(h, y, x), x, p \o q, y, <<>>)
    BY ListSplice
  <2> QED BY <2>1, TwoAreLists
<1>5. ASSUME q = <<>>
      PROVE  /\ AreLists(list_cut_position(h, y, x, x), x, p, y, <<>>)
             /\ \A n \in ToSet(p) :
                  AreLists(list_cut_position(h, y, x, n),
                           x, After(p, n), y, Before(p, n) \o <<n>>)
  <2>1. Two("list", list_cut_position(h, y, x, x), x, p, y, <<>>)
    BY <1>5, ListCut
  <2>2. AreLists(list_cut_position(h, y, x, x), x, p, y, <<>>)
    BY <2>1, TwoAreLists
  <2>3. ASSUME NEW n \in ToSet(p)
        PROVE  AreLists(list_cut_position(h, y, x, n), x, After(p, n), y, Before(p, n) \o <<n>>)
    <3>1. n \in Elems(p) /\ NoneTwice(p)
      BY LastIs DEF Two
    <3> DEFINE u == Before(p, n)
               v == After(p, n)
    <3>2. n \in Nodes /\ u \in Seq(Nodes) /\ v \in Seq(Nodes) /\ p = u \o (<<n>> \o v)
      BY <3>1, SplitAt
    <3> HIDE DEF u, v
    <3>3. Two("list", list_cut_position(h, y, x, n), x, v, y, u \o <<n>>)
      BY <1>5, <3>2, ListCut
    <3>4. AreLists(list_cut_position(h, y, x, n), x, v, y, u \o <<n>>)
      BY <3>3, TwoAreLists
    <3> QED BY <3>4 DEF u, v
  <2> QED BY <2>2, <2>3
<1> QED BY <1>1, <1>2, <1>3, <1>4, <1>5 DEF WholeOps

(* The operations on an hlist. *)
LEMMA HlistOpsFresh ==
  ASSUME NEW h, NEW x \in Heads, NEW y \in Heads, x # y,
         NEW p \in Seq(Nodes), NEW q \in Seq(Nodes), Two("hlist", h, x, p, y, q),
         NEW n \in Fresh(p, q)
  PROVE  /\ AreHlists(hlist_add_head(h, n, x), x, <<n>> \o p, y, q)
         /\ \A o \in ToSet(p) :
              /\ AreHlists(hlist_add_before(h, n, o),
                           x, Before(p, o) \o <<n, o>> \o After(p, o), y, q)
              /\ AreHlists(hlist_add_behind(h, n, o),
                           x, Before(p, o) \o <<o, n>> \o After(p, o), y, q)
<1>1. n \in Nodes /\ n \notin Elems(p) /\ n \notin Elems(q)
  BY FreshIs
<1>2. AreHlists(hlist_add_head(h, n, x), x, <<n>> \o p, y, q)
  <2>1. Two("hlist", hlist_add_head(h, n, x), x, <<n>> \o p, y, q)
    BY <1>1, HlistAddHead
  <2> QED BY <2>1, TwoAreHlists
<1>3. ASSUME NEW o \in ToSet(p)
      PROVE  /\ AreHlists(hlist_add_before(h, n, o),
                          x, Before(p, o) \o <<n, o>> \o After(p, o), y, q)
             /\ AreHlists(hlist_add_behind(h, n, o),
                          x, Before(p, o) \o <<o, n>> \o After(p, o), y, q)
  <2>1. o \in Elems(p) /\ NoneTwice(p)
    BY LastIs DEF Two
  <2> DEFINE u == Before(p, o)
             v == After(p, o)
  <2>2. o \in Nodes /\ u \in Seq(Nodes) /\ v \in Seq(Nodes) /\ p = u \o (<<o>> \o v)
    BY <2>1, SplitAt
  <2> HIDE DEF u, v
  <2>3. Two("hlist", h, x, u \o (<<o>> \o v), y, q) /\ n \notin Elems(u \o (<<o>> \o v))
    BY <1>1, <2>2
  <2>4. u \in Seq(Nodes) /\ v \in Seq(Nodes) /\ o \in Nodes
    BY <2>2
  <2>5. Two("hlist", hlist_add_before(h, n, o), x, u \o (<<n>> \o (<<o>> \o v)), y, q)
    BY <1>1, <2>3, <2>4, HlistAddBefore
  <2>6. Two("hlist", hlist_add_behind(h, n, o), x, (u \o <<o>>) \o (<<n>> \o v), y, q)
    BY <1>1, <2>3, <2>4, HlistAddBehind
  <2>7. (u \o <<n, o>>) \o v = u \o (<<n>> \o (<<o>> \o v))
    <3>1. n \in Nodes
      BY <1>1
    <3> QED BY <2>4, <3>1, ShiftTwo, Zenon
  <2>8. (u \o <<o, n>>) \o v = (u \o <<o>>) \o (<<n>> \o v)
    <3>1. n \in Nodes
      BY <1>1
    <3>2. (u \o <<o, n>>) \o v = u \o (<<o>> \o (<<n>> \o v))
      BY <2>4, <3>1, ShiftTwo, Zenon
    <3> DEFINE w == <<n>> \o v
    <3>3. w \in Seq(Nodes)
      BY <2>4, <3>1, ShiftOne
    <3> HIDE DEF w
    <3>4. (u \o <<o>>) \o w = u \o (<<o>> \o w)
      BY <2>4, <3>3, ShiftOne
    <3> QED BY <3>2, <3>4 DEF w
  <2>9. /\ Two("hlist", hlist_add_before(h, n, o), x, (u \o <<n, o>>) \o v, y, q)
        /\ Two("hlist", hlist_add_behind(h, n, o), x, (u \o <<o, n>>) \o v, y, q)
    BY <2>5, <2>6, <2>7, <2>8
  <2>10. /\ AreHlists(hlist_add_before(h, n, o), x, (u \o <<n, o>>) \o v, y, q)
         /\ AreHlists(hlist_add_behind(h, n, o), x, (u \o <<o, n>>) \o v, y, q)
    BY <2>9, TwoAreHlists
  <2> QED BY <2>10 DEF u, v
<1> QED BY <1>2, <1>3

(* All of them. *)
LEMMA HlistOpsAre ==
  ASSUME NEW h, NEW x \in Heads, NEW y \in Heads, x # y,
         NEW p \in Seq(Nodes), NEW q \in Seq(Nodes), Two("hlist", h, x, p, y, q)
  PROVE  HlistOps(h, p, q, x, y)
<1>1. AreHlists(h, x, p, y, q)
  BY TwoAreHlists
<1>2. AreHlists(INIT_HLIST_HEAD(h, x), x, <<>>, y, q)
  <2>1. Two("hlist", INIT_HLIST_HEAD(h, x), x, <<>>, y, q)
    BY HlistInit
  <2> QED BY <2>1, TwoAreHlists
<1>3. hlist_empty(h, x) <=> p = <<>>
  BY HlistShape
<1>4. ASSUME NEW n \in ToSet(p)
      PROVE  /\ AreHlists(hlist_del(h, n), x, Removed(p, n), y, q)
             /\ AreHlists(hlist_del_init(h, n), x, Removed(p, n), y, q)
             /\ hlist_unhashed(hlist_del_init(h, n), n)
             /\ hlist_del_init(hlist_del_init(h, n), n) = hlist_del_init(h, n)
  <2>1. n \in Elems(p) /\ NoneTwice(p)
    BY LastIs DEF Two
  <2> DEFINE u == Before(p, n)
             v == After(p, n)
  <2>2. /\ n \in Nodes /\ u \in Seq(Nodes) /\ v \in Seq(Nodes) /\ p = u \o (<<n>> \o v)
        /\ Removed(p, n) = u \o v
    BY <2>1, SplitAt
  <2> HIDE DEF u, v
  <2>3. Two("hlist", h, x, u \o (<<n>> \o v), y, q)
    BY <2>2
  <2>4. /\ Two("hlist", hlist_del(h, n), x, u \o v, y, q)
        /\ Two("hlist", hlist_del_init(h, n), x, u \o v, y, q)
        /\ hlist_unhashed(hlist_del_init(h, n), n)
        /\ hlist_del_init(hlist_del_init(h, n), n) = hlist_del_init(h, n)
    BY <2>2, <2>3, HlistDel
  <2>5. /\ AreHlists(hlist_del(h, n), x, u \o v, y, q)
        /\ AreHlists(hlist_del_init(h, n), x, u \o v, y, q)
    BY <2>4, TwoAreHlists
  <2> QED BY <2>2, <2>4, <2>5
<1>5. ASSUME q = <<>> PROVE AreHlists(hlist_move_list(h, x, y), x, <<>>, y, p)
  <2>1. Two("hlist", hlist_move_list(h, x, y), x, <<>>, y, p)
    BY <1>5, HlistMoveList
  <2> QED BY <2>1, TwoAreHlists
<1> QED BY <1>1, <1>2, <1>3, <1>4, <1>5, HlistOpsFresh DEF HlistOps

(* The arrangements of entries are the sequences without repetition. *)
LEMMA ArrangedIs ==
  ASSUME NEW p \in Arranged
  PROVE  p \in Seq(Nodes) /\ NoneTwice(p)
<1>1. PICK S \in SUBSET Nodes : p \in SetToSeqs(S)
  BY DEF Arranged, SetToAllKPermutations
<1>2. /\ p \in [1..Cardinality(S) -> S]
      /\ \A j, k \in 1..Cardinality(S) : j # k => p[j] # p[k]
  BY <1>1 DEF SetToSeqs
<1>3. Cardinality(S) \in Nat
  BY <1>1, HashAssumption, FS_Subset, FS_CardinalityType
<1>4. p \in [1..Cardinality(S) -> Nodes]
  BY <1>1, <1>2
<1>5. p \in Seq(Nodes) /\ Len(p) = Cardinality(S)
  BY <1>3, <1>4, FunIsSeq
<1> QED BY <1>2, <1>5 DEF NoneTwice

(* Whatever the pointers of unused entries are. *)
LEMMA ListOpsAre ==
  ASSUME NEW g \in Heaps
  PROVE  ListOpsSound(g)
<1>1. ASSUME NEW x \in Heads, NEW y \in Heads, NEW p \in Arranged, NEW q \in Arranged,
             x # y, ToSet(p) \intersect ToSet(q) = {}
      PROVE  LET l == Lists(g, x, p, y, q)
             IN /\ EntryOps(l, p, q, x, y)
                /\ WholeOps(l, p, q, x, y)
                /\ Walks(l, p, q, x, y)
                /\ HlistOps(HLists(g, x, p, y, q), p, q, x, y)
  <2>1. p \in Seq(Nodes) /\ q \in Seq(Nodes) /\ NoneTwice(p) /\ NoneTwice(q)
    BY ArrangedIs
  <2>2. Elems(p) \intersect Elems(q) = {}
    BY <1>1, <2>1, LastIs
  <2> DEFINE l == Lists(g, x, p, y, q)
             m == HLists(g, x, p, y, q)
  <2>3. Two("list", l, x, p, y, q) /\ Two("hlist", m, x, p, y, q)
    BY <1>1, <2>1, <2>2, ListsTwo
  <2> HIDE DEF l, m
  <2>4. EntryOps(l, p, q, x, y) /\ WholeOps(l, p, q, x, y) /\ Walks(l, p, q, x, y)
    BY <1>1, <2>1, <2>3, EntryOpsAre, WholeOpsAre, WalksAre
  <2>5. HlistOps(m, p, q, x, y)
    BY <1>1, <2>1, <2>3, HlistOpsAre
  <2> QED BY <2>4, <2>5 DEF l, m
<1> QED BY <1>1 DEF ListOpsSound

(* Every operation of hy_list.h does to the sequences what it should, whatever
   the entries of an empty hash have in their pointers. *)
THEOREM ListsAlways == Spec => []ListsAsSequences
<1>1. ASSUME IInv PROVE ListsAsSequences
  <2>1. heap \in Heaps
    BY <1>1 DEF IInv, Inv, TypeOK
  <2> QED BY <2>1, ListOpsAre DEF ListsAsSequences
<1> QED BY <1>1, IInvAlways, PTL

=============================================================================
