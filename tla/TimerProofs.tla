---------------------------- MODULE TimerProofs -----------------------------
(***************************************************************************)
(* Proofs about Timer for every wheel, set of addresses and expirations,   *)
(* as long as the client calls only while the timer thread is in select    *)
(* (Racing = FALSE): WheelSound and FiresOnTime.                           *)
(*                                                                         *)
(* The inductive invariant Inv adds to WheelSound where the cursors are    *)
(* (Cursor), who may be inside a call meanwhile (Lifetime), and when each  *)
(* timer will fire (Timing): its age and the ticks it still has to wait    *)
(* add up to the same number from arming to firing, which arming makes one *)
(* of those that FiresOnTime allows.                                       *)
(***************************************************************************)
EXTENDS Timer, TLAPS

-----------------------------------------------------------------------------
(* The inductive invariant.                                                *)

Timers == [live : BOOLEAN, expires : Nat, repeat : BOOLEAN,
           rotation : Nat, age : Nat, first : BOOLEAN]

TimerType == timer \in [Addrs -> Timers]

RecordType ==
  /\ thr \in [pc : ThrPc, pos : Addrs \union {HEAD}, n : Addrs \union {HEAD}]
  /\ client \in [pc : {"idle", "free", "join", "crashed"},
                 addr : Addrs \union {HEAD}]

(* Without a context nothing is in the wheel; HyTimerDel keeps a tick off. *)
Lifetime ==
  /\ ~context => list_head = EmptyList /\ thr.pc = "none"
  /\ client.pc = "free" => thr.pc = "sleep" /\ client.addr \in Addrs

(* pos is an entry of the slot, and n the one behind it or the end. *)
Cursor ==
  Traversing =>
    \/ thr.pc = "visit" /\ thr.pos = HEAD /\ thr.n = HEAD
    \/ \E j \in 1..Len(list_head[cur_slot]) :
         /\ thr.pos = list_head[cur_slot][j]
         /\ \/ thr.n = HEAD
            \/ /\ j < Len(list_head[cur_slot])
               /\ thr.n = list_head[cur_slot][j + 1]

(* The ticks of r revolutions. *)
Turns(r) == slot_num * r

(* The entry n of a list and those behind it. *)
AtOrAfter(q, n) == {a \in ToSet(q) : \E m \in 1..Len(q) : \E k \in m..Len(q) :
                                       q[m] = n /\ q[k] = a}

(* The timers the traversal will still come to. *)
Ahead == AtOrAfter(list_head[cur_slot], thr.n)
           \union (IF thr.pc = "visit" THEN {thr.pos} ELSE {})

Distance(i) == IF cur_slot <= i THEN i - cur_slot ELSE i - cur_slot + slot_num

(* The ticks until a timer of slot i is looked at, but for its rotation. *)
Wait(i, a) ==
  IF ~Traversing THEN Distance(i) + 1
  ELSE IF i # cur_slot THEN Distance(i)
  ELSE IF a \in Ahead THEN 0 ELSE slot_num

(* The age at which FiresOnTime lets a timer fire. *)
InTime(t, n) ==
  IF t.first
  THEN /\ Turns(t.expires \div slot_num) <= n
       /\ n <= Turns(t.expires \div slot_num) + slot_num
  ELSE \/ n = t.expires
       \/ /\ t.expires = Turns(t.expires \div slot_num)
          /\ n = Turns(t.expires \div slot_num) + slot_num

(* The thread deals with the timer at pos. *)
AtWork == thr.pc \in {"callback", "after"}

Ticking == thr.pc \in {"top", "sleep", "visit", "callback", "after"}

FiringAge(i, a) == timer[a].age + Turns(timer[a].rotation) + Wait(i, a)

Timing ==
  Ticking => \A i \in Slots : \A a \in ToSet(list_head[i]) :
               (AtWork /\ a = thr.pos) \/ InTime(timer[a], FiringAge(i, a))

Inv == /\ TypeOK /\ TimerType /\ RecordType /\ InWheelOnce
       /\ Lifetime /\ Cursor /\ Timing

-----------------------------------------------------------------------------
(* Taking an element out of a sequence.                                    *)

(* Two lists one behind the other. *)
LEMMA Joined ==
  ASSUME NEW f \in Seq(Addrs), NEW g \in Seq(Addrs)
  PROVE  /\ f \o g \in Seq(Addrs)
         /\ Len(f \o g) = Len(f) + Len(g)
         /\ \A k \in 1..(Len(f) + Len(g)) :
              (f \o g)[k] = IF k <= Len(f) THEN f[k] ELSE g[k - Len(f)]
  BY SMT

(* Those behind the place that is removed move up by one. *)
LEMMA RemoveAtIs ==
  ASSUME NEW q \in Seq(Addrs), NEW j \in 1..Len(q)
  PROVE  /\ RemoveAt(q, j) \in Seq(Addrs)
         /\ Len(RemoveAt(q, j)) = Len(q) - 1
         /\ \A k \in 1..(Len(q) - 1) :
              RemoveAt(q, j)[k] = IF k < j THEN q[k] ELSE q[k + 1]
<1>1. SubSeq(q, 1, j - 1) \in Seq(Addrs)
  BY SMT
<1>2. SubSeq(q, j + 1, Len(q)) \in Seq(Addrs)
  BY SMT
<1>3. PICK f \in Seq(Addrs) : f = SubSeq(q, 1, j - 1)
  BY <1>1, Zenon
<1>4. PICK g \in Seq(Addrs) : g = SubSeq(q, j + 1, Len(q))
  BY <1>2, Zenon
<1>5. Len(f) = j - 1 /\ \A k \in 1..(j - 1) : f[k] = q[k]
  BY <1>3, SMT
<1>6. Len(g) = Len(q) - j /\ \A k \in 1..(Len(q) - j) : g[k] = q[j + k]
  BY <1>4, SMT
<1>7. RemoveAt(q, j) = f \o g
  BY <1>3, <1>4 DEF RemoveAt
<1>8. PICK c \in Seq(Addrs) : c = f \o g
  BY Joined, Zenon
<1>9. /\ Len(c) = Len(f) + Len(g)
      /\ \A k \in 1..(Len(f) + Len(g)) :
              c[k] = IF k <= Len(f) THEN f[k] ELSE g[k - Len(f)]
  <2>1. /\ Len(f \o g) = Len(f) + Len(g)
        /\ \A k \in 1..(Len(f) + Len(g)) :
              (f \o g)[k] = IF k <= Len(f) THEN f[k] ELSE g[k - Len(f)]
    BY Joined, Zenon
  <2> QED BY <1>8, <2>1, Zenon
<1>10. Len(c) = Len(q) - 1
  BY <1>5, <1>6, <1>9
<1>11. ASSUME NEW k \in 1..(Len(q) - 1)
       PROVE  c[k] = IF k < j THEN q[k] ELSE q[k + 1]
  <2>1. CASE k < j
    <3>0. Len(f) + Len(g) = Len(q) - 1 /\ k <= Len(f)
      BY <1>5, <1>6, <2>1
    <3>1. c[k] = f[k]
      BY <1>9, <3>0, Zenon
    <3>2. k \in 1..(j - 1)
      BY <2>1
    <3> QED BY <1>5, <2>1, <3>1, <3>2
  <2>2. CASE ~(k < j)
    <3>1. k - (j - 1) \in 1..(Len(q) - j) /\ j + (k - (j - 1)) = k + 1
      BY <2>2
    <3>2. c[k] = g[k - (j - 1)]
      BY <1>5, <1>6, <1>9, <2>2
    <3> QED BY <1>6, <2>2, <3>1, <3>2
  <2> QED BY <2>1, <2>2
<1> QED BY <1>7, <1>8, <1>10, <1>11, Zenon

(* An entry that is in a list once is removed from its one place. *)
LEMMA RemoveFirstIs ==
  ASSUME NEW q \in Seq(Addrs), NEW j \in 1..Len(q),
         \A k, m \in 1..Len(q) : q[k] = q[m] => k = m
  PROVE  RemoveFirst(q, q[j]) = RemoveAt(q, j)
<1>1. {i \in 1..Len(q) : q[i] = q[j]} = {j}
  OBVIOUS
<1>2. Min({j}) = j
  BY DEF Min
<1> QED BY <1>1, <1>2 DEF RemoveFirst, SelectInSeq

-----------------------------------------------------------------------------
(* Lists: q is a list in which no entry is twice.                          *)

(* What list_del leaves of the list the entry is in. *)
LEMMA Removed ==
  ASSUME NEW q \in Seq(Addrs), NEW j \in 1..Len(q),
         \A k, m \in 1..Len(q) : q[k] = q[m] => k = m
  PROVE  /\ RemoveFirst(q, q[j]) \in Seq(Addrs)
         /\ Len(RemoveFirst(q, q[j])) = Len(q) - 1
         /\ \A k \in 1..(Len(q) - 1) :
              RemoveFirst(q, q[j])[k] = IF k < j THEN q[k] ELSE q[k + 1]
<1>1. RemoveFirst(q, q[j]) = RemoveAt(q, j)
  BY RemoveFirstIs, Zenon
<1>2. /\ RemoveAt(q, j) \in Seq(Addrs)
      /\ Len(RemoveAt(q, j)) = Len(q) - 1
      /\ \A k \in 1..(Len(q) - 1) :
           RemoveAt(q, j)[k] = IF k < j THEN q[k] ELSE q[k + 1]
  BY RemoveAtIs, Zenon
<1> QED BY <1>1, <1>2, Zenon

(* list_del leaves the other lists alone. *)
LEMMA NotThere ==
  ASSUME NEW q \in Seq(Addrs), NEW a, a \notin ToSet(q)
  PROVE  RemoveFirst(q, a) = q
  BY DEF RemoveFirst, ToSet

(* In such a list the next entry is the one at the next place. *)
LEMMA NextIs ==
  ASSUME NEW q \in Seq(Addrs), NEW j \in 1..Len(q),
         \A k, m \in 1..Len(q) : q[k] = q[m] => k = m
  PROVE  NextEntry(q, q[j]) = IF j < Len(q) THEN q[j + 1] ELSE HEAD
<1>1. CASE j < Len(q)
  <2>1. j \in 1..(Len(q) - 1)
    BY <1>1
  <2>2. \A k \in 1..(Len(q) - 1) : q[k] = q[j] <=> k = j
    BY <2>1
  <2>3. (CHOOSE k \in 1..(Len(q) - 1) : q[k] = q[j]) = j
    BY <2>1, <2>2, Zenon
  <2>4. 1 + j = j + 1
    OBVIOUS
  <2> QED BY <1>1, <2>1, <2>3, <2>4, Zenon DEF NextEntry
<1>2. CASE ~(j < Len(q))
  <2>1. \A k \in 1..(Len(q) - 1) : q[k] # q[j]
    BY <1>2
  <2> QED BY <1>2, <2>1, Zenon DEF NextEntry
<1> QED BY <1>1, <1>2

(* A traversal that is at the head has nothing before it. *)
LEMMA NextOfHead ==
  ASSUME NEW q \in Seq(Addrs)
  PROVE  NextEntry(q, HEAD) = HEAD /\ AtOrAfter(q, HEAD) = {}
<1>1. \A k \in 1..Len(q) : q[k] # HEAD
  BY TimerAssumption
<1>2. \A k \in 1..(Len(q) - 1) : q[k] # HEAD
  BY <1>1
<1> QED BY <1>1, <1>2, Zenon DEF NextEntry, AtOrAfter

(* The entries from place j on are those still to come. *)
LEMMA AfterIs ==
  ASSUME NEW q \in Seq(Addrs), NEW j \in 1..Len(q),
         \A k, m \in 1..Len(q) : q[k] = q[m] => k = m
  PROVE  /\ AtOrAfter(q, q[j]) = {q[k] : k \in j..Len(q)}
         /\ \A k \in 1..Len(q) : q[k] \in AtOrAfter(q, q[j]) <=> j <= k
<1>1. ASSUME NEW k \in 1..Len(q)
      PROVE  q[k] \in AtOrAfter(q, q[j]) <=> j <= k
  <2>1. q[k] \in ToSet(q)
    BY DEF ToSet
  <2>2. ASSUME j <= k PROVE q[k] \in AtOrAfter(q, q[j])
    <3>1. k \in j..Len(q)
      BY <2>2
    <3> QED BY <2>1, <3>1, Zenon DEF AtOrAfter
  <2>3. ASSUME q[k] \in AtOrAfter(q, q[j]) PROVE j <= k
    <3>1. PICK m \in 1..Len(q) : \E p \in m..Len(q) : q[m] = q[j] /\ q[p] = q[k]
      BY <2>3, Zenon DEF AtOrAfter
    <3>2. PICK p \in m..Len(q) : q[m] = q[j] /\ q[p] = q[k]
      BY <3>1
    <3>3. p \in 1..Len(q)
      BY <3>2
    <3>4. m = j /\ p = k
      BY <3>2, <3>3
    <3> QED BY <3>4
  <2> QED BY <2>2, <2>3
<1>2. AtOrAfter(q, q[j]) \subseteq ToSet(q)
  BY DEF AtOrAfter
<1>3. ToSet(q) = {q[k] : k \in 1..Len(q)}
  BY DEF ToSet
<1>4. AtOrAfter(q, q[j]) \subseteq {q[k] : k \in j..Len(q)}
  <2> SUFFICES ASSUME NEW a \in AtOrAfter(q, q[j])
               PROVE  a \in {q[k] : k \in j..Len(q)}
    BY Zenon
  <2>1. PICK k \in 1..Len(q) : a = q[k]
    BY <1>2, <1>3, Zenon
  <2>2. j <= k
    BY <1>1, <2>1
  <2>3. k \in j..Len(q)
    BY <2>2
  <2> QED BY <2>1, <2>3, Zenon
<1>5. {q[k] : k \in j..Len(q)} \subseteq AtOrAfter(q, q[j])
  <2> SUFFICES ASSUME NEW k \in j..Len(q)
               PROVE  q[k] \in AtOrAfter(q, q[j])
    BY Zenon
  <2>1. k \in 1..Len(q) /\ j <= k
    OBVIOUS
  <2> QED BY <1>1, <2>1, Zenon
<1> QED BY <1>1, <1>4, <1>5, Zenon

-----------------------------------------------------------------------------
(* The wheel: lists in which no entry is twice, in one or in two of them.  *)

Lists == [Slots -> Seq(Addrs)]

Wheel(L) == UNION {ToSet(L[i]) : i \in Slots}

Apart(L) ==
  \A i \in Slots, j \in Slots :
    \A k \in DOMAIN L[i], m \in DOMAIN L[j] :
      L[i][k] = L[j][m] => i = j /\ k = m

Off(L, a) == [i \in Slots |-> RemoveFirst(L[i], a)]

On(L, s, a) == [L EXCEPT ![s] = Append(@, a)]

(* An entry is found at one place only. *)
LEMMA SamePlace ==
  ASSUME NEW L, Apart(L), NEW i \in Slots, NEW j \in Slots,
         NEW k \in DOMAIN L[i], NEW m \in DOMAIN L[j], L[i][k] = L[j][m]
  PROVE  i = j /\ k = m
  BY DEF Apart

(* No list of the wheel repeats an entry. *)
LEMMA Once ==
  ASSUME NEW L \in Lists, Apart(L), NEW i \in Slots
  PROVE  /\ L[i] \in Seq(Addrs)
         /\ \A k, m \in 1..Len(L[i]) : L[i][k] = L[i][m] => k = m
<1>1. L[i] \in Seq(Addrs)
  BY DEF Lists
<1>2. DOMAIN L[i] = 1..Len(L[i])
  BY <1>1
<1> QED BY <1>1, <1>2, Zenon DEF Apart

(* An entry is in the list of one slot only. *)
LEMMA OneSlot ==
  ASSUME NEW L \in Lists, Apart(L), NEW i \in Slots, NEW j \in Slots,
         NEW a \in ToSet(L[i]), a \in ToSet(L[j])
  PROVE  i = j
<1>1. PICK k \in DOMAIN L[i] : L[i][k] = a
  BY Zenon DEF ToSet
<1>2. PICK m \in DOMAIN L[j] : L[j][m] = a
  BY Zenon DEF ToSet
<1> QED BY <1>1, <1>2, Zenon DEF Apart

(* list_del takes an entry out of the wheel and leaves all others. *)
LEMMA Taken ==
  ASSUME NEW L \in Lists, Apart(L), NEW a \in Wheel(L)
  PROVE  /\ Off(L, a) \in Lists
         /\ Apart(Off(L, a))
         /\ \A i \in Slots : ToSet(Off(L, a)[i]) = ToSet(L[i]) \ {a}
<1>1. PICK s \in Slots : a \in ToSet(L[s])
  BY Zenon DEF Wheel
<1>2. PICK j \in 1..Len(L[s]) : L[s][j] = a
  <2>1. L[s] \in Seq(Addrs)
    BY Once
  <2>2. DOMAIN L[s] = 1..Len(L[s])
    BY <2>1
  <2> QED BY <1>1, <2>2, Zenon DEF ToSet
<1> DEFINE h(i, k) == IF i = s /\ j <= k THEN k + 1 ELSE k
           M == Off(L, a)
<1>3. ASSUME NEW i \in Slots
      PROVE  M[i] = RemoveFirst(L[i], a)
  BY DEF Off
<1>4. ASSUME NEW i \in Slots
      PROVE  /\ M[i] \in Seq(Addrs)
             /\ \A k \in 1..Len(M[i]) :
                  h(i, k) \in 1..Len(L[i]) /\ M[i][k] = L[i][h(i, k)]
             /\ \A k \in 1..Len(L[i]) : L[i][k] # a =>
                  \E m \in 1..Len(M[i]) : h(i, m) = k
  <2>0. /\ L[i] \in Seq(Addrs)
        /\ \A k, m \in 1..Len(L[i]) : L[i][k] = L[i][m] => k = m
    BY Once
  <2>1. CASE i = s
    <3> DEFINE r == RemoveFirst(L[s], L[s][j])
    <3>1. /\ r \in Seq(Addrs)
          /\ Len(r) = Len(L[s]) - 1
          /\ \A k \in 1..(Len(L[s]) - 1) :
               r[k] = IF k < j THEN L[s][k] ELSE L[s][k + 1]
      BY <2>0, <2>1, Removed, Zenon
    <3>2. M[i] = r
      BY <1>2, <1>3, <2>1, Zenon
    <3> HIDE DEF r, M
    <3>3. ASSUME NEW k \in 1..Len(M[i])
          PROVE  h(i, k) \in 1..Len(L[i]) /\ M[i][k] = L[i][h(i, k)]
      <4>1. k \in 1..(Len(L[s]) - 1)
        BY <3>1, <3>2
      <4>2. M[i][k] = IF k < j THEN L[s][k] ELSE L[s][k + 1]
        BY <3>1, <3>2, <4>1, Zenon
      <4>3. h(i, k) = IF k < j THEN k ELSE k + 1
        BY <2>1, <4>1
      <4>4. h(i, k) \in 1..Len(L[i])
        BY <2>0, <2>1, <4>1, <4>3
      <4> QED BY <2>1, <4>2, <4>3, <4>4, Zenon
    <3>4. ASSUME NEW k \in 1..Len(L[i]), L[i][k] # a
          PROVE  \E m \in 1..Len(M[i]) : h(i, m) = k
      <4>1. k # j
        BY <1>2, <2>1, <3>4
      <4>2. Len(M[i]) = Len(L[s]) - 1
        BY <3>1, <3>2, Zenon
      <4>3. CASE k < j
        <5>1. k \in 1..Len(M[i]) /\ h(i, k) = k
          BY <2>0, <2>1, <4>2, <4>3
        <5> QED BY <5>1, Zenon
      <4>4. CASE j < k
        <5>1. k - 1 \in 1..Len(M[i]) /\ h(i, k - 1) = k
          BY <2>0, <2>1, <4>2, <4>4
        <5> QED BY <5>1, Zenon
      <4> QED BY <4>1, <4>3, <4>4
    <3> QED BY <3>1, <3>2, <3>3, <3>4, Zenon
  <2>2. CASE i # s
    <3>1. a \notin ToSet(L[i])
      BY <1>1, <2>2, OneSlot, Zenon
    <3>2. M[i] = L[i]
      BY <1>3, <2>0, <3>1, NotThere, Zenon
    <3> QED BY <2>0, <2>2, <3>2, Zenon
  <2> QED BY <2>1, <2>2
<1>5. M \in Lists
  BY <1>4, Zenon DEF Lists, Off
<1>6. \A i \in Slots : DOMAIN M[i] = 1..Len(M[i]) /\ DOMAIN L[i] = 1..Len(L[i])
  <2> TAKE i \in Slots
  <2>1. M[i] \in Seq(Addrs) /\ L[i] \in Seq(Addrs)
    BY <1>4, Once, Zenon
  <2> QED BY <2>1
<1>i. ASSUME NEW i \in Slots, NEW k \in Nat, NEW m \in Nat, h(i, k) = h(i, m)
      PROVE  k = m
  BY <1>i
<1>n. ASSUME NEW k \in Nat
      PROVE  h(s, k) # j
  OBVIOUS
<1> HIDE DEF M, h
<1>7. Apart(M)
  <2> SUFFICES ASSUME NEW i \in Slots, NEW p \in Slots,
                      NEW k \in DOMAIN M[i], NEW m \in DOMAIN M[p],
                      M[i][k] = M[p][m]
               PROVE  i = p /\ k = m
    BY Zenon DEF Apart
  <2>0. k \in 1..Len(M[i]) /\ m \in 1..Len(M[p])
    BY <1>6, Zenon
  <2>1. /\ h(i, k) \in DOMAIN L[i] /\ h(p, m) \in DOMAIN L[p]
        /\ L[i][h(i, k)] = L[p][h(p, m)]
    BY <1>4, <1>6, <2>0, Zenon
  <2>2. i = p /\ h(i, k) = h(p, m)
    <3> DEFINE u == h(i, k)
               v == h(p, m)
    <3>1. u \in DOMAIN L[i] /\ v \in DOMAIN L[p] /\ L[i][u] = L[p][v]
      BY <2>1
    <3> HIDE DEF u, v
    <3>2. i = p /\ u = v
      BY <3>1, SamePlace
    <3> QED BY <3>2 DEF u, v
  <2>3. k = m
    BY <1>i, <2>0, <2>2
  <2> QED BY <2>2, <2>3
<1>8. ASSUME NEW i \in Slots
      PROVE  ToSet(M[i]) = ToSet(L[i]) \ {a}
  <2>1. ASSUME NEW x \in ToSet(M[i])
        PROVE  x \in ToSet(L[i]) \ {a}
    <3>1. PICK k \in 1..Len(M[i]) : M[i][k] = x
      BY <1>6, Zenon DEF ToSet
    <3>2. h(i, k) \in DOMAIN L[i] /\ x = L[i][h(i, k)]
      BY <1>4, <1>6, <3>1, Zenon
    <3>3. x # a
      <4> SUFFICES ASSUME x = a PROVE FALSE
        OBVIOUS
      <4>1. j \in DOMAIN L[s] /\ L[s][j] = L[i][h(i, k)]
        BY <1>2, <1>6, <3>2, Zenon
      <4>2. i = s /\ j = h(i, k)
        BY <3>2, <4>1, SamePlace, Zenon
      <4>3. k \in Nat
        <5>1. M[i] \in Seq(Addrs)
          BY <1>4, Zenon
        <5> QED BY <5>1
      <4> QED BY <1>n, <4>2, <4>3, Zenon
    <3> QED BY <3>2, <3>3, Zenon DEF ToSet
  <2>2. ASSUME NEW x \in ToSet(L[i]) \ {a}
        PROVE  x \in ToSet(M[i])
    <3>1. PICK k \in 1..Len(L[i]) : L[i][k] = x
      BY <1>6, <2>2, Zenon DEF ToSet
    <3>2. PICK m \in 1..Len(M[i]) : h(i, m) = k
      BY <1>4, <2>2, <3>1, Zenon
    <3>3. M[i][m] = x
      BY <1>4, <3>1, <3>2, Zenon
    <3> QED BY <1>6, <3>3, Zenon DEF ToSet
  <2> QED BY <2>1, <2>2
<1> QED BY <1>5, <1>7, <1>8 DEF M

(* list_add_tail of an entry that is in no list. *)
LEMMA Added ==
  ASSUME NEW L \in Lists, Apart(L), NEW a \in Addrs \ Wheel(L), NEW s \in Slots
  PROVE  /\ On(L, s, a) \in Lists
         /\ Apart(On(L, s, a))
         /\ On(L, s, a)[s] = Append(L[s], a)
         /\ ToSet(On(L, s, a)[s]) = ToSet(L[s]) \union {a}
         /\ \A i \in Slots \ {s} : On(L, s, a)[i] = L[i]
<1> DEFINE M == On(L, s, a)
<1>1. L[s] \in Seq(Addrs) /\ DOMAIN L = Slots
  BY DEF Lists
<1>2. M[s] = Append(L[s], a) /\ \A i \in Slots \ {s} : M[i] = L[i]
  BY <1>1 DEF On
<1> HIDE DEF M
<1>3. /\ M[s] \in Seq(Addrs) /\ Len(M[s]) = Len(L[s]) + 1
      /\ \A k \in 1..Len(L[s]) : M[s][k] = L[s][k]
      /\ M[s][Len(L[s]) + 1] = a
  BY <1>1, <1>2
<1>4. M \in Lists
  BY <1>3, <1>2, <1>1 DEF Lists, M, On
<1>5. \A i \in Slots : DOMAIN M[i] = 1..Len(M[i]) /\ DOMAIN L[i] = 1..Len(L[i])
  <2> TAKE i \in Slots
  <2>1. M[i] \in Seq(Addrs) /\ L[i] \in Seq(Addrs)
    BY <1>4 DEF Lists
  <2> QED BY <2>1
<1>6. ASSUME NEW i \in Slots, NEW k \in 1..Len(M[i])
      PROVE  \/ k \in DOMAIN L[i] /\ M[i][k] = L[i][k]
             \/ i = s /\ k = Len(L[s]) + 1 /\ M[i][k] = a
  <2>1. CASE i = s
    BY <1>1, <1>3, <1>5, <2>1
  <2>2. CASE i # s
    BY <1>2, <1>5, <2>2
  <2> QED BY <2>1, <2>2
<1>7. \A i \in Slots : \A k \in DOMAIN L[i] : L[i][k] # a
  BY DEF Wheel, ToSet
<1>8. Apart(M)
  <2> SUFFICES ASSUME NEW i \in Slots, NEW p \in Slots,
                      NEW k \in 1..Len(M[i]), NEW m \in 1..Len(M[p]),
                      M[i][k] = M[p][m]
               PROVE  i = p /\ k = m
    BY <1>5 DEF Apart
  <2>1. CASE k \in DOMAIN L[i] /\ M[i][k] = L[i][k]
    <3>a. L[i][k] # a
      BY <1>7, <2>1, Zenon
    <3>b. M[p][m] # a
      BY <2>1, <3>a, Zenon
    <3>1. m \in DOMAIN L[p] /\ M[p][m] = L[p][m]
      BY <1>6, <3>b, Zenon
    <3>2. L[i][k] = L[p][m]
      BY <2>1, <3>1, Zenon
    <3>3. k \in DOMAIN L[i] /\ m \in DOMAIN L[p]
      BY <2>1, <3>1, Zenon
    <3> QED BY <3>2, <3>3 DEF Apart
  <2>2. CASE i = s /\ k = Len(L[s]) + 1 /\ M[i][k] = a
    <3>a. M[p][m] = a
      BY <2>2, Zenon
    <3>b. ~(m \in DOMAIN L[p] /\ M[p][m] = L[p][m])
      BY <1>7, <3>a, Zenon
    <3>1. p = s /\ m = Len(L[s]) + 1
      BY <1>6, <3>b, Zenon
    <3> QED BY <2>2, <3>1
  <2> QED BY <1>6, <2>1, <2>2, Zenon
<1>9. ToSet(M[s]) = ToSet(L[s]) \union {a}
  <2>1. ToSet(M[s]) = {M[s][k] : k \in 1..(Len(L[s]) + 1)}
    BY <1>3, <1>5, Zenon DEF ToSet
  <2>2. ToSet(L[s]) = {L[s][k] : k \in 1..Len(L[s])}
    BY <1>5, Zenon DEF ToSet
  <2> QED BY <1>3, <1>1, <2>1, <2>2
<1> QED BY <1>2, <1>4, <1>8, <1>9, Zenon DEF M

-----------------------------------------------------------------------------
(* Ticks and revolutions.                                                  *)

(* An expiration is its whole revolutions and what is left. *)
LEMMA TurnsFacts ==
  /\ slot_num \in Nat \ {0}
  /\ Turns(0) = 0
  /\ \A r \in Nat : Turns(r) \in Nat
  /\ \A r \in Nat : r > 0 => r - 1 \in Nat /\ Turns(r - 1) = Turns(r) - slot_num
  /\ \A e \in Nat : /\ e \div slot_num \in Nat /\ e % slot_num \in Slots
                    /\ e = Turns(e \div slot_num) + (e % slot_num)
<1>1. slot_num \in Nat \ {0}
  BY TimerAssumption
<1>2. Turns(0) = 0 /\ \A r \in Nat : Turns(r) \in Nat
  BY <1>1 DEF Turns
<1>3. ASSUME NEW r \in Nat, r > 0
      PROVE  r - 1 \in Nat /\ Turns(r - 1) = Turns(r) - slot_num
  <2>1. slot_num * (r - 1) = (slot_num * r) - slot_num
    BY <1>1, SMT
  <2> QED BY <1>3, <2>1 DEF Turns
<1>4. ASSUME NEW e \in Nat
      PROVE  /\ e \div slot_num \in Nat /\ e % slot_num \in Slots
             /\ e = Turns(e \div slot_num) + (e % slot_num)
  <2>1. e \div slot_num \in Nat
    BY <1>1, SMT
  <2>2. e % slot_num \in 0..(slot_num - 1)
    BY <1>1, SMT
  <2>3. e = slot_num * (e \div slot_num) + (e % slot_num)
    BY <1>1, SMT
  <2> QED BY <2>1, <2>2, <2>3 DEF Turns, Slots
<1> QED BY <1>1, <1>2, <1>3, <1>4

(* A timer is re-armed into the slot that is expires % slot_num away. *)
LEMMA NextSlotIs ==
  ASSUME cur_slot \in Slots, NEW e \in Nat
  PROVE  NextSlot(e) \in Slots /\ Distance(NextSlot(e)) = e % slot_num
<1> DEFINE c == e % slot_num
<1>1. /\ slot_num \in Nat \ {0}
      /\ c \in 0..(slot_num - 1) /\ cur_slot \in 0..(slot_num - 1)
  BY TurnsFacts DEF Slots
<1>2. NextSlot(e) = (c + cur_slot) % slot_num
  BY DEF NextSlot
<1> HIDE DEF c
<1>3. (c + cur_slot) % slot_num =
        IF c + cur_slot < slot_num
        THEN c + cur_slot ELSE c + cur_slot - slot_num
  BY <1>1, SMT
<1> QED BY <1>1, <1>2, <1>3 DEF Distance, Slots, c

(* Every slot comes within a revolution, the present one first. *)
LEMMA DistanceIs ==
  ASSUME cur_slot \in Slots, NEW i \in Slots
  PROVE  /\ Distance(i) \in 0..(slot_num - 1)
         /\ Distance(i) = 0 <=> i = cur_slot
  BY TurnsFacts DEF Distance, Slots

(* A timer waits a revolution at most, apart from its rotations. *)
LEMMA WaitIs ==
  ASSUME cur_slot \in Slots, NEW i \in Slots, NEW a
  PROVE  Wait(i, a) \in 0..slot_num
<1>1. slot_num \in Nat \ {0} /\ Distance(i) \in 0..(slot_num - 1)
  BY DistanceIs, TurnsFacts
<1> QED BY <1>1 DEF Wait

(* The same after a step. *)
LEMMA WaitNext ==
  ASSUME cur_slot' \in Slots, NEW i \in Slots, NEW a
  PROVE  Wait(i, a)' \in 0..slot_num
<1>1. slot_num \in Nat \ {0} /\ Distance(i)' \in 0..(slot_num - 1)
  <2>1. slot_num \in Nat \ {0}
    BY TurnsFacts
  <2>2. PICK c \in Slots : c = cur_slot'
    BY Zenon
  <2>3. Distance(i)' = IF c <= i THEN i - c ELSE i - c + slot_num
    BY <2>2, Zenon DEF Distance
  <2>4. (IF c <= i THEN i - c ELSE i - c + slot_num) \in 0..(slot_num - 1)
    BY <2>1 DEF Slots
  <2> QED BY <2>1, <2>3, <2>4, Zenon
<1> QED BY <1>1 DEF Wait

(* When a timer may fire depends on its expiration and who armed it. *)
LEMMA SameInTime ==
  ASSUME NEW t, NEW u, NEW n, t.first = u.first, t.expires = u.expires,
         InTime(t, n)
  PROVE  InTime(u, n)
  BY Zenon DEF InTime

(* HyTimerAdd arms a timer within a revolution of its rotation count. *)
LEMMA FirstInTime ==
  ASSUME NEW e \in Nat, NEW r \in BOOLEAN, NEW w \in 0..slot_num
  PROVE  InTime(Armed(e, r, TRUE), Turns(e \div slot_num) + w)
<1>1. Turns(e \div slot_num) \in Nat /\ slot_num \in Nat
  BY TurnsFacts
<1>2. Armed(e, r, TRUE).first = TRUE /\ Armed(e, r, TRUE).expires = e
  BY DEF Armed
<1>3. Turns(Armed(e, r, TRUE).expires \div slot_num) = Turns(e \div slot_num)
  BY <1>2, Zenon
<1>4. PICK v \in Nat : v = Turns(e \div slot_num)
  BY <1>1, Zenon
<1>5. v <= v + w /\ v + w <= v + slot_num
  BY <1>1
<1> QED BY <1>2, <1>3, <1>4, <1>5, Zenon DEF InTime

(* Re-arming does it exactly, but for multiples of the wheel. *)
LEMMA AgainInTime ==
  ASSUME NEW e \in Nat, NEW w \in 0..slot_num,
         w = e % slot_num \/ (e % slot_num = 0 /\ w = slot_num)
  PROVE  InTime(Armed(e, TRUE, FALSE), Turns(e \div slot_num) + w)
<1>1. Turns(e \div slot_num) \in Nat /\ slot_num \in Nat
  BY TurnsFacts
<1>2. Armed(e, TRUE, FALSE).first = FALSE /\ Armed(e, TRUE, FALSE).expires = e
  BY DEF Armed
<1>3. e % slot_num \in Nat /\ e = Turns(e \div slot_num) + (e % slot_num)
  BY TurnsFacts DEF Slots
<1>4. PICK v \in Nat : v = Turns(e \div slot_num)
  BY <1>1, Zenon
<1>5. \/ v + w = e
      \/ e = v /\ v + w = v + slot_num
  BY <1>1, <1>3, <1>4
<1> QED BY <1>2, <1>4, <1>5, Zenon DEF InTime

(* No timer grows older than AgeCap before it fires. *)
LEMMA InTimeBound ==
  ASSUME NEW t, t.expires \in Nat, NEW n \in Nat, InTime(t, n)
  PROVE  n <= t.expires + slot_num
<1>1. /\ Turns(t.expires \div slot_num) \in Nat /\ slot_num \in Nat
      /\ t.expires % slot_num \in Nat
      /\ t.expires = Turns(t.expires \div slot_num) + (t.expires % slot_num)
  <2>1. \A e \in Nat : /\ Turns(e \div slot_num) \in Nat /\ e % slot_num \in Nat
                        /\ e = Turns(e \div slot_num) + (e % slot_num)
    BY TurnsFacts DEF Slots
  <2> QED BY <2>1, TurnsFacts, Zenon
<1>2. PICK v \in Nat : v = Turns(t.expires \div slot_num)
  BY <1>1, Zenon
<1>3. n <= v + slot_num \/ n = t.expires \/ (t.expires = v /\ n = v + slot_num)
  BY <1>2, Zenon DEF InTime
<1>4. v <= t.expires
  <2>1. PICK m \in Nat : m = t.expires % slot_num
    BY <1>1, Zenon
  <2>2. t.expires = v + m
    BY <1>1, <1>2, <2>1, Zenon
  <2> QED BY <2>1, <2>2
<1> QED BY <1>1, <1>3, <1>4

-----------------------------------------------------------------------------
(* The traversal.                                                          *)

(* What list_add_tail adds behind does not change who comes before. *)
LEMMA AfterAdded ==
  ASSUME NEW q \in Seq(Addrs), NEW a \in Addrs, NEW n, n # a, NEW x, x # a
  PROVE  x \in AtOrAfter(Append(q, a), n) <=> x \in AtOrAfter(q, n)
<1> DEFINE r == Append(q, a)
<1>1. /\ r \in Seq(Addrs) /\ Len(r) = Len(q) + 1
      /\ \A k \in 1..Len(q) : r[k] = q[k]
      /\ r[Len(q) + 1] = a
  OBVIOUS
<1> HIDE DEF r
<1>2. DOMAIN r = 1..Len(r) /\ DOMAIN q = 1..Len(q) /\ Len(q) \in Nat
  BY <1>1
<1>3. ASSUME x \in AtOrAfter(q, n) PROVE x \in AtOrAfter(r, n)
  <2>1. PICK m \in 1..Len(q) : \E k \in m..Len(q) : q[m] = n /\ q[k] = x
    BY <1>3, Zenon DEF AtOrAfter
  <2>2. PICK k \in m..Len(q) : q[m] = n /\ q[k] = x
    BY <2>1
  <2>3. /\ m \in 1..Len(r) /\ k \in m..Len(r) /\ k \in 1..Len(r)
        /\ r[m] = n /\ r[k] = x
    BY <1>1, <2>2
  <2>4. x \in ToSet(r)
    BY <1>2, <2>3, Zenon DEF ToSet
  <2> QED BY <2>3, <2>4, Zenon DEF AtOrAfter
<1>4. ASSUME x \in AtOrAfter(r, n) PROVE x \in AtOrAfter(q, n)
  <2>1. PICK m \in 1..Len(r) : \E k \in m..Len(r) : r[m] = n /\ r[k] = x
    BY <1>4, Zenon DEF AtOrAfter
  <2>2. PICK k \in m..Len(r) : r[m] = n /\ r[k] = x
    BY <2>1
  <2>3. m # Len(q) + 1 /\ k # Len(q) + 1
    BY <1>1, <2>2
  <2>4. /\ m \in 1..Len(q) /\ k \in m..Len(q) /\ k \in 1..Len(q)
        /\ q[m] = n /\ q[k] = x
    BY <1>1, <1>2, <2>2, <2>3
  <2>5. x \in ToSet(q)
    BY <1>2, <2>4, Zenon DEF ToSet
  <2> QED BY <2>4, <2>5, Zenon DEF AtOrAfter
<1> QED BY <1>3, <1>4 DEF r

(* Going on from an entry leaves just that one behind. *)
LEMMA GoesOn ==
  ASSUME NEW q \in Seq(Addrs), NEW j \in 1..Len(q),
         \A k, m \in 1..Len(q) : q[k] = q[m] => k = m, NEW x
  PROVE  x \in AtOrAfter(q, q[j])
           <=> x = q[j] \/ x \in AtOrAfter(q, NextEntry(q, q[j]))
<1>1. AtOrAfter(q, q[j]) = {q[k] : k \in j..Len(q)}
  BY AfterIs
<1>2. CASE j < Len(q)
  <2>1. NextEntry(q, q[j]) = q[j + 1] /\ j + 1 \in 1..Len(q)
    BY <1>2, NextIs
  <2>2. AtOrAfter(q, q[j + 1]) = {q[k] : k \in (j + 1)..Len(q)}
    BY <2>1, AfterIs
  <2>3. j..Len(q) = {j} \union ((j + 1)..Len(q))
    BY <1>2
  <2> QED BY <1>1, <2>1, <2>2, <2>3
<1>3. CASE ~(j < Len(q))
  <2>1. NextEntry(q, q[j]) = HEAD
    BY <1>3, NextIs
  <2>2. AtOrAfter(q, HEAD) = {}
    BY NextOfHead
  <2>3. j..Len(q) = {j}
    BY <1>3
  <2> QED BY <1>1, <2>1, <2>2, <2>3
<1> QED BY <1>2, <1>3

(* At the first entry everything is still ahead. *)
LEMMA AllAhead ==
  ASSUME NEW q \in Seq(Addrs), Len(q) > 0,
         \A k, m \in 1..Len(q) : q[k] = q[m] => k = m
  PROVE  AtOrAfter(q, q[1]) = ToSet(q)
<1>1. 1 \in 1..Len(q)
  OBVIOUS
<1>2. AtOrAfter(q, q[1]) = {q[k] : k \in 1..Len(q)}
  BY <1>1, AfterIs
<1> QED BY <1>2 DEF ToSet

-----------------------------------------------------------------------------
(* What the invariant says of the wheel and of the slot that is visited.   *)

(* The fields of a timer that has just been armed. *)
LEMMA ArmedType ==
  ASSUME NEW e \in Nat, NEW r \in BOOLEAN, NEW f \in BOOLEAN
  PROVE  /\ Armed(e, r, f) \in Timers
         /\ Armed(e, r, f).live
         /\ Armed(e, r, f).rotation = e \div slot_num
         /\ Armed(e, r, f).expires = e
         /\ Armed(e, r, f).age = 0
         /\ Armed(e, r, f).rotation
              \in 0..(Armed(e, r, f).expires \div slot_num)
<1>1. e \div slot_num \in Nat
  BY TurnsFacts
<1>2. PICK d \in Nat : d = e \div slot_num
  BY <1>1, Zenon
<1>3. Armed(e, r, f) = [live |-> TRUE, expires |-> e, repeat |-> r,
                        rotation |-> d,
                        age |-> 0, first |-> f]
  BY <1>2 DEF Armed
<1>4. /\ Armed(e, r, f) \in Timers
      /\ Armed(e, r, f).live
      /\ Armed(e, r, f).rotation = d
      /\ Armed(e, r, f).expires = e
      /\ Armed(e, r, f).age = 0
  BY <1>3 DEF Timers
<1>5. d \in 0..d
  OBVIOUS
<1> QED BY <1>2, <1>4, <1>5, Zenon

(* A freed timer is a record too. *)
LEMMA FreedType == Freed \in Timers /\ ~Freed.live
<1>1. Armed(0, FALSE, FALSE) \in Timers
  BY ArmedType
<1> QED BY <1>1 DEF Freed, Timers

(* InWheelOnce in terms of Apart, which the lemmas on lists use. *)
LEMMA WheelFacts ==
  ASSUME Inv
  PROVE  /\ list_head \in Lists /\ Apart(list_head)
         /\ Live = Wheel(list_head) \union InDel
         /\ Wheel(list_head) \intersect InDel = {}
         /\ Wheel(list_head) \subseteq Addrs
         /\ \A i \in Slots : ToSet(list_head[i]) \subseteq Wheel(list_head)
         /\ cur_slot \in Slots
<1>1. list_head \in Lists /\ cur_slot \in Slots
  BY DEF Inv, TypeOK, Lists
<1>2. InWheel = Wheel(list_head)
  BY DEF InWheel, Wheel
<1>3. /\ Apart(list_head)
      /\ Live = InWheel \union InDel /\ InWheel \intersect InDel = {}
  BY Zenon DEF Inv, InWheelOnce, Apart
<1>4. \A i \in Slots : ToSet(list_head[i]) \subseteq Wheel(list_head)
  BY DEF Wheel
<1>5. Wheel(list_head) \subseteq Addrs
  <2>1. Live \subseteq Addrs
    BY DEF Live
  <2> QED BY <1>2, <1>3, <2>1
<1> QED BY <1>1, <1>2, <1>3, <1>4, <1>5, Zenon

(* The same facts are what has to be shown of a new wheel. *)
LEMMA WheelOnceNext ==
  ASSUME Apart(list_head'), Live' = Wheel(list_head') \union InDel',
         Wheel(list_head') \intersect InDel' = {}
  PROVE  InWheelOnce'
<1>1. InWheel' = Wheel(list_head')
  BY DEF InWheel, Wheel
<1>2. \A i \in Slots, j \in Slots :
        \A k \in DOMAIN list_head'[i], m \in DOMAIN list_head'[j] :
          list_head'[i][k] = list_head'[j][m] => i = j /\ k = m
  BY Zenon DEF Apart
<1> QED BY <1>1, <1>2, Zenon DEF InWheelOnce

(* The list of a slot repeats nothing and holds live timers only. *)
LEMMA SlotFacts ==
  ASSUME Inv, NEW i \in Slots
  PROVE  /\ list_head[i] \in Seq(Addrs)
         /\ \A k, m \in 1..Len(list_head[i]) :
              list_head[i][k] = list_head[i][m] => k = m
         /\ ToSet(list_head[i]) \subseteq Live
         /\ \A k \in 1..Len(list_head[i]) :
              list_head[i][k] \in ToSet(list_head[i])
<1>1. /\ list_head[i] \in Seq(Addrs)
      /\ \A k, m \in 1..Len(list_head[i]) :
           list_head[i][k] = list_head[i][m] => k = m
  BY WheelFacts, Once, Zenon
<1>2. ToSet(list_head[i]) \subseteq Live
  BY WheelFacts, Zenon
<1>3. DOMAIN list_head[i] = 1..Len(list_head[i])
  BY <1>1
<1>4. \A k \in 1..Len(list_head[i]) : list_head[i][k] \in ToSet(list_head[i])
  BY <1>3, Zenon DEF ToSet
<1> QED BY <1>1, <1>2, <1>4, Zenon

(* The cursors of a traversal that is at a timer. *)
LEMMA CursorFacts ==
  ASSUME Inv, Traversing, thr.pos # HEAD
  PROVE  LET q == list_head[cur_slot] IN
         /\ thr.pos \in ToSet(q)
         /\ thr.pos \in Addrs
         /\ thr.n # thr.pos
         /\ thr.n = NextEntry(q, thr.pos) \/ thr.n = HEAD
         /\ thr.n = HEAD \/ thr.n \in ToSet(q)
<1> DEFINE q == list_head[cur_slot]
<1>1. PICK j \in 1..Len(q) : /\ thr.pos = q[j]
                             /\ thr.n = HEAD \/ (j < Len(q) /\ thr.n = q[j + 1])
  BY Zenon DEF Inv, Cursor
<1>2. cur_slot \in Slots
  BY WheelFacts
<1>3. /\ q \in Seq(Addrs)
      /\ \A k, m \in 1..Len(q) : q[k] = q[m] => k = m
      /\ \A k \in 1..Len(q) : q[k] \in ToSet(q)
  BY <1>2, SlotFacts, Zenon
<1> HIDE DEF q
<1>4. thr.pos \in ToSet(q) /\ thr.pos \in Addrs
  BY <1>1, <1>3
<1>5. NextEntry(q, thr.pos) = IF j < Len(q) THEN q[j + 1] ELSE HEAD
  BY <1>1, <1>3, NextIs, Zenon
<1>6. CASE thr.n = HEAD
  <2>1. thr.n # thr.pos
    BY <1>4, <1>6, TimerAssumption
  <2> QED BY <1>4, <1>6, <2>1, Zenon DEF q
<1>7. CASE j < Len(q) /\ thr.n = q[j + 1]
  <2>1. j + 1 \in 1..Len(q) /\ j + 1 # j
    BY <1>3, <1>7
  <2>2. thr.n # thr.pos /\ thr.n \in ToSet(q)
    BY <1>1, <1>3, <1>7, <2>1, Zenon
  <2>3. thr.n = NextEntry(q, thr.pos)
    BY <1>5, <1>7, Zenon
  <2> QED BY <1>4, <2>2, <2>3, Zenon DEF q
<1> QED BY <1>1, <1>6, <1>7

(* A traversal that is at the head has come to its end. *)
LEMMA CursorAtEnd ==
  ASSUME Inv, Traversing, thr.pos = HEAD
  PROVE  thr.pc = "visit" /\ thr.n = HEAD
<1>1. list_head[cur_slot] \in Seq(Addrs)
  BY WheelFacts, SlotFacts
<1>2. \A j \in 1..Len(list_head[cur_slot]) : thr.pos # list_head[cur_slot][j]
  BY <1>1, TimerAssumption
<1> QED BY <1>2, Zenon DEF Inv, Cursor

(* TraversalInSlot says less than Cursor. *)
LEMMA InSlot ==
  ASSUME Inv
  PROVE  TraversalInSlot
<1>1. CASE thr.pos = HEAD
  BY <1>1, CursorAtEnd DEF TraversalInSlot
<1>2. CASE thr.pos # HEAD
  BY <1>2, CursorFacts DEF TraversalInSlot
<1> QED BY <1>1, <1>2

-----------------------------------------------------------------------------
(* Initially, and the steps that leave wheel and timers as they are.       *)

(* Before HyTimerCreate there is no timer. *)
LEMMA InitInv ==
  ASSUME Init
  PROVE  Inv
<1> USE DEF Init
<1>1. timer \in [Addrs -> Timers] /\ \A a \in Addrs : ~timer[a].live
  BY FreedType
<1>2. Live = {}
  BY <1>1 DEF Live
<1>3. slot_num \in Nat \ {0} /\ 0 \in Slots
  BY TurnsFacts DEF Slots
<1>4. /\ list_head \in Lists
      /\ \A i \in Slots : list_head[i] = <<>> /\ ToSet(list_head[i]) = {}
  BY DEF EmptyList, Lists, ToSet
<1>5. TypeOK /\ RecordType
  BY <1>2, <1>3, <1>4 DEF TypeOK, RecordType, Lists, NoThread, NoCall, ThrPc
<1>6. InWheelOnce
  <2>1. Wheel(list_head) = {}
    BY <1>4 DEF Wheel
  <2>2. InDel = {}
    BY DEF InDel, NoThread, NoCall
  <2>3. Apart(list_head)
    BY <1>4 DEF Apart
  <2>4. InWheel = Wheel(list_head)
    BY DEF InWheel, Wheel
  <2> QED BY <1>2, <2>1, <2>2, <2>3, <2>4 DEF InWheelOnce, Apart
<1>7. Lifetime
  BY DEF Lifetime, NoThread, NoCall
<1>8. Cursor /\ Timing
  BY DEF Cursor, Timing, Traversing, Ticking, NoThread
<1> QED BY <1>1, <1>5, <1>6, <1>7, <1>8 DEF Inv, TimerType

(* Steps that change no list and no timer keep the wheel. *)
LEMMA KeepsWheel ==
  ASSUME Inv, UNCHANGED <<list_head, timer>>, InDel' = InDel
  PROVE  InWheelOnce' /\ TimerType' /\ Live' = Live
<1>1. Live' = Live
  BY DEF Live
<1>2. InWheelOnce'
  BY <1>1 DEF Inv, InWheelOnce, InWheel
<1>3. TimerType'
  BY DEF Inv, TimerType
<1> QED BY <1>1, <1>2, <1>3

(* They keep the timing too, if every timer waits as long as before. *)
LEMMA KeepsTiming ==
  ASSUME Inv, UNCHANGED <<list_head, timer>>, Ticking' => Ticking,
         AtWork => AtWork' /\ thr'.pos = thr.pos,
         \A i \in Slots : \A a \in ToSet(list_head[i]) :
           (AtWork' /\ a = thr'.pos) \/ Wait(i, a)' = Wait(i, a)
  PROVE  Timing'
<1> SUFFICES ASSUME Ticking', NEW i \in Slots, NEW a \in ToSet(list_head[i])
             PROVE  \/ AtWork' /\ a = thr'.pos
                    \/ InTime(timer[a], FiringAge(i, a)')
  BY DEF Timing, InTime
<1>1. (AtWork /\ a = thr.pos) \/ InTime(timer[a], FiringAge(i, a))
  BY Zenon DEF Inv, Timing
<1>2. CASE Wait(i, a)' = Wait(i, a)
  <2>1. FiringAge(i, a)' = FiringAge(i, a)
    BY <1>2 DEF FiringAge, Turns
  <2> QED BY <1>1, <2>1
<1>3. CASE AtWork' /\ a = thr'.pos
  BY <1>3
<1> QED BY <1>2, <1>3

(* Nothing changes. *)
LEMMA StutterStep ==
  ASSUME Inv, UNCHANGED vars
  PROVE  Inv'
<1> USE DEF vars
<1>1. TypeOK' /\ RecordType' /\ Lifetime' /\ Cursor'
  BY DEF Inv, TypeOK, RecordType, Live, Lifetime, Cursor, Traversing
<1>2. InDel' = InDel
  BY DEF InDel
<1>3. InWheelOnce' /\ TimerType'
  BY <1>2, KeepsWheel
<1>4. Timing'
  <2>1. Ticking' = Ticking /\ AtWork' = AtWork
    BY DEF Ticking, AtWork
  <2>2. \A i \in Slots : \A a \in ToSet(list_head[i]) : Wait(i, a)' = Wait(i, a)
    BY DEF Wait, Traversing, Distance, Ahead
  <2> QED BY <2>1, <2>2, KeepsTiming
<1> QED BY <1>1, <1>3, <1>4 DEF Inv

(* The wheel is still empty. *)
LEMMA CreateStep ==
  ASSUME Inv, HyTimerCreate
  PROVE  Inv'
<1> USE DEF HyTimerCreate
<1>1. PICK pc \in {"top", "none"} : thr' = [NoThread EXCEPT !.pc = pc]
  OBVIOUS
<1>2. thr' = [pc |-> pc, pos |-> HEAD, n |-> HEAD] /\ thr.pc = "none"
  BY <1>1 DEF NoThread, Inv, Lifetime
<1>3. \A i \in Slots : list_head[i] = <<>> /\ ToSet(list_head[i]) = {}
  BY DEF Inv, Lifetime, EmptyList, ToSet
<1>4. InDel' = InDel
  BY <1>2 DEF InDel
<1>5. InWheelOnce' /\ TimerType' /\ Live' = Live
  BY <1>4, KeepsWheel
<1>6. TypeOK' /\ RecordType'
  BY <1>2, <1>5 DEF Inv, TypeOK, RecordType, ThrPc
<1>7. Lifetime' /\ Cursor'
  BY <1>2 DEF Inv, Lifetime, Cursor, Traversing
<1>8. Timing'
  BY <1>3 DEF Timing
<1> QED BY <1>5, <1>6, <1>7, <1>8 DEF Inv

(* The program ends in HyTimerCreate. *)
LEMMA CreateFailsStep ==
  ASSUME Inv, HyTimerCreateFails
  PROVE  Inv'
<1> USE DEF HyTimerCreateFails
<1>1. client'.pc = "crashed"
  BY DEF Inv, TypeOK, RecordType
<1>2. InDel' = InDel
  BY <1>1 DEF InDel
<1>3. InWheelOnce' /\ TimerType' /\ Live' = Live
  BY <1>2, KeepsWheel
<1>4. TypeOK' /\ RecordType'
  BY <1>1, <1>3 DEF Inv, TypeOK, RecordType
<1>5. Lifetime' /\ Cursor'
  BY <1>1 DEF Inv, Lifetime, Cursor, Traversing
<1>6. Timing'
  <2>1. thr.pc = "none"
    BY DEF Inv, Lifetime
  <2> QED BY <2>1 DEF Timing, Ticking
<1> QED BY <1>3, <1>4, <1>5, <1>6 DEF Inv

(* Back to select, or to the end; timing is about a running thread. *)
LEMMA TopStep ==
  ASSUME Inv, ThreadTop
  PROVE  Inv'
<1> USE DEF ThreadTop
<1>1. thr'.pc \in {"ended", "sleep"} /\ thr'.pos = thr.pos /\ thr'.n = thr.n
  BY DEF Inv, TypeOK, RecordType
<1>2. InDel' = InDel
  BY <1>1 DEF InDel
<1>3. InWheelOnce' /\ TimerType' /\ Live' = Live
  BY <1>2, KeepsWheel
<1>4. TypeOK' /\ RecordType'
  BY <1>1, <1>3 DEF Inv, TypeOK, RecordType, ThrPc
<1>5. Lifetime' /\ Cursor'
  BY <1>1 DEF Inv, Lifetime, Cursor, Traversing
<1>6. Timing'
  <2>1. Ticking /\ ~AtWork /\ ~Traversing /\ ~Traversing'
    BY <1>1 DEF Ticking, AtWork, Traversing
  <2>2. \A i \in Slots : \A a \in ToSet(list_head[i]) : Wait(i, a)' = Wait(i, a)
    BY <2>1 DEF Wait, Distance
  <2> QED BY <2>1, <2>2, KeepsTiming
<1> QED BY <1>3, <1>4, <1>5, <1>6 DEF Inv

(* The timer that fires is no longer timed until it is armed again. *)
LEMMA FireStep ==
  ASSUME Inv, Fire
  PROVE  Inv'
<1> USE DEF Fire
<1>1. thr'.pc = "callback" /\ thr'.pos = thr.pos /\ thr'.n = thr.n
  BY DEF Inv, TypeOK, RecordType
<1>2. InDel' = InDel
  BY <1>1 DEF InDel
<1>3. InWheelOnce' /\ TimerType' /\ Live' = Live
  BY <1>2, KeepsWheel
<1>4. TypeOK' /\ RecordType'
  BY <1>1, <1>3 DEF Inv, TypeOK, RecordType, ThrPc
<1>5. Lifetime' /\ Cursor'
  BY <1>1 DEF Inv, Lifetime, Cursor, Traversing
<1>6. Timing'
  <2>1. Ticking /\ ~AtWork /\ AtWork' /\ Traversing /\ Traversing'
    BY <1>1 DEF Ticking, AtWork, Traversing
  <2>2. \A a : a = thr'.pos \/ (a \in Ahead' <=> a \in Ahead)
    BY <1>1 DEF Ahead
  <2>3. \A i \in Slots : \A a \in ToSet(list_head[i]) :
          (AtWork' /\ a = thr'.pos) \/ Wait(i, a)' = Wait(i, a)
    BY <2>1, <2>2 DEF Wait, Distance
  <2> QED BY <2>1, <2>3, KeepsTiming
<1> QED BY <1>3, <1>4, <1>5, <1>6 DEF Inv

(* The timer that has fired is still at the cursor. *)
LEMMA ReturnStep ==
  ASSUME Inv, CallbackReturns
  PROVE  Inv'
<1> USE DEF CallbackReturns
<1>1. thr'.pc = "after" /\ thr'.pos = thr.pos /\ thr'.n = thr.n
  BY DEF Inv, TypeOK, RecordType
<1>2. InDel' = InDel
  BY <1>1 DEF InDel
<1>3. InWheelOnce' /\ TimerType' /\ Live' = Live
  BY <1>2, KeepsWheel
<1>4. TypeOK' /\ RecordType'
  BY <1>1, <1>3 DEF Inv, TypeOK, RecordType, ThrPc
<1>5. Lifetime' /\ Cursor'
  BY <1>1 DEF Inv, Lifetime, Cursor, Traversing
<1>6. Timing'
  <2>1. Ticking /\ AtWork' /\ Traversing /\ Traversing'
    BY <1>1 DEF Ticking, AtWork, Traversing
  <2>2. Ahead' = Ahead
    BY <1>1 DEF Ahead
  <2>3. \A i \in Slots : \A a \in ToSet(list_head[i]) : Wait(i, a)' = Wait(i, a)
    BY <2>1, <2>2 DEF Wait, Distance
  <2> QED BY <1>1, <2>1, <2>3, KeepsTiming
<1> QED BY <1>3, <1>4, <1>5, <1>6 DEF Inv

(* The flag that is set is looked at by the thread later. *)
LEMMA DestroyExitStep ==
  ASSUME Inv, DestroyExit
  PROVE  Inv'
<1> USE DEF DestroyExit
<1>1. client'.pc \in {"crashed", "join"}
  BY DEF Inv, TypeOK, RecordType
<1>2. InDel' = InDel
  BY <1>1 DEF InDel
<1>3. InWheelOnce' /\ TimerType' /\ Live' = Live
  BY <1>2, KeepsWheel
<1>4. TypeOK' /\ RecordType'
  BY <1>1, <1>3 DEF Inv, TypeOK, RecordType
<1>5. Lifetime' /\ Cursor'
  BY <1>1 DEF Inv, Lifetime, Cursor, Traversing
<1>6. Timing'
  <2>1. Ticking' = Ticking /\ AtWork' = AtWork
    BY DEF Ticking, AtWork
  <2>2. \A i \in Slots : \A a \in ToSet(list_head[i]) : Wait(i, a)' = Wait(i, a)
    BY DEF Wait, Traversing, Distance, Ahead
  <2> QED BY <2>1, <2>2, KeepsTiming
<1> QED BY <1>3, <1>4, <1>5, <1>6 DEF Inv

-----------------------------------------------------------------------------
(* HyTimerAdd and HyTimerDel.                                              *)

(* By the client during select, or by a callback. *)
LEMMA AddStep ==
  ASSUME Inv, thr.pc \in {"sleep", "callback"},
         NEW a \in Addrs, NEW e \in Expires, NEW r \in BOOLEAN,
         HyTimerAdd(a, e, r)
  PROVE  Inv'
<1> DEFINE s == e % slot_num
<1>1. e \in Nat /\ s \in Slots
  BY TimerAssumption, TurnsFacts
<1>2. /\ a \notin Live
      /\ timer' = [timer EXCEPT ![a] = Armed(e, r, TRUE)]
      /\ list_head' = [list_head EXCEPT ![s] = Append(@, a)]
      /\ held' = held \union {a}
      /\ UNCHANGED <<context, exit_flag, cur_slot, thr, client>>
  BY DEF HyTimerAdd
<1> HIDE DEF s
<1>3. /\ list_head \in Lists /\ Apart(list_head)
      /\ Live = Wheel(list_head) \union InDel
      /\ Wheel(list_head) \intersect InDel = {}
      /\ Wheel(list_head) \subseteq Addrs
      /\ cur_slot \in Slots
  BY WheelFacts
<1>4. a \in Addrs \ Wheel(list_head)
  BY <1>2, <1>3
<1>5. /\ list_head' \in Lists
      /\ Apart(list_head')
      /\ list_head'[s] = Append(list_head[s], a)
      /\ ToSet(list_head'[s]) = ToSet(list_head[s]) \union {a}
      /\ \A i \in Slots \ {s} : list_head'[i] = list_head[i]
  <2>1. list_head' = On(list_head, s, a)
    BY <1>2 DEF On
  <2>2. /\ On(list_head, s, a) \in Lists
        /\ Apart(On(list_head, s, a))
        /\ On(list_head, s, a)[s] = Append(list_head[s], a)
        /\ ToSet(On(list_head, s, a)[s]) = ToSet(list_head[s]) \union {a}
        /\ \A i \in Slots \ {s} : On(list_head, s, a)[i] = list_head[i]
    BY <1>1, <1>3, <1>4, Added
  <2> QED BY <2>1, <2>2, Zenon
<1>6. timer \in [Addrs -> Timers]
  BY DEF Inv, TimerType
<1>7. /\ timer' \in [Addrs -> Timers]
      /\ timer'[a] = Armed(e, r, TRUE)
      /\ \A x \in Addrs \ {a} : timer'[x] = timer[x]
  <2>1. Armed(e, r, TRUE) \in Timers
    BY <1>1, ArmedType
  <2> QED BY <1>2, <1>6, <2>1
<1>8. Live' = Live \union {a}
  <2>1. timer'[a].live
    BY <1>1, <1>7, ArmedType
  <2> QED BY <1>7, <2>1 DEF Live
<1>9. Wheel(list_head') = Wheel(list_head) \union {a}
  BY <1>1, <1>5 DEF Wheel
<1>10. InDel' = InDel
  BY <1>2 DEF InDel
<1>11. InWheelOnce'
  <2>1. /\ Live' = Wheel(list_head') \union InDel'
        /\ Wheel(list_head') \intersect InDel' = {}
    BY <1>2, <1>3, <1>8, <1>9, <1>10
  <2> QED BY <1>5, <2>1, WheelOnceNext
<1>12. TypeOK' /\ RecordType'
  <2>1. \A x \in Live' :
          timer'[x].rotation \in 0..(timer'[x].expires \div slot_num)
    <3> TAKE x \in Live'
    <3>1. CASE x = a
      BY <1>1, <1>7, <3>1, ArmedType, Zenon
    <3>2. CASE x # a
      <4>1. x \in Live /\ x \in Addrs
        BY <1>8, <3>2 DEF Live
      <4>2. timer[x].rotation \in 0..(timer[x].expires \div slot_num)
        BY <4>1, Zenon DEF Inv, TypeOK
      <4> QED BY <1>7, <3>2, <4>1, <4>2
    <3> QED BY <3>1, <3>2
  <2>2. list_head' \in [Slots -> Seq(Addrs)]
    BY <1>5 DEF Lists
  <2> QED BY <1>2, <2>1, <2>2 DEF Inv, TypeOK, RecordType
<1>13. Lifetime'
  BY <1>2 DEF Inv, Lifetime
<1> DEFINE q == list_head[cur_slot]
           p == list_head'[cur_slot]
<1>14. /\ q \in Seq(Addrs) /\ a \notin ToSet(q)
       /\ p = q \/ p = Append(q, a)
  BY <1>3, <1>4, <1>5, SlotFacts DEF Wheel
<1>15. Cursor'
  <2>1. CASE ~Traversing
    BY <1>2, <2>1 DEF Cursor, Traversing
  <2>2. CASE Traversing /\ thr.pos # HEAD
    <3>1. PICK j \in 1..Len(q) : /\ thr.pos = q[j]
                                 /\ \/ thr.n = HEAD
                                    \/ j < Len(q) /\ thr.n = q[j + 1]
      BY <2>2, Zenon DEF Inv, Cursor
    <3> HIDE DEF q, p
    <3>2. j \in 1..Len(p) /\ p[j] = q[j]
      BY <1>14
    <3>3. j < Len(q) => j < Len(p) /\ p[j + 1] = q[j + 1]
      BY <1>14
    <3>4. \E k \in 1..Len(p) : /\ thr'.pos = p[k]
                               /\ \/ thr'.n = HEAD
                                  \/ k < Len(p) /\ thr'.n = p[k + 1]
      BY <1>2, <3>1, <3>2, <3>3, Zenon
    <3> QED BY <1>2, <3>4, Zenon DEF Cursor, p
  <2>3. CASE Traversing /\ thr.pos = HEAD
    <3>1. thr.pc = "callback"
      BY <2>3 DEF Traversing
    <3>2. \A j \in 1..Len(q) : thr.pos # q[j]
      BY <1>14, <2>3, TimerAssumption
    <3> QED BY <2>3, <3>1, <3>2 DEF Inv, Cursor
  <2> QED BY <2>1, <2>2, <2>3
<1>16. Timing'
  <2> SUFFICES ASSUME NEW i \in Slots, NEW x \in ToSet(list_head'[i]), Ticking'
               PROVE  \/ AtWork /\ x = thr.pos
                      \/ InTime(timer'[x], FiringAge(i, x)')
    BY <1>2, Zenon DEF Timing, InTime, AtWork
  <2>1. CASE x = a
    <3>1. Wait(i, x)' \in 0..slot_num
      BY <1>2, <1>3, WaitNext
    <3>2. FiringAge(i, x)' = 0 + Turns(e \div slot_num) + Wait(i, x)'
      <4>1. /\ timer'[x].age = 0
            /\ timer'[x].rotation = e \div slot_num
        <5>1. /\ Armed(e, r, TRUE).age = 0
              /\ Armed(e, r, TRUE).rotation = e \div slot_num
          BY <1>1, ArmedType
        <5> QED BY <1>7, <2>1, <5>1, Zenon
      <4> QED BY <4>1, Zenon DEF FiringAge, Turns
    <3>3. Turns(e \div slot_num) \in Nat /\ slot_num \in Nat
      BY <1>1, TurnsFacts
    <3>4. FiringAge(i, x)' = Turns(e \div slot_num) + Wait(i, x)'
      BY <3>1, <3>2, <3>3
    <3>5. InTime(Armed(e, r, TRUE), Turns(e \div slot_num) + Wait(i, x)')
      BY <1>1, <3>1, FirstInTime
    <3> QED BY <1>7, <2>1, <3>4, <3>5, Zenon
  <2>2. CASE x # a
    <3>1. x \in ToSet(list_head[i]) /\ x \in Addrs
      <4>1. x \in ToSet(list_head[i])
        BY <1>5, <2>2
      <4> QED BY <1>3, <4>1, WheelFacts
    <3>2. timer'[x] = timer[x]
      BY <1>7, <2>2, <3>1
    <3>3. Wait(i, x)' = Wait(i, x)
      <4>1. CASE Traversing
        <5>1. thr.n # a
          BY <1>2, <1>4, <4>1, InSlot, WheelFacts, TimerAssumption
             DEF TraversalInSlot
        <5>2. x \in AtOrAfter(p, thr.n) <=> x \in AtOrAfter(q, thr.n)
          BY <1>14, <2>2, <5>1, AfterAdded
        <5>3. x \in Ahead' <=> x \in Ahead
          BY <1>2, <5>2, Zenon DEF Ahead
        <5> QED BY <1>2, <5>3 DEF Wait, Traversing, Distance
      <4>2. CASE ~Traversing
        BY <1>2, <4>2 DEF Wait, Traversing, Distance
      <4> QED BY <4>1, <4>2
    <3>4. FiringAge(i, x)' = FiringAge(i, x)
      BY <3>2, <3>3 DEF FiringAge, Turns
    <3>5. (AtWork /\ x = thr.pos) \/ InTime(timer[x], FiringAge(i, x))
      BY <1>2, <3>1, Zenon DEF Inv, Timing, Ticking
    <3> QED BY <3>2, <3>4, <3>5, Zenon
  <2> QED BY <2>1, <2>2
<1>17. TimerType'
  BY <1>7 DEF TimerType
<1> QED BY <1>11, <1>12, <1>13, <1>15, <1>16, <1>17 DEF Inv

(* The wheel after list_del. *)
LEMMA TakenNext ==
  ASSUME Inv, NEW a \in Wheel(list_head), list_head' = Without(a)
  PROVE  /\ list_head' \in Lists
         /\ Apart(list_head')
         /\ \A i \in Slots : ToSet(list_head'[i]) = ToSet(list_head[i]) \ {a}
         /\ Wheel(list_head') = Wheel(list_head) \ {a}
<1>1. list_head' = Off(list_head, a)
  BY DEF Without, Off
<1>2. /\ Off(list_head, a) \in Lists
      /\ Apart(Off(list_head, a))
      /\ \A i \in Slots :
           ToSet(Off(list_head, a)[i]) = ToSet(list_head[i]) \ {a}
  BY WheelFacts, Taken
<1>3. Wheel(Off(list_head, a)) = Wheel(list_head) \ {a}
  BY <1>2 DEF Wheel
<1> QED BY <1>1, <1>2, <1>3, Zenon

(* The entry leaves the wheel now and is freed inside the mutex. *)
LEMMA DelStep ==
  ASSUME Inv, ~Racing, NEW a, HyTimerDel(a)
  PROVE  Inv'
<1>1. /\ client.pc = "idle" /\ thr.pc = "sleep" /\ a \in InWheel
      /\ list_head' = Without(a)
      /\ client' = [pc |-> "free", addr |-> a]
      /\ held' = held \ {a}
      /\ UNCHANGED <<context, exit_flag, cur_slot, timer, thr>>
  BY DEF HyTimerDel, ClientMay
<1>2. /\ Live = Wheel(list_head) \union InDel
      /\ Wheel(list_head) \subseteq Addrs
      /\ a \in Wheel(list_head)
  BY <1>1, WheelFacts DEF InWheel, Wheel
<1>3. /\ list_head' \in Lists
      /\ Apart(list_head')
      /\ \A i \in Slots : ToSet(list_head'[i]) = ToSet(list_head[i]) \ {a}
      /\ Wheel(list_head') = Wheel(list_head) \ {a}
  BY <1>1, <1>2, TakenNext
<1>4. Live' = Live
  BY <1>1 DEF Live
<1>5. InWheelOnce'
  <2>1. InDel = {} /\ InDel' = {a}
    BY <1>1 DEF InDel
  <2> QED BY <1>2, <1>3, <1>4, <2>1, WheelOnceNext
<1>6. TypeOK' /\ RecordType' /\ TimerType'
  BY <1>1, <1>2, <1>3, <1>4 DEF Inv, TypeOK, RecordType, TimerType, Lists
<1>7. Lifetime' /\ Cursor'
  BY <1>1, <1>2 DEF Inv, Lifetime, Cursor, Traversing
<1>8. Timing'
  <2> SUFFICES ASSUME NEW i \in Slots, NEW x \in ToSet(list_head'[i])
               PROVE  InTime(timer[x], FiringAge(i, x)')
    BY <1>1, Zenon DEF Timing, InTime
  <2>1. x \in ToSet(list_head[i])
    BY <1>3
  <2>2. InTime(timer[x], FiringAge(i, x))
    BY <1>1, <2>1 DEF Inv, Timing, Ticking, AtWork
  <2>3. FiringAge(i, x)' = FiringAge(i, x)
    BY <1>1 DEF FiringAge, Turns, Wait, Traversing, Distance
  <2> QED BY <2>2, <2>3
<1> QED BY <1>5, <1>6, <1>7, <1>8 DEF Inv

(* The entry that is freed has left the wheel. *)
LEMMA DelFreeStep ==
  ASSUME Inv, HyTimerDelFree
  PROVE  Inv'
<1> DEFINE a == client.addr
<1>1. /\ client.pc = "free" /\ thr.pc = "sleep" /\ a \in Addrs
      /\ timer' = [timer EXCEPT ![a] = Freed]
      /\ client' = NoCall
      /\ UNCHANGED <<context, exit_flag, cur_slot, list_head, thr, held>>
  BY DEF HyTimerDelFree, Inv, Lifetime
<1> HIDE DEF a
<1>2. /\ list_head \in Lists /\ Apart(list_head)
      /\ Live = Wheel(list_head) \union InDel
      /\ Wheel(list_head) \intersect InDel = {}
      /\ Wheel(list_head) \subseteq Addrs
      /\ \A i \in Slots : ToSet(list_head[i]) \subseteq Wheel(list_head)
  BY WheelFacts
<1>3. InDel = {a} /\ InDel' = {}
  BY <1>1 DEF InDel, NoCall, a
<1>4. /\ timer \in [Addrs -> Timers]
      /\ timer' \in [Addrs -> Timers]
      /\ timer'[a] = Freed
      /\ \A x \in Addrs \ {a} : timer'[x] = timer[x]
  BY <1>1, FreedType DEF Inv, TimerType
<1>5. Live' = Live \ {a}
  <2>1. ~timer'[a].live
    BY <1>4, FreedType
  <2> QED BY <1>4, <2>1 DEF Live
<1>6. InWheelOnce'
  <2>1. Apart(list_head')
    BY <1>1, <1>2, Zenon
  <2>2. Wheel(list_head') = Wheel(list_head)
    BY <1>1, Zenon
  <2> QED BY <1>2, <1>3, <1>5, <2>1, <2>2, WheelOnceNext
<1>7. TypeOK' /\ RecordType' /\ TimerType'
  <2>1. \A x \in Live' :
          timer'[x].rotation \in 0..(timer'[x].expires \div slot_num)
    BY <1>4, <1>5 DEF Inv, TypeOK, Live
  <2> QED BY <1>1, <1>4, <2>1 DEF Inv, TypeOK, RecordType, TimerType, NoCall
<1>8. Lifetime' /\ Cursor'
  BY <1>1 DEF Inv, Lifetime, Cursor, Traversing, NoCall
<1>9. Timing'
  <2> SUFFICES ASSUME NEW i \in Slots, NEW x \in ToSet(list_head[i])
               PROVE  InTime(timer'[x], FiringAge(i, x)')
    BY <1>1, Zenon DEF Timing, InTime
  <2>1. x \in Addrs \ {a}
    BY <1>2, <1>3
  <2>2. InTime(timer[x], FiringAge(i, x))
    BY <1>1 DEF Inv, Timing, Ticking, AtWork
  <2>3. timer'[x] = timer[x]
    BY <1>4, <2>1
  <2>4. FiringAge(i, x)' = FiringAge(i, x)
    BY <1>1, <2>3 DEF FiringAge, Turns, Wait, Traversing, Distance
  <2> QED BY <2>2, <2>3, <2>4
<1> QED BY <1>6, <1>7, <1>8, <1>9 DEF Inv

(* A callback that deletes waits for its own mutex ever after. *)
LEMMA CallbackDelStep ==
  ASSUME Inv, ~Racing, NEW a, CallbackDel(a)
  PROVE  Inv'
<1>1. /\ thr.pc = "callback" /\ a \in InWheel
      /\ list_head' = Without(a)
      /\ thr' = [thr EXCEPT !.pc = "stuck", !.pos = a]
      /\ UNCHANGED <<context, exit_flag, cur_slot, timer, client, held>>
  BY DEF CallbackDel
<1>2. /\ Live = Wheel(list_head) \union InDel
      /\ Wheel(list_head) \subseteq Addrs
      /\ a \in Wheel(list_head)
  BY <1>1, WheelFacts DEF InWheel, Wheel
<1>3. /\ list_head' \in Lists
      /\ Apart(list_head')
      /\ Wheel(list_head') = Wheel(list_head) \ {a}
  BY <1>1, <1>2, TakenNext
<1>4. Live' = Live
  BY <1>1 DEF Live
<1>5. thr'.pc = "stuck" /\ thr'.pos = a /\ client.pc # "free" /\ context
  BY <1>1 DEF Inv, Lifetime, RecordType
<1>6. InWheelOnce'
  <2>1. InDel = {} /\ InDel' = {a}
    BY <1>1, <1>5 DEF InDel
  <2> QED BY <1>2, <1>3, <1>4, <2>1, WheelOnceNext
<1>7. TypeOK' /\ RecordType' /\ TimerType'
  BY <1>1, <1>2, <1>3, <1>4
     DEF Inv, TypeOK, RecordType, TimerType, Lists, ThrPc
<1>8. Lifetime' /\ Cursor' /\ Timing'
  BY <1>1, <1>5 DEF Lifetime, Cursor, Traversing, Timing, Ticking
<1> QED BY <1>6, <1>7, <1>8 DEF Inv

(* The timers that are left are freed with the wheel. *)
LEMMA DestroyJoinStep ==
  ASSUME Inv, DestroyJoin
  PROVE  Inv'
<1>1. /\ client.pc = "join" /\ thr.pc = "ended"
      /\ timer' = [a \in Addrs |-> IF a \in InWheel THEN Freed ELSE timer[a]]
      /\ context' = FALSE /\ exit_flag' = FALSE /\ cur_slot' = 0
      /\ list_head' = EmptyList
      /\ thr' = NoThread /\ client' = NoCall /\ held' = {}
  BY DEF DestroyJoin
<1>2. /\ Live = Wheel(list_head) \union InDel
      /\ InWheel = Wheel(list_head)
  BY WheelFacts DEF InWheel, Wheel
<1>3. InDel = {} /\ InDel' = {}
  BY <1>1 DEF InDel, NoThread, NoCall
<1>4. timer' \in [Addrs -> Timers]
  BY <1>1, FreedType DEF Inv, TimerType
<1>5. Live' = {}
  <2>1. ASSUME NEW a \in Addrs PROVE ~timer'[a].live
    <3>1. CASE a \in InWheel
      BY <1>1, <3>1, FreedType
    <3>2. CASE a \notin InWheel
      <4>1. ~timer[a].live
        BY <1>2, <1>3, <3>2 DEF Live
      <4>2. timer'[a] = timer[a]
        BY <1>1, <3>2
      <4> QED BY <4>1, <4>2, Zenon
    <3> QED BY <3>1, <3>2
  <2> QED BY <2>1 DEF Live
<1>6. /\ list_head' \in Lists
      /\ \A i \in Slots : list_head'[i] = <<>> /\ ToSet(list_head'[i]) = {}
  BY <1>1 DEF EmptyList, Lists, ToSet
<1>7. InWheelOnce'
  <2>1. Wheel(list_head') = {} /\ Apart(list_head')
    BY <1>6 DEF Wheel, Apart
  <2> QED BY <1>3, <1>5, <2>1, WheelOnceNext
<1>8. TypeOK' /\ RecordType' /\ TimerType'
  <2>1. 0 \in Slots
    BY TurnsFacts DEF Slots
  <2> QED BY <1>1, <1>4, <1>5, <1>6, <2>1
          DEF TypeOK, RecordType, TimerType, Lists, NoThread, NoCall, ThrPc
<1>9. Lifetime' /\ Cursor' /\ Timing'
  BY <1>1 DEF Lifetime, Cursor, Traversing, Timing, Ticking, NoThread, NoCall
<1> QED BY <1>7, <1>8, <1>9 DEF Inv

-----------------------------------------------------------------------------
(* A tick begins and ends.                                                 *)

(* Types of a timer that is in the wheel. *)
LEMMA TimerFacts ==
  ASSUME Inv, NEW i \in Slots, NEW x \in ToSet(list_head[i])
  PROVE  /\ x \in Addrs /\ x \in Live /\ x # HEAD
         /\ timer[x] \in Timers
         /\ timer[x].age \in Nat
         /\ Turns(timer[x].rotation) \in Nat
         /\ Wait(i, x) \in 0..slot_num
         /\ FiringAge(i, x) \in Nat
<1>1. x \in Live
  BY SlotFacts
<1>2. x \in Addrs /\ x # HEAD
  BY <1>1, TimerAssumption DEF Live
<1>3. timer[x] \in Timers
  BY <1>2 DEF Inv, TimerType
<1>4. timer[x].age \in Nat /\ timer[x].rotation \in Nat
  BY <1>3 DEF Timers
<1>5. Turns(timer[x].rotation) \in Nat
  BY <1>4, TurnsFacts
<1>6. Wait(i, x) \in 0..slot_num /\ slot_num \in Nat
  BY WheelFacts, WaitIs, TurnsFacts
<1>7. \A u, v \in Nat, w \in 0..slot_num : u + v + w \in Nat
  BY <1>6
<1>8. FiringAge(i, x) \in Nat
  BY <1>4, <1>5, <1>6, <1>7, Zenon DEF FiringAge
<1> QED BY <1>1, <1>2, <1>3, <1>4, <1>5, <1>6, <1>8

(* Every timer is a tick older and has one less to wait. *)
LEMMA TickStep ==
  ASSUME Inv, ~Racing, Tick
  PROVE  Inv'
<1> DEFINE q == list_head[cur_slot]
<1>1. /\ thr.pc = "sleep" /\ client.pc # "free"
      /\ timer' = [a \in Addrs |->
                    IF a \in Live THEN Older(timer[a]) ELSE timer[a]]
      /\ thr' = [pc |-> "visit", pos |-> FirstEntry(q),
                 n |-> NextEntry(q, FirstEntry(q))]
      /\ UNCHANGED <<context, exit_flag, cur_slot, list_head, client, held>>
  BY DEF Tick
<1>2. /\ q \in Seq(Addrs)
      /\ \A k, m \in 1..Len(q) : q[k] = q[m] => k = m
      /\ cur_slot \in Slots
  BY WheelFacts, SlotFacts
<1> HIDE DEF q
<1>3. timer \in [Addrs -> Timers]
  BY DEF Inv, TimerType
<1>4. ASSUME NEW a \in Addrs
      PROVE  /\ timer'[a] \in Timers
             /\ timer'[a].live = timer[a].live
             /\ timer'[a].expires = timer[a].expires
             /\ timer'[a].rotation = timer[a].rotation
             /\ timer'[a].first = timer[a].first
             /\ a \in Live /\ timer[a].age < AgeCap(timer[a])
                  => timer'[a].age = timer[a].age + 1
  <2>1. timer[a] \in Timers
    BY <1>3
  <2>2. CASE a \in Live
    <3>1. timer'[a] = [timer[a] EXCEPT
                        !.age = IF @ < AgeCap(timer[a]) THEN @ + 1 ELSE @]
      BY <1>1, <2>2 DEF Older
    <3> QED BY <2>1, <2>2, <3>1 DEF Timers
  <2>3. CASE a \notin Live
    <3>1. timer'[a] = timer[a]
      BY <1>1, <2>3
    <3> QED BY <2>1, <2>3, <3>1
  <2> QED BY <2>2, <2>3
<1>5. timer' \in [Addrs -> Timers]
  BY <1>1, <1>4
<1>6. Live' = Live
  BY <1>4 DEF Live
<1>7. \/ Len(q) = 0 /\ thr'.pos = HEAD /\ thr'.n = HEAD
      \/ /\ Len(q) > 0 /\ thr'.pos = q[1]
         /\ thr'.n = NextEntry(q, q[1])
         /\ thr'.n = IF 1 < Len(q) THEN q[1 + 1] ELSE HEAD
  <2>1. CASE q = <<>>
    <3>1. FirstEntry(q) = HEAD /\ Len(q) = 0
      BY <2>1 DEF FirstEntry
    <3> QED BY <1>1, <1>2, <3>1, NextOfHead
  <2>2. CASE q # <<>>
    <3>1. FirstEntry(q) = q[1] /\ Len(q) > 0 /\ 1 \in 1..Len(q)
      BY <1>2, <2>2 DEF FirstEntry
    <3>2. NextEntry(q, q[1]) = IF 1 < Len(q) THEN q[1 + 1] ELSE HEAD
      BY <1>2, <3>1, NextIs
    <3> QED BY <1>1, <3>1, <3>2
  <2> QED BY <2>1, <2>2
<1>8. thr' \in [pc : ThrPc, pos : Addrs \union {HEAD}, n : Addrs \union {HEAD}]
  <2>1. {thr'.pos, thr'.n} \subseteq Addrs \union {HEAD}
    BY <1>2, <1>7
  <2> QED BY <1>1, <2>1 DEF ThrPc
<1>9. InWheelOnce'
  <2>1. InDel' = InDel
    BY <1>1 DEF InDel
  <2>2. InWheel' = InWheel
    BY <1>1 DEF InWheel
  <2> QED BY <1>1, <1>6, <2>1, <2>2 DEF Inv, InWheelOnce
<1>10. TypeOK' /\ RecordType' /\ TimerType'
  <2>1. \A a \in Live' :
          timer'[a].rotation \in 0..(timer'[a].expires \div slot_num)
    BY <1>4, <1>6 DEF Inv, TypeOK, Live
  <2> QED BY <1>1, <1>5, <1>8, <2>1 DEF Inv, TypeOK, RecordType, TimerType
<1>11. Lifetime'
  BY <1>1 DEF Inv, Lifetime
<1>12. Cursor'
  <2>1. list_head'[cur_slot'] = q /\ thr'.pc = "visit"
    BY <1>1 DEF q
  <2>2. CASE Len(q) > 0
    <3>1. 1 \in 1..Len(q)
      BY <1>2, <2>2
    <3> QED BY <1>7, <2>1, <2>2, <3>1 DEF Cursor
  <2>3. CASE ~(Len(q) > 0)
    BY <1>7, <2>1, <2>3, Zenon DEF Cursor
  <2> QED BY <2>2, <2>3
<1>13. Timing'
  <2> SUFFICES ASSUME NEW i \in Slots, NEW x \in ToSet(list_head[i])
               PROVE  InTime(timer'[x], FiringAge(i, x)')
    BY <1>1, Zenon DEF Timing, InTime
  <2>1. /\ x \in Addrs /\ x \in Live
        /\ timer[x] \in Timers /\ timer[x].age \in Nat
        /\ Turns(timer[x].rotation) \in Nat /\ FiringAge(i, x) \in Nat
    BY TimerFacts
  <2>2. InTime(timer[x], FiringAge(i, x))
    BY <1>1 DEF Inv, Timing, Ticking, AtWork
  <2>3. Distance(i) \in 0..(slot_num - 1) /\ (Distance(i) = 0 <=> i = cur_slot)
        /\ slot_num \in Nat
    BY <1>2, DistanceIs, TurnsFacts
  <2>4. Wait(i, x) = Distance(i) + 1
    BY <1>1 DEF Wait, Traversing
  <2>5. timer'[x].age = timer[x].age + 1
    <3>1. timer[x].expires \in Nat
      BY <2>1 DEF Timers
    <3>2. FiringAge(i, x) <= timer[x].expires + slot_num
      BY <2>1, <2>2, <3>1, InTimeBound
    <3>3. FiringAge(i, x)
            = timer[x].age + Turns(timer[x].rotation) + (Distance(i) + 1)
      BY <2>4 DEF FiringAge
    <3>4. timer[x].age < timer[x].expires + slot_num + 1
      BY <2>1, <2>3, <3>1, <3>2, <3>3
    <3> QED BY <1>4, <2>1, <3>4 DEF AgeCap
  <2>6. Wait(i, x)' = Distance(i)
    <3>1. CASE i # cur_slot
      BY <1>1, <3>1 DEF Wait, Traversing, Distance
    <3>2. CASE i = cur_slot
      <4>1. x \in ToSet(q)
        BY <3>2 DEF q
      <4>2. Len(q) > 0
        BY <1>2, <4>1 DEF ToSet
      <4>3. AtOrAfter(q, q[1]) = ToSet(q) /\ 1 \in 1..Len(q)
        BY <1>2, <4>2, AllAhead
      <4>4. x = q[1] \/ x \in AtOrAfter(q, NextEntry(q, q[1]))
        BY <1>2, <4>1, <4>3, GoesOn
      <4>5. x \in Ahead'
        BY <1>1, <1>7, <4>2, <4>4 DEF Ahead, q
      <4> QED BY <1>1, <2>3, <3>2, <4>5 DEF Wait, Traversing
    <3> QED BY <3>1, <3>2
  <2>7. FiringAge(i, x)' = FiringAge(i, x)
    <3>1. timer'[x].rotation = timer[x].rotation
      BY <1>4, <2>1
    <3>2. FiringAge(i, x)'
            = (timer[x].age + 1) + Turns(timer[x].rotation) + Distance(i)
      BY <2>5, <2>6, <3>1 DEF FiringAge, Turns
    <3>3. FiringAge(i, x)
            = timer[x].age + Turns(timer[x].rotation) + (Distance(i) + 1)
      BY <2>4 DEF FiringAge
    <3> QED BY <2>1, <2>3, <3>2, <3>3
  <2>8. timer'[x].first = timer[x].first /\ timer'[x].expires = timer[x].expires
    BY <1>4, <2>1
  <2> QED BY <2>2, <2>7, <2>8, SameInTime
<1> QED BY <1>9, <1>10, <1>11, <1>12, <1>13 DEF Inv

(* The slot that was visited comes again in slot_num ticks. *)
LEMMA EndTickStep ==
  ASSUME Inv, EndTick
  PROVE  Inv'
<1>1. /\ thr.pc = "visit" /\ thr.pos = HEAD
      /\ cur_slot' = (cur_slot + 1) % slot_num
      /\ thr' = [pc |-> "top", pos |-> HEAD, n |-> HEAD]
      /\ UNCHANGED <<context, exit_flag, list_head, timer, client, held>>
  BY DEF EndTick, NoThread
<1>2. cur_slot \in Slots /\ slot_num \in Nat \ {0}
  BY WheelFacts, TurnsFacts
<1>3. cur_slot' = IF cur_slot + 1 = slot_num THEN 0 ELSE cur_slot + 1
  <2>1. cur_slot \in 0..(slot_num - 1)
    BY <1>2 DEF Slots
  <2>2. (cur_slot + 1) % slot_num
          = IF cur_slot + 1 = slot_num THEN 0 ELSE cur_slot + 1
    BY <1>2, <2>1, SMT
  <2> QED BY <1>1, <2>2
<1>4. cur_slot' \in Slots
  BY <1>2, <1>3 DEF Slots
<1>5. InDel' = InDel
  BY <1>1 DEF InDel
<1>6. InWheelOnce' /\ TimerType' /\ Live' = Live
  BY <1>1, <1>5, KeepsWheel
<1>7. TypeOK' /\ RecordType'
  BY <1>1, <1>4, <1>6 DEF Inv, TypeOK, RecordType, ThrPc
<1>8. Lifetime' /\ Cursor'
  BY <1>1 DEF Inv, Lifetime, Cursor, Traversing
<1>9. Timing'
  <2>1. ASSUME NEW i \in Slots, NEW x \in ToSet(list_head[i])
        PROVE  Wait(i, x)' = Wait(i, x)
    <3>1. x # HEAD
      BY TimerFacts
    <3>2. x \notin Ahead
      <4>1. thr.n = HEAD
        BY <1>1, CursorAtEnd DEF Traversing
      <4>2. AtOrAfter(list_head[cur_slot], HEAD) = {}
        BY <1>2, SlotFacts, NextOfHead
      <4> QED BY <1>1, <3>1, <4>1, <4>2 DEF Ahead
    <3>3. Wait(i, x) = IF i # cur_slot THEN Distance(i) ELSE slot_num
      BY <1>1, <3>2 DEF Wait, Traversing
    <3>4. PICK c \in Slots : c = cur_slot'
      BY <1>4, Zenon
    <3>5. Wait(i, x)' = (IF c <= i THEN i - c ELSE i - c + slot_num) + 1
      BY <1>1, <3>4 DEF Wait, Traversing, Distance
    <3> QED BY <1>2, <1>3, <3>3, <3>4, <3>5 DEF Distance, Slots
  <2>2. Ticking /\ ~AtWork
    BY <1>1 DEF Ticking, AtWork
  <2> QED BY <1>1, <2>1, <2>2, KeepsTiming
<1> QED BY <1>6, <1>7, <1>8, <1>9 DEF Inv

-----------------------------------------------------------------------------
(* On to the cached entry.                                                 *)

(* What list_del takes out does not change who comes behind whom. *)
LEMMA AfterRemoved ==
  ASSUME NEW q \in Seq(Addrs), NEW j \in 1..Len(q),
         \A k, m \in 1..Len(q) : q[k] = q[m] => k = m,
         NEW n, n # q[j], NEW x, x # q[j]
  PROVE  x \in AtOrAfter(RemoveFirst(q, q[j]), n) <=> x \in AtOrAfter(q, n)
<1> DEFINE r == RemoveFirst(q, q[j])
<1>1. /\ r \in Seq(Addrs)
      /\ Len(r) = Len(q) - 1
      /\ \A k \in 1..(Len(q) - 1) : r[k] = IF k < j THEN q[k] ELSE q[k + 1]
  BY Removed
<1> HIDE DEF r
<1>2. DOMAIN r = 1..Len(r) /\ DOMAIN q = 1..Len(q) /\ Len(q) \in Nat
  BY <1>1
<1>3. ASSUME x \in AtOrAfter(q, n) PROVE x \in AtOrAfter(r, n)
  <2>1. PICK m \in 1..Len(q) : \E k \in m..Len(q) : q[m] = n /\ q[k] = x
    BY <1>3, Zenon DEF AtOrAfter
  <2>2. PICK k \in m..Len(q) : q[m] = n /\ q[k] = x
    BY <2>1
  <2>3. m # j /\ k # j
    BY <2>2
  <2> DEFINE m1 == IF m < j THEN m ELSE m - 1
             k1 == IF k < j THEN k ELSE k - 1
  <2>4. /\ m1 \in 1..(Len(q) - 1) /\ k1 \in 1..(Len(q) - 1) /\ m1 <= k1
        /\ (IF m1 < j THEN m1 ELSE m1 + 1) = m
        /\ (IF k1 < j THEN k1 ELSE k1 + 1) = k
    BY <1>2, <2>2, <2>3
  <2> HIDE DEF m1, k1
  <2>5. r[m1] = n /\ r[k1] = x
    BY <1>1, <2>2, <2>4
  <2>6. m1 \in 1..Len(r) /\ k1 \in m1..Len(r) /\ k1 \in 1..Len(r)
    BY <1>1, <1>2, <2>4
  <2>7. x \in ToSet(r)
    BY <1>2, <2>5, <2>6, Zenon DEF ToSet
  <2> QED BY <2>5, <2>6, <2>7, Zenon DEF AtOrAfter
<1>4. ASSUME x \in AtOrAfter(r, n) PROVE x \in AtOrAfter(q, n)
  <2>1. PICK m \in 1..Len(r) : \E k \in m..Len(r) : r[m] = n /\ r[k] = x
    BY <1>4, Zenon DEF AtOrAfter
  <2>2. PICK k \in m..Len(r) : r[m] = n /\ r[k] = x
    BY <2>1
  <2> DEFINE m1 == IF m < j THEN m ELSE m + 1
             k1 == IF k < j THEN k ELSE k + 1
  <2>3. m \in 1..(Len(q) - 1) /\ k \in 1..(Len(q) - 1) /\ m <= k
    BY <1>1, <1>2, <2>2
  <2>4. m1 \in 1..Len(q) /\ k1 \in m1..Len(q) /\ k1 \in 1..Len(q)
    BY <1>2, <2>3
  <2>5. r[m] = q[m1] /\ r[k] = q[k1]
    BY <1>1, <2>3
  <2> HIDE DEF m1, k1
  <2>6. q[m1] = n /\ q[k1] = x
    BY <2>2, <2>5, Zenon
  <2>7. x \in ToSet(q)
    BY <1>2, <2>4, <2>6, Zenon DEF ToSet
  <2> QED BY <2>4, <2>6, <2>7, Zenon DEF AtOrAfter
<1> QED BY <1>3, <1>4 DEF r

(* Those still ahead are then the cached entry and those behind it. *)
LEMMA AdvanceNext ==
  ASSUME Inv, UNCHANGED cur_slot, list_head' \in Lists, Apart(list_head'),
         thr' = Advance, thr.n \in ToSet(list_head'[cur_slot]) \union {HEAD}
  PROVE  /\ Cursor'
         /\ thr'.pc = "visit"
         /\ thr' \in [pc : ThrPc, pos : Addrs \union {HEAD},
                      n : Addrs \union {HEAD}]
         /\ \A x \in Addrs :
              x \in Ahead' <=> x \in AtOrAfter(list_head'[cur_slot], thr.n)
<1> DEFINE q == list_head'[cur_slot]
           m == NextEntry(q, thr.n)
<1>1. /\ q \in Seq(Addrs)
      /\ \A i, k \in 1..Len(q) : q[i] = q[k] => i = k
      /\ cur_slot \in Slots
  BY WheelFacts, Once
<1>2. thr' = [pc |-> "visit", pos |-> thr.n, n |-> m]
  BY DEF Advance
<1>3. Ahead' = AtOrAfter(q, thr'.n) \union {thr'.pos}
  BY <1>2 DEF Ahead
<1>4. CASE thr.n = HEAD
  <2>1. m = HEAD /\ AtOrAfter(q, HEAD) = {}
    BY <1>1, <1>4, NextOfHead
  <2>2. Cursor'
    BY <1>2, <1>4, <2>1 DEF Cursor
  <2>3. \A x \in Addrs : x \in Ahead' <=> x \in AtOrAfter(q, thr.n)
    BY <1>2, <1>3, <1>4, <2>1, TimerAssumption
  <2> QED BY <1>2, <1>4, <2>1, <2>2, <2>3 DEF ThrPc
<1>5. CASE thr.n \in ToSet(q)
  <2>1. PICK j \in 1..Len(q) : q[j] = thr.n
    BY <1>1, <1>5 DEF ToSet
  <2>2. m = IF j < Len(q) THEN q[j + 1] ELSE HEAD
    BY <1>1, <2>1, NextIs
  <2>3. Cursor'
    <3> HIDE DEF m
    <3>1. /\ thr'.pos = q[j]
          /\ thr'.n = HEAD \/ (j < Len(q) /\ thr'.n = q[j + 1])
      BY <1>2, <2>1, <2>2
    <3> QED BY <3>1, Zenon DEF Cursor
  <2>4. \A x : x \in AtOrAfter(q, thr.n) <=> x = thr.n \/ x \in AtOrAfter(q, m)
    BY <1>1, <2>1, GoesOn
  <2>5. m \in Addrs \union {HEAD} /\ thr.n \in Addrs
    BY <1>1, <2>1, <2>2
  <2> QED BY <1>2, <1>3, <2>3, <2>4, <2>5 DEF ThrPc
<1> QED BY <1>4, <1>5

(* The timer at the cursor is not behind it. *)
LEMMA NotBehind ==
  ASSUME Inv, Traversing, thr.pos # HEAD
  PROVE  thr.pos \notin AtOrAfter(list_head[cur_slot], thr.n)
<1> DEFINE q == list_head[cur_slot]
<1>1. PICK j \in 1..Len(q) : /\ thr.pos = q[j]
                             /\ thr.n = HEAD \/ (j < Len(q) /\ thr.n = q[j + 1])
  BY Zenon DEF Inv, Cursor
<1>2. /\ q \in Seq(Addrs)
      /\ \A k, m \in 1..Len(q) : q[k] = q[m] => k = m
  BY WheelFacts, SlotFacts
<1> HIDE DEF q
<1>3. CASE thr.n = HEAD
  BY <1>2, <1>3, NextOfHead DEF q
<1>4. CASE j < Len(q) /\ thr.n = q[j + 1]
  <2>1. j + 1 \in 1..Len(q) /\ ~(j + 1 <= j)
    BY <1>2, <1>4
  <2>2. q[j] \notin AtOrAfter(q, q[j + 1])
    BY <1>2, <2>1, AfterIs
  <2> QED BY <1>1, <1>4, <2>2, Zenon DEF q
<1> QED BY <1>1, <1>3, <1>4

(* A rotation less, and another revolution to wait. *)
LEMMA PassStep ==
  ASSUME Inv, Pass
  PROVE  Inv'
<1> DEFINE a == thr.pos
<1>1. /\ thr.pc = "visit" /\ a # HEAD /\ timer[a].rotation > 0
      /\ timer' = [timer EXCEPT ![a].rotation = @ - 1]
      /\ thr' = Advance
      /\ UNCHANGED <<context, exit_flag, cur_slot, list_head, client, held>>
  BY DEF Pass
<1>2. Traversing
  BY <1>1 DEF Traversing
<1>3. /\ a \in ToSet(list_head[cur_slot]) /\ a \in Addrs
      /\ thr.n \in ToSet(list_head[cur_slot]) \union {HEAD}
  BY <1>1, <1>2, CursorFacts
<1>4. /\ list_head \in Lists /\ Apart(list_head) /\ cur_slot \in Slots
      /\ \A i \in Slots : ToSet(list_head[i]) \subseteq Wheel(list_head)
  BY WheelFacts
<1>5. /\ Cursor'
      /\ thr'.pc = "visit"
      /\ thr' \in [pc : ThrPc, pos : Addrs \union {HEAD},
                   n : Addrs \union {HEAD}]
      /\ \A x \in Addrs :
           x \in Ahead' <=> x \in AtOrAfter(list_head[cur_slot], thr.n)
  <2>1. list_head' \in Lists /\ Apart(list_head')
    BY <1>1, <1>4, Zenon
  <2> QED BY <1>1, <1>3, <2>1, AdvanceNext
<1> HIDE DEF a
<1>6. timer \in [Addrs -> Timers] /\ timer[a] \in Timers
  BY <1>3 DEF Inv, TimerType
<1>7. timer[a].rotation - 1 \in Nat
  BY <1>1, <1>6 DEF Timers
<1>8. /\ timer'[a] = [timer[a] EXCEPT !.rotation = @ - 1]
      /\ \A x \in Addrs \ {a} : timer'[x] = timer[x]
      /\ timer' \in [Addrs -> Timers]
  BY <1>1, <1>3, <1>6, <1>7 DEF Timers
<1>9. /\ timer'[a].rotation = timer[a].rotation - 1
      /\ timer'[a].age = timer[a].age
      /\ timer'[a].live = timer[a].live
      /\ timer'[a].expires = timer[a].expires
      /\ timer'[a].first = timer[a].first
  BY <1>6, <1>8 DEF Timers
<1>10. Live' = Live
  BY <1>8, <1>9 DEF Live
<1>11. InWheelOnce'
  <2>1. InDel' = InDel
    BY <1>1, <1>5 DEF InDel
  <2>2. InWheel' = InWheel
    BY <1>1 DEF InWheel
  <2> QED BY <1>1, <1>10, <2>1, <2>2 DEF Inv, InWheelOnce
<1>12. TypeOK' /\ RecordType' /\ TimerType'
  <2>1. \A x \in Live' :
          timer'[x].rotation \in 0..(timer'[x].expires \div slot_num)
    <3> TAKE x \in Live'
    <3>1. /\ timer[x].rotation \in 0..(timer[x].expires \div slot_num)
          /\ x \in Addrs
      BY <1>10 DEF Inv, TypeOK, Live
    <3>2. CASE x = a
      <4>1. PICK d : d = timer[a].expires \div slot_num
        OBVIOUS
      <4>2. timer[a].rotation - 1 \in 0..d
        BY <1>7, <3>1, <3>2, <4>1
      <4> QED BY <1>9, <3>2, <4>1, <4>2, Zenon
    <3>3. CASE x # a
      BY <1>8, <3>1, <3>3
    <3> QED BY <3>2, <3>3
  <2> QED BY <1>1, <1>5, <1>8, <2>1 DEF Inv, TypeOK, RecordType, TimerType
<1>13. Lifetime'
  BY <1>1 DEF Inv, Lifetime
<1>14. Timing'
  <2> SUFFICES ASSUME NEW i \in Slots, NEW x \in ToSet(list_head[i])
               PROVE  InTime(timer'[x], FiringAge(i, x)')
    BY <1>1, Zenon DEF Timing, InTime
  <2>1. /\ x \in Addrs /\ timer[x].age \in Nat
        /\ Turns(timer[x].rotation) \in Nat
    BY TimerFacts
  <2>2. InTime(timer[x], FiringAge(i, x))
    BY <1>1 DEF Inv, Timing, Ticking, AtWork
  <2>3. x \in Ahead <=> x = a \/ x \in AtOrAfter(list_head[cur_slot], thr.n)
    BY <1>1 DEF Ahead, a
  <2>4. x \in Ahead' <=> x \in AtOrAfter(list_head[cur_slot], thr.n)
    BY <1>5, <2>1
  <2>5. CASE x # a
    <3>1. timer'[x] = timer[x]
      BY <1>8, <2>1, <2>5
    <3>2. Wait(i, x)' = Wait(i, x)
      BY <1>1, <1>2, <1>5, <2>3, <2>4, <2>5 DEF Wait, Traversing, Distance
    <3>3. FiringAge(i, x)' = FiringAge(i, x)
      BY <3>1, <3>2 DEF FiringAge, Turns
    <3> QED BY <2>2, <3>1, <3>3
  <2>6. CASE x = a
    <3>1. i = cur_slot
      BY <1>3, <1>4, <2>6, OneSlot
    <3>2. Wait(i, x) = 0
      BY <1>2, <2>3, <2>6, <3>1 DEF Wait
    <3>3. x \notin Ahead'
      BY <1>1, <1>2, <2>4, <2>6, NotBehind DEF a
    <3>4. Wait(i, x)' = slot_num
      BY <1>1, <1>5, <3>1, <3>3 DEF Wait, Traversing
    <3>5. /\ Turns(timer[a].rotation - 1) = Turns(timer[a].rotation) - slot_num
          /\ slot_num \in Nat
      BY <1>1, <1>6, TurnsFacts DEF Timers
    <3>6. FiringAge(i, x)' =
            timer[a].age + (Turns(timer[a].rotation) - slot_num) + slot_num
      BY <1>9, <2>6, <3>4, <3>5 DEF FiringAge, Turns
    <3>7. FiringAge(i, x) = timer[a].age + Turns(timer[a].rotation) + 0
      BY <2>6, <3>2 DEF FiringAge
    <3>8. FiringAge(i, x)' = FiringAge(i, x)
      BY <2>1, <2>6, <3>5, <3>6, <3>7
    <3> QED BY <1>9, <2>2, <2>6, <3>8, SameInTime
  <2> QED BY <2>5, <2>6
<1> QED BY <1>5, <1>11, <1>12, <1>13, <1>14 DEF Inv

(* The timer at the cursor leaves the slot; the rest is as it was. *)
LEMMA HandledNext ==
  ASSUME Inv, thr.pc = "after",
         NEW M, M = Without(thr.pos)
  PROVE  /\ thr.pos \in Addrs /\ thr.pos \in ToSet(list_head[cur_slot])
         /\ M \in Lists /\ Apart(M)
         /\ \A i \in Slots : ToSet(M[i]) = ToSet(list_head[i]) \ {thr.pos}
         /\ Wheel(M) = Wheel(list_head) \ {thr.pos}
         /\ thr.n # thr.pos
         /\ thr.n \in ToSet(M[cur_slot]) \union {HEAD}
         /\ \A x \in Addrs \ {thr.pos} :
              x \in AtOrAfter(M[cur_slot], thr.n) <=> x \in Ahead
<1> DEFINE a == thr.pos
           q == list_head[cur_slot]
<1>1. /\ list_head \in Lists /\ Apart(list_head) /\ cur_slot \in Slots
      /\ \A i \in Slots : ToSet(list_head[i]) \subseteq Wheel(list_head)
  BY WheelFacts
<1>2. Traversing /\ thr.pos # HEAD
  <2>1. Traversing
    BY DEF Traversing
  <2> QED BY <2>1, CursorAtEnd
<1>3. /\ a \in ToSet(q) /\ a \in Addrs /\ thr.n # a
      /\ thr.n \in ToSet(q) \union {HEAD}
  BY <1>2, CursorFacts
<1>4. a \in Wheel(list_head)
  BY <1>1, <1>3
<1>5. M = Off(list_head, a)
  BY DEF Without, Off
<1>6. /\ M \in Lists /\ Apart(M)
      /\ \A i \in Slots : ToSet(M[i]) = ToSet(list_head[i]) \ {a}
  <2>1. /\ Off(list_head, a) \in Lists
        /\ Apart(Off(list_head, a))
        /\ \A i \in Slots :
             ToSet(Off(list_head, a)[i]) = ToSet(list_head[i]) \ {a}
    BY <1>1, <1>4, Taken
  <2> QED BY <1>5, <2>1, Zenon
<1>7. Wheel(M) = Wheel(list_head) \ {a}
  BY <1>6 DEF Wheel
<1>8. thr.n \in ToSet(M[cur_slot]) \union {HEAD}
  BY <1>1, <1>3, <1>6
<1>9. ASSUME NEW x \in Addrs \ {a}
      PROVE  x \in AtOrAfter(M[cur_slot], thr.n) <=> x \in Ahead
  <2>1. /\ q \in Seq(Addrs)
        /\ \A k, m \in 1..Len(q) : q[k] = q[m] => k = m
    BY <1>1, SlotFacts
  <2>2. PICK j \in 1..Len(q) : q[j] = a
    BY <1>3, <2>1 DEF ToSet
  <2>3. M[cur_slot] = RemoveFirst(q, q[j])
    BY <1>1, <1>5, <2>2 DEF Off
  <2>4. x \in AtOrAfter(RemoveFirst(q, q[j]), thr.n)
          <=> x \in AtOrAfter(q, thr.n)
    BY <1>3, <2>1, <2>2, AfterRemoved
  <2>5. Ahead = AtOrAfter(q, thr.n)
    BY DEF Ahead
  <2> QED BY <2>3, <2>4, <2>5, Zenon
<1> QED BY <1>3, <1>6, <1>7, <1>8, <1>9

(* A timer that is not repeated leaves the wheel and is freed. *)
LEMMA ReleaseStep ==
  ASSUME Inv, Release
  PROVE  Inv'
<1> DEFINE a == thr.pos
<1>1. /\ thr.pc = "after"
      /\ list_head' = Without(a)
      /\ timer' = [timer EXCEPT ![a] = Freed]
      /\ thr' = Advance
      /\ UNCHANGED <<context, exit_flag, cur_slot, client, held>>
  BY DEF Release
<1>2. /\ a \in Addrs /\ a \in ToSet(list_head[cur_slot])
      /\ list_head' \in Lists /\ Apart(list_head')
      /\ \A i \in Slots : ToSet(list_head'[i]) = ToSet(list_head[i]) \ {a}
      /\ Wheel(list_head') = Wheel(list_head) \ {a}
      /\ thr.n \in ToSet(list_head'[cur_slot]) \union {HEAD}
      /\ \A x \in Addrs \ {a} :
           x \in AtOrAfter(list_head'[cur_slot], thr.n) <=> x \in Ahead
  BY <1>1, HandledNext
<1>3. /\ Live = Wheel(list_head) \union InDel
      /\ Wheel(list_head) \intersect InDel = {}
      /\ \A i \in Slots : ToSet(list_head[i]) \subseteq Wheel(list_head)
      /\ cur_slot \in Slots
  BY WheelFacts
<1>4. /\ Cursor'
      /\ thr'.pc = "visit"
      /\ thr' \in [pc : ThrPc, pos : Addrs \union {HEAD},
                   n : Addrs \union {HEAD}]
      /\ \A x \in Addrs :
           x \in Ahead' <=> x \in AtOrAfter(list_head'[cur_slot], thr.n)
  BY <1>1, <1>2, AdvanceNext
<1> HIDE DEF a
<1>5. /\ timer \in [Addrs -> Timers]
      /\ timer' \in [Addrs -> Timers]
      /\ timer'[a] = Freed
      /\ \A x \in Addrs \ {a} : timer'[x] = timer[x]
  BY <1>1, <1>2, FreedType DEF Inv, TimerType
<1>6. Live' = Live \ {a}
  <2>1. ~timer'[a].live
    BY <1>5, FreedType
  <2> QED BY <1>5, <2>1 DEF Live
<1>7. InWheelOnce'
  <2>1. InDel = {} /\ InDel' = {}
    BY <1>1, <1>4 DEF InDel, Inv, Lifetime
  <2> QED BY <1>2, <1>3, <1>6, <2>1, WheelOnceNext
<1>8. TypeOK' /\ RecordType' /\ TimerType'
  <2>1. \A x \in Live' :
          timer'[x].rotation \in 0..(timer'[x].expires \div slot_num)
    BY <1>5, <1>6 DEF Inv, TypeOK, Live
  <2> QED BY <1>1, <1>2, <1>4, <1>5, <2>1
          DEF Inv, TypeOK, RecordType, TimerType, Lists
<1>9. Lifetime'
  BY <1>1 DEF Inv, Lifetime
<1>10. Timing'
  <2> SUFFICES ASSUME NEW i \in Slots, NEW x \in ToSet(list_head'[i])
               PROVE  InTime(timer'[x], FiringAge(i, x)')
    BY <1>1, Zenon DEF Timing, InTime
  <2>1. x \in ToSet(list_head[i]) /\ x # a
    BY <1>2
  <2>2. x \in Addrs
    BY <2>1, TimerFacts
  <2>3. InTime(timer[x], FiringAge(i, x))
    BY <1>1, <2>1 DEF Inv, Timing, Ticking, AtWork, a
  <2>4. timer'[x] = timer[x]
    BY <1>5, <2>1, <2>2
  <2>5. Wait(i, x)' = Wait(i, x)
    <3>1. x \in Ahead' <=> x \in Ahead
      BY <1>2, <1>4, <2>1, <2>2
    <3> QED BY <1>1, <1>4, <3>1 DEF Wait, Traversing, Distance
  <2>6. FiringAge(i, x)' = FiringAge(i, x)
    BY <2>4, <2>5 DEF FiringAge, Turns
  <2> QED BY <2>3, <2>4, <2>6
<1> QED BY <1>4, <1>7, <1>8, <1>9, <1>10 DEF Inv

(* To the tail of a slot, which may be the one that is being visited. *)
LEMMA RearmStep ==
  ASSUME Inv, Rearm
  PROVE  Inv'
<1> DEFINE a == thr.pos
           e == timer[a].expires
           s == NextSlot(e)
           M == Without(a)
<1>1. /\ thr.pc = "after"
      /\ list_head' = [M EXCEPT ![s] = Append(@, a)]
      /\ timer' = [timer EXCEPT ![a] = Armed(e, TRUE, FALSE)]
      /\ thr' = Advance
      /\ UNCHANGED <<context, exit_flag, cur_slot, client, held>>
  BY DEF Rearm
<1>2. /\ a \in Addrs /\ a \in ToSet(list_head[cur_slot])
      /\ M \in Lists /\ Apart(M)
      /\ \A i \in Slots : ToSet(M[i]) = ToSet(list_head[i]) \ {a}
      /\ Wheel(M) = Wheel(list_head) \ {a}
      /\ thr.n # a
      /\ thr.n \in ToSet(M[cur_slot]) \union {HEAD}
      /\ \A x \in Addrs \ {a} :
           x \in AtOrAfter(M[cur_slot], thr.n) <=> x \in Ahead
  BY <1>1, HandledNext
<1>3. /\ Live = Wheel(list_head) \union InDel
      /\ Wheel(list_head) \intersect InDel = {}
      /\ \A i \in Slots : ToSet(list_head[i]) \subseteq Wheel(list_head)
      /\ cur_slot \in Slots
  BY WheelFacts
<1> HIDE DEF M, a
<1>4. timer \in [Addrs -> Timers] /\ e \in Nat
  BY <1>2 DEF Inv, TimerType, Timers
<1> HIDE DEF e
<1>5. s \in Slots /\ Distance(s) = e % slot_num
  BY <1>3, <1>4, NextSlotIs
<1> HIDE DEF s
<1>6. /\ list_head' \in Lists
      /\ Apart(list_head')
      /\ list_head'[s] = Append(M[s], a)
      /\ ToSet(list_head'[s]) = ToSet(M[s]) \union {a}
      /\ \A i \in Slots \ {s} : list_head'[i] = M[i]
  <2>1. list_head' = On(M, s, a)
    BY <1>1 DEF On
  <2>2. a \in Addrs \ Wheel(M)
    BY <1>2
  <2>3. /\ On(M, s, a) \in Lists
        /\ Apart(On(M, s, a))
        /\ On(M, s, a)[s] = Append(M[s], a)
        /\ ToSet(On(M, s, a)[s]) = ToSet(M[s]) \union {a}
        /\ \A i \in Slots \ {s} : On(M, s, a)[i] = M[i]
    BY <1>2, <1>5, <2>2, Added
  <2> QED BY <2>1, <2>3, Zenon
<1>7. Wheel(list_head') = Wheel(list_head)
  <2>1. a \in Wheel(list_head)
    BY <1>2, <1>3
  <2>2. Wheel(list_head') = Wheel(M) \union {a}
    BY <1>5, <1>6 DEF Wheel
  <2> QED BY <1>2, <2>1, <2>2
<1>8. thr.n \in ToSet(list_head'[cur_slot]) \union {HEAD}
  BY <1>2, <1>3, <1>5, <1>6
<1>9. /\ Cursor'
      /\ thr'.pc = "visit"
      /\ thr' \in [pc : ThrPc, pos : Addrs \union {HEAD},
                   n : Addrs \union {HEAD}]
      /\ \A x \in Addrs :
           x \in Ahead' <=> x \in AtOrAfter(list_head'[cur_slot], thr.n)
  BY <1>1, <1>6, <1>8, AdvanceNext
<1>10. ASSUME NEW x \in Addrs \ {a}
       PROVE  x \in Ahead' <=> x \in Ahead
  <2>1. CASE s = cur_slot
    <3>1. M[cur_slot] \in Seq(Addrs)
      BY <1>2, <1>3 DEF Lists
    <3>2. x \in AtOrAfter(Append(M[cur_slot], a), thr.n)
            <=> x \in AtOrAfter(M[cur_slot], thr.n)
      BY <1>2, <3>1, AfterAdded
    <3> QED BY <1>2, <1>6, <1>9, <2>1, <3>2
  <2>2. CASE s # cur_slot
    BY <1>2, <1>3, <1>6, <1>9, <2>2
  <2> QED BY <2>1, <2>2
<1>11. /\ timer' \in [Addrs -> Timers]
       /\ timer'[a] = Armed(e, TRUE, FALSE)
       /\ \A x \in Addrs \ {a} : timer'[x] = timer[x]
  <2>1. Armed(e, TRUE, FALSE) \in Timers
    BY <1>4, ArmedType
  <2> QED BY <1>1, <1>2, <1>4, <2>1
<1>12. Live' = Live
  <2>1. a \in Live
    BY <1>2, <1>3
  <2>2. timer'[a].live
    BY <1>4, <1>11, ArmedType
  <2> QED BY <1>11, <2>1, <2>2 DEF Live
<1>13. InWheelOnce'
  <2>1. InDel = {} /\ InDel' = {}
    BY <1>1, <1>9 DEF InDel, Inv, Lifetime
  <2> QED BY <1>3, <1>6, <1>7, <1>12, <2>1, WheelOnceNext
<1>14. TypeOK' /\ RecordType' /\ TimerType'
  <2>1. \A x \in Live' :
          timer'[x].rotation \in 0..(timer'[x].expires \div slot_num)
    <3> TAKE x \in Live'
    <3>1. CASE x = a
      <4>1. Armed(e, TRUE, FALSE).rotation
              \in 0..(Armed(e, TRUE, FALSE).expires \div slot_num)
        BY <1>4, ArmedType
      <4> QED BY <1>11, <3>1, <4>1, Zenon
    <3>2. CASE x # a
      BY <1>11, <1>12, <3>2 DEF Inv, TypeOK, Live
    <3> QED BY <3>1, <3>2
  <2> QED BY <1>1, <1>6, <1>9, <1>11, <2>1
          DEF Inv, TypeOK, RecordType, TimerType, Lists
<1>15. Lifetime'
  BY <1>1 DEF Inv, Lifetime
<1>16. Timing'
  <2> SUFFICES ASSUME NEW i \in Slots, NEW x \in ToSet(list_head'[i])
               PROVE  InTime(timer'[x], FiringAge(i, x)')
    BY <1>1, Zenon DEF Timing, InTime
  <2>1. CASE x # a
    <3>1. x \in ToSet(list_head[i])
      BY <1>2, <1>6, <2>1
    <3>2. x \in Addrs
      BY <3>1, TimerFacts
    <3>3. InTime(timer[x], FiringAge(i, x))
      BY <1>1, <2>1, <3>1 DEF Inv, Timing, Ticking, AtWork, a
    <3>4. timer'[x] = timer[x]
      BY <1>11, <2>1, <3>2
    <3>5. Wait(i, x)' = Wait(i, x)
      <4>1. x \in Ahead' <=> x \in Ahead
        BY <1>10, <2>1, <3>2
      <4> QED BY <1>1, <1>9, <4>1 DEF Wait, Traversing, Distance
    <3>6. FiringAge(i, x)' = FiringAge(i, x)
      BY <3>4, <3>5 DEF FiringAge, Turns
    <3> QED BY <3>3, <3>4, <3>6
  <2>2. CASE x = a
    <3> DEFINE w == Wait(i, x)'
    <3>1. i = s
      BY <1>2, <1>6, <2>2
    <3>2. slot_num \in Nat \ {0} /\ Distance(s) \in 0..(slot_num - 1)
          /\ (Distance(s) = 0 <=> s = cur_slot)
      BY <1>3, <1>5, DistanceIs, TurnsFacts
    <3>3. w = IF s # cur_slot THEN Distance(s)
              ELSE IF a \in Ahead' THEN 0 ELSE slot_num
      BY <1>1, <1>9, <2>2, <3>1 DEF Wait, Traversing, Distance
    <3> HIDE DEF w
    <3>4. /\ w \in 0..slot_num
          /\ w = e % slot_num \/ (e % slot_num = 0 /\ w = slot_num)
      BY <1>5, <3>2, <3>3
    <3>5. InTime(Armed(e, TRUE, FALSE), Turns(e \div slot_num) + w)
      BY <1>4, <3>4, AgainInTime
    <3>6. FiringAge(i, x)' = Turns(e \div slot_num) + w
      <4>1. /\ Armed(e, TRUE, FALSE).age = 0
            /\ Armed(e, TRUE, FALSE).rotation = e \div slot_num
        BY <1>4, ArmedType
      <4>2. FiringAge(i, x)' = 0 + Turns(e \div slot_num) + w
        BY <1>11, <2>2, <4>1, Zenon DEF FiringAge, Turns, w
      <4>3. Turns(e \div slot_num) \in Nat
        BY <1>4, TurnsFacts
      <4> QED BY <3>4, <4>2, <4>3
    <3> QED BY <1>11, <2>2, <3>5, <3>6, Zenon
  <2> QED BY <2>1, <2>2
<1> QED BY <1>9, <1>13, <1>14, <1>15, <1>16 DEF Inv

-----------------------------------------------------------------------------
(* The theorems.                                                           *)

(* Every step of Next, by its action. *)
LEMMA StepInv ==
  ASSUME Inv, ~Racing, Next
  PROVE  Inv'
<1>1. CASE HyTimerCreate
  BY <1>1, CreateStep
<1>2. CASE HyTimerCreateFails
  BY <1>2, CreateFailsStep
<1>3. CASE ClientAdd
  <2>1. PICK a \in Addrs, e \in Expires, r \in BOOLEAN : HyTimerAdd(a, e, r)
    BY <1>3 DEF ClientAdd, AnyAdd
  <2>2. thr.pc = "sleep"
    BY <1>3 DEF ClientAdd, ClientMay
  <2> QED BY <2>1, <2>2, AddStep
<1>4. CASE CallbackAdd
  <2>1. PICK a \in Addrs, e \in Expires, r \in BOOLEAN : HyTimerAdd(a, e, r)
    BY <1>4 DEF CallbackAdd, AnyAdd
  <2>2. thr.pc = "callback"
    BY <1>4 DEF CallbackAdd
  <2> QED BY <2>1, <2>2, AddStep
<1>5. CASE \E a \in held : HyTimerDel(a) \/ CallbackDel(a)
  BY <1>5, DelStep, CallbackDelStep
<1>6. CASE HyTimerDelFree
  BY <1>6, DelFreeStep
<1>7. CASE _timer_loop_cb
  BY <1>7, TopStep, TickStep, PassStep, FireStep, ReturnStep, RearmStep,
     ReleaseStep, EndTickStep DEF _timer_loop_cb
<1>8. CASE DestroyExit
  BY <1>8, DestroyExitStep
<1>9. CASE DestroyJoin
  BY <1>9, DestroyJoinStep
<1> QED BY <1>1, <1>2, <1>3, <1>4, <1>5, <1>6, <1>7, <1>8, <1>9 DEF Next

(* Only the thread goes from visiting a timer to its callback. *)
LEMMA OnlyFire ==
  ASSUME Inv, [Next]_vars, thr.pc = "visit", thr'.pc = "callback"
  PROVE  Fire
<1>1. thr' # thr
  OBVIOUS
<1>2. ~(\E a \in held : CallbackDel(a))
  BY DEF CallbackDel
<1>3. ~(\E a \in held : HyTimerDel(a)) /\ ~HyTimerDelFree /\ ~DestroyExit
  BY <1>1 DEF HyTimerDel, HyTimerDelFree, DestroyExit
<1>4. ~HyTimerCreate
  <2> SUFFICES ASSUME HyTimerCreate PROVE FALSE
    OBVIOUS
  <2>1. PICK p \in {"top", "none"} : thr' = [NoThread EXCEPT !.pc = p]
    BY DEF HyTimerCreate
  <2>2. thr'.pc = p
    BY <2>1 DEF NoThread
  <2> QED BY <2>1, <2>2
<1>5. ~HyTimerCreateFails /\ ~ClientAdd /\ ~CallbackAdd
  BY <1>1 DEF HyTimerCreateFails, ClientAdd, CallbackAdd, AnyAdd, HyTimerAdd
<1>6. ~DestroyJoin
  BY DEF DestroyJoin
<1>7. ~ThreadTop /\ ~Tick /\ ~CallbackReturns /\ ~Rearm /\ ~Release
  BY DEF ThreadTop, Tick, CallbackReturns, Rearm, Release
<1>8. ~EndTick
  BY DEF EndTick, NoThread
<1>9. ~Pass
  BY DEF Pass, Advance
<1> QED BY <1>1, <1>2, <1>3, <1>4, <1>5, <1>6, <1>7, <1>8,
        <1>9
     DEF Next, _timer_loop_cb, vars

(* When a timer fires, its age is its firing age. *)
LEMMA FireOnTime ==
  ASSUME Inv, Fire
  PROVE  InTime(timer[thr.pos], timer[thr.pos].age)
<1> DEFINE a == thr.pos
<1>1. thr.pc = "visit" /\ a # HEAD /\ timer[a].rotation = 0 /\ Traversing
  BY DEF Fire, Traversing
<1>2. a \in ToSet(list_head[cur_slot]) /\ cur_slot \in Slots
  BY <1>1, CursorFacts, WheelFacts
<1>3. a \in Ahead
  BY <1>1 DEF Ahead
<1> HIDE DEF a
<1>4. InTime(timer[a], FiringAge(cur_slot, a))
  BY <1>1, <1>2 DEF Inv, Timing, Ticking, AtWork
<1>5. Wait(cur_slot, a) = 0
  BY <1>1, <1>3 DEF Wait
<1>6. timer[a].age \in Nat /\ Turns(0) = 0
  BY <1>2, TimerFacts, TurnsFacts
<1>7. FiringAge(cur_slot, a) = timer[a].age + Turns(0) + 0
  BY <1>1, <1>5, Zenon DEF FiringAge
<1>8. FiringAge(cur_slot, a) = timer[a].age
  BY <1>6, <1>7
<1> QED BY <1>4, <1>8 DEF a

(***************************************************************************)
(* As long as clients call only while the timer thread is in select, and   *)
(* whatever callbacks add and delete, a timer is in the wheel once from    *)
(* HyTimerAdd to its free, none is lost or freed twice, and the traversal  *)
(* stays on entries of the slot it visits.                                 *)
(***************************************************************************)
THEOREM WheelSoundAlways ==
  ASSUME ~Racing
  PROVE  Spec => []WheelSound
<1>1. Init => Inv
  BY InitInv
<1>2. Inv /\ [Next]_vars => Inv'
  BY StepInv, StutterStep
<1>3. Inv => WheelSound
  BY InSlot DEF Inv, WheelSound
<1> QED BY <1>1, <1>2, <1>3, PTL DEF Spec

(***************************************************************************)
(* Under the same condition no timer fires early, none later than one      *)
(* revolution, and a re-armed one exactly on time unless its expiration is *)
(* a multiple of the wheel.                                                *)
(***************************************************************************)
THEOREM FiresOnTimeAlways ==
  ASSUME ~Racing
  PROVE  Spec => FiresOnTime
<1>1. Init => Inv
  BY InitInv
<1>2. Inv /\ [Next]_vars => Inv'
  BY StepInv, StutterStep
<1>3. Inv /\ [Next]_vars =>
        [\A a \in Addrs : Fires(a) =>
           LET t    == timer[a]
               turn == slot_num * (t.expires \div slot_num)
           IN  IF t.first
               THEN turn <= t.age /\ t.age <= turn + slot_num
               ELSE \/ t.age = t.expires
                    \/ t.expires = turn /\ t.age = turn + slot_num]_vars
  <2> SUFFICES ASSUME Inv, [Next]_vars, NEW a \in Addrs, Fires(a)
               PROVE  InTime(timer[a], timer[a].age)
    BY Zenon DEF InTime, Turns
  <2>1. Fire /\ thr.pos = a
    BY OnlyFire DEF Fires
  <2> QED BY <2>1, FireOnTime
<1> QED BY <1>1, <1>2, <1>3, PTL DEF Spec, FiresOnTime
=============================================================================
