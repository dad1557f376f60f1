------------------------------ MODULE ListOps -------------------------------
(***************************************************************************)
(* src/include/hy_list.h: the circular doubly linked list and the hash     *)
(* list, as functions from heap to heap, one assignment after the other.   *)
(*                                                                         *)
(* A heap maps each struct to its two pointers.  In a list these are next  *)
(* and prev, a head being like an entry.  In an hlist a head has only      *)
(* first; pprev is the address of the pointer that points at the entry,    *)
(* and is kept as the head or entry that holds this pointer.               *)
(***************************************************************************)
EXTENDS Naturals, Sequences, SequencesExt

CONSTANTS Nodes,    \* the entries
          Heads,    \* the heads
          NULL,
          POISON    \* LIST_POISON1 and LIST_POISON2

ASSUME ListAssumption == /\ Nodes \intersect Heads = {}
                         /\ {NULL, POISON} \intersect (Nodes \union Heads) = {}

SetNext(h, n, to) == [h EXCEPT ![n].next = to]
SetPrev(h, n, to) == [h EXCEPT ![n].prev = to]

-----------------------------------------------------------------------------
(* struct list_head.                                                       *)

INIT_LIST_HEAD(h, l) == SetPrev(SetNext(h, l, l), l, l)

__list_add(h, new, prev, next) ==
  LET h1 == SetPrev(h, next, new)
      h2 == SetPrev(SetNext(h1, new, next), new, prev)
  IN SetNext(h2, prev, new)

list_add(h, new, head) == __list_add(h, new, head, h[head].next)

list_add_tail(h, new, head) == __list_add(h, new, h[head].prev, head)

__list_del(h, prev, next) == SetNext(SetPrev(h, next, prev), prev, next)

__list_del_entry(h, entry) == __list_del(h, h[entry].prev, h[entry].next)

list_del(h, entry) ==
  [__list_del_entry(h, entry) EXCEPT ![entry] = [next |-> POISON, prev |-> POISON]]

list_del_init(h, entry) == INIT_LIST_HEAD(__list_del_entry(h, entry), entry)

list_replace(h, old, new) ==
  LET h1 == SetNext(h, new, h[old].next)
      h2 == SetPrev(h1, h1[new].next, new)
      h3 == SetPrev(h2, new, h2[old].prev)
  IN SetNext(h3, h3[new].prev, new)

list_replace_init(h, old, new) == INIT_LIST_HEAD(list_replace(h, old, new), old)

list_move(h, entry, head) == list_add(__list_del_entry(h, entry), entry, head)

list_move_tail(h, entry, head) ==
  list_add_tail(__list_del_entry(h, entry), entry, head)

list_empty(h, head) == h[head].next = head

list_is_last(h, entry, head) == h[entry].next = head

list_is_singular(h, head) ==
  ~list_empty(h, head) /\ h[head].next = h[head].prev

list_rotate_left(h, head) ==
  IF list_empty(h, head) THEN h ELSE list_move_tail(h, h[head].next, head)

(* Mutant of __list_cut_position: the old list keeps its prev. *)
CutKeepsPrev(h, list, head, entry) ==
  LET new_first == h[entry].next
      h1 == SetNext(h, list, h[head].next)
      h2 == SetPrev(h1, h1[list].next, list)
      h3 == SetNext(SetPrev(h2, list, entry), entry, list)
  IN SetNext(h3, head, new_first)

(* The new list begins where head began and ends with entry. *)
__list_cut_position(h, list, head, entry) ==
  LET new_first == h[entry].next
      h1 == SetNext(h, list, h[head].next)
      h2 == SetPrev(h1, h1[list].next, list)
      h3 == SetNext(SetPrev(h2, list, entry), entry, list)
  IN SetPrev(SetNext(h3, head, new_first), new_first, head)

list_cut_position(h, list, head, entry) ==
  IF \/ list_empty(h, head)
     \/ list_is_singular(h, head) /\ h[head].next # entry /\ head # entry
  THEN h
  ELSE IF entry = head THEN INIT_LIST_HEAD(h, list)
  ELSE __list_cut_position(h, list, head, entry)

__list_splice(h, list, prev, next) ==
  LET first == h[list].next
      last  == h[list].prev
      h1 == SetNext(SetPrev(h, first, prev), prev, first)
  IN SetPrev(SetNext(h1, last, next), next, last)

list_splice(h, list, head) ==
  IF list_empty(h, list) THEN h ELSE __list_splice(h, list, head, h[head].next)

list_splice_tail(h, list, head) ==
  IF list_empty(h, list) THEN h ELSE __list_splice(h, list, h[head].prev, head)

list_splice_init(h, list, head) ==
  IF list_empty(h, list) THEN h
  ELSE INIT_LIST_HEAD(list_splice(h, list, head), list)

list_splice_tail_init(h, list, head) ==
  IF list_empty(h, list) THEN h
  ELSE INIT_LIST_HEAD(list_splice_tail(h, list, head), list)

-----------------------------------------------------------------------------
(* struct hlist_head and hlist_node.                                       *)

(* An assignment to *pprev, and the read of what pprev points at. *)
SetAt(h, pprev, to) == SetNext(h, pprev, to)

INIT_HLIST_HEAD(h, head) == SetNext(h, head, NULL)

INIT_HLIST_NODE(h, n) == [h EXCEPT ![n] = [next |-> NULL, prev |-> NULL]]

hlist_unhashed(h, n) == h[n].prev = NULL
hlist_empty(h, head) == h[head].next = NULL

SetPprev(h, n, to) == IF n = NULL THEN h ELSE SetPrev(h, n, to)

__hlist_del(h, n) ==
  SetPprev(SetAt(h, h[n].prev, h[n].next), h[n].next, h[n].prev)

hlist_del(h, n) ==
  [__hlist_del(h, n) EXCEPT ![n] = [next |-> POISON, prev |-> POISON]]

hlist_del_init(h, n) ==
  IF hlist_unhashed(h, n) THEN h ELSE INIT_HLIST_NODE(__hlist_del(h, n), n)

hlist_add_head(h, n, head) ==
  LET first == h[head].next
      h1 == SetPprev(SetNext(h, n, first), first, n)
  IN SetPrev(SetNext(h1, head, n), n, head)

hlist_add_before(h, n, next) ==
  LET h1 == SetNext(SetPrev(h, n, h[next].prev), n, next)
      h2 == SetPrev(h1, next, n)
  IN SetAt(h2, h2[n].prev, n)

hlist_add_behind(h, n, prev) ==
  LET h1 == SetNext(h, n, h[prev].next)
      h2 == SetPrev(SetNext(h1, prev, n), n, prev)
  IN SetPprev(h2, h2[n].next, n)

hlist_move_list(h, old, new) ==
  LET h1 == SetNext(h, new, h[old].next)
  IN SetNext(SetPprev(h1, h1[new].next, new), old, NULL)

-----------------------------------------------------------------------------
(* The walks.  field is "next", or "prev" for the reverse ones.  A walk     *)
(* that does not come to its end in as many steps as there are entries     *)
(* gives Lost.                                                             *)

Lost == <<POISON>>

(* list_for_each_entry and hlist_for_each_entry, and their reverse. *)
Walk(h, field, from, end) ==
  LET walk[k \in 0..(Cardinality(Nodes) + 1)] ==
        IF k = 0 THEN <<h[from][field]>>
        ELSE LET q == walk[k - 1]
             IN IF Last(q) \in Nodes THEN Append(q, h[Last(q)][field]) ELSE q
      all == walk[Cardinality(Nodes) + 1]
  IN IF Last(all) = end THEN Front(all) ELSE Lost

(* list_for_each_entry_safe: n is read before the body and moved on after it;
   the heap that is left, and the entries the body was run for. *)
SafeWalk(h, field, head, Body(_, _)) ==
  LET walk[k \in 0..(Cardinality(Nodes) + 1)] ==
        IF k = 0 THEN [heap |-> h, pos |-> h[head][field],
                       n |-> h[h[head][field]][field], seen |-> <<>>]
        ELSE LET w  == walk[k - 1]
                 h1 == Body(w.heap, w.pos)
             IN IF w.pos = head THEN w
                ELSE [heap |-> h1, pos |-> w.n, n |-> h1[w.n][field],
                      seen |-> Append(w.seen, w.pos)]
      end == walk[Cardinality(Nodes) + 1]
  IN [heap |-> end.heap, seen |-> IF end.pos = head THEN end.seen ELSE Lost]

Entries(h, head)  == Walk(h, "next", head, head)
Backward(h, head) == Walk(h, "prev", head, head)
HEntries(h, head) == Walk(h, "next", head, NULL)

(* The list at head is q, both ways. *)
IsList(h, head, q) == Entries(h, head) = q /\ Backward(h, head) = Reverse(q)

(* The hlist at head is q, and each pprev is the pointer's place. *)
IsHlist(h, head, q) ==
  /\ HEntries(h, head) = q
  /\ \A k \in DOMAIN q : h[q[k]].prev = IF k = 1 THEN head ELSE q[k - 1]
=============================================================================
