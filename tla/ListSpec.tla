------------------------------ MODULE ListSpec ------------------------------
(* What the operations of ListOps do, in terms of sequences of entries.    *)
EXTENDS ListOps, FiniteSets

Arranged == SetToAllKPermutations(Nodes)

PlaceIn(s, n) == CHOOSE k \in DOMAIN s : s[k] = n

(* The entries p behind the head x in a heap g of unused entries, whatever
   their pointers are: end is next of the last, back is prev of the head. *)
Strung(g, x, p, end, back) ==
  LET c == <<x>> \o p
  IN [s \in DOMAIN g |->
        IF s \notin ToSet(c) THEN g[s]
        ELSE [next |-> IF s = Last(c) THEN end ELSE c[PlaceIn(c, s) + 1],
              prev |-> IF s = x THEN back ELSE c[PlaceIn(c, s) - 1]]]

Circle(g, x, p) == Strung(g, x, p, x, Last(<<x>> \o p))
Line(g, x, p)   == Strung(g, x, p, NULL, g[x].prev)

Lists(g, x, p, y, q)  == Circle(Circle(g, x, p), y, q)
HLists(g, x, p, y, q) == Line(Line(g, x, p), y, q)

Fresh(p, q) == Nodes \ ToSet(p \o q)

Before(p, n) == SubSeq(p, 1, PlaceIn(p, n) - 1)
After(p, n) == SubSeq(p, PlaceIn(p, n) + 1, Len(p))
Removed(p, n) == Before(p, n) \o After(p, n)

AreLists(h, x, p, y, q) == IsList(h, x, p) /\ IsList(h, y, q)
AreHlists(h, x, p, y, q) == IsHlist(h, x, p) /\ IsHlist(h, y, q)

(* One heap, h, with p at x and q at y. *)
EntryOps(h, p, q, x, y) ==
  /\ AreLists(h, x, p, y, q)
  /\ AreLists(INIT_LIST_HEAD(h, x), x, <<>>, y, q)
  /\ \A n \in Fresh(p, q) :
       /\ AreLists(list_add(h, n, x), x, <<n>> \o p, y, q)
       /\ AreLists(list_add_tail(h, n, x), x, p \o <<n>>, y, q)
       /\ \A o \in ToSet(p) :
            /\ AreLists(list_replace(h, o, n), x, Before(p, o) \o <<n>> \o After(p, o), y, q)
            /\ list_empty(list_replace_init(h, o, n), o)
  /\ \A n \in ToSet(p) :
       /\ AreLists(list_del(h, n), x, Removed(p, n), y, q)
       /\ AreLists(list_del_init(h, n), x, Removed(p, n), y, q)
       /\ list_empty(list_del_init(h, n), n)
       /\ AreLists(list_move(h, n, y), x, Removed(p, n), y, <<n>> \o q)
       /\ AreLists(list_move_tail(h, n, x), x, Removed(p, n) \o <<n>>, y, q)
       /\ list_is_last(h, n, x) <=> Last(p) = n

WholeOps(h, p, q, x, y) ==
  /\ list_empty(h, x) <=> p = <<>>
  /\ list_is_singular(h, x) <=> Len(p) = 1
  /\ AreLists(list_rotate_left(h, x), x, IF p = <<>> THEN p ELSE Append(Tail(p), p[1]), y, q)
  /\ IsList(list_splice(h, y, x), x, q \o p)
  /\ IsList(list_splice_tail(h, y, x), x, p \o q)
  /\ AreLists(list_splice_init(h, y, x), x, q \o p, y, <<>>)
  /\ AreLists(list_splice_tail_init(h, y, x), x, p \o q, y, <<>>)
  /\ q = <<>> => /\ AreLists(list_cut_position(h, y, x, x), x, p, y, <<>>)
                 /\ \A n \in ToSet(p) :
                      AreLists(list_cut_position(h, y, x, n),
                               x, After(p, n), y, Before(p, n) \o <<n>>)

(* The safe walks with a body that deletes, and with one that moves to y. *)
DelWalk(h, field, x) == SafeWalk(h, field, x, list_del)
MoveWalk(h, field, x, y) ==
  SafeWalk(h, field, x, LAMBDA g, n : list_move_tail(g, n, y))

Emptied(s, field, x, p) ==
  /\ s.seen = IF field = "next" THEN p ELSE Reverse(p)
  /\ list_empty(s.heap, x)

Walks(h, p, q, x, y) ==
  \A field \in {"next", "prev"} :
    LET moved == MoveWalk(h, field, x, y)
    IN /\ Emptied(DelWalk(h, field, x), field, x, p)
       /\ Emptied(moved, field, x, p)
       /\ AreLists(moved.heap, x, <<>>, y, q \o moved.seen)

HlistOps(h, p, q, x, y) ==
  /\ AreHlists(h, x, p, y, q)
  /\ AreHlists(INIT_HLIST_HEAD(h, x), x, <<>>, y, q)
  /\ hlist_empty(h, x) <=> p = <<>>
  /\ \A n \in Fresh(p, q) :
       /\ AreHlists(hlist_add_head(h, n, x), x, <<n>> \o p, y, q)
       /\ \A o \in ToSet(p) :
            /\ AreHlists(hlist_add_before(h, n, o),
                         x, Before(p, o) \o <<n, o>> \o After(p, o), y, q)
            /\ AreHlists(hlist_add_behind(h, n, o),
                         x, Before(p, o) \o <<o, n>> \o After(p, o), y, q)
  /\ \A n \in ToSet(p) :
       /\ AreHlists(hlist_del(h, n), x, Removed(p, n), y, q)
       /\ AreHlists(hlist_del_init(h, n), x, Removed(p, n), y, q)
       /\ hlist_unhashed(hlist_del_init(h, n), n)
       /\ hlist_del_init(hlist_del_init(h, n), n) = hlist_del_init(h, n)
  /\ q = <<>> => AreHlists(hlist_move_list(h, x, y), x, <<>>, y, p)

ListOpsSound(g) ==
  \A x, y \in Heads, p, q \in Arranged :
    x # y /\ ToSet(p) \intersect ToSet(q) = {} =>
      LET l == Lists(g, x, p, y, q)
      IN /\ EntryOps(l, p, q, x, y)
         /\ WholeOps(l, p, q, x, y)
         /\ Walks(l, p, q, x, y)
         /\ HlistOps(HLists(g, x, p, y, q), p, q, x, y)
=============================================================================
