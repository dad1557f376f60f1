-------------------------------- MODULE Hash --------------------------------
(***************************************************************************)
(* src/src/utils_hash.c: buckets of hlists, one mutex each, used by        *)
(* several threads.  The chains are those of hy_list.h, pointer by         *)
(* pointer.  A key is the sequence of its characters; allocations succeed. *)
(***************************************************************************)
EXTENDS ListSpec, Integers

CONSTANTS
  Threads,
  Keys,            \* Keys[t]: the keys thread t uses
  Vals,
  bucket_max_len,  \* config->bucket_max_len
  Int32Mod,        \* 2^32
  Multiplier       \* 1103515245

(* The mask of _key_to_index wants a power of two; no key is empty. *)
ASSUME HashAssumption ==
  /\ Heads = 0..(bucket_max_len - 1)
  /\ bucket_max_len \in Nat \ {0} /\ Int32Mod % bucket_max_len = 0
  /\ Int32Mod \in Nat \ {0} /\ Multiplier \in Nat
  /\ IsFiniteSet(Nodes) /\ IsFiniteSet(Threads)
  /\ NULL \notin Vals \union Threads
  /\ \A t \in Threads : Keys[t] \subseteq Seq(Nat) \ {<<>>}

VARIABLES
  heap,    \* next and pprev of every item, first of every bucket
  item,    \* id and val of every item that is allocated
  mutex,   \* bucket_mutex: who holds it
  thr,     \* the call each thread is in
  status,  \* of the program
  got      \* the last result of UtilsHashItemGet, for KeyMap

vars == <<heap, item, mutex, thr, status, got>>

-----------------------------------------------------------------------------
(* hash = hash * 31 + c, in a uint32_t. *)
UtilsHashGenerate(key) ==
  FoldLeft(LAMBDA hash, c : (hash * 31 + c) % Int32Mod, 0, key)

(* The top five bits of an int32_t product, as a signed number, masked. *)
_key_to_index(key) ==
  LET index[i \in 1..Len(key)] ==
        IF i = 1 THEN key[1]
        ELSE (index[i - 1] * (Multiplier + key[i])) % Int32Mod
      top == (index[Len(key)] * 32) \div Int32Mod
  IN (IF top >= 16 THEN top - 32 ELSE top) % bucket_max_len

(* Keys with the same bucket and hash are one key to the program. *)
Id(key) == <<_key_to_index(key), UtilsHashGenerate(key)>>

Bucket(id) == id[1]

AllIds == UNION {{Id(k) : k \in Keys[t]} : t \in Threads}
Users(id) == {t \in Threads : \E k \in Keys[t] : Id(k) = id}

(* The keys of one thread each. *)
Own == {id \in AllIds : Cardinality(Users(id)) = 1}

Idle == [pc |-> "idle", op |-> "none", id |-> NULL, val |-> NULL,
         pos |-> NULL, n |-> NULL]

NoItem == [id |-> NULL, val |-> NULL]

Live == {a \in Nodes : item[a] # NoItem}

(* _context_init: calloc and INIT_HLIST_HEAD. *)
Init == /\ heap = [n \in Nodes \union Heads |-> [next |-> NULL, prev |-> NULL]]
        /\ item = [a \in Nodes |-> NoItem]
        /\ mutex = [b \in Heads |-> NULL]
        /\ thr = [t \in Threads |-> Idle]
        /\ status = "up"
        /\ got = NULL

-----------------------------------------------------------------------------
(* UtilsHashItemAdd, Del and Get: find under the bucket's mutex.           *)

At(t, pc) == status = "up" /\ thr[t].pc = pc

GoTo(t, pc) == thr' = [thr EXCEPT ![t].pc = pc]

Return(t) == thr' = [thr EXCEPT ![t] = Idle]

Call(t) == /\ At(t, "idle")
           /\ \E op \in {"add", "del", "get"}, key \in Keys[t], v \in Vals :
                /\ op # "add" => v = CHOOSE w \in Vals : TRUE
                /\ thr' = [thr EXCEPT ![t] =
                     [Idle EXCEPT !.pc = "lock", !.op = op, !.id = Id(key),
                                  !.val = v]]
           /\ UNCHANGED <<heap, item, mutex, status, got>>

(* hlist_for_each_entry_safe: the next entry is read before the body. *)
Cursor(t, a) == thr' = [thr EXCEPT ![t].pc = "scan", ![t].pos = a,
                          ![t].n = IF a = NULL THEN NULL ELSE heap[a].next]

(* HalMutexLock. *)
Acquire(b, t) == mutex[b] = NULL /\ mutex' = [mutex EXCEPT ![b] = t]

Lock(t) == /\ At(t, "lock")
           /\ Acquire(Bucket(thr[t].id), t)
           /\ Cursor(t, heap[Bucket(thr[t].id)].next)
           /\ UNCHANGED <<heap, item, status, got>>

Unlock(t) == mutex' = [mutex EXCEPT ![Bucket(thr[t].id)] = NULL]

(* Mutant of Step: every other entry is passed over. *)
StepSkips(t) == /\ At(t, "scan") /\ thr[t].pos # NULL
                /\ item[thr[t].pos].id # thr[t].id
                /\ Cursor(t, IF thr[t].n = NULL THEN NULL ELSE heap[thr[t].n].next)
                /\ UNCHANGED <<heap, item, mutex, status, got>>

Step(t) == /\ At(t, "scan") /\ thr[t].pos # NULL
           /\ item[thr[t].pos].id # thr[t].id
           /\ Cursor(t, thr[t].n)
           /\ UNCHANGED <<heap, item, mutex, status, got>>

(* Mutant of Found: whatever the entry's key. *)
FoundAny(t, op) == At(t, "scan") /\ thr[t].op = op /\ thr[t].pos # NULL

Found(t, op) == /\ At(t, "scan") /\ thr[t].op = op
                /\ thr[t].pos # NULL /\ item[thr[t].pos].id = thr[t].id

(* _replace_item_val frees the new value and copies through NULL. *)
FoundReplace(t) == /\ Found(t, "add")
                   /\ status' = "crashed"
                   /\ UNCHANGED <<heap, item, mutex, thr, got>>

(* Mutant of FoundDel: the item is freed and stays in its chain. *)
FoundDelLinked(t) == /\ Found(t, "del")
                     /\ item' = [item EXCEPT ![thr[t].pos] = NoItem]
                     /\ GoTo(t, "unlock")
                     /\ UNCHANGED <<heap, mutex, status, got>>

(* _del_item_from_list. *)
FoundDel(t) == /\ Found(t, "del")
               /\ heap' = hlist_del(heap, thr[t].pos)
               /\ item' = [item EXCEPT ![thr[t].pos] = NoItem]
               /\ GoTo(t, "unlock")
               /\ UNCHANGED <<mutex, status, got>>

(* What UtilsHashItemGet of a key of one's own says. *)
Report(t, v) == got' = IF thr[t].id \in Own THEN <<thr[t].id, v>> ELSE got

FoundGet(t) == /\ Found(t, "get")
               /\ Report(t, item[thr[t].pos].val)
               /\ GoTo(t, "unlock")
               /\ UNCHANGED <<heap, item, mutex, status>>

Missed(t) == /\ At(t, "scan") /\ thr[t].pos = NULL
             /\ IF thr[t].op = "get" THEN Report(t, NULL) ELSE UNCHANGED got
             /\ GoTo(t, IF thr[t].op = "add" THEN "unlock_add" ELSE "unlock")
             /\ UNCHANGED <<heap, item, mutex, status>>

Unlocked(t) == /\ At(t, "unlock")
               /\ Unlock(t)
               /\ Return(t)
               /\ got' = NULL
               /\ UNCHANGED <<heap, item, status>>

(* UtilsHashItemAdd did not find the key; nothing is locked now. *)
UnlockedAdd(t) == /\ At(t, "unlock_add")
                  /\ Unlock(t)
                  /\ GoTo(t, "init")
                  /\ UNCHANGED <<heap, item, status, got>>

_item_init(t) == /\ At(t, "init")
                 /\ \E a \in Nodes \ Live :
                      /\ item' = [item EXCEPT ![a] =
                                    [id |-> thr[t].id, val |-> thr[t].val]]
                      /\ thr' = [thr EXCEPT ![t].pc = "lock_add", ![t].pos = a]
                 /\ UNCHANGED <<heap, mutex, status, got>>

_add_item_to_list(t) ==
  /\ At(t, "lock_add")
  /\ Acquire(Bucket(thr[t].id), t)
  /\ heap' = hlist_add_head(heap, thr[t].pos, Bucket(thr[t].id))
  /\ GoTo(t, "unlock")
  /\ UNCHANGED <<item, status, got>>

Thread(t) == \/ Call(t) \/ Lock(t) \/ Step(t)
             \/ FoundReplace(t) \/ FoundDel(t) \/ FoundGet(t) \/ Missed(t)
             \/ Unlocked(t) \/ UnlockedAdd(t)
             \/ _item_init(t) \/ _add_item_to_list(t)

(* The client destroys the hash when no thread is in a call. *)
UtilsHashDestroy == /\ status = "up" /\ \A t \in Threads : thr[t] = Idle
                    /\ status' = "final"
                    /\ UNCHANGED <<heap, item, mutex, thr, got>>

(* _context_final goes through the buckets; the item at which the walk is   *)
(* is taken out and freed, and the first of those that are left is next.   *)
_traverse_item_list(b) ==
  /\ status = "final" /\ \A c \in 0..(b - 1) : hlist_empty(heap, c)
  /\ ~hlist_empty(heap, b)
  /\ heap' = hlist_del(heap, heap[b].next)
  /\ item' = [item EXCEPT ![heap[b].next] = NoItem]
  /\ UNCHANGED <<mutex, thr, status, got>>

_context_final == /\ status = "final" /\ \A b \in Heads : hlist_empty(heap, b)
                  /\ status' = "gone"
                  /\ UNCHANGED <<heap, item, mutex, thr, got>>

Next == \/ \E t \in Threads : Thread(t)
        \/ UtilsHashDestroy \/ (\E b \in Heads : _traverse_item_list(b))
        \/ _context_final

Spec == Init /\ [][Next]_vars

-----------------------------------------------------------------------------
(* Properties.                                                             *)

Chain(b) == HEntries(heap, b)

(* The items thread t has allocated and not yet linked. *)
Unlinked(t) == IF thr[t].pc = "lock_add" THEN {thr[t].pos} ELSE {}

(* Whatever threads do to a bucket at the same time, its chain is whole: next
   and pprev agree, every item in it is allocated and has the bucket's keys,
   every allocated item is in its chain or still with the thread that adds
   it, and when the hash is gone none is left. *)
ChainSound ==
  /\ \A b \in Heads : /\ IsHlist(heap, b, Chain(b))
                      /\ \A a \in ToSet(Chain(b)) :
                           a \in Live /\ Bucket(item[a].id) = b
  /\ Live = (UNION {ToSet(Chain(b)) : b \in Heads})
            \union (UNION {Unlinked(t) : t \in Threads})
  /\ status = "gone" => Live = {}

(* Every operation of hy_list.h, and not those of the hash alone, does to the
   pointers of a list, and of the list it exchanges entries with, what it should
   do to two sequences: all entries in order from either end, nothing lost or
   in both lists, also when a list is or becomes empty.  The entries are those
   of an empty hash, with the pointers that the hash left in them. *)
ListsAsSequences ==
  Live = {} /\ (\A t \in Threads : thr[t] = Idle) => ListOpsSound(heap)

(* The entries of a key; by ChainSound they are those in its chain. *)
ItemsOf(id) == {a \in Live : /\ item[a].id = id
                              /\ \A t \in Threads : a \notin Unlinked(t)}

(* A key has at most one entry per thread that uses it: between the search and
   the insertion of UtilsHashItemAdd another thread may add it too, and the
   entries of one thread's own keys are unique. *)
OnePerAdder ==
  \A id \in AllIds : Cardinality(ItemsOf(id)) <= Cardinality(Users(id))

(* A thread is about to replace a value, or has crashed doing it. *)
AddsAgain(t) == /\ thr[t].pc = "scan" /\ thr[t].op = "add"
                /\ thr[t].pos # NULL /\ item[thr[t].pos].id = thr[t].id

(* The value of the entry of a key, or NULL. *)
ValueOf(id) == IF ItemsOf(id) = {} THEN NULL
               ELSE item[CHOOSE a \in ItemsOf(id) : TRUE].val

(* The program did not crash replacing the value of such a key. *)
Up == \/ status # "crashed"
      \/ ~\E t \in Threads : AddsAgain(t) /\ thr[t].id \in Own

(* For the keys of one thread the hash is a map, whatever the other threads do
   to the bucket they share: nothing is lost, what was deleted is gone, and a
   get returns the value put last. *)
Map == INSTANCE KeyMap WITH Keys <- Own, None <- NULL, up <- Up,
                            map <- [id \in Own |-> ValueOf(id)]

MapSpec == Map!Spec
=============================================================================
