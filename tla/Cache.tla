------------------------------- MODULE Cache --------------------------------
(***************************************************************************)
(* ffcache (FF/cache.h, FF/ffcache.c): an in-memory cache of items found   *)
(* by the hash of their key, with reference counts, expiration timers and  *)
(* eviction of the least recently used items nobody refers to.             *)
(*                                                                         *)
(* The red-black tree with sibling chains is a function from hashes to the *)
(* sequence of items of that hash.  Keys are equal or not, data is its     *)
(* length.  The cache is not thread-safe: a call is one step, and the      *)
(* expiration timers are the steps between calls; ffcache_reset() and      *)
(* ffcache_free() are one step per item they release.  A step that reads   *)
(* or writes through a pointer that is not valid ends the program: fault   *)
(* says where.                                                             *)
(***************************************************************************)
EXTENDS Integers, SequencesExt

CONSTANTS Items,          \* the addresses of item and cach_key objects
          Keys,           \* the keys, after key_icase
          Hash, KeyLen,   \* of each key: hashes may collide
          DataLens,       \* the lengths of data
          MaxItems, MemLimit, MaxData,   \* conf.max_items, mem_limit, max_data
          MaxRefs,        \* bound: the references users hold to one item
          Nil             \* no object at this address

ASSUME LimitsAssumption == /\ MaxItems \in Nat /\ MemLimit \in Nat /\ MaxData \in Nat
                           /\ MaxRefs \in Nat
                           /\ DataLens \subseteq Nat
                           /\ KeyLen \in [Keys -> Nat]

\* An item and a cach_key.
ItemType == [ckey : Items, dlen : Nat, usage : Nat, unlinked : BOOLEAN, cut : BOOLEAN]
KeyType == [name : Keys, usage : Nat \ {0}]

ASSUME NilAssumption == Nil \notin ItemType \cup KeyType
ASSUME ItemsAssumption == IsFiniteSet(Items)

VARIABLES c,        \* struct ffcache with the objects it allocated
          multi,    \* conf.multi
          pending,  \* items whose expiration timer the timer queue holds
          held,     \* history: the references the users have to unref
          resetting,\* ffcache_reset() is going through the tree
          closed,   \* ffcache_free() was called
          fault     \* where the program touched memory it must not, if it did

vars == <<c, multi, pending, held, resetting, closed, fault>>

Hashes == {Hash[k] : k \in Keys}

\* The heap and the keys are the objects the cache owns.
Empty == [tree |-> [h \in Hashes |-> << >>], lastused |-> << >>, memsize |-> 0,
          heap |-> [i \in Items |-> Nil], ckeys |-> [k \in Items |-> Nil]]
NoRefs == [i \in Items |-> 0]

\* ffcache_create()
Init == /\ c = Empty
        /\ multi \in BOOLEAN
        /\ pending = {}
        /\ held = NoRefs
        /\ resetting = FALSE /\ closed = FALSE
        /\ fault = "none"
-----------------------------------------------------------------------------
(* What an item is and where it is linked. *)

Allocated(cc) == {i \in Items : cc.heap[i] # Nil}
Linked(cc) == {i \in Allocated(cc) : ~cc.heap[i].unlinked}
Len_(cc) == Cardinality(Linked(cc))   \* items.len
keyOf(cc, i) == cc.ckeys[cc.heap[i].ckey].name
chain(cc, i) == cc.tree[Hash[keyOf(cc, i)]]

\* A list without i, which is in it once.
Without(s, i) == RemoveAt(s, CHOOSE n \in 1..Len(s) : s[n] = i)

\* key_unref(): the key goes with its last item.
key_unref(cc, k) ==
    IF cc.ckeys[k].usage = 1
    THEN [cc EXCEPT !.ckeys[k] = Nil, !.memsize = @ - KeyLen[cc.ckeys[k].name]]
    ELSE [cc EXCEPT !.ckeys[k].usage = @ - 1]

item_finNoKey(cc, i) == [cc EXCEPT !.heap[i] = Nil, !.memsize = @ - cc.heap[i].dlen]

\* item_fin() and item_free()
item_fin(cc, i) ==
    [key_unref(cc, cc.heap[i].ckey) EXCEPT !.heap[i] = Nil, !.memsize = @ - cc.heap[i].dlen]

unlinkTreeOnly(cc, i) ==
    [cc EXCEPT !.tree[Hash[keyOf(cc, i)]] = Without(@, i),
               !.heap[i] = [@ EXCEPT !.unlinked = TRUE, !.cut = Len(chain(cc, i)) > 1]]

\* ffrbtl_rm() and fflist_rm().  An item that had siblings is left with a NULL
\* link to them, one that had none with a link to itself.
unlink(cc, i) ==
    [cc EXCEPT !.tree[Hash[keyOf(cc, i)]] = Without(@, i),
               !.lastused = Without(@, i),
               !.heap[i] = [@ EXCEPT !.unlinked = TRUE, !.cut = Len(chain(cc, i)) > 1]]

item_rlzAlways(cc, i) == item_fin(unlink(cc, i), i)

\* item_rlz(); the caller takes the timer out of pending.
item_rlz(cc, i) == LET u == unlink(cc, i)
                   IN  IF u.heap[i].usage = 0 THEN item_fin(u, i) ELSE u

\* fflist_moveback(&c->lastused)
moveback(cc, i) == [cc EXCEPT !.lastused = Append(Without(@, i), i)]
-----------------------------------------------------------------------------
(* Making room: the walks over lastused. *)

Unused(cc) == {n \in 1..Len(cc.lastused) : cc.heap[cc.lastused[n]].usage = 0}

\* The item a walk deletes: the first one nobody refers to, if there is one.
evict(cc) == {cc.lastused[n] : n \in {n \in Unused(cc) : \A m \in Unused(cc) : n <= m}}

Same(cc) == [c |-> cc, er |-> "ok"]

\* rm_unused_one()
rm_unused_one(cc) ==
    IF evict(cc) = {} THEN [c |-> cc, er |-> "numlimit"]
    ELSE Same(item_rlz(cc, CHOOSE i \in evict(cc) : TRUE))

\* rm_unused_mem(): when the first item it deletes is not enough, FFLIST_WALK
\* goes on through the lastused_li.next of the item just freed.
rm_unused_mem(cc, memneeded) ==
    IF evict(cc) = {} THEN [c |-> cc, er |-> "memlimit"]
    ELSE LET e == item_rlz(cc, CHOOSE i \in evict(cc) : TRUE)
         IN  [c |-> e, er |-> IF e.memsize + memneeded <= MemLimit THEN "ok" ELSE "walk"]

\* What ffcache_store() asks for: the key too, although it may be shared.
needMem(cc, k, len) == KeyLen[k] + len

\* The first half of ffcache_store(): both limits, in order.
makeroom(cc, k, len) ==
    LET one == IF Len_(cc) = MaxItems THEN rm_unused_one(cc) ELSE Same(cc)
    IN  IF one.er = "ok" /\ one.c.memsize + needMem(cc, k, len) > MemLimit
        THEN rm_unused_mem(one.c, needMem(cc, k, len)) ELSE one
-----------------------------------------------------------------------------
Running == ~resetting /\ ~closed /\ fault = "none"

\* The cache becomes cc; timers of items that are no longer linked were
\* disabled by item_rlz().
Becomes(cc) == /\ c' = cc
               /\ pending' = pending \cap Linked(cc)

\* The program ends here, and with it all it had.
Faults(where) == /\ fault' = where
                 /\ c' = Empty /\ pending' = {} /\ held' = NoRefs
                 /\ UNCHANGED <<multi, resetting, closed>>

free(s) == CHOOSE i \in Items : s[i] = Nil

\* ffcache_store() from the allocation on: a new key and a new node of the
\* tree, or one more item of the chain that is there.
insert(cc, k, len, refs) ==
    LET i == free(cc.heap)
        ch == cc.tree[Hash[k]]
        new == ch = << >>
        ck == IF new THEN free(cc.ckeys) ELSE cc.heap[ch[1]].ckey
    IN  [cc EXCEPT !.heap[i] = [ckey |-> ck, dlen |-> len, usage |-> refs,
                                unlinked |-> FALSE, cut |-> FALSE],
                   !.ckeys[ck] = [name |-> k, usage |-> IF new THEN 1 ELSE @.usage + 1],
                   !.tree[Hash[k]] = Append(@, i),
                   !.lastused = Append(@, i),
                   !.memsize = @ + len + IF new THEN KeyLen[k] ELSE 0]

\* Another item has the hash: a different key, or the same and no conf.multi.
Refused(cc, k) == LET ch == cc.tree[Hash[k]]
                  IN  ch # << >> /\ (keyOf(cc, ch[1]) # k \/ ~multi)

\* ffcache_store().  It makes room first and looks whether it may store then:
\* FFCACHE_ECOLL, FFCACHE_EEXISTS and FFCACHE_ESYS leave the evictions behind.
Store(k, len, refs) ==
    /\ Running /\ len <= MaxData /\ refs <= MaxRefs
    /\ \E i \in Items : c.heap[i] = Nil
    /\ LET room == makeroom(c, k, len)
       IN  \/ /\ room.er = "walk" /\ Faults("walk")
           \/ /\ room.er # "walk"      \* ENUMLIMIT, EMEMLIMIT, ECOLL, EEXISTS, ESYS
              /\ Becomes(room.c)
              /\ UNCHANGED <<multi, held, resetting, closed, fault>>
           \/ /\ room.er = "ok" /\ ~Refused(room.c, k)
              /\ c' = insert(room.c, k, len, refs)
              /\ pending' = (pending \cap Linked(room.c)) \cup {free(room.c.heap)}
              /\ held' = [held EXCEPT ![free(room.c.heap)] = refs]
              /\ UNCHANGED <<multi, resetting, closed, fault>>
-----------------------------------------------------------------------------
(* ffcache_fetch() *)

\* FFCACHE_ACQUIRE: an item nobody refers to leaves the cache.
Acquire(i) == /\ c.heap[i].usage = 0
              /\ Becomes(item_rlz([c EXCEPT !.heap[i].usage = 1], i))
              /\ held' = [held EXCEPT ![i] = 1]
              /\ UNCHANGED <<multi, resetting, closed, fault>>

\* Take refs references.  fflist_moveback() of an item that is in no list
\* writes through its NULL links.
Refer(i, refs) ==
    /\ refs # 0 /\ c.heap[i].usage + refs <= MaxRefs
    /\ IF c.heap[i].unlinked THEN Faults("list")
       ELSE /\ c' = moveback([c EXCEPT !.heap[i].usage = @ + refs], i)
            /\ held' = [held EXCEPT ![i] = @ + refs]
            /\ UNCHANGED <<multi, pending, resetting, closed, fault>>

Take(i, refs) == Acquire(i) \/ Refer(i, refs)

\* By key.
Fetch(k, refs) == /\ Running
                  /\ c.tree[Hash[k]] # << >>
                  /\ keyOf(c, c.tree[Hash[k]][1]) = k
                  /\ Take(c.tree[Hash[k]][1], refs)

\* By the ID of an item that the user knows to exist.
FetchId(i, refs) == /\ Running /\ c.heap[i] # Nil
                    /\ Take(i, refs)

\* FFCACHE_NEXT: the sibling behind, the first one behind the last.
FetchNext(i, refs) ==
    /\ Running /\ multi /\ c.heap[i] # Nil
    /\ IF c.heap[i].unlinked
       THEN c.heap[i].cut /\ Faults("sibling")
       ELSE LET ch == chain(c, i)
                n == CHOOSE n \in 1..Len(ch) : ch[n] = i
            IN  Len(ch) > 1 /\ Take(ch[(n % Len(ch)) + 1], refs)
-----------------------------------------------------------------------------
updatableAny(i) == ~c.heap[i].unlinked /\ c.heap[i].usage # 0
updatable(i) == ~c.heap[i].unlinked /\ c.heap[i].usage = 1

\* ffcache_update() of an item the user holds.  When it makes room the item
\* itself is safe, being referred to.  FFCACHE_ESYS leaves the evictions behind.
Update(i, len) ==
    /\ Running /\ c.heap[i] # Nil /\ held[i] > 0
    /\ len <= MaxData
    /\ updatable(i)
    /\ LET old == c.heap[i].dlen
           room == IF c.memsize + len > MemLimit + old
                   THEN rm_unused_mem(c, len - old) ELSE Same(c)
       IN  \/ /\ room.er = "walk" /\ Faults("walk")
           \/ /\ room.er # "walk"      \* EMEMLIMIT, ESYS
              /\ Becomes(room.c)
              /\ UNCHANGED <<multi, held, resetting, closed, fault>>
           \/ /\ room.er = "ok"
              /\ c' = moveback([room.c EXCEPT !.heap[i].dlen = len,
                                              !.memsize = (@ + len) - old], i)
              /\ pending' = (pending \cap Linked(room.c)) \cup {i}
              /\ UNCHANGED <<multi, held, resetting, closed, fault>>

\* ffcache_unref(), with FFCACHE_REMOVE if rm.
Unref(i, rm) ==
    /\ Running /\ held[i] > 0
    /\ LET u == [c EXCEPT !.heap[i].usage = @ - 1]
       IN  Becomes(IF rm /\ ~u.heap[i].unlinked THEN item_rlz(u, i)
                   ELSE IF u.heap[i].unlinked /\ u.heap[i].usage = 0 THEN item_fin(u, i)
                   ELSE u)
    /\ held' = [held EXCEPT ![i] = @ - 1]
    /\ UNCHANGED <<multi, resetting, closed, fault>>

\* item_onexpire(): the timer queue calls it, after ffcache_free() too.
Expire(i) == /\ fault = "none" /\ ~resetting /\ i \in pending
             /\ closed => \A h \in Hashes : c.tree[h] = << >>
             /\ IF c.heap[i] = Nil \/ closed THEN Faults("timer")
                ELSE /\ Becomes(item_rlz(c, i))
                     /\ UNCHANGED <<multi, held, resetting, closed, fault>>

\* The order of ffrbtl_enumsafe() and ffrbtl_freeall() in one chain: the
\* siblings, then the node.
inTurn(ch) == IF Len(ch) > 1 THEN ch[2] ELSE ch[1]

\* ffcache_reset(): item_rlz() for every item in the tree.
Reset == /\ Running
         /\ resetting' = TRUE
         /\ UNCHANGED <<c, multi, pending, held, closed, fault>>

ResetItem(h) == /\ resetting
                /\ c.tree[h] # << >>
                /\ Becomes(item_rlz(c, inTurn(c.tree[h])))
                /\ UNCHANGED <<multi, held, resetting, closed, fault>>

ResetEnd == /\ resetting
            /\ \A h \in Hashes : c.tree[h] = << >>
            /\ resetting' = FALSE
            /\ UNCHANGED <<c, multi, pending, held, closed, fault>>

\* ffcache_free(): item_fin() for every item in the tree, referred to or not.
\* It disables no timer.
Free == /\ Running
        /\ closed' = TRUE
        /\ held' = NoRefs                      \* nobody may unref an item any more,
        /\ c' = [c EXCEPT !.lastused = << >>]   \* and nothing goes through this list
        /\ UNCHANGED <<multi, pending, resetting, fault>>

FreeItem(h) == /\ closed
               /\ c.tree[h] # << >>
               /\ LET i == inTurn(c.tree[h])
                  IN  c' = item_fin([c EXCEPT !.tree[h] = Without(@, i)], i)
               /\ UNCHANGED <<multi, pending, held, resetting, closed, fault>>
-----------------------------------------------------------------------------
Refs == 0..MaxRefs

Next == \/ \E k \in Keys, len \in DataLens, n \in Refs : Store(k, len, n)
        \/ \E k \in Keys, n \in Refs : Fetch(k, n)
        \/ \E i \in Items, n \in Refs : FetchId(i, n)
        \/ \E i \in Items, n \in Refs : FetchNext(i, n)
        \/ \E i \in Items, len \in DataLens : Update(i, len)
        \/ \E i \in Items, rm \in BOOLEAN : Unref(i, rm)
        \/ \E i \in Items : Expire(i)
        \/ Reset \/ ResetEnd \/ Free
        \/ \E h \in Hashes : ResetItem(h) \/ FreeItem(h)

Spec == Init /\ [][Next]_vars
-----------------------------------------------------------------------------
TypeOK == /\ c \in [tree : [Hashes -> Seq(Items)], lastused : Seq(Items), memsize : Nat,
                     heap : [Items -> ItemType \cup {Nil}], ckeys : [Items -> KeyType \cup {Nil}]]
          /\ multi \in BOOLEAN /\ resetting \in BOOLEAN /\ closed \in BOOLEAN
          /\ pending \subseteq Items /\ held \in [Items -> Nat]
          /\ fault \in {"none", "walk", "list", "sibling", "timer"}

\* The limits hold whatever was stored, updated, shared and evicted.
WithinLimits == Len_(c) <= MaxItems /\ c.memsize <= MemLimit

dlens(cc) == [i \in Items |-> IF cc.heap[i] = Nil THEN 0 ELSE cc.heap[i].dlen]
klens(cc) == [k \in Items |-> IF cc.ckeys[k] = Nil THEN 0 ELSE KeyLen[cc.ckeys[k].name]]
users(cc, k) == {i \in Allocated(cc) : cc.heap[i].ckey = k}

\* memsize is "length of keys and data" of every item that still occupies
\* memory, unlinked ones included, and a key shared by several items counts
\* once, until the last of them is freed.
Accounted(cc) ==
    /\ cc.memsize = SumFunctionOnSet(dlens(cc), Items) + SumFunctionOnSet(klens(cc), Items)
    /\ \A k \in Items : IF cc.ckeys[k] = Nil THEN users(cc, k) = {}
                        ELSE cc.ckeys[k].usage = Cardinality(users(cc, k))

\* ... and it stays within the limit.
MemAccounted == WithinLimits /\ Accounted(c)

\* The tree and the list of last use hold the same items, each once and under
\* its own hash; a chain has one key; an item that is in neither is kept only
\* for those who refer to it and has no timer that would release it again.
Indexed == ~closed =>
    /\ \A i \in Items : i \in Linked(c) <=> \E n \in 1..Len(c.lastused) : c.lastused[n] = i
    /\ IsInjective(c.lastused)
    /\ \A h \in Hashes :
         /\ IsInjective(c.tree[h])
         /\ \A n \in 1..Len(c.tree[h]) : /\ c.tree[h][n] \in Linked(c)
                                         /\ Hash[keyOf(c, c.tree[h][n])] = h
                                         /\ c.heap[c.tree[h][n]].ckey = c.heap[c.tree[h][1]].ckey
    /\ \A i \in Linked(c) : \E n \in 1..Len(chain(c, i)) : chain(c, i)[n] = i
    /\ \A i \in Allocated(c) \ Linked(c) : c.heap[i].usage > 0
    /\ pending = Linked(c)

\* As long as the cache exists, an item is not freed while a user has yet to
\* unref it, whether it expired, was evicted, removed or reset meanwhile.
HeldIsAlive == ~closed => \A i \in Items :
    held[i] > 0 => c.heap[i] # Nil /\ c.heap[i].usage = held[i]

\* Data that two users refer to does not change under them, and an item that
\* left the cache never comes back.
StableWhileShared ==
    [][\A i \in Allocated(c) \cap Allocated(c)' :
         /\ held[i] > 1 => c'.heap[i].dlen = c.heap[i].dlen
         /\ c.heap[i].unlinked /\ held[i] > 0 => c'.heap[i].unlinked]_vars

\* "Delete unused items until there is enough free memory."
EvictsUntilEnough == fault # "walk"

\* "If not NULL, return item by this ID (don't perform lookup)."
FetchByIdReturns == fault # "list"

\* For model checking: two keys of one hash, and a longer one alone.
CollidingHash == <<1, 1, 2>>
SmallKeyLen == <<1, 1, 2>>
=============================================================================
