---------------------------- MODULE CacheProofs -----------------------------
(***************************************************************************)
(* Proofs about ffcache for every number of items and keys, whatever the   *)
(* hashes collide on, and every limit.                                     *)
(***************************************************************************)
EXTENDS Cache, DataLemmas

Caches == [tree : [Hashes -> Seq(Items)], lastused : Seq(Items), memsize : Nat,
           heap : [Items -> ItemType \cup {Nil}], ckeys : [Items -> KeyType \cup {Nil}]]

hashOf(cc, i) == Hash[keyOf(cc, i)]
OfHash(cc, h) == {i \in Linked(cc) : hashOf(cc, i) = h}
Once(s) == \A a, b \in 1..Len(s) : s[a] = s[b] => a = b

\* The tree holds the linked items, each once and under its hash, and those of
\* one hash share their key.
InTree(cc) ==
    /\ \A h \in Hashes : Once(cc.tree[h]) /\ ToSet(cc.tree[h]) = OfHash(cc, h)
    /\ \A i, j \in Linked(cc) : hashOf(cc, i) = hashOf(cc, j) => cc.heap[i].ckey = cc.heap[j].ckey

InList(cc) == Once(cc.lastused) /\ ToSet(cc.lastused) = Linked(cc)

\* What is not linked any more is there for its users.
Kept(cc) == \A i \in Allocated(cc) : i \notin Linked(cc) => cc.heap[i].usage > 0

Sound(cc) == cc \in Caches /\ Accounted(cc) /\ InTree(cc)

usageIs(cc, refs) == \A i \in Items : refs[i] = IF cc.heap[i] = Nil THEN 0 ELSE cc.heap[i].usage

CacheInv ==
    /\ TypeOK /\ Sound(c) /\ WithinLimits /\ ~(resetting /\ closed)
    /\ ~closed => InList(c) /\ Kept(c) /\ pending = Linked(c) /\ usageIs(c, held)
-----------------------------------------------------------------------------
(* What an item, its key and its hash are. *)

LEMMA ItemAndKey ==
    ASSUME NEW cc \in Caches, Accounted(cc), NEW i \in Allocated(cc)
    PROVE  /\ i \in Items /\ cc.heap[i] \in ItemType /\ cc.heap[i].ckey \in Items
           /\ i \in users(cc, cc.heap[i].ckey)
           /\ cc.ckeys[cc.heap[i].ckey] \in KeyType
           /\ keyOf(cc, i) \in Keys /\ hashOf(cc, i) \in Hashes
<1>1. i \in Items /\ cc.heap[i] \in ItemType
  BY DEF Caches, Allocated
<1>2. cc.heap[i].ckey \in Items
  BY <1>1 DEF ItemType
<1>3. i \in users(cc, cc.heap[i].ckey)
  BY DEF users
<1>4. cc.ckeys[cc.heap[i].ckey] # Nil
  BY <1>2, <1>3 DEF Accounted
<1>5. cc.ckeys[cc.heap[i].ckey] \in KeyType
  BY <1>2, <1>4 DEF Caches
<1>6. keyOf(cc, i) \in Keys
  BY <1>5 DEF keyOf, KeyType
<1> QED
  BY <1>1, <1>2, <1>3, <1>5, <1>6 DEF hashOf, Hashes

\* The accounts depend on the lengths of data and the keys alone.
LEMMA SameAccounts ==
    ASSUME NEW cc \in Caches, Accounted(cc), NEW dd \in Caches,
           dd.memsize = cc.memsize, dd.ckeys = cc.ckeys,
           \A j \in Items : dd.heap[j] = Nil <=> cc.heap[j] = Nil,
           \A j \in Allocated(cc) : /\ dd.heap[j].ckey = cc.heap[j].ckey
                                    /\ dd.heap[j].dlen = cc.heap[j].dlen
    PROVE  /\ Accounted(dd) /\ Allocated(dd) = Allocated(cc)
           /\ \A j \in Allocated(cc) : keyOf(dd, j) = keyOf(cc, j) /\ hashOf(dd, j) = hashOf(cc, j)
<1>1. Allocated(dd) = Allocated(cc)
  BY DEF Allocated
<1>2. dlens(dd) = dlens(cc)
  BY DEF dlens, Allocated
<1>3. klens(dd) = klens(cc)
  BY DEF klens
<1>4. \A k \in Items : users(dd, k) = users(cc, k)
  BY <1>1 DEF users
<1>5. Accounted(dd)
  BY <1>2, <1>3, <1>4 DEF Accounted
<1> QED
  BY <1>1, <1>5 DEF keyOf, hashOf

\* A list without an item of it.
LEMMA WithoutItem ==
    ASSUME NEW s \in Seq(Items), Once(s), NEW i \in ToSet(s)
    PROVE  /\ Without(s, i) \in Seq(Items) /\ Once(Without(s, i))
           /\ ToSet(Without(s, i)) = ToSet(s) \ {i}
<1> DEFINE n == CHOOSE n \in 1..Len(s) : s[n] = i
<1>1. n \in 1..Len(s) /\ s[n] = i
  BY ElementsOf
<1>2. Without(s, i) = RemoveAt(s, n)
  BY DEF Without
<1> HIDE DEF n
<1>3. Without(s, i) \in Seq(Items)
  BY <1>1, <1>2, RemovedAt
<1> QED
  BY <1>1, <1>2, <1>3, RemovedElements DEF Once

LEMMA WithItem ==
    ASSUME NEW s \in Seq(Items), Once(s), NEW i \in Items, i \notin ToSet(s)
    PROVE  /\ Append(s, i) \in Seq(Items) /\ Once(Append(s, i))
           /\ ToSet(Append(s, i)) = ToSet(s) \cup {i}
  BY AppendedElements DEF Once
-----------------------------------------------------------------------------
(* Taking an item out of the tree and the list. *)

LEMMA UnlinkFields ==
    ASSUME NEW cc, Sound(cc), NEW i \in Linked(cc), Once(cc.lastused), i \in ToSet(cc.lastused)
    PROVE  LET u == unlink(cc, i) IN
           /\ u \in Caches
           /\ u.memsize = cc.memsize /\ u.ckeys = cc.ckeys
           /\ u.lastused = Without(cc.lastused, i)
           /\ u.tree[hashOf(cc, i)] = Without(cc.tree[hashOf(cc, i)], i)
           /\ \A h \in Hashes : h # hashOf(cc, i) => u.tree[h] = cc.tree[h]
           /\ \A j \in Items : j # i => u.heap[j] = cc.heap[j]
           /\ u.heap[i] # Nil /\ u.heap[i].unlinked
           /\ u.heap[i].ckey = cc.heap[i].ckey /\ u.heap[i].dlen = cc.heap[i].dlen
           /\ u.heap[i].usage = cc.heap[i].usage
<1> DEFINE h == hashOf(cc, i)
           w == Without(cc.tree[h], i)
           l == Without(cc.lastused, i)
           x == Len(chain(cc, i)) > 1
           v == [cc.heap[i] EXCEPT !.unlinked = TRUE, !.cut = x]
           u == unlink(cc, i)
<1>1. cc \in Caches /\ Accounted(cc) /\ i \in Allocated(cc)
  BY DEF Sound, Linked
<1>2. i \in Items /\ cc.heap[i] \in ItemType /\ h \in Hashes
  BY <1>1, ItemAndKey
<1>3. cc.tree[h] \in Seq(Items) /\ cc.lastused \in Seq(Items)
  BY <1>1, <1>2 DEF Caches
<1>4. Once(cc.tree[h]) /\ i \in ToSet(cc.tree[h])
  BY <1>2 DEF Sound, InTree, OfHash
<1>5. w \in Seq(Items) /\ l \in Seq(Items)
  BY <1>3, <1>4, WithoutItem
<1>6. x \in BOOLEAN
  OBVIOUS
<1>7. v \in ItemType /\ v.unlinked /\ v.ckey = cc.heap[i].ckey /\ v.dlen = cc.heap[i].dlen
      /\ v.usage = cc.heap[i].usage
  BY <1>2, <1>6 DEF ItemType
<1>8. u = [cc EXCEPT !.tree[h] = w, !.lastused = l,
                     !.heap[i] = [@ EXCEPT !.unlinked = TRUE, !.cut = x]]
  BY DEF unlink, hashOf
<1> HIDE DEF h, w, l, x
<1>9. u = [tree |-> [cc.tree EXCEPT ![h] = w], lastused |-> l, memsize |-> cc.memsize,
           heap |-> [cc.heap EXCEPT ![i] = v], ckeys |-> cc.ckeys]
  BY <1>1, <1>2, <1>8 DEF Caches, ItemType
<1> HIDE DEF v, u
<1>10. u \in Caches
  BY <1>1, <1>2, <1>5, <1>7, <1>9 DEF Caches
<1>11. Nil # v
  BY <1>7, NilAssumption
<1>12. /\ u.memsize = cc.memsize /\ u.ckeys = cc.ckeys /\ u.lastused = l
       /\ u.tree[h] = w /\ \A g \in Hashes : g # h => u.tree[g] = cc.tree[g]
       /\ u.heap[i] = v /\ \A j \in Items : j # i => u.heap[j] = cc.heap[j]
  BY <1>1, <1>2, <1>9 DEF Caches
<1> QED
  BY <1>7, <1>10, <1>11, <1>12 DEF u, h, w, l

LEMMA Unlinking ==
    ASSUME NEW cc, Sound(cc), NEW i \in Linked(cc), Once(cc.lastused), i \in ToSet(cc.lastused)
    PROVE  LET u == unlink(cc, i) IN
           /\ Sound(u) /\ u.memsize = cc.memsize
           /\ Linked(u) = Linked(cc) \ {i} /\ Allocated(u) = Allocated(cc)
           /\ Once(u.lastused) /\ ToSet(u.lastused) = ToSet(cc.lastused) \ {i}
           /\ \A j \in Items : j # i => u.heap[j] = cc.heap[j]
           /\ u.heap[i] # Nil /\ u.heap[i].unlinked
           /\ u.heap[i].dlen = cc.heap[i].dlen /\ u.heap[i].usage = cc.heap[i].usage
<1> DEFINE h == hashOf(cc, i)
           u == unlink(cc, i)
<1>1. cc \in Caches /\ Accounted(cc) /\ InTree(cc) /\ i \in Allocated(cc) /\ i \in Items
  BY DEF Sound, Linked, Allocated
<1>2. /\ u \in Caches
      /\ u.memsize = cc.memsize /\ u.ckeys = cc.ckeys
      /\ u.lastused = Without(cc.lastused, i)
      /\ u.tree[h] = Without(cc.tree[h], i)
      /\ \A g \in Hashes : g # h => u.tree[g] = cc.tree[g]
      /\ \A j \in Items : j # i => u.heap[j] = cc.heap[j]
      /\ u.heap[i] # Nil /\ u.heap[i].unlinked
      /\ u.heap[i].ckey = cc.heap[i].ckey /\ u.heap[i].dlen = cc.heap[i].dlen
      /\ u.heap[i].usage = cc.heap[i].usage
  BY UnlinkFields
<1>3. h \in Hashes
  BY <1>1, ItemAndKey
<1> HIDE DEF u, h
<1>4. \A j \in Items : u.heap[j] = Nil <=> cc.heap[j] = Nil
  BY <1>1, <1>2 DEF Allocated
<1>5. \A j \in Allocated(cc) : u.heap[j].ckey = cc.heap[j].ckey /\ u.heap[j].dlen = cc.heap[j].dlen
  BY <1>2 DEF Allocated
<1>6. /\ Accounted(u) /\ Allocated(u) = Allocated(cc)
      /\ \A j \in Allocated(cc) : keyOf(u, j) = keyOf(cc, j) /\ hashOf(u, j) = hashOf(cc, j)
  BY <1>1, <1>2, <1>4, <1>5, SameAccounts
<1>7. Linked(u) = Linked(cc) \ {i}
  BY <1>2, <1>6 DEF Linked, Allocated
<1>8. \A g \in Hashes : OfHash(u, g) = OfHash(cc, g) \ {i}
  BY <1>6, <1>7 DEF OfHash, Linked
<1>9. ASSUME NEW g \in Hashes PROVE Once(u.tree[g]) /\ ToSet(u.tree[g]) = OfHash(u, g)
  <2>1. Once(cc.tree[g]) /\ ToSet(cc.tree[g]) = OfHash(cc, g) /\ cc.tree[g] \in Seq(Items)
    BY <1>1 DEF InTree, Caches
  <2>2. CASE g = h
    <3>1. i \in ToSet(cc.tree[g])
      BY <2>1, <2>2 DEF OfHash, h
    <3> QED
      BY <1>2, <1>8, <2>1, <2>2, <3>1, WithoutItem
  <2>3. CASE g # h
    <3>1. i \notin OfHash(cc, g)
      BY <2>3 DEF OfHash, h
    <3> QED
      BY <1>2, <1>8, <2>1, <2>3, <3>1
  <2> QED
    BY <2>2, <2>3
<1>10. ASSUME NEW j \in Linked(u), NEW k \in Linked(u), hashOf(u, j) = hashOf(u, k)
       PROVE  u.heap[j].ckey = u.heap[k].ckey
  <2>1. j \in Linked(cc) /\ k \in Linked(cc) /\ j \in Allocated(cc) /\ k \in Allocated(cc)
    BY <1>7 DEF Linked
  <2>2. cc.heap[j].ckey = cc.heap[k].ckey
    BY <1>1, <1>6, <1>10, <2>1 DEF InTree
  <2> QED
    BY <1>5, <2>1, <2>2
<1>11. InTree(u)
  BY <1>9, <1>10 DEF InTree
<1>12. Sound(u)
  BY <1>2, <1>6, <1>11 DEF Sound
<1>13. cc.lastused \in Seq(Items)
  BY <1>1 DEF Caches
<1>14. Once(u.lastused) /\ ToSet(u.lastused) = ToSet(cc.lastused) \ {i}
  BY <1>2, <1>13, WithoutItem
<1> QED
  BY <1>2, <1>6, <1>7, <1>12, <1>14 DEF u
-----------------------------------------------------------------------------
(* Freeing an item. *)

LEMMA SumsOf ==
    ASSUME NEW cc \in Caches
    PROVE  dlens(cc) \in [Items -> Nat] /\ klens(cc) \in [Items -> Nat]
<1>1. \A i \in Items : cc.heap[i] # Nil => cc.heap[i].dlen \in Nat
  BY DEF Caches, ItemType
<1>2. \A k \in Items : cc.ckeys[k] # Nil => KeyLen[cc.ckeys[k].name] \in Nat
  <2>1. \A k \in Items : cc.ckeys[k] # Nil => cc.ckeys[k].name \in Keys
    BY DEF Caches, KeyType
  <2> QED
    BY <2>1, LimitsAssumption
<1> QED
  BY <1>1, <1>2 DEF dlens, klens

LEMMA FinFields ==
    ASSUME NEW cc \in Caches, Accounted(cc), NEW i \in Allocated(cc)
    PROVE  LET f == item_fin(cc, i)
               k == cc.heap[i].ckey
               last == cc.ckeys[k].usage = 1 IN
           /\ f = [tree |-> cc.tree, lastused |-> cc.lastused, memsize |-> f.memsize,
                   heap |-> f.heap, ckeys |-> f.ckeys]
           /\ f.heap = [cc.heap EXCEPT ![i] = Nil]
           /\ last => /\ f.ckeys = [cc.ckeys EXCEPT ![k] = Nil]
                      /\ f.memsize = (cc.memsize - KeyLen[cc.ckeys[k].name]) - cc.heap[i].dlen
           /\ ~last => /\ f.ckeys = [cc.ckeys EXCEPT ![k] = [cc.ckeys[k] EXCEPT !.usage = cc.ckeys[k].usage - 1]]
                       /\ f.memsize = cc.memsize - cc.heap[i].dlen
<1> DEFINE k == cc.heap[i].ckey
           last == cc.ckeys[k].usage = 1
           f == item_fin(cc, i)
<1>1. CASE last
  <2>1. f = [[cc EXCEPT !.ckeys[k] = Nil, !.memsize = @ - KeyLen[cc.ckeys[k].name]]
                 EXCEPT !.heap[i] = Nil, !.memsize = @ - cc.heap[i].dlen]
    BY <1>1 DEF item_fin, key_unref
  <2> HIDE DEF f, k
  <2>2. f = [tree |-> cc.tree, lastused |-> cc.lastused,
             memsize |-> (cc.memsize - KeyLen[cc.ckeys[k].name]) - cc.heap[i].dlen,
             heap |-> [cc.heap EXCEPT ![i] = Nil], ckeys |-> [cc.ckeys EXCEPT ![k] = Nil]]
    BY <2>1 DEF Caches
  <2> QED
    BY <1>1, <2>2 DEF f, k
<1>2. CASE ~last
  <2>1. f = [[cc EXCEPT !.ckeys[k] = [cc.ckeys[k] EXCEPT !.usage = cc.ckeys[k].usage - 1]]
                 EXCEPT !.heap[i] = Nil, !.memsize = @ - cc.heap[i].dlen]
    BY <1>2 DEF item_fin, key_unref
  <2> HIDE DEF f, k
  <2>2. f = [tree |-> cc.tree, lastused |-> cc.lastused,
             memsize |-> cc.memsize - cc.heap[i].dlen,
             heap |-> [cc.heap EXCEPT ![i] = Nil],
             ckeys |-> [cc.ckeys EXCEPT ![k] = [cc.ckeys[k] EXCEPT !.usage = cc.ckeys[k].usage - 1]]]
    BY <2>1 DEF Caches
  <2> QED
    BY <1>2, <2>2 DEF f, k
<1> QED
  BY <1>1, <1>2

LEMMA Freeing ==
    ASSUME NEW cc \in Caches, Accounted(cc), NEW i \in Allocated(cc)
    PROVE  LET f == item_fin(cc, i) IN
           /\ f \in Caches /\ Accounted(f)
           /\ f.tree = cc.tree /\ f.lastused = cc.lastused
           /\ f.heap = [cc.heap EXCEPT ![i] = Nil]
           /\ f.memsize <= cc.memsize
           /\ Allocated(f) = Allocated(cc) \ {i}
           /\ Linked(f) = Linked(cc) \ {i}
           /\ \A j \in Allocated(f) : /\ f.heap[j] = cc.heap[j]
                                      /\ hashOf(f, j) = hashOf(cc, j)
<1> DEFINE k == cc.heap[i].ckey
           last == cc.ckeys[k].usage = 1
           f == item_fin(cc, i)
<1>1. /\ i \in Items /\ cc.heap[i] \in ItemType /\ k \in Items
      /\ i \in users(cc, k) /\ cc.ckeys[k] \in KeyType /\ keyOf(cc, i) \in Keys
  BY ItemAndKey
<1>2. /\ f = [tree |-> cc.tree, lastused |-> cc.lastused, memsize |-> f.memsize,
              heap |-> f.heap, ckeys |-> f.ckeys]
      /\ f.heap = [cc.heap EXCEPT ![i] = Nil]
      /\ last => /\ f.ckeys = [cc.ckeys EXCEPT ![k] = Nil]
                 /\ f.memsize = (cc.memsize - KeyLen[cc.ckeys[k].name]) - cc.heap[i].dlen
      /\ ~last => /\ f.ckeys = [cc.ckeys EXCEPT ![k] = [cc.ckeys[k] EXCEPT !.usage = cc.ckeys[k].usage - 1]]
                  /\ f.memsize = cc.memsize - cc.heap[i].dlen
  BY FinFields
<1>3. cc.heap[i].dlen \in Nat /\ cc.ckeys[k].name \in Keys /\ cc.ckeys[k].usage \in Nat \ {0}
      /\ KeyLen[cc.ckeys[k].name] \in Nat
  <2>1. cc.heap[i].dlen \in Nat /\ cc.ckeys[k].name \in Keys /\ cc.ckeys[k].usage \in Nat \ {0}
    BY <1>1 DEF ItemType, KeyType
  <2> QED
    BY <2>1, LimitsAssumption
<1> HIDE DEF f, k
<1>4. cc.heap \in [Items -> ItemType \cup {Nil}] /\ cc.ckeys \in [Items -> KeyType \cup {Nil}]
      /\ cc.tree \in [Hashes -> Seq(Items)] /\ cc.lastused \in Seq(Items) /\ cc.memsize \in Nat
  BY DEF Caches
<1>5. f.heap[i] = Nil /\ \A j \in Items : j # i => f.heap[j] = cc.heap[j]
  BY <1>1, <1>2, <1>4
<1>6. Allocated(f) = Allocated(cc) \ {i}
  BY <1>5 DEF Allocated
<1>7. Linked(f) = Linked(cc) \ {i}
  BY <1>5, <1>6 DEF Linked, Allocated
<1>8. ~last => [cc.ckeys[k] EXCEPT !.usage = cc.ckeys[k].usage - 1] \in KeyType
  BY <1>1, <1>3 DEF KeyType
<1>9. f.heap \in [Items -> ItemType \cup {Nil}] /\ f.ckeys \in [Items -> KeyType \cup {Nil}]
  <2>1. f.heap \in [Items -> ItemType \cup {Nil}]
    BY <1>2, <1>4
  <2>2. CASE last
    BY <1>2, <1>4, <2>1, <2>2
  <2>3. CASE ~last
    BY <1>2, <1>4, <1>8, <2>1, <2>3
  <2> QED
    BY <2>2, <2>3
<1>10. \A m \in Items : m # k => f.ckeys[m] = cc.ckeys[m]
  BY <1>2, <1>4
<1>11. last => f.ckeys[k] = Nil
  BY <1>1, <1>2, <1>4
<1>12. ~last => /\ f.ckeys[k] \in KeyType /\ f.ckeys[k].name = cc.ckeys[k].name
                /\ f.ckeys[k].usage = cc.ckeys[k].usage - 1
  BY <1>1, <1>2, <1>4, <1>8 DEF KeyType
<1>13. \A m \in Items : users(f, m) = users(cc, m) \ {i}
  BY <1>5, <1>6 DEF users, Allocated
<1>14. \A m \in Items : m # k => i \notin users(cc, m)
  BY DEF users, k
<1>15. \A m \in Items : m # k => users(f, m) = users(cc, m)
  BY <1>13, <1>14
<1>16. cc.ckeys[k].usage = Cardinality(users(cc, k)) /\ IsFiniteSet(users(cc, k))
  <2>1. cc.ckeys[k] # Nil
    BY <1>1, NilAssumption
  <2>2. users(cc, k) \subseteq Items
    BY DEF users, Allocated
  <2> QED
    BY <1>1, <2>1, <2>2, FS_Subset, ItemsAssumption DEF Accounted
<1>17. Cardinality(users(f, k)) = cc.ckeys[k].usage - 1 /\ IsFiniteSet(users(f, k))
  BY <1>1, <1>13, <1>16, FS_RemoveElement
<1>18. last => users(f, k) = {}
  BY <1>17, FS_EmptySet
<1>19. ASSUME NEW m \in Items
       PROVE IF f.ckeys[m] = Nil THEN users(f, m) = {}
             ELSE f.ckeys[m].usage = Cardinality(users(f, m))
  <2>1. CASE m # k
    BY <1>10, <1>15, <2>1 DEF Accounted
  <2>2. CASE m = k /\ last
    BY <1>11, <1>18, <2>2
  <2>3. CASE m = k /\ ~last
    BY <1>12, <1>17, <2>3, NilAssumption
  <2> QED
    BY <2>1, <2>2, <2>3
<1>20. dlens(cc) \in [Items -> Nat] /\ klens(cc) \in [Items -> Nat]
       /\ dlens(cc)[i] = cc.heap[i].dlen /\ klens(cc)[k] = KeyLen[cc.ckeys[k].name]
  <2>1. cc.heap[i] # Nil /\ cc.ckeys[k] # Nil
    BY <1>1, NilAssumption
  <2> QED
    BY <1>1, <2>1, SumsOf DEF dlens, klens
<1>21. \A m \in Items : f.ckeys[m] # Nil => KeyLen[f.ckeys[m].name] \in Nat
  <2>1. \A m \in Items : f.ckeys[m] # Nil => f.ckeys[m].name \in Keys
    BY <1>9 DEF KeyType
  <2> QED
    BY <2>1, LimitsAssumption
<1>24. SumFunctionOnSet(dlens(f), Items) = SumFunctionOnSet(dlens(cc), Items) - cc.heap[i].dlen
       /\ SumFunctionOnSet(dlens(cc), Items) \in Nat /\ SumFunctionOnSet(dlens(f), Items) \in Nat
  <2>1. dlens(f) \in [Items -> Nat] /\ dlens(f)[i] = 0
        /\ \A j \in Items : j # i => dlens(f)[j] = dlens(cc)[j]
    BY <1>1, <1>5, <1>20 DEF dlens
  <2>2. /\ SumFunctionOnSet(dlens(cc), Items) \in Nat /\ SumFunctionOnSet(dlens(f), Items) \in Nat
        /\ SumFunctionOnSet(dlens(f), Items)
             = SumFunctionOnSet(dlens(cc), Items) + dlens(f)[i] - dlens(cc)[i]
    BY <1>1, <1>20, <2>1, NatSumChange, ItemsAssumption
  <2> QED
    BY <1>3, <1>20, <2>1, <2>2
<1>25. SumFunctionOnSet(klens(cc), Items) \in Nat /\ SumFunctionOnSet(klens(f), Items) \in Nat
       /\ SumFunctionOnSet(klens(f), Items)
            = SumFunctionOnSet(klens(cc), Items) - IF last THEN KeyLen[cc.ckeys[k].name] ELSE 0
  <2>1. klens(f) \in [Items -> Nat] /\ \A m \in Items : m # k => klens(f)[m] = klens(cc)[m]
    BY <1>10, <1>20, <1>21 DEF klens
  <2>2. klens(f)[k] = IF last THEN 0 ELSE klens(cc)[k]
    BY <1>1, <1>11, <1>12, <1>20, NilAssumption DEF klens
  <2>3. /\ SumFunctionOnSet(klens(cc), Items) \in Nat /\ SumFunctionOnSet(klens(f), Items) \in Nat
        /\ SumFunctionOnSet(klens(f), Items)
             = SumFunctionOnSet(klens(cc), Items) + klens(f)[k] - klens(cc)[k]
    BY <1>1, <1>20, <2>1, NatSumChange, ItemsAssumption
  <2> QED
    BY <1>3, <1>20, <2>2, <2>3
<1>26. cc.memsize = SumFunctionOnSet(dlens(cc), Items) + SumFunctionOnSet(klens(cc), Items)
  BY DEF Accounted
<1>27. f.memsize = SumFunctionOnSet(dlens(f), Items) + SumFunctionOnSet(klens(f), Items)
  BY <1>2, <1>3, <1>24, <1>25, <1>26
<1>28. f.memsize \in Nat /\ f.memsize <= cc.memsize
  <2>1. f.memsize \in Nat
    BY <1>24, <1>25, <1>27
  <2>2. CASE last
    BY <1>2, <1>3, <1>4, <2>1, <2>2
  <2>3. CASE ~last
    BY <1>2, <1>3, <1>4, <2>1, <2>3
  <2> QED
    BY <2>1, <2>2, <2>3
<1>29. f \in Caches /\ f.tree = cc.tree /\ f.lastused = cc.lastused
  BY <1>2, <1>4, <1>9, <1>28 DEF Caches
<1>30. Accounted(f)
  BY <1>19, <1>27 DEF Accounted
<1>31. ASSUME NEW j \in Allocated(f) PROVE f.heap[j] = cc.heap[j] /\ hashOf(f, j) = hashOf(cc, j)
  <2>1. f.heap[j] = cc.heap[j] /\ f.heap[j].ckey \in Items
    BY <1>5, <1>6, <1>29, <1>30, ItemAndKey DEF Allocated
  <2>2. CASE f.heap[j].ckey # k
    BY <1>10, <2>1, <2>2 DEF hashOf, keyOf
  <2>3. CASE f.heap[j].ckey = k
    <3>1. j \in users(f, k)
      BY <2>3 DEF users
    <3>2. ~last
      BY <1>18, <3>1
    <3> QED
      BY <1>12, <2>1, <2>3, <3>2 DEF hashOf, keyOf
  <2> QED
    BY <2>2, <2>3
<1> QED
  BY <1>2, <1>6, <1>7, <1>28, <1>29, <1>30, <1>31 DEF f
-----------------------------------------------------------------------------
(* A cache that is in use, and what releasing an item does to it. *)

Good(cc) == Sound(cc) /\ InList(cc) /\ Kept(cc)

LEMMA FreeingUnlinked ==
    ASSUME NEW cc, Sound(cc), InList(cc), NEW i \in Allocated(cc), i \notin Linked(cc)
    PROVE  LET f == item_fin(cc, i) IN
           /\ Sound(f) /\ InList(f)
           /\ Linked(f) = Linked(cc) /\ Allocated(f) = Allocated(cc) \ {i}
           /\ f.heap[i] = Nil /\ \A j \in Items : j # i => f.heap[j] = cc.heap[j]
           /\ f.memsize <= cc.memsize
<1> DEFINE f == item_fin(cc, i)
<1>1. cc \in Caches /\ Accounted(cc) /\ InTree(cc)
  BY DEF Sound
<1>2. /\ f \in Caches /\ Accounted(f)
      /\ f.tree = cc.tree /\ f.lastused = cc.lastused
      /\ f.heap = [cc.heap EXCEPT ![i] = Nil]
      /\ f.memsize <= cc.memsize
      /\ Allocated(f) = Allocated(cc) \ {i} /\ Linked(f) = Linked(cc) \ {i}
      /\ \A j \in Allocated(f) : f.heap[j] = cc.heap[j] /\ hashOf(f, j) = hashOf(cc, j)
  BY <1>1, Freeing
<1> HIDE DEF f
<1>3. Linked(f) = Linked(cc) /\ \A j \in Linked(f) : j \in Allocated(f)
  BY <1>2 DEF Linked
<1>4. \A h \in Hashes : OfHash(f, h) = OfHash(cc, h)
  BY <1>2, <1>3 DEF OfHash
<1>5. \A j, k \in Linked(f) : hashOf(f, j) = hashOf(f, k) => f.heap[j].ckey = f.heap[k].ckey
  BY <1>1, <1>2, <1>3 DEF InTree
<1>6. InTree(f)
  BY <1>1, <1>2, <1>4, <1>5 DEF InTree
<1>7. InList(f)
  BY <1>2, <1>3 DEF InList
<1>8. cc.heap \in [Items -> ItemType \cup {Nil}] /\ i \in Items
  BY <1>1 DEF Caches, Allocated
<1>9. f.heap[i] = Nil /\ \A j \in Items : j # i => f.heap[j] = cc.heap[j]
  BY <1>2, <1>8
<1> QED
  BY <1>2, <1>3, <1>6, <1>7, <1>9 DEF Sound, f

\* item_rlz(): the item leaves the tree and the list; it is freed if nobody
\* refers to it, and otherwise kept as it was.
LEMMA Releasing ==
    ASSUME NEW cc, Good(cc), NEW i \in Linked(cc)
    PROVE  LET r == item_rlz(cc, i) IN
           /\ Good(r) /\ Linked(r) = Linked(cc) \ {i}
           /\ r.memsize <= cc.memsize
           /\ \A j \in Items : j # i => r.heap[j] = cc.heap[j]
           /\ cc.heap[i].usage = 0 => r.heap[i] = Nil
           /\ cc.heap[i].usage # 0 => /\ r.heap[i] # Nil /\ r.heap[i].unlinked
                                      /\ r.heap[i].usage = cc.heap[i].usage
                                      /\ r.heap[i].dlen = cc.heap[i].dlen
<1> DEFINE u == unlink(cc, i)
           r == item_rlz(cc, i)
<1>1. Sound(cc) /\ Once(cc.lastused) /\ ToSet(cc.lastused) = Linked(cc) /\ Kept(cc)
  BY DEF Good, InList
<1>2. /\ Sound(u) /\ u.memsize = cc.memsize
      /\ Linked(u) = Linked(cc) \ {i} /\ Allocated(u) = Allocated(cc)
      /\ Once(u.lastused) /\ ToSet(u.lastused) = Linked(cc) \ {i}
      /\ \A j \in Items : j # i => u.heap[j] = cc.heap[j]
      /\ u.heap[i] # Nil /\ u.heap[i].unlinked
      /\ u.heap[i].dlen = cc.heap[i].dlen /\ u.heap[i].usage = cc.heap[i].usage
  BY <1>1, Unlinking
<1>3. r = IF u.heap[i].usage = 0 THEN item_fin(u, i) ELSE u
  BY DEF item_rlz
<1> HIDE DEF u, r
<1>4. InList(u)
  BY <1>2 DEF InList
<1>5. i \in Allocated(u) /\ i \notin Linked(u) /\ i \in Items
  BY <1>2 DEF Linked, Allocated
<1>6. \A j \in Allocated(u) : j # i /\ j \notin Linked(u) => u.heap[j].usage > 0
  <2> SUFFICES ASSUME NEW j \in Allocated(u), j # i, j \notin Linked(u)
               PROVE  u.heap[j].usage > 0
    OBVIOUS
  <2>1. j \in Allocated(cc) /\ j \notin Linked(cc) /\ j \in Items
    BY <1>2 DEF Allocated
  <2> QED
    BY <1>1, <1>2, <2>1 DEF Kept
<1>7. u \in Caches /\ u.heap[i] \in ItemType
  BY <1>2, <1>5 DEF Sound, Caches
<1>8. u.heap[i].usage \in Nat /\ u.memsize \in Nat
  BY <1>7 DEF ItemType, Caches
<1>9. CASE u.heap[i].usage = 0
  <2>1. /\ Sound(r) /\ InList(r) /\ Linked(r) = Linked(u) /\ Allocated(r) = Allocated(u) \ {i}
        /\ r.heap[i] = Nil /\ \A j \in Items : j # i => r.heap[j] = u.heap[j]
        /\ r.memsize <= u.memsize
    BY <1>2, <1>3, <1>4, <1>5, <1>9, FreeingUnlinked
  <2>2. Kept(r)
    BY <1>6, <2>1 DEF Kept, Allocated
  <2>3. Good(r)
    BY <2>1, <2>2 DEF Good
  <2> QED
    BY <1>2, <1>9, <2>1, <2>3 DEF r
<1>10. CASE u.heap[i].usage # 0
  <2>1. r = u
    BY <1>3, <1>10
  <2>2. u.heap[i].usage > 0
    BY <1>8, <1>10
  <2>3. Kept(u)
    BY <1>6, <2>2 DEF Kept
  <2>4. Good(u)
    BY <1>2, <1>4, <2>3 DEF Good
  <2> QED
    BY <1>2, <1>8, <1>10, <2>1, <2>4 DEF r
<1> QED
  BY <1>9, <1>10

counted(cc, i, n) == [cc EXCEPT !.heap[i].usage = n]

\* Counting references changes nothing else.
LEMMA Counting ==
    ASSUME NEW cc, Sound(cc), InList(cc), NEW i \in Allocated(cc), NEW n \in Nat
    PROVE  LET dd == counted(cc, i, n) IN
           /\ Sound(dd) /\ InList(dd)
           /\ Linked(dd) = Linked(cc) /\ Allocated(dd) = Allocated(cc)
           /\ dd.memsize = cc.memsize
           /\ dd.heap[i] # Nil /\ dd.heap[i].usage = n
           /\ dd.heap[i].dlen = cc.heap[i].dlen /\ dd.heap[i].unlinked = cc.heap[i].unlinked
           /\ \A j \in Items : j # i => dd.heap[j] = cc.heap[j]
<1> DEFINE v == [cc.heap[i] EXCEPT !.usage = n]
           dd == counted(cc, i, n)
<1>1. cc \in Caches /\ Accounted(cc) /\ InTree(cc) /\ i \in Items /\ cc.heap[i] \in ItemType
  BY ItemAndKey DEF Sound
<1>2. /\ v \in ItemType /\ v.usage = n /\ v.ckey = cc.heap[i].ckey /\ v.dlen = cc.heap[i].dlen
      /\ v.unlinked = cc.heap[i].unlinked
  BY <1>1 DEF ItemType
<1>3. dd = [tree |-> cc.tree, lastused |-> cc.lastused, memsize |-> cc.memsize,
            heap |-> [cc.heap EXCEPT ![i] = v], ckeys |-> cc.ckeys]
  <2>1. dd = [cc EXCEPT !.heap[i] = v]
    BY DEF counted
  <2> HIDE DEF v, dd
  <2> QED
    BY <1>1, <2>1 DEF Caches
<1> HIDE DEF v
<1> HIDE DEF dd
<1>4. dd \in Caches
  BY <1>1, <1>2, <1>3 DEF Caches
<1>5. /\ dd.tree = cc.tree /\ dd.lastused = cc.lastused /\ dd.memsize = cc.memsize
      /\ dd.ckeys = cc.ckeys
      /\ dd.heap[i] = v /\ \A j \in Items : j # i => dd.heap[j] = cc.heap[j]
  BY <1>1, <1>3 DEF Caches
<1>6. v # Nil /\ cc.heap[i] # Nil
  BY <1>1, <1>2, NilAssumption
<1>7. \A j \in Items : dd.heap[j] = Nil <=> cc.heap[j] = Nil
  BY <1>5, <1>6
<1>8. \A j \in Allocated(cc) : /\ dd.heap[j].ckey = cc.heap[j].ckey
                               /\ dd.heap[j].dlen = cc.heap[j].dlen
                               /\ dd.heap[j].unlinked = cc.heap[j].unlinked
  BY <1>2, <1>5 DEF Allocated
<1>9. /\ Accounted(dd) /\ Allocated(dd) = Allocated(cc)
      /\ \A j \in Allocated(cc) : keyOf(dd, j) = keyOf(cc, j) /\ hashOf(dd, j) = hashOf(cc, j)
  BY <1>1, <1>4, <1>5, <1>7, <1>8, SameAccounts
<1>10. Linked(dd) = Linked(cc) /\ \A j \in Linked(cc) : j \in Allocated(cc)
  BY <1>8, <1>9 DEF Linked
<1>11. \A h \in Hashes : OfHash(dd, h) = OfHash(cc, h)
  BY <1>9, <1>10 DEF OfHash
<1>12. \A j, k \in Linked(dd) : hashOf(dd, j) = hashOf(dd, k) => dd.heap[j].ckey = dd.heap[k].ckey
  BY <1>1, <1>8, <1>9, <1>10 DEF InTree
<1>13. InTree(dd)
  BY <1>1, <1>5, <1>11, <1>12 DEF InTree
<1>14. InList(dd)
  BY <1>5, <1>10 DEF InList
<1> QED
  BY <1>2, <1>4, <1>5, <1>6, <1>9, <1>10, <1>13, <1>14 DEF Sound, dd

\* fflist_moveback(): the item is last in the list.
LEMMA MovingBack ==
    ASSUME NEW cc, Sound(cc), InList(cc), NEW i \in Linked(cc)
    PROVE  LET m == moveback(cc, i) IN
           /\ Sound(m) /\ InList(m) /\ Linked(m) = Linked(cc) /\ Allocated(m) = Allocated(cc)
           /\ m.heap = cc.heap /\ m.memsize = cc.memsize
<1> DEFINE m == moveback(cc, i)
           w == Without(cc.lastused, i)
           l == Append(w, i)
<1>1. cc \in Caches /\ Accounted(cc) /\ InTree(cc) /\ i \in Items
  BY DEF Sound, Linked, Allocated
<1>2. cc.lastused \in Seq(Items) /\ Once(cc.lastused) /\ ToSet(cc.lastused) = Linked(cc)
  BY <1>1 DEF Caches, InList
<1>3. w \in Seq(Items) /\ Once(w) /\ ToSet(w) = Linked(cc) \ {i}
  BY <1>2, WithoutItem
<1>4. m = [cc EXCEPT !.lastused = l]
  BY DEF moveback
<1> HIDE DEF w, m
<1>5. l \in Seq(Items) /\ Once(l) /\ ToSet(l) = (Linked(cc) \ {i}) \cup {i}
  BY <1>1, <1>3, WithItem
<1> HIDE DEF l
<1>6. m = [tree |-> cc.tree, lastused |-> l, memsize |-> cc.memsize,
           heap |-> cc.heap, ckeys |-> cc.ckeys]
  BY <1>1, <1>4 DEF Caches
<1>7. m \in Caches
  BY <1>1, <1>5, <1>6 DEF Caches
<1>8. /\ m.tree = cc.tree /\ m.lastused = l /\ m.memsize = cc.memsize
      /\ m.heap = cc.heap /\ m.ckeys = cc.ckeys
  BY <1>6
<1>9. Accounted(m) /\ Allocated(m) = Allocated(cc)
      /\ \A j \in Allocated(cc) : hashOf(m, j) = hashOf(cc, j)
  BY <1>1, <1>7, <1>8, SameAccounts
<1>10. Linked(m) = Linked(cc) /\ \A j \in Linked(cc) : j \in Allocated(cc)
  BY <1>8, <1>9 DEF Linked
<1>11. \A h \in Hashes : OfHash(m, h) = OfHash(cc, h)
  BY <1>9, <1>10 DEF OfHash
<1>12. \A j, k \in Linked(m) : hashOf(m, j) = hashOf(m, k) => m.heap[j].ckey = m.heap[k].ckey
  BY <1>1, <1>8, <1>9, <1>10 DEF InTree
<1>13. InTree(m)
  BY <1>1, <1>8, <1>11, <1>12 DEF InTree
<1>14. InList(m)
  BY <1>5, <1>8, <1>10 DEF InList
<1> QED
  BY <1>7, <1>8, <1>9, <1>10, <1>13, <1>14 DEF Sound, m
-----------------------------------------------------------------------------
(* Making room. *)

\* dd is cc without some items that were linked and that nobody referred to.
Evicted(cc, dd) ==
    /\ Good(dd) /\ dd.memsize <= cc.memsize
    /\ Linked(dd) \subseteq Linked(cc)
    /\ \A j \in Items : \/ dd.heap[j] = cc.heap[j]
                        \/ dd.heap[j] = Nil /\ j \in Linked(cc) /\ cc.heap[j].usage = 0

LEMMA EvictedTwice ==
    ASSUME NEW aa, NEW bb, NEW cc, Good(aa), Evicted(aa, bb), Evicted(bb, cc)
    PROVE  Evicted(aa, cc)
<1>1. aa.memsize \in Nat /\ bb.memsize \in Nat /\ cc.memsize \in Nat
  BY DEF Good, Sound, Caches, Evicted
<1>2. bb.memsize <= aa.memsize /\ cc.memsize <= bb.memsize
  BY DEF Evicted
<1>3. cc.memsize <= aa.memsize
  BY <1>1, <1>2
<1>4. Good(cc) /\ Linked(cc) \subseteq Linked(aa)
  BY DEF Evicted
<1>5. ASSUME NEW j \in Items
      PROVE  cc.heap[j] = aa.heap[j] \/ (cc.heap[j] = Nil /\ j \in Linked(aa) /\ aa.heap[j].usage = 0)
  <2>1. bb.heap[j] = aa.heap[j] \/ (bb.heap[j] = Nil /\ j \in Linked(aa) /\ aa.heap[j].usage = 0)
    BY DEF Evicted
  <2>2. cc.heap[j] = bb.heap[j] \/ (cc.heap[j] = Nil /\ j \in Linked(bb) /\ bb.heap[j].usage = 0)
    BY DEF Evicted
  <2>3. j \in Linked(bb) => bb.heap[j] # Nil /\ j \in Linked(aa)
    BY DEF Linked, Allocated, Evicted
  <2> QED
    BY <2>1, <2>2, <2>3
<1> QED
  BY <1>3, <1>4, <1>5 DEF Evicted

LEMMA EvictedSame ==
    ASSUME NEW cc, Good(cc)
    PROVE  Evicted(cc, cc) /\ cc.memsize \in Nat
<1>1. cc.memsize \in Nat
  BY DEF Good, Sound, Caches
<1> QED
  BY <1>1 DEF Evicted

LEMMA Evicting ==
    ASSUME NEW cc, Good(cc), evict(cc) # {}
    PROVE  LET i == CHOOSE i \in evict(cc) : TRUE IN
           /\ i \in Linked(cc) /\ cc.heap[i].usage = 0
           /\ Evicted(cc, item_rlz(cc, i)) /\ Linked(item_rlz(cc, i)) = Linked(cc) \ {i}
<1> DEFINE i == CHOOSE i \in evict(cc) : TRUE
           r == item_rlz(cc, i)
<1>1. i \in evict(cc)
  OBVIOUS
<1> HIDE DEF i
<1>2. PICK n \in Unused(cc) : i = cc.lastused[n]
  BY <1>1 DEF evict
<1>3. n \in 1..Len(cc.lastused) /\ cc.heap[i].usage = 0
  BY <1>2 DEF Unused
<1>4. cc.lastused \in Seq(Items) /\ ToSet(cc.lastused) = Linked(cc)
  BY DEF Good, Sound, Caches, InList
<1>5. i \in Linked(cc)
  BY <1>2, <1>3, <1>4, ElementsOf
<1>6. /\ Good(r) /\ Linked(r) = Linked(cc) \ {i} /\ r.memsize <= cc.memsize
      /\ \A j \in Items : j # i => r.heap[j] = cc.heap[j]
      /\ r.heap[i] = Nil
  BY <1>3, <1>5, Releasing
<1> HIDE DEF r
<1>7. Evicted(cc, r)
  BY <1>3, <1>5, <1>6 DEF Evicted
<1> QED
  BY <1>3, <1>5, <1>6, <1>7 DEF i, r

LEMMA RemovingOne ==
    ASSUME NEW cc, Good(cc)
    PROVE  LET r == rm_unused_one(cc) IN
           /\ Evicted(cc, r.c) /\ r.er \in {"ok", "numlimit"}
           /\ r.er = "ok" => \E i \in Linked(cc) : Linked(r.c) = Linked(cc) \ {i}
<1>1. CASE evict(cc) = {}
  <2>1. rm_unused_one(cc) = [c |-> cc, er |-> "numlimit"]
    BY <1>1 DEF rm_unused_one
  <2> QED
    BY <2>1, EvictedSame
<1>2. CASE evict(cc) # {}
  <2> DEFINE i == CHOOSE i \in evict(cc) : TRUE
  <2>1. rm_unused_one(cc) = [c |-> item_rlz(cc, i), er |-> "ok"]
    BY <1>2 DEF rm_unused_one, Same
  <2>2. i \in Linked(cc) /\ Evicted(cc, item_rlz(cc, i))
        /\ Linked(item_rlz(cc, i)) = Linked(cc) \ {i}
    BY <1>2, Evicting
  <2> HIDE DEF i
  <2> QED
    BY <2>1, <2>2
<1> QED
  BY <1>1, <1>2

LEMMA RemovingMemory ==
    ASSUME NEW cc, Good(cc), NEW n \in Int
    PROVE  LET r == rm_unused_mem(cc, n) IN
           /\ Evicted(cc, r.c)
           /\ r.er = "ok" => r.c.memsize + n <= MemLimit
<1>1. CASE evict(cc) = {}
  <2>1. rm_unused_mem(cc, n) = [c |-> cc, er |-> "memlimit"]
    BY <1>1 DEF rm_unused_mem
  <2> QED
    BY <2>1, EvictedSame
<1>2. CASE evict(cc) # {}
  <2> DEFINE e == item_rlz(cc, CHOOSE i \in evict(cc) : TRUE)
  <2>1. rm_unused_mem(cc, n) =
          [c |-> e, er |-> IF e.memsize + n <= MemLimit THEN "ok" ELSE "walk"]
    BY <1>2 DEF rm_unused_mem
  <2>2. Evicted(cc, e)
    BY <1>2, Evicting
  <2> HIDE DEF e
  <2> QED
    BY <2>1, <2>2
<1> QED
  BY <1>1, <1>2

LEMMA LenType ==
    ASSUME NEW cc
    PROVE  IsFiniteSet(Linked(cc)) /\ Len_(cc) \in Nat
<1>1. Linked(cc) \subseteq Items
  BY DEF Linked, Allocated
<1> QED
  BY <1>1, ItemsAssumption, FS_Subset, FS_CardinalityType DEF Len_

\* An eviction never makes the list longer.
LEMMA EvictedLen ==
    ASSUME NEW cc, NEW dd, Linked(dd) \subseteq Linked(cc)
    PROVE  Len_(dd) <= Len_(cc)
  BY LenType, FS_Subset DEF Len_

LEMMA MakingRoom ==
    ASSUME NEW cc, Good(cc), Len_(cc) <= MaxItems, NEW k \in Keys, NEW len \in Nat
    PROVE  LET room == makeroom(cc, k, len) IN
           /\ Evicted(cc, room.c)
           /\ room.er = "ok" => /\ Len_(room.c) < MaxItems
                                /\ room.c.memsize + (KeyLen[k] + len) <= MemLimit
<1> DEFINE one == IF Len_(cc) = MaxItems THEN rm_unused_one(cc) ELSE Same(cc)
           need == needMem(cc, k, len)
           room == makeroom(cc, k, len)
<1>1. need \in Nat /\ need = KeyLen[k] + len
  BY LimitsAssumption DEF needMem
<1>2. room = IF one.er = "ok" /\ one.c.memsize + need > MemLimit
             THEN rm_unused_mem(one.c, need) ELSE one
  BY DEF makeroom
<1>3. Evicted(cc, one.c) /\ (one.er = "ok" => Len_(one.c) < MaxItems)
  <2>1. CASE Len_(cc) = MaxItems
    <3>1. one = rm_unused_one(cc)
      BY <2>1
    <3> HIDE DEF one
    <3>2. /\ Evicted(cc, one.c)
          /\ one.er = "ok" => \E i \in Linked(cc) : Linked(one.c) = Linked(cc) \ {i}
      BY <3>1, RemovingOne
    <3>3. ASSUME one.er = "ok" PROVE Len_(one.c) < MaxItems
      <4>1. PICK i \in Linked(cc) : Linked(one.c) = Linked(cc) \ {i}
        BY <3>2, <3>3
      <4>2. Len_(one.c) = Len_(cc) - 1
        BY <4>1, LenType, FS_RemoveElement DEF Len_
      <4> QED
        BY <2>1, <4>2, LenType
    <3> QED
      BY <3>2, <3>3
  <2>2. CASE Len_(cc) # MaxItems
    <3>1. one.c = cc
      BY <2>2 DEF Same
    <3>2. Len_(cc) < MaxItems
      BY <2>2, LenType, LimitsAssumption
    <3> HIDE DEF one
    <3> QED
      BY <3>1, <3>2, EvictedSame
  <2> QED
    BY <2>1, <2>2
<1> HIDE DEF one, need, room
<1>4. Good(one.c)
  BY <1>3 DEF Evicted
<1>5. one.c.memsize \in Nat
  BY <1>4, EvictedSame
<1>6. CASE one.er = "ok" /\ one.c.memsize + need > MemLimit
  <2>1. room = rm_unused_mem(one.c, need) /\ need \in Int
    BY <1>1, <1>2, <1>6
  <2>2. Evicted(one.c, room.c) /\ (room.er = "ok" => room.c.memsize + need <= MemLimit)
    BY <1>4, <2>1, RemovingMemory
  <2>3. Evicted(cc, room.c)
    BY <1>3, <2>2, EvictedTwice
  <2>4. Len_(room.c) < MaxItems
    <3>1. Len_(room.c) <= Len_(one.c) /\ Len_(one.c) < MaxItems
      BY <1>3, <1>6, <2>2, EvictedLen DEF Evicted
    <3> QED
      BY <3>1, LenType, LimitsAssumption
  <2> QED
    BY <1>1, <2>2, <2>3, <2>4 DEF room
<1>7. CASE ~(one.er = "ok" /\ one.c.memsize + need > MemLimit)
  <2>1. room = one
    BY <1>2, <1>7
  <2>2. one.er = "ok" => one.c.memsize + need <= MemLimit
    BY <1>1, <1>5, <1>7, LimitsAssumption
  <2> QED
    BY <1>1, <1>3, <2>1, <2>2 DEF room
<1> QED
  BY <1>6, <1>7
-----------------------------------------------------------------------------
(* Storing an item. *)

LEMMA FreeSlot ==
    ASSUME NEW s, \E i \in Items : s[i] = Nil
    PROVE  free(s) \in Items /\ s[free(s)] = Nil
  BY DEF free

\* Every key has an item of its own: as long as there is room for an item there
\* is room for a key.
LEMMA FreeKey ==
    ASSUME NEW cc \in Caches, Accounted(cc), \E i \in Items : cc.heap[i] = Nil
    PROVE  \E k \in Items : cc.ckeys[k] = Nil
<1> SUFFICES ASSUME \A k \in Items : cc.ckeys[k] # Nil PROVE FALSE
  OBVIOUS
<1> DEFINE A == Allocated(cc)
           f == [i \in A |-> cc.heap[i].ckey]
<1>1. A \subseteq Items /\ A # Items /\ IsFiniteSet(A)
  BY ItemsAssumption, FS_Subset DEF Allocated
<1>2. ASSUME NEW k \in Items PROVE \E i \in A : f[i] = k
  <2>1. cc.ckeys[k].usage \in Nat \ {0}
    BY DEF Caches, KeyType
  <2>2. Cardinality(users(cc, k)) # 0
    BY <2>1 DEF Accounted
  <2>3. users(cc, k) # {}
    BY <2>2, FS_EmptySet
  <2> QED
    BY <2>3 DEF users
<1>3. f \in [A -> Items]
  BY ItemAndKey
<1>4. f \in Surjection(A, Items)
  BY <1>2, <1>3 DEF Surjection
<1> HIDE DEF f, A
<1>5. Cardinality(Items) <= Cardinality(A)
  BY <1>1, <1>4, FS_Surjection
<1>6. Cardinality(A) < Cardinality(Items)
  BY <1>1, ItemsAssumption, FS_Subset, FS_CardinalityType
<1> QED
  BY <1>1, <1>5, <1>6, ItemsAssumption, FS_CardinalityType

keyFor(cc, k) == LET ch == cc.tree[Hash[k]]
                 IN  IF ch = << >> THEN free(cc.ckeys) ELSE cc.heap[ch[1]].ckey

LEMMA KeyForStored ==
    ASSUME NEW cc, Sound(cc), \E i \in Items : cc.heap[i] = Nil,
           NEW k \in Keys, ~Refused(cc, k)
    PROVE  /\ Hash[k] \in Hashes /\ keyFor(cc, k) \in Items
           /\ \A j \in OfHash(cc, Hash[k]) : cc.heap[j].ckey = keyFor(cc, k)
           /\ cc.tree[Hash[k]] = << >> => /\ cc.ckeys[keyFor(cc, k)] = Nil
                                          /\ users(cc, keyFor(cc, k)) = {}
           /\ cc.tree[Hash[k]] # << >> => /\ cc.ckeys[keyFor(cc, k)] \in KeyType
                                          /\ cc.ckeys[keyFor(cc, k)].name = k
<1> DEFINE h == Hash[k]
           ch == cc.tree[h]
<1>1. cc \in Caches /\ Accounted(cc) /\ InTree(cc)
  BY DEF Sound
<1>2. h \in Hashes
  BY DEF Hashes
<1>3. ToSet(ch) = OfHash(cc, h) /\ ch \in Seq(Items)
  BY <1>1, <1>2 DEF InTree, Caches
<1>4. CASE ch = << >>
  <2>1. keyFor(cc, k) = free(cc.ckeys)
    BY <1>4 DEF keyFor
  <2>2. keyFor(cc, k) \in Items /\ cc.ckeys[keyFor(cc, k)] = Nil
    BY <1>1, <2>1, FreeKey, FreeSlot
  <2>3. users(cc, keyFor(cc, k)) = {}
    BY <1>1, <2>2 DEF Accounted
  <2>4. OfHash(cc, h) = {}
    BY <1>3, <1>4, NoElements
  <2> QED
    BY <1>2, <1>4, <2>2, <2>3, <2>4
<1>5. CASE ch # << >>
  <2>1. keyFor(cc, k) = cc.heap[ch[1]].ckey
    BY <1>5 DEF keyFor
  <2>2. 1 \in 1..Len(ch)
    BY <1>3, <1>5, EmptySeq
  <2>3. ch[1] \in OfHash(cc, h)
    BY <1>3, <2>2, ElementsOf
  <2>4. ch[1] \in Linked(cc) /\ ch[1] \in Allocated(cc) /\ hashOf(cc, ch[1]) = h
    BY <2>3 DEF OfHash, Linked
  <2>5. keyFor(cc, k) \in Items /\ cc.ckeys[keyFor(cc, k)] \in KeyType
    BY <1>1, <2>1, <2>4, ItemAndKey
  <2>6. keyOf(cc, ch[1]) = k
    BY <1>5 DEF Refused
  <2>7. cc.ckeys[keyFor(cc, k)].name = k
    BY <2>1, <2>6 DEF keyOf
  <2>8. \A j \in OfHash(cc, h) : cc.heap[j].ckey = keyFor(cc, k)
    BY <1>1, <2>1, <2>4 DEF OfHash, InTree
  <2> QED
    BY <1>2, <1>5, <2>5, <2>7, <2>8
<1> QED
  BY <1>4, <1>5

LEMMA InsertFields ==
    ASSUME NEW cc, Sound(cc), \E i \in Items : cc.heap[i] = Nil,
           NEW k \in Keys, ~Refused(cc, k), NEW len \in Nat, NEW refs \in Nat
    PROVE  LET d == insert(cc, k, len, refs)
               i == free(cc.heap)
               ck == keyFor(cc, k)
               new == cc.tree[Hash[k]] = << >> IN
           /\ d \in Caches /\ i \in Items /\ cc.heap[i] = Nil
           /\ d.tree[Hash[k]] = Append(cc.tree[Hash[k]], i)
           /\ \A h \in Hashes : h # Hash[k] => d.tree[h] = cc.tree[h]
           /\ d.lastused = Append(cc.lastused, i)
           /\ d.memsize = cc.memsize + len + IF new THEN KeyLen[k] ELSE 0
           /\ \A j \in Items : j # i => d.heap[j] = cc.heap[j]
           /\ d.heap[i] # Nil /\ d.heap[i].ckey = ck /\ d.heap[i].dlen = len
           /\ d.heap[i].usage = refs /\ ~d.heap[i].unlinked
           /\ \A m \in Items : m # ck => d.ckeys[m] = cc.ckeys[m]
           /\ d.ckeys[ck] # Nil /\ d.ckeys[ck].name = k
           /\ d.ckeys[ck].usage = IF new THEN 1 ELSE cc.ckeys[ck].usage + 1
<1> DEFINE h == Hash[k]
           ch == cc.tree[h]
           new == ch = << >>
           i == free(cc.heap)
           ck == keyFor(cc, k)
           u == IF new THEN 1 ELSE cc.ckeys[ck].usage + 1
           v == [ckey |-> ck, dlen |-> len, usage |-> refs, unlinked |-> FALSE, cut |-> FALSE]
           kv == [name |-> k, usage |-> u]
           ms == cc.memsize + len + IF new THEN KeyLen[k] ELSE 0
           d == insert(cc, k, len, refs)
<1>1. cc \in Caches /\ Accounted(cc) /\ InTree(cc)
  BY DEF Sound
<1>2. i \in Items /\ cc.heap[i] = Nil
  BY FreeSlot
<1>3. h \in Hashes /\ ck \in Items /\ (~new => cc.ckeys[ck] \in KeyType)
  BY KeyForStored
<1>4. KeyLen[k] \in Nat
  BY LimitsAssumption
<1>5. u \in Nat \ {0}
  BY <1>3 DEF KeyType
<1>6. ms \in Nat
  BY <1>1, <1>4 DEF Caches
<1>7. d = [cc EXCEPT !.heap[i] = v, !.ckeys[ck] = kv, !.tree[h] = Append(ch, i),
                     !.lastused = Append(cc.lastused, i), !.memsize = ms]
  BY DEF insert, keyFor
<1>8. Append(ch, i) \in Seq(Items) /\ Append(cc.lastused, i) \in Seq(Items)
  BY <1>1, <1>2, <1>3, AppendedElements DEF Caches
<1> HIDE DEF u
<1>9. v \in ItemType /\ kv \in KeyType
  BY <1>3, <1>5 DEF ItemType, KeyType
<1>10. v # Nil /\ kv # Nil
  BY <1>9, NilAssumption
<1>11. v.ckey = ck /\ v.dlen = len /\ v.usage = refs /\ ~v.unlinked /\ kv.name = k /\ kv.usage = u
  OBVIOUS
<1> HIDE DEF d, v, kv, ms, i, ck, h
<1>12. d = [tree |-> [cc.tree EXCEPT ![h] = Append(ch, i)], lastused |-> Append(cc.lastused, i),
            memsize |-> ms, heap |-> [cc.heap EXCEPT ![i] = v],
            ckeys |-> [cc.ckeys EXCEPT ![ck] = kv]]
  BY <1>1, <1>7 DEF Caches
<1>13. d \in Caches
  BY <1>1, <1>2, <1>3, <1>6, <1>8, <1>9, <1>12 DEF Caches
<1>14. /\ d.tree[h] = Append(ch, i) /\ \A g \in Hashes : g # h => d.tree[g] = cc.tree[g]
       /\ d.lastused = Append(cc.lastused, i) /\ d.memsize = ms
       /\ d.heap[i] = v /\ \A j \in Items : j # i => d.heap[j] = cc.heap[j]
       /\ d.ckeys[ck] = kv /\ \A m \in Items : m # ck => d.ckeys[m] = cc.ckeys[m]
  BY <1>1, <1>2, <1>3, <1>12 DEF Caches
<1> QED
  BY <1>2, <1>10, <1>11, <1>13, <1>14 DEF d, ms, i, ck, h, u

LEMMA Storing ==
    ASSUME NEW cc, Good(cc), \E i \in Items : cc.heap[i] = Nil,
           NEW k \in Keys, ~Refused(cc, k), NEW len \in Nat, NEW refs \in Nat
    PROVE  LET d == insert(cc, k, len, refs)
               i == free(cc.heap) IN
           /\ Good(d) /\ Linked(d) = Linked(cc) \cup {i}
           /\ i \in Items /\ cc.heap[i] = Nil
           /\ d.memsize <= cc.memsize + (KeyLen[k] + len)
           /\ d.heap[i] # Nil /\ d.heap[i].usage = refs
           /\ \A j \in Items : j # i => d.heap[j] = cc.heap[j]
<1> DEFINE h == Hash[k]
           new == cc.tree[h] = << >>
           i == free(cc.heap)
           ck == keyFor(cc, k)
           d == insert(cc, k, len, refs)
<1>1. Sound(cc) /\ cc \in Caches /\ Accounted(cc) /\ InTree(cc) /\ InList(cc) /\ Kept(cc)
  BY DEF Good, Sound
<1>2. /\ h \in Hashes /\ ck \in Items
      /\ \A j \in OfHash(cc, h) : cc.heap[j].ckey = ck
      /\ new => cc.ckeys[ck] = Nil /\ users(cc, ck) = {}
      /\ ~new => cc.ckeys[ck] \in KeyType /\ cc.ckeys[ck].name = k
  BY <1>1, KeyForStored
<1>3. /\ d \in Caches /\ i \in Items /\ cc.heap[i] = Nil
      /\ d.tree[h] = Append(cc.tree[h], i)
      /\ \A g \in Hashes : g # h => d.tree[g] = cc.tree[g]
      /\ d.lastused = Append(cc.lastused, i)
      /\ d.memsize = cc.memsize + len + IF new THEN KeyLen[k] ELSE 0
      /\ \A j \in Items : j # i => d.heap[j] = cc.heap[j]
      /\ d.heap[i] # Nil /\ d.heap[i].ckey = ck /\ d.heap[i].dlen = len
      /\ d.heap[i].usage = refs /\ ~d.heap[i].unlinked
      /\ \A m \in Items : m # ck => d.ckeys[m] = cc.ckeys[m]
      /\ d.ckeys[ck] # Nil /\ d.ckeys[ck].name = k
      /\ d.ckeys[ck].usage = IF new THEN 1 ELSE cc.ckeys[ck].usage + 1
  BY <1>1, InsertFields
<1>4. KeyLen[k] \in Nat
  BY LimitsAssumption
<1> HIDE DEF h, i, ck, d
<1>5. Allocated(d) = Allocated(cc) \cup {i} /\ i \notin Allocated(cc) /\ i \notin Linked(cc)
  BY <1>3 DEF Allocated, Linked
<1>6. Linked(d) = Linked(cc) \cup {i}
  BY <1>3, <1>5 DEF Linked, Allocated
<1>7. Accounted(d)
  <2>1. users(d, ck) = users(cc, ck) \cup {i} /\ i \notin users(cc, ck)
    BY <1>3, <1>5 DEF users, Allocated
  <2>2. \A m \in Items : m # ck => users(d, m) = users(cc, m)
    BY <1>3, <1>5 DEF users, Allocated
  <2>3. IsFiniteSet(users(cc, ck)) /\ Cardinality(users(d, ck)) = Cardinality(users(cc, ck)) + 1
    <3>1. users(cc, ck) \subseteq Items
      BY DEF users, Allocated
    <3> QED
      BY <2>1, <3>1, ItemsAssumption, FS_Subset, FS_AddElement
  <2>4. d.ckeys[ck].usage = Cardinality(users(d, ck))
    <3>1. CASE new
      BY <1>2, <1>3, <2>3, <3>1, FS_EmptySet
    <3>2. CASE ~new
      BY <1>1, <1>2, <1>3, <2>3, <3>2, NilAssumption DEF Accounted
    <3> QED
      BY <3>1, <3>2
  <2>5. ASSUME NEW m \in Items
        PROVE  IF d.ckeys[m] = Nil THEN users(d, m) = {}
               ELSE d.ckeys[m].usage = Cardinality(users(d, m))
    <3>1. CASE m = ck
      BY <1>3, <2>4, <3>1
    <3>2. CASE m # ck
      BY <1>1, <1>3, <2>2, <3>2 DEF Accounted
    <3> QED
      BY <3>1, <3>2
  <2>6. /\ dlens(cc) \in [Items -> Nat] /\ klens(cc) \in [Items -> Nat]
        /\ dlens(d) \in [Items -> Nat] /\ klens(d) \in [Items -> Nat]
    BY <1>1, <1>3, SumsOf
  <2>7. dlens(cc)[i] = 0 /\ dlens(d)[i] = len /\ \A j \in Items : j # i => dlens(d)[j] = dlens(cc)[j]
    BY <1>3 DEF dlens
  <2>8. klens(d)[ck] = KeyLen[k] /\ \A m \in Items : m # ck => klens(d)[m] = klens(cc)[m]
    BY <1>2, <1>3 DEF klens
  <2>9. klens(cc)[ck] = IF new THEN 0 ELSE KeyLen[k]
    BY <1>2, NilAssumption DEF klens
  <2>10. /\ SumFunctionOnSet(dlens(cc), Items) \in Nat /\ SumFunctionOnSet(dlens(d), Items) \in Nat
         /\ SumFunctionOnSet(dlens(d), Items)
              = SumFunctionOnSet(dlens(cc), Items) + dlens(d)[i] - dlens(cc)[i]
    <3>1. i \in Items
      BY <1>3
    <3> QED
      BY <2>6, <2>7, <3>1, NatSumChange, ItemsAssumption
  <2>11. /\ SumFunctionOnSet(klens(cc), Items) \in Nat /\ SumFunctionOnSet(klens(d), Items) \in Nat
         /\ SumFunctionOnSet(klens(d), Items)
              = SumFunctionOnSet(klens(cc), Items) + klens(d)[ck] - klens(cc)[ck]
    <3>1. ck \in Items
      BY <1>2
    <3> QED
      BY <2>6, <2>8, <3>1, NatSumChange, ItemsAssumption
  <2>12. cc.memsize = SumFunctionOnSet(dlens(cc), Items) + SumFunctionOnSet(klens(cc), Items)
    BY <1>1 DEF Accounted
  <2>13. d.memsize = SumFunctionOnSet(dlens(d), Items) + SumFunctionOnSet(klens(d), Items)
    <3>1. d.memsize = cc.memsize + len + IF new THEN KeyLen[k] ELSE 0
      BY <1>3
    <3> QED
      BY <1>4, <2>7, <2>8, <2>9, <2>10, <2>11, <2>12, <3>1
  <2> QED
    BY <2>5, <2>13 DEF Accounted
<1>8. hashOf(d, i) = h
  BY <1>3 DEF hashOf, keyOf, h
<1>9. ASSUME NEW j \in Linked(cc) PROVE hashOf(d, j) = hashOf(cc, j) /\ d.heap[j] = cc.heap[j]
  <2>1. j \in Allocated(cc) /\ j \in Items /\ j # i
    BY <1>5 DEF Linked, Allocated
  <2>2. d.heap[j] = cc.heap[j]
    BY <1>3, <2>1
  <2>3. cc.heap[j].ckey \in Items /\ j \in users(cc, cc.heap[j].ckey)
    BY <1>1, <2>1, ItemAndKey
  <2>4. d.ckeys[cc.heap[j].ckey].name = cc.ckeys[cc.heap[j].ckey].name
    BY <1>2, <1>3, <2>3
  <2> QED
    BY <2>2, <2>4 DEF hashOf, keyOf
<1>10. OfHash(d, h) = OfHash(cc, h) \cup {i} /\ i \notin OfHash(cc, h)
  BY <1>5, <1>6, <1>8, <1>9 DEF OfHash
<1>11. \A g \in Hashes : g # h => OfHash(d, g) = OfHash(cc, g)
  BY <1>6, <1>8, <1>9 DEF OfHash
<1>12. ASSUME NEW g \in Hashes PROVE Once(d.tree[g]) /\ ToSet(d.tree[g]) = OfHash(d, g)
  <2>1. Once(cc.tree[g]) /\ ToSet(cc.tree[g]) = OfHash(cc, g) /\ cc.tree[g] \in Seq(Items)
    BY <1>1 DEF InTree, Caches
  <2>2. CASE g # h
    BY <1>3, <1>11, <2>1, <2>2
  <2>3. CASE g = h
    <3>1. i \notin ToSet(cc.tree[g])
      BY <1>10, <2>1, <2>3
    <3>2. ToSet(Append(cc.tree[g], i)) = ToSet(cc.tree[g]) \cup {i} /\ Once(Append(cc.tree[g], i))
      <4>1. i \in Items
        BY <1>3
      <4> QED
        BY <2>1, <3>1, <4>1, WithItem
    <3> QED
      BY <1>3, <1>10, <2>1, <2>3, <3>2
  <2> QED
    BY <2>2, <2>3
<1>13. ASSUME NEW a \in Linked(d), NEW b \in Linked(d), hashOf(d, a) = hashOf(d, b)
       PROVE  d.heap[a].ckey = d.heap[b].ckey
  <2>1. \A j \in Linked(cc) : hashOf(d, j) = h => d.heap[j].ckey = ck
    BY <1>2, <1>9 DEF OfHash
  <2>2. CASE a \in Linked(cc) /\ b \in Linked(cc)
    BY <1>1, <1>9, <1>13, <2>2 DEF InTree
  <2>3. CASE a = i \/ b = i
    BY <1>3, <1>6, <1>8, <1>13, <2>1, <2>3
  <2> QED
    BY <1>6, <2>2, <2>3
<1>14. InTree(d)
  BY <1>12, <1>13 DEF InTree
<1>15. InList(d)
  <2>1. cc.lastused \in Seq(Items) /\ Once(cc.lastused) /\ ToSet(cc.lastused) = Linked(cc)
    BY <1>1 DEF Caches, InList
  <2>2. Once(Append(cc.lastused, i)) /\ ToSet(Append(cc.lastused, i)) = Linked(cc) \cup {i}
    <3>1. i \in Items /\ i \notin ToSet(cc.lastused)
      BY <1>3, <1>5, <2>1
    <3> QED
      BY <2>1, <3>1, WithItem
  <2> QED
    BY <1>3, <1>6, <2>2 DEF InList
<1>16. Kept(d)
  BY <1>1, <1>3, <1>5, <1>6 DEF Kept, Allocated
<1>17. d.memsize <= cc.memsize + (KeyLen[k] + len)
  <2>1. d.memsize = cc.memsize + len + (IF new THEN KeyLen[k] ELSE 0) /\ cc.memsize \in Nat
    BY <1>1, <1>3 DEF Caches
  <2> QED
    BY <1>4, <2>1
<1> QED
  BY <1>3, <1>6, <1>7, <1>14, <1>15, <1>16, <1>17 DEF Good, Sound, d, i
-----------------------------------------------------------------------------
(* New data for an item, and the end of the cache. *)

resized(cc, i, len) == [cc EXCEPT !.heap[i].dlen = len,
                                  !.memsize = (cc.memsize + len) - cc.heap[i].dlen]

LEMMA Resizing ==
    ASSUME NEW cc, Sound(cc), InList(cc), NEW i \in Allocated(cc), NEW len \in Nat
    PROVE  LET d == resized(cc, i, len) IN
           /\ Sound(d) /\ InList(d)
           /\ Linked(d) = Linked(cc) /\ Allocated(d) = Allocated(cc)
           /\ d.memsize = (cc.memsize + len) - cc.heap[i].dlen
           /\ d.heap[i] # Nil /\ d.heap[i].usage = cc.heap[i].usage
           /\ d.heap[i].unlinked = cc.heap[i].unlinked
           /\ \A j \in Items : j # i => d.heap[j] = cc.heap[j]
<1> DEFINE v == [cc.heap[i] EXCEPT !.dlen = len]
           ms == (cc.memsize + len) - cc.heap[i].dlen
           d == resized(cc, i, len)
<1>1. cc \in Caches /\ Accounted(cc) /\ InTree(cc) /\ i \in Items /\ cc.heap[i] \in ItemType
  BY ItemAndKey DEF Sound
<1>2. /\ v \in ItemType /\ v.usage = cc.heap[i].usage /\ v.ckey = cc.heap[i].ckey /\ v.dlen = len
      /\ v.unlinked = cc.heap[i].unlinked /\ cc.heap[i].dlen \in Nat
  BY <1>1 DEF ItemType
<1>3. d = [tree |-> cc.tree, lastused |-> cc.lastused, memsize |-> ms,
           heap |-> [cc.heap EXCEPT ![i] = v], ckeys |-> cc.ckeys]
  <2>1. d = [cc EXCEPT !.heap[i] = v, !.memsize = ms]
    BY DEF resized
  <2> HIDE DEF v, ms, d
  <2> QED
    BY <1>1, <2>1 DEF Caches
<1> HIDE DEF v, d
<1>4. /\ d.tree = cc.tree /\ d.lastused = cc.lastused /\ d.memsize = ms
      /\ d.ckeys = cc.ckeys
      /\ d.heap[i] = v /\ \A j \in Items : j # i => d.heap[j] = cc.heap[j]
  BY <1>1, <1>3 DEF Caches
<1>5. v # Nil /\ cc.heap[i] # Nil
  BY <1>1, <1>2, NilAssumption
<1>6. Allocated(d) = Allocated(cc)
  BY <1>4, <1>5 DEF Allocated
<1>7. \A j \in Allocated(cc) : /\ d.heap[j].ckey = cc.heap[j].ckey
                               /\ d.heap[j].unlinked = cc.heap[j].unlinked
  BY <1>2, <1>4 DEF Allocated
<1>8. ms = SumFunctionOnSet(dlens(d), Items) + SumFunctionOnSet(klens(d), Items) /\ ms \in Nat
  <2>1. dlens(cc) \in [Items -> Nat] /\ klens(cc) \in [Items -> Nat]
    BY <1>1, SumsOf
  <2>2. dlens(d) \in [Items -> Nat] /\ dlens(d)[i] = len /\ dlens(cc)[i] = cc.heap[i].dlen
        /\ \A j \in Items : j # i => dlens(d)[j] = dlens(cc)[j]
    BY <1>1, <1>2, <1>4, <1>5, <2>1 DEF dlens
  <2>3. klens(d) = klens(cc)
    BY <1>4 DEF klens
  <2>4. /\ SumFunctionOnSet(dlens(cc), Items) \in Nat /\ SumFunctionOnSet(dlens(d), Items) \in Nat
        /\ SumFunctionOnSet(dlens(d), Items)
             = SumFunctionOnSet(dlens(cc), Items) + dlens(d)[i] - dlens(cc)[i]
    BY <1>1, <2>1, <2>2, NatSumChange, ItemsAssumption
  <2>5. SumFunctionOnSet(klens(cc), Items) \in Nat
    BY <2>1, SumOfNaturals, ItemsAssumption
  <2>6. cc.memsize = SumFunctionOnSet(dlens(cc), Items) + SumFunctionOnSet(klens(cc), Items)
    BY <1>1 DEF Accounted
  <2>7. ms = SumFunctionOnSet(dlens(d), Items) + SumFunctionOnSet(klens(cc), Items)
    BY <1>2, <2>2, <2>4, <2>5, <2>6
  <2> QED
    BY <2>3, <2>4, <2>5, <2>7
<1> HIDE DEF ms
<1>9. d \in Caches
  BY <1>1, <1>2, <1>3, <1>8 DEF Caches
<1>10. \A k \in Items : users(d, k) = users(cc, k)
  BY <1>6, <1>7 DEF users
<1>11. Accounted(d)
  BY <1>1, <1>4, <1>8, <1>10 DEF Accounted
<1>12. \A j \in Allocated(cc) : hashOf(d, j) = hashOf(cc, j)
  BY <1>4, <1>7 DEF hashOf, keyOf
<1>13. Linked(d) = Linked(cc) /\ \A j \in Linked(cc) : j \in Allocated(cc)
  BY <1>6, <1>7 DEF Linked
<1>14. \A h \in Hashes : OfHash(d, h) = OfHash(cc, h)
  BY <1>12, <1>13 DEF OfHash
<1>15. \A j, k \in Linked(d) : hashOf(d, j) = hashOf(d, k) => d.heap[j].ckey = d.heap[k].ckey
  BY <1>1, <1>7, <1>12, <1>13 DEF InTree
<1>16. InTree(d)
  BY <1>1, <1>4, <1>14, <1>15 DEF InTree
<1>17. InList(d)
  BY <1>4, <1>13 DEF InList
<1> QED
  BY <1>2, <1>4, <1>5, <1>6, <1>9, <1>11, <1>13, <1>16, <1>17 DEF Sound, d, ms

\* The item an enumeration comes to next is one of the chain.
LEMMA TurnOf ==
    ASSUME NEW cc, Sound(cc), NEW h \in Hashes, cc.tree[h] # << >>
    PROVE  LET i == inTurn(cc.tree[h]) IN
           /\ i \in ToSet(cc.tree[h]) /\ i \in Linked(cc) /\ hashOf(cc, i) = h
<1> DEFINE ch == cc.tree[h]
<1>1. ch \in Seq(Items) /\ ToSet(ch) = OfHash(cc, h)
  BY DEF Sound, InTree, Caches
<1>2. Len(ch) \in Nat \ {0}
  BY <1>1, EmptySeq
<1>3. \E n \in 1..Len(ch) : inTurn(ch) = ch[n]
  BY <1>2 DEF inTurn
<1>4. inTurn(ch) \in ToSet(ch)
  BY <1>1, <1>3, ElementsOf
<1> QED
  BY <1>1, <1>4 DEF OfHash

LEMMA Dropping ==
    ASSUME NEW cc, Sound(cc), NEW h \in Hashes, cc.tree[h] # << >>
    PROVE  LET i == inTurn(cc.tree[h])
               f == item_fin([cc EXCEPT !.tree[h] = Without(cc.tree[h], i)], i) IN
           /\ Sound(f) /\ f.memsize <= cc.memsize /\ Linked(f) \subseteq Linked(cc)
           /\ \A j \in Allocated(f) : f.heap[j] = cc.heap[j]
<1> DEFINE i == inTurn(cc.tree[h])
           w == Without(cc.tree[h], i)
           t == [cc EXCEPT !.tree[h] = w]
           f == item_fin(t, i)
<1>1. cc \in Caches /\ Accounted(cc) /\ InTree(cc)
  BY DEF Sound
<1>2. i \in ToSet(cc.tree[h]) /\ i \in Linked(cc) /\ hashOf(cc, i) = h /\ i \in Allocated(cc)
  BY TurnOf DEF Linked
<1>3. cc.tree[h] \in Seq(Items) /\ Once(cc.tree[h]) /\ ToSet(cc.tree[h]) = OfHash(cc, h)
  BY <1>1 DEF InTree, Caches
<1> HIDE DEF i
<1>4. w \in Seq(Items) /\ Once(w) /\ ToSet(w) = OfHash(cc, h) \ {i}
  BY <1>2, <1>3, WithoutItem
<1> HIDE DEF w
<1>5. t = [tree |-> [cc.tree EXCEPT ![h] = w], lastused |-> cc.lastused, memsize |-> cc.memsize,
           heap |-> cc.heap, ckeys |-> cc.ckeys]
  <2>1. t = [cc EXCEPT !.tree = [cc.tree EXCEPT ![h] = w]]
    BY DEF t
  <2> DEFINE tr == [cc.tree EXCEPT ![h] = w]
  <2> HIDE DEF t, tr
  <2>2. t = [cc EXCEPT !.tree = tr]
    BY <2>1 DEF tr
  <2>3. t = [tree |-> tr, lastused |-> cc.lastused, memsize |-> cc.memsize,
             heap |-> cc.heap, ckeys |-> cc.ckeys]
    BY <1>1, <2>2 DEF Caches
  <2> QED
    BY <2>3 DEF tr
<1> HIDE DEF t
<1>6. t \in Caches
  BY <1>1, <1>4, <1>5 DEF Caches
<1>7. /\ t.memsize = cc.memsize /\ t.heap = cc.heap /\ t.ckeys = cc.ckeys
      /\ t.tree[h] = w /\ \A g \in Hashes : g # h => t.tree[g] = cc.tree[g]
  BY <1>1, <1>5 DEF Caches
<1>8. /\ Accounted(t) /\ Allocated(t) = Allocated(cc)
      /\ \A j \in Allocated(cc) : hashOf(t, j) = hashOf(cc, j)
  BY <1>1, <1>6, <1>7, SameAccounts
<1>9. Linked(t) = Linked(cc)
  BY <1>7, <1>8 DEF Linked
<1>10. /\ f \in Caches /\ Accounted(f) /\ f.tree = t.tree
       /\ f.memsize <= t.memsize
       /\ Allocated(f) = Allocated(t) \ {i} /\ Linked(f) = Linked(t) \ {i}
       /\ \A j \in Allocated(f) : f.heap[j] = t.heap[j] /\ hashOf(f, j) = hashOf(t, j)
  BY <1>2, <1>6, <1>8, Freeing
<1> HIDE DEF f
<1>11. \A j \in Linked(f) : j \in Linked(cc) /\ j \in Allocated(f) /\ j \in Allocated(cc)
  BY <1>8, <1>9, <1>10 DEF Linked
<1>12. \A j \in Linked(f) : f.heap[j] = cc.heap[j] /\ hashOf(f, j) = hashOf(cc, j)
  BY <1>7, <1>8, <1>10, <1>11
<1>13. \A g \in Hashes : OfHash(f, g) = OfHash(cc, g) \ {i}
  BY <1>9, <1>10, <1>12 DEF OfHash
<1>14. ASSUME NEW g \in Hashes PROVE Once(f.tree[g]) /\ ToSet(f.tree[g]) = OfHash(f, g)
  <2>1. CASE g = h
    BY <1>4, <1>7, <1>10, <1>13, <2>1
  <2>2. CASE g # h
    <3>1. i \notin OfHash(cc, g)
      BY <1>2, <2>2 DEF OfHash
    <3>2. Once(cc.tree[g]) /\ ToSet(cc.tree[g]) = OfHash(cc, g)
      BY <1>1 DEF InTree
    <3> QED
      BY <1>7, <1>10, <1>13, <2>2, <3>1, <3>2
  <2> QED
    BY <2>1, <2>2
<1>15. \A a, b \in Linked(f) : hashOf(f, a) = hashOf(f, b) => f.heap[a].ckey = f.heap[b].ckey
  BY <1>1, <1>11, <1>12 DEF InTree
<1>16. InTree(f)
  BY <1>14, <1>15 DEF InTree
<1> QED
  BY <1>7, <1>9, <1>10, <1>16 DEF Sound, f, t, w, i
-----------------------------------------------------------------------------
(* Steps of the cache. *)

LEMMA EmptyIsGood ==
    /\ Good(Empty) /\ Linked(Empty) = {} /\ Allocated(Empty) = {}
    /\ Empty.memsize = 0 /\ Len_(Empty) = 0
    /\ NoRefs \in [Items -> Nat] /\ usageIs(Empty, NoRefs)
<1> DEFINE zero == [x \in Items |-> 0]
<1>1. Empty \in Caches
  BY EmptySeq DEF Empty, Caches
<1>2. /\ Empty.memsize = 0 /\ Empty.lastused = << >>
      /\ \A h \in Hashes : Empty.tree[h] = << >>
      /\ \A i \in Items : Empty.heap[i] = Nil /\ Empty.ckeys[i] = Nil
  BY DEF Empty
<1>3. Allocated(Empty) = {} /\ Linked(Empty) = {}
  BY <1>2 DEF Allocated, Linked
<1>4. dlens(Empty) = zero /\ klens(Empty) = zero
  BY <1>2 DEF dlens, klens
<1>5. SumFunctionOnSet(zero, Items) = 0
  BY SumOfZeros, ItemsAssumption
<1>6. \A k \in Items : users(Empty, k) = {}
  BY <1>3 DEF users
<1> HIDE DEF zero
<1>7. Accounted(Empty)
  BY <1>2, <1>4, <1>5, <1>6 DEF Accounted
<1>8. Once(<< >>) /\ ToSet(<< >>) = {}
  BY NoElements, EmptySeq DEF Once
<1>9. \A h \in Hashes : OfHash(Empty, h) = {}
  BY <1>3 DEF OfHash
<1>10. InTree(Empty) /\ InList(Empty) /\ Kept(Empty)
  BY <1>2, <1>3, <1>8, <1>9 DEF InTree, InList, Kept
<1>11. Len_(Empty) = 0
  BY <1>3, FS_EmptySet DEF Len_
<1>12. NoRefs \in [Items -> Nat] /\ usageIs(Empty, NoRefs)
  BY <1>2 DEF NoRefs, usageIs
<1> QED
  BY <1>1, <1>2, <1>3, <1>7, <1>10, <1>11, <1>12 DEF Good, Sound

\* The action that StableWhileShared says every step is.
SharedStays ==
    \A i \in Allocated(c) \cap Allocated(c)' :
         /\ held[i] > 1 => c'.heap[i].dlen = c.heap[i].dlen
         /\ c.heap[i].unlinked /\ held[i] > 0 => c'.heap[i].unlinked

\* What a cache in use gives every step.
LEMMA InUse ==
    ASSUME CacheInv, ~closed
    PROVE  /\ Good(c) /\ pending = Linked(c) /\ usageIs(c, held) /\ held \in [Items -> Nat]
           /\ Len_(c) <= MaxItems /\ c.memsize <= MemLimit /\ c.memsize \in Nat
  BY DEF CacheInv, TypeOK, Good, WithinLimits

\* What a step that leaves the cache in use has to establish.
LEMMA StaysInUse ==
    ASSUME CacheInv, ~closed, UNCHANGED <<multi, resetting, closed, fault>>,
           Good(c'), c'.memsize <= MemLimit, Len_(c') <= MaxItems,
           pending' = Linked(c'), held' \in [Items -> Nat], usageIs(c', held')
    PROVE  CacheInv'
<1>1. Sound(c') /\ InList(c') /\ Kept(c')
  BY DEF Good
<1>2. c' \in Caches /\ pending' \subseteq Items
  BY <1>1 DEF Sound, Linked, Allocated
<1>3. TypeOK'
  BY <1>2 DEF CacheInv, TypeOK, Caches
<1>4. WithinLimits'
  BY DEF WithinLimits
<1>5. ~(resetting' /\ closed')
  BY DEF CacheInv
<1> QED
  BY <1>1, <1>3, <1>4, <1>5 DEF CacheInv

LEMMA FaultStep ==
    ASSUME CacheInv, NEW where \in {"walk", "list", "sibling", "timer"}, Faults(where)
    PROVE  CacheInv' /\ SharedStays
<1>1. /\ c' = Empty /\ pending' = {} /\ held' = NoRefs /\ fault' = where
      /\ UNCHANGED <<multi, resetting, closed>>
  BY DEF Faults
<1>2. Sound(c') /\ InList(c') /\ Kept(c') /\ c' \in Caches
  BY <1>1, EmptyIsGood DEF Good, Sound
<1>3. pending' = Linked(c') /\ usageIs(c', held') /\ held' \in [Items -> Nat]
  BY <1>1, EmptyIsGood
<1>4. TypeOK'
  BY <1>1, <1>2, <1>3 DEF CacheInv, TypeOK, Caches
<1>5. WithinLimits'
  BY <1>1, EmptyIsGood, LimitsAssumption DEF WithinLimits
<1>6. SharedStays
  BY <1>1, EmptyIsGood DEF SharedStays
<1>7. ~(resetting' /\ closed')
  BY <1>1 DEF CacheInv
<1> QED
  BY <1>2, <1>3, <1>4, <1>5, <1>6, <1>7 DEF CacheInv

\* Items nobody refers to were evicted, and that is all.
LEMMA EvictStep ==
    ASSUME CacheInv, ~closed, NEW dd, Evicted(c, dd), Becomes(dd),
           UNCHANGED <<multi, held, resetting, closed, fault>>
    PROVE  CacheInv' /\ SharedStays
<1>1. Good(c) /\ pending = Linked(c) /\ usageIs(c, held) /\ held \in [Items -> Nat]
      /\ Len_(c) <= MaxItems /\ c.memsize <= MemLimit /\ c.memsize \in Nat
  BY InUse
<1>2. c' = dd /\ pending' = pending \cap Linked(dd) /\ held' = held
  BY DEF Becomes
<1>3. /\ Good(dd) /\ dd.memsize <= c.memsize
      /\ Linked(dd) \subseteq Linked(c)
      /\ \A j \in Items : \/ dd.heap[j] = c.heap[j]
                          \/ dd.heap[j] = Nil /\ j \in Linked(c) /\ c.heap[j].usage = 0
  BY DEF Evicted
<1>4. pending' = Linked(dd)
  BY <1>1, <1>2, <1>3
<1>5. \A j \in Linked(c) : c.heap[j] # Nil
  BY DEF Linked, Allocated
<1>6. usageIs(dd, held)
  BY <1>1, <1>3, <1>5 DEF usageIs
<1>7. dd.memsize \in Nat
  BY <1>3, EvictedSame
<1>8. dd.memsize <= MemLimit
  BY <1>1, <1>3, <1>7, LimitsAssumption
<1>9. Len_(dd) <= MaxItems
  <2>1. Len_(dd) <= Len_(c) /\ Len_(dd) \in Nat /\ Len_(c) \in Nat
    BY <1>3, EvictedLen, LenType
  <2> QED
    BY <1>1, <2>1, LimitsAssumption
<1>10. CacheInv'
  BY <1>1, <1>2, <1>3, <1>4, <1>6, <1>8, <1>9, StaysInUse
<1>11. SharedStays
  BY <1>2, <1>3 DEF SharedStays, Allocated
<1> QED
  BY <1>10, <1>11

\* An item left the cache.
LEMMA ReleaseStep ==
    ASSUME CacheInv, ~closed, NEW i \in Linked(c), Becomes(item_rlz(c, i)),
           UNCHANGED <<multi, held, resetting, closed, fault>>
    PROVE  CacheInv' /\ SharedStays
<1> DEFINE r == item_rlz(c, i)
<1>1. Good(c) /\ pending = Linked(c) /\ usageIs(c, held) /\ held \in [Items -> Nat]
      /\ Len_(c) <= MaxItems /\ c.memsize <= MemLimit /\ c.memsize \in Nat
  BY InUse
<1>2. c' = r /\ pending' = pending \cap Linked(r) /\ held' = held
  BY DEF Becomes
<1>3. /\ Good(r) /\ Linked(r) = Linked(c) \ {i} /\ r.memsize <= c.memsize
      /\ \A j \in Items : j # i => r.heap[j] = c.heap[j]
      /\ c.heap[i].usage = 0 => r.heap[i] = Nil
      /\ c.heap[i].usage # 0 => /\ r.heap[i] # Nil /\ r.heap[i].unlinked
                                /\ r.heap[i].usage = c.heap[i].usage
                                /\ r.heap[i].dlen = c.heap[i].dlen
  BY <1>1, Releasing
<1> HIDE DEF r
<1>4. pending' = Linked(r)
  BY <1>1, <1>2, <1>3
<1>5. i \in Items /\ c.heap[i] # Nil
  BY DEF Linked, Allocated
<1>6. usageIs(r, held)
  BY <1>1, <1>3, <1>5 DEF usageIs
<1>7. r.memsize \in Nat
  BY <1>3, EvictedSame
<1>8. r.memsize <= MemLimit
  BY <1>1, <1>3, <1>7, LimitsAssumption
<1>9. Len_(r) <= MaxItems
  <2>1. Len_(r) <= Len_(c) /\ Len_(r) \in Nat /\ Len_(c) \in Nat
    BY <1>3, EvictedLen, LenType
  <2> QED
    BY <1>1, <2>1, LimitsAssumption
<1>10. CacheInv'
  BY <1>1, <1>2, <1>3, <1>4, <1>6, <1>8, <1>9, StaysInUse
<1>11. SharedStays
  BY <1>2, <1>3, <1>5 DEF SharedStays, Allocated
<1> QED
  BY <1>10, <1>11

LEMMA StoreStep ==
    ASSUME CacheInv, NEW k \in Keys, NEW len \in DataLens, NEW refs \in Refs, Store(k, len, refs)
    PROVE  CacheInv' /\ SharedStays
<1> DEFINE room == makeroom(c, k, len)
           dd == room.c
           i == free(dd.heap)
           d == insert(dd, k, len, refs)
<1>1. ~closed /\ \E j \in Items : c.heap[j] = Nil
  BY DEF Store, Running
<1>2. Good(c) /\ pending = Linked(c) /\ usageIs(c, held) /\ held \in [Items -> Nat]
      /\ Len_(c) <= MaxItems /\ c.memsize <= MemLimit /\ c.memsize \in Nat
  BY <1>1, InUse
<1>3. len \in Nat /\ refs \in Nat /\ KeyLen[k] \in Nat
  BY LimitsAssumption DEF Refs
<1>4. /\ Evicted(c, dd)
      /\ room.er = "ok" => Len_(dd) < MaxItems /\ dd.memsize + (KeyLen[k] + len) <= MemLimit
  BY <1>2, <1>3, MakingRoom
<1>5. CASE room.er = "walk" /\ Faults("walk")
  BY <1>5, FaultStep
<1>6. CASE Becomes(dd) /\ UNCHANGED <<multi, held, resetting, closed, fault>>
  BY <1>1, <1>4, <1>6, EvictStep
<1>7. CASE /\ room.er = "ok" /\ ~Refused(dd, k)
           /\ c' = d
           /\ pending' = (pending \cap Linked(dd)) \cup {i}
           /\ held' = [held EXCEPT ![i] = refs]
           /\ UNCHANGED <<multi, resetting, closed, fault>>
  <2> HIDE DEF room
  <2>1. /\ Good(dd) /\ Linked(dd) \subseteq Linked(c)
        /\ \A j \in Items : \/ dd.heap[j] = c.heap[j]
                            \/ dd.heap[j] = Nil /\ j \in Linked(c) /\ c.heap[j].usage = 0
    BY <1>4 DEF Evicted
  <2>2. \E j \in Items : dd.heap[j] = Nil
    BY <1>1, <2>1
  <2> HIDE DEF dd
  <2>3. /\ Good(d) /\ Linked(d) = Linked(dd) \cup {i}
        /\ i \in Items /\ dd.heap[i] = Nil
        /\ d.memsize <= dd.memsize + (KeyLen[k] + len)
        /\ d.heap[i] # Nil /\ d.heap[i].usage = refs
        /\ \A j \in Items : j # i => d.heap[j] = dd.heap[j]
    BY <1>3, <1>7, <2>1, <2>2, Storing
  <2> HIDE DEF i, d
  <2>4. pending' = Linked(d)
    BY <1>2, <1>7, <2>1, <2>3
  <2>5. held' \in [Items -> Nat] /\ held'[i] = refs /\ \A j \in Items : j # i => held'[j] = held[j]
    BY <1>2, <1>3, <1>7, <2>3
  <2>6. \A j \in Linked(c) : c.heap[j] # Nil
    BY DEF Linked, Allocated
  <2>7. usageIs(d, held')
    BY <1>2, <2>1, <2>3, <2>5, <2>6 DEF usageIs
  <2>8. d.memsize <= MemLimit
    <3>1. d.memsize \in Nat /\ dd.memsize \in Nat
      BY <2>1, <2>3, EvictedSame
    <3> QED
      BY <1>3, <1>4, <1>7, <2>3, <3>1, LimitsAssumption
  <2>9. Len_(d) <= MaxItems
    <3>1. i \notin Linked(dd)
      BY <2>3 DEF Linked, Allocated
    <3>2. Len_(d) = Len_(dd) + 1 /\ Len_(dd) \in Nat
      BY <2>3, <3>1, LenType, FS_AddElement DEF Len_
    <3> QED
      BY <1>4, <1>7, <3>2, LimitsAssumption
  <2>10. CacheInv'
    BY <1>1, <1>7, <2>3, <2>4, <2>5, <2>7, <2>8, <2>9, StaysInUse
  <2>11. \A j \in Items : c.heap[j] # Nil /\ d.heap[j] # Nil => d.heap[j] = c.heap[j] \/ held[j] = 0
    BY <1>2, <2>1, <2>3 DEF usageIs
  <2>12. SharedStays
    BY <1>2, <1>7, <2>11 DEF SharedStays, Allocated
  <2> QED
    BY <2>10, <2>12
<1> QED
  BY <1>5, <1>6, <1>7 DEF Store

LEMMA TakeStep ==
    ASSUME CacheInv, Running, NEW i \in Allocated(c), NEW refs \in Refs, Take(i, refs)
    PROVE  CacheInv' /\ SharedStays
<1>1. ~closed
  BY DEF Running
<1>2. /\ Good(c) /\ pending = Linked(c) /\ usageIs(c, held) /\ held \in [Items -> Nat]
      /\ Len_(c) <= MaxItems /\ c.memsize <= MemLimit /\ c.memsize \in Nat
  BY <1>1, InUse
<1>3. Sound(c) /\ InList(c) /\ Kept(c) /\ i \in Items /\ c.heap[i] # Nil /\ c.heap[i].usage \in Nat
  <2>1. Sound(c) /\ InList(c) /\ Kept(c) /\ i \in Items /\ c.heap[i] # Nil /\ c \in Caches
    BY <1>2 DEF Good, Allocated, Sound
  <2>2. c.heap[i] \in ItemType
    BY <2>1 DEF Caches
  <2> QED
    BY <2>1, <2>2 DEF ItemType
<1>4. refs \in Nat
  BY LimitsAssumption DEF Refs
<1>5. CASE Acquire(i)
  <2> DEFINE a == counted(c, i, 1)
             r == item_rlz(a, i)
  <2>1. i \in Linked(c)
    BY <1>3, <1>5 DEF Acquire, Kept
  <2>2. /\ Sound(a) /\ InList(a) /\ Linked(a) = Linked(c) /\ Allocated(a) = Allocated(c)
        /\ a.memsize = c.memsize /\ a.heap[i] # Nil /\ a.heap[i].usage = 1
        /\ a.heap[i].dlen = c.heap[i].dlen
        /\ \A j \in Items : j # i => a.heap[j] = c.heap[j]
    BY <1>3, Counting
  <2>3. /\ c' = r /\ pending' = pending \cap Linked(r) /\ held' = [held EXCEPT ![i] = 1]
        /\ UNCHANGED <<multi, resetting, closed, fault>> /\ c.heap[i].usage = 0
    BY <1>5 DEF Acquire, Becomes, counted
  <2> HIDE DEF a
  <2>4. Kept(a)
    BY <1>3, <2>1, <2>2 DEF Kept, Allocated
  <2>5. Good(a)
    BY <2>2, <2>4 DEF Good
  <2>6. /\ Good(r) /\ Linked(r) = Linked(a) \ {i} /\ r.memsize <= a.memsize
        /\ \A j \in Items : j # i => r.heap[j] = a.heap[j]
        /\ r.heap[i] # Nil /\ r.heap[i].usage = 1
    BY <2>1, <2>2, <2>5, Releasing
  <2> HIDE DEF r
  <2>7. pending' = Linked(r)
    BY <1>2, <2>2, <2>3, <2>6
  <2>8. held' \in [Items -> Nat] /\ held'[i] = 1 /\ \A j \in Items : j # i => held'[j] = held[j]
    BY <1>2, <1>3, <2>3
  <2>9. usageIs(r, held')
    BY <1>2, <2>2, <2>6, <2>8 DEF usageIs
  <2>10. r.memsize <= MemLimit
    <3>1. r.memsize \in Nat
      BY <2>6, EvictedSame
    <3> QED
      BY <1>2, <2>2, <2>6, <3>1, LimitsAssumption
  <2>11. Len_(r) <= MaxItems
    <3>1. Len_(r) <= Len_(c) /\ Len_(r) \in Nat /\ Len_(c) \in Nat
      BY <2>2, <2>6, EvictedLen, LenType
    <3> QED
      BY <1>2, <3>1, LimitsAssumption
  <2>12. CacheInv'
    BY <1>1, <2>3, <2>6, <2>7, <2>8, <2>9, <2>10, <2>11, StaysInUse
  <2>13. held[i] = 0
    BY <1>2, <1>3, <2>3 DEF usageIs
  <2>14. SharedStays
    BY <1>2, <2>2, <2>3, <2>6, <2>13 DEF SharedStays, Allocated
  <2> QED
    BY <2>12, <2>14
<1>6. CASE Refer(i, refs)
  <2>1. CASE c.heap[i].unlinked
    BY <1>6, <2>1, FaultStep DEF Refer
  <2>2. CASE ~c.heap[i].unlinked
    <3> DEFINE a == counted(c, i, c.heap[i].usage + refs)
               m == moveback(a, i)
    <3>1. /\ c' = m /\ held' = [held EXCEPT ![i] = held[i] + refs] /\ pending' = pending
          /\ UNCHANGED <<multi, resetting, closed, fault>>
      BY <1>6, <2>2 DEF Refer, counted
    <3>2. i \in Linked(c) /\ c.heap[i].usage + refs \in Nat
      BY <1>3, <1>4, <2>2 DEF Linked, Allocated
    <3>3. /\ Sound(a) /\ InList(a) /\ Linked(a) = Linked(c) /\ Allocated(a) = Allocated(c)
          /\ a.memsize = c.memsize /\ a.heap[i] # Nil /\ a.heap[i].usage = c.heap[i].usage + refs
          /\ a.heap[i].dlen = c.heap[i].dlen
          /\ \A j \in Items : j # i => a.heap[j] = c.heap[j]
      BY <1>3, <3>2, Counting
    <3> HIDE DEF a
    <3>4. /\ Sound(m) /\ InList(m) /\ Linked(m) = Linked(a) /\ Allocated(m) = Allocated(a)
          /\ m.heap = a.heap /\ m.memsize = a.memsize
      BY <3>2, <3>3, MovingBack
    <3> HIDE DEF m
    <3>5. Kept(m)
      BY <1>3, <3>2, <3>3, <3>4 DEF Kept, Allocated
    <3>6. Good(m) /\ pending' = Linked(m) /\ m.memsize <= MemLimit
      BY <1>2, <3>1, <3>3, <3>4, <3>5 DEF Good
    <3>7. /\ held' \in [Items -> Nat] /\ held'[i] = held[i] + refs
          /\ \A j \in Items : j # i => held'[j] = held[j]
      BY <1>2, <1>3, <1>4, <3>1
    <3>8. held[i] = c.heap[i].usage
      BY <1>2, <1>3 DEF usageIs
    <3>9. usageIs(m, held')
      BY <1>2, <3>3, <3>4, <3>7, <3>8 DEF usageIs
    <3>10. Len_(m) <= MaxItems
      BY <1>2, <3>3, <3>4 DEF Len_
    <3>11. CacheInv'
      BY <1>1, <3>1, <3>6, <3>7, <3>9, <3>10, StaysInUse
    <3>12. SharedStays
      BY <2>2, <3>1, <3>3, <3>4 DEF SharedStays, Allocated
    <3> QED
      BY <3>11, <3>12
  <2> QED
    BY <2>1, <2>2
<1> QED
  BY <1>5, <1>6 DEF Take

LEMMA LinkedInChain ==
    ASSUME NEW cc, Sound(cc), NEW h \in Hashes, NEW n \in 1..Len(cc.tree[h])
    PROVE  cc.tree[h][n] \in Linked(cc) /\ cc.tree[h][n] \in Allocated(cc)
<1>1. cc.tree[h] \in Seq(Items) /\ ToSet(cc.tree[h]) = OfHash(cc, h)
  BY DEF Sound, InTree, Caches
<1>2. cc.tree[h][n] \in OfHash(cc, h)
  BY <1>1, ElementsOf
<1> QED
  BY <1>2 DEF OfHash, Linked

LEMMA FetchStep ==
    ASSUME CacheInv, NEW k \in Keys, NEW refs \in Refs, Fetch(k, refs)
    PROVE  CacheInv' /\ SharedStays
<1>1. Hash[k] \in Hashes /\ Sound(c)
  BY DEF Hashes, CacheInv
<1>2. c.tree[Hash[k]] \in Seq(Items) /\ c.tree[Hash[k]] # << >>
  BY <1>1 DEF Fetch, Sound, Caches
<1>3. 1 \in 1..Len(c.tree[Hash[k]])
  BY <1>2, EmptySeq
<1>4. c.tree[Hash[k]][1] \in Allocated(c)
  BY <1>1, <1>3, LinkedInChain
<1> QED
  BY <1>4, TakeStep DEF Fetch

LEMMA FetchNextStep ==
    ASSUME CacheInv, NEW i \in Items, NEW refs \in Refs, FetchNext(i, refs)
    PROVE  CacheInv' /\ SharedStays
<1>1. CASE c.heap[i].unlinked
  BY <1>1, FaultStep DEF FetchNext
<1>2. CASE ~c.heap[i].unlinked
  <2> DEFINE h == hashOf(c, i)
             ch == c.tree[h]
             n == CHOOSE n \in 1..Len(ch) : ch[n] = i
             s == (n % Len(ch)) + 1
  <2>1. Running /\ Len(ch) > 1 /\ Take(ch[s], refs)
    BY <1>2 DEF FetchNext, chain, hashOf
  <2>2. Sound(c) /\ c \in Caches /\ Accounted(c) /\ InTree(c)
    BY DEF CacheInv, Sound
  <2>3. i \in Allocated(c) /\ i \in Linked(c)
    BY <1>2 DEF FetchNext, Allocated, Linked
  <2>4. h \in Hashes
    BY <2>2, <2>3, ItemAndKey
  <2>5. ch \in Seq(Items) /\ ToSet(ch) = OfHash(c, h) /\ i \in OfHash(c, h)
    BY <2>2, <2>3, <2>4 DEF Caches, InTree, OfHash
  <2>6. n \in 1..Len(ch)
    BY <2>5, ElementsOf
  <2> HIDE DEF n
  <2>7. s \in 1..Len(ch)
    <3>1. Len(ch) \in Nat
      BY <2>5
    <3> QED
      BY <2>1, <2>6, <3>1
  <2>8. ch[s] \in Allocated(c)
    BY <2>2, <2>4, <2>7, LinkedInChain
  <2> QED
    BY <2>1, <2>8, TakeStep
<1> QED
  BY <1>1, <1>2

LEMMA UpdateStep ==
    ASSUME CacheInv, NEW i \in Items, NEW len \in DataLens, Update(i, len)
    PROVE  CacheInv' /\ SharedStays
<1> DEFINE old == c.heap[i].dlen
           room == IF c.memsize + len > MemLimit + old THEN rm_unused_mem(c, len - old) ELSE Same(c)
           dd == room.c
           z == resized(dd, i, len)
           m == moveback(z, i)
<1>1. ~closed /\ i \in Allocated(c) /\ c.heap[i].usage = 1 /\ ~c.heap[i].unlinked
  BY DEF Update, Running, Allocated, updatable
<1>2. /\ Good(c) /\ pending = Linked(c) /\ usageIs(c, held) /\ held \in [Items -> Nat]
      /\ Len_(c) <= MaxItems /\ c.memsize <= MemLimit /\ c.memsize \in Nat
  BY <1>1, InUse
<1>3. len \in Nat /\ old \in Nat /\ len - old \in Int
  <2>1. c.heap[i] \in ItemType
    BY <1>1, <1>2, ItemAndKey DEF Good, Sound
  <2>2. len \in Nat /\ old \in Nat
    BY <2>1, LimitsAssumption DEF ItemType
  <2> QED
    BY <2>2
<1>4. Evicted(c, dd) /\ (room.er = "ok" => (dd.memsize + len) - old <= MemLimit)
  <2>1. CASE c.memsize + len > MemLimit + old
    <3>1. room = rm_unused_mem(c, len - old)
      BY <2>1
    <3> HIDE DEF room
    <3>2. Evicted(c, dd) /\ (room.er = "ok" => dd.memsize + (len - old) <= MemLimit)
      BY <1>2, <1>3, <3>1, RemovingMemory
    <3>3. dd.memsize \in Nat
      BY <3>2, EvictedSame DEF Evicted
    <3> HIDE DEF dd, old
    <3> QED
      BY <1>3, <3>2, <3>3
  <2>2. CASE ~(c.memsize + len > MemLimit + old)
    <3>1. dd = c
      BY <2>2 DEF Same
    <3>2. (c.memsize + len) - old <= MemLimit
      BY <1>2, <1>3, <2>2, LimitsAssumption
    <3> HIDE DEF dd, room
    <3> QED
      BY <1>2, <3>1, <3>2, EvictedSame
  <2> QED
    BY <2>1, <2>2
<1>5. CASE room.er = "walk" /\ Faults("walk")
  BY <1>5, FaultStep
<1>6. CASE Becomes(dd) /\ UNCHANGED <<multi, held, resetting, closed, fault>>
  BY <1>1, <1>4, <1>6, EvictStep
<1>7. CASE /\ room.er = "ok"
           /\ c' = moveback([dd EXCEPT !.heap[i].dlen = len,
                                       !.memsize = (dd.memsize + len) - old], i)
           /\ pending' = (pending \cap Linked(dd)) \cup {i}
           /\ UNCHANGED <<multi, held, resetting, closed, fault>>
  <2> HIDE DEF room
  <2>1. /\ Good(dd) /\ Linked(dd) \subseteq Linked(c)
        /\ \A j \in Items : \/ dd.heap[j] = c.heap[j]
                            \/ dd.heap[j] = Nil /\ j \in Linked(c) /\ c.heap[j].usage = 0
    BY <1>4 DEF Evicted
  <2>2. dd.heap[i] = c.heap[i]
    BY <1>1, <2>1
  <2> HIDE DEF dd
  <2>3. Sound(dd) /\ InList(dd) /\ Kept(dd) /\ i \in Linked(dd) /\ i \in Allocated(dd)
    BY <1>1, <2>1, <2>2 DEF Good, Linked, Allocated
  <2>4. c' = m
    BY <1>7, <2>2 DEF resized
  <2>5. /\ Sound(z) /\ InList(z)
        /\ Linked(z) = Linked(dd) /\ Allocated(z) = Allocated(dd)
        /\ z.memsize = (dd.memsize + len) - dd.heap[i].dlen
        /\ z.heap[i] # Nil /\ z.heap[i].usage = dd.heap[i].usage
        /\ \A j \in Items : j # i => z.heap[j] = dd.heap[j]
    BY <1>3, <2>3, Resizing
  <2> HIDE DEF z
  <2>6. /\ Sound(m) /\ InList(m) /\ Linked(m) = Linked(z) /\ Allocated(m) = Allocated(z)
        /\ m.heap = z.heap /\ m.memsize = z.memsize
    BY <2>3, <2>5, MovingBack
  <2> HIDE DEF m
  <2>7. Kept(m)
    BY <2>3, <2>5, <2>6 DEF Kept, Allocated
  <2>8. Good(m)
    BY <2>6, <2>7 DEF Good
  <2>9. m.memsize <= MemLimit
    BY <1>4, <1>7, <2>2, <2>5, <2>6
  <2>10. pending' = Linked(m)
    BY <1>2, <1>7, <2>1, <2>3, <2>5, <2>6
  <2>11. Len_(m) <= MaxItems
    <3>1. Len_(m) <= Len_(c) /\ Len_(m) \in Nat /\ Len_(c) \in Nat
      BY <2>1, <2>5, <2>6, EvictedLen, LenType
    <3> QED
      BY <1>2, <3>1, LimitsAssumption
  <2>12. \A j \in Linked(c) : c.heap[j] # Nil
    BY DEF Linked, Allocated
  <2>13. usageIs(m, held)
    BY <1>1, <1>2, <2>1, <2>2, <2>5, <2>6, <2>12 DEF usageIs, Allocated
  <2>14. CacheInv'
    <3>1. held' \in [Items -> Nat] /\ usageIs(c', held')
      BY <1>2, <1>7, <2>4, <2>13
    <3> QED
      BY <1>1, <1>7, <2>4, <2>8, <2>9, <2>10, <2>11, <3>1, StaysInUse
  <2>15. held[i] = 1
    BY <1>1, <1>2 DEF usageIs, Allocated
  <2>16. \A j \in Items : j # i /\ m.heap[j] # Nil => m.heap[j] = c.heap[j]
    BY <2>1, <2>5, <2>6
  <2>17. SharedStays
    BY <1>1, <2>4, <2>15, <2>16 DEF SharedStays, Allocated
  <2> QED
    BY <2>14, <2>17
<1> QED
  BY <1>5, <1>6, <1>7 DEF Update

LEMMA UnrefStep ==
    ASSUME CacheInv, NEW i \in Items, NEW rm \in BOOLEAN, Unref(i, rm)
    PROVE  CacheInv' /\ SharedStays
<1> DEFINE n == c.heap[i].usage - 1
           u == counted(c, i, n)
           r == IF rm /\ ~u.heap[i].unlinked THEN item_rlz(u, i)
                ELSE IF u.heap[i].unlinked /\ u.heap[i].usage = 0 THEN item_fin(u, i)
                ELSE u
<1>1. ~closed /\ held[i] > 0
  BY DEF Unref, Running
<1>2. /\ Good(c) /\ pending = Linked(c) /\ usageIs(c, held) /\ held \in [Items -> Nat]
      /\ Len_(c) <= MaxItems /\ c.memsize <= MemLimit /\ c.memsize \in Nat
  BY <1>1, InUse
<1>3. i \in Allocated(c) /\ c.heap[i].usage = held[i]
  BY <1>1, <1>2 DEF usageIs, Allocated
<1>4. n \in Nat /\ n = held[i] - 1
  BY <1>1, <1>2, <1>3
<1>5. /\ c' = r /\ pending' = pending \cap Linked(r)
      /\ held' = [held EXCEPT ![i] = held[i] - 1]
      /\ UNCHANGED <<multi, resetting, closed, fault>>
  BY DEF Unref, Becomes, counted
<1> HIDE DEF n
<1>6. /\ Sound(u) /\ InList(u) /\ Linked(u) = Linked(c) /\ Allocated(u) = Allocated(c)
      /\ u.memsize = c.memsize /\ u.heap[i] # Nil /\ u.heap[i].usage = n
      /\ u.heap[i].dlen = c.heap[i].dlen /\ u.heap[i].unlinked = c.heap[i].unlinked
      /\ \A j \in Items : j # i => u.heap[j] = c.heap[j]
  <2>1. Sound(c) /\ InList(c) /\ n \in Nat /\ i \in Allocated(c)
    BY <1>2, <1>3, <1>4 DEF Good
  <2> QED
    BY <2>1, Counting
<1> HIDE DEF u
<1>7. \A j \in Allocated(u) : j # i /\ j \notin Linked(u) => u.heap[j].usage > 0
  BY <1>2, <1>6 DEF Good, Kept, Allocated
<1>8. /\ Good(r) /\ Linked(r) \subseteq Linked(u) /\ r.memsize <= u.memsize
      /\ \A j \in Items : j # i => r.heap[j] = u.heap[j]
      /\ r.heap[i] = Nil => n = 0
      /\ r.heap[i] # Nil => /\ r.heap[i].usage = n /\ r.heap[i].dlen = u.heap[i].dlen
                            /\ u.heap[i].unlinked => r.heap[i].unlinked
  <2>1. CASE u.heap[i].unlinked /\ n = 0
    <3>1. r = item_fin(u, i)
      BY <1>6, <2>1
    <3>2. i \in Allocated(u) /\ i \notin Linked(u)
      BY <1>3, <1>6, <2>1 DEF Linked
    <3> HIDE DEF r
    <3>3. /\ Sound(r) /\ InList(r)
          /\ Linked(r) = Linked(u) /\ Allocated(r) = Allocated(u) \ {i}
          /\ r.heap[i] = Nil /\ \A j \in Items : j # i => r.heap[j] = u.heap[j]
          /\ r.memsize <= u.memsize
      BY <1>6, <3>1, <3>2, FreeingUnlinked
    <3>4. Kept(r)
      BY <1>7, <3>3 DEF Kept, Allocated
    <3> QED
      BY <2>1, <3>3, <3>4 DEF Good
  <2>2. CASE ~(u.heap[i].unlinked /\ n = 0)
    <3>1. Kept(u)
      <4>1. i \notin Linked(u) => u.heap[i].usage > 0
        <5>1. u.heap[i].unlinked => n > 0
          <6>1. n # 0 => n > 0
            <7>1. n \in Nat
              BY <1>4
            <7> QED
              BY <7>1
          <6> QED
            BY <2>2, <6>1, Zenon
        <5> QED
          BY <1>3, <1>6, <5>1 DEF Linked
      <4> QED
        BY <1>7, <4>1 DEF Kept
    <3>2. Good(u)
      BY <1>6, <3>1 DEF Good
    <3>3. CASE rm /\ ~u.heap[i].unlinked
      <4>1. r = item_rlz(u, i)
        BY <3>3
      <4>2. i \in Linked(u)
        BY <1>3, <1>6, <3>3 DEF Linked
      <4> HIDE DEF r
      <4>3. /\ Good(r) /\ Linked(r) = Linked(u) \ {i} /\ r.memsize <= u.memsize
            /\ \A j \in Items : j # i => r.heap[j] = u.heap[j]
            /\ u.heap[i].usage = 0 => r.heap[i] = Nil
            /\ u.heap[i].usage # 0 => /\ r.heap[i] # Nil /\ r.heap[i].unlinked
                                      /\ r.heap[i].usage = u.heap[i].usage
                                      /\ r.heap[i].dlen = u.heap[i].dlen
        BY <3>2, <4>1, <4>2, Releasing
      <4> QED
        BY <1>6, <4>3
    <3>4. CASE ~(rm /\ ~u.heap[i].unlinked)
      <4>1. r = u
        BY <1>6, <2>2, <3>4
      <4> HIDE DEF r
      <4>2. r.memsize <= u.memsize
        BY <1>2, <1>6, <4>1
      <4> QED
        BY <1>6, <3>2, <4>1, <4>2
    <3> QED
      BY <3>3, <3>4
  <2> QED
    BY <2>1, <2>2
<1> HIDE DEF r
<1>9. pending' = Linked(r)
  BY <1>2, <1>5, <1>6, <1>8
<1>10. /\ held' \in [Items -> Nat] /\ held'[i] = n /\ \A j \in Items : j # i => held'[j] = held[j]
  BY <1>2, <1>4, <1>5
<1>11. usageIs(r, held')
  BY <1>2, <1>6, <1>8, <1>10 DEF usageIs
<1>12. r.memsize <= MemLimit
  <2>1. r.memsize \in Nat
    BY <1>8, EvictedSame
  <2> QED
    BY <1>2, <1>6, <1>8, <2>1, LimitsAssumption
<1>13. Len_(r) <= MaxItems
  <2>1. Len_(r) <= Len_(c) /\ Len_(r) \in Nat /\ Len_(c) \in Nat
    BY <1>6, <1>8, EvictedLen, LenType
  <2> QED
    BY <1>2, <2>1, LimitsAssumption
<1>14. CacheInv'
  BY <1>1, <1>5, <1>8, <1>9, <1>10, <1>11, <1>12, <1>13, StaysInUse
<1>15. SharedStays
  BY <1>5, <1>6, <1>8 DEF SharedStays, Allocated
<1> QED
  BY <1>14, <1>15

LEMMA ExpireStep ==
    ASSUME CacheInv, NEW i \in Items, Expire(i)
    PROVE  CacheInv' /\ SharedStays
<1>1. CASE c.heap[i] = Nil \/ closed
  BY <1>1, FaultStep DEF Expire
<1>2. CASE ~(c.heap[i] = Nil \/ closed)
  <2>1. i \in Linked(c)
    BY <1>2, InUse DEF Expire
  <2> QED
    BY <1>2, <2>1, ReleaseStep DEF Expire
<1> QED
  BY <1>1, <1>2

LEMMA ResetItemStep ==
    ASSUME CacheInv, NEW h \in Hashes, ResetItem(h)
    PROVE  CacheInv' /\ SharedStays
<1>1. ~closed /\ Sound(c) /\ c.tree[h] # << >>
  BY DEF ResetItem, CacheInv
<1>2. inTurn(c.tree[h]) \in Linked(c)
  BY <1>1, TurnOf
<1> QED
  BY <1>1, <1>2, ReleaseStep DEF ResetItem

\* The cache as it was: only what ffcache_reset() is doing changed.
LEMMA IdleStep ==
    ASSUME CacheInv, UNCHANGED <<c, multi, pending, held, closed, fault>>,
           resetting' \in BOOLEAN, ~(resetting' /\ closed)
    PROVE  CacheInv' /\ SharedStays
<1>1. TypeOK' /\ WithinLimits'
  BY DEF CacheInv, TypeOK, WithinLimits
<1>2. CacheInv'
  BY <1>1 DEF CacheInv
<1>3. SharedStays
  BY DEF SharedStays
<1> QED
  BY <1>2, <1>3

LEMMA FreeStep ==
    ASSUME CacheInv, Free
    PROVE  CacheInv' /\ SharedStays
<1>1. /\ closed' = TRUE /\ held' = NoRefs /\ c' = [c EXCEPT !.lastused = << >>]
      /\ UNCHANGED <<multi, pending, resetting, fault>> /\ ~resetting
  BY DEF Free, Running
<1>2. c \in Caches /\ Accounted(c) /\ InTree(c)
  BY DEF CacheInv, Sound
<1> DEFINE f == c'
<1>3. f = [tree |-> c.tree, lastused |-> << >>, memsize |-> c.memsize,
           heap |-> c.heap, ckeys |-> c.ckeys]
  BY <1>1, <1>2 DEF Caches
<1> HIDE DEF f
<1>4. f \in Caches
  BY <1>2, <1>3 DEF Caches
<1>5. f.tree = c.tree /\ f.memsize = c.memsize /\ f.heap = c.heap /\ f.ckeys = c.ckeys
  BY <1>3
<1>6. /\ Accounted(f) /\ Allocated(f) = Allocated(c)
      /\ \A j \in Allocated(c) : hashOf(f, j) = hashOf(c, j)
  BY <1>2, <1>4, <1>5, SameAccounts
<1>7. Linked(f) = Linked(c) /\ \A j \in Linked(c) : j \in Allocated(c)
  BY <1>5, <1>6 DEF Linked
<1>8. \A h \in Hashes : OfHash(f, h) = OfHash(c, h)
  BY <1>6, <1>7 DEF OfHash
<1>9. \A j, k \in Linked(f) : hashOf(f, j) = hashOf(f, k) => f.heap[j].ckey = f.heap[k].ckey
  BY <1>2, <1>5, <1>6, <1>7 DEF InTree
<1>10. InTree(f)
  BY <1>2, <1>5, <1>8, <1>9 DEF InTree
<1>11. Sound(f)
  BY <1>4, <1>6, <1>10 DEF Sound
<1>12. Sound(c')
  BY <1>11 DEF f
<1>13. c' \in Caches /\ c'.memsize = c.memsize /\ Len_(c') = Len_(c) /\ c'.heap = c.heap
  BY <1>4, <1>5, <1>7 DEF f, Len_
<1>14. TypeOK'
  BY <1>1, <1>13, EmptyIsGood DEF CacheInv, TypeOK, Caches
<1>15. WithinLimits'
  BY <1>13 DEF CacheInv, WithinLimits
<1>16. CacheInv'
  BY <1>1, <1>12, <1>14, <1>15 DEF CacheInv
<1>17. SharedStays
  BY <1>13 DEF SharedStays
<1> QED
  BY <1>16, <1>17

LEMMA FreeItemStep ==
    ASSUME CacheInv, NEW h \in Hashes, FreeItem(h)
    PROVE  CacheInv' /\ SharedStays
<1> DEFINE i == inTurn(c.tree[h])
           f == item_fin([c EXCEPT !.tree[h] = Without(c.tree[h], i)], i)
<1>1. /\ c' = f /\ closed /\ c.tree[h] # << >>
      /\ UNCHANGED <<multi, pending, held, resetting, closed, fault>>
  BY DEF FreeItem
<1>2. Sound(c) /\ Len_(c) <= MaxItems /\ c.memsize <= MemLimit /\ ~(resetting /\ closed)
      /\ c.memsize \in Nat
  BY DEF CacheInv, WithinLimits, Sound, Caches
<1>3. /\ Sound(f) /\ f.memsize <= c.memsize /\ Linked(f) \subseteq Linked(c)
      /\ \A j \in Allocated(f) : f.heap[j] = c.heap[j]
  BY <1>1, <1>2, Dropping
<1> HIDE DEF f
<1>4. f \in Caches /\ f.memsize \in Nat
  BY <1>3 DEF Sound, Caches
<1>5. Len_(f) <= MaxItems
  <2>1. Len_(f) <= Len_(c) /\ Len_(f) \in Nat /\ Len_(c) \in Nat
    BY <1>3, EvictedLen, LenType
  <2> QED
    BY <1>2, <2>1, LimitsAssumption
<1>6. TypeOK'
  BY <1>1, <1>4 DEF CacheInv, TypeOK, Caches
<1>7. WithinLimits'
  BY <1>1, <1>2, <1>3, <1>4, <1>5, LimitsAssumption DEF WithinLimits
<1>8. CacheInv'
  BY <1>1, <1>2, <1>3, <1>6, <1>7 DEF CacheInv
<1>9. SharedStays
  BY <1>1, <1>3 DEF SharedStays, Allocated
<1> QED
  BY <1>8, <1>9

LEMMA CacheInit == Init => CacheInv
<1> SUFFICES ASSUME Init PROVE CacheInv
  OBVIOUS
<1>1. c = Empty /\ pending = {} /\ held = NoRefs /\ resetting = FALSE /\ closed = FALSE
      /\ multi \in BOOLEAN /\ fault = "none"
  BY DEF Init
<1>2. Sound(c) /\ InList(c) /\ Kept(c) /\ c \in Caches
  BY <1>1, EmptyIsGood DEF Good, Sound
<1>3. pending = Linked(c) /\ usageIs(c, held) /\ held \in [Items -> Nat]
  BY <1>1, EmptyIsGood
<1>4. TypeOK
  BY <1>1, <1>2, <1>3 DEF TypeOK, Caches
<1>5. WithinLimits
  BY <1>1, EmptyIsGood, LimitsAssumption DEF WithinLimits
<1> QED
  BY <1>1, <1>2, <1>3, <1>4, <1>5 DEF CacheInv

LEMMA CacheNext ==
    ASSUME CacheInv, Next
    PROVE  CacheInv' /\ SharedStays
<1>1. CASE \E k \in Keys, len \in DataLens, n \in Refs : Store(k, len, n)
  BY <1>1, StoreStep
<1>2. CASE \E k \in Keys, n \in Refs : Fetch(k, n)
  BY <1>2, FetchStep
<1>3. CASE \E i \in Items, n \in Refs : FetchId(i, n)
  BY <1>3, TakeStep DEF FetchId, Allocated
<1>4. CASE \E i \in Items, n \in Refs : FetchNext(i, n)
  BY <1>4, FetchNextStep
<1>5. CASE \E i \in Items, len \in DataLens : Update(i, len)
  BY <1>5, UpdateStep
<1>6. CASE \E i \in Items, rm \in BOOLEAN : Unref(i, rm)
  BY <1>6, UnrefStep
<1>7. CASE \E i \in Items : Expire(i)
  BY <1>7, ExpireStep
<1>8. CASE Reset \/ ResetEnd
  BY <1>8, IdleStep DEF Reset, ResetEnd, Running
<1>9. CASE Free
  BY <1>9, FreeStep
<1>10. CASE \E h \in Hashes : ResetItem(h) \/ FreeItem(h)
  BY <1>10, ResetItemStep, FreeItemStep
<1> QED
  BY <1>1, <1>2, <1>3, <1>4, <1>5, <1>6, <1>7, <1>8, <1>9, <1>10 DEF Next

\* The invariant of ffcache, whatever its users, its timers, evictions, resets
\* and the end of the cache do: the tree and the list of last use hold the same
\* items, memory and keys are accounted for, and an item counts its users.
THEOREM CacheInvariant == Spec => []CacheInv
<1>1. CacheInv /\ UNCHANGED vars => CacheInv'
  BY IdleStep DEF vars, CacheInv, TypeOK
<1>2. CacheInv /\ [Next]_vars => CacheInv'
  BY <1>1, CacheNext
<1> QED
  BY <1>2, CacheInit, PTL DEF Spec

\* memsize never exceeds mem_limit and is the length of the data and of the keys
\* of every item that occupies memory; a key counts once, with its users.
THEOREM CacheMemAccounted == Spec => []MemAccounted
<1>1. CacheInv => MemAccounted
  BY DEF CacheInv, MemAccounted, Sound
<1> QED
  BY <1>1, CacheInvariant, PTL

\* The tree and the list hold the same items, each once and under its own hash
\* with the key of its chain; an item in neither has users and no timer.
THEOREM CacheIndexed == Spec => []Indexed
<1>1. ASSUME CacheInv PROVE Indexed
  <2> SUFFICES ASSUME ~closed PROVE
        /\ \A i \in Items : i \in Linked(c) <=> \E n \in 1..Len(c.lastused) : c.lastused[n] = i
        /\ IsInjective(c.lastused)
        /\ \A h \in Hashes :
             /\ IsInjective(c.tree[h])
             /\ \A n \in 1..Len(c.tree[h]) :
                  /\ c.tree[h][n] \in Linked(c)
                  /\ Hash[keyOf(c, c.tree[h][n])] = h
                  /\ c.heap[c.tree[h][n]].ckey = c.heap[c.tree[h][1]].ckey
        /\ \A i \in Linked(c) : \E n \in 1..Len(chain(c, i)) : chain(c, i)[n] = i
        /\ \A i \in Allocated(c) \ Linked(c) : c.heap[i].usage > 0
        /\ pending = Linked(c)
    BY DEF Indexed
  <2>1. Sound(c) /\ InList(c) /\ Kept(c) /\ pending = Linked(c)
        /\ c \in Caches /\ Accounted(c) /\ InTree(c)
    BY <1>1 DEF CacheInv, Sound
  <2>2. c.lastused \in Seq(Items) /\ Once(c.lastused) /\ ToSet(c.lastused) = Linked(c)
    BY <2>1 DEF Caches, InList
  <2>3. \A i \in Items : i \in Linked(c) <=> \E n \in 1..Len(c.lastused) : c.lastused[n] = i
    BY <2>2, ElementsOf
  <2>4. IsInjective(c.lastused)
    BY <2>2 DEF IsInjective, Once
  <2>5. ASSUME NEW h \in Hashes
        PROVE  /\ IsInjective(c.tree[h])
               /\ \A n \in 1..Len(c.tree[h]) :
                    /\ c.tree[h][n] \in Linked(c)
                    /\ Hash[keyOf(c, c.tree[h][n])] = h
                    /\ c.heap[c.tree[h][n]].ckey = c.heap[c.tree[h][1]].ckey
    <3>1. c.tree[h] \in Seq(Items) /\ Once(c.tree[h]) /\ ToSet(c.tree[h]) = OfHash(c, h)
      BY <2>1 DEF Caches, InTree
    <3>2. IsInjective(c.tree[h])
      BY <3>1 DEF IsInjective, Once
    <3>3. \A n \in 1..Len(c.tree[h]) : c.tree[h][n] \in OfHash(c, h)
      BY <3>1, ElementsOf
    <3>4. ASSUME NEW n \in 1..Len(c.tree[h])
          PROVE  /\ c.tree[h][n] \in Linked(c)
                 /\ hashOf(c, c.tree[h][n]) = h
                 /\ c.heap[c.tree[h][n]].ckey = c.heap[c.tree[h][1]].ckey
      <4>1. 1 \in 1..Len(c.tree[h])
        BY <3>1
      <4>2. /\ c.tree[h][1] \in Linked(c) /\ hashOf(c, c.tree[h][1]) = h
            /\ c.tree[h][n] \in Linked(c) /\ hashOf(c, c.tree[h][n]) = h
        BY <3>3, <4>1 DEF OfHash
      <4> QED
        BY <2>1, <4>2 DEF InTree
    <3> QED
      BY <3>2, <3>4 DEF hashOf
  <2>6. ASSUME NEW i \in Linked(c)
        PROVE  \E n \in 1..Len(chain(c, i)) : chain(c, i)[n] = i
    <3>1. hashOf(c, i) \in Hashes
      BY <2>1, ItemAndKey DEF Linked
    <3>2. /\ c.tree[hashOf(c, i)] \in Seq(Items) /\ i \in ToSet(c.tree[hashOf(c, i)])
      BY <2>1, <3>1 DEF Caches, InTree, OfHash
    <3> QED
      BY <3>2, ElementsOf DEF chain, hashOf
  <2>7. \A i \in Allocated(c) \ Linked(c) : c.heap[i].usage > 0
    BY <2>1 DEF Kept
  <2> QED
    BY <2>1, <2>3, <2>4, <2>5, <2>6, <2>7
<1> QED
  BY <1>1, CacheInvariant, PTL

\* An item is not freed while a user has yet to unref it, and its usage is the
\* number of references that are out.
THEOREM CacheHeldIsAlive == Spec => []HeldIsAlive
<1>1. ASSUME CacheInv PROVE HeldIsAlive
  BY <1>1 DEF CacheInv, HeldIsAlive, usageIs
<1> QED
  BY <1>1, CacheInvariant, PTL

\* No step changes the data that two users refer to, and none brings back an
\* item that left the cache while somebody refers to it.
THEOREM CacheStableWhileShared == Spec => StableWhileShared
<1>1. ASSUME CacheInv, [Next]_vars PROVE [SharedStays]_vars
  BY <1>1, CacheNext
<1> QED
  BY <1>1, CacheInvariant, PTL DEF Spec, StableWhileShared, SharedStays
=============================================================================
