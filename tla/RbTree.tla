------------------------------- MODULE RbTree -------------------------------
(***************************************************************************)
(* The red-black tree of FF/ffrbtree.c and its variant that chains nodes   *)
(* with equal keys (ffrbtl), which the timer queue, the cache and the      *)
(* readers of archives are built on.                                       *)
(*                                                                         *)
(* t is the tree: links and colors of the nodes 1..N and of the sentinel   *)
(* 0, whose parent is a scratch field of the removal.  Null is the parent  *)
(* of a node that is not in the tree.  sib is the ring of nodes with the   *)
(* same key.                                                               *)
(***************************************************************************)
EXTENDS Integers, Sequences, FiniteSets

CONSTANTS N,        \* nodes
          KeyOf     \* the key of each node

VARIABLES t, member     \* member: the nodes the user has inserted
vars == <<t, member>>

Sentl == 0
Null == -1
Nodes == 1..N

Init ==
    /\ t = [root |-> Sentl, len |-> 0, l |-> [n \in 0..N |-> Null], r |-> [n \in 0..N |-> Null],
            p |-> [n \in 0..N |-> Null], c |-> [n \in 0..N |-> "B"], key |-> [n \in 0..N |-> 0],
            sib |-> [n \in 0..N |-> n], prev |-> [n \in 0..N |-> n]]
    /\ member = {}

-----------------------------------------------------------------------------
(* Make m the child of n's parent in place of n.                           *)
relink_parent(x, n, m) ==
    LET q == x.p[n]
    IN [x EXCEPT !.root = IF q = Sentl THEN m ELSE @,
                 !.l = IF q # Sentl /\ x.l[q] = n THEN [@ EXCEPT ![q] = m] ELSE @,
                 !.r = IF q # Sentl /\ x.l[q] # n THEN [@ EXCEPT ![q] = m] ELSE @,
                 !.p = [@ EXCEPT ![m] = q]]
link_leftchild(x, n, m) == [x EXCEPT !.l[n] = m, !.p[m] = n]
link_rightchild(x, n, m) == [x EXCEPT !.r[n] = m, !.p[m] = n]
color(x, n, c) == [x EXCEPT !.c[n] = c]

lrot2(x, n, r) == link_leftchild(relink_parent(x, n, r), r, n)
left_rotate(x, n) ==
    lrot2([x EXCEPT !.r[n] = x.l[x.r[n]], !.p = IF x.l[x.r[n]] # Sentl THEN [@ EXCEPT ![x.l[x.r[n]]] = n] ELSE @], n, x.r[n])
rrot2(x, n, l) == link_rightchild(relink_parent(x, n, l), l, n)
right_rotate(x, n) ==
    rrot2([x EXCEPT !.l[n] = x.r[x.l[n]], !.p = IF x.r[x.l[n]] # Sentl THEN [@ EXCEPT ![x.r[x.l[n]]] = n] ELSE @], n, x.l[n])

RECURSIVE findnode(_, _, _, _)
findnode(x, key, n, last) ==    \* the node with the key, and the last one on the way
    CASE n = Sentl -> <<Null, last>>
      [] n # Sentl /\ key < x.key[n] -> findnode(x, key, x.l[n], n)
      [] n # Sentl /\ key > x.key[n] -> findnode(x, key, x.r[n], n)
      [] OTHER -> <<n, n>>
RECURSIVE least(_, _)
least(x, n) == IF x.l[n] = Sentl THEN n ELSE least(x, x.l[n])
RECURSIVE up(_, _, _)
up(x, n, q) == IF q # Sentl /\ n = x.r[q] THEN up(x, q, x.p[q]) ELSE q
successor(x, n) == IF x.r[n] # Sentl THEN least(x, x.r[n]) ELSE up(x, n, x.p[n])

(* fftree_insert(): below the node from.                                   *)
RECURSIVE place(_, _, _)
place(x, n, q) ==
    CASE q = Sentl -> [x EXCEPT !.root = n, !.p[n] = Sentl]
      [] q # Sentl /\ x.key[n] < x.key[q] -> IF x.l[q] = Sentl THEN [x EXCEPT !.l[q] = n, !.p[n] = q] ELSE place(x, n, x.l[q])
      [] OTHER -> IF x.r[q] = Sentl THEN [x EXCEPT !.r[q] = n, !.p[n] = q] ELSE place(x, n, x.r[q])
tree_insert(x, n, from) == [place(x, n, from) EXCEPT !.l[n] = Sentl, !.r[n] = Sentl]

(* The loops are symmetric: S is "l" for a parent that is a left child.    *)
child(x, n, S) == IF S = "l" THEN x.l[n] ELSE x.r[n]
Other(S) == IF S = "l" THEN "r" ELSE "l"
rotate(x, n, S) == IF S = "l" THEN left_rotate(x, n) ELSE right_rotate(x, n)

lifted(x, n, S) == rotate(color(color(x, x.p[n], "B"), x.p[x.p[n]], "R"), x.p[x.p[n]], Other(S))
straightOnce(x, n, S) == lifted(x, n, S)
straight(x, n, S) == IF n = child(x, x.p[n], Other(S)) THEN lifted(rotate(x, x.p[n], S), x.p[n], S) ELSE lifted(x, n, S)
RECURSIVE insert_fixup(_, _)
insert_fixup(x, n) ==
    LET q == x.p[n]
        g == x.p[q]
        S == IF q = x.l[g] THEN "l" ELSE "r"
        uncle == child(x, g, Other(S))
    IN IF x.c[q] # "R" THEN x
       ELSE IF x.c[uncle] = "B" THEN straight(x, n, S)
       ELSE insert_fixup(color(color(color(x, q, "B"), uncle, "B"), g, "R"), g)
blackRoot(x) == color(x, x.root, "B")
rbt_insert(x, n, parent) ==
    blackRoot(insert_fixup([tree_insert(x, n, IF parent \in {Null, Sentl} THEN x.root ELSE parent)
                              EXCEPT !.c[n] = "R", !.len = @ + 1], n))

(* tree_rm(): <<tree, the node that moved up, the successor or Null>>.     *)
cut(x, n) == [x EXCEPT !.l[n] = Null, !.r[n] = Null, !.p[n] = Null, !.key[n] = 0]
replaced(x, n, m) == cut(relink_parent(x, n, m), n)
both(x, n, s) ==
    LET a == IF s = x.r[n] THEN [x EXCEPT !.p[x.r[s]] = s]
             ELSE link_rightchild(link_leftchild(x, x.p[s], x.r[s]), s, x.r[n])
    IN  <<replaced(link_leftchild(a, s, x.l[n]), n, s), x.r[s], s>>
tree_rm(x, n) ==
    CASE x.l[n] = Sentl -> <<replaced(x, n, x.r[n]), x.r[n], Null>>
      [] x.l[n] # Sentl /\ x.r[n] = Sentl -> <<replaced(x, n, x.l[n]), x.l[n], Null>>
      [] OTHER -> both(x, n, least(x, x.r[n]))

sibBlack(x, p, S) ==    \* the sibling is black before the turn goes on
    LET s == child(x, p, Other(S))
    IN IF x.c[s] = "R" THEN rotate(color(color(x, s, "B"), p, "R"), p, S) ELSE x
outer(x, p, S) ==       \* the sibling's outer child is red
    LET s == child(x, p, Other(S))
    IN IF x.c[child(x, s, Other(S))] = "B" THEN rotate(color(color(x, child(x, s, S), "B"), s, "R"), s, Other(S)) ELSE x
closed(x, p, S) ==
    LET s == child(x, p, Other(S))
    IN  rotate(color(color(color(x, s, x.c[p]), p, "B"), child(x, s, Other(S)), "B"), p, S)
RECURSIVE rm_fixup(_, _)
rmTurn(x, p, S) ==
    LET s == child(x, p, Other(S))
    IN IF x.c[x.l[s]] = "R" \/ x.c[x.r[s]] = "R" THEN blackRoot(closed(outer(x, p, S), p, S))
       ELSE rm_fixup(color(x, s, "R"), p)
rm_fixup(x, n) ==
    IF n = x.root \/ x.c[n] = "R" THEN color(x, n, "B")
    ELSE LET S == IF n = x.l[x.p[n]] THEN "l" ELSE "r" IN rmTurn(sibBlack(x, x.p[n], S), x.p[n], S)
rmColors(y, was, n) ==  \* y: the result of tree_rm()
    LET x == y[1]
        gone == IF y[3] = Null THEN was.c[n] ELSE was.c[y[3]]
        z == IF y[3] = Null THEN x ELSE color(x, y[3], was.c[n])
    IN IF gone = "R" THEN color(z, y[2], "B") ELSE rm_fixup(z, y[2])
rbt_rm(x, n) == rmColors(tree_rm([x EXCEPT !.len = @ - 1], n), x, n)

-----------------------------------------------------------------------------
(* The chains.                                                             *)
unlink(x, n) == [x EXCEPT !.sib[x.prev[n]] = x.sib[n], !.prev[x.sib[n]] = x.prev[n]]
chain_append(x, n, m) == [x EXCEPT !.sib[n] = x.sib[m], !.prev[n] = m, !.prev[x.sib[m]] = n, !.sib[m] = n]
rbtl_insert(x, n, f) ==
    IF f[1] = Null THEN rbt_insert([x EXCEPT !.sib[n] = n, !.prev[n] = n], n, f[2])
    ELSE [chain_append(x, n, f[1]) EXCEPT !.len = @ + 1]
tookOver(x, n, m) ==    \* the sibling m takes the node's place in the tree
    LET a == relink_parent([x EXCEPT !.key[m] = x.key[n], !.c[m] = x.c[n]], n, m)
        b == IF x.l[n] # Sentl THEN link_leftchild(a, m, x.l[n]) ELSE [a EXCEPT !.l[m] = Sentl]
        d == IF x.r[n] # Sentl THEN link_rightchild(b, m, x.r[n]) ELSE [b EXCEPT !.r[m] = Sentl]
    IN  [d EXCEPT !.l[n] = Null, !.r[n] = Null, !.p[n] = Null, !.len = @ - 1]
rbtl_rm(x, n) ==
    CASE x.sib[n] = n -> rbt_rm(x, n)
      [] x.sib[n] # n /\ x.p[n] = Null -> [unlink(x, n) EXCEPT !.len = @ - 1]
      [] OTHER -> tookOver(unlink(x, n), n, x.sib[n])

Insert(n) ==
    /\ n \notin member /\ member' = member \union {n}
    /\ LET x == [t EXCEPT !.key[n] = KeyOf[n]] IN t' = rbtl_insert(x, n, findnode(x, KeyOf[n], x.root, x.root))
Rm(n) == n \in member /\ member' = member \ {n} /\ t' = rbtl_rm(t, n)
(* ffrbtl_freeall(): the siblings, then the node itself, in order; the     *)
(* successor is taken before the node is removed.                          *)
RECURSIVE chain(_, _, _)
chain(x, n, m) == IF m = n THEN <<>> ELSE <<m>> \o chain(x, n, x.sib[m])
RECURSIVE freeall(_, _, _)
freeall(x, n, freed) ==
    IF n = Sentl THEN <<x, freed>>
    ELSE freeall(rbt_rm([x EXCEPT !.len = @ - Len(chain(x, n, x.sib[n]))], n), successor(x, n),
                 freed \o chain(x, n, x.sib[n]) \o <<n>>)
freeAll == IF t.root = Sentl THEN <<t, <<>>>> ELSE freeall(t, least(t, t.root), <<>>)
Next == \E n \in Nodes : Rm(n) \/ Insert(n)
Spec == Init /\ [][Next]_vars

-----------------------------------------------------------------------------
(* The nodes of the tree in the order FFTREE_WALK visits them.             *)
RECURSIVE Walk(_)
Walk(n) == IF n = Sentl THEN <<>> ELSE <<n>> \o Walk(successor(t, n))
InOrder == IF t.root = Sentl THEN <<>> ELSE Walk(least(t, t.root))
InTree == {InOrder[i] : i \in DOMAIN InOrder}
RECURSIVE Height(_)     \* the number of black nodes, or Null if the paths differ
Height(n) == IF n = Sentl THEN 1
             ELSE LET a == Height(t.l[n])
                  IN IF a = Null \/ a # Height(t.r[n]) THEN Null ELSE a + (IF t.c[n] = "B" THEN 1 ELSE 0)

(* After any sequence of insertions and removals the tree is balanced:     *)
(* no red node has a red child, all paths have as many black nodes, the    *)
(* sentinel and the root are black.                                        *)
RedBlack ==
    /\ t.c[Sentl] = "B" /\ t.c[t.root] = "B" /\ Height(t.root) # Null
    /\ \A n \in InTree : t.c[n] = "R" => t.c[t.l[n]] = "B" /\ t.c[t.r[n]] = "B"

(* The walk visits the keys in ascending order, each once, and the chain   *)
(* at a key holds every other node of it: nothing is lost, len is right.   *)
Complete ==
    /\ \A i \in 1..(Len(InOrder) - 1) : t.key[InOrder[i]] < t.key[InOrder[i + 1]]
    /\ UNION {{n} \union {chain(t, n, t.sib[n])[i] : i \in DOMAIN chain(t, n, t.sib[n])} : n \in InTree} = member
    /\ t.len = Cardinality(member)

(* Freeing everything frees each node once and leaves the empty tree.      *)
FreedOnce ==
    LET f == freeAll[2]
    IN  /\ Len(f) = Cardinality(member) /\ {f[i] : i \in DOMAIN f} = member
        /\ freeAll[1].root = Sentl /\ freeAll[1].len = 0
=============================================================================
