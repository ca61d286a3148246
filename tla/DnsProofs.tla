----------------------------- MODULE DnsProofs -----------------------------
(***************************************************************************)
(* Proofs about the DNS client for any number of users, names, servers,    *)
(* queries and results, any order of calls, answers and timeouts.          *)
(*                                                                         *)
(* They are about a client that never finds another name's query under the *)
(* CRC of a name, and never runs out of memory as a user joins a query:    *)
(* either frees a query that stays in the tree.                            *)
(***************************************************************************)
EXTENDS DnsClient, DataLemmas, TLAPS

\* A query that is pending, a call of query_fin() or query_send(), a result.
TxIds == {tx[1] : tx \in TxPairs} \cup {tx[2] : tx \in TxPairs}
Query == [name : Names, users : Seq(Users), tries : 0..MaxTries, res : Seq(RIds),
          status : {"ok", "err"}, need4 : BOOLEAN, need6 : BOOLEAN, txid4 : TxIds, txid6 : TxIds]
Call == [op : {"fin"}, q : QIds, cur : Users \cup {None}, left : Seq(Users), ai : Seq(RIds),
         status : {"ok", "err"}]
Sending == [op : {"send"}, q : QIds]
Result == [name : Names, usage : Nat \cup {None}]
Holding == [r : RIds, for : Names]

NoneAssumption ==
    /\ None \notin Names /\ None \notin QIds /\ None \notin RIds /\ None \notin Users
    /\ None \notin Nat /\ None \notin Query /\ None \notin Result /\ None # Finishing
UserAssumption == IsFiniteSet(Users)
WantsAssumption == Wants \in [Users -> SUBSET Names]
Constants == WantsAssumption /\ NameAssumption /\ BoundAssumption /\ NoneAssumption /\ UserAssumption

\* ffdnscl_resolve() never finds another name's query, and query_addusr() never
\* fails on a query it found: the two ways in which a query in the tree is freed.
NoneLost == \A u \in Users, x \in Names : ~ Collide(u, x) /\ ~ JoinFails(u, x)
Unharmed == Spec /\ [][NoneLost]_vars

pending(i) == query[i] \in Query
once(s) == \A a, b \in 1..Len(s) : s[a] = s[b] => a = b
finishing(c) == c \in 1..Len(stack) /\ stack[c].op = "fin"
sends(i) == \E c \in 1..Len(stack) : stack[c].op = "send" /\ stack[c].q = i
\* Users on the list of a query, and of a call of query_fin().
on(u, i) == pending(i) /\ \E d \in 1..Len(query[i].users) : query[i].users[d] = u
due(u, c) == finishing(c) /\ \E d \in 1..Len(stack[c].left) : stack[c].left[d] = u
\* Results a query has got, a call is still to hand out, a user has.
found(j, i) == pending(i) /\ \E d \in 1..Len(query[i].res) : query[i].res[d] = j
gives(c, j) == /\ finishing(c) /\ stack[c].left # << >>
               /\ \E d \in 1..Len(stack[c].ai) : stack[c].ai[d] = j
holders(j) == {u \in Users : \E x \in held[u] : x.r = j}

Types ==
    /\ ipv6 \in BOOLEAN
    /\ tree \in [Keys -> QIds \cup {None}]
    /\ query \in [QIds -> Query \cup {Finishing, None}]
    /\ res \in [RIds -> Result \cup {None}]
    /\ timers \in SUBSET QIds
    /\ stack \in Seq(Call \cup Sending)
    /\ asked \in [Users -> Names \cup {None}]
    /\ held \in [Users -> SUBSET Holding]

\* The tree has the pending queries, each under the CRC of its name.
Filed ==
    /\ \A k \in Keys : tree[k] # None => pending(tree[k]) /\ icrc[query[tree[k]].name] = k
    /\ \A i \in QIds : pending(i) => tree[icrc[query[i].name]] = i

\* A query is being sent by the innermost call only; those that are being
\* finished are different.
Framed ==
    /\ \A c \in 1..Len(stack) : IF stack[c].op = "send" THEN c = Len(stack) /\ pending(stack[c].q)
                                ELSE query[stack[c].q] = Finishing
    /\ \A c, d \in 1..Len(stack) : stack[c].q = stack[d].q => c = d

\* A pending query has a timer unless it is being sent.
Timed == \A i \in QIds : i \in timers <=> pending(i) /\ ~ sends(i)

\* A user who asked for a name is on one list once: of the query for that name
\* or of a call that answers it.
Waiting ==
    /\ \A i \in QIds : pending(i) => once(query[i].users)
    /\ \A c \in 1..Len(stack) : finishing(c) => once(stack[c].left)
    /\ \A u \in Users, i \in QIds : on(u, i) => asked[u] = query[i].name
    /\ \A u \in Users, c \in 1..Len(stack) : due(u, c) =>
          /\ asked[u] # None
          /\ \A i \in QIds : ~ on(u, i)
          /\ \A d \in 1..Len(stack) : due(u, d) => d = c
    /\ \A u \in Users : asked[u] # None =>
          /\ held[u] = {}
          /\ (\E i \in QIds : on(u, i)) \/ (\E c \in 1..Len(stack) : due(u, c))

\* A result is one query's, which is still to count its users, or one call's
\* or the users' it was given to; it has the name they asked for.
Owned ==
    /\ \A i \in QIds, j \in RIds : found(j, i) =>
          /\ res[j] # None /\ res[j].usage = None /\ res[j].name = query[i].name
          /\ holders(j) = {}
          /\ \A c \in 1..Len(stack) : ~ gives(c, j)
    /\ \A c \in 1..Len(stack), j \in RIds : gives(c, j) =>
          /\ res[j] # None
          /\ \A u \in Users : due(u, c) => res[j].name = asked[u]
          /\ \A d \in 1..Len(stack) : gives(d, j) => d = c
    /\ \A u \in Users : \A x \in held[u] : res[x.r] # None /\ res[x.r].name = x.for

\* A counted result has as many references as users have it or are due to get it.
Counted ==
    \A j \in RIds : res[j] # None /\ res[j].usage # None =>
        /\ \A c \in 1..Len(stack) : gives(c, j) =>
              res[j].usage = Cardinality(holders(j)) + Len(stack[c].left)
        /\ (\A c \in 1..Len(stack) : ~ gives(c, j)) => res[j].usage = Cardinality(holders(j))

\* A call that reports success has addresses.
Successful == \A c \in 1..Len(stack) : finishing(c) /\ stack[c].status = "ok" => stack[c].ai # << >>

DnsInv == Types /\ Filed /\ Framed /\ Timed /\ Waiting /\ Owned /\ Counted /\ Successful
-----------------------------------------------------------------------------
(* What a step leaves alone *)

LEMMA FrontIs ==
    ASSUME NEW S, NEW s \in Seq(S), s # << >>
    PROVE  /\ Len(s) \in Nat \ {0} /\ Len(s) \in 1..Len(s)
           /\ Front(s) \in Seq(S) /\ Len(Front(s)) = Len(s) - 1
           /\ \A c \in 1..(Len(s) - 1) : Front(s)[c] = s[c]
<1>1. Len(s) \in Nat \ {0} /\ Len(s) \in 1..Len(s)
  BY EmptySeq
<1>2. Front(s) = SubSeq(s, 1, Len(s) - 1)
  BY DEF Front
<1>3. \A c \in 1..(Len(s) - 1) : s[c] \in S
  BY <1>1
<1>4. /\ Front(s) \in Seq(S)
      /\ Len(Front(s)) = IF 1 <= Len(s) - 1 THEN Len(s) - 1 - 1 + 1 ELSE 0
      /\ \A c \in 1..(Len(s) - 1 - 1 + 1) : Front(s)[c] = s[1 + c - 1]
  BY <1>1, <1>2, <1>3, SubSeqProperties
<1>5. PICK m \in Nat : m = Len(s) - 1
  BY <1>1
<1>6. /\ m - 1 + 1 = m /\ m = IF 1 <= m THEN m - 1 + 1 ELSE 0
      /\ \A c \in 1..m : 1 + c - 1 = c
  OBVIOUS
<1>7. /\ Len(Front(s)) = m /\ \A c \in 1..m : Front(s)[c] = s[1 + c - 1]
  BY <1>4, <1>5, <1>6
<1> QED
  BY <1>1, <1>4, <1>5, <1>6, <1>7

\* The top of the stack, and what is below it.
LEMMA StackFacts ==
    ASSUME Types, stack # << >>
    PROVE  /\ Len(stack) \in Nat \ {0} /\ Len(stack) \in 1..Len(stack)
           /\ Top = stack[Len(stack)] /\ Top \in Call \cup Sending
           /\ Front(stack) \in Seq(Call \cup Sending) /\ Len(Front(stack)) = Len(stack) - 1
           /\ \A c \in 1..(Len(stack) - 1) : Front(stack)[c] = stack[c]
<1>1. stack \in Seq(Call \cup Sending)
  BY DEF Types
<1>2. Len(stack) \in Nat \ {0} /\ Len(stack) \in 1..Len(stack)
  BY <1>1, EmptySeq
<1>3. Top = stack[Len(stack)] /\ Top \in Call \cup Sending
  BY <1>1, <1>2 DEF Top, Last
<1> HIDE DEF Call, Sending
<1> QED
  BY <1>1, <1>2, <1>3, FrontIs

\* Every call on the stack finishes or sends a query.
LEMMA FrameFacts ==
    ASSUME Types, NEW c \in 1..Len(stack)
    PROVE  /\ stack[c].q \in QIds
           /\ stack[c].op = "send" \/ stack[c].op = "fin"
           /\ stack[c].op = "fin" => stack[c] \in Call
           /\ stack[c].op = "send" => stack[c] \in Sending
<1>1. stack[c] \in Call \cup Sending
  BY DEF Types
<1> QED
  BY <1>1 DEF Call, Sending

\* While a user may call the client no query is being sent.
LEMMA NobodySends ==
    ASSUME Types, Framed, Callable
    PROVE  /\ \A c \in 1..Len(stack) : stack[c].op = "fin" /\ finishing(c)
           /\ \A i \in QIds : ~ sends(i)
<1>1. ASSUME NEW c \in 1..Len(stack) PROVE stack[c].op # "send"
  <2>1. stack # << >>
    BY <1>1
  <2>2. stack[Len(stack)].op = "fin"
    BY <2>1, StackFacts DEF Callable
  <2> QED
    BY <2>2 DEF Framed
<1> QED
  BY <1>1, FrameFacts DEF finishing, sends

\* A handler that a call of query_fin() has still to call is a user's.
LEMMA DueIsUser == ASSUME Types, NEW u, NEW c, due(u, c) PROVE u \in Users /\ c \in 1..Len(stack)
<1>1. stack[c] \in Call
  BY FrameFacts DEF due, finishing
<1> QED
  BY <1>1 DEF due, finishing, Call

sameCalls == /\ Len(stack') = Len(stack)
             /\ \A c \in 1..Len(stack) :
                   /\ stack'[c].op = stack[c].op /\ stack'[c].q = stack[c].q
                   /\ stack[c].op = "fin" => /\ stack'[c].left = stack[c].left
                                             /\ stack'[c].ai = stack[c].ai
                                             /\ stack'[c].status = stack[c].status

\* Calls that are as before owe and give what they did.
LEMMA SameCalls ==
    ASSUME sameCalls
    PROVE  /\ \A c : finishing(c)' <=> finishing(c)
           /\ \A u, c : due(u, c)' <=> due(u, c)
           /\ \A c, j : gives(c, j)' <=> gives(c, j)
           /\ \A i : sends(i)' <=> sends(i)
           /\ \A c : finishing(c) => stack'[c].left = stack[c].left
  BY DEF sameCalls, finishing, due, gives, sends

\* The call of a user's handler is over when the user calls the client.
LEMMA ReturningIs ==
    ASSUME Types, Framed, Callable
    PROVE  /\ Returning \in Seq(Call \cup Sending) /\ Len(Returning) = Len(stack)
           /\ \A c \in 1..Len(stack) :
                 /\ Returning[c].op = stack[c].op /\ Returning[c].q = stack[c].q
                 /\ stack[c].op = "fin" => /\ Returning[c].left = stack[c].left
                                           /\ Returning[c].ai = stack[c].ai
                                           /\ Returning[c].status = stack[c].status
<1>1. CASE stack = << >>
  BY <1>1 DEF Returning, Types
<1>2. CASE stack # << >>
  <2> DEFINE m == Len(stack)
             st == Returning
  <2>1. st = [stack EXCEPT ![m].cur = None]
    BY <1>2 DEF Returning
  <2>2. stack \in Seq(Call \cup Sending) /\ m \in 1..m /\ m \in Nat /\ stack[m].op = "fin" /\ stack[m] \in Call
    BY <1>2, StackFacts, NobodySends, FrameFacts DEF Types
  <2>3. [stack[m] EXCEPT !.cur = None] \in Call
    BY <2>2 DEF Call
  <2>4. Len(st) = m /\ \A c \in 1..m : st[c] = IF c = m THEN [stack[m] EXCEPT !.cur = None] ELSE stack[c]
    BY <2>1, <2>2
  <2>5. st \in Seq(Call \cup Sending)
    <3> HIDE DEF Call, Sending
    <3> QED
      BY <2>1, <2>2, <2>3, <2>4
  <2>6. /\ [stack[m] EXCEPT !.cur = None].op = stack[m].op /\ [stack[m] EXCEPT !.cur = None].q = stack[m].q
        /\ [stack[m] EXCEPT !.cur = None].left = stack[m].left /\ [stack[m] EXCEPT !.cur = None].ai = stack[m].ai
        /\ [stack[m] EXCEPT !.cur = None].status = stack[m].status
    BY <2>2 DEF Call
  <2> QED
    BY <2>4, <2>5, <2>6
<1> QED
  BY <1>1, <1>2

\* A handler that returns leaves what is still owed and given.
LEMMA ReturningCalls ==
    ASSUME Types, Framed, Callable, stack' = Returning
    PROVE  sameCalls /\ stack' \in Seq(Call \cup Sending)
  BY ReturningIs DEF sameCalls

\* The queries stay what they are, but for their users, results, tries.
sameQueries == \A i \in QIds : /\ pending(i)' <=> pending(i)
                               /\ pending(i) => query'[i].name = query[i].name
                               /\ query[i] = Finishing => query'[i] = Finishing

\* A tree and queries that are as before: still filed.
LEMMA FiledKept ==
    ASSUME Types, Filed, sameQueries, tree' = tree
    PROVE  Filed'
<1>1. \A k \in Keys : tree[k] # None => tree[k] \in QIds
  BY DEF Types
<1>2. \A i \in QIds : pending(i) => icrc[query'[i].name] = icrc[query[i].name]
  BY DEF sameQueries
<1> QED
  BY <1>1, <1>2 DEF Filed, sameQueries

\* Calls and queries that are as before: still framed.
LEMMA FramedKept ==
    ASSUME Types, Framed, sameQueries, sameCalls
    PROVE  Framed'
<1>1. \A c \in 1..Len(stack) : stack[c].q \in QIds
  BY FrameFacts
<1> QED
  BY <1>1 DEF Framed, sameQueries, sameCalls

\* Timers and queries that are as before: still timed.
LEMMA TimedKept ==
    ASSUME Timed, sameQueries, timers' = timers, \A i \in QIds : sends(i)' <=> sends(i)
    PROVE  Timed'
  BY DEF Timed, sameQueries

\* Results that nobody new is given stay with their name.
LEMMA OwnedKept ==
    ASSUME Owned, res' = res, held' = held,
           \A i \in QIds, j \in RIds : found(j, i)' => found(j, i) /\ query'[i].name = query[i].name,
           \A c, j : gives(c, j)' => gives(c, j) /\ c \in 1..Len(stack),
           \A u, c : due(u, c)' => due(u, c) /\ asked'[u] = asked[u]
    PROVE  Owned'
<1>1. \A j : holders(j)' = holders(j)
  BY DEF holders
<1> QED
  BY <1>1 DEF Owned

\* Counts, holders and handlers to call that are as before: still counted.
LEMMA CountedKept ==
    ASSUME Counted, res' = res, held' = held,
           \A c, j : gives(c, j)' <=> gives(c, j),
           \A c, j : gives(c, j) => c \in 1..Len(stack) /\ c \in 1..Len(stack') /\ stack'[c].left = stack[c].left
    PROVE  Counted'
<1>1. \A j : holders(j)' = holders(j)
  BY DEF holders
<1> QED
  BY <1>1 DEF Counted

\* Calls that are as before succeed with a result, if they do.
LEMMA SuccessfulKept ==
    ASSUME Successful, sameCalls
    PROVE  Successful'
  BY DEF Successful, sameCalls, finishing

\* Whoever asked waits in the same list as before.
LEMMA WaitingKept ==
    ASSUME Waiting, sameQueries, sameCalls, asked' = asked, held' = held,
           \A i \in QIds : pending(i) => query'[i].users = query[i].users
    PROVE  Waiting'
<1>1. \A u, i : i \in QIds => (on(u, i)' <=> on(u, i))
  BY DEF on, sameQueries
<1>2. \A i \in QIds : (pending(i)' <=> pending(i)) /\ (pending(i) => query'[i].name = query[i].name)
  BY DEF sameQueries
<1>3. /\ \A c : finishing(c)' <=> finishing(c)
      /\ \A u, c : due(u, c)' <=> due(u, c)
      /\ \A c : finishing(c) => stack'[c].left = stack[c].left
      /\ Len(stack') = Len(stack)
  BY SameCalls DEF sameCalls
<1>4. \A i \in QIds : pending(i)' => once(query'[i].users)
  BY <1>2 DEF Waiting
<1>5. \A c \in 1..Len(stack') : finishing(c)' => once(stack'[c].left)
  BY <1>3 DEF Waiting
<1>6. \A u \in Users, i \in QIds : on(u, i)' => asked'[u] = query'[i].name
  BY <1>1, <1>2 DEF Waiting, on
<1>7. \A u \in Users, c \in 1..Len(stack') : due(u, c)' =>
          /\ asked'[u] # None
          /\ \A i \in QIds : ~ on(u, i)'
          /\ \A d \in 1..Len(stack') : due(u, d)' => d = c
  BY <1>1, <1>3 DEF Waiting
<1>8. \A u \in Users : asked'[u] # None =>
          /\ held'[u] = {}
          /\ (\E i \in QIds : on(u, i)') \/ (\E c \in 1..Len(stack') : due(u, c)')
  BY <1>1, <1>3 DEF Waiting
<1> QED
  BY <1>4, <1>5, <1>6, <1>7, <1>8 DEF Waiting, once
-----------------------------------------------------------------------------
(* One step after the other *)

LEMMA QueryFields ==
    ASSUME Types, NEW i \in QIds, pending(i)
    PROVE  /\ query[i].name \in Names /\ query[i].users \in Seq(Users) /\ query[i].tries \in 0..MaxTries
           /\ query[i].res \in Seq(RIds) /\ query[i].status \in {"ok", "err"}
           /\ query[i].need4 \in BOOLEAN /\ query[i].need6 \in BOOLEAN
           /\ query[i].txid4 \in TxIds /\ query[i].txid6 \in TxIds
  BY DEF pending, Query

\* A query that is freed or being finished is no query.
LEMMA NotQueries == ASSUME Constants PROVE Finishing \notin Query /\ None \notin Query /\ None # Finishing
  BY DEF Constants, NoneAssumption, Finishing, Query

\* A query with another list of users is otherwise the same.
LEMMA WithUsers ==
    ASSUME NEW q \in Query, NEW us \in Seq(Users)
    PROVE  /\ [q EXCEPT !.users = us] \in Query /\ [q EXCEPT !.users = us].name = q.name
           /\ [q EXCEPT !.users = us].users = us /\ [q EXCEPT !.users = us].res = q.res
  BY DEF Query

\* The query that the tree has under the CRC of a name.
LEMMA FiledUnder ==
    ASSUME Constants, DnsInv, NEW x \in Names, tree[icrc[x]] # None
    PROVE  /\ tree[icrc[x]] \in QIds /\ pending(tree[icrc[x]])
           /\ icrc[query[tree[icrc[x]]].name] = icrc[x] /\ icrc[x] \in Keys
<1>1. icrc[x] \in Keys
  BY DEF Keys
<1> QED
  BY <1>1 DEF DnsInv, Types, Filed

\* What Append() adds to a list without repetition.
LEMMA AppendedOne ==
    ASSUME NEW S, NEW s \in Seq(S), NEW e \in S
    PROVE  /\ Append(s, e) \in Seq(S) /\ Append(s, e) # << >>
           /\ \A v : (\E d \in 1..Len(Append(s, e)) : Append(s, e)[d] = v)
                     <=> (\E d \in 1..Len(s) : s[d] = v) \/ v = e
           /\ once(s) /\ (\A d \in 1..Len(s) : s[d] # e) => once(Append(s, e))
<1> DEFINE t == Append(s, e)
<1>1. /\ t \in Seq(S) /\ Len(t) = Len(s) + 1 /\ Len(s) \in Nat
      /\ \A d \in 1..Len(s) : t[d] = s[d]
      /\ t[Len(s) + 1] = e
  BY AppendProperties
<1> HIDE DEF t
<1>2. /\ 1..Len(s) \subseteq 1..Len(t) /\ Len(s) + 1 \in 1..Len(t)
      /\ \A d \in 1..Len(t) : d \in 1..Len(s) \/ d = Len(s) + 1
  BY <1>1
<1>3. \A v : (\E d \in 1..Len(t) : t[d] = v) <=> (\E d \in 1..Len(s) : s[d] = v) \/ v = e
  BY <1>1, <1>2
<1>4. once(s) /\ (\A d \in 1..Len(s) : s[d] # e) => once(t)
  BY <1>1, <1>2 DEF once
<1>5. t # << >>
  BY <1>1, EmptySeq
<1> QED
  BY <1>1, <1>3, <1>4, <1>5 DEF t

\* ffdnscl_resolve(): the name is being asked for already.
LEMMA JoinStep ==
    ASSUME Constants, DnsInv, NEW u \in Users, NEW x \in Names, Join(u, x)
    PROVE  DnsInv'
<1> USE DEF DnsInv
<1>0. PICK i \in QIds : i = tree[icrc[x]] /\ pending(i)
  BY FiledUnder DEF Join
<1> DEFINE q == [query[i] EXCEPT !.users = Append(@, u)]
<1>1. /\ i \in QIds /\ pending(i) /\ query[i].name = x
      /\ asked[u] = None /\ Callable
  BY <1>0 DEF Join, Free
<1>2. /\ q \in Query /\ q.name = query[i].name /\ q.users = Append(query[i].users, u) /\ q.res = query[i].res
      /\ query[i].users \in Seq(Users)
  <2>1. query[i] \in Query /\ query[i].users \in Seq(Users)
    BY <1>1, QueryFields DEF pending
  <2>2. Append(query[i].users, u) \in Seq(Users)
    BY <2>1
  <2> QED
    BY <2>1, <2>2, WithUsers
<1>3. /\ query' = [query EXCEPT ![i] = q] /\ asked' = [asked EXCEPT ![u] = x] /\ stack' = Returning
      /\ UNCHANGED <<ipv6, tree, res, timers, held>>
  <2>1. query[i] \in Query
    BY <1>1 DEF pending
  <2> QED
    BY <1>0, <2>1 DEF Join
<1> HIDE DEF q
<1>4. /\ \A k \in QIds : query'[k] = IF k = i THEN q ELSE query[k]
      /\ \A v \in Users : asked'[v] = IF v = u THEN x ELSE asked[v]
  BY <1>1, <1>3 DEF Types
<1>5. sameCalls /\ stack' \in Seq(Call \cup Sending)
  BY <1>1, <1>3, ReturningCalls
<1>6. sameQueries /\ \A j, k : k \in QIds => (found(j, k)' <=> found(j, k))
  <2>1. \A k \in QIds : (pending(k)' <=> pending(k)) /\ (query[k] = Finishing => k # i)
    BY <1>1, <1>2, <1>4, NotQueries DEF pending
  <2> QED
    BY <1>1, <1>2, <1>4, <2>1 DEF sameQueries, found
<1>7. \A v, k : k \in QIds => (on(v, k)' <=> on(v, k) \/ (v = u /\ k = i))
  <2>1. \A v : \A k \in QIds : k # i => (on(v, k)' <=> on(v, k))
    BY <1>4 DEF on, pending
  <2>2. \A v : on(v, i)' <=> on(v, i) \/ v = u
    <3>1. \A v : (\E d \in 1..Len(q.users) : q.users[d] = v)
                  <=> (\E d \in 1..Len(query[i].users) : query[i].users[d] = v) \/ v = u
      BY <1>2, AppendedOne
    <3>2. query'[i] = q /\ pending(i) /\ pending(i)'
      BY <1>1, <1>2, <1>4 DEF pending
    <3> QED
      BY <3>1, <3>2 DEF on
  <2>3. ~ on(u, i)
    BY <1>1, QueryFields DEF Waiting, on, Constants, NoneAssumption
  <2> QED
    BY <1>1, <2>1, <2>2
<1>8. Types'
  BY <1>1, <1>2, <1>3, <1>5 DEF Types
<1>9. Waiting'
  <2>1. /\ \A c : finishing(c)' <=> finishing(c)
        /\ \A v, c : due(v, c)' <=> due(v, c)
        /\ \A c : finishing(c) => stack'[c].left = stack[c].left
        /\ Len(stack') = Len(stack)
    BY <1>5, SameCalls DEF sameCalls
  <2>2. \A k \in QIds : (pending(k)' <=> pending(k)) /\ (pending(k) => query'[k].name = query[k].name)
    BY <1>6 DEF sameQueries
  <2>3. /\ \A k \in QIds : ~ on(u, k)
        /\ \A c \in 1..Len(stack) : ~ due(u, c)
    BY <1>1, QueryFields DEF Waiting, on, Constants, NoneAssumption
  <2>4. once(query'[i].users)
    <3>1. once(query[i].users) /\ \A a \in 1..Len(query[i].users) : query[i].users[a] # u
      BY <1>1, <2>3 DEF Waiting, on
    <3>2. once(Append(query[i].users, u))
      BY <1>2, <3>1, AppendedOne
    <3> QED
      BY <1>2, <1>4, <3>2
  <2>5. \A k \in QIds : pending(k)' => once(query'[k].users)
    BY <1>4, <2>2, <2>4 DEF Waiting
  <2>6. \A c \in 1..Len(stack') : finishing(c)' => once(stack'[c].left)
    BY <2>1 DEF Waiting
  <2>7. \A v \in Users, k \in QIds : on(v, k)' => asked'[v] = query'[k].name
    <3>1. ASSUME NEW v \in Users, NEW k \in QIds, on(v, k)
          PROVE  v # u /\ asked[v] = query[k].name /\ query'[k].name = query[k].name
      BY <2>2, <2>3, <3>1 DEF Waiting, on
    <3> QED
      BY <1>1, <1>2, <1>4, <1>7, <3>1
  <2>8. \A v \in Users, c \in 1..Len(stack') : due(v, c)' =>
            /\ asked'[v] # None
            /\ \A k \in QIds : ~ on(v, k)'
            /\ \A d \in 1..Len(stack') : due(v, d)' => d = c
    BY <1>4, <1>7, <2>1, <2>3 DEF Waiting
  <2>9. \A v \in Users : asked'[v] # None =>
            /\ held'[v] = {}
            /\ (\E k \in QIds : on(v, k)') \/ (\E c \in 1..Len(stack') : due(v, c)')
    <3>1. held[u] = {}
      BY DEF Join, Free
    <3> QED
      BY <1>1, <1>3, <1>4, <1>7, <2>1, <3>1 DEF Waiting
  <2> QED
    BY <2>5, <2>6, <2>7, <2>8, <2>9 DEF Waiting, once
<1>10. Owned' /\ Counted'
  <2>1. /\ \A c, j : gives(c, j)' <=> gives(c, j)
        /\ \A c, j : gives(c, j) => c \in 1..Len(stack) /\ stack'[c].left = stack[c].left
        /\ \A v, c : due(v, c)' <=> due(v, c)
        /\ Len(stack') = Len(stack)
    BY <1>5, SameCalls DEF sameCalls, gives, finishing
  <2>2. \A k \in QIds, j \in RIds : found(j, k)' => found(j, k) /\ query'[k].name = query[k].name
    BY <1>6 DEF sameQueries, found
  <2>3. \A v, c : due(v, c)' => due(v, c) /\ asked'[v] = asked[v]
    <3>1. \A c : ~ due(u, c)
      BY <1>1 DEF Waiting, due, finishing
    <3>2. ASSUME NEW v, NEW c, due(v, c) PROVE v \in Users
      BY <3>2, DueIsUser
    <3> QED
      BY <1>4, <2>1, <3>1, <3>2
  <2> QED
    BY <1>3, <2>1, <2>2, <2>3, OwnedKept, CountedKept
<1>11. Filed' /\ Framed' /\ Timed' /\ Successful'
  BY <1>3, <1>5, <1>6, SameCalls, FiledKept, FramedKept, TimedKept, SuccessfulKept
<1> QED
  BY <1>8, <1>9, <1>10, <1>11

\* A call of query_send() begins on top of the others.
pushes(i) == /\ Len(stack') = Len(stack) + 1
             /\ \A c \in 1..Len(stack) :
                   /\ stack'[c].op = stack[c].op /\ stack'[c].q = stack[c].q
                   /\ stack[c].op = "fin" => /\ stack'[c].left = stack[c].left
                                             /\ stack'[c].ai = stack[c].ai
                                             /\ stack'[c].status = stack[c].status
             /\ stack'[Len(stack) + 1] = [op |-> "send", q |-> i]

\* query_send() on top of the stack owes nobody anything.
LEMMA PushedCall ==
    ASSUME Types, NEW i, pushes(i), \A k \in QIds : ~ sends(k), i \in QIds
    PROVE  /\ \A c : finishing(c)' <=> finishing(c)
           /\ \A u, c : due(u, c)' <=> due(u, c)
           /\ \A c, j : gives(c, j)' <=> gives(c, j)
           /\ \A k \in QIds : sends(k)' <=> k = i
           /\ \A c : finishing(c) => c \in 1..Len(stack) /\ stack'[c].left = stack[c].left
           /\ \A c, j : gives(c, j) => finishing(c)
           /\ \A u, c : due(u, c) => finishing(c)
<1>1. /\ Len(stack) \in Nat /\ Len(stack') = Len(stack) + 1
      /\ \A c \in 1..Len(stack') : c \in 1..Len(stack) \/ c = Len(stack) + 1
      /\ \A c \in 1..Len(stack) : c \in 1..Len(stack') /\ c # Len(stack) + 1
      /\ Len(stack) + 1 \in 1..Len(stack')
  BY DEF Types, pushes
<1>2. stack'[Len(stack) + 1].op = "send" /\ stack'[Len(stack) + 1].q = i
  BY DEF pushes
<1>3. \A c : finishing(c)' <=> finishing(c)
  BY <1>1, <1>2 DEF finishing, pushes
<1>4. \A c : finishing(c) => /\ c \in 1..Len(stack) /\ stack'[c].left = stack[c].left
                             /\ stack'[c].ai = stack[c].ai
  BY DEF finishing, pushes
<1>5. \A u, c : due(u, c)' <=> due(u, c)
  BY <1>3, <1>4 DEF due
<1>6. \A c, j : gives(c, j)' <=> gives(c, j)
  BY <1>3, <1>4 DEF gives
<1>7. ASSUME NEW k \in QIds PROVE sends(k)' <=> k = i
  <2>1. \A c \in 1..Len(stack) : ~ (stack'[c].op = "send" /\ stack'[c].q = k)
    BY DEF pushes, sends
  <2> QED
    BY <1>1, <1>2, <2>1 DEF sends
<1> QED
  BY <1>3, <1>4, <1>5, <1>6, <1>7 DEF due, gives

\* ffdnscl_resolve(): a new query.
LEMMA AskStep ==
    ASSUME Constants, DnsInv, NEW u \in Users, NEW x \in Names, NEW tx \in TxPairs, Ask(u, x, tx)
    PROVE  DnsInv'
<1> USE DEF DnsInv
<1> DEFINE q == [name |-> x, users |-> <<u>>, tries |-> MaxTries, res |-> << >>, status |-> "ok",
                 need4 |-> TRUE, need6 |-> ipv6, txid4 |-> tx[1], txid6 |-> tx[2]]
           mine == [op |-> "send", q |-> CHOOSE y \in QIds : query[y] = None]
<1>1. PICK i \in QIds : /\ i = CHOOSE y \in QIds : query[y] = None
                        /\ query[i] = None
  BY DEF Ask
<1>2. /\ Callable /\ asked[u] = None /\ held[u] = {} /\ tree[icrc[x]] = None
      /\ query' = [query EXCEPT ![i] = q]
      /\ tree' = [tree EXCEPT ![icrc[x]] = i]
      /\ stack' = Append(Returning, [op |-> "send", q |-> i])
      /\ asked' = [asked EXCEPT ![u] = x]
      /\ UNCHANGED <<ipv6, res, timers, held>>
  BY <1>1 DEF Ask, Free
<1>3. /\ q \in Query /\ q.name = x /\ q.users = <<u>> /\ q.res = << >>
  <2>1. <<u>> \in Seq(Users) /\ << >> \in Seq(RIds) /\ MaxTries \in 0..MaxTries /\ ipv6 \in BOOLEAN
    BY DEF Types, Constants, BoundAssumption
  <2>2. tx[1] \in TxIds /\ tx[2] \in TxIds
    BY DEF TxIds
  <2> QED
    BY <2>1, <2>2 DEF Query
<1> HIDE DEF q
<1>4. icrc[x] \in Keys /\ \A k \in QIds : pending(k) => icrc[query[k].name] \in Keys
  BY QueryFields DEF Keys
<1>5. /\ \A k \in QIds : query'[k] = IF k = i THEN q ELSE query[k]
      /\ \A v \in Users : asked'[v] = IF v = u THEN x ELSE asked[v]
      /\ \A k \in Keys : tree'[k] = IF k = icrc[x] THEN i ELSE tree[k]
  BY <1>2, <1>4 DEF Types
<1>6. /\ ~ pending(i) /\ i \notin timers
      /\ \A k \in Keys : tree[k] # i
      /\ \A c \in 1..Len(stack) : stack[c].q # i
  <2>1. ~ pending(i)
    BY <1>1, NotQueries DEF pending
  <2>2. i # None
    BY DEF Constants, NoneAssumption
  <2> QED
    BY <1>1, <2>1, <2>2, NotQueries DEF Timed, Filed, Framed, pending
<1>7. /\ \A c \in 1..Len(stack) : stack[c].op = "fin" /\ finishing(c)
      /\ \A k \in QIds : ~ sends(k)
  BY <1>2, NobodySends
<1>8. pushes(i) /\ stack' \in Seq(Call \cup Sending)
  <2>1. PICK st : st = Returning
    OBVIOUS
  <2>2. /\ st \in Seq(Call \cup Sending) /\ Len(st) = Len(stack)
        /\ \A c \in 1..Len(stack) :
                   /\ st[c].op = stack[c].op /\ st[c].q = stack[c].q
                   /\ stack[c].op = "fin" => /\ st[c].left = stack[c].left
                                             /\ st[c].ai = stack[c].ai
                                             /\ st[c].status = stack[c].status
    BY <1>2, <2>1, ReturningIs
  <2>3. [op |-> "send", q |-> i] \in Call \cup Sending
    BY DEF Sending
  <2>4. stack' = Append(st, [op |-> "send", q |-> i])
    BY <1>2, <2>1
  <2> HIDE DEF Call, Sending
  <2>5. /\ stack' \in Seq(Call \cup Sending) /\ Len(stack') = Len(stack) + 1
        /\ \A c \in 1..Len(stack) : stack'[c] = st[c]
        /\ stack'[Len(stack) + 1] = [op |-> "send", q |-> i]
    BY <2>2, <2>3, <2>4, AppendProperties
  <2> QED
    BY <2>2, <2>5 DEF pushes
<1>9. /\ \A c : finishing(c)' <=> finishing(c)
      /\ \A v, c : due(v, c)' <=> due(v, c)
      /\ \A c, j : gives(c, j)' <=> gives(c, j)
      /\ \A k \in QIds : sends(k)' <=> k = i
      /\ \A c : finishing(c) => c \in 1..Len(stack) /\ stack'[c].left = stack[c].left
      /\ \A c, j : gives(c, j) => finishing(c)
      /\ \A v, c : due(v, c) => finishing(c)
  BY <1>7, <1>8, PushedCall
<1>10. /\ Len(stack) \in Nat /\ Len(stack') = Len(stack) + 1
       /\ \A c \in 1..Len(stack') : c \in 1..Len(stack) \/ c = Len(stack) + 1
       /\ \A c \in 1..Len(stack) : c \in 1..Len(stack') /\ c # Len(stack) + 1
       /\ Len(stack) + 1 \in 1..Len(stack')
       /\ stack'[Len(stack) + 1].op = "send" /\ stack'[Len(stack) + 1].q = i
  BY <1>8 DEF Types, pushes
<1>11. /\ \A k \in QIds : pending(k)' <=> pending(k) \/ k = i
       /\ \A j, k : k \in QIds => (found(j, k)' <=> found(j, k))
       /\ \A v, k : k \in QIds => (on(v, k)' <=> on(v, k) \/ (v = u /\ k = i))
  <2>1. \A k \in QIds : k # i => (pending(k)' <=> pending(k))
    BY <1>5 DEF pending
  <2>2. pending(i)' /\ query'[i] = q
    BY <1>3, <1>5 DEF pending
  <2>3. Len(<< >>) = 0 /\ Len(<<u>>) = 1 /\ <<u>>[1] = u
    OBVIOUS
  <2>4. \A j : ~ found(j, i)' /\ ~ found(j, i)
    BY <1>3, <1>6, <2>2, <2>3 DEF found
  <2>5. \A v : (on(v, i)' <=> v = u) /\ ~ on(v, i)
    BY <1>3, <1>6, <2>2, <2>3 DEF on
  <2>6. /\ \A j, k : k \in QIds /\ k # i => (found(j, k)' <=> found(j, k))
        /\ \A v, k : k \in QIds /\ k # i => (on(v, k)' <=> on(v, k))
    BY <1>5, <2>1 DEF on, found
  <2> QED
    BY <1>6, <2>1, <2>2, <2>4, <2>5, <2>6
<1>12. Types'
  BY <1>2, <1>3, <1>8 DEF Types
<1>13. Filed'
  <2>1. ASSUME NEW k \in Keys, tree'[k] # None
        PROVE  query'[tree'[k]] \in Query /\ icrc[query'[tree'[k]].name] = k
    <3>1. CASE k = icrc[x]
      BY <1>3, <1>5, <3>1
    <3>2. CASE k # icrc[x]
      <4>1. tree'[k] = tree[k] /\ pending(tree[k]) /\ icrc[query[tree[k]].name] = k /\ tree[k] \in QIds
        BY <1>5, <2>1, <3>2 DEF Filed, Types
      <4>2. query'[tree[k]] = query[tree[k]]
        BY <1>5, <1>6, <4>1
      <4> QED
        BY <4>1, <4>2 DEF pending
    <3> QED
      BY <3>1, <3>2
  <2>2. ASSUME NEW k \in QIds, pending(k)' PROVE tree'[icrc[query'[k].name]] = k
    <3>1. CASE k = i
      BY <1>3, <1>4, <1>5, <3>1
    <3>2. CASE k # i
      <4>1. pending(k) /\ query'[k] = query[k] /\ tree[icrc[query[k].name]] = k
        BY <1>5, <1>11, <2>2, <3>2 DEF Filed
      <4>2. icrc[query[k].name] # icrc[x] /\ icrc[query[k].name] \in Keys
        BY <1>2, <1>4, <4>1 DEF Constants, NoneAssumption
      <4> QED
        BY <1>5, <4>1, <4>2
    <3> QED
      BY <3>1, <3>2
  <2> QED
    BY <2>1, <2>2 DEF Filed, pending
<1>14. Framed' /\ Timed' /\ Successful'
  <2>1. \A c \in 1..Len(stack) : /\ stack'[c].op = "fin" /\ stack'[c].q = stack[c].q /\ stack[c].q \in QIds
                                 /\ query'[stack[c].q] = query[stack[c].q]
    BY <1>5, <1>6, <1>7, <1>8, FrameFacts DEF pushes
  <2>2. \A c \in 1..Len(stack') : IF stack'[c].op = "send" THEN c = Len(stack') /\ query'[stack'[c].q] \in Query
                                  ELSE query'[stack'[c].q] = Finishing
    BY <1>3, <1>5, <1>7, <1>10, <2>1 DEF Framed
  <2>3. \A c, d \in 1..Len(stack') : stack'[c].q = stack'[d].q => c = d
    BY <1>6, <1>10, <2>1 DEF Framed
  <2>4. Framed'
    BY <2>2, <2>3 DEF Framed, pending
  <2>5. Timed'
    BY <1>2, <1>6, <1>7, <1>9, <1>11 DEF Timed
  <2>6. Successful'
    BY <1>8, <1>9 DEF Successful, pushes, finishing
  <2> QED
    BY <2>4, <2>5, <2>6
<1>15. Waiting'
  <2>3. /\ \A k \in QIds : ~ on(u, k)
        /\ \A c \in 1..Len(stack) : ~ due(u, c)
    BY <1>2, QueryFields DEF Waiting, on, Constants, NoneAssumption
  <2>5. \A k \in QIds : pending(k)' => once(query'[k].users)
    BY <1>3, <1>5, <1>11 DEF Waiting, once
  <2>6. \A c \in 1..Len(stack') : finishing(c)' => once(stack'[c].left)
    BY <1>9 DEF Waiting
  <2>7. \A v \in Users, k \in QIds : on(v, k)' => asked'[v] = query'[k].name
    <3>1. ASSUME NEW v \in Users, NEW k \in QIds, on(v, k)
          PROVE  v # u /\ k # i /\ asked[v] = query[k].name
      BY <1>6, <2>3, <3>1 DEF Waiting, on
    <3> QED
      BY <1>3, <1>5, <1>11, <3>1
  <2>8. \A v \in Users, c \in 1..Len(stack') : due(v, c)' =>
            /\ asked'[v] # None
            /\ \A k \in QIds : ~ on(v, k)'
            /\ \A d \in 1..Len(stack') : due(v, d)' => d = c
    BY <1>5, <1>9, <1>11, <2>3 DEF Waiting
  <2>9. \A v \in Users : asked'[v] # None =>
            /\ held'[v] = {}
            /\ (\E k \in QIds : on(v, k)') \/ (\E c \in 1..Len(stack') : due(v, c)')
    BY <1>2, <1>5, <1>9, <1>10, <1>11 DEF Waiting
  <2> QED
    BY <2>5, <2>6, <2>7, <2>8, <2>9 DEF Waiting, once
<1>16. Owned' /\ Counted'
  <2>1. \A c, j : gives(c, j) => c \in 1..Len(stack) /\ c \in 1..Len(stack') /\ stack'[c].left = stack[c].left
    BY <1>9, <1>10
  <2>2. \A k \in QIds, j \in RIds : found(j, k)' => found(j, k) /\ query'[k].name = query[k].name
    BY <1>5, <1>6, <1>11 DEF found
  <2>3. \A v, c : due(v, c)' => due(v, c) /\ asked'[v] = asked[v]
    <3>1. \A c : ~ due(u, c)
      BY <1>2, <1>9 DEF Waiting
    <3>2. ASSUME NEW v, NEW c, due(v, c) PROVE v \in Users
      BY <3>2, DueIsUser
    <3> QED
      BY <1>5, <1>9, <3>1, <3>2
  <2> QED
    BY <1>2, <1>9, <2>1, <2>2, <2>3, OwnedKept, CountedKept
<1> QED
  BY <1>12, <1>13, <1>14, <1>15, <1>16
-----------------------------------------------------------------------------
(* A query is finished *)

\* The first m calls go on, and one after them, if any, was sending query i.
keeps(i, m) == /\ m \in Nat
               /\ m = Len(stack) \/ (m = Len(stack) - 1 /\ stack # << >> /\ Top.op = "send" /\ Top.q = i)

\* query_fin() begins for a query that is pending and has become q.
finishes(i, q, status, m) ==
    /\ keeps(i, m) /\ Len(stack') = m + 1
    /\ \A c \in 1..m : stack'[c] = stack[c] /\ stack[c].op = "fin"
    /\ stack'[m + 1] = Frame(q, i, status)
    /\ stack' \in Seq(Call \cup Sending)
    /\ q \in Query /\ q.name = query[i].name /\ q.users = query[i].users
    /\ pending(i) /\ query' = [query EXCEPT ![i] = Finishing]
    /\ tree' = [tree EXCEPT ![icrc[query[i].name]] = None]
    /\ \A k \in QIds : k \in timers' <=> k \in timers /\ k # i
    /\ timers' \in SUBSET QIds
    /\ UNCHANGED <<ipv6, asked, held>>

\* The stack after query_fin() begins: one call more, for the users of the query.
LEMMA FinishedCalls ==
    ASSUME Constants, Types, Framed, NEW i \in QIds, NEW q, NEW status, NEW m, finishes(i, q, status, m)
    PROVE  /\ \A c : c \in 1..Len(stack') <=> c \in 1..m \/ c = m + 1
           /\ \A c \in 1..m : c # m + 1 /\ c \in 1..Len(stack) /\ stack'[c] = stack[c]
           /\ \A c \in 1..Len(stack) : c \in 1..m \/ (stack[c].op = "send" /\ stack[c].q = i)
           /\ \A c : finishing(c) <=> c \in 1..m
           /\ \A c : finishing(c)' <=> finishing(c) \/ c = m + 1
           /\ ~ finishing(m + 1)
           /\ stack'[m + 1].q = i /\ stack'[m + 1].op = "fin" /\ stack'[m + 1].left = query[i].users
           /\ stack'[m + 1].ai = q.res /\ stack'[m + 1].status = status
<1>1. m \in Nat /\ Len(stack') = m + 1 /\ Len(stack) \in Nat
  BY DEF finishes, keeps, Types
<1>2. /\ \A c : c \in 1..Len(stack') <=> c \in 1..m \/ c = m + 1
      /\ \A c \in 1..m : c # m + 1
      /\ m + 1 \notin 1..m
  BY <1>1
<1>3. \A c \in 1..m : c \in 1..Len(stack) /\ stack[c].op = "fin" /\ stack'[c] = stack[c]
  BY <1>1 DEF finishes, keeps
<1>4. ASSUME NEW c \in 1..Len(stack) PROVE c \in 1..m \/ (stack[c].op = "send" /\ stack[c].q = i)
  <2>1. CASE m = Len(stack)
    BY <2>1
  <2>2. CASE m # Len(stack)
    <3>1. m = Len(stack) - 1 /\ stack[Len(stack)].op = "send" /\ stack[Len(stack)].q = i
      BY <2>2, StackFacts DEF finishes, keeps
    <3>2. c \in 1..m \/ c = Len(stack)
      BY <1>1, <3>1
    <3> QED
      BY <3>1, <3>2
  <2> QED
    BY <2>1, <2>2
<1>5. /\ stack'[m + 1].q = i /\ stack'[m + 1].op = "fin" /\ stack'[m + 1].left = query[i].users
      /\ stack'[m + 1].ai = q.res /\ stack'[m + 1].status = status
  BY DEF finishes, Frame
<1>6. \A c : finishing(c) <=> c \in 1..m
  BY <1>3, <1>4 DEF finishing
<1>7. \A c : finishing(c)' <=> c \in 1..m \/ c = m + 1
  BY <1>2, <1>3, <1>5 DEF finishing
<1> QED
  BY <1>2, <1>3, <1>4, <1>5, <1>6, <1>7

\* What query_fin() takes over from the query it frees.
LEMMA FinishedLists ==
    ASSUME Constants, DnsInv, NEW i \in QIds, NEW q, NEW status, NEW m, finishes(i, q, status, m)
    PROVE  /\ \A k \in QIds : (pending(k)' <=> pending(k) /\ k # i) /\ ~ sends(k)'
           /\ \A k \in QIds : k # i => query'[k] = query[k]
           /\ query'[i] = Finishing
           /\ \A v, k : k \in QIds => (on(v, k)' <=> on(v, k) /\ k # i)
           /\ \A v, k : k \in QIds => (found(v, k)' <=> found(v, k) /\ k # i)
           /\ \A v, c : due(v, c)' <=> due(v, c) \/ (c = m + 1 /\ on(v, i))
           /\ \A c, j : gives(c, j)' <=> \/ gives(c, j)
                                         \/ /\ c = m + 1 /\ query[i].users # << >>
                                            /\ \E d \in 1..Len(q.res) : q.res[d] = j
           /\ \A v : ~ due(v, m + 1) /\ ~ gives(m + 1, v)
<1> USE DEF DnsInv
<1>1. /\ \A k \in QIds : query'[k] = IF k = i THEN Finishing ELSE query[k]
      /\ pending(i)
  BY DEF finishes, Types
<1>2. \A k \in QIds : pending(k)' <=> pending(k) /\ k # i
  BY <1>1, NotQueries DEF pending
<1>3. \A k : ~ sends(k)'
  <2>1. \A c \in 1..Len(stack') : stack'[c].op = "fin"
    <3>1. \A c \in 1..m : stack'[c].op = "fin"
      BY DEF finishes
    <3> QED
      BY <3>1, FinishedCalls
  <2> QED
    BY <2>1 DEF sends
<1>4. \A v, k : k \in QIds => (on(v, k)' <=> on(v, k) /\ k # i)
  BY <1>1, <1>2 DEF on
<1>5. \A v, k : k \in QIds => (found(v, k)' <=> found(v, k) /\ k # i)
  BY <1>1, <1>2 DEF found
<1>6. \A v, c : due(v, c)' <=> due(v, c) \/ (c = m + 1 /\ on(v, i))
  BY <1>1, FinishedCalls DEF due, on
<1>7. \A c, j : gives(c, j)' <=> \/ gives(c, j)
                                 \/ /\ c = m + 1 /\ query[i].users # << >>
                                    /\ \E d \in 1..Len(q.res) : q.res[d] = j
  BY <1>1, FinishedCalls DEF gives
<1>8. \A v : ~ due(v, m + 1) /\ ~ gives(m + 1, v)
  BY FinishedCalls DEF due, gives
<1> QED
  BY <1>1, <1>2, <1>3, <1>4, <1>5, <1>6, <1>7, <1>8

\* The results of q are its own, and counted, if at all, for its users.
supplies(i, q) ==
    /\ res' \in [RIds -> Result \cup {None}]
    /\ \A j \in RIds : ~ (\E d \in 1..Len(q.res) : q.res[d] = j) => res'[j] = res[j]
    /\ \A j \in RIds : (\E d \in 1..Len(q.res) : q.res[d] = j) =>
          /\ res'[j] # None /\ res'[j].name = query[i].name
          /\ res'[j].usage = None \/ res'[j].usage = Len(query[i].users)
          /\ holders(j) = {}
          /\ \A c : ~ gives(c, j)
          /\ \A k \in QIds : k # i => ~ found(j, k)

\* The beginning of query_fin(), wherever it is called from.
LEMMA FinishStep ==
    ASSUME Constants, DnsInv, NEW i \in QIds, NEW q, NEW status, NEW m, finishes(i, q, status, m),
           supplies(i, q), status = "ok" => q.res # << >>
    PROVE  DnsInv'
<1> USE DEF DnsInv
<1>1. /\ \A c : c \in 1..Len(stack') <=> c \in 1..m \/ c = m + 1
      /\ \A c \in 1..m : c # m + 1 /\ c \in 1..Len(stack) /\ stack'[c] = stack[c]
      /\ \A c : finishing(c) <=> c \in 1..m
      /\ \A c : finishing(c)' <=> finishing(c) \/ c = m + 1
      /\ stack'[m + 1].q = i /\ stack'[m + 1].op = "fin" /\ stack'[m + 1].left = query[i].users
      /\ stack'[m + 1].ai = q.res /\ stack'[m + 1].status = status
  BY FinishedCalls
<1>2. /\ \A k \in QIds : (pending(k)' <=> pending(k) /\ k # i) /\ ~ sends(k)'
      /\ \A k \in QIds : k # i => query'[k] = query[k]
      /\ query'[i] = Finishing
      /\ \A v, k : k \in QIds => (on(v, k)' <=> on(v, k) /\ k # i)
      /\ \A v, k : k \in QIds => (found(v, k)' <=> found(v, k) /\ k # i)
  BY FinishedLists
<1>3. /\ \A v, c : due(v, c)' <=> due(v, c) \/ (c = m + 1 /\ on(v, i))
      /\ \A c, j : gives(c, j)' <=> \/ gives(c, j)
                                    \/ /\ c = m + 1 /\ query[i].users # << >>
                                       /\ \E d \in 1..Len(q.res) : q.res[d] = j
      /\ \A v : ~ due(v, m + 1) /\ ~ gives(m + 1, v)
  BY FinishedLists
<1>4. /\ asked' = asked /\ held' = held /\ ipv6' = ipv6 /\ timers' \in SUBSET QIds
      /\ \A k \in QIds : k \in timers' <=> k \in timers /\ k # i
      /\ pending(i) /\ query' = [query EXCEPT ![i] = Finishing]
      /\ tree' = [tree EXCEPT ![icrc[query[i].name]] = None]
      /\ stack' \in Seq(Call \cup Sending)
  BY DEF finishes
<1>5. Types'
  BY <1>4 DEF Types, supplies
<1>6. Filed'
  <2>1. \A k \in Keys : tree'[k] = IF k = icrc[query[i].name] THEN None ELSE tree[k]
    BY <1>4 DEF Types
  <2>2. ASSUME NEW k \in Keys, tree'[k] # None
        PROVE  query'[tree'[k]] \in Query /\ icrc[query'[tree'[k]].name] = k
    <3>1. PICK y \in QIds : y = tree[k] /\ y = tree'[k]
      BY <2>1, <2>2 DEF Types
    <3>2. pending(y) /\ icrc[query[y].name] = k /\ y # i
      BY <2>1, <2>2, <3>1 DEF Filed
    <3>3. query'[y] = query[y]
      BY <1>2, <3>2
    <3> QED
      BY <3>1, <3>2, <3>3 DEF pending
  <2>3. ASSUME NEW k \in QIds, pending(k)' PROVE tree'[icrc[query'[k].name]] = k
    <3>1. pending(k) /\ k # i /\ query'[k] = query[k]
      BY <1>2, <2>3
    <3>2. tree[icrc[query[k].name]] = k /\ tree[icrc[query[i].name]] = i
      BY <1>4, <3>1 DEF Filed
    <3>3. icrc[query[k].name] \in Keys
      BY <3>1, QueryFields DEF Keys
    <3> QED
      BY <2>1, <3>1, <3>2, <3>3
  <2> QED
    BY <2>2, <2>3 DEF Filed, pending
<1>7. Framed'
  <2>1. \A c \in 1..m : stack[c].op = "fin" /\ stack[c].q \in QIds /\ query[stack[c].q] = Finishing /\ stack[c].q # i
    <3>1. \A c \in 1..m : stack[c].op = "fin" /\ c \in 1..Len(stack)
      BY <1>1 DEF finishing
    <3> QED
      BY <1>4, <3>1, FrameFacts, NotQueries DEF Framed, pending
  <2>2. \A c \in 1..m : query'[stack[c].q] = Finishing
    BY <1>2, <2>1
  <2>3. \A c \in 1..Len(stack') : stack'[c].op = "fin" /\ query'[stack'[c].q] = Finishing
    BY <1>1, <1>2, <2>1, <2>2
  <2>4. \A c, d \in 1..Len(stack') : stack'[c].q = stack'[d].q => c = d
    BY <1>1, <2>1 DEF Framed
  <2> QED
    BY <2>3, <2>4 DEF Framed
<1>8. Timed'
  <2>1. \A k \in QIds : sends(k) => k = i
    <3>1. \A c \in 1..Len(stack) : stack[c].op = "send" => stack[c].q = i
      BY FinishedCalls DEF finishing
    <3> QED
      BY <3>1 DEF sends
  <2> QED
    BY <1>2, <1>4, <2>1 DEF Timed
<1>9. Waiting'
  <2>1. \A k \in QIds : pending(k)' => once(query'[k].users)
    BY <1>2 DEF Waiting
  <2>2. \A c \in 1..Len(stack') : finishing(c)' => once(stack'[c].left)
    <3>1. once(query[i].users)
      BY <1>4 DEF Waiting
    <3> QED
      BY <1>1, <3>1 DEF Waiting
  <2>3. \A v \in Users, k \in QIds : on(v, k)' => asked'[v] = query'[k].name
    BY <1>2, <1>4 DEF Waiting
  <2>4. \A v \in Users, k \in QIds : on(v, i) /\ on(v, k) => k = i
    <3>1. \A v \in Users, k \in QIds : on(v, k) => asked[v] = query[k].name /\ tree[icrc[query[k].name]] = k
      BY DEF Waiting, Filed, on
    <3> QED
      BY <3>1
  <2>5. \A v \in Users, c \in 1..Len(stack') : due(v, c)' =>
            /\ asked'[v] # None
            /\ \A k \in QIds : ~ on(v, k)'
            /\ \A d \in 1..Len(stack') : due(v, d)' => d = c
    <3>1. ASSUME NEW v \in Users, on(v, i) PROVE asked[v] # None /\ \A d : ~ due(v, d)
      <4>1. asked[v] # None
        BY <1>4, <3>1, QueryFields DEF Waiting, Constants, NoneAssumption
      <4> QED
        BY <3>1, <4>1 DEF Waiting, due, finishing
    <3> QED
      BY <1>1, <1>2, <1>3, <1>4, <2>4, <3>1 DEF Waiting
  <2>6. \A v \in Users : asked'[v] # None =>
            /\ held'[v] = {}
            /\ (\E k \in QIds : on(v, k)') \/ (\E c \in 1..Len(stack') : due(v, c)')
    <3>1. ASSUME NEW v \in Users, asked[v] # None, ~ on(v, i)
          PROVE  (\E k \in QIds : on(v, k)') \/ (\E c \in 1..Len(stack') : due(v, c)')
      <4>1. CASE \E k \in QIds : on(v, k)
        BY <1>2, <3>1, <4>1
      <4>2. CASE \E c \in 1..Len(stack) : due(v, c)
        BY <1>1, <1>3, <4>2 DEF due
      <4> QED
        BY <3>1, <4>1, <4>2 DEF Waiting
    <3> QED
      BY <1>1, <1>3, <1>4, <3>1 DEF Waiting
  <2> QED
    BY <2>1, <2>2, <2>3, <2>5, <2>6 DEF Waiting, once
<1>10. \A j : holders(j)' = holders(j)
  BY <1>4 DEF holders
<1>11. Owned'
  <2>1. ASSUME NEW k \in QIds, NEW j \in RIds, found(j, k)'
        PROVE  /\ res'[j] # None /\ res'[j].usage = None /\ res'[j].name = query'[k].name
               /\ holders(j)' = {}
               /\ \A c \in 1..Len(stack') : ~ gives(c, j)'
    <3>1. found(j, k) /\ k # i /\ query'[k] = query[k]
      BY <1>2, <2>1
    <3>2. ~ \E d \in 1..Len(q.res) : q.res[d] = j
      BY <3>1 DEF supplies
    <3>3. res'[j] = res[j]
      BY <3>2 DEF supplies
    <3>4. \A c \in 1..Len(stack') : ~ gives(c, j)'
      BY <1>1, <1>3, <3>1, <3>2 DEF Owned
    <3> QED
      BY <1>10, <3>1, <3>3, <3>4 DEF Owned
  <2>2. ASSUME NEW c \in 1..Len(stack'), NEW j \in RIds, gives(c, j)'
        PROVE  /\ res'[j] # None
               /\ \A u \in Users : due(u, c)' => res'[j].name = asked'[u]
               /\ \A d \in 1..Len(stack') : gives(d, j)' => d = c
    <3>1. CASE \E d \in 1..Len(q.res) : q.res[d] = j
      <4>1. res'[j] # None /\ res'[j].name = query[i].name /\ \A d : ~ gives(d, j)
        BY <3>1 DEF supplies
      <4>2. c = m + 1 /\ \A d : gives(d, j)' => d = m + 1
        BY <1>3, <2>2, <4>1
      <4>3. \A u \in Users : due(u, c)' => on(u, i)
        BY <1>3, <4>2
      <4> QED
        BY <1>4, <4>1, <4>2, <4>3 DEF Waiting
    <3>2. CASE ~ \E d \in 1..Len(q.res) : q.res[d] = j
      <4>1. res'[j] = res[j] /\ gives(c, j) /\ \A d : gives(d, j)' => gives(d, j)
        BY <1>3, <2>2, <3>2 DEF supplies
      <4>2. c \in 1..Len(stack) /\ c # m + 1 /\ \A d : gives(d, j) => d \in 1..Len(stack)
        BY <1>1, <4>1 DEF gives
      <4>3. \A u \in Users : due(u, c)' => due(u, c)
        BY <1>3, <4>2
      <4> QED
        BY <1>4, <4>1, <4>2, <4>3 DEF Owned
    <3> QED
      BY <3>1, <3>2
  <2>3. ASSUME NEW u \in Users, NEW y \in held[u] PROVE res'[y.r] # None /\ res'[y.r].name = y.for
    <3>1. y.r \in RIds /\ u \in holders(y.r) /\ res[y.r] # None /\ res[y.r].name = y.for
      BY <2>3 DEF Types, Holding, holders, Owned
    <3> QED
      BY <3>1 DEF supplies
  <2> QED
    BY <1>4, <1>10, <2>1, <2>2, <2>3 DEF Owned
<1>12. Counted'
  <2>1. ASSUME NEW j \in RIds, res'[j] # None, res'[j].usage # None
        PROVE  /\ \A c \in 1..Len(stack') : gives(c, j)' =>
                     res'[j].usage = Cardinality(holders(j)') + Len(stack'[c].left)
               /\ (\A c \in 1..Len(stack') : ~ gives(c, j)') => res'[j].usage = Cardinality(holders(j)')
    <3>1. CASE \E d \in 1..Len(q.res) : q.res[d] = j
      <4>1. /\ res'[j].usage = Len(query[i].users) /\ holders(j)' = {} /\ \A c : ~ gives(c, j)
            /\ query[i].users \in Seq(Users) /\ Len(query[i].users) \in Nat /\ Cardinality({}) = 0
        BY <1>4, <1>10, <2>1, <3>1, QueryFields, FS_EmptySet DEF supplies
      <4>2. \A c : gives(c, j)' => c = m + 1
        BY <1>3, <4>1
      <4>3. (\A c \in 1..Len(stack') : ~ gives(c, j)') => query[i].users = << >>
        BY <1>1, <1>3, <3>1
      <4> QED
        BY <1>1, <4>1, <4>2, <4>3
    <3>2. CASE ~ \E d \in 1..Len(q.res) : q.res[d] = j
      <4>1. res'[j] = res[j] /\ \A d : gives(d, j)' <=> gives(d, j)
        BY <1>3, <3>2 DEF supplies
      <4>2. \A d : gives(d, j) => d \in 1..Len(stack) /\ d \in 1..Len(stack') /\ stack'[d].left = stack[d].left
        BY <1>1 DEF gives
      <4> QED
        BY <1>10, <2>1, <4>1, <4>2 DEF Counted
    <3> QED
      BY <3>1, <3>2
  <2> QED
    BY <2>1 DEF Counted
<1>13. Successful'
  BY <1>1 DEF Successful
<1> QED
  BY <1>5, <1>6, <1>7, <1>8, <1>9, <1>11, <1>12, <1>13

\* The model's fin() is such a beginning.
LEMMA FinishesWhen ==
    ASSUME Constants, Types, NEW i \in QIds, pending(i), NEW q \in Query,
           q.name = query[i].name, q.users = query[i].users, NEW status \in {"ok", "err"},
           NEW m, keeps(i, m), NEW st \in Seq(Call \cup Sending), Len(st) = m,
           \A c \in 1..m : st[c] = stack[c] /\ stack[c].op = "fin",
           fin(q, i, status, st),
           \A k \in QIds : k \in timers' <=> k \in timers /\ k # i, timers' \in SUBSET QIds,
           UNCHANGED <<ipv6, asked, held>>
    PROVE  finishes(i, q, status, m)
<1>1. /\ query' = [query EXCEPT ![i] = Finishing]
      /\ tree' = [tree EXCEPT ![icrc[query[i].name]] = None]
      /\ stack' = Append(st, Frame(q, i, status))
  BY DEF fin
<1>2. Frame(q, i, status) \in Call \cup Sending
  BY DEF Frame, Call, Query
<1> HIDE DEF Call, Sending, Query
<1>3. /\ stack' \in Seq(Call \cup Sending) /\ Len(stack') = m + 1
      /\ \A c \in 1..m : stack'[c] = st[c]
      /\ stack'[m + 1] = Frame(q, i, status)
  BY <1>1, <1>2, AppendProperties
<1> QED
  BY <1>1, <1>3 DEF finishes

\* The results that a query has got are its own.
LEMMA FoundAreOwn ==
    ASSUME Constants, DnsInv, NEW i \in QIds, NEW j \in RIds, found(j, i)
    PROVE  /\ res[j] # None /\ res[j].usage = None /\ res[j].name = query[i].name
           /\ holders(j) = {}
           /\ \A c : ~ gives(c, j)
           /\ \A k \in QIds : k # i => ~ found(j, k)
<1> USE DEF DnsInv
<1>1. /\ res[j] # None /\ res[j].usage = None /\ res[j].name = query[i].name
      /\ holders(j) = {}
      /\ \A c : ~ gives(c, j)
  BY DEF Owned, gives, finishing
<1>2. ASSUME NEW k \in QIds, found(j, k) PROVE k = i
  <2>1. query[k].name = query[i].name /\ pending(k) /\ pending(i)
    BY <1>2 DEF Owned, found
  <2> QED
    BY <2>1 DEF Filed
<1> QED
  BY <1>1, <1>2

\* query_fin() with an error, and whatever was found.
LEMMA GivesUp ==
    ASSUME Constants, DnsInv, NEW i \in QIds, NEW m, finishes(i, query[i], "err", m), res' = res
    PROVE  DnsInv'
<1>1. pending(i)
  BY DEF finishes
<1>2. supplies(i, query[i])
  BY <1>1, FoundAreOwn DEF supplies, found, DnsInv, Types
<1> QED
  BY <1>2, FinishStep

\* The query that is being sent.
LEMMA SendingIs ==
    ASSUME Constants, DnsInv, stack # << >>, Top.op = "send"
    PROVE  /\ Top.q \in QIds /\ pending(Top.q) /\ sends(Top.q) /\ Top.q \notin timers
           /\ \A k \in QIds : sends(k) => k = Top.q
           /\ keeps(Top.q, Len(stack) - 1)
           /\ \A c \in 1..(Len(stack) - 1) : Front(stack)[c] = stack[c] /\ stack[c].op = "fin"
<1> USE DEF DnsInv
<1>1. Len(stack) \in Nat \ {0} /\ Len(stack) \in 1..Len(stack) /\ Top = stack[Len(stack)]
      /\ \A c \in 1..(Len(stack) - 1) : Front(stack)[c] = stack[c]
  BY StackFacts
<1>2. Top.q \in QIds /\ pending(Top.q)
  BY <1>1, FrameFacts DEF Framed
<1>3. \A c \in 1..Len(stack) : stack[c].op = "send" => c = Len(stack)
  BY DEF Framed
<1>4. \A k \in QIds : sends(k) <=> k = Top.q
  BY <1>1, <1>3 DEF sends
<1>5. \A c \in 1..(Len(stack) - 1) : c \in 1..Len(stack) /\ c # Len(stack)
  BY <1>1
<1>6. \A c \in 1..(Len(stack) - 1) : stack[c].op = "fin"
  BY <1>3, <1>5, FrameFacts
<1>7. keeps(Top.q, Len(stack) - 1)
  BY <1>1 DEF keeps
<1> QED
  BY <1>1, <1>2, <1>4, <1>6, <1>7 DEF Timed

\* query_send(): no server is left to try.
LEMMA GiveUpStep ==
    ASSUME Constants, DnsInv, GiveUp
    PROVE  DnsInv'
<1>0. Types /\ stack # << >> /\ Top.op = "send"
  BY DEF DnsInv, GiveUp
<1>1. PICK i \in QIds : i = Top.q /\ pending(i)
  BY <1>0, SendingIs
<1>2. PICK st : st = Front(stack)
  OBVIOUS
<1>3. PICK m \in Nat : m = Len(stack) - 1
  BY <1>0, StackFacts
<1>4. /\ st \in Seq(Call \cup Sending) /\ Len(st) = m
      /\ \A c \in 1..m : st[c] = stack[c] /\ stack[c].op = "fin"
      /\ keeps(i, m) /\ i \notin timers
  BY <1>0, <1>1, <1>2, <1>3, StackFacts, SendingIs
<1>5. fin(query[i], i, "err", st) /\ UNCHANGED <<ipv6, res, timers, asked, held>>
  BY <1>1, <1>2 DEF GiveUp
<1>6. PICK q \in Query : q = query[i]
  BY <1>1 DEF pending
<1>7. finishes(i, q, "err", m)
  BY <1>0, <1>1, <1>4, <1>5, <1>6, FinishesWhen DEF Types
<1> QED
  BY <1>5, <1>6, <1>7, GivesUp

\* The timer of a query, which is sent again or given up.
LEMMA ExpireStep ==
    ASSUME Constants, DnsInv, NEW i \in QIds, Expire(i)
    PROVE  DnsInv'
<1> USE DEF DnsInv
<1>1. /\ stack = << >> /\ pending(i) /\ timers' = timers \ {i}
      /\ UNCHANGED <<ipv6, res, asked, held>>
      /\ Len(stack) = 0 /\ \A k : ~ sends(k)
  BY DEF Expire, Idle, Timed, sends
<1>2. CASE query[i].tries = 0
  <2>1. fin(query[i], i, "err", stack)
    BY <1>2 DEF Expire
  <2>2. PICK q \in Query : q = query[i]
    BY <1>1 DEF pending
  <2>3. PICK st : st = stack
    OBVIOUS
  <2>4. /\ st \in Seq(Call \cup Sending) /\ Len(st) = 0 /\ keeps(i, 0)
        /\ timers' \in SUBSET QIds /\ \A k \in QIds : k \in timers' <=> k \in timers /\ k # i
        /\ \A c \in 1..0 : st[c] = stack[c] /\ stack[c].op = "fin"
    BY <1>1, <2>3 DEF Types, keeps
  <2>5. fin(q, i, "err", st) /\ q.name = query[i].name /\ q.users = query[i].users
    BY <2>1, <2>2, <2>3
  <2>6. finishes(i, q, "err", 0)
    <3> HIDE DEF Call, Sending
    <3> QED
      BY <1>1, <2>4, <2>5, FinishesWhen
  <2> QED
    BY <1>1, <2>2, <2>6, GivesUp
<1>3. CASE query[i].tries # 0
  <2>1. stack' = <<[op |-> "send", q |-> i]>> /\ tree' = tree /\ query' = query
    BY <1>3 DEF Expire
  <2>2. pushes(i) /\ stack' \in Seq(Call \cup Sending)
    <3>1. [op |-> "send", q |-> i] \in Call \cup Sending
      BY DEF Sending
    <3> HIDE DEF Call, Sending
    <3>2. stack' \in Seq(Call \cup Sending) /\ Len(stack') = 1 /\ stack'[1] = [op |-> "send", q |-> i]
      BY <2>1, <3>1
    <3> QED
      BY <1>1, <3>2 DEF pushes
  <2>3. /\ \A c : finishing(c)' <=> finishing(c)
        /\ \A u, c : due(u, c)' <=> due(u, c)
        /\ \A c, j : gives(c, j)' <=> gives(c, j)
        /\ \A k \in QIds : sends(k)' <=> k = i
        /\ \A c : ~ finishing(c) /\ \A u : ~ due(u, c) /\ ~ gives(c, u)
    BY <1>1, <2>2, PushedCall DEF finishing, due, gives
  <2>4. sameQueries
    BY <2>1 DEF sameQueries, pending
  <2>5. \A v, k : (on(v, k)' <=> on(v, k)) /\ (found(v, k)' <=> found(v, k)) /\ (pending(k)' <=> pending(k))
    BY <2>1 DEF on, found, pending
  <2>6. Types' /\ Filed'
    BY <1>1, <2>1, <2>2, <2>4, FiledKept DEF Types
  <2>7. Framed'
    <3>1. Len(stack') = 1 /\ stack'[1].op = "send" /\ stack'[1].q = i /\ query'[i] \in Query
      BY <1>1, <2>1, <2>2 DEF pushes, pending
    <3>2. \A c \in 1..Len(stack') : c = 1
      BY <3>1
    <3> QED
      BY <3>1, <3>2 DEF Framed, pending
  <2>8. Timed'
    BY <1>1, <2>3, <2>5 DEF Timed
  <2>9. Waiting'
    <3>1. \A k \in QIds : pending(k)' => once(query'[k].users)
      BY <2>1, <2>5 DEF Waiting
    <3>2. \A v \in Users, k \in QIds : on(v, k)' => asked'[v] = query'[k].name
      BY <1>1, <2>1, <2>5 DEF Waiting
    <3>3. \A v \in Users : asked'[v] # None => held'[v] = {} /\ \E k \in QIds : on(v, k)'
      BY <1>1, <2>3, <2>5 DEF Waiting
    <3> QED
      BY <2>3, <3>1, <3>2, <3>3 DEF Waiting, once
  <2>10. Owned' /\ Counted'
    <3>1. \A k \in QIds, j \in RIds : found(j, k)' => found(j, k) /\ query'[k].name = query[k].name
      BY <2>1, <2>5
    <3> QED
      BY <1>1, <2>3, <3>1, OwnedKept, CountedKept
  <2>11. Successful'
    BY <2>3 DEF Successful
  <2> QED
    BY <2>6, <2>7, <2>8, <2>9, <2>10, <2>11
<1> QED
  BY <1>2, <1>3

\* The call of query_send() is over.
pops == /\ stack # << >> /\ Top.op = "send"
        /\ Len(stack') = Len(stack) - 1 /\ stack' \in Seq(Call \cup Sending)
        /\ \A c \in 1..Len(stack') : stack'[c] = stack[c]

\* query_send() returns.
LEMMA PoppedCall ==
    ASSUME Constants, DnsInv, pops
    PROVE  /\ \A c : finishing(c)' <=> finishing(c)
           /\ \A u, c : due(u, c)' <=> due(u, c)
           /\ \A c, j : gives(c, j)' <=> gives(c, j)
           /\ \A k : ~ sends(k)'
           /\ \A c : finishing(c) => /\ c \in 1..Len(stack) /\ c \in 1..Len(stack')
                                     /\ stack'[c] = stack[c]
           /\ \A c \in 1..Len(stack') : c \in 1..Len(stack) /\ stack'[c] = stack[c] /\ stack[c].op = "fin"
<1> USE DEF DnsInv
<1>1. /\ Len(stack) \in Nat \ {0} /\ Top = stack[Len(stack)]
      /\ Len(stack') = Len(stack) - 1 /\ \A c \in 1..Len(stack') : stack'[c] = stack[c]
      /\ stack[Len(stack)].op = "send"
      /\ \A c \in 1..(Len(stack) - 1) : stack[c].op = "fin"
  BY StackFacts, SendingIs DEF pops
<1>2. /\ \A c \in 1..Len(stack') : c \in 1..Len(stack) /\ stack'[c] = stack[c] /\ stack[c].op = "fin"
      /\ \A c \in 1..Len(stack) : c \in 1..Len(stack') \/ c = Len(stack)
  BY <1>1
<1>3. \A c : finishing(c) <=> c \in 1..Len(stack')
  BY <1>1, <1>2 DEF finishing
<1>4. \A c : finishing(c)' <=> finishing(c)
  BY <1>2, <1>3 DEF finishing
<1>5. \A c : finishing(c) => stack'[c] = stack[c] /\ c \in 1..Len(stack) /\ c \in 1..Len(stack')
  BY <1>2, <1>3
<1>6. \A u, c : due(u, c)' <=> due(u, c)
  BY <1>4, <1>5 DEF due
<1>7. \A c, j : gives(c, j)' <=> gives(c, j)
  BY <1>4, <1>5 DEF gives
<1>8. \A k : ~ sends(k)'
  BY <1>2 DEF sends
<1> QED
  BY <1>2, <1>4, <1>5, <1>6, <1>7, <1>8

\* A query that is tried once more keeps its name, its users and its results.
retried(i) == /\ pending(i) /\ query'[i] \in Query
              /\ query'[i].name = query[i].name /\ query'[i].users = query[i].users
              /\ query'[i].res = query[i].res
              /\ \A k \in QIds : k # i => query'[k] = query[k]
              /\ query' \in [QIds -> Query \cup {Finishing, None}]

\* A try more leaves the users and results of the query.
LEMMA Retried ==
    ASSUME Constants, Types, NEW i \in QIds, retried(i)
    PROVE  /\ sameQueries
           /\ \A k \in QIds : /\ query'[k].users = query[k].users /\ query'[k].name = query[k].name
                              /\ (pending(k)' <=> pending(k))
           /\ \A v, k : k \in QIds => (on(v, k)' <=> on(v, k)) /\ (found(v, k)' <=> found(v, k))
<1>1. \A k \in QIds : /\ pending(k)' <=> pending(k)
                      /\ query'[k].name = query[k].name /\ query'[k].users = query[k].users
                      /\ query'[k].res = query[k].res
                      /\ query[k] = Finishing => query'[k] = Finishing
  BY NotQueries DEF retried, pending
<1> QED
  BY <1>1 DEF sameQueries, on, found

\* query_send(): a datagram is sent, or could not be.
LEMMA SendStep ==
    ASSUME Constants, DnsInv, Send
    PROVE  DnsInv'
<1> USE DEF DnsInv
<1>0. stack # << >> /\ Top.op = "send"
  BY DEF Send
<1>1. PICK i \in QIds : i = Top.q /\ pending(i) /\ sends(i) /\ i \notin timers /\ \A k \in QIds : sends(k) => k = i
  BY <1>0, SendingIs
<1> DEFINE q == [query[i] EXCEPT !.tries = @ - 1]
<1>2. /\ query' = [query EXCEPT ![i] = q] /\ query[i].tries > 0
      /\ UNCHANGED <<ipv6, tree, res, asked, held>>
      /\ \/ timers' = timers \cup {i} /\ stack' = Front(stack)
         \/ timers' = timers /\ stack' = stack
  BY <1>1 DEF Send
<1>3. q \in Query /\ q.name = query[i].name /\ q.users = query[i].users /\ q.res = query[i].res
  <2>1. query[i] \in Query /\ query[i].tries \in 0..MaxTries
    BY <1>1, QueryFields DEF pending
  <2>2. query[i].tries - 1 \in 0..MaxTries
    BY <1>2, <2>1 DEF Constants, BoundAssumption
  <2> QED
    BY <2>1, <2>2 DEF Query
<1> HIDE DEF q
<1>4. /\ \A k \in QIds : query'[k] = IF k = i THEN q ELSE query[k]
      /\ query' \in [QIds -> Query \cup {Finishing, None}]
  BY <1>2, <1>3 DEF Types
<1>5. retried(i)
  BY <1>1, <1>3, <1>4 DEF retried
<1>6. /\ sameQueries
      /\ \A k \in QIds : /\ query'[k].users = query[k].users /\ query'[k].name = query[k].name
                         /\ (pending(k)' <=> pending(k))
      /\ \A v, k : k \in QIds => (on(v, k)' <=> on(v, k)) /\ (found(v, k)' <=> found(v, k))
  BY <1>5, Retried
<1>7. CASE timers' = timers \cup {i} /\ stack' = Front(stack)
  <2>1. pops
    BY <1>0, <1>7, StackFacts DEF pops
  <2>2. /\ \A c : finishing(c)' <=> finishing(c)
        /\ \A u, c : due(u, c)' <=> due(u, c)
        /\ \A c, j : gives(c, j)' <=> gives(c, j)
        /\ \A k : ~ sends(k)'
        /\ \A c : finishing(c) => /\ c \in 1..Len(stack) /\ c \in 1..Len(stack')
                                  /\ stack'[c] = stack[c]
        /\ \A c \in 1..Len(stack') : c \in 1..Len(stack) /\ stack'[c] = stack[c] /\ stack[c].op = "fin"
    BY <2>1, PoppedCall
  <2>3. Types' /\ Filed'
    BY <1>2, <1>4, <1>6, <1>7, <2>1, FiledKept DEF Types, pops
  <2>4. Framed'
    <3>1. \A c \in 1..Len(stack') : stack[c].q \in QIds
      BY <2>2, FrameFacts
    <3>2. \A c \in 1..Len(stack') : query'[stack'[c].q] = Finishing
      BY <1>6, <2>2, <3>1 DEF Framed, sameQueries
    <3> QED
      BY <2>2, <3>2 DEF Framed
  <2>5. Timed'
    BY <1>1, <1>6, <1>7, <2>2 DEF Timed
  <2>6. Waiting'
    <3>1. \A k \in QIds : pending(k)' => once(query'[k].users)
      BY <1>6 DEF Waiting
    <3>2. \A c \in 1..Len(stack') : finishing(c)' => once(stack'[c].left)
      BY <2>2 DEF Waiting
    <3>3. \A v \in Users, k \in QIds : on(v, k)' => asked'[v] = query'[k].name
      BY <1>2, <1>6 DEF Waiting
    <3>4. \A v \in Users, c \in 1..Len(stack') : due(v, c)' =>
            /\ asked'[v] # None
            /\ \A k \in QIds : ~ on(v, k)'
            /\ \A d \in 1..Len(stack') : due(v, d)' => d = c
      BY <1>2, <1>6, <2>2 DEF Waiting
    <3>5. \A v \in Users : asked'[v] # None =>
            /\ held'[v] = {}
            /\ (\E k \in QIds : on(v, k)') \/ (\E c \in 1..Len(stack') : due(v, c)')
      BY <1>2, <1>6, <2>2 DEF Waiting, due
    <3> QED
      BY <3>1, <3>2, <3>3, <3>4, <3>5 DEF Waiting, once
  <2>7. Owned' /\ Counted'
    <3>1. /\ \A k \in QIds, j \in RIds : found(j, k)' => found(j, k) /\ query'[k].name = query[k].name
          /\ \A c, j : gives(c, j)' => gives(c, j) /\ c \in 1..Len(stack)
          /\ \A u, c : due(u, c)' => due(u, c) /\ asked'[u] = asked[u]
          /\ \A c, j : gives(c, j) => c \in 1..Len(stack) /\ c \in 1..Len(stack') /\ stack'[c].left = stack[c].left
      BY <1>2, <1>6, <2>2 DEF gives
    <3> QED
      BY <1>2, <2>2, <3>1, OwnedKept, CountedKept
  <2>8. Successful'
    BY <2>2 DEF Successful
  <2> QED
    BY <2>3, <2>4, <2>5, <2>6, <2>7, <2>8
<1>8. CASE timers' = timers /\ stack' = stack
  <2>1. sameCalls
    BY <1>8 DEF sameCalls
  <2>2. /\ \A c : finishing(c)' <=> finishing(c)
        /\ \A u, c : due(u, c)' <=> due(u, c)
        /\ \A c, j : gives(c, j)' <=> gives(c, j)
        /\ \A k : sends(k)' <=> sends(k)
    BY <1>8 DEF finishing, due, gives, sends
  <2>3. Owned' /\ Counted'
    <3>1. /\ \A k \in QIds, j \in RIds : found(j, k)' => found(j, k) /\ query'[k].name = query[k].name
          /\ \A c, j : gives(c, j)' => gives(c, j) /\ c \in 1..Len(stack)
          /\ \A u, c : due(u, c)' => due(u, c) /\ asked'[u] = asked[u]
          /\ \A c, j : gives(c, j) => c \in 1..Len(stack) /\ c \in 1..Len(stack') /\ stack'[c].left = stack[c].left
      BY <1>2, <1>6, <1>8, <2>2 DEF gives, finishing
    <3> QED
      BY <1>2, <2>2, <3>1, OwnedKept, CountedKept
  <2>4. Types'
    BY <1>2, <1>4, <1>8 DEF Types
  <2>5. Filed' /\ Framed' /\ Timed' /\ Waiting' /\ Successful'
    BY <1>2, <1>6, <1>8, <2>1, <2>2, FiledKept, FramedKept, TimedKept, WaitingKept, SuccessfulKept
  <2> QED
    BY <2>3, <2>4, <2>5
<1> QED
  BY <1>2, <1>7, <1>8
-----------------------------------------------------------------------------
(* Answers *)

\* A query that got an answer, with the result in j if it was good.
answers(i, q, r, ok, j) ==
    /\ pending(i) /\ stack = << >>
    /\ q \in Query /\ q.name = query[i].name /\ q.users = query[i].users
    /\ ok => j \in RIds /\ res[j] = None
    /\ q.res = IF ok THEN Append(query[i].res, j) ELSE query[i].res
    /\ r = IF ok THEN [res EXCEPT ![j] = NewRes(query[i].name)] ELSE res

\* An answer adds at most one result, which nobody holds yet.
LEMMA NewResult ==
    ASSUME Constants, DnsInv, NEW i \in QIds, NEW q, NEW r, NEW ok, NEW j, answers(i, q, r, ok, j)
    PROVE  /\ r \in [RIds -> Result \cup {None}]
           /\ \A y \in RIds : ~ (\E d \in 1..Len(q.res) : q.res[d] = y) => r[y] = res[y]
           /\ \A y \in RIds : (\E d \in 1..Len(q.res) : q.res[d] = y) =>
                 /\ r[y] # None /\ r[y].usage = None /\ r[y].name = query[i].name /\ r[y] \in Result
                 /\ holders(y) = {}
                 /\ \A c : ~ gives(c, y)
                 /\ \A k \in QIds : k # i => ~ found(y, k)
<1> USE DEF DnsInv
<1>0. /\ pending(i) /\ query[i].name \in Names /\ query[i].res \in Seq(RIds)
      /\ res \in [RIds -> Result \cup {None}]
  BY QueryFields DEF answers, Types
<1>1. CASE ~ ok
  <2>1. r = res /\ q.res = query[i].res
    BY <1>1 DEF answers
  <2>2. \A y \in RIds : (\E d \in 1..Len(q.res) : q.res[d] = y) <=> found(y, i)
    BY <1>0, <2>1 DEF found
  <2>3. \A y \in RIds : found(y, i) =>
           /\ r[y] # None /\ r[y].usage = None /\ r[y].name = query[i].name
           /\ holders(y) = {}
           /\ \A c : ~ gives(c, y)
           /\ \A k \in QIds : k # i => ~ found(y, k)
    BY <2>1, FoundAreOwn
  <2> QED
    BY <1>0, <2>1, <2>2, <2>3
<1>2. CASE ok
  <2>1. /\ j \in RIds /\ res[j] = None /\ q.res = Append(query[i].res, j)
        /\ r = [res EXCEPT ![j] = NewRes(query[i].name)]
    BY <1>2 DEF answers
  <2>2. NewRes(query[i].name) \in Result /\ NewRes(query[i].name).usage = None
        /\ NewRes(query[i].name).name = query[i].name /\ NewRes(query[i].name) # None
    BY <1>0 DEF NewRes, Result, Constants, NoneAssumption
  <2>3. /\ r \in [RIds -> Result \cup {None}] /\ r[j] = NewRes(query[i].name)
        /\ \A y \in RIds : y # j => r[y] = res[y]
    BY <1>0, <2>1, <2>2
  <2>4. \A y \in RIds : (\E d \in 1..Len(q.res) : q.res[d] = y) <=> found(y, i) \/ y = j
    <3>1. \A y : (\E d \in 1..Len(q.res) : q.res[d] = y)
                  <=> (\E d \in 1..Len(query[i].res) : query[i].res[d] = y) \/ y = j
      BY <1>0, <2>1, AppendedOne
    <3> QED
      BY <1>0, <3>1 DEF found
  <2>5. /\ holders(j) = {} /\ \A c : ~ gives(c, j)
        /\ \A k \in QIds : ~ found(j, k)
    BY <2>1 DEF Owned, holders, gives, finishing
  <2>6. \A y \in RIds : found(y, i) =>
           /\ res[y] # None /\ res[y].usage = None /\ res[y].name = query[i].name
           /\ holders(y) = {}
           /\ \A c : ~ gives(c, y)
           /\ \A k \in QIds : k # i => ~ found(y, k)
    BY FoundAreOwn
  <2>7. \A y \in RIds : res[y] # None => res[y] \in Result
    BY <1>0
  <2> HIDE DEF Result
  <2> QED
    BY <2>2, <2>3, <2>4, <2>5, <2>6, <2>7
<1> QED
  BY <1>1, <1>2

\* The other question is still to be answered.
LEMMA HalfAnswered ==
    ASSUME Constants, DnsInv, NEW i \in QIds, NEW q, NEW r, NEW ok, NEW j, answers(i, q, r, ok, j),
           query' = [query EXCEPT ![i] = q], res' = r, UNCHANGED <<ipv6, tree, timers, stack, asked, held>>
    PROVE  DnsInv'
<1> USE DEF DnsInv
<1>1. /\ r \in [RIds -> Result \cup {None}]
      /\ \A y \in RIds : ~ (\E d \in 1..Len(q.res) : q.res[d] = y) => r[y] = res[y]
      /\ \A y \in RIds : (\E d \in 1..Len(q.res) : q.res[d] = y) =>
             /\ r[y] # None /\ r[y].usage = None /\ r[y].name = query[i].name
             /\ holders(y) = {}
             /\ \A c : ~ gives(c, y)
             /\ \A k \in QIds : k # i => ~ found(y, k)
  BY NewResult
<1>2. /\ q \in Query /\ q.name = query[i].name /\ q.users = query[i].users /\ pending(i) /\ stack = << >>
  BY DEF answers
<1>3. /\ \A k \in QIds : query'[k] = IF k = i THEN q ELSE query[k]
      /\ query' \in [QIds -> Query \cup {Finishing, None}]
  BY <1>2 DEF Types
<1>4. \A k \in QIds : /\ pending(k)' <=> pending(k)
                      /\ query'[k].users = query[k].users /\ query'[k].name = query[k].name
                      /\ query[k] = Finishing => query'[k] = Finishing
  BY <1>2, <1>3, NotQueries DEF pending
<1>5. sameQueries /\ sameCalls
  BY <1>4 DEF sameQueries, sameCalls
<1>6. /\ \A v, c : due(v, c)' <=> due(v, c)
      /\ \A c, y : gives(c, y)' <=> gives(c, y)
      /\ \A k : sends(k)' <=> sends(k)
      /\ \A y : holders(y)' = holders(y)
  BY DEF finishing, due, gives, sends, holders
<1>7. \A y, k : k \in QIds => (found(y, k)' <=> IF k = i THEN \E d \in 1..Len(q.res) : q.res[d] = y ELSE found(y, k))
  BY <1>2, <1>3, <1>4 DEF found
<1>8. Types'
  BY <1>1, <1>3 DEF Types
<1>9. Filed' /\ Framed' /\ Timed' /\ Waiting' /\ Successful'
  BY <1>4, <1>5, <1>6, FiledKept, FramedKept, TimedKept, WaitingKept, SuccessfulKept
<1>10. \A c : ~ gives(c, j) /\ ~ finishing(c) /\ \A y : ~ gives(c, y)
  BY <1>2 DEF gives, finishing
<1>11. Owned'
  <2>1. ASSUME NEW k \in QIds, NEW y \in RIds, found(y, k)'
        PROVE  /\ res'[y] # None /\ res'[y].usage = None /\ res'[y].name = query'[k].name
               /\ holders(y)' = {}
    <3>1. CASE k = i
      BY <1>1, <1>4, <1>6, <1>7, <2>1, <3>1
    <3>2. CASE k # i
      <4>1. found(y, k) /\ res'[y] = res[y]
        BY <1>1, <1>7, <2>1, <3>2
      <4> QED
        BY <1>4, <1>6, <4>1 DEF Owned
    <3> QED
      BY <3>1, <3>2
  <2>2. ASSUME NEW u \in Users, NEW y \in held[u] PROVE res'[y.r] # None /\ res'[y.r].name = y.for
    <3>1. y.r \in RIds /\ u \in holders(y.r) /\ res[y.r] # None /\ res[y.r].name = y.for
      BY <2>2 DEF Types, Holding, holders, Owned
    <3> QED
      BY <1>1, <3>1
  <2> QED
    BY <1>6, <1>10, <2>1, <2>2 DEF Owned
<1>12. Counted'
  <2>1. \A y \in RIds : res'[y] # None /\ res'[y].usage # None => res'[y] = res[y]
    BY <1>1
  <2> QED
    BY <1>6, <1>10, <2>1 DEF Counted
<1> QED
  BY <1>8, <1>9, <1>11, <1>12

\* Both questions are answered: the results are counted for the users.
LEMMA AllAnswered ==
    ASSUME Constants, DnsInv, NEW i \in QIds, NEW q, NEW r, NEW ok, NEW j, answers(i, q, r, ok, j),
           NEW status \in {"ok", "err"}, status = "ok" => q.res # << >>,
           fin(q, i, status, stack), timers' = timers \ {i}, res' = usageSet(q, r),
           UNCHANGED <<ipv6, asked, held>>
    PROVE  DnsInv'
<1> USE DEF DnsInv
<1>1. /\ r \in [RIds -> Result \cup {None}]
      /\ \A y \in RIds : ~ (\E d \in 1..Len(q.res) : q.res[d] = y) => r[y] = res[y]
      /\ \A y \in RIds : (\E d \in 1..Len(q.res) : q.res[d] = y) =>
             /\ r[y] # None /\ r[y].usage = None /\ r[y].name = query[i].name /\ r[y] \in Result
             /\ holders(y) = {}
             /\ \A c : ~ gives(c, y)
             /\ \A k \in QIds : k # i => ~ found(y, k)
  BY NewResult
<1>2. q \in Query /\ q.name = query[i].name /\ q.users = query[i].users /\ pending(i) /\ stack = << >>
  BY DEF answers
<1>3. finishes(i, q, status, 0)
  <2>1. PICK st : st = stack
    OBVIOUS
  <2>2. /\ st \in Seq(Call \cup Sending) /\ Len(st) = 0 /\ keeps(i, 0)
        /\ timers' \in SUBSET QIds /\ \A k \in QIds : k \in timers' <=> k \in timers /\ k # i
        /\ \A c \in 1..0 : st[c] = stack[c] /\ stack[c].op = "fin"
    BY <1>2, <2>1 DEF Types, keeps
  <2>3. fin(q, i, status, st)
    BY <2>1
  <2> HIDE DEF Call, Sending, Query
  <2> QED
    BY <1>2, <2>2, <2>3, FinishesWhen
<1>4. supplies(i, q)
  <2>1. q.res \in Seq(RIds) /\ q.users \in Seq(Users) /\ Len(q.users) \in Nat
    BY <1>2 DEF Query
  <2>2. \A y \in RIds : res'[y] = IF \E d \in 1..Len(q.res) : q.res[d] = y
                                  THEN [r[y] EXCEPT !.usage = Len(q.users)] ELSE r[y]
    BY <2>1, ElementsOf DEF usageSet
  <2>3. \A y \in RIds : r[y] \in Result =>
           /\ [r[y] EXCEPT !.usage = Len(q.users)] \in Result
           /\ [r[y] EXCEPT !.usage = Len(q.users)].usage = Len(q.users)
           /\ [r[y] EXCEPT !.usage = Len(q.users)].name = r[y].name
    BY <2>1 DEF Result
  <2>4. res' \in [RIds -> Result \cup {None}]
    <3>1. ASSUME NEW y \in RIds PROVE res'[y] \in Result \cup {None}
      <4>1. CASE \E d \in 1..Len(q.res) : q.res[d] = y
        <5>1. r[y] \in Result
          BY <1>1, <4>1
        <5> QED
          BY <2>2, <2>3, <4>1, <5>1
      <4>2. CASE ~ \E d \in 1..Len(q.res) : q.res[d] = y
        BY <1>1, <2>2, <4>2
      <4> QED
        BY <4>1, <4>2
    <3> QED
      BY <3>1 DEF usageSet
  <2>5. \A y \in RIds : (\E d \in 1..Len(q.res) : q.res[d] = y) =>
           /\ res'[y] # None /\ res'[y].name = query[i].name /\ res'[y].usage = Len(query[i].users)
    <3>1. None \notin Result
      BY DEF Constants, NoneAssumption
    <3>2. ASSUME NEW y \in RIds, \E d \in 1..Len(q.res) : q.res[d] = y
          PROVE  /\ res'[y] # None /\ res'[y].name = query[i].name /\ res'[y].usage = Len(query[i].users)
      <4>1. r[y] \in Result /\ r[y].name = query[i].name
        BY <1>1, <3>2
      <4>2. res'[y] \in Result /\ res'[y].name = query[i].name /\ res'[y].usage = Len(q.users)
        <5>1. res'[y] = [r[y] EXCEPT !.usage = Len(q.users)]
          BY <2>2, <3>2
        <5> QED
          BY <2>3, <4>1, <5>1
      <4> QED
        BY <1>2, <3>1, <4>2
    <3> QED
      BY <3>2
  <2>6. \A y \in RIds : ~ (\E d \in 1..Len(q.res) : q.res[d] = y) => res'[y] = res[y]
    BY <1>1, <2>2
  <2> QED
    BY <1>1, <2>4, <2>5, <2>6 DEF supplies
<1> QED
  BY <1>3, <1>4, FinishStep

\* The questions on their way are about names.
Flying == \A x \in flight : x.name \in Names

\* An answer to a pending query.
LEMMA AnswerStep ==
    ASSUME Constants, DnsInv, NEW i \in QIds, NEW x, NEW is4 \in BOOLEAN, NEW ok \in BOOLEAN,
           stack = << >>, pending(i), nameIs(i, x.name), Answer(i, x, is4, ok),
           UNCHANGED <<ipv6, asked, held>>
    PROVE  DnsInv'
<1> USE DEF DnsInv
<1>1. PICK j : j = CHOOSE y \in RIds : res[y] = None
  OBVIOUS
<1> DEFINE q == [query[i] EXCEPT !.need4 = @ /\ ~is4, !.need6 = @ /\ is4,
                                 !.status = statusOf(query[i], ok),
                                 !.res = IF ok THEN Append(@, j) ELSE @]
           r == IF ok THEN [res EXCEPT ![j] = NewRes(x.name)] ELSE res
<1>2. /\ ok => j \in RIds /\ res[j] = None
      /\ IF q.need4 \/ q.need6
         THEN query' = [query EXCEPT ![i] = q] /\ res' = r /\ UNCHANGED <<tree, timers, stack>>
         ELSE /\ timers' = timers \ {i}
              /\ res' = usageSet(q, r)
              /\ fin(q, i, q.status, stack)
  BY <1>1 DEF Answer
<1>3. /\ query[i] \in Query /\ query[i].res \in Seq(RIds) /\ query[i].need4 \in BOOLEAN /\ query[i].need6 \in BOOLEAN
      /\ query[i].status \in {"ok", "err"}
  BY QueryFields DEF pending
<1>4. statusOf(query[i], ok) \in {"ok", "err"}
  BY <1>3 DEF statusOf
<1>5. (IF ok THEN Append(query[i].res, j) ELSE query[i].res) \in Seq(RIds)
  BY <1>2, <1>3
<1>6. /\ q \in Query /\ q.name = query[i].name /\ q.users = query[i].users /\ q.status = statusOf(query[i], ok)
      /\ q.res = IF ok THEN Append(query[i].res, j) ELSE query[i].res
  <2>1. PICK s : s = IF ok THEN Append(query[i].res, j) ELSE query[i].res
    OBVIOUS
  <2>2. PICK st : st = statusOf(query[i], ok)
    OBVIOUS
  <2>3. PICK n4, n6 : n4 = (query[i].need4 /\ ~is4) /\ n6 = (query[i].need6 /\ is4)
    OBVIOUS
  <2>4. n4 \in BOOLEAN /\ n6 \in BOOLEAN /\ s \in Seq(RIds) /\ st \in {"ok", "err"}
    BY <1>3, <1>4, <1>5, <2>1, <2>2, <2>3
  <2>5. q = [query[i] EXCEPT !.need4 = n4, !.need6 = n6, !.status = st, !.res = s]
    BY <2>1, <2>2, <2>3
  <2> HIDE DEF q
  <2>6. q \in Query /\ q.name = query[i].name /\ q.users = query[i].users /\ q.status = st /\ q.res = s
    BY <1>3, <2>4, <2>5 DEF Query
  <2> QED
    BY <2>1, <2>2, <2>6
<1> HIDE DEF q
<1>7. r = IF ok THEN [res EXCEPT ![j] = NewRes(query[i].name)] ELSE res
  BY DEF nameIs
<1> HIDE DEF r
<1>8. answers(i, q, r, ok, j)
  BY <1>2, <1>6, <1>7 DEF answers
<1>9. q.status = "ok" => q.res # << >>
  <2>1. CASE ok
    BY <1>2, <1>3, <1>6, <2>1, AppendedOne
  <2>2. CASE ~ ok
    BY <1>6, <2>2 DEF statusOf
  <2> QED
    BY <2>1, <2>2
<1>10. CASE q.need4 \/ q.need6
  BY <1>2, <1>8, <1>10, HalfAnswered
<1>11. CASE ~ (q.need4 \/ q.need6)
  <2>1. q.status \in {"ok", "err"}
    BY <1>4, <1>6
  <2> QED
    BY <1>2, <1>8, <1>9, <1>11, <2>1, AllAnswered
<1> QED
  BY <1>10, <1>11

\* Any datagram that is received.
LEMMA ReceiveStep ==
    ASSUME Constants, DnsInv, Flying, NEW x \in flight, NEW ok \in BOOLEAN, NEW again \in BOOLEAN,
           Receive(x, ok, again)
    PROVE  DnsInv'
<1>1. x.name \in Names /\ crc[x.name] \in Keys
  BY DEF Flying, Keys
<1>2. PICK i \in QIds : i = tree[crc[x.name]] /\ pending(i)
  BY <1>1 DEF Receive, DnsInv, Types, Filed
<1>3. stack = << >> /\ nameIs(i, x.name) /\ UNCHANGED <<ipv6, asked, held>>
  BY <1>2 DEF Receive, Idle
<1>4. Answer(i, x, TRUE, ok) \/ Answer(i, x, FALSE, ok)
  BY <1>2 DEF Receive
<1> QED
  BY <1>2, <1>3, <1>4, AnswerStep
-----------------------------------------------------------------------------
(* Users are called *)

LEMMA TailIs ==
    ASSUME NEW S, NEW s \in Seq(S), s # << >>
    PROVE  /\ Head(s) \in S /\ Tail(s) \in Seq(S) /\ Len(Tail(s)) + 1 = Len(s) /\ Len(Tail(s)) \in Nat
           /\ \E d \in 1..Len(s) : s[d] = Head(s)
           /\ once(s) => /\ once(Tail(s))
                         /\ \A v : (\E d \in 1..Len(Tail(s)) : Tail(s)[d] = v)
                                   <=> (\E d \in 1..Len(s) : s[d] = v) /\ v # Head(s)
<1>1. /\ Len(s) \in Nat /\ Len(s) >= 1 /\ Head(s) = s[1] /\ Head(s) \in S
      /\ Tail(s) \in Seq(S) /\ Len(Tail(s)) = Len(s) - 1
      /\ \A d \in 1..Len(Tail(s)) : Tail(s)[d] = s[d + 1]
  BY EmptySeq, HeadTailProperties
<1>2. /\ 1 \in 1..Len(s)
      /\ \A d \in 1..Len(Tail(s)) : d + 1 \in 1..Len(s) /\ d + 1 # 1
      /\ \A d \in 1..Len(s) : d = 1 \/ d - 1 \in 1..Len(Tail(s))
      /\ \A d \in 1..Len(s) : d = 1 \/ d - 1 + 1 = d
      /\ \A a, b \in 1..Len(Tail(s)) : a + 1 = b + 1 => a = b
  BY <1>1
<1>3. ASSUME once(s) PROVE once(Tail(s))
  BY <1>1, <1>2, <1>3 DEF once
<1>4. ASSUME once(s), NEW v
      PROVE  (\E d \in 1..Len(Tail(s)) : Tail(s)[d] = v) <=> (\E d \in 1..Len(s) : s[d] = v) /\ v # Head(s)
  <2>1. ASSUME NEW d \in 1..Len(Tail(s)), Tail(s)[d] = v
        PROVE  (\E e \in 1..Len(s) : s[e] = v) /\ v # Head(s)
    BY <1>1, <1>2, <1>4, <2>1 DEF once
  <2>2. ASSUME NEW d \in 1..Len(s), s[d] = v, v # Head(s)
        PROVE  \E e \in 1..Len(Tail(s)) : Tail(s)[e] = v
    <3>1. d # 1 /\ d - 1 \in 1..Len(Tail(s)) /\ d - 1 + 1 = d
      BY <1>1, <1>2, <2>2
    <3>2. Tail(s)[d - 1] = v
      BY <1>1, <2>2, <3>1
    <3> QED
      BY <3>1, <3>2
  <2> QED
    BY <2>1, <2>2
<1>5. Len(Tail(s)) + 1 = Len(s) /\ Len(Tail(s)) \in Nat
  BY <1>1
<1> QED
  BY <1>1, <1>2, <1>3, <1>4, <1>5

\* The innermost call, m, has called its next user u.
notifies(u, m) ==
    /\ stack # << >> /\ m = Len(stack) /\ stack[m].op = "fin"
    /\ stack[m].left # << >> /\ u = Head(stack[m].left)
    /\ Len(stack') = m /\ stack' \in Seq(Call \cup Sending)
    /\ \A c \in 1..m : c # m => stack'[c] = stack[c]
    /\ stack'[m].op = "fin" /\ stack'[m].q = stack[m].q /\ stack'[m].left = Tail(stack[m].left)
    /\ stack'[m].ai = stack[m].ai /\ stack'[m].status = stack[m].status
    /\ query' = query

\* query_fin() calls the handler of the first user in the list.
LEMMA NotifyIs ==
    ASSUME Constants, DnsInv, Notify, NEW u, u = Head(Top.left), NEW m, m = Len(stack)
    PROVE  notifies(u, m) /\ u \in Users
<1> USE DEF DnsInv
<1>1. /\ stack # << >> /\ Top.op = "fin" /\ Top.left # << >> /\ query' = query
      /\ stack' = [stack EXCEPT ![m].left = Tail(@), ![m].cur = u]
  BY DEF Notify
<1>2. /\ m \in Nat /\ m \in 1..Len(stack) /\ Top = stack[m] /\ stack[m] \in Call
      /\ stack \in Seq(Call \cup Sending)
  BY <1>1, StackFacts, FrameFacts DEF Types
<1>3. stack[m].left \in Seq(Users) /\ stack[m].left # << >>
  BY <1>1, <1>2 DEF Call
<1>4. u \in Users /\ Tail(stack[m].left) \in Seq(Users)
  BY <1>2, <1>3, TailIs
<1> DEFINE e == [stack[m] EXCEPT !.left = Tail(@), !.cur = u]
<1>5. /\ e \in Call /\ e.op = stack[m].op /\ e.q = stack[m].q /\ e.left = Tail(stack[m].left)
      /\ e.ai = stack[m].ai /\ e.status = stack[m].status
  BY <1>2, <1>4 DEF Call
<1>6. stack' = [stack EXCEPT ![m] = e]
  BY <1>1, <1>2 DEF Call
<1> HIDE DEF e, Call, Sending
<1>7. /\ Len(stack') = m /\ stack' \in Seq(Call \cup Sending)
      /\ \A c \in 1..m : stack'[c] = IF c = m THEN e ELSE stack[c]
  BY <1>2, <1>5, <1>6
<1> QED
  BY <1>1, <1>2, <1>4, <1>5, <1>7 DEF notifies

\* That user is owed nothing more; the others what they were.
LEMMA NotifiedCalls ==
    ASSUME Constants, DnsInv, NEW u, NEW m, notifies(u, m)
    PROVE  /\ m \in Nat /\ m \in 1..Len(stack) /\ Len(stack') = Len(stack) /\ finishing(m) /\ u \in Users
           /\ stack[m] \in Call /\ stack[m].left \in Seq(Users) /\ stack[m].ai \in Seq(RIds)
           /\ due(u, m) /\ Len(stack'[m].left) + 1 = Len(stack[m].left) /\ Len(stack'[m].left) \in Nat
           /\ \A c : finishing(c)' <=> finishing(c)
           /\ \A c \in 1..Len(stack) : finishing(c) => once(stack'[c].left)
           /\ \A v, c : due(v, c)' <=> due(v, c) /\ ~ (v = u /\ c = m)
           /\ \A c, j : gives(c, j)' <=> gives(c, j) /\ (c = m => stack'[m].left # << >>)
           /\ \A k : ~ sends(k) /\ ~ sends(k)'
           /\ \A c, j : gives(c, j) /\ c # m => stack'[c] = stack[c] /\ c \in 1..Len(stack)
<1> USE DEF DnsInv
<1>1. m \in Nat /\ m \in 1..Len(stack) /\ stack[m] \in Call /\ finishing(m) /\ Len(stack') = Len(stack)
  BY StackFacts, FrameFacts DEF notifies, finishing
<1>2. /\ stack[m].left \in Seq(Users) /\ stack[m].left # << >> /\ u = Head(stack[m].left)
      /\ stack'[m].left = Tail(stack[m].left) /\ stack[m].ai \in Seq(RIds) /\ once(stack[m].left)
  BY <1>1 DEF notifies, Call, Waiting
<1> HIDE DEF Call
<1>3. /\ \A c : finishing(c)' <=> finishing(c)
      /\ \A c \in 1..Len(stack) : c # m => stack'[c] = stack[c]
  BY <1>1 DEF notifies, finishing
<1>4. /\ u \in Users /\ due(u, m) /\ Len(stack'[m].left) + 1 = Len(stack[m].left) /\ Len(stack'[m].left) \in Nat
      /\ once(stack'[m].left)
      /\ \A v : (\E d \in 1..Len(stack'[m].left) : stack'[m].left[d] = v)
                <=> (\E d \in 1..Len(stack[m].left) : stack[m].left[d] = v) /\ v # u
  <2>1. PICK s : s = stack[m].left
    OBVIOUS
  <2>2. PICK t : t = stack'[m].left
    OBVIOUS
  <2>3. s \in Seq(Users) /\ s # << >> /\ u = Head(s) /\ t = Tail(s) /\ once(s)
    BY <1>2, <2>1, <2>2
  <2>4. /\ u \in Users /\ (\E d \in 1..Len(s) : s[d] = u) /\ Len(t) + 1 = Len(s) /\ Len(t) \in Nat
        /\ once(t)
        /\ \A v : (\E d \in 1..Len(t) : t[d] = v) <=> (\E d \in 1..Len(s) : s[d] = v) /\ v # u
    <3>1. /\ Head(s) \in Users /\ Len(Tail(s)) + 1 = Len(s) /\ Len(Tail(s)) \in Nat
          /\ \E d \in 1..Len(s) : s[d] = Head(s)
          /\ once(Tail(s))
          /\ \A v : (\E d \in 1..Len(Tail(s)) : Tail(s)[d] = v)
                    <=> (\E d \in 1..Len(s) : s[d] = v) /\ v # Head(s)
      BY <2>3, TailIs
    <3> QED
      BY <2>3, <3>1
  <2> QED
    BY <1>1, <2>1, <2>2, <2>4 DEF due, once
<1>5. \A c \in 1..Len(stack) : finishing(c) => once(stack'[c].left)
  BY <1>3, <1>4 DEF Waiting
<1>6. \A v, c : due(v, c)' <=> due(v, c) /\ ~ (v = u /\ c = m)
  <2>1. \A v : due(v, m)' <=> due(v, m) /\ v # u
    BY <1>1, <1>3, <1>4 DEF due
  <2>2. \A v, c : c # m => (due(v, c)' <=> due(v, c))
    <3>1. \A c : finishing(c) /\ c # m => stack'[c] = stack[c]
      BY <1>3 DEF finishing
    <3> QED
      BY <1>3, <3>1 DEF due
  <2> QED
    BY <2>1, <2>2
<1>7. \A c, j : gives(c, j)' <=> gives(c, j) /\ (c = m => stack'[m].left # << >>)
  <2>1. \A j : gives(m, j)' <=> gives(m, j) /\ stack'[m].left # << >>
    BY <1>1, <1>2, <1>3 DEF gives, notifies
  <2>2. \A c, j : c # m => (gives(c, j)' <=> gives(c, j))
    <3>1. \A c : finishing(c) /\ c # m => stack'[c] = stack[c]
      BY <1>3 DEF finishing
    <3> QED
      BY <1>3, <3>1 DEF gives
  <2> QED
    BY <2>1, <2>2
<1>8. \A k : ~ sends(k) /\ ~ sends(k)'
  <2>1. \A c \in 1..Len(stack) : stack[c].op # "send"
    BY <1>1 DEF Framed, notifies
  <2>2. \A c \in 1..Len(stack') : stack'[c].op # "send"
    BY <1>1, <1>3, <2>1 DEF notifies
  <2> QED
    BY <2>1, <2>2 DEF sends
<1> QED
  BY <1>1, <1>2, <1>3, <1>4, <1>5, <1>6, <1>7, <1>8 DEF gives, finishing

\* The user is told, and holds the results it was given.
LEMMA NotifyStep ==
    ASSUME Constants, DnsInv, Notify
    PROVE  DnsInv'
<1> USE DEF DnsInv
<1>0. PICK u, m : u = Head(Top.left) /\ m = Len(stack)
  OBVIOUS
<1>1. notifies(u, m) /\ u \in Users
  BY <1>0, NotifyIs
<1>2. /\ m \in Nat /\ m \in 1..Len(stack) /\ Len(stack') = Len(stack) /\ finishing(m)
      /\ stack[m] \in Call /\ stack[m].left \in Seq(Users) /\ stack[m].ai \in Seq(RIds)
      /\ due(u, m) /\ Len(stack'[m].left) + 1 = Len(stack[m].left) /\ Len(stack'[m].left) \in Nat
      /\ \A c : finishing(c)' <=> finishing(c)
      /\ \A c \in 1..Len(stack) : finishing(c) => once(stack'[c].left)
      /\ \A v, c : due(v, c)' <=> due(v, c) /\ ~ (v = u /\ c = m)
      /\ \A c, j : gives(c, j)' <=> gives(c, j) /\ (c = m => stack'[m].left # << >>)
      /\ \A k : ~ sends(k) /\ ~ sends(k)'
      /\ \A c, j : gives(c, j) /\ c # m => stack'[c] = stack[c] /\ c \in 1..Len(stack)
  BY <1>1, NotifiedCalls
<1>3. Top = stack[m]
  BY <1>0, <1>1, StackFacts DEF notifies
<1>4. /\ asked' = [asked EXCEPT ![u] = None]
      /\ held' = [held EXCEPT ![u] = @ \cup {[r |-> j, for |-> asked[u]] : j \in ToSet(stack[m].ai)}]
      /\ UNCHANGED <<ipv6, tree, query, res, timers>>
      /\ stack' \in Seq(Call \cup Sending)
  BY <1>0, <1>1, <1>3 DEF Notify, notifies
<1>5. /\ asked[u] # None /\ asked[u] \in Names /\ held[u] = {} /\ \A k \in QIds : ~ on(u, k)
      /\ \A c : due(u, c) => c = m
  BY <1>1, <1>2 DEF Waiting, Types, due, finishing
<1>6. \A j : j \in ToSet(stack[m].ai) <=> j \in RIds /\ gives(m, j)
  <2>1. \A j : j \in ToSet(stack[m].ai) <=> j \in RIds /\ \E d \in 1..Len(stack[m].ai) : stack[m].ai[d] = j
    BY <1>2, ElementsOf
  <2> QED
    BY <1>1, <1>2, <2>1 DEF gives, notifies
<1>7. /\ \A v \in Users : asked'[v] = IF v = u THEN None ELSE asked[v]
      /\ \A v \in Users : v # u => held'[v] = held[v]
      /\ held'[u] = {[r |-> j, for |-> asked[u]] : j \in ToSet(stack[m].ai)}
      /\ asked' \in [Users -> Names \cup {None}]
  BY <1>1, <1>4, <1>5 DEF Types
<1>8. /\ held' \in [Users -> SUBSET Holding]
      /\ \A y \in held'[u] : y.r \in RIds /\ gives(m, y.r) /\ y.for = asked[u]
      /\ \A j \in RIds : gives(m, j) => \E y \in held'[u] : y.r = j
  <2>1. held'[u] \in SUBSET Holding
    BY <1>5, <1>6, <1>7 DEF Holding
  <2>2. held' \in [Users -> SUBSET Holding]
    BY <1>4, <1>7, <2>1 DEF Types
  <2>3. \A y \in held'[u] : y.r \in RIds /\ gives(m, y.r) /\ y.for = asked[u]
    BY <1>6, <1>7
  <2>4. ASSUME NEW j \in RIds, gives(m, j) PROVE \E y \in held'[u] : y.r = j
    <3>1. [r |-> j, for |-> asked[u]] \in held'[u] /\ [r |-> j, for |-> asked[u]].r = j
      BY <1>6, <1>7, <2>4
    <3> QED
      BY <3>1
  <2> QED
    BY <2>2, <2>3, <2>4
<1>9. Types'
  BY <1>4, <1>7, <1>8 DEF Types
<1>10. /\ \A k : pending(k)' <=> pending(k)
       /\ \A v, k : (on(v, k)' <=> on(v, k)) /\ (found(v, k)' <=> found(v, k))
       /\ sameQueries
  BY <1>4 DEF pending, on, found, sameQueries
<1>11. Filed' /\ Timed'
  BY <1>2, <1>4, <1>10, FiledKept, TimedKept
<1>12. /\ \A c \in 1..Len(stack) : /\ stack'[c].op = stack[c].op /\ stack'[c].q = stack[c].q
                                   /\ stack'[c].ai = stack[c].ai /\ stack'[c].status = stack[c].status
  BY <1>0, <1>1 DEF notifies
<1>13. Framed' /\ Successful'
  <2>1. \A c \in 1..Len(stack) : stack[c].op # "send"
    BY <1>0, <1>1, <1>2 DEF Framed, notifies
  <2>2. Framed'
    BY <1>2, <1>4, <1>12, <2>1 DEF Framed
  <2>3. Successful'
    BY <1>2, <1>12 DEF Successful
  <2> QED
    BY <2>2, <2>3
<1>14. Waiting'
  <2>1. \A k \in QIds : pending(k)' => once(query'[k].users)
    BY <1>4, <1>10 DEF Waiting
  <2>2. \A c \in 1..Len(stack') : finishing(c)' => once(stack'[c].left)
    BY <1>2
  <2>3. \A v \in Users, k \in QIds : on(v, k)' => asked'[v] = query'[k].name
    BY <1>4, <1>5, <1>7, <1>10 DEF Waiting
  <2>4. \A v \in Users, c \in 1..Len(stack') : due(v, c)' =>
            /\ asked'[v] # None
            /\ \A k \in QIds : ~ on(v, k)'
            /\ \A d \in 1..Len(stack') : due(v, d)' => d = c
    BY <1>2, <1>5, <1>7, <1>10 DEF Waiting
  <2>5. \A v \in Users : asked'[v] # None =>
            /\ held'[v] = {}
            /\ (\E k \in QIds : on(v, k)') \/ (\E c \in 1..Len(stack') : due(v, c)')
    BY <1>2, <1>7, <1>10 DEF Waiting
  <2> QED
    BY <2>1, <2>2, <2>3, <2>4, <2>5 DEF Waiting, once
<1>15. /\ \A j \in RIds : gives(m, j) => holders(j)' = holders(j) \cup {u} /\ u \notin holders(j)
       /\ \A j \in RIds : ~ gives(m, j) => holders(j)' = holders(j)
  BY <1>1, <1>5, <1>7, <1>8 DEF holders
<1>16. Owned'
  <2>1. ASSUME NEW k \in QIds, NEW j \in RIds, found(j, k)'
        PROVE  /\ res'[j] # None /\ res'[j].usage = None /\ res'[j].name = query'[k].name
               /\ holders(j)' = {}
               /\ \A c \in 1..Len(stack') : ~ gives(c, j)'
    BY <1>2, <1>4, <1>10, <1>15, <2>1, FoundAreOwn
  <2>2. ASSUME NEW c \in 1..Len(stack'), NEW j \in RIds, gives(c, j)'
        PROVE  /\ res'[j] # None
               /\ \A v \in Users : due(v, c)' => res'[j].name = asked'[v]
               /\ \A d \in 1..Len(stack') : gives(d, j)' => d = c
    <3>1. gives(c, j) /\ \A d : gives(d, j)' => gives(d, j)
      BY <1>2, <2>2
    <3>2. \A v \in Users : due(v, c)' => due(v, c) /\ v # u
      BY <1>2, <1>5
    <3> QED
      BY <1>2, <1>4, <1>7, <3>1, <3>2 DEF Owned
  <2>3. ASSUME NEW v \in Users, NEW y \in held'[v] PROVE res'[y.r] # None /\ res'[y.r].name = y.for
    <3>1. CASE v = u
      BY <1>2, <1>4, <1>8, <2>3, <3>1 DEF Owned
    <3>2. CASE v # u
      BY <1>4, <1>7, <2>3, <3>2 DEF Owned
    <3> QED
      BY <3>1, <3>2
  <2> QED
    BY <2>1, <2>2, <2>3 DEF Owned
<1>17. Counted'
  <2>1. ASSUME NEW j \in RIds, res'[j] # None, res'[j].usage # None
        PROVE  /\ \A c \in 1..Len(stack') : gives(c, j)' =>
                     res'[j].usage = Cardinality(holders(j)') + Len(stack'[c].left)
               /\ (\A c \in 1..Len(stack') : ~ gives(c, j)') => res'[j].usage = Cardinality(holders(j)')
    <3>1. CASE gives(m, j)
      <4>1. IsFiniteSet(holders(j)) /\ Cardinality(holders(j)) \in Nat
        <5>1. holders(j) \subseteq Users /\ IsFiniteSet(Users)
          BY DEF holders, Constants, UserAssumption
        <5> QED
          BY <5>1, FS_Subset, FS_CardinalityType
      <4>2. Cardinality(holders(j)') = Cardinality(holders(j)) + 1
        BY <1>15, <3>1, <4>1, FS_AddElement
      <4>3. res[j].usage = Cardinality(holders(j)) + Len(stack[m].left)
        BY <1>2, <1>4, <2>1, <3>1 DEF Counted
      <4>4. res'[j].usage = Cardinality(holders(j)') + Len(stack'[m].left)
        <5>1. PICK h \in Nat : h = Cardinality(holders(j))
          BY <4>1
        <5>2. PICK n \in Nat : n = Len(stack'[m].left)
          BY <1>2
        <5>3. Len(stack[m].left) = n + 1
          BY <1>2, <5>2
        <5>4. h + (n + 1) = (h + 1) + n
          OBVIOUS
        <5> QED
          BY <1>4, <4>2, <4>3, <5>1, <5>2, <5>3, <5>4
      <4>5. \A c : gives(c, j)' => c = m
        BY <1>2, <2>1, <3>1 DEF Owned
      <4>6. (\A c \in 1..Len(stack') : ~ gives(c, j)') => Len(stack'[m].left) = 0
        BY <1>2, <3>1
      <4> QED
        BY <1>15, <3>1, <4>1, <4>2, <4>4, <4>5, <4>6
    <3>2. CASE ~ gives(m, j)
      <4>1. /\ \A c : gives(c, j)' <=> gives(c, j) /\ c # m
            /\ \A c : gives(c, j) => c # m /\ stack'[c] = stack[c] /\ c \in 1..Len(stack)
        BY <1>2, <3>2
      <4> QED
        BY <1>2, <1>4, <1>15, <2>1, <3>2, <4>1 DEF Counted
    <3> QED
      BY <3>1, <3>2
  <2> QED
    BY <2>1 DEF Counted
<1> QED
  BY <1>9, <1>11, <1>13, <1>14, <1>16, <1>17

\* query_fin() returns.
LEMMA FinishCallStep ==
    ASSUME Constants, DnsInv, Finish
    PROVE  DnsInv'
<1> USE DEF DnsInv
<1>1. PICK m : m = Len(stack)
  OBVIOUS
<1>2. /\ m \in Nat \ {0} /\ m \in 1..m /\ stack # << >> /\ stack[m].op = "fin" /\ stack[m].left = << >>
      /\ Top = stack[m] /\ finishing(m)
      /\ stack' \in Seq(Call \cup Sending) /\ Len(stack') = m - 1
      /\ \A c \in 1..(m - 1) : stack'[c] = stack[c]
  BY <1>1, StackFacts DEF Finish, finishing
<1>3. PICK i \in QIds : i = stack[m].q /\ query[i] = Finishing
  BY <1>1, <1>2, FrameFacts DEF Framed
<1>4. /\ query' = [query EXCEPT ![i] = None] /\ timers' = timers \ {i}
      /\ UNCHANGED <<ipv6, tree, res, asked, held>>
  BY <1>2, <1>3 DEF Finish, query_free
<1>5. /\ \A k \in QIds : query'[k] = IF k = i THEN None ELSE query[k]
      /\ ~ pending(i) /\ i \notin timers
  BY <1>3, <1>4, NotQueries DEF Types, Timed, pending
<1>6. /\ \A k \in QIds : pending(k)' <=> pending(k)
      /\ \A v, k : k \in QIds => (on(v, k)' <=> on(v, k)) /\ (found(v, k)' <=> found(v, k))
      /\ \A k \in QIds : pending(k) => query'[k] = query[k]
  BY <1>5, NotQueries DEF pending, on, found
<1>7. /\ \A c \in 1..Len(stack') : c \in 1..Len(stack) /\ c # m /\ stack'[c] = stack[c]
      /\ \A c \in 1..Len(stack) : c = m \/ c \in 1..Len(stack')
  BY <1>1, <1>2
<1>8. \A c : finishing(c)' <=> finishing(c) /\ c # m
  BY <1>1, <1>7 DEF finishing
<1>9. \A c : finishing(c) /\ c # m => stack'[c] = stack[c] /\ c \in 1..Len(stack) /\ c \in 1..Len(stack')
  BY <1>7 DEF finishing
<1>10. \A v : ~ due(v, m) /\ ~ gives(m, v)
  BY <1>2 DEF due, gives
<1>11. /\ \A v, c : due(v, c)' <=> due(v, c)
       /\ \A c, j : gives(c, j)' <=> gives(c, j)
       /\ \A c, j : gives(c, j) => c \in 1..Len(stack) /\ c \in 1..Len(stack') /\ stack'[c].left = stack[c].left
       /\ \A v, c : due(v, c) => c \in 1..Len(stack')
  BY <1>8, <1>9, <1>10 DEF due, gives
<1>12. \A k : ~ sends(k) /\ ~ sends(k)'
  <2>1. \A c \in 1..Len(stack) : stack[c].op # "send"
    BY <1>1, <1>2 DEF Framed
  <2> QED
    BY <1>7, <2>1 DEF sends
<1>13. Types'
  BY <1>2, <1>4 DEF Types
<1>14. Filed' /\ Timed'
  <2>1. \A k \in Keys : tree[k] # None => tree[k] \in QIds
    BY DEF Types
  <2>2. Filed'
    BY <1>4, <1>6, <2>1 DEF Filed, pending
  <2> QED
    BY <1>4, <1>5, <1>6, <1>12, <2>2 DEF Timed
<1>15. Framed' /\ Successful'
  <2>1. \A c \in 1..Len(stack') : stack[c].q \in QIds /\ stack[c].q # i /\ stack[c].op # "send"
    BY <1>1, <1>2, <1>3, <1>7, FrameFacts DEF Framed
  <2> QED
    BY <1>5, <1>7, <1>8, <2>1 DEF Framed, Successful
<1>16. Waiting'
  <2>1. \A k \in QIds : pending(k)' => once(query'[k].users)
    BY <1>6 DEF Waiting
  <2>2. \A c \in 1..Len(stack') : finishing(c)' => once(stack'[c].left)
    BY <1>7, <1>8 DEF Waiting
  <2>3. \A v \in Users, k \in QIds : on(v, k)' => asked'[v] = query'[k].name
    BY <1>4, <1>6 DEF Waiting, on
  <2>4. \A v \in Users, c \in 1..Len(stack') : due(v, c)' =>
            /\ asked'[v] # None
            /\ \A k \in QIds : ~ on(v, k)'
            /\ \A d \in 1..Len(stack') : due(v, d)' => d = c
    BY <1>4, <1>6, <1>7, <1>11 DEF Waiting
  <2>5. \A v \in Users : asked'[v] # None =>
            /\ held'[v] = {}
            /\ (\E k \in QIds : on(v, k)') \/ (\E c \in 1..Len(stack') : due(v, c)')
    BY <1>4, <1>6, <1>11 DEF Waiting
  <2> QED
    BY <2>1, <2>2, <2>3, <2>4, <2>5 DEF Waiting, once
<1>17. Owned' /\ Counted'
  <2>1. /\ \A k \in QIds, j \in RIds : found(j, k)' => found(j, k) /\ query'[k].name = query[k].name
        /\ \A c, j : gives(c, j)' => gives(c, j) /\ c \in 1..Len(stack)
        /\ \A v, c : due(v, c)' => due(v, c) /\ asked'[v] = asked[v]
    BY <1>4, <1>6, <1>11 DEF found
  <2> QED
    BY <1>4, <1>11, <2>1, OwnedKept, CountedKept
<1> QED
  BY <1>13, <1>14, <1>15, <1>16, <1>17

\* A server that is not read from any more changes nothing for the queries.
LEMMA ReadErrorStep ==
    ASSUME Constants, DnsInv, UNCHANGED <<ipv6, tree, query, res, timers, stack, asked, held>>
    PROVE  DnsInv'
<1> USE DEF DnsInv
<1>1. /\ \A k : /\ pending(k)' <=> pending(k)
                /\ sends(k)' <=> sends(k)
      /\ \A v, k : (on(v, k)' <=> on(v, k)) /\ (found(v, k)' <=> found(v, k))
      /\ \A c : finishing(c)' <=> finishing(c)
      /\ \A v, c : (due(v, c)' <=> due(v, c)) /\ (gives(c, v)' <=> gives(c, v))
      /\ sameQueries /\ sameCalls
  <2>1. /\ \A k : /\ pending(k)' <=> pending(k)
                  /\ sends(k)' <=> sends(k)
        /\ \A v, k : (on(v, k)' <=> on(v, k)) /\ (found(v, k)' <=> found(v, k))
    BY DEF pending, sends, on, found
  <2>2. /\ \A c : finishing(c)' <=> finishing(c)
        /\ \A v, c : (due(v, c)' <=> due(v, c)) /\ (gives(c, v)' <=> gives(c, v))
    BY DEF finishing, due, gives
  <2>3. sameQueries
    BY <2>1 DEF sameQueries
  <2>4. sameCalls
    BY DEF sameCalls
  <2> QED
    BY <2>1, <2>2, <2>3, <2>4
<1>2. Types'
  BY DEF Types
<1>3. Filed' /\ Framed' /\ Timed' /\ Waiting' /\ Successful'
  <2>1. Filed' /\ Framed' /\ Successful'
    BY <1>1, FiledKept, FramedKept, SuccessfulKept
  <2>2. Timed'
    BY <1>1, TimedKept
  <2>3. Waiting'
    BY <1>1, WaitingKept
  <2> QED
    BY <2>1, <2>2, <2>3
<1>4. Owned' /\ Counted'
  <2>1. /\ \A k \in QIds, j \in RIds : found(j, k)' => found(j, k) /\ query'[k].name = query[k].name
        /\ \A c, j : gives(c, j)' => gives(c, j) /\ c \in 1..Len(stack)
        /\ \A v, c : due(v, c)' => due(v, c) /\ asked'[v] = asked[v]
        /\ \A c, j : gives(c, j) => c \in 1..Len(stack) /\ c \in 1..Len(stack') /\ stack'[c].left = stack[c].left
    BY <1>1 DEF gives, finishing
  <2> QED
    BY <1>1, <2>1, OwnedKept, CountedKept
<1> QED
  BY <1>2, <1>3, <1>4

\* Whoever waits is not called, what was given stays with its users.
LEMMA CloseStep ==
    ASSUME Constants, DnsInv, Close
    PROVE  DnsInv'
<1> USE DEF DnsInv
<1>1. /\ tree' = [k \in Keys |-> None] /\ query' = [i \in QIds |-> None] /\ timers' = {}
      /\ asked' = [u \in Users |-> None] /\ stack = << >> /\ stack' = << >>
      /\ UNCHANGED <<ipv6, res, held>> /\ Len(stack) = 0 /\ Len(stack') = 0
  BY DEF Close, Idle
<1>2. /\ \A i \in QIds : ~ pending(i)' /\ \A v : ~ on(v, i)' /\ ~ found(v, i)'
      /\ \A c, v : ~ due(v, c)' /\ ~ gives(c, v)' /\ ~ finishing(c)' /\ ~ gives(c, v)
      /\ \A j : holders(j)' = holders(j)
  BY <1>1, NotQueries DEF pending, on, found, due, gives, finishing, holders
<1>3. Types'
  BY <1>1 DEF Types
<1>4. Filed' /\ Framed' /\ Timed' /\ Successful'
  <2>1. \A k \in Keys : tree'[k] = None
    BY <1>1
  <2>2. Filed'
    BY <1>2, <2>1 DEF Filed
  <2>3. Framed'
    BY <1>1 DEF Framed
  <2> QED
    BY <1>1, <1>2, <2>2, <2>3 DEF Timed, Successful
<1>5. Waiting'
  BY <1>1, <1>2 DEF Waiting
<1>6. Owned' /\ Counted'
  BY <1>1, <1>2 DEF Owned, Counted
<1> QED
  BY <1>3, <1>4, <1>5, <1>6

\* A user gives back what it was given; the last one frees it.
LEMMA UnrefStep ==
    ASSUME Constants, DnsInv, NEW u \in Users, NEW x \in held[u], Unref(u, x)
    PROVE  DnsInv'
<1> USE DEF DnsInv
<1>1. /\ UNCHANGED <<ipv6, tree, query, timers, stack, asked>>
      /\ held' = [held EXCEPT ![u] = @ \ {x}]
  BY DEF Unref
<1>2. PICK j \in RIds : j = x.r /\ res[j] # None /\ res[j] \in Result /\ res[j].name = x.for /\ u \in holders(j)
  BY DEF Types, Holding, Owned, holders
<1>3. /\ \A v \in Users : held'[v] = IF v = u THEN held[u] \ {x} ELSE held[v]
      /\ held' \in [Users -> SUBSET Holding]
  BY <1>1 DEF Types
<1>4. \A y \in held[u] : y.r = j => y = x
  <2>1. \A y \in held[u] : y \in Holding /\ y.for = res[y.r].name
    BY DEF Types, Owned
  <2>2. \A y, z \in Holding : y.r = z.r /\ y.for = z.for => y = z
    BY DEF Holding
  <2> QED
    BY <1>2, <2>1, <2>2
<1>5. /\ holders(j)' = holders(j) \ {u}
      /\ \A y : y # j => holders(y)' = holders(y)
  BY <1>2, <1>3, <1>4 DEF holders
<1>6. /\ IsFiniteSet(holders(j)) /\ Cardinality(holders(j)) \in Nat /\ Cardinality(holders(j)) # 0
      /\ Cardinality(holders(j)') = Cardinality(holders(j)) - 1
      /\ Cardinality(holders(j)) = 1 => holders(j)' = {}
  <2>1. holders(j) \subseteq Users /\ IsFiniteSet(Users)
    BY DEF holders, Constants, UserAssumption
  <2>2. IsFiniteSet(holders(j)) /\ Cardinality(holders(j)) \in Nat /\ IsFiniteSet(holders(j) \ {u})
    BY <2>1, FS_Subset, FS_CardinalityType
  <2>3. Cardinality(holders(j) \ {u}) = Cardinality(holders(j)) - 1
    BY <1>2, <2>2, FS_RemoveElement
  <2>4. Cardinality(holders(j)) # 0
    BY <1>2, <2>2, FS_EmptySet
  <2>5. Cardinality(holders(j)) = 1 => holders(j) \ {u} = {}
    BY <2>2, <2>3, FS_EmptySet
  <2> QED
    BY <1>5, <2>2, <2>3, <2>4, <2>5
<1>7. /\ \A k : /\ pending(k)' <=> pending(k)
                /\ sends(k)' <=> sends(k)
      /\ \A v, k : (on(v, k)' <=> on(v, k)) /\ (found(v, k)' <=> found(v, k))
      /\ \A c : finishing(c)' <=> finishing(c)
      /\ \A v, c : (due(v, c)' <=> due(v, c)) /\ (gives(c, v)' <=> gives(c, v))
      /\ sameQueries /\ sameCalls
  BY <1>1 DEF pending, sends, on, found, finishing, due, gives, sameQueries, sameCalls
<1>8. Filed' /\ Framed' /\ Timed' /\ Successful'
  BY <1>1, <1>7, FiledKept, FramedKept, TimedKept, SuccessfulKept
<1>9. Waiting'
  BY <1>1, <1>3, <1>7 DEF Waiting, once
<1>10. /\ \A c \in 1..Len(stack) : gives(c, j) => stack[c].left # << >> /\ Len(stack[c].left) \in Nat \ {0}
       /\ Len(stack') = Len(stack)
  <2>1. ASSUME NEW c \in 1..Len(stack), gives(c, j) PROVE stack[c].left # << >> /\ Len(stack[c].left) \in Nat \ {0}
    <3>1. stack[c] \in Call /\ stack[c].left # << >>
      BY <2>1, FrameFacts DEF gives, finishing
    <3>2. stack[c].left \in Seq(Users)
      BY <3>1 DEF Call
    <3> QED
      BY <3>1, <3>2, EmptySeq
  <2> QED
    BY <1>1, <2>1
<1>11. CASE res[j].usage \in {0, None}
  <2>1. res' = res
    BY <1>2, <1>11 DEF Unref
  <2>2. res[j].usage = None
    <3>1. SUFFICES ASSUME res[j].usage = 0 PROVE FALSE
      BY <1>11
    <3>2. 0 # None
      BY DEF Constants, NoneAssumption
    <3>3. PICK h \in Nat : h = Cardinality(holders(j)) /\ h # 0
      BY <1>6
    <3>4. CASE \E c \in 1..Len(stack) : gives(c, j)
      <4>1. PICK c \in 1..Len(stack) : gives(c, j)
        BY <3>4
      <4>2. PICK n \in Nat : n = Len(stack[c].left)
        BY <1>10, <4>1
      <4>3. 0 = h + n
        BY <1>2, <3>1, <3>2, <3>3, <4>1, <4>2 DEF Counted
      <4> QED
        BY <3>3, <4>3
    <3>5. CASE \A c \in 1..Len(stack) : ~ gives(c, j)
      BY <1>2, <3>1, <3>2, <3>3, <3>5 DEF Counted
    <3> QED
      BY <3>4, <3>5
  <2>3. Types'
    BY <1>1, <1>3, <2>1 DEF Types
  <2>4. Owned'
    <3>1. \A k \in QIds, y \in RIds : found(y, k) => y # j
      BY <1>2, FoundAreOwn
    <3>2. \A v \in Users : \A y \in held'[v] : y \in held[v]
      BY <1>3
    <3> QED
      BY <1>1, <1>5, <1>7, <2>1, <3>1, <3>2 DEF Owned
  <2>5. Counted'
    <3>1. ASSUME NEW y \in RIds, res'[y] # None, res'[y].usage # None PROVE y # j /\ holders(y)' = holders(y)
      BY <1>5, <2>1, <2>2, <3>1
    <3> QED
      BY <1>1, <1>7, <2>1, <3>1 DEF Counted
  <2> QED
    BY <1>8, <1>9, <2>3, <2>4, <2>5
<1>12. CASE res[j].usage \notin {0, None}
  <2> DEFINE new == IF res[j].usage = 1 THEN None ELSE [res[j] EXCEPT !.usage = @ - 1]
  <2>1. res' = [res EXCEPT ![j] = new]
    <3>1. res' = IF res[j].usage = 1 THEN [res EXCEPT ![j] = None] ELSE [res EXCEPT ![j].usage = @ - 1]
      BY <1>2, <1>12 DEF Unref
    <3> QED
      BY <1>2, <3>1 DEF Types
  <2>2. PICK h \in Nat, n \in Nat : /\ h = Cardinality(holders(j)) /\ h # 0 /\ res[j].usage = h + n
                                    /\ \A c \in 1..Len(stack) : gives(c, j) => n = Len(stack[c].left) /\ n # 0
                                    /\ (\A c \in 1..Len(stack) : ~ gives(c, j)) => n = 0
    <3>1. PICK h \in Nat : h = Cardinality(holders(j)) /\ h # 0
      BY <1>6
    <3>2. res[j].usage # None
      BY <1>12
    <3>3. CASE \E c \in 1..Len(stack) : gives(c, j)
      <4>1. PICK c \in 1..Len(stack) : gives(c, j)
        BY <3>3
      <4>2. PICK n \in Nat : n = Len(stack[c].left) /\ n # 0
        BY <1>10, <4>1
      <4>3. \A d \in 1..Len(stack) : gives(d, j) => d = c
        BY <4>1 DEF Owned
      <4>4. res[j].usage = h + n
        BY <1>2, <3>1, <3>2, <4>1, <4>2 DEF Counted
      <4> QED
        BY <3>1, <4>1, <4>2, <4>3, <4>4
    <3>4. CASE \A c \in 1..Len(stack) : ~ gives(c, j)
      <4>1. res[j].usage = h + 0
        BY <1>2, <3>1, <3>2, <3>4 DEF Counted
      <4> QED
        BY <3>1, <3>4, <4>1
    <3> QED
      BY <3>3, <3>4
  <2>3. res[j].usage = 1 => h = 1 /\ n = 0
    BY <2>2
  <2>4. res[j].usage # 1 => /\ new \in Result /\ new.name = res[j].name /\ new.usage = h + n - 1 /\ new # None
    <3>1. h + n - 1 \in Nat /\ res[j].usage = h + n
      BY <2>2
    <3>2. [res[j] EXCEPT !.usage = h + n - 1] \in Result /\ [res[j] EXCEPT !.usage = h + n - 1].name = res[j].name
          /\ [res[j] EXCEPT !.usage = h + n - 1].usage = h + n - 1
      BY <1>2, <3>1 DEF Result
    <3>3. res[j].usage # 1 => new = [res[j] EXCEPT !.usage = h + n - 1]
      BY <1>2, <3>1 DEF Result
    <3> QED
      BY <3>2, <3>3 DEF Constants, NoneAssumption
  <2>5. \A y \in RIds : res'[y] = IF y = j THEN new ELSE res[y]
    BY <2>1 DEF Types
  <2>6. res[j].usage = 1 => new = None
    OBVIOUS
  <2> HIDE DEF new
  <2>7. res' \in [RIds -> Result \cup {None}]
    BY <2>1, <2>4, <2>6 DEF Types
  <2>8. Types'
    BY <1>1, <1>3, <2>7 DEF Types
  <2>9. \A y \in RIds, k \in QIds : found(y, k) => y # j
    BY <1>2, FoundAreOwn
  <2>10. \A v \in Users : \A y \in held'[v] : y \in held[v] /\ y.r \in RIds /\ (y.r = j => res[j].usage # 1)
    <3>1. ASSUME NEW v \in Users, NEW y \in held'[v], y.r = j PROVE res[j].usage # 1
      <4>1. v \in holders(j)'
        BY <3>1 DEF holders
      <4> QED
        BY <1>6, <2>2, <2>3, <4>1
    <3> QED
      BY <1>3, <3>1 DEF Types, Holding
  <2>11. Owned'
    <3>1. ASSUME NEW k \in QIds, NEW y \in RIds, found(y, k)'
          PROVE  /\ res'[y] # None /\ res'[y].usage = None /\ res'[y].name = query'[k].name
                 /\ holders(y)' = {}
                 /\ \A c \in 1..Len(stack') : ~ gives(c, y)'
      BY <1>1, <1>5, <1>7, <2>5, <2>9, <3>1 DEF Owned
    <3>2. ASSUME NEW c \in 1..Len(stack'), NEW y \in RIds, gives(c, y)'
          PROVE  /\ res'[y] # None
                 /\ \A v \in Users : due(v, c)' => res'[y].name = asked'[v]
                 /\ \A d \in 1..Len(stack') : gives(d, y)' => d = c
      <4>1. gives(c, y) /\ c \in 1..Len(stack)
        BY <1>7, <1>10, <3>2
      <4>2. y = j => res[j].usage # 1
        BY <2>2, <2>3, <4>1
      <4>3. res'[y] # None /\ res'[y].name = res[y].name
        BY <2>4, <2>5, <4>1, <4>2 DEF Owned
      <4> QED
        BY <1>1, <1>7, <1>10, <4>1, <4>3 DEF Owned
    <3>3. ASSUME NEW v \in Users, NEW y \in held'[v] PROVE res'[y.r] # None /\ res'[y.r].name = y.for
      BY <2>4, <2>5, <2>10, <3>3 DEF Owned
    <3> QED
      BY <3>1, <3>2, <3>3 DEF Owned
  <2>12. Counted'
    <3>1. ASSUME NEW y \in RIds, res'[y] # None, res'[y].usage # None
          PROVE  /\ \A c \in 1..Len(stack') : gives(c, y)' =>
                       res'[y].usage = Cardinality(holders(y)') + Len(stack'[c].left)
                 /\ (\A c \in 1..Len(stack') : ~ gives(c, y)') => res'[y].usage = Cardinality(holders(y)')
      <4>1. CASE y = j
        <5>1. res'[j].usage = h + n - 1
          BY <2>4, <2>5, <2>6, <3>1, <4>1
        <5>2. Cardinality(holders(j)') = h - 1
          BY <1>6, <2>2
        <5>3. h + n - 1 = (h - 1) + n /\ (n = 0 => h + n - 1 = h - 1)
          OBVIOUS
        <5> QED
          BY <1>1, <1>7, <1>10, <2>2, <4>1, <5>1, <5>2, <5>3
      <4>2. CASE y # j
        BY <1>1, <1>5, <1>7, <1>10, <2>5, <3>1, <4>2 DEF Counted
      <4> QED
        BY <4>1, <4>2
    <3> QED
      BY <3>1 DEF Counted
  <2> QED
    BY <1>8, <1>9, <2>8, <2>11, <2>12
<1> QED
  BY <1>11, <1>12
-----------------------------------------------------------------------------
(* Cancelling *)

has(s, e) == \E d \in 1..Len(s) : s[d] = e
removed(t, s, e) == once(t) /\ \A v : has(t, v) <=> has(s, v) /\ v # e

\* ffarr_rmswap() removes one.
LEMMA RemovesOne ==
    ASSUME NEW S, NEW s \in Seq(S), NEW e \in S, once(s), has(s, e)
    PROVE  rmswap(s, e) \in Seq(S) /\ removed(rmswap(s, e), s, e)
<1>1. PICK n \in Nat : n = Len(s)
  OBVIOUS
<1>2. PICK p \in 1..n : s[p] = e
  BY <1>1 DEF has
<1>3. PICK f : f = [d \in DOMAIN s |-> IF s[d] = e THEN s[n] ELSE s[d]]
  OBVIOUS
<1>4. /\ DOMAIN s = 1..n /\ n \in 1..n /\ n # 0 /\ \A d \in 1..n : s[d] \in S
      /\ Last(s) = s[n]
  BY <1>1, <1>2 DEF Last
<1>5. f \in Seq(S) /\ Len(f) = n /\ f # << >> /\ \A d \in 1..n : f[d] = IF s[d] = e THEN s[n] ELSE s[d]
  <2>1. f \in [1..n -> S]
    BY <1>3, <1>4
  <2>2. f \in Seq(S) /\ Len(f) = n
    BY <2>1
  <2> QED
    BY <1>3, <1>4, <2>2
<1>6. PICK t : t = rmswap(s, e)
  OBVIOUS
<1>7. t = Front(f)
  BY <1>3, <1>4, <1>6 DEF rmswap
<1>8. /\ t \in Seq(S) /\ Len(t) = n - 1
      /\ \A d \in 1..(n - 1) : t[d] = f[d]
  BY <1>5, <1>7, FrontIs
<1>9. /\ \A d \in 1..(n - 1) : d \in 1..n /\ d # n
      /\ \A d \in 1..n : d # n => d \in 1..(n - 1)
  OBVIOUS
<1>10. \A a, b \in 1..n : s[a] = s[b] => a = b
  BY <1>1 DEF once
<1>11. ASSUME NEW d \in 1..(n - 1) PROVE t[d] = (IF d = p THEN s[n] ELSE s[d]) /\ t[d] # e
  <2>1. d \in 1..n /\ d # n /\ (s[d] = e <=> d = p)
    BY <1>2, <1>9, <1>10
  <2>2. t[d] = IF d = p THEN s[n] ELSE s[d]
    BY <1>5, <1>8, <2>1
  <2>3. d = p => s[n] # e
    BY <1>2, <1>4, <1>10, <2>1
  <2> QED
    BY <2>1, <2>2, <2>3
<1>12. once(t)
  <2>1. ASSUME NEW a \in 1..(n - 1), NEW b \in 1..(n - 1), t[a] = t[b] PROVE a = b
    BY <1>4, <1>9, <1>10, <1>11, <2>1
  <2> QED
    BY <1>8, <2>1 DEF once
<1>13. ASSUME NEW v PROVE (\E d \in 1..Len(t) : t[d] = v) <=> (\E d \in 1..Len(s) : s[d] = v) /\ v # e
  <2>1. ASSUME NEW d \in 1..(n - 1), t[d] = v PROVE (\E a \in 1..n : s[a] = v) /\ v # e
    BY <1>4, <1>9, <1>11, <2>1
  <2>2. ASSUME NEW d \in 1..n, s[d] = v, v # e PROVE \E a \in 1..(n - 1) : t[a] = v
    <3>1. CASE d # n
      BY <1>2, <1>9, <1>11, <2>2, <3>1
    <3>2. CASE d = n
      <4>1. p \in 1..(n - 1)
        BY <1>2, <1>9, <2>2, <3>2
      <4> QED
        BY <1>11, <2>2, <3>2, <4>1
    <3> QED
      BY <3>1, <3>2
  <2> QED
    BY <1>1, <1>8, <2>1, <2>2
<1> QED
  BY <1>6, <1>8, <1>12, <1>13 DEF removed, has

\* ffdnscl_cancel(): the user waits in its query no more, the others still do.
LEMMA CancelStep ==
    ASSUME Constants, DnsInv, NEW u \in Users, Cancel(u)
    PROVE  DnsInv'
<1> USE DEF DnsInv
<1>1. asked[u] \in Names /\ asked[u] # None
  BY DEF Cancel, Types
<1>2. PICK i \in QIds : i = tree[icrc[asked[u]]] /\ pending(i)
  BY <1>1, FiledUnder DEF Cancel
<1>3. PICK s \in Seq(Users) : s = query[i].users
  BY <1>2, QueryFields
<1>4. PICK t : t = rmswap(s, u)
  OBVIOUS
<1>5. /\ t \in Seq(Users) /\ once(t)
      /\ \A v : (\E d \in 1..Len(t) : t[d] = v) <=> (\E d \in 1..Len(s) : s[d] = v) /\ v # u
      /\ \E d \in 1..Len(s) : s[d] = u
  <2>1. once(s)
    BY <1>2, <1>3 DEF Waiting, once
  <2>2. \E d \in 1..Len(s) : s[d] = u
    BY <1>2, <1>3, ElementsOf DEF Cancel
  <2>3. has(s, u)
    BY <2>2 DEF has
  <2>4. rmswap(s, u) \in Seq(Users) /\ removed(rmswap(s, u), s, u)
    BY <2>1, <2>3, RemovesOne
  <2>5. t \in Seq(Users) /\ removed(t, s, u)
    BY <1>4, <2>4
  <2> QED
    BY <2>2, <2>5 DEF removed, has
<1> DEFINE q == [query[i] EXCEPT !.users = t]
<1>6. /\ query' = [query EXCEPT ![i] = q] /\ asked' = [asked EXCEPT ![u] = None]
      /\ UNCHANGED <<ipv6, tree, res, timers, stack, held>>
  <2>1. query[i] \in Query
    BY <1>2 DEF pending
  <2> QED
    BY <1>2, <1>3, <1>4, <2>1 DEF Cancel
<1>7. q \in Query /\ q.name = query[i].name /\ q.users = t /\ q.res = query[i].res
  BY <1>2, <1>5, WithUsers DEF pending
<1> HIDE DEF q
<1>8. /\ \A k \in QIds : query'[k] = IF k = i THEN q ELSE query[k]
      /\ query' \in [QIds -> Query \cup {Finishing, None}]
      /\ \A v \in Users : asked'[v] = IF v = u THEN None ELSE asked[v]
  BY <1>6, <1>7 DEF Types
<1>9. /\ \A k \in QIds : /\ pending(k)' <=> pending(k)
                         /\ query'[k].name = query[k].name /\ query'[k].res = query[k].res
                         /\ query[k] = Finishing => query'[k] = Finishing
      /\ \A v, k : k \in QIds => (found(v, k)' <=> found(v, k))
  <2>1. \A k \in QIds : /\ pending(k)' <=> pending(k)
                        /\ query'[k].name = query[k].name /\ query'[k].res = query[k].res
                        /\ query[k] = Finishing => query'[k] = Finishing
    BY <1>2, <1>7, <1>8, NotQueries DEF pending
  <2> QED
    BY <2>1 DEF found
<1>10. on(u, i) /\ \A v, k : k \in QIds => (on(v, k)' <=> on(v, k) /\ ~ (v = u /\ k = i))
  <2>1. \A v : on(v, i)' <=> on(v, i) /\ v # u
    <3>1. query'[i].users = t /\ query[i].users = s /\ pending(i) /\ pending(i)'
      BY <1>2, <1>3, <1>7, <1>8, <1>9
    <3> QED
      BY <1>5, <3>1 DEF on
  <2>2. \A v, k : k \in QIds /\ k # i => (on(v, k)' <=> on(v, k))
    BY <1>8, <1>9 DEF on
  <2>3. on(u, i)
    BY <1>2, <1>3, <1>5 DEF on
  <2> QED
    BY <2>1, <2>2, <2>3
<1>11. /\ \A k \in QIds : on(u, k) => k = i
       /\ \A c : ~ due(u, c)
  <2>1. ASSUME NEW k \in QIds, on(u, k) PROVE k = i
    BY <1>2, <2>1 DEF Waiting, Filed, on
  <2> QED
    BY <1>10, <2>1 DEF Waiting, due, finishing
<1>12. /\ sameQueries /\ sameCalls
       /\ \A c : finishing(c)' <=> finishing(c)
       /\ \A v, c : (due(v, c)' <=> due(v, c)) /\ (gives(c, v)' <=> gives(c, v))
       /\ \A k : sends(k)' <=> sends(k)
  BY <1>6, <1>9 DEF sameQueries, sameCalls, finishing, due, gives, sends
<1>13. Types'
  <2>1. asked' \in [Users -> Names \cup {None}]
    BY <1>6 DEF Types
  <2> QED
    BY <1>6, <1>8, <2>1 DEF Types
<1>14. Filed' /\ Framed' /\ Timed' /\ Successful'
  BY <1>6, <1>12, FiledKept, FramedKept, TimedKept, SuccessfulKept
<1>15. Waiting'
  <2>1. \A k \in QIds : pending(k)' => once(query'[k].users)
    BY <1>5, <1>7, <1>8, <1>9 DEF Waiting
  <2>2. \A c \in 1..Len(stack') : finishing(c)' => once(stack'[c].left)
    BY <1>6, <1>12 DEF Waiting
  <2>3. \A v \in Users, k \in QIds : on(v, k)' => asked'[v] = query'[k].name
    BY <1>8, <1>9, <1>10, <1>11 DEF Waiting
  <2>4. \A v \in Users, c \in 1..Len(stack') : due(v, c)' =>
            /\ asked'[v] # None
            /\ \A k \in QIds : ~ on(v, k)'
            /\ \A d \in 1..Len(stack') : due(v, d)' => d = c
    BY <1>6, <1>8, <1>10, <1>11, <1>12 DEF Waiting
  <2>5. \A v \in Users : asked'[v] # None =>
            /\ held'[v] = {}
            /\ (\E k \in QIds : on(v, k)') \/ (\E c \in 1..Len(stack') : due(v, c)')
    BY <1>6, <1>8, <1>10, <1>12 DEF Waiting
  <2> QED
    BY <2>1, <2>2, <2>3, <2>4, <2>5 DEF Waiting, once
<1>16. Owned' /\ Counted'
  <2>1. /\ \A k \in QIds, j \in RIds : found(j, k)' => found(j, k) /\ query'[k].name = query[k].name
        /\ \A c, j : gives(c, j)' => gives(c, j) /\ c \in 1..Len(stack)
        /\ \A c, j : gives(c, j) => c \in 1..Len(stack) /\ c \in 1..Len(stack') /\ stack'[c].left = stack[c].left
    BY <1>6, <1>9, <1>12 DEF gives, finishing
  <2>2. \A v, c : due(v, c)' => due(v, c) /\ asked'[v] = asked[v]
    BY <1>8, <1>11, <1>12, DueIsUser
  <2> QED
    BY <1>6, <1>12, <2>1, <2>2, OwnedKept, CountedKept
<1> QED
  BY <1>13, <1>14, <1>15, <1>16
-----------------------------------------------------------------------------
(* Every step *)

\* No question but for a name is on its way.
LEMMA FlyingStep ==
    ASSUME Constants, DnsInv, Flying, Next
    PROVE  Flying'
<1> USE DEF Flying
<1>1. CASE Send
  <2>1. stack # << >> /\ Top.op = "send"
    BY <1>1 DEF Send
  <2>2. query[Top.q].name \in Names
    <3>1. Top.q \in QIds /\ pending(Top.q)
      BY <2>1, SendingIs DEF DnsInv
    <3> QED
      BY <3>1, QueryFields DEF DnsInv
  <2>3. \A s : \A x \in questions(query[Top.q], s) : x.name = query[Top.q].name
    BY DEF questions
  <2> QED
    BY <1>1, <2>2, <2>3 DEF Send, Sent, Unreached, SendFailed
<1>2. CASE \E m \in flight : \E ok, again \in BOOLEAN : Receive(m, ok, again)
  BY <1>2 DEF Receive
<1>3. CASE Close
  BY <1>3 DEF Close
<1>4. CASE UNCHANGED flight
  BY <1>4
<1>5. Send \/ (\E m \in flight : \E ok, again \in BOOLEAN : Receive(m, ok, again)) \/ Close \/ UNCHANGED flight
  BY DEF Next, Resolve, Join, JoinFails, Collide, Dangling, Ask, Cancel, Unref, Loop, GiveUp, Notify, Finish,
         Net, ReceiveDangling, ReadError, Expire
<1> QED
  BY <1>1, <1>2, <1>3, <1>4, <1>5

\* ffdnscl_init().
LEMMA InitInv == Constants /\ Init => DnsInv /\ Flying
<1> SUFFICES ASSUME Constants, Init PROVE DnsInv /\ Flying
  OBVIOUS
<1>1. /\ \A i \in QIds : query[i] = None /\ ~ pending(i)
      /\ \A j \in RIds : res[j] = None
      /\ stack = << >> /\ Len(stack) = 0 /\ \A c : c \notin 1..Len(stack)
      /\ \A k \in Keys : tree[k] = None
      /\ \A u \in Users : asked[u] = None /\ held[u] = {}
  BY NotQueries DEF Init, pending
<1>2. /\ \A i \in QIds : ~ sends(i) /\ \A u : ~ on(u, i) /\ ~ found(u, i)
      /\ \A c, u : ~ gives(c, u) /\ ~ due(u, c) /\ ~ finishing(c)
  BY <1>1 DEF sends, on, found, gives, due, finishing
<1>3. Types
  <2>1. tree \in [Keys -> QIds \cup {None}] /\ query \in [QIds -> Query \cup {Finishing, None}]
    BY DEF Init
  <2>2. res \in [RIds -> Result \cup {None}] /\ timers \in SUBSET QIds /\ ipv6 \in BOOLEAN
    BY DEF Init
  <2>3. stack \in Seq(Call \cup Sending)
    BY <1>1
  <2>4. asked \in [Users -> Names \cup {None}] /\ held \in [Users -> SUBSET Holding]
    BY DEF Init
  <2> QED
    BY <2>1, <2>2, <2>3, <2>4 DEF Types
<1>4. Filed /\ Framed /\ Timed
  <2>1. timers = {}
    BY DEF Init
  <2> QED
    BY <1>1, <1>2, <2>1 DEF Filed, Framed, Timed
<1>5. Waiting
  BY <1>1, <1>2 DEF Waiting
<1>6. Owned /\ Counted /\ Successful
  BY <1>1, <1>2 DEF Owned, Counted, Successful
<1> QED
  BY <1>3, <1>4, <1>5, <1>6 DEF DnsInv, Flying, Init

\* Every step keeps the invariant.
LEMMA NextStep ==
    ASSUME Constants, DnsInv, Flying, [Next]_vars, NoneLost
    PROVE  DnsInv' /\ Flying'
<1>1. CASE UNCHANGED vars
  BY <1>1, ReadErrorStep DEF vars, Flying
<1>2. CASE Next
  <2>1. Flying'
    BY <1>2, FlyingStep
  <2>2. ASSUME NEW u \in Users, NEW n \in Wants[u], Resolve(u, n) PROVE DnsInv'
    <3>1. n \in Names
      BY <2>2 DEF Constants, WantsAssumption
    <3>2. ~ Dangling(u, n)
      BY <3>1, FiledUnder, NotQueries DEF Dangling, Deref, pending
    <3>3. ~ Collide(u, n) /\ ~ JoinFails(u, n)
      BY <3>1 DEF NoneLost
    <3> QED
      BY <2>2, <3>1, <3>2, <3>3, JoinStep, AskStep DEF Resolve
  <2>3. ASSUME NEW u \in Users, Cancel(u) \/ \E x \in held[u] : Unref(u, x) PROVE DnsInv'
    BY <2>3, CancelStep, UnrefStep
  <2>4. CASE Loop
    BY <2>1, <2>4, SendStep, GiveUpStep, NotifyStep, FinishCallStep DEF Loop
  <2>5. ASSUME NEW x \in flight, ReceiveDangling(x) PROVE FALSE
    <3>1. crc[x.name] \in Keys
      BY DEF Flying, Keys
    <3>2. tree[crc[x.name]] # None /\ ~ Deref(tree[crc[x.name]])
      BY <2>5 DEF ReceiveDangling
    <3> QED
      BY <3>1, <3>2, NotQueries DEF DnsInv, Types, Filed, pending, Deref
  <2>6. CASE Net
    <3>1. CASE \E s \in Servers : ReadError(s)
      BY <2>1, <3>1, ReadErrorStep DEF ReadError
    <3> QED
      BY <2>1, <2>5, <2>6, <3>1, ReceiveStep DEF Net
  <2>7. CASE Close
    BY <2>1, <2>7, CloseStep
  <2>8. CASE \E i \in QIds : Expire(i)
    BY <2>1, <2>8, ExpireStep
  <2> QED
    BY <1>2, <2>1, <2>2, <2>3, <2>4, <2>6, <2>7, <2>8 DEF Next
<1> QED
  BY <1>1, <1>2
-----------------------------------------------------------------------------
(* Counting *)

LEMMA OneOrNone ==
    ASSUME NEW S, \A x, y \in S : x = y
    PROVE  Cardinality(S) = IF S = {} THEN 0 ELSE 1
<1>1. CASE S = {}
  BY <1>1, FS_EmptySet
<1>2. CASE S # {}
  <2>1. PICK x \in S : S = {x}
    BY <1>2
  <2> QED
    BY <1>2, <2>1, FS_Singleton
<1> QED
  BY <1>1, <1>2

\* A list without repetition is no longer than its set.
LEMMA NotLonger ==
    ASSUME NEW S, IsFiniteSet(S), NEW s \in Seq(S), once(s)
    PROVE  Cardinality(S) \in Nat /\ Len(s) \in 0..Cardinality(S)
<1>1. Cardinality(S) \in Nat /\ Len(s) \in Nat
  BY FS_CardinalityType
<1>2. IsFiniteSet(1..Len(s)) /\ Cardinality(1..Len(s)) = Len(s)
  <2>1. PICK n \in Nat : n = Len(s)
    BY <1>1
  <2>2. IsFiniteSet(1..n) /\ Cardinality(1..n) = IF 1 > n THEN 0 ELSE n - 1 + 1
    BY FS_Interval
  <2> QED
    BY <2>1, <2>2
<1>3. s \in [1..Len(s) -> S]
  OBVIOUS
<1>4. ~ (Cardinality(S) < Len(s))
  <2>1. SUFFICES ASSUME Cardinality(S) < Len(s) PROVE FALSE
    OBVIOUS
  <2>2. \E a, b \in 1..Len(s) : a # b /\ s[a] = s[b]
    BY <1>2, <1>3, <2>1, FS_PigeonHole
  <2> QED
    BY <2>2 DEF once
<1> QED
  BY <1>1, <1>4

\* Positions 1..n, each with the same mark.
LEMMA MarkedPositions ==
    ASSUME NEW c, NEW n \in Nat
    PROVE  Cardinality({c} \X (1..n)) = n
<1>1. IsFiniteSet({c}) /\ Cardinality({c}) = 1
  BY FS_Singleton
<1>2. IsFiniteSet(1..n) /\ Cardinality(1..n) = n
  <2>1. IsFiniteSet(1..n) /\ Cardinality(1..n) = IF 1 > n THEN 0 ELSE n - 1 + 1
    BY FS_Interval
  <2> QED
    BY <2>1
<1>3. Cardinality({c} \X (1..n)) = Cardinality({c}) * Cardinality(1..n)
  BY <1>1, <1>2, FS_Product
<1> QED
  BY <1>1, <1>2, <1>3
-----------------------------------------------------------------------------
(* The theorems *)

\* The inductive invariant.
THEOREM DnsInvariant == ASSUME Constants PROVE Unharmed => [](DnsInv /\ Flying)
<1>1. Init => DnsInv /\ Flying
  BY InitInv
<1>2. (DnsInv /\ Flying) /\ [Next]_vars /\ [NoneLost]_vars => (DnsInv /\ Flying)'
  <2>1. CASE UNCHANGED vars
    BY <2>1, ReadErrorStep DEF vars, Flying
  <2>2. CASE NoneLost
    BY <2>2, NextStep
  <2> QED
    BY <2>1, <2>2
<1> QED
  BY <1>1, <1>2, PTL DEF Unharmed, Spec

\* Places of a user on the lists of the pending queries, and of the calls.
placesOf(u) == {x \in ({tree[k] : k \in Keys} \ {None}) \X (1..Cardinality(Users)) :
                   x[2] \in DOMAIN query[x[1]].users /\ query[x[1]].users[x[2]] = u}
callsOf(u) == {x \in Calls \X (1..Cardinality(Users)) :
                  x[2] \in DOMAIN stack[x[1]].left /\ stack[x[1]].left[x[2]] = u}

\* A user waits in one place of one query.
LEMMA PlacesOf ==
    ASSUME Constants, DnsInv, NEW u \in Users
    PROVE  /\ \A x \in placesOf(u) : x[1] \in QIds /\ on(u, x[1])
           /\ \A x, y \in placesOf(u) : x = y
           /\ (\E i \in QIds : on(u, i)) => placesOf(u) # {}
<1> USE DEF DnsInv
<1>1. ASSUME NEW x \in placesOf(u)
      PROVE  /\ x[1] \in QIds /\ pending(x[1]) /\ x = <<x[1], x[2]>>
             /\ x[2] \in 1..Len(query[x[1]].users) /\ query[x[1]].users[x[2]] = u
  <2>1. PICK k \in Keys : x[1] = tree[k] /\ tree[k] # None
    BY DEF placesOf
  <2>2. x[1] \in QIds /\ pending(x[1])
    BY <2>1 DEF Types, Filed
  <2>3. query[x[1]].users \in Seq(Users)
    BY <2>2, QueryFields
  <2> QED
    BY <2>2, <2>3 DEF placesOf
<1>2. \A x \in placesOf(u) : x[1] \in QIds /\ on(u, x[1])
  BY <1>1 DEF on
<1>3. ASSUME NEW x \in placesOf(u), NEW y \in placesOf(u) PROVE x = y
  <2>1. x[1] = y[1]
    BY <1>1, <1>2 DEF Waiting, Filed
  <2>2. x[2] = y[2]
    BY <1>1, <2>1 DEF Waiting, once
  <2> QED
    BY <1>1, <2>1, <2>2
<1>4. ASSUME NEW i \in QIds, on(u, i) PROVE placesOf(u) # {}
  <2>1. query[i].name \in Names /\ query[i].users \in Seq(Users) /\ pending(i) /\ once(query[i].users)
    BY <1>4, QueryFields DEF on, Waiting
  <2>2. icrc[query[i].name] \in Keys /\ tree[icrc[query[i].name]] = i /\ i # None
    BY <2>1 DEF Keys, Filed, Constants, NoneAssumption
  <2>3. PICK s \in Seq(Users) : s = query[i].users
    BY <2>1
  <2>4. PICK d \in 1..Len(s) : s[d] = u
    BY <1>4, <2>3 DEF on
  <2>5. Len(s) \in 0..Cardinality(Users) /\ Cardinality(Users) \in Nat
    BY <2>1, <2>3, NotLonger DEF Constants, UserAssumption
  <2>6. d \in 1..Cardinality(Users)
    BY <2>5
  <2>7. <<i, d>> \in placesOf(u)
    BY <2>2, <2>3, <2>4, <2>6 DEF placesOf
  <2> QED
    BY <2>7
<1> QED
  BY <1>2, <1>3, <1>4

\* The calls that finish are the ones the model counts.
LEMMA CallsAre ==
    ASSUME Types
    PROVE  /\ \A c : c \in Calls <=> finishing(c)
           /\ \A c \in Calls : c \in 1..Len(stack) /\ stack[c] \in Call /\ stack[c].left \in Seq(Users)
                               /\ stack[c].ai \in Seq(RIds)
<1>1. DOMAIN stack = 1..Len(stack)
  BY DEF Types
<1>2. \A c : c \in Calls <=> finishing(c)
  BY <1>1 DEF Calls, finishing
<1>3. ASSUME NEW c \in Calls PROVE c \in 1..Len(stack) /\ stack[c] \in Call
  BY <1>2, FrameFacts DEF finishing
<1> QED
  BY <1>2, <1>3 DEF Call

\* A user is to be called by one call, once.
LEMMA CallsOf ==
    ASSUME Constants, DnsInv, NEW u \in Users
    PROVE  /\ \A x \in callsOf(u) : due(u, x[1])
           /\ \A x, y \in callsOf(u) : x = y
           /\ (\E c : due(u, c)) => callsOf(u) # {}
<1> USE DEF DnsInv
<1>1. ASSUME NEW x \in callsOf(u)
      PROVE  /\ x[1] \in 1..Len(stack) /\ finishing(x[1]) /\ x = <<x[1], x[2]>>
             /\ x[2] \in 1..Len(stack[x[1]].left) /\ stack[x[1]].left[x[2]] = u
  <2>1. x[1] \in Calls /\ x[2] \in DOMAIN stack[x[1]].left /\ stack[x[1]].left[x[2]] = u
        /\ x = <<x[1], x[2]>>
    BY DEF callsOf
  <2>2. stack[x[1]].left \in Seq(Users) /\ finishing(x[1]) /\ x[1] \in 1..Len(stack)
    BY <2>1, CallsAre
  <2> QED
    BY <2>1, <2>2
<1>2. \A x \in callsOf(u) : due(u, x[1])
  BY <1>1 DEF due
<1>3. ASSUME NEW x \in callsOf(u), NEW y \in callsOf(u) PROVE x = y
  <2>1. x[1] = y[1]
    BY <1>1, <1>2 DEF Waiting
  <2>2. x[2] = y[2]
    BY <1>1, <2>1 DEF Waiting, once
  <2> QED
    BY <1>1, <2>1, <2>2
<1>4. ASSUME NEW c, due(u, c) PROVE callsOf(u) # {}
  <2>1. c \in Calls /\ c \in 1..Len(stack) /\ finishing(c) /\ stack[c].left \in Seq(Users) /\ once(stack[c].left)
    BY <1>4, CallsAre DEF due, finishing, Waiting
  <2>2. PICK s \in Seq(Users) : s = stack[c].left
    BY <2>1
  <2>3. PICK d \in 1..Len(s) : s[d] = u
    BY <1>4, <2>2 DEF due
  <2>4. Len(s) \in 0..Cardinality(Users) /\ Cardinality(Users) \in Nat
    BY <2>1, <2>2, NotLonger DEF Constants, UserAssumption
  <2>5. d \in 1..Cardinality(Users)
    BY <2>4
  <2>6. <<c, d>> \in callsOf(u)
    BY <2>1, <2>2, <2>3, <2>5 DEF callsOf
  <2> QED
    BY <2>6
<1> QED
  BY <1>2, <1>3, <1>4

\* A user who asked is on the list of exactly one query, pending or being
\* finished, once, and nobody else is on a list: nobody is forgotten, called
\* twice or called after it has cancelled (query_fin, query_rmuser).
THEOREM DnsCalledOnce == ASSUME Constants PROVE Unharmed => []CalledOnce
<1>1. ASSUME DnsInv PROVE CalledOnce
  <2> USE <1>1 DEF DnsInv
  <2>1. SUFFICES ASSUME NEW u \in Users
        PROVE Cardinality(placesOf(u)) + Cardinality(callsOf(u)) = IF asked[u] = None THEN 0 ELSE 1
    BY DEF CalledOnce, placesOf, callsOf
  <2>2. /\ Cardinality(placesOf(u)) = IF placesOf(u) = {} THEN 0 ELSE 1
        /\ Cardinality(callsOf(u)) = IF callsOf(u) = {} THEN 0 ELSE 1
    BY PlacesOf, CallsOf, OneOrNone
  <2>3. placesOf(u) = {} <=> ~ \E i \in QIds : on(u, i)
    BY PlacesOf
  <2>4. callsOf(u) = {} <=> ~ \E c : due(u, c)
    BY CallsOf
  <2>5. \A i \in QIds : on(u, i) => asked[u] # None /\ \A c : ~ due(u, c)
    BY QueryFields DEF Waiting, on, due, finishing, Constants, NoneAssumption
  <2>6. \A c : due(u, c) => asked[u] # None
    BY DEF Waiting, due, finishing
  <2>7. asked[u] # None => (\E i \in QIds : on(u, i)) \/ (\E c : due(u, c))
    BY DEF Waiting
  <2> QED
    BY <2>2, <2>3, <2>4, <2>5, <2>6, <2>7
<1> QED
  BY <1>1, DnsInvariant, PTL

\* A timer is set for every query that waits for answers, and for no other: none
\* is forgotten and none fires for a query that was freed (query_freeTimer).
THEOREM DnsTimersMatch == ASSUME Constants PROVE Unharmed => []TimersMatch
<1>1. ASSUME DnsInv PROVE TimersMatch
  <2> USE <1>1 DEF DnsInv
  <2>1. timers \subseteq Live
    BY NotQueries DEF Timed, Types, pending, Live
  <2>2. ASSUME stack = << >> PROVE timers = {tree[k] : k \in Keys} \ {None}
    <3>1. \A i : ~ sends(i)
      BY <2>2 DEF sends
    <3>2. \A i \in QIds : pending(i) => icrc[query[i].name] \in Keys /\ tree[icrc[query[i].name]] = i /\ i # None
      BY QueryFields DEF Keys, Filed, Constants, NoneAssumption
    <3>3. \A k \in Keys : tree[k] # None => tree[k] \in QIds /\ pending(tree[k])
      BY DEF Filed, Types
    <3>4. \A i : i \in timers <=> i \in QIds /\ pending(i)
      BY <3>1 DEF Timed, Types
    <3> QED
      BY <3>2, <3>3, <3>4
  <2> QED
    BY <2>1, <2>2 DEF TimersMatch
<1> QED
  BY <1>1, DnsInvariant, PTL

\* Those who are still to be given a result.
waitingFor(j) == {x \in Calls \X (1..Cardinality(Users)) :
                     x[2] \in DOMAIN stack[x[1]].left /\ j \in ToSet(stack[x[1]].ai)}

\* How many are still to be given a result.
LEMMA WaitingFor ==
    ASSUME Constants, DnsInv, NEW j \in RIds
    PROVE  /\ \A c \in 1..Len(stack) : gives(c, j) => Cardinality(waitingFor(j)) = Len(stack[c].left)
           /\ (\A c \in 1..Len(stack) : ~ gives(c, j)) => Cardinality(waitingFor(j)) = 0
<1> USE DEF DnsInv
<1>1. ASSUME NEW c \in Calls
      PROVE  /\ DOMAIN stack[c].left = 1..Len(stack[c].left) /\ Len(stack[c].left) \in Nat
             /\ Len(stack[c].left) <= Cardinality(Users) /\ Cardinality(Users) \in Nat
             /\ j \in ToSet(stack[c].ai) <=> \E d \in 1..Len(stack[c].ai) : stack[c].ai[d] = j
             /\ c \in 1..Len(stack) /\ finishing(c) /\ (stack[c].left = << >> <=> Len(stack[c].left) = 0)
  <2>1. c \in 1..Len(stack) /\ finishing(c) /\ stack[c].left \in Seq(Users) /\ stack[c].ai \in Seq(RIds)
    BY <1>1, CallsAre
  <2>2. once(stack[c].left)
    BY <2>1 DEF Waiting
  <2>3. PICK s \in Seq(Users) : s = stack[c].left
    BY <2>1
  <2>4. PICK a \in Seq(RIds) : a = stack[c].ai
    BY <2>1
  <2>5. Cardinality(Users) \in Nat /\ Len(s) \in 0..Cardinality(Users)
    BY <2>2, <2>3, NotLonger DEF Constants, UserAssumption
  <2>6. j \in ToSet(a) <=> \E d \in 1..Len(a) : a[d] = j
    BY ElementsOf
  <2>7. DOMAIN s = 1..Len(s) /\ (s = << >> <=> Len(s) = 0)
    BY EmptySeq
  <2> QED
    BY <2>1, <2>3, <2>4, <2>5, <2>6, <2>7
<1>2. ASSUME NEW x \in waitingFor(j)
      PROVE  /\ x[1] \in 1..Len(stack) /\ gives(x[1], j) /\ x = <<x[1], x[2]>>
             /\ x[2] \in 1..Len(stack[x[1]].left)
  <2>1. /\ x[1] \in Calls /\ x[2] \in DOMAIN stack[x[1]].left /\ j \in ToSet(stack[x[1]].ai)
        /\ x = <<x[1], x[2]>>
    BY DEF waitingFor
  <2>2. x[2] \in 1..Len(stack[x[1]].left)
    BY <1>1, <2>1
  <2>3. stack[x[1]].left # << >>
    BY <1>1, <2>1, <2>2
  <2> QED
    BY <1>1, <2>1, <2>2, <2>3 DEF gives
<1>3. ASSUME NEW c \in 1..Len(stack), gives(c, j) PROVE Cardinality(waitingFor(j)) = Len(stack[c].left)
  <2>1. c \in Calls
    BY <1>3, CallsAre DEF gives
  <2>2. \A x \in waitingFor(j) : x[1] = c
    BY <1>2, <1>3 DEF Owned
  <2>3. PICK n \in Nat : n = Len(stack[c].left) /\ n <= Cardinality(Users) /\ Cardinality(Users) \in Nat
    BY <1>1, <2>1
  <2>4. waitingFor(j) \subseteq {c} \X (1..n)
    BY <1>2, <2>2, <2>3
  <2>5. \A d \in 1..n : <<c, d>> \in waitingFor(j)
    <3>1. \A d \in 1..n : d \in 1..Cardinality(Users) /\ d \in DOMAIN stack[c].left
      BY <1>1, <2>1, <2>3
    <3>2. j \in ToSet(stack[c].ai)
      BY <1>1, <1>3, <2>1 DEF gives
    <3> QED
      BY <2>1, <3>1, <3>2 DEF waitingFor
  <2>6. waitingFor(j) = {c} \X (1..n)
    BY <2>4, <2>5
  <2> QED
    BY <2>3, <2>6, MarkedPositions
<1>4. ASSUME \A c \in 1..Len(stack) : ~ gives(c, j) PROVE Cardinality(waitingFor(j)) = 0
  <2>1. waitingFor(j) = {}
    BY <1>2, <1>4
  <2> QED
    BY <2>1, FS_EmptySet
<1> QED
  BY <1>3, <1>4

\* Once both questions are answered a result has as many references as users
\* have it or are still to be given it: it is freed when the last of them lets
\* go of it, and not before (ans_proc, ffdnscl_unref).
THEOREM DnsRefsCounted == ASSUME Constants PROVE Unharmed => []RefsCounted
<1>1. ASSUME DnsInv PROVE RefsCounted
  <2> USE <1>1
  <2>1. SUFFICES ASSUME NEW j \in RIds, res[j] # None, res[j].usage # None
        PROVE  res[j].usage = Cardinality(holders(j)) + Cardinality(waitingFor(j))
    BY DEF RefsCounted, holders, waitingFor
  <2>2. Cardinality(holders(j)) \in Nat
    <3>1. holders(j) \subseteq Users
      BY DEF holders
    <3> QED
      BY <3>1, FS_Subset, FS_CardinalityType DEF Constants, UserAssumption
  <2>3. CASE \E c \in 1..Len(stack) : gives(c, j)
    <3>1. PICK c \in 1..Len(stack) : gives(c, j)
      BY <2>3
    <3>2. res[j].usage = Cardinality(holders(j)) + Len(stack[c].left)
      BY <2>1, <3>1 DEF DnsInv, Counted
    <3> QED
      BY <3>1, <3>2, WaitingFor
  <2>4. CASE \A c \in 1..Len(stack) : ~ gives(c, j)
    <3>1. res[j].usage = Cardinality(holders(j))
      BY <2>1, <2>4 DEF DnsInv, Counted
    <3>2. Cardinality(waitingFor(j)) = 0
      BY <2>4, WaitingFor
    <3> QED
      BY <2>2, <3>1, <3>2
  <2> QED
    BY <2>3, <2>4
<1> QED
  BY <1>1, DnsInvariant, PTL

\* The addresses a user was given and still has are those of the name it asked
\* for, however late, repeated or foreign the answers were (ans_find_query).
THEOREM DnsRightName == ASSUME Constants PROVE Unharmed => []RightName
<1>1. DnsInv => RightName
  BY DEF DnsInv, Owned, RightName
<1> QED
  BY <1>1, DnsInvariant, PTL

\* A user who is told that there was no error is given addresses: an answer
\* without any, or an error, leaves no "ok" behind (ans_proc, statusKept).
THEOREM DnsOkHasAddresses == ASSUME Constants PROVE Unharmed => []OkHasAddresses
<1>1. DnsInv => OkHasAddresses
  BY CallsAre DEF DnsInv, Successful, OkHasAddresses
<1> QED
  BY <1>1, DnsInvariant, PTL
=============================================================================
