----------------------------- MODULE DnsClient -----------------------------
(***************************************************************************)
(* The DNS client (FF/net/dns-client.h, FF/net/ffdns-client.c).  Users ask *)
(* for a host name; those who ask for the same name share one query, which *)
(* puts two questions (A and AAAA) to the servers in turn until both are   *)
(* answered or it has run out of tries.  Users are then called one after   *)
(* the other, and may call the client from there.                          *)
(*                                                                         *)
(* UDP loses, repeats, delays and reorders.  A query and a result are      *)
(* objects on the heap; a step through a freed one is a fault and the last *)
(* step.                                                                   *)
(***************************************************************************)
EXTENDS Naturals, Sequences, FiniteSets, SequencesExt

CONSTANTS Users, Names, Servers,
          Wants,            \* the names each user asks for
          icrc, crc,        \* ffcrc32_iget() and ffcrc32_get() of a name
          MaxTries,         \* conf.max_tries
          TxPairs,          \* bound: the 16-bit random IDs of the two questions
          QIds, RIds,       \* bound: objects of each kind at a time
          MaxFlight,        \* bound: questions the servers may still answer
          None

NameAssumption == icrc \in [Names -> Nat] /\ crc \in [Names -> Nat]
BoundAssumption == MaxTries \in Nat \ {0} /\ MaxFlight \in Nat \ {0}

VARIABLES ipv6,      \* conf.enable_ipv6
          tree,      \* queries: from the CRC to the query
          query,     \* the heap: dns_query objects
          res,       \* the heap: ffdnscl_res objects
          timers,    \* queries whose timer is set
          serv,      \* [connected, reading] of each server
          order,     \* the list of servers, the current one first
          flight,    \* questions a server has got and may answer
          stack,     \* calls of query_fin() that are going on, the innermost last
          asked,     \* the name a user waits for
          held,      \* results each user has to unref
          fault      \* why the client cannot be used any longer

vars == <<ipv6, tree, query, res, timers, serv, order, flight, stack, asked, held, fault>>

Keys == {icrc[n] : n \in Names} \cup {crc[n] : n \in Names}

\* ffdnscl_new() and ffdnscl_serv_add(); there is at least one server.
Init == /\ ipv6 \in BOOLEAN
        /\ tree = [k \in Keys |-> None] /\ query = [i \in QIds |-> None]
        /\ res = [i \in RIds |-> None] /\ timers = {}
        /\ serv = [s \in Servers |-> [connected |-> FALSE, reading |-> FALSE]]
        /\ order = SetToSeq(Servers)
        /\ flight = {} /\ stack = << >>
        /\ asked = [u \in Users |-> None] /\ held = [u \in Users |-> {}]
        /\ fault = None
-----------------------------------------------------------------------------
\* The client is called from the event loop, or by the user it is calling, who
\* resolves one name at most before it returns.
Top == Last(stack)
Idle == fault = None /\ stack = << >>
Callable == fault = None /\ (stack # << >> => Top.op = "fin" /\ Top.cur # None)
Returning == IF stack = << >> THEN stack ELSE [stack EXCEPT ![Len(stack)].cur = None]
Deref(i) == query[i] # None

query_freeTimer(i) == query' = [query EXCEPT ![i] = None] /\ UNCHANGED timers

\* query_free()
query_free(i) == query' = [query EXCEPT ![i] = None] /\ timers' = timers \ {i}

\* A user asks for one name at a time, and gives back what it has before.
Free(u) == asked[u] = None /\ held[u] = {} /\ (stack # << >> => Top.cur = u)

\* ffdnscl_resolve(): the user joins a query for the same name, ...
Join(u, n) ==
    LET i == tree[icrc[n]]
    IN  /\ Callable /\ Free(u)
        /\ i # None /\ Deref(i) /\ query[i].name = n
        /\ query' = [query EXCEPT ![i].users = Append(@, u)]
        /\ asked' = [asked EXCEPT ![u] = n]
        /\ stack' = Returning
        /\ UNCHANGED <<ipv6, tree, res, timers, serv, order, flight, held, fault>>

\* ... another name has the same CRC: the query of that other name is freed
\* and stays in the tree, and the user is called with -1 at once, ...
Collide(u, n) ==
    LET i == tree[icrc[n]]
    IN  /\ Callable /\ Free(u)
        /\ i # None /\ Deref(i) /\ query[i].name # n
        /\ query_free(i)
        /\ stack' = Returning
        /\ UNCHANGED <<ipv6, tree, res, serv, order, flight, asked, held, fault>>

\* ... or the list of its users cannot grow: the shared query is freed, it stays
\* in the tree, and the one who came last is the only one to be told, ...
JoinFails(u, n) ==
    LET i == tree[icrc[n]]
    IN  /\ Callable /\ Free(u)
        /\ i # None /\ Deref(i) /\ query[i].name = n
        /\ query_free(i)
        /\ stack' = Returning
        /\ UNCHANGED <<ipv6, tree, res, serv, order, flight, asked, held, fault>>

\* ... or a new query is made and sent.
Ask(u, n, tx) ==
    LET i == CHOOSE x \in QIds : query[x] = None
    IN  /\ Callable /\ Free(u)
        /\ tree[icrc[n]] = None
        /\ \E x \in QIds : query[x] = None
        /\ query' = [query EXCEPT ![i] =
               [name |-> n, users |-> <<u>>, tries |-> MaxTries, res |-> << >>, status |-> "ok",
                need4 |-> TRUE, need6 |-> ipv6, txid4 |-> tx[1], txid6 |-> tx[2]]]
        /\ tree' = [tree EXCEPT ![icrc[n]] = i]
        /\ stack' = Append(Returning, [op |-> "send", q |-> i])
        /\ asked' = [asked EXCEPT ![u] = n]
        /\ UNCHANGED <<ipv6, res, timers, serv, order, flight, held, fault>>

rmswapNot(us, u) == Front(us)

\* ffarr_rmswap(): the last one takes the place of the one removed.
rmswap(us, u) == Front([d \in DOMAIN us |-> IF us[d] = u THEN Last(us) ELSE us[d]])

\* ffdnscl_resolve() of FFDNSCL_CANCEL: query_rmuser()
Cancel(u) ==
    LET i == tree[icrc[asked[u]]]
    IN  /\ Callable /\ asked[u] # None
        /\ i # None /\ Deref(i) /\ query[i].name = asked[u] /\ u \in ToSet(query[i].users)
        /\ query' = [query EXCEPT ![i].users = rmswap(@, u)]
        /\ asked' = [asked EXCEPT ![u] = None]
        /\ UNCHANGED <<ipv6, tree, res, timers, serv, order, flight, stack, held, fault>>

\* Any of these that finds a freed query
Dangling(u, n) == /\ Callable
                  /\ tree[icrc[n]] # None /\ ~Deref(tree[icrc[n]])
                  /\ fault' = "dangling"
                  /\ UNCHANGED <<ipv6, tree, query, res, timers, serv, order, flight, stack, asked, held>>
-----------------------------------------------------------------------------
(* Sending *)

questions(q, s) ==
    (IF q.need6 THEN {[serv |-> s, name |-> q.name, id |-> q.txid6, type |-> "AAAA"]} ELSE {})
    \cup (IF q.need4 THEN {[serv |-> s, name |-> q.name, id |-> q.txid4, type |-> "A"]} ELSE {})

\* query_send1(): all questions went out and a server that was not connected is
\* and is listened to.  Questions and answers are lost, old and new ones.
Sent(s, q) ==
    /\ serv' = [serv EXCEPT ![s] = IF @.connected THEN @ ELSE [connected |-> TRUE, reading |-> TRUE]]
    /\ flight' \in SUBSET (flight \cup questions(q, s))
    /\ Cardinality(flight') <= MaxFlight

\* serv_init() or ffskt_connect() failed
Unreached(s) == ~serv[s].connected /\ UNCHANGED <<serv, flight>>

\* ffskt_send() failed: the socket is closed, and what was on its way is lost
SendFailed(s) == /\ serv' = [serv EXCEPT ![s] = [connected |-> FALSE, reading |-> FALSE]]
                 /\ flight' = {m \in flight : m.serv # s}

\* serv_next()
serv_next(o) == Append(Tail(o), Head(o))

SendUncounted ==
    /\ fault = None /\ stack # << >> /\ Top.op = "send" /\ query[Top.q].tries > 0
    /\ order' = serv_next(order)
    /\ \/ /\ Sent(Head(order), query[Top.q])
          /\ timers' = timers \cup {Top.q} /\ stack' = Front(stack)
       \/ (Unreached(Head(order)) \/ SendFailed(Head(order))) /\ UNCHANGED <<timers, stack>>
    /\ UNCHANGED <<ipv6, tree, query, res, asked, held, fault>>

\* One turn of the loop of query_send()
Send == LET i == Top.q
            q == query[i]
            s == Head(order)
        IN  /\ fault = None /\ stack # << >> /\ Top.op = "send"
            /\ q.tries > 0
            /\ query' = [query EXCEPT ![i].tries = @ - 1]
            /\ order' = serv_next(order)
            /\ \/ Sent(s, q) /\ timers' = timers \cup {i} /\ stack' = Front(stack)
               \/ (Unreached(s) \/ SendFailed(s)) /\ UNCHANGED <<timers, stack>>
            /\ UNCHANGED <<ipv6, tree, res, asked, held, fault>>

\* The beginning of query_fin(): the query leaves the tree, its users are to be
\* called with what was found; the rest of it is not read again.
Finishing == [name |-> None]
Frame(q, i, st) == [op |-> "fin", q |-> i, cur |-> None, left |-> q.users, ai |-> q.res, status |-> st]

fin(q, i, status, st) == /\ tree' = [tree EXCEPT ![icrc[q.name]] = None]
                         /\ query' = [query EXCEPT ![i] = Finishing]
                         /\ stack' = Append(st, Frame(q, i, status))

\* "reached max_tries limit"
GiveUp == /\ fault = None /\ stack # << >> /\ Top.op = "send"
          /\ query[Top.q].tries = 0
          /\ fin(query[Top.q], Top.q, "err", Front(stack))
          /\ UNCHANGED <<ipv6, res, timers, serv, order, flight, asked, held, fault>>

\* query_onexpire(); the timer queue has forgotten the entry
Expire(i) == /\ Idle /\ i \in timers
             /\ timers' = timers \ {i}
             /\ IF query[i].tries = 0
                THEN fin(query[i], i, "err", stack)
                ELSE stack' = <<[op |-> "send", q |-> i]>> /\ UNCHANGED <<tree, query>>
             /\ UNCHANGED <<ipv6, res, serv, order, flight, asked, held, fault>>
-----------------------------------------------------------------------------
(* Answers *)

nameAny(i, n) == TRUE

\* ans_find_query() looks for the CRC of the name as it is, and compares names.
nameIs(i, n) == query[i].name = n

\* ans_proc_resp() on an answer with records of the type the query takes it for:
\* res->usage is not initialised.
NewRes(n) == [name |-> n, usage |-> None]

usageOne(q, r) == [j \in RIds |-> IF j \in ToSet(q.res) THEN [r[j] EXCEPT !.usage = 1] ELSE r[j]]

\* ans_proc(): both are answered, every user will have a reference.
usageSet(q, r) == [j \in RIds |-> IF j \in ToSet(q.res) THEN [r[j] EXCEPT !.usage = Len(q.users)] ELSE r[j]]

statusKept(q, ok) == IF ok THEN "ok" ELSE q.status

\* ans_proc(): an error counts as long as there are no addresses.
statusOf(q, ok) == IF ok THEN "ok" ELSE IF q.res = << >> THEN "err" ELSE q.status

\* ans_nrecs(): only records of the type the answer is taken for are of use, and
\* the answer to a question may have none of that type.
mayBeUseful(m, is4) == m.type = IF is4 THEN "A" ELSE "AAAA"

\* ans_proc() on the answer to m, with useful records or not, as an A answer or
\* as an AAAA answer: only the ID tells which.
Answer(i, m, is4, ok) ==
    LET q0 == query[i]
        j == CHOOSE x \in RIds : res[x] = None
        q1 == [q0 EXCEPT !.need4 = @ /\ ~is4, !.need6 = @ /\ is4,
                         !.status = statusOf(q0, ok),
                         !.res = IF ok THEN Append(@, j) ELSE @]
        r1 == IF ok THEN [res EXCEPT ![j] = NewRes(m.name)] ELSE res
    IN  /\ ok => mayBeUseful(m, is4) /\ \E x \in RIds : res[x] = None
        /\ IF q1.need4 \/ q1.need6
           THEN query' = [query EXCEPT ![i] = q1] /\ res' = r1 /\ UNCHANGED <<tree, timers, stack>>
           ELSE /\ timers' = timers \ {i}
                /\ res' = usageSet(q1, r1)
                /\ fin(q1, i, q1.status, stack)

\* ans_read() and ans_proc(): an answer to question m, which may come again.
Receive(m, ok, again) ==
    LET i == tree[crc[m.name]]
    IN  /\ Idle /\ m \in flight /\ serv[m.serv].reading
        /\ i # None /\ Deref(i) /\ nameIs(i, m.name)
        /\ \/ query[i].need4 /\ m.id = query[i].txid4 /\ Answer(i, m, TRUE, ok)
           \/ /\ ~(query[i].need4 /\ m.id = query[i].txid4)
              /\ query[i].need6 /\ m.id = query[i].txid6 /\ Answer(i, m, FALSE, ok)
        /\ flight' = IF again THEN flight ELSE flight \ {m}
        /\ UNCHANGED <<ipv6, serv, order, asked, held, fault>>

\* An answer that finds a freed query
ReceiveDangling(m) == /\ Idle /\ m \in flight /\ serv[m.serv].reading
                      /\ tree[crc[m.name]] # None /\ ~Deref(tree[crc[m.name]])
                      /\ fault' = "dangling"
                      /\ UNCHANGED <<ipv6, tree, query, res, timers, serv, order, flight, stack, asked, held>>

\* ans_read() when the receive failed: it is not started again.
ReadError(s) == /\ Idle /\ serv[s].reading
                /\ serv' = [serv EXCEPT ![s].reading = FALSE]
                /\ UNCHANGED <<ipv6, tree, query, res, timers, order, flight, stack, asked, held, fault>>
-----------------------------------------------------------------------------
\* query_fin(): the next user is called, ...
Notify == LET u == Head(Top.left)
          IN  /\ fault = None /\ stack # << >> /\ Top.op = "fin" /\ Top.left # << >>
              /\ asked' = [asked EXCEPT ![u] = None]
              /\ held' = [held EXCEPT ![u] = @ \cup {[r |-> j, for |-> asked[u]] : j \in ToSet(Top.ai)}]
              /\ stack' = [stack EXCEPT ![Len(stack)].left = Tail(@), ![Len(stack)].cur = u]
              /\ UNCHANGED <<ipv6, tree, query, res, timers, serv, order, flight, fault>>

\* ... and after the last one the query is freed.
Finish == /\ fault = None /\ stack # << >> /\ Top.op = "fin" /\ Top.left = << >>
          /\ query_free(Top.q)
          /\ stack' = Front(stack)
          /\ UNCHANGED <<ipv6, tree, res, serv, order, flight, asked, held, fault>>

\* ffdnscl_unref()
Unref(u, x) ==
    /\ Callable /\ (stack # << >> => Top.cur = u) /\ x \in held[u]
    /\ IF res[x.r] = None \/ res[x.r].usage \in {0, None}
       THEN fault' = "usage" /\ UNCHANGED res
       ELSE /\ res' = IF res[x.r].usage = 1 THEN [res EXCEPT ![x.r] = None]
                                            ELSE [res EXCEPT ![x.r].usage = @ - 1]
            /\ UNCHANGED fault
    /\ held' = [held EXCEPT ![u] = @ \ {x}]
    /\ UNCHANGED <<ipv6, tree, query, timers, serv, order, flight, stack, asked>>

\* ffdnscl_free(): whoever waits is not called.
Close == /\ Idle /\ \A k \in Keys : tree[k] # None => Deref(tree[k])
         /\ tree' = [k \in Keys |-> None] /\ query' = [i \in QIds |-> None] /\ timers' = {}
         /\ serv' = [s \in Servers |-> [connected |-> FALSE, reading |-> FALSE]]
         /\ flight' = {}
         /\ asked' = [u \in Users |-> None]
         /\ fault' = "closed"
         /\ UNCHANGED <<ipv6, res, order, stack, held>>
-----------------------------------------------------------------------------
Resolve(u, n) == \/ Join(u, n) \/ JoinFails(u, n) \/ Collide(u, n) \/ Dangling(u, n)
                 \/ \E tx \in TxPairs : Ask(u, n, tx)
Net == \/ \E m \in flight : \/ \E ok, again \in BOOLEAN : Receive(m, ok, again)
                            \/ ReceiveDangling(m)
       \/ \E s \in Servers : ReadError(s)
Loop == Send \/ GiveUp \/ Notify \/ Finish
Next == \/ \E u \in Users : \/ \E n \in Wants[u] : Resolve(u, n)
                            \/ Cancel(u)
                            \/ \E x \in held[u] : Unref(u, x)
        \/ Loop \/ Net \/ Close
        \/ \E i \in QIds : Expire(i)

Spec == Init /\ [][Next]_vars
\* A call that was begun goes on, and the timer queue fires.
FairSpec == Spec /\ WF_vars(Loop) /\ \A i \in QIds : WF_vars(Expire(i))
-----------------------------------------------------------------------------
Live == {i \in QIds : query[i] # None}
Pending == {i \in Live : query[i] # Finishing}
Calls == {d \in DOMAIN stack : stack[d].op = "fin"}

TypeOK == /\ ipv6 \in BOOLEAN
          /\ tree \in [Keys -> QIds \cup {None}]
          /\ timers \subseteq QIds /\ DOMAIN query = QIds /\ DOMAIN res = RIds
          /\ \A i \in Pending : /\ query[i].name \in Names /\ query[i].tries \in 0..MaxTries
                             /\ query[i].users \in Seq(Users) /\ query[i].res \in Seq(RIds)
                             /\ Len(query[i].res) <= 2
          /\ serv \in [Servers -> [connected : BOOLEAN, reading : BOOLEAN]]
          /\ ToSet(order) = Servers /\ Len(order) = Cardinality(Servers)
          /\ asked \in [Users -> Names \cup {None}]
          /\ fault \in {None, "dangling", "usage", "closed"}

\* Until another name with the same CRC, or a user for whom there was no memory,
\* has freed a query.
Whole == \A k \in Keys : tree[k] # None => tree[k] \in Live

\* A user that waits is on the list of exactly one query, pending or being
\* finished, once; and no other user is: nobody is called twice, or after a
\* successful cancel, or forgotten.
CalledOnce ==
    LET filed == {tree[k] : k \in Keys} \ {None}
        places(u) == {x \in filed \X (1..Cardinality(Users)) :
                         x[2] \in DOMAIN query[x[1]].users /\ query[x[1]].users[x[2]] = u}
        calls(u) == {x \in Calls \X (1..Cardinality(Users)) :
                         x[2] \in DOMAIN stack[x[1]].left /\ stack[x[1]].left[x[2]] = u}
    IN  Whole => \A u \in Users :
            Cardinality(places(u)) + Cardinality(calls(u)) = IF asked[u] = None THEN 0 ELSE 1

\* A timer never fires for a query that is gone, and a query that waits for
\* answers has one: it cannot be forgotten.
TimersMatch == /\ timers \subseteq Live
               /\ Whole /\ stack = << >> => timers = {tree[k] : k \in Keys} \ {None}

\* The reference count of a result is the number of those who have it and of
\* those who are still to be given it.
RefsCounted == fault = None =>
    \A j \in RIds : res[j] # None /\ res[j].usage # None =>
        res[j].usage = Cardinality({u \in Users : \E x \in held[u] : x.r = j})
                       + Cardinality({x \in Calls \X (1..Cardinality(Users)) :
                              x[2] \in DOMAIN stack[x[1]].left /\ j \in ToSet(stack[x[1]].ai)})

\* Addresses are those of the name the user asked for: answers that are late,
\* or of a name with the same CRC, do not get mixed up.
RightName == \A u \in Users : \A x \in held[u] : res[x.r] # None => res[x.r].name = x.for

\* A user that is told FFDNS_NOERROR gets addresses.
OkHasAddresses == \A c \in Calls : stack[c].status = "ok" => stack[c].ai # << >>

\* Every user is called in the end, however many answers are lost.
Answered == [](Whole /\ fault = None) => \A u \in Users : asked[u] # None ~> asked[u] = None

\* ffdnscl_unref(): FF_ASSERT(res->usage != 0)
UsageAssert == fault # "usage"

\* For model checking: two users, one of whom asks for two names of one CRC.
SomeWant == [u1 |-> {"n"}, u2 |-> {"n", "m"}]
OneCrc == [n |-> 1, m |-> 1]
OnePair == {<<1, 2>>}
=============================================================================
