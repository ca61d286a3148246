-------------------------------- MODULE Ring --------------------------------
(***************************************************************************)
(* ffring (FF/ring.h, FF/ffring.c): a circular array of pointers shared by *)
(* writer and reader threads without a lock.  Every step below is one      *)
(* access to shared memory, so TLC interleaves the threads exactly where   *)
(* the hardware may.                                                       *)
(***************************************************************************)
EXTENDS Naturals, Sequences

CONSTANTS Writers,  \* threads calling ffring_write() or ffring_write_excl()
          Readers,  \* threads calling ffring_read()
          Values,   \* the pointers stored
          Cap,      \* ffring.cap
          Excl,     \* TRUE: the writers call ffring_write_excl()
          Busy, Full, Empty, Ok  \* what a call returned; Busy: not returned yet

\* ffring_create() asserts that the size is a power of 2.  A ring of size 1
\* has no room for an element.
ASSUME CapAssumption == /\ Cap \in Nat \ {0, 1}
                        /\ \E k \in 1..Cap : Cap = 2^k
ASSUME ResultsAssumption == /\ Busy \notin Values \cup {Full, Empty, Ok}
                            /\ Empty \notin Values
                            /\ Full # Ok
ASSUME ExclAssumption == Excl \in BOOLEAN

VARIABLES d, whead, wtail, r,           \* the fields of struct ffring
          wpc, hold, wval, wret,        \* a writer's position, head_old, p, result
          rpc, rr, rc, rret             \* a reader's position, rr, rc, result

wvars == <<wpc, hold, wval, wret>>
rvars == <<rpc, rr, rc, rret>>
vars  == <<d, whead, wtail, r, wpc, hold, wval, wret, rpc, rr, rc, rret>>

Slots == 0..(Cap - 1)

\* ffint_increset2(): (n + 1) & (cap - 1), cap being a power of 2.
increset2(n) == (n + 1) % Cap

\* ffring_unread(), ffring_empty()
unread == (wtail + Cap - r) % Cap
empty  == r = wtail

\* ffring_create() over a zeroed ffring; the slots hold whatever the
\* allocator returned.
Init == /\ d \in [Slots -> Values]
        /\ whead = 0 /\ wtail = 0 /\ r = 0
        /\ wpc = [w \in Writers |-> "idle"]
        /\ hold = [w \in Writers |-> 0]
        /\ wval \in [Writers -> Values]
        /\ wret = [w \in Writers |-> Ok]
        /\ rpc = [x \in Readers |-> "idle"]
        /\ rr = [x \in Readers |-> 0]
        /\ rc \in [Readers -> Values]
        /\ rret = [x \in Readers |-> Empty]
-----------------------------------------------------------------------------
(* _ffring_write() *)

WCall(w, p) == /\ wpc[w] = "idle"
               /\ wpc' = [wpc EXCEPT ![w] = "load"]
               /\ wval' = [wval EXCEPT ![w] = p]
               /\ wret' = [wret EXCEPT ![w] = Busy]
               /\ UNCHANGED <<d, whead, wtail, r, hold, rvars>>

WLoad(w) == /\ wpc[w] = "load"
            /\ hold' = [hold EXCEPT ![w] = whead]
            /\ wpc' = [wpc EXCEPT ![w] = "check"]
            /\ UNCHANGED <<d, whead, wtail, r, wval, wret, rvars>>

looksfullNever(w) == FALSE

\* if (head_new == ffatom_get(&r->r)), with the head loaded before.
looksfull(w) == increset2(hold[w]) = r

\* The ring looks full: return -1.
WFull(w) == /\ wpc[w] = "check"
            /\ looksfull(w)
            /\ wpc' = [wpc EXCEPT ![w] = "idle"]
            /\ wret' = [wret EXCEPT ![w] = Full]
            /\ UNCHANGED <<d, whead, wtail, r, hold, wval, rvars>>

\* A free slot was seen.  The exclusive writer takes it as it is.
WRoom(w) == /\ wpc[w] = "check"
            /\ ~looksfull(w)
            /\ wpc' = [wpc EXCEPT ![w] = IF Excl THEN "store" ELSE "reserve"]
            /\ UNCHANGED <<d, whead, wtail, r, hold, wval, wret, rvars>>

WReserveNoAdvance(w) == /\ wpc[w] = "reserve"
                        /\ whead = hold[w]
                        /\ wpc' = [wpc EXCEPT ![w] = "store"]
                        /\ UNCHANGED <<d, whead, wtail, r, hold, wval, wret, rvars>>

\* ffatom_cmpset(&r->whead, head_old, head_new)
WReserve(w) == /\ wpc[w] = "reserve"
               /\ whead = hold[w]
               /\ whead' = increset2(hold[w])
               /\ wpc' = [wpc EXCEPT ![w] = "store"]
               /\ UNCHANGED <<d, wtail, r, hold, wval, wret, rvars>>

WRetry(w) == /\ wpc[w] = "reserve"
             /\ whead # hold[w]
             /\ wpc' = [wpc EXCEPT ![w] = "load"]
             /\ UNCHANGED <<d, whead, wtail, r, hold, wval, wret, rvars>>

WStore(w) == /\ wpc[w] = "store"
             /\ d' = [d EXCEPT ![hold[w]] = wval[w]]
             /\ wpc' = [wpc EXCEPT ![w] = IF Excl THEN "publish" ELSE "wait"]
             /\ UNCHANGED <<whead, wtail, r, hold, wval, wret, rvars>>

WWaitNot(w) == /\ wpc[w] = "wait"
               /\ wpc' = [wpc EXCEPT ![w] = "publish"]
               /\ UNCHANGED <<d, whead, wtail, r, hold, wval, wret, rvars>>
\* The spin loop ends once the writers of the earlier slots have published.
WWait(w) == /\ wpc[w] = "wait"
            /\ wtail = hold[w]
            /\ wpc' = [wpc EXCEPT ![w] = "publish"]
            /\ UNCHANGED <<d, whead, wtail, r, hold, wval, wret, rvars>>

WPublishStale(w) == /\ wpc[w] = "publish"
                    /\ wtail' = hold[w]
                    /\ wpc' = [wpc EXCEPT ![w] = "idle"]
                    /\ wret' = [wret EXCEPT ![w] = Ok]
                    /\ UNCHANGED <<d, whead, r, hold, wval, rvars>>

\* ffatom_set(&r->wtail, head_new)
WPublish(w) == /\ wpc[w] = "publish"
               /\ wtail' = increset2(hold[w])
               /\ wpc' = [wpc EXCEPT ![w] = "idle"]
               /\ wret' = [wret EXCEPT ![w] = Ok]
               /\ UNCHANGED <<d, whead, r, hold, wval, rvars>>
-----------------------------------------------------------------------------
(* ffring_read() *)

RCall(x) == /\ rpc[x] = "idle"
            /\ rpc' = [rpc EXCEPT ![x] = "load"]
            /\ rret' = [rret EXCEPT ![x] = Busy]
            /\ UNCHANGED <<d, whead, wtail, r, rr, rc, wvars>>

RLoad(x) == /\ rpc[x] = "load"
            /\ rr' = [rr EXCEPT ![x] = r]
            /\ rpc' = [rpc EXCEPT ![x] = "check"]
            /\ UNCHANGED <<d, whead, wtail, r, rc, rret, wvars>>

looksemptyEarly(x) == rr[x] = whead

\* if (rr == ffatom_get(&r->wtail)), with rr loaded before.
looksempty(x) == rr[x] = wtail

REmpty(x) == /\ rpc[x] = "check"
             /\ looksempty(x)
             /\ rpc' = [rpc EXCEPT ![x] = "idle"]
             /\ rret' = [rret EXCEPT ![x] = Empty]
             /\ UNCHANGED <<d, whead, wtail, r, rr, rc, wvars>>

RSeen(x) == /\ rpc[x] = "check"
            /\ ~looksempty(x)
            /\ rpc' = [rpc EXCEPT ![x] = "fetch"]
            /\ UNCHANGED <<d, whead, wtail, r, rr, rc, rret, wvars>>

RFetch(x) == /\ rpc[x] = "fetch"
             /\ rc' = [rc EXCEPT ![x] = d[rr[x]]]
             /\ rpc' = [rpc EXCEPT ![x] = "take"]
             /\ UNCHANGED <<d, whead, wtail, r, rr, rret, wvars>>

\* ffatom_cmpset(&r->r, rr, rnew)
RTake(x) == /\ rpc[x] = "take"
            /\ r = rr[x]
            /\ r' = increset2(rr[x])
            /\ rret' = [rret EXCEPT ![x] = rc[x]]
            /\ rpc' = [rpc EXCEPT ![x] = "idle"]
            /\ UNCHANGED <<d, whead, wtail, rr, rc, wvars>>

RRetry(x) == /\ rpc[x] = "take"
             /\ r # rr[x]
             /\ rpc' = [rpc EXCEPT ![x] = "load"]
             /\ UNCHANGED <<d, whead, wtail, r, rr, rc, rret, wvars>>
-----------------------------------------------------------------------------
WStep(w) == \/ WLoad(w) \/ WFull(w) \/ WRoom(w) \/ WReserve(w) \/ WRetry(w)
            \/ WStore(w) \/ WWait(w) \/ WPublish(w)
RStep(x) == RLoad(x) \/ REmpty(x) \/ RSeen(x) \/ RFetch(x) \/ RTake(x) \/ RRetry(x)

Next == \/ \E w \in Writers : WStep(w)
        \/ \E w \in Writers, p \in Values : WCall(w, p)
        \/ \E x \in Readers : RCall(x) \/ RStep(x)

Spec == Init /\ [][Next]_vars

\* The scheduler runs every thread that is inside a call.  It does not make
\* anybody call.
Fairness == /\ \A w \in Writers : WF_vars(WStep(w))
            /\ \A x \in Readers : WF_vars(RStep(x))
FairSpec == Spec /\ Fairness
-----------------------------------------------------------------------------
WPositions == {"idle", "load", "check", "reserve", "store", "wait", "publish"}
RPositions == {"idle", "load", "check", "fetch", "take"}

\* Every index stays inside the array: d[head_old] and d[rr] are never read or
\* written out of bounds.
TypeOK == /\ d \in [Slots -> Values]
          /\ whead \in Slots /\ wtail \in Slots /\ r \in Slots
          /\ wpc \in [Writers -> WPositions]
          /\ hold \in [Writers -> Slots]
          /\ wval \in [Writers -> Values]
          /\ wret \in [Writers -> {Busy, Full, Ok}]
          /\ rpc \in [Readers -> RPositions]
          /\ rr \in [Readers -> Slots]
          /\ rc \in [Readers -> Values]
          /\ rret \in [Readers -> Values \cup {Busy, Empty}]

\* A reader whose compare-and-set is about to succeed holds the oldest unread
\* element ("if we see an unread element, it's complete", "other reader has
\* read this element").
TakeIsFresh == \A x \in Readers :
    rpc[x] = "take" /\ rr[x] = r => r # wtail /\ rc[x] = d[r]

\* A writer whose compare-and-set is about to succeed takes a free slot: the
\* ring has not become full since ffring_write() looked at r.
ReserveIsFree == \A w \in Writers :
    wpc[w] = "reserve" /\ hold[w] = whead => increset2(whead) # r

\* No step of any thread overwrites an element that was published and not read
\* yet.
NoOverwrite ==
    [][\A i \in 0..(Cap - 2) : i < unread => d'[(r + i) % Cap] = d[(r + i) % Cap]]_d

\* The ring implements a first-in first-out queue of Cap - 1 elements with
\* exact "full" and "empty" answers.
ringqueue == [k \in 1..unread |-> d[(r + k - 1) % Cap]]
Exactly == INSTANCE BoundedQueue WITH queue <- ringqueue, Capacity <- Cap - 1, Exact <- TRUE
IsQueue == Exactly!Spec

\* A call that was made returns: no thread spins forever.
CallsReturn == /\ \A w \in Writers : wpc[w] # "idle" ~> wpc[w] = "idle"
               /\ \A x \in Readers : rpc[x] # "idle" ~> rpc[x] = "idle"
-----------------------------------------------------------------------------
(* The inductive invariant of a ring with one writer and one reader. *)

\* The writer owns at most the one slot at wtail, and the reader sees neither
\* that slot nor the one behind it as unread.
WriterInv == \A w \in Writers :
    /\ wpc[w] \in {"idle", "load", "check", "reserve"} => whead = wtail
    /\ wpc[w] \in {"check", "reserve", "store", "wait", "publish"} => hold[w] = wtail
    /\ wpc[w] = "reserve" => increset2(wtail) # r
    /\ wpc[w] \in {"store", "wait", "publish"} => /\ whead = increset2(wtail)
                                                  /\ increset2(wtail) # r
    /\ wpc[w] \in {"wait", "publish"} => d[wtail] = wval[w]
    /\ wret[w] = Busy <=> wpc[w] # "idle"

\* What the reader loaded is still true when it compares.
ReaderInv == \A x \in Readers :
    /\ rpc[x] \in {"check", "fetch", "take"} => rr[x] = r
    /\ rpc[x] \in {"fetch", "take"} => r # wtail
    /\ rpc[x] = "take" => rc[x] = d[r]
    /\ rret[x] = Busy <=> rpc[x] # "idle"

SPSCInv == TypeOK /\ WriterInv /\ ReaderInv
=============================================================================
