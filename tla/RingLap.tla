------------------------------ MODULE RingLap -------------------------------
(***************************************************************************)
(* The ring with several writers and several readers, under the assumption *)
(* that makes its compare-and-sets sound: an index is a size_t modulo Cap  *)
(* with no version, so a thread that sleeps between reading an index and   *)
(* its compare-and-set must not sleep through a whole lap of the others.   *)
(* The lags are history variables; they restrict the schedules and nothing *)
(* else.                                                                   *)
(***************************************************************************)
EXTENDS Ring, TLC

VARIABLES wlag,   \* wlag[w]: reservations made by others since w read whead
          rlag    \* rlag[x]: elements taken by others since x read r

lapvars == <<vars, wlag, rlag>>

LapInit == /\ Init
           /\ wlag = [w \in Writers |-> 0]
           /\ rlag = [x \in Readers |-> 0]

\* The lag a thread has after this step: it counts while the thread holds an
\* index it has yet to compare.
Moved(old, new) == IF old = new THEN 0 ELSE 1
Lags == /\ wlag' = [w \in Writers |->
                      IF wpc[w] \in {"check", "reserve"} /\ wpc'[w] \in {"check", "reserve"}
                      THEN wlag[w] + Moved(whead, whead') ELSE 0]
        /\ rlag' = [x \in Readers |->
                      IF rpc[x] \in {"check", "fetch", "take"} /\ rpc'[x] \in {"check", "fetch", "take"}
                      THEN rlag[x] + Moved(r, r') ELSE 0]

NotLapped == /\ \A w \in Writers : wlag'[w] < Cap
             /\ \A x \in Readers : rlag'[x] < Cap

LapNext == Next /\ Lags /\ NotLapped

LapFairness == /\ \A w \in Writers : WF_lapvars(WStep(w) /\ Lags /\ NotLapped)
               /\ \A x \in Readers : WF_lapvars(RStep(x) /\ Lags /\ NotLapped)

LapSpec == LapInit /\ [][LapNext]_lapvars /\ LapFairness

\* The safety half of LapSpec, for which the threads are alike, and so are the
\* pointers: symmetry is sound for it and not for liveness.
LapSafety == LapInit /\ [][LapNext]_lapvars
Alike == Permutations(Writers) \cup Permutations(Readers) \cup Permutations(Values)
-----------------------------------------------------------------------------
\* With any number of writers and readers the ring is still a first-in
\* first-out queue of Cap - 1 elements: nothing is lost, duplicated or
\* reordered.  "Full" and "empty" are hints there: the caller may get either
\* although another thread has changed that since.
Roughly == INSTANCE BoundedQueue WITH queue <- ringqueue, Capacity <- Cap - 1, Exact <- FALSE
IsQueueWithHints == Roughly!Spec

\* The writers spin on writers of earlier slots and never on each other in a
\* circle: while a slot is reserved and not published, the writer whose turn it
\* is has left the reservation loop and spins on nobody.
SomeoneIsNext == whead # wtail =>
    \E w \in Writers : wpc[w] \in {"store", "wait", "publish"} /\ hold[w] = wtail
-----------------------------------------------------------------------------
(* The inductive invariant behind these: what the lags are good for. *)

\* How far slot b is ahead of slot a.
ahead(a, b) == (b + Cap - a) % Cap

\* The writers that have reserved a slot and not published it yet.
Owners == {w \in Writers : wpc[w] \in {"store", "wait", "publish"}}

\* From r on come the unread slots, up to wtail, then the reserved ones, up to
\* whead; each of these has one owner.
Divided == /\ ahead(r, wtail) <= ahead(r, whead)
           /\ \A w \in Owners : ahead(wtail, hold[w]) < ahead(wtail, whead)
           /\ \A v, w \in Owners : hold[v] = hold[w] => v = w
           /\ \A s \in Slots : ahead(wtail, s) < ahead(wtail, whead) =>
                                \E w \in Owners : hold[w] = s

\* A thread is behind by as much as its lag says.  With no lag, what it found
\* out about the index still holds.
WriterKnows(w) ==
    /\ wpc[w] \in {"check", "reserve"} => ahead(hold[w], whead) = wlag[w]
    /\ wpc[w] = "reserve" /\ wlag[w] = 0 => increset2(whead) # r
    /\ wpc[w] = "publish" => hold[w] = wtail
    /\ wpc[w] \in {"wait", "publish"} => d[hold[w]] = wval[w]
    /\ wret[w] = Busy <=> wpc[w] # "idle"

ReaderKnows(x) ==
    /\ rpc[x] \in {"check", "fetch", "take"} => ahead(rr[x], r) = rlag[x]
    /\ rpc[x] \in {"fetch", "take"} /\ rlag[x] = 0 => r # wtail
    /\ rpc[x] = "take" /\ rlag[x] = 0 => rc[x] = d[r]
    /\ rret[x] = Busy <=> rpc[x] # "idle"

LapInv == /\ TypeOK /\ wlag \in [Writers -> Slots] /\ rlag \in [Readers -> Slots]
          /\ Divided
          /\ \A w \in Writers : WriterKnows(w)
          /\ \A x \in Readers : ReaderKnows(x)
=============================================================================
