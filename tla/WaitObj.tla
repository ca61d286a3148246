------------------------------ MODULE WaitObj ------------------------------
(***************************************************************************)
(* The wait-object handler of FF/sys/ffwohandler.c: a worker thread waits  *)
(* for up to MAXIMUM_WAIT_OBJECTS handles and calls their handlers; other  *)
(* threads, and the handlers, add and remove handles.                      *)
(*                                                                         *)
(* w is the object, k the worker, and u[i] thread i of the users, each of  *)
(* which adds its handle, removes it and adds it again.  The lock is a     *)
(* spinlock.  Handle 0 is the wake event.  w.stale is history: a thread    *)
(* that removes its handle has passed over it, or has taken the lock with  *)
(* a place at which the handle was no longer.                              *)
(***************************************************************************)
EXTENDS Integers, FiniteSets, SequencesExt

CONSTANTS Users,        \* threads; thread i has the handle i
          MaxWait,      \* MAXIMUM_WAIT_OBJECTS
          Rounds,       \* how often each thread adds its handle
          RmInHandler   \* the threads whose handler may remove the handle, too

VARIABLES w, k, u
vars == <<w, k, u>>

Wake == 0
NoUser == 0
ffwoh_create ==
    /\ w = [hdls |-> <<Wake>>, lk |-> NoUser, cmd |-> "run", wake |-> FALSE, wait |-> FALSE, sig |-> {}, dead |-> FALSE, stale |-> FALSE]
    /\ k = [pc |-> "loop", count |-> 0, h |-> 0, i |-> 0]
    /\ u = [i \in Users |-> [pc |-> "out", i |-> 0, left |-> Rounds[i]]]
Init == ffwoh_create
Go(i, pc) == u' = [u EXCEPT ![i].pc = pc]

-----------------------------------------------------------------------------
(* The kernel, external: a handle is signalled.                            *)
Signal(h) == h \notin w.sig /\ w' = [w EXCEPT !.sig = @ \union {h}] /\ UNCHANGED <<k, u>>

(* ffwoh_add().                                                            *)
AddLock(i) == u[i].pc = "out" /\ u[i].left > 0 /\ w.lk = NoUser /\ w' = [w EXCEPT !.lk = i] /\ Go(i, "add") /\ UNCHANGED k
AddItem(i) ==
    /\ u[i].pc = "add" /\ UNCHANGED k
    /\ IF Len(w.hdls) = MaxWait \/ w.dead
       THEN w' = [w EXCEPT !.lk = NoUser] /\ u' = [u EXCEPT ![i].pc = "out", ![i].left = @ - 1]
       ELSE w' = [w EXCEPT !.lk = NoUser, !.hdls = Append(@, i)] /\ Go(i, "added")
\* by then the handler may have been called, and have removed the handle
AddWake(i) ==
    /\ u[i].pc = "added" /\ w' = [w EXCEPT !.wake = TRUE] /\ UNCHANGED k
    /\ u' = [u EXCEPT ![i].pc = IF i \in Range(w.hdls) THEN "in" ELSE "out", ![i].left = @ - 1]

(* ffwoh_rm() by another thread: the entries are searched one by one       *)
(* before the lock is taken, while others remove theirs, and the lock is   *)
(* held while the worker is awaited.  Where the place is beyond the end by *)
(* now it is the last entry that goes.  A search after the worker's wait   *)
(* has failed, with a count of -1, goes on past the arrays.                *)
removedLast(x, i) == [x EXCEPT !.hdls = Front(@)]
removed(x, i) == LET n == Len(x.hdls) IN [x EXCEPT !.hdls = SubSeq([x.hdls EXCEPT ![Min({i, n})] = x.hdls[n]], 1, n - 1)]
RmFind(i) == u[i].pc = "in" /\ u' = [u EXCEPT ![i].pc = "find", ![i].i = 2] /\ UNCHANGED <<w, k>>
RmNext(i) ==
    /\ u[i].pc = "find" /\ u[i].i \in DOMAIN w.hdls /\ UNCHANGED <<w, k>>
    /\ IF w.hdls[u[i].i] = i THEN Go(i, "lock") ELSE u' = [u EXCEPT ![i].i = @ + 1]
RmNone(i) ==
    /\ u[i].pc = "find" /\ u[i].i \notin DOMAIN w.hdls /\ Go(i, IF w.dead THEN "lost" ELSE "out")
    /\ w' = [w EXCEPT !.stale = @ \/ i \in Range(w.hdls)] /\ UNCHANGED k
Misplaced(i) == u[i].i \notin DOMAIN w.hdls \/ w.hdls[u[i].i] # i
RmLock(i) ==
    /\ u[i].pc = "lock" /\ w.lk = NoUser /\ Go(i, "cmd") /\ UNCHANGED k
    /\ w' = [w EXCEPT !.lk = i, !.stale = @ \/ Misplaced(i)]
RmCmd(i) == u[i].pc = "cmd" /\ w' = [w EXCEPT !.cmd = "wait"] /\ Go(i, "wake") /\ UNCHANGED k
RmWake(i) == u[i].pc = "wake" /\ w' = [w EXCEPT !.wake = TRUE] /\ Go(i, "wait") /\ UNCHANGED k
RmWait(i) == u[i].pc = "wait" /\ w.wait /\ w' = [w EXCEPT !.wait = FALSE] /\ Go(i, "cut") /\ UNCHANGED k
RmCut(i) == u[i].pc = "cut" /\ Go(i, "out") /\ w' = [removed(w, u[i].i) EXCEPT !.lk = NoUser] /\ UNCHANGED k

(* The worker.  It reads the number of handles without the lock; the       *)
(* kernel reports the first handle of those that are signalled.            *)
Loop == k.pc = "loop" /\ k' = [k EXCEPT !.count = Len(w.hdls), !.pc = "kernel"] /\ UNCHANGED <<w, u>>
Ready(i) == IF w.hdls[i] = Wake THEN w.wake ELSE w.hdls[i] \in w.sig
Wait ==
    /\ k.pc = "kernel" /\ UNCHANGED u
    /\ \E i \in 1..Min({k.count, Len(w.hdls)}) :
         /\ Ready(i) /\ \A j \in 1..(i - 1) : ~Ready(j)
         /\ k' = [k EXCEPT !.pc = IF i = 1 THEN "cmd" ELSE "call", !.h = w.hdls[i], !.i = i]
         /\ w' = IF w.hdls[i] = Wake THEN [w EXCEPT !.wake = FALSE] ELSE [w EXCEPT !.sig = @ \ {w.hdls[i]}]
WaitFails == k.pc = "kernel" /\ k.count # 1 /\ k' = [k EXCEPT !.pc = "fail"] /\ UNCHANGED <<w, u>>
Dies == k.pc = "fail" /\ w.lk = NoUser /\ w' = [w EXCEPT !.dead = TRUE] /\ k' = [k EXCEPT !.pc = "end"] /\ UNCHANGED u
Command ==
    /\ k.pc = "cmd" /\ UNCHANGED u
    /\ w' = [w EXCEPT !.cmd = "run", !.wait = @ \/ w.cmd = "wait"]
    /\ k' = [k EXCEPT !.pc = CASE w.cmd = "quit" -> "end" [] w.cmd = "wait" -> "lock" [] OTHER -> "loop"]
Locked == k.pc = "lock" /\ w.lk = NoUser /\ k' = [k EXCEPT !.pc = "loop"] /\ UNCHANGED <<w, u>>
Handler ==      \* items[i].handler: that of the handle that is at i by now
    /\ k.pc = "call" /\ UNCHANGED <<w, u>>
    /\ LET h == IF k.i \in DOMAIN w.hdls THEN w.hdls[k.i] ELSE k.h
       IN \E pc \in {"loop"} \cup (IF h \in RmInHandler THEN {"rm"} ELSE {}) : k' = [k EXCEPT !.pc = pc, !.h = h]
SelfRm ==       \* ffwoh_rm() by the handler, which awaits nobody: no other removal ends meanwhile
    /\ k.pc = "rm" /\ w.lk = NoUser /\ k' = [k EXCEPT !.pc = "loop"]
    /\ w' = removed(w, CHOOSE j \in DOMAIN w.hdls : j > 1 /\ w.hdls[j] = k.h /\ \A m \in 2..(j - 1) : w.hdls[m] # k.h)
    /\ u' = [u EXCEPT ![k.h].pc = IF @ = "in" THEN "out" ELSE @]

(* ffwoh_free(), once no thread uses the object.                           *)
Free ==
    /\ \A i \in Users : u[i].pc = "out" /\ u[i].left = 0
    /\ w.cmd # "quit" /\ k.pc # "end" /\ w' = [w EXCEPT !.cmd = "quit", !.wake = TRUE] /\ UNCHANGED <<k, u>>

Work == Loop \/ Wait \/ Command \/ Locked \/ Handler \/ SelfRm \/ Dies
User(i) == AddLock(i) \/ AddItem(i) \/ AddWake(i) \/ RmFind(i) \/ RmNext(i) \/ RmNone(i) \/ RmLock(i) \/ RmCmd(i) \/ RmWake(i) \/ RmWait(i) \/ RmCut(i)
Next == Work \/ WaitFails \/ Free \/ \E i \in Users : User(i) \/ Signal(i)
Spec == Init /\ [][Next]_vars
(* Every thread runs, and a thread that spins on the lock gets it when it  *)
(* is free often enough.                                                   *)
FairSpec == Spec /\ SF_vars(Work) /\ \A i \in Users : SF_vars(User(i))

-----------------------------------------------------------------------------
(* A handle is registered exactly while its owner thinks that it is, and   *)
(* once: no removal takes another thread's entry.                          *)
OwnHandles ==
    \A i \in Users : /\ \A a, b \in DOMAIN w.hdls : w.hdls[a] = i /\ w.hdls[b] = i => a = b
                     /\ u[i].pc = "in" => i \in Range(w.hdls)
                     /\ u[i].pc = "out" => i \notin Range(w.hdls)

(* When ffwoh_rm() has returned to a thread the handler of its handle does *)
(* not run and will not: the thread may free what the handler uses.        *)
NotCalled == \A i \in Users : u[i].pc = "out" => ~(k.pc \in {"call", "rm"} /\ k.h = i)

(* The handler that is called is that of the handle the kernel reported:   *)
(* the entry does not move between the wait and items[i].                  *)
CallsOwn == k.pc \in {"call", "rm"} => k.i \in DOMAIN w.hdls /\ w.hdls[k.i] = k.h

(* All of it until a removal has passed over its handle or has taken the   *)
(* lock with a place that another removal has changed.                     *)
RemovedIsGone == w.stale \/ (OwnHandles /\ NotCalled /\ CallsOwn)

(* A removal waits "until the worker thread returns from the kernel", and  *)
(* then comes to its end, unless the worker's wait has failed.             *)
RmReturns == \A i \in Users : (u[i].pc = "lock" ~> (u[i].pc = "out" \/ k.pc \in {"fail", "end"}))

\* For model checking: two threads, each of which adds its handle once.
OneRound == <<1, 1>>
=============================================================================
