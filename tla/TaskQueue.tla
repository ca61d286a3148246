----------------------------- MODULE TaskQueue ------------------------------
(***************************************************************************)
(* fftaskmgr (FF/sys/taskqueue.h, FF/sys/ffsys.c): threads post tasks into *)
(* a doubly linked list under a spin lock; one consumer thread looks at    *)
(* the head of the list without the lock, takes the lock to unlink it and  *)
(* calls its handler without the lock.                                     *)
(*                                                                         *)
(* The list is the chain of FF/chain.h: nxt and prv are the links, the     *)
(* sentinel's are tasks.first and tasks.last, and a task with next = NULL  *)
(* is not in the queue.                                                    *)
(***************************************************************************)
EXTENDS Naturals, FiniteSets, Sequences

CONSTANTS Tasks,      \* the fftask objects
          Posters,    \* threads that only post
          Consumer,   \* the thread that runs, deletes, and posts from handlers
          MaxRun,     \* fftaskmgr.max_run
          Sentl,      \* fflist_sentl(&mgr->tasks)
          NULL

ASSUME TaskAssumption == /\ IsFiniteSet(Tasks)
                         /\ Sentl \notin Tasks \cup {NULL}
                         /\ NULL \notin Tasks
ASSUME ThreadAssumption == Consumer \notin Posters \cup {NULL} /\ NULL \notin Posters
ASSUME MaxRunAssumption == MaxRun \in Nat \ {0}

Threads == Posters \cup {Consumer}
Nodes == Tasks \cup {Sentl}

VARIABLES nxt, prv, len,                \* the list mgr->tasks
          lk,                           \* the holder of mgr->lk, or NULL
          ppc, ptask, after, wasempty,  \* fftask_post(): position, task, last, r
          cpc, it, n,                   \* fftask_run(): position, it, n
          sig                           \* the consumer has been told to run

lvars == <<nxt, prv, len>>
pvars == <<ppc, ptask, after, wasempty>>
cvars == <<cpc, it, n>>
vars == <<nxt, prv, len, lk, ppc, ptask, after, wasempty, cpc, it, n, sig>>

\* fftask_active()
active(t) == nxt[t] # NULL

\* fftask_init(); the tasks are zeroed.
Init == /\ nxt = [x \in Nodes |-> IF x = Sentl THEN Sentl ELSE NULL]
        /\ prv = [x \in Nodes |-> IF x = Sentl THEN Sentl ELSE NULL]
        /\ len = 0
        /\ lk = NULL
        /\ ppc = [th \in Threads |-> "idle"]
        /\ ptask = [th \in Threads |-> NULL]
        /\ after = [th \in Threads |-> Sentl]
        /\ wasempty = [th \in Threads |-> FALSE]
        /\ cpc = "sleep" /\ it = Sentl /\ n = MaxRun
        /\ sig = FALSE
-----------------------------------------------------------------------------
(* fftask_post() *)

\* The locals of a call die with it: they go back to where they were.
PostLock(th, t) == /\ ppc[th] = "idle"
                   /\ lk = NULL
                   /\ lk' = th
                   /\ ptask' = [ptask EXCEPT ![th] = t]
                   /\ ppc' = [ppc EXCEPT ![th] = "check"]
                   /\ UNCHANGED <<lvars, after, wasempty, it, n, sig>>

\* A thread posts whenever it likes, the consumer from the handler it runs.
\* One handler call posts or deletes at most once.
PostCall(th, t) == /\ PostLock(th, t)
                   /\ IF th = Consumer THEN cpc = "handler" /\ cpc' = "handled"
                                       ELSE UNCHANGED cpc

\* The task is in the queue already: nothing to do, return 0.
PostActive(th) == /\ ppc[th] = "check"
                  /\ active(ptask[th])
                  /\ lk' = NULL
                  /\ ppc' = [ppc EXCEPT ![th] = "idle"]
                  /\ ptask' = [ptask EXCEPT ![th] = NULL]
                  /\ UNCHANGED <<lvars, after, wasempty, cvars, sig>>

PostLinkFront(th) == /\ ppc[th] = "check"
                     /\ ~active(ptask[th])
                     /\ wasempty' = [wasempty EXCEPT ![th] = (nxt[Sentl] = Sentl)]
                     /\ after' = [after EXCEPT ![th] = Sentl]
                     /\ nxt' = [nxt EXCEPT ![ptask[th]] = nxt[Sentl], ![Sentl] = ptask[th]]
                     /\ prv' = [prv EXCEPT ![nxt[Sentl]] = ptask[th]]
                     /\ ppc' = [ppc EXCEPT ![th] = "linked"]
                     /\ UNCHANGED <<len, lk, ptask, cvars, sig>>

PostLinkThenAsk(th) == /\ ppc[th] = "check"
                       /\ ~active(ptask[th])
                       /\ nxt' = [nxt EXCEPT ![ptask[th]] = Sentl, ![prv[Sentl]] = ptask[th]]
                       /\ wasempty' = [wasempty EXCEPT ![th] = (nxt'[Sentl] = Sentl)]
                       /\ after' = [after EXCEPT ![th] = prv[Sentl]]
                       /\ prv' = [prv EXCEPT ![Sentl] = ptask[th]]
                       /\ ppc' = [ppc EXCEPT ![th] = "linked"]
                       /\ UNCHANGED <<len, lk, ptask, cvars, sig>>

\* fflist_ins() up to the write that makes the task visible to a consumer
\* that reads tasks.first without the lock: (after)->next = task.
PostLink(th) == /\ ppc[th] = "check"
                /\ ~active(ptask[th])
                /\ wasempty' = [wasempty EXCEPT ![th] = (nxt[Sentl] = Sentl)]
                /\ after' = [after EXCEPT ![th] = prv[Sentl]]
                /\ nxt' = [nxt EXCEPT ![ptask[th]] = Sentl, ![prv[Sentl]] = ptask[th]]
                /\ prv' = [prv EXCEPT ![Sentl] = ptask[th]]
                /\ ppc' = [ppc EXCEPT ![th] = "linked"]
                /\ UNCHANGED <<len, lk, ptask, cvars, sig>>

\* The rest of fflist_ins(): task->prev = after, len++; and the unlock.
PostUnlock(th) == /\ ppc[th] = "linked"
                  /\ prv' = [prv EXCEPT ![ptask[th]] = after[th]]
                  /\ len' = len + 1
                  /\ lk' = NULL
                  /\ ptask' = [ptask EXCEPT ![th] = NULL]
                  /\ after' = [after EXCEPT ![th] = Sentl]
                  /\ ppc' = [ppc EXCEPT ![th] = "return"]
                  /\ UNCHANGED <<nxt, wasempty, cvars, sig>>

\* "Return 1 if the queue was empty": the caller then wakes the consumer.
PostReturn(th) == /\ ppc[th] = "return"
                  /\ sig' = (sig \/ wasempty[th])
                  /\ wasempty' = [wasempty EXCEPT ![th] = FALSE]
                  /\ ppc' = [ppc EXCEPT ![th] = "idle"]
                  /\ UNCHANGED <<lvars, lk, ptask, after, cvars>>
-----------------------------------------------------------------------------
UnlinkOneWay(x) == /\ nxt' = [nxt EXCEPT ![prv[x]] = nxt[x], ![x] = NULL]
                   /\ len' = len - 1
                   /\ UNCHANGED prv

\* _ffchain_link2(x->prev, x->next); x->next = NULL
Unlink(x) == /\ nxt' = [nxt EXCEPT ![prv[x]] = nxt[x], ![x] = NULL]
             /\ prv' = [prv EXCEPT ![nxt[x]] = prv[x]]
             /\ len' = len - 1

\* It also clears x->prev.
ffchain_unlink(x) == /\ nxt' = [nxt EXCEPT ![prv[x]] = nxt[x], ![x] = NULL]
                     /\ prv' = [prv EXCEPT ![nxt[x]] = prv[x], ![x] = NULL]
                     /\ len' = len - 1

\* fftask_del(): by the consumer ("one reader/deleter"), from a handler or
\* between two runs.  It changes nothing unless the task is in the queue.
Delete(t) == /\ cpc \in {"handler", "sleep"}
             /\ ppc[Consumer] = "idle"
             /\ lk = NULL
             /\ active(t)
             /\ ffchain_unlink(t)
             /\ cpc' = IF cpc = "handler" THEN "handled" ELSE cpc
             /\ UNCHANGED <<lk, pvars, it, n, sig>>
-----------------------------------------------------------------------------
(* The consumer's loop, and fftask_run() *)

\* The consumer sleeps until a poster tells it that the queue was empty.
Wake == /\ cpc = "sleep"
        /\ sig
        /\ sig' = FALSE
        /\ n' = MaxRun
        /\ cpc' = "load"
        /\ UNCHANGED <<lvars, lk, pvars, it>>

\* it = FF_READONCE(mgr->tasks.first), without the lock.
RunLoad == /\ cpc = "load"
           /\ n # 0
           /\ it' = nxt[Sentl]
           /\ cpc' = IF nxt[Sentl] = Sentl THEN "sleep" ELSE "lock"
           /\ UNCHANGED <<lvars, lk, pvars, n, sig>>

\* The critical section: the item seen before the lock was taken is unlinked.
RunUnlink == /\ cpc = "lock"
             /\ lk = NULL
             /\ Unlink(it)
             /\ cpc' = "handler"
             /\ UNCHANGED <<lk, pvars, it, n, sig>>

\* task->handler(task->param) returns.
RunHandled == /\ cpc \in {"handler", "handled"}
              /\ ppc[Consumer] = "idle"
              /\ n' = n - 1
              /\ cpc' = "load"
              /\ UNCHANGED <<lvars, lk, pvars, it, sig>>

\* max_run tasks have been executed: the caller sees that the run was cut
\* short and calls again.
RunAgain == /\ cpc = "load"
            /\ n = 0
            /\ n' = MaxRun
            /\ UNCHANGED <<lvars, lk, pvars, cpc, it, sig>>
-----------------------------------------------------------------------------
PostStep(th) == \/ PostActive(th) \/ PostLink(th) \/ PostUnlock(th) \/ PostReturn(th)
RunStep == Wake \/ RunLoad \/ RunHandled \/ RunAgain

Next == \/ \E th \in Threads, t \in Tasks : PostCall(th, t)
        \/ \E th \in Threads : PostStep(th)
        \/ \E t \in Tasks : Delete(t)
        \/ RunStep \/ RunUnlink

Spec == Init /\ [][Next]_vars

\* Every thread inside a call runs on, handlers return, the consumer wakes up
\* when told to, and the spin lock lets in a consumer that keeps trying.
Fairness == /\ \A th \in Threads : WF_vars(PostStep(th))
            /\ WF_vars(RunStep) /\ SF_vars(RunUnlink)
FairSpec == Spec /\ Fairness
-----------------------------------------------------------------------------
TypeOK == /\ nxt \in [Nodes -> Nodes \cup {NULL}]
          /\ prv \in [Nodes -> Nodes \cup {NULL}]
          /\ len \in Nat
          /\ lk \in Threads \cup {NULL}
          /\ ppc \in [Threads -> {"idle", "check", "linked", "return"}]
          /\ ptask \in [Threads -> Tasks \cup {NULL}]
          /\ after \in [Threads -> Nodes]
          /\ wasempty \in [Threads -> BOOLEAN]
          /\ cpc \in {"sleep", "load", "lock", "handler", "handled"}
          /\ it \in Nodes
          /\ n \in IF cpc \in {"sleep", "load"} THEN 0..MaxRun ELSE 1..MaxRun
          /\ sig \in BOOLEAN

\* FF_ASSERT(mgr->tasks.len != 0) in fftask_run() and in fflist_rm(): whoever
\* unlinks an item under the lock finds a list that counts it.
LenAssert == /\ cpc = "lock" /\ lk = NULL => len # 0
             /\ lk = NULL /\ (\E t \in Tasks : active(t)) => len # 0

\* The item that fftask_run() saw at the head without the lock is still the
\* head when it gets the lock, whatever was posted in between.
SeenIsFirst == cpc = "lock" => it = nxt[Sentl] /\ it \in Tasks

\* The queue as a sequence: the chain from tasks.first to the sentinel.
chainOf(f) ==
    LET node[k \in 0..Cardinality(Tasks)] ==
            IF k = 0 THEN f[Sentl]
            ELSE IF node[k - 1] \in Tasks THEN f[node[k - 1]] ELSE node[k - 1]
    IN [k \in 1..Cardinality({j \in 0..Cardinality(Tasks) : node[j] \in Tasks}) |-> node[k - 1]]
chain == chainOf(nxt)
Fifo == INSTANCE TaskFifo WITH NoTask <- NULL,
            pending <- chain, running <- IF cpc \in {"handler", "handled"} THEN it ELSE NULL

\* The linked list is a first-in first-out queue without duplicates, and
\* every task taken from it is run exactly once.
IsFifo == Fifo!Spec

\* A task in the queue leaves it: no wakeup is lost, although only the post
\* that finds the queue empty reports it and one run is cut off at max_run.
TasksRun == \A t \in Tasks : active(t) ~> ~active(t)
-----------------------------------------------------------------------------
(* The inductive invariant behind LenAssert and SeenIsFirst. *)

\* Who holds the lock is inside fftask_post() with a task to link.
LockInv == \A th \in Threads :
    /\ ppc[th] \in {"check", "linked"} <=> lk = th
    /\ ppc[th] \in {"check", "linked"} => ptask[th] \in Tasks
    /\ ppc[th] = "linked" => active(ptask[th])

linking == lk # NULL /\ ppc[lk] = "linked"

\* prev, or what the poster in the middle of fflist_ins() will make of it.
back(x) == IF linking /\ x = ptask[lk] THEN after[lk] ELSE prv[x]

\* The links of the items in the list are inverse to each other: no item is
\* half unlinked, and none is reachable that was taken out.
ListInv == /\ nxt[Sentl] # NULL
           /\ \A x \in Nodes : nxt[x] # NULL =>
                /\ nxt[nxt[x]] # NULL /\ back(nxt[x]) = x
                /\ back(x) \in Nodes /\ nxt[back(x)] = x

Active == {t \in Tasks : active(t)}
LenInv == Cardinality(Active) = IF linking THEN len + 1 ELSE len

\* Whatever the posters have done to the list when the consumer takes the lock,
\* its links and its length are consistent and the item seen is its head.
TaskInv == TypeOK /\ LockInv /\ ListInv /\ LenInv /\ SeenIsFirst

\* f leads from the sentinel through s, each item once, and back to the
\* sentinel, and nothing else is linked.
IsList(s, f) ==
    /\ s \in Seq(Tasks)
    /\ f[Sentl] = IF s = << >> THEN Sentl ELSE s[1]
    /\ \A i \in 1..Len(s) : f[s[i]] = IF i = Len(s) THEN Sentl ELSE s[i + 1]
    /\ \A i, j \in 1..Len(s) : s[i] = s[j] => i = j
    /\ \A t \in Tasks : f[t] # NULL => \E i \in 1..Len(s) : s[i] = t

\* Links that are inverse to each other might still form several rings: there
\* is one, from tasks.first to tasks.last, and every task in the queue is in it.
FifoInv == TaskInv /\ IsList(chain, nxt)
=============================================================================
