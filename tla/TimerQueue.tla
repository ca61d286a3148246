----------------------------- MODULE TimerQueue -----------------------------
(***************************************************************************)
(* fftimer_queue (FF/sys/timer-queue.h, FF/sys/fftmr.c): timers in a tree  *)
(* ordered by the time they are due, and one kernel timer whose ticks call *)
(* tmrq_onfire().  The handlers it calls add and remove timers, stop and   *)
(* destroy the queue while the loop over the tree is going on.             *)
(*                                                                         *)
(* The tree is a sequence in its in-order: insertion goes to the right of  *)
(* equal keys (tree_instimer()) and rotations keep the order.              *)
(***************************************************************************)
EXTENDS Integers, SequencesExt

CONSTANTS Entries,    \* the fftmrq_entry objects
          Intervals,  \* the intervals they are added with
          MaxClock    \* bound: the last value of the clock, in milliseconds

ASSUME IntervalAssumption == Intervals \subseteq Int \ {0}
ASSUME ClockAssumption == MaxClock \in Nat \ {0}

VARIABLES clock,               \* ffclk_gettime()
          items, key, interval,\* the tree; tnode.key and interval of each entry
          msec_time,           \* fftimer_queue.msec_time
          tmr, started,        \* is there a kernel timer, and is it started
          live,                \* between fftmrq_init() and fftmrq_destroy()
          pc,             \* tmrq_onfire(): position, the entry whose handler runs
          fired, lastkey       \* history: handlers called at this msec_time, last key

queue == <<items, key, interval>>
timervars == <<clock, items, key, interval, msec_time, tmr, started, live, pc, fired, lastkey>>

abs(i) == IF i < 0 THEN -i ELSE i
max(a, b) == IF a > b THEN a ELSE b
Queued(e) == e \in ToSet(items)

fftmrq_active(e) == key[e] # 0

insertLast(s, e, k, keys) == Append(s, e)

\* Where tree_instimer() puts a node: behind every node that is not later.
insert(s, e, k, keys) ==
    InsertAt(s, 1 + Cardinality({j \in 1..Len(s) : keys[s[j]] <= k}), e)

\* The tree without e, which is in it once.
remove(s, e) == RemoveAt(s, CHOOSE i \in 1..Len(s) : s[i] = e)

\* The clock is past 0 when the program starts; the entries are zeroed.
TimerInit == /\ clock = 1
             /\ items = << >>
             /\ key = [e \in Entries |-> 0]
             /\ interval = [e \in Entries |-> 0]
             /\ msec_time = 1
             /\ tmr = FALSE /\ started = FALSE /\ live = TRUE
             /\ pc = "idle"
             /\ fired = {} /\ lastkey = 0

\* tmrq_update(): handlers called before it were called at another time.
update == /\ msec_time' = clock
          /\ fired' = IF msec_time = clock THEN fired ELSE {}
-----------------------------------------------------------------------------
\* The user's calls come from the event loop or from a handler.
UserRuns == pc \in {"idle", "handler"}

\* fftmrq_init() of a queue that was destroyed; its entries are set up anew.
InitAgain == /\ ~live /\ pc = "idle"
             /\ live' = TRUE
             /\ key' = [e \in Entries |-> 0]
             /\ update
             /\ UNCHANGED <<clock, items, interval, tmr, started, pc, lastkey>>

\* fftmrq_start(): the kernel timer is created if need be, which may fail, as
\* may starting it.
Start == /\ UserRuns /\ live
         /\ \/ UNCHANGED <<tmr, started, msec_time, fired>>
            \/ tmr' = TRUE /\ UNCHANGED <<started, msec_time, fired>>
            \/ tmr' = TRUE /\ started' = TRUE /\ update
         /\ UNCHANGED <<clock, queue, live, pc, lastkey>>

Stop == /\ UserRuns /\ live
        /\ started' = FALSE
        /\ UNCHANGED <<clock, queue, msec_time, tmr, live, pc, fired, lastkey>>

\* fftmrq_destroy(): the tree is emptied; the entries are not touched.
Destroy == /\ UserRuns /\ live
           /\ items' = << >>
           /\ tmr' = FALSE /\ started' = FALSE /\ live' = FALSE
           /\ UNCHANGED <<clock, key, interval, msec_time, pc, fired, lastkey>>

\* fftmrq_add() of an entry that is not in the queue.
Add(e, i) == /\ UserRuns /\ live
             /\ ~Queued(e)
             /\ key' = [key EXCEPT ![e] = msec_time + abs(i)]
             /\ interval' = [interval EXCEPT ![e] = i]
             /\ items' = insert(items, e, msec_time + abs(i), key)
             /\ UNCHANGED <<clock, msec_time, tmr, started, live, pc, fired, lastkey>>

\* fftmrq_rm() of an entry that is in the queue.
Rm(e) == /\ UserRuns /\ live
         /\ Queued(e)
         /\ items' = remove(items, e)
         /\ key' = [key EXCEPT ![e] = 0]
         /\ UNCHANGED <<clock, interval, msec_time, tmr, started, live, pc, fired, lastkey>>
-----------------------------------------------------------------------------
(* tmrq_onfire() *)

OnFireStale == /\ pc = "idle" /\ started
               /\ fired' = {} /\ lastkey' = 0
               /\ pc' = "loop"
               /\ UNCHANGED <<clock, queue, msec_time, tmr, started, live>>

\* The kernel timer ticks.
OnFire == /\ pc = "idle" /\ started
          /\ msec_time' = clock
          /\ fired' = {} /\ lastkey' = 0
          /\ pc' = "loop"
          /\ UNCHANGED <<clock, queue, tmr, started, live>>

nextkeyBehind(e) == key[e] + abs(interval[e])
nextkeySame(e) == key[e]

\* When a periodic timer is due again: at its own pace, and never in this tick.
nextkey(e) == max(key[e] + abs(interval[e]), msec_time + 1)

\* A one-shot timer leaves the tree, a periodic one goes back into it.
reschedule(e) ==
    IF interval[e] <= 0
    THEN /\ items' = Tail(items)
         /\ key' = [key EXCEPT ![e] = 0]
    ELSE /\ items' = insert(Tail(items), e, nextkey(e), key)
         /\ key' = [key EXCEPT ![e] = nextkey(e)]

\* One turn of the loop up to the call of the handler.
Fire == /\ pc = "loop"
        /\ items # << >>
        /\ key[Head(items)] <= msec_time
        /\ reschedule(Head(items))
        /\ fired' = fired \cup {Head(items)}
        /\ lastkey' = key[Head(items)]
        /\ pc' = "handler"
        /\ UNCHANGED <<clock, interval, msec_time, tmr, started, live>>

HandlerReturns == /\ pc = "handler"
                  /\ pc' = "loop"
                  /\ UNCHANGED <<clock, queue, msec_time, tmr, started, live, fired, lastkey>>

\* Nothing more is due.
FireEnd == /\ pc = "loop"
           /\ items # << >> => key[Head(items)] > msec_time
           /\ pc' = "idle"
           /\ UNCHANGED <<clock, queue, msec_time, tmr, started, live, fired, lastkey>>

\* Time passes at any moment, in a handler too.
Tick == /\ clock < MaxClock
        /\ clock' = clock + 1
        /\ UNCHANGED <<queue, msec_time, tmr, started, live, pc, fired, lastkey>>
-----------------------------------------------------------------------------
Loop == OnFire \/ Fire \/ HandlerReturns \/ FireEnd

TimerNext == \/ InitAgain \/ Start \/ Stop \/ Destroy \/ Loop \/ Tick
             \/ \E e \in Entries : Rm(e) \/ \E i \in Intervals : Add(e, i)

TimerSpec == TimerInit /\ [][TimerNext]_timervars
-----------------------------------------------------------------------------
TimerTypeOK == /\ clock \in 1..MaxClock /\ msec_time \in 1..MaxClock
               /\ items \in Seq(Entries)
               /\ key \in [Entries -> Nat]
               /\ interval \in [Entries -> Intervals \cup {0}]
               /\ tmr \in BOOLEAN /\ started \in BOOLEAN /\ live \in BOOLEAN
               /\ pc \in {"idle", "loop", "handler"}
               /\ fired \subseteq Entries /\ lastkey \in Nat

\* Whatever handlers do to the queue in the middle of a tick, its first entry
\* is the next one due, no entry is in it twice and all of them are active.
Ordered(s, keys) == \A i, j \in 1..Len(s) : i < j => /\ keys[s[i]] <= keys[s[j]]
                                                     /\ s[i] # s[j]
OrderedByTime == Ordered(items, key) /\ \A e \in ToSet(items) : fftmrq_active(e)

\* No handler is called twice at one time: a periodic timer that is late is not
\* made up for, and a handler that adds its timer again does not keep
\* tmrq_onfire() busy.
\* Within a tick the handlers are called in the order of their times.
OncePerTime == [][pc = "loop" /\ pc' = "handler" => fired' # fired /\ lastkey' >= lastkey]_timervars

\* Why these hold: a timer whose handler was called at this time is due later,
\* if it is in the tree at all, and no key lies before the last one called.
TimerInv ==
    /\ TimerTypeOK /\ OrderedByTime
    /\ lastkey <= msec_time /\ msec_time <= clock
    /\ ~live => items = << >>
    /\ \A e \in ToSet(items) : /\ key[e] >= lastkey
                               /\ e \in fired => key[e] > msec_time

\* A timer that is due fires or is removed, as long as the queue runs.
DueFires == \A e \in Entries :
    (Queued(e) /\ key[e] <= clock /\ started) ~> (~Queued(e) \/ key[e] > clock \/ ~started)

\* tmrq_onfire() returns to the event loop whatever its handlers do.
OnFireReturns == pc # "idle" ~> pc = "idle"
=============================================================================
