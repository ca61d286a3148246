------------------------------ MODULE MCQueues ------------------------------
(***************************************************************************)
(* Instance for TLC of the two queues of an event loop, of tasks and of    *)
(* timers.  They share nothing: a behaviour is of the one or the other.    *)
(***************************************************************************)
EXTENDS TaskQueue, TimerQueue

VARIABLE which    \* the queue that is used

\* A one-shot timer and two periodic ones of different pace.
SmallIntervals == {-2, 1, 2}

QueuesInit == Init /\ TimerInit /\ which \in {"tasks", "timers"}

QueuesNext == \/ which = "tasks" /\ Next /\ UNCHANGED <<timervars, which>>
              \/ which = "timers" /\ TimerNext /\ UNCHANGED <<vars, which>>

\* The kernel timer keeps ticking while it is started, handlers return and the
\* clock runs.
QueuesSpec == /\ QueuesInit /\ [][QueuesNext]_<<vars, timervars, which>>
              /\ Fairness
              /\ WF_timervars(OnFire) /\ WF_timervars(Fire \/ FireEnd)
              /\ WF_timervars(HandlerReturns) /\ WF_timervars(which = "timers" /\ Tick)
=============================================================================
