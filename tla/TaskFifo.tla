------------------------------ MODULE TaskFifo ------------------------------
(***************************************************************************)
(* What the task queue promises (FF/sys/taskqueue.h): a task is in the     *)
(* queue at most once, tasks run one at a time in the order in which they  *)
(* were posted, and a task that was removed does not run.                  *)
(***************************************************************************)
EXTENDS Naturals, SequencesExt

CONSTANTS Tasks, NoTask

VARIABLES pending,   \* tasks waiting, oldest first
          running    \* the task whose handler runs, or NoTask

fvars == <<pending, running>>

Queued(t) == \E i \in 1..Len(pending) : pending[i] = t

Init == pending = << >> /\ running = NoTask

Post(t) == /\ ~Queued(t)
           /\ pending' = Append(pending, t)
           /\ UNCHANGED running

Delete(i) == /\ pending' = RemoveAt(pending, i)
             /\ UNCHANGED running

Run == /\ running = NoTask
       /\ pending # << >>
       /\ running' = Head(pending)
       /\ pending' = Tail(pending)

Finish == /\ running # NoTask
          /\ running' = NoTask
          /\ UNCHANGED pending

Next == \/ Run \/ Finish
        \/ \E t \in Tasks : Post(t)
        \/ \E i \in 1..Len(pending) : Delete(i)

Spec == Init /\ [][Next]_fvars
=============================================================================
