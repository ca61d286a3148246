---------------------------- MODULE BoundedQueue ----------------------------
(***************************************************************************)
(* What a ring of pointers promises its callers: a first-in first-out      *)
(* queue of at most Capacity elements.  A write that returns 0 has         *)
(* appended its element, a read that returns 0 has removed the oldest one. *)
(*                                                                         *)
(* Exact says how much a failed call tells its caller.  With Exact = TRUE  *)
(* "full" is returned only while Capacity elements are unread and "empty"  *)
(* only while none is; with Exact = FALSE both calls may also fail         *)
(* spuriously and the caller has to try again.                             *)
(***************************************************************************)
EXTENDS Naturals, Sequences

CONSTANTS Writers, Readers, Values, Capacity, Exact, Busy, Full, Empty, Ok

VARIABLES queue,   \* the unread elements, oldest first
          wval,    \* wval[w]: the element of w's last write call
          wret,    \* wret[w]: what w's last write returned, or Busy
          rret     \* rret[x]: what x's last read returned, or Busy

qvars == <<queue, wval, wret, rret>>

Init == /\ queue = << >>
        /\ wval \in [Writers -> Values]
        /\ wret = [w \in Writers |-> Ok]
        /\ rret = [x \in Readers |-> Empty]

CallWrite(w, p) == /\ wret[w] # Busy
                   /\ wval' = [wval EXCEPT ![w] = p]
                   /\ wret' = [wret EXCEPT ![w] = Busy]
                   /\ UNCHANGED <<queue, rret>>

Put(w) == /\ wret[w] = Busy
          /\ Len(queue) < Capacity
          /\ queue' = Append(queue, wval[w])
          /\ wret' = [wret EXCEPT ![w] = Ok]
          /\ UNCHANGED <<wval, rret>>

PutFails(w) == /\ wret[w] = Busy
               /\ Exact => Len(queue) = Capacity
               /\ wret' = [wret EXCEPT ![w] = Full]
               /\ UNCHANGED <<queue, wval, rret>>

CallRead(x) == /\ rret[x] # Busy
               /\ rret' = [rret EXCEPT ![x] = Busy]
               /\ UNCHANGED <<queue, wval, wret>>

Get(x) == /\ rret[x] = Busy
          /\ queue # << >>
          /\ rret' = [rret EXCEPT ![x] = Head(queue)]
          /\ queue' = Tail(queue)
          /\ UNCHANGED <<wval, wret>>

GetFails(x) == /\ rret[x] = Busy
               /\ Exact => queue = << >>
               /\ rret' = [rret EXCEPT ![x] = Empty]
               /\ UNCHANGED <<queue, wval, wret>>

Next == \/ \E w \in Writers : Put(w) \/ PutFails(w)
        \/ \E w \in Writers, p \in Values : CallWrite(w, p)
        \/ \E x \in Readers : CallRead(x) \/ Get(x) \/ GetFails(x)

Spec == Init /\ [][Next]_qvars
=============================================================================
