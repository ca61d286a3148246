------------------------------- MODULE MCRing -------------------------------
(***************************************************************************)
(* Instance of RingLap for TLC: a ring in which several slots can be       *)
(* reserved at once, used by every crew of three of the threads, two       *)
(* writers and a reader or one writer and two readers.  Those who are not  *)
(* in the crew never call.                                                 *)
(***************************************************************************)
EXTENDS RingLap, FiniteSets

VARIABLE crew

Crews == {c \in SUBSET (Writers \cup Readers) : Cardinality(c) = 3}

CrewInit == LapInit /\ crew \in Crews
CrewNext ==
    /\ LapNext
    /\ \A w \in Writers \ crew : wpc'[w] = "idle"
    /\ \A x \in Readers \ crew : rpc'[x] = "idle"
    /\ UNCHANGED crew

CrewSafety == CrewInit /\ [][CrewNext]_<<lapvars, crew>>
=============================================================================
