------------------------------ MODULE HashTab ------------------------------
(***************************************************************************)
(* The hash table of FF/ffhashtab.c: open addressing with linear probing   *)
(* in a number of slots that is a power of 2.                              *)
(***************************************************************************)
EXTENDS Integers

CONSTANTS Items,    \* what the user tells ffhst_init() to expect
          Hash      \* key -> its hash

VARIABLES ht, f, put
vars == <<ht, f, put>>

Keys == DOMAIN Hash
None == "none"
Power2(n) == CHOOSE p \in {1, 2, 4, 8, 16, 32} : p >= n /\ (p = 1 \/ p \div 2 < n)

(* ffhst_init(): at most three quarters are to be used.                    *)
nslots == LET n == Items + 1
              p == Power2(n)
          IN IF (p * 75) \div 100 < n THEN Power2(p + 1) ELSE p
Init == ht = [len |-> 0, slots |-> [i \in 0..(nslots - 1) |-> None]] /\ f = [key |-> None, slot |-> 0, got |-> None] /\ put = {}

slotOf(hash) == hash % nslots
collnext(slot) == (slot + 1) % nslots
(* The d-th slot after slot; the first of these that holds one of S.       *)
nth(slot, d) == (slot + d) % nslots
FirstOf(slot, d, S) == ht.slots[nth(slot, d)] \in S /\ \A c \in 0..(d - 1) : ht.slots[nth(slot, c)] \notin S
firstEmpty(slot) == nth(slot, CHOOSE d \in 0..(nslots - 1) : FirstOf(slot, d, {None}))
Ins(key) ==
    /\ f.key = None /\ UNCHANGED f
    /\ IF ht.len + 1 > nslots THEN UNCHANGED <<ht, put>>
       ELSE /\ ht' = [ht EXCEPT !.len = @ + 1, !.slots[firstEmpty(slotOf(Hash[key]))] = key]
            /\ put' = put \union {key}
(* ffhst_find_el(), a slot at a time.                                      *)
FindStart(key) == f.key = None /\ f' = [key |-> key, slot |-> slotOf(Hash[key]), got |-> "search"] /\ UNCHANGED <<ht, put>>
Probe ==
    /\ f.key # None /\ UNCHANGED <<ht, put>>
    /\ LET it == ht.slots[f.slot]
       IN CASE it = None -> f' = [f EXCEPT !.key = None, !.got = None]
            [] it # None /\ Hash[it] = Hash[f.key] /\ it = f.key -> f' = [f EXCEPT !.key = None, !.got = it]
            [] OTHER -> f' = [f EXCEPT !.slot = collnext(@)]
Next == Probe \/ \E key \in Keys : FindStart(key) \/ (key \notin put /\ Ins(key))
Spec == Init /\ [][Next]_vars
FairSpec == Spec /\ WF_vars(Probe)

-----------------------------------------------------------------------------
(* Every key that was inserted is found where the probing ends, whichever  *)
(* keys collide, and no other key is: no hole separates a key from its     *)
(* slot.                                                                   *)
found(key) ==
    \E d \in 0..(nslots - 1) :
        FirstOf(slotOf(Hash[key]), d, {None, key}) /\ ht.slots[nth(slotOf(Hash[key]), d)] = key
FindTrue == \A key \in Keys : found(key) <=> key \in put

(* A search that is under way has met neither its key nor a hole, and has  *)
(* not gone round: there is still a slot to look at.  It goes round if and *)
(* only if there is no hole and its key is not in the table.               *)
Full == \A i \in 0..(nslots - 1) : ht.slots[i] # None
Endless == Full /\ f.key \notin put
Passed(key, d) == \A c \in 0..(d - 1) : ht.slots[nth(slotOf(Hash[key]), c)] \notin {None, key}
NotRound ==
    f.key # None /\ ~Endless => \E d \in 0..(nslots - 1) : f.slot = nth(slotOf(Hash[f.key]), d) /\ Passed(f.key, d)

(* What a search returns is the key if it was put into the table, else     *)
(* nothing.                                                                *)
Answer == f.key # None /\ f'.key = None => f'.got = IF f.key \in put THEN f.key ELSE None
Answers == [][Answer]_vars

(* A search is under way (hashtab.h: "Find an item ... NULL if not found") *)
(* and can end.                                                            *)
Finding == f.key # None /\ ~Endless
=============================================================================
