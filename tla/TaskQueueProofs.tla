-------------------------- MODULE TaskQueueProofs ---------------------------
(***************************************************************************)
(* Proofs about fftaskmgr for every number of tasks and posting threads    *)
(* and every max_run.                                                      *)
(***************************************************************************)
EXTENDS TaskQueue, DataLemmas, FunctionTheorems, TLAPS

LEMMA InitInv == Init => TaskInv
<1> SUFFICES ASSUME Init PROVE TaskInv
  OBVIOUS
<1>1. TypeOK
  <2>1. wasempty \in [Threads -> BOOLEAN] /\ sig \in BOOLEAN
    BY Zenon DEF Init
  <2>2. n \in 0..MaxRun /\ len \in Nat
    BY MaxRunAssumption DEF Init
  <2> QED
    BY <2>1, <2>2 DEF Init, TypeOK, Nodes
<1>2. LockInv /\ ~linking
  BY ThreadAssumption DEF Init, LockInv, linking, Threads
<1>3. ListInv
  BY <1>2, TaskAssumption DEF Init, ListInv, back, Nodes
<1>4. LenInv
  <2>1. Active = {}
    BY TaskAssumption DEF Init, Active, active, Nodes
  <2> QED
    BY <1>2, <2>1, FS_EmptySet DEF LenInv, Init
<1>5. SeenIsFirst
  BY DEF Init, SeenIsFirst
<1> QED
  BY <1>1, <1>2, <1>3, <1>4, <1>5 DEF TaskInv

LEMMA ActiveFinite ==
    /\ IsFiniteSet(Active) /\ Cardinality(Active) \in Nat
    /\ Active # {} => Cardinality(Active) > 0
<1>1. IsFiniteSet(Active)
  BY TaskAssumption, FS_Subset DEF Active
<1> QED
  BY <1>1, FS_CardinalityType, FS_EmptySet

\* An item in the list is counted, unless its poster is still linking it.
LEMMA InvLenAssert == TaskInv => LenAssert
<1> SUFFICES ASSUME TaskInv, lk = NULL PROVE (cpc = "lock" \/ Active # {}) => len # 0
  BY DEF LenAssert, Active
<1>1. cpc = "lock" => Active # {}
  <2> SUFFICES ASSUME cpc = "lock" PROVE it \in Active
    OBVIOUS
  <2>1. it = nxt[Sentl] /\ it \in Tasks /\ Sentl \in Nodes
    BY DEF TaskInv, SeenIsFirst, Nodes
  <2>2. nxt[it] # NULL
    BY <2>1 DEF TaskInv, ListInv
  <2> QED
    BY <2>1, <2>2 DEF Active, active
<1>2. Cardinality(Active) = len
  BY DEF TaskInv, LenInv, linking
<1> QED
  BY <1>1, <1>2, ActiveFinite

LEMMA Locking ==
    ASSUME TaskInv, NEW th \in Threads
    PROVE  /\ ppc[th] = "check" => lk = th /\ ~linking /\ ptask[th] \in Tasks
           /\ ppc[th] = "linked" => lk = th /\ linking /\ ptask[th] \in Active
           /\ lk = NULL => ~linking
  BY ThreadAssumption DEF TaskInv, LockInv, linking, Active, Threads

LEMMA PostLinkStep ==
    ASSUME TaskInv, NEW th \in Threads, PostLink(th)
    PROVE  TaskInv'
<1> DEFINE p == ptask[th]
           last == prv[Sentl]
<1>0. /\ TypeOK /\ LockInv /\ ListInv /\ SeenIsFirst
      /\ Sentl \in Nodes /\ p \in Tasks /\ p \in Nodes /\ p # Sentl
      /\ lk = th /\ ~linking /\ nxt[p] = NULL
  BY Locking, TaskAssumption DEF TaskInv, PostLink, active, Nodes
<1>1. /\ last \in Nodes /\ nxt[last] = Sentl /\ last # p
      /\ \A x \in Nodes : back(x) = prv[x]
  BY <1>0, TaskAssumption DEF ListInv, back
<1>2. /\ nxt' = [nxt EXCEPT ![p] = Sentl, ![last] = p]
      /\ prv' = [prv EXCEPT ![Sentl] = p]
      /\ after' = [after EXCEPT ![th] = last]
      /\ ppc' = [ppc EXCEPT ![th] = "linked"]
      /\ UNCHANGED <<len, lk, ptask, cpc, it, n, sig>>
  BY DEF PostLink, cvars
<1>3. TypeOK'
  <2>1. wasempty' \in [Threads -> BOOLEAN]
    BY <1>0, Zenon DEF PostLink, TypeOK
  <2> QED
    BY <1>0, <1>1, <1>2, <2>1 DEF TypeOK
<1>4. LockInv' /\ linking'
  BY <1>0, <1>1, <1>2, ThreadAssumption, TaskAssumption
     DEF LockInv, linking, TypeOK, active, Threads
<1>5. /\ \A x \in Nodes : nxt'[x] = IF x = p THEN Sentl ELSE IF x = last THEN p ELSE nxt[x]
      /\ \A x \in Nodes : prv'[x] = IF x = Sentl THEN p ELSE prv[x]
      /\ after'[th] = last
  BY <1>0, <1>1, <1>2 DEF TypeOK
<1>6. ListInv'
  <2>1. nxt'[Sentl] # NULL
    BY <1>0, <1>5, TaskAssumption DEF ListInv
  <2>2. ASSUME NEW x \in Nodes
        PROVE  back(x)' = IF x = p THEN last ELSE IF x = Sentl THEN p ELSE prv[x]
    BY <1>0, <1>2, <1>4, <1>5 DEF back
  <2>3. ASSUME NEW x \in Nodes, nxt'[x] # NULL
        PROVE  /\ nxt'[nxt'[x]] # NULL
               /\ nxt'[x] = p => x = last
               /\ nxt'[x] = Sentl => x = p
               /\ nxt'[x] \notin {p, Sentl} => prv[nxt'[x]] = x
    <3>1. CASE x = p
      BY <1>0, <1>1, <1>5, <3>1, TaskAssumption DEF ListInv
    <3>2. CASE x = last
      BY <1>0, <1>1, <1>5, <3>2, TaskAssumption DEF ListInv
    <3>3. CASE x \notin {p, last}
      <4>1. nxt[x] # NULL /\ nxt[x] \in Nodes /\ prv[nxt[x]] = x /\ nxt[nxt[x]] # NULL
        BY <1>0, <1>1, <1>5, <2>3, <3>3 DEF ListInv, TypeOK
      <4> QED
        BY <1>0, <1>1, <1>5, <3>3, <4>1, TaskAssumption
    <3> QED
      BY <3>1, <3>2, <3>3
  <2>4. ASSUME NEW x \in Nodes, nxt'[x] # NULL
        PROVE  /\ x = p => nxt'[last] = p
               /\ x = Sentl => nxt'[p] = Sentl
               /\ x \notin {p, Sentl} => prv[x] \in Nodes /\ nxt'[prv[x]] = x
    <3>1. CASE x \in {p, Sentl}
      BY <1>0, <1>1, <1>5, <3>1
    <3>2. CASE x \notin {p, Sentl}
      <4>1. nxt[x] # NULL
        BY <1>0, <1>1, <1>5, <2>4, <3>2, TaskAssumption DEF ListInv
      <4>2. prv[x] \in Nodes /\ nxt[prv[x]] = x
        BY <1>0, <1>1, <4>1 DEF ListInv
      <4> QED
        BY <1>0, <1>1, <1>5, <3>2, <4>2, TaskAssumption DEF Nodes
    <3> QED
      BY <3>1, <3>2
  <2>5. ASSUME NEW x \in Nodes, nxt'[x] # NULL
        PROVE  /\ nxt'[nxt'[x]] # NULL /\ back(nxt[x])' = x
               /\ back(x)' \in Nodes /\ nxt'[back(x)'] = x
    <3>1. nxt'[x] \in Nodes
      BY <1>3, <2>5 DEF TypeOK
    <3>2. /\ back(x)' = IF x = p THEN last ELSE prv'[x]
          /\ back(nxt[x])' = IF nxt'[x] = p THEN last ELSE prv'[nxt'[x]]
      BY <1>0, <1>2, <1>4, <1>5 DEF back
    <3>3. nxt'[nxt'[x]] # NULL /\ back(nxt[x])' = x
      BY <1>0, <1>5, <2>3, <2>5, <3>1, <3>2
    <3>4. back(x)' \in Nodes /\ nxt'[back(x)'] = x
      BY <1>0, <1>1, <1>5, <2>4, <2>5, <3>2
    <3> QED
      BY <3>3, <3>4
  <2> QED
    BY <2>1, <2>5 DEF ListInv
<1>7. LenInv'
  <2>1. Active' = Active \cup {p} /\ p \notin Active
    BY <1>0, <1>1, <1>5, TaskAssumption DEF Active, active, Nodes
  <2>2. Cardinality(Active') = Cardinality(Active) + 1
    BY <2>1, ActiveFinite, FS_AddElement
  <2> QED
    BY <1>0, <1>2, <1>4, <2>2 DEF TaskInv, LenInv
<1>8. SeenIsFirst'
  <2> SUFFICES ASSUME cpc = "lock" PROVE it = nxt'[Sentl] /\ it \in Tasks
    BY <1>2 DEF SeenIsFirst
  <2>1. it = nxt[Sentl] /\ it \in Tasks
    BY <1>0 DEF SeenIsFirst
  <2>2. last # Sentl
    BY <1>1, <2>1, TaskAssumption
  <2> QED
    BY <1>0, <1>5, <2>1, <2>2
<1> QED
  BY <1>3, <1>4, <1>6, <1>7, <1>8 DEF TaskInv

LEMMA PostUnlockStep ==
    ASSUME TaskInv, NEW th \in Threads, PostUnlock(th)
    PROVE  TaskInv'
<1> DEFINE p == ptask[th]
<1>0. /\ TypeOK /\ LockInv /\ ListInv /\ LenInv /\ SeenIsFirst
      /\ p \in Tasks /\ p \in Nodes /\ lk = th /\ linking /\ Sentl \in Nodes
  BY Locking DEF TaskInv, PostUnlock, Nodes, Active
<1>1. TypeOK'
  BY <1>0 DEF TypeOK, PostUnlock, cvars
<1>2. LockInv' /\ ~linking'
  BY <1>0, ThreadAssumption DEF LockInv, linking, TypeOK, PostUnlock, active, Threads
<1>3. /\ \A x \in Nodes : prv'[x] = back(x)
      /\ nxt' = nxt
  BY <1>0 DEF back, PostUnlock, TypeOK
<1>4. ListInv'
  <2>1. ASSUME NEW x \in Nodes, nxt[x] # NULL
        PROVE  /\ nxt[nxt[x]] # NULL /\ prv'[nxt[x]] = x
               /\ prv'[x] \in Nodes /\ nxt[prv'[x]] = x
    <3>1. nxt[x] \in Nodes
      BY <1>0, <2>1 DEF TypeOK
    <3> QED
      BY <1>0, <1>3, <2>1, <3>1 DEF ListInv
  <2> QED
    BY <1>0, <1>2, <1>3, <2>1 DEF ListInv, back
<1>5. LenInv'
  <2>1. Active' = Active
    BY <1>3 DEF Active, active
  <2> QED
    BY <1>0, <1>2, <2>1 DEF LenInv, PostUnlock
<1>6. SeenIsFirst'
  BY <1>0, <1>3 DEF SeenIsFirst, PostUnlock, cvars
<1> QED
  BY <1>1, <1>2, <1>4, <1>5, <1>6 DEF TaskInv

\* Taking any item out under the lock keeps the links of the others inverse to
\* each other and the count right: fftask_run() and fftask_del().
LEMMA UnlinkKeepsList ==
    ASSUME TaskInv, ~linking, ~linking', NEW x \in Tasks, active(x),
           nxt' = [nxt EXCEPT ![prv[x]] = nxt[x], ![x] = NULL],
           \/ prv' = [prv EXCEPT ![nxt[x]] = prv[x]]
           \/ prv' = [prv EXCEPT ![nxt[x]] = prv[x], ![x] = NULL],
           len' = len - 1
    PROVE  ListInv' /\ LenInv' /\ len \in Nat \ {0}
<1>0. /\ TypeOK /\ ListInv /\ LenInv /\ x \in Nodes /\ Sentl \in Nodes /\ x # Sentl
      /\ nxt[x] # NULL /\ x # NULL
  BY TaskAssumption DEF TaskInv, Nodes, active
<1>1. \A y \in Nodes : nxt[y] # NULL =>
         /\ nxt[y] \in Nodes /\ nxt[nxt[y]] # NULL /\ prv[nxt[y]] = y
         /\ prv[y] \in Nodes /\ nxt[prv[y]] = y
  BY <1>0 DEF ListInv, back, TypeOK
<1>2. nxt'[x] = NULL
  BY <1>0, <1>1 DEF TypeOK
<1>3. ASSUME NEW y \in Nodes, y # x
      PROVE  /\ nxt'[y] = IF y = prv[x] THEN nxt[x] ELSE nxt[y]
             /\ prv'[y] = IF y = nxt[x] THEN prv[x] ELSE prv[y]
  BY <1>0, <1>1, <1>3 DEF TypeOK
<1>4. ASSUME NEW y \in Nodes, y # x
      PROVE  nxt'[y] # NULL <=> nxt[y] # NULL
  BY <1>0, <1>1, <1>3, <1>4
<1>5. ASSUME NEW y \in Nodes, nxt'[y] # NULL
      PROVE  nxt'[y] \in Nodes /\ nxt'[nxt'[y]] # NULL /\ prv'[nxt'[y]] = y
  <2>1. y # x
    BY <1>2, <1>5
  <2>2. CASE y = prv[x]
    <3>1. nxt'[y] = nxt[x] /\ nxt[x] # x /\ nxt[x] \in Nodes
      BY <1>0, <1>1, <1>3, <2>1, <2>2
    <3> QED
      BY <1>0, <1>1, <1>3, <2>1, <2>2, <3>1, ZenonT(40)
  <2>3. CASE y # prv[x]
    <3>1. nxt'[y] = nxt[y] /\ nxt[y] # NULL
      BY <1>3, <1>5, <2>1, <2>3
    <3>2. nxt[y] \in Nodes /\ nxt[y] # x /\ nxt[y] # nxt[x] /\ nxt[nxt[y]] # NULL
      BY <1>0, <1>1, <2>1, <2>3, <3>1
    <3>3. nxt'[nxt[y]] # NULL
      BY <1>4, <3>2
    <3>4. prv'[nxt[y]] = prv[nxt[y]]
      BY <1>3, <3>2
    <3> QED
      BY <1>1, <3>1, <3>2, <3>3, <3>4
  <2> QED
    BY <2>2, <2>3
<1>6. ASSUME NEW y \in Nodes, nxt'[y] # NULL
      PROVE  prv'[y] \in Nodes /\ nxt'[prv'[y]] = y
  <2>1. y # x /\ nxt[y] # NULL
    BY <1>2, <1>6, <1>4
  <2>2. CASE y = nxt[x]
    <3>1. prv'[y] = prv[x] /\ prv[x] # x /\ prv[x] \in Nodes
      BY <1>0, <1>1, <1>3, <2>1, <2>2
    <3> QED
      BY <1>0, <1>1, <1>3, <2>1, <2>2, <3>1
  <2>3. CASE y # nxt[x]
    <3>1. prv'[y] = prv[y] /\ prv[y] \in Nodes /\ prv[y] # x /\ prv[y] # prv[x]
      BY <1>0, <1>1, <1>3, <2>1, <2>3
    <3> QED
      BY <1>0, <1>1, <1>3, <2>1, <3>1
  <2> QED
    BY <2>2, <2>3
<1>7. ListInv'
  <2>1. nxt'[Sentl] # NULL
    BY <1>0, <1>3 DEF ListInv
  <2> QED
    BY <1>5, <1>6, <2>1 DEF ListInv, back
<1>8. LenInv' /\ len \in Nat \ {0}
  <2>1. Active' = Active \ {x} /\ x \in Active
    BY <1>0, <1>2, <1>4 DEF Active, active, Nodes
  <2>2. Cardinality(Active') = Cardinality(Active) - 1
    BY <2>1, ActiveFinite, FS_RemoveElement
  <2>3. Cardinality(Active) = len /\ Cardinality(Active) > 0 /\ Cardinality(Active) \in Nat
    BY <1>0, <2>1, ActiveFinite DEF LenInv
  <2> QED
    BY <2>2, <2>3 DEF LenInv
<1> QED
  BY <1>7, <1>8

LEMMA RunUnlinkStep == ASSUME TaskInv, RunUnlink PROVE TaskInv'
<1>0. /\ TypeOK /\ LockInv /\ ListInv /\ SeenIsFirst /\ lk = NULL /\ ~linking /\ ~linking'
      /\ it \in Tasks /\ it = nxt[Sentl] /\ Sentl \in Nodes /\ it \in Nodes
  BY Locking DEF TaskInv, RunUnlink, SeenIsFirst, linking, Nodes
<1>1. active(it) /\ prv[it] \in Nodes /\ nxt[it] \in Nodes
  BY <1>0 DEF ListInv, active, back, TypeOK
<1>2. ListInv' /\ LenInv' /\ len \in Nat \ {0}
  BY <1>0, <1>1, UnlinkKeepsList DEF RunUnlink, Unlink
<1>3. TypeOK'
  BY <1>0, <1>1, <1>2 DEF TypeOK, RunUnlink, Unlink, pvars
<1>4. LockInv' /\ SeenIsFirst'
  BY <1>0, ThreadAssumption DEF LockInv, SeenIsFirst, RunUnlink, pvars, Threads
<1> QED
  BY <1>2, <1>3, <1>4 DEF TaskInv

LEMMA DeleteStep == ASSUME TaskInv, NEW t \in Tasks, Delete(t) PROVE TaskInv'
<1>0. /\ TypeOK /\ LockInv /\ ListInv /\ SeenIsFirst /\ lk = NULL /\ ~linking /\ ~linking'
      /\ active(t) /\ t \in Nodes
  BY Locking DEF TaskInv, Delete, linking, Nodes
<1>1. prv[t] \in Nodes /\ nxt[t] \in Nodes
  BY <1>0 DEF ListInv, active, back, TypeOK
<1>2. ListInv' /\ LenInv' /\ len \in Nat \ {0}
  BY <1>0, <1>1, UnlinkKeepsList DEF Delete, ffchain_unlink
<1>3. TypeOK'
  BY <1>0, <1>1, <1>2 DEF TypeOK, Delete, ffchain_unlink, pvars
<1>4. LockInv' /\ SeenIsFirst'
  BY <1>0, ThreadAssumption DEF LockInv, SeenIsFirst, Delete, pvars, Threads
<1> QED
  BY <1>2, <1>3, <1>4 DEF TaskInv

\* Steps that touch neither the list nor, for those of a poster, the lock while
\* the list is being changed.
LEMMA QuietStep ==
    ASSUME TaskInv, UNCHANGED <<nxt, prv, len>>, TypeOK', LockInv', SeenIsFirst',
           \/ linking /\ linking' /\ UNCHANGED <<lk, ptask, after>>
           \/ ~linking /\ ~linking'
    PROVE  TaskInv'
<1>1. Active' = Active
  BY DEF Active, active
<1>2. LenInv'
  BY <1>1 DEF TaskInv, LenInv
<1>3. CASE linking
  BY <1>2, <1>3 DEF TaskInv, ListInv, back
<1>4. CASE ~linking
  BY <1>2, <1>4 DEF TaskInv, ListInv, back
<1> QED
  BY <1>3, <1>4

LEMMA StepInv == TaskInv /\ [Next]_vars => TaskInv'
<1> SUFFICES ASSUME TaskInv, [Next]_vars PROVE TaskInv'
  OBVIOUS
<1>0. /\ TypeOK /\ LockInv /\ ListInv /\ SeenIsFirst
      /\ Consumer \in Threads /\ NULL \notin Threads
  BY ThreadAssumption DEF TaskInv, Threads
<1> USE DEF lvars, pvars, cvars
<1>1. ASSUME NEW th \in Threads, NEW t \in Tasks, PostCall(th, t) PROVE TaskInv'
  <2>1. TypeOK' /\ LockInv' /\ SeenIsFirst'
    BY <1>0, <1>1 DEF PostCall, PostLock, TypeOK, LockInv, SeenIsFirst, active
  <2>2. ~linking /\ ~linking'
    BY <1>0, <1>1 DEF PostCall, PostLock, TypeOK, linking
  <2> QED
    BY <1>1, <2>1, <2>2, QuietStep DEF PostCall, PostLock
<1>2. ASSUME NEW th \in Threads, PostActive(th) PROVE TaskInv'
  <2>1. TypeOK' /\ LockInv' /\ SeenIsFirst'
    BY <1>0, <1>2 DEF PostActive, TypeOK, LockInv, SeenIsFirst, active
  <2>2. ~linking /\ ~linking'
    BY <1>0, <1>2, Locking DEF PostActive, linking
  <2> QED
    BY <1>2, <2>1, <2>2, QuietStep DEF PostActive
<1>3. ASSUME NEW th \in Threads, PostReturn(th) PROVE TaskInv'
  <2>1. sig' \in BOOLEAN /\ wasempty' \in [Threads -> BOOLEAN]
    BY <1>0, <1>3, Zenon DEF PostReturn, TypeOK
  <2>2. TypeOK' /\ LockInv' /\ SeenIsFirst'
    BY <1>0, <1>3, <2>1 DEF PostReturn, TypeOK, LockInv, SeenIsFirst, active
  <2>3. (linking /\ linking') \/ (~linking /\ ~linking')
    BY <1>0, <1>3 DEF PostReturn, linking, TypeOK, LockInv
  <2> QED
    BY <1>3, <2>2, <2>3, QuietStep DEF PostReturn
<1>4. ASSUME RunStep PROVE TaskInv'
  <2>1. UNCHANGED <<nxt, prv, len, lk, ppc, ptask, after, wasempty>>
    BY <1>4 DEF RunStep, Wake, RunLoad, RunHandled, RunAgain
  <2>2. TypeOK'
    <3>1. CASE Wake
      <4>1. sig' \in BOOLEAN
        BY <3>1, Zenon DEF Wake
      <4> QED
        BY <1>0, <3>1, <4>1, MaxRunAssumption DEF Wake, TypeOK
    <3>2. CASE RunLoad  BY <1>0, <3>2 DEF RunLoad, TypeOK, ListInv, Nodes
    <3>3. CASE RunHandled  BY <1>0, <3>3, MaxRunAssumption DEF RunHandled, TypeOK
    <3>4. CASE RunAgain  BY <1>0, <3>4, MaxRunAssumption DEF RunAgain, TypeOK
    <3> QED
      BY <1>4, <3>1, <3>2, <3>3, <3>4 DEF RunStep
  <2>3. SeenIsFirst'
    <3>1. nxt[Sentl] \in Nodes
      BY <1>0 DEF TypeOK, ListInv, Nodes
    <3> QED
      BY <1>0, <1>4, <3>1 DEF RunStep, Wake, RunLoad, RunHandled, RunAgain, SeenIsFirst, Nodes
  <2>4. LockInv' /\ ((linking /\ linking') \/ (~linking /\ ~linking'))
    BY <1>0, <2>1 DEF LockInv, linking, active
  <2> QED
    BY <2>1, <2>2, <2>3, <2>4, QuietStep
<1>5. CASE UNCHANGED vars
  <2>1. TypeOK' /\ LockInv' /\ SeenIsFirst' /\ ((linking /\ linking') \/ (~linking /\ ~linking'))
    BY <1>0, <1>5 DEF vars, TypeOK, LockInv, SeenIsFirst, linking, active
  <2> QED
    BY <1>5, <2>1, QuietStep DEF vars
<1> QED
  BY <1>1, <1>2, <1>3, <1>4, <1>5, PostLinkStep, PostUnlockStep, RunUnlinkStep, DeleteStep
     DEF Next, PostStep

\* The list, its length and its lock are consistent in every state of every
\* interleaving of posters with the consumer.
THEOREM TaskQueueInvariant == Spec => []TaskInv
  BY InitInv, StepInv, PTL DEF Spec

\* Neither assertion of the task queue can fail, and the item fftask_run() saw
\* without the lock is the head of the list when it unlinks it.
THEOREM TaskQueueSafe == Spec => [](LenAssert /\ SeenIsFirst)
<1>1. TaskInv => LenAssert /\ SeenIsFirst
  BY InvLenAssert DEF TaskInv
<1> QED
  BY <1>1, TaskQueueInvariant, PTL

(***************************************************************************)
(* The list as the abstract queue.                                         *)
(***************************************************************************)

LEMMA CountPositions == ASSUME NEW m \in Nat PROVE Cardinality(1..m) = m /\ Cardinality(0..(m - 1)) = m
<1>1. m \in Int /\ m - 1 \in Int /\ 0 \in Int /\ 1 \in Int
  OBVIOUS
<1>2. Cardinality(1..m) = IF 1 > m THEN 0 ELSE m - 1 + 1
  BY <1>1, FS_Interval
<1>3. Cardinality(0..(m - 1)) = IF 0 > m - 1 THEN 0 ELSE (m - 1) - 0 + 1
  BY <1>1, FS_Interval
<1> QED
  BY <1>2, <1>3

\* A list has no more items than there are tasks.
LEMMA ListIsShort ==
    ASSUME NEW s, NEW f, IsList(s, f)
    PROVE  Len(s) \in Nat /\ Cardinality(Tasks) \in Nat /\ Len(s) <= Cardinality(Tasks)
<1>1. s \in [1..Len(s) -> Tasks] /\ Len(s) \in Nat
  BY DEF IsList
<1>2. s \in Injection(1..Len(s), Tasks)
  <2>1. \A a, b \in 1..Len(s) : s[a] = s[b] => a = b
    BY DEF IsList
  <2> QED
    BY <1>1, <2>1, Fun_IsInj
<1>3. Cardinality(1..Len(s)) = Len(s)
  BY <1>1, CountPositions
<1>4. Cardinality(1..Len(s)) <= Cardinality(Tasks)
  BY <1>2, FS_Injection, TaskAssumption
<1> QED
  BY <1>1, <1>3, <1>4, FS_CardinalityType, TaskAssumption

\* Following the links finds the list.
LEMMA ChainIs ==
    ASSUME NEW s, NEW f, IsList(s, f)
    PROVE  chainOf(f) = s
<1> DEFINE N == Cardinality(Tasks)
           val(k) == IF k < Len(s) THEN s[k + 1] ELSE Sentl
           step(g, k) == IF k = 0 THEN f[Sentl]
                         ELSE IF g[k - 1] \in Tasks THEN f[g[k - 1]] ELSE g[k - 1]
           Rec(g) == g = [k \in 0..N |-> step(g, k)]
           nodes == CHOOSE g : Rec(g)
<1>1. Len(s) \in Nat /\ N \in Nat /\ Len(s) <= N /\ s \in Seq(Tasks) /\ Sentl \notin Tasks
  <2>1. Len(s) \in Nat /\ N \in Nat /\ Len(s) <= N
    BY ListIsShort
  <2> QED
    BY <2>1, TaskAssumption DEF IsList
<1>2. \A k \in 0..N : (k < Len(s) => val(k) \in Tasks) /\ (~ (k < Len(s)) => val(k) = Sentl)
  BY <1>1
<1>3. ASSUME NEW k \in 0..N, k # 0
      PROVE  val(k) = IF val(k - 1) \in Tasks THEN f[val(k - 1)] ELSE val(k - 1)
  <2>1. CASE k - 1 < Len(s)
    <3>1. val(k - 1) = s[k] /\ k \in 1..Len(s) /\ s[k] \in Tasks
      BY <1>1, <1>3, <2>1
    <3>2. f[s[k]] = IF k = Len(s) THEN Sentl ELSE s[k + 1]
      BY <3>1 DEF IsList
    <3> QED
      BY <1>1, <1>3, <3>1, <3>2
  <2>2. CASE ~ (k - 1 < Len(s))
    BY <1>1, <1>3, <2>2
  <2> QED
    BY <2>1, <2>2
<1>4. val(0) = f[Sentl]
  BY <1>1, EmptySeq DEF IsList
<1> HIDE DEF N, val
<1>5. Rec(nodes)
  <2> DEFINE g == [k \in 0..N |-> val(k)]
  <2>1. \A k \in 0..N : k # 0 => k - 1 \in 0..N
    BY <1>1
  <2>2. \A k \in 0..N : g[k] = step(g, k)
    BY <1>3, <1>4, <2>1
  <2>3. Rec(g)
    BY <2>2
  <2>4. \E h : Rec(h)
    BY <2>3
  <2> HIDE DEF g, Rec
  <2> QED
    BY <2>4
<1>6. chainOf(f) = [k \in 1..Cardinality({j \in 0..N : nodes[j] \in Tasks}) |-> nodes[k - 1]]
  BY DEF chainOf, N
<1> HIDE DEF nodes
<1>7. \A k \in 0..N : nodes[k] = step(nodes, k)
  BY <1>5
<1>8. \A k \in 0..N : nodes[k] = val(k)
  <2> DEFINE Bad == {k \in 0..N : nodes[k] # val(k)}
  <2> SUFFICES ASSUME Bad # {} PROVE FALSE
    OBVIOUS
  <2>1. Bad \in SUBSET Nat
    BY <1>1
  <2>2. PICK m \in Bad : \A j \in Bad : m <= j
    <3> HIDE DEF Bad
    <3> QED
      BY <2>1, LeastNat
  <2>3. m \in 0..N /\ nodes[m] # val(m)
    OBVIOUS
  <2>4. m # 0
    BY <1>4, <1>7, <2>3
  <2>5. m - 1 \in 0..N /\ m - 1 \notin Bad
    <3> HIDE DEF Bad
    <3> QED
      BY <1>1, <2>2, <2>3, <2>4
  <2>6. nodes[m - 1] = val(m - 1)
    BY <2>5
  <2> QED
    BY <1>3, <1>7, <2>3, <2>4, <2>6
<1>9. {j \in 0..N : nodes[j] \in Tasks} = 0..(Len(s) - 1)
  BY <1>1, <1>2, <1>8
<1>10. Cardinality({j \in 0..N : nodes[j] \in Tasks}) = Len(s)
  BY <1>1, <1>9, CountPositions
<1>11. \A k \in 1..Len(s) : nodes[k - 1] = s[k]
  <2> SUFFICES ASSUME NEW k \in 1..Len(s) PROVE nodes[k - 1] = s[k]
    OBVIOUS
  <2>1. k - 1 \in 0..N /\ k - 1 < Len(s) /\ k - 1 + 1 = k
    BY <1>1
  <2> QED
    BY <1>8, <2>1 DEF val
<1> QED
  BY <1>1, <1>6, <1>10, <1>11

LEMMA ListItems ==
    ASSUME NEW s, NEW f, IsList(s, f)
    PROVE  /\ s \in Seq(Tasks) /\ Len(s) \in Nat /\ Sentl \notin Tasks /\ NULL \notin Tasks /\ Sentl # NULL
           /\ \A i \in 1..Len(s) : s[i] \in Tasks /\ f[s[i]] # NULL
           /\ s = << >> <=> Len(s) = 0
<1>1. s \in Seq(Tasks) /\ Len(s) \in Nat /\ Sentl \notin Tasks /\ NULL \notin Tasks /\ Sentl # NULL
  BY TaskAssumption DEF IsList
<1>2. s = << >> <=> Len(s) = 0
  BY <1>1, EmptySeq
<1>3. ASSUME NEW i \in 1..Len(s) PROVE s[i] \in Tasks /\ f[s[i]] # NULL
  <2>1. s[i] \in Tasks /\ (i # Len(s) => s[i + 1] \in Tasks)
    BY <1>1
  <2> QED
    BY <1>1, <2>1 DEF IsList
<1> QED
  BY <1>1, <1>2, <1>3

\* The link to the sentinel is the last one.
LEMMA LastLink ==
    ASSUME NEW s, NEW f, IsList(s, f), NEW y \in Nodes, f[y] = Sentl
    PROVE  y = IF s = << >> THEN Sentl ELSE s[Len(s)]
<1>0. /\ s \in Seq(Tasks) /\ Len(s) \in Nat /\ Sentl \notin Tasks /\ NULL \notin Tasks /\ Sentl # NULL
      /\ \A i \in 1..Len(s) : s[i] \in Tasks
      /\ s = << >> <=> Len(s) = 0
  BY ListItems
<1>1. CASE y = Sentl
  <2>1. s # << >> => f[Sentl] = s[1] /\ 1 \in 1..Len(s)
    BY <1>0 DEF IsList
  <2> QED
    BY <1>0, <1>1, <2>1
<1>2. CASE y # Sentl
  <2>1. y \in Tasks
    BY <1>2 DEF Nodes
  <2>2. PICK i \in 1..Len(s) : s[i] = y
    BY <1>0, <2>1 DEF IsList
  <2>3. i # Len(s) => f[y] = s[i + 1] /\ s[i + 1] \in Tasks
    BY <1>0, <2>2 DEF IsList
  <2> QED
    BY <1>0, <2>2, <2>3
<1> QED
  BY <1>1, <1>2

\* fflist_ins() before the sentinel appends to the list.
LEMMA ListAppends ==
    ASSUME NEW s, NEW f \in [Nodes -> Nodes \cup {NULL}], IsList(s, f),
           NEW p \in Tasks, f[p] = NULL, NEW y \in Nodes, f[y] = Sentl
    PROVE  /\ IsList(Append(s, p), [f EXCEPT ![p] = Sentl, ![y] = p])
           /\ \A i \in 1..Len(s) : s[i] # p
<1> DEFINE g == [f EXCEPT ![p] = Sentl, ![y] = p]
           t == Append(s, p)
           len1 == Len(s) + 1
<1>0. /\ s \in Seq(Tasks) /\ Len(s) \in Nat /\ Sentl \notin Tasks /\ NULL \notin Tasks /\ Sentl # NULL
      /\ \A i \in 1..Len(s) : s[i] \in Tasks /\ f[s[i]] # NULL
      /\ s = << >> <=> Len(s) = 0
  BY ListItems
<1>1. /\ y = IF s = << >> THEN Sentl ELSE s[Len(s)]
      /\ y # p /\ p \in Nodes /\ Sentl \in Nodes /\ \A i \in 1..Len(s) : s[i] # p /\ s[i] \in Nodes
  BY <1>0, LastLink DEF Nodes
<1>2. \A x \in Nodes : g[x] = IF x = p THEN Sentl ELSE IF x = y THEN p ELSE f[x]
  BY <1>1
<1>3. t \in Seq(Tasks) /\ Len(t) = len1 /\ t[len1] = p /\ \A i \in 1..Len(s) : t[i] = s[i]
  BY <1>0, AppendProperties
<1> HIDE DEF g, t
<1>4. t # << >>
  BY <1>0, <1>3, EmptySeq
<1>5. g[Sentl] = t[1]
  <2>1. CASE s = << >>
    BY <1>0, <1>1, <1>2, <1>3, <2>1
  <2>2. CASE s # << >>
    <3>1. 1 \in 1..Len(s) /\ Len(s) \in 1..Len(s)
      BY <1>0, <2>2
    <3>2. y # Sentl /\ p # Sentl
      BY <1>0, <1>1, <2>2, <3>1
    <3> QED
      BY <1>1, <1>2, <1>3, <2>2, <3>1, <3>2 DEF IsList
  <2> QED
    BY <2>1, <2>2
<1>6. ASSUME NEW i \in 1..Len(t) PROVE g[t[i]] = IF i = Len(t) THEN Sentl ELSE t[i + 1]
  <2>1. CASE i = len1
    BY <1>1, <1>2, <1>3, <2>1
  <2>2. CASE i = Len(s)
    <3>1. i \in 1..Len(s) /\ y = s[i] /\ i + 1 = len1 /\ s # << >>
      BY <1>0, <1>1, <1>3, <2>2
    <3> QED
      BY <1>0, <1>1, <1>2, <1>3, <3>1
  <2>3. CASE i # len1 /\ i # Len(s)
    <3>1. i \in 1..Len(s) /\ i + 1 \in 1..Len(s) /\ Len(s) \in 1..Len(s) /\ s # << >>
      BY <1>0, <1>3, <2>3
    <3>2. s[i] # y /\ f[s[i]] = s[i + 1]
      BY <1>0, <1>1, <2>3, <3>1 DEF IsList
    <3> QED
      BY <1>0, <1>1, <1>2, <1>3, <3>1, <3>2
  <2> QED
    BY <2>1, <2>2, <2>3
<1>7. \A i, j \in 1..Len(t) : t[i] = t[j] => i = j
  <2> SUFFICES ASSUME NEW i \in 1..Len(t), NEW j \in 1..Len(t), t[i] = t[j] PROVE i = j
    OBVIOUS
  <2>1. (i \in 1..Len(s) \/ i = len1) /\ (j \in 1..Len(s) \/ j = len1)
    BY <1>0, <1>3
  <2> QED
    BY <1>1, <1>3, <2>1 DEF IsList
<1>8. ASSUME NEW x \in Tasks, g[x] # NULL PROVE \E i \in 1..Len(t) : t[i] = x
  <2>1. CASE x = p
    BY <1>0, <1>3, <2>1
  <2>2. CASE x # p
    <3>1. f[x] # NULL
      BY <1>0, <1>2, <1>8, <2>2 DEF Nodes
    <3>2. PICK i \in 1..Len(s) : s[i] = x
      BY <3>1 DEF IsList
    <3> QED
      BY <1>0, <1>3, <3>2
  <2> QED
    BY <2>1, <2>2
<1>9. IsList(t, g)
  BY <1>3, <1>4, <1>5, <1>6, <1>7, <1>8 DEF IsList
<1> QED
  BY <1>1, <1>9 DEF t, g

\* _ffchain_link2(x->prev, x->next); x->next = NULL takes one item out.
LEMMA ListRemoves ==
    ASSUME NEW s, NEW f \in [Nodes -> Nodes \cup {NULL}], IsList(s, f),
           NEW m \in 1..Len(s), NEW y \in Nodes, f[y] = s[m]
    PROVE  IsList(RemoveAt(s, m), [f EXCEPT ![y] = f[s[m]], ![s[m]] = NULL])
<1> DEFINE x == s[m]
           g == [f EXCEPT ![y] = f[x], ![x] = NULL]
           t == RemoveAt(s, m)
<1>0. /\ s \in Seq(Tasks) /\ Len(s) \in Nat /\ Sentl \notin Tasks /\ NULL \notin Tasks /\ Sentl # NULL
      /\ \A i \in 1..Len(s) : s[i] \in Tasks /\ f[s[i]] # NULL
      /\ s = << >> <=> Len(s) = 0
  BY ListItems
<1>1. /\ f[Sentl] = s[1] /\ 1 \in 1..Len(s) /\ Sentl \in Nodes
      /\ \A i \in 1..Len(s) : s[i] \in Nodes /\ f[s[i]] = IF i = Len(s) THEN Sentl ELSE s[i + 1]
      /\ \A i, j \in 1..Len(s) : s[i] = s[j] => i = j
      /\ \A u \in Tasks : f[u] # NULL => \E i \in 1..Len(s) : s[i] = u
  BY <1>0 DEF IsList, Nodes
<1>2. y = IF m = 1 THEN Sentl ELSE s[m - 1]
  <2>1. CASE y = Sentl
    BY <1>0, <1>1, <2>1
  <2>2. CASE y # Sentl
    <3>1. y \in Tasks /\ f[y] # NULL
      BY <1>0, <2>2 DEF Nodes
    <3>2. PICK i \in 1..Len(s) : s[i] = y
      BY <1>1, <3>1
    <3>3. i # Len(s)
      BY <1>0, <1>1, <3>2
    <3>4. i + 1 \in 1..Len(s) /\ s[i + 1] = s[m]
      BY <1>0, <1>1, <3>2, <3>3
    <3>5. i + 1 = m
      BY <1>1, <3>4
    <3> QED
      BY <1>0, <3>2, <3>5
  <2> QED
    BY <2>1, <2>2
<1>3. y # x
  <2>1. m # 1 => m - 1 \in 1..Len(s) /\ m - 1 # m
    BY <1>0
  <2> QED
    BY <1>0, <1>1, <1>2, <2>1
<1>4. \A z \in Nodes : g[z] = IF z = x THEN NULL ELSE IF z = y THEN f[x] ELSE f[z]
  BY <1>1, <1>3
<1>5. /\ t \in Seq(Tasks) /\ Len(t) = Len(s) - 1
      /\ \A j \in 1..(m - 1) : t[j] = s[j]
      /\ \A j \in m..(Len(s) - 1) : t[j] = s[j + 1]
  BY <1>0, RemovedAt
<1> HIDE DEF g, t, x
<1>6. /\ x = s[m] /\ x \in Tasks /\ x \in Nodes
      /\ f[x] = IF m = Len(s) THEN Sentl ELSE s[m + 1]
  BY <1>0, <1>1 DEF x
<1>7. t = << >> <=> Len(s) = 1
  BY <1>0, <1>5, EmptySeq
<1>8. g[Sentl] = IF t = << >> THEN Sentl ELSE t[1]
  <2>1. CASE m = 1
    <3>1. g[Sentl] = f[x]
      BY <1>0, <1>1, <1>2, <1>4, <1>6, <2>1
    <3>2. Len(s) # 1 => t[1] = s[2]
      BY <1>0, <1>5, <2>1
    <3> QED
      BY <1>0, <1>6, <1>7, <2>1, <3>1, <3>2
  <2>2. CASE m # 1
    <3>1. m - 1 \in 1..Len(s) /\ 1 \in 1..(m - 1) /\ Len(s) # 1
      BY <1>0, <2>2
    <3>2. g[Sentl] = s[1]
      BY <1>0, <1>1, <1>2, <1>4, <1>6, <2>2, <3>1
    <3> QED
      BY <1>5, <1>7, <3>1, <3>2
  <2> QED
    BY <2>1, <2>2
<1>9. ASSUME NEW j \in 1..Len(t) PROVE g[t[j]] = IF j = Len(t) THEN Sentl ELSE t[j + 1]
  <2>1. CASE j < m - 1
    <3>1. /\ j \in 1..(m - 1) /\ j + 1 \in 1..(m - 1) /\ j \in 1..Len(s) /\ j # Len(s) /\ j # Len(t)
          /\ m - 1 \in 1..Len(s) /\ m # 1 /\ j # m
      BY <1>0, <1>5, <2>1
    <3>2. s[j] # x /\ s[j] # y
      BY <1>1, <1>2, <1>6, <2>1, <3>1
    <3>3. g[s[j]] = s[j + 1]
      BY <1>1, <1>4, <3>1, <3>2
    <3> QED
      BY <1>5, <3>1, <3>3
  <2>2. CASE j = m - 1
    <3>1. j \in 1..(m - 1) /\ j \in 1..Len(s) /\ m # 1
      BY <1>0, <1>5, <2>2
    <3>2. t[j] = y /\ g[y] = f[x] /\ y \in Nodes
      BY <1>2, <1>3, <1>4, <1>5, <2>2, <3>1
    <3>3. m # Len(s) => t[j + 1] = s[m + 1]
      BY <1>0, <1>5, <2>2
    <3>4. m = Len(s) <=> j = Len(t)
      BY <1>0, <1>5, <2>2
    <3> QED
      BY <1>6, <3>2, <3>3, <3>4
  <2>3. CASE j >= m
    <3>1. j \in m..(Len(s) - 1) /\ j + 1 \in 1..Len(s) /\ j + 1 # m /\ (m # 1 => m - 1 \in 1..Len(s) /\ m - 1 # j + 1)
      BY <1>0, <1>5, <2>3
    <3>2. t[j] = s[j + 1] /\ s[j + 1] # x /\ s[j + 1] # y
      BY <1>0, <1>1, <1>2, <1>5, <1>6, <3>1
    <3>3. g[s[j + 1]] = IF j + 1 = Len(s) THEN Sentl ELSE s[j + 1 + 1]
      BY <1>1, <1>4, <3>1, <3>2
    <3>4. j + 1 # Len(s) => t[j + 1] = s[j + 1 + 1]
      BY <1>0, <1>5, <3>1
    <3>5. j + 1 = Len(s) <=> j = Len(t)
      BY <1>0, <1>5
    <3> QED
      BY <3>2, <3>3, <3>4, <3>5
  <2> QED
    BY <1>0, <2>1, <2>2, <2>3
<1>10. \A i, j \in 1..Len(t) : t[i] = t[j] => i = j
  BY <1>0, <1>1, RemovedElements DEF t
<1>11. ASSUME NEW u \in Tasks, g[u] # NULL PROVE \E i \in 1..Len(t) : t[i] = u
  <2>1. u # x /\ f[u] # NULL
    BY <1>0, <1>4, <1>6, <1>11 DEF Nodes
  <2>2. PICK i \in 1..Len(s) : s[i] = u
    BY <1>1, <2>1
  <2>3. i # m
    BY <1>6, <2>1, <2>2
  <2>4. CASE i < m
    <3>1. i \in 1..(m - 1) /\ i \in 1..Len(t)
      BY <1>0, <1>5, <2>4
    <3> QED
      BY <1>5, <2>2, <3>1
  <2>5. CASE i > m
    <3>1. i - 1 \in m..(Len(s) - 1) /\ i - 1 \in 1..Len(t) /\ i - 1 + 1 = i
      BY <1>0, <1>5, <2>5
    <3> QED
      BY <1>5, <2>2, <3>1
  <2> QED
    BY <2>3, <2>4, <2>5
<1>12. IsList(t, g)
  BY <1>5, <1>8, <1>9, <1>10, <1>11 DEF IsList
<1> QED
  BY <1>12 DEF t, g, x

LEMMA PostLinkAppends ==
    ASSUME FifoInv, NEW th \in Threads, PostLink(th)
    PROVE  /\ IsList(chain', nxt') /\ chain' = Append(chain, ptask[th])
           /\ ~ \E i \in 1..Len(chain) : chain[i] = ptask[th]
           /\ ptask[th] \in Tasks /\ UNCHANGED <<cpc, it>>
<1> DEFINE p == ptask[th]
<1>1. /\ IsList(chain, nxt) /\ nxt \in [Nodes -> Nodes \cup {NULL}]
      /\ p \in Tasks /\ nxt[p] = NULL /\ ~linking
  BY Locking DEF FifoInv, TaskInv, TypeOK, PostLink, active
<1>2. prv[Sentl] \in Nodes /\ nxt[prv[Sentl]] = Sentl
  <2>1. Sentl \in Nodes /\ nxt[Sentl] # NULL /\ back(Sentl) = prv[Sentl]
    BY <1>1 DEF FifoInv, TaskInv, ListInv, Nodes, back
  <2> QED
    BY <2>1 DEF FifoInv, TaskInv, ListInv
<1>3. nxt' = [nxt EXCEPT ![p] = Sentl, ![prv[Sentl]] = p] /\ UNCHANGED <<cpc, it>>
  BY DEF PostLink, cvars
<1>4. IsList(Append(chain, p), nxt') /\ \A i \in 1..Len(chain) : chain[i] # p
  BY <1>1, <1>2, <1>3, ListAppends
<1>5. chain' = Append(chain, p)
  BY <1>4, ChainIs DEF chain
<1> QED
  BY <1>1, <1>3, <1>4, <1>5

LEMMA UnlinkRemoves ==
    ASSUME FifoInv, lk = NULL, NEW x \in Tasks, active(x),
           nxt' = [nxt EXCEPT ![prv[x]] = nxt[x], ![x] = NULL]
    PROVE  \E m \in 1..Len(chain) : /\ chain[m] = x /\ chain' = RemoveAt(chain, m)
                                    /\ IsList(chain', nxt')
<1>1. /\ IsList(chain, nxt) /\ nxt \in [Nodes -> Nodes \cup {NULL}]
      /\ nxt[x] # NULL /\ x \in Nodes /\ ~linking
  BY DEF FifoInv, TaskInv, TypeOK, active, Nodes, linking
<1>2. prv[x] \in Nodes /\ nxt[prv[x]] = x
  <2>1. back(x) = prv[x]
    BY <1>1 DEF back
  <2> QED
    BY <1>1, <2>1 DEF FifoInv, TaskInv, ListInv
<1>3. PICK m \in 1..Len(chain) : chain[m] = x
  BY <1>1 DEF IsList
<1>4. IsList(RemoveAt(chain, m), nxt')
  BY <1>1, <1>2, <1>3, ListRemoves
<1>5. chain' = RemoveAt(chain, m)
  BY <1>4, ChainIs DEF chain
<1> QED
  BY <1>3, <1>4, <1>5

LEMMA RunUnlinkTakesHead ==
    ASSUME FifoInv, RunUnlink
    PROVE  /\ IsList(chain', nxt') /\ chain # << >>
           /\ it = Head(chain) /\ chain' = Tail(chain) /\ it' = it
<1>1. lk = NULL /\ it \in Tasks /\ it = nxt[Sentl] /\ it' = it
  BY DEF FifoInv, TaskInv, SeenIsFirst, RunUnlink
<1>2. active(it) /\ nxt' = [nxt EXCEPT ![prv[it]] = nxt[it], ![it] = NULL]
  <2>1. Sentl \in Nodes /\ nxt[it] # NULL
    BY <1>1 DEF FifoInv, TaskInv, ListInv, Nodes
  <2> QED
    BY <2>1 DEF active, RunUnlink, Unlink
<1>3. PICK m \in 1..Len(chain) : chain[m] = it /\ chain' = RemoveAt(chain, m) /\ IsList(chain', nxt')
  BY <1>1, <1>2, UnlinkRemoves
<1>4. /\ IsList(chain, nxt) /\ chain \in Seq(Tasks) /\ chain # << >> /\ 1 \in 1..Len(chain)
      /\ chain[1] = it
  <2>1. IsList(chain, nxt)
    BY DEF FifoInv
  <2>2. chain \in Seq(Tasks) /\ Len(chain) \in Nat /\ (chain = << >> <=> Len(chain) = 0)
    BY <2>1, ListItems
  <2> QED
    BY <1>1, <1>3, <2>1, <2>2 DEF IsList
<1>5. m = 1
  BY <1>3, <1>4 DEF IsList
<1> QED
  BY <1>1, <1>3, <1>4, <1>5, TailRemovesFirst

LEMMA StepIsFifo == FifoInv /\ [Next]_vars => FifoInv' /\ [Fifo!Next]_(Fifo!fvars)
<1> SUFFICES ASSUME FifoInv, [Next]_vars
             PROVE  IsList(chain', nxt') /\ [Fifo!Next]_(Fifo!fvars)
  BY StepInv DEF FifoInv
<1>0. /\ TypeOK /\ IsList(chain, nxt) /\ it \in Nodes /\ it # NULL
      /\ SeenIsFirst
  BY TaskAssumption DEF FifoInv, TaskInv, TypeOK, Nodes
<1>1. ASSUME UNCHANGED nxt PROVE chain' = chain /\ IsList(chain', nxt')
  BY <1>0, <1>1 DEF chain
<1>2. ASSUME UNCHANGED <<nxt, cpc, it>> PROVE IsList(chain', nxt') /\ UNCHANGED Fifo!fvars
  BY <1>1, <1>2 DEF Fifo!fvars
<1>3. ASSUME NEW th \in Threads, NEW t \in Tasks, PostCall(th, t)
      PROVE  IsList(chain', nxt') /\ UNCHANGED Fifo!fvars
  <2>1. UNCHANGED nxt /\ UNCHANGED it
    BY <1>3 DEF PostCall, PostLock, lvars
  <2>2. cpc \in {"handler", "handled"} <=> cpc' \in {"handler", "handled"}
    BY <1>3 DEF PostCall
  <2> QED
    BY <1>1, <2>1, <2>2 DEF Fifo!fvars
<1>4. ASSUME NEW th \in Threads, PostActive(th) \/ PostUnlock(th) \/ PostReturn(th)
      PROVE  IsList(chain', nxt') /\ UNCHANGED Fifo!fvars
  BY <1>2, <1>4 DEF PostActive, PostUnlock, PostReturn, lvars, cvars
<1>5. ASSUME NEW th \in Threads, PostLink(th)
      PROVE  IsList(chain', nxt') /\ [Fifo!Next]_(Fifo!fvars)
  <2>1. /\ IsList(chain', nxt') /\ chain' = Append(chain, ptask[th])
        /\ ~ \E i \in 1..Len(chain) : chain[i] = ptask[th]
        /\ ptask[th] \in Tasks /\ UNCHANGED <<cpc, it>>
    BY <1>5, PostLinkAppends
  <2>2. Fifo!Post(ptask[th])
    BY <2>1 DEF Fifo!Post, Fifo!Queued
  <2> QED
    BY <2>1, <2>2 DEF Fifo!Next
<1>6. ASSUME NEW t \in Tasks, Delete(t)
      PROVE  IsList(chain', nxt') /\ [Fifo!Next]_(Fifo!fvars)
  <2>1. /\ lk = NULL /\ active(t) /\ nxt' = [nxt EXCEPT ![prv[t]] = nxt[t], ![t] = NULL]
        /\ it' = it /\ (cpc \in {"handler", "handled"} <=> cpc' \in {"handler", "handled"})
    BY <1>6 DEF Delete, ffchain_unlink
  <2>2. PICK m \in 1..Len(chain) : /\ chain[m] = t /\ chain' = RemoveAt(chain, m)
                                   /\ IsList(chain', nxt')
    BY <2>1, UnlinkRemoves
  <2>3. Fifo!Delete(m)
    BY <2>1, <2>2 DEF Fifo!Delete, Fifo!RemoveAt, RemoveAt
  <2> QED
    BY <2>2, <2>3 DEF Fifo!Next
<1>7. ASSUME RunUnlink PROVE IsList(chain', nxt') /\ [Fifo!Next]_(Fifo!fvars)
  <2>1. /\ IsList(chain', nxt') /\ chain # << >>
        /\ it = Head(chain) /\ chain' = Tail(chain) /\ it' = it
    BY <1>7, RunUnlinkTakesHead
  <2>2. Fifo!Run
    BY <1>7, <2>1 DEF Fifo!Run, RunUnlink
  <2> QED
    BY <2>1, <2>2 DEF Fifo!Next
<1>8. ASSUME RunHandled PROVE IsList(chain', nxt') /\ [Fifo!Next]_(Fifo!fvars)
  <2>1. chain' = chain /\ IsList(chain', nxt')
    BY <1>1, <1>8 DEF RunHandled, lvars
  <2>2. Fifo!Finish
    BY <1>0, <1>8, <2>1 DEF Fifo!Finish, RunHandled
  <2> QED
    BY <2>1, <2>2 DEF Fifo!Next
<1>9. ASSUME Wake \/ RunLoad \/ RunAgain PROVE IsList(chain', nxt') /\ UNCHANGED Fifo!fvars
  <2>1. UNCHANGED nxt
    BY <1>9 DEF Wake, RunLoad, RunAgain, lvars
  <2>2. cpc \notin {"handler", "handled"} /\ cpc' \notin {"handler", "handled"}
    BY <1>9 DEF Wake, RunLoad, RunAgain
  <2> QED
    BY <1>1, <2>1, <2>2 DEF Fifo!fvars
<1>10. CASE UNCHANGED vars
  BY <1>2, <1>10 DEF vars
<1> QED
  BY <1>3, <1>4, <1>5, <1>6, <1>7, <1>8, <1>9, <1>10 DEF Next, PostStep, RunStep

LEMMA InitIsFifo == Init => FifoInv /\ Fifo!Init
<1> SUFFICES ASSUME Init PROVE IsList(chain, nxt) /\ Fifo!Init
  BY InitInv DEF FifoInv
<1>1. IsList(<< >>, nxt)
  BY TaskAssumption DEF Init, IsList, Nodes
<1>2. chain = << >>
  BY <1>1, ChainIs DEF chain
<1> QED
  BY <1>1, <1>2 DEF Init, Fifo!Init

\* The links form one ring through the sentinel that has every task in the
\* queue in it once, in every interleaving of fftask_post(), fftask_run() and
\* fftask_del().
THEOREM TaskQueueIsList == Spec => []FifoInv
  BY InitIsFifo, StepIsFifo, PTL DEF Spec

\* The task queue is a first-in first-out queue for any number of tasks and
\* posters: a post appends its task, the run takes the first and calls it, and
\* a task that fftask_del() removed is not called.
THEOREM TaskQueueIsFifo == Spec => IsFifo
  BY InitIsFifo, StepIsFifo, PTL DEF Spec, IsFifo, Fifo!Spec
=============================================================================
