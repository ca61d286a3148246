----------------------------- MODULE RingProofs -----------------------------
(***************************************************************************)
(* Proofs about ffring for every ring size and every set of pointers.      *)
(***************************************************************************)
EXTENDS RingLap, SequenceTheorems, TLAPS

\* An index stays below the size of the ring and is advanced by one or wraps:
\* what ffint_increset2() computes.
LEMMA ModIsWrap ==
    ASSUME NEW n \in Nat, n < 2 * Cap
    PROVE  n % Cap = IF n < Cap THEN n ELSE n - Cap
<1>0. Cap \in Nat /\ Cap > 0
  BY CapAssumption
<1>1. CASE n < Cap
  BY <1>0, <1>1
<1>2. CASE n >= Cap
  <2>1. PICK m \in Nat : n = Cap + m /\ m < Cap
    BY <1>0, <1>2
  <2>2. n % Cap = m
    BY <1>0, <2>1
  <2> QED
    BY <2>1, <2>2, <1>0
<1> QED
  BY <1>1, <1>2, <1>0

\* The distance from slot b forward to slot a.
LEMMA DistIsWrap ==
    ASSUME NEW a \in Slots, NEW b \in Slots
    PROVE  (a + Cap - b) % Cap = IF a >= b THEN a - b ELSE a + Cap - b
<1>1. Cap \in Nat /\ Cap > 1 /\ a \in 0..(Cap - 1) /\ b \in 0..(Cap - 1)
  BY CapAssumption DEF Slots
<1>2. PICK n \in Nat : n = a + Cap - b /\ n < 2 * Cap
  BY <1>1
<1>3. n % Cap = IF n < Cap THEN n ELSE n - Cap
  BY <1>2, ModIsWrap
<1> QED
  BY <1>1, <1>2, <1>3

LEMMA IncType == ASSUME NEW n \in Slots PROVE increset2(n) \in Slots
<1>1. Cap \in Nat /\ Cap > 1
  BY CapAssumption
<1>2. increset2(n) = IF n + 1 < Cap THEN n + 1 ELSE n + 1 - Cap
  BY <1>1, ModIsWrap DEF Slots, increset2
<1> QED
  BY <1>1, <1>2 DEF Slots

\* Two threads' indices that differ stay different when both are advanced.
LEMMA IncInjective ==
    ASSUME NEW m \in Slots, NEW n \in Slots, increset2(m) = increset2(n)
    PROVE  m = n
<1>1. Cap \in Nat /\ Cap > 1
  BY CapAssumption
<1>2. increset2(n) = IF n + 1 < Cap THEN n + 1 ELSE n + 1 - Cap
  BY <1>1, ModIsWrap DEF Slots, increset2
<1>3. increset2(m) = IF m + 1 < Cap THEN m + 1 ELSE m + 1 - Cap
  BY <1>1, ModIsWrap DEF Slots, increset2
<1> QED
  BY <1>1, <1>2, <1>3 DEF Slots

\* An advanced index is another index: the ring has at least two slots.
LEMMA IncMoves == ASSUME NEW n \in Slots PROVE increset2(n) # n
<1>1. Cap \in Nat /\ Cap > 1
  BY CapAssumption
<1>2. increset2(n) = IF n + 1 < Cap THEN n + 1 ELSE n + 1 - Cap
  BY <1>1, ModIsWrap DEF Slots, increset2
<1> QED
  BY <1>1, <1>2 DEF Slots
-----------------------------------------------------------------------------
\* No step of any thread takes an index out of the array.
LEMMA TypeStep == ASSUME TypeOK, [Next]_vars PROVE TypeOK'
<1> USE DEF TypeOK, WPositions, RPositions, wvars, rvars, looksfull, looksempty
<1>1. ASSUME NEW w \in Writers, NEW p \in Values, WCall(w, p) PROVE TypeOK'
  BY <1>1 DEF WCall
<1>2. ASSUME NEW w \in Writers, WStep(w) PROVE TypeOK'
  <2>1. CASE WLoad(w)  BY <2>1 DEF WLoad
  <2>2. CASE WFull(w)  BY <2>2 DEF WFull
  <2>3. CASE WRoom(w)  BY <2>3 DEF WRoom
  <2>4. CASE WReserve(w)  BY <2>4, IncType DEF WReserve
  <2>5. CASE WRetry(w)  BY <2>5 DEF WRetry
  <2>6. CASE WStore(w)  BY <2>6 DEF WStore
  <2>7. CASE WWait(w)  BY <2>7 DEF WWait
  <2>8. CASE WPublish(w)  BY <2>8, IncType DEF WPublish
  <2> QED
    BY <1>2, <2>1, <2>2, <2>3, <2>4, <2>5, <2>6, <2>7, <2>8 DEF WStep
<1>3. ASSUME NEW x \in Readers, RCall(x) PROVE TypeOK'
  BY <1>3 DEF RCall
<1>4. ASSUME NEW x \in Readers, RStep(x) PROVE TypeOK'
  <2>1. CASE RLoad(x)  BY <2>1 DEF RLoad
  <2>2. CASE REmpty(x)  BY <2>2 DEF REmpty
  <2>3. CASE RSeen(x)  BY <2>3 DEF RSeen
  <2>4. CASE RFetch(x)  BY <2>4 DEF RFetch
  <2>5. CASE RTake(x)  BY <2>5, IncType DEF RTake
  <2>6. CASE RRetry(x)  BY <2>6 DEF RRetry
  <2> QED
    BY <1>4, <2>1, <2>2, <2>3, <2>4, <2>5, <2>6 DEF RStep
<1>5. CASE UNCHANGED vars
  BY <1>5 DEF vars
<1> QED
  BY <1>1, <1>2, <1>3, <1>4, <1>5 DEF Next

\* For any number of writers and readers and any size, every index any thread
\* holds stays inside the array.
THEOREM RingTypeOK == Spec => []TypeOK
<1>1. Init => TypeOK
  <2>1. 0 \in Slots
    BY CapAssumption DEF Slots
  <2> QED
    BY <2>1, CapAssumption DEF Init, TypeOK, WPositions, RPositions
<1>2. TypeOK /\ [Next]_vars => TypeOK'
  BY TypeStep
<1> QED
  BY <1>1, <1>2, PTL DEF Spec
-----------------------------------------------------------------------------
\* One writer and one reader: what each of them relies on stays true whatever
\* the other does between any two of its steps.
THEOREM SPSCInvariant ==
    ASSUME NEW wr, Writers = {wr}, NEW rd, Readers = {rd}, Excl = FALSE
    PROVE  Spec => []SPSCInv
<1>1. Init => WriterInv /\ ReaderInv
  BY ResultsAssumption DEF Init, WriterInv, ReaderInv
<1>2. TypeOK /\ TypeOK' /\ WriterInv /\ ReaderInv /\ [Next]_vars => WriterInv' /\ ReaderInv'
  <2> SUFFICES ASSUME TypeOK, TypeOK', WriterInv, ReaderInv, [Next]_vars
               PROVE  WriterInv' /\ ReaderInv'
    OBVIOUS
  <2>0. /\ whead \in Slots /\ wtail \in Slots /\ r \in Slots
        /\ Busy # Full /\ Busy # Ok /\ Busy # Empty /\ Busy \notin Values
    BY ResultsAssumption DEF TypeOK
  <2> USE DEF TypeOK, WPositions, RPositions, wvars, rvars, looksfull, looksempty
  <2>1. ASSUME NEW w \in Writers, NEW p \in Values, WCall(w, p)
        PROVE  WriterInv' /\ ReaderInv'
    BY <2>1, <2>0 DEF WCall, WriterInv, ReaderInv
  <2>2. ASSUME NEW w \in Writers, WStep(w) PROVE WriterInv' /\ ReaderInv'
    <3>1. CASE WLoad(w)  BY <3>1, <2>0 DEF WLoad, WriterInv, ReaderInv
    <3>2. CASE WFull(w)  BY <3>2, <2>0 DEF WFull, WriterInv, ReaderInv
    <3>3. CASE WRoom(w)  BY <3>3, <2>0 DEF WRoom, WriterInv, ReaderInv
    <3>4. CASE WReserve(w)  BY <3>4, <2>0 DEF WReserve, WriterInv, ReaderInv
    <3>5. CASE WRetry(w)  BY <3>5, <2>0 DEF WRetry, WriterInv, ReaderInv
    <3>6. CASE WStore(w)  BY <3>6, <2>0 DEF WStore, WriterInv, ReaderInv
    <3>7. CASE WWait(w)  BY <3>7, <2>0 DEF WWait, WriterInv, ReaderInv
    <3>8. CASE WPublish(w)  BY <3>8, <2>0 DEF WPublish, WriterInv, ReaderInv
    <3> QED
      BY <2>2, <3>1, <3>2, <3>3, <3>4, <3>5, <3>6, <3>7, <3>8 DEF WStep
  <2>3. ASSUME NEW x \in Readers, RCall(x) PROVE WriterInv' /\ ReaderInv'
    BY <2>3, <2>0 DEF RCall, WriterInv, ReaderInv
  <2>4. ASSUME NEW x \in Readers, RStep(x) PROVE WriterInv' /\ ReaderInv'
    <3>1. CASE RLoad(x)  BY <3>1, <2>0 DEF RLoad, WriterInv, ReaderInv
    <3>2. CASE REmpty(x)  BY <3>2, <2>0 DEF REmpty, WriterInv, ReaderInv
    <3>3. CASE RSeen(x)  BY <3>3, <2>0 DEF RSeen, WriterInv, ReaderInv
    <3>4. CASE RFetch(x)  BY <3>4, <2>0 DEF RFetch, WriterInv, ReaderInv
    <3>5. CASE RTake(x)
      <4>1. r # wtail /\ r' = increset2(r)
        BY <3>5 DEF RTake, ReaderInv
      <4>2. increset2(wtail) # r'
        BY <4>1, <2>0, IncInjective
      <4> QED
        BY <3>5, <4>1, <4>2, <2>0 DEF RTake, WriterInv, ReaderInv
    <3>6. CASE RRetry(x)  BY <3>6, <2>0 DEF RRetry, WriterInv, ReaderInv
    <3> QED
      BY <2>4, <3>1, <3>2, <3>3, <3>4, <3>5, <3>6 DEF RStep
  <2>5. CASE UNCHANGED vars
    BY <2>5 DEF vars, WriterInv, ReaderInv
  <2> QED
    BY <2>1, <2>2, <2>3, <2>4, <2>5 DEF Next
<1> QED
  BY <1>1, <1>2, RingTypeOK, PTL DEF Spec, SPSCInv

\* With one writer and one reader a successful read returns the oldest unread
\* element, and a successful reservation is of a free slot.
THEOREM SPSCSafe ==
    ASSUME NEW wr, Writers = {wr}, NEW rd, Readers = {rd}, Excl = FALSE
    PROVE  Spec => [](TakeIsFresh /\ ReserveIsFree)
<1>1. SPSCInv => TakeIsFresh /\ ReserveIsFree
  BY DEF SPSCInv, WriterInv, ReaderInv, TakeIsFresh, ReserveIsFree
<1> QED
  BY <1>1, SPSCInvariant, PTL
-----------------------------------------------------------------------------
\* The unread elements occupy the slots from r up to, and not including, wtail.
LEMMA UnreadSlots ==
    ASSUME TypeOK
    PROVE  /\ unread \in 0..(Cap - 1)
           /\ unread = IF wtail >= r THEN wtail - r ELSE wtail + Cap - r
           /\ \A i \in Nat : i <= unread =>
                 (r + i) % Cap = IF r + i < Cap THEN r + i ELSE r + i - Cap
           /\ \A i \in Nat : i < unread => (r + i) % Cap \in Slots \ {wtail}
           /\ (r + unread) % Cap = wtail
<1>0. Cap \in Nat /\ Cap > 1 /\ wtail \in 0..(Cap - 1) /\ r \in 0..(Cap - 1)
  BY CapAssumption DEF TypeOK, Slots
<1>1. unread = IF wtail >= r THEN wtail - r ELSE wtail + Cap - r
  BY DistIsWrap DEF unread, TypeOK
<1>2. unread \in 0..(Cap - 1)
  BY <1>0, <1>1
<1>3. ASSUME NEW i \in Nat, i <= unread
      PROVE (r + i) % Cap = IF r + i < Cap THEN r + i ELSE r + i - Cap
  BY <1>0, <1>2, <1>3, ModIsWrap
<1>4. ASSUME NEW i \in Nat, i < unread PROVE (r + i) % Cap \in Slots \ {wtail}
  BY <1>0, <1>1, <1>3, <1>4 DEF Slots
<1>5. (r + unread) % Cap = wtail
  BY <1>0, <1>1, <1>2, <1>3
<1> QED
  BY <1>1, <1>2, <1>3, <1>4, <1>5

\* With one writer and one reader no element is overwritten before it is read.
THEOREM SPSCNoOverwrite ==
    ASSUME NEW wr, Writers = {wr}, NEW rd, Readers = {rd}, Excl = FALSE
    PROVE  Spec => NoOverwrite
<1> DEFINE Kept == \A i \in 0..(Cap - 2) :
                      i < unread => d'[(r + i) % Cap] = d[(r + i) % Cap]
<1>1. SPSCInv /\ [Next]_vars => [Kept]_d
  <2> SUFFICES ASSUME SPSCInv, [Next]_vars, d' # d PROVE Kept
    OBVIOUS
  <2>1. PICK w \in Writers : WStore(w)
    BY DEF Next, vars, WCall, RCall, WStep, RStep, WLoad, WFull, WRoom, WReserve, WRetry,
           WWait, WPublish, RLoad, REmpty, RSeen, RFetch, RTake, RRetry
  <2>2. hold[w] = wtail
    BY <2>1 DEF SPSCInv, WriterInv, WStore
  <2>3. ASSUME NEW i \in 0..(Cap - 2), i < unread
        PROVE  (r + i) % Cap \in Slots /\ (r + i) % Cap # wtail
    BY <2>3, UnreadSlots DEF SPSCInv
  <2> QED
    BY <2>1, <2>2, <2>3 DEF SPSCInv, TypeOK, WStore
<1> QED
  BY <1>1, SPSCInvariant, PTL DEF Spec, NoOverwrite
-----------------------------------------------------------------------------
\* The elements a reader can still take, as a sequence.
LEMMA QueueShape ==
    ASSUME TypeOK
    PROVE  /\ ringqueue \in Seq(Values)
           /\ Len(ringqueue) = unread
           /\ DOMAIN ringqueue = 1..unread
           /\ \A k \in 1..unread : ringqueue[k] = d[(r + k - 1) % Cap]
<1>1. unread \in Nat /\ Cap \in Nat /\ r \in Nat
  BY UnreadSlots, CapAssumption DEF TypeOK, Slots
<1>2. ASSUME NEW k \in 1..unread PROVE d[(r + k - 1) % Cap] \in Values
  <2>1. k - 1 \in Nat /\ k - 1 < unread /\ r + k - 1 = r + (k - 1)
    BY <1>1
  <2>2. (r + (k - 1)) % Cap \in Slots
    BY <2>1, UnreadSlots
  <2> QED
    BY <2>1, <2>2 DEF TypeOK
<1> QED
  BY <1>1, <1>2 DEF ringqueue

\* Publishing the element at wtail appends it.
LEMMA PublishAppends ==
    ASSUME TypeOK, TypeOK', wtail' = increset2(wtail), increset2(wtail) # r,
           UNCHANGED <<d, r>>
    PROVE  /\ ringqueue' = Append(ringqueue, d[wtail])
           /\ unread < Cap - 1
<1>0. Cap \in Nat /\ Cap > 1 /\ wtail \in 0..(Cap - 1) /\ r \in 0..(Cap - 1)
  BY CapAssumption DEF TypeOK, Slots
<1>1. increset2(wtail) = IF wtail + 1 < Cap THEN wtail + 1 ELSE wtail + 1 - Cap
  BY <1>0, ModIsWrap DEF increset2
<1>2. /\ unread = IF wtail >= r THEN wtail - r ELSE wtail + Cap - r
      /\ unread' = IF wtail' >= r THEN wtail' - r ELSE wtail' + Cap - r
  BY DistIsWrap DEF unread, TypeOK
<1>3. unread \in Nat /\ unread < Cap - 1 /\ unread' = unread + 1
  BY <1>0, <1>1, <1>2
<1>4. (r + unread) % Cap = wtail
  BY UnreadSlots
<1>5. ringqueue' = [k \in 1..(unread + 1) |-> d[(r + k - 1) % Cap]]
  BY <1>3 DEF ringqueue
<1>6. ringqueue \in Seq(Values) /\ Len(ringqueue) = unread
  BY QueueShape
<1>7. Append(ringqueue, d[wtail]) =
        [k \in 1..(unread + 1) |-> IF k <= unread THEN ringqueue[k] ELSE d[wtail]]
  BY <1>3, <1>6
<1>8. ASSUME NEW k \in 1..(unread + 1)
      PROVE  d[(r + k - 1) % Cap] = IF k <= unread THEN ringqueue[k] ELSE d[wtail]
  <2>1. CASE k <= unread
    BY <2>1, <1>3, QueueShape
  <2>2. CASE k = unread + 1
    <3>1. r + k - 1 = r + unread
      BY <2>2, <1>3, <1>0
    <3> QED
      BY <3>1, <2>2, <1>3, <1>4
  <2> QED
    BY <2>1, <2>2, <1>3
<1> QED
  BY <1>3, <1>5, <1>7, <1>8

\* Advancing r removes the oldest element.
LEMMA TakeRemoves ==
    ASSUME TypeOK, TypeOK', r' = increset2(r), r # wtail, UNCHANGED <<d, wtail>>
    PROVE  /\ ringqueue # << >>
           /\ d[r] = Head(ringqueue)
           /\ ringqueue' = Tail(ringqueue)
<1>0. Cap \in Nat /\ Cap > 1 /\ wtail \in 0..(Cap - 1) /\ r \in 0..(Cap - 1)
  BY CapAssumption DEF TypeOK, Slots
<1>1. increset2(r) = IF r + 1 < Cap THEN r + 1 ELSE r + 1 - Cap
  BY <1>0, ModIsWrap DEF increset2
<1>2. /\ unread = IF wtail >= r THEN wtail - r ELSE wtail + Cap - r
      /\ unread' = IF wtail >= r' THEN wtail - r' ELSE wtail + Cap - r'
  BY DistIsWrap DEF unread, TypeOK
<1>3. unread \in Nat /\ unread >= 1 /\ unread' = unread - 1 /\ unread < Cap
  BY <1>0, <1>1, <1>2
<1>4. ringqueue \in Seq(Values) /\ Len(ringqueue) = unread
  BY QueueShape
<1>5. ringqueue' = [k \in 1..(unread - 1) |-> d[(r' + k - 1) % Cap]]
  BY <1>3 DEF ringqueue
<1>6. /\ Tail(ringqueue) \in Seq(Values)
      /\ Len(Tail(ringqueue)) = unread - 1
      /\ \A k \in 1..(unread - 1) : Tail(ringqueue)[k] = ringqueue[k + 1]
  <2>1. ringqueue # << >>
    BY <1>3, <1>4
  <2> QED
    BY <1>4, <2>1, HeadTailProperties
<1>7. ASSUME NEW k \in 1..(unread - 1)
      PROVE  d[(r' + k - 1) % Cap] = ringqueue[k + 1]
  <2>1. k + 1 \in 1..unread /\ k - 1 \in Nat /\ k \in Nat /\ k <= unread
    BY <1>3
  <2>2. ringqueue[k + 1] = d[(r + (k + 1) - 1) % Cap]
    BY <2>1, QueueShape
  <2>3. (r + k) % Cap = IF r + k < Cap THEN r + k ELSE r + k - Cap
    BY <2>1, UnreadSlots
  <2>4. PICK n \in Nat : n = r' + k - 1 /\ n < 2 * Cap
    BY <1>0, <1>1, <1>3, <2>1
  <2>5. n % Cap = IF n < Cap THEN n ELSE n - Cap
    BY <2>4, ModIsWrap
  <2>6. (r' + k - 1) % Cap = (r + k) % Cap
    BY <1>0, <1>1, <1>3, <2>1, <2>3, <2>4, <2>5
  <2>7. r + (k + 1) - 1 = r + k
    BY <1>0, <2>1
  <2> QED
    BY <2>2, <2>6, <2>7
<1>8. Head(ringqueue) = d[(r + 0) % Cap] /\ (r + 0) % Cap = r
  <2>1. Head(ringqueue) = ringqueue[1] /\ 1 \in 1..unread /\ r + 1 - 1 = r + 0
    BY <1>0, <1>3, <1>4
  <2>2. ringqueue[1] = d[(r + 1 - 1) % Cap]
    BY <2>1, QueueShape
  <2>3. (r + 0) % Cap = IF r + 0 < Cap THEN r + 0 ELSE r + 0 - Cap
    BY <1>3, UnreadSlots
  <2> QED
    BY <2>1, <2>2, <2>3, <1>0
<1>9. ringqueue' = Tail(ringqueue)
  <2>1. ASSUME NEW k \in 1..(unread - 1) PROVE ringqueue'[k] = Tail(ringqueue)[k]
    BY <1>5, <1>6, <1>7
  <2>2. ringqueue' \in Seq(Values) /\ Len(ringqueue') = unread - 1
    <3>1. ASSUME NEW k \in 1..(unread - 1) PROVE d[(r' + k - 1) % Cap] \in Values
      BY <1>3, <1>4, <1>7
    <3> QED
      BY <1>3, <1>5, <3>1
  <2> QED
    BY <1>6, <2>1, <2>2, SeqEqual
<1> QED
  BY <1>3, <1>4, <1>8, <1>9
-----------------------------------------------------------------------------
\* With one writer and one reader the ring is a first-in first-out queue of
\* Cap - 1 elements whose "full" and "empty" answers are exact, for every size.
THEOREM SPSCIsQueue ==
    ASSUME NEW wr, Writers = {wr}, NEW rd, Readers = {rd}, Excl = FALSE
    PROVE  Spec => IsQueue
<1>1. Init => Exactly!Init
  <2> SUFFICES ASSUME Init PROVE Exactly!Init
    OBVIOUS
  <2>1. 0 \in Slots
    BY CapAssumption DEF Slots
  <2>2. unread = 0
    BY <2>1, DistIsWrap DEF unread, Init
  <2>3. ringqueue = << >>
    BY <2>2 DEF ringqueue
  <2> QED
    BY <2>3 DEF Init, Exactly!Init
<1>2. SPSCInv /\ SPSCInv' /\ [Next]_vars => [Exactly!Next]_(Exactly!qvars)
  <2> SUFFICES ASSUME SPSCInv, SPSCInv', [Next]_vars
               PROVE  [Exactly!Next]_(Exactly!qvars)
    OBVIOUS
  <2>0. TypeOK /\ TypeOK' /\ WriterInv /\ ReaderInv /\ WriterInv' /\ ReaderInv'
    BY DEF SPSCInv
  <2> USE DEF wvars, rvars, looksfull, looksempty
  <2>1. UNCHANGED <<d, wtail, r>> => ringqueue' = ringqueue
    BY DEF ringqueue, unread
  <2>2. ASSUME NEW w \in Writers, NEW p \in Values, WCall(w, p)
        PROVE  Exactly!CallWrite(w, p)
    BY <2>0, <2>1, <2>2 DEF WCall, WriterInv, Exactly!CallWrite
  <2>3. ASSUME NEW x \in Readers, RCall(x) PROVE Exactly!CallRead(x)
    BY <2>0, <2>1, <2>3 DEF RCall, ReaderInv, Exactly!CallRead
  <2>4. ASSUME NEW w \in Writers, WFull(w) PROVE Exactly!PutFails(w)
    <3>1. increset2(wtail) = r
      BY <2>0, <2>4 DEF WFull, WriterInv
    <3>2. unread = Cap - 1
      <4>1. wtail \in Slots /\ r \in Slots /\ Cap \in Nat /\ Cap > 1
        BY <2>0, CapAssumption DEF TypeOK
      <4>2. increset2(wtail) = IF wtail + 1 < Cap THEN wtail + 1 ELSE wtail + 1 - Cap
        BY <4>1, ModIsWrap DEF increset2, Slots
      <4>3. unread = IF wtail >= r THEN wtail - r ELSE wtail + Cap - r
        BY <4>1, DistIsWrap DEF unread
      <4>4. wtail \in Nat /\ wtail <= Cap - 1 /\ r \in Nat
        BY <4>1 DEF Slots
      <4>5. CASE wtail + 1 < Cap
        <5>1. r = wtail + 1
          BY <3>1, <4>2, <4>5
        <5> QED
          BY <4>1, <4>3, <4>4, <5>1
      <4>6. CASE ~(wtail + 1 < Cap)
        <5>1. r = wtail + 1 - Cap
          BY <3>1, <4>2, <4>6
        <5> QED
          BY <4>1, <4>3, <4>4, <4>6, <5>1
      <4> QED
        BY <4>5, <4>6
    <3>3. Len(ringqueue) = Cap - 1
      BY <2>0, <3>2, QueueShape
    <3> QED
      BY <2>0, <2>1, <2>4, <3>3 DEF WFull, WriterInv, Exactly!PutFails
  <2>5. ASSUME NEW w \in Writers, WPublish(w) PROVE Exactly!Put(w)
    <3>1. /\ wtail' = increset2(wtail) /\ increset2(wtail) # r
          /\ d[wtail] = wval[w] /\ UNCHANGED <<d, r>>
      BY <2>0, <2>5 DEF WPublish, WriterInv
    <3>2. ringqueue' = Append(ringqueue, wval[w]) /\ unread < Cap - 1
      BY <2>0, <3>1, PublishAppends
    <3>3. Len(ringqueue) = unread
      BY <2>0, QueueShape
    <3> QED
      BY <2>0, <2>5, <3>2, <3>3 DEF WPublish, WriterInv, Exactly!Put
  <2>6. ASSUME NEW x \in Readers, REmpty(x) PROVE Exactly!GetFails(x)
    <3>1. r = wtail
      BY <2>0, <2>6 DEF REmpty, ReaderInv
    <3>2. unread = 0
      <4>1. wtail \in Slots /\ r \in Slots /\ Cap \in Nat
        BY <2>0, CapAssumption DEF TypeOK
      <4> QED
        BY <3>1, <4>1, DistIsWrap DEF unread, Slots
    <3>3. ringqueue = << >>
      BY <3>2 DEF ringqueue
    <3> QED
      BY <2>0, <2>1, <2>6, <3>3 DEF REmpty, ReaderInv, Exactly!GetFails
  <2>7. ASSUME NEW x \in Readers, RTake(x) PROVE Exactly!Get(x)
    <3>1. /\ r' = increset2(r) /\ r # wtail /\ rc[x] = d[r] /\ UNCHANGED <<d, wtail>>
      BY <2>0, <2>7 DEF RTake, ReaderInv
    <3>2. ringqueue # << >> /\ rc[x] = Head(ringqueue) /\ ringqueue' = Tail(ringqueue)
      BY <2>0, <3>1, TakeRemoves
    <3> QED
      BY <2>0, <2>7, <3>2 DEF RTake, ReaderInv, Exactly!Get
  <2>8. ASSUME NEW w \in Writers, WStore(w) PROVE UNCHANGED (Exactly!qvars)
    <3>1. hold[w] = wtail
      BY <2>0, <2>8 DEF WStore, WriterInv
    <3>2. unread' = unread
      BY <2>8 DEF WStore, unread
    <3>3. ASSUME NEW k \in 1..unread PROVE d'[(r + k - 1) % Cap] = d[(r + k - 1) % Cap]
      <4>1. k - 1 \in Nat /\ k - 1 < unread /\ r + k - 1 = r + (k - 1)
        BY <2>0, UnreadSlots, SMTT(30) DEF TypeOK, Slots
      <4>2. (r + (k - 1)) % Cap \in Slots /\ (r + (k - 1)) % Cap # wtail
        BY <2>0, <4>1, UnreadSlots
      <4> QED
        BY <2>0, <2>8, <3>1, <4>1, <4>2 DEF WStore, TypeOK
    <3>4. ringqueue' = ringqueue
      BY <2>8, <3>2, <3>3 DEF ringqueue, WStore
    <3> QED
      BY <2>8, <3>4 DEF WStore, Exactly!qvars
  <2>9. ASSUME NEW w \in Writers,
               WLoad(w) \/ WRoom(w) \/ WReserve(w) \/ WRetry(w) \/ WWait(w)
        PROVE  UNCHANGED (Exactly!qvars)
    BY <2>1, <2>9 DEF WLoad, WRoom, WReserve, WRetry, WWait, Exactly!qvars
  <2>10. ASSUME NEW x \in Readers, RLoad(x) \/ RSeen(x) \/ RFetch(x) \/ RRetry(x)
         PROVE  UNCHANGED (Exactly!qvars)
    BY <2>1, <2>10 DEF RLoad, RSeen, RFetch, RRetry, Exactly!qvars
  <2>11. CASE UNCHANGED vars
    BY <2>1, <2>11 DEF vars, Exactly!qvars
  <2> QED
    BY <2>2, <2>3, <2>4, <2>5, <2>6, <2>7, <2>8, <2>9, <2>10, <2>11
       DEF Next, WStep, RStep, Exactly!Next
<1> QED
  BY <1>1, <1>2, SPSCInvariant, PTL DEF Spec, IsQueue, Exactly!Spec
-----------------------------------------------------------------------------
(* Several writers and several readers.  First, what distances do. *)

LEMMA IncIs ==
    ASSUME NEW n \in Slots
    PROVE  increset2(n) = IF n + 1 < Cap THEN n + 1 ELSE 0
<1>1. Cap \in Nat /\ Cap > 1
  BY CapAssumption
<1>2. increset2(n) = IF n + 1 < Cap THEN n + 1 ELSE n + 1 - Cap
  BY <1>1, ModIsWrap DEF Slots, increset2
<1> QED
  BY <1>1, <1>2 DEF Slots

LEMMA AheadIs ==
    ASSUME NEW a \in Slots, NEW b \in Slots
    PROVE  /\ ahead(a, b) = IF b >= a THEN b - a ELSE b + Cap - a
           /\ ahead(a, b) \in Slots
           /\ ahead(a, b) = 0 <=> a = b
<1>1. Cap \in Nat /\ Cap > 1
  BY CapAssumption
<1>2. ahead(a, b) = IF b >= a THEN b - a ELSE b + Cap - a
  BY DistIsWrap DEF ahead
<1> QED
  BY <1>1, <1>2 DEF Slots

\* The slot behind b is one further ahead, unless it is a itself.
LEMMA AheadInc ==
    ASSUME NEW a \in Slots, NEW b \in Slots
    PROVE  /\ increset2(b) # a <=> ahead(a, b) + 1 < Cap
           /\ increset2(b) # a => ahead(a, increset2(b)) = ahead(a, b) + 1
<1>1. Cap \in Nat /\ Cap > 1
  BY CapAssumption
<1>2. increset2(b) = IF b + 1 < Cap THEN b + 1 ELSE 0
  BY IncIs
<1>3. ahead(a, b) = IF b >= a THEN b - a ELSE b + Cap - a
  BY AheadIs
<1>4. increset2(b) \in Slots
  BY IncType
<1>5. ahead(a, increset2(b)) = IF increset2(b) >= a THEN increset2(b) - a
                                                    ELSE increset2(b) + Cap - a
  BY <1>4, AheadIs
<1> QED
  BY <1>1, <1>2, <1>3, <1>5 DEF Slots

\* Seen from the slot behind a, everything but a is one nearer.
LEMMA AheadNearer ==
    ASSUME NEW a \in Slots, NEW b \in Slots, a # b
    PROVE  ahead(increset2(a), b) = ahead(a, b) - 1
<1>1. Cap \in Nat /\ Cap > 1
  BY CapAssumption
<1>2. increset2(a) = IF a + 1 < Cap THEN a + 1 ELSE 0
  BY IncIs
<1>3. ahead(a, b) = IF b >= a THEN b - a ELSE b + Cap - a
  BY AheadIs
<1>4. increset2(a) \in Slots
  BY IncType
<1>5. ahead(increset2(a), b) = IF b >= increset2(a) THEN b - increset2(a)
                                                    ELSE b + Cap - increset2(a)
  BY <1>4, AheadIs
<1> QED
  BY <1>1, <1>2, <1>3, <1>5 DEF Slots

\* b lies between a and c, s between b and c.
LEMMA AheadBetween ==
    ASSUME NEW a \in Slots, NEW b \in Slots, NEW c \in Slots, NEW s \in Slots,
           ahead(a, b) <= ahead(a, c), ahead(b, s) < ahead(b, c)
    PROVE  /\ ahead(a, s) = ahead(a, b) + ahead(b, s)
           /\ ahead(a, s) < ahead(a, c)
<1>1. Cap \in Nat /\ Cap > 1
  BY CapAssumption
<1>2. /\ ahead(a, b) = IF b >= a THEN b - a ELSE b + Cap - a
      /\ ahead(a, c) = IF c >= a THEN c - a ELSE c + Cap - a
      /\ ahead(a, s) = IF s >= a THEN s - a ELSE s + Cap - a
      /\ ahead(b, s) = IF s >= b THEN s - b ELSE s + Cap - b
      /\ ahead(b, c) = IF c >= b THEN c - b ELSE c + Cap - b
  BY AheadIs
<1> QED
  BY <1>1, <1>2 DEF Slots
-----------------------------------------------------------------------------
\* The lag of a thread that keeps the index it holds grows with the index it
\* has yet to compare, and never to a whole lap.
LEMMA LagStep ==
    ASSUME TypeOK, TypeOK', wlag \in [Writers -> Slots], rlag \in [Readers -> Slots],
           Lags, NotLapped
    PROVE  /\ wlag' \in [Writers -> Slots] /\ rlag' \in [Readers -> Slots]
           /\ \A w \in Writers :
                 IF wpc[w] \in {"check", "reserve"} /\ wpc'[w] \in {"check", "reserve"}
                 THEN wlag'[w] = IF whead' = whead THEN wlag[w] ELSE wlag[w] + 1
                 ELSE wlag'[w] = 0
           /\ \A x \in Readers :
                 IF rpc[x] \in {"check", "fetch", "take"} /\ rpc'[x] \in {"check", "fetch", "take"}
                 THEN rlag'[x] = IF r' = r THEN rlag[x] ELSE rlag[x] + 1
                 ELSE rlag'[x] = 0
<1>0. Cap \in Nat /\ Cap > 1 /\ Slots = 0..(Cap - 1)
  BY CapAssumption DEF Slots
<1>1. ASSUME NEW w \in Writers
      PROVE  /\ wlag'[w] \in Slots
             /\ IF wpc[w] \in {"check", "reserve"} /\ wpc'[w] \in {"check", "reserve"}
                THEN wlag'[w] = IF whead' = whead THEN wlag[w] ELSE wlag[w] + 1
                ELSE wlag'[w] = 0
  <2>1. wlag'[w] = IF wpc[w] \in {"check", "reserve"} /\ wpc'[w] \in {"check", "reserve"}
                   THEN wlag[w] + Moved(whead, whead') ELSE 0
    BY DEF Lags
  <2>2. wlag[w] \in 0..(Cap - 1) /\ wlag'[w] < Cap
    BY <1>0 DEF NotLapped
  <2> QED
    BY <1>0, <2>1, <2>2 DEF Moved
<1>2. ASSUME NEW x \in Readers
      PROVE  /\ rlag'[x] \in Slots
             /\ IF rpc[x] \in {"check", "fetch", "take"} /\ rpc'[x] \in {"check", "fetch", "take"}
                THEN rlag'[x] = IF r' = r THEN rlag[x] ELSE rlag[x] + 1
                ELSE rlag'[x] = 0
  <2>1. rlag'[x] = IF rpc[x] \in {"check", "fetch", "take"} /\ rpc'[x] \in {"check", "fetch", "take"}
                   THEN rlag[x] + Moved(r, r') ELSE 0
    BY DEF Lags
  <2>2. rlag[x] \in 0..(Cap - 1) /\ rlag'[x] < Cap
    BY <1>0 DEF NotLapped
  <2> QED
    BY <1>0, <2>1, <2>2 DEF Moved
<1>3. wlag' \in [Writers -> Slots]
  <2>1. wlag' = [w \in Writers |-> wlag'[w]]
    BY DEF Lags
  <2> QED
    BY <1>1, <2>1
<1>4. rlag' \in [Readers -> Slots]
  <2>1. rlag' = [x \in Readers |-> rlag'[x]]
    BY DEF Lags
  <2> QED
    BY <1>2, <2>1
<1> QED
  BY <1>1, <1>2, <1>3, <1>4

\* A step that moves no index and leaves the owners with what they own.
LEMMA DividedKept ==
    ASSUME Divided, UNCHANGED <<whead, wtail, r>>, Owners' = Owners,
           \A w \in Owners : hold'[w] = hold[w]
    PROVE  Divided'
<1> QED
  BY DEF Divided, ahead

\* What a thread knows does not change with a step of another thread that moves
\* no index and stores nothing.
LEMMA KnowKept ==
    ASSUME LapInv, TypeOK', Lags, NotLapped, UNCHANGED <<d, whead, wtail, r>>
    PROVE  /\ \A w \in Writers : UNCHANGED <<wpc[w], hold[w], wval[w], wret[w]>> => WriterKnows(w)'
           /\ \A x \in Readers : UNCHANGED <<rpc[x], rr[x], rc[x], rret[x]>> => ReaderKnows(x)'
<1>1. /\ \A w \in Writers :
            wpc[w] \in {"check", "reserve"} /\ wpc'[w] = wpc[w] => wlag'[w] = wlag[w]
      /\ \A x \in Readers :
            rpc[x] \in {"check", "fetch", "take"} /\ rpc'[x] = rpc[x] => rlag'[x] = rlag[x]
  BY LagStep DEF LapInv
<1> QED
  BY <1>1 DEF LapInv, WriterKnows, ReaderKnows

\* The steps of a writer that neither move an index nor store.
LEMMA WriterLooks ==
    ASSUME Excl = FALSE, LapInv, TypeOK', Lags, NotLapped, NEW w \in Writers,
           \/ \E p \in Values : WCall(w, p)
           \/ WLoad(w) \/ WFull(w) \/ WRoom(w) \/ WRetry(w) \/ WWait(w)
    PROVE  LapInv'
<1> USE DEF TypeOK, wvars, rvars
<1>0. /\ TypeOK /\ Divided /\ WriterKnows(w)
      /\ whead \in Slots /\ hold[w] \in Slots /\ wpc[w] \in WPositions
      /\ Busy # Full /\ Busy # Ok
  BY ResultsAssumption DEF LapInv
<1>1. /\ UNCHANGED <<d, whead, wtail, r, rpc, rr, rc, rret>>
      /\ \A v \in Writers \ {w} : UNCHANGED <<wpc[v], hold[v], wval[v], wret[v]>>
  BY <1>0 DEF WCall, WLoad, WFull, WRoom, WRetry, WWait
<1>2. \A v \in Writers \ {w} : WriterKnows(v)'
  BY <1>1, KnowKept
<1>3. \A x \in Readers : ReaderKnows(x)'
  BY <1>1, KnowKept
<1>4. /\ wlag' \in [Writers -> Slots] /\ rlag' \in [Readers -> Slots]
      /\ IF wpc[w] \in {"check", "reserve"} /\ wpc'[w] \in {"check", "reserve"}
         THEN wlag'[w] = wlag[w] ELSE wlag'[w] = 0
  BY <1>1, LagStep DEF LapInv
<1>5. WriterKnows(w)'
  <2>1. ASSUME NEW p \in Values, WCall(w, p) PROVE WriterKnows(w)'
    BY <2>1, <1>0 DEF WCall, WriterKnows
  <2>2. CASE WLoad(w)
    <3>1. ahead(whead, whead) = 0
      BY <1>0, AheadIs
    <3> QED
      BY <2>2, <3>1, <1>0, <1>4 DEF WLoad, WriterKnows
  <2>3. CASE WFull(w)
    BY <2>3, <1>0 DEF WFull, WriterKnows
  <2>4. CASE WRoom(w)
    <3>1. wlag[w] = 0 => hold[w] = whead
      BY <2>4, <1>0, AheadIs DEF WRoom, WriterKnows
    <3> QED
      BY <2>4, <3>1, <1>0, <1>4 DEF WRoom, WriterKnows, looksfull
  <2>5. CASE WRetry(w)
    BY <2>5, <1>0 DEF WRetry, WriterKnows
  <2>6. CASE WWait(w)
    BY <2>6, <1>0 DEF WWait, WriterKnows
  <2> QED
    BY <2>1, <2>2, <2>3, <2>4, <2>5, <2>6
<1>6. Owners' = Owners /\ \A v \in Owners : hold'[v] = hold[v]
  <2>1. (w \in Owners)' <=> w \in Owners
    BY <1>0 DEF Owners, WCall, WLoad, WFull, WRoom, WRetry, WWait
  <2>2. w \in Owners => hold'[w] = hold[w]
    BY <1>0 DEF Owners, WCall, WLoad, WFull, WRoom, WRetry, WWait
  <2> QED
    BY <1>1, <2>1, <2>2 DEF Owners
<1>7. Divided'
  BY <1>0, <1>1, <1>6, DividedKept
<1> QED
  BY <1>2, <1>3, <1>4, <1>5, <1>7 DEF LapInv

\* The steps of a reader that do not move r.
LEMMA ReaderLooks ==
    ASSUME LapInv, TypeOK', Lags, NotLapped, NEW x \in Readers,
           RCall(x) \/ RLoad(x) \/ REmpty(x) \/ RSeen(x) \/ RFetch(x) \/ RRetry(x)
    PROVE  LapInv'
<1> USE DEF TypeOK, wvars, rvars
<1>0. /\ TypeOK /\ Divided /\ ReaderKnows(x)
      /\ r \in Slots /\ rr[x] \in Slots /\ rpc[x] \in RPositions
      /\ Busy # Empty
  BY ResultsAssumption DEF LapInv
<1>1. /\ UNCHANGED <<d, whead, wtail, r, wpc, hold, wval, wret>>
      /\ \A y \in Readers \ {x} : UNCHANGED <<rpc[y], rr[y], rc[y], rret[y]>>
  BY <1>0 DEF RCall, RLoad, REmpty, RSeen, RFetch, RRetry
<1>2. \A w \in Writers : WriterKnows(w)'
  BY <1>1, KnowKept
<1>3. \A y \in Readers \ {x} : ReaderKnows(y)'
  BY <1>1, KnowKept
<1>4. /\ wlag' \in [Writers -> Slots] /\ rlag' \in [Readers -> Slots]
      /\ IF rpc[x] \in {"check", "fetch", "take"} /\ rpc'[x] \in {"check", "fetch", "take"}
         THEN rlag'[x] = rlag[x] ELSE rlag'[x] = 0
  BY <1>1, LagStep DEF LapInv
<1>5. ReaderKnows(x)'
  <2>1. CASE RCall(x)
    BY <2>1, <1>0 DEF RCall, ReaderKnows
  <2>2. CASE RLoad(x)
    <3>1. ahead(r, r) = 0
      BY <1>0, AheadIs
    <3> QED
      BY <2>2, <3>1, <1>0, <1>4 DEF RLoad, ReaderKnows
  <2>3. CASE REmpty(x)
    BY <2>3, <1>0 DEF REmpty, ReaderKnows
  <2>4. CASE RSeen(x)
    <3>1. rlag[x] = 0 => rr[x] = r
      BY <2>4, <1>0, AheadIs DEF RSeen, ReaderKnows
    <3> QED
      BY <2>4, <3>1, <1>0, <1>4 DEF RSeen, ReaderKnows, looksempty
  <2>5. CASE RFetch(x)
    <3>1. rlag[x] = 0 => rr[x] = r
      BY <2>5, <1>0, AheadIs DEF RFetch, ReaderKnows
    <3> QED
      BY <2>5, <3>1, <1>0, <1>4 DEF RFetch, ReaderKnows
  <2>6. CASE RRetry(x)
    BY <2>6, <1>0 DEF RRetry, ReaderKnows
  <2> QED
    BY <2>1, <2>2, <2>3, <2>4, <2>5, <2>6
<1>6. Divided'
  <2>1. Owners' = Owners /\ \A w \in Owners : hold'[w] = hold[w]
    BY <1>1 DEF Owners
  <2> QED
    BY <1>0, <1>1, <2>1, DividedKept
<1> QED
  BY <1>2, <1>3, <1>4, <1>5, <1>6 DEF LapInv

\* A reserved slot is behind every unread one, and there is a free slot behind
\* the last unread one while anything is reserved.
LEMMA OwnersSlot ==
    ASSUME LapInv, NEW w \in Owners
    PROVE  /\ ahead(r, wtail) <= ahead(r, hold[w])
           /\ r # wtail => hold[w] # r
           /\ wtail # whead
           /\ increset2(wtail) # r
           /\ ahead(r, wtail) < ahead(r, whead)
<1>0. PICK h \in Slots : /\ h = hold[w]
                         /\ r \in Slots /\ wtail \in Slots /\ whead \in Slots
                         /\ ahead(r, wtail) <= ahead(r, whead)
                         /\ ahead(wtail, h) < ahead(wtail, whead)
  BY DEF LapInv, TypeOK, Divided, Owners
<1>1. /\ Cap \in Nat /\ Slots \subseteq Nat
      /\ \A s \in Slots : s < Cap
  BY CapAssumption DEF Slots
<1>2. /\ ahead(r, wtail) \in Nat /\ ahead(wtail, h) \in Nat /\ ahead(wtail, whead) \in Nat
      /\ ahead(r, whead) \in Nat /\ ahead(r, whead) < Cap
  BY <1>0, <1>1, AheadIs
<1>3. /\ ahead(wtail, wtail) = 0
      /\ (ahead(r, wtail) = 0) <=> (r = wtail)
      /\ (ahead(r, h) = 0) <=> (r = h)
  BY <1>0, AheadIs
<1>4. ahead(r, h) = ahead(r, wtail) + ahead(wtail, h)
  BY <1>0, AheadBetween
<1>5. ahead(wtail, wtail) < ahead(wtail, whead)
  BY <1>0, <1>2, <1>3
<1>6. wtail # whead
  BY <1>3, <1>5
<1>7. ahead(r, wtail) < ahead(r, whead)
  BY <1>0, <1>5, AheadBetween
<1>8. ahead(r, wtail) + 1 < Cap
  BY <1>1, <1>2, <1>7
<1>9. increset2(wtail) # r
  BY <1>0, <1>8, AheadInc
<1>10. r # wtail => h # r
  BY <1>2, <1>3, <1>4
<1> QED
  BY <1>0, <1>2, <1>4, <1>6, <1>7, <1>9, <1>10

\* A store changes only a slot that its writer has reserved: not an unread one
\* and not one of another writer.
LEMMA WriterStores ==
    ASSUME Excl = FALSE, LapInv, TypeOK', Lags, NotLapped, NEW w \in Writers, WStore(w)
    PROVE  LapInv'
<1> USE DEF TypeOK, wvars, rvars
<1>0. /\ TypeOK /\ Divided /\ WriterKnows(w) /\ w \in Owners
      /\ whead \in Slots /\ hold[w] \in Slots
  BY DEF LapInv, WStore, Owners
<1>1. /\ UNCHANGED <<whead, wtail, r, hold, wval, wret, rpc, rr, rc, rret>>
      /\ d' = [d EXCEPT ![hold[w]] = wval[w]]
      /\ wpc' = [wpc EXCEPT ![w] = "wait"]
  BY DEF WStore
<1>2. /\ wlag' \in [Writers -> Slots] /\ rlag' \in [Readers -> Slots]
      /\ \A v \in Writers : wpc[v] \in {"check", "reserve"} /\ wpc'[v] = wpc[v] => wlag'[v] = wlag[v]
      /\ \A x \in Readers : rpc[x] \in {"check", "fetch", "take"} => rlag'[x] = rlag[x]
  BY <1>1, LagStep DEF LapInv
<1>3. ASSUME NEW v \in Writers PROVE WriterKnows(v)'
  <2>1. CASE v = w
    BY <2>1, <1>0, <1>1 DEF WriterKnows, WStore
  <2>2. CASE v # w
    <3>1. v \in Owners => hold[v] # hold[w]
      BY <2>2, <1>0 DEF Divided
    <3>2. wpc[v] \in {"wait", "publish"} => d'[hold[v]] = d[hold[v]]
      BY <3>1, <1>0, <1>1 DEF Owners
    <3> QED
      BY <2>2, <3>2, <1>0, <1>1, <1>2 DEF LapInv, WriterKnows
  <2> QED
    BY <2>1, <2>2
<1>4. ASSUME NEW x \in Readers PROVE ReaderKnows(x)'
  <2>1. r # wtail => d'[r] = d[r]
    BY <1>0, <1>1, OwnersSlot
  <2> QED
    BY <2>1, <1>1, <1>2 DEF LapInv, ReaderKnows
<1>5. Divided'
  <2>1. Owners' = Owners
    BY <1>0, <1>1 DEF Owners
  <2> QED
    BY <2>1, <1>0, <1>1, DividedKept
<1> QED
  BY <1>2, <1>3, <1>4, <1>5 DEF LapInv

\* A reservation takes the free slot at whead.
LEMMA WriterReserves ==
    ASSUME LapInv, TypeOK', Lags, NotLapped, NEW w \in Writers, WReserve(w)
    PROVE  LapInv'
<1> USE DEF TypeOK, wvars, rvars
<1>0. /\ TypeOK /\ Divided /\ WriterKnows(w) /\ w \notin Owners
      /\ whead \in Slots /\ wtail \in Slots /\ r \in Slots /\ hold \in [Writers -> Slots]
      /\ Cap \in Nat /\ Slots \subseteq Nat
  BY CapAssumption DEF LapInv, WReserve, Owners, Slots
<1>1. /\ UNCHANGED <<d, wtail, r, hold, wval, wret, rpc, rr, rc, rret>>
      /\ whead = hold[w] /\ whead' = increset2(whead) /\ whead' # whead
      /\ wpc' = [wpc EXCEPT ![w] = "store"] /\ wpc[w] = "reserve"
  BY <1>0, IncMoves DEF WReserve
<1>2. /\ wlag' \in [Writers -> Slots] /\ rlag' \in [Readers -> Slots]
      /\ \A v \in Writers \ {w} : wpc[v] \in {"check", "reserve"} => wlag'[v] = wlag[v] + 1
      /\ \A x \in Readers : rpc[x] \in {"check", "fetch", "take"} => rlag'[x] = rlag[x]
      /\ \A v \in Writers : wlag'[v] \in Nat /\ wlag'[v] < Cap
      /\ \A v \in Writers : wlag[v] \in Nat
  <2>1. /\ wlag' \in [Writers -> Slots] /\ rlag' \in [Readers -> Slots]
        /\ \A v \in Writers \ {w} : wpc[v] \in {"check", "reserve"} => wlag'[v] = wlag[v] + 1
        /\ \A x \in Readers : rpc[x] \in {"check", "fetch", "take"} => rlag'[x] = rlag[x]
    BY <1>1, LagStep DEF LapInv
  <2> QED
    BY <2>1, <1>0 DEF NotLapped, LapInv
<1>3. increset2(whead) # r
  BY <1>0, <1>1, AheadIs DEF WriterKnows
<1>4. ASSUME NEW v \in Writers PROVE WriterKnows(v)'
  <2>1. CASE v = w
    BY <2>1, <1>0, <1>1 DEF WriterKnows
  <2>2. CASE v # w
    <3>1. WriterKnows(v) /\ wpc'[v] = wpc[v]
      BY <2>2, <1>0, <1>1 DEF LapInv
    <3>2. ASSUME wpc[v] \in {"check", "reserve"}
          PROVE  ahead(hold[v], whead') = wlag'[v] /\ wlag'[v] # 0
      <4>1. ahead(hold[v], whead) = wlag[v] /\ wlag'[v] = wlag[v] + 1 /\ wlag'[v] < Cap
        BY <2>2, <3>1, <3>2, <1>2 DEF WriterKnows
      <4>2. ahead(hold[v], increset2(whead)) = ahead(hold[v], whead) + 1
        <5>1. PICK h \in Slots : h = hold[v]
          BY <1>0
        <5>2. ahead(h, whead) + 1 < Cap
          BY <4>1, <5>1
        <5>3. ahead(h, increset2(whead)) = ahead(h, whead) + 1
          BY <5>2, <1>0, AheadInc
        <5> QED
          BY <5>1, <5>3
      <4> QED
        BY <4>1, <4>2, <1>1, <1>2
    <3> QED
      BY <3>1, <3>2, <1>1 DEF WriterKnows
  <2> QED
    BY <2>1, <2>2
<1>5. ASSUME NEW x \in Readers PROVE ReaderKnows(x)'
  BY <1>1, <1>2 DEF LapInv, ReaderKnows
<1>6. Owners' = Owners \cup {w}
  BY <1>1, <1>0 DEF Owners
<1>7. Divided'
  <2>0. /\ ahead(r, wtail) \in Nat /\ ahead(r, whead) \in Nat
        /\ ahead(r, wtail) <= ahead(r, whead)
        /\ ahead(r, whead') = ahead(r, whead) + 1
    <3>1. ahead(r, whead') = ahead(r, whead) + 1
      BY <1>0, <1>1, <1>3, AheadInc
    <3> QED
      BY <3>1, <1>0, AheadIs DEF Divided
  <2>1. increset2(whead) # wtail
    <3>1. ASSUME increset2(whead) = wtail PROVE FALSE
      BY <2>0, <3>1, <1>1
    <3> QED
      BY <3>1
  <2>2. ahead(wtail, whead') = ahead(wtail, whead) + 1 /\ ahead(wtail, whead) \in Nat
    BY <2>1, <1>0, <1>1, AheadInc, AheadIs
  <2>3. ASSUME NEW v \in Owners' PROVE (ahead(wtail, hold[v]) < ahead(wtail, whead))'
    <3>1. ahead(wtail, hold[v]) \in Nat
      <4>1. PICK h \in Slots : h = hold[v]
        BY <1>0 DEF Owners
      <4> QED
        BY <4>1, <1>0, AheadIs
    <3>2. CASE v = w
      BY <3>2, <2>2, <1>1 DEF ahead
    <3>3. CASE v \in Owners
      <4>1. ahead(wtail, hold[v]) < ahead(wtail, whead)
        BY <3>3, <1>0 DEF Divided
      <4>2. ahead(wtail, hold[v]) < ahead(wtail, whead')
        BY <4>1, <3>1, <2>2
      <4> QED
        BY <4>2, <1>1 DEF ahead
    <3> QED
      BY <3>2, <3>3, <1>6
  <2>4. ASSUME NEW v \in Owners PROVE hold[v] # whead
    <3>1. ahead(wtail, hold[v]) < ahead(wtail, whead)
      BY <1>0 DEF Divided
    <3> QED
      BY <3>1, <2>2
  <2>5. ASSUME NEW u \in Owners', NEW v \in Owners', hold'[u] = hold'[v] PROVE u = v
    BY <2>4, <2>5, <1>0, <1>1, <1>6 DEF Divided
  <2>6. ASSUME NEW s \in Slots, ahead(wtail, s) < ahead(wtail, whead')
        PROVE  \E v \in Owners' : hold'[v] = s
    <3>1. CASE ahead(wtail, s) < ahead(wtail, whead)
      BY <3>1, <1>0, <1>1, <1>6 DEF Divided
    <3>2. CASE ahead(wtail, s) = ahead(wtail, whead)
      <4>1. s = whead
        <5>1. /\ ahead(wtail, s) = IF s >= wtail THEN s - wtail ELSE s + Cap - wtail
              /\ ahead(wtail, whead) = IF whead >= wtail THEN whead - wtail ELSE whead + Cap - wtail
          BY <1>0, AheadIs
        <5> QED
          BY <5>1, <3>2, <1>0 DEF Slots
      <4> QED
        BY <4>1, <1>1, <1>6
    <3> QED
      <4>1. ahead(wtail, s) \in Nat
        BY <1>0, AheadIs
      <4> QED
        BY <4>1, <2>2, <2>6, <3>1, <3>2
  <2>7. (ahead(r, wtail) <= ahead(r, whead))'
    BY <2>0, <1>1 DEF ahead
  <2>8. \A s \in Slots : (ahead(wtail, s) < ahead(wtail, whead))' => \E v \in Owners' : hold'[v] = s
    BY <2>6, <1>1 DEF ahead
  <2> QED
    BY <2>7, <2>3, <2>5, <2>8 DEF Divided
<1> QED
  BY <1>2, <1>4, <1>5, <1>7 DEF LapInv

\* A publication hands the slot at wtail to the readers.  Its writer was the only
\* one whose turn it was.
LEMMA WriterPublishes ==
    ASSUME LapInv, TypeOK', Lags, NotLapped, NEW w \in Writers, WPublish(w)
    PROVE  LapInv'
<1> USE DEF TypeOK, wvars, rvars
<1>0. /\ TypeOK /\ Divided /\ WriterKnows(w) /\ w \in Owners
      /\ whead \in Slots /\ wtail \in Slots /\ r \in Slots /\ hold \in [Writers -> Slots]
      /\ increset2(wtail) \in Slots
      /\ Cap \in Nat /\ Slots \subseteq Nat /\ \A s \in Slots : s < Cap
      /\ Busy # Ok
  BY CapAssumption, ResultsAssumption, IncType DEF LapInv, WPublish, Owners, Slots
<1>1. /\ UNCHANGED <<d, whead, r, hold, wval, rpc, rr, rc, rret>>
      /\ hold[w] = wtail /\ wtail' = increset2(wtail)
      /\ wpc' = [wpc EXCEPT ![w] = "idle"] /\ wret' = [wret EXCEPT ![w] = Ok]
  BY <1>0 DEF WPublish, WriterKnows
<1>2. /\ wlag' \in [Writers -> Slots] /\ rlag' \in [Readers -> Slots]
      /\ \A v \in Writers \ {w} : wpc[v] \in {"check", "reserve"} => wlag'[v] = wlag[v]
      /\ \A x \in Readers : rpc[x] \in {"check", "fetch", "take"} => rlag'[x] = rlag[x]
  BY <1>1, LagStep DEF LapInv
<1>3. wtail # whead /\ increset2(wtail) # r /\ ahead(r, wtail) < ahead(r, whead)
  BY <1>0, OwnersSlot
<1>4. ASSUME NEW v \in Owners, v # w PROVE hold[v] # wtail
  BY <1>4, <1>0, <1>1 DEF Divided
<1>5. ASSUME NEW v \in Writers PROVE WriterKnows(v)'
  <2>1. CASE v = w
    BY <2>1, <1>0, <1>1 DEF WriterKnows
  <2>2. CASE v # w
    <3>1. WriterKnows(v) /\ wpc'[v] = wpc[v] /\ wret'[v] = wret[v]
      BY <2>2, <1>0, <1>1 DEF LapInv
    <3>2. wpc[v] # "publish"
      BY <2>2, <3>1, <1>4 DEF WriterKnows, Owners
    <3> QED
      BY <2>2, <3>1, <3>2, <1>1, <1>2 DEF WriterKnows
  <2> QED
    BY <2>1, <2>2
<1>6. ASSUME NEW x \in Readers PROVE ReaderKnows(x)'
  BY <1>1, <1>2, <1>3 DEF LapInv, ReaderKnows
<1>7. Owners' = Owners \ {w}
  BY <1>0, <1>1 DEF Owners
<1>8. Divided'
  <2>0. ahead(wtail', whead) = ahead(wtail, whead) - 1
    BY <1>0, <1>1, <1>3, AheadNearer
  <2>1. ahead(wtail, whead) \in Nat /\ ahead(wtail', whead) \in Nat /\ ahead(wtail', whead) < Cap
    BY <1>0, <1>1, AheadIs
  <2>2. (ahead(r, wtail) <= ahead(r, whead))'
    <3>1. ahead(r, wtail') = ahead(r, wtail) + 1
      BY <1>0, <1>1, <1>3, AheadInc
    <3>2. ahead(r, wtail) \in Nat /\ ahead(r, whead) \in Nat
      BY <1>0, AheadIs
    <3>3. ahead(r, wtail') <= ahead(r, whead)
      BY <3>1, <3>2, <1>3
    <3> QED
      BY <3>3, <1>1 DEF ahead
  <2>3. ASSUME NEW v \in Owners' PROVE (ahead(wtail, hold[v]) < ahead(wtail, whead))'
    <3>1. PICK h \in Slots : h = hold[v] /\ h # wtail /\ ahead(wtail, h) < ahead(wtail, whead)
      BY <1>0, <1>4, <1>7 DEF Divided, Owners
    <3>2. ahead(increset2(wtail), h) = ahead(wtail, h) - 1
      BY <3>1, <1>0, AheadNearer
    <3>3. ahead(wtail, h) \in Nat
      BY <1>0, AheadIs
    <3>4. ahead(wtail', h) < ahead(wtail', whead)
      BY <3>1, <3>2, <3>3, <2>0, <2>1, <1>1
    <3> QED
      BY <3>1, <3>4, <1>1 DEF ahead
  <2>4. ASSUME NEW u \in Owners', NEW v \in Owners', hold'[u] = hold'[v] PROVE u = v
    BY <2>4, <1>0, <1>1, <1>7 DEF Divided
  <2>5. ASSUME NEW s \in Slots, ahead(wtail', s) < ahead(wtail', whead)
        PROVE  \E v \in Owners' : hold'[v] = s
    <3>1. s # wtail
      <4>1. ASSUME s = wtail PROVE FALSE
        <5>1. ~(ahead(increset2(wtail), wtail) + 1 < Cap)
          BY <1>0, AheadInc
        <5>2. ahead(wtail', s) \in Nat
          BY <1>0, <1>1, AheadIs
        <5> QED
          BY <5>1, <5>2, <4>1, <2>1, <2>5, <1>0, <1>1
      <4> QED
        BY <4>1
    <3>2. ahead(wtail', s) = ahead(wtail, s) - 1 /\ ahead(wtail, s) \in Nat
      BY <3>1, <1>0, <1>1, AheadNearer, AheadIs
    <3>3. ahead(wtail, s) < ahead(wtail, whead)
      BY <3>2, <2>0, <2>1, <2>5
    <3>4. PICK v \in Owners : hold[v] = s
      BY <3>3, <1>0 DEF Divided
    <3> QED
      BY <3>1, <3>4, <1>1, <1>7
  <2>6. \A s \in Slots : (ahead(wtail, s) < ahead(wtail, whead))' => \E v \in Owners' : hold'[v] = s
    BY <2>5, <1>1 DEF ahead
  <2> QED
    BY <2>2, <2>3, <2>4, <2>6 DEF Divided
<1> QED
  BY <1>2, <1>5, <1>6, <1>8 DEF LapInv

\* A read that succeeds gives the slot at r back to the writers.
LEMMA ReaderTakes ==
    ASSUME LapInv, TypeOK', Lags, NotLapped, NEW x \in Readers, RTake(x)
    PROVE  LapInv'
<1> USE DEF TypeOK, wvars, rvars
<1>0. /\ TypeOK /\ Divided /\ ReaderKnows(x)
      /\ whead \in Slots /\ wtail \in Slots /\ r \in Slots /\ rr \in [Readers -> Slots]
      /\ Slots \subseteq Nat /\ rc[x] # Busy
  <2>1. Slots \subseteq Nat
    BY CapAssumption DEF Slots
  <2> QED
    BY <2>1, ResultsAssumption DEF LapInv
<1>1. /\ UNCHANGED <<d, whead, wtail, rr, rc, wpc, hold, wval, wret>>
      /\ rr[x] = r /\ rpc[x] = "take" /\ r' = increset2(r) /\ r' # r
      /\ rpc' = [rpc EXCEPT ![x] = "idle"] /\ rret' = [rret EXCEPT ![x] = rc[x]]
  BY <1>0, IncMoves DEF RTake
<1>2. /\ wlag' \in [Writers -> Slots] /\ rlag' \in [Readers -> Slots]
      /\ \A w \in Writers : wpc[w] \in {"check", "reserve"} => wlag'[w] = wlag[w]
      /\ \A y \in Readers \ {x} : rpc[y] \in {"check", "fetch", "take"} => rlag'[y] = rlag[y] + 1
  BY <1>1, LagStep DEF LapInv
<1>3. \A y \in Readers : rlag[y] \in Nat /\ rlag'[y] \in Nat /\ rlag'[y] < Cap
  BY <1>0, <1>2 DEF NotLapped, LapInv
<1>4. r # wtail
  BY <1>0, <1>1, AheadIs DEF ReaderKnows
<1>5. r # whead
  <2>1. ahead(r, wtail) \in Nat /\ ahead(r, wtail) # 0 /\ ahead(r, wtail) <= ahead(r, whead)
    BY <1>0, <1>4, AheadIs DEF Divided
  <2>2. ahead(r, r) = 0
    BY <1>0, AheadIs
  <2> QED
    BY <2>1, <2>2
<1>6. ASSUME NEW w \in Writers PROVE WriterKnows(w)'
  <2>1. increset2(whead) # r'
    BY <1>0, <1>1, <1>5, IncInjective
  <2> QED
    BY <2>1, <1>1, <1>2 DEF LapInv, WriterKnows
<1>7. ASSUME NEW y \in Readers PROVE ReaderKnows(y)'
  <2>1. CASE y = x
    BY <2>1, <1>0, <1>1 DEF ReaderKnows
  <2>2. CASE y # x
    <3>1. ReaderKnows(y) /\ rpc'[y] = rpc[y] /\ rret'[y] = rret[y]
      BY <2>2, <1>0, <1>1 DEF LapInv
    <3>2. ASSUME rpc[y] \in {"check", "fetch", "take"}
          PROVE  ahead(rr[y], r') = rlag'[y] /\ rlag'[y] # 0
      <4>1. PICK h \in Slots : h = rr[y]
        BY <1>0
      <4>2. ahead(h, r) = rlag[y] /\ rlag'[y] = rlag[y] + 1 /\ rlag'[y] < Cap
        BY <2>2, <3>1, <3>2, <4>1, <1>2, <1>3 DEF ReaderKnows
      <4>3. ahead(h, r) + 1 < Cap
        BY <4>2
      <4>4. ahead(h, increset2(r)) = ahead(h, r) + 1
        BY <4>3, <1>0, AheadInc
      <4> QED
        BY <4>1, <4>2, <4>4, <1>1, <1>3
    <3> QED
      BY <3>1, <3>2, <1>1 DEF ReaderKnows
  <2> QED
    BY <2>1, <2>2
<1>8. Divided'
  <2>1. Owners' = Owners
    BY <1>1 DEF Owners
  <2>2. ahead(r', wtail) = ahead(r, wtail) - 1 /\ ahead(r', whead) = ahead(r, whead) - 1
    BY <1>0, <1>1, <1>4, <1>5, AheadNearer
  <2>3. ahead(r, wtail) \in Nat /\ ahead(r, whead) \in Nat
    BY <1>0, AheadIs
  <2>4. ahead(r', wtail) <= ahead(r', whead)
    BY <2>2, <2>3, <1>0 DEF Divided
  <2> QED
    BY <2>1, <2>4, <1>0, <1>1 DEF Divided, ahead
<1> QED
  BY <1>2, <1>6, <1>7, <1>8 DEF LapInv
-----------------------------------------------------------------------------
\* With any number of writers and readers, none of which sleeps through a whole
\* lap between loading an index and comparing it: what the threads found out
\* about the ring still holds when their compare-and-set succeeds.
THEOREM LapInvariant == ASSUME Excl = FALSE PROVE LapSafety => []LapInv
<1>1. LapInit => LapInv
  <2> SUFFICES ASSUME LapInit PROVE LapInv
    OBVIOUS
  <2>0. 0 \in Slots /\ Slots \subseteq Nat
    BY CapAssumption DEF Slots
  <2>1. TypeOK
    BY <2>0 DEF LapInit, Init, TypeOK, WPositions, RPositions
  <2>2. Divided
    <3>1. Owners = {} /\ r = 0 /\ wtail = 0 /\ whead = 0
      BY DEF Owners, LapInit, Init
    <3>2. ahead(0, 0) = 0 /\ \A s \in Slots : ahead(0, s) \in Nat
      BY <2>0, AheadIs
    <3> QED
      BY <3>1, <3>2 DEF Divided
  <2>3. /\ \A w \in Writers : wpc[w] = "idle" /\ wret[w] = Ok
        /\ \A x \in Readers : rpc[x] = "idle" /\ rret[x] = Empty
        /\ Busy # Ok /\ Busy # Empty
    BY ResultsAssumption DEF LapInit, Init
  <2>4. \A w \in Writers : WriterKnows(w)
    BY <2>3 DEF WriterKnows
  <2>5. \A x \in Readers : ReaderKnows(x)
    BY <2>3 DEF ReaderKnows
  <2> QED
    BY <2>0, <2>1, <2>2, <2>4, <2>5 DEF LapInv, LapInit
<1>2. LapInv /\ [LapNext]_lapvars => LapInv'
  <2> SUFFICES ASSUME LapInv, [LapNext]_lapvars PROVE LapInv'
    OBVIOUS
  <2>1. CASE UNCHANGED lapvars
    BY <2>1 DEF lapvars, vars, LapInv, TypeOK, Divided, Owners, ahead, WriterKnows, ReaderKnows
  <2>2. CASE LapNext
    <3>0. Lags /\ NotLapped /\ Next
      BY <2>2 DEF LapNext
    <3>1. TypeOK'
      BY <3>0, TypeStep DEF LapInv
    <3>2. ASSUME NEW w \in Writers, NEW p \in Values, WCall(w, p) PROVE LapInv'
      BY <3>0, <3>1, <3>2, WriterLooks
    <3>3. ASSUME NEW w \in Writers, WStep(w) PROVE LapInv'
      <4>1. CASE WLoad(w) \/ WFull(w) \/ WRoom(w) \/ WRetry(w) \/ WWait(w)
        BY <3>0, <3>1, <4>1, WriterLooks
      <4>2. CASE WReserve(w)  BY <3>0, <3>1, <4>2, WriterReserves
      <4>3. CASE WStore(w)  BY <3>0, <3>1, <4>3, WriterStores
      <4>4. CASE WPublish(w)  BY <3>0, <3>1, <4>4, WriterPublishes
      <4> QED
        BY <3>3, <4>1, <4>2, <4>3, <4>4 DEF WStep
    <3>4. ASSUME NEW x \in Readers, RCall(x) \/ RStep(x) PROVE LapInv'
      <4>1. CASE RTake(x)  BY <3>0, <3>1, <4>1, ReaderTakes
      <4>2. CASE RCall(x) \/ RLoad(x) \/ REmpty(x) \/ RSeen(x) \/ RFetch(x) \/ RRetry(x)
        BY <3>0, <3>1, <4>2, ReaderLooks
      <4> QED
        BY <3>4, <4>1, <4>2 DEF RStep
    <3> QED
      BY <3>0, <3>2, <3>3, <3>4 DEF Next
  <2> QED
    BY <2>1, <2>2
<1> QED
  BY <1>1, <1>2, PTL DEF LapSafety

\* While a slot is reserved and not published there is a writer that spins on
\* nobody: the spin loop of _ffring_write() cannot deadlock.
THEOREM LapSomeoneIsNext == ASSUME Excl = FALSE PROVE LapSafety => []SomeoneIsNext
<1>1. LapInv => SomeoneIsNext
  <2> SUFFICES ASSUME LapInv, whead # wtail
               PROVE  \E w \in Writers : wpc[w] \in {"store", "wait", "publish"} /\ hold[w] = wtail
    BY DEF SomeoneIsNext
  <2>1. wtail \in Slots /\ whead \in Slots /\ Slots \subseteq Nat
    BY CapAssumption DEF LapInv, TypeOK, Slots
  <2>2. ahead(wtail, wtail) = 0 /\ ahead(wtail, whead) \in Nat /\ ahead(wtail, whead) # 0
    BY <2>1, AheadIs
  <2>3. ahead(wtail, wtail) < ahead(wtail, whead)
    BY <2>2
  <2>4. PICK w \in Owners : hold[w] = wtail
    BY <2>1, <2>3 DEF LapInv, Divided
  <2> QED
    BY <2>4 DEF Owners
<1> QED
  BY <1>1, LapInvariant, PTL

\* Any number of writers and readers: a compare-and-set that succeeds takes the
\* oldest unread element, or reserves a free slot.
THEOREM LapSafe == ASSUME Excl = FALSE PROVE LapSafety => [](TakeIsFresh /\ ReserveIsFree)
<1>1. LapInv => TakeIsFresh /\ ReserveIsFree
  <2> SUFFICES ASSUME LapInv PROVE TakeIsFresh /\ ReserveIsFree
    OBVIOUS
  <2>1. ASSUME NEW x \in Readers, rpc[x] = "take", rr[x] = r PROVE r # wtail /\ rc[x] = d[r]
    <3>1. ReaderKnows(x) /\ r \in Slots
      BY DEF LapInv, TypeOK
    <3>2. rlag[x] = 0
      BY <2>1, <3>1, AheadIs DEF ReaderKnows
    <3> QED
      BY <2>1, <3>1, <3>2 DEF ReaderKnows
  <2>2. ASSUME NEW w \in Writers, wpc[w] = "reserve", hold[w] = whead PROVE increset2(whead) # r
    <3>1. WriterKnows(w) /\ whead \in Slots
      BY DEF LapInv, TypeOK
    <3>2. wlag[w] = 0
      BY <2>2, <3>1, AheadIs DEF WriterKnows
    <3> QED
      BY <2>2, <3>1, <3>2 DEF WriterKnows
  <2> QED
    BY <2>1, <2>2 DEF TakeIsFresh, ReserveIsFree
<1> QED
  BY <1>1, LapInvariant, PTL

\* A store leaves the unread elements alone.
LEMMA StoreKeepsUnread ==
    ASSUME LapInv, NEW w \in Writers, WStore(w), NEW i \in Nat, i < unread
    PROVE  d'[(r + i) % Cap] = d[(r + i) % Cap]
<1>0. /\ TypeOK /\ w \in Owners /\ r \in Slots /\ wtail \in Slots
      /\ Cap \in Nat /\ Cap > 1 /\ Slots = 0..(Cap - 1)
  BY CapAssumption DEF LapInv, TypeOK, WStore, Owners, Slots
<1>1. PICK h \in Slots : h = hold[w] /\ ahead(r, wtail) <= ahead(r, h)
  BY <1>0, OwnersSlot DEF TypeOK
<1>2. unread = ahead(r, wtail)
  BY DEF unread, ahead
<1>3. PICK s \in Slots : s = (r + i) % Cap
  BY <1>0, UnreadSlots
<1>4. s = IF r + i < Cap THEN r + i ELSE r + i - Cap
  <2>1. unread \in Nat
    BY <1>0, UnreadSlots
  <2>2. i <= unread
    BY <2>1
  <2> QED
    BY <1>0, <1>3, <2>2, UnreadSlots
<1>5. ahead(r, h) = IF h >= r THEN h - r ELSE h + Cap - r
  BY <1>0, AheadIs
<1>6. ahead(r, wtail) \in 0..(Cap - 1)
  BY <1>0, AheadIs
<1>7. s # h
  BY <1>0, <1>1, <1>2, <1>4, <1>5, <1>6
<1> QED
  BY <1>0, <1>1, <1>3, <1>7 DEF WStore, TypeOK

\* Any number of writers and readers: no element is overwritten before it is read.
THEOREM LapNoOverwrite == ASSUME Excl = FALSE PROVE LapSafety => NoOverwrite
<1> DEFINE Kept == \A i \in 0..(Cap - 2) :
                      i < unread => d'[(r + i) % Cap] = d[(r + i) % Cap]
<1>1. LapInv /\ [LapNext]_lapvars => [Kept]_d
  <2> SUFFICES ASSUME LapInv, [LapNext]_lapvars, d' # d PROVE Kept
    OBVIOUS
  <2>1. PICK w \in Writers : WStore(w)
    BY DEF LapNext, lapvars, Next, vars, WCall, RCall, WStep, RStep, WLoad, WFull, WRoom, WReserve,
           WRetry, WWait, WPublish, RLoad, REmpty, RSeen, RFetch, RTake, RRetry
  <2> QED
    BY <2>1, StoreKeepsUnread
<1> QED
  BY <1>1, LapInvariant, PTL DEF LapSafety, NoOverwrite
-----------------------------------------------------------------------------
\* Any number of writers and readers: the ring is a first-in first-out queue of
\* Cap - 1 elements.  Nothing is lost, duplicated or reordered.
THEOREM LapIsQueue == ASSUME Excl = FALSE PROVE LapSafety => IsQueueWithHints
<1>1. LapInit => Roughly!Init
  <2> SUFFICES ASSUME LapInit PROVE Roughly!Init
    OBVIOUS
  <2>1. 0 \in Slots
    BY CapAssumption DEF Slots
  <2>2. unread = 0
    BY <2>1, DistIsWrap DEF unread, LapInit, Init
  <2>3. ringqueue = << >>
    BY <2>2 DEF ringqueue
  <2> QED
    BY <2>3 DEF LapInit, Init, Roughly!Init
<1>2. LapInv /\ LapInv' /\ [LapNext]_lapvars => [Roughly!Next]_(Roughly!qvars)
  <2> SUFFICES ASSUME LapInv, LapInv', [LapNext]_lapvars
               PROVE  [Roughly!Next]_(Roughly!qvars)
    OBVIOUS
  <2>0. /\ TypeOK /\ TypeOK' /\ [Next]_vars
        /\ \A w \in Writers : WriterKnows(w)
        /\ \A x \in Readers : ReaderKnows(x)
    BY DEF LapInv, LapNext, lapvars
  <2> USE DEF wvars, rvars
  <2>1. UNCHANGED <<d, wtail, r>> => ringqueue' = ringqueue
    BY DEF ringqueue, unread
  <2>2. ASSUME NEW w \in Writers, NEW p \in Values, WCall(w, p)
        PROVE  Roughly!CallWrite(w, p)
    BY <2>0, <2>1, <2>2 DEF WCall, WriterKnows, Roughly!CallWrite
  <2>3. ASSUME NEW x \in Readers, RCall(x) PROVE Roughly!CallRead(x)
    BY <2>0, <2>1, <2>3 DEF RCall, ReaderKnows, Roughly!CallRead
  <2>4. ASSUME NEW w \in Writers, WFull(w) PROVE Roughly!PutFails(w)
    BY <2>0, <2>1, <2>4 DEF WFull, WriterKnows, Roughly!PutFails
  <2>5. ASSUME NEW w \in Writers, WPublish(w) PROVE Roughly!Put(w)
    <3>1. w \in Owners
      BY <2>5 DEF WPublish, Owners
    <3>2. increset2(wtail) # r
      BY <3>1, OwnersSlot
    <3>3. wtail' = increset2(wtail) /\ d[wtail] = wval[w] /\ UNCHANGED <<d, r>>
      BY <2>0, <2>5 DEF WPublish, WriterKnows
    <3>4. ringqueue' = Append(ringqueue, wval[w]) /\ unread < Cap - 1
      BY <2>0, <3>2, <3>3, PublishAppends
    <3>5. Len(ringqueue) = unread
      BY <2>0, QueueShape
    <3> QED
      BY <2>0, <2>5, <3>4, <3>5 DEF WPublish, WriterKnows, Roughly!Put
  <2>6. ASSUME NEW x \in Readers, REmpty(x) PROVE Roughly!GetFails(x)
    BY <2>0, <2>1, <2>6 DEF REmpty, ReaderKnows, Roughly!GetFails
  <2>7. ASSUME NEW x \in Readers, RTake(x) PROVE Roughly!Get(x)
    <3>1. rlag[x] = 0
      BY <2>0, <2>7, AheadIs DEF RTake, ReaderKnows, TypeOK
    <3>2. /\ r' = increset2(r) /\ r # wtail /\ rc[x] = d[r] /\ UNCHANGED <<d, wtail>>
      BY <2>0, <2>7, <3>1 DEF RTake, ReaderKnows
    <3>3. ringqueue # << >> /\ rc[x] = Head(ringqueue) /\ ringqueue' = Tail(ringqueue)
      BY <2>0, <3>2, TakeRemoves
    <3> QED
      BY <2>0, <2>7, <3>3 DEF RTake, ReaderKnows, Roughly!Get
  <2>8. ASSUME NEW w \in Writers, WStore(w) PROVE UNCHANGED (Roughly!qvars)
    <3>1. unread' = unread /\ r' = r
      BY <2>8 DEF WStore, unread
    <3>2. ASSUME NEW k \in 1..unread PROVE d'[(r + k - 1) % Cap] = d[(r + k - 1) % Cap]
      <4>1. unread \in Nat /\ r \in Nat
        BY <2>0, UnreadSlots, CapAssumption DEF TypeOK, Slots
      <4>2. k - 1 \in Nat /\ k - 1 < unread /\ r + k - 1 = r + (k - 1)
        BY <4>1
      <4> QED
        BY <2>8, <4>2, StoreKeepsUnread
    <3>3. ringqueue' = ringqueue
      BY <3>1, <3>2 DEF ringqueue
    <3> QED
      BY <2>8, <3>3 DEF WStore, Roughly!qvars
  <2>9. ASSUME NEW w \in Writers,
               WLoad(w) \/ WRoom(w) \/ WReserve(w) \/ WRetry(w) \/ WWait(w)
        PROVE  UNCHANGED (Roughly!qvars)
    BY <2>1, <2>9 DEF WLoad, WRoom, WReserve, WRetry, WWait, Roughly!qvars
  <2>10. ASSUME NEW x \in Readers, RLoad(x) \/ RSeen(x) \/ RFetch(x) \/ RRetry(x)
         PROVE  UNCHANGED (Roughly!qvars)
    BY <2>1, <2>10 DEF RLoad, RSeen, RFetch, RRetry, Roughly!qvars
  <2>11. CASE UNCHANGED vars
    BY <2>1, <2>11 DEF vars, Roughly!qvars
  <2> QED
    BY <2>0, <2>2, <2>3, <2>4, <2>5, <2>6, <2>7, <2>8, <2>9, <2>10, <2>11
       DEF Next, WStep, RStep, Roughly!Next
<1> QED
  BY <1>1, <1>2, LapInvariant, PTL DEF LapSafety, IsQueueWithHints, Roughly!Spec
=============================================================================
