---------------------------- MODULE LibraryProofs ----------------------------
(***************************************************************************)
(* Proofs about parts of the library that work by themselves: the timer    *)
(* queue, for every number of entries, every set of intervals and however  *)
(* far the clock runs; the audio outputs, for any sizes of buffer, piece   *)
(* and track; the wait-object handler, for any threads; the hash table,    *)
(* for any keys, hashes and number of slots.                               *)
(***************************************************************************)
EXTENDS TimerQueue, DataLemmas

-----------------------------------------------------------------------------
(***************************************************************************)
(* The timer queue: the order of the tree.                                 *)
(***************************************************************************)

\* tree_instimer() into an ordered tree leaves an ordered tree.
LEMMA InsertKeepsOrder ==
    ASSUME NEW s \in Seq(Entries), NEW keys \in [Entries -> Nat], Ordered(s, keys),
           NEW e \in Entries, NEW k \in Nat, e \notin ToSet(s)
    PROVE  /\ insert(s, e, k, keys) \in Seq(Entries)
           /\ Ordered(insert(s, e, k, keys), [keys EXCEPT ![e] = k])
           /\ ToSet(insert(s, e, k, keys)) = ToSet(s) \cup {e}
<1> DEFINE C == {j \in 1..Len(s) : keys[s[j]] <= k}
           i == 1 + Cardinality(C)
           t == insert(s, e, k, keys)
           keys2 == [keys EXCEPT ![e] = k]
<1>1. Cardinality(C) \in 0..Len(s) /\ C = 1..Cardinality(C)
  <2>1. ASSUME NEW j \in C, NEW m \in 1..j PROVE m \in C
    <3>1. m \in 1..Len(s) /\ j \in 1..Len(s) /\ keys[s[j]] <= k
      OBVIOUS
    <3>2. keys[s[m]] <= keys[s[j]]
      BY <3>1 DEF Ordered
    <3>3. keys[s[m]] \in Nat /\ keys[s[j]] \in Nat
      BY <3>1
    <3> QED
      BY <3>1, <3>2, <3>3
  <2>2. Len(s) \in Nat /\ C \in SUBSET (1..Len(s))
    OBVIOUS
  <2> HIDE DEF C
  <2> QED
    BY <2>1, <2>2, InitialPositions
<1>2. i \in 1..(Len(s) + 1) /\ \A j \in 1..Len(s) : keys[s[j]] <= k <=> j < i
  <2>1. \A j \in 1..Len(s) : keys[s[j]] <= k <=> j \in C
    OBVIOUS
  <2> HIDE DEF C
  <2>2. \A j \in 1..Len(s) : j \in C <=> j <= Cardinality(C)
    BY <1>1
  <2> QED
    BY <1>1, <2>1, <2>2
<1>3. t = InsertAt(s, i, e) /\ Len(s) \in Nat
  BY DEF insert
<1> HIDE DEF C, i, t
<1>4. /\ t \in Seq(Entries) /\ Len(t) = Len(s) + 1
      /\ \A j \in 1..(i - 1) : t[j] = s[j]
      /\ t[i] = e
      /\ \A j \in i..Len(s) : t[j + 1] = s[j]
  <2>1. i \in 1..(Len(s) + 1)
    BY <1>2
  <2>2. /\ InsertAt(s, i, e) \in Seq(Entries)
        /\ Len(InsertAt(s, i, e)) = Len(s) + 1
        /\ \A j \in 1..(i - 1) : InsertAt(s, i, e)[j] = s[j]
        /\ InsertAt(s, i, e)[i] = e
        /\ \A j \in i..Len(s) : InsertAt(s, i, e)[j + 1] = s[j]
    BY <2>1, InsertedAt
  <2> QED
    BY <1>3, <2>2
<1>5. \A j \in 1..Len(s) : s[j] \in Entries /\ s[j] # e
  BY ElementsOf
<1>6. keys2[e] = k /\ \A j \in 1..Len(s) : keys2[s[j]] = keys[s[j]] /\ keys[s[j]] \in Nat
  BY <1>5
<1> HIDE DEF keys2
<1>7. ASSUME NEW a \in 1..Len(s), NEW b \in 1..Len(s), a < b
      PROVE  keys2[s[a]] <= keys2[s[b]] /\ s[a] # s[b]
  BY <1>6, <1>7 DEF Ordered
<1>8. Ordered(t, keys2)
  <2> SUFFICES ASSUME NEW a \in 1..Len(t), NEW b \in 1..Len(t), a < b
               PROVE  keys2[t[a]] <= keys2[t[b]] /\ t[a] # t[b]
    BY DEF Ordered
  <2>1. CASE b < i
    <3>1. /\ a \in 1..(i - 1) /\ b \in 1..(i - 1)
          /\ a \in 1..Len(s) /\ b \in 1..Len(s)
      <4>1. Len(s) \in Nat /\ i \in Int /\ i <= Len(s) + 1
        BY <1>2, <1>3
      <4>2. a \in Int /\ b \in Int /\ 1 <= a /\ a < b /\ b < i
        BY <1>4, <2>1
      <4> QED
        BY <4>1, <4>2
    <3>2. t[a] = s[a] /\ t[b] = s[b]
      BY <1>4, <3>1
    <3> QED
      BY <1>7, <3>1, <3>2
  <2>2. CASE b = i
    <3>1. a \in 1..(i - 1) /\ a \in 1..Len(s) /\ a < i
      BY <1>2, <1>3, <1>4, <2>2
    <3> QED
      BY <1>2, <1>3, <1>4, <1>5, <1>6, <2>2, <3>1
  <2>3. CASE b > i
    <3>1. PICK c \in i..Len(s) : b = c + 1
      <4>1. b - 1 \in i..Len(s) /\ b = (b - 1) + 1
        BY <1>2, <1>3, <1>4, <2>3
      <4> QED
        BY <4>1
    <3>2. t[b] = s[c] /\ c \in 1..Len(s) /\ ~ (c < i)
      BY <1>2, <1>3, <1>4, <3>1
    <3>3. CASE a = i
      <4>1. keys2[t[a]] = k /\ t[a] = e
        BY <1>4, <1>6, <3>3
      <4>2. keys2[t[b]] \in Nat /\ keys2[t[b]] > k /\ t[b] # e
        BY <1>2, <1>5, <1>6, <3>2
      <4> QED
        BY <4>1, <4>2
    <3>4. CASE a < i
      <4>1. a \in 1..(i - 1) /\ a \in 1..Len(s) /\ a < c
        BY <1>2, <1>3, <1>4, <3>1, <3>4
      <4>2. t[a] = s[a]
        BY <1>4, <4>1
      <4> QED
        BY <1>7, <3>2, <4>1, <4>2
    <3>5. CASE a > i
      <4>1. PICK d \in i..Len(s) : a = d + 1
        <5>1. a - 1 \in i..Len(s) /\ a = (a - 1) + 1
          BY <1>2, <1>3, <1>4, <3>5
        <5> QED
          BY <5>1
      <4>2. t[a] = s[d] /\ d \in 1..Len(s) /\ d < c
        BY <1>2, <1>3, <1>4, <3>1, <4>1
      <4> QED
        BY <1>7, <3>2, <4>2
    <3> QED
      BY <1>2, <3>3, <3>4, <3>5
  <2> QED
    BY <1>2, <2>1, <2>2, <2>3
<1>9. ToSet(t) = ToSet(s) \cup {e}
  BY <1>2, <1>3, InsertedElements
<1> QED
  BY <1>4, <1>8, <1>9 DEF t, keys2

\* Removal of the node at a position of the tree, and its key set to anything.
LEMMA RemoveAtKeepsOrder ==
    ASSUME NEW s \in Seq(Entries), NEW keys \in [Entries -> Nat], Ordered(s, keys),
           NEW p \in 1..Len(s), NEW k \in Nat
    PROVE  /\ RemoveAt(s, p) \in Seq(Entries)
           /\ Ordered(RemoveAt(s, p), [keys EXCEPT ![s[p]] = k])
           /\ Ordered(RemoveAt(s, p), keys)
           /\ ToSet(RemoveAt(s, p)) = ToSet(s) \ {s[p]}
<1> DEFINE t == RemoveAt(s, p)
           keys2 == [keys EXCEPT ![s[p]] = k]
           from(j) == IF j < p THEN j ELSE j + 1
<1>1. /\ t \in Seq(Entries) /\ Len(t) = Len(s) - 1
      /\ \A j \in 1..(p - 1) : t[j] = s[j]
      /\ \A j \in p..(Len(s) - 1) : t[j] = s[j + 1]
  <2> HIDE DEF t
  <2>1. t = RemoveAt(s, p)
    BY DEF t
  <2> QED
    BY <2>1, RemovedAt, Zenon
<1>0. Len(s) \in Nat
  OBVIOUS
<1> HIDE DEF t
<1>2. ASSUME NEW j \in 1..Len(t)
      PROVE  from(j) \in 1..Len(s) /\ from(j) # p /\ t[j] = s[from(j)]
  <2>1. CASE j < p
    <3>1. j \in 1..(p - 1) /\ j \in 1..Len(s)
      BY <1>0, <1>1, <2>1
    <3>2. t[j] = s[j]
      BY <1>1, <3>1
    <3>3. from(j) = j
      BY <2>1
    <3>4. j # p
      BY <3>1
    <3> QED
      BY <3>1, <3>2, <3>3, <3>4
  <2>2. CASE ~ (j < p)
    <3>1. j \in p..(Len(s) - 1) /\ j + 1 \in 1..Len(s) /\ j + 1 # p
      BY <1>0, <1>1, <2>2
    <3>2. t[j] = s[j + 1] /\ from(j) = j + 1
      BY <1>1, <2>2, <3>1
    <3> QED
      BY <3>1, <3>2
  <2> QED
    BY <2>1, <2>2
<1>3. ASSUME NEW a \in 1..Len(t), NEW b \in 1..Len(t), a < b PROVE from(a) < from(b)
  <2>1. a \in Int /\ b \in Int /\ p \in Int
    BY <1>0, <1>1
  <2> QED
    BY <1>3, <2>1
<1> HIDE DEF from
<1>4. ASSUME NEW j \in 1..Len(s), j # p PROVE s[j] # s[p]
  BY <1>4 DEF Ordered
<1>5. ASSUME NEW j \in 1..Len(t) PROVE t[j] \in Entries /\ keys2[t[j]] = keys[t[j]]
  BY <1>2, <1>4
<1>6. Ordered(t, keys)
  <2> SUFFICES ASSUME NEW a \in 1..Len(t), NEW b \in 1..Len(t), a < b
               PROVE  keys[t[a]] <= keys[t[b]] /\ t[a] # t[b]
    BY DEF Ordered
  <2> QED
    BY <1>2, <1>3 DEF Ordered
<1>7. Ordered(t, keys2)
  BY <1>5, <1>6 DEF Ordered
<1>8. ToSet(t) = ToSet(s) \ {s[p]}
  <2>1. ASSUME NEW a \in 1..Len(s), NEW b \in 1..Len(s), s[a] = s[b] PROVE a = b
    <3>1. a \in Int /\ b \in Int
      BY <1>0
    <3> QED
      BY <2>1, <3>1 DEF Ordered
  <2> QED
    BY <2>1, RemovedElements DEF t
<1> QED
  BY <1>1, <1>6, <1>7, <1>8 DEF t
-----------------------------------------------------------------------------
(***************************************************************************)
(* The invariant of the queue.                                             *)
(***************************************************************************)

LEMMA EmptyTree ==
    ASSUME NEW keys PROVE Ordered(<< >>, keys) /\ ToSet(<< >>) = {}
  BY NoElements DEF Ordered

LEMMA InitInv == TimerInit => TimerInv
<1> SUFFICES ASSUME TimerInit PROVE TimerInv
  OBVIOUS
<1>1. TimerTypeOK
  <2>1. clock \in 1..MaxClock /\ msec_time \in 1..MaxClock
    BY ClockAssumption DEF TimerInit
  <2>2. items \in Seq(Entries) /\ key \in [Entries -> Nat] /\ interval \in [Entries -> Intervals \cup {0}]
    BY DEF TimerInit
  <2> QED
    BY <2>1, <2>2 DEF TimerInit, TimerTypeOK
<1>2. Ordered(items, key) /\ ToSet(items) = {}
  BY EmptyTree DEF TimerInit
<1> QED
  BY <1>1, <1>2 DEF TimerInit, TimerInv, OrderedByTime

\* |interval| of an entry that is added, and when a periodic timer is due again.
LEMMA Delay ==
    ASSUME NEW i \in Intervals PROVE abs(i) \in Nat /\ abs(i) > 0
  BY IntervalAssumption DEF abs

LEMMA NextKey ==
    ASSUME TimerTypeOK, NEW e \in Entries, ~ (interval[e] <= 0)
    PROVE  nextkey(e) \in Nat /\ nextkey(e) > msec_time /\ nextkey(e) >= key[e]
<1>1. interval[e] \in Intervals \cup {0} /\ key[e] \in Nat /\ msec_time \in Nat
  BY ClockAssumption DEF TimerTypeOK
<1>2. interval[e] \in Int
  BY <1>1, IntervalAssumption
<1>3. abs(interval[e]) = interval[e]
  BY <1>2 DEF abs
<1> QED
  BY <1>1, <1>2, <1>3 DEF nextkey, max

LEMMA AddStep ==
    ASSUME TimerInv, NEW e \in Entries, NEW i \in Intervals, Add(e, i)
    PROVE  TimerInv'
<1> DEFINE k == msec_time + abs(i)
<1>1. /\ TimerTypeOK /\ Ordered(items, key) /\ e \notin ToSet(items)
      /\ msec_time \in Nat /\ lastkey \in Nat /\ k \in Nat /\ k > msec_time
  BY Delay, ClockAssumption DEF Add, TimerInv, OrderedByTime, TimerTypeOK, Queued
<1>2. /\ key' = [key EXCEPT ![e] = k] /\ items' = insert(items, e, k, key)
      /\ interval' = [interval EXCEPT ![e] = i] /\ live
      /\ UNCHANGED <<clock, msec_time, tmr, started, live, pc, fired, lastkey>>
  BY DEF Add
<1> HIDE DEF k
<1>3. /\ items' \in Seq(Entries) /\ Ordered(items, key)'
      /\ ToSet(items)' = ToSet(items) \cup {e}
  BY <1>1, <1>2, InsertKeepsOrder DEF TimerTypeOK
<1>4. TimerTypeOK'
  BY <1>1, <1>2, <1>3 DEF TimerTypeOK
<1>5. key'[e] = k /\ \A x \in ToSet(items) : key'[x] = key[x]
  <2>1. ToSet(items) \subseteq Entries
    BY <1>1, ElementsOf DEF TimerTypeOK
  <2> QED
    BY <1>1, <1>2, <2>1 DEF TimerTypeOK
<1>6. ASSUME NEW x \in ToSet(items)'
      PROVE  key'[x] # 0 /\ key'[x] >= lastkey' /\ (x \in fired' => key'[x] > msec_time')
  <2>1. CASE x = e
    BY <1>1, <1>2, <1>5, <2>1 DEF TimerInv
  <2>2. CASE x # e
    BY <1>2, <1>3, <1>5, <2>2 DEF TimerInv, OrderedByTime, fftmrq_active
  <2> QED
    BY <2>1, <2>2
<1> QED
  BY <1>2, <1>3, <1>4, <1>6 DEF TimerInv, OrderedByTime, fftmrq_active

LEMMA RmStep ==
    ASSUME TimerInv, NEW e \in Entries, Rm(e)
    PROVE  TimerInv'
<1> DEFINE p == CHOOSE i \in 1..Len(items) : items[i] = e
<1>1. TimerTypeOK /\ Ordered(items, key) /\ p \in 1..Len(items) /\ items[p] = e
  <2>1. TimerTypeOK /\ Ordered(items, key) /\ e \in ToSet(items)
    BY DEF Rm, TimerInv, OrderedByTime, Queued
  <2>2. \E i \in 1..Len(items) : items[i] = e
    BY <2>1, ElementsOf DEF TimerTypeOK
  <2> QED
    BY <2>1, <2>2
<1>2. /\ key' = [key EXCEPT ![e] = 0] /\ items' = RemoveAt(items, p) /\ live
      /\ UNCHANGED <<clock, interval, msec_time, tmr, started, live, pc, fired, lastkey>>
  BY DEF Rm, remove
<1> HIDE DEF p
<1>3. /\ items' \in Seq(Entries) /\ Ordered(items, key)'
      /\ ToSet(items)' = ToSet(items) \ {e}
  BY <1>1, <1>2, RemoveAtKeepsOrder DEF TimerTypeOK
<1>4. TimerTypeOK'
  BY <1>1, <1>2, <1>3 DEF TimerTypeOK
<1>5. \A x \in ToSet(items)' : key'[x] = key[x] /\ x \in ToSet(items)
  <2>1. ToSet(items) \subseteq Entries
    BY <1>1, ElementsOf DEF TimerTypeOK
  <2> QED
    BY <1>1, <1>2, <1>3, <2>1 DEF TimerTypeOK
<1> QED
  BY <1>2, <1>3, <1>4, <1>5 DEF TimerInv, OrderedByTime, fftmrq_active

\* The entry that fires is due, has not fired at this time, and goes behind
\* what is due; the others keep their order.
LEMMA FireStep ==
    ASSUME TimerInv, Fire
    PROVE  TimerInv' /\ Head(items) \notin fired /\ key[Head(items)] >= lastkey
<1> DEFINE e == Head(items)
           rest == Tail(items)
<1>1. /\ TimerTypeOK /\ Ordered(items, key) /\ items # << >> /\ live
      /\ 1 \in 1..Len(items) /\ rest = RemoveAt(items, 1) /\ e = items[1]
  BY TailRemovesFirst DEF Fire, TimerInv, OrderedByTime, TimerTypeOK
<1>2. e \in ToSet(items) /\ e \in Entries
  BY <1>1, ElementsOf DEF TimerTypeOK
<1>3. /\ key[e] <= msec_time /\ reschedule(e)
      /\ fired' = fired \cup {e} /\ lastkey' = key[e] /\ pc' = "handler"
      /\ UNCHANGED <<clock, interval, msec_time, tmr, started, live>>
  BY DEF Fire
<1> HIDE DEF e, rest
<1>4. /\ rest \in Seq(Entries) /\ Ordered(rest, key)
      /\ Ordered(rest, [key EXCEPT ![e] = 0])
      /\ ToSet(rest) = ToSet(items) \ {e}
  BY <1>1, RemoveAtKeepsOrder DEF TimerTypeOK
<1>5. /\ key[e] \in Nat /\ msec_time \in Nat /\ lastkey \in Nat
      /\ e \notin fired /\ key[e] >= lastkey
  BY <1>1, <1>2, <1>3, ClockAssumption DEF TimerTypeOK, TimerInv
<1>6. \A x \in ToSet(rest) : x \in Entries /\ x # e /\ key[x] \in Nat /\ key[x] >= key[e]
  <2> SUFFICES ASSUME NEW j \in 1..Len(items), items[j] # e
               PROVE  items[j] \in Entries /\ key[items[j]] \in Nat /\ key[items[j]] >= key[e]
    <3>1. \A x \in ToSet(rest) : x # e /\ \E j \in 1..Len(items) : items[j] = x
      BY <1>1, <1>4, ElementsOf DEF TimerTypeOK
    <3> QED
      BY <3>1
  <2>1. items[j] \in Entries /\ key[items[j]] \in Nat
    BY <1>1 DEF TimerTypeOK
  <2>2. j # 1 /\ j > 1
    BY <1>1
  <2>3. key[items[1]] <= key[items[j]]
    BY <1>1, <2>2 DEF Ordered
  <2> QED
    BY <1>1, <1>5, <2>1, <2>3
<1>7. CASE interval[e] <= 0
  <2>1. items' = rest /\ key' = [key EXCEPT ![e] = 0]
    BY <1>3, <1>7 DEF reschedule, rest
  <2>2. TimerTypeOK'
    BY <1>1, <1>2, <1>3, <1>4, <1>5, <2>1 DEF TimerTypeOK
  <2>3. \A x \in ToSet(items)' : key'[x] = key[x] /\ x \in ToSet(items) /\ x # e
    BY <1>1, <1>2, <1>4, <1>6, <2>1 DEF TimerTypeOK
  <2>4. ASSUME NEW x \in ToSet(items)'
        PROVE  key'[x] # 0 /\ key'[x] >= lastkey' /\ (x \in fired' => key'[x] > msec_time')
    BY <1>3, <1>4, <1>6, <2>1, <2>3 DEF TimerInv, OrderedByTime, fftmrq_active
  <2> QED
    BY <1>1, <1>3, <1>4, <1>5, <2>1, <2>2, <2>4 DEF e, TimerInv, OrderedByTime, fftmrq_active
<1>8. CASE ~ (interval[e] <= 0)
  <2> DEFINE k == nextkey(e)
  <2>1. items' = insert(rest, e, k, key) /\ key' = [key EXCEPT ![e] = k]
    BY <1>3, <1>8 DEF reschedule, rest
  <2>2. k \in Nat /\ k > msec_time /\ k >= key[e]
    BY <1>1, <1>2, <1>8, NextKey
  <2> HIDE DEF k
  <2>3. /\ items' \in Seq(Entries) /\ Ordered(items, key)'
        /\ ToSet(items)' = ToSet(rest) \cup {e}
    <3>1. key \in [Entries -> Nat] /\ e \notin ToSet(rest)
      BY <1>1, <1>4 DEF TimerTypeOK
    <3> QED
      BY <1>2, <1>4, <2>1, <2>2, <3>1, InsertKeepsOrder
  <2>4. TimerTypeOK'
    BY <1>1, <1>2, <1>3, <1>5, <2>1, <2>2, <2>3 DEF TimerTypeOK
  <2>5. key'[e] = k /\ \A x \in ToSet(rest) : key'[x] = key[x] /\ x \in ToSet(items)
    BY <1>1, <1>2, <1>4, <1>6, <2>1 DEF TimerTypeOK
  <2>6. ASSUME NEW x \in ToSet(items)'
        PROVE  key'[x] # 0 /\ key'[x] >= lastkey' /\ (x \in fired' => key'[x] > msec_time')
    <3>1. CASE x = e
      BY <1>3, <1>5, <2>2, <2>5, <3>1
    <3>2. CASE x # e
      <4>1. x \in ToSet(rest)
        BY <2>3, <3>2
      <4> QED
        BY <1>3, <1>6, <2>5, <4>1 DEF TimerInv, OrderedByTime, fftmrq_active
    <3> QED
      BY <3>1, <3>2
  <2> QED
    BY <1>1, <1>3, <1>5, <2>3, <2>4, <2>6 DEF e, TimerInv, OrderedByTime, fftmrq_active
<1> QED
  BY <1>7, <1>8

\* tmrq_update() may find that time has passed: nothing has fired at the new time.
LEMMA UpdateStep ==
    ASSUME TimerInv, update, items' = items,
           \A x \in ToSet(items) : key'[x] = key[x]
    PROVE  /\ msec_time' \in 1..MaxClock /\ msec_time' >= msec_time /\ msec_time' <= clock
           /\ fired' \subseteq Entries
           /\ \A x \in ToSet(items) : x \in fired' => key'[x] > msec_time'
<1>1. /\ clock \in 1..MaxClock /\ msec_time \in 1..MaxClock /\ msec_time <= clock
      /\ fired \subseteq Entries /\ msec_time' = clock
      /\ fired' = IF msec_time = clock THEN fired ELSE {}
  BY DEF TimerInv, TimerTypeOK, update
<1>2. CASE msec_time = clock
  BY <1>1, <1>2 DEF TimerInv
<1>3. CASE msec_time # clock
  BY <1>1, <1>3
<1> QED
  BY <1>2, <1>3

LEMMA InitAgainStep == ASSUME TimerInv, InitAgain PROVE TimerInv'
<1>1. /\ items = << >> /\ items' = << >> /\ ToSet(<< >>) = {}
      /\ key' = [x \in Entries |-> 0] /\ live'
      /\ UNCHANGED <<clock, interval, tmr, started, pc, lastkey>>
  BY EmptyTree DEF InitAgain, TimerInv
<1>2. Ordered(items, key)'
  BY <1>1, EmptyTree
<1>3. msec_time' \in 1..MaxClock /\ msec_time' >= msec_time /\ msec_time' <= clock /\ fired' \subseteq Entries
  BY <1>1, UpdateStep DEF InitAgain
<1>4. key' \in [Entries -> Nat] /\ live' \in BOOLEAN
  BY <1>1 DEF InitAgain
<1>5. TimerTypeOK'
  BY <1>1, <1>3, <1>4 DEF TimerInv, TimerTypeOK
<1>6. lastkey' <= msec_time'
  BY <1>1, <1>3, ClockAssumption DEF TimerInv, TimerTypeOK
<1> QED
  BY <1>1, <1>2, <1>3, <1>5, <1>6 DEF TimerInv, OrderedByTime

LEMMA StartStep == ASSUME TimerInv, Start PROVE TimerInv'
<1>1. UNCHANGED <<clock, items, key, interval, live, pc, lastkey>> /\ live
  BY DEF Start, queue
<1>2. tmr' \in BOOLEAN /\ started' \in BOOLEAN
  BY Zenon DEF Start, TimerInv, TimerTypeOK
<1>3. /\ msec_time' \in 1..MaxClock /\ msec_time' >= msec_time /\ msec_time' <= clock
      /\ fired' \subseteq Entries
      /\ \A x \in ToSet(items) : x \in fired' => key'[x] > msec_time'
  <2>1. CASE update
    BY <1>1, <2>1, UpdateStep
  <2>2. CASE UNCHANGED <<msec_time, fired>>
    BY <1>1, <2>2 DEF TimerInv, TimerTypeOK
  <2> QED
    BY <2>1, <2>2 DEF Start
<1>4. TimerTypeOK'
  BY <1>1, <1>2, <1>3 DEF TimerInv, TimerTypeOK
<1>5. lastkey' <= msec_time'
  BY <1>1, <1>3, ClockAssumption DEF TimerInv, TimerTypeOK
<1> QED
  BY <1>1, <1>3, <1>4, <1>5 DEF TimerInv, OrderedByTime, fftmrq_active

LEMMA DestroyStep == ASSUME TimerInv, Destroy PROVE TimerInv'
<1>1. Ordered(items, key)' /\ ToSet(items)' = {} /\ items' = << >>
  BY EmptyTree DEF Destroy
<1>2. tmr' \in BOOLEAN /\ started' \in BOOLEAN /\ live' \in BOOLEAN
  BY DEF Destroy
<1>3. TimerTypeOK'
  BY <1>1, <1>2 DEF Destroy, TimerInv, TimerTypeOK
<1> QED
  BY <1>1, <1>3 DEF Destroy, TimerInv, OrderedByTime

LEMMA OnFireStep == ASSUME TimerInv, OnFire PROVE TimerInv'
<1>1. /\ msec_time' = clock /\ fired' = {} /\ lastkey' = 0 /\ pc' = "loop"
      /\ UNCHANGED <<clock, items, key, interval, tmr, started, live>>
  BY DEF OnFire, queue
<1>2. TimerTypeOK'
  BY <1>1 DEF TimerInv, TimerTypeOK
<1>3. lastkey' <= msec_time' /\ msec_time' <= clock'
  BY <1>1, ClockAssumption DEF TimerInv, TimerTypeOK
<1>4. \A x \in ToSet(items) : key[x] \in Nat
  BY ElementsOf DEF TimerInv, TimerTypeOK
<1> QED
  BY <1>1, <1>2, <1>3, <1>4 DEF TimerInv, OrderedByTime, fftmrq_active

\* The other steps leave the tree and what has fired alone.
LEMMA OtherSteps ==
    ASSUME TimerInv, Stop \/ HandlerReturns \/ FireEnd \/ Tick \/ UNCHANGED timervars
    PROVE  TimerInv'
<1>1. UNCHANGED <<items, key, interval, msec_time, live, fired, lastkey>>
  BY DEF Stop, HandlerReturns, FireEnd, Tick, timervars, queue
<1>2. clock' \in 1..MaxClock /\ clock' >= clock
  BY ClockAssumption DEF Stop, HandlerReturns, FireEnd, Tick, timervars, TimerInv, TimerTypeOK
<1>3. tmr' \in BOOLEAN /\ started' \in BOOLEAN
  BY Zenon DEF Stop, HandlerReturns, FireEnd, Tick, timervars, TimerInv, TimerTypeOK
<1>4. pc' \in {"idle", "loop", "handler"}
  BY DEF Stop, HandlerReturns, FireEnd, Tick, timervars, TimerInv, TimerTypeOK
<1>5. TimerTypeOK'
  BY <1>1, <1>2, <1>3, <1>4 DEF TimerInv, TimerTypeOK
<1>6. msec_time' <= clock'
  BY <1>1, <1>2, ClockAssumption DEF TimerInv, TimerTypeOK
<1> QED
  BY <1>1, <1>5, <1>6 DEF TimerInv, OrderedByTime, fftmrq_active

LEMMA NextStep == ASSUME TimerInv, [TimerNext]_timervars PROVE TimerInv'
  BY InitAgainStep, StartStep, DestroyStep, OnFireStep, FireStep, OtherSteps, RmStep, AddStep
     DEF TimerNext, Loop

\* The invariant of fftimer_queue: whatever the event loop and the handlers do
\* (adding, removing, stopping, destroying in the middle of tmrq_onfire()), the
\* tree is ordered, what has fired at this time is due later and nothing in
\* the tree lies before what was called last.
THEOREM TimerQueueInvariant == TimerSpec => []TimerInv
<1>1. TimerInit => TimerInv
  BY InitInv
<1>2. TimerInv /\ [TimerNext]_timervars => TimerInv'
  BY NextStep
<1> QED
  BY <1>1, <1>2, PTL DEF TimerSpec

\* The first entry of fftimer_queue is the next one due, no entry is in the tree
\* twice and every entry in it is active, for any number of timers.
THEOREM TimerQueueOrdered == TimerSpec => []OrderedByTime
<1>1. TimerInv => OrderedByTime
  BY DEF TimerInv
<1> QED
  BY <1>1, TimerQueueInvariant, PTL

\* tmrq_onfire() calls no handler twice at one time, and calls them in the order
\* of their times, however late it is and whatever the handlers do.
THEOREM TimerFiresOncePerTime == TimerSpec => OncePerTime
<1>1. ASSUME TimerInv, [TimerNext]_timervars
      PROVE  [pc = "loop" /\ pc' = "handler" => fired' # fired /\ lastkey' >= lastkey]_timervars
  <2>1. CASE Fire
    BY <1>1, <2>1, FireStep DEF Fire
  <2>2. CASE TimerNext /\ ~ Fire
    <3>1. ~ (pc = "loop" /\ pc' = "handler")
      BY <2>2 DEF TimerNext, Loop, InitAgain, Start, Stop, Destroy, Add, Rm, OnFire, UserRuns,
                  HandlerReturns, FireEnd, Tick
    <3> QED
      BY <3>1
  <2> QED
    BY <1>1, <2>1, <2>2
<1> QED
  BY <1>1, TimerQueueInvariant, PTL DEF TimerSpec, OncePerTime

-----------------------------------------------------------------------------
(***************************************************************************)
(* The audio outputs, for buffers, pieces and tracks of any size, any      *)
(* number of clears, and every interface.  The invariant says that what    *)
(* was written and not played yet lies in line, each interface with a      *)
(* storage of its own: the p-th sample from the one that was played last   *)
(* is the p-th that follows it, and silence after the last one.            *)
(***************************************************************************)
VARIABLES snd, card, player
CONSTANTS Apis, Buf, Input, Chunk, MaxEvents, Clears
A == INSTANCE AudioDev WITH s <- snd, d <- card, u <- player

(* A buffer holds something.                                               *)
Queues == {"shared", "alsa", "sigio", "pulse", "oss"}
AudioConstants == /\ Apis \subseteq Queues \cup {"excl", "dsound", "coreaudio"}
                  /\ Buf \in Nat \ {0} /\ Input \in Nat /\ Chunk \in Nat /\ MaxEvents \in Nat /\ Clears \in Nat

Positions == 0..(Buf - 1)
Sounds == [api : Apis, actv : Nat, wbuf : Seq(Int), evt : Nat, started : BOOLEAN, cb : BOOLEAN, cbw : BOOLEAN,
           last : BOOLEAN, rpos : Positions, wpos : Positions, isfull : BOOLEAN, overrun : BOOLEAN]
Cards == [queue : Seq(Int) \cup Seq(Seq(Int)), run : BOOLEAN, xrun : BOOLEAN, sig : BOOLEAN, ring : [Positions -> Int],
          pos : Positions, left : Int, at : Int, bad : BOOLEAN, off : BOOLEAN, wild : BOOLEAN]
Players == [pc : {"write", "call", "copy", "full", "async", "async2", "wait", "paused", "drain", "done"},
            next : Nat, len : Nat, n : Nat, clears : Nat]
AudioTypes == snd \in Sounds /\ card \in Cards /\ player \in Players

(* The samples that were written.  When w of them were and the last one    *)
(* that was played is at, the p-th from there is due(at, w, p).            *)
Written == player.next - 1 + player.n
due(at, w, p) == IF at + p <= w THEN at + p ELSE A!Silence
InLine(xs, at, w) == \A p \in 1..Len(xs) : xs[p] = due(at, w, p)
One(b) == IF b THEN 1 ELSE 0

(* Where the user is.  last is set when there is nothing more to write.    *)
UserAt ==
    /\ player.next \in 1..(Input + 1)
    /\ player.pc \in {"call", "copy", "full"} => player.n <= player.len /\ player.next + player.len <= Input + 1
    /\ player.pc \notin {"copy", "full"} => player.n = 0
    /\ player.pc = "call" => player.len > 0
    /\ player.pc = "copy" => snd.api = "excl"
    /\ player.pc = "full" => snd.api = "coreaudio"
    /\ player.pc \in {"drain", "done"} => player.next = Input + 1
    /\ snd.last => player.next = Input + 1 /\ player.pc \in {"drain", "async", "async2", "wait", "done"}
Heard ==
    /\ ~ card.bad /\ (~ card.off => card.at \in 0..Written)
    /\ card.off => snd.api \in {"excl", "dsound"}
    /\ player.pc = "done" /\ ~ card.off /\ snd.api # "dsound" => card.at = Written

(* What each interface has not played yet is what is due.                  *)
QueueAhead ==
    /\ card.queue \in Seq(Int)
    /\ InLine(card.queue, card.at, Written)
    /\ card.at + Len(card.queue) >= Written
    /\ ~ snd.last => card.at + Len(card.queue) = Written
    /\ Len(card.queue) <= Buf
    /\ card.xrun => card.queue = << >> /\ snd.api \in {"alsa", "sigio"}
RingLine(b, ring, r, l, at, w) == \A p \in 1..l : ring[(r + p - 1) % b] = due(at, w, p)
CoreAhead ==
    /\ card.left = A!canread(snd) /\ card.at + card.left = Written
    /\ RingLine(Buf, card.ring, snd.rpos, card.left, card.at, Written)
(* rpos is where the last notification was, isfull tells a full ring from  *)
(* an empty one.                                                           *)
RingAhead ==
    ~ card.off =>
        /\ card.left \in 0..Buf
        /\ RingLine(Buf, card.ring, card.pos, card.left, card.at, Written)
        /\ ~ snd.last => /\ A!dsnd_filled(snd) = card.left + One(card.sig)
                         /\ card.at + card.left = Written
                         /\ snd.wpos = (card.pos + card.left) % Buf
                         /\ snd.rpos = (card.pos - One(card.sig)) % Buf
(* actv counts the buffers the device has, less those whose events were    *)
(* not seen; after a clear the old events are still to be taken off.       *)
JustCleared ==
    /\ card.queue = << >> /\ ~ card.sig /\ ~ card.run /\ snd.wbuf = << >> /\ snd.actv = 0
    /\ player.pc \in {"write", "call", "drain"}
LineOf(q, buf) == IF Len(q) = 0 THEN buf ELSE IF Len(q) = 1 THEN q[1] \o buf ELSE q[1] \o (q[2] \o buf)
Line == LineOf(card.queue, snd.wbuf)
BuffersAhead ==
    /\ card.queue \in Seq(Seq(Int))
    /\ \A b \in 1..Len(card.queue) : Len(card.queue[b]) = Buf
    /\ Len(snd.wbuf) < Buf /\ snd.actv <= 2
    /\ snd.actv = 2 => snd.wbuf = << >>
    /\ player.pc = "paused" => ~ card.run
    /\ ~ card.off =>
        /\ Len(card.queue) + snd.evt + One(card.sig) <= snd.actv \/ JustCleared
        /\ InLine(Line, card.at, Written)
        /\ card.at + Len(Line) >= Written
        /\ ~ snd.last => card.at + Len(Line) = Written
AudioInv ==
    /\ AudioTypes /\ UserAt /\ Heard
    /\ snd.api \in Queues => QueueAhead
    /\ snd.api = "coreaudio" => CoreAhead
    /\ snd.api = "dsound" => RingAhead
    /\ snd.api = "excl" => BuffersAhead

\* The greatest of some positions, and the lesser of two numbers.
LEMMA LastPosition ==
    ASSUME NEW n \in Nat, NEW R \in SUBSET (1..n), R # {}
    PROVE  A!Max(R) \in R /\ \A r \in R : r <= A!Max(R)
<1> DEFINE T == {n - r : r \in R}
<1>1. T \in SUBSET Nat /\ T # {}
  <2>1. \A r \in R : n - r \in Nat
    OBVIOUS
  <2>2. \E r \in R : n - r \in T
    OBVIOUS
  <2> QED
    BY <2>1, <2>2
<1>2. PICK t \in T : \A m \in T : t <= m
  BY <1>1, LeastNat
<1>3. PICK r \in R : t = n - r
  BY <1>2
<1>4. \A q \in R : q <= r
  <2> SUFFICES ASSUME NEW q \in R PROVE q <= r
    OBVIOUS
  <2>1. n - q \in T
    OBVIOUS
  <2>2. t <= n - q
    BY <1>2, <2>1
  <2> QED
    BY <1>3, <2>2
<1>5. \E x \in R : \A y \in R : x >= y
  BY <1>3, <1>4
<1> QED
  BY <1>5 DEF A!Max

\* The lesser and the greater of two numbers.
LEMMA Lesser ==
    ASSUME NEW a \in Int, NEW b \in Int
    PROVE  /\ A!Min({a, b}) = IF a <= b THEN a ELSE b
           /\ A!Max({a, b}) = IF a <= b THEN b ELSE a
<1>1. CASE a <= b
  <2>1. \E x \in {a, b} : \A y \in {a, b} : x <= y
    BY <1>1
  <2>2. \E x \in {a, b} : \A y \in {a, b} : x >= y
    BY <1>1
  <2> QED
    BY <1>1, <2>1, <2>2 DEF A!Min, A!Max
<1>2. CASE ~ (a <= b)
  <2>1. \E x \in {a, b} : \A y \in {a, b} : x <= y
    BY <1>2
  <2>2. \E x \in {a, b} : \A y \in {a, b} : x >= y
    BY <1>2
  <2> QED
    BY <1>2, <2>1, <2>2 DEF A!Min, A!Max
<1> QED
  BY <1>1, <1>2

\* A card that plays what follows on its last sample, and then silence, plays nothing out of order.
LEMMA PlaysOn ==
    ASSUME NEW dd \in Cards, NEW xs \in Seq(Int), NEW m \in 0..Len(xs), dd.at >= 0,
           \A j \in 1..m : xs[j] = dd.at + j,
           \A j \in (m + 1)..Len(xs) : xs[j] <= 0
    PROVE  A!play(dd, xs) = [dd EXCEPT !.at = dd.at + m]
<1>0. dd.at \in Int /\ dd.bad \in BOOLEAN /\ Len(xs) \in Nat /\ m \in Nat /\ m <= Len(xs)
  BY DEF Cards
<1>1. \A i \in 1..Len(xs) : xs[i] > 0 <=> i <= m
  <2> SUFFICES ASSUME NEW i \in 1..Len(xs) PROVE xs[i] > 0 <=> i <= m
    OBVIOUS
  <2>1. CASE i <= m
    BY <1>0, <2>1
  <2>2. CASE ~ (i <= m)
    <3>1. xs[i] <= 0 /\ xs[i] \in Int
      BY <1>0, <2>2
    <3> QED
      BY <2>2, <3>1
  <2> QED
    BY <2>1, <2>2
<1>2. ASSUME NEW n \in 0..Len(xs)
      PROVE  A!heard(dd, xs, n) = dd.at + IF n <= m THEN n ELSE m
  <2> DEFINE R == {i \in 1..n : xs[i] > 0}
             k == IF n <= m THEN n ELSE m
  <2>1. k \in Nat /\ n \in Nat /\ k <= m /\ k <= n
    BY <1>0
  <2>2. \A i \in 1..n : i \in R <=> i <= k
    BY <1>0, <1>1
  <2>3. A!heard(dd, xs, n) = IF R = {} THEN dd.at ELSE xs[A!Max(R)]
    BY DEF A!heard
  <2>4. R \in SUBSET (1..n)
    OBVIOUS
  <2> HIDE DEF R, k
  <2>5. CASE k = 0
    <3>1. R = {}
      BY <2>1, <2>2, <2>4, <2>5
    <3> QED
      BY <1>0, <2>3, <2>5, <3>1 DEF k
  <2>6. CASE k # 0
    <3>1. k \in R /\ k \in 1..m
      BY <2>1, <2>2, <2>6
    <3>2. A!Max(R) \in R /\ k <= A!Max(R)
      BY <2>1, <2>4, <3>1, LastPosition
    <3>3. A!Max(R) = k
      <4>1. A!Max(R) \in 1..n /\ A!Max(R) <= k
        BY <2>2, <2>4, <3>2
      <4> QED
        BY <2>1, <3>2, <4>1
    <3> QED
      BY <2>3, <3>1, <3>3 DEF k
  <2> QED
    BY <2>5, <2>6
<1>3. A!heard(dd, xs, Len(xs)) = dd.at + m
  BY <1>0, <1>2
<1>4. ~ \E i \in 1..Len(xs) : xs[i] > 0 /\ xs[i] # A!heard(dd, xs, i - 1) + 1
  <2> SUFFICES ASSUME NEW i \in 1..Len(xs), xs[i] > 0 PROVE xs[i] = A!heard(dd, xs, i - 1) + 1
    OBVIOUS
  <2>1. i \in 1..m /\ i - 1 \in 0..Len(xs) /\ i - 1 <= m
    BY <1>0, <1>1
  <2>2. A!heard(dd, xs, i - 1) = dd.at + (i - 1)
    BY <1>2, <2>1
  <2> QED
    BY <1>0, <2>1, <2>2
<1>5. A!play(dd, xs) = [dd EXCEPT !.at = dd.at + m, !.bad = dd.bad]
  BY <1>0, <1>3, <1>4 DEF A!play
<1>6. [dd EXCEPT !.at = dd.at + m, !.bad = dd.bad] = [dd EXCEPT !.at = dd.at + m]
  BY DEF Cards
<1> QED
  BY <1>5, <1>6

\* After an underrun nothing counts as out of order.
LEMMA PlaysLate ==
    ASSUME NEW dd \in Cards, NEW xs \in Seq(Int), dd.off
    PROVE  \E x \in Int : A!play(dd, xs) = [dd EXCEPT !.at = x]
<1>0. dd.at \in Int /\ dd.bad \in BOOLEAN /\ Len(xs) \in Nat
  BY DEF Cards
<1> DEFINE x == A!heard(dd, xs, Len(xs))
<1>1. x \in Int
  <2> DEFINE R == {i \in 1..Len(xs) : xs[i] > 0}
  <2>1. x = IF R = {} THEN dd.at ELSE xs[A!Max(R)]
    BY DEF A!heard
  <2>2. R \in SUBSET (1..Len(xs))
    OBVIOUS
  <2> HIDE DEF x, R
  <2>3. CASE R = {}
    BY <1>0, <2>1, <2>3
  <2>4. CASE R # {}
    <3>1. A!Max(R) \in 1..Len(xs)
      BY <1>0, <2>2, <2>4, LastPosition
    <3> QED
      BY <2>1, <2>4, <3>1
  <2> QED
    BY <2>3, <2>4
<1>2. A!play(dd, xs) = [dd EXCEPT !.at = x, !.bad = dd.bad]
  BY <1>0 DEF A!play
<1>3. [dd EXCEPT !.at = x, !.bad = dd.bad] = [dd EXCEPT !.at = x]
  BY DEF Cards
<1> QED
  BY <1>1, <1>2, <1>3

-----------------------------------------------------------------------------
\* What the invariant says of each field.
LEMMA AudioFields ==
    ASSUME AudioInv
    PROVE  /\ snd \in Sounds /\ card \in Cards /\ player \in Players
           /\ card.at \in Int /\ Written \in Int /\ player.next \in Nat /\ player.n \in Nat /\ player.len \in Nat
           /\ player.pc \in {"write", "call", "copy", "full", "async", "async2", "wait", "paused", "drain", "done"}
           /\ snd.last \in BOOLEAN /\ card.off \in BOOLEAN /\ card.sig \in BOOLEAN /\ card.run \in BOOLEAN
<1>1. snd \in Sounds /\ card \in Cards /\ player \in Players
  BY DEF AudioInv, AudioTypes
<1>2. card.at \in Int /\ player.next \in Nat /\ player.n \in Nat /\ player.len \in Nat
  BY <1>1 DEF Cards, Players
<1>3. Written \in Int
  BY <1>2 DEF Written
<1> QED
  BY <1>1, <1>2, <1>3 DEF Sounds, Cards, Players

\* What is in line stays in line when the samples that follow are appended, or silence when there are none.
LEMMA LineExtends ==
    ASSUME NEW q \in Seq(Int), NEW xs \in Seq(Int), NEW at \in Int, NEW w \in Int, NEW w1 \in w..(w + Len(xs)),
           at + Len(q) = w, InLine(q, at, w), InLine(xs, w, w1)
    PROVE  q \o xs \in Seq(Int) /\ Len(q \o xs) = Len(q) + Len(xs) /\ InLine(q \o xs, at, w1)
<1>0. PICK n \in Nat, k \in Nat : n = Len(q) /\ k = Len(xs)
  OBVIOUS
<1>1. /\ q \o xs \in Seq(Int) /\ Len(q \o xs) = n + k
      /\ \A i \in 1..(n + k) : (q \o xs)[i] = IF i <= n THEN q[i] ELSE xs[i - n]
  BY <1>0, ConcatProperties
<1>2. w1 \in Int /\ w <= w1 /\ at + n = w
  BY <1>0
<1>3. ASSUME NEW p \in 1..(n + k) PROVE (q \o xs)[p] = due(at, w1, p)
  <2>1. CASE p <= n
    <3>1. (q \o xs)[p] = q[p] /\ p \in 1..Len(q)
      BY <1>0, <1>1, <2>1
    <3>2. at + p <= w /\ at + p <= w1
      BY <1>2, <2>1
    <3> QED
      BY <3>1, <3>2 DEF InLine, due
  <2>2. CASE ~ (p <= n)
    <3>1. PICK i \in 1..k : i = p - n
      BY <2>2
    <3>2. (q \o xs)[p] = xs[i] /\ i \in 1..Len(xs)
      BY <1>0, <1>1, <2>2, <3>1
    <3>3. at + p = w + i
      BY <1>2, <3>1
    <3> QED
      BY <3>2, <3>3 DEF InLine, due
  <2> QED
    BY <2>1, <2>2
<1> QED
  BY <1>0, <1>1, <1>3 DEF InLine

\* What is in line stays in line when the first k samples were played, and they were played in order.
LEMMA LineShrinks ==
    ASSUME NEW q \in Seq(Int), NEW at \in Nat, NEW w \in Nat, at <= w, InLine(q, at, w), NEW k \in 0..Len(q)
    PROVE  /\ SubSeq(q, 1, k) \in Seq(Int) /\ Len(SubSeq(q, 1, k)) = k
           /\ SubSeq(q, k + 1, Len(q)) \in Seq(Int) /\ Len(SubSeq(q, k + 1, Len(q))) = Len(q) - k
           /\ \E m \in 0..k : /\ at + m \in at..w /\ (at + m # w => m = k)
                              /\ \A j \in 1..m : SubSeq(q, 1, k)[j] = at + j
                              /\ \A j \in (m + 1)..k : SubSeq(q, 1, k)[j] = 0
                              /\ InLine(SubSeq(q, k + 1, Len(q)), at + m, w)
<1> DEFINE m == IF at + k <= w THEN k ELSE w - at
           xs == SubSeq(q, 1, k)
           rest == SubSeq(q, k + 1, Len(q))
<1>0. Len(q) \in Nat /\ k \in Nat /\ k <= Len(q)
  OBVIOUS
<1>1. m \in 0..k /\ at + m \in at..w /\ (at + m # w => m = k) /\ (m # k => m = w - at)
  BY <1>0
<1>2. xs \in Seq(Int) /\ Len(xs) = k /\ \A j \in 1..k : xs[j] = q[j]
  BY <1>0, SubSeqProperties
<1>3. rest \in Seq(Int) /\ Len(rest) = Len(q) - k /\ \A j \in 1..(Len(q) - k) : rest[j] = q[j + k]
  BY <1>0, SubSeqProperties
<1> HIDE DEF xs, rest, m
<1>4. \A j \in 1..m : xs[j] = at + j
  <2> SUFFICES ASSUME NEW j \in 1..m PROVE xs[j] = at + j
    OBVIOUS
  <2>1. j \in 1..k /\ j \in 1..Len(q) /\ at + j <= w
    BY <1>0, <1>1
  <2> QED
    BY <1>2, <2>1 DEF InLine, due
<1>5. \A j \in (m + 1)..k : xs[j] = 0
  <2> SUFFICES ASSUME NEW j \in (m + 1)..k PROVE xs[j] = 0
    OBVIOUS
  <2>1. j \in 1..k /\ j \in 1..Len(q) /\ ~ (at + j <= w)
    BY <1>0, <1>1
  <2> QED
    BY <1>2, <2>1 DEF InLine, due, A!Silence
<1>6. InLine(rest, at + m, w)
  <2> SUFFICES ASSUME NEW p \in 1..(Len(q) - k) PROVE rest[p] = due(at + m, w, p)
    BY <1>3 DEF InLine
  <2>1. p + k \in 1..Len(q) /\ p \in Nat
    BY <1>0
  <2>2. rest[p] = due(at, w, p + k)
    BY <1>3, <2>1 DEF InLine
  <2>3. due(at, w, p + k) = due(at + m, w, p)
    <3>1. CASE m = k
      BY <1>0, <2>1, <3>1 DEF due
    <3>2. CASE m # k
      <4>1. at + m = w /\ m = w - at /\ m <= k
        BY <1>0, <1>1, <3>2
      <4>2. ~ (at + (p + k) <= w) /\ ~ (at + m + p <= w)
        BY <1>0, <1>1, <2>1, <3>2, <4>1
      <4> QED
        BY <4>2 DEF due
    <3> QED
      BY <3>1, <3>2
  <2> QED
    BY <2>2, <2>3
<1> QED
  BY <1>1, <1>2, <1>3, <1>4, <1>5, <1>6 DEF xs, rest

\* The samples of a call.
LEMMA SomeSamples ==
    ASSUME AudioInv, NEW k \in 0..player.len
    PROVE  /\ A!Some(k) \in Seq(Int) /\ Len(A!Some(k)) = k
           /\ \A i \in 1..k : A!Some(k)[i] = player.next + i - 1
<1>1. player.len \in Nat /\ player.next \in Nat
  BY AudioFields
<1>2. \A i \in 1..player.len : A!Samples[i] = player.next + i - 1
  BY DEF A!Samples
<1>3. \A i \in 1..k : A!Samples[i] \in Int
  BY <1>1, <1>2
<1>4. A!Some(k) = SubSeq(A!Samples, 1, k)
  BY DEF A!Some
<1> QED
  BY <1>1, <1>2, <1>3, <1>4, SubSeqProperties

\* Silence that fills a buffer.
LEMMA SilentSamples ==
    ASSUME NEW k \in Int
    PROVE  /\ [i \in 1..k |-> A!Silence] \in Seq(Int)
           /\ Len([i \in 1..k |-> A!Silence]) = IF k >= 0 THEN k ELSE 0
           /\ \A i \in 1..k : [j \in 1..k |-> A!Silence][i] = 0
<1>1. CASE k >= 0
  <2>1. [i \in 1..k |-> A!Silence] \in [1..k -> Int] /\ k \in Nat
    BY <1>1 DEF A!Silence
  <2> QED
    BY <1>1, <2>1 DEF A!Silence
<1>2. CASE ~ (k >= 0)
  <2>1. 1..k = {} /\ 1..0 = {}
    BY <1>2
  <2>2. [i \in 1..k |-> A!Silence] = [i \in 1..0 |-> A!Silence]
    BY <2>1
  <2>3. [i \in 1..0 |-> A!Silence] \in Seq(Int) /\ Len([i \in 1..0 |-> A!Silence]) = 0
    <3>1. [i \in 1..0 |-> A!Silence] = << >>
      OBVIOUS
    <3> QED
      BY <3>1, EmptySeq
  <2>4. [i \in 1..k |-> A!Silence] \in Seq(Int) /\ Len([i \in 1..k |-> A!Silence]) = 0
    BY <2>2, <2>3
  <2> QED
    BY <1>2, <2>1, <2>4
<1> QED
  BY <1>1, <1>2

-----------------------------------------------------------------------------
\* A step that writes and plays nothing.
LEMMA NothingMoves ==
    ASSUME AudioInv, AudioTypes', UserAt', Written' = Written,
           snd'.api = snd.api, snd'.last = snd.last, snd'.rpos = snd.rpos, snd'.wpos = snd.wpos,
           snd'.isfull = snd.isfull, snd'.wbuf = snd.wbuf, snd'.actv = snd.actv,
           card'.queue = card.queue, card'.xrun = card.xrun, card'.ring = card.ring, card'.pos = card.pos,
           card'.left = card.left, card'.at = card.at, card'.bad = card.bad, card'.off = card.off,
           snd.api = "dsound" => card'.sig = card.sig,
           player'.pc = "done" /\ player.pc # "done" => card.off \/ snd.api = "dsound" \/ card.at = Written,
           snd.api = "excl" /\ player'.pc = "paused" => ~ card'.run,
           snd.api = "excl" /\ ~ card.off => Len(card.queue) + snd'.evt + One(card'.sig) <= snd.actv \/ JustCleared'
    PROVE  AudioInv'
<1>1. Heard'
  BY DEF AudioInv, Heard
<1>2. snd'.api \in Queues => QueueAhead'
  BY DEF AudioInv, QueueAhead
<1>3. snd'.api = "coreaudio" => CoreAhead'
  BY DEF AudioInv, CoreAhead, A!canread
<1>4. snd'.api = "dsound" => RingAhead'
  BY DEF AudioInv, RingAhead, A!dsnd_filled
<1>5. snd'.api = "excl" => BuffersAhead'
  <2> SUFFICES ASSUME snd.api = "excl" PROVE BuffersAhead'
    OBVIOUS
  <2>1. BuffersAhead
    BY DEF AudioInv
  <2>2. Line' = Line
    BY DEF Line
  <2> QED
    BY <2>1, <2>2 DEF BuffersAhead
<1> QED
  BY <1>1, <1>2, <1>3, <1>4, <1>5 DEF AudioInv

\* What follows a call that wrote k samples.
LEMMA AfterCall ==
    ASSUME AudioInv, NEW k \in Nat, player' = A!After(k), player.next + k <= Input + 1, snd'.last = FALSE,
           snd'.api = snd.api
    PROVE  /\ player' \in Players /\ UserAt' /\ player'.next = player.next + k /\ Written' = player.next + k - 1
           /\ player'.pc \in {"write", "async"}
<1>1. player \in Players /\ player.next \in 1..(Input + 1)
  BY DEF AudioInv, AudioTypes, UserAt
<1>2. /\ player'.next = player.next + k /\ player'.len = 0 /\ player'.n = 0 /\ player'.clears = player.clears
      /\ player'.pc \in {"write", "async"} /\ DOMAIN player' = DOMAIN player
  BY <1>1 DEF A!After, Players
<1>3. player' \in Players
  <2>1. PICK x \in {"write", "async"} : player' = [player EXCEPT !.next = player.next + k, !.len = 0, !.n = 0, !.pc = x]
    BY DEF A!After
  <2>2. PICK y \in Nat : y = player.next + k
    BY <1>1
  <2>3. [player EXCEPT !.next = y, !.len = 0, !.n = 0, !.pc = x] \in Players
    BY <1>1 DEF Players
  <2> QED
    BY <2>1, <2>2, <2>3
<1>4. UserAt'
  <2>1. player'.next \in 1..(Input + 1)
    BY <1>1, <1>2
  <2> QED
    BY <1>2, <2>1 DEF UserAt
<1>5. Written' = player.next + k - 1
  BY <1>1, <1>2 DEF Written
<1> QED
  BY <1>2, <1>3, <1>4, <1>5

\* The user goes to another place.
LEMMA Moved ==
    ASSUME AudioInv, NEW x \in {"write", "call", "copy", "full", "async", "async2", "wait", "paused", "drain", "done"},
           A!To(x)
    PROVE  /\ player' \in Players /\ player'.pc = x /\ player'.next = player.next /\ player'.len = player.len
           /\ player'.n = player.n /\ Written' = Written
<1>1. player \in Players
  BY DEF AudioInv, AudioTypes
<1>2. player' = [player EXCEPT !.pc = x]
  BY DEF A!To
<1>3. player'.pc = x /\ player'.next = player.next /\ player'.len = player.len /\ player'.n = player.n
  BY <1>1, <1>2 DEF Players
<1> QED
  BY <1>1, <1>2, <1>3 DEF Players, Written

\* The queues of the other interfaces play a sample.
LEMMA PlayQueueStep ==
    ASSUME AudioConstants, AudioInv, A!PlayQueue
    PROVE  AudioInv'
<1>1. snd' = snd /\ player' = player /\ snd.api \in Queues /\ snd.api # "dsound" /\ snd.api # "excl" /\ snd.api # "coreaudio"
  BY DEF A!PlayQueue, Queues
<1>2. QueueAhead
  BY <1>1 DEF AudioInv
<1>3. ~ card.off /\ card.at \in 0..Written /\ ~ card.bad
  BY <1>1 DEF AudioInv, Heard, Queues
<1>4. Written' = Written /\ UserAt'
  BY <1>1 DEF AudioInv, UserAt, Written
<1>5. CASE card.queue # << >> /\ card' = A!Took(card, 1)
  <2>0. PICK at \in Nat, written \in Nat, q \in Seq(Int), l \in Nat :
            at = card.at /\ written = Written /\ q = card.queue /\ l = Len(q) /\ l > 0 /\ at <= written
    <3>1. card.queue \in Seq(Int) /\ Len(card.queue) \in Nat \ {0} /\ Written \in Int
      BY <1>2, <1>5, AudioFields, EmptySeq DEF QueueAhead
    <3>2. card.at \in Nat /\ Written \in Nat /\ card.at <= Written /\ Len(card.queue) > 0
      BY <1>3, <3>1
    <3> QED
      BY <3>1, <3>2
  <2> DEFINE xs == SubSeq(q, 1, 1)
             rest == SubSeq(q, 1 + 1, Len(q))
  <2>1. /\ xs \in Seq(Int) /\ Len(xs) = 1
        /\ rest \in Seq(Int) /\ Len(rest) = l - 1
        /\ \E m \in 0..1 : /\ at + m \in at..written /\ (at + m # written => m = 1)
                           /\ \A j \in 1..m : xs[j] = at + j
                           /\ \A j \in (m + 1)..1 : xs[j] = 0
                           /\ InLine(rest, at + m, written)
    <3>1. InLine(q, at, written) /\ 1 \in 0..Len(q)
      BY <1>2, <2>0 DEF QueueAhead
    <3>2. at <= written
      BY <2>0
    <3>3. /\ SubSeq(q, 1, 1) \in Seq(Int) /\ Len(SubSeq(q, 1, 1)) = 1
          /\ SubSeq(q, 1 + 1, Len(q)) \in Seq(Int) /\ Len(SubSeq(q, 1 + 1, Len(q))) = Len(q) - 1
          /\ \E m \in 0..1 : /\ at + m \in at..written /\ (at + m # written => m = 1)
                             /\ \A j \in 1..m : SubSeq(q, 1, 1)[j] = at + j
                             /\ \A j \in (m + 1)..1 : SubSeq(q, 1, 1)[j] = 0
                             /\ InLine(SubSeq(q, 1 + 1, Len(q)), at + m, written)
      BY ONLY <3>1, <3>2, LineShrinks
    <3> QED
      BY <2>0, <3>3
  <2> HIDE DEF xs, rest
  <2>2. PICK m \in 0..1 : /\ at + m \in at..written /\ (at + m # written => m = 1)
                         /\ \A j \in 1..m : xs[j] = at + j
                         /\ \A i \in (m + 1)..1 : xs[i] = 0
                         /\ InLine(rest, at + m, written)
    BY <2>1
  <2>3. m \in Int /\ at + m \in Int /\ at + m <= written /\ at <= at + m
    BY <2>2
  <2>4. A!play(card, xs) = [card EXCEPT !.at = at + m]
    <3>1. m \in 0..Len(xs) /\ card.at >= 0 /\ card \in Cards
      BY <2>0, <2>1, <2>2, AudioFields
    <3>2. \A j \in 1..m : xs[j] = card.at + j
      BY <2>0, <2>2
    <3>3. \A j \in (m + 1)..Len(xs) : xs[j] <= 0
      BY <2>1, <2>2
    <3>4. A!play(card, xs) = [card EXCEPT !.at = card.at + m]
      BY <2>1, <3>1, <3>2, <3>3, PlaysOn
    <3> QED
      BY <2>0, <3>4
  <2>6. card' = [[card EXCEPT !.at = at + m] EXCEPT !.queue = rest, !.sig = TRUE]
    <3>1. card' = [A!play(card, SubSeq(card.queue, 1, 1)) EXCEPT !.queue = SubSeq(@, 1 + 1, Len(@)), !.sig = TRUE]
      BY <1>5 DEF A!Took
    <3>2. [card EXCEPT !.at = at + m].queue = card.queue
      BY AudioFields DEF Cards
    <3> QED
      BY <2>0, <2>4, <3>1, <3>2 DEF rest, xs
  <2>7. card' \in Cards
    <3>1. at + m \in Int /\ card \in Cards
      BY <2>3, AudioFields
    <3>2. [card EXCEPT !.at = at + m] \in Cards
      BY <3>1 DEF Cards
    <3>3. \A c \in Cards : [c EXCEPT !.queue = rest, !.sig = TRUE] \in Cards
      BY <2>1 DEF Cards
    <3> QED
      BY <2>6, <3>2, <3>3
  <2>8. /\ card'.at = at + m /\ card'.queue = rest /\ card'.xrun = card.xrun /\ card'.off = card.off
        /\ card'.bad = card.bad
    BY <2>6, AudioFields DEF Cards
  <2>9. AudioTypes'
    BY <1>1, <2>7 DEF AudioInv, AudioTypes
  <2>10. Heard'
    <3>1. card'.at \in 0..Written'
      BY <1>4, <2>0, <2>3, <2>8
    <3>2. player'.pc = "done" => card'.at = Written'
      <4>1. player.pc = "done" => at = written
        BY <1>1, <1>3, <2>0 DEF AudioInv, Heard
      <4>2. at = written => at + m = written
        BY <2>3
      <4> QED
        BY <1>1, <1>4, <2>0, <2>8, <4>1, <4>2
    <3> QED
      BY <1>1, <1>3, <2>8, <3>1, <3>2 DEF Heard
  <2>11. QueueAhead'
    <3>1. at + l >= written /\ (~ snd.last => at + l = written) /\ ~ card.xrun /\ l <= Buf
      BY <1>2, <1>5, <2>0 DEF QueueAhead
    <3>2. at + m + (l - 1) >= written /\ (~ snd.last => at + m + (l - 1) = written)
      <4>1. CASE m = 1
        BY <3>1, <4>1
      <4>2. CASE m # 1
        <5>1. m = 0 /\ at = written
          BY <2>2, <4>2
        <5> QED
          BY <2>0, <3>1, <5>1
      <4> QED
        BY <4>1, <4>2
    <3>3. card'.queue \in Seq(Int) /\ InLine(card'.queue, card'.at, Written')
      <4>1. rest \in Seq(Int) /\ InLine(rest, at + m, written)
        BY <2>1, <2>2
      <4>2. card'.queue = rest /\ card'.at = at + m /\ Written' = written
        BY <1>4, <2>0, <2>8
      <4> QED
        BY ONLY <4>1, <4>2
    <3>4. card'.at + Len(card'.queue) = at + m + (l - 1) /\ Len(card'.queue) <= Buf
      <4>1. l - 1 <= Buf
        BY <3>1 DEF AudioConstants
      <4> QED
        BY <2>1, <2>8, <4>1
    <3> QED
      BY <1>1, <1>4, <2>0, <2>8, <3>1, <3>2, <3>3, <3>4 DEF QueueAhead
  <2> QED
    BY <1>1, <1>4, <2>9, <2>10, <2>11 DEF AudioInv
<1>6. CASE card.queue = << >> /\ card' = [card EXCEPT !.run = FALSE, !.xrun = TRUE, !.sig = TRUE]
  <2>1. card' \in Cards
    BY <1>6, AudioFields DEF Cards
  <2>2. card'.at = card.at /\ card'.queue = card.queue /\ card'.off = card.off /\ card'.bad = card.bad
    BY <1>6, AudioFields DEF Cards
  <2>3. AudioTypes'
    BY <1>1, <2>1 DEF AudioInv, AudioTypes
  <2>4. Heard'
    BY <1>1, <1>4, <2>2 DEF AudioInv, Heard
  <2>5. snd.api \in {"alsa", "sigio"}
    BY <1>6 DEF A!PlayQueue
  <2>6. QueueAhead'
    BY <1>1, <1>2, <1>4, <1>6, <2>2, <2>5 DEF QueueAhead
  <2> QED
    BY <1>1, <1>4, <2>3, <2>4, <2>6 DEF AudioInv
<1> QED
  BY <1>5, <1>6 DEF A!PlayQueue

\* What is written next, or silence when nothing is left to write, put behind what is in line.
LEMMA Appending ==
    ASSUME NEW q \in Seq(Int), NEW xs \in Seq(Int), NEW at \in Nat, NEW w \in Nat, at + Len(q) = w, InLine(q, at, w),
           \A i \in 1..Len(xs) : xs[i] = w + i
    PROVE  q \o xs \in Seq(Int) /\ Len(q \o xs) = Len(q) + Len(xs) /\ InLine(q \o xs, at, w + Len(xs))
<1>0. PICK k \in Nat : k = Len(xs)
  OBVIOUS
<1>1. InLine(xs, w, w + k)
  <2> SUFFICES ASSUME NEW i \in 1..k PROVE xs[i] = due(w, w + k, i)
    BY <1>0 DEF InLine
  <2>1. w + i <= w + k
    OBVIOUS
  <2> QED
    BY <1>0, <2>1 DEF due
<1>2. w + k \in w..(w + Len(xs)) /\ w \in Int /\ at \in Int
  BY <1>0
<1> QED
  BY <1>0, <1>1, <1>2, LineExtends

\* Silence put behind a line that holds all that was written.
LEMMA Silencing ==
    ASSUME NEW q \in Seq(Int), NEW xs \in Seq(Int), NEW at \in Nat, NEW w \in Nat, NEW b \in Nat,
           at + Len(q) >= w, Len(xs) <= b - Len(q), InLine(q, at, w), at <= w,
           \A i \in 1..Len(xs) : xs[i] = 0
    PROVE  /\ q \o xs \in Seq(Int) /\ InLine(q \o xs, at, w) /\ at + Len(q \o xs) >= w /\ Len(q \o xs) <= b
<1>0. PICK n \in Nat, k \in Nat : n = Len(q) /\ k = Len(xs)
  OBVIOUS
<1>1. /\ q \o xs \in Seq(Int) /\ Len(q \o xs) = n + k
      /\ \A i \in 1..(n + k) : (q \o xs)[i] = IF i <= n THEN q[i] ELSE xs[i - n]
  BY <1>0, ConcatProperties
<1>2. at + n >= w /\ k <= b - n
  BY <1>0
<1>3. ASSUME NEW p \in 1..(n + k) PROVE (q \o xs)[p] = due(at, w, p)
  <2>1. CASE p <= n
    <3>1. (q \o xs)[p] = q[p] /\ p \in 1..Len(q)
      BY <1>0, <1>1, <2>1
    <3> QED
      BY <3>1 DEF InLine
  <2>2. CASE ~ (p <= n)
    <3>1. PICK i \in 1..k : i = p - n
      BY <2>2
    <3>2. (q \o xs)[p] = 0
      BY <1>0, <1>1, <2>2, <3>1
    <3>3. ~ (at + p <= w)
      BY <1>2, <2>2
    <3> QED
      BY <3>2, <3>3 DEF due, A!Silence
  <2> QED
    BY <2>1, <2>2
<1>4. at + (n + k) >= w /\ n + k <= b
  BY <1>2
<1> QED
  BY <1>0, <1>1, <1>3, <1>4 DEF InLine

\* What the queues hold, with names for it.
LEMMA QueueFields ==
    ASSUME AudioConstants, AudioInv, snd.api \in Queues
    PROVE  \E at \in Nat, w \in Nat, q \in Seq(Int), l \in Nat :
              /\ at = card.at /\ w = Written /\ q = card.queue /\ l = Len(q) /\ at <= w /\ at + l >= w /\ l <= Buf
              /\ InLine(q, at, w) /\ (~ snd.last => at + l = w) /\ (card.xrun => l = 0 /\ snd.api \in {"alsa", "sigio"})
              /\ ~ card.off /\ ~ card.bad /\ (player.pc = "done" => at = w)
<1>1. QueueAhead
  BY DEF AudioInv
<1>2. ~ card.off /\ card.at \in 0..Written /\ Written \in Int /\ ~ card.bad /\ (player.pc = "done" => card.at = Written)
  BY AudioFields DEF AudioInv, Heard, Queues
<1>3. card.queue \in Seq(Int) /\ Len(card.queue) \in Nat
  BY <1>1 DEF QueueAhead
<1>4. card.at \in Nat /\ Written \in Nat /\ card.at <= Written
  BY <1>2
<1>5. card.xrun => Len(card.queue) = 0 /\ snd.api \in {"alsa", "sigio"}
  BY <1>1, EmptySeq DEF QueueAhead
<1>6. /\ card.at + Len(card.queue) >= Written /\ Len(card.queue) <= Buf /\ InLine(card.queue, card.at, Written)
      /\ (~ snd.last => card.at + Len(card.queue) = Written)
  BY <1>1 DEF QueueAhead
<1> QED
  BY <1>2, <1>3, <1>4, <1>5, <1>6

\* A queue that was changed and is in line again.
LEMMA QueueInLine ==
    ASSUME AudioConstants, AudioInv, snd.api \in Queues, NEW at \in Nat, NEW w \in Nat, NEW q \in Seq(Int), NEW l \in Nat,
           at <= w, l = Len(q), at + l >= w, l <= Buf, InLine(q, at, w), ~ snd'.last => at + l = w,
           snd' \in Sounds, snd'.api = snd.api, card' \in Cards, player' \in Players, UserAt', Written' = w,
           card'.queue = q, card'.at = at, card'.bad = card.bad, card'.off = card.off, card'.xrun => q = << >> /\ snd.api \in {"alsa", "sigio"},
           player'.pc = "done" => at = w
    PROVE  AudioInv'
<1>1. ~ card.off /\ ~ card.bad
  BY DEF AudioInv, Heard, Queues
<1>2. at \in 0..w
  OBVIOUS
<1>3. Heard'
  BY <1>1, <1>2 DEF Heard
<1>4. QueueAhead'
  BY DEF QueueAhead
<1> QED
  BY <1>3, <1>4 DEF AudioInv, AudioTypes, Queues

\* A piece of what the user has is put into a queue.
LEMMA QueueWrites ==
    ASSUME AudioConstants, AudioInv, snd.api \in Queues, player.pc = "call", NEW k \in 0..player.len,
           k <= Buf - Len(card.queue),
           snd' \in Sounds, snd'.api = snd.api, snd'.last = snd.last,
           card' \in Cards, card'.queue = card.queue \o A!Some(k), card'.at = card.at, card'.bad = card.bad,
           card'.off = card.off, card'.xrun = FALSE,
           player' \in Players, UserAt', Written' = player.next + k - 1, player'.pc # "done"
    PROVE  AudioInv'
<1>1. ~ snd.last /\ player.n = 0
  BY DEF AudioInv, UserAt
<1>2. PICK at \in Nat, w \in Nat, q \in Seq(Int), l \in Nat :
          at = card.at /\ w = Written /\ q = card.queue /\ l = Len(q) /\ at + l = w /\ InLine(q, at, w)
  BY <1>1, QueueFields
<1>3. PICK b \in Nat, kk \in Nat : b = Buf /\ kk = k /\ kk <= b - l /\ w + kk = Written'
  <2>1. player.next \in Nat /\ player.len \in Nat /\ k \in Nat /\ Buf \in Nat /\ k <= Buf - l
    BY <1>2, AudioFields DEF AudioConstants
  <2>2. w + k = Written'
    BY <1>1, <1>2, <2>1 DEF Written
  <2> QED
    BY <2>1, <2>2
<1>4. PICK xs \in Seq(Int) : xs = A!Some(k) /\ Len(xs) = kk /\ \A i \in 1..kk : xs[i] = w + i
  <2>1. A!Some(k) \in Seq(Int) /\ Len(A!Some(k)) = k /\ \A i \in 1..k : A!Some(k)[i] = player.next + i - 1
    BY SomeSamples
  <2>2. \A i \in 1..kk : player.next + i - 1 = w + i
    BY <1>1, <1>2, AudioFields DEF Written
  <2> QED
    BY <1>3, <2>1, <2>2
<1>5. at + Len(q) = w /\ \A i \in 1..Len(xs) : xs[i] = w + i
  BY <1>2, <1>4
<1>6. q \o xs \in Seq(Int) /\ Len(q \o xs) = Len(q) + Len(xs) /\ InLine(q \o xs, at, w + Len(xs))
  BY <1>2, <1>5, Appending
<1>7. PICK qq \in Seq(Int) : qq = q \o xs
  BY <1>6
<1>8. PICK w1 \in Nat, ll \in Nat : w1 = w + kk /\ ll = l + kk
  OBVIOUS
<1>9. ll = Len(qq) /\ InLine(qq, at, w1) /\ w1 = Written'
  BY <1>2, <1>3, <1>4, <1>6, <1>7, <1>8
<1>10. at <= w1 /\ at + ll = w1 /\ at + ll >= w1 /\ ll <= b
  <2>1. at + l = w /\ at <= w
    BY <1>2
  <2> QED
    BY <1>3, <1>8, <2>1
<1>11. card'.queue = qq /\ card'.at = at
  BY <1>2, <1>4, <1>7
<1> QED
  BY <1>3, <1>9, <1>10, <1>11, QueueInLine

\* A full buffer takes nothing: the device is started and the user waits.
LEMMA NothingWritten ==
    ASSUME AudioConstants, AudioInv, snd.api \in Queues, player.pc = "call", snd' \in Sounds,
           snd'.api = snd.api, snd'.last = snd.last, snd'.rpos = snd.rpos, snd'.wpos = snd.wpos,
           snd'.isfull = snd.isfull, snd'.wbuf = snd.wbuf, snd'.actv = snd.actv,
           card' = [card EXCEPT !.run = TRUE], player' = A!After(0)
    PROVE  AudioInv'
<1>1. ~ snd.last /\ player.n = 0 /\ player.next + player.len <= Input + 1 /\ player.next \in Nat /\ player.len \in Nat
  BY AudioFields DEF AudioInv, UserAt
<1>2. player.next + 0 <= Input + 1 /\ 0 \in Nat /\ snd'.last = FALSE
  BY <1>1, AudioFields DEF AudioConstants
<1>3. /\ player' \in Players /\ UserAt' /\ Written' = player.next + 0 - 1 /\ player'.pc \in {"write", "async"}
  BY <1>2, AfterCall
<1>4. Written' = Written
  BY <1>1, <1>3 DEF Written
<1>5. card' \in Cards /\ card'.queue = card.queue /\ card'.xrun = card.xrun /\ card'.ring = card.ring
      /\ card'.pos = card.pos /\ card'.left = card.left /\ card'.at = card.at /\ card'.bad = card.bad
      /\ card'.off = card.off /\ card'.sig = card.sig
  BY AudioFields DEF Cards
<1>6. AudioTypes'
  BY <1>3, <1>5 DEF AudioTypes
<1> QED
  BY <1>3, <1>4, <1>5, <1>6, NothingMoves DEF Queues

\* What fits of a call.
LEMMA WhatFits ==
    ASSUME AudioConstants, AudioInv, snd.api \in Queues, player.pc = "call"
    PROVE  \E k \in Nat : /\ A!Min({player.len, A!Free}) = k /\ k <= player.len /\ k <= Buf - Len(card.queue)
                          /\ player.next + k <= Input + 1 /\ player.n = 0 /\ ~ snd.last
<1>1. QueueAhead /\ ~ snd.last /\ player.n = 0 /\ player.next + player.len <= Input + 1
  BY DEF AudioInv, UserAt
<1>2. PICK f \in Nat, l \in Nat, n \in Nat, input \in Nat :
          f = Buf - Len(card.queue) /\ l = player.len /\ n = player.next /\ input = Input /\ n + l <= input + 1
  <2>1. Len(card.queue) \in Nat /\ Len(card.queue) <= Buf /\ Buf \in Nat /\ Input \in Nat
    BY <1>1 DEF QueueAhead, AudioConstants
  <2>2. Buf - Len(card.queue) \in Nat
    BY <2>1
  <2> QED
    BY <1>1, <2>1, <2>2, AudioFields
<1>3. A!Min({player.len, A!Free}) = IF l <= f THEN l ELSE f
  BY <1>2, Lesser DEF A!Free
<1>4. PICK k \in Nat : k = IF l <= f THEN l ELSE f
  BY <1>2
<1>5. k <= l /\ k <= f /\ n + k <= input + 1
  BY <1>2, <1>4
<1> QED
  BY <1>1, <1>2, <1>3, <1>4, <1>5

\* The user's samples go to the queue, the call ends or goes on.
LEMMA WritesSome ==
    ASSUME AudioConstants, AudioInv, snd.api \in Queues, player.pc = "call", NEW k \in Nat,
           k <= player.len, k <= Buf - Len(card.queue), player.next + k <= Input + 1,
           snd' = snd, ~ card.xrun, NEW run \in BOOLEAN,
           card' = [card EXCEPT !.queue = card.queue \o A!Some(k), !.run = run],
           \/ player' = A!After(k)
           \/ k # player.len /\ player' = [player EXCEPT !.next = player.next + k, !.len = player.len - k]
    PROVE  AudioInv'
<1>1. ~ snd.last /\ player.n = 0 /\ player.next \in 1..(Input + 1) /\ player.next + player.len <= Input + 1
  BY DEF AudioInv, UserAt
<1>2. player \in Players /\ player.len \in Nat /\ player.next \in Nat /\ snd.last \in BOOLEAN
  BY AudioFields
<1>3. player' \in Players /\ UserAt' /\ Written' = player.next + k - 1 /\ player'.pc # "done"
  <2>1. CASE player' = A!After(k)
    <3>1. snd'.last = FALSE /\ snd'.api = snd.api
      BY <1>1, <1>2
    <3> QED
      BY <2>1, <3>1, AfterCall
  <2>2. CASE k # player.len /\ player' = [player EXCEPT !.next = player.next + k, !.len = player.len - k]
    <3>1. PICK a \in Nat, b \in Nat, n \in Nat, input \in Nat :
              a = player.next + k /\ b = player.len - k /\ n = player.next /\ input = Input /\ b > 0
      <4>1. player.len - k \in Nat /\ player.next + k \in Nat /\ Input \in Nat /\ player.len - k > 0
        <5>1. PICK c \in Nat, d \in Nat, j \in Nat : c = player.len /\ d = player.next /\ j = k /\ j <= c /\ j # c
          BY <1>2, <2>2
        <5>2. c - j \in Nat /\ d + j \in Nat /\ c - j > 0
          BY ONLY <5>1, c \in Nat, d \in Nat, j \in Nat
        <5> QED
          BY <5>1, <5>2 DEF AudioConstants
      <4> QED
        BY <1>2, <4>1
    <3>2. player' = [player EXCEPT !.next = a, !.len = b]
      BY <2>2, <3>1
    <3>3. player'.next = a /\ player'.len = b /\ player'.n = 0 /\ player'.pc = "call"
      BY <1>1, <1>2, <3>2 DEF Players
    <3>4. player' \in Players
      BY <1>2, <3>2 DEF Players
    <3>5. a \in 1..(Input + 1) /\ a + b <= Input + 1 /\ 0 <= b
      BY <1>1, <1>2, <3>1
    <3>6. UserAt'
      BY <1>1, <3>1, <3>3, <3>5 DEF UserAt
    <3>7. Written' = player.next + k - 1
      BY <1>2, <3>1, <3>3 DEF Written
    <3> QED
      BY <3>3, <3>4, <3>6, <3>7
  <2> QED
    BY <2>1, <2>2
<1>4. k \in 0..player.len
  BY <1>2
<1>5. A!Some(k) \in Seq(Int) /\ card.queue \in Seq(Int)
  BY <1>4, SomeSamples DEF AudioInv, QueueAhead
<1>6. PICK q \in Seq(Int) : q = card.queue \o A!Some(k)
  BY <1>5, ConcatProperties
<1>7. card' = [card EXCEPT !.queue = q, !.run = run] /\ card \in Cards
  BY <1>6, AudioFields
<1>8. card' \in Cards /\ card'.queue = q /\ card'.at = card.at /\ card'.bad = card.bad /\ card'.off = card.off
      /\ card'.xrun = card.xrun
  BY <1>7 DEF Cards
<1>9. card'.xrun = FALSE
  BY <1>7, <1>8 DEF Cards
<1>10. snd' \in Sounds
  BY AudioFields
<1> QED
  BY <1>3, <1>4, <1>6, <1>8, <1>9, <1>10, QueueWrites

\* A device that does not stop by itself.
LEMMA NotStopped ==
    ASSUME AudioInv, snd.api \in {"shared", "pulse", "oss"}
    PROVE  ~ card.xrun /\ card.run \in BOOLEAN
  BY AudioFields DEF AudioInv, QueueAhead, Queues

\* The writes of the queues: of WASAPI in shared mode,
LEMMA WriteShStep == ASSUME AudioConstants, AudioInv, A!write_sh PROVE AudioInv'
<1>1. snd.api = "shared" /\ player.pc = "call" /\ snd.api \in Queues
  BY DEF A!write_sh, A!Is, Queues
<1>2. CASE A!Free = 0
  <2>1. snd' = [snd EXCEPT !.started = TRUE] /\ card' = [card EXCEPT !.run = TRUE] /\ player' = A!After(0)
    BY <1>2 DEF A!write_sh
  <2>2. \A x \in Sounds : [x EXCEPT !.started = TRUE] \in Sounds
    BY DEF Sounds
  <2>3. /\ snd' \in Sounds /\ snd'.api = snd.api /\ snd'.last = snd.last /\ snd'.rpos = snd.rpos /\ snd'.wpos = snd.wpos
        /\ snd'.isfull = snd.isfull /\ snd'.wbuf = snd.wbuf /\ snd'.actv = snd.actv
    BY <2>1, <2>2, AudioFields DEF Sounds
  <2> QED
    BY <1>1, <2>1, <2>3, NothingWritten
<1>3. CASE A!Free # 0
  <2>1. PICK k \in Nat : /\ A!Min({player.len, A!Free}) = k /\ k <= player.len /\ k <= Buf - Len(card.queue)
                         /\ player.next + k <= Input + 1
    BY <1>1, WhatFits
  <2>2. snd' = snd /\ card' = [card EXCEPT !.queue = card.queue \o A!Some(k)] /\ player' = A!After(k)
    BY <1>3, <2>1 DEF A!write_sh
  <2>3. card' = [card EXCEPT !.queue = card.queue \o A!Some(k), !.run = card.run]
    BY <2>2, AudioFields DEF Cards
  <2>4. ~ card.xrun /\ card.run \in BOOLEAN
    BY <1>1, NotStopped
  <2> QED
    BY <1>1, <2>1, <2>2, <2>3, <2>4, WritesSome
<1> QED
  BY <1>2, <1>3

\* of PulseAudio,
LEMMA PulseWriteStep == ASSUME AudioConstants, AudioInv, A!pulse_write PROVE AudioInv'
<1>1. snd.api = "pulse" /\ player.pc = "call" /\ snd.api \in Queues /\ snd' = snd
  BY DEF A!pulse_write, A!Is, Queues
<1>2. CASE A!Free = 0
  <2>1. card' = [card EXCEPT !.run = TRUE] /\ player' = A!After(0)
    BY <1>2 DEF A!pulse_write
  <2> QED
    BY <1>1, <2>1, AudioFields, NothingWritten
<1>3. CASE A!Free # 0
  <2>1. PICK k \in Nat : /\ A!Min({player.len, A!Free}) = k /\ k <= player.len /\ k <= Buf - Len(card.queue)
                         /\ player.next + k <= Input + 1
    BY <1>1, WhatFits
  <2>2. /\ card' = [card EXCEPT !.queue = card.queue \o A!Some(k)]
        /\ player' = IF k = player.len THEN A!After(k) ELSE [player EXCEPT !.next = player.next + k, !.len = player.len - k]
    BY <1>3, <2>1 DEF A!pulse_write
  <2>3. card' = [card EXCEPT !.queue = card.queue \o A!Some(k), !.run = card.run]
    BY <2>2, AudioFields DEF Cards
  <2>4. ~ card.xrun /\ card.run \in BOOLEAN
    BY <1>1, NotStopped
  <2> QED
    BY <1>1, <2>1, <2>2, <2>3, <2>4, WritesSome
<1> QED
  BY <1>2, <1>3

\* of OSS,
LEMMA OssWriteStep == ASSUME AudioConstants, AudioInv, A!oss_write PROVE AudioInv'
<1>1. snd.api = "oss" /\ player.pc = "call" /\ snd.api \in Queues /\ snd' = snd
  BY DEF A!oss_write, A!Is, Queues
<1>2. PICK k \in Nat : /\ A!Min({player.len, A!Free}) = k /\ k <= player.len /\ k <= Buf - Len(card.queue)
                       /\ player.next + k <= Input + 1
  BY <1>1, WhatFits
<1>3. card' = [card EXCEPT !.queue = card.queue \o A!Some(k), !.run = TRUE] /\ player' = A!After(k)
  BY <1>2 DEF A!oss_write
<1>4. ~ card.xrun
  BY <1>1, NotStopped
<1> QED
  BY <1>1, <1>2, <1>3, <1>4, WritesSome

\* and of ALSA, which prepares the device again when it stopped.
LEMMA AlsaWriteStep == ASSUME AudioConstants, AudioInv, A!alsa_write PROVE AudioInv'
<1>1. player.pc = "call" /\ snd.api \in Queues /\ snd' = snd
  BY DEF A!alsa_write, Queues
<1>2. PICK k \in Nat : /\ A!Min({player.len, A!Free}) = k /\ k <= player.len /\ k <= Buf - Len(card.queue)
                       /\ player.next + k <= Input + 1
  BY <1>1, WhatFits
<1>3. CASE card.xrun
  <2>1. player' = player /\ card' = [card EXCEPT !.xrun = FALSE, !.queue = << >>]
    BY <1>3 DEF A!alsa_write, A!prepared
  <2>2. card.queue = << >>
    BY <1>1, <1>3 DEF AudioInv, QueueAhead
  <2>3. \A c \in Cards, q \in Seq(Int) : [c EXCEPT !.xrun = FALSE, !.queue = q] \in Cards
    BY DEF Cards
  <2>4. /\ card' \in Cards /\ card'.queue = card.queue /\ card'.xrun = FALSE /\ card'.at = card.at /\ card'.bad = card.bad
        /\ card'.off = card.off
    <3>1. << >> \in Seq(Int) /\ card \in Cards
      BY AudioFields, EmptySeq
    <3>2. card' \in Cards
      BY <2>1, <2>3, <3>1
    <3> QED
      BY <2>1, <2>2, <3>1, <3>2 DEF Cards
  <2>5. AudioTypes' /\ UserAt' /\ Heard' /\ QueueAhead'
    <3>1. Written' = Written
      BY <2>1 DEF Written
    <3>2. AudioTypes'
      BY <1>1, <2>1, <2>4 DEF AudioInv, AudioTypes
    <3>3. UserAt'
      BY <1>1, <2>1 DEF AudioInv, UserAt
    <3>4. Heard'
      BY <1>1, <2>1, <2>4, <3>1 DEF AudioInv, Heard
    <3>5. QueueAhead'
      BY <1>1, <2>1, <2>4, <3>1 DEF AudioInv, QueueAhead
    <3> QED
      BY <3>2, <3>3, <3>4, <3>5
  <2> QED
    BY <1>1, <2>5 DEF AudioInv, Queues
<1>4. CASE ~ card.xrun /\ A!Free = 0
  <2>1. card' = [card EXCEPT !.run = TRUE] /\ player' = A!After(0)
    BY <1>4 DEF A!alsa_write
  <2> QED
    BY <1>1, <2>1, AudioFields, NothingWritten
<1>5. CASE ~ card.xrun /\ A!Free # 0
  <2>2. /\ card' = [card EXCEPT !.queue = card.queue \o A!Some(k)]
        /\ player' = IF k = player.len THEN A!After(k) ELSE [player EXCEPT !.next = player.next + k, !.len = player.len - k]
    BY <1>2, <1>5 DEF A!alsa_write
  <2>3. card' = [card EXCEPT !.queue = card.queue \o A!Some(k), !.run = card.run] /\ card.run \in BOOLEAN
    BY <2>2, AudioFields DEF Cards
  <2> QED
    BY <1>1, <1>2, <1>5, <2>2, <2>3, WritesSome
<1> QED
  BY <1>3, <1>4, <1>5

\* The user goes to another place of the draining.
LEMMA DrainMoves ==
    ASSUME AudioConstants, AudioInv, player.pc = "drain", NEW x \in {"drain", "async", "wait", "done"}, A!To(x),
           snd'.api = snd.api
    PROVE  player' \in Players /\ UserAt' /\ Written' = Written /\ player'.pc = x
<1>1. /\ player' \in Players /\ player'.pc = x /\ player'.next = player.next /\ player'.len = player.len
      /\ player'.n = player.n /\ Written' = Written
  BY Moved
<1>2. player.next = Input + 1 /\ player.n = 0 /\ player.next \in 1..(Input + 1)
  BY DEF AudioInv, UserAt
<1>3. UserAt'
  BY <1>1, <1>2 DEF UserAt
<1> QED
  BY <1>1, <1>3

\* An empty queue was played to its end.
LEMMA QueueDone ==
    ASSUME AudioConstants, AudioInv, snd.api \in Queues, player.pc = "drain", card.queue = << >>, A!To("done"),
           snd' = snd, card' = card
    PROVE  AudioInv'
<1>1. player' \in Players /\ UserAt' /\ Written' = Written /\ player'.pc = "done"
  BY DrainMoves
<1>2. PICK at \in Nat, w \in Nat, q \in Seq(Int), l \in Nat :
              /\ at = card.at /\ w = Written /\ q = card.queue /\ l = Len(q) /\ at <= w /\ at + l >= w /\ l <= Buf
              /\ InLine(q, at, w) /\ (~ snd.last => at + l = w) /\ (card.xrun => l = 0 /\ snd.api \in {"alsa", "sigio"})
  BY QueueFields
<1>3. l = 0 /\ at = w
  <2>1. l = 0
    BY <1>2, EmptySeq
  <2> QED
    BY <1>2, <2>1
<1>4. snd' \in Sounds /\ card' \in Cards
  BY AudioFields
<1> QED
  BY <1>1, <1>2, <1>3, <1>4, QueueInLine

\* Draining goes on, and silence may be put behind the last sample.
LEMMA QueueDrains ==
    ASSUME AudioConstants, AudioInv, snd.api \in Queues, player.pc = "drain", NEW x \in {"drain", "async"}, A!To(x),
           snd' \in Sounds, snd'.api = snd.api, snd'.last = TRUE,
           card' \in Cards, card'.at = card.at, card'.bad = card.bad, card'.off = card.off, card'.xrun = card.xrun,
           ~ card.xrun,
           \/ card'.queue = card.queue
           \/ card'.queue = card.queue \o [i \in 1..(Buf - Len(card.queue)) |-> A!Silence]
    PROVE  AudioInv'
<1>1. player' \in Players /\ UserAt' /\ Written' = Written /\ player'.pc = x
  BY DrainMoves
<1>2. PICK at \in Nat, w \in Nat, q \in Seq(Int), l \in Nat :
              /\ at = card.at /\ w = Written /\ q = card.queue /\ l = Len(q) /\ at <= w /\ at + l >= w /\ l <= Buf
              /\ InLine(q, at, w) /\ (~ snd.last => at + l = w) /\ (card.xrun => l = 0 /\ snd.api \in {"alsa", "sigio"})
  BY QueueFields
<1>3. CASE card'.queue = card.queue
  BY <1>1, <1>2, <1>3, QueueInLine
<1>4. CASE card'.queue = card.queue \o [i \in 1..(Buf - Len(card.queue)) |-> A!Silence]
  <2>1. PICK k \in Nat, b \in Nat : k = Buf - Len(card.queue) /\ b = Buf /\ k = b - l
    <3>1. Buf \in Nat /\ Buf - l \in Nat
      BY <1>2 DEF AudioConstants
    <3> QED
      BY <1>2, <3>1
  <2>2. PICK xs \in Seq(Int) : xs = [i \in 1..k |-> A!Silence] /\ Len(xs) = k /\ \A i \in 1..k : xs[i] = 0
    <3>1. /\ [i \in 1..k |-> A!Silence] \in Seq(Int)
          /\ Len([i \in 1..k |-> A!Silence]) = IF k >= 0 THEN k ELSE 0
          /\ \A i \in 1..k : [j \in 1..k |-> A!Silence][i] = 0
      <4>1. k \in Int
        OBVIOUS
      <4> QED
        BY ONLY <4>1, SilentSamples
    <3>2. k >= 0
      OBVIOUS
    <3> QED
      BY <3>1, <3>2
  <2>7. at + Len(q) >= w /\ Len(xs) <= b - Len(q) /\ InLine(q, at, w) /\ at <= w /\ \A i \in 1..Len(xs) : xs[i] = 0
    <3>1. k <= b - l
      BY <2>1
    <3> QED
      BY <1>2, <2>2, <3>1
  <2>3. q \o xs \in Seq(Int) /\ InLine(q \o xs, at, w) /\ at + Len(q \o xs) >= w /\ Len(q \o xs) <= b
    BY <2>7, Silencing
  <2>4. PICK q1 \in Seq(Int) : q1 = q \o xs
    BY <2>3
  <2>6. PICK l1 \in Nat : l1 = Len(q1)
    OBVIOUS
  <2>5. card'.queue = q1
    BY <1>2, <1>4, <2>1, <2>2, <2>4
  <2> QED
    BY <1>1, <1>2, <2>1, <2>3, <2>4, <2>5, <2>6, QueueInLine
<1> QED
  BY <1>3, <1>4

\* A call that did not find the buffer empty.
LEMMA DrainedFalse ==
    ASSUME A!Drained(FALSE)
    PROVE  \E x \in {"drain", "async"} : A!To(x)
  BY DEF A!Drained

\* The queues are drained: by WASAPI in shared mode,
LEMMA StoplazyShStep == ASSUME AudioConstants, AudioInv, A!stoplazy_sh PROVE AudioInv'
<1>1. snd.api = "shared" /\ player.pc = "drain" /\ snd.api \in Queues
  BY DEF A!stoplazy_sh, A!Is, Queues
<1>2. CASE card.queue = << >>
  BY <1>1, <1>2, QueueDone DEF A!stoplazy_sh, A!Drained
<1>3. CASE card.queue # << >>
  <2>1. /\ snd' = [snd EXCEPT !.last = TRUE, !.started = TRUE] /\ A!Drained(FALSE)
        /\ card' = [card EXCEPT !.run = TRUE, !.queue = IF snd.last THEN card.queue
                                                        ELSE card.queue \o [i \in 1..A!Free |-> A!Silence]]
    BY <1>3 DEF A!stoplazy_sh
  <2>2. ~ card.xrun
    BY <1>1, NotStopped
  <2>3. \A y \in Sounds : [y EXCEPT !.last = TRUE, !.started = TRUE] \in Sounds
    BY DEF Sounds
  <2>4. snd' \in Sounds /\ snd'.api = snd.api /\ snd'.last = TRUE
    BY <2>1, <2>3, AudioFields DEF Sounds
  <2>5. card.queue \in Seq(Int) /\ card.queue \o [i \in 1..A!Free |-> A!Silence] \in Seq(Int)
    <3>1. card.queue \in Seq(Int) /\ A!Free \in Int
      BY <1>1 DEF AudioInv, QueueAhead, A!Free, AudioConstants
    <3> QED
      BY <3>1, SilentSamples, ConcatProperties
  <2>6. PICK q \in Seq(Int) : q = IF snd.last THEN card.queue ELSE card.queue \o [i \in 1..A!Free |-> A!Silence]
    BY <2>5
  <2>7. card' = [card EXCEPT !.run = TRUE, !.queue = q]
    BY <2>1, <2>6
  <2>8. \A c \in Cards : [c EXCEPT !.run = TRUE, !.queue = q] \in Cards
    BY DEF Cards
  <2>9. /\ card' \in Cards /\ card'.at = card.at /\ card'.bad = card.bad /\ card'.off = card.off
        /\ card'.xrun = card.xrun /\ card'.queue = q
    BY <2>7, <2>8, AudioFields DEF Cards
  <2>10. PICK x \in {"drain", "async"} : A!To(x)
    BY <2>1, DrainedFalse
  <2>11. card'.queue = card.queue \/ card'.queue = card.queue \o [i \in 1..(Buf - Len(card.queue)) |-> A!Silence]
    BY <2>6, <2>9 DEF A!Free
  <2> QED
    BY <1>1, <2>2, <2>4, <2>9, <2>10, <2>11, QueueDrains
<1> QED
  BY <1>2, <1>3

\* by ALSA,
LEMMA AlsaStoplazyStep == ASSUME AudioConstants, AudioInv, A!alsa_stoplazy PROVE AudioInv'
<1>1. player.pc = "drain" /\ snd.api \in Queues
  BY DEF A!alsa_stoplazy, Queues
<1>2. CASE card.xrun \/ card.queue = << >>
  <2>1. card.queue = << >>
    BY <1>1, <1>2 DEF AudioInv, QueueAhead
  <2> QED
    BY <1>1, <1>2, <2>1, QueueDone DEF A!alsa_stoplazy, A!Drained
<1>3. CASE ~ (card.xrun \/ card.queue = << >>)
  <2>1. /\ snd' = [snd EXCEPT !.last = TRUE] /\ A!Drained(FALSE)
        /\ card' = IF snd.last THEN card ELSE [card EXCEPT !.queue = card.queue \o [i \in 1..A!Free |-> A!Silence], !.run = TRUE]
    BY <1>3 DEF A!alsa_stoplazy
  <2>3. \A y \in Sounds : [y EXCEPT !.last = TRUE] \in Sounds
    BY DEF Sounds
  <2>4. snd' \in Sounds /\ snd'.api = snd.api /\ snd'.last = TRUE
    BY <2>1, <2>3, AudioFields DEF Sounds
  <2>5. card.queue \o [i \in 1..A!Free |-> A!Silence] \in Seq(Int)
    <3>1. card.queue \in Seq(Int) /\ A!Free \in Int
      BY <1>1 DEF AudioInv, QueueAhead, A!Free, AudioConstants
    <3> QED
      BY <3>1, SilentSamples, ConcatProperties
  <2>6. PICK q \in Seq(Int) : q = card.queue \o [i \in 1..A!Free |-> A!Silence]
    BY <2>5
  <2>7. card' = IF snd.last THEN card ELSE [card EXCEPT !.queue = q, !.run = TRUE]
    BY <2>1, <2>6
  <2>8. \A c \in Cards : [c EXCEPT !.queue = q, !.run = TRUE] \in Cards
    BY DEF Cards
  <2>9. /\ card' \in Cards /\ card'.at = card.at /\ card'.bad = card.bad /\ card'.off = card.off
        /\ card'.xrun = card.xrun /\ card'.queue \in {card.queue, q}
    BY <2>7, <2>8, AudioFields DEF Cards
  <2>10. PICK x \in {"drain", "async"} : A!To(x)
    BY <2>1, DrainedFalse
  <2>11. card'.queue = card.queue \/ card'.queue = card.queue \o [i \in 1..(Buf - Len(card.queue)) |-> A!Silence]
    BY <2>6, <2>9 DEF A!Free
  <2> QED
    BY <1>1, <1>3, <2>4, <2>9, <2>10, <2>11, QueueDrains
<1> QED
  BY <1>2, <1>3

\* by PulseAudio,
LEMMA PulseDrainStep == ASSUME AudioConstants, AudioInv, A!pulse_drain PROVE AudioInv'
<1>1. snd.api = "pulse" /\ player.pc = "drain" /\ snd.api \in Queues
  BY DEF A!pulse_drain, A!Is, Queues
<1>2. CASE card.queue = << >>
  BY <1>1, <1>2, QueueDone DEF A!pulse_drain, A!Drained
<1>3. CASE card.queue # << >>
  <2>1. snd' = [snd EXCEPT !.last = TRUE] /\ A!Drained(FALSE) /\ card' = card
    BY <1>3 DEF A!pulse_drain
  <2>2. ~ card.xrun
    BY <1>1, NotStopped
  <2>3. snd' \in Sounds /\ snd'.api = snd.api /\ snd'.last = TRUE
    BY <2>1, AudioFields DEF Sounds
  <2>4. /\ card' \in Cards /\ card'.at = card.at /\ card'.bad = card.bad /\ card'.off = card.off
        /\ card'.xrun = card.xrun /\ card'.queue = card.queue
    BY <2>1, AudioFields DEF Cards
  <2>5. PICK x \in {"drain", "async"} : A!To(x)
    BY <2>1, DrainedFalse
  <2> QED
    BY <1>1, <2>2, <2>3, <2>4, <2>5, QueueDrains
<1> QED
  BY <1>2, <1>3

\* and by OSS, whose call returns when all was played.
LEMMA OssDrainStep == ASSUME AudioConstants, AudioInv, A!oss_drain PROVE AudioInv'
<1>1. snd.api \in Queues /\ player.pc = "drain" /\ card.queue = << >> /\ A!To("done") /\ snd' = snd /\ card' = card
  BY DEF A!oss_drain, A!Is, A!Drained, Queues
<1> QED
  BY <1>1, QueueDone

-----------------------------------------------------------------------------
\* The buffers of the exclusive device and their events, while nothing was cleared.
LEMMA EventsCounted ==
    ASSUME AudioInv, snd.api = "excl", ~ card.off
    PROVE  Len(card.queue) + snd.evt + One(card.sig) <= snd.actv \/ JustCleared
  BY DEF AudioInv, BuffersAhead

\* The user has a next piece, or begins to drain.
LEMMA CallStep == ASSUME AudioConstants, AudioInv, A!Call PROVE AudioInv'
<1>1. snd' = snd /\ card' = card /\ player.pc = "write" /\ player.n = 0 /\ ~ snd.last /\ player.next \in 1..(Input + 1)
  BY DEF A!Call, AudioInv, UserAt
<1>2. player \in Players /\ player.next \in Nat /\ Input \in Nat /\ Chunk \in Nat
  BY AudioFields DEF AudioConstants
<1>3. player' \in Players /\ UserAt' /\ Written' = Written /\ player'.pc \in {"call", "drain"}
  <2>1. CASE player.next > Input
    <3>1. A!To("drain")
      BY <2>1 DEF A!Call
    <3>2. player' \in Players /\ player'.pc = "drain" /\ player'.next = player.next /\ player'.n = player.n /\ Written' = Written
      BY <3>1, Moved
    <3>3. player.next = Input + 1
      BY <1>1, <1>2, <2>1
    <3>4. UserAt'
      BY <1>1, <3>2, <3>3 DEF UserAt
    <3> QED
      BY <3>2, <3>4
  <2>2. CASE ~ (player.next > Input)
    <3>1. PICK n \in 1..A!Min({Chunk, Input - player.next + 1}) : player' = [player EXCEPT !.pc = "call", !.len = n]
      BY <2>2 DEF A!Call
    <3>2. n \in Nat /\ n > 0 /\ player.next + n <= Input + 1
      <4>1. PICK a \in Nat, b \in Nat, i \in Nat : a = Chunk /\ b = Input - player.next + 1 /\ i = player.next /\ i + b = Input + 1
        <5>1. Input - player.next + 1 \in Nat
          BY <1>2, <2>2
        <5>2. player.next + (Input - player.next + 1) = Input + 1
          BY <1>2
        <5> QED
          BY <1>2, <5>1, <5>2
      <4>2. A!Min({a, b}) = IF a <= b THEN a ELSE b
        BY Lesser
      <4>3. n \in 1..A!Min({a, b})
        BY <4>1
      <4>4. n \in Nat /\ n > 0 /\ n <= b
        BY <4>2, <4>3
      <4>5. i + n <= Input + 1
        BY <1>2, <4>1, <4>4
      <4> QED
        BY <4>1, <4>4, <4>5
    <3>3. player'.pc = "call" /\ player'.next = player.next /\ player'.n = player.n /\ player'.len = n
      BY <1>2, <3>1 DEF Players
    <3>4. player' \in Players
      BY <1>2, <3>1, <3>2 DEF Players
    <3>5. UserAt'
      BY <1>1, <3>2, <3>3 DEF UserAt
    <3> QED
      BY <3>3, <3>4, <3>5 DEF Written
  <2> QED
    BY <2>1, <2>2
<1>4. AudioTypes'
  BY <1>1, <1>3, AudioFields DEF AudioTypes
<1>5. snd.api = "excl" /\ ~ card.off => Len(card.queue) + snd'.evt + One(card'.sig) <= snd.actv \/ JustCleared'
  BY <1>1, <1>3, EventsCounted DEF JustCleared
<1> QED
  BY <1>1, <1>3, <1>4, <1>5, NothingMoves

\* Where the user goes on when it is woken, or need not wait.
LEMMA GoesOn ==
    ASSUME AudioConstants, AudioInv, player.pc \in {"async", "async2", "wait"}, snd'.api = snd.api, snd'.last = snd.last,
           \/ player' = [player EXCEPT !.pc = IF player.next > Input THEN "drain" ELSE "write"]
           \/ player' = [player EXCEPT !.pc = "wait"]
           \/ player' = [player EXCEPT !.pc = "async2"]
    PROVE  player' \in Players /\ UserAt' /\ Written' = Written /\ player'.pc \in {"drain", "write", "wait", "async2"}
<1>1. player.n = 0 /\ player.next \in 1..(Input + 1) /\ (snd.last => player.next = Input + 1)
  BY DEF AudioInv, UserAt
<1>2. player.next \in Nat /\ Input \in Nat
  BY AudioFields DEF AudioConstants
<1>3. player.next > Input <=> player.next = Input + 1
  BY <1>1, <1>2
<1>4. PICK x \in {"drain", "write", "wait", "async2"} :
         A!To(x) /\ (x = "drain" => player.next = Input + 1) /\ (x = "write" => player.next # Input + 1)
  BY <1>3 DEF A!To
<1>5. player' \in Players /\ player'.pc = x /\ player'.next = player.next /\ player'.n = player.n /\ Written' = Written
  BY <1>4, Moved
<1>6. UserAt'
  BY <1>1, <1>4, <1>5 DEF UserAt
<1> QED
  BY <1>5, <1>6

\* The user waits, or takes an event that was kept for it.
LEMMA AsyncSteps == ASSUME AudioConstants, AudioInv, A!async \/ A!asyncTest \/ A!asyncSet PROVE AudioInv'
<1>1. card' = card /\ player.pc \in {"async", "async2"}
  BY DEF A!async, A!asyncTest, A!asyncSet, A!Is
<1>2. snd' = snd \/ snd' = [snd EXCEPT !.cb = FALSE] \/ snd' = [snd EXCEPT !.cbw = TRUE]
  BY DEF A!async, A!asyncTest, A!asyncSet
<1>3. /\ snd' \in Sounds /\ snd'.api = snd.api /\ snd'.last = snd.last /\ snd'.rpos = snd.rpos /\ snd'.wpos = snd.wpos
      /\ snd'.isfull = snd.isfull /\ snd'.wbuf = snd.wbuf /\ snd'.actv = snd.actv /\ snd'.evt = snd.evt
  BY <1>2, AudioFields DEF Sounds
<1>4. \/ player' = [player EXCEPT !.pc = IF player.next > Input THEN "drain" ELSE "write"]
      \/ player' = [player EXCEPT !.pc = "wait"]
      \/ player' = [player EXCEPT !.pc = "async2"]
  BY DEF A!async, A!asyncTest, A!asyncSet, A!To
<1>5. player' \in Players /\ UserAt' /\ Written' = Written /\ player'.pc \in {"drain", "write", "wait", "async2"}
  BY <1>1, <1>3, <1>4, GoesOn
<1>6. snd.api = "excl" /\ ~ card.off => Len(card.queue) + snd'.evt + One(card'.sig) <= snd.actv
  BY <1>1, <1>3, EventsCounted DEF JustCleared
<1>7. AudioTypes'
  BY <1>1, <1>3, <1>5, AudioFields DEF AudioTypes
<1> QED
  BY <1>1, <1>3, <1>5, <1>6, <1>7, NothingMoves

\* The handler of an event wakes the user, or is remembered.
LEMMA WakeSteps == ASSUME AudioConstants, AudioInv, A!onplay_excl \/ A!callback PROVE AudioInv'
<1>1. /\ card.sig /\ card' = [card EXCEPT !.sig = FALSE] /\ A!Wake /\ snd.api \in {"excl", "alsa", "sigio", "pulse"}
      /\ snd' = IF snd.api = "excl" THEN A!notified([snd EXCEPT !.evt = snd.evt + 1]) ELSE A!notified(snd)
  BY DEF A!onplay_excl, A!callback
<1>2. PICK e \in Nat : e = IF snd.api = "excl" THEN snd.evt + 1 ELSE snd.evt
  BY AudioFields DEF Sounds
<1>3. \/ snd' = [snd EXCEPT !.evt = e, !.cbw = FALSE]
      \/ snd' = [snd EXCEPT !.evt = e, !.cb = TRUE]
  <2>1. CASE snd.api = "excl"
    <3>1. snd' = A!notified([snd EXCEPT !.evt = e])
      BY <1>1, <1>2, <2>1
    <3>2. /\ [[snd EXCEPT !.evt = e] EXCEPT !.cbw = FALSE] = [snd EXCEPT !.evt = e, !.cbw = FALSE]
          /\ [[snd EXCEPT !.evt = e] EXCEPT !.cb = TRUE] = [snd EXCEPT !.evt = e, !.cb = TRUE]
      OBVIOUS
    <3> QED
      BY <3>1, <3>2 DEF A!notified
  <2>2. CASE snd.api # "excl"
    <3>1. snd' = A!notified(snd) /\ e = snd.evt
      BY <1>1, <1>2, <2>2
    <3>2. /\ [snd EXCEPT !.cbw = FALSE] = [snd EXCEPT !.evt = e, !.cbw = FALSE]
          /\ [snd EXCEPT !.cb = TRUE] = [snd EXCEPT !.evt = e, !.cb = TRUE]
      BY <3>1, AudioFields DEF Sounds
    <3> QED
      BY <3>1, <3>2 DEF A!notified
  <2> QED
    BY <2>1, <2>2
<1>4. \A y \in Sounds : [y EXCEPT !.evt = e, !.cbw = FALSE] \in Sounds /\ [y EXCEPT !.evt = e, !.cb = TRUE] \in Sounds
  BY DEF Sounds
<1>5. /\ snd' \in Sounds /\ snd'.api = snd.api /\ snd'.last = snd.last /\ snd'.rpos = snd.rpos /\ snd'.wpos = snd.wpos
      /\ snd'.isfull = snd.isfull /\ snd'.wbuf = snd.wbuf /\ snd'.actv = snd.actv /\ snd'.evt = e
  <2>1. snd' \in Sounds /\ snd \in Sounds
    BY <1>3, <1>4, AudioFields
  <2> QED
    BY <1>3, <2>1 DEF Sounds
<1>6. /\ player' \in Players /\ UserAt' /\ Written' = Written
      /\ player'.pc = player.pc \/ player'.pc \in {"drain", "write", "wait", "async2"}
  <2>1. CASE player' = player
    <3>1. UserAt'
      BY <1>5, <2>1 DEF AudioInv, UserAt
    <3> QED
      BY <2>1, <3>1, AudioFields DEF Written
  <2>2. CASE player' # player
    <3>1. player.pc = "wait" /\ player' = [player EXCEPT !.pc = IF player.next > Input THEN "drain" ELSE "write"]
      BY <1>1, <2>2 DEF A!Wake, A!Woken
    <3> QED
      BY <1>5, <3>1, GoesOn
  <2> QED
    BY <2>1, <2>2
<1>7. /\ card' \in Cards /\ card'.queue = card.queue /\ card'.xrun = card.xrun /\ card'.ring = card.ring
      /\ card'.pos = card.pos /\ card'.left = card.left /\ card'.at = card.at /\ card'.bad = card.bad
      /\ card'.off = card.off /\ card'.sig = FALSE /\ card'.run = card.run
  BY <1>1, AudioFields DEF Cards
<1>8. snd.api = "excl" /\ ~ card.off => Len(card.queue) + snd'.evt + One(card'.sig) <= snd.actv
  <2> SUFFICES ASSUME snd.api = "excl", ~ card.off PROVE Len(card.queue) + snd'.evt + One(card'.sig) <= snd.actv
    OBVIOUS
  <2>1. Len(card.queue) + snd.evt + 1 <= snd.actv
    BY <1>1, EventsCounted DEF JustCleared, One
  <2>2. card.queue \in Seq(Seq(Int)) /\ Len(card.queue) \in Nat /\ snd.evt \in Nat /\ snd.actv \in Nat
    BY AudioFields DEF AudioInv, BuffersAhead, Sounds
  <2>3. snd'.evt = snd.evt + 1 /\ One(card'.sig) = 0
    BY <1>2, <1>5, <1>7 DEF One
  <2> QED
    BY <2>1, <2>2, <2>3
<1>9. AudioTypes'
  BY <1>5, <1>6, <1>7 DEF AudioTypes
<1>10. player.pc = "paused" /\ snd.api = "excl" => ~ card.run
  BY DEF AudioInv, BuffersAhead
<1> QED
  BY <1>1, <1>5, <1>6, <1>7, <1>8, <1>9, <1>10, NothingMoves

\* The user stops the device: OSS drops what it has, and what is written next is what is due,
LEMMA OssPauseStep == ASSUME AudioConstants, AudioInv, A!Pause, snd.api = "oss" PROVE AudioInv'
<1>1. /\ player.pc = "write" /\ snd' = [snd EXCEPT !.started = FALSE]
      /\ player' = [player EXCEPT !.pc = "paused", !.clears = player.clears + 1]
      /\ card' = [card EXCEPT !.run = FALSE, !.queue = << >>, !.at = player.next - 1]
  BY DEF A!Pause
<1>2. player.n = 0 /\ ~ snd.last /\ player.next \in 1..(Input + 1)
  BY <1>1 DEF AudioInv, UserAt
<1>3. /\ snd' \in Sounds /\ snd'.api = "oss" /\ snd'.last = FALSE
  BY <1>1, <1>2, AudioFields DEF Sounds
<1>4. player' \in Players /\ player'.pc = "paused" /\ player'.next = player.next /\ player'.n = player.n
  <2>1. player \in Players /\ player.clears + 1 \in Nat
    BY AudioFields DEF Players
  <2>2. \A y \in Players, c \in Nat : [y EXCEPT !.pc = "paused", !.clears = c] \in Players
    BY DEF Players
  <2>3. player' \in Players
    BY <1>1, <2>1, <2>2
  <2> QED
    BY <1>1, <2>1, <2>3 DEF Players
<1>5. PICK w \in Nat : w = Written /\ w = player.next - 1
  <2>1. player.next \in Nat /\ player.next >= 1 /\ Input \in Nat
    BY <1>2, AudioFields DEF AudioConstants
  <2>2. player.next - 1 \in Nat /\ Written = player.next - 1
    BY <1>2, <2>1 DEF Written
  <2> QED
    BY <2>2
<1>6. UserAt' /\ Written' = Written
  BY <1>2, <1>3, <1>4 DEF UserAt, Written
<1>7. /\ card' \in Cards /\ card'.queue = << >> /\ card'.at = w /\ card'.bad = card.bad
      /\ card'.off = card.off /\ card'.xrun = card.xrun
  <2>1. \A c \in Cards, q \in Seq(Int), x \in Int : [c EXCEPT !.run = FALSE, !.queue = q, !.at = x] \in Cards
    BY DEF Cards
  <2>2. card' = [card EXCEPT !.run = FALSE, !.queue = << >>, !.at = w]
    BY <1>1, <1>5
  <2>3. << >> \in Seq(Int) /\ card \in Cards /\ w \in Int
    BY AudioFields, EmptySeq
  <2>4. [card EXCEPT !.run = FALSE, !.queue = << >>, !.at = w] \in Cards
    BY ONLY <2>1, <2>3, Zenon
  <2> QED
    BY <2>2, <2>3, <2>4 DEF Cards
<1>10. card'.at = w /\ Written' = w /\ card'.off = card.off /\ card'.bad = card.bad
  BY <1>5, <1>6, <1>7, Zenon
<1>8. AudioTypes' /\ Heard'
  <2>1. AudioTypes'
    BY <1>3, <1>4, <1>7 DEF AudioTypes
  <2>2. ~ card.off /\ ~ card.bad
    BY DEF AudioInv, Heard
  <2>3. ~ card'.off /\ ~ card'.bad /\ card'.at \in 0..Written' /\ player'.pc # "done"
    <3>1. w \in 0..w
      OBVIOUS
    <3>2. player'.pc # "done"
      BY <1>4
    <3> QED
      BY ONLY <1>10, <2>2, <3>1, <3>2, Zenon
  <2> QED
    BY <2>1, <2>3 DEF Heard
<1>9. QueueAhead'
  <2>1. ~ card.xrun
    BY DEF AudioInv, QueueAhead, Queues
  <2>2. card'.queue \in Seq(Int) /\ Len(card'.queue) = 0 /\ InLine(card'.queue, card'.at, Written')
    BY <1>7 DEF InLine
  <2>3. w + 0 = w /\ w + 0 >= w /\ 0 <= Buf
    BY DEF AudioConstants
  <2>4. card'.at + Len(card'.queue) = Written' /\ card'.at + Len(card'.queue) >= Written' /\ Len(card'.queue) <= Buf
    BY ONLY <1>10, <2>2, <2>3, Zenon
  <2> QED
    BY <1>7, <2>1, <2>2, <2>4 DEF QueueAhead
<1> QED
  BY <1>3, <1>6, <1>8, <1>9 DEF AudioInv

\* the others keep it,
LEMMA PauseStep == ASSUME AudioConstants, AudioInv, A!Pause, snd.api # "oss" PROVE AudioInv'
<1>1. /\ player.pc = "write" /\ card.run
      /\ card' = [card EXCEPT !.run = FALSE]
      /\ player' = [player EXCEPT !.pc = "paused", !.clears = player.clears + 1]
      /\ snd' = [snd EXCEPT !.cb = FALSE, !.cbw = FALSE, !.started = FALSE] \/ snd' = [snd EXCEPT !.started = FALSE]
  BY DEF A!Pause, A!stopped
<1>2. player.n = 0 /\ ~ snd.last /\ player.next \in 1..(Input + 1)
  BY <1>1 DEF AudioInv, UserAt
<1>3. \A y \in Sounds : /\ [y EXCEPT !.cb = FALSE, !.cbw = FALSE, !.started = FALSE] \in Sounds
                        /\ [y EXCEPT !.started = FALSE] \in Sounds
  BY DEF Sounds
<1>4. /\ snd' \in Sounds /\ snd'.api = snd.api /\ snd'.last = snd.last /\ snd'.rpos = snd.rpos /\ snd'.wpos = snd.wpos
      /\ snd'.isfull = snd.isfull /\ snd'.wbuf = snd.wbuf /\ snd'.actv = snd.actv /\ snd'.evt = snd.evt
  <2>1. snd' \in Sounds /\ snd \in Sounds
    BY <1>1, <1>3, AudioFields
  <2> QED
    BY <1>1, <2>1 DEF Sounds
<1>5. PICK run \in BOOLEAN : card' = [card EXCEPT !.run = run] /\ ~ run
  BY <1>1
<1>6. /\ card' \in Cards /\ card'.queue = card.queue /\ card'.xrun = card.xrun /\ card'.ring = card.ring
      /\ card'.pos = card.pos /\ card'.left = card.left /\ card'.at = card.at /\ card'.bad = card.bad
      /\ card'.off = card.off /\ card'.sig = card.sig /\ card'.run = run
  BY <1>5, AudioFields DEF Cards
<1>7. player' \in Players /\ player'.pc = "paused" /\ player'.next = player.next /\ player'.n = player.n
  <2>1. player \in Players /\ player.clears + 1 \in Nat
    BY AudioFields DEF Players
  <2>2. \A y \in Players, c \in Nat : [y EXCEPT !.pc = "paused", !.clears = c] \in Players
    BY DEF Players
  <2>3. player' \in Players
    BY <1>1, <2>1, <2>2
  <2> QED
    BY <1>1, <2>1, <2>3 DEF Players
<1>8. UserAt' /\ Written' = Written
  BY <1>2, <1>4, <1>7 DEF UserAt, Written
<1>9. snd.api = "excl" /\ ~ card.off => Len(card.queue) + snd'.evt + One(card'.sig) <= snd.actv
  BY <1>1, <1>4, <1>6, EventsCounted DEF JustCleared
<1>10. AudioTypes'
  BY <1>4, <1>6, <1>7 DEF AudioTypes
<1> QED
  BY <1>4, <1>5, <1>6, <1>7, <1>8, <1>9, <1>10, NothingMoves

\* starts it again,
LEMMA ResumeStep == ASSUME AudioConstants, AudioInv, A!Resume PROVE AudioInv'
<1>1. /\ player.pc = "paused" /\ snd' = [snd EXCEPT !.started = TRUE] /\ A!To("write")
      /\ card' = [card EXCEPT !.run = snd.api # "oss" /\ ~ card.xrun]
  BY DEF A!Resume
<1>2. player.n = 0 /\ ~ snd.last /\ player.next \in 1..(Input + 1)
  BY <1>1 DEF AudioInv, UserAt
<1>3. player' \in Players /\ player'.pc = "write" /\ player'.next = player.next /\ player'.n = player.n /\ Written' = Written
  BY <1>1, Moved
<1>4. /\ snd' \in Sounds /\ snd'.api = snd.api /\ snd'.last = snd.last /\ snd'.rpos = snd.rpos /\ snd'.wpos = snd.wpos
      /\ snd'.isfull = snd.isfull /\ snd'.wbuf = snd.wbuf /\ snd'.actv = snd.actv /\ snd'.evt = snd.evt
  BY <1>1, AudioFields DEF Sounds
<1>5. PICK run \in BOOLEAN : card' = [card EXCEPT !.run = run]
  BY <1>1
<1>6. /\ card' \in Cards /\ card'.queue = card.queue /\ card'.xrun = card.xrun /\ card'.ring = card.ring
      /\ card'.pos = card.pos /\ card'.left = card.left /\ card'.at = card.at /\ card'.bad = card.bad
      /\ card'.off = card.off /\ card'.sig = card.sig
  BY <1>5, AudioFields DEF Cards
<1>7. UserAt'
  BY <1>2, <1>3, <1>4 DEF UserAt
<1>8. snd.api = "excl" /\ ~ card.off => Len(card.queue) + snd'.evt + One(card'.sig) <= snd.actv
  BY <1>1, <1>4, <1>6, EventsCounted DEF JustCleared
<1>9. AudioTypes'
  BY <1>3, <1>4, <1>6 DEF AudioTypes
<1> QED
  BY <1>3, <1>4, <1>6, <1>7, <1>8, <1>9, NothingMoves

\* or clears what was written: nothing is in line then, and what is written next is what is due.
LEMMA ClearStep == ASSUME AudioConstants, AudioInv, A!Clear PROVE AudioInv'
<1>1. /\ player.pc = "paused" /\ A!To("write")
      /\ snd' = [snd EXCEPT !.actv = 0, !.wbuf = << >>, !.last = IF snd.api = "dsound" THEN snd.last ELSE FALSE,
                            !.rpos = 0, !.wpos = 0, !.isfull = FALSE]
      /\ card' = [card EXCEPT !.queue = << >>, !.pos = 0, !.left = 0, !.at = player.next - 1,
                              !.off = @ \/ (card.sig /\ snd.api \in A!Counting)]
  BY DEF A!Clear
<1>2. player.n = 0 /\ ~ snd.last /\ player.next \in 1..(Input + 1)
  BY <1>1 DEF AudioInv, UserAt
<1>3. player' \in Players /\ player'.pc = "write" /\ player'.next = player.next /\ player'.n = player.n /\ Written' = Written
  BY <1>1, Moved
<1>4. PICK w \in Nat : w = Written /\ w = player.next - 1
  <2>1. player.next \in Nat /\ player.next >= 1 /\ Input \in Nat
    BY <1>2, AudioFields DEF AudioConstants
  <2>2. player.next - 1 \in Nat /\ Written = player.next - 1
    BY <1>2, <2>1 DEF Written
  <2> QED
    BY <2>2
<1>5. 0 \in Positions /\ Buf \in Nat /\ Buf > 0
  BY DEF AudioConstants, Positions
<1>6. snd' = [snd EXCEPT !.actv = 0, !.wbuf = << >>, !.last = FALSE, !.rpos = 0, !.wpos = 0, !.isfull = FALSE]
  BY <1>1, <1>2, AudioFields
<1>7. /\ snd' \in Sounds /\ snd'.api = snd.api /\ snd'.last = FALSE /\ snd'.rpos = 0 /\ snd'.wpos = 0
      /\ snd'.isfull = FALSE /\ snd'.wbuf = << >> /\ snd'.actv = 0 /\ snd'.evt = snd.evt
  <2>1. \A y \in Sounds, q \in Seq(Int) : [y EXCEPT !.actv = 0, !.wbuf = q, !.last = FALSE, !.rpos = 0, !.wpos = 0, !.isfull = FALSE] \in Sounds
    BY <1>5 DEF Sounds
  <2>2. << >> \in Seq(Int) /\ snd \in Sounds
    BY AudioFields, EmptySeq
  <2>3. snd' \in Sounds
    BY <1>6, <2>1, <2>2
  <2> QED
    BY <1>6, <2>2, <2>3 DEF Sounds
<1> DEFINE off == card.off \/ (card.sig /\ snd.api \in A!Counting)
<1>16. /\ off \in BOOLEAN /\ (off => card.off \/ snd.api \in {"excl", "dsound"})
       /\ ~ off => ~ card.off /\ (snd.api \in {"excl", "dsound"} => ~ card.sig)
  BY AudioFields DEF A!Counting
<1>17. card' = [card EXCEPT !.queue = << >>, !.pos = 0, !.left = 0, !.at = player.next - 1, !.off = off]
  BY <1>1
<1> HIDE DEF off
<1>8. /\ card' \in Cards /\ card'.queue = << >> /\ card'.pos = 0 /\ card'.left = 0 /\ card'.at = w /\ card'.bad = card.bad
      /\ card'.off = off /\ card'.sig = card.sig /\ card'.run = card.run /\ card'.xrun = card.xrun
  <2>1. \A c \in Cards, q \in Seq(Int), p \in Positions, x \in Int, y \in Int, b \in BOOLEAN :
            [c EXCEPT !.queue = q, !.pos = p, !.left = x, !.at = y, !.off = b] \in Cards
    BY DEF Cards
  <2>2. card' = [card EXCEPT !.queue = << >>, !.pos = 0, !.left = 0, !.at = w, !.off = off]
    BY <1>4, <1>17
  <2>3. << >> \in Seq(Int) /\ card \in Cards
    BY AudioFields, EmptySeq
  <2>5. 0 \in Int /\ w \in Int
    OBVIOUS
  <2>6. [card EXCEPT !.queue = << >>, !.pos = 0, !.left = 0, !.at = w, !.off = off] \in Cards
    BY ONLY <1>5, <1>16, <2>1, <2>3, <2>5, Zenon
  <2>4. card' \in Cards
    BY <2>2, <2>6
  <2> QED
    BY <1>1, <2>2, <2>3, <2>4 DEF Cards
<1>9. AudioTypes'
  BY <1>3, <1>7, <1>8 DEF AudioTypes
<1>10. UserAt'
  BY <1>2, <1>3, <1>7 DEF UserAt
<1>11. Heard'
  <2>1. Heard /\ (~ off => ~ card.off)
    BY <1>16 DEF AudioInv
  <2>2. ~ card'.bad /\ (card'.off => snd'.api \in {"excl", "dsound"}) /\ player'.pc # "done" /\ card'.at \in 0..Written'
    BY <1>3, <1>4, <1>7, <1>8, <1>16, <2>1 DEF Heard
  <2> QED
    BY <2>2 DEF Heard
<1>12. snd'.api \in Queues => QueueAhead'
  <2> SUFFICES ASSUME snd.api \in Queues PROVE QueueAhead'
    BY <1>7
  <2>1. card.xrun => snd.api \in {"alsa", "sigio"}
    BY DEF AudioInv, QueueAhead
  <2>2. card'.queue \in Seq(Int) /\ Len(card'.queue) = 0 /\ InLine(card'.queue, card'.at, Written')
    BY <1>8 DEF InLine
  <2>3. card'.at + Len(card'.queue) = Written' /\ Written' >= Written' /\ Len(card'.queue) <= Buf
    BY <1>3, <1>4, <1>5, <1>8, <2>2
  <2> QED
    BY <1>7, <1>8, <2>1, <2>2, <2>3 DEF QueueAhead
<1>13. snd'.api = "coreaudio" => CoreAhead'
  BY <1>3, <1>4, <1>5, <1>7, <1>8 DEF CoreAhead, RingLine, A!canread
<1>14. snd'.api = "dsound" => RingAhead'
  <2> SUFFICES ASSUME snd.api = "dsound", ~ card'.off PROVE RingAhead'
    BY <1>7 DEF RingAhead
  <2>1. ~ card'.sig
    BY <1>8, <1>16
  <2> QED
    BY <1>3, <1>4, <1>5, <1>7, <1>8, <2>1 DEF RingAhead, RingLine, A!dsnd_filled, One
<1>15. snd'.api = "excl" => BuffersAhead'
  <2> SUFFICES ASSUME snd.api = "excl" PROVE BuffersAhead'
    BY <1>7
  <2>1. ~ card.run
    BY <1>1 DEF AudioInv, BuffersAhead
  <2>2. ~ card'.off => JustCleared'
    BY <1>3, <1>7, <1>8, <1>16, <2>1 DEF JustCleared
  <2>3. card'.queue \in Seq(Seq(Int)) /\ Len(card'.queue) = 0 /\ Len(snd'.wbuf) = 0
    BY <1>7, <1>8
  <2>4. Line' = << >> /\ Len(Line') = 0
    BY <1>7, <2>3 DEF Line, LineOf
  <2>5. InLine(Line', card'.at, Written') /\ card'.at + Len(Line') = Written' /\ Written' >= Written'
    BY <1>3, <1>4, <1>8, <2>4 DEF InLine
  <2> QED
    BY <1>3, <1>4, <1>5, <1>7, <1>8, <2>2, <2>3, <2>5 DEF BuffersAhead
<1> QED
  BY <1>9, <1>10, <1>11, <1>12, <1>13, <1>14, <1>15 DEF AudioInv

-----------------------------------------------------------------------------
\* Positions in a ring.
LEMMA Wrap ==
    ASSUME NEW b \in Nat \ {0}, NEW a \in Int
    PROVE  /\ a % b \in 0..(b - 1)
           /\ a \in 0..(b - 1) => a % b = a
           /\ a \in b..(2 * b - 1) => a % b = a - b
           /\ a \in (-b)..(-1) => a % b = a + b
<1>1. a % b \in 0..(b - 1)
  OBVIOUS
<1>2. ASSUME a \in 0..(b - 1) PROVE a % b = a
  BY <1>2
<1>3. ASSUME a \in b..(2 * b - 1) PROVE a % b = a - b
  <2>1. PICK m \in Nat : a = b + m /\ m < b
    BY <1>3
  <2>2. (b + m) % b = m
    BY <2>1
  <2> QED
    BY <2>1, <2>2
<1>4. ASSUME a \in (-b)..(-1) PROVE a % b = a + b
  <2>1. PICK m \in Nat : m = a + b /\ m < b
    BY <1>4
  <2>2. (m - b) % b = m /\ a = m - b
    BY <2>1
  <2> QED
    BY <2>1, <2>2
<1> QED
  BY <1>1, <1>2, <1>3, <1>4

\* The place that is l further, at most once round.
LEMMA RingPlace ==
    ASSUME NEW b \in Nat \ {0}, NEW r \in 0..(b - 1), NEW l \in 0..b
    PROVE  (r + l) % b \in 0..(b - 1) /\ (r + l) % b = IF r + l < b THEN r + l ELSE r + l - b
<1>1. PICK a \in Int : a = r + l /\ (a < b => a \in 0..(b - 1)) /\ (~ (a < b) => a \in b..(2 * b - 1))
  OBVIOUS
<1>2. a % b \in 0..(b - 1) /\ (a \in 0..(b - 1) => a % b = a) /\ (a \in b..(2 * b - 1) => a % b = a - b)
  BY Wrap
<1>3. a % b \in 0..(b - 1) /\ a % b = IF a < b THEN a ELSE a - b
  BY <1>1, <1>2
<1> QED
  BY <1>1, <1>3

\* Samples that are put behind the l samples that were not read yet.
Filled(b, ring, w, xs) == [i \in 0..(b - 1) |-> LET k == (i - w) % b IN IF k < Len(xs) THEN xs[k + 1] ELSE ring[i]]
LEMMA FilledType ==
    ASSUME NEW b \in Nat \ {0}, NEW ring \in [0..(b - 1) -> Int], NEW w \in 0..(b - 1), NEW xs \in Seq(Int)
    PROVE  Filled(b, ring, w, xs) \in [0..(b - 1) -> Int]
<1> SUFFICES ASSUME NEW i \in 0..(b - 1) PROVE (LET k == (i - w) % b IN IF k < Len(xs) THEN xs[k + 1] ELSE ring[i]) \in Int
  BY DEF Filled
<1>1. PICK c \in 0..(b - 1) : c = (i - w) % b
  <2>1. i - w \in Int
    OBVIOUS
  <2> QED
    BY <2>1, Wrap
<1>2. c < Len(xs) => c + 1 \in 1..Len(xs)
  OBVIOUS
<1>3. c < Len(xs) => xs[c + 1] \in Int
  BY <1>2
<1>4. ring[i] \in Int
  OBVIOUS
<1> QED
  BY <1>1, <1>3, <1>4

\* Two moves round the ring are one.
LEMMA RingSum ==
    ASSUME NEW b \in Nat \ {0}, NEW r \in 0..(b - 1), NEW l \in 0..b, NEW n \in Nat, l + n <= b
    PROVE  (((r + l) % b) + n) % b = (r + (l + n)) % b
<1>1. PICK w : w = (r + l) % b
  OBVIOUS
<1>2. w \in 0..(b - 1) /\ w = IF r + l < b THEN r + l ELSE r + l - b
  BY <1>1, RingPlace
<1>3. l + n \in 0..b /\ n \in 0..b
  OBVIOUS
<1>4. (w + n) % b = IF w + n < b THEN w + n ELSE w + n - b
  BY <1>2, <1>3, RingPlace
<1>5. (r + (l + n)) % b = IF r + (l + n) < b THEN r + (l + n) ELSE r + (l + n) - b
  BY <1>3, RingPlace
<1>6. PICK x, y : x = (w + n) % b /\ y = (r + (l + n)) % b
  OBVIOUS
<1>7. x = IF w + n < b THEN w + n ELSE w + n - b
  BY <1>4, <1>6
<1>8. y = IF r + (l + n) < b THEN r + (l + n) ELSE r + (l + n) - b
  BY <1>5, <1>6
<1>9. b \in Nat \ {0} /\ r \in 0..(b - 1) /\ l \in 0..b /\ n \in Nat /\ l + n <= b
  OBVIOUS
<1>10. x = y
  BY ONLY <1>2, <1>7, <1>8, <1>9
<1> QED
  BY <1>1, <1>6, <1>10

RingHas(b, ring, r, l, at, w) ==
    /\ b \in Nat \ {0} /\ ring \in [0..(b - 1) -> Int] /\ r \in 0..(b - 1) /\ l \in 0..b
    /\ at \in Nat /\ w \in Nat /\ at <= w /\ RingLine(b, ring, r, l, at, w)
ComesNext(xs, w, w1) == xs \in Seq(Int) /\ w1 \in Nat /\ w <= w1 /\ InLine(xs, w, w1)
LEMMA RingTakes ==
    ASSUME NEW b, NEW ring, NEW r, NEW l, NEW at, NEW w0, RingHas(b, ring, r, l, at, w0), at + l = w0,
           NEW xs, NEW w1, ComesNext(xs, w0, w1), l + Len(xs) <= b
    PROVE  /\ Filled(b, ring, (r + l) % b, xs) \in [0..(b - 1) -> Int]
           /\ RingLine(b, Filled(b, ring, (r + l) % b, xs), r, l + Len(xs), at, w1)
           /\ (((r + l) % b) + Len(xs)) % b = (r + (l + Len(xs))) % b
<1>0. /\ b \in Nat \ {0} /\ ring \in [0..(b - 1) -> Int] /\ r \in 0..(b - 1) /\ l \in 0..b
      /\ at \in Nat /\ w0 \in Nat /\ RingLine(b, ring, r, l, at, w0)
      /\ xs \in Seq(Int) /\ w1 \in Nat /\ w0 <= w1 /\ InLine(xs, w0, w1)
  BY DEF RingHas, ComesNext
<1> USE <1>0
<1>30. b \in Nat \ {0} /\ r \in 0..(b - 1) /\ l \in 0..b
  OBVIOUS
<1> DEFINE n == Len(xs)
           w == (r + l) % b
           ring2 == Filled(b, ring, w, xs)
           g(p) == due(at, w1, p)
<1>20. n \in Nat /\ l + n <= b /\ n = Len(xs)
  OBVIOUS
<1>21. w = (r + l) % b /\ ring2 = Filled(b, ring, w, xs) /\ ring2 = [i \in 0..(b - 1) |-> LET k == (i - w) % b IN IF k < n THEN xs[k + 1] ELSE ring[i]]
  BY DEF Filled
<1>22. \A p \in 1..l : ring[(r + p - 1) % b] = g(p)
  <2> SUFFICES ASSUME NEW p \in 1..l PROVE ring[(r + p - 1) % b] = due(at, w1, p)
    OBVIOUS
  <2>1. ring[(r + p - 1) % b] = due(at, w0, p)
    BY DEF RingLine
  <2>2. at + p <= w0 /\ at + p <= w1
    OBVIOUS
  <2> QED
    BY <2>1, <2>2 DEF due
<1>23. \A i \in 1..n : xs[i] = g(l + i)
  <2> SUFFICES ASSUME NEW i \in 1..n PROVE xs[i] = due(at, w1, l + i)
    OBVIOUS
  <2>1. xs[i] = due(w0, w1, i)
    BY DEF InLine
  <2>2. w0 + i = at + (l + i)
    BY <1>20
  <2> QED
    BY <2>1, <2>2 DEF due
<1> HIDE DEF n, w, ring2, g
<1>1. w \in 0..(b - 1) /\ w = IF r + l < b THEN r + l ELSE r + l - b
  BY <1>21, RingPlace
<1>2. ring2 \in [0..(b - 1) -> Int]
  <2>1. w \in 0..(b - 1)
    BY <1>1
  <2>2. Filled(b, ring, w, xs) \in [0..(b - 1) -> Int]
    BY <2>1, FilledType
  <2> QED
    BY <1>21, <2>2
<1>5. ASSUME NEW q \in 0..b, NEW i, i = (r + q) % b
      PROVE  /\ q < l => (i - w) % b = q - l + b
             /\ q >= l /\ q - l # b => (i - w) % b = q - l
  <2>9. i \in 0..(b - 1) /\ i = IF r + q < b THEN r + q ELSE r + q - b
    BY <1>5, RingPlace
  <2>0. i - w \in Int /\ (i - w = q - l \/ i - w = q - l + b \/ i - w = q - l - b)
    BY ONLY <1>30, <1>1, <2>9, q \in 0..b
  <2>1. PICK a \in Int : a = i - w /\ (a = q - l \/ a = q - l + b \/ a = q - l - b)
    BY <2>0
  <2>2. /\ a % b \in 0..(b - 1) /\ (a \in 0..(b - 1) => a % b = a) /\ (a \in (-b)..(-1) => a % b = a + b)
    BY Wrap
  <2>3. a \in 0..(b - 1) \/ a \in (-b)..(-1)
    BY ONLY <1>30, <2>1, <1>1, <2>9
  <2>4. PICK c \in 0..(b - 1) : c = a % b
    BY <2>2
  <2>5. c = a \/ c = a + b
    BY <2>2, <2>3, <2>4
  <2>6. c = IF q < l THEN q - l + b ELSE IF q - l = b THEN 0 ELSE q - l
    BY ONLY <1>30, <2>1, <2>5, c \in 0..(b - 1), a \in Int, q \in 0..b
  <2>7. (q < l => c = q - l + b) /\ (q >= l /\ q - l # b => c = q - l)
    BY ONLY <1>30, <2>6, q \in 0..b
  <2>8. c = (i - w) % b
    BY ONLY <1>30, <2>1, <2>4
  <2> QED
    BY ONLY <1>30, <2>7, <2>8
<1>3. ASSUME NEW p \in 1..(l + n) PROVE ring2[(r + p - 1) % b] = g(p)
  <2>1. PICK i \in 0..(b - 1) : i = (r + p - 1) % b /\ i = IF r + (p - 1) < b THEN r + (p - 1) ELSE r + (p - 1) - b
    <3>1. p - 1 \in 0..b /\ r + (p - 1) = r + p - 1
      BY <1>20
    <3> QED
      BY <3>1, RingPlace
  <2>2. PICK k \in 0..(b - 1) : k = (i - w) % b
    <3>1. i - w \in Int
      BY <1>1
    <3> QED
      BY <3>1, Wrap
  <2>3. ring2[i] = IF k < n THEN xs[k + 1] ELSE ring[i]
    BY <1>21, <2>2
  <2>6. (p - 1 < l => (i - w) % b = p - 1 - l + b) /\ (p - 1 >= l /\ p - 1 - l # b => (i - w) % b = p - 1 - l)
    <3>1. PICK q \in 0..b : q = p - 1
      BY <1>20
    <3>2. r + q = r + p - 1
      BY <3>1
    <3>3. i = (r + q) % b
      BY <2>1, <3>2
    <3>4. (q < l => (i - w) % b = q - l + b) /\ (q >= l /\ q - l # b => (i - w) % b = q - l)
      BY <1>5, <3>3
    <3> QED
      BY <3>1, <3>4
  <2>4. CASE p <= l
    <3>1. k = p - 1 - l + b
      BY <1>20, <2>2, <2>4, <2>6
    <3>2. ~ (k < n) /\ p \in 1..l
      BY <1>20, <2>4, <3>1
    <3> QED
      BY <1>22, <2>1, <2>3, <3>2
  <2>5. CASE ~ (p <= l)
    <3>1. k = p - 1 - l
      <4>1. p - 1 >= l /\ p - 1 - l # b
        BY <1>20, <2>5
      <4> QED
        BY <2>2, <2>6, <4>1
    <3>2. k < n /\ k + 1 \in 1..n /\ l + (k + 1) = p
      BY <1>20, <2>5, <3>1
    <3> QED
      BY <1>23, <2>1, <2>3, <3>2
  <2> QED
    BY <2>4, <2>5
<1>4. (w + n) % b = (r + (l + n)) % b
  BY <1>20, <1>21, RingSum
<1>6. RingLine(b, ring2, r, l + n, at, w1)
  BY <1>3 DEF RingLine, g
<1> QED
  BY <1>2, <1>4, <1>6, <1>20, <1>21

\* The first m of them are read: samples that were due, and then silence.
LEMMA RingGives ==
    ASSUME NEW b, NEW ring, NEW r, NEW l, NEW at, NEW w, RingHas(b, ring, r, l, at, w), NEW m \in 0..l
    PROVE  /\ (r + m) % b \in 0..(b - 1)
           /\ RingLine(b, ring, (r + m) % b, l - m, IF at + m <= w THEN at + m ELSE w, w)
           /\ (((r + m) % b) + (l - m)) % b = (r + l) % b
           /\ \A p \in 1..m : ring[(r + p - 1) % b] = due(at, w, p)
<1>0. /\ b \in Nat \ {0} /\ r \in 0..(b - 1) /\ l \in 0..b
      /\ at \in Nat /\ w \in Nat /\ at <= w /\ RingLine(b, ring, r, l, at, w)
  BY DEF RingHas
<1> USE <1>0
<1>1. (r + m) % b \in 0..(b - 1) /\ (r + m) % b = IF r + m < b THEN r + m ELSE r + m - b
  <2>1. m \in 0..b
    OBVIOUS
  <2> QED
    BY ONLY <1>0, <2>1, RingPlace
<1>2. ASSUME NEW p \in 1..(l - m) PROVE ring[(((r + m) % b) + p - 1) % b] = due(at, w, p + m)
  <2>1. p + m \in 1..l /\ p - 1 \in 0..b /\ p + m - 1 \in 0..b
    OBVIOUS
  <2>2. PICK s \in 0..(b - 1) : s = (r + m) % b /\ s = IF r + m < b THEN r + m ELSE r + m - b
    BY <1>1
  <2>3. (s + (p - 1)) % b = IF s + (p - 1) < b THEN s + (p - 1) ELSE s + (p - 1) - b
    BY <2>1, RingPlace
  <2>4. (r + (p + m - 1)) % b = IF r + (p + m - 1) < b THEN r + (p + m - 1) ELSE r + (p + m - 1) - b
    BY <2>1, RingPlace
  <2>8. PICK x, y : x = (s + (p - 1)) % b /\ y = (r + (p + m - 1)) % b
    OBVIOUS
  <2>10. x = IF s + (p - 1) < b THEN s + (p - 1) ELSE s + (p - 1) - b
    BY <2>3, <2>8
  <2>11. y = IF r + (p + m - 1) < b THEN r + (p + m - 1) ELSE r + (p + m - 1) - b
    BY <2>4, <2>8
  <2>9. x = y
    BY ONLY <1>0, <2>2, <2>10, <2>11, m \in 0..l, p \in 1..(l - m)
  <2>5. (s + (p - 1)) % b = (r + (p + m - 1)) % b
    BY <2>8, <2>9
  <2>6. s + p - 1 = s + (p - 1) /\ r + (p + m) - 1 = r + (p + m - 1)
    OBVIOUS
  <2>7. ring[(r + (p + m) - 1) % b] = due(at, w, p + m)
    BY <2>1 DEF RingLine
  <2> QED
    BY <2>2, <2>5, <2>6, <2>7
<1>3. (((r + m) % b) + (l - m)) % b = (r + l) % b
  <2>1. PICK s \in 0..(b - 1) : s = (r + m) % b /\ s = IF r + m < b THEN r + m ELSE r + m - b
    BY <1>1
  <2>2. l - m \in 0..b
    OBVIOUS
  <2>3. (s + (l - m)) % b = IF s + (l - m) < b THEN s + (l - m) ELSE s + (l - m) - b
    BY <2>2, RingPlace
  <2>4. (r + l) % b = IF r + l < b THEN r + l ELSE r + l - b
    BY RingPlace
  <2>6. PICK x, y : x = (s + (l - m)) % b /\ y = (r + l) % b
    OBVIOUS
  <2>7. x = IF s + (l - m) < b THEN s + (l - m) ELSE s + (l - m) - b
    BY <2>3, <2>6
  <2>8. y = IF r + l < b THEN r + l ELSE r + l - b
    BY <2>4, <2>6
  <2>9. x = y
    BY ONLY <1>0, <2>1, <2>7, <2>8, m \in 0..l
  <2>5. (s + (l - m)) % b = (r + l) % b
    BY <2>6, <2>9
  <2> QED
    BY <2>1, <2>5
<1>4. ASSUME NEW p \in 1..(l - m) PROVE due(at, w, p + m) = due(IF at + m <= w THEN at + m ELSE w, w, p)
  <2>1. p \in Nat /\ p > 0 /\ m \in Nat
    OBVIOUS
  <2>2. CASE at + m <= w
    BY <2>1, <2>2 DEF due
  <2>3. CASE ~ (at + m <= w)
    <3>1. ~ (at + (p + m) <= w) /\ ~ (w + p <= w)
      BY <2>1, <2>3
    <3> QED
      BY <2>3, <3>1 DEF due
  <2> QED
    BY <2>2, <2>3
<1>5. RingLine(b, ring, (r + m) % b, l - m, IF at + m <= w THEN at + m ELSE w, w)
  BY <1>2, <1>4 DEF RingLine
<1>6. \A p \in 1..m : ring[(r + p - 1) % b] = due(at, w, p)
  BY DEF RingLine
<1> QED
  BY <1>1, <1>3, <1>5, <1>6

\* What can be read and written.
LEMMA RingRoom ==
    ASSUME NEW b \in Nat \ {0}, NEW r \in 0..(b - 1), NEW w \in 0..(b - 1)
    PROVE  /\ (w - r) % b \in 0..(b - 1) /\ w = (r + ((w - r) % b)) % b
           /\ (r - w - 1) % b = b - 1 - ((w - r) % b)
<1>0. PICK l : l = (w - r) % b
  OBVIOUS
<1>1. w - r \in Int /\ (w - r \in 0..(b - 1) \/ w - r \in (-b)..(-1))
  OBVIOUS
<1>2. l \in 0..(b - 1) /\ (l = w - r \/ l = w - r + b)
  BY <1>0, <1>1, Wrap
<1>3. w = (r + l) % b
  <2>1. l \in 0..b
    BY <1>2
  <2>2. (r + l) % b = IF r + l < b THEN r + l ELSE r + l - b
    BY <2>1, RingPlace
  <2> QED
    BY <1>2, <2>2
<1>4. (r - w - 1) % b = b - 1 - l
  <2>1. PICK a \in Int : a = r - w - 1 /\ (a \in 0..(b - 1) \/ a \in (-b)..(-1))
    OBVIOUS
  <2>2. a % b \in 0..(b - 1) /\ (a \in 0..(b - 1) => a % b = a) /\ (a \in (-b)..(-1) => a % b = a + b)
    BY Wrap
  <2>3. PICK c \in 0..(b - 1) : c = a % b
    BY <2>2
  <2>4. c = a \/ c = a + b
    BY <2>1, <2>2, <2>3
  <2>5. c = b - 1 - l
    BY ONLY <1>2, <2>1, <2>4, b \in Nat \ {0}, r \in 0..(b - 1), w \in 0..(b - 1), c \in 0..(b - 1)
  <2> QED
    BY <2>1, <2>3, <2>5
<1> QED
  BY <1>0, <1>2, <1>3, <1>4

\* How far a place is behind another.
LEMMA RingReads ==
    ASSUME NEW b \in Nat \ {0}, NEW r \in 0..(b - 1), NEW l \in 0..(b - 1), NEW w, w = (r + l) % b
    PROVE  (w - r) % b = l
<1>1. w \in 0..(b - 1) /\ w = IF r + l < b THEN r + l ELSE r + l - b
  <2>1. l \in 0..b
    OBVIOUS
  <2> QED
    BY <2>1, RingPlace
<1>2. PICK a \in Int : a = w - r /\ (a = l \/ a = l - b)
  BY <1>1
<1>3. a \in 0..(b - 1) \/ a \in (-b)..(-1)
  BY <1>2
<1>4. (a \in 0..(b - 1) => a % b = a) /\ (a \in (-b)..(-1) => a % b = a + b)
  BY Wrap
<1>5. a % b = l
  BY <1>2, <1>3, <1>4
<1> QED
  BY <1>2, <1>5

\* put() at a position of the ring.
LEMMA PutFields ==
    ASSUME AudioConstants, NEW dd \in Cards, NEW xs \in Seq(Int), NEW pos \in Positions
    PROVE  /\ A!put(dd, pos, xs) = [dd EXCEPT !.left = dd.left + Len(xs), !.ring = Filled(Buf, dd.ring, pos, xs)]
           /\ A!put(dd, pos, xs) \in Cards
<1>1. A!put(dd, pos, xs) = [dd EXCEPT !.left = dd.left + Len(xs), !.ring = Filled(Buf, dd.ring, pos, xs)]
  BY DEF A!put, Filled
<1>2. \A c \in Cards, x \in Int, y \in [Positions -> Int] : [c EXCEPT !.left = x, !.ring = y] \in Cards
  BY DEF Cards
<1>3. PICK x \in Int : x = dd.left + Len(xs)
  BY DEF Cards
<1>4. PICK y \in [Positions -> Int] : y = Filled(Buf, dd.ring, pos, xs)
  <2>1. PICK b \in Nat \ {0} : b = Buf
    BY DEF AudioConstants
  <2>2. Positions = 0..(b - 1) /\ dd.ring \in [0..(b - 1) -> Int] /\ pos \in 0..(b - 1)
    BY <2>1 DEF Positions, Cards
  <2>3. Filled(b, dd.ring, pos, xs) \in [0..(b - 1) -> Int]
    BY <2>2, FilledType
  <2> QED
    BY <2>1, <2>2, <2>3
<1>5. [dd EXCEPT !.left = x, !.ring = y] \in Cards
  BY <1>2
<1> QED
  BY <1>1, <1>3, <1>4, <1>5

\* What CoreAudio's ring holds.
CoreNumbers ==
    /\ card.left \in 0..(Buf - 1) /\ card.at \in Nat /\ Written \in Nat /\ card.at + card.left = Written
    /\ snd.rpos \in 0..(Buf - 1) /\ snd.wpos \in 0..(Buf - 1) /\ Buf \in Nat \ {0} /\ Positions = 0..(Buf - 1)
LEMMA CoreFields ==
    ASSUME AudioConstants, AudioInv, snd.api = "coreaudio"
    PROVE  /\ CoreNumbers
           /\ snd.wpos = (snd.rpos + card.left) % Buf
           /\ A!canread(snd) = card.left /\ A!canwrite(snd) = Buf - 1 - card.left
           /\ RingHas(Buf, card.ring, snd.rpos, card.left, card.at, Written)
           /\ ~ card.off /\ ~ card.bad
<1>1. CoreAhead /\ ~ card.off /\ card.at \in 0..Written /\ Written \in Int /\ ~ card.bad
  BY AudioFields DEF AudioInv, Heard
<1>2. Buf \in Nat \ {0} /\ Positions = 0..(Buf - 1)
  BY DEF AudioConstants, Positions
<1>3. snd.rpos \in 0..(Buf - 1) /\ snd.wpos \in 0..(Buf - 1) /\ card.ring \in [0..(Buf - 1) -> Int]
  BY <1>2, AudioFields DEF Sounds, Cards
<1>4. card.left = (snd.wpos - snd.rpos) % Buf
  BY <1>1 DEF CoreAhead, A!canread
<1>5. card.left \in 0..(Buf - 1) /\ snd.wpos = (snd.rpos + card.left) % Buf
      /\ (snd.rpos - snd.wpos - 1) % Buf = Buf - 1 - card.left
  <2>1. PICK b \in Nat \ {0} : b = Buf
    BY <1>2
  <2>2. PICK r \in 0..(b - 1), v \in 0..(b - 1) : r = snd.rpos /\ v = snd.wpos
    BY <1>3, <2>1
  <2>4. /\ (v - r) % b \in 0..(b - 1) /\ v = (r + ((v - r) % b)) % b
        /\ (r - v - 1) % b = b - 1 - ((v - r) % b)
    BY ONLY b \in Nat \ {0}, r \in 0..(b - 1), v \in 0..(b - 1), RingRoom
  <2> QED
    BY <1>4, <2>1, <2>2, <2>4
<1>6. card.at \in Nat /\ Written \in Nat
  BY <1>1
<1>7. card.left \in 0..Buf /\ card.at <= Written /\ card.at + card.left = Written
  BY <1>1, <1>2, <1>5 DEF CoreAhead
<1>8. CoreNumbers
  BY <1>2, <1>3, <1>5, <1>6, <1>7 DEF CoreNumbers
<1>9. RingHas(Buf, card.ring, snd.rpos, card.left, card.at, Written)
  BY <1>1, <1>2, <1>3, <1>6, <1>7 DEF CoreAhead, RingHas
<1> QED
  BY <1>1, <1>4, <1>5, <1>8, <1>9 DEF A!canread, A!canwrite

\* A ring of CoreAudio that was changed and is in line again.
LEMMA CoreInLine ==
    ASSUME AudioConstants, AudioInv, snd.api = "coreaudio", snd' \in Sounds, snd'.api = snd.api,
           card' \in Cards, card'.bad = card.bad, card'.off = card.off, player' \in Players, UserAt',
           card'.left \in 0..(Buf - 1), card'.at \in Nat, Written' \in Nat, card'.at + card'.left = Written',
           snd'.wpos = (snd'.rpos + card'.left) % Buf,
           RingLine(Buf, card'.ring, snd'.rpos, card'.left, card'.at, Written'),
           player'.pc = "done" => card'.at = Written'
    PROVE  AudioInv'
<1>1. ~ card.off /\ ~ card.bad
  BY DEF AudioInv, Heard
<1>2. card'.at \in 0..Written'
  OBVIOUS
<1>3. Heard'
  BY <1>1, <1>2 DEF Heard
<1>4. A!canread(snd)' = card'.left
  <2>1. PICK b \in Nat \ {0} : b = Buf
    BY DEF AudioConstants
  <2>2. PICK r \in 0..(b - 1), l \in 0..(b - 1) : r = snd'.rpos /\ l = card'.left
    BY <2>1 DEF Sounds, Positions
  <2>3. PICK v : v = (r + l) % b
    OBVIOUS
  <2>4. (v - r) % b = l
    BY ONLY <2>3, b \in Nat \ {0}, r \in 0..(b - 1), l \in 0..(b - 1), RingReads
  <2> QED
    BY <2>1, <2>2, <2>3, <2>4 DEF A!canread
<1>6. CoreAhead'
  BY <1>4 DEF CoreAhead, A!canread
<1> QED
  BY <1>3, <1>6 DEF AudioInv, AudioTypes, Queues

\* ffcoraud_write() puts what fits into the ring,
LEMMA CoreWriteStep == ASSUME AudioConstants, AudioInv, A!coraud_write PROVE AudioInv'
<1>1. snd.api = "coreaudio" /\ player.pc = "call"
  BY DEF A!coraud_write, A!Is
<1>2. ~ snd.last /\ player.n = 0 /\ player.next \in 1..(Input + 1) /\ player.next + player.len <= Input + 1
  BY <1>1 DEF AudioInv, UserAt
<1>3. CoreNumbers
  BY <1>1, CoreFields
<1>0. /\ snd.wpos = (snd.rpos + card.left) % Buf /\ A!canwrite(snd) = Buf - 1 - card.left
      /\ RingHas(Buf, card.ring, snd.rpos, card.left, card.at, Written)
  BY <1>1, CoreFields
<1>4. card \in Cards /\ snd \in Sounds /\ player \in Players /\ player.next \in Nat /\ player.len \in Nat
  BY AudioFields
<1>5. PICK k \in Nat : k = A!Min({player.len, A!canwrite(snd)}) /\ k <= player.len /\ card.left + k <= Buf - 1
  <2>1. PICK f \in Nat, len \in Nat : f = Buf - 1 - card.left /\ len = player.len
    BY <1>3, <1>4 DEF CoreNumbers
  <2>2. A!Min({len, f}) = IF len <= f THEN len ELSE f
    BY Lesser
  <2>3. PICK k \in Nat : k = A!Min({len, f}) /\ k <= len /\ k <= f
    BY <2>2
  <2>4. card.left + k <= Buf - 1
    BY <1>3, <2>1, <2>3 DEF CoreNumbers
  <2> QED
    BY <1>0, <2>1, <2>3, <2>4
<1>6. /\ snd' = [snd EXCEPT !.wpos = (snd.wpos + k) % Buf]
      /\ card' = A!put(card, snd.wpos, A!Some(k))
      /\ player' = [player EXCEPT !.pc = "full", !.n = k]
  BY <1>5 DEF A!coraud_write
<1>7. PICK xs \in Seq(Int) : xs = A!Some(k) /\ Len(xs) = k /\ \A i \in 1..k : xs[i] = player.next + i - 1
  <2>1. k \in 0..player.len
    BY <1>4, <1>5
  <2>2. /\ A!Some(k) \in Seq(Int) /\ Len(A!Some(k)) = k
        /\ \A i \in 1..k : A!Some(k)[i] = player.next + i - 1
    BY <2>1, SomeSamples
  <2> QED
    BY <2>2
<1>8. Written = player.next - 1
  BY <1>2, <1>4 DEF Written
<1>9. InLine(xs, Written, Written + k)
  <2> SUFFICES ASSUME NEW i \in 1..k PROVE xs[i] = due(Written, Written + k, i)
    BY <1>7 DEF InLine
  <2>2. PICK w \in Nat, n \in Nat : w = Written /\ n = player.next
    BY <1>3, <1>4 DEF CoreNumbers
  <2>3. w = n - 1
    BY <1>8, <2>2
  <2>4. w + i <= w + k /\ n + i - 1 = w + i
    BY <2>3
  <2>1. Written + i <= Written + k /\ player.next + i - 1 = Written + i
    BY <2>2, <2>4
  <2> QED
    BY <1>7, <2>1 DEF due
<1>10. /\ Filled(Buf, card.ring, snd.wpos, xs) \in [Positions -> Int]
       /\ RingLine(Buf, Filled(Buf, card.ring, snd.wpos, xs), snd.rpos, card.left + k, card.at, Written + k)
       /\ (snd.wpos + k) % Buf = (snd.rpos + (card.left + k)) % Buf
  <2>1. card.left + Len(xs) <= Buf /\ card.at + card.left = Written
    BY <1>3, <1>5, <1>7 DEF CoreNumbers
  <2>2. ComesNext(xs, Written, Written + k)
    BY <1>3, <1>9 DEF ComesNext, CoreNumbers
  <2>3. /\ Filled(Buf, card.ring, (snd.rpos + card.left) % Buf, xs) \in [0..(Buf - 1) -> Int]
        /\ RingLine(Buf, Filled(Buf, card.ring, (snd.rpos + card.left) % Buf, xs), snd.rpos, card.left + Len(xs),
                    card.at, Written + k)
        /\ (((snd.rpos + card.left) % Buf) + Len(xs)) % Buf = (snd.rpos + (card.left + Len(xs))) % Buf
    BY ONLY <1>0, <2>1, <2>2, RingTakes
  <2> QED
    BY <1>0, <1>3, <1>7, <2>3 DEF CoreNumbers
<1>11. card' \in Cards /\ card' = [card EXCEPT !.left = card.left + k, !.ring = Filled(Buf, card.ring, snd.wpos, xs)]
  <2>1. snd.wpos \in Positions
    BY <1>3 DEF CoreNumbers
  <2>2. /\ A!put(card, snd.wpos, xs) = [card EXCEPT !.left = card.left + Len(xs), !.ring = Filled(Buf, card.ring, snd.wpos, xs)]
        /\ A!put(card, snd.wpos, xs) \in Cards
    BY <1>4, <2>1, PutFields
  <2> QED
    BY <1>6, <1>7, <1>10, <2>2
<1>12. /\ card'.left = card.left + k /\ card'.at = card.at /\ card'.bad = card.bad /\ card'.off = card.off
       /\ card'.ring = Filled(Buf, card.ring, snd.wpos, xs)
  BY <1>4, <1>11 DEF Cards
<1>13. /\ snd' \in Sounds /\ snd'.api = snd.api /\ snd'.rpos = snd.rpos /\ snd'.wpos = (snd.rpos + (card.left + k)) % Buf
       /\ snd'.last = snd.last
  <2>1. PICK p \in Positions : p = (snd.wpos + k) % Buf
    <3>1. PICK a \in Int, b \in Nat \ {0} : a = snd.wpos + k /\ b = Buf
      BY <1>3 DEF CoreNumbers
    <3>2. a % b \in 0..(b - 1)
      BY Wrap
    <3>3. Positions = 0..(b - 1)
      BY <1>3, <3>1 DEF CoreNumbers
    <3> QED
      BY <3>1, <3>2, <3>3
  <2>2. snd' = [snd EXCEPT !.wpos = p]
    BY <1>6, <2>1
  <2>3. \A y \in Sounds : [y EXCEPT !.wpos = p] \in Sounds
    BY DEF Sounds
  <2>4. snd' \in Sounds
    BY <1>4, <2>2, <2>3
  <2>5. snd'.api = snd.api /\ snd'.rpos = snd.rpos /\ snd'.wpos = p /\ snd'.last = snd.last
    BY <1>4, <2>2 DEF Sounds
  <2> QED
    BY <1>10, <2>1, <2>4, <2>5
<1>14. player' \in Players /\ player'.pc = "full" /\ player'.n = k /\ player'.next = player.next /\ player'.len = player.len
  BY <1>4, <1>6 DEF Players
<1>15. Written' = Written + k
  BY <1>4, <1>5, <1>8, <1>14 DEF Written
<1>16. UserAt'
  BY <1>1, <1>2, <1>5, <1>13, <1>14 DEF UserAt
<1>17. card'.left \in 0..(Buf - 1) /\ Written' \in Nat /\ card'.at \in Nat /\ card'.at + card'.left = Written'
  <2>1. Buf \in Nat /\ card.left \in Nat /\ card.at \in Nat /\ Written \in Nat /\ card.at + card.left = Written
    BY <1>3 DEF CoreNumbers
  <2>2. PICK b \in Nat, l \in Nat : b = Buf /\ l = card.left
    BY <2>1
  <2>3. PICK at \in Nat, w \in Nat : at = card.at /\ w = Written
    BY <2>1
  <2>4. at + l = w /\ l + k <= b - 1
    BY <1>5, <2>1, <2>2, <2>3
  <2>5. l + k \in 0..(b - 1) /\ w + k \in Nat /\ at + (l + k) = w + k
    BY <2>4
  <2> QED
    BY <1>12, <1>15, <2>2, <2>3, <2>5
<1>18. /\ RingLine(Buf, card'.ring, snd'.rpos, card'.left, card'.at, Written') /\ snd'.wpos = (snd'.rpos + card'.left) % Buf
  BY <1>10, <1>12, <1>13, <1>15
<1> QED
  BY <1>1, <1>11, <1>12, <1>13, <1>14, <1>16, <1>17, <1>18, CoreInLine

\* starts the device when the ring is full;
LEMMA CoreFullStep == ASSUME AudioConstants, AudioInv, A!coraud_full PROVE AudioInv'
<1>1. snd.api = "coreaudio" /\ player.pc = "full" /\ snd' = snd /\ player' = A!After(player.n)
  BY DEF A!coraud_full, A!Is
<1>2. PICK run \in BOOLEAN : card' = [card EXCEPT !.run = run]
  BY AudioFields DEF A!coraud_full, Cards
<1>3. player.n <= player.len /\ player.next + player.len <= Input + 1 /\ player.n \in Nat /\ player.next \in Nat /\ player.len \in Nat
  BY <1>1, AudioFields DEF AudioInv, UserAt
<1>4. ~ snd.last /\ Input \in Nat /\ player.next + player.n <= Input + 1
  BY <1>1, <1>3 DEF AudioInv, UserAt, AudioConstants
<1>5. snd'.last = FALSE
  BY <1>1, <1>4, AudioFields
<1>6. player' \in Players /\ UserAt' /\ Written' = player.next + player.n - 1 /\ player'.pc \in {"write", "async"}
  BY <1>1, <1>3, <1>4, <1>5, AfterCall
<1>7. Written' = Written
  BY <1>3, <1>6 DEF Written
<1>8. card' \in Cards /\ card'.queue = card.queue /\ card'.xrun = card.xrun /\ card'.ring = card.ring
      /\ card'.pos = card.pos /\ card'.left = card.left /\ card'.at = card.at /\ card'.bad = card.bad
      /\ card'.off = card.off
  BY <1>2, AudioFields DEF Cards
<1>9. AudioTypes'
  BY <1>1, <1>6, <1>8, AudioFields DEF AudioTypes
<1> QED
  BY <1>1, <1>6, <1>7, <1>8, <1>9, NothingMoves

\* ffcoraud_stoplazy() waits for the ring to be empty;
LEMMA CoreStoplazyStep == ASSUME AudioConstants, AudioInv, A!coraud_stoplazy PROVE AudioInv'
<1>1. /\ snd.api = "coreaudio" /\ player.pc = "drain" /\ snd' = snd
      /\ card' = [card EXCEPT !.run = A!canread(snd) # 0] /\ A!Drained(A!canread(snd) = 0)
  BY DEF A!coraud_stoplazy, A!Is
<1>2. PICK x \in {"drain", "async", "done"} : A!To(x) /\ (x = "done" => A!canread(snd) = 0)
  BY <1>1 DEF A!Drained
<1>3. player' \in Players /\ UserAt' /\ Written' = Written /\ player'.pc = x
  BY <1>1, <1>2, DrainMoves
<1>4. x = "done" => card.at = Written
  <2>1. CoreAhead /\ card.at \in Int
    BY <1>1, AudioFields DEF AudioInv
  <2> QED
    BY <1>2, <2>1 DEF CoreAhead
<1>5. card' \in Cards /\ card'.queue = card.queue /\ card'.xrun = card.xrun /\ card'.ring = card.ring
      /\ card'.pos = card.pos /\ card'.left = card.left /\ card'.at = card.at /\ card'.bad = card.bad
      /\ card'.off = card.off
  <2>1. PICK run \in BOOLEAN : card' = [card EXCEPT !.run = run]
    BY <1>1
  <2> QED
    BY <2>1, AudioFields DEF Cards
<1>6. AudioTypes'
  BY <1>1, <1>3, <1>5, AudioFields DEF AudioTypes
<1> QED
  BY <1>1, <1>3, <1>4, <1>5, <1>6, NothingMoves

\* coraud_ioproc() plays from the ring, and something else only when it has too little and says so.
Flagged == card.wild => snd.overrun
LEMMA CoreIoprocStep == ASSUME AudioConstants, AudioInv, A!coraud_ioproc PROVE AudioInv' /\ (Flagged => Flagged')
<1>1. snd.api = "coreaudio" /\ player' = player
  BY DEF A!coraud_ioproc
<1>2. CoreNumbers
  BY <1>1, CoreFields
<1>0. /\ snd.wpos = (snd.rpos + card.left) % Buf /\ A!canread(snd) = card.left
      /\ RingHas(Buf, card.ring, snd.rpos, card.left, card.at, Written)
  BY <1>1, CoreFields
<1>3. card \in Cards /\ snd \in Sounds
  BY AudioFields
<1>4. PICK n \in 1..2 :
        LET r == A!Min({n, A!canread(snd)})
            xs == [i \in 1..n |-> IF i <= r THEN card.ring[(snd.rpos + i - 1) % Buf] ELSE A!Junk]
        IN  /\ snd' = [snd EXCEPT !.rpos = (snd.rpos + r) % Buf, !.overrun = snd.overrun \/ r # n]
            /\ card' = [A!play(card, xs) EXCEPT !.left = @ - r, !.wild = @ \/ A!Junk \in A!Range(xs)]
  BY DEF A!coraud_ioproc
<1>5. PICK m \in Nat : m = A!Min({n, A!canread(snd)}) /\ m <= n /\ m <= card.left
  <2>1. PICK l \in Nat, c \in Nat : l = card.left /\ c = n
    BY <1>2 DEF CoreNumbers
  <2>2. A!Min({c, l}) = IF c <= l THEN c ELSE l
    BY Lesser
  <2> QED
    BY <1>0, <2>1, <2>2
<1> DEFINE xs == [i \in 1..n |-> IF i <= m THEN card.ring[(snd.rpos + i - 1) % Buf] ELSE A!Junk]
<1> DEFINE over == snd.overrun \/ m # n
           wild == card.wild \/ A!Junk \in A!Range(xs)
<1>6. /\ snd' = [snd EXCEPT !.rpos = (snd.rpos + m) % Buf, !.overrun = over]
      /\ card' = [A!play(card, xs) EXCEPT !.left = @ - m, !.wild = @ \/ A!Junk \in A!Range(xs)]
  BY <1>4, <1>5
<1>7. /\ (snd.rpos + m) % Buf \in 0..(Buf - 1)
      /\ RingLine(Buf, card.ring, (snd.rpos + m) % Buf, card.left - m, card.at + m, Written)
      /\ (((snd.rpos + m) % Buf) + (card.left - m)) % Buf = snd.wpos
      /\ \A p \in 1..m : card.ring[(snd.rpos + p - 1) % Buf] = card.at + p
  <2>1. m \in 0..card.left /\ card.at + m <= Written
    BY <1>2, <1>5 DEF CoreNumbers
  <2>2. /\ (snd.rpos + m) % Buf \in 0..(Buf - 1)
        /\ RingLine(Buf, card.ring, (snd.rpos + m) % Buf, card.left - m, IF card.at + m <= Written THEN card.at + m ELSE Written,
                    Written)
        /\ (((snd.rpos + m) % Buf) + (card.left - m)) % Buf = (snd.rpos + card.left) % Buf
        /\ \A p \in 1..m : card.ring[(snd.rpos + p - 1) % Buf] = due(card.at, Written, p)
    BY ONLY <1>0, <2>1, RingGives
  <2>3. \A p \in 1..m : due(card.at, Written, p) = card.at + p
    <3> SUFFICES ASSUME NEW p \in 1..m PROVE card.at + p <= Written
      BY DEF due
    <3> QED
      BY <1>2, <2>1 DEF CoreNumbers
  <2> QED
    BY <1>0, <2>1, <2>2, <2>3
<1>8. /\ xs \in Seq(Int) /\ Len(xs) = n /\ (\A j \in 1..m : xs[j] = card.at + j) /\ \A j \in (m + 1)..n : xs[j] <= 0
      /\ A!Range(xs) = {xs[j] : j \in 1..n}
  <2>1. \A j \in 1..n : xs[j] = IF j <= m THEN card.at + j ELSE -1
    BY <1>7 DEF A!Junk
  <2>2. \A j \in 1..n : xs[j] \in Int
    <3>1. card.at \in Int
      BY <1>2 DEF CoreNumbers
    <3> QED
      BY <2>1, <3>1
  <2>3. n \in Nat /\ xs = [i \in 1..n |-> xs[i]]
    OBVIOUS
  <2>4. xs \in Seq(Int) /\ Len(xs) = n
    BY <2>2, <2>3
  <2>5. \A j \in 1..m : xs[j] = card.at + j
    <3> HIDE DEF xs
    <3> SUFFICES ASSUME NEW j \in 1..m PROVE xs[j] = card.at + j
      OBVIOUS
    <3>1. j \in 1..n /\ j <= m
      BY <1>5
    <3> QED
      BY <2>1, <3>1
  <2>6. \A j \in (m + 1)..n : xs[j] <= 0
    <3> SUFFICES ASSUME NEW j \in (m + 1)..n PROVE xs[j] <= 0
      OBVIOUS
    <3>1. j \in 1..n /\ ~ (j <= m)
      OBVIOUS
    <3>2. xs[j] = -1
      BY <2>1, <3>1
    <3> QED
      BY <3>2
  <2>7. A!Range(xs) = {xs[j] : j \in 1..n}
    BY DEF A!Range
  <2> HIDE DEF xs
  <2> QED
    BY <2>4, <2>5, <2>6, <2>7
<1> HIDE DEF xs
<1>18. m = n => A!Junk \notin A!Range(xs)
  <2> SUFFICES ASSUME m = n, NEW j \in 1..n PROVE xs[j] # -1
    BY <1>8 DEF A!Junk
  <2> QED
    BY <1>2, <1>8 DEF CoreNumbers
<1>19. over \in BOOLEAN /\ wild \in BOOLEAN /\ (wild => card.wild \/ over) /\ (snd.overrun => over)
  <2>1. snd.overrun \in BOOLEAN /\ card.wild \in BOOLEAN
    BY <1>3 DEF Sounds, Cards
  <2> QED
    BY <1>18, <2>1
<1>9. A!play(card, xs) = [card EXCEPT !.at = card.at + m]
  <2>1. m \in 0..Len(xs) /\ card.at >= 0
    BY <1>2, <1>5, <1>8 DEF CoreNumbers
  <2>2. \A j \in (m + 1)..Len(xs) : xs[j] <= 0
    BY <1>8
  <2> QED
    BY <1>3, <1>8, <2>1, <2>2, PlaysOn
<1>10. card' = [card EXCEPT !.at = card.at + m, !.left = card.left - m, !.wild = wild]
  <2>1. [card EXCEPT !.at = card.at + m].left = card.left /\ [card EXCEPT !.at = card.at + m].wild = card.wild
    BY <1>3 DEF Cards
  <2> QED
    BY <1>6, <1>9, <2>1
<1> HIDE DEF over, wild
<1>11. card' \in Cards
  <2>1. PICK x \in Int, y \in Int : x = card.at + m /\ y = card.left - m
    BY <1>2 DEF CoreNumbers
  <2>2. \A c \in Cards, b \in BOOLEAN : [c EXCEPT !.at = x, !.left = y, !.wild = b] \in Cards
    BY DEF Cards
  <2> QED
    BY <1>3, <1>10, <1>19, <2>1, <2>2
<1>20. Flagged => Flagged'
  <2>1. card'.wild = wild /\ snd'.overrun = over
    BY <1>3, <1>6, <1>10 DEF Cards, Sounds
  <2> QED
    BY <1>19, <2>1 DEF Flagged
<1>12. /\ card'.left = card.left - m /\ card'.at = card.at + m /\ card'.bad = card.bad /\ card'.off = card.off
       /\ card'.ring = card.ring
  BY <1>3, <1>10 DEF Cards
<1>13. /\ snd' \in Sounds /\ snd'.api = snd.api /\ snd'.rpos = (snd.rpos + m) % Buf /\ snd'.wpos = snd.wpos
       /\ snd'.last = snd.last
  <2>1. PICK p \in Positions : p = (snd.rpos + m) % Buf
    BY <1>2, <1>7 DEF CoreNumbers
  <2>2. snd' = [snd EXCEPT !.rpos = p, !.overrun = over]
    BY <1>6, <2>1
  <2>3. \A y \in Sounds, b \in BOOLEAN : [y EXCEPT !.rpos = p, !.overrun = b] \in Sounds
    BY DEF Sounds
  <2>4. snd' \in Sounds
    BY <1>3, <1>19, <2>2, <2>3
  <2>5. snd'.api = snd.api /\ snd'.rpos = p /\ snd'.wpos = snd.wpos /\ snd'.last = snd.last
    BY <1>3, <2>2 DEF Sounds
  <2> QED
    BY <2>1, <2>4, <2>5
<1>14. player' \in Players /\ UserAt' /\ Written' = Written
  BY <1>1, <1>13, AudioFields DEF AudioInv, UserAt, Written
<1>15. /\ card'.left \in 0..(Buf - 1) /\ card'.at \in Nat /\ Written' \in Nat /\ card'.at + card'.left = Written'
  BY <1>2, <1>5, <1>12, <1>14 DEF CoreNumbers
<1>16. /\ RingLine(Buf, card'.ring, snd'.rpos, card'.left, card'.at, Written')
       /\ snd'.wpos = (snd'.rpos + card'.left) % Buf
  BY <1>0, <1>7, <1>12, <1>13, <1>14
<1>17. player'.pc = "done" => card'.at = Written'
  <2>1. player.pc = "done" => card.at = Written
    <3>1. ~ card.off /\ snd.api # "dsound"
      BY <1>1, CoreFields
    <3> QED
      BY <3>1 DEF AudioInv, Heard
  <2>2. card.at = Written => m = 0
    BY <1>2, <1>5 DEF CoreNumbers
  <2>3. card.at + 0 = card.at
    BY <1>2 DEF CoreNumbers
  <2> QED
    BY <1>1, <1>12, <1>14, <2>1, <2>2, <2>3
<1> QED
  BY <1>1, <1>11, <1>12, <1>13, <1>14, <1>15, <1>16, <1>17, <1>20, CoreInLine

-----------------------------------------------------------------------------
\* DirectSound counts what is in the ring, if isfull tells a full ring from an empty one.
LEMMA FilledIs ==
    ASSUME AudioConstants, NEW ss \in Sounds, NEW f \in 0..Buf, ss.wpos = (ss.rpos + f) % Buf,
           f = Buf => ss.isfull, f = 0 => ~ ss.isfull
    PROVE  A!dsnd_filled(ss) = f
<1>1. PICK b \in Nat \ {0} : b = Buf
  BY DEF AudioConstants
<1>2. PICK r \in 0..(b - 1), v \in 0..(b - 1) : r = ss.rpos /\ v = ss.wpos
  BY <1>1 DEF Sounds, Positions
<1>3. v = IF r + f < b THEN r + f ELSE r + f - b
  <2>1. f \in 0..b /\ v = (r + f) % b
    BY <1>1, <1>2
  <2> QED
    BY <2>1, RingPlace
<1>4. A!dsnd_filled(ss) = CASE v = r /\ ss.isfull -> b
                            [] v >= r /\ ~ (v = r /\ ss.isfull) -> v - r
                            [] OTHER -> b - (r - v)
  BY <1>1, <1>2 DEF A!dsnd_filled
<1>5. f \in 0..b /\ ss.isfull \in BOOLEAN
  BY <1>1 DEF Sounds
<1>6. PICK full \in BOOLEAN : full = ss.isfull /\ (f = b => full) /\ (f = 0 => ~ full)
  BY <1>1, <1>5
<1>7. CASE v = r
  <2>1. f = 0 \/ f = b
    BY <1>3, <1>5, <1>7
  <2>2. full => f = b
    BY <1>6, <2>1
  <2>3. ~ full => f = 0
    BY <1>6, <2>1
  <2>4. v >= r /\ v - r = 0
    BY <1>7
  <2> QED
    BY <1>4, <1>6, <1>7, <2>2, <2>3, <2>4
<1>8. CASE v > r
  <2>1. v >= r /\ v # r /\ v - r = f
    BY <1>3, <1>5, <1>8
  <2> QED
    BY <1>4, <2>1
<1>9. CASE v < r
  <2>1. ~ (v >= r) /\ v # r /\ b - (r - v) = f
    BY <1>3, <1>5, <1>9
  <2> QED
    BY <1>4, <2>1
<1> QED
  BY <1>7, <1>8, <1>9

\* ffdsnd_filled() is at most the size of the ring, and the place to write is that far behind rpos.
LEMMA FilledBounds ==
    ASSUME AudioConstants, NEW ss \in Sounds
    PROVE  /\ A!dsnd_filled(ss) \in 0..Buf /\ ss.wpos = (ss.rpos + A!dsnd_filled(ss)) % Buf
           /\ A!dsnd_filled(ss) = Buf => ss.isfull
<1>1. PICK b \in Nat \ {0} : b = Buf
  BY DEF AudioConstants
<1>2. PICK r \in 0..(b - 1), v \in 0..(b - 1) : r = ss.rpos /\ v = ss.wpos
  BY <1>1 DEF Sounds, Positions
<1>3. A!dsnd_filled(ss) = CASE v = r /\ ss.isfull -> b
                            [] v >= r /\ ~ (v = r /\ ss.isfull) -> v - r
                            [] OTHER -> b - (r - v)
  BY <1>1, <1>2 DEF A!dsnd_filled
<1>4. PICK f \in 0..b : /\ f = A!dsnd_filled(ss) /\ v = IF r + f < b THEN r + f ELSE r + f - b
                        /\ f = b => ss.isfull
  <2>1. CASE v = r /\ ss.isfull
    BY <1>3, <2>1
  <2>2. CASE v >= r /\ ~ (v = r /\ ss.isfull)
    <3>1. v - r \in 0..b /\ r + (v - r) < b /\ r + (v - r) = v /\ v - r # b
      BY <2>2
    <3> QED
      BY <1>3, <2>2, <3>1
  <2>3. CASE ~ (v >= r)
    <3>1. b - (r - v) \in 0..b /\ ~ (r + (b - (r - v)) < b) /\ r + (b - (r - v)) - b = v /\ b - (r - v) # b /\ v # r
      BY <2>3
    <3> QED
      BY <1>3, <2>3, <3>1
  <2> QED
    BY <2>1, <2>2, <2>3
<1>5. v = (r + f) % b
  BY <1>4, RingPlace
<1> QED
  BY <1>1, <1>2, <1>4, <1>5

\* What DirectSound's ring holds before anything was missed.
RingNumbers ==
    /\ card.left \in 0..Buf /\ card.at \in Nat /\ Written \in Nat /\ card.at <= Written
    /\ card.pos \in 0..(Buf - 1) /\ Buf \in Nat \ {0} /\ Positions = 0..(Buf - 1)
    /\ ~ snd.last => card.at + card.left = Written /\ card.left + One(card.sig) \in 0..Buf
LEMMA RingFields ==
    ASSUME AudioConstants, AudioInv, snd.api = "dsound", ~ card.off
    PROVE  /\ RingNumbers
           /\ RingHas(Buf, card.ring, card.pos, card.left, card.at, Written)
           /\ ~ snd.last => /\ A!dsnd_filled(snd) = card.left + One(card.sig)
                            /\ snd.wpos = (card.pos + card.left) % Buf
                            /\ snd.rpos = (card.pos - One(card.sig)) % Buf
           /\ ~ card.bad
<1>1. RingAhead /\ card.at \in 0..Written /\ Written \in Int /\ ~ card.bad
  BY AudioFields DEF AudioInv, Heard
<1>2. Buf \in Nat \ {0} /\ Positions = 0..(Buf - 1)
  BY DEF AudioConstants, Positions
<1>3. card.pos \in 0..(Buf - 1) /\ card.ring \in [0..(Buf - 1) -> Int] /\ snd \in Sounds
  BY <1>2, AudioFields DEF Cards
<1>4. card.at \in Nat /\ Written \in Nat /\ card.at <= Written
  BY <1>1
<1>5. A!dsnd_filled(snd) \in 0..Buf
  BY <1>3, FilledBounds
<1>6. RingNumbers
  BY <1>1, <1>2, <1>3, <1>4, <1>5 DEF RingAhead, RingNumbers
<1>7. RingHas(Buf, card.ring, card.pos, card.left, card.at, Written)
  BY <1>1, <1>2, <1>3, <1>4 DEF RingAhead, RingHas
<1> QED
  BY <1>1, <1>6, <1>7 DEF RingAhead

\* A step of DirectSound.
LEMMA RingNext ==
    ASSUME AudioInv, snd.api = "dsound", snd' \in Sounds, snd'.api = snd.api,
           card' \in Cards, card'.bad = card.bad, player' \in Players, UserAt',
           RingAhead', ~ card'.off => card'.at \in 0..Written'
    PROVE  AudioInv'
<1>1. Heard'
  BY DEF AudioInv, Heard
<1> QED
  BY <1>1 DEF AudioInv, AudioTypes, Queues

\* What follows a call of DirectSound.
LEMMA AfterDsound ==
    ASSUME AudioConstants, AudioInv, player.pc = "call", NEW k \in Nat, k <= player.len, NEW x \in {"write", "async", "wait"},
           player' = [player EXCEPT !.next = player.next + k, !.len = 0, !.n = 0, !.pc = x], snd'.last = FALSE
    PROVE  player' \in Players /\ UserAt' /\ Written' = Written + k /\ player'.pc = x
<1>1. player \in Players /\ player.next \in Nat /\ player.len \in Nat
  BY AudioFields
<1>2. player.n = 0 /\ player.next \in 1..(Input + 1) /\ player.next + player.len <= Input + 1 /\ Input \in Nat
  BY DEF AudioInv, UserAt, AudioConstants
<1>3. player' \in Players
  <2>1. PICK y \in Nat : y = player.next + k
    BY <1>1
  <2>2. \A p \in Players : [p EXCEPT !.next = y, !.len = 0, !.n = 0, !.pc = x] \in Players
    BY DEF Players
  <2> QED
    BY <1>1, <2>1, <2>2
<1>4. player'.next = player.next + k /\ player'.n = 0 /\ player'.pc = x
  BY <1>1 DEF Players
<1>5. player.next + k \in 1..(Input + 1) /\ player.next + k - 1 = player.next - 1 + k
  BY <1>1, <1>2
<1>6. UserAt'
  BY <1>4, <1>5 DEF UserAt
<1>7. Written' = Written + k
  BY <1>1, <1>2, <1>4, <1>5 DEF Written
<1> QED
  BY <1>3, <1>4, <1>6, <1>7

\* ffdsnd_write() writes where what is not played ends.
LEMMA DsndWriteStep == ASSUME AudioConstants, AudioInv, A!dsnd_write PROVE AudioInv'
<1>1. snd.api = "dsound" /\ player.pc = "call"
  BY DEF A!dsnd_write, A!Is
<1>2. ~ snd.last /\ player.n = 0 /\ player.len > 0 /\ player.next \in 1..(Input + 1)
  BY <1>1 DEF AudioInv, UserAt
<1>3. card \in Cards /\ snd \in Sounds /\ player \in Players /\ player.next \in Nat /\ player.len \in Nat
  BY AudioFields
<1>4. PICK f \in 0..Buf : f = A!dsnd_filled(snd) /\ snd.wpos = (snd.rpos + f) % Buf
  BY <1>3, FilledBounds
<1>5. CASE f = Buf
  <2>1. /\ snd' = snd /\ card' = [card EXCEPT !.run = TRUE] /\ player' = [A!After(0) EXCEPT !.pc = "wait"]
    BY <1>4, <1>5 DEF A!dsnd_write
  <2>2. player' = [player EXCEPT !.next = player.next + 0, !.len = 0, !.n = 0, !.pc = "wait"]
    BY <2>1, <1>3 DEF A!After, Players
  <2>3. player' \in Players /\ UserAt' /\ Written' = Written + 0 /\ player'.pc = "wait"
    <3>1. 0 \in Nat /\ 0 <= player.len /\ snd'.last = FALSE
      BY <1>2, <1>3, <2>1 DEF Sounds
    <3> QED
      BY ONLY AudioConstants, AudioInv, <1>1, <2>2, <3>1, AfterDsound
  <2>4. Written' = Written
    BY <2>3, AudioFields
  <2>5. /\ card' \in Cards /\ card'.queue = card.queue /\ card'.xrun = card.xrun /\ card'.ring = card.ring
        /\ card'.pos = card.pos /\ card'.left = card.left /\ card'.at = card.at /\ card'.bad = card.bad
        /\ card'.off = card.off /\ card'.sig = card.sig
    BY <1>3, <2>1 DEF Cards
  <2>6. AudioTypes'
    BY <1>3, <2>1, <2>3, <2>5 DEF AudioTypes
  <2> QED
    BY <1>1, <2>1, <2>3, <2>4, <2>5, <2>6, NothingMoves
<1>6. CASE f # Buf
  <2>1. PICK k \in Nat : k = A!Min({player.len, Buf - f}) /\ k <= player.len /\ f + k \in 1..Buf
    <3>0. Buf \in Nat /\ Buf - f \in Nat /\ Buf - f > 0
      BY <1>6 DEF AudioConstants
    <3>1. PICK c \in Nat, len \in Nat : c = Buf - f /\ len = player.len /\ c > 0 /\ len > 0
      BY <1>2, <1>3, <3>0
    <3>2. A!Min({len, c}) = IF len <= c THEN len ELSE c
      BY Lesser
    <3>3. PICK k \in Nat : k = A!Min({len, c}) /\ k <= len /\ k <= c /\ k > 0
      BY <3>1, <3>2
    <3>4. f + k \in 1..Buf
      BY <3>1, <3>3 DEF AudioConstants
    <3> QED
      BY <3>1, <3>3, <3>4
  <2>2. /\ snd' = [snd EXCEPT !.wpos = (snd.wpos + k) % Buf, !.isfull = TRUE]
        /\ card' = A!put(card, snd.wpos, A!Some(k))
        /\ player' = IF k = player.len THEN A!After(k) ELSE [A!After(k) EXCEPT !.pc = "write"]
    BY <1>4, <1>6, <2>1 DEF A!dsnd_write
  <2>3. player' = [player EXCEPT !.next = player.next + k, !.len = 0, !.n = 0, !.pc = "write"]
    <3>1. k = player.len => A!After(k) = [player EXCEPT !.next = player.next + k, !.len = 0, !.n = 0, !.pc = "write"]
      BY DEF A!After
    <3>2. [A!After(k) EXCEPT !.pc = "write"] = [player EXCEPT !.next = player.next + k, !.len = 0, !.n = 0, !.pc = "write"]
      BY <1>3 DEF A!After, Players
    <3> QED
      BY <2>2, <3>1, <3>2
  <2>4. PICK xs \in Seq(Int) : xs = A!Some(k) /\ Len(xs) = k /\ \A i \in 1..k : xs[i] = player.next + i - 1
    <3>1. k \in 0..player.len
      BY <1>3, <2>1
    <3>2. /\ A!Some(k) \in Seq(Int) /\ Len(A!Some(k)) = k
          /\ \A i \in 1..k : A!Some(k)[i] = player.next + i - 1
      BY <3>1, SomeSamples
    <3> QED
      BY <3>2
  <2>5. /\ card' = [card EXCEPT !.left = card.left + k, !.ring = Filled(Buf, card.ring, snd.wpos, xs)]
        /\ card' \in Cards
    <3>1. snd.wpos \in Positions
      BY <1>3 DEF Sounds
    <3>2. /\ A!put(card, snd.wpos, xs) = [card EXCEPT !.left = card.left + Len(xs), !.ring = Filled(Buf, card.ring, snd.wpos, xs)]
          /\ A!put(card, snd.wpos, xs) \in Cards
      BY <1>3, <3>1, PutFields
    <3> QED
      BY <2>2, <2>4, <3>2
  <2>6. /\ card'.left = card.left + k /\ card'.at = card.at /\ card'.bad = card.bad /\ card'.off = card.off
        /\ card'.ring = Filled(Buf, card.ring, snd.wpos, xs) /\ card'.pos = card.pos /\ card'.sig = card.sig
    BY <1>3, <2>5 DEF Cards
  <2>7. /\ snd' \in Sounds /\ snd'.api = snd.api /\ snd'.rpos = snd.rpos /\ snd'.wpos = (snd.wpos + k) % Buf
        /\ snd'.isfull /\ snd'.last = FALSE
    <3>1. PICK p \in Positions : p = (snd.wpos + k) % Buf
      <4>1. PICK a \in Int, b \in Nat \ {0} : a = snd.wpos + k /\ b = Buf
        BY <1>3 DEF Sounds, AudioConstants, Positions
      <4>2. a % b \in 0..(b - 1)
        BY Wrap
      <4> QED
        BY <4>1, <4>2 DEF Positions
    <3>2. snd' = [snd EXCEPT !.wpos = p, !.isfull = TRUE]
      BY <2>2, <3>1
    <3>3. \A y \in Sounds : [y EXCEPT !.wpos = p, !.isfull = TRUE] \in Sounds
      BY DEF Sounds
    <3>4. snd' \in Sounds
      BY <1>3, <3>2, <3>3
    <3>5. snd'.api = snd.api /\ snd'.rpos = snd.rpos /\ snd'.wpos = p /\ snd'.isfull /\ snd'.last = FALSE
      BY <1>2, <1>3, <3>2 DEF Sounds
    <3> QED
      BY <3>1, <3>4, <3>5
  <2>8. player' \in Players /\ UserAt' /\ Written' = Written + k
    BY <1>1, <2>1, <2>3, <2>7, AfterDsound
  <2>9. ~ card'.off => card'.at \in 0..Written' /\ RingAhead'
    <3> SUFFICES ASSUME ~ card.off PROVE card'.at \in 0..Written' /\ RingAhead'
      BY <2>6 DEF RingAhead
    <3>1. RingNumbers
      BY <1>1, RingFields
    <3>2. RingHas(Buf, card.ring, card.pos, card.left, card.at, Written)
      BY <1>1, RingFields
    <3>3. f = card.left + One(card.sig) /\ snd.wpos = (card.pos + card.left) % Buf /\ snd.rpos = (card.pos - One(card.sig)) % Buf
      BY <1>1, <1>2, <1>4, RingFields
    <3>4. PICK b \in Nat \ {0}, l \in Nat, at \in Nat, w \in Nat :
              b = Buf /\ l = card.left /\ at = card.at /\ w = Written /\ at + l = w
      <4>1. Buf \in Nat \ {0} /\ card.left \in Nat /\ card.at \in Nat /\ Written \in Nat /\ card.at + card.left = Written
        BY <1>2, <3>1 DEF RingNumbers
      <4> QED
        BY <4>1
    <3>5. PICK o \in 0..1 : o = One(card.sig)
      BY DEF One
    <3>6. f = l + o /\ l + k \in 0..b /\ f + k \in 1..b /\ at <= w + k /\ at + (l + k) = w + k /\ l + k + o = f + k
      <4>1. f = l + o
        BY <3>3, <3>4, <3>5
      <4>2. f + k \in 1..b /\ at + l = w
        BY <2>1, <3>4
      <4> QED
        BY ONLY <4>1, <4>2, k \in Nat, l \in Nat, at \in Nat, w \in Nat, o \in 0..1, b \in Nat \ {0}
    <3>7. ComesNext(xs, w, w + k)
      <4>1. Written = player.next - 1
        BY <1>2, <1>3 DEF Written
      <4>2. PICK n \in Nat : n = player.next /\ w = n - 1
        BY <1>3, <3>4, <4>1
      <4>3. InLine(xs, w, w + k)
        <5> SUFFICES ASSUME NEW i \in 1..k PROVE xs[i] = due(w, w + k, i)
          BY <2>4 DEF InLine
        <5>1. w + i <= w + k /\ n + i - 1 = w + i
          BY <4>2
        <5> QED
          BY <2>4, <4>2, <5>1 DEF due
      <4>4. w + k \in Nat /\ w <= w + k
        OBVIOUS
      <4> QED
        BY <4>3, <4>4 DEF ComesNext
    <3>8. /\ RingLine(Buf, Filled(Buf, card.ring, (card.pos + card.left) % Buf, xs), card.pos, card.left + Len(xs), card.at, Written + k)
          /\ (((card.pos + card.left) % Buf) + Len(xs)) % Buf = (card.pos + (card.left + Len(xs))) % Buf
      <4>1. card.left + Len(xs) <= Buf /\ card.at + card.left = Written /\ ComesNext(xs, Written, Written + k)
        BY <2>4, <3>4, <3>6, <3>7
      <4> QED
        BY ONLY <3>2, <4>1, RingTakes
    <3>9. snd'.wpos = (snd'.rpos + (f + k)) % Buf
      <4>1. PICK r \in 0..(b - 1) : r = snd.rpos
        BY <1>3, <3>4 DEF Sounds, Positions
      <4>2. f \in 0..b /\ f + k <= b
        BY <3>4, <3>6
      <4>3. (((r + f) % b) + k) % b = (r + (f + k)) % b
        BY <4>2, RingSum
      <4> QED
        BY <1>4, <2>7, <3>4, <4>1, <4>3
    <3>10. A!dsnd_filled(snd)' = f + k
      <4>1. A!dsnd_filled(snd') = f + k
        <5>1. f + k \in 0..Buf /\ f + k # 0
          BY <2>1
        <5>2. PICK g \in 0..Buf : g = f + k /\ g # 0
          BY <5>1
        <5>3. snd'.wpos = (snd'.rpos + g) % Buf
          BY <3>9, <5>2
        <5> QED
          BY <2>7, <5>2, <5>3, FilledIs
      <4> QED
        BY <4>1 DEF A!dsnd_filled
    <3>11. RingAhead'
      <4>1. card'.left \in 0..Buf /\ card'.at + card'.left = Written' /\ f + k = card'.left + One(card'.sig)
        BY <2>6, <2>8, <3>4, <3>5, <3>6
      <4>2. RingLine(Buf, card'.ring, card'.pos, card'.left, card'.at, Written')
        BY <2>4, <2>6, <2>8, <3>3, <3>8
      <4>3. snd'.wpos = (card'.pos + card'.left) % Buf /\ snd'.rpos = (card'.pos - One(card'.sig)) % Buf
        BY <2>4, <2>6, <2>7, <3>3, <3>8
      <4> QED
        BY <3>10, <4>1, <4>2, <4>3 DEF RingAhead
    <3> QED
      BY <2>6, <2>8, <3>4, <3>6, <3>11
  <2>10. RingAhead'
    BY <2>9 DEF RingAhead
  <2> QED
    BY <1>1, <2>5, <2>6, <2>7, <2>8, <2>9, <2>10, RingNext
<1> QED
  BY <1>5, <1>6

\* ffdsnd_stoplazy() fills the ring with silence, or finds it empty.
LEMMA DsndStoplazyStep == ASSUME AudioConstants, AudioInv, A!dsnd_stoplazy PROVE AudioInv'
<1>1. snd.api = "dsound" /\ player.pc = "drain"
  BY DEF A!dsnd_stoplazy, A!Is
<1>2. card \in Cards /\ snd \in Sounds
  BY AudioFields
<1>3. CASE A!dsnd_filled(snd) = 0
  <2>1. A!To("done") /\ snd' = snd /\ card' = card
    BY <1>3 DEF A!dsnd_stoplazy
  <2>2. player' \in Players /\ UserAt' /\ Written' = Written /\ player'.pc = "done"
    BY <1>1, <2>1, DrainMoves
  <2>3. AudioTypes'
    BY <1>2, <2>1, <2>2 DEF AudioTypes
  <2> QED
    BY <1>1, <2>1, <2>2, <2>3, NothingMoves
<1>4. CASE A!dsnd_filled(snd) # 0 /\ snd.last
  <2>1. A!To("wait") /\ snd' = snd /\ card' = [card EXCEPT !.run = TRUE]
    BY <1>4 DEF A!dsnd_stoplazy
  <2>2. player' \in Players /\ UserAt' /\ Written' = Written /\ player'.pc = "wait"
    BY <1>1, <2>1, DrainMoves
  <2>3. /\ card' \in Cards /\ card'.queue = card.queue /\ card'.xrun = card.xrun /\ card'.ring = card.ring
        /\ card'.pos = card.pos /\ card'.left = card.left /\ card'.at = card.at /\ card'.bad = card.bad
        /\ card'.off = card.off /\ card'.sig = card.sig
    BY <1>2, <2>1 DEF Cards
  <2>4. AudioTypes'
    BY <1>2, <2>1, <2>2, <2>3 DEF AudioTypes
  <2> QED
    BY <1>1, <2>1, <2>2, <2>3, <2>4, NothingMoves
<1>5. CASE A!dsnd_filled(snd) # 0 /\ ~ snd.last
  <2>1. PICK ss : ss = [snd EXCEPT !.last = TRUE]
    OBVIOUS
  <2>2. ss \in Sounds /\ ss.last = TRUE /\ ss.api = snd.api /\ ss.rpos = snd.rpos /\ ss.wpos = snd.wpos /\ ss.isfull = snd.isfull
    BY <1>2, <2>1 DEF Sounds
  <2>3. A!dsnd_filled(ss) = A!dsnd_filled(snd)
    BY <2>2 DEF A!dsnd_filled
  <2>4. PICK f \in 0..Buf : f = A!dsnd_filled(snd)
    BY <1>2, FilledBounds
  <2>5. PICK k \in Nat : k = Buf - f
    <3>1. Buf - f \in Nat
      BY DEF AudioConstants
    <3> QED
      BY <3>1
  <2>6. PICK xs : xs = [i \in 1..k |-> A!Silence]
    OBVIOUS
  <2>7. xs \in Seq(Int) /\ Len(xs) = k /\ \A i \in 1..k : xs[i] = 0
    <3>1. /\ [i \in 1..k |-> A!Silence] \in Seq(Int)
          /\ Len([i \in 1..k |-> A!Silence]) = IF k >= 0 THEN k ELSE 0
          /\ \A i \in 1..k : [j \in 1..k |-> A!Silence][i] = 0
      <4>1. k \in Int
        OBVIOUS
      <4> QED
        BY ONLY <4>1, SilentSamples
    <3>2. k >= 0
      OBVIOUS
    <3> QED
      BY <2>6, <3>1, <3>2
  <2>8. A!dsnd_silence(ss, card) = << [ss EXCEPT !.wpos = (ss.wpos + k) % Buf], A!put(card, ss.wpos, xs) >>
    BY <2>3, <2>4, <2>5, <2>6 DEF A!dsnd_silence
  <2>9. snd' = [ss EXCEPT !.wpos = (ss.wpos + k) % Buf] /\ card' = [A!put(card, snd.wpos, xs) EXCEPT !.run = TRUE] /\ A!To("wait")
    <3>1. /\ snd' = A!dsnd_silence([snd EXCEPT !.last = TRUE], card)[1]
          /\ card' = [A!dsnd_silence([snd EXCEPT !.last = TRUE], card)[2] EXCEPT !.run = TRUE] /\ A!To("wait")
      BY <1>5 DEF A!dsnd_stoplazy
    <3>2. snd' = A!dsnd_silence(ss, card)[1] /\ card' = [A!dsnd_silence(ss, card)[2] EXCEPT !.run = TRUE]
      BY <2>1, <3>1
    <3>3. PICK r1, r2 : r1 = [ss EXCEPT !.wpos = (ss.wpos + k) % Buf] /\ r2 = A!put(card, ss.wpos, xs)
      OBVIOUS
    <3>4. A!dsnd_silence(ss, card) = << r1, r2 >>
      BY <2>8, <3>3
    <3>5. A!dsnd_silence(ss, card)[1] = r1 /\ A!dsnd_silence(ss, card)[2] = r2
      BY <3>4
    <3>6. snd' = r1 /\ card' = [r2 EXCEPT !.run = TRUE]
      BY <3>2, <3>5
    <3> QED
      BY <2>2, <3>1, <3>3, <3>6
  <2>10. player' \in Players /\ Written' = Written /\ player'.pc = "wait" /\ player'.next = player.next /\ player'.n = player.n
    BY <2>9, Moved
  <2>11. /\ card' = [[card EXCEPT !.left = card.left + k, !.ring = Filled(Buf, card.ring, snd.wpos, xs)] EXCEPT !.run = TRUE]
         /\ card' \in Cards
    <3>1. snd.wpos \in Positions
      BY <1>2 DEF Sounds
    <3>2. /\ A!put(card, snd.wpos, xs) = [card EXCEPT !.left = card.left + Len(xs), !.ring = Filled(Buf, card.ring, snd.wpos, xs)]
          /\ A!put(card, snd.wpos, xs) \in Cards
      BY <1>2, <2>7, <3>1, PutFields
    <3>3. \A c \in Cards : [c EXCEPT !.run = TRUE] \in Cards
      BY DEF Cards
    <3> QED
      BY <2>7, <2>9, <3>2, <3>3
  <2>12. /\ card'.left = card.left + k /\ card'.at = card.at /\ card'.bad = card.bad /\ card'.off = card.off
         /\ card'.ring = Filled(Buf, card.ring, snd.wpos, xs) /\ card'.pos = card.pos
    BY <1>2, <2>11 DEF Cards
  <2>13. snd' \in Sounds /\ snd'.api = snd.api /\ snd'.last = TRUE
    <3>1. PICK p \in Positions : p = (ss.wpos + k) % Buf
      <4>1. PICK a \in Int, b \in Nat \ {0} : a = ss.wpos + k /\ b = Buf
        BY <2>2 DEF Sounds, AudioConstants, Positions
      <4>2. a % b \in 0..(b - 1)
        BY Wrap
      <4> QED
        BY <4>1, <4>2 DEF Positions
    <3>2. snd' = [ss EXCEPT !.wpos = p]
      BY <2>9, <3>1
    <3>3. \A y \in Sounds : [y EXCEPT !.wpos = p] \in Sounds
      BY DEF Sounds
    <3>4. snd' \in Sounds
      BY <2>2, <3>2, <3>3
    <3> QED
      BY <2>2, <3>2, <3>4 DEF Sounds
  <2>14. UserAt'
    <3>1. player.next = Input + 1 /\ player.next \in 1..(Input + 1) /\ player.n = 0
      BY <1>1 DEF AudioInv, UserAt
    <3> QED
      BY <2>10, <3>1 DEF UserAt
  <2>15. ~ card'.off => card'.at \in 0..Written' /\ RingAhead'
    <3> SUFFICES ASSUME ~ card.off PROVE card'.at \in 0..Written' /\ RingAhead'
      BY <2>12 DEF RingAhead
    <3>1. RingNumbers
      BY <1>1, RingFields
    <3>2. RingHas(Buf, card.ring, card.pos, card.left, card.at, Written)
      BY <1>1, RingFields
    <3>3. f = card.left + One(card.sig) /\ snd.wpos = (card.pos + card.left) % Buf
      BY <1>1, <1>5, <2>4, RingFields
    <3>4. PICK b \in Nat \ {0}, l \in Nat, at \in Nat, w \in Nat :
              b = Buf /\ l = card.left /\ at = card.at /\ w = Written /\ at + l = w
      <4>1. Buf \in Nat \ {0} /\ card.left \in Nat /\ card.at \in Nat /\ Written \in Nat /\ card.at + card.left = Written
        BY <1>5, <3>1 DEF RingNumbers
      <4> QED
        BY <4>1
    <3>5. PICK o \in 0..1 : o = One(card.sig)
      BY DEF One
    <3>6. l + k \in 0..b /\ at \in 0..w
      <4>1. f = l + o
        BY <3>3, <3>4, <3>5
      <4>2. k = b - f /\ at + l = w
        BY <2>5, <3>4
      <4> QED
        BY ONLY <4>1, <4>2, k \in Nat, l \in Nat, at \in Nat, w \in Nat, o \in 0..1, b \in Nat \ {0}
    <3>7. ComesNext(xs, w, w)
      <4>1. InLine(xs, w, w)
        <5> SUFFICES ASSUME NEW i \in 1..k PROVE xs[i] = due(w, w, i)
          BY <2>7 DEF InLine
        <5>1. ~ (w + i <= w)
          OBVIOUS
        <5> QED
          BY <2>7, <5>1 DEF due, A!Silence
      <4> QED
        BY <2>7, <4>1 DEF ComesNext
    <3>8. RingLine(Buf, Filled(Buf, card.ring, (card.pos + card.left) % Buf, xs), card.pos, card.left + Len(xs), card.at, Written)
      <4>1. card.left + Len(xs) <= Buf /\ card.at + card.left = Written /\ ComesNext(xs, Written, Written)
        BY <2>7, <3>4, <3>6, <3>7
      <4> QED
        BY ONLY <3>2, <4>1, RingTakes
    <3>9. card'.left \in 0..Buf /\ card'.at \in 0..Written'
      BY <2>10, <2>12, <3>4, <3>6
    <3>10. RingLine(Buf, card'.ring, card'.pos, card'.left, card'.at, Written')
      BY <2>7, <2>10, <2>12, <3>3, <3>8
    <3> QED
      BY <2>13, <3>9, <3>10 DEF RingAhead
  <2>16. RingAhead'
    BY <2>15 DEF RingAhead
  <2> QED
    BY <1>1, <2>10, <2>11, <2>12, <2>13, <2>14, <2>15, <2>16, RingNext
<1> QED
  BY <1>2, <1>3, <1>4, <1>5 DEF Sounds

\* A notification is handled: rpos moves, and an underrun stops the device.
LEMMA DsndOnplayStep == ASSUME AudioConstants, AudioInv, A!dsnd_onplay PROVE AudioInv'
<1>1. snd.api = "dsound" /\ card.sig /\ player.pc \in {"wait", "write", "paused"}
  BY DEF A!dsnd_onplay
<1>2. card \in Cards /\ snd \in Sounds
  BY AudioFields
<1>3. PICK ss : ss = [snd EXCEPT !.rpos = card.pos]
  OBVIOUS
<1>4. ss \in Sounds /\ ss.wpos = snd.wpos /\ ss.rpos = card.pos /\ ss.isfull = snd.isfull /\ ss.last = snd.last /\ ss.api = snd.api
  BY <1>2, <1>3 DEF Sounds, Cards
<1> DEFINE late == A!dsnd_filled(ss) > A!dsnd_filled(snd)
<1>5. late => A!dsnd_filled(ss) > A!dsnd_filled(snd)
  OBVIOUS
<1>6. /\ snd' = [ss EXCEPT !.isfull = FALSE, !.rpos = IF late THEN 0 ELSE @, !.wpos = IF late THEN 0 ELSE @]
      /\ card' = IF late THEN [card EXCEPT !.sig = FALSE, !.run = FALSE, !.pos = 0, !.left = 0] ELSE [card EXCEPT !.sig = FALSE]
      /\ IF player.pc = "wait" THEN A!Woken ELSE UNCHANGED player
  BY <1>3 DEF A!dsnd_onplay
<1> HIDE DEF late
<1>7. /\ card' \in Cards /\ card'.at = card.at /\ card'.bad = card.bad /\ card'.off = card.off /\ card'.ring = card.ring
      /\ card'.sig = FALSE /\ card'.pos = (IF late THEN 0 ELSE card.pos) /\ card'.left = (IF late THEN 0 ELSE card.left)
  <2>1. 0 \in Positions
    BY DEF AudioConstants, Positions
  <2>2. \A c \in Cards, p \in Positions, x \in Int : [c EXCEPT !.sig = FALSE, !.run = FALSE, !.pos = p, !.left = x] \in Cards
    BY DEF Cards
  <2>4. \A c \in Cards : [c EXCEPT !.sig = FALSE] \in Cards
    BY DEF Cards
  <2>5. 0 \in Int
    OBVIOUS
  <2>6. [card EXCEPT !.sig = FALSE, !.run = FALSE, !.pos = 0, !.left = 0] \in Cards
    BY ONLY <1>2, <2>1, <2>2, <2>5
  <2>3. card' \in Cards
    BY <1>2, <1>6, <2>4, <2>6
  <2> QED
    BY <1>2, <1>6, <2>3 DEF Cards
<1>8. /\ snd' \in Sounds /\ snd'.api = snd.api /\ snd'.last = snd.last /\ snd'.isfull = FALSE
      /\ snd'.rpos = (IF late THEN 0 ELSE card.pos) /\ snd'.wpos = (IF late THEN 0 ELSE snd.wpos)
  <2>1. 0 \in Positions
    BY DEF AudioConstants, Positions
  <2>2. PICK p \in Positions, q \in Positions : p = (IF late THEN 0 ELSE ss.rpos) /\ q = (IF late THEN 0 ELSE ss.wpos)
    BY <1>4, <2>1 DEF Sounds
  <2>3. snd' = [ss EXCEPT !.isfull = FALSE, !.rpos = p, !.wpos = q]
    BY <1>6, <2>2
  <2>4. \A y \in Sounds : [y EXCEPT !.isfull = FALSE, !.rpos = p, !.wpos = q] \in Sounds
    BY DEF Sounds
  <2>5. snd' \in Sounds
    BY <1>4, <2>3, <2>4
  <2>6. snd'.api = ss.api /\ snd'.last = ss.last /\ snd'.isfull = FALSE /\ snd'.rpos = p /\ snd'.wpos = q
    BY <1>4, <2>3 DEF Sounds
  <2> QED
    BY <1>4, <2>2, <2>5, <2>6
<1>9. player' \in Players /\ UserAt' /\ Written' = Written
  <2>1. CASE player.pc = "wait"
    <3>1. player' = [player EXCEPT !.pc = IF player.next > Input THEN "drain" ELSE "write"]
      BY <1>6, <2>1 DEF A!Woken
    <3> QED
      BY <1>1, <1>8, <2>1, <3>1, GoesOn
  <2>2. CASE player.pc # "wait"
    <3>1. player' = player
      BY <1>6, <2>2
    <3>2. UserAt'
      BY <1>8, <3>1 DEF AudioInv, UserAt
    <3> QED
      BY <3>1, <3>2, AudioFields DEF Written
  <2> QED
    BY <2>1, <2>2
<1>10. ~ card'.off => card'.at \in 0..Written' /\ RingAhead'
  <2> SUFFICES ASSUME ~ card.off PROVE card'.at \in 0..Written' /\ RingAhead'
    BY <1>7 DEF RingAhead
  <2>1. RingNumbers
    BY <1>1, RingFields
  <2>2. RingHas(Buf, card.ring, card.pos, card.left, card.at, Written)
    BY <1>1, RingFields
  <2>3. card'.at \in 0..Written'
    BY <1>7, <1>9, <2>1 DEF RingNumbers
  <2>4. card'.left \in 0..Buf /\ RingLine(Buf, card'.ring, card'.pos, card'.left, card'.at, Written')
    <3>1. CASE late
      <4>1. RingLine(Buf, card'.ring, card'.pos, 0, card'.at, Written')
        BY DEF RingLine
      <4>2. card'.left = 0 /\ 0 \in 0..Buf
        BY <1>7, <3>1 DEF AudioConstants
      <4> QED
        BY <4>1, <4>2
    <3>2. CASE ~ late
      BY <1>7, <1>9, <2>1, <2>2, <3>2 DEF RingNumbers, RingHas
    <3> QED
      BY <3>1, <3>2
  <2>5. CASE snd.last
    BY <1>8, <2>3, <2>4, <2>5 DEF RingAhead
  <2>6. CASE ~ snd.last
    <3>1. A!dsnd_filled(snd) = card.left + 1 /\ snd.wpos = (card.pos + card.left) % Buf
      BY <1>1, <2>6, RingFields DEF One
    <3>2. PICK b \in Nat \ {0}, l \in Nat, at \in Nat, w \in Nat :
              b = Buf /\ l = card.left /\ at = card.at /\ w = Written /\ at + l = w /\ l < b
      <4>1. /\ Buf \in Nat \ {0} /\ card.left \in Nat /\ card.at \in Nat /\ Written \in Nat
            /\ card.at + card.left = Written /\ card.left < Buf
        BY <1>1, <2>1, <2>6 DEF RingNumbers, One
      <4> QED
        BY <4>1
    <3>3. late => l = 0
      <4> SUFFICES ASSUME l # 0 PROVE ~ late
        OBVIOUS
      <4>1. PICK g \in 0..Buf : g = l /\ g # 0 /\ g # Buf
        BY <3>2
      <4>2. ss.wpos = (ss.rpos + g) % Buf
        BY <1>4, <3>1, <3>2, <4>1
      <4>3. A!dsnd_filled(ss) = g
        BY <1>4, <4>1, <4>2, FilledIs
      <4>4. ~ (l > l + 1)
        OBVIOUS
      <4> QED
        BY <1>5, <3>1, <3>2, <4>1, <4>3, <4>4
    <3>4. card'.left = l
      BY <1>7, <3>2, <3>3
    <3>5. snd'.wpos = (card'.pos + l) % Buf /\ snd'.rpos = card'.pos
      <4>1. CASE late
        <5>1. (0 + 0) % b = 0
          <6>1. 0 \in 0..(b - 1)
            OBVIOUS
          <6> QED
            BY <6>1, Wrap
        <5> QED
          BY <1>7, <1>8, <3>2, <3>3, <4>1, <5>1
      <4>2. CASE ~ late
        BY <1>7, <1>8, <3>1, <3>2, <4>2
      <4> QED
        BY <4>1, <4>2
    <3>6. A!dsnd_filled(snd') = l
      <4>1. PICK g \in 0..Buf : g = l /\ g # Buf
        BY <3>2
      <4>2. snd'.wpos = (snd'.rpos + g) % Buf
        BY <3>5, <4>1
      <4>3. A!dsnd_filled(snd') = g
        BY <1>8, <4>1, <4>2, FilledIs
      <4> QED
        BY <4>1, <4>3
    <3>7. A!dsnd_filled(snd)' = l
      BY <3>6 DEF A!dsnd_filled
    <3>8. card'.pos = (card'.pos - 0) % Buf
      <4>1. PICK p \in 0..(b - 1) : p = card'.pos
        BY <1>7, <3>2 DEF Cards, Positions
      <4>2. p - 0 = p /\ p % b = p
        BY <4>1, Wrap
      <4> QED
        BY <3>2, <4>1, <4>2
    <3>9. One(card'.sig) = 0
      BY <1>7 DEF One
    <3>10. l = l + 0 /\ card'.at + l = Written'
      BY <1>7, <1>9, <3>2
    <3> QED
      BY <2>3, <2>4, <3>4, <3>5, <3>7, <3>8, <3>9, <3>10 DEF RingAhead
  <2> QED
    BY <1>2, <2>5, <2>6 DEF Sounds
<1>11. RingAhead'
  BY <1>10 DEF RingAhead
<1> QED
  BY <1>1, <1>7, <1>8, <1>9, <1>10, <1>11, RingNext

\* The ring of DirectSound plays a sample.
LEMMA PlayRingStep == ASSUME AudioConstants, AudioInv, A!PlayRing PROVE AudioInv'
<1>1. snd.api = "dsound" /\ ~ card.sig /\ snd' = snd /\ player' = player
  BY DEF A!PlayRing
<1>2. card \in Cards /\ snd \in Sounds
  BY AudioFields
<1>3. PICK dd : dd = [card EXCEPT !.off = card.off \/ card.left = 0]
  OBVIOUS
<1>4. PICK xs : xs = << card.ring[card.pos] >>
  OBVIOUS
<1>5. card' = [A!play(dd, xs) EXCEPT !.pos = (@ + 1) % Buf, !.left = A!Max({0, @ - 1}), !.sig = TRUE]
  BY <1>3, <1>4 DEF A!PlayRing
<1>6. dd \in Cards /\ dd.off = (card.off \/ card.left = 0) /\ dd.pos = card.pos /\ dd.left = card.left
      /\ dd.at = card.at /\ dd.ring = card.ring /\ dd.bad = card.bad
  BY <1>2, <1>3 DEF Cards
<1>7. card.ring[card.pos] \in Int /\ card.left \in Int
  BY <1>2 DEF Cards
<1>8. xs \in Seq(Int) /\ Len(xs) = 1 /\ xs[1] = card.ring[card.pos]
  BY <1>4, <1>7
<1>9. PICK p \in Positions : p = (card.pos + 1) % Buf
  <2>1. PICK a \in Int, b \in Nat \ {0} : a = card.pos + 1 /\ b = Buf
    BY <1>2 DEF Cards, AudioConstants, Positions
  <2>2. a % b \in 0..(b - 1)
    BY Wrap
  <2> QED
    BY <2>1, <2>2 DEF Positions
<1>10. PICK y \in Nat : y = A!Max({0, card.left - 1}) /\ (card.left >= 1 => y = card.left - 1)
  <2>1. PICK c \in Int : c = card.left - 1
    BY <1>7
  <2>2. 0 \in Int
    OBVIOUS
  <2>3. A!Max({0, c}) = IF 0 <= c THEN c ELSE 0
    BY ONLY <2>2, c \in Int, Lesser
  <2>4. A!Max({0, c}) \in Nat /\ (0 <= c => A!Max({0, c}) = c)
    BY <2>3
  <2>5. card.left >= 1 => 0 <= c
    BY <1>7, <2>1
  <2> QED
    BY <2>1, <2>4, <2>5
<1>11. ASSUME NEW x \in Int, A!play(dd, xs) = [dd EXCEPT !.at = x]
       PROVE  /\ card' \in Cards /\ card'.at = x /\ card'.pos = p /\ card'.left = y /\ card'.sig = TRUE
              /\ card'.ring = card.ring /\ card'.bad = card.bad /\ card'.off = dd.off
  <2>1. [dd EXCEPT !.at = x].pos = card.pos /\ [dd EXCEPT !.at = x].left = card.left
    BY <1>6 DEF Cards
  <2>2. card' = [[dd EXCEPT !.at = x] EXCEPT !.pos = p, !.left = y, !.sig = TRUE]
    BY <1>5, <1>9, <1>10, <1>11, <2>1
  <2>3. \A c \in Cards : [c EXCEPT !.at = x] \in Cards
    BY DEF Cards
  <2>6. \A c \in Cards, q \in Int : [c EXCEPT !.pos = p, !.left = q, !.sig = TRUE] \in Cards
    BY DEF Cards
  <2>7. y \in Int
    OBVIOUS
  <2>4. \A c \in Cards : [c EXCEPT !.pos = p, !.left = y, !.sig = TRUE] \in Cards
    BY ONLY <2>6, <2>7, <1>9
  <2>5. card' \in Cards
    BY <1>6, <2>2, <2>3, <2>4
  <2> QED
    BY <1>6, <2>2, <2>5 DEF Cards
<1>12. player' \in Players /\ UserAt' /\ Written' = Written
  BY <1>1, AudioFields DEF AudioInv, UserAt, Written
<1>13. CASE card.off \/ card.left = 0
  <2>1. dd.off
    BY <1>6, <1>13
  <2>2. PICK x \in Int : A!play(dd, xs) = [dd EXCEPT !.at = x]
    BY <1>6, <1>8, <2>1, PlaysLate
  <2>3. card' \in Cards /\ card'.bad = card.bad /\ card'.off
    BY <1>11, <2>1, <2>2
  <2>4. RingAhead'
    BY <2>3 DEF RingAhead
  <2> QED
    BY <1>1, <1>2, <1>12, <2>3, <2>4, RingNext
<1>14. CASE ~ card.off /\ card.left # 0
  <2>1. RingNumbers
    BY <1>1, <1>14, RingFields
  <2>2. RingHas(Buf, card.ring, card.pos, card.left, card.at, Written)
    BY <1>1, <1>14, RingFields
  <2>3. PICK b \in Nat \ {0}, l \in Nat, at \in Nat, w \in Nat :
            b = Buf /\ l = card.left /\ at = card.at /\ w = Written /\ at <= w /\ l <= b /\ l > 0 /\ (~ snd.last => at + l = w)
    <3>1. /\ Buf \in Nat \ {0} /\ card.left \in Nat /\ card.at \in Nat /\ Written \in Nat
          /\ card.at <= Written /\ card.left <= Buf /\ card.left > 0 /\ (~ snd.last => card.at + card.left = Written)
      BY <1>14, <2>1 DEF RingNumbers
    <3> QED
      BY <3>1
  <2>4. /\ RingLine(Buf, card.ring, (card.pos + 1) % Buf, card.left - 1, IF card.at + 1 <= Written THEN card.at + 1 ELSE Written, Written)
        /\ (((card.pos + 1) % Buf) + (card.left - 1)) % Buf = (card.pos + card.left) % Buf
        /\ \A q \in 1..1 : card.ring[(card.pos + q - 1) % Buf] = due(card.at, Written, q)
    <3>1. 1 \in 0..card.left
      BY <2>3
    <3> QED
      BY ONLY <2>2, <3>1, RingGives
  <2>5. PICK m \in 0..1 : m = IF at + 1 <= w THEN 1 ELSE 0
    OBVIOUS
  <2>6. at + m = (IF at + 1 <= w THEN at + 1 ELSE w) /\ at + m <= w /\ (~ snd.last => at + m + (l - 1) = w)
    BY <2>3, <2>5
  <2>7. card.ring[card.pos] = due(at, w, 1)
    <3>1. PICK c \in 0..(b - 1) : c = card.pos
      BY <1>2, <2>3 DEF Cards, Positions
    <3>2. c + 1 - 1 = c /\ c % b = c /\ 1 \in 1..1
      BY <3>1, Wrap
    <3> QED
      BY <2>3, <2>4, <3>1, <3>2
  <2>8. A!play(dd, xs) = [dd EXCEPT !.at = dd.at + m]
    <3>1. m \in 0..Len(xs) /\ dd.at >= 0
      BY <1>6, <1>8, <2>3
    <3>2. \A j \in 1..m : xs[j] = dd.at + j
      <4> SUFFICES ASSUME NEW j \in 1..m PROVE xs[j] = dd.at + j
        OBVIOUS
      <4>1. j = 1 /\ at + 1 <= w
        BY <2>5
      <4> QED
        BY <1>6, <1>8, <2>3, <2>7, <4>1 DEF due
    <3>3. \A j \in (m + 1)..Len(xs) : xs[j] <= 0
      <4> SUFFICES ASSUME NEW j \in (m + 1)..1 PROVE xs[j] <= 0
        BY <1>8
      <4>1. j = 1 /\ ~ (at + 1 <= w)
        BY <2>5
      <4>2. xs[1] = 0
        BY <1>8, <2>7, <4>1 DEF due, A!Silence
      <4> QED
        BY <4>1, <4>2
    <3> QED
      BY <1>6, <1>8, <3>1, <3>2, <3>3, PlaysOn
  <2>9. PICK x \in Int : x = at + m
    OBVIOUS
  <2>10. A!play(dd, xs) = [dd EXCEPT !.at = x]
    BY <1>6, <2>3, <2>8, <2>9
  <2>11. /\ card' \in Cards /\ card'.at = x /\ card'.pos = p /\ card'.left = y /\ card'.sig = TRUE
         /\ card'.ring = card.ring /\ card'.bad = card.bad /\ card'.off = dd.off
    BY <1>11, <2>10
  <2>12. y = l - 1
    BY <1>10, <2>3
  <2>13. card'.at \in 0..Written' /\ card'.left \in 0..Buf
    BY <1>12, <2>3, <2>6, <2>9, <2>11, <2>12
  <2>14. RingLine(Buf, card'.ring, card'.pos, card'.left, card'.at, Written')
    BY <1>9, <1>12, <2>3, <2>4, <2>6, <2>9, <2>11, <2>12
  <2>15. ~ snd.last => A!dsnd_filled(snd) = card'.left + One(card'.sig)
                       /\ card'.at + card'.left = Written'
                       /\ snd.wpos = (card'.pos + card'.left) % Buf
                       /\ snd.rpos = (card'.pos - One(card'.sig)) % Buf
    <3> SUFFICES ASSUME ~ snd.last
                 PROVE  /\ A!dsnd_filled(snd) = card'.left + One(card'.sig)
                        /\ card'.at + card'.left = Written'
                        /\ snd.wpos = (card'.pos + card'.left) % Buf
                        /\ snd.rpos = (card'.pos - One(card'.sig)) % Buf
      OBVIOUS
    <3>1. /\ A!dsnd_filled(snd) = card.left + One(card.sig) /\ snd.wpos = (card.pos + card.left) % Buf
          /\ snd.rpos = (card.pos - One(card.sig)) % Buf
      BY <1>1, <1>14, RingFields
    <3>2. One(card.sig) = 0 /\ One(card'.sig) = 1
      BY <1>1, <2>11 DEF One
    <3>3. A!dsnd_filled(snd) = card'.left + One(card'.sig)
      <4>1. l + 0 = (l - 1) + 1
        OBVIOUS
      <4> QED
        BY <2>3, <2>11, <2>12, <3>1, <3>2, <4>1
    <3>4. card'.at + card'.left = Written'
      BY <1>12, <2>3, <2>6, <2>9, <2>11, <2>12
    <3>5. snd.wpos = (card'.pos + card'.left) % Buf
      BY <1>9, <2>3, <2>4, <2>11, <2>12, <3>1
    <3>6. snd.rpos = (card'.pos - One(card'.sig)) % Buf
      <4>1. PICK c \in 0..(b - 1) : c = card.pos
        BY <1>2, <2>3 DEF Cards, Positions
      <4>2. c - 0 = c /\ c % b = c
        BY Wrap
      <4>3. snd.rpos = c
        BY <2>3, <3>1, <3>2, <4>1, <4>2
      <4>4. (c + 1) % b = IF c + 1 < b THEN c + 1 ELSE c + 1 - b
        <5>1. 1 \in 0..b
          OBVIOUS
        <5> QED
          BY <5>1, RingPlace
      <4>5. PICK z : z = (c + 1) % b
        OBVIOUS
      <4>6. z = p
        BY <1>9, <2>3, <4>1, <4>5
      <4>7. z = IF c + 1 < b THEN c + 1 ELSE c + 1 - b
        BY <4>4, <4>5
      <4>8. PICK a \in Int : a = z - 1
        BY <4>7
      <4>9. CASE c + 1 < b
        <5>1. a = c
          BY <4>7, <4>8, <4>9
        <5> QED
          BY <2>3, <2>11, <3>2, <4>2, <4>3, <4>6, <4>8, <5>1
      <4>10. CASE ~ (c + 1 < b)
        <5>1. c = b - 1
          BY <4>10
        <5>2. a = -1 /\ a + b = c /\ a \in (-b)..(-1)
          BY <4>7, <4>8, <4>10, <5>1
        <5>3. a % b = a + b
          BY <5>2, Wrap
        <5>4. a % b = c
          BY <5>2, <5>3
        <5> QED
          BY <2>3, <2>11, <3>2, <4>3, <4>6, <4>8, <5>4
      <4> QED
        BY <4>9, <4>10
    <3> QED
      BY <3>3, <3>4, <3>5, <3>6
  <2>16. RingAhead'
    <3>1. A!dsnd_filled(snd)' = A!dsnd_filled(snd)
      BY <1>1
    <3> QED
      BY <1>1, <2>13, <2>14, <2>15, <3>1 DEF RingAhead
  <2> QED
    BY <1>1, <1>2, <1>12, <2>11, <2>13, <2>16, RingNext
<1> QED
  BY <1>13, <1>14

-----------------------------------------------------------------------------
\* A queue of at most two buffers, by its length.
LEMMA FewBuffers ==
    ASSUME NEW q \in Seq(Seq(Int)), Len(q) <= 2
    PROVE  \/ Len(q) = 0
           \/ Len(q) = 1 /\ q[1] \in Seq(Int)
           \/ Len(q) = 2 /\ q[1] \in Seq(Int) /\ q[2] \in Seq(Int)
<1>1. Len(q) \in Nat /\ \A i \in 1..Len(q) : q[i] \in Seq(Int)
  BY ElementOfSeq
<1>2. Len(q) = 0 \/ Len(q) = 1 \/ Len(q) = 2
  <2>1. PICK n \in Nat : n = Len(q) /\ n <= 2
    BY <1>1
  <2>2. n = 0 \/ n = 1 \/ n = 2
    BY <2>1
  <2> QED
    BY <2>1, <2>2
<1>3. Len(q) = 1 => 1 \in 1..Len(q)
  OBVIOUS
<1>4. Len(q) = 2 => 1 \in 1..Len(q) /\ 2 \in 1..Len(q)
  OBVIOUS
<1> QED
  BY <1>1, <1>2, <1>3, <1>4

Joined(a, b, c) == (a \o b) \o c = a \o (b \o c) /\ a \o b \in Seq(Int)
LEMMA Together ==
    ASSUME NEW a \in Seq(Int), NEW b \in Seq(Int), NEW c \in Seq(Int)
    PROVE  Joined(a, b, c)
<1>1. (a \o b) \o c = a \o (b \o c)
  BY ConcatAssociative
<1> QED
  BY <1>1, ConcatProperties DEF Joined

\* The samples of the buffers one after another, the one that is being filled last.
LEMMA LineSeq ==
    ASSUME NEW q \in Seq(Seq(Int)), NEW xs \in Seq(Int), Len(q) <= 2
    PROVE  LineOf(q, xs) \in Seq(Int)
<1>1. CASE Len(q) = 0
  BY <1>1 DEF LineOf
<1>2. CASE Len(q) = 1 /\ q[1] \in Seq(Int)
  <2>1. Joined(q[1], xs, xs)
    BY <1>2, Together
  <2> QED
    BY <1>2, <2>1 DEF LineOf, Joined
<1>3. CASE Len(q) = 2 /\ q[1] \in Seq(Int) /\ q[2] \in Seq(Int)
  <2>1. Joined(q[2], xs, xs)
    BY <1>3, Together
  <2>2. q[2] \o xs \in Seq(Int)
    BY <2>1 DEF Joined
  <2>3. Joined(q[1], q[2] \o xs, xs)
    BY <1>3, <2>2, Together
  <2> QED
    BY <1>3, <2>3 DEF LineOf, Joined
<1> QED
  BY <1>1, <1>2, <1>3, FewBuffers

\* What is put behind the buffer that is being filled is put behind the line.
LEMMA LineWrites ==
    ASSUME NEW q \in Seq(Seq(Int)), NEW xs \in Seq(Int), NEW ys \in Seq(Int), Len(q) <= 2
    PROVE  LineOf(q, xs \o ys) = LineOf(q, xs) \o ys
<1>1. CASE Len(q) = 0
  BY <1>1 DEF LineOf
<1>2. CASE Len(q) = 1 /\ q[1] \in Seq(Int)
  <2>1. Joined(q[1], xs, ys)
    BY <1>2, Together
  <2> QED
    BY <1>2, <2>1 DEF LineOf, Joined
<1>3. CASE Len(q) = 2 /\ q[1] \in Seq(Int) /\ q[2] \in Seq(Int)
  <2>1. Joined(q[2], xs, ys)
    BY <1>3, Together
  <2>2. q[2] \o xs \in Seq(Int)
    BY <2>1 DEF Joined
  <2>3. Joined(q[1], q[2] \o xs, ys)
    BY <1>3, <2>2, Together
  <2> QED
    BY <1>3, <2>1, <2>3 DEF LineOf, Joined
<1> QED
  BY <1>1, <1>2, <1>3, FewBuffers

\* The line is the same when the buffer that was filled is handed over.
LEMMA LineReleases ==
    ASSUME NEW q \in Seq(Seq(Int)), NEW xs \in Seq(Int), Len(q) <= 1
    PROVE  LineOf(Append(q, xs), << >>) = LineOf(q, xs)
<1>1. /\ Append(q, xs) \in Seq(Seq(Int)) /\ Len(Append(q, xs)) = Len(q) + 1 /\ Append(q, xs)[Len(q) + 1] = xs
      /\ \A i \in 1..Len(q) : Append(q, xs)[i] = q[i]
  BY AppendProperties
<1>2. xs \o << >> = xs
  BY ConcatEmptySeq
<1>3. CASE Len(q) = 0
  <2>1. Len(Append(q, xs)) = 1 /\ Append(q, xs)[1] = xs
    BY <1>1, <1>3
  <2> QED
    BY ONLY <1>2, <1>3, <2>1 DEF LineOf
<1>4. CASE Len(q) = 1
  <2>1. Len(Append(q, xs)) = 2 /\ Append(q, xs)[2] = xs /\ Append(q, xs)[1] = q[1]
    BY <1>1, <1>4
  <2> QED
    BY ONLY <1>2, <1>4, <2>1 DEF LineOf
<1>5. Len(q) = 0 \/ Len(q) = 1
  <2>1. PICK n \in Nat : n = Len(q) /\ n <= 1
    OBVIOUS
  <2>2. n = 0 \/ n = 1
    BY <2>1
  <2> QED
    BY <2>1, <2>2
<1> QED
  BY <1>3, <1>4, <1>5

\* The line of one buffer.
LEMMA LineOfOne ==
    ASSUME NEW q, NEW xs, Len(q) = 1
    PROVE  LineOf(q, xs) = q[1] \o xs
  BY DEF LineOf

\* The first buffer is what is played first.
LEMMA LinePlays ==
    ASSUME NEW q \in Seq(Seq(Int)), NEW xs \in Seq(Int), Len(q) <= 2, q # << >>
    PROVE  /\ LineOf(q, xs) = Head(q) \o LineOf(Tail(q), xs)
           /\ Head(q) \in Seq(Int) /\ Tail(q) \in Seq(Seq(Int)) /\ Len(Tail(q)) = Len(q) - 1
           /\ Head(q) = q[1] /\ \A i \in 1..Len(Tail(q)) : Tail(q)[i] = q[i + 1]
<1>1. /\ Head(q) \in Seq(Int) /\ Tail(q) \in Seq(Seq(Int)) /\ Len(Tail(q)) = Len(q) - 1
      /\ \A i \in 1..Len(Tail(q)) : Tail(q)[i] = q[i + 1]
  BY HeadTailProperties
<1>2. Head(q) = q[1] /\ Len(q) \in Nat /\ Len(q) # 0
  BY EmptySeq
<1>3. CASE Len(q) = 1
  <2>1. Len(Tail(q)) = 0
    BY <1>1, <1>3
  <2> QED
    BY <1>1, <1>2, <1>3, <2>1 DEF LineOf
<1>4. CASE Len(q) = 2
  <2>1. Len(Tail(q)) = 1 /\ Tail(q)[1] = q[2]
    BY <1>1, <1>4
  <2>2. LineOf(Tail(q), xs) = q[2] \o xs
    <3>1. LineOf(Tail(q), xs) = Tail(q)[1] \o xs
      BY ONLY <2>1, LineOfOne
    <3> QED
      BY <2>1, <3>1
  <2>3. LineOf(q, xs) = q[1] \o (q[2] \o xs)
    BY <1>4 DEF LineOf
  <2> QED
    BY <1>1, <1>2, <2>2, <2>3
<1> QED
  BY <1>1, <1>2, <1>3, <1>4, FewBuffers

\* The two parts of a concatenation.
LEMMA PartsOf ==
    ASSUME NEW p \in Seq(Int), NEW q \in Seq(Int)
    PROVE  /\ SubSeq(p \o q, 1, Len(p)) = p
           /\ SubSeq(p \o q, Len(p) + 1, Len(p \o q)) = q
           /\ Len(p \o q) = Len(p) + Len(q) /\ p \o q \in Seq(Int)
<1>1. PICK n \in Nat, k \in Nat : n = Len(p) /\ k = Len(q)
  OBVIOUS
<1>2. /\ p \o q \in Seq(Int) /\ Len(p \o q) = n + k
      /\ \A i \in 1..(n + k) : (p \o q)[i] = IF i <= n THEN p[i] ELSE q[i - n]
  BY <1>1, ConcatProperties
<1>3. PICK r \in Seq(Int) : r = p \o q /\ Len(r) = n + k
  BY <1>2
<1>4. \A i \in 1..n : r[i] = p[i]
  <2> SUFFICES ASSUME NEW i \in 1..n PROVE r[i] = p[i]
    OBVIOUS
  <2>1. i \in 1..(n + k) /\ i <= n
    OBVIOUS
  <2> QED
    BY <1>2, <1>3, <2>1
<1>5. \A i \in 1..k : r[n + i] = q[i]
  <2> SUFFICES ASSUME NEW i \in 1..k PROVE r[n + i] = q[i]
    OBVIOUS
  <2>1. n + i \in 1..(n + k) /\ ~ (n + i <= n) /\ (n + i) - n = i
    OBVIOUS
  <2> QED
    BY <1>2, <1>3, <2>1
<1>6. SubSeq(r, 1, n) = p
  <2>1. PICK s : s = SubSeq(r, 1, n)
    OBVIOUS
  <2>2. s \in Seq(Int) /\ Len(s) = n /\ \A i \in 1..n : s[i] = r[i]
    BY <1>3, <2>1, SubSeqProperties
  <2>3. s = p
    BY <1>1, <1>4, <2>2, SeqEqual
  <2> QED
    BY <2>1, <2>3
<1>7. SubSeq(r, n + 1, n + k) = q
  <2>1. PICK s : s = SubSeq(r, n + 1, n + k)
    OBVIOUS
  <2>2. s \in Seq(Int) /\ Len(s) = k /\ \A i \in 1..k : s[i] = r[i + n]
    BY <1>3, <2>1, SubSeqProperties
  <2>3. \A i \in 1..k : i + n = n + i
    OBVIOUS
  <2>4. s = q
    BY <1>1, <1>5, <2>2, <2>3, SeqEqual
  <2> QED
    BY <2>1, <2>4
<1> QED
  BY <1>1, <1>2, <1>3, <1>6, <1>7

\* A step of exclusive mode.
LEMMA ExclNext ==
    ASSUME AudioInv, snd.api = "excl", snd' \in Sounds, snd'.api = snd.api,
           card' \in Cards, card'.bad = card.bad, player' \in Players, UserAt',
           BuffersAhead', ~ card'.off => card'.at \in 0..Written',
           player'.pc = "done" /\ ~ card'.off => card'.at = Written'
    PROVE  AudioInv'
<1>1. Heard'
  BY DEF AudioInv, Heard
<1> QED
  BY <1>1 DEF AudioInv, AudioTypes, Queues

\* What the buffers hold before anything was missed.
BufferNumbers ==
    /\ Len(card.queue) \in Nat /\ Len(snd.wbuf) \in Nat /\ snd.evt \in Nat /\ snd.actv \in Nat
    /\ card.at \in Nat /\ Written \in Nat /\ card.at <= Written /\ Buf \in Nat \ {0}
    /\ Len(card.queue) <= 2 /\ Len(snd.wbuf) < Buf /\ snd.actv <= 2
LEMMA BufferFields ==
    ASSUME AudioConstants, AudioInv, snd.api = "excl", ~ card.off
    PROVE  /\ BufferNumbers /\ ~ card.bad
           /\ card.queue \in Seq(Seq(Int)) /\ snd.wbuf \in Seq(Int) /\ Line \in Seq(Int)
           /\ InLine(Line, card.at, Written) /\ card.at + Len(Line) >= Written
           /\ ~ snd.last => card.at + Len(Line) = Written
<1>1. BuffersAhead /\ card.at \in 0..Written /\ Written \in Int /\ ~ card.bad
  BY AudioFields DEF AudioInv, Heard
<1>2. card.queue \in Seq(Seq(Int)) /\ snd.wbuf \in Seq(Int) /\ snd.evt \in Nat /\ snd.actv \in Nat
  BY <1>1, AudioFields DEF BuffersAhead, Sounds
<1>3. Len(card.queue) \in Nat /\ One(card.sig) \in Nat
  BY <1>2 DEF One
<1>4. Len(card.queue) <= 2
  <2>1. CASE JustCleared
    BY <2>1 DEF JustCleared
  <2>2. CASE Len(card.queue) + snd.evt + One(card.sig) <= snd.actv
    <3>1. snd.actv <= 2
      BY <1>1 DEF BuffersAhead
    <3> QED
      BY <1>2, <1>3, <2>2, <3>1
  <2> QED
    BY <1>1, <2>1, <2>2 DEF BuffersAhead
<1>5. Line \in Seq(Int)
  BY <1>2, <1>4, LineSeq DEF Line
<1>6. BufferNumbers
  BY <1>1, <1>2, <1>3, <1>4 DEF BufferNumbers, BuffersAhead, AudioConstants
<1> QED
  BY <1>1, <1>2, <1>5, <1>6 DEF BuffersAhead

\* The exclusive device plays a buffer in time.
LEMMA BufferPlays ==
    ASSUME AudioConstants, AudioInv, snd.api = "excl", ~ card.off, card.queue # << >>
    PROVE  \E x \in Nat : /\ A!play(card, Head(card.queue)) = [card EXCEPT !.at = x]
                          /\ card.at <= x /\ x <= Written
                          /\ InLine(LineOf(Tail(card.queue), snd.wbuf), x, Written)
                          /\ x + Len(LineOf(Tail(card.queue), snd.wbuf)) >= Written
                          /\ ~ snd.last => x + Len(LineOf(Tail(card.queue), snd.wbuf)) = Written
<1>1. PICK q \in Seq(Seq(Int)), buf \in Seq(Int), l \in Seq(Int), at \in Nat, w \in Nat :
          /\ q = card.queue /\ buf = snd.wbuf /\ l = LineOf(q, buf) /\ at = card.at /\ w = Written
          /\ q # << >> /\ Len(q) <= 2 /\ at <= w /\ InLine(l, at, w) /\ at + Len(l) >= w
          /\ ~ snd.last => at + Len(l) = w
  <2>1. /\ BufferNumbers /\ card.queue \in Seq(Seq(Int)) /\ snd.wbuf \in Seq(Int) /\ Line \in Seq(Int)
        /\ InLine(Line, card.at, Written) /\ card.at + Len(Line) >= Written
        /\ ~ snd.last => card.at + Len(Line) = Written
    BY BufferFields
  <2>2. Len(card.queue) <= 2 /\ card.at \in Nat /\ Written \in Nat /\ card.at <= Written
    BY <2>1 DEF BufferNumbers
  <2> QED
    BY <2>1, <2>2 DEF Line
<1>2. PICK xs \in Seq(Int), rest \in Seq(Seq(Int)) :
          xs = Head(q) /\ rest = Tail(q) /\ Len(rest) = Len(q) - 1 /\ l = xs \o LineOf(rest, buf)
  BY <1>1, LinePlays
<1>3. PICK more \in Seq(Int) : more = LineOf(rest, buf)
  <2>1. Len(rest) <= 2
    <3>1. PICK n \in Nat : n = Len(q) /\ n <= 2
      BY <1>1
    <3>2. n - 1 <= 2
      BY <3>1
    <3> QED
      BY <1>2, <3>1, <3>2
  <2> QED
    BY <2>1, LineSeq
<1>4. PICK k \in Nat, m \in Nat : k = Len(xs) /\ m = Len(more)
  OBVIOUS
<1>5. SubSeq(l, 1, k) = xs /\ SubSeq(l, k + 1, Len(l)) = more /\ Len(l) = k + m
  <2>1. /\ SubSeq(xs \o more, 1, Len(xs)) = xs
        /\ SubSeq(xs \o more, Len(xs) + 1, Len(xs \o more)) = more
        /\ Len(xs \o more) = Len(xs) + Len(more)
    BY PartsOf
  <2> QED
    BY <1>2, <1>3, <1>4, <2>1
<1>6. PICK i \in 0..k : /\ at + i \in at..w /\ (at + i # w => i = k)
                        /\ \A j \in 1..i : xs[j] = at + j
                        /\ \A j \in (i + 1)..k : xs[j] = 0
                        /\ InLine(more, at + i, w)
  <2>1. k \in 0..Len(l) /\ at <= w
    BY <1>1, <1>5
  <2>2. \E i \in 0..k : /\ at + i \in at..w /\ (at + i # w => i = k)
                        /\ \A j \in 1..i : SubSeq(l, 1, k)[j] = at + j
                        /\ \A j \in (i + 1)..k : SubSeq(l, 1, k)[j] = 0
                        /\ InLine(SubSeq(l, k + 1, Len(l)), at + i, w)
    <3>1. InLine(l, at, w)
      BY <1>1
    <3> QED
      BY ONLY <2>1, <3>1, LineShrinks
  <2> QED
    BY <1>5, <2>2
<1>7. PICK x \in Nat : x = at + i /\ at <= x /\ x <= w
  BY <1>6
<1>8. A!play(card, xs) = [card EXCEPT !.at = x]
  <2>1. i \in 0..Len(xs) /\ card.at >= 0 /\ card \in Cards
    BY <1>1, <1>4, AudioFields
  <2>2. \A j \in 1..i : xs[j] = card.at + j
    BY <1>1, <1>6
  <2>3. \A j \in (i + 1)..Len(xs) : xs[j] <= 0
    BY <1>4, <1>6
  <2>4. A!play(card, xs) = [card EXCEPT !.at = card.at + i]
    BY <2>1, <2>2, <2>3, PlaysOn
  <2> QED
    BY <1>1, <1>7, <2>4
<1>9. x + m >= w /\ (~ snd.last => x + m = w)
  <2>1. at + (k + m) >= w /\ (~ snd.last => at + (k + m) = w)
    BY <1>1, <1>5
  <2>2. CASE i = k
    BY <1>7, <2>1, <2>2
  <2>3. CASE i # k
    <3>1. x = w /\ i < k
      BY <1>6, <1>7, <2>3
    <3>2. ~ snd.last => FALSE
      <4>1. SUFFICES ASSUME ~ snd.last PROVE FALSE
        OBVIOUS
      <4>2. at + (k + m) = w
        BY <2>1, <4>1
      <4> QED
        BY <1>7, <3>1, <4>2
    <3> QED
      BY <3>1, <3>2
  <2> QED
    BY <2>2, <2>3
<1> QED
  BY <1>1, <1>2, <1>3, <1>4, <1>6, <1>7, <1>8, <1>9

\* The exclusive device plays a buffer, or has none to play.
LEMMA PlayBufferStep == ASSUME AudioConstants, AudioInv, A!PlayBuffer PROVE AudioInv'
<1>1. snd.api = "excl" /\ snd' = snd /\ player' = player /\ card.run
  BY DEF A!PlayBuffer
<1>2. snd \in Sounds /\ card \in Cards /\ player \in Players /\ BuffersAhead
  BY <1>1, AudioFields DEF AudioInv
<1>3. Written' = Written /\ UserAt' /\ player'.pc # "paused"
  BY <1>1, <1>2 DEF AudioInv, UserAt, Written, BuffersAhead
<1>4. CASE card.queue = << >>
  <2>1. card' = [card EXCEPT !.sig = TRUE, !.off = TRUE]
    BY <1>4 DEF A!PlayBuffer
  <2>2. card' \in Cards /\ card'.off /\ card'.queue = card.queue /\ card'.bad = card.bad
    BY <1>2, <2>1 DEF Cards
  <2>3. BuffersAhead'
    BY <1>1, <1>2, <1>3, <2>2 DEF BuffersAhead
  <2> QED
    BY <1>1, <1>2, <1>3, <2>2, <2>3, ExclNext
<1>5. CASE card.queue # << >>
  <2>1. card.queue \in Seq(Seq(Int)) /\ \A j \in 1..Len(card.queue) : Len(card.queue[j]) = Buf
    BY <1>2 DEF BuffersAhead
  <2>2. PICK xs \in Seq(Int), rest \in Seq(Seq(Int)), n \in Nat :
            /\ xs = Head(card.queue) /\ rest = Tail(card.queue) /\ n = Len(card.queue) /\ n # 0
            /\ Len(rest) = n - 1 /\ \A j \in 1..Len(rest) : rest[j] = card.queue[j + 1]
    <3>1. /\ Head(card.queue) \in Seq(Int) /\ Tail(card.queue) \in Seq(Seq(Int))
          /\ Len(Tail(card.queue)) = Len(card.queue) - 1
          /\ \A j \in 1..Len(Tail(card.queue)) : Tail(card.queue)[j] = card.queue[j + 1]
      BY <1>5, <2>1, HeadTailProperties
    <3>2. Len(card.queue) \in Nat /\ Len(card.queue) # 0
      BY <1>5, <2>1, EmptySeq
    <3> QED
      BY <3>1, <3>2
  <2>3. card' = [A!play(card, xs) EXCEPT !.queue = Tail(@), !.sig = TRUE]
    BY <1>5, <2>2 DEF A!PlayBuffer
  <2> DEFINE Good(y) == /\ card.at <= y /\ y <= Written /\ y \in Nat
                        /\ InLine(LineOf(rest, snd.wbuf), y, Written)
                        /\ y + Len(LineOf(rest, snd.wbuf)) >= Written
                        /\ ~ snd.last => y + Len(LineOf(rest, snd.wbuf)) = Written
  <2>4. PICK x \in Int : A!play(card, xs) = [card EXCEPT !.at = x] /\ (~ card.off => Good(x))
    <3>1. CASE card.off
      BY <1>2, <3>1, PlaysLate
    <3>2. CASE ~ card.off
      <4>1. PICK x \in Nat : /\ A!play(card, xs) = [card EXCEPT !.at = x]
                             /\ card.at <= x /\ x <= Written
                             /\ InLine(LineOf(rest, snd.wbuf), x, Written)
                             /\ x + Len(LineOf(rest, snd.wbuf)) >= Written
                             /\ ~ snd.last => x + Len(LineOf(rest, snd.wbuf)) = Written
        BY <1>1, <1>5, <2>2, <3>2, BufferPlays
      <4>2. x \in Int
        OBVIOUS
      <4> QED
        BY <4>1, <4>2
    <3> QED
      BY <3>1, <3>2
  <2>5. card' = [[card EXCEPT !.at = x] EXCEPT !.queue = rest, !.sig = TRUE]
    <3>1. [card EXCEPT !.at = x].queue = card.queue
      BY <1>2 DEF Cards
    <3> QED
      BY <2>2, <2>3, <2>4, <3>1
  <2>6. card' \in Cards
    <3>1. [card EXCEPT !.at = x] \in Cards
      BY <1>2 DEF Cards
    <3>2. \A c \in Cards : [c EXCEPT !.queue = rest, !.sig = TRUE] \in Cards
      BY DEF Cards
    <3> QED
      BY <2>5, <3>1, <3>2
  <2>7. /\ card'.queue = rest /\ card'.at = x /\ card'.sig = TRUE /\ card'.run = card.run
        /\ card'.off = card.off /\ card'.bad = card.bad
    <3> DEFINE c == [card EXCEPT !.at = x]
    <3>1. c \in Cards /\ c.at = x /\ c.run = card.run /\ c.off = card.off /\ c.bad = card.bad
      BY <1>2 DEF Cards
    <3>2. card' = [c EXCEPT !.queue = rest, !.sig = TRUE]
      BY <2>5
    <3> HIDE DEF c
    <3>3. card'.queue = rest /\ card'.sig = TRUE /\ card'.at = c.at
      BY <3>1, <3>2 DEF Cards
    <3>4. card'.run = c.run /\ card'.off = c.off /\ card'.bad = c.bad
      BY <3>1, <3>2 DEF Cards
    <3> QED
      BY <3>1, <3>3, <3>4
  <2>13. card'.at = x /\ card'.off = card.off
    BY <2>7
  <2>14. ~ card.off => Good(x)
    <3> HIDE DEF Good
    <3> QED
      BY <2>4, Zenon
  <2>8. \A j \in 1..Len(rest) : Len(rest[j]) = Buf
    <3> SUFFICES ASSUME NEW j \in 1..(n - 1) PROVE Len(rest[j]) = Buf
      BY <2>2
    <3>1. j + 1 \in 1..n /\ j \in 1..(n - 1)
      OBVIOUS
    <3> QED
      BY <2>1, <2>2, <3>1
  <2>9. ~ card.off => Len(rest) + snd.evt + One(TRUE) <= snd.actv
    <3> SUFFICES ASSUME ~ card.off PROVE Len(rest) + snd.evt + One(TRUE) <= snd.actv
      OBVIOUS
    <3>1. n + snd.evt + One(card.sig) <= snd.actv
      BY <1>1, <2>2, EventsCounted DEF JustCleared
    <3>2. PICK e \in Nat, c \in Nat, o \in 0..1 : e = snd.evt /\ c = snd.actv /\ o = One(card.sig)
      BY <1>2 DEF One, Sounds
    <3>3. One(TRUE) = 1
      BY DEF One
    <3>4. n + e + o <= c
      BY <3>1, <3>2
    <3>5. (n - 1) + e + 1 <= c
      BY <3>4
    <3> QED
      BY <2>2, <3>2, <3>3, <3>5
  <2>10. BuffersAhead'
    <3>1. Line' = LineOf(rest, snd.wbuf)
      BY <1>1, <2>7 DEF Line
    <3>2. /\ card'.queue \in Seq(Seq(Int)) /\ (\A b \in 1..Len(card'.queue) : Len(card'.queue[b]) = Buf)
          /\ Len(snd'.wbuf) < Buf /\ snd'.actv <= 2 /\ (snd'.actv = 2 => snd'.wbuf = << >>)
          /\ player'.pc # "paused"
      BY <1>1, <1>2, <1>3, <2>7, <2>8 DEF BuffersAhead
    <3>3. ASSUME ~ card'.off
          PROVE  /\ Len(card'.queue) + snd'.evt + One(card'.sig) <= snd'.actv
                 /\ InLine(Line', card'.at, Written') /\ card'.at + Len(Line') >= Written'
                 /\ (~ snd'.last => card'.at + Len(Line') = Written')
      <4>1. ~ card.off
        BY <3>3, <2>13, Zenon
      <4>2. /\ Len(rest) + snd.evt + One(TRUE) <= snd.actv
            /\ InLine(LineOf(rest, snd.wbuf), x, Written) /\ x + Len(LineOf(rest, snd.wbuf)) >= Written
            /\ ~ snd.last => x + Len(LineOf(rest, snd.wbuf)) = Written
        BY <4>1, <2>14, <2>9
      <4>3. /\ snd' = snd /\ Written' = Written /\ Line' = LineOf(rest, snd.wbuf)
            /\ card'.queue = rest /\ card'.sig = TRUE /\ card'.at = x
        BY <1>1, <1>3, <2>7, <3>1
      <4> QED
        BY ONLY <4>2, <4>3, Zenon
    <3> QED
      BY <3>2, <3>3 DEF BuffersAhead
  <2>11. ~ card'.off => card'.at \in 0..Written'
    <3> SUFFICES ASSUME ~ card.off PROVE x \in 0..Written
      BY <1>3, <2>13, Zenon
    <3> QED
      BY <2>14, AudioFields
  <2>12. player'.pc = "done" /\ ~ card'.off => card'.at = Written'
    <3> SUFFICES ASSUME player.pc = "done", ~ card.off PROVE x = Written
      BY <1>1, <1>3, <2>13, Zenon
    <3>1. card.at = Written
      BY <1>1 DEF AudioInv, Heard
    <3> QED
      BY <2>14, <3>1, AudioFields
  <2> QED
    BY <1>1, <1>2, <1>3, <2>6, <2>7, <2>10, <2>11, <2>12, ExclNext
<1> QED
  BY <1>4, <1>5

\* The events since the last call are taken off.
LEMMA EventsFields ==
    ASSUME AudioConstants, AudioInv, snd.api = "excl"
    PROVE  \E a \in Nat : /\ \A y \in Sounds : y.actv = snd.actv /\ y.evt = snd.evt =>
                                A!Events(y) = [y EXCEPT !.actv = a, !.evt = 0] /\ A!Events(y) \in Sounds
                          /\ a <= snd.actv
                          /\ ~ card.off => Len(card.queue) + 0 + One(card.sig) <= a
<1>1. PICK n \in Nat, e \in Nat : n = snd.actv /\ e = snd.evt
  BY AudioFields DEF Sounds
<1>2. A!Max({0, n - e}) = IF 0 <= n - e THEN n - e ELSE 0
  <2>1. PICK z \in Int, c \in Int : z = 0 /\ c = n - e
    OBVIOUS
  <2>2. A!Max({z, c}) = IF z <= c THEN c ELSE z
    BY Lesser
  <2> QED
    BY <2>1, <2>2
<1>3. PICK a \in Nat : a = A!Max({0, n - e}) /\ a <= n /\ n - e <= a
  BY <1>2
<1>4. ASSUME NEW y \in Sounds, y.actv = snd.actv, y.evt = snd.evt
      PROVE  A!Events(y) = [y EXCEPT !.actv = a, !.evt = 0] /\ A!Events(y) \in Sounds
  <2>1. A!Events(y) = [y EXCEPT !.actv = a, !.evt = 0]
    BY <1>1, <1>3, <1>4 DEF A!Events
  <2>2. \A z \in Sounds : [z EXCEPT !.actv = a, !.evt = 0] \in Sounds
    BY DEF Sounds
  <2> QED
    BY <2>1, <2>2
<1>5. ~ card.off => Len(card.queue) + 0 + One(card.sig) <= a
  <2> SUFFICES ASSUME ~ card.off PROVE Len(card.queue) + 0 + One(card.sig) <= a
    OBVIOUS
  <2>1. Len(card.queue) \in Nat /\ One(card.sig) \in 0..1
    BY BufferFields DEF One
  <2>2. CASE Len(card.queue) + snd.evt + One(card.sig) <= snd.actv
    BY <1>1, <1>3, <2>1, <2>2
  <2>3. CASE JustCleared
    <3>1. Len(card.queue) = 0 /\ One(card.sig) = 0
      BY <2>3 DEF JustCleared, One
    <3> QED
      BY <1>3, <3>1
  <2> QED
    BY <2>2, <2>3, EventsCounted
<1> QED
  BY <1>1, <1>3, <1>4, <1>5

-----------------------------------------------------------------------------
\* A write of exclusive mode begins.
LEMMA WasWriteStep == ASSUME AudioConstants, AudioInv, A!was_write PROVE AudioInv'
<1>1. snd.api = "excl" /\ player.pc = "call" /\ player' = [player EXCEPT !.pc = "copy", !.n = 0]
  BY DEF A!was_write, A!Is
<1>2. snd \in Sounds /\ card \in Cards /\ player \in Players /\ BuffersAhead
  BY <1>1, AudioFields DEF AudioInv
<1>3. player.n = 0 /\ ~ snd.last /\ player.next \in 1..(Input + 1) /\ player.next + player.len <= Input + 1 /\ player.len > 0
  BY <1>1 DEF AudioInv, UserAt
<1>4. PICK run \in BOOLEAN, y \in Sounds :
          /\ card' = [card EXCEPT !.run = run] /\ snd' = A!Events(y)
          /\ y.actv = snd.actv /\ y.evt = snd.evt /\ y.api = snd.api /\ y.last = snd.last /\ y.wbuf = snd.wbuf
  <2>1. /\ A!stopped(snd) \in Sounds /\ A!stopped(snd).actv = snd.actv /\ A!stopped(snd).evt = snd.evt
        /\ A!stopped(snd).api = snd.api /\ A!stopped(snd).last = snd.last /\ A!stopped(snd).wbuf = snd.wbuf
    BY <1>2 DEF Sounds, A!stopped
  <2>2. CASE snd.evt > snd.actv
    <3>1. snd' = A!Events(A!stopped(snd)) /\ card' = [card EXCEPT !.run = FALSE]
      BY <2>2 DEF A!was_write
    <3> QED
      BY <2>1, <3>1
  <2>3. CASE ~ (snd.evt > snd.actv)
    <3>1. snd' = A!Events(snd) /\ card' = [card EXCEPT !.run = card.run /\ TRUE]
      BY <2>3 DEF A!was_write
    <3> QED
      BY <1>2, <3>1 DEF Cards
  <2> QED
    BY <2>2, <2>3
<1>5. PICK a \in Nat : /\ A!Events(y) = [y EXCEPT !.actv = a, !.evt = 0] /\ A!Events(y) \in Sounds
                       /\ a <= snd.actv
                       /\ ~ card.off => Len(card.queue) + 0 + One(card.sig) <= a
  BY <1>1, <1>4, EventsFields
<1>6. /\ snd' \in Sounds /\ snd'.api = snd.api /\ snd'.last = snd.last /\ snd'.wbuf = snd.wbuf /\ snd'.actv = a /\ snd'.evt = 0
  BY <1>4, <1>5 DEF Sounds
<1>7. /\ card' \in Cards /\ card'.queue = card.queue /\ card'.at = card.at /\ card'.bad = card.bad
      /\ card'.off = card.off /\ card'.sig = card.sig
  BY <1>2, <1>4 DEF Cards
<1>8. player' \in Players /\ player'.pc = "copy" /\ player'.n = 0 /\ player'.next = player.next /\ player'.len = player.len
  BY <1>1, <1>2 DEF Players
<1>9. UserAt' /\ Written' = Written
  <2>1. Written' = Written
    BY <1>3, <1>8 DEF Written
  <2>2. 0 <= player.len
    BY <1>2 DEF Players
  <2> QED
    BY <1>1, <1>3, <1>6, <1>8, <2>1, <2>2 DEF UserAt
<1>10. a <= 2 /\ (a = 2 => snd.wbuf = << >>)
  <2>1. PICK n \in Nat : n = snd.actv /\ n <= 2 /\ a <= n /\ (n = 2 => snd.wbuf = << >>)
    BY <1>2, <1>5 DEF BuffersAhead, Sounds
  <2> QED
    BY <2>1
<1>11. BuffersAhead'
  <2>1. Line' = Line
    BY <1>6, <1>7 DEF Line
  <2> QED
    BY <1>2, <1>5, <1>6, <1>7, <1>8, <1>9, <1>10, <2>1 DEF BuffersAhead
<1>12. ~ card'.off => card'.at \in 0..Written'
  BY <1>7, <1>9 DEF AudioInv, Heard
<1> QED
  BY <1>1, <1>6, <1>7, <1>8, <1>9, <1>11, <1>12, ExclNext

\* A buffer that was filled is handed to the device.
LEMMA Released ==
    ASSUME AudioConstants, NEW y \in Sounds, NEW c \in Cards, c.queue \in Seq(Seq(Int)), Len(y.wbuf) <= Buf,
           \A j \in 1..Len(c.queue) : Len(c.queue[j]) = Buf
    PROVE  \E r1 \in Sounds, r2 \in Cards :
              /\ A!released(y, c) = << r1, r2 >>
              /\ r1.api = y.api /\ r1.last = y.last /\ r1.evt = y.evt /\ Len(r1.wbuf) < Buf
              /\ r2.at = c.at /\ r2.bad = c.bad /\ r2.off = c.off /\ r2.sig = c.sig /\ r2.run = c.run
              /\ r2.queue \in Seq(Seq(Int)) /\ \A j \in 1..Len(r2.queue) : Len(r2.queue[j]) = Buf
              /\ \/ r1.wbuf = y.wbuf /\ r1.actv = y.actv /\ r2.queue = c.queue
                 \/ r1.wbuf = << >> /\ r1.actv = y.actv + 1 /\ r2.queue = Append(c.queue, y.wbuf)
<1>1. PICK b \in Nat \ {0}, l \in Nat : b = Buf /\ l = Len(y.wbuf) /\ l <= b
  <2>1. y.wbuf \in Seq(Int) /\ Buf \in Nat \ {0}
    BY DEF AudioConstants, Sounds
  <2>2. Len(y.wbuf) \in Nat
    BY <2>1
  <2> QED
    BY <2>1, <2>2
<1>2. CASE l < b
  <2>1. A!released(y, c) = << y, c >>
    BY <1>1, <1>2 DEF A!released
  <2> QED
    BY <1>1, <1>2, <2>1
<1>3. CASE ~ (l < b)
  <2>1. PICK r1, r2 : r1 = [y EXCEPT !.wbuf = << >>, !.actv = y.actv + 1] /\ r2 = [c EXCEPT !.queue = Append(c.queue, y.wbuf)]
    OBVIOUS
  <2>2. A!released(y, c) = << r1, r2 >>
    BY <1>1, <1>3, <2>1 DEF A!released
  <2>3. y.wbuf \in Seq(Int) /\ l = b /\ y.actv + 1 \in Nat /\ << >> \in Seq(Int) /\ Len(<< >>) = 0
    BY <1>1, <1>3, EmptySeq DEF Sounds
  <2>4. PICK q \in Seq(Seq(Int)), n \in Nat :
            /\ q = Append(c.queue, y.wbuf) /\ n = Len(c.queue) /\ Len(q) = n + 1 /\ q[n + 1] = y.wbuf
            /\ \A j \in 1..n : q[j] = c.queue[j]
    <3>1. PICK p \in Seq(Seq(Int)), v \in Seq(Int) : p = c.queue /\ v = y.wbuf
      BY <2>3
    <3>2. /\ Append(p, v) \in Seq(Seq(Int)) /\ Len(Append(p, v)) = Len(p) + 1 /\ Append(p, v)[Len(p) + 1] = v
          /\ \A j \in 1..Len(p) : Append(p, v)[j] = p[j]
      BY AppendProperties
    <3>3. Len(p) \in Nat
      OBVIOUS
    <3> QED
      BY <3>1, <3>2, <3>3
  <2>5. \A j \in 1..Len(q) : Len(q[j]) = Buf
    <3> SUFFICES ASSUME NEW j \in 1..(n + 1) PROVE Len(q[j]) = Buf
      BY <2>4
    <3>1. CASE j = n + 1
      BY <1>1, <2>3, <2>4, <3>1
    <3>2. CASE j # n + 1
      <4>1. j \in 1..n
        BY <3>2
      <4> QED
        BY <2>4, <4>1
    <3> QED
      BY <3>1, <3>2
  <2>6. r1 \in Sounds
    <3>1. PICK e \in Seq(Int), n1 \in Nat : e = << >> /\ n1 = y.actv + 1
      BY <2>3
    <3>2. \A z \in Sounds : [z EXCEPT !.wbuf = e, !.actv = n1] \in Sounds
      BY DEF Sounds
    <3> QED
      BY <2>1, <3>1, <3>2
  <2>7. r2 \in Cards
    BY <2>1, <2>4 DEF Cards
  <2>8. /\ r1.api = y.api /\ r1.last = y.last /\ r1.evt = y.evt /\ r1.wbuf = << >> /\ r1.actv = y.actv + 1
        /\ r2.at = c.at /\ r2.bad = c.bad /\ r2.off = c.off /\ r2.sig = c.sig /\ r2.run = c.run /\ r2.queue = q
    BY <2>1, <2>4 DEF Sounds, Cards
  <2>9. Len(r1.wbuf) < Buf
    BY <1>1, <2>3, <2>8
  <2> QED
    BY <2>2, <2>4, <2>5, <2>6, <2>7, <2>8, <2>9
<1> QED
  BY <1>2, <1>3

\* Samples are put behind what the buffer that is being filled has.
LEMMA BufferTakes ==
    ASSUME AudioConstants, AudioInv, snd.api = "excl", NEW y \in Sounds, NEW xs \in Seq(Int),
           y.wbuf = snd.wbuf \o xs, Len(y.wbuf) <= Buf, y.actv <= 1,
           ~ card.off => Len(card.queue) + y.evt + One(card.sig) <= y.actv
    PROVE  \E r1 \in Sounds, r2 \in Cards :
              /\ A!released(y, card) = << r1, r2 >>
              /\ r1.api = y.api /\ r1.last = y.last /\ Len(r1.wbuf) < Buf
              /\ r1.actv <= 2 /\ (r1.actv = 2 => r1.wbuf = << >>)
              /\ r2.at = card.at /\ r2.bad = card.bad /\ r2.off = card.off /\ r2.sig = card.sig /\ r2.run = card.run
              /\ r2.queue \in Seq(Seq(Int)) /\ \A j \in 1..Len(r2.queue) : Len(r2.queue[j]) = Buf
              /\ ~ card.off => /\ Len(r2.queue) + r1.evt + One(card.sig) <= r1.actv
                                 /\ LineOf(r2.queue, r1.wbuf) = Line \o xs
<1>1. BuffersAhead /\ card \in Cards /\ snd \in Sounds
  BY AudioFields DEF AudioInv
<1>2. PICK q \in Seq(Seq(Int)), n \in Nat, buf \in Seq(Int), full \in Seq(Int), a \in Nat, e \in Nat, o \in 0..1 :
          /\ q = card.queue /\ n = Len(q) /\ buf = snd.wbuf /\ full = y.wbuf /\ a = y.actv /\ e = y.evt /\ o = One(card.sig)
          /\ a <= 1 /\ \A j \in 1..n : Len(q[j]) = Buf
          /\ full = buf \o xs /\ (~ card.off => n + e + o <= a)
          /\ Len(full) <= Buf
  <2>1. card.queue \in Seq(Seq(Int)) /\ \A j \in 1..Len(card.queue) : Len(card.queue[j]) = Buf
    BY <1>1 DEF BuffersAhead
  <2>2. PICK buf \in Seq(Int), full \in Seq(Int) : buf = snd.wbuf /\ full = y.wbuf
    BY <1>1 DEF Sounds
  <2>3. PICK a \in Nat, e \in Nat, o \in 0..1 : a = y.actv /\ e = y.evt /\ o = One(card.sig)
    BY <1>1 DEF Sounds, One
  <2>4. PICK q \in Seq(Seq(Int)), n \in Nat : q = card.queue /\ n = Len(q)
    BY <2>1
  <2>5. /\ a <= 1 /\ \A j \in 1..n : Len(q[j]) = Buf
        /\ full = buf \o xs /\ (~ card.off => n + e + o <= a) /\ Len(full) <= Buf
    BY <2>1, <2>2, <2>3, <2>4
  <2> QED
    BY <2>2, <2>3, <2>4, <2>5
<1>3. PICK r1 \in Sounds, r2 \in Cards :
              /\ A!released(y, card) = << r1, r2 >>
              /\ r1.api = y.api /\ r1.last = y.last /\ r1.evt = e /\ Len(r1.wbuf) < Buf
              /\ r2.at = card.at /\ r2.bad = card.bad /\ r2.off = card.off /\ r2.sig = card.sig /\ r2.run = card.run
              /\ r2.queue \in Seq(Seq(Int)) /\ \A j \in 1..Len(r2.queue) : Len(r2.queue[j]) = Buf
              /\ \/ r1.wbuf = full /\ r1.actv = a /\ r2.queue = q
                 \/ r1.wbuf = << >> /\ r1.actv = a + 1 /\ r2.queue = Append(q, full)
  <2>1. /\ y \in Sounds /\ card \in Cards /\ card.queue \in Seq(Seq(Int)) /\ Len(y.wbuf) <= Buf
        /\ \A j \in 1..Len(card.queue) : Len(card.queue[j]) = Buf
    BY <1>1, <1>2
  <2>2. \E r1 \in Sounds, r2 \in Cards :
              /\ A!released(y, card) = << r1, r2 >>
              /\ r1.api = y.api /\ r1.last = y.last /\ r1.evt = y.evt /\ Len(r1.wbuf) < Buf
              /\ r2.at = card.at /\ r2.bad = card.bad /\ r2.off = card.off /\ r2.sig = card.sig /\ r2.run = card.run
              /\ r2.queue \in Seq(Seq(Int)) /\ \A j \in 1..Len(r2.queue) : Len(r2.queue[j]) = Buf
              /\ \/ r1.wbuf = y.wbuf /\ r1.actv = y.actv /\ r2.queue = card.queue
                 \/ r1.wbuf = << >> /\ r1.actv = y.actv + 1 /\ r2.queue = Append(card.queue, y.wbuf)
    BY ONLY AudioConstants, <2>1, Released
  <2> QED
    BY <1>2, <2>2
<1>4. r1.actv <= 2 /\ (r1.actv = 2 => r1.wbuf = << >>)
  BY <1>2, <1>3
<1>5. ASSUME ~ card.off
      PROVE  Len(r2.queue) + r1.evt + One(card.sig) <= r1.actv /\ LineOf(r2.queue, r1.wbuf) = Line \o xs
  <2>0. n + e + o <= a /\ a <= 1
    BY <1>2, <1>5
  <2>1. n <= 1 /\ n <= 2
    BY <2>0
  <2>2. LineOf(q, buf \o xs) = LineOf(q, buf) \o xs
    BY <1>2, <2>1, LineWrites
  <2>3. LineOf(q, full) = Line \o xs
    BY <1>2, <2>2 DEF Line
  <2>4. CASE r1.wbuf = full /\ r1.actv = a /\ r2.queue = q
    BY <1>2, <1>3, <1>5, <2>3, <2>4
  <2>5. CASE r1.wbuf = << >> /\ r1.actv = a + 1 /\ r2.queue = Append(q, full)
    <3>1. LineOf(Append(q, full), << >>) = LineOf(q, full)
      BY <1>2, <2>1, LineReleases
    <3>2. Len(Append(q, full)) = n + 1
      BY <1>2, AppendProperties
    <3>3. n + 1 + e + o <= a + 1
      BY <2>0
    <3> QED
      BY <1>2, <1>3, <2>3, <2>5, <3>1, <3>2, <3>3
  <2> QED
    BY <1>3, <2>4, <2>5
<1> QED
  BY <1>3, <1>4, <1>5

\* The samples of a call from the n-th on.
LEMMA MoreSamples ==
    ASSUME AudioConstants, AudioInv, NEW n \in Nat, NEW k \in Nat, n + k <= player.len
    PROVE  /\ SubSeq(A!Samples, n + 1, n + k) \in Seq(Int) /\ Len(SubSeq(A!Samples, n + 1, n + k)) = k
           /\ \A i \in 1..k : SubSeq(A!Samples, n + 1, n + k)[i] = player.next - 1 + n + i
<1>1. PICK len \in Nat, first \in Nat : len = player.len /\ first = player.next
  BY AudioFields
<1>2. A!Samples = [i \in 1..len |-> first + i - 1]
  BY <1>1 DEF A!Samples
<1>3. PICK ss \in Seq(Int) : ss = A!Samples /\ Len(ss) = len /\ \A i \in 1..len : ss[i] = first + i - 1
  <2>1. [i \in 1..len |-> first + i - 1] \in [1..len -> Int]
    OBVIOUS
  <2>2. A!Samples \in Seq(Int) /\ Len(A!Samples) = len
    BY <1>2, <2>1
  <2> QED
    BY <1>2, <2>2
<1>4. /\ SubSeq(ss, n + 1, n + k) \in Seq(Int) /\ Len(SubSeq(ss, n + 1, n + k)) = k
      /\ \A i \in 1..k : SubSeq(ss, n + 1, n + k)[i] = ss[n + i]
  <2>1. n + k <= Len(ss)
    BY <1>1, <1>3
  <2>2. PICK s : s = SubSeq(ss, n + 1, n + k)
    OBVIOUS
  <2>3. PICK c \in Nat : c = n + k /\ c <= Len(ss) /\ c - n = k
    BY <2>1
  <2>4. s \in Seq(Int) /\ Len(s) = c - n /\ \A i \in 1..(c - n) : s[i] = ss[i + n]
    <3>1. PICK m \in Nat : m = n + 1 /\ m \in 1..(Len(ss) + 1) /\ c \in (m - 1)..Len(ss) /\ s = SubSeq(ss, m, c)
      BY <2>2, <2>3
    <3>2. /\ SubSeq(ss, m, c) \in Seq(Int) /\ Len(SubSeq(ss, m, c)) = (c - m) + 1
          /\ \A i \in 1..((c - m) + 1) : SubSeq(ss, m, c)[i] = ss[m + i - 1]
      BY ONLY <3>1, ss \in Seq(Int), SubSeqProperties
    <3>3. (c - m) + 1 = c - n /\ \A i \in 1..(c - n) : m + i - 1 = i + n
      BY <3>1
    <3> QED
      BY ONLY <3>1, <3>2, <3>3
  <2>5. \A i \in 1..k : i + n = n + i
    OBVIOUS
  <2> QED
    BY <2>2, <2>3, <2>4, <2>5
<1>5. ASSUME NEW i \in 1..k PROVE ss[n + i] = player.next - 1 + n + i
  <2>1. n + i \in 1..len
    BY <1>1
  <2> QED
    BY <1>1, <1>3, <2>1
<1> QED
  BY <1>3, <1>4, <1>5

\* A write of exclusive mode ends: all is written, or both buffers are the device's.
LEMMA WasCopyEnds ==
    ASSUME AudioConstants, AudioInv, snd.api = "excl", player.pc = "copy", player' = A!After(player.n),
           NEW run \in BOOLEAN, NEW on \in BOOLEAN, snd' = [snd EXCEPT !.started = on], card' = [card EXCEPT !.run = run]
    PROVE  AudioInv'
<1>1. snd \in Sounds /\ card \in Cards /\ player \in Players
  BY AudioFields
<1>2. /\ snd' \in Sounds /\ snd'.api = snd.api /\ snd'.last = snd.last /\ snd'.rpos = snd.rpos /\ snd'.wpos = snd.wpos
      /\ snd'.isfull = snd.isfull /\ snd'.wbuf = snd.wbuf /\ snd'.actv = snd.actv /\ snd'.evt = snd.evt
  BY <1>1 DEF Sounds
<1>3. /\ card' \in Cards /\ card'.queue = card.queue /\ card'.xrun = card.xrun /\ card'.ring = card.ring
      /\ card'.pos = card.pos /\ card'.left = card.left /\ card'.at = card.at /\ card'.bad = card.bad
      /\ card'.off = card.off /\ card'.sig = card.sig
  BY <1>1 DEF Cards
<1>4. /\ ~ snd.last /\ player.n \in Nat /\ player.next \in Nat /\ player.len \in Nat /\ player.n <= player.len
      /\ player.next + player.len <= Input + 1 /\ Input \in Nat
  BY AudioFields DEF AudioInv, UserAt, AudioConstants
<1>5. player.next + player.n <= Input + 1 /\ snd'.last = FALSE
  BY <1>1, <1>2, <1>4 DEF Sounds
<1>6. player' \in Players /\ UserAt' /\ Written' = player.next + player.n - 1 /\ player'.pc \in {"write", "async"}
  BY <1>2, <1>4, <1>5, AfterCall
<1>7. Written' = Written
  BY <1>4, <1>6 DEF Written
<1>8. snd.api = "excl" /\ ~ card.off => Len(card.queue) + snd'.evt + One(card'.sig) <= snd.actv
  BY <1>2, <1>3, EventsCounted DEF JustCleared
<1>9. AudioTypes'
  BY <1>2, <1>3, <1>6 DEF AudioTypes
<1> QED
  BY <1>2, <1>3, <1>6, <1>7, <1>8, <1>9, NothingMoves

\* A turn of the loop of _ffwas_write_excl().
LEMMA WasCopyStep == ASSUME AudioConstants, AudioInv, A!was_copy PROVE AudioInv'
<1>1. snd.api = "excl" /\ player.pc = "copy"
  BY DEF A!was_copy, A!Is
<1>2. snd \in Sounds /\ card \in Cards /\ player \in Players /\ BuffersAhead
  BY <1>1, AudioFields DEF AudioInv
<1>3. CASE player.n = player.len
  <2>0. player.n \in Nat /\ ~ (player.n < player.len)
    BY <1>2, <1>3 DEF Players
  <2>1. player' = A!After(player.n) /\ snd' = snd /\ card' = card
    BY <1>3, <2>0 DEF A!was_copy
  <2>2. snd' = [snd EXCEPT !.started = snd.started] /\ card' = [card EXCEPT !.run = card.run]
    BY <1>2, <2>1 DEF Sounds, Cards
  <2>3. snd.started \in BOOLEAN /\ card.run \in BOOLEAN
    BY <1>2 DEF Sounds, Cards
  <2> QED
    BY <1>1, <2>1, <2>2, <2>3, WasCopyEnds
<1>4. CASE player.n # player.len
  <2>1. PICK n \in Nat, len \in Nat, first \in Nat, input \in Nat :
            /\ n = player.n /\ len = player.len /\ first = player.next /\ input = Input
            /\ n < len /\ first + len <= input + 1 /\ first >= 1
    <3>1. /\ player.n \in Nat /\ player.len \in Nat /\ player.next \in Nat /\ Input \in Nat
          /\ player.n <= player.len /\ player.next + player.len <= Input + 1 /\ player.next \in 1..(Input + 1)
      BY <1>1, AudioFields DEF AudioInv, UserAt, AudioConstants
    <3>2. player.n < player.len /\ player.next >= 1
      BY <1>4, <3>1
    <3> QED
      BY <3>1, <3>2
  <2>2. CASE snd.actv = 2
    <3>1. /\ player' = A!After(player.n) /\ snd' = [snd EXCEPT !.started = TRUE] /\ card' = [card EXCEPT !.run = TRUE]
      BY <1>4, <2>1, <2>2 DEF A!was_copy
    <3> QED
      BY <1>1, <3>1, WasCopyEnds
  <2>3. CASE snd.actv # 2
    <3>1. PICK b \in Nat, l \in Nat : b = Buf /\ l = Len(snd.wbuf) /\ l < b /\ snd.wbuf \in Seq(Int)
      <4>1. Buf \in Nat /\ snd.wbuf \in Seq(Int) /\ Len(snd.wbuf) < Buf
        BY <1>2 DEF AudioConstants, BuffersAhead, Sounds
      <4>2. Len(snd.wbuf) \in Nat
        BY <4>1
      <4> QED
        BY <4>1, <4>2
    <3>2. PICK k \in Nat : k = A!Min({player.len - player.n, Buf - Len(snd.wbuf)}) /\ n + k <= len /\ l + k <= b
      <4>0. n < len /\ l < b
        BY <2>1, <3>1
      <4>1. PICK x \in Int, y \in Int : x = len - n /\ y = b - l /\ x > 0 /\ y > 0
        BY <4>0
      <4>2. A!Min({x, y}) = IF x <= y THEN x ELSE y
        BY Lesser
      <4>3. PICK k \in Nat : k = A!Min({x, y}) /\ k <= x /\ k <= y
        BY <4>1, <4>2
      <4>4. n + k <= len /\ l + k <= b
        BY <4>1, <4>3
      <4> QED
        BY <2>1, <3>1, <4>1, <4>3, <4>4
    <3>3. PICK xs \in Seq(Int) : xs = SubSeq(A!Samples, n + 1, n + k) /\ Len(xs) = k /\ \A i \in 1..k : xs[i] = first - 1 + n + i
      <4>1. n + k <= player.len
        BY <2>1, <3>2
      <4>2. /\ SubSeq(A!Samples, n + 1, n + k) \in Seq(Int) /\ Len(SubSeq(A!Samples, n + 1, n + k)) = k
            /\ \A i \in 1..k : SubSeq(A!Samples, n + 1, n + k)[i] = player.next - 1 + n + i
        BY <4>1, MoreSamples
      <4> QED
        BY <2>1, <4>2
    <3>4. PICK y : y = [snd EXCEPT !.wbuf = snd.wbuf \o xs]
      OBVIOUS
    <3>5. /\ y \in Sounds /\ y.wbuf = snd.wbuf \o xs /\ Len(y.wbuf) <= Buf /\ y.api = snd.api /\ y.last = snd.last
          /\ y.actv = snd.actv /\ y.evt = snd.evt
      <4>0. PICK buf \in Seq(Int) : buf = snd.wbuf /\ Len(buf) = l
        BY <3>1
      <4>1. PICK full \in Seq(Int) : full = snd.wbuf \o xs /\ Len(full) = l + k
        <5>1. buf \o xs \in Seq(Int) /\ Len(buf \o xs) = Len(buf) + Len(xs)
          BY ConcatProperties
        <5> QED
          BY <3>3, <4>0, <5>1
      <4>2. y = [snd EXCEPT !.wbuf = full]
        BY <3>4, <4>1
      <4>3. y \in Sounds
        BY <1>2, <4>2 DEF Sounds
      <4> QED
        BY <1>2, <3>1, <3>2, <4>1, <4>2, <4>3 DEF Sounds
    <3>6. y.actv <= 1
      <4>1. PICK a \in Nat : a = snd.actv /\ a <= 2 /\ a # 2
        BY <1>2, <2>3 DEF BuffersAhead, Sounds
      <4> QED
        BY <3>5, <4>1
    <3>7. ~ card.off => Len(card.queue) + y.evt + One(card.sig) <= y.actv
      BY <1>1, <3>5, EventsCounted DEF JustCleared
    <3>8. PICK r1 \in Sounds, r2 \in Cards :
              /\ A!released(y, card) = << r1, r2 >>
              /\ r1.api = y.api /\ r1.last = y.last /\ Len(r1.wbuf) < Buf
              /\ r1.actv <= 2 /\ (r1.actv = 2 => r1.wbuf = << >>)
              /\ r2.at = card.at /\ r2.bad = card.bad /\ r2.off = card.off /\ r2.sig = card.sig /\ r2.run = card.run
              /\ r2.queue \in Seq(Seq(Int)) /\ \A j \in 1..Len(r2.queue) : Len(r2.queue[j]) = Buf
              /\ ~ card.off => /\ Len(r2.queue) + r1.evt + One(card.sig) <= r1.actv
                                 /\ LineOf(r2.queue, r1.wbuf) = Line \o xs
      BY <1>1, <3>5, <3>6, <3>7, BufferTakes
    <3>9. snd' = r1 /\ card' = r2 /\ player' = [player EXCEPT !.n = n + k]
      <4>1. /\ snd' = A!released(y, card)[1] /\ card' = A!released(y, card)[2] /\ player' = [player EXCEPT !.n = player.n + k]
        BY <1>4, <2>1, <2>3, <3>2, <3>3, <3>4 DEF A!was_copy
      <4> QED
        BY <2>1, <3>8, <4>1
    <3>10. player' \in Players /\ player'.pc = "copy" /\ player'.n = n + k /\ player'.next = first /\ player'.len = len
      <4>1. PICK m \in Nat : m = n + k
        OBVIOUS
      <4>2. \A p \in Players : [p EXCEPT !.n = m] \in Players
        BY DEF Players
      <4>3. player' \in Players
        BY <1>2, <3>9, <4>1, <4>2
      <4>4. player' = [player EXCEPT !.n = m]
        BY <3>9, <4>1
      <4> QED
        BY <1>1, <1>2, <2>1, <4>1, <4>3, <4>4 DEF Players
    <3>11. PICK w \in Nat : w = Written /\ Written' = w + k /\ w = first - 1 + n
      <4>1. first - 1 + n \in Nat /\ first - 1 + (n + k) = (first - 1 + n) + k
        BY <2>1
      <4> QED
        BY <2>1, <3>10, <4>1 DEF Written
    <3>12. ~ snd.last
      BY <1>1 DEF AudioInv, UserAt
    <3>13. UserAt'
      <4>1. first \in 1..(Input + 1) /\ n + k <= len /\ first + len <= Input + 1
        <5>1. first <= input + 1
          BY <2>1
        <5> QED
          BY <2>1, <3>2, <5>1
      <4> QED
        BY <1>1, <3>5, <3>8, <3>9, <3>10, <3>12, <4>1 DEF UserAt
    <3>14. ~ card.off => /\ InLine(Line', card.at, w + k) /\ card.at + Len(Line') = w + k
                           /\ card.at \in 0..(w + k)
      <4> SUFFICES ASSUME ~ card.off
                   PROVE  /\ InLine(Line', card.at, w + k) /\ card.at + Len(Line') = w + k
                          /\ card.at \in 0..(w + k)
        OBVIOUS
      <4>1. PICK q \in Seq(Int), at \in Nat : q = Line /\ at = card.at /\ at + Len(q) = w /\ InLine(q, at, w) /\ at <= w
        <5>1. /\ BufferNumbers /\ Line \in Seq(Int) /\ InLine(Line, card.at, Written) /\ card.at + Len(Line) = Written
          BY <1>1, <3>12, BufferFields
        <5>2. card.at \in Nat /\ card.at <= Written
          BY <5>1 DEF BufferNumbers
        <5> QED
          BY <3>11, <5>1, <5>2
      <4>2. \A i \in 1..Len(xs) : xs[i] = w + i
        BY <3>3, <3>11
      <4>3. q \o xs \in Seq(Int) /\ Len(q \o xs) = Len(q) + Len(xs) /\ InLine(q \o xs, at, w + Len(xs))
        BY <4>1, <4>2, Appending
      <4>4. Line' = q \o xs
        BY <3>8, <3>9, <4>1 DEF Line
      <4>5. PICK m \in Nat : m = Len(q) /\ at + m = w
        BY <4>1
      <4>6. at + (m + k) = w + k /\ at \in 0..(w + k)
        BY <4>5
      <4> QED
        BY <3>3, <4>1, <4>3, <4>4, <4>5, <4>6
    <3>15. BuffersAhead'
      <4>1. w + k >= w + k
        OBVIOUS
      <4> QED
        BY <3>8, <3>9, <3>10, <3>11, <3>14, <4>1 DEF BuffersAhead
    <3>16. ~ card'.off => card'.at \in 0..Written'
      BY <3>8, <3>9, <3>11, <3>14
    <3> QED
      BY <1>1, <3>5, <3>8, <3>9, <3>10, <3>13, <3>15, <3>16, ExclNext
  <2> QED
    BY <2>2, <2>3
<1> QED
  BY <1>3, <1>4

\* The last buffer of exclusive mode is filled up with silence; when nothing is left, all was played.
LEMMA WasStoplazyStep == ASSUME AudioConstants, AudioInv, A!was_stoplazy PROVE AudioInv'
<1>1. snd.api = "excl" /\ player.pc = "drain"
  BY DEF A!was_stoplazy, A!Is
<1>2. snd \in Sounds /\ card \in Cards /\ player \in Players /\ BuffersAhead
  BY <1>1, AudioFields DEF AudioInv
<1>3. PICK a \in Nat, e \in Sounds : /\ e = A!Events(snd) /\ e = [snd EXCEPT !.actv = a, !.evt = 0]
                                     /\ a <= snd.actv
                                     /\ ~ card.off => Len(card.queue) + 0 + One(card.sig) <= a
  BY <1>1, <1>2, EventsFields
<1>4. e.api = snd.api /\ e.last = snd.last /\ e.wbuf = snd.wbuf /\ e.actv = a /\ e.evt = 0
  BY <1>2, <1>3 DEF Sounds
<1>5. a <= 2 /\ (a = 2 => snd.wbuf = << >>)
  <2>1. PICK n \in Nat : n = snd.actv /\ n <= 2 /\ a <= n /\ (n = 2 => snd.wbuf = << >>)
    BY <1>2, <1>3 DEF BuffersAhead, Sounds
  <2> QED
    BY <2>1
<1>6. PICK b \in Nat \ {0}, buf \in Seq(Int), l \in Nat : b = Buf /\ buf = snd.wbuf /\ l = Len(buf) /\ l < b
  <2>1. Buf \in Nat \ {0} /\ snd.wbuf \in Seq(Int) /\ Len(snd.wbuf) < Buf
    BY <1>2 DEF AudioConstants, BuffersAhead, Sounds
  <2>2. Len(snd.wbuf) \in Nat
    BY <2>1
  <2> QED
    BY <2>1, <2>2
<1>7. player.next = Input + 1 /\ player.n = 0 /\ player.next \in 1..(Input + 1)
  BY <1>1 DEF AudioInv, UserAt
<1>8. CASE a * b + l = 0
  <2>1. snd' = e /\ card' = card /\ A!To("done")
    BY <1>3, <1>4, <1>6, <1>8 DEF A!was_stoplazy, A!Drained
  <2>2. player' \in Players /\ UserAt' /\ Written' = Written /\ player'.pc = "done"
    BY <1>1, <1>4, <2>1, DrainMoves
  <2>3. a = 0 /\ l = 0
    <3>1. a = 0 \/ a = 1 \/ a = 2
      BY <1>5
    <3>2. CASE a = 0
      BY <1>8, <3>2
    <3>3. CASE a = 1
      BY ONLY <1>8, <3>3, b \in Nat \ {0}, l \in Nat
    <3>4. CASE a = 2
      BY ONLY <1>8, <3>4, b \in Nat \ {0}, l \in Nat
    <3> QED
      BY <3>1, <3>2, <3>3, <3>4
  <2>4. BuffersAhead'
    <3>1. Line' = Line
      BY <1>4, <2>1 DEF Line
    <3> QED
      BY <1>2, <1>3, <1>4, <1>5, <2>1, <2>2, <3>1 DEF BuffersAhead
  <2>5. ~ card.off => card.at = Written
    <3> SUFFICES ASSUME ~ card.off PROVE card.at = Written
      OBVIOUS
    <3>1. /\ BufferNumbers /\ card.queue \in Seq(Seq(Int)) /\ card.at + Len(Line) >= Written
      BY <1>1, BufferFields
    <3>2. PICK n \in Nat, at \in Nat, w \in Nat, o \in 0..1 :
              n = Len(card.queue) /\ at = card.at /\ w = Written /\ at <= w /\ o = One(card.sig) /\ n + 0 + o <= a
      <4>1. Len(card.queue) \in Nat /\ card.at \in Nat /\ Written \in Nat /\ card.at <= Written
        BY <3>1 DEF BufferNumbers
      <4>2. One(card.sig) \in 0..1
        BY DEF One
      <4>3. Len(card.queue) + 0 + One(card.sig) <= a
        BY <1>3
      <4> QED
        BY <4>1, <4>2, <4>3
    <3>3. n = 0
      BY <2>3, <3>2
    <3>4. Len(Line) = 0
      BY <1>6, <2>3, <3>2, <3>3 DEF Line, LineOf
    <3> QED
      BY <3>1, <3>2, <3>4
  <2>6. ~ card'.off => card'.at \in 0..Written'
    BY <2>1, <2>2 DEF AudioInv, Heard
  <2> QED
    BY <1>1, <1>2, <1>3, <1>4, <2>1, <2>2, <2>4, <2>5, <2>6, ExclNext
<1>9. CASE a * b + l # 0
  <2>1. A!To("async")
    BY <1>1, <1>3, <1>4, <1>6, <1>9 DEF A!was_stoplazy, A!Drained, A!Polled
  <2>2. PICK r1 \in Sounds, r2 \in Cards :
            /\ snd' = [r1 EXCEPT !.started = TRUE] /\ card' = [r2 EXCEPT !.run = TRUE]
            /\ r1.api = "excl" /\ r1.last = TRUE /\ Len(r1.wbuf) < Buf
            /\ r1.actv <= 2 /\ (r1.actv = 2 => r1.wbuf = << >>)
            /\ r2.at = card.at /\ r2.bad = card.bad /\ r2.off = card.off /\ r2.sig = card.sig
            /\ r2.queue \in Seq(Seq(Int)) /\ \A j \in 1..Len(r2.queue) : Len(r2.queue[j]) = Buf
            /\ ~ card.off => /\ Len(r2.queue) + r1.evt + One(card.sig) <= r1.actv
                               /\ InLine(LineOf(r2.queue, r1.wbuf), card.at, Written)
                               /\ card.at + Len(LineOf(r2.queue, r1.wbuf)) >= Written
    <3>0. ~ card.off => InLine(Line, card.at, Written) /\ card.at + Len(Line) >= Written
      BY <1>2 DEF BuffersAhead
    <3>1. CASE e.last
      <4>1. snd' = [e EXCEPT !.started = TRUE] /\ card' = [card EXCEPT !.run = TRUE]
        BY <1>3, <1>4, <1>6, <1>9, <3>1 DEF A!was_stoplazy
      <4>2. LineOf(card.queue, e.wbuf) = Line
        BY <1>4 DEF Line
      <4>3. card.queue \in Seq(Seq(Int)) /\ \A j \in 1..Len(card.queue) : Len(card.queue[j]) = Buf
        BY <1>2 DEF BuffersAhead
      <4> QED
        BY <1>1, <1>2, <1>3, <1>4, <1>5, <1>6, <3>0, <3>1, <4>1, <4>2, <4>3
    <3>2. CASE ~ e.last
      <4>1. PICK y : y = [e EXCEPT !.last = TRUE]
        OBVIOUS
      <4>2. y \in Sounds /\ y.api = "excl" /\ y.last = TRUE /\ y.wbuf = snd.wbuf /\ y.actv = a /\ y.evt = 0
        BY <1>1, <1>3, <1>4, <4>1 DEF Sounds
      <4>3. snd' = [A!was_silence(y, card)[1] EXCEPT !.started = TRUE] /\ card' = [A!was_silence(y, card)[2] EXCEPT !.run = TRUE]
        BY <1>3, <1>4, <1>6, <1>9, <3>2, <4>1 DEF A!was_stoplazy
      <4>4. CASE buf = << >>
        <5>1. A!was_silence(y, card) = << y, card >>
          BY <1>6, <4>2, <4>4 DEF A!was_silence
        <5>2. snd' = [y EXCEPT !.started = TRUE] /\ card' = [card EXCEPT !.run = TRUE]
          BY <4>3, <5>1
        <5>3. LineOf(card.queue, y.wbuf) = Line
          BY <4>2 DEF Line
        <5>4. card.queue \in Seq(Seq(Int)) /\ \A j \in 1..Len(card.queue) : Len(card.queue[j]) = Buf
          BY <1>2 DEF BuffersAhead
        <5> QED
          BY <1>2, <1>3, <1>5, <1>6, <3>0, <4>2, <5>2, <5>3, <5>4
      <4>5. CASE buf # << >>
        <5>1. PICK xs \in Seq(Int), k \in Nat :
                  xs = [i \in 1..(Buf - Len(snd.wbuf)) |-> A!Silence] /\ k = Len(xs) /\ l + k = b /\ \A i \in 1..k : xs[i] = 0
          <6>0. l < b
            BY <1>6
          <6>1. PICK c \in Int : c = b - l /\ l + c = b /\ c >= 0
            BY <6>0
          <6>2. /\ [i \in 1..c |-> A!Silence] \in Seq(Int) /\ Len([i \in 1..c |-> A!Silence]) = c
                /\ \A i \in 1..c : [j \in 1..c |-> A!Silence][i] = 0
            BY <6>1, SilentSamples
          <6> QED
            BY <1>6, <6>1, <6>2
        <5>2. PICK z : z = [y EXCEPT !.wbuf = snd.wbuf \o xs]
          OBVIOUS
        <5>3. A!was_silence(y, card) = A!released(z, card)
          <6>1. y.wbuf # << >>
            BY <1>6, <4>2, <4>5
          <6>2. A!was_silence(y, card) = A!released([y EXCEPT !.wbuf = y.wbuf \o [i \in 1..(Buf - Len(y.wbuf)) |-> A!Silence]], card)
            BY <6>1 DEF A!was_silence
          <6> QED
            BY <4>2, <5>1, <5>2, <6>2
        <5>4. /\ z \in Sounds /\ z.api = "excl" /\ z.last = TRUE /\ z.wbuf = snd.wbuf \o xs /\ Len(z.wbuf) <= Buf
              /\ z.actv = a /\ z.evt = 0
          <6>1. buf \o xs \in Seq(Int) /\ Len(buf \o xs) = Len(buf) + Len(xs)
            BY ConcatProperties
          <6>2. PICK full \in Seq(Int) : full = buf \o xs /\ Len(full) = b
            BY <1>6, <5>1, <6>1
          <6>3. z = [y EXCEPT !.wbuf = full]
            BY <1>6, <5>2, <6>2
          <6>4. z \in Sounds
            BY <4>2, <6>3 DEF Sounds
          <6>5. z.api = "excl" /\ z.last = TRUE /\ z.wbuf = full /\ z.actv = a /\ z.evt = 0
            BY <4>2, <6>3 DEF Sounds
          <6>6. Len(full) <= Buf
            BY ONLY <1>6, <6>2, b \in Nat \ {0}
          <6> QED
            BY <1>6, <6>2, <6>4, <6>5, <6>6
        <5>5. z.actv <= 1
          BY <1>5, <1>6, <4>5, <5>4
        <5>6. ~ card.off => Len(card.queue) + z.evt + One(card.sig) <= z.actv
          BY <1>3, <5>4
        <5>7. PICK r1 \in Sounds, r2 \in Cards :
                  /\ A!released(z, card) = << r1, r2 >>
                  /\ r1.api = z.api /\ r1.last = z.last /\ Len(r1.wbuf) < Buf
                  /\ r1.actv <= 2 /\ (r1.actv = 2 => r1.wbuf = << >>)
                  /\ r2.at = card.at /\ r2.bad = card.bad /\ r2.off = card.off /\ r2.sig = card.sig /\ r2.run = card.run
                  /\ r2.queue \in Seq(Seq(Int)) /\ \A j \in 1..Len(r2.queue) : Len(r2.queue[j]) = Buf
                  /\ ~ card.off => /\ Len(r2.queue) + r1.evt + One(card.sig) <= r1.actv
                                     /\ LineOf(r2.queue, r1.wbuf) = Line \o xs
          BY <1>1, <5>4, <5>5, <5>6, BufferTakes
        <5>8. snd' = [r1 EXCEPT !.started = TRUE] /\ card' = [r2 EXCEPT !.run = TRUE]
          BY <4>3, <5>3, <5>7
        <5>9. ~ card.off => InLine(Line \o xs, card.at, Written) /\ card.at + Len(Line \o xs) >= Written
          <6> SUFFICES ASSUME ~ card.off PROVE InLine(Line \o xs, card.at, Written) /\ card.at + Len(Line \o xs) >= Written
            OBVIOUS
          <6>1. PICK q \in Seq(Int), at \in Nat, w \in Nat :
                    q = Line /\ at = card.at /\ w = Written /\ at <= w /\ InLine(q, at, w) /\ at + Len(q) >= w
            <7>1. BufferNumbers /\ Line \in Seq(Int) /\ InLine(Line, card.at, Written) /\ card.at + Len(Line) >= Written
              BY <1>1, BufferFields
            <7> QED
              BY <7>1 DEF BufferNumbers
          <6>2. PICK m \in Nat : m = Len(q) + Len(xs) /\ Len(xs) <= m - Len(q)
            <7>1. PICK x \in Nat, v \in Nat : x = Len(q) /\ v = Len(xs)
              OBVIOUS
            <7>2. x + v \in Nat /\ v <= (x + v) - x
              OBVIOUS
            <7> QED
              BY <7>1, <7>2
          <6>3. \A i \in 1..Len(xs) : xs[i] = 0
            BY <5>1
          <6>4. InLine(q \o xs, at, w) /\ at + Len(q \o xs) >= w
            BY <6>1, <6>2, <6>3, Silencing
          <6> QED
            BY <6>1, <6>4
        <5> QED
          BY <5>4, <5>7, <5>8, <5>9
      <4> QED
        BY <4>4, <4>5
    <3> QED
      BY <3>1, <3>2
  <2>3. /\ snd' \in Sounds /\ snd'.api = snd.api /\ snd'.last = TRUE /\ snd'.wbuf = r1.wbuf /\ snd'.actv = r1.actv /\ snd'.evt = r1.evt
    BY <1>1, <2>2 DEF Sounds
  <2>4. /\ card' \in Cards /\ card'.queue = r2.queue /\ card'.at = card.at /\ card'.bad = card.bad
        /\ card'.off = card.off /\ card'.sig = card.sig
    BY <2>2 DEF Cards
  <2>5. player' \in Players /\ UserAt' /\ Written' = Written /\ player'.pc = "async"
    BY <1>1, <2>1, <2>3, DrainMoves
  <2>6. BuffersAhead'
    <3>1. Line' = LineOf(r2.queue, r1.wbuf)
      BY <2>3, <2>4 DEF Line
    <3> QED
      BY <2>2, <2>3, <2>4, <2>5, <3>1 DEF BuffersAhead
  <2>7. ~ card'.off => card'.at \in 0..Written'
    BY <2>4, <2>5 DEF AudioInv, Heard
  <2> QED
    BY <1>1, <2>3, <2>4, <2>5, <2>6, <2>7, ExclNext
<1> QED
  BY <1>8, <1>9

-----------------------------------------------------------------------------
\* Nothing was written, and nothing is in line.
LEMMA AudioStarts == ASSUME AudioConstants, A!Init PROVE AudioInv
<1>1. PICK api \in Apis :
          snd = [api |-> api, actv |-> 0, wbuf |-> << >>, evt |-> 0, started |-> FALSE, cb |-> FALSE, cbw |-> FALSE,
                 last |-> FALSE, rpos |-> 0, wpos |-> 0, isfull |-> FALSE, overrun |-> FALSE]
  BY DEF A!Init
<1>2. /\ card = [queue |-> << >>, run |-> FALSE, xrun |-> FALSE, sig |-> FALSE, ring |-> [i \in 0..(Buf - 1) |-> A!Silence],
                 pos |-> 0, left |-> 0, at |-> 0, bad |-> FALSE, off |-> FALSE, wild |-> FALSE]
      /\ player = [pc |-> "write", next |-> 1, len |-> 0, n |-> 0, clears |-> 0]
  BY DEF A!Init
<1>3. Buf \in Nat \ {0} /\ Input \in Nat /\ 0 \in Positions /\ << >> \in Seq(Int) /\ << >> \in Seq(Seq(Int)) /\ Len(<< >>) = 0
  BY EmptySeq DEF AudioConstants, Positions
<1>4. [i \in 0..(Buf - 1) |-> A!Silence] \in [Positions -> Int]
  BY DEF Positions, A!Silence
<1>5. AudioTypes
  BY <1>1, <1>2, <1>3, <1>4 DEF AudioTypes, Sounds, Cards, Players
<1>6. Written = 0
  BY <1>2 DEF Written
<1>7. UserAt
  BY <1>1, <1>2, <1>3 DEF UserAt
<1>8. Heard
  BY <1>2, <1>6 DEF Heard
<1>9. QueueAhead
  BY <1>2, <1>3, <1>6 DEF QueueAhead, InLine
<1>10. snd.api = "coreaudio" => CoreAhead
  BY <1>1, <1>2, <1>3, <1>6 DEF CoreAhead, RingLine, A!canread
<1>11. snd.api = "dsound" => RingAhead
  BY <1>1, <1>2, <1>3, <1>6 DEF RingAhead, RingLine, A!dsnd_filled, One
<1>12. snd.api = "excl" => BuffersAhead
  <2>1. Line = << >>
    BY <1>1, <1>2, <1>3 DEF Line, LineOf
  <2> QED
    BY <1>1, <1>2, <1>3, <1>6, <2>1 DEF BuffersAhead, InLine, One
<1> QED
  BY <1>5, <1>7, <1>8, <1>9, <1>10, <1>11, <1>12 DEF AudioInv

\* Every step of every interface keeps the invariant.
LEMMA AudioStep == ASSUME AudioConstants, AudioInv, [A!Next]_(A!vars) PROVE AudioInv'
<1>1. CASE UNCHANGED A!vars
  <2>1. snd' = snd /\ card' = card /\ player' = player
    BY <1>1 DEF A!vars
  <2>2. Written' = Written /\ Line' = Line
    BY <2>1 DEF Written, Line
  <2>3. AudioTypes' /\ UserAt' /\ Heard'
    BY <2>1, <2>2 DEF AudioInv, AudioTypes, UserAt, Heard
  <2>4. /\ snd.api \in Queues => QueueAhead'
        /\ snd.api = "coreaudio" => CoreAhead'
        /\ snd.api = "dsound" => RingAhead'
        /\ snd.api = "excl" => BuffersAhead'
    BY <2>1, <2>2 DEF AudioInv, QueueAhead, CoreAhead, RingAhead, BuffersAhead, JustCleared, A!canread, A!dsnd_filled
  <2> QED
    BY <2>1, <2>3, <2>4 DEF AudioInv
<1>2. CASE A!Device
  BY <1>2, PlayBufferStep, PlayQueueStep, PlayRingStep, CoreIoprocStep DEF A!Device
<1>3. CASE A!Handler
  BY <1>3, WakeSteps, DsndOnplayStep DEF A!Handler
<1>4. CASE A!User
  BY <1>4, CallStep, AsyncSteps, WasWriteStep, WasCopyStep, WasStoplazyStep, WriteShStep, StoplazyShStep, AlsaWriteStep,
     AlsaStoplazyStep, PulseWriteStep, PulseDrainStep, OssWriteStep, OssDrainStep, DsndWriteStep, DsndStoplazyStep,
     CoreWriteStep, CoreFullStep, CoreStoplazyStep DEF A!User
<1>5. CASE A!Pause \/ A!Resume \/ A!Clear
  BY <1>5, OssPauseStep, PauseStep, ResumeStep, ClearStep
<1> QED
  BY <1>1, <1>2, <1>3, <1>4, <1>5 DEF A!Next

\* What was written and not played yet is in line, with every interface and after every step of its calls, its handler
\* and its device.
THEOREM AudioInvariant == AudioConstants => (A!Spec => []AudioInv)
<1> SUFFICES ASSUME AudioConstants PROVE A!Spec => []AudioInv
  OBVIOUS
<1>1. A!Init => AudioInv
  BY AudioStarts
<1>2. AudioInv /\ [A!Next]_(A!vars) => AudioInv'
  BY AudioStep
<1> QED
  BY <1>1, <1>2, PTL DEF A!Spec

\* Only coraud_ioproc() plays what was not written.
LEMMA OthersFlag ==
    ASSUME AudioTypes, [A!Next]_(A!vars), ~ A!coraud_ioproc
    PROVE  card'.wild = card.wild /\ snd'.overrun = snd.overrun
<1> DEFINE Card(c) == "wild" \in DOMAIN c /\ c.wild = card.wild
           Sound(x) == "overrun" \in DOMAIN x /\ x.overrun = snd.overrun
<1>1. Card(card) /\ Sound(snd)
  BY DEF AudioTypes, Cards, Sounds
<1>2. \A c, xs : Card(c) => Card(A!play(c, xs))
  BY DEF A!play
<1>3. CASE A!PlayBuffer \/ A!PlayQueue \/ A!PlayRing
  <2>1. \A c : Card(c) => /\ \A q, b : Card([c EXCEPT !.queue = q, !.sig = b])
                          /\ \A p, n, b : Card([c EXCEPT !.pos = p, !.left = n, !.sig = b])
                          /\ \A b : Card([c EXCEPT !.off = b])
                          /\ Card([c EXCEPT !.sig = TRUE, !.off = TRUE])
                          /\ Card([c EXCEPT !.run = FALSE, !.xrun = TRUE, !.sig = TRUE])
    OBVIOUS
  <2>2. snd' = snd
    BY <1>3 DEF A!PlayBuffer, A!PlayQueue, A!PlayRing
  <2>3. CASE A!PlayBuffer
    <3> DEFINE c == A!play(card, Head(card.queue))
    <3>1. Card(c)
      BY <1>1, <1>2
    <3>2. card' = [card EXCEPT !.sig = TRUE, !.off = TRUE] \/ card' = [c EXCEPT !.queue = Tail(c.queue), !.sig = TRUE]
      BY <2>3 DEF A!PlayBuffer
    <3> HIDE DEF c
    <3>3. Card(card')
      BY <1>1, <2>1, <3>1, <3>2
    <3> QED
      BY <2>2, <3>3
  <2>4. CASE A!PlayQueue
    <3> DEFINE c == A!play(card, SubSeq(card.queue, 1, 1))
    <3>1. Card(c)
      BY <1>1, <1>2
    <3>2. \/ card' = [card EXCEPT !.run = FALSE, !.xrun = TRUE, !.sig = TRUE]
          \/ card' = [c EXCEPT !.queue = SubSeq(c.queue, 1 + 1, Len(c.queue)), !.sig = TRUE]
      BY <2>4 DEF A!PlayQueue, A!Took
    <3> HIDE DEF c
    <3>3. Card(card')
      BY <1>1, <2>1, <3>1, <3>2
    <3> QED
      BY <2>2, <3>3
  <2>5. CASE A!PlayRing
    <3> DEFINE y == [card EXCEPT !.off = @ \/ card.left = 0]
               c == A!play(y, <<card.ring[card.pos]>>)
    <3>1. Card(c)
      <4>1. Card(y)
        BY <1>1
      <4> QED
        BY <1>2, <4>1
    <3>2. card' = [c EXCEPT !.pos = (c.pos + 1) % Buf, !.left = A!Max({0, c.left - 1}), !.sig = TRUE]
      BY <2>5 DEF A!PlayRing
    <3> HIDE DEF c
    <3>3. Card(card')
      BY <2>1, <3>1, <3>2
    <3> QED
      BY <2>2, <3>3
  <2> QED
    BY <1>3, <2>3, <2>4, <2>5
<1>4. CASE A!onplay_excl \/ A!callback \/ A!dsnd_onplay
  BY <1>1, <1>4 DEF A!onplay_excl, A!callback, A!dsnd_onplay, A!notified
<1>5. CASE A!Call \/ A!async \/ A!asyncTest \/ A!asyncSet
  BY <1>1, <1>5 DEF A!Call, A!async, A!asyncTest, A!asyncSet
<1>6. \A x, c : Sound(x) /\ Card(c) => /\ Sound(A!stopped(x)) /\ Sound(A!Events(x))
                                       /\ Sound(A!released(x, c)[1]) /\ Card(A!released(x, c)[2])
  BY DEF A!stopped, A!Events, A!released
<1>7. \A x, c : Sound(x) /\ Card(c) => Sound(A!was_silence(x, c)[1]) /\ Card(A!was_silence(x, c)[2])
  <2> SUFFICES ASSUME NEW x, NEW c, Sound(x), Card(c), x.wbuf # << >>
               PROVE  Sound(A!was_silence(x, c)[1]) /\ Card(A!was_silence(x, c)[2])
    BY DEF A!was_silence
  <2> DEFINE y == [x EXCEPT !.wbuf = @ \o [i \in 1..(Buf - Len(@)) |-> A!Silence]]
  <2>1. Sound(y) /\ A!was_silence(x, c) = A!released(y, c)
    BY DEF A!was_silence
  <2> QED
    BY <1>6, <2>1
<1>8. CASE A!was_write \/ A!was_copy
  <2>1. CASE A!was_write
    BY <1>1, <1>6, <2>1 DEF A!was_write
  <2>2. CASE A!was_copy
    <3>1. CASE snd' = snd /\ card' = card
      BY <3>1
    <3>2. CASE snd' = [snd EXCEPT !.started = TRUE] /\ card' = [card EXCEPT !.run = TRUE]
      BY <1>1, <3>2
    <3>3. CASE \E n : LET x == [snd EXCEPT !.wbuf = @ \o SubSeq(A!Samples, player.n + 1, player.n + n)]
                      IN  snd' = A!released(x, card)[1] /\ card' = A!released(x, card)[2]
      BY <1>1, <1>6, <3>3
    <3> QED
      BY <2>2, <3>1, <3>2, <3>3 DEF A!was_copy
  <2> QED
    BY <1>8, <2>1, <2>2
<1>9. CASE A!was_stoplazy
  <2> DEFINE e == A!Events(snd)
             x == [e EXCEPT !.last = TRUE]
             r == IF e.last THEN <<e, card>> ELSE A!was_silence(x, card)
  <2>1. Sound(e) /\ Sound(x)
    BY <1>1, <1>6
  <2>2. Sound(r[1]) /\ Card(r[2])
    BY <1>1, <1>7, <2>1
  <2>3. \/ snd' = e /\ card' = card
        \/ snd' = [r[1] EXCEPT !.started = TRUE] /\ card' = [r[2] EXCEPT !.run = TRUE]
    BY <1>9 DEF A!was_stoplazy
  <2> HIDE DEF e, r
  <2> QED
    BY <1>1, <2>1, <2>2, <2>3
<1>10. CASE A!write_sh \/ A!stoplazy_sh \/ A!alsa_write \/ A!alsa_stoplazy
  BY <1>1, <1>10 DEF A!write_sh, A!stoplazy_sh, A!alsa_write, A!alsa_stoplazy, A!prepared
<1>11. CASE A!pulse_write \/ A!pulse_drain \/ A!oss_write \/ A!oss_drain
  BY <1>1, <1>11 DEF A!pulse_write, A!pulse_drain, A!oss_write, A!oss_drain
<1>12. CASE A!dsnd_write \/ A!dsnd_stoplazy
  BY <1>1, <1>12 DEF A!dsnd_write, A!dsnd_stoplazy, A!dsnd_silence, A!put
<1>13. CASE A!coraud_write \/ A!coraud_full \/ A!coraud_stoplazy
  BY <1>1, <1>13 DEF A!coraud_write, A!coraud_full, A!coraud_stoplazy, A!put
<1>14. CASE A!Pause \/ A!Resume \/ A!Clear
  BY <1>1, <1>14 DEF A!Pause, A!Resume, A!Clear, A!stopped
<1>15. CASE UNCHANGED A!vars
  BY <1>15 DEF A!vars
<1> QED
  BY <1>3, <1>4, <1>5, <1>8, <1>9, <1>10, <1>11, <1>12, <1>13, <1>14, <1>15 DEF A!Next, A!Device, A!Handler, A!User

\* Every audio output plays each sample once and in order, whatever pieces the user writes and whenever it pauses,
\* clears or drains: ffwas_write(), ffalsa_write(), ffpulse_write(), ffdsnd_write(), ffoss_write() and ffcoraud_write()
\* never overwrite what was not played and hand over no buffer twice.  With exclusive WASAPI and with DirectSound it
\* holds until their buffers run dry or a clear comes before a pending event was handled.  Only coraud_ioproc() plays
\* what nobody wrote, and by then it has set snd->overrun.
THEOREM SoundInOrder == AudioConstants => (A!Spec => []A!PlayedInOrder)
<1> SUFFICES ASSUME AudioConstants PROVE A!Spec => []A!PlayedInOrder
  OBVIOUS
<1>1. AudioInv /\ Flagged => A!PlayedInOrder
  BY DEF AudioInv, Heard, Flagged, A!PlayedInOrder
<1>2. A!Init => Flagged
  BY DEF A!Init, Flagged
<1>3. AudioInv /\ Flagged /\ [A!Next]_(A!vars) => Flagged'
  <2> SUFFICES ASSUME AudioInv, Flagged, [A!Next]_(A!vars), ~ A!coraud_ioproc PROVE Flagged'
    BY CoreIoprocStep
  <2> QED
    BY OthersFlag DEF AudioInv, Flagged
<1> QED
  BY <1>1, <1>2, <1>3, AudioInvariant, PTL DEF A!Spec

\* When a *_stoplazy() or *_drain() returns 1 every sample that was written was played, but those that a clear or
\* ffoss_stop() has dropped; with exclusive WASAPI unless it is off.
THEOREM DrainedAll == AudioConstants => (A!Spec => []A!DrainedTrue)
<1> SUFFICES ASSUME AudioConstants PROVE A!Spec => []A!DrainedTrue
  OBVIOUS
<1>1. ASSUME AudioInv PROVE A!DrainedTrue
  <2> SUFFICES ASSUME player.pc = "done", ~ card.off, snd.api # "dsound" PROVE card.at = Input
    BY DEF A!DrainedTrue
  <2>1. card.at = Written /\ player.next = Input + 1 /\ player.n = 0 /\ Input \in Nat
    BY <1>1 DEF AudioInv, Heard, UserAt, AudioConstants
  <2> QED
    BY <2>1 DEF Written
<1>2. AudioInv => A!DrainedTrue
  BY <1>1
<1> QED
  BY <1>2, AudioInvariant, PTL

\* _ffwas_write_excl() gives the exclusive device, which has two buffers, never a third one, until they run dry or
\* ffwas_clear() comes before a pending event was handled.
THEOREM TwoBuffers == AudioConstants => (A!Spec => []A!NoOverrun)
<1> SUFFICES ASSUME AudioConstants PROVE A!Spec => []A!NoOverrun
  OBVIOUS
<1>1. ASSUME AudioInv PROVE A!NoOverrun
  <2> SUFFICES ASSUME snd.api = "excl", ~ card.off
               PROVE  Len(card.queue) + (IF snd.wbuf # << >> THEN 1 ELSE 0) <= 2
    BY DEF A!NoOverrun
  <2>1. BufferNumbers
    BY <1>1, BufferFields
  <2>2. PICK n \in Nat, a \in Nat : n = Len(card.queue) /\ a = snd.actv /\ a <= 2
    BY <2>1 DEF BufferNumbers
  <2>3. CASE JustCleared
    <3>1. Len(card.queue) = 0 /\ snd.wbuf = << >>
      BY <2>3 DEF JustCleared
    <3> QED
      BY <3>1
  <2>4. CASE Len(card.queue) + snd.evt + One(card.sig) <= snd.actv
    <3>1. PICK e \in Nat, o \in 0..1 : e = snd.evt /\ o = One(card.sig)
      BY <2>1 DEF BufferNumbers, One
    <3>2. n + e + o <= a
      BY <2>2, <2>4, <3>1
    <3>3. snd.wbuf # << >> => a # 2
      BY <1>1, <2>2 DEF AudioInv, BuffersAhead
    <3>4. n <= 2 /\ (a # 2 => n + 1 <= 2)
      BY <2>2, <3>2
    <3>5. CASE snd.wbuf # << >>
      BY <2>2, <3>3, <3>4, <3>5
    <3>6. CASE snd.wbuf = << >>
      <4>1. n + 0 <= 2
        BY <3>4
      <4> QED
        BY <2>2, <3>6, <4>1
    <3> QED
      BY <3>5, <3>6
  <2> QED
    BY <1>1, <2>3, <2>4, EventsCounted
<1>2. AudioInv => A!NoOverrun
  BY <1>1
<1> QED
  BY <1>2, AudioInvariant, PTL

\* ffdsnd_filled() is what DirectSound has still to play, and the sample of a notification that was not handled: until
\* the silence of the end, before the device ran dry, and before ffdsnd_clear() came with a notification pending.
SoundFilled == snd.api = "dsound" /\ ~ card.off /\ ~ snd.last => A!dsnd_filled(snd) = card.left + One(card.sig)
THEOREM FilledUntilSilence == AudioConstants => (A!Spec => []SoundFilled)
<1>1. AudioInv => SoundFilled
  BY DEF AudioInv, RingAhead, SoundFilled
<1> QED
  BY <1>1, AudioInvariant, PTL

-----------------------------------------------------------------------------
(***************************************************************************)
(* The wait-object handler.                                                *)
(***************************************************************************)
VARIABLES w, k, u
CONSTANTS Users, MaxWait, Rounds, RmInHandler
W == INSTANCE WaitObj

(* The wake event is nobody's handle.                                      *)
WaitConstants == W!NoUser \notin Users /\ Rounds \in [Users -> Nat]

Handles == Users \cup {W!Wake}
Removing == {"cmd", "wake", "wait", "cut"}
Unique(s) == \A a, b \in DOMAIN s : s[a] = s[b] => a = b

(* The invariant, as long as no removal takes the lock with a stale place. *)
(* The wake event is first and no handle is there twice; the users'        *)
(* program counters say which handles are there; the one who removes knows *)
(* the place of its handle from the lock on; the lock is held where it is  *)
(* said to be; the worker is where the remover believes it to be, from the *)
(* event that answers until the lock is free; and the worker knows the     *)
(* entry it was woken for.                                                 *)
Object == [hdls : Seq(Handles), lk : Handles, cmd : {"run", "wait", "quit"}, wake : BOOLEAN,
           wait : BOOLEAN, sig : SUBSET Users, dead : BOOLEAN, stale : BOOLEAN]
Worker == [pc : {"loop", "kernel", "cmd", "call", "lock", "rm", "fail", "end"}, count : Nat, h : Handles, i : Nat]
Thread == [pc : {"out", "add", "added", "in", "find", "lock", "lost"} \cup Removing, i : Nat, left : Int]
WaitTypes == w \in Object /\ k \in Worker /\ u \in [Users -> Thread]
HandlesUnique == 1 \in DOMAIN w.hdls /\ w.hdls[1] = W!Wake /\ Unique(w.hdls)
Registered ==
    \A i \in Users : /\ u[i].pc = "in" => i \in W!Range(w.hdls)
                     /\ u[i].pc \in {"out", "add"} => i \notin W!Range(w.hdls)
Placed == \A i \in Users : u[i].pc \in Removing => u[i].i \in DOMAIN w.hdls /\ w.hdls[u[i].i] = i
LockHeld == \A i \in Users : w.lk = i <=> u[i].pc \in {"add", "cmd", "wake", "wait", "cut"}
Handshake ==
    /\ w.cmd = "wait" => ~ w.wait /\ \E i \in Users : u[i].pc \in {"wake", "wait"}
    /\ w.wait => k.pc = "lock" /\ w.cmd # "wait" /\ \E i \in Users : u[i].pc \in {"wake", "wait"}
    /\ \A i \in Users : u[i].pc = "cut" => k.pc = "lock" /\ ~ w.wait /\ w.cmd # "wait"
    /\ \A i \in Users : u[i].pc = "cmd" => ~ w.wait /\ w.cmd # "wait"
WorkerKnows ==
    k.pc \in {"call", "rm"} => /\ k.i \in DOMAIN w.hdls /\ k.i > 1 /\ w.hdls[k.i] = k.h
                               /\ k.pc = "rm" => k.h \in RmInHandler
WaitInv == /\ ~ w.stale /\ WaitTypes /\ HandlesUnique /\ Registered /\ Placed
           /\ LockHeld /\ Handshake /\ WorkerKnows

\* removed(): the last handle takes the place of the one at i, and the others stay where they are.
LEMMA LastFillsHole ==
    ASSUME NEW S, NEW x, "hdls" \in DOMAIN x, x = [f \in DOMAIN x |-> x[f]], x.hdls \in Seq(S),
           Unique(x.hdls), NEW i \in DOMAIN x.hdls, i > 1
    PROVE  /\ W!removed(x, i) = [x EXCEPT !.hdls = W!removed(x, i).hdls]
           /\ W!removed(x, i).hdls \in Seq(S)
           /\ 1 \in DOMAIN W!removed(x, i).hdls /\ W!removed(x, i).hdls[1] = x.hdls[1]
           /\ Unique(W!removed(x, i).hdls)
           /\ \A e : e \in W!Range(W!removed(x, i).hdls) <=> e \in W!Range(x.hdls) /\ e # x.hdls[i]
<1> DEFINE s == x.hdls
           n == Len(s)
           r == [s EXCEPT ![i] = s[n]]
           t == SubSeq(r, 1, n - 1)
<1>1. n \in Nat /\ i \in 2..n /\ DOMAIN s = 1..n /\ s \in Seq(S)
  OBVIOUS
<1>2. W!Min({i, n}) = i
  <2>1. i \in {i, n} /\ \A y \in {i, n} : i <= y
    BY <1>1
  <2>2. \A v : v \in {i, n} /\ (\A y \in {i, n} : v <= y) => v = i
    BY <1>1
  <2> HIDE DEF n
  <2> QED
    BY <2>1, <2>2 DEF W!Min
<1>3. W!removed(x, i) = [x EXCEPT !.hdls = t]
  BY <1>2 DEF W!removed
<1>4. W!removed(x, i).hdls = t
  BY <1>3
<1>5. r \in Seq(S) /\ Len(r) = n /\ \A j \in 1..n : r[j] = IF j = i THEN s[n] ELSE s[j]
  BY <1>1
<1>6. t \in Seq(S) /\ Len(t) = n - 1 /\ \A j \in 1..(n - 1) : t[j] = r[j]
  <2> HIDE DEF r, n
  <2> QED
    BY <1>1, <1>5
<1>7. /\ DOMAIN t = 1..(n - 1)
      /\ \A j \in 1..(n - 1) : t[j] = IF j = i THEN s[n] ELSE s[j]
      /\ \A a, b \in 1..n : s[a] = s[b] => a = b
  BY <1>1, <1>5, <1>6 DEF Unique
<1> HIDE DEF t, r, n, s
<1>8. 1 \in DOMAIN t /\ t[1] = s[1]
  BY <1>1, <1>7
<1>9. Unique(t)
  <2> SUFFICES ASSUME NEW a \in 1..(n - 1), NEW b \in 1..(n - 1), t[a] = t[b] PROVE a = b
    BY <1>7 DEF Unique
  <2>1. a \in 1..n /\ b \in 1..n /\ n \in 1..n /\ a # n /\ b # n
    BY <1>1
  <2> QED
    BY <1>7, <2>1
<1>10. \A e : e \in W!Range(t) <=> e \in W!Range(s) /\ e # s[i]
  <2>1. ASSUME NEW j \in 1..(n - 1) PROVE \E m \in 1..n : t[j] = s[m] /\ m # i
    <3>1. j \in 1..n /\ n \in 1..n /\ j # n
      BY <1>1
    <3>2. CASE j = i
      BY <1>7, <3>1, <3>2
    <3>3. CASE j # i
      BY <1>7, <3>1, <3>3
    <3> QED
      BY <3>2, <3>3
  <2>2. ASSUME NEW m \in 1..n, m # i PROVE \E j \in 1..(n - 1) : t[j] = s[m]
    <3>1. CASE m = n
      <4>1. i \in 1..(n - 1)
        BY <1>1, <2>2, <3>1
      <4> QED
        BY <1>7, <3>1, <4>1
    <3>2. CASE m # n
      <4>1. m \in 1..(n - 1)
        BY <1>1, <3>2
      <4> QED
        BY <1>7, <2>2, <4>1
    <3> QED
      BY <3>1, <3>2
  <2>3. \A m \in 1..n : m # i <=> s[m] # s[i]
    BY <1>1, <1>7
  <2>4. \A e : e \in W!Range(t) <=> \E j \in 1..(n - 1) : t[j] = e
    BY <1>7 DEF W!Range
  <2>5. \A e : e \in W!Range(s) <=> \E j \in 1..n : s[j] = e
    BY <1>1 DEF W!Range
  <2> QED
    BY <2>1, <2>2, <2>3, <2>4, <2>5
<1> QED
  BY <1>3, <1>4, <1>6, <1>8, <1>9, <1>10 DEF s

\* Steps of a thread that leave the handles as they are.
LEMMA WaitUserSteps ==
    ASSUME WaitConstants, WaitInv, NEW i \in Users, ~ w'.stale,
           \/ W!AddLock(i) \/ W!AddWake(i) \/ W!RmFind(i) \/ W!RmNext(i) \/ W!RmNone(i)
           \/ W!RmLock(i) \/ W!RmCmd(i) \/ W!RmWake(i) \/ W!RmWait(i)
    PROVE  WaitInv'
<1> USE DEF WaitConstants, WaitInv, Handles, Removing, W!NoUser, W!Wake, W!Go
<1>1. CASE W!AddLock(i)
  <2>1. /\ u[i].pc = "out" /\ w.lk = W!NoUser /\ k' = k
        /\ w' = [w EXCEPT !.lk = i] /\ u' = [u EXCEPT ![i].pc = "add"]
    BY <1>1 DEF W!AddLock
  <2>2. WaitTypes'
    <3>1. w' \in Object
      BY <2>1 DEF WaitTypes, Object
    <3>2. [u[i] EXCEPT !.pc = "add"] \in Thread
      BY DEF WaitTypes, Thread
    <3> QED
      BY <2>1, <3>1, <3>2 DEF WaitTypes
  <2>3. /\ w'.hdls = w.hdls /\ w'.lk = i /\ w'.cmd = w.cmd /\ w'.wait = w.wait
        /\ \A j \in Users : j # i => u'[j] = u[j]
        /\ u'[i].pc = "add"
    BY <2>1 DEF WaitTypes
  <2>4. HandlesUnique' /\ WorkerKnows'
    BY <2>1, <2>3 DEF HandlesUnique, WorkerKnows, Unique
  <2>5. Registered'
    BY <2>1, <2>3 DEF Registered, W!Range
  <2>6. Placed'
    BY <2>1, <2>3 DEF Placed
  <2>7. LockHeld'
    BY <2>1, <2>3 DEF LockHeld
  <2>8. Handshake'
    BY <2>1, <2>3 DEF Handshake
  <2> QED
    BY <2>2, <2>4, <2>5, <2>6, <2>7, <2>8
<1>2. CASE W!AddWake(i)
  <2> DEFINE to == IF i \in W!Range(w.hdls) THEN "in" ELSE "out"
  <2>1. /\ u[i].pc = "added" /\ k' = k
        /\ w' = [w EXCEPT !.wake = TRUE]
        /\ u' = [u EXCEPT ![i] = [u[i] EXCEPT !.pc = to, !.left = u[i].left - 1]]
    BY <1>2 DEF W!AddWake
  <2>2. WaitTypes'
    <3>1. w' \in Object
      BY <2>1 DEF WaitTypes, Object
    <3>2. to \in {"in", "out"} /\ u[i] \in Thread
      BY DEF WaitTypes
    <3> DEFINE left == u[i].left - 1
    <3>3. left \in Int
      BY <3>2 DEF Thread
    <3> HIDE DEF to, left
    <3>4. [u[i] EXCEPT !.pc = to, !.left = left] \in Thread
      BY <3>2, <3>3 DEF Thread
    <3> QED
      BY <2>1, <3>1, <3>4 DEF WaitTypes, left
  <2>3. /\ w'.hdls = w.hdls /\ w'.lk = w.lk /\ w'.cmd = w.cmd /\ w'.wait = w.wait
        /\ \A j \in Users : j # i => u'[j] = u[j]
        /\ u'[i].pc = to
    BY <2>1 DEF WaitTypes
  <2>4. HandlesUnique' /\ WorkerKnows'
    BY <2>1, <2>3 DEF HandlesUnique, WorkerKnows, Unique
  <2>5. Registered'
    BY <2>1, <2>3 DEF Registered, W!Range
  <2>6. Placed'
    BY <2>1, <2>3 DEF Placed
  <2>7. LockHeld'
    BY <2>1, <2>3 DEF LockHeld
  <2>8. Handshake'
    BY <2>1, <2>3 DEF Handshake
  <2> QED
    BY <2>2, <2>4, <2>5, <2>6, <2>7, <2>8
<1>3. ASSUME NEW to \in {"find", "lock", "out", "lost"}, NEW at \in Thread,
             u[i].pc \in {"in", "find"}, to = "out" => i \notin W!Range(w.hdls),
             at.pc = to, u' = [u EXCEPT ![i] = at], w' = w, k' = k
      PROVE  WaitInv'
  <2>2. WaitTypes'
    BY <1>3 DEF WaitTypes
  <2>3. /\ \A j \in Users : j # i => u'[j] = u[j]
        /\ u'[i].pc = to
    BY <1>3 DEF WaitTypes
  <2>4. HandlesUnique' /\ WorkerKnows'
    BY <1>3 DEF HandlesUnique, WorkerKnows, Unique
  <2>5. Registered'
    BY <1>3, <2>3 DEF Registered, W!Range
  <2>6. Placed'
    BY <1>3, <2>3 DEF Placed
  <2>7. LockHeld'
    BY <1>3, <2>3 DEF LockHeld
  <2>8. Handshake'
    BY <1>3, <2>3 DEF Handshake
  <2> QED
    BY <1>3, <2>2, <2>4, <2>5, <2>6, <2>7, <2>8
<1>4. ASSUME NEW old, NEW to, u[i].pc = old, old \in Removing \cup {"lock"}, to \in Removing,
             \/ /\ to = "cmd" /\ old = "lock" /\ w.lk = W!NoUser /\ w' = [w EXCEPT !.lk = i]
                /\ u[i].i \in DOMAIN w.hdls /\ w.hdls[u[i].i] = i
             \/ to = "wake" /\ old = "cmd" /\ w' = [w EXCEPT !.cmd = "wait"]
             \/ to = "wait" /\ old = "wake" /\ w' = [w EXCEPT !.wake = TRUE]
             \/ to = "cut" /\ old = "wait" /\ w.wait /\ w' = [w EXCEPT !.wait = FALSE],
             u' = [u EXCEPT ![i].pc = to], k' = k
      PROVE  WaitInv'
  <2>1. WaitTypes'
    <3>1. w' \in Object
      BY <1>4 DEF WaitTypes, Object
    <3>2. [u[i] EXCEPT !.pc = to] \in Thread
      BY <1>4 DEF WaitTypes, Thread
    <3> QED
      BY <1>4, <3>1, <3>2 DEF WaitTypes
  <2>2. /\ w'.hdls = w.hdls
        /\ \A j \in Users : j # i => u'[j] = u[j]
        /\ u'[i].pc = to /\ u'[i].i = u[i].i
    BY <1>4 DEF WaitTypes, Thread, Object
  <2>3. HandlesUnique' /\ WorkerKnows'
    BY <1>4, <2>2 DEF HandlesUnique, WorkerKnows, Unique
  <2>4. Registered'
    BY <1>4, <2>2 DEF Registered, W!Range
  <2>5. Placed'
    BY <1>4, <2>2 DEF Placed
  <2>6. \A j \in Users : j # i => u[j].pc \notin Removing
    BY <1>4 DEF LockHeld
  <2>7. LockHeld'
    BY <1>4, <2>2, <2>6 DEF LockHeld, WaitTypes, Object
  <2>8. Handshake'
    BY <1>4, <2>2, <2>6, <2>1 DEF Handshake, WaitTypes, Object
  <2> QED
    BY <2>1, <2>3, <2>4, <2>5, <2>7, <2>8
<1>5. CASE W!RmLock(i)
  <2>1. /\ u[i].pc = "lock" /\ w.lk = W!NoUser /\ k' = k /\ u' = [u EXCEPT ![i].pc = "cmd"]
        /\ w' = [w EXCEPT !.lk = i, !.stale = w.stale \/ W!Misplaced(i)]
    BY <1>5 DEF W!RmLock
  <2>2. w = [f \in DOMAIN w |-> w[f]] /\ DOMAIN w = DOMAIN w' /\ "stale" \in DOMAIN w /\ "lk" \in DOMAIN w
    BY <2>1 DEF WaitTypes, Object
  <2>3. w'.stale = (w.stale \/ W!Misplaced(i))
    BY <2>1, <2>2
  <2>4. ~ W!Misplaced(i)
    BY <2>3
  <2>5. w' = [w EXCEPT !.lk = i]
    <3>1. w'.stale = FALSE /\ w.stale = FALSE
      BY <2>3, <2>4 DEF WaitTypes, Object
    <3>2. \A f \in DOMAIN w : f # "stale" => w'[f] = IF f = "lk" THEN i ELSE w[f]
      BY <2>1, <2>2
    <3>3. \A f \in DOMAIN w : w'[f] = IF f = "lk" THEN i ELSE w[f]
      BY <3>1, <3>2
    <3>4. w' = [f \in DOMAIN w' |-> w'[f]]
      BY <2>1
    <3> QED
      BY <2>2, <3>3, <3>4
  <2>6. u[i].i \in DOMAIN w.hdls /\ w.hdls[u[i].i] = i
    BY <2>4 DEF W!Misplaced
  <2> QED
    BY <1>4, <2>1, <2>5, <2>6
<1>6. CASE W!RmCmd(i)
  BY <1>4, <1>6 DEF W!RmCmd
<1>7. CASE W!RmWake(i)
  BY <1>4, <1>7 DEF W!RmWake
<1>8. CASE W!RmWait(i)
  BY <1>4, <1>8 DEF W!RmWait
<1>9. u[i] \in Thread /\ u[i].i \in Nat
  BY DEF WaitTypes, Thread
<1>10. CASE W!RmFind(i)
  <2> DEFINE at == [u[i] EXCEPT !.pc = "find", !.i = 2]
  <2>1. at \in Thread /\ at.pc = "find"
    BY <1>9 DEF Thread
  <2>2. u[i].pc = "in" /\ w' = w /\ k' = k /\ u' = [u EXCEPT ![i] = at]
    BY <1>10 DEF W!RmFind
  <2> HIDE DEF at
  <2> QED
    BY <1>3, <2>1, <2>2
<1>11. CASE W!RmNext(i)
  <2>1. u[i].pc = "find" /\ w' = w /\ k' = k
    BY <1>11 DEF W!RmNext
  <2>2. CASE w.hdls[u[i].i] = i
    <3> DEFINE at == [u[i] EXCEPT !.pc = "lock"]
    <3>1. at \in Thread /\ at.pc = "lock"
      BY <1>9 DEF Thread
    <3>2. u' = [u EXCEPT ![i] = at]
      BY <1>11, <2>2 DEF W!RmNext
    <3> HIDE DEF at
    <3> QED
      BY <1>3, <2>1, <3>1, <3>2
  <2>3. CASE w.hdls[u[i].i] # i
    <3> DEFINE n == u[i].i + 1
               at == [u[i] EXCEPT !.i = n]
    <3>1. n \in Nat
      BY <1>9
    <3>2. u' = [u EXCEPT ![i] = at]
      BY <1>11, <2>3 DEF W!RmNext
    <3> HIDE DEF n
    <3>3. at \in Thread /\ at.pc = "find"
      BY <1>9, <2>1, <3>1 DEF Thread
    <3> HIDE DEF at
    <3> QED
      BY <1>3, <2>1, <3>2, <3>3
  <2> QED
    BY <2>2, <2>3
<1>12. CASE W!RmNone(i)
  <2> DEFINE to == IF w.dead THEN "lost" ELSE "out"
             at == [u[i] EXCEPT !.pc = to]
  <2>1. /\ u[i].pc = "find" /\ k' = k /\ u' = [u EXCEPT ![i] = at]
        /\ w' = [w EXCEPT !.stale = w.stale \/ i \in W!Range(w.hdls)]
    BY <1>12 DEF W!RmNone
  <2>2. /\ w = [f \in DOMAIN w |-> w[f]] /\ DOMAIN w = DOMAIN w' /\ "stale" \in DOMAIN w
        /\ w' = [f \in DOMAIN w' |-> w'[f]] /\ w.stale = FALSE
    BY <2>1 DEF WaitTypes, Object
  <2>3. w'.stale = (w.stale \/ i \in W!Range(w.hdls))
    BY <2>1, <2>2
  <2>4. i \notin W!Range(w.hdls) /\ w' = w
    <3>1. i \notin W!Range(w.hdls) /\ w'.stale = FALSE
      BY <2>2, <2>3
    <3>2. \A f \in DOMAIN w : f # "stale" => w'[f] = w[f]
      BY <2>1, <2>2
    <3>3. \A f \in DOMAIN w : w'[f] = w[f]
      BY <2>2, <3>1, <3>2
    <3> QED
      BY <2>2, <3>1, <3>3
  <2>5. to \in {"out", "lost"}
    OBVIOUS
  <2> HIDE DEF to
  <2>6. at \in Thread /\ at.pc = to
    BY <1>9, <2>5 DEF Thread
  <2> HIDE DEF at
  <2> QED
    BY <1>3, <2>1, <2>4, <2>5, <2>6
<1> QED
  BY <1>1, <1>2, <1>5, <1>6, <1>7, <1>8, <1>10, <1>11, <1>12

\* ffwoh_add(): the handle is new, it goes behind the others.
LEMMA WaitAddStep ==
    ASSUME WaitConstants, WaitInv, NEW i \in Users, ~ w'.stale, W!AddItem(i)
    PROVE  WaitInv'
<1> USE DEF WaitConstants, WaitInv, Handles, Removing, W!NoUser, W!Wake, W!Go
<1>1. u[i].pc = "add" /\ k' = k /\ u[i] \in Thread /\ w.hdls \in Seq(Handles) /\ i \notin W!Range(w.hdls)
  BY DEF W!AddItem, WaitTypes, Object, Registered
<1>2. w.lk = i /\ \A j \in Users : j # i => u[j].pc \notin {"add", "cmd", "wake", "wait", "cut"}
  BY <1>1 DEF LockHeld
<1>3. CASE Len(w.hdls) = MaxWait \/ w.dead
  <2> DEFINE left == u[i].left - 1
  <2>1. w' = [w EXCEPT !.lk = W!NoUser] /\ u' = [u EXCEPT ![i] = [u[i] EXCEPT !.pc = "out", !.left = left]]
    BY <1>3 DEF W!AddItem
  <2>2. left \in Int
    BY <1>1 DEF Thread
  <2> HIDE DEF left
  <2>3. WaitTypes'
    <3>1. w' \in Object
      BY <2>1 DEF WaitTypes, Object
    <3>2. [u[i] EXCEPT !.pc = "out", !.left = left] \in Thread
      BY <1>1, <2>2 DEF Thread
    <3> QED
      BY <1>1, <2>1, <3>1, <3>2 DEF WaitTypes
  <2>4. /\ w'.hdls = w.hdls /\ w'.lk = W!NoUser /\ w'.cmd = w.cmd /\ w'.wait = w.wait
        /\ \A j \in Users : j # i => u'[j] = u[j]
        /\ u'[i].pc = "out"
    BY <1>1, <2>1 DEF WaitTypes, Object, Thread
  <2>5. HandlesUnique' /\ WorkerKnows'
    BY <1>1, <2>4 DEF HandlesUnique, WorkerKnows, Unique
  <2>6. Registered'
    BY <1>1, <2>4 DEF Registered, W!Range
  <2>7. Placed'
    BY <1>1, <2>4 DEF Placed
  <2>8. LockHeld'
    BY <1>1, <1>2, <2>4 DEF LockHeld
  <2>9. Handshake'
    BY <1>1, <2>4 DEF Handshake
  <2> QED
    BY <2>3, <2>5, <2>6, <2>7, <2>8, <2>9
<1>4. CASE ~ (Len(w.hdls) = MaxWait \/ w.dead)
  <2> DEFINE t == Append(w.hdls, i)
  <2>1. w' = [w EXCEPT !.lk = W!NoUser, !.hdls = t] /\ u' = [u EXCEPT ![i] = [u[i] EXCEPT !.pc = "added"]]
    BY <1>4 DEF W!AddItem
  <2>2. /\ t \in Seq(Handles) /\ Len(t) = Len(w.hdls) + 1 /\ t[Len(w.hdls) + 1] = i
        /\ \A j \in 1..Len(w.hdls) : t[j] = w.hdls[j]
    BY <1>1
  <2> HIDE DEF t
  <2>3. /\ DOMAIN w.hdls = 1..Len(w.hdls) /\ DOMAIN t = 1..(Len(w.hdls) + 1) /\ Len(w.hdls) \in Nat
        /\ \A j \in DOMAIN w.hdls : j \in DOMAIN t /\ t[j] = w.hdls[j]
        /\ \A j \in DOMAIN t : j \in DOMAIN w.hdls \/ (t[j] = i /\ j = Len(w.hdls) + 1)
    BY <1>1, <2>2
  <2>4. W!Range(t) = W!Range(w.hdls) \cup {i}
    <3>1. \A e : e \in W!Range(t) => e \in W!Range(w.hdls) \cup {i}
      BY <2>3 DEF W!Range
    <3>2. \A e : e \in W!Range(w.hdls) => e \in W!Range(t)
      BY <2>3 DEF W!Range
    <3>3. Len(w.hdls) + 1 \in DOMAIN t
      BY <2>3
    <3>4. i \in W!Range(t)
      BY <2>2, <3>3 DEF W!Range
    <3> QED
      BY <3>1, <3>2, <3>4
  <2>5. WaitTypes'
    <3>1. w' \in Object
      BY <2>1, <2>2 DEF WaitTypes, Object
    <3>2. [u[i] EXCEPT !.pc = "added"] \in Thread
      BY <1>1 DEF Thread
    <3> QED
      BY <1>1, <2>1, <3>1, <3>2 DEF WaitTypes
  <2>6. /\ w'.hdls = t /\ w'.lk = W!NoUser /\ w'.cmd = w.cmd /\ w'.wait = w.wait
        /\ \A j \in Users : j # i => u'[j] = u[j]
        /\ u'[i].pc = "added"
    BY <1>1, <2>1 DEF WaitTypes, Object, Thread
  <2>7. \A j \in DOMAIN w.hdls : w.hdls[j] # i
    BY <1>1 DEF W!Range
  <2>8. HandlesUnique'
    BY <2>3, <2>6, <2>7 DEF HandlesUnique, Unique
  <2>9. WorkerKnows'
    BY <1>1, <2>3, <2>6 DEF WorkerKnows
  <2>10. Registered'
    BY <1>1, <2>4, <2>6 DEF Registered
  <2>11. Placed'
    BY <1>1, <2>3, <2>6 DEF Placed
  <2>12. LockHeld'
    BY <1>1, <1>2, <2>6 DEF LockHeld
  <2>13. Handshake'
    BY <1>1, <2>6 DEF Handshake
  <2> QED
    BY <2>5, <2>8, <2>9, <2>10, <2>11, <2>12, <2>13
<1> QED
  BY <1>3, <1>4

\* ffwoh_rm() of a thread: the worker is out of the kernel and waits, the entry goes and the lock with it.
LEMMA WaitCutStep ==
    ASSUME WaitConstants, WaitInv, NEW i \in Users, ~ w'.stale, W!RmCut(i)
    PROVE  WaitInv'
<1> USE DEF WaitConstants, WaitInv, Handles, Removing, W!NoUser, W!Wake, W!Go
<1> DEFINE at == u[i].i
           t == W!removed(w, at).hdls
<1>1. /\ u[i].pc = "cut" /\ k' = k /\ u[i] \in Thread /\ w.hdls \in Seq(Handles) /\ k.pc = "lock"
      /\ u' = [u EXCEPT ![i] = [u[i] EXCEPT !.pc = "out"]]
      /\ w' = [W!removed(w, at) EXCEPT !.lk = W!NoUser]
  BY DEF W!RmCut, WaitTypes, Object, Handshake
<1>2. w.lk = i /\ \A j \in Users : j # i => u[j].pc \notin {"add", "cmd", "wake", "wait", "cut"}
  BY <1>1 DEF LockHeld
<1>3. at \in DOMAIN w.hdls /\ at > 1 /\ w.hdls[at] = i
  BY <1>1 DEF Placed, HandlesUnique
<1>4. /\ W!removed(w, at) = [w EXCEPT !.hdls = t]
      /\ t \in Seq(Handles)
      /\ 1 \in DOMAIN t /\ t[1] = w.hdls[1] /\ Unique(t)
      /\ \A e : e \in W!Range(t) <=> e \in W!Range(w.hdls) /\ e # i
  <2>1. Unique(w.hdls) /\ "hdls" \in DOMAIN w /\ w = [f \in DOMAIN w |-> w[f]]
    BY DEF HandlesUnique, WaitTypes, Object
  <2> HIDE DEF at, WaitInv
  <2> QED
    BY <1>1, <1>3, <2>1, LastFillsHole
<1> HIDE DEF t, at
<1>5. w' = [w EXCEPT !.hdls = t, !.lk = W!NoUser]
  BY <1>1, <1>4 DEF WaitTypes, Object
<1>6. WaitTypes'
  <2>1. w' \in Object
    BY <1>4, <1>5 DEF WaitTypes, Object
  <2>2. [u[i] EXCEPT !.pc = "out"] \in Thread
    BY <1>1 DEF Thread
  <2> QED
    BY <1>1, <2>1, <2>2 DEF WaitTypes
<1>7. /\ w'.hdls = t /\ w'.lk = W!NoUser /\ w'.cmd = w.cmd /\ w'.wait = w.wait
      /\ \A j \in Users : j # i => u'[j] = u[j]
      /\ u'[i].pc = "out"
  BY <1>1, <1>5 DEF WaitTypes, Object, Thread
<1>8. HandlesUnique' /\ WorkerKnows'
  BY <1>1, <1>4, <1>7 DEF HandlesUnique, WorkerKnows
<1>9. Registered'
  BY <1>1, <1>2, <1>4, <1>7 DEF Registered
<1>10. Placed'
  BY <1>1, <1>2, <1>7 DEF Placed
<1>11. LockHeld'
  BY <1>1, <1>2, <1>7 DEF LockHeld
<1>12. Handshake'
  BY <1>1, <1>2, <1>7 DEF Handshake
<1> QED
  BY <1>6, <1>8, <1>9, <1>10, <1>11, <1>12

\* Steps of the worker, of the kernel and of ffwoh_free() that leave the handles as they are.
LEMMA WaitWorkerSteps ==
    ASSUME WaitConstants, WaitInv, ~ w'.stale,
           \/ W!Loop \/ W!Wait \/ W!Command \/ W!Locked \/ W!Handler \/ W!WaitFails \/ W!Dies \/ W!Free
           \/ \E h \in Users : W!Signal(h)
    PROVE  WaitInv'
<1> USE DEF WaitConstants, WaitInv, Handles, Removing, W!NoUser, W!Wake
<1>1. ASSUME u' = u, w' \in Object, k' \in Worker, w'.hdls = w.hdls, w'.lk = w.lk, Handshake', WorkerKnows'
      PROVE  WaitInv'
  <2>1. WaitTypes' /\ HandlesUnique'
    BY <1>1 DEF WaitTypes, HandlesUnique, Unique
  <2>2. Registered'
    BY <1>1 DEF Registered, W!Range
  <2>3. Placed' /\ LockHeld'
    BY <1>1 DEF Placed, LockHeld
  <2> QED
    BY <1>1, <2>1, <2>2, <2>3
<1>2. w \in Object /\ k \in Worker /\ w.hdls \in Seq(Handles) /\ Len(w.hdls) \in Nat
  BY DEF WaitTypes, Object
<1>3. CASE W!Loop
  <2>1. k.pc = "loop" /\ w' = w /\ u' = u /\ k' = [k EXCEPT !.count = Len(w.hdls), !.pc = "kernel"]
    BY <1>3 DEF W!Loop
  <2>2. k' \in Worker /\ k'.pc = "kernel"
    BY <1>2, <2>1 DEF Worker
  <2>3. Handshake' /\ WorkerKnows'
    BY <2>1, <2>2 DEF Handshake, WorkerKnows
  <2> QED
    BY <1>1, <1>2, <2>1, <2>2, <2>3
<1>4. CASE W!Wait
  <2>1. k.pc = "kernel" /\ u' = u
    BY <1>4 DEF W!Wait
  <2>2. PICK i \in 1..W!Min({k.count, Len(w.hdls)}) :
            /\ k' = [k EXCEPT !.pc = IF i = 1 THEN "cmd" ELSE "call", !.h = w.hdls[i], !.i = i]
            /\ w' = IF w.hdls[i] = 0 THEN [w EXCEPT !.wake = FALSE] ELSE [w EXCEPT !.sig = @ \ {w.hdls[i]}]
    BY <1>4 DEF W!Wait
  <2>3. i \in DOMAIN w.hdls /\ i \in Nat
    <3> DEFINE n == Len(w.hdls)
               m == W!Min({k.count, n})
    <3>1. k.count \in Nat
      BY <1>2 DEF Worker
    <3>2. \E y \in {k.count, n} : \A v \in {k.count, n} : y <= v
      BY <1>2, <3>1
    <3>3. m <= n /\ m \in {k.count, n}
      <4> HIDE DEF n
      <4> QED
        BY <3>2 DEF W!Min
    <3>4. i \in 1..m /\ DOMAIN w.hdls = 1..n /\ n \in Nat
      BY <1>2, <2>2
    <3> HIDE DEF m, n
    <3> QED
      BY <3>1, <3>3, <3>4
  <2>4. w.hdls[i] \in Handles
    BY <1>2, <2>3
  <2>5. w' \in Object /\ w'.hdls = w.hdls /\ w'.lk = w.lk /\ w'.cmd = w.cmd /\ w'.wait = w.wait
    BY <1>2, <2>2, <2>3 DEF Object
  <2>6. k' \in Worker
    BY <1>2, <2>2, <2>3, <2>4 DEF Worker
  <2>7. k'.pc \in {"cmd", "call"} /\ (k'.pc = "call" => i > 1) /\ k'.i = i /\ k'.h = w.hdls[i]
    BY <1>2, <2>2, <2>3 DEF Worker
  <2>8. Handshake' /\ WorkerKnows'
    BY <2>1, <2>3, <2>5, <2>7 DEF Handshake, WorkerKnows
  <2> QED
    BY <1>1, <2>1, <2>5, <2>6, <2>8
<1>5. CASE W!Command
  <2> DEFINE to == CASE w.cmd = "quit" -> "end" [] w.cmd = "wait" -> "lock" [] OTHER -> "loop"
  <2>1. /\ k.pc = "cmd" /\ u' = u
        /\ w' = [w EXCEPT !.cmd = "run", !.wait = w.wait \/ w.cmd = "wait"]
        /\ k' = [k EXCEPT !.pc = to]
    BY <1>5 DEF W!Command
  <2>2. to \in {"end", "lock", "loop"} /\ (w.cmd = "wait" => to = "lock")
    OBVIOUS
  <2> HIDE DEF to
  <2>3. w.cmd \in {"run", "wait", "quit"} /\ w.wait \in BOOLEAN
    BY <1>2 DEF Object
  <2>4. /\ w' \in Object /\ w'.hdls = w.hdls /\ w'.lk = w.lk /\ w'.cmd = "run"
        /\ w'.wait <=> (w.wait \/ w.cmd = "wait")
    BY <1>2, <2>1, <2>3 DEF Object
  <2>5. k' \in Worker /\ k'.pc = to
    BY <1>2, <2>1, <2>2 DEF Worker
  <2>6. ~ w.wait /\ \A j \in Users : u[j].pc # "cut"
    BY <2>1 DEF Handshake
  <2>7. w'.wait <=> w.cmd = "wait"
    BY <2>4, <2>6
  <2>8. \A j \in Users : u[j].pc = "cmd" => w.cmd # "wait"
    BY DEF Handshake
  <2>9. WorkerKnows'
    BY <2>2, <2>5 DEF WorkerKnows
  <2>10. Handshake'
    BY <2>1, <2>2, <2>4, <2>5, <2>6, <2>7, <2>8 DEF Handshake
  <2> QED
    BY <1>1, <2>1, <2>4, <2>5, <2>9, <2>10
<1>6. CASE W!Locked
  <2>1. k.pc = "lock" /\ w.lk = W!NoUser /\ w' = w /\ u' = u /\ k' = [k EXCEPT !.pc = "loop"]
    BY <1>6 DEF W!Locked
  <2>2. k' \in Worker /\ k'.pc = "loop"
    BY <1>2, <2>1 DEF Worker
  <2>3. \A i \in Users : u[i].pc \notin {"cmd", "wake", "wait", "cut"}
    BY <2>1 DEF LockHeld
  <2>4. Handshake' /\ WorkerKnows'
    BY <2>1, <2>2, <2>3 DEF Handshake, WorkerKnows
  <2> QED
    BY <1>1, <1>2, <2>1, <2>2, <2>4
<1>7. CASE W!Handler
  <2>1. k.pc = "call" /\ w' = w /\ u' = u /\ k.i \in DOMAIN w.hdls /\ w.hdls[k.i] = k.h /\ k.i > 1
    BY <1>7 DEF W!Handler, WorkerKnows
  <2>2. PICK to \in {"loop"} \cup (IF k.h \in RmInHandler THEN {"rm"} ELSE {}) : k' = [k EXCEPT !.pc = to, !.h = k.h]
    BY <1>7, <2>1 DEF W!Handler
  <2>3. /\ k' \in Worker /\ k'.i = k.i /\ k'.h = k.h /\ k'.pc \in {"rm", "loop"}
        /\ k'.pc = "rm" => k.h \in RmInHandler
    BY <1>2, <2>2 DEF Worker
  <2>4. Handshake' /\ WorkerKnows'
    BY <2>1, <2>3 DEF Handshake, WorkerKnows
  <2> QED
    BY <1>1, <1>2, <2>1, <2>3, <2>4
<1>11. CASE W!WaitFails
  <2>1. k.pc = "kernel" /\ w' = w /\ u' = u /\ k' = [k EXCEPT !.pc = "fail"]
    BY <1>11 DEF W!WaitFails
  <2>2. k' \in Worker /\ k'.pc = "fail"
    BY <1>2, <2>1 DEF Worker
  <2>3. Handshake' /\ WorkerKnows'
    BY <2>1, <2>2 DEF Handshake, WorkerKnows
  <2> QED
    BY <1>1, <1>2, <2>1, <2>2, <2>3
<1>8. CASE W!Dies
  <2>1. /\ k.pc = "fail" /\ w.lk = W!NoUser /\ u' = u
        /\ w' = [w EXCEPT !.dead = TRUE] /\ k' = [k EXCEPT !.pc = "end"]
    BY <1>8 DEF W!Dies
  <2>2. w' \in Object /\ w'.hdls = w.hdls /\ w'.lk = w.lk /\ w'.cmd = w.cmd /\ w'.wait = w.wait
    BY <1>2, <2>1 DEF Object
  <2>3. k' \in Worker /\ k'.pc = "end"
    BY <1>2, <2>1 DEF Worker
  <2>4. Handshake' /\ WorkerKnows'
    BY <2>1, <2>2, <2>3 DEF Handshake, WorkerKnows
  <2> QED
    BY <1>1, <2>1, <2>2, <2>3, <2>4
<1>9. CASE W!Free
  <2>1. /\ \A i \in Users : u[i].pc = "out"
        /\ u' = u /\ k' = k /\ w' = [w EXCEPT !.cmd = "quit", !.wake = TRUE]
    BY <1>9 DEF W!Free
  <2>2. w' \in Object /\ w'.hdls = w.hdls /\ w'.lk = w.lk /\ w'.cmd = "quit" /\ w'.wait = w.wait
    BY <1>2, <2>1 DEF Object
  <2>3. Handshake' /\ WorkerKnows'
    BY <2>1, <2>2 DEF Handshake, WorkerKnows
  <2> QED
    BY <1>1, <1>2, <2>1, <2>2, <2>3
<1>10. ASSUME NEW h \in Users, W!Signal(h) PROVE WaitInv'
  <2>1. u' = u /\ k' = k /\ w' = [w EXCEPT !.sig = @ \union {h}]
    BY <1>10 DEF W!Signal
  <2>2. w' \in Object /\ w'.hdls = w.hdls /\ w'.lk = w.lk /\ w'.cmd = w.cmd /\ w'.wait = w.wait
    BY <1>2, <2>1 DEF Object
  <2>3. Handshake' /\ WorkerKnows'
    BY <2>1, <2>2 DEF Handshake, WorkerKnows
  <2> QED
    BY <1>1, <1>2, <2>1, <2>2, <2>3
<1> QED
  BY <1>3, <1>4, <1>5, <1>6, <1>7, <1>8, <1>9, <1>10, <1>11

\* ffwoh_rm() of a handler: nobody else has the lock, and the entry is the worker's own.
LEMMA WaitSelfRmStep ==
    ASSUME WaitConstants, WaitInv, ~ w'.stale, W!SelfRm
    PROVE  WaitInv'
<1> USE DEF WaitConstants, WaitInv, Handles, Removing, W!NoUser, W!Wake
<1> DEFINE place(j) == /\ j > 1 /\ w.hdls[j] = k.h
                       /\ \A m \in 2..(j - 1) : w.hdls[m] # k.h
           at == CHOOSE j \in DOMAIN w.hdls : place(j)
           t == W!removed(w, at).hdls
           h == k.h
           to == IF u[h].pc = "in" THEN "out" ELSE u[h].pc
<1>1. /\ k.pc = "rm" /\ w.lk = W!NoUser /\ k' = [k EXCEPT !.pc = "loop"]
      /\ \A i \in Users : u[i].pc \notin Removing
      /\ w' = W!removed(w, at) /\ u' = [u EXCEPT ![h].pc = to]
  BY DEF W!SelfRm, LockHeld
<1>2. w \in Object /\ k \in Worker /\ u \in [Users -> Thread] /\ w.hdls \in Seq(Handles)
  BY DEF WaitTypes, Object
<1>3. at \in DOMAIN w.hdls /\ at > 1 /\ w.hdls[at] = h /\ h \in RmInHandler
  <2>1. k.i \in DOMAIN w.hdls /\ k.i > 1 /\ w.hdls[k.i] = k.h /\ h \in RmInHandler
    BY <1>1 DEF WorkerKnows
  <2>2. \A m \in 2..(k.i - 1) : w.hdls[m] # k.h
    BY <1>2, <2>1 DEF HandlesUnique, Unique
  <2>3. \E j \in DOMAIN w.hdls : place(j)
    BY <2>1, <2>2
  <2>4. at \in DOMAIN w.hdls /\ place(at)
    BY <2>3
  <2> QED
    BY <2>1, <2>4
<1>4. h \in Users /\ h # W!Wake
  <2> HIDE DEF at
  <2>1. h \in Handles /\ 1 \in DOMAIN w.hdls /\ 1 # at
    BY <1>2, <1>3 DEF HandlesUnique
  <2>2. h # W!Wake
    BY <1>3, <2>1 DEF HandlesUnique, Unique
  <2> QED
    BY <2>1, <2>2
<1>5. /\ W!removed(w, at) = [w EXCEPT !.hdls = t]
      /\ t \in Seq(Handles)
      /\ 1 \in DOMAIN t /\ t[1] = w.hdls[1] /\ Unique(t)
      /\ \A e : e \in W!Range(t) <=> e \in W!Range(w.hdls) /\ e # h
  <2>1. Unique(w.hdls) /\ "hdls" \in DOMAIN w /\ w = [f \in DOMAIN w |-> w[f]]
    BY DEF HandlesUnique, WaitTypes, Object
  <2> HIDE DEF at, h, WaitInv
  <2> QED
    BY <1>2, <1>3, <2>1, LastFillsHole
<1>6. h \in W!Range(w.hdls)
  BY <1>3 DEF W!Range
<1>7. /\ u[h].pc = "in" => to = "out"
      /\ u[h].pc # "in" => to = u[h].pc
      /\ to \in {"out", "added", "find", "lock", "lost"} /\ u[h] \in Thread
  <2>1. u[h].pc \in {"added", "in", "find", "lock", "lost"} /\ u[h] \in Thread
    BY <1>1, <1>2, <1>4, <1>6 DEF Registered, Thread
  <2> QED
    BY <2>1
<1> HIDE DEF t, at, h, to
<1>8. WaitTypes'
  <2>1. w' \in Object
    BY <1>1, <1>2, <1>5 DEF Object
  <2>2. k' \in Worker
    BY <1>1, <1>2 DEF Worker
  <2>3. [u[h] EXCEPT !.pc = to] \in Thread
    BY <1>7 DEF Thread
  <2> QED
    BY <1>1, <1>2, <1>4, <2>1, <2>2, <2>3 DEF WaitTypes
<1>9. /\ w'.hdls = t /\ w'.lk = w.lk /\ w'.cmd = w.cmd /\ w'.wait = w.wait /\ k'.pc = "loop"
      /\ \A j \in Users : j # h => u'[j] = u[j]
      /\ u'[h].pc = to
  BY <1>1, <1>2, <1>4, <1>5, <1>7 DEF Object, Worker, Thread
<1>10. HandlesUnique' /\ WorkerKnows'
  BY <1>1, <1>5, <1>9 DEF HandlesUnique, WorkerKnows
<1>11. Registered'
  BY <1>3, <1>4, <1>5, <1>7, <1>9 DEF Registered
<1>12. Placed'
  BY <1>1, <1>7, <1>9 DEF Placed
<1>13. LockHeld'
  BY <1>1, <1>7, <1>9 DEF LockHeld
<1>14. Handshake'
  BY <1>1, <1>7, <1>9 DEF Handshake
<1> QED
  BY <1>8, <1>10, <1>11, <1>12, <1>13, <1>14

(* A removal that went wrong is not forgotten.                             *)
Stale == "stale" \in DOMAIN w /\ w.stale = TRUE
LEMMA StaleStays == Stale /\ [W!Next]_(W!vars) => Stale'
<1> SUFFICES ASSUME Stale, [W!Next]_(W!vars) PROVE Stale'
  OBVIOUS
<1> USE DEF Stale
<1>1. ASSUME w' = w PROVE Stale'
  BY <1>1
<1>2. ASSUME NEW i \in Users, W!User(i) PROVE Stale'
  <2>1. CASE W!RmCut(i)
    BY <2>1 DEF W!RmCut, W!removed
  <2>2. CASE W!RmNone(i)
    BY <2>2 DEF W!RmNone
  <2>3. CASE W!RmLock(i)
    BY <2>3 DEF W!RmLock
  <2>4. CASE W!AddItem(i)
    BY <2>4 DEF W!AddItem
  <2>5. CASE W!AddLock(i) \/ W!AddWake(i) \/ W!RmFind(i) \/ W!RmNext(i) \/ W!RmCmd(i) \/ W!RmWake(i) \/ W!RmWait(i)
    BY <2>5 DEF W!AddLock, W!AddWake, W!RmFind, W!RmNext, W!RmCmd, W!RmWake, W!RmWait
  <2> QED
    BY <1>2, <2>1, <2>2, <2>3, <2>4, <2>5 DEF W!User
<1>3. CASE W!Work
  <2>1. CASE W!SelfRm
    BY <2>1 DEF W!SelfRm, W!removed
  <2>2. CASE W!Wait
    BY <2>2 DEF W!Wait
  <2>3. CASE W!Command
    BY <2>3 DEF W!Command
  <2>4. CASE W!Loop \/ W!Locked \/ W!Handler \/ W!Dies
    BY <2>4 DEF W!Loop, W!Locked, W!Handler, W!Dies
  <2> QED
    BY <1>3, <2>1, <2>2, <2>3, <2>4 DEF W!Work
<1>4. CASE W!WaitFails \/ W!Free \/ \E i \in Users : W!Signal(i)
  BY <1>4 DEF W!WaitFails, W!Free, W!Signal
<1> QED
  BY <1>1, <1>2, <1>3, <1>4 DEF W!Next, W!vars

\* Every step leaves w a record whose history is a Boolean.
LEMMA WaitObjectKept ==
    ASSUME WaitInv, [W!Next]_(W!vars)
    PROVE  "stale" \in DOMAIN w' /\ w'.stale \in BOOLEAN
<1> DEFINE Recorded == "stale" \in DOMAIN w /\ w.stale \in BOOLEAN
<1>0. Recorded
  BY DEF WaitInv, WaitTypes, Object
<1>1. ASSUME w' = w PROVE Recorded'
  BY <1>0, <1>1
<1>2. ASSUME NEW i \in Users, W!User(i) PROVE Recorded'
  <2>1. CASE W!RmCut(i)
    BY <1>0, <2>1 DEF W!RmCut, W!removed
  <2>2. CASE W!RmNone(i)
    BY <1>0, <2>2 DEF W!RmNone
  <2>3. CASE W!RmLock(i)
    BY <1>0, <2>3 DEF W!RmLock
  <2>4. CASE W!AddItem(i)
    BY <1>0, <2>4 DEF W!AddItem
  <2>5. CASE W!AddLock(i) \/ W!AddWake(i) \/ W!RmFind(i) \/ W!RmNext(i) \/ W!RmCmd(i) \/ W!RmWake(i) \/ W!RmWait(i)
    BY <1>0, <2>5 DEF W!AddLock, W!AddWake, W!RmFind, W!RmNext, W!RmCmd, W!RmWake, W!RmWait
  <2> QED
    BY <1>2, <2>1, <2>2, <2>3, <2>4, <2>5 DEF W!User
<1>3. CASE W!Work
  <2>1. CASE W!SelfRm
    BY <1>0, <2>1 DEF W!SelfRm, W!removed
  <2>2. CASE W!Wait
    BY <1>0, <2>2 DEF W!Wait
  <2>3. CASE W!Command
    BY <1>0, <2>3 DEF W!Command
  <2>4. CASE W!Loop \/ W!Locked \/ W!Handler \/ W!Dies
    BY <1>0, <2>4 DEF W!Loop, W!Locked, W!Handler, W!Dies
  <2> QED
    BY <1>3, <2>1, <2>2, <2>3, <2>4 DEF W!Work
<1>4. CASE W!WaitFails \/ W!Free \/ \E i \in Users : W!Signal(i)
  BY <1>0, <1>4 DEF W!WaitFails, W!Free, W!Signal
<1> QED
  BY <1>1, <1>2, <1>3, <1>4 DEF W!Next, W!vars

(* The wait-object handler, for any threads that add and remove handles as *)
(* often as they like, any limit of the handles and any of the handlers    *)
(* removing theirs, in any order: until a removal misses its handle or     *)
(* takes the lock with a place that another removal has changed, a handle  *)
(* is registered once, and while its owner thinks so; the handler that is  *)
(* called is that of the handle that was signalled; and after ffwoh_rm()   *)
(* has returned to a thread its handler is not called (ffwohandler.c:83).  *)
THEOREM RemovedHandles == WaitConstants => (W!Spec => []W!RemovedIsGone)
<1> SUFFICES ASSUME WaitConstants PROVE W!Spec => []W!RemovedIsGone
  OBVIOUS
<1>1. W!Init => WaitInv
  <2> SUFFICES ASSUME W!Init PROVE WaitInv
    OBVIOUS
  <2>1. /\ w = [hdls |-> <<0>>, lk |-> 0, cmd |-> "run", wake |-> FALSE, wait |-> FALSE, sig |-> {}, dead |-> FALSE, stale |-> FALSE]
        /\ k = [pc |-> "loop", count |-> 0, h |-> 0, i |-> 0]
        /\ u = [i \in Users |-> [pc |-> "out", i |-> 0, left |-> Rounds[i]]]
    BY DEF W!Init, W!ffwoh_create, W!Wake, W!NoUser
  <2>2. <<0>> \in Seq(Handles) /\ DOMAIN <<0>> = {1} /\ <<0>>[1] = 0
    BY DEF Handles, W!Wake
  <2>3. w \in Object
    BY <2>1, <2>2 DEF Object, Handles, W!Wake
  <2>4. k \in Worker /\ u \in [Users -> Thread]
    BY <2>1 DEF WaitConstants, Worker, Thread, Handles, W!Wake
  <2>5. w.hdls = <<0>> /\ w.lk = 0 /\ w.cmd = "run" /\ w.wait = FALSE /\ k.pc = "loop" /\ \A i \in Users : u[i].pc = "out"
    BY <2>1
  <2>6. HandlesUnique /\ WorkerKnows /\ Handshake /\ Placed
    BY <2>2, <2>5 DEF HandlesUnique, Unique, WorkerKnows, Handshake, Placed, Removing, W!Wake
  <2>7. Registered /\ LockHeld
    BY <2>2, <2>5 DEF Registered, LockHeld, W!Range, WaitConstants, W!NoUser, Removing
  <2> QED
    BY <2>1, <2>3, <2>4, <2>6, <2>7 DEF WaitInv, WaitTypes
<1>2. WaitInv /\ [W!Next]_(W!vars) => (Stale \/ WaitInv)'
  <2> SUFFICES ASSUME WaitInv, [W!Next]_(W!vars), ~ Stale' PROVE WaitInv'
    OBVIOUS
  <2>0. ~ w'.stale
    <3>1. "stale" \in DOMAIN w' /\ w'.stale \in BOOLEAN
      BY WaitObjectKept
    <3> QED
      BY <3>1 DEF Stale
  <2>1. CASE W!Next
    BY <2>0, <2>1, WaitUserSteps, WaitAddStep, WaitCutStep, WaitWorkerSteps, WaitSelfRmStep DEF W!Next, W!Work, W!User
  <2>2. CASE UNCHANGED W!vars
    BY <2>2 DEF W!vars, WaitInv, WaitTypes, HandlesUnique, Registered, Placed, LockHeld, Handshake,
                WorkerKnows, W!Range, Unique
  <2> QED
    BY <2>1, <2>2
<1>3. WaitInv => W!RemovedIsGone
  <2> SUFFICES ASSUME WaitInv PROVE W!RemovedIsGone
    OBVIOUS
  <2>1. W!OwnHandles
    BY DEF WaitInv, HandlesUnique, Unique, Registered, W!OwnHandles
  <2>2. W!CallsOwn
    BY DEF WaitInv, WorkerKnows, W!CallsOwn
  <2>3. W!NotCalled
    BY DEF WaitInv, WorkerKnows, Registered, W!NotCalled, W!Range
  <2> QED
    BY <2>1, <2>2, <2>3 DEF W!RemovedIsGone
<1>4. Stale => W!RemovedIsGone
  BY DEF Stale, W!RemovedIsGone
<1> QED
  BY <1>1, <1>2, <1>3, <1>4, StaleStays, PTL DEF W!Spec
-----------------------------------------------------------------------------
(***************************************************************************)
(* The hash table.                                                         *)
(***************************************************************************)
VARIABLES ht, f, put
CONSTANTS Items, Hash
H == INSTANCE HashTab

(* ffhst_init() makes at least one slot.                                   *)
N == H!nslots
HashConstants == /\ N \in Nat \ {0}
                 /\ Hash \in [H!Keys -> Nat] /\ H!None \notin H!Keys

Slots == 0..(N - 1)
Used == {s \in Slots : ht.slots[s] # H!None}
Home(x) == H!slotOf(Hash[x])
HashTypes ==
    /\ ht \in [len : Nat, slots : [Slots -> H!Keys \cup {H!None}]]
    /\ f \in [key : H!Keys \cup {H!None}, slot : Slots, got : H!Keys \cup {H!None, "search"}]
    /\ put \in SUBSET H!Keys
(* len counts the slots in use, and only what was put is in one.           *)
LenTrue == ht.len = Cardinality(Used)
OnlyPut == \A s \in Used : ht.slots[s] \in put
HashInv == HashTypes /\ LenTrue /\ OnlyPut /\ H!FindTrue

\* The slots that are probed are slots, every slot is one of the next nslots, and collnext() goes to the next.
LEMMA ProbedSlots ==
    ASSUME HashConstants
    PROVE  /\ \A d \in Nat, s \in Slots : H!nth(s, d) \in Slots
           /\ \A s \in Slots, t \in Slots : \E d \in Slots : H!nth(s, d) = t
           /\ \A s \in Slots, d \in Slots : H!collnext(H!nth(s, d)) = H!nth(s, d + 1)
           /\ \A s \in Slots : H!nth(s, 0) = s
           /\ \A x \in H!Keys : Home(x) \in Slots
<1>0. N \in Nat /\ N > 0
  BY DEF HashConstants
<1>1. \A a \in Nat : a % N \in Slots
  BY <1>0 DEF Slots
<1>2. \A a \in Slots : a % N = a /\ a \in Nat
  BY <1>0 DEF Slots
<1>3. \A a \in Slots : (a + N) % N = a
  BY <1>0 DEF Slots
<1>4. \A s \in Slots, d \in Slots : (s + d) % N = IF s + d < N THEN s + d ELSE s + d - N
  <2> SUFFICES ASSUME NEW s \in Slots, NEW d \in Slots
               PROVE  (s + d) % N = IF s + d < N THEN s + d ELSE s + d - N
    OBVIOUS
  <2>1. CASE s + d < N
    <3>1. s + d \in Slots
      BY <1>0, <2>1 DEF Slots
    <3> QED
      BY <1>2, <2>1, <3>1
  <2>2. CASE ~ (s + d < N)
    <3>1. PICK m \in Slots : m = s + d - N
      BY <1>0, <2>2 DEF Slots
    <3>2. s + d = m + N
      BY <1>0, <3>1 DEF Slots
    <3> QED
      BY <1>3, <2>2, <3>1, <3>2
  <2> QED
    BY <2>1, <2>2
<1>5. \A s \in Slots, d \in Nat : H!nth(s, d) = (s + d) % N
  BY DEF H!nth, N
<1>6. \A s \in Slots, d \in Nat : s + d \in Nat
  BY <1>2
<1>7. \A s \in Slots, t \in Slots : \E d \in Slots : H!nth(s, d) = t
  <2> SUFFICES ASSUME NEW s \in Slots, NEW t \in Slots PROVE \E d \in Slots : H!nth(s, d) = t
    OBVIOUS
  <2>0. (IF t >= s THEN t - s ELSE t - s + N) \in Slots
    BY <1>0 DEF Slots
  <2>1. PICK d \in Slots : d = IF t >= s THEN t - s ELSE t - s + N
    BY <2>0
  <2>2. (IF s + d < N THEN s + d ELSE s + d - N) = t
    BY <1>0, <2>1 DEF Slots
  <2> QED
    BY <1>2, <1>4, <1>5, <2>2
<1>8. \A s \in Slots, d \in Slots : H!collnext(H!nth(s, d)) = H!nth(s, d + 1)
  <2> SUFFICES ASSUME NEW s \in Slots, NEW d \in Slots PROVE H!collnext(H!nth(s, d)) = H!nth(s, d + 1)
    OBVIOUS
  <2>1. PICK m \in Slots : m = H!nth(s, d)
    BY <1>1, <1>2, <1>5, <1>6
  <2>2. H!collnext(m) = (m + 1) % N
    BY DEF H!collnext, N
  <2>3. m = IF s + d < N THEN s + d ELSE s + d - N
    BY <1>2, <1>4, <1>5, <2>1
  <2>4. H!nth(s, d + 1) = (s + d + 1) % N
    <3>1. d + 1 \in Nat /\ s + (d + 1) = s + d + 1
      BY <1>2
    <3> QED
      BY <1>5, <3>1
  <2>5. CASE s + d < N
    BY <2>1, <2>2, <2>3, <2>4, <2>5
  <2>6. CASE ~ (s + d < N)
    <3>1. s + d + 1 = (m + 1) + N
      BY <1>0, <2>3, <2>6 DEF Slots
    <3>2. m + 1 \in Slots
      BY <1>0, <2>3, <2>6 DEF Slots
    <3>3. ((m + 1) + N) % N = m + 1 /\ (m + 1) % N = m + 1
      BY <1>2, <1>3, <3>2
    <3> QED
      BY <2>1, <2>2, <2>4, <3>1, <3>3
  <2> QED
    BY <2>5, <2>6
<1>9. \A s \in Slots : H!nth(s, 0) = s
  BY <1>2, <1>5
<1>10. \A x \in H!Keys : Home(x) \in Slots
  <2>1. \A x \in H!Keys : Hash[x] \in Nat
    BY DEF HashConstants
  <2> QED
    BY <1>1, <2>1 DEF Home, H!slotOf, N
<1> QED
  BY <1>1, <1>5, <1>6, <1>7, <1>8, <1>9, <1>10

\* In a table with an empty slot a probing ends, at the first slot that is empty.
LEMMA FirstEmptySlot ==
    ASSUME HashConstants, ht.slots \in [Slots -> H!Keys \cup {H!None}], NEW s \in Slots,
           NEW hole \in Slots, ht.slots[hole] = H!None
    PROVE  /\ \E d \in Slots : /\ H!firstEmpty(s) = H!nth(s, d)
                               /\ ht.slots[H!nth(s, d)] = H!None
                               /\ \A c \in 0..(d - 1) : ht.slots[H!nth(s, c)] # H!None
           /\ H!firstEmpty(s) \in Slots
<1> DEFINE E == {d \in Slots : ht.slots[H!nth(s, d)] = H!None}
           First(d) == H!FirstOf(s, d, {H!None})
<1>0. N \in Nat /\ Slots \subseteq Nat
  BY DEF HashConstants, Slots
<1>1. E \in SUBSET Nat /\ E # {}
  <2>1. \E d \in Slots : H!nth(s, d) = hole
    BY ProbedSlots
  <2> QED
    BY <1>0, <2>1
<1>2. PICK d \in E : \A c \in E : d <= c
  <2> HIDE DEF E
  <2> QED
    BY <1>1, LeastNat
<1>3. \A c \in 0..(d - 1) : c \in Slots /\ c \notin E
  BY <1>0, <1>2 DEF Slots
<1>4. d \in 0..(N - 1) /\ First(d)
  BY <1>2, <1>3 DEF H!FirstOf, Slots
<1>5. PICK e \in 0..(N - 1) : e = (CHOOSE c \in 0..(N - 1) : First(c)) /\ First(e)
  <2> HIDE DEF First
  <2> QED
    BY <1>4
<1>6. H!firstEmpty(s) = H!nth(s, e)
  BY <1>5 DEF H!firstEmpty, N
<1>7. e \in Slots /\ H!nth(s, e) \in Slots
  BY <1>0, <1>5, ProbedSlots DEF Slots
<1> QED
  BY <1>5, <1>6, <1>7 DEF H!FirstOf

\* ffhst_ins(): a key that was put stays on its way, and the new key is on its own.
LEMMA HashInsStep ==
    ASSUME HashConstants, HashInv, NEW x \in H!Keys, x \notin put, H!Ins(x)
    PROVE  HashInv'
<1> USE DEF HashInv
<1>0. N \in Nat \ {0} /\ Slots = 0..(N - 1) /\ H!None \notin H!Keys /\ f' = f
  BY DEF HashConstants, Slots, H!Ins
<1>1. ht.slots \in [Slots -> H!Keys \cup {H!None}] /\ ht.len \in Nat /\ put \in SUBSET H!Keys
  BY DEF HashTypes
<1>2. IsFiniteSet(Slots) /\ Cardinality(Slots) = N
  BY <1>0, FS_Interval
<1>3. IsFiniteSet(Used) /\ Used \subseteq Slots
  BY <1>2, FS_Subset DEF Used
<1>4. CASE ht.len + 1 > N
  <2>1. ht' = ht /\ put' = put
    BY <1>4 DEF H!Ins, N
  <2> QED
    BY <1>0, <2>1 DEF HashTypes, LenTrue, OnlyPut, Used, H!FindTrue, H!found, H!FirstOf
<1>5. CASE ~ (ht.len + 1 > N)
  <2> DEFINE home == Home(x)
             at == H!firstEmpty(home)
             slots2 == [ht.slots EXCEPT ![at] = x]
  <2>1. PICK hole \in Slots : ht.slots[hole] = H!None
    <3>1. Used # Slots
      BY <1>0, <1>1, <1>2, <1>5 DEF LenTrue
    <3> QED
      BY <1>3, <3>1 DEF Used
  <2>2. home \in Slots
    BY ProbedSlots
  <2>3. PICK d \in Slots : /\ at = H!nth(home, d) /\ ht.slots[at] = H!None
                           /\ \A c \in 0..(d - 1) : ht.slots[H!nth(home, c)] # H!None
    <3> HIDE DEF home
    <3> QED
      BY <1>1, <2>1, <2>2, FirstEmptySlot
  <2>4. at \in Slots
    <3> HIDE DEF home, at
    <3>1. d \in Nat
      BY <1>0
    <3>2. H!nth(home, d) \in Slots
      BY <2>2, <3>1, ProbedSlots
    <3> QED
      BY <2>3, <3>2
  <2>5. /\ ht' = [ht EXCEPT !.len = ht.len + 1, !.slots = slots2]
        /\ put' = put \cup {x}
    BY <1>5 DEF H!Ins, N, Home
  <2> HIDE DEF at
  <2>6. /\ slots2 \in [Slots -> H!Keys \cup {H!None}]
        /\ slots2[at] = x
        /\ \A s \in Slots : s # at => slots2[s] = ht.slots[s]
    BY <1>1, <2>4
  <2> HIDE DEF slots2, home
  <2>7. ht'.len = ht.len + 1 /\ ht'.slots = slots2
    BY <2>5 DEF HashTypes
  <2>8. HashTypes'
    <3>1. ht' \in [len : Nat, slots : [Slots -> H!Keys \cup {H!None}]]
      <4>1. ht \in [len : Nat, slots : [Slots -> H!Keys \cup {H!None}]] /\ ht.len + 1 \in Nat
        BY <1>1 DEF HashTypes
      <4> QED
        BY <2>5, <2>6, <4>1
    <3> QED
      BY <1>0, <1>1, <2>5, <3>1 DEF HashTypes
  <2>9. Used' = Used \cup {at} /\ at \notin Used
    BY <1>0, <2>3, <2>4, <2>6, <2>7 DEF Used
  <2>10. LenTrue'
    <3>1. Cardinality(Used \cup {at}) = Cardinality(Used) + 1
      BY <1>3, <2>9, FS_AddElement
    <3> QED
      BY <2>7, <2>9, <3>1 DEF LenTrue
  <2>11. OnlyPut'
    BY <1>3, <2>5, <2>6, <2>7, <2>9 DEF OnlyPut
  <2>12. \A c \in Nat, s \in Slots : H!nth(s, c) \in Slots
    BY ProbedSlots
  <2>13. ASSUME NEW other \in put PROVE H!found(other)'
    <3>1. PICK c \in 0..(N - 1) : H!FirstOf(Home(other), c, {H!None, other}) /\ ht.slots[H!nth(Home(other), c)] = other
      BY <1>1, <2>13 DEF H!FindTrue, H!found, N, Home
    <3>2. Home(other) \in Slots /\ other # H!None
      BY <1>0, <1>1, <2>13, ProbedSlots
    <3>3. ht'.slots[H!nth(Home(other), c)] = other
      <4>1. c \in Nat
        BY <1>0
      <4>2. H!nth(Home(other), c) \in Slots /\ ht.slots[H!nth(Home(other), c)] = other
        BY <2>12, <3>1, <3>2, <4>1
      <4>3. H!nth(Home(other), c) # at
        BY <2>3, <3>2, <4>2
      <4> QED
        BY <2>6, <2>7, <4>2, <4>3
    <3>4. ASSUME NEW b \in 0..(c - 1) PROVE ht'.slots[H!nth(Home(other), b)] \notin {H!None, other}
      <4>1. H!nth(Home(other), b) \in Slots /\ ht.slots[H!nth(Home(other), b)] \notin {H!None, other}
        BY <2>12, <3>1, <3>2 DEF H!FirstOf
      <4>2. H!nth(Home(other), b) # at
        BY <2>3, <4>1
      <4> QED
        BY <2>6, <2>7, <4>1, <4>2
    <3> QED
      BY <3>1, <3>3, <3>4 DEF H!found, H!FirstOf, Home, N
  <2>14. H!found(x)'
    <3>1. ht'.slots[H!nth(home, d)] = x
      BY <2>3, <2>6, <2>7
    <3>2. ASSUME NEW b \in 0..(d - 1) PROVE ht'.slots[H!nth(home, b)] \notin {H!None, x}
      <4>1. d \in Nat /\ b \in Nat
        BY <1>0
      <4>2. H!nth(home, b) \in Slots /\ ht.slots[H!nth(home, b)] # H!None
        BY <2>2, <2>3, <2>12, <4>1
      <4>3. H!nth(home, b) \in Used /\ H!nth(home, b) # at
        BY <2>3, <4>2 DEF Used
      <4>4. ht.slots[H!nth(home, b)] # x
        BY <4>3 DEF OnlyPut
      <4> QED
        BY <2>6, <2>7, <4>2, <4>3, <4>4
    <3> QED
      BY <1>0, <3>1, <3>2 DEF H!found, H!FirstOf, home, Home, N
  <2>15. ASSUME NEW other \in H!Keys, H!found(other)' PROVE other \in put'
    <3>1. PICK c \in Slots : ht'.slots[H!nth(Home(other), c)] = other
      BY <1>0, <2>15 DEF H!found, Home, N
    <3>2. H!nth(Home(other), c) \in Used'
      <4>1. H!nth(Home(other), c) \in Slots
        <5>1. c \in Nat /\ Home(other) \in Slots
          BY <1>0, ProbedSlots
        <5> QED
          BY <2>12, <5>1
      <4> QED
        BY <1>0, <3>1, <4>1 DEF Used
    <3> QED
      BY <2>11, <3>1, <3>2 DEF OnlyPut
  <2>16. H!FindTrue'
    BY <2>5, <2>13, <2>14, <2>15 DEF H!FindTrue
  <2> QED
    BY <2>8, <2>10, <2>11, <2>16
<1> QED
  BY <1>4, <1>5

\* ffhst_find_el(): a search begins where its key would be, and goes on past a slot that holds another key.
LEMMA HashFindSteps ==
    ASSUME HashConstants, HashInv, H!Probe \/ \E x \in H!Keys : H!FindStart(x)
    PROVE  HashInv'
<1>0. \A x \in H!Keys : H!slotOf(Hash[x]) \in Slots
  BY ProbedSlots DEF Home
<1>1. ht' = ht /\ put' = put
  BY DEF H!Probe, H!FindStart
<1>2. \A s \in Slots : H!collnext(s) \in Slots
  <2>1. 0 \in Slots /\ 0 + 1 \in Nat
    BY DEF Slots, HashConstants
  <2> QED
    BY <2>1, ProbedSlots
<1>3. ht.slots \in [Slots -> H!Keys \cup {H!None}]
  BY DEF HashInv, HashTypes
<1>4. f' \in [key : H!Keys \cup {H!None}, slot : Slots, got : H!Keys \cup {H!None, "search"}]
  <2>1. CASE H!Probe
    <3>1. PICK it \in H!Keys \cup {H!None} : it = ht.slots[f.slot]
      BY <1>3 DEF HashInv, HashTypes
    <3>2. \/ f' = [f EXCEPT !.key = H!None, !.got = H!None]
          \/ f' = [f EXCEPT !.key = H!None, !.got = it]
          \/ f' = [f EXCEPT !.slot = H!collnext(f.slot)]
      BY <2>1, <3>1 DEF H!Probe
    <3> QED
      BY <1>2, <3>1, <3>2 DEF HashInv, HashTypes
  <2>2. CASE \E x \in H!Keys : H!FindStart(x)
    BY <1>0, <2>2 DEF H!FindStart
  <2> QED
    BY <2>1, <2>2
<1> QED
  BY <1>1, <1>4 DEF HashInv, HashTypes, LenTrue, OnlyPut, Used, H!FindTrue, H!found, H!FirstOf

LEMMA HashInvariant == HashConstants => (H!Spec => []HashInv)
<1> SUFFICES ASSUME HashConstants PROVE H!Spec => []HashInv
  OBVIOUS
<1>0. N \in Nat \ {0} /\ Slots = 0..(N - 1) /\ H!None \notin H!Keys
  BY DEF HashConstants, Slots
<1>1. H!Init => HashInv
  <2> SUFFICES ASSUME H!Init PROVE HashInv
    OBVIOUS
  <2>1. /\ ht = [len |-> 0, slots |-> [i \in Slots |-> H!None]] /\ put = {}
        /\ f = [key |-> H!None, slot |-> 0, got |-> H!None]
    BY DEF H!Init, Slots, N
  <2>2. HashTypes
    BY <1>0, <2>1 DEF HashTypes
  <2>3. Used = {}
    BY <2>1 DEF Used
  <2>4. LenTrue /\ OnlyPut
    BY <2>1, <2>3, FS_EmptySet DEF LenTrue, OnlyPut, HashConstants
  <2>5. \A x \in H!Keys : ~ H!found(x)
    <3> SUFFICES ASSUME NEW x \in H!Keys, NEW d \in Slots, ht.slots[H!nth(Home(x), d)] = x PROVE FALSE
      BY <1>0 DEF H!found, Home, N
    <3>1. d \in Nat /\ Home(x) \in Slots
      BY <1>0, ProbedSlots
    <3>2. H!nth(Home(x), d) \in Slots
      BY <3>1, ProbedSlots
    <3> QED
      BY <1>0, <2>1, <3>2
  <2> QED
    BY <2>1, <2>2, <2>4, <2>5 DEF HashInv, H!FindTrue
<1>2. HashInv /\ [H!Next]_(H!vars) => HashInv'
  <2> SUFFICES ASSUME HashInv, [H!Next]_(H!vars) PROVE HashInv'
    OBVIOUS
  <2>1. CASE H!Next
    BY <2>1, HashInsStep, HashFindSteps DEF H!Next
  <2>2. CASE UNCHANGED H!vars
    BY <2>2 DEF H!vars, HashInv, HashTypes, LenTrue, OnlyPut, Used, H!FindTrue, H!found, H!FirstOf
  <2> QED
    BY <2>1, <2>2
<1> QED
  BY <1>1, <1>2, PTL DEF H!Spec

(* The hash table, for any keys with any hashes in any number of slots,    *)
(* whether or not it gets full: ffhst_find() finds a key if and only if it *)
(* was put into the table (ffhashtab.c:99).                                *)
THEOREM TableFinds == HashConstants => (H!Spec => []H!FindTrue)
<1>1. HashInv => H!FindTrue
  BY DEF HashInv
<1> QED
  BY <1>1, HashInvariant, PTL

\* A probing that goes on is one slot further, and not at the slot where it began, unless it has no end.
LEMMA ProbeOn ==
    ASSUME HashConstants, HashInv, H!NotRound, H!Probe, f'.key # H!None
    PROVE  H!NotRound'
<1> USE DEF HashInv
<1>0. N \in Nat \ {0} /\ Slots = 0..(N - 1) /\ H!None \notin H!Keys
  BY DEF HashConstants, Slots
<1>1. f.key \in H!Keys /\ ht' = ht /\ Home(f.key) \in Slots
  <2>1. f.key \in H!Keys /\ ht' = ht
    BY DEF HashTypes, H!Probe
  <2> QED
    BY <2>1, ProbedSlots
<1>3. /\ ht.slots[f.slot] \notin {H!None, f.key}
      /\ f' = [f EXCEPT !.slot = H!collnext(f.slot)] /\ put' = put
  BY DEF H!Probe, HashTypes
<1> SUFFICES ASSUME ~ H!Endless' PROVE H!NotRound'
  BY DEF H!NotRound
<1>8. f'.key = f.key /\ ~ H!Endless
  BY <1>1, <1>3 DEF HashTypes, H!Endless, H!Full
<1>2. PICK d \in Slots : f.slot = H!nth(Home(f.key), d) /\ H!Passed(f.key, d)
  BY <1>0, <1>1, <1>8 DEF H!NotRound, Home, N
<1>4. \A c \in 0..d : ht.slots[H!nth(Home(f.key), c)] \notin {H!None, f.key}
  <2>1. \A c \in 0..(d - 1) : ht.slots[H!nth(Home(f.key), c)] \notin {H!None, f.key}
    BY <1>2 DEF H!Passed, Home
  <2>2. \A c \in 0..d : c \in 0..(d - 1) \/ c = d
    BY <1>0
  <2> QED
    BY <1>2, <1>3, <2>1, <2>2
<1>5. d + 1 \in Slots
  <2> SUFFICES ASSUME d = N - 1 PROVE FALSE
    BY <1>0
  <2>1. \A s \in Slots : ht.slots[s] \notin {H!None, f.key}
    <3> SUFFICES ASSUME NEW s \in Slots PROVE ht.slots[s] \notin {H!None, f.key}
      OBVIOUS
    <3>1. PICK c \in Slots : H!nth(Home(f.key), c) = s
      BY <1>1, ProbedSlots
    <3>2. c \in 0..d
      BY <1>0
    <3> QED
      BY <1>4, <3>1, <3>2
  <2>2. H!Full
    BY <1>0, <2>1 DEF H!Full, N
  <2>3. PICK e \in Slots : ht.slots[H!nth(Home(f.key), e)] = f.key
    <3>1. f.key \in put
      BY <1>8, <2>2 DEF H!Endless
    <3> QED
      BY <1>0, <1>1, <3>1 DEF H!FindTrue, H!found, Home, N
  <2>4. H!nth(Home(f.key), e) \in Slots
    <3>1. e \in Nat
      BY <1>0
    <3> QED
      BY <1>1, <3>1, ProbedSlots
  <2> QED
    BY <2>1, <2>3, <2>4
<1>6. f'.key = f.key /\ f'.slot = H!nth(Home(f.key), d + 1)
  <2>1. H!collnext(H!nth(Home(f.key), d)) = H!nth(Home(f.key), d + 1)
    BY <1>1, ProbedSlots
  <2> QED
    BY <1>2, <1>3, <2>1 DEF HashTypes
<1>7. H!Passed(f.key, d + 1)'
  <2>1. (d + 1) - 1 = d
    BY <1>0
  <2> QED
    BY <1>1, <1>4, <1>6, <2>1 DEF H!Passed, Home
<1> QED
  BY <1>0, <1>5, <1>6, <1>7 DEF H!NotRound, Home, N

LEMMA NotRoundStep ==
    ASSUME HashConstants, HashInv, H!NotRound, [H!Next]_(H!vars)
    PROVE  H!NotRound'
<1>0. N \in Nat \ {0} /\ Slots = 0..(N - 1) /\ H!None \notin H!Keys
  BY DEF HashConstants, Slots
<1>1. CASE H!Probe
  <2>1. CASE f'.key = H!None
    BY <2>1 DEF H!NotRound
  <2> QED
    BY <1>1, <2>1, ProbeOn
<1>2. ASSUME NEW x \in H!Keys, H!FindStart(x) PROVE H!NotRound'
  <2>1. ht' = ht /\ f'.key = x /\ f'.slot = Home(x)
    BY <1>2 DEF H!FindStart, Home
  <2>2. 0 \in Slots /\ H!nth(Home(x), 0) = Home(x)
    BY <1>0, ProbedSlots
  <2>3. H!Passed(f.key, 0)'
    BY DEF H!Passed
  <2> QED
    BY <1>0, <2>1, <2>2, <2>3 DEF H!NotRound, H!Passed, Home, N
<1>3. ASSUME NEW x \in H!Keys, H!Ins(x) PROVE H!NotRound'
  BY <1>3 DEF H!Ins, H!NotRound
<1>4. CASE UNCHANGED H!vars
  BY <1>4 DEF H!vars, H!NotRound, H!Passed, H!Endless, H!Full
<1> QED
  BY <1>1, <1>2, <1>3, <1>4 DEF H!Next

(* However many items are put, a search goes round only where no slot is   *)
(* free and its key is in none: otherwise there is a slot before every     *)
(* step that it has not looked at, and it has met neither its key nor a    *)
(* hole (ffhashtab.c:103).                                                 *)
THEOREM SearchGoesOn == HashConstants => (H!Spec => []H!NotRound)
<1> SUFFICES ASSUME HashConstants PROVE H!Spec => []H!NotRound
  OBVIOUS
<1>1. H!Init => H!NotRound
  BY DEF H!Init, H!NotRound
<1>2. HashInv /\ H!NotRound /\ [H!Next]_(H!vars) => H!NotRound'
  BY NotRoundStep
<1> QED
  BY <1>1, <1>2, HashInvariant, PTL DEF H!Spec

(* And what it returns is the key if that was put, else NULL.              *)
THEOREM SearchAnswers == HashConstants => (H!Spec => H!Answers)
<1> SUFFICES ASSUME HashConstants PROVE H!Spec => H!Answers
  OBVIOUS
<1>1. HashInv /\ H!NotRound /\ [H!Next]_(H!vars) => [H!Answer]_(H!vars)
  <2> SUFFICES ASSUME HashInv, H!NotRound, H!Next, f.key # H!None, f'.key = H!None
               PROVE  f'.got = IF f.key \in put THEN f.key ELSE H!None
    BY DEF H!Answer
  <2> USE DEF HashInv
  <2>0. N \in Nat \ {0} /\ Slots = 0..(N - 1) /\ H!None \notin H!Keys
    BY DEF HashConstants, Slots
  <2>1. H!Probe /\ f.key \in H!Keys
    BY DEF H!Next, H!FindStart, H!Ins, HashTypes
  <2>5. ~ H!Endless
    <3>1. f.slot \in Slots /\ (ht.slots[f.slot] = H!None \/ ht.slots[f.slot] = f.key)
      BY <2>0, <2>1 DEF H!Probe, HashTypes
    <3>2. ht.slots[f.slot] = f.key => f.key \in put
      BY <2>0, <2>1, <3>1 DEF OnlyPut, Used
    <3> QED
      BY <2>0, <3>1, <3>2 DEF H!Endless, H!Full, N
  <2>2. PICK d \in Slots : f.slot = H!nth(Home(f.key), d) /\ H!Passed(f.key, d)
    BY <2>0, <2>5 DEF H!NotRound, Home, N
  <2>3. CASE ht.slots[f.slot] = f.key
    <3>1. f.key \in put
      BY <2>1, <2>0, <2>3 DEF HashTypes, OnlyPut, Used
    <3>2. f'.got = f.key
      BY <2>0, <2>1, <2>3 DEF H!Probe, HashTypes
    <3> QED
      BY <3>1, <3>2
  <2>4. CASE ht.slots[f.slot] # f.key
    <3>1. ht.slots[f.slot] = H!None /\ f'.got = H!None
      BY <2>1, <2>4 DEF H!Probe, HashTypes
    <3>2. ASSUME NEW e \in Slots, H!FirstOf(Home(f.key), e, {H!None, f.key}), ht.slots[H!nth(Home(f.key), e)] = f.key
          PROVE  FALSE
      <4>1. CASE e < d
        <5>1. e \in 0..(d - 1)
          BY <2>0, <4>1
        <5> QED
          BY <2>2, <3>2, <5>1 DEF H!Passed, Home
      <4>2. CASE d < e
        <5>1. d \in 0..(e - 1)
          BY <2>0, <4>2
        <5> QED
          BY <2>2, <3>1, <3>2, <5>1 DEF H!FirstOf
      <4>3. CASE d = e
        BY <2>2, <2>4, <3>2, <4>3
      <4> QED
        BY <2>0, <4>1, <4>2, <4>3
    <3>3. f.key \notin put
      BY <2>0, <2>1, <3>2 DEF H!FindTrue, H!found, Home, N
    <3> QED
      BY <3>1, <3>3
  <2> QED
    BY <2>3, <2>4
<1>2. H!Spec => []HashInv /\ []H!NotRound
  BY HashInvariant, SearchGoesOn
<1> QED
  BY <1>1, <1>2, PTL DEF H!Spec, H!Answers
=============================================================================
