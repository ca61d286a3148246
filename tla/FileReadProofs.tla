--------------------------- MODULE FileReadProofs ---------------------------
(***************************************************************************)
(* Proofs about the file reader for every number and size of buffers,      *)
(* every file and every consumer; the second half is about consumers for   *)
(* which it reads ahead.                                                   *)
(***************************************************************************)
EXTENDS FileRead, TLAPS

\* The inductive invariant: the object is in state FI_ASYNC exactly while the
\* kernel reads, which it does into the buffer at wbuf, and that buffer cannot
\* be found.
Reading(g) == g.state = "async" => g.bufs[g.wbuf].len = 0
ReadInv == /\ TypeOK /\ CacheIsFile /\ BusyIsAlive
           /\ f.state = "async" => aio
           /\ Reading(f)
           /\ freed => ~f.fd

LEMMA Constants ==
    /\ nbufs \in Nat /\ nbufs > 0 /\ bufsize \in Nat /\ bufsize > 0
    /\ bufalign \in Nat /\ bufalign > 0
    /\ Size \in Nat /\ Mod \in Nat /\ 2 * (Size + 2 * bufsize) < Mod
BY ConfAssumption, SizeAssumption

LEMMA ModType == ASSUME NEW a \in Nat, NEW b \in Nat, b > 0
                 PROVE  a % b \in 0..(b - 1) /\ a % b <= a
OBVIOUS

LEMMA AvailType == ASSUME NEW off \in Offsets
                   PROVE  /\ Avail(off) \in 0..bufsize
                          /\ off + Avail(off) \in Offsets
BY Constants DEF Avail, Offsets

LEMMA FloorType == ASSUME NEW off \in Asked PROVE floor2(off) \in Offsets
<1>1. off \in Nat /\ off < Mod
  BY Constants DEF Asked
<1>2. off % bufalign \in Nat /\ off % bufalign <= off
  BY <1>1, Constants, ModType
<1> QED
  BY <1>1, <1>2, Constants DEF floor2, Offsets

\* Preparing a buffer for a read keeps the other ones and hides this one.
LEMMA PrepGood ==
    ASSUME NEW g \in FType, CacheOf(g), NEW off \in Offsets
    PROVE  /\ buf_prepread(g, off) \in FType
           /\ CacheOf(buf_prepread(g, off))
           /\ buf_prepread(g, off).bufs[buf_prepread(g, off).wbuf].len = 0
           /\ buf_prepread(g, off).fd = g.fd
           /\ buf_prepread(g, off).state = g.state
           /\ buf_prepread(g, off).wbuf = g.wbuf
<1> DEFINE p == buf_prepread(g, off)
<1>1. /\ p.state = g.state /\ p.eof = g.eof /\ p.wbuf = g.wbuf
      /\ p.locked = g.locked /\ p.fd = g.fd
      /\ p = [g EXCEPT !.bufs = p.bufs]
  BY DEF FType, buf_prepread
<1>2. p.bufs = [g.bufs EXCEPT ![g.wbuf] = [@ EXCEPT !.len = 0, !.offset = off]]
  BY DEF FType, buf_prepread
<1>3. p.bufs \in [Bufs -> BufType]
  <2>1. g.bufs \in [Bufs -> BufType] /\ g.wbuf \in Bufs /\ 0 \in 0..bufsize
    BY Constants DEF FType
  <2>2. [g.bufs[g.wbuf] EXCEPT !.len = 0, !.offset = off] \in BufType
    BY <2>1 DEF BufType
  <2> QED
    BY <1>2, <2>1, <2>2
<1>4. p.bufs[g.wbuf].len = 0
  BY <1>2 DEF FType, BufType
<1>5. CacheOf(p)
  BY <1>2, <1>4 DEF CacheOf, HoldsFile, FType, BufType
<1>6. p \in FType
  BY <1>1, <1>3 DEF FType
<1> QED
  BY <1>1, <1>4, <1>5, <1>6

\* Every outcome of a read into a hidden buffer.
LEMMA DoneGood ==
    ASSUME NEW g \in FType, CacheOf(g), g.bufs[g.wbuf].len = 0, g.state # "async"
    PROVE  /\ Done(g).f \in FType /\ CacheOf(Done(g).f) /\ Done(g).f.fd = g.fd
           /\ Done(g).f.state # "async" /\ Done(g).r # "async"
<1> DEFINE b == g.bufs[g.wbuf]
           n == Avail(b.offset)
           h == read(g)
<1>1. b \in BufType /\ g.wbuf \in Bufs
  BY DEF FType
<1>2. n \in 0..bufsize /\ b.offset + n \in Offsets
  BY <1>1, AvailType DEF BufType
<1>3. h.bufs = [g.bufs EXCEPT ![g.wbuf] = [@ EXCEPT !.len = n, !.data = b.offset]]
  BY DEF FType, read
<1>4. h.bufs \in [Bufs -> BufType]
  <2>1. [b EXCEPT !.len = n, !.data = b.offset] \in BufType
    BY <1>1, <1>2 DEF BufType
  <2>2. g.bufs \in [Bufs -> BufType]
    BY DEF FType
  <2> QED
    BY <1>1, <1>3, <2>1, <2>2
<1>5. h.wbuf \in Bufs
  <2>1. g.wbuf + 1 \in Nat
    BY <1>1, Constants DEF Bufs
  <2>2. (g.wbuf + 1) % nbufs \in 0..(nbufs - 1)
    BY <2>1, Constants, ModType
  <2> QED
    BY <2>2 DEF read, FType, Bufs
<1>6. h \in FType /\ h.fd = g.fd /\ h.state # "async"
  <2>1. h.eof \in Offsets /\ h.state \in {"ok", "err", "async", "eof"} /\ h.state # "async"
    BY <1>2 DEF read, FType
  <2>2. h.locked = g.locked /\ h.fd = g.fd
    BY DEF read, FType
  <2>3. h = [g EXCEPT !.bufs = h.bufs, !.wbuf = h.wbuf, !.state = h.state, !.eof = h.eof]
    BY ZenonT(40) DEF read, FType
  <2> QED
    BY <1>4, <1>5, <2>1, <2>2, <2>3 DEF FType
<1>7. CacheOf(h)
  BY <1>1, <1>3 DEF CacheOf, HoldsFile, FType, BufType
<1> QED
  BY <1>6, <1>7 DEF Done

LEMMA FailedGood ==
    ASSUME NEW g \in FType, CacheOf(g), g.bufs[g.wbuf].len = 0
    PROVE  /\ Failed(g).f \in FType /\ CacheOf(Failed(g).f) /\ Failed(g).f.fd = g.fd
           /\ Failed(g).f.state # "async" /\ Failed(g).r # "async"
<1> DEFINE h == Failed(g).f
<1>1. h.bufs = [g.bufs EXCEPT ![g.wbuf] = [@ EXCEPT !.data = None]]
  BY DEF FType, Failed
<1>2. h = [g EXCEPT !.bufs = h.bufs, !.state = "err"]
  BY DEF FType, Failed
<1>3. h.bufs \in [Bufs -> BufType]
  BY <1>1 DEF FType, BufType
<1>4. CacheOf(h)
  BY <1>1 DEF CacheOf, HoldsFile, FType, BufType
<1> QED
  BY <1>2, <1>3, <1>4 DEF FType, Failed

LEMMA PendingGood ==
    ASSUME NEW g \in FType, CacheOf(g), g.bufs[g.wbuf].len = 0
    PROVE  /\ Pending(g).f \in FType /\ CacheOf(Pending(g).f) /\ Pending(g).f.fd = g.fd
           /\ Pending(g).f.state = "async" /\ Pending(g).r = "async"
           /\ Reading(Pending(g).f)
<1> DEFINE h == Pending(g).f
<1>1. h.bufs = [g.bufs EXCEPT ![g.wbuf] = [@ EXCEPT !.data = None]]
  BY DEF FType, Pending
<1>2. h = [g EXCEPT !.bufs = h.bufs, !.state = "async"]
  BY DEF FType, Pending
<1>3. h.bufs \in [Bufs -> BufType]
  BY <1>1 DEF FType, BufType
<1>4. CacheOf(h)
  BY <1>1 DEF CacheOf, HoldsFile, FType, BufType
<1>5. h.wbuf = g.wbuf /\ h.bufs[g.wbuf].len = 0
  <2>1. h.wbuf = g.wbuf
    BY DEF FType, Pending
  <2>2. g.wbuf \in Bufs /\ g.bufs \in [Bufs -> BufType]
    BY DEF FType
  <2>3. h.bufs[g.wbuf] = [g.bufs[g.wbuf] EXCEPT !.data = None]
    BY <1>1, <2>2
  <2> QED
    BY <2>1, <2>2, <2>3 DEF BufType
<1> QED
  BY <1>2, <1>3, <1>4, <1>5 DEF FType, Pending, Reading

\* What fr_read_off() leaves behind.
LEMMA ReadOffGood ==
    ASSUME NEW g \in FType, CacheOf(g), g.state # "async", NEW off \in Offsets,
           NEW o \in fr_read_off(g, off)
    PROVE  /\ o.f \in FType /\ CacheOf(o.f) /\ o.f.fd = g.fd
           /\ o.f.state = "async" <=> o.r = "async"
           /\ Reading(o.f)
<1>1. PICK p \in FType : /\ p = buf_prepread(g, off)
                         /\ CacheOf(p) /\ p.bufs[p.wbuf].len = 0
                         /\ p.fd = g.fd /\ p.state # "async"
  BY PrepGood
<1>2. o \in {Failed(p), Pending(p), Done(p)}
  BY <1>1 DEF fr_read_off, fr_read
<1> QED
  BY <1>1, <1>2, DoneGood, FailedGood, PendingGood DEF Reading

LEMMA LockGood ==
    ASSUME NEW g \in FType, NEW i \in Bufs \cup {NoOff}
    PROVE  /\ [g EXCEPT !.locked = i] \in FType
           /\ [g EXCEPT !.locked = i].bufs = g.bufs
           /\ [g EXCEPT !.locked = i].fd = g.fd
           /\ [g EXCEPT !.locked = i].state = g.state
           /\ CacheOf(g) => CacheOf([g EXCEPT !.locked = i])
           /\ Reading(g) => Reading([g EXCEPT !.locked = i])
BY DEF FType, CacheOf, Reading

LEMMA AheadType ==
    ASSUME NEW g \in FType, CacheOf(g), NEW i \in Bufs, g.bufs[i].len > 0, NEW fl
    PROVE  ahead(g, i, fl) \in Offsets
<1>1. g.bufs[i] \in BufType
  BY DEF FType
<1>2. g.bufs[i].offset + g.bufs[i].len \in Offsets
  BY <1>1, AvailType DEF CacheOf, HoldsFile, BufType
<1>3. PICK n \in Nat : n = g.bufs[i].offset + Mod - bufsize
  BY <1>1, Constants DEF BufType, Offsets
<1>4. n % Mod \in Offsets
  BY <1>3, Constants, ModType DEF Offsets
<1> QED
  BY <1>2, <1>3, <1>4 DEF ahead

Flag == {None, "forward", "backward"}

\* A call that does not read ahead, and a consumer that makes only such calls.
Alone(fl) == fl = None \/ ~directio \/ nbufs = 1
Plain == ~directio \/ nbufs = 1 \/ user \notin {"forward", "backward", "seeking"}

\* Returning a buffer that was found, with or without a read-ahead.
LEMMA ReturnGood ==
    ASSUME NEW g \in FType, CacheOf(g), Reading(g), aio \in BOOLEAN,
           aio <=> g.state = "async",
           NEW off \in Asked, NEW fl \in Flag, NEW i \in found(g, off),
           Return(g, i, off, fl)
    PROVE  /\ f' \in FType /\ CacheOf(f') /\ Reading(f') /\ f'.fd = g.fd
           /\ aio' \in BOOLEAN /\ (aio' <=> f'.state = "async")
           /\ got' = [buf |-> i, off |-> off] /\ i \in Bufs
           /\ want' = None
           /\ Alone(fl) => within(off, f'.bufs[i]) /\ f'.bufs[i].data = f'.bufs[i].offset
<1>1. i \in Bufs /\ within(off, g.bufs[i])
  BY DEF found
<1>2. g.bufs[i].len > 0 /\ g.bufs[i] \in BufType
  BY <1>1, Constants DEF within, FType, BufType, Offsets, Asked
<1>3. PICK h \in IF readsahead(g, i, fl) THEN fr_read_off(g, ahead(g, i, fl))
                 ELSE {[f |-> g, r |-> "none"]} :
        /\ f' = [h.f EXCEPT !.locked = i]
        /\ aio' = (aio \/ h.r = "async")
        /\ got' = [buf |-> i, off |-> off]
        /\ want' = None
  BY DEF Return
<1>4. CASE readsahead(g, i, fl)
  <2>1. g.state # "async" /\ ~Alone(fl) /\ aio = FALSE
    BY <1>4 DEF readsahead, Alone
  <2>2. PICK a \in Offsets : a = ahead(g, i, fl)
    BY <1>1, <1>2, AheadType
  <2>3. h \in fr_read_off(g, a)
    BY <1>3, <1>4, <2>2
  <2>4. /\ h.f \in FType /\ CacheOf(h.f) /\ h.f.fd = g.fd
        /\ h.f.state = "async" <=> h.r = "async"
        /\ Reading(h.f)
    BY <2>1, <2>3, ReadOffGood
  <2> QED
    BY <1>1, <1>3, <2>1, <2>4, LockGood
<1>5. CASE ~readsahead(g, i, fl)
  <2>1. h.f = g /\ h.r = "none"
    BY <1>3, <1>5
  <2>2. g.bufs[i].data = g.bufs[i].offset
    BY <1>1, <1>2 DEF CacheOf, HoldsFile
  <2>3. f'.bufs = g.bufs
    BY <1>1, <1>3, <2>1, LockGood
  <2> QED
    BY <1>1, <1>3, <2>1, <2>2, <2>3, LockGood
<1> QED
  BY <1>4, <1>5

\* What any call of fffileread_getdata() leaves behind.
Answered(off) == /\ f' \in FType /\ CacheOf(f') /\ Reading(f') /\ f'.fd = f.fd
                 /\ aio' \in BOOLEAN /\ (aio' <=> f'.state = "async")
                 /\ want' \in {off, None}
                 /\ got' \in [buf : Bufs, off : Asked] \cup {None}
Intact == got' # None => /\ within(got'.off, f'.bufs[got'.buf])
                         /\ f'.bufs[got'.buf].data = f'.bufs[got'.buf].offset

LEMMA ReturnedGood ==
    ASSUME NEW g \in FType, CacheOf(g), Reading(g), aio \in BOOLEAN, g.fd = f.fd,
           aio <=> g.state = "async",
           NEW off \in Asked, NEW fl \in Flag, NEW i \in found(g, off),
           Return(g, i, off, fl)
    PROVE  Answered(off) /\ (Alone(fl) => Intact)
<1>1. /\ f' \in FType /\ CacheOf(f') /\ Reading(f') /\ f'.fd = f.fd
      /\ aio' \in BOOLEAN /\ (aio' <=> f'.state = "async")
      /\ got' = [buf |-> i, off |-> off] /\ i \in Bufs
      /\ want' = None
      /\ Alone(fl) => within(off, f'.bufs[i]) /\ f'.bufs[i].data = f'.bufs[i].offset
  BY ReturnGood
<1>2. got'.buf = i /\ got'.off = off /\ got' \in [buf : Bufs, off : Asked]
  BY <1>1
<1>3. Answered(off)
  BY <1>1, <1>2 DEF Answered
<1> QED
  BY <1>1, <1>2, <1>3 DEF Intact

LEMMA GetdataGood ==
    ASSUME ReadInv, NEW off \in Asked, NEW fl \in Flag, getdata(off, fl)
    PROVE  Answered(off) /\ (Alone(fl) => Intact)
<1>1. PICK g \in FType : /\ g = [f EXCEPT !.locked = NoOff]
                         /\ CacheOf(g) /\ Reading(g) /\ g.fd = f.fd /\ g.state = f.state
  BY LockGood DEF ReadInv, TypeOK, CacheIsFile
<1>2. aio \in BOOLEAN /\ (aio <=> g.state = "async")
  BY <1>1 DEF ReadInv, TypeOK, BusyIsAlive
<1>3. CASE Cached(g, off, fl)
  <2>1. PICK i \in found(g, off) : Return(g, i, off, fl)
    BY <1>3 DEF Cached, bufs_find
  <2> QED
    BY <1>1, <1>2, <2>1, ReturnedGood
<1>4. CASE Wait(g, off)
  BY <1>1, <1>2, <1>4 DEF Wait, Answer, Answered, Intact
<1>5. CASE PastEnd(g, off)
  BY <1>1, <1>2, <1>5 DEF PastEnd, Answer, Answered, Intact
<1>6. CASE Start(g, off, fl)
  <2>1. PICK k \in FType : /\ k = [g EXCEPT !.state = IF @ = "eof" THEN "ok" ELSE @]
                           /\ CacheOf(k) /\ k.fd = g.fd /\ k.state # "async"
    <3> DEFINE m == [g EXCEPT !.state = IF @ = "eof" THEN "ok" ELSE @]
    <3>1. m \in FType /\ m.bufs = g.bufs /\ m.fd = g.fd
      BY DEF FType
    <3>2. m.state # "async"
      BY <1>6 DEF Start, FType
    <3>3. CacheOf(m)
      BY <1>1, <3>1 DEF CacheOf
    <3>4. m = [g EXCEPT !.state = IF @ = "eof" THEN "ok" ELSE @]
      OBVIOUS
    <3> HIDE DEF m
    <3> QED
      BY <3>1, <3>2, <3>3, <3>4
  <2>2. PICK a \in Offsets : a = floor2(off)
    BY FloorType
  <2>3. PICK o \in fr_read_off(k, a) :
          \/ o.r # "async" /\ Cached(o.f, off, fl)
          \/ Answer(o.f, o.r = "async", off)
    BY <1>6, <2>1, <2>2 DEF Start, Answer
  <2>4. /\ o.f \in FType /\ CacheOf(o.f) /\ o.f.fd = f.fd
        /\ o.f.state = "async" <=> o.r = "async"
        /\ Reading(o.f)
    <3>1. CacheOf(k) /\ k.state # "async" /\ k.fd = f.fd
      BY <1>1, <2>1
    <3> QED
      BY <3>1, ReadOffGood
  <2>5. CASE Answer(o.f, o.r = "async", off)
    BY <2>4, <2>5 DEF Answer, Answered, Intact
  <2>6. CASE o.r # "async" /\ Cached(o.f, off, fl)
    <3>0. aio = FALSE /\ o.f.state # "async"
      BY <1>2, <1>6, <2>4, <2>6 DEF Start
    <3>1. PICK i \in found(o.f, off) : Return(o.f, i, off, fl)
      BY <2>6 DEF Cached, bufs_find
    <3> QED
      BY <2>4, <3>0, <3>1, ReturnedGood
  <2> QED
    BY <2>3, <2>5, <2>6
<1> QED
  BY <1>1, <1>3, <1>4, <1>5, <1>6 DEF getdata

\* ReadInv, and what a plain consumer was given is intact.
PlainInv == ReadInv /\ (Plain => ReturnedIsIntact)

LEMMA InitGood == Init => PlainInv
<1> SUFFICES ASSUME Init PROVE PlainInv
  OBVIOUS
<1>1. NoOff \in Offsets /\ 0 \in Offsets /\ 0 \in Bufs /\ 0 \in 0..bufsize
  BY Constants DEF NoOff, Offsets, Bufs
<1>2. 0 \in Asked /\ Size \in Asked
  BY Constants DEF Asked
<1>3. [len |-> 0, offset |-> NoOff, data |-> None] \in BufType
  BY <1>1 DEF BufType
<1>4. [i \in Bufs |-> [len |-> 0, offset |-> NoOff, data |-> None]] \in [Bufs -> BufType]
  BY <1>3
<1>5. f \in FType
  BY <1>1, <1>4 DEF Init, FType
<1>6. TypeOK
  BY <1>2, <1>5 DEF Init, TypeOK
<1>7. CacheIsFile
  BY DEF Init, CacheIsFile, CacheOf, HoldsFile
<1> QED
  BY <1>6, <1>7 DEF Init, PlainInv, ReadInv, BusyIsAlive, Reading, ReturnedIsIntact

\* A call of fffileread_getdata().
LEMMA CallGood ==
    ASSUME PlainInv, NEW off \in Asked, NEW fl \in Flags, getdata(off, fl),
           ~freed, f.fd, signal' = FALSE, last' \in Asked,
           UNCHANGED <<directio, async, freed, user>>
    PROVE  PlainInv'
<1>1. fl \in Flag /\ (Plain => Alone(fl))
  BY DEF Flags, Flag, Plain, Alone
<1>2. Answered(off) /\ (Alone(fl) => Intact)
  BY <1>1, GetdataGood DEF PlainInv
<1>3. TypeOK'
  BY <1>2 DEF Answered, PlainInv, ReadInv, TypeOK
<1>4. ReadInv'
  BY <1>2, <1>3 DEF Answered, PlainInv, ReadInv, CacheIsFile, BusyIsAlive
<1>5. Plain' => ReturnedIsIntact'
  BY <1>1, <1>2 DEF Intact, Plain, ReturnedIsIntact
<1> QED
  BY <1>4, <1>5 DEF PlainInv

\* The kernel's answer changes the buffer at wbuf only, and the consumer has
\* another one.
LEMMA CompletedGood ==
    ASSUME PlainInv, aio, f.fd,
           NEW h \in {Done(Ready), Failed(Ready), Pending(Ready)}, Completed(h)
    PROVE  PlainInv' /\ (ReturnedIsIntact => ReturnedIsIntact')
<1>1. PICK g \in FType : g = Ready
  BY DEF PlainInv, ReadInv, TypeOK, Ready, FType
<1>2. /\ g.bufs = f.bufs /\ g.fd = f.fd /\ g.wbuf = f.wbuf /\ g.state = "ok"
  BY <1>1 DEF Ready, PlainInv, ReadInv, TypeOK, FType
<1>3. CacheOf(g) /\ g.bufs[g.wbuf].len = 0
  BY <1>2 DEF PlainInv, ReadInv, BusyIsAlive, CacheIsFile, CacheOf, Reading
<1>4. /\ h.f \in FType /\ CacheOf(h.f) /\ h.f.fd = f.fd
      /\ h.f.state = "async" <=> h.r = "async"
      /\ Reading(h.f)
  <2>1. CASE h = Done(g)
    BY <1>2, <1>3, <2>1, DoneGood DEF Reading
  <2>2. CASE h = Failed(g)
    BY <1>2, <1>3, <2>2, FailedGood DEF Reading
  <2>3. CASE h = Pending(g)
    BY <1>2, <1>3, <2>3, PendingGood
  <2> QED
    BY <1>1, <2>1, <2>2, <2>3
<1>5. /\ f' = h.f /\ aio' = (h.r = "async") /\ signal' = (signal \/ h.r # "async")
      /\ UNCHANGED <<directio, async, freed, user, want, got, last>>
  BY DEF Completed
<1>6. TypeOK'
  BY <1>4, <1>5 DEF PlainInv, ReadInv, TypeOK
<1>7. ReadInv'
  <2>1. CacheIsFile' /\ Reading(f') /\ f'.fd = f.fd /\ freed' = freed
    BY <1>4, <1>5 DEF CacheIsFile
  <2>2. aio' => f'.state = "async"
    BY <1>4, <1>5
  <2>3. f'.state = "async" => aio'
    BY <1>4, <1>5
  <2>4. ~freed
    BY DEF PlainInv, ReadInv
  <2> QED
    BY <1>6, <2>1, <2>2, <2>3, <2>4 DEF ReadInv, BusyIsAlive
<1>8. \A i \in Bufs : i # f.wbuf => h.f.bufs[i] = f.bufs[i]
  <2>1. CASE h = Done(g)
    BY <1>2, <2>1 DEF FType, Done, read
  <2>2. CASE h = Failed(g)
    BY <1>2, <2>2 DEF FType, Failed
  <2>3. CASE h = Pending(g)
    BY <1>2, <2>3 DEF FType, Pending
  <2> QED
    BY <1>1, <2>1, <2>2, <2>3
<1>9. ASSUME ReturnedIsIntact PROVE ReturnedIsIntact'
  <2>1. CASE got = None
    BY <1>5, <2>1 DEF ReturnedIsIntact
  <2>2. CASE got # None
    <3>1. got.buf \in Bufs /\ got.off \in Asked
      BY <2>2 DEF PlainInv, ReadInv, TypeOK
    <3>2. /\ within(got.off, f.bufs[got.buf])
          /\ f.bufs[got.buf].data = f.bufs[got.buf].offset
      BY <1>9, <2>2 DEF ReturnedIsIntact
    <3>3. got.buf # f.wbuf
      <4>1. f.bufs[got.buf] \in BufType
        BY <3>1 DEF PlainInv, ReadInv, TypeOK, FType
      <4> QED
        BY <1>2, <1>3, <3>1, <3>2, <4>1, Constants DEF within, BufType, Offsets, Asked
    <3>4. f'.bufs[got.buf] = f.bufs[got.buf]
      BY <1>5, <1>8, <3>1, <3>3
    <3> QED
      BY <1>5, <3>2, <3>4 DEF ReturnedIsIntact, within
  <2> QED
    BY <2>1, <2>2
<1>10. Plain' => Plain
  BY <1>5 DEF Plain
<1> QED
  BY <1>7, <1>9, <1>10 DEF PlainInv

LEMMA StepGood == PlainInv /\ [Next]_vars => PlainInv'
<1> SUFFICES ASSUME PlainInv, [Next]_vars PROVE PlainInv'
  OBVIOUS
<1>1. ASSUME NEW off \in Asked, NEW fl \in Flags, GetData(off, fl) PROVE PlainInv'
  BY <1>1, CallGood DEF GetData
<1>2. ASSUME NEW fl \in Flags, AskAgain(fl) PROVE PlainInv'
  <2>1. want \in Asked /\ last \in Asked
    BY <1>2 DEF AskAgain, PlainInv, ReadInv, TypeOK
  <2> QED
    BY <1>2, <2>1, CallGood DEF AskAgain
<1>3. CASE Unref
  <2>1. /\ f' \in FType /\ f'.bufs = f.bufs /\ f'.wbuf = f.wbuf
        /\ f'.state = f.state /\ f'.fd = FALSE
    BY <1>3 DEF Unref, PlainInv, ReadInv, TypeOK, FType
  <2>2. TypeOK'
    BY <1>3, <2>1 DEF Unref, PlainInv, ReadInv, TypeOK
  <2>3. CacheIsFile' /\ Reading(f')
    BY <2>1 DEF PlainInv, ReadInv, CacheIsFile, CacheOf, Reading
  <2>4. BusyIsAlive' /\ (f'.state = "async" => aio') /\ (freed' => ~f'.fd)
    BY <1>3, <2>1 DEF Unref, PlainInv, ReadInv, BusyIsAlive
  <2> QED
    BY <1>3, <2>2, <2>3, <2>4 DEF Unref, PlainInv, ReadInv, ReturnedIsIntact
<1>4. CASE AioRead
  BY <1>4, CompletedGood DEF AioRead
<1>5. CASE AioFail
  BY <1>5, CompletedGood DEF AioFail
<1>6. CASE AioAgain
  BY <1>6, CompletedGood DEF AioAgain
<1>7. CASE AioFree
  <2>1. /\ f' \in FType /\ f'.bufs = f.bufs /\ f'.state = "ok" /\ ~f'.fd
    BY <1>7 DEF AioFree, Ready, PlainInv, ReadInv, TypeOK, FType
  <2>2. TypeOK'
    BY <1>7, <2>1 DEF AioFree, PlainInv, ReadInv, TypeOK
  <2>3. CacheIsFile'
    BY <2>1 DEF PlainInv, ReadInv, CacheIsFile, CacheOf
  <2> QED
    BY <1>7, <2>1, <2>2, <2>3
    DEF AioFree, PlainInv, ReadInv, BusyIsAlive, Reading, ReturnedIsIntact
<1>8. CASE UNCHANGED vars
  BY <1>8 DEF vars, PlainInv, ReadInv, TypeOK, CacheIsFile, BusyIsAlive, Plain,
              ReturnedIsIntact
<1> QED
  BY <1>1, <1>2, <1>3, <1>4, <1>5, <1>6, <1>7, <1>8 DEF Next

LEMMA PlainInvariant == Spec => []PlainInv
BY InitGood, StepGood, PTL DEF Spec

\* The state keeps its type, whatever the kernel and the consumer do.
THEOREM TypeCorrect == Spec => []TypeOK
<1>1. PlainInv => TypeOK
  BY DEF PlainInv, ReadInv
<1> QED
  BY <1>1, PlainInvariant, PTL

\* Whatever bufs_find() finds is what the file has there: a buffer that is being
\* filled, or whose read failed, is never returned as data.
THEOREM CacheCorrect == Spec => []CacheIsFile
<1>1. PlainInv => CacheIsFile
  BY DEF PlainInv, ReadInv
<1> QED
  BY <1>1, PlainInvariant, PTL

\* fffileread_unref() never frees the memory the kernel reads into.
THEOREM NoUseAfterFree == Spec => []BusyIsAlive
<1>1. PlainInv => BusyIsAlive
  BY DEF PlainInv, ReadInv
<1> QED
  BY <1>1, PlainInvariant, PTL
-----------------------------------------------------------------------------
(* Consumers that go from block to block and let the reader read ahead.  A    *)
(* buffer's block is left behind, or the next buffer of the ring has the      *)
(* block that would be read ahead of it; so only the newest buffer causes a   *)
(* read-ahead, and the oldest one, which is another, is overwritten.          *)

nxt(i) == (i + 1) % nbufs
end(b) == b.offset + b.len
Sequential == nbufs > 1 /\ user \in {"forward", "backward"}

\* The consumer moves from l to m; it has left block b behind; it has reached
\* b; the block at o is the one that is read ahead of b.
onward(l, m) == IF user = "forward" THEN l <= m ELSE m <= l
past(b, l) == IF user = "forward" THEN end(b) <= l ELSE l < b.offset
reached(b, l) == IF user = "forward" THEN b.offset <= l ELSE l < end(b) \/ end(b) = Size
leads(b, o) == IF user = "forward" THEN end(b) = o ELSE b.offset = o + bufsize
block(o) == [offset |-> o, len |-> Avail(o)]

\* A buffer other than the newest one is left behind, or the next one has the
\* block that would be read ahead of it, or there is none.
Oldest(g, l) ==
    \A j \in Bufs : g.bufs[j].len > 0 /\ nxt(j) # g.wbuf =>
        \/ past(g.bufs[j], l)
        \/ /\ leads(g.bufs[j], g.bufs[nxt(j)].offset)
           /\ \/ g.bufs[nxt(j)].len > 0
              \/ user = "forward" /\ end(g.bufs[j]) = g.eof

\* The consumer has reached the newest block, or the one it was read ahead of.
Newest(g, l) ==
    \A n \in Bufs : nxt(n) = g.wbuf /\ g.bufs[n].len > 0 =>
        \/ reached(g.bufs[n], l)
        \/ \E j \in Bufs : /\ nxt(j) = n /\ g.bufs[j].len > 0
                           /\ reached(g.bufs[j], l) /\ leads(g.bufs[j], g.bufs[n].offset)

\* What is known of the end of the file; from there a backward consumer starts.
AtEnd(g, l) ==
    /\ user = "forward" => g.eof \in {0, Size} \/ l > Size
    /\ user = "backward" => l <= Size
    /\ user = "backward" /\ l = Size =>
         \/ \A j \in Bufs : g.bufs[j].len = 0
         \/ g.state = "eof" /\ g.eof = Size

\* A read of the block at o into the buffer at wbuf keeps the order.
InOrder(g, o, l) ==
    /\ \A n \in Bufs : nxt(n) = g.wbuf /\ g.bufs[n].len > 0 => past(g.bufs[n], l) \/ leads(g.bufs[n], o)
    /\ \/ reached(block(o), l)
       \/ \E n \in Bufs : nxt(n) = g.wbuf /\ g.bufs[n].len > 0 /\ leads(g.bufs[n], o)
    /\ user = "backward" /\ l = Size => o = floor2(Size)
Met(g, l) == \A n \in Bufs : nxt(n) = g.wbuf /\ g.bufs[n].len > 0 => reached(g.bufs[n], l)

Ordered(g, l) == Oldest(g, l) /\ Newest(g, l) /\ AtEnd(g, l)
Underway(g, l) == g.state = "async" => Met(g, l) /\ InOrder(g, g.bufs[g.wbuf].offset, l)
SeqInv(g, l) == Ordered(g, l) /\ Underway(g, l)

LEMMA NextBuf ==
    ASSUME NEW i \in Bufs
    PROVE  nxt(i) \in Bufs /\ nxt(i) = IF i + 1 = nbufs THEN 0 ELSE i + 1
<1>1. i \in Nat /\ i + 1 <= nbufs /\ nbufs \in Nat /\ nbufs > 0
  BY Constants DEF Bufs
<1>2. CASE i + 1 = nbufs
  BY <1>1, <1>2 DEF nxt, Bufs
<1>3. CASE i + 1 < nbufs
  BY <1>1, <1>3 DEF nxt, Bufs
<1> QED
  BY <1>1, <1>2, <1>3

\* Two buffers have different successors, and none is its own.
LEMMA NextOnce ==
    ASSUME NEW i \in Bufs, NEW j \in Bufs, nbufs > 1
    PROVE  nxt(i) # i /\ (nxt(i) = nxt(j) => i = j)
BY NextBuf, Constants DEF Bufs

\* A buffer that can be found is a block of the file.
LEMMA Block ==
    ASSUME NEW g \in FType, CacheOf(g), NEW i \in Bufs
    PROVE  LET b == g.bufs[i]
           IN  /\ b.offset \in Nat /\ b.len \in Nat /\ b.offset < Mod
               /\ b.len > 0 => /\ b.len = Avail(b.offset) /\ b.offset < Size
                               /\ end(b) <= Size /\ b.len <= bufsize
                               /\ b.len = bufsize \/ end(b) = Size
<1>1. g.bufs[i] \in BufType
  BY DEF FType
<1>2. PICK o \in Offsets : o = g.bufs[i].offset
  BY <1>1 DEF BufType
<1>3. g.bufs[i].len \in 0..bufsize
  BY <1>1 DEF BufType
<1>4. g.bufs[i].len > 0 => g.bufs[i].len = Avail(o)
  BY <1>2 DEF CacheOf, HoldsFile
<1> QED
  BY <1>2, <1>3, <1>4, Constants DEF end, Avail, Offsets

\* What a consumer has reached or left behind stays so as it goes on.
LEMMA GoesOn ==
    ASSUME NEW l \in Nat, NEW m \in Nat, onward(l, m), NEW b, b.offset \in Nat, b.len \in Nat
    PROVE  (past(b, l) => past(b, m)) /\ (reached(b, l) => reached(b, m))
BY Constants DEF onward, past, reached, end

\* What is left behind was reached; what is being read is not left behind.
LEMMA PastIsReached ==
    ASSUME NEW l \in Nat, NEW b, b.offset \in Nat, b.len \in Nat, b.len > 0
    PROVE  /\ past(b, l) => reached(b, l)
           /\ within(l, b) => ~past(b, l) /\ reached(b, l)
BY Constants DEF past, reached, end, within

LEMMA OnwardGood ==
    ASSUME NEW g \in FType, CacheOf(g), NEW l \in Nat, NEW m \in Nat, onward(l, m),
           user \in {"forward", "backward"}, SeqInv(g, l)
    PROVE  SeqInv(g, m)
<1>1. \A j \in Bufs : /\ past(g.bufs[j], l) => past(g.bufs[j], m)
                      /\ reached(g.bufs[j], l) => reached(g.bufs[j], m)
  BY Block, GoesOn
<1>2. Oldest(g, m)
  BY <1>1 DEF SeqInv, Ordered, Oldest
<1>3. Newest(g, m)
  BY <1>1 DEF SeqInv, Ordered, Newest
<1>4. AtEnd(g, m)
  BY Constants DEF SeqInv, Ordered, AtEnd, onward
<1>5. ASSUME g.state = "async" PROVE Met(g, m) /\ InOrder(g, g.bufs[g.wbuf].offset, m)
  <2>1. Met(g, l) /\ InOrder(g, g.bufs[g.wbuf].offset, l)
    BY <1>5 DEF SeqInv, Underway
  <2>2. PICK o \in Offsets : o = g.bufs[g.wbuf].offset
    BY DEF FType, BufType
  <2>3. reached(block(o), l) => reached(block(o), m)
    <3>1. block(o).offset \in Nat /\ block(o).len \in Nat
      BY AvailType, Constants DEF block, Offsets
    <3> QED
      BY <3>1, GoesOn
  <2>4. user = "backward" /\ m = Size => l = Size
    BY Constants DEF SeqInv, Ordered, AtEnd, onward
  <2> QED
    BY <1>1, <2>1, <2>2, <2>3, <2>4 DEF Met, InOrder
<1> QED
  BY <1>2, <1>3, <1>4, <1>5 DEF SeqInv, Ordered, Underway

\* The order is about lengths and offsets only.
SameBlock(b, c) == b.len = c.len /\ b.offset = c.offset
LEMMA SameOrder ==
    ASSUME NEW b, NEW c, SameBlock(b, c), NEW l, NEW o
    PROVE  /\ past(b, l) <=> past(c, l)
           /\ reached(b, l) <=> reached(c, l)
           /\ leads(b, o) <=> leads(c, o)
           /\ end(b) = end(c)
BY DEF SameBlock, past, reached, leads, end

\* Hiding the oldest buffer: the others are in order without it.
LEMMA PrepOrder ==
    ASSUME NEW g \in FType, CacheOf(g), NEW l \in Nat, nbufs > 1, NEW off \in Offsets,
           Ordered(g, l), Met(g, l)
    PROVE  LET p == buf_prepread(g, off)
           IN  /\ Ordered(p, l) /\ Met(p, l) /\ p.bufs[p.wbuf].offset = off
               /\ \A o \in Offsets : InOrder(g, o, l) => InOrder(p, o, l)
               /\ (\A j \in Bufs : g.bufs[j].len = 0) => \A j \in Bufs : p.bufs[j].len = 0
<1> DEFINE p == buf_prepread(g, off)
<1>1. /\ p.wbuf = g.wbuf /\ g.wbuf \in Bufs /\ p.eof = g.eof /\ p.state = g.state
      /\ g.bufs \in [Bufs -> BufType]
      /\ p.bufs = [g.bufs EXCEPT ![g.wbuf] = [@ EXCEPT !.len = 0, !.offset = off]]
  BY DEF FType, buf_prepread
<1>2. p.bufs[g.wbuf].len = 0 /\ p.bufs[g.wbuf].offset = off
  BY <1>1 DEF BufType
<1>3. \A j \in Bufs : j # g.wbuf => p.bufs[j] = g.bufs[j]
  BY <1>1
<1>4. \A j \in Bufs : p.bufs[j].len > 0 => j # g.wbuf
  BY <1>2
<1> HIDE DEF p
<1>5. \A j \in Bufs : nxt(j) \in Bufs
  BY NextBuf
<1>6. Oldest(p, l)
  BY <1>1, <1>3, <1>4, <1>5 DEF Ordered, Oldest
<1>7. Met(p, l)
  BY <1>1, <1>3, <1>4 DEF Met
<1>8. Newest(p, l)
  BY <1>7 DEF Met, Newest
<1>9. AtEnd(p, l)
  BY <1>1, <1>2, <1>3 DEF Ordered, AtEnd
<1>10. \A j \in Bufs : nxt(j) # j
  BY NextOnce
<1>11. ASSUME NEW o \in Offsets, InOrder(g, o, l) PROVE InOrder(p, o, l)
  BY <1>1, <1>3, <1>4, <1>10, <1>11 DEF InOrder
<1> QED
  BY <1>1, <1>2, <1>3, <1>6, <1>7, <1>8, <1>9, <1>11 DEF Ordered, p

\* The read at the end of the file that tells where it ends.
LEMMA LastBlock == /\ floor2(Size) + Avail(floor2(Size)) = Size
                   /\ Avail(floor2(Size)) # bufsize
<1>1. bufsize >= bufalign
  <2>1. CASE bufsize < bufalign
    <3>1. bufsize % bufalign = bufsize
      BY <2>1, Constants
    <3> QED
      BY <3>1, Constants, ConfAssumption
  <2> QED
    BY <2>1, Constants
<1>2. Size % bufalign \in 0..(bufalign - 1) /\ Size % bufalign <= Size
  BY Constants, ModType
<1>3. PICK r \in Nat : r = Size % bufalign
  BY <1>2
<1> QED
  BY <1>1, <1>2, <1>3, Constants DEF floor2, Avail

\* A read that succeeds fills the oldest buffer, which is the newest now.
LEMMA FillOrder ==
    ASSUME NEW p \in FType, CacheOf(p), NEW l \in Nat, Sequential,
           p.bufs[p.wbuf].len = 0, p.state # "async",
           Ordered(p, l), Met(p, l), InOrder(p, p.bufs[p.wbuf].offset, l)
    PROVE  SeqInv(Done(p).f, l)
<1> DEFINE h == Done(p).f
           w == p.wbuf
<1>1. /\ w \in Bufs /\ p.bufs \in [Bufs -> BufType] /\ nbufs > 1
      /\ user \in {"forward", "backward"}
  BY DEF FType, Sequential
<1>2. PICK o \in Offsets : o = p.bufs[w].offset
  BY <1>1 DEF BufType
<1>3. /\ h.wbuf = nxt(w)
      /\ h.bufs = [p.bufs EXCEPT ![w] = [@ EXCEPT !.len = Avail(o), !.data = o]]
      /\ h.eof = IF Avail(o) # bufsize THEN o + Avail(o) ELSE p.eof
      /\ h.state = IF Avail(o) # bufsize THEN "eof" ELSE p.state
  BY <1>2 DEF FType, Done, read, nxt
<1>4. h.bufs[w].offset = o /\ h.bufs[w].len = Avail(o)
  BY <1>1, <1>2, <1>3 DEF BufType
<1>5. \A j \in Bufs : j # w => h.bufs[j] = p.bufs[j]
  BY <1>1, <1>3
<1>6. /\ h.state # "async"
      /\ user = "backward" => l <= Size
      /\ user = "forward" => p.eof \in {0, Size} \/ l > Size
  BY <1>3 DEF Ordered, AtEnd
<1>7. InOrder(p, o, l)
  BY <1>2
<1> HIDE DEF h, w
<1>8. Avail(o) \in 0..bufsize /\ o \in Nat /\ o + Avail(o) \in Nat
  BY AvailType, Constants DEF Offsets
<1>9. ASSUME NEW n \in Bufs, p.bufs[n].len > 0, leads(p.bufs[n], o)
      PROVE  user = "forward" => o <= Size
  BY <1>9, Block DEF leads
<1>10. user = "forward" => o <= Size \/ l > Size
  BY <1>7, <1>8, <1>9, Constants DEF InOrder, reached, block
<1>11. Avail(o) # bufsize /\ o <= Size => o + Avail(o) = Size
  BY <1>8, Constants DEF Avail
<1>12. user = "forward" => h.eof = p.eof \/ h.eof = Size \/ l > Size
  BY <1>3, <1>10, <1>11
<1>13. AtEnd(h, l)
  <2>1. user = "forward" => h.eof \in {0, Size} \/ l > Size
    BY <1>6, <1>12
  <2>2. user = "backward" /\ l = Size => h.state = "eof" /\ h.eof = Size
    BY <1>3, <1>7, LastBlock DEF InOrder
  <2> QED
    BY <1>6, <2>1, <2>2 DEF AtEnd
<1>14. Newest(h, l)
  <2> SUFFICES ASSUME NEW n \in Bufs, nxt(n) = h.wbuf, h.bufs[n].len > 0
               PROVE  \/ reached(h.bufs[n], l)
                      \/ \E j \in Bufs : /\ nxt(j) = n /\ h.bufs[j].len > 0
                                         /\ reached(h.bufs[j], l)
                                         /\ leads(h.bufs[j], h.bufs[n].offset)
    BY DEF Newest
  <2>1. n = w
    BY <1>1, <1>3, NextOnce
  <2>2. CASE reached(block(o), l)
    <3>1. SameBlock(block(o), h.bufs[w])
      BY <1>4 DEF SameBlock, block
    <3> QED
      BY <2>1, <2>2, <3>1, SameOrder
  <2>3. ASSUME NEW j \in Bufs, nxt(j) = p.wbuf, p.bufs[j].len > 0, leads(p.bufs[j], o)
        PROVE  nxt(j) = n /\ h.bufs[j].len > 0 /\ reached(h.bufs[j], l)
               /\ leads(h.bufs[j], h.bufs[n].offset)
    <3>1. j # w
      BY <1>1, <2>3, NextOnce DEF w
    <3>2. h.bufs[j] = p.bufs[j] /\ h.bufs[n].offset = o
      BY <1>4, <1>5, <2>1, <3>1
    <3> QED
      BY <2>1, <2>3, <3>2 DEF Met, w
  <2> QED
    BY <1>7, <2>2, <2>3 DEF InOrder
<1>15. Oldest(h, l)
  <2> SUFFICES ASSUME NEW j \in Bufs, h.bufs[j].len > 0, nxt(j) # h.wbuf, ~past(h.bufs[j], l)
               PROVE  /\ leads(h.bufs[j], h.bufs[nxt(j)].offset)
                      /\ \/ h.bufs[nxt(j)].len > 0
                         \/ user = "forward" /\ end(h.bufs[j]) = h.eof
    BY DEF Oldest
  <2>1. j # w /\ nxt(j) \in Bufs /\ h.bufs[j] = p.bufs[j]
    BY <1>3, <1>5, NextBuf
  <2>2. PICK b : b = h.bufs[j]
    OBVIOUS
  <2>3. /\ b = p.bufs[j] /\ b.offset \in Nat /\ b.len \in Nat /\ b.len > 0 /\ ~past(b, l)
        /\ b.offset < Size /\ end(b) <= Size
    BY <2>1, <2>2, Block
  <2>4. user = "forward" => l <= Size
    BY <2>3, Constants DEF past, end
  <2>5. CASE nxt(j) = w
    <3>1. leads(b, o)
      BY <1>7, <2>3, <2>5 DEF InOrder, w
    <3>2. user = "forward" /\ Avail(o) = 0 => end(b) = h.eof
      BY <1>3, <1>8, <2>3, <3>1, Constants DEF leads, Avail, end
    <3>3. user = "backward" => Avail(o) > 0
      BY <1>8, <2>3, <3>1, Constants DEF leads, Avail
    <3> QED
      BY <1>1, <1>4, <1>8, <2>2, <2>5, <3>1, <3>2, <3>3
  <2>6. CASE nxt(j) # w
    <3>1. h.bufs[nxt(j)] = p.bufs[nxt(j)]
      BY <1>5, <2>1, <2>6
    <3>2. /\ leads(b, p.bufs[nxt(j)].offset)
          /\ p.bufs[nxt(j)].len > 0 \/ (user = "forward" /\ end(b) = p.eof)
      BY <2>3, <2>6 DEF Ordered, Oldest, w
    <3>3. user = "forward" /\ end(b) = p.eof => end(b) = h.eof
      <4>1. end(b) > 0
        BY <2>3 DEF end
      <4>2. user = "forward" /\ end(b) = p.eof => p.eof = Size
        BY <1>6, <2>4, <4>1, Constants
      <4> QED
        BY <1>12, <2>4, <4>2, Constants
    <3> QED
      BY <2>2, <3>1, <3>2, <3>3
  <2> QED
    BY <2>5, <2>6
<1> QED
  BY <1>6, <1>13, <1>14, <1>15 DEF SeqInv, Ordered, Underway, h

\* A read that fails or is pending leaves the buffers as they are.
LEMMA HeldOrder ==
    ASSUME NEW p \in FType, CacheOf(p), NEW l \in Nat,
           Ordered(p, l), Met(p, l), NEW h \in {Failed(p).f, Pending(p).f},
           h.state = "async" => InOrder(p, p.bufs[p.wbuf].offset, l),
           user = "backward" /\ l = Size => \A j \in Bufs : p.bufs[j].len = 0
    PROVE  SeqInv(h, l)
<1>1. /\ h.wbuf = p.wbuf /\ h.eof = p.eof /\ p.wbuf \in Bufs
      /\ p.bufs \in [Bufs -> BufType]
      /\ h.bufs = [p.bufs EXCEPT ![p.wbuf] = [@ EXCEPT !.data = None]]
  BY DEF FType, Failed, Pending
<1>2. \A j \in Bufs : SameBlock(h.bufs[j], p.bufs[j])
  BY <1>1 DEF BufType, SameBlock
<1>3. \A j \in Bufs : h.bufs[j].len = p.bufs[j].len /\ h.bufs[j].offset = p.bufs[j].offset
  BY <1>2 DEF SameBlock
<1>4. \A j \in Bufs : /\ past(h.bufs[j], l) <=> past(p.bufs[j], l)
                      /\ reached(h.bufs[j], l) <=> reached(p.bufs[j], l)
                      /\ end(h.bufs[j]) = end(p.bufs[j])
                      /\ \A o \in Nat : leads(h.bufs[j], o) <=> leads(p.bufs[j], o)
  BY <1>2, SameOrder
<1>5. \A j \in Bufs : nxt(j) \in Bufs /\ p.bufs[j].offset \in Nat
  BY NextBuf, Block
<1>6. Oldest(h, l)
  BY <1>1, <1>3, <1>4, <1>5 DEF Ordered, Oldest
<1>7. Met(h, l)
  BY <1>1, <1>3, <1>4 DEF Met
<1>8. Newest(h, l)
  BY <1>7 DEF Met, Newest
<1>9. AtEnd(h, l)
  BY <1>1, <1>3 DEF Ordered, AtEnd
<1>10. PICK o \in Nat : o = p.bufs[p.wbuf].offset /\ o = h.bufs[h.wbuf].offset
  BY <1>1, <1>3, <1>5
<1>11. InOrder(p, o, l) => InOrder(h, o, l)
  BY <1>1, <1>3, <1>4 DEF InOrder
<1> QED
  BY <1>6, <1>7, <1>8, <1>9, <1>10, <1>11 DEF SeqInv, Ordered, Underway

\* fr_read_off() of a block that keeps the order.
LEMMA ReadOffOrder ==
    ASSUME NEW g \in FType, CacheOf(g), g.state # "async", NEW l \in Nat, Sequential,
           NEW off \in Offsets, NEW h \in fr_read_off(g, off),
           Ordered(g, l), Met(g, l), 2 * off < Mod => InOrder(g, off, l),
           user = "backward" /\ l = Size => \A j \in Bufs : g.bufs[j].len = 0
    PROVE  SeqInv(h.f, l)
<1>1. PICK p \in FType : /\ p = buf_prepread(g, off)
                         /\ CacheOf(p) /\ p.bufs[p.wbuf].len = 0 /\ p.state # "async"
  BY PrepGood
<1>2. /\ Ordered(p, l) /\ Met(p, l) /\ p.bufs[p.wbuf].offset = off
      /\ 2 * off < Mod => InOrder(p, off, l)
      /\ user = "backward" /\ l = Size => \A j \in Bufs : p.bufs[j].len = 0
  BY <1>1, PrepOrder DEF Sequential
<1>3. \/ h = Failed(p)
      \/ 2 * off < Mod /\ h \in {Pending(p), Done(p)}
  BY <1>1, <1>2, Constants DEF fr_read_off, fr_read, Offsets
<1>4. CASE h = Failed(p)
  <2>1. h.f.state # "async"
    BY <1>1, <1>4, FailedGood
  <2> QED
    BY <1>1, <1>2, <1>4, <2>1, HeldOrder
<1>5. CASE 2 * off < Mod /\ h = Pending(p)
  BY <1>1, <1>2, <1>5, HeldOrder
<1>6. CASE 2 * off < Mod /\ h = Done(p)
  BY <1>1, <1>2, <1>6, FillOrder
<1> QED
  BY <1>3, <1>4, <1>5, <1>6

\* What is asked for and not found is past every buffer, and is read next.
LEMMA RequestOrder ==
    ASSUME NEW g \in FType, CacheOf(g), NEW l \in Asked, Sequential,
           Ordered(g, l), found(g, l) = {}, ~atEof(g, l)
    PROVE  /\ Met(g, l) /\ InOrder(g, floor2(l), l)
           /\ user = "backward" /\ l = Size => \A j \in Bufs : g.bufs[j].len = 0
<1>1. /\ l \in Nat /\ user \in {"forward", "backward"}
      /\ user = "backward" => l <= Size
  BY DEF Asked, Sequential, Ordered, AtEnd
<1>2. user = "backward" /\ l = Size => \A j \in Bufs : g.bufs[j].len = 0
  BY <1>1 DEF Ordered, AtEnd, atEof
<1>3. ASSUME NEW n \in Bufs, nxt(n) = g.wbuf, g.bufs[n].len > 0 PROVE past(g.bufs[n], l)
  <2>1. PICK b : b = g.bufs[n]
    OBVIOUS
  <2>2. /\ b.offset \in Nat /\ b.len \in Nat /\ b.len > 0 /\ b.offset < Size
        /\ end(b) <= Size /\ b.len <= bufsize
        /\ b.len = bufsize \/ end(b) = Size
        /\ ~within(l, b)
    BY <1>3, <2>1, Block DEF found
  <2>3. user = "backward" => l < Size
    BY <1>1, <1>2, <1>3, Constants
  <2>4. CASE reached(b, l)
    BY <1>1, <2>1, <2>2, <2>3, <2>4, Constants DEF reached, past, within, end
  <2>5. ASSUME NEW j \in Bufs, g.bufs[j].len > 0, reached(g.bufs[j], l),
               leads(g.bufs[j], b.offset)
        PROVE  past(b, l)
    <3>1. PICK c : c = g.bufs[j]
      OBVIOUS
    <3>2. /\ c.offset \in Nat /\ c.len \in Nat /\ c.len > 0 /\ c.offset < Size
          /\ ~within(l, c) /\ reached(c, l) /\ leads(c, b.offset)
      BY <2>5, <3>1, Block DEF found
    <3>3. CASE user = "forward"
      BY <1>1, <2>2, <3>2, <3>3, Constants DEF reached, past, within, end, leads
    <3>4. CASE user = "backward"
      <4>1. l < c.offset
        BY <1>1, <2>3, <3>2, <3>4, Constants DEF reached, within, end
      <4>2. b.len = bufsize
        BY <2>2, <3>2, <3>4, Constants DEF leads, end
      <4> QED
        BY <1>1, <2>2, <3>2, <3>4, <4>1, <4>2, Constants DEF past, within, leads
    <3> QED
      BY <1>1, <3>3, <3>4
  <2> QED
    BY <1>3, <2>1, <2>4, <2>5 DEF Ordered, Newest
<1>4. Met(g, l)
  BY <1>1, <1>3, Block, PastIsReached DEF Met
<1>5. reached(block(floor2(l)), l)
  <2>1. bufsize >= bufalign
    <3>1. CASE bufsize < bufalign
      <4>1. bufsize % bufalign = bufsize
        BY <3>1, Constants
      <4> QED
        BY <4>1, Constants, ConfAssumption
    <3> QED
      BY <3>1, Constants
  <2>2. PICK r \in Nat : r = l % bufalign /\ r <= l /\ r < bufalign
    BY <1>1, Constants, ModType
  <2>3. PICK o \in Nat : o = floor2(l) /\ o = l - r
    BY <1>1, <2>2 DEF floor2
  <2>4. CASE user = "forward"
    BY <1>1, <2>2, <2>3, <2>4 DEF reached, block
  <2>5. CASE user = "backward"
    BY <1>1, <2>1, <2>2, <2>3, <2>5, Constants DEF reached, block, end, Avail
  <2> QED
    BY <1>1, <2>4, <2>5
<1> QED
  BY <1>2, <1>3, <1>4, <1>5 DEF InOrder

\* Only the newest buffer causes a read-ahead: the one returned is not the
\* one that is overwritten.
LEMMA AheadOrder ==
    ASSUME NEW g \in FType, CacheOf(g), NEW l \in Asked, Sequential, Ordered(g, l),
           NEW i \in found(g, l), readsahead(g, i, user)
    PROVE  /\ i # g.wbuf /\ Met(g, l)
           /\ 2 * ahead(g, i, user) < Mod => InOrder(g, ahead(g, i, user), l)
           /\ user = "backward" => l < Size
<1>1. /\ i \in Bufs /\ within(l, g.bufs[i]) /\ l \in Nat
      /\ user \in {"forward", "backward"} /\ nbufs > 1
  BY DEF found, Asked, Sequential
<1>2. PICK b : b = g.bufs[i]
  OBVIOUS
<1>3. /\ b.offset \in Nat /\ b.len \in Nat /\ b.offset < Mod
      /\ b.len > 0 => /\ b.offset < Size /\ end(b) <= Size
      /\ within(l, b)
  BY <1>1, <1>2, Block
<1>4. b.len > 0
  BY <1>1, <1>3 DEF within
<1>5. ~past(b, l) /\ reached(b, l)
  BY <1>1, <1>3, <1>4, PastIsReached
<1>6. /\ user = "forward" => ahead(g, i, user) = end(b)
      /\ user = "backward" /\ b.offset >= bufsize =>
           ahead(g, i, user) = b.offset - bufsize
      /\ user = "backward" /\ b.offset < bufsize => 2 * ahead(g, i, user) >= Mod
  <2>1. user = "forward" => ahead(g, i, user) = end(b)
    BY <1>2 DEF ahead, end
  <2>2. ASSUME user = "backward", b.offset >= bufsize
        PROVE  ahead(g, i, user) = b.offset - bufsize
    <3>1. PICK k \in Nat : k = b.offset - bufsize /\ k < Mod
      BY <1>3, <2>2, Constants
    <3>2. b.offset + Mod - bufsize = k + Mod
      BY <1>3, <3>1, Constants
    <3>3. (k + Mod) % Mod = k
      BY <3>1, Constants
    <3> QED
      BY <1>2, <2>2, <3>1, <3>2, <3>3 DEF ahead
  <2>3. ASSUME user = "backward", b.offset < bufsize
        PROVE  2 * ahead(g, i, user) >= Mod
    <3>1. PICK k \in Nat : k = b.offset + Mod - bufsize /\ k < Mod /\ 2 * k >= Mod
      BY <1>3, <2>3, Constants
    <3>2. k % Mod = k
      BY <3>1, Constants
    <3> QED
      BY <1>2, <2>3, <3>1, <3>2 DEF ahead
  <2> QED
    BY <2>1, <2>2, <2>3
<1>7. 2 * ahead(g, i, user) < Mod => leads(b, ahead(g, i, user))
  <2>1. CASE user = "forward"
    BY <1>6, <2>1 DEF leads
  <2>2. CASE user = "backward" /\ b.offset >= bufsize
    <3>1. b.offset = (b.offset - bufsize) + bufsize
      BY <1>3, Constants
    <3> QED
      BY <1>6, <2>2, <3>1 DEF leads
  <2>3. CASE user = "backward" /\ b.offset < bufsize
    <3>1. PICK a \in Offsets : a = ahead(g, i, user)
      BY <1>1, <1>2, <1>4, AheadType
    <3> QED
      BY <1>6, <2>3, <3>1, Constants DEF Offsets
  <2> QED
    BY <1>1, <1>3, <2>1, <2>2, <2>3, Constants
<1>8. nxt(i) = g.wbuf
  <2> SUFFICES ASSUME nxt(i) # g.wbuf PROVE FALSE
    OBVIOUS
  <2>1. nxt(i) \in Bufs
    BY <1>1, NextBuf
  <2>2. PICK k : k = g.bufs[nxt(i)]
    OBVIOUS
  <2>3. /\ k.offset \in Nat /\ k.len \in Nat
        /\ leads(b, k.offset)
        /\ k.len > 0 \/ (user = "forward" /\ end(b) = g.eof)
    BY <1>1, <1>2, <1>4, <1>5, <2>1, <2>2, Block DEF Ordered, Oldest
  <2>4. ~(user = "forward" /\ end(b) = g.eof)
    BY <1>6 DEF readsahead
  <2>5. ahead(g, i, user) = k.offset
    BY <1>1, <1>3, <1>6, <2>3, Constants DEF leads
  <2>6. within(ahead(g, i, user), k)
    BY <2>3, <2>4, <2>5 DEF within
  <2> QED
    BY <2>1, <2>2, <2>6 DEF readsahead, found
<1>9. \A n \in Bufs : nxt(n) = g.wbuf => n = i
  BY <1>1, <1>8, NextOnce
<1>10. Met(g, l)
  BY <1>2, <1>5, <1>9 DEF Met
<1>11. i # g.wbuf
  BY <1>1, <1>8, NextOnce
<1>12. l < Size
  BY <1>1, <1>3, <1>4, Constants DEF within, end
<1>13. ASSUME 2 * ahead(g, i, user) < Mod PROVE InOrder(g, ahead(g, i, user), l)
  <2>1. leads(b, ahead(g, i, user))
    BY <1>7, <1>13
  <2> QED
    BY <1>1, <1>2, <1>4, <1>8, <1>9, <1>12, <2>1, Constants DEF InOrder
<1> QED
  BY <1>10, <1>11, <1>12, <1>13

\* The order does not depend on the lock and on whether the file is open.
LEMMA OnlyBuffers ==
    ASSUME NEW g, NEW h, NEW l, SeqInv(g, l),
           h.bufs = g.bufs, h.wbuf = g.wbuf, h.eof = g.eof, h.state = g.state
    PROVE  SeqInv(h, l)
BY DEF SeqInv, Ordered, Oldest, Newest, AtEnd, Underway, Met, InOrder

\* When there is no more reading, the order is the one before the read.
LEMMA IdleOrder ==
    ASSUME NEW g, NEW h, NEW l, Ordered(g, l),
           h.bufs = g.bufs, h.wbuf = g.wbuf, h.eof = g.eof,
           user = "backward" /\ l = Size => \A j \in Bufs : g.bufs[j].len = 0
    PROVE  /\ Ordered(h, l)
           /\ Met(g, l) => Met(h, l)
           /\ \A o : InOrder(g, o, l) => InOrder(h, o, l)
BY DEF Ordered, Oldest, Newest, AtEnd, Met, InOrder

\* A read changes no buffer but the one at wbuf.
LEMMA OthersStay ==
    ASSUME NEW g \in FType, NEW off \in Offsets, NEW o \in fr_read_off(g, off),
           NEW i \in Bufs, i # g.wbuf
    PROVE  o.f.bufs[i] = g.bufs[i]
<1>1. PICK p : p = buf_prepread(g, off)
  OBVIOUS
<1>2. p \in FType /\ p.wbuf = g.wbuf /\ p.bufs[i] = g.bufs[i]
  <2>1. p.bufs = [g.bufs EXCEPT ![g.wbuf] = [@ EXCEPT !.len = 0, !.offset = off]]
    BY <1>1 DEF FType, buf_prepread
  <2>2. [g.bufs[g.wbuf] EXCEPT !.len = 0, !.offset = off] \in BufType
    <3>1. g.bufs[g.wbuf] \in BufType /\ 0 \in 0..bufsize
      BY Constants DEF FType
    <3> QED
      BY <3>1 DEF BufType
  <2>3. p = [g EXCEPT !.bufs = p.bufs]
    BY <1>1 DEF FType, buf_prepread
  <2> QED
    BY <2>1, <2>2, <2>3 DEF FType
<1>3. o \in {Failed(p), Pending(p), Done(p)}
  BY <1>1 DEF fr_read_off, fr_read
<1>4. CASE o = Failed(p)
  BY <1>2, <1>4 DEF FType, Failed
<1>5. CASE o = Pending(p)
  BY <1>2, <1>5 DEF FType, Pending
<1>6. CASE o = Done(p)
  BY <1>2, <1>6 DEF FType, Done, read
<1> QED
  BY <1>3, <1>4, <1>5, <1>6

\* Returning a buffer to a sequential consumer.
LEMMA ReturnOrder ==
    ASSUME NEW g \in FType, CacheOf(g), Reading(g), aio \in BOOLEAN,
           aio <=> g.state = "async",
           NEW l \in Asked, Sequential, SeqInv(g, l), NEW i \in found(g, l),
           Return(g, i, l, user)
    PROVE  SeqInv(f', l) /\ Intact
<1>1. i \in Bufs /\ within(l, g.bufs[i]) /\ l \in Nat
  BY DEF found, Asked
<1>2. g.bufs[i].len > 0 /\ g.bufs[i].data = g.bufs[i].offset
  <2>1. g.bufs[i].offset \in Nat /\ g.bufs[i].len \in Nat
    BY <1>1, Block
  <2>2. g.bufs[i].len > 0
    BY <1>1, <2>1 DEF within
  <2> QED
    BY <1>1, <2>2 DEF CacheOf, HoldsFile
<1>3. PICK h \in IF readsahead(g, i, user) THEN fr_read_off(g, ahead(g, i, user))
                 ELSE {[f |-> g, r |-> "none"]} :
        /\ f' = [h.f EXCEPT !.locked = i]
        /\ got' = [buf |-> i, off |-> l]
  BY DEF Return
<1>4. h.f \in FType /\ SeqInv(h.f, l) /\ h.f.bufs[i] = g.bufs[i]
  <2>1. CASE readsahead(g, i, user)
    <3>1. g.state # "async"
      BY <2>1 DEF readsahead
    <3>2. PICK a \in Offsets : a = ahead(g, i, user)
      BY <1>1, <1>2, AheadType
    <3>3. h \in fr_read_off(g, a)
      BY <1>3, <2>1, <3>2
    <3>4. /\ i # g.wbuf /\ Met(g, l) /\ Ordered(g, l)
          /\ 2 * a < Mod => InOrder(g, a, l)
          /\ user = "backward" => l < Size
      BY <2>1, <3>2, AheadOrder DEF SeqInv
    <3>5. ~(user = "backward" /\ l = Size)
      BY <1>1, <3>4, Constants
    <3>6. SeqInv(h.f, l)
      BY <1>1, <3>1, <3>3, <3>4, <3>5, ReadOffOrder
    <3>7. h.f \in FType
      BY <3>1, <3>3, ReadOffGood
    <3> QED
      BY <1>1, <3>3, <3>4, <3>6, <3>7, OthersStay
  <2>2. CASE ~readsahead(g, i, user)
    BY <1>3, <2>2
  <2> QED
    BY <2>1, <2>2
<1>5. /\ f'.bufs = h.f.bufs /\ f'.wbuf = h.f.wbuf /\ f'.eof = h.f.eof
      /\ f'.state = h.f.state
  BY <1>3, <1>4 DEF FType
<1>6. SeqInv(f', l)
  BY <1>4, <1>5, OnlyBuffers
<1>7. Intact
  BY <1>1, <1>2, <1>3, <1>4, <1>5 DEF Intact
<1> QED
  BY <1>6, <1>7

LEMMA GetdataOrder ==
    ASSUME ReadInv, Sequential, SeqInv(f, last), NEW off \in Asked, onward(last, off),
           getdata(off, user)
    PROVE  SeqInv(f', off) /\ Intact
<1>1. PICK g \in FType : /\ g = [f EXCEPT !.locked = NoOff]
                         /\ CacheOf(g) /\ Reading(g) /\ g.state = f.state
  BY LockGood DEF ReadInv, TypeOK, CacheIsFile
<1>2. aio \in BOOLEAN /\ (aio <=> g.state = "async")
  BY <1>1 DEF ReadInv, TypeOK, BusyIsAlive
<1>3. SeqInv(g, off)
  <2>1. g.bufs = f.bufs /\ g.wbuf = f.wbuf /\ g.eof = f.eof
    BY <1>1 DEF ReadInv, TypeOK, FType
  <2>2. SeqInv(g, last)
    BY <1>1, <2>1, OnlyBuffers
  <2>3. last \in Nat /\ off \in Nat
    BY DEF ReadInv, TypeOK, Asked
  <2> QED
    BY <1>1, <2>2, <2>3, OnwardGood DEF Sequential
<1>4. CASE Cached(g, off, user)
  <2>1. PICK i \in found(g, off) : Return(g, i, off, user)
    BY <1>4 DEF Cached, bufs_find
  <2> QED
    BY <1>1, <1>2, <1>3, <2>1, ReturnOrder
<1>5. CASE Wait(g, off)
  BY <1>3, <1>5 DEF Wait, Answer, Intact
<1>6. CASE PastEnd(g, off)
  BY <1>3, <1>6 DEF PastEnd, Answer, Intact
<1>7. CASE found(g, off) = {} /\ Start(g, off, user)
  <2>1. ~atEof(g, off) /\ g.state # "async"
    BY <1>7 DEF Start
  <2>2. PICK a \in Offsets : a = floor2(off)
    BY FloorType
  <2>3. /\ Ordered(g, off) /\ Met(g, off) /\ InOrder(g, a, off)
        /\ user = "backward" /\ off = Size => \A j \in Bufs : g.bufs[j].len = 0
    BY <1>1, <1>3, <1>7, <2>1, <2>2, RequestOrder DEF SeqInv
  <2>4. PICK k \in FType : /\ k = [g EXCEPT !.state = IF @ = "eof" THEN "ok" ELSE @]
                           /\ k.bufs = g.bufs /\ k.wbuf = g.wbuf /\ k.eof = g.eof
                           /\ k.state # "async"
    <3> DEFINE m == [g EXCEPT !.state = IF @ = "eof" THEN "ok" ELSE @]
    <3>1. m \in FType /\ m.bufs = g.bufs /\ m.wbuf = g.wbuf /\ m.eof = g.eof
      BY DEF FType
    <3>2. m.state # "async"
      BY <2>1 DEF FType
    <3>3. m = [g EXCEPT !.state = IF @ = "eof" THEN "ok" ELSE @]
      OBVIOUS
    <3> HIDE DEF m
    <3> QED
      BY <3>1, <3>2, <3>3
  <2>5. CacheOf(k)
    BY <1>1, <2>4 DEF CacheOf
  <2>6. /\ Ordered(k, off) /\ Met(k, off) /\ InOrder(k, a, off)
        /\ user = "backward" /\ off = Size => \A j \in Bufs : k.bufs[j].len = 0
    BY <2>3, <2>4, IdleOrder
  <2>7. PICK o \in fr_read_off(k, a) :
          \/ o.r # "async" /\ Cached(o.f, off, user)
          \/ Answer(o.f, o.r = "async", off)
    BY <1>7, <2>2, <2>4 DEF Start, Answer
  <2>8. SeqInv(o.f, off)
    <3>1. off \in Nat
      BY DEF Asked
    <3> QED
      BY <2>4, <2>5, <2>6, <3>1, ReadOffOrder
  <2>9. /\ o.f \in FType /\ CacheOf(o.f) /\ Reading(o.f)
        /\ o.f.state = "async" <=> o.r = "async"
    BY <2>4, <2>5, ReadOffGood
  <2>10. CASE Answer(o.f, o.r = "async", off)
    BY <2>8, <2>10 DEF Answer, Intact
  <2>11. CASE o.r # "async" /\ Cached(o.f, off, user)
    <3>1. PICK i \in found(o.f, off) : Return(o.f, i, off, user)
      BY <2>11 DEF Cached, bufs_find
    <3>2. aio <=> o.f.state = "async"
      BY <1>2, <2>1, <2>9, <2>11
    <3> QED
      BY <1>2, <2>8, <2>9, <3>1, <3>2, ReturnOrder
  <2> QED
    BY <2>7, <2>10, <2>11
<1> QED
  BY <1>1, <1>4, <1>5, <1>6, <1>7 DEF getdata

\* PlainInv, the order for a consumer that reads ahead, and the fact that it
\* waits for what it asked for last.
WantIsLast == want # None => want = last
OrderInv == /\ PlainInv /\ WantIsLast
            /\ Sequential => SeqInv(f, last) /\ ReturnedIsIntact

LEMMA InitOrder == Init => OrderInv
<1> SUFFICES ASSUME Init PROVE OrderInv
  OBVIOUS
<1>1. PlainInv /\ WantIsLast /\ ReturnedIsIntact
  BY InitGood DEF Init, WantIsLast, ReturnedIsIntact
<1>2. f.state = "ok" /\ f.eof = 0 /\ \A j \in Bufs : f.bufs[j].len = 0
  BY DEF Init
<1>3. last = IF user = "backward" THEN Size ELSE 0
  BY DEF Init
<1>4. SeqInv(f, last)
  BY <1>2, <1>3, Constants DEF SeqInv, Ordered, Oldest, Newest, AtEnd, Underway
<1> QED
  BY <1>1, <1>4 DEF OrderInv

\* A call of fffileread_getdata() that goes on from the last one.
LEMMA CallOrder ==
    ASSUME OrderInv, NEW off \in Asked, NEW fl \in Flags, getdata(off, fl),
           ~freed, f.fd, signal' = FALSE, last' = off, Sequential => onward(last, off),
           UNCHANGED <<directio, async, freed, user>>
    PROVE  OrderInv'
<1>1. PlainInv'
  BY CallGood DEF OrderInv
<1>2. WantIsLast'
  <2>1. Answered(off)
    BY GetdataGood DEF OrderInv, PlainInv, Flags, Flag
  <2> QED
    BY <2>1 DEF Answered, WantIsLast
<1>3. ASSUME Sequential PROVE SeqInv(f', off) /\ Intact
  <2>1. fl = user
    BY <1>3 DEF Sequential, Flags
  <2> QED
    BY <1>3, <2>1, GetdataOrder DEF OrderInv, PlainInv
<1>4. user' = user
  OBVIOUS
<1>5. ASSUME Sequential' PROVE SeqInv(f, last)' /\ ReturnedIsIntact'
  <2>1. Sequential
    BY <1>4, <1>5 DEF Sequential
  <2>2. SeqInv(f', off) /\ Intact
    BY <1>3, <2>1
  <2>3. SeqInv(f, last)'
    BY <1>4, <2>2 DEF SeqInv, Ordered, Oldest, Newest, AtEnd, Underway, Met, InOrder,
                      past, reached, leads, end, nxt
  <2> QED
    BY <2>2, <2>3 DEF Intact, ReturnedIsIntact
<1> QED
  BY <1>1, <1>2, <1>5 DEF OrderInv

\* The kernel's answer to a read that keeps the order.
LEMMA CompletedOrder ==
    ASSUME OrderInv, aio, f.fd,
           NEW h \in {Done(Ready), Failed(Ready), Pending(Ready)}, Completed(h)
    PROVE  OrderInv'
<1>1. PlainInv' /\ (ReturnedIsIntact => ReturnedIsIntact')
  BY CompletedGood DEF OrderInv
<1>2. f' = h.f /\ UNCHANGED <<user, want, last>>
  BY DEF Completed
<1>3. WantIsLast'
  BY <1>2 DEF OrderInv, WantIsLast
<1>4. ASSUME Sequential PROVE SeqInv(f', last)
  <2>1. PICK g \in FType : /\ g = Ready /\ g.bufs = f.bufs /\ g.wbuf = f.wbuf
                           /\ g.eof = f.eof /\ g.state = "ok"
    BY DEF OrderInv, PlainInv, ReadInv, TypeOK, Ready, FType
  <2>2. last \in Nat /\ f \in FType /\ f.state = "async"
    BY DEF OrderInv, PlainInv, ReadInv, TypeOK, BusyIsAlive, Asked
  <2>3. CacheOf(g) /\ g.bufs[g.wbuf].len = 0
    BY <2>1, <2>2 DEF OrderInv, PlainInv, ReadInv, CacheIsFile, CacheOf, Reading
  <2>4. PICK o : o = g.bufs[g.wbuf].offset
    OBVIOUS
  <2>5. /\ Ordered(f, last) /\ Met(f, last) /\ InOrder(f, o, last)
    BY <1>4, <2>1, <2>2, <2>4 DEF OrderInv, SeqInv, Underway
  <2>6. user = "backward" /\ last = Size => \A j \in Bufs : f.bufs[j].len = 0
    BY <2>2, <2>5 DEF Ordered, AtEnd
  <2>7. /\ Ordered(g, last) /\ Met(g, last) /\ InOrder(g, o, last)
        /\ user = "backward" /\ last = Size => \A j \in Bufs : g.bufs[j].len = 0
    BY <2>1, <2>5, <2>6, IdleOrder
  <2>8. CASE h = Done(g)
    BY <1>2, <1>4, <2>1, <2>2, <2>3, <2>4, <2>7, <2>8, FillOrder
  <2>9. CASE h = Failed(g)
    BY <1>2, <2>2, <2>3, <2>4, <2>7, <2>9, HeldOrder
  <2>10. CASE h = Pending(g)
    BY <1>2, <2>2, <2>3, <2>4, <2>7, <2>10, HeldOrder
  <2> QED
    BY <2>1, <2>8, <2>9, <2>10
<1>5. ASSUME Sequential' PROVE SeqInv(f, last)' /\ ReturnedIsIntact'
  <2>1. Sequential
    BY <1>2, <1>5 DEF Sequential
  <2>2. SeqInv(f', last) /\ ReturnedIsIntact'
    BY <1>1, <1>4, <2>1 DEF OrderInv
  <2>3. SeqInv(f, last)'
    BY <1>2, <2>2 DEF SeqInv, Ordered, Oldest, Newest, AtEnd, Underway, Met, InOrder,
                      past, reached, leads, end, nxt
  <2> QED
    BY <2>2, <2>3
<1> QED
  BY <1>1, <1>3, <1>5 DEF OrderInv

LEMMA StepOrder == OrderInv /\ [Next]_vars => OrderInv'
<1> SUFFICES ASSUME OrderInv, [Next]_vars PROVE OrderInv'
  OBVIOUS
<1>0. PlainInv'
  BY StepGood DEF OrderInv
<1>1. ASSUME NEW off \in Asked, NEW fl \in Flags, GetData(off, fl) PROVE OrderInv'
  <2>1. Sequential => onward(last, off)
    <3>1. last \in Nat /\ off \in Nat
      BY DEF OrderInv, PlainInv, ReadInv, TypeOK, Asked
    <3> QED
      BY <1>1, <3>1, Constants DEF GetData, Allowed, Sequential, onward
  <2> QED
    BY <1>1, <2>1, CallOrder DEF GetData
<1>2. ASSUME NEW fl \in Flags, AskAgain(fl) PROVE OrderInv'
  <2>1. want \in Asked /\ want = last /\ last' = want
    BY <1>2 DEF AskAgain, OrderInv, WantIsLast, PlainInv, ReadInv, TypeOK
  <2>2. onward(last, want)
    BY <2>1, Constants DEF onward, Asked
  <2> QED
    BY <1>2, <2>1, <2>2, CallOrder DEF AskAgain
<1>3. CASE Unref \/ UNCHANGED vars
  <2>1. /\ f'.bufs = f.bufs /\ f'.wbuf = f.wbuf /\ f'.eof = f.eof /\ f'.state = f.state
        /\ user' = user /\ last' = last
    BY <1>3 DEF Unref, vars, OrderInv, PlainInv, ReadInv, TypeOK, FType
  <2>2. Sequential' => Sequential
    BY <2>1 DEF Sequential
  <2>3. WantIsLast' /\ (ReturnedIsIntact => ReturnedIsIntact')
    BY <1>3 DEF Unref, vars, OrderInv, WantIsLast, ReturnedIsIntact
  <2>4. SeqInv(f, last) => SeqInv(f', last)
    BY <2>1, OnlyBuffers
  <2>5. SeqInv(f, last) => SeqInv(f, last)'
    BY <2>1, <2>4 DEF SeqInv, Ordered, Oldest, Newest, AtEnd, Underway, Met, InOrder,
                      past, reached, leads, end, nxt
  <2> QED
    BY <1>0, <2>2, <2>3, <2>5 DEF OrderInv
<1>4. CASE AioRead
  BY <1>4, CompletedOrder DEF AioRead
<1>5. CASE AioFail
  BY <1>5, CompletedOrder DEF AioFail
<1>6. CASE AioAgain
  BY <1>6, CompletedOrder DEF AioAgain
<1>7. CASE AioFree
  <2>1. /\ f'.bufs = f.bufs /\ f'.wbuf = f.wbuf /\ f'.eof = f.eof /\ f'.state = "ok"
        /\ ~f'.fd /\ user' = user /\ last' = last /\ want' = want
        /\ f.state = "async"
    BY <1>7 DEF AioFree, Ready, OrderInv, PlainInv, ReadInv, TypeOK, FType, BusyIsAlive
  <2>2. WantIsLast' /\ ReturnedIsIntact'
    BY <2>1 DEF OrderInv, WantIsLast, ReturnedIsIntact
  <2>3. ASSUME Sequential PROVE Ordered(f', last)
    <3>1. Ordered(f, last)
      BY <2>3 DEF OrderInv, SeqInv
    <3>2. user = "backward" /\ last = Size => \A j \in Bufs : f.bufs[j].len = 0
      BY <2>1, <3>1 DEF Ordered, AtEnd
    <3> QED
      BY <2>1, <3>1, <3>2, IdleOrder
  <2>4. ASSUME Sequential PROVE SeqInv(f', last)
    BY <2>1, <2>3, <2>4 DEF SeqInv, Underway
  <2>5. Sequential' => Sequential
    BY <2>1 DEF Sequential
  <2>6. Sequential' => SeqInv(f, last)'
    BY <2>1, <2>4, <2>5 DEF SeqInv, Ordered, Oldest, Newest, AtEnd, Underway, Met, InOrder,
                            past, reached, leads, end, nxt
  <2> QED
    BY <1>0, <2>2, <2>6 DEF OrderInv
<1> QED
  BY <1>1, <1>2, <1>3, <1>4, <1>5, <1>6, <1>7 DEF Next

\* What fffileread_getdata() returned is the byte asked for and stays so until
\* the next call, whatever is read ahead and however late reads complete that
\* nobody waits for any more: the read-ahead never overwrites the buffer just
\* returned.  A consumer that seeks has to do without read-ahead.
THEOREM ReturnedStays ==
    Spec => []((user = "seeking" => ~directio \/ nbufs = 1) => ReturnedIsIntact)
<1>1. Spec => []OrderInv
  BY InitOrder, StepOrder, PTL DEF Spec
<1>2. OrderInv => ((user = "seeking" => ~directio \/ nbufs = 1) => ReturnedIsIntact)
  <2> SUFFICES ASSUME OrderInv, user = "seeking" => ~directio \/ nbufs = 1
               PROVE  ReturnedIsIntact
    OBVIOUS
  <2>1. CASE Sequential
    BY <2>1 DEF OrderInv
  <2>2. CASE ~Sequential
    <3>1. Plain
      BY <2>2, Constants DEF Sequential, Plain
    <3> QED
      BY <3>1 DEF OrderInv, PlainInv
  <2> QED
    BY <2>1, <2>2
<1> QED
  BY <1>1, <1>2, PTL
=============================================================================
