------------------------------ MODULE FileRead ------------------------------
(***************************************************************************)
(* fffileread (FF/sys/fileread.h, FF/sys/fffileread.c): a file reader with *)
(* a ring of buffers, asynchronous reads and read-ahead.  One consumer     *)
(* calls fffileread_getdata(); while a read is pending it waits for        *)
(* onread() and asks again.  The kernel may complete the read at any time, *)
(* after fffileread_unref() too.                                           *)
(*                                                                         *)
(* Offsets are unsigned and wrap at Mod; the contents of a buffer are the  *)
(* offset in the file they were read from.                                 *)
(***************************************************************************)
EXTENDS Naturals, FiniteSets

CONSTANTS nbufs, bufsize, bufalign,   \* fffileread_conf
          Size,                       \* the size of the file
          Mod,                        \* bound: offsets are below Mod, for 2^64
          Users,                      \* how the consumer moves: see Allowed
          None                        \* no data, offset or flag

ASSUME ConfAssumption ==       \* what fffileread_create() demands
    /\ nbufs \in Nat \ {0} /\ bufalign \in Nat \ {0} /\ bufsize \in Nat \ {0}
    /\ \E k \in 0..bufalign : bufalign = 2^k
    /\ bufsize % bufalign = 0
ASSUME SizeAssumption == /\ Size \in Nat /\ Mod \in Nat
                         /\ 2 * (Size + 2 * bufsize) < Mod

Bufs == 0..(nbufs - 1)
Offsets == 0..(Mod - 1)
NoOff == Mod - 1               \* (uint64)-1
Asked == 0..(Size + 1)         \* offsets the consumer asks for

ASSUME NoneAssumption == None \notin Offsets /\ None \notin {"forward", "backward"}

VARIABLES f,        \* struct fffileread
          directio, \* f->conf.directio
          async,    \* reads are asynchronous: there is a kqueue and O_DIRECT works
          aio,      \* a read is pending in the kernel
          freed,    \* the object was freed
          user,     \* how this consumer moves
          want,     \* the offset it waits for after FFFILEREAD_RASYNC
          signal,   \* onread() was called since it last asked
          got,      \* what the last call returned, with FFFILEREAD_RREAD
          last      \* the offset asked for last

vars == <<f, directio, async, aio, freed, user, want, signal, got, last>>

\* fffileread_create().  f->conf is copied before directio is set to what the
\* open file really does, so directio may be set and reads synchronous.
Init == /\ f = [state |-> "ok", eof |-> 0, wbuf |-> 0, locked |-> NoOff, fd |-> TRUE,
                bufs |-> [i \in Bufs |-> [len |-> 0, offset |-> NoOff, data |-> None]]]
        /\ directio \in BOOLEAN /\ async \in BOOLEAN /\ (async => directio)
        /\ aio = FALSE /\ freed = FALSE
        /\ user \in Users
        /\ want = None /\ signal = FALSE /\ got = None
        /\ last = IF user = "backward" THEN Size ELSE 0
-----------------------------------------------------------------------------
(* Buffers *)

within(off, b) == b.offset <= off /\ off < b.offset + b.len

\* bufs_find()
found(g, off) == {i \in Bufs : within(off, g.bufs[i])}
bufs_find(g, off) == {i \in found(g, off) : \A j \in found(g, off) : i <= j}

floor2(off) == off - (off % bufalign)

\* The bytes of the file at an offset, as far as a buffer goes.
Avail(off) == IF off >= Size THEN 0
              ELSE IF Size - off < bufsize THEN Size - off ELSE bufsize

readNoCycle(g) ==
    LET b == g.bufs[g.wbuf]
    IN  [g EXCEPT !.bufs[g.wbuf].len = Avail(b.offset), !.bufs[g.wbuf].data = b.offset,
                  !.state = IF Avail(b.offset) # bufsize THEN "eof" ELSE @,
                  !.eof = IF Avail(b.offset) # bufsize THEN b.offset + Avail(b.offset) ELSE @]

\* fr_read() when the read succeeded
read(g) ==
    LET b == g.bufs[g.wbuf]
        n == Avail(b.offset)
    IN  [g EXCEPT !.bufs[g.wbuf].len = n, !.bufs[g.wbuf].data = b.offset,
                  !.wbuf = (@ + 1) % nbufs,
                  !.state = IF n # bufsize THEN "eof" ELSE @,
                  !.eof = IF n # bufsize THEN b.offset + n ELSE @]

Done(g) == [f |-> read(g), r |-> IF Avail(g.bufs[g.wbuf].offset) # bufsize THEN "done" ELSE "data"]
Failed(g) == [f |-> [g EXCEPT !.state = "err", !.bufs[g.wbuf].data = None], r |-> "err"]
Pending(g) == [f |-> [g EXCEPT !.state = "async", !.bufs[g.wbuf].data = None], r |-> "async"]

\* fr_read(): what may come of it.  An offset that is negative as a signed
\* number is an error.
fr_read(g) ==
    IF 2 * g.bufs[g.wbuf].offset >= Mod THEN {Failed(g)}
    ELSE {Failed(g), IF async THEN Pending(g) ELSE Done(g)}

buf_prepreadKeep(g, off) == [g EXCEPT !.bufs[g.wbuf].offset = off]

\* buf_prepread(): the buffer is no longer found.
buf_prepread(g, off) == [g EXCEPT !.bufs[g.wbuf].len = 0, !.bufs[g.wbuf].offset = off]

\* fr_read_off()
fr_read_off(g, off) == fr_read(buf_prepread(g, off))

\* The conditions of a read-ahead from buffer i.
ahead(g, i, fl) == IF fl = "backward" THEN (g.bufs[i].offset + Mod - bufsize) % Mod
                   ELSE g.bufs[i].offset + g.bufs[i].len
readsahead(g, i, fl) ==
    /\ fl # None /\ (fl = "backward" \/ ahead(g, i, fl) # g.eof)
    /\ directio /\ nbufs # 1
    /\ found(g, ahead(g, i, fl)) = {}
    /\ g.state # "async"
-----------------------------------------------------------------------------
\* How consumers move.  All may ask for any byte they like, but only "seeking"
\* ones do so and ask for read-ahead; "forward" and "backward" go on from block
\* to block.
Allowed(off) == /\ user = "forward" => off \in last..(last + bufsize)
                /\ user = "backward" => off <= last /\ last <= off + bufsize
Flags == IF user \in {"forward", "backward"} THEN {user}
         ELSE IF user = "seeking" THEN {"forward"} ELSE {None}

\* The end of fffileread_getdata(): read ahead, and return buffer i.
Return(g, i, off, fl) ==
    \E h \in IF readsahead(g, i, fl) THEN fr_read_off(g, ahead(g, i, fl)) ELSE {[f |-> g, r |-> "none"]} :
      /\ f' = [h.f EXCEPT !.locked = i]
      /\ aio' = (aio \/ h.r = "async")
      /\ got' = [buf |-> i, off |-> off]
      /\ want' = None

\* Any other return: with FFFILEREAD_RASYNC the consumer waits.
Answer(g, isasync, off) == /\ f' = g
                           /\ aio' = isasync
                           /\ got' = None
                           /\ want' = IF isasync THEN off ELSE None

eofNever(g, off) == FALSE

\* At or past the end of the file, as far as it is known.
atEof(g, off) == g.state = "eof" /\ off >= g.eof

\* fffileread_getdata(): a buffer has it, or a read is pending, or it is past
\* the end, or it has to be read.
Cached(g, off, fl) == \E i \in bufs_find(g, off) : Return(g, i, off, fl)
Wait(g, off) == g.state = "async" /\ Answer(g, TRUE, off)
PastEnd(g, off) == g.state # "async" /\ atEof(g, off) /\ Answer(g, FALSE, off)
Start(g, off, fl) ==
    /\ g.state # "async" /\ ~atEof(g, off)
    /\ \E o \in fr_read_off([g EXCEPT !.state = IF @ = "eof" THEN "ok" ELSE @], floor2(off)) :
         \/ o.r \in {"done", "data"} /\ Cached(o.f, off, fl)
         \/ o.r \in {"async", "err"} /\ Answer(o.f, o.r = "async", off)
         \/ o.r = "done" /\ found(o.f, off) = {} /\ Answer(o.f, FALSE, off)

getdata(off, fl) ==
    LET g == [f EXCEPT !.locked = NoOff]
    IN  \/ Cached(g, off, fl)
        \/ found(g, off) = {} /\ (Wait(g, off) \/ PastEnd(g, off) \/ Start(g, off, fl))

\* A new request, or a consumer that does not wait any longer and asks for
\* something else.
GetData(off, fl) == /\ ~freed /\ f.fd
                    /\ want # off /\ Allowed(off)
                    /\ getdata(off, fl)
                    /\ signal' = FALSE /\ last' = off
                    /\ UNCHANGED <<directio, async, freed, user>>

\* After onread() the consumer asks again.
AskAgain(fl) == /\ ~freed /\ f.fd
                /\ want # None /\ signal
                /\ getdata(want, fl)
                /\ signal' = FALSE
                /\ UNCHANGED <<directio, async, freed, user, last>>

unrefAtOnce == /\ ~freed /\ f.fd
               /\ f' = [f EXCEPT !.fd = FALSE]
               /\ freed' = TRUE
               /\ want' = None /\ got' = None
               /\ UNCHANGED <<directio, async, aio, user, signal, last>>

\* fffileread_unref(): with a read pending the object stays.
Unref == /\ ~freed /\ f.fd
         /\ f' = [f EXCEPT !.fd = FALSE]
         /\ freed' = (f.state # "async")
         /\ want' = None /\ got' = None
         /\ UNCHANGED <<directio, async, aio, user, signal, last>>

\* fr_read_a(): the result h of the read; onread() unless it is pending again.
Completed(h) == /\ f' = h.f
                /\ aio' = (h.r = "async")
                /\ signal' = (signal \/ h.r # "async")
                /\ UNCHANGED <<directio, async, freed, user, want, got, last>>

Ready == [f EXCEPT !.state = "ok"]
AioRead == aio /\ f.fd /\ Completed(Done(Ready))
AioFail == aio /\ f.fd /\ Completed(Failed(Ready))
AioAgain == aio /\ f.fd /\ Completed(Pending(Ready))

\* fr_read_a() of an object that was closed meanwhile
AioFree == /\ aio /\ ~f.fd
           /\ f' = Ready
           /\ aio' = FALSE /\ freed' = TRUE
           /\ UNCHANGED <<directio, async, user, want, signal, got, last>>
-----------------------------------------------------------------------------
Next == \/ \E off \in Asked : \E fl \in Flags : GetData(off, fl)
        \/ \E fl \in Flags : AskAgain(fl)
        \/ Unref \/ AioRead \/ AioFail \/ AioAgain \/ AioFree

Spec == Init /\ [][Next]_vars

\* The kernel completes what it was asked for, and a consumer that waits asks
\* again when onread() is called.
Asks == \E fl \in Flags : AskAgain(fl)
FairSpec == Spec /\ WF_vars(AioRead \/ AioFail \/ AioFree) /\ WF_vars(Asks)

\* The disk does not fail forever.
GoodDiskSpec == FairSpec /\ SF_vars(AioRead)
-----------------------------------------------------------------------------
BufType == [len : 0..bufsize, offset : Offsets, data : Offsets \cup {None}]
FType == [state : {"ok", "err", "async", "eof"}, eof : Offsets, wbuf : Bufs,
          locked : Bufs \cup {NoOff}, fd : BOOLEAN, bufs : [Bufs -> BufType]]

TypeOK == /\ f \in FType
          /\ directio \in BOOLEAN /\ async \in BOOLEAN
          /\ aio \in BOOLEAN /\ freed \in BOOLEAN /\ signal \in BOOLEAN
          /\ user \in Users
          /\ want \in Asked \cup {None} /\ last \in Asked
          /\ got \in [buf : Bufs, off : Asked] \cup {None}

\* A buffer that bufs_find() can find holds what the file has at its offset:
\* not the rest of an earlier block, not a read that failed or is going on.
HoldsFile(b) == b.len > 0 => b.data = b.offset /\ b.len = Avail(b.offset)
CacheOf(g) == \A i \in Bufs : HoldsFile(g.bufs[i])
CacheIsFile == CacheOf(f)

\* The kernel reads into memory that is still there, and the object knows it.
BusyIsAlive == aio => ~freed /\ f.state = "async"

\* What fffileread_getdata() returned stays as it is until the next call: the
\* buffer holds the byte asked for and nobody is reading into it.
ReturnedIsIntact == got # None /\ f.fd =>
    /\ within(got.off, f.bufs[got.buf])
    /\ f.bufs[got.buf].data = f.bufs[got.buf].offset

\* After FFFILEREAD_RASYNC "onread() will be called", and asking again then
\* ends, whatever was being read when the request came.
Served == \A o \in Asked : want = o ~> want # o

\* An object that was released while a read was pending is freed.
Released == ~f.fd ~> freed

\* A read that failed is reported to the one who waits for it: "error
\* occurred".
FailureIsReported == \A o \in Asked : (want = o /\ f.state = "err") ~> want # o
=============================================================================
