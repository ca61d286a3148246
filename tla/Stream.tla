------------------------------- MODULE Stream -------------------------------
(***************************************************************************)
(* What the format readers share.  A reader is a loop over the state of    *)
(* its object that returns when it needs input, has output or wants to     *)
(* move in the file; an action of a reader is one case of its loop.        *)
(*                                                                         *)
(* o is the reader's object: o.st its state, o.nx the state after a        *)
(* gather, o.in the input it holds, o.buf what it has collected (o.gsize   *)
(* bytes are wanted, o.gbuf are they), o.off its idea of the offset, o.ret *)
(* the result of the call ("run" while the loop goes on).  w is the        *)
(* caller: w.pos is the position it reads from next.                      *)
(*                                                                         *)
(* A byte is known by its offset in the file: input and what is collected  *)
(* are sequences of offsets, so that a piece that is lost, repeated or     *)
(* glued to another one shows.  w.out is the output so far; File.frames    *)
(* is what it should become.                                               *)
(***************************************************************************)
EXTENDS Integers, Sequences, FiniteSetsExt, SequencesExt, TLC

CONSTANTS
    Files,      \* the files to read: each has at least its length, size
    MaxPiece    \* longest piece of input

VARIABLES o, w
vars == <<o, w>>

Bytes(first, n) == [i \in 1..n |-> first + i - 1]
Shift(s, n) == SubSeq(s, n + 1, Len(s))

Object == [st |-> "INIT", nx |-> "none", in |-> <<>>, buf |-> <<>>, gsize |-> 0,
           gbuf |-> <<>>, off |-> 0, ret |-> "run"]
Caller(f) == [pos |-> 0, file |-> f, out |-> <<>>]
File == w.file

In(st) == o.ret = "run" /\ o.st = st
Ret(r, oo) == o' = [oo EXCEPT !.ret = r] /\ UNCHANGED w
Go(oo) == o' = oo /\ UNCHANGED w
Goto(st) == Go([o EXCEPT !.st = st])

(* ffarr_gather(): complete buf to until bytes from the input, as far as   *)
(* it goes.                                                                *)
gatherAll(buf, in, until) == [buf |-> buf \o in, in |-> <<>>]
gather(buf, in, until) ==
    LET k == Max({0, Min({Len(in), until - Len(buf)})})
    IN  [buf |-> buf \o SubSeq(in, 1, k), in |-> Shift(in, k)]

Want(oo, n, nx) == [oo EXCEPT !.gsize = n, !.st = "GATHER", !.nx = nx]

(* The state a reader collects in: ffarr_append_until(), then the next     *)
(* state with the bytes in gbuf and the buffer free again.                 *)
Gather ==
    /\ In("GATHER")
    /\ LET g == gather(o.buf, o.in, o.gsize)
           oo == [o EXCEPT !.buf = g.buf, !.in = g.in]
       IN IF Len(g.buf) < o.gsize \/ o.in = <<>> THEN Ret("MORE", oo)
          ELSE Go([oo EXCEPT !.off = @ + o.gsize, !.gbuf = g.buf, !.buf = <<>>, !.st = o.nx])

(* The same in readers whose offset counts what they have collected, too.  *)
Collect ==
    /\ In("GATHER")
    /\ LET g == gather(o.buf, o.in, o.gsize)
           oo == [o EXCEPT !.in = g.in, !.off = @ + Len(o.in) - Len(g.in)]
       IN IF Len(g.buf) < o.gsize \/ o.in = <<>> THEN Ret("MORE", [oo EXCEPT !.buf = g.buf])
          ELSE Go([oo EXCEPT !.gbuf = g.buf, !.buf = <<>>, !.st = o.nx])

(* ffbuf_gather(): find ctg contiguous bytes or less, although they may    *)
(* come in two pieces.  len[b] is the length of what is looked for if it   *)
(* begins with b, else 0.  It looks in what is left of the last piece      *)
(* followed by the begin of this one, then in this one, and keeps what may *)
(* be the begin.  n tells where it was found.                              *)
wholeAt(bytes, i, len) == len[bytes[i]] > 0 /\ i + len[bytes[i]] - 1 <= Len(bytes)
firstAt(bytes, len) == Min({i \in DOMAIN bytes : wholeAt(bytes, i, len)} \cup {Len(bytes) + 1})
foundIn(bytes, n, len, skip, in) ==
    [r |-> "DONE", n |-> n - 1, buf |-> SubSeq(bytes, n, n + len - 1), in |-> Shift(in, n - 1 + len - skip)]
keep(buf) == [r |-> "MORE", n |-> 0, buf |-> buf, in |-> <<>>]

ffbuf_gather(buf, in, ctg, len) ==
    LET inThis(n) == IF n <= Len(in) THEN foundIn(in, n, len[in[n]], 0, in)
                     ELSE keep(Shift(in, Max({0, Len(in) - (ctg - 1)})))
        inBoth(both, n) == CASE n <= Len(both) -> foundIn(both, n, len[both[n]], Len(buf), in)
                             [] n > Len(both) /\ Len(in) <= ctg - Len(buf) -> keep(both)
                             [] OTHER -> inThis(firstAt(in, len))
        lookIn(both) == inBoth(both, firstAt(both, len))
    IN  IF buf = <<>> THEN inThis(firstAt(in, len))
        ELSE lookIn(buf \o SubSeq(in, 1, Min({Len(in), ctg - 1})))

(* Return with a piece of output.                                          *)
Out(r, d, oo) == /\ o' = [oo EXCEPT !.ret = r]
                 /\ w' = [w EXCEPT !.out = Append(@, d)]

(* Pass over as much of n bytes as the input has.                          *)
SkipIn(n) == Min({n, Len(o.in)})
Skipped(n) == [o EXCEPT !.in = Shift(o.in, SkipIn(n)), !.off = @ + SkipIn(n)]

(* The caller, external: the next piece of the file; a move to o.off; or   *)
(* just the next call.                                                     *)
FeedFrom(least) ==
    /\ o.ret = "MORE" /\ w.pos < File.size
    /\ LET left == File.size - w.pos
       IN \E n \in Min({least, left})..Min({MaxPiece, left}) :
             /\ o' = [o EXCEPT !.in = @ \o Bytes(w.pos, n), !.ret = "run"]
             /\ w' = [w EXCEPT !.pos = @ + n]
Feed == FeedFrom(1)

Move == /\ o.ret = "SEEK"
        /\ o' = [o EXCEPT !.in = <<>>, !.ret = "run"]
        /\ w' = [w EXCEPT !.pos = o.off]

Call(results) == o.ret \in results /\ o' = [o EXCEPT !.ret = "run"] /\ UNCHANGED w

-----------------------------------------------------------------------------
(* FF_ASSERT(r != 0 || len == 0) of ffarr_append_until(): whoever has      *)
(* input and collects can take some of it.                                 *)
GatherTakes == In("GATHER") /\ o.in # <<>> => Len(o.buf) < o.gsize

(* More input is asked for only after all of it was taken.                 *)
MoreAtEnd == o.ret = "MORE" => o.in = <<>>

(* The reader knows where it is: its offset is that of what it has begun   *)
(* to collect and of the input behind it.                                  *)
OffsetTrue == o.ret \notin {"SEEK", "ERR"} => o.off + Len(o.buf) + Len(o.in) = w.pos
OffsetOfInput == o.ret \notin {"SEEK", "ERR"} => o.off + Len(o.in) = w.pos

(* What was returned is what the file holds, in its order and from the     *)
(* first on; when the reader says that it is done, that was all of it.     *)
OutputTrue == IsPrefix(w.out, File.frames)
Complete == o.ret = "DONE" => w.out = File.frames

-----------------------------------------------------------------------------
(* ffpcm_seek() of FF/audio/ffpcm.c: one step of the search for the frame  *)
(* that holds a sample, between two points of which the sample and the     *)
(* offset are known.  The readers call it with the frame they have found   *)
(* at or behind the offset it last told them.                              *)
Pt(sample, off) == [sample |-> sample, off |-> off]

(* The bounds after the frame fr = [index, samples, size, off] was found   *)
(* when the search was at lastoff; bin is set when nothing is to be found  *)
(* between lastoff and the upper bound.                                    *)
within(x, lo, hi) == x >= lo /\ x < hi

narrowed(target, pt, fr, lastoff) ==
    CASE fr.samples = 0 -> [pt |-> pt, bin |-> FALSE, hit |-> FALSE]
      [] fr.samples # 0 /\ within(fr.index, pt[1].sample, pt[2].sample)
                        /\ within(fr.off, pt[1].off, pt[2].off) ->
           [bin |-> FALSE,
            hit |-> within(target, fr.index, fr.index + fr.samples),
            pt  |-> CASE target < fr.index -> <<pt[1], Pt(fr.index, fr.off)>>
                      [] target >= fr.index + fr.samples ->
                           <<Pt(fr.index + fr.samples, fr.off + fr.size), pt[2]>>
                      [] OTHER -> pt]
      [] OTHER -> IF within(lastoff, pt[1].off, pt[2].off)
                  THEN [pt |-> <<pt[1], Pt(pt[2].sample, lastoff)>>, bin |-> TRUE, hit |-> FALSE]
                  ELSE [pt |-> pt, bin |-> FALSE, hit |-> FALSE]

(* r: 0 the frame is it, 1 look at off, -1 there is nowhere left to look.  *)
sought(n, fr, lastoff, off) ==
    CASE n.hit -> [r |-> 0, pt |-> n.pt, off |-> fr.off]
      [] ~n.hit /\ off = lastoff -> [r |-> -1, pt |-> n.pt, off |-> fr.off]
      [] OTHER -> [r |-> 1, pt |-> n.pt, off |-> off]

(* avg is avg_fr_samples, allow is FFPCM_SEEK_ALLOW_BINSCH.                *)
ffpcm_seek(target, pt0, fr, lastoff, avg, allow) ==
    LET n == narrowed(target, pt0, fr, lastoff)
        size == n.pt[2].off - n.pt[1].off
        samples == n.pt[2].sample - n.pt[1].sample
        guess == IF allow /\ n.bin THEN size \div 2
                 ELSE ((target - n.pt[1].sample) * size) \div samples
        frame == IF avg = 0 THEN fr.size ELSE size \div Max({samples \div avg, 1})
        off == Max({guess - frame, 0}) + n.pt[1].off
    IN  sought(n, fr, lastoff, off)

(* FF_ASSERT(target >= pt[0].sample && target < pt[1].sample).             *)
InBounds(target, pt) == within(target, pt[1].sample, pt[2].sample)
=============================================================================
