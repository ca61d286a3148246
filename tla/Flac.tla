-------------------------------- MODULE Flac --------------------------------
(***************************************************************************)
(* The FLAC reader and writer of FF/aformat/ffflac-ext.c.                  *)
(*                                                                         *)
(* A file is Min bytes of signature and stream information, the blocks     *)
(* File.blocks, each [off, size, type, last, bad, pts] with a header of    *)
(* Hdr bytes at off, and File.fl, the frames [off, len, pos, samples] at   *)
(* off of that position and number of samples.  A frame has no length of   *)
(* its own: it ends where the next one is found.                           *)
(***************************************************************************)
EXTENDS Stream

CONSTANTS Min0, Hdr, FrHdr,     \* FLAC_MINSIZE, sizeof(struct flac_hdr), FLAC_MINFRAMEHDR
          MinPiece, MaxNoSync, Avg, \* (minblock + maxblock) / 2
          MaxSeeks, SeekOn

NoFrame == [pos |-> 0, samples |-> 0, off |-> 0, len |-> 0]
Init ==
    /\ \E f \in Files : w = [seeks |-> 0, from |-> 1] @@ Caller(f)
    /\ o = [Object @@ [blk |-> [size |-> 0], hdrlast |-> FALSE, framesoff |-> 0, sktab |-> <<>>,
                       seekpt |-> <<Pt(0, 0), Pt(0, 0)>>, skoff |-> 0, seeksample |-> 0,
                       frame |-> NoFrame, skipped |-> 0]
             EXCEPT !.st = "INFO"]

-----------------------------------------------------------------------------
(* flac_seektab(), flac_seektab_finish(): the points between the first and *)
(* the last sample.                                                        *)
flac_seektab(pts, total) ==
    LET p == SelectSeq(pts, LAMBDA x : x.sample # 0)
    IN  IF p = <<>> THEN <<>> ELSE <<Pt(0, 0)>> \o p \o <<Pt(total, 0)>>
flac_seektab_finish(tab, size) ==
    IF tab[Len(tab) - 1].off >= size THEN <<>> ELSE [tab EXCEPT ![Len(tab)].off = size]

(* Metadata.                                                               *)
AtEnd == w.pos = File.size      \* the caller has set fin
NextMeta(last) == IF last THEN "METALAST" ELSE "META"

FoundSync(g) ==
    LET oo == [o EXCEPT !.in = g.in, !.off = @ + Len(o.in) - Len(g.in)]
        skipped == o.skipped + Len(o.in)
    IN  IF g.r = "MORE" THEN Ret(IF skipped > MaxNoSync THEN "ERR" ELSE "MORE",
                                 [o EXCEPT !.buf = g.buf, !.in = <<>>, !.skipped = skipped])
        ELSE Ret("HDR", [oo EXCEPT !.buf = <<>>, !.skipped = 0, !.st = NextMeta(File.blocks = {})])
(* _ffflac_findsync()                                                      *)
Info == /\ In("INFO")
        /\ LET find == [b \in 0..File.size |-> IF b = 0 THEN Min0 ELSE 0]
           IN  FoundSync(ffbuf_gather(o.buf, o.in, Min0, find))

Block(b) == CHOOSE x \in File.blocks : x.off = b

(* _ffflac_meta(): the header of a block.  A block of no interest is left  *)
(* out by a move.                                                          *)
MetaGot(b) ==
    LET oo == [o EXCEPT !.buf = <<>>, !.off = @ + Hdr, !.hdrlast = b.last, !.blk = b,
                        !.in = Shift(@, Hdr - Len(o.buf))]
        st == NextMeta(b.last)
    IN CASE b.type = "tags" -> Go([oo EXCEPT !.st = "TAG"])
         [] b.type = "seektable" /\ o.sktab = <<>> -> Go([oo EXCEPT !.st = "SEEKTBL"])
         [] b.type = "pic" -> Go([oo EXCEPT !.st = "PIC"])
         [] OTHER -> Ret("SEEK", [oo EXCEPT !.off = @ + b.size, !.st = st])
Meta ==
    /\ In("META")
    /\ LET got(g) == IF Len(g.buf) < Hdr THEN Ret("MORE", [o EXCEPT !.buf = g.buf, !.in = g.in])
                     ELSE MetaGot(Block(g.buf[1]))
       IN  got(gather(o.buf, o.in, Hdr))

(* The body of a block; tags are parsed from it in steps.                  *)
BlockGot(g) ==
    LET oo == [o EXCEPT !.in = g.in, !.buf = <<>>, !.gbuf = g.buf]
        read == [oo EXCEPT !.off = @ + o.blk.size]
        next == NextMeta(o.hdrlast)
    IN CASE Len(g.buf) < o.blk.size -> Ret("MORE", [o EXCEPT !.buf = g.buf, !.in = g.in])
         [] Len(g.buf) = o.blk.size /\ o.st = "TAG" -> Go([oo EXCEPT !.st = "TAG_PARSE"])
         [] Len(g.buf) = o.blk.size /\ o.st # "TAG" /\ o.blk.bad -> Ret("WARN", [read EXCEPT !.st = "SKIPMETA"])
         [] Len(g.buf) = o.blk.size /\ o.st = "SEEKTBL" /\ ~o.blk.bad ->
              Go([read EXCEPT !.sktab = flac_seektab(o.blk.pts, File.total), !.st = next])
         [] OTHER -> Ret("TAG", [read EXCEPT !.st = next])
MetaBody ==
    /\ o.st \in {"TAG", "SEEKTBL", "PIC"} /\ In(o.st)
    /\ BlockGot(gather(o.buf, o.in, o.blk.size))
TagParse ==
    /\ In("TAG_PARSE")
    /\ CASE o.blk.bad -> Ret("WARN", [o EXCEPT !.st = "SKIPMETA"])
         [] ~o.blk.bad /\ o.gbuf # <<>> -> Ret("TAG", [o EXCEPT !.gbuf = <<>>])
         [] OTHER -> Go([o EXCEPT !.off = @ + o.blk.size, !.st = NextMeta(o.hdrlast)])
SkipMeta == In("SKIPMETA") /\ Ret("SEEK", [o EXCEPT !.off = @ + o.blk.size, !.st = NextMeta(o.hdrlast)])

MetaLast == In("METALAST") /\ Ret("HDRFIN", [o EXCEPT !.framesoff = o.off, !.buf = <<>>, !.st = "INIT"])

-----------------------------------------------------------------------------
(* ffflac_seek(): before the first frame the sample is only noted.         *)
lower(tab, sample) == Max({i \in DOMAIN tab : tab[i].sample <= sample})
ffflac_seek(oo, sample) ==
    LET i == lower(oo.sktab, sample)
    IN  IF oo.st = "INIT" \/ oo.sktab = <<>> THEN [oo EXCEPT !.seeksample = sample]
        ELSE [oo EXCEPT !.seekpt = <<oo.sktab[i], oo.sktab[i + 1]>>, !.skoff = -1,
                        !.seeksample = sample, !.st = "SEEK"]

(* _ffflac_init(): at least the ends of the stream are in the table.       *)
Opened ==
    /\ In("INIT")
    /\ LET tab == IF o.sktab = <<>> THEN <<Pt(0, 0), Pt(File.total, 0)>> ELSE o.sktab
           oo == [o EXCEPT !.sktab = flac_seektab_finish(tab, File.size - o.framesoff), !.st = "FRHDR"]
       IN  Go(IF o.seeksample = 0 THEN oo ELSE ffflac_seek(oo, o.seeksample))

(* _ffflac_findhdr(), _ffflac_getframe(): all input is kept until a header *)
(* is found in it, from byte k on.  found is where, 0 if nowhere.          *)
FrameAt(b) == CHOOSE f \in File.fl : f.off = b
flac_frame_find(buf, k) ==
    Min({i \in k..(Len(buf) - FrHdr + 1) : \E f \in File.fl : f.off = buf[i]} \cup {Len(buf) + 1})

Taken == [o EXCEPT !.buf = @ \o o.in, !.in = <<>>, !.off = @ + Len(o.in)]
NotFound(oo) ==
    LET skipped == o.skipped + Len(o.in)
    IN  Ret(IF skipped > MaxNoSync THEN "ERR" ELSE "MORE", [oo EXCEPT !.skipped = skipped])

HdrGot(oo, n) ==
    LET x == [oo EXCEPT !.buf = Shift(@, n - 1), !.skipped = 0, !.frame = FrameAt(oo.buf[n]), !.st = "DATA"]
    IN CASE n > Len(oo.buf) /\ ~AtEnd -> NotFound(oo)
         [] n > Len(oo.buf) /\ AtEnd -> Go([oo EXCEPT !.st = "FIN"])
         [] OTHER -> IF n = 1 THEN Go(x) ELSE Ret("WARN", x)
FrHdrStep == In("FRHDR") /\ HdrGot(Taken, flac_frame_find(Taken.buf, 1))

FrameGot(oo, n) ==
    LET x == [oo EXCEPT !.buf = Shift(@, n - 1), !.skipped = 0, !.st = "FRHDR"]
    IN  IF n > Len(oo.buf) /\ ~AtEnd THEN NotFound(oo)
        ELSE Out("DATA", SubSeq(oo.buf, 1, n - 1), x)
Data == In("DATA") /\ FrameGot(Taken, flac_frame_find(Taken.buf, FrHdr + 1))

(* _ffflac_seek()                                                          *)
Asked(oo, s) ==
    CASE s.r = 1  -> Ret("SEEK", [oo EXCEPT !.seekpt = s.pt, !.skoff = s.off, !.buf = <<>>,
                                            !.off = o.framesoff + s.off])
      [] s.r = -1 -> Ret("ERR", [oo EXCEPT !.seekpt = s.pt])
      [] OTHER    -> Go([oo EXCEPT !.seekpt = s.pt, !.st = "DATA"])
Ask(oo, fr) ==
    Asked(oo, ffpcm_seek(o.seeksample, o.seekpt,
                         [index |-> fr.pos, samples |-> fr.samples, size |-> FrHdr,
                          off |-> oo.off - o.framesoff - Len(oo.buf)], o.skoff, Avg, TRUE))
SeekGot(oo, n) ==
    LET fr == FrameAt(oo.buf[n])
    IN CASE n > Len(oo.buf) /\ ~AtEnd -> NotFound(oo)
         [] n > Len(oo.buf) /\ AtEnd -> Ret("DONE", oo)
         [] OTHER -> Ask([oo EXCEPT !.buf = Shift(@, n - 1), !.skipped = 0, !.frame = fr], fr)
Seek == In("SEEK") /\ SeekGot(Taken, flac_frame_find(Taken.buf, 1))

Fin == In("FIN") /\ IF File.total # o.frame.pos + o.frame.samples
                     THEN Ret("WARN", [o EXCEPT !.st = "FIN2"]) ELSE Ret("DONE", o)
Fin2 == In("FIN2") /\ Ret("DONE", o)

Read == \/ Info \/ Meta \/ MetaBody \/ TagParse \/ SkipMeta \/ MetaLast \/ Opened
        \/ FrHdrStep \/ Data \/ Seek \/ Fin \/ Fin2

UserSeek ==
    /\ o.ret \in SeekOn /\ w.seeks < MaxSeeks /\ ~AtEnd
    /\ \E s \in 0..(Max({f.pos + f.samples : f \in File.fl}) - 1) :
         /\ o' = [ffflac_seek(o, s) EXCEPT !.ret = "run"]
         /\ w' = [w EXCEPT !.seeks = @ + 1, !.out = <<>>,
                           !.from = Cardinality({f \in File.fl : f.pos <= s})]

Next == \/ Read \/ FeedFrom(IF o.st = "INFO" THEN MinPiece ELSE 1) \/ Move
        \/ Call({"HDR", "TAG", "HDRFIN", "DATA", "WARN"}) \/ UserSeek
Spec == Init /\ [][Next]_vars

-----------------------------------------------------------------------------
(* The frames returned are those of the file from the first one on, or     *)
(* from the one that holds the sample sought; at the end that was all.     *)
Wanted == SubSeq(File.frames, w.from, Len(File.frames))
FramesTrue == IsPrefix(w.out, Wanted)
FramesAll == o.ret = "DONE" => w.out = Wanted

-----------------------------------------------------------------------------
(* The writer.  File tells what is to be written: the total of samples if  *)
(* known, the interval of the seek table, the length of the padding,       *)
(* whether there is a picture and whether the output can seek.  w.blocks   *)
(* and w.frames are what the output holds.                                 *)
WInit ==
    /\ \E f \in Files : w = [blocks |-> <<>>, frames |-> <<>>, tab |-> <<>>, seekoff |-> 0] @@ Caller(f)
    /\ o = [Object @@ [pts |-> <<>>, iskpt |-> 1, frlen |-> 0, nsamps |-> 0, total |-> 0] EXCEPT !.st = "W_HDR"]

(* flac_seektab_init(): a point every interval, none at the end.           *)
flac_seektab_init(total, interval) ==
    [i \in 1..((total - 1) \div interval) |-> Pt(i * interval, 0)]

(* flac_seektab_add(): the points inside of this frame are its first       *)
(* sample.                                                                 *)
flac_seektab_add(pts, idx, nsamps, frlen, n) ==
    [i \in DOMAIN pts |-> IF i >= idx /\ within(pts[i].sample, nsamps, nsamps + n)
                          THEN Pt(nsamps, frlen) ELSE pts[i]]

(* flac_seektab_write(): each point once.                                  *)
flac_seektab_write(pts) ==
    [i \in 1..Cardinality(Range(pts)) |->
        CHOOSE p \in Range(pts) : Cardinality({q \in Range(pts) : q.sample <= p.sample}) = i]

Meta0(type, last) == [type |-> type, last |-> last]
Put(r, blocks, oo) == o' = [oo EXCEPT !.ret = r] /\ w' = [w EXCEPT !.blocks = @ \o blocks]

(* _ffflac_whdr()                                                          *)
WHdr ==
    /\ In("W_HDR")
    /\ LET pts == IF File.total = 0 THEN <<>> ELSE flac_seektab_init(File.total, File.interval)
           has == [pad |-> File.pad > 0, pic |-> File.pic, tab |-> pts # <<>>]
           n == Cardinality({b \in DOMAIN has : has[b]})
       IN  Put("DATA", <<Meta0("tags", n = 0)>> \o (IF File.pad > 0 THEN <<Meta0("pad", n = 1)>> ELSE <<>>),
               [o EXCEPT !.pts = pts, !.st = "W_PIC"])
WPic ==
    /\ In("W_PIC")
    /\ IF File.pic THEN Put("DATA", <<Meta0("pic", o.pts = <<>>)>>, [o EXCEPT !.st = "W_SEEKTAB_SPACE"])
       ELSE Goto("W_SEEKTAB_SPACE")
(* The space is zeros until the table is written.                          *)
WSeekTabSpace ==
    /\ In("W_SEEKTAB_SPACE")
    /\ IF o.pts = <<>> THEN Goto("W_FRAMES")
       ELSE Put("DATA", <<Meta0("space", FALSE)>>, [o EXCEPT !.st = "W_FRAMES"])
WFrames ==
    /\ In("W_FRAMES")
    /\ IF o.nsamps = File.samples THEN Goto("W_SEEK0") ELSE Ret("MORE", o)
WFrame(n, len) ==
    /\ o.ret = "MORE" /\ o.nsamps + n <= File.samples
    /\ LET pts == flac_seektab_add(o.pts, o.iskpt, o.nsamps, o.frlen, n)
       IN  o' = [o EXCEPT !.pts = pts, !.frlen = @ + len, !.nsamps = @ + n, !.ret = "DATA",
                          !.iskpt = @ + Cardinality({i \in DOMAIN pts : i >= o.iskpt /\ pts[i].sample = o.nsamps})]
    /\ w' = [w EXCEPT !.frames = Append(@, Pt(o.nsamps, o.frlen))]
WSeek0 == In("W_SEEK0") /\ IF File.seekable THEN Ret("SEEK", [o EXCEPT !.st = "W_INFO"]) ELSE Ret("DONE", o)
WInfo == /\ In("W_INFO")
         /\ LET oo == [o EXCEPT !.total = o.nsamps]
            IN  IF o.pts = <<>> THEN Ret("DONE", oo) ELSE Ret("DATA", [oo EXCEPT !.st = "W_SEEKTAB_SEEK"])
WSeekTabSeek == In("W_SEEKTAB_SEEK") /\ Ret("SEEK", [o EXCEPT !.st = "W_SEEKTAB_WRITE"])
WSeekTab ==
    /\ In("W_SEEKTAB_WRITE")
    /\ o' = [o EXCEPT !.ret = "DONE"]
    /\ w' = [w EXCEPT !.tab = flac_seektab_write(o.pts), !.blocks[Len(w.blocks)] = Meta0("tab", TRUE)]

Write == WHdr \/ WPic \/ WSeekTabSpace \/ WFrames \/ WSeek0 \/ WInfo \/ WSeekTabSeek \/ WSeekTab
WNext == Write \/ (\E n, len \in 1..2 : WFrame(n, len)) \/ Call({"DATA", "SEEK"})
WSpec == WInit /\ [][WNext]_vars

(* The file that was written can be read: the last of the blocks and only  *)
(* that one says so, and the points of the seek table are first samples of *)
(* frames at their offsets, in order.                                      *)
FileTrue ==
    o.ret = "DONE" =>
        /\ \A i \in DOMAIN w.blocks : w.blocks[i].last <=> i = Len(w.blocks)
        /\ Range(w.tab) \subseteq Range(w.frames)
        /\ \A i, j \in DOMAIN w.tab : i < j => w.tab[i].sample < w.tab[j].sample
=============================================================================
