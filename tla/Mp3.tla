-------------------------------- MODULE Mp3 --------------------------------
(***************************************************************************)
(* The MPEG reader of FF/aformat/ffmp3.c.  ffmpg_read() takes the tags     *)
(* and then calls ffmpg_readframe() for every frame; each of the latter's  *)
(* states returns, so it is an operator here: the object after the call,   *)
(* its result and the frame.                                               *)
(*                                                                         *)
(* File.mpg is the set of frames [off, len, kind, xing]: kind is what must *)
(* be the same in all headers of a stream, xing tells the frame that holds *)
(* only the Xing tag.  The file begins with File.id3 bytes of ID3v2 and    *)
(* ends with File.ape bytes of APE tag and File.id31 of ID3v1.  A frame    *)
(* has one sample.                                                         *)
(***************************************************************************)
EXTENDS Stream

CONSTANTS Hdr,                  \* length of a frame's header
          ChkSize,              \* MPG_FTRTAGS_CHKSIZE
          MaxNoSync, SkipFrames, \* MAX_NOSYNC, SEEK_SKIPFRAMES
          Id3Hdr,               \* sizeof(ffid3_hdr)
          MaxSeeks, SeekOn

None == <<>>
Reader == [rst |-> "R_HDR", buf2 |-> <<>>, fr_body |-> FALSE, frame2 |-> FALSE,
           lostsync |-> FALSE, skipped |-> 0, kind |-> "none", dataoff |-> 0,
           total_size |-> 0, total_samples |-> 0, seek_sample |-> 0]

At(b) == CHOOSE f \in File.mpg : f.off = b
Is(b) == \E f \in File.mpg : f.off = b

-----------------------------------------------------------------------------
(* _ffmpg_frame(): a whole frame into buffer b.                            *)
bodyGot(oo, b, g, len) ==
    LET x == [oo EXCEPT ![b] = g.buf, !.in = g.in, !.off = @ + Len(oo.in) - Len(g.in)]
    IN  IF Len(g.buf) < len THEN [r |-> "MORE", o |-> [x EXCEPT !.fr_body = TRUE]]
        ELSE [r |-> IF oo.lostsync THEN "WARN" ELSE "OK",
              o |-> [x EXCEPT !.fr_body = FALSE, !.lostsync = FALSE]]
body(oo, b, len) == bodyGot(oo, b, gather(oo[b], oo.in, len), len)

frameGot(oo, b, g) ==
    LET x == [oo EXCEPT ![b] = g.buf, !.in = g.in, !.off = @ + Len(oo.in) - Len(g.in)]
        skipped == oo.skipped + Len(oo.in)
    IN  IF g.r = "MORE" THEN [r |-> IF skipped > MaxNoSync THEN "ERR" ELSE "MORE",
                              o |-> [x EXCEPT !.skipped = skipped]]
        ELSE body([x EXCEPT !.lostsync = @ \/ g.n # 0, !.skipped = 0], b, At(g.buf[1]).len)
frame(oo, b) ==
    LET find == [c \in 0..File.size |-> IF Is(c) /\ oo.kind \in {"none", At(c).kind} THEN Hdr ELSE 0]
    IN  IF oo.fr_body THEN body(oo, b, At(oo[b][1]).len)
        ELSE frameGot(oo, b, ffbuf_gather(oo[b], oo.in, Hdr, find))

(* _ffmpg_frame2(): two frames of a kind in sequence; "run" to try again.  *)
secondGot(r, x) ==
    CASE r \in {"MORE", "ERR"} -> [r |-> r, o |-> x]
      [] r = "OK" /\ At(x.buf[1]).kind = At(x.buf2[1]).kind ->
           [r |-> "OK", o |-> [x EXCEPT !.buf = @ \o x.buf2, !.buf2 = <<>>, !.frame2 = FALSE]]
      [] OTHER -> [r |-> "run", o |-> [x EXCEPT !.buf = x.buf2, !.buf2 = <<>>]]
second(oo) == LET got(b) == secondGot(b.r, b.o) IN got(frame([oo EXCEPT !.frame2 = TRUE], "buf2"))
frame2(oo) ==
    LET first(a) == IF a.r \in {"MORE", "ERR"} THEN a ELSE second(a.o)
    IN  IF oo.frame2 THEN second(oo) ELSE first(frame(oo, "buf"))

-----------------------------------------------------------------------------
(* mpg_getseekoff(), without a seek table.                                 *)
seekoff(oo) ==
    oo.dataoff + ((oo.total_size - oo.dataoff) * Max({oo.seek_sample - 1, 0})) \div oo.total_samples

First(buf) == SubSeq(buf, 1, At(buf[1]).len)
Second(buf) == Shift(buf, At(buf[1]).len)
Got(r, fr, oo) == [r |-> r, fr |-> fr, o |-> oo]

(* R_HDR, with _ffmpg_streaminfo(): the first frame may be a Xing tag.     *)
hdrGot(x, xing) ==
    LET hdr == IF xing THEN Second(x.buf) ELSE First(x.buf)
    IN  Got(IF xing THEN "XING" ELSE "HDR", First(x.buf),
            [x EXCEPT !.dataoff = hdr[1], !.kind = At(hdr[1]).kind,
                      !.total_samples = Cardinality({m \in File.mpg : ~m.xing}),
                      !.rst = IF xing THEN "R_HDR2" ELSE "R_FR2"])
readHdr(f) == IF f.r # "OK" THEN Got(f.r, None, f.o) ELSE hdrGot(f.o, At(f.o.buf[1]).xing)

readSeek(oo) ==
    LET x == [oo EXCEPT !.buf = <<>>, !.seek_sample = Max({@ - SkipFrames, 0})]
    IN  IF oo.seek_sample >= oo.total_samples THEN Got("ERR", None, oo)
        ELSE Got("SEEK", None, [x EXCEPT !.off = seekoff(x), !.rst = "R_FRAME2"])

readFrame2(f) == IF f.r # "OK" THEN Got(f.r, None, f.o)
                 ELSE Got("FRAME", f.o.buf, [f.o EXCEPT !.rst = "R_FR2"])

(* R_FR: up to the end of the audio; an unknown total_size is 0 and the    *)
(* difference wraps around.                                                *)
readFr(oo) ==
    LET in == IF oo.total_size = 0 THEN oo.in
              ELSE SubSeq(oo.in, 1, Min({Len(oo.in), oo.total_size - oo.off}))
        got(f) == IF f.r # "OK" THEN Got(f.r, None, f.o)
                  ELSE Got("FRAME", f.o.buf, [f.o EXCEPT !.buf = <<>>])
    IN  IF oo.off = oo.total_size THEN Got("DONE", None, oo)
        ELSE got(frame([oo EXCEPT !.in = in], "buf"))

ffmpg_readframe(oo) ==
    CASE oo.rst = "R_HDR"    -> readHdr(frame2(oo))
      [] oo.rst = "R_HDR2"   -> Got("HDR", None, [oo EXCEPT !.rst = "R_FR2"])
      [] oo.rst = "R_SEEK"   -> readSeek(oo)
      [] oo.rst = "R_FRAME2" -> readFrame2(frame2(oo))
      [] oo.rst = "R_FR2"    -> Got("FRAME", Second(oo.buf), [oo EXCEPT !.buf = <<>>, !.rst = "R_FR"])
      [] oo.rst = "R_FR"     -> readFr(oo)

(* ffmpg_rseek()                                                           *)
ffmpg_rseek(oo, sample) ==
    [oo EXCEPT !.seek_sample = sample, !.buf = <<>>, !.in = <<>>, !.rst = "R_SEEK"]

-----------------------------------------------------------------------------
(* ffmpg_read(): o.tag is what an APE tag is read from.                    *)
Init ==
    /\ \E f \in Files :
         /\ o = [Object @@ Reader @@ [tag |-> <<>>, ape |-> "I_FTR", id31 |-> f.id31 > 0]
                   EXCEPT !.st = "START", !.total_size = f.size]
         /\ w = [seeks |-> 0] @@ Caller(f)

Start == In("START") /\ Goto("ID3V2")

(* mpg_id32(): all of the tag, whose header tells where the audio begins;  *)
(* the parser may find an error at its end.                                *)
Id32 ==
    /\ In("ID3V2")
    /\ LET n == SkipIn(File.id3 - o.off)
           oo == [o EXCEPT !.in = Shift(@, n), !.off = @ + n, !.dataoff = File.id3]
       IN CASE o.in = <<>> -> Ret("MORE", o)
            [] o.in # <<>> /\ o.off + n = File.id3 /\ n # 0 /\ File.id3bad ->
                 Ret("WARN", [oo EXCEPT !.st = "FTRTAGS_CHECK"])
            [] o.in # <<>> /\ o.off + n = File.id3 /\ n # 0 /\ ~File.id3bad -> Ret("ID32", oo)
            [] o.in # <<>> /\ o.off + n < File.id3 -> Ret("MORE", oo)
            [] OTHER -> Go([o EXCEPT !.st = "FTRTAGS_CHECK"])

Check(n) == Min({ChkSize, n})
FtrTagsCheck ==
    In("FTRTAGS_CHECK") /\ Ret("SEEK", [o EXCEPT !.off = File.size - Check(File.size), !.st = "FTRTAGS"])
FtrTags ==
    /\ In("FTRTAGS")
    /\ LET g == gather(o.buf, o.in, Check(o.total_size))
           oo == [o EXCEPT !.buf = g.buf, !.in = g.in, !.off = @ + Len(o.in) - Len(g.in)]
       IN  IF Len(g.buf) < Check(o.total_size) THEN Ret("MORE", oo) ELSE Go([oo EXCEPT !.st = "ID31"])

(* mpg_id31(): its fields, then the end of the file without it.            *)
Id31 ==
    /\ In("ID31")
    /\ LET n == File.id31
       IN CASE Len(o.buf) < n \/ n = 0 -> Goto("APE2")
            [] Len(o.buf) >= n /\ n > 0 /\ o.id31 -> Ret("ID31", [o EXCEPT !.id31 = FALSE])
            [] OTHER -> Go([o EXCEPT !.buf = SubSeq(@, 1, Len(@) - n), !.total_size = @ - n,
                                     !.off = @ - n, !.st = "APE2"])

(* _ffmpg_apetag() and ffapetag_parse(): the footer tells the length; a    *)
(* tag that is longer than what was read is collected by itself.           *)
Ape2More == In("APE2_MORE") /\ Go([o EXCEPT !.buf = o.in, !.st = "APE2"])
ApeFooter ==
    /\ In("APE2") /\ o.ape = "I_FTR"
    /\ LET size == File.ape
           oo == [o EXCEPT !.total_size = @ - size]
       IN CASE size = 0 -> Goto("TAG_SKIP")
            [] size > Len(o.buf) -> Ret("SEEK", [oo EXCEPT !.off = @ - size, !.ape = "I_COPYTAG",
                                                           !.st = "APE2_MORE"])
            [] OTHER -> Go([oo EXCEPT !.tag = Shift(o.buf, Len(o.buf) - size), !.ape = "I_HDR"])
ApeCopy ==
    /\ In("APE2") /\ o.ape = "I_COPYTAG"
    /\ LET g == gather(o.tag, o.buf, File.ape)
       IN  IF Len(g.buf) < File.ape
           THEN Ret("MORE", [o EXCEPT !.tag = g.buf, !.in = <<>>, !.st = "APE2_MORE"])
           ELSE Go([o EXCEPT !.tag = g.buf, !.ape = "I_HDR"])
ApeFields ==
    CASE o.ape = "I_HDR" /\ File.apebad -> Ret("WARN", [o EXCEPT !.st = "TAG_SKIP"])
      [] o.ape = "I_HDR" /\ ~File.apebad -> Ret("APETAG", [o EXCEPT !.ape = "I_FLD"])
      [] OTHER -> Goto("TAG_SKIP")
Ape == In("APE2") /\ o.ape \in {"I_HDR", "I_FLD"} /\ ApeFields

TagSkip == In("TAG_SKIP") /\ Ret("SEEK", [o EXCEPT !.buf = <<>>, !.off = o.dataoff, !.st = "FR"])

Frame(f) == IF f.fr = None THEN Ret(f.r, f.o)
            ELSE Out(f.r, [first |-> f.fr[1], last |-> f.fr[Len(f.fr)]], f.o)
Fr == In("FR") /\ Frame(ffmpg_readframe(o))

Read == \/ Start \/ Id32 \/ FtrTagsCheck \/ FtrTags \/ Id31 \/ Ape2More \/ ApeFooter
        \/ ApeCopy \/ Ape \/ TagSkip \/ Fr

Seek == /\ o.ret \in SeekOn /\ o.st = "FR" /\ w.seeks < MaxSeeks
        /\ \E s \in 0..(o.total_samples - 1) : o' = [ffmpg_rseek(o, s) EXCEPT !.ret = "run"]
        /\ w' = [w EXCEPT !.seeks = @ + 1, !.out = <<>>]

Next == \/ Read \/ Feed \/ Move \/ Seek
        \/ Call({"WARN", "ID31", "ID32", "APETAG", "XING", "HDR", "FRAME"})
Spec == Init /\ [][Next]_vars

-----------------------------------------------------------------------------
(* The tag that is parsed is the APE tag, all of it.                       *)
TagTrue == o.ret = "APETAG" => o.tag = Bytes(File.size - File.id31 - File.ape, File.ape)

(* The frames follow each other in the file, whole, and none is skipped    *)
(* (after a seek two come at once, and the second again).                  *)
NoneSkipped ==
    /\ \A k \in DOMAIN w.out : Is(w.out[k].first) /\ \E f \in File.mpg : f.off + f.len - 1 = w.out[k].last
    /\ \A k \in 1..(Len(w.out) - 1) : /\ w.out[k + 1].first <= w.out[k].last + 1
                                      /\ w.out[k + 1].last >= w.out[k].last
AllRead == o.ret = "DONE" => Last(w.out).last = Max({f.off + f.len : f \in File.mpg}) - 1

-----------------------------------------------------------------------------
(* ffmpg_copy(): the reader's frames go to the writer, ffmpg_writeframe(), *)
(* and the tags around them are copied.  Its input is in cin and its file  *)
(* position in coff: the reader's own off does not follow the moves that   *)
(* ffmpg_copy() asks for.                                                  *)
(*                                                                         *)
(* File.seekable tells whether the caller has set the reader's total_size, *)
(* File.wxing that FFMPG_WRITE_XING is on; both ID3 options are on.        *)
CopyInit ==
    \E f \in Files :
      /\ o = [Object @@ Reader @@ [cin |-> <<>>, cbuf |-> <<>>, coff |-> 0, id31 |-> FALSE, fr |-> None,
                                   wst |-> "W_FRAME1", fin |-> FALSE, outoff |-> -1]
               EXCEPT !.st = "START", !.total_size = IF f.seekable THEN f.size ELSE 0]
      /\ w = [cut |-> FALSE] @@ Caller(f)

CopyStart == In("START") /\ Go(Want(o, Id3Hdr, "ID32_HDR"))

CopyGather ==
    /\ In("GATHER")
    /\ LET got(g) == IF Len(g.buf) < o.gsize THEN Ret("MORE", [o EXCEPT !.cbuf = g.buf, !.cin = g.in])
                     ELSE Go([o EXCEPT !.cbuf = g.buf, !.cin = g.in, !.st = o.nx])
       IN  got(gather(o.cbuf, o.cin, o.gsize))

(* A tag goes to the output; else what was read is the begin of the audio. *)
CopyId32Hdr ==
    /\ In("ID32_HDR")
    /\ IF File.id3 > 0
       THEN Ret("ID32", [o EXCEPT !.gsize = File.id3 - Id3Hdr, !.dataoff = File.id3,
                                  !.off = @ + File.id3, !.cbuf = <<>>, !.st = "ID32_DATA"])
       ELSE Go([o EXCEPT !.in = o.cbuf, !.cbuf = <<>>, !.st = "FR1"])
CopyId32Data ==
    /\ In("ID32_DATA")
    /\ LET n == Min({Len(o.cin), o.gsize})
       IN CASE o.gsize = 0 -> Go([o EXCEPT !.st = "DATA", !.nx = "FR1"])
            [] o.gsize # 0 /\ o.cin = <<>> -> Ret("MORE", o)
            [] OTHER -> Ret("ID32", [o EXCEPT !.gsize = @ - n, !.cin = Shift(@, n)])

(* Look for the tag at the end, then to where the audio is to begin.       *)
CopyFtrTagsSeek ==
    /\ In("FTRTAGS_SEEK")
    /\ IF o.total_size = 0 THEN Go([o EXCEPT !.st = "DATA", !.nx = "FR"])
       ELSE Ret("SEEK", [Want(o, Check(o.total_size), "FTRTAGS") EXCEPT !.coff = o.total_size - ChkSize])
CopyFtrTags ==
    /\ In("FTRTAGS")
    /\ LET oo == [o EXCEPT !.id31 = File.id31 > 0, !.total_size = @ - File.id31, !.cbuf = <<>>,
                           !.st = "DATA", !.nx = "FR"]
       IN  Ret("SEEK", [oo EXCEPT !.coff = seekoff(oo)])
CopyFtrTagsOut ==
    /\ In("FTRTAGS_OUT")
    /\ LET oo == [o EXCEPT !.fin = TRUE, !.st = "FR_OUT"]
       IN  IF o.id31 THEN Ret("ID31", oo) ELSE Go(oo)

CopyData ==
    /\ In("DATA")
    /\ IF o.cin = <<>> THEN Ret("MORE", o)
       ELSE Go([o EXCEPT !.in = o.cin, !.cin = <<>>, !.st = o.nx])

-----------------------------------------------------------------------------
(* CPY_FR, CPY_FR1: what the reader returns.                               *)
OnFrame(f) ==
    LET wait == [f.o EXCEPT !.nx = o.st, !.st = "DATA"]
    IN CASE f.r = "MORE"  -> Go(wait)
         [] f.r = "SEEK"  -> Ret("SEEK", [wait EXCEPT !.coff = f.o.off])
         [] f.r = "DONE"  -> Go([f.o EXCEPT !.st = "FTRTAGS_OUT"])
         [] f.r = "HDR"   -> Ret("HDR", [f.o EXCEPT !.st = "FTRTAGS_SEEK"])
         [] f.r = "FRAME" -> Go([f.o EXCEPT !.fr = f.fr, !.st = "FR_OUT"])
         [] OTHER         -> Ret(f.r, f.o)
CopyFr == o.st \in {"FR", "FR1"} /\ In(o.st) /\ OnFrame(ffmpg_readframe(o))

(* CPY_FR_OUT with ffmpg_writeframe(): for the first frame the writer      *)
(* returns an empty Xing frame instead, at the end it fills that in.       *)
WriteFrame ==
    /\ In("FR_OUT") /\ ~o.fin
    /\ IF o.wst = "W_FRAME1" /\ File.wxing
       THEN Ret("FRAME", [o EXCEPT !.wst = "W_FRAME", !.st = "FR"])
       ELSE Out("FRAME", o.fr, [o EXCEPT !.wst = "W_FRAME", !.st = "FR"])
WriteEnd ==
    /\ In("FR_OUT") /\ o.fin
    /\ CASE o.wst \in {"W_FRAME1", "W_FRAME"} ->
              IF File.wxing THEN Ret("OUTSEEK", [o EXCEPT !.wst = "W_XING", !.outoff = File.id3])
              ELSE Ret("DONE", [o EXCEPT !.wst = "W_XING_SEEK"])
         [] o.wst = "W_XING" -> Ret("FRAME", [o EXCEPT !.wst = "W_DONE"])
         [] OTHER -> Ret("DONE", o)

Copy == \/ CopyStart \/ CopyGather \/ CopyId32Hdr \/ CopyId32Data \/ CopyFtrTagsSeek
        \/ CopyFtrTags \/ CopyFtrTagsOut \/ CopyData \/ CopyFr \/ WriteFrame \/ WriteEnd

(* The caller, external; ffmpg_copy_fin() ends the output early.           *)
CopyFeed ==
    /\ o.ret = "MORE" /\ w.pos < File.size
    /\ \E n \in 1..Min({MaxPiece, File.size - w.pos}) :
         /\ o' = [o EXCEPT !.cin = @ \o Bytes(w.pos, n), !.ret = "run"]
         /\ w' = [w EXCEPT !.pos = @ + n]
CopyMove ==
    /\ o.ret = "SEEK"
    /\ o' = [o EXCEPT !.cin = <<>>, !.ret = "run"] /\ w' = [w EXCEPT !.pos = o.coff]
ffmpg_copy_fin ==
    /\ o.ret = "FRAME" /\ ~o.fin
    /\ o' = [o EXCEPT !.st = "FTRTAGS_OUT", !.ret = "run"] /\ w' = [w EXCEPT !.cut = TRUE]

CopyNext == \/ Copy \/ CopyFeed \/ CopyMove \/ ffmpg_copy_fin
            \/ Call({"ID31", "ID32", "XING", "HDR", "FRAME", "OUTSEEK"})
CopySpec == CopyInit /\ [][CopyNext]_vars

-----------------------------------------------------------------------------
(* A frame that is copied is a frame of the file, whole; none is repeated  *)
(* or comes before an earlier one.                                         *)
CopyTrue == /\ \A i \in DOMAIN w.out : \E k \in DOMAIN File.frames : w.out[i] = File.frames[k]
            /\ \A i, j \in DOMAIN w.out : i < j => w.out[i][1] < w.out[j][1]
=============================================================================
