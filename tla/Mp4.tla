-------------------------------- MODULE Mp4 ---------------------------------
(***************************************************************************)
(* The MP4 reader of FF/mformat/ffmp4.c: ffmp4_read() is a loop over       *)
(* m->state; an action is one case of it.  Boxes are within boxes: o.boxes *)
(* is the stack of open ones, with the bytes left of each (size) and the   *)
(* kinds of child that were seen (used).  Unlike the other readers,        *)
(* o.off counts the bytes in o.buf as well.                                *)
(*                                                                         *)
(* The file is [size, boxes: set of [type, off, hdr, size], chunktab,      *)
(* sktab, frames]: size is the whole box, hdr its header (Hdr, or Hdr64    *)
(* for a 64-bit size); the tables are those the sample boxes hold, frames  *)
(* the ranges of bytes that the frames really have.                        *)
(***************************************************************************)
EXTENDS Stream

CONSTANTS
    Hdr, Hdr64,
    Kinds,      \* mp4_ctx_*: context -> box -> [min, whole, req, multi, prio, kids]
    Depth,      \* boxes the object has room for
    MaxSeeks, SeekOn,
    MaxOff,     \* (uint)-1, in cells of the writer
    U64         \* 2^64, for samples

UINT == 1000                    \* (uint64)-1
Root == [type |-> "root", osize |-> 0, size |-> UINT, kids |-> "global", used |-> {},
         prio |-> 0, whole |-> FALSE]

Init ==
    /\ o = [st |-> "BOXREAD", boxes |-> <<Root>>, meta_closed |-> FALSE, tab |-> FALSE,
            isamp |-> 0, out |-> <<>>] @@ Object
    /\ \E f \in Files : w = [seeks |-> 0, heads |-> {}] @@ Caller(f)

Top == Len(o.boxes)
Box == o.boxes[Top]

-----------------------------------------------------------------------------
(* R_BOXSKIP.  The content of a box that was collected whole is consumed.  *)
BoxSkip ==
    /\ In("BOXSKIP")
    /\ CASE Box.whole -> Goto("CLOSE")
         [] ~Box.whole /\ Len(o.in) < Box.size ->
              Ret("SEEK", [o EXCEPT !.off = @ + Box.size, !.boxes[Top].size = 0])
         [] OTHER -> Go([Skipped(Box.size) EXCEPT !.st = "CLOSE"])

Required(kids) == {t \in DOMAIN Kinds[kids] : Kinds[kids][t].req}

(* mp4_box_close(), repeated while the parent is at its end too; then      *)
(* mp4_meta_closed() if moov was among them.                               *)
BoxClose ==
    /\ In("CLOSE")
    /\ LET left == o.boxes[Top - 1].size - Box.osize
           meta == o.meta_closed \/ Box.type = "moov"
           oo == [o EXCEPT !.boxes = [SubSeq(@, 1, Top - 1) EXCEPT ![Top - 1].size = left],
                           !.meta_closed = meta]
       IN CASE Box.kids # "none" /\ ~(Required(Box.kids) \subseteq Box.used) -> Ret("ERR", o)
            [] left = 0 -> Go(oo)
            [] meta /\ ~o.tab -> Ret("ERR", oo)
            [] meta -> Ret("HDR", [oo EXCEPT !.meta_closed = FALSE, !.st = "METAFIN"])
            [] OTHER -> Go([oo EXCEPT !.st = "BOXREAD"])

MetaFin == In("METAFIN") /\ Ret("METAFIN", [o EXCEPT !.st = "DATA"])

WholeData ==
    /\ In("WHOLEDATA")
    /\ LET g == gather(o.buf, o.in, o.gsize)
           oo == [o EXCEPT !.buf = g.buf, !.in = g.in, !.off = @ + Len(o.in) - Len(g.in)]
       IN IF Len(g.buf) < o.gsize \/ o.in = <<>> THEN Ret("MORE", oo)
          ELSE Go([oo EXCEPT !.st = o.nx])

Whole(oo, n, nx) == [oo EXCEPT !.gsize = n, !.st = "WHOLEDATA", !.nx = nx]

BoxRead == In("BOXREAD") /\ Go(Whole(o, Hdr, "BOX_PARSE"))

BoxAt(bytes) ==
    LET hit == {b \in File.boxes : SubSeq(bytes, 1, Hdr) = Bytes(b.off, Hdr)}
    IN  IF hit = {} THEN [type |-> "junk", off |-> -1, hdr |-> Hdr, size |-> Hdr]
        ELSE CHOOSE b \in hit : TRUE

(* mp4_box_parse(): what the header says and what its context knows.       *)
mp4_box_parse(b) ==
    IF b.type \in DOMAIN Kinds[Box.kids]
    THEN Kinds[Box.kids][b.type] @@ [type |-> b.type, osize |-> b.size, size |-> b.size - b.hdr,
                                    used |-> {}, known |-> TRUE]
    ELSE [type |-> b.type, osize |-> b.size, size |-> b.size - b.hdr, used |-> {}, known |-> FALSE,
          min |-> 0, whole |-> FALSE, req |-> FALSE, multi |-> TRUE, prio |-> 0, kids |-> "none"]

Entry(x) == [type |-> x.type, osize |-> x.osize, size |-> x.size, kids |-> x.kids,
             used |-> {}, prio |-> 0, whole |-> x.whole]

(* R_BOX_PARSE: an error, the 64-bit size, a duplicate, or a box to be     *)
(* collected as far as its kind says.                                      *)
BoxParse ==
    /\ In("BOX_PARSE")
    /\ LET b == BoxAt(o.buf)
           x == mp4_box_parse(b)
           need == IF x.whole THEN x.size ELSE x.min
           dup == x.known /\ x.type \in Box.used /\ ~x.multi
           pushed == [o EXCEPT !.boxes = [@ EXCEPT ![Top].used = @ \cup {x.type},
                                                   ![Top].prio = IF x.prio # 0 THEN x.prio ELSE @]
                                         \o <<Entry(x)>>, !.buf = <<>>]
           late == x.prio > Box.prio + 1
       IN IF b.hdr # Len(o.buf) THEN Go(Whole(o, Hdr64, "BOX_PARSE"))
          ELSE /\ w' = [w EXCEPT !.heads = @ \cup {o.buf[1]}]
               /\ o' = CASE x.osize > Box.size \/ (~dup /\ (late \/ x.size < x.min)) ->
                              [pushed EXCEPT !.ret = "ERR"]
                         [] x.osize <= Box.size /\ dup ->
                              [pushed EXCEPT !.boxes[Top].prio = Box.prio, !.st = "BOXSKIP",
                                             !.ret = "WARN"]
                         [] OTHER -> IF need = 0 THEN [pushed EXCEPT !.st = "BOXPROCESS"]
                                     ELSE Whole([pushed EXCEPT !.boxes[Top + 1].size = @ - need],
                                                need, "BOXPROCESS")

(* R_BOXPROCESS and mp4_box_process(): the sample tables, a tag, another.  *)
BoxProcess ==
    /\ In("BOXPROCESS")
    /\ LET oo == [o EXCEPT !.buf = <<>>, !.tab = @ \/ Box.type = "stbl",
                           !.st = IF Box.kids = "none" THEN "BOXSKIP" ELSE "BOXREAD"]
       IN IF Box.type = "data" THEN Ret("TAG", [oo EXCEPT !.st = "BOXSKIP"]) ELSE Go(oo)

(* mp4_data(): the offset of the chunk and the frames before it in there.  *)
mp4_data(i) ==
    LET c == File.sktab[i + 1].chunk
        before == {k \in 1..i : File.sktab[k].chunk = c}
    IN  File.chunktab[c + 1] + MapThenSumSet(LAMBDA k : File.sktab[k].size, before)

Data ==
    /\ In("DATA")
    /\ IF o.isamp = Len(File.sktab) THEN Ret("DONE", o)
       ELSE LET off == mp4_data(o.isamp)
                oo == Whole([o EXCEPT !.isamp = @ + 1], File.sktab[o.isamp + 1].size, "DATAREAD")
            IN  IF off # o.off THEN Ret("SEEK", [oo EXCEPT !.off = off]) ELSE Go(oo)

DataRead == In("DATAREAD") /\ Ret("DATA", [o EXCEPT !.buf = <<>>, !.out = o.buf, !.st = "DATA"])

Read == \/ BoxSkip \/ BoxClose \/ MetaFin \/ WholeData \/ BoxRead \/ BoxParse \/ BoxProcess
        \/ Data \/ DataRead

(* ffmp4_seek(), to any frame or beyond the last; mp4_seek() finds it.     *)
ffmp4_seek ==
    /\ o.ret \in SeekOn /\ w.seeks < MaxSeeks
    /\ \E i \in 0..Len(File.sktab) : o' = [o EXCEPT !.isamp = i, !.st = "DATA", !.ret = "run"]
    /\ w' = [w EXCEPT !.seeks = @ + 1]

Next == Read \/ Feed \/ Move \/ Call({"TAG", "HDR", "METAFIN", "WARN", "DATA"}) \/ ffmp4_seek
Spec == Init /\ [][Next]_vars

-----------------------------------------------------------------------------
(* Boxes stay within the room for them; what is left of one is not less    *)
(* than nothing, whatever its children took.                               *)
TypeOK == /\ Len(o.boxes) \in 1..Depth
          /\ \A i \in DOMAIN o.boxes : o.boxes[i].size \in 0..UINT

(* Only bytes that are the header of a box are taken for one.              *)
HeadersFound == \A a \in w.heads : \E b \in File.boxes : b.off = a

(* A frame that is returned is the frame isamp numbers, every byte of it.  *)
FrameAt == o.ret = "DATA" =>
              o.out = Bytes(File.frames[o.isamp].off, File.frames[o.isamp].size)

(* FF_ASSERT(r != 0 || len == 0) of ffarr_append_until().                  *)
CollectTakes == In("WHOLEDATA") /\ o.in # <<>> => Len(o.buf) < o.gsize

-----------------------------------------------------------------------------
(***************************************************************************)
(* The MP4 writer, and the tables of samples of FF/mformat/ffmp4-fmt.c:    *)
(* ffmp4_write() is a loop over m->state.                                  *)
(*                                                                         *)
(* What is written is a sequence of cells [k, v, at]: the size of a box,   *)
(* its type, the 4 bytes of a fullbox, a number, an entry of a table, one  *)
(* byte of a frame (byte at of frame v).  A position counts cells.         *)
(*                                                                         *)
(* File is what the caller of the writer has: total (0 if it does not know *)
(* it), delay, rate, fs (samples of a frame), lens, the lengths of the     *)
(* frames to come, and tags, a sequence of [id, v].                        *)
(***************************************************************************)
Cell(k, v) == [k |-> k, v |-> v, at |-> 0]
Cells(k, vals) == [i \in DOMAIN vals |-> Cell(k, vals[i])]

(* mp4_ctx_*: the boxes of a context, in their order; the last one is that *)
(* with F_LAST.  own is what a box holds besides others.                   *)
Bx(type, t, flags, kids) == [type |-> type, t |-> t, flags |-> flags, kids |-> kids]
Tag(type, id) == Bx(type, id, {"TAG"}, "data")
Full == {"FULL"}
FullReq == {"FULL", "REQ"}
Ctx ==
    [global |-> <<Bx("ftyp", "FTYP", {}, "none"), Bx("moov", "ANY", {}, "moov"), Bx("mdat", "MDAT", {}, "none")>>,
     stream |-> <<Bx("ftyp", "FTYP", {}, "none"), Bx("mdat", "MDAT", {}, "none"), Bx("moov", "ANY", {}, "moov")>>,
     moov |-> <<Bx("mvhd", "MVHD", FullReq, "none"), Bx("trak", "ANY", {}, "trak"), Bx("udta", "ANY", {}, "udta")>>,
     trak |-> <<Bx("tkhd", "TKHD", FullReq, "none"), Bx("mdia", "ANY", {}, "mdia")>>,
     mdia |-> <<Bx("hdlr", "HDLR", FullReq, "none"), Bx("mdhd", "MDHD", FullReq, "none"), Bx("minf", "ANY", {}, "minf")>>,
     minf |-> <<Bx("smhd", "ANY", Full, "none"), Bx("dinf", "ANY", {"REQ"}, "dinf"), Bx("stbl", "ANY", {}, "stbl")>>,
     dinf |-> <<Bx("dref", "DREF", FullReq, "dref")>>,
     dref |-> <<Bx("url ", "DREF_URL", Full, "none")>>,
     stbl |-> <<Bx("stsd", "STSD", FullReq, "stsd"), Bx("co64", "CO64", Full, "none"), Bx("stco", "STCO", Full, "none"),
                Bx("stsc", "STSC", FullReq, "none"), Bx("stsz", "STSZ", FullReq, "none"), Bx("stts", "STTS", FullReq, "none")>>,
     stsd |-> <<Bx("alac", "STSD_ALAC", {}, "alac"), Bx("avc1", "STSD_AVC1", {}, "none"), Bx("mp4a", "STSD_MP4A", {}, "mp4a")>>,
     alac |-> <<Bx("alac", "ALAC", FullReq, "none")>>,
     mp4a |-> <<Bx("esds", "ESDS", FullReq, "none")>>,
     udta |-> <<Bx("meta", "ANY", Full, "meta")>>,
     meta |-> <<Bx("ilst", "ANY", {}, "ilst")>>,
     ilst |-> <<Tag("aART", "albumartist"), Tag("covr", "0"), Tag("cprt", "copyright"), Tag("desc", "0"),
                Tag("disk", "discnumber"), Tag("gnre", "genre_id31"), Tag("trkn", "trackno"), Tag("@alb", "album"),
                Tag("@ART", "artist"), Tag("@cmt", "comment"), Tag("@day", "date"), Tag("@enc", "0"),
                Tag("@gen", "genre"), Tag("@lyr", "lyrics"), Tag("@nam", "title"), Tag("@too", "vendor"),
                Tag("@wrt", "composer"), Bx("----", "ITUNES", {}, "itunes")>>,
     data |-> <<Bx("data", "ILST_DATA", {}, "none")>>,
     itunes |-> <<Bx("mean", "ITUNES_MEAN", Full, "none"), Bx("name", "ITUNES_NAME", Full, "none"),
                  Bx("data", "ITUNES_DATA", {}, "none")>>]

Ceil(n, by) == by * ((n + by - 1) \div by)

-----------------------------------------------------------------------------
(* The tables.  An entry of stts or stsc is a cell for each of its fields. *)
mp4_stts_write(total, framelen) ==
    LET whole == IF total \div framelen = 0 THEN <<>> ELSE <<total \div framelen, framelen>>
        rest == IF total % framelen = 0 THEN <<>> ELSE <<1, total % framelen>>
    IN  Cells("n", <<Len(whole \o rest) \div 2>> \o whole \o rest)

mp4_stsc_write(total, fs, chunk_samples) ==
    LET frames == total \div fs + (IF total % fs # 0 THEN 1 ELSE 0)
        per == chunk_samples \div fs
        whole == IF frames \div per = 0 THEN <<>> ELSE <<1, per, 1>>
        rest == IF frames % per = 0 THEN <<>> ELSE <<frames \div per + 1, frames % per, 1>>
    IN  Cells("n", <<Len(whole \o rest) \div 3>> \o whole \o rest)

mp4_stsz_size(frames) == 2 + frames
mp4_stco_size(chunks) == 1 + chunks
Zeroes(n) == [i \in 1..n |-> Cell("n", 0)]

(* The buffer d of stsz or stco has its count in cell c.                   *)
Added(d, c, v) ==
    LET n == d[c].v
        grown == d \o Zeroes(c + n + 1 - Len(d))
    IN  [grown EXCEPT ![c] = Cell("n", n + 1), ![c + n + 1] = Cell("n", v)]
mp4_stsz_add(d, frsize) == Added(d, 2, frsize)
mp4_stco_add(d, off) == Added(d, 1, off)

-----------------------------------------------------------------------------
(* ffmp4_create_aac().                                                     *)
WInit ==
    \E f \in Files :
       LET stream == f.total = 0
           total == IF stream THEN 0 ELSE Ceil(f.total + f.delay, f.fs)
       IN /\ w = [file |-> f, pos |-> 0, cells |-> <<>>, given |-> 0, tagged |-> 0]
          /\ o = [st |-> "META", ret |-> "READY", stream |-> stream, total |-> total,
                  pad |-> IF stream THEN 0 ELSE total - (f.total + f.delay), nframes |-> total \div f.fs,
                  chunk_frames |-> (f.rate \div 2) \div f.fs, chunk_curframe |-> 0, frameno |-> 0,
                  ctx |-> <<[name |-> IF stream THEN "stream" ELSE "global", i |-> 1]>>, boxoff |-> <<0>>,
                  buf |-> <<>>, off |-> 0, stsz |-> <<>>, stco |-> <<>>, stsz_off |-> 0, stco_off |-> 0,
                  mdat_off |-> 0, mdat_size |-> 0, tags |-> <<>>, trkn |-> [num |-> 0, total |-> 0],
                  curtag |-> [id |-> "none", v |-> 0], data |-> 0, fin |-> FALSE]

(* ffmp4_addtag().  A tag that no box has, or a disc number, is refused.   *)
mp4_ilst_find(id) == \E i \in DOMAIN Ctx.ilst : Ctx.ilst[i].t = id
ffmp4_addtag ==
    /\ o.ret = "READY" /\ w.tagged < Len(File.tags)
    /\ LET t == File.tags[w.tagged + 1]
       IN  o' = CASE t.id = "trackno" -> [o EXCEPT !.trkn.num = t.v]
                  [] t.id = "tracktotal" -> [o EXCEPT !.trkn.total = t.v]
                  [] t.id = "discnumber" \/ (t.id # "tracktotal" /\ ~mp4_ilst_find(t.id)) -> o
                  [] OTHER -> [o EXCEPT !.tags = Append(@, t)]
    /\ w' = [w EXCEPT !.tagged = @ + 1]
Begin == o.ret = "READY" /\ w.tagged = Len(File.tags) /\ Go([o EXCEPT !.ret = "run"])

-----------------------------------------------------------------------------
WTop == Len(o.ctx)
Bbox == Ctx[o.ctx[WTop].name][o.ctx[WTop].i]
IsLast == o.ctx[WTop].i = Len(Ctx[o.ctx[WTop].name])

(* The tag a box of ilst is for, if the caller gave it: the first of them. *)
NoTag == [id |-> "none", v |-> 0]
curtag(b) ==
    LET same == SelectSeq(o.tags, LAMBDA t : t.id = b.t)
    IN  CASE "TAG" \notin b.flags \/ b.t = "0" -> o.curtag
          [] b.t = "trackno" /\ (o.trkn.num # 0 \/ o.trkn.total # 0) -> [id |-> "trackno", v |-> 0]
          [] OTHER -> IF same = <<>> THEN NoTag ELSE same[1]

(* _ffmp4_boxdata() returns -1.                                            *)
skipped(b) == b.t \in {"CO64", "STSD_ALAC"} \/ ("TAG" \in b.flags /\ (b.t = "0" \/ curtag(b) = NoTag))

(* The tables of a file whose length is known are written empty, with room *)
(* for what they will be.                                                  *)
chunks == Ceil(o.nframes, o.chunk_frames) \div o.chunk_frames
stszRoom == IF o.stream THEN o.stsz ELSE Zeroes(mp4_stsz_size(o.nframes))
stcoRoom == IF o.stream THEN o.stco ELSE Zeroes(mp4_stco_size(chunks))

(* mp4_itunes_smpb_write().                                                *)
smpb == Cells("smpb", <<File.delay, o.pad, (o.total - File.delay - o.pad) % U64>>)

_ffmp4_boxdata(b) ==
    CASE b.t \in {"FTYP", "STSD", "HDLR", "STSD_AVC1", "STSD_MP4A", "ESDS", "DREF", "ITUNES_MEAN",
                  "ITUNES_NAME"} \/ b.type = "smhd" -> <<Cell("data", 0)>>
      [] b.t \in {"TKHD", "MVHD", "MDHD"} -> <<Cell("duration", o.total)>>
      [] b.t = "STSC" -> mp4_stsc_write(o.total, File.fs, File.rate \div 2)
      [] b.t = "STTS" -> mp4_stts_write(o.total, File.fs)
      [] b.t = "STSZ" -> stszRoom
      [] b.t = "STCO" -> stcoRoom
      [] b.t = "ILST_DATA" -> IF o.curtag.id = "trackno" THEN Cells("trkn", <<o.trkn.num, o.trkn.total>>)
                              ELSE <<Cell("val", o.curtag.v)>>
      [] b.t = "ITUNES_DATA" -> smpb
      [] OTHER -> <<>>

(* mp4_box_write(), mp4_fbox_write(): the size is that of the box so far.  *)
header(b, n) ==
    IF "FULL" \in b.flags THEN <<Cell("size", n + 3), Cell(b.type, 0), Cell("full", 0)>>
    ELSE <<Cell("size", n + 2), Cell(b.type, 0)>>

Write ==
    LET b == Bbox
        body == _ffmp4_boxdata(b)
        dataoff == Len(o.buf) + Len(header(b, 0))
    IN [o EXCEPT !.curtag = curtag(b), !.buf = @ \o header(b, Len(body)) \o body,
                 !.boxoff = [@ EXCEPT ![WTop] = Len(o.buf)] \o (IF b.kids = "none" THEN <<>> ELSE <<0>>),
                 !.mdat_off = IF b.t = "MDAT" THEN Len(o.buf) ELSE @,
                 !.stsz_off = IF b.t = "STSZ" THEN dataoff ELSE @,
                 !.stco_off = IF b.t = "STCO" THEN dataoff ELSE @,
                 !.stsz = IF b.t = "STSZ" THEN stszRoom ELSE @,
                 !.stco = IF b.t = "STCO" THEN stcoRoom ELSE @,
                 !.ctx = IF b.kids = "none" THEN @ ELSE Append(@, [name |-> b.kids, i |-> 1]),
                 !.st = CASE b.t = "MDAT" /\ o.stream -> "MDAT_HDR"
                          [] b.kids # "none" -> "META"
                          [] OTHER -> "META_NEXT"]
Meta ==
    /\ In("META")
    /\ IF skipped(Bbox)
       THEN Go([o EXCEPT !.curtag = curtag(Bbox), !.boxoff[WTop] = Len(o.buf), !.st = "META_NEXT"])
       ELSE Go(Write)

(* The caller writes what it gets where it is in the file.                 *)
Put(d) == [i \in 1..Max({Len(w.cells), w.pos + Len(d)}) |->
              IF i > w.pos /\ i <= w.pos + Len(d) THEN d[i - w.pos] ELSE w.cells[i]]
Emit(d, oo) ==
    /\ o' = [oo EXCEPT !.ret = "DATA"]
    /\ w' = [w EXCEPT !.cells = Put(d), !.pos = @ + Len(d)]

(* W_META_NEXT: after the last box of a context its parent is as long as   *)
(* all of them.                                                            *)
MetaNext ==
    /\ In("META_NEXT")
    /\ CASE ~IsLast -> Go([o EXCEPT !.ctx[WTop].i = @ + 1, !.st = "META"])
         [] IsLast /\ WTop = 1 ->
              Emit(o.buf, [o EXCEPT !.buf = <<>>, !.off = @ + Len(o.buf),
                                    !.st = IF o.stream THEN "MDAT_SEEK" ELSE "DATA1"])
         [] OTHER -> LET at == o.boxoff[WTop - 1]
                     IN  Go([o EXCEPT !.ctx = Front(@), !.boxoff = Front(@),
                                      !.buf[at + 1] = Cell("size", Len(o.buf) - at)])

MdatHdr ==
    /\ In("MDAT_HDR")
    /\ Emit(o.buf, [o EXCEPT !.stsz = Zeroes(mp4_stsz_size(0)), !.stco = Zeroes(mp4_stco_size(0)),
                             !.buf = <<>>, !.off = @ + Len(o.buf), !.st = "STM_DATA"])

(* A frame: its length, and the offset of the first one of a chunk.        *)
FrameBytes == [i \in 1..o.data |-> [k |-> "frame", v |-> w.given, at |-> i]]
Frame ==
    LET first == o.chunk_curframe = 0
        oo == [o EXCEPT !.stsz = mp4_stsz_add(@, o.data), !.frameno = @ + 1]
    IN  IF first /\ o.off > MaxOff THEN Ret("ERR", oo)
        ELSE Emit(FrameBytes, [oo EXCEPT !.stco = IF first THEN mp4_stco_add(@, o.off) ELSE @,
                      !.chunk_curframe = (@ + 1) % o.chunk_frames, !.off = @ + o.data,
                      !.mdat_size = @ + o.data, !.st = "MORE"])
StmData ==
    /\ In("STM_DATA")
    /\ CASE o.fin -> Go([o EXCEPT !.total = o.frameno * File.fs, !.buf = <<>>, !.st = "META_NEXT"])
         [] ~o.fin /\ o.data = 0 -> Ret("MORE", o)
         [] OTHER -> Frame
Data1 == In("DATA1") /\ Go([o EXCEPT !.tags = <<>>, !.st = "DATA"])
WData ==
    /\ In("DATA")
    /\ CASE o.fin /\ o.frameno # o.nframes -> Ret("ERR", o)
         [] o.fin /\ o.frameno = o.nframes -> Ret("SEEK", [o EXCEPT !.off = o.stsz_off, !.st = "STSZ"])
         [] ~o.fin /\ o.data = 0 -> Ret("MORE", o)
         [] ~o.fin /\ o.data # 0 /\ o.frameno = o.nframes -> Ret("ERR", o)
         [] OTHER -> Frame
More == In("MORE") /\ Ret("MORE", [o EXCEPT !.st = IF o.stream THEN "STM_DATA" ELSE "DATA"])

(* Back to the tables, then to the size of mdat.                           *)
Stsz == In("STSZ") /\ Emit(o.stsz, [o EXCEPT !.st = "STCO_SEEK"])
StcoSeek == In("STCO_SEEK") /\ Ret("SEEK", [o EXCEPT !.off = o.stco_off, !.st = "STCO"])
Stco == In("STCO") /\ Emit(o.stco, [o EXCEPT !.st = "MDAT_SEEK"])
MdatSeek == In("MDAT_SEEK") /\ Ret("SEEK", [o EXCEPT !.off = o.mdat_off, !.st = "MDAT_SIZE"])
MdatSize ==
    In("MDAT_SIZE") /\ Emit(<<Cell("size", o.mdat_size + 2), Cell("mdat", 0)>>, [o EXCEPT !.st = "DONE"])
Done == In("DONE") /\ Ret("DONE", o)

ffmp4_write == \/ Meta \/ MetaNext \/ MdatHdr \/ StmData \/ Data1 \/ WData \/ More
               \/ Stsz \/ StcoSeek \/ Stco \/ MdatSeek \/ MdatSize \/ Done

(* The caller, external: the next frame, or that there is none.            *)
Give ==
    /\ o.ret = "MORE"
    /\ IF w.given < Len(File.lens)
       THEN /\ o' = [o EXCEPT !.data = File.lens[w.given + 1], !.ret = "run"]
            /\ w' = [w EXCEPT !.given = @ + 1]
       ELSE Go([o EXCEPT !.data = 0, !.fin = TRUE, !.ret = "run"])
GoTo == o.ret = "SEEK" /\ o' = [o EXCEPT !.ret = "run"] /\ w' = [w EXCEPT !.pos = o.off]

WNext == ffmp4_write \/ ffmp4_addtag \/ Begin \/ Give \/ GoTo \/ Call({"DATA"})
WSpec == WInit /\ [][WNext]_vars

-----------------------------------------------------------------------------
(* What the reader makes of the tables: d is the content of the box.       *)
Bad == <<-1>>        \* -MP4_EDATA
Vals(d) == [i \in DOMAIN d |-> d[i].v]

(* mp4_stsz(): the sizes of the frames.                                    *)
mp4_stsz(d) ==
    LET n == d[2].v
    IN  CASE Len(d) < 2 + n -> Bad
          [] d[1].v # 0 -> [i \in 1..n |-> d[1].v]
          [] OTHER -> SubSeq(Vals(d), 3, n + 2)

(* mp4_stco(): the offsets of the chunks, which must grow.                 *)
mp4_stco(d) ==
    LET n == d[1].v
        offs == SubSeq(Vals(d), 2, n + 1)
    IN  IF Len(d) < 1 + n \/ \E i \in 2..n : offs[i] < offs[i - 1] THEN Bad ELSE offs

(* mp4_stsc(): the chunk of each of skcnt - 1 frames.  Entry i says how    *)
(* many frames the chunks have from its first one to that of the next      *)
(* entry, or as many as there are frames.                                  *)
mp4_stsc(d, skcnt) ==
    LET n == d[1].v
        first(i) == d[3 * i - 1].v
        per(i) == d[3 * i].v
        isk(i) == MapThenSumSet(LAMBDA j : (first(j + 1) - first(j)) * per(j), 1..(i - 1))
        left == skcnt - 1 - isk(n)
        entry(k) == Max({i \in 1..n : isk(i) < k})
    IN  CASE n = 0 \/ Len(d) < 1 + 3 * n \/ first(1) = 0 -> Bad
          [] \E i \in 2..n : first(i - 1) >= first(i) \/ isk(i) >= skcnt -> Bad
          [] left <= 0 \/ left % per(n) # 0 -> Bad
          [] OTHER -> [k \in 1..(skcnt - 1) |->
                          first(entry(k)) - 1 + (k - 1 - isk(entry(k))) \div per(entry(k))]

(* mp4_stts(): the position of each frame, and of the end behind the last. *)
mp4_stts(d, skcnt) ==
    LET n == d[1].v
        cnt(i) == d[2 * i].v
        delta(i) == d[2 * i + 1].v
        isk(i) == MapThenSumSet(LAMBDA j : cnt(j), 1..(i - 1))
        pos(i) == MapThenSumSet(LAMBDA j : cnt(j) * delta(j), 1..(i - 1))
        entry(k) == Max({i \in 1..n : isk(i) < k})
    IN  IF Len(d) < 1 + 2 * n \/ isk(n + 1) # skcnt - 1 THEN Bad
        ELSE [k \in 1..skcnt |-> IF k = skcnt THEN pos(n + 1)
                                 ELSE pos(entry(k)) + delta(entry(k)) * (k - 1 - isk(entry(k)))]

(* mp4_seek(): bisection between start and n; i is where it looked last.   *)
RECURSIVE bisect(_, _, _, _, _)
bisect(pts, sample, start, n, i) ==
    LET k == start + (n - start) \div 2
    IN  CASE start = n -> IF i = -1 \/ i = Len(pts) - 1 THEN -1 ELSE i
          [] start # n /\ sample = pts[k + 1] -> k
          [] start # n /\ sample < pts[k + 1] -> bisect(pts, sample, start, k, k - 1)
          [] OTHER -> bisect(pts, sample, k + 1, n, k)
mp4_seek(pts, sample) == bisect(pts, sample, 0, Len(pts), -1)

-----------------------------------------------------------------------------
(* The boxes of cells lo + 1 to hi, as a reader finds them that goes from  *)
(* one to the next by their sizes and knows the contexts: none but boxes   *)
(* of that context, and within their parent.                               *)
BadBox == [ctx |-> "bad", type |-> "bad", lo |-> 0, hi |-> 0]
own(b) == IF b.t \in {"STSD", "DREF", "STSD_MP4A"} THEN 1 ELSE 0
RECURSIVE BoxesIn(_, _, _)
BoxesIn(ctx, lo, hi) ==
    LET size == w.cells[lo + 1].v
        known == {i \in DOMAIN Ctx[ctx] : Ctx[ctx][i].type = w.cells[lo + 2].k}
        b == Ctx[ctx][CHOOSE i \in known : TRUE]
        body == lo + Len(header(b, 0))
    IN  CASE lo = hi -> {}
          [] lo # hi /\ (lo + 2 > hi \/ w.cells[lo + 1].k # "size" \/ size < 2) -> {BadBox}
          [] lo # hi /\ (lo + size > hi \/ known = {}) -> {BadBox}
          [] OTHER -> {[ctx |-> ctx, type |-> b.type, lo |-> body, hi |-> lo + size]}
                      \cup BoxesIn(ctx, lo + size, hi)
                      \cup (IF b.kids = "none" THEN {} ELSE BoxesIn(b.kids, body + own(b), lo + size))

Boxes == BoxesIn("global", 0, Len(w.cells))
Content(bs, ctx, type) ==
    LET b == CHOOSE x \in bs : x.ctx = ctx /\ x.type = type
    IN  SubSeq(w.cells, b.lo + 1, b.hi)
Has(bs, ctx, type) == Cardinality({x \in bs : x.ctx = ctx /\ x.type = type}) = 1

(* Boxes nest, each context has what a reader requires of it, and no box   *)
(* but the data of the tags comes twice.                                   *)
Nested(bs) ==
    /\ BadBox \notin bs
    /\ \A x \in bs : x.ctx # "data" => Has(bs, x.ctx, x.type)
    /\ \A c \in {x.ctx : x \in bs} : \A i \in DOMAIN Ctx[c] :
          "REQ" \in Ctx[c][i].flags => Has(bs, c, Ctx[c][i].type)

(* Through the tables a reader finds every frame that was written, byte by *)
(* byte, at its position, and it finds the frame a sample is in.           *)
FramesFound(bs) ==
    LET sizes == mp4_stsz(Content(bs, "stbl", "stsz"))
        n == Len(sizes)
        offs == mp4_stco(Content(bs, "stbl", "stco"))
        ids == mp4_stsc(Content(bs, "stbl", "stsc"), n + 1)
        pts == mp4_stts(Content(bs, "stbl", "stts"), n + 1)
        before(i) == MapThenSumSet(LAMBDA k : sizes[k], {k \in 1..(i - 1) : ids[k] = ids[i]})
    IN  /\ sizes = File.lens /\ offs # Bad /\ ids # Bad /\ pts # Bad
        /\ \A i \in 1..n :
              LET off == offs[ids[i] + 1] + before(i)
              IN  SubSeq(w.cells, off + 1, off + sizes[i]) =
                     [j \in 1..sizes[i] |-> [k |-> "frame", v |-> i, at |-> j]]
        /\ \A s \in 0..(n * File.fs - 1) : mp4_seek(pts, s) = s \div File.fs
        /\ pts[n + 1] = n * File.fs

(* The headers agree on the length, and what iTunes is told of delay and   *)
(* padding leaves the samples the caller announced.                        *)
LengthTold(bs) ==
    /\ \A x \in {<<"moov", "mvhd">>, <<"trak", "tkhd">>, <<"mdia", "mdhd">>} :
          Content(bs, x[1], x[2]) = <<Cell("duration", Len(File.lens) * File.fs)>>
    /\ ~o.stream => Content(bs, "itunes", "data")[3].v = File.total

(* A box for each tag that was accepted, with its first value; one box for *)
(* the number of the track and of all tracks, with their last ones.        *)
TagsKept(bs) ==
    LET given(id) == SelectSeq(File.tags, LAMBDA t : t.id = id)
        number(id) == IF given(id) = <<>> THEN 0 ELSE Last(given(id)).v
        numbers == <<number("trackno"), number("tracktotal")>>
        kept(id) == CASE id = "trackno" -> IF numbers = <<0, 0>> THEN {} ELSE {Cells("trkn", numbers)}
                      [] id # "trackno" /\ (id = "discnumber" \/ given(id) = <<>>) -> {}
                      [] OTHER -> {<<Cell("val", given(id)[1].v)>>}
        valuesIn(x) == {SubSeq(w.cells, y.lo + 1, y.hi) :
                          y \in {z \in bs : z.ctx = "data" /\ z.lo > x.lo /\ z.hi <= x.hi}}
    IN  \A t \in {e \in Range(Ctx.ilst) : "TAG" \in e.flags} :
           UNION {valuesIn(x) : x \in {y \in bs : y.ctx = "ilst" /\ y.type = t.type}} = kept(t.t)

(* What ffmp4_write() has written is a file that a reader reads: both with *)
(* the header before the frames and its tables patched by going back, and  *)
(* with the header behind them.  (A file of no frames has an empty stsc,   *)
(* which mp4_stsc() refuses.)                                              *)
WrittenTrue ==
    o.ret = "DONE" /\ File.lens # <<>> =>
       LET bs == Boxes
       IN  Nested(bs) /\ FramesFound(bs) /\ LengthTold(bs) /\ TagsKept(bs)
=============================================================================
