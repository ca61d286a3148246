------------------------------- MODULE Packed -------------------------------
(***************************************************************************)
(* Archives that are read as one stream: the gzip reader and writer of     *)
(* FF/pack/ffgz.c, the xz reader of FF/pack/ffxz.c, the tar reader and     *)
(* writer of FF/pack/fftar.c.                                              *)
(*                                                                         *)
(* A gzip file: the header (Hdr bytes), File.extra bytes of the extra      *)
(* field, File.name and File.cmt bytes of the name and the comment (0: not *)
(* there), File.hcrc of the header's CRC, the data from File.data, the     *)
(* trailer at File.trl.  An xz file: the header, File.blocks with their    *)
(* headers [off, hdr, data], the index at File.idx and the footer at       *)
(* File.trl.  A tar archive: File.heads are its headers [off, type, size,  *)
(* err, pad], each a block at off; err tells whether fftar_hdr_parse()     *)
(* refuses it and pad whether what fills the last block of its data is     *)
(* zero; a block without a header is zero, unless its offset is in         *)
(* File.dirty.                                                             *)
(*                                                                         *)
(* zlib and lzma are external: a decoder takes at most Cap bytes a call    *)
(* and tells the end of its stream by a call of its own.                   *)
(***************************************************************************)
EXTENDS Stream

CONSTANTS Hdr, Trl, Cap,
          Blk,          \* TAR_BLOCK
          MaxName       \* TAR_MAXLONGNAME

(* R_GATHER: what was collected stays; a buffer that has all that is       *)
(* wanted already takes nothing and the caller is asked for more.          *)
got(g) ==
    IF Len(g.buf) < o.gsize \/ Len(o.buf) >= o.gsize
    THEN Ret("MORE", [o EXCEPT !.buf = g.buf, !.in = <<>>, !.off = @ + Len(o.in)])
    ELSE Go([o EXCEPT !.buf = g.buf, !.in = g.in, !.off = @ + Len(o.in) - Len(g.in), !.st = o.nx])
PackGather == In("GATHER") /\ got(gather(o.buf, o.in, o.gsize))

(* The decoder: end is where its stream ends.                              *)
Decode(end, done) ==
    LET n == Min({Len(o.in), Cap, end - o.off})
    IN  CASE o.off = end -> Go(done)
          [] o.off # end /\ n = 0 -> Ret("MORE", o)
          [] OTHER -> Out("DATA", SubSeq(o.in, 1, n), [o EXCEPT !.in = Shift(@, n), !.off = @ + n])

-----------------------------------------------------------------------------
(* gzip: ffgz_init() with the size of the file or without.                 *)
GzInit ==
    /\ \E f \in Files : w = Caller(f)
    /\ \/ o = Want(Object, Hdr, "HDR")
       \/ o = [Object EXCEPT !.off = File.size, !.st = "TRLSEEK"]

TrlSeek ==
    /\ In("TRLSEEK")
    /\ IF o.off < Trl THEN Ret("ERR", Want(o, Trl, "TRL"))
       ELSE Ret("SEEK", [Want(o, Trl, "TRL") EXCEPT !.off = @ - Trl])
TrlGot == In("TRL") /\ Ret("SEEK", [Want(o, Hdr, "HDR") EXCEPT !.buf = <<>>, !.off = 0])

GzHdr ==
    /\ In("HDR")
    /\ CASE o.buf[1] # 0 -> Ret("ERR", o)
         [] o.buf[1] = 0 /\ File.extra > 0 -> Go(Want(o, o.gsize + 2, "EXTRA"))
         [] OTHER -> Goto("NAME")
Extra == In("EXTRA") /\ Go(Want(o, o.gsize + (File.extra - 2), "NAME"))

(* A zero-terminated string of the header, whose last byte is at last:     *)
(* when the input has no zero, collect what is in sight first.             *)
String(st, last, next) ==
    LET end == {i \in DOMAIN o.in : o.in[i] = last}
        n == Min(end)
    IN  IF end = {} THEN Go(Want(o, o.gsize + Len(o.in), st))
        ELSE Go([o EXCEPT !.buf = @ \o SubSeq(o.in, 1, n), !.in = Shift(@, n), !.off = @ + n, !.gsize = @ + n, !.st = next])
NameEnd == Hdr + File.extra + File.name - 1
Name == In("NAME") /\ IF File.name = 0 THEN Goto("CMT") ELSE String("NAME", NameEnd, "CMT")
Cmt == In("CMT") /\ IF File.cmt = 0 THEN Goto("CRC") ELSE String("CMT", NameEnd + File.cmt, "CRC")
Crc == In("CRC") /\ IF File.hcrc > 0 THEN Go(Want(o, o.gsize + File.hcrc, "HDROK")) ELSE Goto("HDROK")
HdrOk == In("HDROK") /\ Ret("INFO", [o EXCEPT !.st = "LZINIT"])

LzInit == In("LZINIT") /\ Go([o EXCEPT !.buf = <<>>, !.st = "DATA"])
GzData == In("DATA") /\ Decode(File.trl, Want(o, Trl, "DONE"))

(* CRC and size of the trailer agree with what was read: File.crc, and     *)
(* File.isize (a warning only).                                            *)
GzDone ==
    /\ In("DONE")
    /\ CASE ~File.crc -> Ret("ERR", o)
         [] File.crc /\ ~File.isize -> Ret("WARN", o)
         [] OTHER -> Ret("DONE", o)

GzRead == \/ PackGather \/ TrlSeek \/ TrlGot \/ GzHdr \/ Extra \/ Name \/ Cmt \/ Crc \/ HdrOk
          \/ LzInit \/ GzData \/ GzDone
GzNext == GzRead \/ Move \/ FeedFrom(File.least) \/ Call({"INFO", "DATA"})
GzSpec == GzInit /\ [][GzNext]_vars

(* The data and the trailer, no byte of one in the other; what the trailer *)
(* says is read from the trailer.                                          *)
GzTrue ==
    /\ o.st \in {"TRL", "DONE"} => o.buf = Bytes(File.trl, Trl)
    /\ o.st = "DONE" => FlattenSeq(w.out) = Bytes(File.data, File.trl - File.data)

-----------------------------------------------------------------------------
(* gzip writer: File.data bytes are given in pieces, the last one with     *)
(* Z_FINISH.  deflate (external) holds back what it likes (o.held).        *)
GzWInit ==
    /\ \E f \in Files : w = [given |-> 0] @@ Caller(f)
    /\ o = Object @@ [insize |-> 0, outsize |-> 0, held |-> 0, fin |-> FALSE, isize |-> -1]
GzEmit(n, oo) == /\ o' = [oo EXCEPT !.outsize = @ + n, !.ret = "DATA"]
                 /\ w' = [w EXCEPT !.pos = @ + n]
ffgz_wfile == In("INIT") /\ Goto("W_HDR")
GzWHdr == In("W_HDR") /\ GzEmit(Hdr + File.name, [o EXCEPT !.st = "W_DATA"])
GzWData ==
    /\ In("W_DATA")
    /\ \E n \in 0..(o.held + Len(o.in)) :
         LET oo == [o EXCEPT !.held = @ + Len(o.in) - n, !.insize = @ + Len(o.in), !.in = <<>>]
         IN CASE n > 0 -> GzEmit(n, oo)
              [] n = 0 /\ ~o.fin -> Ret("MORE", oo)
              [] OTHER -> o.held + Len(o.in) = 0 /\ Goto("W_TRL")
GzWTrl == In("W_TRL") /\ GzEmit(Trl, [o EXCEPT !.isize = o.insize, !.st = "W_DONE"])
GzWDone == In("W_DONE") /\ Ret("DONE", o)
GzWFeed ==
    /\ o.ret = "MORE"
    /\ LET left == File.data - w.given
       IN \E n \in 0..Min({MaxPiece, left}) :
             /\ o' = [o EXCEPT !.in = Bytes(w.given, n), !.fin = n = left, !.ret = "run"]
             /\ w' = [w EXCEPT !.given = @ + n]
GzWrite == ffgz_wfile \/ GzWHdr \/ GzWData \/ GzWTrl \/ GzWDone
GzWNext == GzWrite \/ GzWFeed \/ Call({"DATA"})

(* The trailer counts all of the input, and nothing is held back.          *)
GzWritten == o.ret = "DONE" => o.isize = File.data /\ o.held = 0 /\ o.outsize = w.pos

-----------------------------------------------------------------------------
(* xz: the footer, the index, then the stream from its header on.          *)
XzInit ==
    /\ \E f \in Files : w = Caller(f)
    /\ o = [Object @@ [idx_size |-> 0] EXCEPT !.off = File.size, !.st = "START"]

XzStart == In("START") /\ Ret("SEEK", [Want(o, Trl, "FTR") EXCEPT !.off = @ - Trl])
XzFtr ==
    /\ In("FTR")
    /\ LET n == File.trl - File.idx
       IN  IF o.buf[1] # File.trl THEN Ret("ERR", o)
           ELSE Ret("SEEK", [Want(o, n, "IDX") EXCEPT !.off = @ - Len(o.buf) - n, !.idx_size = n, !.buf = <<>>])
(* xz_idx_parse()                                                          *)
XzIdx ==
    In("IDX") /\ IF File.badidx THEN Ret("ERR", o) ELSE Ret("INFO", [o EXCEPT !.buf = <<>>, !.st = "HDRSEEK"])
XzHdrSeek == In("HDRSEEK") /\ Ret("SEEK", [Want(o, Hdr, "HDR") EXCEPT !.off = 0])
XzHdr ==
    /\ In("HDR")
    /\ IF o.buf[1] # 0 THEN Ret("ERR", o) ELSE Go([Want(o, 1, "BLKHDR_SIZE") EXCEPT !.buf = <<>>])

blockAt(off) == CHOOSE b \in File.blocks : b.off = off
BlkHdrSize ==
    /\ In("BLKHDR_SIZE")
    /\ IF o.buf[1] = File.idx THEN Goto("SKIP_IDX_FTR")
       ELSE Go(Want(o, blockAt(o.buf[1]).hdr, "BLKHDR"))
(* xz_hdr_parse(), lzma_decode_init()                                      *)
BlkHdr ==
    /\ In("BLKHDR")
    /\ IF blockAt(o.buf[1]).bad THEN Ret("ERR", o)
       ELSE Go([o EXCEPT !.buf = <<>>, !.gbuf = o.buf, !.st = "DATA"])
XzData ==
    /\ In("DATA")
    /\ LET b == blockAt(o.gbuf[1])
       IN  Decode(b.off + b.hdr + b.data, Want(o, 1, "BLKHDR_SIZE"))
SkipIdxFtr ==
    /\ In("SKIP_IDX_FTR")
    /\ Ret("SEEK", [o EXCEPT !.off = @ + o.idx_size - 1 + Trl, !.st = "DONE"])
XzDone == In("DONE") /\ Ret("DONE", o)

XzRead == \/ PackGather \/ XzStart \/ XzFtr \/ XzIdx \/ XzHdrSeek \/ XzHdr
          \/ BlkHdrSize \/ BlkHdr \/ XzData \/ SkipIdxFtr \/ XzDone
XzNext == XzRead \/ Move \/ Feed \/ Call({"INFO", "DATA"})
XzSpec == XzInit /\ [][XzNext]_vars

(* Every block's data and no more, and then the reader is behind the       *)
(* footer.                                                                 *)
XzTrue ==
    LET data == {i \in 0..(File.idx - 1) : \E b \in File.blocks : i \in (b.off + b.hdr)..(b.off + b.hdr + b.data - 1)}
    IN  /\ \A i, j \in DOMAIN FlattenSeq(w.out) : i < j => FlattenSeq(w.out)[i] < FlattenSeq(w.out)[j]
        /\ ToSet(FlattenSeq(w.out)) \subseteq data
        /\ o.ret = "DONE" => ToSet(FlattenSeq(w.out)) = data /\ o.off = File.size

(* Both know where they are, once they have looked at the end of the file. *)
OffsetKnown == o.st \notin {"TRLSEEK", "START"} => OffsetOfInput

-----------------------------------------------------------------------------
(* tar: whole blocks.                                                      *)
Ceil(n) == Blk * ((n + Blk - 1) \div Blk)
Floor(n) == Blk * (n \div Blk)
Block(oo, nx) == Want(oo, Blk, nx)

NoHead == [off |-> -1, type |-> "none", size |-> 0, err |-> "none", pad |-> TRUE]
NoName == -1
TarInit ==
    /\ \E f \in Files : w = [data |-> <<>>] @@ Caller(f)
    /\ o = Block(Object, "HDR") @@ [file |-> NoHead, left |-> 0, long |-> NoName, name |-> NoName,
                                    namebuf |-> <<>>, fin |-> FALSE]

(* fftar_hdr_parse(): a long name that came before is the name of this     *)
(* header.                                                                 *)
hdrGot(h, oo) ==
    CASE h.err # "none" -> Ret("ERR", oo)
      [] h.err = "none" /\ h.type \in {"dir", "link"} /\ h.size # 0 -> Ret("ERR", oo)
      [] h.err = "none" /\ h.type \in {"long", "ext"} /\ h.size > MaxName -> Ret("ERR", oo)
      [] h.err = "none" /\ h.type = "long" /\ h.size <= MaxName -> Go([oo EXCEPT !.st = "LONG_NAME"])
      [] h.err = "none" /\ h.type = "ext" /\ h.size <= MaxName -> Go(Block(oo, "SKIP"))
      [] OTHER -> Ret("FILEHDR", [oo EXCEPT !.st = IF h.size # 0 THEN "DATA" ELSE "FDONE"])
hdrs == {h \in File.heads : h.off = o.gbuf[1]}
TarHdr ==
    /\ In("HDR")
    /\ IF hdrs = {} THEN Goto("FIN")
       ELSE \E h \in hdrs : hdrGot(h, [o EXCEPT !.file = h, !.left = h.size, !.long = NoName, !.name = o.long])

LongNameGot(g) ==
    IF Len(g.buf) < Ceil(o.file.size) \/ o.in = <<>> THEN Ret("MORE", [o EXCEPT !.namebuf = g.buf, !.in = g.in])
    ELSE Go(Block([o EXCEPT !.in = g.in, !.namebuf = <<>>, !.long = g.buf[1]], "HDR"))
LongName == In("LONG_NAME") /\ LongNameGot(gather(o.namebuf, o.in, Ceil(o.file.size)))

SkipExt ==
    /\ In("SKIP")
    /\ LET left == o.file.size - Min({Blk, o.file.size})
       IN  Go(Block([o EXCEPT !.file.size = left], IF left # 0 THEN "SKIP" ELSE "HDR"))

(* Data: n bytes of d, of which the rest is padding.                       *)
DataOut(d, n, oo) ==
    IF oo.left = n /\ ~o.file.pad /\ Len(d) > n THEN Ret("ERR", oo)
    ELSE /\ o' = [oo EXCEPT !.left = @ - n, !.st = IF oo.left = n THEN "FDONE" ELSE "DATA", !.ret = "DATA"]
         /\ w' = [w EXCEPT !.data = @ \o SubSeq(d, 1, n)]
Direct(n) == DataOut(SubSeq(o.in, 1, Ceil(n)), n, [o EXCEPT !.in = Shift(@, Ceil(n))])
TarData ==
    /\ In("DATA")
    /\ CASE o.in = <<>> -> Ret("MORE", o)
         [] o.in # <<>> /\ Len(o.in) < Blk -> Go(Block(o, "DATA_BLK"))
         [] OTHER -> Direct(Min({o.left, Floor(Len(o.in))}))
TarDataBlk == In("DATA_BLK") /\ DataOut(o.gbuf, Min({o.left, Blk}), o)

TarFileDone ==
    /\ In("FDONE")
    /\ o' = [Block(o, "HDR") EXCEPT !.ret = "FILEDONE"]
    /\ w' = [w EXCEPT !.out = Append(@, [off |-> o.file.off, name |-> o.name, data |-> w.data]), !.data = <<>>]

(* Zero blocks up to the end of the input.                                 *)
TarFin ==
    /\ In("FIN")
    /\ IF o.gbuf[1] \in File.dirty THEN Ret("ERR", o) ELSE Goto("FIN2")
TarFin2 ==
    /\ In("FIN2")
    /\ IF o.in = <<>> THEN Ret(IF o.fin THEN "DONE" ELSE "MORE", o) ELSE Go(Block(o, "FIN"))

TarRead == Gather \/ TarHdr \/ LongName \/ SkipExt \/ TarData \/ TarDataBlk \/ TarFileDone \/ TarFin \/ TarFin2

(* At the end of the input the caller says so (fftar.fin).                 *)
LastCall ==
    /\ o.ret = "MORE" /\ w.pos = File.size /\ ~o.fin
    /\ Go([o EXCEPT !.fin = TRUE, !.ret = "run"])

TarNext == TarRead \/ Feed \/ LastCall \/ Call({"FILEHDR", "DATA", "FILEDONE"})

(* The writer: File.items are the lengths of the files to come.            *)
TarWInit ==
    /\ \E f \in Files : w = [heads |-> <<>>, given |-> 0, done |-> 0] @@ Caller(f)
    /\ o = [Object @@ [fsize |-> 0, fdone |-> FALSE] EXCEPT !.st = "W_NEWFILE", !.ret = "READY"]

Emit(r, n, oo) == o' = [oo EXCEPT !.ret = r] /\ w' = [w EXCEPT !.pos = @ + n]

fftar_newfile ==
    /\ o.ret = "READY" /\ o.st = "W_NEWFILE" /\ w.done < Len(File.items)
    /\ o' = [o EXCEPT !.fdone = FALSE, !.st = "W_HDR", !.ret = "run"]
    /\ w' = [w EXCEPT !.heads = Append(@, w.pos), !.given = 0]
TarWHdr == In("W_HDR") /\ Emit("DATA", Blk, [o EXCEPT !.fsize = 0, !.st = "W_DATA"])
TarWData ==
    /\ In("W_DATA")
    /\ CASE o.fdone -> Goto("W_PADDING")
         [] ~o.fdone /\ o.in = <<>> -> Ret("MORE", o)
         [] OTHER -> Emit("DATA", Len(o.in), [o EXCEPT !.fsize = @ + Len(o.in), !.in = <<>>])
TarWPadding == In("W_PADDING") /\ Emit("DATA", Ceil(o.fsize) - o.fsize, [o EXCEPT !.st = "W_FDONE"])
TarWFdone ==
    /\ In("W_FDONE")
    /\ o' = [o EXCEPT !.st = "W_NEWFILE", !.ret = "READY"] /\ w' = [w EXCEPT !.done = @ + 1]
fftar_wfinish == o.ret = "READY" /\ w.done > 0 /\ Go([o EXCEPT !.st = "W_FTR", !.ret = "run"])
TarWFtr == In("W_FTR") /\ Emit("DATA", 3 * Blk, [o EXCEPT !.st = "W_DONE"])
TarWDone == In("W_DONE") /\ Ret("DONE", o)
TarWFeed ==
    /\ o.ret = "MORE"
    /\ LET left == File.items[w.done + 1] - w.given
       IN \E n \in 1..Min({MaxPiece, left}) \cup (IF left = 0 THEN {0} ELSE {}) :
             /\ o' = [o EXCEPT !.in = Bytes(w.given, n), !.fdone = left = 0, !.ret = "run"]
             /\ w' = [w EXCEPT !.given = @ + n]

TarWrite == TarWHdr \/ TarWData \/ TarWPadding \/ TarWFdone \/ TarWFtr \/ TarWDone
TarWNext == TarWrite \/ fftar_newfile \/ fftar_wfinish \/ TarWFeed \/ Call({"DATA"})

(* Each header is where a reader looks for it: after the blocks of the     *)
(* data before it.                                                         *)
TarWrittenTrue ==
    LET at(i) == IF i <= Len(w.heads) THEN w.heads[i] ELSE w.pos - 3 * Blk
    IN  o.ret = "DONE" => \A i \in DOMAIN w.heads : at(i + 1) = w.heads[i] + Blk + Ceil(File.items[i])
=============================================================================
