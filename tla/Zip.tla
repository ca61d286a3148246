-------------------------------- MODULE Zip --------------------------------
(***************************************************************************)
(* The ZIP reader and writer of FF/pack/ffzip.c.                           *)
(*                                                                         *)
(* File.cdir is the sequence of the central directory's entries [off,      *)
(* size, file]: size bytes at off, about the file whose header is at       *)
(* file.off: [off, hdr, comp, zsize, osize, crc], followed by its data.    *)
(* The trailer is at File.trl.                                             *)
(*                                                                         *)
(* zlib is external: inflating is known by the bytes that were given to it *)
(* (o.lz), a stream that is not reset goes on with the next file.          *)
(***************************************************************************)
EXTENDS Stream

CONSTANTS Hdr, CHdr, Trl,       \* sizes of zip_hdr, zip_cdir, zip_cdir_trl
          TrlMax,               \* ZIP_CDIR_TRL_MAXSIZE
          Cap, MinPiece,        \* output space of a call
          MaxReads              \* files the user reads

NoFile == 0
Init ==
    /\ \E f \in Files : w = [reads |-> 0] @@ Caller(f)
    /\ o = [Object @@ [cdir_off |-> 0, cdir_end |-> 0, cdir |-> <<>>, cur |-> NoFile, lz |-> <<>>]
             EXCEPT !.st = "CDIR_TRL_SEEK"]

(* R_GATHER: what was collected stays in the buffer.                       *)
ZipGather ==
    /\ In("GATHER")
    /\ LET got(g) == IF Len(g.buf) < o.gsize \/ Len(o.buf) = o.gsize
                     THEN Ret("MORE", [o EXCEPT !.buf = g.buf, !.in = g.in])
                     ELSE Go([o EXCEPT !.buf = g.buf, !.in = g.in, !.st = o.nx])
       IN  got(gather(o.buf, o.in, o.gsize))

CdirTrlSeek == In("CDIR_TRL_SEEK") /\ Ret("SEEK", [o EXCEPT !.off = Max({0, File.size - TrlMax}), !.st = "CDIR_TRL"])

(* zip_cdir_trl_find()                                                     *)
TrlGot(g) ==
    CASE g.r = "MORE" -> Ret("MORE", [o EXCEPT !.buf = g.buf, !.in = <<>>])
      [] g.r # "MORE" /\ File.disk # 0 -> Ret("ERR", [o EXCEPT !.buf = <<>>])
      [] OTHER -> Ret("SEEK", [o EXCEPT !.buf = <<>>, !.cdir_off = File.cdir[1].off, !.cdir_end = File.trl,
                                        !.off = File.cdir[1].off, !.st = "CDIR_NEXT"])
CdirTrl ==
    /\ In("CDIR_TRL")
    /\ LET find == [b \in 0..File.size |-> IF b = File.trl THEN Trl ELSE 0]
       IN  TrlGot(ffbuf_gather(o.buf, o.in, Trl, find))

CdirNext ==
    /\ In("CDIR_NEXT")
    /\ IF o.cdir_off = o.cdir_end THEN Ret("DONE", [o EXCEPT !.cur = NoFile]) ELSE Go(Want(o, CHdr, "CDIR"))

(* zip_cdir_parse(), then the rest of the entry.                           *)
EntryAt(b) == {i \in DOMAIN File.cdir : File.cdir[i].off = b}
Cdir ==
    /\ In("CDIR")
    /\ LET got(es) == IF es = {} THEN Ret("ERR", o)
                      ELSE LET e == File.cdir[Min(es)]
                               oo == [Want(o, e.size, "CDIR_FIN") EXCEPT !.cdir = Append(@, e.file),
                                                                         !.cdir_off = @ + e.size]
                           IN  IF oo.cdir_off > o.cdir_end THEN Ret("ERR", oo) ELSE Go(oo)
       IN  got(EntryAt(o.buf[1]))
CdirFin == In("CDIR_FIN") /\ Ret("FILEINFO", [o EXCEPT !.buf = <<>>, !.st = "CDIR_NEXT"])

-----------------------------------------------------------------------------
FhdrSeek == In("FHDR_SEEK") /\ Ret("SEEK", Want(o, Hdr, "FHDR"))

(* zip_fhdr_parse(): the header agrees with the directory.                 *)
Cur == o.cdir[o.cur]
Fhdr ==
    /\ In("FHDR")
    /\ IF \/ o.buf[1] # Cur.off \/ Cur.comp \notin {"stored", "deflated"} \/ Cur.mismatch
          \/ Cur.comp = "stored" /\ Cur.osize # Cur.zsize
       THEN Ret("ERR", o) ELSE Go(Want(o, Cur.hdr, "FHDR_FIN"))
FhdrFin ==
    In("FHDR_FIN") /\ Ret("FILEHDR", [o EXCEPT !.buf = <<>>, !.st = IF Cur.comp = "stored" THEN "SKIP" ELSE "DATA"])

SkipFile == In("SKIP") /\ Ret("FILEDONE", [o EXCEPT !.st = "FHDR"])

(* z_inflate(), external: up to the end of the stream, Cap bytes a call.   *)
Data ==
    /\ In("DATA")
    /\ LET n == Min({Len(o.in), Cap, Cur.zsize - Len(o.lz)})
           d == SubSeq(o.in, 1, n)
       IN CASE Len(o.lz) = Cur.zsize -> Go([o EXCEPT !.lz = <<>>, !.st = "FDONE"])
            [] Len(o.lz) # Cur.zsize /\ n = 0 -> Ret("MORE", o)
            [] OTHER -> Out("DATA", d, [o EXCEPT !.lz = @ \o d, !.in = Shift(@, n)])
FileDone ==
    In("FDONE") /\ Ret(IF Cur.crc THEN "FILEDONE" ELSE "ERR", [o EXCEPT !.st = IF Cur.crc THEN "FHDR" ELSE @])

Read == \/ ZipGather \/ CdirTrlSeek \/ CdirTrl \/ CdirNext \/ Cdir \/ CdirFin
        \/ FhdrSeek \/ Fhdr \/ FhdrFin \/ SkipFile \/ Data \/ FileDone

(* ffzip_nextfile() and ffzip_readfile(), in any order of files.           *)
ffzip_readfile(i) ==
    /\ o.ret \in {"DONE", "FILEDONE"} /\ w.reads < MaxReads
    /\ o' = [o EXCEPT !.cur = i, !.off = o.cdir[i].off, !.st = "FHDR_SEEK", !.ret = "run"]
    /\ w' = [w EXCEPT !.out = <<>>, !.reads = @ + 1]

Next == \/ Read \/ Move \/ Call({"FILEINFO", "FILEHDR", "DATA"})
        \/ FeedFrom(IF o.st = "CDIR_TRL" THEN MinPiece ELSE 1)
        \/ \E i \in DOMAIN o.cdir : ffzip_readfile(i)
Spec == Init /\ [][Next]_vars

-----------------------------------------------------------------------------
(* The directory is read as it is, and a file's data is its own: nothing   *)
(* of another file, and all of it when the file is done.                   *)
CdirTrue == IsPrefix(o.cdir, [i \in DOMAIN File.cdir |-> File.cdir[i].file])
FileData == Bytes(Cur.off + Cur.hdr, Cur.zsize)
DataTrue ==
    o.cur # NoFile => /\ o.ret = "DATA" => IsPrefix(FlattenSeq(w.out), FileData)
                      /\ o.ret = "FILEDONE" => FlattenSeq(w.out) = FileData

-----------------------------------------------------------------------------
(* The writer: File.items is the data length of each file to come; w.pos   *)
(* counts the output.  o.held is what deflate holds back.                  *)
WInit ==
    /\ \E f \in Files : w = [heads |-> <<>>, dirs |-> <<>>, done |-> 0] @@ Caller(f)
    /\ o = [Object @@ [items |-> 0, total |-> 0, hlen |-> 0, insize |-> 0, outsize |-> 0, held |-> 0,
                       given |-> 0, filedone |-> FALSE, cdir |-> <<>>, cdir_off |-> -1]
             EXCEPT !.st = "NEWFILE", !.ret = "READY"]

Emit(r, n, oo) == /\ o' = [oo EXCEPT !.ret = r, !.total = @ + n] 
                  /\ w' = [w EXCEPT !.pos = @ + n]

(* ffzip_wfile(), then ffzip_write() with the data in pieces.              *)
ffzip_wfile ==
    /\ o.ret = "READY" /\ o.st = "NEWFILE" /\ w.done < Len(File.items)
    /\ o' = [o EXCEPT !.cdir = Append(@, [off |-> o.total, zsize |-> -1, osize |-> -1]), !.given = 0,
                      !.filedone = FALSE, !.st = "W_FHDR", !.ret = "run"]
    /\ w' = [w EXCEPT !.heads = Append(@, w.pos)]
Left == File.items[w.done + 1] - o.given
WFhdr ==
    /\ In("W_FHDR")
    /\ CASE o.in = <<>> /\ ~o.filedone -> Ret("MORE", o)
         [] ~(o.in = <<>> /\ ~o.filedone) /\ o.items = File.maxitems -> Ret("ERR", o)
         [] OTHER -> Emit("DATA", Hdr, [o EXCEPT !.insize = 0, !.outsize = 0,
                                                 !.st = IF o.in = <<>> THEN "W_FTRL" ELSE "W_FDATA"])
WFdata ==
    /\ In("W_FDATA")
    /\ \E n \in 0..(o.held + Len(o.in)) :
         LET oo == [o EXCEPT !.held = @ + Len(o.in) - n, !.insize = @ + Len(o.in), !.in = <<>>]
         IN CASE n > 0 -> Emit("DATA", n, [oo EXCEPT !.outsize = @ + n])
              [] n = 0 /\ ~o.filedone -> Ret("MORE", oo)
              [] OTHER -> o.held + Len(o.in) = 0 /\ Go([o EXCEPT !.st = "W_FTRL"])
WFtrl ==
    /\ In("W_FTRL")
    /\ Emit("DATA", Trl, [o EXCEPT !.cdir[Len(o.cdir)].zsize = o.outsize, !.cdir[Len(o.cdir)].osize = o.insize,
                                   !.items = @ + 1, !.st = "W_FILEDONE"])
WFileDone ==
    /\ In("W_FILEDONE")
    /\ o' = [o EXCEPT !.st = "NEWFILE", !.ret = "READY"] /\ w' = [w EXCEPT !.done = @ + 1]
ffzip_wfinish == o.ret = "READY" /\ w.done > 0 /\ Go([o EXCEPT !.st = "W_CDIR", !.ret = "run"])
WCdir ==
    In("W_CDIR") /\ Emit("DATA", CHdr * Len(o.cdir) + Trl, [o EXCEPT !.cdir_off = o.total, !.st = "W_DONE"])
WDone == In("W_DONE") /\ Ret("DONE", o)
WFeed ==
    /\ o.ret = "MORE"
    /\ \E n \in 0..Min({MaxPiece, Left}) :
         Go([o EXCEPT !.in = Bytes(o.given, n), !.given = @ + n, !.filedone = n = Left, !.ret = "run"])

Write == WFhdr \/ WFdata \/ WFtrl \/ WFileDone \/ WCdir \/ WDone
WNext == Write \/ ffzip_wfile \/ ffzip_wfinish \/ WFeed \/ Call({"DATA"})
WSpec == WInit /\ [][WNext]_vars

(* The directory written tells where each file's header is and how long    *)
(* its data were, and the trailer where the directory is.                  *)
WrittenTrue ==
    o.ret = "DONE" =>
        /\ o.cdir_off = w.pos - (CHdr * Len(o.cdir) + Trl)
        /\ \A i \in DOMAIN o.cdir : /\ o.cdir[i].off = w.heads[i] /\ o.cdir[i].osize = File.items[i]
                                    /\ o.cdir[i].zsize = (IF i < Len(o.cdir) THEN w.heads[i + 1] ELSE o.cdir_off)
                                                           - w.heads[i] - Hdr - Trl
=============================================================================
