------------------------------ MODULE SevenZip ------------------------------
(***************************************************************************)
(* The 7z reader: FF/pack/ff7z.c and the header's blocks, ff7z-fmt.c.      *)
(*                                                                         *)
(* The header is a sequence of blocks [id, v], v being what the block's    *)
(* bytes say; a block with children is closed by "End".  File.meta is the  *)
(* header, File.head what the file has at File.hdroff: the same, or an     *)
(* EncodedHeader that tells where it is packed.                            *)
(*                                                                         *)
(* Unpacking is known by the offsets of what is unpacked: the j-th byte of *)
(* a folder is its off + j.  lzma and zlib are external.                   *)
(***************************************************************************)
EXTENDS Stream

CONSTANTS GHdr,         \* Z7_GHDR_LEN
          Cap,          \* output space of a decoder
          MaxDepth      \* Z7_MAX_BLOCK_DEPTH

Map(Op(_), s) == [i \in DOMAIN s |-> Op(s[i])]
before(s, i) == MapThenSumSet(LAMBDA j : s[j], 1..(i - 1))
NoFile == [name |-> 0, mtime |-> 0, attr |-> 0, off |-> 0, size |-> 0, crc |-> FALSE]
NoFiles(n) == [i \in 1..n |-> NoFile]
Stm(off, n) == [off |-> off, pack |-> n]
Folder(stm, coders) ==
    [off |-> stm.off, pack |-> stm.pack, coders |-> coders, unpack |-> 0, crc |-> FALSE, files |-> <<>>,
     ifile |-> 0, empty |-> {}, isempty |-> FALSE]

-----------------------------------------------------------------------------
(* The table of blocks: who may be whose child, at most once unless multi, *)
(* in the order of prio, and which are required.                           *)
B(id, prio, req) == [id |-> id, prio |-> prio, req |-> req, multi |-> id = "Dummy"]
children(id) ==
    CASE id = "top" -> {B("Header", 0, FALSE), B("EncodedHeader", 0, FALSE)}
      [] id = "Header" -> {B("AdditionalStreamsInfo", 0, FALSE), B("MainStreamsInfo", 1, TRUE), B("FilesInfo", 2, FALSE)}
      [] id \in {"MainStreamsInfo", "AdditionalStreamsInfo", "EncodedHeader"} ->
            {B("PackInfo", 1, TRUE), B("UnPackInfo", 2, TRUE), B("SubStreamsInfo", 3, FALSE)}
      [] id = "PackInfo" -> {B("Size", 0, TRUE)}
      [] id = "UnPackInfo" -> {B("Folder", 1, FALSE), B("UnPackSize", 2, FALSE), B("CRC", 0, FALSE)}
      [] id = "SubStreamsInfo" -> {B("NumUnPackStream", 1, FALSE), B("Size", 2, FALSE), B("CRC", 0, FALSE)}
      [] id = "FilesInfo" -> {B("EmptyStream", 1, FALSE), B("EmptyFile", 2, FALSE), B("Name", 0, TRUE),
                              B("MTime", 0, FALSE), B("WinAttributes", 0, FALSE), B("Dummy", 0, FALSE)}
      [] OTHER -> {}

(* z7_find_block()                                                         *)
findError(bs, used, prio) ==
    CASE bs = {} -> "EUKNID"
      [] \E b \in bs : b.id \in used /\ ~b.multi -> "EDUPBLOCK"
      [] \E b \in bs : b.prio > prio + 1 -> "EORDER"
      [] OTHER -> "none"
Parent == o.blks[Len(o.blks)]

-----------------------------------------------------------------------------
(* The blocks' own readers, each from the folders so far and the value.    *)
Ok(f) == [e |-> "none", f |-> f]
Bad(e) == [e |-> e, f |-> <<>>]

z7_packinfo_read(v) == IF v.n = 0 THEN Bad("EUNSUPP") ELSE Ok([i \in 1..v.n |-> Stm(v.off, 0)])
z7_packsizes_read(s, v) == Ok([i \in DOMAIN s |-> Stm(s[1].off + before(v, i), v[i])])
z7_folders_read(s, v) == IF Len(v) > Len(s) THEN Bad("EDATA") ELSE Ok([i \in DOMAIN v |-> Folder(s[i], v[i])])
z7_datasizes_read(fs, v) == Ok([i \in DOMAIN fs |-> [fs[i] EXCEPT !.unpack = v[i]]])
z7_datacrcs_read(fs, v) == Ok([i \in DOMAIN fs |-> [fs[i] EXCEPT !.crc = v[i]]])
z7_stmfiles_read(fs, v) ==
    IF \E i \in DOMAIN v : v[i] = 0 THEN Bad("EDATA")
    ELSE Ok([i \in DOMAIN fs |-> [fs[i] EXCEPT !.files = NoFiles(v[i])]])

(* The last file of a folder has the rest.                                 *)
sized(fo, v, i) ==
    [fo.files[i] EXCEPT !.off = before(v, i), !.size = IF i <= Len(v) THEN v[i] ELSE fo.unpack - before(v, i)]
z7_fsizes_read(fs, v) ==
    IF \E i \in DOMAIN fs : before(v[i], Len(v[i]) + 1) > fs[i].unpack THEN Bad("EDATA")
    ELSE Ok([i \in DOMAIN fs |-> [fs[i] EXCEPT !.files = [j \in DOMAIN @ |-> sized(fs[i], v[i], j)]]])
z7_fcrcs_read(fs, v) ==
    Ok([i \in DOMAIN fs |-> [fs[i] EXCEPT !.files = [j \in DOMAIN @ |-> [@[j] EXCEPT !.crc = v[i][j]]]]])

(* One more folder for the empty files.                                    *)
z7_fileinfo_read(fs, n) ==
    LET all == MapThenSumSet(LAMBDA i : Len(fs[i].files), DOMAIN fs)
    IN  CASE n = 0 -> Bad("EUNSUPP")
          [] n # 0 /\ n < all -> Bad("EDATA")
          [] n # 0 /\ n = all -> Ok(fs)
          [] OTHER -> Ok(Append(fs, [Folder(Stm(0, 0), <<>>) EXCEPT !.files = NoFiles(n - all), !.isempty = TRUE]))
z7_emptystms_read(fs, v) ==
    LET n == Cardinality(v)
    IN  IF (n # 0 /\ ~Last(fs).isempty) \/ n # Len(Last(fs).files) THEN Bad("EDATA")
        ELSE Ok([fs EXCEPT ![Len(fs)].empty = v])

(* z7_names_read(), z7_mtimes_read(), z7_winattrs_read(): the cnt-th value *)
(* goes to the next empty file or to the next file of this folder; at the  *)
(* empty folder itself, to what is left there.                             *)
RECURSIVE place(_, _, _, _, _, _, _)
place(fs, v, attr, ifo, i, ifem, cnt) ==
    LET isEmpty == Last(fs).isempty
        atEmpty == isEmpty /\ ifo = Len(fs)
        start(k) == IF isEmpty /\ k = Len(fs) THEN ifem ELSE 0
        to(fo, k) == [fs EXCEPT ![fo].files[k] = [@ EXCEPT ![attr] = v[cnt]]]
    IN  CASE ifo > Len(fs) -> Ok(fs)
          [] ifo <= Len(fs) /\ i = Len(fs[ifo].files) -> place(fs, v, attr, ifo + 1, start(ifo + 1), ifem, cnt)
          [] ifo <= Len(fs) /\ i < Len(fs[ifo].files) /\ cnt > Len(v) -> Bad("EMORE")
          [] OTHER -> IF isEmpty /\ ~atEmpty /\ cnt \in Last(fs).empty
                      THEN place(to(Len(fs), ifem + 1), v, attr, ifo, i, ifem + 1, cnt + 1)
                      ELSE place(to(ifo, i + 1), v, attr, ifo, i + 1, ifem, cnt + 1)
placeAll(fs, v, attr) == place(fs, v, attr, 1, 0, 0, 1)

proc(parent, b, fs) ==
    CASE b.id = "PackInfo" -> z7_packinfo_read(b.v)
      [] b.id = "Size" /\ parent = "PackInfo" -> z7_packsizes_read(fs, b.v)
      [] b.id = "Folder" -> z7_folders_read(fs, b.v)
      [] b.id = "UnPackSize" -> z7_datasizes_read(fs, b.v)
      [] b.id = "CRC" /\ parent = "UnPackInfo" -> z7_datacrcs_read(fs, b.v)
      [] b.id = "NumUnPackStream" -> z7_stmfiles_read(fs, b.v)
      [] b.id = "Size" /\ parent = "SubStreamsInfo" -> z7_fsizes_read(fs, b.v)
      [] b.id = "CRC" /\ parent = "SubStreamsInfo" -> z7_fcrcs_read(fs, b.v)
      [] b.id = "FilesInfo" -> z7_fileinfo_read(fs, b.v)
      [] b.id = "EmptyStream" -> z7_emptystms_read(fs, b.v)
      [] b.id = "Name" -> placeAll(fs, b.v, "name")
      [] b.id = "MTime" -> placeAll(fs, b.v, "mtime")
      [] b.id = "WinAttributes" -> placeAll(fs, b.v, "attr")
      [] OTHER -> Ok(fs)

-----------------------------------------------------------------------------
(* The chain of filters that unpacks a folder.                             *)
Filter(kind) == [kind |-> kind, in |-> <<>>, read |-> 0, fin |-> FALSE, off |-> 0, size |-> 0, held |-> <<>>]
known == {"store", "deflate", "lzma", "x86"}
createError(fo) == CASE Len(fo.coders) > 2 -> "EUNSUPP"
                     [] Len(fo.coders) <= 2 /\ ~(ToSet(fo.coders) \subseteq known) -> "EUKNCODER"
                     [] OTHER -> "none"
z7_filters_create(fo, off, size) ==
    <<[Filter("input") EXCEPT !.off = fo.off, !.size = fo.pack]>>
        \o Map(Filter, SelectSeq(fo.coders, LAMBDA c : c # "store"))
        \o <<[Filter("bounds") EXCEPT !.off = off, !.size = size]>>

Last0 == o.ifilter = Len(o.filters)
With(c) == [o EXCEPT !.filters[o.ifilter] = c]

(* R_META_UNPACK                                                           *)
metaData(d, oo) == Go([oo EXCEPT !.meta = @ \o d])
metaDone(oo) ==
    IF ~o.folders[1].files[1].crc THEN Ret("ERR", oo)
    ELSE Go([oo EXCEPT !.filters = <<>>, !.folders = <<>>, !.cur = 0, !.meta = <<>>, !.st = "BLKID",
                       !.gdata = IF o.meta = Bytes(File.metaoff, File.metasize) THEN File.meta ELSE <<>>])
(* R_FDATA, of the current file of the current folder                      *)
fo == o.folders[o.cur]
f == fo.files[fo.ifile]
fileData(d, oo) == Out("DATA", d, oo)
fileDone(oo) == IF f.crc THEN Ret("FILEDONE", [oo EXCEPT !.st = "FNEXT"]) ELSE Ret("ERR", oo)
(* What the caller of z7_filters_call() does with the last filter's output *)
(* and when that is done.                                                  *)
data(d, oo) == IF o.st = "META_UNPACK" THEN metaData(d, oo) ELSE fileData(d, oo)
done(oo) == IF o.st = "META_UNPACK" THEN metaDone(oo) ELSE fileDone(oo)

(* What z7_filters_call() makes of a filter's result.                      *)
more(c, oo) == CASE c.fin -> Ret("ERR", oo)
                 [] ~c.fin /\ o.ifilter = 1 -> Ret("MORE", oo)
                 [] OTHER -> Go([oo EXCEPT !.ifilter = @ - 1])
passed(d, c) ==
    IF Last0 THEN data(d, With(c))
    ELSE Go([With(c) EXCEPT !.filters[o.ifilter + 1].in = d, !.ifilter = @ + 1])
finished(c) ==
    IF Last0 THEN done(With(c))
    ELSE Go([With(c) EXCEPT !.filters[o.ifilter + 1].fin = TRUE, !.ifilter = @ + 1])

input(c) ==
    LET n == Min({c.size, Len(o.in)})
    IN  CASE c.size = 0 -> finished(c)
          [] c.size # 0 /\ o.off # c.off -> Ret("SEEK", [o EXCEPT !.off = c.off])
          [] c.size # 0 /\ o.off = c.off /\ o.in = <<>> -> more(c, o)
          [] OTHER -> Go([o EXCEPT !.filters[1] = [c EXCEPT !.off = @ + n, !.size = @ - n],
                                   !.filters[2].in = SubSeq(o.in, 1, n), !.ifilter = 2,
                                   !.in = Shift(@, n), !.off = @ + n])
(* z7_deflate_process(), z7_lzma_process(): up to Cap bytes; x86 holds the *)
(* last one back until it is told that there is no more.                   *)
decode(c, total) ==
    LET n == Min({Cap, Len(c.in)})
        all == c.held \o SubSeq(c.in, 1, n)
        outn == IF c.kind = "x86" /\ ~(c.fin /\ c.in = <<>>) THEN Len(all) - Min({1, Len(all)}) ELSE Len(all)
        cc == [c EXCEPT !.in = Shift(@, n), !.read = @ + n, !.held = Shift(all, outn)]
    IN  CASE c.read = total /\ c.held = <<>> -> finished(c)
          [] ~(c.read = total /\ c.held = <<>>) /\ outn = 0 -> more(cc, With(cc))
          [] OTHER -> passed(SubSeq(all, 1, outn), cc)
(* z7_bounds_process() with ffstr_crop_abs()                               *)
bounds(c) ==
    LET end == c.read + Len(c.in)
        l == Min({Max({c.read, c.off}), end})
        r == Min({c.off + c.size, end})
        cc == [c EXCEPT !.in = Shift(@, r - c.read), !.read = r]
    IN  CASE r = l /\ r = c.off + c.size -> finished(cc)
          [] r = l /\ r # c.off + c.size -> more(cc, With(cc))
          [] OTHER -> passed(SubSeq(c.in, l - c.read + 1, r - c.read), cc)
Call7(c, total) ==
    CASE c.kind = "input" -> input(c)
      [] c.kind = "bounds" -> bounds(c)
      [] OTHER -> decode(c, total)
z7_filters_call == Call7(o.filters[o.ifilter], o.folders[o.cur].unpack)

-----------------------------------------------------------------------------
Init ==
    /\ \E file \in Files : w = Caller(file)
    /\ o = Want(Object, GHdr, "GHDR")
             @@ [blks |-> <<[id |-> "top", used |-> {}, prio |-> 0]>>, gdata |-> <<>>, folders |-> <<>>,
                 filters |-> <<>>, ifilter |-> 1, cur |-> 0, packed |-> FALSE, meta |-> <<>>, listed |-> FALSE]

(* R_GATHER: ffarr_gather(), whose offset counts every byte taken.         *)
gathered(g) ==
    LET oo == [o EXCEPT !.in = g.in, !.off = @ + Len(o.in) - Len(g.in)]
    IN  IF Len(g.buf) # o.gsize THEN Ret("MORE", [oo EXCEPT !.buf = g.buf])
        ELSE Go([oo EXCEPT !.gbuf = g.buf, !.buf = <<>>, !.st = o.nx,
                           !.gdata = IF g.buf = Bytes(File.hdroff, File.hdrsize) THEN File.head ELSE <<>>])
SzGather == In("GATHER") /\ gathered(gather(o.buf, o.in, o.gsize))

GHdrGot ==
    /\ In("GHDR")
    /\ IF o.gbuf[1] # 0 \/ ~File.ghdr THEN Ret("ERR", o)
       ELSE Ret("SEEK", [Want(o, File.hdrsize, "BLKID") EXCEPT !.off = File.hdroff])

(* R_BLKID: the end of a block; z7_prep_unpackhdr() after an EncodedHeader. *)
EndBlock ==
    LET up == [o EXCEPT !.blks = Front(@), !.gdata = Tail(@)]
        hdr == o.folders[1]
    IN  CASE \E b \in children(Parent.id) : b.req /\ b.id \notin Parent.used -> Ret("ERR", o)
          [] /\ \A b \in children(Parent.id) : b.req => b.id \in Parent.used
             /\ Parent.id = "EncodedHeader" ->
                IF o.packed \/ hdr.files # <<>> \/ createError(hdr) # "none" THEN Ret("ERR", up)
                ELSE Go([up EXCEPT !.filters = z7_filters_create(hdr, 0, hdr.unpack), !.ifilter = 1, !.packed = TRUE, !.cur = 1,
                                   !.folders[1].files = <<[NoFile EXCEPT !.size = hdr.unpack, !.crc = hdr.crc]>>,
                                   !.folders[1].ifile = 1, !.st = "META_UNPACK"])
          [] OTHER -> Go(up)
(* z7_blk_proc()                                                           *)
OpenBlock(b, oo, r) ==
    CASE r.e # "none" -> Ret("ERR", oo)
      [] r.e = "none" /\ children(b.id) # {} ->
            Go([oo EXCEPT !.blks = Append(@, [id |-> b.id, used |-> {}, prio |-> 0]), !.folders = r.f])
      [] OTHER -> Go([oo EXCEPT !.folders = r.f])
Block(b, bs) ==
    IF findError(bs, Parent.used, Parent.prio) # "none" THEN Ret("ERR", o)
    ELSE LET k == CHOOSE x \in bs : TRUE
         IN  OpenBlock(b, [o EXCEPT !.blks[Len(o.blks)].used = @ \cup {b.id}, !.gdata = Tail(@),
                                    !.blks[Len(o.blks)].prio = IF k.prio # 0 THEN k.prio ELSE @],
                       proc(Parent.id, b, o.folders))
BlkId ==
    /\ In("BLKID")
    /\ CASE o.gdata = <<>> -> IF Len(o.blks) # 1 THEN Ret("ERR", o)
                              ELSE Ret("FILEHDR", [o EXCEPT !.cur = Min({1, Len(o.folders)}), !.listed = TRUE])
         [] o.gdata # <<>> /\ Head(o.gdata).id = "End" -> IF Parent.id = "top" THEN Ret("ERR", o) ELSE EndBlock
         [] OTHER -> Block(Head(o.gdata), {b \in children(Parent.id) : b.id = Head(o.gdata).id})

MetaUnpack == In("META_UNPACK") /\ z7_filters_call

(* R_FSTART: z7_prep_unpackfile().  R_FDATA.                               *)
FStart ==
    /\ In("FSTART")
    /\ CASE fo.off = 0 -> Goto("FDONE")
         [] fo.off # 0 /\ o.filters = <<>> ->
              IF createError(fo) # "none" THEN Ret("ERR", o)
              ELSE Ret("SEEK", [o EXCEPT !.filters = z7_filters_create(fo, f.off, f.size), !.ifilter = 1,
                                         !.off = fo.off, !.st = "FDATA"])
         [] OTHER -> LET n == Len(o.filters)
                     IN  Go([o EXCEPT !.filters[n].off = f.off, !.filters[n].size = f.size, !.st = "FDATA"])
FData == In("FDATA") /\ z7_filters_call
FDone == In("FDONE") /\ Ret("FILEDONE", [o EXCEPT !.st = "FNEXT"])

Read == SzGather \/ GHdrGot \/ BlkId \/ MetaUnpack \/ FStart \/ FData \/ FDone

(* ff7z_nextfile(): also before the last one was read to its end.          *)
ff7z_nextfile ==
    /\ o.ret \in {"FILEHDR", "DATA", "FILEDONE"} /\ o.cur # 0
    /\ LET next(oo) == [oo EXCEPT !.folders[oo.cur].ifile = @ + 1, !.st = "FSTART", !.ret = "run"]
       IN  IF fo.ifile = Len(fo.files)
           THEN /\ o.cur # Len(o.folders)
                /\ o' = next([o EXCEPT !.filters = <<>>, !.folders[o.cur].ifile = 0, !.cur = @ + 1])
           ELSE o' = next(o)
    /\ w' = [w EXCEPT !.out = <<>>]

Next == Read \/ Move \/ Feed \/ ff7z_nextfile \/ Call({"DATA"})
Spec == Init /\ [][Next]_vars

-----------------------------------------------------------------------------
(* Every entry of the header gets its own name, time and attributes, and   *)
(* the files with data and the empty ones each keep their order.           *)
Listed ==
    o.listed =>
        LET files == FlattenSeq([i \in DOMAIN o.folders |-> o.folders[i].files])
            own(k) == SelectSeq([i \in 1..File.entries |-> i], LAMBDA i : (i \in File.empty) = k)
        IN  /\ [i \in DOMAIN files |-> files[i].name] = own(FALSE) \o own(TRUE)
            /\ \A i \in DOMAIN files : files[i].mtime = files[i].name /\ files[i].attr = files[i].name

(* A file's data is its part of what its folder unpacks to, whichever      *)
(* files were passed over before.                                          *)
FileTrue ==
    /\ o.ret = "DATA" => IsPrefix(FlattenSeq(w.out), Bytes(fo.off + f.off, f.size))
    /\ o.ret = "FILEDONE" => FlattenSeq(w.out) = Bytes(fo.off + f.off, f.size)

(* FF_ASSERT of z7_blk_proc(): the stack of open blocks does not overflow. *)
DepthOk == Len(o.blks) < MaxDepth
=============================================================================
