-------------------------------- MODULE Iso --------------------------------
(***************************************************************************)
(* The ISO-9660 reader and writer: FF/pack/ffiso.c and ffiso-fmt.c.        *)
(*                                                                         *)
(* An image is File.vols, the volume descriptors from sector VolSect on    *)
(* ([type, bad, root, size]), and File.ents, the directory entries: [off,  *)
(* len, name, dir, body, size] is an entry of len bytes at off; name ""    *)
(* for the directory itself and its parent.  Where no entry is the         *)
(* directory is zero up to the end of the sector.                          *)
(***************************************************************************)
EXTENDS Stream

CONSTANTS Sect,         \* FFISO_SECT
          VolSect,      \* 16: the sector of the first volume descriptor
          Options,      \* of {"NOJOLIET"}
          MaxReads      \* files the user reads

Ceil(n) == Sect * ((n + Sect - 1) \div Sect)
Sector(oo, nx) == Want(oo, Sect, nx)

Init ==
    /\ \E f \in Files : w = [reads |-> 0] @@ Caller(f)
    /\ o = [Object @@ [d |-> <<>>, fsize |-> 0, root |-> 0, joliet |-> FALSE, curfile |-> <<>>, files |-> <<>>,
                       cursor |-> 0, curdir |-> 0, cur |-> 0]
             EXCEPT !.st = "SEEK_PRIM"]

(* R_GATHER: a sector, in d.                                               *)
sectorGot(g) ==
    IF Len(g.buf) < Sect \/ o.in = <<>> THEN Ret("MORE", [o EXCEPT !.buf = g.buf, !.in = g.in])
    ELSE Go([o EXCEPT !.buf = <<>>, !.in = g.in, !.d = g.buf, !.off = @ + Sect, !.st = o.nx])
IsoGather == In("GATHER") /\ sectorGot(gather(o.buf, o.in, Sect))

SeekPrim == In("SEEK_PRIM") /\ Ret("SEEK", [Sector(o, "PRIM") EXCEPT !.off = VolSect * Sect])

vol == File.vols[(o.d[1] \div Sect) - VolSect + 1]
Prim ==
    /\ In("PRIM")
    /\ IF vol.type # "prim" \/ vol.bad \/ vol.size = 0 THEN Ret("ERR", o)
       ELSE Go([Sector(o, "VOLDESC") EXCEPT !.root = vol.root, !.fsize = vol.size])
VolDesc ==
    /\ In("VOLDESC")
    /\ CASE vol.type = "joliet" /\ "NOJOLIET" \notin Options /\ ~vol.bad ->
              Go([Sector(o, "VOLDESC") EXCEPT !.root = vol.root, !.fsize = vol.size, !.joliet = TRUE])
         [] vol.type = "term" -> Ret("HDR", [o EXCEPT !.off = o.root, !.st = "ENT_SEEK"])
         [] OTHER -> Go(Sector(o, "VOLDESC"))

EntSeek == In("ENT_SEEK") /\ Ret("SEEK", Sector(o, "ENT"))

(* read_next_dir(): the next directory among the files that were stored.   *)
nextDirs == {i \in DOMAIN o.files : i > o.cursor /\ o.files[i].dir}
read_next_dir ==
    IF nextDirs = {} THEN Ret("LISTEND", [o EXCEPT !.curdir = 0, !.cursor = 0])
    ELSE LET i == Min(nextDirs)
         IN  Go([o EXCEPT !.cursor = i, !.curdir = i, !.off = o.files[i].body, !.fsize = o.files[i].size, !.st = "ENT_SEEK"])

(* iso_ent_parse(), iso_rr_parse() and the name with its directory's.      *)
entGot(e, oo) ==
    IF e.name = "" THEN Go(oo)
    ELSE /\ o' = [oo EXCEPT !.ret = "FILEMETA",
                            !.curfile = [path |-> (IF o.curdir = 0 THEN <<>> ELSE o.files[o.curdir].path) \o <<e.name>>,
                                         dir |-> e.dir, body |-> e.body, size |-> e.size]]
         /\ UNCHANGED w
ents == {e \in File.ents : e.off = o.d[1]}
Ent ==
    /\ In("ENT")
    /\ CASE o.d = <<>> /\ o.fsize = 0 -> read_next_dir
         [] o.d = <<>> /\ o.fsize # 0 -> Go(Sector(o, "ENT"))
         [] o.d # <<>> /\ ents = {} -> Go([o EXCEPT !.fsize = Max({@ - Len(o.d), 0}), !.d = <<>>])
         [] OTHER -> \E e \in ents : IF e.len > Len(o.d) THEN Ret("ERR", o)
                                     ELSE entGot(e, [o EXCEPT !.d = Shift(@, e.len), !.fsize = @ - e.len])

FDataSeek == In("FDATA_SEEK") /\ Ret("SEEK", Sector(o, "FDATA"))
FData ==
    /\ In("FDATA")
    /\ LET n == Min({Len(o.d), o.fsize})
       IN  Out("DATA", SubSeq(o.d, 1, n),
               [IF o.fsize <= Len(o.d) THEN [o EXCEPT !.st = "FDONE"] ELSE Sector(o, "FDATA") EXCEPT !.fsize = @ - n])
FDone == In("FDONE") /\ Ret("FILEDONE", o)

Read == IsoGather \/ SeekPrim \/ Prim \/ VolDesc \/ EntSeek \/ Ent \/ FDataSeek \/ FData \/ FDone

(* The user stores every file listed (ffiso_storefile()), and when the     *)
(* list ends reads some (ffiso_readfile()).                                *)
ffiso_storefile ==
    /\ o.ret = "FILEMETA"
    /\ o' = [o EXCEPT !.files = Append(@, o.curfile), !.ret = "run"] /\ UNCHANGED w
ffiso_readfile(i) ==
    /\ o.ret \in {"LISTEND", "FILEDONE"} /\ w.reads < MaxReads
    /\ o' = IF o.files[i].dir THEN [o EXCEPT !.cur = i, !.st = "FDONE", !.ret = "run"]
            ELSE [o EXCEPT !.cur = i, !.off = o.files[i].body, !.fsize = o.files[i].size,
                           !.st = "FDATA_SEEK", !.ret = "run"]
    /\ w' = [w EXCEPT !.out = <<>>, !.reads = @ + 1]

Next == \/ Read \/ Move \/ Feed \/ Call({"HDR", "DATA"}) \/ ffiso_storefile
        \/ \E i \in DOMAIN o.files : ffiso_readfile(i)
Spec == Init /\ [][Next]_vars

(* The list is the whole tree, every file under its own path, directories  *)
(* before what is in them; a file's data is its own.                       *)
Tree ==
    /\ IsPrefix([i \in DOMAIN o.files |-> o.files[i].path], File.tree)
    /\ o.ret = "LISTEND" => Len(o.files) = Len(File.tree)
FileTrue ==
    o.ret = "FILEDONE" /\ ~o.files[o.cur].dir => FlattenSeq(w.out) = Bytes(o.files[o.cur].body, o.files[o.cur].size)
(* FF_ASSERT of R_GATHER                                                   *)
Aligned == o.st = "GATHER" => o.off % Sect = 0

-----------------------------------------------------------------------------
(* The writer.  File.list is what the user adds: [path, dir, size, len,    *)
(* jlen, plen, pjlen]: the lengths of its entry and, of a directory, of    *)
(* its path table entry, without and with Joliet.                          *)
CONSTANTS Dot,          \* length of the entry of a directory for itself
          RR, SP,       \* what Rock Ridge adds to it, and to the first one
          PRoot         \* length of the root's path table entry

NewDir(path, parent, ifile, f) ==
    [path |-> path, parent |-> parent, ifile |-> ifile, files |-> <<>>, off |-> 0, size |-> 0,
     plen |-> f.plen, pjlen |-> f.pjlen]
Root == [path |-> <<>>, dir |-> TRUE, size |-> 0, len |-> 0, jlen |-> 0, plen |-> PRoot, pjlen |-> PRoot, off |-> 0]
WInit ==
    /\ \E f \in Files : w = [added |-> 0, given |-> 0, at |-> <<>>] @@ Caller(f)
    /\ o = [Object @@ [dirs |-> <<NewDir(<<>>, 1, 0, Root)>>, jdirs |-> <<>>, idir |-> 0, ifile |-> 0, curfile_size |-> 0,
                       nsectors |-> 0, kept |-> TRUE] EXCEPT !.st = "W_DIR_WAIT", !.ret = "READY"]

(* ffiso_wfile(): a directory comes before what is in it.                  *)
iso_dir_find(path) == {i \in DOMAIN o.dirs : o.dirs[i].path = path}
addTo(p, f, oo) == [oo EXCEPT !.dirs[p].files = Append(@, [f EXCEPT !.off = 0])]
ffiso_wfile ==
    /\ o.ret = "READY" /\ o.st = "W_DIR_WAIT" /\ w.added < Len(File.list)
    /\ LET f == File.list[w.added + 1]
           ps == iso_dir_find(Front(f.path))
           p == Min(ps)
       IN  o' = CASE ps = {} -> [o EXCEPT !.st = "W_ERR"]
                  [] ps # {} /\ f.dir -> addTo(p, f, [o EXCEPT !.dirs = Append(@, NewDir(f.path, p, Len(o.dirs[p].files) + 1, f))])
                  [] OTHER -> addTo(p, f, o)
    /\ w' = [w EXCEPT !.added = @ + 1]
WStart == o.ret = "READY" /\ o.st \in {"W_DIR_WAIT", "W_ERR"} /\ w.added = Len(File.list) /\ Go([o EXCEPT !.ret = "run"])
WErr == In("W_ERR") /\ Ret("ERR", o)

(* iso_dirs_count(): the size of each directory; an entry does not cross   *)
(* a sector.  The fill of the sector goes on from directory to directory.  *)
fit(st, r) ==
    IF st.sect + r > Sect THEN [size |-> st.size + (Sect - st.sect) + r, sect |-> r]
    ELSE [size |-> st.size + r, sect |-> st.sect + r]
lens(dirs, i, jlt) ==
    [k \in DOMAIN dirs[i].files |-> IF jlt THEN dirs[i].files[k].jlen
                                    ELSE dirs[i].files[k].len + (IF i = 1 THEN SP ELSE 0)]
countDir(st, i, jlt) ==
    LET r == FoldLeft(fit, [size |-> 2 * Dot, sect |-> st.sect], lens(st.dirs, i, jlt))
        d == st.dirs[i]
    IN  [sect |-> r.sect, off |-> st.off + Ceil(r.size),
         dirs |-> IF i = 1 THEN [st.dirs EXCEPT ![1].size = Ceil(r.size), ![1].off = st.off]
                  ELSE [st.dirs EXCEPT ![i].size = Ceil(r.size), ![i].off = st.off,
                                       ![d.parent].files[d.ifile].size = Ceil(r.size),
                                       ![d.parent].files[d.ifile].off = st.off]]
iso_dirs_count(dirs, off, jlt) ==
    FoldLeft(LAMBDA st, i : countDir(st, i, jlt), [dirs |-> dirs, off |-> off, sect |-> 0], [i \in DOMAIN dirs |-> i])
(* iso_files_setoffsets()                                                  *)
setFile(st, ik) ==
    LET f == st.dirs[ik[1]].files[ik[2]]
    IN  IF f.dir THEN st ELSE [dirs |-> [st.dirs EXCEPT ![ik[1]].files[ik[2]].off = st.off], off |-> st.off + Ceil(f.size)]
iso_files_setoffsets(dirs, off) ==
    FoldLeft(setFile, [dirs |-> dirs, off |-> off],
             FlattenSeq([i \in DOMAIN dirs |-> [k \in DOMAIN dirs[i].files |-> <<i, k>>]])).dirs
(* iso_pathtab_countall(): the root's name is empty here, and has a byte   *)
(* where the table is written.                                             *)
tabSize(dirs, jlt, root) ==
    Ceil(root + MapThenSumSet(LAMBDA i : IF jlt THEN dirs[i].pjlen ELSE dirs[i].plen, 2..Len(dirs)))
Joliet == "NOJOLIET" \notin Options
counted(p, j) ==
    [o EXCEPT !.dirs = iso_files_setoffsets(p.dirs, j.off), !.idir = 1, !.st = "W_PATHTAB",
              !.jdirs = IF Joliet THEN iso_files_setoffsets(j.dirs, j.off) ELSE <<>>]
countAll(p) == counted(p, IF Joliet THEN iso_dirs_count(p.dirs, p.off, TRUE) ELSE p)
pathTabs == 2 * tabSize(o.dirs, FALSE, PRoot - 2) + (IF Joliet THEN 2 * tabSize(o.dirs, TRUE, PRoot - 2) ELSE 0)

Emit(r, n, oo) == /\ o' = [oo EXCEPT !.off = @ + n, !.ret = r]
                  /\ w' = [w EXCEPT !.pos = @ + n]
(* Where the parts really begin.                                           *)
EmitAt(key, n, oo) == /\ o' = [oo EXCEPT !.off = @ + n, !.ret = "DATA"]
                      /\ w' = [w EXCEPT !.pos = @ + n, !.at = @ @@ (key :> w.pos)]

WDirWait == In("W_DIR_WAIT") /\ Goto("W_EMPTY")
WEmpty == In("W_EMPTY") /\ Emit("DATA", VolSect * Sect, [o EXCEPT !.st = "W_EMPTY_VD"])
WEmptyVd ==
    /\ In("W_EMPTY_VD")
    /\ Emit("DATA", 3 * Sect, countAll(iso_dirs_count(o.dirs, o.off + 3 * Sect + pathTabs, FALSE)))

tabs == <<"W_PATHTAB", "W_PATHTAB_BE", "W_PATHTAB_JLT", "W_PATHTAB_JLT_BE", "W_DIR">>
WPathTab ==
    \E i \in 1..4 :
        /\ In(tabs[i])
        /\ IF i = 3 /\ ~Joliet THEN Goto("W_DIR")
           ELSE Emit("DATA", tabSize(o.dirs, i > 2, PRoot), [o EXCEPT !.st = tabs[i + 1]])

(* iso_dir_write(): the entries for the directory and its parent, then the *)
(* files'; an entry that does not fit into the size counted is not         *)
(* written.                                                                *)
written(dirs, i, jlt) ==
    LET rr == IF jlt THEN 0 ELSE RR
        first == 2 * (Dot + rr) + (IF i = 1 /\ ~jlt THEN SP ELSE 0)
        ls == [k \in DOMAIN dirs[i].files |-> IF jlt THEN dirs[i].files[k].jlen ELSE dirs[i].files[k].len]
    IN  FoldLeft(fit, [size |-> first, sect |-> first], ls).size
WDir ==
    \E jlt \in BOOLEAN :
        /\ In(IF jlt THEN "W_DIR_JLT" ELSE "W_DIR")
        /\ LET dirs == IF jlt THEN o.jdirs ELSE o.dirs
           IN  IF o.idir > Len(o.dirs)
               THEN IF ~jlt /\ Joliet THEN Go([o EXCEPT !.idir = 1, !.st = "W_DIR_JLT"])
                    ELSE Ret("MORE", [o EXCEPT !.idir = 1, !.st = "W_FILE_NEXT"])
               ELSE EmitAt(<<IF jlt THEN "jdir" ELSE "dir", o.idir>>, dirs[o.idir].size,
                           [o EXCEPT !.idir = @ + 1, !.kept = @ /\ written(dirs, o.idir, jlt) <= dirs[o.idir].size])

(* ffiso_wfilenext() with iso_file_next(), then the file's data.           *)
nextFiles == {ik \in UNION {{i} \X DOMAIN o.dirs[i].files : i \in o.idir..Len(o.dirs)} :
                ~o.dirs[ik[1]].files[ik[2]].dir /\ (ik[1] = o.idir => ik[2] > o.ifile)}
ffiso_wfilenext ==
    /\ o.ret = "MORE" /\ o.st = "W_FILE_NEXT" /\ nextFiles # {}
    /\ LET i == Min({ik[1] : ik \in nextFiles})
           k == Min({ik[2] : ik \in {x \in nextFiles : x[1] = i}})
       IN  /\ o' = [o EXCEPT !.idir = i, !.ifile = k, !.curfile_size = 0, !.st = "W_FILE", !.ret = "run"]
           /\ w' = [w EXCEPT !.given = 0, !.at = @ @@ (<<"file", i, k>> :> w.pos)]
curfile == o.dirs[o.idir].files[o.ifile]
WFile ==
    /\ In("W_FILE")
    /\ LET n == Len(o.in)
           oo == [o EXCEPT !.curfile_size = @ + n]
       IN  CASE oo.curfile_size > curfile.size -> Ret("ERR", oo)
             [] oo.curfile_size = curfile.size -> Emit("DATA", n, [oo EXCEPT !.st = "W_FILE_DONE", !.in = <<>>])
             [] oo.curfile_size < curfile.size /\ n = 0 -> Ret("MORE", oo)
             [] OTHER -> Emit("DATA", n, [oo EXCEPT !.in = <<>>])
WFileDone ==
    /\ In("W_FILE_DONE")
    /\ LET pad == Ceil(o.curfile_size) - o.curfile_size
       IN  IF pad = 0 THEN Goto("W_FILE_NEXT") ELSE Emit("DATA", pad, [o EXCEPT !.st = "W_FILE_NEXT"])
WFileNext == In("W_FILE_NEXT") /\ Ret("MORE", o)
WFeed ==
    /\ o.ret = "MORE" /\ o.st = "W_FILE"
    /\ \E n \in 1..Min({MaxPiece, curfile.size - w.given}) :
         o' = [o EXCEPT !.in = Bytes(w.given, n), !.ret = "run"] /\ w' = [w EXCEPT !.given = @ + n]

ffiso_wfinish ==
    o.ret = "MORE" /\ o.st = "W_FILE_NEXT" /\ nextFiles = {} /\ Go([o EXCEPT !.st = "W_VOLDESC_SEEK", !.ret = "run"])
WVolDescSeek ==
    In("W_VOLDESC_SEEK") /\ Ret("SEEK", [o EXCEPT !.nsectors = o.off \div Sect, !.off = VolSect * Sect, !.st = "W_VOLDESC_PRIM"])
WVolDesc ==
    \E st \in {"W_VOLDESC_PRIM", "W_VOLDESC_JLT", "W_VOLDESC_TERM"} :
        /\ In(st)
        /\ Emit("DATA", Sect, [o EXCEPT !.st = CASE st = "W_VOLDESC_PRIM" /\ Joliet -> "W_VOLDESC_JLT"
                                                 [] st = "W_VOLDESC_TERM" -> "W_DONE"
                                                 [] OTHER -> "W_VOLDESC_TERM"])
WDone == In("W_DONE") /\ Ret("DONE", o)

Write == \/ WErr \/ WDirWait \/ WEmpty \/ WEmptyVd \/ WPathTab \/ WDir \/ WFile \/ WFileDone \/ WFileNext
         \/ WVolDescSeek \/ WVolDesc \/ WDone
WNext == \/ Write \/ ffiso_wfile \/ WStart \/ ffiso_wfilenext \/ WFeed \/ ffiso_wfinish
         \/ Move \/ Call({"DATA"})
WSpec == WInit /\ [][WNext]_vars

(* Every directory and file is where the entries written before it say, in *)
(* both trees, and no entry is missing.                                    *)
LayoutTrue ==
    \A key \in DOMAIN w.at :
        CASE key[1] = "dir" -> o.dirs[key[2]].off = w.at[key]
          [] key[1] = "jdir" -> o.jdirs[key[2]].off = w.at[key]
          [] OTHER -> /\ o.dirs[key[2]].files[key[3]].off = w.at[key]
                      /\ Joliet => o.jdirs[key[2]].files[key[3]].off = w.at[key]
EntriesKept == o.kept
=============================================================================
