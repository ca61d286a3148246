-------------------------------- MODULE Mkv --------------------------------
(***************************************************************************)
(* The Matroska reader of FF/mformat/ffmkv.c: ffmkv_read() is a loop over  *)
(* m->state.  Elements are within elements; o.els is the stack of open     *)
(* ones, with the bytes left of each (size), the kinds of child seen       *)
(* (used) and the last priority (prio).                                    *)
(*                                                                         *)
(* An element of the file is [id, off, idlen, szlen, size, val]: idlen and *)
(* szlen are the lengths of the variable-width integers of its header, val *)
(* what mkv_int_ntoh() makes of its content.  The val of a block is [trk,  *)
(* time, hdr, how, code]: hdr bytes precede the frames; how and code tell  *)
(* how the lengths of its frames are coded.                                *)
(***************************************************************************)
EXTENDS Stream

CONSTANT Depth                  \* FFCNT(m->els)

UINT == 1000                    \* (uint64)-1
Root == [id |-> "root", size |-> UINT, used |-> {}, prio |-> 0, kids |-> "global"]
AUDIO == 2                      \* MKV_TRK_AUDIO

Init ==
    /\ o = [st |-> "ELID1", els |-> <<Root>>, type |-> -1, num |-> -1, audio |-> 0,
            time |-> 0, clust1 |-> -1, hdrsize |-> 0, nsamples |-> 0, lacing |-> <<>>] @@ Object
    /\ \E f \in Files : w = Caller(f)

Top == Len(o.els)
El == o.els[Top]

(* mkv_ctx_*: the elements known in each context, without the ones that    *)
(* only set a field of m->info.  A video element is marked T_TAG, as a tag.*)
K(multi, prio, data, kids) == [multi |-> multi, prio |-> prio, data |-> data, kids |-> kids]
Leaf == K(FALSE, 0, TRUE, "none")
Kinds == [
    global   |-> [head |-> K(FALSE, 1, FALSE, "head"), seg |-> K(FALSE, 2, FALSE, "segment")],
    head     |-> [ver |-> Leaf, doctype |-> Leaf],
    segment  |-> [info |-> K(FALSE, 1, FALSE, "info"), tracks |-> K(FALSE, 2, FALSE, "tracks"),
                  tags |-> K(FALSE, 0, FALSE, "tags"), clust |-> K(TRUE, 3, FALSE, "cluster")],
    info     |-> [scale |-> Leaf],
    tracks   |-> [trkent |-> K(TRUE, 0, FALSE, "trackentry")],
    trackentry |-> [trkno |-> Leaf, trktype |-> Leaf, video |-> K(FALSE, 0, FALSE, "video")],
    video    |-> [width |-> Leaf],
    tags     |-> [tag |-> K(TRUE, 0, FALSE, "simple")],
    simple   |-> [val |-> Leaf],
    cluster  |-> [time |-> K(FALSE, 1, TRUE, "none"), block |-> K(TRUE, 2, TRUE, "none")]]

(* The element whose header the bytes begin.                               *)
At(bytes) == CHOOSE e \in File.els : e.off = bytes[1]
IsHeader(bytes) == \E e \in File.els : e.off = bytes[1]

Skip ==
    /\ In("SKIP")
    /\ IF El.size > Len(o.in)
       THEN Ret("SEEK", [o EXCEPT !.off = @ + El.size, !.els[Top].size = 0, !.st = "NEXTCHUNK"])
       ELSE Go([Skipped(El.size) EXCEPT !.els[Top].size = 0, !.st = "NEXTCHUNK"])

(* Close the element if nothing is left of it.                             *)
NextChunk ==
    /\ In("NEXTCHUNK")
    /\ LET oo == [o EXCEPT !.els = SubSeq(@, 1, Top - 1)]
       IN CASE El.size # 0 -> Goto("ELID1")
            [] El.size = 0 /\ El.id = "seg" -> Ret("DONE", oo)
            [] El.size = 0 /\ El.id \in {"tag", "video"} -> Ret("TAG", oo)
            [] El.size = 0 /\ El.id = "trkent" /\ o.type = AUDIO -> Go([oo EXCEPT !.audio = o.num])
            [] OTHER -> Go(oo)

(* The length of the id shows in its first byte, that of the size next.    *)
ElId1 ==
    /\ In("ELID1")
    /\ CASE o.in = <<>> -> Ret("MORE", o)
         [] o.in # <<>> /\ IsHeader(o.in) -> Go(Want(o, At(o.in).idlen + 1, "ELSIZE1"))
         [] OTHER -> Ret("ERR", o)

ElSize1 ==
    /\ In("ELSIZE1")
    /\ LET e == At(o.gbuf)
           oo == [o EXCEPT !.hdrsize = e.idlen + e.szlen]
       IN  IF e.szlen = 1 THEN Go([oo EXCEPT !.st = "ELSIZE"])
           ELSE Go(Want([oo EXCEPT !.buf = o.gbuf], e.idlen + e.szlen, "ELSIZE"))

(* R_ELSIZE: the header is complete; mkv_el_info() looks it up.            *)
ElSize ==
    /\ In("ELSIZE")
    /\ LET e == At(o.gbuf)
           known == e.id \in DOMAIN Kinds[El.kids]
           k == IF known THEN Kinds[El.kids][e.id] ELSE Leaf
           oo == [o EXCEPT !.els =
                     [@ EXCEPT ![Top].size = @ - (o.hdrsize + e.size),
                               ![Top].used = IF known THEN @ \cup {e.id} ELSE @,
                               ![Top].prio = IF known /\ k.prio # 0 THEN k.prio ELSE @]
                     \o <<[id |-> e.id, size |-> IF known /\ k.data THEN 0 ELSE e.size,
                           used |-> {}, prio |-> 0, kids |-> k.kids]>>]
       IN CASE o.hdrsize + e.size > El.size \/
               (known /\ ((e.id \in El.used /\ ~k.multi) \/ k.prio > El.prio + 1)) -> Ret("ERR", o)
            [] o.hdrsize + e.size <= El.size /\ ~known -> Go([oo EXCEPT !.st = "SKIP"])
            [] OTHER -> IF k.data THEN Go(Want(oo, e.size, "EL")) ELSE Go([oo EXCEPT !.st = "EL"])

(* What the collected bytes say, by the element they are the content of.   *)
Val == (CHOOSE e \in File.els : e.off + e.idlen + e.szlen = o.gbuf[1] /\ e.size = Len(o.gbuf)).val
After(oo) == [oo EXCEPT !.st = IF El.kids = "none" THEN "SKIP" ELSE "NEXTCHUNK"]

(* R_EL, by element; the first cluster returns once and is then entered.   *)
Set == /\ In("EL") /\ El.id \notin {"clust", "block", "ver"}
       /\ Go(After(CASE El.id = "trkno"   -> [o EXCEPT !.num = Val]
                     [] El.id = "trktype" -> [o EXCEPT !.type = Val]
                     [] El.id = "time"    -> [o EXCEPT !.time = Val]
                     [] OTHER             -> o))

Version == In("EL") /\ El.id = "ver" /\ IF Val # 1 THEN Ret("ERR", o) ELSE Go(After(o))

Cluster == /\ In("EL") /\ El.id = "clust"
           /\ IF o.clust1 = -1 THEN Ret("HDR", [o EXCEPT !.clust1 = o.off - o.hdrsize])
              ELSE Go(After(o))

(* mkv_lacing(): the lengths of the frames but the last, from what is      *)
(* coded: the lengths, the first and differences, or just their number.    *)
mkv_lacing(b, len) ==
    CASE b.how = "xiph"  -> b.code
      [] b.how = "ebml"  -> [i \in DOMAIN b.code |-> MapThenSumSet(LAMBDA k : b.code[k], 1..i)]
      [] b.how = "fixed" -> [i \in 1..b.code[1] |-> len \div b.code[1]]
BadLacing(b, len) ==
    \/ b.how = "fixed" /\ len % b.code[1] # 0
    \/ b.how = "ebml" /\ \E i \in DOMAIN b.code : mkv_lacing(b, len)[i] < 0

(* mkv_block(): not ours, one frame, or a sequence of them.                *)
Block ==
    /\ In("EL") /\ El.id = "block"
    /\ LET b == Val
           data == Shift(o.gbuf, b.hdr)
           oo == [o EXCEPT !.nsamples = o.time + b.time]
       IN CASE b.trk # o.audio -> Go(After(o))
            [] b.trk = o.audio /\ b.how = "no" ->
                 Out("DATA", <<oo.nsamples, data>>, [oo EXCEPT !.st = "SKIP"])
            [] b.trk = o.audio /\ b.how # "no" /\ BadLacing(b, Len(data)) -> Ret("ERR", oo)
            [] OTHER -> Go([oo EXCEPT !.gbuf = data, !.lacing = mkv_lacing(b, Len(data)),
                                      !.st = "LACING"])

(* The frames of a laced block; what is left is the last of them.          *)
Lacing ==
    /\ In("LACING")
    /\ IF o.lacing = <<>> THEN Out("DATA", <<o.nsamples, o.gbuf>>, [o EXCEPT !.st = "SKIP"])
       ELSE Out("DATA", <<o.nsamples, SubSeq(o.gbuf, 1, Head(o.lacing))>>,
                [o EXCEPT !.gbuf = Shift(@, Head(o.lacing)), !.lacing = Tail(@)])

Read == \/ Skip \/ NextChunk \/ Collect \/ ElId1 \/ ElSize1 \/ ElSize
        \/ Set \/ Version \/ Cluster \/ Block \/ Lacing

Next == Read \/ Feed \/ Move \/ Call({"TAG", "HDR", "DATA"})
Spec == Init /\ [][Next]_vars
=============================================================================
