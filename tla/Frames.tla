------------------------------- MODULE Frames -------------------------------
(***************************************************************************)
(* The readers of audio files that are a row of blocks: Musepack           *)
(* (FF/aformat/ffmpc.c), Monkey's Audio (FF/audio/ffape.c), WavPack        *)
(* (FF/audio/ffwavpack.c) and AAC in ADTS (FF/aformat/ffaac-adts.c).       *)
(* File.fmt tells which of them reads the file; the states of one begin    *)
(* with its letter.  The decoders are external: what is returned is the    *)
(* bytes that were given to them, and the sample the reader says they      *)
(* begin with.                                                             *)
(*                                                                         *)
(* File.blocks is the sequence of blocks [off, len, hdr, id, sample]; a    *)
(* byte offset in File.fakes looks like the begin of one.  The file ends   *)
(* with File.ape bytes of APE tag and File.id31 of ID3v1.  A block has     *)
(* BlkSamples samples.                                                     *)
(***************************************************************************)
EXTENDS Stream

CONSTANTS ChkSize,              \* *_FTRTAGS_CHKSIZE
          BlkSamples, Align,    \* samples in a block, alignment of .ape frames
          HdrLen, MaxHdr,       \* least length of a block's header, FFMPC_BLKHDR_MAXSIZE
          Opts,                 \* FFMPC_O_*, FF*_O_APETAG and FF*_O_ID3V1
          MaxSeeks

Is(b) == \E i \in DOMAIN File.blocks : File.blocks[i].off = b
At(b) == File.blocks[CHOOSE i \in DOMAIN File.blocks : File.blocks[i].off = b]
Samples == BlkSamples * Cardinality({i \in DOMAIN File.blocks : File.blocks[i].id = "AP"})
MinChk(n) == Min({ChkSize, n})

Reader == [tag |-> <<>>, ape |-> "I_FTR", id31 |-> TRUE, total_size |-> 0, hdrok |-> FALSE, dataoff |-> 0,
           blk |-> 0, blk_off |-> 0, blk_size |-> 0, apos |-> 0, seek_sample |-> 0, rate |-> FALSE, ST_off |-> 0, seekctx |-> FALSE,
           seekdone |-> FALSE, pcmlen |-> 0, skoff |-> -1, pt |-> <<Pt(0, 0), Pt(0, 0)>>, shift |-> 0, s |-> <<>>, first |-> -1]
Init == \E f \in Files :
          /\ o = [Object @@ Reader EXCEPT !.st = f.fmt \o "_INIT", !.total_size = IF f.fmt = "a" THEN 0 ELSE f.size]
          /\ w = [seeks |-> 0, lost |-> FALSE] @@ Caller(f)
Fmt == File.fmt
To(oo, st) == [oo EXCEPT !.st = Fmt \o st]
At_(st) == In(Fmt \o st)

(* Collect; what is collected stays in buf.                                *)
Took(oo, g) == [oo EXCEPT !.buf = g.buf, !.in = g.in, !.off = @ + Len(oo.in) - Len(g.in)]
Gathered(x) == IF Len(x.buf) < x.gsize THEN Ret("MORE", x) ELSE Go([x EXCEPT !.st = x.nx])
GatherBuf == In("GATHER") /\ Fmt # "a" /\ Gathered(Took(o, gather(o.buf, o.in, o.gsize)))
Block(id, oo, bytes, sample) == Out(id, [b |-> bytes, from |-> sample], oo)

-----------------------------------------------------------------------------
(* The tags at the end: ID3v1, then APE.  Only .ape and .wv look for the   *)
(* former.  Where total_size is less than ChkSize, .mpc moves to the end.  *)
TagSeek(oo, st) == Ret("SEEK", [Want(oo, MinChk(o.total_size), Fmt \o st) EXCEPT !.off = o.total_size - MinChk(o.total_size)])
AfterTags == IF Fmt = "m" THEN "_AFRAME_SEEK" ELSE "_TAGSFIN"
Id31Again ==
    /\ At_("_ID31")
    /\ CASE "id3v1" \notin Opts \/ File.id31 = 0 \/ Len(o.buf) < File.id31 -> Go(To(o, "_APE2"))
         [] OTHER -> Ret("TAG", o)
Id31 ==
    /\ At_("_ID31")
    /\ CASE "id3v1" \notin Opts \/ File.id31 = 0 \/ Len(o.buf) < File.id31 -> Go(To(o, "_APE2"))
         [] OTHER -> IF o.id31 THEN Ret("TAG", [o EXCEPT !.id31 = FALSE])
                     ELSE Go(To([o EXCEPT !.buf = SubSeq(@, 1, Len(@) - File.id31), !.total_size = @ - File.id31, !.off = @ - File.id31], "_APE2"))
ApeMore == At_("_APE2_MORE") /\ Go(To([o EXCEPT !.buf = o.in], "_APE2"))
ApeTag(oo, tag) == Go([oo EXCEPT !.tag = tag, !.ape = "I_HDR"])
ApeFooter ==
    /\ At_("_APE2") /\ o.ape = "I_FTR"
    /\ LET size == File.ape
           oo == [o EXCEPT !.total_size = @ - size]
       IN CASE size = 0 \/ "apetag" \notin Opts -> Go(To(o, AfterTags))
            [] size > Len(o.buf) -> Ret("SEEK", To([oo EXCEPT !.off = @ - size, !.ape = "I_COPYTAG"], "_APE2_MORE"))
            [] OTHER -> ApeTag(oo, Shift(o.buf, Len(o.buf) - size))
ApeCopy ==
    /\ At_("_APE2") /\ o.ape = "I_COPYTAG"
    /\ LET g == gather(o.tag, o.buf, File.ape)
       IN  IF Len(g.buf) < File.ape THEN Ret("MORE", To([o EXCEPT !.tag = g.buf, !.in = <<>>], "_APE2_MORE")) ELSE ApeTag(o, g.buf)
ApeFields ==
    /\ At_("_APE2") /\ o.ape \in {"I_HDR", "I_FLD"}
    /\ CASE o.ape = "I_HDR" /\ File.apebad -> Ret("WARN", To(o, AfterTags))
         [] o.ape = "I_HDR" /\ ~File.apebad -> Ret("TAG", [o EXCEPT !.ape = "I_FLD"])
         [] OTHER -> Go(To(o, AfterTags))
Tags == Id31 \/ ApeMore \/ ApeFooter \/ ApeCopy \/ ApeFields

-----------------------------------------------------------------------------
(* ffmpc_read().  A block's body is in buf behind its header.              *)
MpcStart == In("m_INIT") /\ Go(Want(o, 4, "m_HDR"))
MpcHdr == In("m_HDR") /\ IF File.bad THEN Ret("ERR", o) ELSE Go(To([o EXCEPT !.buf = <<>>], "_NXTBLOCK"))
MpcNext == In("m_NXTBLOCK") /\ Go(Want([o EXCEPT !.buf = Shift(@, Min({o.blk_size, Len(@)}))], HdrLen, "m_BLOCK_HDR_MIN"))

ffmpc_streamerr(oo) == To([oo EXCEPT !.buf = <<>>], "_FIND_AP")
MpcBad == IF o.hdrok THEN Ret("WARN", ffmpc_streamerr(o)) ELSE Ret("ERR", o)
MpcHdrMin ==
    /\ In("m_BLOCK_HDR_MIN")
    /\ Go(IF Is(o.buf[1]) /\ At(o.buf[1]).hdr = HdrLen THEN To(o, "_BLOCK_HDR") ELSE Want(o, MaxHdr, "m_BLOCK_HDR"))
mpc_block(id) == IF id \in {"AP", "EI", "RG", "SE", "SH", "SO", "ST"} THEN id ELSE "SKIP"
FirstAP(oo) ==          \* the header is complete
    CASE "seektable" \in Opts /\ oo.ST_off # 0 -> To(oo, "_ST_SEEK")
      [] ~("seektable" \in Opts /\ oo.ST_off # 0) /\ "apetag" \in Opts -> To(oo, "_TAGS_SEEK")
      [] OTHER -> To([oo EXCEPT !.hdrok = TRUE], "_AP")
MpcFound(oo, id) ==
    CASE oo.hdrok -> Go(IF id \in {"AP", "SE"} THEN [oo EXCEPT !.st = "GATHER", !.nx = "m_" \o id] ELSE To(oo, "_SKIP"))
      [] ~oo.hdrok /\ id = "AP" -> IF ~oo.rate THEN Ret("ERR", oo) ELSE Ret("HDR", FirstAP([oo EXCEPT !.dataoff = oo.off - Len(oo.buf)]))
      [] ~oo.hdrok /\ id = "SKIP" -> Go(To(oo, "_SKIP"))
      [] OTHER -> Go([oo EXCEPT !.st = "GATHER", !.nx = "m_" \o id])
MpcBlockHdr ==
    /\ In("m_BLOCK_HDR")
    /\ IF ~Is(o.buf[1]) THEN MpcBad
       ELSE LET b == At(o.buf[1]) IN MpcFound([o EXCEPT !.blk_off = b.hdr, !.blk_size = b.len, !.gsize = b.len], mpc_block(b.id))
MpcSkip ==
    /\ In("m_SKIP")
    /\ LET k == Min({o.blk_size, Len(o.buf)})
           n == Min({o.blk_size - k, Len(o.in)})
           oo == [o EXCEPT !.buf = Shift(@, k), !.in = Shift(@, n), !.off = @ + n, !.blk_size = @ - k - n]
       IN IF oo.blk_size # 0 THEN Ret("MORE", oo) ELSE Go(To(oo, "_NXTBLOCK"))
MpcMeta ==      \* mpc_sh_parse(), mpc_ei_parse(), mpc_rg_parse(), the offset in SO
    /\ o.ret = "run" /\ o.st \in {"m_SH", "m_EI", "m_RG", "m_SO"}
    /\ CASE o.st = "m_SH" -> Go(To([o EXCEPT !.rate = TRUE, !.seek_sample = File.delay], "_NXTBLOCK"))
         [] o.st = "m_SO" -> Go(To([o EXCEPT !.ST_off = File.so + o.off - o.blk_size], "_NXTBLOCK"))
         [] OTHER -> Go(To(o, "_NXTBLOCK"))
Seen(x) == x.seek_sample # 0 /\ x.seek_sample >= x.apos
body(x) == [i \in 1..(x.blk_size - x.blk_off) |-> IF i + x.blk_off <= Len(x.buf) THEN x.buf[i + x.blk_off] ELSE -1]
MpcAP ==
    /\ In("m_AP")
    /\ LET x == To([o EXCEPT !.apos = @ + BlkSamples], "_NXTBLOCK")
       IN IF Seen(x) THEN Go(x) ELSE Block("BLOCK", [x EXCEPT !.seek_sample = 0], body(x), x.apos - BlkSamples)
MpcSE == In("m_SE") /\ Ret("DONE", o)
MpcStSeek == In("m_ST_SEEK") /\ Ret("SEEK", [Want([o EXCEPT !.buf = <<>>], HdrLen, "m_BLOCK_HDR_MIN") EXCEPT !.off = o.ST_off])
MpcST ==
    /\ In("m_ST")
    /\ CASE "seektable" \notin Opts -> Go(To(o, "_NXTBLOCK"))
         [] OTHER -> Go(To([o EXCEPT !.seekctx = TRUE], IF "apetag" \in Opts THEN "_TAGS_SEEK" ELSE "_AFRAME_SEEK"))
MpcTagsSeek ==
    /\ In("m_TAGS_SEEK")
    /\ Ret("SEEK", [Want([o EXCEPT !.buf = <<>>], MinChk(o.total_size), "m_APE2")
                      EXCEPT !.off = IF o.total_size < ChkSize THEN o.total_size ELSE o.total_size - ChkSize])
MpcFrameSeek ==
    /\ In("m_AFRAME_SEEK")
    /\ LET oo == [o EXCEPT !.buf = <<>>, !.hdrok = TRUE]
       IN IF o.seek_sample # 0 THEN Go(To(oo, "_SEEK")) ELSE Ret("SEEK", [Want(oo, HdrLen, "m_BLOCK_HDR_MIN") EXCEPT !.off = o.dataoff])
(* mpc_getseekoff(): by the table, which libmpc keeps, or by a guess.      *)
AP(k) == SelectSeq(File.blocks, LAMBDA b : b.id = "AP")[k + 1]
MpcSeek ==
    /\ In("m_SEEK")
    /\ LET k == o.seek_sample \div BlkSamples
           off == IF o.seekctx THEN AP(k).off
                  ELSE ffpcm_seek(o.seek_sample, <<Pt(0, o.dataoff), Pt(Samples, o.total_size)>>, [index |-> 0, samples |-> 0, size |-> 0, off |-> 0], 0, 0, FALSE).off
       IN Ret("SEEK", To([o EXCEPT !.off = off, !.buf = <<>>, !.apos = k * BlkSamples], "_FIND_AP"))

(* mpc_findAP(), with ffbuf_contig() and ffbuf_contig_store(): in what is  *)
(* left of the last piece and a byte of this one, then in this one.        *)
LooksAP(b) == b \in File.fakes \/ (Is(b) /\ At(b).id = "AP")
apIn(s) == {i \in 1..(Len(s) - 1) : LooksAP(s[i]) /\ s[i + 1] = s[i] + 1}
findIn(x, s, inBuf) ==
    IF apIn(s) # {} THEN [x EXCEPT !.in = IF inBuf THEN @ ELSE Shift(@, Min(apIn(s)) - 1), !.off = @ + (Min(apIn(s)) - 1)]
    ELSE IF inBuf THEN [x EXCEPT !.buf = <<Last(@)>>]
    ELSE [x EXCEPT !.buf = Shift(x.in, Max({0, Len(x.in) - 1})), !.in = <<>>, !.off = @ + Len(x.in)]
contig(x) ==
    IF x.buf # <<>> THEN LET y == Took(x, gather(x.buf, x.in, 2)) IN findIn(y, y.buf, TRUE) ELSE findIn(x, x.in, FALSE)
MpcFindAP ==
    /\ In("m_FIND_AP")
    /\ LET found(x) == CASE apIn(x.buf) # {} \/ (x.buf = <<>> /\ x.in # <<>>) -> Go(Want(x, HdrLen, "m_BLOCK_HDR_MIN"))
                         [] x.in = <<>> -> Ret("MORE", x)
                         [] OTHER -> Go(x)
       IN found(contig(o))
MpcTags == Fmt = "m" /\ Tags
Mpc == \/ MpcTags \/ MpcStart \/ MpcHdr \/ MpcNext \/ MpcHdrMin \/ MpcBlockHdr \/ MpcSkip \/ MpcMeta \/ MpcAP \/ MpcSE \/ MpcStSeek
       \/ MpcST \/ MpcTagsSeek \/ MpcFrameSeek \/ MpcSeek \/ MpcFindAP

-----------------------------------------------------------------------------
(* ffape_decode().  The frames begin anywhere, and are read from and to    *)
(* the next multiple of 4 bytes from the first one.                        *)
frames == Len(File.blocks)
point(k) == IF k = frames THEN o.total_size ELSE File.blocks[k + 1].off
slack(k) == (point(k) - point(0)) % Align
frame_offset(k) == point(k) - slack(k)
frame_size(k) == frame_offset(k + 1) - frame_offset(k) + (IF slack(k + 1) # 0 THEN Align ELSE 0)

ApeHdr ==       \* _ffape_hdr(): ape_parse() needs all of it at once
    /\ In("p_INIT")
    /\ CASE o.in = <<>> -> Ret("MORE", o)
         [] o.in # <<>> /\ (Len(o.in) < File.hdr \/ File.bad) -> Ret("ERR", o)
         [] OTHER -> Go(Want([o EXCEPT !.in = Shift(@, File.hdr), !.off = @ + File.hdr], frames, "p_SEEKTAB"))
ApeSeektab ==   \* ape_seektab(): offsets must grow
    /\ In("p_SEEKTAB")
    /\ CASE \E k \in 1..(frames - 1) : point(k) <= point(k - 1) -> Ret("ERR", o)
         [] OTHER -> IF File.wav # 0 THEN Ret("SEEK", To([o EXCEPT !.buf = <<>>, !.off = @ + File.wav], "_HDR2")) ELSE Go(To([o EXCEPT !.buf = <<>>], "_HDR2"))
ApeHdr2 == In("p_HDR2") /\ Ret("HDR", To([o EXCEPT !.dataoff = o.off], "_TAGSEEK"))
ApeTagSeek == In("p_TAGSEEK") /\ IF Opts \cap {"apetag", "id3v1"} = {} THEN Go(To(o, "_HDRFIN")) ELSE TagSeek(o, "_ID31")
ApeTagsFin == In("p_TAGSFIN") /\ Ret("SEEK", To([o EXCEPT !.buf = <<>>, !.off = o.dataoff], "_HDRFIN"))
ApeHdrFin == In("p_HDRFIN") /\ IF point(frames - 1) >= o.total_size THEN Ret("ERR", o) ELSE Ret("HDRFIN", To(o, "_DINIT"))
ApeInit == In("p_DINIT") /\ Go(To(o, IF o.seek_sample # 0 THEN "_SEEK" ELSE "_FR"))
ApeNext ==
    /\ In("p_NEXT")
    /\ LET oo == [o EXCEPT !.apos = @ + o.pcmlen] IN IF oo.apos = Samples THEN Ret("DONE", oo) ELSE Go(To(oo, "_FR"))
ApeGot(x, k, size) ==
    LET y == To([x EXCEPT !.buf = Shift(@, frame_offset(k + 1) - frame_offset(k)), !.off = @ + size], "_NEXT")
        n == IF x.seekdone THEN x.seek_sample - x.apos ELSE 0
    IN IF k \in File.undecodable THEN Ret("WARN", y)
       ELSE Block("DATA", [y EXCEPT !.seekdone = FALSE, !.apos = @ + n, !.pcmlen = BlkSamples - n], SubSeq(x.buf, 1, size), x.apos + n)
ApeFr ==
    /\ In("p_FR")
    /\ LET k == o.apos \div BlkSamples
           got(g) == IF Len(g.buf) < frame_size(k) THEN Ret("MORE", [o EXCEPT !.buf = g.buf, !.in = <<>>])
                     ELSE ApeGot([o EXCEPT !.buf = g.buf, !.in = g.in], k, frame_size(k))
       IN got(gather(o.buf, o.in, frame_size(k)))
ApeSeek ==
    /\ In("p_SEEK")
    /\ LET k == o.seek_sample \div BlkSamples
       IN Ret("SEEK", To([o EXCEPT !.off = frame_offset(k), !.apos = k * BlkSamples, !.seekdone = TRUE, !.buf = <<>>], "_FR"))
ApeTags == Fmt = "p" /\ Tags
Ape == \/ ApeTags \/ ApeHdr \/ ApeSeektab \/ ApeHdr2 \/ ApeTagSeek \/ ApeTagsFin \/ ApeHdrFin \/ ApeInit \/ ApeNext \/ ApeFr \/ ApeSeek

-----------------------------------------------------------------------------
(* ffwvpk_decode().                                                        *)
wvpk_findblock == [b \in 0..File.size |-> IF Is(b) THEN HdrLen ELSE 0]
(* _ffwvpk_gethdr(): "OK", "SYNC" (found, but not at once) or "MORE".      *)
wvHdr(g) == [r |-> CASE g.r = "MORE" -> "MORE" [] g.r # "MORE" /\ g.n # 0 -> "SYNC" [] OTHER -> "OK", o |-> Took(o, g)]
_ffwvpk_gethdr == wvHdr(ffbuf_gather(o.buf, o.in, HdrLen, wvpk_findblock))
inBlock(oo) == LET b == At(oo.buf[1]) IN To([oo EXCEPT !.blk_size = b.len, !.apos = b.sample], "_BLOCK")
WvOpen == In("v_INIT") /\ Go(To(o, "_BLOCKHDR"))
WvBlockHdr ==
    /\ In("v_BLOCKHDR")
    /\ LET got(h) == CASE h.r = "MORE" -> Ret("MORE", h.o) [] h.r = "SYNC" -> Ret("WARN", inBlock(h.o)) [] OTHER -> Go(inBlock(h.o))
       IN CASE o.off = o.total_size -> Ret("DONE", o)
            [] o.off # o.total_size /\ o.in = <<>> -> Ret("MORE", o)
            [] OTHER -> got(_ffwvpk_gethdr)
WvBlock ==
    /\ In("v_BLOCK")
    /\ LET got(x) == IF Len(x.buf) < o.blk_size THEN Ret("MORE", x) ELSE Go(To(x, IF x.hdrok THEN "_DATA" ELSE "_HDR"))
       IN got(Took(o, gather(o.buf, o.in, o.blk_size)))
WvHdr == In("v_HDR") /\ Ret("HDR", To([o EXCEPT !.buf = <<>>, !.hdrok = TRUE], "_TAGSEEK"))
WvTagSeek == In("v_TAGSEEK") /\ IF Opts \cap {"apetag", "id3v1"} = {} THEN Go(To(o, "_HDRFIN")) ELSE TagSeek(o, "_ID31")
WvTagsFin == In("v_TAGSFIN") /\ Ret("SEEK", To([o EXCEPT !.buf = <<>>, !.off = 0], "_HDRFIN"))
WvHdrFin == In("v_HDRFIN") /\ Ret("HDRFIN", To([o EXCEPT !.pt = <<Pt(0, 0), Pt(Samples, o.total_size)>>], "_BLOCKHDR"))
WvData ==
    /\ In("v_DATA")
    /\ LET n == IF o.seekdone THEN o.seek_sample - o.apos ELSE 0
       IN Block("DATA", To([o EXCEPT !.buf = <<>>, !.seekdone = FALSE], "_BLOCKHDR"), o.buf, o.apos + n)
WvSeekAt(x, b) ==
    LET to(sk) == CASE sk.r = 0 -> Go([inBlock(x) EXCEPT !.seekdone = TRUE])
                    [] sk.r = 1 -> Ret("SEEK", [x EXCEPT !.pt = sk.pt, !.off = sk.off, !.skoff = sk.off, !.buf = <<>>])
                    [] OTHER -> Ret("ERR", x)
    IN to(ffpcm_seek(x.seek_sample, x.pt, [index |-> b.sample, samples |-> BlkSamples, size |-> b.len, off |-> x.off - Len(x.buf)], x.skoff, BlkSamples, TRUE))
WvSeek ==
    /\ In("v_SEEK")
    /\ LET got(h) == IF h.r = "MORE" THEN Ret("MORE", h.o) ELSE WvSeekAt(h.o, At(h.o.buf[1])) IN got(_ffwvpk_gethdr)
WvTags == Fmt = "v" /\ Tags
Wv == \/ WvTags \/ WvOpen \/ WvBlockHdr \/ WvBlock \/ WvHdr \/ WvTagSeek \/ WvTagsFin \/ WvHdrFin \/ WvData \/ WvSeek

-----------------------------------------------------------------------------
(* ffaac_adts_read().  s is the piece that was asked for, at the begin of  *)
(* buf or, if nothing was in buf, before the input.                        *)
shifted(oo, n) ==
    CASE oo.buf # <<>> -> [oo EXCEPT !.buf = Shift(@, Max({n, 0}))]
      [] oo.buf = <<>> /\ n < 0 -> [oo EXCEPT !.in = oo.s \o @]
      [] OTHER -> [oo EXCEPT !.in = Shift(@, n)]
AdGather(oo, n, st) == [oo EXCEPT !.st = "a_GATHER_SHIFT", !.nx = st, !.gsize = n]
AdShift == In("a_GATHER_SHIFT") /\ Go(To([shifted(o, o.shift) EXCEPT !.shift = 0], "_GATHER"))
AdGot(s, oo) == Go([oo EXCEPT !.s = s, !.shift = IF oo.buf # <<>> THEN o.gsize ELSE 0, !.st = o.nx])
AdGatherNow ==
    /\ In("a_GATHER")
    /\ LET n == o.gsize
           x == Took(o, gather(o.buf, o.in, n))
       IN CASE o.buf = <<>> /\ Len(o.in) >= n -> AdGot(SubSeq(o.in, 1, n), [o EXCEPT !.in = Shift(@, n)])
            [] Len(o.buf) >= n -> AdGot(SubSeq(o.buf, 1, n), o)
            [] OTHER -> CASE Len(x.buf) = n -> AdGot(x.buf, x)
                          [] Len(x.buf) < n /\ w.pos = File.size -> Ret("DONE", x)
                          [] OTHER -> Ret("MORE", x)
AdInit == In("a_INIT") /\ Go(To(o, "_HDR_SYNC"))
Same(a, b) == At(a).id = At(b).id
adts_hdr_find(s) == {i \in 1..(Len(s) - HdrLen + 1) : Is(s[i]) /\ (o.first = -1 \/ Same(s[i], o.first))}
adFind(x, s, inBuf) ==
    IF Len(s) >= HdrLen /\ adts_hdr_find(s) # {}
    THEN LET y == shifted(x, Min(adts_hdr_find(s)) - 1)
         IN AdGather([y EXCEPT !.shift = 0, !.blk = At(s[Min(adts_hdr_find(s))]).len], At(s[Min(adts_hdr_find(s))]).len + HdrLen, "a_HDR_SYNC2")
    ELSE IF inBuf THEN [x EXCEPT !.buf = Shift(@, Max({0, Len(@) - (HdrLen - 1)}))]
    ELSE [x EXCEPT !.buf = Shift(x.in, Max({0, Len(x.in) - (HdrLen - 1)})), !.in = <<>>]
adContig(x) ==
    IF x.buf = <<>> THEN adFind(x, x.in, FALSE)
    ELSE LET n == Min({HdrLen - 1, Len(x.in)})
             y == IF Len(x.buf) >= HdrLen THEN x ELSE [x EXCEPT !.buf = @ \o SubSeq(x.in, 1, n), !.in = Shift(@, n)]
         IN adFind(y, y.buf, TRUE)
AdSync ==
    /\ In("a_HDR_SYNC")
    /\ LET got(x) == IF x.st = "a_HDR_SYNC" /\ x.in = <<>> THEN Ret("MORE", x) ELSE Go(x) IN got(adContig(o))
AdSync2 ==
    /\ In("a_HDR_SYNC2")
    /\ LET b == o.s[o.blk + 1]
       IN IF ~Is(b) \/ ~Same(b, o.s[1]) THEN Go(To(shifted([o EXCEPT !.in = IF o.buf = <<>> THEN o.s \o @ ELSE @], 1), "_HDR_SYNC"))
          ELSE Go(AdGather([o EXCEPT !.shift = -o.gsize], HdrLen, "a_HDR"))
AdHdr ==
    /\ In("a_HDR")
    /\ LET b == o.s[1]
           next == IF "wholeframe" \in Opts THEN AdGather([o EXCEPT !.shift = -HdrLen], At(b).len, "a_DATA")
                   ELSE AdGather(o, At(b).len - HdrLen, "a_DATA")
       IN CASE ~Is(b) -> Ret("WARN", To(o, "_HDR_SYNC"))
            [] Is(b) /\ o.first = -1 -> Ret("HDR", [next EXCEPT !.first = b])
            [] Is(b) /\ o.first # -1 /\ ~Same(b, o.first) -> Ret("WARN", To(next, "_HDR_SYNC"))
            [] OTHER -> Go(next)
AdData == In("a_DATA") /\ Block("DATA", AdGather([o EXCEPT !.apos = @ + BlkSamples], HdrLen, "a_HDR"), o.s, o.apos)
Adts == AdShift \/ AdGatherNow \/ AdInit \/ AdSync \/ AdSync2 \/ AdHdr \/ AdData

-----------------------------------------------------------------------------
(* The user moves: ffmpc_blockseek(), ffape_seek(), ffwvpk_seek().         *)
Seeked(oo, sample) ==
    CASE Fmt = "m" -> IF oo.hdrok THEN To([oo EXCEPT !.seek_sample = sample], "_SEEK") ELSE [oo EXCEPT !.seek_sample = sample]
      [] Fmt = "p" -> [oo EXCEPT !.seek_sample = sample, !.st = IF @ = "p_DINIT" THEN @ ELSE "p_SEEK"]
      [] Fmt = "v" -> To([oo EXCEPT !.seek_sample = sample, !.buf = <<>>, !.skoff = -1, !.pt = <<Pt(0, 0), Pt(Samples, oo.total_size)>>], "_SEEK")
Seek ==
    /\ o.ret \in {"HDR", "HDRFIN", "BLOCK", "DATA"} /\ Fmt # "a" /\ w.seeks < MaxSeeks /\ (o.ret = "HDR" => Fmt = "m")
    /\ \E s \in 1..(Samples - 1) : o' = [Seeked(o, s) EXCEPT !.ret = "run"]
    /\ w' = [w EXCEPT !.seeks = @ + 1, !.out = <<>>]
StreamErr ==     \* the decoder does not take the block: ffmpc_streamerr()
    /\ o.ret = "BLOCK" /\ w.seeks > 0 /\ ~w.lost /\ o' = [ffmpc_streamerr(o) EXCEPT !.ret = "run"] /\ w' = [w EXCEPT !.lost = TRUE]

Read == GatherBuf \/ Mpc \/ Ape \/ Wv \/ Adts
Next == Read \/ FeedFrom(HdrLen) \/ Move \/ Seek \/ StreamErr \/ Call({"WARN", "TAG", "HDR", "HDRFIN", "BLOCK", "DATA"})
Spec == Init /\ [][Next]_vars

-----------------------------------------------------------------------------
(* What is given to the decoder is the bytes of a block, all of them.      *)
aligned(k) == Bytes(frame_offset(k), frame_size(k))
IsBlock(d) ==
    CASE Fmt = "p" -> \E k \in 0..(frames - 1) : d = aligned(k)
      [] Fmt = "v" \/ (Fmt = "a" /\ "wholeframe" \in Opts) -> \E i \in DOMAIN File.blocks : d = Bytes(File.blocks[i].off, File.blocks[i].len)
      [] OTHER -> \E i \in DOMAIN File.blocks : LET b == File.blocks[i] IN b.id # "ST" /\ d = Bytes(b.off + b.hdr, b.len - b.hdr)
BlocksWhole == \A i \in DOMAIN w.out : IsBlock(w.out[i].b)

(* The blocks come in the order of the file, and none of them twice.       *)
BlocksInOrder == \A i \in 1..(Len(w.out) - 1) : w.out[i].b[1] < w.out[i + 1].b[1] /\ w.out[i].from < w.out[i + 1].from

(* Where the place of a block is known, the sample the reader says it      *)
(* begins with lies in it.                                                 *)
SamplesTrue ==
    Fmt \in {"p", "v"} \/ (Fmt = "m" /\ File.clean /\ ~w.lost /\ (o.seekctx \/ (w.seeks = 0 /\ File.delay = 0))) =>
      \A i \in DOMAIN w.out : \E k \in DOMAIN File.blocks :
         LET b == File.blocks[k]
         IN w.out[i].b[Len(w.out[i].b)] >= b.off + b.len - 1 /\ w.out[i].b[1] <= b.off + b.hdr /\ w.out[i].from \in b.sample..(b.sample + BlkSamples - 1)

(* Without a seek nothing is left out of a file that has no errors.        *)
AllBlocks == o.ret = "DONE" /\ w.seeks = 0 /\ File.clean /\ File.delay = 0 => Len(w.out) = Samples \div BlkSamples
TagTrue == o.ape = "I_FLD" => o.tag = Bytes(File.size - File.id31 - File.ape, File.ape)
=============================================================================
