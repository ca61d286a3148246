-------------------------------- MODULE Ogg --------------------------------
(***************************************************************************)
(* The OGG reader of FF/mformat/ffogg.c: ffogg_read() is a loop over       *)
(* o->state.  A page is [off, hdr, segs, gpos, num, cont, last, ok]: hdr   *)
(* bytes of header, then segments; a segment of Seg bytes (255) is         *)
(* continued by the next one, if need be in the next page, which has cont  *)
(* set then.  gpos is the sample after the last packet that ends in the    *)
(* page, Undef if none does; ok tells whether the checksum is right.       *)
(***************************************************************************)
EXTENDS Stream

CONSTANTS Seg, MinPiece, MaxHdr,  \* OGG_MAXHDR
          MaxPage,              \* OGG_MAXPAGE
          MaxNoSync,            \* MAX_NOSYNC
          Seekable,             \* o->seekable and o->total_size are set
          MaxSeeks, SeekOn,
          MaxSegs, PktLens, MaxPkts,
          MaxDelta              \* max_pagedelta, or Unlimited

Undef == -1                     \* OGG_GPOS_UNDEF
Nowhere == -1                   \* (uint64)-1
Page0 == [hdr |-> 0, segs |-> <<>>, gpos |-> 0, num |-> 0, cont |-> FALSE, last |-> FALSE,
          ok |-> TRUE, off |-> 0]

Init ==
    /\ o = [st |-> "HDR", h |-> Page0, skipped |-> 0, init_done |-> FALSE, pgno |-> 0,
            off_data |-> 0, page_num |-> 0, page_cont |-> FALSE, continued |-> FALSE,
            pktdata |-> <<>>, segoff |-> 0, bodyoff |-> 0, pagenum_err |-> FALSE, total |-> 0,
            cursample |-> 0, first_sample |-> 0, firstseek |-> FALSE, seek_sample |-> 0,
            seektab |-> <<Pt(0, 0), Pt(0, 0)>>, seekpt |-> <<Pt(0, 0), Pt(0, 0)>>,
            skoff |-> 0] @@ Object
    /\ \E f \in Files : w = [seeks |-> 0, base |-> 1] @@ Caller(f)

Body(p) == MapThenSumSet(LAMBDA i : p.segs[i], DOMAIN p.segs)
Size(p) == p.hdr + Body(p)                              \* ogg_pagesize()

-----------------------------------------------------------------------------
(* ogg_findpage(): the length of the page header that begins with b.       *)
PagesAt(b) == {p \in File.pages : p.off = b}
ogg_findpage == [b \in 0..File.size |-> Max({0} \cup {p.hdr : p \in PagesAt(b)})]

(* _ffogg_gethdr(): the object after it, and r.  Junk is a warning.        *)
gotHdr(oo, g) ==
    LET x == [oo EXCEPT !.buf = g.buf, !.off = @ + Len(oo.in) - Len(g.in), !.in = g.in]
        skipped == oo.skipped + Len(oo.in)
    IN  IF g.r = "DONE"
        THEN [r |-> IF g.n = 0 THEN "DONE" ELSE "WARN", 
              o |-> [x EXCEPT !.h = CHOOSE p \in PagesAt(g.buf[1]) : TRUE, !.skipped = 0]]
        ELSE [r |-> IF skipped > MaxNoSync THEN "ERR" ELSE "MORE",
              o |-> [x EXCEPT !.skipped = skipped]]
gethdr(oo) == gotHdr(oo, ffbuf_gather(oo.buf, oo.in, MaxHdr, ogg_findpage))
Clear(oo) == [oo EXCEPT !.buf = <<>>]

-----------------------------------------------------------------------------
(* _ffogg_open(): to the last page for the length of the stream, and back. *)
SeekEos ==
    /\ In("SEEK_EOS")
    /\ Ret("SEEK", [Clear(o) EXCEPT !.off = File.size - Min({MaxPage, File.size}),
                                    !.st = "SEEK_EOS2"])

EosDone(oo) ==
    Ret("INFO", [oo EXCEPT !.seektab[2] = IF oo.total = 0 THEN @
                                          ELSE Pt(oo.total, File.size - o.off_data),
                           !.st = "SEEK_EOS3"])
LastPage(g) ==
    LET h == g.o.h
        oo == [Clear(g.o) EXCEPT !.total = IF h.gpos = Undef THEN @ ELSE h.gpos - o.first_sample,
                                 !.off = IF h.last THEN @ ELSE @ + Body(h)]
    IN CASE g.r \in {"MORE", "ERR"} ->
               IF g.o.off = File.size THEN EosDone(g.o) ELSE Ret("MORE", g.o)
         [] g.r \in {"DONE", "WARN"} /\ (h.last \/ oo.off = File.size) -> EosDone(oo)
         [] OTHER -> Ret("SEEK", oo)
SeekEos2 == In("SEEK_EOS2") /\ LastPage(gethdr(o))

SeekEos3 == In("SEEK_EOS3") /\ Ret("SEEK", [o EXCEPT !.off = o.off_data, !.st = "HDR"])

(* _ffogg_seek(): ask ffpcm_seek() about a page: off, its start and        *)
(* length in samples.                                                      *)
Asked(oo, s) ==
    LET x == [oo EXCEPT !.seekpt = s.pt]
    IN CASE s.r = 1  -> Ret("SEEK", [Clear(x) EXCEPT !.skoff = s.off, !.off = o.off_data + s.off])
         [] s.r = -1 -> Ret("ERR", x)
         [] OTHER    -> Go([x EXCEPT !.page_num = 0, !.st = "BODY"])
Ask(oo, foff, index, samples, size) ==
    Asked(oo, ffpcm_seek(o.seek_sample, o.seekpt,
                         [index |-> index, samples |-> samples, size |-> size,
                          off |-> foff - o.off_data], o.skoff, 0, TRUE))

SeekFirst == In("SEEK") /\ o.firstseek /\ Ask([o EXCEPT !.firstseek = FALSE], o.off, 0, 0, 2)

(* A page at the lower bound is known from there; another one only as the  *)
(* second of two.                                                          *)
SoughtPage(g) ==
    LET gpos == g.o.h.gpos - o.first_sample
        foff == g.o.off - g.o.h.hdr
        back == Max({o.skoff - MaxPage, o.seekpt[1].off})
        beyond == foff - o.off_data >= o.seekpt[2].off
        lo == o.seekpt[1].sample
    IN CASE g.r \in {"MORE", "ERR"} -> Ret(g.r, g.o)
         [] g.r \in {"DONE", "WARN"} /\ g.o.h.gpos = Undef -> Go(Clear(g.o))
         [] g.r \in {"DONE", "WARN"} /\ g.o.h.gpos # Undef /\ o.st = "SEEK" ->
              IF gpos > o.seek_sample /\ o.skoff = o.seekpt[1].off
              THEN Ask([g.o EXCEPT !.cursample = lo], foff, lo, gpos - lo, Size(g.o.h))
              ELSE Go([Clear(g.o) EXCEPT !.cursample = gpos, !.st = "SEEK2"])
         [] OTHER ->
              CASE beyond /\ back = o.skoff -> Ret("ERR", [g.o EXCEPT !.st = "SEEK"])
                [] beyond /\ back # o.skoff ->
                     Ret("SEEK", [Clear(g.o) EXCEPT !.skoff = back, !.off = o.off_data + back,
                                                    !.st = "SEEK"])
                [] OTHER -> Ask([g.o EXCEPT !.st = "SEEK"], foff, o.cursample,
                                gpos - o.cursample, Size(g.o.h))
SeekPage == o.st \in {"SEEK", "SEEK2"} /\ In(o.st) /\ ~o.firstseek /\ SoughtPage(gethdr(o))

-----------------------------------------------------------------------------
Info == In("INFO") /\ Ret("INFO", [o EXCEPT !.st = "BODY"])

PageEnd ==
    /\ In("PAGE")
    /\ LET oo == [o EXCEPT !.cursample = IF o.h.gpos = Undef THEN @ ELSE o.h.gpos - o.first_sample]
       IN  IF o.h.last THEN Ret("DONE", oo) ELSE Go([oo EXCEPT !.st = "HDR"])

(* The third page that begins a packet is the first one of audio.          *)
FirstAudio(oo) ==
    LET jump == oo.h.num # o.page_num + 1
    IN  [oo EXCEPT !.off_data = oo.off - oo.h.hdr, !.init_done = TRUE, !.pgno = @ + 1,
                   !.seektab[1].off = IF jump THEN Size(oo.h) ELSE @,
                   !.first_sample = IF jump THEN oo.h.gpos ELSE @,
                   !.st = IF Seekable THEN "SEEK_EOS" ELSE "BODY"]

FoundPage(g) ==
    LET new == ~o.init_done /\ ~g.o.h.cont
    IN CASE g.r = "WARN" -> Ret(IF o.init_done THEN "WARN" ELSE "ERR", g.o)
         [] g.r \in {"MORE", "ERR"} -> Ret(g.r, g.o)
         [] g.r = "DONE" /\ o.continued /\ ~g.o.h.cont ->
              Ret("WARN", [g.o EXCEPT !.continued = FALSE, !.pktdata = <<>>])
         [] OTHER -> IF new /\ o.pgno = 2 THEN Ret("HDRFIN", FirstAudio(g.o))
                     ELSE Go([g.o EXCEPT !.pgno = IF new THEN @ + 1 ELSE @, !.st = "BODY"])
Hdr == In("HDR") /\ FoundPage(gethdr(o))

(* _ffogg_getbody(): the whole page, checked.                              *)
GetBody ==
    /\ In("BODY")
    /\ LET g == gather(o.buf, o.in, Size(o.h))
           oo == [o EXCEPT !.in = g.in, !.off = @ + Len(o.in) - Len(g.in), !.gbuf = g.buf]
           err == o.page_num # 0 /\ o.h.num # o.page_num + 1
           x == [Clear(oo) EXCEPT !.page_cont = o.h.cont, !.page_num = o.h.num, !.segoff = 0,
                                  !.bodyoff = 0, !.st = "PKT"]
       IN CASE Len(g.buf) < Size(o.h) -> Ret("MORE", [oo EXCEPT !.buf = g.buf])
            [] Len(g.buf) >= Size(o.h) /\ ~o.h.ok ->
                 IF o.init_done THEN Ret("WARN", [Clear(oo) EXCEPT !.st = "HDR"])
                 ELSE Ret("ERR", Clear(oo))
            [] OTHER -> IF err THEN Ret("WARN", x) ELSE Go(x)

(* ogg_pkt_next(): the segments up to the next short one.                  *)
EndSeg == LET short == {i \in (o.segoff + 1)..Len(o.h.segs) : o.h.segs[i] < Seg}
          IN  IF short = {} THEN Len(o.h.segs) ELSE Min(short)

Pkt ==
    /\ In("PKT")
    /\ LET len == MapThenSumSet(LAMBDA i : o.h.segs[i], (o.segoff + 1)..EndSeg)
           d == SubSeq(o.gbuf, o.h.hdr + o.bodyoff + 1, o.h.hdr + o.bodyoff + len)
           oo == [o EXCEPT !.segoff = EndSeg, !.bodyoff = @ + len, !.page_cont = FALSE]
           none == o.segoff = Len(o.h.segs)
           part == ~none /\ o.h.segs[EndSeg] = Seg
           pkt == o.pktdata \o d
       IN CASE o.page_cont /\ ~o.continued -> Go(oo)
            [] ~(o.page_cont /\ ~o.continued) /\ none -> Go([oo EXCEPT !.st = "PAGE"])
            [] ~(o.page_cont /\ ~o.continued) /\ part ->
                 Go([oo EXCEPT !.pktdata = pkt, !.continued = TRUE, !.st = "PAGE"])
            [] OTHER -> Out(IF o.init_done THEN "DATA" ELSE "HDR",
                            <<o.cursample, IF o.continued THEN pkt ELSE d>>,
                            [oo EXCEPT !.pktdata = <<>>, !.continued = FALSE])

Read == \/ SeekEos \/ SeekEos2 \/ SeekEos3 \/ SeekFirst \/ SeekPage \/ Info \/ PageEnd
        \/ Hdr \/ GetBody \/ Pkt

(* ffogg_seek(), to any sample; the page that holds it is the first with a *)
(* later end.                                                              *)
ffogg_seek ==
    /\ o.ret \in SeekOn /\ o.total # 0 /\ w.seeks < MaxSeeks
    /\ \E s \in 0..(o.total - 1) :
         LET later == {p.off : p \in {q \in File.pages : q.off >= o.off_data /\ q.gpos # Undef
                                                         /\ q.gpos - o.first_sample > s}}
         IN /\ o' = [Clear(o) EXCEPT !.seek_sample = s, !.firstseek = o.st = "SEEK_EOS3",
                                     !.st = "SEEK", !.seekpt = o.seektab, !.skoff = Nowhere,
                                     !.continued = FALSE, !.pktdata = <<>>, !.ret = "run"]
            /\ w' = [w EXCEPT !.seeks = @ + 1, !.out = <<>>,
                              !.base = Min({k \in DOMAIN File.frames : File.frames[k][2][1] > Min(later)})]

Next == Read \/ FeedFrom(MinPiece) \/ Move \/ Call({"HDR", "HDRFIN", "INFO", "DATA", "WARN"}) \/ ffogg_seek
Spec == Init /\ [][Next]_vars

-----------------------------------------------------------------------------
(* The packets returned are those of the stream with the sample their page *)
(* begins at, from the first one on or from the page sought.               *)
PacketsTrue == IsPrefix(w.out, SubSeq(File.frames, w.base, Len(File.frames)))

(* The sample sought stays within the bounds of the search.                *)
SeekInBounds == o.st \in {"SEEK", "SEEK2"} => InBounds(o.seek_sample, o.seekpt)

-----------------------------------------------------------------------------
(* The writer: ffogg_write() adds a packet to a page and returns the page  *)
(* when it is full, flushed or the last one.  A byte of input is [pkt, i]; *)
(* pages have at most MaxSegs segments (255).  w.given are the packets so  *)
(* far with the sample that each ends at.                                  *)
Unlimited == -1                 \* (uint)-1
NoPage == [segs |-> <<>>, body |-> <<>>]

(* ffogg_create().                                                         *)
WInit ==
    /\ \E partial \in BOOLEAN :
         o = [page |-> NoPage, number |-> 0, startpos |-> 0, endpos |-> Undef, pkt |-> <<>>,
              pkt_endpos |-> 0, allow_partial |-> partial, continued |-> FALSE, flush |-> FALSE,
              fin |-> FALSE, ret |-> "MORE"]
    /\ w = [given |-> <<>>, out |-> <<>>]

(* ogg_pkt_write(): how much of len bytes the page takes, and in which     *)
(* segments.                                                               *)
segsOf(page, len) == Min({len \div Seg + 1, MaxSegs - Len(page.segs)})
taken(page, len) == IF segsOf(page, len) = len \div Seg + 1 THEN len ELSE segsOf(page, len) * Seg
ogg_pkt_write(page, pkt) ==
    LET len == Len(pkt)
        n == segsOf(page, len)
        whole == n = len \div Seg + 1
    IN  [segs |-> page.segs \o [i \in 1..n |-> IF whole /\ i = n THEN len % Seg ELSE Seg],
         body |-> page.body \o SubSeq(pkt, 1, taken(page, len))]

(* ogg_page_write().  A page that was flushed within a packet is continued *)
(* by the next one.                                                        *)
flush(oo, last, partial) ==
    /\ o' = [oo EXCEPT !.page = NoPage, !.number = @ + 1, !.continued = partial,
                       !.startpos = oo.endpos, !.endpos = Undef,
                       !.ret = IF last THEN "DONE" ELSE "DATA"]
    /\ w' = [w EXCEPT !.out = Append(@, [segs |-> oo.page.segs, body |-> oo.page.body,
                gpos |-> oo.endpos, num |-> oo.number, cont |-> oo.continued,
                first |-> oo.number = 0, last |-> last])]

(* ffogg_write(), with no packet.                                          *)
NoPacket ==
    /\ o.ret = "run" /\ o.pkt = <<>>
    /\ IF o.fin THEN flush(o, TRUE, FALSE) ELSE o' = [o EXCEPT !.ret = "MORE"] /\ UNCHANGED w

(* The packet does not fit, or the page would become too long: the page    *)
(* goes first.                                                             *)
GoesFirst ==
    /\ o.page.segs # <<>>
    /\ \/ taken(o.page, Len(o.pkt)) = 0
       \/ taken(o.page, Len(o.pkt)) # Len(o.pkt) /\ ~o.allow_partial
       \/ MaxDelta # Unlimited /\ o.pkt_endpos - o.startpos > MaxDelta
FlushBefore == o.ret = "run" /\ o.pkt # <<>> /\ GoesFirst /\ flush(o, FALSE, FALSE)

AddPacket ==
    /\ o.ret = "run" /\ o.pkt # <<>> /\ ~GoesFirst
    /\ LET rest == SubSeq(o.pkt, taken(o.page, Len(o.pkt)) + 1, Len(o.pkt))
           oo == [o EXCEPT !.page = ogg_pkt_write(o.page, o.pkt), !.pkt = rest]
           done == [oo EXCEPT !.endpos = o.pkt_endpos, !.flush = FALSE]
       IN CASE rest # <<>> -> flush(oo, FALSE, TRUE)
            [] rest = <<>> /\ o.fin -> flush(done, TRUE, FALSE)
            [] rest = <<>> /\ ~o.fin /\ o.flush -> flush(done, FALSE, FALSE)
            [] OTHER -> o' = [done EXCEPT !.ret = "MORE"] /\ UNCHANGED w

WWrite == NoPacket \/ FlushBefore \/ AddPacket

(* The user, external: the next packet, to be flushed or not, the last one *)
(* or not; the end without a packet; the next call.                        *)
WGive ==
    /\ o.ret = "MORE" /\ ~o.fin /\ Len(w.given) < MaxPkts
    /\ \E n \in PktLens, fl \in BOOLEAN, fin \in BOOLEAN :
         LET k == Len(w.given) + 1
         IN /\ o' = [o EXCEPT !.pkt = [i \in 1..n |-> <<k, i>>], !.pkt_endpos = 2 * k, !.flush = fl,
                              !.fin = fin, !.ret = "run"]
            /\ w' = [w EXCEPT !.given = Append(@, [len |-> n, endpos |-> 2 * k])]
WFinish == o.ret = "MORE" /\ ~o.fin /\ o' = [o EXCEPT !.fin = TRUE, !.ret = "run"] /\ UNCHANGED w
WAgain == o.ret = "DATA" /\ o' = [o EXCEPT !.ret = "run"] /\ UNCHANGED w

WNext == WWrite \/ WGive \/ WFinish \/ WAgain

-----------------------------------------------------------------------------
(* All segments written, those of the open page too, in order.             *)
WSegs == FlattenSeq([i \in DOMAIN w.out |-> w.out[i].segs]) \o o.page.segs
WBody == FlattenSeq([i \in DOMAIN w.out |-> w.out[i].body]) \o o.page.body
Ends == {i \in DOMAIN WSegs : WSegs[i] < Seg}
Upto(i) == MapThenSumSet(LAMBDA k : WSegs[k], 1..i)

(* Nothing is lost: what is written and what is still to be added are the  *)
(* bytes of the packets given, in order.                                   *)
BytesTrue == WBody \o o.pkt =
             FlattenSeq([k \in DOMAIN w.given |-> [i \in 1..w.given[k].len |-> <<k, i>>]])

(* A reader will find the packets' ends where they are: a segment that     *)
(* ends a packet is at its end, and every finished packet has one.         *)
FinishedPkts == Len(w.given) - (IF o.pkt = <<>> THEN 0 ELSE 1)
EndsTrue == {Upto(i) : i \in Ends} =
            {MapThenSumSet(LAMBDA j : w.given[j].len, 1..k) : k \in 1..FinishedPkts}

(* The position of a page is the end of the last packet that ends in it,   *)
(* undefined if none does; a page is marked continued just when it begins  *)
(* within a packet.                                                        *)
PagesTrue ==
    \A n \in DOMAIN w.out :
        LET before == FlattenSeq([i \in 1..(n - 1) |-> w.out[i].segs])
            start == Len(before)
            mine == {i \in Ends : i > start /\ i <= start + Len(w.out[n].segs)}
            k == Cardinality({i \in Ends : i <= Max(mine)})
        IN /\ w.out[n].gpos = IF mine = {} THEN Undef ELSE w.given[k].endpos
           /\ w.out[n].cont <=> (start > 0 /\ before[start] = Seg)
           /\ w.out[n].num = n - 1
=============================================================================
