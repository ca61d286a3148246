------------------------------- MODULE Codec -------------------------------
(***************************************************************************)
(* The codec wrappers of FF/audio: a track is encoded and decoded again,   *)
(* from its beginning or from the packet a container found for a seek.     *)
(* The codecs themselves are external: an encoder holds samples until it   *)
(* has a frame and gives out the rest when it is flushed, a decoder gives  *)
(* the samples of a packet.  The samples of a track are 1, 2, ...          *)
(*                                                                         *)
(* e is the encoder and the user who feeds it chunk after chunk, d the     *)
(* decoder and the user who hands it the packets.                          *)
(***************************************************************************)
EXTENDS Integers, Sequences, SequencesExt, FiniteSetsExt

CONSTANTS Tracks,    \* [codec, chunks: samples per call, tags, seek, at: packet to begin with]
          Frame,     \* samples of a packet
          Delay,     \* silence an encoder puts before the samples
          MaxIn,     \* samples LAME takes in a call
          OutCap,    \* samples libsoxr gives in a call
          BlockFrames \* frames in a block of Musepack

VARIABLES t, e, d
vars == <<t, e, d>>

Silence == 0
Junk == -2            \* what is in the decoder's buffer behind the samples of the packet
None == -1
Silent(n) == [i \in 1..n |-> Silence]
First(xs, n) == SubSeq(xs, 1, Min({n, Len(xs)}))
Rest(xs, n) == SubSeq(xs, n + 1, Len(xs))
Chunk(tr, i) == LET before == FoldLeft(+, 0, SubSeq(tr.chunks, 1, i - 1))
                IN [j \in 1..tr.chunks[i] |-> before + j]
Samples(tr) == [j \in 1..FoldLeft(+, 0, tr.chunks) |-> j]
Delayed == {"opus", "aac"}
Lead(codec) == IF codec \in Delayed THEN Delay ELSE 0

Init ==
    /\ t \in Tracks
    /\ e = [st |-> "hdr", rc |-> "more", given |-> 0, fin |-> FALSE, pcm |-> <<>>, off |-> 0, buf |-> <<>>,
            cap |-> Frame + 1, lib |-> IF t.codec = "aac" THEN Silent(Delay) ELSE <<>>, gran |-> 0, out |-> <<>>]
    /\ d = [st |-> "open", rc |-> "more", i |-> 0, tags |-> <<>>, items |-> <<>>, cnt |-> 0, cur |-> 0, seek |-> None,
            block |-> <<>>, from |-> 0, out |-> <<>>]

Packet(typ, pcm, n, eos) == [typ |-> typ, pcm |-> pcm, n |-> n, eos |-> eos, items |-> <<>>]
Out(x, st, pkt) == [x EXCEPT !.st = st, !.out = Append(@, pkt), !.rc = "data"]
More(x) == [x EXCEPT !.rc = "more"]
Encode(codec) == t.codec = codec /\ e.rc = "data" /\ UNCHANGED <<t, d>>

(* The user gives the next samples when the encoder asks for more; fin     *)
(* comes with the last of them.                                            *)
Give ==
    /\ e.rc = "more" /\ ~e.fin /\ UNCHANGED <<t, d>>
    /\ e' = IF t.chunks = <<>> THEN [e EXCEPT !.rc = "data", !.fin = TRUE]
            ELSE [e EXCEPT !.rc = "data", !.given = @ + 1, !.pcm = Chunk(t, e.given + 1),
                           !.fin = e.given + 1 = Len(t.chunks)]

-----------------------------------------------------------------------------
(* Vorbis comments: the vendor, a counter and the tags.                    *)
tagAdd(items, tag) == items \o <<[k |-> "len"], [k |-> "cmt", tag |-> tag]>>
tagFin(items) == [items EXCEPT ![3] = [k |-> "count", n |-> Len(SelectSeq(items, LAMBDA x : x.k = "cmt"))]]
\* the place of the counter is kept after the vendor
tagStart == <<[k |-> "len"], [k |-> "vendor"], [k |-> "count", n |-> 0]>>
tagsPacket(tags, closing) ==
    [Packet("tags", <<>>, 0, FALSE) EXCEPT !.items = tagFin(FoldLeft(tagAdd, tagStart, tags)) \o closing]

Header(first) == Packet(first, <<>>, 0, FALSE)

(* An encoder that takes samples gives a packet as soon as it has a frame. *)
vorbisFlushed(x) == IF Len(x.lib) <= Frame
                    THEN [Out(x, "done", Packet("data", x.lib, Len(x.lib), TRUE)) EXCEPT !.rc = "done",
                             !.lib = <<>>, !.gran = @ + Len(x.lib)]
                    ELSE [Out(x, "data", Packet("data", First(x.lib, Frame), Frame, FALSE)) EXCEPT
                             !.lib = Rest(@, Frame), !.gran = @ + Frame]
vorbisTook(x) == IF Len(x.lib) > Frame \/ x.fin THEN vorbisFlushed(x) ELSE More(x)
VorbisEncode ==
    /\ Encode("vorbis")
    /\ e' = CASE e.st = "hdr" -> Out(e, "comm", Header("hdr"))
              [] e.st = "comm" -> Out(e, "book", tagsPacket(t.tags, <<[k |-> "framing"], [k |-> "pad"]>>))
              [] e.st = "book" -> Out(e, "data", Header("book"))
              [] e.st = "data" -> vorbisTook([e EXCEPT !.lib = @ \o e.pcm, !.pcm = <<>>])

(* Opus: the first frame begins with the silence of preskip; the last one  *)
(* is filled up with silence.                                              *)
opusCode(x, pcm, n, st) == [Out(x, st, Packet("data", pcm, n, FALSE)) EXCEPT !.gran = @ + n, !.buf = <<>>]
opusLast(x) == opusCode([x EXCEPT !.pcm = <<>>], x.buf \o Silent(Frame - Len(x.buf)), Len(x.buf), "done")
opusFill(x, n) ==
    LET y == [x EXCEPT !.buf = @ \o First(x.pcm, n), !.pcm = Rest(@, n)]
    IN IF Len(y.buf) = Frame THEN opusCode(y, y.buf, Frame, "data")
       ELSE IF ~x.fin THEN More(y) ELSE opusLast(y)
OpusEncode ==
    /\ Encode("opus")
    /\ e' = CASE e.st = "hdr" -> Out(e, "tags", Header("hdr"))
              [] e.st = "tags" -> Out(e, "data1", tagsPacket(t.tags, <<[k |-> "pad"]>>))
              [] e.st = "data1" -> opusFill([e EXCEPT !.buf = Silent(Delay)], Frame - Delay)
              [] e.st = "data" -> opusFill(e, Frame - Len(e.buf))
              [] e.st = "done" -> [e EXCEPT !.rc = "done"]

(* AAC: fdkaac_encode() takes what fits in a frame; a call without samples *)
(* flushes it.                                                             *)
aacFlush(x) == IF x.lib = <<>> THEN [x EXCEPT !.rc = "done"]
               ELSE [Out(x, "data", Packet("data", x.lib \o Silent(Frame - Len(x.lib)), Frame, FALSE)) EXCEPT !.lib = <<>>]
aacTook(x) == IF Len(x.lib) = Frame THEN [Out(x, "data", Packet("data", x.lib, Frame, FALSE)) EXCEPT !.lib = <<>>]
              ELSE IF x.fin THEN aacFlush(x) ELSE More(x)
AacEncode ==
    /\ Encode("aac")
    /\ LET n == Frame - Len(e.lib)
       IN e' = IF e.pcm = <<>> THEN IF e.fin THEN aacFlush(e) ELSE More(e)
               ELSE aacTook([e EXCEPT !.lib = @ \o First(e.pcm, n), !.pcm = Rest(@, n)])

(* FLAC: Frame + 1 samples are gathered for the first frame and Frame for  *)
(* each later one; the library holds one back until it is flushed.         *)
flacOut(x, pcm, st) == [Out(x, st, Packet("data", pcm, IF st = "done" THEN Len(pcm) ELSE Frame, FALSE)) EXCEPT
                           !.lib = Rest(@, Len(pcm)), !.cap = Frame]
flacCode(x) == IF Len(x.lib) > Frame THEN flacOut(x, First(x.lib, Frame), "data")
               ELSE IF x.fin THEN flacOut(x, x.lib, "done") ELSE [x EXCEPT !.rc = "assert"]
flacPut(x, n) ==
    LET y == [x EXCEPT !.off = @ + n, !.buf = @ \o SubSeq(x.pcm, x.off + 1, x.off + n)]
    IN IF Len(y.buf) = x.cap \/ x.fin THEN flacCode([y EXCEPT !.buf = <<>>, !.lib = @ \o y.buf])
       ELSE [More(y) EXCEPT !.off = 0]
FlacEncode ==
    /\ Encode("flac")
    /\ e' = IF e.st = "done" THEN [e EXCEPT !.rc = "done"]
            ELSE flacPut(e, Min({Len(e.pcm) - e.off, e.cap - Len(e.buf)}))

(* MP3: LAME is given MaxIn samples at most in a call, and flushed when it *)
(* has taken the last one.  The LAME tag is the last packet.               *)
whole(n) == n - (n % Frame)
lameOut(x, n, st) == [Out(x, st, Packet("data", First(x.lib, n), n, FALSE)) EXCEPT !.lib = Rest(@, n)]
lameTook(x) == IF whole(Len(x.lib)) > 0 THEN lameOut(x, whole(Len(x.lib)), "hdr")
               ELSE IF x.off < Len(x.pcm) THEN x
               ELSE IF x.fin THEN lameOut(x, Len(x.lib), "tag") ELSE [More(x) EXCEPT !.off = 0]
LameEncode ==
    /\ Encode("mp3")
    /\ LET n == Min({Len(e.pcm) - e.off, MaxIn})
       IN e' = IF e.st = "tag" THEN [Out(e, "tag", Header("lametag")) EXCEPT !.rc = "done"]
               ELSE lameTook([e EXCEPT !.lib = @ \o SubSeq(e.pcm, e.off + 1, e.off + n), !.off = @ + n])

(* The converter of libsoxr gives less than it took until it is flushed.   *)
soxrOut(x, n) == IF n > 0 THEN [Out(x, x.st, Packet("data", First(x.lib, n), n, FALSE)) EXCEPT !.lib = Rest(@, n)]
                 ELSE IF x.off < Len(x.pcm) \/ x.fin THEN x ELSE [More(x) EXCEPT !.off = 0]
soxrFlush(x, n) == IF n = 0 THEN [x EXCEPT !.rc = "done"] ELSE soxrOut(x, n)
SoxrConvert ==
    /\ Encode("soxr")
    /\ LET n == Min({Len(e.pcm) - e.off, MaxIn})
       IN e' = IF n > 0 THEN soxrOut([e EXCEPT !.lib = @ \o SubSeq(e.pcm, e.off + 1, e.off + n), !.off = @ + n],
                                     Min({OutCap, Len(e.lib) + n - 1}))
               ELSE IF e.fin THEN soxrFlush(e, Min({OutCap, Len(e.lib)})) ELSE [More(e) EXCEPT !.off = 0]

(* ALAC and Musepack are only decoded: their packets are made elsewhere.   *)
rawPacket(x, n) == [Out(x, x.st, Packet("data", First(x.lib, n), n, FALSE)) EXCEPT !.lib = Rest(@, n), !.pcm = <<>>]
rawTook(x) == IF Len(x.lib) > Frame THEN rawPacket(x, Frame)
              ELSE IF ~x.fin THEN More(x) ELSE [rawPacket(x, Len(x.lib)) EXCEPT !.rc = "done"]
RawEncode ==
    /\ t.codec \in {"alac", "mpc"} /\ e.rc = "data" /\ UNCHANGED <<t, d>>
    /\ e' = rawTook([e EXCEPT !.lib = @ \o e.pcm, !.pcm = <<>>])

-----------------------------------------------------------------------------
(* Decoding.  pos(i) is the position the container gives for packet i.     *)
IsData(p) == p.typ = "data"
pos(i) == FoldLeft(LAMBDA n, p : n + (IF IsData(p) THEN p.n ELSE 0), 0, SubSeq(e.out, 1, i - 1))
Total == Len(Samples(t)) + Lead(t.codec)
Padding == pos(Len(e.out) + 1) - Total         \* of the last packet, kept by the container
Exact == {"alac", "flac"}                      \* their containers find the packet of the sample
WithHeaders == {"vorbis", "opus"}

Decode(codec) == t.codec = codec /\ d.st = "data" /\ d.i <= Len(e.out) /\ UNCHANGED <<t, e>>
pkt == e.out[d.i]
nextPkt(x) == [x EXCEPT !.i = @ + 1, !.rc = "more"]
Given(x, pcm) == [x EXCEPT !.out = @ \o pcm, !.i = @ + 1, !.rc = "data"]

DecodeOpen ==
    /\ e.rc = "done" /\ d.st = "open" /\ t.codec # "soxr" /\ UNCHANGED <<t, e>>
    /\ d' = [d EXCEPT !.i = 1, !.st = IF t.codec \in WithHeaders THEN "hdr" ELSE "seek",
                      !.seek = IF t.codec \in Delayed THEN Delay ELSE None]

HeaderOf(st) == d.st = st /\ d.i <= Len(e.out) /\ UNCHANGED <<t, e>>
bad(x) == [x EXCEPT !.st = "err", !.rc = "err"]
InfoPacket ==
    /\ HeaderOf("hdr")
    /\ d' = IF pkt.typ # "hdr" THEN bad(d) ELSE [nextPkt(d) EXCEPT !.st = "tags"]
TagsPacket ==
    /\ HeaderOf("tags")
    /\ d' = IF pkt.typ # "tags" THEN bad(d) ELSE [d EXCEPT !.st = "vendor", !.items = pkt.items]
(* ffvorbtag_parse(): the vendor, the counter, then that many tags.        *)
hasLen(x, k) == Len(x.items) >= 2 /\ x.items[1].k = "len" /\ x.items[2].k = k
TagVendor ==
    /\ HeaderOf("vendor")
    /\ d' = IF ~hasLen(d, "vendor") THEN bad(d) ELSE [d EXCEPT !.items = Rest(@, 2), !.st = "count", !.rc = "tag"]
TagCount ==
    /\ HeaderOf("count")
    /\ d' = IF d.items = <<>> \/ d.items[1].k # "count" THEN bad(d)
            ELSE [d EXCEPT !.cnt = d.items[1].n, !.items = Rest(@, 1), !.st = "tag"]
tagsDone(x) == IF t.codec = "opus" THEN [nextPkt(x) EXCEPT !.st = "seek", !.rc = "hdrfin"]
               ELSE IF x.items = <<>> \/ x.items[1].k # "framing" THEN bad(x)
               ELSE [nextPkt(x) EXCEPT !.st = "book", !.rc = "hdrfin"]
TagNext ==
    /\ HeaderOf("tag")
    /\ d' = IF d.cnt = 0 THEN tagsDone(d)
            ELSE IF ~hasLen(d, "cmt") THEN bad(d)
            ELSE [d EXCEPT !.tags = Append(@, d.items[2].tag), !.items = Rest(@, 2), !.cnt = @ - 1, !.rc = "tag"]
BookPacket ==
    /\ HeaderOf("book")
    /\ d' = IF pkt.typ # "book" THEN bad(d) ELSE [nextPkt(d) EXCEPT !.st = "seek"]

(* The user may seek: the container finds a packet, not always the last    *)
(* one that begins before the sample, and the decoder skips the rest.      *)
Seek ==
    /\ d.st = "seek" /\ UNCHANGED <<t, e>>
    /\ \/ t.seek = None /\ d' = [d EXCEPT !.st = "data", !.cur = pos(d.i)]
       \/ /\ t.seek # None
          /\ \E i \in d.i..Len(e.out) :
                /\ IsData(e.out[i])
                /\ t.codec = "vorbis" \/ pos(i) <= t.seek + Lead(t.codec)
                /\ t.codec \in Exact => t.seek < pos(i + 1)
                /\ d' = [d EXCEPT !.st = "data", !.i = i, !.cur = pos(i), !.seek = t.seek + Lead(t.codec),
                                  !.from = Max({t.seek, pos(i) - Lead(t.codec)})]

(* Vorbis and Opus: cur is the position of the next sample decoded.        *)
late(x) == IF x.seek < x.cur THEN [x EXCEPT !.seek = x.cur] ELSE x
vorbisGive(x, pcm) == [Given(x, First(pcm, Total - x.cur)) EXCEPT !.cur = @ + Min({Len(pcm), Total - x.cur}), !.seek = None]
skipped(x, skip) == [x EXCEPT !.cur = @ + skip]
vorbisSkip(x, pcm, skip) ==
    IF x.cur + skip # x.seek \/ skip = Len(pcm) THEN nextPkt(skipped(x, skip)) ELSE vorbisGive(skipped(x, skip), Rest(pcm, skip))
VorbisDecode ==
    /\ Decode("vorbis")
    /\ d' = IF d.seek = None THEN vorbisGive(d, pkt.pcm)
            ELSE vorbisSkip(late(d), pkt.pcm, Min({late(d).seek - d.cur, Len(pkt.pcm)}))

(* Opus adds the length of the packet to the address when it skips.        *)
opusSkip(x, pcm, skip) ==
    IF x.cur + skip # x.seek \/ skip = Len(pcm) THEN nextPkt(skipped(x, skip))
    ELSE vorbisGive(skipped(x, skip), [i \in 1..(Len(pcm) - skip) |-> Junk])
OpusDecode ==
    /\ Decode("opus")
    /\ d' = IF d.seek = None THEN vorbisGive(d, pkt.pcm)
            ELSE opusSkip(late(d), pkt.pcm, Min({late(d).seek - d.cur, Len(pkt.pcm)}))

(* AAC and MP3: the container gives the position with each packet.  The    *)
(* last samples of AAC are padding; r - end_padding is unsigned.           *)
toSkip(x, at) == IF x.seek = None THEN 0 ELSE Max({x.seek - at, 0})
aacCut(pcm, at) == IF at + Len(pcm) >= Total /\ Padding <= Len(pcm) THEN First(pcm, Len(pcm) - Padding) ELSE pcm
AacDecode ==
    /\ Decode("aac")
    /\ LET skip == toSkip(d, pos(d.i))
       IN d' = IF d.seek # None /\ skip >= Len(pkt.pcm) THEN nextPkt(d)
               ELSE [Given(d, aacCut(Rest(pkt.pcm, skip), pos(d.i) + skip)) EXCEPT !.seek = None, !.cur = pos(d.i) + skip]
Mp3Decode ==
    /\ Decode("mp3") /\ IsData(pkt)
    /\ LET skip == toSkip(d, pos(d.i))
       IN d' = IF pkt.pcm = <<>> \/ (d.seek # None /\ skip >= Len(pkt.pcm)) THEN nextPkt(d)
               ELSE [Given(d, Rest(pkt.pcm, skip)) EXCEPT !.seek = None, !.cur = pos(d.i) + Len(pkt.pcm) - Delay]
Mp3Tag == Decode("mp3") /\ ~IsData(pkt) /\ d' = nextPkt(d)

(* ALAC forgets the seek with the first packet and cuts what is behind the *)
(* last sample.                                                            *)
alacGive(x, pcm, off) == [Given(x, SubSeq(pcm, off + 1, Len(pcm) - Max({0, Min({x.cur + Len(pcm) - Total, Len(pcm)})})))
                             EXCEPT !.cur = Min({@ + Len(pcm), Total}), !.seek = None]
AlacDecode == Decode("alac") /\ d' = alacGive(d, pkt.pcm, Min({toSkip(d, d.cur), Len(pkt.pcm)}))

(* FLAC: the container knows how many samples a frame has.                 *)
flacBuf(pcm, n) == [i \in 1..n |-> IF i <= Len(pcm) THEN pcm[i] ELSE Junk]
FlacDecode ==
    /\ Decode("flac")
    /\ d' = [Given(d, Rest(flacBuf(pkt.pcm, pkt.n), toSkip(d, pos(d.i)))) EXCEPT
                !.seek = None, !.cur = pos(d.i) + toSkip(d, pos(d.i))]

(* Musepack: the packet is a block of frames; a call decodes one.          *)
MpcInput ==
    /\ Decode("mpc") /\ d.block = <<>>
    /\ LET last == Min({d.i + BlockFrames - 1, Len(e.out)})
       IN d' = [d EXCEPT !.block = [j \in 1..(last - d.i + 1) |-> e.out[d.i + j - 1].pcm], !.cur = pos(d.i), !.i = last + 1]
mpcGive(x, pcm) == IF x.seek >= x.cur THEN x
                   ELSE [x EXCEPT !.out = @ \o Rest(pcm, toSkip(x, x.cur - Len(pcm))), !.seek = None, !.rc = "data"]
MpcDecode ==
    /\ t.codec = "mpc" /\ d.st = "data" /\ d.block # <<>> /\ UNCHANGED <<t, e>>
    /\ d' = mpcGive([d EXCEPT !.block = Tail(@), !.cur = @ + Len(d.block[1])], d.block[1])

DecodeEnd ==
    /\ d.st = "data" /\ d.i > Len(e.out) /\ d.block = <<>> /\ UNCHANGED <<t, e>>
    /\ d' = [d EXCEPT !.st = "done", !.rc = "done"]

Enc == VorbisEncode \/ OpusEncode \/ AacEncode \/ FlacEncode \/ LameEncode \/ SoxrConvert \/ RawEncode
Headers == InfoPacket \/ TagsPacket \/ TagVendor \/ TagCount \/ TagNext \/ BookPacket
Dec == \/ VorbisDecode \/ OpusDecode \/ AacDecode \/ Mp3Decode \/ Mp3Tag \/ AlacDecode \/ FlacDecode
       \/ MpcInput \/ MpcDecode
Next == Give \/ Enc \/ DecodeOpen \/ Headers \/ Seek \/ Dec \/ DecodeEnd
Spec == Init /\ [][Next]_vars /\ WF_vars(Next)

-----------------------------------------------------------------------------
Coded == FlattenSeq([i \in 1..Len(e.out) |-> e.out[i].pcm])
Wanted == Rest(Samples(t), d.from)

(* No encoder loses, doubles or reorders a sample, whatever the pieces it  *)
(* is fed with (the loops of ffflac_encode(), ffmpg_encode() and the       *)
(* others): before the end the packets are a prefix of the track, then all *)
(* of it, with silence before it and behind it only.                       *)
CodedTrue ==
    LET all == Silent(Lead(t.codec)) \o Samples(t)
    IN /\ First(Coded, Len(all)) = First(all, Len(Coded))
       /\ \A i \in (Len(all) + 1)..Len(Coded) : Coded[i] = Silence
       /\ e.rc = "done" => Len(Coded) >= Len(all)
(* What the container is told of the packets (granule positions, samples   *)
(* of a frame) adds up to the samples in them; Vorbis and Opus end with    *)
(* the position of the last sample.                                        *)
CountsTrue ==
    /\ e.rc = "done" /\ t.codec \in WithHeaders => pos(Len(e.out) + 1) = Total /\ e.gran = Total
    /\ \A i \in 1..Len(e.out) : e.out[i].n <= Len(e.out[i].pcm)
(* A decoder gives the samples from the target of the seek to the end of   *)
(* the track, each once, in order, without the delay and the padding of    *)
(* the encoder.                                                            *)
DecodedTrue ==
    /\ d.st # "err" /\ Len(d.out) <= Len(Wanted)
    /\ \A i \in 1..Len(d.out) : d.out[i] \in {Wanted[i], Junk}
    /\ d.st = "done" => Len(d.out) = Len(Wanted)
(* The tags an encoder was given are the tags the decoder reports.         *)
TagsTrue == d.st \in {"book", "seek", "data", "done"} /\ t.codec \in WithHeaders => d.tags = t.tags
(* The samples given are those of the packet (ffopus_decode(): "not yet    *)
(* reached the target packet" otherwise).                                  *)
NoJunk == \A i \in 1..Len(d.out) : d.out[i] # Junk
(* The track was encoded, decoded and ended.                               *)
Ended == e.rc = "done" /\ (d.st = "done" \/ t.codec = "soxr")
=============================================================================
