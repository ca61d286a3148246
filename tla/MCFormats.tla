----------------------------- MODULE MCFormats ------------------------------
(***************************************************************************)
(* The format readers and writers on small files, and the parsers of the   *)
(* network's texts.  Each part is a module of its own, or one reader of a  *)
(* module; they are checked side by side, and part says which of them a    *)
(* behaviour is about.  The files are what the modules' headers say a file *)
(* is: the places and lengths of its parts, no bytes; the texts are short  *)
(* sequences of the characters that matter.                                *)
(***************************************************************************)
EXTENDS Integers, Sequences, FiniteSetsExt, TLC

VARIABLES part, o, w,
          f, p, got     \* the variables of Tags
formatvars == <<part, o, w, f, p, got>>

Bytes(first, n) == [i \in 1..n |-> first + i - 1]

(* Where the elements of s are, laid out one behind another: d is the      *)
(* depth of an element, hdr the length of its header, own that of what it  *)
(* holds besides the deeper elements that follow it.                       *)
Begin(s, i) == MapThenSumSet(LAMBDA j : s[j].hdr + s[j].own, 1..(i - 1))
Within(s, i) == s[i].own + MapThenSumSet(LAMBDA j : s[j].hdr + s[j].own,
                     {j \in (i + 1)..Len(s) : \A k \in (i + 1)..j : s[k].d > s[i].d})
Laid(s) == {[off |-> Begin(s, i), size |-> Within(s, i)] @@ s[i] : i \in DOMAIN s}
Length(s) == Begin(s, Len(s) + 1)
-----------------------------------------------------------------------------
(* A WAV file with tags, padding and a chunk nobody knows; one that was    *)
(* not finished, with lengths beyond its end.                              *)
WavFiles ==
    LET C(id, type, off, size) == [id |-> id, type |-> type, off |-> off, size |-> size]
    IN {[size |-> 28, chunks |-> {C("RIFF", "WAVE", 0, 26), C("fmt", "none", 4, 2),
            C("LIST", "INFO", 8, 6), C("tag", "none", 12, 1), C("junk", "none", 16, 1),
            C("data", "none", 20, 5)}],
        [size |-> 19, chunks |-> {C("RIFF", "WAVE", 0, 1000), C("LIST", "none", 4, 3),
            C("fmt", "none", 9, 2), C("data", "none", 13, 1000)}]}
Wav == INSTANCE Riff WITH Files <- WavFiles, MaxPiece <- 4, Hdr <- 2, Min4 <- 2, Depth <- 4,
           SampSize <- 2, MaxSeeks <- 1, SeekOn <- {"HDR", "DATA"}, Tags <- TRUE

(* An AVI file with a video and an audio stream and tags.                  *)
AviFiles ==
    LET C(id, type, off, size) == [id |-> id, type |-> type, off |-> off, size |-> size, stm |-> -1]
        S(stm, off, size) == [C("movi_chunk", "none", off, size) EXCEPT !.stm = stm]
    IN {[size |-> 52, audio |-> 1, chunks |-> {C("RIFF", "AVI", 0, 50), C("LIST", "hdrl", 4, 26),
            C("LIST", "strl", 8, 10), C("strh", "vids", 12, 3), C("strf", "none", 16, 2),
            C("LIST", "strl", 20, 10), C("strh", "auds", 24, 2), C("strf", "none", 28, 2),
            C("LIST", "INFO", 32, 6), C("tag", "none", 36, 1),
            C("LIST", "movi", 40, 10), S(0, 44, 0), S(1, 46, 1), S(1, 50, 0)}]}
Avi == INSTANCE Riff WITH Files <- AviFiles, MaxPiece <- 3, Hdr <- 2, Min4 <- 2, Depth <- 5,
           SampSize <- 2, MaxSeeks <- 0, SeekOn <- {}, Tags <- TRUE

(* MP4 with the samples behind the index and before it.                    *)
Mp4Kinds ==
    LET K(min, whole, req, multi, prio, kids) ==
          [min |-> min, whole |-> whole, req |-> req, multi |-> multi, prio |-> prio, kids |-> kids]
    IN [global |-> [ftyp |-> K(1, FALSE, FALSE, FALSE, 1, "none"),
                    moov |-> K(0, FALSE, FALSE, FALSE, 2, "moov"),
                    mdat |-> K(0, FALSE, FALSE, FALSE, 2, "none")],
        moov |-> [mvhd |-> K(1, FALSE, TRUE, FALSE, 0, "none"),
                  trak |-> K(0, FALSE, FALSE, TRUE, 0, "trak"),
                  udta |-> K(1, FALSE, FALSE, FALSE, 0, "udta")],
        trak |-> [stbl |-> K(1, TRUE, TRUE, FALSE, 0, "none")],
        udta |-> [data |-> K(1, TRUE, FALSE, FALSE, 0, "none")]]
Mp4Files ==
    LET B(type, off, hdr, size) == [type |-> type, off |-> off, hdr |-> hdr, size |-> size]
        FR(off, size) == [off |-> off, size |-> size]
        SK(chunk, size) == [chunk |-> chunk, size |-> size]
    IN {[size |-> 35, chunktab |-> <<30, 33>>, sktab |-> <<SK(0, 1), SK(0, 2), SK(1, 2)>>,
         frames |-> <<FR(30, 1), FR(31, 2), FR(33, 2)>>,
         boxes |-> {B("ftyp", 0, 2, 4), B("moov", 4, 2, 23), B("mvhd", 6, 2, 4), B("mvhd", 10, 2, 4),
                    B("trak", 14, 2, 5), B("stbl", 16, 2, 3), B("udta", 19, 2, 8), B("junk", 22, 2, 2),
                    B("data", 24, 2, 3), B("mdat", 27, 3, 8)}],
        [size |-> 23, chunktab |-> <<7, 9>>, sktab |-> <<SK(0, 1), SK(1, 2)>>,
         frames |-> <<FR(7, 1), FR(9, 2)>>,
         boxes |-> {B("ftyp", 0, 2, 4), B("mdat", 4, 3, 7), B("moov", 11, 2, 12), B("mvhd", 13, 2, 5),
                    B("trak", 18, 2, 5), B("stbl", 20, 2, 3)}]}
Mp4 == INSTANCE Mp4 WITH Files <- Mp4Files, Kinds <- Mp4Kinds, MaxPiece <- 4, Hdr <- 2, Hdr64 <- 3,
           Depth <- 5, MaxSeeks <- 1, SeekOn <- {"HDR", "METAFIN", "DATA"}, MaxOff <- 150, U64 <- 1000

(* MP4 to write: of a known length, with more and with fewer frames than   *)
(* that; of an unknown one, without frames, with more bytes than a 32-bit  *)
(* offset reaches.                                                         *)
Mp4WFiles ==
    LET T(id, v) == [id |-> id, v |-> v]
        J(total, delay, lens, tags) ==
            [total |-> total, delay |-> delay, rate |-> 12, fs |-> 3, lens |-> lens, tags |-> tags]
    IN {J(12, 2, <<2, 1, 3, 1, 2>>, <<T("title", 1), T("trackno", 3), T("lost", 4), T("title", 2)>>),
        J(4, 2, <<2, 2>>, <<T("discnumber", 1), T("comment", 7), T("tracktotal", 9)>>),
        J(0, 2, <<1, 2, 2>>, <<T("artist", 5)>>),
        J(0, 4, <<1>>, <<>>), J(0, 0, <<>>, <<>>),
        J(0, 0, <<1, 190, 1>>, <<>>), J(8, 1, <<1, 1>>, <<>>), J(3, 3, <<1, 1, 1>>, <<>>)}
Mp4W == INSTANCE Mp4 WITH Files <- Mp4WFiles, Kinds <- Mp4Kinds, MaxPiece <- 1, Hdr <- 2, Hdr64 <- 3,
           Depth <- 5, MaxSeeks <- 0, SeekOn <- {}, MaxOff <- 150, U64 <- 1000

(* Matroska with every way to code the lengths of a block's frames; files  *)
(* of a wrong version, without tracks, with bad lengths; no Matroska.      *)
MkvFiles ==
    LET E(d, id, own, val) == [d |-> d, id |-> id, idlen |-> 1, szlen |-> 1, hdr |-> 2, own |-> own, val |-> val]
        B(d, own, trk, time, hdr, how, code) ==
            E(d, "block", own, [trk |-> trk, time |-> time, hdr |-> hdr, how |-> how, code |-> code])
        Wide(e, i, s) == [e EXCEPT !.idlen = i, !.szlen = s, !.hdr = i + s]
        F(s, frames) == [size |-> Length(s), els |-> Laid(s), frames |-> frames]
        Hd == <<E(0, "head", 0, 0), E(1, "ver", 1, 1), E(0, "seg", 0, 0)>>
        Trk == <<E(1, "info", 0, 0), E(2, "junk", 2, 0), E(1, "tracks", 0, 0), E(2, "trkent", 0, 0),
                 E(3, "trkno", 1, 1), E(3, "trktype", 1, 2)>>
        Cl == <<E(1, "clust", 0, 0), E(2, "time", 1, 4)>>
    IN {F(<<Wide(E(0, "head", 0, 0), 2, 1), E(1, "ver", 1, 1), Wide(E(0, "seg", 0, 0), 1, 2)>> \o Trk \o
          <<E(2, "trkent", 0, 0), E(3, "trkno", 1, 2), E(3, "trktype", 1, 1), E(3, "video", 0, 0),
            E(4, "junk", 1, 0)>> \o Cl \o
          <<B(2, 4, 1, 1, 2, "no", <<>>), B(2, 3, 2, 1, 2, "no", <<>>),
            E(1, "tags", 0, 0), E(2, "tag", 0, 0), E(3, "val", 1, 0),
            E(1, "clust", 0, 0), E(2, "time", 2, 6), B(2, 7, 1, 0, 3, "xiph", <<1, 2>>),
            B(2, 7, 1, 2, 3, "ebml", <<1, 1>>)>>,
          <<<<5, <<47, 48>>>>, <<6, <<72>>>>, <<6, <<73, 74>>>>, <<6, <<75>>>>, <<8, <<81>>>>,
            <<8, <<82, 83>>>>, <<8, <<84>>>>>>),
        F(Hd \o <<E(1, "tracks", 0, 0), E(2, "junk", 1, 0)>>, <<>>),
        F(<<E(0, "head", 0, 0), E(1, "ver", 1, 2)>>, <<>>),
        F(<<E(0, "junk", 2, 0)>>, <<>>),
        F(Hd \o Trk \o Cl \o <<B(2, 5, 1, 0, 2, "fixed", <<2>>)>>, <<>>),
        F(Hd \o Trk \o Cl \o <<B(2, 5, 1, 0, 2, "ebml", <<1, -2>>)>>, <<>>)}
Mkv == INSTANCE Mkv WITH Files <- MkvFiles, MaxPiece <- 3, Depth <- 10

(* OGG with packets over several pages, in a page marked undefined, with a *)
(* bad page and bytes between pages; one with a page missing.              *)
OggFiles ==
    LET P(segs, gpos, num, cont, last) ==
          [d |-> 0, hdr |-> 1 + Len(segs), own |-> MapThenSumSet(LAMBDA i : segs[i], DOMAIN segs),
           segs |-> segs, gpos |-> gpos, num |-> num, cont |-> cont, last |-> last, ok |-> TRUE]
        Junk(n) == [P(<<>>, 0, 0, FALSE, FALSE) EXCEPT !.hdr = 0, !.own = n]
        F(s, frames) == [size |-> Length(s), pages |-> {g \in Laid(s) : g.hdr # 0}, frames |-> frames]
        T == TRUE
        N == FALSE
    IN {F(<<P(<<1>>, 0, 0, N, N), P(<<1, 1>>, 0, 1, N, N), P(<<1, 2>>, 1, 2, N, N), P(<<1, 1>>, 5, 3, T, N),
            P(<<2>>, -1, 4, N, N), P(<<1, 1>>, 9, 5, T, N), Junk(1),
            [P(<<1>>, -1, 6, N, N) EXCEPT !.ok = N], P(<<1>>, 14, 7, N, T)>>,
          <<<<0, <<2>>>>, <<0, <<6>>>>, <<0, <<7>>>>, <<0, <<11>>>>, <<1, <<12, 13, 17>>>>, <<1, <<18>>>>,
            <<5, <<21, 22, 26>>>>, <<5, <<27>>>>, <<9, <<34>>>>>>),
        F(<<P(<<1>>, 0, 0, N, N), P(<<1>>, 0, 1, N, N), P(<<1>>, 3, 5, N, N), P(<<1>>, 8, 6, N, T)>>,
          <<<<0, <<2>>>>, <<0, <<5>>>>, <<0, <<8>>>>, <<0, <<11>>>>>>)}
Ogg == INSTANCE Ogg WITH Files <- OggFiles, MaxPiece <- 5, MinPiece <- 3, Seg <- 2, MaxHdr <- 4,
           MaxPage <- 8, MaxNoSync <- 20, Seekable <- TRUE, MaxSeeks <- 1, SeekOn <- {"INFO", "DATA"},
           MaxSegs <- 3, PktLens <- {1, 3, 7}, MaxPkts <- 3, MaxDelta <- 5

(* MPEG audio with and without tags, a Xing frame, bytes between frames, a *)
(* frame of another stream; no MPEG at all.                                *)
Mp3Files ==
    LET R(k, n) == [d |-> 0, hdr |-> 0, own |-> n, t |-> k]
        F(id3, s, ape, id31) ==
          LET l == {e \in Laid(<<R("id3", id3)>> \o s) : e.t \in {"frame", "xing", "other"}}
          IN [size |-> Length(s) + id3 + ape + id31, id3 |-> id3, ape |-> ape, id31 |-> id31,
              id3bad |-> FALSE, apebad |-> FALSE,
              mpg |-> {[off |-> e.off, len |-> e.size, kind |-> IF e.t = "other" THEN "k2" ELSE "k1",
                        xing |-> e.t = "xing"] : e \in l}]
        M(n) == R("frame", n)
    IN {F(2, <<R("xing", 3), M(3), M(2), M(3)>>, 5, 1),
        [F(1, <<R("junk", 1), R("other", 2), M(3), M(2), M(3)>>, 2, 2) EXCEPT !.apebad = TRUE],
        [F(2, <<M(2), M(3), M(3)>>, 0, 0) EXCEPT !.id3bad = TRUE],
        F(0, <<R("junk", 2), R("other", 2), R("junk", 1), M(2), M(2)>>, 2, 0),
        F(0, <<R("junk", 6)>>, 0, 0)}
(* Files to copy: whether the caller knows their size, and whether a Xing  *)
(* frame is written, go together here.                                     *)
CopyFiles ==
    LET F(id3, lens, xing, id31, sk) ==
          LET off(i) == id3 + MapThenSumSet(LAMBDA j : lens[j], 1..(i - 1))
              audio == {i \in DOMAIN lens : ~(xing /\ i = 1)}
          IN [size |-> off(Len(lens) + 1) + id31, id3 |-> id3, ape |-> 0, id31 |-> id31,
              seekable |-> sk, wxing |-> sk,
              mpg |-> {[off |-> off(i), len |-> lens[i], kind |-> "k1", xing |-> i \notin audio] : i \in DOMAIN lens},
              frames |-> [k \in 1..Cardinality(audio) |->
                             LET i == IF xing THEN k + 1 ELSE k IN Bytes(off(i), lens[i])]]
    IN {F(3, <<3, 3, 2, 3>>, TRUE, 1, sk) : sk \in BOOLEAN} \cup {F(0, <<3, 3, 2>>, TRUE, 0, FALSE)}
Mp3 == INSTANCE Mp3 WITH Files <- Mp3Files, MaxPiece <- 3, Hdr <- 2, Id3Hdr <- 2, ChkSize <- 4,
           MaxNoSync <- 5, SkipFrames <- 1, MaxSeeks <- 1, SeekOn <- {"HDR", "FRAME"}
Copy == INSTANCE Mp3 WITH Files <- CopyFiles, MaxPiece <- 3, Hdr <- 2, Id3Hdr <- 2, ChkSize <- 4,
           MaxNoSync <- 5, SkipFrames <- 1, MaxSeeks <- 1, SeekOn <- {"HDR", "FRAME"}

(* FLAC with tags, a seek table and a picture; with a bad tag and a total  *)
(* that is not true; with no metadata.                                     *)
FlacFiles ==
    LET B(type, size, last) == [d |-> 0, hdr |-> 1, own |-> size, t |-> "block", type |-> type,
                                last |-> last, bad |-> FALSE, pts |-> <<>>]
        Fr(n) == [d |-> 0, hdr |-> 0, own |-> n, t |-> "frame"]
        F(s, total) ==
          LET l == Laid(<<[d |-> 0, hdr |-> 0, own |-> 2, t |-> "info"]>> \o s)
              fr == {e \in l : e.t = "frame"}
              at(k) == CHOOSE e \in fr : Cardinality({q \in fr : q.off <= e.off}) = k
          IN [size |-> Length(s) + 2, total |-> total,
              blocks |-> {[off |-> e.off, size |-> e.size, type |-> e.type, last |-> e.last,
                           bad |-> e.bad, pts |-> e.pts] : e \in {q \in l : q.t = "block"}},
              fl |-> {[off |-> at(k).off, len |-> at(k).size, samples |-> 2, pos |-> 2 * (k - 1)] :
                         k \in 1..Cardinality(fr)},
              frames |-> [k \in 1..Cardinality(fr) |-> Bytes(at(k).off, at(k).size)]]
    IN {F(<<B("tags", 2, FALSE), B("junk", 3, FALSE),
            [B("seektable", 2, FALSE) EXCEPT !.pts = <<[sample |-> 4, off |-> 6]>>],
            B("pic", 1, TRUE), Fr(3), Fr(3), Fr(4), Fr(2)>>, 8),
        F(<<[B("tags", 2, TRUE) EXCEPT !.bad = TRUE], Fr(4), Fr(3), Fr(4), Fr(3)>>, 9),
        F(<<Fr(4), Fr(3)>>, 4)}
FlacJobs ==
    {[total |-> t, samples |-> 4, interval |-> 2, pad |-> pad, pic |-> pic, seekable |-> TRUE] :
        t \in {0, 4}, pad \in 0..1, pic \in BOOLEAN}
    \cup {[total |-> 0, samples |-> 4, interval |-> 2, pad |-> 1, pic |-> FALSE, seekable |-> FALSE]}
Flac == INSTANCE Flac WITH Files <- FlacFiles, MaxPiece <- 4, MinPiece <- 2, Min0 <- 2, Hdr <- 1,
           FrHdr <- 2, MaxNoSync <- 20, Avg <- 2, MaxSeeks <- 1, SeekOn <- {"HDRFIN", "DATA"}
FlacW == INSTANCE Flac WITH Files <- FlacJobs, MaxPiece <- 4, MinPiece <- 2, Min0 <- 2, Hdr <- 1,
           FrHdr <- 2, MaxNoSync <- 20, Avg <- 2, MaxSeeks <- 1, SeekOn <- {"HDRFIN", "DATA"}

(* Musepack ("m"), Monkey's Audio ("p"), WavPack ("v") and ADTS ("a") with *)
(* tags behind the audio, bytes between the blocks, unknown blocks.        *)
FrameFiles ==
    LET B(id, len) == [d |-> 0, hdr |-> 0, own |-> len, id |-> id]
        Ap(n) == B("AP", n)
        F(fmt, hdr, s, ape, id31) ==
          LET known == SelectSeq([i \in DOMAIN s |-> [s[i] EXCEPT !.d = i]], LAMBDA b : b.id # "J")
              at(b) == hdr + Begin(s, b.d)
          IN [fmt |-> fmt, size |-> hdr + Length(s) + ape + id31, ape |-> ape, id31 |-> id31,
              apebad |-> FALSE, fakes |-> {}, bad |-> FALSE, delay |-> 0, so |-> 0, hdr |-> 2, wav |-> 0,
              undecodable |-> {}, clean |-> \A i \in DOMAIN s : s[i].id # "J",
              blocks |-> [i \in DOMAIN known |->
                 [id |-> known[i].id, len |-> known[i].own, hdr |-> IF known[i].id = "ST" THEN 4 ELSE 3,
                  off |-> at(known[i]),
                  sample |-> 2 * Cardinality({j \in 1..(known[i].d - 1) : s[j].id = "AP"})]]]
        SH == B("SH", 4)
        SE == B("SE", 3)
    IN {[F("m", 4, <<SH, B("SO", 4), B("EI", 4), Ap(5), Ap(6), B("XX", 5), Ap(4), SE, B("ST", 5)>>, 3, 0)
            EXCEPT !.so = 26],
        [F("m", 4, <<SH, Ap(5), Ap(6), Ap(7), SE>>, 6, 0) EXCEPT !.fakes = {14, 20}, !.delay = 2],
        [F("m", 4, <<SH, Ap(5), B("J", 6), Ap(4), SE>>, 4, 0) EXCEPT !.apebad = TRUE],
        [F("p", 7, <<Ap(5), Ap(4), Ap(6), Ap(5)>>, 3, 1) EXCEPT !.wav = 1],
        F("p", 5, <<Ap(4), Ap(3), Ap(5)>>, 7, 0),
        F("v", 0, <<Ap(5), Ap(4), Ap(6), Ap(5)>>, 3, 1),
        F("v", 1, <<B("J", 1), Ap(5), Ap(4), B("J", 2), Ap(5)>>, 8, 1),
        F("a", 0, <<Ap(5), Ap(4), Ap(6), Ap(5)>>, 0, 0),
        F("a", 1, <<B("AX", 4), Ap(5), Ap(4), B("J", 3), Ap(5), Ap(4), Ap(4)>>, 0, 0)}
Frames == INSTANCE Frames WITH Files <- FrameFiles, MaxPiece <- 7, ChkSize <- 6, BlkSamples <- 2,
           Align <- 2, HdrLen <- 3, MaxHdr <- 4, Opts <- {"apetag", "id3v1", "seektable"}, MaxSeeks <- 1

(* ID3v2 tags of each version, with and without unsynchronisation; tags to *)
(* write; ICY streams whose metadata is of several blocks or none.         *)
Id3Tags ==
    LET Fr(id, text, datalen, data) == [id |-> id, text |-> text, datalen |-> datalen, data |-> data]
        Tag(ver, unsync, ext, pad, frames) ==
            [ver |-> ver, unsync |-> unsync, ext |-> ext, pad |-> pad, frames |-> frames]
        Title == Fr("title", TRUE, FALSE, <<"a", "FF">>)
    IN {Tag(3, FALSE, 2, 2, <<Title, Fr("pic", FALSE, FALSE, <<"FF", "00", "a">>)>>),
        Tag(4, TRUE, 0, 0, <<Fr("pic", FALSE, TRUE, <<"FF", "00", "FF">>), Title>>),
        Tag(2, FALSE, 0, 1, <<Title, Fr("trackno", TRUE, FALSE, <<"3", "/", "9">>)>>),
        Tag(3, TRUE, 0, 1, <<Fr("comment", TRUE, FALSE, <<"eng", "d", "00", "FF">>),
                             Fr("title", TRUE, FALSE, <<>>)>>)}
Id3Added ==
    LET A(id, data) == [id |-> id, data |-> data]
    IN {<<A("title", <<"a">>), A("tracktotal", <<"9">>), A("comment", <<"c">>)>>,
        <<A("trackno", <<"1">>), A("tracktotal", <<"2">>)>>,
        <<A("trackno", <<"1">>), A("artist", <<"b", "FF">>)>>, <<>>}
IcyStreams ==
    LET A(id, data) == [id |-> id, data |-> data]
        Part(n, meta) == [n |-> n, meta |-> meta]
    IN {[interval |-> 3, parts |-> <<Part(3, <<A("title", <<"a", "'", "b">>), A("url", <<>>)>>),
                                     Part(3, <<>>), Part(2, <<>>)>>],
        [interval |-> 1, parts |-> <<Part(1, <<>>), Part(1, <<A("title", <<"a">>)>>),
                                     Part(1, <<A("title", <<"c", "=">>)>>), Part(0, <<>>)>>]}
Tags == INSTANCE Tags WITH Whole <- BOOLEAN, Icy <- IcyStreams, HdrLen <- 3, FrHdrLen <- 2,
           MetaUnit <- 5, MaxPiece <- 6
-----------------------------------------------------------------------------
(* ZIP with stored and deflated files, a local header that differs, a      *)
(* wrong checksum; one that goes on on another disk.                       *)
ZipFiles ==
    LET Fl(off, hdr, comp, n) == [off |-> off, hdr |-> hdr, comp |-> comp, zsize |-> n, osize |-> n,
                                  crc |-> TRUE, mismatch |-> FALSE]
        Arc(files, sizes) ==
          LET e == files[Len(files)]
              off(i) == e.off + e.hdr + e.zsize + MapThenSumSet(LAMBDA j : sizes[j], 1..(i - 1))
          IN [cdir |-> [i \in DOMAIN files |-> [off |-> off(i), size |-> sizes[i], file |-> files[i]]],
              trl |-> off(Len(files) + 1), disk |-> 0, size |-> off(Len(files) + 1) + 3]
    IN {Arc(<<Fl(0, 3, "deflated", 3), Fl(6, 3, "stored", 0), Fl(9, 4, "deflated", 2)>>, <<3, 4, 3>>),
        Arc(<<[Fl(0, 3, "deflated", 1) EXCEPT !.crc = FALSE],
              [Fl(4, 3, "deflated", 0) EXCEPT !.mismatch = TRUE]>>, <<3, 3>>),
        [Arc(<<Fl(0, 3, "deflated", 1)>>, <<3>>) EXCEPT !.disk = 1]}
ZipJobs == {[items |-> <<2, 0, 1>>, maxitems |-> 9], [items |-> <<1, 1>>, maxitems |-> 1]}
Zip == INSTANCE Zip WITH Files <- ZipFiles, MaxPiece <- 3, MinPiece <- 1, Hdr <- 2, CHdr <- 2,
           Trl <- 2, TrlMax <- 5, Cap <- 2, MaxReads <- 2
ZipW == INSTANCE Zip WITH Files <- ZipJobs, MaxPiece <- 3, MinPiece <- 1, Hdr <- 2, CHdr <- 2,
           Trl <- 2, TrlMax <- 5, Cap <- 2, MaxReads <- 2

(* TAR with a long name, a directory, a link, an extended header; one that *)
(* ends within a file.                                                     *)
TarFiles ==
    LET H(off, type, size) == [off |-> off, type |-> type, size |-> size, err |-> "none", pad |-> TRUE]
        R(off, name, d, n) == [off |-> off, name |-> name, data |-> Bytes(d, n)]
    IN {[size |-> 26, dirty |-> {},
         heads |-> {H(0, "file", 3), H(6, "dir", 0), H(8, "long", 3), H(14, "file", 4), H(20, "link", 0)},
         frames |-> <<R(0, -1, 2, 3), R(6, -1, 8, 0), R(14, 10, 16, 4), R(20, -1, 0, 0)>>],
        [size |-> 14, dirty |-> {12}, heads |-> {H(0, "ext", 3), H(6, "file", 1)},
         frames |-> <<R(6, -1, 8, 1)>>],
        [size |-> 6, dirty |-> {}, heads |-> {[H(0, "file", 3) EXCEPT !.pad = FALSE]}, frames |-> <<>>]}
Tar == INSTANCE Packed WITH Files <- TarFiles, MaxPiece <- 5, Blk <- 2, MaxName <- 4,
           Hdr <- 3, Trl <- 2, Cap <- 2
TarW == INSTANCE Packed WITH Files <- {[items |-> <<3, 0, 4>>]}, MaxPiece <- 5, Blk <- 2, MaxName <- 4,
           Hdr <- 3, Trl <- 2, Cap <- 2

(* GZIP with each field of the header, and with a wrong trailer; XZ with a *)
(* bad block, a bad index, no block at all.                                *)
Gz(extra, name, cmt, hcrc, n, least) ==
    LET d == 3 + extra + name + cmt + hcrc
    IN [extra |-> extra, name |-> name, cmt |-> cmt, hcrc |-> hcrc, data |-> d, trl |-> d + n,
        size |-> d + n + 2, least |-> least, crc |-> TRUE, isize |-> TRUE]
GzFiles == {Gz(4, 0, 0, 2, 4, 1), Gz(0, 2, 3, 0, 2, 9), [Gz(0, 0, 0, 0, 0, 1) EXCEPT !.crc = FALSE],
            [Gz(3, 0, 0, 0, 1, 1) EXCEPT !.isize = FALSE]}
XzFiles ==
    LET B(off, hdr, data) == [off |-> off, hdr |-> hdr, data |-> data, bad |-> FALSE]
    IN {[blocks |-> {B(3, 2, 3), B(8, 3, 2)}, idx |-> 13, trl |-> 17, size |-> 19, badidx |-> FALSE],
        [blocks |-> {B(3, 2, 3), [B(8, 3, 2) EXCEPT !.bad = TRUE]}, idx |-> 13, trl |-> 17, size |-> 19,
         badidx |-> FALSE]}
       \cup {[blocks |-> {}, idx |-> 3, trl |-> 4, size |-> 6, badidx |-> b] : b \in BOOLEAN}
GzR == INSTANCE Packed WITH Files <- GzFiles, MaxPiece <- 9, Hdr <- 3, Trl <- 2, Cap <- 2,
           Blk <- 2, MaxName <- 4
GzW == INSTANCE Packed WITH Files <- {Gz(0, 2, 0, 0, 0, 1)}, MaxPiece <- 4, Hdr <- 3, Trl <- 2, Cap <- 2,
           Blk <- 2, MaxName <- 4
Xz == INSTANCE Packed WITH Files <- XzFiles, MaxPiece <- 4, Hdr <- 3, Trl <- 2, Cap <- 2,
           Blk <- 2, MaxName <- 4

(* 7z with folders of several files and empty files, one with its header   *)
(* packed, and headers that are cut or in a wrong order.                   *)
SzFiles ==
    LET T(id, v) == [id |-> id, v |-> v]
        End == T("End", 0)
        Pack(off, sizes) == <<T("PackInfo", [off |-> off, n |-> Len(sizes)]), T("Size", sizes), End>>
        Unpack(coders, sizes, crc) == <<T("UnPackInfo", 0), T("Folder", coders), T("UnPackSize", sizes),
                                        T("CRC", crc), End>>
        Sub(n, sizes) == <<T("SubStreamsInfo", 0), T("NumUnPackStream", n), T("Size", sizes),
                           T("CRC", [i \in DOMAIN n |-> [j \in 1..n[i] |-> TRUE]]), End>>
        Names(n, empty) == LET l == [i \in 1..n |-> i]
                           IN <<T("FilesInfo", n), T("Dummy", 0), T("EmptyStream", empty), T("Name", l),
                                T("MTime", l), T("Dummy", 0), T("WinAttributes", l), End>>
        Head1 == <<T("Header", 0), T("MainStreamsInfo", 0)>>
        M1 == Head1 \o Pack(2, <<3, 2>>) \o Unpack(<<<<"lzma">>, <<"store">>>>, <<3, 2>>, <<TRUE, TRUE>>)
              \o Sub(<<2, 1>>, <<<<1>>, <<>>>>) \o <<End>> \o Names(5, {1, 4}) \o <<End>>
        M2 == Head1 \o Pack(2, <<4>>) \o Unpack(<<<<"lzma", "x86">>>>, <<4>>, <<TRUE>>)
              \o Sub(<<3>>, <<<<1, 2>>>>) \o <<End, T("FilesInfo", 3), T("Name", <<1, 2, 3>>),
                 T("MTime", <<1, 2, 3>>), T("WinAttributes", <<1, 2, 3>>), End, End>>
        Enc == <<T("EncodedHeader", 0)>> \o Pack(6, <<3>>) \o Unpack(<<<<"lzma">>>>, <<3>>, <<TRUE>>) \o <<End>>
        A(meta, off, size, entries, empty) ==
            [size |-> off + size, hdroff |-> off, hdrsize |-> size, head |-> meta, meta |-> meta,
             metaoff |-> 0, metasize |-> 0, ghdr |-> TRUE, entries |-> entries, empty |-> empty]
        Bad(toks) == A(toks, 2, 2, 0, {})
    IN {A(M1, 7, 2, 5, {1, 4}),
        [A(M2, 6, 3, 3, {}) EXCEPT !.head = Enc, !.metaoff = 6, !.metasize = 3, !.hdroff = 9, !.size = 12],
        Bad(<<T("Header", 0), T("FilesInfo", 1), T("Name", <<1>>)>>),
        Bad(Head1 \o <<T("PackInfo", [off |-> 2, n |-> 1]), T("Size", <<1>>), T("Size", <<1>>)>>),
        Bad(Head1 \o <<End>>), [Bad(<<>>) EXCEPT !.ghdr = FALSE]}
Sz == INSTANCE SevenZip WITH Files <- SzFiles, MaxPiece <- 3, GHdr <- 2, Cap <- 2, MaxDepth <- 5

(* ISO with a directory and two files, in both trees.                      *)
IsoFiles ==
    LET V(type, root, size) == [type |-> type, bad |-> FALSE, root |-> root, size |-> size]
        E(off, len, name, dir, body, size) ==
            [off |-> off, len |-> len, name |-> name, dir |-> dir, body |-> body, size |-> size]
        Img == [size |-> 32, vols |-> <<V("prim", 0, 4), V("other", 0, 0), V("joliet", 16, 8), V("term", 0, 0)>>,
                ents |-> {E(16, 1, "", TRUE, 16, 8), E(17, 1, "", TRUE, 16, 8), E(18, 1, "d", TRUE, 24, 4),
                          E(20, 2, "a", FALSE, 28, 3), E(24, 1, "", TRUE, 24, 4), E(25, 1, "", TRUE, 16, 8),
                          E(26, 2, "b", FALSE, 28, 4)},
                tree |-> <<<<"d">>, <<"a">>, <<"d", "b">>>>]
    IN {Img, [Img EXCEPT !.vols[1].bad = TRUE], [Img EXCEPT !.ents = {E(16, 5, "x", FALSE, 0, 0)}]}
IsoJobs ==
    LET F(path, dir, size, len) == [path |-> path, dir |-> dir, size |-> size, len |-> len,
                                    jlen |-> len + 1, plen |-> 3, pjlen |-> 3, off |-> 0]
    IN {[list |-> <<F(<<"a">>, FALSE, 3, 2), F(<<"d">>, TRUE, 0, 2), F(<<"d", "b">>, FALSE, 0, 3),
                    F(<<"c">>, FALSE, 12, 2), F(<<"d", "e">>, TRUE, 0, 2)>>],
        [list |-> <<F(<<"d", "b">>, FALSE, 0, 3)>>]}
Iso == INSTANCE Iso WITH Files <- IsoFiles, MaxPiece <- 5, Sect <- 4, VolSect <- 0, Options <- {},
           MaxReads <- 2, Dot <- 1, RR <- 1, SP <- 1, PRoot <- 3
IsoW == INSTANCE Iso WITH Files <- IsoJobs, MaxPiece <- 5, Sect <- 12, VolSect <- 1, Options <- {},
           MaxReads <- 2, Dot <- 2, RR <- 1, SP <- 1, PRoot <- 3
-----------------------------------------------------------------------------
(* Texts of the network protocols; the parsers look at characters.         *)
Chars(chars) == [text |-> chars, size |-> Len(chars), decodes |-> TRUE]

(* Short texts of the characters that matter, and long ones on purpose.    *)
Urls ==
    {Chars(t) : t \in UNION {[1..n -> {"a", "1", ":", "/", "?"}] : n \in 1..4}}
    \cup {Chars(t) : t \in {
        <<"a", ":", "/", "/", "[", ":", "1", "]", ":", "1", "/", "a", "?", "1", " ">>,
        <<"a", ":", "/", "/", "1", ".", "a", "/", ".", "%", "1", "a", "/", "/", "?", " ">>,
        <<"[", ":", "a", "]", "/", "#">>, <<"a", ":", "1", "1", "1">>,
        <<"a", "a", "a", "a", "a", "a", "a">>, <<"/", "%", "1", " ">>,
        <<"[", "a", "a", "a", "a", "a", "a", "]">>, <<"[", "/">>}}

Http1(t) == <<"H", "T", "T", "P", "/", "1", ".">> \o t
HeaderTexts ==
    LET Text(k, t) == [kind |-> k] @@ Chars(t)
        Hdr(t) == Text("hdr", t \o <<"LF", "LF">>)
        Req(t) == Text("req", t)
        Resp(t) == Text("resp", t)
    IN {Hdr(<<"a", ":">> \o t) : t \in UNION {[1..n -> {"a", " ", "CR", "LF"}] : n \in 0..3}}
       \cup {Hdr(t) : t \in [1..3 -> {"a", "-", ":", "CR", "LF"}]}
       \cup {Req(<<"a", " ", "/", "a", "?", "1", " ">> \o Http1(<<"1", " ", "CR", "LF", "a", ":", " ", "a", "LF", "LF">>)),
             Req(<<"a", " ", " ", "a", ":", "/", "/", "a", ":", "1", "/", "%", "1", "a", "/", "#", "a", " ">>
                 \o Http1(<<"0", "LF", "CR", "LF">>)),
             [Req(<<"a", " ", "/", ".", ".", "/", " ", "H", "T">>) EXCEPT !.decodes = FALSE],
             Req(<<"a", "a", " ", "a", ":", "1", " ", " ", "H", "T", "T", "P", "/", ".", "1", "LF", "LF">>),
             Req(<<"a", " ", "a", ":", "1", " ", "H">>), Req(<<"a", " ", "[", "a", "a", "/">>),
             Req(<<"a", " ", "/", "CR", "LF">>), Req(<<"-">>),
             Req(<<"a", " ", "/", " ", "H", "T", "T", "P", "/", "1", "1", "1", "1">>),
             Req(<<"a", " ", "/", " ">> \o Http1(<<"1", "CR", "a">>)),
             Resp(Http1(<<"1", " ", " ", "1", "0", "0", " ", "a", " ", "CR", "LF", "LF">>)),
             Resp(Http1(<<"0", " ", "1", "0", "0", " ", "LF", "a", "-", "a", ":", "CR", "LF", "LF">>)),
             Resp(Http1(<<"1", " ", "1", "0", "1", "0">>)), Resp(Http1(<<"1", " ", "1", "LF">>)),
             Resp(Http1(<<"1", " ", "1", "0", "0", " ", "CR", "a">>)), Resp(Http1(<<"LF">>)),
             Resp(<<"H", "T", "P">>),
             Resp(Http1(<<"1", " ", "1", "0", "0", " ">> \o [i \in 1..18 |-> "a"]))}

(* Up to three headers, those about the body in any order.                 *)
HeaderLists ==
    LET H(n, v) == [name |-> n, val |-> v, len |-> 0]
        L(n) == [name |-> "Content-Length", val |-> <<>>, len |-> n]
        All == {H("Connection", <<"close", "x">>), H("Connection", <<"x", "keep-alive">>), L(5), L(0), L(-2),
                L(-1), H("Content-Encoding", <<"gzip">>), H("Transfer-Encoding", <<"chunked">>),
                H("Transfer-Encoding", <<"gzip">>)}
    IN [frames : UNION {[1..k -> All] : k \in 0..3}, http11 : BOOLEAN, nobody : BOOLEAN]

(* The last two have a size that wraps, to 0 and to 1: the decoder takes   *)
(* the rest for the end of the body, and one byte of data.                 *)
Chunks ==
    LET C(t, out) == [text |-> t, size |-> Len(t), frames |-> out]
    IN {C(<<"1", "CR", "LF", "a", "CR", "LF", "1", "0", ";", "a", "LF">> \o [i \in 1..16 |-> "a"]
          \o <<"LF", "0", "CR", "LF", "a", "CR", "LF", "CR", "LF">>, <<3>> \o [i \in 1..16 |-> i + 10]),
        C(<<"0", "0", " ", "CR", "LF", "a", "LF", "LF">>, <<>>), C(<<"a">>, <<>>), C(<<"1", "a">>, <<>>),
        C(<<"1", "CR", "a">>, <<>>), C(<<"1", "LF", "a", "a">>, <<2>>), C(<<"1", "LF", "a", "CR", "a">>, <<2>>),
        C(<<"1", "1", "1">>, <<>>), C(<<"0", "LF", "CR", "a">>, <<>>), C(<<"0", "LF", "a", "CR", "a">>, <<>>),
        C(<<"1", "0", "0", "CR", "LF", "a", "LF", "LF">>, <<>>),
        C(<<"1", "0", "1", "LF", "a", "LF", "0", "LF", "LF">>, <<4>>)}

(* Ranges, and those of the last bytes.                                    *)
Ranges ==
    {[kind |-> "range", range |-> r, size |-> 4] : r \in ((-1..4) \X (-1..5)) \ {<<-1, -1>>}}
Conversions ==
    [kind : {"ip6"}, text : [1..5 -> {"0", "1"}]]
    \cup [kind : {"uri"}, text : UNION {[1..n -> {"a", "%", " ", "?"}] : n \in 1..3}]
    \cup [kind : {"path", "strict"}, text : UNION {[1..n -> {"", "a", "b", ".", ".."}] : n \in 1..3} \ {<<"">>}]

UrlP == INSTANCE HttpParse WITH Files <- Urls, MaxPiece <- 3, MaxHost <- 4, MaxIp6 <- 5, MaxPort <- 50,
            MaxLine <- 30, ChunkWrap <- 256
LineP == INSTANCE HttpParse WITH Files <- HeaderTexts, MaxPiece <- 9, MaxHost <- 4, MaxIp6 <- 5, MaxPort <- 50,
             MaxLine <- 30, ChunkWrap <- 256
HeadP == INSTANCE HttpParse WITH Files <- HeaderLists, MaxPiece <- 9, MaxHost <- 4, MaxIp6 <- 5, MaxPort <- 50,
             MaxLine <- 30, ChunkWrap <- 256
BodyP == INSTANCE HttpParse WITH Files <- Chunks, MaxPiece <- 4, MaxHost <- 4, MaxIp6 <- 5, MaxPort <- 50,
             MaxLine <- 30, ChunkWrap <- 256
ConvP == INSTANCE HttpParse WITH Files <- Conversions, MaxPiece <- 4, MaxHost <- 4, MaxIp6 <- 5, MaxPort <- 50,
             MaxLine <- 30, ChunkWrap <- 256
RangeP == INSTANCE HttpParse WITH Files <- Ranges, MaxPiece <- 4, MaxHost <- 4, MaxIp6 <- 5, MaxPort <- 50,
             MaxLine <- 30, ChunkWrap <- 256
-----------------------------------------------------------------------------
NoTags == f = 0 /\ p = 0 /\ got = 0
FormatsInit ==
    \/ /\ part = "tags" /\ o = [ret |-> "DONE"] /\ w = 0 /\ Tags!Init
    \/ /\ NoTags
       /\ \/ part = "wav" /\ Wav!WavInit
          \/ part = "avi" /\ Avi!AviInit
          \/ part = "mp4" /\ Mp4!Init
          \/ part = "mp4w" /\ Mp4W!WInit
          \/ part = "mkv" /\ Mkv!Init
          \/ part = "ogg" /\ Ogg!Init
          \/ part = "oggw" /\ Ogg!WInit
          \/ part = "mp3" /\ Mp3!Init
          \/ part = "copy" /\ Copy!CopyInit
          \/ part = "flac" /\ Flac!Init
          \/ part = "flacw" /\ FlacW!WInit
          \/ part = "frames" /\ Frames!Init
          \/ part = "zip" /\ Zip!Init
          \/ part = "zipw" /\ ZipW!WInit
          \/ part = "tar" /\ Tar!TarInit
          \/ part = "tarw" /\ TarW!TarWInit
          \/ part = "gz" /\ GzR!GzInit
          \/ part = "gzw" /\ GzW!GzWInit
          \/ part = "xz" /\ Xz!XzInit
          \/ part = "7z" /\ Sz!Init
          \/ part = "iso" /\ Iso!Init
          \/ part = "isow" /\ IsoW!WInit
          \/ part = "url" /\ UrlP!UrlInit
          \/ part = "line" /\ LineP!ParseInit
          \/ part = "head" /\ HeadP!HeadersInit
          \/ part = "body" /\ BodyP!ChunkInit
          \/ part = "conv" /\ ConvP!ConvInit
          \/ part = "range" /\ RangeP!RangeInit

(* A step of a reader or a writer, with the steps of its caller.           *)
Step ==
    \/ part = "wav" /\ Wav!WavNext
    \/ part = "avi" /\ Avi!AviNext
    \/ part = "mp4" /\ Mp4!Next
    \/ part = "mp4w" /\ Mp4W!WNext
    \/ part = "mkv" /\ Mkv!Next
    \/ part = "ogg" /\ Ogg!Next
    \/ part = "oggw" /\ Ogg!WNext
    \/ part = "mp3" /\ Mp3!Next
    \/ part = "copy" /\ Copy!CopyNext
    \/ part = "flac" /\ Flac!Next
    \/ part = "flacw" /\ FlacW!WNext
    \/ part = "frames" /\ Frames!Next
    \/ part = "zip" /\ Zip!Next
    \/ part = "zipw" /\ ZipW!WNext
    \/ part = "tar" /\ Tar!TarNext
    \/ part = "tarw" /\ TarW!TarWNext
    \/ part = "gz" /\ GzR!GzNext
    \/ part = "gzw" /\ GzW!GzWNext
    \/ part = "xz" /\ Xz!XzNext
    \/ part = "7z" /\ Sz!Next
    \/ part = "iso" /\ Iso!Next
    \/ part = "isow" /\ IsoW!WNext
    \/ part = "url" /\ UrlP!UrlNext
    \/ part = "line" /\ LineP!ParseNext
    \/ part = "head" /\ HeadP!HeadersNext
    \/ part = "body" /\ BodyP!ChunkNext
    \/ part = "conv" /\ ConvP!Convert
    \/ part = "range" /\ RangeP!Range1
Returned == IF part = "tags" THEN Tags!Ended ELSE o.ret # "run"

(* A caller that has its result may stop.                                  *)
FormatsNext == \/ UNCHANGED <<part, f, p, got>> /\ Step
               \/ UNCHANGED <<part, o, w>> /\ part = "tags" /\ Tags!Next
               \/ Returned /\ UNCHANGED formatvars
-----------------------------------------------------------------------------
(* What a reader hands out is what the file holds there: no byte is lost,  *)
(* repeated or glued to one that is not its neighbour, wherever the input  *)
(* is cut and whatever was skipped or sought before.                       *)
BytesTrue ==
    /\ part = "wav" => Wav!SamplesAt
    /\ part = "avi" => Avi!BlocksWhole
    /\ part = "mp4" => Mp4!FrameAt
    /\ part = "mkv" => Mkv!OutputTrue
    /\ part = "ogg" => Ogg!PacketsTrue
    /\ part = "mp3" => Mp3!TagTrue
    /\ part = "copy" => Copy!CopyTrue
    /\ part = "flac" => Flac!FramesTrue
    /\ part = "frames" => Frames!BlocksWhole /\ Frames!SamplesTrue /\ Frames!TagTrue
    /\ part = "tags" => Tags!TagsWhole
    /\ part = "zip" => Zip!DataTrue
    /\ part = "tar" => Tar!OutputTrue
    /\ part = "gz" => GzR!GzTrue
    /\ part = "xz" => Xz!XzTrue
    /\ part = "7z" => Sz!FileTrue
    /\ part = "iso" => Iso!FileTrue

(* Everything is found: a reader that says it is done, and was not      *)
(* asked to seek, has handed out every frame, and the index that it builds *)
(* of an archive or of nested chunks has every entry at its place.         *)
AllFound ==
    /\ part = "wav" => Wav!HeadersFound
    /\ part = "avi" => Avi!HeadersFound
    /\ part = "mp4" => Mp4!HeadersFound
    /\ part = "mkv" => Mkv!Complete
    /\ part = "mp3" => Mp3!NoneSkipped /\ Mp3!AllRead
    /\ part = "flac" => Flac!FramesAll
    /\ part = "frames" => Frames!BlocksInOrder /\ Frames!AllBlocks
    /\ part = "zip" => Zip!CdirTrue
    /\ part = "tar" => Tar!Complete
    /\ part = "7z" => Sz!Listed /\ Sz!DepthOk
    /\ part = "iso" => Iso!Tree

(* A reader knows where in the file it is, so that what it asks its caller *)
(* to seek to, or to skip, is the place it means; it asks for more input   *)
(* only after it took all it had, and stays within what it may collect.    *)
PlaceKnown ==
    /\ part = "wav" => Wav!OffsetTrue /\ Wav!GatherTakes /\ Wav!MoreAtEnd
    /\ part = "avi" => Avi!OffsetTrue /\ Avi!GatherTakes /\ Avi!MoreAtEnd
    /\ part = "mp4" => Mp4!OffsetOfInput /\ Mp4!CollectTakes /\ Mp4!MoreAtEnd
    /\ part = "mkv" => Mkv!OffsetOfInput /\ Mkv!GatherTakes /\ Mkv!MoreAtEnd
    /\ part = "ogg" => Ogg!OffsetOfInput /\ Ogg!SeekInBounds /\ Ogg!MoreAtEnd
    /\ part = "mp3" => Mp3!MoreAtEnd
    /\ part = "flac" => Flac!MoreAtEnd
    /\ part = "tar" => Tar!GatherTakes /\ Tar!MoreAtEnd
    /\ part = "gz" => GzR!OffsetKnown /\ GzR!GatherTakes /\ GzR!MoreAtEnd
    /\ part = "xz" => Xz!OffsetKnown /\ Xz!GatherTakes /\ Xz!MoreAtEnd
    /\ part = "7z" => Sz!OffsetOfInput /\ Sz!MoreAtEnd
    /\ part = "iso" => Iso!Aligned /\ Iso!GatherTakes /\ Iso!MoreAtEnd

(* What a writer has written can be read: what its headers, indexes and    *)
(* trailers say, some of them filled in by seeking back, is true of what   *)
(* was written between.                                                    *)
WrittenTrue ==
    /\ part = "mp4w" => Mp4W!WrittenTrue
    /\ part = "oggw" => Ogg!BytesTrue /\ Ogg!EndsTrue /\ Ogg!PagesTrue
    /\ part = "flacw" => FlacW!FileTrue
    /\ part = "zipw" => ZipW!WrittenTrue
    /\ part = "tarw" => TarW!TarWrittenTrue
    /\ part = "gzw" => GzW!GzWritten
    /\ part = "isow" => IsoW!LayoutTrue /\ IsoW!EntriesKept

(* The parsers take a text for what it says, wherever it is cut; what was  *)
(* written is read back.                                                   *)
TextsTrue ==
    /\ part = "url" => UrlP!PartsTrue
    /\ part = "line" => LineP!HeadersTrue /\ LineP!LineTrue /\ LineP!PiecesDoNotMatter
    /\ part = "head" => HeadP!FramingTrue
    /\ part = "body" => BodyP!OutputTrue /\ BodyP!Complete /\ BodyP!MoreAtEnd
    /\ part = "conv" => ConvP!ConversionTrue
    /\ part = "range" => RangeP!RangeTrue

(* Reading ends: with a caller that seeks a bounded number of times, a     *)
(* reader comes to the end of the file, to an error or to a request for    *)
(* input that there is none of.  No sequence of chunk sizes, gaps, tags    *)
(* and damaged pages keeps its loop going, makes it return the same thing  *)
(* again and again or ask for one position after the other.  (No state of  *)
(* a loop is without a step either: TLC checks for deadlock.)  A writer    *)
(* may be called without input for ever.                                   *)
Writers == {"mp4w", "oggw", "flacw", "zipw", "tarw", "gzw", "isow"}
ReadingEnds == part \in Writers \/ <>[][FALSE]_formatvars
=============================================================================
