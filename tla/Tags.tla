-------------------------------- MODULE Tags --------------------------------
(***************************************************************************)
(* Tags inside a stream that comes in pieces of any length: ID3v2          *)
(* (FF/mtags/ffid3.c) before the audio of an MP3 file, written and read,   *)
(* and the metadata of an ICY stream (FF/audio/fficy.c) every so many      *)
(* bytes of audio.  A byte is a word for what is in it.                    *)
(*                                                                         *)
(* f is the file and what it was made from, p the parser with the piece it *)
(* was given, got what the user got.                                       *)
(***************************************************************************)
EXTENDS Integers, Sequences, SequencesExt, FiniteSetsExt

CONSTANTS Id3Tags,   \* [ver, unsync, ext, pad, frames: Seq([id, datalen, text, data])]
          Id3Added,  \* what is added to a tag that the writer makes: Seq([id, data])
          Whole,     \* values of FFID3_FWHOLE: the user wants frames in one piece
          Icy,       \* [interval, parts: Seq([n, meta: Seq([id, data])])]
          HdrLen, FrHdrLen,   \* bytes of the headers
          MetaUnit,  \* the size of metadata is counted in these
          MaxPiece   \* bytes the user has for a call

VARIABLES f, p, got
vars == <<f, p, got>>

Rep(b, n) == [i \in 1..n |-> b]
Rest(xs, n) == SubSeq(xs, n + 1, Len(xs))
First(xs, n) == SubSeq(xs, 1, n)
Has(xs, b) == \E i \in 1..Len(xs) : xs[i] = b
Find(xs, b) == CHOOSE i \in 1..Len(xs) : xs[i] = b /\ \A j \in 1..(i - 1) : xs[j] # b
Audio == Rep("audio", 2)

-----------------------------------------------------------------------------
(* The writer: ffid3_add() keeps the track number and the total until      *)
(* ffid3_flush() makes one frame of them; ffid3_fin() writes the header.   *)
frame(id, data) == [id |-> id, datalen |-> FALSE, text |-> TRUE,
                    data |-> IF id = "comment" THEN <<"eng", "00">> \o data ELSE data]
kept(w, a) == IF a.id = "trackno" THEN [w EXCEPT !.no = a.data]
              ELSE IF a.id = "tracktotal" THEN [w EXCEPT !.total = a.data]
              ELSE [w EXCEPT !.frames = Append(@, frame(a.id, a.data))]
trackno(w) == (IF w.no = <<>> THEN <<"0">> ELSE w.no) \o (IF w.total = <<>> THEN <<>> ELSE <<"/">> \o w.total)
flush(w) == IF w.no = <<>> /\ w.total = <<>> THEN w.frames ELSE Append(w.frames, frame("trackno", trackno(w)))
Cooked(added) == [ver |-> 4, unsync |-> FALSE, ext |-> 0, pad |-> 1,
                  frames |-> flush(FoldLeft(kept, [no |-> <<>>, total |-> <<>>, frames |-> <<>>], added))]

(* The bytes of a tag; a writer with unsynchronisation puts 00 behind FF.  *)
synced(data) == FlattenSeq([i \in 1..Len(data) |-> IF data[i] = "FF" THEN <<"FF", "00">> ELSE <<data[i]>>])
frBody(tg, fr) == (IF fr.datalen THEN <<"len">> ELSE <<>>) \o (IF fr.text THEN <<"enc">> ELSE <<>>)
                   \o (IF tg.unsync THEN synced(fr.data) ELSE fr.data) \o (IF tg.ver = 2 THEN <<"00">> ELSE <<>>)
tagBody(tg) == Rep("ext", tg.ext) \o FlattenSeq([j \in 1..Len(tg.frames) |->
                   Rep("frh", FrHdrLen) \o frBody(tg, tg.frames[j])]) \o Rep("00", tg.pad)
tagBytes(tg) == Rep("hdr", HdrLen) \o tagBody(tg) \o Audio

(* Metadata of ICY, filled up with zeros: its size is a byte.              *)
addmeta(meta, kv) == meta \o <<kv.id, "=", "'">> \o kv.data \o <<"'", ";">>
finmeta(meta) == meta \o Rep("00", (MetaUnit - (Len(meta) % MetaUnit)) % MetaUnit)
Meta(kvs) == finmeta(FoldLeft(addmeta, <<>>, kvs))
sizeByte(n) == IF n = 0 THEN "0" ELSE IF n = MetaUnit THEN "1" ELSE IF n = 2 * MetaUnit THEN "2" ELSE "3"
metasize(b) == MetaUnit * (CASE b = "0" -> 0 [] b = "1" -> 1 [] b = "2" -> 2 [] b = "3" -> 3)
icyBytes(s) == FlattenSeq([i \in 1..Len(s.parts) |->
                   IF s.parts[i].n < s.interval THEN Rep("audio", s.parts[i].n)
                   ELSE Rep("audio", s.interval) \o <<sizeByte(Len(Meta(s.parts[i].meta)))>> \o Meta(s.parts[i].meta)])

(* ffid3_getdata(): the text of a frame.                                   *)
upTo(data, b) == IF Has(data, b) THEN First(data, Find(data, b) - 1) ELSE data
after(data, b) == IF Has(data, b) THEN Rest(data, Find(data, b)) ELSE data
noEndZero(data) == IF data # <<>> /\ data[Len(data)] = "00" THEN First(data, Len(data) - 1) ELSE data
getdata(id, data) == noEndZero(CASE id = "comment" /\ Len(data) >= 2 -> after(Rest(data, 1), "00")
                                 [] id = "trackno" -> upTo(data, "/")
                                 [] id = "tracktotal" -> after(data, "/")
                                 [] OTHER -> data)

(* What the user of a tag has to get: the text of each frame, and for a    *)
(* track number with a slash the total as well; of a tag made here, what   *)
(* was added.                                                              *)
Ev(id, data) == [id |-> id, data |-> data]
frEvents(fr) == IF fr.data = <<>> THEN <<>>
                ELSE <<Ev(fr.id, getdata(fr.id, fr.data))>> \o
                     (IF fr.id = "trackno" /\ Has(fr.data, "/") THEN <<Ev("tracktotal", getdata("tracktotal", fr.data))>> ELSE <<>>)
tagEvents(tg) == FlattenSeq([j \in 1..Len(tg.frames) |-> frEvents(tg.frames[j])])
Added(added, id) == SelectSeq(added, LAMBDA a : a.id = id)
addedEvents(added) ==
    LET no == Added(added, "trackno")
        total == Added(added, "tracktotal")
    IN SelectSeq(added, LAMBDA a : a.id \notin {"trackno", "tracktotal"})
       \o (IF no # <<>> THEN no ELSE IF total # <<>> THEN <<Ev("trackno", <<"0">>)>> ELSE <<>>) \o total

File(typ, bytes, tg, whole, want) == [typ |-> typ, bytes |-> bytes, tag |-> tg, whole |-> whole, want |-> want]
Init ==
    /\ \/ \E tg \in Id3Tags, whole \in Whole :
             /\ (tg.unsync \/ tg.ver = 2 \/ \E j \in 1..Len(tg.frames) : tg.frames[j].id = "trackno") => whole
             /\ f = File("id3", tagBytes(tg), tg, whole, tagEvents(tg))
       \/ \E a \in Id3Added : f = File("id3", tagBytes(Cooked(a)), Cooked(a), TRUE, addedEvents(a))
       \/ \E s \in Icy : f = File("icy", icyBytes(s), s, TRUE, FlattenSeq([i \in 1..Len(s.parts) |-> s.parts[i].meta]))
    /\ p = [st |-> "hdr", nx |-> "fr", g |-> "fr", gsize |-> 0, gn |-> 0, size |-> 0, frsize |-> 0, j |-> 0, id |-> "",
            data |-> <<>>, buf |-> <<>>, lim |-> 0, rc |-> "more", meta |-> <<>>, d |-> 1, key |-> "", len |-> 0,
            datasize |-> IF f.typ = "icy" THEN f.tag.interval ELSE 0, metasize |-> 0]
    /\ got = [ev |-> <<>>, part |-> <<>>, left |-> f.bytes, n |-> 0]

(* The user gives a piece, as long as there is one, and calls again.       *)
Give ==
    /\ p.rc \in {"more", "ret"} /\ p.buf = <<>> /\ got.left # <<>> /\ UNCHANGED f
    /\ \E n \in 1..Min({MaxPiece, Len(got.left)}) :
          /\ p' = [p EXCEPT !.buf = First(got.left, n)]
          /\ got' = [got EXCEPT !.left = Rest(@, n)]
Call ==
    /\ f.typ = "id3" /\ p.rc \in {"more", "ret"} /\ p.buf # <<>> /\ UNCHANGED <<f, got>>
    /\ p' = [p EXCEPT !.rc = "in", !.lim = IF p.size # 0 THEN Min({p.size, Len(p.buf)}) ELSE Len(p.buf)]

-----------------------------------------------------------------------------
(* ffid3_parse(): an action is a pass of its loop.                         *)
tag == f.tag
eat(x, n) == [x EXCEPT !.buf = Rest(@, n), !.lim = @ - n, !.size = @ - n]
ret(x, rc) == [x EXCEPT !.rc = rc]
\* the end of a pass that does not go on at once: the tag may be over
over(x) == IF x.size = 0 THEN ret(x, "done") ELSE x
frDone == p.st \in {"txtenc", "data", "unsync"} /\ p.frsize = 0
At(st) == f.typ = "id3" /\ p.rc = "in" /\ p.lim > 0 /\ ~frDone /\ p.st = st /\ UNCHANGED f
Quiet == UNCHANGED got

NeedMore == /\ f.typ = "id3" /\ p.rc = "in" /\ p.lim = 0 /\ Quiet /\ UNCHANGED f
            /\ p' = ret(p, "more")
hdrGot(x, n) == IF x.gn < HdrLen THEN ret(x, "more")
                ELSE ret([x EXCEPT !.gn = 0, !.size = Len(tagBody(tag)), !.gsize = IF tag.ext > 0 THEN 1 ELSE 0,
                                   !.st = IF tag.ext > 0 THEN "gather" ELSE "fr", !.g = "extsize"], "ret")
Hdr ==
    /\ At("hdr") /\ Quiet
    /\ LET n == Min({HdrLen - p.gn, p.lim})
       IN p' = hdrGot([p EXCEPT !.gn = @ + n, !.buf = Rest(@, n)], n)
gathered(x) == IF x.gn # x.gsize THEN ret(x, "more") ELSE [x EXCEPT !.gn = 0, !.gsize = 0, !.st = x.g]
Gather ==
    /\ At("gather") /\ Quiet
    /\ LET n == Min({p.gsize - p.gn, p.lim})
       IN p' = IF p.gn = 0 /\ p.size < p.gsize THEN ret(p, "small")
               ELSE gathered([eat(p, n) EXCEPT !.gn = @ + n])
ExtSize == At("extsize") /\ Quiet /\ p' = [p EXCEPT !.gsize = tag.ext - 1, !.st = "gather", !.g = "extdata"]
ExtData == At("extdata") /\ Quiet /\ p' = [p EXCEPT !.st = "fr"]
Fr ==
    /\ At("fr") /\ Quiet
    /\ p' = IF p.buf[1] = "00" THEN over([p EXCEPT !.st = "padding"])
            ELSE [p EXCEPT !.gsize = FrHdrLen, !.st = "gather", !.g = "frhdr"]
frSize(j) == Len(frBody(tag, tag.frames[j]))
frNext(x, fr) == [x EXCEPT !.j = @ + 1, !.id = fr.id, !.frsize = frSize(x.j + 1), !.data = <<>>,
                           !.nx = IF fr.text THEN "txtenc" ELSE "data", !.gsize = IF fr.datalen THEN 1 ELSE 0,
                           !.st = IF fr.datalen THEN "gather" ELSE IF fr.text THEN "txtenc" ELSE "data", !.g = "datalen"]
FrHdr ==
    /\ At("frhdr") /\ Quiet
    /\ p' = IF frSize(p.j + 1) > p.size THEN ret([p EXCEPT !.st = "padding"], "err")
            ELSE ret(frNext(p, tag.frames[p.j + 1]), "ret")
DataLen == At("datalen") /\ Quiet /\ p' = [p EXCEPT !.frsize = @ - 1, !.data = <<>>, !.st = p.nx]
TxtEnc == At("txtenc") /\ Quiet /\ p' = over([eat(p, 1) EXCEPT !.frsize = @ - 1, !.st = "data"])

(* _ffid3_unsync(): FF 00 -> FF; the zero may be in the next piece.        *)
unsyncByte(x, b) == IF x.st = "unsync" /\ b = "00" THEN [x EXCEPT !.st = "data"]
                    ELSE [x EXCEPT !.data = Append(@, b), !.st = IF x.st = "data" /\ b = "FF" THEN "unsync" ELSE "data"]
unsync(x, bytes) == FoldLeft(unsyncByte, x, bytes)
taken(x, bytes) == IF tag.unsync THEN unsync(x, bytes)
                   ELSE IF f.whole /\ (Len(bytes) # x.frsize \/ x.data # <<>>) THEN [x EXCEPT !.data = @ \o bytes]
                   ELSE [x EXCEPT !.data = bytes]
noZero(x) == IF tag.ver = 2 /\ x.data # <<>> THEN [x EXCEPT !.data = First(@, Len(@) - 1)] ELSE x
dataRet(x) == ret([noZero(x) EXCEPT !.st = IF x.id = "trackno" THEN "trktotal" ELSE x.st], "data")
dataGot(x) == IF f.whole /\ x.frsize # 0 THEN over(x) ELSE dataRet(x)
Data ==
    /\ At("data") \/ At("unsync")
    /\ Quiet
    /\ LET n == Min({p.frsize, p.lim})
       IN p' = dataGot([eat(taken(p, First(p.buf, n)), n) EXCEPT !.frsize = @ - n])
TrkTotal ==
    /\ At("trktotal") /\ Quiet
    /\ p' = IF Has(p.data, "/") THEN ret([p EXCEPT !.st = "data", !.id = "tracktotal"], "data") ELSE [p EXCEPT !.st = "data"]
FrDone ==
    /\ f.typ = "id3" /\ p.rc = "in" /\ p.lim > 0 /\ frDone /\ Quiet /\ UNCHANGED f
    /\ p' = over([p EXCEPT !.st = "fr", !.data = <<>>])
Padding == At("padding") /\ Quiet /\ p' = over(eat(p, p.lim))

(* The user puts the pieces of a frame together.                           *)
Take ==
    /\ p.rc = "data" /\ UNCHANGED f
    /\ p' = ret(p, "ret")
    /\ got' = IF p.frsize # 0 THEN [got EXCEPT !.part = @ \o p.data]
              ELSE [got EXCEPT !.ev = Append(@, Ev(p.id, getdata(p.id, got.part \o p.data))), !.part = <<>>]

-----------------------------------------------------------------------------
(* fficy_parse(): a call gives audio or metadata.                          *)
IcyCan == f.typ = "icy" /\ p.rc \in {"more", "ret"} /\ UNCHANGED f
icyData(x, n) == [x EXCEPT !.buf = Rest(@, n), !.datasize = @ - n, !.rc = "ret"]
IcyData ==
    /\ IcyCan /\ p.buf # <<>> /\ p.datasize > 0
    /\ LET n == Min({p.datasize, Len(p.buf)})
       IN p' = icyData(p, n) /\ got' = [got EXCEPT !.n = @ + n]
icySize(x, n) == [x EXCEPT !.buf = Tail(@), !.metasize = n, !.data = <<>>,
                           !.datasize = IF n = 0 THEN f.tag.interval ELSE 0, !.rc = "ret"]
IcySize ==
    /\ IcyCan /\ p.buf # <<>> /\ p.datasize = 0 /\ p.metasize = 0 /\ Quiet
    /\ p' = icySize(p, metasize(p.buf[1]))
icyMeta(x) == IF x.metasize # 0 THEN ret(x, "ret")
              ELSE [x EXCEPT !.datasize = f.tag.interval, !.meta = x.data, !.st = "key", !.d = 1, !.rc = "meta"]
IcyMeta ==
    /\ IcyCan /\ p.buf # <<>> /\ p.datasize = 0 /\ p.metasize > 0 /\ Quiet
    /\ LET n == Min({p.metasize, Len(p.buf)})
       IN p' = icyMeta([p EXCEPT !.buf = Rest(@, n), !.metasize = @ - n, !.data = @ \o First(p.buf, n)])

(* fficy_metaparse(): d is the place in what is left of the metadata; a    *)
(* quote ends a value when a semicolon is behind it.                       *)
MetaAt(st) == p.rc = "meta" /\ p.st = st /\ UNCHANGED f
inMeta == p.d <= Len(p.meta)
MetaKey ==
    /\ MetaAt("key") /\ Quiet
    /\ p' = IF ~Has(p.meta, "=") THEN ret(p, "ret")
            ELSE [p EXCEPT !.key = p.meta[1], !.meta = after(@, "="), !.d = 1, !.st = "qopen"]
MetaOpen ==
    /\ MetaAt("qopen") /\ Quiet
    /\ p' = IF ~inMeta \/ p.meta[1] # "'" THEN ret(p, "ret") ELSE [p EXCEPT !.d = 2, !.st = "val"]
MetaVal ==
    /\ MetaAt("val") /\ Quiet
    /\ p' = IF ~Has(Rest(p.meta, p.d - 1), "'") THEN ret(p, "ret")
            ELSE [p EXCEPT !.len = p.d - 1 + Find(Rest(p.meta, p.d - 1), "'") - 2, !.d = @ + 1, !.st = "smcol"]
MetaEnd ==
    /\ MetaAt("smcol")
    /\ IF ~inMeta THEN p' = ret(p, "ret") /\ Quiet
       ELSE IF p.meta[p.d] # ";" THEN p' = [p EXCEPT !.st = "val"] /\ Quiet
       ELSE /\ p' = [p EXCEPT !.meta = Rest(@, p.d), !.d = 1, !.st = "key"]
            /\ got' = [got EXCEPT !.ev = Append(@, Ev(p.key, SubSeq(p.meta, 2, p.len + 1)))]

Id3Pass == \/ NeedMore \/ Hdr \/ Gather \/ ExtSize \/ ExtData \/ Fr \/ FrHdr \/ DataLen \/ TxtEnc \/ Data \/ TrkTotal
           \/ FrDone \/ Padding
IcyPass == IcyData \/ IcySize \/ IcyMeta \/ MetaKey \/ MetaOpen \/ MetaVal \/ MetaEnd
Next == Give \/ Call \/ Id3Pass \/ Take \/ IcyPass
Spec == Init /\ [][Next]_vars /\ WF_vars(Next)

-----------------------------------------------------------------------------
TagAudio == IF f.typ = "id3" THEN Len(p.buf) + Len(got.left) = Len(Audio)
            ELSE got.n = FoldLeft(LAMBDA n, part : n + part.n, 0, f.tag.parts)
(* The parser came to the end of the tag or the stream.                    *)
Ended == IF f.typ = "id3" THEN p.rc = "done" ELSE p.buf = <<>> /\ got.left = <<>> /\ p.rc # "meta"
(* Wherever the pieces end - inside a header, between an FF and its 00, in *)
(* a frame, before the size byte - the user gets the tags that were        *)
(* written, in order and nothing else, and every byte of audio behind.     *)
TagsWhole ==
    /\ Len(got.ev) <= Len(f.want) /\ \A i \in 1..Len(got.ev) : got.ev[i] = f.want[i]
    /\ Ended => got.ev = f.want /\ TagAudio
=============================================================================
