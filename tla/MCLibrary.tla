----------------------------- MODULE MCLibrary -----------------------------
(***************************************************************************)
(* The parts of the library that work by themselves, side by side: the     *)
(* formats of MCFormats; texts and numbers, data formats, trees and        *)
(* tables, the wait-object handler, and the audio devices and codecs.      *)
(* part says which of them a behaviour is about.                           *)
(***************************************************************************)
EXTENDS MCFormats

VARIABLES x, y, z     \* the variables of a part that is not a format, 0 where it has fewer
xyz == <<x, y, z>>
vars == <<formatvars, xyz>>
-----------------------------------------------------------------------------
(* Ten samples played through a buffer of four, paused or cleared once.    *)
AudioP == INSTANCE AudioDev WITH s <- x, d <- y, u <- z,
              Apis <- {"excl", "shared", "alsa", "sigio", "pulse", "oss", "dsound", "coreaudio"},
              Buf <- 4, Input <- 10, Chunk <- 3, MaxEvents <- 3, Clears <- 1

(* Tracks in chunks about as long as a frame of two samples.  The codecs   *)
(* with a header have tags; FLAC is not given what makes its encoder       *)
(* assert: no samples, or one more than whole frames.                      *)
Tracks ==
    LET Chunked == [codec : {"vorbis", "opus", "aac", "mp3", "flac", "soxr", "alac", "mpc"},
                    chunks : {<<>>, <<1>>, <<5>>, <<6>>, <<3, 3>>, <<1, 1, 4>>, <<2, 6>>, <<4, 4, 3>>},
                    tags : {<<>>, <<"title", "artist">>}, seek : {-1, 0, 3, 4}]
        Samples(tr) == IF tr.chunks = <<>> THEN 0 ELSE IF Len(tr.chunks) = 1 THEN tr.chunks[1]
                      ELSE IF Len(tr.chunks) = 2 THEN tr.chunks[1] + tr.chunks[2]
                      ELSE tr.chunks[1] + tr.chunks[2] + tr.chunks[3]
    IN {tr \in Chunked :
           /\ tr.seek < Samples(tr)
           /\ tr.tags = <<>> \/ tr.codec \in {"vorbis", "opus"}
           /\ tr.codec = "flac" => Samples(tr) > 0 /\ Samples(tr) % 2 # 1}
CodecP == INSTANCE Codec WITH t <- x, e <- y, d <- z,
              Frame <- 2, Delay <- 1, MaxIn <- 3, OutCap <- 2, BlockFrames <- 2

(* Devices that support much, little, planar samples only, other formats.  *)
Devices ==
    LET Dev(fmts, c, r, i) == [fmts |-> fmts, chans |-> c, rates |-> r, il |-> i]
    IN {Dev({"s16"}, {2}, {44}, {TRUE}), Dev({"float", "s24_4", "s16"}, {1, 2}, {48}, {FALSE}),
        Dev({"s16", "s32", "s24"}, {1}, {44, 48}, {TRUE, FALSE}), Dev({"dsd", "s16"}, {2}, {48}, {FALSE})}
Wishes == [fmt : {"s16", "s24", "float", "s24_4"}, ch : {1, 2}, rate : {44}, il : {TRUE}]
(* The cards of ALSA have the devices of the other direction last.         *)
Cards ==
    LET Mixed == <<<<FALSE, TRUE>>, <<TRUE, FALSE, TRUE>>>>
    IN [alsa |-> <<<<TRUE, TRUE, FALSE>>, <<>>, <<FALSE>>, <<TRUE>>>>, wasapi |-> <<<<TRUE>>>>,
        oss |-> Mixed, coreaudio |-> Mixed, pulse |-> Mixed, dsound |-> Mixed]
OpenP == INSTANCE Opens WITH o <- x, dev <- y,
             Kinds <- {"alsa", "oss", "coreaudio", "coreaudio_capt", "dsound", "dsound_capt", "pulse_init", "pulse",
                       "alsa_init", "wasapi", "wasapi_excl", "aac", "aac_enc", "alac", "flac", "flac_enc", "lame",
                       "mp3", "mpc", "opus", "opus_enc", "vorbis", "vorbis_enc", "soxr", "ape"},
             Truthful <- TRUE, Batch <- 1
-----------------------------------------------------------------------------
(* Texts, numbers, arrays.                                                 *)
Upto(n, S) == UNION {[1..k -> S] : k \in 0..n}
Splits ==
    LET Fl(spl, white, words, keep, quot, rev) ==
            [spl |-> spl, white |-> white, words |-> words, keep |-> keep, quot |-> quot, rev |-> rev]
    IN {Fl(44, {32}, FALSE, FALSE, FALSE, FALSE), Fl(44, {32, 9}, FALSE, TRUE, FALSE, FALSE),
        Fl(32, {32}, FALSE, FALSE, FALSE, FALSE), Fl(44, {32, 9}, TRUE, FALSE, FALSE, FALSE),
        Fl(44, {32}, FALSE, FALSE, TRUE, FALSE), Fl(44, {32}, FALSE, FALSE, FALSE, TRUE),
        Fl(44, {32}, FALSE, TRUE, FALSE, TRUE), Fl(44, {32}, TRUE, FALSE, FALSE, TRUE)}
Formats ==
    LET Lit(c) == [k |-> "lit", c |-> c]
        Num(n, width, zero, b) == [k |-> "int", num |-> n, width |-> width, zero |-> zero, base |-> b, sep |-> FALSE]
    IN {<<>>, <<Lit(97)>>, <<Num(255, 0, FALSE, 10)>>, <<Num(7, 0, FALSE, 16), Lit(44), Num(200, 0, FALSE, 10)>>,
        <<Num(-7, 5, FALSE, 10), Lit(44)>>, <<Num(7, 3, TRUE, 10)>>,
        <<[k |-> "str", text |-> <<97, 98, 99>>], Num(0, 0, FALSE, 8)>>, <<[k |-> "fill", c |-> 97, width |-> 3]>>,
        <<Lit(97), [k |-> "bad"]>>, <<[k |-> "flt", num |-> -19, den |-> 8, wfrac |-> 2, width |-> 0], Lit(97)>>}
(* Formats begin in a buffer of every size, part of it used; the elements  *)
(* that are sorted have the sizes that insertion sort knows.               *)
StrP == INSTANCE Str WITH q <- x,
            Texts <- Upto(4, {32, 44, 97, 34}), Versions <- Upto(3, {46, 49, 50, 97}),
            Patterns <- Upto(3, {42, 63, 97, 98}), Names <- Upto(4, {97, 98}), Word <- 8,
            Caps <- {c \in [cap : 0..9, used : 0..2] : c.used <= c.cap},
            Arrays <- Upto(5, 0..2), Sizes <- {4, 8}, CacheLine <- 2
-----------------------------------------------------------------------------
(* Data formats.  The scheme has required, repeated, nested and skipped    *)
(* arguments; a is always the one that is required.                        *)
A(name, type, flags, width, sub) == [name |-> name, t |-> type, f |-> flags, w |-> width, sub |-> sub]
JsonSchemes ==
    [top |-> <<A("a", "int", {"req"}, 2, ""), A("b", "str", {"notempty", "multi"}, 0, ""), A("l", "arr", {}, 0, "lst"),
               A("o", "obj", {"null"}, 0, "top"), A("s", "obj", {}, 0, "skip")>>,
     lst |-> <<A("", "int", {"sign"}, 2, ""), A("", "bool", {}, 2, ""), A("", "obj", {}, 0, "top"), A("", "close", {}, 0, "")>>,
     skip |-> <<>>]
JsonValues ==
    LET T(t, s, kids, keys) == [t |-> t, s |-> s, kids |-> kids, keys |-> keys]
        I(s) == T("int", s, <<>>, <<>>)
        S(s) == T("str", s, <<>>, <<>>)
        W(s) == T(IF s[1] = "n" THEN "null" ELSE "bool", s, <<>>, <<>>)
        L(kids) == T("arr", <<>>, kids, <<>>)
        O(keys, kids) == T("obj", <<>>, kids, keys)
        a == <<"a">>  b == <<"b">>  l == <<"l">>  obj == <<"o">>
        one == I(<<"1">>)
    IN {O(<<a>>, <<one>>), O(<<>>, <<>>), O(<<a, a>>, <<I(<<"3">>), I(<<"3">>)>>),
        O(<<a, b, b>>, <<I(<<"3">>), S(<<"x", "\n">>), S(<<"s", "\\", "b">>)>>), O(<<b, a>>, <<S(<<>>), one>>),
        O(<<l, a>>, <<L(<<I(<<"-", "2">>), W(<<"t", "r">>)>>), I(<<"2">>)>>), O(<<a, <<"z">>>>, <<one, L(<<>>)>>),
        O(<<obj, a>>, <<O(<<a>>, <<one>>), I(<<"4">>)>>), O(<<obj, a>>, <<W(<<"n", "u">>), I(<<"0">>)>>),
        O(<<obj, a>>, <<O(<<>>, <<>>), one>>), O(<<<<"s">>, a>>, <<O(<<<<"z">>>>, <<L(<<O(<<>>, <<>>)>>)>>), one>>),
        L(<<L(<<>>), T("num", <<"1", ".", "5">>, <<>>, <<>>), L(<<L(<<>>)>>), W(<<"f", "a">>)>>)}
JsonBroken ==
    UNION {[1..n -> {"{", "}", "[", "]", "\"", "1", ",", ":", "\\", "u", "H"}] : n \in 1..3}
    \cup {<<"[", "]", "]">>, <<"[", "\"", "\\", "u", "L", "\"", "]">>, <<"[", "\"", "\\", "u", "H", "x", "\"", "]">>,
          <<"[", "1", ".", "]">>, <<"[", "t", "a", "]">>, <<"[", "/", "1", "]">>, <<"{", "\"", "a", "\"", "1">>,
          <<"{", "}", " ">>, <<"[", "\"", "\\", "u", "H", "\\", "u", "H", "\"", "]">>}
JsonP == INSTANCE Json WITH o <- x, UsedBits <- 8, Schemes <- JsonSchemes, Values <- JsonValues, Broken <- JsonBroken,
             Gaps <- {<<>>, <<" ">>, <<"\n", " ">>, <<"/", "*", "x", "*", "/">>, <<"/", "/", "\n">>},
             MaxPiece <- 4, Top <- "top", IntChars <- 4

ConfSchemes ==
    [top |-> <<A("a", "int", {"req"}, 2, ""), A("b", "str", {"list"}, 0, ""), A("k", "obj", {"obj1", "multi"}, 0, "top2"),
               A("r", "str", {}, 0, "")>>,
     top2 |-> <<A("a", "int", {}, 2, ""), A("k", "obj", {}, 0, "top2"), A("*", "str", {}, 0, "")>>,
     skip |-> <<>>]
ConfDocs ==
    LET K(s) == <<"KEY", "key", s>>
        X(s) == <<"KEY", "keyctx", s>>
        V(s) == <<"VAL", "val", s>>
        Open == <<"OPEN", "obj", <<>>>>
        Close == <<"CLOSE", "obj", <<>>>>
        a == K(<<"a">>)  k == K(<<"k">>)  r == K(<<"r">>)
        one == V(<<"1">>)
    IN {<<a, one>>, <<K(<<"b">>), V(<<"a", "c">>), V(<<>>), a, V(<<"3">>)>>, <<a, one, a, one>>, <<a, V(<<"4">>)>>,
        <<a, one, V(<<"2">>)>>, <<a, r, V(<<"v">>)>>, <<k, Open, a, V(<<"2">>), Close, a, one>>,
        <<k, V(<<"d">>), Open, k, Open, Close, Close, a, V(<<"0">>)>>, <<X(<<"k">>), a, one, a, one>>,
        <<K(<<"v">>), one>>, <<X(<<"v">>), K(<<"\"">>), V(<<"d", "\\">>)>>, <<r, V(<<"d", "a">>)>>,
        <<k, V(<<"a">>), a, one>>, <<k, Open, K(<<"t">>), Close, a, one>>}
ConfP == INSTANCE Conf WITH o <- x, UsedBits <- 8, Schemes <- ConfSchemes, Docs <- ConfDocs,
             Gap <- {<<" ">>, <<" ", " ">>, <<"/", "*", "x", "*", "/">>, <<" ", "/", "*", "*", "x", "*", "/">>},
             MaxPiece <- 3, Top <- "top", Caps <- {100}, Grow <- 5
(* Written into a buffer of any size that grows by little.                 *)
WriteP == INSTANCE Conf WITH o <- x, UsedBits <- 8, Schemes <- ConfSchemes, Gap <- {<<" ">>}, Docs <- ConfDocs,
             MaxPiece <- 3, Top <- "top", Caps <- 1..20, Grow <- 5
-----------------------------------------------------------------------------
(* Six nodes, two of one key; keys of one hash, and one of their slot,     *)
(* more than there are slots; two threads whose removals may overlap, of   *)
(* one of which the handler may remove the handle, too.                    *)
TreeP == INSTANCE RbTree WITH t <- x, member <- y, N <- 6, KeyOf <- <<1, 2, 3, 3, 4, 5>>
HashP == INSTANCE HashTab WITH ht <- x, f <- y, put <- z,
             Items <- 2, Hash <- [a |-> 3, b |-> 3, c |-> 2, d |-> 7, e |-> 0]
WaitP == INSTANCE WaitObj WITH w <- x, k <- y, u <- z,
             Users <- {1, 2}, MaxWait <- 3, Rounds <- <<2, 1>>, RmInHandler <- {2}
-----------------------------------------------------------------------------
NoFormat == o = [ret |-> "run"] /\ w = 0 /\ f = 0 /\ p = 0 /\ got = 0
LibraryInit ==
    \/ part = "audio" /\ AudioP!Init
    \/ part = "codec" /\ CodecP!Init
    \/ part = "open" /\ OpenP!Init /\ z = 0
    \/ part = "enum" /\ OpenP!EnumInit /\ z = 0
    \/ part = "str" /\ StrP!Init /\ y = 0 /\ z = 0
    \/ part = "json" /\ JsonP!Init /\ y = 0 /\ z = 0
    \/ part = "cook" /\ JsonP!WInit /\ y = 0 /\ z = 0
    \/ part = "conf" /\ ConfP!Init /\ y = 0 /\ z = 0
    \/ part = "write" /\ WriteP!WInit /\ y = 0 /\ z = 0
    \/ part = "tree" /\ TreeP!Init /\ z = 0
    \/ part = "hash" /\ HashP!Init
    \/ part = "wait" /\ WaitP!Init
Init == \/ FormatsInit /\ x = 0 /\ y = 0 /\ z = 0
        \/ LibraryInit /\ NoFormat

Played == part = "audio" /\ AudioP!Next /\ UNCHANGED part
Coded == part = "codec" /\ CodecP!Next /\ UNCHANGED part
Opened ==
    /\ \/ part = "open" /\ OpenP!Next
       \/ part = "enum" /\ OpenP!EnumNext
    /\ UNCHANGED <<part, z>>
Parsed ==
    /\ \/ part = "str" /\ StrP!Next
       \/ part = "json" /\ JsonP!Next
       \/ part = "cook" /\ JsonP!Bufadd
       \/ part = "conf" /\ ConfP!Next
       \/ part = "write" /\ WriteP!Write
    /\ UNCHANGED <<part, y, z>>
Kept ==
    /\ \/ part = "tree" /\ TreeP!Next /\ UNCHANGED z
       \/ part = "hash" /\ HashP!Next
       \/ part = "wait" /\ WaitP!Next
    /\ UNCHANGED part

(* It is over when the user has got all, the parser has returned, the      *)
(* worker is gone.  ALSA with a signal handler may miss the last signal;   *)
(* PulseAudio does not start a stopped stream to drain it; the worker, or  *)
(* the handler it called, may wait for the lock of a thread that waits for *)
(* the worker, and one whose wait failed may do so, too.                   *)
Stop ==
    /\ CASE part = "audio" -> z.pc = "done" \/ x.api = "sigio" \/ AudioP!Corked
         [] part = "codec" -> CodecP!Ended
         [] part \in {"open", "enum"} -> x.pc = "end"
         [] part = "str" -> x.ret # "run"
         [] part \in {"json", "conf"} -> x.ph = "end"
         [] part = "cook" -> x.at = Len(JsonP!EventsOf(x.v))
         [] part = "write" -> x.at > Len(x.d) \/ x.c.ret <= 0
         [] part = "wait" -> y.pc \in {"lock", "rm", "fail", "end"}
         [] OTHER -> FALSE
    /\ UNCHANGED <<part, xyz>>
Next == \/ FormatsNext /\ UNCHANGED xyz
        \/ (Played \/ Coded \/ Opened \/ Parsed \/ Kept \/ Stop) /\ UNCHANGED <<o, w, f, p, got>>

(* The fairness of the parts: the devices play, their events are handled   *)
(* and their users go on; a call that was made goes on to its end.         *)
Audio(action) == part = "audio" /\ action /\ UNCHANGED part
Fairness ==
    /\ WF_xyz(Audio(AudioP!Device)) /\ WF_xyz(Audio(AudioP!Handler)) /\ WF_xyz(Audio(AudioP!User))
    /\ WF_xyz(Audio(AudioP!Resume \/ AudioP!Clear))
    /\ WF_xyz(Coded)
    /\ WF_xyz(part = "open" /\ OpenP!Step /\ UNCHANGED <<part, z>>)
    /\ WF_xyz(part = "enum" /\ OpenP!EnumStep /\ UNCHANGED <<part, y, z>>)
    /\ WF_xyz(part = "hash" /\ HashP!Probe /\ UNCHANGED part)
FairSpec == Init /\ [][Next]_vars /\ Fairness
-----------------------------------------------------------------------------
(* What a reader, a device or a codec hands out is what it was given: each *)
(* byte and each sample once and in order, wherever the input is cut and   *)
(* whatever was skipped or sought before, and the counts that are kept of  *)
(* them are right.  What a writer has written can be read, although some   *)
(* of its headers and indexes are filled in by seeking back.               *)
OutputTrue ==
    /\ BytesTrue /\ WrittenTrue
    /\ part = "audio" => AudioP!PlayedInOrder /\ AudioP!NoOverrun /\ AudioP!DrainedTrue
    /\ part = "codec" => CodecP!CodedTrue /\ CodecP!CountsTrue /\ CodecP!DecodedTrue /\ CodecP!TagsTrue

(* Nothing is passed over: a reader that says it is done has handed out    *)
(* every frame and every entry at its place, and on the way it knew where  *)
(* in the file it was and took all it had before it asked for more.        *)
NothingMissed == AllFound /\ PlaceKnown

(* Texts, documents, URLs and headers are taken for what they say, however *)
(* they are divided, numbers and documents that were written are read      *)
(* back, arrays are sorted.                                                *)
TextTrue ==
    /\ TextsTrue
    /\ part = "str" => /\ StrP!SplitTrue /\ StrP!RoundTrip /\ StrP!VersionOrder /\ StrP!FmtTrue /\ StrP!SortTrue
                       /\ StrP!WildcardSound
    /\ part = "json" => JsonP!EventsTrue /\ JsonP!Nested /\ JsonP!SchemeTrue
    /\ part = "cook" => JsonP!CookTrue
    /\ part = "conf" => ConfP!RoundTrip /\ ConfP!SchemeTrue
    /\ part = "write" => WriteP!WrittenTrue

(* After any sequence of calls the tree is balanced and has every node     *)
(* once, the table finds every key that was put into it, and a search in   *)
(* it goes round only if it is full and has no such key; an open that      *)
(* fails and a close leave nothing behind but what Leaks says of a few     *)
(* refusals, what is open is whole and has the settings its user knows of; *)
(* a list of devices has them all and is freed.                            *)
StructuresSound ==
    /\ part = "tree" => TreeP!RedBlack /\ TreeP!Complete /\ TreeP!FreedOnce
    /\ part = "hash" => HashP!FindTrue /\ HashP!NotRound
    /\ part = "open" => OpenP!NothingLeft /\ OpenP!OpenIsWhole /\ OpenP!Negotiated
    /\ part = "enum" => OpenP!Enumerated /\ OpenP!EnumFree

(* A thread's handle is registered exactly while the thread thinks so, and *)
(* when ffwoh_rm() has returned the handler does not run any more; the     *)
(* handler that is called is that of the handle that was signalled: until  *)
(* a removal that overlaps with another misses its handle, or takes the    *)
(* lock with a place at which the handle is no longer (ffwohandler.c:84).  *)
RemovedIsGone == part = "wait" => WaitP!RemovedIsGone

(* Reading, playing, encoding and decoding come to their end, but for a    *)
(* rest that PulseAudio is to drain while the stream is stopped; an open,  *)
(* a request for the next device, and a search unless the table is full    *)
(* and has no such key, return.                                            *)
Ended == CASE part = "audio" -> x.api # "sigio" => AudioP!Ended \/ AudioP!Corked
           [] part = "codec" -> CodecP!Ended
           [] OTHER -> TRUE
Calling == CASE part = "open" -> OpenP!Opening
             [] part = "enum" -> OpenP!Asking
             [] part = "hash" -> HashP!Finding
             [] OTHER -> FALSE
AllEnd == ReadingEnds /\ <>Ended /\ (Calling ~> ~Calling)
=============================================================================
