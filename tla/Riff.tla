-------------------------------- MODULE Riff --------------------------------
(***************************************************************************)
(* Chunks within chunks: the WAVE reader of FF/aformat/ffwav.c, the AVI    *)
(* reader of FF/mformat/ffavi.c, and what the two do alike.  Each is a     *)
(* loop over a state; an action is one case of it.                         *)
(*                                                                         *)
(* A chunk header gives an id and a size; o.chunks is the stack of open    *)
(* chunks, each with the bytes left of it (size), whether a padding byte   *)
(* follows (pad), and the context its children are looked up in (ctx).     *)
(* Sizes are scaled: a header has Hdr bytes, a list's type Min4, a sample  *)
(* SampSize.  o is struct ffwav or ffavi with the result of the call in    *)
(* o.ret ("run" while the loop goes on); w is the caller: its position in  *)
(* the file, and what it saw.                                              *)
(*                                                                         *)
(* The file is [size, chunks: set of [id, type, off, size]]; type is what  *)
(* the content begins with.                                                *)
(***************************************************************************)
EXTENDS Stream

CONSTANTS Hdr, Min4, Depth,     \* Depth: chunks the object has room for
          SampSize, MaxSeeks,
          SeekOn,               \* results after which the user of ffwav may seek
          Tags                  \* FFAVI_O_TAGS

UINT == 1000                    \* (uint)-1

Root == [id |-> "root", size |-> UINT, pad |-> FALSE, ctx |-> "global"]

Top == Len(o.chunks)
Chunk == o.chunks[Top]
Pop(oo) == [oo EXCEPT !.chunks = SubSeq(@, 1, Len(@) - 1)]

(* The header that the bytes are, and the type that they are.              *)
HeaderAt(bytes) ==
    LET hit == {c \in File.chunks : bytes = Bytes(c.off, Hdr)}
    IN  IF hit = {} THEN [id |-> "junk", type |-> "none", off |-> -1, size |-> 0, stm |-> -1]
        ELSE CHOOSE c \in hit : TRUE
TypeAt(bytes) ==
    LET hit == {c \in File.chunks : bytes = Bytes(c.off + Hdr, Len(bytes))}
    IN  IF hit = {} THEN "none" ELSE (CHOOSE c \in hit : TRUE).type

SkipChunk ==
    LET oo == [Skipped(Chunk.size) EXCEPT !.chunks[Top].size = @ - SkipIn(@)]
    IN  IF oo.chunks[Top].size # 0 THEN Ret("MORE", oo)
        ELSE Go([oo EXCEPT !.st = "NEXTCHUNK"])

(* The padding byte belongs to the parent; it is not one when it is not 0, *)
(* as the first byte of a header is not.                                   *)
SkipPadding ==
    IF o.in = <<>> THEN Ret("MORE", o)
    ELSE IF \E c \in File.chunks : c.off = o.in[1] THEN Goto("NEXTCHUNK")
    ELSE Go([Skipped(1) EXCEPT !.st = "NEXTCHUNK",
                               !.chunks[Top - 1].size = IF @ # 0 THEN @ - 1 ELSE @])

(* The next child of the innermost chunk that has any left.                *)
CloseChunk(last) ==
    IF Chunk.size # 0 THEN Goto("CHUNK1")
    ELSE IF Chunk.pad THEN Go([o EXCEPT !.chunks[Top].pad = FALSE, !.st = "PADDING"])
    ELSE IF Chunk.id = last THEN Ret("DONE", Pop(o)) ELSE Go(Pop(o))

(* The part of the parent that is left beside the new chunk.               *)
ParentLeft(p, size) == (p - (Hdr + size)) % (UINT + 1)

(* Open a chunk: c is it, taken tells whether the parent shrinks by it.    *)
Push(c, taken) ==
    [o EXCEPT !.chunks = [@ EXCEPT ![Top].size = IF taken THEN ParentLeft(@, c.size) ELSE @]
                         \o <<c>>]

-----------------------------------------------------------------------------
(* Wherever the input is cut, only bytes that are the header of a chunk    *)
(* are taken for one.                                                      *)
HeadersFound == \A a \in w.heads : \E c \in File.chunks : c.off = a
-----------------------------------------------------------------------------
(* WAVE                                                                    *)

Floor(n) == n - (n % SampSize)  \* ff_align_floor()

WavInit ==
    /\ o = [st |-> "CHUNK1", chunks |-> <<Root>>, has_fmt |-> FALSE,
            dataoff |-> 0, datasize |-> 0, cursample |-> 0, pcm |-> <<>>] @@ Object
    /\ \E f \in Files : w = [seeks |-> 0, heads |-> {}] @@ Caller(f)

WavContexts == [global |-> {"RIFF"}, riff |-> {"fmt", "LIST", "data"}, list |-> {"tag"}]
WavWhole == {"fmt", "tag"}             \* F_WHOLE
WavMinSize(id) == IF id \in {"RIFF", "LIST"} THEN Min4 ELSE 0

wav_findchunk(bytes, ctx) ==
    LET h == HeaderAt(bytes)
    IN  [id |-> IF h.id \in WavContexts[ctx] THEN h.id ELSE "unknown",
         size |-> h.size, pad |-> h.size % 2 = 1, ctx |-> "none"]

WavSkip == In("SKIP") /\ SkipChunk
WavPaddingKept == In("PADDING") /\ Goto("NEXTCHUNK")
WavPadding == In("PADDING") /\ SkipPadding
WavNextChunk == In("NEXTCHUNK") /\ CloseChunk("RIFF")
WavFirstChunk == In("CHUNK1") /\ Go(Want(o, Hdr, "CHUNKHDR"))

WavChunkHdr ==
    /\ In("CHUNKHDR")
    /\ LET c == wav_findchunk(o.gbuf, Chunk.ctx)
           inf == c.id = "data" /\ c.size = UINT
           min == WavMinSize(c.id)
           need == IF min # 0 THEN min ELSE c.size
           oo == Push(c, ~inf)
       IN CASE (~inf /\ c.size > Chunk.size) \/ c.size < min -> Ret("ERR", o)
            [] OTHER ->
                 /\ w' = [w EXCEPT !.heads = @ \cup {o.gbuf[1]}]
                 /\ o' = CASE c.id = "unknown" -> [oo EXCEPT !.st = "SKIP"]
                           [] c.id \in WavWhole \/ min # 0 ->
                                Want([oo EXCEPT !.chunks[Top + 1].size = @ - need], need, "CHUNK")
                           [] OTHER -> [oo EXCEPT !.st = "CHUNK"]

WavOnTag  == Chunk.id = "tag" /\ Ret("TAG", [o EXCEPT !.st = "NEXTCHUNK"])
WavOnRiff == Chunk.id = "RIFF" /\ IF TypeAt(o.gbuf) # "WAVE" THEN Ret("ERR", o)
                               ELSE Go([o EXCEPT !.chunks[Top].ctx = "riff", !.st = "NEXTCHUNK"])
(* wav_fmt() refuses a format that it does not know.                       *)
WavOnFmt  == Chunk.id = "fmt" /\ IF o.has_fmt THEN Ret("ERR", o)
                              ELSE \/ Go([o EXCEPT !.has_fmt = TRUE, !.st = "NEXTCHUNK"])
                                   \/ Ret("ERR", [o EXCEPT !.has_fmt = TRUE])

WavOnList ==
    /\ Chunk.id = "LIST"
    /\ IF TypeAt(o.gbuf) # "INFO" THEN Goto("SKIP")
       ELSE Go([o EXCEPT !.chunks[Top].ctx = "list", !.st = "NEXTCHUNK"])

WavOnData ==
    /\ Chunk.id = "data"
    /\ IF ~o.has_fmt THEN Ret("ERR", o)
       ELSE Ret("HDR", [o EXCEPT !.dataoff = o.off, !.st = "DATA",
                                 !.datasize = Floor(Chunk.size)])

WavOnChunk == In("CHUNK") /\ (WavOnTag \/ WavOnRiff \/ WavOnFmt \/ WavOnList \/ WavOnData)

WavSeek ==
    /\ In("SEEK")
    /\ Ret("SEEK", [o EXCEPT !.off = o.dataoff + o.cursample * SampSize, !.st = "DATA"])

WavDataOk ==
    /\ In("DATAOK")
    /\ Go([o EXCEPT !.cursample = @ + Len(o.pcm) \div SampSize, !.st = "DATA"])

WavData ==
    /\ In("DATA")
    /\ LET left == o.dataoff + o.datasize - o.off
           n == Floor(SkipIn(left))
       IN CASE left = 0 -> Go([o EXCEPT !.chunks[Top].size = @ - o.datasize, !.st = "SKIP"])
            [] left # 0 /\ n = 0 -> Go(Want(o, SampSize, "BUFDATA"))
            [] OTHER -> Ret("DATA", [Skipped(n) EXCEPT !.pcm = SubSeq(o.in, 1, n), !.st = "DATAOK"])

WavBufData == In("BUFDATA") /\ Ret("DATA", [o EXCEPT !.pcm = o.gbuf, !.st = "DATAOK"])

WavDecode ==
    \/ WavSkip \/ WavPadding \/ WavNextChunk \/ WavFirstChunk \/ Gather \/ WavChunkHdr
    \/ WavOnChunk \/ WavSeek \/ WavDataOk \/ WavData \/ WavBufData

(* ffwav_seek(), to any sample.                                            *)
ffwav_seek ==
    /\ o.ret \in SeekOn /\ o.dataoff # 0 /\ w.seeks < MaxSeeks
    /\ \E s \in 0..((Min({o.datasize, File.size - o.dataoff}) - 1) \div SampSize) :
         o' = [o EXCEPT !.cursample = s, !.st = "SEEK", !.ret = "run"]
    /\ w' = [w EXCEPT !.seeks = @ + 1]

WavNext == WavDecode \/ Feed \/ Move \/ Call({"TAG", "HDR", "DATA"}) \/ ffwav_seek

-----------------------------------------------------------------------------
(* The samples returned are those that ffwav_cursample() numbers, whole,   *)
(* and of the data chunk.                                                  *)
SamplesAt ==
    o.ret = "DATA" =>
        /\ o.pcm = Bytes(o.dataoff + o.cursample * SampSize, Len(o.pcm))
        /\ Len(o.pcm) % SampSize = 0 /\ o.pcm # <<>>
        /\ o.pcm[Len(o.pcm)] < o.dataoff + o.datasize
-----------------------------------------------------------------------------
(* AVI.  A stream header (strh) or format (strf) is collected in Min4      *)
(* bytes; the type of a strh chunk is the type of its stream; stm is the   *)
(* stream a chunk of movi belongs to.                                      *)

AviInit ==
    /\ o = [st |-> "CHUNK1", chunks |-> <<Root>>, istm |-> 0, idx_audio |-> 0,
            out |-> <<>>] @@ Object
    /\ \E f \in Files : w = [heads |-> {}, seen |-> {}] @@ Caller(f)

(* What is known in each context, and the context of its children ("none": *)
(* it has no known ones).                                                  *)
AviContexts == [global |-> [RIFF |-> "riff"], riff |-> [AVI |-> "avi"],
             avi |-> [LIST |-> "avi_list"],
             avi_list |-> [hdrl |-> "hdrl", INFO |-> "info", movi |-> "movi"],
             hdrl |-> [LIST |-> "hdrl_list"], hdrl_list |-> [strl |-> "strl"],
             strl |-> [strh |-> "none", strf |-> "none"], info |-> [tag |-> "none"]]
AviLists == {"RIFF", "LIST"}                               \* F_LIST
AviMinSize(id) == IF id \in AviLists \cup {"strh", "strf"} THEN Min4 ELSE 0
AviWhole == {"strf", "tag"}                                \* F_WHOLE

(* avi_chunkfind(); in movi every chunk is one.                            *)
AviKnown(ctx, id) == ctx = "movi" \/ id \in DOMAIN AviContexts[ctx]
AviChildren(ctx, id) == IF ctx = "movi" THEN "none" ELSE AviContexts[ctx][id]

avi_chunkinfo(bytes, ctx) ==
    LET h == HeaderAt(bytes)
    IN  [id |-> CASE ~AviKnown(ctx, h.id) -> "unknown"
                  [] ctx = "movi"      -> "movi_chunk"
                  [] OTHER             -> h.id,
         size |-> h.size, pad |-> h.size % 2 = 1,
         ctx |-> IF AviKnown(ctx, h.id) THEN AviChildren(ctx, h.id) ELSE "none"]

(* Skip what is left of the chunk and of its parent.                       *)
AviSkipParent ==
    /\ In("SKIP_PARENT")
    /\ Go([Pop(o) EXCEPT !.chunks[Top - 1].size = @ + Chunk.size, !.st = "SKIP"])

AviSkip == In("SKIP") /\ SkipChunk
AviPadding == In("PADDING") /\ SkipPadding
AviNextChunk == In("NEXTCHUNK") /\ CloseChunk("AVI")
AviGatherChunkHdr == In("CHUNK1") /\ Go(Want(o, Hdr, "CHUNK_HDR"))

AviChunkHdr ==
    /\ In("CHUNK_HDR")
    /\ LET c == avi_chunkinfo(o.gbuf, Chunk.ctx)
           need == IF c.id \in AviWhole THEN c.size ELSE AviMinSize(c.id)
           oo == Push(c, TRUE)
       IN IF Hdr + c.size > Chunk.size \/ c.size < AviMinSize(c.id) THEN Ret("ERR", o)
          ELSE /\ w' = [w EXCEPT !.heads = @ \cup {o.gbuf[1]}]
               /\ o' = CASE c.id = "unknown" -> [oo EXCEPT !.st = "SKIP"]
                         [] need # 0 /\ c.id # "unknown" ->
                              Want([oo EXCEPT !.chunks[Top + 1].size = @ - need], need, "CHUNK")
                         [] OTHER -> [oo EXCEPT !.st = "CHUNK"]

(* The type of a list takes the place of its id, and of its flags.         *)
AviOnList ==
    /\ Chunk.id \in AviLists
    /\ LET type == TypeAt(o.gbuf)
           oo == IF AviKnown(Chunk.ctx, type)
                 THEN [o EXCEPT !.chunks[Top].id = type, !.chunks[Top].pad = FALSE,
                                !.chunks[Top].ctx = AviChildren(Chunk.ctx, type)]
                 ELSE [o EXCEPT !.chunks[Top].id = "list", !.chunks[Top].ctx = "none"]
           c == oo.chunks[Top]
       IN CASE c.id = "INFO" /\ ~Tags -> Go([oo EXCEPT !.st = "SKIP"])
            [] c.id = "movi" -> Ret("HDR", [oo EXCEPT !.st = "NEXTCHUNK"])
            [] c.ctx = "none" -> Go([oo EXCEPT !.st = "SKIP"])
            [] OTHER -> Go([oo EXCEPT !.st = "NEXTCHUNK"])

(* A stream that is not audio is skipped with its format.                  *)
AviOnStrh ==
    /\ Chunk.id = "strh"
    /\ IF TypeAt(o.gbuf) # "auds" THEN Go([o EXCEPT !.istm = @ + 1, !.st = "SKIP_PARENT"])
       ELSE Go([o EXCEPT !.istm = @ + 1, !.idx_audio = o.istm, !.st = "SKIP"])

AviOnStrf == Chunk.id = "strf" /\ (Goto("SKIP") \/ Ret("ERR", o))
AviOnTag == Chunk.id = "tag" /\ Ret("TAG", [o EXCEPT !.st = "SKIP"])

AviOnMovi ==
    /\ Chunk.id = "movi_chunk"
    /\ CASE HeaderAt(o.gbuf).stm # o.idx_audio -> Goto("SKIP")
         [] HeaderAt(o.gbuf).stm = o.idx_audio /\ Chunk.size = 0 -> Goto("NEXTCHUNK")
         [] OTHER -> Go(Want([o EXCEPT !.chunks[Top].size = 0], Chunk.size, "DATA"))

AviOnChunk == In("CHUNK") /\ (AviOnList \/ AviOnStrh \/ AviOnStrf \/ AviOnTag \/ AviOnMovi)

AviData ==
    /\ In("DATA")
    /\ o' = [o EXCEPT !.out = o.gbuf, !.st = "NEXTCHUNK", !.ret = "DATA"]
    /\ w' = [w EXCEPT !.seen = @ \cup {o.gbuf[1] - Hdr}]

AviRead ==
    \/ AviSkipParent \/ AviSkip \/ AviPadding \/ AviNextChunk \/ AviGatherChunkHdr \/ Gather
    \/ AviChunkHdr \/ AviOnChunk \/ AviData

AviNext == AviRead \/ Feed \/ Call({"TAG", "HDR", "DATA"})

-----------------------------------------------------------------------------
AudioChunks == {c \in File.chunks : c.stm = File.audio /\ c.size > 0}

(* A block that is returned is the whole content of one chunk of the       *)
(* audio stream, and when the reader is done it has returned all of them.  *)
BlocksWhole ==
    /\ o.ret = "DATA" => \E c \in AudioChunks : o.out = Bytes(c.off + Hdr, c.size)
    /\ o.ret = "DONE" => w.seen = {c.off : c \in AudioChunks}
=============================================================================
