------------------------------- MODULE Opens -------------------------------
(***************************************************************************)
(* Opening and closing: the devices of FF/adev, their lists, and the       *)
(* codecs of FF/audio.                                                     *)
(*                                                                         *)
(* An open takes resources one after another; any of them may be refused.  *)
(* Some opens then close the object themselves ("goto fail"), some leave   *)
(* that to their caller.  A close frees what the fields of the object      *)
(* name, which is not always what the object has.                          *)
(*                                                                         *)
(* held is what exists, fld the fields that are set; lost is what was      *)
(* forgotten when the same was taken again, twice says that one was freed  *)
(* again, refused is what one of the opens did not get.  dev is the device *)
(* (external): the settings it supports.  A user opens, opens again with   *)
(* the settings an open that refused his own gave back, and closes.        *)
(***************************************************************************)
EXTENDS Integers, Sequences, FiniteSets, SequencesExt, FiniteSetsExt

CONSTANTS Kinds,      \* what to open
          Devices,    \* the devices: [fmts, chans, rates, il]: sets of settings
          Wishes,     \* the settings users ask for: [fmt, ch, rate, il]
          Truthful,   \* whether a WASAPI device refuses to open what it said it does not support
          Cards,      \* for each interface: a sequence of cards, each a sequence of BOOLEAN:
                      \* which of its devices have the wanted direction
          Batch       \* how many devices PulseAudio hands over at a time

VARIABLES o, dev
vars == <<o, dev>>

Was == {"wasapi", "wasapi_excl"}     \* shared and exclusive mode

Init ==
    /\ dev \in Devices
    /\ \E kind \in Kinds, w \in Wishes :
          o = [kind |-> kind, pc |-> "closed", at |-> 1, fmt |-> w, held |-> {}, fld |-> {}, lost |-> {},
               twice |-> FALSE, refused |-> {}, tries |-> 0, res |-> "", prev |-> "", wf |-> w, set |-> w, new |-> "find", eptr |-> FALSE,
               align |-> FALSE]

Took(x, r) == [x EXCEPT !.held = @ \union {r}, !.fld = @ \union {r}, !.lost = @ \union ({r} \intersect x.held)]
(* FF_SAFECLOSE(): what a set field names is freed, and the field reset.   *)
freed(x, rs) == [x EXCEPT !.held = @ \ (rs \intersect x.fld), !.fld = @ \ rs, !.twice = @ \/ ~(rs \intersect x.fld \subseteq x.held)]

-----------------------------------------------------------------------------
(* The steps of each open: <<"get", r>> takes r; <<"try", r>> may fail and *)
(* takes nothing; <<"set", r>> only sets a field; <<"fmt", r>> agrees on   *)
(* the settings.                                                           *)
Get(r) == <<"get", r>>
Try(r) == <<"try", r>>
ffalsa_open == <<Get("pcm"), <<"fmt", "alsa">>, Try("hw_params"), Try("ahandler"), Get("snd")>>
ffoss_open == <<Get("fd"), Try("SETFMT"), <<"fmt", "oss">>>>
ffcoraud_open(capture) ==
    <<Try("default"), Try("asbd"), <<"fmt", "coreaudio">>, Get("proc"), Get("data")>>
    \o (IF capture THEN <<Get("data2")>> ELSE <<>>) \o <<<<"set", "dev">>>>
ffdsnd_open == <<Get("dev"), Try("level"), Get("buf"), Try("nfy"), <<"opt", "evt">>, Try("positions"), Get("woh")>>
ffdsnd_capt_open == <<Get("dev"), Get("buf"), Try("nfy"), <<"opt", "evt">>, Try("positions"), Get("woh")>>
ffpulse_init == <<Get("p"), Get("ml"), Get("ctx"), Try("context"), <<"set", "_p">>>>
ffpulse_open == <<Try("findfmt"), Get("stm"), Try("connect"), Get("tmr"), Try("start")>>
ffalsa_init == <<Get("sigio"), Get("sig")>>
ffaac_open == <<Get("dec"), Get("pcmbuf")>>
ffaac_create == <<Get("enc"), Get("buf")>>
ffalac_open == <<Get("al"), Get("buf")>>
ffflac_dec_open == <<Get("dec")>>
ffflac_create == <<Try("format"), Get("enc"), Get("outbuf")>>
ffmpg_create == <<Try("format"), Get("lam"), Get("buf")>>
ffmpg_open == <<Get("m123")>>
ffmpc_open == <<Get("mpc"), Get("pcm")>>
opusHeader == <<Try("header"), Get("dec"), Get("pcmbuf")>>
ffopus_create == <<Get("enc"), Get("buf"), Get("vtag")>>
vorbisHeader == <<Try("header"), Get("vctx")>>
ffvorbis_create == <<Try("format"), Get("vctx"), Get("vtag")>>
ffsoxr_create == <<Try("format"), Get("soxr"), Get("out")>>
_ffape_init == <<Get("ap"), Get("pcmdata")>>

Recipe == [alsa |-> ffalsa_open, oss |-> ffoss_open, coreaudio |-> ffcoraud_open(FALSE), coreaudio_capt |-> ffcoraud_open(TRUE), dsound |-> ffdsnd_open,
           dsound_capt |-> ffdsnd_capt_open, pulse_init |-> ffpulse_init, pulse |-> ffpulse_open, alsa_init |-> ffalsa_init,
           aac |-> ffaac_open, aac_enc |-> ffaac_create, alac |-> ffalac_open, flac |-> ffflac_dec_open,
           flac_enc |-> ffflac_create, lame |-> ffmpg_create, mp3 |-> ffmpg_open, mpc |-> ffmpc_open, opus |-> opusHeader,
           opus_enc |-> ffopus_create, vorbis |-> vorbisHeader, vorbis_enc |-> ffvorbis_create, soxr |-> ffsoxr_create,
           ape |-> _ffape_init]
(* The opens that close what they opened when they fail.                   *)
ClosesItself == {"alsa", "oss", "coreaudio", "coreaudio_capt", "dsound", "dsound_capt", "pulse_init", "pulse",
                 "alsa_init", "wasapi", "wasapi_excl"}

-----------------------------------------------------------------------------
(* The closes.                                                             *)
ffalsa_close(x) == freed(x, {"snd", "pcm"})
ffoss_close(x) == freed(x, {"fd"})
(* The I/O procedure belongs to the device in snd->dev.                    *)
ffcoraud_close(x) == [freed(x, {"data", "data2"} \union (IF "dev" \in x.fld THEN {"proc"} ELSE {})) EXCEPT !.fld = {}]
(* The fields stay, an open that failed clears them all.                   *)
ffdsnd_close(x) ==
    LET rs == x.fld \intersect ({"dev", "buf", "evt"} \union (IF "evt" \in x.fld THEN {"woh"} ELSE {}))
    IN  [x EXCEPT !.held = @ \ rs, !.twice = @ \/ ~(rs \subseteq x.held)]
ffpulse_uninit(x) == IF "_p" \in x.fld THEN freed(x, {"ctx", "ml", "p", "_p"}) ELSE x
ffpulse_close(x) == freed(x, {"stm", "tmr"})
ffalsa_uninit(x) == freed(x, {"sig", "sigio"})
ffwas_close(x) == freed(x, {"evt", "rend", "cli"})
codec_close(x) == freed(x, x.fld)

Close(x) ==
    CASE x.kind = "alsa"       -> ffalsa_close(x)
      [] x.kind = "oss"        -> ffoss_close(x)
      [] x.kind \in {"coreaudio", "coreaudio_capt"} -> ffcoraud_close(x)
      [] x.kind \in {"dsound", "dsound_capt"} -> ffdsnd_close(x)
      [] x.kind = "pulse_init" -> ffpulse_uninit(x)
      [] x.kind = "pulse"      -> ffpulse_close(x)
      [] x.kind = "alsa_init"  -> ffalsa_uninit(x)
      [] x.kind \in Was -> ffwas_close(x)
      [] OTHER                 -> codec_close(x)
zeroed(x) == IF x.kind \in {"dsound", "dsound_capt"} THEN [x EXCEPT !.fld = {}] ELSE x
Failed(x, res) ==
    [(IF x.kind \in ClosesItself THEN zeroed(Close(x)) ELSE x) EXCEPT
        !.pc = IF x.kind \in ClosesItself THEN "closed" ELSE "broken", !.res = res, !.at = 1]
Next1(x) == IF x.at = Len(Recipe[x.kind]) THEN [x EXCEPT !.pc = "open", !.res = "ok", !.at = 1] ELSE [x EXCEPT !.at = @ + 1]

-----------------------------------------------------------------------------
(* The settings.  Each gives <<the settings the caller is left with,       *)
(* whether they are those the caller asked for>>.                          *)
FirstOf(order, S) == LET at == {i \in DOMAIN order : order[i] \in S} IN IF at = {} THEN "" ELSE order[Min(at)]
near(n, S) == CHOOSE c \in S : \A k \in S : IF c <= n THEN k > n \/ k <= c ELSE k > n /\ k >= c
AlsaOrder == <<"float", "s32", "s24", "s16", "s8">>
_ffalsa_getfmt(w) == LET f == FirstOf(AlsaOrder, dev.fmts) IN IF f = "" THEN w.fmt ELSE f
_ffalsa_getaccess(w) == IF w.il \in dev.il THEN w.il ELSE ~w.il
alsaChannels(w) == LET c == near(w.ch, dev.chans) IN IF c # w.ch /\ c > 2 THEN w ELSE [w EXCEPT !.ch = c, !.rate = near(w.rate, dev.rates)]
alsaFmt(w) ==
    LET n == alsaChannels([w EXCEPT !.il = _ffalsa_getaccess(w), !.fmt = IF w.fmt \in dev.fmts THEN w.fmt ELSE _ffalsa_getfmt(w)])
    IN  <<n, n = w /\ w.fmt \in dev.fmts /\ w.ch \in dev.chans>>

OssFormats == {"s16", "s32"}
SETFMT(f) == IF f \in dev.fmts THEN f ELSE CHOOSE g \in dev.fmts : TRUE
ossFmt(w) ==
    LET f == SETFMT(IF w.fmt \in OssFormats THEN w.fmt ELSE "s16")
        n == IF f \in OssFormats \/ f = w.fmt THEN [w EXCEPT !.fmt = f, !.ch = near(w.ch, dev.chans), !.rate = near(w.rate, dev.rates)]
             ELSE w
    IN  <<n, n = w /\ f = w.fmt>>

coraudFmt(w) == LET n == [w EXCEPT !.fmt = "float", !.rate = Min(dev.rates), !.ch = Min(dev.chans)] IN <<n, n = w>>
Agree(api, w) == CASE api = "alsa" -> alsaFmt(w) [] api = "oss" -> ossFmt(w) [] api = "coreaudio" -> coraudFmt(w)

(* WASAPI: the input format, the known ones, the known ones with another   *)
(* number of channels; else the device's own.  wf is the format the device *)
(* will be asked to open.                                                  *)
WasOrder == <<"float", "s32", "s24", "s24_4", "s16", "s8">>
fmt_supported(w) == w.fmt \in dev.fmts /\ w.ch \in dev.chans /\ w.rate \in dev.rates
Known(w) == FirstOf(WasOrder, {f \in Range(WasOrder) : fmt_supported([w EXCEPT !.fmt = f])})
other(w) == [w EXCEPT !.ch = IF @ = 2 THEN 1 ELSE 2]
_ffwas_getfmt(w) ==
    CASE fmt_supported(w)        -> <<"same", w>>
      [] ~fmt_supported(w) /\ Known(w) # "" -> <<"new", [w EXCEPT !.fmt = Known(w)]>>
      [] ~fmt_supported(w) /\ Known(w) = "" /\ Known(other(w)) # "" -> <<"new", [other(w) EXCEPT !.fmt = Known(other(w))]>>
      [] OTHER                   -> <<"none", [other(w) EXCEPT !.fmt = "s8"]>>
_ffwas_getfmt_mix(w) == [w EXCEPT !.rate = Min(dev.rates), !.ch = Min(dev.chans)]
_ffwas_getfmt_def(w) == [_ffwas_getfmt_mix(w) EXCEPT !.fmt = FirstOf(WasOrder, dev.fmts)]
ownFmt(x, w) == IF x.kind = "wasapi" THEN _ffwas_getfmt_mix(w) ELSE _ffwas_getfmt_def(w)

-----------------------------------------------------------------------------
(* The user: opens, again with the settings he was given, and closes.      *)
Open ==
    /\ o.pc = "closed" /\ o.tries < 3 /\ UNCHANGED dev
    /\ o' = [o EXCEPT !.pc = "opening", !.tries = @ + 1, !.prev = o.res, !.res = "", !.new = "find", !.eptr = FALSE, !.align = FALSE,
                      !.at = IF o.kind \in Was /\ "cli" \in o.fld THEN 5 ELSE 1]
Shut ==
    /\ (o.pc \in {"open", "broken"} \/ (o.pc = "closed" /\ o.res # "")) /\ UNCHANGED dev
    /\ o' = [(IF o.pc = "closed" /\ o.kind \notin Was THEN o ELSE Close(o)) EXCEPT !.pc = "end"]

(* A step of an open.                                                      *)
Here == IF o.pc = "opening" /\ o.kind \notin Was THEN Recipe[o.kind][o.at] ELSE <<"", "">>
StepGet == Here[1] \in {"get", "opt"} /\ o' = Next1(Took(o, Here[2])) /\ UNCHANGED dev
StepTry == Here[1] = "try" /\ o' = Next1(o) /\ UNCHANGED dev
StepSet == Here[1] = "set" /\ o' = Next1([o EXCEPT !.fld = @ \union {Here[2]}, !.held = @ \union ({"_p"} \intersect {Here[2]})]) /\ UNCHANGED dev
(* When CreateEvent() fails in _ffdsnd_nfy_start(), r is still 0: no       *)
(* positions are set, and the open goes on.                                *)
_ffdsnd_nfy_start(x) == [x EXCEPT !.at = @ + 2]
StepFail ==
    /\ Here[1] \in {"get", "try", "opt"} /\ UNCHANGED dev
    /\ LET x == [o EXCEPT !.refused = @ \union {Here[2]}]
       IN  o' = IF Here[1] = "opt" THEN _ffdsnd_nfy_start(x) ELSE Failed(x, "error")
StepFmt ==
    /\ Here[1] = "fmt" /\ UNCHANGED dev
    /\ LET a == Agree(Here[2], o.fmt)
       IN  o' = IF a[2] THEN Next1([o EXCEPT !.set = o.fmt]) ELSE Failed([o EXCEPT !.fmt = a[1]], "efmt")

(* ffwas_open().                                                           *)
Locals == {"enu", "imm"}
At(n) == o.pc = "opening" /\ o.kind \in Was /\ o.at = n /\ UNCHANGED dev
wasDone(x, pc, res) == [freed(x, Locals) EXCEPT !.pc = pc, !.res = res, !.at = 1]
wasFail(x, res) == wasDone(ffwas_close(x), "closed", res)
WasFail == \E n \in {1, 2, 3, 5, 6, 7} : At(n) /\ (n # 5 \/ o.kind = "wasapi_excl") /\ o' = wasFail(o, "error")
WasEnum == At(1) /\ o' = [Took(o, "enu") EXCEPT !.at = 2]
WasDevice == At(2) /\ o' = [Took(o, "imm") EXCEPT !.at = 3]
wasFound(x, g) == [x EXCEPT !.new = g[1], !.wf = g[2], !.fmt = IF g[1] = "none" THEN ownFmt(x, x.fmt) ELSE g[2]]
WasActivate ==
    /\ At(3)
    /\ LET x == [Took(o, "cli") EXCEPT !.at = 4]
       IN  \/ o' = IF o.new = "find" THEN wasFound(x, _ffwas_getfmt(o.fmt)) ELSE x
           \/ o.new = "find" /\ _ffwas_getfmt(o.fmt)[1] = "none" /\ o' = wasFail(x, "error")
wasAgain(x) == [freed(x, {"cli"}) EXCEPT !.at = 3]
WasInit ==
    /\ At(4) /\ (Truthful => fmt_supported(o.wf))
    /\ o' = IF o.new # "same" THEN wasDone([o EXCEPT !.set = o.wf], "closed", "efmt") ELSE [o EXCEPT !.set = o.wf, !.at = 5]
WasPointer ==
    /\ At(4)
    /\ IF o.eptr \/ o.kind = "wasapi_excl" THEN o' = wasFail(o, "error")
       ELSE LET f == IF o.fmt.fmt = "s24_4" THEN _ffwas_getfmt_mix(o.fmt) ELSE o.fmt
            IN  \/ o' = wasAgain([o EXCEPT !.eptr = TRUE, !.fmt = f, !.wf = f, !.new = IF o.fmt.fmt = "s24_4" THEN "none" ELSE @])
                \/ o.fmt.fmt = "s24_4" /\ o' = wasFail(o, "error")
WasUnsupported ==
    /\ At(4)
    /\ IF o.new = "none" THEN o' = wasFail(o, "efmt")
       ELSE \/ o' = wasAgain([o EXCEPT !.new = "none", !.fmt = ownFmt(o, @), !.wf = ownFmt(o, o.fmt)])
            \/ o' = wasFail(o, "error")
WasAlign ==
    /\ At(4)
    /\ \/ ~o.align /\ o' = wasAgain([o EXCEPT !.align = TRUE])
       \/ o' = wasFail(o, "error")
WasEvent == At(5) /\ o' = [(IF o.kind = "wasapi_excl" THEN Took(o, "evt") ELSE o) EXCEPT !.at = 6]
WasSize == At(6) /\ o' = [o EXCEPT !.at = 7]
WasService == At(7) /\ o' = wasDone(Took(o, "rend"), "open", "ok")

Step ==
    \/ StepGet \/ StepTry \/ StepSet \/ StepFail \/ StepFmt
    \/ WasFail \/ WasEnum \/ WasDevice \/ WasActivate \/ WasInit \/ WasPointer \/ WasUnsupported \/ WasAlign
    \/ WasEvent \/ WasSize \/ WasService
Next == Open \/ Shut \/ Step
Spec == Init /\ [][Next]_vars
FairSpec == Spec /\ WF_vars(Step)

-----------------------------------------------------------------------------
(* The lists of devices: a user asks for the next device of one direction  *)
(* until there is no more, and destroys the enumerator.  o is then the     *)
(* enumerator and its user, a device is <<card, number>>.                  *)
EnumInit ==
    /\ dev = 0
    /\ \E kind \in DOMAIN Cards :
          o = [kind |-> kind, pc |-> "user", st |-> "card", card |-> 0, dev |-> 0, held |-> {}, fld |-> {}, lost |-> {},
               twice |-> FALSE, given |-> <<>>, failed |-> FALSE, res |-> "", pend |-> 0]

cards == Cards[o.kind]
Flat == FlattenSeq([c \in DOMAIN cards |-> [d \in DOMAIN cards[c] |-> <<c, d>>]])
Wanted == SelectSeq(Flat, LAMBDA x : cards[x[1]][x[2]])
Ret(x, res) == [x EXCEPT !.pc = "user", !.res = res, !.failed = @ \/ res = "error"]
Given(x, d) == Ret([Took(x, "name") EXCEPT !.given = Append(@, d)], "ok")
Error(x) == Ret(x, "error")
In(kind) == o.pc = "in" /\ o.kind = kind

(* The user.                                                               *)
DevNext == o.pc = "user" /\ o.res \in {"", "ok"} /\ o' = [o EXCEPT !.pc = "in"]
Destroy == o.pc = "user" /\ o.res # "" /\ o' = [freed(o, o.fld) EXCEPT !.pc = "end"]

(* The flat lists: the place in the list is .dev.                          *)
AtEnd == o.dev = Len(Flat)
ThisOne == Flat[o.dev + 1]
Past(x) == [x EXCEPT !.dev = @ + 1]
IsWanted(d) == cards[d[1]][d[2]]

-----------------------------------------------------------------------------
(* ALSA: ffalsa_devnext(), one round of its loop a step.  A device of the  *)
(* other direction makes it go on with the next card.                      *)
AlsaInfo == In("alsa") /\ "scinfo" \notin o.fld /\ (o' = Took(o, "scinfo") \/ o' = Error(o))
alsaCard(x, up) == IF up THEN [Took(x, "sctl") EXCEPT !.st = "dev", !.dev = 0] ELSE x
AlsaCard ==
    /\ In("alsa") /\ "scinfo" \in o.fld /\ o.st = "card"
    /\ \/ o.card = Len(cards) /\ o' = Ret(o, "done")
       \/ o.card < Len(cards) /\ \E up \in BOOLEAN :
             o' = [alsaCard([freed(o, {"sctl"}) EXCEPT !.card = @ + 1], up) EXCEPT !.failed = @ \/ ~up]
       \/ o.card < Len(cards) /\ o' = Error([Took(freed(o, {"sctl"}), "sctl") EXCEPT !.card = @ + 1])
alsaNamed(x) == [freed(x, {"name"}) EXCEPT !.dev = @ + 1]
AlsaDev ==
    /\ In("alsa") /\ o.st = "dev"
    /\ \/ o.dev = Len(cards[o.card]) /\ o' = [o EXCEPT !.st = "card"]
       \/ o.dev < Len(cards[o.card]) /\ ~cards[o.card][o.dev + 1] /\ o' = [o EXCEPT !.dev = @ + 1, !.st = "card"]
       \/ o.dev < Len(cards[o.card]) /\ cards[o.card][o.dev + 1] /\ o' = Given(alsaNamed(o), <<o.card, o.dev + 1>>)
       \/ o.dev < Len(cards[o.card]) /\ o' = Error([o EXCEPT !.st = "card"])

(* OSS: ffoss_devnext().                                                   *)
OssOpen == In("oss") /\ "mixer" \notin o.fld /\ (o' = Took(o, "mixer") \/ o' = Error(o))
OssNext ==
    /\ In("oss") /\ "mixer" \in o.fld
    /\ \/ AtEnd /\ o' = Ret(o, "done")
       \/ ~AtEnd /\ IsWanted(ThisOne) /\ o' = Ret([Past(o) EXCEPT !.given = Append(@, ThisOne)], "ok")
       \/ ~AtEnd /\ ~IsWanted(ThisOne) /\ o' = Past(o)
       \/ ~AtEnd /\ o' = Error(Past(o))

(* WASAPI: ffwas_devnext(); any failure, the end of the list too, frees    *)
(* all and starts again.                                                   *)
devinit(x) == [x EXCEPT !.fld = {}, !.dev = 0]
enumFail(x, res) == Ret(devinit(freed(x, x.fld)), res)
WasList ==
    /\ In("wasapi") /\ "dcoll" \notin o.fld
    /\ \/ \E def \in BOOLEAN : o' = IF def THEN Took(Took(o, "dcoll"), "def_id") ELSE Took(o, "dcoll")
       \/ o' = enumFail(o, "error")
WasNext ==
    /\ In("wasapi") /\ "dcoll" \in o.fld
    /\ \/ AtEnd /\ o' = enumFail(o, "done")
       \/ ~AtEnd /\ o' = Given(Took(Past(o), "id"), ThisOne)
       \/ ~AtEnd /\ o' = enumFail(Took(o, "id"), "error")

(* CoreAudio: ffcoraud_devnext() passes over what dev_name() fails for.    *)
CorList == In("coreaudio") /\ "devs" \notin o.fld /\ (o' = Took(o, "devs") \/ o' = Error(o))
dev_name(x) == IF IsWanted(ThisOne) THEN {Given(Past(x), ThisOne), [Past(x) EXCEPT !.failed = TRUE]} ELSE {Past(x)}
CorNext ==
    /\ In("coreaudio") /\ "devs" \in o.fld
    /\ \/ AtEnd /\ o' = Ret(freed(o, {"name"}), "done")
       \/ ~AtEnd /\ o' \in dev_name(freed(o, {"name"}))

(* PulseAudio: each round of the main loop may hand over devices, each     *)
(* into the same two fields.                                               *)
PulseOp == In("pulse") /\ "op" \notin o.fld /\ o' = Took(o, "op")
PulseIn == In("pulse") /\ "op" \in o.fld /\ o.pend = 0 /\ o' = [freed(o, {"name"}) EXCEPT !.pend = 1]
dev_on_next(x, n) == IF n = 0 THEN x ELSE [Took(x, "name") EXCEPT !.dev = @ + n, !.lost = @ \union {r \in {"name"} : n > 1}]
PulseNext ==
    /\ In("pulse") /\ "op" \in o.fld /\ o.pend = 1
    /\ \/ AtEnd /\ o' = Ret([o EXCEPT !.pend = 0], "done")
       \/ ~AtEnd /\ \E n \in 1..Batch :
             /\ o.dev + n <= Len(Flat)
             /\ o' = Ret([dev_on_next(o, n) EXCEPT !.given = Append(@, Flat[o.dev + n]), !.pend = 0], "ok")
       \/ ~AtEnd /\ o' = Error([o EXCEPT !.pend = 0])

(* DirectSound: ffdsnd_devenum() makes the whole list at once; without     *)
(* memory it ends early, and says so to no one.                            *)
DsndNext ==
    /\ In("dsound")
    /\ \/ AtEnd /\ o' = Ret(o, "done")
       \/ ~AtEnd /\ o' = [Past(o) EXCEPT !.held = @ \union {ThisOne}, !.fld = @ \union {ThisOne}, !.given = Append(@, ThisOne)]
       \/ ~AtEnd /\ o' = Ret([o EXCEPT !.failed = TRUE], "done")

EnumStep ==
    \/ AlsaInfo \/ AlsaCard \/ AlsaDev \/ OssOpen \/ OssNext \/ WasList \/ WasNext
    \/ CorList \/ CorNext \/ PulseOp \/ PulseIn \/ PulseNext \/ DsndNext
EnumNext == (DevNext \/ Destroy \/ EnumStep) /\ UNCHANGED dev

-----------------------------------------------------------------------------
(* What stays behind when the code was refused r: the entry with no event, *)
(* which only an event's close removes; the procedure of a device that     *)
(* snd->dev does not name yet; and what ffpulse_init() has, as             *)
(* ffpulse_uninit() knows it only by _p.                                   *)
Leaks(r) ==
    CASE o.kind \in {"dsound", "dsound_capt"} /\ r = "evt" -> {"woh"}
      [] o.kind \in {"coreaudio", "coreaudio_capt"} /\ r \in {"data", "data2"} -> {"proc"}
      [] o.kind = "pulse_init" /\ r = "ml" -> {"p"}
      [] o.kind = "pulse_init" /\ r = "ctx" -> {"p", "ml"}
      [] o.kind = "pulse_init" /\ r = "context" -> {"p", "ml", "ctx"}
      [] OTHER -> {}
Leaked == UNION {Leaks(r) : r \in o.refused}

(* An open that failed and closes itself, and every close, leave nothing   *)
(* behind but Leaked, wherever the open was refused and however often it   *)
(* is tried; nothing is freed twice.  (ffdsound.c:35-37,                   *)
(* ffcoreaudio.c:223-239, ffpulse.c:70-109.)                               *)
KeptOpen == o.kind \in Was /\ o.res = "efmt" /\ o.held = {"cli"}
NothingLeft ==
    /\ o.pc = "closed" => o.held \subseteq Leaked \/ KeptOpen
    /\ o.pc = "end" => o.held \subseteq Leaked
    /\ o.lost \subseteq Leaked /\ ~o.twice

(* What an open took is all there when it says it is open; but DirectSound *)
(* says so without an event.                                               *)
Whole == IF o.kind \in Was THEN {"cli", "rend"} \union (IF o.kind = "wasapi_excl" THEN {"evt"} ELSE {})
         ELSE {Recipe[o.kind][i][2] : i \in {j \in DOMAIN Recipe[o.kind] : Recipe[o.kind][j][1] \in {"get", "opt"}}}
OpenIsWhole == o.pc = "open" => Whole \ ({"evt"} \intersect o.refused) \subseteq o.held

(* The settings an open gives back are supported: opening with them is not *)
(* refused for its settings again; and what is open has the settings its   *)
(* user knows of.                                                          *)
Negotiated ==
    /\ o.kind \in {"alsa", "oss", "coreaudio", "coreaudio_capt"} /\ o.prev = "efmt" => o.res # "efmt"
    /\ o.pc = "open" /\ o.kind \in Was => o.set = o.fmt

(* An open is under way: WASAPI tries again, each way once.                *)
Opening == o.pc = "opening"

(* "Return 1 if no more devices": by then every device of the wanted       *)
(* direction was given, once and in order, unless a call to the system     *)
(* failed on the way.                                                      *)
Enumerated == o.res = "done" /\ ~o.failed => o.given = (IF o.kind \in {"dsound", "wasapi", "pulse"} THEN Flat ELSE Wanted)

(* What the enumerator has is freed with it.                               *)
EnumFree == o.lost = {} /\ (o.pc = "end" => o.held = {})

(* A call for the next device is under way.                                *)
Asking == o.pc = "in"
=============================================================================
