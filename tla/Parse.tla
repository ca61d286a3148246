------------------------------- MODULE Parse -------------------------------
(***************************************************************************)
(* What the parsers of FF/data share: the buffer of a value, which points  *)
(* into the caller's data as long as it can, comments, and the scheme,     *)
(* which hands the entities of a parser to the arguments of a table        *)
(* (ffparse.c).                                                            *)
(*                                                                         *)
(* A text is a sequence of one-character strings.  A number is written     *)
(* with the digits 0..9, a letter stands for any other character.          *)
(***************************************************************************)
EXTENDS Integers, SequencesExt, FiniteSetsExt

CONSTANTS UsedBits,     \* arguments of a context whose use is recorded (64)
          Schemes       \* name of a context -> sequence of its arguments

White == {" ", "\n"}
Digit == {"0", "1", "2", "3", "4", "5", "6", "7", "8", "9"}
Lost == "?"             \* a byte of memory that is no longer the caller's

-----------------------------------------------------------------------------
(* The buffer: own memory, or len characters from position at of the text. *)
NoBuf == [own |-> FALSE, at |-> 0, len |-> 0, text |-> <<>>]

(* What the buffer holds while the caller's piece begins after from.       *)
content(b, doc, from) ==
    IF b.own THEN b.text
    ELSE [i \in 1..b.len |-> IF b.at > from /\ b.at + i - 1 <= Len(doc) THEN doc[b.at + i - 1] ELSE Lost]

val_store(b, doc, from, s) ==
    [own |-> TRUE, at |-> 0, text |-> content(b, doc, from) \o s, len |-> b.len + Len(s)]
val_add(b, doc, from, pos) ==
    IF b.own THEN val_store(b, doc, from, <<doc[pos]>>)
    ELSE [b EXCEPT !.at = IF b.len = 0 THEN pos ELSE @, !.len = @ + 1]

(* json_cmt(), hdl_cmt(): the state after ch, or an error.                 *)
cmt(st, ch) ==
    CASE st = "cmt_begin" -> (CASE ch = "/" -> "cmt_line" [] ch = "*" -> "cmt_mline" [] OTHER -> "EBADCMT")
      [] st = "cmt_line" -> IF ch = "\n" THEN "wspace" ELSE st
      [] st = "cmt_mline" -> IF ch = "*" THEN "cmt_slash" ELSE st
      [] st = "cmt_slash" -> IF ch = "/" THEN "wspace" ELSE "cmt_mline"

-----------------------------------------------------------------------------
(* Numbers.  NaN is what is not one.                                       *)
NaN == -1000
RECURSIVE natOf(_)
natOf(s) == IF s = <<>> THEN 0
            ELSE natOf(Front(s)) * 10 + (CHOOSE d \in 0..9 : ToString(d) = Last(s))
IsNat(s) == s # <<>> /\ \A i \in DOMAIN s : s[i] \in Digit
intOf(s) == CASE IsNat(s) -> natOf(s)
              [] Len(s) > 1 /\ s[1] = "-" /\ IsNat(Tail(s)) -> -natOf(Tail(s))
              [] Len(s) > 1 /\ s[1] = "+" /\ IsNat(Tail(s)) -> natOf(Tail(s))
              [] OTHER -> NaN
IsFloat(s) == \E i \in DOMAIN s : /\ s[i] = "." /\ intOf(SubSeq(s, 1, i - 1)) # NaN
                                  /\ IsNat(SubSeq(s, i + 1, Len(s)))

-----------------------------------------------------------------------------
(* The scheme.  An argument has a name, a type t, flags f, for a number    *)
(* the width w of its target in bits, for an object the context sub that   *)
(* its handler sets, and for an enumeration the values.  ps is the scheme  *)
(* parser: its contexts, the current argument, and in got what it stored.  *)
arg(name, t, f, w, sub) == [name |-> name, t |-> t, f |-> f, w |-> w, sub |-> sub]
NoArg == arg("", "none", {}, 0, "")
NewSchem(flags) == [ctxs |-> <<>>, cur |-> NoArg, got |-> <<>>, flags |-> flags, vals |-> "", list |-> 0]
Skipped == "skip"

Args(c) == Schemes[c.sub]
Named(c) ==     \* without the notification on closing
    IF Args(c) # <<>> /\ Last(Args(c)).t = "close" THEN Front(Args(c)) ELSE Args(c)

(* ffpars_ctx_findarg(): the place of the argument, 0 if there is none.    *)
exact(c, name) == SelectInSeq(Named(c), LAMBDA a : a.name = name /\ name # "*")
anyArg(c) ==
    LET first == IF Args(c)[1].name = "" THEN 2 ELSE 1
        n == Len(Named(c))
    IN CASE n < first -> 0
         [] n >= first /\ Named(c)[first].name = "*" -> first
         [] n >= first /\ Named(c)[first].name # "*" -> IF Named(c)[n].name = "*" THEN n ELSE 0
ctx_findarg(ps, name, any) ==
    LET c == Last(ps.ctxs)
        i == exact(c, name)
        n == Len(ps.ctxs)
    IN CASE i = 0 -> IF any /\ anyArg(c) # 0 THEN [ps EXCEPT !.cur = Args(c)[anyArg(c)]]
                     ELSE [ps EXCEPT !.flags = @ \union {"EUKNKEY"}]
         [] i # 0 /\ i <= UsedBits /\ i \in c.used /\ "multi" \notin Args(c)[i].f ->
               [ps EXCEPT !.flags = @ \union {"EDUPKEY"}]
         [] OTHER -> [ps EXCEPT !.cur = Args(c)[i],
                                !.ctxs[n].used = @ \union ({i} \intersect 1..UsedBits)]

(* The error of a step is a flag of the result; FirstErr(ps) is it.        *)
Errors == {"EUKNKEY", "EDUPKEY", "ENOREQ", "EVALTYPE", "EVALEMPTY", "EVALZERO", "EVALNEG", "EBIGVAL",
           "EBADINT", "EBADBOOL", "EVALUKN", "EVALNULL", "EARRTYPE", "ECONF", "EVALUNEXP", "EBADVAL", "ENOBRACE"}
Failed(ps) == ps.flags \intersect Errors # {}
fail(ps, e) == [ps EXCEPT !.flags = @ \union {e}]

setctx(ps, sub) == [ps EXCEPT !.ctxs = Append(@, [sub |-> sub, used |-> {}])]
scOpenBrace(ps) ==      \* the handler sets the context, or skips it
    IF ps.cur.t \notin {"obj", "arr"} THEN fail(ps, "ECONF")
    ELSE [setctx(ps, ps.cur.sub) EXCEPT !.cur = NoArg]
scCloseBrace(ps) ==
    LET c == Last(ps.ctxs)
        req == {i \in DOMAIN Args(c) : i <= UsedBits /\ i \notin c.used /\ "req" \in Args(c)[i].f}
    IN CASE ps.ctxs = <<>> -> fail(ps, "ECONF")
         [] ps.ctxs # <<>> /\ req # {} -> fail(ps, "ENOREQ")
         [] OTHER -> [ps EXCEPT !.ctxs = Front(@), !.cur = NoArg,
                                !.got = IF Args(c) # <<>> /\ Last(Args(c)).t = "close"
                                        THEN Append(@, <<"close", c.sub>>) ELSE @]

(* _ffpars_skipctx(): in a skipped context only the braces count.          *)
Skipping(ps) == ps.ctxs # <<>> /\ Last(ps.ctxs).sub = Skipped
skipctx(ps, ev) == CASE ev = "OPEN" -> setctx(ps, Skipped)
                     [] ev = "CLOSE" -> [ps EXCEPT !.ctxs = Front(@)]
                     [] OTHER -> ps

stored(ps, x) == [ps EXCEPT !.got = Append(@, <<ps.cur.name, x>>)]
Word(s) == FoldSeq(LAMBDA ch, t : ch \o t, "", s)

(* _ffpars_intval(), _ffpars_int(), _ffpars_size(): w = 64 holds every     *)
(* number.                                                                 *)
Width(w) == 2^w
intval(ps, n) ==
    IF ps.cur.w # 64 /\ (IF n < 0 THEN -n ELSE n) \div Width(ps.cur.w) # 0 THEN fail(ps, "EBIGVAL")
    ELSE stored(ps, ToString(IF ps.cur.w = 64 THEN n ELSE n % Width(ps.cur.w)))
int(ps, n) ==
    CASE n = 0 /\ "notzero" \in ps.cur.f -> fail(ps, "EVALZERO")
      [] n < 0 /\ "sign" \notin ps.cur.f -> fail(ps, "EVALNEG")
      [] OTHER -> intval(ps, n)
size(ps, s) ==
    LET k == s # <<>> /\ Last(s) = "k"
        d == IF k THEN Front(s) ELSE s
    IN CASE s = <<>> -> fail(ps, "EVALEMPTY")
         [] s # <<>> /\ ~IsNat(d) -> fail(ps, "EBADINT")
         [] OTHER -> int(ps, IF k THEN natOf(d) * 1024 ELSE natOf(d))
str(ps, s) == IF s = <<>> /\ "notempty" \in ps.cur.f THEN fail(ps, "EVALEMPTY") ELSE stored(ps, Word(s))
enum(ps, s) ==      \* the flag "e1" stands for the list of the values "a", "b"
    IF s \in {<<"a">>, <<"b">>} THEN intval(ps, IF s = <<"a">> THEN 0 ELSE 1) ELSE fail(ps, "EVALUKN")
bool(ps, s) ==
    CASE IsNat(s) -> IF natOf(s) \in {0, 1} THEN intval(ps, natOf(s)) ELSE fail(ps, "EBADBOOL")
      [] s \in {<<"t", "r">>, <<"f", "a">>} -> intval(ps, IF s[1] = "t" THEN 1 ELSE 0)
      [] OTHER -> fail(ps, "EBADBOOL")
arg_process(ps, s) ==
    CASE ps.cur.t = "str" -> str(ps, s)
      [] ps.cur.t = "enum" -> enum(ps, s)
      [] ps.cur.t = "size" -> size(ps, s)
      [] ps.cur.t = "int" -> IF intOf(s) = NaN THEN fail(ps, "EBADINT") ELSE int(ps, intOf(s))
      [] ps.cur.t = "bool" -> bool(ps, s)
      [] ps.cur.t = "any" -> stored(ps, "any")
      [] OTHER -> fail(ps, "EVALTYPE")
=============================================================================
