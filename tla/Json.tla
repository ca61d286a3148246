-------------------------------- MODULE Json --------------------------------
(***************************************************************************)
(* The JSON parser, its scheme and the JSON writer (FF/data/ffjson.c).     *)
(*                                                                         *)
(* Values are trees, and a text is written from a value and from what is   *)
(* put between its tokens, or is arbitrary.  The parser gets the text in   *)
(* pieces and returns one entity per call; the memory of a piece is gone   *)
(* with the next one.  The words true, false and null are the two letters  *)
(* they begin with, and the four hexadecimal digits of an escape are the   *)
(* letter B, H or L for a basic character, a high and a low surrogate.     *)
(***************************************************************************)
EXTENDS Parse

CONSTANTS Values,   \* trees to write and to parse
          Gaps,     \* what may stand between two tokens
          Broken,   \* texts that are not written from a value
          MaxPiece, \* characters the parser gets at most in a piece
          Top,      \* the scheme's context for the topmost object
          IntChars  \* what the writer reserves for a number

VARIABLE o

(* A tree: t is its type, s the characters of a scalar, kids the elements  *)
(* or the values of the members, keys the names of the members.            *)
tree(t, s, kids, keys) == [t |-> t, s |-> s, kids |-> kids, keys |-> keys]
Scalar == {"str", "int", "num", "bool", "null"}
EscChar == [c \in {"\"", "\\", "\n", "b", "s"} |->
              CASE c = "\n" -> <<"\\", "n">> [] c = "b" -> <<"\\", "u", "B">>
                [] c = "s" -> <<"\\", "u", "H", "\\", "u", "L">> [] OTHER -> <<"\\", c>>]
quoted(s) == <<"\"">> \o FlattenSeq([i \in DOMAIN s |-> IF s[i] \in DOMAIN EscChar THEN EscChar[s[i]] ELSE <<s[i]>>]) \o <<"\"">>

RECURSIVE Tokens(_)
Tokens(v) ==
    CASE v.t = "str" -> <<quoted(v.s)>>
      [] v.t \in Scalar \ {"str"} -> <<v.s>>
      [] v.t = "arr" -> <<<<"[">>>> \o FlattenSeq([i \in DOMAIN v.kids |->
                            (IF i = 1 THEN <<>> ELSE <<<<",">>>>) \o Tokens(v.kids[i])]) \o <<<<"]">>>>
      [] v.t = "obj" -> <<<<"{">>>> \o FlattenSeq([i \in DOMAIN v.kids |->
                            (IF i = 1 THEN <<>> ELSE <<<<",">>>>) \o <<quoted(v.keys[i]), <<":">>>> \o Tokens(v.kids[i])])
                        \o <<<<"}">>>>
Text(v, gap) == FlattenSeq([i \in DOMAIN Tokens(v) |-> Tokens(v)[i] \o gap])
RECURSIVE EventsOf(_)
EventsOf(v) ==
    IF v.t \in Scalar THEN <<<<"VAL", v.t, v.s>>>>
    ELSE <<<<"OPEN", v.t, <<>>>>>>
         \o FlattenSeq([i \in DOMAIN v.kids |->
               (IF v.t = "obj" THEN <<<<"KEY", "str", v.keys[i]>>>> ELSE <<>>) \o EventsOf(v.kids[i])])
         \o <<<<"CLOSE", v.t, <<>>>>>>

-----------------------------------------------------------------------------
(* ffjson_parseinit(), ffjson_scheminit().  Nobody is the value of a text  *)
(* that was not written from one.                                          *)
Nobody == tree("none", <<>>, <<>>, <<>>)
NewParser == [st |-> "wspace", nextst |-> "val", type |-> "", buf |-> NoBuf, esc |-> <<>>, hi |-> FALSE, ctxs |-> <<>>]
Opened(doc, v) ==
    [doc |-> doc, v |-> v, p |-> NewParser, pos |-> 0, from |-> 0, lim |-> 0, ph |-> "feed", out |-> <<>>,
     ret |-> "more", ps |-> [NewSchem({}) EXCEPT !.cur = arg("top", "obj", {}, 0, Top)], sret |-> "ok"]
Init == \/ \E v \in Values, g \in Gaps : o = Opened(Text(v, g), v)
        \/ \E t \in Broken : o = Opened(t, Nobody)

(* The caller's next piece; pos is the character the parser is at.         *)
Feed ==
    /\ o.ph = "feed" /\ o.lim < Len(o.doc)
    /\ \E n \in 1..MaxPiece :
          /\ o.lim + n <= Len(o.doc)
          /\ o' = [o EXCEPT !.from = o.lim, !.lim = o.lim + n, !.pos = o.lim + 1, !.ph = "parse", !.ret = "more"]

At(st) == o.ph = "parse" /\ o.pos <= o.lim /\ o.p.st = st
ch == o.doc[o.pos]
(* The three ways to end a turn: the next character, the same character    *)
(* again, and to leave the loop with an entity or with an error.           *)
Step(p) == o' = [o EXCEPT !.p = p, !.pos = @ + 1]
Again(p) == o' = [o EXCEPT !.p = p]
Entity(p, ev, used) == o' = [o EXCEPT !.p = p, !.pos = @ + used, !.ph = "event", !.ret = ev]
Fail(e) == o' = [o EXCEPT !.ph = "end", !.ret = e]
Add(p) == [p EXCEPT !.buf = val_add(@, o.doc, o.from, o.pos)]
Store(p, s) == [p EXCEPT !.buf = val_store(@, o.doc, o.from, s)]
go(st, nextst) == [o.p EXCEPT !.st = st, !.nextst = nextst]

Space ==
    /\ At("wspace")
    /\ CASE ch \in White -> Step(o.p)
         [] ch = "/" -> Step([o.p EXCEPT !.st = "cmt_begin"])
         [] OTHER -> Again(go(o.p.nextst, "none"))
Comment ==
    /\ \E st \in {"cmt_begin", "cmt_line", "cmt_mline", "cmt_slash"} : At(st)
    /\ IF cmt(o.p.st, ch) = "EBADCMT" THEN Fail("EBADCMT") ELSE Step([o.p EXCEPT !.st = cmt(@, ch)])

CtxType == [c \in {"[", "]", "{", "}"} |-> IF c \in {"[", "]"} THEN "arr" ELSE "obj"]
Value ==        \* iValFirst, iVal
    /\ At("valFirst") \/ At("val")
    /\ CASE o.p.st = "valFirst" /\ ch = "]" -> Again([o.p EXCEPT !.st = "close"])
         [] ch = "\"" -> Step(go("quot", "val"))
         [] ch \in {"[", "{"} ->
               Entity([go("newCtx", IF ch = "[" THEN "valFirst" ELSE "keyFirst") EXCEPT !.type = CtxType[ch]], "OPEN", 1)
         [] ch \in {"t", "f", "n"} -> Again([o.p EXCEPT !.st = "bare" \o ch])
         [] ~(o.p.st = "valFirst" /\ ch = "]") /\ ch \notin {"\"", "[", "{", "t", "f", "n"} ->
               Again([o.p EXCEPT !.st = "num"])
WordOf == [st \in {"baret", "baref", "baren"} |->
             CASE st = "baret" -> <<"t", "r">> [] st = "baref" -> <<"f", "a">> [] st = "baren" -> <<"n", "u">>]
ValBare ==
    /\ \E st \in DOMAIN WordOf : At(st)
    /\ LET w == WordOf[o.p.st]
           n == o.p.buf.len + 1
       IN CASE ch # w[n] -> Fail("EBADVAL")
            [] ch = w[n] /\ n = Len(w) ->
                  Entity([Add(go("wspace", "afterVal")) EXCEPT !.type = IF w[1] = "n" THEN "null" ELSE "bool"], "VAL", 1)
            [] OTHER -> Step(Add(o.p))
ValBareNum ==
    /\ At("num")
    /\ LET s == content(o.p.buf, o.doc, o.from)
           p == go("wspace", "afterVal")
       IN CASE ch \in Digit \union {"-", "+", ".", "e"} -> Step(Add(o.p))
            [] s = <<>> -> Fail("ENOVAL")
            [] s # <<>> /\ intOf(s) # NaN -> Entity([p EXCEPT !.type = "int"], "VAL", 0)
            [] IsFloat(s) -> Entity([p EXCEPT !.type = "num"], "VAL", 0)
            [] OTHER -> Fail("EBADVAL")

Quote ==
    /\ At("quot")
    /\ CASE ch = "\\" -> Step([o.p EXCEPT !.st = "esc", !.esc = <<>>])
         [] ch # "\\" /\ o.p.hi -> Fail("EESC")
         [] ch = "\"" /\ ~o.p.hi ->
               IF o.p.nextst = "key" THEN Entity([go("wspace", "afterKey") EXCEPT !.type = "str"], "KEY", 1)
               ELSE Entity([go("wspace", "afterVal") EXCEPT !.type = "str"], "VAL", 1)
         [] ch = "\n" /\ ~o.p.hi -> Fail("EBADCHAR")
         [] OTHER -> Step(Add(o.p))
unescapechar(e) ==      \* <<>> : more, <<"bad">>, or the character
    CASE e[1] \in {"\"", "\\", "/"} -> <<e[1]>>
      [] e[1] = "n" -> <<"\n">>
      [] e = <<"u">> -> <<>>
      [] Len(e) = 2 /\ e[2] \in {"B", "H", "L"} -> <<e[2]>>
      [] OTHER -> <<"bad">>
Esc ==
    /\ At("esc")
    /\ LET e == Append(o.p.esc, ch)
           c == unescapechar(e)
           p == [o.p EXCEPT !.esc = e, !.st = "quot"]
       IN CASE c = <<"bad">> -> Fail("EESC")
            [] c = <<>> -> Step([o.p EXCEPT !.esc = e])
            [] c = <<"H">> -> IF o.p.hi THEN Fail("EESC") ELSE Step([p EXCEPT !.hi = TRUE])
            [] c = <<"L">> -> IF o.p.hi THEN Step(Store([p EXCEPT !.hi = FALSE], <<"s">>)) ELSE Fail("EESC")
            [] OTHER -> Step(Store(p, IF c = <<"B">> THEN <<"b">> ELSE c))

cleardata(p) == [p EXCEPT !.buf = NoBuf]
AfterVal ==
    /\ At("afterVal")
    /\ CASE o.p.ctxs = <<>> -> Fail("EBADCHAR")
         [] o.p.ctxs # <<>> /\ ch = "," ->
               Step(cleardata(go("wspace", IF Last(o.p.ctxs) = "arr" THEN "val" ELSE "key")))
         [] o.p.ctxs # <<>> /\ ch \in {"]", "}"} -> Again(cleardata([o.p EXCEPT !.st = "close"]))
         [] OTHER -> Fail("EBADCHAR")
CloseBrace ==
    /\ At("close")
    /\ CASE o.p.ctxs = <<>> -> Fail("ASSERT")
         [] o.p.ctxs # <<>> /\ Last(o.p.ctxs) # CtxType[ch] -> Fail("EBADBRACE")
         [] OTHER -> Entity([o.p EXCEPT !.st = "rmCtx", !.type = CtxType[ch]], "CLOSE", 1)
NewCtx == At("newCtx") /\ Again([o.p EXCEPT !.ctxs = Append(@, o.p.type), !.st = "wspace"])
RmCtx == At("rmCtx") /\ Again([go("wspace", "afterVal") EXCEPT !.ctxs = Front(@)])
Key ==
    /\ At("keyFirst") \/ At("key")
    /\ CASE o.p.st = "keyFirst" /\ ch = "}" -> Again([o.p EXCEPT !.st = "close"])
         [] ch = "\"" -> Step(go("quot", "key"))
         [] OTHER -> Fail("EBADCHAR")
AfterKey ==
    /\ At("afterKey")
    /\ IF ch = ":" THEN Step(cleardata(go("wspace", "val"))) ELSE Fail("EKVSEP")

(* The piece is used up: what the buffer points to is copied.              *)
More ==
    /\ o.ph = "parse" /\ o.pos > o.lim
    /\ o' = [o EXCEPT !.ph = "feed", !.p = IF o.p.buf.len # 0 THEN Store(o.p, <<>>) ELSE @]

-----------------------------------------------------------------------------
(* ffjson_schemrun(): the entity is handed to the scheme.                  *)
SchemType == [t \in {"str", "int", "bool", "obj", "arr", "enum", "size", "any", "none", "close"} |->
                CASE t = "enum" -> "str" [] t = "size" -> "int" [] OTHER -> t]
argfind(ps, type) == SelectInSeq(Args(Last(ps.ctxs)), LAMBDA a : SchemType[a.t] = type)
inArray(ps, type) ==    \* the argument of an array is found by its type
    IF argfind(ps, type) = 0 THEN fail(ps, "EARRTYPE") ELSE [ps EXCEPT !.cur = Args(Last(ps.ctxs))[argfind(ps, type)]]
schemval(ps, type, s) ==
    CASE Failed(ps) -> ps
      [] ~Failed(ps) /\ type = "null" -> IF "null" \in ps.cur.f THEN IF ps.cur.t = "obj" THEN ps ELSE stored(ps, "null")
                                         ELSE fail(ps, "EVALNULL")
      [] ~Failed(ps) /\ type # "null" /\ type # SchemType[ps.cur.t] /\ ps.cur.t # "any"
         /\ ~(ps.cur.t = "size" /\ type = "str") -> fail(ps, "EVALTYPE")
      [] OTHER -> arg_process(ps, s)
schemrun(ps, p, ev, s) ==
    CASE ev # "OPEN" /\ ps.ctxs = <<>> -> fail(ps, "ECONF")
      [] Skipping(ps) -> skipctx(ps, ev)
      [] ~Skipping(ps) /\ ev = "KEY" -> ctx_findarg(ps, Word(s), TRUE)
      [] ~Skipping(ps) /\ ev = "OPEN" ->
            IF Len(p.ctxs) >= 2 /\ Last(p.ctxs) = "arr"
            THEN IF Failed(inArray(ps, p.type)) THEN inArray(ps, p.type) ELSE scOpenBrace(inArray(ps, p.type))
            ELSE scOpenBrace(ps)
      [] ~Skipping(ps) /\ ev = "CLOSE" /\ ps.ctxs # <<>> -> scCloseBrace(ps)
      [] OTHER -> schemval(IF p.ctxs # <<>> /\ Last(p.ctxs) = "arr" THEN inArray(ps, p.type) ELSE ps, p.type, s)
Take ==
    /\ o.ph = "event"
    /\ LET s == IF o.ret \in {"OPEN", "CLOSE"} THEN <<>> ELSE content(o.p.buf, o.doc, o.from)
           ps == IF o.sret = "ok" THEN schemrun(o.ps, o.p, o.ret, s) ELSE o.ps
       IN  o' = [o EXCEPT !.ph = "parse", !.out = Append(@, <<o.ret, o.p.type, s>>), !.ps = ps,
                          !.sret = IF Failed(ps) THEN CHOOSE e \in ps.flags \intersect Errors : TRUE ELSE @]
(* ffjson_schemfin() at the end of the text.                               *)
Fin ==
    /\ o.ph = "feed" /\ o.lim = Len(o.doc)
    /\ o' = [o EXCEPT !.ph = "end", !.sret = CASE @ # "ok" -> @ [] @ = "ok" /\ o.ps.ctxs # <<>> -> "ENOBRACE"
                                                [] @ = "ok" /\ o.doc = <<>> -> "ENOVAL" [] OTHER -> @]

Parse == \/ Space \/ Comment \/ Value \/ ValBare \/ ValBareNum \/ Quote \/ Esc \/ AfterVal \/ CloseBrace
         \/ NewCtx \/ RmCtx \/ Key \/ AfterKey \/ More \/ Take \/ Fin
Next == Feed \/ Parse
Spec == Init /\ [][Next]_o

-----------------------------------------------------------------------------
(* However a text is divided, the entities are those of its value, in      *)
(* order, with the right types and characters; none is reported that the   *)
(* value does not have.                                                    *)
EventsTrue ==
    o.v # Nobody => /\ IsPrefix(o.out, EventsOf(o.v))
                    /\ o.ph = "end" => o.out = EventsOf(o.v)

(* Every closing entity matches the entity that opened its context,        *)
(* whatever the text is: the assertions on ctxs.len hold.                  *)
RECURSIVE Nesting(_)
Nesting(out) == IF out = <<>> THEN <<>>
                ELSE LET e == Last(out)
                         n == Nesting(Front(out))
                     IN CASE e[1] = "OPEN" -> Append(n, e[2])
                          [] e[1] = "CLOSE" -> IF n # <<>> /\ Last(n) = e[2] THEN Front(n) ELSE <<"bad">>
                          [] OTHER -> n
Nested ==
    /\ o.ret # "ASSERT" /\ "bad" \notin Range(Nesting(o.out))
    /\ o.ph = "parse" => Nesting(o.out) = CASE o.p.st = "newCtx" -> Append(o.p.ctxs, o.p.type)
                                            [] o.p.st = "rmCtx" -> Front(o.p.ctxs) [] OTHER -> o.p.ctxs

(* The scheme accepts a text exactly if every member of an object has an   *)
(* argument of its type and is not repeated unless it may be, and every    *)
(* required argument is there; and then each value was stored once, in the *)
(* order of the text.                                                      *)
Fits(a, v) ==
    CASE v.t = "null" -> "null" \in a.f
      [] v.t # "null" /\ a.t = "any" -> v.t \in Scalar
      [] v.t # "null" /\ a.t = "int" -> v.t = "int" /\ LET n == intOf(v.s) IN
             (n < 0 => "sign" \in a.f) /\ (n = 0 => "notzero" \notin a.f)
             /\ (a.w = 64 \/ (IF n < 0 THEN -n ELSE n) < Width(a.w))
      [] v.t # "null" /\ a.t = "str" -> v.t = "str" /\ (v.s = <<>> => "notempty" \notin a.f)
      [] v.t # "null" /\ a.t = "enum" -> v.t = "str" /\ v.s \in {<<"a">>, <<"b">>}
      [] v.t # "null" /\ a.t \in {"bool", "obj", "arr"} -> v.t = a.t
      [] OTHER -> FALSE
RECURSIVE Conforms(_, _)
Conforms(sub, v) ==
    \/ sub = Skipped
    \/ LET as == Schemes[sub]
           of(i) == IF v.t = "arr" THEN SelectInSeq(as, LAMBDA a : SchemType[a.t] = v.kids[i].t)
                    ELSE SelectInSeq(as, LAMBDA a : a.name = Word(v.keys[i]))
       IN  /\ \A i \in DOMAIN v.kids : of(i) # 0 /\ Fits(as[of(i)], v.kids[i])
                                       /\ (v.kids[i].t \in {"obj", "arr"} => Conforms(as[of(i)].sub, v.kids[i]))
           /\ v.t = "obj" =>
                 /\ \A i, j \in DOMAIN v.kids : i # j /\ of(i) = of(j) => "multi" \in as[of(i)].f
                 /\ \A k \in DOMAIN as : "req" \in as[k].f => \E i \in DOMAIN v.kids : of(i) = k
SchemeTrue ==
    o.ph = "end" /\ o.v.t = "obj" =>
        /\ (o.sret = "ok") = Conforms(Top, o.v)
        /\ o.sret = "ok" => Len(SelectSeq(o.ps.got, LAMBDA g : g[1] # "close")) <= Len(SelectSeq(o.out, LAMBDA e : e[1] = "VAL"))

-----------------------------------------------------------------------------
(* The writer.  c has the text, its capacity and what comes next; count is *)
(* the pass without memory that measures.                                  *)
NewCook == [text |-> <<>>, cap |-> 0, ctxs |-> <<>>, n |-> 0, comma |-> FALSE, key |-> FALSE, len |-> 0, ret |-> "OK"]
ItemText(e) == CASE e[1] = "OPEN" -> (IF e[2] = "arr" THEN <<"[">> ELSE <<"{">>)
                 [] e[1] = "CLOSE" -> (IF e[2] = "arr" THEN <<"]">> ELSE <<"}">>)
                 [] e[2] = "str" -> quoted(e[3])
                 [] OTHER -> e[3]
ItemSize(e) == IF e[1] = "VAL" /\ e[2] = "int" THEN IntChars ELSE Len(ItemText(e))
inObj(c, n) == n # 0 /\ c.ctxs[n] = "obj"
written(c, e, s) ==     \* with the separators, as far as there is room
    LET all == (IF c.comma /\ e[1] # "CLOSE" THEN <<",">> ELSE <<>>) \o s \o (IF e[1] = "KEY" THEN <<":">> ELSE <<>>)
        d == SubSeq(c.text \o all, 1, Min({c.cap, Len(c.text) + Len(all)}))
    IN IF Len(d) = c.cap THEN [c EXCEPT !.ret = "BUFFULL"] ELSE [c EXCEPT !.text = d]
next(c, e) ==
    CASE e[1] = "OPEN" -> [c EXCEPT !.ctxs = SubSeq(@, 1, c.n) \o <<e[2]>> \o SubSeq(@, c.n + 2, Len(@)), !.n = @ + 1,
                                    !.comma = FALSE, !.key = e[2] = "obj"]
      [] e[1] = "CLOSE" -> [c EXCEPT !.n = @ - 1, !.comma = TRUE, !.key = inObj(c, c.n - 1)]
      [] e[1] \notin {"OPEN", "CLOSE"} /\ c.key -> [c EXCEPT !.comma = FALSE, !.key = FALSE]
      [] OTHER -> IF c.n = 0 THEN c ELSE [c EXCEPT !.comma = TRUE, !.key = inObj(c, c.n)]
Misplaced(c, e) == e[1] = "CLOSE" /\ (c.n = 0 \/ c.ctxs[c.n] # e[2])
add(c, e) ==
    CASE c.ret # "OK" -> c
      [] c.ret = "OK" /\ Misplaced(c, e) -> [c EXCEPT !.ret = "ERR"]
      [] OTHER -> next(written(c, e, ItemText(e)), e)
sized(c, e) ==
    CASE c.ret # "OK" -> c
      [] c.ret = "OK" /\ Misplaced(c, e) -> [c EXCEPT !.ret = "ERR"]
      [] OTHER -> [next(c, e) EXCEPT !.len = @ + ItemSize(e) + (IF c.comma /\ e[1] # "CLOSE" THEN 1 ELSE 0)
                                                + (IF e[1] = "KEY" THEN 1 ELSE 0)]
(* The first pass gives the size; what it left in the memory of ctxs stays *)
(* there.                                                                  *)
second(c, first, es) ==
    IF first.ret # "OK" THEN [c EXCEPT !.ret = first.ret, !.ctxs = first.ctxs]
    ELSE FoldLeft(add, [c EXCEPT !.cap = Max({@, Len(c.text) + first.len + 1}), !.ctxs = first.ctxs], es)
bufadd(c, es) == second(c, FoldLeft(sized, [c EXCEPT !.len = 0], es), es)

(* The writer: every value, one or two items a call.                       *)
WInit == \E v \in Values, k \in 1..2 : o = [v |-> v, k |-> k, at |-> 0, c |-> NewCook]
Bufadd ==
    /\ o.at < Len(EventsOf(o.v))
    /\ LET es == EventsOf(o.v)
           n == Min({o.k, Len(es) - o.at})
       IN  o' = [o EXCEPT !.at = @ + n, !.c = bufadd(@, SubSeq(es, o.at + 1, o.at + n))]
WSpec == WInit /\ [][Bufadd]_o

(* Everything that is added is written, exactly once and as JSON: the size *)
(* the first pass finds is enough for the second.                          *)
CookTrue == /\ o.c.ret = "OK"
            /\ o.at = Len(EventsOf(o.v)) => o.c.text = Text(o.v, <<>>)
=============================================================================
