-------------------------------- MODULE Conf --------------------------------
(***************************************************************************)
(* The configuration parser, its scheme and the configuration writer       *)
(* (FF/data/ffconf.c).  A document is a sequence of entries: what the      *)
(* writer is told and what the parser reports.  The parser gets the        *)
(* document in pieces, as in Json.  The character "c" is a newline inside  *)
(* a value (escaped with two characters), "d" one that is not printable    *)
(* (four characters), "v" any other that needs quotes.                     *)
(***************************************************************************)
EXTENDS Parse

CONSTANTS Docs,     \* sequences of entries
          Gap,      \* comments and spaces to put where one space may be
          MaxPiece,
          Top,      \* the context of the document
          Caps,     \* capacities the writer begins with
          Grow      \* by how much its buffer grows at least

VARIABLE o

(* An entry <<event, type, text>>.                                         *)
key(s) == <<"KEY", "key", s>>
kctx(s) == <<"KEY", "keyctx", s>>
open == <<"OPEN", "obj", <<>>>>
close == <<"CLOSE", "obj", <<>>>>

-----------------------------------------------------------------------------
(* The writer.  c has the text, its capacity, the level and the state.     *)
EscText(x) == CASE x = "c" -> <<"\\", "n">> [] x = "d" -> <<"\\", "x", "D">>
                [] x \in {"\"", "\\"} -> <<"\\", x>> [] OTHER -> <<x>>
escaped(s) == FlattenSeq([i \in DOMAIN s |-> EscText(s[i])])
Plain == {"a", "b", "k", "r", "t", "f"} \union Digit
Quotes(s) == s = <<>> \/ \E i \in DOMAIN s : s[i] \notin Plain
(* ffs_escape_conf_str(): as many characters as fit; if one does not, the  *)
(* result is their number, negated.                                        *)
EscMax(s, room) == Max({i \in 0..Len(s) : Len(escaped(SubSeq(s, 1, i))) <= room})
escape_conf_str(s, room) == IF EscMax(s, room) = Len(s) THEN Len(escaped(s)) ELSE -EscMax(s, room)

copy(d, cap, s) == SubSeq(d \o s, 1, Min({cap, Len(d) + Len(s)}))
quotedText(d, cap, s) ==
    LET q == copy(d, cap, <<"\"">>)
        r == escape_conf_str(s, cap - Len(q))
        full == [i \in 1..cap |-> IF i <= Len(q) THEN q[i] ELSE Lost]
        body == IF r >= 0 THEN q \o SubSeq(escaped(s), 1, r) ELSE full
    IN  copy(body, cap, <<"\"">>)
textOf(d, cap, s) == IF Quotes(s) THEN quotedText(d, cap, s) ELSE copy(d, cap, s)
Room(s) == IF Quotes(s) THEN 2 + Len(escaped(s)) ELSE Len(s)

NewW(cap) == [text |-> <<>>, cap |-> cap, level |-> 0, st |-> "first", need |-> 0, ret |-> 1]
bad(c) == [c EXCEPT !.st = "err", !.ret = 0]
(* dst is what the buffer would hold, need what the code asks for if it is *)
(* full, level and st the state after the entry.                           *)
done(c, dst, need, level, st) ==
    IF Len(dst) = c.cap THEN [c EXCEPT !.need = need + 1, !.ret = -1]
    ELSE [c EXCEPT !.text = dst, !.level = level, !.st = st, !.ret = Len(dst) - Len(c.text)]
newline(c) == IF c.st \in {"key", "val"} THEN copy(c.text, c.cap, <<"\n">>) ELSE c.text
write_key(c, e) ==
    LET d == textOf(newline(c), c.cap, e[3])
    IN IF c.st = "err" THEN bad(c)
       ELSE done(c, IF e[2] = "keyctx" THEN copy(d, c.cap, <<".">>) ELSE d, 3 + Room(e[3]), c.level,
                 IF e[2] = "keyctx" THEN "kctx" ELSE "key")
write_val(c, e) ==
    IF c.st \notin {"first", "key", "val"} THEN bad(c)
    ELSE done(c, textOf(copy(c.text, c.cap, <<" ">>), c.cap, e[3]), 1 + Room(e[3]), c.level, "val")
write_obj(c, e) ==
    CASE c.st \notin {"first", "key", "val"} -> bad(c)
      [] c.st \in {"first", "key", "val"} /\ e[1] = "OPEN" ->
            done(c, copy(c.text, c.cap, <<" ", "{", "\n">>), 4, c.level + 1, "first")
      [] OTHER -> done(c, copy(newline(c), c.cap, <<"}", "\n">>), 5, c.level - 1, "first")
write_fin(c) ==
    CASE c.level # 0 \/ c.st \notin {"first", "key", "val"} -> bad(c)
      [] c.level = 0 /\ c.st = "first" -> [c EXCEPT !.ret = 1]
      [] OTHER -> done(c, newline(c), 0, c.level, "first")
_write(c, e) == CASE e[1] = "KEY" -> write_key(c, e) [] e[1] = "VAL" -> write_val(c, e)
                  [] e[1] \in {"OPEN", "CLOSE"} -> write_obj(c, e) [] e[1] = "FIN" -> write_fin(c)
(* ffconf_write(): once more with a larger buffer.                         *)
grown(c) == [c EXCEPT !.cap = IF Len(c.text) + c.need <= @ THEN @ ELSE Len(c.text) + Max({c.need, Grow})]
again(c, e) == IF c.ret # -1 THEN c ELSE _write(grown(c), e)
write(c, e) == again(_write(c, e), e)

Fin == <<"FIN", "fin", <<>>>>
Ideal(doc) == FoldLeft(_write, NewW(1000), Append(doc, Fin)).text

-----------------------------------------------------------------------------
(* The parser: ffconf_parseinit(), ffconf_scheminit().                     *)
NewParser == [st |-> "wspace", nextst |-> "key", type |-> "obj", buf |-> NoBuf, esc |-> <<>>, ctxs |-> 1]
Opened(text, d) ==
    [doc |-> text, d |-> d, p |-> NewParser, pos |-> 0, from |-> 0, lim |-> 0, ph |-> "feed", out |-> <<>>, ret |-> "more",
     ps |-> setctx(NewSchem({}), Top), sret |-> "ok"]
(* A space between two words may be any white space with a comment.        *)
spaced(s, g) == FlattenSeq([i \in DOMAIN s |-> IF s[i] = " " THEN g ELSE <<s[i]>>])
Init == \E d \in Docs, g \in Gap : o = Opened(spaced(Ideal(d), g), d)

Feed ==
    /\ o.ph = "feed" /\ o.lim < Len(o.doc)
    /\ \E n \in 1..MaxPiece :
          /\ o.lim + n <= Len(o.doc)
          /\ o' = [o EXCEPT !.from = o.lim, !.lim = o.lim + n, !.pos = o.lim + 1, !.ph = "parse", !.ret = "more"]

At(st) == o.ph = "parse" /\ o.pos <= o.lim /\ o.p.st = st
ch == o.doc[o.pos]
Step(p) == o' = [o EXCEPT !.p = p, !.pos = @ + 1]
Again(p) == o' = [o EXCEPT !.p = p]
Entity(p, ev, used) == o' = [o EXCEPT !.p = p, !.pos = @ + used, !.ph = "event", !.ret = ev]
Fail(e) == o' = [o EXCEPT !.ph = "end", !.ret = e]
Add(p) == [p EXCEPT !.buf = val_add(@, o.doc, o.from, o.pos)]
Store(p, s) == [p EXCEPT !.buf = val_store(@, o.doc, o.from, s)]
go(st, nextst) == [o.p EXCEPT !.st = st, !.nextst = nextst]
cleardata(p) == [p EXCEPT !.buf = NoBuf]
Splits == White \union {"/", "#"}
NextVal == IF o.p.type \in {"val", "valnext"} THEN "valnext" ELSE "val"

Space ==
    /\ At("wspace")
    /\ CASE ch = "\n" -> Step(cleardata(go("wspace", "key")))
         [] ch = " " -> Step(o.p)
         [] ch = "/" -> Step([o.p EXCEPT !.st = "cmt_begin"])
         [] ch = "#" -> Step([o.p EXCEPT !.st = "cmt_line"])
         [] OTHER -> Again(go(o.p.nextst, "none"))
Comment ==
    /\ \E st \in {"cmt_begin", "cmt_line", "cmt_mline", "cmt_slash"} : At(st)
    /\ CASE o.p.st = "cmt_line" /\ ch = "\n" -> Again([o.p EXCEPT !.st = "wspace"])
         [] cmt(o.p.st, ch) = "EBADCMT" -> Fail("EBADCMT")
         [] OTHER -> Step([o.p EXCEPT !.st = cmt(@, ch)])
Key ==      \* iKeyFirst, iKey
    /\ At("keyFirst") \/ At("key")
    /\ LET p == IF o.p.st = "keyFirst" THEN cleardata(o.p) ELSE o.p
       IN CASE ch = "\"" -> Step([p EXCEPT !.st = "quot", !.nextst = "key"])
            [] ch = "}" -> Entity([p EXCEPT !.st = "rmCtx", !.type = "obj"], "CLOSE", 1)
            [] OTHER -> Again([p EXCEPT !.st = "keyBare"])
Bare ==     \* iKeyBare, iValBare
    /\ At("keyBare") \/ At("valBare")
    /\ CASE o.p.st = "keyBare" /\ ch = "." -> Entity([o.p EXCEPT !.type = "keyctx", !.st = "keyFirst"], "KEY", 1)
         [] ~(o.p.st = "keyBare" /\ ch = ".") /\ ch \notin Splits -> Step(Add(o.p))
         [] OTHER -> IF o.p.st = "keyBare" THEN Entity([o.p EXCEPT !.type = "key", !.st = "split"], "KEY", 0)
                     ELSE Entity([o.p EXCEPT !.type = NextVal, !.st = "split"], "VAL", 0)
Value ==
    /\ At("val")
    /\ CASE ch = "\"" -> Step(go("quot", "val"))
         [] ch = "{" -> Entity([go("newCtx", "split") EXCEPT !.type = "obj"], "OPEN", 1)
         [] OTHER -> Again([o.p EXCEPT !.st = "valBare"])
KeySplit ==
    /\ At("keySplit")
    /\ IF ch = "." THEN Entity([o.p EXCEPT !.type = "keyctx", !.st = "keyFirst"], "KEY", 1)
       ELSE Entity([o.p EXCEPT !.type = "key", !.st = "split"], "KEY", 0)
ValSplit ==
    /\ At("split")
    /\ IF ch \in Splits THEN Again(cleardata(go("wspace", "val"))) ELSE Fail("EBADCHAR")
Quote ==
    /\ At("quot")
    /\ CASE ch = "\"" -> IF o.p.nextst = "key" THEN Step([o.p EXCEPT !.st = "keySplit"])
                         ELSE Entity([o.p EXCEPT !.type = NextVal, !.st = "split"], "VAL", 1)
         [] ch = "\\" -> Step([o.p EXCEPT !.st = "esc", !.esc = <<>>])
         [] ch = "\n" -> Fail("EBADCHAR")
         [] OTHER -> Step(Add(o.p))
unesc(e) == CASE e[1] \in {"\"", "\\"} -> <<e[1]>> [] e[1] = "n" -> <<"c">> [] e = <<"x">> -> <<>>
              [] e = <<"x", "D">> -> <<"d">> [] OTHER -> <<"bad">>
Esc ==
    /\ At("esc")
    /\ LET e == Append(o.p.esc, ch)
       IN CASE unesc(e) = <<"bad">> -> Fail("EESC")
            [] unesc(e) = <<>> -> Step([o.p EXCEPT !.esc = e])
            [] OTHER -> Step(Store([o.p EXCEPT !.esc = <<>>, !.st = "quot"], unesc(e)))
NewCtx == At("newCtx") /\ Again([o.p EXCEPT !.ctxs = @ + 1, !.st = "wspace"])
RmCtx == At("rmCtx") /\ Again([o.p EXCEPT !.ctxs = @ - 1, !.st = "split", !.type = "obj"])
More ==
    /\ o.ph = "parse" /\ o.pos > o.lim
    /\ o' = [o EXCEPT !.ph = "feed", !.p = IF o.p.buf.len # 0 THEN Store(o.p, <<>>) ELSE @]

-----------------------------------------------------------------------------
(* The scheme.                                                             *)
schemval(ps, p, s) ==
    LET q == [ps EXCEPT !.list = IF p.type = "valnext" THEN @ + 1 ELSE 0]
        r == CASE ps.cur.t = "obj" -> IF "obj1" \notin ps.cur.f THEN fail(q, "EVALTYPE")
                                      ELSE [q EXCEPT !.vals = Word(s), !.flags = IF ps.cur.name = "*" THEN @ ELSE @ \union {"ctx"}]
               [] OTHER -> arg_process(q, s)
    IN IF p.type = "valnext" /\ ps.cur.t # "any" /\ "list" \notin ps.cur.f THEN fail(ps, "EVALUNEXP")
       ELSE IF "reset" \in r.flags THEN [r EXCEPT !.flags = @ \union {"resetval"}] ELSE r
found(ps, p, s) ==      \* what follows a key that was found
    CASE Failed(ps) -> ps
      [] ~Failed(ps) /\ ps.cur.name = "*" ->     \* the key is a value, too
            CASE ps.cur.t = "obj" -> LET q == schemval(ps, p, s) IN IF Failed(q) THEN q ELSE scOpenBrace(q)
              [] ps.cur.t # "obj" /\ "withkey" \in ps.cur.f -> [ps EXCEPT !.vals = Word(s)]
              [] OTHER -> arg_process(ps, s)
      [] ~Failed(ps) /\ ps.cur.name # "*" /\ p.type = "keyctx" /\ ps.cur.t = "obj" -> scOpenBrace(ps)
      [] OTHER -> IF ps.cur.t \in {"obj", "arr"} THEN ps ELSE [ps EXCEPT !.flags = @ \union {"havkey"}]
expected(ps, ev) ==     \* a key wants a value, a named object its brace
    CASE "havkey" \in ps.flags -> IF ev # "VAL" THEN fail(ps, "EVALEMPTY") ELSE [ps EXCEPT !.flags = @ \ {"havkey"}]
      [] "havkey" \notin ps.flags /\ "ctx" \in ps.flags ->
            IF ev # "OPEN" THEN fail(ps, "EVALEMPTY") ELSE [ps EXCEPT !.flags = @ \ {"ctx"}]
      [] OTHER -> ps
schemstep(ps, p, ev, s) ==
    CASE Failed(ps) -> ps
      [] ~Failed(ps) /\ ev = "KEY" ->
            found(ctx_findarg(IF p.type = "keyctx" THEN [ps EXCEPT !.flags = @ \union {"reset"}] ELSE ps, Word(s), TRUE), p, s)
      [] ~Failed(ps) /\ ev = "VAL" -> schemval(ps, p, s)
      [] ~Failed(ps) /\ ev = "OPEN" -> [scOpenBrace(ps) EXCEPT !.vals = ""]
      [] ~Failed(ps) /\ ev = "CLOSE" -> scCloseBrace(ps)
reset(ps, ev) ==        \* after the line "ctx.key value"
    IF "resetval" \in ps.flags /\ ev # "VAL"
    THEN [ps EXCEPT !.ctxs = <<@[1]>>, !.cur = NoArg, !.flags = @ \ {"reset", "resetval"}] ELSE ps
schemrun(ps, p, ev, s) ==
    CASE ps.ctxs = <<>> -> fail(ps, "ECONF")
      [] ps.ctxs # <<>> /\ Skipping(ps) -> skipctx(ps, ev)
      [] OTHER -> schemstep(expected(ps, ev), p, ev, s)
ErrorOf(ps, old) == IF Failed(ps) THEN CHOOSE e \in ps.flags \intersect Errors : TRUE ELSE old
Take ==
    /\ o.ph = "event"
    /\ LET s == IF o.ret \in {"OPEN", "CLOSE"} THEN <<>> ELSE content(o.p.buf, o.doc, o.from)
           ps == IF o.sret = "ok" THEN schemrun(reset(o.ps, o.ret), o.p, o.ret, s) ELSE o.ps
       IN  o' = [o EXCEPT !.ph = "parse", !.out = Append(@, <<o.ret, IF o.p.type = "valnext" THEN "val" ELSE o.p.type, s>>),
                          !.ps = ps, !.sret = ErrorOf(ps, @)]
(* ffconf_schemfin(): one context is left, and closing it checks what is   *)
(* required.                                                               *)
schemfin(ps) ==
    IF Len(ps.ctxs) # 1 THEN fail(ps, "ENOBRACE")
    ELSE schemrun(reset(ps, "CLOSE"), [NewParser EXCEPT !.type = "obj"], "CLOSE", <<>>)
End ==
    /\ o.ph = "feed" /\ o.lim = Len(o.doc)
    /\ o' = [o EXCEPT !.ph = "end", !.sret = IF @ = "ok" THEN ErrorOf(schemfin(o.ps), "ok") ELSE @]
Parse == \/ Space \/ Comment \/ Key \/ Bare \/ Value \/ KeySplit \/ ValSplit \/ Quote \/ Esc \/ NewCtx \/ RmCtx
         \/ More \/ Take \/ End
Next == Feed \/ Parse
Spec == Init /\ [][Next]_o

-----------------------------------------------------------------------------
(* What the writer wrote the parser reads: the same entries in the same    *)
(* order, however the text is divided and wherever comments stand.         *)
RoundTrip == /\ o.ret \in {"more", "KEY", "VAL", "OPEN", "CLOSE"}
             /\ IsPrefix(o.out, o.d)
             /\ o.ph = "end" => o.out = o.d

(* The scheme stores the values of a document exactly if each key belongs  *)
(* to its context, has its values and is not repeated, and what is         *)
(* required is there.  The context of an entry: the names of the objects   *)
(* and of the prefixes "ctx." it is in.                                    *)
RECURSIVE Outer(_, _)
Outer(d, i) ==          \* the keys of the objects around entry i
    IF i = 0 THEN <<>>
    ELSE CASE d[i] = open -> Append(Outer(d, i - 1), Last(SelectSeq(SubSeq(d, 1, i), LAMBDA e : e[1] = "KEY"))[3])
           [] d[i] = close -> Front(Outer(d, i - 1))
           [] OTHER -> Outer(d, i - 1)
Valid(d) ==
    LET named(sub, s) == SelectInSeq(Schemes[sub], LAMBDA a : a.name = s)
        find(sub, s) == IF named(sub, Word(s)) # 0 THEN named(sub, Word(s)) ELSE named(sub, "*")
        sub(path) == FoldLeft(LAMBDA x, s : IF x = "none" \/ find(x, s) = 0 THEN "none" ELSE Schemes[x][find(x, s)].sub, Top, path)
        prefix(i) == IF i > 1 /\ d[i - 1][2] = "keyctx" THEN <<d[i - 1][3]>> ELSE <<>>
        ctx(i) == Outer(d, i - 1) \o prefix(i)
        keys == {i \in DOMAIN d : d[i][1] = "KEY"}
        of(i) == find(sub(ctx(i)), d[i][3])
        vals(i) == {j \in DOMAIN d : j > i /\ d[j][1] = "VAL" /\ \A k \in (i + 1)..j : d[k][1] = "VAL"}
    IN /\ \A i \in keys : of(i) # 0
       /\ \A i \in keys : LET a == Schemes[sub(ctx(i))][of(i)] IN
             CASE a.t = "obj" -> \/ vals(i) = {}      \* the brace is not asked for
                                 \/ /\ "obj1" \in a.f /\ Cardinality(vals(i)) = 1
                                    /\ i + 2 \in DOMAIN d => d[i + 2] = open
               [] a.t = "int" -> Cardinality(vals(i)) = 1 /\ \A j \in vals(i) : intOf(d[j][3]) \in 0..(Width(a.w) - 1)
               [] a.t = "str" /\ a.name = "*" -> Cardinality(vals(i)) <= 1
               [] OTHER -> vals(i) # {} /\ ("list" \in a.f \/ Cardinality(vals(i)) = 1)
       /\ \A i, j \in keys : i # j /\ ctx(i) = ctx(j) /\ d[i] = d[j] => "multi" \in Schemes[sub(ctx(i))][of(i)].f
       /\ \A k \in DOMAIN Schemes[Top] : "req" \in Schemes[Top][k].f => \E i \in keys : ctx(i) = <<>> /\ of(i) = k
SchemeTrue == o.ph = "end" => (o.sret = "ok") = Valid(o.d)

-----------------------------------------------------------------------------
(* The writer from every capacity.                                         *)
WInit == \E d \in Docs, cap \in Caps : o = [d |-> d, at |-> 0, c |-> NewW(cap)]
Write ==
    /\ o.at <= Len(o.d) /\ o.c.ret > 0
    /\ o' = [o EXCEPT !.at = @ + 1, !.c = write(@, IF o.at = Len(o.d) THEN Fin ELSE o.d[o.at + 1])]
WSpec == WInit /\ [][Write]_o

(* _ffconf_write(): "Return # of written bytes; 0 on error; <0 if need     *)
(* more space", and ffconf_write() asserts that the larger buffer was      *)
(* enough.                                                                 *)
GrowIsEnough == o.c.ret > 0

(* Whatever the capacity was at the beginning, the same text is written;   *)
(* but once the buffer had to grow, a text with escapes may have become    *)
(* empty without a word (ffconf.c:654).                                    *)
Escapes(e) == Len(escaped(e[3])) # Len(e[3])
Without(doc, gone) == [i \in DOMAIN doc |-> IF i \in gone THEN [doc[i] EXCEPT ![3] = <<>>] ELSE doc[i]]
WrittenTrue ==
    o.at > Len(o.d) /\ o.c.ret > 0 =>
        \E gone \in SUBSET {i \in DOMAIN o.d : Escapes(o.d[i])} :
            o.c.text = Ideal(Without(o.d, gone)) /\ (gone = {} \/ o.c.need # 0)
=============================================================================
