------------------------------ MODULE HttpParse ------------------------------
(***************************************************************************)
(* The parsers of the network protocols: ffurl_parse() of FF/net/ffurl.c,  *)
(* the conversions of addresses of FF/net/ffproto.c and of paths           *)
(* (FF/ffpath.c), which are functions, and FF/net/ffhttp.c.  The parsers   *)
(* of URLs, of the first line and of the headers look at one buffer that   *)
(* grows (o.in) and go on where they stopped; one turn of their loop is    *)
(* one step.  o.u is struct ffurl, o.p the state of a header parser: p.i   *)
(* the position (hdr.len), p.idx the case of the switch.  The chunked      *)
(* decoder takes its input in pieces and keeps nothing of them.            *)
(*                                                                         *)
(* File.text is the text, a sequence of characters: "a" stands for any     *)
(* letter, besides the ones of HTTP, "0" and "1" for digits.               *)
(***************************************************************************)
EXTENDS Stream

CONSTANTS MaxHost,      \* 255
          MaxIp6,       \* longest [ip6]
          MaxPort,      \* 65535
          MaxLine,      \* 0xffff
          ChunkWrap     \* 2^64, of sizes of chunks and of ranges

isdigit(ch) == ch \in {"0", "1"}
tonum(ch) == IF ch = "0" THEN 0 ELSE 1
isname(ch) == isdigit(ch) \/ ch \in {"a", "H", "T", "P"}
ishost(ch) == isname(ch) \/ ch \in {"-", "."}
ishex(ch) == isdigit(ch) \/ ch = "a"
white(ch) == ch \in {" ", "CR", "LF"}

NewUrl == [idx |-> "HostStart", len |-> 0, offhost |-> 0, hostlen |-> 0, port |-> 0, portlen |-> 0, ipv4 |-> FALSE,
           ipv6 |-> FALSE, offpath |-> 0, pathlen |-> 0, decoded |-> 0, qs |-> FALSE, complex |-> FALSE, er |-> "run"]

At(u, ch, idx) == [u EXCEPT !.idx = idx, !.len = @ + 1]
Again(u, idx) == [u EXCEPT !.idx = idx]
Er(u, er) == [u EXCEPT !.er = er]

(* One turn of the loop: the character ch at u.len, last the one before.   *)
path(u, ch, last) ==
    LET more(idx) == [At(u, ch, idx) EXCEPT !.decoded = @ + 1, !.pathlen = @ + 1,
                         !.complex = @ \/ ch = "%" \/ (ch \in {"/", "."} /\ last = "/")]
    IN  CASE ch = "%" -> more("Quoted1")
          [] ch = "?" -> At(u, ch, "Qs")
          [] white(ch) \/ ch = "#" -> Er(u, "STOP")
          [] OTHER -> more("Path")
pathStart(u, ch, last) ==
    IF ch # "/" THEN Er(u, "STOP") ELSE path([u EXCEPT !.offpath = u.len, !.idx = "Path"], ch, last)
port(u, ch) ==
    LET p == u.port * 10 + tonum(ch)
    IN  CASE ~isdigit(ch) -> Again(u, "PathStart")
          [] isdigit(ch) /\ p > MaxPort -> Er(u, "TOOLARGE")
          [] OTHER -> [At(u, ch, "Port") EXCEPT !.port = p, !.portlen = @ + 1]
afterHost(u, ch) ==
    IF ch = ":" THEN At(u, ch, IF u.offhost = 0 THEN "PortOrScheme" ELSE "Port") ELSE Again(u, "PathStart")
host(u, ch) ==
    CASE ishost(ch) /\ u.len - u.offhost > MaxHost -> Er(u, "TOOLARGE")
      [] ishost(ch) /\ u.len - u.offhost <= MaxHost ->
            [At(u, ch, "Host") EXCEPT !.hostlen = @ + 1, !.ipv4 = @ /\ (isdigit(ch) \/ ch = ".")]
      [] ~ishost(ch) /\ u.hostlen = 0 -> Er(u, "HOST")
      [] OTHER -> afterHost([u EXCEPT !.idx = "AfterHost"], ch)
hostStart(u, ch) ==
    CASE ch = "[" -> [At(u, ch, "Ip6") EXCEPT !.hostlen = @ + 1, !.ipv6 = TRUE]
      [] ch = "/" -> Again(u, "PathStart")
      [] OTHER -> host([u EXCEPT !.ipv4 = @ \/ isdigit(ch), !.idx = "Host"], ch)
ip6(u, ch) ==
    CASE u.len - u.offhost > MaxIp6 -> Er(u, "TOOLARGE")
      [] u.len - u.offhost <= MaxIp6 /\ ch = "]" -> [At(u, ch, "AfterHost") EXCEPT !.hostlen = @ + 1]
      [] u.len - u.offhost <= MaxIp6 /\ (ishex(ch) \/ ch \in {":", "%"}) -> [At(u, ch, "Ip6") EXCEPT !.hostlen = @ + 1]
      [] OTHER -> Er(u, "IP6")

urlStep(u, ch, last) ==
    CASE u.idx = "HostStart" -> hostStart(u, ch)
      [] u.idx = "Host" -> host(u, ch)
      [] u.idx = "Ip6" -> ip6(u, ch)
      [] u.idx = "AfterHost" -> afterHost(u, ch)
      [] u.idx = "PortOrScheme" -> IF ch = "/" THEN At(u, ch, "SchemeSlash2") ELSE port([u EXCEPT !.idx = "Port"], ch)
      [] u.idx = "SchemeSlash2" ->
            IF ch # "/" THEN Er(u, "SCHEME") ELSE [At(u, ch, "HostStart") EXCEPT !.hostlen = 0, !.offhost = u.len + 1]
      [] u.idx = "Port" -> port(u, ch)
      [] u.idx = "PathStart" -> pathStart(u, ch, last)
      [] u.idx = "Path" -> path(u, ch, last)
      [] u.idx \in {"Quoted1", "Quoted2"} ->
            IF ~ishex(ch) THEN Er(u, "PATH")
            ELSE [At(u, ch, IF u.idx = "Quoted1" THEN "Quoted2" ELSE "Path") EXCEPT !.pathlen = @ + 1]
      [] OTHER -> IF white(ch) \/ ch = "#" THEN Er(u, "STOP") ELSE [At(u, ch, "Qs") EXCEPT !.qs = TRUE]

(* The end of the loop.                                                    *)
urlEnd(u) ==
    LET ok == \/ u.idx = "Host" /\ u.hostlen # 0
              \/ u.idx = "Port" /\ u.portlen # 0
              \/ u.idx \in {"AfterHost", "Path", "Qs"}
    IN  Er(u, IF ok THEN "OK" ELSE "MORE")
urlFin(u) == [u EXCEPT !.offpath = IF u.er # "MORE" /\ u.idx \notin {"Path", "Qs"} THEN u.len ELSE @]

(* The loop over the text from base on, of which avail characters are      *)
(* there: one turn is one step.                                            *)
CharAt(i) == File.text[i + 1]
urlTurn(u, base, avail) ==
    IF base + u.len < avail
    THEN LET v == urlStep(u, CharAt(base + u.len), IF u.len = 0 THEN "none" ELSE CharAt(base + u.len - 1))
         IN  IF v.er = "run" THEN v ELSE urlFin(v)
    ELSE urlFin(urlEnd(u))

-----------------------------------------------------------------------------
UrlInit ==
    /\ \E f \in Files : w = Caller(f)
    /\ o = [Object EXCEPT !.ret = "MORE"] @@ [u |-> NewUrl]

ffurl_parse ==
    /\ o.ret = "run"
    /\ LET u == urlTurn(o.u, 0, Len(o.in))
       IN  o' = [o EXCEPT !.u = [u EXCEPT !.er = "run"], !.ret = u.er] /\ UNCHANGED w

(* The caller has more text, also when what it had was a URL by itself.    *)
FeedUrl ==
    /\ o.ret \in {"OK", "MORE"} /\ w.pos < File.size
    /\ \E n \in 1..(File.size - w.pos) :
         /\ o' = [o EXCEPT !.in = @ \o Bytes(w.pos, n), !.ret = "run"]
         /\ w' = [w EXCEPT !.pos = @ + n]
UrlNext == ffurl_parse \/ FeedUrl

(* What ffurl_get() takes as the parts of a URL are its parts: the scheme  *)
(* ends in "://", the host is one, the digits after its colon are the      *)
(* port, the path begins with a slash right behind, and the query follows. *)
Part(off, len) == SubSeq(File.text, off + 1, off + len)
PartsTrue ==
    o.ret \in {"OK", "STOP"} =>
        LET u == o.u
            end == u.offhost + u.hostlen
            colon == end < u.len /\ CharAt(end) = ":"
        IN  /\ u.offhost # 0 => Part(u.offhost - 3, 3) = <<":", "/", "/">> /\ \A i \in 0..(u.offhost - 4) : ishost(CharAt(i))
            /\ ~u.ipv6 => \A i \in u.offhost..(end - 1) : ishost(CharAt(i))
            /\ u.ipv6 => CharAt(u.offhost) = "[" /\ CharAt(end - 1) = "]"
            /\ u.ipv4 => \A i \in u.offhost..(end - 1) : isdigit(CharAt(i)) \/ CharAt(i) = "."
            /\ \A i \in 1..u.portlen : isdigit(CharAt(end + i))
            /\ u.offpath = end + (IF colon THEN 1 + u.portlen ELSE 0)
            /\ u.pathlen > 0 => CharAt(u.offpath) = "/" /\ \A i \in 0..(u.pathlen - 1) : CharAt(u.offpath + i) # "?"
            /\ u.len = u.offpath + u.pathlen \/ CharAt(u.offpath + u.pathlen) = "?"

-----------------------------------------------------------------------------
(* Addresses.  ffip6_tostr() cuts the longest run of zeros; a group is a   *)
(* token of the text, and so is a colon.                                   *)
ZeroRuns(a) == {<<i, j>> \in (DOMAIN a) \X (DOMAIN a) : i <= j /\ \A k \in i..j : a[k] = "0"}
LongestRun(a) ==
    LET longest == {r \in ZeroRuns(a) : \A q \in ZeroRuns(a) : r[2] - r[1] >= q[2] - q[1]}
    IN  CHOOSE r \in longest : \A q \in longest : r[1] <= q[1]
joined(g, first) == FlattenSeq([k \in DOMAIN g |-> IF k = 1 /\ first THEN <<g[k]>> ELSE <<":", g[k]>>])
ffip6_tostr(a) ==
    IF ZeroRuns(a) = {} THEN joined(a, TRUE)
    ELSE LET r == LongestRun(a)
         IN  joined(SubSeq(a, 1, r[1] - 1), TRUE) \o <<":">>
             \o (IF r[2] = Len(a) THEN <<":">> ELSE joined(SubSeq(a, r[2] + 1, Len(a)), FALSE))

(* ffip6_parse() of a text of groups and colons into n groups.  At "::" it *)
(* counts the groups behind it and fills up with zeros to there; a text    *)
(* with more groups than fit is none of ffip6_tostr()'s and not modelled.  *)
Bad == <<"bad">>
zerosTo(t, i, n) == n - (IF i # Len(t) THEN 1 ELSE 0) - Cardinality({k \in (i + 1)..Len(t) : t[k] = ":"})
fill(dst, n) == dst \o [k \in 1..(n - Len(dst)) |-> "0"]
ip6Token(t, n, p, i) ==
    CASE p.dst = Bad -> p
      [] p.dst # Bad /\ Len(p.dst) = n -> [p EXCEPT !.dst = Bad]
      [] p.dst # Bad /\ Len(p.dst) # n /\ t[i] # ":" -> [p EXCEPT !.chunk = t[i]]
      [] p.dst # Bad /\ Len(p.dst) # n /\ t[i] = ":" /\ p.chunk # "none" ->
            [p EXCEPT !.dst = Append(@, p.chunk), !.chunk = "none"]
      [] OTHER -> CASE i = 1 -> IF Len(t) > 1 /\ t[2] = ":" THEN p ELSE [p EXCEPT !.dst = Bad]
                    [] i # 1 /\ p.zr -> [p EXCEPT !.dst = Bad]
                    [] OTHER -> [p EXCEPT !.zr = TRUE, !.dst = fill(@, zerosTo(t, i, n))]
ip6End(p, n) ==
    LET dst == IF p.dst # Bad /\ p.chunk # "none" THEN Append(p.dst, p.chunk) ELSE p.dst
    IN  IF Len(dst) # n THEN Bad ELSE dst
ffip6_parse(t, n) ==
    ip6End(FoldLeftDomain(LAMBDA p, i : ip6Token(t, n, p, i), [dst |-> <<>>, chunk |-> "none", zr |-> FALSE], t), n)

-----------------------------------------------------------------------------
(* Paths.  ffpath_norm() with FFPATH_MERGESLASH | FFPATH_MERGEDOTS (flags  *)
(* = 0) on the names of a path; the first one is empty if it is absolute.  *)
up(dst) == IF dst \in {<<>>, <<"">>} THEN dst ELSE Front(dst)
normName(names, strict, p, i) ==
    LET abs == names[1] = ""
        name == names[i]
    IN  CASE p.fail -> p
          [] ~p.fail /\ (name = "." \/ (name = "" /\ i > 1)) -> p
          [] ~p.fail /\ name = ".." /\ strict /\ p.lev = 0 -> [p EXCEPT !.fail = TRUE]
          [] ~p.fail /\ name = ".." /\ ~strict /\ p.lev <= 0 ->
                IF abs THEN [p EXCEPT !.lev = 0] ELSE [p EXCEPT !.lev = @ - 1, !.dst = Append(@, name)]
          [] ~p.fail /\ name = ".." /\ p.lev > 0 -> [p EXCEPT !.lev = @ - 1, !.dst = up(@)]
          [] OTHER -> [p EXCEPT !.dst = Append(@, name), !.lev = IF abs /\ i = 1 THEN @ ELSE @ + 1]
ffpath_norm(names, strict) ==
    LET p == FoldLeftDomain(LAMBDA q, i : normName(names, strict, q, i), [dst |-> <<>>, lev |-> 0, fail |-> FALSE], names)
    IN  IF p.fail THEN Bad ELSE p.dst

(* Quoting: the characters that ffuri_escape() replaces by "%" and two     *)
(* hexadecimal digits, and ffuri_decode(), which refuses a quoted zero.    *)
Code == (" " :> <<"2", "0">>) @@ ("#" :> <<"2", "3">>) @@ ("%" :> <<"2", "5">>) @@ ("?" :> <<"3", "F">>)
Decoded(digits) == IF \E c \in DOMAIN Code : Code[c] = digits THEN CHOOSE c \in DOMAIN Code : Code[c] = digits ELSE "x"
ishexDigit(c) == c \in {"0", "2", "3", "5", "F"}
ffuri_escape(t) == FlattenSeq([k \in DOMAIN t |-> IF t[k] \in DOMAIN Code THEN <<"%">> \o Code[t[k]] ELSE <<t[k]>>])
decodeChar(p, ch) ==
    CASE p.dst = Bad -> p
      [] p.dst # Bad /\ p.idx = "Uri" -> IF ch = "%" THEN [p EXCEPT !.idx = "Quoted1"] ELSE [p EXCEPT !.dst = Append(@, ch)]
      [] p.dst # Bad /\ p.idx # "Uri" /\ ~ishexDigit(ch) -> [p EXCEPT !.dst = Bad]
      [] p.dst # Bad /\ p.idx = "Quoted1" /\ ishexDigit(ch) -> [p EXCEPT !.b = ch, !.idx = "Quoted2"]
      [] OTHER -> IF <<p.b, ch>> = <<"0", "0">> THEN [p EXCEPT !.dst = Bad]
                  ELSE [p EXCEPT !.dst = Append(@, Decoded(<<p.b, ch>>)), !.idx = "Uri"]
ffuri_decode(t) ==
    LET p == FoldLeft(decodeChar, [dst |-> <<>>, idx |-> "Uri", b |-> "0"], t)
    IN  IF p.idx # "Uri" \/ p.dst = <<>> THEN Bad ELSE p.dst

-----------------------------------------------------------------------------
(* What the conversions are for, each on its own inputs (File.kind).       *)
Converted(f) ==
    CASE f.kind = "ip6" -> ffip6_parse(ffip6_tostr(f.text), Len(f.text))
      [] f.kind = "uri" -> ffuri_decode(ffuri_escape(f.text))
      [] f.kind = "path" -> ffpath_norm(f.text, FALSE)
      [] f.kind = "strict" -> ffpath_norm(f.text, TRUE)
ConvInit ==
    /\ \E f \in Files : w = Caller(f)
    /\ o = Object
Convert == o.ret = "run" /\ o' = [o EXCEPT !.ret = "DONE", !.buf = Converted(File)] /\ UNCHANGED w

(* Where a path leads from a directory: the names below the root.          *)
Lead(from, names) ==
    FoldLeft(LAMBDA at, name : CASE name \in {"", "."} \/ (name = ".." /\ at = <<>>) -> at
                                 [] name = ".." /\ at # <<>> -> Front(at)
                                 [] OTHER -> Append(at, name),
             IF names # <<>> /\ names[1] = "" THEN <<>> ELSE from, names)
(* A path that leaves the directory it starts in at some name.             *)
Leaves(names) == \E n \in DOMAIN names : Lead(<<"here">>, SelectSeq(SubSeq(names, 1, n), LAMBDA x : x # "")) = <<>>

(* An address is read back from its text and a text from its quoted form;  *)
(* a normal path leads where the path did, holds no "." or "//" and goes   *)
(* up only at its begin; with FFPATH_STRICT_BOUNDS a path that leaves its  *)
(* directory on the way is refused.                                        *)
ConversionTrue ==
    o.ret = "DONE" =>
        CASE File.kind \in {"ip6", "uri"} -> o.buf = File.text
          [] File.kind = "path" ->
                /\ Lead(<<"x", "y", "z", "t">>, o.buf) = Lead(<<"x", "y", "z", "t">>, File.text)
                /\ ffpath_norm(o.buf, FALSE) = o.buf
                /\ File.text[1] = "" => ".." \notin ToSet(o.buf)
          [] OTHER -> (o.buf = Bad) <=> Leaves(File.text)

-----------------------------------------------------------------------------
NewParse == [idx |-> "Key", i |-> 0, er |-> "run", koff |-> 0, klen |-> 0, voff |-> 0, vlen |-> 0, line |-> 0,
             method |-> 0, std |-> TRUE, offurl |-> 0, u |-> NewUrl, ver |-> <<0, 0>>, vdigits |-> 0, voffset |-> 0,
             close |-> FALSE, code |-> 0, text |-> 0]
On(p, idx) == [p EXCEPT !.idx = idx, !.i = @ + 1]
Stay(p, idx) == [p EXCEPT !.idx = idx]
Fail(p, er) == [p EXCEPT !.er = er]
Line(p, er) == [On(p, "Key") EXCEPT !.er = er, !.line = p.i + 1]

-----------------------------------------------------------------------------
(* ffhttp_nexthdr().                                                       *)
keyStart(q, ch) ==
    CASE ch = "CR" -> [On(q, "LastLf") EXCEPT !.klen = 0]
      [] ch = "LF" -> [Line(q, "DONE") EXCEPT !.klen = 0]
      [] ch \notin {"CR", "LF"} /\ ~isname(ch) -> Fail(q, "EHDRKEY")
      [] OTHER -> Stay(q, "KeyData")
keyData(p, ch) ==
    CASE ch = ":" -> [On(p, "SpaceBeforeVal") EXCEPT !.klen = p.i - p.koff]
      [] ch \in {"CR", "LF"} -> Fail(p, "ENOVAL")
      [] isname(ch) \/ ch = "-" -> On(p, "KeyData")
      [] OTHER -> Fail(p, "EHDRKEY")
val(p, ch) ==
    LET q == [p EXCEPT !.vlen = p.i - p.voff]
    IN  CASE ch = " " -> On(q, "SpaceAfterVal")
          [] ch = "CR" -> On(q, "LastLf")
          [] ch = "LF" -> Line(q, "OK")
          [] OTHER -> On(p, "Val")
spaceAfterValKeep(p, ch) ==
    CASE ch = " " -> On(p, p.idx)
      [] ch = "CR" -> On(p, "LastLf")
      [] ch = "LF" -> Line(p, "OK")
      [] OTHER -> On(p, p.idx)
spaceAfterVal(p, ch) ==
    CASE ch = " " -> On(p, p.idx)
      [] ch = "CR" -> On(p, "LastLf")
      [] ch = "LF" -> Line(p, "OK")
      [] OTHER -> [On(p, "Val") EXCEPT !.vlen = p.i]
nexthdr(p, ch) ==
    CASE p.idx = "Key" -> keyStart([p EXCEPT !.koff = p.i], ch)
      [] p.idx = "KeyData" -> keyData(p, ch)
      [] p.idx = "SpaceBeforeVal" ->
            IF ch = " " THEN On(p, p.idx) ELSE val([p EXCEPT !.voff = p.i, !.idx = "Val"], ch)
      [] p.idx = "Val" -> val(p, ch)
      [] p.idx = "SpaceAfterVal" -> spaceAfterVal(p, ch)
      [] p.idx = "LastLf" -> IF ch # "LF" THEN Fail(p, "EEOL") ELSE Line(p, IF p.klen = 0 THEN "DONE" ELSE "OK")

-----------------------------------------------------------------------------
(* parseVer(): what it leaves in the version when it is done.              *)
VerChar == [H |-> "T", HT |-> "T", HTT |-> "P", HTTP |-> "/"]
VerNext == [H |-> "HT", HT |-> "HTT", HTT |-> "HTTP", HTTP |-> "MajVer"]
VerStates == DOMAIN VerNext \cup {"MajVer", "MinVerFirst", "MinVer"}
digit(p, k, ch, idx) ==
    LET v == p.ver[k] * 10 + tonum(ch)
    IN  IF v > 255 THEN Fail(p, "EVERSION") ELSE [On(p, idx) EXCEPT !.ver[k] = v]
Http11(p) == p.ver[1] > 1 \/ (p.ver[1] = 1 /\ p.ver[2] >= 1)
parseVer(p, ch) ==
    CASE p.idx \in DOMAIN VerNext -> IF ch # VerChar[p.idx] THEN Fail(p, "EVERSION") ELSE On(p, VerNext[p.idx])
      [] p.idx = "MajVer" /\ ~isdigit(ch) -> IF ch = "." THEN On(p, "MinVerFirst") ELSE Fail(p, "EVERSION")
      [] p.idx = "MajVer" /\ isdigit(ch) -> digit(p, 1, ch, "MajVer")
      [] p.idx # "MajVer" /\ isdigit(ch) -> digit(p, 2, ch, "MinVer")
      [] p.idx = "MinVerFirst" /\ ~isdigit(ch) -> Fail(p, "EVERSION")
      [] OTHER -> [Stay(p, "SpaceAfterHttpVer") EXCEPT !.close = ~Http11(p)]

(* ffhttp_req_line(): ffurl_parse() gets all there is of the URL; until it *)
(* has seen its end the position stays on the last character.              *)
StdMethod(name) == Len(name) = 1
urlLoop(p, avail) ==
    FoldLeft(LAMBDA u, n : IF u.er = "run" THEN urlTurn(u, p.offurl, avail) ELSE u, p.u, [n \in 1..(2 * avail + 2) |-> n])
afterUrl(p, u) ==
    LET i == p.offurl + u.len
        ch == CharAt(i)
        q == [p EXCEPT !.u = u, !.i = i]
        noScheme == u.hostlen # 0 /\ u.offhost = 0
    IN  CASE u.er # "STOP" -> Fail(q, "EURLPARSE")
          [] u.er = "STOP" /\ noScheme -> Fail(q, "ESCHEME")
          [] u.er = "STOP" /\ ~noScheme /\ ch \in {"CR", "LF"} -> Fail(q, "EVERSION")
          [] u.er = "STOP" /\ ~noScheme /\ ch \in {"#", " "} /\ (u.complex => File.decodes) ->
                On(q, IF ch = " " THEN "AfterUri" ELSE "SharpSkip")
          [] OTHER -> Fail(q, "EURI")
uri(p, avail) ==
    LET u == urlLoop(p, avail)
    IN  IF u.er \in {"OK", "MORE"} THEN [p EXCEPT !.u = [u EXCEPT !.er = "run"], !.i = avail - 1, !.er = "MORE"] ELSE afterUrl(p, u)
endOfLine(p, ch) ==
    CASE ch = " " -> On(p, p.idx)
      [] ch = "CR" -> On(p, "LineLf")
      [] ch = "LF" -> Line(p, "LINE")
      [] OTHER -> Fail(p, "EVERSION")
lineLf(p, ch) == IF ch # "LF" THEN Fail(p, "EEOL") ELSE Line(p, "LINE")
req_line(p, ch, avail) ==
    CASE p.idx = "Method" ->
            CASE ch = " " -> [On(p, "BeforeUri") EXCEPT !.method = p.i, !.std = StdMethod(SubSeq(File.text, 1, p.i))]
              [] ch # " " /\ ~isname(ch) -> Fail(p, "EMETHOD")
              [] OTHER -> IF p.i > MaxHost THEN Fail(p, "EMETHOD") ELSE On(p, p.idx)
      [] p.idx = "BeforeUri" ->
            CASE ch = " " -> On(p, p.idx)
              [] ch # " " /\ ~p.std -> [On(p, "NonStdUri") EXCEPT !.u.offpath = p.i]
              [] OTHER -> [Stay(p, "URL") EXCEPT !.offurl = p.i]
      [] p.idx = "URL" -> uri(p, avail)
      [] p.idx = "SharpSkip" -> On(p, IF ch = " " THEN "AfterUri" ELSE p.idx)
      [] p.idx = "NonStdUri" -> IF ch = " " THEN [On(p, "AfterUri") EXCEPT !.u.pathlen = p.i - p.u.offpath] ELSE On(p, p.idx)
      [] p.idx = "AfterUri" ->
            CASE ch = " " -> On(p, p.idx)
              [] ch = "H" -> [On(p, "H") EXCEPT !.voffset = p.i]
              [] OTHER -> Fail(p, "EVERSION")
      [] p.idx \in VerStates -> parseVer(p, ch)
      [] p.idx = "SpaceAfterHttpVer" -> endOfLine(p, ch)
      [] p.idx = "LineLf" -> lineLf(p, ch)

(* ffhttp_resp_line(), without FFHTTP_IGN_STATUS_PROTO.  A line end where  *)
(* none is due is an error after the character was handled.                *)
code(q, ch) ==
    LET t == q.code * 10 + tonum(ch)
    IN  CASE isdigit(ch) -> IF t > 999 THEN Fail(q, "ESTATUS") ELSE [On(q, "Code") EXCEPT !.code = t]
          [] ch = " " /\ q.code >= 100 -> [On(q, "StatusStr") EXCEPT !.text = q.i + 1]
          [] OTHER -> Fail(q, "ESTATUS")
respChar(p, ch) ==
    CASE p.idx = "RespStart" -> IF ch # "H" THEN Fail(p, "EVERSION") ELSE On(p, "H")
      [] p.idx = "SpaceAfterHttpVer" -> IF ch = " " THEN On(p, p.idx) ELSE code([p EXCEPT !.idx = "Code", !.voff = p.i], ch)
      [] p.idx = "Code" -> code(p, ch)
      [] p.idx = "StatusStr" ->
            CASE ch = "CR" -> [On(p, "LineLf") EXCEPT !.vlen = p.i - p.voff]
              [] ch = "LF" -> [Line(p, "LINE") EXCEPT !.vlen = p.i - p.voff]
              [] OTHER -> On(p, p.idx)
      [] p.idx = "LineLf" -> lineLf(p, ch)
      [] p.idx \in VerStates -> parseVer(p, ch)
resp_line(p, ch) ==
    LET q == respChar(p, ch)
    IN  IF q.er = "run" /\ ch = "LF" THEN Fail(q, "ESTATUS") ELSE q

-----------------------------------------------------------------------------
(* The three loops and their caller: the first line, then the headers      *)
(* until the empty one.                                                    *)
Turn(p, avail) ==
    CASE p.i < avail /\ p.idx \in {"Key", "KeyData", "SpaceBeforeVal", "Val", "SpaceAfterVal", "LastLf"} -> nexthdr(p, CharAt(p.i))
      [] p.i < avail /\ p.idx \notin {"Key", "KeyData", "SpaceBeforeVal", "Val", "SpaceAfterVal", "LastLf"} ->
            IF File.kind = "req" THEN req_line(p, CharAt(p.i), avail) ELSE resp_line(p, CharAt(p.i))
      [] p.i >= avail -> Fail(p, IF p.i = MaxLine THEN "ETOOLARGE" ELSE "MORE")

ParseInit ==
    /\ \E f \in Files : /\ w = Caller(f)
                        /\ o = [Object EXCEPT !.ret = "MORE"] @@
                                   [p |-> [NewParse EXCEPT !.idx = CASE f.kind = "hdr" -> "Key" [] f.kind = "req" -> "Method" [] OTHER -> "RespStart"]]
Parse ==
    /\ o.ret = "run"
    /\ LET p == Turn(o.p, Min({Len(o.in), MaxLine}))
           hdr == <<p.koff, p.klen, p.voff, p.vlen>>
       IN  /\ o' = [o EXCEPT !.p = [p EXCEPT !.er = "run"], !.ret = p.er]
           /\ w' = IF p.er = "OK" THEN [w EXCEPT !.out = Append(@, hdr)] ELSE w
More ==
    /\ o.ret = "MORE" /\ w.pos < File.size
    /\ \E n \in 1..Min({MaxPiece, File.size - w.pos}) :
         /\ o' = [o EXCEPT !.in = @ \o Bytes(w.pos, n), !.ret = "run"]
         /\ w' = [w EXCEPT !.pos = @ + n]
ParseNext == Parse \/ More \/ Call({"OK", "LINE"})

-----------------------------------------------------------------------------
(* The lines of the text, by the offsets of their first character and of   *)
(* the line feed, and what a header line says.                             *)
LineEnds == {i \in 0..(File.size - 1) : CharAt(i) = "LF"}
LineStart(e) == Max({0} \cup {i + 1 : i \in {k \in LineEnds : k < e}})
HeaderLines == {e \in LineEnds : e > (IF File.kind = "hdr" THEN -1 ELSE Min(LineEnds))}
Chomp(t) == IF t # <<>> /\ Last(t) = "CR" THEN Front(t) ELSE t
LineText(e) == Chomp(Part(LineStart(e), e - LineStart(e)))
Empty(e) == LineText(e) = <<>>
Trim(t) ==
    LET k == {i \in DOMAIN t : t[i] # " "}
    IN  IF k = {} THEN <<>> ELSE SubSeq(t, Min(k), Max(k))
KeyOf(t) == SubSeq(t, 1, Min({i \in DOMAIN t : t[i] = ":"}) - 1)
ValOf(t) == Trim(SubSeq(t, Min({i \in DOMAIN t : t[i] = ":"}) + 1, Len(t)))

(* The headers that ffhttp_nexthdr() returns are those of the lines, in    *)
(* their order, with the blanks around the value cut off; at the end they  *)
(* are all there are before the empty line.                                *)
HeadersTrue ==
    LET lines == SetToSortSeq(HeaderLines, <)
    IN  /\ \A k \in DOMAIN w.out :
              LET h == w.out[k]
              IN  /\ ~Empty(lines[k]) /\ Part(h[1], h[2]) = KeyOf(LineText(lines[k]))
                  /\ Part(h[3], h[4]) = ValOf(LineText(lines[k]))
        /\ o.ret = "DONE" => /\ Empty(lines[Len(w.out) + 1])
                             /\ o.p.i = lines[Len(w.out) + 1] + 1

Number(t) == FoldLeft(LAMBDA n, ch : 10 * n + tonum(ch), 0, t)
(* The first line: the method ends at the first blank, the path is where   *)
(* the URL says, the version and the status are the ones in the text and   *)
(* the next line begins behind it.                                         *)
LineTrue ==
    o.ret = "LINE" =>
        LET p == o.p
            t == LineText(Min(LineEnds))
            slash == Min({i \in DOMAIN t : t[i] = "/" /\ i > 4 /\ SubSeq(t, i - 4, i - 1) = <<"H", "T", "T", "P">>})
            dot == Min({i \in DOMAIN t : i > slash /\ t[i] = "."})
            minor == {i \in (dot + 1)..Len(t) : \A k \in (dot + 1)..i : isdigit(t[k])}
            ver == <<Number(SubSeq(t, slash + 1, dot - 1)), Number(SubSeq(t, dot + 1, Max(minor)))>>
        IN  /\ p.line = Min(LineEnds) + 1
            /\ p.ver = ver /\ p.close = (ver[1] = 0 \/ ver = <<1, 0>>)
            /\ File.kind = "req" =>
                  /\ \A i \in 1..p.method : t[i] # " "
                  /\ t[p.method + 1] = " "
                  /\ p.std => Part(p.offurl + p.u.offpath, 1) = <<"/">>
                  /\ p.voffset = slash - 5
            /\ File.kind = "resp" => p.code = Number(Part(p.voff, 3)) /\ p.vlen = Len(t) - p.voff

(* How the text comes in pieces does not matter: the outcome is that of    *)
(* the parser which has all of it at once.                                 *)
WholeTurn(p) == IF p.er \in {"run", "OK", "LINE"} THEN Turn([p EXCEPT !.er = "run"], Min({File.size, MaxLine})) ELSE p
PiecesDoNotMatter ==
    o.ret \notin {"run", "MORE", "OK", "LINE"} =>
        LET start == [NewParse EXCEPT !.idx = CASE File.kind = "hdr" -> "Key" [] File.kind = "req" -> "Method" [] OTHER -> "RespStart"]
            whole == FoldLeft(LAMBDA p, n : WholeTurn(p), start, [n \in 1..(2 * File.size + 2) |-> n])
        IN  o.ret = whole.er /\ [o.p EXCEPT !.er = whole.er] = whole

-----------------------------------------------------------------------------
(* What the headers mean: ffhttp_parsehdr() and ffhttp_respparsehdr() on   *)
(* the headers one by one (File.frames): the name, the value and, as a     *)
(* number, len (NoDigits if the value is empty, NotNumber if it is none).  *)
NoDigits == -1
NotNumber == -2
NewHeaders == [cont_len |-> -1, has_body |-> FALSE, chunked |-> FALSE, conn_close |-> FALSE, body_conn_close |-> FALSE,
               gzip |-> FALSE, identity |-> TRUE]
connection(h, v) ==
    CASE File.http11 /\ "close" \in ToSet(v) -> [h EXCEPT !.conn_close = TRUE]
      [] ~File.http11 /\ "keep-alive" \in ToSet(v) -> [h EXCEPT !.conn_close = FALSE]
      [] OTHER -> h
contentLength(h, len) ==     \* ffs_toint() stores nothing for an empty value, which is not refused
    CASE len = NotNumber -> h
      [] len = NoDigits -> [h EXCEPT !.has_body = TRUE]
      [] OTHER -> [h EXCEPT !.cont_len = len, !.has_body = len # 0]
HeadersInit ==
    /\ \E f \in Files : /\ w = Caller(f)
                        /\ o = Object @@ [h |-> [NewHeaders EXCEPT !.conn_close = ~f.http11]]
NextHdr == File.frames[w.pos + 1]
Taken(h, ret) == o' = [o EXCEPT !.h = h, !.ret = ret] /\ w' = [w EXCEPT !.pos = @ + 1]
ParseHdr ==
    /\ o.ret = "run" /\ w.pos < Len(File.frames)
    /\ \/ NextHdr.name = "Connection" /\ Taken(connection(o.h, NextHdr.val), "run")
       \/ NextHdr.name = "Content-Length" /\ o.h.cont_len # -1 /\ Taken(o.h, "EDUPHDR")
       \/ NextHdr.name = "Content-Length" /\ o.h.cont_len = -1 /\ o.h.has_body /\ Taken(o.h, "run")
       \/ NextHdr.name = "Content-Length" /\ o.h.cont_len = -1 /\ ~o.h.has_body
             /\ Taken(contentLength(o.h, NextHdr.len), IF NextHdr.len = NotNumber THEN "EHDRVAL" ELSE "run")
       \/ NextHdr.name = "Content-Encoding"
             /\ Taken([o.h EXCEPT !.gzip = NextHdr.val = <<"gzip">>, !.identity = NextHdr.val = <<"identity">>], "run")
       \/ NextHdr.name = "Transfer-Encoding"
             /\ Taken([o.h EXCEPT !.chunked = @ \/ NextHdr.val = <<"chunked">>, !.has_body = TRUE, !.cont_len = -1], "run")
untilClose(h) == [h EXCEPT !.has_body = TRUE, !.body_conn_close = TRUE]
HeadersDone ==
    /\ o.ret = "run" /\ w.pos = Len(File.frames)
    /\ UNCHANGED w
    /\ o' = [o EXCEPT !.ret = "DONE",
                      !.h = CASE File.nobody -> [o.h EXCEPT !.has_body = FALSE]
                              [] ~File.nobody /\ ~o.h.has_body /\ o.h.cont_len = -1 -> untilClose(o.h)
                              [] OTHER -> o.h]
HeadersNext == ParseHdr \/ HeadersDone

(* The filters of which ffhttp-client.c opens the first that wants to.     *)
FilterOf(h) ==
    CASE h.chunked -> "chunked"
      [] ~h.chunked /\ h.cont_len # -1 -> "contlen"
      [] ~h.chunked /\ h.cont_len = -1 /\ h.body_conn_close -> "connclose"
      [] OTHER -> "none"
Named(name) == {k \in DOMAIN File.frames : File.frames[k].name = name}
Lengths == {File.frames[k].len : k \in Named("Content-Length")}

(* The end of the body is found as the headers say: chunked wins over any  *)
(* length, a length over the end of the connection, and only a response    *)
(* without either is read until the connection is closed.  A response with *)
(* a Transfer-Encoding that is not chunked, or with a Content-Length that  *)
(* has no digits, has a body that no filter is for.                        *)
Chunked == \E k \in Named("Transfer-Encoding") : File.frames[k].val = <<"chunked">>
Unframed == ~Chunked /\ (Named("Transfer-Encoding") # {} \/ NoDigits \in Lengths)
Framed(filter) ==
    CASE Chunked -> filter = "chunked"
      [] Unframed -> filter = "none" /\ o.h.has_body
      [] ~Chunked /\ ~Unframed /\ Lengths # {} -> filter = "contlen" /\ o.h.cont_len \in Lengths
      [] OTHER -> filter = "connclose"
FramingTrue == o.ret = "DONE" /\ ~File.nobody => Framed(FilterOf(o.h))

-----------------------------------------------------------------------------
(* ffhttp_chunkparse() in the body filter http_chunked_process(), a        *)
(* character at a time.  Sizes are hexadecimal and wrap at ChunkWrap: only  *)
(* one whose top bit is set may not have another digit.  The text has the  *)
(* digits "0" and "1".                                                     *)
ChunkInit ==
    /\ \E f \in Files : w = Caller(f)
    /\ o = [Object EXCEPT !.st = "Start", !.ret = "MORE"] @@ [cursiz |-> 0, last |-> FALSE]
Char == File.text[Head(o.in) + 1]
InChunk(st) == In(st) /\ o.in # <<>>

chnk_size(cursiz, ch) == (cursiz * 16 + tonum(ch)) % ChunkWrap
afterSize(ch) ==
    CASE ch = "CR" -> "BeforeDataLF"
      [] ch = "LF" -> "Data"
      [] ch \in {";", " "} -> "Ext"
      [] OTHER -> "bad"
lineEnd(cr, lf, other) == [x \in {"CR", "LF", "a", "0", "1", ";", " "} |-> CASE x = "CR" -> cr [] x = "LF" -> lf [] OTHER -> other]
Goes ==
    [Ext |-> lineEnd("BeforeDataLF", "Data", "Ext"), BeforeDataLF |-> lineEnd("bad", "Data", "bad"),
     AfterData |-> lineEnd("AfterDataLF", "Start", "bad"), AfterDataLF |-> lineEnd("bad", "Start", "bad"),
     TrlStart |-> lineEnd("TrlLF", "DONE", "TrlHdr"), TrlLF |-> lineEnd("bad", "DONE", "bad"),
     TrlHdr |-> lineEnd("TrlHdrLF", "TrlStart", "TrlHdr"), TrlHdrLF |-> lineEnd("bad", "TrlStart", "bad")]
Follow(oo, st) ==
    CASE st = "bad" -> Ret("ECHUNKED", oo)
      [] st = "DONE" -> Ret("DONE", [oo EXCEPT !.in = Tail(@), !.st = "TrlStart"])
      [] OTHER -> Go([oo EXCEPT !.in = Tail(@), !.st = st])

ChunkStart == InChunk("Start") /\ IF ~isdigit(Char) THEN Ret("ECHUNKED", o)
                                  ELSE Go([o EXCEPT !.cursiz = tonum(Char), !.last = FALSE, !.st = "Size", !.in = Tail(@)])
ChunkSize ==
    /\ InChunk("Size")
    /\ CASE isdigit(Char) /\ 2 * o.cursiz >= ChunkWrap -> Ret("ECHUNKED", o)
         [] isdigit(Char) /\ 2 * o.cursiz < ChunkWrap -> Go([o EXCEPT !.cursiz = chnk_size(@, Char), !.in = Tail(@)])
         [] OTHER -> Follow([o EXCEPT !.last = @ \/ o.cursiz = 0], afterSize(Char))
ChunkLine == \E st \in DOMAIN Goes : InChunk(st) /\ Follow(o, Goes[st][Char])
ChunkData ==
    /\ InChunk("Data")
    /\ LET n == Min({o.cursiz, Len(o.in)})
       IN CASE o.last -> Goto("TrlStart")
            [] ~o.last /\ o.cursiz # 0 ->
                  /\ o' = [o EXCEPT !.cursiz = @ - n, !.in = Shift(@, n), !.ret = "OK"]
                  /\ w' = [w EXCEPT !.out = @ \o SubSeq(o.in, 1, n)]
            [] OTHER -> Follow(o, Goes.AfterData[Char])
ChunkEnd == o.ret = "run" /\ o.in = <<>> /\ Ret("MORE", o)
Chunk == ChunkStart \/ ChunkSize \/ ChunkLine \/ ChunkData \/ ChunkEnd
ChunkNext == Chunk \/ Feed \/ Call({"OK"})

-----------------------------------------------------------------------------
(* ffhttp_range(): <<begin, end>> of "begin-end"; -1 is a missing number.  *)
(* The offset and the size of the range in a document of size bytes.       *)
ffhttp_range(r, size) ==
    CASE r[1] = -1 -> IF r[2] = 0 THEN <<-1, size>> ELSE <<size - Min({r[2], size}), Min({r[2], size})>>
      [] r[1] >= size -> <<-1, size>>
      [] r[1] # -1 /\ r[1] < size /\ r[2] = -1 -> <<r[1], size - r[1]>>
      [] OTHER -> <<r[1], IF r[2] + r[1] >= size THEN size - r[1] ELSE (r[2] - r[1] + 1) % ChunkWrap>>
RangeInit == (\E f \in Files : w = Caller(f)) /\ o = Object
Range1 == o.ret = "run" /\ o' = [o EXCEPT !.ret = "DONE", !.buf = ffhttp_range(File.range, File.size)] /\ UNCHANGED w

(* A range holds the bytes from its first to its last one, as far as the   *)
(* document has them.  But it goes on to the end of the document if its    *)
(* bounds together are not below the size, and if it ends two or more      *)
(* before it begins its size wraps.                                        *)
RangeTrue ==
    o.ret = "DONE" /\ o.buf[1] # -1 =>
        LET first == File.range[1]
            last == File.range[2]
            both == first # -1 /\ last # -1
            bytes == IF first = -1 THEN (File.size - last)..(File.size - 1)
                     ELSE first..(IF ~both \/ first + last >= File.size THEN File.size ELSE last)
        IN  IF both /\ first + last < File.size /\ last + 1 < first THEN o.buf[2] > File.size
            ELSE o.buf[1]..(o.buf[1] + o.buf[2] - 1) = bytes \cap 0..(File.size - 1)
=============================================================================
