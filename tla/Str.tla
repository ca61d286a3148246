-------------------------------- MODULE Str --------------------------------
(***************************************************************************)
(* Strings, numbers and arrays (FF/ffstring.c, FF/ffarray.c,               *)
(* FF/ffnumber.c): splitting, comparing versions, wildcards, numbers to    *)
(* text and back, formatted output into a buffer that grows, matching by a *)
(* format, sorting and searching sorted arrays.                            *)
(*                                                                         *)
(* A text is a sequence of character codes.  q is the call under way: its  *)
(* arguments, its local variables and, at the end, what it returned.       *)
(***************************************************************************)
EXTENDS Integers, Sequences, FiniteSetsExt, SequencesExt

CONSTANTS Texts,      \* texts to split
          Splits,     \* how to split them: [spl, white, words, keep, quot, rev]
          Versions,   \* texts to compare as versions
          Patterns,   \* wildcard patterns
          Names,      \* names to match with them
          Word,       \* bits of the widest integer
          Formats,    \* format strings: sequences of directives
          Caps,       \* how much a buffer has and how much of it is used
          Arrays,     \* arrays to sort
          Sizes,      \* element sizes
          CacheLine   \* elements that are sorted by insertion

VARIABLE q

Char == [sp |-> 32, tab |-> 9, quot |-> 34, star |-> 42, plus |-> 43, comma |-> 44, minus |-> 45, dot |-> 46,
         zero |-> 48, any |-> 63, A |-> 65, a |-> 97, e |-> 101, x |-> 120, bslash |-> 92]
isdigit(c) == c \in 48..57
isup(c) == c \in 65..90
islow(c) == c \in 97..122
lower(c) == IF isup(c) THEN c + 32 ELSE c
upper(c) == IF islow(c) THEN c - 32 ELSE c
tohex(c) == CASE isdigit(c) -> c - 48 [] lower(c) \in 97..102 -> lower(c) - 87 [] OTHER -> -1

-----------------------------------------------------------------------------
(* Searching.  Offsets count from 0, as in the code.                       *)
cut(s, from, to) == SubSeq(s, from + 1, to)
skipof(s, from, to, W) == Min({k \in from..to : k = to \/ s[k + 1] \notin W})
rskipof(s, from, to, W) == Max({k \in from..to : k = from \/ s[k] \notin W})
findof(s, from, to, W) == Min({k \in from..to : k = to \/ s[k + 1] \in W})
rfindof(s, from, to, W) ==
    LET found == {k \in from..(to - 1) : s[k + 1] \in W} IN IF found = {} THEN to ELSE Max(found)
uppers(s) == [k \in 1..Len(s) |-> upper(s[k])]

(* ffs_cmpz(), ffs_icmpz(): 0 or, with the sign of the order, where the    *)
(* texts differ.                                                           *)
cmpz(s, t) ==
    LET diff == {k \in 1..Min({Len(s), Len(t)}) : s[k] # t[k]}
    IN CASE diff # {} -> IF s[Min(diff)] < t[Min(diff)] THEN -Min(diff) ELSE Min(diff)
         [] diff = {} /\ Len(s) > Len(t) -> Len(t) + 1
         [] diff = {} /\ Len(s) < Len(t) -> -Len(s) - 1
         [] OTHER -> 0

(* Binary search: ffszarr_findsorted(), ffint_binfind4() and the others.   *)
RECURSIVE binfind(_, _, _, _)
binfind(ar, x, start, end) ==
    IF start = end THEN -1
    ELSE LET i == start + (end - start) \div 2
             r == cmpz(x, ar[i + 1])
         IN CASE r = 0 -> i [] r < 0 -> binfind(ar, x, start, i) [] r > 0 -> binfind(ar, x, i + 1, end)
findarrz(ar, x) == IF \E k \in 1..Len(ar) : ar[k] = x THEN Min({k \in 1..Len(ar) : ar[k] = x}) - 1 ELSE -1

-----------------------------------------------------------------------------
(* ffstr_nextval(): the next value and how much of the text it takes.      *)
Spl(fl) == IF fl.words THEN fl.white ELSE {fl.spl}
Trimmed(s, from, to, fl) ==
    IF fl.keep THEN cut(s, from, to)
    ELSE LET b == skipof(s, from, to, fl.white) IN cut(s, b, rskipof(s, b, to, fl.white))
nextval_rev(s, fl, pos) ==
    IF pos = Len(s) THEN [val |-> Trimmed(s, 0, Len(s), fl), n |-> Len(s)]
    ELSE [val |-> Trimmed(s, pos + 1, Len(s), fl),
          n |-> Len(s) - pos - (IF pos = 0 /\ pos + 1 # Len(s) THEN 1 ELSE 0)]
nextval_quot(s, fl, pos) ==
    [val |-> pos, n |-> IF fl.keep THEN pos ELSE skipof(s, pos, Len(s), fl.white)]
nextval_fwd(s, fl, buf, pos) ==
    IF fl.words \/ fl.spl \in {Char.sp, Char.tab}
    THEN [val |-> cut(s, buf, pos), n |-> skipof(s, pos, Len(s), Spl(fl))]
    ELSE [val |-> cut(s, buf, IF fl.keep THEN pos ELSE rskipof(s, buf, pos, fl.white)),
          n |-> CASE pos = Len(s) -> pos [] pos + 1 = Len(s) /\ pos # buf -> pos [] OTHER -> pos + 1]
nextval_at(s, fl, buf) ==
    CASE buf = Len(s) -> [val |-> <<>>, n |-> Len(s)]
      [] buf < Len(s) /\ fl.quot /\ s[buf + 1] = Char.quot ->
            LET pos == findof(s, buf + 1, Len(s), {Char.quot})
            IN [nextval_quot(s, fl, Min({pos + 1, Len(s)})) EXCEPT !.val = cut(s, buf + 1, pos)]
      [] OTHER -> nextval_fwd(s, fl, buf, findof(s, buf, Len(s), Spl(fl)))
nextval(s, fl) ==
    IF fl.rev THEN nextval_rev(s, fl, rfindof(s, 0, Len(s), Spl(fl)))
    ELSE nextval_at(s, fl, IF fl.keep THEN 0 ELSE skipof(s, 0, Len(s), fl.white))
left(s, fl, n) == IF fl.rev THEN cut(s, 0, Len(s) - n) ELSE cut(s, n, Len(s))

SplitInit == \E s \in Texts, fl \in Splits : q = [f |-> "split", s |-> s, fl |-> fl, rest |-> s, vals |-> <<>>, ret |-> "run"]
Nextval ==      \* ffstr_nextval3() until there is nothing left
    /\ q.f = "split" /\ q.ret = "run"
    /\ IF q.rest = <<>> THEN q' = [q EXCEPT !.ret = "done"]
       ELSE LET v == nextval(q.rest, q.fl)
            IN q' = [q EXCEPT !.vals = Append(@, v.val), !.rest = left(@, q.fl, v.n)]

-----------------------------------------------------------------------------
(* Numbers.  Word stands for 64 bits: the accumulator wraps there, and as  *)
(* many digits are read as its largest value has.                          *)
RECURSIVE digitsOf(_, _)
digitsOf(n, base) ==        \* _ffs_fromint_dec(), _oct(), _hex()
    (IF n < base THEN <<>> ELSE digitsOf(n \div base, base))
    \o <<IF n % base < 10 THEN Char.zero + (n % base) ELSE Char.a - 10 + (n % base)>>
MaxDigits(base) == Len(digitsOf(2^Word - 1, base))
MaxChars == MaxDigits(10)
toint(s, base, bits, signed) ==     \* ffs_toint(): [n, val], n = 0 is a failure
    LET from == IF signed /\ s # <<>> /\ s[1] \in {Char.minus, Char.plus} THEN 1 ELSE 0
        to == Min({k \in from..Len(s) : k = Len(s) \/ tohex(s[k + 1]) \notin 0..(base - 1)})
        r == FoldLeft(LAMBDA acc, c : (acc * base + tohex(c)) % 2^Word, 0, cut(s, from, to))
    IN IF to = from \/ to - from > MaxDigits(base) \/ r >= 2^(IF signed THEN bits - 1 ELSE bits) THEN [n |-> 0, val |-> 0]
       ELSE [n |-> to, val |-> IF from = 1 /\ s[1] = Char.minus THEN -r ELSE r]

(* ffs_fromint() into a room of cap characters: [out, n], out what it      *)
(* wrote, n what it returned.                                              *)
Fill(c, n) == [k \in 1..n |-> c]
grouped(ds) ==
    FoldLeftDomain(LAMBDA acc, k : acc \o <<ds[k]>> \o (IF k < Len(ds) /\ (Len(ds) - k) % 3 = 0 THEN <<Char.comma>> ELSE <<>>),
                   <<>>, ds)
Sign(neg) == IF neg THEN <<Char.minus>> ELSE <<>>
short(t, cap) == SubSeq(t, 1, Min({Len(t), cap}))
fromint_sep(ds, neg, cap) ==
    LET room == cap - (IF neg /\ cap > 0 THEN 1 ELSE 0)
        g == grouped(ds)
    IN IF Len(g) > room THEN [out |-> Fill(Char.sp, room), n |-> room] ELSE [out |-> Sign(neg) \o g, n |-> Len(g)]
fromint_pad(ds, neg, cap, width, zero) ==
    LET w == width - Len(ds) - (IF neg THEN 1 ELSE 0)
        pad == IF w > 0 THEN Fill(IF zero THEN Char.zero ELSE Char.sp, Min({w, cap})) ELSE <<>>
        t == short(IF zero THEN Sign(neg) \o pad \o ds ELSE pad \o Sign(neg) \o ds, cap)
    IN [out |-> t, n |-> Len(t)]
fromint(num, cap, d) ==
    LET neg == num < 0
        ds == digitsOf(IF neg THEN -num ELSE num, d.base)
    IN IF d.sep /\ d.width = 0 /\ Len(ds) > 3 THEN fromint_sep(ds, neg, cap)
       ELSE fromint_pad(ds, neg, cap, d.width, d.zero)
Plain == [base |-> 10, width |-> 0, zero |-> FALSE, sep |-> FALSE]

(* ffs_tofloat(): the digits and the exponent it reads, as m * 10^exp.     *)
floatStep(z, c) ==
    CASE z.st = "end" -> z
      [] z.st = "minus" /\ c \in {Char.minus, Char.plus} -> [z EXCEPT !.st = "int", !.neg = c = Char.minus, !.n = @ + 1]
      [] z.st \in {"minus", "int"} /\ c = Char.dot -> [z EXCEPT !.st = "frac", !.n = @ + 1]
      [] z.st \in {"minus", "int", "frac"} /\ isdigit(c) ->
            [z EXCEPT !.st = IF @ = "minus" THEN "int" ELSE @, !.m = @ * 10 + c - 48, !.digits = @ + 1,
                      !.exp = IF z.st = "frac" THEN @ - 1 ELSE @, !.n = @ + 1]
      [] z.st \in {"minus", "int", "frac"} /\ lower(c) = Char.e -> [z EXCEPT !.st = "expsign", !.n = @ + 1]
      [] z.st = "expsign" /\ c \in {Char.minus, Char.plus} -> [z EXCEPT !.st = "exp", !.nexp = c = Char.minus, !.n = @ + 1]
      [] z.st \in {"expsign", "exp"} /\ isdigit(c) -> [z EXCEPT !.st = "exp", !.e = @ * 10 + c - 48, !.n = @ + 1]
      [] OTHER -> [z EXCEPT !.last = @ \/ z.st = "expsign", !.st = "end"]
tofloat(s) ==
    LET z == FoldLeft(floatStep, [st |-> "minus", m |-> 0, exp |-> 0, e |-> 0, neg |-> FALSE, nexp |-> FALSE,
                                  digits |-> 0, n |-> 0, last |-> FALSE], s)
    IN IF z.digits = 0 \/ z.st = "expsign" THEN [n |-> 0, m |-> 0, exp |-> 0]
       ELSE [n |-> z.n, m |-> IF z.neg THEN -z.m ELSE z.m, exp |-> z.exp + (IF z.nexp THEN -z.e ELSE z.e)]
(* ffs_fromfloat() of num/den with wfrac digits behind the point.          *)
fromfloat(num, den, wfrac) ==
    LET abs == IF num < 0 THEN -num ELSE num
        scale == 10^wfrac
        frac == (2 * (abs % den) * scale + den) \div (2 * den)
        int == abs \div den + (IF frac = scale THEN 1 ELSE 0)
    IN Sign(num < 0) \o digitsOf(int, 10)
       \o (IF wfrac = 0 THEN <<>>
           ELSE <<Char.dot>> \o fromint(frac % scale, wfrac, [Plain EXCEPT !.width = wfrac, !.zero = TRUE]).out)

(* ffs_hexstr(), ffs_hex_to_bytes(), _ffs_escape() and its count.          *)
hexbyte(b) == fromint(b, 2, [Plain EXCEPT !.base = 16, !.width = 2, !.zero = TRUE]).out
hexstr(s) == FlattenSeq([k \in 1..Len(s) |-> hexbyte(s[k])])
hex_to_bytes(s) ==
    IF Len(s) % 2 # 0 \/ \E k \in 1..Len(s) : tohex(s[k]) < 0 THEN "bad"
    ELSE [k \in 1..(Len(s) \div 2) |-> tohex(s[2 * k - 1]) * 16 + tohex(s[2 * k])]
Printable(c) == c \in {9, 10, 13} \/ (c >= 32 /\ c # Char.bslash /\ c # 127)
escape(s) == FlattenSeq([k \in 1..Len(s) |-> IF Printable(s[k]) THEN <<s[k]>> ELSE <<Char.bslash, Char.x>> \o uppers(hexbyte(s[k]))])
escape_size(s) == Len(s) + 3 * Cardinality({k \in 1..Len(s) : ~Printable(s[k])})

NumInit ==
    \/ \E num \in (1 - 2^(Word - 1))..(2^Word - 1), base \in {8, 10, 16} :
          q = [f |-> "num", num |-> num, base |-> base, text |-> <<>>, got |-> 0, ret |-> "run"]
    \/ \E num \in -30..30, wfrac \in 0..2 : q = [f |-> "float", num |-> num, wfrac |-> wfrac, text |-> <<>>, got |-> 0, ret |-> "run"]
    \/ \E s \in Texts : q = [f |-> "hex", s |-> s, text |-> <<>>, got |-> 0, ret |-> "run"]
ToText ==
    /\ q.f \in {"num", "float", "hex"} /\ q.ret = "run" /\ q.text = <<>> /\ q.got = 0
    /\ q' = [q EXCEPT !.got = 1,
             !.text = CASE q.f = "num" -> fromint(q.num, 64, [Plain EXCEPT !.base = q.base]).out
                        [] q.f = "float" -> fromfloat(q.num, 8, q.wfrac)
                        [] OTHER -> hexstr(q.s)]
FromText ==
    /\ q.f \in {"num", "float", "hex"} /\ q.ret = "run" /\ q.got = 1
    /\ q' = [q EXCEPT !.ret = "done",
             !.got = CASE q.f = "num" -> toint(q.text, q.base, Word, q.num < 0)
                       [] q.f = "float" -> tofloat(q.text)
                       [] OTHER -> hex_to_bytes(q.text)]

-----------------------------------------------------------------------------
(* ffstr_vercmp(): a component at a time.                                  *)
Dots == [spl |-> Char.dot, white |-> {Char.sp}, words |-> FALSE, keep |-> TRUE, quot |-> FALSE, rev |-> FALSE]
Part(s) == IF s = <<>> THEN [rest |-> s, ok |-> TRUE, val |-> 0]
           ELSE LET v == nextval(s, Dots)
                    t == toint(v.val, 10, Word, FALSE)
                IN  [rest |-> cut(s, v.n, Len(s)), ok |-> t.n > 0 /\ t.n = Len(v.val), val |-> t.val]
VerInit == \E a, b \in Versions : q = [f |-> "ver", a |-> a, b |-> b, s |-> a, d |-> b, r |-> 0, ret |-> "run"]
Vercmp ==
    /\ q.f = "ver" /\ q.ret = "run"
    /\ LET s == Part(q.s)
           d == Part(q.d)
       IN q' = CASE q.s = <<>> /\ q.d = <<>> -> [q EXCEPT !.ret = "done"]
                 [] ~s.ok -> [q EXCEPT !.ret = "errv1"]
                 [] s.ok /\ ~d.ok -> [q EXCEPT !.ret = "errv2"]
                 [] OTHER -> [q EXCEPT !.s = s.rest, !.d = d.rest,
                                       !.r = CASE @ # 0 -> @ [] s.val < d.val -> -1 [] s.val > d.val -> 1 [] OTHER -> 0]

-----------------------------------------------------------------------------
(* ffs_wildcard(): a turn of its loop.  p and i are the offsets in the     *)
(* pattern and in the name, ap and ai those of the last '*'.               *)
WildInit == \E pat \in Patterns, s \in Names :
    q = [f |-> "wild", pat |-> pat, s |-> s, p |-> 0, i |-> 0, ap |-> Len(pat), ai |-> 0, ret |-> "run"]
Wildcard ==
    /\ q.f = "wild" /\ q.ret = "run"
    /\ LET c == q.pat[q.p + 1]
       IN CASE q.p = Len(q.pat) -> q' = [q EXCEPT !.ret = IF q.i = Len(q.s) THEN "match" ELSE "no"]
            [] q.p < Len(q.pat) /\ c = Char.star ->
                  q' = IF q.p + 1 = Len(q.pat) THEN [q EXCEPT !.p = @ + 1, !.ret = "match"]
                       ELSE [q EXCEPT !.p = @ + 1, !.ap = q.p + 1, !.ai = q.i + 1]
            [] q.p < Len(q.pat) /\ c # Char.star /\ q.i = Len(q.s) -> q' = [q EXCEPT !.ret = "no"]
            [] q.p < Len(q.pat) /\ c # Char.star /\ q.i < Len(q.s) /\ (c = Char.any \/ c = q.s[q.i + 1]) ->
                  q' = [q EXCEPT !.p = @ + 1, !.i = @ + 1]
            [] OTHER -> q' = IF q.ap = Len(q.pat) THEN [q EXCEPT !.ret = "no"]
                             ELSE [q EXCEPT !.p = q.ap, !.i = q.ai, !.ai = @ + 1]

-----------------------------------------------------------------------------
(* ffs_fmtv2() into a room of cap characters: the directives with their    *)
(* arguments.  z is what was written, the length that is needed, and       *)
(* whether the format was found to be invalid.                             *)
written(z, t, n, cap, most) ==      \* n is what it takes if the room is enough, else most is asked for
    LET buf == z.buf \o short(t, cap - Len(z.buf)) IN [z EXCEPT !.buf = buf, !.len = @ + (IF Len(buf) # cap THEN n ELSE most)]
fmt_char(z, c, cap) == written(z, <<c>>, 1, cap, 1)
fmt_int(z, d, cap, r) == written(z, SubSeq(r.out, 1, r.n), r.n, cap, Max({d.width, MaxChars}))
fmt_float(z, d, cap, t) == written(z, t, Len(t), cap, Max({d.width, MaxChars}) + 1 + Min({d.wfrac, MaxChars}))
fmt_str(z, t, cap) == written(z, t, Len(t), cap, Len(t))
fmt_fill(z, d, cap) == fmt_str(z, Fill(d.c, d.width), cap)
fmt_hex(z, t, cap) == [z EXCEPT !.len = @ + 2 * Len(t), !.buf = IF cap - Len(@) < 2 * Len(t) THEN @ ELSE @ \o hexstr(t)]
fmt_step(z, d, cap) ==
    CASE z.bad -> z
      [] ~z.bad /\ d.k = "lit" -> fmt_char(z, d.c, cap)
      [] ~z.bad /\ d.k = "int" -> fmt_int(z, d, cap, fromint(d.num, cap - Len(z.buf), d))
      [] ~z.bad /\ d.k = "flt" -> fmt_float(z, d, cap, fromfloat(d.num, d.den, d.wfrac))
      [] ~z.bad /\ d.k = "str" -> fmt_str(z, d.text, cap)
      [] ~z.bad /\ d.k = "fill" -> fmt_fill(z, d, cap)
      [] ~z.bad /\ d.k = "hex" -> fmt_hex(z, d.text, cap)
      [] OTHER -> [z EXCEPT !.bad = TRUE]
fmtv2(fmt, cap) ==      \* [r, buf]
    LET z == FoldLeft(LAMBDA y, d : fmt_step(y, d, cap), [buf |-> <<>>, len |-> 0, bad |-> FALSE], fmt)
    IN [buf |-> z.buf, r |-> CASE z.bad -> 0 [] ~z.bad /\ Len(z.buf) = cap -> -(z.len + 1) [] OTHER -> Len(z.buf)]

(* ffstr_catfmtv(): try, grow by what was asked for, try again.            *)
FmtInit == \E fmt \in Formats, c \in Caps :
    q = [f |-> "fmt", fmt |-> fmt, cap |-> c.cap, used |-> c.used, try |-> 1, text |-> <<>>, r |-> 0, ret |-> "run"]
grown(r) == IF q.cap >= q.used + r THEN q.cap ELSE q.used + r      \* _ffarr_grow()
Catfmt ==
    /\ q.f = "fmt" /\ q.ret = "run"
    /\ LET z == fmtv2(q.fmt, q.cap - q.used)
       IN q' = CASE z.r > 0 \/ (z.r = 0 /\ q.try = 2) -> [q EXCEPT !.ret = "done", !.r = z.r, !.text = z.buf]
                 [] z.r = 0 /\ q.try = 1 -> [q EXCEPT !.ret = "done"]
                 [] z.r < 0 /\ q.try = 1 -> [q EXCEPT !.cap = grown(-z.r), !.try = 2]
                 [] OTHER -> [q EXCEPT !.ret = "done", !.used = q.cap]

(* ffs_fmatchv(): [n, nums] of a text, n < 0 when it does not match.       *)
fmatch_int(z, s, d, v) ==
    IF v.n = 0 THEN [z EXCEPT !.bad = TRUE] ELSE [z EXCEPT !.at = @ + v.n, !.nums = Append(@, v.val)]
fmatch_step(z, s, d) ==
    CASE z.bad \/ z.at = Len(s) -> [z EXCEPT !.bad = TRUE]
      [] ~(z.bad \/ z.at = Len(s)) /\ d.k = "lit" -> IF s[z.at + 1] = d.c THEN [z EXCEPT !.at = @ + 1] ELSE [z EXCEPT !.bad = TRUE]
      [] ~(z.bad \/ z.at = Len(s)) /\ d.k = "int" ->
            fmatch_int(z, s, d, toint(cut(s, z.at, IF d.width = 0 THEN Len(s) ELSE Min({Len(s), z.at + d.width})), d.base, Word, FALSE))
      [] ~(z.bad \/ z.at = Len(s)) /\ d.k = "str" ->
            [z EXCEPT !.at = Min({k \in z.at..Len(s) : k = Len(s) \/ ~(isup(s[k + 1]) \/ islow(s[k + 1]))})]
      [] OTHER -> [z EXCEPT !.bad = TRUE]
fmatch(s, fmt) == FoldLeft(LAMBDA z, d : fmatch_step(z, s, d), [at |-> 0, nums |-> <<>>, bad |-> FALSE], fmt)

-----------------------------------------------------------------------------
(* ffsort(): merge sort, by insertion where little is left.                *)
inserted(ar, i, t) ==
    LET j == Max({0} \cup {k \in 1..(i - 1) : ar[k].key <= t.key})
    IN [k \in 1..Len(ar) |-> CASE k = j + 1 -> t [] k \in (j + 2)..i -> ar[k - 1] [] OTHER -> ar[k]]
insertion_sort(ar, sz) ==       \* elements of 4, of 8 and of other sizes
    FoldLeftDomain(LAMBDA a, i : inserted(a, i, IF sz \in {4, 8} THEN a[i] ELSE a[1]), ar, ar)
RECURSIVE merge(_, _)
merge(l, r) ==
    CASE l = <<>> -> r
      [] r = <<>> -> l
      [] l # <<>> /\ r # <<>> /\ Head(l).key <= Head(r).key -> <<Head(l)>> \o merge(Tail(l), r)
      [] OTHER -> <<Head(r)>> \o merge(l, Tail(r))
RECURSIVE merge_sort(_, _)
merge_sort(ar, sz) ==
    CASE Len(ar) <= 1 -> ar
      [] Len(ar) \in 2..CacheLine -> insertion_sort(ar, sz)
      [] OTHER -> LET nL == Len(ar) \div 2
                  IN merge(merge_sort(SubSeq(ar, 1, nL), sz), merge_sort(SubSeq(ar, nL + 1, Len(ar)), sz))
SortInit == \E ar \in Arrays, sz \in Sizes :
    q = [f |-> "sort", sz |-> sz, ar |-> [k \in 1..Len(ar) |-> [key |-> ar[k], id |-> k]], out |-> <<>>, ret |-> "run"]
Sort == q.f = "sort" /\ q.ret = "run" /\ q' = [q EXCEPT !.out = merge_sort(q.ar, q.sz), !.ret = "done"]

Init == SplitInit \/ NumInit \/ VerInit \/ FmtInit \/ SortInit \/ WildInit
Next == Nextval \/ ToText \/ FromText \/ Vercmp \/ Catfmt \/ Sort \/ Wildcard

-----------------------------------------------------------------------------
(* Splitting gives every value that is not empty once and in its place,    *)
(* from the left and from the right.                                       *)
Fields(s, fl) ==
    LET runs == {x \in (0..Len(s)) \X (0..Len(s)) :
                    /\ x[1] < x[2] /\ \A k \in (x[1] + 1)..x[2] : s[k] \notin Spl(fl)
                    /\ (x[1] = 0 \/ s[x[1]] \in Spl(fl)) /\ (x[2] = Len(s) \/ s[x[2] + 1] \in Spl(fl))}
        inOrder == SetToSortSeq(runs, LAMBDA x, y : x[1] < y[1])
    IN SelectSeq([k \in 1..Len(inOrder) |-> Trimmed(s, inOrder[k][1], inOrder[k][2], fl)], LAMBDA v : v # <<>>)
SplitTrue ==
    q.f = "split" /\ q.ret = "done" /\ ~q.fl.quot =>
        LET vals == SelectSeq(q.vals, LAMBDA v : v # <<>>)
        IN (IF q.fl.rev THEN Reverse(vals) ELSE vals) = Fields(q.s, q.fl)

(* Numbers, floating point numbers and bytes survive the way to text and   *)
(* back; a floating point number is rounded to the last digit.             *)
Close(num, den, m, exp) == LET d == 2 * (num * 10^(-exp) - m * den) IN d <= den /\ -d <= den
RoundTrip ==
    q.ret = "done" =>
        CASE q.f = "num" -> q.got = [n |-> Len(q.text), val |-> q.num]
          [] q.f = "float" -> q.got.n = Len(q.text) /\ Close(q.num, 8, q.got.m, q.got.exp)
          [] q.f = "hex" -> q.got = q.s /\ Len(escape(q.s)) = escape_size(q.s)
          [] OTHER -> TRUE

(* Versions compare as sequences of numbers where the shorter one goes on  *)
(* with zeros.                                                             *)
Nums(s) == [k \in 1..9 |-> LET f == Fields(s, Dots) IN IF k <= Len(f) THEN toint(f[k], 10, Word, FALSE).val ELSE 0]
VersionOrder ==
    q.f = "ver" /\ q.ret = "done" =>
        LET a == Nums(q.a)
            b == Nums(q.b)
            diff == {k \in 1..9 : a[k] # b[k]}
        IN q.r = IF diff = {} THEN 0 ELSE IF a[Min(diff)] < b[Min(diff)] THEN -1 ELSE 1

(* "+1 byte to pass (buf!=end) check next time": the second try has the    *)
(* room it needs, and a call that says it wrote the text wrote all of it.  *)
(* What was written can be matched by its own format.                      *)
Rendered(fmt) == fmtv2(fmt, 99).buf
Wrong(fmt) == \E k \in 1..Len(fmt) : fmt[k].k \notin {"lit", "int", "flt", "str", "fill", "hex"}
Matchable(fmt) == \A k \in 1..Len(fmt) : fmt[k].k = "lit" \/ (fmt[k].k = "int" /\ fmt[k].width = 0 /\ fmt[k].num >= 0 /\ k % 2 = 1)
FmtTrue ==
    q.f = "fmt" /\ q.ret = "done" =>
        /\ q.text = IF Wrong(q.fmt) THEN <<>> ELSE Rendered(q.fmt)
        /\ Matchable(q.fmt) /\ q.fmt # <<>> =>
              LET z == fmatch(q.text, q.fmt)
              IN ~z.bad /\ z.at = Len(q.text)
                 /\ z.nums = SelectSeq([k \in 1..Len(q.fmt) |-> IF q.fmt[k].k = "int" THEN q.fmt[k].num ELSE -1], LAMBDA n : n >= 0)

(* "Sort array elements": the same elements, in order, equal ones in the   *)
(* order they had; and then a binary search finds what is there.           *)
Ordered(ar) == \A i, j \in 1..Len(ar) : i < j => ar[i].key < ar[j].key \/ (ar[i].key = ar[j].key /\ ar[i].id < ar[j].id)
SortTrue ==
    q.f = "sort" /\ q.ret = "done" =>
        /\ ToSet(q.out) = ToSet(q.ar) /\ Ordered(q.out)
        /\ LET keys == [k \in 1..Len(q.out) |-> <<q.out[k].key>>]
           IN \A x \in -1..5 : (binfind(keys, <<x>>, 0, Len(keys)) >= 0) = (findarrz(keys, <<x>>) >= 0)

(* "Match string by a wildcard pattern ('*', '?').  Return 0 if match."    *)
Matches(pat, s) ==
    LET m[p \in 0..Len(pat), i \in 0..Len(s)] ==
            CASE p = Len(pat) -> i = Len(s)
              [] p < Len(pat) /\ pat[p + 1] = Char.star -> m[p + 1, i] \/ (i < Len(s) /\ m[p, i + 1])
              [] OTHER -> i < Len(s) /\ pat[p + 1] \in {Char.any, s[i + 1]} /\ m[p + 1, i + 1]
    IN m[0, 0]
WildcardTrue == q.f = "wild" /\ q.ret # "run" => (q.ret = "match" <=> Matches(q.pat, q.s))
(* What it says matches does, and a '*' at the end is decided right.       *)
WildcardSound ==
    q.f = "wild" /\ q.ret # "run" =>
        /\ q.ret = "match" => Matches(q.pat, q.s)
        /\ (\A k \in 1..(Len(q.pat) - 1) : q.pat[k] # Char.star) => (q.ret = "match" <=> Matches(q.pat, q.s))
=============================================================================
