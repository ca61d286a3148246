---------------------------- MODULE HttpClient ----------------------------
(***************************************************************************)
(* The HTTP client of FF/net/ffhttp-client.c: httpcl_process() is a loop   *)
(* over the connection's state that runs until an I/O call is              *)
(* asynchronous or the user's handler has to be called; a completion, the  *)
(* timer or ffhttpcl_send() enters it again.  One action is one pass       *)
(* through the loop.                                                       *)
(*                                                                         *)
(* o is the connection object (struct http); w is what is around it: who   *)
(* runs (ctl), the frames of httpcl_process() on the stack that go on      *)
(* with their loop once the handler returns (conts), and the history the   *)
(* properties speak about (o.open: sockets made and not closed).  Data is  *)
(* counted in units: a unit of header (BufSize of them fill buffer 0), a   *)
(* unit of body.  The handler may call send() or close() on any status; a  *)
(* call through a NULL pointer ends the process (ctl = "fault").           *)
(***************************************************************************)
EXTENDS Integers, FiniteSetsExt

CONSTANTS
    Addrs,          \* addresses a host name may resolve to
    MaxReconnect,   \* conf.max_reconnect
    MaxRedirect,    \* conf.max_redirect
    BufSize,        \* conf.buffer_size, in units of header
    MaxBody,        \* longest body the server sends
    Flags,          \* whether FFHTTPCL_NOREDIRECT is set (a proxy sets it too)
    Framings        \* how a server delimits a body: chunked, contlen, connclose or other,
                    \* a Transfer-Encoding that is not chunked or an empty Content-Length

ASSUME HttpAssumption ==
    /\ Addrs \in Nat /\ MaxReconnect \in Nat /\ MaxRedirect \in Nat /\ BufSize \in Nat /\ MaxBody \in Nat
    /\ Flags \subseteq BOOLEAN
    /\ Framings \subseteq {"chunked", "contlen", "connclose", "other"}

VARIABLES o, w

Statuses == {"ENOADDR", "ERR", "DONE", "DNS_WAIT", "IP_WAIT", "REQ_WAIT",
             "RESP_WAIT", "RESP", "RESP_RECV"}
States == {"START", "ADDR", "NEXTADDR", "CONN", "REQ", "REQ_SEND", "RESP", "RESP_PARSE",
           "RECVBODY", "RESPBODY", "DONE", "ERR", "ERR2", "NOOP"}
Final == {"ENOADDR", "ERR", "DONE"}

(* The three body filters; "none": c->f.p is NULL.                         *)
Filters == {"none", "chunked", "contlen", "connclose"}

Init ==
    /\ \E flag \in Flags :
       o = [noredirect |-> flag, st |-> "START", sk |-> FALSE, open |-> 0, aio |-> "none", tmr |-> FALSE, reconnects |-> 0,
            nredirect |-> 0, addrs |-> 0, hlen |-> 0, data |-> 0, f |-> "none", left |-> 0,
            err2 |-> "ERR", status |-> "none", alive |-> TRUE]
    /\ w = [ctl |-> "idle", conts |-> 0, owes |-> TRUE,
            body |-> "none", want |-> 0, got |-> 0, follows |-> 0]

TypeOK ==
    /\ o.st \in States /\ o.sk \in BOOLEAN /\ o.tmr \in BOOLEAN /\ o.alive \in BOOLEAN
    /\ o.aio \in {"none", "pending", "ready"}
    /\ o.reconnects \in 0..(MaxReconnect + 1) /\ o.nredirect \in 0..(MaxRedirect + 1)
    /\ o.addrs \in 0..Addrs /\ o.hlen \in 0..BufSize
    /\ o.f \in Filters /\ o.left \in 0..MaxBody /\ o.data \in 0..MaxBody
    /\ o.status \in Statuses \cup {"none"}
    /\ w.ctl \in {"idle", "proc", "handler", "fault"} /\ w.conts \in 0..1

-----------------------------------------------------------------------------
(* Control.                                                                *)

Runs(st) == w.ctl = "proc" /\ o.alive /\ o.st = st

(* httpcl_process() returns.  Frames that only return are not kept; one    *)
(* that called the handler and then continues its loop is.                 *)
Return(ww) == IF ww.conts > 0 THEN [ww EXCEPT !.ctl = "proc", !.conts = @ - 1]
                              ELSE [ww EXCEPT !.ctl = "idle"]

call_handlerContinues(oo, ww, status, cont) ==
    /\ o' = [oo EXCEPT !.status = status]
    /\ w' = [ww EXCEPT !.ctl = "handler", !.owes = TRUE, !.conts = 1]
call_handler(oo, ww, status, cont) ==
    /\ o' = [oo EXCEPT !.status = status]
    /\ w' = [ww EXCEPT !.ctl = "handler", !.owes = TRUE, !.conts = @ + cont]

Goto(st) == o' = [o EXCEPT !.st = st] /\ UNCHANGED w

Fault == w' = [w EXCEPT !.ctl = "fault"] /\ UNCHANGED o

(* Wait for I/O: the task is pending and the timer covers it.              *)
AsyncUntimed == /\ o.aio = "none"
                /\ o' = [o EXCEPT !.aio = "pending"]
                /\ w' = Return(w)
Async == /\ o.aio = "none"
         /\ o' = [o EXCEPT !.aio = "pending", !.tmr = TRUE]
         /\ w' = Return(w)

(* ffskt_close(), ffaio_fin(): no event of the closed socket is delivered. *)
close_skt(oo) ==
    [oo EXCEPT !.sk = FALSE, !.aio = "none", !.open = @ - (IF oo.sk THEN 1 ELSE 0)]

(* tcp_ioerr(): reconnect with the original URL, up to max_reconnect times.*)
ioerrResend(oo) ==
    [oo EXCEPT !.reconnects = @ + 1, !.hlen = 0, !.aio = "none",
               !.st = IF oo.reconnects = MaxReconnect THEN "ERR" ELSE "REQ_SEND"]
ioerrKeep(oo) ==
    [oo EXCEPT !.reconnects = @ + 1, !.hlen = 0, !.aio = "none",
               !.st = IF oo.reconnects = MaxReconnect THEN "ERR" ELSE "ADDR"]
ioerrForever(oo) == [close_skt(oo) EXCEPT !.hlen = 0, !.st = "ADDR"]
ioerr(oo) ==
    IF oo.reconnects = MaxReconnect
    THEN [oo EXCEPT !.reconnects = @ + 1, !.st = "ERR"]
    ELSE [close_skt(oo) EXCEPT !.reconnects = @ + 1, !.hlen = 0, !.st = "ADDR"]

tcp_ioerr == o' = ioerr([o EXCEPT !.aio = "none"]) /\ UNCHANGED w

-----------------------------------------------------------------------------
(* The states of httpcl_process().                                         *)

Start ==
    /\ Runs("START")
    /\ \/ Goto("ERR")                                       \* no memory
       \/ call_handler([o EXCEPT !.st = "ADDR"], w, "DNS_WAIT", 0)

(* ip_resolve(): a bad URL, a bad address, a resolver error; or addresses. *)
Resolve ==
    /\ Runs("ADDR")
    /\ \/ Goto("ERR")
       \/ \E n \in 1..Addrs :
            call_handler([o EXCEPT !.st = "NEXTADDR", !.addrs = n], w, "IP_WAIT", 0)

(* tcp_prepare(): the next address for which a socket can be made.         *)
NextAddr ==
    /\ Runs("NEXTADDR")
    /\ \/ /\ o.addrs = 0
          /\ o' = [o EXCEPT !.st = "ERR2", !.err2 = "ENOADDR"] /\ UNCHANGED w
       \/ /\ o.addrs > 0                                    \* no socket
          /\ o' = [o EXCEPT !.addrs = @ - 1] /\ UNCHANGED w
       \/ /\ o.addrs > 0
          /\ \E next \in {[st |-> "CONN", e |-> o.err2], [st |-> "ERR2", e |-> "ERR"]} :
               o' = [o EXCEPT !.addrs = @ - 1, !.sk = TRUE, !.open = @ + 1, !.aio = "none",
                              !.st = next.st, !.err2 = next.e]
          /\ UNCHANGED w

(* tcp_connect().                                                          *)
Connect ==
    /\ Runs("CONN")
    /\ \/ Async
       \/ o' = [close_skt(o) EXCEPT !.st = "NEXTADDR"] /\ UNCHANGED w
       \/ call_handler([o EXCEPT !.st = "REQ", !.addrs = 0, !.aio = "none"], w, "REQ_WAIT", 0)

Request == Runs("REQ") /\ Goto("REQ_SEND")

(* tcp_send().                                                             *)
SendRequest ==
    /\ Runs("REQ_SEND")
    /\ \/ Async
       \/ tcp_ioerr
       \/ call_handler([o EXCEPT !.st = "RESP", !.aio = "none"], w, "RESP_WAIT", 0)

(* tcp_recvhdrs(): buffer 0 is full; or data, end of stream, an error.     *)
RecvHeaders ==
    /\ Runs("RESP")
    /\ IF o.hlen = BufSize THEN Goto("ERR")
       ELSE \/ Async
            \/ tcp_ioerr
            \/ /\ o' = [o EXCEPT !.st = "RESP_PARSE", !.hlen = @ + 1, !.aio = "none"]
               /\ UNCHANGED w

(* http_parse(): the headers are not complete, or are bad.                 *)
ParseMore == Runs("RESP_PARSE") /\ \E st \in {"RESP", "ERR"} : Goto(st)

(* nredirect is compared for equality only: what is past max_redirect is   *)
(* counted as one past it (the uint would have to wrap to be equal again), *)
(* and so are the redirects followed.                                      *)
more(n) == Min({n + 1, MaxRedirect + 1})

(* A 301 or 302 with Location, and not max_redirect of them before: the    *)
(* connection is closed and the response freed; with NOREDIRECT the empty  *)
(* response is what the user gets.                                         *)
ParseRedirect ==
    /\ Runs("RESP_PARSE") /\ o.nredirect # MaxRedirect
    /\ LET oo == [close_skt(o) EXCEPT !.nredirect = more(@), !.hlen = 0]
       IN IF o.noredirect
          THEN call_handler([oo EXCEPT !.st = "DONE", !.data = 0],
                            [w EXCEPT !.body = "none", !.want = 0, !.got = 0], "RESP", 0)
          ELSE o' = [oo EXCEPT !.st = "ADDR"] /\ w' = [w EXCEPT !.follows = more(@)]

(* The filter for the framing of the response (http_filters); none of the  *)
(* three opens for "other".                                                *)
filter_openOnce(oo, framing, len) ==
    IF framing \in {"none", "other"} \/ oo.f # "none" THEN oo
    ELSE [oo EXCEPT !.f = framing, !.left = IF framing = "connclose" THEN 0 ELSE len]
filter_open(oo, framing, len) ==
    IF framing \in {"none", "other"} THEN oo
    ELSE [oo EXCEPT !.f = framing, !.left = IF framing = "connclose" THEN 0 ELSE len]

(* Any other response, with d units behind its headers: no 301/302, one    *)
(* without Location, or one that is not followed any more.                 *)
ParseResponse(redirect, framing, len, d) ==
    /\ Runs("RESP_PARSE")
    /\ LET oo == [o EXCEPT !.nredirect = IF redirect THEN more(@) ELSE @,
                           !.hlen = 0, !.data = d,
                           !.st = IF framing = "none" THEN "DONE" ELSE "RESPBODY"]
       IN call_handler(filter_open(oo, framing, len),
                       [w EXCEPT !.body = framing, !.want = len, !.got = 0], "RESP", 0)

ParseBody ==
    \E redirect \in BOOLEAN, framing \in Framings \cup {"none"}, d \in 0..MaxBody :
        \E len \in IF framing = "none" THEN {0} ELSE 1..MaxBody :
            ParseResponse(redirect, framing, len, d)

(* tcp_recv(): data; or the end of the stream, which ends a body without a *)
(* length and is an error for the others (http_recvbody() with tcpfin).    *)
RecvBody ==
    /\ Runs("RECVBODY")
    /\ \/ Async
       \/ tcp_ioerr
       \/ \E n \in 1..(MaxBody - w.got) :
            /\ o' = [o EXCEPT !.data = n, !.st = "RESPBODY", !.aio = "none"]
            /\ UNCHANGED w
       \/ IF o.f = "connclose"
          THEN call_handler([o EXCEPT !.st = "DONE", !.aio = "none"], w, "RESP_RECV", 1)
          ELSE o' = [o EXCEPT !.st = "ERR", !.aio = "none"] /\ UNCHANGED w

(* http_recvbody(): the filter takes n units of the data and hands them    *)
(* out; DONE once nothing is left of a body with a length.                 *)
FilterDataEarly(n) ==
    LET oo == [o EXCEPT !.data = @ - n, !.left = IF o.f = "connclose" THEN 0 ELSE @ - n]
        ww == [w EXCEPT !.got = @ + n]
    IN  IF o.f # "connclose" /\ oo.data = 0
        THEN call_handler([oo EXCEPT !.st = "DONE"], ww, "RESP_RECV", 1)
        ELSE call_handler([oo EXCEPT !.st = IF oo.data = 0 THEN "RECVBODY" ELSE @],
                          ww, "RESP_RECV", 0)
FilterData(n) ==
    LET oo == [o EXCEPT !.data = @ - n, !.left = IF o.f = "connclose" THEN 0 ELSE @ - n]
        ww == [w EXCEPT !.got = @ + n]
    IN  IF o.f # "connclose" /\ oo.left = 0
        THEN call_handler([oo EXCEPT !.st = "DONE"], ww, "RESP_RECV", 1)
        ELSE call_handler([oo EXCEPT !.st = IF oo.data = 0 THEN "RECVBODY" ELSE @],
                          ww, "RESP_RECV", 0)

(* Of chunked data the filter hands out one piece at a time.               *)
Pieces == CASE o.f = "connclose"               -> {o.data}
            [] o.f = "chunked" /\ o.data > 0   -> 1..Min({o.data, o.left})
            [] OTHER                           -> {Min({o.data, o.left})}

(* With no filter c->f.iface is NULL and its process() is called all the   *)
(* same; the filter of a lost connection takes the data of another body.   *)
RespBody ==
    /\ Runs("RESPBODY")
    /\ \/ o.f = "none" /\ Fault
       \/ o.f = "chunked" /\ Goto("ERR")
       \/ o.f # "none" /\ \E n \in Pieces : FilterData(n)

End ==
    \E st \in {"DONE", "ERR", "ERR2"} :
        /\ Runs(st)
        /\ call_handler([o EXCEPT !.st = "NOOP"], w, IF st = "ERR2" THEN o.err2 ELSE st, 0)

Noop == Runs("NOOP") /\ w' = Return(w) /\ UNCHANGED o

(* The loop goes on with an object that its handler closed: the state is   *)
(* I_START again, and call_handler() calls through NULL.                   *)
GoOnClosed == w.ctl = "proc" /\ ~o.alive /\ Fault

Process ==
    \/ Start \/ Resolve \/ NextAddr \/ Connect \/ Request \/ SendRequest \/ RecvHeaders
    \/ ParseMore \/ ParseRedirect \/ ParseBody \/ RecvBody \/ RespBody \/ End \/ Noop
    \/ GoOnClosed

-----------------------------------------------------------------------------
(* What enters the loop.                                                   *)

MayAct == o.alive /\ w.ctl \in {"handler", "idle"}

(* ffhttpcl_send(), once for every call of the handler, from inside it or  *)
(* later.                                                                  *)
ffhttpcl_send ==
    /\ MayAct /\ w.owes /\ o.status \notin Final
    /\ w' = [w EXCEPT !.ctl = "proc", !.owes = FALSE]
    /\ UNCHANGED o

(* ffhttpcl_close(): whenever the user wants.                              *)
ffhttpcl_close ==
    /\ MayAct
    /\ o' = [close_skt(o) EXCEPT !.alive = FALSE, !.tmr = FALSE, !.f = "none"]
    /\ w' = [Return(w) EXCEPT !.owes = FALSE]

HandlerReturns == w.ctl = "handler" /\ w' = Return(w) /\ UNCHANGED o

(* tcp_aio(): the operation is complete.                                   *)
tcp_aio ==
    /\ w.ctl = "idle" /\ o.aio = "pending"
    /\ o' = [o EXCEPT !.aio = "ready", !.tmr = FALSE]
    /\ w' = [w EXCEPT !.ctl = "proc"]

(* tcp_ontmr(): the one-shot timer expires.                                *)
tcp_ontmr ==
    /\ w.ctl = "idle" /\ o.tmr
    /\ o' = ioerr([o EXCEPT !.tmr = FALSE])
    /\ w' = [w EXCEPT !.ctl = "proc"]

Next == Process \/ ffhttpcl_send \/ ffhttpcl_close \/ HandlerReturns \/ tcp_aio \/ tcp_ontmr

vars == <<o, w>>
Spec == Init /\ [][Next]_vars

(* The event loop delivers completions or the timer, code that can run     *)
(* runs, and the user calls send() after every call of its handler.        *)
Fairness ==
    /\ WF_vars(Process)
    /\ WF_vars(HandlerReturns \/ (w.ctl = "handler" /\ ffhttpcl_send))
    /\ WF_vars(w.ctl = "idle" /\ ffhttpcl_send)
    /\ WF_vars(tcp_ontmr)

FairSpec == Spec /\ Fairness

-----------------------------------------------------------------------------
(* Whoever waits is woken: when nothing runs and the user has called       *)
(* send(), the request is over or an operation is pending and the timer    *)
(* covers it (tcp_connect, tcp_send, tcp_recv arm it, tcp_aio disarms it). *)
Woken ==
    w.ctl = "idle" /\ o.alive /\ ~w.owes => o.st = "NOOP" \/ (o.aio = "pending" /\ o.tmr)

(* Every socket that was made is c->sk or closed: none is lost on the way  *)
(* through failed addresses, redirects, reconnects and close.              *)
SocketsClosed == o.open = (IF o.sk THEN 1 ELSE 0) /\ (~o.alive => ~o.sk)

(* httpcl_process() never goes on with an object that the handler closed:  *)
(* "processing is suspended until user calls send()" (http-client.h).  It  *)
(* is not after the last FFHTTPCL_RESP_RECV of a body.                     *)
NoUseAfterClose == w.ctl = "proc" => o.alive

(* Whatever the handler does and the server answers, the loop calls        *)
(* through NULL in two cases only: the handler closed the object while     *)
(* FFHTTPCL_RESP_RECV was told with the last piece of a body, or after     *)
(* send() from there; or a Transfer-Encoding that is not chunked, or a     *)
(* Content-Length without digits, met no filter, not even one that a lost  *)
(* connection left behind.                                                 *)
FaultsKnown ==
    /\ w.ctl = "proc" /\ ~o.alive => o.st \in {"DONE", "NOOP"} /\ o.status \in {"RESP_RECV", "DONE"}
    /\ w.ctl = "fault" /\ o.alive => o.st = "RESPBODY" /\ w.body = "other"

(* The data of a body goes through the filter of that body's response, not *)
(* through the one a lost connection left behind; where none of the three  *)
(* is for it, it does.                                                     *)
FilterFits ==
    o.alive /\ o.st \in {"RECVBODY", "RESPBODY"} /\ w.body # "other" => o.f = w.body

(* DONE after a body with a length: all of it was handed out since the     *)
(* last FFHTTPCL_RESP, nothing twice, however often it was reconnected.    *)
DoneIsWhole ==
    o.status = "DONE" /\ w.body \in {"chunked", "contlen"} => w.got = w.want

(* "Maximum times to follow redirections" (http-client.h): not after one   *)
(* that was not followed had a body whose connection was lost.             *)
RedirectsBounded == w.follows <= MaxRedirect

Follows == [none |-> {"DNS_WAIT"}, DNS_WAIT |-> {"IP_WAIT"},
            IP_WAIT |-> {"IP_WAIT", "REQ_WAIT"}, REQ_WAIT |-> {"IP_WAIT", "RESP_WAIT"},
            RESP_WAIT |-> {"IP_WAIT", "RESP"}, RESP |-> {"RESP_RECV", "DONE"},
            RESP_RECV |-> {"RESP_RECV", "IP_WAIT", "DONE"},
            DONE |-> {}, ERR |-> {}, ENOADDR |-> {}]

(* The handler sees the statuses in the order of the protocol; a lost      *)
(* connection goes back to IP_WAIT; after DONE or an error there is none.  *)
StatusStep ==
    w.ctl = "proc" /\ w'.ctl = "handler" =>
        \/ o'.status \in Follows[o.status]
        \/ o'.status \in {"ERR", "ENOADDR"} /\ o.status \notin Final
StatusOrder == [][StatusStep]_vars

(* A request ends, with DONE or an error, or is closed before, however     *)
(* many connections are lost on the way: tcp_ontmr() breaks a connection   *)
(* that stays silent, and max_reconnect bounds how often it is made again. *)
(* It does not if the process has ended (FaultsKnown), or the server       *)
(* redirects for ever once max_redirect has been passed.                   *)
Ended ==
    \/ <>(o.status \in Final \/ ~o.alive \/ w.ctl = "fault")
    \/ []<><<ParseRedirect /\ o.nredirect > MaxRedirect>>_vars
=============================================================================
