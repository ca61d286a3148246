----------------------------- MODULE HttpProofs -----------------------------
(***************************************************************************)
(* Proofs about the HTTP client for any number of addresses, reconnects    *)
(* and redirects, any sizes of buffer and body, and any order of failures, *)
(* timeouts and calls of its user.                                         *)
(***************************************************************************)
EXTENDS HttpClient, TLAPS

Bodies == {"none", "chunked", "contlen", "connclose", "other"}
Waits == {"CONN", "REQ_SEND", "RESP", "RECVBODY"}
Sized == {"chunked", "contlen"}

Conn == [noredirect : BOOLEAN, st : States, sk : BOOLEAN, open : Nat, aio : {"none", "pending", "ready"},
         tmr : BOOLEAN, reconnects : 0..(MaxReconnect + 1), nredirect : 0..(MaxRedirect + 1), addrs : 0..Addrs,
         hlen : 0..BufSize, data : 0..MaxBody, f : Filters, left : 0..MaxBody, err2 : {"ERR", "ENOADDR"},
         status : Statuses \cup {"none"}, alive : BOOLEAN]
Around == [ctl : {"idle", "proc", "handler", "fault"}, conts : 0..1, owes : BOOLEAN, body : Bodies,
           want : 0..MaxBody, got : 0..MaxBody, follows : 0..(MaxRedirect + 1)]
Types == o \in Conn /\ w \in Around

\* The timer runs for an operation of the state the client is in, which nobody
\* else is to end; an operation without it is of a connection given up.
Timed ==
    /\ o.tmr => /\ o.aio = "pending" /\ w.ctl = "idle" /\ ~ w.owes /\ o.alive
                /\ o.st \in Waits
    /\ o.aio = "pending" /\ ~ o.tmr => o.st \in {"ERR", "NOOP"}
    /\ o.reconnects = MaxReconnect + 1 => o.st \in {"ERR", "NOOP"}

\* Who runs: a call of httpcl_process() goes on after its handler only when the
\* request is over; a handler that was called is owed a send().
Framed ==
    /\ w.conts = 1 => o.st \in {"DONE", "NOOP"}
    /\ w.ctl = "idle" => w.conts = 0
    /\ w.ctl = "handler" => w.owes /\ o.alive
    /\ w.ctl = "proc" => ~ w.owes \/ o.st \in {"DONE", "ERR", "NOOP"}
    /\ ~ o.alive => o.aio = "none" /\ ~ o.tmr

\* The socket: none while an address is looked for.
Sockets ==
    /\ o.open = IF o.sk THEN 1 ELSE 0
    /\ o.st \in {"START", "ADDR", "NEXTADDR"} => ~ o.sk
    /\ ~ o.alive => ~ o.sk

\* The status the handler saw last, in each state.
Seen ==
    /\ o.st = "START" => o.status = "none"
    /\ o.st = "ADDR" => o.status \in {"DNS_WAIT", "IP_WAIT", "REQ_WAIT", "RESP_WAIT", "RESP_RECV"}
    /\ o.st \in {"NEXTADDR", "CONN"} => o.status = "IP_WAIT"
    /\ o.st \in {"REQ", "REQ_SEND"} => o.status = "REQ_WAIT"
    /\ o.st \in {"RESP", "RESP_PARSE"} => o.status = "RESP_WAIT"
    /\ o.st = "RESPBODY" => o.status \in {"RESP", "RESP_RECV"}
    /\ o.st = "RECVBODY" => o.status = "RESP_RECV"
    /\ o.st = "DONE" => o.status \in {"RESP", "RESP_RECV"}
    /\ o.st \in {"ERR", "ERR2"} => o.status \notin Final
    /\ o.st = "NOOP" => o.status \in Final

\* The filter is the one of the response, and has what is left of its body.
Filtered ==
    /\ o.st = "RESPBODY" => w.got + o.data <= MaxBody
    /\ o.st \in {"RESPBODY", "RECVBODY"} => w.body # "none" /\ (o.alive /\ w.body # "other" => o.f = w.body)
    /\ o.st \in {"RESPBODY", "RECVBODY"} /\ w.body \in Sized => w.got + o.left = w.want
    /\ o.st = "DONE" \/ o.status = "DONE" => (w.body \in Sized => w.got = w.want)

HttpInv == Types /\ Timed /\ Framed /\ Sockets /\ Seen /\ Filtered /\ Woken
-----------------------------------------------------------------------------
(* Each pass through the loop *)

\* A count that is kept at one past max_redirect.
LEMMA MoreFits == ASSUME NEW n \in 0..(MaxRedirect + 1) PROVE more(n) \in 0..(MaxRedirect + 1)
<1>1. n + 1 \in Nat /\ MaxRedirect + 1 \in Nat
  BY HttpAssumption
<1>2. Min({n + 1, MaxRedirect + 1}) \in Nat /\ Min({n + 1, MaxRedirect + 1}) <= MaxRedirect + 1
  BY <1>1, SMTT(30) DEF Min
<1> QED
  BY <1>2, HttpAssumption DEF more

\* The connection object is made, or not.
LEMMA StartStep == ASSUME HttpInv, Start PROVE HttpInv'
<1> USE DEF HttpInv, Types
<1>0. /\ w.conts \in 0..1 /\ w.conts + 0 = w.conts
      /\ w.conts = 0 => w.conts + 1 = 1 /\ ~ w.conts > 0
      /\ w.conts # 0 => w.conts > 0 /\ w.conts - 1 = 0
  BY DEF Around
<1>1. CASE Runs("START") /\ Goto("ERR")
  <2>1. o' = [o EXCEPT !.st = "ERR"]
    BY <1>1 DEF Conn, Goto
  <2>2. w' = w
    BY <1>1, <1>0 DEF Around, Goto
  <2>4. o' \in Conn
    BY <2>1 DEF Conn, States, Statuses
  <2>5. w' \in Around
    BY <1>1, <1>0, <2>2 DEF Around
  <2>6. Timed' /\ Framed' /\ Sockets' /\ Seen' /\ Filtered' /\ Woken'
    BY <1>1, <1>0, <2>1, <2>2, <2>4, <2>5, HttpAssumption DEF Runs, Conn, Around, Timed, Framed,
       Sockets, Seen, Filtered, Woken, Waits, Final, Sized
  <2> QED
    BY <2>4, <2>5, <2>6
<1>2. CASE Runs("START") /\ call_handler([o EXCEPT !.st = "ADDR"], w, "DNS_WAIT", 0)
  <2>1. o' = [o EXCEPT !.st = "ADDR", !.status = "DNS_WAIT"]
    BY <1>2 DEF Conn, call_handler
  <2>2. w' = [w EXCEPT !.ctl = "handler", !.owes = TRUE, !.conts = @ + 0]
    BY <1>2, <1>0 DEF Around, call_handler
  <2>4. o' \in Conn
    BY <2>1 DEF Conn, States, Statuses
  <2>5. w' \in Around
    BY <1>2, <1>0, <2>2 DEF Around
  <2>6. Timed' /\ Framed' /\ Sockets' /\ Seen' /\ Filtered' /\ Woken'
    BY <1>2, <1>0, <2>1, <2>2, <2>4, <2>5, HttpAssumption DEF Runs, Conn, Around, Timed, Framed,
       Sockets, Seen, Filtered, Woken, Waits, Final, Sized
  <2> QED
    BY <2>4, <2>5, <2>6
<1> QED
  BY <1>1, <1>2 DEF Start

\* A host name is resolved: the socket and the addresses of before are gone.
LEMMA ResolveStep == ASSUME HttpInv, Resolve PROVE HttpInv'
<1> USE DEF HttpInv, Types
<1>0. /\ w.conts \in 0..1 /\ w.conts + 0 = w.conts
      /\ w.conts = 0 => w.conts + 1 = 1 /\ ~ w.conts > 0
      /\ w.conts # 0 => w.conts > 0 /\ w.conts - 1 = 0
  BY DEF Around
<1>1. CASE Runs("ADDR") /\ Goto("ERR")
  <2>1. o' = [o EXCEPT !.st = "ERR"]
    BY <1>1 DEF Conn, Goto
  <2>2. w' = w
    BY <1>1, <1>0 DEF Around, Goto
  <2>4. o' \in Conn
    BY <2>1 DEF Conn, States, Statuses
  <2>5. w' \in Around
    BY <1>1, <1>0, <2>2 DEF Around
  <2>6. Timed' /\ Framed' /\ Sockets' /\ Seen' /\ Filtered' /\ Woken'
    BY <1>1, <1>0, <2>1, <2>2, <2>4, <2>5, HttpAssumption DEF Runs, Conn, Around, Timed, Framed,
       Sockets, Seen, Filtered, Woken, Waits, Final, Sized
  <2> QED
    BY <2>4, <2>5, <2>6
<1>2. ASSUME NEW n \in 1..Addrs, Runs("ADDR"),
             call_handler([o EXCEPT !.st = "NEXTADDR", !.addrs = n], w, "IP_WAIT", 0)
      PROVE  HttpInv'
  <2>1. o' = [o EXCEPT !.st = "NEXTADDR", !.addrs = n, !.status = "IP_WAIT"]
    BY <1>2 DEF Conn, call_handler
  <2>2. w' = [w EXCEPT !.ctl = "handler", !.owes = TRUE, !.conts = @ + 0]
    BY <1>2, <1>0 DEF Around, call_handler
  <2>3. n \in 0..Addrs
    BY <1>2, <1>0, HttpAssumption DEF Conn
  <2>4. o' \in Conn
    BY <2>1, <2>3 DEF Conn, States, Statuses
  <2>5. w' \in Around
    BY <1>2, <1>0, <2>2, <2>3 DEF Around
  <2>6. Timed' /\ Framed' /\ Sockets' /\ Seen' /\ Filtered' /\ Woken'
    BY <1>2, <1>0, <2>1, <2>2, <2>3, <2>4, <2>5, HttpAssumption DEF Runs, Conn, Around, Timed,
       Framed, Sockets, Seen, Filtered, Woken, Waits, Final, Sized
  <2> QED
    BY <2>4, <2>5, <2>6
<1> QED
  BY <1>1, <1>2 DEF Resolve

\* The next address, with a socket of its own; or none is left.
LEMMA NextAddrStep == ASSUME HttpInv, NextAddr PROVE HttpInv'
<1> USE DEF HttpInv, Types
<1>0. /\ w.conts \in 0..1 /\ w.conts + 0 = w.conts
      /\ w.conts = 0 => w.conts + 1 = 1 /\ ~ w.conts > 0
      /\ w.conts # 0 => w.conts > 0 /\ w.conts - 1 = 0
  BY DEF Around
<1>1. CASE Runs("NEXTADDR") /\ o.addrs = 0 /\ o' = [o EXCEPT !.st = "ERR2", !.err2 = "ENOADDR"]
        /\ UNCHANGED w
  <2>1. o' = [o EXCEPT !.st = "ERR2", !.err2 = "ENOADDR"]
    BY <1>1 DEF Conn
  <2>2. w' = w
    BY <1>1, <1>0 DEF Around
  <2>4. o' \in Conn
    BY <2>1 DEF Conn, States, Statuses
  <2>5. w' \in Around
    BY <1>1, <1>0, <2>2 DEF Around
  <2>6. Timed' /\ Framed' /\ Sockets' /\ Seen' /\ Filtered' /\ Woken'
    BY <1>1, <1>0, <2>1, <2>2, <2>4, <2>5, HttpAssumption DEF Runs, Conn, Around, Timed, Framed,
       Sockets, Seen, Filtered, Woken, Waits, Final, Sized
  <2> QED
    BY <2>4, <2>5, <2>6
<1>2. CASE Runs("NEXTADDR") /\ o.addrs > 0 /\ o' = [o EXCEPT !.addrs = @ - 1] /\ UNCHANGED w
  <2>1. o' = [o EXCEPT !.addrs = @ - 1]
    BY <1>2 DEF Conn
  <2>2. w' = w
    BY <1>2, <1>0 DEF Around
  <2>3. o.addrs - 1 \in 0..Addrs
    BY <1>2, <1>0, HttpAssumption DEF Conn
  <2>4. o' \in Conn
    BY <2>1, <2>3 DEF Conn, States, Statuses
  <2>5. w' \in Around
    BY <1>2, <1>0, <2>2, <2>3 DEF Around
  <2>6. Timed' /\ Framed' /\ Sockets' /\ Seen' /\ Filtered' /\ Woken'
    BY <1>2, <1>0, <2>1, <2>2, <2>3, <2>4, <2>5, HttpAssumption DEF Runs, Conn, Around, Timed,
       Framed, Sockets, Seen, Filtered, Woken, Waits, Final, Sized
  <2> QED
    BY <2>4, <2>5, <2>6
<1>3. CASE Runs("NEXTADDR") /\ o.addrs > 0 /\ w' = w
         /\ o' = [o EXCEPT !.addrs = @ - 1, !.sk = TRUE, !.open = @ + 1, !.aio = "none",
              !.st = "CONN", !.err2 = o.err2]
  <2>1. o' = [o EXCEPT !.addrs = @ - 1, !.sk = TRUE, !.open = @ + 1, !.aio = "none",
                       !.st = "CONN"]
    BY <1>3 DEF Conn
  <2>2. w' = w
    BY <1>3, <1>0 DEF Around
  <2>3. o.addrs - 1 \in 0..Addrs /\ o.open = 0 /\ o.open + 1 = 1 /\ o.open + 1 \in Nat
          /\ "CONN" \in States
    BY <1>3, <1>0, HttpAssumption DEF Conn, Sockets, Runs, States
  <2>4. o' \in Conn
    BY <2>1, <2>3 DEF Conn
  <2>5. w' \in Around
    BY <1>3, <1>0, <2>2, <2>3 DEF Around
  <2>6. Timed' /\ Framed' /\ Sockets' /\ Seen' /\ Filtered' /\ Woken'
    BY <1>3, <1>0, <2>1, <2>2, <2>3, <2>4, <2>5, HttpAssumption DEF Runs, Conn, Around, Timed,
       Framed, Sockets, Seen, Filtered, Woken, Waits, Final, Sized
  <2> QED
    BY <2>4, <2>5, <2>6
<1>4. CASE Runs("NEXTADDR") /\ o.addrs > 0 /\ w' = w
         /\ o' = [o EXCEPT !.addrs = @ - 1, !.sk = TRUE, !.open = @ + 1, !.aio = "none",
              !.st = "ERR2", !.err2 = "ERR"]
  <2>1. o' = [o EXCEPT !.addrs = @ - 1, !.sk = TRUE, !.open = @ + 1, !.aio = "none",
                       !.st = "ERR2", !.err2 = "ERR"]
    BY <1>4 DEF Conn
  <2>2. w' = w
    BY <1>4, <1>0 DEF Around
  <2>3. o.addrs - 1 \in 0..Addrs /\ o.open = 0 /\ o.open + 1 = 1 /\ o.open + 1 \in Nat
          /\ "ERR2" \in States
    BY <1>4, <1>0, HttpAssumption DEF Conn, Sockets, Runs, States
  <2>4. o' \in Conn
    BY <2>1, <2>3 DEF Conn
  <2>5. w' \in Around
    BY <1>4, <1>0, <2>2, <2>3 DEF Around
  <2>6. Timed' /\ Framed' /\ Sockets' /\ Seen' /\ Filtered' /\ Woken'
    BY <1>4, <1>0, <2>1, <2>2, <2>3, <2>4, <2>5, HttpAssumption DEF Runs, Conn, Around, Timed,
       Framed, Sockets, Seen, Filtered, Woken, Waits, Final, Sized
  <2> QED
    BY <2>4, <2>5, <2>6
<1> QED
  BY <1>1, <1>2, <1>3, <1>4 DEF NextAddr

\* An operation is pending, under the timer; nobody else runs.
LEMMA AsyncStep == ASSUME HttpInv, Async, \E st \in Waits : Runs(st) PROVE HttpInv'
<1> USE DEF HttpInv, Types
<1>0. /\ w.conts \in 0..1 /\ w.conts + 0 = w.conts
      /\ w.conts = 0 => w.conts + 1 = 1 /\ ~ w.conts > 0
      /\ w.conts # 0 => w.conts > 0 /\ w.conts - 1 = 0
  BY DEF Around
<1>1. CASE w.conts = 0
  <2>1. o' = [o EXCEPT !.aio = "pending", !.tmr = TRUE]
    BY <1>1 DEF Conn, Async
  <2>2. w' = [w EXCEPT !.ctl = "idle"]
    BY <1>1, <1>0 DEF Around, Async, Return
  <2>4. o' \in Conn
    BY <2>1 DEF Conn, States, Statuses
  <2>5. w' \in Around
    BY <1>1, <1>0, <2>2 DEF Around
  <2>6. Timed' /\ Framed' /\ Sockets' /\ Seen' /\ Filtered' /\ Woken'
    BY <1>1, <1>0, <2>1, <2>2, <2>4, <2>5, HttpAssumption DEF Runs, Conn, Around, Timed, Framed,
       Sockets, Seen, Filtered, Woken, Waits, Final, Sized
  <2> QED
    BY <2>4, <2>5, <2>6
<1>2. w.conts = 0
  BY <1>0 DEF Framed, Runs, Waits
<1> QED
  BY <1>1, <1>2

\* An operation failed.
LEMMA IoerrStep == ASSUME HttpInv, w.ctl = "proc" /\ o.alive /\ o.st \in Waits, tcp_ioerr PROVE HttpInv'
<1> USE DEF HttpInv, Types
<1>0. /\ w.conts \in 0..1 /\ w.conts + 0 = w.conts
      /\ w.conts = 0 => w.conts + 1 = 1 /\ ~ w.conts > 0
      /\ w.conts # 0 => w.conts > 0 /\ w.conts - 1 = 0
  BY DEF Around
<1>1. CASE o.reconnects = MaxReconnect
  <2>1. o' = [o EXCEPT !.aio = "none", !.reconnects = @ + 1, !.st = "ERR"]
    BY <1>1 DEF Conn, tcp_ioerr, ioerr
  <2>2. w' = w
    BY <1>1, <1>0 DEF Around, tcp_ioerr
  <2>3. o.reconnects + 1 \in 0..(MaxReconnect + 1)
    BY <1>1, <1>0, HttpAssumption DEF Conn
  <2>4. o' \in Conn
    BY <2>1, <2>3 DEF Conn, States
  <2>5. w' \in Around
    BY <1>1, <1>0, <2>2, <2>3 DEF Around
  <2>6. Timed' /\ Framed' /\ Woken'
    BY <1>1, <1>0, <2>1, <2>2, <2>3, HttpAssumption DEF Runs, Conn, Around, Timed, Framed, Woken,
       Waits, tcp_ioerr
  <2>7. Sockets'
    BY <1>1, <1>0, <2>1, <2>2, <2>3, HttpAssumption DEF Runs, Conn, Around, Sockets, tcp_ioerr
  <2>8. Seen'
    BY <1>1, <1>0, <2>1, <2>2, <2>3, HttpAssumption DEF Runs, Conn, Around, Timed, Framed, Seen,
       Waits, Final, tcp_ioerr
  <2>9. Filtered'
    BY <1>1, <1>0, <2>1, <2>2, <2>3, HttpAssumption DEF Runs, Conn, Around, Framed, Seen, Filtered,
       Waits, Final, Sized, tcp_ioerr
  <2> QED
    BY <2>4, <2>5, <2>6, <2>7, <2>8, <2>9
<1>2. CASE o.reconnects # MaxReconnect
  <2>0. o.open - (IF o.sk THEN 1 ELSE 0) = 0 /\ 0 \in Nat
    BY <1>2, <1>0, HttpAssumption DEF Sockets, Conn
  <2>1. o' = [o EXCEPT !.sk = FALSE, !.aio = "none", !.open = 0, !.reconnects = @ + 1, !.hlen = 0,
          !.st = "ADDR"]
    BY <1>2, <2>0 DEF Conn, tcp_ioerr, ioerr, close_skt
  <2>2. w' = w
    BY <1>2, <2>0, <1>0 DEF Around, tcp_ioerr
  <2>3. o.reconnects + 1 \in 0..MaxReconnect /\ o.reconnects + 1 \in 0..(MaxReconnect + 1)
          /\ 0 \in 0..BufSize /\ "ADDR" \in States
    BY <1>2, <2>0, <1>0, HttpAssumption DEF Conn, Timed, Waits, States
  <2>4. o' \in Conn
    BY <2>1, <2>0, <2>3 DEF Conn
  <2>5. w' \in Around
    BY <1>2, <2>0, <1>0, <2>2, <2>3 DEF Around
  <2>6. Timed' /\ Framed' /\ Sockets' /\ Seen' /\ Filtered' /\ Woken'
    BY <1>2, <1>0, <2>0, <2>1, <2>2, <2>3, <2>4, <2>5, HttpAssumption DEF Runs, Conn, Around, Timed,
       Framed, Sockets, Seen, Filtered, Woken, Waits, Final, Sized
  <2> QED
    BY <2>4, <2>5, <2>6
<1> QED
  BY <1>1, <1>2

\* A connection is made, fails or is waited for.
LEMMA ConnectStep == ASSUME HttpInv, Connect PROVE HttpInv'
<1> USE DEF HttpInv, Types
<1>0. /\ w.conts \in 0..1 /\ w.conts + 0 = w.conts
      /\ w.conts = 0 => w.conts + 1 = 1 /\ ~ w.conts > 0
      /\ w.conts # 0 => w.conts > 0 /\ w.conts - 1 = 0
  BY DEF Around
<1>1. CASE Runs("CONN") /\ Async
  BY <1>1, AsyncStep DEF Waits
<1>2. CASE Runs("CONN") /\ o' = [close_skt(o) EXCEPT !.st = "NEXTADDR"] /\ UNCHANGED w
  <2>0. o.open - (IF o.sk THEN 1 ELSE 0) = 0 /\ 0 \in Nat
    BY <1>2, <1>0, HttpAssumption DEF Sockets, Conn
  <2>1. o' = [o EXCEPT !.sk = FALSE, !.aio = "none", !.open = 0, !.st = "NEXTADDR"]
    BY <1>2, <2>0 DEF Conn, close_skt
  <2>2. w' = w
    BY <1>2, <2>0, <1>0 DEF Around
  <2>4. o' \in Conn
    BY <2>1, <2>0 DEF Conn, States
  <2>5. w' \in Around
    BY <1>2, <2>0, <1>0, <2>2 DEF Around
  <2>6. Timed' /\ Framed' /\ Woken'
    BY <1>2, <1>0, <2>0, <2>1, <2>2, HttpAssumption DEF Runs, Conn, Around, Timed, Framed, Woken, Waits
  <2>7. Sockets'
    BY <1>2, <1>0, <2>0, <2>1, <2>2, HttpAssumption DEF Runs, Conn, Around, Sockets
  <2>8. Seen'
    BY <1>2, <1>0, <2>0, <2>1, <2>2, HttpAssumption DEF Runs, Conn, Around, Timed, Framed, Seen,
       Waits, Final
  <2>9. Filtered'
    BY <1>2, <1>0, <2>0, <2>1, <2>2, HttpAssumption DEF Runs, Conn, Around, Framed, Seen, Filtered,
       Waits, Final, Sized
  <2> QED
    BY <2>4, <2>5, <2>6, <2>7, <2>8, <2>9
<1>3. CASE Runs("CONN") /\ call_handler([o EXCEPT !.st = "REQ", !.addrs = 0, !.aio = "none"], w,
        "REQ_WAIT", 0)
  <2>1. o' = [o EXCEPT !.st = "REQ", !.addrs = 0, !.aio = "none", !.status = "REQ_WAIT"]
    BY <1>3 DEF Conn, call_handler
  <2>2. w' = [w EXCEPT !.ctl = "handler", !.owes = TRUE, !.conts = @ + 0]
    BY <1>3, <1>0 DEF Around, call_handler
  <2>3. 0 \in 0..Addrs
    BY <1>3, <1>0, HttpAssumption DEF Conn
  <2>4. o' \in Conn
    BY <2>1, <2>3 DEF Conn, States, Statuses
  <2>5. w' \in Around
    BY <1>3, <1>0, <2>2, <2>3 DEF Around
  <2>6. Timed' /\ Framed' /\ Sockets' /\ Seen' /\ Filtered' /\ Woken'
    BY <1>3, <1>0, <2>1, <2>2, <2>3, <2>4, <2>5, HttpAssumption DEF Runs, Conn, Around, Timed,
       Framed, Sockets, Seen, Filtered, Woken, Waits, Final, Sized
  <2> QED
    BY <2>4, <2>5, <2>6
<1> QED
  BY <1>1, <1>2, <1>3 DEF Connect

\* The request is prepared.
LEMMA RequestStep == ASSUME HttpInv, Request PROVE HttpInv'
<1> USE DEF HttpInv, Types
<1>0. /\ w.conts \in 0..1 /\ w.conts + 0 = w.conts
      /\ w.conts = 0 => w.conts + 1 = 1 /\ ~ w.conts > 0
      /\ w.conts # 0 => w.conts > 0 /\ w.conts - 1 = 0
  BY DEF Around
<1>1. CASE Runs("REQ") /\ Goto("REQ_SEND")
  <2>1. o' = [o EXCEPT !.st = "REQ_SEND"]
    BY <1>1 DEF Conn, Goto
  <2>2. w' = w
    BY <1>1, <1>0 DEF Around, Goto
  <2>4. o' \in Conn
    BY <2>1 DEF Conn, States, Statuses
  <2>5. w' \in Around
    BY <1>1, <1>0, <2>2 DEF Around
  <2>6. Timed' /\ Framed' /\ Sockets' /\ Seen' /\ Filtered' /\ Woken'
    BY <1>1, <1>0, <2>1, <2>2, <2>4, <2>5, HttpAssumption DEF Runs, Conn, Around, Timed, Framed,
       Sockets, Seen, Filtered, Woken, Waits, Final, Sized
  <2> QED
    BY <2>4, <2>5, <2>6
<1> QED
  BY <1>1 DEF Request

\* The request is sent, in one go or not.
LEMMA SendRequestStep == ASSUME HttpInv, SendRequest PROVE HttpInv'
<1> USE DEF HttpInv, Types
<1>0. /\ w.conts \in 0..1 /\ w.conts + 0 = w.conts
      /\ w.conts = 0 => w.conts + 1 = 1 /\ ~ w.conts > 0
      /\ w.conts # 0 => w.conts > 0 /\ w.conts - 1 = 0
  BY DEF Around
<1>1. CASE Runs("REQ_SEND") /\ Async
  BY <1>1, AsyncStep DEF Waits
<1>2. CASE Runs("REQ_SEND") /\ tcp_ioerr
  BY <1>2, IoerrStep DEF Waits, Runs
<1>3. CASE Runs("REQ_SEND") /\ call_handler([o EXCEPT !.st = "RESP", !.aio = "none"], w, "RESP_WAIT", 0)
  <2>1. o' = [o EXCEPT !.st = "RESP", !.aio = "none", !.status = "RESP_WAIT"]
    BY <1>3 DEF Conn, call_handler
  <2>2. w' = [w EXCEPT !.ctl = "handler", !.owes = TRUE, !.conts = @ + 0]
    BY <1>3, <1>0 DEF Around, call_handler
  <2>4. o' \in Conn
    BY <2>1 DEF Conn, States, Statuses
  <2>5. w' \in Around
    BY <1>3, <1>0, <2>2 DEF Around
  <2>6. Timed' /\ Framed' /\ Sockets' /\ Seen' /\ Filtered' /\ Woken'
    BY <1>3, <1>0, <2>1, <2>2, <2>4, <2>5, HttpAssumption DEF Runs, Conn, Around, Timed, Framed,
       Sockets, Seen, Filtered, Woken, Waits, Final, Sized
  <2> QED
    BY <2>4, <2>5, <2>6
<1> QED
  BY <1>1, <1>2, <1>3 DEF SendRequest

\* Headers come, do not fit, or do not come.
LEMMA RecvHeadersStep == ASSUME HttpInv, RecvHeaders PROVE HttpInv'
<1> USE DEF HttpInv, Types
<1>0. /\ w.conts \in 0..1 /\ w.conts + 0 = w.conts
      /\ w.conts = 0 => w.conts + 1 = 1 /\ ~ w.conts > 0
      /\ w.conts # 0 => w.conts > 0 /\ w.conts - 1 = 0
  BY DEF Around
<1>1. CASE Runs("RESP") /\ Async
  BY <1>1, AsyncStep DEF Waits
<1>2. CASE Runs("RESP") /\ tcp_ioerr
  BY <1>2, IoerrStep DEF Waits, Runs
<1>3. CASE Runs("RESP") /\ Goto("ERR")
  <2>1. o' = [o EXCEPT !.st = "ERR"]
    BY <1>3 DEF Conn, Goto
  <2>2. w' = w
    BY <1>3, <1>0 DEF Around, Goto
  <2>4. o' \in Conn
    BY <2>1 DEF Conn, States, Statuses
  <2>5. w' \in Around
    BY <1>3, <1>0, <2>2 DEF Around
  <2>6. Timed' /\ Framed' /\ Sockets' /\ Seen' /\ Filtered' /\ Woken'
    BY <1>3, <1>0, <2>1, <2>2, <2>4, <2>5, HttpAssumption DEF Runs, Conn, Around, Timed, Framed,
       Sockets, Seen, Filtered, Woken, Waits, Final, Sized
  <2> QED
    BY <2>4, <2>5, <2>6
<1>4. CASE Runs("RESP") /\ o.hlen # BufSize /\ UNCHANGED w
         /\ o' = [o EXCEPT !.st = "RESP_PARSE", !.hlen = @ + 1, !.aio = "none"]
  <2>1. o' = [o EXCEPT !.st = "RESP_PARSE", !.hlen = @ + 1, !.aio = "none"]
    BY <1>4 DEF Conn
  <2>2. w' = w
    BY <1>4, <1>0 DEF Around
  <2>3. o.hlen + 1 \in 0..BufSize
    BY <1>4, <1>0, HttpAssumption DEF Conn
  <2>4. o' \in Conn
    BY <2>1, <2>3 DEF Conn, States, Statuses
  <2>5. w' \in Around
    BY <1>4, <1>0, <2>2, <2>3 DEF Around
  <2>6. Timed' /\ Framed' /\ Sockets' /\ Seen' /\ Filtered' /\ Woken'
    BY <1>4, <1>0, <2>1, <2>2, <2>3, <2>4, <2>5, HttpAssumption DEF Runs, Conn, Around, Timed,
       Framed, Sockets, Seen, Filtered, Woken, Waits, Final, Sized
  <2> QED
    BY <2>4, <2>5, <2>6
<1> QED
  BY <1>1, <1>2, <1>3, <1>4 DEF RecvHeaders

\* The headers are incomplete or bad.
LEMMA ParseMoreStep == ASSUME HttpInv, ParseMore PROVE HttpInv'
<1> USE DEF HttpInv, Types
<1>0. /\ w.conts \in 0..1 /\ w.conts + 0 = w.conts
      /\ w.conts = 0 => w.conts + 1 = 1 /\ ~ w.conts > 0
      /\ w.conts # 0 => w.conts > 0 /\ w.conts - 1 = 0
  BY DEF Around
<1>1. CASE Runs("RESP_PARSE") /\ Goto("RESP")
  <2>1. o' = [o EXCEPT !.st = "RESP"]
    BY <1>1 DEF Conn, Goto
  <2>2. w' = w
    BY <1>1, <1>0 DEF Around, Goto
  <2>4. o' \in Conn
    BY <2>1 DEF Conn, States, Statuses
  <2>5. w' \in Around
    BY <1>1, <1>0, <2>2 DEF Around
  <2>6. Timed' /\ Framed' /\ Sockets' /\ Seen' /\ Filtered' /\ Woken'
    BY <1>1, <1>0, <2>1, <2>2, <2>4, <2>5, HttpAssumption DEF Runs, Conn, Around, Timed, Framed,
       Sockets, Seen, Filtered, Woken, Waits, Final, Sized
  <2> QED
    BY <2>4, <2>5, <2>6
<1>2. CASE Runs("RESP_PARSE") /\ Goto("ERR")
  <2>1. o' = [o EXCEPT !.st = "ERR"]
    BY <1>2 DEF Conn, Goto
  <2>2. w' = w
    BY <1>2, <1>0 DEF Around, Goto
  <2>4. o' \in Conn
    BY <2>1 DEF Conn, States, Statuses
  <2>5. w' \in Around
    BY <1>2, <1>0, <2>2 DEF Around
  <2>6. Timed' /\ Framed' /\ Sockets' /\ Seen' /\ Filtered' /\ Woken'
    BY <1>2, <1>0, <2>1, <2>2, <2>4, <2>5, HttpAssumption DEF Runs, Conn, Around, Timed, Framed,
       Sockets, Seen, Filtered, Woken, Waits, Final, Sized
  <2> QED
    BY <2>4, <2>5, <2>6
<1> QED
  BY <1>1, <1>2 DEF ParseMore

\* A redirect: the socket is closed before the next one is made.
LEMMA ParseRedirectStep == ASSUME HttpInv, ParseRedirect PROVE HttpInv'
<1> USE DEF HttpInv, Types
<1>0. /\ w.conts \in 0..1 /\ w.conts + 0 = w.conts
      /\ w.conts = 0 => w.conts + 1 = 1 /\ ~ w.conts > 0
      /\ w.conts # 0 => w.conts > 0 /\ w.conts - 1 = 0
  BY DEF Around
<1>1. CASE o.noredirect
  <2>0. o.open - (IF o.sk THEN 1 ELSE 0) = 0 /\ 0 \in Nat
    BY <1>1, <1>0, HttpAssumption DEF Sockets, Conn
  <2>1. o' = [o EXCEPT !.sk = FALSE, !.aio = "none", !.open = 0, !.nredirect = more(@), !.hlen = 0,
          !.st = "DONE",
                       !.data = 0, !.status = "RESP"]
    BY <1>1, <2>0 DEF Conn, ParseRedirect, close_skt, call_handler
  <2>2. w' = [w EXCEPT !.ctl = "handler", !.owes = TRUE, !.conts = @ + 0,
                       !.body = "none", !.want = 0, !.got = 0]
    BY <1>1, <2>0, <1>0 DEF Around, ParseRedirect, call_handler
  <2>3. more(o.nredirect) \in 0..(MaxRedirect + 1) /\ 0 \in 0..BufSize /\ 0 \in 0..MaxBody /\ "DONE" \in States
          /\ "RESP" \in Statuses
    BY <1>1, <2>0, <1>0, MoreFits, HttpAssumption DEF Conn, States, Statuses
  <2>4. o' \in Conn
    BY <2>1, <2>0, <2>3 DEF Conn
  <2>5. w' \in Around
    BY <1>1, <2>0, <1>0, <2>2, <2>3 DEF Around, Bodies
  <2>6. Timed' /\ Framed' /\ Sockets' /\ Seen' /\ Filtered' /\ Woken'
    BY <1>1, <1>0, <2>0, <2>1, <2>2, <2>3, <2>4, <2>5, HttpAssumption DEF Runs, Conn, Around, Timed,
       Framed, Sockets, Seen, Filtered, Woken, Waits, Final, Sized, ParseRedirect
  <2> QED
    BY <2>4, <2>5, <2>6
<1>2. CASE ~ o.noredirect
  <2>0. o.open - (IF o.sk THEN 1 ELSE 0) = 0 /\ 0 \in Nat
    BY <1>2, <1>0, HttpAssumption DEF Sockets, Conn
  <2>1. o' = [o EXCEPT !.sk = FALSE, !.aio = "none", !.open = 0, !.nredirect = more(@), !.hlen = 0,
          !.st = "ADDR"]
    BY <1>2, <2>0 DEF Conn, ParseRedirect, close_skt
  <2>2. w' = [w EXCEPT !.follows = more(@)]
    BY <1>2, <2>0, <1>0 DEF Around, ParseRedirect
  <2>3. more(o.nredirect) \in 0..(MaxRedirect + 1) /\ 0 \in 0..BufSize /\ 0 \in 0..MaxBody /\ more(w.follows) \in 0..(MaxRedirect + 1)
          /\ "ADDR" \in States
    BY <1>2, <2>0, <1>0, MoreFits, HttpAssumption DEF Conn, States, Around
  <2>4. o' \in Conn
    BY <2>1, <2>0, <2>3 DEF Conn
  <2>5. w' \in Around
    BY <1>2, <2>0, <1>0, <2>2, <2>3 DEF Around
  <2>6. Timed' /\ Framed' /\ Sockets' /\ Seen' /\ Filtered' /\ Woken'
    BY <1>2, <1>0, <2>0, <2>1, <2>2, <2>3, <2>4, <2>5, HttpAssumption DEF Runs, Conn, Around, Timed,
       Framed, Sockets, Seen, Filtered, Woken, Waits, Final, Sized, ParseRedirect
  <2> QED
    BY <2>4, <2>5, <2>6
<1> QED
  BY <1>1, <1>2

\* The user is told the end, and the client rests.
LEMMA EndStep == ASSUME HttpInv, End PROVE HttpInv'
<1> USE DEF HttpInv, Types
<1>0. /\ w.conts \in 0..1 /\ w.conts + 0 = w.conts
      /\ w.conts = 0 => w.conts + 1 = 1 /\ ~ w.conts > 0
      /\ w.conts # 0 => w.conts > 0 /\ w.conts - 1 = 0
  BY DEF Around
<1>1. CASE Runs("DONE") /\ call_handler([o EXCEPT !.st = "NOOP"], w, "DONE", 0)
  <2>1. o' = [o EXCEPT !.st = "NOOP", !.status = "DONE"]
    BY <1>1 DEF Conn, call_handler
  <2>2. w' = [w EXCEPT !.ctl = "handler", !.owes = TRUE, !.conts = @ + 0]
    BY <1>1, <1>0 DEF Around, call_handler
  <2>4. o' \in Conn
    BY <2>1 DEF Conn, States, Statuses
  <2>5. w' \in Around
    BY <1>1, <1>0, <2>2 DEF Around
  <2>6. Timed' /\ Framed' /\ Sockets' /\ Seen' /\ Filtered' /\ Woken'
    BY <1>1, <1>0, <2>1, <2>2, <2>4, <2>5, HttpAssumption DEF Runs, Conn, Around, Timed, Framed,
       Sockets, Seen, Filtered, Woken, Waits, Final, Sized
  <2> QED
    BY <2>4, <2>5, <2>6
<1>2. CASE Runs("ERR") /\ call_handler([o EXCEPT !.st = "NOOP"], w, "ERR", 0)
  <2>1. o' = [o EXCEPT !.st = "NOOP", !.status = "ERR"]
    BY <1>2 DEF Conn, call_handler
  <2>2. w' = [w EXCEPT !.ctl = "handler", !.owes = TRUE, !.conts = @ + 0]
    BY <1>2, <1>0 DEF Around, call_handler
  <2>4. o' \in Conn
    BY <2>1 DEF Conn, States, Statuses
  <2>5. w' \in Around
    BY <1>2, <1>0, <2>2 DEF Around
  <2>6. Timed' /\ Framed' /\ Sockets' /\ Seen' /\ Filtered' /\ Woken'
    BY <1>2, <1>0, <2>1, <2>2, <2>4, <2>5, HttpAssumption DEF Runs, Conn, Around, Timed, Framed,
       Sockets, Seen, Filtered, Woken, Waits, Final, Sized
  <2> QED
    BY <2>4, <2>5, <2>6
<1>3. CASE Runs("ERR2") /\ call_handler([o EXCEPT !.st = "NOOP"], w, o.err2, 0)
  <2>1. o' = [o EXCEPT !.st = "NOOP", !.status = o.err2]
    BY <1>3 DEF Conn, call_handler
  <2>2. w' = [w EXCEPT !.ctl = "handler", !.owes = TRUE, !.conts = @ + 0]
    BY <1>3, <1>0 DEF Around, call_handler
  <2>4. o' \in Conn
    BY <2>1 DEF Conn, States, Statuses
  <2>5. w' \in Around
    BY <1>3, <1>0, <2>2 DEF Around
  <2>6. Timed' /\ Framed' /\ Sockets' /\ Seen' /\ Filtered' /\ Woken'
    BY <1>3, <1>0, <2>1, <2>2, <2>4, <2>5, HttpAssumption DEF Runs, Conn, Around, Timed, Framed,
       Sockets, Seen, Filtered, Woken, Waits, Final, Sized
  <2> QED
    BY <2>4, <2>5, <2>6
<1> QED
  BY <1>1, <1>2, <1>3 DEF End

\* The call of httpcl_process() after the end changes nothing.
LEMMA NoopStep == ASSUME HttpInv, Noop PROVE HttpInv'
<1> USE DEF HttpInv, Types
<1>0. /\ w.conts \in 0..1 /\ w.conts + 0 = w.conts
      /\ w.conts = 0 => w.conts + 1 = 1 /\ ~ w.conts > 0
      /\ w.conts # 0 => w.conts > 0 /\ w.conts - 1 = 0
  BY DEF Around
<1>1. CASE w.conts = 0
  <2>1. o' = o
    BY <1>1 DEF Conn, Noop
  <2>2. w' = [w EXCEPT !.ctl = "idle"]
    BY <1>1, <1>0 DEF Around, Noop, Return
  <2>4. o' \in Conn
    BY <2>1 DEF Conn, States, Statuses
  <2>5. w' \in Around
    BY <1>1, <1>0, <2>2 DEF Around
  <2>6. Timed' /\ Framed' /\ Sockets' /\ Seen' /\ Filtered' /\ Woken'
    BY <1>1, <1>0, <2>1, <2>2, <2>4, <2>5, HttpAssumption DEF Runs, Conn, Around, Timed, Framed,
       Sockets, Seen, Filtered, Woken, Waits, Final, Sized, Noop
  <2> QED
    BY <2>4, <2>5, <2>6
<1>2. CASE w.conts # 0
  <2>1. o' = o
    BY <1>2 DEF Conn, Noop
  <2>2. w' = [w EXCEPT !.ctl = "proc", !.conts = 0]
    BY <1>2, <1>0 DEF Around, Noop, Return
  <2>3. 0 \in 0..1
    BY <1>2, <1>0, HttpAssumption DEF Around
  <2>4. o' \in Conn
    BY <2>1, <2>3 DEF Conn, States, Statuses
  <2>5. w' \in Around
    BY <1>2, <1>0, <2>2, <2>3 DEF Around
  <2>6. Timed' /\ Framed' /\ Woken'
    BY <1>2, <1>0, <2>1, <2>2, <2>3, HttpAssumption DEF Runs, Conn, Around, Timed, Framed, Woken,
       Waits, Noop
  <2>7. Sockets'
    BY <1>2, <1>0, <2>1, <2>2, <2>3, HttpAssumption DEF Runs, Conn, Around, Sockets, Noop
  <2>8. Seen'
    BY <1>2, <1>0, <2>1, <2>2, <2>3, HttpAssumption DEF Runs, Conn, Around, Timed, Framed, Seen,
       Waits, Final, Noop
  <2>9. Filtered'
    BY <1>2, <1>0, <2>1, <2>2, <2>3, HttpAssumption DEF Runs, Conn, Around, Framed, Seen, Filtered,
       Waits, Final, Sized, Noop
  <2> QED
    BY <2>4, <2>5, <2>6, <2>7, <2>8, <2>9
<1> QED
  BY <1>1, <1>2

\* A response begins, with the filter for its body.
LEMMA ParseResponseStep == ASSUME HttpInv,
             NEW redirect \in BOOLEAN, NEW framing \in Bodies, NEW d \in 0..MaxBody,
                 NEW len \in 0..MaxBody,
             framing # "none" => len \in 1..MaxBody, ParseResponse(redirect, framing, len, d)
    PROVE  HttpInv'
<1> USE DEF HttpInv, Types
<1>0. /\ w.conts \in 0..1 /\ w.conts + 0 = w.conts
      /\ w.conts = 0 => w.conts + 1 = 1 /\ ~ w.conts > 0
      /\ w.conts # 0 => w.conts > 0 /\ w.conts - 1 = 0
  BY DEF Around
<1>8. PICK nr \in 0..(MaxRedirect + 1) : nr = IF redirect THEN more(o.nredirect) ELSE o.nredirect
  BY MoreFits DEF Conn
<1>9. /\ Runs("RESP_PARSE") /\ 0 \in 0..BufSize /\ 0 \in 0..MaxBody /\ 0 + d = d /\ 0 + len = len
           /\ d <= MaxBody
      /\ "DONE" \in States /\ "RESPBODY" \in States /\ "RESP" \in Statuses \cup {"none"}
      /\ framing \in Sized => framing \in Filters
      /\ "connclose" \in Filters
  BY HttpAssumption DEF ParseResponse, States, Statuses, Sized, Filters
<1>1. CASE framing = "none"
  <2>1. o' = [o EXCEPT !.nredirect = nr, !.hlen = 0, !.data = d, !.st = "DONE", !.status = "RESP"]
    BY <1>1, <1>8, <1>9 DEF Conn, ParseResponse, filter_open, call_handler, Sized
  <2>2. w' = [w EXCEPT !.ctl = "handler", !.owes = TRUE, !.conts = @ + 0,
                       !.body = framing, !.want = len, !.got = 0]
    BY <1>1, <1>8, <1>9, <1>0 DEF Around, ParseResponse, call_handler
  <2>4. o' \in Conn
    BY <1>1, <2>1, <1>8, <1>9 DEF Conn
  <2>5. w' \in Around
    BY <1>1, <1>8, <1>9, <1>0, <2>2 DEF Around, Bodies, Sized
  <2>6. Timed' /\ Framed' /\ Woken'
    BY <1>1, <1>0, <1>8, <1>9, <2>1, <2>2, HttpAssumption DEF Runs, Conn, Around, Timed, Framed,
       Woken, Waits
  <2>7. Sockets'
    BY <1>1, <1>0, <1>8, <1>9, <2>1, <2>2, HttpAssumption DEF Runs, Conn, Around, Sockets
  <2>8. Seen'
    BY <1>1, <1>0, <1>8, <1>9, <2>1, <2>2, HttpAssumption DEF Runs, Conn, Around, Timed, Framed,
       Seen, Waits, Final
  <2>9. Filtered'
    BY <1>1, <1>0, <1>8, <1>9, <2>1, <2>2, HttpAssumption DEF Runs, Conn, Around, Framed, Seen,
       Filtered, Waits, Final, Sized
  <2> QED
    BY <2>4, <2>5, <2>6, <2>7, <2>8, <2>9
<1>2. CASE framing = "other"
  <2>1. o' = [o EXCEPT !.nredirect = nr, !.hlen = 0, !.data = d, !.st = "RESPBODY", !.status = "RESP"]
    BY <1>2, <1>8, <1>9 DEF Conn, ParseResponse, filter_open, call_handler, Sized
  <2>2. w' = [w EXCEPT !.ctl = "handler", !.owes = TRUE, !.conts = @ + 0,
                       !.body = framing, !.want = len, !.got = 0]
    BY <1>2, <1>8, <1>9, <1>0 DEF Around, ParseResponse, call_handler
  <2>4. o' \in Conn
    BY <1>2, <2>1, <1>8, <1>9 DEF Conn
  <2>5. w' \in Around
    BY <1>2, <1>8, <1>9, <1>0, <2>2 DEF Around, Bodies, Sized
  <2>6. Timed' /\ Framed' /\ Woken'
    BY <1>2, <1>0, <1>8, <1>9, <2>1, <2>2, HttpAssumption DEF Runs, Conn, Around, Timed, Framed,
       Woken, Waits
  <2>7. Sockets'
    BY <1>2, <1>0, <1>8, <1>9, <2>1, <2>2, HttpAssumption DEF Runs, Conn, Around, Sockets
  <2>8. Seen'
    BY <1>2, <1>0, <1>8, <1>9, <2>1, <2>2, HttpAssumption DEF Runs, Conn, Around, Timed, Framed,
       Seen, Waits, Final
  <2>9. Filtered'
    BY <1>2, <1>0, <1>8, <1>9, <2>1, <2>2, HttpAssumption DEF Runs, Conn, Around, Framed, Seen,
       Filtered, Waits, Final, Sized
  <2> QED
    BY <2>4, <2>5, <2>6, <2>7, <2>8, <2>9
<1>3. CASE framing = "connclose"
  <2>1. o' = [o EXCEPT !.nredirect = nr, !.hlen = 0, !.data = d, !.st = "RESPBODY", !.f = framing,
          !.left = 0, !.status = "RESP"]
    BY <1>3, <1>8, <1>9 DEF Conn, ParseResponse, filter_open, call_handler, Sized
  <2>2. w' = [w EXCEPT !.ctl = "handler", !.owes = TRUE, !.conts = @ + 0,
                       !.body = framing, !.want = len, !.got = 0]
    BY <1>3, <1>8, <1>9, <1>0 DEF Around, ParseResponse, call_handler
  <2>4. o' \in Conn
    BY <1>3, <2>1, <1>8, <1>9 DEF Conn
  <2>5. w' \in Around
    BY <1>3, <1>8, <1>9, <1>0, <2>2 DEF Around, Bodies, Sized
  <2>6. Timed' /\ Framed' /\ Woken'
    BY <1>3, <1>0, <1>8, <1>9, <2>1, <2>2, HttpAssumption DEF Runs, Conn, Around, Timed, Framed,
       Woken, Waits
  <2>7. Sockets'
    BY <1>3, <1>0, <1>8, <1>9, <2>1, <2>2, HttpAssumption DEF Runs, Conn, Around, Sockets
  <2>8. Seen'
    BY <1>3, <1>0, <1>8, <1>9, <2>1, <2>2, HttpAssumption DEF Runs, Conn, Around, Timed, Framed,
       Seen, Waits, Final
  <2>9. Filtered'
    BY <1>3, <1>0, <1>8, <1>9, <2>1, <2>2, HttpAssumption DEF Runs, Conn, Around, Framed, Seen,
       Filtered, Waits, Final, Sized
  <2> QED
    BY <2>4, <2>5, <2>6, <2>7, <2>8, <2>9
<1>4. CASE framing \in Sized
  <2>1. o' = [o EXCEPT !.nredirect = nr, !.hlen = 0, !.data = d, !.st = "RESPBODY", !.f = framing,
          !.left = len, !.status = "RESP"]
    BY <1>4, <1>8, <1>9 DEF Conn, ParseResponse, filter_open, call_handler, Sized
  <2>2. w' = [w EXCEPT !.ctl = "handler", !.owes = TRUE, !.conts = @ + 0,
                       !.body = framing, !.want = len, !.got = 0]
    BY <1>4, <1>8, <1>9, <1>0 DEF Around, ParseResponse, call_handler
  <2>4. o' \in Conn
    BY <1>4, <2>1, <1>8, <1>9 DEF Conn
  <2>5. w' \in Around
    BY <1>4, <1>8, <1>9, <1>0, <2>2 DEF Around, Bodies, Sized
  <2>6. Timed' /\ Framed' /\ Woken'
    BY <1>4, <1>0, <1>8, <1>9, <2>1, <2>2, HttpAssumption DEF Runs, Conn, Around, Timed, Framed,
       Woken, Waits
  <2>7. Sockets'
    BY <1>4, <1>0, <1>8, <1>9, <2>1, <2>2, HttpAssumption DEF Runs, Conn, Around, Sockets
  <2>8. Seen'
    BY <1>4, <1>0, <1>8, <1>9, <2>1, <2>2, HttpAssumption DEF Runs, Conn, Around, Timed, Framed,
       Seen, Waits, Final
  <2>9. Filtered'
    BY <1>4, <1>0, <1>8, <1>9, <2>1, <2>2, HttpAssumption DEF Runs, Conn, Around, Framed, Seen,
       Filtered, Waits, Final, Sized
  <2> QED
    BY <2>4, <2>5, <2>6, <2>7, <2>8, <2>9
<1> QED
  BY <1>1, <1>2, <1>3, <1>4 DEF Bodies, Sized

\* Any response that is not followed.
LEMMA ParseBodyStep == ASSUME HttpInv, ParseBody PROVE HttpInv'
<1>1. PICK redirect \in BOOLEAN, framing \in Framings \cup {"none"}, d \in 0..MaxBody :
         \E len \in IF framing = "none" THEN {0} ELSE 1..MaxBody : ParseResponse(redirect, framing,
             len, d)
  BY DEF ParseBody
<1>2. PICK len \in IF framing = "none" THEN {0} ELSE 1..MaxBody : ParseResponse(redirect, framing,
        len, d)
  BY <1>1
<1>3. framing \in Bodies /\ len \in 0..MaxBody /\ (framing # "none" => len \in 1..MaxBody)
  BY HttpAssumption DEF Bodies
<1> QED
  BY <1>2, <1>3, ParseResponseStep

\* The body: a piece of it, or its end.
LEMMA RecvBodyStep == ASSUME HttpInv, RecvBody PROVE HttpInv'
<1> USE DEF HttpInv, Types
<1>0. /\ w.conts \in 0..1 /\ w.conts + 0 = w.conts
      /\ w.conts = 0 => w.conts + 1 = 1 /\ ~ w.conts > 0
      /\ w.conts # 0 => w.conts > 0 /\ w.conts - 1 = 0
  BY DEF Around
<1>1. CASE Runs("RECVBODY") /\ Async
  BY <1>1, AsyncStep DEF Waits
<1>2. CASE Runs("RECVBODY") /\ tcp_ioerr
  BY <1>2, IoerrStep DEF Waits, Runs
<1>3. ASSUME NEW n \in 1..(MaxBody - w.got), Runs("RECVBODY"), UNCHANGED w,
             o' = [o EXCEPT !.data = n, !.st = "RESPBODY", !.aio = "none"]
      PROVE  HttpInv'
  <2>1. o' = [o EXCEPT !.data = n, !.st = "RESPBODY", !.aio = "none"]
    BY <1>3 DEF Conn
  <2>2. w' = w
    BY <1>3, <1>0 DEF Around
  <2>3. n \in 0..MaxBody /\ w.got + n <= MaxBody /\ "RESPBODY" \in States
    BY <1>3, <1>0, HttpAssumption DEF Around, States
  <2>4. o' \in Conn
    BY <2>1, <2>3 DEF Conn
  <2>5. w' \in Around
    BY <1>3, <1>0, <2>2, <2>3 DEF Around
  <2>6. Timed' /\ Framed' /\ Woken'
    BY <1>3, <1>0, <2>1, <2>2, <2>3, HttpAssumption DEF Runs, Conn, Around, Timed, Framed, Woken, Waits
  <2>7. Sockets'
    BY <1>3, <1>0, <2>1, <2>2, <2>3, HttpAssumption DEF Runs, Conn, Around, Sockets
  <2>8. Seen'
    BY <1>3, <1>0, <2>1, <2>2, <2>3, HttpAssumption DEF Runs, Conn, Around, Timed, Framed, Seen,
       Waits, Final
  <2>9. Filtered'
    BY <1>3, <1>0, <2>1, <2>2, <2>3, HttpAssumption DEF Runs, Conn, Around, Framed, Seen, Filtered,
       Waits, Final, Sized
  <2> QED
    BY <2>4, <2>5, <2>6, <2>7, <2>8, <2>9
<1>4. CASE Runs("RECVBODY") /\ o.f = "connclose"
         /\ call_handler([o EXCEPT !.st = "DONE", !.aio = "none"], w, "RESP_RECV", 1)
  <2>0. w.conts = 0 /\ w.conts + 1 \in 0..1 /\ "DONE" \in States
          /\ "RESP_RECV" \in Statuses \cup {"none"}
    BY <1>4, <1>0, HttpAssumption DEF Framed, Runs, States, Statuses
  <2>1. o' = [o EXCEPT !.st = "DONE", !.aio = "none", !.status = "RESP_RECV"]
    BY <1>4, <2>0 DEF Conn, call_handler
  <2>2. w' = [w EXCEPT !.ctl = "handler", !.owes = TRUE, !.conts = @ + 1]
    BY <1>4, <2>0, <1>0 DEF Around, call_handler
  <2>4. o' \in Conn
    BY <2>1, <2>0 DEF Conn
  <2>5. w' \in Around
    BY <1>4, <2>0, <1>0, <2>2 DEF Around
  <2>6. Timed' /\ Framed' /\ Woken'
    BY <1>4, <1>0, <2>0, <2>1, <2>2, HttpAssumption DEF Runs, Conn, Around, Timed, Framed, Woken, Waits
  <2>7. Sockets'
    BY <1>4, <1>0, <2>0, <2>1, <2>2, HttpAssumption DEF Runs, Conn, Around, Sockets
  <2>8. Seen'
    BY <1>4, <1>0, <2>0, <2>1, <2>2, HttpAssumption DEF Runs, Conn, Around, Timed, Framed, Seen,
       Waits, Final
  <2>9. Filtered'
    BY <1>4, <1>0, <2>0, <2>1, <2>2, HttpAssumption DEF Runs, Conn, Around, Framed, Seen, Filtered,
       Waits, Final, Sized
  <2> QED
    BY <2>4, <2>5, <2>6, <2>7, <2>8, <2>9
<1>5. CASE Runs("RECVBODY") /\ o.f # "connclose" /\ o' = [o EXCEPT !.st = "ERR", !.aio = "none"]
        /\ UNCHANGED w
  <2>1. o' = [o EXCEPT !.st = "ERR", !.aio = "none"]
    BY <1>5 DEF Conn
  <2>2. w' = w
    BY <1>5, <1>0 DEF Around
  <2>4. o' \in Conn
    BY <2>1 DEF Conn, States, Statuses
  <2>5. w' \in Around
    BY <1>5, <1>0, <2>2 DEF Around
  <2>6. Timed' /\ Framed' /\ Woken'
    BY <1>5, <1>0, <2>1, <2>2, HttpAssumption DEF Runs, Conn, Around, Timed, Framed, Woken, Waits
  <2>7. Sockets'
    BY <1>5, <1>0, <2>1, <2>2, HttpAssumption DEF Runs, Conn, Around, Sockets
  <2>8. Seen'
    BY <1>5, <1>0, <2>1, <2>2, HttpAssumption DEF Runs, Conn, Around, Timed, Framed, Seen, Waits, Final
  <2>9. Filtered'
    BY <1>5, <1>0, <2>1, <2>2, HttpAssumption DEF Runs, Conn, Around, Framed, Seen, Filtered, Waits,
       Final, Sized
  <2> QED
    BY <2>4, <2>5, <2>6, <2>7, <2>8, <2>9
<1> QED
  BY <1>1, <1>2, <1>3, <1>4, <1>5 DEF RecvBody

\* A filter takes no more than there is, nor more than is left of the body.
LEMMA PiecesFit ==
    ASSUME Types, NEW n \in Pieces
    PROVE  n \in Nat /\ n <= o.data /\ (o.f # "connclose" => n <= o.left)
<1>1. o.data \in Nat /\ o.left \in Nat
  BY DEF Types, Conn
<1>2. Min({o.data, o.left}) \in Nat /\ Min({o.data, o.left}) <= o.data /\ Min({o.data,
        o.left}) <= o.left
  BY <1>1, SMTT(30) DEF Min
<1> QED
  BY <1>1, <1>2 DEF Pieces

\* A filter hands out a piece; DONE if it was the last of a sized body.
LEMMA FilterDataStep == ASSUME HttpInv, NEW n \in Pieces, Runs("RESPBODY"), FilterData(n) PROVE HttpInv'
<1> USE DEF HttpInv, Types
<1>0. /\ w.conts \in 0..1 /\ w.conts + 0 = w.conts
      /\ w.conts = 0 => w.conts + 1 = 1 /\ ~ w.conts > 0
      /\ w.conts # 0 => w.conts > 0 /\ w.conts - 1 = 0
  BY DEF Around
<1>8. n \in Nat /\ n <= o.data /\ (o.f # "connclose" => n <= o.left)
  BY PiecesFit
<1>9. o.data - n \in 0..MaxBody /\ w.got + n \in 0..MaxBody
        /\ (o.f # "connclose" => o.left - n \in 0..MaxBody)
  BY <1>8, HttpAssumption DEF Conn, Around, Filtered, Runs
<1>10. PICK rest \in 0..MaxBody : rest = o.data - n
  BY <1>9
<1>11. PICK out \in 0..MaxBody : out = w.got + n
  BY <1>9
<1>12. PICK rem \in 0..MaxBody : rem = IF o.f = "connclose" THEN 0 ELSE o.left - n
  BY <1>9, HttpAssumption
<1>13. /\ out + rest <= MaxBody
       /\ o.f # "connclose" => out + rem = w.got + o.left /\ (rem = 0 => out = w.got + o.left)
  BY <1>8, <1>10, <1>11, <1>12, HttpAssumption DEF Conn, Around, Filtered, Runs
<1>14. o.st = "RESPBODY" /\ "RESPBODY" \in States /\ w.conts = 0 /\ w.conts + 1 \in 0..1
         /\ w.conts + 0 \in 0..1 /\ "DONE" \in States /\ "RECVBODY" \in States
         /\ "RESP_RECV" \in Statuses \cup {"none"}
  BY <1>0 DEF Framed, Runs, States, Statuses
<1>1. CASE o.f # "connclose" /\ rem = 0
  <2>1. o' = [o EXCEPT !.data = rest, !.left = rem, !.st = "DONE", !.status = "RESP_RECV"]
    BY <1>1, <1>10, <1>11, <1>12, <1>13, <1>14 DEF Conn, FilterData, call_handler, Conn
  <2>2. w' = [w EXCEPT !.ctl = "handler", !.owes = TRUE, !.conts = @ + 1, !.got = out]
    BY <1>1, <1>10, <1>11, <1>12, <1>13, <1>14, <1>0 DEF Around, FilterData, call_handler, Conn
  <2>4. o' \in Conn
    BY <2>1, <1>14 DEF Conn
  <2>5. w' \in Around
    BY <1>1, <1>10, <1>11, <1>12, <1>13, <1>14, <1>0, <2>2 DEF Around
  <2>6. Timed' /\ Framed' /\ Woken'
    BY <1>1, <1>0, <1>10, <1>11, <1>12, <1>13, <1>14, <2>1, <2>2, HttpAssumption DEF Runs, Conn,
       Around, Timed, Framed, Woken, Waits
  <2>7. Sockets'
    BY <1>1, <1>0, <1>10, <1>11, <1>12, <1>13, <1>14, <2>1, <2>2, HttpAssumption DEF Runs, Conn,
       Around, Sockets
  <2>8. Seen'
    BY <1>1, <1>0, <1>10, <1>11, <1>12, <1>13, <1>14, <2>1, <2>2, HttpAssumption DEF Runs, Conn,
       Around, Timed, Framed, Seen, Waits, Final
  <2>9. Filtered'
    BY <1>1, <1>0, <1>10, <1>11, <1>12, <1>13, <1>14, <2>1, <2>2, HttpAssumption DEF Runs, Conn,
       Around, Framed, Seen, Filtered, Waits, Final, Sized
  <2> QED
    BY <2>4, <2>5, <2>6, <2>7, <2>8, <2>9
<1>2. CASE ~ (o.f # "connclose" /\ rem = 0) /\ rest = 0
  <2>1. o' = [o EXCEPT !.data = rest, !.left = rem, !.st = "RECVBODY", !.status = "RESP_RECV"]
    BY <1>2, <1>10, <1>11, <1>12, <1>13, <1>14 DEF Conn, FilterData, call_handler, Conn
  <2>2. w' = [w EXCEPT !.ctl = "handler", !.owes = TRUE, !.conts = @ + 0, !.got = out]
    BY <1>2, <1>10, <1>11, <1>12, <1>13, <1>14, <1>0 DEF Around, FilterData, call_handler, Conn
  <2>4. o' \in Conn
    BY <2>1, <1>14 DEF Conn
  <2>5. w' \in Around
    BY <1>2, <1>10, <1>11, <1>12, <1>13, <1>14, <1>0, <2>2 DEF Around
  <2>6. Timed' /\ Framed' /\ Woken'
    BY <1>2, <1>0, <1>10, <1>11, <1>12, <1>13, <1>14, <2>1, <2>2, HttpAssumption DEF Runs, Conn,
       Around, Timed, Framed, Woken, Waits
  <2>7. Sockets'
    BY <1>2, <1>0, <1>10, <1>11, <1>12, <1>13, <1>14, <2>1, <2>2, HttpAssumption DEF Runs, Conn,
       Around, Sockets
  <2>8. Seen'
    BY <1>2, <1>0, <1>10, <1>11, <1>12, <1>13, <1>14, <2>1, <2>2, HttpAssumption DEF Runs, Conn,
       Around, Timed, Framed, Seen, Waits, Final
  <2>9. Filtered'
    BY <1>2, <1>0, <1>10, <1>11, <1>12, <1>13, <1>14, <2>1, <2>2, HttpAssumption DEF Runs, Conn,
       Around, Framed, Seen, Filtered, Waits, Final, Sized
  <2> QED
    BY <2>4, <2>5, <2>6, <2>7, <2>8, <2>9
<1>3. CASE ~ (o.f # "connclose" /\ rem = 0) /\ rest # 0
  <2>1. o' = [o EXCEPT !.data = rest, !.left = rem, !.st = "RESPBODY", !.status = "RESP_RECV"]
    BY <1>3, <1>10, <1>11, <1>12, <1>13, <1>14 DEF Conn, FilterData, call_handler, Conn
  <2>2. w' = [w EXCEPT !.ctl = "handler", !.owes = TRUE, !.conts = @ + 0, !.got = out]
    BY <1>3, <1>10, <1>11, <1>12, <1>13, <1>14, <1>0 DEF Around, FilterData, call_handler, Conn
  <2>4. o' \in Conn
    BY <2>1, <1>14 DEF Conn
  <2>5. w' \in Around
    BY <1>3, <1>10, <1>11, <1>12, <1>13, <1>14, <1>0, <2>2 DEF Around
  <2>6. Timed' /\ Framed' /\ Woken'
    BY <1>3, <1>0, <1>10, <1>11, <1>12, <1>13, <1>14, <2>1, <2>2, HttpAssumption DEF Runs, Conn,
       Around, Timed, Framed, Woken, Waits
  <2>7. Sockets'
    BY <1>3, <1>0, <1>10, <1>11, <1>12, <1>13, <1>14, <2>1, <2>2, HttpAssumption DEF Runs, Conn,
       Around, Sockets
  <2>8. Seen'
    BY <1>3, <1>0, <1>10, <1>11, <1>12, <1>13, <1>14, <2>1, <2>2, HttpAssumption DEF Runs, Conn,
       Around, Timed, Framed, Seen, Waits, Final
  <2>9. Filtered'
    BY <1>3, <1>0, <1>10, <1>11, <1>12, <1>13, <1>14, <2>1, <2>2, HttpAssumption DEF Runs, Conn,
       Around, Framed, Seen, Filtered, Waits, Final, Sized
  <2> QED
    BY <2>4, <2>5, <2>6, <2>7, <2>8, <2>9
<1> QED
  BY <1>1, <1>2, <1>3

\* A call through NULL ends the process.
LEMMA FaultStep == ASSUME HttpInv, w.ctl = "proc", Fault PROVE HttpInv'
<1> USE DEF HttpInv, Types
<1>1. o' = o /\ w' = [w EXCEPT !.ctl = "fault"]
  BY DEF Fault
<1>2. w' \in Around
  BY <1>1 DEF Around
<1>3. Timed' /\ Framed' /\ Woken'
  BY <1>1 DEF Around, Conn, Timed, Framed, Woken
<1>4. Sockets' /\ Seen' /\ Filtered'
  BY <1>1 DEF Around, Conn, Sockets, Seen, Filtered
<1> QED
  BY <1>1, <1>2, <1>3, <1>4

\* Data that a filter does not accept ends the request.
LEMMA RespBodyStep == ASSUME HttpInv, RespBody PROVE HttpInv'
<1> USE DEF HttpInv, Types
<1>0. /\ w.conts \in 0..1 /\ w.conts + 0 = w.conts
      /\ w.conts = 0 => w.conts + 1 = 1 /\ ~ w.conts > 0
      /\ w.conts # 0 => w.conts > 0 /\ w.conts - 1 = 0
  BY DEF Around
<1>1. CASE Runs("RESPBODY") /\ o.f = "chunked" /\ Goto("ERR")
  <2>1. o' = [o EXCEPT !.st = "ERR"]
    BY <1>1 DEF Conn, Goto
  <2>2. w' = w
    BY <1>1, <1>0 DEF Around, Goto
  <2>4. o' \in Conn
    BY <2>1 DEF Conn, States, Statuses
  <2>5. w' \in Around
    BY <1>1, <1>0, <2>2 DEF Around
  <2>6. Timed' /\ Framed' /\ Woken'
    BY <1>1, <1>0, <2>1, <2>2, HttpAssumption DEF Runs, Conn, Around, Timed, Framed, Woken, Waits
  <2>7. Sockets'
    BY <1>1, <1>0, <2>1, <2>2, HttpAssumption DEF Runs, Conn, Around, Sockets
  <2>8. Seen'
    BY <1>1, <1>0, <2>1, <2>2, HttpAssumption DEF Runs, Conn, Around, Timed, Framed, Seen, Waits, Final
  <2>9. Filtered'
    BY <1>1, <1>0, <2>1, <2>2, HttpAssumption DEF Runs, Conn, Around, Framed, Seen, Filtered, Waits,
       Final, Sized
  <2> QED
    BY <2>4, <2>5, <2>6, <2>7, <2>8, <2>9
<1>2. CASE Runs("RESPBODY") /\ \E n \in Pieces : FilterData(n)
  BY <1>2, FilterDataStep
<1>3. CASE Runs("RESPBODY") /\ Fault
  BY <1>3, FaultStep DEF Runs
<1> QED
  BY <1>1, <1>2, <1>3 DEF RespBody
-----------------------------------------------------------------------------
(* What enters the loop *)

\* The user goes on.
LEMMA SendStep == ASSUME HttpInv, ffhttpcl_send PROVE HttpInv'
<1> USE DEF HttpInv, Types
<1>0. /\ w.conts \in 0..1 /\ w.conts + 0 = w.conts
      /\ w.conts = 0 => w.conts + 1 = 1 /\ ~ w.conts > 0
      /\ w.conts # 0 => w.conts > 0 /\ w.conts - 1 = 0
  BY DEF Around
<1>1. CASE w.conts = 0
  <2>1. o' = o
    BY <1>1 DEF Conn, ffhttpcl_send
  <2>2. w' = [w EXCEPT !.ctl = "proc", !.owes = FALSE]
    BY <1>1, <1>0 DEF Around, ffhttpcl_send
  <2>4. o' \in Conn
    BY <2>1 DEF Conn, States, Statuses
  <2>5. w' \in Around
    BY <1>1, <1>0, <2>2 DEF Around
  <2>6. Timed' /\ Framed' /\ Woken'
    BY <1>1, <1>0, <2>1, <2>2, HttpAssumption DEF Runs, Conn, Around, Timed, Framed, Woken, Waits,
       ffhttpcl_send, MayAct
  <2>7. Sockets'
    BY <1>1, <1>0, <2>1, <2>2, HttpAssumption DEF Runs, Conn, Around, Sockets, ffhttpcl_send, MayAct
  <2>8. Seen'
    BY <1>1, <1>0, <2>1, <2>2, HttpAssumption DEF Runs, Conn, Around, Timed, Framed, Seen, Waits,
       Final, ffhttpcl_send, MayAct
  <2>9. Filtered'
    BY <1>1, <1>0, <2>1, <2>2, HttpAssumption DEF Runs, Conn, Around, Framed, Seen, Filtered, Waits,
       Final, Sized, ffhttpcl_send, MayAct
  <2> QED
    BY <2>4, <2>5, <2>6, <2>7, <2>8, <2>9
<1>2. CASE w.conts # 0
  <2>1. o' = o
    BY <1>2 DEF Conn, ffhttpcl_send
  <2>2. w' = [w EXCEPT !.ctl = "proc", !.owes = FALSE]
    BY <1>2, <1>0 DEF Around, ffhttpcl_send
  <2>4. o' \in Conn
    BY <2>1 DEF Conn, States, Statuses
  <2>5. w' \in Around
    BY <1>2, <1>0, <2>2 DEF Around
  <2>6. Timed' /\ Framed' /\ Woken'
    BY <1>2, <1>0, <2>1, <2>2, HttpAssumption DEF Runs, Conn, Around, Timed, Framed, Woken, Waits,
       ffhttpcl_send, MayAct
  <2>7. Sockets'
    BY <1>2, <1>0, <2>1, <2>2, HttpAssumption DEF Runs, Conn, Around, Sockets, ffhttpcl_send, MayAct
  <2>8. Seen'
    BY <1>2, <1>0, <2>1, <2>2, HttpAssumption DEF Runs, Conn, Around, Timed, Framed, Seen, Waits,
       Final, ffhttpcl_send, MayAct
  <2>9. Filtered'
    BY <1>2, <1>0, <2>1, <2>2, HttpAssumption DEF Runs, Conn, Around, Framed, Seen, Filtered, Waits,
       Final, Sized, ffhttpcl_send, MayAct
  <2> QED
    BY <2>4, <2>5, <2>6, <2>7, <2>8, <2>9
<1> QED
  BY <1>1, <1>2

\* The user has enough: no socket, no operation and no timer is left.
LEMMA CloseStep == ASSUME HttpInv, ffhttpcl_close PROVE HttpInv'
<1> USE DEF HttpInv, Types
<1>0. /\ w.conts \in 0..1 /\ w.conts + 0 = w.conts
      /\ w.conts = 0 => w.conts + 1 = 1 /\ ~ w.conts > 0
      /\ w.conts # 0 => w.conts > 0 /\ w.conts - 1 = 0
  BY DEF Around
<1>1. CASE w.conts = 0
  <2>0. o.open - (IF o.sk THEN 1 ELSE 0) = 0 /\ 0 \in Nat /\ "none" \in Filters
    BY <1>1, <1>0, HttpAssumption DEF Sockets, Conn, Filters
  <2>1. o' = [o EXCEPT !.sk = FALSE, !.aio = "none", !.open = 0, !.alive = FALSE, !.tmr = FALSE,
          !.f = "none"]
    BY <1>1, <2>0 DEF Conn, ffhttpcl_close, close_skt
  <2>2. w' = [w EXCEPT !.ctl = "idle", !.owes = FALSE]
    BY <1>1, <2>0, <1>0 DEF Around, ffhttpcl_close, Return
  <2>4. o' \in Conn
    BY <2>1, <2>0 DEF Conn
  <2>5. w' \in Around
    BY <1>1, <2>0, <1>0, <2>2 DEF Around
  <2>6. Timed' /\ Framed' /\ Woken'
    BY <1>1, <1>0, <2>0, <2>1, <2>2, HttpAssumption DEF Runs, Conn, Around, Timed, Framed, Woken, Waits
  <2>7. Sockets'
    BY <1>1, <1>0, <2>0, <2>1, <2>2, HttpAssumption DEF Runs, Conn, Around, Sockets
  <2>8. Seen'
    BY <1>1, <1>0, <2>0, <2>1, <2>2, HttpAssumption DEF Runs, Conn, Around, Timed, Framed, Seen,
       Waits, Final
  <2>9. Filtered'
    BY <1>1, <1>0, <2>0, <2>1, <2>2, HttpAssumption DEF Runs, Conn, Around, Framed, Seen, Filtered,
       Waits, Final, Sized
  <2> QED
    BY <2>4, <2>5, <2>6, <2>7, <2>8, <2>9
<1>2. CASE w.conts # 0
  <2>0. o.open - (IF o.sk THEN 1 ELSE 0) = 0 /\ 0 \in Nat /\ 0 \in 0..1 /\ "none" \in Filters
    BY <1>2, <1>0, HttpAssumption DEF Sockets, Conn, Filters
  <2>1. o' = [o EXCEPT !.sk = FALSE, !.aio = "none", !.open = 0, !.alive = FALSE, !.tmr = FALSE,
          !.f = "none"]
    BY <1>2, <2>0 DEF Conn, ffhttpcl_close, close_skt
  <2>2. w' = [w EXCEPT !.ctl = "proc", !.conts = 0, !.owes = FALSE]
    BY <1>2, <2>0, <1>0 DEF Around, ffhttpcl_close, Return
  <2>4. o' \in Conn
    BY <2>1, <2>0 DEF Conn
  <2>5. w' \in Around
    BY <1>2, <2>0, <1>0, <2>2 DEF Around
  <2>6. Timed' /\ Framed' /\ Woken'
    BY <1>2, <1>0, <2>0, <2>1, <2>2, HttpAssumption DEF Runs, Conn, Around, Timed, Framed, Woken, Waits
  <2>7. Sockets'
    BY <1>2, <1>0, <2>0, <2>1, <2>2, HttpAssumption DEF Runs, Conn, Around, Sockets
  <2>8. Seen'
    BY <1>2, <1>0, <2>0, <2>1, <2>2, HttpAssumption DEF Runs, Conn, Around, Timed, Framed, Seen,
       Waits, Final
  <2>9. Filtered'
    BY <1>2, <1>0, <2>0, <2>1, <2>2, HttpAssumption DEF Runs, Conn, Around, Framed, Seen, Filtered,
       Waits, Final, Sized
  <2> QED
    BY <2>4, <2>5, <2>6, <2>7, <2>8, <2>9
<1> QED
  BY <1>1, <1>2

\* The handler returns to the call of httpcl_process() that called it.
LEMMA ReturnStep == ASSUME HttpInv, HandlerReturns PROVE HttpInv'
<1> USE DEF HttpInv, Types
<1>0. /\ w.conts \in 0..1 /\ w.conts + 0 = w.conts
      /\ w.conts = 0 => w.conts + 1 = 1 /\ ~ w.conts > 0
      /\ w.conts # 0 => w.conts > 0 /\ w.conts - 1 = 0
  BY DEF Around
<1>1. CASE w.conts = 0
  <2>1. o' = o
    BY <1>1 DEF Conn, HandlerReturns
  <2>2. w' = [w EXCEPT !.ctl = "idle"]
    BY <1>1, <1>0 DEF Around, HandlerReturns, Return
  <2>4. o' \in Conn
    BY <2>1 DEF Conn, States, Statuses
  <2>5. w' \in Around
    BY <1>1, <1>0, <2>2 DEF Around
  <2>6. Timed' /\ Framed' /\ Sockets' /\ Seen' /\ Filtered' /\ Woken'
    BY <1>1, <1>0, <2>1, <2>2, <2>4, <2>5, HttpAssumption DEF Runs, Conn, Around, Timed, Framed,
       Sockets, Seen, Filtered, Woken, Waits, Final, Sized, HandlerReturns
  <2> QED
    BY <2>4, <2>5, <2>6
<1>2. CASE w.conts # 0
  <2>1. o' = o
    BY <1>2 DEF Conn, HandlerReturns
  <2>2. w' = [w EXCEPT !.ctl = "proc", !.conts = 0]
    BY <1>2, <1>0 DEF Around, HandlerReturns, Return
  <2>3. 0 \in 0..1
    BY <1>2, <1>0, HttpAssumption DEF Around
  <2>4. o' \in Conn
    BY <2>1, <2>3 DEF Conn, States, Statuses
  <2>5. w' \in Around
    BY <1>2, <1>0, <2>2, <2>3 DEF Around
  <2>6. Timed' /\ Framed' /\ Woken'
    BY <1>2, <1>0, <2>1, <2>2, <2>3, HttpAssumption DEF Runs, Conn, Around, Timed, Framed, Woken,
       Waits, HandlerReturns
  <2>7. Sockets'
    BY <1>2, <1>0, <2>1, <2>2, <2>3, HttpAssumption DEF Runs, Conn, Around, Sockets, HandlerReturns
  <2>8. Seen'
    BY <1>2, <1>0, <2>1, <2>2, <2>3, HttpAssumption DEF Runs, Conn, Around, Timed, Framed, Seen,
       Waits, Final, HandlerReturns
  <2>9. Filtered'
    BY <1>2, <1>0, <2>1, <2>2, <2>3, HttpAssumption DEF Runs, Conn, Around, Framed, Seen, Filtered,
       Waits, Final, Sized, HandlerReturns
  <2> QED
    BY <2>4, <2>5, <2>6, <2>7, <2>8, <2>9
<1> QED
  BY <1>1, <1>2

\* What was waited for is there, or did not come in time.
LEMMA AioStep == ASSUME HttpInv, tcp_aio PROVE HttpInv'
<1> USE DEF HttpInv, Types
<1>0. /\ w.conts \in 0..1 /\ w.conts + 0 = w.conts
      /\ w.conts = 0 => w.conts + 1 = 1 /\ ~ w.conts > 0
      /\ w.conts # 0 => w.conts > 0 /\ w.conts - 1 = 0
  BY DEF Around
<1>1. CASE w.conts = 0
  <2>1. o' = [o EXCEPT !.aio = "ready", !.tmr = FALSE]
    BY <1>1 DEF Conn, tcp_aio
  <2>2. w' = [w EXCEPT !.ctl = "proc"]
    BY <1>1, <1>0 DEF Around, tcp_aio
  <2>4. o' \in Conn
    BY <2>1 DEF Conn, States, Statuses
  <2>5. w' \in Around
    BY <1>1, <1>0, <2>2 DEF Around
  <2>6. Timed' /\ Framed' /\ Woken'
    BY <1>1, <1>0, <2>1, <2>2, HttpAssumption DEF Runs, Conn, Around, Timed, Framed, Woken, Waits,
       tcp_aio
  <2>7. Sockets'
    BY <1>1, <1>0, <2>1, <2>2, HttpAssumption DEF Runs, Conn, Around, Sockets, tcp_aio
  <2>8. Seen'
    BY <1>1, <1>0, <2>1, <2>2, HttpAssumption DEF Runs, Conn, Around, Timed, Framed, Seen, Waits,
       Final, tcp_aio
  <2>9. Filtered'
    BY <1>1, <1>0, <2>1, <2>2, HttpAssumption DEF Runs, Conn, Around, Framed, Seen, Filtered, Waits,
       Final, Sized, tcp_aio
  <2> QED
    BY <2>4, <2>5, <2>6, <2>7, <2>8, <2>9
<1>2. w.conts = 0
  BY <1>0 DEF Framed, tcp_aio
<1> QED
  BY <1>1, <1>2

\* Nothing came in time: as if the operation had failed.
LEMMA TimerStep == ASSUME HttpInv, tcp_ontmr PROVE HttpInv'
<1> USE DEF HttpInv, Types
<1>0. /\ w.conts \in 0..1 /\ w.conts + 0 = w.conts
      /\ w.conts = 0 => w.conts + 1 = 1 /\ ~ w.conts > 0
      /\ w.conts # 0 => w.conts > 0 /\ w.conts - 1 = 0
  BY DEF Around
<1>8. w.conts = 0 /\ o.st \in Waits /\ o.alive /\ w.ctl = "idle" /\ ~ w.owes /\ o.aio = "pending"
  BY <1>0 DEF Framed, Timed, tcp_ontmr
<1>1. CASE o.reconnects = MaxReconnect
  <2>1. o' = [o EXCEPT !.tmr = FALSE, !.reconnects = @ + 1, !.st = "ERR"]
    BY <1>1, <1>8 DEF Conn, tcp_ontmr, ioerr
  <2>2. w' = [w EXCEPT !.ctl = "proc"]
    BY <1>1, <1>8, <1>0 DEF Around, tcp_ontmr
  <2>3. o.reconnects + 1 \in 0..(MaxReconnect + 1) /\ "ERR" \in States
    BY <1>1, <1>8, <1>0, HttpAssumption DEF Conn, States
  <2>4. o' \in Conn
    BY <2>1, <2>3 DEF Conn
  <2>5. w' \in Around
    BY <1>1, <1>8, <1>0, <2>2, <2>3 DEF Around
  <2>6. Timed' /\ Framed' /\ Woken'
    BY <1>1, <1>0, <1>8, <2>1, <2>2, <2>3, HttpAssumption DEF Runs, Conn, Around, Timed, Framed,
       Woken, Waits
  <2>7. Sockets'
    BY <1>1, <1>0, <1>8, <2>1, <2>2, <2>3, HttpAssumption DEF Runs, Conn, Around, Sockets
  <2>8. Seen'
    BY <1>1, <1>0, <1>8, <2>1, <2>2, <2>3, HttpAssumption DEF Runs, Conn, Around, Timed, Framed,
       Seen, Waits, Final
  <2>9. Filtered'
    BY <1>1, <1>0, <1>8, <2>1, <2>2, <2>3, HttpAssumption DEF Runs, Conn, Around, Framed, Seen,
       Filtered, Waits, Final, Sized
  <2> QED
    BY <2>4, <2>5, <2>6, <2>7, <2>8, <2>9
<1>2. CASE o.reconnects # MaxReconnect
  <2>0. o.open - (IF o.sk THEN 1 ELSE 0) = 0 /\ 0 \in Nat
    BY <1>2, <1>0, HttpAssumption DEF Sockets, Conn
  <2>1. o' = [o EXCEPT !.tmr = FALSE, !.sk = FALSE, !.aio = "none", !.open = 0, !.reconnects = @ + 1,
          !.hlen = 0, !.st = "ADDR"]
    BY <1>2, <1>8, <2>0 DEF Conn, tcp_ontmr, ioerr, close_skt
  <2>2. w' = [w EXCEPT !.ctl = "proc"]
    BY <1>2, <1>8, <2>0, <1>0 DEF Around, tcp_ontmr
  <2>3. o.reconnects + 1 \in 0..MaxReconnect /\ o.reconnects + 1 \in 0..(MaxReconnect + 1)
          /\ 0 \in 0..BufSize /\ "ADDR" \in States
    BY <1>2, <1>8, <2>0, <1>0, HttpAssumption DEF Conn, Timed, Waits, States
  <2>4. o' \in Conn
    BY <2>1, <2>0, <2>3 DEF Conn
  <2>5. w' \in Around
    BY <1>2, <1>8, <2>0, <1>0, <2>2, <2>3 DEF Around
  <2>6. Timed' /\ Framed' /\ Woken'
    BY <1>2, <1>0, <1>8, <2>0, <2>1, <2>2, <2>3, HttpAssumption DEF Runs, Conn, Around, Timed,
       Framed, Woken, Waits
  <2>7. Sockets'
    BY <1>2, <1>0, <1>8, <2>0, <2>1, <2>2, <2>3, HttpAssumption DEF Runs, Conn, Around, Sockets
  <2>8. Seen'
    BY <1>2, <1>0, <1>8, <2>0, <2>1, <2>2, <2>3, HttpAssumption DEF Runs, Conn, Around, Timed,
       Framed, Seen, Waits, Final
  <2>9. Filtered'
    BY <1>2, <1>0, <1>8, <2>0, <2>1, <2>2, <2>3, HttpAssumption DEF Runs, Conn, Around, Framed, Seen,
       Filtered, Waits, Final, Sized
  <2> QED
    BY <2>4, <2>5, <2>6, <2>7, <2>8, <2>9
<1> QED
  BY <1>1, <1>2
-----------------------------------------------------------------------------
(* Every step together *)

\* ffhttpcl_request(): nothing is open, pending or told.
LEMMA InitInv == ASSUME Init PROVE HttpInv
<1>1. PICK flag \in Flags :
         o = [noredirect |-> flag, st |-> "START", sk |-> FALSE, open |-> 0, aio |-> "none", tmr |-> FALSE,
              reconnects |-> 0, nredirect |-> 0, addrs |-> 0, hlen |-> 0, data |-> 0, f |-> "none", left |-> 0,
              err2 |-> "ERR", status |-> "none", alive |-> TRUE]
  BY DEF Init
<1>2. /\ 0 \in 0..Addrs /\ 0 \in 0..BufSize /\ 0 \in 0..MaxBody
      /\ 0 \in 0..(MaxReconnect + 1) /\ 0 \in 0..(MaxRedirect + 1)
  BY HttpAssumption
<1>3. flag \in BOOLEAN
  BY <1>1, HttpAssumption
<1>4. o \in Conn
  BY <1>1, <1>2, <1>3 DEF Conn, States, Filters
<1>5. w \in Around
  BY <1>2 DEF Init, Around, Bodies
<1>6. Timed /\ Framed /\ Woken
  BY <1>1, HttpAssumption DEF Init, Timed, Framed, Woken
<1>7. Sockets /\ Seen /\ Filtered
  BY <1>1 DEF Init, Sockets, Seen, Filtered, Final
<1> QED
  BY <1>4, <1>5, <1>6, <1>7 DEF HttpInv, Types

\* Every step of the client and of its user keeps the invariant.
LEMMA StepInv == ASSUME HttpInv, [Next]_vars PROVE HttpInv'
<1>1. CASE Process
  BY <1>1, StartStep, ResolveStep, NextAddrStep, ConnectStep, RequestStep, SendRequestStep, RecvHeadersStep,
     ParseMoreStep, ParseRedirectStep, ParseBodyStep, RecvBodyStep, RespBodyStep, EndStep, NoopStep,
     FaultStep DEF Process, GoOnClosed
<1>2. CASE ffhttpcl_send \/ ffhttpcl_close \/ HandlerReturns \/ tcp_aio \/ tcp_ontmr
  BY <1>2, SendStep, CloseStep, ReturnStep, AioStep, TimerStep
<1>3. CASE UNCHANGED vars
  BY <1>3 DEF vars, HttpInv, Types, Timed, Framed, Sockets, Seen, Filtered, Woken
<1> QED
  BY <1>1, <1>2, <1>3 DEF Next

\* The inductive invariant of the client: for any number of addresses,
\* reconnects and redirects, any sizes and framings, and whatever the handler does from inside httpcl_process().
THEOREM HttpInvariant == Spec => []HttpInv
<1>1. Init => HttpInv
  BY InitInv
<1>2. HttpInv /\ [Next]_vars => HttpInv'
  BY StepInv
<1> QED
  BY <1>1, <1>2, PTL DEF Spec

\* Whoever waits is woken: nothing is pending without its timer, and nothing
\* but the user's send() is missing when nothing is pending.
THEOREM HttpWoken == Spec => []Woken
<1>1. HttpInv => Woken
  BY DEF HttpInv
<1> QED
  BY <1>1, HttpInvariant, PTL

\* Every socket that was made is the client's or closed, through failed
\* addresses, redirects, reconnects and ffhttpcl_close() at any point.
THEOREM HttpSocketsClosed == Spec => []SocketsClosed
<1>1. HttpInv => SocketsClosed
  BY DEF HttpInv, Sockets, SocketsClosed
<1> QED
  BY <1>1, HttpInvariant, PTL

\* The data of a body goes through the filter of its own response, not through
\* the one that a lost connection left in c->f.
THEOREM HttpFilterFits == Spec => []FilterFits
<1>1. HttpInv => FilterFits
  BY DEF HttpInv, Filtered, FilterFits
<1> QED
  BY <1>1, HttpInvariant, PTL

\* A body of known length is whole when DONE is told: handed out once since the
\* last FFHTTPCL_RESP, however the data was cut and however often it began anew.
THEOREM HttpDoneIsWhole == Spec => []DoneIsWhole
<1>1. HttpInv => DoneIsWhole
  BY DEF HttpInv, Filtered, DoneIsWhole, Sized
<1> QED
  BY <1>1, HttpInvariant, PTL
-----------------------------------------------------------------------------
(* What one pass through the loop does to its caller: it goes on, leaves,  *)
(* or tells the handler a status that may come next; it goes on after the  *)
(* handler only when it told of the last data.                             *)

GoesOn == w'.ctl = w.ctl /\ w'.conts = w.conts
Leaves == w'.ctl = Return(w).ctl /\ w'.conts = Return(w).conts
Tells == /\ w'.ctl = "handler"
         /\ \/ w'.conts = w.conts
            \/ w'.conts = w.conts + 1 /\ o'.status = "RESP_RECV"
         /\ \/ o'.status \in Follows[o.status]
            \/ o'.status \in {"ERR", "ENOADDR"} /\ o.status \notin Final
Passes == w.ctl = "proc" /\ o.alive /\ o'.alive /\ (GoesOn \/ Leaves \/ Tells)

\* Waiting leaves the loop.
LEMMA AsyncPasses == ASSUME HttpInv, Async, Runs(o.st) PROVE Passes
<1>1. o'.alive = o.alive
  BY DEF HttpInv, Types, Conn, Async
<1> QED
  BY <1>1 DEF Async, Passes, Leaves, Runs

\* After a failed operation the loop goes on.
LEMMA IoerrPasses == ASSUME HttpInv, tcp_ioerr, Runs(o.st) PROVE Passes
<1>1. o'.alive = o.alive
  BY DEF HttpInv, Types, Conn, tcp_ioerr, ioerr, close_skt
<1> QED
  BY <1>1 DEF tcp_ioerr, Passes, GoesOn, Runs

\* Another state: the loop goes on.
LEMMA GotoPasses == ASSUME HttpInv, NEW st, Goto(st), Runs(o.st) PROVE Passes
<1>1. o'.alive = o.alive
  BY DEF HttpInv, Types, Conn, Goto
<1> QED
  BY <1>1 DEF Goto, Passes, GoesOn, Runs

\* The first status is FFHTTPCL_DNS_WAIT.
LEMMA StartPasses == ASSUME HttpInv, Start PROVE Passes
<1>1. CASE Runs("START") /\ Goto("ERR")
  BY <1>1, GotoPasses DEF Runs
<1>2. CASE Runs("START") /\ call_handler([o EXCEPT !.st = "ADDR"], w, "DNS_WAIT", 0)
  BY <1>2 DEF HttpInv, Types, Conn, Around, Seen, Runs, Passes, GoesOn,
     Leaves, Tells, Final, Follows, call_handler
<1> QED
  BY <1>1, <1>2 DEF Start

\* FFHTTPCL_IP_WAIT follows whatever was told before the name was looked up.
LEMMA ResolvePasses == ASSUME HttpInv, Resolve PROVE Passes
<1>1. CASE Runs("ADDR") /\ Goto("ERR")
  BY <1>1, GotoPasses DEF Runs
<1>2. CASE Runs("ADDR") /\ \E n \in 1..Addrs :
              call_handler([o EXCEPT !.st = "NEXTADDR", !.addrs = n], w, "IP_WAIT", 0)
  BY <1>2 DEF HttpInv, Types, Conn, Around, Seen, Runs, Passes, GoesOn,
     Leaves, Tells, Final, Follows, call_handler
<1> QED
  BY <1>1, <1>2 DEF Resolve

\* The user is not told of an address that fails.
LEMMA NextAddrPasses == ASSUME HttpInv, NextAddr PROVE Passes
<1>1. o'.alive = o.alive
  BY DEF HttpInv, Types, Conn, NextAddr
<1> QED
  BY <1>1 DEF NextAddr, Passes, GoesOn, Runs

\* FFHTTPCL_REQ_WAIT follows FFHTTPCL_IP_WAIT.
LEMMA ConnectPasses == ASSUME HttpInv, Connect PROVE Passes
<1>1. CASE Runs("CONN") /\ Async
  BY <1>1, AsyncPasses DEF Runs
<1>2. CASE Runs("CONN") /\ o' = [close_skt(o) EXCEPT !.st = "NEXTADDR"] /\ UNCHANGED w
  BY <1>2 DEF HttpInv, Types, Conn, close_skt, Passes, GoesOn, Runs
<1>3. CASE Runs("CONN")
         /\ call_handler([o EXCEPT !.st = "REQ", !.addrs = 0, !.aio = "none"], w, "REQ_WAIT", 0)
  BY <1>3 DEF HttpInv, Types, Conn, Around, Seen, Runs, Passes, GoesOn,
     Leaves, Tells, Final, Follows, call_handler
<1> QED
  BY <1>1, <1>2, <1>3 DEF Connect

\* FFHTTPCL_RESP_WAIT follows FFHTTPCL_REQ_WAIT.
LEMMA SendRequestPasses == ASSUME HttpInv, SendRequest PROVE Passes
<1>1. CASE Runs("REQ_SEND") /\ Async
  BY <1>1, AsyncPasses DEF Runs
<1>2. CASE Runs("REQ_SEND") /\ tcp_ioerr
  BY <1>2, IoerrPasses DEF Runs
<1>3. CASE Runs("REQ_SEND") /\ call_handler([o EXCEPT !.st = "RESP", !.aio = "none"], w, "RESP_WAIT", 0)
  BY <1>3 DEF HttpInv, Types, Conn, Around, Seen, Runs, Passes, GoesOn,
     Leaves, Tells, Final, Follows, call_handler
<1> QED
  BY <1>1, <1>2, <1>3 DEF SendRequest

\* Nothing is told while headers are received.
LEMMA RecvHeadersPasses == ASSUME HttpInv, RecvHeaders PROVE Passes
<1>1. CASE Runs("RESP") /\ Async
  BY <1>1, AsyncPasses DEF Runs
<1>2. CASE Runs("RESP") /\ tcp_ioerr
  BY <1>2, IoerrPasses DEF Runs
<1>3. CASE Runs("RESP") /\ Goto("ERR")
  BY <1>3, GotoPasses DEF Runs
<1>4. CASE Runs("RESP") /\ UNCHANGED w
         /\ o' = [o EXCEPT !.st = "RESP_PARSE", !.hlen = @ + 1, !.aio = "none"]
  BY <1>4 DEF HttpInv, Types, Conn, Passes, GoesOn, Runs
<1> QED
  BY <1>1, <1>2, <1>3, <1>4 DEF RecvHeaders

\* A redirect is told only to those who asked for it.
LEMMA ParseRedirectPasses == ASSUME HttpInv, ParseRedirect PROVE Passes
<1>1. w.ctl = "proc" /\ o.alive /\ o.status = "RESP_WAIT" /\ o'.alive
  BY DEF HttpInv, Types, Conn, Seen, ParseRedirect, Runs, call_handler, close_skt
<1>2. CASE o.noredirect
  <2>1. o'.status = "RESP"
    BY <1>2 DEF HttpInv, Types, Conn, ParseRedirect, call_handler, close_skt
  <2>2. w' = [[w EXCEPT !.body = "none", !.want = 0, !.got = 0]
                EXCEPT !.ctl = "handler", !.owes = TRUE, !.conts = @ + 0]
    BY <1>2 DEF ParseRedirect, call_handler
  <2>3. w'.ctl = "handler" /\ w'.conts = w.conts
    BY <2>2 DEF HttpInv, Types, Around
  <2> QED
    BY <1>1, <2>1, <2>3 DEF Passes, Tells, Follows
<1>3. CASE ~ o.noredirect
  <2>1. w'.ctl = w.ctl /\ w'.conts = w.conts
    BY <1>3 DEF HttpInv, Types, Around, ParseRedirect
  <2> QED
    BY <1>1, <2>1 DEF Passes, GoesOn
<1> QED
  BY <1>2, <1>3

\* FFHTTPCL_RESP follows FFHTTPCL_RESP_WAIT.
LEMMA ParseResponsePasses ==
    ASSUME HttpInv, NEW redirect, NEW framing, NEW len, NEW d, ParseResponse(redirect, framing, len, d)
    PROVE  Passes
<1>1. CASE framing \in {"none", "other"}
  BY <1>1 DEF HttpInv, Types, Conn, Around, Seen, Runs, Passes, GoesOn,
     Leaves, Tells, Final, Follows, call_handler, ParseResponse, filter_open
<1>2. CASE framing \notin {"none", "other"}
  BY <1>2 DEF HttpInv, Types, Conn, Around, Seen, Runs, Passes, GoesOn,
     Leaves, Tells, Final, Follows, call_handler, ParseResponse, filter_open
<1> QED
  BY <1>1, <1>2

\* The end of a body without a length is told as FFHTTPCL_RESP_RECV.
LEMMA RecvBodyPasses == ASSUME HttpInv, RecvBody PROVE Passes
<1>1. CASE Runs("RECVBODY") /\ Async
  BY <1>1, AsyncPasses DEF Runs
<1>2. CASE Runs("RECVBODY") /\ tcp_ioerr
  BY <1>2, IoerrPasses DEF Runs
<1>3. CASE Runs("RECVBODY") /\ UNCHANGED w /\ \E n \in 1..(MaxBody - w.got) :
              o' = [o EXCEPT !.data = n, !.st = "RESPBODY", !.aio = "none"]
  BY <1>3 DEF HttpInv, Types, Conn, Passes, GoesOn, Runs
<1>4. CASE Runs("RECVBODY") /\ call_handler([o EXCEPT !.st = "DONE", !.aio = "none"], w, "RESP_RECV", 1)
  BY <1>4 DEF HttpInv, Types, Conn, Around, Seen, Runs, Passes, GoesOn,
     Leaves, Tells, Final, Follows, call_handler
<1>5. CASE Runs("RECVBODY") /\ o' = [o EXCEPT !.st = "ERR", !.aio = "none"] /\ UNCHANGED w
  BY <1>5 DEF HttpInv, Types, Conn, Passes, GoesOn, Runs
<1> QED
  BY <1>1, <1>2, <1>3, <1>4, <1>5 DEF RecvBody

\* FFHTTPCL_RESP_RECV follows FFHTTPCL_RESP or itself.
LEMMA FilterDataPasses == ASSUME HttpInv, NEW n \in Nat, Runs("RESPBODY"), FilterData(n) PROVE Passes
<1>1. w.ctl = "proc" /\ o.alive /\ o.status \in {"RESP", "RESP_RECV"}
  BY DEF HttpInv, Seen, Runs
<1>2. o'.alive = o.alive /\ o'.status = "RESP_RECV"
  BY DEF HttpInv, Types, Conn, FilterData, call_handler
<1>3. w'.ctl = "handler" /\ w'.conts \in {w.conts + 0, w.conts + 1}
  BY DEF HttpInv, Types, Around, FilterData, call_handler
<1>4. w.conts + 0 = w.conts
  BY DEF HttpInv, Types, Around
<1>5. o'.status \in Follows[o.status]
  BY <1>1, <1>2 DEF Follows
<1> QED
  BY <1>1, <1>2, <1>3, <1>4, <1>5 DEF Passes, Tells

\* DONE after a response, an error after anything that was no end.
LEMMA EndPasses == ASSUME HttpInv, End PROVE Passes
<1>1. CASE Runs("DONE") /\ call_handler([o EXCEPT !.st = "NOOP"], w, "DONE", 0)
  BY <1>1 DEF HttpInv, Types, Conn, Around, Seen, Runs, Passes, GoesOn,
     Leaves, Tells, Final, Follows, call_handler
<1>2. CASE Runs("ERR") /\ call_handler([o EXCEPT !.st = "NOOP"], w, "ERR", 0)
  BY <1>2 DEF HttpInv, Types, Conn, Around, Seen, Runs, Passes, GoesOn,
     Leaves, Tells, Final, Follows, call_handler
<1>3. CASE Runs("ERR2") /\ call_handler([o EXCEPT !.st = "NOOP"], w, o.err2, 0)
  BY <1>3 DEF HttpInv, Types, Conn, Around, Seen, Runs, Passes, GoesOn,
     Leaves, Tells, Final, Follows, call_handler
<1> QED
  BY <1>1, <1>2, <1>3 DEF End

\* Each pass through the loop goes on, returns, tells the next status, or ends
\* in a call through NULL.
LEMMA ProcessPasses == ASSUME HttpInv, Process PROVE Passes \/ GoOnClosed \/ (RespBody /\ Fault)
<1>1. CASE Request
  BY <1>1, GotoPasses DEF Request, Runs
<1>2. CASE ParseMore
  BY <1>2, GotoPasses DEF ParseMore, Runs
<1>3. CASE RespBody
  <2>3. CASE Fault
    BY <1>3, <2>3
  <2>1. CASE Runs("RESPBODY") /\ Goto("ERR")
    BY <2>1, GotoPasses DEF Runs
  <2>2. ASSUME NEW n \in Pieces, Runs("RESPBODY"), FilterData(n) PROVE Passes
    BY <2>2, PiecesFit, FilterDataPasses DEF HttpInv
  <2> QED
    BY <1>3, <2>1, <2>2, <2>3 DEF RespBody
<1>4. CASE ParseBody
  BY <1>4, ParseResponsePasses DEF ParseBody
<1>5. CASE Noop
  BY <1>5 DEF Noop, Passes, Leaves, Runs
<1> QED
  BY <1>1, <1>2, <1>3, <1>4, <1>5, StartPasses, ResolvePasses, NextAddrPasses, ConnectPasses, SendRequestPasses,
     RecvHeadersPasses, ParseRedirectPasses, RecvBodyPasses, EndPasses DEF Process

\* The handler is told the statuses in the order of the protocol, and nothing
\* after DONE or an error.
THEOREM HttpStatusOrder == Spec => StatusOrder
<1>1. HttpInv /\ [Next]_vars => [StatusStep]_vars
  <2> SUFFICES ASSUME HttpInv, [Next]_vars PROVE StatusStep \/ UNCHANGED vars
    OBVIOUS
  <2>1. CASE Process
    BY <2>1, ProcessPasses DEF Passes, GoesOn, Leaves, Tells, Fault, GoOnClosed, StatusStep, HttpInv, Types, Around, Return
  <2>2. CASE ffhttpcl_send \/ tcp_aio \/ tcp_ontmr
    BY <2>2 DEF ffhttpcl_send, tcp_aio, tcp_ontmr, StatusStep, HttpInv, Types, Around
  <2>3. CASE ffhttpcl_close \/ HandlerReturns
    BY <2>3 DEF ffhttpcl_close, HandlerReturns, Return, StatusStep, HttpInv, Types, Around
  <2>4. CASE UNCHANGED vars
    BY <2>4
  <2> QED
    BY <2>1, <2>2, <2>3, <2>4 DEF Next
<1> QED
  BY <1>1, HttpInvariant, PTL DEF Spec, StatusOrder

\* A frame that goes on after its handler is one that told of the last data, or
\* has told of the end since.
Closing == /\ w.conts = 1 => o.st \in {"DONE", "NOOP"} /\ o.status \in {"RESP_RECV", "DONE"}
           /\ FaultsKnown

\* A pass through the loop keeps it: only the last data is told by a frame that
\* goes on, and after it there is nothing to tell but the end.
LEMMA ClosingPass == ASSUME HttpInv, Closing, Process PROVE Closing'
<1>0. w.conts \in 0..1 /\ HttpInv'
  BY StepInv DEF Next, HttpInv, Types, Around
<1>1. CASE GoOnClosed
  BY <1>1 DEF GoOnClosed, Fault, Closing, FaultsKnown, HttpInv, Types, Around
<1>2. CASE RespBody /\ Fault
  <2>1. Runs("RESPBODY") /\ o' = o /\ w' = [w EXCEPT !.ctl = "fault"]
    BY <1>2 DEF RespBody, Fault
  <2>2. w'.ctl = "fault" /\ w'.conts = w.conts /\ w'.body = w.body
    BY <2>1 DEF HttpInv, Types, Around
  <2>3. ASSUME NEW n \in Pieces, FilterData(n) PROVE FALSE
    <3>1. w'.ctl = "handler"
      BY <2>3 DEF FilterData, call_handler, HttpInv, Types, Around
    <3> QED
      BY <3>1, <2>2
  <2>4. ~ Goto("ERR")
    BY <2>2, <2>1 DEF Goto, Runs
  <2>5. o.f = "none"
    BY <1>2, <2>3, <2>4 DEF RespBody
  <2>6. w.body = "other"
    BY <2>1, <2>5 DEF Runs, HttpInv, Filtered
  <2> QED
    BY <2>1, <2>2, <2>6 DEF Closing, FaultsKnown, Runs
<1>3. CASE Passes /\ w.conts = 0
  BY <1>0, <1>3 DEF Passes, GoesOn, Leaves, Tells, Return, Closing, FaultsKnown, HttpInv, Types, Framed, Around
<1>4. CASE Passes /\ w.conts = 1
  <2>1. o.st \in {"DONE", "NOOP"}
    BY <1>4 DEF Closing
  <2>2. CASE End
    BY <2>1, <2>2, <1>4, <1>0 DEF End, Runs, call_handler, Passes, Closing, FaultsKnown, HttpInv, Types, Conn, Around
  <2>3. CASE Noop
    BY <2>1, <2>3, <1>4, <1>0 DEF Noop, Return, Passes, Closing, FaultsKnown, HttpInv, Types, Conn, Around
  <2> QED
    BY <2>1, <2>2, <2>3, <1>4 DEF Passes, Process, GoOnClosed, Start, Resolve, NextAddr, Connect, Request,
       SendRequest, RecvHeaders, ParseMore, ParseRedirect, ParseBody, ParseResponse, RecvBody, RespBody, Runs
<1>5. Passes \/ GoOnClosed \/ (RespBody /\ Fault)
  BY ProcessPasses
<1> QED
  BY <1>0, <1>1, <1>2, <1>3, <1>4, <1>5

\* Closing is kept, relative to the invariant.
LEMMA ClosingStep == ASSUME HttpInv, Closing, [Next]_vars PROVE Closing'
<1>0. w.conts \in 0..1
  BY DEF HttpInv, Types, Around
<1>1. CASE Process
  BY <1>1, ClosingPass
<1>2. CASE ffhttpcl_send
  BY <1>0, <1>2 DEF ffhttpcl_send, MayAct, Closing, FaultsKnown, HttpInv, Types, Around
<1>3. CASE ffhttpcl_close
  BY <1>0, <1>3 DEF ffhttpcl_close, MayAct, close_skt, Return, Closing, FaultsKnown, HttpInv, Types, Framed, Conn, Around
<1>4. CASE HandlerReturns
  BY <1>0, <1>4 DEF HandlerReturns, Return, Closing, FaultsKnown, HttpInv, Types, Framed, Conn, Around
<1>5. CASE tcp_aio
  BY <1>0, <1>5 DEF tcp_aio, Closing, FaultsKnown, HttpInv, Types, Framed, Conn, Around
<1>6. CASE tcp_ontmr
  <2>1. o.alive /\ o'.alive = o.alive
    BY <1>6 DEF tcp_ontmr, ioerr, close_skt, HttpInv, Types, Timed, Conn
  <2>2. w.conts = 0
    BY <1>0, <1>6 DEF tcp_ontmr, HttpInv, Framed
  <2>3. w'.ctl = "proc" /\ w'.conts = 0
    BY <1>6, <2>2 DEF tcp_ontmr, HttpInv, Types, Around
  <2> QED
    BY <2>1, <2>3 DEF Closing, FaultsKnown
<1>7. CASE UNCHANGED vars
  BY <1>7 DEF vars, Closing, FaultsKnown
<1> QED
  BY <1>1, <1>2, <1>3, <1>4, <1>5, <1>6, <1>7 DEF Next

\* httpcl_process() goes on with an object that was closed under it only when it
\* was closed by the handler that is told of the last data of a body, or from
\* there; and lacks a filter only for a Transfer-Encoding that is not chunked.
\* The handler may close or send on any status, the user at any time.
THEOREM HttpFaultsKnown == Spec => []FaultsKnown
<1>1. Init => Closing
  BY DEF Init, Closing, FaultsKnown
<1>2. HttpInv /\ Closing /\ [Next]_vars => Closing'
  BY ClosingStep
<1>3. Closing => FaultsKnown
  BY DEF Closing
<1> QED
  BY <1>1, <1>2, <1>3, HttpInvariant, PTL DEF Spec
=============================================================================
