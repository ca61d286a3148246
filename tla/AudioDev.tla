------------------------------ MODULE AudioDev ------------------------------
(***************************************************************************)
(* The audio outputs of FF/adev: WASAPI in exclusive and in shared mode,   *)
(* ALSA, PulseAudio, DirectSound, CoreAudio and OSS.  All have the same    *)
(* interface: write until the buffer is full, wait for the handler to be   *)
(* called, write again, and at the end drain until it says stopped.        *)
(*                                                                         *)
(* s is the object of the interface, d the device behind it (external), u  *)
(* the user, who plays the samples 1..Input and may pause, or clear the    *)
(* buffer and go on with the next sample.  Of d, at is the last sample     *)
(* that was played or dropped, and bad says that another one than the next *)
(* was heard.  off says that the interface cannot know any more what the   *)
(* device has: its buffers ran dry, or a clear came before a pending event *)
(* was handled, which is then counted against the samples that follow.     *)
(* wild says that CoreAudio played what was not written to it.             *)
(***************************************************************************)
EXTENDS Integers, Sequences, FiniteSetsExt, Functions

CONSTANTS Apis,       \* the interfaces to play with
          Buf,        \* samples in a buffer; a ring of CoreAudio holds Buf - 1
          Input,      \* samples to play
          Chunk,      \* samples the user has for a call
          MaxEvents,  \* events that are counted before the user looks
          Clears      \* how often the user may pause

VARIABLES s, d, u
vars == <<s, d, u>>

Silence == 0
Junk == -1
Polled == {"shared", "coreaudio", "oss"}     \* no handler: the user calls again

Init ==
    /\ \E api \in Apis :
          s = [api |-> api, actv |-> 0, wbuf |-> <<>>, evt |-> 0, started |-> FALSE, cb |-> FALSE, cbw |-> FALSE,
               last |-> FALSE, rpos |-> 0, wpos |-> 0, isfull |-> FALSE, overrun |-> FALSE]
    /\ d = [queue |-> <<>>, run |-> FALSE, xrun |-> FALSE, sig |-> FALSE, ring |-> [i \in 0..(Buf - 1) |-> Silence],
            pos |-> 0, left |-> 0, at |-> 0, bad |-> FALSE, off |-> FALSE, wild |-> FALSE]
    /\ u = [pc |-> "write", next |-> 1, len |-> 0, n |-> 0, clears |-> 0]

Is(api, pc) == s.api = api /\ u.pc = pc
To(pc) == u' = [u EXCEPT !.pc = pc]

-----------------------------------------------------------------------------
(* The device, external.  heard(dd, xs, n) is the last sample it played    *)
(* when n of xs were played, silence not counted; play(dd, xs) is the      *)
(* device after all of them.                                               *)
heard(dd, xs, n) == LET R == {i \in 1..n : xs[i] > 0} IN IF R = {} THEN dd.at ELSE xs[Max(R)]
play(dd, xs) ==
    [dd EXCEPT !.at = heard(dd, xs, Len(xs)),
               !.bad = @ \/ (~dd.off /\ \E i \in 1..Len(xs) : xs[i] > 0 /\ xs[i] # heard(dd, xs, i - 1) + 1)]
Took(dd, n) == [play(dd, SubSeq(dd.queue, 1, n)) EXCEPT !.queue = SubSeq(@, n + 1, Len(@)), !.sig = TRUE]

(* Exclusive mode: a period is a buffer, with or without one to play.      *)
PlayBuffer ==
    /\ s.api = "excl" /\ d.run /\ UNCHANGED <<s, u>>
    /\ d' = IF d.queue = <<>> THEN [d EXCEPT !.sig = TRUE, !.off = TRUE]
            ELSE [play(d, Head(d.queue)) EXCEPT !.queue = Tail(@), !.sig = TRUE]
(* The queues of the others; ALSA stops when it has nothing to play.       *)
PlayQueue ==
    /\ s.api \in {"shared", "alsa", "sigio", "pulse", "oss"} /\ d.run /\ UNCHANGED <<s, u>>
    /\ \/ d.queue # <<>> /\ d' = Took(d, 1)
       \/ d.queue = <<>> /\ s.api \in {"alsa", "sigio"} /\ d' = [d EXCEPT !.run = FALSE, !.xrun = TRUE, !.sig = TRUE]
(* DirectSound plays the ring round and round; its notifications, four a   *)
(* round, are handled before the next one.                                 *)
PlayRing ==
    /\ s.api = "dsound" /\ d.run /\ ~d.sig /\ UNCHANGED <<s, u>>
    /\ d' = [play([d EXCEPT !.off = @ \/ d.left = 0], <<d.ring[d.pos]>>)
                EXCEPT !.pos = (@ + 1) % Buf, !.left = Max({0, @ - 1}), !.sig = TRUE]

-----------------------------------------------------------------------------
(* The user, external: what follows a call that wrote n of u.len samples   *)
(* or that did not find the buffer empty.                                  *)
After(n) == [u EXCEPT !.next = @ + n, !.len = 0, !.n = 0,
                      !.pc = IF n = u.len THEN "write" ELSE IF s.api \in Polled THEN "write" ELSE "async"]
Call ==     \* the next piece, or the end
    /\ u.pc = "write" /\ UNCHANGED <<s, d>>
    /\ IF u.next > Input THEN To("drain")
       ELSE \E n \in 1..Min({Chunk, Input - u.next + 1}) : u' = [u EXCEPT !.pc = "call", !.len = n]
Samples == [i \in 1..u.len |-> u.next + i - 1]
Some(n) == SubSeq(Samples, 1, n)
Woken == u.pc = "wait" /\ u' = [u EXCEPT !.pc = IF u.next > Input THEN "drain" ELSE "write"]
Drained(yes) == IF yes THEN To("done") ELSE To(IF s.api \in Polled THEN "drain" ELSE "async")

-----------------------------------------------------------------------------
(* The handshake of WASAPI, ALSA and PulseAudio: an event that comes when  *)
(* nobody waits is kept in cb.                                             *)
async ==
    /\ u.pc = "async" /\ s.api \notin {"dsound", "sigio"} /\ UNCHANGED d
    /\ IF s.cb THEN s' = [s EXCEPT !.cb = FALSE] /\ u' = [u EXCEPT !.pc = IF u.next > Input THEN "drain" ELSE "write"]
       ELSE s' = [s EXCEPT !.cbw = TRUE] /\ To("wait")
(* The same interrupted by the signal between the test and the assignment. *)
asyncTest ==
    /\ Is("sigio", "async") /\ UNCHANGED d
    /\ IF s.cb THEN s' = [s EXCEPT !.cb = FALSE] /\ u' = [u EXCEPT !.pc = IF u.next > Input THEN "drain" ELSE "write"]
       ELSE To("async2") /\ UNCHANGED s
asyncSet == Is("sigio", "async2") /\ s' = [s EXCEPT !.cbw = TRUE] /\ To("wait") /\ UNCHANGED d

notified(ss) == IF ss.cbw THEN [ss EXCEPT !.cbw = FALSE] ELSE [ss EXCEPT !.cb = TRUE]
Wake == IF s.cbw THEN Woken ELSE UNCHANGED u
(* _ffwas_onplay_excl(), _ffalsa_callback(), stm_on_write().  PulseAudio   *)
(* and ALSA with signalfd call it from the loop the user waits in.         *)
onplay_excl ==
    /\ s.api = "excl" /\ d.sig /\ s.evt < MaxEvents
    /\ d' = [d EXCEPT !.sig = FALSE] /\ s' = notified([s EXCEPT !.evt = @ + 1]) /\ Wake
callback ==
    /\ s.api \in {"alsa", "sigio", "pulse"} /\ d.sig /\ (s.api # "sigio" => u.pc \in {"wait", "write", "paused"})
    /\ d' = [d EXCEPT !.sig = FALSE] /\ s' = notified(s) /\ Wake

-----------------------------------------------------------------------------
(* WASAPI, exclusive mode.  wbuf is the buffer that is being filled.       *)
stopped(ss) == [ss EXCEPT !.cb = FALSE, !.cbw = FALSE, !.started = FALSE]
Events(ss) == [ss EXCEPT !.actv = Max({0, @ - ss.evt}), !.evt = 0]
was_write ==    \* the events since the last call
    /\ Is("excl", "call")
    /\ LET under == s.evt > s.actv
       IN  s' = Events(IF under THEN stopped(s) ELSE s) /\ d' = [d EXCEPT !.run = @ /\ ~under]
    /\ u' = [u EXCEPT !.pc = "copy", !.n = 0]
released(ss, dd) ==
    IF Len(ss.wbuf) < Buf THEN <<ss, dd>>
    ELSE <<[ss EXCEPT !.wbuf = <<>>, !.actv = @ + 1], [dd EXCEPT !.queue = Append(@, ss.wbuf)]>>
was_copy ==     \* one turn of its loop
    /\ Is("excl", "copy")
    /\ CASE u.n = u.len -> u' = After(u.n) /\ UNCHANGED <<s, d>>
         [] u.n < u.len /\ s.actv = 2 ->
               s' = [s EXCEPT !.started = TRUE] /\ d' = [d EXCEPT !.run = TRUE] /\ u' = After(u.n)
         [] OTHER -> LET n == Min({u.len - u.n, Buf - Len(s.wbuf)})
                         r == released([s EXCEPT !.wbuf = @ \o SubSeq(Samples, u.n + 1, u.n + n)], d)
                     IN  s' = r[1] /\ d' = r[2] /\ u' = [u EXCEPT !.n = @ + n]
was_silence(ss, dd) ==
    IF ss.wbuf = <<>> THEN <<ss, dd>>
    ELSE released([ss EXCEPT !.wbuf = @ \o [i \in 1..(Buf - Len(@)) |-> Silence]], dd)
was_stoplazy ==
    /\ Is("excl", "drain")
    /\ LET e == Events(s)
           empty == e.actv * Buf + Len(e.wbuf) = 0
           r == IF e.last THEN <<e, d>> ELSE was_silence([e EXCEPT !.last = TRUE], d)
       IN IF empty THEN s' = e /\ UNCHANGED d /\ Drained(TRUE)
          ELSE s' = [r[1] EXCEPT !.started = TRUE] /\ d' = [r[2] EXCEPT !.run = TRUE] /\ Drained(FALSE)

(* WASAPI, shared mode.                                                    *)
Free == Buf - Len(d.queue)
write_sh ==
    /\ Is("shared", "call")
    /\ LET n == Min({u.len, Free})
       IN IF Free = 0 THEN s' = [s EXCEPT !.started = TRUE] /\ d' = [d EXCEPT !.run = TRUE] /\ u' = After(0)
          ELSE d' = [d EXCEPT !.queue = @ \o Some(n)] /\ u' = After(n) /\ UNCHANGED s
stoplazy_sh ==
    /\ Is("shared", "drain")
    /\ IF d.queue = <<>> THEN Drained(TRUE) /\ UNCHANGED <<s, d>>
       ELSE /\ s' = [s EXCEPT !.last = TRUE, !.started = TRUE] /\ Drained(FALSE)
            /\ d' = [d EXCEPT !.run = TRUE, !.queue = IF s.last THEN @ ELSE @ \o [i \in 1..Free |-> Silence]]

-----------------------------------------------------------------------------
(* ALSA: one turn of ffalsa_write()'s loop; after an underrun the device   *)
(* is prepared again.  With a full buffer it is started.                   *)
prepared(dd) == [dd EXCEPT !.xrun = FALSE, !.queue = <<>>]
alsa_write ==
    /\ s.api \in {"alsa", "sigio"} /\ u.pc = "call" /\ UNCHANGED s
    /\ LET n == Min({u.len, Free})
       IN CASE d.xrun -> d' = prepared(d) /\ UNCHANGED u
            [] ~d.xrun /\ Free = 0 -> d' = [d EXCEPT !.run = TRUE] /\ u' = After(0)
            [] OTHER -> /\ d' = [d EXCEPT !.queue = @ \o Some(n)]
                        /\ u' = IF n = u.len THEN After(n) ELSE [u EXCEPT !.next = @ + n, !.len = @ - n]
alsa_stoplazy ==
    /\ s.api \in {"alsa", "sigio"} /\ u.pc = "drain"
    /\ IF d.xrun \/ d.queue = <<>> THEN Drained(TRUE) /\ UNCHANGED <<s, d>>
       ELSE /\ s' = [s EXCEPT !.last = TRUE] /\ Drained(FALSE)
            /\ d' = IF s.last THEN d ELSE [d EXCEPT !.queue = @ \o [i \in 1..Free |-> Silence], !.run = TRUE]

(* PulseAudio, whose events come from the mainloop.  Draining does not     *)
(* start a stream that was stopped, or that was never full.                *)
pulse_write ==
    /\ Is("pulse", "call") /\ UNCHANGED s
    /\ LET n == Min({u.len, Free})
       IN IF Free = 0 THEN d' = [d EXCEPT !.run = TRUE] /\ u' = After(0)
          ELSE /\ d' = [d EXCEPT !.queue = @ \o Some(n)]
               /\ u' = IF n = u.len THEN After(n) ELSE [u EXCEPT !.next = @ + n, !.len = @ - n]
pulse_drain ==
    /\ Is("pulse", "drain") /\ UNCHANGED d
    /\ IF d.queue = <<>> THEN Drained(TRUE) /\ UNCHANGED s
       ELSE s' = [s EXCEPT !.last = TRUE] /\ Drained(FALSE)

(* OSS: the calls block until there is room or all was played.             *)
oss_write == Is("oss", "call") /\ Free > 0 /\ UNCHANGED s
             /\ d' = [d EXCEPT !.queue = @ \o Some(Min({u.len, Free})), !.run = TRUE] /\ u' = After(Min({u.len, Free}))
oss_drain == Is("oss", "drain") /\ d.queue = <<>> /\ Drained(TRUE) /\ UNCHANGED <<s, d>>

-----------------------------------------------------------------------------
(* DirectSound: positions in the ring; rpos is what the last notification  *)
(* said.                                                                   *)
dsnd_filled(ss) ==
    CASE ss.wpos = ss.rpos /\ ss.isfull -> Buf
      [] ss.wpos >= ss.rpos /\ ~(ss.wpos = ss.rpos /\ ss.isfull) -> ss.wpos - ss.rpos
      [] OTHER -> Buf - (ss.rpos - ss.wpos)
put(dd, at, xs) == [dd EXCEPT !.left = @ + Len(xs),
                       !.ring = [i \in 0..(Buf - 1) |-> LET k == (i - at) % Buf IN IF k < Len(xs) THEN xs[k + 1] ELSE @[i]]]
dsnd_write ==
    /\ Is("dsound", "call")
    /\ LET n == Min({u.len, Buf - dsnd_filled(s)})
       IN IF dsnd_filled(s) = Buf THEN UNCHANGED s /\ d' = [d EXCEPT !.run = TRUE] /\ u' = [After(0) EXCEPT !.pc = "wait"]
          ELSE /\ s' = [s EXCEPT !.wpos = (@ + n) % Buf, !.isfull = TRUE]
               /\ d' = put(d, s.wpos, Some(n))
               /\ u' = IF n = u.len THEN After(n) ELSE [After(n) EXCEPT !.pc = "write"]
dsnd_silence(ss, dd) ==
    LET n == Buf - dsnd_filled(ss)
    IN  <<[ss EXCEPT !.wpos = (@ + n) % Buf], put(dd, ss.wpos, [i \in 1..n |-> Silence])>>
dsnd_stoplazy ==
    /\ Is("dsound", "drain")
    /\ LET r == IF s.last THEN <<s, d>> ELSE dsnd_silence([s EXCEPT !.last = TRUE], d)
       IN IF dsnd_filled(s) = 0 THEN To("done") /\ UNCHANGED <<s, d>>
          ELSE s' = r[1] /\ d' = [r[2] EXCEPT !.run = TRUE] /\ To("wait")
dsnd_onplay ==
    /\ s.api = "dsound" /\ d.sig /\ u.pc \in {"wait", "write", "paused"}
    /\ LET ss == [s EXCEPT !.rpos = d.pos]
           under == dsnd_filled(ss) > dsnd_filled(s)
       IN  /\ s' = [ss EXCEPT !.isfull = FALSE, !.rpos = IF under THEN 0 ELSE @, !.wpos = IF under THEN 0 ELSE @]
           /\ d' = IF under THEN [d EXCEPT !.sig = FALSE, !.run = FALSE, !.pos = 0, !.left = 0] ELSE [d EXCEPT !.sig = FALSE]
    /\ IF u.pc = "wait" THEN Woken ELSE UNCHANGED u

-----------------------------------------------------------------------------
(* CoreAudio: a ring between the user and coraud_ioproc(), which runs in   *)
(* another thread.  ffringbuf keeps one byte free.                         *)
canread(ss) == (ss.wpos - ss.rpos) % Buf
canwrite(ss) == (ss.rpos - ss.wpos - 1) % Buf
coraud_write ==     \* ffringbuf_lock_write(), ffringbuf_lock_full()
    /\ Is("coreaudio", "call")
    /\ LET n == Min({u.len, canwrite(s)})
       IN  /\ s' = [s EXCEPT !.wpos = (@ + n) % Buf]
           /\ d' = put(d, s.wpos, Some(n))
           /\ u' = [u EXCEPT !.pc = "full", !.n = n]
coraud_full ==
    /\ Is("coreaudio", "full") /\ UNCHANGED s
    /\ d' = [d EXCEPT !.run = @ \/ canwrite(s) = 0] /\ u' = After(u.n)
\* Where the ring has too little, it is what follows the device's buffer that is zeroed:
\* the rest of the buffer is played as it was.
coraud_ioproc ==
    /\ s.api = "coreaudio" /\ d.run /\ UNCHANGED u
    /\ \E n \in 1..2 :
          LET r == Min({n, canread(s)})
              xs == [i \in 1..n |-> IF i <= r THEN d.ring[(s.rpos + i - 1) % Buf] ELSE Junk]
          IN  /\ s' = [s EXCEPT !.rpos = (@ + r) % Buf, !.overrun = @ \/ r # n]
              /\ d' = [play(d, xs) EXCEPT !.left = @ - r, !.wild = @ \/ Junk \in Range(xs)]
coraud_stoplazy ==
    /\ Is("coreaudio", "drain") /\ UNCHANGED s
    /\ d' = [d EXCEPT !.run = canread(s) # 0] /\ Drained(canread(s) = 0)

-----------------------------------------------------------------------------
(* Pausing, and clearing what was written; the user goes on with the next  *)
(* sample.  stop, start and clear of each interface, in the order they are *)
(* used.  To stop OSS is to drop what it has, ffoss_start() and            *)
(* ffoss_clear() do nothing.                                               *)
Pause ==
    /\ u.pc = "write" /\ d.run /\ u.clears < Clears
    /\ s' = IF s.api = "excl" THEN stopped(s) ELSE [s EXCEPT !.started = FALSE]
    /\ d' = IF s.api = "oss" THEN [d EXCEPT !.run = FALSE, !.queue = <<>>, !.at = u.next - 1] ELSE [d EXCEPT !.run = FALSE]
    /\ u' = [u EXCEPT !.pc = "paused", !.clears = @ + 1]
Resume ==
    /\ u.pc = "paused" /\ s' = [s EXCEPT !.started = TRUE] /\ To("write")
    /\ d' = [d EXCEPT !.run = s.api # "oss" /\ ~d.xrun]
Counting == {"excl", "dsound"}      \* what counts the events of the device
Clear ==
    /\ u.pc = "paused" /\ s.api # "oss" /\ To("write")
    /\ s' = [s EXCEPT !.actv = 0, !.wbuf = <<>>, !.last = IF s.api = "dsound" THEN @ ELSE FALSE,
                      !.rpos = 0, !.wpos = 0, !.isfull = FALSE]
    /\ d' = [d EXCEPT !.queue = <<>>, !.pos = 0, !.left = 0, !.at = u.next - 1,
                      !.off = @ \/ (d.sig /\ s.api \in Counting)]

Device == PlayBuffer \/ PlayQueue \/ PlayRing \/ coraud_ioproc
Handler == onplay_excl \/ callback \/ dsnd_onplay
User ==
    \/ Call \/ async \/ asyncTest \/ asyncSet
    \/ was_write \/ was_copy \/ was_stoplazy \/ write_sh \/ stoplazy_sh
    \/ alsa_write \/ alsa_stoplazy \/ pulse_write \/ pulse_drain \/ oss_write \/ oss_drain
    \/ dsnd_write \/ dsnd_stoplazy \/ coraud_write \/ coraud_full \/ coraud_stoplazy
Next == Device \/ Handler \/ User \/ Pause \/ Resume \/ Clear
Spec == Init /\ [][Next]_vars
FairSpec == Spec /\ WF_vars(Device) /\ WF_vars(Handler) /\ WF_vars(User) /\ WF_vars(Resume \/ Clear)

-----------------------------------------------------------------------------
(* A device plays each sample once and in order, but those that a clear or *)
(* the stop of OSS has dropped: no write overwrites what was not played,   *)
(* no buffer is handed over twice.  Exclusive WASAPI and DirectSound do so *)
(* until they are off.  Only CoreAudio plays what nobody wrote, and says   *)
(* overrun then.                                                           *)
PlayedInOrder == ~d.bad /\ (d.wild => s.overrun)

(* The exclusive device has two buffers and gets no third one, unless it   *)
(* is off.                                                                 *)
NoOverrun == s.api = "excl" /\ ~d.off => Len(d.queue) + (IF s.wbuf # <<>> THEN 1 ELSE 0) <= 2

(* "Return 1 if stopped": when draining is over everything was played or   *)
(* was dropped by a clear, or by the stop of OSS.                          *)
DrainedTrue == u.pc = "done" /\ ~d.off /\ s.api # "dsound" => d.at = Input

(* dsound.h: "Return the number of bytes left in sound buffer".            *)
FilledTrue == s.api = "dsound" => dsnd_filled(s) >= d.left

(* Playing came to its end,                                                *)
Ended == u.pc = "done"
(* or PulseAudio drains a stream that is stopped: after a stop and a clear *)
(* what is left to play did not fill the buffer.                           *)
Corked == s.api = "pulse" /\ s.last /\ ~d.run /\ d.queue # <<>>

(* Who waits is called with ALSA and a signal handler in the thread that   *)
(* plays, as the comment at the top of ffalsa.c allows.                    *)
SignalWakes == s.api = "sigio" => <>Ended
=============================================================================
