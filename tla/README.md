# TLA+ specifications of FF

FF ("Fast-Forward", `src/FF`) is a C library of containers, OS helpers, network
clients, container-format readers and codec wrappers.  It has no main program:
its state lives in objects that an application's event loop, threads and
callbacks drive.  This directory holds TLA+ modules for the parts where the
order of those calls matters, the TLC configurations that check them, and TLAPS
proofs of the results that should hold for every size.

FFOS (atomics, locks, timers, sockets, asynchronous I/O, memory) is a separate
project.  What the code relies on from it is modelled from how `src/FF` uses it.

## 1. Inventory

| Part | State it keeps | Operations | Driven by | What is hard | What makes it correct |
|---|---|---|---|---|---|
| Ring queue `ring.h`, `ffring.c` | slots, `whead`, `wtail`, `r` | write, exclusive write, read | any number of threads, no lock | interleavings of single memory accesses, wrap-around, ABA | first-in first-out, nothing lost, repeated or overwritten, calls return |
| Task queue `sys/taskqueue.h`, `sys/ffsys.c` | linked list, `len`, lock | post, delete, run | many posters, one consumer | unlocked read of the head, lost wakeups, `max_run` | a task is linked once, the list is whole, every posted task runs |
| Timer queue `sys/timer-queue.h`, `sys/fftmr.c` | tree of entries by time, `msec_time`, kernel timer | add, remove, start, stop, destroy, on-fire | event loop; handlers add and remove | handlers changing the tree while it is walked, termination of the loop | due timers fire, in order, once per time; the loop ends |
| Cache `cache.h`, `ffcache.c` | tree of keys with sibling chains, list of last use, reference counts, memory and item counts, expiry timers | store, fetch, acquire, update, unref, expire, reset, free | application and timer queue | life time of an item that is referenced, unlinked and expired in any order; eviction | accounts and indexes agree, limits hold, no item goes while it is referred to |
| File reader `sys/fileread.h`, `sys/fffileread.c` | ring of buffers, pending read, state | create, getdata, completion, unref | consumer and kernel completions | read-ahead into a buffer in use, errors and release during I/O | data returned is the data asked for; every request is answered |
| Byte ring `ring.h`, `ffring.c` | bytes, `r`, `w` | write, overwrite, read, sequential variants | one owner, or several under `lk` | wrap-around in two pieces, overwriting at the limit | the bytes read are the bytes written, less the overwritten ones |
| Sendfile, file mapping `sys/sendfile.h`, `sys/filemap.h` | header/trailer vectors, file window | send, shift, map | non-blocking sockets | partial sends at every boundary | everything is sent once and in order |
| Wait-object handler `sys/wohandler.h` (Windows) | array of handles, command, event | add, remove, worker loop | application threads and the worker | a remover waiting for a worker that waits for the lock | no deadlock, no call after removal |
| DNS client `net/dns-client.h`, `net/ffdns-client.c` | pending queries, users, servers, result cache | resolve, answer, timeout, cancel, unref | sockets and timers | late, duplicate and mismatched answers, timeouts after half an answer, several users of one query | every user is called once, with a live result |
| HTTP client `net/http-client.h`, `net/ffhttp-client.c` | one request's state machine, buffers, filter, timers | request, send, recv, close | sockets, timers, user callback | callbacks that close the object, reconnects, redirects, timeouts | legal order of callbacks, an end in every case, nothing after close |
| Containers `rbtree.h`, `hashtab.h`, `list.h`, `chain.h`, `array.h` | nodes | insert, find, remove | one owner | rebalancing, full tables, cursors | search order, balance, termination |
| Parsers `net/ffhttp.c`, `net/ffurl.c`, `net/ffdns.c`, `net/ffwebskt.c`, `data/*` | parser state | feed bytes | one owner | input cut at any byte | the result does not depend on the cuts |
| Archives, media containers, audio formats, tags `pack`, `mformat`, `aformat`, `mtags` | state of a loop, collected bytes, offset, stack of open chunks, index | feed a piece, seek, read a file or frame; write, finish | one owner, who seeks when told to | input cut at any byte, gaps, lengths past the end, damage, headers written before their data is known | the output is the file's, complete, at the place the reader thinks; what was written reads back; reading ends |
| Codec wrappers `audio` | the codec's object, counters, header state | open, encode, flush, decode, seek, close | one owner | the encoder's delay at both ends, header packets, seeking into a packet | the samples that went in come out, once and in order |
| Audio devices `adev` | ring or period buffer, event, position | open, write, start, stop, clear, drain, close; list devices | the user and the device's thread | events missed or repeated, negotiation of the format, failing half-way | samples in order, the end is reached, nothing leaks |
| GUI `gui`, `gui-gtk`, databases `db`, pictures `pic`, TLS/SSL `net/fftls.c`, `net/ffssl.c`, DPDK `net/ffdpdk.c` | wrappers over external libraries | | | | |
| Strings, arrays, numbers, time, path, CRC, sorting | none: functions over the caller's memory | | | growing buffers, cut input, limits of width | what was written is read back; sorted arrays are found in |

How they interact: the cache and the DNS and HTTP clients put their timeouts into
the timer queue and get them back as callbacks; the HTTP client asks the DNS
client for addresses; the cache keeps its items in the chained red-black tree and
the list, the timer queue its entries in the red-black tree; the task queue is the
way in which other threads reach the thread that owns all of these.  PROJECT.json
lists every part under "components" and, under "hazards", the places in them that
tests hardly reach.

## 2. Plan

Done, in this order: Ring (with the abstract BoundedQueue and the lap assumption),
TaskQueue (with TaskFifo), TimerQueue, Cache, FileRead; DnsClient and HttpClient;
HttpParse; the containers RbTree and HashTab; WaitObj; the readers and writers over
Stream; Codec, AudioDev and Opens; Str, Parse, Json and Conf.  All from HttpParse on
are composed in `MCFormats` and `MCLibrary`.  Proofs: the first seven, WaitObj, HashTab,
AudioDev.

What is left, the most important first:

1. The theorems about the DNS client beyond a collision of CRCs or a join that fails, up
   to the `fault` they end in, as the run `dns` checks them.
2. The chained tree as an implementation of the function from hashes to sequences that
   Cache uses; that `DnsClient` and HttpClient use the timer queue as TimerQueue allows.
3. Not modelled yet and small: WebSocket frames, `sendfile.h`, the overwriting byte
   ring, the cursor of `list.h`, cue, m3u and XML, the writers of WAV and ADTS.

TimerQueue stands under Cache and DnsClient: the promise used there, that a disabled
timer does not fire and an enabled one fires later, is what its `OrderedByTime` and
`DueFires` show.  HttpClient uses the DNS client as `DnsClient` shows it to be: one
call, with addresses or an error, sooner or later.

## 3. Modules

### BoundedQueue, Ring, RingLap, RingProofs: `ffring`

`Ring` has one action per shared-memory access of `_ffring_write()` and
`ffring_read()`; the thread-local variables `head_old`, `rr` and `rc` are
`hold`, `rr` and `rc`.  `WCall` and `RCall` start a call, `wret` and `rret` hold
what it returned.  `Excl` selects `ffring_write_excl()`.  Memory is sequentially
consistent: `ffatom_fence_rel()` and `ffatom_fence_acq()` are taken to order the
slot and the index as their comments say.

`MCRing` is the instance for TLC with several slots and several threads.

`BoundedQueue` is the abstract queue.  `Ring` with one writer and one reader
implements it with exact answers (`IsQueue`); with more threads it implements the
version whose "full" and "empty" are hints (`IsQueueWithHints`): `head_old` and
`rr` may be stale when they are compared, so with two writers "full" is returned on
a ring that is not, and with two readers "empty".  It does so only if no thread
sleeps through a whole lap of the others between reading an index and its
compare-and-set: an index is a number modulo `Cap` without a version, and a reader
that slept takes an element that is no longer there (ABA).  `RingLap` states this
assumption with two history variables, `wlag` and `rlag`, which restrict the
schedules and nothing else; with one writer and one reader they are always 0.

### TaskFifo, TaskQueue, TaskQueueProofs: `fftaskmgr`

`TaskQueue` keeps the links `nxt` and `prv` of the chain with its sentinel.
`fftask_post()` is cut where the consumer, which reads `tasks.first` without the
lock, can look in: after the write that makes the task visible (`PostLink`) and
before `prev`, `len` and the unlock (`PostUnlock`).  The critical section of
`fftask_run()` is one step, since posters look at nothing without the lock.  A
handler posts or deletes at most once.  The consumer's loop is the one the return
values call for: sleep until a post returned 1, run, run again after a full batch.
`chainOf` reads the list from the sentinel on, and `FifoInv` says that it is a list of
all the linked tasks; `TaskFifo` is the abstract queue it implements.

### TimerQueue: `fftimer_queue`

The tree is the sequence of its in-order.  `OnFire` is a tick of the kernel timer;
`Fire` is one turn of the loop of `tmrq_onfire()` up to the handler, `pc =
"handler"` lets the handler make any of the user's calls, several of them if it
likes, while the clock runs on.  `fired` and `lastkey` are history: the handlers
called at this `msec_time`, and the time of the last one.  Entries are added with
an interval other than 0; with 0 a handler that adds its entry again would keep the
loop busy.  `TimerInv` is what holds between any two steps; section 6 says why.

### Cache, CacheProofs, DataLemmas: `ffcache`

The record `c` is `struct ffcache` with the objects it allocated: `tree` maps a
hash to the chain of its items, `lastused` is the list, `heap` and `ckeys` the items
and the shared keys.  Each call is one action, composed of the operators that have
the names of the functions they stand for (`item_rlz`, `item_fin`, `key_unref`,
`rm_unused_one`, `rm_unused_mem`).  `held` counts what users have to unref,
`pending` is what the timer queue holds.  Errors that change nothing are not steps;
errors that leave evictions behind are.  A step through a pointer that is no longer
valid sets `fault` and is the last one: the walk of `rm_unused_mem()` past an item it
freed, `fflist_moveback()` and `FFCACHE_NEXT` on an item that left the cache, a timer
that fires after `ffcache_free()`.  Counters of hits and misses and the value of the
expiration time are left out.  `conf.multi` is chosen at the start, so one run checks
both kinds of cache.

### FileRead, FileReadProofs: `fffileread`

The record `f` is `struct fffileread`; a buffer's `data` is the offset its contents
were read from, or nothing while the kernel may be writing and after a failure.
`fr_read` is the set of outcomes of a read: an error, the data, or a pending read.
`getdata` is the whole of `fffileread_getdata()`, read-ahead included; `AioRead`,
`AioFail` and `AioAgain` are `fr_read_a()` with what the kernel reports, `AioFree` is
`fr_read_a()` of a released object.  `directio` and `async` differ when the file could
not be opened with `O_DIRECT`, since `f->conf` is copied before that is known.  The
consumer waits for `onread()` and asks again, or changes its mind and asks for
something else; `Users` says how it moves: at random without read-ahead, from block to
block forward or backward with it, or seeking with it.  Offsets are unsigned
and wrap at `Mod` (for 2^64), so that the read-ahead before offset 0 wraps as in the
code.

### DnsClient, DnsProofs: `ffdnsclient`

A query is shared by those who ask for its name.  `tree` files it under `icrc`, the
CRC of the name in lower case, so two names may meet in it; an answer looks it up by
`crc`, that of the name as it is spelled there.  `flight` is what UDP carries:
questions and answers are lost, repeated and delayed, and a foreign one is on its way
when its query has ended.  `order` and `serv` are the servers and who
is next, `timers` what the timer queue holds, `stack` the calls of users that are
under way: a user may resolve, cancel or release from within its own call.  `res`
holds the results with their counts.  A step through freed memory sets `fault` and is
the last one.

### HttpClient, HttpProofs: `ffhttp-client`

One action, `Process`, is one pass through the loop of `httpcl_process()`; its cases
are the operators named after the states.  `w.ctl` says who runs: the loop, the
handler, or nobody until I/O, the timer or `ffhttpcl_send()`.  The handler may send or
close from inside the loop that called it: `w.conts` are the loops that go on when it
returns.  Connections fail at any point, addresses are tried in turn, redirects are
followed.  Data is counted in units,
`BufSize` of which fill the buffer of the headers, and the three framings of a body are
the filters of the code; "other" is a Transfer-Encoding that is not chunked or a
Content-Length without digits, for which none of them opens.  A call through NULL ends
the process (`w.ctl = "fault"`): `FaultsKnown` says when it happens.

### HttpParse: `ffhttp`, `ffurl`, `ffproto`, `ffpath`

Parsers that keep their state between pieces take one turn of their loop per step and
get the text in any pieces; the conversions are functions that are compared with what
they are to compute.  A character stands for its class.  The writer of headers is left out.

### Stream and the readers and writers

`Stream` has what all readers share.  A byte is known by its offset in the file, so
that lost, repeated or glued pieces show in the output.  A reader is a loop over its
state; an action is one case of the loop, and between calls the caller gives the next
piece, of any length up to `MaxPiece`, seeks where it was told to, or asks for a
seek by sample.  A file is given by the places and lengths of its parts.

| Module | Code | What the module has of its own |
|---|---|---|
| `Riff` | `ffwav.c`, `ffavi.c` | the stack of open chunks with padding, seeks in the data |
| `Mp4` | `ffmp4.c`, `ffmp4-fmt.c` | the reader: boxes with 64-bit sizes, required and repeated ones, tables of samples, seeks; the writer: the header before the frames with tables patched by going back, or behind them; the tables as `mp4_stsz()`, `mp4_stsc()`, `mp4_stco()` and `mp4_stts()` read them, `mp4_seek()` |
| `Mkv` | `ffmkv.c` | elements with variable-width headers, clusters, lacing |
| `Ogg` | `ffogg.c` | pages with lost synchronisation, packets over several pages, the search for a sample; the writer |
| `Mp3` | `ffmp3.c` | ID3v2, APE and ID3v1 around frames, lost synchronisation, Xing; the copier |
| `Flac` | `ffflac-ext.c` | blocks, frames without a length, the search for a sample; the writer |
| `Frames` | `ffmpc.c`, `ffape.c`, `ffwavpack.c`, `ffaac-adts.c` | rows of blocks with tags behind them |
| `Tags` | `ffid3.c`, `fficy.c` | ID3v2 written and read, metadata inside a stream |
| `Zip`, `Packed` (tar, gzip, xz), `SevenZip`, `Iso` | `pack/*.c` | indexes at the end of a file, reading one file after the other, headers that are corrected later |

Codecs, zlib and lzma are external: a decoder takes what it is given and the reader's
claim about it (bytes, sample) is what is checked.

### Codec, AudioDev, Opens

`Codec` encodes a track chunk by chunk and decodes the packets, from the first or
after a seek, for eight wrappers; the sequence 1, 2, ... of samples makes a wrong
cut at either end visible.  `AudioDev` is one user and one device for eight ways of
output: the device plays at its own pace, reports once per period, and the user
writes, waits, stops, clears and drains.  `d.off` is history: exclusive WASAPI or
DirectSound ran dry, or was cleared with an event pending, and counts wrong from then on;
`d.wild` that something was played which nobody wrote.  `Opens` has every open and close of the
devices and codecs as the sequence of resources they take: each may be refused, and
`held`, `fld`, `lost` and `twice` tell what is left, `Leaks` what may be.  A device that supports other
settings makes the user open again with those.  The lists of devices are there too.

### Str, Parse, Json, Conf

`Str` takes one call at a time over all small arguments.  `Parse` is the buffer of a
value, which points into the caller's piece as long as it can and copies before the
piece is gone, and the schemes of `ffparse.c`; `Json` and `Conf` are parsers, schemes
and writers.  A document is a tree, written with anything allowed between its tokens.

### RbTree, HashTab, WaitObj

`RbTree` has the links and colours as the code rewires them, sentinel included, and
the ring of equal keys of the chained variant.  `HashTab` is the probing loop, one
slot per step, in a table that may get full; `FirstOf` is where the probing for an
insertion ends.  `WaitObj` has the lock, the worker between the kernel and the array
and the commands it is sent, and users that add, remove and add again; a handler may
remove its own handle.  A removal looks its place up entry by entry before it takes the
lock, so removals overlap as they may in the code; `w.stale` is history: one of them
has missed its handle, or has taken the lock with a place that is another's by now.

`LibraryProofs` has the proofs about `TimerQueue`, which it extends, and about
`AudioDev`, `WaitObj` and `HashTab`, which are instances in it.

### MCQueues, MCFormats, MCLibrary

`MCQueues` has the task queue and the timer queue, which share nothing, side by side in
one run.

`MCLibrary` extends `MCFormats`: the readers, writers and parsers of the one and the
rest of the library of the other are set side by side, with a variable `part` that
says, from the first state on, which of them a behaviour is about: the parts do not
interact.  A property of the composition is the conjunction of the named properties of its parts, each
under its `part`.  The files, texts and documents they are checked on are defined there.

## 4. Runs

| Run | Module and instance | Shows |
|---|---|---|
| `ring_spsc` | `RingLap`: one writer, one reader, four slots, two pointers | refinement of the exact queue, calls return |
| `ring_mpmc` | `MCRing`: two writers and a reader or a writer and two readers, four slots | compare-and-sets are sound, no circular wait, the queue with hints, nothing is overwritten |
| `queues` | `MCQueues`: three tasks, two posters, `max_run` 2; or two timers, with a one-shot and two periodic intervals, clock up to 4 | the inductive list invariant, refinement of the abstract FIFO, every task runs; order, once per time, due timers fire, the loop ends |
| `cache` | `Cache`: three keys of two hashes, three objects, two items, five bytes, two references | accounts and limits, indexes, references, no change under a user |
| `fileread` | two buffers of four bytes aligned to two, a file of eight bytes | buffers hold the file, returned data stays, requests end |
| `fileread_seek` | a consumer that seeks with read-ahead | violation: the returned buffer is overwritten |
| `dns` | `DnsClient`: two users, two names of one CRC, one server | who asks is called once, rightly, and in the end; results are counted |
| `dns_usage` | the same | violation: a result is handed out whose count was never set |
| `http` | `HttpClient`: two addresses, two reconnects, one redirect, all four framings | nobody waits unwoken, no socket is lost, bodies are whole, calls through NULL in the known cases only, statuses in order, an end |
| `http_close` | one address, one reconnect | violation: after the last FFHTTPCL_RESP_RECV the loop goes on with an object its handler closed |
| `library` | `MCLibrary`: fifteen readers and seven writers of small files, parsers, audio, codecs, opens, device lists, strings, JSON, configuration, tree, table, wait objects | output, completeness, place, written files, texts; no leaks, sound structures, calls end |
| `wo_rm` | `WaitObj`: two users, each adding and removing once | violation: a removal waits with the lock held for a worker that waits for the lock |

Bounds.  Ring: two pointers are enough to tell an element from its predecessor in the
same slot; four slots give a queue of three.  In `ring_mpmc` two of them can be reserved
at once by two writers, who publish in either order, and two readers race for one element;
crews of three, with symmetry of threads and pointers (for safety only), keep it small.
What four at once add is left to the theorems.  Task queue: three tasks and two posters make
every position of a deleted item (first, middle, last, only) and both orders of a
racing pair of posts happen.  Timer queue: intervals 1 and 2 let a periodic timer be
late by more than its interval before the clock ends at 4.  Cache: two items with a
third object let an item live on unlinked while another takes its place; two keys share
a hash; lengths make one eviction enough in some cases and not in others.  File reader:
eight bytes are two blocks, the second of which ends with the file, so the end is found
by a read of 0 bytes; offsets aligned to half a block make buffers overlap and one of
them is cut by the end, and there is an offset past it.  `fileread_seek` has nine bytes.

Formats: a header is two to four bytes and a file 10 to 40, so that pieces of 3 to 9
bytes cut every header, padding and seam at every place; each file list has a plain
file and ones with gaps, damage, tags on both ends, missing or excessive lengths; a
user seeks once.  DNS: two users, two names of one CRC, one server, two tries, two
query and two result objects and one packet in flight, which makes joining, a collision, a late and a
repeated answer, and cancelling from a call happen.  HTTP: two addresses, two
reconnects, one redirect, a buffer of two units, a body of two; a handler
that may send and close on every status.  Parsers: all texts up
to three or four characters that matter and longer ones on purpose.  Audio: ten samples through a
buffer of four in chunks of three, so that wrap-around and the last period fall
everywhere; one pause, with a clear or not, while events may be pending.  Codecs: frames of two samples, a delay of one, tracks about
as long as a frame and not.  Tree: six nodes, two of one key, reach every case of the
removal.  Table: five keys that collide and wrap, for four slots, so that it gets full.
Wait objects: three handles, two users, one of whom adds twice and the other once, and
has a handler that may remove the handle, too; their removals overlap.

Fairness.  A thread inside a call keeps running (weak fairness of its steps); nobody is
made to call.  The consumer of the task queue gets the spin lock if it keeps trying
(strong fairness of `RunUnlink`), and so do worker and users of `WaitObj`: the lock is
FFOS's and this is an assumption about it.  The kernel timer ticks while it is started,
handlers return, the clock runs.  The kernel completes a read it accepted and the
reader's consumer asks again after `onread()`; `fileread` adds that a read that is
retried forever succeeds at some time (`GoodDiskSpec`).  The DNS client's timers
expire and its loop goes on, no packet has to arrive; the HTTP client's loop, handler
and timer go on, no connection has to succeed.  A device plays and its handler is
called; an open, a search and an encoder that were called go on.  `ReadingEnds` assumes
nothing: no behaviour of a reader has infinitely many steps.

Deadlock is not checked for the cache, the file reader and the two clients: they end
(freed, closed, or in a fault) or wait for a user who wants nothing more.  In `library` a
part that is over stutters (`Stop`), and a state without a step anywhere else is an
error.  `Stop` also stands for PulseAudio with a rest that a stopped stream does not play
and for the worker of the wait objects at a lock that is not given back (section 5).

## 5. What the code does otherwise than it says

Four runs have findings in PROJECT.json: the read-ahead may overwrite the buffer being
returned (`fffileread.c:223`), a result may be handed out with a reference count that
was never set (`ffdns-client.c:506`), two overlapping `ffwoh_rm()` may block each other
for ever (`ffwohandler.c:100`), and the HTTP client's loop goes on with an object that was
closed while it told the end of a body (`ffhttp-client.c:432`).

The models also have the following steps.  The statement that TLC refutes, where one
is kept, is in parentheses.  A property of a passing run says where such a step is
excepted, or the instance leaves it out by the constant or the input that is named.

- Ring: the exclusive writer breaks out of its loop before `whead` is advanced
  (`ffring.c:33`); `Excl = TRUE`, the runs use `ffring_write()`.
- Cache: `rm_unused_mem()` goes on from an item that it freed (`ffcache.c:505`,
  `EvictsUntilEnough`); `ffcache_fetch()` by ID moves an item that left the list
  (`ffcache.c:246`, `FetchByIdReturns`); FFCACHE_NEXT follows the NULL sibling of such
  an item (`:198`); `ffcache_free()` leaves timers behind (`:173`).  Each ends in a `fault`.
- File reader: the error of an asynchronous read is replaced by another try
  (`fffileread.c:285`, `FailureIsReported`).
- Timer queue: `fftmrq_destroy()` leaves the keys of its entries and puts back
  `fftree_insert()` (`fftmr.c:86`); in the model a destroyed queue is initialised again.
- DNS: the reference count of a result is set when both questions were answered
  (`ffdns-client.c:509`); after a timeout in between a user holds one whose count is
  whatever the memory held, and `ffdnscl_unref()` counts that down (`:242`,
  `UsageAssert`, run `dns_usage`); `usage` is `None` until it is set.  A collision of CRCs
  frees the query of the other name and leaves it in the tree (`:171`), and so does a
  request that joins a query and finds no memory for it (`:175`, `JoinFails`); the users
  who waited are not called, and who comes to the query in the tree next ends in a
  `fault`.  A query is filed under the CRC without case and its answer looked for with it
  (`:162`, `:583`): the names of the instance are spelled the same.
- HTTP client: a redirect beyond `max_redirect` is a response like any other, but
  `nredirect` has passed the limit it is compared with; if it has a body and the connection is
  lost in it, the redirects that follow are not bounded (`ffhttp-client.c:826`,
  `RedirectsBounded`): `Ended` excepts a server that redirects for ever from there.  A
  handler that closes on the last FFHTTPCL_RESP_RECV, or sends there and closes on
  FFHTTPCL_DONE, has its object used by the loop that called it (`:412`, `:432`,
  `NoUseAfterClose`, run `http_close`).  For a Transfer-Encoding that is not chunked, and
  for a Content-Length without digits, `has_body` is set (`ffhttp.c:513`, `:498`) and no filter
  opens: the loop calls through NULL (`ffhttp-client.c:853`), or through the filter that a
  lost connection left (`FilterFits` is about the other framings).  `FaultsKnown` says that
  there are no other calls through NULL.
- HTTP parser: for the two headers above `Framed` says that the body has no filter.  The
  size of a chunk wraps: the test for "too long" sees the highest bit only
  (`ffhttp.c:1276`, `ChunkWrap`).  A range "begin-end" is shortened only if `n + off`, not
  `n`, is below the size, and one that ends before it begins has a size that wraps
  (`:1227`); `RangeTrue` names both.
- zip: the data of a stored file is never returned (`ffzip.c:452`): the only
  stored file of the instance is empty.
- gzip: a name or comment that is cut is gathered to the end of the piece, whatever is
  in it (`ffgz.c:136`): `least`, the shortest piece for a file, keeps it whole.
- Hash table: probing a full table for a key that is not there does not end
  (`ffhashtab.c:103`, `Endless`); `NotRound` and `AllEnd` except this search only.
- Wait objects: the place of a handle is looked up before the lock is taken
  (`ffwohandler.c:84`): if another removal moves the last entry in between, the wrong
  entry is cut out or the handle is not found.  `w.stale` notes it and `RemovedIsGone` is
  claimed until then.  And threads block each other: a second remover waits with the lock
  held for a worker that still waits for the lock since the first removal (`RmReturns`,
  run `wo_rm`); a remover waits for a worker whose handler waits for the lock in its own
  `ffwoh_rm()`, which `wohandler.h` allows; and a remover waits for a worker whose wait has
  failed and that wants the lock to say so (`:125`), or has ended.
- Strings: a `*` before the end of a pattern does not try again (`WildcardTrue`; what
  holds is `WildcardSound`).
- Configuration: a text with escapes that does not fit the writer's buffer is lost
  when the buffer is grown (`ffconf.c:654`, `GrowIsEnough`); `WrittenTrue` allows a text
  with escapes to be empty after that, and nothing else.
- Opus: after a seek the samples to skip are counted from the packet's end
  (`NoJunk`).
- DirectSound: `ffdsnd_silence()` may fill the ring without setting `isfull`
  (`ffdsound.c:254`): the full ring counts as empty, the next event takes it for an
  underrun, and what was not played yet is dropped (`DrainedTrue` leaves "dsound" out).
- DirectSound and exclusive WASAPI: an event that was pending at a clear is counted
  against what is written next, and the device may run over it (`FilledTrue`); `d.off`
  notes it, and `PlayedInOrder`, `NoOverrun` and `DrainedTrue` are claimed until then.
- ALSA with a signal handler may miss the last signal (`SignalWakes`; `sigio` may stop).
- PulseAudio: `ffpulse_drain()` does not start a stream that was stopped, or that was
  never full (`ffpulse.c:429`), so its rest is not played and draining does not end
  (`Corked`).
- OSS: `ffoss_stop()` drops what the device has queued (`ffoss.c:177`); these samples are
  taken out of `DrainedTrue` like those of a clear.
- CoreAudio: when the ring has too little, `coraud_ioproc()` zeroes memory behind the
  device's buffer instead of the rest of it (`ffcoreaudio.c:273`): the device plays what was
  there (`d.wild`), and `overrun` has been set.
- Opens that fail late leave something behind: `_ffdsnd_nfy_start()` returns 0 when
  CreateEvent fails (`ffdsound.c:35`); `ffcoraud_open()` sets `dev` last and its close uses
  it (`ffcoreaudio.c:236`); `ffpulse_init()` calls a close that looks at the object not yet
  stored (`ffpulse.c:108`).  `Leaks` names what each refusal leaves, `NothingLeft` allows
  no more.

## 6. Proofs

Each theorem is about all values of the constants that satisfy the named assumptions;
the runs check its property, or its inductive invariant, on one instance.

### RingProofs

`RingTypeOK` holds for any threads and any `Cap`.  `SPSCInv` is the inductive invariant
for one writer and one reader.  It adds to the properties what each thread knows at
each position: the writer owns the slot at `wtail` from its reservation to its
publication, the reader's `rr` is `r`.  From it follow `SPSCSafe`, `SPSCNoOverwrite` and
the refinement `SPSCIsQueue`; the arithmetic modulo `Cap` is in `ModIsWrap`,
`DistIsWrap`, `IncInjective` and `UnreadSlots`, the queue's shape in `PublishAppends`
and `TakeRemoves`.  The assumptions are that `Cap` is a power of two above 1 and that
the results are different from each other.

With any number of writers and readers, and no exclusive writer, the invariant is
`LapInv`.  `Divided` counts forward from `r`: first the unread slots, then the reserved
ones, each of which has exactly one owner, up to `whead`.  A thread that read an index
and has not yet come to its compare-and-set knows little: what it saw may be old.  But
`wlag` and `rlag` say by how much (`WriterKnows`, `ReaderKnows`), `NotLapped` keeps that
below `Cap`, and so an index that compares equal has a lag of 0 and what the thread
found out about it still holds.  This is where the absence of a whole lap is needed.
`WriterReserves`, `WriterPublishes` and `ReaderTakes` are the three steps that move an
index.  The owner of the slot at `wtail` is the one of `LapSomeoneIsNext`;
`LapNoOverwrite` and the refinement `LapIsQueue` follow as above.

### TaskQueueProofs

`TaskInv` says that `nxt` and `prv` are inverse to each other on the linked items (with
the half-made link of the poster that holds the lock completed), that `len` counts
them, and that the item the consumer saw is the head.  `UnlinkKeepsList`: removing
any item keeps that.  Inverse links may still form several rings.  `FifoInv` adds that
they form one: `IsList(chain, nxt)`, a sequence that starts at the sentinel, has every
linked task once and ends at the sentinel.  `ChainIs` shows that such a sequence is what
`chainOf` reads, `ListAppends` and `ListRemoves` that the writes of `fftask_post()` and
`ffchain_unlink()` append and remove in it.  With it every step is one of `TaskFifo`, or
a stutter (`StepIsFifo`), hence the refinement `TaskQueueIsFifo`.  All this holds for
every finite set of tasks and every set of threads.

### LibraryProofs

The timer queue.  `OrderedByTime` is inductive under insertion and removal (`InsertKeepsOrder`,
`RemoveAtKeepsOrder`), `OncePerTime` is not without more: that the handler called next
was not called at this time needs that every entry whose handler was called has a later
key than `msec_time`, which holds because an entry is put in again at least one unit
after the time it fired at, and `lastkey` does not pass any key in the tree.  That is
`TimerInv`.  It holds for any entries and intervals, for handlers that add, remove, start
and destroy, and with the clock running on between any two steps.

The audio outputs, for any sizes of buffer, piece and track, any numbers of events,
pauses and clears, with each of the eight ways of playing.  That nothing was played out
of order is not inductive: the invariant `AudioInv` says where the samples are that were
written and not played.  If `at` is the last one played and `w` were written, the p-th
from there is `due(at, w, p)`, the sample after it or, behind the last one, silence, and
what the interface holds is such a line.  `QueueAhead` says it of the queue of shared
WASAPI, ALSA, PulseAudio and OSS; `CoreAhead` and `RingAhead` of the positions of a ring
modulo its size; `BuffersAhead` of the buffers of exclusive WASAPI, the one being filled
behind them.  The last needs that the buffers the device has, and the events not yet
seen, are no more than `actv`: that is why `actv = 2` means that there is no room, and a
clear is a state of its own (`JustCleared`), because it sets `actv` to 0 with the old
events still to be taken off.  `PlaysOn` is the step of every device: what follows the
last sample and then silence is heard in order.  The theorems are `SoundInOrder`,
`DrainedAll`, `TwoBuffers` and `FilledUntilSilence`.  For exclusive WASAPI and DirectSound
they hold until the interface is `off` (section 5), which they name: an event that was
pending at a clear is counted against the samples written next, and in exclusive mode and
with DirectSound a device that gets nothing in time plays what is in its buffer again.
For the other six nothing is assumed.

The wait objects, for any threads, numbers of rounds and handlers that remove their
handle; removals may overlap.  `WaitInv` is what holds until `w.stale`, and `RemovedHandles`
follows.  `Registered` ties the array to what each thread thinks; `Placed` says that the
place a remover has found is that of its handle, from the lock on: a removal that took
the lock with another place has set `stale`, and while the lock is held nothing moves.
`LockHeld` says who has the lock.  `Handshake` follows the command from the remover to the worker
and its answer: before the entry is cut, the worker has left the kernel and stands at
the lock.  With it `WorkerKnows`: the index the kernel reported is that of the handle
until the handler is called.  `LastFillsHole` is what a removal does to the array.

The hash table, for any keys and hashes, whatever collides and whether or not the table
gets full.  `ProbedSlots`: the slots met in one round are all the slots, each once.
`LenTrue` counts the busy slots, so there is an empty one for an insertion that is not
refused (`FirstEmptySlot`), and filling the first empty one separates no key from its
slot: `FindTrue` (`TableFinds`).  A search that goes on has not gone round, unless the
table is full and has no such key (`SearchGoesOn`), and what a search returns is the key
if and only if that was inserted (`SearchAnswers`).

### CacheProofs, DataLemmas

`CacheInv` puts together what the four properties need from each other: the tree's
chains and the list hold the linked items once each (`InTree`, `InList`), `memsize` and
the reference counts of shared keys are sums over the items allocated (`Accounted`), an
item that left the cache has users (`Kept`), its count is theirs (`usageIs`), and
the timers are those of the linked items.  A call is a composition of operators, and so
is its proof: `Unlinking`, `Freeing`, `Releasing`, `Counting`, `MovingBack` and `Storing`
say what each operator keeps, `Evicting` and `MakingRoom` what its compositions do.  In
the middle of a call `memsize` or a count is off by a known amount, which the lemmas
name.  The walk of `rm_unused_mem()` is a fold: `RemovingMemory` shows each of its turns
to be an eviction (`EvictedTwice` composes them).  While `ffcache_free()` goes on the
list and the counts are given up, and only the accounts remain.  Data that is
shared does not change: `InUse` and `StaysInUse` follow such an item through each step.

`DataLemmas` has what is said of sequences without repetition and of sums over finite
sets.  The library's induction theorems take a predicate as a parameter and cannot be
used, so sums are shown by a set of subsets that has the one wanted (`SubsetInduction`)
and positions by the least counterexample (`LeastNat`).

### FileReadProofs

`CacheIsFile` and `BusyIsAlive` are not inductive by themselves.  `ReadInv` adds
that the object is in state FI_ASYNC exactly while the kernel reads, and that the buffer
at `wbuf` then has length 0: so nothing finds it and filling it disturbs nobody.
`ReadOffGood` and `ReturnGood` show it for each outcome of `fr_read_off()` and for the
read-ahead, `GetdataGood` for a whole call, `CompletedGood` for each answer of the
kernel.

`ReturnedStays` is `ReturnedIsIntact` for every consumer but one that seeks with
read-ahead, for which it is false (run `fileread_seek`).  Without read-ahead it follows
from `ReadInv`.  A consumer that goes from block to block needs to know that the buffer
just returned is not the one at `wbuf` when a read-ahead is due, which `SeqInv` says of
the whole ring, so that it survives the next reads.  `Oldest`: a buffer other than the
newest is left behind by the consumer, or the next buffer has the block that would be
read ahead of it, so it causes no read-ahead.  `Newest`: the consumer has reached the
newest block or the one it was read ahead of, so what it asks for and is not found lies
past them all.  `Underway` says both of the block the kernel is reading, and `AtEnd` what
is known of the end of the file, where a backward consumer starts.  `RequestOrder` and
`AheadOrder` show that the block a call reads fits the order (`InOrder`), `ReadOffOrder`
that the order survives each outcome, a failed read included.
Assumed of the constants: what `fffileread_create()` demands, and that the file and two
buffers are smaller than half the range of offsets.

### DnsProofs

The theorems hold until two CRCs collide or a request that joins a query finds no memory:
they are about `Unharmed`, the behaviours in which no user asks for a name while the query
of another one is filed under its CRC and no `JoinFails` happens, for any users, names,
servers, tries, IDs, queries and results.  Both free a query that stays in
the tree (section 5), and nothing can be said after that.  `DnsInv` has these parts:

- `Filed`: the tree has each pending query under the CRC of its name, and nothing else.
  This is why a late answer finds the query of its name or none, and why none is freed twice.
- `Framed`: at most the innermost call on the stack sends, and the others finish
  queries that are no longer in the tree: their users cannot cancel or join them.
- `Timed`: a pending query has its timer unless it is being sent (`DnsTimersMatch`).
- `Waiting`: a user waits in one place, the list of one query or what is left of the list of one
  call, and only if it asked.  With it `DnsCalledOnce` is a matter of counting places.
- `Owned`: a result is found by one query, or given out by one call and held by users,
  and is of the name they asked for (`DnsRightName`).
- `Counted`: the count of a result is the number of those who hold it and of the users
  to be called by the call that gives it out (`DnsRefsCounted`); each call of a handler
  moves one from the second to the first.
- `Successful`: a call that reports success has a result (`DnsOkHasAddresses`).

Each step is one lemma; what a step leaves alone is said by `sameQueries`, `sameCalls` and the
lemmas `FiledKept` to `WaitingKept`.  `query_fin()` is called from four places with
different stacks: `finishes` says what they have in common, and `FinishStep` shows the
invariant for it once.  `PlacesOf`, `CallsOf` and `WaitingFor` turn the invariant, which
speaks of positions, into the cardinalities of the properties.

### HttpProofs

`HttpInv` holds for any addresses, limits, sizes and framings, and whatever the handler does from inside the loop.  None of the
properties is inductive alone.  `Seen` and `Framed` tie the state of the loop to the
status the handler saw last and to the calls of `httpcl_process()` that go on after it:
those are at most one, and the request is over when there is one.  `Timed` says that a
timer is set for an operation that is pending in a state that waits, and that a pending
operation without one belongs to a request that is over: after the last failed try
`tcp_ioerr()` leaves the socket to `ffhttpcl_close()`.  From these `HttpWoken` follows.
`Sockets` adds that there is no socket while an address is looked for, so that
`tcp_prepare()` never overwrites one.  `Filtered` says that what was handed out and what
is left in the filter make up the body, and that this is the filter of the last
response (`HttpFilterFits`, `HttpDoneIsWhole`).

`Passes` is what a pass through the loop may do to its caller: go on, leave, or tell a
status that may come next, and go on after the handler only on FFHTTPCL_RESP_RECV.  From it
follows `HttpStatusOrder`.  `Closing` says of a loop that is to go on after the handler that
it stands at the end of a body: so a loop that finds its object closed was closed under
on FFHTTPCL_RESP_RECV or on the FFHTTPCL_DONE after it, and a loop lacks a filter only for the
framing "other" (`HttpFaultsKnown`).  No assumption is made about what the handler does.

### What stays with TLC

Liveness (`CallsReturn`, `TasksRun`, `DueFires`, `OnFireReturns`, `Served`, `Answered`,
`Ended`, `AllEnd`): fairness is out of the prover's reach.  What the formats, the parsers
and the tree compute (`OutputTrue`, `NothingMissed`, `TextTrue`, `StructuresSound`) is
defined by recursion over data, and what such a definition is for every input needs an
induction that the provers cannot be given.  Proved are of `OutputTrue` the part about
the audio outputs and of `StructuresSound` the one about the hash table.  `UsageAssert`,
`RmReturns` and `NoUseAfterClose` are false.

## 7. Not modelled

GUI, databases, pictures, DPDK and TLS, whose state is an external library's; WebSocket,
sendfile, cue, m3u, pls and XML, the writers of WAV and ADTS, recording beyond
opening the device; the arithmetic of PCM and floating-point conversion, calendar and
CRC, which are pure functions; logging, statistics and formatting that no control
depends on; weak memory ordering below the fences the code has; failures of
`ffmem_alloc()` where the only effect is an error return.  What the parsers do with
octets (the layout of a DNS packet, the fields of a media header that only set a
property) is abstracted to the kind of the thing.
