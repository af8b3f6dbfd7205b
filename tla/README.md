# cmogstored in TLA+

cmogstored is an alternative mogstored server (the storage node of
MogileFS): it serves files over HTTP (GET, HEAD, PUT, DELETE, MKCOL), answers a
line-based management protocol (sizes, digests, device usage), and reports
device utilisation to subscribers. This directory is a verification project for
it: TLA+ modules translated from the C code, the TLC runs that check them, and
theorems checked by TLAPS.

## Inventory

| Part of the program | Sources | Module |
|---|---|---|
| client queue: one-shot epoll, worker loop, fair exchange of clients | `queue_epoll.c`, `queue_loop.c`, `queue_step.c`, `activeq.h` | ClientQueue |
| acceptors, pool resizing, graceful shutdown, subscribers | `accept_loop.c`, `thrpool.c`, `exit.c`, `svc_dev.c` | ClientQueue |
| fsck queues (one low-priority digest per device) | `fsck_queue.c`, `mgmt.c`, `mgmt_fn.c`, `mgmt_parser.rl` | FsckQueue |
| descriptor map and idle expiry | `fdmap.c`, `file.c` | FdMap |
| HTTP connections: framing, pipelining, chunked bodies, responses | `http.c`, `http_get.c`, `http_put.c`, `chunk_parser.rl`, `trywrite.c`, `alloc.c`, `http_parser.rl` | HttpConn |
| numbers of a request: lengths, byte ranges | `http_parser.rl`, `http_get.c` | HttpRange |
| files: PUT by temporary file and rename, DELETE, GET | `http_put.c`, `http_dav.c`, `http_get.c`, `file.c`, `fs.c`, `mkpath_for.c` | PutStore, AtomicStore |
| processes: master, workers, signals, notes, upgrade, pid file | `cmogstored.c`, `process.c`, `notify.c`, `thrpool.c`, `upgrade.c`, `pidfile.c` | Master |
| mgmt connections: line parser, buffering, commands that read | `mgmt.c`, `mgmt_fn.c`, `mgmt_parser.rl` | digests in FsckQueue, watch in ClientQueue; the rest not modelled |
| utilisation figures, mount table, iostat child | `ioutil.c`, `mnt.c`, `iostat_process.c` | not modelled |
| start-up, configuration, path grammars, kqueue port | `svc.c`, `cfg.c`, `valid_path.rl`, `queue_kqueue.c` | not modelled |

`PROJECT.json` lists every part with its status, and the hazards of the code at
the lines where they bite. The hazards concentrate where state is shared
without locks (a client is passed between threads by re-arming a one-shot event
only), where descriptors are reused by the kernel, where wake-ups can be lost,
and where a socket takes less than it was given.

## How the modules fit together

ClientQueue establishes that a client is in the hands of at most one thread and
is stepped again whenever it is ready or active. The other modules rest on that:
FsckQueue and HttpConn let one actor at a time step a client, and FdMap lets only
a slot's owner put it. In return they detail what ClientQueue leaves as a choice:
a step there returns any value of `enum mog_next`; HttpConn and FsckQueue say
what the steps do to a request, FdMap what `mog_fd_init`, `mog_fd_put` and
`mog_fdmap_expire` do to a slot. PutStore takes up what HttpConn leaves open when
a body has been received or broken off: what the requests of many connections
do to the files. Master is the level above: its workers are the processes that
the other modules look into, its `Leave` is the graceful shutdown whose end
ClientQueue shows (`QuitEnds`), and its `Kill` is PutStore's `Crash`. The link is by
these assumptions, stated in the header of each module; a product of the modules
would be out of TLC's reach.

### ClientQueue

Variables are the slots of the fd map (`fd_type`), the kernel's side of a
descriptor (`sock`, the epoll set it is registered with, its armed interest and
its readiness), the places where a client can be parked (`subscribers`,
`fsckq`), and for every thread its place in the code and the clients in its
hands (`mfd`, and `recent` while it exchanges one). Workers run
`mog_queue_loop`: `IdleqWait`, one action per result of a step, `XchgTake`,
`XchgKeep` and `Swap` for the exchange after an active step. Acceptors run
`Accept`, `FdInit`, `AddIdle`. The main thread broadcasts to subscribers, shrinks
and grows the pool (cancel, join) and quits, in the order of `cmogstored_exit`.
The acceptors are cancelled together; the code cancels and joins them service
by service, and as a cancelled thread may take any time to stop, that order is
among the ones explored. `epoll_ctl` may fail with ENOMEM (`EpollMayFail`).

### FsckQueue

`at` says where each mgmt client is; `active` and `qhead` are the fields of a
`mog_fsckq`, `prio` is `mgmt->prio`. `mog_fsck_queue_ready`, and the two halves of
`mog_fsck_queue_next` (under the lock, and after it), are separate actions.
`size_t` arithmetic on `active` wraps at `SizeMax`. `epoll_ctl` may fail
(`EpollMayFail`): a client that is pushed back is then dropped (`Drop`), and if it is
the one that `mog_fsck_queue_next` has just taken off the queue, nobody takes the next
one (`ActiveqPush`). `stalled` records the devices to which this happened, until their
slots are all in use again; `NoIdleSlot` and `Unparked` exempt them, and only them.
(`mog_fd_put` does not close the file that a dropped client had open either; files are
not counted here.)

### FdMap

The kernel's descriptors, the map (`max_fd`, `mapped`, `slot_fd`), the mutex and
the per-slot spin locks. Every access of `mog_fd_init`, `mog_fd_put`, `grow_ref`
and `mog_fdmap_expire` that another thread can observe is an action of its own.
Acceptors call `mog_fdmap_expire` with cancellation enabled, and its `syslog` calls are
cancellation points: `Cancel` stops an acceptor in one of them, with `fd_lock`, and in
`expire_http` also the slot's spin lock, left locked. `Completes` says that calls end
but for those that wait for what such an acceptor has left behind.

### HttpConn

One connection and its client. What the client sends is a sequence of pieces
(part of a header, end of a header with what it said, piece of a body, not
HTTP); the buffers hold positions in it, so that loss, repetition and
misattribution of input can be stated. A response is a number and what is
missing of its body. A response written in part counts as unwritten; the rest
of it is what `wbuf` holds. `http_queue_step` is split at its system calls, so
that the client acts in between. A body has a Content-Length or comes in chunks:
pieces are then a chunk's size line, a trailer line in parts, and the final line
feed, alone or with its carriage return. `ChunkParse` is `mog_chunk_parse` over
the pieces of the buffer, `Stash` is `stash_advance_rbuf`, which decides by
`http->line_end` what of the buffer is kept for the next read. `Stash` leaves out
`tmp_tip`, the start of a Content-MD5 value in a trailer: the one trailer line that is
modelled is of the kind the parser ignores. MKCOL takes the path of DELETE.

`ReadRoom` settles a comment of `chunked_put_in_progress`, which says that there may be
no room left in the buffer ("buf_len == 0 may happen here if client sends us very bogus
data... just 400 it below"). There always is: what `stash_advance_rbuf` keeps follows a
line end, so that it is shorter than the buffer, and of a trailer line that fills the
buffer nothing is kept (a request stream has such a line). If it did happen, `read`
would return 0 and the connection be closed, without the 400.

### HttpRange

Two pure calculations that HttpConn uses: `ParseLength` (`length_incr`, in an `off_t`
of `Width` bits, with the code's own test for overflow) and `RangeResp` (the choice
between 200, 206 and 416, and offset and count). `Wanted` is the reference: the set
of positions that the digits of a Range header name. `RangeRight` compares the two
for every request that is processed, and what is still to be sent of the file with
what is left of that set. It does so for numbers that fit an `off_t`. Of the others,
`length_incr` refuses some (the parser fails with ERANGE) and takes the rest for smaller
ones; of these `RangeRight` says only that a 206 stays inside the file. And it says that
`bytes=-0` is the only range for which the assertion on the count of a 206 fails
(`AssertFails`, after which nothing happens any more).

### PutStore and AtomicStore

AtomicStore is the promise: a file changes in one step, an answer says whether it
did. PutStore is the code: `open_put` with its two attempts at a temporary name,
`mog_mkpath_for` and expiry of idle clients when the open fails, the writes, the
check of Content-MD5, `rename`, and the clean-up of `file_close_null` on every path
out; partial uploads, which write in place; DELETE; and a GET that holds a file
open while its path changes. Names link to inodes (`link`), which hold blocks
(`data`). `Fault` lets a call fail or a chunked body be malformed, `Crash` ends a process
between any two calls. `kept` records the uploads whose temporary file could not be
removed: `Leftovers` exempts those files, and those of a process that died, and no
others, whatever failed before.
PutStore maps to AtomicStore by reading the store through `link` and `data`.

### Master

`proc` holds for every process what the kernel keeps (`st`, `parent`, the signals
held back in `pend`) and what its memory holds: the flags its handlers set, the
table of children, `upgrade_pid`, and `owner`, `old` and `pidfile_exists` of
`pidfile.c`, which `fork` copies. `file` is what the pid file and `.oldbin` contain.
One action is the code from one observable system call to the next, in the order
of `run_master`, `main_worker_loop`, `sigchld_handler`, `upgrade_handler`. A thread of
the pool asks the main thread for another pool size (`Ask`, `NoteSet`, `Interrupt`)
or serves a `shutdown` command (`CmogstoredQuit`). The build modelled is Linux
(`MOG_SELFPIPE` = 0): signals are blocked except in `ppoll` and `epoll_pwait`.

## Runs

| Run | Instance | Shows |
|---|---|---|
| `client_queue` | 2 workers, 2 acceptors, main; 2 descriptors, 3 connections (so that descriptors are reused); `epoll_ctl` may fail | `Exclusive`, `Accounted`, `EpollUsage`, `QuitCount`, `AloneAtQuit`, and the inductive `IInv` |
| `client_queue_live` | 1 worker, 1 acceptor, main; 2 descriptors, 2 connections | `Served`, `QuitEnds`, `QuitCountExact` |
| `fsck_queue` | 3 clients, 2 threads, 1 device with 1 slot; `fstat` and `epoll_ctl` may fail | `SlotCount`, `NoIdleSlot`, `QueueExact`, `QuitPrio`, `Unparked`, `IInv` |
| `fd_map` | 3 threads, 1 of them an acceptor, 2 descriptors above a reserved one, heaps of 2 slots, 2 connections and a file | `SlotReady`, `LiveKept`, `ShutdownRight`, `Completes`, `IInv` |
| `http_conn` | 9 request streams and 151 requests with a byte range, buffers of 3 to 4 pieces, an `off_t` of 5 bits | `InSync`, `Framed`, `BodyExact`, `ReadRoom`, `FileHeld`, `RangeRight`, `InOrder`, `QuitIdle`, `Responds` |
| `put_store` | 9 sets of concurrent requests, 2 processes, 2 random suffixes, 1 fault, 1 crash | `Implements`, `Leftovers`, `OnlyJustErrors`, `ReadWhole`, `IInv` |
| `master` | 5 process ids; 0, 1 or 2 workers; up to 2 upgrades, 2 deaths, 1 failing fork, 2 resizes | `Supervised`, `Named`, `PidKept`, `Shutdown`, `Recovers`, `Noted` |
| `quit_watcher` | as `client_queue` | `SubscribersOpen` is violated |
| `http_wbuf_close` | as `http_conn` | `WbufFreed` is violated |
| `http_close_delimited` | as `http_conn` | `SentWhole` is violated |
| `http_chunk_split` | as `http_conn`, one stream | `Pipelined` is violated |
| `http_range_zero` | as `http_conn` | `RangeAsserted` is violated |

Why the bounds suffice. Two workers and two descriptors are the least with which
one thread can still be handling a client that another has taken, closed and seen
reused; a third connection makes the reuse happen while the other descriptor is
busy. One slot and three clients let one run, one wait and one be on its way from
the queue. In FdMap a heap of two slots and a reserved descriptor put the boundary
between heaps inside the range; three threads are an owner, an expirer and a
newcomer. The request streams of HttpConn fill the buffer exactly, exceed it, make
it grow, put the end of a body and the next header into one read, and let the
parts of a chunked body come one by one or all together. The
ranges combine no number, numbers up to the size of the file, with a leading zero
or not, the largest that a five-bit `off_t` holds, one beyond that `length_incr` refuses
and one that it does not, on files of up to two bytes. The sets
of requests of PutStore pair everything that can meet at a path: two uploads, an
upload with a removal and a reader, partial uploads with each, uploads that create the
same directories; two uploads with a reader are left to the theorems (`ReadWholeAlways`).
With two random suffixes a temporary name can be taken when it
is tried, and free the second time. Five process ids are three generations of
servers and their failures, or two servers with a worker each that is replaced
once; the scenarios of MCMaster bound each kind of event, not their order.
Every model is finite without a state constraint. `client_queue` does not check
deadlock, because after an `epoll_ctl` failure in the quit loop the process may
really wait for ever; nor does `fd_map`, where all threads may wait for what a
cancelled acceptor holds; nor does `master`, whose processes may all have ended.

Fairness. Threads that can run do (weak fairness of their steps). Handing out a
ready client is strongly fair, because epoll's ready list is first in, first
out; so is acting on a cancellation, and taking a lock that is repeatedly free.
Nothing is assumed of clients in `Served`, `Unparked` and `Completes`; `QuitEnds`
assumes that clients pause and that peers read and write (otherwise a client may
hold up a graceful shutdown, as the code intends); `Responds` that the client
reads what it is sent. In Master every process and every thread that has begun
`mog_notify` goes on; no fairness is assumed of whoever sends signals, kills
processes or issues commands. `Shutdown` and `Recovers` need the timeout of
`mog_notify_wait`: a server without workers learns of a `shutdown` command, and a
worker of its master's death, only when it ends (`HaveMgmt`; without a mgmt listener
there is no `shutdown` command, but an orphaned worker then waits for a signal).

### What the violations say

* `quit_watcher`: `mgmt.c` wants "no new iostat watchers during shutdown", but a
  watch command met in the quit loop has put its client into the list of
  subscribers before it is closed.
* `http_wbuf_close`: an error response that the socket does not take is in
  `http->wbuf` when `http_close` asserts that nothing is.
* `http_close_delimited`: a connection without keep-alive is closed when its
  delayed response header has been written, before the file has been sent.
* `http_chunk_split`: if the last line feed of a chunked body is the first byte in
  the buffer, `http->line_end` is 0, which `stash_advance_rbuf` takes for "none": the
  buffer is dropped, with the pipelined request that came in the same read.
* `http_range_zero`: `bytes=-0`, the last no bytes of a file, passes the checks of
  `http_get_resp_hdr` and fails its assertion "bad count for 206 response".

Exclusions that the passing properties state in their comments. `Named` assumes
that USR2 is not sent to a server whose predecessor is still running:
`mog_pidfile_upgrade_prepare` removes the pid file before it finds `.oldbin` taken.
`Shutdown` excludes forks that fail at start-up: a signal that arrives in the sleep
after such a failure is acted on only at the next one. Both exclusions are needed:
without them TLC finds violations. So are those named above: of `NoIdleSlot` and
`Unparked` for a hand-over that failed, of `Completes` for a cancelled acceptor, and of
`RangeRight` for `bytes=-0`.

What some properties do not say. `QuitCount` is a lower bound on the count, which an
`epoll_ctl` failure in the quit loop leaves too high; `QuitCountExact` is for runs
without such failures. The run of `Served` has one worker: that the pool may not shrink
to nothing shows there only because `Shrink` is never enabled. `FileHeld` speaks of the
waits between steps, not of what is left open at the close: if the response header of a
GET cannot be written at all, the connection is closed and its file is not. `Shutdown`
is checked with a mgmt listener. No property is about the fsck priority that a request
whose file cannot be opened leaves with its connection (`Request` models it): the next,
ordinary digest then waits in the fsck queue.

## Theorems

All proofs hold for every value of the constants that satisfies the modules'
assumptions (finitely many descriptors and clients, the kinds of threads
disjoint, at least one slot per device and per heap).

* ClientQueue (`ClientQueuePlaces`, `ClientQueueProofs`): `TypeCorrect`,
  `ExclusiveAlways`, `AccountedAlways`, `EpollUsageAlways`, `QuitCountAlways`,
  `AloneAtQuitAlways`, from `Invariance` of `IInv`, and `QuitCountExactAlways`. The
  safety invariants are not inductive alone: that arming is legitimate depends on
  which epoll set the client is registered with, and that in turn on the phase of
  shutdown. `IInv` adds what each thread has in hand at each place (`HandsOk`), what
  an unused or parked slot looks like (`SlotsOk`) and what each phase leaves behind
  (`PhaseOk`). One lemma per action; ClientQueuePlaces has those of the workers and
  acceptors, ClientQueueProofs those of the main thread and the theorems.
* FsckQueue (`FsckQueueProofs`): `SlotCountAlways`, `NoIdleSlotAlways`,
  `QueueExactAlways`, `FsckPrioAlways`, `QuitPrioAlways`, from `Invariance`. The strengthening
  (`HandoffOk`) says that a client between the queue and the active queue is in
  the hands of exactly one thread and keeps its file and priority.
* FdMap (`FdMapProofs`): `SlotReadyAlways`, `LiveKeptAlways`,
  `ShutdownRightAlways`, `SockoptRightAlways`. The strengthening says who owns each
  open descriptor (`Owned`), when a slot has a type (`Typed`), who holds which lock
  (`Locks`, cancelled acceptors included), what the map covers (`Mapped`), and that what expiry has seen still
  holds (`Examined`).
* PutStore (`PutStoreProofs`, `PutStoreClientProofs`): `NoLeftovers`; `Refinement`,
  that PutStore implements AtomicStore; `OnlyJustErrorsAlways`; `ReadWholeAlways`; for
  any requests, paths, processes and numbers of faults and crashes. The invariant
  has three layers, each resting on the one before. `StoreInv`: until its rename only
  the upload itself can reach its inode (`Uploading`, which needs that an inode is
  unused before its upload opens it, `Untouched`), so that the rename shows exactly
  the body; whatever a path or somebody else holds has been put there (`Published`),
  so that no other write can touch it but a partial upload's; and what a request is
  about to answer agrees with what it did (`Consistent`). `ErrorInv`: the directories
  that `mog_mkpath_for` has passed exist when the open is tried again (`Passed`), and
  an error that waits for its file to be closed has its cause (`JustReply`).
  `ReadInv`: what is at a path was put there by an upload to that path that has been
  sent (`Visible`), it does not change any more unless the path has partial uploads
  (`Settled`), and what a GET has sent is a prefix of the file it opened (`Reading`).
  `FullInvariance` is their conjunction, `IInv`. The first module has the steps'
  effect on `StoreInv`; the second the refinement, with one lemma per kind of step
  that maps it to a step of AtomicStore or to a stutter, and the other two layers.
* Master (`MasterProofs`): `SupervisedAlways`, `NamedAlways`, `PidKeptAlways`, from
  `Invariance` of `IInv`, for any number of process ids, workers, upgrades, deaths,
  failing forks and resizes. What makes the pid file hard is that memory is copied
  by `fork`: a child that has not yet executed its image holds its parent's belief of
  owning the file, and `atexit` handlers act on that belief. `IInv` says who may
  believe so (`MemoryOk`), which of the two names a believer's file has at each place
  in `pidfile.c` (`FilesOk`, `NamesOk`), that a server working on USR2 has no
  predecessor unless signals overlapped (`AloneOk`), that of a predecessor and its
  successor at most one goes for each name (`HeirOk`), and that the table of
  processes is exact up to the child being registered (`ChildOk`, `TableOk`). The
  lemmas are by effect on the state: steps of a process on its own memory, signals,
  forks, ends of processes, steps on the files.

The provers are named in a leaf (`Zenon`, `SMT`) where the default order would spend
its time on the one that does not find it.

The invariants of ClientQueue, FsckQueue, FdMap and PutStore are also invariants of a
run; that of Master is in no run beside the properties it implies. Only
model-checked: the liveness properties (fairness is out of the prover's reach), all of
HttpConn (whose chunk parser is recursive) and HttpRange (what a fold computes for
every input needs induction). `TypeCorrect`, `FsckPrioAlways` and `SockoptRightAlways`
are proved and, as conjuncts or consequences of an `IInv`, not listed as properties of
a run.

## Not modelled

* The header grammar and the formatting of responses and dates; path grammars
  (regular expressions without state); the Ragel output in the `*_parser.c` files.
* Trailers of a chunked body beyond one line, and a Content-MD5 line among them
  (PutStore takes the verdict on the digest as given).
* The mgmt line parser and its buffer, and the commands that only read. They have
  the shape of HttpConn with one command at a time.
* Device scanning, the mount table, usage files, the iostat child and its
  figures: file and process I/O of the main thread, without a second actor.
* Of the processes: how listening sockets are inherited, pid files that cannot be
  opened or written, reuse of process ids.
* Start-up and configuration, which run once before there are threads; the kqueue
  port; the libraries under `lib/`.

Counted over all of `src/`, with the gnulib sources and the generated parsers, the
map covers a few per cent of the lines; of the hand-written C and Ragel sources it
covers about a third. What remains of those is mostly start-up, configuration,
the mount table, iostat and the kqueue port.

Memory exhaustion outside `epoll_ctl` ends the program (`xmalloc`) and is left
out. Whether a cancellation can take effect inside `epoll_wait` after an event was
consumed is a matter of the C library; the model takes the call as either cancelled or
returning.
