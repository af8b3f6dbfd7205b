---------------------------- MODULE ClientQueue ----------------------------
(***************************************************************************)
(* The life of a client connection in one cmogstored worker process: the   *)
(* accept threads (accept_loop.c), the thread pool that shares one epoll   *)
(* descriptor (queue_loop.c, queue_epoll.c, activeq.h), the "watch"        *)
(* subscribers served by the main thread (svc_dev.c), clients parked in    *)
(* the fsck queue (fsck_queue.c), resizing of the pool (thrpool.c) and     *)
(* graceful shutdown (exit.c, fdmap.c, queue_loop.c).                      *)
(*                                                                         *)
(* What one call of mog_http_queue_step or mog_mgmt_queue_step does to its *)
(* own request is left to other modules.  Here a step is a choice among    *)
(* the values of enum mog_next that it may return.                         *)
(***************************************************************************)
EXTENDS Integers, FiniteSets

CONSTANTS
    FDs,           \* descriptor numbers, i.e. slots of the fd map
    Conns,         \* the connections that will ever be made (a bound)
    Workers,       \* threads running mog_queue_loop
    Acceptors,     \* threads running mog_accept_loop
    Main,          \* the main (notify) thread
    PostAccept,    \* ac->post_accept_fn of each acceptor, as an fd_type
    EpollMayFail,  \* whether epoll_ctl may fail with ENOMEM or ENOSPC
    None

ClientTypes == {"MGMT", "HTTP", "HTTPGET"}

Threads == Workers \cup Acceptors \cup {Main}

ASSUME ConstAssumption ==
    /\ None \notin FDs \cup Conns
    /\ Workers \cap Acceptors = {}
    /\ Main \notin Workers \cup Acceptors
    /\ PostAccept \in [Acceptors -> ClientTypes]
    /\ EpollMayFail \in BOOLEAN

\* TLC counts clients: the fd map is finite.
ASSUME FiniteAssumption == IsFiniteSet(FDs)

VARIABLES
    fd_type,      \* mfd->fd_type of each slot
    sock,         \* the connection each descriptor is open on, or None
    backlog,      \* connections not yet accepted
    reg,          \* the epoll descriptor a socket is registered with, or None
    events,       \* its armed interest; "NONE" once the one shot has fired
    io,           \* kernel readiness of the socket: "r" readable, "w" writable
    gone,         \* connections reset by the peer or shut down by expiry
    svc_queue,    \* svc->queue
    subscribers,  \* svc->devstats_subscribers
    fsckq,        \* clients waiting in some fsck queue with prio FSCK
    pc,           \* where each thread is
    mfd,          \* the client each thread is working for, or None
    recent,       \* a second client a thread has in hand, or None
    todo,         \* subscribers the running broadcast has yet to visit
    cancel,       \* threads with a cancellation request
    nr_active     \* mog_nr_active_at_quit

slotVars == <<fd_type, sock, reg, events, io, gone>>
parkVars == <<subscribers, fsckq>>
thrVars  == <<pc, mfd, recent>>
mainVars == <<svc_queue, todo, cancel, nr_active>>
vars == <<slotVars, backlog, parkVars, thrVars, mainVars>>

Init ==
    /\ fd_type = [f \in FDs |-> "UNUSED"]
    /\ sock = [f \in FDs |-> None]
    /\ backlog = Conns
    /\ reg = [f \in FDs |-> "none"]
    /\ events = [f \in FDs |-> "NONE"]
    /\ io = [f \in FDs |-> {}]
    /\ gone = {}
    /\ svc_queue = "work"
    /\ subscribers = {}
    /\ fsckq = {}
    /\ pc = [t \in Threads |-> CASE t \in Workers   -> "wait"
                                 [] t \in Acceptors -> "accept"
                                 [] OTHER           -> "loop"]
    /\ mfd = [t \in Threads |-> None]
    /\ recent = [t \in Threads |-> None]
    /\ todo = {}
    /\ cancel = {}
    /\ nr_active = 0

-----------------------------------------------------------------------------
(* The kernel, as the code uses it.                                        *)

\* What a MOG_QEV_* interest waits for.  EPOLL_CTL_ADD and EPOLL_CTL_MOD
\* examine the socket again, so that readiness that came before arming
\* counts too.
Interest(ev) == CASE ev = "RD" -> {"r"}
                  [] ev = "WR" -> {"w"}
                  [] ev = "RW" -> {"r", "w"}
                  [] OTHER     -> {}

Ready(q, f) == reg[f] = q /\ Interest(events[f]) \cap io[f] # {}

IsGone(f) == sock[f] \in gone

\* Data or EOF arrives on a socket.
Arrive(f) ==
    /\ sock[f] # None
    /\ "r" \notin io[f]
    /\ io' = [io EXCEPT ![f] = @ \cup {"r"}]
    /\ UNCHANGED <<fd_type, sock, reg, events, gone, backlog, parkVars,
                   thrVars, mainVars>>

\* The peer makes room in a socket's send buffer.
Drain(f) ==
    /\ sock[f] # None
    /\ "w" \notin io[f]
    /\ io' = [io EXCEPT ![f] = @ \cup {"w"}]
    /\ UNCHANGED <<fd_type, sock, reg, events, gone, backlog, parkVars,
                   thrVars, mainVars>>

\* The connection is reset, or mog_fdmap_expire shuts it down.
Vanish(f) ==
    /\ sock[f] # None
    /\ ~IsGone(f)
    /\ gone' = gone \cup {sock[f]}
    /\ io' = [io EXCEPT ![f] = {"r", "w"}]
    /\ UNCHANGED <<fd_type, sock, reg, events, backlog, parkVars, thrVars,
                   mainVars>>

-----------------------------------------------------------------------------
(* fdmap.c and queue_epoll.c                                               *)

\* mog_fd_put: the slot is marked unused and the descriptor closed, which
\* also takes it out of its epoll set.  (The two steps are separate in module
\* FdMap; no thread of this module looks at a slot between them.)
FdPut(F) ==
    /\ fd_type' = [f \in FDs |-> IF f \in F THEN "UNUSED" ELSE fd_type[f]]
    /\ sock' = [f \in FDs |-> IF f \in F THEN None ELSE sock[f]]
    /\ reg' = [f \in FDs |-> IF f \in F THEN "none" ELSE reg[f]]
    /\ events' = [f \in FDs |-> IF f \in F THEN "NONE" ELSE events[f]]
    /\ io' = [f \in FDs |-> IF f \in F THEN {} ELSE io[f]]
    /\ gone' = gone \ {sock[f] : f \in F}

\* epoll_ctl_error: out of memory or of watches, the client is dropped.
CtlError(f) == EpollMayFail /\ FdPut({f})

\* mog_idleq_add
IdleqAdd(f, ev) ==
    \/ /\ reg' = [reg EXCEPT ![f] = svc_queue]
       /\ events' = [events EXCEPT ![f] = ev]
       /\ UNCHANGED <<fd_type, sock, io, gone>>
    \/ CtlError(f)

\* mog_idleq_push, mog_activeq_push
IdleqPush(f, ev) ==
    \/ /\ events' = [events EXCEPT ![f] = ev]
       /\ UNCHANGED <<fd_type, sock, reg, io, gone>>
    \/ CtlError(f)

\* The same by the main thread, after a read or write that saw EAGAIN.
EagainPush(f, ev) ==
    \/ /\ events' = [events EXCEPT ![f] = ev]
       /\ io' = [io EXCEPT ![f] = @ \ Interest(ev)]
       /\ UNCHANGED <<fd_type, sock, reg, gone>>
    \/ CtlError(f)

-----------------------------------------------------------------------------
(* accept_loop.c and the post_accept functions                             *)

\* accept() returns a connection on any descriptor that is free.
Accept(a, f, c) ==
    /\ pc[a] = "accept"
    /\ sock[f] = None
    /\ c \in backlog
    /\ backlog' = backlog \ {c}
    /\ sock' = [sock EXCEPT ![f] = c]
    /\ io' = [io EXCEPT ![f] = {"w"}]
    /\ pc' = [pc EXCEPT ![a] = "init"]
    /\ mfd' = [mfd EXCEPT ![a] = f]
    /\ UNCHANGED <<fd_type, reg, events, gone, parkVars, recent, mainVars>>

\* mog_fd_init in mog_{mgmt,http,httpget}_post_accept
FdInit(a) ==
    /\ pc[a] = "init"
    /\ fd_type' = [fd_type EXCEPT ![mfd[a]] = PostAccept[a]]
    /\ pc' = [pc EXCEPT ![a] = "add"]
    /\ UNCHANGED <<sock, reg, events, io, gone, backlog, parkVars, mfd, recent,
                   mainVars>>

\* mog_idleq_add in mog_{mgmt,http,httpget}_post_accept
AddIdle(a) ==
    /\ pc[a] = "add"
    /\ IdleqAdd(mfd[a], "RD")
    /\ pc' = [pc EXCEPT ![a] = "accept"]
    /\ mfd' = [mfd EXCEPT ![a] = None]
    /\ UNCHANGED <<backlog, parkVars, recent, mainVars>>

\* accept() is a cancellation point.
AcceptorExit(a) ==
    /\ pc[a] = "accept"
    /\ a \in cancel
    /\ pc' = [pc EXCEPT ![a] = "exited"]
    /\ UNCHANGED <<slotVars, backlog, parkVars, mfd, recent, mainVars>>

-----------------------------------------------------------------------------
(* queue_loop.c: the worker threads                                        *)

\* MUTANT: no EPOLLONESHOT.
TakeEventNoOneshot(f) == UNCHANGED slotVars

\* The one shot: the kernel disarms what it hands out.
TakeEvent(f) ==
    /\ events' = [events EXCEPT ![f] = "NONE"]
    /\ UNCHANGED <<fd_type, sock, reg, io, gone>>

\* mog_idleq_wait(q, -1)
IdleqWait(t, f) ==
    /\ pc[t] = "wait"
    /\ Ready("work", f)
    /\ TakeEvent(f)
    /\ pc' = [pc EXCEPT ![t] = "step"]
    /\ mfd' = [mfd EXCEPT ![t] = f]
    /\ UNCHANGED <<backlog, parkVars, recent, mainVars>>

\* epoll_wait with a timeout is the workers' only cancellation point.
WorkerExit(t) ==
    /\ pc[t] = "wait"
    /\ t \in cancel
    /\ pc' = [pc EXCEPT ![t] = "exited"]
    /\ UNCHANGED <<slotVars, backlog, parkVars, mfd, recent, mainVars>>

\* mog_queue_step returns MOG_NEXT_ACTIVE.  Reads and writes on a connection
\* that is gone fail, so only a mgmt client still digesting a file stays
\* active after that.
StepActive(t) ==
    /\ pc[t] = "step"
    /\ IsGone(mfd[t]) => fd_type[mfd[t]] = "MGMT"
    /\ pc' = [pc EXCEPT ![t] = "xchg"]
    /\ UNCHANGED <<slotVars, backlog, parkVars, mfd, recent, mainVars>>

\* It returns MOG_NEXT_WAIT_RD or MOG_NEXT_WAIT_WR, having seen EAGAIN.
StepWait(t, ev) ==
    /\ pc[t] = "step"
    /\ ~IsGone(mfd[t])
    /\ io' = [io EXCEPT ![mfd[t]] = @ \ Interest(ev)]
    /\ pc' = [pc EXCEPT ![t] = IF ev = "RD" THEN "pushRD" ELSE "pushWR"]
    /\ UNCHANGED <<fd_type, sock, reg, events, gone, backlog, parkVars, mfd,
                   recent, mainVars>>

\* It closes the client (http_close, mgmt_close) and returns MOG_NEXT_CLOSE.
StepClose(t) ==
    /\ pc[t] = "step"
    /\ FdPut({mfd[t]})
    /\ pc' = [pc EXCEPT ![t] = "wait"]
    /\ mfd' = [mfd EXCEPT ![t] = None]
    /\ UNCHANGED <<backlog, parkVars, recent, mainVars>>

\* MOG_NEXT_IGNORE after mog_fsck_queue_ready put the client in its queue.
StepFsckWait(t) ==
    /\ pc[t] = "step"
    /\ fd_type[mfd[t]] = "MGMT"
    /\ fsckq' = fsckq \cup {mfd[t]}
    /\ pc' = [pc EXCEPT ![t] = "wait"]
    /\ mfd' = [mfd EXCEPT ![t] = None]
    /\ UNCHANGED <<slotVars, backlog, subscribers, recent, mainVars>>

\* MOG_NEXT_IGNORE from mgmt_iostat_forever; mog_svc_devstats_subscribe takes
\* the devstats_lock that a broadcast holds.
StepWatch(t) ==
    /\ pc[t] = "step"
    /\ fd_type[mfd[t]] = "MGMT"
    /\ pc[Main] # "bcast"
    /\ subscribers' = subscribers \cup {mfd[t]}
    /\ pc' = [pc EXCEPT ![t] = "wait"]
    /\ mfd' = [mfd EXCEPT ![t] = None]
    /\ UNCHANGED <<slotVars, backlog, fsckq, recent, mainVars>>

\* mog_fsck_queue_next, in the middle of a mgmt step: first the next client
\* is taken off the queue, then (outside the lock) it is made active.
FsckNext(t, g) ==
    /\ pc[t] = "step"
    /\ fd_type[mfd[t]] = "MGMT"
    /\ g \in fsckq
    /\ fsckq' = fsckq \ {g}
    /\ recent' = [recent EXCEPT ![t] = g]
    /\ pc' = [pc EXCEPT ![t] = "fsckpush"]
    /\ UNCHANGED <<slotVars, backlog, subscribers, mfd, mainVars>>

FsckPush(t) ==
    /\ pc[t] = "fsckpush"
    /\ IdleqPush(recent[t], "RW")
    /\ recent' = [recent EXCEPT ![t] = None]
    /\ pc' = [pc EXCEPT ![t] = "step"]
    /\ UNCHANGED <<backlog, parkVars, mfd, mainVars>>

\* queue_xchg_maybe: mog_idleq_wait(q, 0) finds a more recent client ...
XchgTake(t, f) ==
    /\ pc[t] = "xchg"
    /\ Ready("work", f)
    /\ TakeEvent(f)
    /\ recent' = [recent EXCEPT ![t] = f]
    /\ pc' = [pc EXCEPT ![t] = "swap"]
    /\ UNCHANGED <<backlog, parkVars, mfd, mainVars>>

\* ... or finds none, and the thread keeps its client.
XchgKeep(t) ==
    /\ pc[t] = "xchg"
    /\ \A f \in FDs : ~Ready("work", f)
    /\ pc' = [pc EXCEPT ![t] = "step"]
    /\ UNCHANGED <<slotVars, backlog, parkVars, mfd, recent, mainVars>>

\* MUTANT: the active client is not pushed.
SwapForgets(t) ==
    /\ pc[t] = "swap"
    /\ mfd' = [mfd EXCEPT ![t] = recent[t]]
    /\ recent' = [recent EXCEPT ![t] = None]
    /\ pc' = [pc EXCEPT ![t] = "step"]
    /\ UNCHANGED <<slotVars, backlog, parkVars, mainVars>>

\* queue_xchg_maybe: the active client is pushed, the recent one is next.
Swap(t) ==
    /\ pc[t] = "swap"
    /\ IdleqPush(mfd[t], "RW")
    /\ mfd' = [mfd EXCEPT ![t] = recent[t]]
    /\ recent' = [recent EXCEPT ![t] = None]
    /\ pc' = [pc EXCEPT ![t] = "step"]
    /\ UNCHANGED <<backlog, parkVars, mainVars>>

\* mog_queue_xchg after MOG_NEXT_WAIT_RD or MOG_NEXT_WAIT_WR
Push(t) ==
    /\ pc[t] \in {"pushRD", "pushWR"}
    /\ IdleqPush(mfd[t], IF pc[t] = "pushRD" THEN "RD" ELSE "WR")
    /\ mfd' = [mfd EXCEPT ![t] = None]
    /\ pc' = [pc EXCEPT ![t] = "wait"]
    /\ UNCHANGED <<backlog, parkVars, recent, mainVars>>

-----------------------------------------------------------------------------
(* The main thread while serving: svc_dev.c and thrpool.c                  *)

MainAt(from, to) ==
    /\ pc[Main] = from
    /\ pc' = [pc EXCEPT ![Main] = to]

\* mog_svc_devstats_broadcast takes devstats_lock.  No subscriber is visited
\* when devstats_stringify fails.
BcastBegin ==
    /\ MainAt("loop", "bcast")
    /\ todo' \in {subscribers, {}}
    /\ UNCHANGED <<slotVars, backlog, parkVars, mfd, recent, svc_queue, cancel,
                   nr_active>>

\* MUTANT: no LIST_REMOVE after a write error.
BcastOneNoRemove(f) ==
    /\ pc[Main] = "bcast"
    /\ f \in todo
    /\ todo' = todo \ {f}
    /\ FdPut({f})
    /\ UNCHANGED <<backlog, parkVars, thrVars, svc_queue, cancel, nr_active>>

\* One subscriber: the write succeeds, fails, or would block.
BcastOne(f) ==
    /\ pc[Main] = "bcast"
    /\ f \in todo
    /\ todo' = todo \ {f}
    /\ \/ /\ ~IsGone(f) /\ "w" \in io[f]
          /\ UNCHANGED <<slotVars, subscribers>>
       \/ /\ FdPut({f})
          /\ subscribers' = subscribers \ {f}
       \/ /\ ~IsGone(f)
          /\ EagainPush(f, "WR")
          /\ subscribers' = subscribers \ {f}
    /\ UNCHANGED <<backlog, fsckq, thrVars, svc_queue, cancel, nr_active>>

BcastEnd ==
    /\ todo = {}
    /\ MainAt("bcast", "loop")
    /\ UNCHANGED <<slotVars, backlog, parkVars, mfd, recent, mainVars>>

Alive(S) == {t \in S : pc[t] # "exited"}

\* MUTANT: a size of zero is accepted.
ShrinkToZero(S) ==
    /\ S # {} /\ S \subseteq Alive(Workers)
    /\ MainAt("loop", "resize")
    /\ cancel' = S
    /\ UNCHANGED <<slotVars, backlog, parkVars, mfd, recent, svc_queue, todo,
                   nr_active>>

\* thrpool_set_size to a smaller, non-zero size: the surplus threads are
\* cancelled and joined.
Shrink(S) ==
    /\ S # {} /\ S \subseteq Alive(Workers) /\ S # Alive(Workers)
    /\ MainAt("loop", "resize")
    /\ cancel' = S
    /\ UNCHANGED <<slotVars, backlog, parkVars, mfd, recent, svc_queue, todo,
                   nr_active>>

Shrunk ==
    /\ Alive(cancel) = {}
    /\ MainAt("resize", "loop")
    /\ cancel' = {}
    /\ UNCHANGED <<slotVars, backlog, parkVars, mfd, recent, svc_queue, todo,
                   nr_active>>

\* thrpool_set_size to a larger size: one more pthread_create succeeds.
Grow(t) ==
    /\ pc[Main] = "loop"
    /\ pc[t] = "exited"
    /\ pc' = [pc EXCEPT ![t] = "wait"]
    /\ UNCHANGED <<slotVars, backlog, parkVars, mfd, recent, mainVars>>

-----------------------------------------------------------------------------
(* cmogstored_exit                                                         *)

\* svc_quit_accept_i: the acceptors are cancelled ...
QuitAccept ==
    /\ MainAt("loop", "quit_accept")
    /\ cancel' = Acceptors
    /\ UNCHANGED <<slotVars, backlog, parkVars, mfd, recent, svc_queue, todo,
                   nr_active>>

\* MUTANT: no pthread_join of the acceptors.
AcceptQuitNoJoin ==
    /\ MainAt("quit_accept", "dev_shutdown1")
    /\ UNCHANGED <<slotVars, backlog, parkVars, mfd, recent, mainVars>>

\* ... and joined.
AcceptQuit ==
    /\ Alive(Acceptors) = {}
    /\ MainAt("quit_accept", "dev_shutdown1")
    /\ UNCHANGED <<slotVars, backlog, parkVars, mfd, recent, mainVars>>

\* mog_svc_dev_shutdown closes every subscriber, under devstats_lock.
DevShutdown ==
    /\ FdPut(subscribers)
    /\ subscribers' = {}

\* The first call, followed by the pthread_cancel calls of mog_queue_stop.
DevShutdown1 ==
    /\ MainAt("dev_shutdown1", "queue_stop")
    /\ DevShutdown
    /\ cancel' = Workers
    /\ UNCHANGED <<backlog, fsckq, mfd, recent, svc_queue, todo, nr_active>>

\* MUTANT: no pthread_join of the workers.
QueueStopNoJoin ==
    /\ MainAt("queue_stop", "dev_shutdown2")
    /\ reg' = [f \in FDs |-> "none"]
    /\ events' = [f \in FDs |-> "NONE"]
    /\ UNCHANGED <<fd_type, sock, io, gone, backlog, parkVars, mfd, recent,
                   mainVars>>

\* mog_queue_stop has joined the workers: it closes the epoll descriptor.
QueueStop ==
    /\ Alive(Workers) = {}
    /\ MainAt("queue_stop", "dev_shutdown2")
    /\ reg' = [f \in FDs |-> "none"]
    /\ events' = [f \in FDs |-> "NONE"]
    /\ UNCHANGED <<fd_type, sock, io, gone, backlog, parkVars, mfd, recent,
                   mainVars>>

\* The second call catches clients that subscribed after the first one; then
\* svc_queue_set points every service at the notify queue.
DevShutdown2 ==
    /\ MainAt("dev_shutdown2", "requeue")
    /\ DevShutdown
    /\ svc_queue' = "notify"
    /\ UNCHANGED <<backlog, fsckq, mfd, recent, todo, cancel, nr_active>>

Clients == {f \in FDs : fd_type[f] \in ClientTypes}

\* mog_fdmap_requeue: every client slot is added to the notify queue and
\* counted, whether epoll_ctl accepted it or not (D is dropped).  Fsck
\* priority is cleared, so no thread looks at an fsck queue again.
Requeue ==
    \E D \in SUBSET Clients :
    /\ D = {} \/ EpollMayFail
    /\ MainAt("requeue", "quit")
    /\ nr_active' = nr_active + Cardinality(Clients)
    /\ fd_type' = [f \in FDs |-> IF f \in D THEN "UNUSED" ELSE fd_type[f]]
    /\ sock' = [f \in FDs |-> IF f \in D THEN None ELSE sock[f]]
    /\ reg' = [f \in FDs |-> IF f \in Clients \ D THEN svc_queue ELSE reg[f]]
    /\ events' = [f \in FDs |-> IF f \in Clients \ D THEN "RW" ELSE events[f]]
    /\ io' = [f \in FDs |-> IF f \in D THEN {} ELSE io[f]]
    /\ gone' = gone \ {sock[f] : f \in D}
    /\ fsckq' = {}
    /\ UNCHANGED <<backlog, subscribers, mfd, recent, svc_queue, todo, cancel>>

\* mog_queue_quit_loop waits while clients are active ...
QuitWait(f) ==
    /\ nr_active # 0
    /\ Ready("notify", f)
    /\ MainAt("quit", "quit_step")
    /\ TakeEvent(f)
    /\ mfd' = [mfd EXCEPT ![Main] = f]
    /\ UNCHANGED <<backlog, parkVars, recent, mainVars>>

QuitStepped ==
    /\ MainAt("quit_step", "quit")
    /\ mfd' = [mfd EXCEPT ![Main] = None]

\* MUTANT: no return after the push, the count is decremented.
QuitPushCounts(ev) ==
    /\ QuitStepped
    /\ IdleqPush(mfd[Main], ev)
    /\ nr_active' = nr_active - 1
    /\ UNCHANGED <<backlog, parkVars, recent, svc_queue, todo, cancel>>

\* MUTANT: mog_nr_active_at_quit is not decremented.
QuitCloseUncounted ==
    /\ QuitStepped
    /\ FdPut({mfd[Main]})
    /\ UNCHANGED <<backlog, parkVars, recent, mainVars>>

\* mog_{http,mgmt}_quit_step: the step left something to do, wait for it
\* (MOG_NEXT_WAIT_RD only if a request is in progress).
QuitPush(ev) ==
    /\ QuitStepped
    /\ IsGone(mfd[Main]) => ev = "RW" /\ fd_type[mfd[Main]] = "MGMT"
    /\ IF ev = "RW" THEN IdleqPush(mfd[Main], ev)
                    ELSE EagainPush(mfd[Main], ev)
    /\ UNCHANGED <<backlog, parkVars, recent, mainVars>>

\* The client is closed (MOG_NEXT_CLOSE, or idle in MOG_NEXT_WAIT_RD).
QuitClose ==
    /\ QuitStepped
    /\ FdPut({mfd[Main]})
    /\ nr_active' = nr_active - 1
    /\ UNCHANGED <<backlog, parkVars, recent, svc_queue, todo, cancel>>

\* MOG_NEXT_IGNORE: a "watch" command has subscribed the client, which is
\* then closed.
QuitIgnore ==
    /\ QuitStepped
    /\ fd_type[mfd[Main]] = "MGMT"
    /\ subscribers' = subscribers \cup {mfd[Main]}
    /\ FdPut({mfd[Main]})
    /\ nr_active' = nr_active - 1
    /\ UNCHANGED <<backlog, fsckq, recent, svc_queue, todo, cancel>>

\* ... and then exits.
Exit ==
    /\ nr_active = 0
    /\ MainAt("quit", "exited")
    /\ UNCHANGED <<slotVars, backlog, parkVars, mfd, recent, mainVars>>

Exited == pc[Main] = "exited" /\ UNCHANGED vars

-----------------------------------------------------------------------------

Environment == \E f \in FDs : Arrive(f) \/ Drain(f) \/ Vanish(f)

Acceptor(a) ==
    \/ \E f \in FDs, c \in Conns : Accept(a, f, c)
    \/ FdInit(a) \/ AddIdle(a) \/ AcceptorExit(a)

\* Steps a worker takes with a client in hand: nothing here can block for
\* good (a broadcast ends).
WorkerRun(t) ==
    \/ StepActive(t) \/ StepClose(t) \/ StepFsckWait(t) \/ StepWatch(t)
    \/ \E ev \in {"RD", "WR"} : StepWait(t, ev)
    \/ \E g \in FDs : FsckNext(t, g)
    \/ FsckPush(t) \/ XchgKeep(t) \/ Swap(t) \/ Push(t)

\* epoll_wait hands a client to a worker.
Deliver(t, f) == IdleqWait(t, f) \/ XchgTake(t, f)

Worker(t) ==
    \/ WorkerRun(t) \/ WorkerExit(t)
    \/ \E f \in FDs : Deliver(t, f)

MainServe ==
    \/ BcastBegin \/ BcastEnd \/ QuitAccept
    \/ \E f \in FDs : BcastOne(f)
    \/ \E S \in SUBSET Workers : Shrink(S)
    \/ \E t \in Workers : Grow(t)

MainQuit ==
    \/ AcceptQuit \/ DevShutdown1 \/ QueueStop \/ DevShutdown2 \/ Requeue
    \/ \E ev \in {"RD", "WR", "RW"} : QuitPush(ev)
    \/ QuitClose \/ QuitIgnore \/ Exit

Next ==
    \/ Environment
    \/ \E a \in Acceptors : Acceptor(a)
    \/ \E t \in Workers : Worker(t)
    \/ MainServe \/ Shrunk \/ MainQuit
    \/ \E f \in FDs : QuitWait(f)
    \/ Exited

Spec == Init /\ [][Next]_vars

-----------------------------------------------------------------------------
(* Safety                                                                  *)

WorkerPc == {"wait", "step", "xchg", "swap", "pushRD", "pushWR", "fsckpush",
             "exited"}
AcceptorPc == {"accept", "init", "add", "exited"}
MainPc == {"loop", "bcast", "resize", "quit_accept", "dev_shutdown1",
           "queue_stop", "dev_shutdown2", "requeue", "quit", "quit_step",
           "exited"}

TypeOK ==
    /\ fd_type \in [FDs -> ClientTypes \cup {"UNUSED"}]
    /\ sock \in [FDs -> Conns \cup {None}]
    /\ backlog \subseteq Conns
    /\ reg \in [FDs -> {"none", "work", "notify"}]
    /\ events \in [FDs -> {"NONE", "RD", "WR", "RW"}]
    /\ io \in [FDs -> SUBSET {"r", "w"}]
    /\ gone \subseteq Conns
    /\ svc_queue \in {"work", "notify"}
    /\ subscribers \subseteq FDs
    /\ fsckq \subseteq FDs
    /\ pc \in [Threads -> WorkerPc \cup AcceptorPc \cup MainPc]
    /\ \A t \in Workers : pc[t] \in WorkerPc
    /\ \A a \in Acceptors : pc[a] \in AcceptorPc
    /\ pc[Main] \in MainPc
    /\ mfd \in [Threads -> FDs \cup {None}]
    /\ recent \in [Threads -> FDs \cup {None}]
    /\ todo \subseteq FDs
    /\ cancel \subseteq Threads
    /\ nr_active \in Nat

Holds(t, f) == mfd[t] = f \/ recent[t] = f

Held(f) == \E t \in Threads : Holds(t, f)

Armed(f) == events[f] # "NONE"

\* The quit loop has the process to itself.
Quitting == pc[Main] \in {"quit", "quit_step", "exited"}

Parked(f) == f \in fsckq \/ (f \in subscribers /\ ~Quitting)

\* A client is never in two places at once: in the hands of two threads (or
\* twice of one), armed in an epoll set while a thread has it, or parked in
\* the subscriber list or an fsck queue while armed or held.  This is what
\* lets mog_queue_step run without locks, and what the check_in/check_out
\* debugging counters of fdmap.h are there to validate.
Exclusive ==
    \A f \in FDs :
        /\ \A t, u \in Threads : Holds(t, f) /\ Holds(u, f) => t = u
        /\ \A t \in Threads : ~(mfd[t] = f /\ recent[t] = f)
        /\ Held(f) => ~Armed(f) /\ ~Parked(f)
        /\ Armed(f) => ~Parked(f)
        /\ ~(f \in fsckq /\ f \in subscribers)

\* No client is ever lost: every open connection is in the hands of a thread,
\* armed in an epoll set, or parked where something will find it.  (Between
\* closing the workers' epoll descriptor and mog_fdmap_requeue the fd map
\* itself is what finds them.)
Accounted ==
    \A f \in FDs :
        sock[f] # None =>
            \/ Held(f) \/ Armed(f) \/ Parked(f)
            \/ pc[Main] \in {"dev_shutdown2", "requeue"} /\ f \in Clients

\* Whatever a thread is about to do epoll_ctl on is in the state that call
\* needs, so that the assertion "BUG in our usage of epoll" of
\* epoll_ctl_error cannot fail: EPOLL_CTL_MOD goes to the epoll set the
\* socket is registered with, EPOLL_CTL_ADD to one that does not have it.
\* In all cases the slot is that of an open client.
EpollUsage ==
    /\ \A t \in Workers : \A f \in {mfd[t], recent[t]} \cap FDs :
           f \in Clients /\ reg[f] = "work" /\ svc_queue = "work"
    /\ \A a \in Acceptors : pc[a] = "add" =>
           mfd[a] \in Clients /\ reg[mfd[a]] = "none" /\ svc_queue = "work"
    /\ \A f \in todo : f \in Clients /\ reg[f] = "work" /\ svc_queue = "work"
    /\ pc[Main] = "quit_step" => mfd[Main] \in Clients /\ reg[mfd[Main]] = "notify"

\* The quit loop's count never falls below the number of clients still open,
\* so the process does not exit while a client is being served, and the
\* "mog_nr_active_at_quit underflow" assertion of mog_queue_quit_loop holds.
QuitCount == Quitting => nr_active >= Cardinality(Clients)

\* If no epoll_ctl fails the count is exact, so that closing the last client
\* ends the loop.
QuitCountExact == Quitting /\ ~EpollMayFail => nr_active = Cardinality(Clients)

\* Every subscriber is an open mgmt client.  The quit loop means to have "no
\* new iostat watchers during shutdown".
SubscribersOpen == \A f \in subscribers : fd_type[f] = "MGMT"

\* Once the main thread has closed the workers' queue no other thread is
\* running: "no other threads are running when this is called" says
\* mog_fdmap_requeue, which takes no lock, and no thread has a client.
AloneAtQuit ==
    pc[Main] \in {"dev_shutdown2", "requeue", "quit", "quit_step", "exited"} =>
        \A t \in Threads \ {Main} :
            pc[t] = "exited" /\ mfd[t] = None /\ recent[t] = None

-----------------------------------------------------------------------------
(* What makes the invariants above inductive.                              *)

\* Until mog_queue_stop has joined the workers and closed their queue.
Serving == pc[Main] \in {"loop", "bcast", "resize", "quit_accept",
                         "dev_shutdown1", "queue_stop"}

\* Which threads have which clients in hand, by what they are doing.
HandsOk ==
    /\ \A t \in Workers :
           /\ mfd[t] = None <=> pc[t] \in {"wait", "exited"}
           /\ recent[t] = None <=> pc[t] \notin {"swap", "fsckpush"}
    /\ \A a \in Acceptors :
           /\ mfd[a] = None <=> pc[a] \in {"accept", "exited"}
           /\ recent[a] = None
           /\ pc[a] = "init" => fd_type[mfd[a]] = "UNUSED" /\ reg[mfd[a]] = "none"
    /\ mfd[Main] = None <=> pc[Main] # "quit_step"
    /\ recent[Main] = None

\* A descriptor that is not open is nowhere; an open one is a client's unless
\* its acceptor has yet to say so; what is armed or parked is a client.
SlotsOk ==
    \A f \in FDs :
        /\ sock[f] = None =>
               /\ fd_type[f] = "UNUSED" /\ reg[f] = "none" /\ ~Armed(f)
               /\ ~Held(f) /\ ~Parked(f)
        /\ sock[f] # None /\ fd_type[f] = "UNUSED" =>
               \E a \in Acceptors : pc[a] = "init" /\ mfd[a] = f
        /\ Armed(f) => f \in Clients /\ reg[f] # "none"
        /\ Parked(f) => f \in Clients /\ (Serving => reg[f] = "work")

\* What each phase of cmogstored_exit leaves behind.
PhaseOk ==
    /\ svc_queue = "work" <=> ~Quitting /\ pc[Main] # "requeue"
    /\ \A f \in FDs : reg[f] = "work" => Serving
    /\ \A f \in FDs : reg[f] = "notify" => Quitting
    /\ Quitting => fsckq = {}
    /\ todo \subseteq subscribers
    /\ pc[Main] # "bcast" => todo = {}
    /\ pc[Main] \notin {"loop", "bcast", "resize", "quit_accept"} =>
           \A a \in Acceptors : pc[a] = "exited"

\* The inductive invariant: where every client is, in every phase.
IInv ==
    /\ TypeOK /\ Exclusive /\ Accounted /\ EpollUsage /\ QuitCount
    /\ AloneAtQuit /\ HandsOk /\ SlotsOk /\ PhaseOk

-----------------------------------------------------------------------------
(* Liveness.  Threads run; epoll's ready list is first in, first out, so a *)
(* client that stays ready is handed out; cancellation is acted upon.      *)

Fairness ==
    /\ \A t \in Workers : WF_vars(WorkerRun(t)) /\ SF_vars(WorkerExit(t))
    /\ \A a \in Acceptors :
           WF_vars(FdInit(a) \/ AddIdle(a)) /\ SF_vars(AcceptorExit(a))
    /\ \A f \in FDs : /\ SF_vars(\E t \in Workers : Deliver(t, f))
                      /\ SF_vars(QuitWait(f))
    /\ WF_vars(BcastEnd \/ \E f \in FDs : BcastOne(f))
    /\ WF_vars(Shrunk \/ MainQuit)

FairSpec == Spec /\ Fairness

\* A client that is ready in the workers' queue is handed to a thread, even if
\* every thread has a client that pipelines requests and never stops being
\* active, and while the pool is resized or stopped: "the practice of queueing
\* active clients prevents starvation" (doc/queues.txt).
Served == \A f \in FDs : Ready("work", f) ~> ~Ready("work", f)

\* No client keeps its thread busy for ever: sooner or later it has nothing
\* more to say for the moment (EAGAIN) or is closed; at shutdown its requests
\* end; and peers read and write.
ClientsPause ==
    /\ \A t \in Workers : SF_vars(StepClose(t) \/ StepWait(t, "RD"))
    /\ SF_vars(QuitClose)
    /\ \A f \in FDs : WF_vars(Drain(f)) /\ WF_vars(Arrive(f))

\* Graceful shutdown ends: once cmogstored_exit has started, the acceptors and
\* workers are joined, the quit loop finds every client, and the process
\* exits, unless some client never pauses.
QuitEnds == ClientsPause => (pc[Main] = "quit_accept" ~> pc[Main] = "exited")
=============================================================================
