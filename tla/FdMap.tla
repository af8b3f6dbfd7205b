------------------------------- MODULE FdMap -------------------------------
(***************************************************************************)
(* The map from descriptors to slots of memory (fdmap.c), as the threads   *)
(* of a worker process use it: slots are found and the map grown by        *)
(* mog_fd_init, given back by mog_fd_put, and scanned by mog_fdmap_expire, *)
(* which a thread that has run out of descriptors calls to shut down idle  *)
(* HTTP connections it does not own.                                       *)
(*                                                                         *)
(* The kernel hands out a descriptor again as soon as it is closed.  That  *)
(* one thread at a time has a client, and so puts its slot, is established *)
(* by module ClientQueue.                                                  *)
(***************************************************************************)
EXTENDS Integers, FiniteSets

CONSTANTS
    Threads,
    Acceptors,   \* the threads of mog_accept_loop, which may be cancelled
    NFds,        \* RLIMIT_NOFILE: descriptors are 0 .. NFds - 1
    FD_PER_HEAP, \* slots added to the map at a time
    FirstFd,     \* descriptors below it are stdin, stdout and stderr
    Objs,        \* what descriptors are opened on: sockets and files
    KindOf,      \* the fd_type each will be given
    None

FDs == FirstFd .. NFds - 1

ASSUME FdAssumption ==
    /\ NFds \in Nat /\ FD_PER_HEAP \in Nat \ {0}
    /\ FirstFd \in Nat /\ FirstFd <= NFds
    /\ Acceptors \subseteq Threads
    /\ KindOf \in [Objs -> {"HTTP", "MGMT", "FILE"}]
    /\ None \notin Objs /\ None \notin Threads /\ None \notin Int

VARIABLES
    open,      \* kernel: the object each descriptor is open on, or None
    shut,      \* kernel: the sockets that have been shut down
    max_fd,    \* slots that mog_fd_get may use without a lock
    mapped,    \* slots whose heap is in fd_map
    slot_fd,   \* mfd->fd of each slot, None if its memory is not initialised
    fd_type,   \* mfd->fd_type
    expiring,  \* the thread that holds the slot's spin lock, or None
    fd_lock,   \* the thread that holds the mutex, or None
    live,      \* slots in use that no thread is initialising or putting
    pc, cur,   \* of each thread: where it is, its descriptor (or scan position)
    seen       \* of each thread: the socket that getsockopt has examined

kernelVars == <<open, shut>>
mapVars == <<max_fd, mapped, slot_fd>>
vars == <<kernelVars, mapVars, fd_type, expiring, fd_lock, live, pc, cur, seen>>

Init ==
    /\ open = [f \in FDs |-> None]
    /\ shut = {}
    /\ max_fd = 0
    /\ mapped = {}
    /\ slot_fd = [f \in FDs |-> None]
    /\ fd_type = [f \in FDs |-> "UNUSED"]
    /\ expiring = [f \in FDs |-> None]
    /\ fd_lock = None
    /\ live = {}
    /\ pc = [t \in Threads |-> "idle"]
    /\ cur = [t \in Threads |-> FirstFd]
    /\ seen = [t \in Threads |-> None]

Goto(t, from, to) == pc[t] = from /\ pc' = [pc EXCEPT ![t] = to]

-----------------------------------------------------------------------------
(* mog_fd_init: after accept() or open()                                   *)

\* The kernel returns a descriptor that is not open.
Open(t, f, o) ==
    /\ Goto(t, "idle", "get")
    /\ open[f] = None
    /\ \A g \in FDs : open[g] # o
    /\ open' = [open EXCEPT ![f] = o]
    /\ cur' = [cur EXCEPT ![t] = f]
    /\ UNCHANGED <<shut, mapVars, fd_type, expiring, fd_lock, live, seen>>

\* MUTANT: off by one in the lookup.
FdGetOff(t) ==
    /\ Goto(t, "get", IF cur[t] <= max_fd THEN "lock" ELSE "grow")
    /\ UNCHANGED <<kernelVars, mapVars, fd_type, expiring, fd_lock, live, cur, seen>>

\* mog_fd_get reads max_fd without the mutex.
FdGet(t) ==
    /\ Goto(t, "get", IF cur[t] < max_fd THEN "lock" ELSE "grow")
    /\ UNCHANGED <<kernelVars, mapVars, fd_type, expiring, fd_lock, live, cur, seen>>

\* MUTANT: without the mutex.
GrowLockNot(t) ==
    /\ Goto(t, "grow", "growing")
    /\ UNCHANGED <<kernelVars, mapVars, fd_type, expiring, fd_lock, live, cur, seen>>

\* grow_ref takes the mutex ...
GrowLock(t) ==
    /\ Goto(t, "grow", "growing")
    /\ fd_lock = None
    /\ fd_lock' = t
    /\ UNCHANGED <<kernelVars, mapVars, fd_type, expiring, live, cur, seen>>

\* MUTANT: the heap overlaps the last one.
HeapOff == max_fd - 1 .. max_fd + FD_PER_HEAP - 2

\* The slots of the next heap.
Heap == max_fd .. max_fd + FD_PER_HEAP - 1

\* ... and, while the map is too small, initialises a heap of slots, which
\* it then enters in fd_map ...
GrowHeap(t) ==
    /\ Goto(t, "growing", "publish")
    /\ cur[t] >= max_fd
    /\ slot_fd' = [f \in FDs |-> IF f \in Heap THEN f ELSE slot_fd[f]]
    /\ fd_type' = [f \in FDs |-> IF f \in Heap THEN "UNUSED" ELSE fd_type[f]]
    /\ expiring' = [f \in FDs |-> IF f \in Heap THEN None ELSE expiring[f]]
    /\ mapped' = mapped \cup Heap
    /\ UNCHANGED <<kernelVars, max_fd, fd_lock, live, cur, seen>>

\* ... before it publishes it to threads that do not take the mutex.
GrowPublish(t) ==
    /\ Goto(t, "publish", "growing")
    /\ max_fd' = max_fd + FD_PER_HEAP
    /\ UNCHANGED <<kernelVars, mapped, slot_fd, fd_type, expiring, fd_lock, live,
                   cur, seen>>

GrowDone(t) ==
    /\ Goto(t, "growing", "lock")
    /\ cur[t] < max_fd
    /\ fd_lock' = None
    /\ UNCHANGED <<kernelVars, mapVars, fd_type, expiring, live, cur, seen>>

\* mfd_expiring_lock, by mog_fd_init and mog_fd_put
SpinLock(t, from, to) ==
    /\ Goto(t, from, to)
    /\ expiring[cur[t]] = None
    /\ expiring' = [expiring EXCEPT ![cur[t]] = t]
    /\ UNCHANGED <<kernelVars, mapVars, fd_type, fd_lock, live, cur, seen>>

InitLock(t) == SpinLock(t, "lock", "set")

\* The type is set and the lock released: the slot is in use.
InitType(t) ==
    /\ Goto(t, "set", "idle")
    /\ fd_type' = [fd_type EXCEPT ![cur[t]] = KindOf[open[cur[t]]]]
    /\ expiring' = [expiring EXCEPT ![cur[t]] = None]
    /\ live' = live \cup {cur[t]}
    /\ UNCHANGED <<kernelVars, mapVars, fd_lock, cur, seen>>

-----------------------------------------------------------------------------
(* mog_fd_put                                                              *)

\* A thread is done with the client or file it has.
Put(t, f) ==
    /\ Goto(t, "idle", "put")
    /\ f \in live
    /\ live' = live \ {f}
    /\ cur' = [cur EXCEPT ![t] = f]
    /\ UNCHANGED <<kernelVars, mapVars, fd_type, expiring, fd_lock, seen>>

\* MUTANT: the spin lock is not taken.
PutLockNot(t) ==
    /\ Goto(t, "put", "unset")
    /\ UNCHANGED <<kernelVars, mapVars, fd_type, expiring, fd_lock, live, cur, seen>>

PutLock(t) == SpinLock(t, "put", "unset")

\* The slot is marked unused before the descriptor is closed.
PutType(t) ==
    /\ Goto(t, "unset", "close")
    /\ fd_type' = [fd_type EXCEPT ![cur[t]] = "UNUSED"]
    /\ expiring' = [expiring EXCEPT ![cur[t]] = None]
    /\ UNCHANGED <<kernelVars, mapVars, fd_lock, live, cur, seen>>

\* mog_close: from here on the kernel may return the descriptor again.
Close(t) ==
    /\ Goto(t, "close", "idle")
    /\ open' = [open EXCEPT ![cur[t]] = None]
    /\ shut' = shut \ {open[cur[t]]}
    /\ UNCHANGED <<mapVars, fd_type, expiring, fd_lock, live, cur, seen>>

-----------------------------------------------------------------------------
(* mog_fdmap_expire: out of descriptors or memory.  Workers and the main   *)
(* thread call it with cancellation disabled, acceptors do not: shutdown   *)
(* (mog_thrpool_quit) may cancel one in syslog, which is a cancellation    *)
(* point, and no clean-up handler releases what it holds.                  *)

\* pthread_mutex_trylock succeeds: the scan begins.
ExpireTry(t) ==
    /\ Goto(t, "idle", "scan")
    /\ fd_lock = None
    /\ fd_lock' = t
    /\ cur' = [cur EXCEPT ![t] = FirstFd]
    /\ UNCHANGED <<kernelVars, mapVars, fd_type, expiring, live, seen>>

\* It fails: another thread scans, or grows the map.
ExpireBusy(t) ==
    /\ Goto(t, "idle", "sleep")
    /\ fd_lock # None
    /\ UNCHANGED <<kernelVars, mapVars, fd_type, expiring, fd_lock, live, cur, seen>>

\* A thread that does not get it sleeps until whoever has it is done.
ExpireSleep(t) ==
    /\ Goto(t, "sleep", "idle")
    /\ fd_lock = None
    /\ UNCHANGED <<kernelVars, mapVars, fd_type, expiring, fd_lock, live, cur, seen>>

\* mfd_expiring_trylock succeeds ...
Scan(t) ==
    /\ Goto(t, "scan", "look")
    /\ cur[t] < max_fd /\ cur[t] \in FDs
    /\ expiring[cur[t]] = None
    /\ expiring' = [expiring EXCEPT ![cur[t]] = t]
    /\ UNCHANGED <<kernelVars, mapVars, fd_type, fd_lock, live, cur, seen>>

\* ... or fails: a slot that is locked is passed over.
ScanLocked(t) ==
    /\ Goto(t, "scan", "scan")
    /\ cur[t] < max_fd /\ cur[t] \in FDs
    /\ expiring[cur[t]] # None
    /\ cur' = [cur EXCEPT ![t] = @ + 1]
    /\ UNCHANGED <<kernelVars, mapVars, fd_type, expiring, fd_lock, live, seen>>

\* The slot is unlocked, the scan moves on.
Passed(t) ==
    /\ expiring' = [expiring EXCEPT ![cur[t]] = None]
    /\ cur' = [cur EXCEPT ![t] = @ + 1]

\* expire_http: an HTTP connection that getsockopt says is established and
\* idle will be shut down ...
Look(t) ==
    /\ Goto(t, "look", "shutdown")
    /\ fd_type[cur[t]] = "HTTP"
    /\ open[cur[t]] \notin shut
    /\ seen' = [seen EXCEPT ![t] = open[cur[t]]]
    /\ UNCHANGED <<kernelVars, mapVars, fd_type, expiring, fd_lock, live, cur>>

\* ... getsockopt may fail, which is logged ...
LookFails(t) ==
    /\ Goto(t, "look", "warn")
    /\ fd_type[cur[t]] = "HTTP"
    /\ UNCHANGED <<kernelVars, mapVars, fd_type, expiring, fd_lock, live, cur, seen>>

\* ... and anything else is left alone.
LookOther(t) ==
    /\ Goto(t, "look", "scan")
    /\ Passed(t)
    /\ UNCHANGED <<kernelVars, mapVars, fd_type, fd_lock, live, seen>>

\* MUTANT: the slot is not unlocked.
ShutdownLocked(t) ==
    /\ Goto(t, "shutdown", "scan")
    /\ shut' = shut \cup {open[cur[t]]}
    /\ cur' = [cur EXCEPT ![t] = @ + 1]
    /\ seen' = [seen EXCEPT ![t] = None]
    /\ UNCHANGED <<open, mapVars, fd_type, expiring, fd_lock, live>>

Shutdown(t) ==
    /\ Goto(t, "shutdown", "scan")
    /\ shut' = shut \cup {open[cur[t]]}
    /\ Passed(t)
    /\ seen' = [seen EXCEPT ![t] = None]
    /\ UNCHANGED <<open, mapVars, fd_type, fd_lock, live>>

\* shutdown() may fail, which is logged.
ShutdownFails(t) ==
    /\ Goto(t, "shutdown", "warn")
    /\ seen' = [seen EXCEPT ![t] = None]
    /\ UNCHANGED <<kernelVars, mapVars, fd_type, expiring, fd_lock, live, cur>>

\* syslog of expire_http returns.
Warned(t) ==
    /\ Goto(t, "warn", "scan")
    /\ Passed(t)
    /\ UNCHANGED <<kernelVars, mapVars, fd_type, fd_lock, live, seen>>

\* The end of the scan, which is logged.
ScanEnd(t) ==
    /\ Goto(t, "scan", "log")
    /\ cur[t] >= max_fd \/ cur[t] = NFds
    /\ UNCHANGED <<kernelVars, mapVars, fd_type, expiring, fd_lock, live, cur, seen>>

\* The mutex is released after that, or at once if the last scan was just now.
ExpireDone(t) ==
    /\ \/ Goto(t, "log", "idle")
       \/ Goto(t, "scan", "idle") /\ cur[t] = FirstFd
    /\ fd_lock' = None
    /\ cur' = [cur EXCEPT ![t] = FirstFd]
    /\ UNCHANGED <<kernelVars, mapVars, fd_type, expiring, live, seen>>

\* An acceptor is cancelled in syslog: the mutex stays locked, and in
\* expire_http the slot too.
Cancel(t) ==
    /\ t \in Acceptors
    /\ Goto(t, "warn", "warn_cancelled") \/ Goto(t, "log", "log_cancelled")
    /\ UNCHANGED <<kernelVars, mapVars, fd_type, expiring, fd_lock, live, cur, seen>>

-----------------------------------------------------------------------------

Step(t) ==
    \/ FdGet(t) \/ GrowLock(t) \/ GrowHeap(t) \/ GrowPublish(t) \/ GrowDone(t)
    \/ InitLock(t) \/ InitType(t)
    \/ PutLock(t) \/ PutType(t) \/ Close(t)
    \/ ExpireSleep(t) \/ Scan(t) \/ ScanLocked(t) \/ ScanEnd(t) \/ ExpireDone(t)
    \/ Look(t) \/ LookFails(t) \/ LookOther(t)
    \/ Shutdown(t) \/ ShutdownFails(t) \/ Warned(t)

Next == \E t \in Threads :
    \/ Step(t) \/ ExpireTry(t) \/ ExpireBusy(t) \/ Cancel(t)
    \/ \E f \in FDs, o \in Objs : Open(t, f, o)
    \/ \E f \in FDs : Put(t, f)

Spec == Init /\ [][Next]_vars

-----------------------------------------------------------------------------
(* Safety                                                                  *)

PcValues == {"idle", "get", "grow", "growing", "publish", "lock", "set", "put",
             "unset", "close", "sleep", "scan", "look", "shutdown", "warn", "log",
             "warn_cancelled", "log_cancelled"}

TypeOK ==
    /\ open \in [FDs -> Objs \cup {None}]
    /\ shut \subseteq Objs
    /\ max_fd \in Nat
    /\ mapped \subseteq Nat
    /\ slot_fd \in [FDs -> FDs \cup {None}]
    /\ fd_type \in [FDs -> {"UNUSED", "HTTP", "MGMT", "FILE"}]
    /\ expiring \in [FDs -> Threads \cup {None}]
    /\ fd_lock \in Threads \cup {None}
    /\ live \subseteq FDs
    /\ pc \in [Threads -> PcValues]
    /\ cur \in [Threads -> FirstFd .. NFds]
    /\ seen \in [Threads -> Objs \cup {None}]

\* A thread that touches a slot's memory: mog_fd_get has returned it, or the
\* scan has reached it.
Touches(t, f) ==
    /\ cur[t] = f
    /\ pc[t] \in {"lock", "set", "put", "unset", "look", "shutdown", "warn"}

\* Lookups without a lock are safe: the memory of every slot that a thread
\* may touch is initialised and in fd_map, and is the descriptor's own (the
\* "mfd->fd incorrect" assertion of mog_fd_init).
SlotReady ==
    \A f \in FDs :
        f < max_fd \/ f \in live \/ (\E t \in Threads : Touches(t, f)) =>
            f \in mapped /\ slot_fd[f] = f

\* Growing the map never disturbs slots in use: a client or file that is in
\* use keeps the type that it was given and its descriptor stays open, until
\* its owner puts it.
LiveKept == \A f \in live : open[f] # None /\ fd_type[f] = KindOf[open[f]]

\* Expiry acts on what it has examined: the connection that a thread is about
\* to shut down is the idle HTTP connection that getsockopt reported on,
\* though its owner may be closing it and the kernel may be giving its
\* descriptor to a new client or file meanwhile.  Nothing but an HTTP
\* connection that is still open is ever shut down.
ShutdownRight ==
    /\ \A t \in Threads : pc[t] = "shutdown" =>
           seen[t] # None /\ open[cur[t]] = seen[t]
    /\ \A o \in shut : KindOf[o] = "HTTP" /\ \E f \in FDs : open[f] = o

\* getsockopt is never called on a descriptor that is closed or is not an
\* HTTP connection's ("BUG? expire_http,getsockopt").
SockoptRight ==
    \A t \in Threads : pc[t] = "look" /\ fd_type[cur[t]] = "HTTP" =>
        open[cur[t]] # None /\ KindOf[open[cur[t]]] = "HTTP"

-----------------------------------------------------------------------------
(* What makes the invariants above inductive.                              *)

\* A thread that has a descriptor to itself, from accept() or open() to
\* mog_fd_init and from mog_fd_put to close().
Owns(t) == pc[t] \in {"get", "grow", "growing", "publish", "lock", "set", "put",
                      "unset", "close"}

\* Every open descriptor is in use or has one owner.
Owned ==
    /\ \A t \in Threads : Owns(t) =>
           cur[t] \in FDs /\ open[cur[t]] # None /\ cur[t] \notin live
    /\ \A t, u \in Threads : Owns(t) /\ Owns(u) /\ cur[t] = cur[u] => t = u
    /\ \A f \in live : open[f] # None
    /\ \A f, g \in FDs : open[f] # None /\ open[f] = open[g] => f = g

\* A slot has a type exactly while it is in use, up to the point where the
\* thread that puts it marks it unused.
Typed ==
    /\ \A f \in FDs : fd_type[f] # "UNUSED" =>
           /\ open[f] # None /\ fd_type[f] = KindOf[open[f]]
           /\ f \in live \/ \E t \in Threads : cur[t] = f /\ pc[t] \in {"put", "unset"}
    /\ \A f \in live : fd_type[f] = KindOf[open[f]]

\* Who holds the locks.
Locks ==
    /\ \A t \in Threads : fd_lock = t <=>
           pc[t] \in {"growing", "publish", "scan", "look", "shutdown", "warn", "log",
                     "warn_cancelled", "log_cancelled"}
    /\ \A t \in Threads, f \in FDs : expiring[f] = t <=>
           /\ cur[t] = f
           /\ pc[t] \in {"set", "unset", "look", "shutdown", "warn", "warn_cancelled"}

\* The map covers the slots that are in use or being looked at; a heap that
\* is being published is initialised.
Mapped ==
    /\ \A f \in FDs : f < max_fd => f \in mapped /\ slot_fd[f] = f
    /\ \A f \in live : f < max_fd
    /\ \A t \in Threads :
           /\ pc[t] \in {"lock", "set", "put", "unset", "close"} => cur[t] < max_fd
           /\ pc[t] \in {"look", "shutdown", "warn", "warn_cancelled"} =>
                  cur[t] < max_fd /\ cur[t] \in FDs
           /\ pc[t] = "publish" =>
                  \A f \in FDs : f < max_fd + FD_PER_HEAP => f \in mapped /\ slot_fd[f] = f

\* What expiry has seen is still so.
Examined ==
    /\ \A t \in Threads : pc[t] = "shutdown" =>
           open[cur[t]] = seen[t] /\ fd_type[cur[t]] = "HTTP"
    /\ \A o \in shut : KindOf[o] = "HTTP" /\ \E f \in FDs : open[f] = o

IInv == TypeOK /\ Owned /\ Typed /\ Locks /\ Mapped /\ Examined

-----------------------------------------------------------------------------
(* Liveness: threads run, locks are not withheld from a thread for ever.   *)

FairSpec == Spec /\ \A t \in Threads : SF_vars(Step(t))

Cancelled(t) == pc[t] \in {"warn_cancelled", "log_cancelled"}

\* What a cancelled acceptor leaves behind: the mutex that a thread waits for,
\* or the spin lock of the connection that a thread is to put.
LeftBehind(t) ==
    \E a \in Acceptors :
        /\ Cancelled(a)
        /\ \/ a = t
           \/ pc[t] \in {"grow", "sleep"} /\ fd_lock = a
           \/ pc[t] = "put" /\ expiring[cur[t]] = a

\* Whatever a thread asks of the map is done: no deadlock among the mutex and
\* the spin locks, and no lock is left behind, except by an acceptor that is
\* cancelled in a syslog call of mog_fdmap_expire.  Then threads that need the
\* mutex or that one slot wait for ever, and no others do.
Completes == \A t \in Threads : pc[t] # "idle" ~> pc[t] = "idle" \/ LeftBehind(t)
=============================================================================
