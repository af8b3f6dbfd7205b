----------------------------- MODULE FsckQueue -----------------------------
(***************************************************************************)
(* Digest (MD5, SHA-1) requests of mgmt clients and the per-device fsck    *)
(* queues that hold back the low-priority ones: fsck_queue.c with its      *)
(* callers mgmt_digest_step and mgmt_digest_in_progress of mgmt.c, the     *)
(* parser action that sets the priority (mgmt_parser.rl), the request that *)
(* opens the file (mgmt_fn.c), and what graceful shutdown does to          *)
(* priorities (fdmap.c, mgmt.c).                                           *)
(*                                                                         *)
(* That a client is stepped by one thread at a time, and that an active    *)
(* client is stepped again, is what module ClientQueue establishes.        *)
(***************************************************************************)
EXTENDS Integers, Sequences, FiniteSets

CONSTANTS
    Clients,        \* mgmt connections
    Devices,        \* st_dev of the files they name
    MaxActive,      \* fq->max_active
    NThreads,       \* worker threads
    SizeMax,        \* the largest size_t
    FstatMayFail,   \* whether fstat of an open file may fail
    EpollMayFail,   \* whether epoll_ctl may fail (ENOMEM, ENOSPC)
    None

ASSUME FsckAssumption ==
    /\ MaxActive \in Nat \ {0}
    /\ NThreads \in Nat \ {0}
    /\ SizeMax \in Nat /\ MaxActive <= SizeMax
    /\ FstatMayFail \in BOOLEAN /\ EpollMayFail \in BOOLEAN
    /\ None \notin Devices

ASSUME FiniteClients == IsFiniteSet(Clients)

VARIABLES
    at,         \* where each client is, see below
    prio,       \* mgmt->prio
    dev,        \* st_dev of mgmt->forward, None if no file is open
    active,     \* fq->active of each device's queue
    qhead,      \* fq->qhead of each device's queue
    next_mgmt,  \* what the client's thread has taken off a queue
    released,   \* clients taken off a queue that have not been stepped since
    fstatFailed,\* whether fstat has ever failed
    stalled,    \* devices that lost a client taken off their queue, see below
    phase       \* "serve", "drain" (mgmt_fd closed), "quit" (one thread)

(* A client is "idle" between requests; "ready" when it has a file open and *)
(* is in the active queue; "slot" or "noslot" while a thread computes its   *)
(* digest at low priority, with an fsck slot or, if fstat failed, without;  *)
(* "next" while that thread is between the two halves of                    *)
(* mog_fsck_queue_next; "parked" in an fsck queue; "handoff" between the    *)
(* queue and the active queue; "closed" at shutdown.                        *)

\* If epoll_ctl fails for the client that has been taken off a queue, nobody
\* asks for the slot in its place.  The device is in stalled until all of its
\* slots are taken again: from then on digests that end wake the queue.

vars == <<at, prio, dev, active, qhead, next_mgmt, released,
          fstatFailed, stalled, phase>>

Init ==
    /\ at = [c \in Clients |-> "idle"]
    /\ prio = [c \in Clients |-> "NONE"]
    /\ dev = [c \in Clients |-> None]
    /\ active = [d \in Devices |-> 0]
    /\ qhead = [d \in Devices |-> <<>>]
    /\ next_mgmt = [c \in Clients |-> c]
    /\ released = {}
    /\ fstatFailed = FALSE /\ stalled = {}
    /\ phase = "serve"

\* Low-priority digests pin their thread; in the quit loop there is one.
ThreadFree ==
    Cardinality({c \in Clients : at[c] \in {"slot", "noslot", "next"}})
        < (IF phase = "quit" THEN 1 ELSE NThreads)

-----------------------------------------------------------------------------

\* MUTANT: does not look at svc->mgmt_fd.
SetPrioFsckAlways(c) == [prio EXCEPT ![c] = "FSCK"]

\* set_prio_fsck: only while the mgmt listener is open
SetPrioFsck(c) == [prio EXCEPT ![c] = IF phase = "serve" THEN "FSCK" ELSE @]

\* mgmt_queue_step parses a digest request for a file on device d, made for
\* fsck or not; mog_mgmt_fn_digest may fail to open the file, in which case
\* it answers "-1" at once.
Request(c, fsck, d, opens) ==
    /\ at[c] = "idle"
    /\ ThreadFree
    /\ prio' = IF fsck THEN SetPrioFsck(c) ELSE prio
    /\ IF opens THEN /\ dev' = [dev EXCEPT ![c] = d]
                     /\ at' = [at EXCEPT ![c] = "ready"]
                ELSE UNCHANGED <<dev, at>>
    /\ UNCHANGED <<active, qhead, next_mgmt, released, fstatFailed, stalled, phase>>

\* The connection is closed.  While serving, a new one takes its place:
\* mog_mgmt_init clears prio.
Close(c) ==
    /\ at[c] = "idle"
    /\ prio' = [prio EXCEPT ![c] = "NONE"]
    /\ at' = [at EXCEPT ![c] = IF phase = "quit" THEN "closed" ELSE "idle"]
    /\ UNCHANGED <<dev, active, qhead, next_mgmt, released, fstatFailed,
                   stalled, phase>>

\* Clients C have no digest to compute any more: it is done, or mog_fd_put has
\* dropped the connection and a new one, with a cleared mgmt, takes its place.
NoDigest(C) ==
    /\ prio' = [c \in Clients |-> IF c \in C THEN "NONE" ELSE prio[c]]
    /\ dev' = [c \in Clients |-> IF c \in C THEN None ELSE dev[c]]

\* epoll_ctl fails when a thread pushes a client back that has a file open: in
\* epoll_ctl_error mog_fd_put drops it.  (For an idle one that is Close.)
Drop(c) ==
    /\ EpollMayFail
    /\ at[c] = "ready" /\ c \notin released
    /\ ThreadFree
    /\ at' = [at EXCEPT ![c] = IF phase = "quit" THEN "closed" ELSE "idle"]
    /\ NoDigest({c})
    /\ UNCHANGED <<active, qhead, next_mgmt, released, fstatFailed, stalled, phase>>

\* The end of mgmt_digest_step: the file is closed, the priority reset.
DigestDone(c) ==
    /\ prio' = [prio EXCEPT ![c] = "NONE"]
    /\ dev' = [dev EXCEPT ![c] = None]

\* mgmt_digest_in_progress at normal priority, the last read of the file.
\* (A step that leaves more to read changes nothing here.)
DigestNormal(c) ==
    /\ at[c] = "ready"
    /\ prio[c] = "NONE"
    /\ ThreadFree
    /\ at' = [at EXCEPT ![c] = "idle"]
    /\ DigestDone(c)
    /\ UNCHANGED <<active, qhead, next_mgmt, released, fstatFailed, stalled, phase>>

\* mog_fsck_queue_ready, called by mgmt_digest_in_progress at fsck priority
FsckQueueReady(c) ==
    /\ at[c] = "ready"
    /\ prio[c] = "FSCK"
    /\ ThreadFree
    /\ released' = released \ {c}
    /\ \/ /\ FstatMayFail
          /\ fstatFailed' = TRUE
          /\ at' = [at EXCEPT ![c] = "noslot"]
          /\ UNCHANGED <<active, qhead, stalled>>
       \/ /\ active[dev[c]] < MaxActive
          /\ active' = [active EXCEPT ![dev[c]] = @ + 1]
          /\ at' = [at EXCEPT ![c] = "slot"]
          /\ stalled' = IF active[dev[c]] + 1 < MaxActive THEN stalled
                                                         ELSE stalled \ {dev[c]}
          /\ UNCHANGED <<qhead, fstatFailed>>
       \/ /\ active[dev[c]] >= MaxActive
          /\ qhead' = [qhead EXCEPT ![dev[c]] = Append(@, c)]
          /\ at' = [at EXCEPT ![c] = "parked"]
          /\ stalled' = stalled \ {dev[c]}
          /\ UNCHANGED <<active, fstatFailed>>
    /\ UNCHANGED <<prio, dev, next_mgmt, phase>>

\* MUTANT: the decrement is missing.
DecrementedNot(n) == n

\* size_t arithmetic: zero wraps around.
Decremented(n) == IF n = 0 THEN SizeMax ELSE n - 1

\* MUTANT: the slot is given back without a look at the queue.
FsckQueueNextNoPop(c) ==
    /\ at[c] \in {"slot", "noslot"}
    /\ active' = [active EXCEPT ![dev[c]] = Decremented(@)]
    /\ at' = [at EXCEPT ![c] = "idle"]
    /\ DigestDone(c)
    /\ UNCHANGED <<qhead, next_mgmt, released, fstatFailed, stalled, phase>>

\* mgmt_digest_step has read the whole file (or failed to) and calls
\* mog_fsck_queue_next, which takes the next client off the queue, if any.
FsckQueueNext(c) ==
    /\ at[c] \in {"slot", "noslot"}
    /\ LET d == dev[c]
           n == Decremented(active[d])
       IN  \/ /\ FstatMayFail
              /\ fstatFailed' = TRUE
              /\ at' = [at EXCEPT ![c] = "idle"]
              /\ DigestDone(c)
              /\ UNCHANGED <<active, qhead, next_mgmt, released>>
           \/ /\ active' = [active EXCEPT ![d] = n]
              /\ n >= MaxActive \/ qhead[d] = <<>>
              /\ at' = [at EXCEPT ![c] = "idle"]
              /\ DigestDone(c)
              /\ UNCHANGED <<qhead, next_mgmt, released, fstatFailed>>
           \/ /\ active' = [active EXCEPT ![d] = n]
              /\ n < MaxActive /\ qhead[d] # <<>>
              /\ qhead' = [qhead EXCEPT ![d] = Tail(@)]
              /\ next_mgmt' = [next_mgmt EXCEPT ![c] = Head(qhead[d])]
              /\ at' = [at EXCEPT ![c] = "next", ![Head(qhead[d])] = "handoff"]
              /\ released' = released \cup {Head(qhead[d])}
              /\ UNCHANGED <<prio, dev, fstatFailed>>
    /\ UNCHANGED <<stalled, phase>>

\* mog_activeq_push of that client, outside the lock, and the rest of
\* mgmt_digest_step; if epoll_ctl fails the client is dropped, and no other
\* taken off the queue for it.
ActiveqPush(c) ==
    /\ at[c] = "next"
    /\ next_mgmt' = [next_mgmt EXCEPT ![c] = c]
    /\ LET n == next_mgmt[c]
       IN  \/ /\ at' = [at EXCEPT ![c] = "idle", ![n] = "ready"]
              /\ DigestDone(c)
              /\ UNCHANGED <<released, stalled>>
           \/ /\ EpollMayFail
              /\ at' = [at EXCEPT ![c] = "idle", ![n] = "idle"]
              /\ NoDigest({c, n})
              /\ released' = released \ {n}
              /\ stalled' = stalled \cup {dev[n]}
    /\ UNCHANGED <<active, qhead, fstatFailed, phase>>

\* MUTANT: clients are requeued while workers still run.
QuitAcceptRequeues ==
    /\ phase = "serve"
    /\ phase' = "drain"
    /\ prio' = [c \in Clients |-> "NONE"]
    /\ at' = [c \in Clients |-> IF at[c] = "parked" THEN "ready" ELSE at[c]]
    /\ UNCHANGED <<dev, active, qhead, next_mgmt, released, fstatFailed, stalled>>

\* cmogstored_exit, svc_quit_accept_i: svc->mgmt_fd = -1
QuitAccept ==
    /\ phase = "serve"
    /\ phase' = "drain"
    /\ UNCHANGED <<at, prio, dev, active, qhead, next_mgmt, released,
                   fstatFailed, stalled>>

\* MUTANT: the workers are not joined.
RequeueNoJoin ==
    /\ phase = "drain"
    /\ phase' = "quit"
    /\ prio' = [c \in Clients |-> "NONE"]
    /\ at' = [c \in Clients |-> IF at[c] = "parked" THEN "ready" ELSE at[c]]
    /\ released' = {}
    /\ UNCHANGED <<dev, active, qhead, next_mgmt, fstatFailed, stalled>>

\* mog_queue_stop joins the workers; mog_fdmap_requeue clears every priority
\* and makes every client active.  The fsck queues are left as they are.
Requeue ==
    /\ phase = "drain"
    /\ \A c \in Clients : at[c] \notin {"slot", "noslot", "next"}
    /\ phase' = "quit"
    /\ prio' = [c \in Clients |-> "NONE"]
    /\ at' = [c \in Clients |-> IF at[c] = "parked" THEN "ready" ELSE at[c]]
    /\ released' = {}
    /\ UNCHANGED <<dev, active, qhead, next_mgmt, fstatFailed, stalled>>

Exited == (\A c \in Clients : at[c] = "closed") /\ UNCHANGED vars

Step(c) ==
    DigestNormal(c) \/ FsckQueueReady(c) \/ FsckQueueNext(c) \/ ActiveqPush(c)

Next ==
    \/ \E c \in Clients :
          \/ Step(c) \/ Close(c) \/ Drop(c)
          \/ \E fsck, opens \in BOOLEAN, d \in Devices :
                Request(c, fsck, d, opens)
    \/ QuitAccept \/ Requeue \/ Exited

Spec == Init /\ [][Next]_vars

-----------------------------------------------------------------------------
(* Safety                                                                  *)

TypeOK ==
    /\ at \in [Clients -> {"idle", "ready", "slot", "noslot", "next", "parked",
                           "handoff", "closed"}]
    /\ prio \in [Clients -> {"NONE", "FSCK"}]
    /\ dev \in [Clients -> Devices \cup {None}]
    /\ active \in [Devices -> 0 .. SizeMax]
    /\ qhead \in [Devices -> Seq(Clients)]
    /\ next_mgmt \in [Clients -> Clients]
    /\ released \subseteq Clients
    /\ fstatFailed \in BOOLEAN
    /\ stalled \subseteq Devices
    /\ phase \in {"serve", "drain", "quit"}

Slots(d) == {c \in Clients : at[c] = "slot" /\ dev[c] = d}

Released(d) == {c \in released : dev[c] = d}

\* Each queue's counter is the number of low-priority digests running on its
\* device, which never exceeds max_active: "this limits fsck MD5 requests to
\* one per-device" (NEWS).  (As long as fstat works.)
SlotCount ==
    ~fstatFailed =>
        \A d \in Devices :
            active[d] = Cardinality(Slots(d)) /\ active[d] <= MaxActive

\* No lost wakeup: while clients wait for a device, as many others as it has
\* slots either have one or have been taken off the queue and are about to
\* ask again.  A slot is idle with clients waiting and nobody coming only on a
\* device that fstat has failed for or that lost the client it had woken, to a
\* failing epoll_ctl in mog_activeq_push; in the latter case only until its
\* slots are all taken again.
NoIdleSlot ==
    ~fstatFailed /\ phase # "quit" =>
        \A d \in Devices \ stalled : qhead[d] # <<>> =>
            active[d] + Cardinality(Released(d)) >= MaxActive

\* Until shutdown the fsck queues hold exactly the parked clients, each once
\* and in the queue of its device.
QueueExact ==
    phase # "quit" =>
        /\ \A c \in Clients : at[c] = "parked" =>
               \E i \in DOMAIN qhead[dev[c]] : qhead[dev[c]][i] = c
        /\ \A d \in Devices : \A i \in DOMAIN qhead[d] :
               /\ at[qhead[d][i]] = "parked" /\ dev[qhead[d][i]] = d
               /\ \A j \in DOMAIN qhead[d] : qhead[d][i] = qhead[d][j] => i = j

\* The "bad prio" assertions of fsck_queue.c: the client asking for or giving
\* back a slot, and the client taken off a queue, have fsck priority; nobody
\* clears it while the client waits.
FsckPrio == \A c \in Clients :
    at[c] \in {"slot", "noslot", "next", "handoff", "parked"} => prio[c] = "FSCK"

\* In the quit loop no client has fsck priority (the "bad prio" assertion of
\* mog_mgmt_quit_step), so that the queues, which then still list clients
\* that have been closed, are not looked at again.
QuitPrio ==
    phase = "quit" =>
        \A c \in Clients : prio[c] = "NONE" /\
            at[c] \notin {"slot", "noslot", "next", "handoff", "parked"}

-----------------------------------------------------------------------------
(* What makes the invariants above inductive.                              *)

\* A client without a file is idle or closed.  Handing over takes two: every
\* client between the queue and the active queue is in the hands of exactly
\* one thread.  A client taken off a queue keeps its priority and its file
\* until it asks for a slot again.
HandoffOk ==
    /\ \A c \in Clients : dev[c] = None <=> at[c] \in {"idle", "closed"}
    /\ \A c \in Clients : at[c] = "noslot" => fstatFailed
    /\ \A c \in Clients : at[c] = "next" => at[next_mgmt[c]] = "handoff"
    /\ \A b, c \in Clients :
           at[b] = "next" /\ at[c] = "next" /\ next_mgmt[b] = next_mgmt[c] => b = c
    /\ \A c \in Clients : at[c] = "handoff" =>
           c \in released /\ \E b \in Clients : at[b] = "next" /\ next_mgmt[b] = c
    /\ \A c \in released : at[c] \in {"handoff", "ready"} /\ prio[c] = "FSCK"

IInv ==
    /\ TypeOK /\ SlotCount /\ NoIdleSlot /\ QueueExact /\ FsckPrio /\ QuitPrio
    /\ HandoffOk

-----------------------------------------------------------------------------
(* Liveness: threads run and digests end.  No fairness on requests.        *)

FairSpec == Spec /\ \A c \in Clients : SF_vars(Step(c))

\* A client in an fsck queue is taken off it, whatever new requests arrive,
\* unless fstat fails, or epoll_ctl does for a client of the same device that
\* was woken before it: then, if no new digest comes for the device, it waits
\* for ever.
Unparked ==
    \A c \in Clients :
        at[c] = "parked" ~> at[c] # "parked" \/ fstatFailed \/ dev[c] \in stalled
=============================================================================
