------------------------- MODULE ClientQueueProofs -------------------------
(***************************************************************************)
(* IInv is an invariant of ClientQueue for any number of descriptors,      *)
(* connections, workers and acceptors, whether or not epoll_ctl can fail.  *)
(* Places is kept by the lemmas of ClientQueuePlaces.  QuitCount, which    *)
(* counts, is kept apart, and rests on Places only for the fact that the   *)
(* client the quit loop closes was open.  QuitCountExact, for an epoll_ctl *)
(* that never fails, follows from the same steps and from the count being  *)
(* zero until mog_fdmap_requeue.                                           *)
(***************************************************************************)
EXTENDS ClientQueuePlaces, FiniteSetTheorems

\* The client set is finite, so counting it makes sense.
LEMMA ClientsFinite ==
    /\ IsFiniteSet(Clients) /\ Cardinality(Clients) \in Nat
    /\ IsFiniteSet(Clients') /\ Cardinality(Clients') \in Nat
<1>1. Clients \subseteq FDs /\ Clients' \subseteq FDs
  BY DEF Clients
<1>. QED
  BY <1>1, FiniteAssumption, FS_Subset, FS_CardinalityType

\* While a client is open in the quit loop the count is not zero.
LEMMA CountPositive ==
    ASSUME IInv, Quitting, NEW f \in Clients
    PROVE  nr_active \in Nat /\ nr_active >= 1
<1>1. Cardinality(Clients) # 0
  BY ClientsFinite, FS_EmptySet
<1>2. nr_active \in Nat /\ nr_active >= Cardinality(Clients)
  BY DEF IInv, TypeOK, QuitCount
<1>. QED
  BY <1>1, <1>2, ClientsFinite

\* Outside the step that closes a client the count may only be left alone
\* while the set of clients shrinks or stays.
LEMMA CountKept ==
    ASSUME IInv, Clients' \subseteq Clients, nr_active' = nr_active,
           Quitting' => Quitting
    PROVE  QuitCount'
<1>1. Cardinality(Clients') <= Cardinality(Clients)
  BY ClientsFinite, FS_Subset
<1>. QED
  BY <1>1, ClientsFinite DEF IInv, TypeOK, QuitCount

USE ConstAssumption
    DEF Threads, ClientTypes, WorkerPc, AcceptorPc, MainPc, slotVars, parkVars,
        thrVars, mainVars, Places, TypeOK, EpollUsage, AloneAtQuit, Quitting,
        Clients

\* Only mog_fdmap_requeue starts the count, and only closing a client, which
\* leaves one client less, decrements it.
LEMMA CountInvariant == ASSUME IInv, Next PROVE QuitCount'
<1>. USE DEF IInv
<1>1. ASSUME Requeue PROVE QuitCount'
  <2>1. Clients' \subseteq Clients /\ nr_active' = nr_active + Cardinality(Clients)
    BY <1>1, SMTT(60) DEF Requeue
  <2>2. Cardinality(Clients') <= Cardinality(Clients)
    BY <2>1, ClientsFinite, FS_Subset
  <2>. QED
    BY <2>1, <2>2, ClientsFinite DEF QuitCount
<1>2. ASSUME QuitClose \/ QuitIgnore PROVE QuitCount'
  <2>1. Quitting /\ mfd[Main] \in Clients
    BY <1>2, SMTT(60) DEF QuitClose, QuitIgnore, QuitStepped, MainAt
  <2>2. Clients' = Clients \ {mfd[Main]} /\ nr_active' = nr_active - 1
    BY <1>2, <2>1 DEF QuitClose, QuitIgnore, FdPut
  <2>3. Cardinality(Clients') = Cardinality(Clients) - 1
    <3>. HIDE DEF Clients
    <3>. QED  BY <2>1, <2>2, ClientsFinite, FS_RemoveElement
  <2>. QED
    BY <2>1, <2>2, <2>3, ClientsFinite DEF QuitCount
<1>3. ASSUME \/ Environment \/ Exit \/ Exited
             \/ \E f \in FDs : QuitWait(f)
             \/ \E ev \in {"RD", "WR", "RW"} : QuitPush(ev)
      PROVE  QuitCount'
  <2>1. Clients' \subseteq Clients /\ nr_active' = nr_active /\ (Quitting' => Quitting)
    BY <1>3, SMTT(60) DEF Environment, Arrive, Drain, Vanish, Exit, Exited, MainAt, vars,
       QuitWait, TakeEvent, QuitPush, QuitStepped, IdleqPush, EagainPush,
       CtlError, FdPut
  <2>. QED
    BY <2>1, CountKept
<1>4. ASSUME NEW a \in Acceptors, Acceptor(a) PROVE QuitCount'
  <2>1. pc[a] # "exited" /\ pc'[Main] = pc[Main]
    BY <1>4, SMTT(60) DEF Acceptor, Accept, FdInit, AddIdle, AcceptorExit
  <2>. QED
    BY <2>1 DEF QuitCount
<1>5. ASSUME NEW t \in Workers, Worker(t) PROVE QuitCount'
  <2>1. pc[t] # "exited" /\ pc'[Main] = pc[Main]
    BY <1>5, SMTT(60) DEF Worker, WorkerRun, WorkerExit, Deliver, IdleqWait, XchgTake,
       StepActive, StepClose, StepFsckWait, StepWatch, StepWait, FsckNext,
       FsckPush, XchgKeep, Swap, Push
  <2>. QED
    BY <2>1 DEF QuitCount
<1>6. ASSUME MainServe PROVE QuitCount'
  <2>1. pc'[Main] \in {"loop", "bcast", "resize", "quit_accept"}
    <3>1. ASSUME NEW f \in FDs, BcastOne(f) PROVE pc'[Main] = "bcast"
      BY <3>1 DEF BcastOne
    <3>2. ASSUME NEW t \in Workers, Grow(t) PROVE pc'[Main] = "loop"
      BY <3>2 DEF Grow
    <3>. QED
      BY <1>6, <3>1, <3>2 DEF MainServe, BcastBegin, BcastEnd, Shrink,
         QuitAccept, MainAt
  <2>. QED
    BY <2>1 DEF QuitCount
<1>7. ASSUME Shrunk \/ AcceptQuit \/ DevShutdown1 \/ QueueStop \/ DevShutdown2
      PROVE  QuitCount'
  <2>1. ~Quitting'
    BY <1>7, SMTT(60) DEF Shrunk, AcceptQuit, DevShutdown1, QueueStop, DevShutdown2, MainAt
  <2>. QED
    BY <2>1 DEF QuitCount
<1>. QED
  BY <1>1, <1>2, <1>3, <1>4, <1>5, <1>6, <1>7 DEF Next, MainQuit

\* QuitCountExact is inductive once it is known that nothing was counted
\* before the quit loop.
CountExact == QuitCountExact /\ (~Quitting => nr_active = 0)

\* When epoll_ctl never fails, the count and the number of open clients change
\* together.
LEMMA ExactInvariant == ASSUME IInv, CountExact, Next PROVE CountExact'
<1>. USE DEF IInv
<1>. USE DEF CountExact, QuitCountExact
<1>1. ASSUME Requeue PROVE CountExact'
  <2>1. /\ ~Quitting /\ Quitting'
        /\ ~EpollMayFail => Clients' = Clients
        /\ nr_active' = nr_active + Cardinality(Clients)
    BY <1>1, SMTT(60) DEF Requeue, MainAt
  <2>. HIDE DEF Quitting, Clients
  <2>. QED
    BY <2>1, ClientsFinite
<1>2. ASSUME QuitClose \/ QuitIgnore PROVE CountExact'
  <2>1. Quitting /\ Quitting' /\ mfd[Main] \in Clients
    BY <1>2, SMTT(60) DEF QuitClose, QuitIgnore, QuitStepped, MainAt
  <2>2. Clients' = Clients \ {mfd[Main]} /\ nr_active' = nr_active - 1
    BY <1>2, <2>1 DEF QuitClose, QuitIgnore, FdPut
  <2>3. Cardinality(Clients') = Cardinality(Clients) - 1
    <3>. HIDE DEF Clients
    <3>. QED  BY <2>1, <2>2, ClientsFinite, FS_RemoveElement
  <2>. HIDE DEF Quitting, Clients
  <2>. QED
    BY <2>1, <2>2, <2>3, ClientsFinite
<1>3. ASSUME \/ Environment \/ Exit \/ Exited
             \/ \E f \in FDs : QuitWait(f)
             \/ \E ev \in {"RD", "WR", "RW"} : QuitPush(ev)
      PROVE  CountExact'
  <2>1. (Quitting' <=> Quitting) /\ nr_active' = nr_active
    BY <1>3, SMTT(60) DEF Environment, Arrive, Drain, Vanish, Exit, Exited, MainAt,
       vars, QuitWait, QuitPush, QuitStepped
  <2>2. ~EpollMayFail => Clients' = Clients
    BY <1>3, SMTT(60) DEF Environment, Arrive, Drain, Vanish, Exit, Exited, vars,
       QuitWait, TakeEvent, QuitPush, IdleqPush, EagainPush, CtlError
  <2>. HIDE DEF Quitting, Clients
  <2>. QED
    BY <2>1, <2>2
<1>4. ASSUME \/ \E a \in Acceptors : Acceptor(a)
             \/ \E t \in Workers : Worker(t)
             \/ MainServe \/ Shrunk
             \/ AcceptQuit \/ DevShutdown1 \/ QueueStop \/ DevShutdown2
      PROVE  CountExact'
  <2>1. ASSUME NEW a \in Acceptors, Acceptor(a)
        PROVE  ~Quitting' /\ ~Quitting /\ nr_active' = nr_active
    <3>1. pc[a] # "exited" /\ pc'[Main] = pc[Main] /\ nr_active' = nr_active
      BY <2>1, SMTT(60) DEF Acceptor, Accept, FdInit, AddIdle, AcceptorExit
    <3>. QED  BY <3>1
  <2>2. ASSUME NEW t \in Workers, Worker(t)
        PROVE  ~Quitting' /\ ~Quitting /\ nr_active' = nr_active
    <3>1. pc[t] # "exited" /\ pc'[Main] = pc[Main] /\ nr_active' = nr_active
      BY <2>2, SMTT(60) DEF Worker, WorkerRun, WorkerExit, Deliver, IdleqWait,
         XchgTake, StepActive, StepClose, StepFsckWait, StepWatch, StepWait,
         FsckNext, FsckPush, XchgKeep, Swap, Push
    <3>. QED  BY <3>1
  <2>3. ASSUME MainServe PROVE ~Quitting' /\ ~Quitting /\ nr_active' = nr_active
    <3>1. ASSUME NEW f \in FDs, BcastOne(f)
          PROVE  ~Quitting' /\ ~Quitting /\ nr_active' = nr_active
      BY <3>1 DEF BcastOne
    <3>2. ASSUME NEW t \in Workers, Grow(t)
          PROVE  ~Quitting' /\ ~Quitting /\ nr_active' = nr_active
      BY <3>2 DEF Grow
    <3>. QED
      BY <2>3, <3>1, <3>2 DEF MainServe, BcastBegin, BcastEnd, Shrink,
         QuitAccept, MainAt
  <2>4. ASSUME Shrunk \/ AcceptQuit \/ DevShutdown1 \/ QueueStop \/ DevShutdown2
        PROVE  ~Quitting' /\ ~Quitting /\ nr_active' = nr_active
    BY <2>4, SMTT(60) DEF Shrunk, AcceptQuit, DevShutdown1, QueueStop,
       DevShutdown2, MainAt
  <2>. HIDE DEF Quitting, Clients
  <2>. QED
    BY <1>4, <2>1, <2>2, <2>3, <2>4
<1>. QED
  BY <1>1, <1>2, <1>3, <1>4 DEF Next, MainQuit

\* Every step of the system keeps IInv.
LEMMA StepInvariant == ASSUME IInv, [Next]_vars PROVE IInv'
<1>1. CASE Next
  <2>1. QuitCount'
    BY <1>1, CountInvariant
  <2>2. Places
    BY DEF IInv
  <2>3. /\ Cardinality(Clients) \in Nat
        /\ Quitting /\ Clients # {} => nr_active >= 1
    BY ClientsFinite, CountPositive
  <2>4. ASSUME Exited PROVE Places'
    BY <2>2, <2>4 DEF Exited, vars, Exclusive, Accounted, HandsOk, SlotsOk,
       PhaseOk, Held, Holds, Armed, Parked, Serving
  <2>5. Places'
    <3>. HIDE DEF Places, Clients, Quitting
    <3>. QED
      BY <1>1, <2>2, <2>3, <2>4, EnvironmentPlaces, AcceptorPlaces,
         WorkerPlaces, MainServePlaces, MainQuitPlaces DEF Next
  <2>. QED
    BY <2>1, <2>5 DEF IInv
<1>2. CASE UNCHANGED vars
  BY <1>2 DEF IInv, QuitCount, vars, Exclusive, Accounted, HandsOk, SlotsOk,
     PhaseOk, Held, Holds, Armed, Parked, Serving
<1>. QED
  BY <1>1, <1>2

\* Every reachable state of the server satisfies IInv.
THEOREM Invariance == Spec => []IInv
<1>1. Init => IInv
  <2>1. Init => Places
    BY DEF Init, Exclusive, Accounted, HandsOk, SlotsOk, PhaseOk, Held, Holds,
       Armed, Parked, Serving
  <2>2. Init => QuitCount
    BY DEF Init, QuitCount
  <2>. QED
    BY <2>1, <2>2 DEF IInv
<1>2. IInv /\ [Next]_vars => IInv'
  <2>. HIDE DEF IInv
  <2>. QED  BY StepInvariant
<1>. QED
  BY <1>1, <1>2, PTL DEF Spec

HIDE DEF Places, TypeOK, EpollUsage, AloneAtQuit, Quitting, Clients

\* The variables keep their types; in particular mog_nr_active_at_quit never
\* wraps below zero.
THEOREM TypeCorrect == Spec => []TypeOK
BY Invariance, PTL DEF IInv

\* No client is ever in two places: two threads never step the same client,
\* and none is armed or parked while a thread has it.
THEOREM ExclusiveAlways == Spec => []Exclusive
BY Invariance, PTL DEF IInv

\* No open client is ever lost between the threads, the epoll sets, the
\* subscriber list and the fsck queues.
THEOREM AccountedAlways == Spec => []Accounted
BY Invariance, PTL DEF IInv

\* epoll_ctl is only ever called in the state its operation requires.
THEOREM EpollUsageAlways == Spec => []EpollUsage
BY Invariance, PTL DEF IInv

\* The quit loop does not end while a client is open.
THEOREM QuitCountAlways == Spec => []QuitCount
BY Invariance, PTL DEF IInv

\* Where epoll_ctl does not fail, mog_nr_active_at_quit is exactly the number
\* of clients still open, so that the quit loop also ends no later than its
\* last client.
THEOREM QuitCountExactAlways == Spec => []QuitCountExact
<1>1. Init => CountExact
  BY DEF Init, CountExact, QuitCountExact, Quitting
<1>2. IInv /\ CountExact /\ [Next]_vars => CountExact'
  <2>1. ASSUME UNCHANGED vars, CountExact PROVE CountExact'
    BY <2>1 DEF vars, thrVars, slotVars, mainVars, CountExact, QuitCountExact,
       Quitting, Clients
  <2>. QED  BY <2>1, ExactInvariant
<1>3. CountExact => QuitCountExact
  BY DEF CountExact
<1>. QED
  BY <1>1, <1>2, <1>3, Invariance, PTL DEF Spec

\* mog_fdmap_requeue and the quit loop run with every other thread joined.
THEOREM AloneAtQuitAlways == Spec => []AloneAtQuit
BY Invariance, PTL DEF IInv
=============================================================================
