------------------------- MODULE ClientQueuePlaces -------------------------
(***************************************************************************)
(* Places, the conjuncts of ClientQueue's IInv that say where every client *)
(* is, is kept by each kind of thread.  ClientQueueProofs has the rest of  *)
(* the induction, and the theorems.                                        *)
(***************************************************************************)
EXTENDS ClientQueue, TLAPS

Places ==
    /\ TypeOK /\ Exclusive /\ Accounted /\ EpollUsage
    /\ AloneAtQuit /\ HandsOk /\ SlotsOk /\ PhaseOk

\* Arming a client, or dropping it because epoll_ctl failed, keeps the types of
\* the fd map and of the kernel's tables.
LEMMA ArmTypes ==
    ASSUME TypeOK, NEW f \in FDs, NEW ev \in {"RD", "WR", "RW"},
           IdleqAdd(f, ev) \/ IdleqPush(f, ev)
    PROVE  /\ fd_type' \in [FDs -> ClientTypes \cup {"UNUSED"}]
           /\ sock' \in [FDs -> Conns \cup {None}]
           /\ reg' \in [FDs -> {"none", "work", "notify"}]
           /\ events' \in [FDs -> {"NONE", "RD", "WR", "RW"}]
           /\ io' \in [FDs -> SUBSET {"r", "w"}]
           /\ gone' \subseteq Conns
BY DEF TypeOK, IdleqAdd, IdleqPush, CtlError, FdPut

-----------------------------------------------------------------------------
(* The environment, the accept threads and the workers                     *)

USE ConstAssumption
    DEF Threads, ClientTypes, WorkerPc, AcceptorPc, MainPc, slotVars, parkVars,
        thrVars, mainVars, Places, TypeOK, Exclusive, Accounted, EpollUsage,
        AloneAtQuit, HandsOk, SlotsOk, PhaseOk, Held, Holds, Armed, Parked,
        Quitting, Serving, Clients

\* Readiness and resets move no client.
LEMMA EnvironmentPlaces == ASSUME Places, Environment PROVE Places'
<1>1. ASSUME NEW f \in FDs, Arrive(f) PROVE Places'
  BY <1>1 DEF Arrive
<1>2. ASSUME NEW f \in FDs, Drain(f) PROVE Places'
  BY <1>2 DEF Drain
<1>3. ASSUME NEW f \in FDs, Vanish(f) PROVE Places'
  BY <1>3 DEF Vanish
<1>. HIDE DEF Places, Clients, Quitting
<1>. QED
  BY <1>1, <1>2, <1>3 DEF Environment

\* A new connection is in its acceptor's hands until it is armed.
LEMMA AcceptorPlaces ==
    ASSUME Places, NEW a \in Acceptors, Acceptor(a) PROVE Places'
<1>1. ASSUME NEW f \in FDs, NEW c \in Conns, Accept(a, f, c) PROVE Places'
  <2>1. TypeOK'
    BY <1>1, SMTT(60) DEF Accept
  <2>2. Exclusive'
    BY <1>1, SMTT(60) DEF Accept
  <2>3. Accounted'
    BY <1>1, SMTT(60) DEF Accept
  <2>4. EpollUsage'
    BY <1>1, SMTT(60) DEF Accept
  <2>5. AloneAtQuit'
    BY <1>1, SMTT(60) DEF Accept
  <2>6. HandsOk'
    BY <1>1, SMTT(60) DEF Accept
  <2>7. SlotsOk'
    BY <1>1, SMTT(60) DEF Accept
  <2>8. PhaseOk'
    BY <1>1, SMTT(60) DEF Accept
  <2>. HIDE DEF TypeOK, Exclusive, Accounted, EpollUsage, AloneAtQuit, HandsOk,
                SlotsOk, PhaseOk
  <2>. QED
    BY <2>1, <2>2, <2>3, <2>4, <2>5, <2>6, <2>7, <2>8 DEF Places
<1>2. ASSUME FdInit(a) PROVE Places'
  BY <1>2, SMTT(60) DEF FdInit
<1>3. ASSUME AddIdle(a) PROVE Places'
  <2>1. TypeOK'
    BY <1>3, ArmTypes DEF AddIdle
  <2>2. Exclusive'
    BY <1>3, SMTT(60) DEF AddIdle, IdleqAdd, CtlError, FdPut
  <2>3. Accounted'
    BY <1>3, SMTT(60) DEF AddIdle, IdleqAdd, CtlError, FdPut
  <2>4. EpollUsage'
    BY <1>3, SMTT(60) DEF AddIdle, IdleqAdd, CtlError, FdPut
  <2>5. AloneAtQuit'
    BY <1>3, SMTT(60) DEF AddIdle, IdleqAdd, CtlError, FdPut
  <2>6. HandsOk'
    BY <1>3, SMTT(60) DEF AddIdle, IdleqAdd, CtlError, FdPut
  <2>7. SlotsOk'
    BY <1>3, SMTT(60) DEF AddIdle, IdleqAdd, CtlError, FdPut
  <2>8. PhaseOk'
    BY <1>3, SMTT(60) DEF AddIdle, IdleqAdd, CtlError, FdPut
  <2>. HIDE DEF TypeOK, Exclusive, Accounted, EpollUsage, AloneAtQuit, HandsOk,
                SlotsOk, PhaseOk
  <2>. QED
    BY <2>1, <2>2, <2>3, <2>4, <2>5, <2>6, <2>7, <2>8 DEF Places
<1>4. ASSUME AcceptorExit(a) PROVE Places'
  BY <1>4, SMTT(60) DEF AcceptorExit
<1>. HIDE DEF Places, Clients, Quitting
<1>. QED
  BY <1>1, <1>2, <1>3, <1>4 DEF Acceptor

\* A worker takes a client by disarming it, and hands it on by closing,
\* arming or parking it, which it does while it alone has it.
LEMMA WorkerPlaces ==
    ASSUME Places, NEW t \in Workers, Worker(t) PROVE Places'
<1>1. ASSUME NEW f \in FDs, IdleqWait(t, f) PROVE Places'
  BY <1>1, SMTT(60) DEF IdleqWait, Ready, Interest, TakeEvent
<1>2. ASSUME WorkerExit(t) PROVE Places'
  BY <1>2, SMTT(60) DEF WorkerExit
<1>3. ASSUME StepActive(t) PROVE Places'
  BY <1>3, SMTT(60) DEF StepActive
<1>4. ASSUME NEW ev \in {"RD", "WR"}, StepWait(t, ev) PROVE Places'
  BY <1>4, SMTT(60) DEF StepWait, Interest
<1>5. ASSUME StepClose(t) PROVE Places'
  <2>1. TypeOK'
    BY <1>5, SMTT(60) DEF StepClose, FdPut
  <2>2. Exclusive'
    BY <1>5, SMTT(60) DEF StepClose, FdPut
  <2>3. Accounted'
    BY <1>5, SMTT(60) DEF StepClose, FdPut
  <2>4. EpollUsage'
    BY <1>5, SMTT(60) DEF StepClose, FdPut
  <2>5. AloneAtQuit'
    BY <1>5, SMTT(60) DEF StepClose, FdPut
  <2>6. HandsOk'
    BY <1>5, SMTT(60) DEF StepClose, FdPut
  <2>7. SlotsOk'
    BY <1>5, SMTT(60) DEF StepClose, FdPut
  <2>8. PhaseOk'
    BY <1>5, SMTT(60) DEF StepClose, FdPut
  <2>. HIDE DEF TypeOK, Exclusive, Accounted, EpollUsage, AloneAtQuit, HandsOk,
                SlotsOk, PhaseOk
  <2>. QED
    BY <2>1, <2>2, <2>3, <2>4, <2>5, <2>6, <2>7, <2>8 DEF Places
<1>6. ASSUME StepFsckWait(t) PROVE Places'
  <2>1. TypeOK'
    BY <1>6, SMTT(60) DEF StepFsckWait
  <2>2. Exclusive'
    BY <1>6, SMTT(60) DEF StepFsckWait
  <2>3. Accounted'
    BY <1>6, SMTT(60) DEF StepFsckWait
  <2>4. EpollUsage'
    BY <1>6, SMTT(60) DEF StepFsckWait
  <2>5. AloneAtQuit'
    BY <1>6, SMTT(60) DEF StepFsckWait
  <2>6. HandsOk'
    BY <1>6, SMTT(60) DEF StepFsckWait
  <2>7. SlotsOk'
    BY <1>6, SMTT(60) DEF StepFsckWait
  <2>8. PhaseOk'
    BY <1>6, SMTT(60) DEF StepFsckWait
  <2>. HIDE DEF TypeOK, Exclusive, Accounted, EpollUsage, AloneAtQuit, HandsOk,
                SlotsOk, PhaseOk
  <2>. QED
    BY <2>1, <2>2, <2>3, <2>4, <2>5, <2>6, <2>7, <2>8 DEF Places
<1>7. ASSUME StepWatch(t) PROVE Places'
  <2>1. TypeOK'
    BY <1>7, SMTT(60) DEF StepWatch
  <2>2. Exclusive'
    BY <1>7, SMTT(60) DEF StepWatch
  <2>3. Accounted'
    BY <1>7, SMTT(60) DEF StepWatch
  <2>4. EpollUsage'
    BY <1>7, SMTT(60) DEF StepWatch
  <2>5. AloneAtQuit'
    BY <1>7, SMTT(60) DEF StepWatch
  <2>6. HandsOk'
    BY <1>7, SMTT(60) DEF StepWatch
  <2>7. SlotsOk'
    BY <1>7, SMTT(60) DEF StepWatch
  <2>8. PhaseOk'
    BY <1>7, SMTT(60) DEF StepWatch
  <2>. HIDE DEF TypeOK, Exclusive, Accounted, EpollUsage, AloneAtQuit, HandsOk,
                SlotsOk, PhaseOk
  <2>. QED
    BY <2>1, <2>2, <2>3, <2>4, <2>5, <2>6, <2>7, <2>8 DEF Places
<1>8. ASSUME NEW g \in FDs, FsckNext(t, g) PROVE Places'
  <2>1. TypeOK'
    BY <1>8, SMTT(60) DEF FsckNext
  <2>2. Exclusive'
    BY <1>8, SMTT(60) DEF FsckNext
  <2>3. Accounted'
    BY <1>8, SMTT(60) DEF FsckNext
  <2>4. EpollUsage'
    BY <1>8, SMTT(60) DEF FsckNext
  <2>5. AloneAtQuit'
    BY <1>8, SMTT(60) DEF FsckNext
  <2>6. HandsOk'
    BY <1>8, SMTT(60) DEF FsckNext
  <2>7. SlotsOk'
    BY <1>8, SMTT(60) DEF FsckNext
  <2>8. PhaseOk'
    BY <1>8, SMTT(60) DEF FsckNext
  <2>. HIDE DEF TypeOK, Exclusive, Accounted, EpollUsage, AloneAtQuit, HandsOk,
                SlotsOk, PhaseOk
  <2>. QED
    BY <2>1, <2>2, <2>3, <2>4, <2>5, <2>6, <2>7, <2>8 DEF Places
<1>9. ASSUME FsckPush(t) PROVE Places'
  <2>1. TypeOK'
    BY <1>9, ArmTypes DEF FsckPush
  <2>2. Exclusive'
    BY <1>9, SMTT(60) DEF FsckPush, IdleqPush, CtlError, FdPut
  <2>3. Accounted'
    BY <1>9, SMTT(60) DEF FsckPush, IdleqPush, CtlError, FdPut
  <2>4. EpollUsage'
    BY <1>9, SMTT(60) DEF FsckPush, IdleqPush, CtlError, FdPut
  <2>5. AloneAtQuit'
    BY <1>9, SMTT(60) DEF FsckPush, IdleqPush, CtlError, FdPut
  <2>6. HandsOk'
    BY <1>9, SMTT(60) DEF FsckPush, IdleqPush, CtlError, FdPut
  <2>7. SlotsOk'
    BY <1>9, SMTT(60) DEF FsckPush, IdleqPush, CtlError, FdPut
  <2>8. PhaseOk'
    BY <1>9, SMTT(60) DEF FsckPush, IdleqPush, CtlError, FdPut
  <2>. HIDE DEF TypeOK, Exclusive, Accounted, EpollUsage, AloneAtQuit, HandsOk,
                SlotsOk, PhaseOk
  <2>. QED
    BY <2>1, <2>2, <2>3, <2>4, <2>5, <2>6, <2>7, <2>8 DEF Places
<1>10. ASSUME NEW f \in FDs, XchgTake(t, f) PROVE Places'
  BY <1>10, SMTT(60) DEF XchgTake, Ready, Interest, TakeEvent
<1>11. ASSUME XchgKeep(t) PROVE Places'
  BY <1>11, SMTT(60) DEF XchgKeep
<1>12. ASSUME Swap(t) PROVE Places'
  <2>1. TypeOK'
    BY <1>12, ArmTypes DEF Swap
  <2>2. Exclusive'
    BY <1>12, SMTT(60) DEF Swap, IdleqPush, CtlError, FdPut
  <2>3. Accounted'
    BY <1>12, SMTT(60) DEF Swap, IdleqPush, CtlError, FdPut
  <2>4. EpollUsage'
    BY <1>12, SMTT(60) DEF Swap, IdleqPush, CtlError, FdPut
  <2>5. AloneAtQuit'
    BY <1>12, SMTT(60) DEF Swap, IdleqPush, CtlError, FdPut
  <2>6. HandsOk'
    BY <1>12, SMTT(60) DEF Swap, IdleqPush, CtlError, FdPut
  <2>7. SlotsOk'
    BY <1>12, SMTT(60) DEF Swap, IdleqPush, CtlError, FdPut
  <2>8. PhaseOk'
    BY <1>12, SMTT(60) DEF Swap, IdleqPush, CtlError, FdPut
  <2>. HIDE DEF TypeOK, Exclusive, Accounted, EpollUsage, AloneAtQuit, HandsOk,
                SlotsOk, PhaseOk
  <2>. QED
    BY <2>1, <2>2, <2>3, <2>4, <2>5, <2>6, <2>7, <2>8 DEF Places
<1>13. ASSUME Push(t) PROVE Places'
  <2>1. TypeOK'
    BY <1>13, ArmTypes DEF Push
  <2>2. Exclusive'
    BY <1>13, SMTT(60) DEF Push, IdleqPush, CtlError, FdPut
  <2>3. Accounted'
    BY <1>13, SMTT(60) DEF Push, IdleqPush, CtlError, FdPut
  <2>4. EpollUsage'
    BY <1>13, SMTT(60) DEF Push, IdleqPush, CtlError, FdPut
  <2>5. AloneAtQuit'
    BY <1>13, SMTT(60) DEF Push, IdleqPush, CtlError, FdPut
  <2>6. HandsOk'
    BY <1>13, SMTT(60) DEF Push, IdleqPush, CtlError, FdPut
  <2>7. SlotsOk'
    BY <1>13, SMTT(60) DEF Push, IdleqPush, CtlError, FdPut
  <2>8. PhaseOk'
    BY <1>13, SMTT(60) DEF Push, IdleqPush, CtlError, FdPut
  <2>. HIDE DEF TypeOK, Exclusive, Accounted, EpollUsage, AloneAtQuit, HandsOk,
                SlotsOk, PhaseOk
  <2>. QED
    BY <2>1, <2>2, <2>3, <2>4, <2>5, <2>6, <2>7, <2>8 DEF Places
<1>. HIDE DEF Places, Clients, Quitting
<1>. QED
  BY <1>1, <1>2, <1>3, <1>4, <1>5, <1>6, <1>7, <1>8, <1>9, <1>10, <1>11,
     <1>12, <1>13 DEF Worker, WorkerRun, Deliver

-----------------------------------------------------------------------------
(* The main thread                                                         *)

\* The main thread, while it serves: a broadcast touches subscribers only,
\* which no other thread can have.
LEMMA MainServePlaces == ASSUME Places, MainServe \/ Shrunk PROVE Places'
<1>1. ASSUME BcastBegin PROVE Places'
  BY <1>1, SMTT(60) DEF BcastBegin, MainAt
<1>2. ASSUME NEW f \in FDs, BcastOne(f) PROVE Places'
  <2>1. TypeOK'
    BY <1>2, SMTT(60) DEF BcastOne, EagainPush, CtlError, FdPut, Interest
  <2>2. Exclusive'
    BY <1>2, SMTT(60) DEF BcastOne, EagainPush, CtlError, FdPut, Interest
  <2>3. Accounted'
    BY <1>2, SMTT(60) DEF BcastOne, EagainPush, CtlError, FdPut, Interest
  <2>4. EpollUsage'
    BY <1>2, SMTT(60) DEF BcastOne, EagainPush, CtlError, FdPut, Interest
  <2>5. AloneAtQuit'
    BY <1>2, SMTT(60) DEF BcastOne, EagainPush, CtlError, FdPut, Interest
  <2>6. HandsOk'
    BY <1>2, SMTT(60) DEF BcastOne, EagainPush, CtlError, FdPut, Interest
  <2>7. SlotsOk'
    BY <1>2, SMTT(60) DEF BcastOne, EagainPush, CtlError, FdPut, Interest
  <2>8. PhaseOk'
    BY <1>2, SMTT(60) DEF BcastOne, EagainPush, CtlError, FdPut, Interest
  <2>. HIDE DEF TypeOK, Exclusive, Accounted, EpollUsage, AloneAtQuit, HandsOk,
                SlotsOk, PhaseOk
  <2>. QED
    BY <2>1, <2>2, <2>3, <2>4, <2>5, <2>6, <2>7, <2>8 DEF Places
<1>3. ASSUME BcastEnd PROVE Places'
  BY <1>3, SMTT(60) DEF BcastEnd, MainAt
<1>4. ASSUME NEW S \in SUBSET Workers, Shrink(S) PROVE Places'
  BY <1>4, SMTT(60) DEF Shrink, MainAt
<1>5. ASSUME Shrunk PROVE Places'
  BY <1>5, SMTT(60) DEF Shrunk, MainAt
<1>6. ASSUME NEW t \in Workers, Grow(t) PROVE Places'
  BY <1>6, SMTT(60) DEF Grow
<1>7. ASSUME QuitAccept PROVE Places'
  BY <1>7, SMTT(60) DEF QuitAccept, MainAt
<1>. HIDE DEF Places, Clients, Quitting
<1>. QED
  BY <1>1, <1>2, <1>3, <1>4, <1>5, <1>6, <1>7 DEF MainServe

\* Shutdown: each phase starts only when the threads that could still have a
\* client have been joined.  (Requeue counts, so its type needs the number of
\* clients to be a natural number; closing a client needs the count to be
\* positive.)
LEMMA MainQuitPlaces ==
    ASSUME Places, MainQuit \/ \E f \in FDs : QuitWait(f),
           Cardinality(Clients) \in Nat,
           Quitting /\ Clients # {} => nr_active >= 1
    PROVE  Places'
<1>1. ASSUME AcceptQuit PROVE Places'
  BY <1>1, SMTT(60) DEF AcceptQuit, MainAt, Alive
<1>2. ASSUME DevShutdown1 PROVE Places'
  <2>1. TypeOK'
    BY <1>2, SMTT(60) DEF DevShutdown1, MainAt, DevShutdown, FdPut
  <2>2. Exclusive'
    BY <1>2, SMTT(60) DEF DevShutdown1, MainAt, DevShutdown, FdPut
  <2>3. Accounted'
    BY <1>2, SMTT(60) DEF DevShutdown1, MainAt, DevShutdown, FdPut
  <2>4. EpollUsage'
    BY <1>2, SMTT(60) DEF DevShutdown1, MainAt, DevShutdown, FdPut
  <2>5. AloneAtQuit'
    BY <1>2, SMTT(60) DEF DevShutdown1, MainAt, DevShutdown, FdPut
  <2>6. HandsOk'
    BY <1>2, SMTT(60) DEF DevShutdown1, MainAt, DevShutdown, FdPut
  <2>7. SlotsOk'
    BY <1>2, SMTT(60) DEF DevShutdown1, MainAt, DevShutdown, FdPut
  <2>8. PhaseOk'
    BY <1>2, SMTT(60) DEF DevShutdown1, MainAt, DevShutdown, FdPut
  <2>. HIDE DEF TypeOK, Exclusive, Accounted, EpollUsage, AloneAtQuit, HandsOk,
                SlotsOk, PhaseOk
  <2>. QED
    BY <2>1, <2>2, <2>3, <2>4, <2>5, <2>6, <2>7, <2>8 DEF Places
<1>3. ASSUME QueueStop PROVE Places'
  BY <1>3, SMTT(60) DEF QueueStop, MainAt, Alive
<1>4. ASSUME DevShutdown2 PROVE Places'
  <2>1. TypeOK'
    BY <1>4, SMTT(60) DEF DevShutdown2, MainAt, DevShutdown, FdPut
  <2>2. Exclusive'
    BY <1>4, SMTT(60) DEF DevShutdown2, MainAt, DevShutdown, FdPut
  <2>3. Accounted'
    BY <1>4, SMTT(60) DEF DevShutdown2, MainAt, DevShutdown, FdPut
  <2>4. EpollUsage'
    BY <1>4, SMTT(60) DEF DevShutdown2, MainAt, DevShutdown, FdPut
  <2>5. AloneAtQuit'
    BY <1>4, SMTT(60) DEF DevShutdown2, MainAt, DevShutdown, FdPut
  <2>6. HandsOk'
    BY <1>4, SMTT(60) DEF DevShutdown2, MainAt, DevShutdown, FdPut
  <2>7. SlotsOk'
    BY <1>4, SMTT(60) DEF DevShutdown2, MainAt, DevShutdown, FdPut
  <2>8. PhaseOk'
    BY <1>4, SMTT(60) DEF DevShutdown2, MainAt, DevShutdown, FdPut
  <2>. HIDE DEF TypeOK, Exclusive, Accounted, EpollUsage, AloneAtQuit, HandsOk,
                SlotsOk, PhaseOk
  <2>. QED
    BY <2>1, <2>2, <2>3, <2>4, <2>5, <2>6, <2>7, <2>8 DEF Places
<1>5. ASSUME Requeue PROVE Places'
  <2>1. TypeOK'
    BY <1>5, SMTT(60) DEF Requeue, MainAt
  <2>2. Exclusive'
    BY <1>5, SMTT(60) DEF Requeue, MainAt
  <2>3. Accounted'
    BY <1>5, SMTT(60) DEF Requeue, MainAt
  <2>4. EpollUsage'
    BY <1>5, SMTT(60) DEF Requeue, MainAt
  <2>5. AloneAtQuit'
    BY <1>5, SMTT(60) DEF Requeue, MainAt
  <2>6. HandsOk'
    BY <1>5, SMTT(60) DEF Requeue, MainAt
  <2>7. SlotsOk'
    BY <1>5, SMTT(60) DEF Requeue, MainAt
  <2>8. PhaseOk'
    BY <1>5, SMTT(60) DEF Requeue, MainAt
  <2>. HIDE DEF TypeOK, Exclusive, Accounted, EpollUsage, AloneAtQuit, HandsOk,
                SlotsOk, PhaseOk
  <2>. QED
    BY <2>1, <2>2, <2>3, <2>4, <2>5, <2>6, <2>7, <2>8 DEF Places
<1>6. ASSUME NEW f \in FDs, QuitWait(f) PROVE Places'
  <2>1. TypeOK'
    BY <1>6, SMTT(60) DEF QuitWait, MainAt, Ready, Interest, TakeEvent
  <2>2. Exclusive'
    BY <1>6, SMTT(60) DEF QuitWait, MainAt, Ready, Interest, TakeEvent
  <2>3. Accounted'
    BY <1>6, SMTT(60) DEF QuitWait, MainAt, Ready, Interest, TakeEvent
  <2>4. EpollUsage'
    BY <1>6, SMTT(60) DEF QuitWait, MainAt, Ready, Interest, TakeEvent
  <2>5. AloneAtQuit'
    BY <1>6, SMTT(60) DEF QuitWait, MainAt, Ready, Interest, TakeEvent
  <2>6. HandsOk'
    BY <1>6, SMTT(60) DEF QuitWait, MainAt, Ready, Interest, TakeEvent
  <2>7. SlotsOk'
    BY <1>6, SMTT(60) DEF QuitWait, MainAt, Ready, Interest, TakeEvent
  <2>8. PhaseOk'
    BY <1>6, SMTT(60) DEF QuitWait, MainAt, Ready, Interest, TakeEvent
  <2>. HIDE DEF TypeOK, Exclusive, Accounted, EpollUsage, AloneAtQuit, HandsOk,
                SlotsOk, PhaseOk
  <2>. QED
    BY <2>1, <2>2, <2>3, <2>4, <2>5, <2>6, <2>7, <2>8 DEF Places
<1>7. ASSUME NEW ev \in {"RD", "WR", "RW"}, QuitPush(ev) PROVE Places'
  BY <1>7, SMTT(60) DEF QuitPush, QuitStepped, MainAt, IdleqPush, EagainPush,
     CtlError, FdPut, Interest
<1>8. ASSUME QuitClose PROVE Places'
  <2>1. TypeOK'
    BY <1>8, SMTT(60) DEF QuitClose, QuitStepped, MainAt, FdPut
  <2>2. Exclusive'
    BY <1>8, SMTT(60) DEF QuitClose, QuitStepped, MainAt, FdPut
  <2>3. Accounted'
    BY <1>8, SMTT(60) DEF QuitClose, QuitStepped, MainAt, FdPut
  <2>4. EpollUsage'
    BY <1>8, SMTT(60) DEF QuitClose, QuitStepped, MainAt, FdPut
  <2>5. AloneAtQuit'
    BY <1>8, SMTT(60) DEF QuitClose, QuitStepped, MainAt, FdPut
  <2>6. HandsOk'
    BY <1>8, SMTT(60) DEF QuitClose, QuitStepped, MainAt, FdPut
  <2>7. SlotsOk'
    BY <1>8, SMTT(60) DEF QuitClose, QuitStepped, MainAt, FdPut
  <2>8. PhaseOk'
    BY <1>8, SMTT(60) DEF QuitClose, QuitStepped, MainAt, FdPut
  <2>. HIDE DEF TypeOK, Exclusive, Accounted, EpollUsage, AloneAtQuit, HandsOk,
                SlotsOk, PhaseOk
  <2>. QED
    BY <2>1, <2>2, <2>3, <2>4, <2>5, <2>6, <2>7, <2>8 DEF Places
<1>9. ASSUME QuitIgnore PROVE Places'
  <2>1. TypeOK'
    BY <1>9, SMTT(60) DEF QuitIgnore, QuitStepped, MainAt, FdPut
  <2>2. Exclusive'
    BY <1>9, SMTT(60) DEF QuitIgnore, QuitStepped, MainAt, FdPut
  <2>3. Accounted'
    BY <1>9, SMTT(60) DEF QuitIgnore, QuitStepped, MainAt, FdPut
  <2>4. EpollUsage'
    BY <1>9, SMTT(60) DEF QuitIgnore, QuitStepped, MainAt, FdPut
  <2>5. AloneAtQuit'
    BY <1>9, SMTT(60) DEF QuitIgnore, QuitStepped, MainAt, FdPut
  <2>6. HandsOk'
    BY <1>9, SMTT(60) DEF QuitIgnore, QuitStepped, MainAt, FdPut
  <2>7. SlotsOk'
    BY <1>9, SMTT(60) DEF QuitIgnore, QuitStepped, MainAt, FdPut
  <2>8. PhaseOk'
    BY <1>9, SMTT(60) DEF QuitIgnore, QuitStepped, MainAt, FdPut
  <2>. HIDE DEF TypeOK, Exclusive, Accounted, EpollUsage, AloneAtQuit, HandsOk,
                SlotsOk, PhaseOk
  <2>. QED
    BY <2>1, <2>2, <2>3, <2>4, <2>5, <2>6, <2>7, <2>8 DEF Places
<1>10. ASSUME Exit PROVE Places'
  BY <1>10, SMTT(60) DEF Exit, MainAt
<1>. HIDE DEF Places, Clients, Quitting
<1>. QED
  BY <1>1, <1>2, <1>3, <1>4, <1>5, <1>6, <1>7, <1>8, <1>9, <1>10 DEF MainQuit

=============================================================================
