---------------------------- MODULE FdMapProofs ----------------------------
(***************************************************************************)
(* IInv is an invariant of FdMap for any number of threads, descriptors    *)
(* and slots per heap.                                                     *)
(*                                                                         *)
(* The point of the argument: while expiry holds a slot's spin lock and    *)
(* sees the type of an HTTP connection, the owner of the connection, if it *)
(* is putting it, has not got the lock yet, so it has not closed it.       *)
(*                                                                         *)
(* Each lemma first states what its action does, variable by variable, and *)
(* then takes the conjuncts of IInv in turn.                               *)
(***************************************************************************)
EXTENDS FdMap, TLAPS

\* The sorts of the variables that arithmetic or indexing needs.
LEMMA Sorts ==
    ASSUME TypeOK
    PROVE  /\ FDs \subseteq Int /\ max_fd \in Nat /\ FD_PER_HEAP \in Nat \ {0}
           /\ FirstFd \in Int /\ NFds \in Int /\ None \notin Threads /\ None \notin Objs
           /\ cur \in [Threads -> Int] /\ \A u \in Threads : cur[u] + 1 \in Int
           /\ live \subseteq FDs /\ mapped \subseteq Nat /\ shut \subseteq Objs
           /\ open \in [FDs -> Objs \cup {None}]
           /\ KindOf \in [Objs -> {"HTTP", "MGMT", "FILE"}]
BY FdAssumption DEF TypeOK, FDs

\* Open.  The descriptor was free: its slot is unused and no thread examines it.
LEMMA OpenInv ==
    ASSUME IInv, NEW t \in Threads, NEW f \in FDs, NEW o \in Objs, Open(t, f, o)
    PROVE  IInv'
<1>1. /\ pc[t] = "idle" /\ open[f] = None /\ \A g \in FDs : open[g] # o
      /\ \A u \in Threads : pc'[u] = IF u = t THEN "get" ELSE pc[u]
      /\ \A g \in FDs : open'[g] = IF g = f THEN o ELSE open[g]
      /\ \A u \in Threads : cur'[u] = IF u = t THEN f ELSE cur[u]
      /\ UNCHANGED <<shut, max_fd, mapped, slot_fd, fd_type, expiring, fd_lock,
                     live, seen>>
  BY FdAssumption DEF Open, Goto, IInv, TypeOK, kernelVars, mapVars
<1>2. TypeOK'
  BY <1>1, FdAssumption DEF Open, Goto, IInv, TypeOK, FDs, PcValues, kernelVars, mapVars
<1>3. Owned'
  BY <1>1, Sorts DEF IInv, Owned, Owns
<1>4. Typed'
  BY <1>1, Sorts DEF IInv, Typed, Owned
<1>5. Locks'
  BY <1>1, Sorts DEF IInv, Locks
<1>6. Mapped'
  BY <1>1, Sorts DEF IInv, Mapped
<1>7. Examined'
  BY <1>1, Sorts DEF IInv, Examined, Typed, Mapped
<1>. QED
  BY <1>2, <1>3, <1>4, <1>5, <1>6, <1>7 DEF IInv

\* FdGet.  Slots below max_fd are mapped; others lead to grow_ref.
LEMMA FdGetInv == ASSUME IInv, NEW t \in Threads, FdGet(t) PROVE IInv'
<1>1. /\ pc[t] = "get"
      /\ \A u \in Threads :
             pc'[u] = IF u = t THEN (IF cur[t] < max_fd THEN "lock" ELSE "grow")
                               ELSE pc[u]
      /\ UNCHANGED <<open, shut, max_fd, mapped, slot_fd, fd_type, expiring,
                     fd_lock, live, cur, seen>>
  BY FdAssumption DEF FdGet, Goto, IInv, TypeOK, kernelVars, mapVars
<1>2. TypeOK'
  BY <1>1, FdAssumption DEF FdGet, Goto, IInv, TypeOK, FDs, PcValues,
     kernelVars, mapVars
<1>3. Owned'
  BY <1>1, Sorts DEF IInv, Owned, Owns
<1>4. Typed'
  BY <1>1, Sorts DEF IInv, Typed
<1>5. Locks'
  BY <1>1, Sorts DEF IInv, Locks
<1>6. Mapped'
  BY <1>1, Sorts DEF IInv, Mapped
<1>7. Examined'
  BY <1>1, Sorts DEF IInv, Examined
<1>. QED
  BY <1>2, <1>3, <1>4, <1>5, <1>6, <1>7 DEF IInv

\* GrowLock.  The mutex was free: no other thread grows the map or scans it.
LEMMA GrowLockInv == ASSUME IInv, NEW t \in Threads, GrowLock(t) PROVE IInv'
<1>1. /\ pc[t] = "grow" /\ fd_lock = None
      /\ \A u \in Threads : pc'[u] = IF u = t THEN "growing" ELSE pc[u]
      /\ fd_lock' = t
      /\ UNCHANGED <<open, shut, max_fd, mapped, slot_fd, fd_type, expiring, live,
                     cur, seen>>
  BY FdAssumption DEF GrowLock, Goto, IInv, TypeOK, kernelVars, mapVars
<1>2. TypeOK'
  BY <1>1, FdAssumption DEF GrowLock, Goto, IInv, TypeOK, FDs, PcValues,
     kernelVars, mapVars
<1>3. Owned'
  BY <1>1, Sorts DEF IInv, Owned, Owns
<1>4. Typed'
  BY <1>1, Sorts DEF IInv, Typed
<1>5. Locks'
  BY <1>1, Sorts DEF IInv, Locks
<1>6. Mapped'
  BY <1>1, Sorts DEF IInv, Mapped
<1>7. Examined'
  BY <1>1, Sorts DEF IInv, Examined
<1>. QED
  BY <1>2, <1>3, <1>4, <1>5, <1>6, <1>7 DEF IInv

\* GrowHeap.  The new heap is beyond every slot in use.
LEMMA GrowHeapInv == ASSUME IInv, NEW t \in Threads, GrowHeap(t) PROVE IInv'
<1>1. /\ pc[t] = "growing" /\ cur[t] >= max_fd
      /\ \A u \in Threads : pc'[u] = IF u = t THEN "publish" ELSE pc[u]
      /\ mapped' = mapped \cup Heap
      /\ \A g \in FDs : slot_fd'[g] = IF g \in Heap THEN g ELSE slot_fd[g]
      /\ \A g \in FDs : fd_type'[g] = IF g \in Heap THEN "UNUSED" ELSE fd_type[g]
      /\ \A g \in FDs : expiring'[g] = IF g \in Heap THEN None ELSE expiring[g]
      /\ UNCHANGED <<open, shut, max_fd, fd_lock, live, cur, seen>>
  BY FdAssumption DEF GrowHeap, Goto, IInv, TypeOK, kernelVars, mapVars
<1>2. TypeOK'
  BY <1>1, FdAssumption DEF GrowHeap, Goto, IInv, TypeOK, FDs, PcValues,
     kernelVars, mapVars, Heap
<1>3. Owned'
  BY <1>1, Sorts DEF IInv, Owned, Owns
<1>4. Typed'
  BY <1>1, Sorts DEF IInv, Typed, Mapped, Heap
<1>5. Locks'
  BY <1>1, Sorts DEF IInv, Locks, Mapped, Heap
<1>6. Mapped'
  BY <1>1, Sorts DEF IInv, Mapped, Locks, Heap
<1>7. Examined'
  BY <1>1, Sorts DEF IInv, Examined, Mapped, Heap
<1>. QED
  BY <1>2, <1>3, <1>4, <1>5, <1>6, <1>7 DEF IInv

\* GrowPublish.  The heap that is published is initialised.
LEMMA GrowPublishInv == ASSUME IInv, NEW t \in Threads, GrowPublish(t) PROVE IInv'
<1>1. /\ pc[t] = "publish"
      /\ \A u \in Threads : pc'[u] = IF u = t THEN "growing" ELSE pc[u]
      /\ max_fd' = max_fd + FD_PER_HEAP
      /\ UNCHANGED <<open, shut, mapped, slot_fd, fd_type, expiring, fd_lock,
                     live, cur, seen>>
  BY FdAssumption DEF GrowPublish, Goto, IInv, TypeOK, kernelVars, mapVars
<1>2. TypeOK'
  BY <1>1, FdAssumption DEF GrowPublish, Goto, IInv, TypeOK, FDs, PcValues,
     kernelVars, mapVars
<1>3. Owned'
  BY <1>1, Sorts DEF IInv, Owned, Owns
<1>4. Typed'
  BY <1>1, Sorts DEF IInv, Typed
<1>5. Locks'
  BY <1>1, Sorts DEF IInv, Locks
<1>6. Mapped'
  BY <1>1, Sorts DEF IInv, Mapped, Locks
<1>7. Examined'
  BY <1>1, Sorts DEF IInv, Examined
<1>. QED
  BY <1>2, <1>3, <1>4, <1>5, <1>6, <1>7 DEF IInv

\* GrowDone.  The map covers the descriptor; the mutex is released.
LEMMA GrowDoneInv == ASSUME IInv, NEW t \in Threads, GrowDone(t) PROVE IInv'
<1>1. /\ pc[t] = "growing" /\ cur[t] < max_fd
      /\ \A u \in Threads : pc'[u] = IF u = t THEN "lock" ELSE pc[u]
      /\ fd_lock' = None
      /\ UNCHANGED <<open, shut, max_fd, mapped, slot_fd, fd_type, expiring, live,
                     cur, seen>>
  BY FdAssumption DEF GrowDone, Goto, IInv, TypeOK, kernelVars, mapVars
<1>2. TypeOK'
  BY <1>1, FdAssumption DEF GrowDone, Goto, IInv, TypeOK, FDs, PcValues,
     kernelVars, mapVars
<1>3. Owned'
  BY <1>1, Sorts DEF IInv, Owned, Owns
<1>4. Typed'
  BY <1>1, Sorts DEF IInv, Typed
<1>5. Locks'
  BY <1>1, Sorts DEF IInv, Locks
<1>6. Mapped'
  BY <1>1, Sorts DEF IInv, Mapped
<1>7. Examined'
  BY <1>1, Sorts DEF IInv, Examined
<1>. QED
  BY <1>2, <1>3, <1>4, <1>5, <1>6, <1>7 DEF IInv

\* InitLock.  The spin lock was free.
LEMMA InitLockInv == ASSUME IInv, NEW t \in Threads, InitLock(t) PROVE IInv'
<1>1. /\ pc[t] = "lock" /\ expiring[cur[t]] = None
      /\ \A u \in Threads : pc'[u] = IF u = t THEN "set" ELSE pc[u]
      /\ \A g \in FDs : expiring'[g] = IF g = cur[t] THEN t ELSE expiring[g]
      /\ UNCHANGED <<open, shut, max_fd, mapped, slot_fd, fd_type, fd_lock, live,
                     cur, seen>>
  BY FdAssumption DEF InitLock, SpinLock, Goto, IInv, TypeOK, kernelVars, mapVars
<1>2. TypeOK'
  <2>1. expiring' \in [FDs -> Threads \cup {None}]
    BY Zenon DEF InitLock, SpinLock, IInv, TypeOK
  <2>2. pc' \in [Threads -> PcValues]
    BY DEF InitLock, SpinLock, Goto, IInv, TypeOK, PcValues
  <2>. QED
    BY <1>1, <2>1, <2>2 DEF IInv, TypeOK
<1>3. Owned'
  BY <1>1, Sorts DEF IInv, Owned, Owns
<1>4. Typed'
  BY <1>1, Sorts DEF IInv, Typed
<1>5. Locks'
  BY <1>1, Sorts DEF IInv, Locks, Owned, Owns
<1>6. Mapped'
  BY <1>1, Sorts DEF IInv, Mapped
<1>7. Examined'
  BY <1>1, Sorts DEF IInv, Examined
<1>. QED
  BY <1>2, <1>3, <1>4, <1>5, <1>6, <1>7 DEF IInv

\* InitType.  The owner holds the spin lock, so no thread examines the slot.
LEMMA InitTypeInv == ASSUME IInv, NEW t \in Threads, InitType(t) PROVE IInv'
<1>1. /\ pc[t] = "set"
      /\ \A u \in Threads : pc'[u] = IF u = t THEN "idle" ELSE pc[u]
      /\ \A g \in FDs : fd_type'[g] = IF g = cur[t] THEN KindOf[open[cur[t]]] ELSE fd_type[g]
      /\ \A g \in FDs : expiring'[g] = IF g = cur[t] THEN None ELSE expiring[g]
      /\ live' = live \cup {cur[t]}
      /\ UNCHANGED <<open, shut, max_fd, mapped, slot_fd, fd_lock, cur, seen>>
  BY FdAssumption DEF InitType, Goto, IInv, TypeOK, kernelVars, mapVars
<1>2. TypeOK'
  <2>1. /\ cur[t] \in FDs
        /\ KindOf[open[cur[t]]] \in {"HTTP", "MGMT", "FILE"}
    BY <1>1, FdAssumption DEF IInv, TypeOK, Owned, Owns
  <2>2. /\ fd_type' \in [FDs -> {"UNUSED", "HTTP", "MGMT", "FILE"}]
        /\ expiring' \in [FDs -> Threads \cup {None}]
        /\ live' \subseteq FDs
        /\ pc' \in [Threads -> PcValues]
    BY <2>1 DEF InitType, Goto, IInv, TypeOK, PcValues
  <2>. QED
    BY <1>1, <2>2 DEF IInv, TypeOK
<1>3. Owned'
  BY <1>1, Sorts DEF IInv, Owned, Owns
<1>4. Typed'
  BY <1>1, Sorts DEF IInv, Typed, Owned, Owns
<1>5. Locks'
  BY <1>1, Sorts DEF IInv, Locks, Owned, Owns
<1>6. Mapped'
  BY <1>1, Sorts DEF IInv, Mapped
<1>7. Examined'
  BY <1>1, Sorts DEF IInv, Examined, Locks, Mapped
<1>. QED
  BY <1>2, <1>3, <1>4, <1>5, <1>6, <1>7 DEF IInv

\* Put.  A slot that was in use gets an owner.
LEMMA PutInv ==
    ASSUME IInv, NEW t \in Threads, NEW f \in FDs, Put(t, f)
    PROVE  IInv'
<1>1. /\ pc[t] = "idle" /\ f \in live
      /\ \A u \in Threads : pc'[u] = IF u = t THEN "put" ELSE pc[u]
      /\ live' = live \ {f}
      /\ \A u \in Threads : cur'[u] = IF u = t THEN f ELSE cur[u]
      /\ UNCHANGED <<open, shut, max_fd, mapped, slot_fd, fd_type, expiring,
                     fd_lock, seen>>
  BY FdAssumption DEF Put, Goto, IInv, TypeOK, kernelVars, mapVars
<1>2. TypeOK'
  BY <1>1, FdAssumption DEF Put, Goto, IInv, TypeOK, FDs, PcValues, kernelVars, mapVars
<1>3. Owned'
  BY <1>1, Sorts DEF IInv, Owned, Owns
<1>4. Typed'
  BY <1>1, Sorts DEF IInv, Typed
<1>5. Locks'
  BY <1>1, Sorts DEF IInv, Locks
<1>6. Mapped'
  BY <1>1, Sorts DEF IInv, Mapped
<1>7. Examined'
  BY <1>1, Sorts DEF IInv, Examined
<1>. QED
  BY <1>2, <1>3, <1>4, <1>5, <1>6, <1>7 DEF IInv

\* PutLock.  The spin lock was free.
LEMMA PutLockInv == ASSUME IInv, NEW t \in Threads, PutLock(t) PROVE IInv'
<1>1. /\ pc[t] = "put" /\ expiring[cur[t]] = None
      /\ \A u \in Threads : pc'[u] = IF u = t THEN "unset" ELSE pc[u]
      /\ \A g \in FDs : expiring'[g] = IF g = cur[t] THEN t ELSE expiring[g]
      /\ UNCHANGED <<open, shut, max_fd, mapped, slot_fd, fd_type, fd_lock, live,
                     cur, seen>>
  BY FdAssumption DEF PutLock, SpinLock, Goto, IInv, TypeOK, kernelVars, mapVars
<1>2. TypeOK'
  <2>1. expiring' \in [FDs -> Threads \cup {None}]
    BY Zenon DEF PutLock, SpinLock, IInv, TypeOK
  <2>2. pc' \in [Threads -> PcValues]
    BY DEF PutLock, SpinLock, Goto, IInv, TypeOK, PcValues
  <2>. QED
    BY <1>1, <2>1, <2>2 DEF IInv, TypeOK
<1>3. Owned'
  BY <1>1, Sorts DEF IInv, Owned, Owns
<1>4. Typed'
  BY <1>1, Sorts DEF IInv, Typed
<1>5. Locks'
  BY <1>1, Sorts DEF IInv, Locks, Owned, Owns
<1>6. Mapped'
  BY <1>1, Sorts DEF IInv, Mapped
<1>7. Examined'
  BY <1>1, Sorts DEF IInv, Examined
<1>. QED
  BY <1>2, <1>3, <1>4, <1>5, <1>6, <1>7 DEF IInv

\* PutType.  The owner holds the spin lock, so no thread examines the slot.
LEMMA PutTypeInv == ASSUME IInv, NEW t \in Threads, PutType(t) PROVE IInv'
<1>1. /\ pc[t] = "unset"
      /\ \A u \in Threads : pc'[u] = IF u = t THEN "close" ELSE pc[u]
      /\ \A g \in FDs : fd_type'[g] = IF g = cur[t] THEN "UNUSED" ELSE fd_type[g]
      /\ \A g \in FDs : expiring'[g] = IF g = cur[t] THEN None ELSE expiring[g]
      /\ UNCHANGED <<open, shut, max_fd, mapped, slot_fd, fd_lock, live, cur,
                     seen>>
  BY FdAssumption DEF PutType, Goto, IInv, TypeOK, kernelVars, mapVars
<1>2. TypeOK'
  <2>1. fd_type' \in [FDs -> {"UNUSED", "HTTP", "MGMT", "FILE"}]
    BY Zenon DEF PutType, IInv, TypeOK
  <2>2. expiring' \in [FDs -> Threads \cup {None}]
    BY Zenon DEF PutType, IInv, TypeOK
  <2>3. pc' \in [Threads -> PcValues]
    BY DEF PutType, Goto, IInv, TypeOK, PcValues
  <2>. QED
    BY <1>1, <2>1, <2>2, <2>3 DEF IInv, TypeOK
<1>3. Owned'
  BY <1>1, Sorts DEF IInv, Owned, Owns
<1>4. Typed'
  BY <1>1, Sorts DEF IInv, Typed, Owned, Owns
<1>5. Locks'
  BY <1>1, Sorts DEF IInv, Locks, Owned, Owns
<1>6. Mapped'
  BY <1>1, Sorts DEF IInv, Mapped
<1>7. Examined'
  BY <1>1, Sorts DEF IInv, Examined, Locks, Mapped
<1>. QED
  BY <1>2, <1>3, <1>4, <1>5, <1>6, <1>7 DEF IInv

\* Close.  The slot is unused, so no thread is about to shut its socket down.
LEMMA CloseInv == ASSUME IInv, NEW t \in Threads, Close(t) PROVE IInv'
<1>1. /\ pc[t] = "close"
      /\ \A u \in Threads : pc'[u] = IF u = t THEN "idle" ELSE pc[u]
      /\ \A g \in FDs : open'[g] = IF g = cur[t] THEN None ELSE open[g]
      /\ shut' = shut \ {open[cur[t]]}
      /\ UNCHANGED <<max_fd, mapped, slot_fd, fd_type, expiring, fd_lock, live,
                     cur, seen>>
  BY FdAssumption DEF Close, Goto, IInv, TypeOK, kernelVars, mapVars
<1>2. TypeOK'
  <2>1. open' \in [FDs -> Objs \cup {None}]
    BY Zenon DEF Close, IInv, TypeOK
  <2>2. shut' \subseteq Objs
    BY DEF Close, IInv, TypeOK
  <2>3. pc' \in [Threads -> PcValues]
    BY DEF Close, Goto, IInv, TypeOK, PcValues
  <2>. QED
    BY <1>1, <2>1, <2>2, <2>3 DEF IInv, TypeOK
<1>3. Owned'
  BY <1>1, Sorts DEF IInv, Owned, Owns
<1>4. Typed'
  BY <1>1, Sorts DEF IInv, Typed, Owned, Owns
<1>5. Locks'
  BY <1>1, Sorts DEF IInv, Locks
<1>6. Mapped'
  BY <1>1, Sorts DEF IInv, Mapped
<1>7. Examined'
  BY <1>1, Sorts DEF IInv, Examined, Typed, Owned, Owns, Mapped
<1>. QED
  BY <1>2, <1>3, <1>4, <1>5, <1>6, <1>7 DEF IInv

\* ExpireTry.  The mutex was free; the scan starts at the first descriptor.
LEMMA ExpireTryInv == ASSUME IInv, NEW t \in Threads, ExpireTry(t) PROVE IInv'
<1>1. /\ pc[t] = "idle" /\ fd_lock = None
      /\ \A u \in Threads : pc'[u] = IF u = t THEN "scan" ELSE pc[u]
      /\ fd_lock' = t
      /\ \A u \in Threads : cur'[u] = IF u = t THEN FirstFd ELSE cur[u]
      /\ UNCHANGED <<open, shut, max_fd, mapped, slot_fd, fd_type, expiring, live,
                     seen>>
  BY FdAssumption DEF ExpireTry, Goto, IInv, TypeOK, kernelVars, mapVars
<1>2. TypeOK'
  BY <1>1, FdAssumption DEF ExpireTry, Goto, IInv, TypeOK, FDs, PcValues,
     kernelVars, mapVars
<1>3. Owned'
  BY <1>1, Sorts DEF IInv, Owned, Owns
<1>4. Typed'
  BY <1>1, Sorts DEF IInv, Typed
<1>5. Locks'
  BY <1>1, Sorts DEF IInv, Locks
<1>6. Mapped'
  BY <1>1, Sorts DEF IInv, Mapped
<1>7. Examined'
  BY <1>1, Sorts DEF IInv, Examined
<1>. QED
  BY <1>2, <1>3, <1>4, <1>5, <1>6, <1>7 DEF IInv

\* ExpireBusy.  The thread only waits.
LEMMA ExpireBusyInv == ASSUME IInv, NEW t \in Threads, ExpireBusy(t) PROVE IInv'
<1>1. /\ pc[t] = "idle"
      /\ \A u \in Threads : pc'[u] = IF u = t THEN "sleep" ELSE pc[u]
      /\ UNCHANGED <<open, shut, max_fd, mapped, slot_fd, fd_type, expiring,
                     fd_lock, live, cur, seen>>
  BY FdAssumption DEF ExpireBusy, Goto, IInv, TypeOK, kernelVars, mapVars
<1>2. TypeOK'
  BY <1>1, FdAssumption DEF ExpireBusy, Goto, IInv, TypeOK, FDs, PcValues,
     kernelVars, mapVars
<1>3. Owned'
  BY <1>1, Sorts DEF IInv, Owned, Owns
<1>4. Typed'
  BY <1>1, Sorts DEF IInv, Typed
<1>5. Locks'
  BY <1>1, Sorts DEF IInv, Locks
<1>6. Mapped'
  BY <1>1, Sorts DEF IInv, Mapped
<1>7. Examined'
  BY <1>1, Sorts DEF IInv, Examined
<1>. QED
  BY <1>2, <1>3, <1>4, <1>5, <1>6, <1>7 DEF IInv

\* ExpireSleep.  The wait is over.
LEMMA ExpireSleepInv == ASSUME IInv, NEW t \in Threads, ExpireSleep(t) PROVE IInv'
<1>1. /\ pc[t] = "sleep"
      /\ \A u \in Threads : pc'[u] = IF u = t THEN "idle" ELSE pc[u]
      /\ UNCHANGED <<open, shut, max_fd, mapped, slot_fd, fd_type, expiring,
                     fd_lock, live, cur, seen>>
  BY FdAssumption DEF ExpireSleep, Goto, IInv, TypeOK, kernelVars, mapVars
<1>2. TypeOK'
  BY <1>1, FdAssumption DEF ExpireSleep, Goto, IInv, TypeOK, FDs, PcValues,
     kernelVars, mapVars
<1>3. Owned'
  BY <1>1, Sorts DEF IInv, Owned, Owns
<1>4. Typed'
  BY <1>1, Sorts DEF IInv, Typed
<1>5. Locks'
  BY <1>1, Sorts DEF IInv, Locks
<1>6. Mapped'
  BY <1>1, Sorts DEF IInv, Mapped
<1>7. Examined'
  BY <1>1, Sorts DEF IInv, Examined
<1>. QED
  BY <1>2, <1>3, <1>4, <1>5, <1>6, <1>7 DEF IInv

\* Scan.  The slot's spin lock was free.
LEMMA ScanInv == ASSUME IInv, NEW t \in Threads, Scan(t) PROVE IInv'
<1>1. /\ pc[t] = "scan" /\ expiring[cur[t]] = None
      /\ \A u \in Threads : pc'[u] = IF u = t THEN "look" ELSE pc[u]
      /\ cur[t] < max_fd /\ cur[t] \in FDs
      /\ \A g \in FDs : expiring'[g] = IF g = cur[t] THEN t ELSE expiring[g]
      /\ UNCHANGED <<open, shut, max_fd, mapped, slot_fd, fd_type, fd_lock, live,
                     cur, seen>>
  BY FdAssumption DEF Scan, Goto, IInv, TypeOK, kernelVars, mapVars
<1>2. TypeOK'
  BY <1>1, FdAssumption DEF Scan, Goto, IInv, TypeOK, FDs, PcValues, kernelVars, mapVars
<1>3. Owned'
  BY <1>1, Sorts DEF IInv, Owned, Owns
<1>4. Typed'
  BY <1>1, Sorts DEF IInv, Typed
<1>5. Locks'
  BY <1>1, Sorts DEF IInv, Locks
<1>6. Mapped'
  BY <1>1, Sorts DEF IInv, Mapped
<1>7. Examined'
  BY <1>1, Sorts DEF IInv, Examined
<1>. QED
  BY <1>2, <1>3, <1>4, <1>5, <1>6, <1>7 DEF IInv

\* ScanLocked.  The scan passes a slot that its owner has locked.
LEMMA ScanLockedInv == ASSUME IInv, NEW t \in Threads, ScanLocked(t) PROVE IInv'
<1>1. /\ pc[t] = "scan" /\ cur[t] \in FDs
      /\ \A u \in Threads : pc'[u] = IF u = t THEN "scan" ELSE pc[u]
      /\ \A u \in Threads : cur'[u] = IF u = t THEN cur[t] + 1 ELSE cur[u]
      /\ UNCHANGED <<open, shut, max_fd, mapped, slot_fd, fd_type, expiring,
                     fd_lock, live, seen>>
  BY FdAssumption DEF ScanLocked, Goto, IInv, TypeOK, kernelVars, mapVars
<1>2. TypeOK'
  <2>1. cur' \in [Threads -> FirstFd .. NFds]
    <3>1. cur[t] + 1 \in FirstFd .. NFds
      BY <1>1, FdAssumption DEF FDs
    <3>. QED
      BY <3>1 DEF ScanLocked, IInv, TypeOK
  <2>2. pc' \in [Threads -> PcValues]
    BY DEF ScanLocked, Goto, IInv, TypeOK, PcValues
  <2>. QED
    BY <1>1, <2>1, <2>2 DEF IInv, TypeOK
<1>3. Owned'
  BY <1>1, Sorts, SMTT(20) DEF IInv, Owned, Owns
<1>4. Typed'
  BY <1>1, Sorts DEF IInv, Typed
<1>5. Locks'
  BY <1>1, Sorts DEF IInv, Locks
<1>6. Mapped'
  BY <1>1, Sorts DEF IInv, Mapped
<1>7. Examined'
  BY <1>1, Sorts DEF IInv, Examined
<1>. QED
  BY <1>2, <1>3, <1>4, <1>5, <1>6, <1>7 DEF IInv

\* Look.  A slot with a type is open.
LEMMA LookInv == ASSUME IInv, NEW t \in Threads, Look(t) PROVE IInv'
<1>1. /\ pc[t] = "look" /\ fd_type[cur[t]] = "HTTP"
      /\ \A u \in Threads : pc'[u] = IF u = t THEN "shutdown" ELSE pc[u]
      /\ \A u \in Threads : seen'[u] = IF u = t THEN open[cur[t]] ELSE seen[u]
      /\ UNCHANGED <<open, shut, max_fd, mapped, slot_fd, fd_type, expiring,
                     fd_lock, live, cur>>
  BY FdAssumption DEF Look, Goto, IInv, TypeOK, kernelVars, mapVars
<1>2. TypeOK'
  BY <1>1, FdAssumption DEF Look, Goto, IInv, TypeOK, FDs, PcValues,
     kernelVars, mapVars, Mapped, Typed
<1>3. Owned'
  BY <1>1, Sorts DEF IInv, Owned, Owns
<1>4. Typed'
  BY <1>1, Sorts DEF IInv, Typed
<1>5. Locks'
  BY <1>1, Sorts DEF IInv, Locks
<1>6. Mapped'
  BY <1>1, Sorts DEF IInv, Mapped
<1>7. Examined'
  BY <1>1, Sorts DEF IInv, Examined, Typed, Mapped
<1>. QED
  BY <1>2, <1>3, <1>4, <1>5, <1>6, <1>7 DEF IInv

\* LookOther.  The scan unlocks the slot and passes it.
LEMMA LookOtherInv == ASSUME IInv, NEW t \in Threads, LookOther(t) PROVE IInv'
<1>1. /\ pc[t] = "look"
      /\ \A u \in Threads : pc'[u] = IF u = t THEN "scan" ELSE pc[u]
      /\ \A g \in FDs : expiring'[g] = IF g = cur[t] THEN None ELSE expiring[g]
      /\ \A u \in Threads : cur'[u] = IF u = t THEN cur[t] + 1 ELSE cur[u]
      /\ UNCHANGED <<open, shut, max_fd, mapped, slot_fd, fd_type, fd_lock, live,
                     seen>>
  BY FdAssumption DEF LookOther, Passed, Goto, IInv, TypeOK, kernelVars, mapVars
<1>2. TypeOK'
  BY <1>1, FdAssumption DEF LookOther, Passed, Goto, IInv, TypeOK, FDs, PcValues,
     kernelVars, mapVars, Mapped
<1>3. Owned'
  BY <1>1, Sorts DEF IInv, Owned, Owns
<1>4. Typed'
  BY <1>1, Sorts DEF IInv, Typed
<1>5. Locks'
  BY <1>1, Sorts DEF IInv, Locks, Mapped
<1>6. Mapped'
  BY <1>1, Sorts DEF IInv, Mapped
<1>7. Examined'
  BY <1>1, Sorts DEF IInv, Examined
<1>. QED
  BY <1>2, <1>3, <1>4, <1>5, <1>6, <1>7 DEF IInv

\* Shutdown.  The socket that was examined is still the descriptor's.
LEMMA ShutdownInv == ASSUME IInv, NEW t \in Threads, Shutdown(t) PROVE IInv'
<1>1. /\ pc[t] = "shutdown"
      /\ \A u \in Threads : pc'[u] = IF u = t THEN "scan" ELSE pc[u]
      /\ shut' = shut \cup {open[cur[t]]}
      /\ \A g \in FDs : expiring'[g] = IF g = cur[t] THEN None ELSE expiring[g]
      /\ \A u \in Threads : cur'[u] = IF u = t THEN cur[t] + 1 ELSE cur[u]
      /\ \A u \in Threads : seen'[u] = IF u = t THEN None ELSE seen[u]
      /\ UNCHANGED <<open, max_fd, mapped, slot_fd, fd_type, fd_lock, live>>
  BY FdAssumption DEF Shutdown, Passed, Goto, IInv, TypeOK, kernelVars, mapVars
<1>2. TypeOK'
  BY <1>1, FdAssumption, SMTT(20) DEF Shutdown, Passed, Goto, IInv, TypeOK, FDs, PcValues,
     kernelVars, mapVars, Mapped, Typed, Examined
<1>3. Owned'
  BY <1>1, Sorts DEF IInv, Owned, Owns
<1>4. Typed'
  BY <1>1, Sorts DEF IInv, Typed
<1>5. Locks'
  BY <1>1, Sorts DEF IInv, Locks, Mapped
<1>6. Mapped'
  BY <1>1, Sorts DEF IInv, Mapped
<1>7. Examined'
  BY <1>1, Sorts DEF IInv, Examined, Typed, Mapped
<1>. QED
  BY <1>2, <1>3, <1>4, <1>5, <1>6, <1>7 DEF IInv

\* LookFails.  The slot stays locked for the warning.
LEMMA LookFailsInv == ASSUME IInv, NEW t \in Threads, LookFails(t) PROVE IInv'
<1>1. /\ pc[t] = "look"
      /\ \A u \in Threads : pc'[u] = IF u = t THEN "warn" ELSE pc[u]
      /\ UNCHANGED <<open, shut, max_fd, mapped, slot_fd, fd_type, expiring,
                     fd_lock, live, cur, seen>>
  BY FdAssumption DEF LookFails, Goto, IInv, TypeOK, kernelVars, mapVars
<1>2. TypeOK'
  BY <1>1, FdAssumption DEF LookFails, Goto, IInv, TypeOK, FDs, PcValues,
     kernelVars, mapVars
<1>3. Owned'
  BY <1>1, Sorts DEF IInv, Owned, Owns
<1>4. Typed'
  BY <1>1, Sorts DEF IInv, Typed
<1>5. Locks'
  BY <1>1, Sorts DEF IInv, Locks
<1>6. Mapped'
  BY <1>1, Sorts DEF IInv, Mapped
<1>7. Examined'
  BY <1>1, Sorts DEF IInv, Examined
<1>. QED
  BY <1>2, <1>3, <1>4, <1>5, <1>6, <1>7 DEF IInv

\* ShutdownFails.  So it does here.
LEMMA ShutdownFailsInv == ASSUME IInv, NEW t \in Threads, ShutdownFails(t) PROVE IInv'
<1>1. /\ pc[t] = "shutdown"
      /\ \A u \in Threads : pc'[u] = IF u = t THEN "warn" ELSE pc[u]
      /\ \A u \in Threads : seen'[u] = IF u = t THEN None ELSE seen[u]
      /\ UNCHANGED <<open, shut, max_fd, mapped, slot_fd, fd_type, expiring,
                     fd_lock, live, cur>>
  BY FdAssumption DEF ShutdownFails, Goto, IInv, TypeOK, kernelVars, mapVars
<1>2. TypeOK'
  BY <1>1, FdAssumption, SMTT(20) DEF ShutdownFails, Goto, IInv, TypeOK, FDs, PcValues,
     kernelVars, mapVars
<1>3. Owned'
  BY <1>1, Sorts DEF IInv, Owned, Owns
<1>4. Typed'
  BY <1>1, Sorts DEF IInv, Typed
<1>5. Locks'
  BY <1>1, Sorts DEF IInv, Locks
<1>6. Mapped'
  BY <1>1, Sorts DEF IInv, Mapped
<1>7. Examined'
  BY <1>1, Sorts DEF IInv, Examined
<1>. QED
  BY <1>2, <1>3, <1>4, <1>5, <1>6, <1>7 DEF IInv

\* Warned.  The scan unlocks the slot and passes it.
LEMMA WarnedInv == ASSUME IInv, NEW t \in Threads, Warned(t) PROVE IInv'
<1>1. /\ pc[t] = "warn"
      /\ \A u \in Threads : pc'[u] = IF u = t THEN "scan" ELSE pc[u]
      /\ \A g \in FDs : expiring'[g] = IF g = cur[t] THEN None ELSE expiring[g]
      /\ \A u \in Threads : cur'[u] = IF u = t THEN cur[t] + 1 ELSE cur[u]
      /\ UNCHANGED <<open, shut, max_fd, mapped, slot_fd, fd_type, fd_lock, live,
                     seen>>
  BY FdAssumption DEF Warned, Passed, Goto, IInv, TypeOK, kernelVars, mapVars
<1>2. TypeOK'
  BY <1>1, FdAssumption, SMTT(20) DEF Warned, Passed, Goto, IInv, TypeOK, FDs, PcValues,
     kernelVars, mapVars, Mapped
<1>3. Owned'
  BY <1>1, Sorts DEF IInv, Owned, Owns
<1>4. Typed'
  BY <1>1, Sorts DEF IInv, Typed
<1>5. Locks'
  BY <1>1, Sorts DEF IInv, Locks, Mapped
<1>6. Mapped'
  BY <1>1, Sorts DEF IInv, Mapped
<1>7. Examined'
  BY <1>1, Sorts DEF IInv, Examined
<1>. QED
  BY <1>2, <1>3, <1>4, <1>5, <1>6, <1>7 DEF IInv

\* ScanEnd.  No slot is locked any more.
LEMMA ScanEndInv == ASSUME IInv, NEW t \in Threads, ScanEnd(t) PROVE IInv'
<1>1. /\ pc[t] = "scan"
      /\ \A u \in Threads : pc'[u] = IF u = t THEN "log" ELSE pc[u]
      /\ UNCHANGED <<open, shut, max_fd, mapped, slot_fd, fd_type, expiring,
                     fd_lock, live, cur, seen>>
  BY FdAssumption DEF ScanEnd, Goto, IInv, TypeOK, kernelVars, mapVars
<1>2. TypeOK'
  BY <1>1, FdAssumption DEF ScanEnd, Goto, IInv, TypeOK, FDs, PcValues,
     kernelVars, mapVars
<1>3. Owned'
  BY <1>1, Sorts DEF IInv, Owned, Owns
<1>4. Typed'
  BY <1>1, Sorts DEF IInv, Typed
<1>5. Locks'
  BY <1>1, Sorts DEF IInv, Locks
<1>6. Mapped'
  BY <1>1, Sorts DEF IInv, Mapped
<1>7. Examined'
  BY <1>1, Sorts DEF IInv, Examined
<1>. QED
  BY <1>2, <1>3, <1>4, <1>5, <1>6, <1>7 DEF IInv

\* Cancel.  The locks stay as they are: the cancelled thread keeps them.
LEMMA CancelInv == ASSUME IInv, NEW t \in Threads, Cancel(t) PROVE IInv'
<1>1. /\ pc[t] \in {"warn", "log"}
      /\ \A u \in Threads :
             pc'[u] = IF u = t THEN (IF pc[t] = "warn" THEN "warn_cancelled"
                                                       ELSE "log_cancelled")
                               ELSE pc[u]
      /\ UNCHANGED <<open, shut, max_fd, mapped, slot_fd, fd_type, expiring,
                     fd_lock, live, cur, seen>>
  BY FdAssumption DEF Cancel, Goto, IInv, TypeOK, kernelVars, mapVars
<1>2. TypeOK'
  BY <1>1, FdAssumption, SMTT(20) DEF Cancel, Goto, IInv, TypeOK, FDs, PcValues,
     kernelVars, mapVars
<1>3. Owned'
  BY <1>1, Sorts DEF IInv, Owned, Owns
<1>4. Typed'
  BY <1>1, Sorts DEF IInv, Typed
<1>5. Locks'
  BY <1>1, Sorts DEF IInv, Locks
<1>6. Mapped'
  BY <1>1, Sorts DEF IInv, Mapped
<1>7. Examined'
  BY <1>1, Sorts DEF IInv, Examined
<1>. QED
  BY <1>2, <1>3, <1>4, <1>5, <1>6, <1>7 DEF IInv

\* ExpireDone.  The mutex is released.
LEMMA ExpireDoneInv == ASSUME IInv, NEW t \in Threads, ExpireDone(t) PROVE IInv'
<1>1. /\ pc[t] \in {"log", "scan"}
      /\ \A u \in Threads : pc'[u] = IF u = t THEN "idle" ELSE pc[u]
      /\ fd_lock' = None
      /\ \A u \in Threads : cur'[u] = IF u = t THEN FirstFd ELSE cur[u]
      /\ UNCHANGED <<open, shut, max_fd, mapped, slot_fd, fd_type, expiring, live,
                     seen>>
  BY FdAssumption DEF ExpireDone, Goto, IInv, TypeOK, kernelVars, mapVars
<1>2. TypeOK'
  BY <1>1, FdAssumption DEF ExpireDone, Goto, IInv, TypeOK, FDs, PcValues,
     kernelVars, mapVars
<1>3. Owned'
  BY <1>1, Sorts DEF IInv, Owned, Owns
<1>4. Typed'
  BY <1>1, Sorts DEF IInv, Typed
<1>5. Locks'
  BY <1>1, Sorts DEF IInv, Locks
<1>6. Mapped'
  BY <1>1, Sorts DEF IInv, Mapped
<1>7. Examined'
  BY <1>1, Sorts DEF IInv, Examined
<1>. QED
  BY <1>2, <1>3, <1>4, <1>5, <1>6, <1>7 DEF IInv

\* The steps of the model preserve IInv.
LEMMA StepInv == ASSUME IInv, [Next]_vars PROVE IInv'
<1>1. CASE UNCHANGED vars
  BY <1>1 DEF vars, kernelVars, mapVars, IInv, TypeOK, Owned, Owns, Typed, Locks, Mapped,
              Examined
<1>. QED
  BY <1>1, OpenInv, FdGetInv, GrowLockInv, GrowHeapInv, GrowPublishInv, GrowDoneInv, SMTT(20),
     InitLockInv, InitTypeInv, PutInv, PutLockInv, PutTypeInv, CloseInv,
     ExpireTryInv, ExpireBusyInv,
     ExpireSleepInv, ScanInv, ScanLockedInv, ScanEndInv, LookInv, LookFailsInv,
     LookOtherInv, ShutdownInv, ShutdownFailsInv, WarnedInv, ExpireDoneInv, CancelInv
     DEF Next, Step

\* IInv holds initially and in every reachable state.
THEOREM Invariance == Spec => []IInv
<1>1. Init => IInv
  BY FdAssumption DEF Init, IInv, FDs, TypeOK, PcValues, Owned, Owns, Typed, Locks, Mapped,
                      Examined
<1>. QED
  BY <1>1, StepInv, PTL DEF Spec

\* Lookups without a lock find initialised slots.
THEOREM SlotReadyAlways == Spec => []SlotReady
<1>1. IInv => SlotReady
  BY DEF IInv, TypeOK, Mapped, SlotReady, Touches
<1>. QED
  BY <1>1, Invariance, PTL

\* Growing the map disturbs no slot in use.
THEOREM LiveKeptAlways == Spec => []LiveKept
<1>1. IInv => LiveKept
  BY DEF IInv, Owned, Typed, LiveKept
<1>. QED
  BY <1>1, Invariance, PTL

\* mog_fdmap_expire shuts down the connection it examined, and no other.
THEOREM ShutdownRightAlways == Spec => []ShutdownRight
<1>1. IInv => ShutdownRight
  BY DEF IInv, TypeOK, Mapped, Typed, Examined, ShutdownRight
<1>. QED
  BY <1>1, Invariance, PTL

\* It examines open HTTP connections only.
THEOREM SockoptRightAlways == Spec => []SockoptRight
<1>1. IInv => SockoptRight
  BY DEF IInv, TypeOK, Mapped, Typed, SockoptRight
<1>. QED
  BY <1>1, Invariance, PTL
=============================================================================
