-------------------------- MODULE FsckQueueProofs --------------------------
(***************************************************************************)
(* IInv is an invariant of FsckQueue for any number of clients, devices,   *)
(* slots and threads.                                                      *)
(*                                                                         *)
(* For each action the proof first says what becomes of the clients that   *)
(* hold a slot and of those on their way back to ask for one.  SlotCount   *)
(* and NoIdleSlot then follow by counting, the other conjuncts directly.   *)
(***************************************************************************)
EXTENDS FsckQueue, TLAPS, FiniteSetTheorems

\* The bounds alone.
LEMMA Bounds ==
    MaxActive \in Nat /\ 1 <= MaxActive /\ SizeMax \in Nat /\ MaxActive <= SizeMax
BY FsckAssumption

\* The types of what concerns clients and their place in the queues.
LEMMA Sorts ==
    ASSUME TypeOK
    PROVE  /\ at \in [Clients -> {"idle", "ready", "slot", "noslot", "next", "parked",
                                  "handoff", "closed"}]
           /\ prio \in [Clients -> {"NONE", "FSCK"}]
           /\ dev \in [Clients -> Devices \cup {None}] /\ None \notin Devices
           /\ next_mgmt \in [Clients -> Clients] /\ released \subseteq Clients
BY FsckAssumption DEF TypeOK

\* Taking an element out of a finite set removes at most one.
LEMMA RemoveOne ==
    ASSUME NEW S, NEW x, NEW T, T = S \ {x}, IsFiniteSet(S)
    PROVE  /\ Cardinality(S) \in Nat /\ Cardinality(T) \in Nat
           /\ Cardinality(S) - 1 <= Cardinality(T)
           /\ x \in S => Cardinality(T) = Cardinality(S) - 1
<1>1. /\ IsFiniteSet(T)
      /\ Cardinality(T) = IF x \in S THEN Cardinality(S) - 1 ELSE Cardinality(S)
  BY FS_RemoveElement, Zenon
<1>2. Cardinality(S) \in Nat /\ Cardinality(T) \in Nat
  BY <1>1, FS_CardinalityType
<1>. QED
  BY <1>1, <1>2

\* Sets of clients are finite.
LEMMA Countable ==
    ASSUME TypeOK, TypeOK', NEW d
    PROVE  /\ IsFiniteSet(Slots(d)) /\ Cardinality(Slots(d)) \in Nat
           /\ IsFiniteSet(Released(d)) /\ Cardinality(Released(d)) \in Nat
           /\ IsFiniteSet(Slots(d)') /\ Cardinality(Slots(d)') \in Nat
           /\ IsFiniteSet(Released(d)') /\ Cardinality(Released(d)') \in Nat
<1>1. /\ Slots(d) \subseteq Clients /\ Released(d) \subseteq Clients
      /\ Slots(d)' \subseteq Clients /\ Released(d)' \subseteq Clients
  BY DEF TypeOK, Slots, Released
<1>. QED
  BY <1>1, FiniteClients, FS_Subset, FS_CardinalityType, Zenon

\* Steps that leave slots and queues alone leave the counts alone.
LEMMA CountsKept ==
    ASSUME SlotCount, NoIdleSlot,
           \A d \in Devices : Slots(d)' = Slots(d) /\ Released(d)' = Released(d),
           active' = active, qhead' = qhead, fstatFailed' = fstatFailed,
           stalled' = stalled, phase' # "quit" => phase # "quit"
    PROVE  SlotCount' /\ NoIdleSlot'
BY DEF SlotCount, NoIdleSlot

\* A step that concerns one device: the counts of the others stay.
LEMMA CountsOfOne ==
    ASSUME SlotCount, NoIdleSlot, NEW d \in Devices,
           \A e \in Devices : e # d =>
               /\ Slots(e)' = Slots(e) /\ Released(e)' = Released(e)
               /\ active'[e] = active[e] /\ qhead'[e] = qhead[e],
           fstatFailed' = fstatFailed, phase' = phase, stalled \subseteq stalled' \cup {d},
           ~fstatFailed => active'[d] = Cardinality(Slots(d)') /\ active'[d] <= MaxActive,
           ~fstatFailed /\ phase # "quit" /\ d \notin stalled' /\ qhead'[d] # <<>> =>
               active'[d] + Cardinality(Released(d)') >= MaxActive
    PROVE  SlotCount' /\ NoIdleSlot'
BY DEF SlotCount, NoIdleSlot

\* Queues and the devices of parked clients stay: so does QueueExact.
LEMMA QueueKept ==
    ASSUME TypeOK, QueueExact, qhead' = qhead, phase' = phase,
           \A c \in Clients : at'[c] = "parked" <=> at[c] = "parked",
           \A c \in Clients : at[c] = "parked" => dev'[c] = dev[c]
    PROVE  QueueExact'
<1>. SUFFICES ASSUME phase # "quit" PROVE QueueExact'
  BY DEF QueueExact
<1>1. \A d \in Devices : \A i \in DOMAIN qhead[d] : qhead[d][i] \in Clients
  BY DEF TypeOK
<1>. QED
  BY <1>1 DEF QueueExact

\* A request: the client was idle, so it held nothing.
LEMMA RequestInv ==
    ASSUME IInv, NEW c \in Clients, NEW fsck \in BOOLEAN, NEW opens \in BOOLEAN,
           NEW d \in Devices, Request(c, fsck, d, opens)
    PROVE  IInv'
<1>. USE DEF IInv
<1>1. TypeOK'
  <2>1. prio' \in [Clients -> {"NONE", "FSCK"}]
    BY DEF TypeOK, Request, SetPrioFsck
  <2>2. dev' \in [Clients -> Devices \cup {None}]
    <3>1. dev' = dev \/ dev' = [dev EXCEPT ![c] = d]
      BY DEF Request
    <3>. QED
      BY <3>1, Zenon DEF TypeOK
  <2>3. at' = at \/ at' = [at EXCEPT ![c] = "ready"]
    BY DEF Request
  <2>4. at' \in [Clients -> {"idle", "ready", "slot", "noslot", "next", "parked",
                             "handoff", "closed"}]
    BY <2>3, Zenon DEF TypeOK
  <2>. QED
    BY <2>1, <2>2, <2>4, Zenon DEF TypeOK, Request
<1>2. \A e \in Devices : Slots(e)' = Slots(e) /\ Released(e)' = Released(e)
  BY DEF TypeOK, Request, Slots, Released, HandoffOk
<1>3. SlotCount' /\ NoIdleSlot'
  BY <1>2, CountsKept DEF Request
<1>4. QueueExact'
  BY QueueKept DEF Request, TypeOK
<1>5. FsckPrio' /\ QuitPrio'
  BY DEF TypeOK, Request, SetPrioFsck, FsckPrio, QuitPrio
<1>6. HandoffOk'
  <2>1. \A b \in Clients : b # c => prio'[b] = prio[b]
    BY DEF TypeOK, Request, SetPrioFsck
  <2>2. /\ at[c] = "idle" /\ next_mgmt' = next_mgmt /\ released' = released
        /\ fstatFailed' = fstatFailed
    BY DEF Request
  <2>3. \/ at' = at /\ dev' = dev
        \/ at' = [at EXCEPT ![c] = "ready"] /\ dev' = [dev EXCEPT ![c] = d]
    BY DEF Request
  <2>. QED
    BY <2>1, <2>2, <2>3, Sorts DEF HandoffOk
<1>. QED
  BY <1>1, <1>3, <1>4, <1>5, <1>6, Zenon

\* A connection that is closed was idle.
LEMMA CloseInv == ASSUME IInv, NEW c \in Clients, Close(c) PROVE IInv'
<1>. USE DEF IInv
<1>1. TypeOK'
  BY DEF TypeOK, Close
<1>2. \A e \in Devices : Slots(e)' = Slots(e) /\ Released(e)' = Released(e)
  BY DEF TypeOK, Close, Slots, Released
<1>3. SlotCount' /\ NoIdleSlot'
  BY <1>2, CountsKept, Zenon DEF Close
<1>4. QueueExact'
  BY QueueKept, Zenon DEF Close, TypeOK
<1>5. FsckPrio' /\ QuitPrio'
  BY Zenon DEF TypeOK, Close, FsckPrio, QuitPrio
<1>6. HandoffOk'
  BY DEF TypeOK, Close, HandoffOk
<1>. QED
  BY <1>1, <1>3, <1>4, <1>5, <1>6

\* A client that is dropped was not on its way back to ask for a slot.
LEMMA DropInv == ASSUME IInv, NEW c \in Clients, Drop(c) PROVE IInv'
<1>. USE DEF IInv
<1>1. /\ at[c] = "ready" /\ c \notin released
      /\ at' \in {[at EXCEPT ![c] = "idle"], [at EXCEPT ![c] = "closed"]}
      /\ prio' = [b \in Clients |-> IF b \in {c} THEN "NONE" ELSE prio[b]]
      /\ dev' = [b \in Clients |-> IF b \in {c} THEN None ELSE dev[b]]
      /\ UNCHANGED <<active, qhead, next_mgmt, released, fstatFailed, stalled, phase>>
  BY Zenon DEF Drop, NoDigest
<1>2. TypeOK'
  <2>1. /\ at' \in [Clients -> {"idle", "ready", "slot", "noslot", "next", "parked",
                                "handoff", "closed"}]
        /\ prio' \in [Clients -> {"NONE", "FSCK"}] /\ dev' \in [Clients -> Devices \cup {None}]
    BY <1>1, Sorts
  <2>. QED
    BY <1>1, <2>1, Zenon DEF TypeOK
<1>3. \A e \in Devices : Slots(e)' = Slots(e) /\ Released(e)' = Released(e)
  BY <1>1, Sorts DEF Slots, Released
<1>4. SlotCount' /\ NoIdleSlot'
  BY <1>1, <1>3, CountsKept, Zenon
<1>5. QueueExact'
  BY <1>1, QueueKept, Sorts
<1>6. FsckPrio' /\ QuitPrio'
  BY <1>1, Sorts DEF FsckPrio, QuitPrio
<1>7. HandoffOk'
  BY <1>1, Sorts DEF HandoffOk
<1>. QED
  BY <1>2, <1>4, <1>5, <1>6, <1>7, Zenon

\* A digest at normal priority: the client is not one on its way back to ask
\* for a slot, because that one has fsck priority.
LEMMA DigestNormalInv == ASSUME IInv, NEW c \in Clients, DigestNormal(c) PROVE IInv'
<1>. USE DEF IInv
<1>1. TypeOK'
  BY Zenon DEF TypeOK, DigestNormal, DigestDone
<1>2. \A e \in Devices : Slots(e)' = Slots(e) /\ Released(e)' = Released(e)
  BY FsckAssumption DEF TypeOK, DigestNormal, DigestDone, Slots, Released, HandoffOk
<1>3. SlotCount' /\ NoIdleSlot'
  BY <1>2, CountsKept, Zenon DEF DigestNormal
<1>4. QueueExact'
  BY QueueKept, Zenon DEF DigestNormal, DigestDone, TypeOK
<1>5. FsckPrio' /\ QuitPrio'
  BY Zenon DEF TypeOK, DigestNormal, DigestDone, FsckPrio, QuitPrio
<1>6. HandoffOk'
  BY DEF TypeOK, DigestNormal, DigestDone, HandoffOk
<1>. QED
  BY <1>1, <1>3, <1>4, <1>5, <1>6

\* Asking for a slot.
LEMMA ReadyInv == ASSUME IInv, NEW c \in Clients, FsckQueueReady(c) PROVE IInv'
<1>. USE DEF IInv
<1>a. /\ at[c] = "ready" /\ prio[c] = "FSCK" /\ released' = released \ {c}
      /\ UNCHANGED <<prio, dev, next_mgmt, phase>>
  BY DEF FsckQueueReady
<1>b. PICK d0 \in Devices : dev[c] = d0
  BY <1>a DEF TypeOK, HandoffOk
<1>q. phase # "quit"
  BY <1>a DEF QuitPrio
<1>c. /\ at' \in {[at EXCEPT ![c] = s] : s \in {"noslot", "slot", "parked"}}
      /\ at'[c] = "noslot" => fstatFailed'
      /\ fstatFailed' = fstatFailed \/ fstatFailed' = TRUE
  BY DEF FsckQueueReady, TypeOK
<1>d. /\ \/ active' = active
         \/ active[d0] < MaxActive /\ active' = [active EXCEPT ![d0] = @ + 1]
      /\ qhead' = qhead \/ qhead' = [qhead EXCEPT ![d0] = Append(@, c)]
      /\ stalled' = stalled \/ stalled' = stalled \ {d0}
  BY <1>b, Zenon DEF FsckQueueReady
<1>1. TypeOK'
  <2>1. active' \in [Devices -> 0 .. SizeMax]
    <3>1. active \in [Devices -> 0 .. SizeMax]
      BY DEF TypeOK
    <3>. QED
      BY <1>b, <1>d, <3>1, Bounds
  <2>2. qhead' \in [Devices -> Seq(Clients)]
    <3>1. qhead \in [Devices -> Seq(Clients)]
      BY DEF TypeOK
    <3>2. qhead[d0] \in Seq(Clients) /\ Append(qhead[d0], c) \in Seq(Clients)
      BY <1>b, <3>1
    <3>. QED
      BY <1>b, <1>d, <3>1, <3>2, Zenon
  <2>3. stalled' \subseteq Devices
    BY <1>d, Zenon DEF TypeOK
  <2>. QED
    BY <1>a, <1>c, <1>d, <2>1, <2>2, <2>3, ZenonT(40) DEF TypeOK
<1>2. /\ \A e \in Devices : Released(e)' = Released(e) \ {c}
      /\ \A e \in Devices : e # d0 => Released(e)' = Released(e) /\ Slots(e)' = Slots(e)
  BY <1>a, <1>b, <1>c DEF TypeOK, Released, Slots
<1>3. FsckPrio' /\ QuitPrio'
  BY <1>a, <1>q, <1>c, Zenon DEF TypeOK, FsckPrio, QuitPrio
<1>4. HandoffOk'
  BY <1>a, <1>b, <1>c, Sorts DEF HandoffOk
<1>5. CASE at'[c] = "noslot"
  <2>1. fstatFailed' /\ qhead' = qhead /\ phase' = phase
    BY <1>5, Zenon DEF FsckQueueReady, TypeOK
  <2>2. QueueExact'
    BY <1>5, <2>1, QueueKept, Zenon DEF FsckQueueReady, TypeOK
  <2>. QED
    BY <1>1, <1>3, <1>4, <2>1, <2>2, Zenon DEF SlotCount, NoIdleSlot
<1>e. active \in [Devices -> 0 .. SizeMax] /\ qhead \in [Devices -> Seq(Clients)]
  BY DEF TypeOK
<1>f. /\ Cardinality(Released(d0)) \in Nat /\ Cardinality(Released(d0)') \in Nat
      /\ Cardinality(Slots(d0)) \in Nat /\ IsFiniteSet(Slots(d0))
      /\ IsFiniteSet(Released(d0))
  BY <1>1, Countable
<1>6. CASE at'[c] = "slot"
  <2>1. /\ active' = [active EXCEPT ![d0] = @ + 1] /\ active[d0] < MaxActive
        /\ qhead' = qhead /\ fstatFailed' = fstatFailed /\ phase' = phase
        /\ stalled' = IF active[d0] + 1 < MaxActive THEN stalled ELSE stalled \ {d0}
    BY <1>6, <1>b DEF FsckQueueReady, TypeOK
  <2>2. QueueExact'
    BY <1>6, <2>1, QueueKept DEF FsckQueueReady, TypeOK
  <2>3. Slots(d0)' = Slots(d0) \cup {c} /\ c \notin Slots(d0)
    BY <1>6, <1>a, <1>b, <1>c DEF TypeOK, Slots
  <2>4. Cardinality(Slots(d0)') = Cardinality(Slots(d0)) + 1
    BY <2>3, <1>f, FS_AddElement, Zenon
  <2>5. Cardinality(Released(d0)) - 1 <= Cardinality(Released(d0)')
    BY <1>2, <1>f, RemoveOne, Zenon
  <2>6. active'[d0] = active[d0] + 1 /\ \A e \in Devices : e # d0 => active'[e] = active[e]
    BY <2>1, <1>e, Zenon
  <2>7. ~fstatFailed => active'[d0] = Cardinality(Slots(d0)') /\ active'[d0] <= MaxActive
    BY <2>1, <2>4, <2>6, <1>e, Bounds DEF SlotCount
  <2>8. ~fstatFailed /\ phase # "quit" /\ d0 \notin stalled' /\ qhead'[d0] # <<>> =>
            active'[d0] + Cardinality(Released(d0)') >= MaxActive
    BY <2>1, <2>5, <2>6, <1>e, <1>f, Bounds DEF NoIdleSlot
  <2>9. SlotCount' /\ NoIdleSlot'
    BY <1>2, <1>d, <2>1, <2>6, <2>7, <2>8, CountsOfOne, Zenon
  <2>. QED
    BY <1>1, <1>3, <1>4, <2>2, <2>9
<1>7. CASE at'[c] = "parked"
  <2>1. /\ active' = active /\ active[d0] >= MaxActive
        /\ qhead' = [qhead EXCEPT ![d0] = Append(@, c)]
        /\ fstatFailed' = fstatFailed /\ phase' = phase /\ dev' = dev
        /\ at' = [at EXCEPT ![c] = "parked"] /\ at[c] = "ready"
    BY <1>7, <1>b, Zenon DEF FsckQueueReady, TypeOK
  <2>2. \A e \in Devices : Slots(e)' = Slots(e)
    BY <2>1 DEF TypeOK, Slots
  <2>3. \A e \in Devices : e # d0 => qhead'[e] = qhead[e]
    BY <2>1, <1>e, Zenon
  <2>4. SlotCount' /\ NoIdleSlot'
    <3>1. ~fstatFailed => active'[d0] = Cardinality(Slots(d0)') /\ active'[d0] <= MaxActive
      BY <2>1, <2>2, Zenon DEF SlotCount
    <3>2. active'[d0] + Cardinality(Released(d0)') >= MaxActive
      BY <2>1, <1>e, <1>f, Bounds
    <3>. QED
      BY <1>2, <1>d, <2>1, <2>2, <2>3, <3>1, <3>2, CountsOfOne, Zenon
  <2>5. QueueExact'
    <3>. SUFFICES ASSUME phase # "quit" PROVE QueueExact'
      BY <2>1, Zenon DEF QueueExact
    <3>. DEFINE q == qhead[d0]
    <3>1. /\ q \in Seq(Clients) /\ Len(q) \in Nat
          /\ DOMAIN Append(q, c) = 1 .. Len(q) + 1 /\ DOMAIN q = 1 .. Len(q)
          /\ \A i \in 1 .. Len(q) : Append(q, c)[i] = q[i] /\ q[i] \in Clients
          /\ Append(q, c)[Len(q) + 1] = c
      BY <1>b DEF TypeOK
    <3>2. \A i \in 1 .. Len(q) : q[i] # c
      BY <1>b, <2>1, <3>1 DEF QueueExact
    <3>3. qhead'[d0] = Append(q, c) /\ \A e \in Devices : e # d0 => qhead'[e] = qhead[e]
      BY <1>b, <2>1, Zenon DEF TypeOK
    <3>4. ASSUME NEW b \in Clients, at'[b] = "parked"
          PROVE  \E i \in DOMAIN qhead'[dev'[b]] : qhead'[dev'[b]][i] = b
      <4>1. CASE b = c
        BY <1>b, <2>1, <3>1, <3>3, <4>1
      <4>2. CASE b # c
        <5>0. /\ at \in [Clients -> {"idle", "ready", "slot", "noslot", "next", "parked",
                                     "handoff", "closed"}]
              /\ dev[b] \in Devices \cup {None}
          BY SMTT(20) DEF TypeOK
        <5>h. dev[b] = None => at[b] \in {"idle", "closed"}
          BY SMTT(20) DEF HandoffOk
        <5>a. at[b] = "parked"
          BY <2>1, <3>4, <4>2, <5>0, Zenon
        <5>1. at[b] = "parked" /\ dev[b] \in Devices
          BY <5>0, <5>a, <5>h, SMTT(20)
        <5>2. PICK i \in DOMAIN qhead[dev[b]] : qhead[dev[b]][i] = b
          BY <5>1, Zenon DEF QueueExact
        <5>3. i \in DOMAIN qhead'[dev'[b]] /\ qhead'[dev'[b]][i] = b
          BY <2>1, <3>1, <3>3, <5>1, <5>2
        <5>. QED
          BY <5>3, Zenon
      <4>. QED
        BY <4>1, <4>2, Zenon
    <3>5. ASSUME NEW e \in Devices, NEW i \in DOMAIN qhead'[e]
          PROVE  /\ at'[qhead'[e][i]] = "parked" /\ dev'[qhead'[e][i]] = e
                 /\ \A j \in DOMAIN qhead'[e] : qhead'[e][i] = qhead'[e][j] => i = j
      <4>1. CASE e # d0
        <5>1. \A j \in DOMAIN qhead[e] : qhead[e][j] \in Clients /\ qhead[e][j] # c
          BY <2>1, SMTT(20) DEF QueueExact, TypeOK
        <5>2. \A j \in DOMAIN qhead[e] :
                 /\ at[qhead[e][j]] = "parked" /\ dev[qhead[e][j]] = e
                 /\ \A k \in DOMAIN qhead[e] : qhead[e][j] = qhead[e][k] => j = k
          BY Zenon DEF QueueExact
        <5>3. qhead'[e] = qhead[e] /\ dev' = dev
          BY <2>1, <3>3, <4>1, Zenon
        <5>4. \A b \in Clients : b # c => at'[b] = at[b]
          BY <2>1, SMTT(20) DEF TypeOK
        <5>. QED
          BY <3>5, <5>1, <5>2, <5>3, <5>4, ZenonT(20)
      <4>2. CASE e = d0
        BY <1>b, <2>1, <3>1, <3>2, <3>3, <4>2, SMTT(20) DEF QueueExact, TypeOK
      <4>. QED
        BY <4>1, <4>2, Zenon
    <3>. QED
      BY <3>4, <3>5, Zenon DEF QueueExact
  <2>. QED
    BY <1>1, <1>3, <1>4, <2>4, <2>5, Zenon
<1>. QED
  BY <1>5, <1>6, <1>7, Zenon DEF FsckQueueReady, TypeOK

\* Giving a slot back.  Three cases: fstat failed; nobody waits; the next
\* client is taken off the queue.
LEMMA NextInv == ASSUME IInv, NEW c \in Clients, FsckQueueNext(c) PROVE IInv'
<1>. USE DEF IInv
<1>a. /\ at[c] \in {"slot", "noslot"} /\ prio[c] = "FSCK"
      /\ phase' = phase /\ stalled' = stalled
  BY DEF FsckQueueNext, FsckPrio
<1>b. PICK d0 \in Devices : dev[c] = d0
  BY <1>a, Sorts DEF HandoffOk
<1>q. phase # "quit" /\ c \notin released
  BY <1>a, Zenon DEF QuitPrio, HandoffOk
<1>e. active \in [Devices -> 0 .. SizeMax] /\ qhead \in [Devices -> Seq(Clients)]
  BY DEF TypeOK
<1>n. /\ Decremented(active[d0]) \in 0 .. SizeMax
      /\ active[d0] # 0 => Decremented(active[d0]) = active[d0] - 1
  BY <1>e, Bounds DEF Decremented
<1>s. /\ Cardinality(Slots(d0)) \in Nat /\ IsFiniteSet(Slots(d0))
      /\ Cardinality(Released(d0)) \in Nat /\ IsFiniteSet(Released(d0))
  <2>1. Slots(d0) \subseteq Clients /\ Released(d0) \subseteq Clients
    BY Sorts, Zenon DEF Slots, Released
  <2>. QED
    BY <2>1, FiniteClients, FS_Subset, FS_CardinalityType, Zenon
<1>c. ASSUME ~fstatFailed
      PROVE  /\ c \in Slots(d0) /\ active[d0] = Cardinality(Slots(d0))
             /\ active[d0] # 0 /\ active[d0] <= MaxActive
  <2>1. c \in Slots(d0)
    BY <1>a, <1>b, <1>c, Zenon DEF HandoffOk, Slots
  <2>2. active[d0] = Cardinality(Slots(d0)) /\ active[d0] <= MaxActive
    BY <1>c DEF SlotCount
  <2>3. Cardinality(Slots(d0)) # 0
    BY <1>s, <2>1, FS_EmptySet, Zenon
  <2>. QED
    BY <2>1, <2>2, <2>3, Zenon
<1>1. CASE /\ fstatFailed' = TRUE /\ at' = [at EXCEPT ![c] = "idle"] /\ DigestDone(c)
           /\ UNCHANGED <<active, qhead, next_mgmt, released>>
  <2>1. TypeOK'
    BY <1>1, <1>a, <1>b, Zenon DEF TypeOK, DigestDone
  <2>2. QueueExact'
    BY <1>1, <1>a, QueueKept, Zenon DEF DigestDone, TypeOK
  <2>3. FsckPrio' /\ QuitPrio'
    BY <1>1, <1>a, <1>q, Sorts, Zenon DEF DigestDone, FsckPrio, QuitPrio
  <2>4. HandoffOk'
    BY <1>1, <1>a, <1>q, Sorts DEF DigestDone, HandoffOk
  <2>. QED
    BY <1>1, <2>1, <2>2, <2>3, <2>4, Zenon DEF SlotCount, NoIdleSlot
<1>2. CASE /\ active' = [active EXCEPT ![d0] = Decremented(active[d0])]
           /\ Decremented(active[d0]) >= MaxActive \/ qhead[d0] = <<>>
           /\ at' = [at EXCEPT ![c] = "idle"] /\ DigestDone(c)
           /\ UNCHANGED <<qhead, next_mgmt, released, fstatFailed>>
  <2>1. TypeOK'
    <3>1. active' \in [Devices -> 0 .. SizeMax]
      BY <1>2, <1>e, <1>n, Zenon
    <3>. QED
      BY <1>2, <1>a, <3>1, Zenon DEF TypeOK, DigestDone
  <2>2. QueueExact'
    BY <1>2, <1>a, QueueKept, Zenon DEF DigestDone, TypeOK
  <2>3. FsckPrio' /\ QuitPrio'
    BY <1>2, <1>a, <1>q, Sorts, Zenon DEF DigestDone, FsckPrio, QuitPrio
  <2>4. HandoffOk'
    BY <1>2, <1>a, <1>q, Sorts DEF DigestDone, HandoffOk
  <2>5. /\ Slots(d0)' = Slots(d0) \ {c}
        /\ \A e \in Devices : e # d0 => Slots(e)' = Slots(e)
        /\ \A e \in Devices : Released(e)' = Released(e)
    BY <1>2, <1>a, <1>b, <1>q, Sorts, Zenon DEF DigestDone, Slots, Released
  <2>6. /\ active'[d0] = Decremented(active[d0]) /\ qhead' = qhead
        /\ \A e \in Devices : e # d0 => active'[e] = active[e]
    BY <1>2, <1>e, Zenon
  <2>7. ASSUME ~fstatFailed
        PROVE  /\ active'[d0] = Cardinality(Slots(d0)') /\ active'[d0] <= MaxActive
               /\ qhead'[d0] = <<>>
    <3>1. Cardinality(Slots(d0)') = Cardinality(Slots(d0)) - 1
      BY <1>c, <1>s, <2>5, <2>7, RemoveOne, Zenon
    <3>2. active'[d0] = active[d0] - 1 /\ active[d0] <= MaxActive /\ active[d0] \in Nat
      BY <1>c, <1>e, <1>n, <2>6, <2>7
    <3>. QED
      BY <1>2, <1>c, <2>6, <2>7, <3>1, <3>2, Bounds
  <2>8. SlotCount' /\ NoIdleSlot'
    BY <1>2, <1>a, <2>5, <2>6, <2>7, CountsOfOne, Zenon
  <2>. QED
    BY <2>1, <2>2, <2>3, <2>4, <2>8, Zenon
<1>3. CASE /\ active' = [active EXCEPT ![d0] = Decremented(active[d0])]
           /\ Decremented(active[d0]) < MaxActive /\ qhead[d0] # <<>>
           /\ qhead' = [qhead EXCEPT ![d0] = Tail(@)]
           /\ next_mgmt' = [next_mgmt EXCEPT ![c] = Head(qhead[d0])]
           /\ at' = [at EXCEPT ![c] = "next", ![Head(qhead[d0])] = "handoff"]
           /\ released' = released \cup {Head(qhead[d0])}
           /\ UNCHANGED <<prio, dev, fstatFailed>>
  <2>. DEFINE q == qhead[d0]
  <2>1. /\ q \in Seq(Clients) /\ Len(q) \in Nat /\ 1 <= Len(q)
        /\ DOMAIN q = 1 .. Len(q) /\ DOMAIN Tail(q) = 1 .. Len(q) - 1
        /\ \A i \in 1 .. Len(q) : q[i] \in Clients
        /\ \A i \in 1 .. Len(q) - 1 : Tail(q)[i] = q[i + 1]
        /\ Head(q) = q[1] /\ Tail(q) \in Seq(Clients)
    BY <1>3, <1>e
  <2>2. PICK g \in Clients : g = q[1]
    BY <2>1
  <2>3. /\ at[g] = "parked" /\ dev[g] = d0 /\ g # c /\ prio[g] = "FSCK"
        /\ g \notin released
    BY <1>a, <1>q, <2>1, <2>2 DEF QueueExact, FsckPrio, HandoffOk
  <2>4. /\ at' = [at EXCEPT ![c] = "next", ![g] = "handoff"]
        /\ next_mgmt' = [next_mgmt EXCEPT ![c] = g]
        /\ released' = released \cup {g} /\ prio' = prio /\ dev' = dev
        /\ fstatFailed' = fstatFailed
    BY <1>3, <2>1, <2>2, Zenon
  <2>5. /\ active'[d0] = Decremented(active[d0]) /\ qhead'[d0] = Tail(q)
        /\ \A e \in Devices : e # d0 => active'[e] = active[e] /\ qhead'[e] = qhead[e]
    BY <1>3, <1>e
  <2>t. /\ DOMAIN qhead'[d0] = 1 .. Len(q) - 1
        /\ \A i \in 1 .. Len(q) - 1 : qhead'[d0][i] = q[i + 1]
    BY <2>1, <2>5, Zenon
  <2>6. TypeOK'
    <3>1. active' \in [Devices -> 0 .. SizeMax]
      BY <1>3, <1>e, <1>n
    <3>2. qhead' \in [Devices -> Seq(Clients)]
      BY <1>3, <1>e, <2>1
    <3>3. /\ at' \in [Clients -> {"idle", "ready", "slot", "noslot", "next", "parked",
                                  "handoff", "closed"}]
          /\ next_mgmt' \in [Clients -> Clients] /\ released' \subseteq Clients
      BY <2>4, Sorts
    <3>. QED
      BY <1>3, <1>a, <3>1, <3>2, <3>3, Zenon DEF TypeOK
  <2>7. FsckPrio' /\ QuitPrio'
    BY <1>a, <1>q, <2>3, <2>4, Sorts DEF FsckPrio, QuitPrio
  <2>8. HandoffOk'
    BY <1>a, <1>b, <1>q, <2>3, <2>4, Sorts DEF HandoffOk
  <2>9. /\ Slots(d0)' = Slots(d0) \ {c}
        /\ Released(d0)' = Released(d0) \cup {g} /\ g \notin Released(d0)
        /\ \A e \in Devices : e # d0 => Slots(e)' = Slots(e) /\ Released(e)' = Released(e)
    BY <1>a, <1>b, <2>3, <2>4, Sorts DEF Slots, Released
  <2>10. ASSUME ~fstatFailed
         PROVE  /\ active'[d0] = Cardinality(Slots(d0)') /\ active'[d0] <= MaxActive
                /\ d0 \notin stalled =>
                       active'[d0] + Cardinality(Released(d0)') >= MaxActive
    <3>1. Cardinality(Slots(d0)') = Cardinality(Slots(d0)) - 1
      BY <1>c, <1>s, <2>9, <2>10, RemoveOne, Zenon
    <3>2. Cardinality(Released(d0)') = Cardinality(Released(d0)) + 1
      BY <1>s, <2>9, FS_AddElement, Zenon
    <3>3. active'[d0] = active[d0] - 1 /\ active[d0] <= MaxActive /\ active[d0] \in Nat
      BY <1>c, <1>e, <1>n, <2>5, <2>10
    <3>4. d0 \notin stalled => active[d0] + Cardinality(Released(d0)) >= MaxActive
      BY <1>3, <1>q, <2>10 DEF NoIdleSlot
    <3>. QED
      BY <1>c, <1>s, <2>10, <3>1, <3>2, <3>3, <3>4, Bounds
  <2>11. SlotCount' /\ NoIdleSlot'
    BY <1>a, <2>4, <2>5, <2>9, <2>10, CountsOfOne, Zenon
  <2>12. QueueExact'
    <3>1. ASSUME NEW b \in Clients, at'[b] = "parked"
          PROVE  \E i \in DOMAIN qhead'[dev'[b]] : qhead'[dev'[b]][i] = b
      <4>1. at[b] = "parked" /\ b # g /\ dev[b] \in Devices /\ dev'[b] = dev[b]
        BY <1>a, <2>3, <2>4, <3>1, Sorts DEF HandoffOk
      <4>2. PICK i \in DOMAIN qhead[dev[b]] : qhead[dev[b]][i] = b
        BY <1>q, <4>1, Zenon DEF QueueExact
      <4>3. CASE dev[b] = d0
        <5>1. i \in 2 .. Len(q) /\ i - 1 \in 1 .. Len(q) - 1 /\ qhead'[d0][i - 1] = b
          BY <2>1, <2>2, <2>t, <4>1, <4>2, <4>3
        <5>. QED
          BY <2>t, <4>1, <4>3, <5>1, Zenon
      <4>. QED
        BY <2>5, <4>1, <4>2, <4>3
    <3>2. ASSUME NEW e \in Devices, NEW i \in DOMAIN qhead'[e]
          PROVE  /\ at'[qhead'[e][i]] = "parked" /\ dev'[qhead'[e][i]] = e
                 /\ \A j \in DOMAIN qhead'[e] : qhead'[e][i] = qhead'[e][j] => i = j
      <4>1. \A b \in Clients : at[b] = "parked" /\ b # g => at'[b] = "parked"
        BY <1>a, <2>4, Sorts, Zenon
      <4>2. CASE e # d0
        <5>1. \A j \in DOMAIN qhead[e] : qhead[e][j] \in Clients /\ qhead[e][j] # g
          BY <1>e, <1>q, <2>3, <4>2 DEF QueueExact
        <5>2. \A j \in DOMAIN qhead[e] :
                 /\ at[qhead[e][j]] = "parked" /\ dev[qhead[e][j]] = e
                 /\ \A k \in DOMAIN qhead[e] : qhead[e][j] = qhead[e][k] => j = k
          BY <1>q, Zenon DEF QueueExact
        <5>3. qhead'[e] = qhead[e] /\ dev' = dev
          BY <2>4, <2>5, <4>2, Zenon
        <5>. QED
          BY <3>2, <4>1, <5>1, <5>2, <5>3, Zenon
      <4>3. CASE e = d0
        <5>1. i \in 1 .. Len(q) - 1 /\ i + 1 \in 1 .. Len(q) /\ qhead'[e][i] = q[i + 1]
          BY <2>1, <2>t, <3>2, <4>3, SMTT(20)
        <5>2. q[i + 1] \in Clients /\ q[i + 1] # g /\ at[q[i + 1]] = "parked"
              /\ dev[q[i + 1]] = d0
          BY <1>q, <2>1, <2>2, <5>1 DEF QueueExact
        <5>3. ASSUME NEW j \in DOMAIN qhead'[e], qhead'[e][i] = qhead'[e][j]
              PROVE  i = j
          <6>0. j \in 1 .. Len(q) - 1 /\ qhead'[e][j] = q[j + 1]
            BY <2>t, <4>3, <5>3, Zenon
          <6>1. j + 1 \in 1 .. Len(q) /\ q[i + 1] = q[j + 1]
            BY <2>1, <5>1, <5>3, <6>0
          <6>2. i + 1 = j + 1
            BY <1>q, <2>1, <5>1, <6>1 DEF QueueExact
          <6>. QED
            BY <5>1, <6>0, <6>2
        <5>. QED
          BY <2>4, <4>1, <4>3, <5>1, <5>2, <5>3, Zenon
      <4>. QED
        BY <4>2, <4>3, Zenon
    <3>. QED
      BY <3>1, <3>2 DEF QueueExact
  <2>. QED
    BY <2>6, <2>7, <2>8, <2>11, <2>12
<1>. QED
  <2>1. \/ /\ fstatFailed' = TRUE /\ at' = [at EXCEPT ![c] = "idle"] /\ DigestDone(c)
           /\ UNCHANGED <<active, qhead, next_mgmt, released>>
        \/ /\ active' = [active EXCEPT ![d0] = Decremented(active[d0])]
           /\ Decremented(active[d0]) >= MaxActive \/ qhead[d0] = <<>>
           /\ at' = [at EXCEPT ![c] = "idle"] /\ DigestDone(c)
           /\ UNCHANGED <<qhead, next_mgmt, released, fstatFailed>>
        \/ /\ active' = [active EXCEPT ![d0] = Decremented(active[d0])]
           /\ Decremented(active[d0]) < MaxActive /\ qhead[d0] # <<>>
           /\ qhead' = [qhead EXCEPT ![d0] = Tail(@)]
           /\ next_mgmt' = [next_mgmt EXCEPT ![c] = Head(qhead[d0])]
           /\ at' = [at EXCEPT ![c] = "next", ![Head(qhead[d0])] = "handoff"]
           /\ released' = released \cup {Head(qhead[d0])}
           /\ UNCHANGED <<prio, dev, fstatFailed>>
    BY <1>b DEF FsckQueueNext
  <2>. QED
    BY <1>1, <1>2, <1>3, <2>1, Zenon

\* The client taken off the queue becomes active, in its own right, or is
\* dropped, and its device stalled.
LEMMA PushInv == ASSUME IInv, NEW c \in Clients, ActiveqPush(c) PROVE IInv'
<1>. USE DEF IInv
<1>a. at[c] = "next" /\ UNCHANGED <<active, qhead, fstatFailed, phase>>
  BY DEF ActiveqPush
<1>b. PICK g \in Clients : next_mgmt[c] = g
  BY Sorts, Zenon
<1>c. /\ at[g] = "handoff" /\ g \in released /\ g # c /\ phase # "quit"
      /\ dev[g] \in Devices /\ c \notin released
      /\ \A b \in Clients : at[b] = "next" /\ next_mgmt[b] = g => b = c
  BY <1>a, <1>b, Sorts DEF HandoffOk, QuitPrio
<1>d. PICK a \in {"ready", "idle"} :
          at' = [b \in Clients |-> IF b = c THEN "idle" ELSE IF b = g THEN a ELSE at[b]]
  BY <1>b, <1>c, Sorts DEF ActiveqPush
<1>e. next_mgmt' = [next_mgmt EXCEPT ![c] = c]
  BY DEF ActiveqPush
<1>f. \/ /\ a = "ready" /\ released' = released /\ stalled' = stalled
         /\ prio' = [prio EXCEPT ![c] = "NONE"] /\ dev' = [dev EXCEPT ![c] = None]
      \/ /\ a = "idle" /\ released' = released \ {g} /\ stalled' = stalled \cup {dev[g]}
         /\ prio' = [b \in Clients |-> IF b \in {c, g} THEN "NONE" ELSE prio[b]]
         /\ dev' = [b \in Clients |-> IF b \in {c, g} THEN None ELSE dev[b]]
  BY <1>b, <1>c, <1>d, Sorts DEF ActiveqPush, DigestDone, NoDigest
<1>g. /\ \A b \in Clients \ {c, g} : prio'[b] = prio[b] /\ dev'[b] = dev[b]
      /\ prio'[c] = "NONE" /\ dev'[c] = None
      /\ a = "ready" => prio'[g] = prio[g] /\ dev'[g] = dev[g]
  BY <1>c, <1>f, Sorts
<1>1. TypeOK'
  <2>1. /\ at' \in [Clients -> {"idle", "ready", "slot", "noslot", "next", "parked",
                                "handoff", "closed"}]
        /\ next_mgmt' \in [Clients -> Clients]
    BY <1>d, <1>e, Sorts
  <2>2. prio' \in [Clients -> {"NONE", "FSCK"}] /\ dev' \in [Clients -> Devices \cup {None}]
    BY <1>f, Sorts
  <2>3. stalled' \subseteq Devices /\ released' \subseteq Clients
    BY <1>c, <1>f DEF TypeOK
  <2>. QED
    BY <1>a, <2>1, <2>2, <2>3, Zenon DEF TypeOK
<1>2. \A e \in Devices :
          /\ Slots(e)' = Slots(e)
          /\ a = "ready" => Released(e)' = Released(e)
          /\ e # dev[g] => Released(e)' = Released(e)
  BY <1>a, <1>c, <1>d, <1>f, Sorts DEF Slots, Released
<1>3. SlotCount' /\ NoIdleSlot'
  <2>1. CASE a = "ready" /\ stalled' = stalled /\ released' = released
    BY <1>a, <1>2, <2>1, CountsKept, Zenon
  <2>2. CASE stalled' = stalled \cup {dev[g]}
    <3>1. \A e \in Devices : e \notin stalled' => e \notin stalled /\ Released(e)' = Released(e)
      BY <1>2, <2>2, Zenon
    <3>. QED
      BY <1>a, <1>2, <3>1 DEF SlotCount, NoIdleSlot
  <2>. QED
    BY <1>f, <2>1, <2>2, Zenon
<1>4. QueueExact'
  BY <1>a, <1>c, <1>d, <1>g, QueueKept, Sorts
<1>5. FsckPrio' /\ QuitPrio'
  BY <1>a, <1>c, <1>d, <1>g, Sorts, SMTT(20) DEF FsckPrio, QuitPrio
<1>6. HandoffOk'
  BY <1>a, <1>c, <1>d, <1>e, <1>f, <1>g, Sorts DEF HandoffOk
<1>. QED
  BY <1>1, <1>3, <1>4, <1>5, <1>6, Zenon

\* Shutdown: with the workers gone nobody is between the queue and the active
\* queue, so every client that waits is a parked one, and is made active.
LEMMA RequeueInv == ASSUME IInv, Requeue PROVE IInv'
<1>. USE DEF IInv
<1>a. /\ phase' = "quit" /\ prio' = [c \in Clients |-> "NONE"] /\ released' = {}
      /\ at' = [c \in Clients |-> IF at[c] = "parked" THEN "ready" ELSE at[c]]
      /\ UNCHANGED <<dev, active, qhead, next_mgmt, fstatFailed, stalled>>
      /\ \A c \in Clients : at[c] \notin {"slot", "noslot", "next", "handoff"}
  BY DEF Requeue, HandoffOk
<1>1. TypeOK'
  <2>1. /\ at' \in [Clients -> {"idle", "ready", "slot", "noslot", "next", "parked",
                                "handoff", "closed"}]
        /\ prio' \in [Clients -> {"NONE", "FSCK"}]
    BY <1>a, Sorts, Zenon
  <2>. QED
    BY <1>a, <2>1, Zenon DEF TypeOK
<1>2. \A e \in Devices : Slots(e)' = Slots(e)
  BY <1>a, Sorts, Zenon DEF Slots
<1>3. SlotCount' /\ NoIdleSlot' /\ QueueExact'
  BY <1>a, <1>2 DEF SlotCount, NoIdleSlot, QueueExact
<1>4. FsckPrio' /\ QuitPrio'
  BY <1>a, Sorts, Zenon DEF FsckPrio, QuitPrio
<1>5. HandoffOk'
  BY <1>a, Sorts, Zenon DEF HandoffOk
<1>. QED
  BY <1>1, <1>3, <1>4, <1>5, Zenon

\* The steps of the model preserve IInv.
LEMMA StepInv == ASSUME IInv, [Next]_vars PROVE IInv'
<1>1. CASE QuitAccept
  <2>1. \A e \in Devices : Slots(e)' = Slots(e) /\ Released(e)' = Released(e)
    BY <1>1, Zenon DEF QuitAccept, Slots, Released
  <2>2. SlotCount' /\ NoIdleSlot'
    BY <1>1, <2>1, CountsKept, Zenon DEF QuitAccept, IInv
  <2>3. TypeOK'
    BY <1>1, Zenon DEF QuitAccept, IInv, TypeOK
  <2>4. QueueExact'
    BY <1>1 DEF QuitAccept, IInv, QueueExact
  <2>5. FsckPrio' /\ QuitPrio'
    BY <1>1, Zenon DEF QuitAccept, IInv, FsckPrio, QuitPrio
  <2>6. HandoffOk'
    BY <1>1 DEF QuitAccept, IInv, HandoffOk
  <2>. QED
    BY <2>2, <2>3, <2>4, <2>5, <2>6, Zenon DEF IInv
<1>2. CASE UNCHANGED vars
  <2>1. \A e \in Devices : Slots(e)' = Slots(e) /\ Released(e)' = Released(e)
    BY <1>2, Zenon DEF vars, Slots, Released
  <2>2. SlotCount' /\ NoIdleSlot'
    BY <1>2, <2>1, CountsKept, Zenon DEF vars, IInv
  <2>3. TypeOK'
    BY <1>2, Zenon DEF vars, IInv, TypeOK
  <2>4. QueueExact'
    BY <1>2 DEF vars, IInv, QueueExact
  <2>5. FsckPrio' /\ QuitPrio'
    BY <1>2, Zenon DEF vars, IInv, FsckPrio, QuitPrio
  <2>6. HandoffOk'
    BY <1>2 DEF vars, IInv, HandoffOk
  <2>. QED
    BY <2>2, <2>3, <2>4, <2>5, <2>6 DEF IInv
<1>. QED
  BY <1>1, <1>2, RequestInv, CloseInv, DropInv, DigestNormalInv, ReadyInv, NextInv, PushInv,
     RequeueInv, Zenon DEF Next, Step, Exited

\* IInv holds initially and in every reachable state.
THEOREM Invariance == Spec => []IInv
<1>1. Init => IInv
  <2>. SUFFICES ASSUME Init PROVE IInv
    OBVIOUS
  <2>1. TypeOK
    <3>1. active \in [Devices -> 0 .. SizeMax]
      BY Bounds DEF Init
    <3>2. qhead \in [Devices -> Seq(Clients)]
      BY DEF Init
    <3>. QED
      BY <3>1, <3>2, Zenon DEF Init, TypeOK
  <2>2. \A d \in Devices : Slots(d) = {} /\ Cardinality({}) = 0
    BY FS_EmptySet DEF Init, Slots
  <2>3. SlotCount /\ NoIdleSlot
    <3>1. \A d \in Devices : active[d] = 0 /\ qhead[d] = <<>>
      BY DEF Init
    <3>2. \A d \in Devices : Cardinality(Slots(d)) = 0
      BY <2>2, Zenon
    <3>. QED
      BY <3>1, <3>2, Bounds DEF SlotCount, NoIdleSlot
  <2>4. QueueExact
    BY DEF Init, QueueExact
  <2>. QED
    BY <2>1, <2>3, <2>4, Zenon DEF Init, IInv, FsckPrio, QuitPrio, HandoffOk
<1>. QED
  BY <1>1, StepInv, PTL DEF Spec

\* The counter of every fsck queue is exact and within max_active.
THEOREM SlotCountAlways == Spec => []SlotCount
BY Invariance, PTL DEF IInv

\* mog_fsck_queue_next never leaves a slot idle with clients waiting and
\* nobody on the way to take it, unless fstat fails or epoll_ctl does for the
\* client it wakes.
THEOREM NoIdleSlotAlways == Spec => []NoIdleSlot
BY Invariance, PTL DEF IInv

\* The queues hold exactly the parked clients, once each.
THEOREM QueueExactAlways == Spec => []QueueExact
BY Invariance, PTL DEF IInv

\* The "bad prio" assertions of fsck_queue.c never fail.
THEOREM FsckPrioAlways == Spec => []FsckPrio
BY Invariance, PTL DEF IInv

\* In the quit loop nobody has fsck priority: the "bad prio" assertion of
\* mog_mgmt_quit_step never fails.
THEOREM QuitPrioAlways == Spec => []QuitPrio
BY Invariance, PTL DEF IInv
=============================================================================
