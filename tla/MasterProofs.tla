---------------------------- MODULE MasterProofs ----------------------------
(***************************************************************************)
(* IInv is an invariant of Master for any number of processes, workers,    *)
(* upgrades, faults and failing forks.  Most steps change one process and  *)
(* neither the family of processes nor the files: QuietStep.  The others   *)
(* are a fork (ForkStep), an end (EndStep), a child that is waited for,    *)
(* and the steps that write a file, where Heirs decides that nobody else   *)
(* can be about to.                                                        *)
(***************************************************************************)
EXTENDS Master, TLAPS

USE MasterAssumption DEF Pids, Init_, UPGRADE, Foreign

\* The place of a process in the family.
SameRank(q) ==
    /\ proc'[q].st = proc[q].st /\ proc'[q].role = proc[q].role
    /\ proc'[q].parent = proc[q].parent /\ proc'[q].table = proc[q].table

\* What another process can do to a running one: send it a signal, not USR2.
SameMemory(q) ==
    /\ proc'[q].pc = proc[q].pc /\ proc'[q].flags = proc[q].flags
    /\ proc'[q].id = proc[q].id /\ proc'[q].upgrade = proc[q].upgrade
    /\ proc'[q].owner = proc[q].owner /\ proc'[q].old = proc[q].old
    /\ "USR2" \in proc'[q].pend => "USR2" \in proc[q].pend

\* The files say of q what they said.
SameFiles(q) ==
    Runs(q, "server") =>
        /\ (file'.old = q) <=> (file.old = q)
        /\ (file'.pid = q) <=> (file.pid = q)
        /\ proc[q].pc \in { "commit", "restore" } => ~PidIsRunning(file.pid)'

\* A step of p that leaves the family as it is.
LEMMA OwnStep ==
    ASSUME IInv, NEW p \in Pids, TypeOK', NamesOk', env'.overlap = env.overlap,
           \A q \in Pids : SameRank(q),
           \A q \in Pids \ { p } : SameMemory(q) /\ SameFiles(q),
           proc[p].pc \notin StartPc => proc'[p].pc \notin StartPc,
           MemoryOk(p)', FilesOk(p)', AloneOk(p)'
    PROVE  IInv'
<1>1. ASSUME NEW q \in Pids PROVE ChildOk(q)'
  <2>1. ChildOk(q)
    BY DEF IInv
  <2>2. \A r \in Pids : proc[r].pc \notin StartPc => proc'[r].pc \notin StartPc
    BY DEF SameMemory
  <2>. QED
    BY <2>1, <2>2 DEF ChildOk, Left, SameRank
<1>2. ASSUME NEW q \in Pids PROVE TableOk(q)'
  <2>1. TableOk(q) /\ \A e \in proc[q].table : e.pid \in Pids
    BY DEF IInv, TypeOK, Processes
  <2>. QED
    BY <2>1 DEF TableOk, Left, SameRank
<1>3. ASSUME NEW q \in Pids \ { p } PROVE MemoryOk(q)'
  <2>1. MemoryOk(q) /\ SameRank(q) /\ SameMemory(q)
    BY DEF IInv
  <2>. QED
    BY <2>1 DEF MemoryOk, Runs, HasHeir, SameRank, SameMemory
<1>4. ASSUME NEW q \in Pids \ { p } PROVE FilesOk(q)' /\ AloneOk(q)'
  <2>1. FilesOk(q) /\ AloneOk(q) /\ SameRank(q) /\ SameMemory(q) /\ SameFiles(q)
    BY Zenon DEF IInv
  <2>2. FilesOk(q)'
    BY <2>1, Zenon DEF FilesOk, Runs, SameRank, SameMemory, SameFiles
  <2>3. AloneOk(q)'
    BY <2>1 DEF AloneOk, Runs, SameRank, SameMemory, SameFiles
  <2>. QED
    BY <2>2, <2>3
<1>5. ASSUME NEW q \in Pids, NEW r \in Pids PROVE HeirOk(q, r)'
  <2>1. HeirOk(q, r) /\ SameRank(q) /\ SameRank(r)
    BY DEF IInv
  <2>. QED
    BY <2>1 DEF HeirOk, Left, SameRank
<1>. QED
  BY <1>1, <1>2, <1>3, <1>4, <1>5, Zenon DEF IInv

\* ... and the files, too.
LEMMA QuietStep ==
    ASSUME IInv, NEW p \in Pids, TypeOK', file' = file, env'.overlap = env.overlap,
           \A q \in Pids : SameRank(q),
           \A q \in Pids \ { p } : SameMemory(q),
           proc[p].pc \notin StartPc => proc'[p].pc \notin StartPc,
           MemoryOk(p)', FilesOk(p)', AloneOk(p)'
    PROVE  IInv'
<1>1. NamesOk'
  BY DEF IInv, NamesOk, SameRank, TypeOK
<1>2. ASSUME NEW q \in Pids \ { p } PROVE SameFiles(q)
  <2>1. FilesOk(q)
    BY DEF IInv
  <2>2. PidIsRunning(file.pid)' <=> PidIsRunning(file.pid)
    BY DEF PidIsRunning, SameRank
  <2>. QED
    BY <2>1, <2>2 DEF FilesOk, SameFiles
<1>. QED
  BY <1>1, <1>2, OwnStep

-----------------------------------------------------------------------------
(* Steps that leave the family and the files alone *)

\* A step that changes nothing but proc[p], and not its place in the family.
LEMMA LocalStep ==
    ASSUME IInv, NEW p \in Pids, NEW r \in Processes, proc' = [proc EXCEPT ![p] = r],
           file' = file, env' \in Environments, env'.overlap = env.overlap,
           r.st = proc[p].st, r.role = proc[p].role, r.parent = proc[p].parent,
           r.table = proc[p].table, proc[p].pc \notin StartPc => r.pc \notin StartPc,
           MemoryOk(p)', FilesOk(p)', AloneOk(p)'
    PROVE  IInv'
<1>1. proc' \in [Pids -> Processes] /\ proc'[p] = r
  BY DEF IInv, TypeOK
<1>2. TypeOK' /\ (\A q \in Pids : SameRank(q)) /\ \A q \in Pids \ { p } : SameMemory(q)
  BY <1>1 DEF IInv, TypeOK, SameRank, SameMemory
<1>. QED
  BY <1>1, <1>2, QuietStep

\* Where nothing is required of the memory but what the other places require.
PlainPc == WorkerPc \cup { "reap", "upgrade", "exit" }

\* The fields on which the invariant depends, other than pc and id.
SameFields(p, r) ==
    /\ r.st = proc[p].st /\ r.role = proc[p].role /\ r.parent = proc[p].parent
    /\ r.table = proc[p].table /\ r.upgrade = proc[p].upgrade
    /\ r.owner = proc[p].owner /\ r.old = proc[p].old

\* p is sent a signal, other than USR2, or one of its threads takes a step.
LEMMA SignalStep ==
    ASSUME IInv, NEW p \in Pids, NEW r \in Processes, proc' = [proc EXCEPT ![p] = r],
           file' = file, env' \in Environments, env'.overlap = env.overlap,
           SameFields(p, r), r.pc = proc[p].pc, r.id = proc[p].id,
           "USR2" \in r.pend => "USR2" \in proc[p].pend,
           "USR2" \in r.flags => "USR2" \in proc[p].flags
    PROVE  IInv'
<1>1. /\ MemoryOk(p) /\ FilesOk(p) /\ AloneOk(p) /\ proc'[p] = r
      /\ \A q \in Pids : proc'[q].st = proc[q].st
  BY Zenon DEF IInv, TypeOK, SameFields
<1>2. MemoryOk(p)'
  BY <1>1 DEF MemoryOk, Runs, HasHeir, SameFields
<1>3. FilesOk(p)'
  BY <1>1 DEF FilesOk, Runs, PidIsRunning, SameFields
<1>4. AloneOk(p)'
  BY <1>1 DEF AloneOk, Runs, SameFields
<1>. QED
  BY <1>2, <1>3, <1>4, LocalStep, Zenon DEF SameFields

\* p goes to a place where nothing special is required.
LEMMA TurnStep ==
    ASSUME IInv, NEW p \in Pids, NEW r \in Processes, proc' = [proc EXCEPT ![p] = r],
           file' = file, env' \in Environments, env'.overlap = env.overlap,
           SameFields(p, r), proc[p].pc \notin StartPc \cup { "oldbin" },
           IF r.role = "worker" THEN r.pc \in WorkerPc ELSE r.pc \in PlainPc \ { "top" },
           "USR2" \in r.pend \cup r.flags => "USR2" \in proc[p].pend \cup proc[p].flags
    PROVE  IInv'
<1>1. /\ MemoryOk(p) /\ FilesOk(p) /\ AloneOk(p) /\ proc'[p] = r
      /\ \A q \in Pids : proc'[q].st = proc[q].st
  BY Zenon DEF IInv, TypeOK, SameFields
<1>. USE DEF StartPc, PlainPc, WorkerPc, ServerPc, LoopPc
<1>2. MemoryOk(p)'
  BY <1>1 DEF MemoryOk, Runs, HasHeir, SameFields
<1>3. FilesOk(p)'
  BY <1>1 DEF FilesOk, Runs, PidIsRunning, SameFields
<1>4. AloneOk(p)'
  BY <1>1 DEF AloneOk, Runs, SameFields
<1>. QED
  BY <1>2, <1>3, <1>4, LocalStep, Zenon DEF SameFields

\* What is known of a process that takes a step.
LEMMA Known ==
    ASSUME IInv, NEW p \in Pids
    PROVE  /\ proc[p] \in Processes /\ env \in Environments
           /\ ChildOk(p) /\ TableOk(p) /\ MemoryOk(p) /\ FilesOk(p) /\ AloneOk(p)
BY DEF IInv, TypeOK

\* A worker's turn.
LEMMA WorkerInv ==
    ASSUME IInv, NEW p \in Pids, WorkerTop(p) \/ WorkerTurn(p) PROVE IInv'
<1>1. proc[p] \in Processes /\ env \in Environments /\ MemoryOk(p)
  BY Known
<1>. USE DEF StartPc, PlainPc, WorkerPc, ServerPc, LoopPc
<1>2. CASE WorkerTop(p)
  <2>. DEFINE c == IF proc[p].parent = Init_ THEN "quit" ELSE "wait"
             r == [proc[p] EXCEPT !.pc = c]
  <2>1. /\ proc' = [proc EXCEPT ![p] = r] /\ file' = file
        /\ env' \in Environments /\ env'.overlap = env.overlap
        /\ proc[p].st = "run" /\ proc[p].pc = "top"
    BY <1>1, <1>2 DEF WorkerTop, At, Live, Goto
  <2>2. /\ IF proc[p].role = "worker" THEN c \in WorkerPc ELSE c \in PlainPc \ { "top" }
    BY <1>1, <1>2, <2>1 DEF WorkerTop, At, Live, Goto, Processes, MemoryOk, Runs
  <2>3. /\ r \in Processes /\ SameFields(p, r) /\ r.pc = c
        /\ r.pend \subseteq proc[p].pend /\ r.flags = proc[p].flags
    <3>1. c \in WorkerPc \cup ServerPc
      BY <2>2
    <3>. HIDE DEF c, StartPc, PlainPc, WorkerPc, ServerPc, LoopPc
    <3>. QED  BY <1>1, <2>2, <3>1 DEF Processes, SameFields
  <2>. HIDE DEF r, c
  <2>. QED
    BY <2>1, <2>2, <2>3, TurnStep, Zenon DEF SameFields
<1>3. CASE WorkerTurn(p)
  <2>. DEFINE flags == proc[p].flags \cap { "QUIT" }
             c == IF "QUIT" \in proc[p].flags THEN "quit" ELSE "top"
             r == [proc[p] EXCEPT !.flags = flags, !.pc = c]
  <2>1. /\ proc' = [proc EXCEPT ![p] = r] /\ file' = file
        /\ env' \in Environments /\ env'.overlap = env.overlap
        /\ proc[p].st = "run" /\ proc[p].pc = "chld"
    BY <1>1, <1>3, Zenon DEF WorkerTurn, At, Live
  <2>2. /\ IF proc[p].role = "worker" THEN c \in WorkerPc ELSE c \in PlainPc \ { "top" }
        /\ flags \in SUBSET Signals
        /\ "USR2" \in flags => "USR2" \in proc[p].pend \cup proc[p].flags
    BY <1>1, <1>3, <2>1 DEF WorkerTurn, At, Live, Processes, MemoryOk, Runs
  <2>3. /\ r \in Processes /\ SameFields(p, r) /\ r.pc = c
        /\ r.pend \subseteq proc[p].pend /\ r.flags = flags
    <3>1. c \in WorkerPc \cup ServerPc
      BY <2>2
    <3>. HIDE DEF flags, c, StartPc, PlainPc, WorkerPc, ServerPc, LoopPc
    <3>. QED  BY <1>1, <2>2, <3>1, Zenon DEF Processes, SameFields
  <2>. HIDE DEF r, flags, c
  <2>. QED
    BY <2>1, <2>2, <2>3, TurnStep, Zenon DEF SameFields
<1>. QED
  BY <1>2, <1>3

\* Sleeping, and what follows it.
LEMMA SleepInv ==
    ASSUME IInv, NEW p \in Pids, Wake(p) \/ Timeout(p) \/ NoteRun(p) \/ ProcessQueue(p) PROVE IInv'
<1>1. proc[p] \in Processes /\ env \in Environments /\ MemoryOk(p)
  BY Known
<1>. USE DEF StartPc, PlainPc, WorkerPc, ServerPc, LoopPc
<1>2. CASE Wake(p)
  <2>. DEFINE flags == proc[p].flags \cup (proc[p].pend \ { "URG" })
             c == IF Works(p) THEN "note" ELSE "chld"
             r == [proc[p] EXCEPT !.flags = flags, !.pend = {}, !.pc = c]
  <2>1. /\ proc' = [proc EXCEPT ![p] = r] /\ file' = file
        /\ env' \in Environments /\ env'.overlap = env.overlap
        /\ proc[p].st = "run" /\ proc[p].pc = "wait"
    BY <1>1, <1>2 DEF Wake, At, Live, Handled, Works
  <2>2. /\ IF proc[p].role = "worker" THEN c \in WorkerPc ELSE c \in PlainPc \ { "top" }
        /\ flags \in SUBSET Signals
        /\ "USR2" \in flags => "USR2" \in proc[p].pend \cup proc[p].flags
    BY <1>1, <1>2, <2>1 DEF Wake, At, Live, Handled, Works, Processes, MemoryOk, Runs
  <2>3. /\ r \in Processes /\ SameFields(p, r) /\ r.pc = c
        /\ r.pend \subseteq proc[p].pend /\ r.flags = flags
    <3>1. c \in WorkerPc \cup ServerPc
      BY <2>2
    <3>. HIDE DEF flags, c, StartPc, PlainPc, WorkerPc, ServerPc, LoopPc
    <3>. QED  BY <1>1, <2>2, <3>1, ZenonT(60) DEF Processes, SameFields
  <2>. HIDE DEF r, flags, c
  <2>. QED
    BY <2>1, <2>2, <2>3, TurnStep, Zenon DEF SameFields
<1>3. CASE Timeout(p)
  <2>. DEFINE r == [proc[p] EXCEPT !.pc = "chld"]
  <2>1. /\ proc' = [proc EXCEPT ![p] = r] /\ file' = file
        /\ env' \in Environments /\ env'.overlap = env.overlap
        /\ proc[p].st = "run" /\ proc[p].pc = "wait"
    BY <1>1, <1>3 DEF Timeout, At, Live, Goto
  <2>2. /\ IF proc[p].role = "worker" THEN "chld" \in WorkerPc ELSE "chld" \in PlainPc \ { "top" }
    BY <1>1, <1>3, <2>1 DEF Timeout, At, Live, Goto, Processes, MemoryOk, Runs
  <2>3. /\ r \in Processes /\ SameFields(p, r) /\ r.pc = "chld"
        /\ r.pend \subseteq proc[p].pend /\ r.flags = proc[p].flags
    <3>1. "chld" \in WorkerPc \cup ServerPc
      BY <2>2
    <3>. HIDE DEF StartPc, PlainPc, WorkerPc, ServerPc, LoopPc
    <3>. QED  BY <1>1, <2>2, <3>1 DEF Processes, SameFields
  <2>. QED
    BY <2>1, <2>2, <2>3, TurnStep, Zenon DEF SameFields
<1>4. CASE NoteRun(p)
  <2>. DEFINE c == IF proc[p].note THEN "resize" ELSE "chld"
             r == [proc[p] EXCEPT !.note = FALSE, !.pc = c]
  <2>1. /\ proc' = [proc EXCEPT ![p] = r] /\ file' = file
        /\ env' \in Environments /\ env'.overlap = env.overlap
        /\ proc[p].st = "run" /\ proc[p].pc = "note"
    BY <1>1, <1>4, Zenon DEF NoteRun, At, Live
  <2>2. /\ IF proc[p].role = "worker" THEN c \in WorkerPc ELSE c \in PlainPc \ { "top" }
    BY <1>1, <1>4, <2>1 DEF NoteRun, At, Live, Processes, MemoryOk, Runs
  <2>3. /\ r \in Processes /\ SameFields(p, r) /\ r.pc = c
        /\ r.pend \subseteq proc[p].pend /\ r.flags = proc[p].flags
    <3>1. c \in WorkerPc \cup ServerPc
      BY <2>2
    <3>. HIDE DEF c, StartPc, PlainPc, WorkerPc, ServerPc, LoopPc
    <3>. QED  BY <1>1, <2>2, <3>1, ZenonT(60) DEF Processes, SameFields
  <2>. HIDE DEF r, c
  <2>. QED
    BY <2>1, <2>2, <2>3, TurnStep, Zenon DEF SameFields
<1>5. CASE ProcessQueue(p)
  <2>. DEFINE r == [proc[p] EXCEPT !.asked = FALSE, !.pc = "chld"]
  <2>1. /\ proc' = [proc EXCEPT ![p] = r] /\ file' = file
        /\ env' \in Environments /\ env'.overlap = env.overlap
        /\ proc[p].st = "run" /\ proc[p].pc = "resize"
    BY <1>1, <1>5, Zenon DEF ProcessQueue, At, Live
  <2>2. /\ IF proc[p].role = "worker" THEN "chld" \in WorkerPc ELSE "chld" \in PlainPc \ { "top" }
    BY <1>1, <1>5, <2>1 DEF ProcessQueue, At, Live, Processes, MemoryOk, Runs
  <2>3. /\ r \in Processes /\ SameFields(p, r) /\ r.pc = "chld"
        /\ r.pend \subseteq proc[p].pend /\ r.flags = proc[p].flags
    <3>1. "chld" \in WorkerPc \cup ServerPc
      BY <2>2
    <3>. HIDE DEF StartPc, PlainPc, WorkerPc, ServerPc, LoopPc
    <3>. QED  BY <1>1, <2>2, <3>1, ZenonT(60) DEF Processes, SameFields
  <2>. QED
    BY <2>1, <2>2, <2>3, TurnStep, Zenon DEF SameFields
<1>. QED
  BY <1>2, <1>3, <1>4, <1>5

\* A server's turn, as far as it only looks at its flags and children.
LEMMA ServerTurnInv ==
    ASSUME IInv, NEW p \in Pids, SigchldHandler(p) \/ ReapEnd(p) \/ UpgradeSpawnFails(p) PROVE IInv'
<1>1. proc[p] \in Processes /\ env \in Environments /\ MemoryOk(p)
  BY Known
<1>. USE DEF StartPc, PlainPc, WorkerPc, ServerPc, LoopPc
<1>2. CASE SigchldHandler(p)
  <2>. DEFINE flags == proc[p].flags \ { "CHLD" }
             c == IF "CHLD" \in proc[p].flags THEN "reap" ELSE "upgrade"
             r == [proc[p] EXCEPT !.flags = flags, !.pc = c]
  <2>1. /\ proc' = [proc EXCEPT ![p] = r] /\ file' = file
        /\ env' \in Environments /\ env'.overlap = env.overlap
        /\ proc[p].st = "run" /\ proc[p].pc = "chld"
    BY <1>1, <1>2, Zenon DEF SigchldHandler, At, Live
  <2>2. /\ IF proc[p].role = "worker" THEN c \in WorkerPc ELSE c \in PlainPc \ { "top" }
        /\ flags \in SUBSET Signals
        /\ "USR2" \in flags => "USR2" \in proc[p].pend \cup proc[p].flags
    BY <1>1, <1>2, <2>1 DEF SigchldHandler, At, Live, Processes, MemoryOk, Runs
  <2>3. /\ r \in Processes /\ SameFields(p, r) /\ r.pc = c
        /\ r.pend \subseteq proc[p].pend /\ r.flags = flags
    <3>1. c \in WorkerPc \cup ServerPc
      BY <2>2
    <3>. HIDE DEF flags, c, StartPc, PlainPc, WorkerPc, ServerPc, LoopPc
    <3>. QED  BY <1>1, <2>2, <3>1, ZenonT(60) DEF Processes, SameFields
  <2>. HIDE DEF r, flags, c
  <2>. QED
    BY <2>1, <2>2, <2>3, TurnStep, Zenon DEF SameFields
<1>3. CASE ReapEnd(p)
  <2>. DEFINE r == [proc[p] EXCEPT !.pc = "upgrade"]
  <2>1. /\ proc' = [proc EXCEPT ![p] = r] /\ file' = file
        /\ env' \in Environments /\ env'.overlap = env.overlap
        /\ proc[p].st = "run" /\ proc[p].pc = "reap"
    BY <1>1, <1>3 DEF ReapEnd, At, Live, Goto
  <2>2. /\ IF proc[p].role = "worker" THEN "upgrade" \in WorkerPc ELSE "upgrade" \in PlainPc \ { "top" }
    BY <1>1, <1>3, <2>1 DEF ReapEnd, At, Live, Goto, Processes, MemoryOk, Runs
  <2>3. /\ r \in Processes /\ SameFields(p, r) /\ r.pc = "upgrade"
        /\ r.pend \subseteq proc[p].pend /\ r.flags = proc[p].flags
    <3>1. "upgrade" \in WorkerPc \cup ServerPc
      BY <2>2
    <3>. HIDE DEF StartPc, PlainPc, WorkerPc, ServerPc, LoopPc
    <3>. QED  BY <1>1, <2>2, <3>1 DEF Processes, SameFields
  <2>. QED
    BY <2>1, <2>2, <2>3, TurnStep, Zenon DEF SameFields
<1>4. CASE UpgradeSpawnFails(p)
  <2>. DEFINE r == [proc[p] EXCEPT !.pc = "exit"]
  <2>1. /\ proc' = [proc EXCEPT ![p] = r] /\ file' = file
        /\ env' \in Environments /\ env'.overlap = env.overlap
        /\ proc[p].st = "run" /\ proc[p].pc = "spawn"
    BY <1>1, <1>4 DEF UpgradeSpawnFails, At, Live, Goto, Environments
  <2>2. /\ IF proc[p].role = "worker" THEN "exit" \in WorkerPc ELSE "exit" \in PlainPc \ { "top" }
    BY <1>1, <1>4, <2>1 DEF UpgradeSpawnFails, At, Live, Goto, Environments, Processes, MemoryOk, Runs
  <2>3. /\ r \in Processes /\ SameFields(p, r) /\ r.pc = "exit"
        /\ r.pend \subseteq proc[p].pend /\ r.flags = proc[p].flags
    <3>1. "exit" \in WorkerPc \cup ServerPc
      BY <2>2
    <3>. HIDE DEF StartPc, PlainPc, WorkerPc, ServerPc, LoopPc
    <3>. QED  BY <1>1, <2>2, <3>1 DEF Processes, SameFields
  <2>. QED
    BY <2>1, <2>2, <2>3, TurnStep, Zenon DEF SameFields
<1>. QED
  BY <1>2, <1>3, <1>4

\* A signal from outside, and the steps of a thread of the pool.
LEMMA SignalledInv ==
    ASSUME IInv, NEW p \in Pids, NEW sig \in Signals \ { "USR2" }, Signalled(p, sig),
           file' = file, env' \in Environments, env'.overlap = env.overlap
    PROVE  IInv'
<1>. DEFINE r == [proc[p] EXCEPT !.pend = @ \cup { sig }]
<1>1. r \in Processes /\ SameFields(p, r) /\ r.pc = proc[p].pc /\ r.id = proc[p].id
  BY Known DEF Processes, SameFields
<1>2. r.pend = proc[p].pend \cup { sig } /\ r.flags = proc[p].flags
  BY Known DEF Processes
<1>3. proc' = [proc EXCEPT ![p] = r]
  BY DEF Signalled
<1>. HIDE DEF r
<1>. QED
  BY <1>1, <1>2, <1>3, SignalStep, Zenon

LEMMA ThreadInv ==
    ASSUME IInv, NEW p \in Pids,
           Ask(p) \/ NoteSet(p) \/ Interrupt(p) \/ Quit(p) \/ CmogstoredQuit(p)
    PROVE  IInv'
<1>1. proc[p] \in Processes /\ env \in Environments
  BY Known
<1>2. CASE Ask(p)
  <2>. DEFINE r == [proc[p] EXCEPT !.asked = TRUE, !.thread = "note"]
  <2>1. /\ proc' = [proc EXCEPT ![p] = r] /\ file' = file
        /\ env' = [env EXCEPT !.notes = @ - 1] /\ env.notes > 0
    BY <1>1, <1>2, Zenon DEF Ask
  <2>3. env' \in Environments /\ env'.overlap = env.overlap
    BY <1>1, <2>1 DEF Environments
  <2>2. /\ r \in Processes /\ SameFields(p, r) /\ r.pc = proc[p].pc /\ r.id = proc[p].id
        /\ r.pend = proc[p].pend /\ r.flags = proc[p].flags
    BY <1>1, Zenon DEF Processes, SameFields
  <2>. QED
    BY <2>1, <2>2, <2>3, SignalStep, Zenon
<1>3. CASE NoteSet(p)
  <2>. DEFINE r == [proc[p] EXCEPT !.note = TRUE, !.thread = "interrupt"]
  <2>1. proc' = [proc EXCEPT ![p] = r] /\ UNCHANGED << file, env >>
    BY <1>1, <1>3, Zenon DEF NoteSet
  <2>2. /\ r \in Processes /\ SameFields(p, r) /\ r.pc = proc[p].pc /\ r.id = proc[p].id
        /\ r.pend = proc[p].pend /\ r.flags = proc[p].flags
    BY <1>1, ZenonT(60) DEF Processes, SameFields
  <2>. QED
    BY <1>1, <2>1, <2>2, SignalStep, Zenon
<1>4. CASE Interrupt(p)
  <2>. DEFINE r == [proc[p] EXCEPT !.pend = @ \cup { "URG" }, !.thread = "idle"]
  <2>1. proc' = [proc EXCEPT ![p] = r] /\ UNCHANGED << file, env >>
    BY <1>1, <1>4, Zenon DEF Interrupt
  <2>2. /\ r \in Processes /\ SameFields(p, r) /\ r.pc = proc[p].pc /\ r.id = proc[p].id
        /\ r.pend = proc[p].pend \cup { "URG" } /\ r.flags = proc[p].flags
    BY <1>1, ZenonT(60) DEF Processes, SameFields, Signals
  <2>. QED
    BY <1>1, <2>1, <2>2, SignalStep, Zenon
<1>5. CASE Quit(p)
  BY <1>1, <1>5, SignalledInv DEF Quit, Signals
<1>6. CASE CmogstoredQuit(p) /\ proc[p].role = "server"
  <2>. DEFINE r == [proc[p] EXCEPT !.flags = @ \cup { "QUIT" }]
  <2>1. proc' = [proc EXCEPT ![p] = r] /\ UNCHANGED << file, env >>
    BY <1>1, <1>6 DEF CmogstoredQuit
  <2>2. proc[p].flags \cup { "QUIT" } \in SUBSET Signals
    BY <1>1 DEF Processes, Signals
  <2>3. /\ r \in Processes /\ SameFields(p, r) /\ r.pc = proc[p].pc /\ r.id = proc[p].id
        /\ r.pend = proc[p].pend /\ r.flags = proc[p].flags \cup { "QUIT" }
    BY <1>1, <2>2 DEF Processes, SameFields
  <2>. QED
    BY <1>1, <2>1, <2>3, SignalStep, Zenon
<1>7. CASE CmogstoredQuit(p) /\ proc[p].role # "server"
  BY <1>1, <1>7, SignalledInv DEF CmogstoredQuit, Live, Signals
<1>. QED
  BY <1>2, <1>3, <1>4, <1>5, <1>6, <1>7

\* USR2 is sent to a server without a predecessor, or there is overlap.
LEMMA Usr2Inv == ASSUME IInv, NEW p \in Pids, Usr2(p) PROVE IInv'
<1>. DEFINE r == [proc[p] EXCEPT !.pend = @ \cup { "USR2" }]
<1>1. /\ proc[p] \in Processes /\ env \in Environments
      /\ ChildOk(p) /\ MemoryOk(p) /\ FilesOk(p) /\ AloneOk(p)
  BY Known
<1>2. /\ r \in Processes /\ SameFields(p, r) /\ r.pc = proc[p].pc /\ r.id = proc[p].id
      /\ r.pend = proc[p].pend \cup { "USR2" } /\ r.flags = proc[p].flags
  BY <1>1 DEF Processes, SameFields, Signals
<1>3. /\ proc' = [proc EXCEPT ![p] = r] /\ file' = file
      /\ env' \in Environments /\ env'.overlap = env.overlap
  BY <1>1 DEF Usr2, Signalled, Environments
<1>4. ~env.overlap => proc[p].parent = Init_
  <2>1. ~env.overlap => \A q \in Pids \ { p } : proc[q].st = "run" => proc[q].role = "worker"
    BY DEF Usr2, Live
  <2>. QED
    BY <1>1, <2>1 DEF ChildOk, Processes
<1>5. proc'[p] = r /\ \A q \in Pids : proc'[q].st = proc[q].st
  BY <1>2, <1>3 DEF IInv, TypeOK, SameFields
<1>. HIDE DEF r
<1>6. MemoryOk(p)'
  BY <1>1, <1>2, <1>5, Zenon DEF MemoryOk, Runs, HasHeir, SameFields
<1>7. FilesOk(p)'
  BY <1>1, <1>2, <1>3, <1>5 DEF FilesOk, Runs, PidIsRunning, SameFields
<1>8. AloneOk(p)'
  BY <1>1, <1>2, <1>3, <1>4, <1>5 DEF AloneOk, Runs, SameFields
<1>. QED
  BY <1>2, <1>3, <1>6, <1>7, <1>8, LocalStep, Zenon DEF SameFields

\* The first workers that could not be forked, and those that were to replace
\* one.
LEMMA ForkFailsInv == ASSUME IInv, NEW p \in Pids, ForkFails(p) PROVE IInv'
<1>. DEFINE flags == proc[p].flags \cup (proc[p].pend \ { "URG" })
            c == AfterFork(p)
            n == NextId(p)
            r == [proc[p] EXCEPT !.flags = flags, !.pend = {}, !.pc = c, !.id = n]
<1>1. /\ proc[p] \in Processes /\ env \in Environments /\ MemoryOk(p) /\ FilesOk(p)
      /\ AloneOk(p)
  BY Known
<1>2. /\ proc' = [proc EXCEPT ![p] = r] /\ file' = file
      /\ env' \in Environments /\ env'.overlap = env.overlap
      /\ proc[p].st = "run" /\ proc[p].pc \in { "fork", "respawn" }
  BY <1>1 DEF ForkFails, Handled, At, Live, Environments
<1>3. /\ c \in { "reap", "wait", "fork" } /\ n \in Nat
      /\ c = "fork" => proc[p].pc = "fork" /\ n = proc[p].id + 1
  BY <1>1, <1>2 DEF AfterFork, NextId, Processes
<1>4. flags \in SUBSET Signals
  BY <1>1 DEF Processes
<1>5. /\ r \in Processes /\ SameFields(p, r) /\ r.pc = c /\ r.id = n
      /\ r.pend = {} /\ r.flags = flags
  <2>1. c \in WorkerPc \cup ServerPc
    BY <1>3 DEF WorkerPc, ServerPc, LoopPc
  <2>. HIDE DEF c, n, flags
  <2>. QED
    BY <1>1, <1>3, <1>4, <2>1, ZenonT(60) DEF Processes, SameFields
<1>6. proc'[p] = r /\ \A q \in Pids : proc'[q].st = proc[q].st
  BY <1>2, <1>5 DEF IInv, TypeOK, SameFields
<1>7. proc[p].role = "server"
  BY <1>1, <1>2 DEF MemoryOk, Runs, Processes, WorkerPc, LoopPc
<1>. HIDE DEF r, c, n
<1>8. MemoryOk(p)'
  <2>1. \A e \in proc[p].table : e.id \in Nat \cup { UPGRADE }
    BY <1>1 DEF Processes
  <2>2. c = "fork" => \A e \in proc[p].table : e.id \in 0 .. n - 1
    BY <1>1, <1>2, <1>3, <1>7, <2>1 DEF MemoryOk, Runs, Processes
  <2>. QED
    BY <1>1, <1>2, <1>3, <1>5, <1>6, <1>7, <2>2
       DEF MemoryOk, Runs, HasHeir, SameFields, ServerPc, StartPc, LoopPc
<1>9. FilesOk(p)'
  BY <1>1, <1>2, <1>3, <1>5, <1>6, Zenon DEF FilesOk, Runs, PidIsRunning, SameFields
<1>10. AloneOk(p)'
  BY <1>1, <1>2, <1>3, <1>5, <1>6 DEF AloneOk, Runs, SameFields, StartPc
<1>. QED
  BY <1>2, <1>3, <1>5, <1>8, <1>9, <1>10, LocalStep, Zenon DEF SameFields, StartPc

\* USR2 is acted upon when there is no successor.
LEMMA UpgradeHandlerInv == ASSUME IInv, NEW p \in Pids, UpgradeHandler(p) PROVE IInv'
<1>. DEFINE flags == proc[p].flags \ { "USR2" }
            c == IF "USR2" \in proc[p].flags /\ proc[p].upgrade = None
                 THEN "unlink" ELSE "exit"
            r == [proc[p] EXCEPT !.flags = flags, !.pc = c]
<1>1. /\ proc[p] \in Processes /\ env \in Environments /\ MemoryOk(p) /\ FilesOk(p)
      /\ AloneOk(p)
  BY Known
<1>2. /\ proc' = [proc EXCEPT ![p] = r] /\ UNCHANGED << file, env >>
      /\ proc[p].st = "run" /\ proc[p].pc = "upgrade"
  BY Zenon DEF UpgradeHandler, At, Live
<1>3. /\ c \in { "unlink", "exit" } /\ flags \in SUBSET Signals
      /\ c = "unlink" => "USR2" \in proc[p].flags /\ proc[p].upgrade = None
  BY <1>1 DEF Processes
<1>4. /\ r \in Processes /\ SameFields(p, r) /\ r.pc = c /\ r.id = proc[p].id
      /\ r.pend = proc[p].pend /\ r.flags = flags
  <2>1. c \in WorkerPc \cup ServerPc
    BY <1>3 DEF WorkerPc, ServerPc, LoopPc
  <2>. HIDE DEF c, flags
  <2>. QED
    BY <1>1, <1>3, <2>1, Zenon DEF Processes, SameFields
<1>5. proc'[p] = r /\ \A q \in Pids : proc'[q].st = proc[q].st
  BY <1>2, <1>4 DEF IInv, TypeOK, SameFields
<1>6. proc[p].role = "server"
  BY <1>1, <1>2 DEF MemoryOk, Runs, Processes, WorkerPc, LoopPc
<1>. HIDE DEF r, c
<1>7. MemoryOk(p)'
  BY <1>1, <1>2, <1>3, <1>4, <1>5, <1>6
     DEF MemoryOk, Runs, HasHeir, SameFields, ServerPc, StartPc, LoopPc
<1>8. FilesOk(p)'
  BY <1>1, <1>2, <1>3, <1>4, <1>5, Zenon DEF FilesOk, Runs, PidIsRunning, SameFields
<1>9. AloneOk(p)'
  BY <1>1, <1>2, <1>3, <1>4, <1>5, <1>6 DEF AloneOk, Runs, SameFields, StartPc
<1>. QED
  BY <1>1, <1>2, <1>3, <1>4, <1>7, <1>8, <1>9, LocalStep, Zenon DEF SameFields, StartPc

\* mog_pidfile_upgrade_abort() looks at the pid file after the successor was
\* waited for.
LEMMA AbortCheckInv == ASSUME IInv, NEW p \in Pids, AbortCheck(p) PROVE IInv'
<1>. DEFINE u == IF PidIsRunning(file.pid) THEN None ELSE proc[p].upgrade
            c == IF PidIsRunning(file.pid) THEN "reap" ELSE "restore"
            r == [proc[p] EXCEPT !.upgrade = u, !.pc = c]
<1>1. /\ proc[p] \in Processes /\ env \in Environments /\ MemoryOk(p) /\ FilesOk(p)
      /\ AloneOk(p)
  BY Known
<1>2. /\ proc' = [proc EXCEPT ![p] = r] /\ UNCHANGED << file, env >>
      /\ proc[p].st = "run" /\ proc[p].pc = "abort"
  BY Zenon DEF AbortCheck, At, Live
<1>3. /\ c \in { "reap", "restore" } /\ u \in Pids \cup { None }
      /\ c = "restore" => ~PidIsRunning(file.pid)
  BY <1>1 DEF Processes
<1>4. /\ r \in Processes /\ r.pc = c /\ r.pend = proc[p].pend /\ r.flags = proc[p].flags
      /\ r.st = proc[p].st /\ r.role = proc[p].role /\ r.parent = proc[p].parent
      /\ r.table = proc[p].table /\ r.owner = proc[p].owner /\ r.old = proc[p].old
  <2>1. c \in WorkerPc \cup ServerPc
    BY <1>3 DEF WorkerPc, ServerPc, LoopPc
  <2>. HIDE DEF c, u
  <2>. QED
    BY <1>1, <1>3, <2>1, Zenon DEF Processes
<1>5. proc'[p] = r /\ \A q \in Pids : proc'[q].st = proc[q].st
  BY <1>2, <1>4 DEF IInv, TypeOK
<1>6. proc[p].role = "server"
  BY <1>1, <1>2 DEF MemoryOk, Runs, Processes, WorkerPc, LoopPc
<1>. HIDE DEF r, c, u
<1>7. MemoryOk(p)'
  BY <1>1, <1>2, <1>3, <1>4, <1>5, <1>6
     DEF MemoryOk, Runs, HasHeir, ServerPc, StartPc, LoopPc
<1>8. FilesOk(p)'
  BY <1>1, <1>2, <1>3, <1>4, <1>5, Zenon DEF FilesOk, Runs, PidIsRunning
<1>9. AloneOk(p)'
  BY <1>1, <1>2, <1>3, <1>4, <1>5, <1>6 DEF AloneOk, Runs, StartPc
<1>. QED
  BY <1>1, <1>2, <1>3, <1>4, <1>7, <1>8, <1>9, LocalStep, Zenon DEF StartPc

\* The end of a turn: a master that was told to quit passes it on to all its
\* workers, and leaves when it has none.
LEMMA ExitCheckInv == ASSUME IInv, NEW p \in Pids, ExitCheck(p) PROVE IInv'
<1>1. /\ proc[p] \in Processes /\ env \in Environments /\ MemoryOk(p) /\ FilesOk(p)
      /\ AloneOk(p)
  BY Known
<1>2. proc[p].st = "run" /\ proc[p].pc = "exit" /\ UNCHANGED << file, env >>
  BY Zenon DEF ExitCheck, At, Live
<1>3. proc[p].role = "server"
  BY <1>1, <1>2 DEF MemoryOk, Runs, Processes, WorkerPc, LoopPc
<1>4. ASSUME NEW c \in { "wait", "quit" }, Goto(p, c) PROVE IInv'
  <2>. DEFINE r == [proc[p] EXCEPT !.pc = c]
  <2>1. /\ r \in Processes /\ SameFields(p, r) /\ r.pc = c
        /\ r.pend = proc[p].pend /\ r.flags = proc[p].flags
    <3>1. c \in WorkerPc \cup ServerPc
      BY DEF WorkerPc, LoopPc
    <3>. QED
      BY <1>1, <3>1 DEF Processes, SameFields
  <2>2. proc' = [proc EXCEPT ![p] = r]
    BY <1>4, Zenon DEF Goto
  <2>. QED
    BY <1>1, <1>2, <1>3, <2>1, <2>2, TurnStep, Zenon
       DEF SameFields, PlainPc, WorkerPc, LoopPc, StartPc
<1>5. CASE proc' = [q \in Pids |->
                IF q = p
                THEN [proc[p] EXCEPT !.pc = IF Workers(p) = {} THEN "leave" ELSE "wait"]
                ELSE IF Live(q) /\ \E e \in Workers(p) : e.pid = q
                     THEN [proc[q] EXCEPT !.pend = @ \cup { "QUIT" }]
                     ELSE proc[q]]
  <2>. DEFINE c == IF Workers(p) = {} THEN "leave" ELSE "wait"
              r == [proc[p] EXCEPT !.pc = c]
  <2>1. /\ c \in { "leave", "wait" }
        /\ c = "leave" => \A e \in proc[p].table : ~IsWorker(e)
    BY DEF Workers
  <2>2. /\ r \in Processes /\ SameFields(p, r) /\ r.pc = c
        /\ r.pend = proc[p].pend /\ r.flags = proc[p].flags
    <3>1. c \in WorkerPc \cup ServerPc
      BY DEF WorkerPc, ServerPc, LoopPc
    <3>. HIDE DEF c
    <3>. QED
      BY <1>1, <3>1 DEF Processes, SameFields
  <2>3. proc'[p] = r
    BY <1>5
  <2>4. ASSUME NEW q \in Pids \ { p }
        PROVE  proc'[q] \in Processes /\ SameRank(q) /\ SameMemory(q)
    <3>1. proc'[q] = proc[q] \/ proc'[q] = [proc[q] EXCEPT !.pend = @ \cup { "QUIT" }]
      BY <1>5
    <3>2. proc[q] \in Processes
      BY DEF IInv, TypeOK
    <3>3. proc[q].pend \cup { "QUIT" } \in SUBSET Signals
      BY <3>2, Zenon DEF Processes, Signals
    <3>. QED
      BY <3>1, <3>2, <3>3 DEF Processes, SameRank, SameMemory
  <2>. HIDE DEF r, c
  <2>5. \A q \in Pids : SameRank(q)
    BY <2>2, <2>3, <2>4, Zenon DEF SameRank, SameFields
  <2>6. TypeOK'
    <3>1. DOMAIN proc' = Pids /\ \A q \in Pids : proc'[q] \in Processes
      BY <1>5, <2>2, <2>3, <2>4, Zenon
    <3>2. proc' = [q \in Pids |-> proc'[q]]
      BY <1>5
    <3>. QED
      BY <1>2, <3>1, <3>2, Zenon DEF IInv, TypeOK
  <2>7. MemoryOk(p)'
    BY <1>1, <1>2, <1>3, <2>1, <2>2, <2>3, Zenon
       DEF MemoryOk, Runs, HasHeir, SameFields, ServerPc, StartPc, LoopPc
  <2>8. FilesOk(p)'
    BY <1>1, <1>2, <2>1, <2>2, <2>3, Zenon DEF FilesOk, Runs, SameFields
  <2>9. AloneOk(p)'
    BY <1>1, <1>2, <1>3, <2>1, <2>2, <2>3, Zenon DEF AloneOk, Runs, SameFields, StartPc
  <2>. QED
    BY <1>2, <2>1, <2>2, <2>3, <2>4, <2>5, <2>6, <2>7, <2>8, <2>9, QuietStep, Zenon DEF StartPc
<1>. QED
  BY <1>4, <1>5 DEF ExitCheck

-----------------------------------------------------------------------------
(* The end of a process *)

\* A server with a successor has no predecessor, and the other way round.
LEMMA OneHeir ==
    ASSUME IInv, NEW p \in Pids, NEW q \in Pids, p # q,
           Left(p), Left(q), proc[p].role = "server", proc[q].role = "server",
           proc[q].parent = p
    PROVE  /\ proc[p].st = "run" /\ proc[p].pc \notin StartPc
           /\ HasHeir(p) /\ proc[p].old /\ file.old = p /\ file.pid # p
           /\ proc[p].parent \notin Pids
           /\ \A r \in Pids \ { p, q } : Left(r) => proc[r].role # "server"
           /\ ~HasHeir(q)
<1>1. /\ proc[p].st = "run" /\ proc[p].pc \notin StartPc
      /\ \E e \in proc[p].table : e.pid = q
  BY DEF IInv, ChildOk
<1>2. HasHeir(p)
  BY <1>1, Zenon DEF IInv, TableOk, HasHeir
<1>3. proc[p].old /\ file.old = p /\ file.pid # p
  BY <1>1, <1>2, Zenon DEF IInv, MemoryOk, FilesOk, Runs, StartPc
<1>4. ASSUME NEW r \in Pids \ { p }, HasHeir(r) PROVE FALSE
  <2>1. PICK e \in proc[r].table : ~IsWorker(e)
    BY <1>4, Zenon DEF HasHeir
  <2>2. e.pid \in Pids /\ proc[e.pid].parent = r
    BY <2>1 DEF IInv, TypeOK, Processes, TableOk
  <2>3. proc[r].st = "run" /\ proc[r].role = "server" /\ proc[r].pc \notin StartPc
    BY <2>2, Zenon DEF IInv, ChildOk
  <2>4. file.old = r
    BY <1>4, <2>3, Zenon DEF IInv, MemoryOk, FilesOk, Runs, StartPc
  <2>. QED
    BY <1>3, <2>4
<1>5. proc[p].parent \notin Pids
  <2>1. SUFFICES ASSUME proc[p].parent \in Pids PROVE FALSE
    OBVIOUS
  <2>. DEFINE r == proc[p].parent
  <2>2. r # p /\ \E e \in proc[r].table : e.pid = p
    BY <2>1, Zenon DEF IInv, ChildOk
  <2>3. HasHeir(r)
    BY <2>1, <2>2, Zenon DEF IInv, TableOk, HasHeir
  <2>. QED
    BY <1>4, <2>1, <2>2, <2>3
<1>6. ASSUME NEW r \in Pids \ { p, q }, Left(r), proc[r].role = "server" PROVE FALSE
  <2>1. proc[r].parent = p
    BY <1>5, <1>6, Zenon DEF IInv, HeirOk
  <2>2. PICK e \in proc[p].table : e.pid = q
    BY <1>1, Zenon
  <2>3. PICK f \in proc[p].table : f.pid = r
    BY <1>6, <2>1 DEF IInv, ChildOk
  <2>4. ~IsWorker(e) /\ ~IsWorker(f)
    BY <1>6, <2>2, <2>3, Zenon DEF IInv, TableOk
  <2>5. e = f
    BY <2>4 DEF IInv, TableOk, IsWorker
  <2>. QED
    BY <1>6, <2>2, <2>3, <2>5, Zenon
<1>. QED
  BY <1>1, <1>2, <1>3, <1>4, <1>5, <1>6, Zenon

\* pidfile_cleanup() takes no name from a server other than the one that exits.
LEMMA CleanupOwn ==
    ASSUME IInv, NEW p \in Pids, proc[p].st = "run"
    PROVE  /\ Cleanup(p) \in [pid : { file.pid, None }, old : { file.old, None }]
           /\ \A q \in Pids \ { p } : Runs(q, "server") =>
                  /\ Cleanup(p).old = q <=> file.old = q
                  /\ Cleanup(p).pid = q <=> file.pid = q
<1>1. file \in [pid : Pids \cup { None, 0, Foreign }, old : Pids \cup { None }]
  BY DEF IInv, TypeOK
<1>2. CASE proc[p].owner # p
  BY <1>1, <1>2, Zenon DEF Cleanup
<1>3. CASE proc[p].owner = p
  <2>1. proc[p].role = "server" /\ proc[p].pc \notin StartPc
    BY <1>3 DEF IInv, TypeOK, Processes, MemoryOk, Runs, StartPc
  <2>2. proc[p].old <=> file.old = p
    BY <2>1 DEF IInv, FilesOk, Runs, StartPc
  <2>3. CASE proc[p].old
    BY <1>1, <1>3, <2>2, <2>3 DEF Cleanup
  <2>4. CASE ~proc[p].old
    <3>1. ASSUME NEW q \in Pids \ { p }, Runs(q, "server"), file.pid = q PROVE FALSE
      <4>1. Left(p) /\ Left(q) /\ proc[q].role = "server"
        BY <3>1, Zenon DEF Left, Runs
      <4>2. proc[q].parent = p \/ proc[p].parent = q
        BY <2>1, <4>1, Zenon DEF IInv, HeirOk
      <4>. QED
        BY <2>1, <2>4, <3>1, <4>1, <4>2, OneHeir, Zenon
    <3>. QED
      BY <1>1, <1>3, <2>4, <3>1 DEF Cleanup
  <2>. QED
    BY <2>3, <2>4, Zenon
<1>. QED
  BY <1>2, <1>3

\* A process ends, with or without its exit handlers.
LEMMA EndStep ==
    ASSUME IInv, NEW p \in Pids, proc[p].st = "run", proc' = Ended(p),
           file' = file \/ file' = Cleanup(p),
           env' \in Environments, env'.overlap = env.overlap
    PROVE  IInv'
<1>1. /\ proc'[p].st = IF proc[p].parent \in Pids THEN "zombie" ELSE "dead"
      /\ proc'[p].role = proc[p].role /\ proc'[p].parent = proc[p].parent
      /\ proc'[p].table = {} /\ proc'[p] \in Processes
  <2>1. proc[p] \in Processes /\ (Live(proc[p].parent) <=> proc[p].parent \in Pids)
    BY DEF IInv, TypeOK, ChildOk, Live
  <2>. QED
    BY <2>1, ZenonT(60) DEF Ended, Blank, Processes
<1>2. ASSUME NEW q \in Pids \ { p }
      PROVE  /\ SameMemory(q) /\ proc'[q] \in Processes
             /\ proc'[q].role = proc[q].role /\ proc'[q].table = proc[q].table
             /\ proc'[q].parent = IF proc[q].parent = p THEN Init_ ELSE proc[q].parent
             /\ proc'[q].st = IF proc[q].parent = p /\ proc[q].st = "zombie"
                              THEN "dead" ELSE proc[q].st
  <2>1. proc[q] \in Processes /\ proc[q].pend \cup { "CHLD" } \in SUBSET Signals
    BY DEF IInv, TypeOK, Processes, Signals
  <2>2. CASE proc[q].parent = p
    BY <2>1, <2>2, ZenonT(60) DEF Ended, Processes, SameMemory
  <2>3. CASE proc[q].parent # p
    <3>1. proc'[q] = proc[q] \/ proc'[q] = [proc[q] EXCEPT !.pend = @ \cup { "CHLD" }]
      BY <2>3, Zenon DEF Ended
    <3>. QED
      BY <2>1, <2>3, <3>1 DEF Processes, SameMemory
  <2>. QED
    BY <2>2, <2>3
<1>3. TypeOK' /\ NamesOk'
  <2>1. proc' \in [Pids -> Processes]
    BY <1>1, <1>2, Zenon DEF Ended
  <2>2. /\ file' \in [pid : Pids \cup { None, 0, Foreign }, old : Pids \cup { None }]
        /\ file'.pid \in { file.pid, None } /\ file'.old \in { file.old, None }
    BY CleanupOwn DEF IInv, TypeOK
  <2>3. \A q \in Pids : proc'[q].role = proc[q].role /\ (proc[q].st # "none" => proc'[q].st # "none")
    BY <1>1, <1>2, Zenon
  <2>. QED
    BY <2>1, <2>2, <2>3 DEF IInv, TypeOK, NamesOk
<1>4. \A q \in Pids : Left(q)' => Left(q)
  BY <1>1, <1>2 DEF Left
<1>5. ASSUME NEW q \in Pids PROVE ChildOk(q)'
  <2>1. \A r \in Pids : proc[q].parent = r => ChildOk(q) /\ proc[r].st = "run" /\ r # q
    BY DEF IInv, ChildOk
  <2>2. CASE proc[q].parent = p
    BY <1>1, <1>2, <2>1, <2>2 DEF ChildOk
  <2>3. CASE proc[q].parent # p
    <3>1. /\ proc'[q].parent = proc[q].parent /\ ChildOk(q)
          /\ proc'[q].st = "none" => proc[q].st = "none"
      BY <1>1, <1>2, <2>3, Zenon DEF IInv
    <3>2. ASSUME NEW r \in Pids, proc[q].parent = r
          PROVE  /\ proc'[r].st = "run" /\ proc'[r].role = "server"
                 /\ proc'[r].pc \notin StartPc /\ proc'[r].table = proc[r].table
      BY <1>2, <2>3, <3>1, <3>2, Zenon DEF ChildOk, SameMemory
    <3>. QED
      BY <1>4, <3>1, <3>2, Zenon DEF ChildOk
  <2>. QED
    BY <2>2, <2>3, Zenon
<1>6. ASSUME NEW q \in Pids PROVE TableOk(q)'
  <2>1. CASE q = p
    BY <1>1, <2>1, Zenon DEF TableOk
  <2>2. CASE q # p
    <3>1. TableOk(q) /\ \A e \in proc[q].table : e.pid \in Pids
      BY DEF IInv, TypeOK, Processes
    <3>2. ASSUME NEW e \in proc[q].table
          PROVE  proc'[e.pid].parent = q /\ Left(e.pid)' /\ proc'[e.pid].role = proc[e.pid].role
      BY <1>1, <1>2, <2>2, <3>1 DEF TableOk, Left
    <3>. QED
      BY <1>2, <2>2, <3>1, <3>2, Zenon DEF TableOk
  <2>. QED
    BY <2>1, <2>2, Zenon
<1>7. ASSUME NEW q \in Pids PROVE MemoryOk(q)'
  <2>1. CASE q = p
    BY <1>1, <2>1, Zenon DEF MemoryOk, Runs
  <2>2. CASE q # p
    <3>1. MemoryOk(q) /\ (proc'[q].st = "run" => proc[q].st = "run")
      BY <1>2, <2>2, Zenon DEF IInv
    <3>. QED
      BY <1>2, <2>2, <3>1 DEF MemoryOk, Runs, HasHeir, SameMemory
  <2>. QED
    BY <2>1, <2>2
<1>8. ASSUME NEW q \in Pids PROVE FilesOk(q)' /\ AloneOk(q)'
  <2>1. CASE q = p
    BY <1>1, <2>1, Zenon DEF FilesOk, AloneOk, Runs
  <2>2. CASE q # p
    <3>1. /\ FilesOk(q) /\ AloneOk(q) /\ (Runs(q, "server")' => Runs(q, "server"))
          /\ proc[q].parent = Init_ => proc'[q].parent = Init_
      BY <1>2, <2>2, Zenon DEF IInv, Runs
    <3>2. Runs(q, "server") => /\ file'.old = q <=> file.old = q
                               /\ file'.pid = q <=> file.pid = q
      BY <2>2, CleanupOwn
    <3>3. ~PidIsRunning(file.pid) => ~PidIsRunning(file.pid)'
      BY <1>4, CleanupOwn DEF PidIsRunning, Left
    <3>4. FilesOk(q)'
      BY <1>2, <2>2, <3>1, <3>2, <3>3, Zenon DEF FilesOk, SameMemory
    <3>5. AloneOk(q)'
      BY <1>2, <2>2, <3>1, <3>2, Zenon DEF AloneOk, SameMemory
    <3>. QED
      BY <3>4, <3>5, Zenon
  <2>. QED
    BY <2>1, <2>2, Zenon
<1>9. ASSUME NEW q \in Pids, NEW r \in Pids, q # r, Left(q)', Left(r)',
             proc'[q].role = "server", proc'[r].role = "server"
      PROVE  proc'[q].parent = r \/ proc'[r].parent = q
  <2>1. /\ Left(q) /\ Left(r) /\ proc[q].role = "server" /\ proc[r].role = "server"
        /\ Left(p)' => proc[p].parent \in Pids
    BY <1>1, <1>2, <1>4, <1>9 DEF Left
  <2>2. proc[q].parent = r \/ proc[r].parent = q
    BY <1>9, <2>1, Zenon DEF IInv, HeirOk
  <2>3. ~(r = p /\ proc[q].parent = p) /\ ~(q = p /\ proc[r].parent = p)
    BY <1>9, <2>1, OneHeir
  <2>. QED
    BY <1>1, <1>2, <1>9, <2>2, <2>3
<1>. QED
  BY <1>3, <1>5, <1>6, <1>7, <1>8, <1>9, Zenon DEF IInv, HeirOk

LEMMA EndInv ==
    ASSUME IInv, NEW p \in Pids,
           ExecFails(p) \/ PidfileInUse(p) \/ PrepareAssert(p) \/ Leave(p) \/ Kill(p)
    PROVE  IInv'
<1>1. proc[p].st = "run" /\ env \in Environments
  BY Known, Zenon DEF ExecFails, PidfileInUse, PrepareAssert, Leave, Kill, At, Live
<1>2. CASE ExecFails(p) \/ PidfileInUse(p) \/ PrepareAssert(p) \/ Leave(p)
  BY <1>1, <1>2, EndStep, Zenon DEF ExecFails, PidfileInUse, PrepareAssert, Leave, Exit
<1>3. CASE Kill(p)
  <2>1. env' \in Environments /\ env'.overlap = env.overlap
    BY <1>1, <1>3 DEF Kill, Environments
  <2>2. file' = file /\ (proc' = Ended(p) \/ Signalled(p, "QUIT"))
    BY <1>3, Zenon DEF Kill
  <2>. QED
    BY <1>1, <2>1, <2>2, EndStep, SignalledInv, Zenon DEF Signals
<1>. QED
  BY <1>2, <1>3

-----------------------------------------------------------------------------
(* Children come and are waited for *)

\* A running server p becomes r, with a new entry in its table.
ParentIs(p, r, c, id) ==
    /\ Runs(p, "server") /\ proc[p].pc \notin StartPc \cup { "oldbin" }
    /\ \A e \in proc[p].table : e.id # id
    /\ r \in Processes /\ r.table = proc[p].table \cup { [pid |-> c, id |-> id] }
    /\ r.st = "run" /\ r.role = "server" /\ r.parent = proc[p].parent
    /\ r.pc \notin StartPc \cup { "oldbin", "restore", "unlink" }
    /\ r.owner = p /\ r.old = proc[p].old
    /\ "USR2" \in r.pend \cup r.flags => "USR2" \in proc[p].pend \cup proc[p].flags

\* Its child is s, a worker or the successor of a server that has none.
ChildIs(p, s, id) ==
    /\ s \in Processes /\ s.st = "run" /\ s.parent = p /\ s.table = {} /\ s.owner = p
    /\ s.pend = {}
    /\ IF id = UPGRADE
       THEN s.role = "server" /\ s.pc = "exec" /\ proc[p].old
       ELSE s.role = "worker" /\ s.pc \in WorkerPc

LEMMA ForkStep ==
    ASSUME IInv, NEW p \in Pids, NEW c \in Pids, proc[c].st = "none",
           NEW id \in Nat \cup { UPGRADE }, NEW r, NEW s,
           ParentIs(p, r, c, id), ChildIs(p, s, id),
           proc' = [proc EXCEPT ![c] = s, ![p] = r],
           file' = file, env' = env,
           MemoryOk(p)'
    PROVE  IInv'
<1>. USE DEF ParentIs, ChildIs
<1>1. /\ c # p /\ proc'[p] = r /\ proc'[c] = s /\ proc' \in [Pids -> Processes]
      /\ \A q \in Pids \ { p, c } : proc'[q] = proc[q]
  BY Zenon DEF IInv, TypeOK, Runs
<1>2. /\ proc[c].parent \notin Pids /\ file.pid # c /\ file.old # c
      /\ \A q \in Pids : proc[q].parent # c
      /\ \A q \in Pids : \A e \in proc[q].table : e.pid # c
  <2>1. file.pid # c /\ file.old # c
    BY Zenon DEF IInv, NamesOk
  <2>2. proc[c].parent \notin Pids /\ \A q \in Pids : proc[q].parent # c
    BY DEF IInv, ChildOk
  <2>3. ASSUME NEW q \in Pids, NEW e \in proc[q].table PROVE e.pid # c
    BY DEF IInv, TableOk, Left
  <2>. QED
    BY <2>1, <2>2, <2>3, Zenon
<1>3. TypeOK' /\ NamesOk'
  <2>1. \A q \in Pids : proc[q].st # "none" => proc'[q].st # "none" /\ proc'[q].role = proc[q].role
    BY <1>1 DEF Runs
  <2>. QED
    BY <1>1, <2>1 DEF IInv, TypeOK, NamesOk
<1>4. ASSUME NEW q \in Pids PROVE ChildOk(q)'
  <2>1. CASE q = c
    <3>1. [pid |-> c, id |-> id] \in proc'[p].table /\ [pid |-> c, id |-> id].pid = c
      BY <1>1
    <3>. QED
      BY <1>1, <2>1, <3>1 DEF ChildOk
  <2>2. CASE q # c
    <3>1. /\ ChildOk(q) /\ proc'[q].parent = proc[q].parent /\ proc'[q].st = proc[q].st
      BY <1>1, <2>2, Zenon DEF IInv, Runs
    <3>2. ASSUME NEW x \in Pids, proc[q].parent = x
          PROVE  /\ proc'[x].st = "run" /\ proc'[x].role = "server"
                 /\ proc'[x].pc \notin StartPc /\ proc[x].table \subseteq proc'[x].table
      BY <1>1, <1>2, <3>1, <3>2, Zenon DEF ChildOk
    <3>. QED
      BY <3>1, <3>2, Zenon DEF ChildOk, Left
  <2>. QED
    BY <2>1, <2>2
<1>5. ASSUME NEW q \in Pids PROVE TableOk(q)'
  <2>1. TableOk(q) /\ \A e \in proc[q].table : e.pid \in Pids \ { c }
    BY <1>2 DEF IInv, TypeOK, Processes
  <2>2. \A x \in Pids \ { c } : /\ proc'[x].parent = proc[x].parent /\ proc'[x].st = proc[x].st
                                /\ proc'[x].role = proc[x].role
    BY <1>1, Zenon DEF Runs
  <2>3. CASE q = p
    BY <1>1, <2>1, <2>2, <2>3 DEF TableOk, Left, IsWorker
  <2>4. CASE q = c
    BY <1>1, <2>4, Zenon DEF TableOk
  <2>5. CASE q \notin { p, c }
    BY <1>1, <2>1, <2>2, <2>5 DEF TableOk, Left
  <2>. QED
    BY <2>3, <2>4, <2>5, Zenon
<1>6. ASSUME NEW q \in Pids PROVE MemoryOk(q)'
  <2>1. CASE q = c
    BY <1>1, <2>1 DEF MemoryOk, Runs, HasHeir, WorkerPc, ServerPc, LoopPc, StartPc
  <2>2. CASE q \notin { p, c }
    BY <1>1, <2>2 DEF IInv, MemoryOk, Runs, HasHeir
  <2>. QED
    BY <2>1, <2>2, Zenon
<1>7. ASSUME NEW q \in Pids PROVE FilesOk(q)' /\ AloneOk(q)'
  <2>1. CASE q = c
    BY <1>1, <1>2, <2>1, Zenon DEF FilesOk, AloneOk, Runs, StartPc
  <2>2. CASE q = p
    BY <1>1, <2>2, Zenon DEF IInv, FilesOk, AloneOk, Runs, StartPc
  <2>3. CASE q \notin { p, c }
    <3>1. FilesOk(q) /\ AloneOk(q) /\ proc'[q] = proc[q]
      BY <1>1, <2>3, Zenon DEF IInv
    <3>2. ~PidIsRunning(file.pid) => ~PidIsRunning(file.pid)'
      BY <1>1, <1>2, Zenon DEF PidIsRunning, Runs
    <3>. QED
      BY <3>1, <3>2, Zenon DEF FilesOk, AloneOk, Runs
  <2>. QED
    BY <2>1, <2>2, <2>3
<1>8. ASSUME NEW q \in Pids, NEW x \in Pids PROVE HeirOk(q, x)'
  <2>1. CASE c \notin { q, x }
    BY <1>1, <2>1 DEF IInv, HeirOk, Left, Runs
  <2>2. ASSUME id = UPGRADE, NEW y \in Pids \ { p, c }, Left(y), proc[y].role = "server"
        PROVE  FALSE
    <3>1. Left(p) /\ ~HasHeir(p) /\ proc[p].role = "server"
      BY <2>2, Zenon DEF Left, Runs, HasHeir, IsWorker
    <3>2. proc[y].parent = p \/ proc[p].parent = y
      BY <2>2, <3>1, Zenon DEF IInv, HeirOk
    <3>3. file.old = p
      BY <2>2, Zenon DEF IInv, FilesOk, Runs, StartPc
    <3>. QED
      BY <2>2, <3>1, <3>2, <3>3, OneHeir, Zenon
  <2>3. CASE c \in { q, x }
    BY <1>1, <2>2, <2>3 DEF HeirOk, Left
  <2>. QED
    BY <2>1, <2>3, Zenon
<1>. QED
  BY <1>3, <1>4, <1>5, <1>6, <1>7, <1>8, Zenon DEF IInv

\* fork_worker(): the id is not in use.
LEMMA ForkWorkerInv == ASSUME IInv, NEW p \in Pids, ForkWorker(p) PROVE IInv'
<1>. DEFINE a == AfterFork(p)
            n == NextId(p)
            t == proc[p].table \cup { [pid |-> Child, id |-> proc[p].id] }
            r == [proc[p] EXCEPT !.table = t, !.pc = a, !.id = n]
            s == [proc[p] EXCEPT !.parent = p, !.pend = {}, !.table = {},
                                 !.thread = "idle", !.role = "worker", !.pc = "top"]
<1>1. proc[p] \in Processes /\ env \in Environments /\ MemoryOk(p)
  BY Known, Zenon
<1>2. proc[p].st = "run" /\ proc[p].pc \in { "fork", "respawn" } /\ UNCHANGED << file, env >>
  BY Zenon DEF ForkWorker, At, Live
<1>3. proc[p].role = "server" /\ proc[p].owner = p
  BY <1>1, <1>2, Zenon DEF MemoryOk, Runs, Processes, WorkerPc, LoopPc, StartPc
<1>4. Child \in Pids /\ proc[Child].st = "none" /\ Child # p
  BY <1>2, Zenon DEF ForkWorker, CanFork, Child
<1>5. /\ a \in { "reap", "wait", "fork" } /\ n \in Nat
      /\ a = "fork" => proc[p].pc = "fork" /\ n = proc[p].id + 1
  BY <1>1, <1>2 DEF AfterFork, NextId, Processes
<1>6. proc' = [proc EXCEPT ![Child] = s, ![p] = r]
  BY <1>4, Zenon DEF ForkWorker, Forked, WorkerChild, IInv, TypeOK
<1>7. t \in SUBSET [pid : Pids, id : Nat \cup { UPGRADE }]
  BY <1>1, <1>4 DEF Processes
<1>8. /\ r \in Processes /\ r.table = t /\ r.pc = a /\ r.id = n
      /\ r.st = proc[p].st /\ r.role = proc[p].role /\ r.parent = proc[p].parent
      /\ r.owner = proc[p].owner /\ r.old = proc[p].old /\ r.upgrade = proc[p].upgrade
      /\ r.pend = proc[p].pend /\ r.flags = proc[p].flags
  <2>1. a \in WorkerPc \cup ServerPc
    BY <1>5 DEF WorkerPc, ServerPc, LoopPc
  <2>. HIDE DEF a, n, t
  <2>. QED
    BY <1>1, <1>5, <1>7, <2>1, ZenonT(60) DEF Processes
<1>9. /\ s \in Processes /\ s.st = "run" /\ s.parent = p /\ s.table = {} /\ s.owner = p
      /\ s.pend = {} /\ s.role = "worker" /\ s.pc = "top"
  <2>1. "top" \in WorkerPc \cup ServerPc
    BY DEF WorkerPc
  <2>. QED
    BY <1>1, <1>2, <1>3, <2>1, Zenon DEF Processes
<1>10. /\ \A e \in proc[p].table : e.id # proc[p].id
       /\ proc[p].id \in Nat
       /\ a = "fork" => \A e \in t : e.id \in 0 .. n - 1
  <2>1. proc[p].id \in Nat /\ \A e \in proc[p].table : e.id \in Nat \cup { UPGRADE }
    BY <1>1, Zenon DEF Processes
  <2>2. /\ proc[p].pc = "fork" => \A e \in proc[p].table : e.id \in 0 .. proc[p].id - 1
        /\ proc[p].pc = "respawn" => \A e \in proc[p].table : e.id # proc[p].id
    BY <1>1, <1>2, <1>3, Zenon DEF MemoryOk, Runs
  <2>3. \A e \in proc[p].table : e.id # proc[p].id
    BY <1>2, <2>1, <2>2
  <2>4. ASSUME a = "fork", NEW e \in t PROVE e.id \in 0 .. n - 1
    <3>1. CASE e \in proc[p].table
      BY <1>5, <2>1, <2>2, <2>4, <3>1
    <3>2. CASE e = [pid |-> Child, id |-> proc[p].id]
      BY <1>5, <2>1, <2>4, <3>2
    <3>. QED
      BY <3>1, <3>2, Zenon
  <2>. QED
    BY <2>1, <2>3, <2>4, Zenon
<1>11. MemoryOk(p)'
  <2>1. proc'[p] = r
    BY <1>4, <1>6, Zenon DEF IInv, TypeOK
  <2>2. (\E e \in t : ~IsWorker(e)) => HasHeir(p)
    BY <1>10 DEF HasHeir, IsWorker
  <2>. HIDE DEF r, a, n, t
  <2>. QED
    BY <1>1, <1>2, <1>3, <1>5, <1>8, <1>10, <2>1, <2>2, Zenon
       DEF MemoryOk, Runs, HasHeir, ServerPc, StartPc, LoopPc
<1>12. ParentIs(p, r, Child, proc[p].id)
  <2>. HIDE DEF r, a, n
  <2>. QED
    BY <1>2, <1>3, <1>5, <1>8, <1>10, Zenon DEF ParentIs, Runs, StartPc
<1>13. ChildIs(p, s, proc[p].id)
  <2>. HIDE DEF s
  <2>. QED
    BY <1>9, <1>10 DEF ChildIs, WorkerPc
<1>. HIDE DEF r, s
<1>. QED
  BY <1>2, <1>4, <1>6, <1>10, <1>11, <1>12, <1>13, ForkStep, Zenon

\* mog_upgrade_spawn(): the server has no successor, and no predecessor either.
LEMMA UpgradeSpawnInv == ASSUME IInv, NEW p \in Pids, UpgradeSpawn(p) PROVE IInv'
<1>. DEFINE t == proc[p].table \cup { [pid |-> Child, id |-> UPGRADE] }
            r == [proc[p] EXCEPT !.table = t, !.upgrade = Child, !.pc = "exit"]
            s == [proc[p] EXCEPT !.parent = p, !.pend = {}, !.table = {},
                                 !.thread = "idle", !.role = "server", !.pc = "exec"]
<1>1. proc[p] \in Processes /\ env \in Environments /\ MemoryOk(p)
  BY Known
<1>2. proc[p].st = "run" /\ proc[p].pc = "spawn" /\ UNCHANGED << file, env >>
  BY Zenon DEF UpgradeSpawn, At, Live
<1>3. /\ proc[p].role = "server" /\ proc[p].owner = p /\ proc[p].old
      /\ \A e \in proc[p].table : e.id # UPGRADE
  BY <1>1, <1>2, Zenon DEF MemoryOk, Runs, Processes, WorkerPc, LoopPc, StartPc, HasHeir, IsWorker
<1>4. Child \in Pids /\ proc[Child].st = "none" /\ Child # p
  BY <1>2 DEF UpgradeSpawn, CanFork, Child
<1>5. proc' = [proc EXCEPT ![Child] = s, ![p] = r]
  BY <1>4, Zenon DEF UpgradeSpawn, Forked, IInv, TypeOK
<1>6. t \in SUBSET [pid : Pids, id : Nat \cup { UPGRADE }]
  BY <1>1, <1>4 DEF Processes
<1>7. /\ r \in Processes /\ r.table = t /\ r.pc = "exit"
      /\ r.st = proc[p].st /\ r.role = proc[p].role /\ r.parent = proc[p].parent
      /\ r.owner = proc[p].owner /\ r.old = proc[p].old /\ r.upgrade = Child
      /\ r.pend = proc[p].pend /\ r.flags = proc[p].flags
  <2>1. "exit" \in WorkerPc \cup ServerPc
    BY DEF ServerPc
  <2>. HIDE DEF t
  <2>. QED
    BY <1>1, <1>4, <1>6, <2>1, Zenon DEF Processes
<1>8. /\ s \in Processes /\ s.st = "run" /\ s.parent = p /\ s.table = {} /\ s.owner = p
      /\ s.pend = {} /\ s.role = "server" /\ s.pc = "exec"
  <2>1. "exec" \in WorkerPc \cup ServerPc
    BY DEF ServerPc, StartPc
  <2>. QED
    BY <1>1, <1>2, <1>3, <2>1, Zenon DEF Processes
<1>9. MemoryOk(p)'
  <2>1. proc'[p] = r
    BY <1>4, <1>5 DEF IInv, TypeOK
  <2>2. Child # None
    BY <1>4
  <2>. HIDE DEF r, t
  <2>. QED
    BY <1>1, <1>2, <1>3, <1>7, <2>1, <2>2, Zenon DEF MemoryOk, Runs, ServerPc, StartPc, LoopPc
<1>10. ParentIs(p, r, Child, UPGRADE)
  <2>. HIDE DEF r
  <2>. QED
    BY <1>2, <1>3, <1>7, Zenon DEF ParentIs, Runs, StartPc
<1>11. ChildIs(p, s, UPGRADE)
  <2>. HIDE DEF s
  <2>. QED
    BY <1>3, <1>8, Zenon DEF ChildIs
<1>. HIDE DEF r, s
<1>. QED
  BY <1>2, <1>4, <1>5, <1>9, <1>10, <1>11, ForkStep, Zenon

\* waitpid() returns a child: its entry goes, and its id is free for respawn.
LEMMA ReapInv == ASSUME IInv, NEW p \in Pids, Reap(p) PROVE IInv'
<1>1. PICK c \in Zombies(p), e \in proc[p].table :
        /\ e.pid = c
        /\ proc' = [proc EXCEPT
                ![c].st = "dead",
                ![p].table = @ \ { e },
                ![p].id = IF IsWorker(e) THEN e.id ELSE @,
                ![p].pc = IF ~IsWorker(e) THEN "abort"
                          ELSE IF "QUIT" \in proc[p].flags THEN "reap" ELSE "respawn"]
  BY Zenon DEF Reap
<1>2. /\ proc[p] \in Processes /\ env \in Environments /\ MemoryOk(p) /\ FilesOk(p)
      /\ AloneOk(p) /\ TableOk(p)
  BY Known, Zenon
<1>3. /\ proc[p].st = "run" /\ proc[p].pc = "reap" /\ UNCHANGED << file, env >>
      /\ c \in Pids /\ c # p /\ proc[c].st = "zombie" /\ proc[c].parent = p
  BY Zenon DEF Reap, At, Live, Zombies
<1>4. proc[p].role = "server"
  BY <1>2, <1>3, Zenon DEF MemoryOk, Runs, Processes, WorkerPc, LoopPc
<1>. DEFINE a == IF ~IsWorker(e) THEN "abort"
                 ELSE IF "QUIT" \in proc[p].flags THEN "reap" ELSE "respawn"
            n == IF IsWorker(e) THEN e.id ELSE proc[p].id
            t == proc[p].table \ { e }
            r == [proc[p] EXCEPT !.table = t, !.id = n, !.pc = a]
            s == [proc[c] EXCEPT !.st = "dead"]
<1>5. /\ a \in { "abort", "reap", "respawn" } /\ n \in Nat
      /\ t \in SUBSET [pid : Pids, id : Nat \cup { UPGRADE }]
      /\ a = "abort" => ~IsWorker(e)
      /\ a = "respawn" => n = e.id
  BY <1>2 DEF Processes, IsWorker
<1>6. /\ r \in Processes /\ r.table = t /\ r.pc = a /\ r.id = n
      /\ r.st = proc[p].st /\ r.role = proc[p].role /\ r.parent = proc[p].parent
      /\ r.owner = proc[p].owner /\ r.old = proc[p].old /\ r.upgrade = proc[p].upgrade
      /\ r.pend = proc[p].pend /\ r.flags = proc[p].flags
  <2>1. a \in WorkerPc \cup ServerPc
    BY <1>5 DEF WorkerPc, ServerPc, LoopPc
  <2>. HIDE DEF a, n, t
  <2>. QED
    BY <1>2, <1>5, <2>1, ZenonT(60) DEF Processes
<1>7. /\ s \in Processes /\ s.st = "dead" /\ s.role = proc[c].role /\ s.parent = p
      /\ s.table = proc[c].table
  <2>1. proc[c] \in Processes
    BY <1>3 DEF IInv, TypeOK
  <2>. QED
    BY <1>3, <2>1 DEF Processes
<1>8. proc'[p] = r /\ proc'[c] = s /\ \A q \in Pids \ { p, c } : proc'[q] = proc[q]
  <2>1. /\ proc \in [Pids -> Processes]
        /\ proc' = [proc EXCEPT ![c].st = "dead", ![p].table = t, ![p].id = n, ![p].pc = a]
    BY <1>1, <1>3 DEF IInv, TypeOK
  <2>. HIDE DEF t, n, a
  <2>2. proc'[p] = r
    BY <1>3, <2>1, Zenon
  <2>. QED
    BY <1>3, <2>1, <2>2, Zenon
<1>9. DOMAIN proc' = Pids /\ proc' = [q \in Pids |-> proc'[q]]
  BY <1>1, <1>3, Zenon DEF IInv, TypeOK
<1>. HIDE DEF r, s, a, n
<1>10. \A f \in t : f \in proc[p].table /\ f.id # e.id /\ f.pid # c /\ f.pid \in Pids
  BY <1>1, <1>2, Zenon DEF TableOk, Processes
<1>11. TypeOK' /\ NamesOk'
  <2>1. proc' \in [Pids -> Processes]
    <3>1. \A q \in Pids : proc'[q] \in Processes
      BY <1>3, <1>6, <1>7, <1>8 DEF IInv, TypeOK
    <3>. QED
      BY <1>9, <3>1, Zenon
  <2>2. \A q \in Pids : proc'[q].role = proc[q].role /\ (proc[q].st # "none" => proc'[q].st # "none")
    BY <1>3, <1>6, <1>7, <1>8, Zenon
  <2>. QED
    BY <1>3, <2>1, <2>2, Zenon DEF IInv, TypeOK, NamesOk
<1>12. \A q \in Pids : /\ proc'[q].parent = proc[q].parent /\ proc'[q].role = proc[q].role
                       /\ q # c => proc'[q].st = proc[q].st
                       /\ q # p => proc'[q].table = proc[q].table
  BY <1>3, <1>6, <1>7, <1>8, Zenon
<1>13. ASSUME NEW q \in Pids PROVE ChildOk(q)'
  <2>1. ChildOk(q) /\ (Left(q)' => Left(q) /\ q # c)
    BY <1>7, <1>8, <1>12, Zenon DEF IInv, Left
  <2>2. proc'[q].st = "none" => proc[q].st = "none"
    BY <1>7, <1>8, <1>12, Zenon
  <2>3. ASSUME NEW x \in Pids, proc[q].parent = x
        PROVE  /\ proc'[x].st = "run" /\ proc'[x].role = "server" /\ proc'[x].pc \notin StartPc
               /\ Left(q)' => \E f \in proc'[x].table : f.pid = q
    <3>1. /\ proc[x].st = "run" /\ proc[x].role = "server" /\ proc[x].pc \notin StartPc
          /\ Left(q) => \E f \in proc[x].table : f.pid = q
      BY <2>1, <2>3 DEF ChildOk
    <3>2. CASE x = p
      BY <1>1, <1>3, <1>5, <1>6, <1>8, <2>1, <3>1, <3>2, Zenon DEF StartPc
    <3>3. CASE x # p
      BY <1>3, <1>8, <2>1, <3>1, <3>3
    <3>. QED
      BY <3>2, <3>3, Zenon
  <2>. QED
    BY <1>12, <2>1, <2>2, <2>3, Zenon DEF ChildOk
<1>14. ASSUME NEW q \in Pids PROVE TableOk(q)'
  <2>1. TableOk(q) /\ \A f \in proc[q].table : f.pid \in Pids
    BY DEF IInv, TypeOK, Processes
  <2>2. CASE q = p
    BY <1>6, <1>8, <1>10, <1>12, <2>1, <2>2 DEF TableOk, Left
  <2>3. CASE q # p
    <3>1. \A f \in proc[q].table : f.pid # c
      BY <1>3, <2>1, <2>3, Zenon DEF TableOk
    <3>. QED
      BY <1>12, <2>1, <2>3, <3>1 DEF TableOk, Left
  <2>. QED
    BY <2>2, <2>3
<1>15. ASSUME NEW q \in Pids PROVE MemoryOk(q)'
  <2>1. CASE q = p
    <3>1. a = "abort" => \A f \in t : IsWorker(f)
      BY <1>5, <1>10 DEF IsWorker
    <3>2. \A f \in t : f \in proc[p].table
      OBVIOUS
    <3>. HIDE DEF t
    <3>3. (HasHeir(p)' => HasHeir(p)) /\ (a = "abort" => ~HasHeir(p)' /\ HasHeir(p))
      BY <1>1, <1>5, <1>6, <1>8, <3>1, <3>2, Zenon DEF HasHeir
    <3>4. a = "respawn" => \A f \in t : f.id # n
      BY <1>5, <1>10
    <3>. QED
      BY <1>2, <1>3, <1>4, <1>5, <1>6, <1>8, <2>1, <3>3, <3>4, Zenon
         DEF MemoryOk, Runs, ServerPc, StartPc, LoopPc
  <2>2. CASE q = c
    BY <1>7, <1>8, <2>2, Zenon DEF MemoryOk, Runs
  <2>3. CASE q \notin { p, c }
    BY <1>8, <2>3 DEF IInv, MemoryOk, Runs, HasHeir
  <2>. QED
    BY <2>1, <2>2, <2>3
<1>16. ASSUME NEW q \in Pids PROVE FilesOk(q)' /\ AloneOk(q)'
  <2>1. CASE q = p
    BY <1>2, <1>3, <1>4, <1>5, <1>6, <1>8, <2>1 DEF FilesOk, AloneOk, Runs, StartPc
  <2>2. CASE q = c
    BY <1>7, <1>8, <2>2, Zenon DEF FilesOk, AloneOk, Runs
  <2>3. CASE q \notin { p, c }
    <3>1. FilesOk(q) /\ AloneOk(q) /\ proc'[q] = proc[q]
      BY <1>8, <2>3, Zenon DEF IInv
    <3>2. ~PidIsRunning(file.pid) => ~PidIsRunning(file.pid)'
      BY <1>3, <1>7, <1>8, <1>12, Zenon DEF PidIsRunning
    <3>. QED
      BY <1>3, <3>1, <3>2, Zenon DEF FilesOk, AloneOk, Runs
  <2>. QED
    BY <2>1, <2>2, <2>3, Zenon
<1>17. ASSUME NEW q \in Pids, NEW x \in Pids PROVE HeirOk(q, x)'
  <2>1. (Left(q)' => Left(q)) /\ (Left(x)' => Left(x)) /\ HeirOk(q, x)
    BY <1>3, <1>12, Zenon DEF IInv, Left
  <2>. QED
    BY <1>12, <2>1, Zenon DEF HeirOk
<1>. QED
  BY <1>11, <1>13, <1>14, <1>15, <1>16, <1>17, Zenon DEF IInv

-----------------------------------------------------------------------------
(* The files *)

\* Beside a server at one of these places there is no other that the files
\* could name, or could be about to.
LEMMA NoRival ==
    ASSUME IInv, NEW p \in Pids, Runs(p, "server"), NEW q \in Pids \ { p }, Runs(q, "server")
    PROVE  /\ proc[p].pc \in { "open", "commit" } =>
                  proc[q].pc \notin StartPc \cup { "restore" } /\ file.pid # q
           /\ proc[p].pc # "restore"
           /\ proc[p].pc = "oldbin" /\ ~env.overlap /\ ~proc[p].old => file.old # q
<1>1. Left(p) /\ Left(q) /\ proc[p].role = "server" /\ proc[q].role = "server"
  BY Zenon DEF Left, Runs
<1>2. proc[q].parent = p \/ proc[p].parent = q
  BY <1>1, Zenon DEF IInv, HeirOk
<1>3. CASE proc[q].parent = p
  BY <1>1, <1>3, OneHeir, Zenon DEF IInv, MemoryOk, Runs, StartPc
<1>4. CASE proc[p].parent = q
  <2>1. /\ proc[q].pc \notin StartPc /\ HasHeir(q) /\ file.old = q /\ file.pid # q
    BY <1>1, <1>4, OneHeir, Zenon
  <2>2. proc[q].pc # "restore"
    BY <2>1, Zenon DEF IInv, MemoryOk
  <2>3. proc[p].pc # "restore"
    BY <2>1, Zenon DEF IInv, MemoryOk, FilesOk, Runs
  <2>4. proc[p].pc = "oldbin" /\ ~env.overlap => FALSE
    BY <1>4 DEF IInv, AloneOk
  <2>. QED
    BY <2>1, <2>2, <2>3, <2>4, Zenon
<1>. QED
  BY <1>2, <1>3, <1>4, Zenon

\* The new program starts with an empty memory.
LEMMA ExecInv == ASSUME IInv, NEW p \in Pids, Exec(p) PROVE IInv'
<1>. DEFINE r == [Blank EXCEPT !.st = "run", !.pc = "open", !.parent = proc[p].parent,
                               !.pend = proc[p].pend]
<1>1. /\ proc[p] \in Processes /\ env \in Environments /\ MemoryOk(p) /\ FilesOk(p)
      /\ AloneOk(p) /\ TableOk(p)
  BY Known
<1>2. /\ proc[p].st = "run" /\ proc[p].pc = "exec" /\ UNCHANGED << file, env >>
      /\ proc' = [proc EXCEPT ![p] = r]
  BY DEF Exec, At, Live
<1>3. proc[p].role = "server"
  BY <1>1, <1>2 DEF MemoryOk, Runs, Processes, WorkerPc, LoopPc
<1>4. proc[p].table = {}
  <2>1. ASSUME NEW e \in proc[p].table PROVE FALSE
    <3>1. e.pid \in Pids /\ proc[e.pid].parent = p
      BY <1>1, Zenon DEF TableOk, Processes
    <3>2. ChildOk(e.pid)
      BY <3>1 DEF IInv
    <3>. QED
      BY <1>2, <3>1, <3>2, Zenon DEF ChildOk, StartPc
  <2>. QED
    BY <2>1
<1>5. /\ r \in Processes /\ r.st = "run" /\ r.role = "server" /\ r.table = {}
      /\ r.parent = proc[p].parent /\ r.pc = "open" /\ r.pend = proc[p].pend /\ r.flags = {}
      /\ r.id = 0 /\ r.upgrade = None /\ r.old = FALSE /\ r.owner = None
  <2>1. "open" \in WorkerPc \cup ServerPc
    BY DEF ServerPc, StartPc
  <2>. QED
    BY <1>1, <2>1, ZenonT(60) DEF Processes, Blank
<1>6. proc'[p] = r
  BY <1>2 DEF IInv, TypeOK
<1>. HIDE DEF r
<1>7. MemoryOk(p)'
  BY <1>5, <1>6 DEF MemoryOk, Runs, HasHeir, ServerPc, StartPc
<1>8. FilesOk(p)' /\ AloneOk(p)'
  BY <1>1, <1>2, <1>3, <1>5, <1>6 DEF FilesOk, AloneOk, Runs, StartPc
<1>. QED
  BY <1>1, <1>2, <1>3, <1>4, <1>5, <1>7, <1>8, LocalStep, Zenon DEF StartPc

\* A step of p that changes proc[p], but not its place in the family, and the
\* files.
LEMMA FileStep ==
    ASSUME IInv, NEW p \in Pids, NEW r \in Processes, proc' = [proc EXCEPT ![p] = r],
           env' = env,
           file' \in [pid : { file.pid, p, None, 0 }, old : { file.old, p, None }],
           Runs(p, "server"), r.st = "run", r.role = "server", r.parent = proc[p].parent,
           r.table = proc[p].table, proc[p].pc \notin StartPc => r.pc \notin StartPc,
           \A q \in Pids \ { p } : Runs(q, "server") =>
               /\ (file'.old = q) <=> (file.old = q)
               /\ (file'.pid = q) <=> (file.pid = q)
               /\ proc[q].pc \in { "commit", "restore" } =>
                      file'.pid \in { None, 0 } \/ file'.pid = file.pid,
           MemoryOk(p)', FilesOk(p)', AloneOk(p)'
    PROVE  IInv'
<1>1. proc' \in [Pids -> Processes] /\ proc'[p] = r
  BY DEF IInv, TypeOK
<1>2. /\ \A q \in Pids : SameRank(q)
      /\ \A q \in Pids \ { p } : SameMemory(q)
  BY <1>1, Zenon DEF IInv, TypeOK, SameRank, SameMemory, Runs
<1>3. TypeOK' /\ NamesOk'
  <2>1. /\ file' \in [pid : Pids \cup { None, 0, Foreign }, old : Pids \cup { None }]
        /\ file'.pid \in { file.pid, p, None, 0 } /\ file'.old \in { file.old, p, None }
    BY DEF IInv, TypeOK
  <2>2. TypeOK'
    BY <1>1, <2>1 DEF IInv, TypeOK
  <2>3. proc'[p].st = "run" /\ proc'[p].role = "server" /\ None \notin Pids /\ 0 \notin Pids
    BY <1>1
  <2>4. NamesOk'
    BY <1>2, <2>1, <2>3 DEF IInv, NamesOk, SameRank
  <2>. QED
    BY <2>2, <2>4
<1>4. ASSUME NEW q \in Pids \ { p } PROVE SameFiles(q)
  <2>1. FilesOk(q)
    BY Zenon DEF IInv
  <2>2. ASSUME Runs(q, "server"), proc[q].pc \in { "commit", "restore" }
        PROVE  ~PidIsRunning(file.pid)'
    <3>1. ~PidIsRunning(file.pid)
      BY <2>1, <2>2, Zenon DEF FilesOk
    <3>2. file'.pid \in { None, 0 } \/ file'.pid = file.pid
      BY <2>2, Zenon
    <3>3. None \notin Pids /\ None # Foreign /\ 0 \notin Pids /\ 0 # Foreign
      OBVIOUS
    <3>. QED
      BY <1>2, <3>1, <3>2, <3>3 DEF PidIsRunning, SameRank
  <2>. QED
    BY <2>2, Zenon DEF SameFiles
<1>. QED
  BY <1>1, <1>2, <1>3, <1>4, OwnStep

\* mog_pidfile_prepare() and mog_pidfile_commit().
LEMMA PidfileOpenInv == ASSUME IInv, NEW p \in Pids, PidfileOpen(p) PROVE IInv'
<1>. DEFINE r == [proc[p] EXCEPT !.exists = TRUE, !.pc = "commit"]
<1>1. /\ proc[p] \in Processes /\ env \in Environments /\ MemoryOk(p) /\ FilesOk(p)
      /\ AloneOk(p)
  BY Known
<1>2. /\ proc[p].st = "run" /\ proc[p].pc = "open" /\ env' = env
      /\ proc' = [proc EXCEPT ![p] = r] /\ ~PidIsRunning(file.pid)
      /\ file' = [file EXCEPT !.pid = IF @ = None THEN 0 ELSE @]
  BY Zenon DEF PidfileOpen, At, Live
<1>3. Runs(p, "server")
  BY <1>1, <1>2 DEF MemoryOk, Runs, Processes, WorkerPc, LoopPc
<1>4. /\ r \in Processes /\ r.pc = "commit" /\ SameFields(p, r) /\ r.id = proc[p].id
      /\ r.pend = proc[p].pend /\ r.flags = proc[p].flags
  <2>1. "commit" \in WorkerPc \cup ServerPc
    BY DEF ServerPc, StartPc
  <2>. QED
    BY <1>1, <2>1, Zenon DEF Processes, SameFields
<1>5. file'.old = file.old /\ (file'.pid = file.pid \/ (file.pid = None /\ file'.pid = 0))
      /\ file' \in [pid : { file.pid, p, None, 0 }, old : { file.old, p, None }]
  BY <1>2, Zenon DEF IInv, TypeOK
<1>6. proc'[p] = r /\ \A q \in Pids : proc'[q].st = proc[q].st
  BY <1>2, <1>4 DEF IInv, TypeOK, SameFields
<1>. HIDE DEF r
<1>7. MemoryOk(p)'
  BY <1>1, <1>2, <1>3, <1>4, <1>6, Zenon DEF MemoryOk, Runs, HasHeir, SameFields, ServerPc, StartPc
<1>8. ~PidIsRunning(file.pid)'
  <2>1. 0 \notin Pids /\ 0 # Foreign
    OBVIOUS
  <2>. QED
    BY <1>2, <1>5, <1>6, <2>1, Zenon DEF PidIsRunning
<1>9. FilesOk(p)'
  BY <1>1, <1>2, <1>3, <1>4, <1>5, <1>6, <1>8, Zenon DEF FilesOk, MemoryOk, Runs, SameFields
<1>10. AloneOk(p)'
  BY <1>1, <1>2, <1>3, <1>4, <1>5, <1>6, Zenon DEF AloneOk, Runs, SameFields, StartPc
<1>11. \A q \in Pids : file'.pid = q <=> file.pid = q
  BY <1>5
<1>. QED
  BY <1>2, <1>3, <1>4, <1>5, <1>7, <1>9, <1>10, <1>11, FileStep, Zenon DEF SameFields, Runs, StartPc

LEMMA PidfileCommitInv == ASSUME IInv, NEW p \in Pids, PidfileCommit(p) PROVE IInv'
<1>. DEFINE c == IF env.nworkers = 0 THEN "wait" ELSE "fork"
            r == [proc[p] EXCEPT !.owner = p, !.pc = c]
<1>1. /\ proc[p] \in Processes /\ env \in Environments /\ MemoryOk(p) /\ FilesOk(p)
      /\ AloneOk(p) /\ TableOk(p)
  BY Known
<1>2. /\ proc[p].st = "run" /\ proc[p].pc = "commit" /\ env' = env
      /\ proc' = [proc EXCEPT ![p] = r] /\ file' = [file EXCEPT !.pid = p]
  BY Zenon DEF PidfileCommit, At, Live
<1>3. Runs(p, "server")
  BY <1>1, <1>2 DEF MemoryOk, Runs, Processes, WorkerPc, LoopPc
<1>4. c \in { "wait", "fork" }
  OBVIOUS
<1>5. /\ r \in Processes /\ r.pc = c /\ r.id = proc[p].id /\ r.owner = p
      /\ r.st = proc[p].st /\ r.role = proc[p].role /\ r.parent = proc[p].parent
      /\ r.table = proc[p].table /\ r.old = proc[p].old /\ r.upgrade = proc[p].upgrade
      /\ r.pend = proc[p].pend /\ r.flags = proc[p].flags
  <2>1. c \in WorkerPc \cup ServerPc
    BY DEF WorkerPc, ServerPc, LoopPc
  <2>. HIDE DEF c
  <2>. QED
    BY <1>1, <2>1, Zenon DEF Processes
<1>6. file'.old = file.old /\ file'.pid = p
      /\ file' \in [pid : { file.pid, p, None, 0 }, old : { file.old, p, None }]
  BY <1>2, Zenon DEF IInv, TypeOK
<1>7. proc'[p] = r
  BY <1>2 DEF IInv, TypeOK
<1>. HIDE DEF r, c
<1>8. ~HasHeir(p) /\ proc[p].table = {}
  <2>1. ASSUME NEW e \in proc[p].table PROVE FALSE
    <3>1. e.pid \in Pids /\ proc[e.pid].parent = p
      BY <1>1 DEF TableOk, Processes
    <3>2. ChildOk(e.pid)
      BY <3>1 DEF IInv
    <3>. QED
      BY <1>2, <3>1, <3>2, Zenon DEF ChildOk, StartPc
  <2>. QED
    BY <2>1 DEF HasHeir
<1>9. MemoryOk(p)'
  BY <1>1, <1>2, <1>3, <1>4, <1>5, <1>7, <1>8, Zenon
     DEF MemoryOk, Runs, HasHeir, ServerPc, LoopPc, StartPc
<1>10. FilesOk(p)' /\ AloneOk(p)'
  BY <1>1, <1>2, <1>3, <1>4, <1>5, <1>6, <1>7 DEF FilesOk, AloneOk, MemoryOk, Runs, StartPc
<1>11. ASSUME NEW q \in Pids \ { p }, Runs(q, "server")
       PROVE  file.pid # q /\ proc[q].pc \notin { "commit", "restore" }
  BY <1>2, <1>3, <1>11, NoRival, Zenon DEF StartPc
<1>. QED
  BY <1>2, <1>3, <1>4, <1>5, <1>6, <1>9, <1>10, <1>11, FileStep, ZenonT(60) DEF Runs, StartPc

\* mog_pidfile_upgrade_prepare().
LEMMA PrepareUnlinkInv == ASSUME IInv, NEW p \in Pids, PrepareUnlink(p) PROVE IInv'
<1>1. /\ proc[p] \in Processes /\ env \in Environments /\ MemoryOk(p) /\ FilesOk(p)
      /\ AloneOk(p)
  BY Known
<1>2. proc[p].st = "run" /\ proc[p].pc = "unlink" /\ env' = env
  BY Zenon DEF PrepareUnlink, At, Live
<1>3. Runs(p, "server")
  BY <1>1, <1>2, Zenon DEF MemoryOk, Runs, Processes, WorkerPc, LoopPc
<1>4. ASSUME NEW c \in { "oldbin", "exit" }
      PROVE  LET r == [proc[p] EXCEPT !.pc = c] IN
             /\ r \in Processes /\ r.pc = c /\ SameFields(p, r) /\ r.id = proc[p].id
             /\ r.pend = proc[p].pend /\ r.flags = proc[p].flags
  <2>1. c \in WorkerPc \cup ServerPc
    BY DEF ServerPc
  <2>. QED
    BY <1>1, <2>1, Zenon DEF Processes, SameFields
<1>5. CASE ~MayUnlink(p, "pid")
  <2>. DEFINE r == [proc[p] EXCEPT !.pc = "exit"]
  <2>1. file' = file /\ proc' = [proc EXCEPT ![p] = r]
    BY <1>5 DEF PrepareUnlink, Goto
  <2>2. /\ r \in Processes /\ r.pc = "exit" /\ SameFields(p, r)
        /\ r.pend = proc[p].pend /\ r.flags = proc[p].flags
    BY <1>4
  <2>. HIDE DEF r
  <2>. QED
    BY <1>1, <1>2, <1>3, <2>1, <2>2, TurnStep, Zenon DEF SameFields, Runs, StartPc, PlainPc
<1>6. CASE MayUnlink(p, "pid")
  <2>. DEFINE r == [proc[p] EXCEPT !.pc = "oldbin"]
  <2>1. file' = [file EXCEPT !.pid = None] /\ proc' = [proc EXCEPT ![p] = r]
    BY <1>6 DEF PrepareUnlink, Goto
  <2>2. /\ r \in Processes /\ r.pc = "oldbin" /\ SameFields(p, r) /\ r.id = proc[p].id
        /\ r.pend = proc[p].pend /\ r.flags = proc[p].flags
    BY <1>4
  <2>3. file'.old = file.old /\ file'.pid = None
        /\ file' \in [pid : { file.pid, p, None, 0 }, old : { file.old, p, None }]
    BY <2>1, Zenon DEF IInv, TypeOK
  <2>4. proc'[p] = r
    BY <2>1 DEF IInv, TypeOK
  <2>. HIDE DEF r
  <2>5. MemoryOk(p)'
    BY <1>1, <1>2, <1>3, <2>2, <2>4, Zenon DEF MemoryOk, Runs, HasHeir, SameFields, ServerPc, StartPc
  <2>6. FilesOk(p)' /\ AloneOk(p)'
    <3>1. FilesOk(p)'
      BY <1>1, <1>2, <1>3, <2>2, <2>3, <2>4 DEF FilesOk, Runs, SameFields
    <3>2. AloneOk(p)'
      BY <1>1, <1>2, <1>3, <2>2, <2>3, <2>4, Zenon DEF AloneOk, Runs, SameFields, StartPc
    <3>. QED
      BY <3>1, <3>2, Zenon
  <2>7. ASSUME NEW q \in Pids \ { p }, Runs(q, "server") PROVE file.pid # q
    BY <1>6, <2>7, Zenon DEF MayUnlink, PidIsRunning, Runs
  <2>8. /\ r.st = "run" /\ r.role = "server" /\ r.parent = proc[p].parent
        /\ r.table = proc[p].table /\ r.pc \notin StartPc /\ None \notin Pids
    BY <1>3, <2>2 DEF SameFields, Runs, StartPc
  <2>. QED
    BY <1>2, <1>3, <2>1, <2>2, <2>3, <2>5, <2>6, <2>7, <2>8, FileStep, Zenon
<1>. QED
  BY <1>5, <1>6

LEMMA PrepareOldInv == ASSUME IInv, NEW p \in Pids, PrepareOld(p) PROVE IInv'
<1>1. /\ proc[p] \in Processes /\ env \in Environments /\ MemoryOk(p) /\ FilesOk(p)
      /\ AloneOk(p)
  BY Known
<1>2. proc[p].st = "run" /\ proc[p].pc = "oldbin" /\ env' = env /\ ~proc[p].old
  BY Zenon DEF PrepareOld, At, Live
<1>3. Runs(p, "server")
  BY <1>1, <1>2 DEF MemoryOk, Runs, Processes, WorkerPc, LoopPc
<1>4. CASE PidIsRunning(file.old)
  <2>. DEFINE r == [proc[p] EXCEPT !.pc = "exit"]
  <2>1. file' = file /\ proc' = [proc EXCEPT ![p] = r]
    BY <1>4 DEF PrepareOld, Goto
  <2>2. /\ r \in Processes /\ r.pc = "exit" /\ SameFields(p, r)
        /\ r.pend = proc[p].pend /\ r.flags = proc[p].flags
    <3>1. "exit" \in WorkerPc \cup ServerPc
      BY DEF ServerPc
    <3>. QED
      BY <1>1, <3>1, Zenon DEF Processes, SameFields
  <2>3. env.overlap
    <3>1. SUFFICES ASSUME ~env.overlap PROVE FALSE
      BY <1>1, Zenon DEF Environments
    <3>2. /\ file.old \in Pids \ { p } /\ Left(file.old) /\ proc[file.old].role = "server"
      BY <1>1, <1>2, <1>3, <1>4 DEF IInv, TypeOK, NamesOk, PidIsRunning, Left, FilesOk
    <3>3. proc[p].parent = Init_ /\ Left(p) /\ proc[p].role = "server"
      BY <1>1, <1>2, <1>3, <3>1, Zenon DEF AloneOk, Left, Runs
    <3>4. proc[file.old].parent = p
      BY <3>2, <3>3 DEF IInv, HeirOk
    <3>. QED
      BY <1>2, <3>2, <3>3, <3>4, OneHeir, Zenon
  <2>4. proc'[p] = r /\ \A q \in Pids : proc'[q].st = proc[q].st
    BY <1>3, <2>1, <2>2, Zenon DEF IInv, TypeOK, SameFields
  <2>. HIDE DEF r
  <2>5. MemoryOk(p)'
    BY <1>1, <1>2, <1>3, <2>2, <2>4, Zenon DEF MemoryOk, Runs, HasHeir, SameFields, ServerPc, StartPc
  <2>6. FilesOk(p)' /\ AloneOk(p)'
    BY <1>1, <1>2, <1>3, <2>1, <2>2, <2>3, <2>4, Zenon DEF FilesOk, AloneOk, Runs, SameFields
  <2>. QED
    BY <1>1, <1>2, <1>3, <2>1, <2>2, <2>5, <2>6, LocalStep, Zenon DEF SameFields, StartPc
<1>5. CASE ~PidIsRunning(file.old)
  <2>. DEFINE r == [proc[p] EXCEPT !.old = TRUE, !.pc = "spawn"]
  <2>1. file' = [file EXCEPT !.old = p] /\ proc' = [proc EXCEPT ![p] = r]
    BY <1>5, Zenon DEF PrepareOld
  <2>2. /\ r \in Processes /\ r.pc = "spawn" /\ r.old = TRUE /\ r.id = proc[p].id
        /\ r.st = proc[p].st /\ r.role = proc[p].role /\ r.parent = proc[p].parent
        /\ r.table = proc[p].table /\ r.upgrade = proc[p].upgrade /\ r.owner = proc[p].owner
        /\ r.pend = proc[p].pend /\ r.flags = proc[p].flags
    <3>1. "spawn" \in WorkerPc \cup ServerPc
      BY DEF ServerPc
    <3>. QED
      BY <1>1, <3>1, Zenon DEF Processes
  <2>3. /\ file'.old = p /\ file'.pid = file.pid
        /\ file' \in [pid : { file.pid, p, None, 0 }, old : { file.old, p, None }]
    BY <2>1 DEF IInv, TypeOK
  <2>4. proc'[p] = r
    BY <2>1 DEF IInv, TypeOK
  <2>. HIDE DEF r
  <2>5. MemoryOk(p)'
    BY <1>1, <1>2, <1>3, <2>2, <2>4, Zenon DEF MemoryOk, Runs, HasHeir, ServerPc, StartPc
  <2>6. FilesOk(p)' /\ AloneOk(p)'
    BY <1>1, <1>2, <1>3, <2>2, <2>3, <2>4, Zenon DEF FilesOk, AloneOk, Runs, StartPc
  <2>7. ASSUME NEW q \in Pids \ { p }, Runs(q, "server") PROVE file.old # q
    BY <1>5, <2>7, Zenon DEF PidIsRunning, Runs
  <2>8. /\ r.st = "run" /\ r.role = "server" /\ r.pc \notin StartPc
    BY <1>3, <2>2 DEF Runs, StartPc
  <2>. QED
    BY <1>2, <1>3, <2>1, <2>2, <2>3, <2>5, <2>6, <2>7, <2>8, FileStep, Zenon
<1>. QED
  BY <1>4, <1>5

\* mog_pidfile_upgrade_abort() takes the pid file back.
LEMMA AbortRestoreInv == ASSUME IInv, NEW p \in Pids, AbortRestore(p) PROVE IInv'
<1>. DEFINE r == [proc[p] EXCEPT !.exists = TRUE, !.upgrade = None, !.pc = "reap",
                                 !.old = FALSE]
<1>1. /\ proc[p] \in Processes /\ env \in Environments /\ MemoryOk(p) /\ FilesOk(p)
      /\ AloneOk(p)
  BY Known
<1>2. proc[p].st = "run" /\ proc[p].pc = "restore" /\ env' = env
  BY Zenon DEF AbortRestore, At, Live
<1>3. Runs(p, "server")
  BY <1>1, <1>2, Zenon DEF MemoryOk, Runs, Processes, WorkerPc, LoopPc
<1>4. proc[p].old /\ ~HasHeir(p) /\ file.old = p
  BY <1>1, <1>2, <1>3 DEF MemoryOk, FilesOk, Runs
<1>5. file' = [pid |-> p, old |-> None] /\ proc' = [proc EXCEPT ![p] = r]
  BY <1>4, Zenon DEF AbortRestore, MayUnlink
<1>6. /\ r \in Processes /\ r.pc = "reap" /\ r.old = FALSE /\ r.upgrade = None
      /\ r.st = proc[p].st /\ r.role = proc[p].role /\ r.parent = proc[p].parent
      /\ r.table = proc[p].table /\ r.owner = proc[p].owner
      /\ r.pend = proc[p].pend /\ r.flags = proc[p].flags
  <2>1. "reap" \in WorkerPc \cup ServerPc
    BY DEF ServerPc
  <2>. QED
    BY <1>1, <2>1, Zenon DEF Processes
<1>7. /\ file'.pid = p /\ file'.old = None
      /\ file' \in [pid : { file.pid, p, None, 0 }, old : { file.old, p, None }]
  BY <1>5
<1>8. proc'[p] = r
  BY <1>5 DEF IInv, TypeOK
<1>. HIDE DEF r
<1>9. MemoryOk(p)'
  BY <1>1, <1>2, <1>3, <1>4, <1>6, <1>8, Zenon DEF MemoryOk, Runs, HasHeir, ServerPc, StartPc
<1>10. FilesOk(p)' /\ AloneOk(p)'
  BY <1>1, <1>2, <1>3, <1>6, <1>7, <1>8 DEF FilesOk, AloneOk, Runs, StartPc
<1>11. ASSUME NEW q \in Pids \ { p }, Runs(q, "server") PROVE FALSE
  BY <1>2, <1>3, <1>11, NoRival, Zenon
<1>12. r.st = "run" /\ r.role = "server" /\ r.pc \notin StartPc
  BY <1>3, <1>6, Zenon DEF Runs, StartPc
<1>. QED
  BY <1>2, <1>3, <1>5, <1>6, <1>7, <1>9, <1>10, <1>11, <1>12, FileStep, Zenon

-----------------------------------------------------------------------------
(* Theorems *)

LEMMA StepInv == ASSUME IInv, [Next]_vars PROVE IInv'
<1>1. ASSUME NEW p \in Pids, Step(p) PROVE IInv'
  BY <1>1, ExecInv, PidfileOpenInv, PidfileCommitInv, ForkWorkerInv, ForkFailsInv,
     WorkerInv, SleepInv, ServerTurnInv, ReapInv, AbortCheckInv, AbortRestoreInv,
     UpgradeHandlerInv, PrepareUnlinkInv, PrepareOldInv, UpgradeSpawnInv, ExitCheckInv,
     EndInv, Zenon DEF Step
<1>2. ASSUME NEW p \in Pids,
             Thread(p) \/ Ask(p) \/ Quit(p) \/ CmogstoredQuit(p) \/ Usr2(p) \/ Kill(p)
      PROVE  IInv'
  BY <1>2, ThreadInv, Usr2Inv, EndInv, Zenon DEF Thread
<1>3. CASE UNCHANGED vars
  <2>1. proc' = proc /\ file' = file /\ env' = env
    BY <1>3, Zenon DEF vars
  <2>2. TypeOK' /\ NamesOk'
    BY <2>1, Zenon DEF IInv, TypeOK, NamesOk
  <2>3. ASSUME NEW q \in Pids PROVE ChildOk(q)' /\ TableOk(q)'
    BY <2>1 DEF IInv, ChildOk, TableOk, Left
  <2>4. ASSUME NEW q \in Pids PROVE MemoryOk(q)' /\ FilesOk(q)' /\ AloneOk(q)'
    BY <2>1, Known, Zenon DEF MemoryOk, FilesOk, AloneOk, Runs, HasHeir, PidIsRunning
  <2>5. ASSUME NEW q \in Pids, NEW r \in Pids PROVE HeirOk(q, r)'
    BY <2>1, Zenon DEF IInv, HeirOk, Left
  <2>. QED
    BY <2>2, <2>3, <2>4, <2>5, Zenon DEF IInv
<1>. QED
  BY <1>1, <1>2, <1>3, Zenon DEF Next

\* Every reachable state of the processes and of the pid files satisfies IInv.
THEOREM Invariance == Spec => []IInv
<1>1. Init => IInv
  <2>. SUFFICES ASSUME Init PROVE IInv
    OBVIOUS
  <2>1. Blank \in Processes /\ [Blank EXCEPT !.st = "run", !.pc = "open"] \in Processes
    BY Zenon DEF Blank, Processes, Signals, ServerPc, StartPc
  <2>2. TypeOK /\ file.pid \notin Pids /\ file.old \notin Pids /\ 0 \notin Pids
    BY <2>1 DEF Init, TypeOK
  <2>3. ASSUME NEW q \in Pids
        PROVE  /\ proc[q].parent = Init_ /\ proc[q].table = {} /\ proc[q].role = "server"
               /\ q # 1 => proc[q].st = "none"
               /\ proc[q].st \in { "none", "run" }
               /\ proc[q].pend = {} /\ proc[q].flags = {} /\ proc[q].id = 0
               /\ proc[q].upgrade = None /\ proc[q].old = FALSE /\ proc[q].owner = None
               /\ proc[q].st = "run" => proc[q].pc = "open"
    BY Zenon DEF Init, Blank
  <2>4. NamesOk
    BY <2>2 DEF NamesOk
  <2>5. ASSUME NEW q \in Pids
        PROVE  ChildOk(q) /\ TableOk(q) /\ MemoryOk(q) /\ FilesOk(q) /\ AloneOk(q)
    BY <2>2, <2>3, Zenon DEF ChildOk, TableOk, MemoryOk, FilesOk, AloneOk, Runs, HasHeir,
       ServerPc, StartPc
  <2>6. ASSUME NEW q \in Pids, NEW x \in Pids PROVE HeirOk(q, x)
    BY <2>3, Zenon DEF HeirOk, Left
  <2>. QED
    BY <2>2, <2>4, <2>5, <2>6, Zenon DEF IInv
<1>. QED
  BY <1>1, StepInv, PTL DEF Spec

\* The master's table of children is exact, no two workers have one id, and
\* run_master() returns only when no worker is left.
THEOREM SupervisedAlways == Spec => []Supervised
<1>1. IInv => Supervised
  <2>. SUFFICES ASSUME IInv, NEW p \in Servers
                PROVE  /\ { e.pid : e \in proc[p].table } =
                              { c \in Pids : proc[c].parent = p /\ proc[c].st \in { "run", "zombie" } }
                       /\ \A e, f \in proc[p].table : e.id = f.id \/ e.pid = f.pid => e = f
                       /\ proc[p].pc = "leave" =>
                              \A c \in Pids : proc[c].parent = p /\ proc[c].role = "worker" =>
                                  proc[c].st = "dead"
    BY Zenon DEF Supervised
  <2>1. p \in Pids /\ TableOk(p) /\ MemoryOk(p) /\ Runs(p, "server")
        /\ \A e \in proc[p].table : e.pid \in Pids
    BY Zenon DEF Servers, IInv, TypeOK, Processes, Live, Runs
  <2>2. ASSUME NEW c \in Pids, proc[c].parent = p, Left(c) PROVE \E e \in proc[p].table : e.pid = c
    BY <2>1, <2>2, Zenon DEF IInv, ChildOk
  <2>3. { e.pid : e \in proc[p].table } =
            { c \in Pids : proc[c].parent = p /\ proc[c].st \in { "run", "zombie" } }
    BY <2>1, <2>2 DEF TableOk, Left
  <2>4. ASSUME proc[p].pc = "leave", NEW c \in Pids, proc[c].parent = p, proc[c].role = "worker"
        PROVE  proc[c].st = "dead"
    <3>1. ~Left(c)
      BY <2>1, <2>2, <2>4, Zenon DEF TableOk, MemoryOk
    <3>. QED
      BY <2>1, <2>4, <3>1 DEF IInv, TypeOK, Processes, ChildOk, Left
  <2>. QED
    BY <2>1, <2>3, <2>4, Zenon DEF TableOk
<1>. QED
  BY <1>1, Invariance, PTL

\* A server that waits is named by the file it believes to own.
THEOREM NamedAlways == Spec => []Named
<1>1. IInv => Named
  BY Zenon DEF IInv, Named, Servers, Live, Runs, FilesOk, AloneOk, StartPc
<1>. QED
  BY <1>1, Invariance, PTL

\* Nobody removes or overwrites a file that names another running server.
THEOREM PidKeptAlways == Spec => PidKept
<1>. DEFINE Kept == \A name \in { "pid", "old" } : LET q == file[name] IN
                q \in Servers /\ q \in Servers' /\ proc'[q].pc = proc[q].pc => file'[name] = q
<1>1. ASSUME IInv, Next PROVE Kept
  <2>. SUFFICES ASSUME NEW name \in { "pid", "old" }, NEW q \in Pids, file[name] = q,
                       Runs(q, "server"), Runs(q, "server")', proc'[q].pc = proc[q].pc
                PROVE  file'[name] = q
    BY Zenon DEF Servers, Live, Runs
  <2>1. PICK p \in Pids : Step(p) \/ Thread(p) \/ Ask(p) \/ Quit(p) \/ CmogstoredQuit(p)
                          \/ Usr2(p) \/ Kill(p)
    BY <1>1, Zenon DEF Next
  <2>2. file \in [pid : Pids \cup { None, 0, Foreign }, old : Pids \cup { None }]
        /\ proc \in [Pids -> Processes]
    BY <1>1, Zenon DEF IInv, TypeOK
  <2>3. CASE file' = file
    BY <2>3, Zenon
  <2>4. CASE ExecFails(p) \/ PidfileInUse(p) \/ Leave(p)
    <3>1. proc[p].st = "run" /\ proc' = Ended(p) /\ file' = Cleanup(p)
      BY <2>4 DEF ExecFails, PidfileInUse, Leave, Exit, At, Live
    <3>2. proc'[p].st # "run"
      BY <3>1, Zenon DEF Ended, Blank
    <3>3. q # p
      BY <3>2 DEF Runs
    <3>. QED
      BY <1>1, <3>1, <3>3, CleanupOwn
  <2>5. CASE PidfileOpen(p)
    BY <2>2, <2>5 DEF PidfileOpen, PidIsRunning, Runs
  <2>6. CASE PidfileCommit(p)
    <3>1. Runs(p, "server") /\ proc[p].pc = "commit"
      BY <1>1, <2>6, Zenon DEF PidfileCommit, At, Live, IInv, TypeOK, Processes, MemoryOk, Runs,
         WorkerPc, LoopPc
    <3>2. q # p
      BY <2>2, <2>6, <3>1, Zenon DEF PidfileCommit, Processes
    <3>3. name = "old"
      BY <1>1, <3>1, <3>2, NoRival
    <3>. QED
      BY <2>2, <2>6, <3>3, Zenon DEF PidfileCommit
  <2>7. CASE PrepareUnlink(p)
    <3>1. file' = file \/ (MayUnlink(p, "pid") /\ file' = [file EXCEPT !.pid = None]
                           /\ proc' = [proc EXCEPT ![p].pc = "oldbin"] /\ proc[p].pc = "unlink")
      BY <2>7 DEF PrepareUnlink, Goto, At
    <3>2. ASSUME proc' = [proc EXCEPT ![p].pc = "oldbin"], proc[p].pc = "unlink" PROVE q # p
      BY <2>2, <3>2 DEF Processes
    <3>. QED
      BY <2>2, <3>1, <3>2 DEF MayUnlink, PidIsRunning, Runs
  <2>8. CASE PrepareOld(p)
    BY <2>2, <2>8, Zenon DEF PrepareOld, PidIsRunning, Runs
  <2>9. CASE AbortRestore(p)
    <3>1. Runs(p, "server") /\ proc[p].pc = "restore"
      BY <1>1, <2>9, Zenon DEF AbortRestore, At, Live, IInv, TypeOK, Processes, MemoryOk, Runs,
         WorkerPc, LoopPc
    <3>2. q # p
      BY <2>2, <2>9, <3>1 DEF AbortRestore, Processes
    <3>. QED
      BY <1>1, <3>1, <3>2, NoRival, Zenon
  <2>. QED
    BY <2>1, <2>3, <2>4, <2>5, <2>6, <2>7, <2>8, <2>9, Zenon DEF Step, Thread, Exec, ForkWorker,
       ForkFails, WorkerTop, WorkerTurn, Wake, Timeout, NoteRun, ProcessQueue,
       SigchldHandler, Reap, ReapEnd, AbortCheck, UpgradeHandler, PrepareAssert,
       UpgradeSpawn, UpgradeSpawnFails, ExitCheck, NoteSet, Interrupt, Ask, Quit,
       CmogstoredQuit, Usr2, Kill
<1>2. IInv /\ [Next]_vars => [Kept]_vars
  BY <1>1
<1>. QED
  BY <1>2, Invariance, PTL DEF Spec, PidKept

=============================================================================
