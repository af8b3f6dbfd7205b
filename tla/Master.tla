------------------------------- MODULE Master -------------------------------
(***************************************************************************)
(* The processes of cmogstored: the server that owns the pid file, the     *)
(* workers it forks and respawns (cmogstored.c, process.c), graceful       *)
(* shutdown by SIGQUIT, and the upgrade by SIGUSR2, in which a server      *)
(* starts its successor and both share the pid file and its ".oldbin"      *)
(* (upgrade.c, pidfile.c).  With no worker_processes the server runs the   *)
(* worker's loop itself.                                                   *)
(*                                                                         *)
(* Signals are blocked except while a process sleeps in ppoll or           *)
(* epoll_pwait (sig.c, MOG_SELFPIPE = 0): `pend' is what the kernel holds  *)
(* back, `flags' what the handlers have set (sigchld_hit, do_upgrade,      *)
(* do_exit).  One step is the code between two system calls that another   *)
(* process can observe.                                                    *)
(***************************************************************************)
EXTENDS Integers

CONSTANTS
    PidMax,     \* process ids; none is used twice
    Scenarios,  \* worker_processes, and what the environment may do, see Init
    HaveMgmt,   \* a mgmt listener is configured, the main loop has a timeout
    None

Pids == 1 .. PidMax
Init_ == 0                          \* init(8), the parent of orphans
UPGRADE == -1                       \* MOG_PROC_UPGRADE
Foreign == PidMax + 1               \* some other program that is running

Environments ==
    [nworkers : Nat, upgrades : Nat, faults : Nat, forks : Nat, notes : Nat,
     overlap : BOOLEAN, startfail : BOOLEAN]

ASSUME MasterAssumption ==
    /\ PidMax \in Nat /\ HaveMgmt \in BOOLEAN
    /\ Scenarios \subseteq Environments
    /\ None \notin Int

VARIABLES
    proc,   \* the processes
    file,   \* pid file and ".oldbin": a pid, 0 if empty, None if absent
    env     \* scenario, with the faults, failing forks and upgrades left

vars == << proc, file, env >>

-----------------------------------------------------------------------------
(* Processes *)

Blank == [st |-> "none", pc |-> "gone", role |-> "server", parent |-> Init_,
          pend |-> {}, flags |-> {}, table |-> {}, upgrade |-> None, id |-> 0,
          owner |-> None, old |-> FALSE, exists |-> FALSE,
          asked |-> FALSE, note |-> FALSE, thread |-> "idle"]

Live(p) == p \in Pids /\ proc[p].st = "run"

\* pid_is_running(): a process that has not been waited for can be signalled.
PidIsRunning(pid) ==
    pid = Foreign \/ (pid \in Pids /\ proc[pid].st \in { "run", "zombie" })

\* PidMax bounds the forks.
CanFork == \E c \in Pids : proc[c].st = "none"

Child == CHOOSE c \in Pids : proc[c].st = "none"

At(p, pc) == Live(p) /\ proc[p].pc = pc

Goto(p, pc) == proc' = [proc EXCEPT ![p].pc = pc]

IsWorker(e) == e.id # UPGRADE

\* What is left when p has ended: a zombie until its parent waits for it, and
\* orphans.
Ended(p) ==
    [q \in Pids |->
        IF q = p
        THEN [Blank EXCEPT !.st = IF Live(proc[p].parent) THEN "zombie" ELSE "dead",
                           !.role = proc[p].role, !.parent = proc[p].parent]
        ELSE IF proc[q].parent = p
        THEN [proc[q] EXCEPT !.parent = Init_, !.st = IF @ = "zombie" THEN "dead" ELSE @]
        ELSE IF q = proc[p].parent /\ Live(q)
        THEN [proc[q] EXCEPT !.pend = @ \cup { "CHLD" }]
        ELSE proc[q]]

\* fork() in p, with mog_process_register() for the child, whose copy of the
\* parent's memory includes the flags its handlers have set.
Forked(p, id, child) ==
    [proc EXCEPT
        ![Child] = [proc[p] EXCEPT !.parent = p, !.pend = {}, !.table = {},
                                   !.thread = "idle", !.role = child.role, !.pc = child.pc],
        ![p].table = @ \cup { [pid |-> Child, id |-> id] }]

\* mog_sleep() and epoll_pwait return when a signal comes, after the handlers
\* of all that were pending.
Handled(p) == [proc[p] EXCEPT !.flags = @ \cup (proc[p].pend \ { "URG" }), !.pend = {}]

\* MUTANT: whoever exits removes the file.
CleanupAny(p) ==
    IF proc[p].old THEN [file EXCEPT !.old = None]
    ELSE IF proc[p].exists THEN [file EXCEPT !.pid = None] ELSE file

\* pidfile_cleanup(), run by exit(): "don't unlink if it does not belong to us".
Cleanup(p) ==
    IF proc[p].owner # p THEN file
    ELSE IF proc[p].old THEN [file EXCEPT !.old = None]
    ELSE IF proc[p].exists THEN [file EXCEPT !.pid = None] ELSE file

Exit(p) == file' = Cleanup(p) /\ proc' = Ended(p) /\ UNCHANGED env

-----------------------------------------------------------------------------
(* Start of a server *)

\* The child of an upgrade becomes another instance of the program.
Exec(p) ==
    /\ At(p, "exec")
    /\ proc' = [proc EXCEPT ![p] = [Blank EXCEPT
                    !.st = "run", !.pc = "open", !.parent = proc[p].parent,
                    !.pend = proc[p].pend]]
    /\ UNCHANGED << file, env >>

\* die_errno("execve"), with the exit handlers of the parent.
ExecFails(p) == At(p, "exec") /\ Exit(p)

\* mog_pidfile_prepare().
PidfileOpen(p) ==
    /\ At(p, "open") /\ ~PidIsRunning(file.pid)
    /\ file' = [file EXCEPT !.pid = IF @ = None THEN 0 ELSE @]
    /\ proc' = [proc EXCEPT ![p].exists = TRUE, ![p].pc = "commit"]
    /\ UNCHANGED env

\* "already running on PID".
PidfileInUse(p) == At(p, "open") /\ PidIsRunning(file.pid) /\ Exit(p)

\* mog_pidfile_commit(); then run_worker() or the first fork of run_master().
PidfileCommit(p) ==
    /\ At(p, "commit")
    /\ file' = [file EXCEPT !.pid = p]
    /\ proc' = [proc EXCEPT ![p].owner = p,
                            ![p].pc = IF env.nworkers = 0 THEN "wait" ELSE "fork"]
    /\ UNCHANGED env

-----------------------------------------------------------------------------
(* Workers *)

WorkerChild == [role |-> "worker", pc |-> "top"]

\* fork_worker() returns to the loop of run_master() or to sigchld_handler().
AfterFork(p) ==
    IF proc[p].pc = "respawn" THEN "reap"
    ELSE IF proc[p].id + 1 = env.nworkers THEN "wait" ELSE "fork"

NextId(p) == IF AfterFork(p) = "fork" THEN proc[p].id + 1 ELSE 0

ForkWorker(p) ==
    /\ At(p, "fork") \/ At(p, "respawn")
    /\ CanFork
    /\ proc' = [Forked(p, proc[p].id, WorkerChild) EXCEPT
                    ![p].pc = AfterFork(p), ![p].id = NextId(p)]
    /\ UNCHANGED << file, env >>

\* "fork() failed: %m, sleeping for 10s": signals are handled meanwhile.
ForkFails(p) ==
    /\ (At(p, "fork") /\ env.startfail) \/ At(p, "respawn")
    /\ env.forks > 0
    /\ env' = [env EXCEPT !.forks = @ - 1]
    /\ proc' = [proc EXCEPT ![p] = [Handled(p) EXCEPT !.pc = AfterFork(p), !.id = NextId(p)]]
    /\ UNCHANGED file

\* MUTANT: a worker does not look for its parent.
WorkerTopBlind(p) == At(p, "top") /\ Goto(p, "wait") /\ UNCHANGED << file, env >>

\* main_worker_loop(): "parent=%d abandoned us, dying".
WorkerTop(p) ==
    /\ At(p, "top")
    /\ Goto(p, IF proc[p].parent = Init_ THEN "quit" ELSE "wait")
    /\ UNCHANGED << file, env >>

\* The rest of a worker's turn: workers do not upgrade.
WorkerTurn(p) ==
    /\ At(p, "chld") /\ proc[p].role = "worker"
    /\ proc' = [proc EXCEPT ![p].flags = @ \cap { "QUIT" },
                            ![p].pc = IF "QUIT" \in proc[p].flags THEN "quit" ELSE "top"]
    /\ UNCHANGED << file, env >>

-----------------------------------------------------------------------------
(* The loop of a server, and its children *)

\* p runs main_worker_loop().
Works(p) == proc[p].role = "worker" \/ env.nworkers = 0

\* mog_selfwake_wait() in run_master(); mog_notify_wait() in a worker, which
\* looks for notes if it was interrupted.
Wake(p) ==
    /\ At(p, "wait") /\ proc[p].pend # {}
    /\ proc' = [proc EXCEPT ![p] = [Handled(p) EXCEPT
                    !.pc = IF Works(p) THEN "note" ELSE "chld"]]
    /\ UNCHANGED << file, env >>

\* mog_notify_wait() has a timeout for the usage files; a signal that is
\* pending ends the sleep before it.
Timeout(p) ==
    /\ At(p, "wait") /\ HaveMgmt /\ proc[p].pend = {}
    /\ Works(p)
    /\ Goto(p, "chld")
    /\ UNCHANGED << file, env >>

\* note_run(): note_xchg(MOG_NOTIFY_SET_N_THREADS, 1, 0).
NoteRun(p) ==
    /\ At(p, "note")
    /\ proc' = [proc EXCEPT ![p].note = FALSE,
                            ![p].pc = IF proc[p].note THEN "resize" ELSE "chld"]
    /\ UNCHANGED << file, env >>

\* mog_thrpool_process_queue(): until the queue is empty.
ProcessQueue(p) ==
    /\ At(p, "resize")
    /\ proc' = [proc EXCEPT ![p].asked = FALSE, ![p].pc = "chld"]
    /\ UNCHANGED << file, env >>

SigchldHandler(p) ==
    /\ At(p, "chld") /\ proc[p].role = "server"
    /\ proc' = [proc EXCEPT ![p].flags = @ \ { "CHLD" },
                            ![p].pc = IF "CHLD" \in proc[p].flags THEN "reap" ELSE "upgrade"]
    /\ UNCHANGED << file, env >>

Zombies(p) == { c \in Pids : proc[c].st = "zombie" /\ proc[c].parent = p }

\* waitpid() returns a child: process_died().
Reap(p) ==
    /\ At(p, "reap")
    /\ \E c \in Zombies(p) : \E e \in proc[p].table :
        /\ e.pid = c
        /\ proc' = [proc EXCEPT
                ![c].st = "dead",
                ![p].table = @ \ { e },
                ![p].id = IF IsWorker(e) THEN e.id ELSE @,
                ![p].pc = IF ~IsWorker(e) THEN "abort"
                          ELSE IF "QUIT" \in proc[p].flags THEN "reap" ELSE "respawn"]
    /\ UNCHANGED << file, env >>

\* MUTANT: waitpid() is called once for a signal.
ReapedFirst(p) == TRUE

\* waitpid() has no more to report.
Reaped(p) == Zombies(p) = {}

ReapEnd(p) ==
    /\ At(p, "reap") /\ Reaped(p)
    /\ Goto(p, "upgrade")
    /\ UNCHANGED << file, env >>

\* mog_pidfile_upgrade_abort(): "ensure the pidfile of the upgraded process is
\* really invalid".
AbortCheck(p) ==
    /\ At(p, "abort")
    /\ proc' = [proc EXCEPT
            ![p].upgrade = IF PidIsRunning(file.pid) THEN None ELSE @,
            ![p].pc = IF PidIsRunning(file.pid) THEN "reap" ELSE "restore"]
    /\ UNCHANGED << file, env >>

\* unlink_if_owner_or_unused().
MayUnlink(p, name) == file[name] = p \/ ~PidIsRunning(file[name])

\* MUTANT: the name of the file that was removed is kept.
AbortRestoreKeeps(p) ==
    /\ At(p, "restore")
    /\ file' = [pid |-> p, old |-> IF MayUnlink(p, "old") THEN None ELSE file.old]
    /\ proc' = [proc EXCEPT ![p].exists = TRUE, ![p].upgrade = None, ![p].pc = "reap"]
    /\ UNCHANGED env

\* "removes oldbin file and restores original pidfile".
AbortRestore(p) ==
    /\ At(p, "restore")
    /\ file' = [pid |-> p, old |-> IF MayUnlink(p, "old") THEN None ELSE file.old]
    /\ proc' = [proc EXCEPT ![p].exists = TRUE, ![p].upgrade = None, ![p].pc = "reap",
                            ![p].old = @ /\ ~MayUnlink(p, "old")]
    /\ UNCHANGED env

-----------------------------------------------------------------------------
(* Upgrade *)

UpgradeHandler(p) ==
    /\ At(p, "upgrade")
    /\ proc' = [proc EXCEPT
            ![p].flags = @ \ { "USR2" },
            ![p].pc = IF "USR2" \in proc[p].flags /\ proc[p].upgrade = None
                      THEN "unlink" ELSE "exit"]
    /\ UNCHANGED << file, env >>

\* mog_pidfile_upgrade_prepare(), first the pid file is removed, ...
PrepareUnlink(p) ==
    /\ At(p, "unlink")
    /\ IF MayUnlink(p, "pid")
       THEN file' = [file EXCEPT !.pid = None] /\ Goto(p, "oldbin")
       ELSE UNCHANGED file /\ Goto(p, "exit")
    /\ UNCHANGED env

\* ... then ".oldbin" is written, unless it belongs to a running process.
PrepareOld(p) ==
    /\ At(p, "oldbin") /\ ~proc[p].old
    /\ IF PidIsRunning(file.old)
       THEN UNCHANGED file /\ Goto(p, "exit")
       ELSE /\ file' = [file EXCEPT !.old = p]
            /\ proc' = [proc EXCEPT ![p].old = TRUE, ![p].pc = "spawn"]
    /\ UNCHANGED env

\* assert(old == NULL && "oldbin already registered").
PrepareAssert(p) ==
    /\ At(p, "oldbin") /\ proc[p].old
    /\ proc' = Ended(p)
    /\ UNCHANGED << file, env >>

\* mog_upgrade_spawn().
UpgradeSpawn(p) ==
    /\ At(p, "spawn") /\ CanFork
    /\ proc' = [Forked(p, UPGRADE, [role |-> "server", pc |-> "exec"]) EXCEPT
                    ![p].upgrade = Child, ![p].pc = "exit"]
    /\ UNCHANGED << file, env >>

\* "fork failed for upgrade".
UpgradeSpawnFails(p) ==
    /\ At(p, "spawn") /\ env.forks > 0
    /\ env' = [env EXCEPT !.forks = @ - 1]
    /\ Goto(p, "exit")
    /\ UNCHANGED file

-----------------------------------------------------------------------------
(* A thread of the pool with a mgmt command for the main thread *)

\* p has threads that serve clients.
Serves(p) == Live(p) /\ Works(p) /\ proc[p].pc \notin { "exec", "open", "commit", "quit" }

\* mog_thrpool_set_n_threads() queues the request, ...
Ask(p) ==
    /\ Serves(p) /\ proc[p].thread = "idle" /\ env.notes > 0
    /\ proc' = [proc EXCEPT ![p].asked = TRUE, ![p].thread = "note"]
    /\ env' = [env EXCEPT !.notes = @ - 1]
    /\ UNCHANGED file

\* ... mog_notify() sets the note, ...
NoteSet(p) ==
    /\ Live(p) /\ proc[p].thread = "note"
    /\ proc' = [proc EXCEPT ![p].note = TRUE, ![p].thread = "interrupt"]
    /\ UNCHANGED << file, env >>

\* MUTANT: the signal is sent only to a main thread that is asleep.
InterruptAsleep(p) ==
    /\ Live(p) /\ proc[p].thread = "interrupt"
    /\ proc' = [proc EXCEPT ![p].pend = IF At(p, "wait") THEN @ \cup { "URG" } ELSE @,
                            ![p].thread = "idle"]
    /\ UNCHANGED << file, env >>

\* ... and mog_selfwake_interrupt() sends the process a signal, which waits for
\* the main thread to sleep.
Interrupt(p) ==
    /\ Live(p) /\ proc[p].thread = "interrupt"
    /\ proc' = [proc EXCEPT ![p].pend = @ \cup { "URG" }, ![p].thread = "idle"]
    /\ UNCHANGED << file, env >>

-----------------------------------------------------------------------------
(* Shutdown *)

\* MUTANT: a worker that is dead and not yet waited for is not counted.
WorkersAlive(p) == { e \in proc[p].table : IsWorker(e) /\ Live(e.pid) }

\* mog_kill_each_worker(): "ignore the error but count it".
Workers(p) == { e \in proc[p].table : IsWorker(e) }

\* The end of a turn: `running' is the number of workers that were signalled.
ExitCheck(p) ==
    /\ At(p, "exit")
    /\ \/ "QUIT" \notin proc[p].flags /\ Goto(p, "wait")
       \/ "QUIT" \in proc[p].flags /\ env.nworkers = 0 /\ Goto(p, "quit")
       \/ /\ "QUIT" \in proc[p].flags /\ env.nworkers > 0
          /\ proc' = [q \in Pids |->
                IF q = p
                THEN [proc[p] EXCEPT !.pc = IF Workers(p) = {} THEN "leave" ELSE "wait"]
                ELSE IF Live(q) /\ \E e \in Workers(p) : e.pid = q
                     THEN [proc[q] EXCEPT !.pend = @ \cup { "QUIT" }]
                     ELSE proc[q]]
    /\ UNCHANGED << file, env >>

\* cmogstored_exit() has seen its clients off, or run_master() returns.
Leave(p) == (At(p, "quit") \/ At(p, "leave")) /\ Exit(p)

-----------------------------------------------------------------------------
(* The environment *)

\* p has been told to quit (and has not just been forked with a copy of that).
Told(p) ==
    "QUIT" \in proc[p].pend \/ ("QUIT" \in proc[p].flags /\ proc[p].pc # "exec")

Signalled(p, sig) == proc' = [proc EXCEPT ![p].pend = @ \cup { sig }]

\* kill(1).
Quit(p) ==
    /\ Live(p) /\ proc[p].role = "server" /\ ~Told(p)
    /\ Signalled(p, "QUIT")
    /\ UNCHANGED << file, env >>

\* cmogstored_quit(), for a "shutdown" command: a worker signals its master; a
\* server without workers sets do_exit from the thread that serves the command,
\* and nothing wakes its main thread (mog_selfwake_trigger is empty).
CmogstoredQuit(p) ==
    /\ Serves(p) /\ HaveMgmt
    /\ IF proc[p].role = "server"
       THEN ~Told(p) /\ proc' = [proc EXCEPT ![p].flags = @ \cup { "QUIT" }]
       ELSE /\ Live(proc[p].parent) /\ ~Told(proc[p].parent)
            /\ Signalled(proc[p].parent, "QUIT")
    /\ UNCHANGED << file, env >>

\* USR2 reaches a server beside which no other is running, unless `overlap'.
Usr2(p) ==
    /\ Live(p) /\ env.upgrades > 0
    /\ env.overlap \/ \A q \in Pids \ { p } : Live(q) => proc[q].role = "worker"
    /\ Signalled(p, "USR2")
    /\ env' = [env EXCEPT !.upgrades = @ - 1]
    /\ UNCHANGED file

\* A process is killed, or a worker alone is told to quit.
Kill(p) ==
    /\ Live(p) /\ env.faults > 0
    /\ \/ proc' = Ended(p)
       \/ proc[p].role = "worker" /\ Signalled(p, "QUIT")
    /\ env' = [env EXCEPT !.faults = @ - 1]
    /\ UNCHANGED file

-----------------------------------------------------------------------------

\* `upgrades', `faults', `forks' and `notes' are what the environment has left of
\* each; a fork of the first workers fails only with `startfail'.
Init ==
    /\ env \in Scenarios
    /\ file \in [pid : { None, 0, Foreign }, old : { None }]
    /\ proc = [p \in Pids |->
                IF p = 1 THEN [Blank EXCEPT !.st = "run", !.pc = "open"] ELSE Blank]

Step(p) ==
    \/ Exec(p) \/ ExecFails(p) \/ PidfileOpen(p) \/ PidfileInUse(p) \/ PidfileCommit(p)
    \/ ForkWorker(p) \/ ForkFails(p) \/ WorkerTop(p) \/ WorkerTurn(p)
    \/ Wake(p) \/ Timeout(p) \/ NoteRun(p) \/ ProcessQueue(p)
    \/ SigchldHandler(p) \/ Reap(p) \/ ReapEnd(p) \/ AbortCheck(p) \/ AbortRestore(p)
    \/ UpgradeHandler(p) \/ PrepareUnlink(p) \/ PrepareOld(p) \/ PrepareAssert(p)
    \/ UpgradeSpawn(p) \/ UpgradeSpawnFails(p) \/ ExitCheck(p) \/ Leave(p)

Thread(p) == NoteSet(p) \/ Interrupt(p)

Next == \E p \in Pids :
    Step(p) \/ Thread(p) \/ Ask(p) \/ Quit(p) \/ CmogstoredQuit(p) \/ Usr2(p) \/ Kill(p)

Spec == Init /\ [][Next]_vars

\* Every process and thread keeps running; a worker's graceful shutdown ends (QuitEnds of
\* ClientQueue); nothing makes anyone send signals.
FairSpec == Spec /\ \A p \in Pids : WF_vars(Step(p)) /\ WF_vars(Thread(p))

-----------------------------------------------------------------------------
(* The inductive invariant *)

Signals == { "CHLD", "QUIT", "USR2", "URG" }
StartPc == { "exec", "open", "commit" }
LoopPc == { "wait", "note", "resize", "chld", "quit" }
WorkerPc == LoopPc \cup { "top" }
ServerPc == StartPc \cup LoopPc \cup
    { "fork", "respawn", "reap", "abort", "restore", "upgrade", "unlink", "oldbin",
      "spawn", "exit", "leave" }

Processes ==
    [st : { "none", "run", "zombie", "dead" }, pc : WorkerPc \cup ServerPc \cup { "gone" },
     role : { "server", "worker" }, parent : Pids \cup { Init_ },
     pend : SUBSET Signals, flags : SUBSET Signals,
     table : SUBSET [pid : Pids, id : Nat \cup { UPGRADE }],
     upgrade : Pids \cup { None }, id : Nat, owner : Pids \cup { None },
     old : BOOLEAN, exists : BOOLEAN, asked : BOOLEAN, note : BOOLEAN,
     thread : { "idle", "note", "interrupt" }]

TypeOK ==
    /\ proc \in [Pids -> Processes]
    /\ file \in [pid : Pids \cup { None, 0, Foreign }, old : Pids \cup { None }]
    /\ env \in Environments

\* A process that can still be waited for.
Left(p) == proc[p].st \in { "run", "zombie" }

\* A parent is a running server that has started, and has every child that it
\* has not waited for in its table.
ChildOk(c) ==
    /\ proc[c].st = "none" => proc[c].parent = Init_
    /\ proc[c].parent # c
    /\ LET p == proc[c].parent IN p \in Pids =>
           /\ proc[p].st = "run" /\ proc[p].role = "server" /\ proc[p].pc \notin StartPc
           /\ Left(c) => \E e \in proc[p].table : e.pid = c

\* There is nobody else in it, and nobody twice.
TableOk(p) ==
    /\ \A e \in proc[p].table :
           /\ proc[e.pid].parent = p /\ Left(e.pid)
           /\ proc[e.pid].role = IF IsWorker(e) THEN "worker" ELSE "server"
    /\ \A e, f \in proc[p].table : e.id = f.id \/ e.pid = f.pid => e = f

Runs(p, role) == proc[p].st = "run" /\ proc[p].role = role
HasHeir(p) == \E e \in proc[p].table : ~IsWorker(e)

\* What a process has in its own memory, by where it is.
MemoryOk(p) ==
    /\ Runs(p, "worker") => proc[p].pc \in WorkerPc /\ proc[p].owner # p
    /\ Runs(p, "server") =>
        /\ proc[p].pc \in ServerPc
        /\ proc[p].pc = "exec" => proc[p].owner # p
        /\ proc[p].pc \in { "open", "commit" } =>
               /\ proc[p].id = 0 /\ proc[p].upgrade = None
               /\ ~proc[p].old /\ proc[p].owner = None
        /\ proc[p].pc \notin StartPc => proc[p].owner = p
        /\ proc[p].pc = "fork" => \A e \in proc[p].table : e.id \in 0 .. proc[p].id - 1
        /\ proc[p].pc = "respawn" => \A e \in proc[p].table : e.id # proc[p].id
        /\ HasHeir(p) => proc[p].upgrade # None /\ proc[p].old
        /\ proc[p].pc \in { "unlink", "oldbin", "spawn" } => proc[p].upgrade = None
        /\ proc[p].pc \in { "abort", "restore" } => ~HasHeir(p)
        /\ proc[p].pc \in { "spawn", "abort", "restore" } => proc[p].old
        /\ proc[p].pc = "leave" => \A e \in proc[p].table : ~IsWorker(e)

\* Of two servers one is the other's successor.
HeirOk(p, q) ==
    p # q /\ Left(p) /\ Left(q) /\ proc[p].role = "server" /\ proc[q].role = "server" =>
        proc[p].parent = q \/ proc[q].parent = p

\* The files name servers ...
NamesOk ==
    \A name \in { "pid", "old" } : file[name] \in Pids =>
        proc[file[name]].st # "none" /\ proc[file[name]].role = "server"

\* ... and say what a server believes they say.
FilesOk(p) ==
    Runs(p, "server") =>
        /\ IF proc[p].pc = "exec" THEN file.old # p ELSE proc[p].old <=> file.old = p
        /\ proc[p].pc # "exec" /\ (proc[p].old \/ proc[p].pc = "oldbin") => file.pid # p
        /\ proc[p].pc \in { "commit", "restore" } => ~PidIsRunning(file.pid)

\* Without overlap, a server that works on USR2 has no predecessor.
AloneOk(p) ==
    ~env.overlap /\ Runs(p, "server") =>
        /\ \/ "USR2" \in proc[p].pend
           \/ "USR2" \in proc[p].flags /\ proc[p].pc # "exec"
           \/ proc[p].pc \in { "unlink", "oldbin" }
           => proc[p].parent = Init_
        /\ proc[p].pc \notin StartPc \cup { "oldbin" } /\ ~proc[p].old => file.pid = p

IInv ==
    /\ TypeOK
    /\ NamesOk
    /\ \A p \in Pids : /\ ChildOk(p) /\ TableOk(p) /\ MemoryOk(p)
                       /\ FilesOk(p) /\ AloneOk(p)
    /\ \A p, q \in Pids : HeirOk(p, q)

-----------------------------------------------------------------------------
(* Properties *)

Servers == { p \in Pids : Live(p) /\ proc[p].role = "server" /\ proc[p].pc # "exec" }

\* The table of processes is exact: every child that has not been waited for is
\* registered, no two workers have one id, and the master returns from
\* run_master() only when no worker is left, whatever died, was respawned or
\* could not be, while it was going about it.
Supervised ==
    \A p \in Servers :
        /\ { e.pid : e \in proc[p].table } =
               { c \in Pids : proc[c].parent = p /\ proc[c].st \in { "run", "zombie" } }
        /\ \A e, f \in proc[p].table : e.id = f.id \/ e.pid = f.pid => e = f
        /\ proc[p].pc = "leave" =>
               \A c \in Pids : proc[c].parent = p /\ proc[c].role = "worker" =>
                   proc[c].st = "dead"

\* A server that waits is named by the file it believes to own, the pid file or
\* after USR2 ".oldbin", through failing, dying and retiring successors
\* (test/upgrade.rb), as long as USR2 is sent to one server at a time.  (If a
\* server gets USR2 while its predecessor is running,
\* mog_pidfile_upgrade_prepare removes the pid file before it finds ".oldbin"
\* taken.)
Named ==
    ~env.overlap =>
        \A p \in Servers : proc[p].pc = "wait" =>
            file[IF proc[p].old THEN "old" ELSE "pid"] = p

\* Nobody removes or overwrites a file that names another running server,
\* though workers and children that fail to exec run the owner's exit handlers
\* and a server looks at the pid file one step before it takes it back.
PidKept ==
    [][\A name \in { "pid", "old" } : LET q == file[name] IN
          q \in Servers /\ q \in Servers' /\ proc'[q].pc = proc[q].pc =>
              file'[name] = q]_vars

Doomed(p) == Live(p) /\ Told(p) /\ ~env.startfail
Orphan(p) == Live(p) /\ proc[p].role = "worker" /\ proc[p].parent = Init_

\* SIGQUIT or "shutdown" ends a server, and workers whose master is gone end as
\* well, however signals, deaths and forks come together (unless a fork may fail at the
\* start: a signal that mog_sleep(10) takes then waits for the next one).
Shutdown ==
    /\ (\E p \in Pids : Doomed(p)) ~> (\A p \in Pids : ~Doomed(p))
    /\ (\E p \in Pids : Orphan(p)) ~> (\A p \in Pids : ~Orphan(p))

\* A child registered as id is at work.
Manned(p, id) == \E e \in proc[p].table : e.id = id /\ Live(e.pid)

\* A server that nobody told to quit, with forks that work.
Busy(p) == p \in Servers /\ ~Told(p) /\ env.forks > 0

Short(p) == Busy(p) /\ \E id \in 0 .. env.nworkers - 1 : ~Manned(p, id)
Deserted(p) == Busy(p) /\ proc[p].old /\ ~Manned(p, UPGRADE)

\* A worker that dies is replaced, and a server whose successor dies takes the
\* pid file back ("removes oldbin file and restores original pidfile").
Recovers ==
    /\ (\E p \in Pids : Short(p)) ~> (\A p \in Pids : ~Short(p))
    /\ (\E p \in Pids : Deserted(p)) ~> (\A p \in Pids : ~Deserted(p))

Waiting(p) == Live(p) /\ ~Told(p) /\ proc[p].asked

\* No wake-up is lost between a thread that sets a note and the main thread
\* that takes it and goes to sleep: what was queued is worked off.
Noted == (\E p \in Pids : Waiting(p)) ~> (\A p \in Pids : ~Waiting(p))
=============================================================================
