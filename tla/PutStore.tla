------------------------------ MODULE PutStore ------------------------------
(***************************************************************************)
(* How requests change files (http_put.c, http_dav.c, http_get.c, file.c,  *)
(* mkpath_for.c): a PUT writes a temporary file next to its path and       *)
(* renames it when it has all of the body; a PUT with a Content-Range      *)
(* writes in place.  Several threads of several worker processes serve     *)
(* requests at once, one or two system calls to an action; calls fail,     *)
(* clients go away, processes die and leave their temporary files behind.  *)
(*                                                                         *)
(* A body is a sequence of blocks, and a write takes one: a body may       *)
(* arrive in pieces, chunked or not, and pwrite() may be short.  The       *)
(* connection that a request comes on is module HttpConn's.                *)
(***************************************************************************)
EXTENDS Integers, Sequences

CONSTANTS
    Paths,
    Reqs,        \* requests
    Request,     \* what each of them asks for
    Scenarios,   \* which of them clients send: a set of sets of requests
    Initial,     \* the files there are at first
    Missing,     \* no file
    Hole,        \* a block that nobody has written
    Dirs,        \* of each path: the directories it is in, from the top
    InitDirs,    \* the directories there are at first
    Procs,       \* worker processes
    Rnds,        \* results of random_r
    MaxFaults,   \* calls that fail, at most
    MaxCrashes,  \* processes that die, at most
    Nil

Methods == {"PUT", "RANGE", "DELETE", "GET"}

\* Temporary files, as tmppath_for names them.
Tmps == Paths \X Rnds \X Procs

Names == Paths \cup Tmps

\* Files by who created them, the first ones by their paths.
Inodes == Reqs \cup Paths

Blocks == (Inodes \X Nat) \cup {Hole}

ASSUME StoreAssumption ==
    /\ Request \in [Reqs -> [method : Methods, path : Paths, size : Nat,
                             beg : Nat, end : Nat, md5 : BOOLEAN,
                             allowed : BOOLEAN]]
    /\ Initial \in [Paths -> Seq(Blocks) \cup {Missing}]
    /\ Missing \notin Seq(Blocks)
    /\ Paths \cap Tmps = {} /\ Paths \cap Reqs = {}
    /\ Nil \notin Names \cup Inodes
    /\ Dirs \in [Paths -> Seq(STRING)]
    /\ MaxFaults \in Nat /\ MaxCrashes \in Nat

VARIABLES
    \* the file system
    link,        \* the inode each name stands for, or Nil
    data,        \* the blocks of each inode
    dirs,        \* the directories there are
    \* each request
    sent,        \* whether a client will send it
    pc,
    proc,        \* the process that serves it
    name,        \* what it opens
    tmppath,     \* file->tmppath, or Nil
    ino,         \* what http->forward has open, or Nil
    foff,        \* blocks written or sent so far
    dir,         \* the directory mog_mkpath_for has come to
    second,      \* whether this is the second name that open_put tries
    expired,     \* whether idle clients have been expired for it
    reply,       \* the response it is going to send
    code,        \* the one it has sent
    got,         \* what a GET has sent
    \* bookkeeping
    applied,     \* requests that have taken effect
    faults,      \* calls that have failed, bodies that were malformed
    crashes,     \* processes that have died
    kept         \* requests whose temporary file could not be removed

fsVars == <<link, data, dirs>>
tryVars == <<proc, name, dir, second, expired>>
vars == <<fsVars, sent, pc, tryVars, tmppath, ino, foff, reply, code, got, applied,
          faults, crashes, kept>>

Path(r) == Request[r].path
Whole(r) == Request[r].method = "PUT"
Size(r) == Request[r].size

\* The abstract store: the file that each path stands for.
Store == [p \in Paths |-> IF link[p] = Nil THEN Missing ELSE data[link[p]]]

Ok == {200, 201, 204}
Codes == Ok \cup {0, 400, 403, 404, 405, 500, 507}

\* 0: no response, so far
Verdict(c) == IF c = 0 THEN "none" ELSE IF c \in Ok THEN "ok" ELSE "error"

Abstract == INSTANCE AtomicStore
    WITH store <- Store, answer <- [r \in Reqs |-> Verdict(code[r])]

Init ==
    /\ link = [n \in Names |-> IF n \in Paths /\ Initial[n] # Missing THEN n ELSE Nil]
    /\ data = [i \in Inodes |-> IF i \in Paths /\ Initial[i] # Missing
                                THEN Initial[i] ELSE <<>>]
    /\ dirs = InitDirs
    /\ \E s \in Scenarios : sent = [r \in Reqs |-> r \in s]
    /\ pc = [r \in Reqs |-> "idle"]
    /\ proc = [r \in Reqs |-> Nil]
    /\ name = [r \in Reqs |-> Path(r)]
    /\ tmppath = [r \in Reqs |-> Nil]
    /\ ino = [r \in Reqs |-> Nil]
    /\ foff = [r \in Reqs |-> 0]
    /\ dir = [r \in Reqs |-> 0]
    /\ second = [r \in Reqs |-> FALSE]
    /\ expired = [r \in Reqs |-> FALSE]
    /\ reply = [r \in Reqs |-> 0]
    /\ code = [r \in Reqs |-> 0]
    /\ got = [r \in Reqs |-> <<>>]
    /\ applied = {}
    /\ faults = 0 /\ crashes = 0 /\ kept = {}

-----------------------------------------------------------------------------
(* What the steps share                                                    *)

\* mog_http_resp with an error, when no file is open
Fail(r, c) ==
    /\ code' = [code EXCEPT ![r] = c]
    /\ pc' = [pc EXCEPT ![r] = "done"]

\* A call fails, or a body is malformed, for a reason outside the model.
Fault == faults < MaxFaults /\ faults' = faults + 1

\* lengths_ok (a chunked body cannot be a range)
LengthsOk(r) ==
    Request[r].method = "RANGE" =>
        /\ Request[r].beg <= Request[r].end
        /\ Size(r) = Request[r].end - Request[r].beg + 1

\* The directories that have to be there for a name to be created.
Ready(p) == \A i \in DOMAIN Dirs[p] : Dirs[p][i] \in dirs

-----------------------------------------------------------------------------
(* mog_http_put: checks, then open_put                                     *)

\* MUTANT: the upload goes to its path at once.
TmpNamesNot(r, q) == {Path(r)}

\* tmppath_for
TmpNames(r, q) == {<<Path(r), x, q>> : x \in Rnds}

\* The method is not allowed on this port, the path is not valid, or the
\* lengths do not agree: nothing has been touched.
Refuse(r, q, c) ==
    /\ pc[r] = "idle" /\ sent[r]
    /\ \/ ~Request[r].allowed /\ c \in {400, 403, 405}
       \/ Request[r].allowed /\ ~LengthsOk(r) /\ c = 400
    /\ proc' = [proc EXCEPT ![r] = q]
    /\ Fail(r, c)
    /\ UNCHANGED <<fsVars, sent, name, dir, second, expired, tmppath, ino, foff,
                   reply, got, applied, faults, crashes, kept>>

PutBegin(r, q, n) ==
    /\ pc[r] = "idle" /\ sent[r]
    /\ Request[r].allowed /\ LengthsOk(r)
    /\ \/ Request[r].method = "PUT" /\ n \in TmpNames(r, q)
       \/ Request[r].method = "RANGE" /\ n = Path(r)
    /\ proc' = [proc EXCEPT ![r] = q]
    /\ name' = [name EXCEPT ![r] = n]
    /\ pc' = [pc EXCEPT ![r] = "open"]
    /\ UNCHANGED <<fsVars, sent, dir, second, expired, tmppath, ino, foff, reply,
                   code, got, applied, faults, crashes, kept>>

\* MUTANT: O_EXCL is left out.
NotExclusive(r) == FALSE

\* The flags of mog_open_put: a temporary file is new (O_EXCL), a partial
\* upload takes the file there is.
Exclusive(r) == Whole(r)

\* mog_open_put succeeds.
Opened(r) ==
    /\ pc[r] \in {"open", "reopen"}
    /\ Ready(Path(r))
    /\ Exclusive(r) => link[name[r]] = Nil
    /\ LET new == link[name[r]] = Nil
       IN  /\ link' = IF new THEN [link EXCEPT ![name[r]] = r] ELSE link
           /\ ino' = [ino EXCEPT ![r] = IF new THEN r ELSE link[name[r]]]
    /\ tmppath' = [tmppath EXCEPT ![r] = IF Whole(r) THEN name[r] ELSE Nil]
    /\ name' = [name EXCEPT ![r] = Path(r)]
    /\ expired' = [expired EXCEPT ![r] = FALSE]
    /\ pc' = [pc EXCEPT ![r] = "write"]
    /\ UNCHANGED <<data, dirs, sent, proc, dir, second, foff, reply, code, got, applied,
                   faults, crashes, kept>>

\* EEXIST: open_put tries one other name.
OpenExists(r, n) ==
    /\ pc[r] \in {"open", "reopen"}
    /\ Ready(Path(r))
    /\ Exclusive(r) /\ link[name[r]] # Nil
    /\ \/ /\ ~second[r] /\ n \in TmpNames(r, proc[r])
          /\ second' = [second EXCEPT ![r] = TRUE]
          /\ expired' = [expired EXCEPT ![r] = FALSE]
          /\ name' = [name EXCEPT ![r] = n]
          /\ pc' = [pc EXCEPT ![r] = "open"]
          /\ UNCHANGED code
       \/ /\ second[r] /\ n = name[r]
          /\ Fail(r, 500)
          /\ UNCHANGED <<second, expired, name>>
    /\ UNCHANGED <<fsVars, sent, proc, dir, tmppath, ino, foff, reply, got, applied,
                   faults, crashes, kept>>

\* ENOENT: mkpath_open_put creates the directories and tries once more.
OpenNoDir(r) ==
    /\ pc[r] \in {"open", "reopen"}
    /\ ~Ready(Path(r))
    /\ \/ /\ pc[r] = "open"
          /\ dir' = [dir EXCEPT ![r] = 2]
          /\ pc' = [pc EXCEPT ![r] = "mkdir"]
          /\ UNCHANGED code
       \/ /\ pc[r] = "reopen"
          /\ Fail(r, 404)
          /\ UNCHANGED dir
    /\ UNCHANGED <<fsVars, sent, proc, name, second, expired, tmppath, ino, foff,
                   reply, got, applied, faults, crashes, kept>>

\* ENFILE, EMFILE or ENOMEM: once more, if idle clients could be expired ...
OpenExpired(r) ==
    /\ pc[r] \in {"open", "reopen"} /\ ~expired[r]
    /\ Fault
    /\ expired' = [expired EXCEPT ![r] = TRUE]
    /\ pc' = [pc EXCEPT ![r] = "open"]
    /\ UNCHANGED <<fsVars, sent, proc, name, dir, second, tmppath, ino, foff, reply,
                   code, got, applied, crashes, kept>>

\* ... and any other error is final.
OpenFails(r, c) ==
    /\ pc[r] \in {"open", "reopen"}
    /\ c \in {400, 403, 500, 507}
    /\ Fault
    /\ Fail(r, c)
    /\ UNCHANGED <<fsVars, sent, tryVars, tmppath, ino, foff, reply, got, applied,
                   crashes, kept>>

-----------------------------------------------------------------------------
(* mog_mkpath_for: the top directory is never created                      *)

\* mkdir: it is fine if somebody else has created it.
Mkdir(r) ==
    /\ pc[r] = "mkdir" /\ dir[r] <= Len(Dirs[Path(r)])
    /\ LET d == Dirs[Path(r)][dir[r]]
           up == Dirs[Path(r)][dir[r] - 1]
       IN  \/ /\ up \in dirs
              /\ dirs' = dirs \cup {d}
              /\ dir' = [dir EXCEPT ![r] = @ + 1]
              /\ UNCHANGED <<pc, code>>
           \/ /\ up \notin dirs
              /\ Fail(r, 404)
              /\ UNCHANGED <<dirs, dir>>
    /\ UNCHANGED <<link, data, sent, proc, name, second, expired, tmppath, ino, foff,
                   reply, got, applied, faults, crashes, kept>>

MkdirFails(r) ==
    /\ pc[r] = "mkdir" /\ dir[r] <= Len(Dirs[Path(r)])
    /\ Fault
    /\ Fail(r, 404)
    /\ UNCHANGED <<fsVars, sent, tryVars, tmppath, ino, foff, reply, got, applied,
                   crashes, kept>>

MkdirDone(r) ==
    /\ pc[r] = "mkdir" /\ dir[r] > Len(Dirs[Path(r)])
    /\ pc' = [pc EXCEPT ![r] = "reopen"]
    /\ dir' = [dir EXCEPT ![r] = 0]
    /\ UNCHANGED <<fsVars, sent, proc, name, second, expired, tmppath, ino, foff, reply, code,
                   got, applied, faults, crashes, kept>>

-----------------------------------------------------------------------------
(* The body: mog_http_write_full, and stop0 when that or the client fails  *)

Write(r) ==
    /\ pc[r] = "write" /\ foff[r] < Size(r)
    /\ LET k == foff[r] + 1
       IN  /\ data' = [data EXCEPT ![ino[r]] =
                          Abstract!Overlay(@, (IF Whole(r) THEN 0 ELSE Request[r].beg) + k,
                                           <<r, k>>)]
           /\ foff' = [foff EXCEPT ![r] = k]
    /\ UNCHANGED <<link, dirs, sent, pc, tryVars, tmppath, ino, reply, code, got,
                   applied, faults, crashes, kept>>

\* write_err, or a chunked body that is malformed: the response goes out
\* before the file is closed.
WriteFails(r, c) ==
    /\ pc[r] = "write"
    /\ \/ c \in {500, 507} /\ foff[r] < Size(r)
       \/ c = 400 /\ Whole(r)
    /\ Fault
    /\ reply' = [reply EXCEPT ![r] = c]
    /\ code' = [code EXCEPT ![r] = c]
    /\ pc' = [pc EXCEPT ![r] = "close"]
    /\ UNCHANGED <<fsVars, sent, tryVars, tmppath, ino, foff, got, applied, crashes, kept>>

\* The client is gone before the end of the body, stop(http, NULL); of a
\* chunked one it may have sent all but the end of the last chunk.
ClientGone(r) ==
    /\ pc[r] = "write" /\ (foff[r] < Size(r) \/ Whole(r))
    /\ pc' = [pc EXCEPT ![r] = "close"]
    /\ UNCHANGED <<fsVars, sent, tryVars, tmppath, ino, foff, reply, code,
                   got, applied, faults, crashes, kept>>

-----------------------------------------------------------------------------
(* put_commit_resp                                                         *)

\* MUTANT: a client that is gone has sent all it wanted to.
BodyEndedEarly(r) == pc[r] = "write" /\ foff[r] > 0

BodyEnded(r) == pc[r] = "write" /\ foff[r] = Size(r)

\* The file is going to be closed, then answer c sent.
CloseThen(r, c) ==
    /\ reply' = [reply EXCEPT ![r] = c]
    /\ pc' = [pc EXCEPT ![r] = "close"]

\* md5_ok is false, if there is a Content-MD5.
Md5Mismatch(r) ==
    /\ BodyEnded(r)
    /\ ~Request[r].md5
    /\ CloseThen(r, 400)
    /\ UNCHANGED <<fsVars, sent, tryVars, tmppath, ino, foff, code, got, applied,
                   faults, crashes, kept>>

\* MUTANT: file->tmppath is not forgotten.
RenameKeepsTmp(r) ==
    /\ link' = [link EXCEPT ![Path(r)] = link[tmppath[r]], ![tmppath[r]] = Nil]
    /\ UNCHANGED tmppath

\* mog_rename, after which there is no temporary file
Rename(r) ==
    /\ link' = [link EXCEPT ![Path(r)] = link[tmppath[r]], ![tmppath[r]] = Nil]
    /\ tmppath' = [tmppath EXCEPT ![r] = Nil]

\* set_perms_commit: a partial upload is where it belongs; a temporary file
\* is renamed, if it is still there.
Commit(r) ==
    /\ BodyEnded(r)
    /\ Request[r].md5
    /\ \/ /\ tmppath[r] = Nil
          /\ CloseThen(r, 201)
          /\ applied' = applied \cup {r}
          /\ UNCHANGED <<link, tmppath>>
       \/ /\ tmppath[r] # Nil /\ link[tmppath[r]] # Nil
          /\ Rename(r)
          /\ applied' = applied \cup {r}
          /\ CloseThen(r, 201)
       \/ /\ tmppath[r] # Nil /\ link[tmppath[r]] = Nil
          /\ CloseThen(r, 500)
          /\ UNCHANGED <<link, tmppath, applied>>
    /\ UNCHANGED <<data, dirs, sent, tryVars, ino, foff, code, got, faults, crashes, kept>>

\* fchmod or rename fails.
CommitFails(r) ==
    /\ BodyEnded(r)
    /\ Request[r].md5
    /\ Fault
    /\ CloseThen(r, 500)
    /\ UNCHANGED <<fsVars, sent, tryVars, tmppath, ino, foff, code, got, applied,
                   crashes, kept>>

\* MUTANT: only a file that has got a response is removed.
UnlinkAnswered(r) ==
    IF tmppath[r] = Nil \/ reply[r] = 0 THEN link ELSE [link EXCEPT ![tmppath[r]] = Nil]

\* mog_unlink: what has not been renamed is removed.
Unlink(r) == IF tmppath[r] = Nil THEN link ELSE [link EXCEPT ![tmppath[r]] = Nil]

\* file_close_null
Close(r) ==
    /\ pc[r] = "close"
    /\ link' = Unlink(r)
    /\ ino' = [ino EXCEPT ![r] = Nil]
    /\ tmppath' = [tmppath EXCEPT ![r] = Nil]
    /\ pc' = [pc EXCEPT ![r] = "reply"]
    /\ UNCHANGED <<data, dirs, sent, tryVars, foff, reply, code, got, applied, faults,
                   crashes, kept>>

CloseFails(r) ==
    /\ pc[r] = "close" /\ tmppath[r] # Nil
    /\ Fault
    /\ kept' = kept \cup {r}
    /\ ino' = [ino EXCEPT ![r] = Nil]
    /\ tmppath' = [tmppath EXCEPT ![r] = Nil]
    /\ pc' = [pc EXCEPT ![r] = "reply"]
    /\ UNCHANGED <<fsVars, sent, tryVars, foff, reply, code, got, applied, crashes>>

\* mog_http_resp, unless the response is out or nobody is left to get it.
Reply(r) ==
    /\ pc[r] = "reply"
    /\ code' = [code EXCEPT ![r] = reply[r]]
    /\ pc' = [pc EXCEPT ![r] = "done"]
    /\ UNCHANGED <<fsVars, sent, tryVars, tmppath, ino, foff, reply, got, applied,
                   faults, crashes, kept>>

-----------------------------------------------------------------------------
(* mog_http_delete                                                         *)

Delete(r, q) ==
    /\ pc[r] = "idle" /\ sent[r] /\ Request[r].allowed
    /\ Request[r].method = "DELETE"
    /\ proc' = [proc EXCEPT ![r] = q]
    /\ \/ /\ link[Path(r)] # Nil
          /\ link' = [link EXCEPT ![Path(r)] = Nil]
          /\ applied' = applied \cup {r}
          /\ reply' = [reply EXCEPT ![r] = 204]
          /\ pc' = [pc EXCEPT ![r] = "reply"]
          /\ UNCHANGED code
       \/ /\ link[Path(r)] = Nil
          /\ Fail(r, 404)
          /\ UNCHANGED <<link, applied, reply>>
    /\ UNCHANGED <<data, dirs, sent, name, dir, second, expired, tmppath, ino, foff,
                   got, faults, crashes, kept>>

DeleteFails(r, q, c) ==
    /\ pc[r] = "idle" /\ sent[r] /\ Request[r].allowed
    /\ Request[r].method = "DELETE"
    /\ c \in {403, 500}
    /\ Fault
    /\ proc' = [proc EXCEPT ![r] = q]
    /\ Fail(r, c)
    /\ UNCHANGED <<fsVars, sent, name, dir, second, expired, tmppath, ino, foff, reply,
                   got, applied, crashes, kept>>

-----------------------------------------------------------------------------
(* mog_http_get_open and mog_http_get_in_progress                          *)

\* The file is open, its size known and promised to the client.
GetOpen(r, q) ==
    /\ pc[r] = "idle" /\ sent[r] /\ Request[r].allowed
    /\ Request[r].method = "GET"
    /\ proc' = [proc EXCEPT ![r] = q]
    /\ \/ /\ link[Path(r)] # Nil
          /\ ino' = [ino EXCEPT ![r] = link[Path(r)]]
          /\ foff' = [foff EXCEPT ![r] = Len(data[link[Path(r)]])]
          /\ code' = [code EXCEPT ![r] = 200]
          /\ pc' = [pc EXCEPT ![r] = "send"]
       \/ /\ link[Path(r)] = Nil
          /\ Fail(r, 404)
          /\ UNCHANGED <<ino, foff>>
    /\ UNCHANGED <<fsVars, sent, name, dir, second, expired, tmppath, reply, got,
                   applied, faults, crashes, kept>>

GetFails(r, q, c) ==
    /\ pc[r] = "idle" /\ sent[r] /\ Request[r].allowed
    /\ Request[r].method = "GET"
    /\ c \in {403, 500}
    /\ Fault
    /\ proc' = [proc EXCEPT ![r] = q]
    /\ Fail(r, c)
    /\ UNCHANGED <<fsVars, sent, name, dir, second, expired, tmppath, ino, foff, reply,
                   got, applied, crashes, kept>>

\* sendfile: the rest of what was promised.
GetSend(r) ==
    /\ pc[r] = "send"
    /\ \/ /\ Len(got[r]) < foff[r] /\ Len(got[r]) < Len(data[ino[r]])
          /\ got' = [got EXCEPT ![r] = Append(@, data[ino[r]][Len(@) + 1])]
          /\ UNCHANGED <<pc, ino>>
       \/ /\ Len(got[r]) = foff[r] \/ Len(got[r]) >= Len(data[ino[r]])
          /\ ino' = [ino EXCEPT ![r] = Nil]
          /\ pc' = [pc EXCEPT ![r] = "done"]
          /\ UNCHANGED got
    /\ UNCHANGED <<fsVars, sent, tryVars, tmppath, foff, reply, code, applied, faults,
                   crashes, kept>>

-----------------------------------------------------------------------------
(* A worker process dies, and a new one takes its place                    *)

Crash(q) ==
    /\ crashes < MaxCrashes
    /\ crashes' = crashes + 1
    /\ LET lost == {r \in Reqs : proc[r] = q /\ pc[r] # "done"}
       IN  /\ lost # {}
           /\ pc' = [r \in Reqs |-> IF r \in lost THEN "lost" ELSE pc[r]]
           /\ ino' = [r \in Reqs |-> IF r \in lost THEN Nil ELSE ino[r]]
           /\ tmppath' = [r \in Reqs |-> IF r \in lost THEN Nil ELSE tmppath[r]]
    /\ UNCHANGED <<fsVars, sent, tryVars, foff, reply, code, got, applied, faults, kept>>

-----------------------------------------------------------------------------

Put(r) ==
    \/ \E q \in Procs : \E n \in TmpNames(r, q) \cup {Path(r)} : PutBegin(r, q, n)
    \/ Opened(r) \/ OpenNoDir(r) \/ OpenExpired(r)
    \/ \E n \in TmpNames(r, proc[r]) : OpenExists(r, n)
    \/ \E c \in {400, 403, 500, 507} : OpenFails(r, c) \/ WriteFails(r, c)
    \/ Mkdir(r) \/ MkdirFails(r) \/ MkdirDone(r)
    \/ Write(r) \/ ClientGone(r)
    \/ Md5Mismatch(r) \/ Commit(r) \/ CommitFails(r)
    \/ Close(r) \/ CloseFails(r)

Other(r) ==
    \/ \E q \in Procs : Delete(r, q) \/ GetOpen(r, q)
    \/ \E q \in Procs, c \in {403, 500} : DeleteFails(r, q, c) \/ GetFails(r, q, c)
    \/ GetSend(r)

Step(r) ==
    \/ \E q \in Procs, c \in {400, 403, 405} : Refuse(r, q, c)
    \/ Put(r) \/ Other(r) \/ Reply(r)

Ended == (\A r \in Reqs : pc[r] \in {"done", "lost"} \/ ~sent[r]) /\ UNCHANGED vars

Next == (\E r \in Reqs : Step(r)) \/ (\E q \in Procs : Crash(q)) \/ Ended

Spec == Init /\ [][Next]_vars

-----------------------------------------------------------------------------
(* Properties                                                              *)

PCs == {"idle", "open", "mkdir", "reopen", "write", "close", "reply", "send",
        "done", "lost"}

\* The types of the files, and of what decides over them.
TypeOK ==
    /\ link \in [Names -> Inodes \cup {Nil}]
    /\ data \in [Inodes -> Seq(Blocks)]
    /\ pc \in [Reqs -> PCs]
    /\ proc \in [Reqs -> Procs \cup {Nil}]
    /\ name \in [Reqs -> Names]
    /\ tmppath \in [Reqs -> Tmps \cup {Nil}]
    /\ ino \in [Reqs -> Inodes \cup {Nil}]
    /\ foff \in [Reqs -> Nat]
    /\ reply \in [Reqs -> Codes] /\ code \in [Reqs -> Codes]
    /\ applied \subseteq Reqs
    /\ faults \in 0 .. MaxFaults

\* Whatever uploads run at once, share a path, break off, fail or die with
\* their process, the files behave as AtomicStore says: a PUT shows all of
\* its body at its path, in one step, or nothing ever (set_perms_commit).
Implements == Abstract!Spec

\* A temporary file does not outlive its upload, whether that was complete,
\* broken off or refused, and also when a write, fchmod or rename failed
\* (file_close_null), except when the process died with it or the unlink of
\* this very file failed; and nobody but its upload renames or removes it.
Leftovers ==
    \A t \in Tmps : link[t] # Nil =>
        LET r == link[t]
        IN  \/ tmppath[r] = t /\ ino[r] = r
            \/ pc[r] = "lost"
            \/ r \in kept /\ pc[r] \in {"reply", "done"}

\* The error that a PUT is answered with has a reason in the request, or in
\* the names that others have taken.
JustError(r) ==
    faults = 0 /\ Request[r].method \in {"PUT", "RANGE"} /\ code[r] \notin Ok \cup {0} =>
        \/ ~Request[r].allowed
        \/ code[r] = 400 /\ (~LengthsOk(r) \/ ~Request[r].md5)
        \/ code[r] = 404 /\ Dirs[Path(r)][1] \notin InitDirs
        \/ code[r] = 500 /\ Whole(r) /\ second[r] /\ foff[r] = 0

\* As long as no call fails for reasons of its own and no chunked body is
\* malformed, a PUT that asks for something legitimate on a device that is
\* there gets its 201: other uploads to the path or next to it, also with the
\* temporary name it has just given up, do not make it fail, unless they hold
\* both names that open_put tries.
OnlyJustErrors == \A r \in Reqs : JustError(r)

\* Some client sends a partial upload to this path.
Partial(p) == \E w \in Reqs : Request[w].method = "RANGE" /\ Path(w) = p /\ sent[w]

\* The blocks that GET r was sent are those of a file that was at its path.
OneFile(r) ==
    Request[r].method = "GET" /\ pc[r] = "done" /\ code[r] = 200 =>
        \/ got[r] = Initial[Path(r)]
        \/ \E w \in applied : Whole(w) /\ Path(w) = Path(r) /\ got[r] = Abstract!Body(w)
        \/ Partial(Path(r))

\* What a GET sends is one file, whole: what the path was when it was opened,
\* even if the path has been replaced or removed since; unless partial
\* uploads write to that path.
ReadWhole == \A r \in Reqs : OneFile(r)

-----------------------------------------------------------------------------
(* The inductive invariant                                                 *)

\* Nothing has been opened yet.
Early == {"idle", "open", "mkdir", "reopen"}

\* The path that an inode has ever been at.
Owner(i) == IF i \in Reqs THEN Path(i) ELSE i

\* A request that has not opened a file has done nothing, and the inode that
\* it may create is unused.
Untouched(r) ==
    pc[r] \in Early =>
        /\ data[r] = <<>> /\ foff[r] = 0 /\ ino[r] = Nil /\ tmppath[r] = Nil
        /\ \A n \in Names : link[n] # r
        /\ \A q \in Reqs : ino[q] # r

\* An upload with a temporary file has the file to itself.
Uploading(r) ==
    tmppath[r] # Nil =>
        /\ Whole(r) /\ pc[r] \in {"write", "close"} /\ r \notin applied
        /\ link[tmppath[r]] = r /\ ino[r] = r
        /\ Len(data[r]) = foff[r] /\ \A k \in 1 .. foff[r] : data[r][k] = <<r, k>>

\* What a request is doing agrees with its method, and what it is going to
\* answer with what it has done.
Consistent(r) ==
    /\ pc[r] \in {"open", "mkdir", "reopen", "write", "close"} =>
           Request[r].method \in {"PUT", "RANGE"}
    /\ pc[r] \in {"open", "mkdir", "reopen"} =>
           proc[r] \in Procs /\ IF Whole(r) THEN name[r] \in Tmps ELSE name[r] = Path(r)
    /\ pc[r] = "write" =>
           /\ Whole(r) <=> tmppath[r] # Nil
           /\ ino[r] # Nil /\ foff[r] <= Size(r)
    /\ pc[r] = "write" /\ ~Whole(r) => Owner(ino[r]) = Path(r)
    /\ pc[r] = "send" => Request[r].method = "GET"
    /\ pc[r] = "reply" => Request[r].method # "GET"
    /\ pc[r] \in Early \cup {"write"} => code[r] = 0 /\ reply[r] = 0 /\ r \notin applied
    /\ pc[r] \in {"close", "reply"} =>
           IF code[r] = 0 THEN reply[r] \in Ok <=> r \in applied
                          ELSE code[r] = reply[r]

\* An inode that a path or somebody else has is one that was put there.
Published ==
    /\ \A p \in Paths : link[p] # Nil =>
           /\ Owner(link[p]) = p
           /\ link[p] \in Reqs /\ Whole(link[p]) => link[p] \in applied
    /\ \A t \in Tmps : link[t] # Nil => link[t] \in Reqs /\ Whole(link[t])
    /\ \A q \in Reqs : ino[q] \in Reqs \ {q} /\ Whole(ino[q]) => ino[q] \in applied

\* Why the store is atomic: until its rename only the upload itself can reach
\* its inode, and afterwards only partial uploads write to it.
StoreInv ==
    /\ TypeOK
    /\ \A r \in Reqs : Untouched(r) /\ Uploading(r) /\ Consistent(r)
    /\ Published
    /\ Leftovers

-----------------------------------------------------------------------------
(* ... and what it takes for answers to be right                           *)

\* The directories of r's path below the top one, before the n-th.
Made(r, n) ==
    \A i \in DOMAIN Dirs[Path(r)] : 1 < i /\ i < n => Dirs[Path(r)][i] \in dirs

\* mog_mkpath_for has created the directories that it has passed.
Passed(r) ==
    /\ pc[r] = "mkdir" => dir[r] >= 2 /\ Made(r, dir[r])
    /\ pc[r] = "reopen" => Made(r, Len(Dirs[Path(r)]) + 1)

\* The error that an upload is going to be answered with when its file has
\* been closed.
JustReply(r) ==
    faults = 0 /\ Request[r].method \in {"PUT", "RANGE"} /\ reply[r] \notin Ok \cup {0} =>
        reply[r] = 400 /\ ~Request[r].md5

\* Why errors are just: directories stay, the top one is there or it is not.
ErrorInv ==
    /\ dir \in [Reqs -> Nat] /\ second \in [Reqs -> BOOLEAN]
    /\ InitDirs \subseteq dirs
    /\ \A r \in Reqs : Passed(r) /\ JustReply(r)
    /\ OnlyJustErrors

\* Inode i has been at path p: it was there at first, or r's upload put it there.
Visible(i, p) ==
    /\ i \in Inodes /\ Owner(i) = p
    /\ i \in Paths => Initial[i] # Missing
    /\ i \in Reqs => /\ sent[i] /\ Request[i].method \in {"PUT", "RANGE"}
                     /\ Whole(i) => i \in applied

\* What is in it: nobody writes to it any more.
Settled(i) ==
    IF i \in Paths THEN Initial[i] # Missing => data[i] = Initial[i]
                   ELSE i \in applied /\ Whole(i) => data[i] = Abstract!Body(i)

\* A GET has sent the beginning of the file it has open, as it was when it
\* was opened.
Reading(r) ==
    /\ pc[r] = "idle" => got[r] = <<>>
    /\ pc[r] = "send" =>
           /\ Visible(ino[r], Path(r))
           /\ \/ /\ foff[r] = Len(data[ino[r]]) /\ Len(got[r]) <= foff[r]
                 /\ \A k \in 1 .. Len(got[r]) : got[r][k] = data[ino[r]][k]
              \/ Partial(Path(r))

\* Why reads are whole.
ReadInv ==
    /\ got \in [Reqs -> Seq(Blocks)]
    /\ \A r \in Reqs : pc[r] \notin {"idle", "lost"} => sent[r]
    /\ \A p \in Paths : link[p] # Nil => Visible(link[p], p)
    /\ \A i \in Inodes : Settled(i) \/ Partial(Owner(i))
    /\ \A r \in Reqs : Reading(r)
    /\ ReadWhole

IInv == StoreInv /\ ErrorInv /\ ReadInv
=============================================================================
