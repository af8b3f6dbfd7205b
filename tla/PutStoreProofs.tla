--------------------------- MODULE PutStoreProofs ---------------------------
(***************************************************************************)
(* StoreInv is an invariant of PutStore, for any requests, paths and       *)
(* processes, and any number of failures and crashes.                      *)
(*                                                                         *)
(* Most steps touch no file: they change nothing but where one request has *)
(* got to.  Lemma Quiet says once why that preserves StoreInv; Failing,    *)
(* Trying and Closing are the three ways in which it happens, and the      *)
(* actions follow.  Of the others, the first steps of a lemma say what the *)
(* action does and what it leaves alone (Frame); the conjuncts of StoreInv *)
(* follow one by one.                                                      *)
(***************************************************************************)
EXTENDS PutStore, TLAPS

LEMMA Sorts ==
    ASSUME TypeOK, NEW r \in Reqs
    PROVE  /\ Path(r) \in Paths /\ Path(r) \in Names /\ Path(r) \in Inodes
           /\ Size(r) \in Nat /\ Request[r].beg \in Nat /\ Request[r].method \in Methods
           /\ r \in Inodes /\ r # Nil /\ foff[r] \in Nat /\ faults \in Nat
           /\ tmppath[r] \in Tmps \cup {Nil} /\ ino[r] \in Inodes \cup {Nil}
           /\ Nil \notin Tmps /\ Nil \notin Paths
           /\ Tmps \subseteq Names /\ Paths \subseteq Names
BY StoreAssumption DEF TypeOK, Path, Size, Names, Inodes

LEMMA Typed ==
    ASSUME TypeOK
    PROVE  /\ pc \in [Reqs -> PCs] /\ proc \in [Reqs -> Procs \cup {Nil}]
           /\ name \in [Reqs -> Names]
           /\ reply \in [Reqs -> Codes] /\ code \in [Reqs -> Codes]
           /\ faults \in 0 .. MaxFaults /\ MaxFaults \in Nat
BY StoreAssumption DEF TypeOK

LEMMA TmpNamesAreTmps ==
    ASSUME NEW r \in Reqs, NEW q \in Procs
    PROVE  TmpNames(r, q) \subseteq Tmps /\ Tmps \subseteq Names /\ Path(r) \in Names
BY StoreAssumption DEF TmpNames, Tmps, Path, Names

\* What a step of r that touches no file leaves alone.
Local(r) ==
    /\ UNCHANGED <<link, data, ino, tmppath, foff, applied, kept>>
    /\ proc' = proc \/ \E p \in Procs : proc' = [proc EXCEPT ![r] = p]
    /\ faults' = faults \/ Fault

\* ... and where it may lead.
QuietStep(r) ==
    /\ \A q \in Reqs \ {r} : /\ pc'[q] = pc[q] /\ name'[q] = name[q]
                              /\ code'[q] = code[q] /\ reply'[q] = reply[q]
    /\ pc[r] \notin {"done", "lost"}
    /\ pc'[r] \in Early => pc[r] \in Early
    /\ pc[r] \in {"write", "close"} => pc'[r] \in {"write", "close"}
    /\ pc[r] = "reply" => pc'[r] \in {"reply", "done"}

LEMMA Idle ==
    ASSUME StoreInv, UNCHANGED <<link, data, pc, proc, name, tmppath, ino, foff, reply, code,
                             applied, faults, kept>>
    PROVE  StoreInv'
BY DEF StoreInv, TypeOK, Untouched, Uploading, Consistent, Published, Leftovers, Owner

LEMMA Unanswered ==
    ASSUME StoreInv, NEW r \in Reqs, pc[r] \in Early
    PROVE  TypeOK /\ code[r] = 0 /\ r \notin applied
BY DEF StoreInv, Consistent

LEMMA Quiet ==
    ASSUME StoreInv, NEW r \in Reqs, Local(r), QuietStep(r), Consistent(r)',
           pc' \in [Reqs -> PCs], name' \in [Reqs -> Names],
           reply' \in [Reqs -> Codes], code' \in [Reqs -> Codes]
    PROVE  StoreInv'
<1>. /\ TypeOK /\ Published /\ Leftovers
     /\ \A q \in Reqs : Untouched(q) /\ Uploading(q) /\ Consistent(q)
  BY DEF StoreInv
<1>1. /\ proc' \in [Reqs -> Procs \cup {Nil}] /\ faults' \in 0 .. MaxFaults
      /\ \A q \in Reqs \ {r} : proc'[q] = proc[q]
  BY Typed DEF Local, Fault
<1>2. TypeOK'
  BY <1>1 DEF TypeOK, Local
<1>3. \A q \in Reqs : Untouched(q)'
  BY DEF Untouched, Local, QuietStep
<1>4. \A q \in Reqs : Uploading(q)'
  BY ZenonT(30) DEF Uploading, Local, QuietStep
<1>5. \A q \in Reqs : Consistent(q)'
  BY <1>1 DEF Consistent, Owner, Local, QuietStep
<1>6. Published'
  BY Zenon DEF Published, Owner, Local
<1>7. Leftovers'
  <2>. SUFFICES ASSUME NEW t \in Tmps, link[t] # Nil
                PROVE  LET i == link[t]
                       IN  \/ tmppath[i] = t /\ ino[i] = i
                           \/ pc'[i] = "lost"
                           \/ i \in kept' /\ pc'[i] \in {"reply", "done"}
    BY DEF Leftovers, Local
  <2>1. link[t] \in Reqs /\ kept' = kept
    BY DEF Published, Local
  <2>. QED
    BY <2>1, Zenon DEF Leftovers, QuietStep
<1>. QED
  BY <1>2, <1>3, <1>4, <1>5, <1>6, <1>7 DEF StoreInv

\* A request that has opened nothing is answered with an error.
LEMMA Failing ==
    ASSUME StoreInv, NEW r \in Reqs, NEW c \in Codes,
           pc[r] \in Early, Fail(r, c), Local(r), UNCHANGED <<name, reply>>
    PROVE  StoreInv'
<1>1. TypeOK
  BY DEF StoreInv
<1>2. /\ pc' \in [Reqs -> PCs] /\ name' \in [Reqs -> Names]
      /\ reply' \in [Reqs -> Codes] /\ code' \in [Reqs -> Codes]
  BY <1>1, Typed DEF Fail, PCs
<1>3. QuietStep(r) /\ pc'[r] = "done"
  BY <1>1, Typed, Zenon DEF Fail, QuietStep, Early
<1>4. Consistent(r)'
  BY <1>3, Zenon DEF Consistent, Early
<1>. QED
  BY <1>2, <1>3, <1>4, Quiet

\* An upload goes on trying to open its file.
LEMMA Trying ==
    ASSUME StoreInv, NEW r \in Reqs, NEW s \in {"open", "mkdir", "reopen"}, pc[r] \in Early,
           pc' = [pc EXCEPT ![r] = s],
           name' = name \/ \E n \in Names : name' = [name EXCEPT ![r] = n],
           Local(r), UNCHANGED <<code, reply>>,
           Request[r].method \in {"PUT", "RANGE"}, proc'[r] \in Procs,
           IF Whole(r) THEN name'[r] \in Tmps ELSE name'[r] = Path(r)
    PROVE  StoreInv'
<1>1. TypeOK /\ Consistent(r)
  BY DEF StoreInv
<1>2. /\ pc' \in [Reqs -> PCs] /\ name' \in [Reqs -> Names]
      /\ reply' \in [Reqs -> Codes] /\ code' \in [Reqs -> Codes]
  BY <1>1, Typed, Zenon DEF PCs
<1>3. QuietStep(r) /\ pc'[r] = s
  BY <1>1, Typed, Zenon DEF QuietStep, Early
<1>4. Consistent(r)'
  BY <1>1, <1>3 DEF Consistent, Early, Local
<1>. QED
  BY <1>2, <1>3, <1>4, Quiet, Zenon

\* An upload gives up: its file is going to be closed.
LEMMA Closing ==
    ASSUME StoreInv, NEW r \in Reqs, NEW c \in Codes \ Ok, pc[r] = "write",
           pc' = [pc EXCEPT ![r] = "close"],
           reply' = [reply EXCEPT ![r] = c],
           code' = code \/ code' = [code EXCEPT ![r] = c],
           Local(r), UNCHANGED name
    PROVE  StoreInv'
<1>1. TypeOK /\ Consistent(r)
  BY DEF StoreInv
<1>2. /\ pc' \in [Reqs -> PCs] /\ name' \in [Reqs -> Names]
      /\ reply' \in [Reqs -> Codes] /\ code' \in [Reqs -> Codes]
  BY <1>1, Typed DEF PCs
<1>3. /\ QuietStep(r) /\ pc'[r] = "close" /\ reply'[r] = c
      /\ code'[r] = code[r] \/ code'[r] = c
  BY <1>1, Typed, Zenon DEF QuietStep, Early
<1>4. Consistent(r)'
  BY <1>1, <1>3 DEF Consistent, Early, Local
<1>. QED
  BY <1>2, <1>3, <1>4, Quiet

LEMMA RefuseInv ==
    ASSUME StoreInv, NEW r \in Reqs, NEW q \in Procs, NEW c \in {400, 403, 405},
           Refuse(r, q, c)
    PROVE  StoreInv'
<1>1. /\ pc[r] \in Early /\ c \in Codes /\ Fail(r, c)
      /\ UNCHANGED <<name, reply>>
  BY DEF Refuse, fsVars, tryVars, Early, Codes, Ok
<1>2. Local(r)
  BY Zenon DEF Refuse, Local, fsVars, tryVars
<1>. QED
  BY <1>1, <1>2, Failing, Zenon

LEMMA OpenFailsInv ==
    ASSUME StoreInv, NEW r \in Reqs, NEW c \in {400, 403, 500, 507}, OpenFails(r, c)
    PROVE  StoreInv'
<1>1. /\ pc[r] \in Early /\ c \in Codes /\ Fail(r, c)
      /\ UNCHANGED <<name, reply>>
  BY DEF OpenFails, fsVars, tryVars, Early, Codes, Ok
<1>2. Local(r)
  BY Zenon DEF OpenFails, Local, fsVars, tryVars
<1>. QED
  BY <1>1, <1>2, Failing, Zenon

LEMMA MkdirFailsInv ==
    ASSUME StoreInv, NEW r \in Reqs, MkdirFails(r)
    PROVE  StoreInv'
<1>1. /\ pc[r] \in Early /\ 404 \in Codes /\ Fail(r, 404)
      /\ UNCHANGED <<name, reply>>
  BY DEF MkdirFails, fsVars, tryVars, Early, Codes, Ok
<1>2. Local(r)
  BY Zenon DEF MkdirFails, Local, fsVars, tryVars
<1>. QED
  BY <1>1, <1>2, Failing, Zenon

LEMMA DeleteFailsInv ==
    ASSUME StoreInv, NEW r \in Reqs, NEW q \in Procs, NEW c \in {403, 500},
           DeleteFails(r, q, c)
    PROVE  StoreInv'
<1>1. /\ pc[r] \in Early /\ c \in Codes /\ Fail(r, c)
      /\ UNCHANGED <<name, reply>>
  BY DEF DeleteFails, fsVars, tryVars, Early, Codes, Ok
<1>2. Local(r)
  BY Zenon DEF DeleteFails, Local, fsVars, tryVars
<1>. QED
  BY <1>1, <1>2, Failing, Zenon

LEMMA GetFailsInv ==
    ASSUME StoreInv, NEW r \in Reqs, NEW q \in Procs, NEW c \in {403, 500},
           GetFails(r, q, c)
    PROVE  StoreInv'
<1>1. /\ pc[r] \in Early /\ c \in Codes /\ Fail(r, c)
      /\ UNCHANGED <<name, reply>>
  BY DEF GetFails, fsVars, tryVars, Early, Codes, Ok
<1>2. Local(r)
  BY Zenon DEF GetFails, Local, fsVars, tryVars
<1>. QED
  BY <1>1, <1>2, Failing, Zenon

LEMMA PutBeginInv ==
    ASSUME StoreInv, NEW r \in Reqs, NEW q \in Procs, NEW n \in TmpNames(r, q) \cup {Path(r)},
           PutBegin(r, q, n)
    PROVE  StoreInv'
<1>1. TypeOK
  BY DEF StoreInv
<1>2. /\ n \in Names /\ IF Whole(r) THEN n \in Tmps ELSE n = Path(r)
      /\ Request[r].method \in {"PUT", "RANGE"}
  BY TmpNamesAreTmps DEF PutBegin, Whole
<1>3. proc'[r] \in Procs /\ name'[r] = n
  BY <1>1, Typed, Zenon DEF PutBegin
<1>4. /\ pc[r] \in Early /\ pc' = [pc EXCEPT ![r] = "open"]
      /\ name' = [name EXCEPT ![r] = n]
      /\ UNCHANGED <<code, reply>>
  BY DEF PutBegin, Early
<1>5. Local(r)
  BY Zenon DEF PutBegin, Local, fsVars
<1>. QED
  BY <1>2, <1>3, <1>4, <1>5, Trying, Zenon

LEMMA OpenExistsInv ==
    ASSUME StoreInv, NEW r \in Reqs, NEW n \in TmpNames(r, proc[r]), OpenExists(r, n)
    PROVE  StoreInv'
<1>1. TypeOK /\ Consistent(r)
  BY Zenon DEF StoreInv
<1>2. /\ Local(r) /\ UNCHANGED <<reply, proc>> /\ pc[r] \in {"open", "reopen"}
      /\ pc[r] \in Early /\ Whole(r)
  BY Zenon DEF OpenExists, Local, fsVars, Early, Exclusive
<1>3. proc[r] \in Procs /\ Request[r].method \in {"PUT", "RANGE"}
  BY <1>1, <1>2, Zenon DEF Consistent
<1>4. n \in Names /\ n \in Tmps
  BY <1>3, TmpNamesAreTmps, Zenon
<1>5. CASE second[r]
  BY <1>2, <1>5, Failing DEF OpenExists, Codes
<1>6. CASE ~second[r]
  <2>1. /\ pc' = [pc EXCEPT ![r] = "open"] /\ name' = [name EXCEPT ![r] = n]
        /\ UNCHANGED code
    BY <1>6 DEF OpenExists
  <2>2. name'[r] = n
    BY <1>1, <2>1, Typed, Zenon
  <2>. QED
    BY <1>2, <1>3, <1>4, <2>1, <2>2, Trying, Zenon
<1>. QED
  BY <1>5, <1>6

\* What is known of an upload that is opening its file.
LEMMA Opening ==
    ASSUME StoreInv, NEW r \in Reqs, pc[r] \in {"open", "mkdir", "reopen"}
    PROVE  /\ Request[r].method \in {"PUT", "RANGE"} /\ proc[r] \in Procs
           /\ IF Whole(r) THEN name[r] \in Tmps ELSE name[r] = Path(r)
           /\ pc[r] \in Early
BY DEF StoreInv, Consistent, Early

LEMMA OpenNoDirInv ==
    ASSUME StoreInv, NEW r \in Reqs, OpenNoDir(r)
    PROVE  StoreInv'
<1>1. /\ Local(r) /\ UNCHANGED <<name, proc, reply>>
      /\ pc[r] \in {"open", "mkdir", "reopen"}
  BY Zenon DEF OpenNoDir, Local, fsVars
<1>2. CASE pc[r] = "open"
  BY <1>1, <1>2, Opening, Trying, Zenon DEF OpenNoDir
<1>3. CASE pc[r] = "reopen"
  BY <1>1, <1>3, Opening, Failing DEF OpenNoDir, Codes
<1>. QED
  BY <1>2, <1>3 DEF OpenNoDir

LEMMA OpenExpiredInv ==
    ASSUME StoreInv, NEW r \in Reqs, OpenExpired(r)
    PROVE  StoreInv'
<1>1. /\ pc[r] \in {"open", "mkdir", "reopen"} /\ pc' = [pc EXCEPT ![r] = "open"]
      /\ Local(r) /\ UNCHANGED <<name, proc, code, reply>>
  BY Zenon DEF OpenExpired, Local, fsVars
<1>. QED
  BY <1>1, Opening, Trying, Zenon

LEMMA MkdirInv ==
    ASSUME StoreInv, NEW r \in Reqs, Mkdir(r)
    PROVE  StoreInv'
<1>1. Local(r) /\ UNCHANGED <<name, proc, reply>> /\ pc[r] = "mkdir"
  BY DEF Mkdir, Local
<1>2. CASE UNCHANGED <<pc, code>>
  <2>1. pc' = [pc EXCEPT ![r] = "mkdir"]
    BY <1>1, <1>2, Typed, Zenon DEF StoreInv
  <2>. QED
    BY <1>1, <1>2, <2>1, Opening, Trying, Zenon
<1>3. CASE Fail(r, 404)
  BY <1>1, <1>3, Opening, Failing DEF Codes
<1>. QED
  BY <1>2, <1>3, Zenon DEF Mkdir

LEMMA MkdirDoneInv ==
    ASSUME StoreInv, NEW r \in Reqs, MkdirDone(r)
    PROVE  StoreInv'
<1>1. /\ pc[r] \in {"open", "mkdir", "reopen"} /\ pc' = [pc EXCEPT ![r] = "reopen"]
      /\ Local(r) /\ UNCHANGED <<name, proc, code, reply>>
  BY DEF MkdirDone, Local, fsVars
<1>. QED
  BY <1>1, Opening, Trying, Zenon

LEMMA WriteFailsInv ==
    ASSUME StoreInv, NEW r \in Reqs, NEW c \in {400, 403, 500, 507}, WriteFails(r, c)
    PROVE  StoreInv'
<1>1. /\ pc[r] = "write" /\ pc' = [pc EXCEPT ![r] = "close"]
      /\ c \in Codes \ Ok /\ reply' = [reply EXCEPT ![r] = c]
      /\ code' = code \/ code' = [code EXCEPT ![r] = c]
      /\ Local(r) /\ UNCHANGED name
  BY DEF WriteFails, Local, fsVars, tryVars, Codes, Ok
<1>. QED
  BY <1>1, Closing, Zenon

LEMMA ClientGoneInv ==
    ASSUME StoreInv, NEW r \in Reqs, ClientGone(r)
    PROVE  StoreInv'
<1>1. pc[r] = "write" /\ reply[r] = 0
  BY DEF StoreInv, Consistent, ClientGone
<1>2. reply' = [reply EXCEPT ![r] = 0]
  BY <1>1, Typed DEF StoreInv, ClientGone
<1>. QED
  <2>1. /\ pc' = [pc EXCEPT ![r] = "close"] /\ code' = code /\ 0 \in Codes \ Ok
        /\ Local(r) /\ UNCHANGED name
    BY DEF ClientGone, Local, fsVars, tryVars, Codes, Ok
  <2>. QED
    BY <1>1, <1>2, <2>1, Closing, Zenon

LEMMA Md5MismatchInv ==
    ASSUME StoreInv, NEW r \in Reqs, Md5Mismatch(r)
    PROVE  StoreInv'
<1>1. /\ pc[r] = "write" /\ pc' = [pc EXCEPT ![r] = "close"]
      /\ 400 \in Codes \ Ok /\ reply' = [reply EXCEPT ![r] = 400]
      /\ code' = code \/ code' = [code EXCEPT ![r] = 400]
      /\ Local(r) /\ UNCHANGED name
  BY DEF Md5Mismatch, BodyEnded, CloseThen, Local, fsVars, tryVars, Codes, Ok
<1>. QED
  BY <1>1, Closing, Zenon

LEMMA CommitFailsInv ==
    ASSUME StoreInv, NEW r \in Reqs, CommitFails(r)
    PROVE  StoreInv'
<1>1. /\ pc[r] = "write" /\ pc' = [pc EXCEPT ![r] = "close"]
      /\ 500 \in Codes \ Ok /\ reply' = [reply EXCEPT ![r] = 500]
      /\ code' = code \/ code' = [code EXCEPT ![r] = 500]
      /\ Local(r) /\ UNCHANGED name
  BY DEF CommitFails, BodyEnded, CloseThen, Local, fsVars, tryVars, Codes, Ok
<1>. QED
  BY <1>1, Closing, ZenonT(30)

LEMMA ReplyInv ==
    ASSUME StoreInv, NEW r \in Reqs, Reply(r)
    PROVE  StoreInv'
<1>1. TypeOK
  BY DEF StoreInv
<1>2. /\ pc' \in [Reqs -> PCs] /\ code' \in [Reqs -> Codes]
      /\ UNCHANGED <<name, reply>> /\ Local(r)
  BY <1>1, Typed DEF Reply, PCs, Local, fsVars, tryVars
<1>3. QuietStep(r) /\ pc'[r] = "done"
  BY <1>1, Typed, Zenon DEF Reply, tryVars, QuietStep, Early
<1>4. Consistent(r)'
  BY <1>3 DEF Consistent, Early
<1>5. name' \in [Reqs -> Names] /\ reply' \in [Reqs -> Codes]
  BY <1>1, <1>2, Typed, Zenon
<1>. QED
  BY <1>2, <1>3, <1>4, <1>5, Quiet

-----------------------------------------------------------------------------
(* DELETE and GET                                                          *)

LEMMA FileTyped ==
    ASSUME TypeOK
    PROVE  /\ link \in [Names -> Inodes \cup {Nil}] /\ data \in [Inodes -> Seq(Blocks)]
           /\ tmppath \in [Reqs -> Tmps \cup {Nil}] /\ ino \in [Reqs -> Inodes \cup {Nil}]
           /\ foff \in [Reqs -> Nat] /\ applied \subseteq Reqs
BY StoreAssumption, Zenon DEF TypeOK

\* Nobody but r has done anything.
Frame(r) ==
    \A q \in Reqs \ {r} :
        /\ pc'[q] = pc[q] /\ name'[q] = name[q] /\ proc'[q] = proc[q]
        /\ code'[q] = code[q] /\ reply'[q] = reply[q]
        /\ tmppath'[q] = tmppath[q] /\ ino'[q] = ino[q] /\ foff'[q] = foff[q]

LEMMA OthersConsistent ==
    ASSUME NEW r \in Reqs, \A q \in Reqs : Consistent(q), Frame(r),
           applied' = applied \/ applied' = applied \cup {r}, Consistent(r)'
    PROVE  \A q \in Reqs : Consistent(q)'
BY DEF Consistent, Frame, Owner

LEMMA DeleteInv ==
    ASSUME StoreInv, NEW r \in Reqs, NEW p \in Procs, Delete(r, p)
    PROVE  StoreInv'
<1>0. TypeOK
  BY DEF StoreInv
<1>u. \A q \in Reqs : Untouched(q)
  BY DEF StoreInv
<1>l. \A q \in Reqs : Uploading(q)
  BY DEF StoreInv
<1>c. \A q \in Reqs : Consistent(q)
  BY DEF StoreInv
<1>p. Published
  BY DEF StoreInv
<1>o. Leftovers
  BY Zenon DEF StoreInv
<1>1. /\ pc[r] = "idle" /\ proc' = [proc EXCEPT ![r] = p]
      /\ UNCHANGED <<data, name, tmppath, ino, foff, faults, kept>>
      /\ Request[r].method = "DELETE"
  BY DEF Delete
<1>2. CASE link[Path(r)] = Nil
  <2>1. Local(r)
    BY <1>1, <1>2, Zenon DEF Delete, Local
  <2>2. pc[r] \in Early /\ 404 \in Codes
    BY <1>1 DEF Early, Codes
  <2>. QED
    BY <1>1, <1>2, <2>1, <2>2, Failing, Zenon DEF Delete
<1>3. CASE link[Path(r)] # Nil
  <2>1. /\ link' = [link EXCEPT ![Path(r)] = Nil] /\ applied' = applied \cup {r}
        /\ reply' = [reply EXCEPT ![r] = 204] /\ pc' = [pc EXCEPT ![r] = "reply"]
        /\ code' = code
    BY <1>3, Zenon DEF Delete
  <2>2. /\ Path(r) \in Paths /\ Paths \subseteq Names /\ Tmps \subseteq Names
        /\ Paths \cap Tmps = {} /\ Nil \notin Reqs
    BY <1>0, Sorts, StoreAssumption, Zenon DEF Inodes
  <2>3. /\ Frame(r) /\ pc'[r] = "reply" /\ reply'[r] = 204 /\ code'[r] = 0
        /\ tmppath[r] = Nil
    BY <1>0, <1>1, <1>c, <1>u, <2>1, Typed, Zenon DEF Frame, Consistent, Untouched, Early
  <2>4. link'[Path(r)] = Nil /\ \A n \in Names \ {Path(r)} : link'[n] = link[n]
    BY <1>0, <2>1, <2>2, FileTyped, Zenon
  <2>t. TypeOK'
    <3>1. link' \in [Names -> Inodes \cup {Nil}] /\ applied' \subseteq Reqs
      BY <1>0, <2>1, <2>2, FileTyped, Zenon
    <3>2. pc' \in [Reqs -> PCs] /\ reply' \in [Reqs -> Codes]
      BY <1>0, <2>1, Typed DEF PCs, Codes, Ok
    <3>3. proc' \in [Reqs -> Procs \cup {Nil}]
      BY <1>0, <1>1, Typed, Zenon
    <3>. QED
      BY <1>0, <1>1, <2>1, <3>1, <3>2, <3>3, Zenon DEF TypeOK
  <2>5. \A q \in Reqs : Untouched(q)'
    BY <1>1, <1>u, <2>2, <2>3, <2>4 DEF Untouched, Frame, Early
  <2>6. \A q \in Reqs : Uploading(q)'
    <3>. SUFFICES ASSUME NEW q \in Reqs \ {r}, tmppath[q] # Nil
                  PROVE  link'[tmppath[q]] = link[tmppath[q]]
      BY <1>1, <1>l, <2>1, <2>3 DEF Uploading, Frame
    <3>1. tmppath[q] \in Tmps
      BY <1>0, Sorts
    <3>. QED
      BY <2>2, <2>4, <3>1, Zenon
  <2>7. \A q \in Reqs : Consistent(q)'
    <3>1. Consistent(r)'
      BY <1>1, <2>1, <2>3, Zenon DEF Consistent, Early, Ok
    <3>. QED
      BY <1>c, <2>1, <2>3, <3>1, OthersConsistent, Zenon
  <2>8. Published'
    BY <1>1, <1>p, <2>1, <2>2, <2>4 DEF Published, Owner
  <2>9. Leftovers'
    <3>1. \A m \in Tmps : link'[m] = link[m]
      BY <2>2, <2>4, Zenon
    <3>2. \A m \in Tmps : link[m] # Nil => link[m] # r /\ link[m] \in Reqs
      BY <1>1, <1>p, <1>u, <2>2, Zenon DEF Published, Untouched, Early
    <3>. QED
      BY <1>1, <1>o, <2>3, <3>1, <3>2 DEF Leftovers, Frame
  <2>. QED
    BY <2>t, <2>5, <2>6, <2>7, <2>8, <2>9, Zenon DEF StoreInv
<1>. QED
  BY <1>2, <1>3, Zenon

-----------------------------------------------------------------------------
(* The steps in which an upload opens its file, writes to it and renames  *)
(* it                                                                      *)

LEMMA OpenedInv ==
    ASSUME StoreInv, NEW r \in Reqs, Opened(r)
    PROVE  StoreInv'
<1>0. TypeOK
  BY DEF StoreInv
<1>u. \A q \in Reqs : Untouched(q)
  BY DEF StoreInv
<1>l. \A q \in Reqs : Uploading(q)
  BY DEF StoreInv
<1>c. \A q \in Reqs : Consistent(q)
  BY DEF StoreInv
<1>p. Published
  BY DEF StoreInv
<1>o. Leftovers
  BY Zenon DEF StoreInv
<1> DEFINE n == name[r]
           new == link[n] = Nil
<1>1. /\ Frame(r)
      /\ pc[r] \in {"open", "reopen"} /\ pc'[r] = "write" /\ name'[r] = Path(r)
      /\ tmppath'[r] = IF Whole(r) THEN n ELSE Nil
      /\ ino'[r] = IF new THEN r ELSE link[n]
      /\ foff'[r] = foff[r] /\ code'[r] = code[r] /\ reply'[r] = reply[r]
      /\ proc'[r] = proc[r]
      /\ data' = data /\ applied' = applied /\ faults' = faults /\ kept' = kept
  BY <1>0, Typed, FileTyped, Zenon DEF Opened, Frame
<1>2. n \in Names /\ (IF Whole(r) THEN n \in Tmps /\ new ELSE n = Path(r))
  BY <1>c, <1>0, <1>1, Typed, Zenon DEF Consistent, Opened, Exclusive
<1>3. /\ \A m \in Names \ {n} : link'[m] = link[m]
      /\ link'[n] = IF new THEN r ELSE link[n]
  BY <1>0, <1>2, FileTyped, Zenon DEF Opened
<1>4. /\ data[r] = <<>> /\ foff[r] = 0 /\ r \notin applied /\ r # Nil
      /\ code[r] = 0 /\ reply[r] = 0 /\ Request[r].method \in {"PUT", "RANGE"}
      /\ \A m \in Names : link[m] # r
      /\ \A q \in Reqs : ino[q] # r
      /\ Path(r) \in Paths /\ Paths \subseteq Names /\ Tmps \subseteq Names
      /\ Nil \notin Tmps /\ Size(r) \in Nat
  BY <1>u, <1>c, <1>0, <1>1, Sorts, Zenon DEF Untouched, Consistent, Early
<1>5. Paths \cap Tmps = {} /\ Paths \cap Reqs = {}
  BY StoreAssumption, Zenon
<1>t. TypeOK'
  <2>1. link' \in [Names -> Inodes \cup {Nil}] /\ ino' \in [Reqs -> Inodes \cup {Nil}]
    BY <1>0, <1>2, FileTyped, Sorts, Zenon DEF Opened
  <2>2. tmppath' \in [Reqs -> Tmps \cup {Nil}] /\ name' \in [Reqs -> Names]
    BY <1>0, <1>2, <1>4, FileTyped, Typed, Zenon DEF Opened
  <2>3. pc' \in [Reqs -> PCs]
    BY <1>0, Typed, Zenon DEF Opened, PCs
  <2>4. UNCHANGED <<data, proc, foff, reply, code, applied, faults, kept>>
    BY Zenon DEF Opened
  <2>. QED
    BY <1>0, <2>1, <2>2, <2>3, <2>4, Zenon DEF TypeOK
<1>6. \A q \in Reqs : Untouched(q)'
  <2>. SUFFICES ASSUME NEW q \in Reqs, pc'[q] \in Early
                PROVE  Untouched(q)'
    BY Zenon DEF Untouched
  <2>1. q # r /\ Untouched(q) /\ pc[q] \in Early
    BY <1>1, <1>u, Zenon DEF Frame, Early
  <2>2. \A m \in Names : link'[m] # q
    BY <1>2, <1>3, <2>1, Zenon DEF Untouched
  <2>3. \A x \in Reqs : ino'[x] # q
    <3>1. ino'[r] # q /\ \A x \in Reqs : ino[x] # q
      BY <1>1, <1>2, <2>1, Zenon DEF Untouched
    <3>. QED
      BY <1>1, <3>1, Zenon DEF Frame
  <2>. QED
    BY <1>1, <2>1, <2>2, <2>3, Zenon DEF Untouched, Frame
<1>7. \A q \in Reqs : Uploading(q)'
  <2>0. data'[r] = <<>>
    BY <1>1, <1>4, Zenon
  <2>1. Len(data'[r]) = 0 /\ 1 .. 0 = {}
    BY <2>0
  <2>2. Uploading(r)'
    BY <1>1, <1>2, <1>3, <1>4, <2>1, Zenon DEF Uploading
  <2>3. ASSUME NEW q \in Reqs \ {r} PROVE Uploading(q)'
    <3>1. /\ pc'[q] = pc[q] /\ tmppath'[q] = tmppath[q] /\ ino'[q] = ino[q]
          /\ foff'[q] = foff[q] /\ Uploading(q)
      BY <1>1, <1>l, Zenon DEF Frame
    <3>2. tmppath[q] # Nil => link'[tmppath[q]] = link[tmppath[q]]
      BY <1>l, <1>0, <1>3, <1>4, FileTyped, Sorts, Zenon DEF Uploading
    <3>. QED
      BY <1>1, <3>1, <3>2, Zenon DEF Uploading
  <2>. QED
    BY <2>2, <2>3, Zenon
<1>8. \A q \in Reqs : Consistent(q)'
  <2>1. ~Whole(r) => Owner(ino'[r]) = Path(r) /\ ino'[r] # Nil
    BY <1>p, <1>1, <1>2, <1>4, ZenonT(30) DEF Published, Owner
  <2>2. /\ pc'[r] = "write" /\ code'[r] = 0 /\ reply'[r] = 0 /\ r \notin applied'
        /\ Request[r].method \in {"PUT", "RANGE"} /\ foff'[r] = 0 /\ Size(r) \in Nat
    BY <1>1, <1>4, Zenon
  <2>3. (Whole(r) <=> tmppath'[r] # Nil) /\ ino'[r] # Nil
    BY <1>1, <1>2, <1>4, <2>1, Zenon
  <2>4. Consistent(r)'
    BY <2>1, <2>2, <2>3 DEF Consistent, Early, Owner
  <2>. QED
    BY <1>c, <1>1, <2>4, OthersConsistent, Zenon
<1>9. Published'
  <2>1. ASSUME NEW p \in Paths, link'[p] # Nil
        PROVE  /\ Owner(link'[p]) = p
               /\ link'[p] \in Reqs /\ Whole(link'[p]) => link'[p] \in applied'
    BY <1>p, <1>1, <1>2, <1>3, <1>4, <1>5, <2>1 DEF Published, Owner
  <2>2. ASSUME NEW t \in Tmps, link'[t] # Nil
        PROVE  link'[t] \in Reqs /\ Whole(link'[t])
    BY <1>p, <1>2, <1>3, <1>4, <1>5, <2>2, Zenon DEF Published
  <2>3. ASSUME NEW q \in Reqs, ino'[q] \in Reqs \ {q}, Whole(ino'[q])
        PROVE  ino'[q] \in applied'
    <3>1. CASE q = r
      BY <1>p, <1>1, <1>2, <1>4, <1>5, <2>3, <3>1, Zenon DEF Published
    <3>2. CASE q # r
      BY <1>p, <1>1, <2>3, <3>2, Zenon DEF Published, Frame
    <3>. QED
      BY <3>1, <3>2, Zenon
  <2>. QED
    BY <2>1, <2>2, <2>3, Zenon DEF Published, Owner
<1>10. Leftovers'
  <2>. SUFFICES ASSUME NEW t \in Tmps, link'[t] # Nil
                PROVE  \/ tmppath'[link'[t]] = t /\ ino'[link'[t]] = link'[t]
                       \/ pc'[link'[t]] = "lost"
                       \/ link'[t] \in kept' /\ pc'[link'[t]] \in {"reply", "done"}
    BY Zenon DEF Leftovers
  <2>1. CASE t = n
    BY <1>1, <1>2, <1>3, <1>4, <1>5, <2>1, Zenon
  <2>2. CASE t # n
    <3>1. /\ link'[t] = link[t] /\ link[t] \in Reqs \ {r}
          /\ \/ tmppath[link[t]] = t /\ ino[link[t]] = link[t]
             \/ pc[link[t]] = "lost"
             \/ link[t] \in kept /\ pc[link[t]] \in {"reply", "done"}
      BY <1>o, <1>p, <1>3, <1>4, <2>2, Zenon DEF Published, Leftovers
    <3>. QED
      BY <1>1, <3>1, ZenonT(30) DEF Frame
  <2>. QED
    BY <2>1, <2>2, Zenon
<1>. QED
  BY <1>t, <1>6, <1>7, <1>8, <1>9, <1>10, Zenon DEF StoreInv

\* What Write does to the blocks of a file.
LEMMA Overlaid ==
    ASSUME NEW f \in Seq(Blocks), NEW n \in Nat \ {0}, NEW b \in Blocks
    PROVE  Abstract!Overlay(f, n, b) \in Seq(Blocks)
<1> DEFINE m == IF n > Len(f) THEN n ELSE Len(f)
<1>1. m \in Nat /\ Len(f) \in Nat /\ n \in 1 .. m
  OBVIOUS
<1>2. \A i \in 1 .. m : (IF i = n THEN b ELSE IF i <= Len(f) THEN f[i] ELSE Hole) \in Blocks
  BY <1>1 DEF Blocks
<1>. HIDE DEF m
<1>3. Abstract!Overlay(f, n, b) =
        [i \in 1 .. m |-> IF i = n THEN b ELSE IF i <= Len(f) THEN f[i] ELSE Hole]
  BY DEF Abstract!Overlay, m
<1>. QED
  BY <1>1, <1>2, <1>3

\* ... and to those of a file that has m blocks of r, and no others.
LEMMA Extended ==
    ASSUME NEW r \in Reqs, NEW f \in Seq(Blocks), NEW m \in Nat,
           Len(f) = m, \A j \in 1 .. m : f[j] = <<r, j>>,
           NEW g, g = Abstract!Overlay(f, m + 1, <<r, m + 1>>)
    PROVE  Len(g) = m + 1 /\ \A j \in 1 .. (m + 1) : g[j] = <<r, j>>
<1>1. g = [i \in 1 .. (m + 1) |-> IF i = m + 1 THEN <<r, m + 1>> ELSE f[i]]
  BY DEF Abstract!Overlay
<1>2. <<r, m + 1>> \in Blocks
  BY DEF Blocks, Inodes
<1>3. g \in Seq(Blocks)
  BY <1>2, Overlaid
<1>4. Len(g) = m + 1
  BY <1>1, <1>3
<1>5. \A j \in 1 .. (m + 1) : j = m + 1 \/ j \in 1 .. m
  OBVIOUS
<1>. QED
  BY <1>1, <1>4, <1>5, Zenon

LEMMA WriteInv ==
    ASSUME StoreInv, NEW r \in Reqs, Write(r)
    PROVE  StoreInv'
<1>0. TypeOK
  BY DEF StoreInv
<1>u. \A q \in Reqs : Untouched(q)
  BY DEF StoreInv
<1>l. \A q \in Reqs : Uploading(q)
  BY DEF StoreInv
<1>c. \A q \in Reqs : Consistent(q)
  BY DEF StoreInv
<1>p. Published
  BY DEF StoreInv
<1>o. Leftovers
  BY DEF StoreInv
<1> DEFINE i == ino[r]
           k == foff[r] + 1
           n == (IF Whole(r) THEN 0 ELSE Request[r].beg) + k
<1>1. /\ Frame(r)
      /\ pc[r] = "write" /\ foff[r] < Size(r) /\ foff'[r] = k
      /\ UNCHANGED <<link, pc, name, proc, code, reply, tmppath, ino, applied, faults, kept>>
  BY <1>0, FileTyped, Zenon DEF Write, Frame, tryVars
<1>2. /\ i \in Inodes /\ r \in Inodes /\ (Whole(r) => i = r /\ tmppath[r] # Nil)
      /\ k \in Nat \ {0} /\ k <= Size(r) /\ n \in Nat \ {0} /\ (Whole(r) => n = k)
      /\ <<r, k>> \in Blocks /\ Request[r].method \in {"PUT", "RANGE"}
      /\ foff[r] \in Nat
  <2>1. i # Nil /\ (Whole(r) => i = r /\ tmppath[r] # Nil)
        /\ Request[r].method \in {"PUT", "RANGE"}
    BY <1>l, <1>c, <1>1, Zenon DEF Consistent, Uploading
  <2>. QED
    BY <1>0, <1>1, <2>1, Sorts DEF Blocks
<1>3. /\ data'[i] = Abstract!Overlay(data[i], n, <<r, k>>)
      /\ \A j \in Inodes \ {i} : data'[j] = data[j]
      /\ data[i] \in Seq(Blocks)
  BY <1>0, <1>2, FileTyped, Zenon DEF Write
<1>t. TypeOK'
  <2>1. data' \in [Inodes -> Seq(Blocks)]
    <3>1. Abstract!Overlay(data[i], n, <<r, k>>) \in Seq(Blocks)
      <4>. HIDE DEF i, k, n
      <4>. QED
        BY <1>2, <1>3, Overlaid, Zenon
    <3>. QED
      BY <1>0, <1>2, <3>1, FileTyped DEF Write
  <2>2. foff' \in [Reqs -> Nat]
    BY <1>0, <1>2, FileTyped, Zenon DEF Write
  <2>. QED
    BY <1>0, <1>1, <2>1, <2>2, Zenon DEF TypeOK
<1>4. \A q \in Reqs : Untouched(q)'
  <2>. SUFFICES ASSUME NEW q \in Reqs, pc[q] \in Early
                PROVE  data'[q] = data[q] /\ q # r
    BY <1>u, <1>1, SMTT(20) DEF Untouched, Frame
  <2>1. q # i /\ q # r
    BY <1>u, <1>1 DEF Untouched, Early
  <2>. QED
    BY <1>3, <2>1, Zenon DEF Inodes
<1>5. \A q \in Reqs : Uploading(q)'
  <2>1. Whole(r) => /\ Len(data'[r]) = k
                    /\ \A j \in 1 .. k : data'[r][j] = <<r, j>>
    <3>. SUFFICES ASSUME Whole(r)
                  PROVE  /\ Len(data'[r]) = k
                         /\ \A j \in 1 .. k : data'[r][j] = <<r, j>>
      OBVIOUS
    <3>1. /\ i = r /\ n = k /\ Len(data[r]) = foff[r]
          /\ \A j \in 1 .. foff[r] : data[r][j] = <<r, j>>
      BY <1>l, <1>1, <1>2, Zenon DEF Uploading
    <3>2. data'[r] = Abstract!Overlay(data[r], k, <<r, k>>) /\ data[r] \in Seq(Blocks)
      BY <1>3, <3>1, Zenon
    <3>3. foff[r] \in Nat
      BY <1>2, Zenon
    <3>4. Len(data[r]) = foff[r] /\ \A j \in 1 .. foff[r] : data[r][j] = <<r, j>>
      BY <3>1, Zenon
    <3>. QED
      BY <3>2, <3>3, <3>4, Extended, Zenon
  <2>2. Uploading(r)'
    BY <1>l, <1>1, <1>2, <2>1, Zenon DEF Uploading
  <2>3. \A q \in Reqs \ {r} : Uploading(q)'
    <3>. SUFFICES ASSUME NEW q \in Reqs \ {r}, tmppath[q] # Nil
                  PROVE  data'[q] = data[q]
      BY <1>l, <1>1 DEF Uploading, Frame
    <3>1. q # i
      BY <1>l, <1>p DEF Uploading, Published
    <3>. QED
      BY <1>3, <3>1, Zenon DEF Inodes
  <2>. QED
    BY <2>2, <2>3
<1>6. \A q \in Reqs : Consistent(q)'
  <2>1. Consistent(r)'
    BY <1>c, <1>1, <1>2, Zenon DEF Consistent, Owner, Early
  <2>. QED
    BY <1>c, <1>1, <2>1, OthersConsistent, Zenon
<1>7. Published'
  BY <1>p, <1>1 DEF Published, Owner
<1>8. Leftovers'
  BY <1>o, <1>1, Zenon DEF Leftovers
<1>. QED
  BY <1>t, <1>4, <1>5, <1>6, <1>7, <1>8, Zenon DEF StoreInv

LEMMA CommitInv ==
    ASSUME StoreInv, NEW r \in Reqs, Commit(r)
    PROVE  StoreInv'
<1>0. TypeOK
  BY DEF StoreInv
<1>u. \A q \in Reqs : Untouched(q)
  BY DEF StoreInv
<1>l. \A q \in Reqs : Uploading(q)
  BY DEF StoreInv
<1>c. \A q \in Reqs : Consistent(q)
  BY DEF StoreInv
<1>p. Published
  BY DEF StoreInv
<1>o. Leftovers
  BY DEF StoreInv
<1> DEFINE t == tmppath[r]
<1>1. /\ pc[r] = "write" /\ r \notin applied /\ code[r] = 0
      /\ Whole(r) <=> t # Nil
      /\ t # Nil => t \in Tmps /\ link[t] = r
      /\ Request[r].method \in {"PUT", "RANGE"} /\ Owner(r) = Path(r)
  BY <1>0, <1>l, <1>c, Sorts, Zenon DEF Commit, BodyEnded, Consistent, Uploading, Owner
<1>2. /\ Path(r) \in Paths /\ Paths \subseteq Names /\ Tmps \subseteq Names /\ r # Nil
      /\ Nil \notin Tmps /\ r \in Inodes /\ Paths \cap Tmps = {}
  BY <1>0, Sorts, StoreAssumption, Zenon
<1>3. /\ pc' = [pc EXCEPT ![r] = "close"] /\ reply' = [reply EXCEPT ![r] = 201]
      /\ applied' = applied \cup {r}
      /\ UNCHANGED <<data, name, proc, ino, foff, code, faults, kept>>
      /\ IF t = Nil THEN UNCHANGED <<link, tmppath>>
         ELSE /\ link' = [link EXCEPT ![Path(r)] = r, ![t] = Nil]
              /\ tmppath' = [tmppath EXCEPT ![r] = Nil]
  BY <1>1, <1>2, Zenon DEF Commit, CloseThen, Rename, tryVars
<1>4. Frame(r) /\ pc'[r] = "close" /\ reply'[r] = 201 /\ tmppath'[r] = Nil
  BY <1>0, <1>3, Typed, FileTyped DEF Frame
<1>5. /\ t = Nil => link' = link
      /\ t # Nil => /\ link'[Path(r)] = r /\ link'[t] = Nil
                    /\ \A n \in Names \ {Path(r), t} : link'[n] = link[n]
  BY <1>0, <1>1, <1>2, <1>3, FileTyped, Zenon
<1>t. TypeOK'
  <2>1. link' \in [Names -> Inodes \cup {Nil}] /\ tmppath' \in [Reqs -> Tmps \cup {Nil}]
    BY <1>0, <1>2, <1>3, FileTyped, ZenonT(30)
  <2>2. pc' \in [Reqs -> PCs] /\ reply' \in [Reqs -> Codes]
    BY <1>0, <1>3, Typed, SMTT(20) DEF PCs, Codes, Ok
  <2>. QED
    BY <1>0, <1>3, <2>1, <2>2, SMTT(20) DEF TypeOK
<1>6. \A q \in Reqs : Untouched(q)'
  BY <1>u, <1>1, <1>2, <1>3, <1>4, <1>5, SMTT(20) DEF Untouched, Frame, Early
<1>7. \A q \in Reqs : Uploading(q)'
  <2>0. Uploading(r)'
    BY <1>4, Zenon DEF Uploading
  <2>1. ASSUME NEW q \in Reqs \ {r}, tmppath[q] # Nil
        PROVE  link'[tmppath[q]] = link[tmppath[q]]
    <3>1. tmppath[q] \in Tmps /\ link[tmppath[q]] = q
      BY <1>0, <1>l, <2>1, Sorts, Zenon DEF Uploading
    <3>. QED
      BY <1>1, <1>2, <1>5, <3>1, ZenonT(30)
  <2>2. ASSUME NEW q \in Reqs \ {r} PROVE Uploading(q)'
    <3>1. /\ pc'[q] = pc[q] /\ tmppath'[q] = tmppath[q] /\ ino'[q] = ino[q]
          /\ foff'[q] = foff[q] /\ Uploading(q)
      BY <1>l, <1>4, Zenon DEF Frame
    <3>2. data' = data /\ (q \in applied' => q \in applied)
      BY <1>3, Zenon
    <3>. QED
      BY <2>1, <3>1, <3>2, ZenonT(20) DEF Uploading
  <2>. QED
    BY <2>0, <2>2, Zenon
<1>8. \A q \in Reqs : Consistent(q)'
  <2>1. Consistent(r)'
    BY <1>1, <1>3, <1>4, Zenon DEF Consistent, Early, Ok
  <2>. QED
    BY <1>c, <1>3, <1>4, <2>1, OthersConsistent, Zenon
<1>9. Published'
  BY <1>p, <1>1, <1>2, <1>3, <1>5, Zenon DEF Published, Owner
<1>10. Leftovers'
  BY <1>p, <1>o, <1>1, <1>2, <1>3, <1>4, <1>5 DEF Published, Leftovers, Frame
<1>. QED
  BY <1>t, <1>6, <1>7, <1>8, <1>9, <1>10, Zenon DEF StoreInv

-----------------------------------------------------------------------------
(* The other steps, and the theorems                                       *)

\* file_close_null, whether or not the file can be removed.
LEMMA CloseInv ==
    ASSUME StoreInv, NEW r \in Reqs, Close(r) \/ CloseFails(r)
    PROVE  StoreInv'
<1>0. TypeOK
  BY DEF StoreInv
<1>u. \A q \in Reqs : Untouched(q)
  BY DEF StoreInv
<1>l. \A q \in Reqs : Uploading(q)
  BY DEF StoreInv
<1>c. \A q \in Reqs : Consistent(q)
  BY DEF StoreInv
<1>p. Published
  BY DEF StoreInv
<1>o. Leftovers
  BY Zenon DEF StoreInv
<1> DEFINE t == tmppath[r]
<1>1. /\ pc[r] = "close" /\ pc' = [pc EXCEPT ![r] = "reply"]
      /\ ino' = [ino EXCEPT ![r] = Nil] /\ tmppath' = [tmppath EXCEPT ![r] = Nil]
      /\ UNCHANGED <<data, name, proc, foff, reply, code, applied>>
  BY Zenon DEF Close, CloseFails, fsVars, tryVars
<1>2. /\ Paths \subseteq Names /\ Tmps \subseteq Names /\ r # Nil /\ Nil \notin Tmps
      /\ t \in Tmps \cup {Nil} /\ Paths \cap Tmps = {} /\ Nil \notin Names
      /\ t # Nil => link[t] = r
      /\ Request[r].method \in {"PUT", "RANGE"}
  BY <1>0, <1>1, <1>l, <1>c, Sorts, StoreAssumption, Zenon DEF Uploading, Consistent
<1>3. /\ Frame(r) /\ pc'[r] = "reply" /\ tmppath'[r] = Nil /\ ino'[r] = Nil
      /\ reply'[r] = reply[r] /\ code'[r] = code[r]
  BY <1>0, <1>1, Typed, FileTyped, Zenon DEF Frame
<1>4. /\ \/ t = Nil /\ link' = link /\ faults' = faults
         \/ t # Nil /\ link' = [link EXCEPT ![t] = Nil] /\ faults' = faults
         \/ /\ t # Nil /\ link' = link /\ faults' = faults + 1 /\ faults < MaxFaults
            /\ kept' = kept \cup {r}
      /\ kept' = kept \/ kept' = kept \cup {r}
  BY Zenon DEF Close, CloseFails, Unlink, Fault, fsVars
<1>5. /\ \A n \in Names \ {t} : link'[n] = link[n]
      /\ t # Nil => link'[t] = Nil \/ (link'[t] = r /\ r \in kept')
      /\ kept \subseteq kept'
  BY <1>0, <1>2, <1>4, FileTyped, Typed
<1>t. TypeOK'
  <2>1. link' \in [Names -> Inodes \cup {Nil}]
    BY <1>0, <1>2, <1>4, FileTyped, Zenon
  <2>2. ino' \in [Reqs -> Inodes \cup {Nil}] /\ tmppath' \in [Reqs -> Tmps \cup {Nil}]
    BY <1>0, <1>1, FileTyped, Zenon
  <2>3. pc' \in [Reqs -> PCs] /\ faults' \in 0 .. MaxFaults
    BY <1>0, <1>1, <1>4, Typed DEF PCs
  <2>. QED
    BY <1>0, <1>1, <2>1, <2>2, <2>3, Zenon DEF TypeOK
<1>6. \A q \in Reqs : Untouched(q)'
  <2>. SUFFICES ASSUME NEW q \in Reqs, pc'[q] \in Early
                PROVE  Untouched(q)'
    BY Zenon DEF Untouched
  <2>1. q # r /\ pc[q] \in Early
    BY <1>3, Zenon DEF Frame, Early
  <2>2. \A n \in Names : link'[n] # q
    BY <1>0, <1>2, <1>5, <1>u, <2>1, Sorts DEF Untouched
  <2>3. \A x \in Reqs : ino'[x] # q
    BY <1>0, <1>3, <1>u, <2>1, Sorts DEF Untouched, Frame
  <2>. QED
    BY <1>1, <1>3, <1>u, <2>1, <2>2, <2>3, ZenonT(30) DEF Untouched, Frame
<1>7. \A q \in Reqs : Uploading(q)'
  <2>. SUFFICES ASSUME NEW q \in Reqs \ {r}, tmppath[q] # Nil
                PROVE  link'[tmppath[q]] = link[tmppath[q]]
    BY <1>l, <1>1, <1>3 DEF Uploading, Frame
  <2>1. tmppath[q] \in Tmps /\ link[tmppath[q]] = q
    BY <1>0, <1>l, Sorts, Zenon DEF Uploading
  <2>. QED
    BY <1>2, <1>5, <2>1, Zenon
<1>8. \A q \in Reqs : Consistent(q)'
  <2>1. Consistent(r)'
    BY <1>c, <1>1, <1>2, <1>3, Zenon DEF Consistent, Early
  <2>. QED
    BY <1>c, <1>1, <1>3, <2>1, OthersConsistent, Zenon
<1>9. Published'
  <2>1. \A p \in Paths : link'[p] = link[p]
    BY <1>2, <1>5, Zenon
  <2>2. \A m \in Tmps : link'[m] # Nil => link'[m] = link[m]
    BY <1>2, <1>5, Zenon
  <2>3. \A q \in Reqs : ino'[q] = ino[q] \/ ino'[q] \notin Reqs
    BY <1>0, <1>3, Sorts, Zenon DEF Frame
  <2>. QED
    BY <1>p, <1>1, <2>1, <2>2, <2>3 DEF Published, Owner
<1>10. Leftovers'
  <2>. SUFFICES ASSUME NEW m \in Tmps, link'[m] # Nil
                PROVE  \/ tmppath'[link'[m]] = m /\ ino'[link'[m]] = link'[m]
                       \/ pc'[link'[m]] = "lost"
                       \/ link'[m] \in kept' /\ pc'[link'[m]] \in {"reply", "done"}
    BY Zenon DEF Leftovers
  <2>1. CASE m = t
    BY <1>2, <1>3, <1>5, <2>1, Zenon
  <2>2. CASE m # t
    <3>1. link'[m] = link[m] /\ link[m] \in Reqs
      BY <1>2, <1>5, <1>p, <2>2, Zenon DEF Published
    <3>2. \/ tmppath[link[m]] = m /\ ino[link[m]] = link[m]
          \/ pc[link[m]] = "lost"
          \/ link[m] \in kept /\ pc[link[m]] \in {"reply", "done"}
      BY <1>o, <1>5, <3>1, Zenon DEF Leftovers
    <3>3. link[m] # r
      BY <1>1, <1>2, <2>2, <3>2, Zenon
    <3>4. /\ tmppath'[link[m]] = tmppath[link[m]] /\ ino'[link[m]] = ino[link[m]]
          /\ pc'[link[m]] = pc[link[m]]
      BY <1>3, <3>1, <3>3, Zenon DEF Frame
    <3>. QED
      BY <1>3, <1>5, <3>1, <3>2, <3>4, Zenon
  <2>. QED
    BY <2>1, <2>2
<1>. QED
  BY <1>t, <1>6, <1>7, <1>8, <1>9, <1>10, Zenon DEF StoreInv

LEMMA GetOpenInv ==
    ASSUME StoreInv, NEW r \in Reqs, NEW p \in Procs, GetOpen(r, p)
    PROVE  StoreInv'
<1>0. TypeOK
  BY DEF StoreInv
<1>u. \A q \in Reqs : Untouched(q)
  BY DEF StoreInv
<1>l. \A q \in Reqs : Uploading(q)
  BY DEF StoreInv
<1>c. \A q \in Reqs : Consistent(q)
  BY DEF StoreInv
<1>p. Published
  BY DEF StoreInv
<1>o. Leftovers
  BY DEF StoreInv
<1>1. /\ pc[r] = "idle" /\ proc' = [proc EXCEPT ![r] = p]
      /\ UNCHANGED <<link, data, name, tmppath, reply, applied, faults, kept>>
      /\ Request[r].method = "GET"
  BY Zenon DEF GetOpen, fsVars
<1>2. CASE link[Path(r)] = Nil
  <2>1. Local(r)
    BY <1>1, <1>2, Zenon DEF GetOpen, Local, fsVars
  <2>2. pc[r] \in Early /\ 404 \in Codes
    BY <1>1 DEF Early, Codes
  <2>. QED
    BY <1>1, <1>2, <2>1, <2>2, Failing, Zenon DEF GetOpen
<1>3. CASE link[Path(r)] # Nil
  <2> DEFINE i == link[Path(r)]
  <2>1. /\ ino' = [ino EXCEPT ![r] = i] /\ foff' = [foff EXCEPT ![r] = Len(data[i])]
        /\ code' = [code EXCEPT ![r] = 200] /\ pc' = [pc EXCEPT ![r] = "send"]
    BY <1>3, Zenon DEF GetOpen
  <2>2. /\ Path(r) \in Paths /\ Path(r) \in Names /\ i \in Inodes /\ Len(data[i]) \in Nat
    <3>1. Path(r) \in Paths /\ Path(r) \in Names
      BY <1>0, Sorts, Zenon
    <3>2. i \in Inodes
      BY <1>0, <1>3, <3>1, FileTyped, Zenon
    <3>3. data[i] \in Seq(Blocks)
      BY <1>0, <3>2, FileTyped, Zenon
    <3>. QED
      BY <3>1, <3>2, <3>3
  <2>. HIDE DEF i
  <2>3. /\ Frame(r) /\ pc'[r] = "send" /\ ino'[r] = i /\ tmppath[r] = Nil
        /\ \A n \in Names : link[n] # r
    BY <1>0, <1>1, <1>u, <2>1, Typed, FileTyped, Zenon DEF Frame, Untouched, Early
  <2>t. TypeOK'
    <3>1. ino' \in [Reqs -> Inodes \cup {Nil}] /\ foff' \in [Reqs -> Nat]
      BY <1>0, <2>1, <2>2, FileTyped, Zenon
    <3>2. pc' \in [Reqs -> PCs] /\ code' \in [Reqs -> Codes]
      BY <1>0, <2>1, Typed, SMTT(20) DEF PCs, Codes, Ok
    <3>3. proc' \in [Reqs -> Procs \cup {Nil}]
      BY <1>0, <1>1, Typed, Zenon
    <3>. QED
      BY <1>0, <1>1, <3>1, <3>2, <3>3, Zenon DEF TypeOK
  <2>4. \A q \in Reqs : Untouched(q)'
    <3>1. \A q \in Reqs : pc[q] \in Early => i # q
      BY <1>u, <2>2, Zenon DEF Untouched, i
    <3>. QED
      BY <1>1, <1>u, <2>3, <3>1 DEF Untouched, Frame, Early
  <2>5. \A q \in Reqs : Uploading(q)'
    BY <1>1, <1>l, <2>3 DEF Uploading, Frame
  <2>6. \A q \in Reqs : Consistent(q)'
    <3>1. Consistent(r)'
      BY <1>1, <2>3, Zenon DEF Consistent, Early
    <3>. QED
      BY <1>1, <1>c, <2>3, <3>1, OthersConsistent, Zenon
  <2>7. Published'
    <3>1. i \in Reqs /\ Whole(i) => i \in applied
      BY <1>3, <1>p, <2>2, Zenon DEF Published, i
    <3>. QED
      BY <1>1, <1>p, <2>3, <3>1, Zenon DEF Published, Owner, Frame
  <2>8. Leftovers'
    <3>1. \A m \in Tmps : link[m] # Nil => link[m] # r /\ link[m] \in Reqs
      BY <1>0, <1>p, <2>3, Sorts, Zenon DEF Published
    <3>. QED
      BY <1>1, <1>o, <2>3, <3>1, Zenon DEF Leftovers, Frame
  <2>. QED
    BY <2>t, <2>4, <2>5, <2>6, <2>7, <2>8, Zenon DEF StoreInv
<1>. QED
  BY <1>2, <1>3, Zenon

LEMMA GetSendInv ==
    ASSUME StoreInv, NEW r \in Reqs, GetSend(r)
    PROVE  StoreInv'
<1>0. TypeOK
  BY DEF StoreInv
<1>u. \A q \in Reqs : Untouched(q)
  BY DEF StoreInv
<1>l. \A q \in Reqs : Uploading(q)
  BY DEF StoreInv
<1>c. \A q \in Reqs : Consistent(q)
  BY DEF StoreInv
<1>p. Published
  BY DEF StoreInv
<1>o. Leftovers
  BY DEF StoreInv
<1>1. /\ pc[r] = "send"
      /\ UNCHANGED <<link, data, proc, name, tmppath, foff, reply, code, applied, faults, kept>>
  BY DEF GetSend, fsVars, tryVars
<1>2. CASE UNCHANGED <<pc, ino>>
  BY <1>1, <1>2, Idle, Zenon
<1>3. CASE ino' = [ino EXCEPT ![r] = Nil] /\ pc' = [pc EXCEPT ![r] = "done"]
  <2>1. Frame(r) /\ pc'[r] = "done" /\ ino'[r] = Nil
    BY <1>0, <1>1, <1>3, Typed, FileTyped, Zenon DEF Frame
  <2>2. Nil \notin Reqs /\ Request[r].method = "GET"
    <3>1. Nil \notin Reqs
      BY StoreAssumption, Zenon DEF Inodes
    <3>. QED
      BY <1>1, <1>c, <3>1, Zenon DEF Consistent
  <2>t. TypeOK'
    <3>1. ino' \in [Reqs -> Inodes \cup {Nil}] /\ pc' \in [Reqs -> PCs]
      BY <1>0, <1>3, Typed, FileTyped, Zenon DEF PCs
    <3>. QED
      BY <1>0, <1>1, <3>1, Zenon DEF TypeOK
  <2>3. \A q \in Reqs : Untouched(q)'
    BY <1>1, <1>u, <2>1, <2>2 DEF Untouched, Frame, Early
  <2>4. \A q \in Reqs : Uploading(q)'
    BY <1>1, <1>l, <2>1, ZenonT(30) DEF Uploading, Frame
  <2>5. \A q \in Reqs : Consistent(q)'
    <3>1. Consistent(r)'
      BY <2>1, Zenon DEF Consistent, Early
    <3>. QED
      BY <1>1, <1>c, <2>1, <3>1, OthersConsistent, Zenon
  <2>6. Published'
    BY <1>1, <1>p, <2>1, <2>2, Zenon DEF Published, Owner, Frame
  <2>7. Leftovers'
    <3>1. \A m \in Tmps : link[m] # Nil => link[m] # r /\ link[m] \in Reqs
      BY <1>p, <2>2, Zenon DEF Published, Whole
    <3>. QED
      BY <1>1, <1>o, <2>1, <3>1, Zenon DEF Leftovers, Frame
  <2>. QED
    BY <2>t, <2>3, <2>4, <2>5, <2>6, <2>7, Zenon DEF StoreInv
<1>. QED
  BY <1>2, <1>3, Zenon DEF GetSend

LEMMA CrashInv ==
    ASSUME StoreInv, NEW p \in Procs, Crash(p)
    PROVE  StoreInv'
<1>0. TypeOK
  BY Zenon DEF StoreInv
<1>u. \A q \in Reqs : Untouched(q)
  BY Zenon DEF StoreInv
<1>l. \A q \in Reqs : Uploading(q)
  BY Zenon DEF StoreInv
<1>c. \A q \in Reqs : Consistent(q)
  BY DEF StoreInv
<1>p. Published
  BY DEF StoreInv
<1>o. Leftovers
  BY Zenon DEF StoreInv
<1> DEFINE lost == {r \in Reqs : proc[r] = p /\ pc[r] # "done"}
<1>1. /\ \A q \in Reqs \ lost : pc'[q] = pc[q] /\ ino'[q] = ino[q] /\ tmppath'[q] = tmppath[q]
      /\ \A q \in lost : pc'[q] = "lost" /\ ino'[q] = Nil /\ tmppath'[q] = Nil
      /\ UNCHANGED <<link, data, proc, name, foff, reply, code, applied, faults, kept>>
  BY Zenon DEF Crash, fsVars, tryVars
<1>2. /\ pc' \in [Reqs -> PCs] /\ ino' \in [Reqs -> Inodes \cup {Nil}]
      /\ tmppath' \in [Reqs -> Tmps \cup {Nil}]
  BY <1>0, Typed, FileTyped, Zenon DEF Crash, PCs
<1>t. TypeOK'
  BY <1>0, <1>1, <1>2, Zenon DEF TypeOK
<1>n. Nil \notin Reqs
  BY StoreAssumption, Zenon DEF Inodes
<1>. HIDE DEF lost
<1>3. ASSUME NEW q \in Reqs PROVE Untouched(q)'
  <2>. SUFFICES ASSUME pc'[q] \in Early PROVE Untouched(q)'
    BY ZenonT(30) DEF Untouched
  <2>1. q \notin lost
    BY <1>1, Zenon DEF Early
  <2>2. /\ data[q] = <<>> /\ foff[q] = 0 /\ ino[q] = Nil /\ tmppath[q] = Nil
        /\ \A n \in Names : link[n] # q
        /\ \A w \in Reqs : ino[w] # q
    BY <1>1, <1>u, <2>1, Zenon DEF Untouched
  <2>3. ino'[q] = Nil /\ tmppath'[q] = Nil
    BY <1>1, <2>1, <2>2, Zenon
  <2>4. \A w \in Reqs : ino'[w] # q
    BY <1>1, <1>n, <2>2, Zenon
  <2>. QED
    BY <1>1, <2>2, <2>3, <2>4, Zenon DEF Untouched
<1>4. ASSUME NEW q \in Reqs PROVE Uploading(q)'
  <2>1. CASE q \in lost
    BY <1>1, <2>1, Zenon DEF Uploading
  <2>2. CASE q \notin lost
    <3>1. /\ pc'[q] = pc[q] /\ ino'[q] = ino[q] /\ tmppath'[q] = tmppath[q]
          /\ UNCHANGED <<link, data, foff, applied>> /\ Uploading(q)
      BY <1>1, <1>l, <2>2, Zenon
    <3>. QED
      BY <3>1, Zenon DEF Uploading
  <2>. QED
    BY <2>1, <2>2, Zenon
<1>5. \A q \in Reqs : Consistent(q)'
  BY <1>1, <1>c, ZenonT(30) DEF Consistent, Early, Owner
<1>6. Published'
  BY <1>1, <1>n, <1>p, Zenon DEF Published, Owner
<1>7. Leftovers'
  <2>1. \A m \in Tmps : link[m] # Nil => link[m] \in Reqs
    BY <1>p DEF Published
  <2>. QED
    BY <1>1, <1>o, <2>1, Zenon DEF Leftovers
<1>. QED
  BY <1>t, <1>3, <1>4, <1>5, <1>6, <1>7, Zenon DEF StoreInv

-----------------------------------------------------------------------------

LEMMA InitInv == Init => StoreInv
<1>. SUFFICES ASSUME Init
              PROVE  StoreInv
  OBVIOUS
<1>1. /\ \A r \in Reqs : Path(r) \in Paths /\ r \notin Paths /\ r # Nil
      /\ Paths \cap Tmps = {}
      /\ \A p \in Paths : Initial[p] # Missing => Initial[p] \in Seq(Blocks)
  BY StoreAssumption, Zenon DEF Path, Inodes
<1>2. TypeOK
  <2>1. link \in [Names -> Inodes \cup {Nil}]
    BY Zenon DEF Init, Inodes
  <2>2. data \in [Inodes -> Seq(Blocks)]
    BY <1>1 DEF Init
  <2>3. name \in [Reqs -> Names]
    BY <1>1, Zenon DEF Init, Names
  <2>4. faults \in 0 .. MaxFaults
    BY StoreAssumption DEF Init
  <2>. QED
    BY <2>1, <2>2, <2>3, <2>4 DEF Init, TypeOK, PCs, Codes
<1>3. /\ \A n \in Names : link[n] \in {n, Nil}
      /\ \A t \in Tmps : link[t] = Nil
      /\ \A n \in Names : link[n] \notin Reqs
      /\ \A r \in Reqs : data[r] = <<>>
  BY <1>1 DEF Init, Names, Inodes
<1>4. \A r \in Reqs : Untouched(r) /\ Uploading(r) /\ Consistent(r)
  BY <1>1, <1>3, Zenon DEF Init, Untouched, Uploading, Consistent, Early
<1>5. Published /\ Leftovers
  <2>1. \A q \in Reqs : ino[q] \notin Reqs
    BY <1>1, Zenon DEF Init
  <2>. QED
    BY <1>3, <2>1, Zenon DEF Published, Leftovers, Owner, Names
<1>. QED
  BY <1>2, <1>4, <1>5, Zenon DEF StoreInv

LEMMA NextInv == StoreInv /\ [Next]_vars => StoreInv'
<1>. SUFFICES ASSUME StoreInv, [Next]_vars
              PROVE  StoreInv'
  OBVIOUS
<1>1. ASSUME NEW r \in Reqs, Put(r)
      PROVE  StoreInv'
  BY <1>1, PutBeginInv, OpenedInv, OpenNoDirInv, OpenExpiredInv, OpenExistsInv, SMTT(20),
     OpenFailsInv, WriteFailsInv, MkdirInv, MkdirFailsInv, MkdirDoneInv, WriteInv,
     ClientGoneInv, Md5MismatchInv, CommitInv, CommitFailsInv, CloseInv DEF Put
<1>2. ASSUME NEW r \in Reqs, Other(r)
      PROVE  StoreInv'
  BY <1>2, DeleteInv, GetOpenInv, DeleteFailsInv, GetFailsInv, GetSendInv DEF Other
<1>3. ASSUME NEW r \in Reqs, Step(r)
      PROVE  StoreInv'
  BY <1>1, <1>2, <1>3, RefuseInv, ReplyInv DEF Step
<1>4. CASE UNCHANGED vars
  <2>1. UNCHANGED <<link, data, pc, proc, name, tmppath, ino, foff, reply, code, applied,
                    faults, kept>>
    BY <1>4 DEF vars, fsVars, tryVars
  <2>. QED
    BY <2>1, Idle, Zenon
<1>. QED
  BY <1>3, <1>4, CrashInv, Zenon DEF Next, Ended

\* The invariant behind the atomicity of uploads holds for any requests,
\* however often they fail or their processes die (set_perms_commit).
THEOREM Invariance == Spec => []StoreInv
BY InitInv, NextInv, PTL DEF Spec

\* No upload, complete or not, leaves a temporary file behind, unless its
\* process died or the file system refused to remove it (file_close_null).
THEOREM NoLeftovers == Spec => []Leftovers
<1>1. StoreInv => Leftovers
  BY DEF StoreInv
<1>. QED
  BY <1>1, Invariance, PTL
=============================================================================
