------------------------ MODULE PutStoreClientProofs ------------------------
(***************************************************************************)
(* What the clients of PutStore can rely on, for any requests, paths and   *)
(* processes, and any number of failures and crashes: PutStore implements  *)
(* AtomicStore, an error has a reason that its client can know of, and a   *)
(* GET is sent one file.                                                   *)
(*                                                                         *)
(* Refinement needs StoreInv only; errors need ErrorInv, reads ReadInv, on *)
(* top of it.  Each of the two has a frame lemma (ErrorFrame, ReadFrame)   *)
(* that says what a step of one request cannot take from the others, and   *)
(* one lemma for each group of actions that use it in the same way.        *)
(***************************************************************************)
EXTENDS PutStoreProofs

-----------------------------------------------------------------------------
(* Steps of AtomicStore, or none                                           *)

LEMMA Silent ==
    ASSUME UNCHANGED <<applied, code>>, \A p \in Paths : link'[p] = link[p],
           \A p \in Paths : link[p] # Nil => data'[link[p]] = data[link[p]]
    PROVE  UNCHANGED Abstract!storeVars
<1>1. Store' = Store
  BY DEF Store
<1>. QED
  BY <1>1, Zenon DEF Abstract!storeVars

LEMMA Answered ==
    ASSUME TypeOK, NEW r \in Reqs, NEW c \in Codes \ {0}, UNCHANGED <<link, data, applied>>,
           code[r] = 0, code' = [code EXCEPT ![r] = c],
           Request[r].method # "GET" => (c \in Ok <=> r \in applied)
    PROVE  Abstract!Next
<1> DEFINE ans == [q \in Reqs |-> Verdict(code[q])]
<1>1. /\ Verdict(c) \in {"ok", "error"} /\ (Verdict(c) = "ok" <=> c \in Ok)
      /\ Verdict(0) = "none"
  BY DEF Verdict, Codes, Ok
<1>2. ans' = [ans EXCEPT ![r] = Verdict(c)] /\ ans[r] = "none"
  BY <1>1, Typed, Zenon
<1>3. Store' = Store
  BY DEF Store
<1>. QED
  BY <1>1, <1>2, <1>3, Zenon DEF Abstract!Next, Abstract!Answer

LEMMA FailRefines ==
    ASSUME StoreInv, NEW r \in Reqs, NEW c \in Codes \ Ok, c # 0, pc[r] \in Early, Fail(r, c),
           UNCHANGED <<link, data, applied>>
    PROVE  Abstract!Next
BY Unanswered, Answered, Zenon DEF Fail

LEMMA DeleteRefines ==
    ASSUME StoreInv, NEW r \in Reqs, NEW p \in Procs, Delete(r, p)
    PROVE  Abstract!Next
<1>a. pc[r] = "idle" /\ data' = data /\ Request[r].method = "DELETE"
  BY DEF Delete
<1>b. pc[r] \in Early
  BY <1>a DEF Early
<1>0. TypeOK
  BY <1>b, Unanswered, Zenon
<1>1. pc[r] \in Early /\ r \notin applied /\ code[r] = 0
  BY <1>b, Unanswered, Zenon
<1>2. CASE link[Path(r)] = Nil
  <2>1. Fail(r, 404) /\ UNCHANGED <<link, data, applied>>
    BY <1>2, Zenon DEF Delete
  <2>2. 404 \in Codes \ Ok /\ 404 # 0
    BY DEF Codes, Ok
  <2>. QED
    BY <1>b, <2>1, <2>2, FailRefines, Zenon
<1>3. CASE link[Path(r)] # Nil
  <2>1. /\ link' = [link EXCEPT ![Path(r)] = Nil]
        /\ applied' = applied \cup {r} /\ code' = code
    BY <1>3, Zenon DEF Delete
  <2>2. Path(r) \in Paths /\ Paths \subseteq Names
    BY <1>0, Sorts, Zenon
  <2>3. link'[Path(r)] = Nil /\ \A q \in Paths \ {Path(r)} : link'[q] = link[q]
    BY <1>0, <2>1, <2>2, FileTyped
  <2>4. Store' = [Store EXCEPT ![Path(r)] = Missing]
    BY <1>a, <2>2, <2>3, Zenon DEF Store
  <2>5. Store[Path(r)] # Missing
    BY <1>0, <1>3, <2>2, FileTyped, StoreAssumption DEF Store
  <2>6. [q \in Reqs |-> Verdict(code[q])][r] = "none"
    BY <1>1, Zenon DEF Verdict
  <2>7. Abstract!Remove(r)
    BY <1>a, <1>1, <2>1, <2>4, <2>5, <2>6, Zenon DEF Abstract!Remove, Abstract!Pending, Path
  <2>. QED
    BY <2>7 DEF Abstract!Next
<1>. QED
  BY <1>2, <1>3, Zenon

LEMMA OpenedRefines ==
    ASSUME StoreInv, NEW r \in Reqs, Opened(r)
    PROVE  Abstract!Next \/ UNCHANGED Abstract!storeVars
<1> DEFINE n == name[r]
<1>0. TypeOK
  BY DEF StoreInv
<1>1. /\ n \in Names /\ IF Whole(r) THEN n \in Tmps ELSE n = Path(r)
      /\ Request[r].method \in {"PUT", "RANGE"}
      /\ data[r] = <<>> /\ r \notin applied /\ code[r] = 0
  BY <1>0, Typed, Zenon DEF StoreInv, Consistent, Untouched, Opened, Early
<1>2. /\ Path(r) \in Paths /\ Paths \cap Tmps = {} /\ Paths \subseteq Names /\ r # Nil
  BY <1>0, Sorts, StoreAssumption, Zenon
<1>3. UNCHANGED <<data, applied, code>>
  BY DEF Opened
<1>4. CASE Whole(r) \/ link[n] # Nil
  <2>1. \A p \in Paths : link'[p] = link[p]
    BY <1>0, <1>1, <1>2, <1>4, FileTyped, Zenon DEF Opened
  <2>. QED
    BY <1>3, <2>1, Silent, Zenon
<1>5. CASE ~Whole(r) /\ link[n] = Nil
  <2>1. Request[r].method = "RANGE" /\ n = Path(r)
    BY <1>1, <1>5, Zenon DEF Whole
  <2>2. link'[Path(r)] = r /\ \A p \in Paths \ {Path(r)} : link'[p] = link[p]
    BY <1>0, <1>2, <1>5, <2>1, FileTyped, Zenon DEF Opened
  <2>3. Store' = [Store EXCEPT ![Path(r)] = <<>>] /\ Store[Path(r)] = Missing
    BY <1>1, <1>2, <1>3, <1>5, <2>1, <2>2, Zenon DEF Store
  <2>4. [q \in Reqs |-> Verdict(code[q])][r] = "none"
    BY <1>1, Zenon DEF Verdict
  <2>5. Abstract!Create(r)
    BY <1>1, <1>3, <2>1, <2>3, <2>4 DEF Abstract!Create, Abstract!Pending, Path
  <2>. QED
    BY <2>5, Zenon DEF Abstract!Next
<1>. QED
  BY <1>4, <1>5

LEMMA WriteRefines ==
    ASSUME StoreInv, NEW r \in Reqs, Write(r)
    PROVE  Abstract!Next \/ UNCHANGED Abstract!storeVars
<1> DEFINE i == ino[r]
           k == foff[r] + 1
<1>0. TypeOK
  BY DEF StoreInv
<1>1. /\ pc[r] = "write" /\ UNCHANGED <<link, applied, code>> /\ foff[r] < Size(r)
      /\ Request[r].method \in {"PUT", "RANGE"} /\ r \notin applied /\ code[r] = 0
  BY ZenonT(30) DEF StoreInv, Consistent, Write
<1>2. i \in Inodes /\ k \in 1 .. Size(r) /\ Path(r) \in Paths
  <2>1. i # Nil
    BY <1>1, Zenon DEF StoreInv, Consistent
  <2>. QED
    BY <1>0, <1>1, <2>1, Sorts
<1>3. \A j \in Inodes \ {i} : data'[j] = data[j]
  BY <1>0, <1>2, FileTyped, Zenon DEF Write
<1>4. \A p \in Paths : link[p] # Nil => link[p] \in Inodes /\ Owner(link[p]) = p
  BY <1>0, FileTyped, Sorts, Zenon DEF StoreInv, Published, Names
<1>5. CASE \A p \in Paths : link[p] # i
  BY <1>1, <1>3, <1>4, <1>5, Silent, Zenon
<1>6. CASE \E p \in Paths : link[p] = i
  <2>1. ~Whole(r)
    <3>1. Published /\ Consistent(r) /\ Uploading(r)
      BY Zenon DEF StoreInv
    <3>. QED
      BY <1>1, <1>6, <3>1 DEF Published, Consistent, Uploading
  <2>2. Owner(i) = Path(r) /\ i # Nil
    BY <1>1, <2>1, Zenon DEF StoreInv, Consistent
  <2>3. link[Path(r)] = i /\ \A p \in Paths \ {Path(r)} : link[p] # i
    BY <1>4, <1>6, <2>2, Zenon
  <2>4. data'[i] = Abstract!Overlay(data[i], Request[r].beg + k, <<r, k>>)
    BY <1>0, <1>2, <2>1, FileTyped DEF Write
  <2>5. Store' = [Store EXCEPT ![Path(r)] =
                     Abstract!Overlay(Store[Path(r)], Request[r].beg + k, <<r, k>>)]
    <3>1. Store[Path(r)] = data[i]
      BY <1>2, <2>2, <2>3, Zenon DEF Store
    <3>2. \A p \in Paths : Store'[p] =
             IF p = Path(r) THEN Abstract!Overlay(data[i], Request[r].beg + k, <<r, k>>)
                            ELSE Store[p]
      <4>. HIDE DEF k
      <4>. QED
        BY <1>1, <1>2, <1>3, <1>4, <2>2, <2>3, <2>4, Zenon DEF Store
    <3>. HIDE DEF k, i
    <3>. QED
      BY <1>2, <3>1, <3>2, Zenon DEF Store
  <2>6. Store[Path(r)] # Missing
    BY <1>0, <1>2, <2>2, <2>3, FileTyped, StoreAssumption DEF Store
  <2>7. [q \in Reqs |-> Verdict(code[q])][r] = "none" /\ Request[r].method = "RANGE"
    BY <1>1, <2>1, Zenon DEF Verdict, Whole
  <2>8. Abstract!Patch(r, k)
    <3>. HIDE DEF k
    <3>. QED
      BY <1>1, <2>5, <2>6, <2>7 DEF Abstract!Patch, Abstract!Pending, Path
  <2>. QED
    BY <1>2, <2>8, Zenon DEF Abstract!Next, Size
<1>. QED
  BY <1>5, <1>6, Zenon

\* The file of an upload that has got all of its body.
LEMMA WholeBody ==
    ASSUME StoreInv, NEW r \in Reqs, tmppath[r] # Nil, foff[r] = Size(r)
    PROVE  data[r] = Abstract!Body(r)
<1>1. Len(data[r]) = foff[r] /\ \A k \in 1 .. foff[r] : data[r][k] = <<r, k>>
  BY Zenon DEF StoreInv, Uploading
<1>2. data[r] \in Seq(Blocks)
  BY FileTyped, Zenon DEF StoreInv, Inodes
<1>3. data[r] = [k \in 1 .. Len(data[r]) |-> data[r][k]]
  BY <1>2
<1>. QED
  BY <1>1, <1>3, Zenon DEF Abstract!Body, Size

LEMMA CommitRefines ==
    ASSUME StoreInv, NEW r \in Reqs, Commit(r)
    PROVE  Abstract!Next
<1> DEFINE t == tmppath[r]
<1>0. TypeOK
  BY DEF StoreInv
<1>1. /\ pc[r] = "write" /\ foff[r] = Size(r) /\ r \notin applied /\ code[r] = 0
      /\ UNCHANGED <<data, code>> /\ (Whole(r) <=> t # Nil)
      /\ Request[r].method \in {"PUT", "RANGE"}
  BY ZenonT(30) DEF StoreInv, Consistent, Commit, BodyEnded
<1>2. [q \in Reqs |-> Verdict(code[q])][r] = "none"
  BY <1>1 DEF Verdict
<1>3. CASE t = Nil
  <2>1. link' = link /\ applied' = applied \cup {r} /\ Request[r].method = "RANGE"
    BY <1>1, <1>3, Zenon DEF Commit, Whole
  <2>2. Store' = Store
    BY <1>1, <2>1, Zenon DEF Store
  <2>3. Abstract!Patched(r)
    BY <1>1, <1>2, <2>1, <2>2, Zenon DEF Abstract!Patched, Abstract!Pending
  <2>. QED
    BY <2>3, Zenon DEF Abstract!Next
<1>4. CASE t # Nil
  <2>1. link[t] = r
    BY <1>4, Zenon DEF StoreInv, Uploading
  <2>2. /\ Path(r) \in Paths /\ Paths \cap Tmps = {} /\ Paths \subseteq Names /\ r # Nil
        /\ t \in Tmps /\ Tmps \subseteq Names
    BY <1>0, <1>4, Sorts, StoreAssumption, Zenon
  <2>3. link' = [link EXCEPT ![Path(r)] = r, ![t] = Nil] /\ applied' = applied \cup {r}
    BY <1>4, <2>1, <2>2, Zenon DEF Commit, Rename
  <2>4. link'[Path(r)] = r /\ \A p \in Paths \ {Path(r)} : link'[p] = link[p]
    BY <1>0, <2>2, <2>3, FileTyped
  <2>5. data[r] = Abstract!Body(r)
    BY <1>1, <1>4, WholeBody, Zenon
  <2>6. Store' = [Store EXCEPT ![Path(r)] = Abstract!Body(r)]
    BY <1>1, <2>2, <2>4, <2>5, Zenon DEF Store
  <2>7. Abstract!Replace(r)
    BY <1>1, <1>2, <1>4, <2>3, <2>6, Zenon DEF Abstract!Replace, Abstract!Pending, Path, Whole
  <2>. QED
    BY <2>7, Zenon DEF Abstract!Next
<1>. QED
  BY <1>3, <1>4, Zenon

LEMMA CloseRefines ==
    ASSUME StoreInv, NEW r \in Reqs, Close(r) \/ CloseFails(r)
    PROVE  UNCHANGED Abstract!storeVars
<1>0. TypeOK
  BY DEF StoreInv
<1>1. UNCHANGED <<data, applied, code>> /\ (link' = Unlink(r) \/ link' = link)
  BY Zenon DEF Close, CloseFails, fsVars
<1>2. Paths \cap Tmps = {} /\ Paths \subseteq Names /\ tmppath[r] \in Tmps \cup {Nil}
  BY <1>0, Sorts, StoreAssumption, Zenon
<1>3. \A p \in Paths : link'[p] = link[p]
  BY <1>0, <1>1, <1>2, FileTyped, Zenon DEF Unlink
<1>. QED
  BY <1>1, <1>3, Silent, Zenon

LEMMA GetOpenRefines ==
    ASSUME StoreInv, NEW r \in Reqs, NEW p \in Procs, GetOpen(r, p)
    PROVE  Abstract!Next
<1>1. /\ TypeOK /\ pc[r] \in Early /\ code[r] = 0 /\ UNCHANGED <<link, data, applied>>
      /\ Request[r].method = "GET"
  BY Zenon DEF StoreInv, Consistent, GetOpen, Early, fsVars
<1>2. CASE Fail(r, 404)
  <2>1. 404 \in Codes \ Ok
    BY DEF Codes, Ok
  <2>. QED
    BY <1>1, <1>2, <2>1, FailRefines
<1>3. CASE code' = [code EXCEPT ![r] = 200]
  <2>1. 200 \in Codes \ {0}
    BY DEF Codes, Ok
  <2>. QED
    BY <1>1, <1>3, <2>1, Answered, Zenon
<1>. QED
  BY <1>2, <1>3, Zenon DEF GetOpen

LEMMA ReplyRefines ==
    ASSUME StoreInv, NEW r \in Reqs, Reply(r)
    PROVE  Abstract!Next \/ UNCHANGED Abstract!storeVars
<1>1. /\ TypeOK /\ UNCHANGED <<link, data, applied>>
      /\ code' = [code EXCEPT ![r] = reply[r]] /\ reply[r] \in Codes
      /\ IF code[r] = 0 THEN reply[r] \in Ok <=> r \in applied ELSE code[r] = reply[r]
  BY Typed, Zenon DEF StoreInv, Consistent, Reply, fsVars
<1>2. CASE reply[r] = code[r]
  <2>1. code' = code
    BY <1>1, <1>2, Typed
  <2>. QED
    BY <1>1, <2>1, Silent, Zenon
<1>3. CASE reply[r] # code[r]
  BY <1>1, <1>3, Answered, Zenon
<1>. QED
  BY <1>2, <1>3

LEMMA PutRefines ==
    ASSUME StoreInv, NEW r \in Reqs, Put(r)
    PROVE  Abstract!Next \/ UNCHANGED Abstract!storeVars
<1>0. TypeOK
  BY DEF StoreInv
<1> DEFINE Same == UNCHANGED <<link, data, applied, code>>
           Failed == \E c \in Codes \ (Ok \cup {0}) :
                        /\ pc[r] \in Early \/ pc[r] = "write"
                        /\ code' = [code EXCEPT ![r] = c]
                        /\ UNCHANGED <<link, data, applied>>
<1>1. CASE Same
  BY <1>1, Silent, Zenon
<1>2. CASE Failed
  <2>1. PICK c \in Codes \ (Ok \cup {0}) :
                        /\ pc[r] \in Early \/ pc[r] = "write"
                        /\ code' = [code EXCEPT ![r] = c]
                        /\ UNCHANGED <<link, data, applied>>
    BY <1>2, Zenon
  <2>2. code[r] = 0 /\ r \notin applied
    BY <2>1, Zenon DEF StoreInv, Consistent
  <2>. QED
    BY <1>0, <2>1, <2>2, Answered, Zenon
<1>3. ASSUME NEW q \in Procs, NEW n, PutBegin(r, q, n)
      PROVE  Same
  BY <1>3, Zenon DEF PutBegin, fsVars
<1>4. \/ OpenExpired(r) \/ MkdirDone(r) \/ ClientGone(r)
      \/ Md5Mismatch(r) \/ CommitFails(r)
      => Same
  BY Zenon DEF OpenExpired, MkdirDone, ClientGone, Md5Mismatch, CommitFails, fsVars
<1>c. {400, 403, 404, 500, 507} \subseteq Codes \ (Ok \cup {0})
  BY DEF Codes, Ok
<1>5. OpenNoDir(r) \/ Mkdir(r) \/ MkdirFails(r) => Same \/ Failed
  BY <1>c DEF OpenNoDir, Mkdir, MkdirFails, Fail, fsVars, Early
<1>6. ASSUME NEW n, OpenExists(r, n)
      PROVE  Same \/ Failed
  BY <1>6, <1>c DEF OpenExists, Fail, fsVars, Early
<1>7. ASSUME NEW c \in {400, 403, 500, 507}, OpenFails(r, c) \/ WriteFails(r, c)
      PROVE  Failed
  BY <1>7, <1>c DEF OpenFails, WriteFails, Fail, fsVars, Early
<1>. HIDE DEF Same, Failed
<1>. QED
  BY <1>1, <1>2, <1>3, <1>4, <1>5, <1>6, <1>7, OpenedRefines, WriteRefines, CommitRefines,
     CloseRefines DEF Put

LEMMA InitRefines == Init => Abstract!Init
<1>. SUFFICES ASSUME Init
              PROVE  Abstract!Init
  OBVIOUS
<1>1. \A p \in Paths : Store[p] = Initial[p]
  BY StoreAssumption, Zenon DEF Init, Store, Names, Inodes
<1>2. Store = Initial
  BY <1>1, StoreAssumption, Zenon DEF Store
<1>3. [r \in Reqs |-> Verdict(code[r])] = [r \in Reqs |-> "none"]
  BY Zenon DEF Init, Verdict
<1>. QED
  BY <1>2, <1>3, Zenon DEF Init, Abstract!Init

LEMMA NextRefines == StoreInv /\ [Next]_vars => [Abstract!Next]_(Abstract!storeVars)
<1>. SUFFICES ASSUME StoreInv, [Next]_vars
              PROVE  Abstract!Next \/ UNCHANGED Abstract!storeVars
  OBVIOUS
<1>1. CASE UNCHANGED <<link, data, applied, code>>
  BY <1>1, Silent, Zenon
<1>2. ASSUME NEW r \in Reqs, Other(r)
      PROVE  Abstract!Next \/ UNCHANGED Abstract!storeVars
  <2>1. ASSUME NEW q \in Procs, NEW c \in {403, 500}, DeleteFails(r, q, c) \/ GetFails(r, q, c)
        PROVE  Abstract!Next
    <3>1. /\ c \in Codes \ Ok /\ c # 0 /\ pc[r] \in Early /\ Fail(r, c)
          /\ UNCHANGED <<link, data, applied>>
      BY <2>1 DEF DeleteFails, GetFails, Codes, Ok, Early, fsVars
    <3>. QED
      BY <3>1, FailRefines, Zenon
  <2>2. GetSend(r) => UNCHANGED <<link, data, applied, code>>
    BY Zenon DEF GetSend, fsVars
  <2>. QED
    BY <1>1, <1>2, <2>1, <2>2, DeleteRefines, GetOpenRefines DEF Other
<1>3. ASSUME NEW r \in Reqs, NEW q \in Procs, NEW c \in {400, 403, 405}, Refuse(r, q, c)
      PROVE  Abstract!Next
  <2>1. /\ c \in Codes \ Ok /\ c # 0 /\ pc[r] \in Early /\ Fail(r, c)
        /\ UNCHANGED <<link, data, applied>>
    BY <1>3 DEF Refuse, Codes, Ok, Early, fsVars
  <2>. QED
    BY <2>1, FailRefines, Zenon
<1>4. ASSUME NEW r \in Reqs, Step(r)
      PROVE  Abstract!Next \/ UNCHANGED Abstract!storeVars
  BY <1>2, <1>3, <1>4, PutRefines, ReplyRefines DEF Step
<1>5. ASSUME NEW q \in Procs, Crash(q)
      PROVE  UNCHANGED <<link, data, applied, code>>
  BY <1>5, Zenon DEF Crash, fsVars
<1>6. UNCHANGED vars => UNCHANGED <<link, data, applied, code>>
  BY Zenon DEF vars, fsVars
<1>. QED
  BY <1>1, <1>4, <1>5, <1>6, Zenon DEF Next, Ended

\* The file system behaves as AtomicStore says, whatever the requests, the
\* paths and the processes are: a PUT shows all of its body at its path in
\* one step or never does (mog_http_put to set_perms_commit).
THEOREM Refinement == Spec => Implements
BY Invariance, InitRefines, NextRefines, PTL DEF Spec, Implements, Abstract!Spec

-----------------------------------------------------------------------------
(* Errors                                                                  *)

\* What a step of r leaves alone.
ErrorLocal(r) ==
    /\ dirs \subseteq dirs' /\ (faults' = 0 => faults = 0)
    /\ dir' \in [Reqs -> Nat] /\ second' \in [Reqs -> BOOLEAN]
    /\ \A q \in Reqs \ {r} :
           /\ pc'[q] = pc[q] /\ dir'[q] = dir[q] /\ second'[q] = second[q]
           /\ reply'[q] = reply[q] /\ code'[q] = code[q] /\ foff'[q] = foff[q]

LEMMA ErrorFrame ==
    ASSUME ErrorInv, NEW r \in Reqs, ErrorLocal(r),
           Passed(r)', JustReply(r)', JustError(r)'
    PROVE  ErrorInv'
<1>1. ASSUME NEW q \in Reqs, NEW n, Made(q, n) PROVE Made(q, n)'
  BY <1>1, Zenon DEF Made, ErrorLocal
<1>2. ASSUME NEW q \in Reqs \ {r} PROVE Passed(q)' /\ JustReply(q)' /\ JustError(q)'
  <2>1. Passed(q)'
    BY <1>1, ZenonT(40) DEF ErrorInv, Passed, Made, ErrorLocal
  <2>2. JustReply(q) /\ JustError(q)
    BY Zenon DEF ErrorInv, OnlyJustErrors
  <2>3. JustReply(q)'
    BY <2>2 DEF JustReply, ErrorLocal
  <2>4. JustError(q)'
    BY <2>2 DEF JustError, ErrorLocal
  <2>. QED
    BY <2>1, <2>3, <2>4, Zenon
<1>. QED
  BY <1>2, Zenon DEF ErrorInv, OnlyJustErrors, ErrorLocal

\* A step after which r has no error of its own.
LEMMA ErrorCalm ==
    ASSUME ErrorInv, NEW r \in Reqs, ErrorLocal(r), pc'[r] \notin {"mkdir", "reopen"},
           \/ code'[r] = 0
           \/ Request[r].method \notin {"PUT", "RANGE"}
           \/ code'[r] = code[r] /\ second'[r] = second[r] /\ foff'[r] = foff[r],
           reply'[r] \in Ok \cup {0} \/ reply'[r] = reply[r]
    PROVE  ErrorInv'
<1>1. Passed(r)'
  BY Zenon DEF Passed
<1>2. JustReply(r) /\ JustError(r)
  BY Zenon DEF ErrorInv, OnlyJustErrors
<1>3. JustReply(r)'
  BY <1>2 DEF JustReply, ErrorLocal
<1>4. JustError(r)'
  BY <1>2 DEF JustError, ErrorLocal
<1>. QED
  BY <1>1, <1>3, <1>4, ErrorFrame, Zenon

\* After a call that has failed, all errors are just.
LEMMA ErrorFault ==
    ASSUME StoreInv, ErrorInv, Fault, UNCHANGED <<dirs, dir, second>>,
           \A q \in Reqs : pc'[q] \in {"mkdir", "reopen"} => pc'[q] = pc[q]
    PROVE  ErrorInv'
<1>1. faults' # 0
  BY Typed DEF StoreInv, Fault
<1>2. \A q \in Reqs : JustReply(q)' /\ JustError(q)'
  BY <1>1, Zenon DEF JustReply, JustError
<1>3. \A q \in Reqs : Passed(q)'
  BY Zenon DEF ErrorInv, Passed, Made
<1>. QED
  BY <1>2, <1>3, Zenon DEF ErrorInv, OnlyJustErrors

LEMMA ErrorTyped ==
    ASSUME StoreInv, ErrorInv, NEW r \in Reqs
    PROVE  /\ pc \in [Reqs -> PCs] /\ code \in [Reqs -> Codes] /\ reply \in [Reqs -> Codes]
           /\ foff \in [Reqs -> Nat] /\ dir \in [Reqs -> Nat]
           /\ second \in [Reqs -> BOOLEAN]
           /\ pc[r] \in Early \cup {"write"} => code[r] = 0 /\ reply[r] = 0
           /\ pc[r] \in Early => foff[r] = 0
BY Zenon DEF StoreInv, TypeOK, ErrorInv, Consistent, Untouched

\* Steps of a PUT that lead to no error.
LEMMA PutErrors ==
    ASSUME StoreInv, ErrorInv, NEW r \in Reqs,
           \/ \E q, n : PutBegin(r, q, n)
           \/ Opened(r) \/ Write(r) \/ ClientGone(r) \/ Commit(r) \/ Close(r)
    PROVE  ErrorInv'
<1>1. CASE \E q, n : PutBegin(r, q, n)
  <2>1. ErrorLocal(r) /\ pc'[r] = "open" /\ code'[r] = code[r] /\ reply'[r] = reply[r]
    BY <1>1, ErrorTyped, Zenon DEF PutBegin, ErrorLocal, fsVars
  <2>2. code[r] = 0
    BY <1>1, ErrorTyped, Zenon DEF PutBegin, Early
  <2>. QED
    BY <2>1, <2>2, ErrorCalm
<1>2. CASE Opened(r)
  <2>1. ErrorLocal(r) /\ pc'[r] = "write" /\ code'[r] = code[r] /\ reply'[r] = reply[r]
    BY <1>2, ErrorTyped, Zenon DEF Opened, ErrorLocal
  <2>2. code[r] = 0
    BY <1>2, ErrorTyped, Zenon DEF Opened, Early
  <2>. QED
    BY <2>1, <2>2, ErrorCalm
<1>3. CASE Write(r)
  <2>1. ErrorLocal(r) /\ pc'[r] = "write" /\ code'[r] = code[r] /\ reply'[r] = reply[r]
    BY <1>3, ErrorTyped, Zenon DEF Write, ErrorLocal, tryVars
  <2>2. code[r] = 0
    BY <1>3, ErrorTyped, Zenon DEF Write, Early
  <2>. QED
    BY <2>1, <2>2, ErrorCalm
<1>4. CASE ClientGone(r)
  <2>1. ErrorLocal(r) /\ pc'[r] = "close" /\ code'[r] = code[r] /\ reply'[r] = reply[r]
    BY <1>4, ErrorTyped, Zenon DEF ClientGone, ErrorLocal, tryVars, fsVars
  <2>2. code[r] = 0
    BY <1>4, ErrorTyped, Zenon DEF ClientGone, Early
  <2>. QED
    BY <2>1, <2>2, ErrorCalm
<1>5. CASE Commit(r)
  <2>1. tmppath[r] # Nil => link[tmppath[r]] # Nil
    <3>1. tmppath[r] # Nil => link[tmppath[r]] = r
      BY Zenon DEF StoreInv, Uploading
    <3>2. r # Nil
      BY StoreAssumption, Zenon DEF Inodes
    <3>. QED
      BY <3>1, <3>2, Zenon
  <2>2. reply' = [reply EXCEPT ![r] = 201] /\ pc' = [pc EXCEPT ![r] = "close"]
    BY <1>5, <2>1, Zenon DEF Commit, CloseThen
  <2>3. UNCHANGED <<dirs, dir, second, foff, code, faults>>
    BY <1>5, Zenon DEF Commit, tryVars
  <2>4. ErrorLocal(r) /\ pc'[r] = "close" /\ code'[r] = code[r] /\ reply'[r] = 201
    BY <2>2, <2>3, ErrorTyped, Zenon DEF ErrorLocal
  <2>5. code[r] = 0
    BY <1>5, ErrorTyped, Zenon DEF Commit, BodyEnded
  <2>. QED
    BY <2>4, <2>5, ErrorCalm DEF Ok
<1>6. CASE Close(r)
  <2>1. /\ ErrorLocal(r) /\ pc'[r] = "reply" /\ code'[r] = code[r] /\ reply'[r] = reply[r]
        /\ second'[r] = second[r] /\ foff'[r] = foff[r]
    BY <1>6, ErrorTyped, Zenon DEF Close, ErrorLocal, tryVars
  <2>. QED
    BY <2>1, ErrorCalm
<1>. QED
  BY <1>1, <1>2, <1>3, <1>4, <1>5, <1>6, Zenon

\* Steps of the other requests, and the last step of a PUT.
LEMMA OtherErrors ==
    ASSUME StoreInv, ErrorInv, NEW r \in Reqs,
           \/ \E q : Delete(r, q) \/ GetOpen(r, q)
           \/ \E q, c : Refuse(r, q, c)
           \/ GetSend(r) \/ Reply(r) \/ Md5Mismatch(r)
    PROVE  ErrorInv'
<1>1. CASE \E q : Delete(r, q)
  <2>1. ErrorLocal(r) /\ pc'[r] \in {"reply", "done"} /\ Request[r].method = "DELETE"
    BY <1>1, ErrorTyped DEF Delete, Fail, ErrorLocal
  <2>2. reply'[r] = 204 \/ reply'[r] = reply[r]
    BY <1>1, ErrorTyped DEF Delete
  <2>. QED
    BY <2>1, <2>2, ErrorCalm, Zenon DEF Ok
<1>2. CASE \E q : GetOpen(r, q)
  <2>1. ErrorLocal(r) /\ pc'[r] \in {"send", "done"} /\ Request[r].method = "GET"
    BY <1>2, ErrorTyped DEF GetOpen, Fail, ErrorLocal, fsVars
  <2>2. reply'[r] = reply[r]
    BY <1>2, Zenon DEF GetOpen
  <2>. QED
    BY <2>1, <2>2, ErrorCalm, Zenon
<1>3. CASE GetSend(r)
  <2>1. ErrorLocal(r) /\ pc'[r] \in {"send", "done"} /\ Request[r].method = "GET"
    BY <1>3, ErrorTyped, Zenon DEF GetSend, ErrorLocal, tryVars, fsVars, StoreInv, Consistent
  <2>2. reply'[r] = reply[r]
    BY <1>3, Zenon DEF GetSend
  <2>. QED
    BY <2>1, <2>2, ErrorCalm
<1>4. CASE \E q, c : Refuse(r, q, c)
  <2>1. PICK q, c : Refuse(r, q, c)
    BY <1>4, Zenon
  <2>2. ErrorLocal(r) /\ pc'[r] = "done" /\ code'[r] = c /\ reply'[r] = reply[r]
    <3>1. c \in Codes
      BY <2>1, SMT DEF Refuse, Codes
    <3>. QED
      BY <2>1, <3>1, ErrorTyped DEF Refuse, Fail, ErrorLocal, fsVars
  <2>3. ~Request[r].allowed \/ (c = 400 /\ ~LengthsOk(r))
    BY <2>1, Zenon DEF Refuse
  <2>4. JustError(r)'
    BY <2>2, <2>3, Zenon DEF JustError
  <2>5. JustReply(r)'
    <3>1. JustReply(r)
      BY Zenon DEF ErrorInv
    <3>. QED
      BY <2>2, <3>1, Zenon DEF JustReply, ErrorLocal
  <2>6. Passed(r)'
    BY <2>2, Zenon DEF Passed
  <2>. QED
    BY <2>2, <2>4, <2>5, <2>6, ErrorFrame, Zenon
<1>5. CASE Md5Mismatch(r)
  <2>1. /\ ErrorLocal(r) /\ pc'[r] = "close" /\ code'[r] = code[r] /\ reply'[r] = 400
        /\ foff'[r] = foff[r] /\ second'[r] = second[r] /\ ~Request[r].md5
    <3>1. 400 \in Codes
      BY SMT DEF Codes
    <3>. QED
      BY <1>5, <3>1, ErrorTyped DEF Md5Mismatch, CloseThen, ErrorLocal, tryVars, fsVars
  <2>2. Passed(r)' /\ JustReply(r)'
    BY <2>1, Zenon DEF Passed, JustReply
  <2>3. code[r] = 0
    BY <1>5, ErrorTyped, Zenon DEF Md5Mismatch, BodyEnded
  <2>4. JustError(r)'
    BY <2>1, <2>3, Zenon DEF JustError
  <2>. QED
    BY <2>1, <2>2, <2>4, ErrorFrame, Zenon
<1>6. CASE Reply(r)
  <2>1. ErrorLocal(r) /\ pc'[r] = "done" /\ code'[r] = reply[r] /\ reply'[r] = reply[r]
    BY <1>6, ErrorTyped, Zenon DEF Reply, ErrorLocal, tryVars, fsVars
  <2>2. JustReply(r)
    BY Zenon DEF ErrorInv
  <2>3. Passed(r)' /\ JustReply(r)' /\ JustError(r)'
    <3>1. Passed(r)'
      BY <2>1, Zenon DEF Passed
    <3>2. JustReply(r)'
      BY <2>1, <2>2, Zenon DEF JustReply, ErrorLocal
    <3>3. JustError(r)'
      BY <2>1, <2>2, Zenon DEF JustReply, JustError, ErrorLocal
    <3>. QED
      BY <3>1, <3>2, <3>3, Zenon
  <2>. QED
    BY <2>1, <2>3, ErrorFrame, Zenon
<1>. QED
  BY <1>1, <1>2, <1>3, <1>4, <1>5, <1>6, Zenon

\* Calls that fail.
LEMMA FaultErrors ==
    ASSUME StoreInv, ErrorInv, NEW r \in Reqs,
           \/ OpenExpired(r) \/ MkdirFails(r) \/ CommitFails(r) \/ CloseFails(r)
           \/ \E c : OpenFails(r, c) \/ WriteFails(r, c)
           \/ \E q, c : DeleteFails(r, q, c) \/ GetFails(r, q, c)
    PROVE  ErrorInv'
<1>1. Fault /\ UNCHANGED <<dirs, dir, second>>
  BY Zenon DEF OpenExpired, MkdirFails, CommitFails, CloseFails, OpenFails, WriteFails,
               DeleteFails, GetFails, fsVars, tryVars
<1>2. \E p \in {"open", "done", "close", "reply"} : pc' = [pc EXCEPT ![r] = p]
  BY ZenonT(40) DEF OpenExpired, MkdirFails, CommitFails, CloseFails, OpenFails, WriteFails,
               DeleteFails, GetFails, Fail, CloseThen
<1>3. ASSUME NEW q \in Reqs, pc'[q] \in {"mkdir", "reopen"} PROVE pc'[q] = pc[q]
  BY <1>2, <1>3, ErrorTyped
<1>. QED
  BY <1>1, <1>3, ErrorFault, Zenon

\* The other name is taken, too.
LEMMA ExistsErrors ==
    ASSUME StoreInv, ErrorInv, NEW r \in Reqs, NEW n, OpenExists(r, n)
    PROVE  ErrorInv'
<1>1. Whole(r) /\ pc[r] \in Early
  BY Zenon DEF OpenExists, Exclusive, Early
<1>2. code[r] = 0 /\ foff[r] = 0
  BY <1>1, ErrorTyped, Zenon
<1>3. CASE ~second[r]
  <2>1. ErrorLocal(r) /\ pc'[r] = "open" /\ code'[r] = code[r] /\ reply'[r] = reply[r]
    BY <1>3, ErrorTyped, Zenon DEF OpenExists, ErrorLocal, fsVars
  <2>. QED
    BY <2>1, <1>2, ErrorCalm, Zenon
<1>4. CASE second[r]
  <2>1. /\ ErrorLocal(r) /\ pc'[r] = "done" /\ code'[r] = 500 /\ reply'[r] = reply[r]
        /\ second'[r] /\ foff'[r] = foff[r]
    BY <1>4, ErrorTyped DEF OpenExists, Fail, ErrorLocal, fsVars, Codes
  <2>2. JustError(r)'
    BY <2>1, <1>1, <1>2, Zenon DEF JustError
  <2>3. JustReply(r)
    BY Zenon DEF ErrorInv
  <2>4. Passed(r)' /\ JustReply(r)'
    BY <2>1, <2>3, Zenon DEF Passed, JustReply, ErrorLocal
  <2>. QED
    BY <2>1, <2>2, <2>4, ErrorFrame, Zenon
<1>. QED
  BY <1>3, <1>4, Zenon

LEMMA DirsTyped ==
    ASSUME NEW r \in Reqs
    PROVE  Dirs[Path(r)] \in Seq(STRING)
BY StoreAssumption DEF Path

\* There is a directory missing, still.
LEMMA NoDirErrors ==
    ASSUME StoreInv, ErrorInv, NEW r \in Reqs, OpenNoDir(r)
    PROVE  ErrorInv'
<1>1. code[r] = 0
  BY ErrorTyped, Zenon DEF OpenNoDir, Early
<1>2. JustReply(r)
  BY Zenon DEF ErrorInv
<1>3. CASE pc[r] = "open"
  <2>1. /\ ErrorLocal(r) /\ pc'[r] = "mkdir" /\ code'[r] = 0 /\ reply'[r] = reply[r]
        /\ dir'[r] = 2
    BY <1>1, <1>3, ErrorTyped DEF OpenNoDir, ErrorLocal, fsVars
  <2>2. JustError(r)' /\ JustReply(r)'
    BY <1>2, <2>1, ZenonT(40) DEF JustError, JustReply, ErrorLocal
  <2>3. Made(r, 2)'
    BY DirsTyped DEF Made
  <2>4. Passed(r)'
    BY <2>1, <2>3 DEF Passed
  <2>. QED
    BY <2>1, <2>2, <2>4, ErrorFrame, Zenon
<1>4. CASE pc[r] = "reopen"
  <2>1. ErrorLocal(r) /\ pc'[r] = "done" /\ code'[r] = 404 /\ reply'[r] = reply[r]
    BY <1>4, ErrorTyped DEF OpenNoDir, Fail, ErrorLocal, fsVars
  <2>2. Made(r, Len(Dirs[Path(r)]) + 1)
    BY <1>4, Zenon DEF ErrorInv, Passed
  <2>3. PICK i \in DOMAIN Dirs[Path(r)] : Dirs[Path(r)][i] \notin dirs
    BY Zenon DEF OpenNoDir, Ready
  <2>4. i = 1
    BY <2>2, <2>3, DirsTyped DEF Made
  <2>5. Dirs[Path(r)][1] \notin InitDirs
    BY <2>3, <2>4, Zenon DEF ErrorInv
  <2>6. JustError(r)'
    BY <2>1, <2>5, Zenon DEF JustError
  <2>7. Passed(r)' /\ JustReply(r)'
    BY <1>2, <2>1, ZenonT(40) DEF Passed, JustReply, ErrorLocal
  <2>. QED
    BY <2>1, <2>6, <2>7, ErrorFrame, Zenon
<1>. QED
  BY <1>3, <1>4, Zenon DEF OpenNoDir

\* The directories are created.
LEMMA MkdirErrors ==
    ASSUME StoreInv, ErrorInv, NEW r \in Reqs, Mkdir(r) \/ MkdirDone(r)
    PROVE  ErrorInv'
<1>1. pc[r] = "mkdir" /\ code[r] = 0
  BY ErrorTyped, Zenon DEF Mkdir, MkdirDone, Early
<1>2. JustReply(r) /\ dir[r] \in Nat /\ dir[r] >= 2 /\ Made(r, dir[r])
  BY <1>1, ErrorTyped, Zenon DEF ErrorInv, Passed
<1>3. CASE MkdirDone(r)
  <2>1. ErrorLocal(r) /\ pc'[r] = "reopen" /\ code'[r] = 0 /\ reply'[r] = reply[r]
    BY <1>1, <1>3, ErrorTyped, Zenon DEF MkdirDone, ErrorLocal, fsVars
  <2>2. JustError(r)' /\ JustReply(r)'
    BY <1>2, <2>1, ZenonT(40) DEF JustError, JustReply, ErrorLocal
  <2>3. Made(r, Len(Dirs[Path(r)]) + 1)'
    BY <1>2, <1>3, DirsTyped DEF Made, MkdirDone, fsVars
  <2>4. Passed(r)'
    BY <2>1, <2>3, Zenon DEF Passed
  <2>. QED
    BY <2>1, <2>2, <2>4, ErrorFrame, Zenon
<1>4. ASSUME Mkdir(r), Dirs[Path(r)][dir[r] - 1] \in dirs PROVE ErrorInv'
  <2>1. /\ ErrorLocal(r) /\ pc'[r] = "mkdir" /\ code'[r] = 0 /\ reply'[r] = reply[r]
        /\ dir'[r] = dir[r] + 1 /\ dirs' = dirs \cup {Dirs[Path(r)][dir[r]]}
    <3>1. /\ dirs' = dirs \cup {Dirs[Path(r)][dir[r]]}
          /\ dir' = [dir EXCEPT ![r] = @ + 1]
          /\ UNCHANGED <<pc, code, reply, second, foff, faults>>
      BY <1>4, Zenon DEF Mkdir, Fail
    <3>2. dir'[r] = dir[r] + 1 /\ dir' \in [Reqs -> Nat]
      BY <3>1, ErrorTyped
    <3>3. ErrorLocal(r)
      BY <3>1, <3>2, ErrorTyped, Zenon DEF ErrorLocal
    <3>. QED
      BY <1>1, <3>1, <3>2, <3>3, Zenon
  <2>2. JustError(r)' /\ JustReply(r)'
    BY <1>2, <2>1, ZenonT(40) DEF JustError, JustReply, ErrorLocal
  <2>3. Made(r, dir[r])'
    BY <1>2, <2>1, DirsTyped DEF Made
  <2>4. Passed(r)'
    BY <1>2, <2>1, <2>3 DEF Passed
  <2>. QED
    BY <2>1, <2>2, <2>4, ErrorFrame, Zenon
<1>5. ASSUME Mkdir(r), Dirs[Path(r)][dir[r] - 1] \notin dirs PROVE ErrorInv'
  <2>1. ErrorLocal(r) /\ pc'[r] = "done" /\ code'[r] = 404 /\ reply'[r] = reply[r]
    BY <1>5, ErrorTyped DEF Mkdir, Fail, ErrorLocal
  <2>2. dir[r] <= Len(Dirs[Path(r)])
    BY <1>5, Zenon DEF Mkdir
  <2>3. dir[r] = 2
    BY <1>2, <1>5, <2>2, DirsTyped DEF Made
  <2>4. Dirs[Path(r)][1] \notin InitDirs
    BY <1>5, <2>3 DEF ErrorInv
  <2>5. JustError(r)'
    BY <2>1, <2>4, Zenon DEF JustError
  <2>6. Passed(r)' /\ JustReply(r)'
    BY <1>2, <2>1, ZenonT(40) DEF Passed, JustReply, ErrorLocal
  <2>. QED
    BY <2>1, <2>5, <2>6, ErrorFrame, Zenon
<1>. QED
  BY <1>3, <1>4, <1>5, Zenon

\* The death of a process, and steps that change nothing.
LEMMA CrashErrors ==
    ASSUME StoreInv, ErrorInv, UNCHANGED <<dirs, dir, second, foff, reply, code, faults>>,
           \A r \in Reqs : pc'[r] \in {"mkdir", "reopen"} => pc'[r] = pc[r]
    PROVE  ErrorInv'
<1>1. OnlyJustErrors'
  BY DEF ErrorInv, OnlyJustErrors, JustError
<1>2. ASSUME NEW r \in Reqs PROVE Passed(r)' /\ JustReply(r)'
  <2>1. Passed(r) /\ JustReply(r)
    BY Zenon DEF ErrorInv
  <2>2. Passed(r)'
    BY <2>1, Zenon DEF Passed, Made
  <2>3. JustReply(r)'
    BY <2>1 DEF JustReply
  <2>. QED
    BY <2>2, <2>3, Zenon
<1>. QED
  BY <1>1, <1>2, Zenon DEF ErrorInv

LEMMA InitErrors == Init => ErrorInv
<1>. SUFFICES ASSUME Init PROVE ErrorInv
  OBVIOUS
<1>1. dir \in [Reqs -> Nat] /\ second \in [Reqs -> BOOLEAN] /\ InitDirs \subseteq dirs
  BY DEF Init
<1>2. ASSUME NEW r \in Reqs PROVE Passed(r) /\ JustReply(r) /\ JustError(r)
  <2>1. pc[r] = "idle" /\ reply[r] = 0 /\ code[r] = 0
    BY DEF Init
  <2>. QED
    BY <2>1, Zenon DEF Passed, JustReply, JustError
<1>. QED
  BY <1>1, <1>2, Zenon DEF ErrorInv, OnlyJustErrors

LEMMA StepErrors == StoreInv /\ ErrorInv /\ [Next]_vars => ErrorInv'
<1>. SUFFICES ASSUME StoreInv, ErrorInv, [Next]_vars PROVE ErrorInv'
  OBVIOUS
<1>1. ASSUME NEW r \in Reqs, Step(r) PROVE ErrorInv'
  <2>1. CASE Put(r)
    BY <2>1, PutErrors, OtherErrors, FaultErrors, ExistsErrors, NoDirErrors, MkdirErrors,
       Zenon DEF Put
  <2>2. CASE Other(r) \/ Reply(r) \/ \E q \in Procs, c \in {400, 403, 405} : Refuse(r, q, c)
    BY <2>2, OtherErrors, FaultErrors, ZenonT(40) DEF Other
  <2>. QED
    BY <1>1, <2>1, <2>2, Zenon DEF Step
<1>2. ASSUME NEW q \in Procs, Crash(q) PROVE ErrorInv'
  <2>1. UNCHANGED <<dirs, dir, second, foff, reply, code, faults>>
    BY <1>2, Zenon DEF Crash, fsVars, tryVars
  <2>2. \A r \in Reqs : pc'[r] \in {"lost", pc[r]}
    BY <1>2, Zenon DEF Crash
  <2>. QED
    BY <2>1, <2>2, CrashErrors
<1>3. CASE Ended \/ UNCHANGED vars
  <2>1. UNCHANGED <<pc, dirs, dir, second, foff, reply, code, faults>>
    BY <1>3, Zenon DEF Ended, vars, fsVars, tryVars
  <2>. QED
    BY <2>1, CrashErrors, Zenon
<1>. QED
  BY <1>1, <1>2, <1>3, Zenon DEF Next

\* Other uploads never make one fail that is legitimate, as long as the calls
\* that open, create, write, rename and close files do not fail by themselves
\* (mog_http_put, mkpath_open_put, mog_mkpath_for, put_commit_resp).
THEOREM OnlyJustErrorsAlways == Spec => []OnlyJustErrors
<1>1. ErrorInv => OnlyJustErrors
  BY DEF ErrorInv
<1>. QED
  BY <1>1, InitErrors, StepErrors, Invariance, PTL DEF Spec

-----------------------------------------------------------------------------
(* Reads                                                                   *)

\* What a step of r does to the others, and to what they read: only partial
\* uploads write to a file that has been at a path.
ReadLocal(r) ==
    /\ sent' = sent /\ sent[r] /\ got' \in [Reqs -> Seq(Blocks)]
    /\ applied \subseteq applied'
    /\ \A q \in Reqs \ {r} :
           /\ pc'[q] = pc[q] /\ ino'[q] = ino[q] /\ foff'[q] = foff[q]
           /\ got'[q] = got[q] /\ code'[q] = code[q]
    /\ \A i \in Inodes : \/ data'[i] = data[i]
                         \/ Partial(Owner(i))
                         \/ i \in Reqs /\ Whole(i) /\ i \notin applied'
    /\ \A w \in applied' \ applied : Whole(w) => data'[w] = Abstract!Body(w)

LEMMA ReadFrame ==
    ASSUME StoreInv, ReadInv, NEW r \in Reqs, ReadLocal(r),
           \A p \in Paths : (link[p] # Nil => Visible(link[p], p))',
           Reading(r)', OneFile(r)'
    PROVE  ReadInv'
<1>1. \A p : Partial(p)' <=> Partial(p)
  BY Zenon DEF Partial, ReadLocal
<1>2. ASSUME NEW i, NEW p, Visible(i, p) PROVE Visible(i, p)'
  BY <1>2, Zenon DEF Visible, ReadLocal, Owner
<1>3. ASSUME NEW i \in Inodes PROVE Settled(i)' \/ Partial(Owner(i))'
  <2>1. Settled(i) \/ Partial(Owner(i))
    BY Zenon DEF ReadInv
  <2>2. CASE data'[i] = data[i] /\ Settled(i)
    BY <2>2, Zenon DEF Settled, ReadLocal
  <2>3. CASE i \in Reqs /\ Whole(i) /\ i \notin applied'
    BY <2>3, StoreAssumption, Zenon DEF Settled
  <2>4. CASE Partial(Owner(i))
    BY <1>1, <2>4, Zenon DEF Owner
  <2>. QED
    BY <2>1, <2>2, <2>3, <2>4, Zenon DEF ReadLocal
<1>4. ASSUME NEW q \in Reqs \ {r} PROVE Reading(q)' /\ OneFile(q)'
  <2>1. Reading(q) /\ OneFile(q)
    BY Zenon DEF ReadInv, ReadWhole
  <2>2. /\ pc'[q] = pc[q] /\ ino'[q] = ino[q] /\ foff'[q] = foff[q]
        /\ got'[q] = got[q] /\ code'[q] = code[q] /\ applied \subseteq applied'
    BY Zenon DEF ReadLocal
  <2>3. OneFile(q)'
    <3>1. CASE Partial(Path(q))
      BY <1>1, <3>1, Zenon DEF OneFile
    <3>2. CASE ~Partial(Path(q))
      BY <2>1, <2>2, <3>2 DEF OneFile
    <3>. QED
      BY <3>1, <3>2, Zenon
  <2>4. ASSUME pc[q] = "send", ~Partial(Path(q)) PROVE data'[ino[q]] = data[ino[q]]
    <3>1. /\ ino[q] \in Inodes /\ Owner(ino[q]) = Path(q)
          /\ ino[q] \in Reqs /\ Whole(ino[q]) => ino[q] \in applied'
      BY <2>1, <2>2, <2>4, Zenon DEF Reading, Visible
    <3>2. ~Partial(Owner(ino[q]))
      BY <2>4, <3>1
    <3>. QED
      BY <3>1, <3>2, Zenon DEF ReadLocal
  <2>5. Reading(q)'
    <3>1. CASE pc[q] # "send"
      BY <2>1, <2>2, <3>1, Zenon DEF Reading
    <3>2. CASE pc[q] = "send" /\ Partial(Path(q))
      BY <1>1, <1>2, <2>1, <2>2, <3>2, Zenon DEF Reading
    <3>3. CASE pc[q] = "send" /\ ~Partial(Path(q))
      BY <1>2, <2>1, <2>2, <2>4, <3>3, Zenon DEF Reading
    <3>. QED
      BY <3>1, <3>2, <3>3, Zenon
  <2>. QED
    BY <2>3, <2>5, Zenon
<1>5. \A q \in Reqs : pc'[q] \notin {"idle", "lost"} => sent'[q]
  BY Zenon DEF ReadInv, ReadLocal
<1>. QED
  BY <1>3, <1>4, <1>5, Zenon DEF ReadInv, ReadWhole, ReadLocal

\* Who takes a step has been sent.
LEMMA WasSent ==
    ASSUME ReadInv, NEW r \in Reqs, Step(r)
    PROVE  sent[r]
<1>1. CASE Put(r)
  <2>1. sent[r] \/ pc[r] \in {"open", "reopen", "mkdir", "write", "close"}
    BY <1>1, ZenonT(40) DEF Put, PutBegin, Opened, OpenExists, OpenNoDir, OpenExpired, OpenFails,
                       Mkdir, MkdirFails, MkdirDone, Write, WriteFails, ClientGone,
                       Md5Mismatch, Commit, CommitFails, BodyEnded, Close, CloseFails
  <2>. QED
    BY <2>1, Zenon DEF ReadInv
<1>2. CASE Other(r) \/ Reply(r) \/ \E q \in Procs, c \in {400, 403, 405} : Refuse(r, q, c)
  <2>1. sent[r] \/ pc[r] \in {"send", "reply"}
    BY <1>2, ZenonT(40) DEF Other, Refuse, Reply, Delete, DeleteFails, GetOpen, GetFails, GetSend
  <2>. QED
    BY <2>1 DEF ReadInv
<1>. QED
  BY <1>1, <1>2, Zenon DEF Step

\* A step after which r reads nothing, and nothing has come to a path.
ReadStill(r) ==
    /\ UNCHANGED <<data, sent, got>>
    /\ \A p \in Paths : link'[p] \in {link[p], Nil}
    /\ applied' = applied \/ (applied' = applied \cup {r} /\ ~Whole(r))
    /\ \A q \in Reqs \ {r} : /\ pc'[q] = pc[q] /\ ino'[q] = ino[q]
                              /\ foff'[q] = foff[q] /\ code'[q] = code[q]
    /\ pc'[r] \notin {"idle", "send"}
    /\ Request[r].method # "GET" \/ code'[r] # 200 \/ pc'[r] # "done"

LEMMA ReadQuiet ==
    ASSUME StoreInv, ReadInv, NEW r \in Reqs, sent[r], ReadStill(r)
    PROVE  ReadInv'
<1>1. ReadLocal(r)
  <2>1. \A w \in applied' \ applied : ~Whole(w)
    BY Zenon DEF ReadStill
  <2>2. applied \subseteq applied' /\ got' \in [Reqs -> Seq(Blocks)]
    BY Zenon DEF ReadStill, ReadInv
  <2>. QED
    BY <2>1, <2>2, Zenon DEF ReadStill, ReadLocal
<1>2. ASSUME NEW p \in Paths, link'[p] # Nil PROVE Visible(link[p], p)'
  <2>1. link'[p] = link[p] /\ Visible(link[p], p)
    BY <1>2, Zenon DEF ReadStill, ReadInv
  <2>2. applied \subseteq applied' /\ sent' = sent
    BY Zenon DEF ReadStill
  <2>. QED
    BY <2>1, <2>2 DEF Visible, Owner
<1>3. Reading(r)' /\ OneFile(r)'
  BY Zenon DEF ReadStill, Reading, OneFile
<1>. QED
  BY <1>1, <1>2, <1>3, ReadFrame, Zenon

\* A step of r that touches no file.
FileStill(r) ==
    /\ UNCHANGED <<link, data, sent, got, applied, foff>>
    /\ ino' = ino \/ ino' = [ino EXCEPT ![r] = Nil]
    /\ code' = code \/ \E c : code' = [code EXCEPT ![r] = c]
    /\ \/ pc' = pc
       \/ \E p \in {"open", "mkdir", "reopen", "close", "reply", "done"} :
              pc' = [pc EXCEPT ![r] = p]

LEMMA FileQuiet ==
    ASSUME StoreInv, NEW r \in Reqs, FileStill(r), pc[r] \notin {"idle", "send"} \/ pc' # pc,
           Request[r].method # "GET" \/ code'[r] # 200
    PROVE  ReadStill(r)
<1>1. /\ pc \in [Reqs -> PCs] /\ code \in [Reqs -> Codes] /\ ino \in [Reqs -> Inodes \cup {Nil}]
  BY Zenon DEF StoreInv, TypeOK
<1>2. pc'[r] \notin {"idle", "send"}
  BY <1>1 DEF FileStill
<1>3. \A q \in Reqs \ {r} : pc'[q] = pc[q]
  BY <1>1, Zenon DEF FileStill
<1>4. \A q \in Reqs \ {r} : ino'[q] = ino[q]
  BY <1>1, Zenon DEF FileStill
<1>5. \A q \in Reqs \ {r} : code'[q] = code[q]
  BY <1>1, Zenon DEF FileStill
<1>. QED
  BY <1>2, <1>3, <1>4, <1>5, Zenon DEF FileStill, ReadStill

\* The steps of uploads that touch no file.
LEMMA UploadStill ==
    ASSUME StoreInv, NEW r \in Reqs,
           \/ \E q, n : PutBegin(r, q, n)
           \/ \E n : OpenExists(r, n)
           \/ OpenNoDir(r)
           \/ OpenExpired(r)
           \/ \E c : OpenFails(r, c)
           \/ Mkdir(r)
           \/ MkdirFails(r)
           \/ MkdirDone(r)
           \/ \E c : WriteFails(r, c)
           \/ ClientGone(r)
           \/ Md5Mismatch(r)
           \/ CommitFails(r)
           \/ CloseFails(r)
           \/ Reply(r)
    PROVE  ReadStill(r)
<1>a. /\ pc[r] \in {"open", "mkdir", "reopen", "write", "close"} => Request[r].method # "GET"
      /\ pc[r] = "reply" => Request[r].method # "GET"
  BY Zenon DEF StoreInv, Consistent
<1>b. pc[r] \in PCs /\ pc \in [Reqs -> PCs]
  BY Zenon DEF StoreInv, TypeOK
<1>1. CASE \E q, n : PutBegin(r, q, n)
  <2>1. FileStill(r) /\ pc' = [pc EXCEPT ![r] = "open"] /\ pc[r] = "idle"
    BY <1>1, Zenon DEF PutBegin, fsVars, FileStill
  <2>2. pc' # pc
    BY <1>b, <2>1, Zenon
  <2>3. Request[r].method # "GET"
    BY <1>1, Zenon DEF PutBegin
  <2>. QED
    BY <2>1, <2>2, <2>3, FileQuiet, Zenon
<1>2. CASE \E n : OpenExists(r, n)
  <2>1. FileStill(r)
    BY <1>2, Zenon DEF OpenExists, Fail, fsVars, FileStill
  <2>2. Request[r].method # "GET" /\ pc[r] \notin {"idle", "send"}
    BY <1>2, <1>a, Zenon DEF OpenExists
  <2>. QED
    BY <2>1, <2>2, FileQuiet, Zenon
<1>3. CASE OpenNoDir(r)
  <2>1. FileStill(r)
    BY <1>3, ZenonT(40) DEF OpenNoDir, Fail, fsVars, FileStill
  <2>2. Request[r].method # "GET" /\ pc[r] \notin {"idle", "send"}
    BY <1>3, <1>a, Zenon DEF OpenNoDir
  <2>. QED
    BY <2>1, <2>2, FileQuiet, Zenon
<1>4. CASE OpenExpired(r)
  <2>1. FileStill(r)
    BY <1>4, Zenon DEF OpenExpired, fsVars, FileStill
  <2>2. Request[r].method # "GET" /\ pc[r] \notin {"idle", "send"}
    BY <1>4, <1>a, Zenon DEF OpenExpired
  <2>. QED
    BY <2>1, <2>2, FileQuiet, Zenon
<1>5. CASE \E c : OpenFails(r, c)
  <2>1. FileStill(r)
    BY <1>5, Zenon DEF OpenFails, Fail, fsVars, FileStill
  <2>2. Request[r].method # "GET" /\ pc[r] \notin {"idle", "send"}
    BY <1>5, <1>a, Zenon DEF OpenFails
  <2>. QED
    BY <2>1, <2>2, FileQuiet, Zenon
<1>6. CASE Mkdir(r)
  <2>1. FileStill(r)
    BY <1>6, Zenon DEF Mkdir, Fail, FileStill
  <2>2. Request[r].method # "GET" /\ pc[r] \notin {"idle", "send"}
    BY <1>6, <1>a, Zenon DEF Mkdir
  <2>. QED
    BY <2>1, <2>2, FileQuiet, Zenon
<1>7. CASE MkdirFails(r)
  <2>1. FileStill(r)
    BY <1>7, Zenon DEF MkdirFails, Fail, fsVars, FileStill
  <2>2. Request[r].method # "GET" /\ pc[r] \notin {"idle", "send"}
    BY <1>7, <1>a, Zenon DEF MkdirFails
  <2>. QED
    BY <2>1, <2>2, FileQuiet, Zenon
<1>8. CASE MkdirDone(r)
  <2>1. FileStill(r)
    BY <1>8, Zenon DEF MkdirDone, fsVars, FileStill
  <2>2. Request[r].method # "GET" /\ pc[r] \notin {"idle", "send"}
    BY <1>8, <1>a, Zenon DEF MkdirDone
  <2>. QED
    BY <2>1, <2>2, FileQuiet, Zenon
<1>9. CASE \E c : WriteFails(r, c)
  <2>1. FileStill(r)
    BY <1>9, Zenon DEF WriteFails, fsVars, FileStill
  <2>2. Request[r].method # "GET" /\ pc[r] \notin {"idle", "send"}
    BY <1>9, <1>a, Zenon DEF WriteFails
  <2>. QED
    BY <2>1, <2>2, FileQuiet, Zenon
<1>10. CASE ClientGone(r)
  <2>1. FileStill(r)
    BY <1>10, Zenon DEF ClientGone, fsVars, FileStill
  <2>2. Request[r].method # "GET" /\ pc[r] \notin {"idle", "send"}
    BY <1>10, <1>a, Zenon DEF ClientGone
  <2>. QED
    BY <2>1, <2>2, FileQuiet, Zenon
<1>11. CASE Md5Mismatch(r)
  <2>1. FileStill(r)
    BY <1>11, Zenon DEF Md5Mismatch, CloseThen, BodyEnded, fsVars, FileStill
  <2>2. Request[r].method # "GET" /\ pc[r] \notin {"idle", "send"}
    BY <1>11, <1>a, Zenon DEF Md5Mismatch, BodyEnded
  <2>. QED
    BY <2>1, <2>2, FileQuiet, Zenon
<1>12. CASE CommitFails(r)
  <2>1. FileStill(r)
    BY <1>12, Zenon DEF CommitFails, CloseThen, BodyEnded, fsVars, FileStill
  <2>2. Request[r].method # "GET" /\ pc[r] \notin {"idle", "send"}
    BY <1>12, <1>a, Zenon DEF CommitFails, BodyEnded
  <2>. QED
    BY <2>1, <2>2, FileQuiet, Zenon
<1>13. CASE CloseFails(r)
  <2>1. FileStill(r)
    BY <1>13, Zenon DEF CloseFails, fsVars, FileStill
  <2>2. Request[r].method # "GET" /\ pc[r] \notin {"idle", "send"}
    BY <1>13, <1>a, Zenon DEF CloseFails
  <2>. QED
    BY <2>1, <2>2, FileQuiet, Zenon
<1>14. CASE Reply(r)
  <2>1. FileStill(r)
    BY <1>14, ZenonT(40) DEF Reply, fsVars, FileStill
  <2>2. Request[r].method # "GET" /\ pc[r] \notin {"idle", "send"}
    BY <1>14, <1>a DEF Reply
  <2>. QED
    BY <2>1, <2>2, FileQuiet, Zenon
<1>. QED
  BY <1>1, <1>2, <1>3, <1>4, <1>5, <1>6, <1>7, <1>8, <1>9, <1>10, <1>11, <1>12, <1>13, <1>14, Zenon

\* ... the other steps that lead to an answer, and the end of an upload.
LEMMA AnswerStill ==
    ASSUME StoreInv, NEW r \in Reqs,
           \/ \E q, c : Refuse(r, q, c) \/ DeleteFails(r, q, c) \/ GetFails(r, q, c)
           \/ \E q : Delete(r, q)
           \/ Close(r)
    PROVE  ReadStill(r)
<1>t. /\ pc \in [Reqs -> PCs] /\ code \in [Reqs -> Codes] /\ ino \in [Reqs -> Inodes \cup {Nil}]
      /\ \A p \in Paths : link[p] \in {link[p], Nil}
  BY Zenon DEF StoreInv, TypeOK
<1>l. /\ link \in [Names -> Inodes \cup {Nil}] /\ Path(r) \in Names /\ Paths \subseteq Names
      /\ tmppath[r] \in Tmps \cup {Nil} /\ Tmps \subseteq Names /\ Paths \cap Tmps = {}
  BY Sorts, StoreAssumption, Zenon DEF StoreInv, TypeOK
<1>1. CASE \E q, c : Refuse(r, q, c)
  <2>1. PICK q, c : Refuse(r, q, c)
    BY <1>1, Zenon
  <2>2. c \in {400, 403, 405}
    BY <2>1 DEF Refuse
  <2>3. FileStill(r) /\ Fail(r, c) /\ pc[r] = "idle"
    BY <2>1, Zenon DEF Refuse, Fail, fsVars, FileStill
  <2>4. code'[r] # 200 /\ pc' # pc
    BY <2>2, <2>3, <1>t DEF Fail
  <2>. QED
    BY <2>3, <2>4, FileQuiet, Zenon
<1>2. CASE \E q, c : DeleteFails(r, q, c)
  <2>1. PICK q, c : DeleteFails(r, q, c)
    BY <1>2, Zenon
  <2>2. c \in {403, 500}
    BY <2>1, Zenon DEF DeleteFails
  <2>3. FileStill(r) /\ Fail(r, c) /\ pc[r] = "idle"
    BY <2>1, Zenon DEF DeleteFails, Fail, fsVars, FileStill
  <2>4. code'[r] # 200 /\ pc' # pc
    BY <2>2, <2>3, <1>t DEF Fail
  <2>. QED
    BY <2>3, <2>4, FileQuiet, Zenon
<1>3. CASE \E q, c : GetFails(r, q, c)
  <2>1. PICK q, c : GetFails(r, q, c)
    BY <1>3, Zenon
  <2>2. c \in {403, 500}
    BY <2>1, Zenon DEF GetFails
  <2>3. FileStill(r) /\ Fail(r, c) /\ pc[r] = "idle"
    BY <2>1, Zenon DEF GetFails, Fail, fsVars, FileStill
  <2>4. code'[r] # 200 /\ pc' # pc
    BY <2>2, <2>3, <1>t DEF Fail
  <2>. QED
    BY <2>3, <2>4, FileQuiet, Zenon
<1>4. CASE \E q : Delete(r, q)
  <2>1. /\ UNCHANGED <<data, sent, got, ino, foff>>
        /\ Request[r].method = "DELETE"
        /\ link' = link \/ link' = [link EXCEPT ![Path(r)] = Nil]
        /\ applied' = applied \/ applied' = applied \cup {r}
        /\ code' = code \/ code' = [code EXCEPT ![r] = 404]
    BY <1>4, Zenon DEF Delete, Fail
  <2>2. pc' = [pc EXCEPT ![r] = "reply"] \/ pc' = [pc EXCEPT ![r] = "done"]
    BY <1>4, Zenon DEF Delete, Fail
  <2>3. ~Whole(r)
    BY <2>1, Zenon DEF Whole
  <2>4. \A p \in Paths : link'[p] \in {link[p], Nil}
    BY <2>1, <1>l, Zenon
  <2>5. \A q \in Reqs \ {r} : pc'[q] = pc[q] /\ code'[q] = code[q]
    <3>1. \A q \in Reqs \ {r} : pc'[q] = pc[q]
      BY <2>2, <1>t, Zenon
    <3>2. \A q \in Reqs \ {r} : code'[q] = code[q]
      BY <2>1, <1>t, ZenonT(40)
    <3>. QED
      BY <3>1, <3>2, Zenon
  <2>6. pc'[r] \in {"reply", "done"}
    BY <2>2, <1>t, Zenon
  <2>. QED
    BY <2>1, <2>3, <2>4, <2>5, <2>6, Zenon DEF ReadStill
<1>5. CASE Close(r)
  <2>1. \A p \in Paths : link'[p] = link[p]
    BY <1>5, <1>l, Zenon DEF Close, Unlink
  <2>. QED
    BY <1>5, <2>1, <1>t, Zenon DEF Close, ReadStill
<1>. QED
  BY <1>1, <1>2, <1>3, <1>4, <1>5, Zenon

\* Only a partial upload opens the file at its path.
LEMMA OpenedReads ==
    ASSUME StoreInv, ReadInv, NEW r \in Reqs, sent[r], Opened(r)
    PROVE  ReadInv'
<1>t. /\ pc \in [Reqs -> PCs] /\ ino \in [Reqs -> Inodes \cup {Nil}]
      /\ link \in [Names -> Inodes \cup {Nil}] /\ Path(r) \in Paths /\ Paths \subseteq Names
      /\ Tmps \subseteq Names /\ Paths \cap Tmps = {} /\ r \in Inodes
  BY Sorts, StoreAssumption, Zenon DEF StoreInv, TypeOK
<1>1. /\ Request[r].method \in {"PUT", "RANGE"} /\ name[r] \in Names
      /\ IF Whole(r) THEN name[r] \in Tmps ELSE name[r] = Path(r)
  BY <1>t, Zenon DEF StoreInv, Consistent, Opened
<1>2. UNCHANGED <<data, sent, got, foff, code, applied>> /\ pc' = [pc EXCEPT ![r] = "write"]
  BY Zenon DEF Opened
<1>3. \A q \in Reqs \ {r} : ino'[q] = ino[q] /\ pc'[q] = pc[q]
  BY <1>t, Zenon DEF Opened
<1>4. ReadLocal(r)
  BY <1>2, <1>3, Zenon DEF ReadLocal, ReadInv
<1>5. ASSUME NEW p \in Paths, link'[p] # Nil PROVE Visible(link[p], p)'
  <2>1. CASE link'[p] = link[p]
    <3>1. Visible(link[p], p)
      BY <1>5, <2>1, Zenon DEF ReadInv
    <3>. QED
      BY <1>2, <2>1, <3>1, Zenon DEF Visible, Owner
  <2>2. CASE link'[p] # link[p]
    <3>1. link'[p] = r /\ p = name[r]
      BY <1>t, <1>1, <2>2, Zenon DEF Opened
    <3>2. p = Path(r) /\ ~Whole(r)
      BY <1>1, <1>t, <3>1, Zenon
    <3>. QED
      BY <1>1, <1>2, <1>t, <3>1, <3>2, StoreAssumption, Zenon DEF Visible, Owner
  <2>. QED
    BY <2>1, <2>2, Zenon
<1>6. pc'[r] = "write"
  BY <1>2, <1>t, Zenon
<1>7. Reading(r)' /\ OneFile(r)'
  BY <1>6, Zenon DEF Reading, OneFile
<1>. QED
  BY <1>4, <1>5, <1>7, ReadFrame, Zenon

\* A file that has been at a path is written to by partial uploads only.
LEMMA WriteReads ==
    ASSUME StoreInv, ReadInv, NEW r \in Reqs, sent[r], Write(r)
    PROVE  ReadInv'
<1>t. /\ data \in [Inodes -> Seq(Blocks)] /\ foff \in [Reqs -> Nat]
  BY Zenon DEF StoreInv, TypeOK
<1>1. /\ pc[r] = "write" /\ UNCHANGED <<link, pc, ino, sent, got, code, applied>>
      /\ Request[r].method \in {"PUT", "RANGE"} /\ r \notin applied
  BY ZenonT(30) DEF StoreInv, Consistent, Write
<1>2. Whole(r) => ino[r] = r
  BY <1>1, Zenon DEF StoreInv, Consistent, Uploading
<1>3. ~Whole(r) => Owner(ino[r]) = Path(r) /\ Request[r].method = "RANGE"
  BY <1>1, Zenon DEF StoreInv, Consistent, Whole
<1>4. \A i \in Inodes : i # ino[r] => data'[i] = data[i]
  BY <1>t, Zenon DEF Write
<1>5. \A q \in Reqs \ {r} : foff'[q] = foff[q]
  BY <1>t, Zenon DEF Write
<1>6. ASSUME NEW i \in Inodes
      PROVE  \/ data'[i] = data[i] \/ Partial(Owner(i))
             \/ i \in Reqs /\ Whole(i) /\ i \notin applied'
  <2>1. CASE i # ino[r]
    BY <1>4, <2>1, Zenon
  <2>2. CASE i = ino[r] /\ Whole(r)
    BY <1>1, <1>2, <2>2, Zenon
  <2>3. CASE i = ino[r] /\ ~Whole(r)
    BY <1>3, <2>3, Zenon DEF Partial
  <2>. QED
    BY <2>1, <2>2, <2>3, Zenon
<1>7. ReadLocal(r)
  BY <1>1, <1>5, <1>6, Zenon DEF ReadLocal, ReadInv
<1>8. ASSUME NEW p \in Paths, link'[p] # Nil PROVE Visible(link[p], p)'
  <2>1. Visible(link[p], p)
    BY <1>1, <1>8, Zenon DEF ReadInv
  <2>. QED
    BY <1>1, <2>1 DEF Visible, Owner
<1>9. Reading(r)' /\ OneFile(r)'
  BY <1>1, Zenon DEF Reading, OneFile
<1>. QED
  BY <1>7, <1>8, <1>9, ReadFrame, Zenon

\* The file that an upload renames has all of its body.
LEMMA CommitReads ==
    ASSUME StoreInv, ReadInv, NEW r \in Reqs, sent[r], Commit(r)
    PROVE  ReadInv'
<1> DEFINE t == tmppath[r]
<1>0. TypeOK
  BY Zenon DEF StoreInv
<1>t. /\ pc \in [Reqs -> PCs] /\ link \in [Names -> Inodes \cup {Nil}]
      /\ Path(r) \in Paths /\ Paths \subseteq Names /\ Tmps \subseteq Names
      /\ Paths \cap Tmps = {} /\ r \in Inodes /\ r # Nil
      /\ \A p \in Paths : link[p] \in {link[p], Nil}
  BY Sorts, StoreAssumption, Zenon DEF StoreInv, TypeOK
<1>1. /\ pc[r] = "write" /\ foff[r] = Size(r) /\ r \notin applied
      /\ UNCHANGED <<data, sent, got, code, ino, foff>> /\ (Whole(r) <=> t # Nil)
      /\ Request[r].method \in {"PUT", "RANGE"}
  BY ZenonT(30) DEF StoreInv, Consistent, Commit, BodyEnded
<1>2. \A q \in Reqs \ {r} : pc'[q] = pc[q]
  BY <1>t, Zenon DEF Commit, CloseThen
<1>3. pc'[r] = "close"
  BY <1>t, Zenon DEF Commit, CloseThen
<1>4. CASE t = Nil
  <2>1. link' = link /\ applied' = applied \cup {r} /\ ~Whole(r)
    BY <1>1, <1>4, Zenon DEF Commit
  <2>2. ReadStill(r)
    BY <1>1, <1>2, <1>3, <1>t, <2>1, Zenon DEF ReadStill
  <2>. QED
    BY <2>2, ReadQuiet, Zenon
<1>5. CASE t # Nil
  <2>1. t \in Tmps /\ link[t] = r
    BY <1>0, <1>5, Sorts, Zenon DEF StoreInv, Uploading
  <2>2. link' = [link EXCEPT ![Path(r)] = r, ![t] = Nil] /\ applied' = applied \cup {r}
    BY <1>5, <1>t, <2>1, Zenon DEF Commit, Rename
  <2>3. link'[Path(r)] = r /\ \A p \in Paths \ {Path(r)} : link'[p] = link[p]
    BY <1>t, <2>1, <2>2, Zenon
  <2>4. data[r] = Abstract!Body(r)
    BY <1>1, <1>5, WholeBody, Zenon
  <2>5. ReadLocal(r)
    BY <1>1, <1>2, <2>2, <2>4, Zenon DEF ReadLocal, ReadInv
  <2>6. ASSUME NEW p \in Paths, link'[p] # Nil PROVE Visible(link[p], p)'
    <3>1. CASE p # Path(r)
      <4>1. link'[p] = link[p] /\ Visible(link[p], p)
        BY <2>3, <2>6, <3>1, Zenon DEF ReadInv
      <4>. QED
        BY <1>1, <2>2, <4>1 DEF Visible, Owner
    <3>2. CASE p = Path(r)
      BY <1>1, <1>t, <2>2, <2>3, <3>2, StoreAssumption, Zenon DEF Visible, Owner
    <3>. QED
      BY <3>1, <3>2, Zenon
  <2>7. Reading(r)' /\ OneFile(r)'
    BY <1>3, Zenon DEF Reading, OneFile
  <2>. QED
    BY <2>5, <2>6, <2>7, ReadFrame, Zenon
<1>. QED
  BY <1>4, <1>5, Zenon

LEMMA GetOpenReads ==
    ASSUME StoreInv, ReadInv, NEW r \in Reqs, sent[r], NEW q, GetOpen(r, q)
    PROVE  ReadInv'
<1>t. /\ pc \in [Reqs -> PCs] /\ code \in [Reqs -> Codes] /\ ino \in [Reqs -> Inodes \cup {Nil}]
      /\ foff \in [Reqs -> Nat] /\ Path(r) \in Paths
      /\ \A p \in Paths : link[p] \in {link[p], Nil}
  BY Sorts, Zenon DEF StoreInv, TypeOK
<1>1. UNCHANGED <<link, data, sent, got, applied>> /\ pc[r] = "idle"
  BY Zenon DEF GetOpen, fsVars
<1>2. CASE link[Path(r)] = Nil
  <2>1. UNCHANGED <<ino, foff>> /\ Fail(r, 404)
    BY <1>2, Zenon DEF GetOpen
  <2>2. code'[r] # 200 /\ pc'[r] = "done"
    BY <2>1, <1>t DEF Fail
  <2>3. \A w \in Reqs \ {r} : pc'[w] = pc[w] /\ code'[w] = code[w]
    BY <2>1, <1>t, Zenon DEF Fail
  <2>4. ReadStill(r)
    BY <1>1, <1>t, <2>1, <2>2, <2>3, Zenon DEF ReadStill
  <2>. QED
    BY <2>4, ReadQuiet, Zenon
<1>3. CASE link[Path(r)] # Nil
  <2>1. /\ ino' = [ino EXCEPT ![r] = link[Path(r)]]
        /\ foff' = [foff EXCEPT ![r] = Len(data[link[Path(r)]])]
        /\ code' = [code EXCEPT ![r] = 200] /\ pc' = [pc EXCEPT ![r] = "send"]
    BY <1>3, Zenon DEF GetOpen
  <2>2. \A w \in Reqs \ {r} : /\ pc'[w] = pc[w] /\ code'[w] = code[w]
                              /\ ino'[w] = ino[w] /\ foff'[w] = foff[w]
    BY <2>1, <1>t, Zenon
  <2>3. /\ pc'[r] = "send" /\ ino'[r] = link[Path(r)] /\ foff'[r] = Len(data[link[Path(r)]])
    BY <2>1, <1>t, Zenon
  <2>4. ReadLocal(r)
    BY <1>1, <2>2, Zenon DEF ReadLocal, ReadInv
  <2>5. ASSUME NEW i, NEW p, Visible(i, p) PROVE Visible(i, p)'
    BY <1>1, <2>5, Zenon DEF Visible, Owner
  <2>6. \A p \in Paths : (link[p] # Nil => Visible(link[p], p))'
    BY <1>1, <2>5, Zenon DEF ReadInv
  <2>7. got'[r] = <<>> /\ Len(data[link[Path(r)]]) \in Nat
    <3>1. got[r] = <<>> /\ Visible(link[Path(r)], Path(r))
      BY <1>1, <1>3, <1>t, Zenon DEF ReadInv, Reading
    <3>2. data[link[Path(r)]] \in Seq(Blocks)
      BY <3>1, Zenon DEF Visible, StoreInv, TypeOK
    <3>. QED
      BY <1>1, <3>1, <3>2
  <2>8. Visible(link[Path(r)], Path(r))'
    BY <1>1, <1>3, <1>t, <2>6, Zenon
  <2>9. Reading(r)'
    <3>1. /\ foff'[r] = Len(data'[ino'[r]]) /\ Len(got'[r]) <= foff'[r]
          /\ \A k \in 1 .. Len(got'[r]) : got'[r][k] = data'[ino'[r]][k]
      BY <1>1, <2>3, <2>7
    <3>2. Visible(ino[r], Path(r))'
      BY <1>1, <2>3, <2>8, Zenon DEF Visible
    <3>. QED
      BY <2>3, <3>1, <3>2, Zenon DEF Reading
  <2>10. OneFile(r)'
    BY <2>3, Zenon DEF OneFile
  <2>. QED
    BY <2>4, <2>6, <2>9, <2>10, ReadFrame, Zenon
<1>. QED
  BY <1>2, <1>3, Zenon

\* What a GET has open, if nobody writes to it, is what its path was.
LEMMA WholeFile ==
    ASSUME StoreInv, ReadInv, NEW r \in Reqs, Visible(ino[r], Path(r)), ~Partial(Path(r))
    PROVE  \/ data[ino[r]] = Initial[Path(r)]
           \/ \E w \in applied : /\ Whole(w) /\ Path(w) = Path(r)
                                 /\ data[ino[r]] = Abstract!Body(w)
<1> DEFINE i == ino[r]
<1>1. i \in Inodes /\ Owner(i) = Path(r)
  BY Zenon DEF Visible
<1>2. ~Partial(Owner(i))
  BY <1>1
<1>3. Settled(i)
  BY <1>1, <1>2, Zenon DEF ReadInv
<1>4. CASE i \in Paths
  <2>1. i = Path(r)
    BY <1>1, <1>4, StoreAssumption, Zenon DEF Owner
  <2>. QED
    BY <1>3, <1>4, <2>1, Zenon DEF Settled, Visible
<1>5. CASE i \in Reqs
  <2>1. i \notin Paths
    BY <1>5, StoreAssumption, Zenon
  <2>2. Path(i) = Path(r)
    BY <1>1, <1>5, Zenon DEF Owner
  <2>3. Request[i].method # "RANGE"
    BY <1>5, <2>2, Zenon DEF Visible, Partial
  <2>4. Whole(i) /\ i \in applied
    BY <1>5, <2>3, Zenon DEF Visible, Whole
  <2>. QED
    BY <1>3, <2>1, <2>2, <2>4, Zenon DEF Settled
<1>. QED
  BY <1>1, <1>4, <1>5, Zenon DEF Inodes

LEMMA SameBlocks ==
    ASSUME NEW g \in Seq(Blocks), NEW d \in Seq(Blocks), Len(g) = Len(d),
           \A k \in 1 .. Len(g) : g[k] = d[k]
    PROVE  g = d
<1>. HIDE DEF Blocks
<1>. QED
  OBVIOUS

LEMMA Prefixed ==
    ASSUME NEW g \in Seq(Blocks), NEW d \in Seq(Blocks), Len(g) < Len(d),
           \A k \in 1 .. Len(g) : g[k] = d[k]
    PROVE  /\ Len(Append(g, d[Len(g) + 1])) = Len(g) + 1
           /\ \A k \in 1 .. Len(g) + 1 : Append(g, d[Len(g) + 1])[k] = d[k]
<1>. HIDE DEF Blocks
<1>1. d[Len(g) + 1] \in Blocks
  OBVIOUS
<1>. QED
  BY <1>1

LEMMA GetSendReads ==
    ASSUME StoreInv, ReadInv, NEW r \in Reqs, sent[r], GetSend(r)
    PROVE  ReadInv'
<1> DEFINE i == ino[r]
<1>t. /\ pc \in [Reqs -> PCs] /\ ino \in [Reqs -> Inodes \cup {Nil}] /\ foff[r] \in Nat
      /\ got \in [Reqs -> Seq(Blocks)] /\ Path(r) \in Paths
  BY Sorts, Zenon DEF StoreInv, TypeOK, ReadInv
<1>1. /\ UNCHANGED <<link, data, sent, foff, code, applied>> /\ pc[r] = "send"
  BY Zenon DEF GetSend, fsVars
<1>2. Reading(r) /\ Visible(i, Path(r))
  BY <1>1, Zenon DEF ReadInv, Reading
<1>3. i \in Inodes /\ data[i] \in Seq(Blocks) /\ got[r] \in Seq(Blocks)
  BY <1>2, <1>t, Zenon DEF Visible, StoreInv, TypeOK
<1>4. ASSUME NEW j, NEW p, Visible(j, p) PROVE Visible(j, p)'
  BY <1>1, <1>4, Zenon DEF Visible, Owner
<1>5. \A p \in Paths : (link[p] # Nil => Visible(link[p], p))'
  BY <1>1, <1>4, Zenon DEF ReadInv
<1>6. Partial(Path(r))' <=> Partial(Path(r))
  BY <1>1, Zenon DEF Partial
<1>7. CASE Len(got[r]) < foff[r] /\ Len(got[r]) < Len(data[i])
  <2>1. /\ got' = [got EXCEPT ![r] = Append(got[r], data[i][Len(got[r]) + 1])]
        /\ UNCHANGED <<pc, ino>>
    BY <1>7, <1>3, <1>t DEF GetSend
  <2>2. data[i][Len(got[r]) + 1] \in Blocks
    BY <1>3, <1>7
  <2>3. got'[r] = Append(got[r], data[i][Len(got[r]) + 1])
    BY <1>t, <2>1, Zenon
  <2>4. got' \in [Reqs -> Seq(Blocks)] /\ \A q \in Reqs \ {r} : got'[q] = got[q]
    BY <1>3, <1>t, <2>1, <2>2
  <2>5. ReadLocal(r)
    BY <1>1, <2>1, <2>4, Zenon DEF ReadLocal, ReadInv
  <2>6. Visible(ino[r], Path(r))'
    BY <1>2, <1>4, <2>1, Zenon
  <2>7. CASE ~Partial(Path(r))
    <3>1. /\ foff[r] = Len(data[i]) /\ Len(got[r]) <= foff[r]
          /\ \A k \in 1 .. Len(got[r]) : got[r][k] = data[i][k]
      BY <1>1, <1>2, <2>7, Zenon DEF Reading
    <3>2. /\ Len(got'[r]) <= foff[r]
          /\ \A k \in 1 .. Len(got'[r]) : got'[r][k] = data[i][k]
      <4>. HIDE DEF i
      <4>1. Len(got'[r]) = Len(got[r]) + 1
        BY <1>3, <2>2, <2>3, Prefixed
      <4>2. \A k \in 1 .. Len(got[r]) + 1 : got'[r][k] = data[i][k]
        BY <1>3, <1>7, <2>3, <3>1, Prefixed
      <4>. QED
        BY <1>3, <1>7, <1>t, <4>1, <4>2
    <3>3. Reading(r)'
      <4>1. /\ foff'[r] = Len(data'[ino'[r]]) /\ Len(got'[r]) <= foff'[r]
            /\ \A k \in 1 .. Len(got'[r]) : got'[r][k] = data'[ino'[r]][k]
        BY <1>1, <2>1, <3>1, <3>2, Zenon
      <4>. QED
        BY <1>1, <2>1, <2>6, <4>1, Zenon DEF Reading
    <3>. QED
      BY <1>1, <1>5, <2>1, <2>5, <3>3, ReadFrame, Zenon DEF OneFile
  <2>8. CASE Partial(Path(r))
    BY <1>1, <1>5, <1>6, <2>1, <2>5, <2>6, <2>8, ReadFrame, Zenon DEF Reading, OneFile
  <2>. QED
    BY <2>7, <2>8, Zenon
<1>8. CASE Len(got[r]) = foff[r] \/ Len(got[r]) >= Len(data[i])
  <2>1. CASE Len(got[r]) < foff[r] /\ Len(got[r]) < Len(data[i])
    BY <1>7, <2>1, Zenon
  <2>2. CASE ~(Len(got[r]) < foff[r] /\ Len(got[r]) < Len(data[i]))
    <3>1. /\ ino' = [ino EXCEPT ![r] = Nil] /\ pc' = [pc EXCEPT ![r] = "done"] /\ got' = got
      BY <2>2, Zenon DEF GetSend
    <3>2. ReadLocal(r)
      BY <1>1, <1>t, <3>1, Zenon DEF ReadLocal, ReadInv
    <3>3. pc'[r] = "done"
      BY <1>t, <3>1, Zenon
    <3>4. Reading(r)'
      BY <3>3, Zenon DEF Reading
    <3>5. ASSUME ~Partial(Path(r)) PROVE got[r] = data[i]
      <4>1. /\ foff[r] = Len(data[i]) /\ Len(got[r]) <= foff[r]
            /\ \A k \in 1 .. Len(got[r]) : got[r][k] = data[i][k]
        BY <1>1, <1>2, <3>5, Zenon DEF Reading
      <4>2. Len(got[r]) = Len(data[i])
        BY <1>8, <1>3, <1>t, <4>1
      <4>. QED
        BY <1>3, <4>1, <4>2, SameBlocks, Zenon
    <3>6. OneFile(r)'
      <4>1. CASE Partial(Path(r))
        BY <1>6, <4>1, Zenon DEF OneFile
      <4>2. CASE ~Partial(Path(r))
        BY <1>1, <1>2, <3>1, <3>5, <4>2, WholeFile DEF OneFile
      <4>. QED
        BY <4>1, <4>2, Zenon
    <3>. QED
      BY <1>5, <3>2, <3>4, <3>6, ReadFrame, Zenon
  <2>. QED
    BY <2>1, <2>2, Zenon
<1>. QED
  BY <1>7, <1>8, Zenon DEF GetSend

\* The death of a process, and steps that change nothing.
LEMMA CrashReads ==
    ASSUME StoreInv, ReadInv, UNCHANGED <<link, data, sent, foff, code, got, applied>>,
           \A r \in Reqs : pc'[r] = "lost" \/ (pc'[r] = pc[r] /\ ino'[r] = ino[r])
    PROVE  ReadInv'
<1>1. \A p : Partial(p)' <=> Partial(p)
  BY Zenon DEF Partial
<1>2. ASSUME NEW i, NEW p, Visible(i, p) PROVE Visible(i, p)'
  BY <1>2, Zenon DEF Visible, Owner
<1>3. ASSUME NEW i \in Inodes PROVE Settled(i)' \/ Partial(Owner(i))'
  <2>1. CASE Settled(i)
    BY <2>1, Zenon DEF Settled
  <2>2. CASE Partial(Owner(i))
    BY <1>1, <2>2, Zenon DEF Owner
  <2>. QED
    BY <2>1, <2>2, Zenon DEF ReadInv
<1>4. ASSUME NEW r \in Reqs PROVE Reading(r)' /\ OneFile(r)'
  <2>1. CASE pc'[r] = "lost"
    BY <2>1, Zenon DEF Reading, OneFile
  <2>2. CASE pc'[r] = pc[r] /\ ino'[r] = ino[r]
    <3>1. Reading(r) /\ OneFile(r)
      BY Zenon DEF ReadInv, ReadWhole
    <3>2. Reading(r)'
      BY <1>1, <1>2, <2>2, <3>1, Zenon DEF Reading
    <3>3. OneFile(r)'
      BY <1>1, <2>2, <3>1, Zenon DEF OneFile
    <3>. QED
      BY <3>2, <3>3, Zenon
  <2>. QED
    BY <2>1, <2>2, Zenon
<1>5. \A r \in Reqs : pc'[r] \notin {"idle", "lost"} => sent'[r]
  BY Zenon DEF ReadInv
<1>6. \A p \in Paths : (link[p] # Nil => Visible(link[p], p))'
  BY <1>2, Zenon DEF ReadInv
<1>. QED
  BY <1>3, <1>4, <1>5, <1>6, Zenon DEF ReadInv, ReadWhole

LEMMA InitReads == Init => ReadInv
<1>. SUFFICES ASSUME Init PROVE ReadInv
  OBVIOUS
<1>1. /\ \A r \in Reqs : pc[r] = "idle" /\ got[r] = <<>>
      /\ got \in [Reqs -> Seq(Blocks)] /\ applied = {}
  BY DEF Init
<1>2. ASSUME NEW p \in Paths, link[p] # Nil PROVE Visible(link[p], p)
  <2>1. link[p] = p /\ Initial[p] # Missing
    BY <1>2 DEF Init, Names
  <2>2. p \notin Reqs
    BY StoreAssumption, Zenon
  <2>. QED
    BY <2>1, <2>2, Zenon DEF Visible, Owner, Inodes
<1>3. ASSUME NEW i \in Inodes PROVE Settled(i)
  <2>1. CASE i \in Paths
    BY <2>1, Zenon DEF Init, Settled, Inodes
  <2>2. CASE i \notin Paths
    BY <1>1, <2>2, Zenon DEF Settled
  <2>. QED
    BY <2>1, <2>2, Zenon
<1>4. ASSUME NEW r \in Reqs PROVE Reading(r) /\ OneFile(r)
  BY <1>1, Zenon DEF Reading, OneFile
<1>. QED
  BY <1>1, <1>2, <1>3, <1>4, Zenon DEF ReadInv, ReadWhole

LEMMA StepReads == StoreInv /\ ReadInv /\ [Next]_vars => ReadInv'
<1>. SUFFICES ASSUME StoreInv, ReadInv, [Next]_vars PROVE ReadInv'
  OBVIOUS
<1>1. ASSUME NEW r \in Reqs, Step(r) PROVE ReadInv'
  <2>0. sent[r]
    BY <1>1, WasSent, Zenon
  <2>1. CASE Opened(r) \/ Write(r) \/ Commit(r) \/ GetSend(r) \/ \E q : GetOpen(r, q)
    BY <2>0, <2>1, OpenedReads, WriteReads, CommitReads, GetOpenReads, GetSendReads, Zenon
  <2>2. CASE ReadStill(r)
    BY <2>0, <2>2, ReadQuiet, Zenon
  <2>3. CASE Put(r)
    BY <2>1, <2>2, <2>3, UploadStill, AnswerStill, ZenonT(40) DEF Put
  <2>4. CASE Other(r) \/ Reply(r) \/ \E q \in Procs, c \in {400, 403, 405} : Refuse(r, q, c)
    BY <2>1, <2>2, <2>4, UploadStill, AnswerStill, ZenonT(40) DEF Other
  <2>. QED
    BY <1>1, <2>3, <2>4, Zenon DEF Step
<1>2. ASSUME NEW q \in Procs, Crash(q) PROVE ReadInv'
  <2>1. UNCHANGED <<link, data, sent, foff, code, got, applied>>
    BY <1>2, Zenon DEF Crash, fsVars
  <2>2. \A r \in Reqs : pc'[r] = "lost" \/ (pc'[r] = pc[r] /\ ino'[r] = ino[r])
    BY <1>2, Zenon DEF Crash
  <2>. QED
    BY <2>1, <2>2, CrashReads, Zenon
<1>3. CASE Ended \/ UNCHANGED vars
  <2>1. UNCHANGED <<link, data, sent, foff, code, got, applied, pc, ino>>
    BY <1>3, Zenon DEF Ended, vars, fsVars, tryVars
  <2>. QED
    BY <2>1, CrashReads, Zenon
<1>. QED
  BY <1>1, <1>2, <1>3, Zenon DEF Next

\* A GET gets one file, whole, whatever becomes of its path while it is being
\* sent (mog_http_get_open, set_perms_commit, mog_http_delete).
THEOREM ReadWholeAlways == Spec => []ReadWhole
<1>1. ReadInv => ReadWhole
  BY DEF ReadInv
<1>. QED
  BY <1>1, InitReads, StepReads, Invariance, PTL DEF Spec

\* The three parts of the inductive invariant together: files, directories and
\* answers, and what is read agree, at every step of open_put, mog_mkpath_for,
\* mog_http_write_full, put_commit_resp, file_close_null and mog_http_get_open.
THEOREM FullInvariance == Spec => []IInv
<1>1. StoreInv /\ ErrorInv /\ ReadInv => IInv
  BY DEF IInv
<1>. QED
  BY <1>1, InitErrors, StepErrors, InitReads, StepReads, Invariance, PTL DEF Spec
=============================================================================
