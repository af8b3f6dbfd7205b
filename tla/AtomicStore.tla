----------------------------- MODULE AtomicStore -----------------------------
(***************************************************************************)
(* What the HTTP side of the server promises of the files it keeps: a PUT  *)
(* replaces the file at its path in one step, and a DELETE removes it in   *)
(* one step; a request that is answered with success has taken effect, one *)
(* that is answered with an error never does, and none takes effect twice. *)
(* A request whose client or server is gone may or may not have.           *)
(*                                                                         *)
(* A PUT with a Content-Range makes no such promise ("we can't do an       *)
(* atomic rename(2) on successful PUT if we have a partial upload",        *)
(* http_put.c): its blocks appear one by one.  Nobody else's do.           *)
(***************************************************************************)
EXTENDS Integers, Sequences

CONSTANTS
    Paths,
    Reqs,        \* requests
    Request,     \* what each of them asks for
    Initial,     \* the files there are at first
    Missing,     \* no file
    Hole         \* a block that nobody has written

VARIABLES
    store,       \* the file at each path
    applied,     \* requests that have taken effect
    answer       \* "none", "ok" or "error", for each request

storeVars == <<store, applied, answer>>

\* The body of a request; block k of it is like no other block.
Body(r) == [k \in 1 .. Request[r].size |-> <<r, k>>]

\* The file f with block b at position n (from 1).
Overlay(f, n, b) ==
    [i \in 1 .. (IF n > Len(f) THEN n ELSE Len(f)) |->
        IF i = n THEN b ELSE IF i <= Len(f) THEN f[i] ELSE Hole]

Init ==
    /\ store = Initial
    /\ applied = {}
    /\ answer = [r \in Reqs |-> "none"]

Pending(r, method) ==
    /\ Request[r].method = method
    /\ r \notin applied
    /\ answer[r] = "none"

Replace(r) ==
    /\ Pending(r, "PUT")
    /\ store' = [store EXCEPT ![Request[r].path] = Body(r)]
    /\ applied' = applied \cup {r}
    /\ UNCHANGED answer

Remove(r) ==
    /\ Pending(r, "DELETE")
    /\ store[Request[r].path] # Missing
    /\ store' = [store EXCEPT ![Request[r].path] = Missing]
    /\ applied' = applied \cup {r}
    /\ UNCHANGED answer

\* A partial upload creates the file if there is none, and patches it.
Create(r) ==
    /\ Pending(r, "RANGE")
    /\ store[Request[r].path] = Missing
    /\ store' = [store EXCEPT ![Request[r].path] = <<>>]
    /\ UNCHANGED <<applied, answer>>

Patch(r, k) ==
    /\ Pending(r, "RANGE")
    /\ store[Request[r].path] # Missing
    /\ store' = [store EXCEPT ![Request[r].path] =
                    Overlay(@, Request[r].beg + k, <<r, k>>)]
    /\ UNCHANGED <<applied, answer>>

\* ... and is done when all of it has been written.
Patched(r) ==
    /\ Pending(r, "RANGE")
    /\ applied' = applied \cup {r}
    /\ UNCHANGED <<store, answer>>

Answer(r) ==
    /\ answer[r] = "none"
    /\ \E a \in {"ok", "error"} :
           /\ answer' = [answer EXCEPT ![r] = a]
           /\ Request[r].method # "GET" => (a = "ok" <=> r \in applied)
    /\ UNCHANGED <<store, applied>>

Next ==
    \E r \in Reqs :
        \/ Replace(r) \/ Remove(r) \/ Create(r) \/ Patched(r) \/ Answer(r)
        \/ \E k \in 1 .. Request[r].size : Patch(r, k)

Spec == Init /\ [][Next]_storeVars
=============================================================================
