----------------------------- MODULE MCPutStore -----------------------------
(***************************************************************************)
(* A small instance of PutStore.                                           *)
(***************************************************************************)
EXTENDS PutStore, TLC

CONSTANTS p1, p2, p3

Req(method, p, size, beg, end, md5, allowed) ==
    [method |-> method, path |-> p, size |-> size, beg |-> beg, end |-> end,
     md5 |-> md5, allowed |-> allowed]

MCRequest == [
    put    |-> Req("PUT", p1, 2, 0, 0, TRUE, TRUE),
    other  |-> Req("PUT", p1, 0, 0, 0, TRUE, TRUE),
    broken |-> Req("PUT", p1, 1, 0, 0, FALSE, TRUE),
    get    |-> Req("GET", p1, 0, 0, 0, TRUE, TRUE),
    delete |-> Req("DELETE", p1, 0, 0, 0, TRUE, TRUE),
    range  |-> Req("RANGE", p1, 2, 1, 2, TRUE, TRUE),
    first  |-> Req("PUT", p2, 1, 0, 0, TRUE, TRUE),
    twin   |-> Req("PUT", p2, 0, 0, 0, TRUE, TRUE),
    beyond |-> Req("RANGE", p2, 1, 1, 1, TRUE, TRUE),
    length |-> Req("RANGE", p2, 1, 1, 2, TRUE, TRUE),
    nodev  |-> Req("PUT", p3, 1, 0, 0, TRUE, TRUE),
    ro     |-> Req("DELETE", p3, 0, 0, 0, TRUE, FALSE) ]

\* Two uploads of one file, also with a wrong MD5; an upload, a removal and a
\* reader; a partial upload in place, with a reader, and with a removal under
\* it; uploads that create the same directories; what is refused.
MCScenarios == {
    {"put", "other"},
    {"other", "broken"},
    {"put", "delete", "get"},
    {"range", "other"},
    {"range", "get"},
    {"range", "delete"},
    {"first", "twin"},
    {"twin", "beyond"},
    {"length", "nodev", "ro"} }

\* p1 is there; p2 is in a directory that is not; p3 is on a missing device.
MCInitial == (p1 :> << <<p1, 1>>, <<p1, 2>> >>) @@ (p2 :> Missing) @@ (p3 :> Missing)
MCDirs == (p1 :> <<"dev1">>) @@ (p2 :> <<"dev1", "dev1/0", "dev1/0/000">>)
              @@ (p3 :> <<"dev2", "dev2/0">>)

Symmetry == Permutations(Procs)
=============================================================================
