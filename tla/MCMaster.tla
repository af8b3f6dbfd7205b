------------------------------ MODULE MCMaster ------------------------------
(***************************************************************************)
(* Small instances of Master.                                              *)
(***************************************************************************)
EXTENDS Master

Scenario(nworkers, upgrades, faults, overlap, startfail) ==
    [nworkers |-> nworkers, upgrades |-> upgrades, faults |-> faults, forks |-> 1,
     notes |-> 0, overlap |-> overlap, startfail |-> startfail]

\* A pool that is resized from its threads, in one process and in a worker;
\* without workers, three generations of servers; with one worker, an upgrade;
\* with two, deaths of both.
MCScenarios ==
    { [Scenario(n, 0, 0, FALSE, FALSE) EXCEPT !.notes = 2] : n \in 0 .. 1 } \cup
    { Scenario(0, 2, 1, o, FALSE) : o \in BOOLEAN } \cup
    { Scenario(1, 1, 1, TRUE, FALSE) } \cup
    { Scenario(2, 0, 2, FALSE, s) : s \in BOOLEAN }
=============================================================================
