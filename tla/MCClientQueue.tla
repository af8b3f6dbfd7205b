--------------------------- MODULE MCClientQueue ---------------------------
(***************************************************************************)
(* Small instances of ClientQueue: one mgmt and one http acceptor.         *)
(***************************************************************************)
EXTENDS ClientQueue, TLC

CONSTANTS acMgmt, acHttp

MCPostAccept == [a \in Acceptors |-> IF a = acMgmt THEN "MGMT" ELSE "HTTP"]

Symmetry == Permutations(FDs) \cup Permutations(Conns) \cup Permutations(Workers)
=============================================================================
