---------------------------- MODULE MCFsckQueue ----------------------------
(***************************************************************************)
(* Small instances of FsckQueue.                                           *)
(***************************************************************************)
EXTENDS FsckQueue
=============================================================================
