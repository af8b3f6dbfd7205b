------------------------------ MODULE MCFdMap ------------------------------
(***************************************************************************)
(* Small instances of FdMap: two HTTP connections and a file.              *)
(***************************************************************************)
EXTENDS FdMap

CONSTANTS h1, h2, file

MCKindOf == [o \in Objs |-> IF o = file THEN "FILE" ELSE "HTTP"]
=============================================================================
