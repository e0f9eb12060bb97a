---------------------------- MODULE MCPartition ----------------------------
(***************************************************************************)
(* Checks Partition on every file of NumElements values of Elem and every  *)
(* region of at least two elements in it.                                  *)
(***************************************************************************)
EXTENDS Partition

MCElem == 1 .. 3
=============================================================================
