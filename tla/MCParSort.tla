----------------------------- MODULE MCParSort -----------------------------
(***************************************************************************)
(* Checks ParSort on every file of NumElements values of Elem: the process *)
(* tree is up to NumElements levels deep.                                  *)
(***************************************************************************)
EXTENDS ParSort

MCElem == 1 .. 3
MCThresholds == {0, 2, 4}
=============================================================================
