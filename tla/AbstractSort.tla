---------------------------- MODULE AbstractSort ----------------------------
(***************************************************************************)
(* What csf_assign04/parsort promises whoever runs it: the elements of the *)
(* mapped file are only moved about, and exit status 0 is reported of a    *)
(* sorted file that nothing touches any more.  A sort that met a failure   *)
(* promises nothing about the file and never reports success.              *)
(***************************************************************************)
EXTENDS SortOps

VARIABLES
  arr,     \* the mapped file
  outcome  \* "running", "doomed" (met a failure), "ok" (exit status 0), "failed"

vars == <<arr, outcome>>

Init == arr \in Files /\ outcome = "running"

Rearrange ==
  /\ outcome = "running"
  /\ arr' \in Rearrangements(arr, 0, NumElements)
  /\ UNCHANGED outcome

(* A file that main sorts on its own is sorted and reported in one step.   *)
Succeed ==
  /\ outcome = "running"
  /\ arr' \in Rearrangements(arr, 0, NumElements)
  /\ SortedRegion(arr', 0, NumElements)
  /\ outcome' = "ok"

Doom ==
  /\ outcome = "running"
  /\ arr' \in Files
  /\ outcome' = "doomed"

Fail ==
  /\ outcome \in {"running", "doomed"}
  /\ arr' \in Files
  /\ outcome' = "failed"

(* Processes left behind by a failing sort may still write to the file.    *)
Damage ==
  /\ outcome \in {"doomed", "failed"}
  /\ arr' \in Files
  /\ UNCHANGED outcome

Next == Rearrange \/ Succeed \/ Doom \/ Fail \/ Damage

Spec == Init /\ [][Next]_vars
=============================================================================
