----------------------------- MODULE Partition -----------------------------
(***************************************************************************)
(* partition() of csf_assign04/parsort.c, one action per iteration branch  *)
(* of its loop.  Indices are unsigned long: right_index is decremented     *)
(* modulo ULONG_MAX + 1, and an index outside the mapped file is an access *)
(* outside the mapping.  Such an access happens only once right_index has  *)
(* wrapped, and from there the scan walks through the address space until  *)
(* it meets an unmapped page: the call ends in SIGSEGV, with whatever      *)
(* foreign values it exchanged with file elements left in the file.  The   *)
(* names are apart from those of ParSort, so that one module can extend    *)
(* both.                                                                   *)
(***************************************************************************)
EXTENDS SortOps

VARIABLES
  file,         \* arr, the mapped file
  start, end,   \* the region, parameters of the call
  left_index, right_index, pivot_val,
  stage,        \* "stash", "loop", "done" (returned left_index), "segv"
  original      \* history: the file when the call was made

partitionVars == <<file, start, end, left_index, right_index, pivot_val, stage, original>>
params == <<start, end, original>>

(* quicksort() calls partition() on regions of at least two elements.      *)
PartitionInit ==
  /\ file \in Files
  /\ original = file
  /\ start \in Index
  /\ end \in (start + 2) .. NumElements
  /\ left_index = 0
  /\ right_index = 0
  /\ pivot_val = file[start]
  /\ stage = "stash"

(* Choose the middle element and move it to the end of the region.         *)
Stash ==
  /\ stage = "stash"
  /\ pivot_val' = file[PivotIndex(start, end)]
  /\ file' = Swap(file, PivotIndex(start, end), end - 1)
  /\ left_index' = start
  /\ right_index' = start + ((end - start) - 2)
  /\ stage' = "loop"
  /\ UNCHANGED params

(* Mutant: the loop stops when the indices meet. *)
LoopingStrictly == stage = "loop" /\ left_index < right_index

Looping == stage = "loop" /\ left_index <= right_index

ExtendLeft ==
  /\ Looping
  /\ left_index \in Index
  /\ file[left_index] < pivot_val
  /\ left_index' = left_index + 1
  /\ UNCHANGED <<file, right_index, pivot_val, stage, params>>

(* Control reaches the tests on arr[right_index] when the left element     *)
(* belongs in the right partition.                                         *)
LeftMisplaced == left_index \in Index /\ file[left_index] >= pivot_val

ExtendRight ==
  /\ Looping
  /\ LeftMisplaced
  /\ right_index \in Index
  /\ file[right_index] >= pivot_val
  /\ right_index' = Dec(right_index)
  /\ UNCHANGED <<file, left_index, pivot_val, stage, params>>

(* Mutant: the left element is exchanged with itself. *)
SwapNothing ==
  /\ Looping
  /\ LeftMisplaced
  /\ right_index \in Index
  /\ file[right_index] < pivot_val
  /\ file' = Swap(file, left_index, left_index)
  /\ UNCHANGED <<left_index, right_index, pivot_val, stage, params>>

SwapMisplaced ==
  /\ Looping
  /\ LeftMisplaced
  /\ right_index \in Index
  /\ file[right_index] < pivot_val
  /\ file' = Swap(file, left_index, right_index)
  /\ UNCHANGED <<left_index, right_index, pivot_val, stage, params>>

LeaveFile ==
  /\ Looping
  /\ \/ left_index \notin Index
     \/ LeftMisplaced /\ right_index \notin Index
  /\ file' \in Files
  /\ stage' = "segv"
  /\ UNCHANGED <<left_index, right_index, pivot_val, params>>

(* Mutant: the pivot is placed at the end of the left partition. *)
PlaceLeft ==
  /\ stage = "loop"
  /\ ~Looping
  /\ file' = Swap(file, right_index, end - 1)
  /\ stage' = "done"
  /\ UNCHANGED <<left_index, right_index, pivot_val, params>>

Place ==
  /\ stage = "loop"
  /\ ~Looping
  /\ file' = Swap(file, left_index, end - 1)
  /\ stage' = "done"
  /\ UNCHANGED <<left_index, right_index, pivot_val, params>>

PartitionNext ==
  \/ Stash
  \/ ExtendLeft
  \/ ExtendRight
  \/ SwapMisplaced
  \/ LeaveFile
  \/ Place

PartitionSpec == PartitionInit /\ [][PartitionNext]_partitionVars

(* A call runs on its own until it returns or is killed.                   *)
PartitionFairSpec == PartitionSpec /\ WF_partitionVars(PartitionNext)

-----------------------------------------------------------------------------
PartitionTypeOK ==
  /\ file \in Files
  /\ original \in Files
  /\ start \in Index
  /\ end \in (start + 2) .. NumElements
  /\ left_index \in 0 .. NumElements
  /\ right_index \in 0 .. ULONG_MAX
  /\ pivot_val \in Elem
  /\ stage \in {"stash", "loop", "done", "segv"}

(* The loop invariant: both partitions built so far are right, and they    *)
(* never overlap by more than the point where the scan stops.              *)
LoopInv ==
  stage = "loop" =>
    /\ file[end - 1] = pivot_val
    /\ left_index \in start .. (end - 1)
    /\ \A i \in start .. (left_index - 1) : file[i] < pivot_val
    /\ \/ /\ right_index \in Index
          /\ right_index <= end - 2
          /\ left_index <= right_index + 1
          /\ \A i \in (right_index + 1) .. (end - 2) : file[i] >= pivot_val
       \/ /\ right_index = ULONG_MAX
          /\ start = 0 /\ left_index = 0
          /\ \A i \in Region(start, end - 1) : file[i] >= pivot_val

(* Whatever point the loop is at, the file holds the elements it held at   *)
(* the call, and none outside the region has moved.                        *)
KeepsElements == stage # "segv" => file \in Rearrangements(original, start, end)

(* parsort.c:114-118: the call returns the position of the pivot, smaller  *)
(* elements before it, the others after it.                                *)
ReturnsPartition ==
  stage = "done" => <<file, left_index>> \in PartitionResults(original, start, end)

(* The call leaves the mapping only for a region at index 0 none of whose  *)
(* elements is smaller than the pivot, and never returns from such a call. *)
UnderflowExact ==
  /\ stage = "segv" => NoSmallerElement(original, start, end)
  /\ stage = "done" => ~NoSmallerElement(original, start, end)

(* The call always ends: no element is scanned twice.                      *)
CallEnds == <>(stage \in {"done", "segv"})
=============================================================================
