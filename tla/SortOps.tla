------------------------------ MODULE SortOps ------------------------------
(***************************************************************************)
(* The mapped file of csf_assign04/parsort.c and the data operations on    *)
(* it: element exchange, pivot choice, what one call of partition() or     *)
(* qsort() may leave behind.  A region is named as the code names it, by   *)
(* an inclusive start and an exclusive end.                                *)
(***************************************************************************)
EXTENDS Integers, Functions

CONSTANTS
  NumElements, \* number of int64_t elements in the mapped file
  Elem,        \* the element values
  ULONG_MAX    \* largest unsigned long; array indices are computed modulo it

(* The byte offset of every element fits an unsigned long, so an element   *)
(* index is far below ULONG_MAX.                                           *)
ASSUME SortAssumption ==
  /\ NumElements \in Nat
  /\ Elem \subseteq Int
  /\ ULONG_MAX \in Nat
  /\ NumElements < ULONG_MAX

Index == 0 .. (NumElements - 1)
Region(start, end) == start .. (end - 1)
Files == [Index -> Elem]

(* --right_index on an unsigned long. *)
Dec(i) == IF i = 0 THEN ULONG_MAX ELSE i - 1

(* Mutant: swap() without its temporary. *)
SwapLosing(arr, i, j) == [arr EXCEPT ![i] = arr[j]]

Swap(arr, i, j) == [arr EXCEPT ![i] = arr[j], ![j] = arr[i]]

PivotIndex(start, end) == start + ((end - start) \div 2)

SortedRegion(arr, start, end) ==
  \A i, j \in Region(start, end) : i <= j => arr[i] <= arr[j]

(* The files that differ from arr by a permutation of one region's         *)
(* elements; everything outside the region is as it was.                   *)
Permuted(arr, start, end, f) ==
  [i \in Index |-> IF i \in Region(start, end) THEN arr[f[i]] ELSE arr[i]]
Rearrangements(arr, start, end) ==
  { Permuted(arr, start, end, f) :
      f \in Bijection(Region(start, end), Region(start, end)) }

-----------------------------------------------------------------------------
(* The pivot value sits at mid, what is before it in the region is         *)
(* smaller, what is after it is not.                                       *)
Partitioned(arr, start, end, mid, pivot_val) ==
  /\ arr[mid] = pivot_val
  /\ \A i \in start .. (mid - 1) : arr[i] < pivot_val
  /\ \A i \in (mid + 1) .. (end - 1) : arr[i] >= pivot_val

(* The pivot is a minimum of a region that begins at index 0: no element   *)
(* stops the leftward scan of partition() before it passes index 0.        *)
NoSmallerElement(arr, start, end) ==
  /\ start = 0
  /\ \A i \in Region(start, end) : arr[i] >= arr[PivotIndex(start, end)]

(* What partition( arr, start, end ) promises: result file and pivot       *)
(* position, the documented return value.                                  *)
PartitionResults(arr, start, end) ==
  { r \in Rearrangements(arr, start, end) \X Region(start, end) :
      Partitioned(r[1], start, end, r[2], arr[PivotIndex(start, end)]) }

(* Mutant: compare() gives qsort() no consistent order. *)
QsortUnordered(arr, start, end) == Rearrangements(arr, start, end)

(* qsort( arr + start, len, sizeof(int64_t), compare ) of the C library.   *)
QsortResults(arr, start, end) ==
  { b \in Rearrangements(arr, start, end) : SortedRegion(b, start, end) }
=============================================================================
