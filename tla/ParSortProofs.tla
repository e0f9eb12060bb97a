--------------------------- MODULE ParSortProofs ---------------------------
(***************************************************************************)
(* Theorems about Partition and ParSort for every size of the file, every  *)
(* element set and word size, every threshold and every number of          *)
(* failures.  First partition(): its inductive invariant adds to the       *)
(* properties TLC checks what ties the local variables to the file of the  *)
(* call, namely which element is the pivot.  Then the process tree: the    *)
(* regions of the processes started so far form a tree: two of them are    *)
(* apart, or one lies under a child of the other.  What a process reports  *)
(* when it returns then speaks of all processes whose regions lie inside   *)
(* its own.                                                                *)
(***************************************************************************)
EXTENDS Partition, ParSort, FiniteSetTheorems, TLAPS

(* A file is a rearrangement of itself.                                    *)
LEMMA RearrangeNothing ==
  ASSUME NEW a \in Files, NEW s \in Nat, NEW e \in Nat, e <= NumElements
  PROVE  a \in Rearrangements(a, s, e)
<1> DEFINE R == Region(s, e)
           f == [i \in R |-> i]
<1>1. f \in Bijection(R, R)
  BY DEF Bijection, Injection, Surjection, IsInjective
<1>2. Permuted(a, s, e, f) = a
  BY DEF Permuted, Files
<1> QED
  BY <1>1, <1>2 DEF Rearrangements

(* A rearrangement is a file; what its region holds is what the original's *)
(* region held, in both directions.                                        *)
LEMMA RearrangeElements ==
  ASSUME NumElements \in Nat,
         NEW a \in Files, NEW s \in Nat, NEW e \in Nat, e <= NumElements,
         NEW b \in Rearrangements(a, s, e)
  PROVE  /\ b \in Files
         /\ \A i \in Region(s, e) : \E k \in Region(s, e) : b[i] = a[k]
         /\ \A k \in Region(s, e) : \E i \in Region(s, e) : b[i] = a[k]
<1> DEFINE R == Region(s, e)
<1>1. PICK f \in Bijection(R, R) : b = Permuted(a, s, e, f)
  BY DEF Rearrangements
<1>2. f \in [R -> R] /\ (\A y \in R : \E x \in R : f[x] = y)
  BY <1>1 DEF Bijection, Injection, Surjection, IsInjective
<1>3. R \subseteq Index
  BY DEF Region, Index
<1>4. b \in Files
  BY <1>1, <1>2, <1>3 DEF Permuted, Files
<1>5. \A i \in R : b[i] = a[f[i]]
  BY <1>1, <1>3 DEF Permuted
<1> QED
  BY <1>2, <1>4, <1>5

(* Exchanging two elements of the region of a rearrangement gives another  *)
(* rearrangement.                                                          *)
LEMMA RearrangeSwap ==
  ASSUME NumElements \in Nat,
         NEW a \in Files, NEW s \in Nat, NEW e \in Nat, e <= NumElements,
         NEW b \in Rearrangements(a, s, e),
         NEW i \in Region(s, e), NEW j \in Region(s, e)
  PROVE  Swap(b, i, j) \in Rearrangements(a, s, e)
<1> DEFINE R == Region(s, e)
<1>1. PICK f \in Bijection(R, R) : b = Permuted(a, s, e, f)
  BY DEF Rearrangements
<1>2. f \in [R -> R] /\ (\A x, y \in R : f[x] = f[y] => x = y)
                     /\ (\A y \in R : \E x \in R : f[x] = y)
  BY <1>1 DEF Bijection, Injection, Surjection, IsInjective
<1> DEFINE g == [k \in R |-> IF k = i THEN f[j] ELSE IF k = j THEN f[i] ELSE f[k]]
<1>3. g \in Bijection(R, R)
  <2>1. g \in [R -> R] /\ (\A x, y \in R : g[x] = g[y] => x = y)
    BY <1>2
  <2>2. \A y \in R : \E x \in R : g[x] = y
    <3> SUFFICES ASSUME NEW y \in R PROVE \E x \in R : g[x] = y
      OBVIOUS
    <3>1. PICK x \in R : f[x] = y
      BY <1>2
    <3> QED
      BY <3>1
  <2> QED
    BY <2>1, <2>2 DEF Bijection, Injection, Surjection, IsInjective
<1>4. R \subseteq Index
  BY DEF Region, Index
<1>5. Swap(b, i, j) = Permuted(a, s, e, g)
  BY <1>1, <1>2, <1>4 DEF Swap, Permuted
<1> QED
  BY <1>3, <1>5 DEF Rearrangements

-----------------------------------------------------------------------------
(* The loop of partition().                                                *)

(* Before the stash nothing has moved; after it the pivot value is the     *)
(* middle element of the file partition() was called on.                   *)
PivotInv ==
  /\ stage = "stash" => file = original
  /\ stage # "stash" => pivot_val = original[PivotIndex(start, end)]

PartitionInv ==
  /\ PartitionTypeOK
  /\ PivotInv
  /\ LoopInv
  /\ KeepsElements
  /\ ReturnsPartition
  /\ UnderflowExact

(* The stash and every exchange of the loop stay inside the region.        *)
LEMMA PartitionInitInv == PartitionInit => PartitionInv
<1> SUFFICES ASSUME PartitionInit PROVE PartitionInv
  OBVIOUS
<1> USE SortAssumption
<1>1. PartitionTypeOK
  BY DEF PartitionInit, PartitionTypeOK, Files, Index
<1>2. file \in Rearrangements(original, start, end)
  BY <1>1, RearrangeNothing DEF PartitionInit, PartitionTypeOK, Index
<1> QED
  BY <1>1, <1>2 DEF PartitionInit, PartitionInv, PivotInv, LoopInv, KeepsElements,
                    ReturnsPartition, UnderflowExact

(* Each step of the call preserves the inductive invariant.                *)
LEMMA PartitionStepInv == PartitionInv /\ [PartitionNext]_partitionVars => PartitionInv'
<1> SUFFICES ASSUME PartitionInv, [PartitionNext]_partitionVars PROVE PartitionInv'
  OBVIOUS
<1> USE SortAssumption
<1>0. /\ PartitionTypeOK /\ PivotInv /\ LoopInv
      /\ start \in Nat /\ end \in Nat /\ end <= NumElements
      /\ start + 2 <= end
      /\ Region(start, end) \subseteq Index
  BY DEF PartitionInv, PartitionTypeOK, Region, Index
<1>1. CASE Stash
  <2>1. /\ PivotIndex(start, end) \in Region(start, end)
        /\ end - 1 \in Region(start, end)
    BY <1>0 DEF PivotIndex, Region
  <2>2. file \in Rearrangements(original, start, end)
    BY <1>1 DEF PartitionInv, KeepsElements, Stash
  <2>3. file' \in Rearrangements(original, start, end)
    BY <1>0, <1>1, <2>1, <2>2, RearrangeSwap DEF Stash, PartitionTypeOK
  <2>4. file' \in Files
    BY <1>0, <2>3, RearrangeElements DEF PartitionTypeOK
  <2>5. PartitionTypeOK'
    BY <1>0, <1>1, <2>1, <2>4 DEF Stash, PartitionTypeOK, params, Index, Files
  <2>6. file'[end - 1] = pivot_val'
    BY <1>0, <1>1, <2>1 DEF Stash, Swap, PartitionTypeOK, Files
  <2>7. LoopInv'
    BY <1>0, <1>1, <2>6 DEF Stash, LoopInv, PartitionTypeOK, params, Index
  <2>8. PivotInv'
    BY <1>1, <1>0 DEF PivotInv, Stash, params
  <2> QED
    BY <1>1, <2>3, <2>5, <2>7, <2>8
       DEF PartitionInv, KeepsElements, ReturnsPartition, UnderflowExact, Stash, params
<1>2. CASE ExtendLeft
  <2>1. PartitionTypeOK'
    BY <1>0, <1>2 DEF ExtendLeft, Looping, PartitionTypeOK, params, Index
  <2>2. LoopInv'
    <3>1. /\ left_index \in Index /\ left_index <= right_index
          /\ file[left_index] < pivot_val /\ file[left_index] \in Int /\ pivot_val \in Int
          /\ left_index' = left_index + 1
          /\ UNCHANGED <<file, start, end, right_index, pivot_val, stage>>
          /\ stage = "loop"
      BY <1>0, <1>2 DEF ExtendLeft, Looping, PartitionTypeOK, params, Files
    <3>2. right_index \in Index
      <4>1. CASE right_index = ULONG_MAX /\ left_index = 0 /\ start = 0
        BY <1>0, <3>1, <4>1 DEF LoopInv, Region, Index
      <4> QED
        BY <1>0, <3>1, <4>1 DEF LoopInv
    <3>3. ULONG_MAX \notin Index
      BY DEF Index
    <3>4. /\ file[end - 1] = pivot_val
          /\ right_index <= end - 2
          /\ \A i \in (right_index + 1) .. (end - 2) : file[i] >= pivot_val
          /\ \A i \in start .. (left_index - 1) : file[i] < pivot_val
          /\ left_index \in start .. (end - 1)
      BY <1>0, <3>1, <3>2, <3>3 DEF LoopInv
    <3>5. /\ left_index' \in start .. (end - 1)
          /\ \A i \in start .. (left_index' - 1) : file[i] < pivot_val
          /\ left_index' <= right_index + 1
      BY <1>0, <3>1, <3>2, <3>4 DEF Index
    <3> QED
      BY <3>1, <3>2, <3>4, <3>5 DEF LoopInv
  <2> QED
    BY <1>0, <1>2, <2>1, <2>2
       DEF PartitionInv, PivotInv, KeepsElements, ReturnsPartition, UnderflowExact,
           ExtendLeft, Looping, params
<1>3. CASE ExtendRight
  <2>1. PartitionTypeOK'
    BY <1>0, <1>3 DEF ExtendRight, Looping, PartitionTypeOK, params, Index, Dec
  <2>2. LoopInv'
    BY <1>0, <1>3 DEF ExtendRight, Looping, LeftMisplaced, LoopInv, PartitionTypeOK, params,
                      Index, Region, Files, Dec
  <2> QED
    BY <1>0, <1>3, <2>1, <2>2
       DEF PartitionInv, PivotInv, KeepsElements, ReturnsPartition, UnderflowExact,
           ExtendRight, Looping, params
<1>4. CASE SwapMisplaced
  <2>1. /\ left_index \in Region(start, end - 1)
        /\ right_index \in Region(start, end - 1)
        /\ left_index < right_index
    <3>1. /\ left_index \in Index /\ right_index \in Index
          /\ left_index <= right_index
          /\ file[left_index] >= pivot_val /\ file[right_index] < pivot_val
          /\ file[left_index] \in Int /\ file[right_index] \in Int /\ pivot_val \in Int
      BY <1>0, <1>4 DEF SwapMisplaced, Looping, LeftMisplaced, PartitionTypeOK, Files
    <3>2. left_index # right_index
      BY <3>1
    <3>3. left_index >= start /\ right_index <= end - 2
      BY <1>0, <1>4, <3>1 DEF SwapMisplaced, Looping, LoopInv, Index
    <3> QED
      BY <1>0, <3>1, <3>2, <3>3 DEF Index, Region
  <2>2. file \in Rearrangements(original, start, end)
    BY <1>4 DEF PartitionInv, KeepsElements, SwapMisplaced, Looping
  <2>3. file' \in Rearrangements(original, start, end)
    BY <1>0, <1>4, <2>1, <2>2, RearrangeSwap DEF SwapMisplaced, PartitionTypeOK, Region
  <2>4. file' \in Files
    BY <1>0, <2>3, RearrangeElements DEF PartitionTypeOK
  <2>5. PartitionTypeOK'
    BY <1>0, <1>4, <2>4 DEF SwapMisplaced, Looping, PartitionTypeOK, params
  <2>6. LoopInv'
    BY <1>0, <1>4, <2>1 DEF SwapMisplaced, Looping, LoopInv, PartitionTypeOK, params,
                            Index, Region, Files, Swap
  <2> QED
    BY <1>0, <1>4, <2>3, <2>5, <2>6
       DEF PartitionInv, PivotInv, KeepsElements, ReturnsPartition, UnderflowExact,
           SwapMisplaced, Looping, params
<1>5. CASE LeaveFile
  <2>1. /\ start = 0
        /\ \A i \in Region(start, end) : file[i] >= pivot_val
    BY <1>0, <1>5 DEF LeaveFile, Looping, LeftMisplaced, LoopInv, PartitionTypeOK,
                      Index, Region, Files
  <2>2. file \in Rearrangements(original, start, end)
    BY <1>5 DEF PartitionInv, KeepsElements, LeaveFile, Looping
  <2>3. \A k \in Region(start, end) : original[k] >= pivot_val
    BY <1>0, <2>1, <2>2, RearrangeElements DEF PartitionTypeOK
  <2>4. pivot_val = original[PivotIndex(start, end)]
    BY <1>0, <1>5 DEF PivotInv, LeaveFile, Looping
  <2>5. NoSmallerElement(original, start, end)
    BY <2>1, <2>3, <2>4 DEF NoSmallerElement
  <2>6. PartitionTypeOK'
    BY <1>0, <1>5 DEF LeaveFile, PartitionTypeOK, params
  <2> QED
    BY <1>0, <1>5, <2>4, <2>5, <2>6
       DEF PartitionInv, PivotInv, LoopInv, KeepsElements, ReturnsPartition, UnderflowExact,
           LeaveFile, params
<1>6. CASE Place
  <2>1. /\ right_index \in Index
        /\ left_index = right_index + 1
        /\ left_index \in Region(start, end)
        /\ end - 1 \in Region(start, end)
        /\ \A i \in start .. (left_index - 1) : file[i] < pivot_val
        /\ \A i \in left_index .. (end - 1) : file[i] >= pivot_val
        /\ file[end - 1] = pivot_val
    BY <1>0, <1>6 DEF Place, Looping, LoopInv, PartitionTypeOK, Index, Region, Files
  <2>2. file \in Rearrangements(original, start, end)
    BY <1>6 DEF PartitionInv, KeepsElements, Place
  <2>3. file' \in Rearrangements(original, start, end)
    BY <1>0, <1>6, <2>1, <2>2, RearrangeSwap DEF Place, PartitionTypeOK
  <2>4. file' \in Files
    BY <1>0, <2>3, RearrangeElements DEF PartitionTypeOK
  <2>5. PartitionTypeOK'
    BY <1>0, <1>6, <2>4 DEF Place, PartitionTypeOK, params
  <2>6. pivot_val = original[PivotIndex(start, end)]
    BY <1>0, <1>6 DEF PivotInv, Place
  <2>7. Partitioned(file', start, end, left_index, pivot_val)
    BY <1>0, <1>6, <2>1 DEF Place, Partitioned, Swap, PartitionTypeOK, Files, Region, Index
  <2>8. ReturnsPartition'
    BY <1>6, <2>1, <2>3, <2>6, <2>7 DEF ReturnsPartition, PartitionResults, Place, params
  <2>9. ~NoSmallerElement(original, start, end)
    <3> SUFFICES ASSUME NoSmallerElement(original, start, end) PROVE FALSE
      OBVIOUS
    <3>1. start = 0 /\ 0 \in Region(start, end) /\ file[0] < pivot_val
      BY <1>0, <2>1 DEF NoSmallerElement, Index, Region
    <3>2. PICK k \in Region(start, end) : file[0] = original[k]
      BY <1>0, <2>2, <3>1, RearrangeElements DEF PartitionTypeOK
    <3>3. original[k] >= pivot_val
      BY <2>6 DEF NoSmallerElement
    <3>4. original[k] \in Int /\ pivot_val \in Int
      BY <1>0 DEF PartitionTypeOK, Files
    <3> QED
      BY <3>1, <3>2, <3>3, <3>4
  <2> QED
    BY <1>0, <1>6, <2>3, <2>5, <2>6, <2>8, <2>9
       DEF PartitionInv, PivotInv, LoopInv, KeepsElements, UnderflowExact, Place, params
<1>7. CASE UNCHANGED partitionVars
  BY <1>7 DEF partitionVars, PartitionInv, PartitionTypeOK, PivotInv, LoopInv, KeepsElements,
              ReturnsPartition, UnderflowExact
<1> QED
  BY <1>1, <1>2, <1>3, <1>4, <1>5, <1>6, <1>7 DEF PartitionNext

(* The two indices split the region into what was scanned from either end, *)
(* at every step of the loop, for every file and region.                   *)
THEOREM PartitionInvAlways == PartitionSpec => []PartitionInv
BY PartitionInitInv, PartitionStepInv, PTL DEF PartitionSpec

-----------------------------------------------------------------------------
(* The local variables of partition() stay in range: left_index never      *)
(* passes the end of the file, right_index is an unsigned long.            *)
THEOREM PartitionTypeCorrect == PartitionSpec => []PartitionTypeOK
<1>1. PartitionInv => PartitionTypeOK
  BY DEF PartitionInv
<1> QED
  BY <1>1, PartitionInvAlways, PTL

(* Every call, for every file and region, has only permuted the region, at *)
(* every point of its loop and on return.                                  *)
THEOREM KeepsElementsAlways == PartitionSpec => []KeepsElements
<1>1. PartitionInv => KeepsElements
  BY DEF PartitionInv
<1> QED
  BY <1>1, PartitionInvAlways, PTL

(* parsort.c:114-118 for every file and region: a call of partition() that *)
(* returns has split the region and returns where the pivot is.            *)
THEOREM ReturnsPartitionAlways == PartitionSpec => []ReturnsPartition
<1>1. PartitionInv => ReturnsPartition
  BY DEF PartitionInv
<1> QED
  BY <1>1, PartitionInvAlways, PTL

(* The scan leaves the mapped file exactly for the regions at index 0      *)
(* whose pivot is a minimum: it never faults on any other.                 *)
THEOREM UnderflowExactAlways == PartitionSpec => []UnderflowExact
<1>1. PartitionInv => UnderflowExact
  BY DEF PartitionInv
<1> QED
  BY <1>1, PartitionInvAlways, PTL

-----------------------------------------------------------------------------
(* quicksort(): the tree of processes.                                     *)

Started(p) == pc[p] # "none"
Inside(q, r) == r[1] <= q[1] /\ q[2] <= r[2]
Apart(p, q) == p[2] < q[1] \/ q[2] < p[1]
HasMid(p) == mid[p] \in p[1] .. (p[2] - 1)
Under(q, p) == HasMid(p) /\ (Inside(q, Left(p)) \/ Inside(q, Right(p)))

(* No process has been started in region z.                                *)
Fresh(z) == \A q \in Proc : Started(q) => ~Inside(q, z)

(* What is still to be started below p.                                    *)
FreshBelow(p) ==
  /\ pc[p] = "sort" => \A q \in Proc \ {p} : Started(q) => ~Inside(q, p)
  /\ pc[p] = "fork_left" => Fresh(Left(p)) /\ Fresh(Right(p))
  /\ pc[p] \in {"fork_right", "kill_left", "reap_left"} => Fresh(Right(p))

Related(p, q) == Apart(p, q) \/ Under(q, p) \/ Under(p, q)

Tree ==
  /\ \A p \in Proc : pc[p] \in Running \ {"sort"} => HasMid(p)
  /\ \A p, q \in Proc : (p # q /\ Started(p) /\ Started(q)) => Related(p, q)
  /\ \A p \in Proc : FreshBelow(p)

-----------------------------------------------------------------------------
(* Regions are pairs of integers and are known by them.                    *)
LEMMA Regions ==
  /\ \A p \in Proc : /\ p[1] \in Int /\ p[2] \in Int /\ p[1] \in Nat /\ p[2] \in Nat
                     /\ p[1] <= p[2] /\ p[2] <= NumElements
  /\ \A p, q \in Proc : p # q => p[1] # q[1] \/ p[2] # q[2]
  /\ Main \in Proc /\ \A p \in Proc : Inside(p, Main)
  /\ \A a, b \in 0 .. NumElements : a <= b => <<a, b>> \in Proc
BY SortAssumption DEF Proc, Main, Inside

(* The children's regions are apart and properly inside the parent's.      *)
LEMMA Halves ==
  ASSUME NEW p \in Proc, HasMid(p)
  PROVE  /\ Left(p) \in Proc /\ Right(p) \in Proc
         /\ Left(p)[1] = p[1] /\ Left(p)[2] = mid[p]
         /\ Right(p)[1] = mid[p] + 1 /\ Right(p)[2] = p[2]
         /\ mid[p] \in Int /\ p[1] <= mid[p] /\ mid[p] < p[2]
<1>1. /\ p[1] \in Int /\ p[2] \in Int /\ p[1] \in Nat /\ p[2] \in Nat
      /\ p[1] <= p[2] /\ p[2] <= NumElements
  BY Regions
<1>2. mid[p] \in Int /\ p[1] <= mid[p] /\ mid[p] < p[2]
  BY <1>1 DEF HasMid
<1>3. /\ p[1] \in 0 .. NumElements /\ mid[p] \in 0 .. NumElements
      /\ mid[p] + 1 \in 0 .. NumElements /\ p[2] \in 0 .. NumElements
  BY <1>1, <1>2, SortAssumption
<1>4. <<p[1], mid[p]>> \in Proc /\ <<mid[p] + 1, p[2]>> \in Proc
  BY <1>2, <1>3, Regions
<1> QED
  BY <1>2, <1>4 DEF Left, Right

(* A process that lies under another is inside it and not the other way    *)
(* round.                                                                  *)
LEMMA UnderIsInside ==
  ASSUME NEW p \in Proc, NEW q \in Proc, Under(q, p)
  PROVE  Inside(q, p) /\ ~Inside(p, q) /\ p # q
<1>1. /\ p[1] \in Int /\ p[2] \in Int /\ q[1] \in Int /\ q[2] \in Int
      /\ p[1] <= p[2] /\ q[1] <= q[2]
  BY Regions
<1>2. HasMid(p) /\ (Inside(q, Left(p)) \/ Inside(q, Right(p)))
  BY DEF Under
<1> QED
  BY <1>1, <1>2, Halves DEF Inside

(* Regions apart are not inside each other.                                *)
LEMMA ApartNotInside ==
  ASSUME NEW p \in Proc, NEW q \in Proc, Apart(p, q)
  PROVE  ~Inside(p, q) /\ ~Inside(q, p)
<1>1. /\ p[1] \in Int /\ p[2] \in Int /\ q[1] \in Int /\ q[2] \in Int
      /\ p[1] <= p[2] /\ q[1] <= q[2]
  BY Regions
<1> QED
  BY <1>1 DEF Apart, Inside

(* In a tree, of two started processes only one inside the other lies      *)
(* under it.                                                               *)
LEMMA InsideIsUnder ==
  ASSUME NEW p \in Proc, NEW q \in Proc, p # q, Started(p), Started(q),
         Related(p, q), Inside(q, p)
  PROVE  Under(q, p)
<1>1. ~Apart(p, q)
  BY ApartNotInside
<1>2. ~Under(p, q)
  BY UnderIsInside
<1> QED
  BY <1>1, <1>2 DEF Related

(* The region of a child that is about to be started, seen from any other  *)
(* process: apart, or below it where the parent is.                        *)
LEMMA ChildRelated ==
  ASSUME NEW p \in Proc, NEW q \in Proc, p # q, HasMid(p), Related(p, q),
         NEW c \in {Left(p), Right(p)}, ~Inside(q, c)
  PROVE  Apart(c, q) \/ (Under(p, q) /\ Under(c, q))
<1>1. /\ p[1] \in Int /\ p[2] \in Int /\ q[1] \in Int /\ q[2] \in Int
      /\ p[1] <= p[2] /\ q[1] <= q[2]
  BY Regions
<1>2. CASE Apart(p, q)
  BY <1>1, <1>2, Halves DEF Apart
<1>3. CASE Under(q, p)
  <2>1. Inside(q, Left(p)) \/ Inside(q, Right(p))
    BY <1>3 DEF Under
  <2> QED
    BY <2>1, <1>1, Halves DEF Apart, Inside
<1>4. CASE Under(p, q)
  <2>1. HasMid(q) /\ (Inside(p, Left(q)) \/ Inside(p, Right(q)))
    BY <1>4 DEF Under
  <2>2. c[1] \in Int /\ c[2] \in Int /\ p[1] <= c[1] /\ c[2] <= p[2]
    BY <1>1, Halves
  <2>3. Left(q)[1] \in Int /\ Left(q)[2] \in Int /\ Right(q)[1] \in Int /\ Right(q)[2] \in Int
    BY <2>1, <1>1, Halves
  <2>4. Inside(c, Left(q)) \/ Inside(c, Right(q))
    BY <1>1, <2>1, <2>2, <2>3 DEF Inside
  <2> QED
    BY <1>4, <2>1, <2>4 DEF Under
<1> QED
  BY <1>2, <1>3, <1>4 DEF Related

-----------------------------------------------------------------------------
(* One step of the tree as the others see it: it is the turn of one        *)
(* running process p; any other process stays as it is, or is the child    *)
(* that p forks.                                                           *)
Born(p, c) ==
  /\ pc[c] = "none" /\ pc'[c] = "sort"
  /\ HasMid(p) /\ c \in {Left(p), Right(p)} /\ Fresh(c)
  /\ UNCHANGED mid

Turn(p) ==
  /\ pc[p] \in Running /\ pc'[p] # "none"
  /\ \A q \in Proc \ {p} :
       /\ pc'[q] = pc[q] \/ Born(p, q)
       /\ mid'[q] = mid[q] /\ ret'[q] = ret[q] /\ left_success'[q] = left_success[q]
  /\ mid'[p] = mid[p] \/ pc[p] = "sort"
  /\ reaped \subseteq reaped'

(* The step of a process that starts none.                                 *)
LEMMA TurnAlone ==
  ASSUME TypeOK, NEW p \in Proc, NEW l \in Running \cup {"exited", "signaled"},
         pc[p] \in Running, pc' = [pc EXCEPT ![p] = l],
         \A q \in Proc \ {p} : /\ mid'[q] = mid[q] /\ ret'[q] = ret[q]
                               /\ left_success'[q] = left_success[q],
         mid'[p] = mid[p] \/ pc[p] = "sort",
         reaped \subseteq reaped'
  PROVE  Turn(p)
<1>1. pc'[p] # "none" /\ \A q \in Proc \ {p} : pc'[q] = pc[q]
  BY DEF TypeOK, Running
<1> QED
  BY <1>1 DEF Turn

(* The step of a process that forks one of its children.                   *)
LEMMA TurnForking ==
  ASSUME TypeOK, Tree, NEW p \in Proc, NEW c, NEW l \in Running,
         \/ pc[p] = "fork_left" /\ c = Left(p)
         \/ pc[p] = "fork_right" /\ c = Right(p),
         Spawn(p, c, l), UNCHANGED <<mid, left_success, reaped>>
  PROVE  Turn(p) /\ c \in Proc /\ c # p /\ Born(p, c) /\ pc'[p] = l
<1>1. pc[p] \in Running \ {"sort"}
  BY DEF Running
<1>2. HasMid(p) /\ FreshBelow(p)
  BY <1>1 DEF Tree
<1>3. c \in Proc /\ c # p /\ c \in {Left(p), Right(p)}
  <2>1. /\ p[1] \in Int /\ p[2] \in Int
    BY Regions
  <2> QED
    BY <1>2, <2>1, Halves
<1>4. Fresh(c)
  BY <1>2 DEF FreshBelow
<1>5. Inside(c, c)
  <2>1. c[1] \in Int /\ c[2] \in Int
    BY <1>3, Regions
  <2> QED
    BY <2>1 DEF Inside
<1>6. pc[c] = "none"
  BY <1>3, <1>4, <1>5 DEF Fresh, Started
<1>7. /\ pc' = [pc EXCEPT ![p] = l, ![c] = "sort"] /\ pc \in [Proc -> Running \cup {"none", "exited", "signaled"}]
      /\ UNCHANGED <<mid, left_success, reaped, ret>>
  BY DEF Spawn, TypeOK
<1>8. pc'[c] = "sort" /\ pc'[p] = l /\ \A q \in Proc \ {p, c} : pc'[q] = pc[q]
  BY <1>3, <1>7
<1>9. Born(p, c)
  BY <1>2, <1>3, <1>4, <1>6, <1>7, <1>8 DEF Born
<1>10. l # "none"
  BY DEF Running
<1> QED
  BY <1>1, <1>3, <1>7, <1>8, <1>9, <1>10 DEF Turn

(* Every step is somebody's turn.                                          *)
LEMMA EveryStepIsATurn ==
  ASSUME TypeOK, Tree, NEW p \in Proc, Step(p) \/ Terminate(p) \/ Crash(p)
  PROVE  Turn(p)
<1> USE DEF args, Goto, Return, Running
<1>0. /\ mid \in [Proc -> 0 .. NumElements]
      /\ ret \in [Proc -> {0, 1}] /\ left_success \in [Proc -> {0, 1}]
  BY DEF TypeOK
<1>1. CASE SortNothing(p)
  <2>1. PICK l \in {"exited"} : pc' = [pc EXCEPT ![p] = l] /\ pc[p] = "sort"
    BY <1>1 DEF SortNothing
  <2> QED BY <1>0, <1>1, <2>1, TurnAlone DEF SortNothing
<1>2. CASE SortSequentially(p)
  <2>1. PICK l \in {"exited"} : pc' = [pc EXCEPT ![p] = l] /\ pc[p] = "sort"
    BY <1>2 DEF SortSequentially
  <2> QED BY <1>0, <1>2, <2>1, TurnAlone DEF SortSequentially
<1>3. CASE PartitionRegion(p)
  <2>1. PICK l \in {"fork_left"} : pc' = [pc EXCEPT ![p] = l] /\ pc[p] = "sort"
    BY <1>3 DEF PartitionRegion, MustPartition
  <2>2. \A q \in Proc \ {p} : mid'[q] = mid[q]
    BY <1>0, <1>3 DEF PartitionRegion
  <2> QED BY <1>0, <1>3, <2>1, <2>2, TurnAlone DEF PartitionRegion
<1>4. CASE LeaveMapping(p)
  <2>1. PICK l \in {"signaled"} : pc' = [pc EXCEPT ![p] = l] /\ pc[p] = "sort"
    BY <1>4 DEF LeaveMapping, MustPartition
  <2> QED BY <1>0, <1>4, <2>1, TurnAlone DEF LeaveMapping
<1>5. CASE ForkLeft(p)
  <2>1. CASE Spawn(p, Left(p), "fork_right")
    BY <1>5, <2>1, TurnForking DEF ForkLeft
  <2>2. CASE ForkFails /\ Return(p, 0)
    <3>1. PICK l \in {"exited"} : pc' = [pc EXCEPT ![p] = l] /\ pc[p] = "fork_left"
      BY <1>5, <2>2 DEF ForkLeft
    <3> QED BY <1>0, <1>5, <2>2, <3>1, TurnAlone DEF ForkLeft
  <2> QED BY <1>5, <2>1, <2>2 DEF ForkLeft
<1>6. CASE ForkRight(p)
  <2>1. CASE Spawn(p, Right(p), "wait_left")
    BY <1>6, <2>1, TurnForking DEF ForkRight
  <2>2. CASE ForkFails /\ Goto(p, "kill_left")
    <3>1. PICK l \in {"kill_left"} : pc' = [pc EXCEPT ![p] = l] /\ pc[p] = "fork_right"
      BY <1>6, <2>2 DEF ForkRight
    <3> QED BY <1>0, <1>6, <2>2, <3>1, TurnAlone DEF ForkRight
  <2> QED BY <1>6, <2>1, <2>2 DEF ForkRight
<1>7. CASE KillLeft(p)
  <2>1. PICK l \in {"reap_left"} : pc' = [pc EXCEPT ![p] = l] /\ pc[p] = "kill_left"
    BY <1>7 DEF KillLeft
  <2> QED BY <1>0, <1>7, <2>1, TurnAlone DEF KillLeft
<1>8. CASE KillRight(p)
  <2>1. PICK l \in {"reap_right"} : pc' = [pc EXCEPT ![p] = l] /\ pc[p] = "kill_right"
    BY <1>8 DEF KillRight
  <2> QED BY <1>0, <1>8, <2>1, TurnAlone DEF KillRight
<1>9. CASE ReapKilled(p)
  <2>1. PICK l \in {"exited"} : pc' = [pc EXCEPT ![p] = l] /\ pc[p] \in {"reap_left", "reap_right"}
    BY <1>9 DEF ReapKilled
  <2> QED BY <1>0, <1>9, <2>1, TurnAlone DEF ReapKilled, Reap
<1>10. CASE WaitLeft(p)
  <2>1. PICK l \in {"kill_right", "wait_right"} : pc' = [pc EXCEPT ![p] = l] /\ pc[p] = "wait_left"
    BY <1>10 DEF WaitLeft
  <2>2. \A q \in Proc \ {p} : left_success'[q] = left_success[q]
    BY <1>0, <1>10 DEF WaitLeft
  <2> QED BY <1>0, <1>10, <2>1, <2>2, TurnAlone DEF WaitLeft
<1>11. CASE WaitRight(p)
  <2>1. PICK l \in {"exited"} : pc' = [pc EXCEPT ![p] = l] /\ pc[p] = "wait_right"
    BY <1>11 DEF WaitRight
  <2> QED BY <1>0, <1>11, <2>1, TurnAlone DEF WaitRight
<1>12. CASE Die(p)
  <2>1. PICK l \in {"signaled"} : pc' = [pc EXCEPT ![p] = l] /\ pc[p] \in Running
    BY <1>12 DEF Die
  <2> QED BY <1>0, <1>12, <2>1, TurnAlone DEF Die
<1> QED
  BY <1>1, <1>2, <1>3, <1>4, <1>5, <1>6, <1>7, <1>8, <1>9, <1>10, <1>11, <1>12
  DEF Step, Sort, Terminate, Crash

-----------------------------------------------------------------------------
(* The regions stay a tree if the process whose turn it is leaves a        *)
(* midpoint and unstarted children as its new state needs them.            *)
LEMMA TreeStep ==
  ASSUME Tree, NEW p \in Proc, Turn(p),
         pc'[p] \in Running \ {"sort"} => HasMid(p)',
         FreshBelow(p)'
  PROVE  Tree'
<1>1. \A r \in Proc \ {p} : Left(r)' = Left(r) /\ Right(r)' = Right(r) /\ HasMid(r)' = HasMid(r)
  BY DEF Turn, Left, Right, HasMid
<1>2. \A c \in Proc \ {p} : Started(c)' => Started(c) \/ Born(p, c)
  BY DEF Turn, Started
<1>3. \A c \in Proc : Born(p, c) => /\ HasMid(p) /\ HasMid(p)' /\ c # p
                                    /\ c \in {Left(p), Right(p)}
                                    /\ Left(p)' = Left(p) /\ Right(p)' = Right(p)
                                    /\ Fresh(c) /\ ~Started(c) /\ pc'[c] = "sort"
  <2> SUFFICES ASSUME NEW c \in Proc, Born(p, c) PROVE c # p /\ HasMid(p)' /\ ~Started(c)
    BY DEF Born, Left, Right
  <2>1. pc[p] # "none"
    BY DEF Turn, Running
  <2> QED
    BY <2>1 DEF Born, HasMid, Started
<1>4. Started(p) /\ Started(p)'
  BY DEF Turn, Started, Running
<1>5. ASSUME NEW c \in Proc, Born(p, c), NEW r \in Proc \ {p}, Started(r)
      PROVE  Apart(c, r) \/ (Under(p, r) /\ Under(c, r))
  <2>1. Related(p, r)
    BY <1>4, <1>5 DEF Tree
  <2>2. ~Inside(r, c)
    BY <1>3, <1>5 DEF Fresh
  <2> QED
    BY <1>3, <1>5, <2>1, <2>2, ChildRelated
<1>6. ASSUME NEW c \in Proc, Born(p, c)
      PROVE  Under(c, p) /\ Under(c, p)'
  <2>1. c[1] \in Int /\ c[2] \in Int
    BY Regions
  <2>2. Inside(c, c)
    BY <2>1 DEF Inside
  <2> QED
    BY <1>3, <1>6, <2>2 DEF Under
<1>7. ASSUME NEW c \in Proc, Born(p, c), NEW d \in Proc, Born(p, d), c # d
      PROVE  Apart(c, d)
  <2>1. \/ c = Left(p) /\ d = Right(p)
        \/ d = Left(p) /\ c = Right(p)
    BY <1>3, <1>7
  <2> QED
    BY <1>3, <1>7, <2>1, Halves DEF Apart
<1>8. \A r \in Proc : pc'[r] \in Running \ {"sort"} => HasMid(r)'
  <2> SUFFICES ASSUME NEW r \in Proc \ {p}, pc'[r] \in Running \ {"sort"} PROVE HasMid(r)'
    OBVIOUS
  <2>1. pc'[r] = pc[r]
    BY <1>3 DEF Turn
  <2> QED
    BY <1>1, <2>1 DEF Tree
<1>9. ASSUME NEW q \in Proc, NEW r \in Proc, q # r, Started(q)', Started(r)'
      PROVE  Related(q, r)'
  <2>1. CASE q # p /\ r # p /\ Started(q) /\ Started(r)
    <3>1. Related(q, r)
      BY <1>9, <2>1 DEF Tree
    <3> QED
      BY <1>1, <2>1, <3>1 DEF Related, Under, Apart, Inside
  <2>2. ASSUME NEW c \in Proc, NEW x \in Proc \ {p}, Born(p, c), Started(x)
        PROVE  Related(c, x)' /\ Related(x, c)'
    <3>1. Apart(c, x) \/ Under(c, x)
      BY <1>5, <2>2
    <3>2. Apart(c, x) => Apart(x, c)
      BY DEF Apart
    <3>3. Under(c, x) => Under(c, x)'
      BY <1>1, <2>2 DEF Under, Inside
    <3> QED
      BY <3>1, <3>2, <3>3 DEF Related, Apart
  <2>3. CASE q # p /\ r # p /\ Born(p, q) /\ Started(r)
    BY <2>2, <2>3
  <2>4. CASE q # p /\ r # p /\ Born(p, r) /\ Started(q)
    BY <2>2, <2>4
  <2>5. CASE Born(p, q) /\ Born(p, r)
    BY <1>7, <1>9, <2>5 DEF Related, Apart
  <2>6. ASSUME NEW x \in Proc \ {p}, Started(x)
        PROVE  Related(p, x)' /\ Related(x, p)'
    <3>1. Related(p, x)
      BY <1>4, <2>6 DEF Tree
    <3>2. Apart(p, x) => Apart(x, p)
      BY DEF Apart
    <3>3. Under(p, x) => Under(p, x)'
      BY <1>1, <2>6 DEF Under, Inside
    <3>4. Under(x, p) => Under(x, p)'
      <4>1. CASE mid'[p] = mid[p]
        BY <4>1 DEF Under, Inside, HasMid, Left, Right
      <4>2. CASE pc[p] = "sort"
        <5>1. ~Inside(x, p)
          BY <2>6, <4>2 DEF Tree, FreshBelow
        <5> QED
          BY <5>1, UnderIsInside
      <4> QED
        BY <4>1, <4>2 DEF Turn
    <3> QED
      BY <3>1, <3>2, <3>3, <3>4 DEF Related, Apart
  <2>7. CASE q = p
    <3>1. Started(r) \/ Born(p, r)
      BY <1>2, <1>9, <2>7
    <3> QED
      BY <1>6, <1>9, <2>6, <2>7, <3>1 DEF Related
  <2>8. CASE r = p
    <3>1. Started(q) \/ Born(p, q)
      BY <1>2, <1>9, <2>8
    <3> QED
      BY <1>6, <1>9, <2>6, <2>8, <3>1 DEF Related
  <2>9. CASE q # p /\ r # p
    <3>1. (Started(q) \/ Born(p, q)) /\ (Started(r) \/ Born(p, r))
      BY <1>2, <1>9, <2>9
    <3> QED
      BY <2>1, <2>3, <2>4, <2>5, <2>9, <3>1
  <2> QED
    BY <2>7, <2>8, <2>9
<1>10. ASSUME NEW r \in Proc PROVE FreshBelow(r)'
  <2>1. CASE r = p
    BY <2>1
  <2>2. CASE Born(p, r)
    <3> SUFFICES ASSUME NEW q \in Proc \ {r}, Started(q)' PROVE ~Inside(q, r)
      BY <1>3, <2>2 DEF FreshBelow, Inside
    <3>1. CASE Started(q)
      BY <1>3, <2>2, <3>1 DEF Fresh
    <3>2. CASE Born(p, q)
      BY <1>7, <2>2, <3>2, ApartNotInside
    <3> QED
      BY <1>2, <1>4, <3>1, <3>2
  <2>3. CASE r # p /\ pc'[r] = pc[r]
    <3>1. FreshBelow(r)
      BY DEF Tree
    <3>2. ASSUME NEW c \in Proc, Born(p, c), Started(r)
          PROVE  /\ ~Inside(p, r) => ~Inside(c, r)
                 /\ (HasMid(r) /\ ~Inside(p, Left(r))) => ~Inside(c, Left(r))
                 /\ (HasMid(r) /\ ~Inside(p, Right(r))) => ~Inside(c, Right(r))
      <4>1. /\ c[1] \in Int /\ c[2] \in Int /\ p[1] \in Int /\ p[2] \in Int
            /\ r[1] \in Int /\ r[2] \in Int
            /\ c[1] <= c[2] /\ p[1] <= p[2] /\ r[1] <= r[2]
        BY Regions
      <4>2. CASE Apart(c, r)
        <5>1. ~Inside(c, r)
          BY <4>2, ApartNotInside
        <5> QED
          BY <4>1, <5>1, Halves DEF Inside
      <4>3. CASE Under(p, r) /\ Under(c, r)
        <5>1. HasMid(r) /\ (Inside(p, Left(r)) \/ Inside(p, Right(r)))
          BY <4>3 DEF Under
        <5>2. p[1] <= c[1] /\ c[2] <= p[2]
          BY <1>3, <3>2, <4>1, Halves
        <5>3. Inside(p, r)
          BY <4>3, UnderIsInside
        <5> QED
          BY <4>1, <5>1, <5>2, <5>3, Halves DEF Inside
      <4> QED
        BY <1>5, <2>3, <3>2, <4>2, <4>3
    <3>3. ASSUME NEW z \in {r, Left(r), Right(r)}, z = r \/ HasMid(r), Started(r),
                 \A q \in Proc \ {r} : Started(q) => ~Inside(q, z)
          PROVE  \A q \in Proc \ {r} : Started(q)' => ~Inside(q, z)
      <4> SUFFICES ASSUME NEW q \in Proc \ {r}, Started(q)' PROVE ~Inside(q, z)
        OBVIOUS
      <4>1. Started(q) \/ Born(p, q)
        BY <1>2, <1>4
      <4>2. ~Inside(p, z)
        BY <1>4, <2>3, <3>3
      <4> QED
        BY <3>2, <3>3, <4>1, <4>2
    <3>4. pc'[r] = "sort" => \A q \in Proc \ {r} : Started(q)' => ~Inside(q, r)
      BY <2>3, <3>1, <3>3 DEF FreshBelow, Started
    <3>5. ASSUME pc'[r] \in Running \ {"sort"}
          PROVE  HasMid(r) /\ Started(r) /\ ~Inside(r, Left(r)) /\ ~Inside(r, Right(r))
      <4>1. HasMid(r) /\ Started(r)
        BY <2>3, <3>5 DEF Tree, Started, Running
      <4>2. r[1] \in Int /\ r[2] \in Int
        BY Regions
      <4> QED
        BY <4>1, <4>2, Halves DEF Inside
    <3>6. pc'[r] = "fork_left" => Fresh(Left(r))' /\ Fresh(Right(r))'
      <4> SUFFICES ASSUME pc'[r] = "fork_left" PROVE Fresh(Left(r))' /\ Fresh(Right(r))'
        OBVIOUS
      <4>1. HasMid(r) /\ Started(r) /\ ~Inside(r, Left(r)) /\ ~Inside(r, Right(r))
        BY <3>5 DEF Running
      <4>2. Fresh(Left(r)) /\ Fresh(Right(r))
        BY <2>3, <3>1 DEF FreshBelow
      <4>3. /\ \A q \in Proc \ {r} : Started(q)' => ~Inside(q, Left(r))
            /\ \A q \in Proc \ {r} : Started(q)' => ~Inside(q, Right(r))
        BY <3>3, <4>1, <4>2 DEF Fresh
      <4> QED
        BY <1>1, <2>3, <4>1, <4>3 DEF Fresh, Inside
    <3>7. pc'[r] \in {"fork_right", "kill_left", "reap_left"} => Fresh(Right(r))'
      <4> SUFFICES ASSUME pc'[r] \in {"fork_right", "kill_left", "reap_left"}
                   PROVE  Fresh(Right(r))'
        OBVIOUS
      <4>1. HasMid(r) /\ Started(r) /\ ~Inside(r, Right(r))
        BY <3>5 DEF Running
      <4>2. Fresh(Right(r))
        BY <2>3, <3>1 DEF FreshBelow
      <4>3. \A q \in Proc \ {r} : Started(q)' => ~Inside(q, Right(r))
        BY <3>3, <4>1, <4>2 DEF Fresh
      <4> QED
        BY <1>1, <2>3, <4>1, <4>3 DEF Fresh, Inside
    <3> QED
      BY <3>4, <3>6, <3>7 DEF FreshBelow, Inside
  <2> QED
    BY <2>1, <2>2, <2>3 DEF Turn
<1> QED
  BY <1>8, <1>9, <1>10 DEF Tree

-----------------------------------------------------------------------------
(* A process that reports success speaks for all processes inside its      *)
(* region; one that waits for its right child remembers what the left one  *)
(* reported.                                                               *)
Reaped(q) == Succeeded(q) /\ q \in reaped
ReapedBelow(p) == \A q \in Proc \ {p} : Started(q) /\ Inside(q, p) => Reaped(q)

Reports ==
  \A p \in Proc :
    /\ Succeeded(p) => ReapedBelow(p)
    /\ pc[p] = "wait_right" /\ left_success[p] = 1 => Reaped(Left(p))

(* The same for the end of processes, if no process was killed.            *)
AllEndedIn(z) == \A q \in Proc : Started(q) /\ Inside(q, z) => Ended(q)

Quiet ==
  SomeSignaled \/
  \A p \in Proc :
    /\ pc[p] = "exited" => AllEndedIn(p)
    /\ pc[p] \in {"wait_right", "kill_right", "reap_right"} => AllEndedIn(Left(p))

(* And for the cause of a failure.                                         *)
HasCause == failures > 0 \/ sigchld_ignored \/ SomeSignaled

Causes ==
  HasCause \/
  \A p \in Proc :
    /\ pc[p] = "exited" => ret[p] = 1
    /\ pc[p] = "wait_right" => left_success[p] = 1
    /\ pc[p] \notin {"kill_left", "reap_left", "kill_right", "reap_right"}

IInv == TypeOK /\ Tree /\ Reports /\ Quiet /\ Causes

-----------------------------------------------------------------------------
(* A child is only ever started inside a region whose process is running,  *)
(* and with it every process whose region encloses it.                     *)
LEMMA BornBelowRunning ==
  ASSUME Tree, NEW p \in Proc, Turn(p), NEW c \in Proc, Born(p, c),
         NEW r \in Proc \ {p}, Started(r), Inside(c, r)
  PROVE  Inside(p, r)
<1>1. Related(p, r)
  BY DEF Turn, Tree, Started, Running
<1>2. Apart(c, r) \/ Under(p, r)
  BY <1>1, ChildRelated DEF Born, Fresh
<1> QED
  BY <1>2, ApartNotInside, UnderIsInside

(* The same below the left child of r.                                     *)
LEMMA BornBelowLeft ==
  ASSUME Tree, NEW p \in Proc, Turn(p), NEW c \in Proc, Born(p, c),
         NEW r \in Proc \ {p}, Started(r), HasMid(r), Inside(c, Left(r))
  PROVE  Inside(p, Left(r))
<1>1. /\ c[1] \in Int /\ c[2] \in Int /\ p[1] \in Int /\ p[2] \in Int
      /\ r[1] \in Int /\ r[2] \in Int
      /\ c[1] <= c[2] /\ p[1] <= p[2] /\ r[1] <= r[2]
  BY Regions
<1>2. Related(p, r)
  BY DEF Turn, Tree, Started, Running
<1>3. Inside(c, r)
  BY <1>1, Halves DEF Inside
<1>4. Under(p, r)
  BY <1>2, <1>3, ChildRelated, ApartNotInside DEF Born, Fresh
<1>5. Inside(p, Left(r)) \/ Inside(p, Right(r))
  BY <1>4 DEF Under
<1>6. p[1] <= c[1] /\ c[2] <= p[2]
  BY <1>1, Halves DEF Born
<1> QED
  BY <1>1, <1>5, <1>6, Halves DEF Inside

LEMMA ReportsStep ==
  ASSUME Tree, Reports, NEW p \in Proc, Turn(p),
         Succeeded(p)' => ReapedBelow(p)',
         pc'[p] = "wait_right" /\ left_success'[p] = 1 => Reaped(Left(p))'
  PROVE  Reports'
<1>1. \A q \in Proc : Reaped(q) => Reaped(q)'
  BY DEF Turn, Reaped, Succeeded, Born, Running
<1>2. ASSUME NEW r \in Proc \ {p}, Succeeded(r)'
      PROVE  ReapedBelow(r)'
  <2>1. Succeeded(r) /\ Started(r)
    BY <1>2 DEF Turn, Born, Succeeded, Started
  <2>2. ~Inside(p, r)
    BY <2>1 DEF Reports, ReapedBelow, Reaped, Succeeded, Started, Turn, Running
  <2> SUFFICES ASSUME NEW q \in Proc \ {r}, Started(q)', Inside(q, r) PROVE Reaped(q)'
    BY DEF ReapedBelow, Inside
  <2>3. q # p
    BY <2>2
  <2>4. ~Born(p, q)
    BY <2>1, <2>2, <1>2, BornBelowRunning
  <2>5. Started(q)
    BY <2>3, <2>4 DEF Turn, Started
  <2> QED
    BY <1>1, <2>1, <2>5 DEF Reports, ReapedBelow
<1>3. ASSUME NEW r \in Proc \ {p}, pc'[r] = "wait_right", left_success'[r] = 1
      PROVE  Reaped(Left(r))'
  <2>1. pc[r] = "wait_right" /\ left_success[r] = 1 /\ Left(r)' = Left(r)
    BY <1>3 DEF Turn, Born, Left
  <2>2. Left(r) \in Proc
    BY <2>1, Halves DEF Tree, Running
  <2> QED
    BY <1>1, <2>1, <2>2 DEF Reports, Reaped, Succeeded
<1> QED
  BY <1>2, <1>3 DEF Reports

LEMMA QuietStep ==
  ASSUME Tree, Quiet, NEW p \in Proc, Turn(p),
         ~SomeSignaled =>
           \/ SomeSignaled'
           \/ /\ pc'[p] = "exited" => AllEndedIn(p)'
              /\ pc'[p] \in {"wait_right", "kill_right", "reap_right"} => AllEndedIn(Left(p))'
  PROVE  Quiet'
<1>1. SomeSignaled => SomeSignaled'
  BY DEF SomeSignaled, Turn, Born, Running
<1>2. SUFFICES ASSUME ~SomeSignaled, ~SomeSignaled', NEW r \in Proc \ {p}
               PROVE  /\ pc'[r] = "exited" => AllEndedIn(r)'
                      /\ pc'[r] \in {"wait_right", "kill_right", "reap_right"} => AllEndedIn(Left(r))'
  BY <1>1 DEF Quiet
<1>3. Started(p) /\ ~Ended(p)
  BY DEF Turn, Running, Started, Ended
<1>4. \A q \in Proc \ {p} : Started(q)' => Started(q) \/ Born(p, q)
  BY DEF Turn, Started
<1>5. \A q \in Proc \ {p} : Ended(q) => Ended(q)'
  BY DEF Turn, Ended, Born
<1>6. ASSUME pc'[r] = "exited" PROVE AllEndedIn(r)'
  <2>1. pc[r] = "exited" /\ Started(r)
    BY <1>6 DEF Turn, Born, Started
  <2>2. AllEndedIn(r)
    BY <1>2, <2>1 DEF Quiet
  <2>3. ~Inside(p, r)
    BY <1>3, <2>2 DEF AllEndedIn
  <2> SUFFICES ASSUME NEW q \in Proc, Started(q)', Inside(q, r) PROVE Ended(q)'
    BY DEF AllEndedIn, Inside
  <2>4. q # p /\ ~Born(p, q)
    BY <2>1, <2>3, BornBelowRunning
  <2> QED
    BY <1>4, <1>5, <2>2, <2>4 DEF AllEndedIn
<1>7. ASSUME pc'[r] \in {"wait_right", "kill_right", "reap_right"} PROVE AllEndedIn(Left(r))'
  <2>1. pc[r] \in {"wait_right", "kill_right", "reap_right"} /\ Started(r)
    BY <1>7 DEF Turn, Born, Started
  <2>2. AllEndedIn(Left(r)) /\ HasMid(r)
    BY <1>2, <2>1 DEF Quiet, Tree, Running
  <2>3. ~Inside(p, Left(r))
    BY <1>3, <2>2 DEF AllEndedIn
  <2>4. Left(r)' = Left(r)
    BY DEF Turn, Left
  <2> SUFFICES ASSUME NEW q \in Proc, Started(q)', Inside(q, Left(r)) PROVE Ended(q)'
    BY <2>4 DEF AllEndedIn, Inside
  <2>5. q # p /\ ~Born(p, q)
    BY <2>1, <2>2, <2>3, BornBelowLeft
  <2> QED
    BY <1>4, <1>5, <2>2, <2>5 DEF AllEndedIn
<1> QED
  BY <1>6, <1>7

LEMMA CausesStep ==
  ASSUME Causes, NEW p \in Proc, Turn(p), TypeOK, TypeOK',
         failures <= failures', sigchld_ignored' = sigchld_ignored,
         ~HasCause =>
           \/ HasCause'
           \/ /\ pc'[p] = "exited" => ret'[p] = 1
              /\ pc'[p] = "wait_right" => left_success'[p] = 1
              /\ pc'[p] \notin {"kill_left", "reap_left", "kill_right", "reap_right"}
  PROVE  Causes'
<1>1. SomeSignaled => SomeSignaled'
  BY DEF SomeSignaled, Turn, Born, Running
<1>2. failures \in Int /\ failures' \in Int
  BY ParSortAssumption DEF TypeOK
<1>3. HasCause => HasCause'
  BY <1>1, <1>2 DEF HasCause
<1>4. SUFFICES ASSUME ~HasCause, ~HasCause', NEW r \in Proc \ {p}
               PROVE  /\ pc'[r] = "exited" => ret'[r] = 1
                      /\ pc'[r] = "wait_right" => left_success'[r] = 1
                      /\ pc'[r] \notin {"kill_left", "reap_left", "kill_right", "reap_right"}
  BY <1>3 DEF Causes
<1>5. /\ pc'[r] = pc[r] \/ pc'[r] = "sort"
      /\ ret'[r] = ret[r] /\ left_success'[r] = left_success[r]
  BY DEF Turn, Born
<1>6. /\ pc[r] = "exited" => ret[r] = 1
      /\ pc[r] = "wait_right" => left_success[r] = 1
      /\ pc[r] \notin {"kill_left", "reap_left", "kill_right", "reap_right"}
  BY <1>4 DEF Causes
<1> QED
  BY <1>5, <1>6

-----------------------------------------------------------------------------
(* What is left to show of a turn of p, once p itself is all that matters. *)
Settled(p) ==
  /\ pc'[p] \in Running \ {"sort"} => HasMid(p)'
  /\ FreshBelow(p)'
  /\ Succeeded(p)' => ReapedBelow(p)'
  /\ pc'[p] = "wait_right" /\ left_success'[p] = 1 => Reaped(Left(p))'
  /\ ~SomeSignaled =>
       \/ SomeSignaled'
       \/ /\ pc'[p] = "exited" => AllEndedIn(p)'
          /\ pc'[p] \in {"wait_right", "kill_right", "reap_right"} => AllEndedIn(Left(p))'
  /\ ~HasCause =>
       \/ HasCause'
       \/ /\ pc'[p] = "exited" => ret'[p] = 1
          /\ pc'[p] = "wait_right" => left_success'[p] = 1
          /\ pc'[p] \notin {"kill_left", "reap_left", "kill_right", "reap_right"}

(* What is inside a region, its process apart, is below one of its halves. *)
LEMMA InsideAHalf ==
  ASSUME Tree, NEW p \in Proc, Started(p), NEW q \in Proc \ {p}, Started(q), Inside(q, p)
  PROVE  HasMid(p) /\ (Inside(q, Left(p)) \/ Inside(q, Right(p)))
<1>1. Related(p, q)
  BY DEF Tree
<1>2. Under(q, p)
  BY <1>1, InsideIsUnder
<1> QED
  BY <1>2 DEF Under

(* A half in which nothing was started, and one in which all has ended.    *)
LEMMA EndedInside ==
  ASSUME Tree, NEW p \in Proc, Started(p),
         Fresh(Left(p)) \/ AllEndedIn(Left(p)), Fresh(Right(p)) \/ AllEndedIn(Right(p))
  PROVE  \A q \in Proc \ {p} : Started(q) /\ Inside(q, p) => Ended(q)
BY InsideAHalf DEF Fresh, AllEndedIn

(* A process that is killed owes nothing.                                  *)
LEMMA SettledSignaled ==
  ASSUME NEW p \in Proc, pc'[p] = "signaled"
  PROVE  Settled(p)
<1>1. SomeSignaled'
  BY DEF SomeSignaled
<1> QED
  BY <1>1 DEF Settled, FreshBelow, Succeeded, HasCause, Running

(* A process that has sorted its region itself.                            *)
LEMMA SettledSorted ==
  ASSUME IInv, NEW p \in Proc, pc[p] = "sort", Return(p, 1)
  PROVE  Settled(p)
<1>1. /\ pc'[p] = "exited" /\ ret'[p] = 1 /\ \A q \in Proc \ {p} : pc'[q] = pc[q]
  BY DEF IInv, TypeOK, Return
<1>2. \A q \in Proc \ {p} : Started(q)' => ~Inside(q, p)
  BY <1>1 DEF IInv, Tree, FreshBelow, Started
<1>3. ReapedBelow(p)'
  BY <1>2 DEF ReapedBelow, Inside
<1>4. AllEndedIn(p)'
  BY <1>1, <1>2 DEF AllEndedIn, Inside, Ended
<1> QED
  BY <1>1, <1>3, <1>4 DEF Settled, FreshBelow, Running

(* A process that gives up returns 0: by then there is a cause, and all    *)
(* below it has ended.                                                     *)
LEMMA SettledGivenUp ==
  ASSUME IInv, NEW p \in Proc, Started(p), Return(p, 0), SomeSignaled => SomeSignaled',
         HasCause',
         ~SomeSignaled => \A q \in Proc \ {p} : Started(q) /\ Inside(q, p) => Ended(q)
  PROVE  Settled(p)
<1>1. /\ pc'[p] = "exited" /\ ret'[p] = 0 /\ \A q \in Proc \ {p} : pc'[q] = pc[q]
  BY DEF IInv, TypeOK, Return
<1>2. ASSUME ~SomeSignaled PROVE AllEndedIn(p)'
  BY <1>1, <1>2 DEF AllEndedIn, Inside, Ended, Started
<1> QED
  BY <1>1, <1>2 DEF Settled, FreshBelow, Running, Succeeded

LEMMA SettledPartition ==
  ASSUME IInv, NEW p \in Proc, PartitionRegion(p)
  PROVE  Settled(p)
<1>1. /\ pc'[p] = "fork_left" /\ pc[p] = "sort" /\ \A q \in Proc \ {p} : pc'[q] = pc[q]
  BY DEF PartitionRegion, MustPartition, Goto, IInv, TypeOK
<1>2. HasMid(p)'
  <2>1. \E r \in PartitionResults(arr, p[1], p[2]) : mid' = [mid EXCEPT ![p] = r[2]]
    BY DEF PartitionRegion
  <2>2. \A r \in PartitionResults(arr, p[1], p[2]) : r[2] \in p[1] .. (p[2] - 1)
    BY DEF PartitionResults, Region
  <2> QED
    BY <2>1, <2>2 DEF HasMid, IInv, TypeOK
<1>3. p[1] \in Int /\ p[2] \in Int
  BY Regions
<1>4. /\ Left(p)'[1] = p[1] /\ Left(p)'[2] = mid'[p]
      /\ Right(p)'[1] = mid'[p] + 1 /\ Right(p)'[2] = p[2]
      /\ mid'[p] \in Int /\ p[1] <= mid'[p] /\ mid'[p] < p[2]
  BY <1>2, <1>3 DEF HasMid, Left, Right
<1>5. \A q \in Proc : /\ Inside(q, p) \/ ~Inside(q, Left(p)')
                      /\ Inside(q, p) \/ ~Inside(q, Right(p)')
                      /\ q = p => ~Inside(q, Left(p)') /\ ~Inside(q, Right(p)')
  <2> SUFFICES ASSUME NEW q \in Proc
               PROVE  /\ Inside(q, p) \/ ~Inside(q, Left(p)')
                      /\ Inside(q, p) \/ ~Inside(q, Right(p)')
                      /\ q = p => ~Inside(q, Left(p)') /\ ~Inside(q, Right(p)')
    OBVIOUS
  <2>1. q[1] \in Int /\ q[2] \in Int
    BY Regions
  <2> QED
    BY <1>3, <1>4, <2>1 DEF Inside
<1>6. \A q \in Proc \ {p} : Started(q)' => ~Inside(q, p)
  BY <1>1 DEF IInv, Tree, FreshBelow, Started
<1>7. Fresh(Left(p))' /\ Fresh(Right(p))'
  BY <1>5, <1>6 DEF Fresh, Inside
<1> QED
  BY <1>1, <1>2, <1>7 DEF Settled, FreshBelow, Succeeded

LEMMA SettledFork ==
  ASSUME IInv, NEW p \in Proc, NEW c, NEW l \in Running,
         \/ pc[p] = "fork_left" /\ c = Left(p) /\ l = "fork_right"
         \/ pc[p] = "fork_right" /\ c = Right(p) /\ l = "wait_left",
         Spawn(p, c, l), UNCHANGED <<mid, left_success, reaped>>
  PROVE  Settled(p)
<1>1. Turn(p) /\ c \in Proc /\ c # p /\ Born(p, c) /\ pc'[p] = l
  BY TurnForking DEF IInv
<1>2. HasMid(p) /\ HasMid(p)' /\ Left(p)' = Left(p) /\ Right(p)' = Right(p)
  BY <1>1 DEF Born, HasMid, Left, Right
<1>3. l = "fork_right" => Fresh(Right(p))'
  <2> SUFFICES ASSUME l = "fork_right", NEW q \in Proc, Started(q)'
               PROVE  ~Inside(q, Right(p))
    BY <1>2 DEF Fresh, Inside
  <2>1. pc[p] = "fork_left" /\ c = Left(p)
    OBVIOUS
  <2>2. Fresh(Right(p))
    BY <2>1 DEF IInv, Tree, FreshBelow
  <2>3. CASE q = c
    <3>1. p[1] \in Int /\ p[2] \in Int
      BY Regions
    <3> QED
      BY <1>2, <2>1, <2>3, <3>1, Halves DEF Inside
  <2>4. CASE q # c
    <3>1. Started(q)
      BY <1>1, <2>4 DEF Spawn, IInv, TypeOK, Started, Running
    <3> QED
      BY <2>2, <3>1 DEF Fresh
  <2> QED
    BY <2>3, <2>4
<1> QED
  BY <1>1, <1>2, <1>3 DEF Settled, FreshBelow, Succeeded, Running

(* The second fork failed, or the left child has been told to terminate.   *)
LEMMA SettledUndone ==
  ASSUME IInv, NEW p \in Proc, UNCHANGED mid,
         \/ pc[p] = "fork_right" /\ Goto(p, "kill_left") /\ HasCause'
         \/ pc[p] = "kill_left" /\ Goto(p, "reap_left") /\ UNCHANGED <<failures, sigchld_ignored>>
  PROVE  Settled(p)
<1>1. /\ pc'[p] \in {"kill_left", "reap_left"} /\ \A q \in Proc \ {p} : pc'[q] = pc[q]
      /\ pc[p] \in {"fork_right", "kill_left"}
  BY DEF Goto, IInv, TypeOK
<1>2. HasMid(p) /\ HasMid(p)' /\ Right(p)' = Right(p)
  BY <1>1 DEF IInv, Tree, Running, HasMid, Right
<1>3. Fresh(Right(p))'
  <2>1. Fresh(Right(p))
    BY <1>1 DEF IInv, Tree, FreshBelow
  <2> QED
    BY <1>1, <1>2, <2>1 DEF Fresh, Inside, Started
<1>4. HasCause'
  <2>1. CASE pc[p] = "kill_left" /\ UNCHANGED <<failures, sigchld_ignored>>
    <3>1. HasCause
      BY <2>1 DEF IInv, Causes
    <3>2. SomeSignaled => SomeSignaled'
      BY <1>1 DEF SomeSignaled
    <3> QED
      BY <2>1, <3>1, <3>2 DEF HasCause
  <2> QED
    BY <2>1
<1> QED
  BY <1>1, <1>2, <1>3, <1>4 DEF Settled, FreshBelow, Succeeded

LEMMA SettledWaitLeft ==
  ASSUME IInv, NEW p \in Proc, WaitLeft(p)
  PROVE  Settled(p)
<1>1. pc[p] = "wait_left" /\ Ended(Left(p)) /\ UNCHANGED <<mid, ret, failures, sigchld_ignored>>
  BY DEF WaitLeft, Goto, args
<1>2. HasMid(p) /\ HasMid(p)' /\ Left(p)' = Left(p) /\ Left(p) \in Proc /\ Left(p) # p
  <2>1. HasMid(p)
    BY <1>1 DEF IInv, Tree, Running
  <2>2. p[1] \in Int /\ p[2] \in Int
    BY Regions
  <2> QED
    BY <1>1, <2>1, <2>2, Halves DEF HasMid, Left
<1>3. /\ \A q \in Proc \ {p} : pc'[q] = pc[q]
      /\ pc'[p] = IF sigchld_ignored THEN "kill_right" ELSE "wait_right"
  BY DEF WaitLeft, Goto, IInv, TypeOK
<1>4. ASSUME ~SomeSignaled PROVE AllEndedIn(Left(p))'
  <2>1. pc[Left(p)] = "exited"
    BY <1>1, <1>2, <1>4 DEF Ended, SomeSignaled
  <2>2. AllEndedIn(Left(p))
    BY <1>2, <1>4, <2>1 DEF IInv, Quiet
  <2>3. ~Inside(p, Left(p))
    <3>1. p[1] \in Int /\ p[2] \in Int
      BY Regions
    <3> QED
      BY <1>2, <3>1, Halves DEF Inside
  <2> QED
    BY <1>2, <1>3, <2>2, <2>3 DEF AllEndedIn, Inside, Started, Ended
<1>5. ASSUME ~sigchld_ignored
      PROVE  /\ left_success'[p] = Success(Left(p)) /\ Left(p) \in reaped'
  BY <1>5 DEF WaitLeft, IInv, TypeOK
<1>6. ASSUME pc'[p] = "wait_right", left_success'[p] = 1 PROVE Reaped(Left(p))'
  <2>1. ~sigchld_ignored
    BY <1>3, <1>6
  <2>2. Succeeded(Left(p))
    BY <1>5, <1>6, <2>1 DEF Success, Succeeded
  <2> QED
    BY <1>1, <1>2, <1>3, <1>5, <2>1, <2>2 DEF Reaped, Succeeded
<1>7. ASSUME ~HasCause PROVE pc'[p] = "wait_right" /\ left_success'[p] = 1
  <2>1. ~sigchld_ignored /\ pc[Left(p)] = "exited"
    BY <1>1, <1>2, <1>7 DEF HasCause, Ended, SomeSignaled
  <2>2. ret[Left(p)] = 1
    BY <1>2, <1>7, <2>1 DEF IInv, Causes
  <2> QED
    BY <1>3, <1>5, <2>1, <2>2 DEF Success
<1>8. pc'[p] \in {"kill_right", "wait_right"}
  BY <1>3
<1> QED
  BY <1>2, <1>4, <1>6, <1>7, <1>8 DEF Settled, FreshBelow, Succeeded

LEMMA SettledKillRight ==
  ASSUME IInv, NEW p \in Proc, KillRight(p)
  PROVE  Settled(p)
<1>1. /\ pc[p] = "kill_right" /\ UNCHANGED <<mid, ret, failures, sigchld_ignored>>
      /\ pc'[p] = "reap_right" /\ \A q \in Proc \ {p} : pc'[q] = pc[q]
  BY DEF KillRight, Goto, args, IInv, TypeOK
<1>2. HasMid(p) /\ HasMid(p)' /\ Left(p)' = Left(p)
  BY <1>1 DEF IInv, Tree, Running, HasMid, Left
<1>3. ASSUME ~SomeSignaled PROVE AllEndedIn(Left(p))'
  <2>1. AllEndedIn(Left(p))
    BY <1>1, <1>3 DEF IInv, Quiet
  <2> QED
    BY <1>1, <1>2, <2>1 DEF AllEndedIn, Inside, Started, Ended
<1>4. HasCause
  BY <1>1 DEF IInv, Causes
<1> QED
  BY <1>1, <1>2, <1>3, <1>4 DEF Settled, FreshBelow, Succeeded

LEMMA SettledReapKilled ==
  ASSUME IInv, NEW p \in Proc, ReapKilled(p)
  PROVE  Settled(p)
<1>1. /\ Return(p, 0) /\ UNCHANGED <<failures, sigchld_ignored>>
      /\ \/ pc[p] = "reap_left" /\ Ended(Left(p))
         \/ pc[p] = "reap_right" /\ Ended(Right(p))
  BY DEF ReapKilled, Reap, args
<1>2. SomeSignaled => SomeSignaled'
  BY <1>1 DEF SomeSignaled, Return, IInv, TypeOK
<1>3. HasCause'
  BY <1>1, <1>2 DEF IInv, Causes, HasCause
<1>4. Started(p) /\ HasMid(p)
  BY <1>1 DEF Started, IInv, Tree, Running
<1>5. Left(p) \in Proc /\ Right(p) \in Proc
  BY <1>4, Halves
<1>6. ASSUME ~SomeSignaled
      PROVE  \A q \in Proc \ {p} : Started(q) /\ Inside(q, p) => Ended(q)
  <2>1. CASE pc[p] = "reap_left" /\ Ended(Left(p))
    <3>1. AllEndedIn(Left(p))
      BY <1>5, <1>6, <2>1 DEF Ended, SomeSignaled, IInv, Quiet
    <3>2. Fresh(Right(p))
      BY <2>1 DEF IInv, Tree, FreshBelow
    <3> QED
      BY <1>4, <3>1, <3>2, EndedInside DEF IInv
  <2>2. CASE pc[p] = "reap_right" /\ Ended(Right(p))
    <3>1. AllEndedIn(Right(p))
      BY <1>5, <1>6, <2>2 DEF Ended, SomeSignaled, IInv, Quiet
    <3>2. AllEndedIn(Left(p))
      BY <1>6, <2>2 DEF IInv, Quiet
    <3> QED
      BY <1>4, <3>1, <3>2, EndedInside DEF IInv
  <2> QED
    BY <1>1, <2>1, <2>2
<1> QED
  BY <1>1, <1>2, <1>3, <1>4, <1>6, SettledGivenUp

(* The first fork failed: nothing was started below p.                     *)
LEMMA SettledForkLeftFails ==
  ASSUME IInv, NEW p \in Proc, pc[p] = "fork_left", ForkFails, Return(p, 0)
  PROVE  Settled(p)
<1>1. SomeSignaled => SomeSignaled'
  BY DEF SomeSignaled, Return, IInv, TypeOK
<1>2. failures' > 0
  BY ParSortAssumption DEF ForkFails, IInv, TypeOK
<1>3. Started(p)
  BY DEF Started
<1>4. Fresh(Left(p)) /\ Fresh(Right(p))
  BY DEF IInv, Tree, FreshBelow
<1>5. \A q \in Proc \ {p} : Started(q) /\ Inside(q, p) => Ended(q)
  BY <1>3, <1>4, EndedInside DEF IInv
<1> QED
  BY <1>1, <1>2, <1>3, <1>5, SettledGivenUp DEF HasCause

(* Both children have ended: what p reports follows from what they did.    *)
LEMMA SettledWaitRight ==
  ASSUME IInv, NEW p \in Proc, WaitRight(p)
  PROVE  Settled(p)
<1>1. /\ pc[p] = "wait_right" /\ Ended(Right(p)) /\ UNCHANGED <<mid, failures, sigchld_ignored>>
      /\ reaped' = reaped \cup {Right(p)}
  BY DEF WaitRight, args
<1>2. /\ Started(p) /\ HasMid(p) /\ Left(p) \in Proc /\ Right(p) \in Proc
  <2>1. Started(p) /\ HasMid(p)
    BY <1>1 DEF Started, IInv, Tree, Running
  <2> QED
    BY <2>1, Halves
<1>3. /\ pc'[p] = "exited" /\ \A q \in Proc \ {p} : pc'[q] = pc[q] /\ ret'[q] = ret[q]
      /\ ret'[p] = IF left_success[p] = 1 /\ Success(Right(p)) = 1 THEN 1 ELSE 0
  BY DEF WaitRight, Return, IInv, TypeOK
<1>4. ASSUME Succeeded(p)' PROVE ReapedBelow(p)'
  <2>1. left_success[p] = 1 /\ Success(Right(p)) = 1
    BY <1>3, <1>4 DEF Succeeded
  <2>2. Reaped(Left(p)) /\ Succeeded(Right(p))
    BY <1>1, <2>1 DEF IInv, Reports, Success, Succeeded
  <2>3. ReapedBelow(Left(p)) /\ ReapedBelow(Right(p))
    BY <1>2, <2>2 DEF IInv, Reports, Reaped
  <2> SUFFICES ASSUME NEW q \in Proc \ {p}, Started(q)', Inside(q, p) PROVE Reaped(q)'
    BY DEF ReapedBelow, Inside
  <2>4. Started(q)
    BY <1>3 DEF Started
  <2>5. Inside(q, Left(p)) \/ Inside(q, Right(p))
    BY <1>2, <2>4, InsideAHalf DEF IInv
  <2>6. Reaped(q) \/ q = Right(p)
    BY <2>2, <2>3, <2>4, <2>5 DEF ReapedBelow
  <2> QED
    BY <1>1, <1>3, <2>2, <2>6 DEF Reaped, Succeeded
<1>5. ASSUME ~SomeSignaled PROVE AllEndedIn(p)'
  <2>1. AllEndedIn(Left(p)) /\ AllEndedIn(Right(p))
    BY <1>1, <1>2, <1>5 DEF Ended, SomeSignaled, IInv, Quiet
  <2>2. \A q \in Proc \ {p} : Started(q) /\ Inside(q, p) => Ended(q)
    BY <1>2, <2>1, EndedInside DEF IInv
  <2> QED
    BY <1>3, <2>2 DEF AllEndedIn, Inside, Started, Ended
<1>6. ASSUME ~HasCause PROVE ret'[p] = 1
  <2>1. left_success[p] = 1
    BY <1>1, <1>6 DEF IInv, Causes
  <2>2. pc[Right(p)] = "exited" /\ ret[Right(p)] = 1
    BY <1>1, <1>2, <1>6 DEF HasCause, SomeSignaled, Ended, IInv, Causes
  <2> QED
    BY <1>3, <2>1, <2>2 DEF Success
<1> QED
  BY <1>3, <1>4, <1>5, <1>6 DEF Settled, FreshBelow, Running

(* Whoever's turn it is leaves its own part of the invariant settled.      *)
LEMMA EveryStepSettles ==
  ASSUME IInv, NEW p \in Proc, Step(p) \/ Terminate(p) \/ Crash(p)
  PROVE  Settled(p)
<1>0. pc \in [Proc -> Running \cup {"none", "exited", "signaled"}]
  BY DEF IInv, TypeOK
<1>1. CASE SortNothing(p)
  BY <1>1, SettledSorted DEF SortNothing
<1>2. CASE SortSequentially(p)
  BY <1>2, SettledSorted DEF SortSequentially
<1>3. CASE PartitionRegion(p)
  BY <1>3, SettledPartition
<1>4. CASE LeaveMapping(p)
  BY <1>0, <1>4, SettledSignaled DEF LeaveMapping, Goto
<1>5. CASE ForkLeft(p)
  <2>1. CASE Spawn(p, Left(p), "fork_right")
    BY <1>5, <2>1, SettledFork DEF ForkLeft, Running
  <2>2. CASE ForkFails /\ Return(p, 0)
    BY <1>5, <2>2, SettledForkLeftFails DEF ForkLeft
  <2> QED
    BY <1>5, <2>1, <2>2 DEF ForkLeft
<1>6. CASE ForkRight(p)
  <2>1. CASE Spawn(p, Right(p), "wait_left")
    BY <1>6, <2>1, SettledFork DEF ForkRight, Running
  <2>2. CASE ForkFails /\ Goto(p, "kill_left")
    <3>1. failures' > 0
      BY <2>2, ParSortAssumption DEF ForkFails, IInv, TypeOK
    <3> QED
      BY <1>6, <2>2, <3>1, SettledUndone DEF ForkRight, HasCause
  <2> QED
    BY <1>6, <2>1, <2>2 DEF ForkRight
<1>7. CASE KillLeft(p)
  BY <1>7, SettledUndone DEF KillLeft, args
<1>8. CASE KillRight(p)
  BY <1>8, SettledKillRight
<1>9. CASE ReapKilled(p)
  BY <1>9, SettledReapKilled
<1>10. CASE WaitLeft(p)
  BY <1>10, SettledWaitLeft
<1>11. CASE WaitRight(p)
  BY <1>11, SettledWaitRight
<1>12. CASE Die(p)
  BY <1>0, <1>12, SettledSignaled DEF Die, Goto
<1> QED
  BY <1>1, <1>2, <1>3, <1>4, <1>5, <1>6, <1>7, <1>8, <1>9, <1>10, <1>11, <1>12
  DEF Step, Sort, Terminate, Crash

-----------------------------------------------------------------------------
(* Whatever sorting, partitioning or dying does to a region, the file      *)
(* remains a file.                                                         *)
LEMMA FilesRemain ==
  ASSUME TypeOK, NEW p \in Proc
  PROVE  /\ QsortResults(arr, p[1], p[2]) \subseteq Files
         /\ \A r \in PartitionResults(arr, p[1], p[2]) :
              r[1] \in Files /\ r[2] \in 0 .. NumElements
         /\ Torn(p[1], p[2]) \subseteq Files
<1>1. p[1] \in Nat /\ p[2] \in Nat /\ p[2] <= NumElements /\ NumElements \in Nat
  BY Regions, SortAssumption
<1>2. Rearrangements(arr, p[1], p[2]) \subseteq Files
  BY <1>1, RearrangeElements DEF TypeOK
<1>3. \A m \in Region(p[1], p[2]) : m \in 0 .. NumElements
  BY <1>1 DEF Region
<1> QED
  BY <1>2, <1>3 DEF QsortResults, PartitionResults, Torn

LEMMA TypeStep ==
  ASSUME TypeOK, Tree, NEW p \in Proc, Step(p) \/ Terminate(p) \/ Crash(p)
  PROVE  TypeOK'
<1> USE DEF args
<1>0. pc[p] \in Running \ {"sort"} => Left(p) \in Proc /\ Right(p) \in Proc
  BY Halves DEF Tree
<1>1. CASE SortNothing(p)
  BY <1>1 DEF SortNothing, Return, TypeOK
<1>2. CASE SortSequentially(p)
  BY <1>2, FilesRemain DEF SortSequentially, Return, TypeOK
<1>3. CASE PartitionRegion(p)
  <2>1. arr' \in Files /\ mid' \in [Proc -> 0 .. NumElements]
    BY <1>3, FilesRemain DEF PartitionRegion, TypeOK
  <2> QED
    BY <1>3, <2>1 DEF PartitionRegion, Goto, TypeOK, Running
<1>4. CASE LeaveMapping(p)
  BY <1>4 DEF LeaveMapping, Goto, TypeOK
<1>5. ForkFails => failures' \in 0 .. MaxFailures
  BY ParSortAssumption DEF ForkFails, TypeOK
<1>6. ASSUME NEW c, NEW l \in Running, Spawn(p, c, l)
      PROVE  pc' \in [Proc -> Running \cup {"none", "exited", "signaled"}] /\ ret' = ret /\ failures' = failures
  BY <1>6 DEF Spawn, TypeOK, Running
<1>7. CASE ForkLeft(p)
  <2>1. CASE Spawn(p, Left(p), "fork_right")
    BY <1>6, <1>7, <2>1 DEF ForkLeft, TypeOK, Running
  <2>2. CASE ForkFails /\ Return(p, 0)
    BY <1>5, <1>7, <2>2 DEF ForkLeft, Return, TypeOK
  <2> QED
    BY <1>7, <2>1, <2>2 DEF ForkLeft
<1>8. CASE ForkRight(p)
  <2>1. CASE Spawn(p, Right(p), "wait_left")
    BY <1>6, <1>8, <2>1 DEF ForkRight, TypeOK, Running
  <2>2. CASE ForkFails /\ Goto(p, "kill_left")
    BY <1>5, <1>8, <2>2 DEF ForkRight, Goto, TypeOK, Running
  <2> QED
    BY <1>8, <2>1, <2>2 DEF ForkRight
<1>9. CASE KillLeft(p)
  BY <1>0, <1>9 DEF KillLeft, Kill, Goto, TypeOK, Running
<1>10. CASE KillRight(p)
  BY <1>0, <1>10 DEF KillRight, Kill, Goto, TypeOK, Running
<1>11. CASE ReapKilled(p)
  BY <1>0, <1>11 DEF ReapKilled, Reap, Return, TypeOK, Running
<1>12. \A q \in Proc : Success(q) \in {0, 1}
  BY DEF Success, TypeOK
<1>13. CASE WaitLeft(p)
  <2>1. Left(p) \in Proc
    BY <1>0, <1>13 DEF WaitLeft, Running
  <2>2. left_success' \in [Proc -> {0, 1}] /\ reaped' \subseteq Proc
    BY <1>12, <1>13, <2>1 DEF WaitLeft, TypeOK
  <2>3. pc' \in [Proc -> Running \cup {"none", "exited", "signaled"}] /\ ret' = ret
    BY <1>13 DEF WaitLeft, Goto, TypeOK, Running
  <2> QED
    BY <1>13, <2>2, <2>3 DEF WaitLeft, TypeOK
<1>14. CASE WaitRight(p)
  <2>1. Right(p) \in Proc
    BY <1>0, <1>14 DEF WaitRight, Running
  <2>2. reaped' \subseteq Proc
    BY <1>14, <2>1 DEF WaitRight, TypeOK
  <2>3. /\ pc' \in [Proc -> Running \cup {"none", "exited", "signaled"}]
        /\ ret' \in [Proc -> {0, 1}]
    BY <1>14 DEF WaitRight, Return, TypeOK
  <2> QED
    BY <1>14, <2>2, <2>3 DEF WaitRight, TypeOK
<1>15. ASSUME Die(p)
       PROVE  /\ arr' \in Files
              /\ pc' \in [Proc -> Running \cup {"none", "exited", "signaled"}]
              /\ UNCHANGED <<mid, left_success, ret, reaped, args>>
  BY <1>15, FilesRemain DEF Die, Goto, TypeOK
<1>16. CASE Terminate(p)
  BY <1>15, <1>16 DEF Terminate, TypeOK
<1>17. CASE Crash(p)
  <2>1. failures' \in 0 .. MaxFailures
    BY <1>17, ParSortAssumption DEF Crash, TypeOK
  <2> QED
    BY <1>15, <1>17, <2>1 DEF Crash, TypeOK
<1> QED
  BY <1>1, <1>2, <1>3, <1>4, <1>7, <1>8, <1>9, <1>10, <1>11, <1>13, <1>14, <1>16, <1>17
  DEF Step, Sort

-----------------------------------------------------------------------------
(* The invariant holds when main calls quicksort() ...                     *)
LEMMA InvInit == Init => IInv
<1> SUFFICES ASSUME Init PROVE IInv
  OBVIOUS
<1>1. \A q \in Proc : pc[q] = IF q = Main THEN "sort" ELSE "none"
  BY DEF Init
<1>2. TypeOK
  BY SortAssumption, ParSortAssumption, Regions DEF Init, TypeOK, Running
<1>3. Tree
  BY <1>1 DEF Tree, Started, FreshBelow, Running
<1>4. Reports
  BY <1>1 DEF Reports, Succeeded
<1>5. Quiet
  BY <1>1 DEF Quiet
<1>6. Causes
  BY <1>1 DEF Causes
<1> QED
  BY <1>2, <1>3, <1>4, <1>5, <1>6 DEF IInv

(* ... and every step keeps it.                                            *)
LEMMA InvStep == IInv /\ [Next]_vars => IInv'
<1> SUFFICES ASSUME IInv, [Next]_vars PROVE IInv'
  OBVIOUS
<1>1. CASE UNCHANGED vars
  <2>1. TypeOK'
    BY <1>1 DEF IInv, TypeOK, vars, args
  <2>2. Tree'
    BY <1>1 DEF IInv, Tree, Started, HasMid, Related, Apart, Under, Inside, Left, Right,
                Fresh, FreshBelow, vars, args
  <2>3. Reports'
    BY <1>1 DEF IInv, Reports, Succeeded, ReapedBelow, Reaped, Started, Inside, Left, vars, args
  <2>4. Quiet'
    BY <1>1 DEF IInv, Quiet, SomeSignaled, AllEndedIn, Started, Inside, Ended, Left, vars, args
  <2>5. Causes'
    BY <1>1 DEF IInv, Causes, HasCause, SomeSignaled, vars, args
  <2> QED
    BY <2>1, <2>2, <2>3, <2>4, <2>5 DEF IInv
<1>2. CASE Next
  <2>1. PICK p \in Proc : Step(p) \/ Terminate(p) \/ Crash(p)
    BY <1>2 DEF Next
  <2>2. TypeOK /\ Tree /\ Reports /\ Quiet /\ Causes
    BY DEF IInv
  <2>3. Turn(p) /\ Settled(p) /\ TypeOK'
    BY <2>1, <2>2, EveryStepIsATurn, EveryStepSettles, TypeStep
  <2>4. Tree'
    BY <2>2, <2>3, TreeStep DEF Settled
  <2>5. Reports'
    BY <2>2, <2>3, ReportsStep DEF Settled
  <2>6. Quiet'
    BY <2>2, <2>3, QuietStep DEF Settled
  <2>7. failures <= failures' /\ sigchld_ignored' = sigchld_ignored
    <3>1. failures \in Int
      BY <2>2, ParSortAssumption DEF TypeOK
    <3> QED
      BY <2>1, <3>1 DEF Step, Sort, Terminate, Crash, Die, SortNothing, SortSequentially,
         PartitionRegion, LeaveMapping, ForkLeft, ForkRight, Spawn, ForkFails, KillLeft,
         KillRight, ReapKilled, WaitLeft, WaitRight, args
  <2>8. Causes'
    BY <2>2, <2>3, <2>7, CausesStep DEF Settled
  <2> QED
    BY <2>3, <2>4, <2>5, <2>6, <2>8 DEF IInv
<1> QED
  BY <1>1, <1>2

LEMMA InvAlways == Spec => []IInv
BY InvInit, InvStep, PTL DEF Spec

-----------------------------------------------------------------------------
(* No two processes ever sort or partition overlapping parts of the shared *)
(* file, and every variable has its type.                                  *)
THEOREM NoRaces == Spec => []RaceFree
<1>1. IInv => RaceFree
  <2> SUFFICES ASSUME IInv, NEW p \in Proc, NEW q \in Proc, p # q, pc[p] = "sort", pc[q] = "sort"
               PROVE  Region(p[1], p[2]) \cap Region(q[1], q[2]) = {}
    BY DEF RaceFree, IInv
  <2>1. Started(p) /\ Started(q)
    BY DEF Started
  <2>2. Related(p, q) /\ ~Inside(p, q) /\ ~Inside(q, p)
    BY <2>1 DEF IInv, Tree, FreshBelow
  <2>3. Apart(p, q)
    BY <2>2, UnderIsInside DEF Related
  <2>4. p[1] \in Int /\ p[2] \in Int /\ q[1] \in Int /\ q[2] \in Int
    BY Regions
  <2> QED
    BY <2>3, <2>4 DEF Apart, Region
<1> QED
  BY <1>1, InvAlways, PTL

(* Exit status 0 of main means that every process that was ever started    *)
(* has exited with success and was waited for.                             *)
THEOREM SuccessReapsAllAlways == Spec => []SuccessReapsAll
<1>1. IInv => SuccessReapsAll
  BY Regions DEF IInv, Reports, ReapedBelow, Reaped, SuccessReapsAll, Started
<1> QED
  BY <1>1, InvAlways, PTL

(* When main has returned, also after a failure, nothing works on the file *)
(* any more, unless a process was killed.                                  *)
THEOREM QuietExitAlways == Spec => []QuietExit
<1>1. IInv => QuietExit
  BY Regions DEF IInv, Quiet, AllEndedIn, QuietExit, Started, Ended, Running
<1> QED
  BY <1>1, InvAlways, PTL

(* The sort never reports failure without a cause: a failed fork, a        *)
(* signal, or children that leave no status.                               *)
THEOREM FailureHasCauseAlways == Spec => []FailureHasCause
<1>1. IInv => FailureHasCause
  BY Regions DEF IInv, Causes, HasCause, FailureHasCause
<1> QED
  BY <1>1, InvAlways, PTL

-----------------------------------------------------------------------------
(* parsort implements AbstractSort, for every file, threshold and number   *)
(* of failures: exit status 0 is reported of a sorted rearrangement of the *)
(* file.  The invariant above says who may still write where; what is      *)
(* added here is the order of the elements in the regions nobody writes to.*)

(* Left of the midpoint nothing is larger, right of it nothing smaller.    *)
Split(p) ==
  /\ \A i \in p[1] .. (mid[p] - 1) : arr[i] <= arr[mid[p]]
  /\ \A i \in (mid[p] + 1) .. (p[2] - 1) : arr[mid[p]] <= arr[i]

Ordered ==
  SomeSignaled \/
  \A p \in Proc :
    /\ pc[p] \in Running \ {"sort"} => Split(p)
    /\ Succeeded(p) => SortedRegion(arr, p[1], p[2])

-----------------------------------------------------------------------------
(* A rearrangement of a region leaves the rest alone and is one of the     *)
(* whole file.                                                             *)
LEMMA RearrangeWithin ==
  ASSUME NEW a \in Files, NEW s \in Nat, NEW e \in Nat, e <= NumElements,
         NEW b \in Rearrangements(a, s, e)
  PROVE  /\ b \in Rearrangements(a, 0, NumElements)
         /\ \A i \in Index \ Region(s, e) : b[i] = a[i]
<1> DEFINE R == Region(s, e)
           W == Region(0, NumElements)
<1>1. PICK f \in Bijection(R, R) : b = Permuted(a, s, e, f)
  BY DEF Rearrangements
<1>2. f \in [R -> R] /\ (\A x, y \in R : f[x] = f[y] => x = y)
                     /\ (\A y \in R : \E x \in R : f[x] = y)
  BY <1>1 DEF Bijection, Injection, Surjection, IsInjective
<1>3. R \subseteq W /\ W = Index
  BY SortAssumption DEF Region, Index
<1> DEFINE g == [i \in W |-> IF i \in R THEN f[i] ELSE i]
<1>4. g \in [W -> W] /\ (\A x, y \in W : g[x] = g[y] => x = y)
  BY <1>2, <1>3
<1>5. \A y \in W : \E x \in W : g[x] = y
  <2> SUFFICES ASSUME NEW y \in W PROVE \E x \in W : g[x] = y
    OBVIOUS
  <2>1. CASE y \in R
    BY <1>2, <1>3, <2>1
  <2>2. CASE y \notin R
    BY <2>2
  <2> QED
    BY <2>1, <2>2
<1>6. g \in Bijection(W, W)
  BY <1>4, <1>5 DEF Bijection, Injection, Surjection, IsInjective
<1>7. b = Permuted(a, 0, NumElements, g)
  BY <1>1, <1>3 DEF Permuted
<1>8. \A i \in Index \ R : b[i] = a[i]
  BY <1>1 DEF Permuted
<1> QED
  BY <1>6, <1>7, <1>8 DEF Rearrangements

(* As long as nobody is killed, only a process that sorts or partitions    *)
(* changes the file, and it rearranges its own region.                     *)
Writes(p) ==
  \/ UNCHANGED arr
  \/ pc[p] = "sort" /\ arr' \in Rearrangements(arr, p[1], p[2])

LEMMA OnlyWrites ==
  ASSUME TypeOK, NEW p \in Proc, Step(p) \/ Terminate(p) \/ Crash(p), ~SomeSignaled'
  PROVE  Writes(p) /\ Step(p)
<1>1. pc \in [Proc -> Running \cup {"none", "exited", "signaled"}] /\ pc'[p] # "signaled"
  BY DEF TypeOK, SomeSignaled
<1>2. ~Die(p) /\ ~LeaveMapping(p)
  BY <1>1 DEF Die, LeaveMapping, Goto
<1>3. Step(p)
  BY <1>2 DEF Terminate, Crash
<1>4. SortSequentially(p) => Writes(p)
  BY DEF SortSequentially, QsortResults, Writes
<1>5. PartitionRegion(p) => Writes(p)
  BY DEF PartitionRegion, MustPartition, PartitionResults, Writes
<1> QED
  BY <1>2, <1>3, <1>4, <1>5
  DEF Step, Sort, SortNothing, ForkLeft, ForkRight, KillLeft, KillRight, ReapKilled,
      WaitLeft, WaitRight, Writes

(* What a write of p does to the regions of the others: nothing to regions *)
(* apart; below a half of r it only moves elements of that half about.     *)
LEMMA WritesKeepSplit ==
  ASSUME IInv, NEW p \in Proc, Writes(p), Turn(p),
         NEW r \in Proc \ {p}, pc[r] \in Running \ {"sort"}, Split(r)
  PROVE  Split(r)'
<1>0. mid'[r] = mid[r] /\ HasMid(r)
  BY DEF Turn, IInv, Tree
<1>1. CASE UNCHANGED arr
  BY <1>0, <1>1 DEF Split
<1>2. CASE pc[p] = "sort" /\ arr' \in Rearrangements(arr, p[1], p[2])
  <2>1. /\ p[1] \in Int /\ p[2] \in Int /\ p[1] \in Nat /\ p[2] \in Nat /\ p[2] <= NumElements
        /\ p[1] <= p[2] /\ r[1] \in Int /\ r[2] \in Int /\ r[1] \in Nat
        /\ r[2] <= NumElements /\ NumElements \in Nat
    BY Regions, SortAssumption
  <2>2. /\ mid[r] \in Int /\ r[1] <= mid[r] /\ mid[r] < r[2]
    BY <1>0, Halves
  <2>3. arr \in Files
    BY DEF IInv, TypeOK
  <2>4. /\ \A i \in Region(p[1], p[2]) : \E k \in Region(p[1], p[2]) : arr'[i] = arr[k]
        /\ \A i \in Index \ Region(p[1], p[2]) : arr'[i] = arr[i]
    BY <1>2, <2>1, <2>3, RearrangeElements, RearrangeWithin
  <2>5. Started(p) /\ Started(r)
    BY DEF Turn, Started, Running
  <2>6. ~Inside(r, p) /\ Related(p, r)
    BY <1>2, <2>5 DEF IInv, Tree, FreshBelow
  <2>7. \A i \in r[1] .. (r[2] - 1) : i \in Index
    BY <2>1 DEF Index
  <2>8. CASE Apart(p, r)
    <3>1. \A i \in r[1] .. (r[2] - 1) : arr'[i] = arr[i]
      BY <2>1, <2>4, <2>7, <2>8 DEF Apart, Region
    <3>2. /\ \A i \in r[1] .. (mid[r] - 1) : arr'[i] = arr[i]
          /\ \A i \in (mid[r] + 1) .. (r[2] - 1) : arr'[i] = arr[i]
          /\ arr'[mid[r]] = arr[mid[r]]
      BY <2>1, <2>2, <3>1
    <3> QED
      BY <1>0, <3>2 DEF Split
  <2>9. CASE Under(p, r)
    <3>1. CASE Inside(p, Left(r))
      <4>1. r[1] <= p[1] /\ p[2] <= mid[r]
        BY <1>0, <3>1, Halves DEF Inside
      <4>2. mid[r] \in Index \ Region(p[1], p[2])
        BY <2>1, <2>2, <2>7, <4>1 DEF Region
      <4>3. arr'[mid[r]] = arr[mid[r]]
        BY <2>4, <4>2
      <4>4. \A i \in (mid[r] + 1) .. (r[2] - 1) : i \in Index \ Region(p[1], p[2])
        BY <2>1, <2>2, <2>7, <4>1 DEF Region
      <4>5. \A i \in r[1] .. (mid[r] - 1) : \E k \in r[1] .. (mid[r] - 1) : arr'[i] = arr[k]
        <5> SUFFICES ASSUME NEW i \in r[1] .. (mid[r] - 1)
                     PROVE  \E k \in r[1] .. (mid[r] - 1) : arr'[i] = arr[k]
          OBVIOUS
        <5>1. i \in Index
          BY <2>1, <2>2, <2>7
        <5>2. CASE i \in Region(p[1], p[2])
          <6>1. PICK k \in Region(p[1], p[2]) : arr'[i] = arr[k]
            BY <2>4, <5>2
          <6>2. k \in r[1] .. (mid[r] - 1)
            BY <2>1, <2>2, <4>1 DEF Region
          <6> QED
            BY <6>1, <6>2
        <5>3. CASE i \notin Region(p[1], p[2])
          BY <2>4, <5>1, <5>3
        <5> QED
          BY <5>2, <5>3
      <4> QED
        BY <1>0, <2>4, <4>3, <4>4, <4>5 DEF Split
    <3>2. CASE Inside(p, Right(r))
      <4>1. mid[r] + 1 <= p[1] /\ p[2] <= r[2]
        BY <1>0, <3>2, Halves DEF Inside
      <4>2. mid[r] \in Index \ Region(p[1], p[2])
        BY <2>1, <2>2, <2>7, <4>1 DEF Region
      <4>3. arr'[mid[r]] = arr[mid[r]]
        BY <2>4, <4>2
      <4>4. \A i \in r[1] .. (mid[r] - 1) : i \in Index \ Region(p[1], p[2])
        BY <2>1, <2>2, <2>7, <4>1 DEF Region
      <4>5. \A i \in (mid[r] + 1) .. (r[2] - 1) :
              \E k \in (mid[r] + 1) .. (r[2] - 1) : arr'[i] = arr[k]
        <5> SUFFICES ASSUME NEW i \in (mid[r] + 1) .. (r[2] - 1)
                     PROVE  \E k \in (mid[r] + 1) .. (r[2] - 1) : arr'[i] = arr[k]
          OBVIOUS
        <5>1. i \in Index
          BY <2>1, <2>2, <2>7
        <5>2. CASE i \in Region(p[1], p[2])
          <6>1. PICK k \in Region(p[1], p[2]) : arr'[i] = arr[k]
            BY <2>4, <5>2
          <6>2. k \in (mid[r] + 1) .. (r[2] - 1)
            BY <2>1, <2>2, <4>1 DEF Region
          <6> QED
            BY <6>1, <6>2
        <5>3. CASE i \notin Region(p[1], p[2])
          BY <2>4, <5>1, <5>3
        <5> QED
          BY <5>2, <5>3
      <4> QED
        BY <1>0, <2>4, <4>3, <4>4, <4>5 DEF Split
    <3> QED
      BY <2>9, <3>1, <3>2 DEF Under
  <2> QED
    BY <2>6, <2>8, <2>9, UnderIsInside DEF Related
<1> QED
  BY <1>1, <1>2 DEF Writes

(* A region reported sorted is written to by nobody any more.              *)
LEMMA WritesKeepSorted ==
  ASSUME IInv, NEW p \in Proc, Writes(p), Turn(p),
         NEW r \in Proc \ {p}, Succeeded(r), SortedRegion(arr, r[1], r[2])
  PROVE  SortedRegion(arr, r[1], r[2])'
<1>1. CASE UNCHANGED arr
  BY <1>1 DEF SortedRegion, Region
<1>2. CASE pc[p] = "sort" /\ arr' \in Rearrangements(arr, p[1], p[2])
  <2>1. /\ p[1] \in Int /\ p[2] \in Int /\ p[1] \in Nat /\ p[2] \in Nat /\ p[2] <= NumElements
        /\ r[1] \in Int /\ r[2] \in Int /\ r[1] \in Nat
        /\ r[2] <= NumElements /\ NumElements \in Nat
    BY Regions, SortAssumption
  <2>2. \A i \in Index \ Region(p[1], p[2]) : arr'[i] = arr[i]
    BY <1>2, <2>1, RearrangeWithin DEF IInv, TypeOK
  <2>3. Started(p) /\ Started(r) /\ ~Succeeded(p)
    BY DEF Turn, Started, Running, Succeeded
  <2>4. ~Inside(r, p) /\ Related(p, r) /\ ~Inside(p, r)
    BY <1>2, <2>3 DEF IInv, Tree, FreshBelow, Reports, ReapedBelow, Reaped
  <2>5. Apart(p, r)
    BY <2>4, UnderIsInside DEF Related
  <2>6. \A i \in Region(r[1], r[2]) : arr'[i] = arr[i]
    BY <2>1, <2>2, <2>5 DEF Apart, Region, Index
  <2> QED
    BY <2>6 DEF SortedRegion
<1> QED
  BY <1>1, <1>2 DEF Writes

-----------------------------------------------------------------------------
(* The elements of a file are integers.                                    *)
LEMMA ElementsAreIntegers == \A a \in Files, i \in Index : a[i] \in Int
BY SortAssumption DEF Files

(* What partition() leaves is split around its midpoint.                   *)
LEMMA PartitionSplits ==
  ASSUME IInv, NEW p \in Proc, PartitionRegion(p)
  PROVE  Split(p)'
<1>1. PICK r \in PartitionResults(arr, p[1], p[2]) :
         arr' = r[1] /\ mid' = [mid EXCEPT ![p] = r[2]]
  BY DEF PartitionRegion
<1>2. mid'[p] = r[2]
  BY <1>1 DEF IInv, TypeOK
<1>3. arr' \in Files /\ r[2] \in Region(p[1], p[2])
  BY <1>1, FilesRemain DEF IInv, PartitionResults
<1>4. /\ p[1] \in Int /\ p[2] \in Int /\ p[1] \in Nat /\ p[2] <= NumElements
  BY Regions
<1>5. \A i \in Region(p[1], p[2]) : arr'[i] \in Int
  <2>1. \A i \in Region(p[1], p[2]) : i \in Index
    BY <1>4, SortAssumption DEF Region, Index
  <2> QED
    BY <1>3, <2>1, ElementsAreIntegers
<1>6. /\ \A i \in p[1] .. (r[2] - 1) : arr'[i] < arr'[r[2]]
      /\ \A i \in (r[2] + 1) .. (p[2] - 1) : arr'[i] >= arr'[r[2]]
  BY <1>1 DEF PartitionResults, Partitioned
<1>7. /\ \A i \in p[1] .. (r[2] - 1) : i \in Region(p[1], p[2])
      /\ \A i \in (r[2] + 1) .. (p[2] - 1) : i \in Region(p[1], p[2])
  BY <1>3, <1>4 DEF Region
<1> QED
  BY <1>2, <1>3, <1>5, <1>6, <1>7 DEF Split

(* A split region with two sorted halves is sorted.                        *)
LEMMA HalvesMakeAWhole ==
  ASSUME TypeOK, NEW p \in Proc, HasMid(p), Split(p),
         SortedRegion(arr, Left(p)[1], Left(p)[2]), SortedRegion(arr, Right(p)[1], Right(p)[2])
  PROVE  SortedRegion(arr, p[1], p[2])
<1>1. /\ p[1] \in Int /\ p[2] \in Int /\ p[1] \in Nat /\ p[2] <= NumElements
      /\ mid[p] \in Int /\ p[1] <= mid[p] /\ mid[p] < p[2]
  BY Regions, Halves
<1>2. /\ \A i, j \in p[1] .. (mid[p] - 1) : i <= j => arr[i] <= arr[j]
      /\ \A i, j \in (mid[p] + 1) .. (p[2] - 1) : i <= j => arr[i] <= arr[j]
  BY Halves DEF SortedRegion, Region
<1>3. \A i \in p[1] .. (p[2] - 1) : arr[i] \in Int
  <2>1. \A i \in p[1] .. (p[2] - 1) : i \in Index
    BY <1>1, SortAssumption DEF Index
  <2> QED
    BY <2>1, ElementsAreIntegers DEF TypeOK
<1> SUFFICES ASSUME NEW i \in p[1] .. (p[2] - 1), NEW j \in p[1] .. (p[2] - 1), i <= j
             PROVE  arr[i] <= arr[j]
  BY DEF SortedRegion, Region
<1>4. arr[i] \in Int /\ arr[j] \in Int /\ arr[mid[p]] \in Int
  BY <1>1, <1>3
<1>5. CASE j < mid[p]
  BY <1>1, <1>2, <1>5
<1>6. CASE mid[p] < i
  BY <1>1, <1>2, <1>6
<1>7. CASE i <= mid[p] /\ mid[p] <= j
  <2>1. arr[i] <= arr[mid[p]]
    <3>1. CASE i = mid[p]
      BY <1>4, <3>1
    <3>2. CASE i # mid[p]
      BY <1>1, <1>7, <3>2 DEF Split
    <3> QED
      BY <3>1, <3>2
  <2>2. arr[mid[p]] <= arr[j]
    <3>1. CASE j = mid[p]
      BY <1>4, <3>1
    <3>2. CASE j # mid[p]
      BY <1>1, <1>7, <3>2 DEF Split
    <3> QED
      BY <3>1, <3>2
  <2> QED
    BY <1>4, <2>1, <2>2
<1> QED
  BY <1>1, <1>5, <1>6, <1>7

(* A process that has partitioned its region has not sorted it, and one    *)
(* that succeeds has found nothing to sort, sorted, or waited for both.    *)
LEMMA LeavesSortSplit ==
  ASSUME TypeOK, NEW p \in Proc, Step(p), pc[p] = "sort", pc'[p] \in Running \ {"sort"}
  PROVE  PartitionRegion(p)
<1>1. ~SortNothing(p) /\ ~SortSequentially(p) /\ ~LeaveMapping(p)
  BY DEF SortNothing, SortSequentially, LeaveMapping, Return, Goto, TypeOK, Running
<1> QED
  BY <1>1 DEF Step, Sort, ForkLeft, ForkRight, KillLeft, KillRight, ReapKilled,
              WaitLeft, WaitRight

LEMMA WaysToSucceed ==
  ASSUME TypeOK, Tree, NEW p \in Proc, Step(p), Succeeded(p)'
  PROVE  SortNothing(p) \/ SortSequentially(p) \/ WaitRight(p)
<1>0. TypeOK /\ Tree
  OBVIOUS
<1>1. pc'[p] = "exited" /\ ret'[p] = 1
  BY DEF Succeeded
<1>2. /\ ~PartitionRegion(p) /\ ~LeaveMapping(p) /\ ~KillLeft(p) /\ ~KillRight(p)
      /\ ~ReapKilled(p) /\ ~WaitLeft(p)
  BY <1>0, <1>1 DEF PartitionRegion, LeaveMapping, KillLeft, KillRight, ReapKilled, WaitLeft,
                    Goto, Return, TypeOK
<1>3. ~ForkLeft(p)
  <2>1. pc[p] = "fork_left" /\ Spawn(p, Left(p), "fork_right") => pc'[p] # "exited"
    <3>1. pc[p] = "fork_left" => HasMid(p)
      BY <1>0 DEF Tree, Running
    <3>2. HasMid(p) => Left(p) # p
      BY Halves, Regions
    <3> QED
      BY <1>0, <3>1, <3>2 DEF Spawn, TypeOK
  <2> QED
    BY <1>0, <1>1, <2>1 DEF ForkLeft, Return, TypeOK
<1>4. ~ForkRight(p)
  <2>1. pc[p] = "fork_right" /\ Spawn(p, Right(p), "wait_left") => pc'[p] # "exited"
    BY <1>0 DEF Spawn, TypeOK
  <2> QED
    BY <1>0, <1>1, <2>1 DEF ForkRight, Goto, TypeOK
<1> QED
  BY <1>2, <1>3, <1>4 DEF Step, Sort

(* The order is kept by every step that kills nobody.                      *)
LEMMA OrderedStep ==
  ASSUME IInv, Ordered, NEW p \in Proc, Step(p) \/ Terminate(p) \/ Crash(p)
  PROVE  Ordered'
<1>0. TypeOK /\ Tree
  BY DEF IInv
<1>1. Turn(p) /\ Settled(p) /\ TypeOK'
  BY <1>0, EveryStepIsATurn, EveryStepSettles, TypeStep
<1>2. SUFFICES ASSUME ~SomeSignaled'
               PROVE  \A r \in Proc :
                        /\ pc'[r] \in Running \ {"sort"} => Split(r)'
                        /\ Succeeded(r)' => SortedRegion(arr, r[1], r[2])'
  BY DEF Ordered
<1>3. ~SomeSignaled
  BY <1>1, <1>2 DEF SomeSignaled, Turn, Born, Running
<1>4. Writes(p) /\ Step(p)
  BY <1>0, <1>2, OnlyWrites
<1>5. ASSUME NEW r \in Proc \ {p}, pc'[r] \in Running \ {"sort"} PROVE Split(r)'
  <2>1. pc[r] = pc'[r]
    BY <1>1, <1>5 DEF Turn, Born
  <2>2. Split(r)
    BY <1>3, <1>5, <2>1 DEF Ordered
  <2> QED
    BY <1>1, <1>4, <1>5, <2>1, <2>2, WritesKeepSplit
<1>6. ASSUME NEW r \in Proc \ {p}, Succeeded(r)' PROVE SortedRegion(arr, r[1], r[2])'
  <2>1. Succeeded(r)
    BY <1>1, <1>6 DEF Turn, Born, Succeeded
  <2>2. SortedRegion(arr, r[1], r[2])
    BY <1>3, <2>1 DEF Ordered
  <2> QED
    BY <1>1, <1>4, <2>1, <2>2, WritesKeepSorted
<1>7. ASSUME pc'[p] \in Running \ {"sort"} PROVE Split(p)'
  <2>1. CASE PartitionRegion(p)
    BY <2>1, PartitionSplits
  <2>2. CASE pc[p] # "sort"
    <3>1. arr' = arr /\ mid'[p] = mid[p] /\ Split(p)
      BY <1>1, <1>3, <1>4, <2>2 DEF Writes, Turn, Ordered
    <3> QED
      BY <3>1 DEF Split
  <2>3. pc[p] = "sort" => PartitionRegion(p)
    BY <1>0, <1>4, <1>7, LeavesSortSplit
  <2> QED
    BY <2>1, <2>2, <2>3
<1>8. ASSUME Succeeded(p)' PROVE SortedRegion(arr, p[1], p[2])'
  <2>1. CASE SortNothing(p)
    <3>1. p[1] \in Int /\ p[2] \in Int /\ p[2] - p[1] < 2 /\ p[1] \in Nat /\ p[2] <= NumElements
      BY <2>1, Regions DEF SortNothing, Len
    <3>2. \A i \in Region(p[1], p[2]) : arr'[i] \in Int
      <4>1. \A i \in Region(p[1], p[2]) : i \in Index
        BY <3>1, SortAssumption DEF Index, Region
      <4> QED
        BY <1>1, <4>1, ElementsAreIntegers DEF TypeOK
    <3>3. \A i, j \in Region(p[1], p[2]) : i = j
      BY <3>1 DEF Region
    <3> QED
      BY <3>2, <3>3 DEF SortedRegion
  <2>2. CASE SortSequentially(p)
    BY <2>2 DEF SortSequentially, QsortResults, SortedRegion
  <2>3. CASE WaitRight(p)
    <3>1. /\ pc[p] = "wait_right" /\ arr' = arr
          /\ ret'[p] = IF left_success[p] = 1 /\ Success(Right(p)) = 1 THEN 1 ELSE 0
      BY <1>0, <2>3 DEF WaitRight, Return, TypeOK
    <3>2. left_success[p] = 1 /\ Success(Right(p)) = 1
      BY <1>8, <3>1 DEF Succeeded
    <3>3. Succeeded(Left(p)) /\ Succeeded(Right(p))
      BY <3>1, <3>2 DEF IInv, Reports, Reaped, Success, Succeeded
    <3>4. HasMid(p) /\ Split(p)
      BY <1>3, <3>1 DEF IInv, Tree, Ordered, Running
    <3>5. Left(p) \in Proc /\ Right(p) \in Proc
      BY <3>4, Halves
    <3>6. /\ SortedRegion(arr, Left(p)[1], Left(p)[2])
          /\ SortedRegion(arr, Right(p)[1], Right(p)[2])
      BY <1>3, <3>3, <3>5 DEF Ordered
    <3>7. SortedRegion(arr, p[1], p[2])
      BY <1>0, <3>4, <3>6, HalvesMakeAWhole
    <3> QED
      BY <3>1, <3>7 DEF SortedRegion
  <2>4. SortNothing(p) \/ SortSequentially(p) \/ WaitRight(p)
    BY <1>0, <1>4, <1>8, WaysToSucceed
  <2> QED
    BY <2>1, <2>2, <2>3, <2>4
<1> QED
  BY <1>5, <1>6, <1>7, <1>8

-----------------------------------------------------------------------------
(* A failure is never forgotten.                                           *)
LEMMA FailingLasts ==
  ASSUME IInv, NEW p \in Proc, Step(p) \/ Terminate(p) \/ Crash(p),
         NEW q \in Proc, Failing(q)
  PROVE  Failing(q)'
<1>0. TypeOK /\ Tree
  BY DEF IInv
<1>1. Turn(p)
  BY <1>0, EveryStepIsATurn
<1>2. CASE q # p
  <2>1. pc'[q] = pc[q] /\ ret'[q] = ret[q]
    BY <1>1, <1>2 DEF Turn, Born, Failing
  <2> QED
    BY <2>1 DEF Failing
<1>3. CASE q = p
  <2>1. pc[p] \in {"kill_left", "reap_left", "kill_right", "reap_right"}
    BY <1>1, <1>3 DEF Turn, Running, Failing
  <2>2. CASE KillLeft(p) \/ KillRight(p)
    BY <1>0, <1>3, <2>2 DEF KillLeft, KillRight, Goto, Failing, TypeOK
  <2>3. CASE ReapKilled(p)
    BY <1>0, <1>3, <2>3 DEF ReapKilled, Return, Failing, TypeOK
  <2>4. CASE Die(p)
    BY <1>0, <1>3, <2>4 DEF Die, Goto, Failing, TypeOK
  <2>5. KillLeft(p) \/ KillRight(p) \/ ReapKilled(p) \/ Die(p)
    BY <2>1 DEF Step, Sort, SortNothing, SortSequentially, PartitionRegion, LeaveMapping,
                MustPartition, ForkLeft, ForkRight, WaitLeft, WaitRight, Terminate, Crash
  <2> QED
    BY <2>2, <2>3, <2>4, <2>5
<1> QED
  BY <1>2, <1>3

(* Once main has succeeded nobody is left to take a step.                  *)
LEMMA SuccessIsFinal ==
  ASSUME IInv, Succeeded(Main), NEW p \in Proc
  PROVE  pc[p] \notin Running /\ ~Failing(p)
<1>1. Main \in Proc /\ Inside(p, Main)
  BY Regions
<1>2. pc[p] = "none" \/ Succeeded(p)
  BY <1>1 DEF IInv, Reports, ReapedBelow, Reaped, Started
<1> QED
  BY <1>2 DEF Succeeded, Failing, Running

(* Both specifications mean the same by a file and its rearrangements.     *)
LEMMA SameOperators ==
  /\ Abstract!Files = Files
  /\ \A a, s, e : Abstract!Rearrangements(a, s, e) = Rearrangements(a, s, e)
  /\ \A a, s, e : Abstract!SortedRegion(a, s, e) <=> SortedRegion(a, s, e)
<1>1. Abstract!Files = Files /\ Abstract!Index = Index
  BY DEF Abstract!Files, Abstract!Index, Files, Index
<1>2. \A s, e : Abstract!Region(s, e) = Region(s, e)
  BY DEF Abstract!Region, Region
<1>3. \A a, s, e : Abstract!SortedRegion(a, s, e) <=> SortedRegion(a, s, e)
  BY <1>2 DEF Abstract!SortedRegion, SortedRegion
<1>4. \A S : Abstract!Bijection(S, S) = Bijection(S, S)
  BY DEF Abstract!Bijection, Abstract!Injection, Abstract!Surjection, Abstract!IsInjective,
         Bijection, Injection, Surjection, IsInjective
<1>5. \A a, s, e, f : Abstract!Permuted(a, s, e, f) = Permuted(a, s, e, f)
  BY <1>1, <1>2 DEF Abstract!Permuted, Permuted
<1>6. \A a, s, e : Abstract!Rearrangements(a, s, e) = Rearrangements(a, s, e)
  BY <1>2, <1>4, <1>5 DEF Abstract!Rearrangements, Rearrangements
<1> QED
  BY <1>1, <1>3, <1>6

(* A step of the process tree is a step of the abstract sort.              *)
LEMMA StepImplements ==
  ASSUME IInv, IInv', Ordered', NEW p \in Proc, Step(p) \/ Terminate(p) \/ Crash(p)
  PROVE  [Abstract!Next]_(Abstract!vars)
<1>0. TypeOK /\ Tree /\ arr' \in Files /\ arr \in Files /\ Main \in Proc
  BY Regions DEF IInv, TypeOK
<1>1. Turn(p)
  BY <1>0, EveryStepIsATurn
<1>2. ~Succeeded(Main)
  BY <1>1, SuccessIsFinal DEF Turn
<1>3. CASE Ended(Main)
  <2>1. p # Main
    BY <1>1, <1>3 DEF Turn, Ended, Running
  <2>2. pc'[Main] = pc[Main] /\ ret'[Main] = ret[Main]
    BY <1>0, <1>1, <1>3, <2>1 DEF Turn, Born, Ended
  <2>3. Outcome = "failed" /\ Outcome' = "failed"
    BY <1>2, <1>3, <2>2 DEF Outcome, Succeeded, Ended
  <2> QED
    BY <1>0, <2>3, SameOperators DEF Abstract!Next, Abstract!Damage
<1>4. CASE ~Ended(Main) /\ \E q \in Proc : Failing(q)
  <2>1. \E q \in Proc : Failing(q)'
    BY <1>4, FailingLasts
  <2>2. ~Succeeded(Main)'
    <3>1. ASSUME Succeeded(Main)', NEW q \in Proc PROVE ~Failing(q)'
      <4>1. Inside(q, Main)
        BY Regions
      <4>2. pc'[q] = "none" \/ Succeeded(q)'
        BY <1>0, <3>1, <4>1 DEF IInv, Reports, ReapedBelow, Reaped, Started, Inside, Main
      <4> QED
        BY <4>2 DEF Succeeded, Failing
    <3> QED
      BY <2>1, <3>1
  <2>3. Outcome = "doomed" /\ Outcome' \in {"doomed", "failed"}
    BY <1>2, <1>4, <2>1, <2>2 DEF Outcome
  <2> QED
    BY <1>0, <2>3, SameOperators DEF Abstract!Next, Abstract!Damage, Abstract!Fail
<1>5. CASE ~Ended(Main) /\ ~\E q \in Proc : Failing(q)
  <2>1. Outcome = "running"
    BY <1>2, <1>5 DEF Outcome
  <2>2. Outcome' \in {"ok", "failed", "doomed", "running"}
    BY DEF Outcome
  <2>3. CASE Outcome' = "doomed"
    BY <1>0, <2>1, <2>3, SameOperators DEF Abstract!Next, Abstract!Doom
  <2>4. CASE Outcome' = "failed"
    BY <1>0, <2>1, <2>4, SameOperators DEF Abstract!Next, Abstract!Fail
  <2>5. CASE Outcome' \in {"ok", "running"}
    <3>1. ~SomeSignaled'
      <4>1. CASE Outcome' = "ok"
        <5>1. Succeeded(Main)'
          BY <4>1 DEF Outcome
        <5>2. ASSUME NEW q \in Proc PROVE pc'[q] # "signaled"
          <6>1. Inside(q, Main)
            BY Regions
          <6>2. pc'[q] = "none" \/ Succeeded(q)'
            BY <1>0, <5>1, <6>1 DEF IInv, Reports, ReapedBelow, Reaped, Started, Inside, Main
          <6> QED
            BY <6>2 DEF Succeeded
        <5> QED
          BY <5>2 DEF SomeSignaled
      <4>2. CASE Outcome' = "running"
        BY <4>2 DEF Outcome, SomeSignaled, Failing
      <4> QED
        BY <2>5, <4>1, <4>2
    <3>2. Writes(p)
      BY <1>0, <3>1, OnlyWrites
    <3>3. arr' \in Rearrangements(arr, 0, NumElements)
      <4>1. CASE UNCHANGED arr
        BY <1>0, <4>1, SortAssumption, RearrangeNothing
      <4>2. CASE arr' \in Rearrangements(arr, p[1], p[2])
        <5>1. p[1] \in Nat /\ p[2] \in Nat /\ p[2] <= NumElements
          BY Regions
        <5> QED
          BY <1>0, <4>2, <5>1, RearrangeWithin
      <4> QED
        BY <3>2, <4>1, <4>2 DEF Writes
    <3>4. CASE Outcome' = "running"
      BY <2>1, <3>3, <3>4, SameOperators DEF Abstract!Next, Abstract!Rearrange
    <3>5. CASE Outcome' = "ok"
      <4>1. Succeeded(Main)'
        BY <3>5 DEF Outcome
      <4>2. SortedRegion(arr', 0, NumElements)
        BY <1>0, <3>1, <4>1 DEF Ordered, Main, SortedRegion
      <4> QED
        BY <2>1, <3>3, <3>5, <4>2, SameOperators DEF Abstract!Next, Abstract!Succeed
    <3> QED
      BY <2>5, <3>4, <3>5
  <2> QED
    BY <2>2, <2>3, <2>4, <2>5
<1> QED
  BY <1>3, <1>4, <1>5

LEMMA OrderedAlways == Spec => []Ordered
<1>1. Init => Ordered
  BY DEF Init, Ordered, Succeeded, Running
<1>2. IInv /\ Ordered /\ [Next]_vars => Ordered'
  <2> SUFFICES ASSUME IInv, Ordered, [Next]_vars PROVE Ordered'
    OBVIOUS
  <2>1. CASE UNCHANGED vars
    BY <2>1 DEF Ordered, SomeSignaled, Split, Succeeded, SortedRegion, vars, args
  <2>2. CASE Next
    BY <2>2, OrderedStep DEF Next
  <2> QED
    BY <2>1, <2>2
<1> QED
  BY <1>1, <1>2, InvAlways, PTL DEF Spec

(* parsort implements AbstractSort: exit status 0 only of a sorted file    *)
(* with the elements it was given, which nothing changes from then on.     *)
THEOREM Implements == Spec => ImplementsAbstractSort
<1>1. Init => Abstract!Init
  <2> SUFFICES ASSUME Init PROVE Abstract!Init
    OBVIOUS
  <2>1. \A q \in Proc : pc[q] = IF q = Main THEN "sort" ELSE "none"
    BY DEF Init
  <2>2. Outcome = "running"
    BY <2>1, Regions DEF Outcome, Succeeded, Ended, Failing
  <2> QED
    BY <2>2, SameOperators DEF Abstract!Init, Init
<1>2. IInv /\ IInv' /\ Ordered' /\ [Next]_vars => [Abstract!Next]_(Abstract!vars)
  <2> SUFFICES ASSUME IInv, IInv', Ordered', [Next]_vars
               PROVE  [Abstract!Next]_(Abstract!vars)
    OBVIOUS
  <2>1. CASE UNCHANGED vars
    BY <2>1 DEF vars, args, Abstract!vars, Outcome, Succeeded, Ended, Failing
  <2>2. CASE Next
    BY <2>2, StepImplements DEF Next
  <2> QED
    BY <2>1, <2>2
<1> QED
  BY <1>1, <1>2, InvAlways, OrderedAlways, PTL DEF Spec, ImplementsAbstractSort, Abstract!Spec
-----------------------------------------------------------------------------
(* Every pivot is globally in the correct place.  To count what is smaller *)
(* than an element in the file main was given, nothing about that file is  *)
(* needed but that the present one rearranges it; what has to be shown is  *)
(* where elements cannot cross any more.                                   *)

(* No element before position k is larger than one from k on.              *)
Cut(a, k) == \A i, j \in Index : (i < k /\ k <= j) => a[i] <= a[j]

(* Where p guarantees a cut: around its region, around the pivot it has    *)
(* placed, and everywhere in a region it has reported sorted.              *)
Marks(p) ==
  {p[1], p[2]}
    \cup (IF pc[p] \in Running \ {"sort"} THEN {mid[p], mid[p] + 1} ELSE {})
    \cup (IF Succeeded(p) THEN p[1] .. p[2] ELSE {})

Placed ==
  SomeSignaled \/
    /\ arr \in Rearrangements(input, 0, NumElements)
    /\ \A p \in Proc : Started(p) => \A k \in Marks(p) : Cut(arr, k)

-----------------------------------------------------------------------------
(* A rearrangement of a rearrangement is one of the original.              *)
LEMMA RearrangeTwice ==
  ASSUME NEW a \in Files, NEW b \in Rearrangements(a, 0, NumElements),
         NEW c \in Rearrangements(b, 0, NumElements)
  PROVE  c \in Rearrangements(a, 0, NumElements)
<1> DEFINE W == Region(0, NumElements)
<1>0. W = Index
  BY SortAssumption DEF Region, Index
<1>1. PICK f \in Bijection(W, W) : b = Permuted(a, 0, NumElements, f)
  BY DEF Rearrangements
<1>2. PICK g \in Bijection(W, W) : c = Permuted(b, 0, NumElements, g)
  BY DEF Rearrangements
<1>3. /\ f \in [W -> W] /\ (\A x, y \in W : f[x] = f[y] => x = y)
      /\ \A y \in W : \E x \in W : f[x] = y
  BY <1>1 DEF Bijection, Injection, Surjection, IsInjective
<1>4. /\ g \in [W -> W] /\ (\A x, y \in W : g[x] = g[y] => x = y)
      /\ \A y \in W : \E x \in W : g[x] = y
  BY <1>2 DEF Bijection, Injection, Surjection, IsInjective
<1> DEFINE h == [i \in W |-> f[g[i]]]
<1> HIDE DEF W
<1>5. h \in [W -> W] /\ (\A x, y \in W : h[x] = h[y] => x = y)
  BY <1>3, <1>4
<1>6. \A y \in W : \E x \in W : h[x] = y
  <2> SUFFICES ASSUME NEW y \in W PROVE \E x \in W : h[x] = y
    OBVIOUS
  <2>1. PICK z \in W : f[z] = y
    BY <1>3
  <2>2. PICK x \in W : g[x] = z
    BY <1>4
  <2> QED
    BY <2>1, <2>2
<1>7. h \in Bijection(W, W)
  BY <1>5, <1>6 DEF Bijection, Injection, Surjection, IsInjective
<1>8. c = Permuted(a, 0, NumElements, h)
  <2>1. b = [i \in W |-> a[f[i]]] /\ c = [i \in W |-> b[g[i]]]
    BY <1>0, <1>1, <1>2 DEF Permuted, W
  <2>2. c = [i \in W |-> a[h[i]]]
    BY <1>3, <1>4, <2>1
  <2> QED
    BY <1>0, <2>2 DEF Permuted, W
<1> QED
  BY <1>7, <1>8 DEF Rearrangements, W

(* Elements that move within a region cross no cut at or outside its ends. *)
LEMMA RearrangeKeepsCut ==
  ASSUME NEW a \in Files, NEW s \in Nat, NEW e \in Nat, e <= NumElements,
         NEW b \in Rearrangements(a, s, e), NEW k \in Int, k <= s \/ e <= k, Cut(a, k)
  PROVE  Cut(b, k)
<1>1. \A i \in Index : \E m \in Index : b[i] = a[m] /\ (i < k <=> m < k)
  <2> SUFFICES ASSUME NEW i \in Index
               PROVE  \E m \in Index : b[i] = a[m] /\ (i < k <=> m < k)
    OBVIOUS
  <2>1. CASE i \in Region(s, e)
    <3>1. PICK m \in Region(s, e) : b[i] = a[m]
      BY <2>1, RearrangeElements, SortAssumption
    <3>2. m \in Index /\ (i < k <=> m < k)
      BY <2>1, SortAssumption DEF Region, Index
    <3> QED
      BY <3>1, <3>2
  <2>2. CASE i \notin Region(s, e)
    BY <2>2, RearrangeWithin
  <2> QED
    BY <2>1, <2>2
<1> SUFFICES ASSUME NEW i \in Index, NEW j \in Index, i < k, k <= j
             PROVE  b[i] <= b[j]
  BY DEF Cut
<1>2. PICK m \in Index : b[i] = a[m] /\ m < k
  BY <1>1
<1>3. PICK n \in Index : b[j] = a[n] /\ (j < k <=> n < k)
  BY <1>1
<1>4. k <= n
  BY <1>3, SortAssumption DEF Index
<1> QED
  BY <1>2, <1>3, <1>4 DEF Cut

(* Hence a write of p keeps the cuts that do not lie inside its region.    *)
LEMMA WritesKeepCut ==
  ASSUME TypeOK, NEW p \in Proc, Writes(p), NEW k \in Int,
         pc[p] = "sort" => k <= p[1] \/ p[2] <= k, Cut(arr, k)
  PROVE  Cut(arr', k)
<1>1. CASE UNCHANGED arr
  BY <1>1
<1>2. CASE pc[p] = "sort" /\ arr' \in Rearrangements(arr, p[1], p[2])
  <2>1. /\ p[1] \in Nat /\ p[2] \in Nat /\ p[2] <= NumElements /\ arr \in Files
    BY Regions DEF TypeOK
  <2> QED
    BY <1>2, <2>1, RearrangeKeepsCut
<1> QED
  BY <1>1, <1>2 DEF Writes

(* No other process has a mark inside the region of one that still sorts.  *)
LEMMA MarksOutside ==
  ASSUME IInv, NEW p \in Proc, pc[p] = "sort", NEW r \in Proc \ {p}, Started(r),
         NEW k \in Marks(r)
  PROVE  k <= p[1] \/ p[2] <= k
<1>1. /\ p[1] \in Int /\ p[2] \in Int /\ p[1] <= p[2]
      /\ r[1] \in Int /\ r[2] \in Int /\ r[1] <= r[2]
  BY Regions
<1>2. Started(p) /\ ~Succeeded(p) /\ Tree
  BY DEF Started, Succeeded, IInv
<1>3. ~Inside(r, p) /\ Related(p, r)
  BY <1>2 DEF Tree, FreshBelow
<1>4. pc[r] \in Running \ {"sort"} => /\ mid[r] \in Int
                                      /\ r[1] <= mid[r] /\ mid[r] < r[2]
  BY <1>2, Halves DEF Tree
<1>5. CASE Apart(p, r)
  BY <1>1, <1>4, <1>5 DEF Apart, Marks
<1>6. CASE Under(p, r)
  <2>1. HasMid(r) /\ (Inside(p, Left(r)) \/ Inside(p, Right(r)))
    BY <1>6 DEF Under
  <2>2. /\ mid[r] \in Int /\ r[1] <= p[1] /\ p[2] <= r[2]
        /\ p[2] <= mid[r] \/ mid[r] + 1 <= p[1]
    BY <1>1, <2>1, Halves DEF Inside
  <2>3. ~Succeeded(r)
    BY <1>2, <2>2 DEF IInv, Reports, ReapedBelow, Reaped, Inside
  <2> QED
    BY <1>1, <2>2, <2>3 DEF Marks
<1> QED
  BY <1>2, <1>3, <1>5, <1>6, UnderIsInside DEF Related

(* Within a region that is cut off at its ends, a pivot is cut off on both *)
(* sides, and every element of a sorted region is.                         *)
LEMMA PivotIsCut ==
  ASSUME NEW a \in Files, NEW s \in Nat, NEW e \in Nat, e <= NumElements,
         NEW m \in s .. (e - 1), Cut(a, s), Cut(a, e),
         \A i \in s .. (m - 1) : a[i] <= a[m],
         \A i \in (m + 1) .. (e - 1) : a[m] <= a[i]
  PROVE  Cut(a, m) /\ Cut(a, m + 1)
<1>1. m \in Index /\ m \in Nat
  BY SortAssumption DEF Index
<1>2. \A i \in Index : a[i] \in Int /\ i \in Int /\ 0 <= i
  BY ElementsAreIntegers, SortAssumption DEF Index
<1>3. \A i \in Index : i < m => a[i] <= a[m]
  <2> SUFFICES ASSUME NEW i \in Index, i < m PROVE a[i] <= a[m]
    OBVIOUS
  <2>1. i < s => a[i] <= a[m]
    BY <1>1 DEF Cut
  <2>2. ~(i < s) => i \in s .. (m - 1)
    BY <1>1, <1>2
  <2> QED
    BY <2>1, <2>2
<1>4. \A j \in Index : m < j => a[m] <= a[j]
  <2> SUFFICES ASSUME NEW j \in Index, m < j PROVE a[m] <= a[j]
    OBVIOUS
  <2>1. e <= j => a[m] <= a[j]
    BY <1>1 DEF Cut
  <2>2. ~(e <= j) => j \in (m + 1) .. (e - 1)
    BY <1>1, <1>2
  <2> QED
    BY <2>1, <2>2
<1>5. \A j \in Index : j = m => a[m] <= a[j] /\ a[j] <= a[m]
  BY <1>2
<1>6. ASSUME NEW i \in Index, NEW j \in Index, i < m, m <= j PROVE a[i] <= a[j]
  <2>1. a[i] <= a[m] /\ a[m] <= a[j]
    BY <1>1, <1>2, <1>3, <1>4, <1>5, <1>6
  <2> QED
    BY <1>1, <1>2, <2>1
<1>7. ASSUME NEW i \in Index, NEW j \in Index, i < m + 1, m + 1 <= j PROVE a[i] <= a[j]
  <2>1. a[i] <= a[m] /\ a[m] <= a[j]
    BY <1>1, <1>2, <1>3, <1>4, <1>5, <1>7
  <2> QED
    BY <1>1, <1>2, <2>1
<1> QED
  BY <1>6, <1>7 DEF Cut

LEMMA SortedIsCut ==
  ASSUME NEW a \in Files, NEW s \in Nat, NEW e \in Nat, e <= NumElements,
         Cut(a, s), Cut(a, e), SortedRegion(a, s, e), NEW k \in s .. e
  PROVE  Cut(a, k)
<1> SUFFICES ASSUME NEW i \in Index, NEW j \in Index, i < k, k <= j
             PROVE  a[i] <= a[j]
  BY DEF Cut
<1>1. i \in Int /\ j \in Int /\ k \in Int /\ s <= k /\ k <= e
  BY DEF Index
<1>2. CASE i < s
  BY <1>1, <1>2 DEF Cut
<1>3. CASE e <= j
  BY <1>1, <1>3 DEF Cut
<1>4. CASE s <= i /\ j < e
  BY <1>1, <1>4 DEF SortedRegion, Region
<1> QED
  BY <1>1, <1>2, <1>3, <1>4

(* A child is born of a process that has partitioned its region.           *)
LEMMA BornOfSplit ==
  ASSUME TypeOK, NEW p \in Proc, Step(p), NEW c \in Proc \ {p}, pc'[c] # pc[c]
  PROVE  pc[p] \in {"fork_left", "fork_right"}
BY DEF Step, Sort, SortNothing, SortSequentially, PartitionRegion, LeaveMapping, ForkLeft,
       ForkRight, KillLeft, KillRight, ReapKilled, WaitLeft, WaitRight, Return, Goto, TypeOK

(* The marks of the others stay, and those of a new child are its parent's.*)
LEMMA MarksOfOthers ==
  ASSUME IInv, NEW p \in Proc, Step(p), Turn(p), NEW r \in Proc \ {p}, Started(r)',
         NEW k \in Marks(r)'
  PROVE  \/ Started(r) /\ k \in Marks(r)
         \/ pc[p] # "sort" /\ k \in Marks(p)
<1>0. TypeOK
  BY DEF IInv
<1>1. mid'[r] = mid[r] /\ ret'[r] = ret[r]
  BY DEF Turn
<1>2. CASE pc'[r] = pc[r]
  BY <1>1, <1>2 DEF Marks, Started, Succeeded
<1>3. CASE pc'[r] # pc[r]
  <2>1. pc[p] \in Running \ {"sort"}
    BY <1>0, <1>3, BornOfSplit DEF Running
  <2>2. pc'[r] = "sort" /\ HasMid(p) /\ r \in {Left(p), Right(p)}
    BY <1>3 DEF Turn, Born
  <2>3. k \in {r[1], r[2]}
    BY <2>2 DEF Marks, Succeeded, Running
  <2>4. k \in {p[1], mid[p], mid[p] + 1, p[2]}
    BY <2>2, <2>3, Halves
  <2> QED
    BY <2>1, <2>4 DEF Marks
<1> QED
  BY <1>2, <1>3

LEMMA MarksAreIntegers ==
  ASSUME TypeOK, NEW p \in Proc, NEW k \in Marks(p)
  PROVE  k \in Int
<1>1. p[1] \in Int /\ p[2] \in Int /\ mid[p] \in Int
  BY Regions, SortAssumption DEF TypeOK
<1> QED
  BY <1>1 DEF Marks

(* The marks of the process whose turn it is.                              *)
LEMMA MarksOfWriter ==
  ASSUME IInv, Placed, NEW p \in Proc, Step(p), Turn(p), Writes(p), ~SomeSignaled, TypeOK',
         Ordered', ~SomeSignaled'
  PROVE  \A k \in Marks(p)' : Cut(arr', k)
<1>0. TypeOK /\ Tree /\ arr \in Files /\ arr' \in Files
  BY DEF IInv, TypeOK
<1>1. /\ p[1] \in Int /\ p[2] \in Int /\ p[1] \in Nat /\ p[2] \in Nat
      /\ p[1] <= p[2] /\ p[2] <= NumElements
  BY Regions
<1>2. Started(p) /\ \A k \in Marks(p) : Cut(arr, k)
  BY DEF Turn, Running, Started, Placed
<1>3. Cut(arr', p[1]) /\ Cut(arr', p[2])
  <2>1. Cut(arr, p[1]) /\ Cut(arr, p[2])
    BY <1>2 DEF Marks
  <2> QED
    BY <1>0, <1>1, <2>1, WritesKeepCut
<1>4. ASSUME pc'[p] \in Running \ {"sort"}
      PROVE  Cut(arr', mid'[p]) /\ Cut(arr', mid'[p] + 1)
  <2>1. CASE pc[p] = "sort"
    <3>1. PartitionRegion(p)
      BY <1>0, <1>4, <2>1, LeavesSortSplit
    <3>2. PICK r \in PartitionResults(arr, p[1], p[2]) :
             arr' = r[1] /\ mid' = [mid EXCEPT ![p] = r[2]]
      BY <3>1 DEF PartitionRegion
    <3>3. mid'[p] \in p[1] .. (p[2] - 1)
      BY <3>2 DEF IInv, TypeOK, PartitionResults, Region
    <3>4. /\ \A i \in p[1] .. (mid'[p] - 1) : arr'[i] <= arr'[mid'[p]]
          /\ \A i \in (mid'[p] + 1) .. (p[2] - 1) : arr'[mid'[p]] <= arr'[i]
      BY <3>1, PartitionSplits DEF Split
    <3> QED
      BY <1>0, <1>1, <1>3, <3>3, <3>4, PivotIsCut
  <2>2. CASE pc[p] # "sort"
    <3>1. arr' = arr /\ mid'[p] = mid[p] /\ pc[p] \in Running \ {"sort"}
      BY <2>2 DEF Writes, Turn
    <3>2. mid[p] \in Marks(p) /\ mid[p] + 1 \in Marks(p)
      BY <3>1 DEF Marks
    <3> QED
      BY <1>2, <3>1, <3>2
  <2> QED
    BY <2>1, <2>2
<1>5. ASSUME Succeeded(p)', NEW k \in p[1] .. p[2]
      PROVE  Cut(arr', k)
  <2>1. SortedRegion(arr', p[1], p[2])
    BY <1>5 DEF Ordered, SortedRegion
  <2> QED
    BY <1>0, <1>1, <1>3, <2>1, SortedIsCut
<1> QED
  BY <1>3, <1>4, <1>5 DEF Marks

LEMMA PlacedStep ==
  ASSUME IInv, Ordered', Placed, NEW p \in Proc, Step(p) \/ Terminate(p) \/ Crash(p)
  PROVE  Placed'
<1>0. TypeOK /\ Tree /\ arr \in Files /\ input \in Files
  BY DEF IInv, TypeOK
<1>1. Turn(p) /\ TypeOK'
  BY <1>0, EveryStepIsATurn, TypeStep
<1>2. SUFFICES ASSUME ~SomeSignaled'
               PROVE  /\ arr' \in Rearrangements(input', 0, NumElements)
                      /\ \A r \in Proc : Started(r)' => \A k \in Marks(r)' : Cut(arr', k)
  BY DEF Placed
<1>3. ~SomeSignaled
  BY <1>1, <1>2 DEF SomeSignaled, Turn, Born, Running
<1>4. Writes(p) /\ Step(p)
  BY <1>0, <1>2, OnlyWrites
<1>5. /\ arr \in Rearrangements(input, 0, NumElements)
      /\ \A r \in Proc : Started(r) => \A k \in Marks(r) : Cut(arr, k)
  BY <1>3 DEF Placed
<1>6. arr' \in Rearrangements(input', 0, NumElements)
  <2>1. input' = input
    BY <1>4 DEF Step, Sort, SortNothing, SortSequentially, PartitionRegion, LeaveMapping,
                ForkLeft, ForkRight, KillLeft, KillRight, ReapKilled, WaitLeft, WaitRight, args
  <2>2. CASE UNCHANGED arr
    BY <1>5, <2>1, <2>2
  <2>3. CASE arr' \in Rearrangements(arr, p[1], p[2])
    <3>1. p[1] \in Nat /\ p[2] \in Nat /\ p[2] <= NumElements
      BY Regions
    <3>2. arr' \in Rearrangements(arr, 0, NumElements)
      BY <1>0, <2>3, <3>1, RearrangeWithin
    <3> QED
      BY <1>0, <1>5, <2>1, <3>2, RearrangeTwice
  <2> QED
    BY <1>4, <2>2, <2>3 DEF Writes
<1>7. ASSUME NEW r \in Proc \ {p}, Started(r)', NEW k \in Marks(r)'
      PROVE  Cut(arr', k)
  <2>1. CASE Started(r) /\ k \in Marks(r)
    <3>1. Cut(arr, k) /\ k \in Int
      BY <1>0, <1>5, <2>1, MarksAreIntegers
    <3>2. pc[p] = "sort" => k <= p[1] \/ p[2] <= k
      BY <2>1, MarksOutside
    <3> QED
      BY <1>0, <1>4, <3>1, <3>2, WritesKeepCut
  <2>2. CASE pc[p] # "sort" /\ k \in Marks(p)
    <3>1. arr' = arr /\ Started(p)
      BY <1>1, <1>4, <2>2 DEF Writes, Turn, Started, Running
    <3> QED
      BY <1>5, <2>2, <3>1
  <2> QED
    BY <1>1, <1>4, <1>7, <2>1, <2>2, MarksOfOthers
<1>8. \A k \in Marks(p)' : Cut(arr', k)
  BY <1>1, <1>2, <1>3, <1>4, MarksOfWriter
<1> QED
  BY <1>6, <1>7, <1>8

-----------------------------------------------------------------------------
(* Between two cuts an element is where sorting the original would put it: *)
(* only what is before it can be smaller, and all of that is not larger.   *)
LEMMA CutsPlace ==
  ASSUME NEW a \in Files, NEW b \in Rearrangements(a, 0, NumElements),
         NEW i \in Index, Cut(b, i), Cut(b, i + 1)
  PROVE  /\ Cardinality({ j \in Index : a[j] < b[i] }) <= i
         /\ i < Cardinality({ j \in Index : a[j] <= b[i] })
<1>1. PICK f \in Bijection(Index, Index) : b = [j \in Index |-> a[f[j]]]
  BY SortAssumption DEF Rearrangements, Permuted, Region, Index
<1>2. /\ f \in [Index -> Index] /\ (\A x, y \in Index : f[x] = f[y] => x = y)
      /\ \A y \in Index : \E x \in Index : f[x] = y
  BY <1>1 DEF Bijection, Injection, Surjection, IsInjective
<1>3. b \in Files /\ \A j \in Index : b[j] = a[f[j]] /\ b[j] \in Int /\ a[j] \in Int
  BY <1>1, <1>2, SortAssumption DEF Files
<1>4. i \in Int /\ 0 <= i /\ \A j \in Index : j \in Int /\ 0 <= j
  BY DEF Index
<1> DEFINE Before == 0 .. (i - 1)
           UpTo == 0 .. i
           Smaller == { j \in Index : a[j] < b[i] }
           NotLarger == { j \in Index : a[j] <= b[i] }
<1>5. Before \subseteq Index /\ UpTo \subseteq Index
  BY SortAssumption DEF Index
<1>6. IsFiniteSet(Before) /\ Cardinality(Before) = i /\ IsFiniteSet(UpTo) /\ Cardinality(UpTo) = i + 1
  BY <1>4, FS_Interval
<1>7. IsFiniteSet(Index)
  BY FS_Interval, SortAssumption DEF Index
<1>8. IsFiniteSet(NotLarger) /\ IsFiniteSet(Smaller)
  BY <1>7, FS_Subset
<1>9. \A j \in Index : b[j] < b[i] => j \in Before
  BY <1>3, <1>4 DEF Cut
<1>10. \A j \in UpTo : b[j] <= b[i]
  BY <1>3, <1>4, <1>5 DEF Cut
<1>11. Cardinality(Smaller) <= Cardinality(Before)
  <2> DEFINE back == [j \in Smaller |-> CHOOSE x \in Index : f[x] = j]
  <2>1. \A j \in Smaller : back[j] \in Index /\ f[back[j]] = j
    BY <1>2
  <2>2. \A j \in Smaller : back[j] \in Before
    <3> SUFFICES ASSUME NEW j \in Smaller PROVE back[j] \in Before
      OBVIOUS
    <3>1. a[j] < b[i]
      OBVIOUS
    <3>2. back[j] \in Index /\ f[back[j]] = j
      BY <2>1
    <3> HIDE DEF back
    <3>3. b[back[j]] = a[j]
      BY <1>3, <3>2
    <3> QED
      BY <1>9, <3>1, <3>2, <3>3
  <2>3. back \in Injection(Smaller, Before)
    <3>1. back \in [Smaller -> Before]
      BY <2>2
    <3>2. \A x, y \in Smaller : back[x] = back[y] => x = y
      BY <2>1
    <3> QED
      BY <3>1, <3>2 DEF Injection, IsInjective
  <2> QED
    BY <1>6, <2>3, FS_Injection
<1>12. Cardinality(UpTo) <= Cardinality(NotLarger)
  <2> DEFINE g == [j \in UpTo |-> f[j]]
  <2>1. \A j \in UpTo : f[j] \in NotLarger
    BY <1>2, <1>3, <1>5, <1>10
  <2>2. g \in Injection(UpTo, NotLarger)
    <3>1. g \in [UpTo -> NotLarger]
      BY <2>1
    <3>2. \A x, y \in UpTo : g[x] = g[y] => x = y
      BY <1>2, <1>5
    <3> QED
      BY <3>1, <3>2 DEF Injection, IsInjective
  <2> QED
    BY <1>8, <2>2, FS_Injection
<1>13. Cardinality(NotLarger) \in Nat /\ Cardinality(Smaller) \in Nat
  BY <1>8, FS_CardinalityType
<1> QED
  BY <1>4, <1>6, <1>11, <1>12, <1>13

(* As long as no process is killed, the pivot that partition() has placed  *)
(* is globally in the correct place, and so is every element of a region   *)
(* reported sorted, whatever the other processes do.                       *)
THEOREM GloballyPlacedAlways == Spec => []GloballyPlaced
<1>1. Init => Placed
  <2> SUFFICES ASSUME Init PROVE Placed
    OBVIOUS
  <2>1. arr \in Files /\ input = arr /\ NumElements \in Nat
    BY SortAssumption DEF Init
  <2>2. arr \in Rearrangements(input, 0, NumElements)
    BY <2>1, RearrangeNothing
  <2>3. \A q \in Proc : pc[q] = IF q = Main THEN "sort" ELSE "none"
    BY DEF Init
  <2>4. \A q \in Proc : Started(q) => Marks(q) = {0, NumElements}
    BY <2>3 DEF Started, Marks, Succeeded, Main, Running
  <2>5. Cut(arr, 0) /\ Cut(arr, NumElements)
    BY <2>1 DEF Cut, Index
  <2> QED
    BY <2>2, <2>4, <2>5 DEF Placed
<1>2. IInv /\ Ordered' /\ Placed /\ [Next]_vars => Placed'
  <2> SUFFICES ASSUME IInv, Ordered', Placed, [Next]_vars PROVE Placed'
    OBVIOUS
  <2>1. CASE UNCHANGED vars
    BY <2>1 DEF Placed, SomeSignaled, Marks, Succeeded, Started, vars, args
  <2>2. CASE Next
    BY <2>2, PlacedStep DEF Next
  <2> QED
    BY <2>1, <2>2
<1>3. IInv /\ Placed => GloballyPlaced
  <2> SUFFICES ASSUME IInv, Placed, ~SomeSignaled, NEW p \in Proc
               PROVE  /\ pc[p] \in Running \ {"sort"} => InFinalPlace(mid[p])
                      /\ Succeeded(p) => \A i \in Region(p[1], p[2]) : InFinalPlace(i)
    BY DEF GloballyPlaced
  <2>1. /\ arr \in Rearrangements(input, 0, NumElements) /\ input \in Files
        /\ Started(p) => \A k \in Marks(p) : Cut(arr, k)
    BY DEF Placed, IInv, TypeOK
  <2>2. \A i \in Index : Cut(arr, i) /\ Cut(arr, i + 1) => InFinalPlace(i)
    BY <2>1, CutsPlace DEF InFinalPlace
  <2>3. /\ p[1] \in Int /\ p[2] \in Int /\ 0 <= p[1] /\ p[2] <= NumElements
    BY Regions
  <2>4. ASSUME pc[p] \in Running \ {"sort"} PROVE InFinalPlace(mid[p])
    <3>1. mid[p] \in Marks(p) /\ mid[p] + 1 \in Marks(p) /\ Started(p)
      BY <2>4 DEF Marks, Started, Running
    <3>2. mid[p] \in Index
      BY <2>3, <2>4, SortAssumption DEF IInv, Tree, HasMid, Index
    <3> QED
      BY <2>1, <2>2, <3>1, <3>2
  <2>5. ASSUME Succeeded(p), NEW i \in Region(p[1], p[2]) PROVE InFinalPlace(i)
    <3>1. i \in p[1] .. p[2] /\ i + 1 \in p[1] .. p[2]
      BY <2>3 DEF Region
    <3>2. i \in Marks(p) /\ i + 1 \in Marks(p) /\ Started(p)
      BY <2>5, <3>1 DEF Marks, Started, Succeeded
    <3>3. i \in Index
      BY <2>3, SortAssumption DEF Region, Index
    <3> QED
      BY <2>1, <2>2, <3>2, <3>3
  <2> QED
    BY <2>4, <2>5
<1> QED
  BY <1>1, <1>2, <1>3, InvAlways, OrderedAlways, PTL DEF Spec
=============================================================================
