------------------------------ MODULE ParSort ------------------------------
(***************************************************************************)
(* The process tree of csf_assign04/parsort: quicksort() in main and in    *)
(* every child it forks, on one file they all map MAP_SHARED.  A process   *)
(* is named by the region it sorts; regions of distinct processes of one   *)
(* tree are distinct.  partition() and qsort() run to completion in one    *)
(* step, by the contract module Partition establishes; the system calls    *)
(* fork, kill and waitpid are steps of their own.                          *)
(***************************************************************************)
EXTENDS SortOps, FiniteSets

CONSTANTS
  Thresholds,   \* values of the <par threshold> argument
  MaxFailures   \* bound on fork failures plus signals from outside the tree

ASSUME ParSortAssumption ==
  /\ Thresholds \subseteq Nat
  /\ MaxFailures \in Nat

Proc == { p \in (0 .. NumElements) \X (0 .. NumElements) : p[1] <= p[2] }
Main == <<0, NumElements>>

VARIABLES
  arr,            \* the mapped file
  par_threshold,  \* command-line argument
  sigchld_ignored,\* SIGCHLD was set to SIG_IGN when the program was started
  pc,             \* pc[p]: "none", a state of Running, "exited" or "signaled"
  mid,            \* mid[p]: what partition() returned
  left_success,   \* left_success[p]: left.success of wait_children()
  ret,            \* ret[p]: what quicksort() returned; a child's exit status
  sigterm,        \* processes with SIGTERM pending
  reaped,         \* children whose status waitpid() has collected
  failures,       \* number of fork failures and outside signals so far
  input           \* history: the file when main called quicksort()

vars == <<arr, par_threshold, sigchld_ignored, pc, mid, left_success, ret,
          sigterm, reaped, failures, input>>
args == <<par_threshold, sigchld_ignored, input>>

Running == {"sort", "fork_left", "fork_right", "kill_left", "reap_left",
            "wait_left", "wait_right", "kill_right", "reap_right"}

Len(p) == p[2] - p[1]
Left(p) == <<p[1], mid[p]>>
(* Mutant: the right child starts one after start. *)
RightFromStart(p) == <<p[1] + 1, p[2]>>

Right(p) == <<mid[p] + 1, p[2]>>
Ended(p) == pc[p] \in {"exited", "signaled"}

Init ==
  /\ arr \in Files
  /\ input = arr
  /\ par_threshold \in Thresholds
  /\ sigchld_ignored \in BOOLEAN
  /\ pc = [p \in Proc |-> IF p = Main THEN "sort" ELSE "none"]
  /\ mid = [p \in Proc |-> 0]
  /\ left_success = [p \in Proc |-> 0]
  /\ ret = [p \in Proc |-> 0]
  /\ sigterm = {}
  /\ reaped = {}
  /\ failures = 0

-----------------------------------------------------------------------------
(* quicksort() returns v: main goes on to exit, a child calls exit( v ).   *)
Return(p, v) ==
  /\ pc' = [pc EXCEPT ![p] = "exited"]
  /\ ret' = [ret EXCEPT ![p] = v]

Goto(p, label) ==
  /\ pc' = [pc EXCEPT ![p] = label]
  /\ UNCHANGED ret

SortNothing(p) ==
  /\ pc[p] = "sort"
  /\ Len(p) < 2
  /\ Return(p, 1)
  /\ UNCHANGED <<arr, mid, left_success, sigterm, reaped, failures, args>>

SortSequentially(p) ==
  /\ pc[p] = "sort"
  /\ Len(p) >= 2
  /\ Len(p) <= par_threshold
  /\ arr' \in QsortResults(arr, p[1], p[2])
  /\ Return(p, 1)
  /\ UNCHANGED <<mid, left_success, sigterm, reaped, failures, args>>

MustPartition(p) == pc[p] = "sort" /\ Len(p) >= 2 /\ Len(p) > par_threshold

PartitionRegion(p) ==
  /\ MustPartition(p)
  /\ ~NoSmallerElement(arr, p[1], p[2])
  /\ \E r \in PartitionResults(arr, p[1], p[2]) :
       arr' = r[1] /\ mid' = [mid EXCEPT ![p] = r[2]]
  /\ Goto(p, "fork_left")
  /\ UNCHANGED <<left_success, sigterm, reaped, failures, args>>

(* The scan runs below index 0 and on until the process dies of SIGSEGV,   *)
(* exchanging file elements with each other and with what it finds.        *)
LeaveMapping(p) ==
  /\ MustPartition(p)
  /\ NoSmallerElement(arr, p[1], p[2])
  /\ arr' \in Files
  /\ Goto(p, "signaled")
  /\ UNCHANGED <<mid, left_success, sigterm, reaped, failures, args>>

(* spawn_child(): the child shares the mapping and starts in quicksort().  *)
Spawn(p, child, label) ==
  /\ pc' = [pc EXCEPT ![p] = label, ![child] = "sort"]
  /\ UNCHANGED <<ret, failures>>

ForkFails == failures < MaxFailures /\ failures' = failures + 1

ForkLeft(p) ==
  /\ pc[p] = "fork_left"
  /\ \/ Spawn(p, Left(p), "fork_right")
     \/ ForkFails /\ Return(p, 0)
  /\ UNCHANGED <<arr, mid, left_success, sigterm, reaped, args>>

(* Mutant: the left child is left running when the second fork fails. *)
ForkRightAbandons(p) ==
  /\ pc[p] = "fork_right"
  /\ \/ Spawn(p, Right(p), "wait_left")
     \/ ForkFails /\ Return(p, 0)
  /\ UNCHANGED <<arr, mid, left_success, sigterm, reaped, args>>

ForkRight(p) ==
  /\ pc[p] = "fork_right"
  /\ \/ Spawn(p, Right(p), "wait_left")
     \/ ForkFails /\ Goto(p, "kill_left")
  /\ UNCHANGED <<arr, mid, left_success, sigterm, reaped, args>>

(* kill( child, SIGTERM ): nothing happens to a process that has ended.    *)
Kill(child) == sigterm' = IF Ended(child) THEN sigterm ELSE sigterm \cup {child}

KillLeft(p) ==
  /\ pc[p] = "kill_left"
  /\ Kill(Left(p))
  /\ Goto(p, "reap_left")
  /\ UNCHANGED <<arr, mid, left_success, reaped, failures, args>>

(* waitpid() whose result the code does not look at.  With SIGCHLD ignored *)
(* it returns -1 when the child is gone.                                   *)
Reap(child) ==
  /\ Ended(child)
  /\ reaped' = IF sigchld_ignored THEN reaped ELSE reaped \cup {child}

ReapKilled(p) ==
  /\ \/ pc[p] = "reap_left" /\ Reap(Left(p))
     \/ pc[p] = "reap_right" /\ Reap(Right(p))
  /\ Return(p, 0)
  /\ UNCHANGED <<arr, mid, left_success, sigterm, failures, args>>

(* Mutant: the shell's idea of success. *)
ZeroIsSuccess(child) == IF pc[child] = "exited" THEN 1 - ret[child] ELSE 0

(* WIFEXITED and WEXITSTATUS of a child's status.                          *)
Success(child) == IF pc[child] = "exited" THEN ret[child] ELSE 0

(* wait_children(), the left child.  With SIGCHLD ignored the kernel keeps *)
(* no status: waitpid() fails as soon as the child is gone, and the right  *)
(* child is told to terminate.                                             *)
WaitLeft(p) ==
  /\ pc[p] = "wait_left"
  /\ Ended(Left(p))
  /\ IF sigchld_ignored
     THEN /\ Goto(p, "kill_right")
          /\ UNCHANGED <<left_success, reaped>>
     ELSE /\ left_success' = [left_success EXCEPT ![p] = Success(Left(p))]
          /\ reaped' = reaped \cup {Left(p)}
          /\ Goto(p, "wait_right")
  /\ UNCHANGED <<arr, mid, sigterm, failures, args>>

KillRight(p) ==
  /\ pc[p] = "kill_right"
  /\ Kill(Right(p))
  /\ Goto(p, "reap_right")
  /\ UNCHANGED <<arr, mid, left_success, reaped, failures, args>>

(* Mutants: the left child is waited for twice; || in place of &&; only a   *)
(* normal exit ends the wait.                                              *)
WaitLeftAgain(p) ==
  /\ pc[p] = "wait_right"
  /\ Ended(Left(p))
  /\ reaped' = reaped \cup {Left(p)}
  /\ Return(p, IF left_success[p] = 1 /\ Success(Left(p)) = 1 THEN 1 ELSE 0)
  /\ UNCHANGED <<arr, mid, left_success, sigterm, failures, args>>
WaitRightEither(p) ==
  /\ pc[p] = "wait_right"
  /\ Ended(Right(p))
  /\ reaped' = reaped \cup {Right(p)}
  /\ Return(p, IF left_success[p] = 1 \/ Success(Right(p)) = 1 THEN 1 ELSE 0)
  /\ UNCHANGED <<arr, mid, left_success, sigterm, failures, args>>
WaitRightExit(p) ==
  /\ pc[p] = "wait_right"
  /\ pc[Right(p)] = "exited"
  /\ reaped' = reaped \cup {Right(p)}
  /\ Return(p, IF left_success[p] = 1 /\ Success(Right(p)) = 1 THEN 1 ELSE 0)
  /\ UNCHANGED <<arr, mid, left_success, sigterm, failures, args>>

(* wait_children(), the right child, and the return of quicksort().  This  *)
(* waitpid() cannot fail: the one for the left child has succeeded, so     *)
(* children leave a status, and no signal handler is installed.            *)
WaitRight(p) ==
  /\ pc[p] = "wait_right"
  /\ Ended(Right(p))
  /\ reaped' = reaped \cup {Right(p)}
  /\ Return(p, IF left_success[p] = 1 /\ Success(Right(p)) = 1 THEN 1 ELSE 0)
  /\ UNCHANGED <<arr, mid, left_success, sigterm, failures, args>>

(* A process that dies while sorting may be in the middle of an exchange   *)
(* or of qsort(): elements of its region may be lost and others doubled.   *)
Torn(start, end) ==
  { b \in Files : \A i \in Index :
      IF i \in Region(start, end)
      THEN \E j \in Region(start, end) : b[i] = arr[j]
      ELSE b[i] = arr[i] }

Die(p) ==
  /\ pc[p] \in Running
  /\ Goto(p, "signaled")
  /\ IF pc[p] = "sort" THEN arr' \in Torn(p[1], p[2]) ELSE UNCHANGED arr
  /\ UNCHANGED <<mid, left_success, reaped, args>>

(* The pending SIGTERM is delivered: default action.                       *)
Terminate(p) ==
  /\ p \in sigterm
  /\ Die(p)
  /\ sigterm' = sigterm \ {p}
  /\ UNCHANGED failures

(* A signal from outside the tree (a user, the out-of-memory killer).      *)
Crash(p) ==
  /\ failures < MaxFailures
  /\ Die(p)
  /\ failures' = failures + 1
  /\ sigterm' = sigterm \ {p}

-----------------------------------------------------------------------------
Sort(p) ==
  SortNothing(p) \/ SortSequentially(p) \/ PartitionRegion(p) \/ LeaveMapping(p)

Step(p) ==
  \/ Sort(p)
  \/ ForkLeft(p) \/ ForkRight(p)
  \/ KillLeft(p) \/ KillRight(p) \/ ReapKilled(p)
  \/ WaitLeft(p) \/ WaitRight(p)

Next == \E p \in Proc : Step(p) \/ Terminate(p) \/ Crash(p)

Spec == Init /\ [][Next]_vars

(* The kernel schedules every process and delivers every signal.           *)
FairSpec == Spec /\ \A p \in Proc : WF_vars(Step(p)) /\ WF_vars(Terminate(p))

-----------------------------------------------------------------------------
TypeOK ==
  /\ arr \in Files /\ input \in Files
  /\ par_threshold \in Thresholds
  /\ sigchld_ignored \in BOOLEAN
  /\ pc \in [Proc -> Running \cup {"none", "exited", "signaled"}]
  /\ mid \in [Proc -> 0 .. NumElements]
  /\ left_success \in [Proc -> {0, 1}]
  /\ ret \in [Proc -> {0, 1}]
  /\ sigterm \subseteq Proc
  /\ reaped \subseteq Proc
  /\ failures \in 0 .. MaxFailures

Succeeded(p) == pc[p] = "exited" /\ ret[p] = 1
SomeSignaled == \E p \in Proc : pc[p] = "signaled"

(* No two processes work on the same array element at the same time: the   *)
(* shared mapping needs no lock, with orphans of failed sorts counted in.  *)
(* Regions, states and results have their types besides.                   *)
RaceFree ==
  /\ TypeOK
  /\ \A p, q \in Proc :
       (p # q /\ pc[p] = "sort" /\ pc[q] = "sort") =>
         Region(p[1], p[2]) \cap Region(q[1], q[2]) = {}

(* Index i holds an element that a sorted input file would hold there.     *)
InFinalPlace(i) ==
  /\ Cardinality({ j \in Index : input[j] < arr[i] }) <= i
  /\ i < Cardinality({ j \in Index : input[j] <= arr[i] })

(* parsort.c:115: the pivot partition() has placed is globally in the      *)
(* correct place, and so is every element of a region reported sorted,     *)
(* whatever other processes do, as long as none is killed.                 *)
GloballyPlaced ==
  SomeSignaled \/
  \A p \in Proc :
    /\ pc[p] \in Running \ {"sort"} => InFinalPlace(mid[p])
    /\ Succeeded(p) => \A i \in Region(p[1], p[2]) : InFinalPlace(i)

(* Success is reported only after every child, its children and theirs     *)
(* have exited with success and have been waited for.                      *)
SuccessReapsAll ==
  Succeeded(Main) =>
    \A p \in Proc \ {Main} : pc[p] = "none" \/ (Succeeded(p) /\ p \in reaped)

(* When main returns, also after a failure, no process still works on the  *)
(* file, except below a process that was killed.                           *)
QuietExit ==
  (pc[Main] = "exited" /\ \E p \in Proc : pc[p] \in Running) => SomeSignaled

(* The sort never fails without a cause: a failed fork, a signal, or       *)
(* children that leave no status.                                          *)
FailureHasCause ==
  (pc[Main] = "exited" /\ ret[Main] = 0) =>
    failures > 0 \/ sigchld_ignored \/ SomeSignaled

(* parsort.c:166-168: "the only reason that sorting should fail is if a    *)
(* child process can't be created or if there is any other system call     *)
(* failure".                                                               *)
FailsOnlyOnSystemCalls ==
  (Ended(Main) /\ ~Succeeded(Main)) => failures > 0 \/ sigchld_ignored

(* Every process of the tree ends, orphans included: no wait of a parent   *)
(* for a child lasts forever, and the recursion is bounded.                *)
AllEnd == <>[](\A p \in Proc : pc[p] = "none" \/ Ended(p))

-----------------------------------------------------------------------------
(* The tree as its user sees it.  It is doomed once any process of it has  *)
(* met a failure, even if main does not know it yet.                       *)
Failing(p) ==
  \/ pc[p] \in {"kill_left", "reap_left", "kill_right", "reap_right", "signaled"}
  \/ pc[p] = "exited" /\ ret[p] = 0

Outcome ==
  IF Succeeded(Main) THEN "ok"
  ELSE IF Ended(Main) THEN "failed"
  ELSE IF \E p \in Proc : Failing(p) THEN "doomed" ELSE "running"

Abstract == INSTANCE AbstractSort WITH outcome <- Outcome

(* parsort implements AbstractSort: exit status 0 only of a sorted file    *)
(* with the elements it was given, and nothing changes it from then on.    *)
ImplementsAbstractSort == Abstract!Spec
=============================================================================
