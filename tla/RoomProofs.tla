----------------------------- MODULE RoomProofs -----------------------------
(***************************************************************************)
(* For every set of threads, users and messages: one thread at a time is   *)
(* inside the room, and the room implements the atomic room.               *)
(***************************************************************************)
EXTENDS Room, TLAPS

IInv == TypeOK /\ OneInside

LEMMA InitInv == Init => IInv
  BY DEF Init, IInv, TypeOK, OneInside, Holding

LEMMA StepInv == IInv /\ [Next]_vars => IInv'
<1> SUFFICES ASSUME IInv, [Next]_vars PROVE IInv'
  OBVIOUS
<1> USE DEF IInv, TypeOK, OneInside, Holding, Goto
<1>1. ASSUME NEW t \in Thread, NEW u \in User, CallAdd(t, u) PROVE IInv'
  BY <1>1 DEF CallAdd
<1>2. ASSUME NEW t \in Thread, NEW u \in User, CallRemove(t, u) PROVE IInv'
  BY <1>2 DEF CallRemove
<1>3. ASSUME NEW t \in Thread, NEW msg \in Message, CallBroadcast(t, msg) PROVE IInv'
  BY <1>3 DEF CallBroadcast
<1>4. ASSUME NEW t \in Thread, AddMember(t) PROVE IInv'
  BY <1>4 DEF AddMember, Acquire
<1>5. ASSUME NEW t \in Thread, RemoveMember(t) PROVE IInv'
  BY <1>5 DEF RemoveMember, Acquire
<1>6. ASSUME NEW t \in Thread, BeginBroadcast(t) PROVE IInv'
  BY <1>6 DEF BeginBroadcast, Acquire
<1>7. ASSUME NEW t \in Thread, Enqueue(t) PROVE IInv'
  BY <1>7 DEF Enqueue, Unvisited
<1>8. ASSUME NEW t \in Thread, EndBroadcast(t) PROVE IInv'
  BY <1>8 DEF EndBroadcast
<1>9. ASSUME NEW t \in Thread, Release(t) PROVE IInv'
  BY <1>9 DEF Release
<1>10. CASE UNCHANGED vars
  BY <1>10 DEF vars
<1> QED
  BY <1>1, <1>2, <1>3, <1>4, <1>5, <1>6, <1>7, <1>8, <1>9, <1>10 DEF Next, Call, Running

(* Every thread is in a state its call can be in, and no two are inside,   *)
(* for any number of threads.                                              *)
THEOREM InductiveInvariant == Spec => []IInv
  BY InitInv, StepInv, PTL DEF Spec

(* Types.                                                                  *)
THEOREM TypeCorrect == Spec => []TypeOK
  BY InductiveInvariant, PTL DEF IInv

(* Mutual exclusion: lock has one owner, the thread inside an operation.   *)
THEOREM MutualExclusion == Spec => []OneInside
  BY InductiveInvariant, PTL DEF IInv

-----------------------------------------------------------------------------
(* What the refinement mapping is outside and inside a broadcast.          *)
SettledView ==
  /\ (\A t \in Thread : pc[t] # "enqueue") => Settled = mqueue
  /\ \A t \in Thread : pc[t] = "enqueue" =>
       Settled = [u \in User |-> IF u \in Unvisited(t) THEN Append(mqueue[u], arg[t]) ELSE mqueue[u]]

LEMMA View == IInv => SettledView
<1> SUFFICES ASSUME IInv PROVE SettledView
  OBVIOUS
<1>1. (\A t \in Thread : pc[t] # "enqueue") => Settled = mqueue
  BY DEF IInv, TypeOK, Settled, Promised
<1>2. ASSUME NEW t \in Thread, pc[t] = "enqueue"
      PROVE  Settled = [u \in User |-> IF u \in Unvisited(t)
                                       THEN Append(mqueue[u], arg[t]) ELSE mqueue[u]]
  <2>1. ASSUME NEW u \in User PROVE Promised(u) = IF u \in Unvisited(t) THEN {t} ELSE {}
    BY <1>2 DEF IInv, OneInside, Holding, Promised
  <2> QED
    BY <2>1 DEF Settled
<1> QED
  BY <1>1, <1>2 DEF SettledView

LEMMA ViewNext == IInv' => SettledView'
  BY View, PTL

LEMMA StepRefines == IInv /\ IInv' /\ [Next]_vars => [Abstract!Next]_(Abstract!vars)
<1> SUFFICES ASSUME IInv, IInv', [Next]_vars PROVE [Abstract!Next]_(Abstract!vars)
  OBVIOUS
<1> USE DEF Goto
<1>1. ASSUME NEW t \in Thread, Call(t) PROVE UNCHANGED <<members, Settled>>
  <2>1. /\ UNCHANGED <<members, mqueue, visited>>
        /\ \A s \in Thread : pc[s] = "enqueue" <=> pc'[s] = "enqueue"
        /\ \A s \in Thread : pc[s] = "enqueue" => arg'[s] = arg[s]
    BY <1>1 DEF Call, CallAdd, CallRemove, CallBroadcast, IInv, TypeOK
  <2>2. CASE \E s \in Thread : pc[s] = "enqueue"
    <3> PICK s \in Thread : pc[s] = "enqueue"
      BY <2>2
    <3>1. Unvisited(s)' = Unvisited(s)
      BY <2>1 DEF Unvisited
    <3> QED
      BY <2>1, <3>1, View, ViewNext DEF SettledView
  <2>3. CASE \A s \in Thread : pc[s] # "enqueue"
    BY <2>1, <2>3, View, ViewNext DEF SettledView
  <2> QED
    BY <2>2, <2>3
<1>2. ASSUME lock = {} PROVE \A s \in Thread : pc[s] # "enqueue"
  BY <1>2 DEF IInv, OneInside, Holding
<1>3. ASSUME NEW t \in Thread, AddMember(t) PROVE Abstract!Join(arg[t]) /\ arg[t] \in User
  <2>1. \A s \in Thread : pc[s] # "enqueue" /\ pc'[s] # "enqueue"
    BY <1>2, <1>3 DEF AddMember, Acquire, IInv, TypeOK
  <2>2. Settled = mqueue /\ Settled' = mqueue'
    BY <2>1, View, ViewNext DEF SettledView
  <2> QED
    BY <1>3, <2>2 DEF AddMember, Abstract!Join, IInv, TypeOK
<1>4. ASSUME NEW t \in Thread, RemoveMember(t) PROVE Abstract!Leave(arg[t]) /\ arg[t] \in User
  <2>1. \A s \in Thread : pc[s] # "enqueue" /\ pc'[s] # "enqueue"
    BY <1>2, <1>4 DEF RemoveMember, Acquire, IInv, TypeOK
  <2>2. Settled = mqueue /\ Settled' = mqueue'
    BY <2>1, View, ViewNext DEF SettledView
  <2> QED
    BY <1>4, <2>2 DEF RemoveMember, Abstract!Leave, IInv, TypeOK
<1>5. ASSUME NEW t \in Thread, BeginBroadcast(t)
      PROVE  Abstract!Broadcast(arg[t]) /\ arg[t] \in Message
  <2>1. Settled = mqueue
    BY <1>2, <1>5, View DEF SettledView, BeginBroadcast, Acquire
  <2>2. pc'[t] = "enqueue" /\ visited'[t] = 0 /\ UNCHANGED <<members, mqueue, arg>>
    BY <1>5 DEF BeginBroadcast, IInv, TypeOK
  <2>3. Unvisited(t)' = members
    <3>1. \A u \in members : u \in Nat /\ u > 0
      BY RoomAssumption DEF IInv, TypeOK
    <3> QED
      BY <2>2, <3>1 DEF Unvisited
  <2>4. Settled' = [u \in User |-> IF u \in members THEN Append(mqueue[u], arg[t]) ELSE mqueue[u]]
    BY <2>2, <2>3, ViewNext DEF SettledView
  <2> QED
    BY <1>5, <2>1, <2>2, <2>4 DEF Abstract!Broadcast, BeginBroadcast, IInv, TypeOK
<1>6. ASSUME NEW t \in Thread, Enqueue(t) PROVE UNCHANGED <<members, Settled>>
  <2>1. PICK u \in Unvisited(t) :
          /\ \A v \in Unvisited(t) : u <= v
          /\ mqueue' = [mqueue EXCEPT ![u] = Append(@, arg[t])]
          /\ visited' = [visited EXCEPT ![t] = u]
    BY <1>6 DEF Enqueue
  <2>2. pc[t] = "enqueue" /\ UNCHANGED <<members, pc, arg>> /\ u \in User
    BY <1>6 DEF Enqueue, Unvisited, IInv, TypeOK
  <2>3. Unvisited(t)' = Unvisited(t) \ {u}
    <3>1. visited[t] \in Nat /\ \A v \in members : v \in Nat
      BY RoomAssumption DEF IInv, TypeOK
    <3>2. visited'[t] = u
      BY <2>1 DEF IInv, TypeOK
    <3> QED
      BY <2>1, <2>2, <3>1, <3>2 DEF Unvisited
  <2>4. /\ Settled = [v \in User |-> IF v \in Unvisited(t) THEN Append(mqueue[v], arg[t]) ELSE mqueue[v]]
        /\ Settled' = [v \in User |-> IF v \in Unvisited(t)' THEN Append(mqueue'[v], arg'[t]) ELSE mqueue'[v]]
    BY <2>2, View, ViewNext DEF SettledView
  <2>5. \A v \in User : mqueue'[v] = IF v = u THEN Append(mqueue[u], arg[t]) ELSE mqueue[v]
    BY <2>1, <2>2 DEF IInv, TypeOK
  <2>6. \A v \in User : (IF v \in Unvisited(t)' THEN Append(mqueue'[v], arg'[t]) ELSE mqueue'[v])
                     = (IF v \in Unvisited(t) THEN Append(mqueue[v], arg[t]) ELSE mqueue[v])
    BY <2>2, <2>3, <2>5
  <2> QED
    BY <2>2, <2>4, <2>6
<1>7. ASSUME NEW t \in Thread, EndBroadcast(t) PROVE UNCHANGED <<members, Settled>>
  <2>1. Settled = mqueue
    <3>1. Settled = [u \in User |-> IF u \in Unvisited(t) THEN Append(mqueue[u], arg[t]) ELSE mqueue[u]]
      BY <1>7, View DEF SettledView, EndBroadcast
    <3> QED
      BY <1>7, <3>1 DEF EndBroadcast, IInv, TypeOK
  <2>2. \A s \in Thread : pc'[s] # "enqueue"
    BY <1>7 DEF EndBroadcast, IInv, TypeOK, OneInside, Holding
  <2> QED
    BY <1>7, <2>1, <2>2, ViewNext DEF SettledView, EndBroadcast
<1>8. ASSUME NEW t \in Thread, Release(t) PROVE UNCHANGED <<members, Settled>>
  <2>1. \A s \in Thread : pc[s] # "enqueue" /\ pc'[s] # "enqueue"
    BY <1>8 DEF Release, IInv, TypeOK, OneInside, Holding
  <2> QED
    BY <1>8, <2>1, View, ViewNext DEF SettledView, Release
<1>9. CASE UNCHANGED vars
  <2>1. UNCHANGED <<members, Settled>>
    BY <1>9 DEF vars, Settled, Promised, Unvisited
  <2> QED
    BY <2>1 DEF Abstract!vars
<1> QED
  BY <1>1, <1>3, <1>4, <1>5, <1>6, <1>7, <1>8, <1>9 DEF Next, Running, Abstract!Next, Abstract!vars

(* The room, with its lock and its loop, implements the atomic room.       *)
THEOREM Implements == Spec => ImplementsAbstractRoom
<1>1. Init => Abstract!Init
  BY DEF Init, Abstract!Init, Settled, Promised
<1> QED
  BY <1>1, StepRefines, InductiveInvariant, PTL DEF Spec, ImplementsAbstractRoom, Abstract!Spec
=============================================================================
