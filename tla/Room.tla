-------------------------------- MODULE Room --------------------------------
(***************************************************************************)
(* class Room of csf_assign05 under concurrent callers: the three          *)
(* operations are bracketed by a Guard on one mutex, and a broadcast       *)
(* enqueues to the members one by one.  MessageQueue::enqueue() is a stub  *)
(* in the repository; here it appends, as its header says.                 *)
(***************************************************************************)
EXTENDS Integers, Sequences

CONSTANTS
  Thread,   \* threads of the server
  User,     \* User objects, named by their addresses
  Message   \* the messages; each is broadcast once

ASSUME RoomAssumption == User \subseteq Nat \ {0}

VARIABLES
  lock,     \* the threads that own the mutex
  members,  \* the set of member pointers
  mqueue,   \* mqueue[u]: messages awaiting delivery to u
  pc,       \* pc[t]: "idle", or where t is in an operation
  arg,      \* arg[t]: the user or the message of the operation
  visited,  \* visited[t]: where the loop of broadcast_message() has got to
  unsent    \* messages nobody has broadcast yet

vars == <<lock, members, mqueue, pc, arg, visited, unsent>>

Init ==
  /\ lock = {}
  /\ members = {}
  /\ mqueue = [u \in User |-> <<>>]
  /\ pc = [t \in Thread |-> "idle"]
  /\ arg = [t \in Thread |-> 0]
  /\ visited = [t \in Thread |-> 0]
  /\ unsent = Message

-----------------------------------------------------------------------------
Goto(t, label) == pc' = [pc EXCEPT ![t] = label]

CallAdd(t, u) ==
  /\ pc[t] = "idle"
  /\ Goto(t, "add")
  /\ arg' = [arg EXCEPT ![t] = u]
  /\ UNCHANGED <<lock, members, mqueue, visited, unsent>>

CallRemove(t, u) ==
  /\ pc[t] = "idle"
  /\ Goto(t, "remove")
  /\ arg' = [arg EXCEPT ![t] = u]
  /\ UNCHANGED <<lock, members, mqueue, visited, unsent>>

CallBroadcast(t, msg) ==
  /\ pc[t] = "idle"
  /\ msg \in unsent
  /\ Goto(t, "broadcast")
  /\ arg' = [arg EXCEPT ![t] = msg]
  /\ unsent' = unsent \ {msg}
  /\ UNCHANGED <<lock, members, mqueue, visited>>

-----------------------------------------------------------------------------
(* Mutant: an operation without a Guard.                                   *)
NoGuard(t) == lock' = lock \cup {t}
(* Guard guard( lock )                                                     *)
Acquire(t) == lock = {} /\ lock' = {t}

AddMember(t) ==
  /\ pc[t] = "add"
  /\ Acquire(t)
  /\ members' = members \cup {arg[t]}
  /\ Goto(t, "unlock")
  /\ UNCHANGED <<mqueue, arg, visited, unsent>>

RemoveMember(t) ==
  /\ pc[t] = "remove"
  /\ Acquire(t)
  /\ members' = members \ {arg[t]}
  /\ Goto(t, "unlock")
  /\ UNCHANGED <<mqueue, arg, visited, unsent>>

BeginBroadcast(t) ==
  /\ pc[t] = "broadcast"
  /\ Acquire(t)
  /\ visited' = [visited EXCEPT ![t] = 0]
  /\ Goto(t, "enqueue")
  /\ UNCHANGED <<members, mqueue, arg, unsent>>

(* Mutant: the loop never reaches the last member.                         *)
AllButLast(t) == {u \in members : u > visited[t] /\ \E v \in members : v > u}
(* A std::set of pointers is iterated in ascending order.                  *)
Unvisited(t) == {u \in members : u > visited[t]}

Enqueue(t) ==
  /\ pc[t] = "enqueue"
  /\ \E u \in Unvisited(t) :
       /\ \A v \in Unvisited(t) : u <= v
       /\ mqueue' = [mqueue EXCEPT ![u] = Append(@, arg[t])]
       /\ visited' = [visited EXCEPT ![t] = u]
  /\ UNCHANGED <<lock, members, pc, arg, unsent>>

EndBroadcast(t) ==
  /\ pc[t] = "enqueue"
  /\ Unvisited(t) = {}
  /\ Goto(t, "unlock")
  /\ UNCHANGED <<lock, members, mqueue, arg, visited, unsent>>

(* Mutant: the mutex is never unlocked.                                    *)
Leak(t) ==
  /\ pc[t] = "unlock"
  /\ Goto(t, "idle")
  /\ UNCHANGED <<lock, members, mqueue, arg, visited, unsent>>
(* ~Guard()                                                                *)
Release(t) ==
  /\ pc[t] = "unlock"
  /\ lock' = lock \ {t}
  /\ Goto(t, "idle")
  /\ UNCHANGED <<members, mqueue, arg, visited, unsent>>

Call(t) ==
  \/ \E u \in User : CallAdd(t, u) \/ CallRemove(t, u)
  \/ \E msg \in Message : CallBroadcast(t, msg)

Running(t) ==
  AddMember(t) \/ RemoveMember(t) \/ BeginBroadcast(t) \/ Enqueue(t)
    \/ EndBroadcast(t) \/ Release(t)

Next == \E t \in Thread : Call(t) \/ Running(t)

Spec == Init /\ [][Next]_vars

(* A thread that can go on does; nothing is assumed of who gets the mutex. *)
FairSpec == Spec /\ \A t \in Thread : WF_vars(Running(t))

-----------------------------------------------------------------------------
Holding == {t \in Thread : pc[t] \in {"enqueue", "unlock"}}

(* Where the threads are, and the kind of argument each operation has.     *)
TypeOK ==
  /\ members \subseteq User
  /\ mqueue \in [User -> Seq(Message)]
  /\ pc \in [Thread -> {"idle", "add", "remove", "broadcast", "enqueue", "unlock"}]
  /\ arg \in [Thread -> User \cup Message \cup {0}]
  /\ visited \in [Thread -> User \cup {0}]
  /\ unsent \subseteq Message
  /\ \A t \in Thread :
       /\ pc[t] \in {"add", "remove"} => arg[t] \in User
       /\ pc[t] \in {"broadcast", "enqueue"} => arg[t] \in Message \ unsent

(* The owner of the mutex is inside an operation and everyone else is      *)
(* outside: members and the queues are touched by one thread at a time.    *)
OneInside ==
  /\ lock = Holding
  /\ \A s, t \in Holding : s = t

(* The room implements the atomic room: a broadcast takes effect when the  *)
(* mutex is acquired and reaches exactly the members of that moment, so    *)
(* that two members who both got two messages got them in the same order.  *)
Promised(u) == {t \in Thread : pc[t] = "enqueue" /\ u \in Unvisited(t)}

Settled ==
  [u \in User |->
     IF Promised(u) = {} THEN mqueue[u]
     ELSE Append(mqueue[u], arg[CHOOSE t \in Promised(u) : TRUE])]

Abstract == INSTANCE AbstractRoom WITH mqueue <- Settled
ImplementsAbstractRoom == Abstract!Spec

(* Whoever gets the mutex gives it back: no operation blocks inside, so    *)
(* the callers are never all stuck (message_queue.h: enqueue() will not    *)
(* block).                                                                 *)
LockReturned == \A t \in Thread : t \in lock ~> t \notin lock
=============================================================================
