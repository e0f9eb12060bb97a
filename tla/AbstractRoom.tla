---------------------------- MODULE AbstractRoom ----------------------------
(***************************************************************************)
(* A chat room as its callers may think of it: joining, leaving and        *)
(* broadcasting are single steps, and a broadcast reaches the queue of     *)
(* every member of that moment.                                            *)
(***************************************************************************)
EXTENDS Sequences

CONSTANTS User, Message

VARIABLES members, mqueue

vars == <<members, mqueue>>

Init == members = {} /\ mqueue = [u \in User |-> <<>>]

Join(u) == members' = members \cup {u} /\ UNCHANGED mqueue

Leave(u) == members' = members \ {u} /\ UNCHANGED mqueue

Broadcast(msg) ==
  /\ mqueue' = [u \in User |-> IF u \in members THEN Append(mqueue[u], msg) ELSE mqueue[u]]
  /\ UNCHANGED members

Next ==
  \/ \E u \in User : Join(u) \/ Leave(u)
  \/ \E msg \in Message : Broadcast(msg)

Spec == Init /\ [][Next]_vars
=============================================================================
