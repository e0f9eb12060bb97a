-------------------------------- MODULE Chat --------------------------------
(***************************************************************************)
(* The chat of csf_assign05 put together: a sender and a receiver, each on *)
(* a connection of its own, and between them a server that keeps one room. *)
(* The server's loops are stubs in the repository and external here; the   *)
(* room is the one that room.cpp implements.                               *)
(***************************************************************************)
EXTENDS Integers, Sequences, FiniteSets

CONSTANTS MaxLen, RequestLen, AnswerLen, DeliveryLen, MaxCommands, MaxRequests, MaxDeliveries

ASSUME ChatAssumption ==
  /\ MaxLen \in Nat /\ MaxLen > 2
  /\ RequestLen \subseteq Nat \ {0}
  /\ AnswerLen \subseteq 1 .. MaxLen /\ DeliveryLen \subseteq 1 .. MaxLen
  /\ {MaxCommands, MaxRequests, MaxDeliveries} \subseteq Nat

VARIABLES
  s_open, s_result, s_link, s_to_server, s_to_client,   \* the sender's connection
  s_pc, s_req, line, stdin, joined_room, left_first, s_in_room, typed, texts, asked, sends,
  r_open, r_result, r_link, r_to_server, r_to_client,   \* the receiver's connection
  r_pc, r_req, shown, r_in_room, delivered,
  mqueue,       \* the queue of the receiver
  broadcast,    \* the requests that were broadcast while the receiver was in the room
  deliveries,   \* those of them that were delivered
  server_up

Sender == INSTANCE ChatSender
  WITH m_open <- s_open, m_last_result <- s_result, link <- s_link,
       to_server <- s_to_server, to_client <- s_to_client,
       pc <- s_pc, req <- s_req, in_room <- s_in_room

Receiver == INSTANCE ChatReceiver
  WITH m_open <- r_open, m_last_result <- r_result, link <- r_link,
       to_server <- r_to_server, to_client <- r_to_client,
       pc <- r_pc, req <- r_req, in_room <- r_in_room, LineLen <- DeliveryLen

member == "receiver"
Room == INSTANCE AbstractRoom
  WITH User <- {member}, Message <- Nat, members <- IF r_in_room THEN {member} ELSE {}

sender == <<s_open, s_result, s_link, s_to_server, s_to_client, s_pc, s_req, line, stdin,
            joined_room, left_first, s_in_room, typed, texts, asked, sends>>
receiver == <<r_open, r_result, r_link, r_to_server, r_to_client, r_pc, r_req, shown,
              r_in_room, delivered>>
room == <<mqueue, broadcast, deliveries>>
vars == <<sender, receiver, room, server_up>>

Init ==
  /\ Sender!Init
  /\ Receiver!Init
  /\ mqueue = [u \in {member} |-> <<>>]
  /\ broadcast = <<>> /\ deliveries = <<>>
  /\ server_up = TRUE

-----------------------------------------------------------------------------
(* A program that starts after the server has ended cannot connect.        *)
SenderRuns ==
  /\ Sender!Running
  /\ s_pc = "connect" /\ ~server_up => ~s_open'
  /\ UNCHANGED <<receiver, room, server_up>>

SenderReads == Sender!Reading /\ UNCHANGED <<receiver, room, server_up>>

ReceiverRuns ==
  /\ Receiver!Running
  /\ r_pc = "connect" /\ ~server_up => ~r_open'
  /\ UNCHANGED <<sender, room, server_up>>

-----------------------------------------------------------------------------
(* An accepted sendall is broadcast to the room.                           *)
Accepted == Head(s_to_server).tag = "sendall" /\ s_to_client'[Len(s_to_client')].tag = "ok"

ServeSender ==
  /\ server_up /\ Sender!ServerAnswers
  /\ UNCHANGED <<receiver, deliveries, server_up>>
  /\ IF Accepted
     THEN /\ Room!Broadcast(Head(s_to_server).of)
          /\ broadcast' = IF r_in_room THEN Append(broadcast, Head(s_to_server).of) ELSE broadcast
     ELSE UNCHANGED <<mqueue, broadcast>>

ServeReceiver ==
  /\ server_up /\ Receiver!ServerAnswers
  /\ UNCHANGED <<sender, room, server_up>>

(* What is at the head of the queue is delivered.                          *)
Deliver ==
  /\ server_up /\ mqueue[member] # <<>>
  /\ Receiver!ServerDelivers
  /\ mqueue' = [mqueue EXCEPT ![member] = Tail(@)]
  /\ deliveries' = Append(deliveries, Head(mqueue[member]))
  /\ UNCHANGED <<sender, broadcast, server_up>>

TellEmpty ==
  /\ server_up /\ mqueue[member] = <<>>
  /\ Receiver!ServerIsEmpty
  /\ UNCHANGED <<sender, room, server_up>>

(* The server ends, for both at once, perhaps in the middle of a line.     *)
SenderLeft == IF s_open /\ s_link = "up" THEN Sender!ServerVanishes ELSE UNCHANGED sender
ReceiverLeft == IF r_open /\ r_link = "up" THEN Receiver!ServerVanishes ELSE UNCHANGED receiver

ServerEnds ==
  /\ server_up
  /\ \/ SenderLeft /\ (ReceiverLeft \/ Receiver!ServerStops)
     \/ Sender!ServerStops /\ ReceiverLeft
  /\ server_up' = FALSE
  /\ UNCHANGED room

Serves == ServeSender \/ ServeReceiver \/ Deliver \/ TellEmpty \/ ServerEnds

Next == SenderRuns \/ SenderReads \/ ReceiverRuns \/ Serves

Spec == Init /\ [][Next]_vars

(* Both clients run, and the server answers the sender or ends; the user   *)
(* need not type.                                                          *)
FairSpec ==
  /\ Spec
  /\ WF_vars(SenderRuns)
  /\ WF_vars(ReceiverRuns)
  /\ WF_vars((ServeSender \/ ServerEnds) /\ s_to_server # <<>>)

-----------------------------------------------------------------------------
TypeOK == Sender!TypeOK /\ Receiver!TypeOK

(* The answer the sender takes is the answer to its last request.          *)
Lockstep == TypeOK /\ Sender!Lockstep

(* At the prompt of a live session joined_room is stale only after a leave *)
(* that was accepted for a join that was not.                              *)
RoomKnown == Sender!RoomKnown

(* What was broadcast has been printed, is on its way to the receiver or   *)
(* waits in its queue, all in the order in which the sender's requests     *)
(* were made, unless the connection was aborted.  The last thing printed   *)
(* may be cut short.                                                       *)
EndToEnd ==
  LET coming == {i \in DOMAIN r_to_client : Receiver!IsDelivery(r_to_client[i])}
      number(i) == r_to_client[i].of
  IN (r_pc = "loop" \/ shown # <<>>) /\ r_link \in {"up", "closed"} =>
       /\ broadcast = deliveries \o mqueue[member]
       /\ \A k \in 1 .. (Len(broadcast) - 1) : broadcast[k] < broadcast[k + 1]
       /\ \A k \in DOMAIN shown :
            shown[k].number = k /\ (shown[k].whole <=> k <= Len(deliveries))
       /\ {number(i) : i \in coming} = (Len(shown) + 1) .. Len(deliveries)
       /\ \A i, j \in coming : i < j => number(i) < number(j)

(* A request of the sender comes to an end, one way or another.            *)
RequestEnds == Sender!RequestEnds

(* The receiver ends once the server has gone.                             *)
EndsWithServer == Receiver!EndsWithServer
=============================================================================
