---------------------------- MODULE ChatReceiver ----------------------------
(***************************************************************************)
(* receiver.cpp of csf_assign05: log in, join, then print what the server  *)
(* delivers until the connection ends.  The server is the external peer:   *)
(* it only sends legal lines, and may stop in the middle of one.           *)
(***************************************************************************)
EXTENDS Connection

CONSTANTS
  LineLen,       \* lengths of the server's lines
  MaxDeliveries  \* bound on the messages delivered

VARIABLES
  pc,         \* "connect", "send", "receive", "loop" or "exit_failure"
  req,        \* the request being sent or answered
  shown,      \* the deliveries printed, by their numbers
  in_room,    \* the server has the client in its room
  delivered   \* number of messages the server has delivered

client == <<pc, req, shown>>
server == <<in_room, delivered>>
vars == <<connection, client, server>>

ReceiverTag == {"rlogin", "join", "ok", "err", "delivery", "empty"}

Init ==
  /\ ConnectionInit
  /\ pc = "connect"
  /\ req = "rlogin"
  /\ shown = <<>>
  /\ in_room = FALSE
  /\ delivered = 0

-----------------------------------------------------------------------------
Start ==
  /\ pc = "connect"
  /\ Connect
  /\ pc' = "send"
  /\ UNCHANGED <<req, shown, server>>

(* The join is only sent after the answer to the login, so that no send    *)
(* follows one that a closed peer answered with a reset: SIGPIPE, which    *)
(* can end the sender, does not reach this program.                        *)
SendRequest ==
  /\ pc = "send"
  /\ SendReturnsTrue([tag |-> req, len |-> 1, of |-> 0, whole |-> TRUE])
  /\ pc' = "receive"
  /\ UNCHANGED <<req, shown, server>>

SendFailed ==
  /\ pc = "send"
  /\ SendReturnsFalse
  /\ pc' = "exit_failure"
  /\ UNCHANGED <<req, shown, server>>

LoggedIn ==
  /\ pc = "receive" /\ req = "rlogin"
  /\ ReceiveReturns("ok")
  /\ req' = "join"
  /\ pc' = "send"
  /\ UNCHANGED <<shown, server>>

Joined ==
  /\ pc = "receive" /\ req = "join"
  /\ ReceiveReturns("ok")
  /\ pc' = "loop"
  /\ UNCHANGED <<req, shown, server>>

Refused ==
  /\ pc = "receive"
  /\ \E tag \in ReceiverTag \ {"ok"} : ReceiveReturns(tag)
  /\ pc' = "exit_failure"
  /\ UNCHANGED <<req, shown, server>>

(* Mutant: a failed receive() is reported and the loop goes on.            *)
ReportFailure ==
  /\ pc \in {"receive", "loop"}
  /\ ReceiveReturnsFalse
  /\ UNCHANGED <<client, server>>
ReceiveFailed ==
  /\ pc \in {"receive", "loop"}
  /\ ReceiveReturnsFalse
  /\ pc' = "exit_failure"
  /\ UNCHANGED <<req, shown, server>>

(* Print the sender's name and the text, room:sender:text being split at   *)
(* its first two colons.                                                   *)
ShowDelivery ==
  /\ pc = "loop"
  /\ ReceiveReturns("delivery")
  /\ LET line == Head(to_client)
     IN shown' = Append(shown, [number |-> line.of, whole |-> line.whole /\ line.len <= ReadLimit])
  /\ UNCHANGED <<pc, req, server>>

ReportUnexpected ==
  /\ pc = "loop"
  /\ \E tag \in ReceiverTag \ {"delivery"} : ReceiveReturns(tag)
  /\ UNCHANGED <<client, server>>
-----------------------------------------------------------------------------
(* The server answers a request; a refused login ends the session.         *)
ServerAnswers ==
  /\ link = "up" /\ to_server # <<>>
  /\ to_server' = Tail(to_server)
  /\ \E tag \in {"ok", "err"}, n \in LineLen :
       /\ to_client' = Append(to_client, [tag |-> tag, len |-> n, of |-> 0, whole |-> TRUE])
       /\ in_room' = (tag = "ok" /\ Head(to_server).tag = "join")
       /\ IF tag = "err" /\ Head(to_server).tag = "rlogin"
          THEN PeerEnds(<<>>) ELSE UNCHANGED link
  /\ UNCHANGED <<m_open, m_last_result, client, delivered>>

(* It delivers a message, or says that there is none.                      *)
ServerDelivers ==
  /\ link = "up" /\ in_room /\ delivered < MaxDeliveries
  /\ \E n \in LineLen :
       to_client' = Append(to_client, [tag |-> "delivery", len |-> n, of |-> delivered + 1, whole |-> TRUE])
  /\ delivered' = delivered + 1
  /\ UNCHANGED <<m_open, m_last_result, link, to_server, client, in_room>>

ServerIsEmpty ==
  /\ link = "up" /\ in_room /\ to_client = <<>>
  /\ to_client' = <<[tag |-> "empty", len |-> 1, of |-> 0, whole |-> TRUE]>>
  /\ UNCHANGED <<m_open, m_last_result, link, to_server, client, server>>

(* It stops in the middle of a delivery.                                   *)
ServerStops ==
  /\ link = "up" /\ in_room
  /\ \E tag \in {"delivery", "none"} :
       to_client' = Append(to_client, [tag |-> tag, len |-> 1, of |-> delivered + 1, whole |-> FALSE])
  /\ PeerEnds(to_server)
  /\ UNCHANGED <<m_open, m_last_result, to_server, client, server>>

ServerVanishes == m_open /\ PeerVanishes /\ UNCHANGED <<client, server>>

Running ==
  \/ Start \/ SendRequest \/ SendFailed \/ LoggedIn \/ Joined
  \/ Refused \/ ReceiveFailed \/ ShowDelivery \/ ReportUnexpected

Server ==
  ServerAnswers \/ ServerDelivers \/ ServerIsEmpty \/ ServerStops \/ ServerVanishes

Next == Running \/ Server

Spec == Init /\ [][Next]_vars

(* The client runs; nothing is assumed of the server.                      *)
FairSpec == Spec /\ WF_vars(Running)

-----------------------------------------------------------------------------
TypeOK ==
  /\ ConnectionTypeOK(ReceiverTag)
  /\ pc \in {"connect", "send", "receive", "loop", "exit_failure"}
  /\ req \in {"rlogin", "join"}
  /\ shown \in Seq([number : 1 .. MaxDeliveries + 1, whole : BOOLEAN])
  /\ in_room \in BOOLEAN
  /\ delivered \in 0 .. MaxDeliveries

IsDelivery(line) == line.tag = "delivery" /\ line.whole

(* The program ends once the server has gone: receive() returns false for  *)
(* good at the end of the stream.                                          *)
EndsWithServer == m_open /\ link # "up" ~> pc = "exit_failure"
=============================================================================
