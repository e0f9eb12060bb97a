----------------------------- MODULE ChatSender -----------------------------
(***************************************************************************)
(* sender.cpp of csf_assign05: log in, then read commands, each a request  *)
(* or two that wait for their answers.  The server is the external peer:   *)
(* it answers requests in order and may close the connection at any time.  *)
(***************************************************************************)
EXTENDS Connection, FiniteSets

CONSTANTS
  RequestLen,   \* lengths of the requests the user's lines become
  AnswerLen,    \* lengths of the server's answers
  MaxCommands,  \* bound on the lines typed
  MaxRequests   \* bound on the requests sent after the input has ended

VARIABLES
  pc,           \* "connect", "prompt", "send", "receive", or how the program ended
  req,          \* the request being sent or answered
  line,         \* the line read last
  stdin,        \* "open", or "ended" once the stream's eofbit is set
  joined_room,
  left_first,   \* history: the leave before a join was accepted, and no join since
  in_room,      \* what the server thinks
  typed,        \* number of lines typed
  texts,        \* number of lines typed that are not commands
  asked,        \* number of requests sent
  sends         \* number of those that are sendall

client == <<pc, req, line, stdin, joined_room, left_first, typed, texts, asked, sends>>
vars == <<connection, client, in_room>>

Request == {"slogin", "leave_first", "join", "leave", "quit", "sendall"}
Tag(r) == IF r = "leave_first" THEN "leave" ELSE r
SenderTag == {Tag(r) : r \in Request} \cup {"ok", "err"}

(* A line by what the loop makes of it: "noname" is /join without a room.  *)
Line == [kind : {"join", "noname", "leave", "quit", "text"}, len : RequestLen]
NoLine == [kind |-> "text", len |-> 0]

Init ==
  /\ ConnectionInit
  /\ pc = "connect"
  /\ req = "slogin"
  /\ line = NoLine
  /\ stdin = "open"
  /\ joined_room = FALSE /\ left_first = FALSE
  /\ in_room = FALSE
  /\ typed = 0 /\ texts = 0 /\ asked = 0 /\ sends = 0

-----------------------------------------------------------------------------
Start ==
  /\ pc = "connect"
  /\ Connect
  /\ pc' = "send"
  /\ UNCHANGED <<req, line, stdin, joined_room, left_first, in_room, typed, texts, asked, sends>>

(* Mutant: a failed request waits for another answer.                      *)
WaitAgain == pc' = "receive"
(* A failure ends the program during the login and is reported after it.   *)
GiveUp == pc' = IF req = "slogin" THEN "exit_failure" ELSE "prompt"

OutgoingRequest ==
  [tag |-> Tag(req), len |-> IF line.len = 0 THEN 1 ELSE line.len,
   of |-> asked + 1, whole |-> TRUE]

(* Mutant: the client does not wait for the answer to "leave room first".  *)
SendUnawaited ==
  /\ pc = "send"
  /\ SendReturnsTrue(OutgoingRequest)
  /\ pc' = IF req = "leave_first" THEN "send" ELSE "receive"
  /\ req' = IF req = "leave_first" THEN "join" ELSE req
  /\ asked' = asked + 1
  /\ sends' = IF req = "sendall" THEN sends + 1 ELSE sends
  /\ UNCHANGED <<line, stdin, joined_room, left_first, in_room, typed, texts>>
(* conn.send() of the request at hand.                                     *)
SendRequest ==
  /\ pc = "send"
  /\ SendReturnsTrue(OutgoingRequest)
  /\ pc' = "receive"
  /\ asked' = asked + 1
  /\ sends' = IF req = "sendall" THEN sends + 1 ELSE sends
  /\ UNCHANGED <<req, line, stdin, joined_room, left_first, in_room, typed, texts>>

SendFailed ==
  /\ pc = "send"
  /\ SendReturnsFalse
  /\ GiveUp
  /\ UNCHANGED <<req, line, stdin, joined_room, left_first, in_room, typed, texts, asked, sends>>

BrokenPipe ==
  /\ pc = "send"
  /\ SendKills
  /\ pc' = "killed"
  /\ UNCHANGED <<req, line, stdin, joined_room, left_first, in_room, typed, texts, asked, sends>>

(* No answer, or one that is not ok.                                       *)
Refused ==
  /\ pc = "receive"
  /\ ReceiveReturnsFalse \/ \E tag \in SenderTag \ {"ok"} : ReceiveReturns(tag)
  /\ GiveUp
  /\ UNCHANGED <<req, line, stdin, joined_room, left_first, in_room, typed, texts, asked, sends>>

-----------------------------------------------------------------------------
Answered(r) == pc = "receive" /\ req = r /\ ReceiveReturns("ok")

LoggedIn ==
  /\ Answered("slogin")
  /\ pc' = "prompt"
  /\ UNCHANGED <<req, line, stdin, joined_room, left_first, in_room, typed, texts, asked, sends>>

LeftFirst ==
  /\ Answered("leave_first")
  /\ pc' = "send"
  /\ req' = "join"
  /\ left_first' = TRUE
  /\ UNCHANGED <<line, stdin, joined_room, in_room, typed, texts, asked, sends>>

(* Mutant: the flag is not set.                                            *)
JoinedUnnoticed ==
  /\ Answered("join")
  /\ pc' = "prompt"
  /\ UNCHANGED <<req, line, stdin, joined_room, left_first, in_room, typed, texts, asked, sends>>
Joined ==
  /\ Answered("join")
  /\ pc' = "prompt"
  /\ joined_room' = TRUE /\ left_first' = FALSE
  /\ UNCHANGED <<req, line, stdin, in_room, typed, texts, asked, sends>>

Left ==
  /\ Answered("leave")
  /\ pc' = "prompt"
  /\ joined_room' = FALSE
  /\ UNCHANGED <<req, line, stdin, left_first, in_room, typed, texts, asked, sends>>

QuitAccepted ==
  /\ Answered("quit")
  /\ pc' = "close"
  /\ UNCHANGED <<req, line, stdin, joined_room, left_first, in_room, typed, texts, asked, sends>>

Exit ==
  /\ pc = "close"
  /\ Close
  /\ pc' = "exit_success"
  /\ UNCHANGED <<req, line, stdin, joined_room, left_first, in_room, typed, texts, asked, sends>>

SentToRoom ==
  /\ Answered("sendall")
  /\ pc' = "prompt"
  /\ UNCHANGED <<req, line, stdin, joined_room, left_first, in_room, typed, texts, asked, sends>>

-----------------------------------------------------------------------------
(* What the loop does with a line.                                         *)
Dispatch(l) ==
  LET request == IF l.kind = "join" THEN IF joined_room THEN "leave_first" ELSE "join"
                 ELSE IF l.kind = "text" THEN "sendall" ELSE l.kind
  IN IF l.kind = "noname" \/ (l.kind = "text" /\ ~joined_room)
     THEN UNCHANGED <<pc, req>>
     ELSE pc' = "send" /\ req' = request

(* getline() with input left; without a final newline it sets eofbit.      *)
ReadLine ==
  /\ pc = "prompt" /\ stdin = "open" /\ typed < MaxCommands
  /\ \E l \in Line :
       /\ line' = l
       /\ texts' = IF l.kind = "text" THEN texts + 1 ELSE texts
       /\ Dispatch(l)
  /\ typed' = typed + 1
  /\ stdin' \in {"open", "ended"}
  /\ UNCHANGED <<connection, joined_room, left_first, in_room, asked, sends>>

(* getline() at the end of the input: an empty line.                       *)
ReadEnd ==
  /\ pc = "prompt" /\ stdin = "open"
  /\ stdin' = "ended"
  /\ line' = NoLine
  /\ Dispatch(NoLine)
  /\ UNCHANGED <<connection, joined_room, left_first, in_room, typed, texts, asked, sends>>

(* getline() on a stream past its end leaves the string as it was, and     *)
(* nobody looks at the state of the stream.                                *)
ReadPastEnd ==
  /\ pc = "prompt" /\ stdin = "ended" /\ asked < MaxRequests
  /\ Dispatch(line)
  /\ UNCHANGED <<connection, line, stdin, joined_room, left_first, in_room, typed, texts, asked, sends>>

-----------------------------------------------------------------------------
(* The server answers the oldest request: login and join may be refused, a *)
(* line over MaxLen is read in pieces, and quit or a refused login ends    *)
(* the session.                                                            *)
Verdicts(tag) ==
  IF tag \in {"slogin", "join"} THEN {"ok", "err"}
  ELSE IF tag = "quit" \/ (tag \in {"leave", "sendall"} /\ in_room) THEN {"ok"}
  ELSE {"err"}

AfterServerRead ==
  LET r == Head(to_server)
  IN IF r.len <= MaxLen THEN Tail(to_server)
     ELSE <<[r EXCEPT !.tag = "none", !.len = @ - MaxLen]>> \o Tail(to_server)

ServerAnswers ==
  /\ link = "up" /\ to_server # <<>>
  /\ LET r == Head(to_server)
     IN \E tag \in Verdicts(r.tag), n \in AnswerLen :
          /\ to_client' = Append(to_client, [tag |-> tag, len |-> n, of |-> r.of, whole |-> TRUE])
          /\ in_room' = IF tag = "ok" /\ r.tag \in {"join", "leave"} THEN r.tag = "join" ELSE in_room
          /\ IF r.tag = "quit" \/ (r.tag = "slogin" /\ tag = "err")
             THEN PeerEnds(AfterServerRead) ELSE UNCHANGED link
  /\ to_server' = AfterServerRead
  /\ UNCHANGED <<m_open, m_last_result, client>>

(* It stops in the middle of an answer.                                    *)
ServerStops ==
  /\ link = "up" /\ to_server # <<>>
  /\ \E tag \in {"ok", "err", "none"} :
       to_client' = Append(to_client, [tag |-> tag, len |-> 1, of |-> Head(to_server).of, whole |-> FALSE])
  /\ to_server' = Tail(to_server)
  /\ PeerEnds(Tail(to_server))
  /\ UNCHANGED <<m_open, m_last_result, client, in_room>>

ServerVanishes == m_open /\ PeerVanishes /\ UNCHANGED <<client, in_room>>

Running ==
  \/ Start \/ SendRequest \/ SendFailed \/ BrokenPipe \/ Refused
  \/ LoggedIn \/ LeftFirst \/ Joined \/ Left \/ QuitAccepted \/ Exit \/ SentToRoom

Reading == ReadLine \/ ReadEnd \/ ReadPastEnd

Server == ServerAnswers \/ ServerStops \/ ServerVanishes

Next == Running \/ Reading \/ Server

Spec == Init /\ [][Next]_vars

(* The client runs, and the server answers or goes away in the end; the    *)
(* user need not type.                                                     *)
FairSpec == Spec /\ WF_vars(Running) /\ WF_vars(Server /\ to_server # <<>>)

-----------------------------------------------------------------------------
TypeOK ==
  /\ ConnectionTypeOK(SenderTag)
  /\ pc \in {"connect", "prompt", "send", "receive", "close", "exit_success", "exit_failure", "killed"}
  /\ req \in Request
  /\ line \in Line \cup {NoLine}
  /\ stdin \in {"open", "ended"}
  /\ {joined_room, left_first, in_room} \subseteq BOOLEAN
  /\ typed \in 0 .. MaxCommands /\ texts \in 0 .. typed
  /\ asked \in Nat /\ sends \in 0 .. asked

(* The answer the client takes is the answer to the request it sent last:  *)
(* one request is in flight at a time and nothing is left on the wire when *)
(* the next one goes out (each send() of the loop is followed by its own   *)
(* receive(), also on the error paths).                                    *)
Lockstep ==
  LET wire == to_client \o to_server
  IN /\ pc = "receive" => Len(wire) <= 1 /\ \A i \in DOMAIN wire : wire[i].of = asked
     /\ pc \in {"prompt", "send"} => wire = <<>>

(* At the prompt of a live session joined_room is TRUE exactly if the      *)
(* server has the sender in a room, but for one case: when the leave that  *)
(* a /join sends first is accepted and the join after it is not, it stays  *)
(* TRUE, for good, since the server refuses every leave from then on.      *)
RoomKnown == pc = "prompt" /\ link = "up" => (in_room <=> joined_room /\ ~left_first)

(* A request comes to an end, one way or another.                          *)
RequestEnds == pc \in {"send", "receive"} ~> pc \notin {"send", "receive"}

(* Every message sent to the room was typed: "Loop reading commands from   *)
(* user, sending messages to server as appropriate".                       *)
NothingUntyped == sends <= texts
=============================================================================
