----------------------------- MODULE ChatProofs -----------------------------
(***************************************************************************)
(* Proofs about the chat, for any number of commands, requests and         *)
(* deliveries: what the sender knows of its requests and of its room, and  *)
(* that what is broadcast arrives in order.                                *)
(***************************************************************************)
EXTENDS Chat, SequenceTheorems, TLAPS

(* Lines fit the buffers that read them: a request that of the server, an  *)
(* answer that of receive().                                               *)
Fitting == RequestLen \subseteq 1 .. MaxLen /\ AnswerLen \subseteq 1 .. (MaxLen - 1)

-----------------------------------------------------------------------------
(* The sender's wire: nothing, the request that was sent last, or the      *)
(* answer to it.                                                           *)
Idle == s_to_server = <<>> /\ s_to_client = <<>>

RequestOnWay(x) ==
  /\ s_to_server = <<x>> /\ s_to_client = <<>>
  /\ x.len <= MaxLen /\ x.of = asked /\ x.tag = Sender!Tag(s_req)
  /\ s_link = "up"

AnswerOnWay(x) ==
  /\ s_to_server = <<>> /\ s_to_client = <<x>>
  /\ x.len <= MaxLen - 1 /\ x.of = asked

SenderLine == Sender!WireLine(Sender!SenderTag)

WireInv ==
  /\ s_pc # "receive" => Idle
  /\ s_pc = "receive" =>
       /\ s_open
       /\ \/ Idle /\ s_link # "up"
          \/ \E x \in SenderLine : RequestOnWay(x) \/ AnswerOnWay(x)

(* The answer "ok" to request r lies on the wire: the server's idea of the *)
(* room is then ahead of the sender's.                                     *)
Granted(r) ==
  s_pc = "receive" /\ s_req = r /\ \E x \in SenderLine : s_to_client = <<x>> /\ x.tag = "ok"

RoomInv ==
  s_link = "up" =>
    /\ Granted("join") => s_in_room
    /\ Granted("leave") \/ Granted("leave_first") => ~s_in_room
    /\ ~(Granted("join") \/ Granted("leave") \/ Granted("leave_first")) =>
         (s_in_room <=> joined_room /\ ~left_first)

SenderInv == Sender!TypeOK /\ WireInv /\ RoomInv

LEMMA OneLine ==
  ASSUME NEW x
  PROVE  /\ <<x>> # <<>> /\ Head(<<x>>) = x /\ Tail(<<x>>) = <<>>
         /\ Append(<<>>, x) = <<x>> /\ Len(<<x>>) = 1 /\ <<x>>[1] = x
         /\ <<>> \o <<x>> = <<x>> /\ <<x>> \o <<>> = <<x>>
         /\ \A y : <<x>> = <<y>> => x = y
<1>1. <<x>> # <<>> 
  OBVIOUS
<1>2. Head(<<x>>) = x /\ Len(<<x>>) = 1 /\ <<x>>[1] = x
  OBVIOUS
<1>3. Tail(<<x>>) = <<>>
  OBVIOUS
<1>4. Append(<<>>, x) = <<x>> 
  OBVIOUS
<1>5. <<>> \o <<x>> = <<x>> 
  OBVIOUS
<1>6. <<x>> \o <<>> = <<x>>
  OBVIOUS
<1>7. \A y : <<x>> = <<y>> => x = y
  OBVIOUS
<1> QED
  BY <1>1, <1>2, <1>3, <1>4, <1>5, <1>6, <1>7

LEMMA SenderInit == Init => SenderInv
<1> SUFFICES ASSUME Init PROVE SenderInv
  OBVIOUS
<1> USE DEF Init, Sender!Init, Sender!ConnectionInit
<1>1. Sender!ConnectionTypeOK(Sender!SenderTag)
  <2>1. s_to_server \in Seq(SenderLine) /\ s_to_client \in Seq(SenderLine)
    OBVIOUS
  <2>2. s_open \in BOOLEAN /\ s_result = "SUCCESS" /\ s_link = "up"
    OBVIOUS
  <2> QED
    BY <2>1, <2>2 DEF Sender!ConnectionTypeOK, SenderLine
<1>2. s_pc = "connect" /\ s_req \in Sender!Request /\ line \in Sender!Line \cup {Sender!NoLine}
  BY DEF Sender!Request
<1>3. {joined_room, left_first, s_in_room} \subseteq BOOLEAN
  OBVIOUS
<1>4. typed \in 0 .. MaxCommands /\ texts \in 0 .. typed /\ asked \in Nat /\ sends \in 0 .. asked
  BY ChatAssumption
<1>5. Sender!TypeOK
  BY <1>1, <1>2, <1>3, <1>4 DEF Sender!TypeOK
<1>6. WireInv
  BY DEF WireInv, Idle
<1>7. RoomInv
  BY DEF RoomInv, Granted
<1> QED
  BY <1>5, <1>6, <1>7 DEF SenderInv

LEMMA WireShowsLockstep == SenderInv => Sender!Lockstep /\ Sender!RoomKnown
<1> SUFFICES ASSUME SenderInv PROVE Sender!Lockstep /\ Sender!RoomKnown
  OBVIOUS
<1> DEFINE wire == s_to_client \o s_to_server
<1>1. ASSUME Idle PROVE Sender!Lockstep
  <2>1. wire = <<>> /\ Len(<<>>) = 0
    BY <1>1 DEF Idle
  <2> QED
    BY <2>1 DEF Sender!Lockstep
<1>2. ASSUME s_pc = "receive", NEW x \in SenderLine, RequestOnWay(x) \/ AnswerOnWay(x)
      PROVE  Sender!Lockstep
  <2>1. wire = <<x>> /\ x.of = asked
    BY <1>2, OneLine DEF RequestOnWay, AnswerOnWay
  <2>2. Len(wire) = 1 /\ \A i \in DOMAIN wire : wire[i].of = asked
    BY <2>1
  <2> QED
    BY <1>2, <2>2 DEF Sender!Lockstep
<1>3. Sender!Lockstep
  BY <1>1, <1>2 DEF SenderInv, WireInv
<1>4. Sender!RoomKnown
  BY DEF Sender!RoomKnown, SenderInv, RoomInv, Granted
<1> QED
  BY <1>3, <1>4

-----------------------------------------------------------------------------
(* What is read of a wire and what is left on it are lines again.          *)
LineOf(T) == [tag : T \cup {"none"}, len : Nat \ {0}, of : Nat, whole : BOOLEAN]

LEMMA HeadAndTail ==
  ASSUME NEW S, NEW w \in Seq(S), w # <<>>
  PROVE  Head(w) \in S /\ Tail(w) \in Seq(S)
OBVIOUS

LEMMA PieceLeft ==
  ASSUME NEW T, NEW x \in LineOf(T), NEW n \in Nat, ~(x.len <= n)
  PROVE  [x EXCEPT !.tag = "none", !.len = @ - n] \in LineOf(T)
<1>1. x.len - n \in Nat \ {0}
  BY DEF LineOf
<1> QED
  BY <1>1 DEF LineOf

LEMMA PiecePutBack ==
  ASSUME NEW S, NEW w \in Seq(S), w # <<>>, NEW x \in S
  PROVE  <<x>> \o Tail(w) \in Seq(S)
<1>1. <<x>> \in Seq(S) /\ Tail(w) \in Seq(S)
  OBVIOUS
<1> QED
  BY <1>1, ConcatProperties

LEMMA SenderLines == Sender!WireLine(Sender!SenderTag) = LineOf(Sender!SenderTag)
BY DEF Sender!WireLine, LineOf

LEMMA SenderTypes ==
  ASSUME Sender!TypeOK, [Sender!Next]_(Sender!vars)
  PROVE  Sender!TypeOK'
<1> DEFINE L == LineOf(Sender!SenderTag)
           ProgramOK == /\ s_pc \in {"connect", "prompt", "send", "receive", "close",
                                     "exit_success", "exit_failure", "killed"}
                        /\ s_req \in Sender!Request
                        /\ line \in Sender!Line \cup {Sender!NoLine}
                        /\ stdin \in {"open", "ended"}
                        /\ {joined_room, left_first} \subseteq BOOLEAN
                        /\ typed \in 0 .. MaxCommands /\ texts \in 0 .. typed
                        /\ asked \in Nat /\ sends \in 0 .. asked
           ConnOK == /\ s_open \in BOOLEAN
                     /\ s_result \in {"SUCCESS", "EOF_OR_ERROR", "INVALID_MSG"}
                     /\ s_link \in {"up", "closed", "aborted", "reset"}
                     /\ s_to_server \in Seq(L) /\ s_to_client \in Seq(L)
<1>a. MaxLen \in Nat /\ MaxLen > 2 /\ RequestLen \subseteq Nat \ {0} /\ MaxCommands \in Nat
      /\ AnswerLen \subseteq Nat \ {0}
  BY ChatAssumption
<1>b. ProgramOK /\ ConnOK /\ s_in_room \in BOOLEAN
  BY SenderLines DEF Sender!TypeOK, Sender!ConnectionTypeOK
<1>c. ASSUME ProgramOK', ConnOK', s_in_room' \in BOOLEAN PROVE Sender!TypeOK'
  BY <1>c, SenderLines DEF Sender!TypeOK, Sender!ConnectionTypeOK
<1>d. ASSUME s_to_client # <<>> PROVE Sender!AfterReadLine \in Seq(L)
  <2>1. MaxLen - 1 \in Nat
    BY <1>a
  <2> QED
    BY <1>b, <1>d, <2>1, HeadAndTail, PieceLeft, PiecePutBack DEF Sender!AfterReadLine, Sender!ReadLimit
<1>e. ASSUME s_to_server # <<>> PROVE Sender!AfterServerRead \in Seq(L)
  BY <1>a, <1>b, <1>e, HeadAndTail, PieceLeft, PiecePutBack DEF Sender!AfterServerRead
<1>f. ASSUME Sender!ReceiveReturnsFalse \/ \E tag : Sender!ReceiveReturns(tag) PROVE ConnOK'
  BY <1>b, <1>d, <1>f DEF Sender!ReceiveReturnsFalse, Sender!ReceiveReturns
<1>g. Sender!OutgoingRequest \in L
  <2>1. (IF line.len = 0 THEN 1 ELSE line.len) \in Nat \ {0}
    <3>1. CASE line \in Sender!Line
      BY <1>a, <3>1 DEF Sender!Line
    <3>2. CASE line = Sender!NoLine
      BY <3>2 DEF Sender!NoLine
    <3> QED
      BY <1>b, <3>1, <3>2
  <2>2. Sender!Tag(s_req) \in Sender!SenderTag
    BY <1>b DEF Sender!SenderTag
  <2> QED
    BY <1>b, <2>1, <2>2 DEF Sender!OutgoingRequest, LineOf
<1>1. CASE Sender!Start
  BY <1>b, <1>c, <1>1 DEF Sender!Start, Sender!Connect
<1>2. CASE Sender!SendRequest
  <2> DEFINE x == Sender!OutgoingRequest
  <2> HIDE DEF L, x
  <2>0. x \in L
    BY <1>g DEF x
  <2>3. s_to_server' \in {s_to_server, Append(s_to_server, x)}
        /\ s_link' \in {s_link, "closed", "reset"} /\ s_result' = "SUCCESS"
        /\ UNCHANGED <<s_open, s_to_client>>
    BY <1>2 DEF Sender!SendRequest, Sender!SendReturnsTrue, x
  <2>4. Append(s_to_server, x) \in Seq(L)
    BY <1>b, <2>0
  <2>1. ConnOK'
    BY <1>b, <2>3, <2>4
  <2>2. ProgramOK' /\ s_in_room' \in BOOLEAN
    BY <1>b, <1>2 DEF Sender!SendRequest
  <2> QED
    BY <1>c, <2>1, <2>2
<1>3. CASE Sender!SendFailed \/ Sender!BrokenPipe
  BY <1>b, <1>c, <1>3 DEF Sender!SendFailed, Sender!BrokenPipe, Sender!SendReturnsFalse,
     Sender!SendKills, Sender!connection, Sender!GiveUp
<1>4. CASE Sender!Refused
  BY <1>b, <1>c, <1>f, <1>4 DEF Sender!Refused, Sender!GiveUp
<1>5. CASE \/ Sender!LoggedIn \/ Sender!LeftFirst \/ Sender!Joined \/ Sender!Left
           \/ Sender!QuitAccepted \/ Sender!SentToRoom
  <2>1. Sender!ReceiveReturns("ok")
    BY <1>5 DEF Sender!LoggedIn, Sender!LeftFirst, Sender!Joined, Sender!Left,
       Sender!QuitAccepted, Sender!SentToRoom, Sender!Answered
  <2>2. ProgramOK' /\ s_in_room' \in BOOLEAN
    BY <1>b, <1>5 DEF Sender!LoggedIn, Sender!LeftFirst, Sender!Joined, Sender!Left,
       Sender!QuitAccepted, Sender!SentToRoom, Sender!Request
  <2> QED
    BY <1>c, <1>f, <2>1, <2>2
<1>6. CASE Sender!Exit
  BY <1>b, <1>c, <1>6 DEF Sender!Exit, Sender!Close
<1>7. CASE Sender!ReadLine
  <2>1. ConnOK' /\ s_in_room' \in BOOLEAN
    BY <1>b, <1>7 DEF Sender!ReadLine, Sender!connection
  <2>2. PICK l \in Sender!Line :
          /\ line' = l /\ Sender!Dispatch(l)
          /\ texts' = IF l.kind = "text" THEN texts + 1 ELSE texts
    BY <1>7 DEF Sender!ReadLine
  <2>3. s_pc' \in {s_pc, "send"} /\ s_req' \in Sender!Request
    BY <1>b, <2>2 DEF Sender!Dispatch, Sender!Line, Sender!Request
  <2>4. typed' \in 0 .. MaxCommands /\ texts' \in 0 .. typed'
    BY <1>a, <1>b, <1>7, <2>2 DEF Sender!ReadLine
  <2>5. ProgramOK'
    BY <1>b, <1>7, <2>2, <2>3, <2>4 DEF Sender!ReadLine
  <2> QED
    BY <1>c, <2>1, <2>5
<1>8. CASE Sender!ReadEnd \/ Sender!ReadPastEnd
  <2>1. ConnOK' /\ s_in_room' \in BOOLEAN
    BY <1>b, <1>8 DEF Sender!ReadEnd, Sender!ReadPastEnd, Sender!connection
  <2>2. line' \in {line, Sender!NoLine} /\ Sender!Dispatch(line')
    BY <1>8 DEF Sender!ReadEnd, Sender!ReadPastEnd
  <2>3. line'.kind \in {"join", "noname", "leave", "quit", "text"}
    BY <1>b, <2>2 DEF Sender!Line, Sender!NoLine
  <2>4. s_pc' \in {s_pc, "send"} /\ s_req' \in Sender!Request
    BY <1>b, <2>2, <2>3 DEF Sender!Dispatch, Sender!Request
  <2>5. ProgramOK'
    BY <1>b, <1>8, <2>2, <2>4 DEF Sender!ReadEnd, Sender!ReadPastEnd
  <2> QED
    BY <1>c, <2>1, <2>5
<1>9. CASE Sender!ServerAnswers
  <2>1. ProgramOK'
    BY <1>b, <1>9 DEF Sender!ServerAnswers, Sender!client
  <2>2. Head(s_to_server) \in L
    BY <1>b, <1>9, HeadAndTail DEF Sender!ServerAnswers
  <2>3. PICK tag \in Sender!Verdicts(Head(s_to_server).tag), n \in AnswerLen :
          /\ s_to_client' = Append(s_to_client, [tag |-> tag, len |-> n,
                              of |-> Head(s_to_server).of, whole |-> TRUE])
          /\ s_in_room' = IF tag = "ok" /\ Head(s_to_server).tag \in {"join", "leave"}
                          THEN Head(s_to_server).tag = "join" ELSE s_in_room
          /\ s_link' \in {"closed", "aborted", s_link}
    BY <1>9 DEF Sender!ServerAnswers, Sender!PeerEnds
  <2>4. tag \in {"ok", "err"}
    BY DEF Sender!Verdicts
  <2>5. [tag |-> tag, len |-> n, of |-> Head(s_to_server).of, whole |-> TRUE] \in L
    BY <1>a, <2>2, <2>4 DEF LineOf, Sender!SenderTag
  <2> HIDE DEF L
  <2>8. s_to_client' \in Seq(L)
    BY <1>b, <2>3, <2>5
  <2>9. s_in_room' \in BOOLEAN
    BY <1>b, <2>3
  <2>6. s_to_client' \in Seq(L) /\ s_in_room' \in BOOLEAN
    BY <2>8, <2>9
  <2>7. ConnOK'
    BY <1>b, <1>e, <1>9, <2>3, <2>6 DEF Sender!ServerAnswers
  <2> QED
    BY <1>c, <2>1, <2>6, <2>7
<1>10. CASE Sender!ServerStops
  <2>1. ProgramOK' /\ s_in_room' \in BOOLEAN
    BY <1>b, <1>10 DEF Sender!ServerStops, Sender!client
  <2>2. Head(s_to_server) \in L /\ Tail(s_to_server) \in Seq(L)
    BY <1>b, <1>10, HeadAndTail DEF Sender!ServerStops
  <2>3. PICK tag \in {"ok", "err", "none"} :
          s_to_client' = Append(s_to_client, [tag |-> tag, len |-> 1,
                           of |-> Head(s_to_server).of, whole |-> FALSE])
    BY <1>10 DEF Sender!ServerStops
  <2>4. [tag |-> tag, len |-> 1, of |-> Head(s_to_server).of, whole |-> FALSE] \in L
    BY <2>2 DEF LineOf, Sender!SenderTag
  <2>5. ConnOK'
    BY <1>b, <1>10, <2>2, <2>3, <2>4 DEF Sender!ServerStops, Sender!PeerEnds
  <2> QED
    BY <1>c, <2>1, <2>5
<1>11. CASE Sender!ServerVanishes
  <2>1. ProgramOK' /\ s_in_room' \in BOOLEAN
    BY <1>b, <1>11 DEF Sender!ServerVanishes, Sender!client
  <2>2. s_to_client' \in {s_to_client, <<>>} /\ s_to_server' = <<>>
        /\ s_link' \in {"closed", "aborted"} /\ UNCHANGED <<s_open, s_result>>
    BY <1>11 DEF Sender!ServerVanishes, Sender!PeerVanishes, Sender!PeerEnds
  <2> HIDE DEF L
  <2>4. <<>> \in Seq(L)
    OBVIOUS
  <2>5. s_to_server' \in Seq(L) /\ s_to_client' \in Seq(L)
    BY <1>b, <2>2, <2>4
  <2>3. ConnOK'
    BY <1>b, <2>2, <2>5
  <2> QED
    BY <1>c, <2>1, <2>3
<1>12. CASE UNCHANGED Sender!vars
  BY <1>b, <1>c, <1>12 DEF Sender!vars, Sender!connection, Sender!client
<1> QED
  BY <1>1, <1>2, <1>3, <1>4, <1>5, <1>6, <1>7, <1>8, <1>9, <1>10, <1>11, <1>12
     DEF Sender!Next, Sender!Running, Sender!Reading, Sender!Server

-----------------------------------------------------------------------------
(* What the sender takes from the wire is the answer, all of it.           *)
LEMMA AnswerTaken ==
  ASSUME SenderInv, s_pc = "receive", NEW tag, Sender!ReceiveReturns(tag)
  PROVE  /\ Idle' /\ UNCHANGED <<s_open, s_link>>
         /\ \E x \in SenderLine : AnswerOnWay(x) /\ x.tag = tag
<1>1. s_to_client # <<>>
  BY DEF Sender!ReceiveReturns
<1>2. PICK x \in SenderLine : AnswerOnWay(x)
  BY <1>1 DEF SenderInv, WireInv, Idle, RequestOnWay
<1>3. Head(s_to_client) = x /\ Tail(s_to_client) = <<>> /\ s_to_server = <<>>
  BY <1>2, OneLine DEF AnswerOnWay
<1>4. x.len <= MaxLen - 1
  BY <1>2 DEF AnswerOnWay
<1>5. Sender!AfterReadLine = <<>>
  BY <1>3, <1>4 DEF Sender!AfterReadLine, Sender!ReadLimit
<1> QED
  BY <1>2, <1>3, <1>5 DEF Sender!ReceiveReturns, Idle

LEMMA NothingTaken ==
  ASSUME SenderInv, s_pc = "receive", Sender!ReceiveReturnsFalse
  PROVE  Idle' /\ (s_link' = "up" => s_link = "up") /\ ~Granted("join") /\ ~Granted("leave") /\ ~Granted("leave_first")
<1>1. s_open
  BY DEF SenderInv, WireInv
<1>2. CASE s_to_client = <<>> /\ s_link # "up"
  <2>1. s_to_server = <<>>
    BY <1>2, OneLine DEF SenderInv, WireInv, Idle, RequestOnWay, AnswerOnWay
  <2> QED
    BY <1>1, <1>2, <2>1, OneLine DEF Sender!ReceiveReturnsFalse, Idle, Granted
<1>3. CASE s_to_client # <<>> /\ Head(s_to_client).tag = "none"
  <2>1. PICK x \in SenderLine : AnswerOnWay(x)
    BY <1>3 DEF SenderInv, WireInv, Idle, RequestOnWay
  <2>2. Head(s_to_client) = x /\ Tail(s_to_client) = <<>> /\ s_to_server = <<>> /\ x.tag = "none"
    BY <1>3, <2>1, OneLine DEF AnswerOnWay
  <2>3. x.len <= MaxLen - 1
    BY <2>1 DEF AnswerOnWay
  <2>4. Sender!AfterReadLine = <<>>
    BY <2>2, <2>3 DEF Sender!AfterReadLine, Sender!ReadLimit
  <2>5. ~Granted("join") /\ ~Granted("leave") /\ ~Granted("leave_first")
    BY <2>1, <2>2, OneLine DEF Granted, AnswerOnWay
  <2> QED
    BY <1>1, <1>3, <2>2, <2>4, <2>5 DEF Sender!ReceiveReturnsFalse, Idle
<1> QED
  BY <1>1, <1>2, <1>3 DEF Sender!ReceiveReturnsFalse

LEMMA SenderStep ==
  ASSUME Fitting, SenderInv, [Sender!Next]_(Sender!vars)
  PROVE  SenderInv'
<1>a. Sender!TypeOK /\ Sender!TypeOK'
  BY SenderTypes DEF SenderInv
<1>b. ASSUME WireInv', RoomInv' PROVE SenderInv'
  BY <1>a, <1>b DEF SenderInv
<1>1. CASE Sender!Start
  BY <1>b, <1>1 DEF Sender!Start, Sender!Connect, SenderInv, WireInv, RoomInv, Idle, Granted
<1>2. CASE Sender!SendRequest
  <2> DEFINE x == Sender!OutgoingRequest
  <2>1. Idle /\ s_open /\ s_pc = "send" /\ s_pc' = "receive" /\ asked' = asked + 1
        /\ UNCHANGED <<s_open, s_req, s_to_client, joined_room, left_first, s_in_room>>
    BY <1>2 DEF Sender!SendRequest, Sender!SendReturnsTrue, SenderInv, WireInv
  <2>2. ~Granted("join")' /\ ~Granted("leave")' /\ ~Granted("leave_first")'
    BY <2>1, OneLine DEF Granted, Idle
  <2>3. RoomInv'
    BY <1>2, <2>1, <2>2 DEF Sender!SendRequest, Sender!SendReturnsTrue, SenderInv, RoomInv, Granted
  <2>4. CASE s_link = "up"
    <3>1. s_to_server' = <<x>> /\ s_link' = "up" /\ s_to_client' = <<>>
      BY <1>2, <2>1, <2>4, OneLine DEF Sender!SendRequest, Sender!SendReturnsTrue, Idle
    <3>2. x.tag = Sender!Tag(s_req)' /\ x.of = asked'
      BY <2>1 DEF Sender!OutgoingRequest, Sender!Tag
    <3>3. x.len <= MaxLen
      <4>1. MaxLen \in Nat /\ MaxLen > 2 /\ RequestLen \subseteq 1 .. MaxLen
        BY ChatAssumption DEF Fitting
      <4>2. x.len = IF line.len = 0 THEN 1 ELSE line.len
        BY DEF Sender!OutgoingRequest
      <4>3. CASE line \in Sender!Line
        <5>1. line.len \in 1 .. MaxLen
          BY <4>1, <4>3 DEF Sender!Line
        <5> QED
          BY <4>1, <4>2, <5>1
      <4>4. CASE line = Sender!NoLine
        BY <4>1, <4>2, <4>4 DEF Sender!NoLine
      <4> QED
        BY <1>a, <4>3, <4>4 DEF Sender!TypeOK
    <3>4. x \in SenderLine
      <4>1. s_to_server' \in Seq(SenderLine)
        BY <1>a DEF Sender!TypeOK, Sender!ConnectionTypeOK, SenderLine
      <4> QED
        BY <3>1, <4>1
    <3> QED
      BY <1>b, <2>1, <2>3, <3>1, <3>2, <3>3, <3>4 DEF WireInv, RequestOnWay
  <2>5. CASE s_link # "up"
    <3>1. Idle' /\ s_link' # "up"
      BY <1>2, <2>1, <2>5 DEF Sender!SendRequest, Sender!SendReturnsTrue, Idle
    <3> QED
      BY <1>b, <2>1, <2>3, <3>1 DEF WireInv
  <2> QED
    BY <2>4, <2>5
<1>3. CASE Sender!SendFailed \/ Sender!BrokenPipe
  <2>1. s_pc = "send" /\ s_pc' # "receive" /\ Idle /\ Idle' /\ (s_link' = "up" => s_link = "up")
        /\ UNCHANGED <<joined_room, left_first, s_in_room>>
    BY <1>3 DEF Sender!SendFailed, Sender!BrokenPipe, Sender!SendReturnsFalse,
       Sender!SendKills, Sender!connection, Sender!GiveUp, SenderInv, WireInv, Idle
  <2> QED
    BY <1>b, <2>1 DEF SenderInv, WireInv, RoomInv, Granted
<1>4. CASE Sender!Refused
  <2>1. s_pc = "receive" /\ s_pc' # "receive" /\ UNCHANGED <<joined_room, left_first, s_in_room>>
    BY <1>4 DEF Sender!Refused, Sender!GiveUp
  <2>2. Idle' /\ (s_link' = "up" => s_link = "up") /\ ~Granted("join") /\ ~Granted("leave") /\ ~Granted("leave_first")
    <3>1. CASE Sender!ReceiveReturnsFalse
      BY <2>1, <3>1, NothingTaken
    <3>2. ASSUME NEW tag \in Sender!SenderTag \ {"ok"}, Sender!ReceiveReturns(tag)
          PROVE  Idle' /\ (s_link' = "up" => s_link = "up") /\ ~Granted("join") /\ ~Granted("leave") /\ ~Granted("leave_first")
      <4>1. PICK x \in SenderLine : AnswerOnWay(x) /\ x.tag = tag
        BY <2>1, <3>2, AnswerTaken
      <4> QED
        BY <2>1, <3>2, <4>1, AnswerTaken, OneLine DEF Granted, AnswerOnWay
    <3> QED
      BY <1>4, <3>1, <3>2 DEF Sender!Refused
  <2> QED
    BY <1>b, <2>1, <2>2 DEF SenderInv, WireInv, RoomInv, Granted
<1>5. CASE \/ Sender!LoggedIn \/ Sender!LeftFirst \/ Sender!Joined \/ Sender!Left
           \/ Sender!QuitAccepted \/ Sender!SentToRoom
  <2>1. s_pc = "receive" /\ Sender!ReceiveReturns("ok") /\ s_pc' # "receive" /\ UNCHANGED s_in_room
    BY <1>5 DEF Sender!LoggedIn, Sender!LeftFirst, Sender!Joined, Sender!Left,
       Sender!QuitAccepted, Sender!SentToRoom, Sender!Answered
  <2>2. PICK x \in SenderLine : AnswerOnWay(x) /\ x.tag = "ok"
    BY <2>1, AnswerTaken
  <2>3. Idle' /\ UNCHANGED <<s_open, s_link>> /\ Granted(s_req)
    BY <2>1, <2>2, AnswerTaken DEF Granted, AnswerOnWay
  <2>4. WireInv'
    BY <2>1, <2>3 DEF WireInv
  <2>5. ~Granted("join")' /\ ~Granted("leave")' /\ ~Granted("leave_first")'
    BY <2>1 DEF Granted
  <2>6. CASE s_req = "join"
    <3>1. joined_room' = TRUE /\ left_first' = FALSE
      BY <1>5, <2>6 DEF Sender!LoggedIn, Sender!LeftFirst, Sender!Joined, Sender!Left,
         Sender!QuitAccepted, Sender!SentToRoom, Sender!Answered
    <3>2. s_link = "up" => s_in_room
      BY <2>3, <2>6 DEF SenderInv, RoomInv
    <3> QED
      BY <1>b, <2>1, <2>3, <2>4, <2>5, <3>1, <3>2 DEF RoomInv
  <2>7. CASE s_req = "leave" \/ s_req = "leave_first"
    <3>1. joined_room' = FALSE \/ left_first' = TRUE
      BY <1>5, <2>7 DEF Sender!LoggedIn, Sender!LeftFirst, Sender!Joined, Sender!Left,
         Sender!QuitAccepted, Sender!SentToRoom, Sender!Answered
    <3>2. s_link = "up" => ~s_in_room
      BY <2>3, <2>7 DEF SenderInv, RoomInv
    <3> QED
      BY <1>b, <2>1, <2>3, <2>4, <2>5, <3>1, <3>2 DEF RoomInv
  <2>8. CASE s_req \notin {"join", "leave", "leave_first"}
    <3>1. UNCHANGED <<joined_room, left_first>>
      BY <1>5, <2>8 DEF Sender!LoggedIn, Sender!LeftFirst, Sender!Joined, Sender!Left,
         Sender!QuitAccepted, Sender!SentToRoom, Sender!Answered
    <3>2. ~Granted("join") /\ ~Granted("leave") /\ ~Granted("leave_first")
      BY <2>8 DEF Granted
    <3> QED
      BY <1>b, <2>1, <2>3, <2>4, <2>5, <3>1, <3>2 DEF SenderInv, RoomInv
  <2> QED
    BY <2>6, <2>7, <2>8
<1>6. CASE Sender!Exit
  BY <1>b, <1>6 DEF Sender!Exit, Sender!Close, SenderInv, WireInv, RoomInv, Idle, Granted
<1>7. CASE Sender!Reading
  <2>1. s_pc = "prompt" /\ s_pc' # "receive" /\ UNCHANGED <<s_link, s_to_server, s_to_client,
          joined_room, left_first, s_in_room>>
    BY <1>7 DEF Sender!Reading, Sender!ReadLine, Sender!ReadEnd, Sender!ReadPastEnd,
       Sender!Dispatch, Sender!connection
  <2> QED
    BY <1>b, <2>1 DEF SenderInv, WireInv, RoomInv, Idle, Granted
<1>8. CASE Sender!ServerAnswers
  <2>1. s_link = "up" /\ s_to_server # <<>> /\ UNCHANGED <<s_open, s_pc, s_req, asked, joined_room, left_first>>
    BY <1>8 DEF Sender!ServerAnswers, Sender!client
  <2>2. PICK x \in SenderLine : RequestOnWay(x)
    BY <2>1, OneLine DEF SenderInv, WireInv, Idle, AnswerOnWay
  <2>3. s_pc = "receive" /\ s_open
    BY <2>1 DEF SenderInv, WireInv, Idle
  <2>4. Head(s_to_server) = x /\ Tail(s_to_server) = <<>>
    BY <2>2, OneLine DEF RequestOnWay
  <2>5. Sender!AfterServerRead = <<>>
    BY <2>2, <2>4 DEF RequestOnWay, Sender!AfterServerRead
  <2>6. PICK tag \in Sender!Verdicts(x.tag), n \in AnswerLen :
          /\ s_to_client' = Append(s_to_client, [tag |-> tag, len |-> n, of |-> x.of, whole |-> TRUE])
          /\ s_in_room' = IF tag = "ok" /\ x.tag \in {"join", "leave"}
                          THEN x.tag = "join" ELSE s_in_room
    BY <1>8, <2>4 DEF Sender!ServerAnswers
  <2> DEFINE y == [tag |-> tag, len |-> n, of |-> x.of, whole |-> TRUE]
  <2>7. s_to_client' = <<y>> /\ s_to_server' = <<>>
    BY <1>8, <2>2, <2>5, <2>6, OneLine DEF RequestOnWay, Sender!ServerAnswers
  <2>8. y.len <= MaxLen - 1 /\ y.of = asked' /\ y.tag = tag
    <3>1. MaxLen \in Nat /\ n \in 1 .. (MaxLen - 1)
      BY ChatAssumption DEF Fitting
    <3> QED
      BY <2>1, <2>2, <3>1 DEF RequestOnWay
  <2>9. y \in SenderLine
    <3>1. s_to_client' \in Seq(SenderLine)
      BY <1>a DEF Sender!TypeOK, Sender!ConnectionTypeOK, SenderLine
    <3> QED
      BY <2>7, <3>1
  <2>10. WireInv'
    <3>1. AnswerOnWay(y)'
      BY <2>7, <2>8 DEF AnswerOnWay
    <3> QED
      BY <2>1, <2>3, <2>9, <3>1 DEF WireInv
  <2>11. \A r : Granted(r)' <=> s_req = r /\ tag = "ok"
    BY <2>1, <2>3, <2>7, <2>8, <2>9, OneLine DEF Granted
  <2>12. ~Granted("join") /\ ~Granted("leave") /\ ~Granted("leave_first")
    BY <2>2, OneLine DEF Granted, RequestOnWay
  <2>13. x.tag = Sender!Tag(s_req)
    BY <2>2 DEF RequestOnWay
  <2>14. s_in_room <=> joined_room /\ ~left_first
    BY <2>1, <2>12 DEF SenderInv, RoomInv
  <2>15. CASE tag = "ok" /\ s_req \in {"join", "leave", "leave_first"}
    <3>1. s_in_room' = (s_req = "join")
      BY <2>6, <2>13, <2>15 DEF Sender!Tag
    <3> QED
      BY <1>b, <2>10, <2>11, <2>15, <3>1 DEF RoomInv
  <2>16. CASE ~(tag = "ok" /\ s_req \in {"join", "leave", "leave_first"})
    <3>1. ~(tag = "ok" /\ x.tag \in {"join", "leave"})
      BY <2>13, <2>16 DEF Sender!Tag
    <3>2. s_in_room' = s_in_room
      BY <2>6, <3>1
    <3> QED
      BY <1>b, <2>1, <2>10, <2>11, <2>14, <2>16, <3>2 DEF RoomInv
  <2> QED
    BY <2>15, <2>16
<1>9. CASE Sender!ServerStops
  <2>1. s_link = "up" /\ s_to_server # <<>> /\ UNCHANGED <<s_open, s_pc, asked>>
    BY <1>9 DEF Sender!ServerStops, Sender!client
  <2>2. PICK x \in SenderLine : RequestOnWay(x)
    BY <2>1, OneLine DEF SenderInv, WireInv, Idle, AnswerOnWay
  <2>3. s_pc = "receive" /\ s_open
    BY <2>1 DEF SenderInv, WireInv, Idle
  <2>4. Head(s_to_server) = x /\ Tail(s_to_server) = <<>>
    BY <2>2, OneLine DEF RequestOnWay
  <2>5. PICK tag \in {"ok", "err", "none"} :
          s_to_client' = Append(s_to_client, [tag |-> tag, len |-> 1, of |-> x.of, whole |-> FALSE])
    BY <1>9, <2>4 DEF Sender!ServerStops
  <2> DEFINE y == [tag |-> tag, len |-> 1, of |-> x.of, whole |-> FALSE]
  <2>6. s_to_client' = <<y>> /\ s_to_server' = <<>> /\ s_link' # "up"
    BY <1>9, <2>2, <2>4, <2>5, OneLine DEF RequestOnWay, Sender!ServerStops, Sender!PeerEnds
  <2>7. y \in SenderLine
    <3>1. s_to_client' \in Seq(SenderLine)
      BY <1>a DEF Sender!TypeOK, Sender!ConnectionTypeOK, SenderLine
    <3> QED
      BY <2>6, <3>1
  <2>8. AnswerOnWay(y)'
    BY <2>1, <2>2, <2>6, ChatAssumption DEF AnswerOnWay, RequestOnWay
  <2> QED
    BY <1>b, <2>1, <2>3, <2>6, <2>7, <2>8 DEF WireInv, RoomInv
<1>10. CASE Sender!ServerVanishes
  <2>1. s_link' # "up" /\ s_to_server' = <<>> /\ UNCHANGED <<s_open, s_pc, asked>>
        /\ s_to_client' \in {s_to_client, <<>>}
    BY <1>10 DEF Sender!ServerVanishes, Sender!PeerVanishes, Sender!PeerEnds, Sender!client
  <2>2. ASSUME s_to_client' = s_to_client, NEW x \in SenderLine, AnswerOnWay(x)
        PROVE  AnswerOnWay(x)'
    BY <2>1, <2>2 DEF AnswerOnWay
  <2>3. ASSUME NEW x \in SenderLine, RequestOnWay(x) PROVE Idle'
    BY <2>1, <2>3 DEF RequestOnWay, Idle
  <2>4. Idle => Idle'
    BY <2>1 DEF Idle
  <2>5. s_to_client' = <<>> => Idle'
    BY <2>1 DEF Idle
  <2>6. WireInv'
    BY <2>1, <2>2, <2>3, <2>4, <2>5 DEF SenderInv, WireInv
  <2> QED
    BY <1>b, <2>1, <2>6 DEF RoomInv
<1>11. CASE UNCHANGED Sender!vars
  BY <1>b, <1>11 DEF Sender!vars, Sender!connection, Sender!client, SenderInv, WireInv, RoomInv,
     Idle, Granted, RequestOnWay, AnswerOnWay
<1> QED
  BY <1>1, <1>2, <1>3, <1>4, <1>5, <1>6, <1>7, <1>8, <1>9, <1>10, <1>11
     DEF Sender!Next, Sender!Running, Sender!Server

-----------------------------------------------------------------------------
(* The lines on their way to the receiver.                                 *)
ReceiverLine ==
  {x \in LineOf(Receiver!ReceiverTag) : x.tag = "delivery" => x.of \in 1 .. (MaxDeliveries + 1)}

ReceiverInv == Receiver!TypeOK /\ r_to_client \in Seq(ReceiverLine)

LEMMA ReceiverInit == Init => ReceiverInv
<1> SUFFICES ASSUME Init PROVE ReceiverInv
  OBVIOUS
<1> USE DEF Init, Receiver!Init, Receiver!ConnectionInit
<1>1. \A S : <<>> \in Seq(S)
  OBVIOUS
<1>2. Receiver!ConnectionTypeOK(Receiver!ReceiverTag)
  BY <1>1 DEF Receiver!ConnectionTypeOK
<1>3. Receiver!TypeOK
  <2>1. shown \in Seq([number : 1 .. MaxDeliveries + 1, whole : BOOLEAN])
    BY <1>1
  <2>2. delivered \in 0 .. MaxDeliveries /\ r_in_room \in BOOLEAN
    <3>1. MaxDeliveries \in Nat
      BY ChatAssumption
    <3>2. delivered \in 0 .. MaxDeliveries
      BY <3>1
    <3>3. r_in_room \in BOOLEAN
      OBVIOUS
    <3> QED
      BY <3>2, <3>3
  <2>3. r_pc = "connect" /\ r_req = "rlogin"
    OBVIOUS
  <2> QED
    BY <1>2, <2>1, <2>2, <2>3 DEF Receiver!TypeOK
<1> QED
  BY <1>1, <1>3 DEF ReceiverInv

LEMMA ReceiverTypes ==
  ASSUME ReceiverInv, [Receiver!Next]_(Receiver!vars)
  PROVE  ReceiverInv'
<1> DEFINE T == Receiver!ReceiverTag
           L == LineOf(T)
           D == ReceiverLine
           ProgramOK == /\ r_pc \in {"connect", "send", "receive", "loop", "exit_failure"}
                        /\ r_req \in {"rlogin", "join"}
                        /\ shown \in Seq([number : 1 .. MaxDeliveries + 1, whole : BOOLEAN])
           ServerOK == r_in_room \in BOOLEAN /\ delivered \in 0 .. MaxDeliveries
           ConnOK == /\ r_open \in BOOLEAN
                     /\ r_result \in {"SUCCESS", "EOF_OR_ERROR", "INVALID_MSG"}
                     /\ r_link \in {"up", "closed", "aborted", "reset"}
                     /\ r_to_server \in Seq(L) /\ r_to_client \in Seq(D)
<1>a. MaxLen \in Nat /\ MaxLen > 2 /\ MaxDeliveries \in Nat /\ DeliveryLen \subseteq Nat \ {0}
  BY ChatAssumption
<1>0. D \subseteq L /\ Receiver!WireLine(T) = L
  BY DEF ReceiverLine, Receiver!WireLine, LineOf
<1>b. ProgramOK /\ ServerOK /\ ConnOK
  BY <1>0 DEF ReceiverInv, Receiver!TypeOK, Receiver!ConnectionTypeOK
<1>c. ASSUME ProgramOK', ServerOK', ConnOK' PROVE ReceiverInv'
  <2>1. r_to_client' \in Seq(L)
    BY <1>0, <1>c
  <2> QED
    BY <1>0, <1>c, <2>1 DEF ReceiverInv, Receiver!TypeOK, Receiver!ConnectionTypeOK
<1>d. ASSUME r_to_client # <<>> PROVE Receiver!AfterReadLine \in Seq(D)
  <2> DEFINE x == Head(r_to_client)
             piece == [x EXCEPT !.tag = "none", !.len = @ - (MaxLen - 1)]
  <2>1. x \in D /\ x \in L /\ Tail(r_to_client) \in Seq(D) /\ MaxLen - 1 \in Nat
    BY <1>0, <1>a, <1>b, <1>d, HeadAndTail
  <2>2. CASE x.len <= MaxLen - 1
    BY <2>1, <2>2 DEF Receiver!AfterReadLine, Receiver!ReadLimit
  <2>3. CASE ~(x.len <= MaxLen - 1)
    <3>1. piece \in L
      BY <2>1, <2>3, PieceLeft
    <3>2. piece.tag = "none"
      BY <2>1 DEF LineOf
    <3>3. piece \in D
      BY <3>1, <3>2 DEF ReceiverLine
    <3>4. <<piece>> \o Tail(r_to_client) \in Seq(D)
      BY <1>b, <1>d, <3>3, PiecePutBack
    <3> QED
      BY <2>3, <3>4 DEF Receiver!AfterReadLine, Receiver!ReadLimit
  <2> QED
    BY <2>2, <2>3
<1>e. ASSUME Receiver!ReceiveReturnsFalse \/ \E tag : Receiver!ReceiveReturns(tag) PROVE ConnOK'
  <2> HIDE DEF D, L
  <2> QED
    BY <1>b, <1>d, <1>e DEF Receiver!ReceiveReturnsFalse, Receiver!ReceiveReturns
<1>f. ASSUME NEW x \in D PROVE Append(r_to_client, x) \in Seq(D)
  <2> HIDE DEF D
  <2> QED
    BY <1>b, <1>f
<1>1. CASE Receiver!Start
  BY <1>b, <1>c, <1>1 DEF Receiver!Start, Receiver!Connect, Receiver!server
<1>2. CASE Receiver!SendRequest
  <2> DEFINE x == [tag |-> r_req, len |-> 1, of |-> 0, whole |-> TRUE]
  <2>1. x \in L
    BY <1>b DEF LineOf, Receiver!ReceiverTag
  <2>2. r_to_server' \in {r_to_server, Append(r_to_server, x)}
        /\ r_link' \in {r_link, "closed", "reset"} /\ r_result' = "SUCCESS"
        /\ UNCHANGED <<r_open, r_to_client>>
    BY <1>2 DEF Receiver!SendRequest, Receiver!SendReturnsTrue
  <2>3. ProgramOK' /\ ServerOK'
    BY <1>b, <1>2 DEF Receiver!SendRequest, Receiver!server
  <2> HIDE DEF L, D, x
  <2>4. Append(r_to_server, x) \in Seq(L)
    BY <1>b, <2>1
  <2>5. ConnOK'
    BY <1>b, <2>2, <2>4
  <2> QED
    BY <1>c, <2>3, <2>5
<1>3. CASE Receiver!SendFailed
  BY <1>b, <1>c, <1>3 DEF Receiver!SendFailed, Receiver!SendReturnsFalse, Receiver!server
<1>4. CASE \/ Receiver!LoggedIn \/ Receiver!Joined \/ Receiver!Refused
           \/ Receiver!ReceiveFailed \/ Receiver!ReportUnexpected
  <2>1. ConnOK'
    BY <1>e, <1>4 DEF Receiver!LoggedIn, Receiver!Joined, Receiver!Refused,
       Receiver!ReceiveFailed, Receiver!ReportUnexpected
  <2>2. ProgramOK' /\ ServerOK'
    BY <1>b, <1>4 DEF Receiver!LoggedIn, Receiver!Joined, Receiver!Refused,
       Receiver!ReceiveFailed, Receiver!ReportUnexpected, Receiver!server, Receiver!client
  <2> QED
    BY <1>c, <2>1, <2>2
<1>5. CASE Receiver!ShowDelivery
  <2> DEFINE x == Head(r_to_client)
  <2>1. ConnOK'
    BY <1>e, <1>5 DEF Receiver!ShowDelivery
  <2>2. x \in D /\ x.tag = "delivery"
    BY <1>b, <1>5, HeadAndTail DEF Receiver!ShowDelivery, Receiver!ReceiveReturns
  <2>3. x.of \in 1 .. MaxDeliveries + 1 /\ (x.whole /\ x.len <= Receiver!ReadLimit) \in BOOLEAN
    BY <2>2 DEF ReceiverLine
  <2> DEFINE y == [number |-> x.of, whole |-> x.whole /\ x.len <= Receiver!ReadLimit]
             S == [number : 1 .. MaxDeliveries + 1, whole : BOOLEAN]
  <2>4. y \in S
    BY <2>3
  <2>5. shown' = Append(shown, y) /\ UNCHANGED <<r_pc, r_req, r_in_room, delivered>>
    BY <1>5 DEF Receiver!ShowDelivery, Receiver!server
  <2>6. shown \in Seq(S)
    BY <1>b
  <2> HIDE DEF S, y
  <2>7. shown' \in Seq(S)
    BY <2>4, <2>5, <2>6
  <2>8. ProgramOK' /\ ServerOK'
    BY <1>b, <2>5, <2>7 DEF S
  <2> QED
    BY <1>c, <2>1, <2>8
<1>6. CASE Receiver!ServerAnswers
  <2>1. PICK tag \in {"ok", "err"}, n \in DeliveryLen :
          /\ r_to_client' = Append(r_to_client, [tag |-> tag, len |-> n, of |-> 0, whole |-> TRUE])
          /\ r_in_room' \in BOOLEAN
          /\ r_link' \in {r_link, "closed"}
    BY <1>6 DEF Receiver!ServerAnswers, Receiver!PeerEnds
  <2>2. [tag |-> tag, len |-> n, of |-> 0, whole |-> TRUE] \in D
    BY <1>a DEF ReceiverLine, LineOf, Receiver!ReceiverTag
  <2>3. ProgramOK' /\ ServerOK'
    BY <1>b, <1>6, <2>1 DEF Receiver!ServerAnswers, Receiver!client
  <2> HIDE DEF D, L
  <2>4. Tail(r_to_server) \in Seq(L)
    BY <1>b, <1>6, HeadAndTail DEF Receiver!ServerAnswers
  <2>5. ConnOK'
    BY <1>b, <1>f, <1>6, <2>1, <2>2, <2>4 DEF Receiver!ServerAnswers
  <2> QED
    BY <1>c, <2>3, <2>5
<1>7. CASE Receiver!ServerDelivers
  <2>1. PICK n \in DeliveryLen : r_to_client' = Append(r_to_client,
          [tag |-> "delivery", len |-> n, of |-> delivered + 1, whole |-> TRUE])
    BY <1>7 DEF Receiver!ServerDelivers
  <2>2. [tag |-> "delivery", len |-> n, of |-> delivered + 1, whole |-> TRUE] \in D
    BY <1>a, <1>b DEF ReceiverLine, LineOf, Receiver!ReceiverTag
  <2>3. ProgramOK' /\ ServerOK'
    BY <1>a, <1>b, <1>7 DEF Receiver!ServerDelivers, Receiver!client
  <2> HIDE DEF D, L
  <2>4. ConnOK'
    BY <1>b, <1>f, <1>7, <2>1, <2>2 DEF Receiver!ServerDelivers
  <2> QED
    BY <1>c, <2>3, <2>4
<1>8. CASE Receiver!ServerIsEmpty
  <2> DEFINE x == [tag |-> "empty", len |-> 1, of |-> 0, whole |-> TRUE]
  <2>1. x \in D
    BY DEF ReceiverLine, LineOf, Receiver!ReceiverTag
  <2>2. ProgramOK' /\ ServerOK'
    BY <1>b, <1>8 DEF Receiver!ServerIsEmpty, Receiver!client, Receiver!server
  <2>3. r_to_client' = <<x>>
    BY <1>8 DEF Receiver!ServerIsEmpty
  <2> HIDE DEF D, L, x
  <2>5. <<x>> \in Seq(D)
    BY <2>1
  <2>6. UNCHANGED <<r_open, r_result, r_link, r_to_server>>
    BY <1>8 DEF Receiver!ServerIsEmpty
  <2>4. ConnOK'
    BY <1>b, <2>3, <2>5, <2>6
  <2> QED
    BY <1>c, <2>2, <2>4
<1>9. CASE Receiver!ServerStops
  <2>1. PICK tag \in {"delivery", "none"} : r_to_client' = Append(r_to_client,
          [tag |-> tag, len |-> 1, of |-> delivered + 1, whole |-> FALSE])
    BY <1>9 DEF Receiver!ServerStops
  <2>2. [tag |-> tag, len |-> 1, of |-> delivered + 1, whole |-> FALSE] \in D
    BY <1>a, <1>b DEF ReceiverLine, LineOf, Receiver!ReceiverTag
  <2>3. ProgramOK' /\ ServerOK'
    BY <1>b, <1>9 DEF Receiver!ServerStops, Receiver!client, Receiver!server
  <2> HIDE DEF D, L
  <2>4. ConnOK'
    BY <1>b, <1>f, <1>9, <2>1, <2>2 DEF Receiver!ServerStops, Receiver!PeerEnds
  <2> QED
    BY <1>c, <2>3, <2>4
<1>10. CASE Receiver!ServerVanishes
  <2>1. ProgramOK' /\ ServerOK'
    BY <1>b, <1>10 DEF Receiver!ServerVanishes, Receiver!client, Receiver!server
  <2>2. r_to_client' \in {r_to_client, <<>>} /\ r_to_server' = <<>>
        /\ r_link' \in {"closed", "aborted"} /\ UNCHANGED <<r_open, r_result>>
    BY <1>10 DEF Receiver!ServerVanishes, Receiver!PeerVanishes, Receiver!PeerEnds
  <2>3. <<>> \in Seq(L) /\ <<>> \in Seq(D)
    OBVIOUS
  <2> HIDE DEF D, L
  <2>5. r_to_client' \in Seq(D) /\ r_to_server' \in Seq(L)
    BY <1>b, <2>2, <2>3
  <2>6. r_open' \in BOOLEAN /\ r_result' \in {"SUCCESS", "EOF_OR_ERROR", "INVALID_MSG"}
        /\ r_link' \in {"closed", "aborted"}
    BY <1>b, <2>2
  <2>4. ConnOK'
    BY <2>5, <2>6
  <2> QED
    BY <1>c, <2>1, <2>4
<1>11. CASE UNCHANGED Receiver!vars
  BY <1>b, <1>c, <1>11 DEF Receiver!vars, Receiver!connection, Receiver!client, Receiver!server
<1> QED
  BY <1>1, <1>2, <1>3, <1>4, <1>5, <1>6, <1>7, <1>8, <1>9, <1>10, <1>11
     DEF Receiver!Next, Receiver!Running, Receiver!Server

-----------------------------------------------------------------------------
(* Every step of the chat is one of each client or leaves it alone.        *)
LEMMA ClientsStep ==
  ASSUME [Next]_vars
  PROVE  [Sender!Next]_(Sender!vars) /\ [Receiver!Next]_(Receiver!vars)
<1> USE DEF sender, receiver, Sender!vars, Sender!connection, Sender!client,
            Receiver!vars, Receiver!connection, Receiver!client, Receiver!server
<1>1. CASE SenderRuns \/ SenderReads
  BY <1>1 DEF SenderRuns, SenderReads, Sender!Next
<1>2. CASE ReceiverRuns
  BY <1>2 DEF ReceiverRuns, Receiver!Next
<1>3. CASE ServeSender
  BY <1>3 DEF ServeSender, Sender!Next, Sender!Server
<1>4. CASE ServeReceiver \/ Deliver \/ TellEmpty
  BY <1>4 DEF ServeReceiver, Deliver, TellEmpty, Receiver!Next, Receiver!Server
<1>5. CASE ServerEnds
  BY <1>5 DEF ServerEnds, SenderLeft, ReceiverLeft, Sender!Next, Sender!Server,
     Receiver!Next, Receiver!Server
<1>6. CASE UNCHANGED vars
  BY <1>6 DEF vars
<1> QED
  BY <1>1, <1>2, <1>3, <1>4, <1>5, <1>6 DEF Next, Serves

(* What both programs and their connections keep is of its type, for       *)
(* lines of any length.                                                    *)
THEOREM TypeCorrect == Spec => []TypeOK
<1> DEFINE Types == Sender!TypeOK /\ ReceiverInv
<1>1. Init => Types
  BY SenderInit, ReceiverInit DEF SenderInv
<1>2. Types /\ [Next]_vars => Types'
  BY ClientsStep, SenderTypes, ReceiverTypes
<1>3. Types => TypeOK
  BY DEF TypeOK, ReceiverInv
<1> QED
  BY <1>1, <1>2, <1>3, PTL DEF Spec

(* Only the sender's last request or its answer is on its connection, in   *)
(* every state, as long as the lines fit the buffers.                      *)
THEOREM SenderInvariant == ASSUME Fitting PROVE Spec => []SenderInv
<1>1. SenderInv /\ [Next]_vars => SenderInv'
  BY ClientsStep, SenderStep
<1> QED
  BY SenderInit, <1>1, PTL DEF Spec

(* sender.cpp:59-147: each send() of the loop is followed by the receive() *)
(* of its own answer, on the error paths too, as long as the lines fit the *)
(* buffers that read them.                                                 *)
THEOREM LockstepAlways == ASSUME Fitting PROVE Spec => []Lockstep
<1>1. SenderInv => Sender!Lockstep
  BY WireShowsLockstep
<1> QED
  BY <1>1, SenderInvariant, TypeCorrect, PTL DEF Lockstep

(* At the prompt of a live session joined_room is TRUE if and only if the  *)
(* server has the sender in a room, unless the last leave that was sent    *)
(* ahead of a join was accepted and no join since.                         *)
THEOREM RoomKnownAlways == ASSUME Fitting PROVE Spec => []RoomKnown
<1>1. SenderInv => RoomKnown
  BY WireShowsLockstep DEF RoomKnown
<1> QED
  BY <1>1, SenderInvariant, PTL

-----------------------------------------------------------------------------
(* What is printed (s) and what is coming (w) once n messages were         *)
(* delivered: their numbers in order, none missing.  A delivery that is    *)
(* cut short comes after all the others.                                   *)
Delivery(x) == x.tag = "delivery"

InOrder(s, w, n) ==
  /\ \A k \in 1 .. Len(s) : s[k].number = k /\ (s[k].whole <=> k <= n)
  /\ \A i \in 1 .. Len(w) : Delivery(w[i]) =>
       w[i].of \in (Len(s) + 1) .. (n + 1) /\ (w[i].whole <=> w[i].of <= n)
  /\ \A i, j \in 1 .. Len(w) : i < j /\ Delivery(w[i]) /\ Delivery(w[j]) => w[i].of < w[j].of
  /\ \A m \in (Len(s) + 1) .. n : \E i \in 1 .. Len(w) : Delivery(w[i]) /\ w[i].of = m

NothingCut(s, w, n) ==
  /\ Len(s) <= n
  /\ \A i \in 1 .. Len(w) : Delivery(w[i]) => w[i].of <= n

LEMMA TailOfWire ==
  ASSUME NEW w \in Seq(ReceiverLine), w # <<>>
  PROVE  /\ Tail(w) \in Seq(ReceiverLine) /\ Head(w) = w[1]
         /\ Len(w) \in Nat /\ Len(w) >= 1 /\ Len(Tail(w)) = Len(w) - 1
         /\ \A i \in 1 .. Len(Tail(w)) : Tail(w)[i] = w[i + 1]
         /\ \A i \in 2 .. Len(w) : i - 1 \in 1 .. Len(Tail(w)) /\ Tail(w)[i - 1] = w[i]
<1> HIDE DEF ReceiverLine
<1>1. Tail(w) \in Seq(ReceiverLine) /\ Head(w) = w[1] /\ Len(w) \in Nat /\ Len(w) >= 1
      /\ Len(Tail(w)) = Len(w) - 1
  OBVIOUS
<1>2. \A i \in 1 .. Len(Tail(w)) : Tail(w)[i] = w[i + 1]
  OBVIOUS
<1> QED
  BY <1>1, <1>2

LEMMA DropOther ==
  ASSUME NEW s, Len(s) \in Nat, NEW w \in Seq(ReceiverLine), NEW n \in Nat,
         InOrder(s, w, n), w # <<>>, ~Delivery(Head(w))
  PROVE  InOrder(s, Tail(w), n) /\ (NothingCut(s, w, n) => NothingCut(s, Tail(w), n))
<1> DEFINE t == Tail(w)
<1>1. Len(t) = Len(w) - 1 /\ Len(w) \in Nat /\ Len(w) >= 1 /\ ~Delivery(w[1])
      /\ \A i \in 1 .. Len(t) : t[i] = w[i + 1]
  BY TailOfWire
<1>2. \A i \in 2 .. Len(w) : i - 1 \in 1 .. Len(t) /\ t[i - 1] = w[i]
  BY TailOfWire
<1> HIDE DEF t
<1>3. \A i \in 1 .. Len(t) : i + 1 \in 1 .. Len(w)
  BY <1>1
<1>4. ASSUME NEW m \in (Len(s) + 1) .. n PROVE \E i \in 1 .. Len(t) : Delivery(t[i]) /\ t[i].of = m
  <2>1. PICK i \in 1 .. Len(w) : Delivery(w[i]) /\ w[i].of = m
    BY DEF InOrder
  <2>2. i \in 2 .. Len(w)
    BY <1>1, <2>1
  <2> QED
    BY <1>2, <2>1, <2>2
<1>5. ASSUME NEW i \in 1 .. Len(t), NEW j \in 1 .. Len(t), i < j, Delivery(t[i]), Delivery(t[j])
      PROVE  t[i].of < t[j].of
  <2>1. i + 1 < j + 1
    BY <1>5
  <2> QED
    BY <1>1, <1>3, <1>5, <2>1 DEF InOrder
<1>6. ASSUME NEW i \in 1 .. Len(t), Delivery(t[i])
      PROVE  t[i].of \in (Len(s) + 1) .. (n + 1) /\ (t[i].whole <=> t[i].of <= n)
  BY <1>1, <1>3, <1>6 DEF InOrder
<1>7. InOrder(s, t, n)
  BY <1>4, <1>5, <1>6 DEF InOrder
<1>8. NothingCut(s, w, n) => NothingCut(s, t, n)
  BY <1>1, <1>3 DEF NothingCut
<1> QED
  BY <1>7, <1>8 DEF t

LEMMA ShowNext ==
  ASSUME NEW S, NEW s \in Seq(S), NEW w \in Seq(ReceiverLine), NEW n \in Nat,
         InOrder(s, w, n), w # <<>>, Delivery(Head(w)),
         NEW x, x.number = Head(w).of, x.whole <=> Head(w).whole
  PROVE  /\ InOrder(Append(s, x), Tail(w), n)
         /\ NothingCut(s, w, n) => NothingCut(Append(s, x), Tail(w), n)
<1> DEFINE t == Tail(w)
           a == Append(s, x)
<1>1. Len(t) = Len(w) - 1 /\ Len(w) \in Nat /\ Len(w) >= 1 /\ Head(w) = w[1]
      /\ \A i \in 1 .. Len(t) : t[i] = w[i + 1]
  BY TailOfWire
<1>2. \A i \in 2 .. Len(w) : i - 1 \in 1 .. Len(t) /\ t[i - 1] = w[i]
  BY TailOfWire
<1>3. \A i \in 1 .. Len(t) : i + 1 \in 1 .. Len(w) /\ 1 < i + 1
  BY <1>1
<1>4. /\ Len(s) \in Nat /\ Len(a) = Len(s) + 1 /\ a[Len(s) + 1] = x
      /\ \A k \in 1 .. Len(s) : a[k] = s[k]
  OBVIOUS
<1> HIDE DEF t, a
<1>5. 1 \in 1 .. Len(w) /\ Delivery(w[1])
  BY <1>1
<1>6. w[1].of \in (Len(s) + 1) .. (n + 1) /\ (w[1].whole <=> w[1].of <= n)
  BY <1>5 DEF InOrder
<1>7. w[1].of = Len(s) + 1
  <2>1. CASE Len(s) + 1 <= n
    <3>1. PICK i \in 1 .. Len(w) : Delivery(w[i]) /\ w[i].of = Len(s) + 1
      <4>1. Len(s) + 1 \in (Len(s) + 1) .. n
        BY <1>4, <2>1
      <4> QED
        BY <4>1 DEF InOrder
    <3>2. CASE i = 1
      BY <3>1, <3>2
    <3>3. CASE i # 1
      <4>1. 1 < i
        BY <1>1, <3>3
      <4>2. w[1].of < w[i].of
        BY <1>5, <3>1, <4>1 DEF InOrder
      <4> QED
        BY <1>4, <1>6, <3>1, <4>2
    <3> QED
      BY <3>2, <3>3
  <2>2. CASE ~(Len(s) + 1 <= n)
    BY <1>4, <1>6, <2>2
  <2> QED
    BY <2>1, <2>2
<1>8. ASSUME NEW k \in 1 .. Len(a) PROVE a[k].number = k /\ (a[k].whole <=> k <= n)
  <2>1. CASE k = Len(s) + 1
    BY <1>1, <1>4, <1>6, <1>7, <2>1
  <2>2. CASE k # Len(s) + 1
    <3>1. k \in 1 .. Len(s)
      BY <1>4, <2>2
    <3> QED
      BY <1>4, <3>1 DEF InOrder
  <2> QED
    BY <2>1, <2>2
<1>9. ASSUME NEW i \in 1 .. Len(t), Delivery(t[i])
      PROVE  t[i].of \in (Len(a) + 1) .. (n + 1) /\ (t[i].whole <=> t[i].of <= n)
  <2>1. t[i] = w[i + 1] /\ i + 1 \in 1 .. Len(w) /\ 1 < i + 1
    BY <1>1, <1>3
  <2>2. w[1].of < w[i + 1].of
    BY <1>5, <1>9, <2>1 DEF InOrder
  <2>3. w[i + 1].of \in (Len(s) + 1) .. (n + 1) /\ (w[i + 1].whole <=> w[i + 1].of <= n)
    BY <1>9, <2>1 DEF InOrder
  <2> QED
    BY <1>4, <1>7, <2>1, <2>2, <2>3
<1>10. ASSUME NEW i \in 1 .. Len(t), NEW j \in 1 .. Len(t), i < j, Delivery(t[i]), Delivery(t[j])
       PROVE  t[i].of < t[j].of
  <2>1. i + 1 < j + 1
    BY <1>10
  <2> QED
    BY <1>1, <1>3, <1>10, <2>1 DEF InOrder
<1>11. ASSUME NEW m \in (Len(a) + 1) .. n PROVE \E i \in 1 .. Len(t) : Delivery(t[i]) /\ t[i].of = m
  <2>1. m \in (Len(s) + 1) .. n /\ m # w[1].of
    BY <1>4, <1>7
  <2>2. PICK i \in 1 .. Len(w) : Delivery(w[i]) /\ w[i].of = m
    BY <2>1 DEF InOrder
  <2>3. i \in 2 .. Len(w)
    BY <1>1, <2>1, <2>2
  <2> QED
    BY <1>2, <2>2, <2>3
<1>12. InOrder(a, t, n)
  BY <1>8, <1>9, <1>10, <1>11 DEF InOrder
<1>13. ASSUME NothingCut(s, w, n) PROVE NothingCut(a, t, n)
  BY <1>1, <1>3, <1>4, <1>5, <1>7, <1>13 DEF NothingCut
<1> QED
  BY <1>12, <1>13 DEF a, t

LEMMA PutOther ==
  ASSUME NEW s, Len(s) \in Nat, NEW w \in Seq(ReceiverLine), NEW n \in Nat,
         InOrder(s, w, n), NEW x, ~Delivery(x)
  PROVE  /\ InOrder(s, Append(w, x), n)
         /\ NothingCut(s, w, n) => NothingCut(s, Append(w, x), n)
<1> DEFINE a == Append(w, x)
<1>1. /\ Len(w) \in Nat /\ Len(a) = Len(w) + 1 /\ a[Len(w) + 1] = x
      /\ \A k \in 1 .. Len(w) : a[k] = w[k]
  OBVIOUS
<1> HIDE DEF a
<1>2. \A i \in 1 .. Len(a) : Delivery(a[i]) => i \in 1 .. Len(w) /\ a[i] = w[i]
  BY <1>1
<1>3. \A i \in 1 .. Len(w) : i \in 1 .. Len(a) /\ a[i] = w[i]
  BY <1>1
<1>4. ASSUME NEW m \in (Len(s) + 1) .. n PROVE \E i \in 1 .. Len(a) : Delivery(a[i]) /\ a[i].of = m
  <2>1. PICK i \in 1 .. Len(w) : Delivery(w[i]) /\ w[i].of = m
    BY DEF InOrder
  <2> QED
    BY <1>3, <2>1
<1>5. InOrder(s, a, n)
  BY <1>2, <1>4 DEF InOrder
<1>6. NothingCut(s, w, n) => NothingCut(s, a, n)
  BY <1>2 DEF NothingCut
<1> QED
  BY <1>5, <1>6 DEF a

(* The next delivery, whole or cut short.                                  *)
LEMMA PutDelivery ==
  ASSUME NEW s, Len(s) \in Nat, NEW w \in Seq(ReceiverLine), NEW n \in Nat,
         InOrder(s, w, n), NothingCut(s, w, n), NEW x, Delivery(x), x.of = n + 1
  PROVE  /\ x.whole = TRUE => InOrder(s, Append(w, x), n + 1) /\ NothingCut(s, Append(w, x), n + 1)
         /\ x.whole = FALSE => InOrder(s, Append(w, x), n)
<1> DEFINE a == Append(w, x)
<1>1. /\ Len(w) \in Nat /\ Len(a) = Len(w) + 1 /\ a[Len(w) + 1] = x
      /\ \A k \in 1 .. Len(w) : a[k] = w[k]
  OBVIOUS
<1> HIDE DEF a
<1>2. \A i \in 1 .. Len(a) : (i \in 1 .. Len(w) /\ a[i] = w[i]) \/ (i = Len(w) + 1 /\ a[i] = x)
  BY <1>1
<1>3. \A i \in 1 .. Len(w) : i \in 1 .. Len(a) /\ a[i] = w[i]
  BY <1>1
<1>4. \A i \in 1 .. Len(w) : Delivery(w[i]) =>
        /\ w[i].of \in (Len(s) + 1) .. (n + 1) /\ w[i].of <= n /\ w[i].whole
        /\ (w[i].of <= n + 1)
  BY <1>1 DEF InOrder, NothingCut
<1>5. Len(s) <= n
  BY DEF NothingCut
<1>6. ASSUME NEW i \in 1 .. Len(a), NEW j \in 1 .. Len(a), i < j, Delivery(a[i]), Delivery(a[j])
      PROVE  a[i].of < a[j].of
  <2>1. i \in 1 .. Len(w) /\ a[i] = w[i]
    BY <1>1, <1>2, <1>6
  <2>2. CASE j = Len(w) + 1 /\ a[j] = x
    <3>1. w[i].of <= n /\ w[i].of \in (Len(s) + 1) .. (n + 1)
      BY <1>4, <1>6, <2>1
    <3> QED
      BY <2>1, <2>2, <3>1
  <2>3. CASE j \in 1 .. Len(w) /\ a[j] = w[j]
    BY <1>6, <2>1, <2>3 DEF InOrder
  <2> QED
    BY <1>2, <2>2, <2>3
<1>7. \A m \in (Len(s) + 1) .. n : \E i \in 1 .. Len(a) : Delivery(a[i]) /\ a[i].of = m
  <2> SUFFICES ASSUME NEW m \in (Len(s) + 1) .. n
               PROVE  \E i \in 1 .. Len(a) : Delivery(a[i]) /\ a[i].of = m
    OBVIOUS
  <2>1. PICK i \in 1 .. Len(w) : Delivery(w[i]) /\ w[i].of = m
    BY DEF InOrder
  <2> QED
    BY <1>3, <2>1
<1>8. \A k \in 1 .. Len(s) : s[k].number = k /\ s[k].whole
  BY <1>5 DEF InOrder
<1>9. ASSUME x.whole = TRUE PROVE InOrder(s, a, n + 1) /\ NothingCut(s, a, n + 1)
  <2>1. \A m \in (Len(s) + 1) .. (n + 1) : \E i \in 1 .. Len(a) : Delivery(a[i]) /\ a[i].of = m
    <3> SUFFICES ASSUME NEW m \in (Len(s) + 1) .. (n + 1)
                 PROVE  \E i \in 1 .. Len(a) : Delivery(a[i]) /\ a[i].of = m
      OBVIOUS
    <3>1. CASE m = n + 1
      <4>1. Len(w) + 1 \in 1 .. Len(a)
        BY <1>1
      <4> QED
        BY <1>1, <3>1, <4>1
    <3>2. CASE m # n + 1
      <4>1. m \in (Len(s) + 1) .. n
        BY <3>2
      <4> QED
        BY <1>7, <4>1
    <3> QED
      BY <3>1, <3>2
  <2>2. \A i \in 1 .. Len(a) : Delivery(a[i]) =>
          a[i].of \in (Len(s) + 1) .. (n + 2) /\ a[i].of <= n + 1 /\ a[i].whole
    <3> SUFFICES ASSUME NEW i \in 1 .. Len(a), Delivery(a[i])
                 PROVE  a[i].of \in (Len(s) + 1) .. (n + 2) /\ a[i].of <= n + 1 /\ a[i].whole
      OBVIOUS
    <3>1. CASE i \in 1 .. Len(w) /\ a[i] = w[i]
      BY <1>4, <3>1
    <3>2. CASE a[i] = x
      BY <1>5, <1>9, <3>2
    <3> QED
      BY <1>2, <3>1, <3>2
  <2>3. \A k \in 1 .. Len(s) : k <= n + 1
    BY <1>5
  <2> QED
    BY <1>5, <1>6, <1>8, <2>1, <2>2, <2>3 DEF InOrder, NothingCut
<1>10. ASSUME x.whole = FALSE PROVE InOrder(s, a, n)
  <2>1. \A i \in 1 .. Len(a) : Delivery(a[i]) =>
          a[i].of \in (Len(s) + 1) .. (n + 1) /\ (a[i].whole <=> a[i].of <= n)
    <3> SUFFICES ASSUME NEW i \in 1 .. Len(a), Delivery(a[i])
                 PROVE  a[i].of \in (Len(s) + 1) .. (n + 1) /\ (a[i].whole <=> a[i].of <= n)
      OBVIOUS
    <3>1. CASE i \in 1 .. Len(w) /\ a[i] = w[i]
      BY <1>4, <3>1
    <3>2. CASE a[i] = x
      BY <1>5, <1>10, <3>2
    <3> QED
      BY <1>2, <3>1, <3>2
  <2> QED
    BY <1>6, <1>7, <2>1 DEF InOrder
<1> QED
  BY <1>9, <1>10 DEF a

-----------------------------------------------------------------------------
(* A line of the server to the receiver fits as well.                      *)
DeliveryFits == DeliveryLen \subseteq 1 .. (MaxLen - 1)

LinesFit == \A i \in 1 .. Len(r_to_client) : r_to_client[i].len <= MaxLen - 1

QueueInv ==
  /\ deliveries \in Seq(Nat) /\ broadcast \in Seq(Nat) /\ mqueue \in [{member} -> Seq(Nat)]
  /\ delivered = Len(deliveries)
  /\ broadcast = deliveries \o mqueue[member]

(* What was broadcast was asked for, one request after the other; the one  *)
(* that waits at the server comes after all of them.                       *)
RequestsInv ==
  /\ \A k \in 1 .. Len(broadcast) :
       broadcast[k] <= asked /\ (s_to_server # <<>> => broadcast[k] < asked)
  /\ \A k \in 1 .. (Len(broadcast) - 1) : broadcast[k] < broadcast[k + 1]

Printing == (r_pc = "exit_failure" => shown # <<>>) /\ r_link \in {"up", "closed"}

PrintInv ==
  /\ r_pc \notin {"loop", "exit_failure"} => shown = <<>>
  /\ Printing =>
       /\ InOrder(shown, r_to_client, Len(deliveries))
       /\ r_link = "up" => NothingCut(shown, r_to_client, Len(deliveries))

IInv == SenderInv /\ ReceiverInv /\ LinesFit /\ QueueInv /\ RequestsInv /\ PrintInv

LEMMA InitInv == Init => IInv
<1> SUFFICES ASSUME Init PROVE IInv
  OBVIOUS
<1>1. SenderInv /\ ReceiverInv
  BY SenderInit, ReceiverInit
<1>2. /\ broadcast = <<>> /\ deliveries = <<>> /\ mqueue = [u \in {member} |-> <<>>]
      /\ r_to_client = <<>> /\ shown = <<>> /\ delivered = 0
  BY DEF Init, Receiver!Init, Receiver!ConnectionInit
<1>3. Len(<<>>) = 0 /\ <<>> \o <<>> = <<>> /\ <<>> \in Seq(Nat) /\ 1 .. 0 = {}
  OBVIOUS
<1>4. mqueue[member] = <<>> /\ mqueue \in [{member} -> Seq(Nat)]
  BY <1>2, <1>3
<1>5. QueueInv
  BY <1>2, <1>3, <1>4 DEF QueueInv
<1>6. LinesFit /\ RequestsInv
  BY <1>2, <1>3 DEF LinesFit, RequestsInv
<1>7. PrintInv
  BY <1>2, <1>3 DEF PrintInv, InOrder, NothingCut
<1> QED
  BY <1>1, <1>5, <1>6, <1>7 DEF IInv

(* A broadcast request is the newest one, and is broadcast once.           *)
LEMMA RequestsStep ==
  ASSUME Fitting, IInv, [Next]_vars
  PROVE  RequestsInv'
<1>a. SenderInv /\ asked \in Nat /\ broadcast \in Seq(Nat)
  BY DEF IInv, SenderInv, Sender!TypeOK, QueueInv
<1>1. CASE ServeSender
  <2>1. s_to_server # <<>> /\ UNCHANGED asked
    BY <1>1 DEF ServeSender, Sender!ServerAnswers, Sender!client
  <2>2. PICK x \in SenderLine : RequestOnWay(x)
    BY <1>a, <2>1, OneLine DEF SenderInv, WireInv, Idle, AnswerOnWay
  <2>3. Head(s_to_server) = x /\ Tail(s_to_server) = <<>> /\ x.of = asked
    BY <2>2, OneLine DEF RequestOnWay
  <2>4. s_to_server' = <<>>
    BY <1>1, <2>2, <2>3 DEF ServeSender, Sender!ServerAnswers, Sender!AfterServerRead, RequestOnWay
  <2>5. \A k \in 1 .. Len(broadcast) : broadcast[k] < asked
    BY <2>1 DEF IInv, RequestsInv
  <2>6. broadcast' \in {broadcast, Append(broadcast, asked)}
    BY <1>1, <2>3 DEF ServeSender
  <2>7. CASE broadcast' = broadcast
    BY <2>1, <2>4, <2>7 DEF IInv, RequestsInv
  <2>8. CASE broadcast' = Append(broadcast, asked)
    <3> DEFINE b == Append(broadcast, asked)
    <3>1. Len(b) = Len(broadcast) + 1 /\ b[Len(broadcast) + 1] = asked
          /\ \A k \in 1 .. Len(broadcast) : b[k] = broadcast[k]
      BY <1>a
    <3>2. Len(broadcast) \in Nat /\ \A k \in 1 .. Len(broadcast) : broadcast[k] \in Nat
      BY <1>a
    <3> HIDE DEF b
    <3>3. \A k \in 1 .. Len(b) : b[k] <= asked
      <4> TAKE k \in 1 .. Len(b)
      <4>1. CASE k = Len(broadcast) + 1
        BY <1>a, <3>1, <4>1
      <4>2. CASE k # Len(broadcast) + 1
        <5>1. k \in 1 .. Len(broadcast)
          BY <3>1, <3>2, <4>2
        <5>2. b[k] < asked /\ b[k] \in Nat
          BY <2>5, <3>1, <3>2, <5>1
        <5> QED
          BY <1>a, <5>2
      <4> QED
        BY <4>1, <4>2
    <3>4. \A k \in 1 .. (Len(b) - 1) : b[k] < b[k + 1]
      <4> TAKE k \in 1 .. (Len(b) - 1)
      <4>1. k \in 1 .. Len(broadcast) /\ b[k] = broadcast[k]
        BY <3>1, <3>2
      <4>2. CASE k = Len(broadcast)
        BY <2>5, <3>1, <4>1, <4>2
      <4>3. CASE k # Len(broadcast)
        <5>1. k \in 1 .. (Len(broadcast) - 1) /\ b[k + 1] = broadcast[k + 1]
          BY <3>1, <3>2, <4>1, <4>3
        <5> QED
          BY <4>1, <5>1 DEF IInv, RequestsInv
      <4> QED
        BY <4>2, <4>3
    <3> QED
      BY <2>1, <2>4, <2>8, <3>3, <3>4 DEF RequestsInv, b
  <2> QED
    BY <2>6, <2>7, <2>8
<1>2. CASE Sender!SendRequest /\ UNCHANGED broadcast
  <2>1. asked' = asked + 1
    BY <1>2 DEF Sender!SendRequest
  <2>2. \A k \in 1 .. Len(broadcast) : broadcast[k] \in Nat /\ broadcast[k] <= asked
    BY <1>a DEF IInv, RequestsInv
  <2>3. \A k \in 1 .. Len(broadcast) : broadcast[k] <= asked' /\ broadcast[k] < asked'
    BY <1>a, <2>1, <2>2
  <2> QED
    BY <1>2, <2>3 DEF IInv, RequestsInv
<1>3. CASE UNCHANGED <<broadcast, asked>> /\ s_to_server' \in {s_to_server, <<>>}
  BY <1>3 DEF IInv, RequestsInv
<1>4. \/ ServeSender \/ (Sender!SendRequest /\ UNCHANGED broadcast)
      \/ UNCHANGED <<broadcast, asked>> /\ s_to_server' \in {s_to_server, <<>>}
  <2>1. CASE SenderRuns
    BY <2>1 DEF SenderRuns, Sender!Running, Sender!Start, Sender!Connect, Sender!SendFailed,
       Sender!BrokenPipe, Sender!SendReturnsFalse, Sender!SendKills, Sender!connection,
       Sender!Refused, Sender!ReceiveReturnsFalse, Sender!ReceiveReturns, Sender!Answered,
       Sender!LoggedIn, Sender!LeftFirst, Sender!Joined, Sender!Left, Sender!QuitAccepted,
       Sender!Exit, Sender!Close, Sender!SentToRoom, room
  <2>2. CASE SenderReads
    BY <2>2 DEF SenderReads, Sender!Reading, Sender!ReadLine, Sender!ReadEnd, Sender!ReadPastEnd,
       Sender!connection, room
  <2>3. CASE ReceiverRuns \/ ServeReceiver \/ Deliver \/ TellEmpty
    BY <2>3 DEF ReceiverRuns, ServeReceiver, Deliver, TellEmpty, sender, room
  <2>4. CASE ServerEnds
    <3>1. CASE Sender!ServerVanishes
      BY <2>4, <3>1 DEF ServerEnds, Sender!ServerVanishes, Sender!PeerVanishes, Sender!client, room
    <3>2. CASE Sender!ServerStops
      <4>1. PICK x \in SenderLine : RequestOnWay(x)
        BY <1>a, <3>2, OneLine DEF Sender!ServerStops, SenderInv, WireInv, Idle, AnswerOnWay
      <4>2. Tail(s_to_server) = <<>>
        BY <4>1, OneLine DEF RequestOnWay
      <4> QED
        BY <2>4, <3>2, <4>2 DEF ServerEnds, Sender!ServerStops, Sender!client, room
    <3>3. CASE UNCHANGED sender
      BY <2>4, <3>3 DEF ServerEnds, sender, room
    <3> QED
      BY <2>4, <3>1, <3>2, <3>3 DEF ServerEnds, SenderLeft
  <2>5. CASE UNCHANGED vars
    BY <2>5 DEF vars, sender, room
  <2> QED
    BY <2>1, <2>2, <2>3, <2>4, <2>5 DEF Next, Serves
<1> QED
  BY <1>1, <1>2, <1>3, <1>4

LEMMA AppendAtEnd ==
  ASSUME NEW a \in Seq(Nat), NEW b \in Seq(Nat), NEW n \in Nat
  PROVE  Append(a \o b, n) = a \o Append(b, n)
<1>1. a \o b \in Seq(Nat) /\ <<n>> \in Seq(Nat)
  OBVIOUS
<1>2. Append(a \o b, n) = (a \o b) \o <<n>> /\ Append(b, n) = b \o <<n>>
  BY <1>1, AppendIsConcat
<1>3. (a \o b) \o <<n>> = a \o (b \o <<n>>)
  BY <1>1, ConcatAssociative
<1> QED
  BY <1>2, <1>3

(* A message that leaves the queue is delivered.                           *)
LEMMA QueueStep ==
  ASSUME Fitting, IInv, [Next]_vars
  PROVE  QueueInv'
<1>a. /\ deliveries \in Seq(Nat) /\ broadcast \in Seq(Nat) /\ mqueue \in [{member} -> Seq(Nat)]
      /\ mqueue[member] \in Seq(Nat)
      /\ delivered = Len(deliveries) /\ broadcast = deliveries \o mqueue[member]
  BY DEF IInv, QueueInv
<1>1. CASE ServeSender
  <2> DEFINE n == Head(s_to_server).of
             q == mqueue[member]
  <2>1. n \in Nat
    <3>1. s_to_server \in Seq(SenderLine) /\ s_to_server # <<>>
      BY <1>1 DEF ServeSender, Sender!ServerAnswers, IInv, SenderInv, Sender!TypeOK,
         Sender!ConnectionTypeOK, SenderLine
    <3>2. Head(s_to_server) \in SenderLine
      BY <3>1, HeadAndTail
    <3> QED
      BY <3>2, SenderLines DEF SenderLine, LineOf
  <2>2. UNCHANGED <<deliveries, delivered>>
    BY <1>1 DEF ServeSender, receiver
  <2>3. CASE UNCHANGED <<mqueue, broadcast>>
    BY <1>a, <2>2, <2>3 DEF QueueInv
  <2>4. CASE Room!Broadcast(n) /\ broadcast' = IF r_in_room THEN Append(broadcast, n) ELSE broadcast
    <3>1. mqueue' = [u \in {member} |-> IF r_in_room THEN Append(mqueue[u], n) ELSE mqueue[u]]
      BY <2>4 DEF Room!Broadcast
    <3>2. CASE r_in_room
      <4>1. mqueue' = [u \in {member} |-> Append(q, n)] /\ broadcast' = Append(broadcast, n)
        BY <2>4, <3>1, <3>2
      <4>2. Append(q, n) \in Seq(Nat) /\ Append(broadcast, n) \in Seq(Nat)
        BY <1>a, <2>1
      <4>3. Append(deliveries \o q, n) = deliveries \o Append(q, n)
        BY <1>a, <2>1, AppendAtEnd
      <4> QED
        BY <1>a, <2>2, <4>1, <4>2, <4>3 DEF QueueInv
    <3>3. CASE ~r_in_room
      <4>1. mqueue' = [u \in {member} |-> q] /\ broadcast' = broadcast
        BY <2>4, <3>1, <3>3
      <4> QED
        BY <1>a, <2>2, <4>1 DEF QueueInv
    <3> QED
      BY <3>2, <3>3
  <2> QED
    BY <1>1, <2>3, <2>4 DEF ServeSender
<1>2. CASE Deliver
  <2> DEFINE q == mqueue[member]
  <2>1. q # <<>> /\ UNCHANGED broadcast /\ delivered' = delivered + 1
        /\ deliveries' = Append(deliveries, Head(q)) /\ mqueue' = [mqueue EXCEPT ![member] = Tail(q)]
    BY <1>2 DEF Deliver, Receiver!ServerDelivers
  <2>2. Head(q) \in Nat /\ Tail(q) \in Seq(Nat)
    BY <1>a, <2>1
  <2>3. deliveries' \in Seq(Nat) /\ Len(deliveries') = Len(deliveries) + 1
    BY <1>a, <2>1, <2>2
  <2>4. Append(deliveries, Head(q)) \o Tail(q) = deliveries \o q
    BY <1>a, <2>1, <2>2
  <2>5. mqueue' \in [{member} -> Seq(Nat)] /\ mqueue'[member] = Tail(q)
    BY <1>a, <2>1, <2>2
  <2> QED
    BY <1>a, <2>1, <2>3, <2>4, <2>5 DEF QueueInv
<1>3. CASE UNCHANGED room /\ UNCHANGED delivered
  BY <1>3, <1>a DEF QueueInv, room
<1>4. ServeSender \/ Deliver \/ (UNCHANGED room /\ UNCHANGED delivered)
  BY DEF Next, Serves, SenderRuns, SenderReads, ReceiverRuns, Receiver!Running, Receiver!Start,
     Receiver!SendRequest, Receiver!SendFailed, Receiver!LoggedIn, Receiver!Joined, Receiver!Refused,
     Receiver!ReceiveFailed, Receiver!ShowDelivery, Receiver!ReportUnexpected, Receiver!server,
     Receiver!client, ServeReceiver, Receiver!ServerAnswers, TellEmpty, Receiver!ServerIsEmpty,
     ServerEnds, ReceiverLeft, Receiver!ServerVanishes, Receiver!ServerStops, receiver, vars, room
<1> QED
  BY <1>1, <1>2, <1>3, <1>4

(* What a receive() of the receiver does, as every line fits.              *)
LEMMA LineTaken ==
  ASSUME IInv, NEW tag, Receiver!ReceiveReturns(tag)
  PROVE  /\ r_to_client # <<>> /\ Head(r_to_client).tag = tag
         /\ r_to_client' = Tail(r_to_client) /\ UNCHANGED r_link
         /\ Head(r_to_client).len <= Receiver!ReadLimit
<1>1. r_to_client # <<>> /\ Head(r_to_client).tag = tag /\ UNCHANGED r_link
  BY DEF Receiver!ReceiveReturns
<1>2. Head(r_to_client) = r_to_client[1] /\ 1 \in 1 .. Len(r_to_client)
  BY <1>1, TailOfWire DEF IInv, ReceiverInv
<1>3. Head(r_to_client).len <= MaxLen - 1
  BY <1>2 DEF IInv, LinesFit
<1> QED
  BY <1>1, <1>3 DEF Receiver!ReceiveReturns, Receiver!AfterReadLine, Receiver!ReadLimit

LEMMA NoLineTaken ==
  ASSUME IInv, Receiver!ReceiveReturnsFalse
  PROVE  /\ r_link' \in {"up", "closed"} => r_link' = r_link
         /\ \/ UNCHANGED r_to_client
            \/ /\ r_to_client # <<>> /\ ~Delivery(Head(r_to_client))
               /\ r_to_client' = Tail(r_to_client) /\ UNCHANGED r_link
<1>1. CASE r_to_client # <<>> /\ Head(r_to_client).tag = "none" /\ UNCHANGED r_link
           /\ r_to_client' = Receiver!AfterReadLine
  <2>1. Head(r_to_client) = r_to_client[1] /\ 1 \in 1 .. Len(r_to_client)
    BY <1>1, TailOfWire DEF IInv, ReceiverInv
  <2>2. Head(r_to_client).len <= MaxLen - 1
    BY <2>1 DEF IInv, LinesFit
  <2> QED
    BY <1>1, <2>2 DEF Receiver!AfterReadLine, Receiver!ReadLimit, Delivery
<1>2. CASE UNCHANGED r_to_client /\ r_link' \in {r_link, "reset"}
  BY <1>2
<1>3. CASE UNCHANGED r_to_client /\ UNCHANGED r_link
  BY <1>3
<1> QED
  BY <1>1, <1>2, <1>3 DEF Receiver!ReceiveReturnsFalse

LEMMA PutFits ==
  ASSUME IInv, NEW x, x.len <= MaxLen - 1, r_to_client' = Append(r_to_client, x)
  PROVE  LinesFit'
<1> DEFINE w == r_to_client
<1>1. w \in Seq(ReceiverLine) /\ \A i \in 1 .. Len(w) : w[i].len <= MaxLen - 1
  BY DEF IInv, ReceiverInv, LinesFit
<1> HIDE DEF ReceiverLine
<1>2. Len(Append(w, x)) = Len(w) + 1 /\ Append(w, x)[Len(w) + 1] = x /\ Len(w) \in Nat
      /\ \A i \in 1 .. Len(w) : Append(w, x)[i] = w[i]
  BY <1>1
<1> DEFINE a == Append(w, x)
<1> HIDE DEF a
<1>3. \A i \in 1 .. Len(a) : a[i].len <= MaxLen - 1
  BY <1>1, <1>2 DEF a
<1> QED
  BY <1>3 DEF LinesFit, a

LEMMA TailFits ==
  ASSUME IInv, r_to_client # <<>>, r_to_client' = Tail(r_to_client)
  PROVE  LinesFit'
<1> DEFINE w == r_to_client
           t == Tail(r_to_client)
<1>1. w \in Seq(ReceiverLine) /\ \A i \in 1 .. Len(w) : w[i].len <= MaxLen - 1
  BY DEF IInv, ReceiverInv, LinesFit
<1>2. Len(t) = Len(w) - 1 /\ Len(w) \in Nat /\ \A i \in 1 .. Len(t) : t[i] = w[i + 1]
  BY <1>1, TailOfWire
<1> HIDE DEF t
<1>3. \A i \in 1 .. Len(t) : i + 1 \in 1 .. Len(w)
  BY <1>2
<1>4. \A i \in 1 .. Len(t) : t[i].len <= MaxLen - 1
  BY <1>1, <1>2, <1>3
<1> QED
  BY <1>4 DEF LinesFit, t

(* The receiver's turn: nothing is delivered, and what is printed is the   *)
(* next of what was coming.                                                *)
LEMMA ReceiverTurn ==
  ASSUME IInv, Receiver!Running, UNCHANGED <<sender, room, server_up>>
  PROVE  LinesFit' /\ PrintInv'
<1> DEFINE n == Len(deliveries)
<1>a. /\ n \in Nat /\ r_to_client \in Seq(ReceiverLine)
      /\ shown \in Seq([number : 1 .. MaxDeliveries + 1, whole : BOOLEAN]) /\ Len(shown) \in Nat
  BY DEF IInv, QueueInv, ReceiverInv, Receiver!TypeOK
<1>b. UNCHANGED deliveries
  BY DEF room
<1>c. LinesFit /\ PrintInv
  BY DEF IInv
<1>1. CASE Receiver!Start
  BY <1>b, <1>c, <1>1 DEF Receiver!Start, Receiver!Connect, LinesFit, PrintInv, Printing
<1>2. CASE Receiver!SendRequest
  <2>1. r_pc = "send" /\ r_pc' = "receive" /\ UNCHANGED <<shown, r_to_client>>
        /\ (r_link' \in {"up", "closed"} => r_link \in {"up", "closed"} /\ (r_link' = "up" => r_link = "up"))
    BY <1>2 DEF Receiver!SendRequest, Receiver!SendReturnsTrue
  <2> QED
    BY <1>b, <1>c, <2>1 DEF LinesFit, PrintInv, Printing
<1>3. CASE Receiver!SendFailed
  <2>1. r_pc = "send" /\ r_pc' = "exit_failure" /\ UNCHANGED <<shown, r_to_client>>
    BY <1>3 DEF Receiver!SendFailed, Receiver!SendReturnsFalse
  <2> QED
    BY <1>b, <1>c, <2>1 DEF LinesFit, PrintInv, Printing
<1>4. ASSUME NEW tag, Receiver!ReceiveReturns(tag), tag # "delivery", UNCHANGED shown,
             (r_pc = "receive" /\ r_pc' \in {"send", "loop", "exit_failure"}) \/ (r_pc = "loop" /\ r_pc' = "loop")
      PROVE  LinesFit' /\ PrintInv'
  <2>1. r_to_client # <<>> /\ Head(r_to_client).tag = tag /\ r_to_client' = Tail(r_to_client)
        /\ UNCHANGED r_link
    BY <1>4, LineTaken
  <2>2. LinesFit'
    BY <2>1, TailFits
  <2>3. CASE r_pc = "receive" /\ r_pc' = "exit_failure"
    BY <1>4, <1>c, <2>2, <2>3 DEF PrintInv, Printing
  <2>4. CASE r_pc' # "exit_failure"
    <3>1. Printing' => Printing
      BY <1>4, <2>1, <2>4 DEF Printing
    <3>2. Printing => /\ InOrder(shown, Tail(r_to_client), n)
                      /\ r_link = "up" => NothingCut(shown, Tail(r_to_client), n)
      BY <1>4, <1>a, <1>c, <2>1, DropOther DEF PrintInv, Delivery
    <3> QED
      BY <1>4, <1>b, <1>c, <2>1, <2>2, <2>4, <3>1, <3>2 DEF PrintInv
  <2> QED
    BY <1>4, <2>3, <2>4
<1>5. CASE Receiver!LoggedIn
  BY <1>4, <1>5 DEF Receiver!LoggedIn
<1>6. CASE Receiver!Joined
  BY <1>4, <1>6 DEF Receiver!Joined
<1>7. CASE Receiver!Refused
  <2>1. PICK tag \in Receiver!ReceiverTag \ {"ok"} : Receiver!ReceiveReturns(tag)
    BY <1>7 DEF Receiver!Refused
  <2>2. r_to_client # <<>> /\ r_to_client' = Tail(r_to_client)
    BY <2>1, LineTaken
  <2>3. r_pc = "receive" /\ r_pc' = "exit_failure" /\ UNCHANGED shown
    BY <1>7 DEF Receiver!Refused
  <2> QED
    BY <1>c, <2>2, <2>3, TailFits DEF PrintInv, Printing
<1>8. CASE Receiver!ReportUnexpected
  BY <1>4, <1>8 DEF Receiver!ReportUnexpected, Receiver!client
<1>9. CASE Receiver!ReceiveFailed
  <2>1. r_pc \in {"receive", "loop"} /\ r_pc' = "exit_failure" /\ UNCHANGED shown
    BY <1>9 DEF Receiver!ReceiveFailed
  <2>2. /\ r_link' \in {"up", "closed"} => r_link' = r_link
        /\ \/ UNCHANGED r_to_client
           \/ /\ r_to_client # <<>> /\ ~Delivery(Head(r_to_client))
              /\ r_to_client' = Tail(r_to_client) /\ UNCHANGED r_link
    BY <1>9, NoLineTaken DEF Receiver!ReceiveFailed
  <2>3. LinesFit'
    BY <1>c, <2>2, TailFits DEF LinesFit
  <2>4. Printing' => Printing /\ r_link' = r_link
    BY <2>1, <2>2 DEF Printing
  <2>5. Printing => /\ InOrder(shown, r_to_client', n)
                    /\ r_link = "up" => NothingCut(shown, r_to_client', n)
    BY <1>a, <1>c, <2>2, DropOther DEF PrintInv
  <2> QED
    BY <1>b, <2>1, <2>3, <2>4, <2>5 DEF PrintInv
<1>10. CASE Receiver!ShowDelivery
  <2> DEFINE h == Head(r_to_client)
             x == [number |-> h.of, whole |-> h.whole /\ h.len <= Receiver!ReadLimit]
  <2>1. r_pc = "loop" /\ r_pc' = "loop" /\ shown' = Append(shown, x)
    BY <1>10 DEF Receiver!ShowDelivery
  <2>2. r_to_client # <<>> /\ h.tag = "delivery" /\ r_to_client' = Tail(r_to_client)
        /\ UNCHANGED r_link /\ h.len <= Receiver!ReadLimit
    BY <1>10, LineTaken DEF Receiver!ShowDelivery
  <2>3. x.number = h.of /\ (x.whole <=> h.whole)
    BY <2>2
  <2>4. Printing' => Printing
    BY <2>1, <2>2 DEF Printing
  <2> HIDE DEF x
  <2>5. Printing => /\ InOrder(Append(shown, x), Tail(r_to_client), n)
                    /\ r_link = "up" => NothingCut(Append(shown, x), Tail(r_to_client), n)
    BY <1>a, <1>c, <2>2, <2>3, ShowNext DEF PrintInv, Delivery
  <2>6. LinesFit'
    BY <2>2, TailFits
  <2> QED
    BY <1>b, <2>1, <2>2, <2>4, <2>5, <2>6 DEF PrintInv
<1> QED
  BY <1>1, <1>2, <1>3, <1>5, <1>6, <1>7, <1>8, <1>9, <1>10 DEF Receiver!Running

(* The server's turn: what it delivers next has the next number.           *)
LEMMA ServerTurn ==
  ASSUME DeliveryFits, IInv, ServeReceiver \/ Deliver \/ TellEmpty \/ ServerEnds
  PROVE  LinesFit' /\ PrintInv'
<1> DEFINE n == Len(deliveries)
<1>a. /\ n \in Nat /\ r_to_client \in Seq(ReceiverLine)
      /\ shown \in Seq([number : 1 .. MaxDeliveries + 1, whole : BOOLEAN]) /\ Len(shown) \in Nat
      /\ delivered = n /\ deliveries \in Seq(Nat)
  BY DEF IInv, QueueInv, ReceiverInv, Receiver!TypeOK
<1>b. LinesFit /\ PrintInv
  BY DEF IInv
<1>c. MaxLen \in Nat /\ MaxLen > 2 /\ 1 <= MaxLen - 1 /\ \A k \in DeliveryLen : k <= MaxLen - 1
  BY ChatAssumption DEF DeliveryFits
<1>1. CASE ServeReceiver
  <2>1. PICK tag \in {"ok", "err"}, len \in DeliveryLen :
          r_to_client' = Append(r_to_client, [tag |-> tag, len |-> len, of |-> 0, whole |-> TRUE])
    BY <1>1 DEF ServeReceiver, Receiver!ServerAnswers
  <2> DEFINE x == [tag |-> tag, len |-> len, of |-> 0, whole |-> TRUE]
  <2>2. x.len <= MaxLen - 1 /\ ~Delivery(x)
    BY <1>c DEF Delivery
  <2>3. UNCHANGED <<shown, deliveries, r_pc>> /\ r_link = "up"
    BY <1>1 DEF ServeReceiver, Receiver!ServerAnswers, Receiver!client, room
  <2> HIDE DEF x
  <2>4. LinesFit'
    BY <2>1, <2>2, PutFits DEF x
  <2>5. Printing' => Printing
    BY <2>3 DEF Printing
  <2>6. Printing => InOrder(shown, Append(r_to_client, x), n) /\ NothingCut(shown, Append(r_to_client, x), n)
    BY <1>a, <1>b, <2>2, <2>3, PutOther DEF PrintInv
  <2> QED
    BY <1>b, <2>1, <2>3, <2>4, <2>5, <2>6 DEF PrintInv, x
<1>2. CASE Deliver
  <2>1. PICK len \in DeliveryLen :
          r_to_client' = Append(r_to_client, [tag |-> "delivery", len |-> len, of |-> n + 1, whole |-> TRUE])
    BY <1>2, <1>a DEF Deliver, Receiver!ServerDelivers
  <2> DEFINE x == [tag |-> "delivery", len |-> len, of |-> n + 1, whole |-> TRUE]
  <2>2. x.len <= MaxLen - 1 /\ Delivery(x) /\ x.of = n + 1 /\ x.whole = TRUE
    BY <1>c DEF Delivery
  <2>3. UNCHANGED <<shown, r_pc, r_link>> /\ r_link = "up"
    BY <1>2 DEF Deliver, Receiver!ServerDelivers, Receiver!client
  <2>4. Len(deliveries') = n + 1
    BY <1>2, <1>a DEF Deliver
  <2> HIDE DEF x
  <2>5. LinesFit'
    BY <2>1, <2>2, PutFits DEF x
  <2>6. Printing' => Printing
    BY <2>3 DEF Printing
  <2>7. Printing => InOrder(shown, Append(r_to_client, x), n + 1)
                    /\ NothingCut(shown, Append(r_to_client, x), n + 1)
    BY <1>a, <1>b, <2>2, <2>3, PutDelivery DEF PrintInv
  <2> QED
    BY <1>b, <2>1, <2>3, <2>4, <2>5, <2>6, <2>7 DEF PrintInv, x
<1>3. CASE TellEmpty
  <2> DEFINE x == [tag |-> "empty", len |-> 1, of |-> 0, whole |-> TRUE]
  <2>1. r_to_client = <<>> /\ r_to_client' = <<x>>
    BY <1>3 DEF TellEmpty, Receiver!ServerIsEmpty
  <2>2. r_to_client' = Append(r_to_client, x)
    BY <2>1, OneLine
  <2>3. x.len <= MaxLen - 1 /\ ~Delivery(x)
    BY <1>c DEF Delivery
  <2>4. UNCHANGED <<shown, deliveries, r_pc, r_link>> /\ r_link = "up"
    BY <1>3 DEF TellEmpty, Receiver!ServerIsEmpty, Receiver!client, room
  <2> HIDE DEF x
  <2>5. LinesFit'
    BY <2>2, <2>3, PutFits
  <2>6. Printing => InOrder(shown, Append(r_to_client, x), n) /\ NothingCut(shown, Append(r_to_client, x), n)
    BY <1>a, <1>b, <2>3, <2>4, PutOther DEF PrintInv
  <2> QED
    BY <1>b, <2>2, <2>4, <2>5, <2>6 DEF PrintInv, Printing
<1>4. CASE ServerEnds
  <2>0. UNCHANGED deliveries
    BY <1>4 DEF ServerEnds, room
  <2>1. CASE UNCHANGED receiver
    BY <1>b, <2>0, <2>1 DEF receiver, LinesFit, PrintInv, Printing
  <2>2. CASE Receiver!ServerVanishes
    <3>1. r_link = "up" /\ r_link' \in {"closed", "aborted"} /\ UNCHANGED <<shown, r_pc>>
          /\ r_to_client' \in {r_to_client, <<>>} /\ (r_link' = "closed" => UNCHANGED r_to_client)
      BY <2>2 DEF Receiver!ServerVanishes, Receiver!PeerVanishes, Receiver!PeerEnds, Receiver!client
    <3>2. Len(<<>>) = 0
      OBVIOUS
    <3>3. LinesFit'
      BY <1>b, <3>1, <3>2 DEF LinesFit
    <3> QED
      BY <1>b, <2>0, <3>1, <3>3 DEF PrintInv, Printing
  <2>3. CASE Receiver!ServerStops
    <3>1. PICK tag \in {"delivery", "none"} :
            r_to_client' = Append(r_to_client, [tag |-> tag, len |-> 1, of |-> n + 1, whole |-> FALSE])
      BY <1>a, <2>3 DEF Receiver!ServerStops
    <3> DEFINE x == [tag |-> tag, len |-> 1, of |-> n + 1, whole |-> FALSE]
    <3>2. x.len <= MaxLen - 1 /\ x.of = n + 1 /\ x.whole = FALSE
      BY <1>c
    <3>3. r_link = "up" /\ r_link' # "up" /\ UNCHANGED <<shown, r_pc>>
      BY <2>3 DEF Receiver!ServerStops, Receiver!PeerEnds, Receiver!client
    <3> HIDE DEF x
    <3>4. LinesFit'
      BY <3>1, <3>2, PutFits DEF x
    <3>5. Printing' => Printing
      BY <3>3 DEF Printing
    <3>6. Printing => InOrder(shown, Append(r_to_client, x), n)
      <4>1. CASE Delivery(x)
        BY <1>a, <1>b, <3>2, <3>3, <4>1, PutDelivery DEF PrintInv
      <4>2. CASE ~Delivery(x)
        BY <1>a, <1>b, <3>3, <4>2, PutOther DEF PrintInv
      <4> QED
        BY <4>1, <4>2
    <3> QED
      BY <1>b, <2>0, <3>1, <3>3, <3>4, <3>5, <3>6 DEF PrintInv, x
  <2> QED
    BY <1>4, <2>1, <2>2, <2>3 DEF ServerEnds, ReceiverLeft
<1> QED
  BY <1>1, <1>2, <1>3, <1>4

LEMMA StepInv ==
  ASSUME Fitting, DeliveryFits, IInv, [Next]_vars
  PROVE  IInv'
<1>1. SenderInv' /\ ReceiverInv'
  BY ClientsStep, SenderStep, ReceiverTypes DEF IInv
<1>2. QueueInv' /\ RequestsInv'
  BY QueueStep, RequestsStep
<1>3. LinesFit' /\ PrintInv'
  <2>1. CASE ReceiverRuns
    BY <2>1, ReceiverTurn DEF ReceiverRuns
  <2>2. CASE ServeReceiver \/ Deliver \/ TellEmpty \/ ServerEnds
    BY <2>2, ServerTurn
  <2>3. CASE UNCHANGED <<receiver, deliveries>>
    BY <2>3 DEF IInv, receiver, LinesFit, PrintInv, Printing
  <2> QED
    BY <2>1, <2>2, <2>3 DEF Next, Serves, SenderRuns, SenderReads, ServeSender, room, vars
<1> QED
  BY <1>1, <1>2, <1>3 DEF IInv

LEMMA InvIsEnough == IInv => EndToEnd
<1> SUFFICES ASSUME IInv, r_pc = "loop" \/ shown # <<>>, r_link \in {"up", "closed"}
             PROVE  EndToEnd
  BY DEF EndToEnd
<1> DEFINE w == r_to_client
           n == Len(deliveries)
           coming == {i \in DOMAIN w : Receiver!IsDelivery(w[i])}
<1>1. /\ w \in Seq(ReceiverLine) /\ DOMAIN w = 1 .. Len(w) /\ n \in Nat /\ Len(shown) \in Nat
      /\ DOMAIN shown = 1 .. Len(shown)
  BY DEF IInv, ReceiverInv, Receiver!TypeOK, QueueInv
<1>2. InOrder(shown, w, n)
  BY DEF IInv, PrintInv, Printing
<1>3. \A i \in coming : i \in 1 .. Len(w) /\ Delivery(w[i]) /\ w[i].whole
  BY <1>1 DEF Receiver!IsDelivery, Delivery
<1>4. {w[i].of : i \in coming} \subseteq (Len(shown) + 1) .. n
  BY <1>1, <1>2, <1>3 DEF InOrder
<1>5. (Len(shown) + 1) .. n \subseteq {w[i].of : i \in coming}
  <2> SUFFICES ASSUME NEW m \in (Len(shown) + 1) .. n PROVE \E i \in coming : w[i].of = m
    OBVIOUS
  <2>1. PICK i \in 1 .. Len(w) : Delivery(w[i]) /\ w[i].of = m
    BY <1>2 DEF InOrder
  <2>2. w[i].whole
    BY <1>1, <1>2, <2>1 DEF InOrder
  <2> QED
    BY <1>1, <2>1, <2>2 DEF Receiver!IsDelivery, Delivery
<1>6. \A i, j \in coming : i < j => w[i].of < w[j].of
  BY <1>2, <1>3 DEF InOrder
<1>7. \A k \in DOMAIN shown : shown[k].number = k /\ (shown[k].whole <=> k <= n)
  BY <1>1, <1>2 DEF InOrder
<1>8. broadcast = deliveries \o mqueue[member]
      /\ \A k \in 1 .. (Len(broadcast) - 1) : broadcast[k] < broadcast[k + 1]
  BY DEF IInv, QueueInv, RequestsInv
<1>9. {w[i].of : i \in coming} = (Len(shown) + 1) .. n
  BY <1>4, <1>5
<1> HIDE DEF coming
<1> QED
  BY <1>6, <1>7, <1>8, <1>9 DEF EndToEnd, coming

(* What the sender asked for, the server queued and the receiver showed    *)
(* stay in one order, in every state, if the deliveries fit as well.       *)
THEOREM InductiveInvariant == ASSUME Fitting, DeliveryFits PROVE Spec => []IInv
<1>1. IInv /\ [Next]_vars => IInv'
  BY StepInv
<1> QED
  BY InitInv, <1>1, PTL DEF Spec

(* sender.cpp:146, receiver.cpp:62-91: what a user types in the room comes *)
(* to every screen in it once and in order, unless the connection is       *)
(* aborted: printed, on the wire, or in the queue.                         *)
THEOREM EndToEndAlways == ASSUME Fitting, DeliveryFits PROVE Spec => []EndToEnd
BY InvIsEnough, InductiveInvariant, PTL
=============================================================================
