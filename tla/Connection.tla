----------------------------- MODULE Connection -----------------------------
(***************************************************************************)
(* class Connection of csf_assign05, the client's end of a TCP connection. *)
(* A line on the wire is a record: its tag ("none" if it has no colon),    *)
(* its length with the newline, the number of the request it belongs to    *)
(* and whether it is whole.  The peer and the kernel are external.         *)
(***************************************************************************)
EXTENDS Naturals, Sequences

CONSTANT MaxLen   \* Message::MAX_LEN, 255 in the code

VARIABLES
  m_open,          \* m_fd >= 0
  m_last_result,
  link,            \* "up", or how the peer ended: "closed", "aborted" (with an
                   \* error not yet reported to us) or "reset"
  to_server,       \* lines written and not yet read by the server
  to_client        \* lines the server wrote and the client has not read

connection == <<m_open, m_last_result, link, to_server, to_client>>

ConnectionInit ==
  /\ m_open = FALSE
  /\ m_last_result = "SUCCESS"
  /\ link = "up"
  /\ to_server = <<>>
  /\ to_client = <<>>

WireLine(Tag) == [tag : Tag \cup {"none"}, len : Nat \ {0}, of : Nat, whole : BOOLEAN]

ConnectionTypeOK(Tag) ==
  /\ m_open \in BOOLEAN
  /\ m_last_result \in {"SUCCESS", "EOF_OR_ERROR", "INVALID_MSG"}
  /\ link \in {"up", "closed", "aborted", "reset"}
  /\ to_server \in Seq(WireLine(Tag))
  /\ to_client \in Seq(WireLine(Tag))

-----------------------------------------------------------------------------
(* connect(): open_clientfd() succeeds or fails.                           *)
Connect ==
  /\ \E ok \in BOOLEAN :
       /\ m_open' = ok
       /\ m_last_result' = IF ok THEN "SUCCESS" ELSE "EOF_OR_ERROR"
  /\ UNCHANGED <<link, to_server, to_client>>

Close == m_open' = FALSE /\ UNCHANGED <<m_last_result, link, to_server, to_client>>

(* send() returns true.  The first write to a peer that has closed still   *)
(* succeeds; the peer's kernel answers it with a reset, sooner or later.   *)
SendReturnsTrue(line) ==
  /\ m_open
  /\ \/ link = "up" /\ to_server' = Append(to_server, line) /\ UNCHANGED link
     \/ link = "closed" /\ link' \in {"closed", "reset"} /\ UNCHANGED to_server
  /\ m_last_result' = "SUCCESS"
  /\ UNCHANGED <<m_open, to_client>>

(* send() returns false: no connection, or write() reports the abort.      *)
SendReturnsFalse ==
  /\ \/ ~m_open /\ UNCHANGED link
     \/ m_open /\ link = "aborted" /\ link' = "reset"
  /\ m_last_result' = "EOF_OR_ERROR"
  /\ UNCHANGED <<m_open, to_server, to_client>>

(* write() on a reset connection raises SIGPIPE, which neither client      *)
(* handles or ignores.                                                     *)
SendKills == m_open /\ link = "reset" /\ UNCHANGED connection

-----------------------------------------------------------------------------
(* rio_readlineb(&m_fdbuf, buf, MAX_LEN) stores at most MAX_LEN - 1        *)
(* characters: of a longer line the rest stays behind.                     *)
ReadLimit == MaxLen - 1

(* Mutant: every call starts with an empty buffer and loses what the last  *)
(* one had read ahead.                                                     *)
AfterBuffer == <<>>
AfterReadLine ==
  LET line == Head(to_client)
  IN IF line.len <= ReadLimit THEN Tail(to_client)
     ELSE <<[line EXCEPT !.tag = "none", !.len = @ - ReadLimit]>> \o Tail(to_client)

(* receive() returns true with a message of this tag.                      *)
ReceiveReturns(tag) ==
  /\ m_open
  /\ to_client # <<>>
  /\ tag = Head(to_client).tag
  /\ tag # "none"
  /\ to_client' = AfterReadLine
  /\ m_last_result' = "SUCCESS"
  /\ UNCHANGED <<m_open, link, to_server>>

(* receive() returns false: no connection, a line without a colon, or the  *)
(* end of the stream.                                                      *)
ReceiveReturnsFalse ==
  /\ UNCHANGED <<m_open, to_server>>
  /\ \/ /\ ~m_open
        /\ m_last_result' = "EOF_OR_ERROR"
        /\ UNCHANGED <<link, to_client>>
     \/ /\ m_open
        /\ to_client # <<>>
        /\ Head(to_client).tag = "none"
        /\ to_client' = AfterReadLine
        /\ m_last_result' = "INVALID_MSG"
        /\ UNCHANGED link
     \/ /\ m_open
        /\ to_client = <<>>
        /\ link # "up"
        /\ link' = IF link = "aborted" THEN "reset" ELSE link
        /\ m_last_result' = "EOF_OR_ERROR"
        /\ UNCHANGED to_client

-----------------------------------------------------------------------------
(* The server's kernel closes the connection; with requests unread it      *)
(* aborts, and what the client has not read may be lost.                   *)
PeerEnds(unread) == link' = IF unread = <<>> THEN "closed" ELSE "aborted"

PeerVanishes ==
  /\ link = "up"
  /\ PeerEnds(to_server)
  /\ to_client' \in IF to_server = <<>> THEN {to_client} ELSE {to_client, <<>>}
  /\ to_server' = <<>>
  /\ UNCHANGED <<m_open, m_last_result>>
=============================================================================
