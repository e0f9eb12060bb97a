-------------------------------- MODULE Rio --------------------------------
(***************************************************************************)
(* The robust I/O of csapp.c, under every message of csf_assign05: one end *)
(* of a connection writes with rio_writen(), the other has opened it with  *)
(* open_clientfd() and reads with rio_readlineb() and rio_readnb() through *)
(* the buffer of an rio_t.  write() and read() move fewer bytes than asked *)
(* for and are interrupted.  The kernel is external.                       *)
(* A byte is its position in the text.                                     *)
(***************************************************************************)
EXTENDS Integers, Sequences

CONSTANTS
  RIO_BUFSIZE,   \* 8192
  WireSize,      \* bytes the kernels hold between the two ends
  TextLen,       \* length of the text written
  Limits,        \* the maxlen and n the reader asks for
  MaxSignals,    \* bound on the interruptions
  MaxAddresses   \* bound on the addresses of a host

ASSUME RioAssumption ==
  /\ {RIO_BUFSIZE, WireSize} \subseteq Nat \ {0}
  /\ {TextLen, MaxSignals, MaxAddresses} \subseteq Nat
  /\ Limits \subseteq Nat \ {0}

VARIABLES
  addresses,    \* those open_clientfd() has not tried
  listp,        \* the list of them is allocated
  descriptors,  \* number of descriptors open at the reader
  rio_fd,       \* -1, or 0 for an open connection
  newlines,     \* the bytes that are newlines
  wbuf, nleft, bufp,   \* what rio_writen() was given, what is left of it, where
  wire,         \* bytes written and not read
  peer,         \* "open", or the writer "closed", or the connection "reset"
  rio_buf, rio_cnt, rio_bufptr,
  call, limit,  \* the reader's call and its argument
  usrbuf,       \* what it has stored so far
  given,        \* number of bytes returned to callers
  returned,     \* by the last call
  lost,         \* a call failed, and its bytes are gone
  signals       \* interruptions so far

opening == <<addresses, listp, descriptors, rio_fd>>
writer == <<wbuf, nleft, bufp>>
buffer == <<rio_buf, rio_cnt, rio_bufptr>>
caller == <<call, limit, usrbuf, given, returned, lost>>
vars == <<opening, newlines, writer, wire, peer, buffer, caller, signals>>

Least(a, b) == IF a <= b THEN a ELSE b

Init ==
  /\ addresses \in 0 .. MaxAddresses
  /\ listp = (addresses > 0)
  /\ descriptors = 0 /\ rio_fd = -1
  /\ newlines \in SUBSET (1 .. TextLen)
  /\ wbuf = <<>> /\ nleft = 0 /\ bufp = 1
  /\ wire = <<>> /\ peer = "open"
  /\ rio_buf = <<>> /\ rio_cnt = 0 /\ rio_bufptr = 1
  /\ call = "open_clientfd" /\ limit = 0 /\ usrbuf = <<>>
  /\ given = 0 /\ returned = <<"none", 0, <<>>>> /\ lost = FALSE
  /\ signals = 0

-----------------------------------------------------------------------------
(* open_clientfd(): the addresses are tried in turn, none of them if       *)
(* getaddrinfo() has failed.  It fails at the last, or when a descriptor   *)
(* cannot be closed, and then keeps the list.  Mutant: the descriptor of a *)
(* failed connect() is not closed.                                         *)
Unopened == UNCHANGED <<newlines, writer, wire, peer, buffer, limit, usrbuf, given, returned, lost, signals>>

SocketFails ==
  /\ call = "open_clientfd" /\ addresses > 0
  /\ addresses' = addresses - 1
  /\ UNCHANGED <<listp, descriptors, rio_fd, call>> /\ Unopened

Connects ==
  /\ call = "open_clientfd" /\ addresses > 0
  /\ descriptors' = descriptors + 1 /\ rio_fd' = 0
  /\ addresses' = 0 /\ listp' = FALSE
  /\ call' = "none"
  /\ Unopened

ConnectFailsUnclosed ==
  /\ call = "open_clientfd" /\ addresses > 0
  /\ addresses' = addresses - 1 /\ descriptors' = descriptors + 1
  /\ UNCHANGED <<listp, rio_fd, call>> /\ Unopened
ConnectFails ==
  /\ call = "open_clientfd" /\ addresses > 0
  /\ \/ addresses' = addresses - 1 /\ UNCHANGED <<descriptors, call>>
     \/ call' = "failed" /\ descriptors' \in {descriptors, descriptors + 1} /\ UNCHANGED addresses
  /\ UNCHANGED <<listp, rio_fd>> /\ Unopened

NoAddress ==
  /\ call = "open_clientfd" /\ addresses = 0
  /\ call' = "failed" /\ listp' = FALSE
  /\ UNCHANGED <<addresses, descriptors, rio_fd>> /\ Unopened

-----------------------------------------------------------------------------
(* rio_writen() of the next bytes of the text.                             *)
Passive == UNCHANGED <<opening, newlines, buffer, caller>>
Sent == Len(wbuf)

CallWriten ==
  /\ peer = "open" /\ nleft = 0 /\ Sent < TextLen
  /\ \E n \in 1 .. (TextLen - Sent) :
       /\ wbuf' = wbuf \o [k \in 1 .. n |-> Sent + k]
       /\ nleft' = n
  /\ Passive /\ UNCHANGED <<bufp, wire, peer, signals>>

(* write() takes some of it.  Mutant: all of it is thought to be taken.    *)
WriteOnce ==
  /\ peer = "open" /\ nleft > 0
  /\ \E nwritten \in 1 .. Least(nleft, WireSize - Len(wire)) :
       wire' = wire \o SubSeq(wbuf, bufp, bufp + nwritten - 1)
  /\ nleft' = 0 /\ bufp' = bufp + nleft
  /\ Passive /\ UNCHANGED <<wbuf, peer, signals>>
Write ==
  /\ peer = "open" /\ nleft > 0
  /\ \E nwritten \in 1 .. Least(nleft, WireSize - Len(wire)) :
       /\ wire' = wire \o SubSeq(wbuf, bufp, bufp + nwritten - 1)
       /\ nleft' = nleft - nwritten
       /\ bufp' = bufp + nwritten
  /\ Passive /\ UNCHANGED <<wbuf, peer, signals>>

WriteInterrupted ==
  /\ peer = "open" /\ nleft > 0 /\ signals < MaxSignals
  /\ signals' = signals + 1
  /\ Passive /\ UNCHANGED <<writer, wire, peer>>

(* write() fails, and so does the call: what it has not written yet is     *)
(* never sent.                                                             *)
WriteFails ==
  /\ peer # "closed" /\ nleft > 0
  /\ wbuf' = SubSeq(wbuf, 1, bufp - 1) /\ nleft' = 0
  /\ Passive /\ UNCHANGED <<bufp, wire, peer, signals>>

(* The writer closes after a call or ends in the middle of one; or the     *)
(* connection is reset and what is on the wire is gone.                    *)
PeerCloses ==
  /\ peer = "open"
  /\ peer' = "closed"
  /\ Passive /\ UNCHANGED <<writer, wire, signals>>

PeerResets ==
  /\ peer = "open"
  /\ peer' = "reset" /\ wire' = <<>>
  /\ Passive /\ UNCHANGED <<writer, signals>>

-----------------------------------------------------------------------------
Quiet == UNCHANGED <<opening, newlines, writer, peer>>

(* A caller that got an error may call again.                              *)
CallReadlineb ==
  /\ call = "none"
  /\ limit' \in Limits
  /\ call' = "rio_readlineb" /\ usrbuf' = <<>>
  /\ Quiet /\ UNCHANGED <<wire, buffer, given, returned, lost, signals>>

CallReadnb ==
  /\ call = "none"
  /\ limit' \in Limits
  /\ call' = "rio_readnb" /\ usrbuf' = <<>>
  /\ Quiet /\ UNCHANGED <<wire, buffer, given, returned, lost, signals>>

(* The loop of the call goes on ...                                        *)
room == limit - Len(usrbuf) - IF call = "rio_readlineb" THEN 1 ELSE 0
endOfLine == call = "rio_readlineb" /\ usrbuf # <<>> /\ usrbuf[Len(usrbuf)] \in newlines
Reading == call \in {"rio_readlineb", "rio_readnb"} /\ room > 0 /\ ~endOfLine

(* ... or returns what it has, which may be nothing.                       *)
Returns ==
  /\ call' = "none"
  /\ given' = given + Len(usrbuf)
  /\ returned' = <<call, limit, usrbuf>>
  /\ UNCHANGED <<limit, usrbuf, lost>>

ReturnFull ==
  /\ call \in {"rio_readlineb", "rio_readnb"} /\ ~Reading
  /\ Returns
  /\ Quiet /\ UNCHANGED <<wire, buffer, signals>>

(* rio_read() refills the buffer only when it is empty.  Mutant: also when *)
(* it is not.                                                              *)
RefillEarly ==
  /\ Reading /\ wire # <<>>
  /\ \E n \in 1 .. Least(RIO_BUFSIZE, Len(wire)) :
       /\ rio_buf' = SubSeq(wire, 1, n)
       /\ wire' = SubSeq(wire, n + 1, Len(wire))
       /\ rio_cnt' = n
  /\ rio_bufptr' = 1
  /\ Quiet /\ UNCHANGED <<caller, signals>>
Refill ==
  /\ Reading /\ rio_cnt <= 0 /\ wire # <<>>
  /\ \E n \in 1 .. Least(RIO_BUFSIZE, Len(wire)) :
       /\ rio_buf' = SubSeq(wire, 1, n)
       /\ wire' = SubSeq(wire, n + 1, Len(wire))
       /\ rio_cnt' = n
  /\ rio_bufptr' = 1
  /\ Quiet /\ UNCHANGED <<caller, signals>>

ReadInterrupted ==
  /\ Reading /\ rio_cnt <= 0 /\ signals < MaxSignals
  /\ rio_cnt' = -1
  /\ signals' = signals + 1
  /\ Quiet /\ UNCHANGED <<wire, rio_buf, rio_bufptr, caller>>

(* The end of the stream, which a connection also has once it has reported *)
(* its reset, ends the call; what it has is returned.                      *)
(* Mutant: the call goes on.                                               *)
AtEnd == wire = <<>> /\ (peer = "closed" \/ lost)

ReadOnAtEnd ==
  /\ Reading /\ rio_cnt <= 0 /\ AtEnd
  /\ rio_cnt' = 0
  /\ Quiet /\ UNCHANGED <<wire, rio_buf, rio_bufptr, caller, signals>>
ReadEnd ==
  /\ Reading /\ rio_cnt <= 0 /\ AtEnd
  /\ rio_cnt' = 0
  /\ Returns
  /\ Quiet /\ UNCHANGED <<wire, rio_buf, rio_bufptr, signals>>

ReadFails ==
  /\ Reading /\ rio_cnt <= 0 /\ peer = "reset"
  /\ rio_cnt' = -1
  /\ call' = "none" /\ returned' = <<"error", 0, <<>>>> /\ lost' = TRUE
  /\ Quiet /\ UNCHANGED <<limit, usrbuf, given, wire, rio_buf, rio_bufptr, signals>>

(* rio_read() copies one byte for a line, or as many as are asked for and  *)
(* there.                                                                  *)
Copied == IF call = "rio_readlineb" THEN 1 ELSE Least(room, rio_cnt)

Copy ==
  /\ Reading /\ rio_cnt > 0
  /\ usrbuf' = usrbuf \o SubSeq(rio_buf, rio_bufptr, rio_bufptr + Copied - 1)
  /\ rio_bufptr' = rio_bufptr + Copied
  /\ rio_cnt' = rio_cnt - Copied
  /\ Quiet /\ UNCHANGED <<wire, rio_buf, call, limit, given, returned, lost, signals>>

-----------------------------------------------------------------------------
Opening == SocketFails \/ Connects \/ ConnectFails \/ NoAddress
Writing == CallWriten \/ Write \/ WriteInterrupted \/ WriteFails
Calling == CallReadlineb \/ CallReadnb
InCall == ReturnFull \/ Refill \/ ReadInterrupted \/ ReadEnd \/ ReadFails \/ Copy

Next == Opening \/ Writing \/ PeerCloses \/ PeerResets \/ Calling \/ InCall

Spec == Init /\ [][Next]_vars

(* The reader runs; nobody need write, or call the reader's functions.     *)
FairSpec == Spec /\ WF_vars(Opening) /\ WF_vars(InCall)

-----------------------------------------------------------------------------
Unread == SubSeq(rio_buf, rio_bufptr, rio_bufptr + rio_cnt - 1)

TypeOK ==
  /\ addresses \in 0 .. MaxAddresses /\ listp \in BOOLEAN /\ rio_fd \in {-1, 0}
  /\ newlines \subseteq 1 .. TextLen
  /\ wbuf \in Seq(1 .. TextLen) /\ nleft \in 0 .. TextLen /\ bufp \in 1 .. (TextLen + 1)
  /\ wire \in Seq(1 .. TextLen) /\ Len(wire) <= WireSize
  /\ peer \in {"open", "closed", "reset"}
  /\ rio_buf \in Seq(1 .. TextLen) /\ rio_cnt \in -1 .. RIO_BUFSIZE
  /\ rio_bufptr \in 1 .. (RIO_BUFSIZE + 1)
  /\ call \in {"open_clientfd", "failed", "none", "rio_readlineb", "rio_readnb"}
  /\ usrbuf \in Seq(1 .. TextLen)
  /\ given \in 0 .. TextLen /\ lost \in BOOLEAN /\ signals \in 0 .. MaxSignals

(* Every byte written is in one place, and in order: returned to a caller, *)
(* in the hands of a call, in the buffer or on the wire.  The buffer of a  *)
(* call keeps room for the zero at its end.                                *)
NoByteLost ==
  LET held == IF call \in {"rio_readlineb", "rio_readnb"} THEN usrbuf ELSE <<>>
      behind == held \o Unread \o wire
  IN /\ TypeOK
     /\ ~lost => \A k \in DOMAIN behind : behind[k] = given + k
     /\ peer # "reset" => given + Len(behind) = bufp - 1
     /\ call = "rio_readlineb" => Len(usrbuf) < limit

(* open_clientfd() leaves one descriptor open, the one it returns, and     *)
(* frees its list of addresses; only if close() itself fails, which is     *)
(* before the last address is done with, may a descriptor and the list     *)
(* stay.                                                                   *)
OneDescriptor ==
  /\ rio_fd = 0 => descriptors = 1
  /\ call = "open_clientfd" => descriptors = 0
  /\ call # "open_clientfd" /\ (listp \/ (rio_fd = -1 /\ descriptors > 0))
       => call = "failed" /\ addresses > 0

(* A call returns what the text says, however the text was cut.            *)
Lines ==
  INSTANCE AbstractLines
    WITH text <- SubSeq(wbuf, 1, bufp - 1), ended <- peer # "open", failed <- lost, read <- given

ImplementsLines == Lines!Spec

(* A call ends when the stream does, and open_clientfd() with the last     *)
(* address: interruptions and short counts only delay it.                  *)
CallEnds ==
  /\ call = "open_clientfd" ~> call # "open_clientfd"
  /\ Reading /\ peer # "open" ~> call \in {"none", "failed"}
=============================================================================
