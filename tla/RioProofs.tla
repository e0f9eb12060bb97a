----------------------------- MODULE RioProofs -----------------------------
(***************************************************************************)
(* For buffers, wires and texts of any size: no byte is lost between       *)
(* rio_writen() and the callers of rio_readlineb() and rio_readnb(), and   *)
(* open_clientfd() leaves one descriptor.                                  *)
(***************************************************************************)
EXTENDS Rio, SequenceTheorems, TLAPS

Text == 1 .. TextLen

(* The bytes of s are those of the text that follow position a.            *)
Run(s, a) == \A k \in 1 .. Len(s) : s[k] = a + k

(* The first position after the bytes callers and the call in progress     *)
(* have, and the number of bytes read ahead.                               *)
InReader == call \in {"rio_readlineb", "rio_readnb"}
pos == given + IF InReader THEN Len(usrbuf) ELSE 0
avail == IF rio_cnt > 0 THEN rio_cnt ELSE 0

(* The writer has put the text in order up to bufp.                        *)
WriterInv ==
  /\ Run(wbuf, 0)
  /\ bufp + nleft - 1 = Len(wbuf)
  /\ Len(wbuf) <= TextLen

(* What is left of the buffer is its end.                                  *)
BufferInv ==
  /\ Len(rio_buf) <= RIO_BUFSIZE
  /\ rio_bufptr + avail = Len(rio_buf) + 1

(* Once a call has failed nothing is left to be read.                      *)
CallerInv ==
  /\ limit \in Nat
  /\ peer = "reset" => wire = <<>>
  /\ call = "rio_readlineb" => Len(usrbuf) < limit
  /\ call = "open_clientfd" => rio_fd = -1
  /\ lost => /\ peer = "reset" /\ rio_cnt <= 0 /\ given <= bufp - 1
             /\ InReader => usrbuf = <<>>

(* Hands, buffer and wire hold the text, each from where the one before it *)
(* ends; a reset alone takes away its end.                                 *)
Order ==
  /\ InReader => Run(usrbuf, given)
  /\ Run(rio_buf, pos + 1 - rio_bufptr)
  /\ Run(wire, pos + avail)
  /\ pos + avail + Len(wire) <= bufp - 1
  /\ peer # "reset" => pos + avail + Len(wire) = bufp - 1

IInv ==
  /\ TypeOK /\ WriterInv /\ BufferInv /\ CallerInv
  /\ ~lost => Order
  /\ OneDescriptor

-----------------------------------------------------------------------------
(* The sizes are numbers, and all requests ask for something.              *)
LEMMA Constants ==
  /\ RIO_BUFSIZE \in Nat \ {0} /\ WireSize \in Nat \ {0}
  /\ TextLen \in Nat /\ MaxSignals \in Nat /\ MaxAddresses \in Nat
  /\ \A n \in Limits : n \in Nat \ {0}
BY RioAssumption

(* No bytes are a run from anywhere.                                       *)
LEMMA NoRun == <<>> \in Seq(Text) /\ Len(<<>>) = 0 /\ \A a \in Int : Run(<<>>, a)
BY EmptySeq DEF Run

(* Two runs make one if the second goes on where the first ends.           *)
LEMMA RunsJoin ==
  ASSUME NEW s \in Seq(Text), NEW t \in Seq(Text), NEW a \in Int,
         Run(s, a), Run(t, a + Len(s))
  PROVE  /\ s \o t \in Seq(Text)
         /\ Len(s \o t) = Len(s) + Len(t)
         /\ Run(s \o t, a)
<1>1. Len(s) \in Nat /\ Len(t) \in Nat
  BY LenProperties
<1>2. /\ s \o t \in Seq(Text)
      /\ Len(s \o t) = Len(s) + Len(t)
      /\ \A k \in 1 .. (Len(s) + Len(t)) : (s \o t)[k] = IF k <= Len(s) THEN s[k] ELSE t[k - Len(s)]
  BY ConcatProperties
<1>3. ASSUME NEW k \in 1 .. (Len(s) + Len(t)) PROVE (s \o t)[k] = a + k
  <2>1. CASE k <= Len(s)
    BY <1>1, <1>2, <2>1 DEF Run
  <2>2. CASE k > Len(s)
    <3>1. k - Len(s) \in 1 .. Len(t)
      BY <1>1, <2>2
    <3>2. t[k - Len(s)] = a + Len(s) + (k - Len(s))
      BY <3>1 DEF Run
    <3> QED BY <1>1, <1>2, <2>2, <3>2
  <2> QED BY <1>1, <2>1, <2>2
<1> QED BY <1>2, <1>3 DEF Run

(* A part of a text is one ...                                             *)
LEMMA Pieces ==
  ASSUME NEW s \in Seq(Text), NEW m \in Int, NEW n \in Int, 1 <= m, n <= Len(s)
  PROVE  /\ SubSeq(s, m, n) \in Seq(Text)
         /\ Len(SubSeq(s, m, n)) = IF m <= n THEN n - m + 1 ELSE 0
         /\ \A k \in 1 .. (n - m + 1) : SubSeq(s, m, n)[k] = s[m + k - 1]
<1>1. Len(s) \in Nat
  BY LenProperties
<1>2. \A i \in m .. n : s[i] \in Text
  BY ElementOfSeq
<1> QED BY <1>2, SubSeqProperties

(* ... and a part of a run is a run.                                       *)
LEMMA RunsPart ==
  ASSUME NEW s \in Seq(Text), NEW a \in Int, Run(s, a),
         NEW m \in Int, NEW n \in Int, 1 <= m, n <= Len(s)
  PROVE  /\ SubSeq(s, m, n) \in Seq(Text)
         /\ Len(SubSeq(s, m, n)) = IF m <= n THEN n - m + 1 ELSE 0
         /\ Run(SubSeq(s, m, n), a + m - 1)
<1>1. Len(s) \in Nat
  BY LenProperties
<1>3. /\ SubSeq(s, m, n) \in Seq(Text)
      /\ Len(SubSeq(s, m, n)) = IF m <= n THEN n - m + 1 ELSE 0
      /\ \A k \in 1 .. (n - m + 1) : SubSeq(s, m, n)[k] = s[m + k - 1]
  BY Pieces
<1>4. ASSUME NEW k \in 1 .. (n - m + 1) PROVE SubSeq(s, m, n)[k] = a + m - 1 + k
  <2>1. m + k - 1 \in 1 .. Len(s)
    BY <1>1
  <2>2. s[m + k - 1] = a + (m + k - 1)
    BY <2>1 DEF Run
  <2> QED BY <1>3, <2>2
<1> QED BY <1>3, <1>4 DEF Run

(* The bytes a caller of rio_writen() gives are the next ones of the text. *)
LEMMA NextBytes ==
  ASSUME NEW a \in Nat, NEW n \in Nat, a + n <= TextLen
  PROVE  /\ [k \in 1 .. n |-> a + k] \in Seq(Text)
         /\ Len([k \in 1 .. n |-> a + k]) = n
         /\ Run([k \in 1 .. n |-> a + k], a)
<1>1. \A k \in 1 .. n : a + k \in Text
  BY Constants DEF Text
<1>2. [k \in 1 .. n |-> a + k] \in Seq(Text) /\ Len([k \in 1 .. n |-> a + k]) = n
  BY <1>1, IsASeq
<1> QED BY <1>2 DEF Run

-----------------------------------------------------------------------------
(* What the steps need to know of the values in a state.                   *)
Typed ==
  /\ wbuf \in Seq(Text) /\ wire \in Seq(Text) /\ rio_buf \in Seq(Text) /\ usrbuf \in Seq(Text)
  /\ Len(wbuf) \in Nat /\ Len(wire) \in Nat /\ Len(rio_buf) \in Nat /\ Len(usrbuf) \in Nat
  /\ nleft \in 0 .. TextLen /\ bufp \in 1 .. (TextLen + 1)
  /\ rio_cnt \in -1 .. RIO_BUFSIZE /\ rio_bufptr \in 1 .. (RIO_BUFSIZE + 1)
  /\ given \in 0 .. TextLen /\ pos \in Nat /\ avail \in Nat /\ limit \in Nat
  /\ Len(wire) <= WireSize
  /\ TextLen \in Nat /\ RIO_BUFSIZE \in Nat

(* They follow from the invariant.                                         *)
LEMMA Typing == IInv => Typed
<1> SUFFICES ASSUME IInv PROVE Typed
  OBVIOUS
<1>1. /\ wbuf \in Seq(Text) /\ wire \in Seq(Text) /\ rio_buf \in Seq(Text) /\ usrbuf \in Seq(Text)
      /\ nleft \in 0 .. TextLen /\ bufp \in 1 .. (TextLen + 1) /\ rio_cnt \in -1 .. RIO_BUFSIZE
      /\ rio_bufptr \in 1 .. (RIO_BUFSIZE + 1) /\ given \in 0 .. TextLen /\ Len(wire) <= WireSize
  BY DEF IInv, TypeOK, Text
<1>2. Len(wbuf) \in Nat /\ Len(wire) \in Nat /\ Len(rio_buf) \in Nat /\ Len(usrbuf) \in Nat
  BY <1>1, LenProperties
<1>3. pos \in Nat
  BY <1>1, <1>2 DEF pos
<1>4. avail \in Nat
  BY <1>1, Constants DEF avail
<1>5. limit \in Nat
  BY DEF IInv, CallerInv
<1> QED BY <1>1, <1>2, <1>3, <1>4, <1>5, Constants DEF Typed

(* At first there are no bytes anywhere.                                   *)
LEMMA InitInv == Init => IInv
<1> SUFFICES ASSUME Init PROVE IInv
  OBVIOUS
<1>1. /\ addresses \in 0 .. MaxAddresses /\ newlines \subseteq 1 .. TextLen
      /\ wbuf = <<>> /\ wire = <<>> /\ rio_buf = <<>> /\ usrbuf = <<>>
      /\ nleft = 0 /\ bufp = 1 /\ rio_cnt = 0 /\ rio_bufptr = 1 /\ given = 0 /\ signals = 0
      /\ peer = "open" /\ call = "open_clientfd" /\ rio_fd = -1 /\ lost = FALSE
      /\ limit = 0 /\ descriptors = 0
  BY DEF Init
<1>2. TypeOK
  <2>1. <<>> \in Seq(1 .. TextLen) /\ Len(<<>>) = 0
    BY NoRun DEF Text
  <2>2. /\ nleft \in 0 .. TextLen /\ bufp \in 1 .. (TextLen + 1) /\ rio_cnt \in -1 .. RIO_BUFSIZE
        /\ rio_bufptr \in 1 .. (RIO_BUFSIZE + 1) /\ given \in 0 .. TextLen
        /\ signals \in 0 .. MaxSignals /\ Len(wire) <= WireSize /\ rio_fd \in {-1, 0}
        /\ listp \in BOOLEAN
    BY <1>1, <2>1, Constants DEF Init
  <2> QED BY <1>1, <2>1, <2>2 DEF TypeOK
<1>3. pos = 0 /\ avail = 0 /\ ~InReader
  BY <1>1 DEF pos, avail, InReader
<1>4. WriterInv /\ BufferInv
  BY <1>1, <1>3, NoRun, Constants DEF WriterInv, BufferInv
<1>5. CallerInv /\ OneDescriptor
  <2>1. listp \in BOOLEAN
    BY DEF Init
  <2> QED BY <1>1, <1>3, <2>1 DEF CallerInv, OneDescriptor
<1>6. Order
  <2>1. Run(rio_buf, 0) /\ Run(wire, 0) /\ Len(wire) = 0
    BY <1>1, NoRun
  <2> QED BY <1>1, <1>3, <2>1 DEF Order
<1> QED BY <1>2, <1>4, <1>5, <1>6 DEF IInv

-----------------------------------------------------------------------------
(* Opening moves no byte.                                                  *)
LEMMA OpenInv == IInv /\ Opening => IInv'
<1> SUFFICES ASSUME IInv, Opening PROVE IInv'
  OBVIOUS
<1>0. Typed
  BY Typing
<1>1. /\ UNCHANGED <<newlines, writer, wire, peer, buffer, limit, usrbuf, given, returned, lost, signals>>
      /\ call = "open_clientfd"
  BY DEF Opening, SocketFails, Connects, ConnectFails, NoAddress, Unopened
<1>2. /\ addresses' \in 0 .. MaxAddresses
      /\ call' \in {"open_clientfd", "none", "failed"}
      /\ (rio_fd' = 0 /\ descriptors' = descriptors + 1 /\ call' = "none") \/ rio_fd' = rio_fd
      /\ call' = "open_clientfd" => descriptors' = descriptors /\ rio_fd' = rio_fd
      /\ call' = "none" => rio_fd' = 0 /\ ~listp'
      /\ call' = "failed" => \/ addresses' > 0
                             \/ ~listp' /\ descriptors' = descriptors
      /\ listp' \in BOOLEAN
  <2>1. addresses \in 0 .. MaxAddresses /\ listp \in BOOLEAN
    BY DEF IInv, TypeOK
  <2>2. CASE SocketFails
    BY <1>1, <2>1, <2>2, Constants DEF SocketFails
  <2>3. CASE Connects
    <3>1. /\ addresses' = 0 /\ listp' = FALSE /\ call' = "none"
          /\ rio_fd' = 0 /\ descriptors' = descriptors + 1
      BY <2>3 DEF Connects
    <3>2. 0 \in 0 .. MaxAddresses
      BY Constants
    <3>3. ~listp' /\ listp' \in BOOLEAN
      BY <3>1
    <3> QED BY <3>1, <3>2, <3>3
  <2>4. CASE ConnectFails
    BY <1>1, <2>1, <2>4, Constants DEF ConnectFails
  <2>5. CASE NoAddress
    BY <1>1, <2>1, <2>5, Constants DEF NoAddress
  <2> QED BY <2>2, <2>3, <2>4, <2>5 DEF Opening
<1>3. rio_fd = -1 /\ descriptors = 0
  BY <1>1 DEF IInv, CallerInv, OneDescriptor
<1>4. OneDescriptor'
  BY <1>2, <1>3 DEF OneDescriptor
<1>5. ~InReader /\ ~InReader' /\ pos' = pos /\ avail' = avail
  BY <1>1, <1>2 DEF InReader, pos, avail, buffer
<1>6. TypeOK'
  BY <1>1, <1>2, <1>3 DEF IInv, TypeOK, writer, buffer
<1>7. WriterInv' /\ BufferInv'
  BY <1>1, <1>5 DEF IInv, WriterInv, BufferInv, Run, writer, buffer
<1>8. CallerInv'
  BY <1>1, <1>2, <1>3, <1>5 DEF IInv, CallerInv, writer, buffer
<1>9. ~lost' => Order'
  BY <1>1, <1>5 DEF IInv, Order, Run, writer, buffer
<1> QED BY <1>4, <1>6, <1>7, <1>8, <1>9 DEF IInv

(* The writer appends to the text ...                                      *)
LEMMA CallWritenInv == IInv /\ CallWriten => IInv'
<1> SUFFICES ASSUME IInv, CallWriten PROVE IInv'
  OBVIOUS
<1>0. Typed
  BY Typing
<1>1. PICK n \in 1 .. (TextLen - Sent) : wbuf' = wbuf \o [k \in 1 .. n |-> Sent + k] /\ nleft' = n
  BY DEF CallWriten
<1>2. /\ UNCHANGED <<opening, newlines, buffer, caller, bufp, wire, peer, signals>>
      /\ nleft = 0
  BY DEF CallWriten, Passive
<1>3. Len(wbuf) \in Nat /\ n \in Nat /\ Len(wbuf) + n <= TextLen /\ TextLen \in Nat
  BY <1>0, <1>1, Constants DEF Typed, Sent
<1>4. wbuf' \in Seq(Text) /\ Len(wbuf') = Len(wbuf) + n /\ Run(wbuf', 0)
  <2> DEFINE more == [k \in 1 .. n |-> Len(wbuf) + k]
  <2>1. more \in Seq(Text) /\ Len(more) = n /\ Run(more, Len(wbuf))
    BY <1>3, NextBytes
  <2>2. wbuf \in Seq(Text) /\ Run(wbuf, 0)
    BY <1>0 DEF Typed, IInv, WriterInv
  <2>3. wbuf' = wbuf \o more
    BY <1>1 DEF Sent
  <2> HIDE DEF more
  <2>4. Run(more, 0 + Len(wbuf))
    BY <1>3, <2>1
  <2>5. /\ wbuf \o more \in Seq(Text) /\ Len(wbuf \o more) = Len(wbuf) + Len(more)
        /\ Run(wbuf \o more, 0)
    BY <2>1, <2>2, <2>4, RunsJoin
  <2> QED BY <2>1, <2>3, <2>5
<1>5. WriterInv'
  BY <1>0, <1>1, <1>2, <1>3, <1>4 DEF IInv, WriterInv, Typed
<1>6. TypeOK'
  <2>1. nleft' \in 0 .. TextLen
    BY <1>1, <1>3
  <2> QED BY <1>2, <1>4, <2>1 DEF IInv, TypeOK, Text, opening, buffer, caller
<1>7. InReader' = InReader /\ pos' = pos /\ avail' = avail
  BY <1>2 DEF InReader, pos, avail, buffer, caller
<1>8. BufferInv' /\ CallerInv' /\ OneDescriptor'
  BY <1>2, <1>7 DEF IInv, BufferInv, CallerInv, OneDescriptor, opening, buffer, caller
<1>9. ~lost' => Order'
  BY <1>2, <1>7 DEF IInv, Order, Run, buffer, caller
<1> QED BY <1>5, <1>6, <1>8, <1>9 DEF IInv

(* ... and moves its next bytes to the end of the wire.                    *)
LEMMA WriteInv == IInv /\ Write => IInv'
<1> SUFFICES ASSUME IInv, Write PROVE IInv'
  OBVIOUS
<1>0. Typed
  BY Typing
<1>1. PICK nwritten \in Nat :
        /\ 1 <= nwritten /\ nwritten <= nleft /\ Len(wire) + nwritten <= WireSize
        /\ wire' = wire \o SubSeq(wbuf, bufp, bufp + nwritten - 1)
        /\ nleft' = nleft - nwritten
        /\ bufp' = bufp + nwritten
  BY <1>0, Constants DEF Write, Least, Typed
<1>2. UNCHANGED <<opening, newlines, buffer, caller, wbuf, peer, signals>> /\ peer = "open"
  BY DEF Write, Passive
<1>3. /\ 1 <= nwritten /\ nwritten <= nleft /\ Len(wire) + nwritten <= WireSize
      /\ nleft' = nleft - nwritten /\ bufp' = bufp + nwritten
  BY <1>1
<1>4. Run(wbuf, 0) /\ bufp + nleft - 1 = Len(wbuf) /\ Len(wbuf) <= TextLen
  BY DEF IInv, WriterInv
<1> DEFINE piece == SubSeq(wbuf, bufp, bufp + nwritten - 1)
<1>5. piece \in Seq(Text) /\ Len(piece) = nwritten /\ Run(piece, bufp - 1)
  <2>1. /\ bufp \in Int /\ bufp + nwritten - 1 \in Int
        /\ 1 <= bufp /\ bufp <= (bufp + nwritten - 1) + 1 /\ bufp + nwritten - 1 <= Len(wbuf)
        /\ (bufp + nwritten - 1) - bufp + 1 = nwritten /\ 0 + bufp - 1 = bufp - 1
    BY <1>0, <1>3, <1>4 DEF Typed
  <2>2. /\ piece \in Seq(Text)
        /\ Len(piece) = (bufp + nwritten - 1) - bufp + 1
        /\ Run(piece, 0 + bufp - 1)
    BY <1>0, <1>4, <2>1, RunsPart DEF Typed
  <2> QED BY <2>1, <2>2
<1>6. /\ wire' \in Seq(Text) /\ Len(wire') = Len(wire) + nwritten
      /\ ~lost => Run(wire', pos + avail)
  <2>1. wire \in Seq(Text) /\ wire' = wire \o piece
    BY <1>0, <1>1 DEF Typed
  <2>2. wire' \in Seq(Text) /\ Len(wire') = Len(wire) + nwritten
    <3> HIDE DEF piece
    <3> QED BY <1>5, <2>1, ConcatProperties
  <2>3. ASSUME ~lost PROVE Run(wire', pos + avail)
    <3>1. Run(wire, pos + avail) /\ pos + avail + Len(wire) = bufp - 1 /\ pos + avail \in Int
      BY <1>0, <1>2, <2>3 DEF IInv, Order, Typed
    <3> HIDE DEF piece
    <3>2. Run(piece, pos + avail + Len(wire))
      BY <1>5, <3>1
    <3> QED BY <1>5, <2>1, <3>1, <3>2, RunsJoin
  <2> QED BY <2>2, <2>3
<1>7. WriterInv'
  <2>1. bufp \in Int /\ nleft \in Int /\ Len(wbuf) \in Int
    BY <1>0 DEF Typed
  <2>2. bufp' + nleft' - 1 = Len(wbuf)
    BY <1>3, <1>4, <2>1
  <2>3. wbuf' = wbuf
    BY <1>2
  <2> QED BY <1>4, <2>2, <2>3 DEF WriterInv, Run
<1>8. TypeOK'
  <2>1. nleft' \in 0 .. TextLen /\ bufp' \in 1 .. (TextLen + 1) /\ Len(wire') <= WireSize
    BY <1>0, <1>1, <1>3, <1>4, <1>6, Constants DEF Typed
  <2> QED BY <1>2, <1>6, <2>1 DEF IInv, TypeOK, Text, opening, buffer, caller
<1>9. InReader' = InReader /\ pos' = pos /\ avail' = avail
  BY <1>2 DEF InReader, pos, avail, buffer, caller
<1>10. BufferInv' /\ CallerInv' /\ OneDescriptor'
  <2>1. ~lost /\ ~lost' /\ peer' = "open"
    BY <1>2 DEF IInv, CallerInv, caller
  <2> QED BY <1>2, <1>9, <2>1 DEF IInv, BufferInv, CallerInv, OneDescriptor, opening, buffer, caller
<1>11. ~lost' => Order'
  <2> SUFFICES ASSUME ~lost' PROVE Order'
    OBVIOUS
  <2>1. Order /\ ~lost
    BY <1>2 DEF IInv, caller
  <2>2. pos' + avail' + Len(wire') = bufp' - 1
    <3>1. pos + avail + Len(wire) = bufp - 1
      BY <1>2, <2>1 DEF Order
    <3>2. bufp' = bufp + nwritten /\ Len(wire') = Len(wire) + nwritten
      BY <1>1, <1>6
    <3>3. pos \in Int /\ avail \in Int /\ Len(wire) \in Int /\ bufp \in Int
      BY <1>0 DEF Typed
    <3> QED BY <1>9, <3>1, <3>2, <3>3
  <2>3. pos' + avail' + Len(wire') <= bufp' - 1
    BY <1>0, <1>1, <1>3, <1>6, <1>9, <2>2 DEF Typed
  <2>4. Run(wire', pos' + avail')
    BY <1>6, <1>9, <2>1
  <2>5. (InReader => Run(usrbuf, given))' /\ Run(rio_buf, pos + 1 - rio_bufptr)'
    BY <1>2, <1>9, <2>1 DEF Order, Run, buffer, caller
  <2> QED BY <2>2, <2>3, <2>4, <2>5 DEF Order
<1> QED BY <1>7, <1>8, <1>10, <1>11 DEF IInv

(* A call that fails takes back what it has not written.                   *)
LEMMA WriteFailsInv == IInv /\ WriteFails => IInv'
<1> SUFFICES ASSUME IInv, WriteFails PROVE IInv'
  OBVIOUS
<1>0. Typed
  BY Typing
<1>1. /\ UNCHANGED <<opening, newlines, buffer, caller, bufp, wire, peer, signals>>
      /\ wbuf' = SubSeq(wbuf, 1, bufp - 1) /\ nleft' = 0
  BY DEF WriteFails, Passive
<1>2. /\ wbuf \in Seq(Text) /\ Run(wbuf, 0) /\ Len(wbuf) \in Nat /\ Len(wbuf) <= TextLen
      /\ bufp \in Nat /\ 1 <= bufp /\ nleft \in Nat /\ bufp + nleft - 1 = Len(wbuf)
  BY <1>0 DEF Typed, IInv, WriterInv
<1>3. wbuf' \in Seq(Text) /\ Len(wbuf') = bufp - 1 /\ Run(wbuf', 0)
  <2> DEFINE n == bufp - 1
  <2>1. n \in Int /\ 0 <= n /\ n <= Len(wbuf) /\ (IF 1 <= n THEN n - 1 + 1 ELSE 0) = n
    BY <1>2
  <2> HIDE DEF n
  <2>2. /\ SubSeq(wbuf, 1, n) \in Seq(Text)
        /\ Len(SubSeq(wbuf, 1, n)) = IF 1 <= n THEN n - 1 + 1 ELSE 0
        /\ Run(SubSeq(wbuf, 1, n), 0 + 1 - 1)
    BY <1>2, <2>1, RunsPart
  <2>3. wbuf' = SubSeq(wbuf, 1, n)
    BY <1>1 DEF n
  <2> QED BY <2>1, <2>2, <2>3 DEF n
<1>4. WriterInv'
  BY <1>0, <1>1, <1>2, <1>3 DEF WriterInv, Typed
<1>5. TypeOK'
  BY <1>0, <1>1, <1>3 DEF IInv, TypeOK, Typed, Text, opening, buffer, caller
<1>6. InReader' = InReader /\ pos' = pos /\ avail' = avail
  BY <1>1 DEF InReader, pos, avail, buffer, caller
<1>7. BufferInv' /\ CallerInv' /\ OneDescriptor'
  BY <1>1, <1>6 DEF IInv, BufferInv, CallerInv, OneDescriptor, opening, buffer, caller
<1>8. ~lost' => Order'
  BY <1>1, <1>6 DEF IInv, Order, Run, buffer, caller
<1> QED BY <1>4, <1>5, <1>7, <1>8 DEF IInv

(* An interruption, a close and a reset leave the text where it is, but    *)
(* for what a reset takes off the wire.                                    *)
LEMMA PeerInv == IInv /\ (WriteInterrupted \/ PeerCloses \/ PeerResets) => IInv'
<1> SUFFICES ASSUME IInv, WriteInterrupted \/ PeerCloses \/ PeerResets PROVE IInv'
  OBVIOUS
<1>0. Typed
  BY Typing
<1>1. /\ UNCHANGED <<opening, newlines, writer, buffer, caller>>
      /\ peer = "open"
      /\ peer' \in {"open", "closed", "reset"}
      /\ IF peer' = "reset" THEN wire' = <<>> ELSE wire' = wire
      /\ signals' \in 0 .. MaxSignals
  <2>1. signals \in 0 .. MaxSignals
    BY DEF IInv, TypeOK
  <2> QED BY <2>1, Constants DEF WriteInterrupted, PeerCloses, PeerResets, Passive, writer
<1>2. wire' \in Seq(Text) /\ Len(wire') \in Nat /\ Len(wire') <= Len(wire)
  <2>1. wire \in Seq(Text) /\ Len(wire) \in Nat
    BY <1>0 DEF Typed
  <2>2. CASE wire' = wire
    BY <2>1, <2>2
  <2>3. CASE wire' = <<>>
    BY <2>1, <2>3, NoRun
  <2> QED BY <1>1, <2>2, <2>3
<1>3. TypeOK'
  <2>1. Len(wire') <= WireSize
    BY <1>0, <1>2, Constants DEF Typed
  <2> QED BY <1>1, <1>2, <2>1 DEF IInv, TypeOK, Text, opening, writer, buffer, caller
<1>4. InReader' = InReader /\ pos' = pos /\ avail' = avail
  BY <1>1 DEF InReader, pos, avail, buffer, caller
<1>5. WriterInv' /\ BufferInv' /\ OneDescriptor'
  BY <1>1, <1>4 DEF IInv, WriterInv, BufferInv, OneDescriptor, Run, opening, writer, buffer, caller
<1>6. ~lost
  BY <1>1 DEF IInv, CallerInv
<1>7. CallerInv'
  BY <1>1, <1>4, <1>6 DEF IInv, CallerInv, opening, writer, caller
<1>8. Order'
  <2>1. Order /\ pos \in Int /\ avail \in Int /\ Len(wire) \in Int /\ bufp \in Int
    BY <1>0, <1>6 DEF IInv, Typed
  <2>2. (InReader => Run(usrbuf, given))' /\ Run(rio_buf, pos + 1 - rio_bufptr)'
    BY <1>1, <1>4, <2>1 DEF Order, Run, buffer, caller
  <2>3. Run(wire, pos + avail)
    BY <2>1 DEF Order
  <2>4. pos + avail \in Int
    BY <2>1
  <2>5. Run(wire', pos + avail)
    BY <1>1, <2>3, <2>4, NoRun
  <2>6. pos + avail + Len(wire) = bufp - 1 /\ bufp' = bufp
    BY <1>1, <2>1 DEF Order, writer
  <2>7. /\ pos' + avail' + Len(wire') <= bufp' - 1
        /\ peer' # "reset" => pos' + avail' + Len(wire') = bufp' - 1
    BY <1>1, <1>2, <1>4, <2>1, <2>6
  <2> QED BY <1>4, <2>2, <2>5, <2>7 DEF Order
<1> QED BY <1>3, <1>5, <1>7, <1>8 DEF IInv

-----------------------------------------------------------------------------
(* A call begins with empty hands ...                                      *)
LEMMA CallInv == IInv /\ Calling => IInv'
<1> SUFFICES ASSUME IInv, Calling PROVE IInv'
  OBVIOUS
<1>0. Typed
  BY Typing
<1>1. /\ UNCHANGED <<opening, newlines, writer, wire, peer, buffer, given, returned, lost, signals>>
      /\ call = "none"
      /\ limit' \in Limits /\ usrbuf' = <<>>
      /\ call' \in {"rio_readlineb", "rio_readnb"}
  BY DEF Calling, CallReadlineb, CallReadnb, Quiet
<1>2. limit' \in Nat /\ limit' > 0
  BY <1>1, Constants
<1>3. usrbuf' \in Seq(Text) /\ Len(usrbuf') = 0 /\ \A a \in Int : Run(usrbuf', a)
  BY <1>1, NoRun
<1>4. InReader' /\ pos' = pos /\ avail' = avail
  <2>1. pos = given + 0 /\ pos' = given + 0
    <3>1. ~InReader /\ InReader' /\ given' = given /\ Len(usrbuf') = 0
      BY <1>1, <1>3 DEF InReader
    <3> QED BY <3>1 DEF pos
  <2>2. given \in Int
    BY <1>0 DEF Typed
  <2> QED BY <1>1, <2>1, <2>2 DEF InReader, avail, buffer
<1>5. TypeOK'
  BY <1>1, <1>3 DEF IInv, TypeOK, Text, opening, writer, buffer
<1>6. WriterInv' /\ BufferInv' /\ OneDescriptor'
  BY <1>1, <1>4 DEF IInv, WriterInv, BufferInv, OneDescriptor, Run, opening, writer, buffer
<1>7. CallerInv'
  BY <1>1, <1>2, <1>3 DEF IInv, CallerInv, writer, buffer
<1>8. ASSUME ~lost' PROVE Order'
  <2>1. Order /\ given \in Int
    BY <1>0, <1>1, <1>8 DEF IInv, Typed
  <2>2. Run(usrbuf', given')
    BY <1>1, <1>3, <2>1
  <2>3. /\ Run(rio_buf, pos + 1 - rio_bufptr)' /\ Run(wire, pos + avail)'
        /\ (pos + avail + Len(wire) <= bufp - 1)'
        /\ (peer # "reset" => pos + avail + Len(wire) = bufp - 1)'
    BY <1>1, <1>4, <2>1 DEF Order, Run, writer, buffer
  <2> QED BY <2>2, <2>3 DEF Order
<1> QED BY <1>5, <1>6, <1>7, <1>8 DEF IInv

(* ... and gives what it has to its caller when it returns.                *)
LEMMA ReturnInv == IInv /\ (ReturnFull \/ ReadEnd) => IInv'
<1> SUFFICES ASSUME IInv, ReturnFull \/ ReadEnd PROVE IInv'
  OBVIOUS
<1>0. Typed
  BY Typing
<1>1. /\ UNCHANGED <<opening, newlines, writer, peer, wire, rio_buf, rio_bufptr, limit, usrbuf, lost, signals>>
      /\ InReader /\ call' = "none" /\ given' = given + Len(usrbuf)
      /\ rio_cnt' = rio_cnt \/ (rio_cnt <= 0 /\ rio_cnt' = 0)
  BY DEF ReturnFull, ReadEnd, Returns, Reading, Quiet, InReader, buffer
<1>2. /\ ~lost => Order
      /\ lost => usrbuf = <<>> /\ Len(usrbuf) = 0
  BY <1>1, NoRun DEF IInv, CallerInv
<1>3. avail' = avail /\ rio_cnt' \in -1 .. RIO_BUFSIZE
  <2>1. rio_cnt \in -1 .. RIO_BUFSIZE /\ RIO_BUFSIZE \in Nat
    BY <1>0 DEF Typed
  <2> QED BY <1>1, <2>1 DEF avail
<1>4. ~InReader' /\ pos' = pos
  <2>1. pos = given + Len(usrbuf) /\ pos' = given' + 0 /\ ~InReader'
    BY <1>1 DEF InReader, pos
  <2>2. given \in Int /\ Len(usrbuf) \in Int
    BY <1>0 DEF Typed
  <2> QED BY <1>1, <2>1, <2>2
<1>5. given' \in 0 .. TextLen
  <2>1. /\ given \in Nat /\ Len(usrbuf) \in Nat /\ avail \in Nat /\ Len(wire) \in Nat
        /\ bufp \in Int /\ bufp <= TextLen + 1 /\ TextLen \in Nat /\ given <= TextLen
    BY <1>0 DEF Typed
  <2>2. ASSUME ~lost
        PROVE  pos + avail + Len(wire) <= bufp - 1 /\ pos = given + Len(usrbuf)
    BY <1>1, <1>2, <2>2 DEF Order, InReader, pos
  <2> QED BY <1>1, <1>2, <2>1, <2>2
<1>6. TypeOK'
  BY <1>1, <1>3, <1>5 DEF IInv, TypeOK, opening, writer
<1>7. WriterInv' /\ OneDescriptor'
  BY <1>1 DEF IInv, WriterInv, OneDescriptor, InReader, Run, opening, writer
<1>8. BufferInv' /\ CallerInv'
  <2>1. lost => given' = given
    <3>1. given \in Int
      BY <1>0 DEF Typed
    <3> QED BY <1>1, <1>2, <3>1
  <2> QED BY <1>1, <1>2, <1>3, <1>4, <2>1 DEF IInv, BufferInv, CallerInv, InReader, writer
<1>9. ~lost' => Order'
  BY <1>1, <1>2, <1>3, <1>4 DEF Order, Run, writer
<1> QED BY <1>6, <1>7, <1>8, <1>9 DEF IInv

-----------------------------------------------------------------------------
(* rio_read() takes the first bytes of the wire into its empty buffer ...  *)
LEMMA RefillInv == IInv /\ Refill => IInv'
<1> SUFFICES ASSUME IInv, Refill PROVE IInv'
  OBVIOUS
<1>0. Typed
  BY Typing
<1>1. PICK n \in Nat :
        /\ 1 <= n /\ n <= RIO_BUFSIZE /\ n <= Len(wire)
        /\ rio_buf' = SubSeq(wire, 1, n)
        /\ wire' = SubSeq(wire, n + 1, Len(wire))
        /\ rio_cnt' = n
  BY <1>0, Constants DEF Refill, Least, Typed
<1>2. /\ UNCHANGED <<opening, newlines, writer, peer, caller, signals>>
      /\ rio_bufptr' = 1 /\ rio_cnt <= 0 /\ InReader
  BY DEF Refill, Quiet, Reading, InReader
<1>3. ~lost /\ ~lost' /\ Order
  <2>1. wire # <<>>
    BY DEF Refill
  <2> QED BY <1>2, <2>1 DEF IInv, CallerInv, caller
<1>4. /\ wire \in Seq(Text) /\ Len(wire) \in Nat /\ pos \in Nat /\ avail = 0
      /\ bufp \in Int /\ RIO_BUFSIZE \in Nat /\ Len(wire) <= WireSize
  BY <1>0, <1>2 DEF Typed, avail
<1>5. Run(wire, pos)
  <2>1. Run(wire, pos + avail) /\ pos + avail = pos
    BY <1>3, <1>4 DEF Order
  <2> QED BY <2>1
<1>6. rio_buf' \in Seq(Text) /\ Len(rio_buf') = n /\ Run(rio_buf', pos)
  <2>1. pos \in Int /\ n \in Int /\ 1 <= n + 1 /\ n - 1 + 1 = n /\ pos + 1 - 1 = pos
    BY <1>4
  <2>2. /\ SubSeq(wire, 1, n) \in Seq(Text) /\ Len(SubSeq(wire, 1, n)) = n - 1 + 1
        /\ Run(SubSeq(wire, 1, n), pos + 1 - 1)
    BY <1>1, <1>4, <1>5, <2>1, RunsPart
  <2> QED BY <1>1, <2>1, <2>2
<1>7. wire' \in Seq(Text) /\ Len(wire') = Len(wire) - n /\ Run(wire', pos + n)
  <2> DEFINE m == n + 1
  <2>1. /\ pos \in Int /\ m \in Int /\ 1 <= m /\ m <= Len(wire) + 1
        /\ Len(wire) - m + 1 = Len(wire) - n /\ pos + m - 1 = pos + n
    BY <1>1, <1>4
  <2>2. wire' = SubSeq(wire, m, Len(wire))
    BY <1>1
  <2> HIDE DEF m
  <2>3. /\ SubSeq(wire, m, Len(wire)) \in Seq(Text)
        /\ Len(SubSeq(wire, m, Len(wire))) = Len(wire) - m + 1
        /\ Run(SubSeq(wire, m, Len(wire)), pos + m - 1)
    BY <1>4, <1>5, <2>1, RunsPart
  <2> QED BY <2>1, <2>2, <2>3
<1>8. InReader' /\ pos' = pos /\ avail' = n
  BY <1>1, <1>2 DEF InReader, pos, avail, caller
<1>9. TypeOK'
  <2>1. rio_cnt' \in -1 .. RIO_BUFSIZE /\ rio_bufptr' \in 1 .. (RIO_BUFSIZE + 1)
    BY <1>1, <1>2, <1>4
  <2>2. Len(wire') <= WireSize
    BY <1>1, <1>4, <1>7, Constants
  <2> QED BY <1>2, <1>6, <1>7, <2>1, <2>2 DEF IInv, TypeOK, Text, opening, writer, caller
<1>10. WriterInv' /\ OneDescriptor' /\ CallerInv'
  <2>1. peer # "reset"
    BY DEF IInv, CallerInv, Refill
  <2> QED BY <1>2, <1>3, <2>1 DEF IInv, WriterInv, OneDescriptor, CallerInv, Run, InReader, opening, writer, caller
<1>11. BufferInv'
  BY <1>1, <1>2, <1>6, <1>8 DEF BufferInv
<1>12. Order'
  <2>1. Run(usrbuf, given)'
    BY <1>2, <1>3 DEF Order, Run, caller
  <2>2. pos' + 1 - rio_bufptr' = pos /\ pos' + avail' = pos + n
    BY <1>2, <1>4, <1>8
  <2>3. Run(rio_buf, pos + 1 - rio_bufptr)' /\ Run(wire, pos + avail)'
    BY <1>6, <1>7, <2>2
  <2>4. pos' + avail' + Len(wire') = pos + avail + Len(wire) /\ bufp' = bufp /\ peer' = peer
    BY <1>2, <1>4, <1>7, <1>8 DEF writer
  <2> QED BY <1>3, <2>1, <2>3, <2>4 DEF Order
<1> QED BY <1>3, <1>9, <1>10, <1>11, <1>12 DEF IInv

(* ... or is interrupted, or fails ...                                     *)
LEMMA NoBytesInv == IInv /\ (ReadInterrupted \/ ReadFails) => IInv'
<1> SUFFICES ASSUME IInv, ReadInterrupted \/ ReadFails PROVE IInv'
  OBVIOUS
<1>0. Typed
  BY Typing
<1>1. /\ UNCHANGED <<opening, newlines, writer, peer, wire, rio_buf, rio_bufptr, limit, usrbuf, given>>
      /\ InReader /\ rio_cnt <= 0 /\ rio_cnt' = -1
      /\ signals' \in 0 .. MaxSignals
      /\ \/ call' = call /\ lost' = lost
         \/ call' = "none" /\ lost' = TRUE /\ peer = "reset"
  <2>1. signals \in 0 .. MaxSignals
    BY DEF IInv, TypeOK
  <2> QED BY <2>1, Constants DEF ReadInterrupted, ReadFails, Reading, InReader, Quiet, caller
<1>2. avail = 0 /\ avail' = 0
  BY <1>0, <1>1 DEF Typed, avail
<1>3. rio_cnt' \in -1 .. RIO_BUFSIZE
  BY <1>1, Constants
<1>4. TypeOK'
  BY <1>1, <1>3 DEF IInv, TypeOK, opening, writer
<1>5. WriterInv' /\ OneDescriptor' /\ BufferInv'
  BY <1>1, <1>2 DEF IInv, WriterInv, OneDescriptor, BufferInv, InReader, Run, opening, writer
<1>6. CallerInv'
  <2>1. given <= bufp - 1
    <3>1. CASE lost
      BY <3>1 DEF IInv, CallerInv
    <3>2. CASE ~lost
      <4>1. pos + avail + Len(wire) <= bufp - 1
        BY <3>2 DEF IInv, Order
      <4>2. /\ given \in Nat /\ pos \in Nat /\ avail \in Nat /\ Len(wire) \in Nat /\ bufp \in Int
            /\ Len(usrbuf) \in Nat
        BY <1>0 DEF Typed
      <4>3. given <= pos
        BY <4>2 DEF pos
      <4> QED BY <4>1, <4>2, <4>3
    <3> QED BY <3>1, <3>2
  <2> QED BY <1>1, <2>1 DEF IInv, CallerInv, InReader, opening, writer
<1>7. ~lost' => Order'
  <2> SUFFICES ASSUME ~lost' PROVE Order'
    OBVIOUS
  <2>1. call' = call /\ ~lost /\ Order
    BY <1>1 DEF IInv
  <2> QED BY <1>1, <1>2, <2>1 DEF Order, Run, pos, InReader, writer
<1> QED BY <1>4, <1>5, <1>6, <1>7 DEF IInv

(* ... and hands on what is in the buffer: the piece that comes next, no   *)
(* longer than what the caller has room for.                               *)
LEMMA CopyMoves ==
  IInv /\ Copy =>
    \E n \in Nat, piece \in Seq(Text) :
      /\ 1 <= n /\ n <= rio_cnt /\ Len(piece) = n
      /\ call = "rio_readlineb" => n = 1 /\ limit - Len(usrbuf) - 1 > 0
      /\ call = "rio_readnb" => Len(usrbuf) + n <= limit
      /\ usrbuf' = usrbuf \o piece
      /\ rio_bufptr' = rio_bufptr + n /\ rio_cnt' = rio_cnt - n
      /\ ~lost => Run(piece, pos)
<1> SUFFICES ASSUME IInv, Copy
             PROVE  \E n \in Nat, piece \in Seq(Text) :
                      /\ 1 <= n /\ n <= rio_cnt /\ Len(piece) = n
                      /\ call = "rio_readlineb" => n = 1 /\ limit - Len(usrbuf) - 1 > 0
                      /\ call = "rio_readnb" => Len(usrbuf) + n <= limit
                      /\ usrbuf' = usrbuf \o piece
                      /\ rio_bufptr' = rio_bufptr + n /\ rio_cnt' = rio_cnt - n
                      /\ ~lost => Run(piece, pos)
  OBVIOUS
<1>0. Typed
  BY Typing
<1> DEFINE n == Copied
           last == rio_bufptr + n - 1
           piece == SubSeq(rio_buf, rio_bufptr, last)
           a == pos + 1 - rio_bufptr
<1>1. /\ InReader /\ rio_cnt > 0 /\ room > 0
      /\ usrbuf' = usrbuf \o piece
      /\ rio_bufptr' = rio_bufptr + n /\ rio_cnt' = rio_cnt - n
  BY DEF Copy, Reading, InReader
<1>2. /\ rio_buf \in Seq(Text) /\ Len(usrbuf) \in Nat /\ Len(rio_buf) \in Nat
      /\ rio_cnt \in Nat /\ rio_bufptr \in Int /\ 1 <= rio_bufptr
      /\ pos \in Int /\ limit \in Nat /\ avail = rio_cnt
  BY <1>0, <1>1 DEF Typed, avail
<1>3. /\ n \in Nat /\ 1 <= n /\ n <= rio_cnt
      /\ call = "rio_readlineb" => n = 1 /\ limit - Len(usrbuf) - 1 > 0
      /\ call = "rio_readnb" => Len(usrbuf) + n <= limit
  <2>1. CASE call = "rio_readlineb"
    <3>1. n = 1 /\ limit - Len(usrbuf) - 1 > 0
      BY <1>1, <2>1 DEF Copied, room
    <3> QED BY <1>1, <1>2, <2>1, <3>1
  <2>2. CASE call = "rio_readnb"
    <3>1. n = Least(room, rio_cnt) /\ room = limit - Len(usrbuf) - 0
      BY <2>2 DEF Copied, room
    <3>2. room \in Int /\ room = limit - Len(usrbuf)
      BY <1>2, <3>1
    <3> HIDE DEF n
    <3> QED BY <1>1, <1>2, <2>2, <3>1, <3>2 DEF Least
  <2> QED BY <1>1, <2>1, <2>2 DEF InReader
<1> HIDE DEF n
<1>4. /\ last \in Int /\ rio_bufptr <= last /\ last <= Len(rio_buf)
      /\ last - rio_bufptr + 1 = n
  <2>1. rio_bufptr + rio_cnt = Len(rio_buf) + 1
    BY <1>2 DEF IInv, BufferInv
  <2> QED BY <1>2, <1>3, <2>1
<1>5. a \in Int /\ a + rio_bufptr - 1 = pos
  BY <1>2
<1>6. ~lost => Run(rio_buf, a)
  BY DEF IInv, Order
<1> HIDE DEF last, a
<1>7. piece \in Seq(Text) /\ Len(piece) = n
  BY <1>2, <1>4, Pieces
<1>8. ~lost => Run(piece, a + rio_bufptr - 1)
  BY <1>2, <1>4, <1>5, <1>6, RunsPart
<1>9. ~lost => Run(piece, pos)
  BY <1>5, <1>8
<1> HIDE DEF piece
<1> QED BY <1>1, <1>3, <1>7, <1>9

(* The call's bytes grow by the piece, and the buffer shrinks by it.       *)
LEMMA CopyInv == IInv /\ Copy => IInv'
<1> SUFFICES ASSUME IInv, Copy PROVE IInv'
  OBVIOUS
<1>0. Typed
  BY Typing
<1>1. /\ UNCHANGED <<opening, newlines, writer, peer, wire, rio_buf, call, limit, given, returned, lost, signals>>
      /\ InReader /\ rio_cnt > 0
  BY DEF Copy, Quiet, Reading, InReader
<1>2. PICK n \in Nat, piece \in Seq(Text) :
        /\ 1 <= n /\ n <= rio_cnt /\ Len(piece) = n
        /\ call = "rio_readlineb" => n = 1 /\ limit - Len(usrbuf) - 1 > 0
        /\ usrbuf' = usrbuf \o piece
        /\ rio_bufptr' = rio_bufptr + n /\ rio_cnt' = rio_cnt - n
        /\ ~lost => Run(piece, pos)
  BY CopyMoves
<1>3. ~lost /\ ~lost' /\ Order
  <2>1. rio_cnt > 0 /\ rio_cnt \in Int
    BY <1>0, <1>1 DEF Typed
  <2> QED BY <1>1, <2>1 DEF IInv, CallerInv
<1>4. /\ usrbuf \in Seq(Text) /\ Len(usrbuf) \in Nat /\ Len(rio_buf) \in Nat /\ Len(wire) \in Nat
      /\ rio_cnt \in Nat /\ rio_cnt <= RIO_BUFSIZE /\ RIO_BUFSIZE \in Nat
      /\ rio_bufptr \in Nat /\ 1 <= rio_bufptr
      /\ given \in Int /\ limit \in Nat /\ bufp \in Int /\ avail = rio_cnt
  BY <1>0, <1>1 DEF Typed, avail
<1>5. rio_bufptr + rio_cnt = Len(rio_buf) + 1 /\ Len(rio_buf) <= RIO_BUFSIZE
  BY <1>4 DEF IInv, BufferInv
<1>6. pos = given + Len(usrbuf) /\ Run(usrbuf, given)
  BY <1>1, <1>3 DEF Order, pos
<1>7. usrbuf' \in Seq(Text) /\ Len(usrbuf') = Len(usrbuf) + n /\ Run(usrbuf', given)
  <2>1. Run(piece, given + Len(usrbuf))
    BY <1>2, <1>3, <1>6
  <2>2. /\ usrbuf \o piece \in Seq(Text) /\ Len(usrbuf \o piece) = Len(usrbuf) + Len(piece)
        /\ Run(usrbuf \o piece, given)
    BY <1>4, <1>6, <2>1, RunsJoin
  <2> QED BY <1>2, <2>2
<1>8. InReader' /\ pos' = pos + n /\ avail' = avail - n
  <2>1. InReader' /\ pos' = given + (Len(usrbuf) + n)
    BY <1>1, <1>7 DEF InReader, pos
  <2>2. avail' = rio_cnt - n
    BY <1>1, <1>2, <1>4 DEF avail
  <2> QED BY <1>4, <1>6, <2>1, <2>2
<1>9. TypeOK'
  <2>1. rio_cnt' \in -1 .. RIO_BUFSIZE /\ rio_bufptr' \in 1 .. (RIO_BUFSIZE + 1)
    BY <1>2, <1>4, <1>5
  <2> QED BY <1>1, <1>7, <2>1 DEF IInv, TypeOK, Text, opening, writer
<1>10. WriterInv' /\ OneDescriptor'
  BY <1>1 DEF IInv, WriterInv, OneDescriptor, Run, opening, writer
<1>11. BufferInv'
  <2>1. rio_bufptr' = rio_bufptr + n /\ avail' = rio_cnt - n
    BY <1>2, <1>4, <1>8
  <2>2. rio_bufptr' + avail' = Len(rio_buf) + 1
    BY <1>4, <1>5, <2>1
  <2> QED BY <1>1, <1>5, <2>2 DEF BufferInv
<1>12. CallerInv'
  <2>1. call = "rio_readlineb" => Len(usrbuf') < limit
    BY <1>2, <1>4, <1>7
  <2> QED BY <1>1, <1>3, <2>1 DEF IInv, CallerInv, opening
<1>13. Order'
  <2>1. Run(usrbuf, given)'
    BY <1>1, <1>7
  <2>2. pos \in Int
    BY <1>4, <1>6
  <2>3. pos' + 1 - rio_bufptr' = pos + 1 - rio_bufptr /\ pos' + avail' = pos + avail
    BY <1>2, <1>4, <1>8, <2>2
  <2>4. Run(rio_buf, pos + 1 - rio_bufptr)' /\ Run(wire, pos + avail)'
    BY <1>1, <1>3, <2>3 DEF Order
  <2>5. pos' + avail' + Len(wire') = pos + avail + Len(wire) /\ bufp' = bufp
    BY <1>1, <2>3 DEF writer
  <2> QED BY <1>1, <1>3, <2>1, <2>4, <2>5 DEF Order
<1> QED BY <1>3, <1>9, <1>10, <1>11, <1>12, <1>13 DEF IInv

-----------------------------------------------------------------------------
(* Every step keeps the invariant.                                         *)
LEMMA StepInv == IInv /\ [Next]_vars => IInv'
<1> SUFFICES ASSUME IInv, [Next]_vars PROVE IInv'
  OBVIOUS
<1>1. CASE Opening
  BY <1>1, OpenInv
<1>2. CASE Writing
  BY <1>2, CallWritenInv, WriteInv, WriteFailsInv, PeerInv DEF Writing
<1>3. CASE PeerCloses \/ PeerResets
  BY <1>3, PeerInv
<1>4. CASE Calling
  BY <1>4, CallInv
<1>5. CASE InCall
  BY <1>5, ReturnInv, RefillInv, NoBytesInv, CopyInv DEF InCall
<1>6. CASE UNCHANGED vars
  <2>1. UNCHANGED <<opening, newlines, writer, wire, peer, buffer, caller, signals>>
    BY <1>6 DEF vars
  <2>2. InReader' = InReader /\ pos' = pos /\ avail' = avail
    BY <2>1 DEF InReader, pos, avail, buffer, caller
  <2>3. TypeOK'
    BY <2>1 DEF IInv, TypeOK, opening, writer, buffer, caller
  <2>4. WriterInv' /\ BufferInv' /\ CallerInv' /\ OneDescriptor'
    BY <2>1, <2>2 DEF IInv, WriterInv, BufferInv, CallerInv, OneDescriptor, Run, opening, writer, buffer, caller
  <2>5. ~lost' => Order'
    BY <2>1, <2>2 DEF IInv, Order, Run, writer, buffer, caller
  <2> QED BY <2>3, <2>4, <2>5 DEF IInv
<1> QED BY <1>1, <1>2, <1>3, <1>4, <1>5, <1>6 DEF Next

(* It holds in every behaviour.                                            *)
LEMMA Inductive == Spec => []IInv
BY InitInv, StepInv, PTL DEF Spec

-----------------------------------------------------------------------------
(* Hands, buffer and wire together are the text from the first byte that   *)
(* was not returned to a caller.                                           *)
LEMMA OrderIsEnough == IInv => NoByteLost
<1> SUFFICES ASSUME IInv PROVE NoByteLost
  OBVIOUS
<1>0. Typed
  BY Typing
<1> DEFINE held == IF InReader THEN usrbuf ELSE <<>>
           front == held \o Unread
           behind == front \o wire
<1>1. /\ usrbuf \in Seq(Text) /\ rio_buf \in Seq(Text) /\ wire \in Seq(Text)
      /\ Len(usrbuf) \in Nat /\ Len(rio_buf) \in Nat /\ Len(wire) \in Nat
      /\ rio_cnt \in Int /\ rio_cnt >= -1 /\ rio_bufptr \in Nat /\ 1 <= rio_bufptr
      /\ given \in Nat /\ pos \in Nat /\ avail \in Nat /\ bufp \in Int
  BY <1>0 DEF Typed
<1>2. held \in Seq(Text) /\ Len(held) \in Nat /\ pos = given + Len(held)
  BY <1>1, NoRun DEF pos
<1>3. /\ Unread \in Seq(Text) /\ Len(Unread) = avail
      /\ ~lost => Run(Unread, pos)
  <2> DEFINE a == pos + 1 - rio_bufptr
             last == rio_bufptr + rio_cnt - 1
  <2>1. rio_bufptr + avail = Len(rio_buf) + 1
    BY DEF IInv, BufferInv
  <2>2. a \in Int /\ last \in Int /\ last <= Len(rio_buf) /\ a + rio_bufptr - 1 = pos
    BY <1>1, <2>1 DEF avail
  <2>3. (IF rio_bufptr <= last THEN last - rio_bufptr + 1 ELSE 0) = avail
    BY <1>1 DEF avail
  <2>4. Unread = SubSeq(rio_buf, rio_bufptr, last)
    BY DEF Unread
  <2>5. ~lost => Run(rio_buf, a)
    BY DEF IInv, Order
  <2>6. rio_buf \in Seq(Text) /\ rio_bufptr \in Int /\ 1 <= rio_bufptr
    BY <1>1
  <2> HIDE DEF a, last
  <2>7. /\ SubSeq(rio_buf, rio_bufptr, last) \in Seq(Text)
        /\ Len(SubSeq(rio_buf, rio_bufptr, last)) = IF rio_bufptr <= last THEN last - rio_bufptr + 1 ELSE 0
    BY <2>2, <2>6, Pieces
  <2>8. ASSUME ~lost PROVE Run(SubSeq(rio_buf, rio_bufptr, last), a + rio_bufptr - 1)
    BY <2>2, <2>5, <2>6, <2>8, RunsPart
  <2> QED BY <2>2, <2>3, <2>4, <2>7, <2>8
<1>4. front \in Seq(Text) /\ Len(front) = Len(held) + avail
  <2> HIDE DEF held
  <2> QED BY <1>2, <1>3, ConcatProperties
<1>5. behind \in Seq(Text) /\ Len(behind) = Len(held) + avail + Len(wire)
  <2> HIDE DEF held, front
  <2> QED BY <1>1, <1>4, ConcatProperties
<1>6. ASSUME ~lost PROVE Run(behind, given)
  <2>1. Order
    BY <1>6 DEF IInv
  <2>2. Run(held, given)
    BY <1>1, <2>1, NoRun DEF Order
  <2> HIDE DEF held
  <2>3. given \in Int /\ given + Len(held) = pos
    BY <1>1, <1>2
  <2>4. Run(Unread, given + Len(held))
    BY <1>3, <1>6, <2>3
  <2>5. Run(front, given)
    BY <1>2, <1>3, <2>2, <2>3, <2>4, RunsJoin
  <2>6. given + Len(front) = pos + avail
    BY <1>1, <1>2, <1>4, <2>3
  <2>7. Run(wire, given + Len(front))
    BY <2>1, <2>6 DEF Order
  <2>8. front \in Seq(Text) /\ wire \in Seq(Text)
    BY <1>1, <1>4
  <2> HIDE DEF front
  <2> QED BY <2>3, <2>5, <2>7, <2>8, RunsJoin
<1>7. peer # "reset" => given + Len(behind) = bufp - 1
  <2> SUFFICES ASSUME peer # "reset" PROVE given + Len(behind) = bufp - 1
    OBVIOUS
  <2>1. pos + avail + Len(wire) = bufp - 1
    BY DEF IInv, CallerInv, Order
  <2> HIDE DEF held, behind
  <2> QED BY <1>1, <1>2, <1>5, <2>1
<1>8. ~lost => \A k \in DOMAIN behind : behind[k] = given + k
  <2> HIDE DEF behind
  <2>1. DOMAIN behind = 1 .. Len(behind)
    BY <1>5, LenProperties
  <2> QED BY <1>6, <2>1 DEF Run
<1>9. TypeOK /\ (call = "rio_readlineb" => Len(usrbuf) < limit)
  BY DEF IInv, CallerInv
<1> QED BY <1>7, <1>8, <1>9 DEF NoByteLost, InReader

(* No byte is lost, repeated or exchanged between rio_writen() and the     *)
(* callers, whatever the sizes of the buffer, the wire, the text and the   *)
(* requests.                                                               *)
THEOREM NoByteIsLost == Spec => []NoByteLost
BY Inductive, OrderIsEnough, PTL

(* open_clientfd() never leaves a second descriptor behind a connection.   *)
THEOREM OneDescriptorOpen == Spec => []OneDescriptor
<1>1. IInv => OneDescriptor
  BY DEF IInv
<1> QED BY <1>1, Inductive, PTL

-----------------------------------------------------------------------------
(* A call stays within its argument, and a line within its newline.        *)
LineInv ==
  /\ InReader => limit \in Limits
  /\ call = "rio_readlineb" => \A k \in 1 .. (Len(usrbuf) - 1) : usrbuf[k] \notin newlines
  /\ call = "rio_readnb" => Len(usrbuf) <= limit

(* Copying adds one byte to a line that has not ended, and to other calls  *)
(* no more than there is room for.                                         *)
LEMMA LineStep == IInv /\ LineInv /\ [Next]_vars => LineInv'
<1> SUFFICES ASSUME IInv, LineInv, [Next]_vars PROVE LineInv'
  OBVIOUS
<1>0. Typed
  BY Typing
<1>1. CASE Calling
  <2>1. /\ limit' \in Limits /\ limit' \in Nat /\ usrbuf' = <<>> /\ Len(usrbuf') = 0
    BY <1>1, Constants, NoRun DEF Calling, CallReadlineb, CallReadnb
  <2> QED BY <2>1 DEF LineInv
<1>2. CASE Copy
  <2>1. UNCHANGED <<newlines, call, limit>>
    BY <1>2 DEF Copy, Quiet
  <2>2. PICK n \in Nat, piece \in Seq(Text) :
          /\ 1 <= n /\ Len(piece) = n
          /\ call = "rio_readlineb" => n = 1
          /\ call = "rio_readnb" => Len(usrbuf) + n <= limit
          /\ usrbuf' = usrbuf \o piece
    BY <1>2, CopyMoves
  <2>3. usrbuf \in Seq(Text) /\ Len(usrbuf) \in Nat
    BY <1>0 DEF Typed
  <2>4. /\ Len(usrbuf') = Len(usrbuf) + n
        /\ \A k \in 1 .. Len(usrbuf) : usrbuf'[k] = usrbuf[k]
    <3>1. /\ Len(usrbuf \o piece) = Len(usrbuf) + Len(piece)
          /\ \A k \in 1 .. (Len(usrbuf) + Len(piece)) :
               (usrbuf \o piece)[k] = IF k <= Len(usrbuf) THEN usrbuf[k] ELSE piece[k - Len(usrbuf)]
      BY <2>3, ConcatProperties
    <3>2. \A k \in 1 .. Len(usrbuf) : k \in 1 .. (Len(usrbuf) + n) /\ k <= Len(usrbuf)
      BY <2>2, <2>3
    <3> QED BY <2>2, <3>1, <3>2
  <2>5. ASSUME call = "rio_readlineb", NEW k \in 1 .. (Len(usrbuf') - 1)
        PROVE  usrbuf'[k] \notin newlines
    <3>1. k \in 1 .. Len(usrbuf)
      BY <2>2, <2>3, <2>4, <2>5
    <3>2. usrbuf'[k] = usrbuf[k]
      BY <2>4, <3>1
    <3>3. CASE k = Len(usrbuf)
      <4>1. usrbuf # <<>>
        BY <2>3, <3>1, NoRun
      <4> QED BY <1>2, <2>5, <3>2, <3>3, <4>1 DEF Copy, Reading, endOfLine
    <3>4. CASE k # Len(usrbuf)
      <4>1. k \in 1 .. (Len(usrbuf) - 1)
        BY <2>3, <3>1, <3>4
      <4> QED BY <2>5, <3>2, <4>1 DEF LineInv
    <3> QED BY <3>3, <3>4
  <2> QED BY <2>1, <2>2, <2>4, <2>5 DEF LineInv, InReader
<1>3. CASE call' \notin {"rio_readlineb", "rio_readnb"}
  BY <1>3 DEF LineInv, InReader
<1>4. CASE UNCHANGED <<newlines, call, limit, usrbuf>>
  BY <1>4 DEF LineInv, InReader
<1>5. \/ Calling \/ Copy
      \/ call' \notin {"rio_readlineb", "rio_readnb"}
      \/ UNCHANGED <<newlines, call, limit, usrbuf>>
  <2>1. CASE Opening
    BY <2>1 DEF Opening, SocketFails, Connects, ConnectFails, NoAddress, Unopened
  <2>2. CASE Writing \/ PeerCloses \/ PeerResets
    BY <2>2 DEF Writing, CallWriten, Write, WriteInterrupted, WriteFails, PeerCloses, PeerResets, Passive, caller
  <2>3. CASE InCall
    BY <2>3 DEF InCall, ReturnFull, Refill, ReadInterrupted, ReadEnd, ReadFails, Returns, Quiet, caller
  <2>4. CASE UNCHANGED vars
    BY <2>4 DEF vars, caller
  <2> QED BY <2>1, <2>2, <2>3, <2>4 DEF Next
<1> QED BY <1>1, <1>2, <1>3, <1>4, <1>5

(* Both invariants hold in every behaviour.                                *)
LEMMA Lined == Spec => [](IInv /\ LineInv)
<1>1. Init => LineInv
  BY DEF Init, LineInv, InReader
<1> QED BY <1>1, InitInv, StepInv, LineStep, PTL DEF Spec

-----------------------------------------------------------------------------
(* What the abstract specification calls the text.                         *)
Written == SubSeq(wbuf, 1, bufp - 1)

(* Two runs from one place with one length are the same.                   *)
LEMMA RunsEqual ==
  ASSUME NEW s \in Seq(Text), NEW t \in Seq(Text), NEW a \in Int,
         Run(s, a), Run(t, a), Len(s) = Len(t)
  PROVE  s = t
<1>1. \A k \in 1 .. Len(s) : s[k] = t[k]
  BY DEF Run
<1> QED BY <1>1, SeqEqual

(* It is made of positions, as the abstract specification has it.          *)
WrittenInv ==
  /\ Written \in Seq(Text) /\ Len(Written) = bufp - 1 /\ Run(Written, 0)
  /\ Written = [k \in 1 .. Len(Written) |-> k]

LEMMA WrittenIs == IInv => WrittenInv
<1> SUFFICES ASSUME IInv PROVE WrittenInv
  OBVIOUS
<1>0. Typed
  BY Typing
<1>1. /\ wbuf \in Seq(Text) /\ Len(wbuf) \in Nat /\ bufp \in Int /\ nleft \in Nat /\ 1 <= bufp
      /\ bufp + nleft - 1 = Len(wbuf) /\ Run(wbuf, 0)
  BY <1>0 DEF Typed, IInv, WriterInv
<1> DEFINE n == bufp - 1
<1>2. n \in Nat /\ n <= Len(wbuf) /\ 1 <= n + 1
  BY <1>1
<1>3. Written = SubSeq(wbuf, 1, n)
  BY DEF Written
<1>4. Written \in Seq(Text) /\ Len(Written) = n /\ Run(Written, 0)
  <2> HIDE DEF n
  <2>1. SubSeq(wbuf, 1, n) \in Seq(Text) /\ Len(SubSeq(wbuf, 1, n)) = IF 1 <= n THEN n - 1 + 1 ELSE 0
    BY <1>1, <1>2, Pieces
  <2>2. Run(SubSeq(wbuf, 1, n), 0 + 1 - 1)
    BY <1>1, <1>2, RunsPart
  <2> QED BY <1>2, <1>3, <2>1, <2>2
<1>5. Written = [k \in 1 .. Len(Written) |-> k]
  <2>1. Written \in [1 .. Len(Written) -> Text]
    BY <1>4, LenProperties
  <2>2. \A k \in 1 .. Len(Written) : Written[k] = k
    BY <1>4 DEF Run
  <2> QED BY <2>1, <2>2
<1> QED BY <1>4, <1>5 DEF WrittenInv

-----------------------------------------------------------------------------
(* A call that returns gives its caller what the text says.                *)
LEMMA Returning ==
  ASSUME NEW count, count = Len(usrbuf)
  PROVE  IInv /\ LineInv /\ (ReturnFull \/ ReadEnd) =>
           /\ count \in Nat /\ given \in Nat /\ given + count <= Len(Written)
           /\ \A k \in 1 .. count : Written[given + k] = usrbuf[k]
           /\ SubSeq(Written, given + 1, given + count) = usrbuf
           /\ lost => count = 0
           /\ ReadEnd => lost \/ given + count = Len(Written)
<1> SUFFICES ASSUME IInv, LineInv, ReturnFull \/ ReadEnd
             PROVE  /\ count \in Nat /\ given \in Nat /\ given + count <= Len(Written)
                    /\ \A k \in 1 .. count : Written[given + k] = usrbuf[k]
                    /\ SubSeq(Written, given + 1, given + count) = usrbuf
                    /\ lost => count = 0
                    /\ ReadEnd => lost \/ given + count = Len(Written)
  OBVIOUS
<1>0. Typed
  BY Typing
<1>1. InReader
  BY DEF ReturnFull, ReadEnd, Reading, InReader
<1>2. /\ ~lost => Order
      /\ lost => usrbuf = <<>> /\ count = 0 /\ given <= bufp - 1
  BY <1>1, NoRun DEF IInv, CallerInv
<1>3. /\ usrbuf \in Seq(Text) /\ count \in Nat /\ given \in Nat
      /\ pos = given + count /\ avail \in Nat /\ Len(wire) \in Nat /\ bufp \in Int
  BY <1>0, <1>1 DEF Typed, pos
<1>4. Written \in Seq(Text) /\ Len(Written) = bufp - 1 /\ Run(Written, 0)
  BY WrittenIs DEF WrittenInv
<1>5. given + count <= Len(Written)
  <2>1. ~lost => pos + avail + Len(wire) <= bufp - 1
    BY <1>2 DEF Order
  <2> QED BY <1>2, <1>3, <1>4, <2>1
<1>6. Run(usrbuf, given)
  <2>1. given \in Int
    BY <1>3
  <2> QED BY <1>1, <1>2, <2>1, NoRun DEF Order
<1>7. ASSUME NEW k \in 1 .. count PROVE Written[given + k] = usrbuf[k]
  <2>1. given + k \in 1 .. Len(Written) /\ given + k = 0 + (given + k)
    BY <1>3, <1>4, <1>5
  <2>2. Written[given + k] = given + k
    BY <1>4, <2>1 DEF Run
  <2> QED BY <1>6, <2>2 DEF Run
<1>8. SubSeq(Written, given + 1, given + count) = usrbuf
  <2> DEFINE m == given + 1
             n == given + count
             part == SubSeq(Written, m, n)
  <2>1. /\ m \in Int /\ n \in Int /\ 1 <= m /\ n <= Len(Written)
        /\ 0 + m - 1 = given /\ (IF m <= n THEN n - m + 1 ELSE 0) = count
    BY <1>3, <1>5
  <2> HIDE DEF m, n
  <2>2. part \in Seq(Text) /\ Len(part) = count
    BY <1>4, <2>1, Pieces
  <2>3. Run(part, 0 + m - 1)
    BY <1>4, <2>1, RunsPart
  <2>4. part = usrbuf
    <3>1. given \in Int /\ Run(part, given)
      BY <1>3, <2>1, <2>3
    <3> HIDE DEF part
    <3> QED BY <1>3, <1>6, <2>2, <3>1, RunsEqual
  <2> QED BY <2>4 DEF m, n
<1>9. ReadEnd => lost \/ given + count = Len(Written)
  <2> SUFFICES ASSUME ReadEnd, ~lost PROVE given + count = Len(Written)
    OBVIOUS
  <2>1. rio_cnt <= 0 /\ Len(wire) = 0 /\ peer = "closed"
    BY NoRun DEF ReadEnd, AtEnd
  <2>2. avail = 0
    BY <1>0, <2>1 DEF Typed, avail
  <2>3. pos + avail + Len(wire) = bufp - 1
    BY <1>2, <2>1 DEF Order
  <2> QED BY <1>3, <1>4, <2>1, <2>2, <2>3
<1> QED BY <1>2, <1>3, <1>5, <1>7, <1>8, <1>9

(* Full hands, a newline and the end of the stream are the reasons for     *)
(* which the abstract calls return, too.                                   *)
LEMMA ReturnRefines == IInv /\ LineInv /\ (ReturnFull \/ ReadEnd) => Lines!Next
<1> SUFFICES ASSUME IInv, LineInv, ReturnFull \/ ReadEnd PROVE Lines!Next
  OBVIOUS
<1>0. Typed
  BY Typing
<1> DEFINE count == Len(usrbuf)
<1>1. /\ count \in Nat /\ given \in Nat /\ given + count <= Len(Written)
      /\ \A k \in 1 .. count : Written[given + k] = usrbuf[k]
      /\ SubSeq(Written, given + 1, given + count) = usrbuf
      /\ lost => count = 0
      /\ ReadEnd => lost \/ given + count = Len(Written)
  BY Returning
<1>2. /\ InReader /\ given' = given + count
      /\ returned' = <<call, limit, usrbuf>>
      /\ UNCHANGED <<wbuf, bufp, newlines, peer, lost>>
      /\ ReadEnd => peer # "open"
      /\ ReturnFull => ~Reading
  BY DEF ReturnFull, ReadEnd, AtEnd, Reading, InReader, Returns, Quiet, writer, IInv, CallerInv
<1>3. limit \in Limits /\ limit \in Nat
  BY <1>0, <1>2 DEF LineInv, Typed
<1>4. Lines!Give(call, limit, count)
  BY <1>1, <1>2 DEF Lines!Give, Written
<1>5. CASE call = "rio_readlineb"
  <2>1. count \in 0 .. (limit - 1)
    BY <1>1, <1>3, <1>5 DEF IInv, CallerInv
  <2>2. \A k \in 1 .. (count - 1) : ~Lines!NewlineAt(k)
    <3>1. ASSUME NEW k \in 1 .. (count - 1) PROVE Written[given + k] \notin newlines
      <4>1. k \in 1 .. count
        BY <1>1
      <4>2. usrbuf[k] \notin newlines
        BY <1>5 DEF LineInv
      <4> QED BY <1>1, <4>1, <4>2
    <3> QED BY <3>1 DEF Lines!NewlineAt, Written
  <2>3. \/ count = limit - 1
        \/ count > 0 /\ Lines!NewlineAt(count)
        \/ Lines!Exhausted(count)
    <3>1. CASE ReadEnd
      BY <1>1, <1>2, <3>1 DEF Lines!Exhausted, Written
    <3>2. CASE ReturnFull
      <4>1. ~(limit - count - 1 > 0) \/ (usrbuf # <<>> /\ usrbuf[count] \in newlines)
        BY <1>2, <1>5, <3>2 DEF Reading, room, endOfLine
      <4>2. CASE ~(limit - count - 1 > 0)
        BY <1>1, <1>3, <2>1, <4>2
      <4>3. CASE usrbuf # <<>> /\ usrbuf[count] \in newlines
        <5>1. count # 0
          BY <1>0, <4>3, EmptySeq DEF Typed
        <5>2. count > 0 /\ count \in 1 .. count
          BY <1>1, <5>1
        <5>3. Written[given + count] \in newlines
          BY <1>1, <4>3, <5>2
        <5> QED BY <1>1, <5>2, <5>3 DEF Lines!NewlineAt, Written
      <4> QED BY <4>1, <4>2, <4>3
    <3> QED BY <3>1, <3>2
  <2>4. Lines!ReadLine(limit)
    BY <1>4, <1>5, <2>1, <2>2, <2>3 DEF Lines!ReadLine
  <2> QED BY <1>3, <2>4 DEF Lines!Next
<1>6. CASE call = "rio_readnb"
  <2>1. count \in 0 .. limit
    BY <1>1, <1>3, <1>6 DEF LineInv
  <2>2. count = limit \/ Lines!Exhausted(count)
    <3>1. CASE ReadEnd
      BY <1>1, <1>2, <3>1 DEF Lines!Exhausted, Written
    <3>2. CASE ReturnFull
      <4>1. ~(limit - count - 0 > 0)
        BY <1>2, <1>6, <3>2 DEF Reading, room, endOfLine
      <4>2. count = limit
        <5>1. count \in Nat /\ limit \in Nat /\ count <= limit
          BY <1>1, <1>3, <2>1
        <5> HIDE DEF count
        <5> QED BY <4>1, <5>1
      <4> QED BY <4>2
    <3> QED BY <3>1, <3>2
  <2>3. Lines!ReadN(limit)
    BY <1>4, <1>6, <2>1, <2>2 DEF Lines!ReadN
  <2> QED BY <1>3, <2>3 DEF Lines!Next
<1> QED BY <1>2, <1>5, <1>6 DEF InReader

(* Every step is one of the abstract specification, or changes nothing of  *)
(* what it speaks of.                                                      *)
LEMMA StepRefines ==
  IInv /\ LineInv /\ WrittenInv /\ WrittenInv' /\ [Next]_vars => [Lines!Next]_(Lines!vars)
<1> SUFFICES ASSUME IInv, LineInv, WrittenInv, WrittenInv', [Next]_vars
             PROVE  Lines!Next \/ UNCHANGED Lines!vars
  OBVIOUS
<1>0. Typed
  BY Typing
<1> DEFINE Same == UNCHANGED <<newlines, peer, given, returned, lost>>
<1>1. ASSUME UNCHANGED <<wbuf, bufp>>, Same PROVE UNCHANGED Lines!vars
  BY <1>1 DEF Lines!vars
<1>2. CASE ReturnFull \/ ReadEnd
  BY <1>2, ReturnRefines
<1>3. CASE Write
  <2>1. Same /\ peer = "open"
    BY <1>3 DEF Write, Passive, caller
  <2>2. bufp \in Int /\ bufp' \in Int /\ bufp' > bufp
    <3>1. PICK nwritten \in 1 .. Least(nleft, WireSize - Len(wire)) : bufp' = bufp + nwritten
      BY <1>3 DEF Write
    <3>2. nwritten \in Int /\ nwritten > 0
      BY <1>0, <3>1, Constants DEF Least, Typed
    <3>3. bufp \in Int
      BY <1>0 DEF Typed
    <3> QED BY <3>1, <3>2, <3>3
  <2>3. /\ Len(Written) = bufp - 1 /\ Len(Written') = bufp' - 1
        /\ Written' = [k \in 1 .. Len(Written') |-> k]
    BY DEF WrittenInv
  <2>4. Len(Written') > Len(Written)
    <3>1. Len(Written) = bufp - 1 /\ Len(Written') = bufp' - 1
      BY <2>3
    <3>2. \A m, n \in Int : n > m => n - 1 > m - 1
      OBVIOUS
    <3>3. bufp' - 1 > bufp - 1
      BY <2>2, <3>2
    <3> QED BY <3>1, <3>3
  <2>5. Lines!Send
    BY <2>1, <2>3, <2>4 DEF Lines!Send, Written
  <2> QED BY <2>5 DEF Lines!Next
<1>4. CASE CallWriten \/ WriteFails
  <2>1. Same /\ bufp' = bufp
    BY <1>4 DEF CallWriten, WriteFails, Passive, caller
  <2>2. /\ Len(Written) = bufp - 1 /\ Len(Written') = bufp' - 1
        /\ Written = [k \in 1 .. Len(Written) |-> k]
        /\ Written' = [k \in 1 .. Len(Written') |-> k]
    BY DEF WrittenInv
  <2>3. Written' = Written
    BY <2>1, <2>2
  <2> QED BY <2>1, <2>3 DEF Lines!vars, Written
<1>5. CASE PeerCloses \/ PeerResets
  <2>1. UNCHANGED <<wbuf, bufp, newlines, given, returned, lost>> /\ peer' # "open"
    BY <1>5 DEF PeerCloses, PeerResets, Passive, caller, writer
  <2>2. Lines!End
    BY <2>1 DEF Lines!End
  <2> QED BY <2>2 DEF Lines!Next
<1>6. CASE ReadFails
  <2>1. /\ UNCHANGED <<wbuf, bufp, newlines, peer, given>>
        /\ peer = "reset" /\ returned' = <<"error", 0, <<>>>> /\ lost' = TRUE
    BY <1>6 DEF ReadFails, Quiet, writer
  <2>2. Lines!Fail
    BY <2>1 DEF Lines!Fail
  <2> QED BY <2>2 DEF Lines!Next
<1>7. CASE Opening \/ WriteInterrupted \/ Calling \/ Refill \/ ReadInterrupted \/ Copy \/ UNCHANGED vars
  <2>1. UNCHANGED <<wbuf, bufp>> /\ Same
    <3>1. CASE Opening
      BY <3>1 DEF Opening, SocketFails, Connects, ConnectFails, NoAddress, Unopened, writer
    <3>2. CASE WriteInterrupted
      BY <3>2 DEF WriteInterrupted, Passive, writer, caller
    <3>3. CASE Calling
      BY <3>3 DEF Calling, CallReadlineb, CallReadnb, Quiet, writer
    <3>4. CASE Refill \/ ReadInterrupted \/ Copy
      BY <3>4 DEF Refill, ReadInterrupted, Copy, Quiet, writer, caller
    <3>5. CASE UNCHANGED vars
      BY <3>5 DEF vars, writer, caller
    <3> QED BY <1>7, <3>1, <3>2, <3>3, <3>4, <3>5
  <2> QED BY <1>1, <2>1
<1> QED BY <1>2, <1>3, <1>4, <1>5, <1>6, <1>7 DEF Next, Writing, InCall

(* Nothing has been sent at first.                                         *)
LEMMA InitRefines == Init => Lines!Init
<1> SUFFICES ASSUME Init PROVE Lines!Init
  OBVIOUS
<1>1. Written = <<>>
  <2>1. IInv /\ bufp = 1
    BY InitInv DEF Init
  <2>2. Written \in Seq(Text) /\ Len(Written) = bufp - 1
    BY <2>1, WrittenIs DEF WrittenInv
  <2> QED BY <2>1, <2>2, EmptySeq
<1>2. newlines \subseteq Nat
  <2>1. newlines \subseteq 1 .. TextLen
    BY DEF Init
  <2> QED BY <2>1, Constants
<1> QED BY <1>1, <1>2 DEF Init, Lines!Init, Written

(* What rio_readlineb() and rio_readnb() return is what AbstractLines      *)
(* says: the next line or the next bytes of the text, however it was cut   *)
(* into writes, reads and copies.                                          *)
THEOREM Implements == Spec => ImplementsLines
<1>1. Spec => [](IInv /\ LineInv /\ WrittenInv)
  BY Lined, WrittenIs, PTL
<1> QED BY <1>1, InitRefines, StepRefines, PTL DEF Spec, ImplementsLines, Lines!Spec
=============================================================================
