--------------------------- MODULE AbstractLines ---------------------------
(***************************************************************************)
(* What rio_writen(), rio_readlineb() and rio_readnb() of csapp.c promise  *)
(* to those who call them: what a call returns depends on the text alone,  *)
(* not on the pieces in which it was written, sent and read.               *)
(***************************************************************************)
EXTENDS Integers, Sequences

CONSTANTS Limits   \* the sizes callers ask for

VARIABLES
  text,       \* what was sent so far
  newlines,   \* which of its bytes are newlines
  ended,      \* no more comes
  failed,     \* a call has reported that the connection was reset
  read,       \* number of bytes given to callers
  returned    \* by the last call: its function, its argument, the bytes

vars == <<text, newlines, ended, failed, read, returned>>

Init ==
  /\ text = <<>> /\ ended = FALSE /\ failed = FALSE /\ read = 0
  /\ newlines \subseteq Nat
  /\ returned = <<"none", 0, <<>>>>

(* The bytes of the text are their positions.                              *)
Send ==
  /\ ~ended
  /\ Len(text') > Len(text)
  /\ text' = [k \in 1 .. Len(text') |-> k]
  /\ UNCHANGED <<newlines, ended, failed, read, returned>>

End == ended' = TRUE /\ UNCHANGED <<text, newlines, failed, read, returned>>

Give(function, argument, count) ==
  /\ read + count <= Len(text)
  /\ failed => count = 0
  /\ read' = read + count
  /\ returned' = <<function, argument, SubSeq(text, read + 1, read + count)>>
  /\ UNCHANGED <<text, newlines, ended, failed>>

(* Nothing comes after so many bytes more.                                 *)
Exhausted(count) == ended /\ (failed \/ read + count = Len(text))

NewlineAt(k) == read + k <= Len(text) /\ text[read + k] \in newlines

(* A line with its newline, or as much of it as fits, or what is left at   *)
(* the end.                                                                *)
ReadLine(maxlen) ==
  \E count \in 0 .. (maxlen - 1) :
    /\ \A k \in 1 .. (count - 1) : ~NewlineAt(k)
    /\ \/ count = maxlen - 1
       \/ count > 0 /\ NewlineAt(count)
       \/ Exhausted(count)
    /\ Give("rio_readlineb", maxlen, count)

(* As many bytes as asked for, or what is left at the end.                 *)
ReadN(n) ==
  \E count \in 0 .. n :
    /\ count = n \/ Exhausted(count)
    /\ Give("rio_readnb", n, count)

(* A reset connection: the call fails, and whatever it had read is lost,   *)
(* as is all that would have come.                                         *)
Fail ==
  /\ ended
  /\ failed' = TRUE
  /\ returned' = <<"error", 0, <<>>>>
  /\ UNCHANGED <<text, newlines, ended, read>>

Next ==
  \/ Send \/ End \/ Fail
  \/ \E limit \in Limits : ReadLine(limit) \/ ReadN(limit)

Spec == Init /\ [][Next]_vars
=============================================================================
