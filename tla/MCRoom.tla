------------------------------- MODULE MCRoom -------------------------------
(* Three threads, two receivers and two messages: two broadcasts and a     *)
(* join or a leave can be in progress at once.                             *)
EXTENDS Room

CONSTANTS t1, t2, t3, m1, m2

MCThread == {t1, t2, t3}
MCUser == 1 .. 2
MCMessage == {m1, m2}
=============================================================================
