------------------------------- MODULE MCChat -------------------------------
(* Four characters stand for the 255 of MAX_LEN.                           *)
EXTENDS Chat

MCLongest == {4}
MCShort == {3}
=============================================================================
