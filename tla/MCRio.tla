------------------------------- MODULE MCRio -------------------------------
(* Buffers of two and three bytes, and lines shorter and longer than what  *)
(* the reader asks for.                                                    *)
EXTENDS Rio

MCLimits == {2, 4}
=============================================================================
