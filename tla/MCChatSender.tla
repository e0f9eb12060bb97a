---------------------------- MODULE MCChatSender ----------------------------
(* Four characters stand for the 255 of MAX_LEN: lengths below and at      *)
(* the limit.                                                             *)
EXTENDS ChatSender

MCShort == {1, 3}
MCFitting == {1, 4}
=============================================================================
