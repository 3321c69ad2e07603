------------------------------- MODULE MCChat -------------------------------
(* Chat on a small instance; the constants are given in Chat.cfg. *)
EXTENDS Chat
=============================================================================
