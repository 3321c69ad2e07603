--------------------------- MODULE MCSelectSession ---------------------------
(* SelectSession on small instances; the constants are given in the cfg files. *)
EXTENDS SelectSession
=============================================================================
