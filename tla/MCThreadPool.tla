---------------------------- MODULE MCThreadPool ----------------------------
(* ThreadPool on small instances, given in the cfg file.  No symmetry is   *)
(* declared: the same run checks liveness, for which it is not sound.      *)
EXTENDS ThreadPool
=============================================================================
