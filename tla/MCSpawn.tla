------------------------------ MODULE MCSpawn -------------------------------
(* One coroutine that awaits the reads and the write of a round and the    *)
(* read that begins the next one, on a strand and without one.             *)
EXTENDS Spawn
=============================================================================
