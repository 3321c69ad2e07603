---------------------------- MODULE MCBlockScene ----------------------------
(* BlockScene on a small instance; the constants are given in BlockScene.cfg. *)
EXTENDS BlockScene
=============================================================================
