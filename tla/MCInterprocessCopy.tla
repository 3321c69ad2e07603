------------------------- MODULE MCInterprocessCopy -------------------------
(* InterprocessCopy on a small instance; the constants are given in the cfg. *)
EXTENDS InterprocessCopy
=============================================================================
