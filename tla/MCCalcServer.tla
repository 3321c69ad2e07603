---------------------------- MODULE MCCalcServer ----------------------------
(* Two peers; lines that fit exactly, do not fit, are empty, do not parse  *)
(* or are never ended.                                                     *)
EXTENDS CalcServer

MCScripts == <<{<<2, NL, 3, NL, 4, NL, 5, NL>>, <<1, 2, NL, NL, 3>>,
                <<7, Bad, NL>>, <<3, NL, 1, 2, 3, NL>>},
               {<<6, NL, 7, NL>>}>>
=============================================================================
