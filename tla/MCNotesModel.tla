---------------------------- MODULE MCNotesModel ----------------------------
(* NotesModel on a small instance; the bound is given in the cfg files. *)
EXTENDS NotesModel
=============================================================================
