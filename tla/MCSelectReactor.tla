--------------------------- MODULE MCSelectReactor ---------------------------
(* SelectReactor on small instances. *)
EXTENDS SelectReactor

(* Two descriptors, the second one used both ways. *)
TwoFds == {<<"read", 1>>, <<"read", 2>>, <<"write", 2>>}

(* And a third one, for a number that does not fit an fd_set. *)
ThreeFds == TwoFds \cup {<<"read", 3>>}
=============================================================================
