----------------------------- MODULE MCFileCopy -----------------------------
(* Empty, short and longer files, one that grows while it is copied and    *)
(* one that tells no size.                                                 *)
EXTENDS FileCopy

MCSources == {[size |-> s, blocks |-> b] : s \in {0}, b \in {0, 1}}
             \cup {[size |-> 1, blocks |-> 1], [size |-> 3, blocks |-> 3],
                   [size |-> 2, blocks |-> 3]}
=============================================================================
