----------------------------- MODULE MCEnrollment -----------------------------
(* Instances of Enrollment for TLC. *)
EXTENDS Enrollment, TLC

CONSTANTS c1, c2, c3, t1, t2

Symmetry == Permutations(Conn) \cup Permutations(Token)
==============================================================================
