---------------------------- MODULE ImportTaleMC ----------------------------
(* Instances of ImportTale for TLC. *)
EXTENDS ImportTale
CONSTANTS p1, p2, d1, d2, n1, n2
Answers == {<<>>, <<d1>>, <<d2, d1>>}
=============================================================================
