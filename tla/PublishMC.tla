----------------------------- MODULE PublishMC -----------------------------
(* Instances of Publish for TLC: a task of a tale with one or two items. *)
EXTENDS Publish
CONSTANTS p1, p2, n1, n2
==============================================================================
