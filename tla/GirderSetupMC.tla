---------------------------- MODULE GirderSetupMC ----------------------------
(* Instances of GirderSetup for TLC. *)
EXTENDS GirderSetup
CONSTANTS r1, r2
=============================================================================
