------------------------------ MODULE DeployMC ------------------------------
(* Instances of Deploy for TLC. *)
EXTENDS Deploy
SomeLookalikes == {<<"deployment", "redis">>, <<"configmap", "girder">>}
=============================================================================
