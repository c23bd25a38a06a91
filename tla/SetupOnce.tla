------------------------------ MODULE SetupOnce ------------------------------
(***************************************************************************)
(* What running setup_girder.py promises, whatever runs of it there are and *)
(* however they end: Girder is claimed by the run that creates its admin    *)
(* user, and only that run can make it ready and report success.  A Girder  *)
(* whose claimant fails is never made ready.                                *)
(***************************************************************************)
CONSTANT Runs

VARIABLES
    stage,      \* "fresh", "claimed" or "ready"
    holder,     \* the run that claimed Girder, as a set
    result      \* result[r]: "none" until the run has ended

vars == <<stage, holder, result>>

Init ==
    /\ stage = "fresh"
    /\ holder = {}
    /\ result = [r \in Runs |-> "none"]

(* A step after which the run may have ended without success. *)
MayFail(r) == result' \in {result, [result EXCEPT ![r] = "failed"]}

Claim(r) ==
    /\ stage = "fresh" /\ result[r] = "none"
    /\ stage' = "claimed" /\ holder' = {r}
    /\ MayFail(r)

Complete(r) ==
    /\ stage = "claimed" /\ holder = {r} /\ result[r] = "none"
    /\ stage' = "ready"
    /\ result' \in {[result EXCEPT ![r] = "ok"], [result EXCEPT ![r] = "failed"]}
    /\ UNCHANGED holder

Fail(r) ==
    /\ result[r] = "none"
    /\ result' = [result EXCEPT ![r] = "failed"]
    /\ UNCHANGED <<stage, holder>>

Next == \E r \in Runs : Claim(r) \/ Complete(r) \/ Fail(r)

Spec == Init /\ [][Next]_vars
=============================================================================
