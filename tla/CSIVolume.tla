------------------------------ MODULE CSIVolume ------------------------------
(***************************************************************************)
(* What the node half of the WebDAV CSI plugin promises its container       *)
(* orchestrator, one target path at a time: every call takes effect at one  *)
(* instant between its issue and its answer, and the code it answers tells  *)
(* the truth about that instant.  Nothing is said of handlers, of temporary *)
(* files or of the number of file systems stacked on a path.  CSINode is    *)
(* shown to implement this module.                                          *)
(***************************************************************************)
CONSTANTS Targets, Calls, None

VARIABLES
    status,     \* status[t]: what stat(2) on target path t would find
    call        \* call[c]: the call in slot c and, once settled, its answer

vars == <<status, call>>

Ops == {"publish", "unpublish"}
NoCall == [phase |-> "idle", op |-> "none", target |-> None, code |-> "none"]

Init ==
    /\ status \in [Targets -> {"absent", "plain"}]
    /\ call = [c \in Calls |-> NoCall]

Begin(c, t, op) ==
    /\ call[c] = NoCall
    /\ call' = [call EXCEPT ![c] = [phase |-> "pending", op |-> op,
                                    target |-> t, code |-> "none"]]
    /\ UNCHANGED status

Pending(c, op) == call[c].phase = "pending" /\ call[c].op = op

(* A publish call may leave the mount point behind without a mount. *)
Prepare(c) ==
    /\ Pending(c, "publish")
    /\ status[call[c].target] = "absent"
    /\ status' = [status EXCEPT ![call[c].target] = "plain"]
    /\ UNCHANGED call

(* An unpublish call takes one file system off the path; another may have  *)
(* been mounted below it.                                                  *)
Detach(c) ==
    /\ Pending(c, "unpublish")
    /\ status[call[c].target] \in {"mounted", "broken"}
    /\ \E s \in {"plain", "mounted", "broken"} :
          status' = [status EXCEPT ![call[c].target] = s]
    /\ UNCHANGED call

Truthful(op, code, before, after) ==
    \/ op = "publish" /\ code = "OK"
         /\ before \in {"plain", "mounted"} /\ after = "mounted"
    \/ op = "unpublish" /\ code = "OK"
         /\ before \in {"absent", "plain"} /\ after = "absent"
    \/ op = "unpublish" /\ code = "NotFound"
         /\ before \in {"absent", "plain"} /\ after = before
    \/ op = "publish" /\ code = "InvalidArgument" /\ after = before
    \/ code = "Internal" /\ after = before

Settle(c) ==
    /\ call[c].phase = "pending"
    /\ \E code \in {"OK", "NotFound", "InvalidArgument", "Internal"},
          s \in {"absent", "plain", "mounted", "broken"} :
          /\ Truthful(call[c].op, code, status[call[c].target], s)
          /\ status' = [status EXCEPT ![call[c].target] = s]
          /\ call' = [call EXCEPT ![c].phase = "settled", ![c].code = code]

End(c) ==
    /\ call[c].phase = "settled"
    /\ call' = [call EXCEPT ![c] = NoCall]
    /\ UNCHANGED status

(* The daemon that serves a mounted file system is gone. *)
Break(t) ==
    /\ status[t] = "mounted"
    /\ status' = [status EXCEPT ![t] = "broken"]
    /\ UNCHANGED call

Restart ==
    /\ call' = [c \in Calls |-> NoCall]
    /\ status' = [t \in Targets |->
                    IF status[t] = "mounted" THEN "broken" ELSE status[t]]

Next ==
    \/ \E c \in Calls :
          \/ \E t \in Targets, op \in Ops : Begin(c, t, op)
          \/ Prepare(c) \/ Detach(c) \/ Settle(c) \/ End(c)
    \/ \E t \in Targets : Break(t)
    \/ Restart

Spec == Init /\ [][Next]_vars
==============================================================================
