------------------------------- MODULE CSINode -------------------------------
(***************************************************************************)
(* The node server of the WebDAV CSI plugin (pkg/webdav/nodeserver.go) with *)
(* the helpers it runs through: the mounter of k8s.io/kubernetes/pkg/util/  *)
(* mount and UnmountPath of pkg/volume/util.  Every RPC runs in a goroutine *)
(* of its own (csi-common/server.go) and no lock guards a target path, so a *)
(* handler is a process that takes one system call per step.  The container *)
(* orchestrator, the kernel's mount table and the FUSE daemons are modelled *)
(* from how that code uses them.                                            *)
(***************************************************************************)
EXTENDS Integers, Sequences, FiniteSets, SequencesExt

CONSTANTS
    Targets,        \* target paths the orchestrator names
    Calls,          \* RPC slots: as many handlers may be live at once
    None,           \* no call, no target
    ReadonlyFlags,  \* values of NodePublishVolumeRequest.readonly in use
    Faulty,         \* system calls that may fail for reasons of their own
    MaxFaults,      \* bound on such failures
    MaxTimeouts,    \* bound on the calls the orchestrator abandons
    MaxCrashes      \* bound on plugin restarts and daemon deaths

Syscalls == {"stat", "mkdir", "tempfile", "mount", "unlink", "umount", "rmdir"}
Ops == {"publish", "unpublish"}

ASSUME ConstantsOK ==
    /\ None \notin Calls \cup Targets
    /\ IsFiniteSet(Calls)
    /\ ReadonlyFlags \subseteq BOOLEAN /\ FALSE \in ReadonlyFlags
    /\ Faulty \subseteq Syscalls
    /\ MaxFaults \in Nat /\ MaxTimeouts \in Nat /\ MaxCrashes \in Nat

VARIABLES
    dir,        \* dir[t]: "none", or who created the directory: "co", "sp"
    mounts,     \* mounts[t]: file systems stacked on t, the visible one last
    tmp,        \* number of webdavcfg*/webdavcred* files in os.TempDir()
    rpc,        \* rpc[c]: the handler in slot c
    waiting,    \* waiting[t]: the call the orchestrator waits for, or None
    goal,       \* goal[t]: what the orchestrator wants: an op, or "done"
    budget      \* faults, timeouts and crashes still to come

files == <<dir, mounts, tmp>>
vars == <<dir, mounts, tmp, rpc, waiting, goal, budget>>

(* solo: no other handler for the same target was ever live beside it *)
Idle == [pc |-> "idle", op |-> "none", target |-> None, ro |-> FALSE,
         solo |-> FALSE, code |-> "none"]
On(t) == {c \in Calls : rpc[c].target = t}
At(c, op, pc) == rpc[c].op = op /\ rpc[c].pc = pc
Move(c, pc, code) == rpc' = [rpc EXCEPT ![c] = [@ EXCEPT !.pc = pc, !.code = code]]
Goto(c, pc) == Move(c, pc, rpc[c].code)
Reply(c, code) == Move(c, "reply", code)
Used(b) == [fault |-> MaxFaults, timeout |-> MaxTimeouts,
            crash |-> MaxCrashes][b] - budget[b]

(* What os.Stat of the path and of its parent tell IsLikelyNotMountPoint: a *)
(* missing path, a plain directory, a mount point, or the error (ENOTCONN)  *)
(* that a FUSE mount without its daemon gives.                              *)
Stat(t) ==
    IF mounts[t] # <<>>
    THEN IF Last(mounts[t]).alive THEN "mounted" ELSE "broken"
    ELSE IF dir[t] = "none" THEN "absent" ELSE "plain"

Init ==
    /\ dir \in [Targets -> {"none", "co"}]
    /\ mounts = [t \in Targets |-> <<>>]
    /\ tmp = 0
    /\ rpc = [c \in Calls |-> Idle]
    /\ waiting = [t \in Targets |-> None]
    /\ goal = [t \in Targets |-> "publish"]
    /\ budget = [fault |-> MaxFaults, timeout |-> MaxTimeouts,
                 crash |-> MaxCrashes]
------------------------------------------------------------------------------
(* The orchestrator: one call at a time for a path, retried until answered OK *)

Issue(c, t, op, ro) ==
    /\ rpc[c] = Idle
    /\ waiting[t] = None
    /\ goal[t] = op
    /\ op = "unpublish" => ~ro
    /\ rpc' = [d \in Calls |->
                 IF d = c THEN [pc |-> "check", op |-> op, target |-> t,
                                ro |-> ro, solo |-> On(t) = {}, code |-> "none"]
                 ELSE IF d \in On(t) THEN [rpc[d] EXCEPT !.solo = FALSE]
                 ELSE rpc[d]]
    /\ waiting' = [waiting EXCEPT ![t] = c]
    /\ UNCHANGED <<files, goal, budget>>

(* The deadline passes or the answer is lost.  The handler, which never    *)
(* looks at its ctx, runs on.                                              *)
Abandon(t) ==
    /\ waiting[t] # None
    /\ budget.timeout > 0
    /\ waiting' = [waiting EXCEPT ![t] = None]
    /\ budget' = [budget EXCEPT !.timeout = @ - 1]
    /\ UNCHANGED <<files, rpc, goal>>

(* Slip: the slot is freed but the handler it held is not forgotten. *)
AnswerNoReset(c) ==
    /\ rpc[c].pc = "reply"
    /\ Goto(c, "idle")
    /\ waiting' = [waiting EXCEPT ![rpc[c].target] = IF @ = c THEN None ELSE @]
    /\ UNCHANGED <<files, goal, budget>>

Answer(c) ==
    /\ rpc[c].pc = "reply"
    /\ rpc' = [rpc EXCEPT ![c] = Idle]
    /\ LET t == rpc[c].target
           heard == waiting[t] = c
       IN  /\ waiting' = [waiting EXCEPT ![t] = IF heard THEN None ELSE @]
           /\ goal' = [goal EXCEPT ![t] =
                         IF heard /\ rpc[c].op = "unpublish" /\ rpc[c].code = "OK"
                         THEN "done" ELSE @]
    /\ UNCHANGED <<files, budget>>

(* The pod ends, or a new one uses the path. *)
Rethink(t) ==
    /\ waiting[t] = None
    /\ goal[t] # "unpublish"
    /\ goal' = [goal EXCEPT ![t] = IF @ = "done" THEN "publish" ELSE "unpublish"]
    /\ UNCHANGED <<files, rpc, waiting, budget>>
------------------------------------------------------------------------------
(* Steps of a handler *)

Fault(s) ==
    /\ s \in Faulty
    /\ budget.fault > 0
    /\ budget' = [budget EXCEPT !.fault = @ - 1]

FailsInternal(c, s) ==
    /\ Fault(s)
    /\ Reply(c, "Internal")
    /\ UNCHANGED files

(* Slip: the check for a mount point is dropped. *)
PublishCheckBlind(c) ==
    /\ At(c, "publish", "check")
    /\ Goto(c, IF Stat(rpc[c].target) = "absent" THEN "mkdir" ELSE "config")
    /\ UNCHANGED <<files, budget>>

PublishCheck(c) ==
    /\ At(c, "publish", "check")
    /\ \/ /\ CASE Stat(rpc[c].target) = "absent"  -> Goto(c, "mkdir")
               [] Stat(rpc[c].target) = "plain"   -> Goto(c, "config")
               [] Stat(rpc[c].target) = "mounted" -> Reply(c, "OK")
               [] Stat(rpc[c].target) = "broken"  -> Reply(c, "Internal")
          /\ UNCHANGED <<files, budget>>
       \/ FailsInternal(c, "stat")

MkdirAll(c) ==
    /\ At(c, "publish", "mkdir")
    /\ \/ /\ Stat(rpc[c].target) # "broken"
          /\ Goto(c, "config")
          /\ dir' = [dir EXCEPT ![rpc[c].target] = IF @ = "none" THEN "sp" ELSE @]
          /\ UNCHANGED <<mounts, tmp, budget>>
       \/ /\ Stat(rpc[c].target) = "broken"
          /\ Reply(c, "Internal")
          /\ UNCHANGED <<files, budget>>
       \/ FailsInternal(c, "mkdir")

(* Two files; an error return removes neither of those already created. *)
CreateConfigFile(c) ==
    /\ At(c, "publish", "config")
    /\ UNCHANGED <<dir, mounts>>
    /\ \/ tmp' = tmp + 2 /\ Goto(c, "mount") /\ UNCHANGED budget
       \/ /\ Fault("tempfile")
          /\ Reply(c, "Internal")
          /\ \E left \in 0..2 : tmp' = tmp + left

(* Slip: the error of Mount is shadowed. *)
MountShadowed(c) ==
    /\ At(c, "publish", "mount")
    /\ Move(c, "cleanup", "OK")
    /\ \/ /\ Stat(rpc[c].target) \in {"plain", "mounted"}
          /\ mounts' = [mounts EXCEPT ![rpc[c].target] =
                          Append(@, [ro |-> rpc[c].ro, alive |-> TRUE])]
          /\ UNCHANGED <<dir, tmp, budget>>
       \/ Stat(rpc[c].target) # "plain" /\ UNCHANGED <<files, budget>>
       \/ Fault("mount") /\ UNCHANGED files

(* mount(8) refuses a missing or broken directory; over a file system that  *)
(* is mounted already it may refuse or stack another one.                   *)
Mount(c) ==
    /\ At(c, "publish", "mount")
    /\ UNCHANGED <<dir, tmp>>
    /\ LET t == rpc[c].target
       IN  \/ /\ Stat(t) \in {"plain", "mounted"}
              /\ mounts' = [mounts EXCEPT ![t] =
                              Append(@, [ro |-> rpc[c].ro, alive |-> TRUE])]
              /\ Move(c, "cleanup", "OK")
              /\ UNCHANGED budget
           \/ /\ \/ Stat(t) # "plain" /\ UNCHANGED budget
                 \/ Fault("mount")
              /\ \E code \in {"InvalidArgument", "Internal"} : Move(c, "cleanup", code)
              /\ UNCHANGED mounts

(* Slip: the secrets file is left behind. *)
RemoveOneConfigFile(c) ==
    /\ At(c, "publish", "cleanup")
    /\ Goto(c, "reply")
    /\ UNCHANGED <<dir, mounts>>
    /\ \/ tmp' = tmp - 1 /\ UNCHANGED budget
       \/ Fault("unlink") /\ UNCHANGED tmp

(* Two calls of os.Remove, whose errors are dropped: what cannot be removed *)
(* stays, and the handler answers as if it were gone.                       *)
RemoveConfigFiles(c) ==
    /\ At(c, "publish", "cleanup")
    /\ Goto(c, "reply")
    /\ UNCHANGED <<dir, mounts>>
    /\ \E left \in 0..2 :
          /\ left > 0 => "unlink" \in Faulty
          /\ left <= budget.fault
          /\ tmp' = tmp - 2 + left
          /\ budget' = [budget EXCEPT !.fault = @ - left]

(* Slip, or cure: a corrupted mount is taken on to UnmountPath. *)
UnpublishCheckLenient(c) ==
    /\ At(c, "unpublish", "check")
    /\ IF Stat(rpc[c].target) \in {"mounted", "broken"} THEN Goto(c, "exists")
                                                       ELSE Reply(c, "NotFound")
    /\ UNCHANGED <<files, budget>>

UnpublishCheck(c) ==
    /\ At(c, "unpublish", "check")
    /\ UNCHANGED files
    /\ \/ /\ CASE Stat(rpc[c].target) = "mounted" -> Goto(c, "exists")
               [] Stat(rpc[c].target) = "broken"  -> Reply(c, "Internal")
               [] OTHER -> Reply(c, "NotFound")
          /\ UNCHANGED budget
       \/ FailsInternal(c, "stat")

(* UnmountMountPoint: PathExists says no for any error that is not a sign of *)
(* a corrupted mount, and then there is nothing to unmount; EIO is a sign.   *)
PathExists(c) ==
    /\ At(c, "unpublish", "exists")
    /\ UNCHANGED files
    /\ \/ /\ CASE Stat(rpc[c].target) = "absent" -> Reply(c, "OK")
               [] Stat(rpc[c].target) = "broken" -> Goto(c, "umount")
               [] OTHER -> Goto(c, "recheck")
          /\ UNCHANGED budget
       \/ /\ Fault("stat")
          /\ Reply(c, "OK") \/ Goto(c, "umount")

DoUnmountCheck(c) ==
    /\ At(c, "unpublish", "recheck")
    /\ UNCHANGED files
    /\ \/ /\ CASE Stat(rpc[c].target) = "mounted" -> Goto(c, "umount")
               [] Stat(rpc[c].target) = "plain"   -> Goto(c, "rmdir")
               [] OTHER -> Reply(c, "Internal")
          /\ UNCHANGED budget
       \/ FailsInternal(c, "stat")

Unmount(c) ==
    /\ At(c, "unpublish", "umount")
    /\ LET t == rpc[c].target
       IN  \/ /\ mounts[t] # <<>>
              /\ mounts' = [mounts EXCEPT ![t] = Front(@)]
              /\ Goto(c, "postcheck")
              /\ UNCHANGED <<dir, tmp, budget>>
           \/ /\ mounts[t] = <<>>
              /\ Reply(c, "Internal")
              /\ UNCHANGED <<files, budget>>
           \/ FailsInternal(c, "umount")

(* Slip: one umount is taken to be enough. *)
PostUnmountCheckTrusting(c) ==
    /\ At(c, "unpublish", "postcheck")
    /\ IF Stat(rpc[c].target) = "plain" THEN Goto(c, "rmdir") ELSE Reply(c, "OK")
    /\ UNCHANGED <<files, budget>>

(* Slip: the directory is not removed after the umount. *)
PostUnmountCheckKeepsDir(c) ==
    /\ At(c, "unpublish", "postcheck")
    /\ Reply(c, IF Stat(rpc[c].target) = "plain" THEN "OK" ELSE "Internal")
    /\ UNCHANGED <<files, budget>>

PostUnmountCheck(c) ==
    /\ At(c, "unpublish", "postcheck")
    /\ UNCHANGED files
    /\ \/ /\ IF Stat(rpc[c].target) = "plain" THEN Goto(c, "rmdir")
                                              ELSE Reply(c, "Internal")
          /\ UNCHANGED budget
       \/ FailsInternal(c, "stat")

(* Slip: the error of os.Remove is dropped. *)
RemoveDirUnchecked(c) ==
    /\ At(c, "unpublish", "rmdir")
    /\ Reply(c, "OK")
    /\ UNCHANGED <<mounts, tmp>>
    /\ \/ /\ Stat(rpc[c].target) = "plain"
          /\ dir' = [dir EXCEPT ![rpc[c].target] = "none"]
          /\ UNCHANGED budget
       \/ Stat(rpc[c].target) # "plain" /\ UNCHANGED <<dir, budget>>
       \/ Fault("rmdir") /\ UNCHANGED dir

RemoveDir(c) ==
    /\ At(c, "unpublish", "rmdir")
    /\ \/ /\ Stat(rpc[c].target) = "plain"
          /\ dir' = [dir EXCEPT ![rpc[c].target] = "none"]
          /\ Reply(c, "OK")
          /\ UNCHANGED <<mounts, tmp, budget>>
       \/ /\ Stat(rpc[c].target) # "plain"
          /\ Reply(c, "Internal")
          /\ UNCHANGED <<files, budget>>
       \/ FailsInternal(c, "rmdir")

NodePublishVolume(c) ==
    \/ PublishCheck(c) \/ MkdirAll(c) \/ CreateConfigFile(c) \/ Mount(c)
    \/ RemoveConfigFiles(c)

NodeUnpublishVolume(c) ==
    \/ UnpublishCheck(c) \/ PathExists(c) \/ DoUnmountCheck(c) \/ Unmount(c)
    \/ PostUnmountCheck(c) \/ RemoveDir(c)

Handle(c) ==
    /\ NodePublishVolume(c) \/ NodeUnpublishVolume(c)
    /\ UNCHANGED <<waiting, goal>>
------------------------------------------------------------------------------
(* Failures *)

Orphaned(s, I) ==
    [i \in DOMAIN s |-> IF i \in I THEN [s[i] EXCEPT !.alive = FALSE] ELSE s[i]]

(* The plugin's container restarts: handlers, FUSE daemons and its /tmp go; *)
(* the mounts, propagated to the host, stay.                                *)
Crash ==
    /\ budget.crash > 0
    /\ budget' = [budget EXCEPT !.crash = @ - 1]
    /\ mounts' = [t \in Targets |-> Orphaned(mounts[t], DOMAIN mounts[t])]
    /\ rpc' = [c \in Calls |-> Idle]
    /\ waiting' = [t \in Targets |-> None]
    /\ tmp' = 0
    /\ UNCHANGED <<dir, goal>>

DaemonDies(t) ==
    /\ budget.crash > 0
    /\ budget' = [budget EXCEPT !.crash = @ - 1]
    /\ \E i \in DOMAIN mounts[t] :
          /\ mounts[t][i].alive
          /\ mounts' = [mounts EXCEPT ![t] = Orphaned(@, {i})]
    /\ UNCHANGED <<dir, tmp, rpc, waiting, goal>>

Next ==
    \/ \E c \in Calls :
          \/ \E t \in Targets, op \in Ops, ro \in ReadonlyFlags : Issue(c, t, op, ro)
          \/ Handle(c)
          \/ Answer(c)
    \/ \E t \in Targets : Abandon(t) \/ Rethink(t) \/ DaemonDies(t)
    \/ Crash

Spec == Init /\ [][Next]_vars

(* A goroutine is scheduled until it returns, an answer travels or is given *)
(* up, and the orchestrator retries an unpublish for as long as it wants it. *)
Fairness ==
    /\ \A c \in Calls : WF_vars(Handle(c)) /\ WF_vars(Answer(c))
    /\ \A t \in Targets : WF_vars(\E c \in Calls : Issue(c, t, "unpublish", FALSE))

FairSpec == Spec /\ Fairness
------------------------------------------------------------------------------
(* Correctness *)

Codes == {"none", "OK", "NotFound", "InvalidArgument", "Internal"}
PcsOf(op) ==
    CASE op = "none"      -> {"idle"}
      [] op = "publish"   -> {"check", "mkdir", "config", "mount", "cleanup", "reply"}
      [] op = "unpublish" -> {"check", "exists", "recheck", "umount", "postcheck",
                              "rmdir", "reply"}
Handlers ==
    [pc : {"idle", "check", "mkdir", "config", "mount", "cleanup", "exists",
           "recheck", "umount", "postcheck", "rmdir", "reply"},
     op : Ops \cup {"none"}, target : Targets \cup {None},
     ro : BOOLEAN, solo : BOOLEAN, code : Codes]
FileSystems == [ro : BOOLEAN, alive : BOOLEAN]

(* Types: what each variable may hold, and that the state of a handler is   *)
(* one its RPC goes through.                                                *)
TypeOK ==
    /\ dir \in [Targets -> {"none", "co", "sp"}]
    /\ mounts \in [Targets -> Seq(FileSystems)]
    /\ tmp \in Int
    /\ rpc \in [Calls -> Handlers]
    /\ \A c \in Calls : /\ rpc[c].pc \in PcsOf(rpc[c].op)
                        /\ rpc[c].target = None <=> rpc[c].op = "none"
    /\ waiting \in [Targets -> Calls \cup {None}]
    /\ goal \in [Targets -> Ops \cup {"done"}]
    /\ budget \in [fault : 0..MaxFaults, timeout : 0..MaxTimeouts,
                   crash : 0..MaxCrashes]

(* The check for a mount point and the mount are two steps without a lock:  *)
(* handlers that overlap can stack davfs on davfs.  They cannot stack more  *)
(* than one more for every call the orchestrator gave up on, and not at all *)
(* when it gives up on none.                                                *)
StackBound == \A t \in Targets : Len(mounts[t]) <= 1 + Used("timeout")

(* The configuration and credentials files: while a handler may have mount  *)
(* running both exist, and the only files that outlive their handler are    *)
(* those of a failed CreateConfigFile, which forgets up to two, and those   *)
(* whose removal failed without anybody looking.                            *)
HoldsFiles == {c \in Calls : rpc[c].pc \in {"mount", "cleanup"}}
TempFilesBounded ==
    /\ 2 * Cardinality(HoldsFiles) <= tmp
    /\ tmp <= 2 * Cardinality(HoldsFiles) + 2 * Used("fault")

Gone(t) == mounts[t] = <<>> /\ dir[t] = "none"

(* An answer OK to a call that ran alone for its target describes the path  *)
(* as it is when the answer arrives: something is mounted after a publish,  *)
(* nothing is left after an unpublish.                                      *)
ReplySound ==
    \A c \in Calls : rpc[c].pc = "reply" /\ rpc[c].code = "OK" /\ rpc[c].solo =>
        IF rpc[c].op = "publish" THEN mounts[rpc[c].target] # <<>>
                                 ELSE Gone(rpc[c].target)

(* A path the orchestrator is done with stays unmounted and removed, unless *)
(* some call was abandoned: then a late publish handler may mount it again. *)
DoneIsGone ==
    Used("timeout") = 0 => \A t \in Targets : goal[t] = "done" => Gone(t)

(* A mount whose daemon died is out of the plugin's reach: both handlers    *)
(* give up at their first stat, so that unless an unpublish was already     *)
(* past it none gets there, and nothing is ever unmounted from the path or  *)
(* mounted on it again.                                                     *)
PastCheck(t) ==
    \E c \in On(t) : rpc[c].pc \in {"exists", "recheck", "umount", "postcheck", "rmdir"}
CorruptStays ==
    [][\A t \in Targets : Stat(t) = "broken" /\ ~PastCheck(t) =>
          Stat(t)' = "broken" /\ ~PastCheck(t)'
            /\ Len(mounts'[t]) = Len(mounts[t])]_vars

(* Once no publish handler is left, an unpublish that the orchestrator      *)
(* insists on unmounts the path, however many file systems late publishes   *)
(* have stacked on it, as long as the daemons live.                         *)
Draining(t) ==
    /\ goal[t] = "unpublish"
    /\ waiting[t] = None
    /\ \A c \in On(t) : rpc[c].op # "publish"
Drained == \A t \in Targets : Draining(t) ~> mounts[t] = <<>>

(* Every call takes effect at one instant, and OK and NotFound are true of  *)
(* that instant, however handlers overlap, crash and fail.                  *)
CallOf(r) ==
    [phase |-> CASE r.pc = "idle" -> "idle"
                 [] r.pc \in {"cleanup", "reply"} -> "settled"
                 [] OTHER -> "pending",
     op |-> r.op, target |-> r.target, code |-> r.code]
Volume == INSTANCE CSIVolume WITH
    status <- [t \in Targets |-> Stat(t)],
    call   <- [c \in Calls |-> CallOf(rpc[c])]
ImplementsVolume == Volume!Spec

(* util.go:129: UnmountPath "unmounts the given path and deletes the        *)
(* remaining directory if successful."                                      *)
UnmountPathUnmounts ==
    \A c \in Calls :
        rpc[c].pc = "reply" /\ rpc[c].op = "unpublish" /\ rpc[c].solo
            /\ rpc[c].code = "OK" => mounts[rpc[c].target] = <<>>
==============================================================================
