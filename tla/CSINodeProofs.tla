---------------------------- MODULE CSINodeProofs ----------------------------
(***************************************************************************)
(* Theorems about CSINode, for any targets, any number of handlers and any  *)
(* bounds.                                                                  *)
(***************************************************************************)
EXTENDS CSINode, SequenceTheorems, FiniteSetTheorems, TLAPS

(* Taking the visible file system off a stack leaves a stack. *)
LEMMA FrontOfStack ==
    ASSUME NEW S, NEW s \in Seq(S), s # <<>>
    PROVE  Front(s) \in Seq(S) /\ Len(Front(s)) = Len(s) - 1
<1>. DEFINE n == Len(s) - 1
<1>1. n \in Nat /\ \A i \in 1..n : s[i] \in S
  BY EmptySeq
<1>2. Front(s) = SubSeq(s, 1, n)
  BY DEF Front
<1>. HIDE DEF n
<1>3. Len(SubSeq(s, 1, n)) = n
  BY <1>1, SubSeqProperties
<1>4. SubSeq(s, 1, n) \in Seq(S)
  BY <1>1, SubSeqProperties
<1>5. QED
  BY <1>2, <1>3, <1>4 DEF n

(* A daemon's death changes no stack's height. *)
LEMMA DeadFileSystem ==
    ASSUME NEW s \in Seq(FileSystems), NEW i \in DOMAIN s
    PROVE  [s[i] EXCEPT !.alive = FALSE] \in FileSystems
<1>1. s[i] \in FileSystems
  OBVIOUS
<1>2. QED
  BY <1>1 DEF FileSystems

LEMMA OrphanedStack ==
    ASSUME NEW s \in Seq(FileSystems), NEW I
    PROVE  /\ Orphaned(s, I) \in Seq(FileSystems)
           /\ Len(Orphaned(s, I)) = Len(s)
BY LenProperties, DeadFileSystem DEF Orphaned

(* A handler that moves within its RPC stays well-typed, and changes        *)
(* nothing but where it is and what it answers.                             *)
Moved(c) == \E pc \in PcsOf(rpc[c].op), code \in Codes : Move(c, pc, code)

LEMMA MoveType ==
    ASSUME TypeOK, NEW c \in Calls, rpc[c].op # "none", Moved(c)
    PROVE  /\ rpc' \in [Calls -> Handlers]
           /\ \A d \in Calls : /\ rpc'[d].pc \in PcsOf(rpc'[d].op)
                               /\ rpc'[d].target = None <=> rpc'[d].op = "none"
           /\ \A d \in Calls \ {c} : rpc'[d] = rpc[d]
           /\ rpc'[c].op = rpc[c].op /\ rpc'[c].target = rpc[c].target
           /\ rpc'[c].solo = rpc[c].solo
<1>. PICK pc \in PcsOf(rpc[c].op), code \in Codes : Move(c, pc, code)
  BY DEF Moved
<1>1. pc \in {"idle", "check", "mkdir", "config", "mount", "cleanup", "exists",
             "recheck", "umount", "postcheck", "rmdir", "reply"}
  BY DEF TypeOK, Handlers, Ops, PcsOf
<1>2. [rpc[c] EXCEPT !.pc = pc, !.code = code] \in Handlers
  BY <1>1 DEF TypeOK, Handlers
<1>3. rpc' = [rpc EXCEPT ![c] = [rpc[c] EXCEPT !.pc = pc, !.code = code]]
  BY DEF Move, TypeOK
<1>4. \A d \in Calls \ {c} : rpc'[d] = rpc[d]
  BY <1>3 DEF TypeOK
<1>5. rpc'[c].op = rpc[c].op /\ rpc'[c].target = rpc[c].target /\ rpc'[c].pc = pc
        /\ rpc'[c].solo = rpc[c].solo
  BY <1>3 DEF TypeOK, Handlers
<1>6. QED
  BY <1>2, <1>3, <1>4, <1>5 DEF TypeOK

------------------------------------------------------------------------------
(* Type correctness, one lemma for each kind of step. *)

LEMMA TypeInit == ASSUME Init PROVE TypeOK
BY ConstantsOK DEF Init, TypeOK, Idle, Handlers, PcsOf, Ops, Codes, FileSystems

LEMMA TypeOrchestrator ==
    ASSUME TypeOK,
           \/ \E c \in Calls, t \in Targets, op \in Ops, ro \in ReadonlyFlags :
                 Issue(c, t, op, ro)
           \/ \E c \in Calls : Answer(c)
           \/ \E t \in Targets : Abandon(t) \/ Rethink(t)
    PROVE  TypeOK'
<1>1. ASSUME NEW c \in Calls, NEW t \in Targets, NEW op \in Ops,
             NEW ro \in ReadonlyFlags, Issue(c, t, op, ro)
      PROVE  TypeOK'
  <2>1. \A d \in Calls : rpc'[d] \in Handlers
    <3>1. rpc'[c] \in Handlers
      BY <1>1, ConstantsOK DEF Issue, Handlers, Ops, Codes
    <3>2. ASSUME NEW d \in Calls \ {c} PROVE rpc'[d] \in Handlers
      <4>1. [rpc[d] EXCEPT !.solo = FALSE] \in Handlers
        BY DEF TypeOK, Handlers
      <4>2. QED
        BY <1>1, <4>1 DEF TypeOK, Issue
    <3>3. QED
      BY <3>1, <3>2
  <2>2. ASSUME NEW d \in Calls
        PROVE  /\ rpc'[d].pc \in PcsOf(rpc'[d].op)
               /\ rpc'[d].target = None <=> rpc'[d].op = "none"
    BY <1>1, ConstantsOK DEF TypeOK, Issue, Handlers, PcsOf, Ops
  <2>3. rpc' \in [Calls -> Handlers]
    BY <1>1, <2>1 DEF Issue
  <2>4. QED
    BY <1>1, <2>2, <2>3 DEF TypeOK, Issue, files
<1>2. ASSUME NEW c \in Calls, Answer(c) PROVE TypeOK'
  BY <1>2, ConstantsOK DEF TypeOK, Answer, files, Handlers, PcsOf, Ops, Codes, Idle
<1>3. ASSUME NEW t \in Targets, Abandon(t) PROVE TypeOK'
  BY <1>3, ConstantsOK DEF TypeOK, Abandon, files
<1>4. ASSUME NEW t \in Targets, Rethink(t) PROVE TypeOK'
  BY <1>4 DEF TypeOK, Rethink, files, Ops
<1>5. QED
  BY <1>1, <1>2, <1>3, <1>4

LEMMA PublishMoves ==
    ASSUME TypeOK, NEW c \in Calls, NodePublishVolume(c)
    PROVE  rpc[c].op = "publish" /\ rpc[c].target \in Targets /\ Moved(c)
<1>1. rpc[c].op = "publish"
  BY DEF NodePublishVolume, PublishCheck, MkdirAll, CreateConfigFile, Mount,
         RemoveConfigFiles, At
<1>2. rpc[c].target \in Targets /\ rpc[c].code \in Codes
  BY <1>1 DEF TypeOK, Handlers
<1>3. Moved(c)
  BY <1>1, <1>2
     DEF NodePublishVolume, PublishCheck, MkdirAll, CreateConfigFile, Mount,
         RemoveConfigFiles, FailsInternal, Goto, Reply, Moved, PcsOf, Codes, Stat
<1>4. QED
  BY <1>1, <1>2, <1>3

LEMMA UnpublishMoves ==
    ASSUME TypeOK, NEW c \in Calls, NodeUnpublishVolume(c)
    PROVE  rpc[c].op = "unpublish" /\ rpc[c].target \in Targets /\ Moved(c)
<1>1. rpc[c].op = "unpublish"
  BY DEF NodeUnpublishVolume, UnpublishCheck, PathExists, DoUnmountCheck, Unmount,
         PostUnmountCheck, RemoveDir, At
<1>2. rpc[c].target \in Targets /\ rpc[c].code \in Codes
  BY <1>1 DEF TypeOK, Handlers
<1>3. Moved(c)
  BY <1>1, <1>2
     DEF NodeUnpublishVolume, UnpublishCheck, PathExists, DoUnmountCheck, Unmount,
         PostUnmountCheck, RemoveDir, FailsInternal, Goto, Reply, Moved, PcsOf, Codes
<1>4. QED
  BY <1>1, <1>2, <1>3

LEMMA MovedTo ==
    ASSUME TypeOK, NEW c \in Calls, NEW pc, NEW code, Move(c, pc, code)
    PROVE  rpc'[c].pc = pc /\ rpc'[c].code = code
<1>1. rpc[c] \in Handlers
  BY DEF TypeOK
<1>2. rpc'[c] = [rpc[c] EXCEPT !.pc = pc, !.code = code]
  BY DEF Move, TypeOK
<1>3. QED
  BY <1>1, <1>2 DEF Handlers

FilesTypeOK ==
    /\ dir \in [Targets -> {"none", "co", "sp"}]
    /\ mounts \in [Targets -> Seq(FileSystems)]
    /\ tmp \in Int
    /\ budget \in [fault : 0..MaxFaults, timeout : 0..MaxTimeouts,
                   crash : 0..MaxCrashes]

LEMMA FaultType ==
    ASSUME TypeOK, NEW s, Fault(s)
    PROVE  budget' \in [fault : 0..MaxFaults, timeout : 0..MaxTimeouts,
                       crash : 0..MaxCrashes]
BY ConstantsOK DEF Fault, TypeOK

LEMMA PublishFiles ==
    ASSUME TypeOK, NEW c \in Calls, NodePublishVolume(c)
    PROVE  FilesTypeOK'
<1>t. rpc[c].target \in Targets /\ rpc[c].ro \in BOOLEAN
  BY PublishMoves DEF TypeOK, Handlers
<1>1. CASE PublishCheck(c)
  BY <1>1, FaultType DEF PublishCheck, FailsInternal, files, TypeOK, FilesTypeOK
<1>2. CASE MkdirAll(c)
  BY <1>2, <1>t, FaultType DEF MkdirAll, FailsInternal, files, TypeOK, FilesTypeOK
<1>3. CASE CreateConfigFile(c)
  BY <1>3, FaultType DEF CreateConfigFile, TypeOK, FilesTypeOK
<1>4. CASE Mount(c)
  <2>1. [ro |-> rpc[c].ro, alive |-> TRUE] \in FileSystems
    BY <1>t DEF FileSystems
  <2>2. Append(mounts[rpc[c].target], [ro |-> rpc[c].ro, alive |-> TRUE])
          \in Seq(FileSystems)
    BY <2>1, <1>t, AppendProperties DEF TypeOK
  <2>3. dir' = dir /\ tmp' = tmp
    BY <1>4 DEF Mount
  <2>4. \/ mounts' = mounts
        \/ mounts' = [mounts EXCEPT ![rpc[c].target] =
                        Append(@, [ro |-> rpc[c].ro, alive |-> TRUE])]
    BY <1>4 DEF Mount
  <2>5. budget' = budget \/ Fault("mount")
    BY <1>4 DEF Mount
  <2>6. mounts' \in [Targets -> Seq(FileSystems)]
    BY <1>t, <2>2, <2>4 DEF TypeOK
  <2>7. QED
    BY <2>3, <2>5, <2>6, FaultType DEF TypeOK, FilesTypeOK
<1>5. CASE RemoveConfigFiles(c)
  <2>1. PICK left \in 0..2 : /\ left <= budget.fault /\ tmp' = tmp - 2 + left
                            /\ budget' = [budget EXCEPT !.fault = @ - left]
    BY <1>5 DEF RemoveConfigFiles
  <2>2. tmp' \in Int /\ budget.fault - left \in 0..MaxFaults
    BY <2>1, ConstantsOK DEF TypeOK
  <2>3. QED
    BY <1>5, <2>1, <2>2 DEF RemoveConfigFiles, TypeOK, FilesTypeOK
<1>6. QED
  BY <1>1, <1>2, <1>3, <1>4, <1>5 DEF NodePublishVolume

LEMMA UnpublishFiles ==
    ASSUME TypeOK, NEW c \in Calls, NodeUnpublishVolume(c)
    PROVE  FilesTypeOK'
<1>t. rpc[c].target \in Targets
  BY UnpublishMoves
<1>. USE DEF FailsInternal, files, TypeOK, FilesTypeOK
<1>1. CASE UnpublishCheck(c)
  BY <1>1, FaultType DEF UnpublishCheck
<1>2. CASE PathExists(c)
  BY <1>2, FaultType DEF PathExists
<1>3. CASE DoUnmountCheck(c)
  BY <1>3, FaultType DEF DoUnmountCheck
<1>4. CASE Unmount(c)
  <2>1. mounts[rpc[c].target] # <<>> =>
          Front(mounts[rpc[c].target]) \in Seq(FileSystems)
    BY <1>t, FrontOfStack
  <2>2. QED
    BY <1>4, <1>t, <2>1, FaultType DEF Unmount
<1>5. CASE PostUnmountCheck(c)
  BY <1>5, FaultType DEF PostUnmountCheck
<1>6. CASE RemoveDir(c)
  BY <1>6, <1>t, FaultType DEF RemoveDir
<1>7. QED
  BY <1>1, <1>2, <1>3, <1>4, <1>5, <1>6 DEF NodeUnpublishVolume

LEMMA TypeHandle ==
    ASSUME TypeOK, NEW c \in Calls, Handle(c)
    PROVE  TypeOK'
<1>1. FilesTypeOK'
  BY PublishFiles, UnpublishFiles DEF Handle
<1>2. rpc[c].op # "none" /\ Moved(c)
  BY PublishMoves, UnpublishMoves DEF Handle
<1>3. QED
  BY <1>1, <1>2, MoveType DEF Handle, FilesTypeOK, TypeOK

LEMMA TypeFailure ==
    ASSUME TypeOK, Crash \/ \E t \in Targets : DaemonDies(t)
    PROVE  TypeOK'
<1>1. CASE Crash
  <2>1. \A t \in Targets : Orphaned(mounts[t], DOMAIN mounts[t]) \in Seq(FileSystems)
    BY OrphanedStack DEF TypeOK
  <2>2. Idle \in Handlers /\ Idle.pc \in PcsOf(Idle.op) /\ Idle.target = None
          /\ Idle.op = "none"
    BY DEF Idle, Handlers, PcsOf, Ops, Codes
  <2>3. rpc' \in [Calls -> Handlers] /\ \A c \in Calls : rpc'[c] = Idle
    BY <1>1, <2>2 DEF Crash
  <2>4. FilesTypeOK'
    <3>1. mounts' \in [Targets -> Seq(FileSystems)]
      BY <1>1, <2>1 DEF Crash
    <3>2. budget' \in [fault : 0..MaxFaults, timeout : 0..MaxTimeouts,
                      crash : 0..MaxCrashes]
      BY <1>1, ConstantsOK DEF TypeOK, Crash
    <3>3. QED
      BY <1>1, <3>1, <3>2 DEF TypeOK, Crash, FilesTypeOK
  <2>5. QED
    BY <1>1, <2>2, <2>3, <2>4 DEF TypeOK, Crash, FilesTypeOK
<1>2. ASSUME NEW t \in Targets, DaemonDies(t) PROVE TypeOK'
  <2>1. \A i : Orphaned(mounts[t], {i}) \in Seq(FileSystems)
    BY OrphanedStack DEF TypeOK
  <2>2. FilesTypeOK'
    <3>a. PICK i : mounts' = [mounts EXCEPT ![t] = Orphaned(@, {i})]
      BY <1>2, Zenon DEF DaemonDies
    <3>b. budget.crash > 0 /\ budget' = [budget EXCEPT !.crash = @ - 1]
      BY <1>2, Zenon DEF DaemonDies
    <3>1. mounts' \in [Targets -> Seq(FileSystems)]
      BY <3>a, <2>1 DEF TypeOK
    <3>2. budget' \in [fault : 0..MaxFaults, timeout : 0..MaxTimeouts,
                      crash : 0..MaxCrashes]
      BY <3>b, ConstantsOK DEF TypeOK
    <3>3. QED
      BY <1>2, <3>1, <3>2 DEF TypeOK, DaemonDies, FilesTypeOK
  <2>3. QED
    BY <1>2, <2>2 DEF TypeOK, DaemonDies, FilesTypeOK
<1>3. QED
  BY <1>1, <1>2

(* The variables keep their types and a handler stays within the states of  *)
(* its own RPC, in every behaviour.                                         *)
THEOREM TypeCorrect == Spec => []TypeOK
<1>1. Init => TypeOK
  BY TypeInit
<1>2. TypeOK /\ [Next]_vars => TypeOK'
  <2>1. TypeOK /\ Next => TypeOK'
    BY TypeOrchestrator, TypeHandle, TypeFailure DEF Next
  <2>2. TypeOK /\ UNCHANGED vars => TypeOK'
    BY DEF TypeOK, vars
  <2>3. QED
    BY <2>1, <2>2
<1>3. QED
  BY <1>1, <1>2, PTL DEF Spec

------------------------------------------------------------------------------
(* What answers say.  The inductive invariant: a file system needs a         *)
(* directory; a handler marked solo is alone on its target; what a solo      *)
(* handler is about to answer is true already; and as long as no call was    *)
(* abandoned, every handler is the one its target waits for and is solo, and *)
(* none runs for a target the orchestrator is done with.                     *)

MountsHaveDir == \A t \in Targets : mounts[t] # <<>> => dir[t] # "none"

SoloAlone ==
    \A c, d \in Calls :
        rpc[c].solo /\ rpc[c].op # "none" /\ rpc[d].target = rpc[c].target => d = c

Decided(c) == rpc[c].pc \in {"cleanup", "reply"} /\ rpc[c].code = "OK"
OutcomeHolds(c) ==
    IF rpc[c].op = "publish" THEN mounts[rpc[c].target] # <<>> ELSE Gone(rpc[c].target)
DecisionsHold ==
    \A c \in Calls : rpc[c].solo /\ rpc[c].op # "none" /\ Decided(c) => OutcomeHolds(c)

Attended ==
    \A c \in Calls : rpc[c].op # "none" =>
        waiting[rpc[c].target] = c /\ rpc[c].solo /\ goal[rpc[c].target] # "done"
Settled == \A t \in Targets : goal[t] = "done" => Gone(t)

ReplyInv ==
    /\ TypeOK /\ MountsHaveDir /\ SoloAlone /\ DecisionsHold
    /\ Used("timeout") = 0 => Attended /\ Settled

LEMMA ReplyInvInit == ASSUME Init PROVE ReplyInv
<1>1. TypeOK
  BY TypeInit
<1>2. QED
  BY <1>1 DEF Init, ReplyInv, MountsHaveDir, SoloAlone, DecisionsHold, Attended,
              Settled, Idle

(* A new call takes a free slot, and costs the others on its path their     *)
(* solitude.                                                                *)
LEMMA IssueFrame ==
    ASSUME TypeOK, NEW c \in Calls, NEW t \in Targets, NEW op \in Ops,
           NEW ro \in ReadonlyFlags, Issue(c, t, op, ro)
    PROVE  /\ rpc[c].op = "none" /\ rpc[c].target = None
           /\ rpc'[c].op = op /\ rpc'[c].target = t /\ rpc'[c].pc = "check"
           /\ rpc[c] = Idle /\ rpc'[c].code = "none"
           /\ rpc'[c].solo <=> On(t) = {}
           /\ \A d \in Calls \ {c} :
              /\ rpc'[d].op = rpc[d].op /\ rpc'[d].target = rpc[d].target
              /\ rpc'[d].pc = rpc[d].pc /\ rpc'[d].code = rpc[d].code
              /\ rpc'[d].solo <=> rpc[d].solo /\ rpc[d].target # t
<1>1. rpc[c] = Idle /\ rpc \in [Calls -> Handlers]
  BY DEF Issue, TypeOK
<1>. DEFINE alone == On(t) = {}
<1>2. rpc'[c] = [pc |-> "check", op |-> op, target |-> t, ro |-> ro,
                 solo |-> alone, code |-> "none"]
  BY DEF Issue
<1>3. \A d \in Calls \ {c} :
         rpc'[d] = IF rpc[d].target = t THEN [rpc[d] EXCEPT !.solo = FALSE]
                                        ELSE rpc[d]
  BY DEF Issue, On
<1>4. /\ rpc[c].op = "none" /\ rpc[c].target = None
      /\ rpc'[c].op = op /\ rpc'[c].target = t /\ rpc'[c].pc = "check"
      /\ rpc'[c].code = "none"
  BY <1>1, <1>2 DEF Idle
<1>5. rpc'[c].solo <=> On(t) = {}
  <2>1. alone \in BOOLEAN
    OBVIOUS
  <2>. HIDE DEF alone
  <2>2. rpc'[c].solo = alone
    BY <1>2, <2>1
  <2>3. QED
    BY <2>2 DEF alone
<1>6. ASSUME NEW d \in Calls \ {c}
      PROVE  /\ rpc'[d].op = rpc[d].op /\ rpc'[d].target = rpc[d].target
             /\ rpc'[d].pc = rpc[d].pc /\ rpc'[d].code = rpc[d].code
             /\ rpc'[d].solo <=> rpc[d].solo /\ rpc[d].target # t
  <2>1. rpc[d] \in Handlers
    BY <1>1
  <2>2. QED
    BY <1>3, <2>1 DEF Handlers
<1>7. QED
  BY <1>1, <1>4, <1>5, <1>6

LEMMA ReplyInvIssue ==
    ASSUME ReplyInv, NEW c \in Calls, NEW t \in Targets, NEW op \in Ops,
           NEW ro \in ReadonlyFlags, Issue(c, t, op, ro)
    PROVE  ReplyInv'
<1>1. TypeOK'
  BY TypeOrchestrator DEF ReplyInv
<1>2. /\ rpc[c].op = "none" /\ rpc[c].target = None
      /\ rpc'[c].op = op /\ rpc'[c].target = t /\ rpc'[c].pc = "check"
      /\ rpc'[c].solo <=> On(t) = {}
      /\ \A d \in Calls \ {c} :
            /\ rpc'[d].op = rpc[d].op /\ rpc'[d].target = rpc[d].target
            /\ rpc'[d].pc = rpc[d].pc /\ rpc'[d].code = rpc[d].code
            /\ rpc'[d].solo <=> rpc[d].solo /\ rpc[d].target # t
  BY IssueFrame DEF ReplyInv
<1>3. SoloAlone'
  <2>. SUFFICES ASSUME NEW d \in Calls, NEW e \in Calls, rpc'[d].solo,
                       rpc'[d].op # "none", rpc'[e].target = rpc'[d].target
                PROVE  e = d
    BY DEF SoloAlone
  <2>1. CASE d = c
    BY <2>1, <1>2 DEF On
  <2>2. CASE d # c
    BY <2>2, <1>2 DEF ReplyInv, SoloAlone
  <2>3. QED
    BY <2>1, <2>2
<1>4. DecisionsHold'
  BY <1>2 DEF ReplyInv, DecisionsHold, Decided, OutcomeHolds, Gone, Issue, files
<1>5. (Used("timeout") = 0 => Attended /\ Settled)'
  <2>. SUFFICES ASSUME Used("timeout") = 0 PROVE Attended' /\ Settled'
    BY DEF Used, Issue
  <2>1. Attended /\ Settled
    BY DEF ReplyInv
  <2>2. \A d \in Calls : rpc[d].target # t
    BY <2>1, ConstantsOK DEF Attended, Issue, ReplyInv, TypeOK
  <2>3. rpc'[c].solo
    BY <1>2, <2>2 DEF On
  <2>4. Attended'
    <3>1. waiting'[t] = c /\ goal'[t] # "done"
      BY DEF Issue, ReplyInv, TypeOK, Ops
    <3>2. ASSUME NEW d \in Calls \ {c}, rpc[d].op # "none"
          PROVE  /\ waiting'[rpc[d].target] = d /\ rpc'[d].solo
                 /\ goal'[rpc[d].target] # "done"
      BY <3>2, <1>2, <2>1, <2>2 DEF Attended, Issue, ReplyInv, TypeOK
    <3>3. QED
      BY <1>2, <2>3, <3>1, <3>2 DEF Attended
  <2>5. Settled'
    BY <2>1 DEF Settled, Gone, Issue, files
  <2>6. QED
    BY <2>4, <2>5
<1>6. QED
  BY <1>1, <1>3, <1>4, <1>5 DEF ReplyInv, MountsHaveDir, Issue, files

LEMMA ReplyInvAnswer ==
    ASSUME ReplyInv, NEW c \in Calls, Answer(c)
    PROVE  ReplyInv'
<1>1. TypeOK'
  BY TypeOrchestrator DEF ReplyInv
<1>2. /\ rpc[c].op # "none" /\ rpc[c].target \in Targets
      /\ rpc'[c] = Idle /\ \A d \in Calls \ {c} : rpc'[d] = rpc[d]
  BY DEF Answer, ReplyInv, TypeOK, Handlers, PcsOf
<1>3. SoloAlone' /\ DecisionsHold'
  BY <1>2, ConstantsOK
     DEF ReplyInv, SoloAlone, DecisionsHold, Decided, OutcomeHolds, Gone, Answer,
         files, Idle, TypeOK
<1>4. (Used("timeout") = 0 => Attended /\ Settled)'
  <2>. SUFFICES ASSUME Used("timeout") = 0 PROVE Attended' /\ Settled'
    BY DEF Used, Answer
  <2>1. Attended /\ Settled
    BY DEF ReplyInv
  <2>2. \A d \in Calls \ {c} : rpc[d].target # rpc[c].target
    BY <2>1, <1>2 DEF Attended, ReplyInv, TypeOK
  <2>3. \A t \in Targets \ {rpc[c].target} :
           waiting'[t] = waiting[t] /\ goal'[t] = goal[t]
    BY DEF Answer, ReplyInv, TypeOK
  <2>4. Attended'
    <3>. SUFFICES ASSUME NEW d \in Calls, rpc'[d].op # "none"
                  PROVE  waiting'[rpc'[d].target] = d /\ rpc'[d].solo
                           /\ goal'[rpc'[d].target] # "done"
      BY DEF Attended
    <3>1. d # c
      BY <1>2 DEF Idle
    <3>2. rpc'[d] = rpc[d] /\ rpc[d].target # rpc[c].target
      BY <3>1, <1>2, <2>2
    <3>3. rpc[d].target \in Targets \ {rpc[c].target}
      BY <3>2 DEF ReplyInv, TypeOK, Handlers
    <3>4. QED
      BY <2>1, <2>3, <3>2, <3>3 DEF Attended
  <2>5. goal'[rpc[c].target] = "done" => Gone(rpc[c].target)
    BY <1>2, <2>1
       DEF Answer, ReplyInv, TypeOK, DecisionsHold, Decided, OutcomeHolds, Attended
  <2>6. Settled'
    BY <2>1, <2>3, <2>5 DEF Settled, Gone, Answer, files
  <2>7. QED
    BY <2>4, <2>6
<1>5. QED
  BY <1>1, <1>3, <1>4 DEF ReplyInv, MountsHaveDir, Answer, files

LEMMA ReplyInvPatience ==
    ASSUME ReplyInv, NEW t \in Targets, Abandon(t) \/ Rethink(t)
    PROVE  ReplyInv'
<1>1. TypeOK'
  BY TypeOrchestrator DEF ReplyInv
<1>2. MountsHaveDir' /\ SoloAlone' /\ DecisionsHold'
  BY DEF ReplyInv, MountsHaveDir, SoloAlone, DecisionsHold, Decided, OutcomeHolds,
         Gone, Abandon, Rethink, files
<1>3. CASE Abandon(t)
  <2>1. Used("timeout")' # 0
    BY <1>3, ConstantsOK DEF Abandon, Used, ReplyInv, TypeOK
  <2>2. QED
    BY <1>1, <1>2, <2>1 DEF ReplyInv
<1>4. CASE Rethink(t)
  <2>1. (Used("timeout") = 0 => Attended /\ Settled)'
    BY <1>4 DEF Rethink, ReplyInv, Used, Attended, Settled, Gone, files, TypeOK, Handlers
  <2>2. QED
    BY <1>1, <1>2, <2>1 DEF ReplyInv
<1>5. QED
  BY <1>3, <1>4

(* A handler touches no target but its own, and never its directory under a *)
(* mounted file system.                                                     *)
LEMMA HandleOthers ==
    ASSUME TypeOK, NEW c \in Calls, Handle(c)
    PROVE  \A t \in Targets \ {rpc[c].target} :
              mounts'[t] = mounts[t] /\ dir'[t] = dir[t]
BY PublishMoves, UnpublishMoves
   DEF Handle, NodePublishVolume, NodeUnpublishVolume, PublishCheck, MkdirAll,
       CreateConfigFile, Mount, RemoveConfigFiles, UnpublishCheck, PathExists,
       DoUnmountCheck, Unmount, PostUnmountCheck, RemoveDir, FailsInternal, files, TypeOK

LEMMA HandleKeepsDir ==
    ASSUME TypeOK, MountsHaveDir, NEW c \in Calls, Handle(c)
    PROVE  MountsHaveDir'
<1>t. rpc[c].target \in Targets
  BY PublishMoves, UnpublishMoves DEF Handle
<1>. USE DEF TypeOK, FailsInternal, files, MountsHaveDir, Stat
<1>1. CASE PublishCheck(c) \/ UnpublishCheck(c) \/ PathExists(c) \/ DoUnmountCheck(c)
           \/ PostUnmountCheck(c)
  BY <1>1 DEF PublishCheck, UnpublishCheck, PathExists, DoUnmountCheck,
              PostUnmountCheck
<1>2. CASE MkdirAll(c)
  BY <1>2, <1>t DEF MkdirAll
<1>3. CASE CreateConfigFile(c) \/ RemoveConfigFiles(c)
  BY <1>3 DEF CreateConfigFile, RemoveConfigFiles
<1>4. CASE Mount(c)
  BY <1>4, <1>t DEF Mount
<1>5. CASE Unmount(c)
  BY <1>5, <1>t DEF Unmount
<1>6. CASE RemoveDir(c)
  BY <1>6, <1>t DEF RemoveDir
<1>7. QED
  BY <1>1, <1>2, <1>3, <1>4, <1>5, <1>6
     DEF Handle, NodePublishVolume, NodeUnpublishVolume

(* Where a handler decides on OK, what OK says is so.  PathExists is the    *)
(* one step at which a failing stat can pass for a missing path.            *)
LEMMA HandleDecides ==
    ASSUME "stat" \notin Faulty, TypeOK, MountsHaveDir, DecisionsHold,
           NEW c \in Calls, Handle(c), rpc[c].solo, Decided(c)'
    PROVE  OutcomeHolds(c)'
<1>t. rpc[c].target \in Targets /\ rpc[c].op # "none"
  BY PublishMoves, UnpublishMoves DEF Handle
<1>m. /\ rpc'[c].op = rpc[c].op /\ rpc'[c].target = rpc[c].target
      /\ \A pc, code : Move(c, pc, code) => rpc'[c].pc = pc /\ rpc'[c].code = code
  <2>1. rpc'[c].op = rpc[c].op /\ rpc'[c].target = rpc[c].target
    BY <1>t, MoveType, PublishMoves, UnpublishMoves DEF Handle
  <2>2. QED
    BY <2>1, MovedTo
<1>1. CASE PublishCheck(c)
  <2>1. rpc[c].op = "publish" /\ UNCHANGED files /\ ~Fault("stat")
    BY <1>1 DEF PublishCheck, FailsInternal, At, Fault
  <2>2. Stat(rpc[c].target) \in {"absent", "plain", "mounted", "broken"}
    BY DEF Stat
  <2>3. Stat(rpc[c].target) = "mounted"
    <3>1. /\ Stat(rpc[c].target) = "absent" => Move(c, "mkdir", rpc[c].code)
          /\ Stat(rpc[c].target) = "plain"  => Move(c, "config", rpc[c].code)
          /\ Stat(rpc[c].target) = "broken" => Move(c, "reply", "Internal")
      BY <1>1, <2>1, <2>2 DEF PublishCheck, FailsInternal, Goto, Reply
    <3>2. rpc'[c].pc \in {"cleanup", "reply"} /\ rpc'[c].code = "OK"
      BY DEF Decided
    <3>3. QED
      BY <1>m, <2>2, <3>1, <3>2
  <2>4. QED
    BY <2>1, <2>3, <1>t, <1>m DEF OutcomeHolds, Stat, files
<1>. USE DEF TypeOK, FailsInternal, Fault, files, Stat, Goto, Reply, At
<1>2. CASE MkdirAll(c) \/ CreateConfigFile(c)
  BY <1>2, <1>m DEF MkdirAll, CreateConfigFile, Decided
<1>3. CASE Mount(c)
  BY <1>3, <1>t, <1>m, AppendProperties DEF Mount, OutcomeHolds, Decided
<1>4. CASE RemoveConfigFiles(c)
  BY <1>4, <1>t, <1>m DEF RemoveConfigFiles, DecisionsHold, OutcomeHolds, Decided
<1>5. CASE UnpublishCheck(c) \/ DoUnmountCheck(c) \/ PostUnmountCheck(c) \/ Unmount(c)
  BY <1>5, <1>m DEF UnpublishCheck, DoUnmountCheck, PostUnmountCheck, Unmount, Decided
<1>6. CASE PathExists(c)
  BY <1>6, <1>t, <1>m DEF PathExists, OutcomeHolds, Gone, Decided
<1>7. CASE RemoveDir(c)
  BY <1>7, <1>t, <1>m DEF RemoveDir, OutcomeHolds, Gone, Decided
<1>8. QED
  BY <1>1, <1>2, <1>3, <1>4, <1>5, <1>6, <1>7
     DEF Handle, NodePublishVolume, NodeUnpublishVolume

LEMMA ReplyInvHandle ==
    ASSUME "stat" \notin Faulty, ReplyInv, NEW c \in Calls, Handle(c)
    PROVE  ReplyInv'
<1>1. TypeOK' /\ MountsHaveDir'
  BY TypeHandle, HandleKeepsDir DEF ReplyInv
<1>2. /\ rpc[c].op # "none" /\ rpc[c].target \in Targets
      /\ rpc'[c].op = rpc[c].op /\ rpc'[c].target = rpc[c].target
      /\ rpc'[c].solo = rpc[c].solo
      /\ \A d \in Calls \ {c} : rpc'[d] = rpc[d]
  BY PublishMoves, UnpublishMoves, MoveType DEF Handle, ReplyInv
<1>3. SoloAlone'
  BY <1>2 DEF ReplyInv, SoloAlone
<1>4. DecisionsHold'
  <2>. SUFFICES ASSUME NEW d \in Calls, rpc'[d].solo, rpc'[d].op # "none", Decided(d)'
                PROVE  OutcomeHolds(d)'
    BY DEF DecisionsHold
  <2>1. CASE d = c
    BY <2>1, <1>2, HandleDecides DEF ReplyInv
  <2>2. CASE d # c
    <3>1. OutcomeHolds(d) /\ rpc[d].target # rpc[c].target /\ rpc[d].target \in Targets
      BY <2>2, <1>2 DEF ReplyInv, DecisionsHold, SoloAlone, Decided, TypeOK, Handlers
    <3>2. QED
      BY <2>2, <3>1, <1>2, HandleOthers DEF ReplyInv, OutcomeHolds, Gone
  <2>3. QED
    BY <2>1, <2>2
<1>5. (Used("timeout") = 0 => Attended /\ Settled)'
  <2>. SUFFICES ASSUME Used("timeout")' = 0 PROVE Attended' /\ Settled'
    OBVIOUS
  <2>1. budget'.timeout = budget.timeout
    BY DEF Handle, NodePublishVolume, NodeUnpublishVolume, PublishCheck, MkdirAll,
           CreateConfigFile, Mount, RemoveConfigFiles, UnpublishCheck, PathExists,
           DoUnmountCheck, Unmount, PostUnmountCheck, RemoveDir, FailsInternal, Fault,
           ReplyInv, TypeOK
  <2>2. Attended /\ Settled
    BY <2>1 DEF ReplyInv, Used
  <2>3. Attended'
    BY <1>2, <2>2 DEF Attended, Handle
  <2>4. Settled'
    BY <1>2, <2>2, HandleOthers DEF Settled, Gone, Attended, Handle, ReplyInv
  <2>5. QED
    BY <2>3, <2>4
<1>6. QED
  BY <1>1, <1>3, <1>4, <1>5 DEF ReplyInv

LEMMA FailureHeight ==
    ASSUME TypeOK, Crash \/ \E t \in Targets : DaemonDies(t)
    PROVE  \A t \in Targets : Len(mounts'[t]) = Len(mounts[t])
<1>1. \A t \in Targets : \A I : Len(Orphaned(mounts[t], I)) = Len(mounts[t])
  BY OrphanedStack DEF TypeOK
<1>2. CASE Crash
  BY <1>1, <1>2 DEF Crash
<1>3. ASSUME NEW t \in Targets, DaemonDies(t)
      PROVE  \A u \in Targets : Len(mounts'[u]) = Len(mounts[u])
  <2>1. PICK i : mounts' = [mounts EXCEPT ![t] = Orphaned(@, {i})]
    BY <1>3, Zenon DEF DaemonDies
  <2>2. QED
    BY <2>1, <1>1 DEF TypeOK
<1>4. QED
  BY <1>2, <1>3

LEMMA ReplyInvFailure ==
    ASSUME ReplyInv, Crash \/ \E t \in Targets : DaemonDies(t)
    PROVE  ReplyInv'
<1>1. TypeOK'
  BY TypeFailure DEF ReplyInv
<1>2. (\A t \in Targets : mounts'[t] = <<>> <=> mounts[t] = <<>>) /\ dir' = dir
  <2>1. \A t \in Targets : Len(mounts'[t]) = Len(mounts[t])
    BY FailureHeight DEF ReplyInv
  <2>2. dir' = dir
    BY Zenon DEF Crash, DaemonDies
  <2>3. QED
    BY <1>1, <2>1, <2>2, EmptySeq DEF ReplyInv, TypeOK
<1>3. MountsHaveDir'
  BY <1>2 DEF ReplyInv, MountsHaveDir
<1>4. Settled => Settled'
  <2>1. goal' = goal
    BY Zenon DEF Crash, DaemonDies
  <2>2. QED
    BY <1>2, <2>1 DEF Settled, Gone
<1>5. Used("timeout")' = Used("timeout")
  BY DEF Crash, DaemonDies, Used, ReplyInv, TypeOK
<1>6. CASE Crash
  <2>1. \A c \in Calls : rpc'[c].op = "none"
    BY <1>6 DEF Crash, Idle
  <2>2. SoloAlone' /\ DecisionsHold' /\ Attended'
    BY <2>1 DEF SoloAlone, DecisionsHold, Attended
  <2>3. QED
    BY <1>1, <1>3, <1>4, <1>5, <2>2 DEF ReplyInv
<1>7. CASE rpc' = rpc /\ waiting' = waiting /\ goal' = goal
  <2>1. SoloAlone' /\ (Attended => Attended')
    BY <1>7 DEF SoloAlone, Attended, ReplyInv
  <2>2. DecisionsHold'
    BY <1>7, <1>2
       DEF DecisionsHold, Decided, OutcomeHolds, Gone, ReplyInv, TypeOK, Handlers
  <2>3. QED
    BY <1>1, <1>3, <1>4, <1>5, <2>1, <2>2 DEF ReplyInv
<1>8. QED
  BY <1>6, <1>7, Zenon DEF DaemonDies

(* ReplyInv is inductive as long as stat itself does not fail.              *)
LEMMA ReplyInvInvariant ==
    ASSUME "stat" \notin Faulty
    PROVE  Spec => []ReplyInv
<1>1. Init => ReplyInv
  BY ReplyInvInit
<1>2. ReplyInv /\ [Next]_vars => ReplyInv'
  <2>1. ReplyInv /\ Next => ReplyInv'
    BY ReplyInvIssue, ReplyInvAnswer, ReplyInvPatience, ReplyInvHandle,
       ReplyInvFailure DEF Next
  <2>2. ReplyInv /\ UNCHANGED vars => ReplyInv'
    BY DEF ReplyInv, TypeOK, MountsHaveDir, SoloAlone, DecisionsHold, Decided,
           OutcomeHolds, Gone, Attended, Settled, Used, vars
  <2>3. QED
    BY <2>1, <2>2
<1>3. QED
  BY <1>1, <1>2, PTL DEF Spec

(* OK to a call that ran alone is true of the path when it arrives, unless  *)
(* stat fails for reasons of its own: UnmountMountPoint takes such a        *)
(* failure for a missing path.                                              *)
THEOREM SoloRepliesSound ==
    ASSUME "stat" \notin Faulty
    PROVE  Spec => []ReplySound
<1>1. ReplyInv => ReplySound
  BY DEF ReplyInv, ReplySound, DecisionsHold, Decided, OutcomeHolds, TypeOK, PcsOf
<1>2. QED
  BY <1>1, ReplyInvInvariant, PTL

(* Without abandoned calls a path the orchestrator is done with stays gone. *)
THEOREM DoneStaysGone ==
    ASSUME "stat" \notin Faulty
    PROVE  Spec => []DoneIsGone
<1>1. ReplyInv => DoneIsGone
  BY DEF ReplyInv, DoneIsGone, Settled
<1>2. QED
  BY <1>1, ReplyInvInvariant, PTL
------------------------------------------------------------------------------
(* What a path may become.                                                  *)

LEMMA StatSame ==
    ASSUME NEW t \in Targets, mounts'[t] = mounts[t], dir'[t] = dir[t]
    PROVE  Stat(t)' = Stat(t)
BY DEF Stat

LEMMA AppendLast ==
    ASSUME NEW s \in Seq(FileSystems), NEW e \in FileSystems
    PROVE  Append(s, e) # <<>> /\ Last(Append(s, e)) = e
<1>1. Len(Append(s, e)) = Len(s) + 1 /\ Append(s, e)[Len(s) + 1] = e
  BY AppendProperties
<1>2. QED
  BY <1>1 DEF Last

LEMMA OrphanedLast ==
    ASSUME NEW s \in Seq(FileSystems), s # <<>>, NEW I
    PROVE  /\ Orphaned(s, I) # <<>>
           /\ Len(s) \in I => ~ Last(Orphaned(s, I)).alive
           /\ Len(s) \notin I => Last(Orphaned(s, I)) = Last(s)
<1>1. Len(s) \in DOMAIN s /\ s[Len(s)] \in FileSystems
  BY EmptySeq, LenProperties
<1>2. Len(Orphaned(s, I)) = Len(s)
  BY OrphanedStack
<1>3. Orphaned(s, I)[Len(s)] = IF Len(s) \in I THEN [s[Len(s)] EXCEPT !.alive = FALSE]
                                              ELSE s[Len(s)]
  BY <1>1 DEF Orphaned
<1>4. ~ [s[Len(s)] EXCEPT !.alive = FALSE].alive
  BY <1>1 DEF FileSystems
<1>5. Orphaned(s, I) # <<>>
  BY <1>1, <1>2
<1>6. QED
  BY <1>2, <1>3, <1>4, <1>5 DEF Last

(* A handler's step moves that handler alone and touches its own path alone. *)
LEMMA HandleFrame ==
    ASSUME TypeOK, NEW c \in Calls, Handle(c)
    PROVE  /\ rpc[c].op \in Ops /\ rpc[c].target \in Targets
           /\ rpc'[c].op = rpc[c].op /\ rpc'[c].target = rpc[c].target
           /\ \A d \in Calls \ {c} : rpc'[d] = rpc[d]
           /\ \A pc, code : Move(c, pc, code) => rpc'[c].pc = pc /\ rpc'[c].code = code
           /\ \A u \in Targets \ {rpc[c].target} :
                 mounts'[u] = mounts[u] /\ Stat(u)' = Stat(u)
<1>1. rpc[c].op \in Ops /\ rpc[c].target \in Targets /\ Moved(c)
  BY PublishMoves, UnpublishMoves DEF Handle, Ops
<1>2. /\ rpc'[c].op = rpc[c].op /\ rpc'[c].target = rpc[c].target
      /\ \A d \in Calls \ {c} : rpc'[d] = rpc[d]
  BY <1>1, MoveType DEF Ops
<1>3. QED
  BY <1>1, <1>2, MovedTo, HandleOthers, StatSame

(* A restart makes every mount a broken one, a daemon's death at most one.  *)
LEMMA FailureStat ==
    ASSUME TypeOK, NEW t \in Targets
    PROVE  /\ Crash => Stat(t)' = IF Stat(t) = "mounted" THEN "broken" ELSE Stat(t)
           /\ \A u \in Targets : DaemonDies(u) =>
                 \/ Stat(t)' = Stat(t)
                 \/ t = u /\ Stat(t) = "mounted" /\ Stat(t)' = "broken"
<1>1. mounts[t] \in Seq(FileSystems)
  BY DEF TypeOK
<1>2. ASSUME Crash
      PROVE  Stat(t)' = IF Stat(t) = "mounted" THEN "broken" ELSE Stat(t)
  <2>1. mounts'[t] = Orphaned(mounts[t], DOMAIN mounts[t]) /\ dir' = dir
    BY <1>2 DEF Crash
  <2>2. CASE mounts[t] = <<>>
    <3>1. mounts'[t] = <<>>
      BY <2>1, <2>2, <1>1, OrphanedStack, EmptySeq
    <3>2. QED
      BY <2>1, <2>2, <3>1 DEF Stat
  <2>3. CASE mounts[t] # <<>>
    <3>1. Len(mounts[t]) \in DOMAIN mounts[t]
      BY <1>1, <2>3, EmptySeq, LenProperties
    <3>2. mounts'[t] # <<>> /\ ~ Last(mounts'[t]).alive
      BY <1>1, <2>1, <2>3, <3>1, OrphanedLast
    <3>3. Stat(t)' = "broken" /\ Stat(t) \in {"mounted", "broken"}
      BY <2>3, <3>2 DEF Stat
    <3>4. QED
      BY <3>3
  <2>4. QED
    BY <2>2, <2>3
<1>3. ASSUME NEW u \in Targets, DaemonDies(u)
      PROVE  \/ Stat(t)' = Stat(t)
             \/ t = u /\ Stat(t) = "mounted" /\ Stat(t)' = "broken"
  <2>1. PICK i \in DOMAIN mounts[u] :
           mounts[u][i].alive /\ mounts' = [mounts EXCEPT ![u] = Orphaned(@, {i})]
    BY <1>3, Zenon DEF DaemonDies
  <2>2. dir' = dir
    BY <1>3 DEF DaemonDies
  <2>3. CASE t # u
    BY <2>1, <2>2, <2>3, StatSame DEF TypeOK
  <2>4. CASE t = u
    <3>1. mounts[t] # <<>>
      BY <1>1, <2>1, <2>4, EmptySeq
    <3>2. mounts'[t] = Orphaned(mounts[t], {i})
      BY <2>1, <2>4 DEF TypeOK
    <3>3. /\ mounts'[t] # <<>>
          /\ Len(mounts[t]) = i => ~ Last(mounts'[t]).alive
          /\ Len(mounts[t]) # i => Last(mounts'[t]) = Last(mounts[t])
      BY <1>1, <3>1, <3>2, OrphanedLast
    <3>4. CASE Len(mounts[t]) = i
      <4>1. Last(mounts[t]).alive
        BY <2>1, <2>4, <3>4 DEF Last
      <4>2. QED
        BY <2>4, <3>1, <3>3, <3>4, <4>1 DEF Stat
    <3>5. CASE Len(mounts[t]) # i
      BY <2>2, <3>1, <3>3, <3>5 DEF Stat
    <3>6. QED
      BY <3>4, <3>5
  <2>5. QED
    BY <2>3, <2>4
<1>4. QED
  BY <1>2, <1>3

(* At a broken mount a handler that is not past the check of an unpublish   *)
(* finds out and gives up, or is a publish that the mount refuses.          *)
Beyond == {"exists", "recheck", "umount", "postcheck", "rmdir"}

LEMMA CorruptHandle ==
    ASSUME TypeOK, NEW c \in Calls, Handle(c), NEW t \in Targets, rpc[c].target = t,
           Stat(t) = "broken", rpc[c].pc \notin Beyond
    PROVE  /\ mounts' = mounts /\ Stat(t)' = "broken"
           /\ rpc'[c].pc \notin Beyond
<1>f. \A pc, code : Move(c, pc, code) => rpc'[c].pc = pc
  BY HandleFrame
<1>. USE DEF Goto, Reply, FailsInternal, At, Beyond
<1>1. mounts' = mounts
  BY DEF Handle, NodePublishVolume, NodeUnpublishVolume, PublishCheck, MkdirAll,
         CreateConfigFile, Mount, RemoveConfigFiles, UnpublishCheck, PathExists,
         DoUnmountCheck, Unmount, PostUnmountCheck, RemoveDir, files
<1>2. dir' = dir
  BY DEF Handle, NodePublishVolume, NodeUnpublishVolume, PublishCheck, MkdirAll,
         CreateConfigFile, Mount, RemoveConfigFiles, UnpublishCheck, PathExists,
         DoUnmountCheck, Unmount, PostUnmountCheck, RemoveDir, files
<1>3. rpc'[c].pc \notin Beyond
  <2>1. CASE PublishCheck(c)
    BY <2>1, <1>f DEF PublishCheck
  <2>2. CASE MkdirAll(c) \/ CreateConfigFile(c)
    BY <2>2, <1>f DEF MkdirAll, CreateConfigFile
  <2>3. CASE Mount(c)
    BY <2>3, <1>f DEF Mount
  <2>4. CASE RemoveConfigFiles(c)
    BY <2>4, <1>f DEF RemoveConfigFiles
  <2>5. CASE UnpublishCheck(c)
    BY <2>5, <1>f DEF UnpublishCheck
  <2>6. QED
    BY <2>1, <2>2, <2>3, <2>4, <2>5
       DEF Handle, NodePublishVolume, NodeUnpublishVolume, PathExists, DoUnmountCheck,
           Unmount, PostUnmountCheck, RemoveDir
<1>4. QED
  BY <1>1, <1>2, <1>3, StatSame

Corrupt(t) == Stat(t) = "broken" /\ \A c \in Calls : rpc[c].target = t => rpc[c].pc \notin Beyond

LEMMA CorruptStep ==
    ASSUME TypeOK, Next, NEW t \in Targets, Corrupt(t)
    PROVE  Corrupt(t)' /\ Len(mounts'[t]) = Len(mounts[t])
<1>1. ASSUME NEW c \in Calls, Handle(c) PROVE Corrupt(t)' /\ Len(mounts'[t]) = Len(mounts[t])
  <2>1. CASE rpc[c].target = t
    BY <1>1, <2>1, CorruptHandle, HandleFrame DEF Corrupt
  <2>2. CASE rpc[c].target # t
    BY <1>1, <2>2, HandleFrame DEF Corrupt
  <2>3. QED
    BY <2>1, <2>2
<1>2. ASSUME NEW c \in Calls, NEW u \in Targets, NEW op \in Ops, NEW ro \in ReadonlyFlags,
             Issue(c, u, op, ro)
      PROVE  Corrupt(t)' /\ Len(mounts'[t]) = Len(mounts[t])
  <2>1. mounts' = mounts /\ Stat(t)' = Stat(t)
    BY <1>2, StatSame DEF Issue, files
  <2>2. QED
    BY <1>2, <2>1, IssueFrame DEF Corrupt, Beyond
<1>3. ASSUME NEW c \in Calls, Answer(c) PROVE Corrupt(t)' /\ Len(mounts'[t]) = Len(mounts[t])
  <2>1. mounts' = mounts /\ Stat(t)' = Stat(t)
    BY <1>3, StatSame DEF Answer, files
  <2>2. rpc' = [rpc EXCEPT ![c] = Idle] /\ Idle.pc \notin Beyond
    BY <1>3 DEF Answer, Idle, Beyond
  <2>3. QED
    BY <2>1, <2>2 DEF Corrupt, TypeOK
<1>4. ASSUME NEW u \in Targets, Abandon(u) \/ Rethink(u)
      PROVE  Corrupt(t)' /\ Len(mounts'[t]) = Len(mounts[t])
  <2>1. mounts' = mounts /\ Stat(t)' = Stat(t) /\ rpc' = rpc
    BY <1>4, StatSame DEF Abandon, Rethink, files
  <2>2. QED
    BY <2>1 DEF Corrupt
<1>5. ASSUME NEW u \in Targets, DaemonDies(u)
      PROVE  Corrupt(t)' /\ Len(mounts'[t]) = Len(mounts[t])
  <2>1. Stat(t)' = "broken" /\ rpc' = rpc
    BY <1>5, FailureStat DEF Corrupt, DaemonDies
  <2>2. QED
    BY <1>5, <2>1, FailureHeight DEF Corrupt
<1>6. CASE Crash
  <2>1. Stat(t)' = "broken" /\ \A c \in Calls : rpc'[c] = Idle
    BY <1>6, FailureStat DEF Corrupt, Crash
  <2>2. QED
    BY <1>6, <2>1, FailureHeight DEF Corrupt, Idle, Beyond
<1>7. QED
  BY <1>1, <1>2, <1>3, <1>4, <1>5, <1>6 DEF Next

LEMMA CorruptMeans ==
    ASSUME NEW t \in Targets
    PROVE  /\ Corrupt(t) <=> Stat(t) = "broken" /\ ~PastCheck(t)
           /\ Corrupt(t)' <=> Stat(t)' = "broken" /\ ~PastCheck(t)'
BY DEF Corrupt, PastCheck, On, Beyond

(* The handlers leave a mount without its daemon alone for good: whatever   *)
(* overlaps, fails or restarts, nothing is unmounted from its path or       *)
(* mounted on it.                                                           *)
THEOREM CorruptPathsStay == Spec => CorruptStays
<1>1. TypeOK /\ [Next]_vars =>
        [\A t \in Targets : Stat(t) = "broken" /\ ~PastCheck(t) =>
            Stat(t)' = "broken" /\ ~PastCheck(t)'
              /\ Len(mounts'[t]) = Len(mounts[t])]_vars
  BY CorruptStep, CorruptMeans
<1>2. QED
  BY <1>1, TypeCorrect, PTL DEF Spec, CorruptStays
------------------------------------------------------------------------------
(* Every call takes effect at one instant.  A handler's step shows in       *)
(* CSIVolume as nothing, as the making of the directory, as one file system *)
(* less on the path, or as the instant at which the call settles.           *)
VStatus == [t \in Targets |-> Stat(t)]
VCall == [c \in Calls |-> CallOf(rpc[c])]

Pends(pc) == pc \notin {"idle", "cleanup", "reply"}
Quiet(c, t) ==
    /\ Stat(t)' = Stat(t) /\ rpc'[c].code = rpc[c].code
    /\ \/ Pends(rpc[c].pc) /\ Pends(rpc'[c].pc)
       \/ {rpc[c].pc, rpc'[c].pc} \subseteq {"cleanup", "reply"}
Alters(c, t, op, from, to) ==
    /\ rpc[c].op = op /\ Stat(t) \in from /\ Stat(t)' \in to
    /\ rpc'[c].code = rpc[c].code /\ Pends(rpc[c].pc) /\ Pends(rpc'[c].pc)
Settles(c, t) ==
    /\ Pends(rpc[c].pc) /\ rpc'[c].pc \in {"cleanup", "reply"}
    /\ rpc'[c].code \in {"OK", "NotFound", "InvalidArgument", "Internal"}
    /\ Volume!Truthful(rpc[c].op, rpc'[c].code, Stat(t), Stat(t)')

LEMMA StatRange == \A t : Stat(t) \in {"absent", "plain", "mounted", "broken"}
BY DEF Stat

LEMMA PublishShows ==
    ASSUME TypeOK, MountsHaveDir, "stat" \notin Faulty, NEW c \in Calls, NodePublishVolume(c),
           Handle(c), NEW t \in Targets, rpc[c].target = t
    PROVE  \/ Quiet(c, t) \/ Settles(c, t)
           \/ Alters(c, t, "publish", {"absent"}, {"plain"})
<1>f. /\ \A pc, code : Move(c, pc, code) => rpc'[c].pc = pc /\ rpc'[c].code = code
      /\ rpc[c].op = "publish" /\ rpc[c].ro \in BOOLEAN
      /\ Stat(t) \in {"absent", "plain", "mounted", "broken"}
  BY HandleFrame, PublishMoves, StatRange DEF TypeOK, Handlers
<1>s. \A code : /\ Pends(rpc[c].pc) /\ Move(c, "reply", code) /\ Stat(t)' = Stat(t)
                /\ \/ code = "Internal"
                   \/ code = "OK" /\ Stat(t) = "mounted"
                => Settles(c, t)
  BY <1>f DEF Settles, Volume!Truthful
<1>. USE DEF Goto, Reply, FailsInternal, At, files
<1>1. CASE PublishCheck(c)
  <2>1. Stat(t)' = Stat(t) /\ Pends(rpc[c].pc)
    BY <1>1, StatSame DEF PublishCheck, Pends
  <2>2. \/ Move(c, "mkdir", rpc[c].code) \/ Move(c, "config", rpc[c].code)
        \/ Move(c, "reply", "OK") /\ Stat(t) = "mounted"
        \/ Move(c, "reply", "Internal")
    BY <1>1, <1>f DEF PublishCheck
  <2>3. QED
    BY <2>1, <2>2, <1>f, <1>s DEF Quiet, Pends
<1>2. CASE MkdirAll(c)
  <2>1. Pends(rpc[c].pc) /\ mounts' = mounts
    BY <1>2 DEF MkdirAll, Pends
  <2>2. CASE UNCHANGED files /\ Move(c, "reply", "Internal")
    BY <2>1, <2>2, <1>s, StatSame
  <2>3. CASE /\ Stat(t) # "broken" /\ Move(c, "config", rpc[c].code)
             /\ dir' = [dir EXCEPT ![t] = IF @ = "none" THEN "sp" ELSE @]
    <3>1. dir'[t] = IF dir[t] = "none" THEN "sp" ELSE dir[t]
      BY <2>3 DEF TypeOK
    <3>2. rpc'[c].code = rpc[c].code /\ Pends(rpc'[c].pc)
      BY <2>3, <1>f DEF Pends
    <3>3. CASE dir[t] = "none"
      <4>1. mounts[t] = <<>>
        BY <3>3 DEF MountsHaveDir
      <4>2. Stat(t) = "absent" /\ Stat(t)' = "plain"
        BY <2>1, <3>1, <3>3, <4>1 DEF Stat
      <4>3. QED
        BY <4>2, <3>2, <2>1, <1>f DEF Alters
    <3>4. CASE dir[t] # "none"
      BY <2>1, <3>1, <3>2, <3>4, StatSame DEF Quiet
    <3>5. QED
      BY <3>3, <3>4
  <2>4. QED
    BY <1>2, <2>2, <2>3 DEF MkdirAll
<1>3. CASE CreateConfigFile(c)
  <2>1. Stat(t)' = Stat(t) /\ Pends(rpc[c].pc)
    BY <1>3, StatSame DEF CreateConfigFile, Pends
  <2>2. Move(c, "mount", rpc[c].code) \/ Move(c, "reply", "Internal")
    BY <1>3 DEF CreateConfigFile
  <2>3. QED
    BY <2>1, <2>2, <1>f, <1>s DEF Quiet, Pends
<1>4. CASE Mount(c)
  <2>1. Pends(rpc[c].pc) /\ dir' = dir
    BY <1>4 DEF Mount, Pends
  <2>2. CASE /\ Stat(t) \in {"plain", "mounted"} /\ Move(c, "cleanup", "OK")
             /\ mounts' = [mounts EXCEPT ![t] = Append(@, [ro |-> rpc[c].ro, alive |-> TRUE])]
    <3>1. [ro |-> rpc[c].ro, alive |-> TRUE] \in FileSystems
      BY <1>f DEF FileSystems
    <3>2. mounts[t] \in Seq(FileSystems)
      BY DEF TypeOK
    <3>3. mounts'[t] # <<>> /\ Last(mounts'[t]).alive
      BY <2>2, <3>1, <3>2, AppendLast DEF TypeOK
    <3>4. Stat(t)' = "mounted"
      BY <3>3 DEF Stat
    <3>5. QED
      BY <2>1, <2>2, <3>4, <1>f DEF Settles, Volume!Truthful
  <2>3. CASE /\ mounts' = mounts
             /\ \E code \in {"InvalidArgument", "Internal"} : Move(c, "cleanup", code)
    <3>1. Stat(t)' = Stat(t)
      BY <2>1, <2>3, StatSame
    <3>2. QED
      BY <2>1, <2>3, <3>1, <1>f DEF Settles, Volume!Truthful
  <2>4. QED
    BY <1>4, <2>2, <2>3 DEF Mount
<1>5. CASE RemoveConfigFiles(c)
  <2>1. Stat(t)' = Stat(t) /\ rpc[c].pc = "cleanup"
    BY <1>5, StatSame DEF RemoveConfigFiles
  <2>2. QED
    BY <1>5, <2>1, <1>f DEF Quiet, RemoveConfigFiles
<1>6. QED
  BY <1>1, <1>2, <1>3, <1>4, <1>5 DEF NodePublishVolume

LEMMA UnpublishShows ==
    ASSUME TypeOK, MountsHaveDir, "stat" \notin Faulty, NEW c \in Calls, NodeUnpublishVolume(c),
           Handle(c), NEW t \in Targets, rpc[c].target = t
    PROVE  \/ Quiet(c, t) \/ Settles(c, t)
           \/ Alters(c, t, "unpublish", {"mounted", "broken"}, {"plain", "mounted", "broken"})
<1>f. /\ \A pc, code : Move(c, pc, code) => rpc'[c].pc = pc /\ rpc'[c].code = code
      /\ rpc[c].op = "unpublish"
      /\ Stat(t) \in {"absent", "plain", "mounted", "broken"}
  BY HandleFrame, UnpublishMoves, StatRange
<1>s. \A code : /\ Pends(rpc[c].pc) /\ Move(c, "reply", code) /\ Stat(t)' = Stat(t)
                /\ \/ code = "Internal"
                   \/ code = "OK" /\ Stat(t) = "absent"
                   \/ code = "NotFound" /\ Stat(t) \in {"absent", "plain"}
                => Settles(c, t)
  BY <1>f DEF Settles, Volume!Truthful
<1>p. Pends(rpc[c].pc)
  BY DEF NodeUnpublishVolume, UnpublishCheck, PathExists, DoUnmountCheck, Unmount,
         PostUnmountCheck, RemoveDir, At, Pends
<1>g. \A pc : Move(c, pc, rpc[c].code) /\ Pends(pc) /\ Stat(t)' = Stat(t) => Quiet(c, t)
  BY <1>f, <1>p DEF Quiet
<1>. USE DEF Goto, Reply, FailsInternal, files
<1>1. CASE UnpublishCheck(c) \/ PathExists(c) \/ DoUnmountCheck(c) \/ PostUnmountCheck(c)
  <2>1. Stat(t)' = Stat(t)
    BY <1>1, StatSame DEF UnpublishCheck, PathExists, DoUnmountCheck, PostUnmountCheck
  <2>2. \/ \E pc \in {"exists", "umount", "recheck", "rmdir"} : Move(c, pc, rpc[c].code)
        \/ Move(c, "reply", "Internal")
        \/ Move(c, "reply", "OK") /\ Stat(t) = "absent"
        \/ Move(c, "reply", "NotFound") /\ Stat(t) \in {"absent", "plain"}
    BY <1>1, <1>f DEF UnpublishCheck, PathExists, DoUnmountCheck, PostUnmountCheck, Fault
  <2>3. QED
    BY <2>1, <2>2, <1>s, <1>g, <1>p DEF Pends
<1>2. CASE Unmount(c)
  <2>1. CASE UNCHANGED files /\ Move(c, "reply", "Internal")
    BY <2>1, <1>s, <1>p, StatSame
  <2>2. CASE /\ mounts[t] # <<>> /\ mounts' = [mounts EXCEPT ![t] = Front(@)]
             /\ Move(c, "postcheck", rpc[c].code) /\ dir' = dir
    <3>1. Stat(t) \in {"mounted", "broken"}
      BY <2>2 DEF Stat
    <3>2. Stat(t)' \in {"plain", "mounted", "broken"}
      BY <2>2 DEF Stat, MountsHaveDir
    <3>3. QED
      BY <2>2, <3>1, <3>2, <1>f, <1>p DEF Alters, Pends
  <2>3. QED
    BY <1>2, <2>1, <2>2 DEF Unmount
<1>3. CASE RemoveDir(c)
  <2>1. CASE UNCHANGED files /\ Move(c, "reply", "Internal")
    BY <2>1, <1>s, <1>p, StatSame
  <2>2. CASE /\ Stat(t) = "plain" /\ dir' = [dir EXCEPT ![t] = "none"]
             /\ Move(c, "reply", "OK") /\ mounts' = mounts
    <3>1. mounts'[t] = <<>> /\ dir'[t] = "none"
      BY <2>2 DEF Stat, TypeOK
    <3>2. Stat(t)' = "absent"
      BY <3>1 DEF Stat
    <3>3. QED
      BY <2>2, <3>2, <1>f, <1>p DEF Settles, Volume!Truthful
  <2>3. QED
    BY <1>3, <2>1, <2>2 DEF RemoveDir
<1>4. QED
  BY <1>1, <1>2, <1>3 DEF NodeUnpublishVolume

(* How a change of the handlers and of the paths looks from outside.        *)
VolumeSame == VStatus' = VStatus /\ VCall' = VCall

LEMMA SameVolume == ASSUME VolumeSame PROVE UNCHANGED Volume!vars
BY DEF VolumeSame, Volume!vars, VStatus, VCall

LEMMA StatusChange ==
    ASSUME NEW t \in Targets, \A u \in Targets \ {t} : Stat(u)' = Stat(u)
    PROVE  /\ VStatus' = [VStatus EXCEPT ![t] = Stat(t)'] /\ VStatus[t] = Stat(t)
           /\ Stat(t)' = Stat(t) => VStatus' = VStatus
BY DEF VStatus

PhaseOf(pc) == CASE pc = "idle" -> "idle" [] pc \in {"cleanup", "reply"} -> "settled"
                 [] OTHER -> "pending"

LEMMA CallChange ==
    ASSUME TypeOK, NEW c \in Calls, \A d \in Calls \ {c} : rpc'[d] = rpc[d],
           rpc'[c].op = rpc[c].op, rpc'[c].target = rpc[c].target
    PROVE  /\ VCall' = [VCall EXCEPT ![c].phase = PhaseOf(rpc'[c].pc),
                                     ![c].code = rpc'[c].code]
           /\ VCall[c] = [phase |-> PhaseOf(rpc[c].pc), op |-> rpc[c].op,
                          target |-> rpc[c].target, code |-> rpc[c].code]
<1>1. VCall[c] = [phase |-> PhaseOf(rpc[c].pc), op |-> rpc[c].op,
                  target |-> rpc[c].target, code |-> rpc[c].code]
  BY DEF VCall, CallOf, PhaseOf
<1>2. VCall'[c] = [phase |-> PhaseOf(rpc'[c].pc), op |-> rpc[c].op,
                   target |-> rpc[c].target, code |-> rpc'[c].code]
  BY DEF VCall, CallOf, PhaseOf
<1>3. \A d \in Calls \ {c} : VCall'[d] = VCall[d]
  BY DEF VCall
<1>4. DOMAIN VCall = Calls /\ DOMAIN VCall' = Calls /\ VCall' = [d \in Calls |-> VCall'[d]]
  BY DEF VCall
<1>5. [VCall EXCEPT ![c].phase = PhaseOf(rpc'[c].pc), ![c].code = rpc'[c].code]
        = [d \in Calls |-> IF d = c THEN VCall'[c] ELSE VCall[d]]
  <2>1. PICK a, b, o, t, p, q :
           /\ a = PhaseOf(rpc[c].pc) /\ b = rpc[c].code /\ o = rpc[c].op
           /\ t = rpc[c].target /\ p = PhaseOf(rpc'[c].pc) /\ q = rpc'[c].code
    OBVIOUS
  <2>2. PICK v : v = VCall
    OBVIOUS
  <2>3. /\ v = [d \in Calls |-> v[d]]
        /\ v[c] = [phase |-> a, op |-> o, target |-> t, code |-> b]
        /\ VCall'[c] = [phase |-> p, op |-> o, target |-> t, code |-> q]
    BY <1>1, <1>2, <2>1, <2>2 DEF VCall
  <2>4. [v EXCEPT ![c].phase = p, ![c].code = q]
          = [d \in Calls |-> IF d = c THEN [v[c] EXCEPT !.phase = p, !.code = q] ELSE v[d]]
    BY <2>3
  <2>5. [v[c] EXCEPT !.phase = p, !.code = q] = VCall'[c]
    <3>1. PICK r : r = v[c]
      OBVIOUS
    <3>2. r \in [phase : {a}, op : {o}, target : {t}, code : {b}]
      BY <2>3, <3>1
    <3>3. [r EXCEPT !.phase = p, !.code = q]
            \in [phase : {p}, op : {o}, target : {t}, code : {q}]
      BY <3>2
    <3>4. \A x \in [phase : {p}, op : {o}, target : {t}, code : {q}] :
             x = [phase |-> p, op |-> o, target |-> t, code |-> q]
      OBVIOUS
    <3>5. QED
      BY <2>3, <3>1, <3>3, <3>4
  <2>6. QED
    BY <2>1, <2>2, <2>4, <2>5
<1>6. QED
  BY <1>1, <1>3, <1>4, <1>5

LEMMA HandleVolume ==
    ASSUME TypeOK, MountsHaveDir, "stat" \notin Faulty, NEW c \in Calls, Handle(c)
    PROVE  [Volume!Next]_(Volume!vars)
<1>t. PICK t \in Targets : rpc[c].target = t
  BY HandleFrame
<1>f. /\ \A d \in Calls \ {c} : rpc'[d] = rpc[d]
      /\ rpc'[c].op = rpc[c].op /\ rpc'[c].target = t
      /\ \A u \in Targets \ {t} : Stat(u)' = Stat(u)
  BY <1>t, HandleFrame
<1>1. /\ VStatus' = [VStatus EXCEPT ![t] = Stat(t)'] /\ VStatus[t] = Stat(t)
      /\ Stat(t)' = Stat(t) => VStatus' = VStatus
  BY <1>f, StatusChange
<1>2. /\ VCall' = [VCall EXCEPT ![c].phase = PhaseOf(rpc'[c].pc), ![c].code = rpc'[c].code]
      /\ VCall[c] = [phase |-> PhaseOf(rpc[c].pc), op |-> rpc[c].op,
                     target |-> t, code |-> rpc[c].code]
      /\ DOMAIN VCall = Calls
  BY <1>f, <1>t, CallChange DEF VCall
<1>3. \A pc : /\ Pends(pc) => PhaseOf(pc) = "pending"
              /\ pc \in {"cleanup", "reply"} => PhaseOf(pc) = "settled"
  BY DEF Pends, PhaseOf
<1>4. ASSUME PhaseOf(rpc'[c].pc) = PhaseOf(rpc[c].pc), rpc'[c].code = rpc[c].code
      PROVE  VCall' = VCall
  <2>1. VCall = [d \in Calls |-> VCall[d]]
    BY DEF VCall
  <2>2. QED
    BY <1>2, <1>4, <2>1
<1>5. CASE Quiet(c, t)
  BY <1>1, <1>3, <1>4, <1>5, SameVolume DEF Quiet, VolumeSame
<1>6. CASE Settles(c, t)
  <2>1. VCall[c].phase = "pending" /\ VCall[c].op = rpc[c].op /\ VCall[c].target = t
    BY <1>2, <1>3, <1>6 DEF Settles
  <2>2. VCall' = [VCall EXCEPT ![c].phase = "settled", ![c].code = rpc'[c].code]
    BY <1>2, <1>3, <1>6 DEF Settles
  <2>3. Stat(t)' \in {"absent", "plain", "mounted", "broken"}
    BY DEF Stat
  <2>4. Volume!Settle(c)
    BY <1>1, <2>1, <2>2, <2>3, <1>6 DEF Volume!Settle, Settles, VStatus, VCall
  <2>5. QED
    BY <2>4 DEF Volume!Next
<1>7. CASE Alters(c, t, "publish", {"absent"}, {"plain"})
  <2>1. VCall' = VCall /\ Stat(t)' = "plain" /\ Stat(t) = "absent"
    BY <1>3, <1>4, <1>7 DEF Alters
  <2>2. VCall[c].phase = "pending" /\ VCall[c].op = "publish" /\ VCall[c].target = t
    BY <1>2, <1>3, <1>7 DEF Alters
  <2>3. Volume!Prepare(c)
    BY <1>1, <2>1, <2>2 DEF Volume!Prepare, Volume!Pending, VStatus, VCall
  <2>4. QED
    BY <2>3 DEF Volume!Next
<1>8. CASE Alters(c, t, "unpublish", {"mounted", "broken"}, {"plain", "mounted", "broken"})
  <2>1. /\ VCall' = VCall /\ Stat(t) \in {"mounted", "broken"}
        /\ Stat(t)' \in {"plain", "mounted", "broken"}
    BY <1>3, <1>4, <1>8 DEF Alters
  <2>2. VCall[c].phase = "pending" /\ VCall[c].op = "unpublish" /\ VCall[c].target = t
    BY <1>2, <1>3, <1>8 DEF Alters
  <2>3. Volume!Detach(c)
    BY <1>1, <2>1, <2>2 DEF Volume!Detach, Volume!Pending, VStatus, VCall
  <2>4. QED
    BY <2>3 DEF Volume!Next
<1>9. QED
  BY <1>5, <1>6, <1>7, <1>8, <1>f, <1>t, PublishShows, UnpublishShows DEF Handle

LEMMA IdleCall == CallOf(Idle) = Volume!NoCall
BY DEF CallOf, Idle, Volume!NoCall

LEMMA OrchestratorVolume ==
    ASSUME TypeOK,
           \/ \E c \in Calls : \/ \E t \in Targets, op \in Ops, ro \in ReadonlyFlags :
                                     Issue(c, t, op, ro)
                               \/ Answer(c)
           \/ \E t \in Targets : Abandon(t) \/ Rethink(t)
    PROVE  [Volume!Next]_(Volume!vars)
<1>1. UNCHANGED files /\ VStatus' = VStatus
  BY DEF Issue, Answer, Abandon, Rethink, files, VStatus, Stat
<1>2. ASSUME NEW c \in Calls, NEW t \in Targets, NEW op \in Ops, NEW ro \in ReadonlyFlags,
             Issue(c, t, op, ro)
      PROVE  Volume!Begin(c, t, op)
  <2>1. VCall[c] = Volume!NoCall
    BY <1>2, IssueFrame, IdleCall DEF VCall
  <2>2. CallOf(rpc'[c]) = [phase |-> "pending", op |-> op, target |-> t, code |-> "none"]
    BY <1>2, IssueFrame DEF CallOf
  <2>3. \A d \in Calls \ {c} : CallOf(rpc'[d]) = CallOf(rpc[d])
    BY <1>2, IssueFrame DEF CallOf
  <2>4. VCall' = [VCall EXCEPT ![c] = [phase |-> "pending", op |-> op, target |-> t,
                                       code |-> "none"]]
    BY <2>2, <2>3 DEF VCall
  <2>5. QED
    BY <1>1, <2>1, <2>4 DEF Volume!Begin, VStatus, VCall
<1>3. ASSUME NEW c \in Calls, Answer(c) PROVE Volume!End(c)
  <2>1. VCall[c].phase = "settled"
    BY <1>3 DEF Answer, VCall, CallOf
  <2>2. VCall' = [VCall EXCEPT ![c] = Volume!NoCall]
    BY <1>3, IdleCall DEF Answer, VCall, TypeOK
  <2>3. QED
    BY <1>1, <2>1, <2>2 DEF Volume!End, VStatus, VCall
<1>4. ASSUME NEW t \in Targets, Abandon(t) \/ Rethink(t) PROVE UNCHANGED Volume!vars
  BY <1>1, <1>4, SameVolume DEF Abandon, Rethink, VolumeSame, VCall
<1>5. Ops = Volume!Ops
  BY DEF Ops, Volume!Ops
<1>6. QED
  BY <1>2, <1>3, <1>4, <1>5 DEF Volume!Next

LEMMA FailureVolume ==
    ASSUME TypeOK, Crash \/ \E t \in Targets : DaemonDies(t)
    PROVE  [Volume!Next]_(Volume!vars)
<1>1. CASE Crash
  <2>1. VCall' = [c \in Calls |-> Volume!NoCall]
    BY <1>1, IdleCall DEF Crash, VCall
  <2>2. VStatus' = [t \in Targets |-> IF VStatus[t] = "mounted" THEN "broken" ELSE VStatus[t]]
    BY <1>1, FailureStat DEF VStatus
  <2>3. Volume!Restart
    BY <2>1, <2>2 DEF Volume!Restart, VStatus, VCall
  <2>4. QED
    BY <2>3 DEF Volume!Next
<1>2. ASSUME NEW t \in Targets, DaemonDies(t) PROVE [Volume!Next]_(Volume!vars)
  <2>1. VCall' = VCall
    BY <1>2 DEF DaemonDies, VCall
  <2>2. \A u \in Targets \ {t} : Stat(u)' = Stat(u)
    BY <1>2, FailureStat
  <2>3. VStatus' = [VStatus EXCEPT ![t] = Stat(t)'] /\ VStatus[t] = Stat(t)
    BY <2>2, StatusChange
  <2>4. CASE Stat(t)' = Stat(t)
    BY <2>1, <2>2, <2>4, StatusChange, SameVolume DEF VolumeSame
  <2>5. CASE Stat(t) = "mounted" /\ Stat(t)' = "broken"
    <3>1. Volume!Break(t)
      BY <2>1, <2>3, <2>5 DEF Volume!Break, VStatus, VCall
    <3>2. QED
      BY <3>1 DEF Volume!Next
  <2>6. QED
    BY <1>2, <2>4, <2>5, FailureStat
<1>3. QED
  BY <1>1, <1>2

LEMMA StepVolume ==
    ASSUME "stat" \notin Faulty, ReplyInv, [Next]_vars
    PROVE  [Volume!Next]_(Volume!vars)
<1>1. CASE UNCHANGED vars
  <2>1. VolumeSame
    BY <1>1 DEF VolumeSame, VStatus, VCall, Stat, vars
  <2>2. QED
    BY <2>1, SameVolume
<1>2. CASE Next
  BY <1>2, HandleVolume, OrchestratorVolume, FailureVolume DEF Next, ReplyInv
<1>3. QED
  BY <1>1, <1>2

LEMMA InitVolume == ASSUME Init PROVE Volume!Init
<1>1. VStatus \in [Targets -> {"absent", "plain"}]
  BY DEF Init, VStatus, Stat
<1>2. VCall = [c \in Calls |-> Volume!NoCall]
  BY IdleCall DEF Init, VCall
<1>3. QED
  BY <1>1, <1>2 DEF Volume!Init, VStatus, VCall

(* Every call takes effect at one instant between its issue and its answer, *)
(* and its code is true of that instant, as long as stat does not fail for  *)
(* reasons of its own.                                                      *)
THEOREM CallsAreAtomic ==
    ASSUME "stat" \notin Faulty
    PROVE  Spec => ImplementsVolume
BY InitVolume, StepVolume, ReplyInvInvariant, PTL DEF Spec, ImplementsVolume, Volume!Spec
==============================================================================
