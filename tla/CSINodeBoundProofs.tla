-------------------------- MODULE CSINodeBoundProofs --------------------------
(***************************************************************************)
(* Two bounds of CSINode that count handlers: how high file systems can     *)
(* stack up on a path, and how many temporary files there can be.           *)
(***************************************************************************)
EXTENDS CSINodeProofs

(* Handlers the orchestrator no longer waits for, and publish handlers that *)
(* found nothing mounted and have yet to mount.                             *)
Orphans(t) == On(t) \ {waiting[t]}
Adding(t) == {c \in On(t) : rpc[c].pc \in {"mkdir", "config", "mount"}}

OrphansBounded == \A t \in Targets : Cardinality(Orphans(t)) <= Used("timeout")
AddingBounded ==
    \A t \in Targets : Len(mounts[t]) + Cardinality(Adding(t)) <= 1 + Used("timeout")
StackInv == TypeOK /\ OrphansBounded /\ AddingBounded

LEMMA FiniteHandlers ==
    ASSUME NEW S \in SUBSET Calls
    PROVE  IsFiniteSet(S) /\ Cardinality(S) \in Nat
BY ConstantsOK, FS_Subset, FS_CardinalityType

LEMMA CountSubset ==
    ASSUME NEW T \in SUBSET Calls, NEW S \in SUBSET T
    PROVE  Cardinality(S) <= Cardinality(T)
BY FiniteHandlers, FS_Subset

LEMMA CountAdd ==
    ASSUME NEW S \in SUBSET Calls, NEW c \in Calls, c \notin S
    PROVE  Cardinality(S \cup {c}) = Cardinality(S) + 1
BY FiniteHandlers, FS_AddElement

LEMMA CountRemove ==
    ASSUME NEW S \in SUBSET Calls, NEW c \in S
    PROVE  Cardinality(S \ {c}) = Cardinality(S) - 1
BY FiniteHandlers, FS_RemoveElement

LEMMA UsedType ==
    ASSUME TypeOK
    PROVE  Used("timeout") \in Nat /\ Used("fault") \in Nat
BY ConstantsOK DEF TypeOK, Used

(* What a handler's step does to the height of a stack.                     *)
LEMMA HandleHeight ==
    ASSUME TypeOK, NEW c \in Calls, Handle(c)
    PROVE  LET t == rpc[c].target
           IN  \/ /\ rpc[c].pc # "check"
                  /\ Len(mounts'[t]) <= Len(mounts[t])
                  /\ rpc'[c].pc \in {"mkdir", "config", "mount"}
                       => rpc[c].pc \in {"mkdir", "config", "mount"}
               \/ /\ rpc[c].pc = "check" /\ mounts' = mounts
                  /\ rpc'[c].pc \in {"mkdir", "config", "mount"} => mounts[t] = <<>>
               \/ /\ rpc[c].pc = "mount" /\ rpc'[c].pc = "cleanup"
                  /\ Len(mounts'[t]) = Len(mounts[t]) + 1
<1>t. rpc[c].target \in Targets
  BY PublishMoves, UnpublishMoves DEF Handle
<1>m. \A pc, code : Move(c, pc, code) => rpc'[c].pc = pc
  BY MovedTo
<1>1. CASE PublishCheck(c)
  <2>1. Stat(rpc[c].target) \in {"absent", "plain", "mounted", "broken"}
    BY DEF Stat
  <2>2. rpc[c].pc = "check" /\ mounts' = mounts
    BY <1>1 DEF PublishCheck, At, FailsInternal, files
  <2>3. Stat(rpc[c].target) \in {"mounted", "broken"} => rpc'[c].pc = "reply"
    BY <1>1, <1>m DEF PublishCheck, Goto, Reply, FailsInternal
  <2>4. mounts[rpc[c].target] # <<>> => Stat(rpc[c].target) \in {"mounted", "broken"}
    BY DEF Stat
  <2>5. QED
    BY <2>2, <2>3, <2>4
<1>. USE DEF TypeOK, FailsInternal, Fault, files, Goto, Reply, At
<1>2. CASE MkdirAll(c) \/ CreateConfigFile(c) \/ RemoveConfigFiles(c)
  BY <1>2, <1>t, <1>m DEF MkdirAll, CreateConfigFile, RemoveConfigFiles
<1>3. CASE Mount(c)
  BY <1>3, <1>t, <1>m, AppendProperties DEF Mount
<1>4. CASE UnpublishCheck(c)
  BY <1>4, <1>t, <1>m DEF UnpublishCheck
<1>5. CASE PathExists(c) \/ DoUnmountCheck(c) \/ PostUnmountCheck(c) \/ RemoveDir(c)
  BY <1>5, <1>t, <1>m DEF PathExists, DoUnmountCheck, PostUnmountCheck, RemoveDir
<1>6. CASE Unmount(c)
  <2>1. mounts[rpc[c].target] # <<>> =>
          Len(Front(mounts[rpc[c].target])) <= Len(mounts[rpc[c].target])
    BY <1>t, FrontOfStack
  <2>2. QED
    BY <1>6, <1>t, <1>m, <2>1 DEF Unmount
<1>7. QED
  BY <1>1, <1>2, <1>3, <1>4, <1>5, <1>6
     DEF Handle, NodePublishVolume, NodeUnpublishVolume

LEMMA HandleTimeouts ==
    ASSUME TypeOK, NEW c \in Calls, Handle(c)
    PROVE  Used("timeout")' = Used("timeout")
BY DEF Handle, NodePublishVolume, NodeUnpublishVolume, PublishCheck, MkdirAll,
       CreateConfigFile, Mount, RemoveConfigFiles, UnpublishCheck, PathExists,
       DoUnmountCheck, Unmount, PostUnmountCheck, RemoveDir, FailsInternal, Fault,
       TypeOK, Used

LEMMA StackInvInit == ASSUME Init PROVE StackInv
<1>1. TypeOK
  BY TypeInit
<1>2. \A t \in Targets : On(t) = {} /\ mounts[t] = <<>>
  BY ConstantsOK DEF Init, Idle, On
<1>3. \A t \in Targets : Orphans(t) = {} /\ Adding(t) = {}
  BY <1>2 DEF Orphans, Adding
<1>4. Cardinality({}) = 0 /\ Used("timeout") \in Nat
  BY <1>1, UsedType, FS_EmptySet
<1>5. OrphansBounded
  BY <1>3, <1>4 DEF OrphansBounded
<1>6. ASSUME NEW t \in Targets
      PROVE  Len(mounts[t]) + Cardinality(Adding(t)) = 0
  <2>1. Len(mounts[t]) = 0
    BY <1>2
  <2>2. Cardinality(Adding(t)) = 0
    BY <1>3, <1>4
  <2>3. QED
    BY <2>1, <2>2
<1>7. AddingBounded
  BY <1>4, <1>6 DEF AddingBounded
<1>8. QED
  BY <1>1, <1>5, <1>7 DEF StackInv

LEMMA StackInvIssue ==
    ASSUME StackInv, NEW c \in Calls, NEW t \in Targets, NEW op \in Ops,
           NEW ro \in ReadonlyFlags, Issue(c, t, op, ro)
    PROVE  StackInv'
<1>1. TypeOK' /\ TypeOK
  BY TypeOrchestrator DEF StackInv
<1>2. /\ rpc'[c].target = t /\ rpc'[c].pc = "check"
      /\ rpc[c].target = None
      /\ \A d \in Calls \ {c} : rpc'[d].target = rpc[d].target /\ rpc'[d].pc = rpc[d].pc
  BY <1>1 DEF Issue, TypeOK, Handlers, Idle
<1>3. \A u \in Targets : Orphans(u)' = Orphans(u)
  <2>1. waiting[t] = None /\ waiting' = [waiting EXCEPT ![t] = c]
    BY DEF Issue
  <2>2. QED
    BY <2>1, <1>1, <1>2, ConstantsOK DEF Orphans, On, TypeOK
<1>4. \A u \in Targets : Adding(u)' = Adding(u)
  BY <1>2, ConstantsOK DEF Adding, On
<1>5. QED
  BY <1>1, <1>3, <1>4
     DEF StackInv, OrphansBounded, AddingBounded, Issue, files, Used

LEMMA StackInvAnswer ==
    ASSUME StackInv, NEW c \in Calls, Answer(c)
    PROVE  StackInv'
<1>1. TypeOK' /\ TypeOK
  BY TypeOrchestrator DEF StackInv
<1>2. /\ rpc[c].target \in Targets /\ rpc'[c] = Idle
      /\ \A d \in Calls \ {c} : rpc'[d] = rpc[d]
  BY <1>1 DEF Answer, TypeOK, Handlers, PcsOf
<1>3. \A u \in Targets : Orphans(u)' \subseteq Orphans(u) /\ Adding(u)' \subseteq Adding(u)
  <2>1. \A u \in Targets : waiting'[u] = waiting[u] \/ waiting[u] = c
    BY <1>1 DEF Answer, TypeOK
  <2>2. QED
    BY <2>1, <1>2, ConstantsOK DEF Orphans, Adding, On, Idle
<1>4. \A u \in Targets : Cardinality(Orphans(u)') <= Cardinality(Orphans(u))
                       /\ Cardinality(Adding(u)') <= Cardinality(Adding(u))
  BY <1>3, CountSubset DEF Orphans, Adding, On
<1>5. \A u \in Targets : /\ Cardinality(Orphans(u)) \in Nat
                        /\ Cardinality(Orphans(u)') \in Nat
                        /\ Cardinality(Adding(u)) \in Nat
                        /\ Cardinality(Adding(u)') \in Nat
                        /\ Len(mounts[u]) \in Nat
  BY <1>1, FiniteHandlers, LenProperties DEF Orphans, Adding, On, TypeOK
<1>6. UNCHANGED <<mounts, Used("timeout")>>
  BY DEF Answer, files, Used
<1>7. QED
  BY <1>1, <1>4, <1>5, <1>6, UsedType DEF StackInv, OrphansBounded, AddingBounded

LEMMA StackInvPatience ==
    ASSUME StackInv, NEW t \in Targets, Abandon(t) \/ Rethink(t)
    PROVE  StackInv'
<1>1. TypeOK' /\ TypeOK
  BY TypeOrchestrator DEF StackInv
<1>2. UNCHANGED <<rpc, mounts>>
  BY DEF Abandon, Rethink, files
<1>3. \A u \in Targets : Adding(u)' = Adding(u)
  BY <1>2 DEF Adding, On
<1>4. CASE Rethink(t)
  BY <1>1, <1>2, <1>3, <1>4
     DEF Rethink, StackInv, OrphansBounded, AddingBounded, Orphans, On, Used
<1>5. CASE Abandon(t)
  <2>1. Used("timeout")' = Used("timeout") + 1
    BY <1>1, <1>5, ConstantsOK DEF Abandon, Used, TypeOK
  <2>2. \A u \in Targets : Cardinality(Orphans(u)') <= Cardinality(Orphans(u)) + 1
    <3>. SUFFICES ASSUME NEW u \in Targets
                  PROVE  Cardinality(Orphans(u)') <= Cardinality(Orphans(u)) + 1
      OBVIOUS
    <3>1. CASE Orphans(u)' \subseteq Orphans(u)
      BY <3>1, CountSubset, FiniteHandlers DEF Orphans, On
    <3>2. CASE waiting[u] \in Calls /\ Orphans(u)' = Orphans(u) \cup {waiting[u]}
      <4>1. Orphans(u) \in SUBSET Calls /\ waiting[u] \notin Orphans(u)
        BY DEF Orphans, On
      <4>2. Cardinality(Orphans(u)') = Cardinality(Orphans(u)) + 1
        BY <3>2, <4>1, CountAdd
      <4>3. QED
        BY <4>1, <4>2, FiniteHandlers
    <3>3. Orphans(u)' \subseteq Orphans(u)
            \/ (waiting[u] \in Calls /\ Orphans(u)' = Orphans(u) \cup {waiting[u]})
      <4>1. Orphans(u)' \subseteq On(u) /\ On(u) \subseteq Orphans(u) \cup {waiting[u]}
        BY <1>2 DEF Orphans, On
      <4>2. waiting[u] \in Orphans(u)' => waiting[u] \in Calls
        BY <4>1 DEF On
      <4>3. Orphans(u) \subseteq Orphans(u)' \/ Orphans(u)' \subseteq Orphans(u)
        <5>1. waiting'[u] = waiting[u] \/ waiting'[u] = None
          BY <1>1, <1>5 DEF Abandon, TypeOK
        <5>2. None \notin On(u)
          BY ConstantsOK DEF On
        <5>3. QED
          BY <5>1, <5>2, <1>2 DEF Orphans, On
      <4>4. waiting[u] \notin Orphans(u)' => Orphans(u)' \subseteq Orphans(u)
        BY <4>1
      <4>5. waiting[u] \in Orphans(u)' /\ Orphans(u) \subseteq Orphans(u)'
              => Orphans(u)' = Orphans(u) \cup {waiting[u]}
        BY <4>1
      <4>6. QED
        BY <4>2, <4>3, <4>4, <4>5
    <3>4. QED
      BY <3>1, <3>2, <3>3
  <2>3. \A u \in Targets : /\ Cardinality(Orphans(u)) \in Nat
                          /\ Cardinality(Orphans(u)') \in Nat
                          /\ Cardinality(Adding(u)) \in Nat
                          /\ Len(mounts[u]) \in Nat
    BY <1>1, FiniteHandlers, LenProperties DEF Orphans, Adding, On, TypeOK
  <2>4. QED
    BY <1>1, <1>2, <1>3, <2>1, <2>2, <2>3, UsedType
       DEF StackInv, OrphansBounded, AddingBounded
<1>6. QED
  BY <1>4, <1>5

LEMMA StackInvHandle ==
    ASSUME StackInv, NEW c \in Calls, Handle(c)
    PROVE  StackInv'
<1>. DEFINE adding == {"mkdir", "config", "mount"}
<1>. PICK t \in Targets : t = rpc[c].target
  BY PublishMoves, UnpublishMoves DEF Handle, StackInv
<1>1. TypeOK' /\ TypeOK
  BY TypeHandle DEF StackInv
<1>2. /\ t \in Targets
      /\ \A d \in Calls : rpc'[d].target = rpc[d].target
      /\ \A d \in Calls \ {c} : rpc'[d] = rpc[d]
  BY <1>1, PublishMoves, UnpublishMoves, MoveType DEF Handle
<1>3. \A u \in Targets : On(u)' = On(u) /\ Orphans(u)' = Orphans(u)
  BY <1>2 DEF On, Orphans, Handle
<1>4. Used("timeout")' = Used("timeout") /\ Used("timeout") \in Nat
  BY <1>1, HandleTimeouts, UsedType
<1>5. OrphansBounded'
  BY <1>3, <1>4 DEF StackInv, OrphansBounded
<1>6. ASSUME NEW u \in Targets \ {t}
      PROVE  mounts'[u] = mounts[u] /\ Adding(u)' = Adding(u)
  <2>1. mounts'[u] = mounts[u]
    BY <1>1, HandleOthers
  <2>2. QED
    BY <2>1, <1>2 DEF Adding, On
<1>7. /\ Cardinality(Adding(t)) \in Nat /\ Cardinality(Adding(t)') \in Nat
      /\ Len(mounts[t]) \in Nat /\ Len(mounts'[t]) \in Nat
  BY <1>1, <1>2, FiniteHandlers, LenProperties DEF Adding, On, TypeOK
<1>8. Len(mounts'[t]) + Cardinality(Adding(t)') <= 1 + Used("timeout")
  <2>0. Len(mounts[t]) + Cardinality(Adding(t)) <= 1 + Used("timeout")
    BY <1>2 DEF StackInv, AddingBounded
  <2>1. CASE /\ Len(mounts'[t]) <= Len(mounts[t])
             /\ rpc'[c].pc \in adding => rpc[c].pc \in adding
    <3>1. Adding(t)' \subseteq Adding(t)
      BY <2>1, <1>2 DEF Adding, On
    <3>2. Cardinality(Adding(t)') <= Cardinality(Adding(t))
      BY <3>1, CountSubset DEF Adding, On
    <3>3. QED
      BY <2>0, <2>1, <3>2, <1>4, <1>7
  <2>2. CASE mounts' = mounts /\ rpc'[c].pc \in adding /\ mounts[t] = <<>>
    <3>1. Cardinality(On(t)) <= 1 + Used("timeout")
      <4>1. Cardinality(Orphans(t)) <= Used("timeout") /\ Cardinality(Orphans(t)) \in Nat
        BY <1>2, FiniteHandlers DEF StackInv, OrphansBounded, Orphans, On
      <4>2. CASE waiting[t] \in On(t)
        <5>1. Cardinality(Orphans(t)) = Cardinality(On(t)) - 1
          BY <4>2, CountRemove DEF Orphans, On
        <5>2. QED
          BY <4>1, <5>1, <1>4, FiniteHandlers DEF On
      <4>3. CASE waiting[t] \notin On(t)
        <5>1. Orphans(t) = On(t)
          BY <4>3 DEF Orphans
        <5>2. QED
          BY <4>1, <5>1, <1>4
      <4>4. QED
        BY <4>2, <4>3
    <3>2. Adding(t)' \subseteq On(t)
      BY <1>2, <1>3 DEF Adding
    <3>3. Cardinality(Adding(t)') <= Cardinality(On(t)) /\ Cardinality(On(t)) \in Nat
      BY <3>2, CountSubset, FiniteHandlers DEF On
    <3>4. QED
      BY <2>2, <3>1, <3>3, <1>4, <1>7, EmptySeq
  <2>3. CASE /\ rpc[c].pc = "mount" /\ rpc'[c].pc = "cleanup"
             /\ Len(mounts'[t]) = Len(mounts[t]) + 1
    <3>1. Adding(t)' = Adding(t) \ {c} /\ c \in Adding(t)
      BY <2>3, <1>2 DEF Adding, On
    <3>2. Cardinality(Adding(t)') = Cardinality(Adding(t)) - 1
      BY <3>1, CountRemove DEF Adding, On
    <3>3. QED
      BY <2>0, <2>3, <3>2, <1>4, <1>7
  <2>4. QED
    BY <1>1, <2>1, <2>2, <2>3, <1>7, HandleHeight
<1>9. AddingBounded'
  <2>. SUFFICES ASSUME NEW u \in Targets
                PROVE  Len(mounts'[u]) + Cardinality(Adding(u)') <= 1 + Used("timeout")'
    BY DEF AddingBounded
  <2>1. CASE u = t
    BY <2>1, <1>4, <1>8
  <2>2. CASE u # t
    BY <2>2, <1>4, <1>6 DEF StackInv, AddingBounded
  <2>3. QED
    BY <2>1, <2>2
<1>10. QED
  BY <1>1, <1>5, <1>9 DEF StackInv

LEMMA StackInvFailure ==
    ASSUME StackInv, Crash \/ \E t \in Targets : DaemonDies(t)
    PROVE  StackInv'
<1>1. TypeOK' /\ TypeOK
  BY TypeFailure DEF StackInv
<1>2. \A u \in Targets : Len(mounts'[u]) = Len(mounts[u])
  BY <1>1, FailureHeight
<1>3. Used("timeout")' = Used("timeout")
  BY <1>1 DEF Crash, DaemonDies, Used, TypeOK
<1>4. CASE Crash
  <2>1. \A u \in Targets : Orphans(u)' = {} /\ Adding(u)' = {}
    BY <1>4, ConstantsOK DEF Crash, Orphans, Adding, On, Idle
  <2>2. \A u \in Targets : Len(mounts[u]) \in Nat /\ Cardinality(Adding(u)) \in Nat
    BY <1>1, FiniteHandlers, LenProperties DEF Adding, On, TypeOK
  <2>3. Used("timeout") \in Nat
    BY <1>1, UsedType
  <2>4. Cardinality({}) = 0
    BY FS_EmptySet
  <2>5. OrphansBounded'
    BY <1>3, <2>1, <2>3, <2>4 DEF OrphansBounded
  <2>6. AddingBounded'
    <3>. SUFFICES ASSUME NEW u \in Targets
                  PROVE  Len(mounts'[u]) + Cardinality(Adding(u)') <= 1 + Used("timeout")'
      BY DEF AddingBounded
    <3>1. Len(mounts[u]) + Cardinality(Adding(u)) <= 1 + Used("timeout")
      BY DEF StackInv, AddingBounded
    <3>2. Len(mounts'[u]) = Len(mounts[u]) /\ Cardinality(Adding(u)') = 0
      BY <1>2, <2>1, <2>4
    <3>3. QED
      BY <3>1, <3>2, <2>2, <2>3, <1>3
  <2>7. QED
    BY <1>1, <2>5, <2>6 DEF StackInv
<1>5. CASE rpc' = rpc /\ waiting' = waiting
  BY <1>1, <1>2, <1>3, <1>5
     DEF StackInv, OrphansBounded, AddingBounded, Orphans, Adding, On
<1>6. QED
  BY <1>4, <1>5, Zenon DEF DaemonDies

(* However handlers overlap, fail or die, a path carries at most one file   *)
(* system more than the calls on it that were abandoned.                    *)
THEOREM StackBounded == Spec => []StackBound
<1>1. Init => StackInv
  BY StackInvInit
<1>2. StackInv /\ [Next]_vars => StackInv'
  <2>1. StackInv /\ Next => StackInv'
    BY StackInvIssue, StackInvAnswer, StackInvPatience, StackInvHandle,
       StackInvFailure DEF Next
  <2>2. StackInv /\ UNCHANGED vars => StackInv'
    BY DEF StackInv, TypeOK, OrphansBounded, AddingBounded, Orphans, Adding, On, Used,
           vars
  <2>3. QED
    BY <2>1, <2>2
<1>3. StackInv => StackBound
  <2>1. ASSUME StackInv, NEW t \in Targets
        PROVE  Cardinality(Adding(t)) \in Nat /\ Len(mounts[t]) \in Nat
    BY <2>1, FiniteHandlers, LenProperties DEF StackInv, TypeOK, Adding, On
  <2>2. QED
    BY <2>1, UsedType DEF StackInv, AddingBounded, StackBound
<1>4. QED
  BY <1>1, <1>2, <1>3, PTL DEF Spec

------------------------------------------------------------------------------
(* Temporary files *)

FilesInv == TypeOK /\ TempFilesBounded

LEMMA HoldersCount ==
    /\ IsFiniteSet(HoldsFiles) /\ HoldsFiles \subseteq Calls
    /\ Cardinality(HoldsFiles) \in Nat
BY FiniteHandlers DEF HoldsFiles

(* A handler that does not come to hold files or cease to, and leaves them  *)
(* alone, keeps the bound.                                                  *)
LEMMA FilesInvSame ==
    ASSUME FilesInv, HoldsFiles' = HoldsFiles, tmp' = tmp, TypeOK',
           budget'.fault <= budget.fault
    PROVE  TempFilesBounded'
<1>1. Used("fault")' >= Used("fault") /\ Used("fault")' \in Nat /\ Used("fault") \in Nat
  BY UsedType, ConstantsOK DEF Used, FilesInv, TypeOK
<1>2. QED
  BY <1>1, HoldersCount DEF FilesInv, TempFilesBounded, TypeOK

LEMMA FilesInvOrchestrator ==
    ASSUME FilesInv,
           \/ \E c \in Calls, t \in Targets, op \in Ops, ro \in ReadonlyFlags :
                 Issue(c, t, op, ro)
           \/ \E c \in Calls : Answer(c)
           \/ \E t \in Targets : Abandon(t) \/ Rethink(t)
    PROVE  FilesInv'
<1>1. TypeOK' /\ TypeOK
  BY TypeOrchestrator DEF FilesInv
<1>2. tmp' = tmp /\ budget'.fault = budget.fault
  BY <1>1 DEF Issue, Answer, Abandon, Rethink, files, TypeOK
<1>3. HoldsFiles' = HoldsFiles
  <2>1. ASSUME NEW c \in Calls, NEW t \in Targets, NEW op \in Ops,
               NEW ro \in ReadonlyFlags, Issue(c, t, op, ro)
        PROVE  HoldsFiles' = HoldsFiles
    <3>1. rpc[c].pc = "idle" /\ rpc'[c].pc = "check"
      BY <2>1 DEF Issue, Idle
    <3>2. \A d \in Calls \ {c} : rpc'[d].pc = rpc[d].pc
      BY <2>1, <1>1 DEF Issue, TypeOK, Handlers
    <3>3. QED
      BY <3>1, <3>2 DEF HoldsFiles
  <2>2. ASSUME NEW c \in Calls, Answer(c) PROVE HoldsFiles' = HoldsFiles
    BY <2>2, <1>1 DEF Answer, HoldsFiles, TypeOK, Idle
  <2>3. ASSUME NEW t \in Targets, Abandon(t) \/ Rethink(t) PROVE HoldsFiles' = HoldsFiles
    BY <2>3 DEF Abandon, Rethink, HoldsFiles
  <2>4. QED
    BY <2>1, <2>2, <2>3
<1>4. budget'.fault <= budget.fault
  BY <1>1, <1>2 DEF TypeOK
<1>5. QED
  BY <1>1, <1>2, <1>3, <1>4, FilesInvSame DEF FilesInv

LEMMA FilesInvHandle ==
    ASSUME FilesInv, NEW c \in Calls, Handle(c)
    PROVE  FilesInv'
<1>1. TypeOK' /\ TypeOK
  BY TypeHandle DEF FilesInv
<1>2. \A d \in Calls \ {c} : rpc'[d] = rpc[d]
  BY <1>1, PublishMoves, UnpublishMoves, MoveType DEF Handle
<1>m. \A pc, code : Move(c, pc, code) => rpc'[c].pc = pc
  BY <1>1, MovedTo
<1>3. CASE CreateConfigFile(c)
  <2>1. rpc[c].pc = "config"
    BY <1>3 DEF CreateConfigFile, At
  <2>2. CASE tmp' = tmp + 2 /\ Goto(c, "mount") /\ UNCHANGED budget
    <3>1. HoldsFiles' = HoldsFiles \cup {c} /\ c \notin HoldsFiles
      BY <1>2, <1>m, <2>1, <2>2 DEF HoldsFiles, Goto
    <3>2. Cardinality(HoldsFiles') = Cardinality(HoldsFiles) + 1
      BY <3>1, CountAdd, HoldersCount
    <3>3. Used("fault")' = Used("fault") /\ Used("fault") \in Nat
      BY <1>1, <2>2, UsedType DEF Used
    <3>4. QED
      BY <1>1, <2>2, <3>2, <3>3, HoldersCount DEF FilesInv, TempFilesBounded, TypeOK
  <2>3. CASE Fault("tempfile") /\ Reply(c, "Internal") /\ \E left \in 0..2 : tmp' = tmp + left
    <3>1. HoldsFiles' = HoldsFiles
      BY <1>2, <1>m, <2>1, <2>3 DEF HoldsFiles, Reply
    <3>2. Used("fault")' = Used("fault") + 1 /\ Used("fault") \in Nat
      BY <1>1, <2>3, UsedType, ConstantsOK DEF Used, Fault, TypeOK
    <3>3. QED
      BY <1>1, <2>3, <3>1, <3>2, HoldersCount DEF FilesInv, TempFilesBounded, TypeOK
  <2>4. QED
    BY <1>1, <1>3, <2>2, <2>3 DEF CreateConfigFile, FilesInv
<1>4. CASE RemoveConfigFiles(c)
  <2>1. HoldsFiles' = HoldsFiles \ {c} /\ c \in HoldsFiles
    BY <1>2, <1>m, <1>4 DEF HoldsFiles, RemoveConfigFiles, At, Goto
  <2>2. Cardinality(HoldsFiles') = Cardinality(HoldsFiles) - 1
    BY <2>1, CountRemove, HoldersCount
  <2>3. PICK left \in 0..2 : /\ left <= budget.fault /\ tmp' = tmp - 2 + left
                            /\ budget' = [budget EXCEPT !.fault = @ - left]
    BY <1>4 DEF RemoveConfigFiles
  <2>4. budget.fault \in Int /\ budget'.fault = budget.fault - left
    BY <1>1, <2>3 DEF TypeOK
  <2>5. Used("fault")' = Used("fault") + left /\ Used("fault") \in Nat
    BY <1>1, <2>4, UsedType, ConstantsOK DEF Used
  <2>6. /\ tmp \in Int /\ 2 * Cardinality(HoldsFiles) <= tmp
        /\ tmp <= 2 * Cardinality(HoldsFiles) + 2 * Used("fault")
    BY <1>1 DEF FilesInv, TempFilesBounded, TypeOK
  <2>7. /\ 2 * Cardinality(HoldsFiles') <= tmp'
        /\ tmp' <= 2 * Cardinality(HoldsFiles') + 2 * Used("fault")'
    BY <2>2, <2>3, <2>5, <2>6, HoldersCount
  <2>8. QED
    BY <1>1, <2>7 DEF FilesInv, TempFilesBounded
<1>5. CASE ~CreateConfigFile(c) /\ ~RemoveConfigFiles(c)
  <2>1. PublishCheck(c) \/ MkdirAll(c) \/ Mount(c) \/ NodeUnpublishVolume(c)
    BY <1>5 DEF Handle, NodePublishVolume
  <2>2. budget'.fault <= budget.fault
    <3>1. budget' = budget \/ \E s \in Syscalls : Fault(s)
      BY <2>1, ConstantsOK
         DEF NodeUnpublishVolume, PublishCheck, MkdirAll, Mount, UnpublishCheck,
             PathExists, DoUnmountCheck, Unmount, PostUnmountCheck, RemoveDir,
             FailsInternal, Syscalls
    <3>2. QED
      BY <1>1, <3>1 DEF Fault, TypeOK
  <2>3. tmp' = tmp
    BY <2>1
       DEF NodeUnpublishVolume, PublishCheck, MkdirAll, Mount, UnpublishCheck, PathExists,
           DoUnmountCheck, Unmount, PostUnmountCheck, RemoveDir, FailsInternal, files
  <2>4. rpc'[c].pc \in {"mount", "cleanup"} <=> rpc[c].pc \in {"mount", "cleanup"}
    <3>1. CASE PublishCheck(c)
      <4>1. Stat(rpc[c].target) \in {"absent", "plain", "mounted", "broken"}
        BY DEF Stat
      <4>2. QED
        BY <3>1, <4>1, <1>m DEF PublishCheck, At, Goto, Reply, FailsInternal
    <3>2. CASE MkdirAll(c) \/ Mount(c)
      BY <3>2, <1>m DEF MkdirAll, Mount, At, Goto, Reply, FailsInternal
    <3>3. CASE NodeUnpublishVolume(c)
      BY <3>3, <1>m
         DEF NodeUnpublishVolume, UnpublishCheck, PathExists, DoUnmountCheck, Unmount,
             PostUnmountCheck, RemoveDir, At, Goto, Reply, FailsInternal
    <3>4. QED
      BY <2>1, <3>1, <3>2, <3>3
  <2>5. HoldsFiles' = HoldsFiles
    BY <1>2, <2>4 DEF HoldsFiles
  <2>6. QED
    BY <1>1, <2>2, <2>3, <2>5, FilesInvSame DEF FilesInv
<1>6. QED
  BY <1>3, <1>4, <1>5

LEMMA FilesInvFailure ==
    ASSUME FilesInv, Crash \/ \E t \in Targets : DaemonDies(t)
    PROVE  FilesInv'
<1>1. TypeOK' /\ TypeOK
  BY TypeFailure DEF FilesInv
<1>2. CASE Crash
  <2>1. HoldsFiles' = {} /\ tmp' = 0
    BY <1>2 DEF Crash, HoldsFiles, Idle
  <2>2. Used("fault")' = Used("fault") /\ Used("fault") \in Nat /\ Cardinality({}) = 0
    BY <1>1, <1>2, UsedType, FS_EmptySet DEF Crash, Used, TypeOK
  <2>3. QED
    BY <1>1, <2>1, <2>2 DEF FilesInv, TempFilesBounded
<1>3. ASSUME NEW t \in Targets, DaemonDies(t) PROVE FilesInv'
  <2>1. tmp' = tmp /\ HoldsFiles' = HoldsFiles
    BY <1>3 DEF DaemonDies, HoldsFiles
  <2>2. budget'.fault <= budget.fault
    BY <1>1, <1>3 DEF DaemonDies, TypeOK
  <2>3. QED
    BY <1>1, <2>1, <2>2, FilesInvSame DEF FilesInv
<1>4. QED
  BY <1>2, <1>3

(* mount never runs without its two files, and no more files stay behind    *)
(* than failed calls of CreateConfigFile and failed removals, whose errors  *)
(* are dropped, can leave (nodeserver.go:63-74, 119-137).                   *)
THEOREM TempFilesAccounted == Spec => []TempFilesBounded
<1>1. Init => FilesInv
  <2>1. ASSUME Init PROVE HoldsFiles = {} /\ tmp = 0
    BY <2>1 DEF Init, HoldsFiles, Idle
  <2>2. ASSUME Init PROVE TypeOK /\ Used("fault") \in Nat
    BY <2>2, TypeInit, UsedType
  <2>3. Cardinality({}) = 0
    BY FS_EmptySet
  <2>4. QED
    BY <2>1, <2>2, <2>3 DEF FilesInv, TempFilesBounded
<1>2. FilesInv /\ [Next]_vars => FilesInv'
  <2>1. FilesInv /\ Next => FilesInv'
    BY FilesInvOrchestrator, FilesInvHandle, FilesInvFailure DEF Next
  <2>2. FilesInv /\ UNCHANGED vars => FilesInv'
    BY DEF FilesInv, TypeOK, TempFilesBounded, HoldsFiles, Used, vars
  <2>3. QED
    BY <2>1, <2>2
<1>3. FilesInv => TempFilesBounded
  BY DEF FilesInv
<1>4. QED
  BY <1>1, <1>2, <1>3, PTL DEF Spec
==============================================================================
