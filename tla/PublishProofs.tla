---------------------------- MODULE PublishProofs ----------------------------
(***************************************************************************)
(* Theorems about Publish, for any tasks, any number of items and any       *)
(* bounds: its types, and what is in the packages it makes.                 *)
(***************************************************************************)
EXTENDS Publish, SequenceTheorems, TLAPS

(* What TypeOK says of one task. *)
GoodTask(t) ==
    /\ t \in TaskStates
    /\ t.result = "none" <=> t.pc # "ended"
    /\ Len(t.local_files) = Len(t.local_items)
    /\ t.pc = "relist" => t.i \in Items

LEMMA TasksGood == ASSUME TypeOK, NEW p \in Tasks PROVE GoodTask(tasks[p])
BY DEF TypeOK, GoodTask

(* The fields of a task that its steps read. *)
LEMMA FieldsTyped ==
    ASSUME NEW t, GoodTask(t)
    PROVE  /\ t.pc \in Pcs /\ t.i \in Nat \ {0}
           /\ t.dataone \in Seq(Items) /\ t.remote \in Seq(Items)
           /\ t.local_items \in Seq(Items) /\ t.described \in Seq(Items)
           /\ t.local_files \in Seq(Files) /\ t.local_file_pids \in Seq(Pids)
BY DEF GoodTask, TaskStates

LEMMA EndedGood ==
    ASSUME NEW t, GoodTask(t),
           NEW r \in {"url", "no url", "message", "raised", "lost"}
    PROVE  GoodTask(Ended(t, r))
BY DEF GoodTask, Ended, TaskStates, Pcs

LEMMA EnteringGood ==
    ASSUME NEW t, GoodTask(t), t.pc # "ended", NEW pc \in Pcs \ {"relist", "ended"}
    PROVE  GoodTask(Entering(t, pc))
<1>1. 1 \in Nat \ {0}
  OBVIOUS
<1>2. Entering(t, pc) \in TaskStates
  BY <1>1 DEF GoodTask, Entering, TaskStates
<1>3. QED
  BY <1>2 DEF GoodTask, Entering, TaskStates

LEMMA AdvancedGood ==
    ASSUME NEW t, GoodTask(t), t.pc # "relist"
    PROVE  GoodTask(Advanced(t))
<1>1. t.i + 1 \in Nat \ {0}
  BY FieldsTyped
<1>2. Advanced(t) \in TaskStates
  BY <1>1 DEF GoodTask, Advanced, TaskStates
<1>3. QED
  BY <1>2 DEF GoodTask, Advanced, TaskStates

(* The steps that change one task only, and create calls. *)
LEMMA BecomesType ==
    ASSUME TypeOK, NEW p \in Tasks, NEW t, GoodTask(t), Becomes(p, t)
    PROVE  /\ tasks' \in [Tasks -> TaskStates]
           /\ \A q \in Tasks : GoodTask(tasks'[q])
<1>1. tasks' = [tasks EXCEPT ![p] = t] /\ t \in TaskStates
  BY DEF Becomes, GoodTask
<1>2. \A q \in Tasks : tasks'[q] = IF q = p THEN t ELSE tasks[q]
  BY <1>1 DEF TypeOK
<1>3. QED
  BY <1>1, <1>2, TasksGood DEF TypeOK

LEMMA OnlyType ==
    ASSUME TypeOK, NEW p \in Tasks, NEW t, GoodTask(t), Only(p, t)
    PROVE  TypeOK'
<1>1. \A q \in Tasks : GoodTask(tasks'[q])
  BY BecomesType DEF Only
<1>2. QED
  BY <1>1, BecomesType DEF TypeOK, Only, GoodTask

LEMMA SpendType ==
    ASSUME TypeOK, NEW k \in Kinds, Spend(k)
    PROVE  budget' \in [edit : 0..MaxEdits, refusal : 0..MaxRefusals,
                        break : 0..MaxBreaks, death : 0..MaxDeaths]
BY ConstantsOK DEF TypeOK, Spend, Kinds, Limit

LEMMA CreateType ==
    ASSUME TypeOK, NEW p \in Tasks, NEW pid \in Pids, NEW next, NEW broken,
           GoodTask(next), \A t \in broken : GoodTask(t),
           Create(p, pid, next, broken)
    PROVE  TypeOK'
<1>1. PICK t : GoodTask(t) /\ Becomes(p, t)
  BY DEF Create
<1>2. /\ tasks' \in [Tasks -> TaskStates]
      /\ \A q \in Tasks : GoodTask(tasks'[q])
  BY <1>1, BecomesType
<1>3. objects' \subseteq Pids
  BY DEF Create, TypeOK
<1>4. budget' \in [edit : 0..MaxEdits, refusal : 0..MaxRefusals,
                   break : 0..MaxBreaks, death : 0..MaxDeaths]
  BY SpendType DEF Create, TypeOK, Kinds
<1>5. QED
  BY <1>2, <1>3, <1>4 DEF TypeOK, Create, GoodTask
------------------------------------------------------------------------------
(* Type correctness, step by step. *)

LEMMA TypeInit == ASSUME Init PROVE TypeOK
<1>1. NewTask \in TaskStates /\ GoodTask(NewTask)
  BY ConstantsOK DEF NewTask, TaskStates, Pcs, GoodTask
<1>2. girder \in [Items -> Files]
  BY ConstantsOK DEF Init, File, Files, Limit, Kinds
<1>3. budget \in [edit : 0..MaxEdits, refusal : 0..MaxRefusals,
                  break : 0..MaxBreaks, death : 0..MaxDeaths]
  BY ConstantsOK DEF Init, Limit, Kinds
<1>4. QED
  BY <1>1, <1>2, <1>3 DEF Init, TypeOK, GoodTask

LEMMA TypeEdit == ASSUME TypeOK, NEW i \in Items, Edit(i) PROVE TypeOK'
<1>. DEFINE n == Used("edit") + 1
<1>1. n \in 0..MaxEdits
  BY ConstantsOK DEF TypeOK, Edit, Spend, Used, Limit, Kinds
<1>2. girder[i] \in Files
  BY DEF TypeOK
<1>3. \A l \in Links, m \in Names : File(l, m, n) \in Files
  BY <1>1 DEF File, Files
<1>4. /\ [girder[i] EXCEPT !.has = "deleted"] \in Files
      /\ [girder[i] EXCEPT !.has = "empty"] \in Files
      /\ [girder[i] EXCEPT !.size = n] \in Files
  BY <1>1, <1>2 DEF Files
<1>5. \E g \in Files : Becoming(i, g)
  BY <1>3, <1>4 DEF Edit
<1>6. girder' \in [Items -> Files]
  BY <1>5 DEF TypeOK, Becoming
<1>7. budget' \in [edit : 0..MaxEdits, refusal : 0..MaxRefusals,
                   break : 0..MaxBreaks, death : 0..MaxDeaths]
  BY SpendType DEF Edit, Kinds
<1>8. QED
  BY <1>6, <1>7 DEF Edit, TypeOK

LEMMA ElementTyped ==
    ASSUME NEW S, NEW s \in Seq(S), NEW i \in Nat \ {0}, i <= Len(s)
    PROVE  s[i] \in S /\ Append(s, s[i]) \in Seq(S)
OBVIOUS

LEMMA FilePid == ASSUME NEW p \in Tasks, NEW i \in Items PROVE Pid(p, "file", i) \in Pids
BY DEF Pids

LEMMA PartPid ==
    ASSUME NEW p \in Tasks, NEW part \in {"yaml", "license", "repository", "eml"}
    PROVE  Pid(p, part, 0) \in Pids
BY DEF Pids

LEMMA TypeFilter == ASSUME TypeOK, NEW p \in Tasks, FilterItem(p) PROVE TypeOK'
<1>. DEFINE t == tasks[p]
            g == girder[t.i]
<1>1. GoodTask(t) /\ t.pc = "filter" /\ t.pc # "ended" /\ t.pc # "relist"
  BY TasksGood DEF FilterItem
<1>2. CASE t.i > NItems /\ Only(p, Entering(t, "upload"))
  <2>1. "upload" \in Pcs \ {"relist", "ended"}
    BY DEF Pcs
  <2>2. QED
    BY <1>1, <1>2, <2>1, EnteringGood, OnlyType
<1>3. CASE Only(p, Ended(t, "raised"))
  BY <1>1, <1>3, EndedGood, OnlyType
<1>4. ASSUME t.i <= NItems
      PROVE  t.i \in Items /\ Append(t.dataone, t.i) \in Seq(Items)
               /\ Append(t.remote, t.i) \in Seq(Items)
  <2>1. t.i \in Items
    BY <1>1, <1>4, FieldsTyped, ConstantsOK DEF Items
  <2>2. QED
    BY <1>1, <2>1, FieldsTyped
<1>5. CASE t.i <= NItems /\ Only(p, Advanced([t EXCEPT !.dataone = Append(@, t.i)]))
  <2>. DEFINE u == [t EXCEPT !.dataone = Append(t.dataone, t.i)]
  <2>1. u \in TaskStates /\ u.i = t.i /\ u.pc = t.pc /\ u.result = t.result
          /\ u.local_files = t.local_files /\ u.local_items = t.local_items
    BY <1>1, <1>4, <1>5 DEF GoodTask, TaskStates
  <2>2. Only(p, Advanced(u))
    BY <1>5
  <2>. HIDE DEF u
  <2>3. GoodTask(u)
    BY <1>1, <2>1 DEF GoodTask
  <2>4. QED
    BY <1>1, <1>4, <1>5, <2>1, <2>2, <2>3, AdvancedGood, OnlyType
<1>6. CASE t.i <= NItems /\ Only(p, Advanced([t EXCEPT !.remote = Append(@, t.i)]))
  <2>. DEFINE u == [t EXCEPT !.remote = Append(t.remote, t.i)]
  <2>1. u \in TaskStates /\ u.i = t.i /\ u.pc = t.pc /\ u.result = t.result
          /\ u.local_files = t.local_files /\ u.local_items = t.local_items
    BY <1>1, <1>4, <1>6 DEF GoodTask, TaskStates
  <2>2. Only(p, Advanced(u))
    BY <1>6
  <2>. HIDE DEF u
  <2>3. GoodTask(u)
    BY <1>1, <2>1 DEF GoodTask
  <2>4. QED
    BY <1>1, <1>4, <1>6, <2>1, <2>2, <2>3, AdvancedGood, OnlyType
<1>7. CASE t.i <= NItems /\ Only(p, [t EXCEPT !.pc = "relist"])
  <2>. DEFINE u == [t EXCEPT !.pc = "relist"]
  <2>1. u \in TaskStates /\ u.i = t.i /\ u.pc = "relist" /\ u.result = t.result
          /\ u.local_files = t.local_files /\ u.local_items = t.local_items
    BY <1>1 DEF GoodTask, TaskStates, Pcs
  <2>2. Only(p, u)
    BY <1>7
  <2>. HIDE DEF u
  <2>3. GoodTask(u)
    BY <1>1, <1>4, <1>7, <2>1 DEF GoodTask
  <2>4. QED
    BY <2>2, <2>3, OnlyType
<1>8. QED
  BY <1>2, <1>3, <1>5, <1>6, <1>7 DEF FilterItem

LEMMA TypeRelist == ASSUME TypeOK, NEW p \in Tasks, RelistItem(p) PROVE TypeOK'
<1>. DEFINE t == tasks[p]
            g == girder[t.i]
            u == [t EXCEPT !.pc = "filter", !.local_files = Append(t.local_files, g),
                           !.local_items = Append(t.local_items, t.i)]
<1>1. GoodTask(t) /\ t.pc = "relist" /\ t.i \in Items /\ t.result = "none"
  BY TasksGood DEF RelistItem, GoodTask
<1>2. CASE Only(p, Ended(t, "raised"))
  BY <1>1, <1>2, EndedGood, OnlyType
<1>3. CASE Only(p, Advanced(u))
  <2>1. g \in Files
    BY <1>1 DEF TypeOK
  <2>2. /\ Append(t.local_files, g) \in Seq(Files)
        /\ Append(t.local_items, t.i) \in Seq(Items)
        /\ Len(Append(t.local_files, g)) = Len(t.local_files) + 1
        /\ Len(Append(t.local_items, t.i)) = Len(t.local_items) + 1
    BY <1>1, <2>1, FieldsTyped
  <2>3. u \in TaskStates /\ u.i = t.i /\ u.pc = "filter" /\ u.result = "none"
          /\ u.local_files = Append(t.local_files, g)
          /\ u.local_items = Append(t.local_items, t.i)
    BY <1>1, <2>2 DEF GoodTask, TaskStates, Pcs
  <2>. HIDE DEF u
  <2>4. GoodTask(u)
    BY <1>1, <2>2, <2>3 DEF GoodTask
  <2>5. QED
    BY <1>1, <1>3, <2>3, <2>4, AdvancedGood, OnlyType
<1>4. QED
  BY <1>2, <1>3 DEF RelistItem

LEMMA TypeUpload ==
    ASSUME TypeOK, NEW p \in Tasks, CreateUploadObject(p)
    PROVE  TypeOK'
<1>. DEFINE t == tasks[p]
            f == t.local_files[t.i]
            g == girder[t.local_items[t.i]]
            pid == Pid(p, "file", t.local_items[t.i])
            u == [t EXCEPT !.local_file_pids = Append(t.local_file_pids, pid),
                           !.uploads = t.uploads
                              \cup {[declared |-> f.size, sent |-> g.size]}]
<1>1. GoodTask(t) /\ t.pc = "upload" /\ t.pc # "ended" /\ t.pc # "relist"
  BY TasksGood DEF CreateUploadObject
<1>2. CASE t.i > Len(t.local_files) /\ Only(p, Entering(t, "paths"))
  <2>1. "paths" \in Pcs \ {"relist", "ended"}
    BY DEF Pcs
  <2>2. QED
    BY <1>1, <1>2, <2>1, EnteringGood, OnlyType
<1>3. CASE Only(p, Ended(t, "raised"))
  BY <1>1, <1>3, EndedGood, OnlyType
<1>4. CASE /\ t.i <= Len(t.local_files)
           /\ Create(p, pid, Advanced(u), {Ended(t, "raised")})
  <2>1. t.i \in Nat \ {0}
          /\ t.local_files \in Seq(Files) /\ t.local_items \in Seq(Items)
          /\ t.local_file_pids \in Seq(Pids)
    BY <1>1, FieldsTyped
  <2>2. f \in Files /\ t.local_items[t.i] \in Items
    <3>1. Len(t.local_files) = Len(t.local_items)
      BY <1>1 DEF GoodTask
    <3>2. QED
      BY <1>4, <2>1, <3>1, ElementTyped
  <2>3. g \in Files
    BY <2>2 DEF TypeOK
  <2>4. [declared |-> f.size, sent |-> g.size] \in
          [declared : 0..MaxEdits, sent : 0..MaxEdits]
    BY <2>2, <2>3 DEF Files
  <2>5. pid \in Pids
    BY <2>2, FilePid
  <2>6. Append(t.local_file_pids, pid) \in Seq(Pids)
    BY <2>1, <2>5
  <2>7. u \in TaskStates /\ u.i = t.i /\ u.pc = t.pc /\ u.result = t.result
          /\ u.local_files = t.local_files /\ u.local_items = t.local_items
    BY <1>1, <2>4, <2>6 DEF GoodTask, TaskStates
  <2>8. Create(p, pid, Advanced(u), {Ended(t, "raised")})
    BY <1>4
  <2>. HIDE DEF u, pid
  <2>9. GoodTask(Advanced(u))
    BY <1>1, <2>7, AdvancedGood DEF GoodTask
  <2>10. GoodTask(Ended(t, "raised"))
    BY <1>1, EndedGood
  <2>11. QED
    BY <2>5, <2>8, <2>9, <2>10, CreateType
<1>5. QED
  BY <1>2, <1>3, <1>4 DEF CreateUploadObject, SystemMetadata

LEMMA TypeExternal ==
    ASSUME TypeOK, NEW p \in Tasks, ReferenceExternal(p)
    PROVE  TypeOK'
<1>. DEFINE t == tasks[p]
            items == t.remote \o t.dataone
            g == girder[items[t.i]]
            entry == [name |-> g.name, item |-> items[t.i],
                      md5 |-> Md5FromPosition(Content, Len(Content))]
            kept == {e \in t.reference_file : e.name # g.name}
            u == [t EXCEPT !.reference_file = kept \cup {entry}]
<1>1. GoodTask(t) /\ t.pc = "external" /\ t.pc # "ended" /\ t.pc # "relist"
  BY TasksGood DEF ReferenceExternal
<1>2. CASE Only(p, Entering(t, "yaml"))
  <2>1. "yaml" \in Pcs \ {"relist", "ended"}
    BY DEF Pcs
  <2>2. QED
    BY <1>1, <1>2, <2>1, EnteringGood, OnlyType
<1>3. CASE Only(p, Ended(t, "raised"))
  BY <1>1, <1>3, EndedGood, OnlyType
<1>4. CASE Only(p, Advanced(t))
  BY <1>1, <1>4, AdvancedGood, OnlyType
<1>5. CASE t.i <= Len(items) /\ Only(p, Advanced(u))
  <2>1. items \in Seq(Items) /\ t.i \in Nat \ {0}
    BY <1>1, FieldsTyped
  <2>2. items[t.i] \in Items
    BY <1>5, <2>1, ElementTyped
  <2>3. g.name \in Names
    BY <2>2 DEF TypeOK, Files
  <2>4. Md5FromPosition(Content, Len(Content)) \in Seq(Range(Content))
    <3>1. Md5FromPosition(Content, Len(Content)) = <<>>
      BY DEF Md5FromPosition, Content
    <3>2. QED
      BY <3>1
  <2>5. kept \cup {entry}
          \in SUBSET [name : Names, item : Items, md5 : Seq(Range(Content))]
    <3>1. entry \in [name : Names, item : Items, md5 : Seq(Range(Content))]
      BY <2>2, <2>3, <2>4
    <3>2. t.reference_file
            \in SUBSET [name : Names, item : Items, md5 : Seq(Range(Content))]
      BY <1>1 DEF GoodTask, TaskStates
    <3>. HIDE DEF entry
    <3>3. QED
      BY <3>1, <3>2
  <2>. HIDE DEF kept, entry
  <2>6. u \in TaskStates /\ u.i = t.i /\ u.pc = t.pc /\ u.result = t.result
          /\ u.local_files = t.local_files /\ u.local_items = t.local_items
    BY <1>1, <2>5 DEF GoodTask, TaskStates
  <2>7. Only(p, Advanced(u))
    BY <1>5
  <2>. HIDE DEF u
  <2>8. GoodTask(u)
    BY <1>1, <2>6 DEF GoodTask
  <2>9. QED
    BY <1>1, <2>6, <2>7, <2>8, AdvancedGood, OnlyType
<1>6. QED
  BY <1>2, <1>3, <1>4, <1>5 DEF ReferenceExternal

LEMMA TypeDescribe ==
    ASSUME TypeOK, NEW p \in Tasks, DescribeItem(p)
    PROVE  TypeOK'
<1>. DEFINE t == tasks[p]
            items == t.dataone \o t.local_items \o t.remote
            u == [t EXCEPT !.described = Append(t.described, items[t.i])]
<1>1. GoodTask(t) /\ t.pc = "describe" /\ t.pc # "ended" /\ t.pc # "relist"
  BY TasksGood DEF DescribeItem
<1>2. CASE Only(p, Entering(t, "eml"))
  <2>1. "eml" \in Pcs \ {"relist", "ended"}
    BY DEF Pcs
  <2>2. QED
    BY <1>1, <1>2, <2>1, EnteringGood, OnlyType
<1>3. CASE Only(p, Ended(t, "raised"))
  BY <1>1, <1>3, EndedGood, OnlyType
<1>4. CASE t.i <= Len(items) /\ Only(p, Advanced(u))
  <2>1. /\ items \in Seq(Items) /\ t.i \in Nat \ {0}
        /\ t.described \in Seq(Items)
    BY <1>1, FieldsTyped
  <2>2. Append(t.described, items[t.i]) \in Seq(Items)
    <3>1. items[t.i] \in Items
      BY <1>4, <2>1, ElementTyped
    <3>2. QED
      BY <2>1, <3>1, AppendProperties
  <2>3. u \in TaskStates /\ u.i = t.i /\ u.pc = t.pc /\ u.result = t.result
          /\ u.local_files = t.local_files /\ u.local_items = t.local_items
    BY <1>1, <2>2 DEF GoodTask, TaskStates
  <2>4. Only(p, Advanced(u))
    BY <1>4
  <2>. HIDE DEF u
  <2>5. GoodTask(u)
    BY <1>1, <2>3 DEF GoodTask
  <2>6. QED
    BY <1>1, <2>3, <2>4, <2>5, AdvancedGood, OnlyType
<1>5. QED
  BY <1>2, <1>3, <1>4 DEF DescribeItem

LEMMA TypeStraight ==
    ASSUME TypeOK, NEW p \in Tasks,
           \/ Authenticate(p) \/ CreatePaths(p) \/ UploadTaleYaml(p)
           \/ UploadEml(p) \/ CallBreaks(p) \/ WorkerDies(p)
    PROVE  TypeOK'
<1>. DEFINE t == tasks[p]
<1>1. GoodTask(t)
  BY TasksGood
<1>2. \A r \in {"message", "raised", "lost"} : GoodTask(Ended(t, r))
  BY <1>1, EndedGood
<1>3. \A pc \in Pcs \ {"relist", "ended"} :
         t.pc # "ended" => GoodTask(Entering(t, pc))
  BY <1>1, EnteringGood
<1>4. /\ "filter" \in Pcs \ {"relist", "ended"}
      /\ "external" \in Pcs \ {"relist", "ended"}
      /\ "license" \in Pcs \ {"relist", "ended"}
      /\ "map" \in Pcs \ {"relist", "ended"}
  BY DEF Pcs
<1>5. CASE Authenticate(p)
  BY <1>2, <1>3, <1>4, <1>5, OnlyType DEF Authenticate
<1>6. CASE CreatePaths(p)
  BY <1>2, <1>3, <1>4, <1>6, OnlyType DEF CreatePaths
<1>7. CASE UploadTaleYaml(p)
  <2>1. GoodTask(Entering(t, "license")) /\ GoodTask(Ended(t, "raised"))
    BY <1>2, <1>3, <1>4, <1>7 DEF UploadTaleYaml
  <2>2. Create(p, Pid(p, "yaml", 0), Entering(t, "license"), {Ended(t, "raised")})
    BY <1>7 DEF UploadTaleYaml
  <2>3. Pid(p, "yaml", 0) \in Pids
    BY PartPid
  <2>4. QED
    BY <2>1, <2>2, <2>3, CreateType
<1>8. CASE UploadEml(p)
  <2>1. GoodTask(Entering(t, "map")) /\ GoodTask(Ended(t, "raised"))
    BY <1>2, <1>3, <1>4, <1>8 DEF UploadEml
  <2>2. Create(p, Pid(p, "eml", 0), Entering(t, "map"), {Ended(t, "raised")})
    BY <1>8 DEF UploadEml
  <2>3. Pid(p, "eml", 0) \in Pids
    BY PartPid
  <2>4. QED
    BY <2>1, <2>2, <2>3, CreateType
<1>9. CASE CallBreaks(p) \/ WorkerDies(p)
  <2>1. PICK r \in {"raised", "lost"} : Becomes(p, Ended(t, r))
    BY <1>9 DEF CallBreaks, WorkerDies
  <2>2. /\ tasks' \in [Tasks -> TaskStates]
        /\ \A q \in Tasks : GoodTask(tasks'[q])
    BY <1>2, <2>1, BecomesType
  <2>3. budget' \in [edit : 0..MaxEdits, refusal : 0..MaxRefusals,
                     break : 0..MaxBreaks, death : 0..MaxDeaths]
    BY <1>9, SpendType DEF CallBreaks, WorkerDies, Kinds
  <2>4. QED
    BY <1>9, <2>2, <2>3 DEF CallBreaks, WorkerDies, TypeOK, GoodTask
<1>10. QED
  BY <1>5, <1>6, <1>7, <1>8, <1>9

LEMMA TypeLicense ==
    ASSUME TypeOK, NEW p \in Tasks, UploadLicenseFile(p)
    PROVE  TypeOK'
<1>. DEFINE t == tasks[p]
            pid == Pid(p, "license", 0)
            u == [Entering(t, "repository") EXCEPT !.license_pid = pid]
<1>1. GoodTask(t) /\ t.pc # "ended" /\ pid \in Pids
  BY TasksGood, PartPid DEF UploadLicenseFile
<1>2. "repository" \in Pcs \ {"relist", "ended"}
  BY DEF Pcs
<1>3. GoodTask(Entering(t, "repository")) /\ GoodTask(Ended(t, "raised"))
  BY <1>1, <1>2, EnteringGood, EndedGood
<1>4. GoodTask(u)
  <2>. DEFINE e == Entering(t, "repository")
  <2>1. GoodTask(e)
    BY <1>3
  <2>. HIDE DEF e, pid
  <2>2. [e EXCEPT !.license_pid = pid] \in TaskStates
    BY <1>1, <2>1 DEF GoodTask, TaskStates
  <2>3. GoodTask([e EXCEPT !.license_pid = pid])
    BY <1>1, <2>1, <2>2 DEF GoodTask, TaskStates
  <2>4. QED
    BY <2>3 DEF e
<1>5. \/ Create(p, pid, u, {Ended(t, "raised")})
      \/ Only(p, Entering(t, "repository"))
      \/ Only(p, Ended(t, "raised"))
  BY DEF UploadLicenseFile
<1>. HIDE DEF u, pid
<1>6. QED
  BY <1>1, <1>3, <1>4, <1>5, CreateType, OnlyType

LEMMA TypeRepository ==
    ASSUME TypeOK, NEW p \in Tasks, CreateUploadRepository(p)
    PROVE  TypeOK'
<1>. DEFINE t == tasks[p]
            pid == Pid(p, "repository", 0)
            u == [Entering(t, "describe") EXCEPT !.repository_pid = pid]
<1>1. GoodTask(t) /\ t.pc # "ended" /\ pid \in Pids
  BY TasksGood, PartPid DEF CreateUploadRepository
<1>2. "describe" \in Pcs \ {"relist", "ended"}
  BY DEF Pcs
<1>3. GoodTask(Entering(t, "describe")) /\ GoodTask(Ended(t, "raised"))
  BY <1>1, <1>2, EnteringGood, EndedGood
<1>4. GoodTask(u)
  <2>. DEFINE e == Entering(t, "describe")
  <2>1. GoodTask(e)
    BY <1>3
  <2>. HIDE DEF e, pid
  <2>2. [e EXCEPT !.repository_pid = pid] \in TaskStates
    BY <1>1, <2>1 DEF GoodTask, TaskStates
  <2>3. GoodTask([e EXCEPT !.repository_pid = pid])
    BY <1>1, <2>1, <2>2 DEF GoodTask, TaskStates
  <2>4. QED
    BY <2>3 DEF e
<1>5. Create(p, pid, u, {Entering(t, "describe"), Ended(t, "raised")})
  BY DEF CreateUploadRepository
<1>. HIDE DEF u, pid
<1>6. QED
  BY <1>1, <1>3, <1>4, <1>5, CreateType

LEMMA TypeResmap ==
    ASSUME TypeOK, NEW p \in Tasks, CreateUploadResmap(p)
    PROVE  TypeOK'
<1>. DEFINE t == tasks[p]
            map == [task |-> p, eml |-> Pid(p, "eml", 0),
                    members |-> Range(t.local_file_pids)
                      \cup {Pid(p, "yaml", 0), t.license_pid, t.repository_pid}]
<1>1. GoodTask(t)
  BY TasksGood
<1>2. map \in [task : Tasks, eml : Pids, members : SUBSET (Pids \cup {NoPid})]
  <2>1. Range(t.local_file_pids) \subseteq Pids
    BY <1>1, FieldsTyped DEF Range
  <2>2. {t.license_pid, t.repository_pid} \subseteq Pids \cup {NoPid}
    BY <1>1 DEF GoodTask, TaskStates
  <2>3. Pid(p, "eml", 0) \in Pids /\ Pid(p, "yaml", 0) \in Pids
    BY PartPid
  <2>4. QED
    BY <2>1, <2>2, <2>3
<1>3. maps' \in {maps, maps \cup {map}} /\ UNCHANGED <<girder, objects>>
  BY DEF CreateUploadResmap, ResourceMap, PackageUrls
<1>4. \E r \in {"url", "no url", "raised"} : Becomes(p, Ended(t, r))
  BY DEF CreateUploadResmap, ResourceMap, PackageUrls
<1>5. budget' \in [edit : 0..MaxEdits, refusal : 0..MaxRefusals,
                   break : 0..MaxBreaks, death : 0..MaxDeaths]
  BY SpendType DEF CreateUploadResmap, ResourceMap, PackageUrls, Kinds, TypeOK
<1>6. /\ tasks' \in [Tasks -> TaskStates]
      /\ \A q \in Tasks : GoodTask(tasks'[q])
  BY <1>1, <1>4, EndedGood, BecomesType
<1>. HIDE DEF map
<1>7. QED
  BY <1>2, <1>3, <1>5, <1>6 DEF TypeOK, GoodTask

(* The type of every variable, for every number of tasks, items and faults. *)
THEOREM TypeCorrect == Spec => []TypeOK
<1>1. Init => TypeOK
  BY TypeInit
<1>2. TypeOK /\ [Next]_vars => TypeOK'
  <2>. SUFFICES ASSUME TypeOK, [Next]_vars PROVE TypeOK'
    OBVIOUS
  <2>1. ASSUME NEW p \in Tasks, PublishTale(p) PROVE TypeOK'
    BY <2>1, TypeStraight, TypeFilter, TypeRelist, TypeUpload, TypeExternal,
       TypeLicense, TypeRepository, TypeDescribe, TypeResmap DEF PublishTale
  <2>2. ASSUME NEW p \in Tasks, WorkerDies(p) PROVE TypeOK'
    BY <2>2, TypeStraight
  <2>3. ASSUME NEW i \in Items, Edit(i) PROVE TypeOK'
    BY <2>3, TypeEdit
  <2>4. CASE UNCHANGED vars
    BY <2>4 DEF vars, TypeOK
  <2>5. QED
    BY <2>1, <2>2, <2>3, <2>4 DEF Next
<1>3. QED
  BY <1>1, <1>2, PTL DEF Spec
------------------------------------------------------------------------------
(* A resource map lists all that its task has put on the member node, and   *)
(* nothing that is not there unless DataONE refused it.  Both follow from   *)
(* an invariant that follows a task through its uploads.                    *)

Members(p, t) ==
    Range(t.local_file_pids)
      \cup {Pid(p, "yaml", 0), t.license_pid, t.repository_pid}
Late == {"license", "repository", "describe", "eml", "map"}
Licensed == {"repository", "describe", "eml", "map"}
Packed == {"describe", "eml", "map"}

(* Every pid a running task holds is the pid of an object. *)
Sound(p, t, objs) ==
    t.pc # "ended" =>
        /\ Range(t.local_file_pids) \subseteq objs
        /\ {t.license_pid, t.repository_pid} \subseteq objs \cup {NoPid}
        /\ t.pc \in Late => Pid(p, "yaml", 0) \in objs
        /\ t.pc = "map" => Pid(p, "eml", 0) \in objs

(* Every object of a running task is one whose pid it holds, and it holds   *)
(* none before its time.                                                    *)
Whole(p, t, objs, broke) ==
    t.pc # "ended" =>
     /\ t.pc \notin Licensed => t.license_pid = NoPid
     /\ t.pc \notin Packed => t.repository_pid = NoPid
     /\ \A o \in objs : o[1] = p =>
            \/ o \in Members(p, t) \cup {Pid(p, "eml", 0)}
            \/ o[2] = "repository" /\ broke > 0

PackageInv ==
    /\ TypeOK
    /\ \A p \in Tasks : Used("refusal") = 0 => Sound(p, tasks[p], objects)
    /\ \A p \in Tasks : Whole(p, tasks[p], objects, Used("break"))
    /\ \A m \in maps : tasks[m.task].pc = "ended"
    /\ PackageWhole
    /\ NothingDangling

LEMMA UsedCount ==
    ASSUME TypeOK
    PROVE  /\ Used("refusal") \in Nat /\ Used("break") \in Nat
           /\ Spend("refusal") =>
                Used("refusal")' = Used("refusal") + 1 /\ Used("break")' = Used("break")
           /\ Spend("break") =>
                Used("break")' = Used("break") + 1 /\ Used("refusal")' = Used("refusal")
           /\ Spend("edit") \/ Spend("death") =>
                Used("refusal")' = Used("refusal") /\ Used("break")' = Used("break")
<1>1. MaxEdits \in Nat /\ MaxRefusals \in Nat /\ MaxBreaks \in Nat /\ MaxDeaths \in Nat
  BY ConstantsOK DEF Limit, Kinds
<1>2. /\ Used("refusal") = MaxRefusals - budget.refusal
      /\ Used("break") = MaxBreaks - budget.break
      /\ Used("refusal")' = MaxRefusals - budget'.refusal
      /\ Used("break")' = MaxBreaks - budget'.break
  BY DEF Used, Limit
<1>3. budget \in [edit : 0..MaxEdits, refusal : 0..MaxRefusals,
                  break : 0..MaxBreaks, death : 0..MaxDeaths]
  BY DEF TypeOK
<1>5. ASSUME Spend("refusal")
      PROVE  Used("refusal")' = Used("refusal") + 1 /\ Used("break")' = Used("break")
  BY <1>1, <1>2, <1>3, <1>5 DEF Spend
<1>6. ASSUME Spend("break")
      PROVE  Used("break")' = Used("break") + 1 /\ Used("refusal")' = Used("refusal")
  BY <1>1, <1>2, <1>3, <1>6 DEF Spend
<1>7. ASSUME Spend("edit") \/ Spend("death")
      PROVE  Used("refusal")' = Used("refusal") /\ Used("break")' = Used("break")
  BY <1>1, <1>2, <1>3, <1>7 DEF Spend
<1>8. QED
  BY <1>1, <1>2, <1>3, <1>5, <1>6, <1>7

LEMMA UsedCountNext ==
    ASSUME TypeOK'
    PROVE  Used("refusal")' \in Nat /\ Used("break")' \in Nat
<1>1. MaxRefusals \in Nat /\ MaxBreaks \in Nat
  BY ConstantsOK DEF Limit, Kinds
<1>2. budget' \in [edit : 0..MaxEdits, refusal : 0..MaxRefusals,
                   break : 0..MaxBreaks, death : 0..MaxDeaths]
  BY DEF TypeOK
<1>3. /\ Used("refusal")' = MaxRefusals - budget'.refusal
      /\ Used("break")' = MaxBreaks - budget'.break
  BY DEF Used, Limit
<1>4. QED
  BY <1>1, <1>2, <1>3

LEMMA InvInit == ASSUME Init PROVE PackageInv
<1>1. TypeOK
  BY TypeInit
<1>2. \A p \in Tasks : Sound(p, tasks[p], objects)
  BY DEF Init, Sound, NewTask, Late, Range
<1>3. \A p \in Tasks : Whole(p, tasks[p], objects, Used("break"))
  BY DEF Init, Whole, NewTask
<1>4. QED
  BY <1>1, <1>2, <1>3 DEF Init, PackageInv, PackageWhole, NothingDangling

(* A step of a running task that may add objects of its own. *)
LEMMA TaskStep ==
    ASSUME PackageInv, TypeOK', NEW p \in Tasks, NEW u, tasks[p].pc # "ended",
           Becomes(p, u), UNCHANGED maps,
           objects \subseteq objects', \A o \in objects' \ objects : o[1] = p,
           Used("refusal") <= Used("refusal")', Used("break") <= Used("break")',
           Used("refusal")' = 0 => Sound(p, u, objects'),
           Whole(p, u, objects', Used("break")')
    PROVE  PackageInv'
<1>1. /\ TypeOK /\ Used("refusal") \in Nat /\ Used("break") \in Nat
      /\ Used("refusal")' \in Nat /\ Used("break")' \in Nat
  BY UsedCount, UsedCountNext DEF PackageInv
<1>2. tasks'[p] = u /\ \A q \in Tasks \ {p} : tasks'[q] = tasks[q]
  BY <1>1 DEF Becomes, TypeOK
<1>3. ASSUME NEW q \in Tasks, Used("refusal")' = 0
      PROVE  Sound(q, tasks'[q], objects')
  <2>1. CASE q = p
    BY <1>2, <1>3, <2>1
  <2>2. CASE q # p
    <3>1. Used("refusal") = 0
      BY <1>1, <1>3
    <3>2. Sound(q, tasks[q], objects)
      BY <3>1 DEF PackageInv
    <3>3. Sound(q, tasks[q], objects')
      BY <3>2 DEF Sound
    <3>4. QED
      BY <1>2, <2>2, <3>3
  <2>3. QED
    BY <2>1, <2>2
<1>4. ASSUME NEW q \in Tasks
      PROVE  Whole(q, tasks'[q], objects', Used("break")')
  <2>1. CASE q = p
    BY <1>2, <2>1
  <2>2. CASE q # p
    <3>1. Whole(q, tasks[q], objects, Used("break"))
      BY DEF PackageInv
    <3>2. Whole(q, tasks[q], objects', Used("break")')
      BY <1>1, <2>2, <3>1 DEF Whole
    <3>3. QED
      BY <1>2, <2>2, <3>2
  <2>3. QED
    BY <2>1, <2>2
<1>5. \A m \in maps : m.task \in Tasks /\ m.task # p /\ tasks[m.task].pc = "ended"
  BY <1>1 DEF PackageInv, TypeOK
<1>6. \A m \in maps' : tasks'[m.task].pc = "ended"
  BY <1>2, <1>5
<1>7. PackageWhole'
  <2>. SUFFICES ASSUME NEW m \in maps,
                       NEW o \in objects', o[1] = m.task, o \notin m.members \cup {m.eml}
                PROVE  o[2] = "repository" /\ Used("break")' > 0
    BY DEF PackageWhole, ObjectsOf
  <2>1. o \in objects
    BY <1>5
  <2>2. o[2] = "repository" /\ Used("break") > 0
    BY <2>1 DEF PackageInv, PackageWhole, ObjectsOf
  <2>3. QED
    BY <1>1, <2>2
<1>8. NothingDangling'
  BY <1>1 DEF PackageInv, NothingDangling
<1>9. QED
  BY <1>3, <1>4, <1>6, <1>7, <1>8 DEF PackageInv

(* u holds the pids that t holds, and is no further. *)
Follows(t, u) ==
    \/ u.pc = "ended"
    \/ /\ u.local_file_pids = t.local_file_pids
       /\ u.license_pid = t.license_pid
       /\ u.repository_pid = t.repository_pid
       /\ u.pc \in Late => t.pc \in Late
       /\ u.pc = "map" => t.pc = "map"
       /\ t.pc \in Licensed => u.pc \in Licensed
       /\ t.pc \in Packed => u.pc \in Packed

LEMMA FollowsKeeps ==
    ASSUME NEW p, NEW t, NEW u, NEW objs, NEW broke, t.pc # "ended", Follows(t, u)
    PROVE  /\ Sound(p, t, objs) => Sound(p, u, objs)
           /\ Whole(p, t, objs, broke) => Whole(p, u, objs, broke)
BY DEF Follows, Sound, Whole, Members

LEMMA OnlyStep ==
    ASSUME PackageInv, TypeOK', NEW p \in Tasks, NEW u, tasks[p].pc # "ended",
           Only(p, u), Follows(tasks[p], u)
    PROVE  PackageInv'
<1>1. /\ Becomes(p, u) /\ maps' = maps /\ objects' = objects
      /\ Used("refusal")' = Used("refusal") /\ Used("break")' = Used("break")
  BY DEF Only, Used
<1>2. Used("refusal") \in Nat /\ Used("break") \in Nat
  BY UsedCount DEF PackageInv
<1>3. /\ Used("refusal") = 0 => Sound(p, u, objects)
      /\ Whole(p, u, objects, Used("break"))
  BY FollowsKeeps DEF PackageInv
<1>4. QED
  BY <1>1, <1>2, <1>3, TaskStep

(* An upload: what the task goes on with must account for the new object. *)
LEMMA CreateStep ==
    ASSUME PackageInv, TypeOK', NEW p \in Tasks, NEW pid, NEW next, NEW broken,
           tasks[p].pc # "ended", pid[1] = p, Create(p, pid, next, broken),
           Used("refusal") = 0 => Sound(p, next, objects \cup {pid}),
           Whole(p, next, objects \cup {pid}, Used("break")),
           \A u \in broken :
              /\ Follows(tasks[p], u)
              /\ u.pc = "ended" \/ pid[2] = "repository"
    PROVE  PackageInv'
<1>1. /\ TypeOK /\ maps' = maps
      /\ Used("refusal") \in Nat /\ Used("break") \in Nat
  BY UsedCount DEF PackageInv, Create
<1>2. CASE objects' = objects \cup {pid} /\ Becomes(p, next) /\ UNCHANGED budget
  <2>1. Used("refusal")' = Used("refusal") /\ Used("break")' = Used("break")
    BY <1>2 DEF Used
  <2>2. QED
    BY <1>1, <1>2, <2>1, TaskStep
<1>3. CASE Spend("refusal") /\ Becomes(p, next) /\ UNCHANGED objects
  <2>1. Used("refusal")' = Used("refusal") + 1 /\ Used("break")' = Used("break")
    BY <1>1, <1>3, UsedCount
  <2>2. Whole(p, next, objects, Used("break"))
    BY DEF Whole
  <2>3. QED
    BY <1>1, <1>3, <2>1, <2>2, TaskStep
<1>4. CASE /\ Spend("break")
           /\ objects' \in {objects, objects \cup {pid}}
           /\ \E u \in broken : Becomes(p, u)
  <2>1. PICK u \in broken : Becomes(p, u)
    BY <1>4
  <2>2. Used("break")' = Used("break") + 1 /\ Used("refusal")' = Used("refusal")
    BY <1>1, <1>4, UsedCount
  <2>3. Used("refusal") = 0 => Sound(p, u, objects)
    BY FollowsKeeps DEF PackageInv
  <2>4. Whole(p, u, objects, Used("break"))
    BY FollowsKeeps DEF PackageInv
  <2>5. Used("refusal")' = 0 => Sound(p, u, objects')
    BY <1>4, <2>2, <2>3 DEF Sound
  <2>6. Whole(p, u, objects', Used("break")')
    BY <1>1, <1>4, <2>1, <2>2, <2>4 DEF Whole
  <2>7. QED
    BY <1>1, <1>4, <2>1, <2>2, <2>5, <2>6, TaskStep
<1>5. QED
  BY <1>2, <1>3, <1>4 DEF Create
------------------------------------------------------------------------------
(* The steps of a task. *)

LEMMA EndedFollows == ASSUME NEW t, GoodTask(t), NEW r PROVE Follows(t, Ended(t, r))
BY DEF GoodTask, TaskStates, Ended, Follows

LEMMA EnteringFollows ==
    ASSUME NEW t, GoodTask(t), NEW pc,
           pc \in Late => t.pc \in Late, pc = "map" => t.pc = "map",
           t.pc \in Licensed => pc \in Licensed, t.pc \in Packed => pc \in Packed
    PROVE  Follows(t, Entering(t, pc))
BY DEF GoodTask, TaskStates, Entering, Follows

LEMMA AdvancedFollows == ASSUME NEW t, GoodTask(t) PROVE Follows(t, Advanced(t))
BY DEF GoodTask, TaskStates, Advanced, Follows

LEMMA InvFilter ==
    ASSUME PackageInv, TypeOK', NEW p \in Tasks, FilterItem(p) \/ RelistItem(p)
    PROVE  PackageInv'
<1>. DEFINE t == tasks[p]
            g == girder[t.i]
<1>1. GoodTask(t) /\ t.pc \in {"filter", "relist"} /\ t.pc # "ended" /\ t.pc \notin Late
  BY TasksGood DEF PackageInv, FilterItem, RelistItem, Late
<1>2. CASE Only(p, Entering(t, "upload"))
  BY <1>1, <1>2, EnteringFollows, OnlyStep DEF Late, Licensed, Packed
<1>3. CASE Only(p, Ended(t, "raised"))
  BY <1>1, <1>3, EndedFollows, OnlyStep
<1>4. CASE Only(p, Advanced([t EXCEPT !.dataone = Append(@, t.i)]))
  <2>1. Follows(t, Advanced([t EXCEPT !.dataone = Append(@, t.i)]))
    BY <1>1 DEF Follows, Advanced, GoodTask, TaskStates, Late, Licensed, Packed
  <2>2. QED
    BY <1>1, <1>4, <2>1, OnlyStep
<1>5. CASE Only(p, Advanced([t EXCEPT !.remote = Append(@, t.i)]))
  <2>1. Follows(t, Advanced([t EXCEPT !.remote = Append(@, t.i)]))
    BY <1>1 DEF Follows, Advanced, GoodTask, TaskStates, Late, Licensed, Packed
  <2>2. QED
    BY <1>1, <1>5, <2>1, OnlyStep
<1>6. CASE Only(p, [t EXCEPT !.pc = "relist"])
  <2>1. Follows(t, [t EXCEPT !.pc = "relist"])
    BY <1>1 DEF Follows, GoodTask, TaskStates, Late, Licensed, Packed
  <2>2. QED
    BY <1>1, <1>6, <2>1, OnlyStep
<1>7. CASE Only(p, Advanced([t EXCEPT !.pc = "filter",
                                      !.local_files = Append(@, g),
                                      !.local_items = Append(@, t.i)]))
  <2>1. Follows(t, Advanced([t EXCEPT !.pc = "filter",
                                      !.local_files = Append(@, g),
                                      !.local_items = Append(@, t.i)]))
    BY <1>1 DEF Follows, Advanced, GoodTask, TaskStates, Late, Licensed, Packed
  <2>2. QED
    BY <1>1, <1>7, <2>1, OnlyStep
<1>8. QED
  BY <1>2, <1>3, <1>4, <1>5, <1>6, <1>7 DEF FilterItem, RelistItem

LEMMA InvUpload ==
    ASSUME PackageInv, TypeOK', NEW p \in Tasks, CreateUploadObject(p)
    PROVE  PackageInv'
<1>. DEFINE t == tasks[p]
            f == t.local_files[t.i]
            g == girder[t.local_items[t.i]]
            pid == Pid(p, "file", t.local_items[t.i])
            u == [t EXCEPT !.local_file_pids = Append(t.local_file_pids, pid),
                           !.uploads = t.uploads
                              \cup {[declared |-> f.size, sent |-> g.size]}]
            next == Advanced(u)
<1>1. GoodTask(t) /\ t.pc = "upload" /\ t.pc # "ended"
  BY TasksGood DEF PackageInv, CreateUploadObject
<1>2. CASE Only(p, Entering(t, "paths"))
  BY <1>1, <1>2, EnteringFollows, OnlyStep DEF Late, Licensed, Packed
<1>3. CASE Only(p, Ended(t, "raised"))
  BY <1>1, <1>3, EndedFollows, OnlyStep
<1>4. CASE Create(p, pid, next, {Ended(t, "raised")})
  <2>1. /\ next.pc = "upload" /\ next.license_pid = t.license_pid
        /\ next.repository_pid = t.repository_pid
        /\ next.local_file_pids = Append(t.local_file_pids, pid)
    BY <1>1 DEF Advanced, GoodTask, TaskStates
  <2>. HIDE DEF next
  <2>2. Range(next.local_file_pids) = Range(t.local_file_pids) \cup {pid}
    <3>1. t.local_file_pids \in Seq(Pids)
      BY <1>1, FieldsTyped
    <3>. HIDE DEF t, pid
    <3>2. QED
      BY <2>1, <3>1 DEF Range
  <2>3. pid[1] = p
    BY DEF Pid
  <2>4. Used("refusal") = 0 => Sound(p, next, objects \cup {pid})
    <3>1. Used("refusal") = 0 => Sound(p, t, objects)
      BY DEF PackageInv
    <3>. HIDE DEF pid
    <3>2. QED
      BY <1>1, <2>1, <2>2, <3>1 DEF Sound, Late
  <2>5. Whole(p, next, objects \cup {pid}, Used("break"))
    <3>1. Whole(p, t, objects, Used("break"))
      BY DEF PackageInv
    <3>. HIDE DEF pid
    <3>2. QED
      BY <1>1, <2>1, <2>2, <3>1 DEF Whole, Members, Licensed, Packed
  <2>6. Follows(t, Ended(t, "raised")) /\ Ended(t, "raised").pc = "ended"
    BY <1>1, EndedFollows DEF Ended, GoodTask, TaskStates
  <2>. HIDE DEF pid
  <2>7. QED
    BY <1>1, <1>4, <2>3, <2>4, <2>5, <2>6, CreateStep
<1>5. QED
  BY <1>2, <1>3, <1>4 DEF CreateUploadObject, SystemMetadata

LEMMA InvExternal ==
    ASSUME PackageInv, TypeOK', NEW p \in Tasks, ReferenceExternal(p)
    PROVE  PackageInv'
<1>. DEFINE t == tasks[p]
            items == t.remote \o t.dataone
            g == girder[items[t.i]]
            entry == [name |-> g.name, item |-> items[t.i],
                      md5 |-> Md5FromPosition(Content, Len(Content))]
            kept == {e \in t.reference_file : e.name # g.name}
            u == [t EXCEPT !.reference_file = kept \cup {entry}]
<1>1. GoodTask(t) /\ t.pc = "external" /\ t.pc # "ended"
  BY TasksGood DEF PackageInv, ReferenceExternal
<1>2. CASE Only(p, Entering(t, "yaml"))
  BY <1>1, <1>2, EnteringFollows, OnlyStep DEF Late, Licensed, Packed
<1>3. CASE Only(p, Ended(t, "raised"))
  BY <1>1, <1>3, EndedFollows, OnlyStep
<1>4. CASE Only(p, Advanced(t))
  BY <1>1, <1>4, AdvancedFollows, OnlyStep
<1>5. CASE Only(p, Advanced(u))
  <2>. HIDE DEF kept, entry
  <2>1. Follows(t, Advanced(u))
    BY <1>1 DEF Follows, Advanced, GoodTask, TaskStates, Late, Licensed, Packed
  <2>2. QED
    BY <1>1, <1>5, <2>1, OnlyStep
<1>6. QED
  BY <1>2, <1>3, <1>4, <1>5 DEF ReferenceExternal

LEMMA InvDescribe ==
    ASSUME PackageInv, TypeOK', NEW p \in Tasks, DescribeItem(p)
    PROVE  PackageInv'
<1>. DEFINE t == tasks[p]
            items == t.dataone \o t.local_items \o t.remote
            u == [t EXCEPT !.described = Append(t.described, items[t.i])]
<1>1. GoodTask(t) /\ t.pc = "describe" /\ t.pc # "ended"
  BY TasksGood DEF PackageInv, DescribeItem
<1>2. CASE Only(p, Entering(t, "eml"))
  BY <1>1, <1>2, EnteringFollows, OnlyStep DEF Late, Licensed, Packed
<1>3. CASE Only(p, Ended(t, "raised"))
  BY <1>1, <1>3, EndedFollows, OnlyStep
<1>4. CASE Only(p, Advanced(u))
  <2>1. Follows(t, Advanced(u))
    BY <1>1 DEF Follows, Advanced, GoodTask, TaskStates, Late, Licensed, Packed
  <2>2. QED
    BY <1>1, <1>4, <2>1, OnlyStep
<1>5. QED
  BY <1>2, <1>3, <1>4 DEF DescribeItem

LEMMA InvStraight ==
    ASSUME PackageInv, TypeOK', NEW p \in Tasks, Authenticate(p) \/ CreatePaths(p)
    PROVE  PackageInv'
<1>. DEFINE t == tasks[p]
<1>1. GoodTask(t) /\ t.pc \in {"idle", "paths"} /\ t.pc # "ended"
  BY TasksGood DEF PackageInv, Authenticate, CreatePaths
<1>2. /\ \A r : Follows(t, Ended(t, r))
      /\ Follows(t, Entering(t, "filter")) /\ Follows(t, Entering(t, "external"))
  BY <1>1, EndedFollows, EnteringFollows DEF Late, Licensed, Packed
<1>3. CASE Authenticate(p)
  BY <1>1, <1>2, <1>3, OnlyStep DEF Authenticate
<1>4. CASE CreatePaths(p)
  BY <1>1, <1>2, <1>4, OnlyStep DEF CreatePaths
<1>5. QED
  BY <1>3, <1>4

LEMMA InvFailure ==
    ASSUME PackageInv, TypeOK', NEW p \in Tasks, CallBreaks(p) \/ WorkerDies(p)
    PROVE  PackageInv'
<1>. DEFINE t == tasks[p]
<1>1. GoodTask(t) /\ t.pc # "ended"
  BY TasksGood DEF PackageInv, CallBreaks, WorkerDies
<1>2. PICK r \in {"raised", "lost"} : Becomes(p, Ended(t, r))
  BY DEF CallBreaks, WorkerDies
<1>3. Follows(t, Ended(t, r)) /\ Ended(t, r).pc = "ended"
  BY <1>1, EndedFollows DEF Ended, GoodTask, TaskStates
<1>4. maps' = maps /\ objects' = objects
  BY DEF CallBreaks, WorkerDies
<1>5. Used("refusal") <= Used("refusal")' /\ Used("break") <= Used("break")'
  BY UsedCount DEF CallBreaks, WorkerDies, PackageInv
<1>6. Sound(p, Ended(t, r), objects) /\ Whole(p, Ended(t, r), objects, Used("break")')
  BY <1>3 DEF Sound, Whole
<1>7. QED
  BY <1>1, <1>2, <1>4, <1>5, <1>6, TaskStep

(* The uploads whose pid the task knows by its part: tale.yml and EML. *)
LEMMA InvYaml ==
    ASSUME PackageInv, TypeOK', NEW p \in Tasks, UploadTaleYaml(p)
    PROVE  PackageInv'
<1>. DEFINE t == tasks[p]
            pid == Pid(p, "yaml", 0)
            next == Entering(t, "license")
<1>1. GoodTask(t) /\ t.pc = "yaml" /\ t.pc # "ended"
  BY TasksGood DEF PackageInv, UploadTaleYaml
<1>2. /\ next.pc = "license" /\ next.license_pid = t.license_pid
      /\ next.repository_pid = t.repository_pid
      /\ next.local_file_pids = t.local_file_pids
  BY <1>1 DEF Entering, GoodTask, TaskStates
<1>3. Create(p, pid, next, {Ended(t, "raised")})
  BY DEF UploadTaleYaml
<1>. HIDE DEF next
<1>4. pid[1] = p
  BY DEF Pid
<1>5. /\ Used("refusal") = 0 => Sound(p, t, objects)
      /\ Whole(p, t, objects, Used("break"))
  BY DEF PackageInv
<1>6. Used("refusal") = 0 => Sound(p, next, objects \cup {pid})
  BY <1>1, <1>2, <1>5 DEF Sound
<1>7. Whole(p, next, objects \cup {pid}, Used("break"))
  BY <1>1, <1>2, <1>5 DEF Whole, Members, Licensed, Packed
<1>8. Follows(t, Ended(t, "raised")) /\ Ended(t, "raised").pc = "ended"
  BY <1>1, EndedFollows DEF Ended, GoodTask, TaskStates
<1>. HIDE DEF pid
<1>9. QED
  BY <1>1, <1>3, <1>4, <1>6, <1>7, <1>8, CreateStep

LEMMA InvEml ==
    ASSUME PackageInv, TypeOK', NEW p \in Tasks, UploadEml(p)
    PROVE  PackageInv'
<1>. DEFINE t == tasks[p]
            pid == Pid(p, "eml", 0)
            next == Entering(t, "map")
<1>1. GoodTask(t) /\ t.pc = "eml" /\ t.pc # "ended" /\ t.pc \in Late
  BY TasksGood DEF PackageInv, UploadEml, Late
<1>2. /\ next.pc = "map" /\ next.license_pid = t.license_pid
      /\ next.repository_pid = t.repository_pid
      /\ next.local_file_pids = t.local_file_pids
  BY <1>1 DEF Entering, GoodTask, TaskStates
<1>3. Create(p, pid, next, {Ended(t, "raised")})
  BY DEF UploadEml
<1>. HIDE DEF next
<1>4. pid[1] = p
  BY DEF Pid
<1>5. /\ Used("refusal") = 0 => Sound(p, t, objects)
      /\ Whole(p, t, objects, Used("break"))
  BY DEF PackageInv
<1>6. Used("refusal") = 0 => Sound(p, next, objects \cup {pid})
  BY <1>1, <1>2, <1>5 DEF Sound
<1>7. Whole(p, next, objects \cup {pid}, Used("break"))
  BY <1>1, <1>2, <1>5 DEF Whole, Members, Licensed, Packed
<1>8. Follows(t, Ended(t, "raised")) /\ Ended(t, "raised").pc = "ended"
  BY <1>1, EndedFollows DEF Ended, GoodTask, TaskStates
<1>. HIDE DEF pid
<1>9. QED
  BY <1>1, <1>3, <1>4, <1>6, <1>7, <1>8, CreateStep

LEMMA InvLicense ==
    ASSUME PackageInv, TypeOK', NEW p \in Tasks, UploadLicenseFile(p)
    PROVE  PackageInv'
<1>. DEFINE t == tasks[p]
            pid == Pid(p, "license", 0)
            next == [Entering(t, "repository") EXCEPT !.license_pid = pid]
<1>1. GoodTask(t) /\ t.pc = "license" /\ t.pc # "ended" /\ t.pc \in Late
  BY TasksGood DEF PackageInv, UploadLicenseFile, Late
<1>2. Follows(t, Ended(t, "raised")) /\ Ended(t, "raised").pc = "ended"
  BY <1>1, EndedFollows DEF Ended, GoodTask, TaskStates
<1>3. CASE Only(p, Entering(t, "repository"))
  BY <1>1, <1>3, EnteringFollows, OnlyStep DEF Licensed, Packed
<1>4. CASE Only(p, Ended(t, "raised"))
  BY <1>1, <1>2, <1>4, OnlyStep
<1>5. CASE Create(p, pid, next, {Ended(t, "raised")})
  <2>1. /\ next.pc = "repository" /\ next.license_pid = pid
        /\ next.repository_pid = t.repository_pid
        /\ next.local_file_pids = t.local_file_pids
    BY <1>1 DEF Entering, GoodTask, TaskStates
  <2>. HIDE DEF next
  <2>2. pid[1] = p
    BY DEF Pid
  <2>3. /\ Used("refusal") = 0 => Sound(p, t, objects)
        /\ Whole(p, t, objects, Used("break"))
    BY DEF PackageInv
  <2>. HIDE DEF pid
  <2>4. Used("refusal") = 0 => Sound(p, next, objects \cup {pid})
    BY <1>1, <2>1, <2>3 DEF Sound
  <2>5. Whole(p, next, objects \cup {pid}, Used("break"))
    <3>1. NoPid[1] # p
      BY ConstantsOK DEF NoPid
    <3>2. QED
      BY <1>1, <2>1, <2>3, <3>1 DEF Whole, Members, Licensed, Packed
  <2>6. QED
    BY <1>1, <1>2, <1>5, <2>2, <2>4, <2>5, CreateStep
<1>6. QED
  BY <1>3, <1>4, <1>5 DEF UploadLicenseFile

(* After a broken call the task may go on, with None for the repository. *)
LEMMA InvRepository ==
    ASSUME PackageInv, TypeOK', NEW p \in Tasks, CreateUploadRepository(p)
    PROVE  PackageInv'
<1>. DEFINE t == tasks[p]
            pid == Pid(p, "repository", 0)
            next == [Entering(t, "describe") EXCEPT !.repository_pid = pid]
            broken == {Entering(t, "describe"), Ended(t, "raised")}
<1>1. GoodTask(t) /\ t.pc = "repository" /\ t.pc # "ended" /\ t.pc \in Late
  BY TasksGood DEF PackageInv, CreateUploadRepository, Late
<1>2. /\ next.pc = "describe" /\ next.license_pid = t.license_pid
      /\ next.repository_pid = pid
      /\ next.local_file_pids = t.local_file_pids
  BY <1>1 DEF Entering, GoodTask, TaskStates
<1>3. Create(p, pid, next, broken)
  BY DEF CreateUploadRepository
<1>4. pid[1] = p /\ pid[2] = "repository"
  BY DEF Pid
<1>5. Follows(t, Entering(t, "describe")) /\ Follows(t, Ended(t, "raised"))
  BY <1>1, EnteringFollows, EndedFollows DEF Late, Licensed, Packed
<1>. HIDE DEF next, pid
<1>6. /\ Used("refusal") = 0 => Sound(p, t, objects)
      /\ Whole(p, t, objects, Used("break"))
  BY DEF PackageInv
<1>7. Used("refusal") = 0 => Sound(p, next, objects \cup {pid})
  BY <1>1, <1>2, <1>6 DEF Sound, Late
<1>8. Whole(p, next, objects \cup {pid}, Used("break"))
  <2>1. NoPid[1] # p
    BY ConstantsOK DEF NoPid
  <2>2. QED
    BY <1>1, <1>2, <1>6, <2>1 DEF Whole, Members, Licensed, Packed
<1>9. QED
  BY <1>1, <1>3, <1>4, <1>5, <1>7, <1>8, CreateStep

LEMMA UsedGrows ==
    ASSUME TypeOK, TypeOK', UNCHANGED budget \/ Spend("refusal") \/ Spend("break")
    PROVE  /\ Used("refusal") \in Nat /\ Used("break") \in Nat
           /\ Used("refusal") <= Used("refusal")' /\ Used("break") <= Used("break")'
           /\ Used("refusal")' \in Nat /\ Used("break")' \in Nat
           /\ Used("refusal")' = 0 => Used("refusal") = 0
           /\ Used("break") > 0 => Used("break")' > 0
<1>1. /\ Used("refusal") \in Nat /\ Used("break") \in Nat
      /\ Used("refusal")' \in Nat /\ Used("break")' \in Nat
  BY UsedCount, UsedCountNext
<1>2. CASE UNCHANGED budget
  BY <1>1, <1>2 DEF Used
<1>3. CASE Spend("refusal") \/ Spend("break")
  BY <1>1, <1>3, UsedCount
<1>4. QED
  BY <1>2, <1>3

LEMMA WholeLater ==
    ASSUME NEW p, NEW t, NEW objs, NEW b \in Nat, NEW c \in Nat, b <= c,
           Whole(p, t, objs, b)
    PROVE  Whole(p, t, objs, c)
BY DEF Whole

(* The resource map: it closes the package of its task. *)
LEMMA InvResmap ==
    ASSUME PackageInv, TypeOK', NEW p \in Tasks, CreateUploadResmap(p)
    PROVE  PackageInv'
<1>. DEFINE t == tasks[p]
            map == [task |-> p, eml |-> Pid(p, "eml", 0), members |-> Members(p, t)]
<1>1. TypeOK /\ GoodTask(t) /\ t.pc = "map" /\ t.pc # "ended" /\ t.pc \in Late
  BY TasksGood DEF PackageInv, CreateUploadResmap, ResourceMap, PackageUrls, Late
<1>2. maps' \in {maps, maps \cup {map}} /\ objects' = objects
  BY DEF CreateUploadResmap, ResourceMap, PackageUrls, Members
<1>3. PICK r \in {"url", "no url", "raised"} : Becomes(p, Ended(t, r))
  BY DEF CreateUploadResmap, ResourceMap, PackageUrls
<1>4. /\ Used("refusal") \in Nat /\ Used("break") \in Nat
      /\ Used("refusal") <= Used("refusal")' /\ Used("break") <= Used("break")'
      /\ Used("refusal")' \in Nat /\ Used("break")' \in Nat
      /\ Used("refusal")' = 0 => Used("refusal") = 0
      /\ Used("break") > 0 => Used("break")' > 0
  BY <1>1, UsedGrows DEF CreateUploadResmap, ResourceMap, PackageUrls
<1>5. /\ map.task = p /\ map.eml = Pid(p, "eml", 0) /\ map.members = Members(p, t)
  OBVIOUS
<1>. HIDE DEF map
<1>6. /\ tasks'[p] = Ended(t, r) /\ tasks'[p].pc = "ended"
      /\ \A q \in Tasks \ {p} : tasks'[q] = tasks[q]
  BY <1>1, <1>3 DEF Becomes, TypeOK, Ended, GoodTask, TaskStates
<1>7. ASSUME NEW q \in Tasks
      PROVE  /\ Used("refusal")' = 0 => Sound(q, tasks'[q], objects')
             /\ Whole(q, tasks'[q], objects', Used("break")')
  <2>1. CASE q = p
    BY <1>6, <2>1 DEF Sound, Whole
  <2>2. CASE q # p
    <3>1. tasks'[q] = tasks[q]
      BY <1>6, <2>2
    <3>2. /\ Used("refusal") = 0 => Sound(q, tasks[q], objects)
          /\ Whole(q, tasks[q], objects, Used("break"))
      BY DEF PackageInv
    <3>3. Used("refusal")' = 0 => Used("refusal") = 0
      BY <1>4
    <3>4. Whole(q, tasks[q], objects, Used("break")')
      BY <1>4, <3>2, WholeLater
    <3>5. QED
      BY <1>2, <3>1, <3>2, <3>3, <3>4
  <2>3. QED
    BY <2>1, <2>2
<1>8. \A m \in maps : m.task \in Tasks \ {p} /\ tasks[m.task].pc = "ended"
  BY <1>1 DEF PackageInv, TypeOK
<1>9. \A m \in maps' : tasks'[m.task].pc = "ended"
  BY <1>2, <1>5, <1>6, <1>8
<1>10. ASSUME NEW m \in maps', NEW o \in objects, o[1] = m.task,
              o \notin m.members \cup {m.eml}
       PROVE  o[2] = "repository" /\ Used("break")' > 0
  <2>1. CASE m = map
    BY <1>1, <1>4, <1>5, <1>10, <2>1 DEF PackageInv, Whole
  <2>2. CASE m \in maps
    <3>1. o[2] = "repository" /\ Used("break") > 0
      BY <1>10, <2>2 DEF PackageInv, PackageWhole, ObjectsOf
    <3>2. QED
      BY <1>4, <3>1
  <2>3. QED
    BY <1>2, <2>1, <2>2
<1>11. PackageWhole'
  BY <1>2, <1>10 DEF PackageWhole, ObjectsOf
<1>12. ASSUME Used("refusal")' = 0, NEW m \in maps'
       PROVE  (m.members \cup {m.eml}) \ {NoPid} \subseteq objects
  <2>1. Used("refusal") = 0
    BY <1>4, <1>12
  <2>2. CASE m = map
    <3>1. Sound(p, t, objects)
      BY <2>1 DEF PackageInv
    <3>2. QED
      BY <1>1, <1>5, <2>2, <3>1 DEF Sound, Members
  <2>3. CASE m \in maps
    BY <2>1, <2>3 DEF PackageInv, NothingDangling
  <2>4. QED
    BY <1>2, <2>2, <2>3
<1>13. NothingDangling'
  BY <1>2, <1>12 DEF NothingDangling
<1>14. QED
  BY <1>7, <1>9, <1>11, <1>13 DEF PackageInv

LEMMA InvEdit == ASSUME PackageInv, TypeOK', NEW i \in Items, Edit(i) PROVE PackageInv'
<1>1. /\ maps' = maps /\ objects' = objects /\ tasks' = tasks
      /\ Used("refusal")' = Used("refusal") /\ Used("break")' = Used("break")
  BY UsedCount DEF PackageInv, Edit
<1>2. QED
  BY <1>1 DEF PackageInv, PackageWhole, NothingDangling, ObjectsOf
------------------------------------------------------------------------------
THEOREM PackageInvariant == Spec => []PackageInv
<1>1. Init => PackageInv
  BY InvInit
<1>2. PackageInv /\ TypeOK' /\ [Next]_vars => PackageInv'
  <2>. SUFFICES ASSUME PackageInv, TypeOK', [Next]_vars PROVE PackageInv'
    OBVIOUS
  <2>1. ASSUME NEW p \in Tasks, PublishTale(p) PROVE PackageInv'
    BY <2>1, InvStraight, InvFilter, InvUpload, InvExternal, InvYaml, InvLicense,
       InvRepository, InvDescribe, InvEml, InvResmap, InvFailure DEF PublishTale
  <2>2. ASSUME NEW p \in Tasks, WorkerDies(p) PROVE PackageInv'
    BY <2>2, InvFailure
  <2>3. ASSUME NEW i \in Items, Edit(i) PROVE PackageInv'
    BY <2>3, InvEdit
  <2>4. CASE UNCHANGED vars
    <3>1. Used("refusal")' = Used("refusal") /\ Used("break")' = Used("break")
      BY <2>4 DEF vars, Used
    <3>2. QED
      BY <2>4, <3>1 DEF vars, PackageInv, PackageWhole, NothingDangling, ObjectsOf
  <2>5. QED
    BY <2>1, <2>2, <2>3, <2>4 DEF Next
<1>3. QED
  BY <1>1, <1>2, TypeCorrect, PTL DEF Spec

(* A resource map lists every object that its task has put on the member    *)
(* node, for any number of concurrent tasks, items, edits and failures.     *)
THEOREM PackagesAreWhole == Spec => []PackageWhole
<1>1. PackageInv => PackageWhole
  BY DEF PackageInv
<1>2. QED
  BY <1>1, PackageInvariant, PTL

(* Unless DataONE refuses a create call, what a resource map lists is there. *)
THEOREM PackagesAreSound == Spec => []NothingDangling
<1>1. PackageInv => NothingDangling
  BY DEF PackageInv
<1>2. QED
  BY <1>1, PackageInvariant, PTL
==============================================================================
