-------------------------- MODULE ImportTaleProofs --------------------------
(***************************************************************************)
(* Theorems about ImportTale, for any tasks, data sets, names and bounds.   *)
(***************************************************************************)
EXTENDS ImportTale, FiniteSetTheorems, TLAPS

(* What is true of an import because of where it is.  Early: it has looked  *)
(* for its resource without result so far.                                  *)
Early == {"idle", "lookup", "register", "folders", "items"}

Located(p) ==
    LET t == tasks[p]
    IN  /\ t.pc # "ended" => t.result = "none"
        /\ t.pc \in {"register", "folders", "items", "tale"} => t.dataMap # <<>>
        /\ t.pc \in {"tale", "instance", "poll"} => \E d \in Datasets : t.resource = {d}
        /\ t.pc \in Early => t.resource = {}
        /\ \A d, e \in t.resource : d = e

(* What it has found is what it was asked for and is in the catalogue. *)
Faithful(p) ==
    LET t == tasks[p]
    IN  /\ \A d \in t.resource : SameName(d, Head(t.dataMap))
        /\ Used("removal") = 0 => t.resource \subseteq catalog

(* Its tale is made of what it has found, and only then an instance. *)
Ordered(p) ==
    LET t == tasks[p]
    IN  /\ \A tale \in tales : tale.task = p =>
              t.pc \notin Early \cup {"tale"} /\ tale.dataSet \in t.resource
        /\ t.pc \in Early \cup {"tale", "instance"} => instance[p] = "none"
        /\ t.result = "ready" /\ t.spawn => instance[p] \in {"RUNNING", "ERROR", "deleted"}

Good(p) == Located(p) /\ Faithful(p) /\ Ordered(p)

ImportInv == TypeOK /\ \A p \in Tasks : Good(p)
------------------------------------------------------------------------------
(* Budgets and changes of one task *)

LEMMA SpendType ==
    ASSUME TypeOK, NEW k \in Kinds, Spend(k)
    PROVE  /\ budget' \in [removal : 0..MaxRemovals, failure : 0..MaxFailures]
           /\ budget'[k] = budget[k] - 1 /\ budget[k] \in Nat \ {0}
           /\ \A j \in Kinds \ {k} : budget'[j] = budget[j]
BY ConstantsOK DEF TypeOK, Spend, Kinds, Limit

LEMMA BecomesTyped ==
    ASSUME TypeOK, NEW p \in Tasks, NEW t \in TaskStates, Becomes(p, t)
    PROVE  /\ tasks' \in [Tasks -> TaskStates]
           /\ tasks'[p] = t
           /\ \A q \in Tasks \ {p} : tasks'[q] = tasks[q]
BY DEF TypeOK, Becomes

(* A task that does not move keeps its part of the invariant, as long as    *)
(* what it found stays, or a removal is counted, and nobody makes a tale    *)
(* in its name or touches its instance.                                     *)
LEMMA StaysGood ==
    ASSUME NEW q \in Tasks, Good(q), tasks'[q] = tasks[q], UNCHANGED external,
           Used("removal")' = 0 => Used("removal") = 0 /\ catalog \subseteq catalog',
           \A tale \in tales' : tale.task = q => tale \in tales,
           instance'[q] = instance[q]
    PROVE  Good(q)'
BY DEF Good, Located, Faithful, Ordered, SameName, Early

(* The parts of TypeOK that the tasks give. *)
LEMMA TypeOfParts ==
    ASSUME external' \in [Datasets -> [name : Names, kind : {"folder", "item"}]],
           catalog' \subseteq Datasets,
           tales' \subseteq [task : Tasks, dataSet : Datasets],
           instance' \in [Tasks -> {"none", "LAUNCHING", "RUNNING", "ERROR", "deleted"}],
           tasks' \in [Tasks -> TaskStates],
           budget' \in [removal : 0..MaxRemovals, failure : 0..MaxFailures],
           \A p \in Tasks : Good(p)'
    PROVE  ImportInv'
BY DEF ImportInv, TypeOK, Good, Located

(* A step that only moves task p. *)
LEMMA OnlyGood ==
    ASSUME ImportInv, NEW p \in Tasks, NEW t \in TaskStates, Only(p, t), Good(p)'
    PROVE  ImportInv'
<1>1. /\ tasks' \in [Tasks -> TaskStates]
      /\ \A q \in Tasks \ {p} : tasks'[q] = tasks[q]
  BY BecomesTyped DEF ImportInv, Only
<1>2. UNCHANGED <<external, catalog, tales, instance, budget>>
  BY DEF Only
<1>3. \A q \in Tasks : Good(q)'
  <2>1. ASSUME NEW q \in Tasks \ {p} PROVE Good(q)'
    BY <1>1, <1>2, StaysGood DEF ImportInv, Used
  <2>2. QED
    BY <2>1
<1>4. QED
  BY <1>1, <1>2, <1>3, TypeOfParts DEF ImportInv, TypeOK

LEMMA EndedTyped ==
    ASSUME NEW t \in TaskStates, NEW r \in {"ready", "raised", "lost"}
    PROVE  /\ Ended(t, r) \in TaskStates
           /\ Ended(t, r).pc = "ended" /\ Ended(t, r).result = r
           /\ Ended(t, r).resource = t.resource /\ Ended(t, r).dataMap = t.dataMap
           /\ Ended(t, r).spawn = t.spawn
BY DEF Ended, TaskStates

LEMMA AtTyped ==
    ASSUME NEW t \in TaskStates,
           NEW pc \in {"lookup", "register", "folders", "items", "tale", "instance", "poll"}
    PROVE  /\ At(t, pc) \in TaskStates
           /\ At(t, pc).pc = pc /\ At(t, pc).result = t.result
           /\ At(t, pc).resource = t.resource /\ At(t, pc).dataMap = t.dataMap
           /\ At(t, pc).spawn = t.spawn
BY DEF At, TaskStates

(* A task may end without having done anything, and not well. *)
LEMMA EndsGood ==
    ASSUME ImportInv, NEW p \in Tasks, tasks[p].pc # "idle",
           NEW r \in {"raised", "lost"},
           tasks'[p] = Ended(tasks[p], r), UNCHANGED external,
           Used("removal")' = 0 => Used("removal") = 0 /\ catalog \subseteq catalog',
           \A tale \in tales' : tale.task = p => tale.dataSet \in tasks[p].resource
    PROVE  Good(p)'
<1>1. tasks[p] \in TaskStates
  BY DEF ImportInv, TypeOK
<1>2. QED
  BY <1>1, EndedTyped DEF ImportInv, Good, Located, Faithful, Ordered, SameName, Early
------------------------------------------------------------------------------
(* Each step keeps the invariant *)

LEMMA InitGood == ASSUME Init PROVE ImportInv
<1>1. NewTask \in TaskStates
  BY DEF NewTask, TaskStates
<1>2. budget \in [removal : 0..MaxRemovals, failure : 0..MaxFailures]
  BY ConstantsOK DEF Init, Limit, Kinds
<1>3. \A p \in Tasks : Good(p)
  BY DEF Init, NewTask, Good, Located, Faithful, Ordered, Early
<1>4. QED
  BY <1>1, <1>2, <1>3 DEF Init, ImportInv, TypeOK, NewTask

LEMMA StartGood ==
    ASSUME ImportInv, NEW p \in Tasks, Start(p) PROVE ImportInv'
<1>1. PICK s \in BOOLEAN : Only(p, [At(NewTask, "lookup") EXCEPT !.spawn = s])
  BY DEF Start
<1> DEFINE t == [At(NewTask, "lookup") EXCEPT !.spawn = s]
<1>2. /\ t \in TaskStates /\ t.pc = "lookup" /\ t.result = "none"
      /\ t.resource = {} /\ t.spawn = s
  <2>1. NewTask \in TaskStates
    BY DEF NewTask, TaskStates
  <2>2. /\ At(NewTask, "lookup") \in TaskStates /\ At(NewTask, "lookup").pc = "lookup"
        /\ At(NewTask, "lookup").result = NewTask.result
        /\ At(NewTask, "lookup").resource = NewTask.resource
    BY <2>1, AtTyped
  <2>3. QED
    BY <2>2 DEF NewTask, TaskStates
<1>3. tasks'[p] = t /\ UNCHANGED <<external, catalog, tales, instance, budget>>
  BY <1>1, <1>2, BecomesTyped DEF Only, ImportInv
<1>4. tasks[p].pc = "idle"
  BY DEF Start
<1>5. Good(p)'
  BY <1>2, <1>3, <1>4 DEF ImportInv, Good, Located, Faithful, Ordered, Early
<1>6. QED
  BY <1>1, <1>2, <1>5, OnlyGood

(* A task that raises an error without having changed anything else. *)
LEMMA RaisedGood ==
    ASSUME ImportInv, NEW p \in Tasks, tasks[p].pc # "idle", Only(p, Ended(tasks[p], "raised"))
    PROVE  ImportInv'
<1>1. tasks[p] \in TaskStates /\ Ended(tasks[p], "raised") \in TaskStates
  BY EndedTyped DEF ImportInv, TypeOK
<1>2. tasks'[p] = Ended(tasks[p], "raised") /\ UNCHANGED <<external, catalog, tales, budget>>
  BY <1>1, BecomesTyped DEF Only, ImportInv
<1>3. Used("removal")' = Used("removal")
  BY <1>2 DEF Used
<1>4. \A tale \in tales : tale.task = p => tale.dataSet \in tasks[p].resource
  BY DEF ImportInv, Good, Ordered
<1>5. Good(p)'
  BY <1>2, <1>3, <1>4, EndsGood
<1>6. QED
  BY <1>1, <1>5, OnlyGood

(* A task that goes on to another search or call without result. *)
LEMMA MovesGood ==
    ASSUME ImportInv, NEW p \in Tasks, NEW pc \in {"folders", "items"},
           tasks[p].pc \in {"register", "folders"}, tasks'[p] = At(tasks[p], pc),
           UNCHANGED <<external, tales, instance>>,
           Used("removal")' = 0 => Used("removal") = 0 /\ catalog \subseteq catalog'
    PROVE  Good(p)'
<1>1. tasks[p] \in TaskStates
  BY DEF ImportInv, TypeOK
<1>2. /\ tasks'[p].pc = pc /\ tasks'[p].result = tasks[p].result
      /\ tasks'[p].resource = tasks[p].resource /\ tasks'[p].dataMap = tasks[p].dataMap
  BY <1>1, AtTyped
<1>3. QED
  BY <1>2 DEF ImportInv, Good, Located, Faithful, Ordered, SameName, Early

LEMMA LookupGood ==
    ASSUME ImportInv, NEW p \in Tasks, Lookup(p) PROVE ImportInv'
<1>1. tasks[p] \in TaskStates /\ tasks[p].pc = "lookup"
  BY DEF ImportInv, TypeOK, Lookup
<1>2. PICK dataMap \in DataMaps :
         Only(p, IF dataMap = <<>> THEN Ended(tasks[p], "raised")
                 ELSE [At(tasks[p], "register") EXCEPT !.dataMap = dataMap])
  BY DEF Lookup
<1>3. CASE dataMap = <<>>
  BY <1>1, <1>2, <1>3, RaisedGood
<1>4. CASE dataMap # <<>>
  <2> DEFINE t == [At(tasks[p], "register") EXCEPT !.dataMap = dataMap]
  <2>1. /\ t \in TaskStates /\ t.pc = "register" /\ t.result = tasks[p].result
        /\ t.resource = tasks[p].resource /\ t.dataMap = dataMap
    BY <1>1, ConstantsOK DEF At, TaskStates
  <2>2. Only(p, t)
    BY <1>2, <1>4
  <2>3. tasks'[p] = t /\ UNCHANGED <<external, catalog, tales, instance, budget>>
    BY <2>1, <2>2, BecomesTyped DEF Only, ImportInv
  <2>4. Good(p)'
    BY <1>1, <1>4, <2>1, <2>3 DEF ImportInv, Good, Located, Faithful, Ordered, Early
  <2>5. QED
    BY <2>1, <2>2, <2>4, OnlyGood
<1>5. QED
  BY <1>3, <1>4

LEMMA RegisterDatasetGood ==
    ASSUME ImportInv, NEW p \in Tasks, RegisterDataset(p) PROVE ImportInv'
<1>1. tasks[p] \in TaskStates /\ At(tasks[p], "folders") \in TaskStates
  BY AtTyped DEF ImportInv, TypeOK
<1>2. /\ tasks' \in [Tasks -> TaskStates] /\ tasks'[p] = At(tasks[p], "folders")
      /\ \A q \in Tasks \ {p} : tasks'[q] = tasks[q]
  BY <1>1, BecomesTyped DEF RegisterDataset, ImportInv
<1>3. {tasks[p].dataMap[i] : i \in 1..Len(tasks[p].dataMap)} \subseteq Datasets
  BY <1>1 DEF TaskStates
<1>4. catalog \subseteq catalog' /\ catalog' \subseteq Datasets
  BY <1>3 DEF RegisterDataset, Registering, ImportInv, TypeOK
<1>5. UNCHANGED <<external, tales, instance, budget>> /\ Used("removal")' = Used("removal")
  BY DEF RegisterDataset, Used
<1>6. Good(p)'
  BY <1>2, <1>4, <1>5, MovesGood DEF RegisterDataset
<1>7. \A q \in Tasks \ {p} : Good(q)'
  BY <1>2, <1>4, <1>5, StaysGood DEF ImportInv
<1>8. QED
  BY <1>2, <1>4, <1>5, <1>6, <1>7, TypeOfParts DEF ImportInv, TypeOK

(* What is found by the name of the first data set. *)
LEMMA FoundGood ==
    ASSUME ImportInv, NEW p \in Tasks, tasks[p].pc \in {"folders", "items"},
           NEW kind, NEW d \in Named(kind, external[Head(tasks[p].dataMap)].name),
           Only(p, Found(tasks[p], d))
    PROVE  ImportInv'
<1> DEFINE t == Found(tasks[p], d)
<1>1. tasks[p] \in TaskStates /\ tasks[p].dataMap # <<>> /\ d \in catalog /\ d \in Datasets
  BY DEF ImportInv, TypeOK, Named
<1>2. /\ t \in TaskStates /\ t.pc = "tale" /\ t.resource = {d}
      /\ t.dataMap = tasks[p].dataMap /\ t.result = tasks[p].result
  BY <1>1 DEF Found, TaskStates
<1>3. tasks'[p] = t /\ UNCHANGED <<external, catalog, tales, instance, budget>>
  BY <1>2, BecomesTyped DEF Only, ImportInv
<1>4. Head(tasks[p].dataMap) \in Datasets
  BY <1>1 DEF TaskStates
<1>5. SameName(d, Head(tasks[p].dataMap))
  BY <1>1, <1>4 DEF SameName, Named
<1>6. Good(p)'
  BY <1>1, <1>2, <1>3, <1>5 DEF ImportInv, Good, Located, Faithful, Ordered, SameName, Early
<1>7. QED
  BY <1>2, <1>6, OnlyGood

LEMMA FindFolderGood ==
    ASSUME ImportInv, NEW p \in Tasks, FindFolder(p) PROVE ImportInv'
<1>1. tasks[p] \in TaskStates /\ tasks[p].pc = "folders"
  BY DEF ImportInv, TypeOK, FindFolder
<1>2. CASE Only(p, At(tasks[p], "items"))
  <2>1. At(tasks[p], "items") \in TaskStates
    BY <1>1, AtTyped
  <2>2. /\ tasks'[p] = At(tasks[p], "items")
        /\ UNCHANGED <<external, catalog, tales, instance, budget>>
    BY <1>2, <2>1, BecomesTyped DEF Only, ImportInv
  <2>3. Good(p)'
    BY <1>1, <2>2, MovesGood DEF Used
  <2>4. QED
    BY <1>2, <2>1, <2>3, OnlyGood
<1>3. CASE \E d \in Named("folder", external[Head(tasks[p].dataMap)].name) :
              Only(p, Found(tasks[p], d))
  BY <1>1, <1>3, FoundGood
<1>4. QED
  BY <1>2, <1>3 DEF FindFolder

LEMMA FindItemGood ==
    ASSUME ImportInv, NEW p \in Tasks, FindItem(p) PROVE ImportInv'
<1>1. tasks[p].pc = "items"
  BY DEF FindItem
<1>2. CASE Only(p, Ended(tasks[p], "raised"))
  BY <1>1, <1>2, RaisedGood
<1>3. CASE \E d \in Named("item", external[Head(tasks[p].dataMap)].name) :
              Only(p, Found(tasks[p], d))
  BY <1>1, <1>3, FoundGood
<1>4. QED
  BY <1>2, <1>3 DEF FindItem

LEMMA TaleOfTyped ==
    ASSUME ImportInv, NEW p \in Tasks
    PROVE  /\ TaleOf(p) \subseteq [task : Tasks, dataSet : Datasets]
           /\ \A tale \in TaleOf(p) : tale.task = p /\ tale.dataSet \in tasks[p].resource
<1>1. tasks[p] \in TaskStates
  BY DEF ImportInv, TypeOK
<1>2. tasks[p].resource \subseteq Datasets
  BY <1>1 DEF TaskStates
<1>3. QED
  BY <1>2 DEF TaleOf

LEMMA CreateTaleGood ==
    ASSUME ImportInv, NEW p \in Tasks, CreateTale(p) PROVE ImportInv'
<1> DEFINE t == IF tasks[p].spawn THEN At(tasks[p], "instance") ELSE Ended(tasks[p], "ready")
<1>1. tasks[p] \in TaskStates /\ tasks[p].pc = "tale"
  BY DEF ImportInv, TypeOK, CreateTale
<1>2. /\ t \in TaskStates /\ t.resource = tasks[p].resource
      /\ t.dataMap = tasks[p].dataMap /\ t.spawn = tasks[p].spawn
      /\ \/ t.pc = "instance" /\ t.result = tasks[p].result
         \/ t.pc = "ended" /\ t.result = "ready" /\ ~t.spawn
  BY <1>1, AtTyped, EndedTyped
<1>3. /\ tasks' \in [Tasks -> TaskStates] /\ tasks'[p] = t
      /\ \A q \in Tasks \ {p} : tasks'[q] = tasks[q]
  BY <1>2, BecomesTyped DEF CreateTale, ImportInv
<1>4. tales' = tales \cup TaleOf(p) /\ UNCHANGED <<external, catalog, instance, budget>>
  BY DEF CreateTale
<1>5. \A tale \in TaleOf(p) : tale.task = p /\ tale.dataSet \in tasks[p].resource
  BY TaleOfTyped
<1>6. Good(p)'
  <2>1. Located(p)'
    BY <1>1, <1>2, <1>3 DEF ImportInv, Good, Located, Early
  <2>2. Faithful(p)'
    BY <1>2, <1>3, <1>4 DEF ImportInv, Good, Faithful, SameName, Used
  <2>3. Ordered(p)'
    BY <1>1, <1>2, <1>3, <1>4, <1>5 DEF ImportInv, Good, Ordered, Early
  <2>4. QED
    BY <2>1, <2>2, <2>3 DEF Good
<1>7. \A q \in Tasks \ {p} : Good(q)'
  BY <1>3, <1>4, <1>5, StaysGood DEF ImportInv, Used
<1>8. tales' \subseteq [task : Tasks, dataSet : Datasets]
  BY <1>4, TaleOfTyped DEF ImportInv, TypeOK
<1>9. QED
  BY <1>3, <1>4, <1>6, <1>7, <1>8, TypeOfParts DEF ImportInv, TypeOK

(* The instance of p changes, and p with it. *)
LEMMA InstanceGood ==
    ASSUME ImportInv, NEW p \in Tasks, NEW t \in TaskStates, Becomes(p, t),
           NEW s \in {"LAUNCHING", "RUNNING", "ERROR", "deleted"},
           instance' = [instance EXCEPT ![p] = s], UNCHANGED <<external, catalog, tales>>,
           budget' \in [removal : 0..MaxRemovals, failure : 0..MaxFailures],
           Used("removal")' = 0 => Used("removal") = 0,
           Good(p)'
    PROVE  ImportInv'
<1>1. /\ tasks' \in [Tasks -> TaskStates]
      /\ \A q \in Tasks \ {p} : tasks'[q] = tasks[q]
  BY BecomesTyped DEF ImportInv
<1>2. /\ instance' \in [Tasks -> {"none", "LAUNCHING", "RUNNING", "ERROR", "deleted"}]
      /\ \A q \in Tasks \ {p} : instance'[q] = instance[q]
  BY DEF ImportInv, TypeOK
<1>3. \A q \in Tasks \ {p} : Good(q)'
  BY <1>1, <1>2, StaysGood DEF ImportInv
<1>4. QED
  BY <1>1, <1>2, <1>3, TypeOfParts DEF ImportInv, TypeOK

LEMMA CreateInstanceGood ==
    ASSUME ImportInv, NEW p \in Tasks, CreateInstance(p) PROVE ImportInv'
<1>1. tasks[p] \in TaskStates /\ tasks[p].pc = "instance"
  BY DEF ImportInv, TypeOK, CreateInstance
<1>2. CASE Only(p, Ended(tasks[p], "raised"))
  BY <1>1, <1>2, RaisedGood
<1>3. CASE /\ Launching(p) /\ Becomes(p, At(tasks[p], "poll"))
           /\ UNCHANGED <<external, catalog, tales, budget>>
  <2> DEFINE t == At(tasks[p], "poll")
  <2>1. /\ t \in TaskStates /\ t.pc = "poll" /\ t.resource = tasks[p].resource
        /\ t.dataMap = tasks[p].dataMap /\ t.result = tasks[p].result
    BY <1>1, AtTyped
  <2>2. tasks'[p] = t
    BY <1>3, <2>1, BecomesTyped DEF ImportInv
  <2>3. Good(p)'
    BY <1>1, <1>3, <2>1, <2>2
    DEF ImportInv, Good, Located, Faithful, Ordered, SameName, Early, Used
  <2>4. QED
    BY <1>3, <2>1, <2>3, InstanceGood DEF Launching, ImportInv, TypeOK, Used
<1>4. QED
  BY <1>2, <1>3 DEF CreateInstance

LEMMA PollInstanceGood ==
    ASSUME ImportInv, NEW p \in Tasks, PollInstance(p) PROVE ImportInv'
<1>1. tasks[p] \in TaskStates /\ tasks[p].pc = "poll"
  BY DEF ImportInv, TypeOK, PollInstance
<1>2. CASE Only(p, Ended(tasks[p], "raised"))
  BY <1>1, <1>2, RaisedGood
<1>3. CASE instance[p] \in {"RUNNING", "ERROR"} /\ Only(p, Ended(tasks[p], "ready"))
  <2> DEFINE t == Ended(tasks[p], "ready")
  <2>1. /\ t \in TaskStates /\ t.pc = "ended" /\ t.resource = tasks[p].resource
        /\ t.dataMap = tasks[p].dataMap
    BY <1>1, EndedTyped
  <2>2. tasks'[p] = t /\ UNCHANGED <<external, catalog, tales, instance, budget>>
    BY <1>3, <2>1, BecomesTyped DEF Only, ImportInv
  <2>3. Good(p)'
    BY <1>1, <1>3, <2>1, <2>2
    DEF ImportInv, Good, Located, Faithful, Ordered, SameName, Early, Used
  <2>4. QED
    BY <1>3, <2>1, <2>3, OnlyGood
<1>4. QED
  BY <1>2, <1>3 DEF PollInstance

LEMMA CallBreaksGood ==
    ASSUME ImportInv, NEW p \in Tasks, CallBreaks(p) \/ WorkerDies(p) PROVE ImportInv'
<1>1. PICK r \in {"raised", "lost"} : Becomes(p, Ended(tasks[p], r))
  BY DEF CallBreaks, WorkerDies
<1>2. /\ tasks[p].pc # "idle" /\ Spend("failure")
      /\ UNCHANGED <<external, catalog, tales, instance>>
  BY DEF CallBreaks, WorkerDies
<1>3. tasks[p] \in TaskStates
  BY DEF ImportInv, TypeOK
<1>4. Ended(tasks[p], r) \in TaskStates
  BY <1>3, EndedTyped
<1>5. /\ tasks' \in [Tasks -> TaskStates] /\ tasks'[p] = Ended(tasks[p], r)
      /\ \A q \in Tasks \ {p} : tasks'[q] = tasks[q]
  BY <1>1, <1>4, BecomesTyped DEF ImportInv
<1>6. /\ budget' \in [removal : 0..MaxRemovals, failure : 0..MaxFailures]
      /\ Used("removal")' = Used("removal")
  BY <1>2, SpendType DEF ImportInv, Used, Kinds
<1>7. Good(p)'
  BY <1>2, <1>5, <1>6, EndsGood DEF ImportInv, Good, Ordered
<1>8. \A q \in Tasks \ {p} : Good(q)'
  BY <1>2, <1>5, <1>6, StaysGood DEF ImportInv
<1>9. QED
  BY <1>2, <1>5, <1>6, <1>7, <1>8, TypeOfParts DEF ImportInv, TypeOK

LEMMA AnswerLostGood ==
    ASSUME ImportInv, NEW p \in Tasks, AnswerLost(p) PROVE ImportInv'
<1>1. tasks[p] \in TaskStates
  BY DEF ImportInv, TypeOK
<1>2. Ended(tasks[p], "raised") \in TaskStates
  BY <1>1, EndedTyped
<1>3. /\ tasks' \in [Tasks -> TaskStates] /\ tasks'[p] = Ended(tasks[p], "raised")
      /\ \A q \in Tasks \ {p} : tasks'[q] = tasks[q]
  BY <1>2, BecomesTyped DEF AnswerLost, ImportInv
<1>4. /\ budget' \in [removal : 0..MaxRemovals, failure : 0..MaxFailures]
      /\ Used("removal")' = Used("removal")
  BY SpendType DEF AnswerLost, ImportInv, Used, Kinds
<1>5. UNCHANGED external /\ tasks[p].pc # "idle"
  BY DEF AnswerLost
<1>6. CASE /\ catalog' = Registering(tasks[p]) /\ UNCHANGED <<tales, instance>>
  <2>1. {tasks[p].dataMap[i] : i \in 1..Len(tasks[p].dataMap)} \subseteq Datasets
    BY <1>1 DEF TaskStates
  <2>2. catalog \subseteq catalog' /\ catalog' \subseteq Datasets
    BY <1>6, <2>1 DEF Registering, ImportInv, TypeOK
  <2>3. Good(p)'
    BY <1>3, <1>4, <1>5, <1>6, <2>2, EndsGood DEF ImportInv, Good, Ordered
  <2>4. \A q \in Tasks \ {p} : Good(q)'
    BY <1>3, <1>4, <1>5, <1>6, <2>2, StaysGood DEF ImportInv
  <2>5. QED
    BY <1>3, <1>4, <1>5, <1>6, <2>2, <2>3, <2>4, TypeOfParts DEF ImportInv, TypeOK
<1>7. CASE /\ tales' = tales \cup TaleOf(p) /\ UNCHANGED <<catalog, instance>>
  <2>1. \A tale \in TaleOf(p) : tale.task = p /\ tale.dataSet \in tasks[p].resource
    BY TaleOfTyped
  <2>2. tales' \subseteq [task : Tasks, dataSet : Datasets]
    BY <1>7, TaleOfTyped DEF ImportInv, TypeOK
  <2>3. \A tale \in tales' : tale.task = p => tale.dataSet \in tasks[p].resource
    BY <1>7, <2>1 DEF ImportInv, Good, Ordered
  <2>4. Good(p)'
    BY <1>3, <1>4, <1>5, <1>7, <2>3, EndsGood
  <2>5. \A q \in Tasks \ {p} : Good(q)'
    BY <1>3, <1>4, <1>5, <1>7, <2>1, StaysGood DEF ImportInv
  <2>6. QED
    BY <1>3, <1>4, <1>5, <1>7, <2>2, <2>4, <2>5, TypeOfParts DEF ImportInv, TypeOK
<1>8. CASE Launching(p) /\ UNCHANGED <<catalog, tales>>
  <2>1. Good(p)'
    BY <1>3, <1>4, <1>5, <1>8, EndsGood DEF ImportInv, Good, Ordered
  <2>2. Becomes(p, Ended(tasks[p], "raised"))
    BY DEF AnswerLost
  <2>3. QED
    BY <1>2, <1>4, <1>5, <1>8, <2>1, <2>2, InstanceGood DEF Launching
<1>9. QED
  BY <1>6, <1>7, <1>8 DEF AnswerLost
------------------------------------------------------------------------------
(* Girder beside the imports *)

(* Nobody but an import itself changes what it knows. *)
LEMMA TasksStay ==
    ASSUME ImportInv, UNCHANGED <<external, tasks>>,
           Used("removal")' = 0 => Used("removal") = 0 /\ catalog \subseteq catalog',
           tales' \subseteq tales,
           catalog' \subseteq Datasets,
           budget' \in [removal : 0..MaxRemovals, failure : 0..MaxFailures],
           instance' \in [Tasks -> {"none", "LAUNCHING", "RUNNING", "ERROR", "deleted"}],
           \A p \in Tasks : \/ instance'[p] = instance[p]
                            \/ /\ instance[p] # "none"
                               /\ instance'[p] \in {"RUNNING", "ERROR", "deleted"}
    PROVE  ImportInv'
<1>1. ASSUME NEW p \in Tasks PROVE Good(p)'
  <2>1. Located(p)' /\ Faithful(p)'
    BY DEF ImportInv, Good, Located, Faithful, SameName
  <2>2. Ordered(p)'
    BY DEF ImportInv, Good, Ordered, Early
  <2>3. QED
    BY <2>1, <2>2 DEF Good
<1>2. QED
  BY <1>1, TypeOfParts DEF ImportInv, TypeOK

LEMMA InstanceLaunchedGood ==
    ASSUME ImportInv, NEW p \in Tasks, InstanceLaunched(p) PROVE ImportInv'
<1>1. PICK s \in {"RUNNING", "ERROR"} : instance' = [instance EXCEPT ![p] = s]
  BY DEF InstanceLaunched
<1>2. /\ instance[p] = "LAUNCHING" /\ UNCHANGED <<external, catalog, tales, tasks, budget>>
      /\ Used("removal")' = Used("removal")
  BY DEF InstanceLaunched, Used
<1>3. QED
  BY <1>1, <1>2, TasksStay DEF ImportInv, TypeOK

LEMMA RemoveGood ==
    ASSUME ImportInv, Remove PROVE ImportInv'
<1>1. Spend("removal") /\ UNCHANGED <<external, tasks>>
  BY DEF Remove
<1>2. /\ budget' \in [removal : 0..MaxRemovals, failure : 0..MaxFailures]
      /\ Used("removal")' # 0
  BY <1>1, ConstantsOK, SpendType DEF ImportInv, TypeOK, Used, Kinds, Limit
<1>3. catalog' \subseteq catalog /\ tales' \subseteq tales
  BY DEF Remove
<1>4. /\ instance' \in [Tasks -> {"none", "LAUNCHING", "RUNNING", "ERROR", "deleted"}]
      /\ \A p \in Tasks : \/ instance'[p] = instance[p]
                          \/ /\ instance[p] # "none"
                             /\ instance'[p] \in {"RUNNING", "ERROR", "deleted"}
  BY DEF Remove, ImportInv, TypeOK
<1>5. QED
  BY <1>1, <1>2, <1>3, <1>4, TasksStay DEF ImportInv, TypeOK
------------------------------------------------------------------------------
LEMMA StepGood ==
    ASSUME ImportInv, [Next]_vars PROVE ImportInv'
<1>1. CASE UNCHANGED vars
  BY <1>1 DEF vars, ImportInv, TypeOK, Good, Located, Faithful, Ordered, Used, SameName
<1>2. ASSUME NEW p \in Tasks, Import(p) \/ WorkerDies(p) \/ InstanceLaunched(p)
      PROVE  ImportInv'
  BY <1>2, StartGood, LookupGood, RegisterDatasetGood, FindFolderGood, FindItemGood,
     CreateTaleGood, CreateInstanceGood, PollInstanceGood, CallBreaksGood, AnswerLostGood,
     InstanceLaunchedGood DEF Import
<1>3. CASE Remove
  BY <1>3, RemoveGood
<1>4. QED
  BY <1>1, <1>2, <1>3 DEF Next

LEMMA ImportInvariant == Spec => []ImportInv
BY InitGood, StepGood, PTL DEF Spec

(* The types of import_tale's state, and that a tale is made of exactly one *)
(* resource, whatever the imports, data sets and names are.                 *)
THEOREM TypeCorrect == Spec => []TypeOK
<1>1. ImportInv => TypeOK
  BY DEF ImportInv
<1>2. QED
  BY <1>1, ImportInvariant, PTL

(* tasks_base.py:97-131: the search by name finds the data set the import   *)
(* registered, or else another one of the very same name.                   *)
THEOREM TaleIsOfLookup == Spec => []TaleOfLookup
<1>1. ImportInv => TaleOfLookup
  BY DEF ImportInv, TypeOK, TaleOfLookup, Good, Faithful, Ordered
<1>2. QED
  BY <1>1, ImportInvariant, PTL

(* Unless somebody deletes something, the data set of a tale is in the      *)
(* catalogue, whatever names are shared.                                    *)
THEOREM TaleStaysInCatalog == Spec => []TaleInCatalog
<1>1. ImportInv => TaleInCatalog
  BY DEF ImportInv, TypeOK, TaleInCatalog, Good, Faithful, Ordered
<1>2. QED
  BY <1>1, ImportInvariant, PTL

(* tasks_base.py:153-165: the tale is announced after the polling loop.     *)
THEOREM ReadyAfterLaunch == Spec => []ReadyIsLaunched
<1>1. ImportInv => ReadyIsLaunched
  BY DEF ImportInv, ReadyIsLaunched, Good, Ordered
<1>2. QED
  BY <1>1, ImportInvariant, PTL
------------------------------------------------------------------------------
(* Tales of imports that did not end well, or will not: every one of them   *)
(* stands for a failure, a death or a removal.                              *)
Doomed == {tale \in tales : \/ tasks[tale.task].result \in {"raised", "lost"}
                          \/ instance[tale.task] = "deleted"}
Spent == Used("failure") + Used("removal")
Counted == IsFiniteSet(Doomed) /\ Cardinality(Doomed) <= Spent

LEMMA SpentInt == ASSUME TypeOK PROVE Spent \in Int
BY ConstantsOK DEF TypeOK, Spent, Used, Limit, Kinds

LEMMA SpendSpent ==
    ASSUME TypeOK, NEW k \in Kinds, Spend(k) PROVE Spent' = Spent + 1
<1>1. /\ budget[k] \in Int /\ budget'[k] = budget[k] - 1
      /\ \A j \in Kinds \ {k} : budget'[j] = budget[j]
  BY SpendType
<1>2. \A j \in Kinds : Limit[j] \in Int /\ budget[j] \in Int
  BY ConstantsOK DEF TypeOK, Kinds, Limit
<1>3. QED
  BY <1>1, <1>2 DEF Spent, Used, Kinds

LEMMA NoneMore ==
    ASSUME Counted, TypeOK, Doomed' \subseteq Doomed, Spent' = Spent PROVE Counted'
<1>1. IsFiniteSet(Doomed') /\ Cardinality(Doomed') <= Cardinality(Doomed)
      /\ Cardinality(Doomed) \in Nat /\ Cardinality(Doomed') \in Nat
  BY FS_Subset, FS_CardinalityType DEF Counted
<1>2. QED
  BY <1>1, SpentInt DEF Counted

LEMMA OneMore ==
    ASSUME Counted, TypeOK, NEW x, Doomed' \subseteq Doomed \cup {x}, Spent' = Spent + 1
    PROVE  Counted'
<1>1. /\ IsFiniteSet(Doomed \cup {x}) /\ Cardinality(Doomed) \in Nat
      /\ Cardinality(Doomed \cup {x}) <= Cardinality(Doomed) + 1
  <2>1. IsFiniteSet(Doomed) /\ Cardinality(Doomed) \in Nat
    BY FS_CardinalityType DEF Counted
  <2>2. /\ IsFiniteSet(Doomed \cup {x})
        /\ Cardinality(Doomed \cup {x}) = IF x \in Doomed THEN Cardinality(Doomed)
                                         ELSE Cardinality(Doomed) + 1
    BY <2>1, FS_AddElement
  <2>3. QED
    BY <2>1, <2>2
<1>2. /\ IsFiniteSet(Doomed') /\ Cardinality(Doomed') \in Nat
      /\ Cardinality(Doomed') <= Cardinality(Doomed \cup {x})
      /\ Cardinality(Doomed \cup {x}) \in Nat
  BY <1>1, FS_Subset, FS_CardinalityType
<1>3. QED
  BY <1>1, <1>2, SpentInt DEF Counted

(* An import has at most one tale. *)
LEMMA OneTale ==
    ASSUME ImportInv', NEW a \in tales', NEW b \in tales', a.task = b.task PROVE a = b
<1>1. a \in [task : Tasks, dataSet : Datasets] /\ b \in [task : Tasks, dataSet : Datasets]
  BY DEF ImportInv, TypeOK
<1>2. a.dataSet = b.dataSet
  BY <1>1 DEF ImportInv, Good, Located, Ordered
<1>3. QED
  BY <1>1, <1>2

(* What happens to the other imports' tales when only p and its instance    *)
(* change.                                                                  *)
LEMMA OthersDoomed ==
    ASSUME TypeOK, NEW p \in Tasks, NEW t, NEW s, Becomes(p, t),
           instance' \in {instance, [instance EXCEPT ![p] = s]},
           tales' \subseteq tales \cup TaleOf(p)
    PROVE  \A tale \in Doomed' : tale.task = p \/ tale \in Doomed
<1>1. \A q \in Tasks \ {p} : tasks'[q] = tasks[q] /\ instance'[q] = instance[q]
  BY DEF Becomes, TypeOK
<1>2. \A tale \in tales' : tale.task = p \/ (tale \in tales /\ tale.task \in Tasks \ {p})
  BY DEF TaleOf, TypeOK
<1>3. QED
  BY <1>1, <1>2 DEF Doomed

LEMMA FailureCounted ==
    ASSUME ImportInv, ImportInv', Counted, NEW p \in Tasks,
           CallBreaks(p) \/ AnswerLost(p) \/ WorkerDies(p)
    PROVE  Counted'
<1>1. Spent' = Spent + 1
  <2>1. Spend("failure") /\ "failure" \in Kinds
    BY DEF CallBreaks, AnswerLost, WorkerDies, Kinds
  <2>2. QED
    BY <2>1, SpendSpent DEF ImportInv
<1>2. PICK r \in {"raised", "lost"} : Becomes(p, Ended(tasks[p], r))
  BY DEF CallBreaks, AnswerLost, WorkerDies
<1>3. /\ instance' \in {instance, [instance EXCEPT ![p] = "LAUNCHING"]}
      /\ tales' \subseteq tales \cup TaleOf(p)
  BY DEF CallBreaks, AnswerLost, WorkerDies, Launching
<1>4. \A tale \in Doomed' : tale.task = p \/ tale \in Doomed
  BY <1>2, <1>3, OthersDoomed DEF ImportInv
<1>5. \A a, b \in Doomed' : a.task = p /\ b.task = p => a = b
  BY OneTale DEF Doomed
<1>6. PICK x : Doomed' \subseteq Doomed \cup {x}
  BY <1>4, <1>5
<1>7. QED
  BY <1>1, <1>6, OneMore DEF ImportInv

LEMMA RemovalCounted ==
    ASSUME ImportInv, ImportInv', Counted, Remove PROVE Counted'
<1>1. Spent' = Spent + 1
  <2>1. Spend("removal") /\ "removal" \in Kinds
    BY DEF Remove, Kinds
  <2>2. QED
    BY <2>1, SpendSpent DEF ImportInv
<1>2. CASE tales' \subseteq tales /\ UNCHANGED <<instance, tasks>>
  <2>1. Doomed' \subseteq Doomed
    BY <1>2 DEF Doomed
  <2>2. QED
    BY <1>1, <2>1, OneMore DEF ImportInv
<1>3. ASSUME NEW p \in Tasks, instance' = [instance EXCEPT ![p] = "deleted"],
             UNCHANGED <<tales, tasks>>
      PROVE  Counted'
  <2>1. \A tale \in Doomed' : tale.task = p \/ tale \in Doomed
    BY <1>3 DEF Doomed, ImportInv, TypeOK
  <2>2. \A a, b \in Doomed' : a.task = p /\ b.task = p => a = b
    BY OneTale DEF Doomed
  <2>3. PICK x : Doomed' \subseteq Doomed \cup {x}
    BY <2>1, <2>2
  <2>4. QED
    BY <1>1, <2>3, OneMore DEF ImportInv
<1>4. QED
  BY <1>2, <1>3 DEF Remove

(* Before it has made a tale an import can do what it wants. *)
LEMMA EarlyCounted ==
    ASSUME ImportInv, Counted, NEW p \in Tasks, NEW t, Becomes(p, t),
           tasks[p].pc \in Early, UNCHANGED <<tales, instance, budget>>
    PROVE  Counted'
<1>1. \A tale \in tales : tale.task # p
  BY DEF ImportInv, Good, Ordered
<1>2. Doomed' \subseteq Doomed
  BY <1>1, OthersDoomed DEF ImportInv, Doomed
<1>3. QED
  BY <1>2, NoneMore DEF ImportInv, Spent, Used

(* A step of import p that leaves it unharmed. *)
LEMMA UnharmedCounted ==
    ASSUME ImportInv, Counted, NEW p \in Tasks, NEW t, NEW s, Becomes(p, t),
           instance' \in {instance, [instance EXCEPT ![p] = s]}, UNCHANGED budget,
           tales' \subseteq tales \cup TaleOf(p),
           tasks'[p].result \in {"none", "ready"}, instance'[p] # "deleted"
    PROVE  Counted'
<1>1. \A tale \in Doomed' : tale.task # p
  BY DEF Doomed
<1>2. Doomed' \subseteq Doomed
  BY <1>1, OthersDoomed DEF ImportInv
<1>3. QED
  BY <1>2, NoneMore DEF ImportInv, Spent, Used

LEMMA ImportCounted ==
    ASSUME ImportInv, ImportInv', Counted, NEW p \in Tasks, Import(p) PROVE Counted'
<1>1. CASE Start(p)
  BY <1>1, EarlyCounted DEF Start, Only, Early
<1>2. CASE Lookup(p)
  BY <1>2, EarlyCounted DEF Lookup, Only, Early
<1>3. CASE RegisterDataset(p)
  BY <1>3, EarlyCounted DEF RegisterDataset, Early
<1>4. CASE FindFolder(p)
  BY <1>4, EarlyCounted DEF FindFolder, Only, Early
<1>5. CASE FindItem(p)
  BY <1>5, EarlyCounted DEF FindItem, Only, Early
<1> tasks[p] \in TaskStates /\ p \in DOMAIN tasks /\ p \in DOMAIN instance
  BY DEF ImportInv, TypeOK
<1>6. CASE CreateTale(p)
  <2>1. tasks[p].pc = "tale" /\ tasks[p].result = "none" /\ instance[p] = "none"
    BY <1>6 DEF CreateTale, ImportInv, Good, Located, Ordered
  <2>2. /\ tales' \subseteq tales \cup TaleOf(p) /\ UNCHANGED <<instance, budget>>
        /\ Becomes(p, IF tasks[p].spawn THEN At(tasks[p], "instance")
                      ELSE Ended(tasks[p], "ready"))
    BY <1>6 DEF CreateTale
  <2>3. tasks'[p].result \in {"none", "ready"}
    BY <2>1, <2>2, AtTyped, EndedTyped DEF Becomes
  <2>4. QED
    BY <2>1, <2>2, <2>3, UnharmedCounted
<1>7. CASE CreateInstance(p)
  <2>1. tasks[p].pc = "instance" /\ tasks[p].result = "none"
    BY <1>7 DEF CreateInstance, ImportInv, Good, Located
  <2>2. CASE /\ Launching(p) /\ Becomes(p, At(tasks[p], "poll")) /\ UNCHANGED <<tales, budget>>
    <3>1. tasks'[p].result = "none" /\ instance'[p] = "LAUNCHING"
      BY <2>1, <2>2, AtTyped DEF Becomes, Launching
    <3>2. QED
      BY <2>2, <3>1, UnharmedCounted DEF Launching
  <2>3. CASE ~ TaleOf(p) \subseteq tales /\ Only(p, Ended(tasks[p], "raised"))
    <3>1. PICK d \in Datasets : tasks[p].resource = {d}
      BY <2>1 DEF ImportInv, Good, Located
    <3>2. TaleOf(p) = {[task |-> p, dataSet |-> d]}
      BY <3>1 DEF TaleOf
    <3>3. \A tale \in tales : tale.task # p
      BY <2>3, <3>1, <3>2 DEF ImportInv, TypeOK, Good, Ordered
    <3>4. Doomed' \subseteq Doomed
      BY <2>3, <3>3, OthersDoomed DEF Only, ImportInv, Doomed
    <3>5. QED
      BY <2>3, <3>4, NoneMore DEF Only, ImportInv, Spent, Used
  <2>4. QED
    BY <1>7, <2>2, <2>3 DEF CreateInstance
<1>8. CASE PollInstance(p)
  <2>1. CASE instance[p] \in {"RUNNING", "ERROR"} /\ Only(p, Ended(tasks[p], "ready"))
    <3>1. tasks'[p].result = "ready"
      BY <2>1, EndedTyped DEF Becomes, Only
    <3>2. QED
      BY <2>1, <3>1, UnharmedCounted DEF Only
  <2>2. CASE instance[p] = "deleted" /\ Only(p, Ended(tasks[p], "raised"))
    <3>1. Doomed' \subseteq Doomed
      BY <2>2, OthersDoomed DEF Only, ImportInv, Doomed
    <3>2. QED
      BY <2>2, <3>1, NoneMore DEF Only, ImportInv, Spent, Used
  <2>3. QED
    BY <1>8, <2>1, <2>2 DEF PollInstance
<1>9. CASE CallBreaks(p) \/ AnswerLost(p)
  BY <1>9, FailureCounted
<1>10. QED
  BY <1>1, <1>2, <1>3, <1>4, <1>5, <1>6, <1>7, <1>8, <1>9 DEF Import

LEMMA StepCounted ==
    ASSUME ImportInv, ImportInv', Counted, [Next]_vars PROVE Counted'
<1>1. CASE UNCHANGED vars
  BY <1>1 DEF vars, Counted, Doomed, Spent, Used
<1>2. ASSUME NEW p \in Tasks, InstanceLaunched(p) PROVE Counted'
  <2>1. Doomed' \subseteq Doomed
    BY <1>2 DEF InstanceLaunched, Doomed, ImportInv, TypeOK
  <2>2. QED
    BY <1>2, <2>1, NoneMore DEF InstanceLaunched, ImportInv, Spent, Used
<1>3. QED
  BY <1>1, <1>2, ImportCounted, FailureCounted, RemovalCounted DEF Next

LEMMA InitCounted == ASSUME Init PROVE Counted
<1>1. Doomed = {} /\ Spent = 0
  BY ConstantsOK DEF Init, Doomed, Spent, Used, Limit, Kinds
<1>2. QED
  BY <1>1, FS_EmptySet DEF Counted

(* tasks_base.py:136-157: the tale made before its instance is not taken    *)
(* back, and never are there more tales without a task that ended well than *)
(* things went wrong.                                                       *)
THEOREM OrphansAreBounded == Spec => []OrphansBounded
<1>1. ImportInv /\ Counted => OrphansBounded
  <2>1. Orphans \subseteq Doomed
    BY DEF Orphans, Doomed
  <2>2. ASSUME TypeOK, Counted PROVE OrphansBounded
    <3>1. /\ IsFiniteSet(Orphans) /\ Cardinality(Orphans) <= Cardinality(Doomed)
          /\ Cardinality(Orphans) \in Nat /\ Cardinality(Doomed) \in Nat
      BY <2>1, <2>2, FS_Subset, FS_CardinalityType DEF Counted
    <3>2. QED
      BY <2>2, <3>1, SpentInt DEF Counted, OrphansBounded, Spent
  <2>3. QED
    BY <2>2 DEF ImportInv
<1>2. QED
  BY <1>1, ImportInvariant, InitGood, InitCounted, StepCounted, PTL DEF Spec
=============================================================================
