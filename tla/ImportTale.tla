----------------------------- MODULE ImportTale -----------------------------
(***************************************************************************)
(* TasksBase.import_tale (gwvolman/tasks_base.py): a Celery task that has   *)
(* Girder register external data sets, finds the first of them again by its *)
(* name, makes a tale of it and, if asked to, an instance of the tale,      *)
(* which it polls until it is launched.  Several imports run at once;       *)
(* Girder, its users and the worker that launches instances are modelled    *)
(* from how the code uses them.                                             *)
(***************************************************************************)
EXTENDS Integers, Sequences, FiniteSets

CONSTANTS
    Tasks,          \* imports
    Datasets,       \* what the users' dataIds stand for
    DataMaps,       \* the answers of /repository/lookup; <<>>: not supported
    Names,          \* names a data set may have
    MaxRemovals,    \* bound on what users and administrators delete
    MaxFailures     \* bound on calls that fail and workers that die

Kinds == {"removal", "failure"}
Limit == [removal |-> MaxRemovals, failure |-> MaxFailures]

ASSUME ConstantsOK ==
    /\ DataMaps \subseteq Seq(Datasets)
    /\ Names # {}
    /\ \A k \in Kinds : Limit[k] \in Nat

VARIABLES
    external,   \* external[d]: the name of data set d and what it becomes
    catalog,    \* the data sets that have a resource in the catalogue
    tales,      \* the tales that imports have made
    instance,   \* instance[p]: status of the instance made by import p
    tasks,      \* tasks[p]: the local variables of import_tale
    budget      \* removals and failures still to come

vars == <<external, catalog, tales, instance, tasks, budget>>

Used(k) == Limit[k] - budget[k]
Spend(k) == budget[k] > 0 /\ budget' = [budget EXCEPT ![k] = @ - 1]

Named(kind, name) ==
    {d \in catalog : external[d].kind = kind /\ external[d].name = name}

(* resource is a set of one data set once it has been found. *)
NewTask == [pc |-> "idle", spawn |-> FALSE, dataMap |-> <<>>,
            resource |-> {}, result |-> "none"]

Ended(t, result) == [t EXCEPT !.pc = "ended", !.result = result]
At(t, pc) == [t EXCEPT !.pc = pc]

(* Slip: the resource that was found is not kept. *)
FoundNotKept(t, d) == [t EXCEPT !.pc = "tale"]

Found(t, d) == [t EXCEPT !.pc = "tale", !.resource = {d}]
Becomes(p, t) == tasks' = [tasks EXCEPT ![p] = t]
Only(p, t) == Becomes(p, t) /\ UNCHANGED <<external, catalog, tales, instance, budget>>

Init ==
    /\ external \in [Datasets -> [name : Names, kind : {"folder", "item"}]]
    /\ catalog = {}
    /\ tales = {}
    /\ instance = [p \in Tasks |-> "none"]
    /\ tasks = [p \in Tasks |-> NewTask]
    /\ budget = Limit
------------------------------------------------------------------------------
(* Girder beside the imports *)

(* The worker that launches a container reports how it went, or never does. *)
InstanceLaunched(p) ==
    /\ instance[p] = "LAUNCHING"
    /\ \E s \in {"RUNNING", "ERROR"} : instance' = [instance EXCEPT ![p] = s]
    /\ UNCHANGED <<external, catalog, tales, tasks, budget>>

(* Users delete tales and instances, administrators resources. *)
Remove ==
    /\ Spend("removal")
    /\ \/ /\ \E d \in catalog : catalog' = catalog \ {d}
          /\ UNCHANGED <<tales, instance>>
       \/ /\ \E tale \in tales : tales' = tales \ {tale}
          /\ UNCHANGED <<catalog, instance>>
       \/ /\ \E p \in Tasks : /\ instance[p] \notin {"none", "deleted"}
                              /\ instance' = [instance EXCEPT ![p] = "deleted"]
          /\ UNCHANGED <<catalog, tales>>
    /\ UNCHANGED <<external, tasks>>
------------------------------------------------------------------------------
(* Steps of an import *)

Start(p) ==
    /\ tasks[p].pc = "idle"
    /\ \E s \in BOOLEAN : Only(p, [At(NewTask, "lookup") EXCEPT !.spawn = s])

(* An empty map is a ValueError, and so is an HttpError (CallBreaks). *)
Lookup(p) ==
    LET t == tasks[p]
    IN  /\ t.pc = "lookup"
        /\ \E dataMap \in DataMaps :
              Only(p, IF dataMap = <<>> THEN Ended(t, "raised")
                      ELSE [At(t, "register") EXCEPT !.dataMap = dataMap])

(* Girder makes a resource for each data set that has none yet; it may      *)
(* answer without having made any, which the code finds out by their        *)
(* absence.                                                                 *)
Registering(t) == catalog \cup {t.dataMap[i] : i \in 1..Len(t.dataMap)}
RegisterDataset(p) ==
    LET t == tasks[p]
    IN  /\ t.pc = "register"
        /\ catalog' \in {catalog, Registering(t)}
        /\ Becomes(p, At(t, "folders"))
        /\ UNCHANGED <<external, tales, instance, budget>>

(* Slip: whatever folder comes first in the catalogue. *)
FindAnyFolder(p) ==
    LET t == tasks[p]
        found == {d \in catalog : external[d].kind = "folder"}
    IN  /\ t.pc = "folders"
        /\ \/ found = {} /\ Only(p, At(t, "items"))
           \/ \E d \in found : Only(p, Found(t, d))

(* The first folder of that name in the catalogue, in an order of Girder's, *)
(* or else an item.                                                         *)
FindFolder(p) ==
    LET t == tasks[p]
        found == Named("folder", external[Head(t.dataMap)].name)
    IN  /\ t.pc = "folders"
        /\ \/ found = {} /\ Only(p, At(t, "items"))
           \/ \E d \in found : Only(p, Found(t, d))

(* Slip: without an item by that name, the registration is trusted. *)
FindItemTrusting(p) ==
    LET t == tasks[p]
        found == Named("item", external[Head(t.dataMap)].name)
    IN  /\ t.pc = "items"
        /\ \/ found = {} /\ Only(p, Found(t, Head(t.dataMap)))
           \/ \E d \in found : Only(p, Found(t, d))

FindItem(p) ==
    LET t == tasks[p]
        found == Named("item", external[Head(t.dataMap)].name)
    IN  /\ t.pc = "items"
        /\ \/ found = {} /\ Only(p, Ended(t, "raised"))
           \/ \E d \in found : Only(p, Found(t, d))

(* The user's name only goes into the authors.  What the caller overrides   *)
(* with tale_kwargs, "title, etc.", is taken not to be the data set.        *)
TaleOf(p) == {[task |-> p, dataSet |-> d] : d \in tasks[p].resource}
CreateTale(p) ==
    LET t == tasks[p]
    IN  /\ t.pc = "tale"
        /\ tales' = tales \cup TaleOf(p)
        /\ Becomes(p, IF t.spawn THEN At(t, "instance") ELSE Ended(t, "ready"))
        /\ UNCHANGED <<external, catalog, instance, budget>>

Launching(p) == instance' = [instance EXCEPT ![p] = "LAUNCHING"]

(* Slip: the answer to the creation is taken for that of a running one. *)
CreateInstanceUnwatched(p) ==
    LET t == tasks[p]
    IN  /\ t.pc = "instance"
        /\ TaleOf(p) \subseteq tales
        /\ Launching(p)
        /\ Becomes(p, Ended(t, "ready"))
        /\ UNCHANGED <<external, catalog, tales, budget>>

(* Refused when the tale is gone. *)
CreateInstance(p) ==
    LET t == tasks[p]
    IN  /\ t.pc = "instance"
        /\ \/ /\ TaleOf(p) \subseteq tales
              /\ Launching(p)
              /\ Becomes(p, At(t, "poll"))
              /\ UNCHANGED <<external, catalog, tales, budget>>
           \/ /\ ~ TaleOf(p) \subseteq tales
              /\ Only(p, Ended(t, "raised"))

(* Slip: the loop goes on until the instance runs. *)
PollInstanceUntilRunning(p) ==
    LET t == tasks[p]
    IN  /\ t.pc = "poll"
        /\ \/ instance[p] = "RUNNING" /\ Only(p, Ended(t, "ready"))
           \/ instance[p] = "deleted" /\ Only(p, Ended(t, "raised"))

(* Slip: an error of the instance is one of the import. *)
PollInstanceStrictly(p) ==
    LET t == tasks[p]
    IN  /\ t.pc = "poll"
        /\ \/ instance[p] = "RUNNING" /\ Only(p, Ended(t, "ready"))
           \/ instance[p] \in {"ERROR", "deleted"} /\ Only(p, Ended(t, "raised"))

(* While the instance is LAUNCHING a poll changes nothing, and there is no  *)
(* bound on their number.  RUNNING and ERROR both end the loop, and the     *)
(* tale is announced as ready.                                              *)
PollInstance(p) ==
    LET t == tasks[p]
    IN  /\ t.pc = "poll"
        /\ \/ instance[p] \in {"RUNNING", "ERROR"} /\ Only(p, Ended(t, "ready"))
           \/ instance[p] = "deleted" /\ Only(p, Ended(t, "raised"))

(* A call that is refused or not answered raises, here or in the handler    *)
(* that words the error.                                                    *)
CallBreaks(p) ==
    /\ tasks[p].pc \notin {"idle", "ended"}
    /\ Spend("failure")
    /\ Becomes(p, Ended(tasks[p], "raised"))
    /\ UNCHANGED <<external, catalog, tales, instance>>

(* What the call was to create is there all the same. *)
AnswerLost(p) ==
    LET t == tasks[p]
    IN  /\ \/ t.pc = "register" /\ catalog' = Registering(t) /\ UNCHANGED <<tales, instance>>
           \/ t.pc = "tale" /\ tales' = tales \cup TaleOf(p) /\ UNCHANGED <<catalog, instance>>
           \/ /\ t.pc = "instance" /\ TaleOf(p) \subseteq tales
              /\ Launching(p) /\ UNCHANGED <<catalog, tales>>
        /\ Spend("failure")
        /\ Becomes(p, Ended(t, "raised"))
        /\ UNCHANGED external

Import(p) ==
    \/ Start(p) \/ Lookup(p) \/ RegisterDataset(p) \/ FindFolder(p) \/ FindItem(p)
    \/ CreateTale(p) \/ CreateInstance(p) \/ PollInstance(p)
    \/ CallBreaks(p) \/ AnswerLost(p)

WorkerDies(p) ==
    /\ tasks[p].pc \notin {"idle", "ended"}
    /\ Spend("failure")
    /\ Becomes(p, Ended(tasks[p], "lost"))
    /\ UNCHANGED <<external, catalog, tales, instance>>

Next ==
    \/ \E p \in Tasks : Import(p) \/ WorkerDies(p) \/ InstanceLaunched(p)
    \/ Remove

Spec == Init /\ [][Next]_vars

(* A worker runs its task, and every call is answered or breaks.  Nothing   *)
(* is assumed of the instances.                                             *)
FairSpec == Spec /\ \A p \in Tasks : WF_vars(Import(p))
------------------------------------------------------------------------------
(* Correctness *)

TaskStates ==
    [pc : {"idle", "lookup", "register", "folders", "items", "tale", "instance",
           "poll", "ended"},
     spawn : BOOLEAN, dataMap : Seq(Datasets), resource : SUBSET Datasets,
     result : {"none", "ready", "raised", "lost"}]

(* Types: what each variable may hold, and that an import has found exactly *)
(* one resource when it makes its tale.                                     *)
TypeOK ==
    /\ external \in [Datasets -> [name : Names, kind : {"folder", "item"}]]
    /\ catalog \subseteq Datasets
    /\ tales \subseteq [task : Tasks, dataSet : Datasets]
    /\ instance \in [Tasks -> {"none", "LAUNCHING", "RUNNING", "ERROR", "deleted"}]
    /\ tasks \in [Tasks -> TaskStates]
    /\ budget \in [removal : 0..MaxRemovals, failure : 0..MaxFailures]
    /\ \A p \in Tasks :
          /\ tasks[p].pc \in {"tale", "instance", "poll"} =>
                 \E d \in Datasets : tasks[p].resource = {d}
          /\ tasks[p].pc \in {"register", "folders", "items", "tale"} =>
                 tasks[p].dataMap # <<>>

(* Although others register data sets meanwhile and a map may list several, *)
(* the tale is about the first data set that was asked for, unless another  *)
(* one has the very same name: the import finds it by nothing else.         *)
SameName(d, e) == external[d].name = external[e].name
TaleOfLookup ==
    \A tale \in tales :
        LET asked == Head(tasks[tale.task].dataMap)
        IN  tale.dataSet # asked => SameName(tale.dataSet, asked)

(* Without removals a tale never refers to a data set that is not in the    *)
(* catalogue, even when names are shared.                                   *)
TaleInCatalog == Used("removal") = 0 => \A tale \in tales : tale.dataSet \in catalog

(* "Tale is ready!" is not said of an instance that is still launching: it  *)
(* runs, has failed, or has been deleted since.                             *)
ReadyIsLaunched ==
    \A p \in Tasks : tasks[p].result = "ready" /\ tasks[p].spawn =>
        instance[p] \in {"RUNNING", "ERROR", "deleted"}

(* A tale is made before its instance and not taken back when the rest      *)
(* fails; there are no more tales of imports that did not end well than     *)
(* calls failed, workers died and things were deleted.                      *)
Orphans == {tale \in tales : tasks[tale.task].result \in {"raised", "lost"}}
OrphansBounded ==
    Cardinality(Orphans) <= Used("failure") + Used("removal")

(* An import ends, or is polling an instance that is still launching: the   *)
(* one place where it can stay for ever.                                    *)
Ends ==
    \A p \in Tasks : tasks[p].pc # "idle" ~>
        (tasks[p].pc = "ended" \/ (tasks[p].pc = "poll" /\ instance[p] = "LAUNCHING"))
=============================================================================
