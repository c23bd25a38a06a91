-------------------------------- MODULE Deploy --------------------------------
(***************************************************************************)
(* deploy.sh, clean.sh and lib of dev-kube: shell scripts that create, in   *)
(* order and with kubectl, the resources of Whole Tale in a cluster, skip   *)
(* what is listed already, set Girder up, and delete by label.  They may    *)
(* stop anywhere and are run again, with or without -c and -k.  The cluster *)
(* is that of minikube, the type set in settings, with local volumes.  A    *)
(* command of a script is a step; kubectl and Girder are modelled from how  *)
(* the scripts use them.                                                    *)
(***************************************************************************)
EXTENDS Integers, Sequences, FiniteSets

CONSTANTS
    Lookalikes,     \* resources with others' names that contain ours
    MaxRuns,        \* bound on runs of the scripts
    MaxStops,       \* bound on runs that are interrupted
    MaxBlind        \* bound on listings that fail

Kinds == {"run", "stop", "blind"}
Limit == [run |-> MaxRuns, stop |-> MaxStops, blind |-> MaxBlind]

ASSUME ConstantsOK == \A k \in Kinds : Limit[k] \in Nat

VARIABLES
    cluster,    \* the resources there are, as <<kind, name>>
    labelled,   \* those with the label app=WholeTale
    foreign,    \* the lookalikes there are
    data,       \* Girder's database in volume-dirs, as in SetupOnce
    run,        \* the run under way or the last one, and what it has to do
    budget      \* runs, interruptions and failing listings still to come

vars == <<cluster, labelled, foreign, data, run, budget>>

Spend(k) == budget[k] > 0 /\ budget' = [budget EXCEPT ![k] = @ - 1]
------------------------------------------------------------------------------
(* The scripts, as sequences of commands *)

Command(op, what) == [op |-> op, what |-> what]
Make(kind, name)  == Command("make", {<<kind, name>>})
Bare(kind, name)  == Command("bare", {<<kind, name>>})
Label(kind, name) == Command("label", {<<kind, name>>})

(* if ! exists <what> [ || CONTINUE == 0 ] ; then <body> *)
Unless(what, forced, body) ==
    [op |-> "unless", what |-> what, forced |-> forced, body |-> body]

Minikube == <<"host", "minikube">>
Extras == {<<"host", "fix">>, <<"clusterrolebinding", "admin">>, <<"host", "ingress">>}
Plugin == {<<"role", "csi">>, <<"service", "csi">>, <<"daemonset", "csi">>}

CreateCluster ==
    << Unless(Minikube, TRUE,
              << Command("ensure", {Minikube}), Command("ensure", {<<"host", "fix">>}),
                 Bare("clusterrolebinding", "admin"), Command("ensure", {<<"host", "ingress">>}) >>),
       Command("make", Plugin) >>

CreateTLSSecret(name) ==
    << Unless(<<"secret", name>>, TRUE, << Bare("secret", name), Label("secret", name) >>) >>

(* Slip: the claim is made only along with its volume. *)
CreateVolumeTogether(name) ==
    << Unless(<<"volume", name>>, FALSE, << Make("volume", name), Make("claim", name) >>) >>

(* The names stand for <name>-volume and <name>-volume-claim. *)
CreateVolume(name) ==
    << Unless(<<"volume", name>>, FALSE, << Make("volume", name) >>),
       Unless(<<"claim", name>>, FALSE, << Make("claim", name) >>) >>

(* What the deployments mount and the scripts create. *)
Supplies ==
    [mongo     |-> {<<"claim", "mongo">>},
     redis     |-> {},
     registry  |-> {<<"claim", "registry-storage">>, <<"secret", "registry">>,
                    <<"secret", "dev-cert">>},
     girder    |-> {<<"claim", "girder-ps">>, <<"configmap", "girder">>},
     dashboard |-> {},
     worker    |-> {<<"secret", "registry">>, <<"configmap", "worker">>}]

(* Slip: an old configmap is not deleted. *)
StartServiceAfresh(name, configured) ==
    << Unless(<<"service", name>>, FALSE, << Make("service", name) >>),
       Unless(<<"deployment", name>>, FALSE,
          (IF configured THEN << Bare("configmap", name), Label("configmap", name) >> ELSE <<>>)
          \o << Make("deployment", name) >>) >>

(* Slip: the configmap is labelled when its deployment is there. *)
StartServiceLabelLast(name, configured) ==
    << Unless(<<"service", name>>, FALSE, << Make("service", name) >>),
       Unless(<<"deployment", name>>, FALSE,
          IF configured
          THEN << Command("replace", {<<"configmap", name>>}), Bare("configmap", name),
                  Make("deployment", name), Label("configmap", name) >>
          ELSE << Make("deployment", name) >>) >>

(* A deployment is preceded by its configmap, <name>-configmap, which is    *)
(* deleted first when it is listed; the worker's is called celery-worker.   *)
StartService(name, configured) ==
    << Unless(<<"service", name>>, FALSE, << Make("service", name) >>),
       Unless(<<"deployment", name>>, FALSE,
          IF configured
          THEN << Command("replace", {<<"configmap", name>>}), Bare("configmap", name),
                  Label("configmap", name), Make("deployment", name) >>
          ELSE << Make("deployment", name) >>) >>

DeployScript(k) ==
    (IF k THEN CreateCluster ELSE <<>>)
    \o CreateTLSSecret("dev-cert") \o CreateTLSSecret("site-cert")
    \o << Unless(<<"secret", "registry">>, TRUE, << Make("secret", "registry") >>) >>
    \o CreateVolume("mongo") \o CreateVolume("registry-storage") \o CreateVolume("girder-ps")
    \o << Make("claim", "gwvolman-dev"), Make("volume", "gwvolman-dev") >>
    \o StartService("mongo", FALSE) \o StartService("redis", FALSE)
    \o StartService("registry", FALSE) \o StartService("girder", TRUE)
    \o StartService("dashboard", FALSE) \o StartService("worker", TRUE)
    \o << Unless(<<"ingress", "ingress">>, TRUE, << Make("ingress", "ingress") >>),
          Command("setup", {}) >>

Delete(kind) == Command("delete", {kind})

(* Slip: the volumes and what else the deployments use go first. *)
CleanScriptVolumesFirst(k) ==
    << Delete("volume"), Delete("claim"), Delete("secret"), Delete("configmap"),
       Delete("deployment"), Delete("service"), Delete("ingress"),
       Delete("role"), Command("wipe", {}) >>
    \o (IF k THEN << Command("destroy", {}) >> ELSE <<>>)

(* Slip: the configmaps are left out. *)
CleanScriptNoConfigmaps(k) ==
    << Delete("deployment"), Delete("service"), Delete("ingress"),
       Delete("volume"), Delete("claim"), Delete("secret"),
       Delete("role"), Command("wipe", {}) >>
    \o (IF k THEN << Command("destroy", {}) >> ELSE <<>>)

(* Three calls of kubectl, each of which deletes one kind after the other. *)
CleanScript(k) ==
    << Delete("deployment"), Delete("service"), Delete("ingress"),
       Delete("volume"), Delete("claim"), Delete("secret"), Delete("configmap"),
       Delete("role"), Command("wipe", {}) >>
    \o (IF k THEN << Command("destroy", {}) >> ELSE <<>>)
------------------------------------------------------------------------------
NewRun == [cmd |-> "none", cont |-> TRUE, k |-> FALSE, slate |-> FALSE, blind |-> FALSE,
           todo |-> <<>>, result |-> "none"]

Init ==
    /\ cluster \in {{}, {Minikube}} /\ labelled = {}
    /\ foreign \in (IF cluster = {} THEN {{}} ELSE SUBSET Lookalikes)
    /\ data = "fresh"
    /\ run = NewRun
    /\ budget = Limit

(* slate: the run before this one was a clean that went through. *)
Begin(cmd) ==
    /\ run.result # "running"
    /\ Spend("run")
    /\ \E cont, k \in BOOLEAN :
          /\ cmd = "clean" => cont
          /\ run' = [cmd |-> cmd, cont |-> cont, k |-> k,
                     slate |-> run.cmd = "clean" /\ run.result = "done", blind |-> FALSE,
                     todo |-> IF cmd = "clean" THEN CleanScript(k) ELSE DeployScript(k),
                     result |-> "running"]
    /\ UNCHANGED <<cluster, labelled, foreign, data>>

Active(op) == run.result = "running" /\ run.todo # <<>> /\ Head(run.todo).op = op
What == Head(run.todo).what
Rest == Tail(run.todo)

(* Slip: a run of which nothing is left does not end. *)
GoesOnOpen(todo) == run' = [run EXCEPT !.todo = todo]

GoesOn(todo) ==
    run' = [run EXCEPT !.todo = todo, !.result = IF todo = <<>> THEN "done" ELSE @]
Over(result) == run' = [run EXCEPT !.todo = <<>>, !.result = result]

(* grep finds a name, or a longer one with the name in it. *)
Exists(what) == what \in cluster \cup foreign

(* A listing shows nothing when it fails or when minikube is halted. *)
Blind == IF Minikube \in cluster THEN Spend("blind") ELSE UNCHANGED budget

Check ==
    /\ Active("unless")
    /\ LET group == Head(run.todo)
           enter == group.body \o Rest
           skip  == Exists(group.what) /\ ~(group.forced /\ ~run.cont)
       IN  \/ /\ skip => Minikube \in cluster
              /\ GoesOn(IF skip THEN Rest ELSE enter) /\ UNCHANGED budget
           \/ /\ skip /\ Blind
              /\ run' = [run EXCEPT !.todo = enter, !.blind = TRUE]
    /\ UNCHANGED <<cluster, labelled, foreign, data>>

(* Without a cluster every call of kubectl fails.  Creating from a          *)
(* directory makes what is missing of it and fails for the rest.            *)
Create ==
    /\ Active("make") \/ Active("bare")
    /\ IF Minikube \in cluster
       THEN /\ cluster' = cluster \cup What
            /\ labelled' = IF Active("make") THEN labelled \cup (What \ cluster) ELSE labelled
            /\ IF What \cap cluster = {} THEN GoesOn(Rest) ELSE Over("exists")
       ELSE Over("failed") /\ UNCHANGED <<cluster, labelled>>
    /\ UNCHANGED <<foreign, data, budget>>

(* Slip: no label is given. *)
LabelNothing ==
    /\ Active("label")
    /\ GoesOn(Rest) /\ UNCHANGED <<cluster, labelled, foreign, data, budget>>

LabelIt ==
    /\ Active("label")
    /\ IF What \subseteq cluster
       THEN labelled' = labelled \cup What /\ GoesOn(Rest)
       ELSE Over("failed") /\ UNCHANGED labelled
    /\ UNCHANGED <<cluster, foreign, data, budget>>

(* Starting minikube, and what goes on inside it, may be repeated. *)
Ensure ==
    /\ Active("ensure")
    /\ cluster' = cluster \cup What
    /\ GoesOn(Rest)
    /\ UNCHANGED <<labelled, foreign, data, budget>>

(* What is listed is deleted, under our name. *)
Replace ==
    /\ Active("replace")
    /\ \/ /\ What \subseteq cluster
          /\ cluster' = cluster \ What /\ labelled' = labelled \ What
          /\ GoesOn(Rest) /\ UNCHANGED budget
       \/ /\ What \cap (cluster \cup foreign) = {}
          /\ GoesOn(Rest) /\ UNCHANGED <<cluster, labelled, budget>>
       \/ /\ What \cap (foreign \ cluster) # {}
          /\ Over("failed") /\ UNCHANGED <<cluster, labelled, budget>>
       \/ /\ What \cap (cluster \cup foreign) # {} /\ Spend("blind")
          /\ run' = [run EXCEPT !.todo = Rest, !.blind = TRUE]
          /\ UNCHANGED <<cluster, labelled>>
    /\ UNCHANGED <<foreign, data>>

(* What a run of setup_girder.py comes to (SetupOnce): it claims a fresh    *)
(* Girder and makes it ready, or fails somewhere; Girder needs its database *)
(* and the volumes of both to answer at all.                                *)
Serving ==
    {"mongo", "girder"} \X {"service", "deployment"}
        \subseteq {<<r[2], r[1]>> : r \in cluster}
SetUpGirder ==
    /\ Active("setup")
    /\ \/ Serving /\ data = "fresh" /\ data' = "ready" /\ GoesOn(Rest)
       \/ Over("failed") /\ data' \in (IF Serving /\ data = "fresh"
                                       THEN {"fresh", "claimed", "ready"} ELSE {data})
    /\ UNCHANGED <<cluster, labelled, foreign, budget>>

OfKind == {r \in labelled : r[1] \in What}
DeleteByLabel ==
    /\ Active("delete")
    /\ IF Minikube \in cluster
       THEN /\ cluster' = cluster \ OfKind /\ labelled' = labelled \ OfKind
            /\ GoesOn(Rest)
       ELSE Over("failed") /\ UNCHANGED <<cluster, labelled>>
    /\ UNCHANGED <<foreign, data, budget>>

(* rm -rf volume-dirs/[*] and, with -k, minikube stop and minikube delete *)
Wipe ==
    /\ Active("wipe") \/ Active("destroy")
    /\ IF Active("wipe") THEN data' = "fresh" /\ UNCHANGED <<cluster, labelled, foreign>>
       ELSE cluster' = {} /\ labelled' = {} /\ foreign' = {} /\ UNCHANGED data
    /\ GoesOn(Rest)
    /\ UNCHANGED budget

(* Interrupted between two commands, or in the middle of a deletion, or     *)
(* when minikube is halted and not yet deleted.  A command that fails for a *)
(* reason of its own is one that was not reached.                           *)
Stop ==
    /\ run.result = "running"
    /\ Spend("stop")
    /\ \E gone \in SUBSET (IF Active("delete") THEN OfKind
                           ELSE IF Active("destroy") THEN {Minikube} ELSE {}) :
          cluster' = cluster \ gone /\ labelled' = labelled \ gone
    /\ Over("stopped")
    /\ UNCHANGED <<foreign, data>>

Next ==
    \/ Begin("deploy") \/ Begin("clean")
    \/ Check \/ Create \/ LabelIt \/ Ensure \/ Replace \/ SetUpGirder
    \/ DeleteByLabel \/ Wipe \/ Stop

Spec == Init /\ [][Next]_vars
------------------------------------------------------------------------------
(* Correctness *)

(* Types: what each variable may hold; only what exists has a label, and a  *)
(* run is under way as long as it has something left to do.                 *)
TypeOK ==
    /\ labelled \subseteq cluster
    /\ foreign \subseteq Lookalikes
    /\ data \in {"fresh", "claimed", "ready"}
    /\ run.cmd \in {"none", "deploy", "clean"}
    /\ {run.cont, run.k, run.slate, run.blind} \subseteq BOOLEAN
    /\ run.result \in {"none", "running", "done", "exists", "failed", "stopped"}
    /\ run.result = "running" <=> run.todo # <<>>
    /\ \A k \in Kinds : budget[k] \in 0..Limit[k]

(* However runs of the two scripts are interrupted and repeated, and        *)
(* whatever listings fail, the claims, secrets and configmap that a         *)
(* deployment mounts are there as long as it is, but for what a lookalike   *)
(* hides.  A failing listing would have the configmap of a deployment that  *)
(* runs deleted, if the run were not refused first, at deploy.sh:97.        *)
WorkloadsSupplied ==
    \A d \in DOMAIN Supplies :
        <<"deployment", d>> \in cluster => Supplies[d] \ foreign \subseteq cluster

(* A configmap that a deployment uses has its label, although it is created *)
(* and labelled in two calls.                                               *)
ConfigmapsLabelled ==
    \A r \in cluster \ labelled :
        r[1] = "configmap" => <<"deployment", r[2]>> \notin cluster

(* A deployment that reports no failure has made everything, apart from     *)
(* what a lookalike hid, and a ready Girder; what goes with the cluster,    *)
(* which an interrupted -k run may have left half-made, is not asked for.   *)
Whole == {<<"secret", s>> : s \in {"dev-cert", "site-cert", "registry"}}
         \cup {"volume", "claim"} \X {"mongo", "registry-storage", "girder-ps", "gwvolman-dev"}
         \cup {"service", "deployment"} \X DOMAIN Supplies
         \cup {<<"configmap", "girder">>, <<"configmap", "worker">>, <<"ingress", "ingress">>}
CompletedIsWhole ==
    run.cmd = "deploy" /\ run.result = "done" =>
        /\ data = "ready"
        /\ \A r \in Whole \ cluster :
              r \in foreign \/ (r[1] = "configmap" /\ <<"deployment", r[2]>> \in foreign)

(* After a clean that went through, what belongs to the cluster may be left *)
(* and, of the rest, no more than one resource for each run that was        *)
(* interrupted before it could label it.                                    *)
AfterClean ==
    run.cmd = "clean" /\ run.result = "done" =>
        /\ data = "fresh"
        /\ Cardinality(cluster \ (Extras \cup Plugin \cup {Minikube})) <= MaxStops - budget["stop"]
        /\ run.k => cluster = {}

(* A default run right after such a clean is never refused because          *)
(* something exists already, whatever was left.                             *)
CleanSlate ==
    run.cmd = "deploy" /\ run.cont /\ ~run.k /\ run.slate /\ ~run.blind =>
        run.result # "exists"

(* "By default, this tool only attempts to start individual services if not *)
(* already started": a default run is not refused because something exists. *)
StartsOnlyMissing ==
    run.cmd = "deploy" /\ run.cont /\ ~run.k /\ ~run.blind => run.result # "exists"
=============================================================================
