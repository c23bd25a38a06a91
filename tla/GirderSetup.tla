----------------------------- MODULE GirderSetup -----------------------------
(***************************************************************************)
(* dev-kube/setup_girder.py: a script that waits for Girder, creates its    *)
(* admin user, enables plugins, has Girder restart, waits again and then    *)
(* writes settings, a recipe and an image.  One HTTP call per step, beside  *)
(* a server that starts late, restarts and stops, and other runs of the     *)
(* script, earlier ones that ended half-way or ones still running.  Girder  *)
(* and the ingress in front of it are modelled from how the code uses them. *)
(***************************************************************************)
EXTENDS Integers

CONSTANTS
    Runs,           \* runs of the script
    ConnErrLimit,   \* connection errors the first wait endures (10)
    MaxStops,       \* bound on Girder stopping by itself
    MaxFaults,      \* bound on calls that fail though Girder is up
    MaxKills        \* bound on runs that are interrupted

Kinds == {"stop", "fault", "kill"}
Limit == [stop |-> MaxStops, fault |-> MaxFaults, kill |-> MaxKills]

ASSUME ConstantsOK ==
    /\ ConnErrLimit \in Nat
    /\ \A k \in Kinds : Limit[k] \in Nat

VARIABLES
    server,     \* the process of Girder
    db,         \* db[x]: how many of x Girder's database holds
    run,        \* run[r]: the state of a run of the script
    owner,      \* history: the runs whose call created an admin user
    budget      \* stops, faults and interruptions still to come

vars == <<server, db, run, owner, budget>>

Used(k) == Limit[k] - budget[k]
Spend(k) == budget[k] > 0 /\ budget' = [budget EXCEPT ![k] = @ - 1]

(* The calls between the waits and after them, in the order of the script. *)
Things == {"admin", "assetstore", "plugins", "settings", "recipe", "image", "build"}
NextOf == [admin |-> "assetstore", assetstore |-> "plugins", plugins |-> "restart",
           restart |-> "rewait", settings |-> "recipe", recipe |-> "image",
           image |-> "build", build |-> "ended"]

NewRun == [pc |-> "idle", env |-> FALSE, connErrCount |-> 0, result |-> "none"]

Becomes(r, t) == run' = [run EXCEPT ![r] = t]

(* Slip: a run that fails leaves no trace of it. *)
FailedSilently(t) == [t EXCEPT !.pc = "ended"]

Failed(t) == [t EXCEPT !.pc = "ended", !.result = "failed"]
Done(t, pc) == [t EXCEPT !.pc = NextOf[pc],
                         !.result = IF NextOf[pc] = "ended" THEN "ok" ELSE @]

Init ==
    /\ server = [up |-> FALSE, loaded |-> FALSE, restarting |-> FALSE]
    /\ db = [x \in Things |-> 0]
    /\ run = [r \in Runs |-> NewRun]
    /\ owner = {}
    /\ budget = Limit
------------------------------------------------------------------------------
(* Girder *)

(* Plugins are loaded when the process starts. *)
ServerStarts ==
    /\ ~server.up
    /\ server' = [up |-> TRUE, loaded |-> db["plugins"] > 0, restarting |-> FALSE]
    /\ UNCHANGED <<db, run, owner, budget>>

Down == [up |-> FALSE, loaded |-> FALSE, restarting |-> FALSE]

ServerRestarts ==
    /\ server.up /\ server.restarting
    /\ server' = Down
    /\ UNCHANGED <<db, run, owner, budget>>

ServerStops ==
    /\ server.up
    /\ Spend("stop")
    /\ server' = Down
    /\ UNCHANGED <<db, run, owner>>

(* Whether Girder takes a request: logins and the names of assetstores are  *)
(* unique, and what comes after the restart belongs to plugins.             *)
Accepts(x) ==
    /\ x \in {"admin", "assetstore"} => db[x] = 0
    /\ x \in {"settings", "recipe", "image", "build"} => server.loaded

(* Plugins and settings are overwritten, the others are added. *)
Effect(r, x) ==
    /\ server' = IF x = "restart" THEN [server EXCEPT !.restarting = TRUE] ELSE server
    /\ db' = IF x = "restart" THEN db
             ELSE [db EXCEPT ![x] = IF x \in {"plugins", "settings"} THEN 1 ELSE @ + 1]
    /\ owner' = IF x = "admin" THEN owner \cup {r} ELSE owner
------------------------------------------------------------------------------
(* A run of the script *)

Start(r) ==
    /\ run[r].pc = "idle"
    /\ \E e \in BOOLEAN : Becomes(r, [NewRun EXCEPT !.pc = "wait", !.env = e])
    /\ UNCHANGED <<server, db, owner, budget>>

(* While Girder is down the ingress answers for it, which is waited out     *)
(* without a bound, or the connection fails, which is counted.              *)
WaitForGirder(r) ==
    LET t == run[r]
    IN  /\ t.pc = "wait"
        /\ \/ server.up /\ Becomes(r, [t EXCEPT !.pc = "admin"])
           \/ /\ ~server.up
              /\ Becomes(r, IF t.connErrCount + 1 > ConnErrLimit THEN Failed(t)
                            ELSE [t EXCEPT !.connErrCount = @ + 1])
        /\ UNCHANGED <<server, db, owner, budget>>

(* A call that raise_for_status watches over. *)
Answered(r, x, t) ==
    /\ server.up /\ Accepts(x)
    /\ Effect(r, x) /\ Becomes(r, t)

Refused(r, x, t) ==
    /\ server.up => ~Accepts(x)
    /\ Becomes(r, t) /\ UNCHANGED <<server, db, owner>>

(* An error of the server, or an answer that is lost after the effect. *)
Breaks(r, x, t) ==
    /\ server.up /\ Accepts(x) /\ Spend("fault")
    /\ \/ Effect(r, x)
       \/ UNCHANGED <<server, db, owner>>
    /\ Becomes(r, t)

Call(r, x, done, failed) ==
    \/ Answered(r, x, done) /\ UNCHANGED budget
    \/ Refused(r, x, failed) /\ UNCHANGED budget
    \/ Breaks(r, x, failed)

(* Slip: that the login is taken is no reason to stop. *)
CreateAdminAnyway(r) ==
    LET t == run[r]
    IN  /\ t.pc = "admin"
        /\ Call(r, "admin", Done(t, "admin"), Done(t, "admin"))

(* The login is taken once an earlier run has come this far. *)
CreateAdmin(r) ==
    LET t == run[r]
    IN  /\ t.pc = "admin"
        /\ Call(r, "admin", Done(t, "admin"), Failed(t))

(* The status is not looked at; only a broken connection raises. *)
CreateAssetstore(r) ==
    LET t == run[r]
    IN  /\ t.pc = "assetstore"
        /\ \/ Call(r, "assetstore", Done(t, "assetstore"), Done(t, "assetstore"))
           \/ ~server.up /\ Refused(r, "assetstore", Failed(t)) /\ UNCHANGED budget
           \/ Breaks(r, "assetstore", Failed(t))

(* Slip: the request to restart is forgotten. *)
EnablePluginsOnly(r) ==
    LET t == run[r]
    IN  \/ t.pc = "plugins" /\ Call(r, "plugins", Done(t, "plugins"), Failed(t))
        \/ /\ t.pc = "restart" /\ Becomes(r, Done(t, "restart"))
           /\ UNCHANGED <<server, db, owner, budget>>

EnablePlugins(r) ==
    LET t == run[r]
    IN  /\ t.pc \in {"plugins", "restart"}
        /\ Call(r, t.pc, Done(t, t.pc), Failed(t))

(* Slip: any answer of Girder's ends the second wait. *)
WaitForAnswer(r) ==
    LET t == run[r]
    IN  /\ t.pc = "rewait"
        /\ \/ server.up /\ Becomes(r, [t EXCEPT !.pc = "settings"])
           \/ ~server.up /\ Becomes(r, Failed(t))
        /\ UNCHANGED <<server, db, owner, budget>>

(* /oauth/provider is there when the plugins are loaded.  Other answers,    *)
(* those of the ingress included, are waited out; a connection error is not *)
(* caught.                                                                  *)
WaitForRestart(r) ==
    LET t == run[r]
    IN  /\ t.pc = "rewait"
        /\ \/ server.up /\ server.loaded /\ Becomes(r, [t EXCEPT !.pc = "settings"])
           \/ ~server.up /\ Becomes(r, Failed(t))
        /\ UNCHANGED <<server, db, owner, budget>>

(* Slip: the answer to the settings is not looked at. *)
SetUpPluginUnchecked(r) ==
    LET t == run[r]
    IN  /\ t.pc \in {"settings", "recipe", "image", "build"}
        /\ Call(r, t.pc, Done(t, t.pc),
                IF t.pc = "settings" THEN Done(t, t.pc) ELSE Failed(t))

(* The settings need two variables of the environment, which are read only  *)
(* now.                                                                     *)
SetUpPlugin(r) ==
    LET t == run[r]
    IN  /\ t.pc \in {"settings", "recipe", "image", "build"}
        /\ \/ /\ t.pc = "settings" => t.env
              /\ Call(r, t.pc, Done(t, t.pc), Failed(t))
           \/ /\ t.pc = "settings" /\ ~t.env
              /\ Becomes(r, Failed(t)) /\ UNCHANGED <<server, db, owner, budget>>

Step(r) ==
    \/ WaitForGirder(r) \/ CreateAdmin(r) \/ CreateAssetstore(r) \/ EnablePlugins(r)
    \/ WaitForRestart(r) \/ SetUpPlugin(r)

Interrupt(r) ==
    /\ run[r].pc \notin {"idle", "ended"}
    /\ Spend("kill")
    /\ Becomes(r, Failed(run[r]))
    /\ UNCHANGED <<server, db, owner>>

Next ==
    \/ \E r \in Runs : Start(r) \/ Step(r) \/ Interrupt(r)
    \/ ServerStarts \/ ServerRestarts \/ ServerStops

Spec == Init /\ [][Next]_vars

(* A run goes on, and Kubernetes starts Girder again whenever it has ended. *)
FairSpec ==
    /\ Spec
    /\ WF_vars(ServerStarts) /\ WF_vars(ServerRestarts)
    /\ \A r \in Runs : WF_vars(Step(r))
------------------------------------------------------------------------------
(* Correctness *)

(* Types: what each variable may hold, and that a run has a result when it  *)
(* has ended.                                                               *)
TypeOK ==
    /\ server \in [up : BOOLEAN, loaded : BOOLEAN, restarting : BOOLEAN]
    /\ db \in [Things -> Nat]
    /\ run \in [Runs -> [pc : DOMAIN NextOf \cup {"idle", "wait", "rewait", "ended"},
                         env : BOOLEAN, connErrCount : 0..ConnErrLimit,
                         result : {"none", "ok", "failed"}]]
    /\ owner \subseteq Runs
    /\ budget \in [stop : 0..MaxStops, fault : 0..MaxFaults, kill : 0..MaxKills]
    /\ \A r \in Runs : run[r].pc = "ended" <=> run[r].result # "none"

(* Whatever runs there are, at once or after one that was interrupted, and  *)
(* although an answer may be lost after its effect, nothing is made twice.  *)
NothingTwice == \A x \in Things : db[x] <= 1

(* The second wait lets a run go on only to a Girder that has the plugins,  *)
(* and a Girder that stops later comes back with them.                      *)
PluginsServed ==
    \A r \in Runs : run[r].pc \in {"settings", "recipe", "image", "build"} /\ server.up
                       => server.loaded

(* A run that reports success has set everything up, the assetstore apart,  *)
(* whose creation is not checked.                                           *)
SuccessIsComplete ==
    \A r \in Runs : run[r].result = "ok" => \A x \in Things \ {"assetstore"} : db[x] = 1

(* Every run ends: the waits are for a Girder that comes back. *)
Ends == \A r \in Runs : run[r].pc # "idle" ~> run[r].pc = "ended"

(* Girder is claimed once and made ready by the run that claimed it. *)
Once == INSTANCE SetupOnce WITH
    stage <- IF db["build"] > 0 THEN "ready" ELSE IF db["admin"] > 0 THEN "claimed" ELSE "fresh",
    holder <- owner,
    result <- [r \in Runs |-> run[r].result]
ImplementsSetupOnce == Once!Spec
=============================================================================
