-------------------------------- MODULE Launch --------------------------------
(***************************************************************************)
(* The helpers of gwvolman/utils.py with which a worker gives a tale its    *)
(* container: _get_api_key, _get_container_config and _launch_container,    *)
(* and the addresses that the process-wide DEPLOYMENT looks up once.  The   *)
(* tasks that call them are not in the repository; here a task calls them   *)
(* in any order, as long as _launch_container gets a configuration.  A      *)
(* worker process runs one task at a time; Girder, docker and the user are  *)
(* modelled from how the code uses them.                                    *)
(***************************************************************************)
EXTENDS Integers, Sequences, FiniteSets

CONSTANTS
    Workers,        \* worker processes, all with tasks of one user
    Tales,          \* what a tale and its image may ask for
    MaxChanges,     \* bound on changes of the deployment's labels
    MaxRevokes,     \* bound on keys the user deactivates or deletes
    MaxFaults,      \* bound on calls that fail
    MaxDeaths,      \* bound on workers that die and start again
    MaxCalls        \* bound on calls of the helpers

Kinds == {"change", "revoke", "fault", "death", "call"}
Limit == [change |-> MaxChanges, revoke |-> MaxRevokes, fault |-> MaxFaults,
          death |-> MaxDeaths, call |-> MaxCalls]

ASSUME ConstantsOK ==
    /\ IsFiniteSet(Workers)
    /\ \A k \in Kinds : Limit[k] \in Nat

(* What a task may be given: own and image hold the environments that the   *)
(* configurations of the tale and of its image have, as sets of at most     *)
(* one; memLimit and wellFormed are of the two together.                    *)
ASSUME TalesOK ==
    \A tale \in Tales :
        /\ tale = [own |-> tale.own, image |-> tale.image,
                   memLimit |-> tale.memLimit, wellFormed |-> tale.wellFormed]
        /\ \A e, f \in tale.own : e = f
        /\ \A e, f \in tale.image : e = f
        /\ \A e \in tale.own \cup tale.image : e \in Seq({e[i] : i \in DOMAIN e})

VARIABLES
    labels,     \* labels[a]: how often address a of the deployment changed
    cache,      \* cache[w][a]: what DEPLOYMENT holds in worker w, as a set
    keys,       \* the user's API keys of the name tmpnb
    services,   \* the containers that were created
    task,       \* task[w]: the task of worker w and the call it is in
    budget      \* changes, revocations, failures and calls still to come

vars == <<labels, cache, keys, services, task, budget>>

Used(k) == Limit[k] - budget[k]
Spend(k) == budget[k] > 0 /\ budget' = [budget EXCEPT ![k] = @ - 1]
------------------------------------------------------------------------------
(* Pure helpers *)

(* Powers of 1024; a suffix stands for both cases, with a b added or not. *)
SIZE_TABLE == [b |-> 0, k |-> 1, m |-> 2, g |-> 3]

(* A number of bytes as <<n, p>>, n times the p-th power of 1024, in a set  *)
(* that is empty when the code raises: None is a TypeError, a text that     *)
(* does not match a ValueError.                                             *)
SizeNotationToBytes(size) ==
    IF size.type = "int" THEN {<<size.val, 0>>}
    ELSE IF size.type = "str" /\ size.suffix \in DOMAIN SIZE_TABLE
    THEN {<<size.val, SIZE_TABLE[size.suffix]>>}
    ELSE {}

TwoGigabytes == [type |-> "str", val |-> 2, suffix |-> "g"]

(* The entry of an environment that names CSP_HOSTS and its value. *)
Csp(url) == [name |-> "CSP_HOSTS", value |-> url]

(* Slip: the setting is added, whether there is one or not. *)
AddCsp(env, url) == Append(env, Csp(url))

(* The names that begin with CSP_HOSTS, which is all the code looks for; one *)
(* other than CSP_HOSTS itself stands for them.                             *)
CspNames == {"CSP_HOSTS", "CSP_HOSTS_OLD"}

(* Where an environment has a setting of such a name. *)
Csps(env) == {i \in DOMAIN env : env[i].name \in CspNames}

(* The first of them is replaced, or one is added. *)
GetEnvWithCsp(env, url) ==
    IF Csps(env) = {} THEN Append(env, Csp(url))
    ELSE [env EXCEPT ![CHOOSE i \in Csps(env) : \A j \in Csps(env) : i <= j] = Csp(url)]
------------------------------------------------------------------------------
Addresses == {"dashboard", "registry", "network"}
NoCache == [a \in Addresses |-> {}]

(* A task remembers what it was given. *)
NewTask(tale) ==
    [pc |-> "ready", tale |-> tale, given |-> tale, config |-> {}, login |-> {}]
NoTask == [pc |-> "none"]

Becomes(w, t) == task' = [task EXCEPT ![w] = t]
At(t, pc) == [t EXCEPT !.pc = pc]

Init ==
    /\ labels = [a \in Addresses |-> 0]
    /\ cache = [w \in Workers |-> NoCache]
    /\ keys = {} /\ services = {}
    /\ task = [w \in Workers |-> NoTask]
    /\ budget = Limit

(* The deployment is changed under the workers, and keys are deactivated or *)
(* deleted, which is the same to the code. *)
LabelsChange ==
    /\ Spend("change")
    /\ \E a \in Addresses : labels' = [labels EXCEPT ![a] = @ + 1]
    /\ UNCHANGED <<cache, keys, services, task>>

Revoke ==
    /\ Spend("revoke")
    /\ \E k \in keys : /\ k.active
                       /\ keys' = (keys \ {k}) \cup {[k EXCEPT !.active = FALSE]}
    /\ UNCHANGED <<labels, cache, services, task>>

(* Slip: the address is looked up whenever it is needed. *)
AddressNow(w, a) == labels[a]

(* DEPLOYMENT asks docker once in the life of a process. *)
Address(w, a) == IF cache[w][a] = {} THEN labels[a] ELSE CHOOSE url \in cache[w][a] : TRUE
Ask(w, as) == cache' = [cache EXCEPT ![w] = [a \in Addresses |->
                           IF a \in as THEN {Address(w, a)} ELSE @[a]]]
------------------------------------------------------------------------------
(* A task and its calls *)

Begin(w) ==
    /\ task[w].pc = "none"
    /\ \E tale \in Tales : Becomes(w, NewTask(tale))
    /\ UNCHANGED <<labels, cache, keys, services, budget>>

End(w) ==
    /\ task[w].pc = "ready"
    /\ Becomes(w, NoTask)
    /\ UNCHANGED <<labels, cache, keys, services, budget>>

(* Slip: the keys in the list do not have the name that is looked for. *)
ListKeysMisnamed(w) ==
    /\ task[w].pc = "ready" /\ Spend("call")
    /\ Becomes(w, At(task[w], "key"))
    /\ UNCHANGED <<labels, cache, keys, services>>

(* The last active key in the list is taken; without one a key is made. *)
ListKeys(w) ==
    /\ task[w].pc = "ready" /\ Spend("call")
    /\ Becomes(w, IF \E k \in keys : k.active THEN task[w] ELSE At(task[w], "key"))
    /\ UNCHANGED <<labels, cache, keys, services>>

NewKey(w) == [by |-> w, n |-> Cardinality({k \in keys : k.by = w}), active |-> TRUE]
CreateKey(w) ==
    /\ task[w].pc = "key"
    /\ keys' = keys \cup {NewKey(w)}
    /\ Becomes(w, At(task[w], "ready"))
    /\ UNCHANGED <<labels, cache, services, budget>>

(* Once the image is there, the dashboard's address goes into the           *)
(* environment: the tale's if it has one, which is changed in place, or     *)
(* else the image's, or a new one.                                          *)
Environment(tale) ==
    IF tale.own # {} THEN tale.own ELSE IF tale.image # {} THEN tale.image ELSE {<<>>}

(* Slip: the configuration is made and not returned. *)
GetImageOnly(w) ==
    LET t == task[w]
    IN  /\ t.pc = "ready" /\ Spend("call")
        /\ Ask(w, {"dashboard"})
        /\ Becomes(w, At(t, "registry"))
        /\ UNCHANGED <<labels, keys, services>>

GetImage(w) ==
    LET t == task[w]
        env == GetEnvWithCsp(CHOOSE e \in Environment(t.tale) : TRUE, Address(w, "dashboard"))
        size == SizeNotationToBytes(t.tale.memLimit)
    IN  /\ t.pc = "ready" /\ Spend("call")
        /\ Ask(w, {"dashboard"})
        /\ Becomes(w, [t EXCEPT
              !.pc = "registry",
              !.tale.own = IF @ = {} THEN @ ELSE {env},
              !.config = {[env |-> env, image |-> 0,
                           mem_limit |-> IF size = {} THEN SizeNotationToBytes(TwoGigabytes)
                                         ELSE size]}])
        /\ UNCHANGED <<labels, keys, services>>

(* The image is named by the registry it is in. *)
NameImage(w) ==
    LET t == task[w]
    IN  /\ t.pc = "registry"
        /\ Ask(w, {"registry"})
        /\ Becomes(w, [t EXCEPT !.pc = "ready",
                                !.config = {[c EXCEPT !.image = Address(w, "registry")] : c \in @}])
        /\ UNCHANGED <<labels, keys, services, budget>>

(* docker logs in to the registry; a configuration without a target for the *)
(* mounts, or with a command that cannot be rendered, raises.               *)
Login(w) ==
    LET t == task[w]
    IN  /\ t.pc = "ready" /\ t.config # {} /\ Spend("call")
        /\ Ask(w, {"registry"})
        /\ Becomes(w, IF t.tale.wellFormed
                      THEN [t EXCEPT !.pc = "service", !.login = {Address(w, "registry")}]
                      ELSE NoTask)
        /\ UNCHANGED <<labels, keys, services>>

Service(w, t) ==
    [given |-> t.given, config |-> CHOOSE c \in t.config : TRUE,
     login |-> CHOOSE url \in t.login : TRUE, network |-> Address(w, "network")]

CreateService(w) ==
    LET t == task[w]
    IN  /\ t.pc = "service"
        /\ Ask(w, {"network"})
        /\ services' = services \cup {Service(w, t)}
        /\ Becomes(w, At(t, "ready"))
        /\ UNCHANGED <<labels, keys, budget>>

(* A call to Girder or docker that fails, or whose answer is lost. *)
CallBreaks(w) ==
    /\ task[w].pc \notin {"none", "ready"}
    /\ Spend("fault")
    /\ keys' \in {keys} \cup (IF task[w].pc = "key" THEN {keys \cup {NewKey(w)}} ELSE {})
    /\ services' \in {services} \cup (IF task[w].pc = "service"
                                      THEN {services \cup {Service(w, task[w])}} ELSE {})
    /\ Becomes(w, NoTask)
    /\ UNCHANGED <<labels, cache>>

WorkerDies(w) ==
    /\ Spend("death")
    /\ Becomes(w, NoTask)
    /\ cache' = [cache EXCEPT ![w] = NoCache]
    /\ UNCHANGED <<labels, keys, services>>

Next ==
    \/ \E w \in Workers :
          \/ Begin(w) \/ End(w) \/ ListKeys(w) \/ CreateKey(w) \/ GetImage(w)
          \/ NameImage(w) \/ Login(w) \/ CreateService(w)
          \/ CallBreaks(w) \/ WorkerDies(w)
    \/ LabelsChange \/ Revoke

Spec == Init /\ [][Next]_vars
------------------------------------------------------------------------------
(* Correctness *)

(* Types: what each variable may hold, and that a task that is past its     *)
(* configuration has one.                                                   *)
TypeOK ==
    /\ labels \in [Addresses -> 0..MaxChanges]
    /\ \A w \in Workers, a \in Addresses :
          cache[w][a] \subseteq 0..labels[a] /\ Cardinality(cache[w][a]) <= 1
    /\ \A k \in keys : k.by \in Workers /\ k.n \in Nat /\ k.active \in BOOLEAN
    /\ \A w \in Workers : /\ task[w].pc \in {"none", "ready", "key", "registry", "service"}
                          /\ task[w].pc \in {"registry", "service"} =>
                                 Cardinality(task[w].config) = 1
    /\ \A k \in Kinds : budget[k] \in 0..Limit[k]

(* Looking for a key and making one are two calls, so that workers may each *)
(* make one; but no worker makes a second while its first is active, and    *)
(* the user has no more keys than workers and revocations.                  *)
KeysBounded == Cardinality(keys) <= Cardinality(Workers) + Used("revoke")

(* While labels change between the calls, a container is created from an    *)
(* image of the very registry that its worker has logged in to.             *)
LoginMatchesImage == \A s \in services : s.login = s.config.image

(* However often a configuration is made of one tale, whose environment is  *)
(* changed in place, a container has one CSP_HOSTS, unless its tale was     *)
(* given several settings whose names begin so, and has all the settings of *)
(* other names where they were.                                             *)
Others(env) == {<<i, env[i]>> : i \in DOMAIN env \ Csps(env)}
OneCsp ==
    \A s \in services : \A given \in Environment(s.given) :
        LET env == s.config.env
        IN  /\ Others(env) = Others(given)
            /\ Cardinality(Csps(given)) <= 1 =>
                  \E i \in DOMAIN env : Csps(env) = {i} /\ env[i].name = "CSP_HOSTS"
===============================================================================
