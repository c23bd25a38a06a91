---------------------------- MODULE LaunchProofs ----------------------------
(***************************************************************************)
(* Theorems about Launch, for any number of workers, any tales and bounds.  *)
(***************************************************************************)
EXTENDS Launch, FiniteSetTheorems, SequenceTheorems, WellFoundedInduction, TLAPS

(* An address that a worker knows is one that was on the labels. *)
CacheOK ==
    /\ labels \in [Addresses -> Nat] /\ DOMAIN cache = Workers
    /\ \A a \in Addresses : labels[a] <= Used("change")
    /\ \A w \in Workers : DOMAIN cache[w] = Addresses
    /\ \A w \in Workers, a \in Addresses :
          cache[w][a] = {} \/ \E n \in 0..labels[a] : cache[w][a] = {n}

(* A worker without a task, or with one whose image and login are both at   *)
(* the registry that the worker has looked up.                              *)
IsConfig(c) == c = [env |-> c.env, image |-> c.image, mem_limit |-> c.mem_limit]
IsTask(t) == t = [pc |-> t.pc, tale |-> t.tale, given |-> t.given, config |-> t.config,
                  login |-> t.login]
Settled(w, t) ==
    /\ t.pc \in {"ready", "key", "registry", "service"} /\ IsTask(t)
    /\ t.config = {} \/ \E c : t.config = {c} /\ IsConfig(c)
    /\ t.pc \in {"registry", "service"} => t.config # {}
    /\ t.pc # "registry" => \A c \in t.config : cache[w]["registry"] = {c.image}
    /\ t.pc = "service" => t.login = cache[w]["registry"]
TaskOK(w) == task[w] = NoTask \/ Settled(w, task[w])

(* Workers whose key is active. *)
KeyType == [by : Workers, n : Nat, active : BOOLEAN]
Holders == {w \in Workers : \E k \in keys : k.by = w /\ k.active}
KeysOK ==
    /\ IsFiniteSet(keys)
    /\ keys \subseteq KeyType
    /\ \A w \in Workers : task[w].pc = "key" => w \notin Holders
    /\ Cardinality(keys) <= Cardinality(Holders) + Used("revoke")

BudgetOK == \A k \in Kinds : budget[k] \in 0..Limit[k]
BudgetShape == DOMAIN budget = Kinds

LaunchInv ==
    /\ CacheOK /\ KeysOK /\ BudgetOK /\ BudgetShape /\ LoginMatchesImage
    /\ DOMAIN task = Workers /\ \A w \in Workers : TaskOK(w)
------------------------------------------------------------------------------
(* Budgets *)

LEMMA SpendOK ==
    ASSUME BudgetOK, BudgetShape, NEW k \in Kinds, Spend(k)
    PROVE  /\ BudgetOK' /\ BudgetShape'
           /\ Used(k)' = Used(k) + 1 /\ \A j \in Kinds \ {k} : Used(j)' = Used(j)
<1>1. /\ budget'[k] = budget[k] - 1 /\ budget[k] > 0
      /\ \A j \in Kinds \ {k} : budget'[j] = budget[j]
  BY DEF Spend, BudgetShape
<1>2. Limit[k] \in Nat /\ budget[k] \in 0..Limit[k]
  BY ConstantsOK DEF BudgetOK
<1>3. BudgetOK' /\ BudgetShape'
  BY <1>1, <1>2 DEF BudgetOK, BudgetShape, Spend
<1>4. QED
  BY <1>1, <1>2, <1>3 DEF Used

(* What a step of a worker may do to the budget. *)
Pays == UNCHANGED budget \/ \E k \in Kinds \ {"change", "revoke"} : Spend(k)

LEMMA PaysOK ==
    ASSUME BudgetOK, BudgetShape, Pays
    PROVE  /\ BudgetOK' /\ BudgetShape'
           /\ Used("change")' = Used("change") /\ Used("revoke")' = Used("revoke")
<1>1. CASE UNCHANGED budget
  BY <1>1 DEF BudgetOK, BudgetShape, Used
<1>2. ASSUME NEW k \in Kinds \ {"change", "revoke"}, Spend(k)
      PROVE  /\ BudgetOK' /\ BudgetShape'
             /\ Used("change")' = Used("change") /\ Used("revoke")' = Used("revoke")
  BY <1>2, SpendOK DEF Kinds
<1>3. QED
  BY <1>1, <1>2 DEF Pays

LEMMA UsedTyped ==
    ASSUME BudgetOK, NEW k \in Kinds PROVE Used(k) \in Nat /\ Used(k) <= Limit[k]
BY ConstantsOK DEF BudgetOK, Used
------------------------------------------------------------------------------
(* Addresses *)

LEMMA AddressKnown ==
    ASSUME NEW w, NEW a, NEW n, cache[w][a] = {n} PROVE Address(w, a) = n
BY DEF Address

LEMMA AddressTyped ==
    ASSUME CacheOK, NEW w \in Workers, NEW a \in Addresses
    PROVE  Address(w, a) \in 0..labels[a]
<1>1. CASE cache[w][a] = {}
  BY <1>1 DEF CacheOK, Address
<1>2. ASSUME NEW n \in 0..labels[a], cache[w][a] = {n} PROVE Address(w, a) \in 0..labels[a]
  BY <1>2, AddressKnown
<1>3. QED
  BY <1>1, <1>2 DEF CacheOK

(* Asking makes an address known and keeps what is known. *)
LEMMA AskOK ==
    ASSUME CacheOK, BudgetOK, BudgetShape, NEW w \in Workers, NEW as \in SUBSET Addresses,
           Ask(w, as), UNCHANGED labels, Used("change")' = Used("change")
    PROVE  /\ CacheOK'
           /\ \A q \in Workers \ {w} : cache'[q] = cache[q]
           /\ \A a \in as : cache'[w][a] = {Address(w, a)}
           /\ \A a \in Addresses : \A n : cache[w][a] = {n} => cache'[w][a] = {n}
<1>1. /\ DOMAIN cache' = Workers /\ \A q \in Workers \ {w} : cache'[q] = cache[q]
      /\ cache'[w] = [a \in Addresses |-> IF a \in as THEN {Address(w, a)} ELSE cache[w][a]]
  BY DEF Ask, CacheOK
<1>2. ASSUME NEW a \in Addresses, NEW n, cache[w][a] = {n} PROVE cache'[w][a] = {n}
  <2>1. Address(w, a) = n
    BY <1>2, AddressKnown
  <2>2. QED
    BY <1>1, <1>2, <2>1
<1>3. \A a \in Addresses : cache'[w][a] = {} \/ \E n \in 0..labels[a] : cache'[w][a] = {n}
  <2>1. ASSUME NEW a \in as PROVE \E n \in 0..labels[a] : cache'[w][a] = {n}
    BY <1>1, AddressTyped
  <2>2. ASSUME NEW a \in Addresses \ as PROVE cache'[w][a] = cache[w][a]
    BY <1>1
  <2>3. QED
    BY <2>1, <2>2 DEF CacheOK
<1>4. CacheOK'
  <2>1. /\ labels' \in [Addresses -> Nat] /\ DOMAIN cache' = Workers
        /\ \A a \in Addresses : labels'[a] <= Used("change")'
    BY <1>1 DEF CacheOK
  <2>2. ASSUME NEW q \in Workers
        PROVE  /\ DOMAIN cache'[q] = Addresses
               /\ \A a \in Addresses :
                     cache'[q][a] = {} \/ \E n \in 0..labels'[a] : cache'[q][a] = {n}
    <3>1. CASE q = w
      BY <1>1, <1>3, <3>1
    <3>2. CASE q # w
      BY <1>1, <3>2 DEF CacheOK
    <3>3. QED
      BY <3>1, <3>2
  <2>3. QED
    BY <2>1, <2>2 DEF CacheOK
<1>5. QED
  BY <1>1, <1>2, <1>4

(* A worker keeps its part when what it knows is kept. *)
LEMMA TaskKeeps ==
    ASSUME NEW w \in Workers, TaskOK(w), task'[w] = task[w],
           cache'[w]["registry"] = cache[w]["registry"]
    PROVE  TaskOK(w)'
BY DEF TaskOK, Settled

LEMMA SettledKeeps ==
    ASSUME NEW w \in Workers, Settled(w, task[w]), task[w].pc # "registry",
           NEW pc \in {"ready", "key"}, task'[w] = At(task[w], pc),
           \A n : cache[w]["registry"] = {n} => cache'[w]["registry"] = {n}
    PROVE  TaskOK(w)' /\ task'[w].pc = pc
<1>1. task'[w] = [pc |-> pc, tale |-> task[w].tale, given |-> task[w].given,
                  config |-> task[w].config, login |-> task[w].login]
  BY DEF Settled, IsTask, At
<1>2. QED
  BY <1>1 DEF Settled, IsTask, TaskOK, IsConfig
------------------------------------------------------------------------------
(* Keys *)

(* A step in which no key changes, and no task comes to make one. *)
LEMMA KeysKeep ==
    ASSUME KeysOK, UNCHANGED keys, Used("revoke")' = Used("revoke"),
           \A w \in Workers : task'[w].pc = "key" => task[w].pc = "key"
                                                            \/ w \notin Holders
    PROVE  KeysOK'
<1>1. Holders' = Holders
  BY DEF Holders
<1>2. QED
  BY <1>1 DEF KeysOK

LEMMA HoldersFinite ==
    IsFiniteSet(Holders) /\ Cardinality(Holders) \in Nat
    /\ Cardinality(Holders) <= Cardinality(Workers) /\ Cardinality(Workers) \in Nat
BY ConstantsOK, FS_Subset, FS_CardinalityType DEF Holders

LEMMA AddOne ==
    ASSUME NEW S, IsFiniteSet(S), NEW x
    PROVE  /\ IsFiniteSet(S \cup {x}) /\ Cardinality(S \cup {x}) \in Nat
           /\ Cardinality(S) \in Nat /\ Cardinality(S \cup {x}) <= Cardinality(S) + 1
<1>1. Cardinality(S) \in Nat
  BY FS_CardinalityType
<1>2. /\ IsFiniteSet(S \cup {x})
      /\ Cardinality(S \cup {x}) = IF x \in S THEN Cardinality(S) ELSE Cardinality(S) + 1
  BY FS_AddElement
<1>3. QED
  BY <1>1, <1>2

LEMMA KeyMade ==
    ASSUME KeysOK, BudgetOK, NEW w \in Workers, task[w].pc = "key",
           keys' = keys \cup {NewKey(w)}, Used("revoke")' = Used("revoke"),
           task'[w].pc # "key", \A q \in Workers \ {w} : task'[q] = task[q]
    PROVE  KeysOK'
<1>1. NewKey(w) \in KeyType /\ NewKey(w).by = w /\ NewKey(w).active = TRUE
  <2>1. IsFiniteSet({k \in keys : k.by = w})
    BY FS_Subset DEF KeysOK
  <2>2. Cardinality({k \in keys : k.by = w}) \in Nat
    BY <2>1, FS_CardinalityType
  <2>3. QED
    BY <2>2 DEF NewKey, KeyType
<1>2. w \notin Holders /\ Holders' = Holders \cup {w}
  <2>1. \A q \in Workers : (\E k \in keys' : k.by = q /\ k.active)
                            <=> (q = w \/ \E k \in keys : k.by = q /\ k.active)
    BY <1>1
  <2>2. QED
    BY <2>1 DEF Holders, KeysOK
<1>3. /\ IsFiniteSet(keys') /\ Cardinality(keys') \in Nat /\ Cardinality(keys) \in Nat
      /\ Cardinality(keys') <= Cardinality(keys) + 1
  BY AddOne DEF KeysOK
<1>4. Cardinality(Holders') = Cardinality(Holders) + 1
  BY <1>2, HoldersFinite, FS_AddElement
<1>5. Used("revoke") \in Nat
  BY UsedTyped DEF Kinds
<1>6. keys' \subseteq KeyType
  BY <1>1 DEF KeysOK
<1>7. Cardinality(keys') <= Cardinality(Holders') + Used("revoke")'
  <2>1. Cardinality(keys) <= Cardinality(Holders) + Used("revoke")
    BY DEF KeysOK
  <2>2. /\ Cardinality(Holders) \in Nat
        /\ Used("revoke")' = Used("revoke")
    BY HoldersFinite
  <2>3. Cardinality(keys') <= Cardinality(Holders) + Used("revoke") + 1
    BY <1>3, <1>5, <2>1, <2>2
  <2>4. Cardinality(Holders') + Used("revoke")' = Cardinality(Holders) + 1 + Used("revoke")
    BY <1>4, <2>2
  <2>5. QED
    BY <2>2, <2>3, <2>4, <1>5
<1>8. \A q \in Workers : task'[q].pc = "key" => q \notin Holders'
  BY <1>2 DEF KeysOK
<1>9. QED
  BY <1>3, <1>6, <1>7, <1>8 DEF KeysOK

(* The user takes a key back, and with it at most one worker's. *)
LEMMA KeyRevoked ==
    ASSUME KeysOK, BudgetOK, BudgetShape, Revoke PROVE KeysOK'
<1>1. PICK k \in keys : k.active /\ keys' = (keys \ {k}) \cup {[k EXCEPT !.active = FALSE]}
  BY DEF Revoke
<1> DEFINE dead == [k EXCEPT !.active = FALSE]
<1>2. dead \in KeyType /\ dead.by = k.by /\ dead.active = FALSE
  <2>1. k \in KeyType
    BY DEF KeysOK
  <2>2. QED
    BY <2>1 DEF KeyType
<1>3. /\ Holders \subseteq Holders' \cup {k.by} /\ Holders' \subseteq Holders
  <2>1. \A q : (\E j \in keys' : j.by = q /\ j.active) => \E j \in keys : j.by = q /\ j.active
    BY <1>1, <1>2
  <2>2. \A q : (\E j \in keys : j.by = q /\ j.active)
                => q = k.by \/ \E j \in keys' : j.by = q /\ j.active
    BY <1>1
  <2>3. QED
    BY <2>1, <2>2 DEF Holders
<1>4. /\ IsFiniteSet(keys') /\ Cardinality(keys') <= Cardinality(keys)
      /\ Cardinality(keys') \in Nat /\ Cardinality(keys) \in Nat
  <2>1. IsFiniteSet(keys) /\ Cardinality(keys) \in Nat
    BY FS_CardinalityType DEF KeysOK
  <2>2. IsFiniteSet(keys \ {k}) /\ Cardinality(keys \ {k}) = Cardinality(keys) - 1
    BY <2>1, FS_RemoveElement
  <2>3. /\ IsFiniteSet((keys \ {k}) \cup {dead})
        /\ Cardinality((keys \ {k}) \cup {dead})
             = IF dead \in keys \ {k} THEN Cardinality(keys \ {k})
               ELSE Cardinality(keys \ {k}) + 1
    BY <2>2, FS_AddElement
  <2>4. QED
    BY <1>1, <2>1, <2>2, <2>3, FS_CardinalityType
<1>5. Cardinality(Holders) <= Cardinality(Holders') + 1 /\ Cardinality(Holders') \in Nat
  <2>1. IsFiniteSet(Holders') /\ Cardinality(Holders') \in Nat
    BY <1>3, HoldersFinite, FS_Subset, FS_CardinalityType
  <2>2. /\ IsFiniteSet(Holders' \cup {k.by})
        /\ Cardinality(Holders' \cup {k.by})
             = IF k.by \in Holders' THEN Cardinality(Holders') ELSE Cardinality(Holders') + 1
    BY <2>1, FS_AddElement
  <2>3. Cardinality(Holders) <= Cardinality(Holders' \cup {k.by})
    BY <1>3, <2>2, FS_Subset
  <2>4. QED
    BY <2>1, <2>2, <2>3, HoldersFinite
<1>6. Used("revoke")' = Used("revoke") + 1 /\ Used("revoke") \in Nat
  BY SpendOK, UsedTyped DEF Revoke, Kinds
<1>7. keys' \subseteq KeyType
  BY <1>1, <1>2 DEF KeysOK
<1>8. Cardinality(keys') <= Cardinality(Holders') + Used("revoke")'
  <2>1. Cardinality(keys) <= Cardinality(Holders) + Used("revoke")
    BY DEF KeysOK
  <2>2. QED
    BY <1>4, <1>5, <1>6, <2>1, HoldersFinite
<1>9. \A q \in Workers : task'[q].pc = "key" => q \notin Holders'
  BY <1>3 DEF KeysOK, Revoke
<1>10. QED
  BY <1>4, <1>7, <1>8, <1>9 DEF KeysOK
------------------------------------------------------------------------------
(* Each step keeps the invariant *)

LEMMA InitLaunch == ASSUME Init PROVE LaunchInv
<1>1. \A k \in Kinds : Used(k) = 0 /\ budget[k] \in 0..Limit[k] /\ DOMAIN budget = Kinds
  BY ConstantsOK DEF Init, Used, Limit, Kinds
<1>2. CacheOK
  BY <1>1 DEF Init, CacheOK, NoCache, Kinds
<1>3. KeysOK
  <2>1. Holders = {} /\ keys = {}
    BY DEF Init, Holders
  <2>2. \A w \in Workers : task[w].pc # "key"
    BY DEF Init, NoTask
  <2>3. QED
    BY <1>1, <2>1, <2>2, FS_EmptySet DEF KeysOK, Kinds
<1>4. QED
  BY <1>1, <1>2, <1>3
  DEF Init, LaunchInv, BudgetOK, BudgetShape, Kinds, LoginMatchesImage, TaskOK

LEMMA Moved ==
    ASSUME LaunchInv, NEW w \in Workers, NEW t, Becomes(w, t)
    PROVE  /\ DOMAIN task' = Workers /\ task'[w] = t
           /\ \A q \in Workers \ {w} : task'[q] = task[q]
BY DEF LaunchInv, Becomes

LEMMA NoTaskOK ==
    ASSUME NEW w \in Workers, task'[w] = NoTask PROVE TaskOK(w)'
BY DEF TaskOK

(* A step of worker w, put together. *)
LEMMA StepParts ==
    ASSUME LaunchInv, NEW w \in Workers, NEW t, Becomes(w, t), Pays,
           CacheOK', \A q \in Workers \ {w} : cache'[q] = cache[q],
           KeysOK', LoginMatchesImage', TaskOK(w)'
    PROVE  LaunchInv'
<1>1. /\ DOMAIN task' = Workers
      /\ \A q \in Workers \ {w} : task'[q] = task[q]
  BY Moved
<1>2. \A q \in Workers \ {w} : TaskOK(q)'
  BY <1>1, TaskKeeps DEF LaunchInv
<1>3. BudgetOK' /\ BudgetShape'
  BY PaysOK DEF LaunchInv
<1>4. QED
  BY <1>1, <1>2, <1>3 DEF LaunchInv

(* A step that leaves keys, services and labels, and does not come to make  *)
(* a key.                                                                   *)
LEMMA PlainStep ==
    ASSUME LaunchInv, NEW w \in Workers, NEW t, Becomes(w, t), Pays, t.pc # "key",
           CacheOK', \A q \in Workers \ {w} : cache'[q] = cache[q],
           UNCHANGED <<keys, services>>, TaskOK(w)'
    PROVE  LaunchInv'
<1>1. /\ task'[w] = t /\ \A q \in Workers \ {w} : task'[q] = task[q]
  BY Moved
<1>2. Used("revoke")' = Used("revoke")
  BY PaysOK DEF LaunchInv
<1>3. KeysOK'
  BY <1>1, <1>2, KeysKeep DEF LaunchInv
<1>4. LoginMatchesImage'
  BY DEF LaunchInv, LoginMatchesImage
<1>5. QED
  BY <1>3, <1>4, StepParts

LEMMA CacheStays ==
    ASSUME LaunchInv, Pays, UNCHANGED <<labels, cache>> PROVE CacheOK'
<1>1. Used("change")' = Used("change")
  BY PaysOK DEF LaunchInv
<1>2. QED
  BY <1>1 DEF LaunchInv, CacheOK

(* Pays, and asks for addresses as well. *)
LEMMA Asking ==
    ASSUME LaunchInv, NEW w \in Workers, NEW as \in SUBSET Addresses, Ask(w, as),
           Pays, UNCHANGED labels
    PROVE  /\ CacheOK'
           /\ \A q \in Workers \ {w} : cache'[q] = cache[q]
           /\ \A a \in as : cache'[w][a] = {Address(w, a)}
           /\ \A a \in Addresses : \A n : cache[w][a] = {n} => cache'[w][a] = {n}
<1>1. Used("change")' = Used("change")
  BY PaysOK DEF LaunchInv
<1>2. QED
  BY <1>1, AskOK DEF LaunchInv

LEMMA BeginLaunch ==
    ASSUME LaunchInv, NEW w \in Workers, Begin(w) \/ End(w) PROVE LaunchInv'
<1>1. PICK t : Becomes(w, t) /\ (t = NoTask \/ \E tale : t = NewTask(tale))
  BY DEF Begin, End
<1>2. UNCHANGED <<labels, cache, keys, services>> /\ Pays
  BY DEF Begin, End, Pays
<1>3. CacheOK'
  BY <1>2, CacheStays
<1>4. t.pc # "key"
  BY <1>1 DEF NoTask, NewTask
<1>5. TaskOK(w)'
  <2>1. task'[w] = t
    BY <1>1, Moved
  <2>2. QED
    BY <1>1, <2>1 DEF TaskOK, Settled, IsTask, NewTask
<1>6. QED
  BY <1>1, <1>2, <1>3, <1>4, <1>5, PlainStep

LEMMA ReadySettled ==
    ASSUME LaunchInv, NEW w \in Workers, task[w].pc # "none" PROVE Settled(w, task[w])
BY DEF LaunchInv, TaskOK, NoTask

LEMMA ListKeysLaunch ==
    ASSUME LaunchInv, NEW w \in Workers, ListKeys(w) PROVE LaunchInv'
<1>1. /\ task[w].pc = "ready" /\ Pays /\ UNCHANGED <<labels, cache, keys, services>>
      /\ Becomes(w, IF \E k \in keys : k.active THEN task[w] ELSE At(task[w], "key"))
  BY DEF ListKeys, Pays, Kinds
<1>2. Settled(w, task[w])
  BY <1>1, ReadySettled
<1>3. CacheOK'
  BY <1>1, CacheStays
<1>4. CASE \E k \in keys : k.active
  <2>1. task'[w] = task[w] /\ Becomes(w, task[w])
    BY <1>1, <1>4, Moved
  <2>2. TaskOK(w)'
    BY <1>1, <2>1, TaskKeeps DEF LaunchInv
  <2>3. QED
    BY <1>1, <1>3, <2>1, <2>2, PlainStep
<1>5. CASE ~ \E k \in keys : k.active
  <2>1. Becomes(w, At(task[w], "key"))
    BY <1>1, <1>5
  <2>2. /\ task'[w] = At(task[w], "key")
        /\ \A q \in Workers \ {w} : task'[q] = task[q]
    BY <2>1, Moved
  <2>3. TaskOK(w)'
    BY <1>1, <1>2, <2>2, SettledKeeps
  <2>6. KeysOK'
    <3>1. Used("revoke")' = Used("revoke")
      BY <1>1, PaysOK DEF LaunchInv
    <3>2. w \notin Holders
      BY <1>5 DEF Holders
    <3>3. QED
      BY <1>1, <2>2, <3>1, <3>2, KeysKeep DEF LaunchInv
  <2>7. LoginMatchesImage'
    BY <1>1 DEF LaunchInv, LoginMatchesImage
  <2>8. QED
    BY <1>1, <1>3, <2>1, <2>3, <2>6, <2>7, StepParts
<1>6. QED
  BY <1>4, <1>5

LEMMA CreateKeyLaunch ==
    ASSUME LaunchInv, NEW w \in Workers, CreateKey(w) PROVE LaunchInv'
<1>1. /\ task[w].pc = "key" /\ Pays /\ UNCHANGED <<labels, cache, services>>
      /\ Becomes(w, At(task[w], "ready")) /\ keys' = keys \cup {NewKey(w)}
  BY DEF CreateKey, Pays
<1>2. Settled(w, task[w])
  BY <1>1, ReadySettled
<1>3. /\ task'[w] = At(task[w], "ready")
      /\ \A q \in Workers \ {w} : task'[q] = task[q]
  BY <1>1, Moved
<1>4. TaskOK(w)' /\ task'[w].pc = "ready"
  BY <1>1, <1>2, <1>3, SettledKeeps
<1>5. KeysOK'
  <2>1. Used("revoke")' = Used("revoke")
    BY <1>1, PaysOK DEF LaunchInv
  <2>2. QED
    BY <1>1, <1>3, <1>4, <2>1, KeyMade DEF LaunchInv
<1>6. CacheOK'
  BY <1>1, CacheStays
<1>7. LoginMatchesImage'
  BY <1>1 DEF LaunchInv, LoginMatchesImage
<1>8. QED
  BY <1>1, <1>4, <1>5, <1>6, <1>7, StepParts

LEMMA GetImageLaunch ==
    ASSUME LaunchInv, NEW w \in Workers, GetImage(w) PROVE LaunchInv'
<1>1. /\ task[w].pc = "ready" /\ Pays /\ UNCHANGED <<labels, keys, services>>
      /\ Ask(w, {"dashboard"}) /\ {"dashboard"} \in SUBSET Addresses
  BY DEF GetImage, Pays, Kinds, Addresses
<1>2. Settled(w, task[w])
  BY <1>1, ReadySettled
<1>3. PICK tale, env, mem :
         Becomes(w, [task[w] EXCEPT !.pc = "registry", !.tale = tale,
                        !.config = {[env |-> env, image |-> 0, mem_limit |-> mem]}])
  BY DEF GetImage
<1>4. PICK c : c = [env |-> env, image |-> 0, mem_limit |-> mem] /\ IsConfig(c)
  <2>1. IsConfig([env |-> env, image |-> 0, mem_limit |-> mem])
    BY DEF IsConfig
  <2>2. QED
    BY <2>1
<1>5. PICK t : t = [task[w] EXCEPT !.pc = "registry", !.tale = tale, !.config = {c}]
  OBVIOUS
<1>6. Becomes(w, t) /\ task'[w] = t
  BY <1>3, <1>4, <1>5, Moved
<1>7. IsTask(t) /\ t.pc = "registry" /\ t.config = {c}
  <2>1. IsTask(task[w])
    BY <1>2 DEF Settled
  <2>2. QED
    BY <1>5, <2>1 DEF IsTask
<1>8. TaskOK(w)'
  BY <1>4, <1>6, <1>7 DEF TaskOK, Settled
<1>9. CacheOK' /\ \A q \in Workers \ {w} : cache'[q] = cache[q]
  BY <1>1, Asking
<1>10. QED
  BY <1>1, <1>6, <1>7, <1>8, <1>9, PlainStep

LEMMA NameImageLaunch ==
    ASSUME LaunchInv, NEW w \in Workers, NameImage(w) PROVE LaunchInv'
<1>1. /\ task[w].pc = "registry" /\ Pays /\ UNCHANGED <<labels, keys, services>>
      /\ Ask(w, {"registry"}) /\ {"registry"} \in SUBSET Addresses
  BY DEF NameImage, Pays, Addresses
<1>2. Settled(w, task[w])
  BY <1>1, ReadySettled
<1>3. PICK c : task[w].config = {c} /\ IsConfig(c)
  BY <1>1, <1>2 DEF Settled
<1>4. PICK url : url = Address(w, "registry")
  OBVIOUS
<1>5. PICK d : d = [c EXCEPT !.image = url] /\ d.image = url /\ IsConfig(d)
  <2>1. PICK d : d = [c EXCEPT !.image = url]
    OBVIOUS
  <2>2. d.image = url /\ IsConfig(d)
    BY <1>3, <2>1 DEF IsConfig
  <2>3. QED
    BY <2>1, <2>2
<1>6. PICK t : t = [task[w] EXCEPT !.pc = "ready", !.config = {d}]
  OBVIOUS
<1>7. Becomes(w, t) /\ task'[w] = t
  <2>1. {[e EXCEPT !.image = url] : e \in task[w].config} = {d}
    BY <1>3, <1>5
  <2>2. Becomes(w, t)
    BY <1>4, <1>6, <2>1 DEF NameImage
  <2>3. QED
    BY <2>2, Moved
<1>8. IsTask(t) /\ t.pc = "ready" /\ t.config = {d}
  <2>1. IsTask(task[w])
    BY <1>2 DEF Settled
  <2>2. QED
    BY <1>6, <2>1 DEF IsTask
<1>9. /\ CacheOK' /\ \A q \in Workers \ {w} : cache'[q] = cache[q]
      /\ cache'[w]["registry"] = {url}
  BY <1>1, <1>4, Asking
<1>10. TaskOK(w)'
  BY <1>5, <1>7, <1>8, <1>9 DEF TaskOK, Settled
<1>11. QED
  BY <1>1, <1>7, <1>8, <1>9, <1>10, PlainStep

LEMMA LoginLaunch ==
    ASSUME LaunchInv, NEW w \in Workers, Login(w) PROVE LaunchInv'
<1>1. /\ task[w].pc = "ready" /\ task[w].config # {} /\ Pays
      /\ UNCHANGED <<labels, keys, services>>
      /\ Ask(w, {"registry"}) /\ {"registry"} \in SUBSET Addresses
  BY DEF Login, Pays, Kinds, Addresses
<1>2. Settled(w, task[w])
  BY <1>1, ReadySettled
<1>3. PICK c : task[w].config = {c} /\ IsConfig(c) /\ cache[w]["registry"] = {c.image}
  BY <1>1, <1>2 DEF Settled
<1>4. Address(w, "registry") = c.image
  <2>1. PICK n : n = c.image
    OBVIOUS
  <2>2. cache[w]["registry"] = {n}
    BY <1>3, <2>1
  <2>3. Address(w, "registry") = n
    BY <2>2, AddressKnown
  <2>4. QED
    BY <2>1, <2>3
<1>5. /\ CacheOK' /\ \A q \in Workers \ {w} : cache'[q] = cache[q]
      /\ cache'[w]["registry"] = {c.image}
  BY <1>1, <1>4, Asking
<1>6. PICK t : t = [task[w] EXCEPT !.pc = "service", !.login = {c.image}]
  OBVIOUS
<1>7. CASE Becomes(w, t)
  <2>1. task'[w] = t
    BY <1>7, Moved
  <2>2. IsTask(t) /\ t.pc = "service" /\ t.config = {c} /\ t.login = {c.image}
    <3>1. IsTask(task[w])
      BY <1>2 DEF Settled
    <3>2. QED
      BY <1>3, <1>6, <3>1 DEF IsTask
  <2>3. TaskOK(w)'
    BY <1>3, <1>5, <2>1, <2>2 DEF TaskOK, Settled
  <2>4. QED
    BY <1>1, <1>5, <1>7, <2>2, <2>3, PlainStep
<1>8. CASE Becomes(w, NoTask)
  <2>1. TaskOK(w)'
    BY <1>8, Moved, NoTaskOK
  <2>2. NoTask.pc # "key"
    BY DEF NoTask
  <2>3. QED
    BY <1>1, <1>5, <1>8, <2>1, <2>2, PlainStep
<1>9. QED
  BY <1>4, <1>6, <1>7, <1>8 DEF Login

(* The container that a worker makes after it has logged in. *)
LEMMA ServiceMatches ==
    ASSUME LaunchInv, NEW w \in Workers, task[w].pc = "service"
    PROVE  Service(w, task[w]).login = Service(w, task[w]).config.image
<1>1. Settled(w, task[w])
  BY ReadySettled
<1>2. PICK c : task[w].config = {c} /\ task[w].login = {c.image}
  BY <1>1 DEF Settled
<1>3. (CHOOSE e \in task[w].config : TRUE) = c /\ (CHOOSE url \in task[w].login : TRUE) = c.image
  BY <1>2
<1>4. QED
  BY <1>3 DEF Service

LEMMA CreateServiceLaunch ==
    ASSUME LaunchInv, NEW w \in Workers, CreateService(w) PROVE LaunchInv'
<1>1. /\ task[w].pc = "service" /\ Pays /\ UNCHANGED <<labels, keys>>
      /\ Ask(w, {"network"}) /\ {"network"} \in SUBSET Addresses
      /\ Becomes(w, At(task[w], "ready")) /\ services' = services \cup {Service(w, task[w])}
  BY DEF CreateService, Pays, Addresses
<1>2. Settled(w, task[w])
  BY <1>1, ReadySettled
<1>3. /\ CacheOK' /\ \A q \in Workers \ {w} : cache'[q] = cache[q]
      /\ \A n : cache[w]["registry"] = {n} => cache'[w]["registry"] = {n}
  BY <1>1, Asking DEF Addresses
<1>4. /\ task'[w] = At(task[w], "ready")
      /\ \A q \in Workers \ {w} : task'[q] = task[q]
  BY <1>1, Moved
<1>5. TaskOK(w)' /\ task'[w].pc = "ready"
  BY <1>1, <1>2, <1>3, <1>4, SettledKeeps
<1>6. KeysOK'
  <2>1. Used("revoke")' = Used("revoke")
    BY <1>1, PaysOK DEF LaunchInv
  <2>2. QED
    BY <1>1, <1>4, <1>5, <2>1, KeysKeep DEF LaunchInv
<1>7. LoginMatchesImage'
  BY <1>1, ServiceMatches DEF LaunchInv, LoginMatchesImage
<1>8. QED
  BY <1>1, <1>3, <1>5, <1>6, <1>7, StepParts

LEMMA CallBreaksLaunch ==
    ASSUME LaunchInv, NEW w \in Workers, CallBreaks(w) PROVE LaunchInv'
<1>1. Becomes(w, NoTask) /\ Pays /\ UNCHANGED <<labels, cache>>
  BY DEF CallBreaks, Pays, Kinds
<1>2. task'[w] = NoTask /\ \A q \in Workers \ {w} : task'[q] = task[q]
  BY <1>1, Moved
<1>3. KeysOK'
  <2>1. Used("revoke")' = Used("revoke") /\ task'[w].pc # "key"
    BY <1>1, <1>2, PaysOK DEF LaunchInv, NoTask
  <2>2. CASE keys' = keys
    BY <1>2, <2>1, <2>2, KeysKeep DEF LaunchInv
  <2>3. CASE task[w].pc = "key" /\ keys' = keys \cup {NewKey(w)}
    BY <1>2, <2>1, <2>3, KeyMade DEF LaunchInv
  <2>4. QED
    BY <2>2, <2>3 DEF CallBreaks
<1>4. LoginMatchesImage'
  <2>1. CASE services' = services
    BY <2>1 DEF LaunchInv, LoginMatchesImage
  <2>2. CASE task[w].pc = "service" /\ services' = services \cup {Service(w, task[w])}
    BY <2>2, ServiceMatches DEF LaunchInv, LoginMatchesImage
  <2>3. QED
    BY <2>1, <2>2 DEF CallBreaks
<1>5. CacheOK' /\ TaskOK(w)'
  BY <1>1, <1>2, CacheStays, NoTaskOK
<1>6. QED
  BY <1>1, <1>3, <1>4, <1>5, StepParts

LEMMA WorkerDiesLaunch ==
    ASSUME LaunchInv, NEW w \in Workers, WorkerDies(w) PROVE LaunchInv'
<1>1. /\ Becomes(w, NoTask) /\ Pays /\ UNCHANGED <<labels, keys, services>>
      /\ cache' = [cache EXCEPT ![w] = NoCache]
  BY DEF WorkerDies, Pays, Kinds
<1>2. Used("change")' = Used("change")
  BY <1>1, PaysOK DEF LaunchInv
<1>3. CacheOK' /\ \A q \in Workers \ {w} : cache'[q] = cache[q]
  BY <1>1, <1>2 DEF LaunchInv, CacheOK, NoCache
<1>4. TaskOK(w)' /\ NoTask.pc # "key"
  BY <1>1, Moved, NoTaskOK DEF NoTask
<1>5. QED
  BY <1>1, <1>3, <1>4, PlainStep

LEMMA OutsideLaunch ==
    ASSUME LaunchInv, LabelsChange \/ Revoke PROVE LaunchInv'
<1>1. UNCHANGED <<cache, services, task>>
  BY DEF LabelsChange, Revoke
<1>2. BudgetOK' /\ BudgetShape'
  BY SpendOK DEF LaunchInv, LabelsChange, Revoke, Kinds
<1>3. \A w \in Workers : TaskOK(w)'
  BY <1>1, TaskKeeps DEF LaunchInv
<1>4. CacheOK' /\ KeysOK'
  <2>1. CASE LabelsChange
    <3>1. PICK a \in Addresses : labels' = [labels EXCEPT ![a] = @ + 1]
      BY <2>1 DEF LabelsChange
    <3>2. Used("change")' = Used("change") + 1 /\ Used("revoke")' = Used("revoke")
      BY <2>1, SpendOK DEF LabelsChange, LaunchInv, Kinds
    <3>3. /\ labels' \in [Addresses -> Nat] /\ Used("change") \in Nat
          /\ \A b \in Addresses : labels[b] <= labels'[b] /\ labels'[b] <= labels[b] + 1
      BY <3>1, UsedTyped DEF LaunchInv, CacheOK, Kinds
    <3>4. CacheOK'
      BY <1>1, <3>2, <3>3 DEF LaunchInv, CacheOK
    <3>5. KeysOK'
      BY <1>1, <2>1, <3>2, KeysKeep DEF LaunchInv, LabelsChange
    <3>6. QED
      BY <3>4, <3>5
  <2>2. CASE Revoke
    <3>1. Used("change")' = Used("change") /\ UNCHANGED labels
      BY <2>2, SpendOK DEF Revoke, LaunchInv, Kinds
    <3>2. CacheOK'
      BY <1>1, <3>1 DEF LaunchInv, CacheOK
    <3>3. QED
      BY <2>2, <3>2, KeyRevoked DEF LaunchInv
  <2>3. QED
    BY <2>1, <2>2
<1>5. QED
  BY <1>1, <1>2, <1>3, <1>4 DEF LaunchInv, LoginMatchesImage

LEMMA StepLaunch == ASSUME LaunchInv, [Next]_vars PROVE LaunchInv'
<1>1. CASE UNCHANGED vars
  BY <1>1 DEF vars, LaunchInv, CacheOK, KeysOK, Holders, BudgetOK, BudgetShape,
     LoginMatchesImage, TaskOK, Settled, Used
<1>2. ASSUME NEW w \in Workers,
             \/ Begin(w) \/ End(w) \/ ListKeys(w) \/ CreateKey(w) \/ GetImage(w)
             \/ NameImage(w) \/ Login(w) \/ CreateService(w)
             \/ CallBreaks(w) \/ WorkerDies(w)
      PROVE  LaunchInv'
  BY <1>2, BeginLaunch, ListKeysLaunch, CreateKeyLaunch, GetImageLaunch, NameImageLaunch,
     LoginLaunch, CreateServiceLaunch, CallBreaksLaunch, WorkerDiesLaunch
<1>3. QED
  BY <1>1, <1>2, OutsideLaunch DEF Next

LEMMA LaunchInvariant == Spec => []LaunchInv
BY InitLaunch, StepLaunch, PTL DEF Spec
------------------------------------------------------------------------------
(* The types of what the helpers of utils.py keep, for any number of        *)
(* workers.                                                                 *)
THEOREM TypeCorrect == Spec => []TypeOK
<1>1. LaunchInv => TypeOK
  <2>1. ASSUME LaunchInv PROVE labels \in [Addresses -> 0..MaxChanges]
    <3>1. Used("change") <= MaxChanges /\ Used("change") \in Nat /\ MaxChanges \in Nat
      BY <2>1, UsedTyped, ConstantsOK DEF LaunchInv, Kinds, Limit
    <3>2. QED
      BY <2>1, <3>1 DEF LaunchInv, CacheOK
  <2>2. ASSUME LaunchInv, NEW w \in Workers, NEW a \in Addresses
        PROVE  cache[w][a] \subseteq 0..labels[a] /\ Cardinality(cache[w][a]) <= 1
    <3>1. CASE cache[w][a] = {}
      BY <3>1, FS_EmptySet
    <3>2. ASSUME NEW n \in 0..labels[a], cache[w][a] = {n}
          PROVE  cache[w][a] \subseteq 0..labels[a] /\ Cardinality(cache[w][a]) <= 1
      <4>1. Cardinality({n}) = 1
        BY FS_Singleton
      <4>2. QED
        BY <3>2, <4>1
    <3>3. QED
      BY <2>2, <3>1, <3>2 DEF LaunchInv, CacheOK
  <2>3. ASSUME LaunchInv
        PROVE  \A k \in keys : k.by \in Workers /\ k.n \in Nat /\ k.active \in BOOLEAN
    BY <2>3 DEF LaunchInv, KeysOK, KeyType
  <2>4. ASSUME LaunchInv, NEW w \in Workers
        PROVE  /\ task[w].pc \in {"none", "ready", "key", "registry", "service"}
               /\ task[w].pc \in {"registry", "service"} => Cardinality(task[w].config) = 1
    <3>1. CASE task[w] = NoTask
      BY <3>1 DEF NoTask
    <3>2. CASE Settled(w, task[w])
      <4>1. task[w].pc \in {"registry", "service"} => \E c : task[w].config = {c}
        BY <3>2 DEF Settled
      <4>2. \A c : Cardinality({c}) = 1
        BY FS_Singleton
      <4>3. QED
        BY <3>2, <4>1, <4>2 DEF Settled
    <3>3. QED
      BY <2>4, <3>1, <3>2 DEF LaunchInv, TaskOK
  <2>5. QED
    BY <2>1, <2>2, <2>3, <2>4 DEF TypeOK, LaunchInv, BudgetOK
<1>2. QED
  BY <1>1, LaunchInvariant, PTL

(* utils.py:145-159: however many workers look for a key at once.           *)
THEOREM KeysAreBounded == Spec => []KeysBounded
<1>1. LaunchInv => KeysBounded
  <2>1. ASSUME LaunchInv PROVE Cardinality(keys) <= Cardinality(Workers) + Used("revoke")
    <3>1. /\ Cardinality(keys) <= Cardinality(Holders) + Used("revoke")
          /\ Cardinality(keys) \in Nat /\ Used("revoke") \in Nat
      BY <2>1, UsedTyped, FS_CardinalityType DEF LaunchInv, KeysOK, Kinds
    <3>2. QED
      BY <3>1, HoldersFinite
  <2>2. QED
    BY <2>1 DEF KeysBounded
<1>2. QED
  BY <1>1, LaunchInvariant, PTL

(* utils.py: whatever happens to the labels, the image of a container and   *)
(* the login that fetches it name one registry.                             *)
THEOREM LoginsMatchImages == Spec => []LoginMatchesImage
<1>1. LaunchInv => LoginMatchesImage
  BY DEF LaunchInv
<1>2. QED
  BY <1>1, LaunchInvariant, PTL
------------------------------------------------------------------------------
(* Environments *)

(* A set of numbers has a least one. *)
LEMMA Smallest ==
    ASSUME NEW T \in SUBSET Nat, T # {}
    PROVE  \E m \in T : \A n \in T : m <= n
<1>1. PICK R : R = OpToRel(<, Nat)
  OBVIOUS
<1>2. \A m, n \in Nat : <<m, n>> \in R <=> m < n
  BY <1>1 DEF OpToRel
<1>3. IsWellFoundedOn(R, Nat)
  BY <1>1, NatLessThanWellFounded
<1>4. PICK m \in T : \A n \in T : <<n, m>> \notin R
  BY <1>3, WFMin
<1>5. \A n \in T : ~(n < m)
  BY <1>2, <1>4
<1>6. QED
  BY <1>5

IsEnv(e) == e \in Seq({e[i] : i \in DOMAIN e})

LEMMA EnvTyped ==
    ASSUME NEW e, IsEnv(e)
    PROVE  /\ Len(e) \in Nat /\ DOMAIN e = 1..Len(e) /\ Csps(e) \subseteq 1..Len(e)
           /\ IsFiniteSet(Csps(e)) /\ Cardinality(Csps(e)) \in Nat
<1>1. Len(e) \in Nat /\ DOMAIN e = 1..Len(e)
  BY LenProperties DEF IsEnv
<1>2. Csps(e) \in SUBSET (1..Len(e))
  BY <1>1 DEF Csps
<1>3. IsFiniteSet(1..Len(e))
  BY <1>1, FS_Interval
<1>4. QED
  BY <1>1, <1>2, <1>3, FS_Subset, FS_CardinalityType

(* Exactly one setting has a name that begins with CSP_HOSTS: CSP_HOSTS. *)
HasOneCsp(e) == \E i \in DOMAIN e : Csps(e) = {i} /\ e[i].name = "CSP_HOSTS"

LEMMA OneIsFew == ASSUME NEW e, HasOneCsp(e) PROVE Cardinality(Csps(e)) <= 1
<1>1. PICK i : Csps(e) = {i}
  BY DEF HasOneCsp
<1>2. Cardinality(Csps(e)) = 1
  BY <1>1, FS_Singleton
<1>3. QED
  BY <1>2

(* The other settings stay, and one CSP_HOSTS stays one. *)
LEMMA CspPut ==
    ASSUME NEW e, IsEnv(e), NEW url
    PROVE  LET f == GetEnvWithCsp(e, url)
           IN  /\ IsEnv(f) /\ Others(f) = Others(e)
               /\ Cardinality(Csps(e)) <= 1 => HasOneCsp(f)
<1>1. /\ Len(e) \in Nat /\ DOMAIN e = 1..Len(e) /\ Csps(e) \subseteq 1..Len(e)
      /\ IsFiniteSet(Csps(e)) /\ Cardinality(Csps(e)) \in Nat
  BY EnvTyped
<1>2. PICK c : c = Csp(url)
  OBVIOUS
<1>3. c.name = "CSP_HOSTS" /\ c.name \in CspNames
  BY <1>2 DEF Csp, CspNames
<1>4. CASE Csps(e) = {}
  <2>1. PICK f : f = Append(e, c)
    OBVIOUS
  <2>2. PICK S : S = {e[i] : i \in DOMAIN e} \cup {c}
    OBVIOUS
  <2>3. /\ Len(f) = Len(e) + 1 /\ \A i \in 1..Len(e) : f[i] = e[i]
        /\ f[Len(e) + 1] = c /\ f \in Seq(S)
    <3>1. e \in Seq(S) /\ c \in S
      BY <2>2, SeqMonotonic DEF IsEnv
    <3>2. QED
      BY <2>1, <3>1, AppendProperties
  <2>4. DOMAIN f = 1..(Len(e) + 1)
    BY <2>3, LenProperties
  <2>5. IsEnv(f)
    <3>1. Len(f) \in Nat /\ DOMAIN f = 1..Len(f) /\ f = [i \in 1..Len(f) |-> f[i]]
      BY <2>3, LenProperties
    <3>2. QED
      BY <3>1 DEF IsEnv
  <2>6. \A i \in 1..Len(e) : e[i].name \notin CspNames
    BY <1>1, <1>4 DEF Csps
  <2>7. Csps(f) = {Len(e) + 1}
    BY <1>1, <1>3, <2>3, <2>4, <2>6 DEF Csps
  <2>8. Others(f) = Others(e)
    <3>1. DOMAIN f \ Csps(f) = 1..Len(e) /\ DOMAIN e \ Csps(e) = 1..Len(e)
      BY <1>1, <1>4, <2>4, <2>7
    <3>2. QED
      BY <2>3, <3>1 DEF Others
  <2>9. HasOneCsp(f)
    BY <1>1, <1>3, <2>3, <2>4, <2>7 DEF HasOneCsp
  <2>10. GetEnvWithCsp(e, url) = f
    BY <1>2, <1>4, <2>1 DEF GetEnvWithCsp
  <2>11. QED
    BY <2>5, <2>8, <2>9, <2>10
<1>5. CASE Csps(e) # {}
  <2>1. PICK k : k = CHOOSE i \in Csps(e) : \A j \in Csps(e) : i <= j
    OBVIOUS
  <2>2. k \in Csps(e) /\ k \in 1..Len(e)
    <3>1. Csps(e) \in SUBSET Nat
      BY <1>1
    <3>2. \E i \in Csps(e) : \A j \in Csps(e) : i <= j
      BY <1>5, <3>1, Smallest
    <3>3. QED
      BY <1>1, <2>1, <3>2
  <2>3. PICK f : f = [e EXCEPT ![k] = c]
    OBVIOUS
  <2>4. /\ DOMAIN f = 1..Len(e) /\ f[k] = c
        /\ \A i \in 1..Len(e) : i # k => f[i] = e[i]
    BY <1>1, <2>2, <2>3
  <2>5. IsEnv(f)
    <3>1. f = [i \in 1..Len(e) |-> f[i]]
      BY <2>3, <2>4
    <3>2. f \in [1..Len(e) -> {f[i] : i \in DOMAIN f}]
      BY <2>4, <3>1
    <3>3. PICK S : S = {f[i] : i \in DOMAIN f}
      OBVIOUS
    <3>4. f \in Seq(S)
      BY <1>1, <3>2, <3>3
    <3>5. QED
      BY <3>3, <3>4 DEF IsEnv
  <2>6. Csps(f) = Csps(e)
    BY <1>1, <1>3, <2>2, <2>4 DEF Csps
  <2>7. Others(f) = Others(e)
    BY <1>1, <2>2, <2>4, <2>6 DEF Others
  <2>8. Cardinality(Csps(e)) <= 1 => HasOneCsp(f)
    <3>1. SUFFICES ASSUME Cardinality(Csps(e)) <= 1 PROVE HasOneCsp(f)
      OBVIOUS
    <3>2. Cardinality(Csps(e)) = 1
      BY <1>1, <1>5, <3>1, FS_EmptySet
    <3>3. Csps(e) = {k}
      BY <1>1, <2>2, <3>2, FS_Singleton
    <3>4. QED
      BY <1>3, <2>2, <2>4, <2>6, <3>3 DEF HasOneCsp
  <2>9. GetEnvWithCsp(e, url) = f
    BY <1>2, <1>5, <2>1, <2>3 DEF GetEnvWithCsp
  <2>10. QED
    BY <1>1, <2>5, <2>6, <2>7, <2>8, <2>9
<1>6. QED
  BY <1>4, <1>5
------------------------------------------------------------------------------
(* What becomes of the environment that a tale was given *)

(* e has the settings of g, and CSP_HOSTS at most once, or once, if g does. *)
Like(e, g) ==
    /\ IsEnv(e) /\ Others(e) = Others(g)
    /\ Cardinality(Csps(g)) <= 1 => Cardinality(Csps(e)) <= 1
Settles(e, g) ==
    /\ Others(e) = Others(g)
    /\ Cardinality(Csps(g)) <= 1 => HasOneCsp(e)

(* The tale's own environment has been changed in place, the image's not,   *)
(* and a configuration has been made from one of them.                      *)
Faithful(t) ==
    /\ t.given \in Tales
    /\ t.tale = [own |-> t.tale.own, image |-> t.given.image,
                 memLimit |-> t.tale.memLimit, wellFormed |-> t.tale.wellFormed]
    /\ t.given.own = {} => t.tale.own = {}
    /\ t.given.own # {} => \E e : t.tale.own = {e} /\ \A g \in t.given.own : Like(e, g)
    /\ \A c \in t.config, g \in Environment(t.given) : Settles(c.env, g)

EnvInv ==
    /\ \A w \in Workers : task[w] = NoTask \/ Faithful(task[w])
    /\ OneCsp

LEMMA LikeItself == ASSUME NEW e, IsEnv(e) PROVE Like(e, e)
BY DEF Like

LEMMA NoEnv == IsEnv(<<>>)
<1>1. <<>> \in Seq({<<>>[i] : i \in DOMAIN <<>>})
  BY EmptySeq
<1>2. QED
  BY <1>1 DEF IsEnv

LEMMA BeginsFaithful ==
    ASSUME NEW tale \in Tales PROVE Faithful(NewTask(tale))
<1>1. /\ tale = [own |-> tale.own, image |-> tale.image,
                 memLimit |-> tale.memLimit, wellFormed |-> tale.wellFormed]
      /\ \A e, f \in tale.own : e = f
      /\ \A e \in tale.own : IsEnv(e)
  BY TalesOK DEF IsEnv
<1>2. PICK t : t = NewTask(tale)
  OBVIOUS
<1>3. t.given = tale /\ t.tale = tale /\ t.config = {}
  BY <1>2 DEF NewTask
<1>4. tale.own # {} => \E e : tale.own = {e} /\ \A g \in tale.own : Like(e, g)
  <2>1. SUFFICES ASSUME NEW e \in tale.own
                 PROVE  tale.own = {e} /\ \A g \in tale.own : Like(e, g)
    OBVIOUS
  <2>2. tale.own = {e} /\ Like(e, e)
    BY <1>1, <2>1, LikeItself
  <2>3. QED
    BY <2>2
<1>5. Faithful(t)
  BY <1>1, <1>3, <1>4 DEF Faithful
<1>6. QED
  BY <1>2, <1>5

(* A task that keeps its tale, and the environment of its configuration. *)
LEMMA StaysFaithful ==
    ASSUME NEW t, NEW u, Faithful(t), u.given = t.given, u.tale = t.tale,
           \A c \in u.config : \E d \in t.config : c.env = d.env
    PROVE  Faithful(u)
BY DEF Faithful

(* The environment that a configuration is made from. *)
LEMMA TaleEnvironment ==
    ASSUME NEW t, Faithful(t)
    PROVE  LET e == CHOOSE e \in Environment(t.tale) : TRUE
           IN  IsEnv(e) /\ \A g \in Environment(t.given) : Like(e, g)
<1>1. PICK e : e = CHOOSE x \in Environment(t.tale) : TRUE
  OBVIOUS
<1>2. /\ t.given \in Tales /\ t.tale.image = t.given.image
      /\ \A g, h \in t.given.image : g = h
      /\ \A g \in t.given.image : IsEnv(g)
  BY TalesOK DEF Faithful, IsEnv
<1>3. CASE t.given.own # {}
  <2>1. PICK f : t.tale.own = {f} /\ \A g \in t.given.own : Like(f, g)
    BY <1>3 DEF Faithful
  <2>2. Environment(t.tale) = {f} /\ Environment(t.given) = t.given.own
    BY <1>3, <2>1 DEF Environment
  <2>3. e = f
    BY <1>1, <2>2
  <2>4. IsEnv(e) /\ \A g \in Environment(t.given) : Like(e, g)
    BY <1>3, <2>1, <2>2, <2>3 DEF Like
  <2>5. QED
    BY <1>1, <2>4
<1>4. CASE t.given.own = {}
  <2>1. t.tale.own = {}
    BY <1>4 DEF Faithful
  <2>2. /\ Environment(t.tale) = Environment(t.given)
        /\ Environment(t.given) = IF t.given.image # {} THEN t.given.image ELSE {<<>>}
    BY <1>2, <1>4, <2>1 DEF Environment
  <2>3. /\ \A g, h \in Environment(t.given) : g = h
        /\ \A g \in Environment(t.given) : IsEnv(g)
        /\ Environment(t.given) # {}
    BY <1>2, <2>2, NoEnv
  <2>4. e \in Environment(t.given)
    BY <1>1, <2>2, <2>3
  <2>5. IsEnv(e) /\ \A g \in Environment(t.given) : Like(e, g)
    BY <2>3, <2>4, LikeItself
  <2>6. QED
    BY <1>1, <2>5
<1>5. QED
  BY <1>3, <1>4

(* What a step has to show: the container is that of the task. *)
LEMMA EnvStep ==
    ASSUME LaunchInv, EnvInv, NEW w \in Workers, NEW t, Becomes(w, t),
           t = NoTask \/ Faithful(t),
           \A s \in services' : \/ s \in services
                                \/ task[w].pc = "service" /\ s = Service(w, task[w])
    PROVE  EnvInv'
<1>1. task'[w] = t /\ \A q \in Workers \ {w} : task'[q] = task[q]
  BY Moved
<1>2. \A q \in Workers : task'[q] = NoTask \/ Faithful(task'[q])
  BY <1>1 DEF EnvInv
<1>3. ASSUME task[w].pc = "service", NEW g \in Environment(Service(w, task[w]).given)
      PROVE  Settles(Service(w, task[w]).config.env, g)
  <2>1. PICK c : task[w].config = {c}
    BY <1>3, ReadySettled DEF Settled
  <2>2. Service(w, task[w]).given = task[w].given /\ Service(w, task[w]).config = c
    BY <2>1 DEF Service
  <2>3. Faithful(task[w])
    BY <1>3 DEF EnvInv, NoTask
  <2>4. QED
    BY <1>3, <2>1, <2>2, <2>3 DEF Faithful
<1>4. \A s \in services' : \A g \in Environment(s.given) : Settles(s.config.env, g)
  <2>1. \A s \in services : \A g \in Environment(s.given) : Settles(s.config.env, g)
    BY DEF EnvInv, OneCsp, Settles, HasOneCsp
  <2>2. QED
    BY <1>3, <2>1
<1>5. OneCsp'
  BY <1>4 DEF OneCsp, Settles, HasOneCsp
<1>6. EnvInv'
  BY <1>2, <1>5 DEF EnvInv, Faithful, Like
<1>7. QED
  BY <1>6

LEMMA FaithfulTask ==
    ASSUME LaunchInv, EnvInv, NEW w \in Workers, task[w].pc # "none"
    PROVE  /\ Faithful(task[w]) /\ IsTask(task[w])
           /\ task[w].config = {} \/ \E c : task[w].config = {c} /\ IsConfig(c)
<1>1. Faithful(task[w])
  BY DEF EnvInv, NoTask
<1>2. QED
  BY <1>1, ReadySettled DEF Settled

(* Steps that make no configuration. *)
LEMMA OtherCalls ==
    ASSUME LaunchInv, EnvInv, NEW w \in Workers,
           \/ Begin(w) \/ End(w) \/ ListKeys(w) \/ CreateKey(w) \/ NameImage(w) \/ Login(w)
           \/ CreateService(w) \/ CallBreaks(w) \/ WorkerDies(w)
    PROVE  EnvInv'
<1>1. CASE Begin(w)
  <2>1. PICK tale \in Tales : Becomes(w, NewTask(tale))
    BY <1>1 DEF Begin
  <2>2. Faithful(NewTask(tale)) /\ services' = services
    BY <1>1, BeginsFaithful DEF Begin
  <2>3. QED
    BY <2>1, <2>2, EnvStep
<1>2. CASE End(w) \/ CallBreaks(w) \/ WorkerDies(w)
  <2>1. Becomes(w, NoTask)
    BY <1>2 DEF End, CallBreaks, WorkerDies
  <2>2. \A s \in services' : \/ s \in services
                             \/ task[w].pc = "service" /\ s = Service(w, task[w])
    BY <1>2 DEF End, CallBreaks, WorkerDies
  <2>3. QED
    BY <2>1, <2>2, EnvStep
<1>3. ASSUME NEW pc, task[w].pc # "none" PROVE Faithful(At(task[w], pc))
  <2>1. Faithful(task[w]) /\ IsTask(task[w])
    BY <1>3, FaithfulTask
  <2>2. PICK u : u = At(task[w], pc)
    OBVIOUS
  <2>3. u.given = task[w].given /\ u.tale = task[w].tale /\ u.config = task[w].config
    BY <2>1, <2>2 DEF At, IsTask
  <2>4. QED
    BY <2>1, <2>2, <2>3, StaysFaithful
<1>4. CASE ListKeys(w)
  <2>1. task[w].pc # "none" /\ services' = services
    BY <1>4 DEF ListKeys
  <2>2. Becomes(w, task[w]) \/ Becomes(w, At(task[w], "key"))
    BY <1>4 DEF ListKeys
  <2>3. Faithful(task[w]) /\ Faithful(At(task[w], "key"))
    BY <1>3, <2>1, FaithfulTask
  <2>4. QED
    BY <2>1, <2>2, <2>3, EnvStep
<1>5. CASE CreateKey(w) \/ CreateService(w)
  <2>1. task[w].pc # "none" /\ Becomes(w, At(task[w], "ready"))
    BY <1>5 DEF CreateKey, CreateService
  <2>2. \A s \in services' : \/ s \in services
                             \/ task[w].pc = "service" /\ s = Service(w, task[w])
    BY <1>5 DEF CreateKey, CreateService
  <2>3. QED
    BY <1>3, <2>1, <2>2, EnvStep
<1>6. CASE NameImage(w)
  <2>1. task[w].pc # "none" /\ services' = services
    BY <1>6 DEF NameImage
  <2>2. PICK url : Becomes(w, [task[w] EXCEPT !.pc = "ready",
                                 !.config = {[c EXCEPT !.image = url] : c \in task[w].config}])
    BY <1>6 DEF NameImage
  <2>3. PICK configs : configs = {[c EXCEPT !.image = url] : c \in task[w].config}
    OBVIOUS
  <2>4. PICK u : u = [task[w] EXCEPT !.pc = "ready", !.config = configs]
    OBVIOUS
  <2>5. Faithful(task[w]) /\ IsTask(task[w])
    BY <2>1, FaithfulTask
  <2>6. \A c \in configs : \E d \in task[w].config : c.env = d.env
    <3>1. \A d \in task[w].config : IsConfig(d)
      BY <2>1, FaithfulTask
    <3>2. \A d \in task[w].config : [d EXCEPT !.image = url].env = d.env
      BY <3>1 DEF IsConfig
    <3>3. QED
      BY <2>3, <3>2
  <2>7. u.given = task[w].given /\ u.tale = task[w].tale /\ u.config = configs
    BY <2>4, <2>5 DEF IsTask
  <2>8. Faithful(u)
    BY <2>5, <2>6, <2>7, StaysFaithful
  <2>9. Becomes(w, u)
    BY <2>2, <2>3, <2>4
  <2>10. QED
    BY <2>1, <2>8, <2>9, EnvStep
<1>7. CASE Login(w)
  <2>1. task[w].pc # "none" /\ services' = services
    BY <1>7 DEF Login
  <2>2. PICK urls : \/ Becomes(w, NoTask)
                    \/ Becomes(w, [task[w] EXCEPT !.pc = "service", !.login = urls])
    BY <1>7 DEF Login
  <2>3. PICK u : u = [task[w] EXCEPT !.pc = "service", !.login = urls]
    OBVIOUS
  <2>4. Faithful(task[w]) /\ IsTask(task[w])
    BY <2>1, FaithfulTask
  <2>5. u.given = task[w].given /\ u.tale = task[w].tale /\ u.config = task[w].config
    BY <2>3, <2>4 DEF IsTask
  <2>6. Faithful(u)
    BY <2>4, <2>5, StaysFaithful
  <2>7. Becomes(w, NoTask) \/ Becomes(w, u)
    BY <2>2, <2>3
  <2>8. QED
    BY <2>1, <2>6, <2>7, EnvStep
<1>8. QED
  BY <1>1, <1>2, <1>4, <1>5, <1>6, <1>7

(* The configuration is made, and the tale's own environment with it. *)
LEMMA GetImageFaithful ==
    ASSUME LaunchInv, EnvInv, NEW w \in Workers, GetImage(w) PROVE EnvInv'
<1>1. task[w].pc # "none" /\ services' = services
  BY DEF GetImage
<1>2. PICK t : t = task[w]
  OBVIOUS
<1>3. Faithful(t) /\ IsTask(t)
  BY <1>1, <1>2, FaithfulTask
<1>4. PICK env : env = GetEnvWithCsp(CHOOSE e \in Environment(t.tale) : TRUE,
                                     Address(w, "dashboard"))
  OBVIOUS
<1>5. /\ IsEnv(env)
      /\ \A g \in Environment(t.given) : Like(env, g) /\ Settles(env, g)
  <2>1. PICK e : e = CHOOSE x \in Environment(t.tale) : TRUE
    OBVIOUS
  <2>2. IsEnv(e) /\ \A g \in Environment(t.given) : Like(e, g)
    BY <1>3, <2>1, TaleEnvironment
  <2>3. /\ IsEnv(env) /\ Others(env) = Others(e)
        /\ Cardinality(Csps(e)) <= 1 => HasOneCsp(env)
    BY <1>4, <2>1, <2>2, CspPut
  <2>4. QED
    BY <2>2, <2>3, OneIsFew DEF Like, Settles
<1>6. PICK mem :
         Becomes(w, [t EXCEPT !.pc = "registry",
                        !.tale.own = IF @ = {} THEN @ ELSE {env},
                        !.config = {[env |-> env, image |-> 0, mem_limit |-> mem]}])
  BY <1>2, <1>4 DEF GetImage
<1>7. PICK own : own = IF t.tale.own = {} THEN {} ELSE {env}
  OBVIOUS
<1>8. PICK tale : tale = [t.tale EXCEPT !.own = own]
  OBVIOUS
<1>9. PICK c : c = [env |-> env, image |-> 0, mem_limit |-> mem]
  OBVIOUS
<1>10. PICK u : u = [t EXCEPT !.pc = "registry", !.tale = tale, !.config = {c}]
  OBVIOUS
<1>11. Becomes(w, u)
  <2>1. [t EXCEPT !.pc = "registry", !.tale.own = IF @ = {} THEN @ ELSE {env}, !.config = {c}] = u
    BY <1>3, <1>7, <1>8, <1>10 DEF IsTask
  <2>2. QED
    BY <1>6, <1>9, <2>1
<1>12. u.given = t.given /\ u.tale = tale /\ u.config = {c} /\ c.env = env
  BY <1>3, <1>9, <1>10 DEF IsTask
<1>13. tale = [own |-> own, image |-> t.given.image, memLimit |-> t.tale.memLimit,
               wellFormed |-> t.tale.wellFormed]
  BY <1>3, <1>8 DEF Faithful
<1>14. t.given.own = {} => own = {}
  BY <1>3, <1>7 DEF Faithful
<1>15. t.given.own # {} => own = {env} /\ \A g \in t.given.own : Like(env, g)
  <2>1. t.given.own # {} => t.tale.own # {} /\ Environment(t.given) = t.given.own
    BY <1>3 DEF Faithful, Environment
  <2>2. QED
    BY <1>5, <1>7, <2>1
<1>16. Faithful(u)
  BY <1>3, <1>5, <1>12, <1>13, <1>14, <1>15 DEF Faithful
<1>17. QED
  BY <1>1, <1>11, <1>16, EnvStep

LEMMA EnvInvariant == Spec => []EnvInv
<1>1. Init => EnvInv
  BY DEF Init, EnvInv, OneCsp
<1>2. LaunchInv /\ EnvInv /\ [Next]_vars => EnvInv'
  <2>1. SUFFICES ASSUME LaunchInv, EnvInv, [Next]_vars PROVE EnvInv'
    OBVIOUS
  <2>2. CASE UNCHANGED <<task, services>>
    BY <2>1, <2>2 DEF EnvInv, OneCsp, Faithful
  <2>3. ASSUME NEW w \in Workers,
               \/ Begin(w) \/ End(w) \/ ListKeys(w) \/ CreateKey(w) \/ GetImage(w)
               \/ NameImage(w) \/ Login(w) \/ CreateService(w)
               \/ CallBreaks(w) \/ WorkerDies(w)
        PROVE  EnvInv'
    BY <2>1, <2>3, OtherCalls, GetImageFaithful
  <2>4. QED
    BY <2>1, <2>2, <2>3 DEF Next, vars, LabelsChange, Revoke
<1>3. QED
  BY <1>1, <1>2, LaunchInvariant, PTL DEF Spec

(* utils.py:160-178: however often a configuration is made of a tale whose  *)
(* environment is changed in place, a container has one CSP_HOSTS, unless   *)
(* the tale was given several settings whose names begin so, and the        *)
(* settings of other names where they were.                                 *)
THEOREM EnvironmentsHaveOneCsp == Spec => []OneCsp
<1>1. EnvInv => OneCsp
  BY DEF EnvInv
<1>2. QED
  BY <1>1, EnvInvariant, PTL
=============================================================================
