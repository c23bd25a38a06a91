---------------------------- MODULE DeployProofs ----------------------------
(***************************************************************************)
(* Theorems about Deploy, for any lookalikes and any number of runs,        *)
(* interruptions and failing listings.                                      *)
(***************************************************************************)
EXTENDS Deploy, SequenceTheorems, FiniteSetTheorems, TLAPS

Deployment(n) == <<"deployment", n>>
Configmap(n)  == <<"configmap", n>>
Configured    == {"girder", "worker"}
Configmaps    == {Configmap(n) : n \in Configured}

(* What is made in one call and labelled in another. *)
LabelledLate == {<<"secret", "dev-cert">>, <<"secret", "site-cert">>} \cup Configmaps

(* What every run of deploy.sh makes, and makes without looking. *)
DevClaim  == <<"claim", "gwvolman-dev">>
DevVolume == <<"volume", "gwvolman-dev">>
Foundation == Extras \cup Plugin \cup {Minikube}
Admin      == <<"clusterrolebinding", "admin">>
------------------------------------------------------------------------------
(* The commands of deploy.sh *)

Steps ==
    {Command("make", {r}) : r \in Whole \ LabelledLate}
    \cup {Command("bare", {r}) : r \in LabelledLate}
    \cup {Command("label", {r}) : r \in LabelledLate}
    \cup {Command("replace", {r}) : r \in Configmaps}
    \cup {Command("ensure", {r}) : r \in Extras \cup {Minikube}}
    \cup {Bare("clusterrolebinding", "admin"), Command("make", Plugin), Command("setup", {})}

(* What a command makes at once, and what it makes if its body is run. *)
Direct(c) == IF c.op \in {"make", "bare"} THEN c.what ELSE {}
Creates(c) == IF c.op = "unless" THEN UNION {Direct(b) : b \in Range(c.body)} ELSE Direct(c)
Open(s) == UNION {Direct(c) : c \in Range(s)}
Made(s) == UNION {Creates(c) : c \in Range(s)}

(* Nothing is made twice, and nothing that deployments mount after one. *)
Before(c, d) ==
    /\ Creates(c) \cap Creates(d) = {}
    /\ (\E r \in Creates(c) : r[1] = "deployment") =>
           \A r \in Creates(d) : r[1] \notin {"claim", "secret"}
Ordered(s) == \A i, j \in 1..Len(s) : i < j => Before(s[i], s[j])

(* A configmap is deleted, made, labelled and used by one command each.     *)
Pending(c) ==
    \/ c.op = "replace"
    \/ c.op = "bare" /\ c.what # {<<"clusterrolebinding", "admin">>}
    \/ c.op = "label" /\ \E n \in Configured : c.what = {Configmap(n)}
Link(c, d) ==
    /\ c.op = "replace" => d = Command("bare", c.what)
    /\ c.op = "bare" /\ Pending(c) => d = Command("label", c.what)
    /\ d.op = "label" => c = Command("bare", d.what)
    /\ \A n \in Configured : c = Label("configmap", n) => d = Make("deployment", n)
Chained(s) ==
    /\ \A i \in 1..(Len(s) - 1) : Link(s[i], s[i + 1])
    /\ ~Pending(s[Len(s)])

BodyOf(what) == {what} \cup {Configmap(n) : n \in {m \in Configured : what = Deployment(m)}}
Fit(g) ==
    /\ g.body # <<>> /\ g.body[1].op # "label"
    /\ Ordered(g.body) /\ Chained(g.body)
    /\ \/ g.what = Minikube /\ Creates(g) = {Admin}
       \/ g.what \in Whole \ ({DevClaim, DevVolume} \cup Configmaps) /\ Creates(g) = BodyOf(g.what)
    /\ \A n \in Configured : Bare("configmap", n) \in Range(g.body) =>
                                 Command("replace", {Configmap(n)}) \in Range(g.body)
Groups ==
    {g \in [op : {"unless"}, what : Whole \cup {Minikube}, forced : BOOLEAN, body : Seq(Steps)] :
        Fit(g)}

Plan(s) ==
    /\ s \in Seq(Steps \cup Groups) /\ Ordered(s) /\ Chained(s)
    /\ s # <<>> /\ s[Len(s)].op = "setup"
------------------------------------------------------------------------------
(* The invariant *)

During(cmd, results) == run.cmd = cmd /\ run.result \in results

ClusterInv ==
    /\ cluster \subseteq Whole \cup Foundation
    /\ labelled \subseteq cluster
    /\ cluster \ labelled \subseteq LabelledLate \cup Foundation

SupplyInv ==
    \A n \in DOMAIN Supplies : Deployment(n) \in cluster =>
        /\ DevClaim \in cluster
        /\ Supplies[n] \ foreign \subseteq cluster
        /\ n \in Configured => Configmap(n) \in labelled

(* What is not there yet is still to be made. *)
ProgressInv ==
    During("deploy", {"running", "done"}) =>
        /\ \A r \in Whole \ Configmaps : r \in cluster \cup foreign \cup Made(run.todo)
        /\ DevClaim \in cluster \cup Made(run.todo)
        /\ \A n \in Configured : \/ Configmap(n) \in cluster \cup Made(run.todo)
                                 \/ Deployment(n) \in foreign
        /\ run.result = "done" => data = "ready"

DeployInv ==
    During("deploy", {"running"}) =>
        /\ Plan(run.todo)
        /\ \A n \in Configured : Make("deployment", n) \in Range(run.todo) =>
               \/ Configmap(n) \in Open(run.todo)
               \/ /\ Configmap(n) \in cluster
                  /\ Configmap(n) \in labelled \/ Label("configmap", n) \in Range(run.todo)
        /\ DevClaim \notin Made(run.todo) =>
               \A n \in DOMAIN Supplies :
                   Deployment(n) \in Made(run.todo) => Deployment(n) \notin cluster
        /\ \A n \in DOMAIN Supplies :
               Deployment(n) \in Open(run.todo) => Deployment(n) \notin cluster
        /\ Head(run.todo).op = "label" => Head(run.todo).what \subseteq cluster \ labelled

(* After a clean, nothing is in the way of what will be made. *)
SlateInv ==
    /\ CleanSlate
    /\ During("deploy", {"running"}) /\ run.cont /\ ~run.k /\ run.slate /\ ~run.blind =>
           /\ \A c \in Range(run.todo) : c.op = "unless" => c.what # Minikube
           /\ \A r \in Open(run.todo) :
                  r \in Whole /\ (r \in cluster => Command("replace", {r}) \in Range(run.todo))

CleanKinds == {"deployment", "service", "ingress", "volume", "claim", "secret", "configmap",
               "role"}
CleanCommands ==
    {Delete(kind) : kind \in CleanKinds} \cup {Command("wipe", {}), Command("destroy", {})}

CleanInv ==
    /\ During("clean", {"running"}) =>
           /\ run.todo \in Seq(CleanCommands)
           /\ \A i \in 2..Len(run.todo) : run.todo[i] # Delete("deployment")
    /\ During("clean", {"running", "done"}) =>
           /\ \A r \in labelled : r[1] \in CleanKinds => Delete(r[1]) \in Range(run.todo)
           /\ data = "fresh" \/ Command("wipe", {}) \in Range(run.todo)
           /\ run.k => cluster = {} \/ Command("destroy", {}) \in Range(run.todo)

(* Each interruption leaves at most one resource without its label. *)
Loose == LabelledLate \cap (cluster \ labelled)
LooseInv ==
    Cardinality(Loose) <= MaxStops - budget["stop"] + (IF Active("label") THEN 1 ELSE 0)

Commands == Steps \cup Groups \cup CleanCommands
Runs ==
    [cmd : {"none", "deploy", "clean"}, cont : BOOLEAN, k : BOOLEAN, slate : BOOLEAN,
     blind : BOOLEAN, todo : Seq(Commands),
     result : {"none", "running", "done", "exists", "failed", "stopped"}]
RunInv ==
    /\ run \in Runs
    /\ run.result = "running" <=> run.todo # <<>>
    /\ run.cmd = "none" => run.result = "none"
BudgetInv == budget \in [Kinds -> Nat] /\ \A k \in Kinds : budget[k] <= Limit[k]
DataInv == foreign \subseteq Lookalikes /\ data \in {"fresh", "claimed", "ready"}

Inv ==
    /\ RunInv /\ BudgetInv /\ DataInv /\ ClusterInv /\ SupplyInv
    /\ ProgressInv /\ DeployInv /\ SlateInv /\ CleanInv /\ LooseInv
------------------------------------------------------------------------------
(* Sequences of commands *)

LEMMA TailOf ==
    ASSUME NEW S, NEW s \in Seq(S), s # <<>>
    PROVE  /\ Tail(s) \in Seq(S) /\ Len(s) \in Nat \ {0} /\ Len(Tail(s)) = Len(s) - 1
           /\ \A i \in 1..(Len(s) - 1) : Tail(s)[i] = s[i + 1]
           /\ Head(s) = s[1] /\ Head(s) \in S
           /\ Range(s) = {Head(s)} \cup Range(Tail(s))
           /\ Tail(s) = <<>> <=> Len(s) = 1
<1>1. /\ Head(s) \in S /\ Tail(s) \in Seq(S) /\ Len(Tail(s)) = Len(s) - 1
      /\ \A i \in 1..Len(Tail(s)) : Tail(s)[i] = s[i + 1]
  BY HeadTailProperties
<1>2. Len(s) \in Nat \ {0}
  BY EmptySeq
<1>3. Head(s) = s[1]
  OBVIOUS
<1>4. /\ Range(s) = {s[i] : i \in 1..Len(s)}
      /\ Range(Tail(s)) = {Tail(s)[i] : i \in 1..Len(Tail(s))}
  BY <1>1, RangeEquality
<1>5. \A i \in 1..Len(s) : i = 1 \/ (i - 1 \in 1..Len(Tail(s)) /\ s[i] = Tail(s)[i - 1])
  BY <1>1, <1>2
<1>6. \A i \in 1..Len(Tail(s)) : i + 1 \in 1..Len(s)
  BY <1>1, <1>2
<1>7. Range(s) = {Head(s)} \cup Range(Tail(s))
  <2>1. \A c \in Range(s) : c = Head(s) \/ c \in Range(Tail(s))
    BY <1>3, <1>4, <1>5
  <2>2. \A c \in Range(Tail(s)) : c \in Range(s)
    BY <1>1, <1>4, <1>6
  <2>3. Head(s) \in Range(s)
    BY <1>2, <1>3, <1>4
  <2>4. QED
    BY <2>1, <2>2, <2>3
<1>8. Tail(s) = <<>> <=> Len(s) = 1
  <2>1. Tail(s) = <<>> => Len(Tail(s)) = 0
    BY EmptySeq
  <2>2. Tail(s) # <<>> => Len(Tail(s)) # 0
    BY <1>1, EmptySeq
  <2>3. QED
    BY <1>1, <1>2, <2>1, <2>2
<1>9. QED
  BY <1>1, <1>2, <1>3, <1>7, <1>8

LEMMA InRange ==
    ASSUME NEW S, NEW s \in Seq(S)
    PROVE  /\ \A c : c \in Range(s) <=> \E i \in 1..Len(s) : c = s[i]
           /\ Range(s) \subseteq S /\ (Range(s) = {} <=> s = <<>>) /\ Len(s) \in Nat
<1>1. Range(s) = {s[i] : i \in 1..Len(s)}
  BY RangeEquality
<1>2. Range(s) \subseteq S
  BY RangeOfSeq
<1>3. Len(s) \in Nat /\ (s # <<>> => Len(s) # 0) /\ (s = <<>> => Len(s) = 0)
  BY EmptySeq, LenProperties
<1>4. QED
  BY <1>1, <1>2, <1>3

LEMMA OrderedTail ==
    ASSUME NEW S, NEW s \in Seq(S), s # <<>>, Ordered(s)
    PROVE  Ordered(Tail(s)) /\ \A d \in Range(Tail(s)) : Before(Head(s), d)
<1>1. /\ Tail(s) \in Seq(S) /\ Len(Tail(s)) = Len(s) - 1 /\ Len(s) \in Nat \ {0}
      /\ \A i \in 1..(Len(s) - 1) : Tail(s)[i] = s[i + 1]
      /\ Head(s) = s[1]
  BY TailOf
<1>2. Ordered(Tail(s))
  BY <1>1 DEF Ordered
<1>3. ASSUME NEW d \in Range(Tail(s)) PROVE Before(Head(s), d)
  <2>1. PICK i \in 1..Len(Tail(s)) : d = Tail(s)[i]
    BY <1>1, InRange
  <2>2. QED
    BY <1>1, <2>1 DEF Ordered
<1>4. QED
  BY <1>2, <1>3

LEMMA ChainedTail ==
    ASSUME NEW S, NEW s \in Seq(S), Chained(s), s # <<>>, Tail(s) # <<>>
    PROVE  Chained(Tail(s)) /\ Link(Head(s), Head(Tail(s))) /\ Tail(s)[Len(Tail(s))] = s[Len(s)]
<1>1. /\ Tail(s) \in Seq(S) /\ Len(Tail(s)) = Len(s) - 1 /\ Len(s) \in Nat \ {0}
      /\ \A i \in 1..(Len(s) - 1) : Tail(s)[i] = s[i + 1]
      /\ Head(s) = s[1] /\ Len(s) # 1 /\ Head(Tail(s)) = Tail(s)[1]
  BY TailOf
<1>2. QED
  BY <1>1 DEF Chained

LEMMA OrderedConcat ==
    ASSUME NEW S, NEW s \in Seq(S), NEW t \in Seq(S), Ordered(s), Ordered(t),
           \A c \in Range(s), d \in Range(t) : Before(c, d)
    PROVE  Ordered(s \o t)
<1>1. /\ Len(s \o t) = Len(s) + Len(t)
      /\ \A i \in 1..(Len(s) + Len(t)) :
            (s \o t)[i] = IF i <= Len(s) THEN s[i] ELSE t[i - Len(s)]
      /\ Len(s) \in Nat /\ Len(t) \in Nat
  BY ConcatProperties, LenProperties
<1>2. /\ \A i \in 1..Len(s) : s[i] \in Range(s)
      /\ \A i \in 1..Len(t) : t[i] \in Range(t)
  BY InRange
<1>3. ASSUME NEW i \in 1..Len(s \o t), NEW j \in 1..Len(s \o t), i < j
      PROVE  Before((s \o t)[i], (s \o t)[j])
  <2>1. CASE j <= Len(s)
    BY <1>1, <1>3, <2>1 DEF Ordered
  <2>2. CASE i <= Len(s) /\ ~(j <= Len(s))
    BY <1>1, <1>2, <1>3, <2>2
  <2>3. CASE ~(i <= Len(s))
    <3>1. /\ i - Len(s) \in 1..Len(t) /\ j - Len(s) \in 1..Len(t) /\ i - Len(s) < j - Len(s)
          /\ (s \o t)[i] = t[i - Len(s)] /\ (s \o t)[j] = t[j - Len(s)]
      BY <1>1, <1>3, <2>3
    <3>2. QED
      BY <3>1 DEF Ordered
  <2>4. QED
    BY <1>1, <2>1, <2>2, <2>3
<1>4. QED
  BY <1>3 DEF Ordered

LEMMA ChainedConcat ==
    ASSUME NEW S, NEW s \in Seq(S), NEW t \in Seq(S), s # <<>>, t # <<>>,
           Chained(s), Chained(t), t[1].op # "label"
    PROVE  Chained(s \o t) /\ (s \o t)[1] = s[1] /\ (s \o t)[Len(s \o t)] = t[Len(t)]
<1>1. /\ Len(s \o t) = Len(s) + Len(t)
      /\ \A i \in 1..(Len(s) + Len(t)) :
            (s \o t)[i] = IF i <= Len(s) THEN s[i] ELSE t[i - Len(s)]
      /\ Len(s) \in Nat \ {0} /\ Len(t) \in Nat \ {0}
  BY ConcatProperties, EmptySeq
<1>2. (s \o t)[1] = s[1] /\ (s \o t)[Len(s \o t)] = t[Len(t)]
  BY <1>1
<1>3. ASSUME NEW i \in 1..(Len(s \o t) - 1) PROVE Link((s \o t)[i], (s \o t)[i + 1])
  <2>1. CASE i < Len(s)
    BY <1>1, <1>3, <2>1 DEF Chained
  <2>2. CASE i = Len(s)
    <3>1. (s \o t)[i] = s[Len(s)] /\ (s \o t)[i + 1] = t[1]
      BY <1>1, <2>2
    <3>2. ~Pending(s[Len(s)])
      BY DEF Chained
    <3>3. \A n \in Configured : Pending(Label("configmap", n))
      BY DEF Pending, Label, Command, Configmap
    <3>4. Link(s[Len(s)], t[1])
      BY <3>2, <3>3 DEF Pending, Link
    <3>5. QED
      BY <3>1, <3>4
  <2>3. CASE i > Len(s)
    <3>1. /\ i - Len(s) \in 1..(Len(t) - 1) /\ (i - Len(s)) + 1 = (i + 1) - Len(s)
          /\ (s \o t)[i] = t[i - Len(s)] /\ (s \o t)[i + 1] = t[(i + 1) - Len(s)]
      BY <1>1, <1>3, <2>3
    <3>2. QED
      BY <3>1 DEF Chained
  <2>4. QED
    BY <1>1, <2>1, <2>2, <2>3
<1>4. QED
  BY <1>2, <1>3 DEF Chained

(* What a sequence makes. *)
LEMMA MadeTail ==
    ASSUME NEW S, NEW s \in Seq(S), s # <<>>
    PROVE  /\ Made(s) = Creates(Head(s)) \cup Made(Tail(s))
           /\ Open(s) = Direct(Head(s)) \cup Open(Tail(s))
BY TailOf DEF Made, Open

LEMMA MadeConcat ==
    ASSUME NEW S, NEW s \in Seq(S), NEW t \in Seq(S)
    PROVE  /\ Range(s \o t) = Range(s) \cup Range(t)
           /\ Made(s \o t) = Made(s) \cup Made(t)
           /\ Open(s \o t) = Open(s) \cup Open(t)
<1>1. Range(s \o t) = Range(s) \cup Range(t)
  BY RangeConcatenation
<1>2. QED
  BY <1>1 DEF Made, Open

LEMMA MadeEmpty == Range(<<>>) = {} /\ Made(<<>>) = {} /\ Open(<<>>) = {}
<1>1. Range(<<>>) = {}
  BY EmptySeq, InRange
<1>2. QED
  BY <1>1 DEF Made, Open

LEMMA MadeOf ==
    ASSUME NEW s
    PROVE  /\ \A r : r \in Made(s) <=> \E c \in Range(s) : r \in Creates(c)
           /\ \A r : r \in Open(s) <=> \E c \in Range(s) : r \in Direct(c)
           /\ Open(s) \subseteq Made(s)
<1>1. \A c : Direct(c) \subseteq Creates(c)
  BY DEF Direct, Creates
<1>2. QED
  BY <1>1 DEF Made, Open

(* What the head of an ordered sequence makes, the rest does not, and after *)
(* a deployment there is nothing for it to mount.                           *)
LEMMA MadeOnce ==
    ASSUME NEW S, NEW s \in Seq(S), s # <<>>, Ordered(s)
    PROVE  /\ Creates(Head(s)) \cap Made(Tail(s)) = {}
           /\ (\E r \in Creates(Head(s)) : r[1] = "deployment") =>
                  \A r \in Made(Tail(s)) : r[1] \notin {"claim", "secret"}
<1>1. \A d \in Range(Tail(s)) : Before(Head(s), d)
  BY OrderedTail
<1>2. \A r \in Made(Tail(s)) : \E d \in Range(Tail(s)) : r \in Creates(d)
  BY MadeOf
<1>3. QED
  BY <1>1, <1>2 DEF Before
------------------------------------------------------------------------------
(* Commands *)

LEMMA StepKinds ==
    ASSUME NEW c \in Steps
    PROVE  /\ c = Command(c.op, c.what)
           /\ c.op \in {"make", "bare", "label", "replace", "ensure", "setup"}
           /\ c.op = "make" => c.what = Plugin \/ \E r \in Whole \ LabelledLate : c.what = {r}
           /\ c.op = "bare" => \/ c.what = {<<"clusterrolebinding", "admin">>}
                               \/ \E r \in LabelledLate : c.what = {r}
           /\ c.op = "label" => \E r \in LabelledLate : c.what = {r}
           /\ c.op = "replace" => \E r \in Configmaps : c.what = {r}
           /\ c.op = "ensure" => c.what \subseteq Foundation
BY DEF Steps, Command, Bare, Foundation

LEMMA GroupKinds ==
    ASSUME NEW g \in Groups
    PROVE  /\ g.op = "unless" /\ g.body \in Seq(Steps) /\ Fit(g) /\ Direct(g) = {}
           /\ Creates(g) = Open(g.body) /\ Made(g.body) = Open(g.body)
           /\ g.what \in Whole \cup {Minikube} /\ g.forced \in BOOLEAN
<1>1. /\ g.op = "unless" /\ g.body \in Seq(Steps) /\ Fit(g)
      /\ g.what \in Whole \cup {Minikube} /\ g.forced \in BOOLEAN
  BY DEF Groups
<1>2. Creates(g) = Open(g.body) /\ Direct(g) = {}
  BY <1>1 DEF Creates, Direct, Open
<1>3. \A b \in Range(g.body) : Creates(b) = Direct(b)
  BY <1>1, InRange, StepKinds DEF Creates
<1>4. Made(g.body) = Open(g.body)
  BY <1>3 DEF Made, Open
<1>5. QED
  BY <1>1, <1>2, <1>4

LEMMA CleanKindsOf ==
    ASSUME NEW c \in CleanCommands
    PROVE  /\ c = Command(c.op, c.what) /\ c.op \in {"delete", "wipe", "destroy"}
           /\ c.op = "delete" => \E kind \in CleanKinds : c = Delete(kind) /\ c.what = {kind}
           /\ c.op = "wipe" => c = Command("wipe", {})
           /\ c.op = "destroy" => c = Command("destroy", {})
BY DEF CleanCommands, Delete, Command

(* A planned command is a step, or a group that is not one. *)
LEMMA PlannedKinds ==
    ASSUME NEW c \in Steps \cup Groups
    PROVE  /\ c.op \in {"make", "bare", "label", "replace", "ensure", "setup", "unless"}
           /\ c \in Groups <=> c.op = "unless"
           /\ c \in Steps <=> c.op # "unless"
BY StepKinds, GroupKinds
------------------------------------------------------------------------------
(* Plans *)

LEMMA PlanTail ==
    ASSUME NEW s, Plan(s)
    PROVE  IF Tail(s) = <<>> THEN Head(s).op = "setup"
           ELSE Plan(Tail(s)) /\ Link(Head(s), Head(Tail(s)))
<1>1. s \in Seq(Steps \cup Groups) /\ s # <<>>
  BY DEF Plan
<1>2. CASE Tail(s) = <<>>
  <2>1. Len(s) = 1 /\ Head(s) = s[1]
    BY <1>1, <1>2, TailOf
  <2>2. QED
    BY <1>2, <2>1 DEF Plan
<1>3. CASE Tail(s) # <<>>
  <2>1. Tail(s) \in Seq(Steps \cup Groups)
    BY <1>1, TailOf
  <2>2. Ordered(Tail(s))
    BY <1>1, OrderedTail DEF Plan
  <2>3. /\ Chained(Tail(s)) /\ Link(Head(s), Head(Tail(s)))
        /\ Tail(s)[Len(Tail(s))] = s[Len(s)]
    BY <1>1, <1>3, ChainedTail DEF Plan
  <2>4. QED
    BY <1>3, <2>1, <2>2, <2>3 DEF Plan
<1>4. QED
  BY <1>2, <1>3

LEMMA PlanOpened ==
    ASSUME NEW s, Plan(s), Head(s).op = "unless"
    PROVE  LET t == Head(s).body \o Tail(s)
           IN  /\ Plan(t) /\ Made(t) = Made(s) /\ Range(t) = Range(Head(s).body) \cup Range(Tail(s))
               /\ Open(t) = Creates(Head(s)) \cup Open(s)
               /\ Head(t).op # "label"
<1>1. /\ s \in Seq(Steps \cup Groups) /\ s # <<>> /\ Head(s) \in Steps \cup Groups
      /\ Tail(s) \in Seq(Steps \cup Groups)
  BY TailOf DEF Plan
<1>2. Head(s) \in Groups
  BY <1>1, PlannedKinds
<1>3. Tail(s) # <<>> /\ Plan(Tail(s)) /\ Link(Head(s), Head(Tail(s)))
  BY PlanTail
<1>4. PICK b : b = Head(s).body
  OBVIOUS
<1>5. PICK r : r = Tail(s)
  OBVIOUS
<1>6. /\ b \in Seq(Steps) /\ Fit(Head(s)) /\ Creates(Head(s)) = Open(b) /\ Made(b) = Open(b)
      /\ Direct(Head(s)) = {}
  BY <1>2, <1>4, GroupKinds
<1>7. b \in Seq(Steps \cup Groups) /\ r \in Seq(Steps \cup Groups)
  BY <1>1, <1>5, <1>6, SeqMonotonic
<1>8. /\ b # <<>> /\ b[1].op # "label" /\ Ordered(b) /\ Chained(b)
  BY <1>4, <1>6 DEF Fit
<1>9. Ordered(b \o r)
  <2>1. \A d \in Range(r) : Before(Head(s), d)
    BY <1>1, <1>5, OrderedTail DEF Plan
  <2>2. \A c \in Range(b) : Creates(c) \subseteq Creates(Head(s))
    BY <1>6, MadeOf
  <2>3. \A c \in Range(b), d \in Range(r) : Before(c, d)
    BY <2>1, <2>2 DEF Before
  <2>4. QED
    BY <1>3, <1>5, <1>7, <1>8, <2>3, OrderedConcat DEF Plan
<1>10. r[1].op # "label"
  <2>1. r[1] = Head(r)
    BY <1>3, <1>5, <1>7, TailOf
  <2>2. Head(r).op = "label" => Head(s) = Command("bare", Head(r).what)
    BY <1>3, <1>5 DEF Link
  <2>3. Head(s).op # "bare"
    OBVIOUS
  <2>4. QED
    BY <2>1, <2>2, <2>3 DEF Command
<1>11. Chained(b \o r) /\ (b \o r)[1] = b[1] /\ (b \o r)[Len(b \o r)] = r[Len(r)]
  BY <1>3, <1>5, <1>7, <1>8, <1>10, ChainedConcat DEF Plan
<1>12. b \o r \in Seq(Steps \cup Groups) /\ b \o r # <<>>
  <2>1. b \o r \in Seq(Steps \cup Groups)
    BY <1>7, ConcatProperties
  <2>2. b \o r = <<>> => b = <<>>
    BY <1>7, ConcatEqualIffEmpty, <1>3, <1>5, <1>8, EmptySeq, ConcatProperties
  <2>3. QED
    BY <1>8, <2>1, <2>2
<1>13. Plan(b \o r)
  BY <1>3, <1>5, <1>9, <1>11, <1>12 DEF Plan
<1>14. /\ Made(s) = Creates(Head(s)) \cup Made(r) /\ Open(s) = Direct(Head(s)) \cup Open(r)
       /\ Made(b \o r) = Made(b) \cup Made(r) /\ Open(b \o r) = Open(b) \cup Open(r)
       /\ Range(b \o r) = Range(b) \cup Range(r)
  <2>1. /\ Made(s) = Creates(Head(s)) \cup Made(Tail(s))
        /\ Open(s) = Direct(Head(s)) \cup Open(Tail(s))
    BY <1>1, MadeTail
  <2>2. /\ Made(b \o r) = Made(b) \cup Made(r) /\ Open(b \o r) = Open(b) \cup Open(r)
        /\ Range(b \o r) = Range(b) \cup Range(r)
    BY <1>7, MadeConcat
  <2>3. QED
    BY <1>5, <2>1, <2>2
<1>15. Head(b \o r).op # "label"
  BY <1>8, <1>11, <1>12, TailOf
<1>16. QED
  BY <1>4, <1>5, <1>6, <1>13, <1>14, <1>15

(* A configmap that will be made, or given its label, will be mounted.      *)
LEMMA Followed ==
    ASSUME NEW S, NEW s \in Seq(S), Chained(s), NEW c \in Range(s), Pending(c)
    PROVE  \E d \in Range(s) : Link(c, d)
<1>1. PICK i \in 1..Len(s) : c = s[i]
  BY InRange
<1>2. i # Len(s) /\ Len(s) \in Nat
  BY <1>1, InRange DEF Chained
<1>3. i + 1 \in 1..Len(s) /\ Link(s[i], s[i + 1])
  BY <1>2 DEF Chained
<1>4. s[i + 1] \in Range(s)
  BY <1>3, InRange
<1>5. QED
  BY <1>1, <1>3, <1>4

LEMMA ConfigmapUsed ==
    ASSUME NEW s, Plan(s), NEW n \in Configured,
           Bare("configmap", n) \in Range(s) \/ Label("configmap", n) \in Range(s)
    PROVE  Make("deployment", n) \in Range(s) /\ Deployment(n) \in Open(s)
<1>1. s \in Seq(Steps \cup Groups) /\ Chained(s)
  BY DEF Plan
<1>2. Pending(Bare("configmap", n)) /\ Pending(Label("configmap", n))
  <2>1. {<<"configmap", n>>} # {<<"clusterrolebinding", "admin">>}
    <3>1. <<"configmap", n>> # <<"clusterrolebinding", "admin">>
      OBVIOUS
    <3>2. \A x, y : x # y => {x} # {y}
      OBVIOUS
    <3>3. QED
      BY <3>1, <3>2
  <2>2. QED
    BY <2>1 DEF Pending, Bare, Label, Command, Configmap
<1>3. Label("configmap", n) \in Range(s)
  <2>1. CASE Bare("configmap", n) \in Range(s)
    <3>1. PICK d \in Range(s) : Link(Bare("configmap", n), d)
      BY <1>1, <1>2, <2>1, Followed
    <3>2. d = Label("configmap", n)
      BY <1>2, <3>1 DEF Link, Bare, Label, Command
    <3>3. QED
      BY <3>2
  <2>2. QED
    BY <2>1
<1>4. PICK d \in Range(s) : Link(Label("configmap", n), d)
  BY <1>1, <1>2, <1>3, Followed
<1>5. d = Make("deployment", n)
  BY <1>4 DEF Link
<1>6. Direct(Make("deployment", n)) = {Deployment(n)}
  BY DEF Direct, Make, Command, Deployment
<1>7. QED
  BY <1>5, <1>6, MadeOf

LEMMA OpenConfigmap ==
    ASSUME NEW s, NEW S \in SUBSET (Steps \cup Groups), s \in Seq(S),
           NEW n \in Configured, Configmap(n) \in Open(s)
    PROVE  Bare("configmap", n) \in Range(s)
<1>1. PICK c \in Range(s) : Configmap(n) \in Direct(c)
  BY MadeOf
<1>2. c \in Steps \cup Groups
  BY InRange
<1>3. c \in Steps /\ c.op \in {"make", "bare"} /\ Configmap(n) \in c.what
  <2>1. c \notin Groups
    BY <1>1, GroupKinds
  <2>2. QED
    BY <1>1, <1>2, <2>1 DEF Direct
<1>4. Configmap(n) \in LabelledLate /\ Configmap(n) \notin Plugin
  BY DEF LabelledLate, Configmaps, Plugin, Configmap
<1>5. c.op # "make"
  BY <1>3, <1>4, StepKinds
<1>6. c.what = {Configmap(n)} /\ c = Command("bare", c.what)
  <2>1. Configmap(n) # <<"clusterrolebinding", "admin">>
    BY DEF Configmap
  <2>2. QED
    BY <1>3, <1>5, <2>1, StepKinds
<1>7. QED
  BY <1>6 DEF Bare, Configmap

LEMMA ReplaceMakes ==
    ASSUME NEW s, Plan(s), NEW n \in Configured, Command("replace", {Configmap(n)}) \in Range(s)
    PROVE  Bare("configmap", n) \in Range(s) /\ Configmap(n) \in Open(s)
<1>1. s \in Seq(Steps \cup Groups) /\ Chained(s)
  BY DEF Plan
<1>2. Pending(Command("replace", {Configmap(n)}))
  BY DEF Pending, Command
<1>3. PICK d \in Range(s) : Link(Command("replace", {Configmap(n)}), d)
  BY <1>1, <1>2, Followed
<1>4. d = Bare("configmap", n)
  BY <1>3 DEF Link, Bare, Command, Configmap
<1>5. Direct(Bare("configmap", n)) = {Configmap(n)}
  BY DEF Direct, Bare, Command, Configmap
<1>6. QED
  BY <1>4, <1>5, MadeOf
------------------------------------------------------------------------------
(* How a step leaves the run *)

(* The run goes on with t. *)
Turns(t) ==
    /\ run' \in Runs /\ run'.todo = t /\ t # <<>>
    /\ run'.result = "running" /\ run.result = "running"
    /\ run'.cmd = run.cmd /\ run'.cont = run.cont /\ run'.k = run.k /\ run'.slate = run.slate
    /\ ~run'.blind => ~run.blind

Ends(result) ==
    /\ run' \in Runs /\ run'.todo = <<>>
    /\ run'.result = result /\ run.result = "running"
    /\ run'.cmd = run.cmd /\ run'.cont = run.cont /\ run'.k = run.k /\ run'.slate = run.slate
    /\ run'.blind = run.blind

LEMMA Turning ==
    ASSUME RunInv, run.result = "running", NEW t \in Seq(Commands), t # <<>>,
           GoesOn(t) \/ run' = [run EXCEPT !.todo = t, !.blind = TRUE]
    PROVE  Turns(t)
BY DEF RunInv, Runs, GoesOn, Turns

LEMMA Ending ==
    ASSUME RunInv, run.result = "running"
    PROVE  /\ GoesOn(<<>>) => Ends("done")
           /\ \A r \in {"exists", "failed", "stopped"} : Over(r) => Ends(r)
<1>1. <<>> \in Seq(Commands)
  BY EmptySeq
<1>2. QED
  BY <1>1 DEF RunInv, Runs, GoesOn, Over, Ends

LEMMA Spent ==
    ASSUME BudgetInv, NEW k \in Kinds, Spend(k)
    PROVE  /\ BudgetInv' /\ (k = "stop" => budget'["stop"] = budget["stop"] - 1)
           /\ k # "stop" => budget'["stop"] = budget["stop"]
<1>1. /\ budget'[k] = budget[k] - 1 /\ budget[k] > 0
      /\ \A j \in Kinds \ {k} : budget'[j] = budget[j]
      /\ budget' \in [Kinds -> Int] /\ budget \in [Kinds -> Nat]
  BY DEF Spend, BudgetInv
<1>2. \A j \in Kinds : Limit[j] \in Nat
  BY ConstantsOK
<1>3. BudgetInv'
  BY <1>1, <1>2 DEF BudgetInv
<1>4. QED
  BY <1>1, <1>3 DEF Kinds

LEMMA Unpaid ==
    ASSUME BudgetInv, UNCHANGED budget
    PROVE  BudgetInv' /\ budget'["stop"] = budget["stop"] /\ budget["stop"] \in Nat
BY DEF BudgetInv, Kinds

(* Resources without a label do not become more, in a step that no label    *)
(* was awaiting.                                                            *)
LEMMA LooseFinite ==
    IsFiniteSet(Loose) /\ Cardinality(Loose) \in Nat
<1>1. IsFiniteSet(LabelledLate)
  <2>1. LabelledLate = (({<<"secret", "dev-cert">>} \cup {<<"secret", "site-cert">>})
                         \cup {<<"configmap", "girder">>}) \cup {<<"configmap", "worker">>}
    BY DEF LabelledLate, Configmaps, Configured, Configmap
  <2>2. IsFiniteSet({<<"secret", "dev-cert">>} \cup {<<"secret", "site-cert">>})
    BY FS_Singleton, FS_AddElement
  <2>3. IsFiniteSet(({<<"secret", "dev-cert">>} \cup {<<"secret", "site-cert">>})
                     \cup {<<"configmap", "girder">>})
    BY <2>2, FS_AddElement
  <2>4. QED
    BY <2>1, <2>3, FS_AddElement
<1>2. Loose \in SUBSET LabelledLate
  BY DEF Loose
<1>3. QED
  BY <1>1, <1>2, FS_Subset, FS_CardinalityType

LEMMA NoLooser ==
    ASSUME LooseInv, BudgetInv, Loose' \subseteq Loose, ~Active("label"),
           BudgetInv', budget'["stop"] <= budget["stop"]
    PROVE  LooseInv'
<1>1. /\ Cardinality(Loose') <= Cardinality(Loose) /\ Cardinality(Loose') \in Nat
      /\ Cardinality(Loose) \in Nat
  BY LooseFinite, FS_Subset, FS_CardinalityType
<1>2. MaxStops \in Nat /\ budget["stop"] \in Nat /\ budget'["stop"] \in Nat
  BY ConstantsOK DEF BudgetInv, Kinds, Limit
<1>3. Cardinality(Loose) <= MaxStops - budget["stop"]
  BY <1>1, <1>2 DEF LooseInv
<1>4. Cardinality(Loose') <= MaxStops - budget'["stop"]
  BY <1>1, <1>2, <1>3
<1>5. QED
  BY <1>1, <1>2, <1>4 DEF LooseInv

(* Which script a command is of. *)
LEMMA OfDeploy ==
    ASSUME Inv, NEW op \in {"make", "bare", "label", "replace", "ensure", "setup", "unless"},
           Active(op)
    PROVE  /\ run.cmd = "deploy" /\ run.result = "running" /\ Plan(run.todo)
           /\ run.todo \in Seq(Steps \cup Groups) /\ run.todo # <<>>
           /\ Head(run.todo).op = op /\ Head(run.todo) \in Steps \cup Groups
           /\ Tail(run.todo) \in Seq(Steps \cup Groups) /\ Tail(run.todo) \in Seq(Commands)
           /\ Range(run.todo) = {Head(run.todo)} \cup Range(Tail(run.todo))
           /\ op # "setup" => /\ Tail(run.todo) # <<>> /\ Plan(Tail(run.todo))
                              /\ Link(Head(run.todo), Head(Tail(run.todo)))
<1>1. run.result = "running" /\ run.todo # <<>> /\ Head(run.todo).op = op /\ run \in Runs
  BY DEF Active, Inv, RunInv
<1>2. run.cmd # "clean"
  <2>1. SUFFICES ASSUME run.cmd = "clean" PROVE FALSE
    OBVIOUS
  <2>2. run.todo \in Seq(CleanCommands)
    BY <1>1, <2>1 DEF Inv, CleanInv, During
  <2>3. Head(run.todo) \in CleanCommands
    BY <1>1, <2>2, TailOf
  <2>4. QED
    BY <1>1, <2>3, CleanKindsOf
<1>3. run.cmd = "deploy"
  BY <1>1, <1>2 DEF Inv, RunInv, Runs
<1>4. Plan(run.todo)
  BY <1>1, <1>3 DEF Inv, DeployInv, During
<1>5. run.todo \in Seq(Steps \cup Groups)
  BY <1>4 DEF Plan
<1>6. /\ Head(run.todo) \in Steps \cup Groups /\ Tail(run.todo) \in Seq(Steps \cup Groups)
      /\ Range(run.todo) = {Head(run.todo)} \cup Range(Tail(run.todo))
  BY <1>1, <1>5, TailOf
<1>7. Tail(run.todo) \in Seq(Commands)
  BY <1>6, SeqMonotonic DEF Commands
<1>8. QED
  BY <1>1, <1>3, <1>4, <1>5, <1>6, <1>7, PlanTail

LEMMA OfClean ==
    ASSUME Inv, NEW op \in {"delete", "wipe", "destroy"}, Active(op)
    PROVE  /\ run.cmd = "clean" /\ run.result = "running" /\ run.todo # <<>>
           /\ run.todo \in Seq(CleanCommands)
           /\ Head(run.todo).op = op /\ Head(run.todo) \in CleanCommands
           /\ Tail(run.todo) \in Seq(CleanCommands) /\ Tail(run.todo) \in Seq(Commands)
           /\ Range(run.todo) = {Head(run.todo)} \cup Range(Tail(run.todo))
<1>1. run.result = "running" /\ run.todo # <<>> /\ Head(run.todo).op = op /\ run \in Runs
  BY DEF Active, Inv, RunInv
<1>2. run.cmd # "deploy"
  <2>1. SUFFICES ASSUME run.cmd = "deploy" PROVE FALSE
    OBVIOUS
  <2>2. run.todo \in Seq(Steps \cup Groups)
    BY <1>1, <2>1 DEF Inv, DeployInv, Plan, During
  <2>3. Head(run.todo) \in Steps \cup Groups
    BY <1>1, <2>2, TailOf
  <2>4. QED
    BY <1>1, <2>3, PlannedKinds
<1>3. run.cmd = "clean"
  BY <1>1, <1>2 DEF Inv, RunInv, Runs
<1>4. run.todo \in Seq(CleanCommands)
  BY <1>1, <1>3 DEF Inv, CleanInv, During
<1>5. /\ Head(run.todo) \in CleanCommands /\ Tail(run.todo) \in Seq(CleanCommands)
      /\ Range(run.todo) = {Head(run.todo)} \cup Range(Tail(run.todo))
  BY <1>1, <1>4, TailOf
<1>6. Tail(run.todo) \in Seq(Commands)
  BY <1>5, SeqMonotonic DEF Commands
<1>7. QED
  BY <1>1, <1>3, <1>4, <1>5, <1>6

(* A run of deploy.sh goes on: what is left to show. *)
LEMMA TurnParts ==
    ASSUME Inv, run.cmd = "deploy", NEW t, Turns(t), Plan(t), BudgetInv', DataInv',
           ClusterInv', SupplyInv', LooseInv', ProgressInv',
           \A n \in Configured : Make("deployment", n) \in Range(t) =>
               \/ Configmap(n) \in Open(t)
               \/ /\ Configmap(n) \in cluster'
                  /\ Configmap(n) \in labelled' \/ Label("configmap", n) \in Range(t),
           DevClaim \notin Made(t) =>
               \A n \in DOMAIN Supplies :
                   Deployment(n) \in Made(t) => Deployment(n) \notin cluster',
           \A n \in DOMAIN Supplies : Deployment(n) \in Open(t) => Deployment(n) \notin cluster',
           Head(t).op = "label" => Head(t).what \subseteq cluster' \ labelled',
           ~run'.blind /\ run.cont /\ ~run.k /\ run.slate =>
               /\ \A c \in Range(t) : c.op = "unless" => c.what # Minikube
               /\ \A r \in Open(t) :
                     r \in Whole /\ (r \in cluster' => Command("replace", {r}) \in Range(t))
    PROVE  Inv'
<1>1. /\ run'.todo = t /\ t # <<>> /\ run'.result = "running" /\ run'.cmd = "deploy"
      /\ run' \in Runs /\ run'.cont = run.cont /\ run'.k = run.k /\ run'.slate = run.slate
  BY DEF Turns
<1>2. RunInv'
  BY <1>1 DEF RunInv
<1>3. DeployInv'
  BY <1>1 DEF DeployInv, During
<1>4. SlateInv'
  BY <1>1 DEF SlateInv, CleanSlate, During
<1>5. CleanInv'
  BY <1>1 DEF CleanInv, During
<1>6. QED
  BY <1>2, <1>3, <1>4, <1>5 DEF Inv

(* A run ends early. *)
LEMMA EndParts ==
    ASSUME Inv, NEW r \in {"exists", "failed", "stopped"}, Ends(r), BudgetInv', DataInv',
           ClusterInv', SupplyInv', LooseInv',
           r = "exists" => ~(run.cmd = "deploy" /\ run.cont /\ ~run.k /\ run.slate /\ ~run.blind)
    PROVE  Inv'
<1>1. /\ run'.todo = <<>> /\ run'.result = r /\ run' \in Runs /\ run.result = "running"
      /\ run'.cmd = run.cmd /\ run'.cont = run.cont /\ run'.k = run.k /\ run'.slate = run.slate
      /\ run'.blind = run.blind
  BY DEF Ends
<1>2. RunInv'
  BY <1>1 DEF RunInv, Inv
<1>3. ProgressInv' /\ DeployInv' /\ CleanInv'
  BY <1>1 DEF ProgressInv, DeployInv, CleanInv, During
<1>4. SlateInv'
  BY <1>1 DEF SlateInv, CleanSlate, During
<1>5. QED
  BY <1>2, <1>3, <1>4 DEF Inv

(* What was there or to be made is there or still to be made. *)
LEMMA Progressing ==
    ASSUME Inv, run.cmd = "deploy", NEW t, Turns(t), UNCHANGED foreign,
           cluster \cup Made(run.todo) \subseteq cluster' \cup Made(t)
    PROVE  ProgressInv'
<1>1. run'.todo = t /\ run'.result = "running" /\ run.result = "running"
  BY DEF Turns
<1>2. /\ \A r \in Whole \ Configmaps : r \in cluster \cup foreign \cup Made(run.todo)
      /\ DevClaim \in cluster \cup Made(run.todo)
      /\ \A n \in Configured : \/ Configmap(n) \in cluster \cup Made(run.todo)
                               \/ Deployment(n) \in foreign
  BY <1>1 DEF Inv, ProgressInv, During
<1>3. QED
  BY <1>1, <1>2 DEF ProgressInv, During

(* Nothing else changes. *)
LEMMA Same ==
    ASSUME Inv, UNCHANGED <<cluster, labelled>>, foreign' = foreign
    PROVE  ClusterInv' /\ SupplyInv' /\ Loose' = Loose
BY DEF Inv, ClusterInv, SupplyInv, Loose
------------------------------------------------------------------------------
(* What is listed already is left out; what is not is gone into. *)

LEMMA GroupMakes ==
    ASSUME NEW g \in Groups
    PROVE  /\ DevClaim \notin Creates(g)
           /\ \A r \in Creates(g) \cap (Whole \ Configmaps) : r = g.what
           /\ \A n \in Configured : Configmap(n) \in Creates(g) => g.what = Deployment(n)
           /\ \A n : Deployment(n) \in Creates(g) =>
                  /\ g.what = Deployment(n)
                  /\ n \in Configured => Configmap(n) \in Creates(g)
           /\ g.what # Minikube => Creates(g) \subseteq Whole /\ Creates(g) = BodyOf(g.what)
<1>1. \/ g.what = Minikube /\ Creates(g) \subseteq Extras
      \/ /\ g.what \in Whole \ ({DevClaim, DevVolume} \cup Configmaps)
         /\ Creates(g) = BodyOf(g.what)
  BY GroupKinds DEF Fit, Admin, Extras
<1>2. CASE g.what = Minikube /\ Creates(g) \subseteq Extras
  <2>1. DevClaim \notin Extras /\ Extras \cap Whole = {}
    BY DEF DevClaim, Extras, Whole
  <2>2. \A n : Configmap(n) \notin Extras /\ Deployment(n) \notin Extras
    BY DEF Configmap, Deployment, Extras
  <2>3. QED
    BY <1>2, <2>1, <2>2
<1>3. CASE /\ g.what \in Whole \ ({DevClaim, DevVolume} \cup Configmaps)
           /\ Creates(g) = BodyOf(g.what)
  <2>1. \A r \in Creates(g) : r = g.what \/ \E n \in Configured : /\ r = Configmap(n)
                                                                  /\ g.what = Deployment(n)
    BY <1>3 DEF BodyOf
  <2>2. \A n \in Configured : /\ Configmap(n) \in Configmaps /\ Configmap(n) # DevClaim
                              /\ Configmap(n) \in Whole
    BY DEF Configmap, Configmaps, DevClaim, Configured, Whole
  <2>3. \A n, m : Configmap(n) # Deployment(m) /\ (Configmap(n) = Configmap(m) => n = m)
    BY DEF Configmap, Deployment
  <2>4. \A n \in Configured : g.what = Deployment(n) => Configmap(n) \in Creates(g)
    BY <1>3 DEF BodyOf
  <2>5. DevClaim \notin Creates(g) /\ Creates(g) \subseteq Whole
    BY <1>3, <2>1, <2>2
  <2>6. \A r \in Creates(g) \cap (Whole \ Configmaps) : r = g.what
    BY <2>1, <2>2
  <2>7. \A n \in Configured : Configmap(n) \in Creates(g) => g.what = Deployment(n)
    BY <1>3, <2>1, <2>2, <2>3
  <2>8. \A n : Deployment(n) \in Creates(g) =>
                  /\ g.what = Deployment(n)
                  /\ n \in Configured => Configmap(n) \in Creates(g)
    BY <2>1, <2>3, <2>4
  <2>9. QED
    BY <1>3, <2>5, <2>6, <2>7, <2>8
<1>4. QED
  BY <1>1, <1>2, <1>3

LEMMA SkipKeeps ==
    ASSUME Inv, Active("unless"), GoesOn(Rest), Exists(What),
           UNCHANGED <<cluster, labelled, foreign, data, budget>>
    PROVE  Inv'
<1>1. PICK g : g = Head(run.todo)
  OBVIOUS
<1>2. PICK t : t = Tail(run.todo)
  OBVIOUS
<1>3. /\ run.cmd = "deploy" /\ run.result = "running" /\ Plan(run.todo) /\ run.todo # <<>>
      /\ run.todo \in Seq(Steps \cup Groups) /\ g.op = "unless" /\ g \in Steps \cup Groups
      /\ t \in Seq(Steps \cup Groups) /\ t \in Seq(Commands)
      /\ Range(run.todo) = {g} \cup Range(t)
      /\ t # <<>> /\ Plan(t) /\ Link(g, Head(t))
  BY <1>1, <1>2, OfDeploy
<1>4. g \in Groups /\ Direct(g) = {}
  BY <1>3, PlannedKinds, GroupKinds
<1>5. Turns(t)
  BY <1>2, <1>3, Turning DEF Inv, Rest
<1>6. /\ Made(run.todo) = Creates(g) \cup Made(t) /\ Open(run.todo) = Open(t)
  BY <1>1, <1>2, <1>3, <1>4, MadeTail
<1>7. ClusterInv' /\ SupplyInv' /\ LooseInv' /\ BudgetInv' /\ DataInv'
  <2>1. ~Active("label")
    BY <1>1, <1>3 DEF Active
  <2>2. ClusterInv' /\ SupplyInv' /\ Loose' = Loose
    BY Same
  <2>3. BudgetInv' /\ budget'["stop"] = budget["stop"] /\ budget["stop"] \in Nat
    BY Unpaid DEF Inv
  <2>4. LooseInv'
    BY <2>1, <2>2, <2>3, NoLooser DEF Inv
  <2>5. QED
    BY <2>2, <2>3, <2>4 DEF Inv, DataInv
<1>8. g.what \in cluster \cup foreign
  BY <1>1 DEF Exists, What
<1>9. ProgressInv'
  <2>1. /\ \A r \in Whole \ Configmaps : r \in cluster \cup foreign \cup Made(run.todo)
        /\ DevClaim \in cluster \cup Made(run.todo)
        /\ \A n \in Configured : \/ Configmap(n) \in cluster \cup Made(run.todo)
                                 \/ Deployment(n) \in foreign
    BY <1>3 DEF Inv, ProgressInv, During
  <2>2. \A r \in Whole \ Configmaps : r \in cluster \cup foreign \cup Made(t)
    BY <1>4, <1>6, <1>8, <2>1, GroupMakes
  <2>3. DevClaim \in cluster \cup Made(t)
    BY <1>4, <1>6, <2>1, GroupMakes
  <2>4. ASSUME NEW n \in Configured, Configmap(n) \in Creates(g)
        PROVE  Configmap(n) \in cluster \/ Deployment(n) \in foreign
    <3>1. Deployment(n) \in cluster \cup foreign
      BY <1>4, <1>8, <2>4, GroupMakes
    <3>2. n \in DOMAIN Supplies
      BY DEF Configured, Supplies
    <3>3. Deployment(n) \in cluster => Configmap(n) \in cluster
      BY <3>2 DEF Inv, SupplyInv, ClusterInv
    <3>4. QED
      BY <3>1, <3>3
  <2>5. \A n \in Configured : Configmap(n) \in cluster \cup Made(t) \/ Deployment(n) \in foreign
    BY <1>6, <2>1, <2>4
  <2>6. run'.todo = t /\ run'.result = "running"
    BY <1>5 DEF Turns
  <2>7. QED
    BY <2>2, <2>3, <2>5, <2>6 DEF ProgressInv
<1>10. \A n : g # Label("configmap", n) /\ \A w : g # Command("replace", w)
  BY <1>3 DEF Label, Command
<1>11. ASSUME NEW n \in Configured, Make("deployment", n) \in Range(t)
       PROVE  \/ Configmap(n) \in Open(t)
              \/ /\ Configmap(n) \in cluster
                 /\ Configmap(n) \in labelled \/ Label("configmap", n) \in Range(t)
  BY <1>3, <1>6, <1>10, <1>11 DEF Inv, DeployInv, During
<1>12. ASSUME DevClaim \notin Made(t), NEW n \in DOMAIN Supplies, Deployment(n) \in Made(t)
       PROVE  Deployment(n) \notin cluster
  <2>1. DevClaim \notin Made(run.todo) /\ Deployment(n) \in Made(run.todo)
    BY <1>4, <1>6, <1>12, GroupMakes
  <2>2. QED
    BY <1>3, <2>1 DEF Inv, DeployInv, During
<1>13. \A n \in DOMAIN Supplies : Deployment(n) \in Open(t) => Deployment(n) \notin cluster
  BY <1>3, <1>6 DEF Inv, DeployInv, During
<1>14. Head(t).op # "label"
  BY <1>3 DEF Link, Command
<1>15. ~run'.blind /\ run.cont /\ ~run.k /\ run.slate =>
           /\ \A c \in Range(t) : c.op = "unless" => c.what # Minikube
           /\ \A r \in Open(t) :
                 r \in Whole /\ (r \in cluster => Command("replace", {r}) \in Range(t))
  <2>1. ~run'.blind => ~run.blind
    BY <1>5 DEF Turns
  <2>2. QED
    BY <1>3, <1>6, <1>10, <2>1 DEF Inv, SlateInv, During
<1>16. QED
  BY <1>3, <1>5, <1>7, <1>9, <1>11, <1>12, <1>13, <1>14, <1>15, TurnParts

LEMMA EnterKeeps ==
    ASSUME Inv, Active("unless"), NEW t, t = Head(run.todo).body \o Tail(run.todo),
           Turns(t), ~run'.blind /\ run.cont => What \notin cluster,
           UNCHANGED <<cluster, labelled, foreign, data>>, BudgetInv',
           budget'["stop"] = budget["stop"]
    PROVE  Inv'
<1>1. PICK g : g = Head(run.todo)
  OBVIOUS
<1>2. PICK b : b = g.body
  OBVIOUS
<1>3. /\ run.cmd = "deploy" /\ run.result = "running" /\ Plan(run.todo) /\ run.todo # <<>>
      /\ run.todo \in Seq(Steps \cup Groups) /\ g.op = "unless" /\ g \in Steps \cup Groups
      /\ Range(run.todo) = {g} \cup Range(Tail(run.todo))
  BY <1>1, OfDeploy
<1>4. g \in Groups /\ Direct(g) = {} /\ b \in Seq(Steps) /\ Creates(g) = Open(b) /\ Fit(g)
  BY <1>2, <1>3, PlannedKinds, GroupKinds
<1>5. /\ Plan(t) /\ Made(t) = Made(run.todo) /\ Head(t).op # "label"
      /\ Range(t) = Range(b) \cup Range(Tail(run.todo))
      /\ Open(t) = Creates(g) \cup Open(run.todo)
  BY <1>1, <1>2, <1>3, PlanOpened
<1>6. ClusterInv' /\ SupplyInv' /\ LooseInv' /\ DataInv'
  <2>1. ~Active("label")
    BY <1>1, <1>3 DEF Active
  <2>2. ClusterInv' /\ SupplyInv' /\ Loose' = Loose
    BY Same
  <2>3. budget["stop"] \in Nat
    BY DEF Inv, BudgetInv, Kinds
  <2>4. LooseInv'
    BY <2>1, <2>2, <2>3, NoLooser DEF Inv
  <2>5. QED
    BY <2>2, <2>4 DEF Inv, DataInv
<1>7. ProgressInv'
  BY <1>3, <1>5, Progressing
<1>8. \A n : g # Label("configmap", n) /\ \A w : g # Command("replace", w)
  BY <1>3 DEF Label, Command
<1>9. \A n : g # Make("deployment", n)
  BY <1>3 DEF Make, Command
<1>10. ASSUME NEW n \in Configured, Make("deployment", n) \in Range(t)
       PROVE  \/ Configmap(n) \in Open(t)
              \/ /\ Configmap(n) \in cluster
                 /\ Configmap(n) \in labelled \/ Label("configmap", n) \in Range(t)
  <2>1. CASE Make("deployment", n) \in Range(b)
    <3>1. Deployment(n) \in Creates(g)
      <4>1. Deployment(n) \in Direct(Make("deployment", n))
        BY DEF Direct, Make, Command, Deployment
      <4>2. QED
        BY <1>4, <2>1, <4>1, MadeOf
    <3>2. QED
      BY <1>4, <1>5, <3>1, GroupMakes
  <2>2. CASE Make("deployment", n) \in Range(Tail(run.todo))
    BY <1>3, <1>5, <1>8, <2>2 DEF Inv, DeployInv, During
  <2>3. QED
    BY <1>5, <1>10, <2>1, <2>2
<1>11. DevClaim \notin Made(t) =>
          \A n \in DOMAIN Supplies : Deployment(n) \in Made(t) => Deployment(n) \notin cluster
  BY <1>3, <1>5 DEF Inv, DeployInv, During
<1>12. ASSUME NEW n \in DOMAIN Supplies, Deployment(n) \in Open(t)
       PROVE  Deployment(n) \notin cluster
  <2>1. CASE Deployment(n) \in Creates(g)
    <3>1. Made(run.todo) = Creates(g) \cup Made(Tail(run.todo))
      BY <1>1, <1>3, MadeTail
    <3>2. DevClaim \notin Made(Tail(run.todo))
      <4>1. Deployment(n)[1] = "deployment" /\ DevClaim[1] = "claim"
        BY DEF Deployment, DevClaim
      <4>2. QED
        BY <1>1, <1>3, <2>1, <4>1, MadeOnce DEF Plan
    <3>3. DevClaim \notin Made(run.todo) /\ Deployment(n) \in Made(run.todo)
      BY <1>4, <2>1, <3>1, <3>2, GroupMakes
    <3>4. QED
      BY <1>3, <3>3 DEF Inv, DeployInv, During
  <2>2. CASE Deployment(n) \in Open(run.todo)
    BY <1>3, <2>2 DEF Inv, DeployInv, During
  <2>3. QED
    BY <1>5, <1>12, <2>1, <2>2
<1>13. ASSUME ~run'.blind, run.cont, ~run.k, run.slate
       PROVE  /\ \A c \in Range(t) : c.op = "unless" => c.what # Minikube
              /\ \A r \in Open(t) :
                    r \in Whole /\ (r \in cluster => Command("replace", {r}) \in Range(t))
  <2>1. ~run.blind
    BY <1>13 DEF Turns
  <2>2. /\ \A c \in Range(run.todo) : c.op = "unless" => c.what # Minikube
        /\ \A r \in Open(run.todo) :
              r \in Whole /\ (r \in cluster => Command("replace", {r}) \in Range(run.todo))
    BY <1>3, <1>13, <2>1 DEF Inv, SlateInv, During
  <2>3. \A c \in Range(b) : c.op # "unless"
    BY <1>4, InRange, StepKinds
  <2>4. \A c \in Range(t) : c.op = "unless" => c.what # Minikube
    BY <1>3, <1>5, <2>2, <2>3
  <2>5. ASSUME NEW r \in Creates(g)
        PROVE  r \in Whole /\ (r \in cluster => Command("replace", {r}) \in Range(t))
    <3>1. g.what # Minikube /\ g.what \notin cluster
      BY <1>1, <1>3, <1>13, <2>2 DEF What
    <3>2. r \in Whole /\ r \in BodyOf(g.what)
      BY <1>4, <2>5, <3>1, GroupMakes
    <3>3. CASE r = g.what
      BY <3>1, <3>2, <3>3
    <3>4. ASSUME NEW n \in Configured, r = Configmap(n)
          PROVE  Command("replace", {r}) \in Range(t)
      <4>1. Bare("configmap", n) \in Range(b)
        <5>1. Steps \in SUBSET (Steps \cup Groups)
          OBVIOUS
        <5>2. QED
          BY <1>4, <2>5, <3>4, <5>1, OpenConfigmap
      <4>2. Command("replace", {Configmap(n)}) \in Range(b)
        BY <1>2, <1>4, <4>1 DEF Fit
      <4>3. QED
        BY <1>5, <3>4, <4>2
    <3>5. QED
      BY <3>2, <3>3, <3>4 DEF BodyOf
  <2>6. ASSUME NEW r \in Open(run.todo)
        PROVE  r \in Whole /\ (r \in cluster => Command("replace", {r}) \in Range(t))
    BY <1>3, <1>5, <1>8, <2>2, <2>6
  <2>7. QED
    BY <1>5, <2>4, <2>5, <2>6
<1>14. QED
  BY <1>3, <1>5, <1>6, <1>7, <1>10, <1>11, <1>12, <1>13, TurnParts

LEMMA CheckKeeps == ASSUME Inv, Check PROVE Inv'
<1>1. /\ Active("unless") /\ UNCHANGED <<cluster, labelled, foreign, data>>
  BY DEF Check
<1>2. PICK t : t = Head(run.todo).body \o Tail(run.todo)
  OBVIOUS
<1>3. /\ run.result = "running" /\ Plan(run.todo) /\ Head(run.todo).op = "unless"
      /\ Tail(run.todo) \in Seq(Commands)
  BY <1>1, OfDeploy
<1>4. t \in Seq(Commands) /\ t # <<>>
  <2>1. t \in Seq(Steps \cup Groups) /\ t # <<>>
    BY <1>2, <1>3, PlanOpened DEF Plan
  <2>2. QED
    BY <2>1, SeqMonotonic DEF Commands
<1>5. \/ Exists(What) /\ GoesOn(Rest) /\ UNCHANGED budget
      \/ /\ GoesOn(t) /\ UNCHANGED budget
         /\ ~(Exists(What) /\ ~(Head(run.todo).forced /\ ~run.cont))
      \/ Blind /\ run' = [run EXCEPT !.todo = t, !.blind = TRUE]
  BY <1>2 DEF Check, Rest, What
<1>6. CASE Exists(What) /\ GoesOn(Rest) /\ UNCHANGED budget
  BY <1>1, <1>6, SkipKeeps
<1>7. CASE /\ GoesOn(t) /\ UNCHANGED budget
           /\ ~(Exists(What) /\ ~(Head(run.todo).forced /\ ~run.cont))
  <2>1. Turns(t)
    BY <1>3, <1>4, <1>7, Turning DEF Inv
  <2>2. run.cont => What \notin cluster
    BY <1>7 DEF Exists
  <2>3. BudgetInv' /\ budget'["stop"] = budget["stop"]
    BY <1>7, Unpaid DEF Inv
  <2>4. QED
    BY <1>1, <1>2, <2>1, <2>2, <2>3, EnterKeeps
<1>8. CASE Blind /\ run' = [run EXCEPT !.todo = t, !.blind = TRUE]
  <2>1. Turns(t)
    BY <1>3, <1>4, <1>8, Turning DEF Inv
  <2>2. run'.blind
    BY <1>8 DEF Inv, RunInv, Runs
  <2>3. BudgetInv' /\ budget'["stop"] = budget["stop"]
    BY <1>8, Spent, Unpaid DEF Inv, Kinds, Blind
  <2>4. QED
    BY <1>1, <1>2, <2>1, <2>2, <2>3, EnterKeeps
<1>9. QED
  BY <1>5, <1>6, <1>7, <1>8
------------------------------------------------------------------------------
(* What is made *)

LEMMA MakesKnown ==
    ASSUME NEW c \in Steps, c.op \in {"make", "bare"}
    PROVE  /\ c.what \subseteq Whole \cup Foundation
           /\ c.op = "bare" => c.what \subseteq LabelledLate \cup Foundation
           /\ Creates(c) = c.what /\ Direct(c) = c.what
           /\ \A n : Deployment(n) \in c.what =>
                     c = Make("deployment", n) /\ c.what = {Deployment(n)}
           /\ (c.op = "bare" /\ c.what \cap LabelledLate # {}) =>
                  \E r \in LabelledLate : c.what = {r}
           /\ c.op = "make" => c.what \cap LabelledLate = {}
<1>1. /\ c = Command(c.op, c.what)
      /\ c.op = "make" => c.what = Plugin \/ \E r \in Whole \ LabelledLate : c.what = {r}
      /\ c.op = "bare" => \/ c.what = {<<"clusterrolebinding", "admin">>}
                          \/ \E r \in LabelledLate : c.what = {r}
  BY StepKinds
<1>2. Creates(c) = c.what /\ Direct(c) = c.what
  BY DEF Creates, Direct
<1>3. /\ Plugin \subseteq Foundation /\ <<"clusterrolebinding", "admin">> \in Foundation
      /\ LabelledLate \subseteq Whole
  BY DEF Foundation, Extras, LabelledLate, Configmaps, Configured, Configmap, Whole
<1>4. LabelledLate \cap Foundation = {}
  BY DEF Foundation, Extras, Plugin, Minikube, LabelledLate, Configmaps, Configured, Configmap
<1>5. /\ \A n : Deployment(n) \notin Plugin /\ Deployment(n) \notin LabelledLate
                /\ Deployment(n) # <<"clusterrolebinding", "admin">>
  BY DEF Plugin, Deployment, LabelledLate, Configmaps, Configmap
<1>6. ASSUME NEW n, Deployment(n) \in c.what
      PROVE  c = Make("deployment", n) /\ c.what = {Deployment(n)}
  <2>1. c.op = "make" /\ c.what = {Deployment(n)}
    BY <1>1, <1>5, <1>6
  <2>2. QED
    BY <1>1, <2>1 DEF Make, Deployment
<1>7. c.what \subseteq Whole \cup Foundation
  BY <1>1, <1>3
<1>8. c.op = "bare" => c.what \subseteq LabelledLate \cup Foundation
  BY <1>1, <1>3
<1>9. (c.op = "bare" /\ c.what \cap LabelledLate # {}) => \E r \in LabelledLate : c.what = {r}
  BY <1>1, <1>3, <1>4
<1>10. c.op = "make" => c.what \cap LabelledLate = {}
  BY <1>1, <1>3, <1>4
<1>11. QED
  BY <1>2, <1>6, <1>7, <1>8, <1>9, <1>10

(* The state of a run that is about to make something. *)
LEMMA CreateFacts ==
    ASSUME Inv, Active("make") \/ Active("bare")
    PROVE  /\ run.cmd = "deploy" /\ run.result = "running" /\ Plan(run.todo) /\ run.todo # <<>>
           /\ run.todo \in Seq(Steps \cup Groups)
           /\ Head(run.todo) \in Steps /\ Head(run.todo).op \in {"make", "bare"}
           /\ Tail(run.todo) \in Seq(Steps \cup Groups) /\ Tail(run.todo) \in Seq(Commands)
           /\ Range(run.todo) = {Head(run.todo)} \cup Range(Tail(run.todo))
           /\ Tail(run.todo) # <<>> /\ Plan(Tail(run.todo))
           /\ Link(Head(run.todo), Head(Tail(run.todo)))
           /\ Creates(Head(run.todo)) = What /\ What = Head(run.todo).what
           /\ Made(run.todo) = What \cup Made(Tail(run.todo))
           /\ Open(run.todo) = What \cup Open(Tail(run.todo))
           /\ What \cap Made(Tail(run.todo)) = {}
           /\ ~Active("label")
<1>1. /\ run.cmd = "deploy" /\ run.result = "running" /\ Plan(run.todo) /\ run.todo # <<>>
      /\ run.todo \in Seq(Steps \cup Groups)
      /\ Head(run.todo) \in Steps \cup Groups /\ Head(run.todo).op \in {"make", "bare"}
      /\ Tail(run.todo) \in Seq(Steps \cup Groups) /\ Tail(run.todo) \in Seq(Commands)
      /\ Range(run.todo) = {Head(run.todo)} \cup Range(Tail(run.todo))
      /\ Tail(run.todo) # <<>> /\ Plan(Tail(run.todo))
      /\ Link(Head(run.todo), Head(Tail(run.todo)))
  <2>1. CASE Active("make")
    BY <2>1, OfDeploy
  <2>2. CASE Active("bare")
    BY <2>2, OfDeploy
  <2>3. QED
    BY <2>1, <2>2
<1>2. Head(run.todo) \in Steps
  BY <1>1, PlannedKinds
<1>3. Creates(Head(run.todo)) = What /\ Direct(Head(run.todo)) = What /\ What = Head(run.todo).what
  BY <1>1, <1>2, MakesKnown DEF What
<1>4. /\ Made(run.todo) = Creates(Head(run.todo)) \cup Made(Tail(run.todo))
      /\ Open(run.todo) = Direct(Head(run.todo)) \cup Open(Tail(run.todo))
  BY <1>1, MadeTail
<1>5. Creates(Head(run.todo)) \cap Made(Tail(run.todo)) = {}
  BY <1>1, MadeOnce DEF Plan
<1>6. QED
  BY <1>1, <1>2, <1>3, <1>4, <1>5 DEF Active

(* A deployment is only made when what it mounts is there. *)
LEMMA DeploymentMade ==
    ASSUME Inv, Active("make") \/ Active("bare"),
           NEW n \in DOMAIN Supplies, Deployment(n) \in What
    PROVE  /\ DevClaim \in cluster /\ Supplies[n] \ foreign \subseteq cluster
           /\ n \in Configured => Configmap(n) \in labelled
           /\ What = {Deployment(n)}
<1>1. /\ run.cmd = "deploy" /\ run.result = "running" /\ Plan(run.todo) /\ run.todo # <<>>
      /\ run.todo \in Seq(Steps \cup Groups)
      /\ Head(run.todo) \in Steps /\ Head(run.todo).op \in {"make", "bare"}
      /\ Range(run.todo) = {Head(run.todo)} \cup Range(Tail(run.todo))
      /\ Plan(Tail(run.todo)) /\ Tail(run.todo) \in Seq(Steps \cup Groups)
      /\ Creates(Head(run.todo)) = What /\ What = Head(run.todo).what
      /\ Made(run.todo) = What \cup Made(Tail(run.todo))
      /\ Open(run.todo) = What \cup Open(Tail(run.todo))
      /\ What \cap Made(Tail(run.todo)) = {}
  BY CreateFacts
<1>2. Head(run.todo) = Make("deployment", n) /\ What = {Deployment(n)}
  BY <1>1, MakesKnown
<1>3. \A r \in Made(Tail(run.todo)) : r[1] \notin {"claim", "secret"}
  <2>1. Deployment(n)[1] = "deployment"
    BY DEF Deployment
  <2>2. QED
    BY <1>1, <1>2, <2>1, MadeOnce DEF Plan
<1>4. /\ \A r \in Whole \ Configmaps : r \in cluster \cup foreign \cup Made(run.todo)
      /\ DevClaim \in cluster \cup Made(run.todo)
  BY <1>1 DEF Inv, ProgressInv, During
<1>5. \A r \in Whole \ Configmaps :
          r[1] \in {"claim", "secret"} => r \in cluster \cup foreign
  <2>1. Deployment(n)[1] \notin {"claim", "secret"}
    BY DEF Deployment
  <2>2. QED
    BY <1>1, <1>2, <1>3, <1>4, <2>1
<1>6. DevClaim \in cluster
  <2>1. DevClaim[1] = "claim" /\ DevClaim # Deployment(n)
    BY DEF DevClaim, Deployment
  <2>2. QED
    BY <1>1, <1>2, <1>3, <1>4, <2>1
<1>7. ASSUME n \in Configured PROVE Configmap(n) \in cluster /\ Configmap(n) \in labelled
  <2>1. Configmap(n) \notin Open(Tail(run.todo))
    <3>1. SUFFICES ASSUME Configmap(n) \in Open(Tail(run.todo)) PROVE FALSE
      OBVIOUS
    <3>2. Bare("configmap", n) \in Range(Tail(run.todo))
      BY <1>1, <1>7, <3>1, OpenConfigmap
    <3>3. Deployment(n) \in Open(Tail(run.todo))
      BY <1>1, <1>7, <3>2, ConfigmapUsed
    <3>4. QED
      BY <1>1, <1>2, <3>3, MadeOf
  <2>2. Label("configmap", n) \notin Range(run.todo)
    <3>1. SUFFICES ASSUME Label("configmap", n) \in Range(run.todo) PROVE FALSE
      OBVIOUS
    <3>2. Label("configmap", n) # Make("deployment", n)
      BY DEF Label, Make, Command
    <3>3. Label("configmap", n) \in Range(Tail(run.todo))
      BY <1>1, <1>2, <3>1, <3>2
    <3>4. Deployment(n) \in Open(Tail(run.todo))
      BY <1>1, <1>7, <3>3, ConfigmapUsed
    <3>5. QED
      BY <1>1, <1>2, <3>4, MadeOf
  <2>3. Make("deployment", n) \in Range(run.todo)
    BY <1>1, <1>2
  <2>4. Configmap(n) # Deployment(n)
    BY DEF Configmap, Deployment
  <2>5. QED
    BY <1>1, <1>2, <1>7, <2>1, <2>2, <2>3, <2>4 DEF Inv, DeployInv, During
<1>8. Supplies[n] \ foreign \subseteq cluster
  <2>1. \A r \in Supplies[n] : \/ r \in Whole \ Configmaps /\ r[1] \in {"claim", "secret"}
                               \/ r = Configmap(n) /\ n \in Configured
    BY DEF Supplies, Whole, Configmaps, Configmap, Configured
  <2>2. QED
    BY <1>5, <1>7, <2>1
<1>9. QED
  BY <1>2, <1>6, <1>7, <1>8

(* The cluster after a command that makes something, wholly or in part. *)
Adds ==
    /\ cluster' = cluster \cup What
    /\ labelled' = IF Active("make") THEN labelled \cup (What \ cluster) ELSE labelled
    /\ UNCHANGED <<foreign, data, budget>>

LEMMA AddKeeps ==
    ASSUME Inv, Active("make") \/ Active("bare"), Adds
    PROVE  ClusterInv' /\ SupplyInv' /\ BudgetInv' /\ DataInv'
<1>1. /\ Head(run.todo) \in Steps /\ Head(run.todo).op \in {"make", "bare"}
      /\ What = Head(run.todo).what /\ run.todo # <<>> /\ run.result = "running"
  BY CreateFacts
<1>2. /\ What \subseteq Whole \cup Foundation
      /\ ~Active("make") => What \subseteq LabelledLate \cup Foundation
  BY <1>1, MakesKnown DEF Active
<1>3. ClusterInv'
  <2>1. CASE Active("make")
    BY <1>2, <2>1 DEF Adds, Inv, ClusterInv
  <2>2. CASE ~Active("make")
    BY <1>2, <2>2 DEF Adds, Inv, ClusterInv
  <2>3. QED
    BY <2>1, <2>2
<1>4. cluster \subseteq cluster' /\ labelled \subseteq labelled' /\ foreign' = foreign
  BY DEF Adds
<1>5. ASSUME NEW n \in DOMAIN Supplies, Deployment(n) \in cluster'
      PROVE  /\ DevClaim \in cluster' /\ Supplies[n] \ foreign' \subseteq cluster'
             /\ n \in Configured => Configmap(n) \in labelled'
  <2>1. CASE Deployment(n) \in cluster
    BY <1>4, <2>1 DEF Inv, SupplyInv
  <2>2. CASE Deployment(n) \in What
    BY <1>4, <2>2, DeploymentMade
  <2>3. QED
    BY <1>5, <2>1, <2>2 DEF Adds
<1>6. BudgetInv' /\ DataInv'
  BY Unpaid DEF Adds, Inv, DataInv
<1>7. SupplyInv'
  BY <1>5 DEF SupplyInv
<1>8. QED
  BY <1>3, <1>6, <1>7

LEMMA LooseAdded ==
    ASSUME Inv, Active("make") \/ Active("bare"), Adds
    PROVE  /\ What \cap cluster # {} => Loose' \subseteq Loose
           /\ What \cap LabelledLate = {} \/ Active("make") => Loose' \subseteq Loose
           /\ \A r : What = {r} => Loose' \subseteq Loose \cup {r}
<1>1. /\ Head(run.todo) \in Steps /\ Head(run.todo).op \in {"make", "bare"}
      /\ What = Head(run.todo).what /\ run.todo # <<>> /\ run.result = "running"
  BY CreateFacts
<1>2. labelled \subseteq cluster /\ labelled \subseteq labelled' /\ cluster' = cluster \cup What
  BY DEF Inv, ClusterInv, Adds
<1>3. Loose' \subseteq Loose \cup ((What \cap LabelledLate \cap (cluster' \ cluster)) \ labelled')
  BY <1>2 DEF Loose
<1>4. Active("make") => What \ cluster \subseteq labelled'
  BY DEF Adds
<1>5. Active("make") \/ What \cap LabelledLate = {} \/ \E r : What = {r}
  BY <1>1, MakesKnown DEF Active
<1>6. QED
  BY <1>2, <1>3, <1>4, <1>5

LEMMA ExistsKeeps ==
    ASSUME Inv, Active("make") \/ Active("bare"), Adds, What \cap cluster # {}, Over("exists")
    PROVE  Inv'
<1>1. PICK t : t = Tail(run.todo)
  OBVIOUS
<1>2. /\ run.cmd = "deploy" /\ run.result = "running" /\ Plan(t) /\ ~Active("label")
      /\ Head(run.todo).op \in {"make", "bare"} /\ Range(run.todo) = {Head(run.todo)} \cup Range(t)
      /\ Open(run.todo) = What \cup Open(t) /\ What \cap Made(t) = {}
  BY <1>1, CreateFacts
<1>3. Ends("exists")
  BY <1>2, Ending DEF Inv
<1>4. ClusterInv' /\ SupplyInv' /\ BudgetInv' /\ DataInv'
  BY AddKeeps
<1>5. LooseInv'
  <2>1. Loose' \subseteq Loose
    BY LooseAdded
  <2>2. budget'["stop"] <= budget["stop"]
    BY Unpaid DEF Adds, Inv
  <2>3. QED
    BY <1>2, <1>4, <2>1, <2>2, NoLooser DEF Inv
<1>6. ~(run.cont /\ ~run.k /\ run.slate /\ ~run.blind)
  <2>1. SUFFICES ASSUME run.cont, ~run.k, run.slate, ~run.blind PROVE FALSE
    OBVIOUS
  <2>2. PICK r \in What : r \in cluster
    OBVIOUS
  <2>3. Command("replace", {r}) \in Range(run.todo)
    BY <1>2, <2>1, <2>2 DEF Inv, SlateInv, During
  <2>4. Command("replace", {r}) \in Range(t)
    BY <1>2, <2>3 DEF Command
  <2>5. Command("replace", {r}) \in Steps \cup Groups
    BY <1>2, <2>4, InRange DEF Plan
  <2>6. Command("replace", {r}) \in Steps
    BY <2>5, GroupKinds DEF Command
  <2>7. PICK n \in Configured : r = Configmap(n)
    BY <2>6, StepKinds DEF Command, Configmaps
  <2>8. r \in Made(t)
    BY <1>2, <2>4, <2>7, ReplaceMakes, MadeOf
  <2>9. QED
    BY <1>2, <2>2, <2>8
<1>7. QED
  BY <1>2, <1>3, <1>4, <1>5, <1>6, EndParts

LEMMA MadeKeeps ==
    ASSUME Inv, Active("make") \/ Active("bare"), Adds, What \cap cluster = {}, GoesOn(Rest)
    PROVE  Inv'
<1>1. PICK t : t = Tail(run.todo)
  OBVIOUS
<1>2. PICK c : c = Head(run.todo)
  OBVIOUS
<1>3. /\ run.cmd = "deploy" /\ run.result = "running" /\ Plan(t) /\ ~Active("label")
      /\ c.op \in {"make", "bare"} /\ Range(run.todo) = {c} \cup Range(t) /\ c \in Steps
      /\ Open(run.todo) = What \cup Open(t) /\ What \cap Made(t) = {} /\ t \in Seq(Commands)
      /\ Made(run.todo) = What \cup Made(t) /\ t # <<>> /\ Link(c, Head(t))
      /\ What = c.what /\ t \in Seq(Steps \cup Groups) /\ run.todo # <<>>
  BY <1>1, <1>2, CreateFacts
<1>4. Turns(t)
  BY <1>1, <1>3, Turning DEF Inv, Rest
<1>5. ClusterInv' /\ SupplyInv' /\ BudgetInv' /\ DataInv'
  BY AddKeeps
<1>6. cluster' = cluster \cup What /\ labelled \subseteq labelled' /\ labelled \subseteq cluster
  BY DEF Adds, Inv, ClusterInv
<1>7. Head(t) \in Range(t)
  BY <1>3, TailOf
<1>8. What \cap LabelledLate # {} =>
          /\ c.op = "bare" /\ Head(t) = Command("label", What)
          /\ \E r \in LabelledLate : What = {r}
  <2>1. SUFFICES ASSUME What \cap LabelledLate # {}
                 PROVE  /\ c.op = "bare" /\ Head(t) = Command("label", What)
                        /\ \E r \in LabelledLate : What = {r}
    OBVIOUS
  <2>2. c.op = "bare" /\ \E r \in LabelledLate : What = {r}
    BY <1>3, <2>1, MakesKnown
  <2>3. <<"clusterrolebinding", "admin">> \notin LabelledLate
    BY DEF LabelledLate, Configmaps, Configmap
  <2>4. Pending(c)
    BY <1>3, <2>2, <2>3 DEF Pending
  <2>5. QED
    BY <1>3, <2>2, <2>4 DEF Link
<1>9. LooseInv'
  <2>1. CASE What \cap LabelledLate = {} \/ Active("make")
    <3>1. Loose' \subseteq Loose
      BY <2>1, LooseAdded
    <3>2. budget'["stop"] <= budget["stop"]
      BY Unpaid DEF Adds, Inv
    <3>3. QED
      BY <1>3, <1>5, <3>1, <3>2, NoLooser DEF Inv
  <2>2. CASE ~(What \cap LabelledLate = {} \/ Active("make"))
    <3>1. PICK r : What = {r} /\ Loose' \subseteq Loose \cup {r}
      BY <1>8, <2>2, LooseAdded
    <3>2. Active("label")'
      <4>1. Head(t).op = "label"
        BY <1>8, <2>2 DEF Command
      <4>2. QED
        BY <1>3, <1>4, <4>1 DEF Active, Turns
    <3>3. /\ Cardinality(Loose) \in Nat /\ IsFiniteSet(Loose \cup {r})
          /\ Cardinality(Loose \cup {r}) <= Cardinality(Loose) + 1
      <4>1. IsFiniteSet(Loose) /\ Cardinality(Loose) \in Nat
        BY LooseFinite
      <4>2. /\ IsFiniteSet(Loose \cup {r})
            /\ Cardinality(Loose \cup {r})
                 = IF r \in Loose THEN Cardinality(Loose) ELSE Cardinality(Loose) + 1
        BY <4>1, FS_AddElement
      <4>3. QED
        BY <4>1, <4>2
    <3>4. /\ Cardinality(Loose') <= Cardinality(Loose \cup {r}) /\ Cardinality(Loose') \in Nat
          /\ Cardinality(Loose \cup {r}) \in Nat
      BY <3>1, <3>3, FS_Subset, FS_CardinalityType
    <3>5. MaxStops \in Nat /\ budget["stop"] \in Nat /\ budget'["stop"] = budget["stop"]
      BY ConstantsOK, Unpaid DEF Kinds, Limit, Adds, Inv
    <3>6. Cardinality(Loose) <= MaxStops - budget["stop"]
      BY <1>3, <3>3, <3>5 DEF Inv, LooseInv
    <3>7. Cardinality(Loose') <= MaxStops - budget'["stop"] + 1
      BY <3>3, <3>4, <3>5, <3>6
    <3>8. QED
      BY <3>2, <3>7 DEF LooseInv
  <2>3. QED
    BY <2>1, <2>2
<1>10. ProgressInv'
  BY <1>3, <1>4, <1>6, Progressing DEF Adds
<1>11. \A n : c # Label("configmap", n) /\ \A w : c # Command("replace", w)
  BY <1>3 DEF Label, Command
<1>12. ASSUME NEW n \in Configured, Make("deployment", n) \in Range(t)
       PROVE  \/ Configmap(n) \in Open(t)
              \/ /\ Configmap(n) \in cluster'
                 /\ Configmap(n) \in labelled' \/ Label("configmap", n) \in Range(t)
  <2>1. CASE Configmap(n) \in What
    <3>1. Configmap(n) \in LabelledLate
      BY DEF LabelledLate, Configmaps
    <3>2. Head(t) = Command("label", What) /\ What = {Configmap(n)}
      BY <1>8, <2>1, <3>1
    <3>3. Head(t) = Label("configmap", n)
      BY <3>2 DEF Label, Configmap
    <3>4. QED
      BY <1>6, <1>7, <2>1, <3>3
  <2>2. CASE Configmap(n) \notin What
    <3>1. Make("deployment", n) \in Range(run.todo)
      BY <1>3, <1>12
    <3>2. \/ Configmap(n) \in Open(run.todo)
          \/ /\ Configmap(n) \in cluster
             /\ Configmap(n) \in labelled \/ Label("configmap", n) \in Range(run.todo)
      BY <1>3, <3>1 DEF Inv, DeployInv, During
    <3>3. QED
      BY <1>3, <1>6, <1>11, <2>2, <3>2
  <2>3. QED
    BY <2>1, <2>2
<1>13. ASSUME DevClaim \notin Made(t), NEW n \in DOMAIN Supplies, Deployment(n) \in Made(t)
       PROVE  Deployment(n) \notin cluster'
  <2>1. Deployment(n) \notin What
    BY <1>3, <1>13
  <2>2. CASE DevClaim \in What
    BY <1>6, <2>1, <2>2 DEF Inv, SupplyInv
  <2>3. CASE DevClaim \notin What
    <3>1. DevClaim \notin Made(run.todo) /\ Deployment(n) \in Made(run.todo)
      BY <1>3, <1>13, <2>3
    <3>2. Deployment(n) \notin cluster
      BY <1>3, <3>1 DEF Inv, DeployInv, During
    <3>3. QED
      BY <1>6, <2>1, <3>2
  <2>4. QED
    BY <2>2, <2>3
<1>14. ASSUME NEW n \in DOMAIN Supplies, Deployment(n) \in Open(t)
       PROVE  Deployment(n) \notin cluster'
  <2>1. Deployment(n) \notin What
    BY <1>3, <1>14, MadeOf
  <2>2. Deployment(n) \notin cluster
    BY <1>3, <1>14 DEF Inv, DeployInv, During
  <2>3. QED
    BY <1>6, <2>1, <2>2
<1>15. ASSUME Head(t).op = "label" PROVE Head(t).what \subseteq cluster' \ labelled'
  <2>1. c = Command("bare", Head(t).what)
    BY <1>3, <1>15 DEF Link
  <2>2. c.op = "bare" /\ Head(t).what = What
    BY <1>3, <2>1 DEF Command
  <2>3. labelled' = labelled
    BY <1>2, <2>2 DEF Adds, Active
  <2>4. QED
    BY <1>6, <2>2, <2>3
<1>16. ASSUME ~run'.blind, run.cont, ~run.k, run.slate
       PROVE  /\ \A d \in Range(t) : d.op = "unless" => d.what # Minikube
              /\ \A r \in Open(t) :
                    r \in Whole /\ (r \in cluster' => Command("replace", {r}) \in Range(t))
  <2>1. ~run.blind
    BY <1>4, <1>16 DEF Turns
  <2>2. /\ \A d \in Range(run.todo) : d.op = "unless" => d.what # Minikube
        /\ \A r \in Open(run.todo) :
              r \in Whole /\ (r \in cluster => Command("replace", {r}) \in Range(run.todo))
    BY <1>3, <1>16, <2>1 DEF Inv, SlateInv, During
  <2>3. \A r \in Open(t) : r \notin What
    BY <1>3, MadeOf
  <2>4. QED
    BY <1>3, <1>6, <1>11, <2>2, <2>3
<1>17. QED
  BY <1>3, <1>4, <1>5, <1>9, <1>10, <1>12, <1>13, <1>14, <1>15, <1>16, TurnParts

LEMMA CreateKeeps == ASSUME Inv, Create PROVE Inv'
<1>1. /\ Active("make") \/ Active("bare")
      /\ IF Minikube \in cluster
         THEN /\ cluster' = cluster \cup What
              /\ labelled' = IF Active("make") THEN labelled \cup (What \ cluster) ELSE labelled
              /\ IF What \cap cluster = {} THEN GoesOn(Rest) ELSE Over("exists")
         ELSE Over("failed") /\ UNCHANGED <<cluster, labelled>>
      /\ UNCHANGED <<foreign, data, budget>>
  BY DEF Create
<1>2. CASE Minikube \in cluster
  <2>1. Adds
    BY <1>1, <1>2 DEF Adds
  <2>2. QED
    BY <1>1, <1>2, <2>1, ExistsKeeps, MadeKeeps
<1>3. CASE Minikube \notin cluster
  <2>1. Ends("failed")
    BY <1>1, <1>3, CreateFacts, Ending DEF Inv
  <2>2. ClusterInv' /\ SupplyInv' /\ Loose' = Loose
    BY <1>1, <1>3, Same
  <2>3. BudgetInv' /\ DataInv' /\ budget'["stop"] <= budget["stop"]
    BY <1>1, Unpaid DEF Inv, DataInv
  <2>4. LooseInv'
    BY <1>1, <2>2, <2>3, CreateFacts, NoLooser DEF Inv
  <2>5. QED
    BY <2>1, <2>2, <2>3, <2>4, EndParts
<1>4. QED
  BY <1>2, <1>3
------------------------------------------------------------------------------
(* Commands that make nothing: labels, what may be repeated, the deletion   *)
(* of an old configmap, and the set-up of Girder.                           *)

LEMMA QuietFacts ==
    ASSUME Inv, NEW op \in {"label", "replace", "ensure", "setup"}, Active(op)
    PROVE  /\ run.cmd = "deploy" /\ run.result = "running" /\ Plan(run.todo) /\ run.todo # <<>>
           /\ Head(run.todo) \in Steps /\ Head(run.todo).op = op /\ What = Head(run.todo).what
           /\ Tail(run.todo) \in Seq(Steps \cup Groups) /\ Tail(run.todo) \in Seq(Commands)
           /\ Range(run.todo) = {Head(run.todo)} \cup Range(Tail(run.todo))
           /\ Made(run.todo) = Made(Tail(run.todo)) /\ Open(run.todo) = Open(Tail(run.todo))
           /\ op # "label" => ~Active("label")
<1>1. /\ run.cmd = "deploy" /\ run.result = "running" /\ Plan(run.todo) /\ run.todo # <<>>
      /\ run.todo \in Seq(Steps \cup Groups)
      /\ Head(run.todo) \in Steps \cup Groups /\ Head(run.todo).op = op
      /\ Tail(run.todo) \in Seq(Steps \cup Groups) /\ Tail(run.todo) \in Seq(Commands)
      /\ Range(run.todo) = {Head(run.todo)} \cup Range(Tail(run.todo))
  BY OfDeploy
<1>2. Head(run.todo) \in Steps
  BY <1>1, PlannedKinds
<1>3. Creates(Head(run.todo)) = {} /\ Direct(Head(run.todo)) = {}
  BY <1>1 DEF Creates, Direct
<1>4. /\ Made(run.todo) = Creates(Head(run.todo)) \cup Made(Tail(run.todo))
      /\ Open(run.todo) = Direct(Head(run.todo)) \cup Open(Tail(run.todo))
  BY <1>1, MadeTail
<1>5. QED
  BY <1>1, <1>2, <1>3, <1>4 DEF Active, What

LEMMA QuietKeeps ==
    ASSUME Inv, NEW op \in {"label", "replace", "ensure", "setup"}, Active(op),
           Tail(run.todo) # <<>>, Turns(Tail(run.todo)),
           BudgetInv', DataInv', ClusterInv', SupplyInv', LooseInv', UNCHANGED foreign,
           cluster' \ Foundation \subseteq cluster,
           \A r \in cluster : r \in cluster' \/ r \in Open(run.todo),
           \A r \in labelled : r \in labelled' \/ r \in Open(run.todo),
           op = "label" => What \subseteq labelled' /\ labelled' \subseteq cluster',
           op = "replace" => run'.blind \/ What \cap cluster' = {}
    PROVE  Inv'
<1>1. PICK t : t = Tail(run.todo)
  OBVIOUS
<1>2. PICK c : c = Head(run.todo)
  OBVIOUS
<1>3. /\ run.cmd = "deploy" /\ run.result = "running" /\ Plan(run.todo) /\ run.todo # <<>>
      /\ c \in Steps /\ c.op = op /\ What = c.what /\ t \in Seq(Steps \cup Groups)
      /\ Range(run.todo) = {c} \cup Range(t)
      /\ Made(run.todo) = Made(t) /\ Open(run.todo) = Open(t)
  BY <1>1, <1>2, QuietFacts
<1>4. Turns(t) /\ t # <<>> /\ Plan(t) /\ Link(c, Head(t))
  BY <1>1, <1>2, <1>3, PlanTail
<1>5. Whole \cap Foundation = {} /\ (\A n \in DOMAIN Supplies : Deployment(n) \in Whole)
  <2>1. \A r \in Foundation : r \notin Whole
    BY DEF Whole, Foundation, Extras, Plugin, Minikube, Supplies
  <2>2. \A n \in DOMAIN Supplies : Deployment(n) \in Whole
    BY DEF Whole, Deployment
  <2>3. QED
    BY <2>1, <2>2
<1>6. ProgressInv'
  <2>1. cluster \cup Made(run.todo) \subseteq cluster' \cup Made(t)
    BY <1>3, MadeOf
  <2>2. QED
    BY <1>3, <1>4, <2>1, Progressing
<1>7. ASSUME NEW n \in Configured, Make("deployment", n) \in Range(t)
      PROVE  \/ Configmap(n) \in Open(t)
             \/ /\ Configmap(n) \in cluster'
                /\ Configmap(n) \in labelled' \/ Label("configmap", n) \in Range(t)
  <2>1. Make("deployment", n) \in Range(run.todo)
    BY <1>3, <1>7
  <2>2. \/ Configmap(n) \in Open(run.todo)
        \/ /\ Configmap(n) \in cluster
           /\ Configmap(n) \in labelled \/ Label("configmap", n) \in Range(run.todo)
    BY <1>3, <2>1 DEF Inv, DeployInv, During
  <2>3. c = Label("configmap", n) => Configmap(n) \in labelled' /\ Configmap(n) \in cluster'
    BY <1>3 DEF Label, Command, Configmap
  <2>4. QED
    BY <1>3, <2>2, <2>3
<1>8. ASSUME DevClaim \notin Made(t), NEW n \in DOMAIN Supplies, Deployment(n) \in Made(t)
      PROVE  Deployment(n) \notin cluster'
  <2>1. Deployment(n) \notin cluster
    BY <1>3, <1>8 DEF Inv, DeployInv, During
  <2>2. QED
    BY <1>5, <2>1
<1>9. ASSUME NEW n \in DOMAIN Supplies, Deployment(n) \in Open(t)
      PROVE  Deployment(n) \notin cluster'
  <2>1. Deployment(n) \notin cluster
    BY <1>3, <1>9 DEF Inv, DeployInv, During
  <2>2. QED
    BY <1>5, <2>1
<1>10. Head(t).op # "label"
  BY <1>3, <1>4 DEF Link, Command
<1>11. ASSUME ~run'.blind, run.cont, ~run.k, run.slate
       PROVE  /\ \A d \in Range(t) : d.op = "unless" => d.what # Minikube
              /\ \A r \in Open(t) :
                    r \in Whole /\ (r \in cluster' => Command("replace", {r}) \in Range(t))
  <2>1. ~run.blind
    BY <1>4, <1>11 DEF Turns
  <2>2. /\ \A d \in Range(run.todo) : d.op = "unless" => d.what # Minikube
        /\ \A r \in Open(run.todo) :
              r \in Whole /\ (r \in cluster => Command("replace", {r}) \in Range(run.todo))
    BY <1>3, <1>11, <2>1 DEF Inv, SlateInv, During
  <2>3. ASSUME NEW r \in Open(t), r \in cluster'
        PROVE  Command("replace", {r}) \in Range(t)
    <3>1. Command("replace", {r}) \in Range(run.todo)
      BY <1>3, <1>5, <2>2, <2>3
    <3>2. c # Command("replace", {r})
      <4>1. c = Command("replace", {r}) => op = "replace" /\ What = {r}
        BY <1>3 DEF Command
      <4>2. QED
        BY <1>11, <2>3, <4>1
    <3>3. QED
      BY <1>3, <3>1, <3>2
  <2>4. QED
    BY <1>3, <2>2, <2>3
<1>12. QED
  BY <1>3, <1>4, <1>6, <1>7, <1>8, <1>9, <1>10, <1>11, TurnParts

(* All but the last command goes on to another. *)
LEMMA QuietTurns ==
    ASSUME Inv, NEW op \in {"label", "replace", "ensure"}, Active(op),
           GoesOn(Rest) \/ run' = [run EXCEPT !.todo = Rest, !.blind = TRUE]
    PROVE  Tail(run.todo) # <<>> /\ Turns(Tail(run.todo))
<1>1. /\ run.result = "running" /\ Tail(run.todo) \in Seq(Commands) /\ Tail(run.todo) # <<>>
  BY OfDeploy
<1>2. QED
  BY <1>1, Turning DEF Inv, Rest

LEMMA LabelKeeps == ASSUME Inv, LabelIt PROVE Inv'
<1>1. Active("label") /\ UNCHANGED <<cluster, foreign, data, budget>>
  BY DEF LabelIt
<1>2. /\ run.cmd = "deploy" /\ run.result = "running" /\ Head(run.todo) \in Steps
      /\ Head(run.todo).op = "label" /\ What = Head(run.todo).what
  BY <1>1, QuietFacts
<1>3. What \subseteq cluster \ labelled
  BY <1>2 DEF Inv, DeployInv, During
<1>4. labelled' = labelled \cup What /\ GoesOn(Rest)
  BY <1>3 DEF LabelIt
<1>5. Tail(run.todo) # <<>> /\ Turns(Tail(run.todo))
  BY <1>1, <1>4, QuietTurns
<1>6. PICK r \in LabelledLate : What = {r}
  BY <1>2, StepKinds
<1>7. ClusterInv' /\ SupplyInv' /\ DataInv'
  BY <1>1, <1>3, <1>4 DEF Inv, ClusterInv, SupplyInv, DataInv
<1>8. BudgetInv' /\ budget'["stop"] = budget["stop"] /\ budget["stop"] \in Nat
  BY <1>1, Unpaid DEF Inv
<1>9. LooseInv'
  <2>1. Loose' = Loose \ {r} /\ r \in Loose
    BY <1>1, <1>3, <1>4, <1>6 DEF Loose
  <2>2. IsFiniteSet(Loose) /\ Cardinality(Loose) \in Nat
    BY LooseFinite
  <2>3. Cardinality(Loose') = Cardinality(Loose) - 1
    BY <2>1, <2>2, FS_RemoveElement
  <2>4. MaxStops \in Nat
    BY ConstantsOK DEF Kinds, Limit
  <2>5. Cardinality(Loose) <= MaxStops - budget["stop"] + 1
    BY <1>1 DEF Inv, LooseInv
  <2>6. Cardinality(Loose') <= MaxStops - budget'["stop"]
    BY <1>8, <2>2, <2>3, <2>4, <2>5
  <2>7. QED
    BY <1>8, <2>2, <2>3, <2>4, <2>6 DEF LooseInv
<1>10. cluster' \ Foundation \subseteq cluster /\ labelled \subseteq labelled'
  BY <1>1, <1>4
<1>11. labelled' \subseteq cluster'
  BY <1>7 DEF ClusterInv
<1>12. QED
  BY <1>1, <1>4, <1>5, <1>7, <1>8, <1>9, <1>10, <1>11, QuietKeeps

LEMMA EnsureKeeps == ASSUME Inv, Ensure PROVE Inv'
<1>1. /\ Active("ensure") /\ UNCHANGED <<labelled, foreign, data, budget>>
      /\ cluster' = cluster \cup What /\ GoesOn(Rest)
  BY DEF Ensure
<1>2. /\ Head(run.todo) \in Steps /\ Head(run.todo).op = "ensure"
      /\ What = Head(run.todo).what /\ ~Active("label")
  BY <1>1, QuietFacts
<1>3. Tail(run.todo) # <<>> /\ Turns(Tail(run.todo))
  BY <1>1, QuietTurns
<1>4. What \subseteq Foundation
  BY <1>2, StepKinds
<1>5. ClusterInv' /\ DataInv'
  BY <1>1, <1>4 DEF Inv, ClusterInv, DataInv
<1>6. SupplyInv'
  <2>1. \A n : Deployment(n) \notin Foundation
    BY DEF Deployment, Foundation, Extras, Plugin, Minikube
  <2>2. QED
    BY <1>1, <1>4, <2>1 DEF Inv, SupplyInv
<1>7. BudgetInv' /\ budget'["stop"] <= budget["stop"]
  BY <1>1, Unpaid DEF Inv
<1>8. LooseInv'
  <2>1. LabelledLate \cap Foundation = {}
    BY DEF Foundation, Extras, Plugin, Minikube, LabelledLate, Configmaps, Configured, Configmap
  <2>2. Loose' \subseteq Loose
    BY <1>1, <1>4, <2>1 DEF Loose
  <2>3. QED
    BY <1>2, <1>7, <2>2, NoLooser DEF Inv
<1>9. cluster' \ Foundation \subseteq cluster /\ cluster \subseteq cluster'
  BY <1>1, <1>4
<1>10. QED
  BY <1>1, <1>3, <1>5, <1>6, <1>7, <1>8, <1>9, QuietKeeps

LEMMA ReplaceKeeps == ASSUME Inv, Replace PROVE Inv'
<1>1. Active("replace") /\ UNCHANGED <<foreign, data>>
  BY DEF Replace
<1>2. /\ run.cmd = "deploy" /\ run.result = "running" /\ Plan(run.todo) /\ run.todo # <<>>
      /\ Head(run.todo) \in Steps /\ Head(run.todo).op = "replace"
      /\ Range(run.todo) = {Head(run.todo)} \cup Range(Tail(run.todo))
      /\ What = Head(run.todo).what /\ ~Active("label")
  BY <1>1, QuietFacts
<1>3. PICK n \in Configured : What = {Configmap(n)} /\ Command("replace", What) = Head(run.todo)
  BY <1>2, StepKinds DEF Configmaps
<1>4. Configmap(n) \in Open(run.todo) /\ Bare("configmap", n) \in Range(run.todo)
  BY <1>2, <1>3, ReplaceMakes
<1>5. Deployment(n) \notin cluster
  <2>1. Deployment(n) \in Open(run.todo)
    BY <1>2, <1>4, ConfigmapUsed
  <2>2. n \in DOMAIN Supplies
    BY DEF Configured, Supplies
  <2>3. QED
    BY <1>2, <2>1, <2>2 DEF Inv, DeployInv, During
<1>6. CASE /\ What \subseteq cluster
           /\ cluster' = cluster \ What /\ labelled' = labelled \ What
           /\ GoesOn(Rest) /\ UNCHANGED budget
  <2>1. Tail(run.todo) # <<>> /\ Turns(Tail(run.todo))
    BY <1>1, <1>6, QuietTurns
  <2>2. ClusterInv' /\ DataInv'
    BY <1>1, <1>6 DEF Inv, ClusterInv, DataInv
  <2>3. SupplyInv'
    <3>1. \A m \in DOMAIN Supplies : m # n => Configmap(n) \notin Supplies[m]
      BY DEF Supplies, Configmap
    <3>2. \A m : Configmap(m) # DevClaim /\ Configmap(n) # Deployment(m)
      BY DEF Configmap, DevClaim, Deployment
    <3>3. \A m : Configmap(m) = Configmap(n) => m = n
      BY DEF Configmap
    <3>4. ASSUME NEW m \in DOMAIN Supplies, Deployment(m) \in cluster'
          PROVE  /\ DevClaim \in cluster' /\ Supplies[m] \ foreign' \subseteq cluster'
                 /\ m \in Configured => Configmap(m) \in labelled'
      <4>1. m # n /\ Deployment(m) \in cluster
        BY <1>5, <1>6, <3>4
      <4>2. /\ DevClaim \in cluster /\ Supplies[m] \ foreign \subseteq cluster
            /\ m \in Configured => Configmap(m) \in labelled
        BY <4>1 DEF Inv, SupplyInv
      <4>3. QED
        BY <1>1, <1>3, <1>6, <3>1, <3>2, <3>3, <4>1, <4>2
    <3>5. QED
      BY <3>4 DEF SupplyInv
  <2>4. BudgetInv' /\ budget'["stop"] <= budget["stop"]
    BY <1>6, Unpaid DEF Inv
  <2>5. LooseInv'
    <3>1. Loose' \subseteq Loose
      BY <1>6 DEF Loose
    <3>2. QED
      BY <1>2, <2>4, <3>1, NoLooser DEF Inv
  <2>6. /\ cluster' \ Foundation \subseteq cluster /\ What \cap cluster' = {}
        /\ \A r \in cluster : r \in cluster' \/ r \in Open(run.todo)
        /\ \A r \in labelled : r \in labelled' \/ r \in Open(run.todo)
    BY <1>3, <1>4, <1>6
  <2>7. QED
    BY <1>1, <2>1, <2>2, <2>3, <2>4, <2>5, <2>6, QuietKeeps
<1>7. ASSUME UNCHANGED <<cluster, labelled>>, BudgetInv', budget'["stop"] = budget["stop"]
      PROVE  /\ ClusterInv' /\ SupplyInv' /\ LooseInv' /\ DataInv'
  <2>1. ClusterInv' /\ SupplyInv' /\ Loose' = Loose
    BY <1>1, <1>7, Same
  <2>2. budget["stop"] \in Nat
    BY DEF Inv, BudgetInv, Kinds
  <2>3. LooseInv'
    BY <1>2, <1>7, <2>1, <2>2, NoLooser DEF Inv
  <2>4. QED
    BY <1>1, <2>1, <2>3 DEF Inv, DataInv
<1>8. CASE /\ What \cap (cluster \cup foreign) = {}
           /\ GoesOn(Rest) /\ UNCHANGED <<cluster, labelled, budget>>
  <2>1. Tail(run.todo) # <<>> /\ Turns(Tail(run.todo))
    BY <1>1, <1>8, QuietTurns
  <2>2. BudgetInv' /\ budget'["stop"] = budget["stop"]
    BY <1>8, Unpaid DEF Inv
  <2>3. What \cap cluster' = {} /\ cluster' \ Foundation \subseteq cluster
    BY <1>8
  <2>4. QED
    BY <1>1, <1>7, <1>8, <2>1, <2>2, <2>3, QuietKeeps
<1>9. CASE Over("failed") /\ UNCHANGED <<cluster, labelled, budget>>
  <2>1. Ends("failed")
    BY <1>2, <1>9, Ending DEF Inv
  <2>2. BudgetInv' /\ budget'["stop"] = budget["stop"]
    BY <1>9, Unpaid DEF Inv
  <2>3. QED
    BY <1>7, <1>9, <2>1, <2>2, EndParts
<1>10. CASE /\ Spend("blind") /\ run' = [run EXCEPT !.todo = Rest, !.blind = TRUE]
            /\ UNCHANGED <<cluster, labelled>>
  <2>1. Tail(run.todo) # <<>> /\ Turns(Tail(run.todo))
    BY <1>1, <1>10, QuietTurns
  <2>2. BudgetInv' /\ budget'["stop"] = budget["stop"]
    BY <1>10, Spent DEF Inv, Kinds
  <2>3. run'.blind
    BY <1>10 DEF Inv, RunInv, Runs
  <2>4. QED
    BY <1>1, <1>7, <1>10, <2>1, <2>2, <2>3, QuietKeeps
<1>11. QED
  BY <1>6, <1>8, <1>9, <1>10 DEF Replace

LEMMA SetUpKeeps == ASSUME Inv, SetUpGirder PROVE Inv'
<1>1. Active("setup") /\ UNCHANGED <<cluster, labelled, foreign, budget>>
  BY DEF SetUpGirder
<1>2. /\ run.cmd = "deploy" /\ run.result = "running" /\ Plan(run.todo) /\ run.todo # <<>>
      /\ Made(run.todo) = Made(Tail(run.todo)) /\ Tail(run.todo) \in Seq(Commands)
      /\ ~Active("label")
  BY <1>1, QuietFacts
<1>3. /\ ClusterInv' /\ SupplyInv' /\ BudgetInv' /\ LooseInv'
  <2>1. ClusterInv' /\ SupplyInv' /\ Loose' = Loose
    BY <1>1, Same
  <2>2. BudgetInv' /\ budget'["stop"] <= budget["stop"]
    BY <1>1, Unpaid DEF Inv
  <2>3. LooseInv'
    BY <1>2, <2>1, <2>2, NoLooser DEF Inv
  <2>4. QED
    BY <2>1, <2>2, <2>3
<1>4. data' \in {"fresh", "claimed", "ready"}
  BY DEF SetUpGirder, Inv, DataInv
<1>5. DataInv'
  BY <1>1, <1>4 DEF Inv, DataInv
<1>6. CASE data' = "ready" /\ GoesOn(Rest)
  <2>1. CASE Tail(run.todo) = <<>>
    <3>1. Ends("done")
      BY <1>2, <1>6, <2>1, Ending DEF Inv, Rest
    <3>2. /\ run' \in Runs /\ run'.todo = <<>> /\ run'.result = "done" /\ run'.cmd = "deploy"
      BY <1>2, <3>1 DEF Ends
    <3>3. RunInv' /\ DeployInv' /\ CleanInv' /\ SlateInv'
      BY <3>2 DEF RunInv, DeployInv, CleanInv, SlateInv, CleanSlate, During
    <3>4. Made(run.todo) = {} /\ Made(run'.todo) = {}
      BY <1>2, <2>1, <3>2, MadeEmpty
    <3>5. ProgressInv'
      <4>1. /\ \A r \in Whole \ Configmaps : r \in cluster \cup foreign \cup Made(run.todo)
            /\ DevClaim \in cluster \cup Made(run.todo)
            /\ \A n \in Configured : \/ Configmap(n) \in cluster \cup Made(run.todo)
                                     \/ Deployment(n) \in foreign
        BY <1>2 DEF Inv, ProgressInv, During
      <4>2. QED
        BY <1>1, <1>6, <3>4, <4>1 DEF ProgressInv
    <3>6. QED
      BY <1>3, <1>5, <3>3, <3>5 DEF Inv
  <2>2. CASE Tail(run.todo) # <<>>
    <3>1. Turns(Tail(run.todo))
      BY <1>2, <1>6, <2>2, Turning DEF Inv, Rest
    <3>2. cluster' \ Foundation \subseteq cluster
      BY <1>1
    <3>3. QED
      BY <1>1, <1>3, <1>5, <2>2, <3>1, <3>2, QuietKeeps
  <2>3. QED
    BY <2>1, <2>2
<1>7. CASE Over("failed")
  <2>1. Ends("failed")
    BY <1>2, <1>7, Ending DEF Inv
  <2>2. QED
    BY <1>3, <1>5, <2>1, EndParts
<1>8. QED
  BY <1>6, <1>7 DEF SetUpGirder
------------------------------------------------------------------------------
(* clean.sh *)

(* What goes, when resources of one kind are deleted by their label. *)
Goes(gone) ==
    /\ gone \subseteq OfKind /\ cluster' = cluster \ gone /\ labelled' = labelled \ gone
    /\ UNCHANGED <<foreign, data>>

LEMMA GoneKeeps ==
    ASSUME Inv, Active("delete"), NEW gone, Goes(gone)
    PROVE  ClusterInv' /\ SupplyInv' /\ DataInv' /\ Loose' \subseteq Loose
<1>1. ClusterInv' /\ DataInv' /\ Loose' \subseteq Loose
  BY DEF Goes, OfKind, Inv, ClusterInv, DataInv, Loose
<1>2. PICK t : t = Tail(run.todo)
  OBVIOUS
<1>3. PICK c : c = Head(run.todo)
  OBVIOUS
<1>4. /\ run.cmd = "clean" /\ run.result = "running" /\ run.todo # <<>>
      /\ run.todo \in Seq(CleanCommands) /\ c.op = "delete" /\ c \in CleanCommands
      /\ Range(run.todo) = {c} \cup Range(t) /\ What = c.what
  BY <1>2, <1>3, OfClean DEF What
<1>5. PICK kind \in CleanKinds : c = Delete(kind) /\ What = {kind}
  BY <1>4, CleanKindsOf
<1>6. \A r \in gone : r[1] = kind
  BY <1>5 DEF Goes, OfKind
<1>7. CASE kind = "deployment"
  <2>1. ASSUME NEW n \in DOMAIN Supplies
        PROVE  /\ DevClaim[1] # "deployment" /\ Configmap(n)[1] # "deployment"
               /\ \A r \in Supplies[n] : r[1] # "deployment"
    BY DEF DevClaim, Configmap, Supplies
  <2>2. QED
    BY <1>1, <1>6, <1>7, <2>1 DEF Goes, Inv, SupplyInv
<1>8. CASE kind # "deployment"
  <2>1. c # Delete("deployment")
    BY <1>5, <1>8 DEF Delete, Command
  <2>2. Delete("deployment") \notin Range(run.todo)
    <3>1. SUFFICES ASSUME Delete("deployment") \in Range(run.todo) PROVE FALSE
      OBVIOUS
    <3>2. PICK i \in 1..Len(run.todo) : run.todo[i] = Delete("deployment")
      BY <1>4, <3>1, InRange
    <3>3. run.todo[1] = c /\ Len(run.todo) \in Nat
      BY <1>3, <1>4, TailOf
    <3>4. i \in 2..Len(run.todo)
      BY <2>1, <3>2, <3>3
    <3>5. QED
      BY <1>4, <3>2, <3>4 DEF Inv, CleanInv, During
  <2>3. \A n : Deployment(n) \notin labelled
    <3>1. \A n : Deployment(n)[1] = "deployment" /\ "deployment" \in CleanKinds
      BY DEF Deployment, CleanKinds
    <3>2. QED
      BY <1>4, <2>2, <3>1 DEF Inv, CleanInv, During
  <2>4. \A n : Deployment(n) \notin LabelledLate \cup Foundation
    BY DEF Deployment, LabelledLate, Configmaps, Configmap, Foundation, Extras, Plugin, Minikube
  <2>5. \A n : Deployment(n) \notin cluster
    BY <2>3, <2>4 DEF Inv, ClusterInv
  <2>6. \A n \in DOMAIN Supplies : Deployment(n) \notin cluster'
    BY <2>5 DEF Goes
  <2>7. SupplyInv'
    BY <2>6 DEF SupplyInv
  <2>8. QED
    BY <1>1, <2>7
<1>9. QED
  BY <1>1, <1>7, <1>8

(* A command of clean.sh that goes through. *)
LEMMA CleanTurn ==
    ASSUME Inv, NEW op \in {"delete", "wipe", "destroy"}, Active(op), GoesOn(Rest)
    PROVE  /\ RunInv' /\ run'.cmd = "clean" /\ run'.todo = Tail(run.todo) /\ run'.k = run.k
           /\ run'.result \in {"running", "done"}
           /\ run'.todo \in Seq(CleanCommands)
           /\ \A i \in 2..Len(run'.todo) : run'.todo[i] # Delete("deployment")
           /\ ~Active("label") /\ run.result = "running"
<1>1. PICK t : t = Tail(run.todo)
  OBVIOUS
<1>2. /\ run.cmd = "clean" /\ run.result = "running" /\ run.todo # <<>>
      /\ run.todo \in Seq(CleanCommands) /\ t \in Seq(CleanCommands)
      /\ t \in Seq(Commands) /\ Head(run.todo).op = op
  BY <1>1, OfClean
<1>3. \/ t # <<>> /\ Turns(t)
      \/ t = <<>> /\ Ends("done")
  <2>1. CASE t = <<>>
    BY <1>1, <1>2, <2>1, Ending DEF Inv, Rest
  <2>2. CASE t # <<>>
    BY <1>1, <1>2, <2>2, Turning DEF Inv, Rest
  <2>3. QED
    BY <2>1, <2>2
<1>4. /\ run' \in Runs /\ run'.todo = t /\ run'.cmd = "clean" /\ run'.k = run.k
      /\ run'.result \in {"running", "done"} /\ (run'.result = "running" <=> t # <<>>)
  BY <1>2, <1>3 DEF Turns, Ends
<1>5. \A i \in 2..Len(t) : t[i] # Delete("deployment")
  <2>1. /\ Len(run.todo) \in Nat \ {0} /\ Len(t) = Len(run.todo) - 1
        /\ \A i \in 1..(Len(run.todo) - 1) : t[i] = run.todo[i + 1]
    BY <1>1, <1>2, TailOf
  <2>2. \A i \in 2..Len(run.todo) : run.todo[i] # Delete("deployment")
    BY <1>2 DEF Inv, CleanInv, During
  <2>3. QED
    BY <2>1, <2>2
<1>6. QED
  BY <1>1, <1>2, <1>4, <1>5 DEF RunInv, Active

(* What is left to show of it. *)
LEMMA CleanParts ==
    ASSUME Inv, NEW op \in {"delete", "wipe", "destroy"}, Active(op), GoesOn(Rest),
           UNCHANGED budget, ClusterInv', SupplyInv', DataInv', Loose' \subseteq Loose,
           \A r \in labelled' : r[1] \in CleanKinds => Delete(r[1]) \in Range(Tail(run.todo)),
           data' = "fresh" \/ Command("wipe", {}) \in Range(Tail(run.todo)),
           run.k => cluster' = {} \/ Command("destroy", {}) \in Range(Tail(run.todo))
    PROVE  Inv'
<1>1. /\ RunInv' /\ run'.cmd = "clean" /\ run'.todo = Tail(run.todo) /\ run'.k = run.k
      /\ run'.result \in {"running", "done"}
      /\ run'.todo \in Seq(CleanCommands)
      /\ \A i \in 2..Len(run'.todo) : run'.todo[i] # Delete("deployment")
      /\ ~Active("label")
  BY CleanTurn
<1>2. CleanInv'
  BY <1>1 DEF CleanInv, During
<1>3. ProgressInv' /\ DeployInv' /\ SlateInv'
  BY <1>1 DEF ProgressInv, DeployInv, SlateInv, CleanSlate, During
<1>4. BudgetInv' /\ budget'["stop"] <= budget["stop"]
  BY Unpaid DEF Inv
<1>5. LooseInv'
  BY <1>1, <1>4, NoLooser DEF Inv
<1>6. QED
  BY <1>1, <1>2, <1>3, <1>4, <1>5 DEF Inv

LEMMA CleanFacts ==
    ASSUME Inv, NEW op \in {"delete", "wipe", "destroy"}, Active(op)
    PROVE  /\ \A r \in labelled : r[1] \in CleanKinds => Delete(r[1]) \in Range(run.todo)
           /\ data = "fresh" \/ Command("wipe", {}) \in Range(run.todo)
           /\ run.k => cluster = {} \/ Command("destroy", {}) \in Range(run.todo)
<1>1. run.cmd = "clean" /\ run.result = "running"
  BY OfClean
<1>2. QED
  BY <1>1 DEF Inv, CleanInv, During

LEMMA DeleteKeeps == ASSUME Inv, DeleteByLabel PROVE Inv'
<1>1. Active("delete") /\ UNCHANGED <<foreign, data, budget>>
  BY DEF DeleteByLabel
<1>2. PICK c : c = Head(run.todo)
  OBVIOUS
<1>3. /\ run.result = "running" /\ Range(run.todo) = {c} \cup Range(Tail(run.todo))
      /\ c.op = "delete" /\ c \in CleanCommands /\ What = c.what
  BY <1>1, <1>2, OfClean DEF What
<1>4. PICK kind \in CleanKinds : c = Delete(kind) /\ What = {kind}
  BY <1>3, CleanKindsOf
<1>5. CASE /\ cluster' = cluster \ OfKind /\ labelled' = labelled \ OfKind /\ GoesOn(Rest)
  <2>1. Goes(OfKind)
    BY <1>1, <1>5 DEF Goes
  <2>2. ClusterInv' /\ SupplyInv' /\ DataInv' /\ Loose' \subseteq Loose
    BY <1>1, <2>1, GoneKeeps
  <2>3. ASSUME NEW r \in labelled', r[1] \in CleanKinds
        PROVE  Delete(r[1]) \in Range(Tail(run.todo))
    <3>1. r \in labelled /\ r[1] # kind
      BY <1>4, <1>5, <2>3 DEF OfKind
    <3>2. Delete(r[1]) \in Range(run.todo)
      BY <1>1, <2>3, <3>1, CleanFacts
    <3>3. Delete(r[1]) # c
      <4>1. \A x, y : Delete(x) = Delete(y) => {x} = {y}
        BY DEF Delete, Command
      <4>2. QED
        BY <1>4, <3>1, <4>1
    <3>4. QED
      BY <1>3, <3>2, <3>3
  <2>4. c # Command("wipe", {}) /\ c # Command("destroy", {})
    BY <1>3 DEF Command
  <2>5. data' = "fresh" \/ Command("wipe", {}) \in Range(Tail(run.todo))
    BY <1>1, <1>3, <2>4, CleanFacts
  <2>6. run.k => cluster' = {} \/ Command("destroy", {}) \in Range(Tail(run.todo))
    BY <1>1, <1>3, <1>5, <2>4, CleanFacts
  <2>7. QED
    BY <1>1, <1>5, <2>2, <2>3, <2>5, <2>6, CleanParts
<1>6. CASE Over("failed") /\ UNCHANGED <<cluster, labelled>>
  <2>1. Ends("failed")
    BY <1>3, <1>6, Ending DEF Inv
  <2>2. ClusterInv' /\ SupplyInv' /\ Loose' = Loose
    BY <1>1, <1>6, Same
  <2>3. BudgetInv' /\ DataInv' /\ budget'["stop"] <= budget["stop"]
    BY <1>1, Unpaid DEF Inv, DataInv
  <2>4. ~Active("label")
    BY <1>2, <1>3 DEF Active
  <2>5. LooseInv'
    BY <2>2, <2>3, <2>4, NoLooser DEF Inv
  <2>6. QED
    BY <2>1, <2>2, <2>3, <2>5, EndParts
<1>7. QED
  BY <1>5, <1>6 DEF DeleteByLabel

LEMMA WipeKeeps == ASSUME Inv, Wipe PROVE Inv'
<1>1. (Active("wipe") \/ Active("destroy")) /\ GoesOn(Rest) /\ UNCHANGED budget
  BY DEF Wipe
<1>2. PICK c : c = Head(run.todo)
  OBVIOUS
<1>3. CASE Active("wipe")
  <2>1. /\ Range(run.todo) = {c} \cup Range(Tail(run.todo))
        /\ c.op = "wipe" /\ c \in CleanCommands
    BY <1>2, <1>3, OfClean
  <2>2. data' = "fresh" /\ UNCHANGED <<cluster, labelled, foreign>>
    BY <1>3 DEF Wipe
  <2>3. ClusterInv' /\ SupplyInv' /\ DataInv' /\ Loose' = Loose
    BY <2>2, Same DEF Inv, DataInv
  <2>4. (\A x : c # Delete(x)) /\ c # Command("destroy", {})
    BY <2>1 DEF Delete, Command
  <2>5. /\ \A r \in labelled' : r[1] \in CleanKinds => Delete(r[1]) \in Range(Tail(run.todo))
        /\ run.k => cluster' = {} \/ Command("destroy", {}) \in Range(Tail(run.todo))
    BY <1>3, <2>1, <2>2, <2>4, CleanFacts
  <2>6. QED
    BY <1>1, <1>3, <2>2, <2>3, <2>5, CleanParts
<1>4. CASE Active("destroy")
  <2>1. /\ Range(run.todo) = {c} \cup Range(Tail(run.todo))
        /\ c.op = "destroy" /\ c \in CleanCommands
    BY <1>2, <1>4, OfClean
  <2>2. ~Active("wipe")
    BY <1>2, <2>1 DEF Active
  <2>3. cluster' = {} /\ labelled' = {} /\ foreign' = {} /\ data' = data
    BY <2>2 DEF Wipe
  <2>4. ClusterInv' /\ SupplyInv' /\ DataInv' /\ Loose' \subseteq Loose
    BY <2>3 DEF Inv, ClusterInv, SupplyInv, DataInv, Loose
  <2>5. c # Command("wipe", {})
    BY <2>1 DEF Command
  <2>6. data' = "fresh" \/ Command("wipe", {}) \in Range(Tail(run.todo))
    BY <1>4, <2>1, <2>3, <2>5, CleanFacts
  <2>7. QED
    BY <1>1, <1>4, <2>3, <2>4, <2>6, CleanParts
<1>5. QED
  BY <1>1, <1>3, <1>4

LEMMA StopKeeps == ASSUME Inv, Stop PROVE Inv'
<1>1. run.result = "running" /\ Spend("stop") /\ Over("stopped") /\ UNCHANGED <<foreign, data>>
  BY DEF Stop
<1>2. Ends("stopped")
  BY <1>1, Ending DEF Inv
<1>3. ClusterInv' /\ SupplyInv' /\ DataInv' /\ Loose' \subseteq Loose
  <2>1. PICK gone :
           /\ cluster' = cluster \ gone /\ labelled' = labelled \ gone
           /\ gone \subseteq IF Active("delete") THEN OfKind
                            ELSE IF Active("destroy") THEN {Minikube} ELSE {}
    BY DEF Stop
  <2>2. CASE Active("delete")
    <3>1. Goes(gone)
      BY <1>1, <2>1, <2>2 DEF Goes
    <3>2. QED
      BY <2>2, <3>1, GoneKeeps
  <2>3. CASE ~Active("delete")
    <3>1. gone \subseteq {Minikube}
      BY <2>1, <2>3
    <3>2. /\ \A n : Deployment(n) # Minikube /\ Configmap(n) # Minikube
          /\ DevClaim # Minikube
          /\ \A n \in DOMAIN Supplies : Minikube \notin Supplies[n]
          /\ Minikube \notin LabelledLate
      BY DEF Deployment, Configmap, DevClaim, Minikube, Supplies, LabelledLate, Configmaps
    <3>3. ClusterInv' /\ DataInv'
      BY <1>1, <2>1, <3>1 DEF Inv, ClusterInv, DataInv, Foundation
    <3>4. SupplyInv'
      BY <1>1, <2>1, <3>1, <3>2 DEF Inv, SupplyInv
    <3>5. Loose' \subseteq Loose
      BY <2>1, <3>1, <3>2 DEF Loose
    <3>6. QED
      BY <3>3, <3>4, <3>5
  <2>4. QED
    BY <2>2, <2>3
<1>4. BudgetInv' /\ budget'["stop"] = budget["stop"] - 1
  BY <1>1, Spent DEF Inv, Kinds
<1>5. LooseInv'
  <2>1. IsFiniteSet(Loose) /\ Cardinality(Loose) \in Nat
    BY LooseFinite
  <2>2. Cardinality(Loose') <= Cardinality(Loose) /\ Cardinality(Loose') \in Nat
    BY <1>3, <2>1, FS_Subset, FS_CardinalityType
  <2>3. MaxStops \in Nat /\ budget["stop"] \in Nat
    BY ConstantsOK DEF Kinds, Limit, Inv, BudgetInv
  <2>4. Cardinality(Loose) <= MaxStops - budget["stop"] + 1
    BY <2>1, <2>3 DEF Inv, LooseInv
  <2>5. Cardinality(Loose') <= MaxStops - budget'["stop"]
    BY <1>4, <2>1, <2>2, <2>3, <2>4
  <2>6. QED
    BY <1>4, <2>2, <2>3, <2>5 DEF LooseInv
<1>6. QED
  BY <1>2, <1>3, <1>4, <1>5, EndParts
------------------------------------------------------------------------------
(* The script of clean.sh *)

LEMMA CleanScriptOf ==
    ASSUME NEW k \in BOOLEAN
    PROVE  LET s == CleanScript(k)
           IN  /\ s \in Seq(CleanCommands) /\ s # <<>>
               /\ \A i \in 2..Len(s) : s[i] # Delete("deployment")
               /\ \A kind \in CleanKinds : Delete(kind) \in Range(s)
               /\ Command("wipe", {}) \in Range(s)
               /\ k => Command("destroy", {}) \in Range(s)
<1> DEFINE b == << Delete("deployment"), Delete("service"), Delete("ingress"), Delete("volume"),
                   Delete("claim"), Delete("secret"), Delete("configmap"), Delete("role"),
                   Command("wipe", {}) >>
           d == IF k THEN << Command("destroy", {}) >> ELSE <<>>
<1>1. b \in Seq(CleanCommands) /\ Len(b) = 9
  BY DEF CleanCommands, CleanKinds
<1>2. d \in Seq(CleanCommands) /\ Len(d) = IF k THEN 1 ELSE 0
  <2>1. CASE k
    BY <2>1 DEF CleanCommands
  <2>2. CASE ~k
    BY <2>2, EmptySeq
  <2>3. QED
    BY <2>1, <2>2
<1>3. PICK s : s = b
  OBVIOUS
<1>4. PICK t : t = d
  OBVIOUS
<1>5. s \in Seq(CleanCommands) /\ Len(s) = 9 /\ \A i \in 1..9 : s[i] = b[i]
  BY <1>1, <1>3
<1>6. /\ t \in Seq(CleanCommands) /\ Len(t) = (IF k THEN 1 ELSE 0)
      /\ k => t[1] = Command("destroy", {})
  BY <1>2, <1>4
<1>7. /\ b[1] = Delete("deployment") /\ b[2] = Delete("service") /\ b[3] = Delete("ingress")
      /\ b[4] = Delete("volume") /\ b[5] = Delete("claim") /\ b[6] = Delete("secret")
      /\ b[7] = Delete("configmap") /\ b[8] = Delete("role") /\ b[9] = Command("wipe", {})
  OBVIOUS
<1>8. CleanScript(k) = s \o t
  BY <1>3, <1>4 DEF CleanScript
<1> HIDE DEF b, d
<1>9. \A i \in 1..9 : s[i] \in Range(s)
  BY <1>5, InRange
<1>10. \A kind \in CleanKinds : Delete(kind) \in Range(s)
  BY <1>5, <1>7, <1>9 DEF CleanKinds
<1>11. Command("wipe", {}) \in Range(s)
  BY <1>5, <1>7, <1>9
<1>12. k => Command("destroy", {}) \in Range(t)
  BY <1>6, InRange
<1>13. \A i \in 2..9 : s[i] # Delete("deployment")
  <2>1. \A x : Command("wipe", {}) # Delete(x)
    BY DEF Delete, Command
  <2>2. \A x, y : Delete(x) = Delete(y) => x = y
    <3>1. \A x, y : Delete(x) = Delete(y) => {x} = {y}
      BY DEF Delete, Command
    <3>2. \A x, y : {x} = {y} => x = y
      OBVIOUS
    <3>3. QED
      BY <3>1, <3>2
  <2>3. /\ s[2] # Delete("deployment") /\ s[3] # Delete("deployment")
        /\ s[4] # Delete("deployment") /\ s[5] # Delete("deployment")
        /\ s[6] # Delete("deployment") /\ s[7] # Delete("deployment")
        /\ s[8] # Delete("deployment") /\ s[9] # Delete("deployment")
    BY <1>5, <1>7, <2>1, <2>2
  <2>4. \A i \in 2..9 : i \in {2, 3, 4, 5, 6, 7, 8, 9}
    OBVIOUS
  <2>5. QED
    BY <2>3, <2>4
<1>14. \A i \in 1..Len(t) : t[i] # Delete("deployment")
  BY <1>6 DEF Delete, Command
<1>15. /\ Range(s \o t) = Range(s) \cup Range(t) /\ s \o t \in Seq(CleanCommands)
       /\ Len(s \o t) = 9 + Len(t)
       /\ \A i \in 1..(9 + Len(t)) : (s \o t)[i] = IF i <= 9 THEN s[i] ELSE t[i - 9]
  <2>1. s \in Seq(CleanCommands) /\ t \in Seq(CleanCommands) /\ Len(s) = 9 /\ Len(t) \in Nat
    BY <1>5, <1>6
  <2>2. Range(s \o t) = Range(s) \cup Range(t)
    BY <2>1, RangeConcatenation
  <2>3. /\ s \o t \in Seq(CleanCommands) /\ Len(s \o t) = Len(s) + Len(t)
        /\ \A i \in 1..(Len(s) + Len(t)) :
              (s \o t)[i] = IF i <= Len(s) THEN s[i] ELSE t[i - Len(s)]
    BY <2>1, ConcatProperties
  <2>4. QED
    BY <2>1, <2>2, <2>3
<1>16. \A i \in 2..Len(s \o t) : (s \o t)[i] # Delete("deployment")
  BY <1>6, <1>13, <1>14, <1>15
<1>17. s \o t # <<>>
  BY <1>6, <1>15, EmptySeq
<1>18. QED
  BY <1>8, <1>10, <1>11, <1>12, <1>15, <1>16, <1>17
------------------------------------------------------------------------------
(* The script of deploy.sh, section by section *)

Section(s, made, open) ==
    /\ s \in Seq(Steps \cup Groups) /\ s # <<>> /\ Ordered(s) /\ Chained(s)
    /\ s[1].op # "label" /\ Made(s) = made /\ Open(s) = open

(* What is made after M does not belong before it. *)
Apart(M, N) ==
    /\ \A r \in N : r \notin M
    /\ \/ \A r \in M : r[1] # "deployment"
       \/ \A r \in N : r[1] \notin {"claim", "secret"}

LEMMA Single ==
    ASSUME NEW c \in Steps \cup Groups, c.op # "label", ~Pending(c)
    PROVE  Section(<<c>>, Creates(c), Direct(c))
<1>1. <<c>> \in Seq(Steps \cup Groups) /\ Len(<<c>>) = 1 /\ <<c>>[1] = c /\ <<c>> # <<>>
  OBVIOUS
<1>2. Range(<<c>>) = {c}
  <2>1. PICK s : s = <<c>>
    OBVIOUS
  <2>2. s \in Seq(Steps \cup Groups) /\ Len(s) = 1 /\ s[1] = c
    BY <1>1, <2>1
  <2>3. \A e : e \in Range(s) <=> \E i \in 1..Len(s) : e = s[i]
    BY <2>2, InRange
  <2>4. \A e : e \in Range(s) <=> e = c
    BY <2>2, <2>3
  <2>5. QED
    BY <2>1, <2>4
<1>3. Made(<<c>>) = Creates(c) /\ Open(<<c>>) = Direct(c)
  BY <1>2 DEF Made, Open
<1>4. Ordered(<<c>>) /\ Chained(<<c>>)
  BY <1>1 DEF Ordered, Chained
<1>5. QED
  BY <1>1, <1>3, <1>4 DEF Section

LEMMA Sections ==
    ASSUME NEW s, NEW t, NEW M, NEW N, NEW O, NEW P, Section(s, M, O), Section(t, N, P),
           Apart(M, N)
    PROVE  Section(s \o t, M \cup N, O \cup P)
<1>1. /\ s \in Seq(Steps \cup Groups) /\ s # <<>> /\ Ordered(s) /\ Chained(s)
      /\ s[1].op # "label" /\ Made(s) = M /\ Open(s) = O
      /\ t \in Seq(Steps \cup Groups) /\ t # <<>> /\ Ordered(t) /\ Chained(t)
      /\ t[1].op # "label" /\ Made(t) = N /\ Open(t) = P
  BY DEF Section
<1>2. \A c \in Range(s), d \in Range(t) : Creates(c) \subseteq M /\ Creates(d) \subseteq N
  BY <1>1, MadeOf
<1>3. \A c \in Range(s), d \in Range(t) : Before(c, d)
  BY <1>2 DEF Before, Apart
<1>4. Ordered(s \o t)
  BY <1>1, <1>3, OrderedConcat
<1>5. Chained(s \o t) /\ (s \o t)[1] = s[1]
  BY <1>1, ChainedConcat
<1>6. Made(s \o t) = M \cup N /\ Open(s \o t) = O \cup P
  BY <1>1, MadeConcat
<1>7. s \o t \in Seq(Steps \cup Groups) /\ s \o t # <<>>
  <2>1. Len(s \o t) = Len(s) + Len(t) /\ s \o t \in Seq(Steps \cup Groups)
    BY <1>1, ConcatProperties
  <2>2. QED
    BY <1>1, <2>1, EmptySeq
<1>8. QED
  BY <1>1, <1>4, <1>5, <1>6, <1>7 DEF Section

(* Two commands one after the other. *)
LEMMA Pair ==
    ASSUME NEW c \in Steps \cup Groups, NEW d \in Steps \cup Groups,
           c.op # "label", d.op # "label", ~Pending(c), ~Pending(d), Before(c, d)
    PROVE  Section(<<c, d>>, Creates(c) \cup Creates(d), Direct(c) \cup Direct(d))
<1>1. /\ <<c, d>> \in Seq(Steps \cup Groups) /\ Len(<<c, d>>) = 2 /\ <<c, d>> # <<>>
      /\ <<c, d>>[1] = c /\ <<c, d>>[2] = d
  OBVIOUS
<1>2. Range(<<c, d>>) = {c, d}
  <2>1. PICK s : s = <<c, d>>
    OBVIOUS
  <2>2. s \in Seq(Steps \cup Groups) /\ Len(s) = 2 /\ s[1] = c /\ s[2] = d
    BY <1>1, <2>1
  <2>3. \A e : e \in Range(s) <=> \E i \in 1..Len(s) : e = s[i]
    BY <2>2, InRange
  <2>4. \A i : i \in 1..2 <=> i \in {1, 2}
    OBVIOUS
  <2>5. \A e : e \in Range(s) <=> e \in {c, d}
    BY <2>2, <2>3, <2>4
  <2>6. QED
    BY <2>1, <2>5
<1>3. /\ Made(<<c, d>>) = Creates(c) \cup Creates(d)
      /\ Open(<<c, d>>) = Direct(c) \cup Direct(d)
  BY <1>2 DEF Made, Open
<1>4. Link(c, d)
  <2>1. \A n \in Configured : Pending(Label("configmap", n))
    BY DEF Pending, Label, Command, Configmap
  <2>2. QED
    BY <2>1 DEF Pending, Link
<1>5. Ordered(<<c, d>>) /\ Chained(<<c, d>>)
  BY <1>1, <1>4 DEF Ordered, Chained
<1>6. QED
  BY <1>1, <1>3, <1>5 DEF Section

(* A group whose body fits. *)
LEMMA GroupOf ==
    ASSUME NEW what \in Whole \cup {Minikube}, NEW forced \in BOOLEAN, NEW body \in Seq(Steps),
           Fit(Unless(what, forced, body))
    PROVE  LET g == Unless(what, forced, body)
           IN  /\ g \in Groups /\ g.op = "unless" /\ g.what = what /\ g.body = body
               /\ Creates(g) = Open(body) /\ Direct(g) = {} /\ ~Pending(g)
<1>1. PICK g : g = Unless(what, forced, body)
  OBVIOUS
<1>2. g \in Groups /\ g.op = "unless" /\ g.what = what /\ g.body = body
  BY <1>1 DEF Groups, Unless
<1>3. Creates(g) = Open(body) /\ Direct(g) = {} /\ ~Pending(g)
  BY <1>2, GroupKinds DEF Pending
<1>4. QED
  BY <1>1, <1>2, <1>3

LEMMA LonelyGroup ==
    ASSUME NEW what \in Whole \ (LabelledLate \cup {DevClaim, DevVolume}), NEW forced \in BOOLEAN,
           \A n \in Configured : what # Deployment(n)
    PROVE  LET g == Unless(what, forced, << Command("make", {what}) >>)
           IN  /\ g \in Groups /\ g.op = "unless"
               /\ Creates(g) = {what} /\ Direct(g) = {} /\ ~Pending(g)
<1>1. PICK c : c = Command("make", {what})
  OBVIOUS
<1>2. /\ c \in Steps /\ c.op = "make" /\ c.what = {what} /\ Creates(c) = {what}
      /\ Direct(c) = {what} /\ ~Pending(c)
  BY <1>1 DEF Steps, Command, Creates, Direct, Pending
<1>3. Section(<<c>>, {what}, {what})
  BY <1>2, Single
<1>4. PICK g : g = Unless(what, forced, <<c>>)
  OBVIOUS
<1>5. g.what = what /\ g.body = <<c>> /\ g.op = "unless"
  BY <1>4 DEF Unless
<1>6. Creates(g) = BodyOf(what)
  <2>1. Creates(g) = Open(<<c>>)
    BY <1>5 DEF Creates, Open
  <2>2. BodyOf(what) = {what}
    BY DEF BodyOf
  <2>3. QED
    BY <1>3, <2>1, <2>2 DEF Section
<1>7. \A n \in Configured : Bare("configmap", n) \notin Range(<<c>>)
  <2>1. \A r \in Range(<<c>>) : r = c
    <3>1. PICK s : s = <<c>>
      OBVIOUS
    <3>2. s \in Seq(Steps) /\ Len(s) = 1 /\ s[1] = c
      BY <1>2, <3>1
    <3>3. \A r \in Range(s) : r = c
      BY <3>2, InRange
    <3>4. QED
      BY <3>1, <3>3
  <2>2. \A n : Bare("configmap", n) # c
    BY <1>2 DEF Bare, Command
  <2>3. QED
    BY <2>1, <2>2
<1>8. Fit(g)
  <2>1. <<c>>[1] = c
    OBVIOUS
  <2>2. Configmaps \subseteq LabelledLate
    BY DEF LabelledLate
  <2>3. QED
    BY <1>2, <1>3, <1>5, <1>6, <1>7, <2>1, <2>2 DEF Fit, Section
<1>9. <<c>> \in Seq(Steps)
  BY <1>2
<1>10. /\ g \in Groups /\ g.op = "unless" /\ Creates(g) = {what} /\ Direct(g) = {} /\ ~Pending(g)
  <2>1. BodyOf(what) = {what}
    BY DEF BodyOf
  <2>2. g \in Groups
    BY <1>4, <1>8, <1>9 DEF Groups, Unless
  <2>3. QED
    BY <1>5, <1>6, <2>1, <2>2 DEF Direct, Pending
<1>11. QED
  BY <1>1, <1>4, <1>10

(* What is in a sequence of two, and of four. *)
LEMMA RangeOfTwo ==
    ASSUME NEW S, NEW s \in Seq(S), Len(s) = 2
    PROVE  Range(s) = {s[1], s[2]} /\ Made(s) = Creates(s[1]) \cup Creates(s[2])
           /\ Open(s) = Direct(s[1]) \cup Direct(s[2])
           /\ (Before(s[1], s[2]) => Ordered(s))
           /\ (Link(s[1], s[2]) /\ ~Pending(s[2]) => Chained(s))
<1>1. \A i : i \in 1..2 <=> i \in {1, 2}
  OBVIOUS
<1>2. Range(s) = {s[1], s[2]}
  BY <1>1, InRange
<1>3. QED
  BY <1>2 DEF Made, Open, Ordered, Chained

LEMMA RangeOfFour ==
    ASSUME NEW S, NEW s \in Seq(S), Len(s) = 4
    PROVE  /\ Range(s) = {s[1], s[2], s[3], s[4]}
           /\ Open(s) = Direct(s[1]) \cup Direct(s[2]) \cup Direct(s[3]) \cup Direct(s[4])
           /\ (/\ Before(s[1], s[2]) /\ Before(s[1], s[3]) /\ Before(s[1], s[4])
               /\ Before(s[2], s[3]) /\ Before(s[2], s[4]) /\ Before(s[3], s[4])) => Ordered(s)
           /\ (Link(s[1], s[2]) /\ Link(s[2], s[3]) /\ Link(s[3], s[4]) /\ ~Pending(s[4]))
                  => Chained(s)
<1>1. \A i : i \in 1..4 <=> i \in {1, 2, 3, 4}
  OBVIOUS
<1>2. Range(s) = {s[1], s[2], s[3], s[4]}
  BY <1>1, InRange
<1>3. Open(s) = Direct(s[1]) \cup Direct(s[2]) \cup Direct(s[3]) \cup Direct(s[4])
  BY <1>2 DEF Open
<1>4. ASSUME /\ Before(s[1], s[2]) /\ Before(s[1], s[3]) /\ Before(s[1], s[4])
             /\ Before(s[2], s[3]) /\ Before(s[2], s[4]) /\ Before(s[3], s[4])
      PROVE  Ordered(s)
  <2>1. \A i, j \in {1, 2, 3, 4} : i < j => <<i, j>> \in {<<1, 2>>, <<1, 3>>, <<1, 4>>, <<2, 3>>,
                                                         <<2, 4>>, <<3, 4>>}
    OBVIOUS
  <2>2. QED
    BY <1>1, <1>4, <2>1 DEF Ordered
<1>5. (Link(s[1], s[2]) /\ Link(s[2], s[3]) /\ Link(s[3], s[4]) /\ ~Pending(s[4])) => Chained(s)
  <2>1. \A i \in 1..3 : i \in {1, 2, 3}
    OBVIOUS
  <2>2. QED
    BY <2>1 DEF Chained
<1>6. QED
  BY <1>2, <1>3, <1>4, <1>5

(* The secrets that are created and labelled by two commands. *)
LEMMA TLSSecretSection ==
    ASSUME NEW n \in {"dev-cert", "site-cert"}
    PROVE  Section(CreateTLSSecret(n), {<<"secret", n>>}, {})
<1>1. PICK r : r = <<"secret", n>>
  OBVIOUS
<1>2. PICK b : b = << Bare("secret", n), Label("secret", n) >>
  OBVIOUS
<1>3. r \in LabelledLate /\ r \in Whole \ ({DevClaim, DevVolume} \cup Configmaps)
  BY <1>1 DEF LabelledLate, Whole, DevClaim, DevVolume, Configmaps, Configmap
<1>4. b \in Seq(Steps) /\ Len(b) = 2 /\ b[1] = Command("bare", {r}) /\ b[2] = Command("label", {r})
  <2>1. Bare("secret", n) \in Steps /\ Label("secret", n) \in Steps
    BY <1>1, <1>3 DEF Steps, Bare, Label
  <2>2. QED
    BY <1>1, <1>2, <2>1 DEF Bare, Label
<1>5. /\ Direct(b[1]) = {r} /\ Direct(b[2]) = {} /\ Creates(b[1]) = {r} /\ Creates(b[2]) = {}
      /\ Before(b[1], b[2])
  BY <1>4 DEF Command, Direct, Creates, Before
<1>6. ~Pending(b[2]) /\ Link(b[1], b[2])
  <2>1. \A m : {Configmap(m)} # {r}
    <3>1. \A m : Configmap(m) # r
      BY <1>1 DEF Configmap
    <3>2. QED
      BY <3>1
  <2>2. \A m : b[1] # Label("configmap", m)
    BY <1>4 DEF Label, Command
  <2>3. QED
    BY <1>4, <2>1, <2>2 DEF Pending, Link, Command
<1>7. Ordered(b) /\ Chained(b) /\ Open(b) = {r} /\ Range(b) = {b[1], b[2]}
  BY <1>4, <1>5, <1>6, RangeOfTwo
<1>8. PICK g : g = Unless(r, TRUE, b)
  OBVIOUS
<1>9. g.op = "unless" /\ g.what = r /\ g.body = b
  BY <1>8 DEF Unless
<1>10. Creates(g) = {r} /\ Direct(g) = {} /\ BodyOf(r) = {r}
  <2>1. \A m : Deployment(m) # r
    BY <1>1 DEF Deployment
  <2>2. QED
    BY <1>7, <1>9, <2>1 DEF Creates, Open, Direct, BodyOf
<1>11. \A m \in Configured : Bare("configmap", m) \notin Range(b)
  <2>1. \A m : {Configmap(m)} # {r}
    <3>1. \A m : Configmap(m) # r
      BY <1>1 DEF Configmap
    <3>2. QED
      BY <3>1
  <2>2. \A m : /\ Bare("configmap", m).op = "bare"
               /\ Bare("configmap", m).what = {Configmap(m)}
    BY DEF Bare, Command, Configmap
  <2>3. b[1].what = {r} /\ b[2].op = "label"
    BY <1>4 DEF Command
  <2>4. QED
    BY <1>7, <2>1, <2>2, <2>3
<1>12. b # <<>> /\ b[1].op # "label"
  <2>1. b # <<>>
    BY <1>2
  <2>2. QED
    BY <1>4, <2>1 DEF Command
<1>13. Fit(g)
  BY <1>3, <1>7, <1>9, <1>10, <1>11, <1>12 DEF Fit
<1>14. g \in Groups
  BY <1>3, <1>4, <1>8, <1>13 DEF Groups, Unless
<1>15. Section(<<g>>, {r}, {})
  <2>1. ~Pending(g)
    BY <1>9 DEF Pending
  <2>2. QED
    BY <1>9, <1>10, <1>14, <2>1, Single
<1>16. QED
  BY <1>1, <1>2, <1>8, <1>15 DEF CreateTLSSecret

LEMMA SecretSection ==
    Section(<< Unless(<<"secret", "registry">>, TRUE, << Make("secret", "registry") >>) >>,
            {<<"secret", "registry">>}, {})
<1>1. PICK r : r = <<"secret", "registry">>
  OBVIOUS
<1>2. /\ r \in Whole \ (LabelledLate \cup {DevClaim, DevVolume})
      /\ \A n \in Configured : r # Deployment(n)
  BY <1>1 DEF Whole, LabelledLate, DevClaim, DevVolume, Configmaps, Configmap, Deployment
<1>3. PICK g : g = Unless(r, TRUE, << Command("make", {r}) >>)
  OBVIOUS
<1>4. g \in Groups /\ g.op = "unless" /\ Creates(g) = {r} /\ Direct(g) = {} /\ ~Pending(g)
  BY <1>2, <1>3, LonelyGroup
<1>5. Section(<<g>>, {r}, {})
  BY <1>4, Single
<1>6. QED
  BY <1>1, <1>3, <1>5 DEF Make

LEMMA VolumeSection ==
    ASSUME NEW n \in {"mongo", "registry-storage", "girder-ps"}
    PROVE  Section(CreateVolume(n), {<<"volume", n>>, <<"claim", n>>}, {})
<1>1. PICK v, c : v = <<"volume", n>> /\ c = <<"claim", n>>
  OBVIOUS
<1>2. /\ {v, c} \subseteq Whole \ (LabelledLate \cup {DevClaim, DevVolume})
      /\ \A m : v # Deployment(m) /\ c # Deployment(m)
      /\ v # c /\ v[1] # "deployment"
  BY <1>1 DEF Whole, LabelledLate, DevClaim, DevVolume, Configmaps, Configmap, Deployment
<1>3. PICK g, h : /\ g = Unless(v, FALSE, << Command("make", {v}) >>)
                  /\ h = Unless(c, FALSE, << Command("make", {c}) >>)
  OBVIOUS
<1>4. g \in Groups /\ g.op = "unless" /\ Creates(g) = {v} /\ Direct(g) = {} /\ ~Pending(g)
  BY <1>2, <1>3, LonelyGroup
<1>5. h \in Groups /\ h.op = "unless" /\ Creates(h) = {c} /\ Direct(h) = {} /\ ~Pending(h)
  BY <1>2, <1>3, LonelyGroup
<1>6. Before(g, h)
  BY <1>2, <1>4, <1>5 DEF Before
<1>7. Section(<<g, h>>, {v} \cup {c}, {} \cup {})
  BY <1>4, <1>5, <1>6, Pair
<1>8. {v} \cup {c} = {v, c} /\ {} \cup {} = {}
  OBVIOUS
<1>9. Section(<<g, h>>, {v, c}, {})
  BY <1>7, <1>8
<1>10. QED
  BY <1>1, <1>3, <1>9 DEF CreateVolume, Make

LEMMA DevSection ==
    Section(<< Make("claim", "gwvolman-dev"), Make("volume", "gwvolman-dev") >>,
            {DevClaim, DevVolume}, {DevClaim, DevVolume})
<1>1. PICK c, d : /\ c = Command("make", {DevClaim}) /\ d = Command("make", {DevVolume})
  OBVIOUS
<1>2. {DevClaim, DevVolume} \subseteq Whole \ LabelledLate
  BY DEF Whole, LabelledLate, DevClaim, DevVolume, Configmaps, Configmap
<1>3. c \in Steps /\ d \in Steps
  BY <1>1, <1>2 DEF Steps
<1>4. /\ c.op = "make" /\ d.op = "make" /\ ~Pending(c) /\ ~Pending(d)
      /\ Creates(c) = {DevClaim} /\ Direct(c) = {DevClaim}
      /\ Creates(d) = {DevVolume} /\ Direct(d) = {DevVolume}
  BY <1>1 DEF Command, Pending, Creates, Direct
<1>5. Before(c, d)
  BY <1>4 DEF Before, DevClaim, DevVolume
<1>6. Section(<<c, d>>, {DevClaim} \cup {DevVolume}, {DevClaim} \cup {DevVolume})
  BY <1>3, <1>4, <1>5, Pair
<1>7. {DevClaim} \cup {DevVolume} = {DevClaim, DevVolume}
  OBVIOUS
<1>8. Section(<<c, d>>, {DevClaim, DevVolume}, {DevClaim, DevVolume})
  BY <1>6, <1>7
<1>9. QED
  BY <1>1, <1>8 DEF Make, DevClaim, DevVolume

(* The service comes first, then the deployment and what it needs. *)
LEMMA PlainSection ==
    ASSUME NEW n \in DOMAIN Supplies \ Configured
    PROVE  Section(StartService(n, FALSE), {<<"service", n>>, Deployment(n)}, {})
<1>1. PICK v, d : v = <<"service", n>> /\ d = Deployment(n)
  OBVIOUS
<1>2. {v, d} \subseteq Whole \ (LabelledLate \cup {DevClaim, DevVolume})
  <2>1. {v, d} \subseteq Whole
    BY <1>1 DEF Whole, Deployment
  <2>2. QED
    BY <1>1, <2>1 DEF LabelledLate, DevClaim, DevVolume, Configmaps, Configmap, Deployment
<1>3. /\ \A m \in Configured : v # Deployment(m) /\ d # Deployment(m)
      /\ v # d /\ v[1] # "deployment"
  BY <1>1 DEF Deployment
<1>4. PICK g, h : /\ g = Unless(v, FALSE, << Command("make", {v}) >>)
                  /\ h = Unless(d, FALSE, << Command("make", {d}) >>)
  OBVIOUS
<1>5. g \in Groups /\ g.op = "unless" /\ Creates(g) = {v} /\ Direct(g) = {} /\ ~Pending(g)
  BY <1>2, <1>3, <1>4, LonelyGroup
<1>6. h \in Groups /\ h.op = "unless" /\ Creates(h) = {d} /\ Direct(h) = {} /\ ~Pending(h)
  BY <1>2, <1>3, <1>4, LonelyGroup
<1>7. Before(g, h)
  BY <1>3, <1>5, <1>6 DEF Before
<1>8. Section(<<g, h>>, {v} \cup {d}, {} \cup {})
  BY <1>5, <1>6, <1>7, Pair
<1>9. {v} \cup {d} = {v, d} /\ {} \cup {} = {}
  OBVIOUS
<1>10. Section(<<g, h>>, {v, d}, {})
  BY <1>8, <1>9
<1>11. StartService(n, FALSE) = <<g, h>>
  BY <1>1, <1>4 DEF StartService, Make, Deployment
<1>12. QED
  BY <1>1, <1>10, <1>11

LEMMA ConfiguredGroup ==
    ASSUME NEW n \in Configured, NEW b,
           b = << Command("replace", {Configmap(n)}), Bare("configmap", n),
                  Label("configmap", n), Make("deployment", n) >>
    PROVE  LET g == Unless(Deployment(n), FALSE, b)
           IN  /\ g \in Groups /\ g.op = "unless" /\ ~Pending(g)
               /\ Creates(g) = {Deployment(n), Configmap(n)} /\ Direct(g) = {}
<1>1. PICK d, c : d = Deployment(n) /\ c = Configmap(n)
  OBVIOUS
<1>2. /\ d \in Whole \ (LabelledLate \cup {DevClaim, DevVolume}) /\ c \in LabelledLate
      /\ c \in Configmaps /\ c # d /\ c[1] # "deployment" /\ c[1] \notin {"claim", "secret"}
      /\ d[1] \notin {"claim", "secret"} /\ {c} # {Admin}
  <2>1. d \in Whole
    BY <1>1 DEF Whole, Deployment, Configured, Supplies
  <2>2. c # Admin
    BY <1>1 DEF Configmap, Admin
  <2>3. QED
    BY <1>1, <2>1, <2>2 DEF LabelledLate, DevClaim, DevVolume, Configmaps, Configmap, Deployment
<1>3. /\ b \in Seq(Steps) /\ Len(b) = 4 /\ b[1] = Command("replace", {c})
      /\ b[2] = Command("bare", {c}) /\ b[3] = Command("label", {c})
      /\ b[4] = Command("make", {d})
  <2>1. /\ Command("replace", {c}) \in Steps /\ Command("bare", {c}) \in Steps
        /\ Command("label", {c}) \in Steps /\ Command("make", {d}) \in Steps
    BY <1>2 DEF Steps
  <2>2. b = << Command("replace", {c}), Command("bare", {c}), Command("label", {c}),
               Command("make", {d}) >>
    BY <1>1 DEF Bare, Label, Make, Configmap, Deployment
  <2>3. QED
    BY <2>1, <2>2
<1>4. /\ b[1].op = "replace" /\ b[2].op = "bare" /\ b[3].op = "label" /\ b[4].op = "make"
      /\ b[1].what = {c} /\ b[2].what = {c} /\ b[3].what = {c} /\ b[4].what = {d}
  BY <1>3 DEF Command
<1>5. /\ Direct(b[1]) = {} /\ Direct(b[2]) = {c} /\ Direct(b[3]) = {} /\ Direct(b[4]) = {d}
      /\ Creates(b[1]) = {} /\ Creates(b[2]) = {c} /\ Creates(b[3]) = {} /\ Creates(b[4]) = {d}
  BY <1>4 DEF Direct, Creates
<1>6. /\ Before(b[1], b[2]) /\ Before(b[1], b[3]) /\ Before(b[1], b[4])
      /\ Before(b[2], b[3]) /\ Before(b[2], b[4]) /\ Before(b[3], b[4])
  BY <1>2, <1>5 DEF Before
<1>7. Link(b[1], b[2]) /\ Link(b[2], b[3]) /\ Link(b[3], b[4]) /\ ~Pending(b[4])
  <2>1. \A m : Label("configmap", m).op = "label" /\ Label("configmap", m).what = {Configmap(m)}
    BY DEF Label, Command, Configmap
  <2>2. \A m : {Configmap(m)} = {c} => m = n
    <3>1. \A x, y : {x} = {y} => x = y
      OBVIOUS
    <3>2. \A m : Configmap(m) = c => m = n
      BY <1>1 DEF Configmap
    <3>3. QED
      BY <3>1, <3>2
  <2>3. Link(b[1], b[2]) /\ Link(b[2], b[3])
    BY <1>3, <1>4, <2>1 DEF Link
  <2>4. \A m \in Configured : b[3] = Label("configmap", m) => b[4] = Make("deployment", m)
    <3>1. \A m : b[3] = Label("configmap", m) => m = n
      BY <1>4, <2>1, <2>2
    <3>2. b[4] = Make("deployment", n)
      BY <1>1, <1>3 DEF Make, Deployment
    <3>3. QED
      BY <3>1, <3>2
  <2>5. Link(b[3], b[4]) /\ ~Pending(b[4])
    BY <1>4, <2>4 DEF Link, Pending
  <2>6. QED
    BY <2>3, <2>5
<1>8. Ordered(b) /\ Chained(b) /\ Open(b) = {d, c} /\ Range(b) = {b[1], b[2], b[3], b[4]}
  <2>1. Open(b) = Direct(b[1]) \cup Direct(b[2]) \cup Direct(b[3]) \cup Direct(b[4])
    BY <1>3, RangeOfFour
  <2>2. Open(b) = {d, c}
    BY <1>5, <2>1
  <2>3. QED
    BY <1>3, <1>6, <1>7, <2>2, RangeOfFour
<1>9. PICK g : g = Unless(d, FALSE, b)
  OBVIOUS
<1>10. g.op = "unless" /\ g.what = d /\ g.body = b
  BY <1>9 DEF Unless
<1>11. Creates(g) = {d, c} /\ Direct(g) = {} /\ BodyOf(d) = {d, c}
  <2>1. Creates(g) = {d, c} /\ Direct(g) = {}
    BY <1>8, <1>10 DEF Creates, Open, Direct
  <2>2. \A m : d = Deployment(m) <=> m = n
    BY <1>1 DEF Deployment
  <2>3. {Configmap(m) : m \in {j \in Configured : d = Deployment(j)}} = {c}
    BY <1>1, <2>2
  <2>4. QED
    BY <2>1, <2>3 DEF BodyOf
<1>12. \A m \in Configured : Bare("configmap", m) \in Range(b) =>
                                 Command("replace", {Configmap(m)}) \in Range(b)
  <2>1. \A m : Bare("configmap", m) = Command("bare", {Configmap(m)})
    BY DEF Bare, Configmap
  <2>2. \A m : Bare("configmap", m).op = "bare" /\ Bare("configmap", m).what = {Configmap(m)}
    BY <2>1 DEF Command
  <2>3. \A m : Bare("configmap", m) \in Range(b) => {Configmap(m)} = {c}
    BY <1>4, <1>8, <2>2
  <2>4. QED
    BY <1>3, <1>8, <2>3
<1>13. b # <<>> /\ b[1].op # "label"
  <2>1. b # <<>>
    BY <1>3, EmptySeq
  <2>2. QED
    BY <1>4, <2>1
<1>14. Fit(g)
  <2>1. Configmaps \subseteq LabelledLate
    BY DEF LabelledLate
  <2>2. QED
    BY <1>2, <1>8, <1>10, <1>11, <1>12, <1>13, <2>1 DEF Fit
<1>15. g \in Groups
  BY <1>2, <1>3, <1>9, <1>14 DEF Groups, Unless
<1>16. ~Pending(g)
  BY <1>10 DEF Pending
<1>17. QED
  BY <1>1, <1>9, <1>10, <1>11, <1>15, <1>16

LEMMA ConfiguredSection ==
    ASSUME NEW n \in Configured
    PROVE  Section(StartService(n, TRUE), {<<"service", n>>, Deployment(n), Configmap(n)}, {})
<1>1. PICK v, d, c : v = <<"service", n>> /\ d = Deployment(n) /\ c = Configmap(n)
  OBVIOUS
<1>2. v \in Whole \ (LabelledLate \cup {DevClaim, DevVolume})
  <2>1. v \in Whole
    BY <1>1 DEF Whole, Configured, Supplies
  <2>2. QED
    BY <1>1, <2>1 DEF LabelledLate, DevClaim, DevVolume, Configmaps, Configmap
<1>3. v \notin {d, c} /\ v[1] # "deployment" /\ \A m \in Configured : v # Deployment(m)
  BY <1>1 DEF Deployment, Configmap
<1>4. PICK b : b = << Command("replace", {Configmap(n)}), Bare("configmap", n),
                      Label("configmap", n), Make("deployment", n) >>
  OBVIOUS
<1>5. PICK g, h : /\ g = Unless(v, FALSE, << Command("make", {v}) >>)
                  /\ h = Unless(d, FALSE, b)
  OBVIOUS
<1>6. g \in Groups /\ g.op = "unless" /\ Creates(g) = {v} /\ Direct(g) = {} /\ ~Pending(g)
  BY <1>2, <1>3, <1>5, LonelyGroup
<1>7. h \in Groups /\ h.op = "unless" /\ Creates(h) = {d, c} /\ Direct(h) = {} /\ ~Pending(h)
  BY <1>1, <1>4, <1>5, ConfiguredGroup
<1>8. Before(g, h)
  BY <1>3, <1>6, <1>7 DEF Before
<1>9. Section(<<g, h>>, {v} \cup {d, c}, {} \cup {})
  BY <1>6, <1>7, <1>8, Pair
<1>10. {v} \cup {d, c} = {v, d, c} /\ {} \cup {} = {}
  OBVIOUS
<1>11. Section(<<g, h>>, {v, d, c}, {})
  BY <1>9, <1>10
<1>12. StartService(n, TRUE) = <<g, h>>
  BY <1>1, <1>4, <1>5 DEF StartService, Make, Deployment, Configmap
<1>13. QED
  BY <1>1, <1>11, <1>12

(* What the run does that may start minikube. *)
LEMMA ClusterSection == Section(CreateCluster, {Admin} \cup Plugin, Plugin)
<1>1. PICK b : b = << Command("ensure", {Minikube}), Command("ensure", {<<"host", "fix">>}),
                      Bare("clusterrolebinding", "admin"),
                      Command("ensure", {<<"host", "ingress">>}) >>
  OBVIOUS
<1>2. /\ b \in Seq(Steps) /\ Len(b) = 4 /\ b # <<>> /\ b[1].op = "ensure" /\ b[2].op = "ensure"
      /\ b[3].op = "bare" /\ b[3].what = {Admin} /\ b[4].op = "ensure"
  <2>1. /\ Command("ensure", {Minikube}) \in Steps
        /\ Command("ensure", {<<"host", "fix">>}) \in Steps
        /\ Bare("clusterrolebinding", "admin") \in Steps
        /\ Command("ensure", {<<"host", "ingress">>}) \in Steps
    BY DEF Steps, Extras
  <2>2. /\ \A x : Command("ensure", x).op = "ensure"
        /\ Bare("clusterrolebinding", "admin").op = "bare"
        /\ Bare("clusterrolebinding", "admin").what = {Admin}
    BY DEF Bare, Command, Admin
  <2>3. QED
    BY <1>1, <2>1, <2>2
<1>3. /\ Direct(b[1]) = {} /\ Direct(b[2]) = {} /\ Direct(b[3]) = {Admin} /\ Direct(b[4]) = {}
      /\ Creates(b[1]) = {} /\ Creates(b[2]) = {} /\ Creates(b[3]) = {Admin} /\ Creates(b[4]) = {}
  BY <1>2 DEF Direct, Creates
<1>4. /\ Before(b[1], b[2]) /\ Before(b[1], b[3]) /\ Before(b[1], b[4])
      /\ Before(b[2], b[3]) /\ Before(b[2], b[4]) /\ Before(b[3], b[4])
  BY <1>3 DEF Before
<1>5. \A i \in {1, 2, 3, 4} : ~Pending(b[i])
  BY <1>2 DEF Pending, Admin
<1>6. Link(b[1], b[2]) /\ Link(b[2], b[3]) /\ Link(b[3], b[4]) /\ ~Pending(b[4])
  <2>1. \A m : Label("configmap", m).op = "label"
    BY DEF Label, Command
  <2>2. QED
    BY <1>2, <1>5, <2>1 DEF Link
<1>7. Ordered(b) /\ Chained(b) /\ Open(b) = {Admin} /\ Range(b) = {b[1], b[2], b[3], b[4]}
  <2>1. Open(b) = Direct(b[1]) \cup Direct(b[2]) \cup Direct(b[3]) \cup Direct(b[4])
    BY <1>2, RangeOfFour
  <2>2. Open(b) = {Admin}
    BY <1>3, <2>1
  <2>3. QED
    BY <1>2, <1>4, <1>6, <2>2, RangeOfFour
<1>8. PICK g : g = Unless(Minikube, TRUE, b)
  OBVIOUS
<1>9. g.op = "unless" /\ g.what = Minikube /\ g.body = b
  BY <1>8 DEF Unless
<1>10. Creates(g) = {Admin} /\ Direct(g) = {} /\ ~Pending(g)
  BY <1>7, <1>9 DEF Creates, Open, Direct, Pending
<1>11. \A m \in Configured : Bare("configmap", m) \notin Range(b)
  <2>1. \A m : Bare("configmap", m).op = "bare" /\ Bare("configmap", m).what = {Configmap(m)}
    BY DEF Bare, Command, Configmap
  <2>2. \A m : {Configmap(m)} # {Admin}
    <3>1. \A m : Configmap(m) # Admin
      BY DEF Configmap, Admin
    <3>2. QED
      BY <3>1
  <2>3. \A e \in Range(b) : e.op = "bare" => e.what = {Admin}
    BY <1>2, <1>7
  <2>4. QED
    BY <2>1, <2>2, <2>3
<1>12. g \in Groups
  <2>1. Fit(g)
    BY <1>2, <1>7, <1>9, <1>10, <1>11 DEF Fit
  <2>2. QED
    BY <1>2, <1>8, <2>1 DEF Groups, Unless
<1>13. PICK c : c = Command("make", Plugin)
  OBVIOUS
<1>14. /\ c \in Steps /\ c.op = "make" /\ ~Pending(c) /\ Creates(c) = Plugin /\ Direct(c) = Plugin
  BY <1>13 DEF Steps, Command, Pending, Creates, Direct
<1>15. Before(g, c)
  BY <1>10, <1>14 DEF Before, Admin, Plugin
<1>16. Section(<<g, c>>, {Admin} \cup Plugin, {} \cup Plugin)
  BY <1>9, <1>10, <1>12, <1>14, <1>15, Pair
<1>17. {} \cup Plugin = Plugin
  OBVIOUS
<1>18. Section(<<g, c>>, {Admin} \cup Plugin, Plugin)
  BY <1>16, <1>17
<1>19. QED
  BY <1>1, <1>8, <1>13, <1>18 DEF CreateCluster

LEMMA LastSection ==
    Section(<< Unless(<<"ingress", "ingress">>, TRUE, << Make("ingress", "ingress") >>),
               Command("setup", {}) >>, {<<"ingress", "ingress">>}, {})
<1>1. PICK r : r = <<"ingress", "ingress">>
  OBVIOUS
<1>2. /\ r \in Whole \ (LabelledLate \cup {DevClaim, DevVolume})
      /\ \A m \in Configured : r # Deployment(m)
  BY <1>1 DEF Whole, LabelledLate, DevClaim, DevVolume, Configmaps, Configmap, Deployment
<1>3. PICK g, c : /\ g = Unless(r, TRUE, << Command("make", {r}) >>)
                  /\ c = Command("setup", {})
  OBVIOUS
<1>4. g \in Groups /\ g.op = "unless" /\ Creates(g) = {r} /\ Direct(g) = {} /\ ~Pending(g)
  BY <1>2, <1>3, LonelyGroup
<1>5. /\ c \in Steps /\ c.op = "setup" /\ ~Pending(c) /\ Creates(c) = {} /\ Direct(c) = {}
  BY <1>3 DEF Steps, Command, Pending, Creates, Direct
<1>6. Before(g, c)
  BY <1>5 DEF Before
<1>7. Section(<<g, c>>, {r} \cup {}, {} \cup {})
  BY <1>4, <1>5, <1>6, Pair
<1>8. {r} \cup {} = {r} /\ {} \cup {} = {}
  OBVIOUS
<1>9. Section(<<g, c>>, {r}, {})
  BY <1>7, <1>8
<1>10. QED
  BY <1>1, <1>3, <1>9 DEF Make

(* The whole script: it makes everything, and makes without looking only    *)
(* the development volume, its claim and, with -k, the plugin.              *)
LEMMA DeployScriptOf ==
    ASSUME NEW k \in BOOLEAN
    PROVE  Section(DeployScript(k), Whole \cup (IF k THEN {Admin} \cup Plugin ELSE {}),
                   {DevClaim, DevVolume} \cup (IF k THEN Plugin ELSE {}))
           /\ Plan(DeployScript(k))
<1> DEFINE C == IF k THEN {Admin} \cup Plugin ELSE {}
           O == IF k THEN Plugin ELSE {}
           s1 == (IF k THEN CreateCluster ELSE <<>>) \o CreateTLSSecret("dev-cert")
           s2 == s1 \o CreateTLSSecret("site-cert")
           s3 == s2 \o << Unless(<<"secret", "registry">>, TRUE,
                                << Make("secret", "registry") >>) >>
           s4 == s3 \o CreateVolume("mongo")
           s5 == s4 \o CreateVolume("registry-storage")
           s6 == s5 \o CreateVolume("girder-ps")
           s7 == s6 \o << Make("claim", "gwvolman-dev"), Make("volume", "gwvolman-dev") >>
           s8 == s7 \o StartService("mongo", FALSE)
           s9 == s8 \o StartService("redis", FALSE)
           s10 == s9 \o StartService("registry", FALSE)
           s11 == s10 \o StartService("girder", TRUE)
           s12 == s11 \o StartService("dashboard", FALSE)
           s13 == s12 \o StartService("worker", TRUE)
           s14 == s13 \o << Unless(<<"ingress", "ingress">>, TRUE,
                                  << Make("ingress", "ingress") >>),
                           Command("setup", {}) >>
           M1 == C \cup {<<"secret", "dev-cert">>}
           M2 == M1 \cup {<<"secret", "site-cert">>}
           M3 == M2 \cup {<<"secret", "registry">>}
           M4 == M3 \cup {<<"volume", "mongo">>, <<"claim", "mongo">>}
           M5 == M4 \cup {<<"volume", "registry-storage">>, <<"claim", "registry-storage">>}
           M6 == M5 \cup {<<"volume", "girder-ps">>, <<"claim", "girder-ps">>}
           M7 == M6 \cup {DevClaim, DevVolume}
           M8 == M7 \cup {<<"service", "mongo">>, Deployment("mongo")}
           M9 == M8 \cup {<<"service", "redis">>, Deployment("redis")}
           M10 == M9 \cup {<<"service", "registry">>, Deployment("registry")}
           M11 == M10 \cup {<<"service", "girder">>, Deployment("girder"), Configmap("girder")}
           M12 == M11 \cup {<<"service", "dashboard">>, Deployment("dashboard")}
           M13 == M12 \cup {<<"service", "worker">>, Deployment("worker"), Configmap("worker")}
           M14 == M13 \cup {<<"ingress", "ingress">>}
<1> HIDE DEF C, O, s1, s2, s3, s4, s5, s6, s7, s8, s9, s10, s11, s12, s13, s14, M1, M2, M3, M4,
             M5, M6, M7, M8, M9, M10, M11, M12, M13, M14
<1>1. Section(s1, M1, O)
  <2>1. Section(CreateTLSSecret("dev-cert"), {<<"secret", "dev-cert">>}, {})
    BY TLSSecretSection
  <2>2. CASE k
    <3>1. Apart({Admin} \cup Plugin, {<<"secret", "dev-cert">>})
      BY DEF Apart, Admin, Plugin
    <3>2. Section(CreateCluster \o CreateTLSSecret("dev-cert"),
                  ({Admin} \cup Plugin) \cup {<<"secret", "dev-cert">>}, Plugin \cup {})
      BY <2>1, <3>1, ClusterSection, Sections
    <3>3. /\ s1 = CreateCluster \o CreateTLSSecret("dev-cert")
          /\ M1 = ({Admin} \cup Plugin) \cup {<<"secret", "dev-cert">>}
          /\ O = Plugin \cup {}
      BY <2>2 DEF s1, M1, C, O
    <3>4. QED
      BY <3>2, <3>3
  <2>3. CASE ~k
    <3>1. PICK t : t = CreateTLSSecret("dev-cert")
      OBVIOUS
    <3>2. t \in Seq(Steps \cup Groups)
      BY <2>1, <3>1 DEF Section
    <3>3. <<>> \o t = t
      BY <3>2, ConcatEmptySeq
    <3>4. s1 = t /\ M1 = {<<"secret", "dev-cert">>} /\ O = {}
      BY <2>3, <3>1, <3>3 DEF s1, M1, C, O
    <3>5. QED
      BY <2>1, <3>1, <3>4
  <2>4. QED
    BY <2>2, <2>3
<1>2. Section(s2, M2, O)
  <2>1. Apart(M1, {<<"secret", "site-cert">>})
    BY DEF Apart, Admin, Plugin, DevClaim, DevVolume, Deployment, Configmap,
           M1, C
  <2>2. Section(CreateTLSSecret("site-cert"), {<<"secret", "site-cert">>}, {})
    BY TLSSecretSection
  <2>3. Section(s2, M2, O \cup {})
    BY <1>1, <2>1, <2>2, Sections DEF s2, M2
  <2>4. O \cup {} = O
    OBVIOUS
  <2>5. QED
    BY <2>3, <2>4
<1>3. Section(s3, M3, O)
  <2>1. Apart(M2, {<<"secret", "registry">>})
    BY DEF Apart, Admin, Plugin, DevClaim, DevVolume, Deployment, Configmap,
           M1, M2, C
  <2>2. Section(<< Unless(<<"secret", "registry">>, TRUE, << Make("secret", "registry") >>) >>,
                {<<"secret", "registry">>}, {})
    BY SecretSection
  <2>3. Section(s3, M3, O \cup {})
    BY <1>2, <2>1, <2>2, Sections DEF s3, M3
  <2>4. O \cup {} = O
    OBVIOUS
  <2>5. QED
    BY <2>3, <2>4
<1>4. Section(s4, M4, O)
  <2>1. Apart(M3, {<<"volume", "mongo">>, <<"claim", "mongo">>})
    BY DEF Apart, Admin, Plugin, DevClaim, DevVolume, Deployment, Configmap,
           M1, M2, M3, C
  <2>2. Section(CreateVolume("mongo"), {<<"volume", "mongo">>, <<"claim", "mongo">>}, {})
    BY VolumeSection
  <2>3. Section(s4, M4, O \cup {})
    BY <1>3, <2>1, <2>2, Sections DEF s4, M4
  <2>4. O \cup {} = O
    OBVIOUS
  <2>5. QED
    BY <2>3, <2>4
<1>5. Section(s5, M5, O)
  <2>1. Apart(M4, {<<"volume", "registry-storage">>, <<"claim", "registry-storage">>})
    BY DEF Apart, Admin, Plugin, DevClaim, DevVolume, Deployment, Configmap,
           M1, M2, M3, M4, C
  <2>2. Section(CreateVolume("registry-storage"),
                {<<"volume", "registry-storage">>, <<"claim", "registry-storage">>}, {})
    BY VolumeSection
  <2>3. Section(s5, M5, O \cup {})
    BY <1>4, <2>1, <2>2, Sections DEF s5, M5
  <2>4. O \cup {} = O
    OBVIOUS
  <2>5. QED
    BY <2>3, <2>4
<1>6. Section(s6, M6, O)
  <2>1. Apart(M5, {<<"volume", "girder-ps">>, <<"claim", "girder-ps">>})
    BY DEF Apart, Admin, Plugin, DevClaim, DevVolume, Deployment, Configmap,
           M1, M2, M3, M4, M5, C
  <2>2. Section(CreateVolume("girder-ps"),
                {<<"volume", "girder-ps">>, <<"claim", "girder-ps">>}, {})
    BY VolumeSection
  <2>3. Section(s6, M6, O \cup {})
    BY <1>5, <2>1, <2>2, Sections DEF s6, M6
  <2>4. O \cup {} = O
    OBVIOUS
  <2>5. QED
    BY <2>3, <2>4
<1>7. Section(s7, M7, O \cup {DevClaim, DevVolume})
  <2>1. Apart(M6, {DevClaim, DevVolume})
    BY DEF Apart, Admin, Plugin, DevClaim, DevVolume, Deployment, Configmap,
           M1, M2, M3, M4, M5, M6, C
  <2>2. Section(<< Make("claim", "gwvolman-dev"), Make("volume", "gwvolman-dev") >>,
                {DevClaim, DevVolume}, {DevClaim, DevVolume})
    BY DevSection
  <2>3. Section(s7, M7, O \cup {DevClaim, DevVolume})
    BY <1>6, <2>1, <2>2, Sections DEF s7, M7
  <2>4. QED
    BY <2>3
<1>8. Section(s8, M8, O \cup {DevClaim, DevVolume})
  <2>1. Apart(M7, {<<"service", "mongo">>, Deployment("mongo")})
    BY DEF Apart, Admin, Plugin, DevClaim, DevVolume, Deployment, Configmap,
           M1, M2, M3, M4, M5, M6, M7, C
  <2>2. Section(StartService("mongo", FALSE),
                {<<"service", "mongo">>, Deployment("mongo")}, {})
    BY PlainSection DEF Supplies, Configured
  <2>3. Section(s8, M8, (O \cup {DevClaim, DevVolume}) \cup {})
    BY <1>7, <2>1, <2>2, Sections DEF s8, M8
  <2>4. (O \cup {DevClaim, DevVolume}) \cup {} = (O \cup {DevClaim, DevVolume})
    OBVIOUS
  <2>5. QED
    BY <2>3, <2>4
<1>9. Section(s9, M9, O \cup {DevClaim, DevVolume})
  <2>1. Apart(M8, {<<"service", "redis">>, Deployment("redis")})
    BY DEF Apart, Admin, Plugin, DevClaim, DevVolume, Deployment, Configmap,
           M1, M2, M3, M4, M5, M6, M7, M8, C
  <2>2. Section(StartService("redis", FALSE),
                {<<"service", "redis">>, Deployment("redis")}, {})
    BY PlainSection DEF Supplies, Configured
  <2>3. Section(s9, M9, (O \cup {DevClaim, DevVolume}) \cup {})
    BY <1>8, <2>1, <2>2, Sections DEF s9, M9
  <2>4. (O \cup {DevClaim, DevVolume}) \cup {} = (O \cup {DevClaim, DevVolume})
    OBVIOUS
  <2>5. QED
    BY <2>3, <2>4
<1>10. Section(s10, M10, O \cup {DevClaim, DevVolume})
  <2>1. Apart(M9, {<<"service", "registry">>, Deployment("registry")})
    BY DEF Apart, Admin, Plugin, DevClaim, DevVolume, Deployment, Configmap,
           M1, M2, M3, M4, M5, M6, M7, M8, M9, C
  <2>2. Section(StartService("registry", FALSE),
                {<<"service", "registry">>, Deployment("registry")}, {})
    BY PlainSection DEF Supplies, Configured
  <2>3. Section(s10, M10, (O \cup {DevClaim, DevVolume}) \cup {})
    BY <1>9, <2>1, <2>2, Sections DEF s10, M10
  <2>4. (O \cup {DevClaim, DevVolume}) \cup {} = (O \cup {DevClaim, DevVolume})
    OBVIOUS
  <2>5. QED
    BY <2>3, <2>4
<1>11. Section(s11, M11, O \cup {DevClaim, DevVolume})
  <2>1. Apart(M10, {<<"service", "girder">>, Deployment("girder"), Configmap("girder")})
    BY DEF Apart, Admin, Plugin, DevClaim, DevVolume, Deployment, Configmap,
           M1, M2, M3, M4, M5, M6, M7, M8, M9, M10, C
  <2>2. Section(StartService("girder", TRUE),
                {<<"service", "girder">>, Deployment("girder"), Configmap("girder")}, {})
    BY ConfiguredSection DEF Configured
  <2>3. Section(s11, M11, (O \cup {DevClaim, DevVolume}) \cup {})
    BY <1>10, <2>1, <2>2, Sections DEF s11, M11
  <2>4. (O \cup {DevClaim, DevVolume}) \cup {} = (O \cup {DevClaim, DevVolume})
    OBVIOUS
  <2>5. QED
    BY <2>3, <2>4
<1>12. Section(s12, M12, O \cup {DevClaim, DevVolume})
  <2>1. Apart(M11, {<<"service", "dashboard">>, Deployment("dashboard")})
    BY DEF Apart, Admin, Plugin, DevClaim, DevVolume, Deployment, Configmap,
           M1, M2, M3, M4, M5, M6, M7, M8, M9, M10, M11, C
  <2>2. Section(StartService("dashboard", FALSE),
                {<<"service", "dashboard">>, Deployment("dashboard")}, {})
    BY PlainSection DEF Supplies, Configured
  <2>3. Section(s12, M12, (O \cup {DevClaim, DevVolume}) \cup {})
    BY <1>11, <2>1, <2>2, Sections DEF s12, M12
  <2>4. (O \cup {DevClaim, DevVolume}) \cup {} = (O \cup {DevClaim, DevVolume})
    OBVIOUS
  <2>5. QED
    BY <2>3, <2>4
<1>13. Section(s13, M13, O \cup {DevClaim, DevVolume})
  <2>1. Apart(M12, {<<"service", "worker">>, Deployment("worker"), Configmap("worker")})
    BY DEF Apart, Admin, Plugin, DevClaim, DevVolume, Deployment, Configmap,
           M1, M2, M3, M4, M5, M6, M7, M8, M9, M10, M11, M12, C
  <2>2. Section(StartService("worker", TRUE),
                {<<"service", "worker">>, Deployment("worker"), Configmap("worker")}, {})
    BY ConfiguredSection DEF Configured
  <2>3. Section(s13, M13, (O \cup {DevClaim, DevVolume}) \cup {})
    BY <1>12, <2>1, <2>2, Sections DEF s13, M13
  <2>4. (O \cup {DevClaim, DevVolume}) \cup {} = (O \cup {DevClaim, DevVolume})
    OBVIOUS
  <2>5. QED
    BY <2>3, <2>4
<1>14. Section(s14, M14, O \cup {DevClaim, DevVolume})
  <2>1. Apart(M13, {<<"ingress", "ingress">>})
    BY DEF Apart, Admin, Plugin, DevClaim, DevVolume, Deployment, Configmap,
           M1, M2, M3, M4, M5, M6, M7, M8, M9, M10, M11, M12, M13, C
  <2>2. Section(<< Unless(<<"ingress", "ingress">>, TRUE, << Make("ingress", "ingress") >>),
               Command("setup", {}) >>,
                {<<"ingress", "ingress">>}, {})
    BY LastSection
  <2>3. Section(s14, M14, (O \cup {DevClaim, DevVolume}) \cup {})
    BY <1>13, <2>1, <2>2, Sections DEF s14, M14
  <2>4. (O \cup {DevClaim, DevVolume}) \cup {} = (O \cup {DevClaim, DevVolume})
    OBVIOUS
  <2>5. QED
    BY <2>3, <2>4
<1>15. M14 = Whole \cup C
  <2>1. \A r : r \in M14 <=> r \in Whole \cup C
    BY DEF Whole, Supplies, DevClaim, DevVolume, Deployment, Configmap,
           M1, M2, M3, M4, M5, M6, M7, M8, M9, M10, M11, M12, M13, M14
  <2>2. QED
    BY <2>1
<1>16. s14 = DeployScript(k)
  BY DEF DeployScript, s1, s2, s3, s4, s5, s6, s7, s8, s9, s10, s11, s12, s13, s14
<1>17. Section(DeployScript(k), Whole \cup C, {DevClaim, DevVolume} \cup O)
  <2>1. O \cup {DevClaim, DevVolume} = {DevClaim, DevVolume} \cup O
    OBVIOUS
  <2>2. QED
    BY <1>14, <1>15, <1>16, <2>1
<1>18. DeployScript(k)[Len(DeployScript(k))].op = "setup"
  <2>1. PICK t : t = << Unless(<<"ingress", "ingress">>, TRUE, << Make("ingress", "ingress") >>),
                        Command("setup", {}) >>
    OBVIOUS
  <2>2. t # <<>> /\ t[Len(t)].op = "setup"
    BY <2>1 DEF Command
  <2>3. t \in Seq(Steps \cup Groups) /\ Chained(t) /\ t[1].op # "label"
    BY <2>1, LastSection DEF Section
  <2>4. s13 \in Seq(Steps \cup Groups) /\ s13 # <<>> /\ Chained(s13)
    BY <1>13 DEF Section
  <2>5. (s13 \o t)[Len(s13 \o t)] = t[Len(t)]
    BY <2>2, <2>3, <2>4, ChainedConcat
  <2>6. s14 = s13 \o t
    BY <2>1 DEF s14
  <2>7. QED
    BY <1>16, <2>2, <2>5, <2>6
<1>19. QED
  BY <1>17, <1>18 DEF C, O, Section, Plan
------------------------------------------------------------------------------
(* How runs begin *)

LEMMA InitHolds == ASSUME Init PROVE Inv
<1>1. /\ cluster \in {{}, {Minikube}} /\ labelled = {} /\ foreign \subseteq Lookalikes
      /\ data = "fresh" /\ budget = Limit
      /\ run.cmd = "none" /\ run.result = "none" /\ run.todo = <<>>
  BY DEF Init, NewRun
<1>2. RunInv
  <2>1. <<>> \in Seq(Commands)
    BY EmptySeq
  <2>2. run \in Runs
    BY <2>1 DEF Init, NewRun, Runs
  <2>3. QED
    BY <1>1, <2>2 DEF RunInv
<1>3. BudgetInv
  <2>1. budget \in [Kinds -> Nat]
    BY <1>1, ConstantsOK DEF Limit, Kinds
  <2>2. \A k \in Kinds : Limit[k] \in Nat /\ budget[k] = Limit[k]
    BY <1>1, ConstantsOK
  <2>3. QED
    BY <2>1, <2>2 DEF BudgetInv
<1>4. ClusterInv /\ DataInv
  BY <1>1 DEF ClusterInv, DataInv, Foundation
<1>5. SupplyInv
  <2>1. \A n : Deployment(n) # Minikube
    BY DEF Deployment, Minikube
  <2>2. QED
    BY <1>1, <2>1 DEF SupplyInv
<1>6. ProgressInv /\ DeployInv /\ SlateInv /\ CleanInv
  BY <1>1 DEF ProgressInv, DeployInv, SlateInv, CleanSlate, CleanInv, During
<1>7. LooseInv
  <2>1. Minikube \notin LabelledLate
    BY DEF Minikube, LabelledLate, Configmaps, Configured, Configmap
  <2>2. Loose = {}
    BY <1>1, <2>1 DEF Loose
  <2>3. Cardinality(Loose) = 0
    BY <2>2, FS_EmptySet
  <2>4. budget["stop"] = MaxStops /\ MaxStops \in Nat
    BY <1>1, ConstantsOK DEF Limit, Kinds
  <2>5. ~Active("label")
    BY <1>1 DEF Active
  <2>6. QED
    BY <2>3, <2>4, <2>5 DEF LooseInv
<1>8. QED
  BY <1>2, <1>3, <1>4, <1>5, <1>6, <1>7 DEF Inv

(* What a new run finds as it was. *)
LEMMA BeginFacts ==
    ASSUME Inv, NEW cmd \in {"deploy", "clean"}, Begin(cmd)
    PROVE  /\ \E k \in BOOLEAN :
                 /\ run'.todo = (IF cmd = "clean" THEN CleanScript(k) ELSE DeployScript(k))
                 /\ run'.k = k
                 /\ run'.todo \in Seq(Commands) /\ run'.todo # <<>> => RunInv'
           /\ run'.cmd = cmd /\ run'.result = "running"
           /\ run'.slate => run.cmd = "clean" /\ run.result = "done"
           /\ UNCHANGED <<cluster, labelled, foreign, data>>
           /\ ClusterInv' /\ SupplyInv' /\ BudgetInv' /\ DataInv' /\ LooseInv'
<1>1. /\ run.result # "running" /\ Spend("run")
      /\ UNCHANGED <<cluster, labelled, foreign, data>>
  BY DEF Begin
<1>2. PICK cont \in BOOLEAN, k \in BOOLEAN :
          run' = [cmd |-> cmd, cont |-> cont, k |-> k,
                  slate |-> run.cmd = "clean" /\ run.result = "done", blind |-> FALSE,
                  todo |-> IF cmd = "clean" THEN CleanScript(k) ELSE DeployScript(k),
                  result |-> "running"]
  BY DEF Begin
<1>3. /\ run'.todo = (IF cmd = "clean" THEN CleanScript(k) ELSE DeployScript(k))
      /\ run'.k = k /\ run'.cmd = cmd /\ run'.result = "running"
      /\ run'.slate => run.cmd = "clean" /\ run.result = "done"
  BY <1>2
<1>4. ASSUME run'.todo \in Seq(Commands), run'.todo # <<>> PROVE RunInv'
  <2>1. run' \in Runs
    BY <1>2, <1>4 DEF Runs
  <2>2. QED
    BY <1>3, <1>4, <2>1 DEF RunInv
<1>5. ClusterInv' /\ SupplyInv' /\ DataInv' /\ Loose' = Loose
  BY <1>1, Same DEF Inv, DataInv
<1>6. BudgetInv' /\ budget'["stop"] <= budget["stop"]
  <2>1. BudgetInv' /\ budget'["stop"] = budget["stop"]
    BY <1>1, Spent DEF Inv, Kinds
  <2>2. budget["stop"] \in Nat
    BY DEF Inv, BudgetInv, Kinds
  <2>3. QED
    BY <2>1, <2>2
<1>7. LooseInv'
  <2>1. ~Active("label")
    BY <1>1 DEF Active
  <2>2. QED
    BY <1>5, <1>6, <2>1, NoLooser DEF Inv
<1>8. QED
  BY <1>1, <1>3, <1>4, <1>5, <1>6, <1>7

LEMMA CleanBegins == ASSUME Inv, Begin("clean") PROVE Inv'
<1>1. PICK k \in BOOLEAN :
          /\ run'.todo = CleanScript(k) /\ run'.k = k
          /\ run'.todo \in Seq(Commands) /\ run'.todo # <<>> => RunInv'
  BY BeginFacts
<1>2. /\ run'.cmd = "clean" /\ run'.result = "running"
      /\ UNCHANGED <<cluster, labelled, foreign, data>>
      /\ ClusterInv' /\ SupplyInv' /\ BudgetInv' /\ DataInv' /\ LooseInv'
  BY BeginFacts
<1>3. PICK s : s = CleanScript(k)
  OBVIOUS
<1>4. /\ s \in Seq(CleanCommands) /\ s # <<>> /\ \A i \in 2..Len(s) : s[i] # Delete("deployment")
      /\ \A kind \in CleanKinds : Delete(kind) \in Range(s)
      /\ Command("wipe", {}) \in Range(s)
      /\ k => Command("destroy", {}) \in Range(s)
  BY <1>3, CleanScriptOf
<1>5. s \in Seq(Commands)
  BY <1>4, SeqMonotonic DEF Commands
<1>6. RunInv'
  BY <1>1, <1>3, <1>4, <1>5
<1>7. CleanInv'
  BY <1>1, <1>2, <1>3, <1>4 DEF CleanInv, During
<1>8. ProgressInv' /\ DeployInv' /\ SlateInv'
  BY <1>2 DEF ProgressInv, DeployInv, SlateInv, CleanSlate, During
<1>9. QED
  BY <1>2, <1>6, <1>7, <1>8 DEF Inv

(* After a clean that went through, nothing is there that is made without   *)
(* looking.                                                                 *)
LEMMA Slate ==
    ASSUME Inv, run.cmd = "clean", run.result = "done"
    PROVE  DevClaim \notin cluster /\ DevVolume \notin cluster
<1>1. run.todo = <<>>
  BY DEF Inv, RunInv
<1>2. \A r \in labelled : r[1] \notin CleanKinds
  BY <1>1, MadeEmpty DEF Inv, CleanInv, During
<1>3. {DevClaim, DevVolume} \cap (LabelledLate \cup Foundation) = {}
  <2>1. \A r \in LabelledLate \cup Foundation : r # DevClaim /\ r # DevVolume
    BY DEF DevClaim, DevVolume, LabelledLate, Configmaps, Configured, Configmap, Foundation,
           Extras, Plugin, Minikube
  <2>2. QED
    BY <2>1
<1>4. DevClaim[1] \in CleanKinds /\ DevVolume[1] \in CleanKinds
  BY DEF DevClaim, DevVolume, CleanKinds
<1>5. QED
  BY <1>2, <1>3, <1>4 DEF Inv, ClusterInv

LEMMA DeployBegins == ASSUME Inv, Begin("deploy") PROVE Inv'
<1>1. PICK k \in BOOLEAN :
          /\ run'.todo = DeployScript(k) /\ run'.k = k
          /\ run'.todo \in Seq(Commands) /\ run'.todo # <<>> => RunInv'
  BY BeginFacts
<1>2. /\ run'.cmd = "deploy" /\ run'.result = "running"
      /\ run'.slate => run.cmd = "clean" /\ run.result = "done"
      /\ UNCHANGED <<cluster, labelled, foreign, data>>
      /\ ClusterInv' /\ SupplyInv' /\ BudgetInv' /\ DataInv' /\ LooseInv'
  BY BeginFacts
<1>3. PICK s : s = DeployScript(k)
  OBVIOUS
<1>4. /\ s \in Seq(Steps \cup Groups) /\ s # <<>> /\ s[1].op # "label" /\ Plan(s)
      /\ Made(s) = Whole \cup (IF k THEN {Admin} \cup Plugin ELSE {})
      /\ Open(s) = {DevClaim, DevVolume} \cup (IF k THEN Plugin ELSE {})
  <2>1. /\ Section(DeployScript(k), Whole \cup (IF k THEN {Admin} \cup Plugin ELSE {}),
                   {DevClaim, DevVolume} \cup (IF k THEN Plugin ELSE {}))
        /\ Plan(DeployScript(k))
    BY DeployScriptOf
  <2>2. QED
    BY <1>3, <2>1 DEF Section
<1>5. s \in Seq(Commands)
  BY <1>4, SeqMonotonic DEF Commands
<1>6. RunInv'
  BY <1>1, <1>3, <1>4, <1>5
<1>7. DevClaim \in Whole /\ DevVolume \in Whole /\ \A n \in Configured : Configmap(n) \in Whole
  BY DEF DevClaim, DevVolume, Whole, Configured, Configmap
<1>8. ProgressInv'
  <2>1. run'.todo = s /\ Whole \subseteq Made(s)
    BY <1>1, <1>3, <1>4
  <2>2. QED
    BY <1>2, <1>7, <2>1 DEF ProgressInv, During
<1>9. DeployInv'
  <2>1. \A n : Deployment(n) \notin Open(s)
    <3>1. \A n : Deployment(n) \notin {DevClaim, DevVolume} \cup Plugin
      BY DEF Deployment, DevClaim, DevVolume, Plugin
    <3>2. QED
      BY <1>4, <3>1
  <2>2. \A n : Make("deployment", n) \notin Range(s)
    <3>1. \A n : Deployment(n) \in Direct(Make("deployment", n))
      BY DEF Direct, Make, Command, Deployment
    <3>2. QED
      BY <2>1, <3>1, MadeOf
  <2>3. DevClaim \in Made(s)
    BY <1>4, <1>7
  <2>4. Head(s).op # "label"
    BY <1>4, TailOf
  <2>5. QED
    BY <1>1, <1>3, <1>4, <2>1, <2>2, <2>3, <2>4 DEF DeployInv
<1>10. SlateInv'
  <2>1. CleanSlate'
    BY <1>2 DEF CleanSlate
  <2>2. ASSUME ~k, run'.slate
        PROVE  /\ \A c \in Range(s) : c.op = "unless" => c.what # Minikube
               /\ \A r \in Open(s) : r \in Whole /\ r \notin cluster'
    <3>1. Made(s) = Whole /\ Open(s) = {DevClaim, DevVolume}
      BY <1>4, <2>2
    <3>2. Admin \notin Whole /\ Minikube \notin Whole
      BY DEF Admin, Minikube, Whole
    <3>3. ASSUME NEW c \in Range(s), c.op = "unless" PROVE c.what # Minikube
      <4>1. c \in Groups
        BY <1>4, <3>3, InRange, PlannedKinds
      <4>2. c.what = Minikube => Creates(c) = {Admin}
        BY <3>2, <4>1, GroupKinds DEF Fit
      <4>3. Creates(c) \subseteq Made(s)
        BY <3>3, MadeOf
      <4>4. QED
        BY <3>1, <3>2, <4>2, <4>3
    <3>4. DevClaim \notin cluster' /\ DevVolume \notin cluster'
      BY <1>2, <2>2, Slate
    <3>5. QED
      BY <1>7, <3>1, <3>3, <3>4
  <2>3. QED
    BY <1>1, <1>3, <2>1, <2>2 DEF SlateInv
<1>11. CleanInv'
  BY <1>2 DEF CleanInv, During
<1>12. QED
  BY <1>2, <1>6, <1>8, <1>9, <1>10, <1>11 DEF Inv
------------------------------------------------------------------------------
(* The theorems *)

LEMMA StepKeeps == ASSUME Inv, [Next]_vars PROVE Inv'
<1>1. CASE UNCHANGED vars
  <2>1. UNCHANGED <<cluster, labelled, foreign, data, run, budget>>
    BY <1>1 DEF vars
  <2>2. RunInv' /\ BudgetInv' /\ DataInv' /\ ClusterInv' /\ SupplyInv'
    BY <2>1 DEF Inv, RunInv, BudgetInv, DataInv, ClusterInv, SupplyInv
  <2>3. ProgressInv' /\ DeployInv' /\ CleanInv'
    BY <2>1 DEF Inv, ProgressInv, DeployInv, CleanInv, During
  <2>4. SlateInv'
    BY <2>1 DEF Inv, SlateInv, CleanSlate, During
  <2>5. LooseInv'
    BY <2>1 DEF Inv, LooseInv, Loose, Active
  <2>6. QED
    BY <2>2, <2>3, <2>4, <2>5 DEF Inv
<1>2. CASE Next
  BY <1>2, CleanBegins, DeployBegins, CheckKeeps, CreateKeeps, LabelKeeps, EnsureKeeps,
     ReplaceKeeps, SetUpKeeps, DeleteKeeps, WipeKeeps, StopKeeps DEF Next
<1>3. QED
  BY <1>1, <1>2

LEMMA Invariant == Spec => []Inv
<1>1. Init => Inv
  BY InitHolds
<1>2. Inv /\ [Next]_vars => Inv'
  BY StepKeeps
<1>3. QED
  BY <1>1, <1>2, PTL DEF Spec

(* Only what exists has a label, and a run is under way as long as it has   *)
(* something left to do (lib and the two scripts).                          *)
THEOREM TypeCorrect == Spec => []TypeOK
<1>1. Inv => TypeOK
  <2>1. SUFFICES ASSUME Inv PROVE TypeOK
    OBVIOUS
  <2>2. labelled \subseteq cluster /\ foreign \subseteq Lookalikes
        /\ data \in {"fresh", "claimed", "ready"}
    BY <2>1 DEF Inv, ClusterInv, DataInv
  <2>3. /\ run.cmd \in {"none", "deploy", "clean"}
        /\ {run.cont, run.k, run.slate, run.blind} \subseteq BOOLEAN
        /\ run.result \in {"none", "running", "done", "exists", "failed", "stopped"}
        /\ run.result = "running" <=> run.todo # <<>>
    BY <2>1 DEF Inv, RunInv, Runs
  <2>4. \A k \in Kinds : budget[k] \in 0..Limit[k]
    BY <2>1, ConstantsOK DEF Inv, BudgetInv
  <2>5. QED
    BY <2>2, <2>3, <2>4 DEF TypeOK
<1>2. QED
  BY <1>1, Invariant, PTL

(* A deployment finds the claims, secrets and configmap that it mounts,     *)
(* other than those that a lookalike hid, whatever was stopped or repeated  *)
(* (deploy.sh:85-104, clean.sh:28-30, lib:225-296).                        *)
THEOREM WorkloadsAreSupplied == Spec => []WorkloadsSupplied
<1>1. Inv => WorkloadsSupplied
  BY DEF Inv, SupplyInv, WorkloadsSupplied, Deployment
<1>2. QED
  BY <1>1, Invariant, PTL

(* A configmap that a deployment uses has its label, although it is created *)
(* and labelled in two calls (lib:225-256).                                 *)
THEOREM ConfigmapsAreLabelled == Spec => []ConfigmapsLabelled
<1>1. Inv => ConfigmapsLabelled
  <2>1. SUFFICES ASSUME Inv, NEW r \in cluster \ labelled, r[1] = "configmap"
                 PROVE  <<"deployment", r[2]>> \notin cluster
    BY DEF ConfigmapsLabelled
  <2>2. r \in LabelledLate \cup Foundation
    BY <2>1 DEF Inv, ClusterInv
  <2>3. \A x \in {<<"secret", "dev-cert">>, <<"secret", "site-cert">>} \cup Foundation :
            x[1] # "configmap"
    BY DEF Foundation, Extras, Plugin, Minikube
  <2>4. PICK n \in Configured : r = Configmap(n)
    BY <2>1, <2>2, <2>3 DEF LabelledLate, Configmaps
  <2>5. n \in DOMAIN Supplies /\ r[2] = n
    BY <2>4 DEF Configured, Supplies, Configmap
  <2>6. QED
    BY <2>1, <2>4, <2>5 DEF Inv, SupplyInv, Deployment
<1>2. QED
  BY <1>1, Invariant, PTL

(* A deployment that reports no failure has made everything but what a      *)
(* lookalike hid, and a ready Girder (deploy.sh:43-117).                    *)
THEOREM CompletedRunsAreWhole == Spec => []CompletedIsWhole
<1>1. Inv => CompletedIsWhole
  <2>1. SUFFICES ASSUME Inv, run.cmd = "deploy", run.result = "done"
                 PROVE  /\ data = "ready"
                        /\ \A r \in Whole \ cluster :
                              \/ r \in foreign
                              \/ r[1] = "configmap" /\ <<"deployment", r[2]>> \in foreign
    BY DEF CompletedIsWhole
  <2>2. run.todo = <<>>
    BY <2>1 DEF Inv, RunInv
  <2>3. Made(run.todo) = {}
    BY <2>2, MadeEmpty
  <2>4. /\ \A r \in Whole \ Configmaps : r \in cluster \cup foreign
        /\ \A n \in Configured : Configmap(n) \in cluster \/ Deployment(n) \in foreign
        /\ data = "ready"
    BY <2>1, <2>3 DEF Inv, ProgressInv, During
  <2>5. \A n : Configmap(n)[1] = "configmap" /\ Configmap(n)[2] = n
    BY DEF Configmap
  <2>6. QED
    BY <2>4, <2>5 DEF Configmaps, Deployment
<1>2. QED
  BY <1>1, Invariant, PTL

(* After a clean that went through, the data are gone and, apart from what  *)
(* belongs to the cluster, no more is left than one resource for each run   *)
(* that was stopped before it could label it (clean.sh:28-46).              *)
THEOREM CleanLeavesLittle == Spec => []AfterClean
<1>1. Inv => AfterClean
  <2>1. SUFFICES ASSUME Inv, run.cmd = "clean", run.result = "done" PROVE AfterClean
    BY DEF AfterClean
  <2>2. run.todo = <<>>
    BY <2>1 DEF Inv, RunInv
  <2>3. /\ \A r \in labelled : r[1] \notin CleanKinds
        /\ data = "fresh" /\ (run.k => cluster = {})
    BY <2>1, <2>2, MadeEmpty DEF Inv, CleanInv, During
  <2>4. cluster \ Foundation \subseteq Loose
    <3>1. \A r \in Whole : r[1] \in CleanKinds
      BY DEF Whole, CleanKinds
    <3>2. cluster \ Foundation \subseteq Whole
      BY <2>1 DEF Inv, ClusterInv
    <3>3. \A r \in cluster \ Foundation : r \notin labelled
      BY <2>3, <3>1, <3>2
    <3>4. QED
      BY <2>1, <3>3 DEF Inv, ClusterInv, Loose
  <2>5. Cardinality(cluster \ Foundation) <= MaxStops - budget["stop"]
    <3>1. IsFiniteSet(Loose) /\ Cardinality(Loose) \in Nat
      BY LooseFinite
    <3>2. /\ Cardinality(cluster \ Foundation) <= Cardinality(Loose)
          /\ Cardinality(cluster \ Foundation) \in Nat
      BY <2>4, <3>1, FS_Subset, FS_CardinalityType
    <3>3. MaxStops \in Nat /\ budget["stop"] \in Nat
      BY <2>1, ConstantsOK DEF Kinds, Limit, Inv, BudgetInv
    <3>4. ~Active("label")
      BY <2>1 DEF Active
    <3>5. Cardinality(Loose) <= MaxStops - budget["stop"]
      BY <2>1, <3>1, <3>3, <3>4 DEF Inv, LooseInv
    <3>6. QED
      BY <3>1, <3>2, <3>3, <3>5
  <2>6. QED
    BY <2>3, <2>5 DEF AfterClean, Foundation
<1>2. QED
  BY <1>1, Invariant, PTL

(* A default run right after such a clean is never refused because          *)
(* something exists already, whatever was left (deploy.sh:85-109).          *)
THEOREM CleanSlateHolds == Spec => []CleanSlate
<1>1. Inv => CleanSlate
  BY DEF Inv, SlateInv
<1>2. QED
  BY <1>1, Invariant, PTL
=============================================================================
