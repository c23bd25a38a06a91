------------------------- MODULE PublishItemsProofs -------------------------
(***************************************************************************)
(* What becomes of the items of a tale in Publish: a package accounts for   *)
(* each of them, and one whose items nobody edits lists each where it is.   *)
(* The loops are followed by their index: what they have done is what comes *)
(* before it in the lists they walk.                                        *)
(***************************************************************************)
EXTENDS PublishProofs

EmlItems(t) == t.dataone \o t.local_items \o t.remote
External(t) == t.remote \o t.dataone
Counted(t) == Len(t.dataone) + Len(t.local_items) + Len(t.remote)
Listed(t) == Range(t.dataone) \cup Range(t.local_items) \cup Range(t.remote)
Before(s, i) == {s[j] : j \in 1..(i - 1)}
FilePids(p, is) == {Pid(p, "file", i) : i \in is}

Sorting == {"idle", "filter", "relist"}
Sorted == Pcs \ (Sorting \cup {"ended"})
Uploaded == Sorted \ {"upload"}
Referenced == Uploaded \ {"paths", "external"}
Described == {"eml", "map"}

(* filter_items has put what it has seen in one list each. *)
SortedInv(t) ==
    /\ t.pc = "idle" => t.i = 1
    /\ t.pc \in Sorting => /\ t.i <= NItems + 1
                           /\ Counted(t) = t.i - 1 /\ Listed(t) = 1..(t.i - 1)
    /\ t.pc \in Sorted => Counted(t) = NItems /\ Listed(t) = Items

(* The file pids are those of the local items that were uploaded, and the   *)
(* other pids are not of files.                                             *)
UploadedInv(p, t) ==
    /\ t.pc \in Sorting => Range(t.local_file_pids) = {}
    /\ t.pc = "upload" =>
          /\ t.i <= Len(t.local_items) + 1
          /\ Range(t.local_file_pids) = FilePids(p, Before(t.local_items, t.i))
    /\ t.pc \in Uploaded => Range(t.local_file_pids) = FilePids(p, Range(t.local_items))
    /\ t.pc # "ended" => /\ t.license_pid \in {NoPid, Pid(p, "license", 0)}
                         /\ t.repository_pid \in {NoPid, Pid(p, "repository", 0)}

(* The EML record describes the items as they come in the lists. *)
DescribedInv(t) ==
    /\ t.pc \notin {"describe", "eml", "map", "ended"} => t.described = <<>>
    /\ t.pc = "describe" =>
          /\ t.i <= Len(EmlItems(t)) + 1
          /\ Len(t.described) = t.i - 1 /\ Range(t.described) = Before(EmlItems(t), t.i)
    /\ t.pc \in Described => Len(t.described) = NItems /\ Range(t.described) = Items

(* Of items that do not change: the lists agree with the links, and tale.yml *)
(* has the external ones as far as the loop has come.                        *)
LocatedInv(t, g) ==
    t.pc # "ended" =>
     /\ \A i \in Range(t.dataone) \cup Range(t.remote) : g[i].link # "none"
     /\ \A i \in Range(t.local_items) : g[i].link = "none"
     /\ t.pc = "relist" => g[t.i].link = "none"
     /\ t.pc \in (Pcs \ Referenced) \ {"external"} => t.reference_file = {}
     /\ t.pc = "external" => /\ t.i <= Len(External(t)) + 1
                             /\ Refers(t.reference_file, Before(External(t), t.i), g)
     /\ t.pc \in Referenced =>
            Refers(t.reference_file, Range(t.remote) \cup Range(t.dataone), g)

Unedited == Used("edit") = 0

ItemsInv ==
    /\ \A p \in Tasks : /\ SortedInv(tasks[p])
                        /\ UploadedInv(p, tasks[p])
                        /\ DescribedInv(tasks[p])
                        /\ Unedited => LocatedInv(tasks[p], girder)
    /\ Used("edit") = 0 => \A i \in Items : girder[i].has = "file"
    /\ ItemsAccounted
    /\ ItemsLocated

TaskInv(p, t) ==
    /\ SortedInv(t) /\ UploadedInv(p, t) /\ DescribedInv(t)
    /\ Unedited => LocatedInv(t, girder)
------------------------------------------------------------------------------
(* Sequences *)

LEMMA RangeAppend ==
    ASSUME NEW S, NEW s \in Seq(S), NEW x \in S
    PROVE  /\ Range(Append(s, x)) = Range(s) \cup {x}
           /\ Len(Append(s, x)) = Len(s) + 1
<1>. DEFINE n == Len(s)
            r == Append(s, x)
<1>1. /\ n \in Nat /\ DOMAIN s = 1..n /\ DOMAIN r = 1..(n + 1)
      /\ Len(r) = n + 1 /\ r[n + 1] = x /\ \A i \in 1..n : r[i] = s[i]
  BY AppendProperties
<1>2. 1..(n + 1) = (1..n) \cup {n + 1}
  BY <1>1
<1>. HIDE DEF n, r
<1>3. Range(r) = Range(s) \cup {x}
  BY <1>1, <1>2 DEF Range
<1>4. QED
  BY <1>1, <1>3 DEF n, r

LEMMA RangeConcat ==
    ASSUME NEW S, NEW s \in Seq(S), NEW t \in Seq(S)
    PROVE  /\ Range(s \o t) = Range(s) \cup Range(t)
           /\ Len(s \o t) = Len(s) + Len(t)
           /\ s \o t \in Seq(S)
<1>1. /\ s \o t \in Seq(S) /\ Len(s \o t) = Len(s) + Len(t)
      /\ \A i \in 1..(Len(s) + Len(t)) :
            (s \o t)[i] = IF i <= Len(s) THEN s[i] ELSE t[i - Len(s)]
  BY ConcatProperties
<1>2. /\ DOMAIN (s \o t) = 1..(Len(s) + Len(t)) /\ DOMAIN s = 1..Len(s) /\ DOMAIN t = 1..Len(t)
      /\ Len(s) \in Nat /\ Len(t) \in Nat
  BY <1>1
<1>3. ASSUME NEW i \in DOMAIN (s \o t) PROVE (s \o t)[i] \in Range(s) \cup Range(t)
  <2>1. CASE i <= Len(s)
    BY <1>1, <1>2, <2>1 DEF Range
  <2>2. CASE i > Len(s)
    <3>1. i - Len(s) \in DOMAIN t /\ (s \o t)[i] = t[i - Len(s)]
      BY <1>1, <1>2, <2>2
    <3>2. QED
      BY <3>1 DEF Range
  <2>3. QED
    BY <1>2, <2>1, <2>2
<1>4. ASSUME NEW i \in DOMAIN s PROVE s[i] \in Range(s \o t)
  <2>1. i \in DOMAIN (s \o t) /\ (s \o t)[i] = s[i]
    BY <1>1, <1>2
  <2>2. QED
    BY <2>1 DEF Range
<1>5. ASSUME NEW i \in DOMAIN t PROVE t[i] \in Range(s \o t)
  <2>1. Len(s) + i \in DOMAIN (s \o t) /\ (s \o t)[Len(s) + i] = t[i]
    BY <1>1, <1>2
  <2>2. QED
    BY <2>1 DEF Range
<1>6. Range(s \o t) = Range(s) \cup Range(t)
  BY <1>3, <1>4, <1>5 DEF Range
<1>7. QED
  BY <1>1, <1>6

LEMMA SumNext ==
    ASSUME NEW a \in Nat, NEW b \in Nat, NEW c \in Nat
    PROVE  /\ (a + 1) + b + c = a + b + c + 1
           /\ a + (b + 1) + c = a + b + c + 1
           /\ a + b + (c + 1) = a + b + c + 1
OBVIOUS

LEMMA CountedNext ==
    ASSUME NEW t, NEW u, Len(t.dataone) \in Nat, Len(t.local_items) \in Nat, Len(t.remote) \in Nat,
           \/ /\ Len(u.dataone) = Len(t.dataone) + 1
              /\ Len(u.local_items) = Len(t.local_items) /\ Len(u.remote) = Len(t.remote)
           \/ /\ Len(u.local_items) = Len(t.local_items) + 1
              /\ Len(u.dataone) = Len(t.dataone) /\ Len(u.remote) = Len(t.remote)
           \/ /\ Len(u.remote) = Len(t.remote) + 1
              /\ Len(u.dataone) = Len(t.dataone) /\ Len(u.local_items) = Len(t.local_items)
    PROVE  Counted(u) = Counted(t) + 1
<1>1. \/ Counted(u) = (Len(t.dataone) + 1) + Len(t.local_items) + Len(t.remote)
      \/ Counted(u) = Len(t.dataone) + (Len(t.local_items) + 1) + Len(t.remote)
      \/ Counted(u) = Len(t.dataone) + Len(t.local_items) + (Len(t.remote) + 1)
  BY Zenon DEF Counted
<1>2. /\ (Len(t.dataone) + 1) + Len(t.local_items) + Len(t.remote) = Counted(t) + 1
      /\ Len(t.dataone) + (Len(t.local_items) + 1) + Len(t.remote) = Counted(t) + 1
      /\ Len(t.dataone) + Len(t.local_items) + (Len(t.remote) + 1) = Counted(t) + 1
  BY SumNext, Zenon DEF Counted
<1>3. QED
  BY <1>1, <1>2, Zenon

LEMMA BeforeAll ==
    ASSUME NEW S, NEW s \in Seq(S), NEW i, i = Len(s) + 1
    PROVE  Before(s, i) = Range(s)
BY DEF Before, Range

LEMMA BeforeNext ==
    ASSUME NEW s, NEW i \in Nat \ {0}
    PROVE  Before(s, i + 1) = Before(s, i) \cup {s[i]} /\ Before(s, 1) = {}
BY DEF Before

LEMMA EmlItemsListed ==
    ASSUME NEW t, GoodTask(t)
    PROVE  /\ EmlItems(t) \in Seq(Items) /\ Len(EmlItems(t)) = Counted(t)
           /\ Range(EmlItems(t)) = Listed(t)
           /\ External(t) \in Seq(Items)
           /\ Range(External(t)) = Range(t.remote) \cup Range(t.dataone)
           /\ Len(t.dataone) \in Nat /\ Len(t.local_items) \in Nat /\ Len(t.remote) \in Nat
<1>1. t.dataone \in Seq(Items) /\ t.local_items \in Seq(Items) /\ t.remote \in Seq(Items)
  BY FieldsTyped
<1>. DEFINE first == t.dataone \o t.local_items
<1>2. /\ first \in Seq(Items)
      /\ Len(first) = Len(t.dataone) + Len(t.local_items)
      /\ Range(first) = Range(t.dataone) \cup Range(t.local_items)
  BY <1>1, RangeConcat
<1>3. /\ EmlItems(t) \in Seq(Items)
      /\ Len(EmlItems(t)) = Len(first) + Len(t.remote)
      /\ Range(EmlItems(t)) = Range(first) \cup Range(t.remote)
  <2>1. EmlItems(t) = first \o t.remote
    BY DEF EmlItems
  <2>2. /\ first \o t.remote \in Seq(Items)
        /\ Len(first \o t.remote) = Len(first) + Len(t.remote)
        /\ Range(first \o t.remote) = Range(first) \cup Range(t.remote)
    <3>1. first \in Seq(Items) /\ t.remote \in Seq(Items)
      BY <1>1, <1>2
    <3>. HIDE DEF first
    <3>2. QED
      BY <3>1, RangeConcat
  <2>3. QED
    BY <2>1, <2>2
<1>4. /\ External(t) \in Seq(Items)
      /\ Range(External(t)) = Range(t.remote) \cup Range(t.dataone)
  BY <1>1, RangeConcat DEF External
<1>5. QED
  BY <1>1, <1>2, <1>3, <1>4 DEF Counted, Listed
------------------------------------------------------------------------------
(* Steps that do not touch a loop's list *)

LEMMA ItemsTaskStep ==
    ASSUME PackageInv, ItemsInv, NEW p \in Tasks, NEW u, tasks[p].pc # "ended",
           Becomes(p, u), girder' = girder, Used("edit")' = Used("edit"),
           maps' = maps, TaskInv(p, u)
    PROVE  ItemsInv'
<1>1. TypeOK /\ \A m \in maps : m.task \in Tasks /\ m.task # p
  BY DEF PackageInv, TypeOK
<1>2. tasks'[p] = u /\ \A q \in Tasks \ {p} : tasks'[q] = tasks[q]
  BY <1>1 DEF Becomes, TypeOK
<1>3. Unedited' = Unedited
  BY DEF Unedited
<1>4. ASSUME NEW q \in Tasks
      PROVE  /\ SortedInv(tasks'[q]) /\ UploadedInv(q, tasks'[q]) /\ DescribedInv(tasks'[q])
             /\ Unedited' => LocatedInv(tasks'[q], girder')
  <2>1. CASE q = p
    BY <1>2, <1>3, <2>1 DEF TaskInv
  <2>2. CASE q # p
    BY <1>2, <1>3, <2>2 DEF ItemsInv
  <2>3. QED
    BY <2>1, <2>2
<1>5. ItemsAccounted'
  BY <1>1, <1>2 DEF ItemsInv, ItemsAccounted
<1>6. ItemsLocated'
  BY <1>1, <1>2, <1>3 DEF ItemsInv, ItemsLocated, Unedited
<1>7. (Used("edit") = 0 => \A i \in Items : girder[i].has = "file")'
  BY DEF ItemsInv
<1>8. QED
  BY <1>4, <1>5, <1>6, <1>7 DEF ItemsInv

LEMMA TasksInv ==
    ASSUME PackageInv, ItemsInv, NEW p \in Tasks
    PROVE  TypeOK /\ GoodTask(tasks[p]) /\ TaskInv(p, tasks[p])
BY TasksGood DEF PackageInv, ItemsInv, TaskInv

LEMMA EndedInv ==
    ASSUME NEW p, NEW t, GoodTask(t), NEW r
    PROVE  TaskInv(p, Ended(t, r)) /\ Ended(t, r).pc = "ended"
<1>1. Ended(t, r).pc = "ended"
  BY DEF Ended, GoodTask, TaskStates
<1>2. QED
  BY <1>1 DEF TaskInv, SortedInv, UploadedInv, DescribedInv, LocatedInv, Sorting, Sorted,
              Uploaded, Described

(* A task goes on to its next loop or call, with the same lists. *)
Carries(t, u) ==
    /\ u.dataone = t.dataone /\ u.remote = t.remote /\ u.local_items = t.local_items
    /\ u.local_file_pids = t.local_file_pids /\ u.described = t.described
    /\ u.reference_file = t.reference_file

Turns ==
    {<<"idle", "filter">>, <<"filter", "upload">>, <<"upload", "paths">>,
     <<"paths", "external">>, <<"external", "yaml">>, <<"yaml", "license">>,
     <<"license", "repository">>, <<"repository", "describe">>, <<"describe", "eml">>,
     <<"eml", "map">>}

LEMMA TurnInv ==
    ASSUME NEW p \in Tasks, NEW t, GoodTask(t), TaskInv(p, t), NEW u, Carries(t, u), u.i = 1,
           u.license_pid \in {t.license_pid, Pid(p, "license", 0)},
           u.repository_pid \in {t.repository_pid, Pid(p, "repository", 0)},
           <<t.pc, u.pc>> \in Turns,
           t.pc = "filter" => t.i > NItems,
           t.pc = "upload" => t.i > Len(t.local_items),
           t.pc = "external" => t.i > Len(External(t)),
           t.pc = "describe" => t.i > Len(EmlItems(t))
    PROVE  TaskInv(p, u)
<1>1. /\ NItems \in Nat /\ t.i \in Nat \ {0} /\ t.pc \in Pcs
      /\ t.local_items \in Seq(Items) /\ External(t) \in Seq(Items)
      /\ EmlItems(t) \in Seq(Items)
  BY FieldsTyped, EmlItemsListed, ConstantsOK
<1>2. /\ Counted(u) = Counted(t) /\ Listed(u) = Listed(t)
      /\ EmlItems(u) = EmlItems(t) /\ External(u) = External(t)
      /\ u.pc \in Pcs \ {"idle", "relist", "ended"} /\ t.pc # "ended"
  BY DEF Carries, Counted, Listed, EmlItems, External, Turns, Pcs
<1>3. SortedInv(u)
  <2>1. SortedInv(t)
    BY DEF TaskInv
  <2>2. CASE t.pc = "idle"
    BY <1>1, <1>2, <2>1, <2>2 DEF SortedInv, Turns, Sorting, Sorted
  <2>3. CASE t.pc = "filter"
    <3>1. t.i = NItems + 1
      BY <1>1, <2>1, <2>3 DEF SortedInv, Sorting
    <3>2. Counted(u) = NItems /\ Listed(u) = Items
      BY <1>1, <1>2, <2>1, <2>3, <3>1 DEF SortedInv, Sorting, Items
    <3>3. QED
      BY <2>3, <3>2 DEF SortedInv, Turns, Sorting, Sorted
  <2>4. CASE t.pc \notin {"idle", "filter"}
    BY <1>2, <2>1, <2>4 DEF SortedInv, Turns, Sorting, Sorted, Pcs
  <2>5. QED
    BY <2>2, <2>3, <2>4
<1>4. UploadedInv(p, u)
  <2>1. UploadedInv(p, t)
    BY DEF TaskInv
  <2>2. /\ u.license_pid \in {NoPid, Pid(p, "license", 0)}
        /\ u.repository_pid \in {NoPid, Pid(p, "repository", 0)}
    BY <1>2, <2>1 DEF UploadedInv
  <2>3. CASE t.pc = "idle"
    BY <2>1, <2>2, <2>3 DEF UploadedInv, Carries, Turns, Sorting, Sorted, Uploaded
  <2>4. CASE t.pc = "filter"
    <3>1. u.pc = "upload" /\ Range(u.local_file_pids) = {} /\ u.i = 1
      BY <2>1, <2>4 DEF UploadedInv, Carries, Turns, Sorting
    <3>2. FilePids(p, Before(u.local_items, 1)) = {}
      BY DEF FilePids, Before
    <3>3. Len(u.local_items) \in Nat
      BY <1>1 DEF Carries
    <3>4. QED
      BY <2>2, <3>1, <3>2, <3>3 DEF UploadedInv, Sorting, Uploaded, Sorted
  <2>5. CASE t.pc = "upload"
    <3>1. t.i = Len(t.local_items) + 1
      BY <1>1, <2>1, <2>5 DEF UploadedInv
    <3>2. Before(t.local_items, t.i) = Range(t.local_items)
      BY <1>1, <3>1, BeforeAll
    <3>3. u.pc = "paths" /\ Range(u.local_file_pids) = FilePids(p, Range(u.local_items))
      BY <2>1, <2>5, <3>2 DEF UploadedInv, Carries, Turns
    <3>4. QED
      BY <2>2, <3>3 DEF UploadedInv, Sorting
  <2>6. CASE t.pc \notin {"idle", "filter", "upload"}
    <3>1. t.pc \in Uploaded /\ u.pc \in Uploaded
      BY <2>6, <1>1, <1>2 DEF Turns, Uploaded, Sorted, Sorting, Pcs
    <3>2. QED
      BY <2>1, <2>2, <3>1 DEF UploadedInv, Carries, Uploaded, Sorted
  <2>7. QED
    BY <2>3, <2>4, <2>5, <2>6
<1>5. DescribedInv(u)
  <2>1. DescribedInv(t)
    BY DEF TaskInv
  <2>2. CASE t.pc = "repository"
    <3>1. u.pc = "describe" /\ u.described = <<>> /\ u.i = 1
      BY <2>1, <2>2 DEF DescribedInv, Carries, Turns
    <3>2. Before(EmlItems(u), 1) = {} /\ Len(EmlItems(u)) \in Nat
      BY <1>1, <1>2 DEF Before
    <3>3. Range(<<>>) = {} /\ Len(<<>>) = 0
      BY DEF Range
    <3>4. QED
      BY <3>1, <3>2, <3>3 DEF DescribedInv, Described
  <2>3. CASE t.pc = "describe"
    <3>1. t.i = Len(EmlItems(t)) + 1
      BY <1>1, <2>1, <2>3 DEF DescribedInv
    <3>2. /\ Before(EmlItems(t), t.i) = Listed(t) /\ Len(EmlItems(t)) = Counted(t)
      BY <1>1, <3>1, BeforeAll, EmlItemsListed
    <3>3. Counted(t) = NItems /\ Listed(t) = Items
      BY <2>3 DEF TaskInv, SortedInv, Sorted, Pcs, Sorting
    <3>4. u.pc = "eml" /\ Len(u.described) = NItems /\ Range(u.described) = Items
      BY <1>1, <2>1, <2>3, <3>1, <3>2, <3>3 DEF DescribedInv, Carries, Turns
    <3>5. QED
      BY <3>4 DEF DescribedInv
  <2>4. CASE t.pc \notin {"repository", "describe"}
    BY <2>1, <2>4 DEF DescribedInv, Carries, Turns, Described
  <2>5. QED
    BY <2>2, <2>3, <2>4
<1>6. ASSUME Unedited PROVE LocatedInv(u, girder)
  <2>1. LocatedInv(t, girder)
    BY <1>6 DEF TaskInv
  <2>2. /\ \A i \in Range(u.dataone) \cup Range(u.remote) : girder[i].link # "none"
        /\ \A i \in Range(u.local_items) : girder[i].link = "none"
    BY <1>2, <2>1 DEF LocatedInv, Carries
  <2>3. CASE t.pc = "paths"
    <3>1. u.pc = "external" /\ u.reference_file = {} /\ u.i = 1
      BY <1>1, <2>1, <2>3 DEF LocatedInv, Carries, Turns, Referenced, Uploaded
    <3>2. Before(External(u), 1) = {} /\ Len(External(u)) \in Nat
      BY <1>1, <1>2 DEF Before
    <3>3. QED
      BY <2>2, <3>1, <3>2 DEF LocatedInv, Refers, Referenced, Uploaded
  <2>4. CASE t.pc = "external"
    <3>1. t.i = Len(External(t)) + 1
      BY <1>1, <2>1, <2>4 DEF LocatedInv
    <3>2. Before(External(t), t.i) = Range(t.remote) \cup Range(t.dataone)
      BY <1>1, <3>1, BeforeAll, EmlItemsListed
    <3>3. u.pc = "yaml" /\ Refers(u.reference_file, Range(u.remote) \cup Range(u.dataone), girder)
      BY <2>1, <2>4, <3>2 DEF LocatedInv, Carries, Turns
    <3>4. QED
      BY <2>2, <3>3 DEF LocatedInv, Referenced, Uploaded, Sorted, Sorting, Pcs
  <2>5. CASE t.pc \notin {"paths", "external"}
    BY <1>1, <1>2, <2>1, <2>2, <2>5
       DEF LocatedInv, Carries, Turns, Referenced, Uploaded, Sorted, Sorting, Pcs
  <2>6. QED
    BY <2>3, <2>4, <2>5
<1>7. QED
  BY <1>3, <1>4, <1>5, <1>6 DEF TaskInv
------------------------------------------------------------------------------
(* The steps of a task *)

LEMMA OnlyItems ==
    ASSUME PackageInv, ItemsInv, NEW p \in Tasks, NEW u, tasks[p].pc # "ended",
           Only(p, u), TaskInv(p, u)
    PROVE  ItemsInv'
BY ItemsTaskStep DEF Only, Used

(* An edit is the one step that the bound on edits is for. *)
LEMMA OtherSpend ==
    ASSUME TypeOK, NEW k \in Kinds \ {"edit"}, Spend(k)
    PROVE  Used("edit")' = Used("edit")
BY ConstantsOK DEF TypeOK, Spend, Used, Kinds, Limit

LEMMA CreateItems ==
    ASSUME PackageInv, ItemsInv, NEW p \in Tasks, NEW pid, NEW next, NEW broken,
           tasks[p].pc # "ended", Create(p, pid, next, broken),
           TaskInv(p, next), \A u \in broken : TaskInv(p, u)
    PROVE  ItemsInv'
<1>1. PICK u : TaskInv(p, u) /\ Becomes(p, u)
  BY DEF Create
<1>2. Used("edit")' = Used("edit")
  <2>1. "refusal" \in Kinds \ {"edit"} /\ "break" \in Kinds \ {"edit"} /\ TypeOK
    BY DEF Kinds, PackageInv
  <2>2. CASE UNCHANGED budget
    BY <2>2 DEF Used
  <2>3. CASE Spend("refusal") \/ Spend("break")
    BY <2>1, <2>3, OtherSpend
  <2>4. QED
    BY <2>2, <2>3 DEF Create
<1>3. QED
  BY <1>1, <1>2, ItemsTaskStep DEF Create

(* Entering a loop or a call. *)
LEMMA EnteringInv ==
    ASSUME NEW p \in Tasks, NEW t, GoodTask(t), TaskInv(p, t), NEW pc,
           <<t.pc, pc>> \in Turns,
           t.pc = "filter" => t.i > NItems,
           t.pc = "upload" => t.i > Len(t.local_items),
           t.pc = "external" => t.i > Len(External(t)),
           t.pc = "describe" => t.i > Len(EmlItems(t))
    PROVE  TaskInv(p, Entering(t, pc))
<1>. DEFINE u == Entering(t, pc)
<1>1. /\ Carries(t, u) /\ u.i = 1 /\ u.pc = pc
      /\ u.license_pid = t.license_pid /\ u.repository_pid = t.repository_pid
  BY DEF Entering, Carries, GoodTask, TaskStates
<1>. HIDE DEF u
<1>2. TaskInv(p, u)
  BY <1>1, TurnInv
<1>3. QED
  BY <1>2 DEF u

LEMMA ItemsStraight ==
    ASSUME PackageInv, ItemsInv, NEW p \in Tasks,
           \/ Authenticate(p) \/ CreatePaths(p) \/ UploadTaleYaml(p) \/ UploadEml(p)
    PROVE  ItemsInv'
<1>. DEFINE t == tasks[p]
<1>1. GoodTask(t) /\ TaskInv(p, t)
  BY TasksInv
<1>2. \A r : TaskInv(p, Ended(t, r))
  BY <1>1, EndedInv
<1>3. CASE Authenticate(p)
  <2>1. t.pc = "idle" /\ \E u \in {Entering(t, "filter"), Ended(t, "message"),
                                   Ended(t, "raised")} : Only(p, u)
    BY <1>3 DEF Authenticate
  <2>2. TaskInv(p, Entering(t, "filter"))
    BY <1>1, <2>1, EnteringInv DEF Turns
  <2>3. QED
    BY <1>2, <2>1, <2>2, OnlyItems
<1>4. CASE CreatePaths(p)
  <2>1. t.pc = "paths" /\ (Only(p, Ended(t, "raised")) \/ Only(p, Entering(t, "external")))
    BY <1>4 DEF CreatePaths
  <2>2. TaskInv(p, Entering(t, "external"))
    BY <1>1, <2>1, EnteringInv DEF Turns
  <2>3. QED
    BY <1>2, <2>1, <2>2, OnlyItems
<1>5. CASE UploadTaleYaml(p)
  <2>1. /\ t.pc = "yaml"
        /\ Create(p, Pid(p, "yaml", 0), Entering(t, "license"), {Ended(t, "raised")})
    BY <1>5 DEF UploadTaleYaml
  <2>2. TaskInv(p, Entering(t, "license"))
    BY <1>1, <2>1, EnteringInv DEF Turns
  <2>3. QED
    BY <1>2, <2>1, <2>2, CreateItems
<1>6. CASE UploadEml(p)
  <2>1. /\ t.pc = "eml"
        /\ Create(p, Pid(p, "eml", 0), Entering(t, "map"), {Ended(t, "raised")})
    BY <1>6 DEF UploadEml
  <2>2. TaskInv(p, Entering(t, "map"))
    BY <1>1, <2>1, EnteringInv DEF Turns
  <2>3. QED
    BY <1>2, <2>1, <2>2, CreateItems
<1>7. QED
  BY <1>3, <1>4, <1>5, <1>6

LEMMA ItemsLicense ==
    ASSUME PackageInv, ItemsInv, NEW p \in Tasks, UploadLicenseFile(p)
    PROVE  ItemsInv'
<1>. DEFINE t == tasks[p]
            pid == Pid(p, "license", 0)
            u == [Entering(t, "repository") EXCEPT !.license_pid = pid]
<1>1. GoodTask(t) /\ TaskInv(p, t) /\ t.pc = "license"
  BY TasksInv DEF UploadLicenseFile
<1>2. \A r : TaskInv(p, Ended(t, r))
  BY <1>1, EndedInv
<1>3. TaskInv(p, Entering(t, "repository"))
  BY <1>1, EnteringInv DEF Turns
<1>4. TaskInv(p, u)
  <2>1. /\ Carries(t, u) /\ u.i = 1 /\ u.pc = "repository"
        /\ u.license_pid = Pid(p, "license", 0) /\ u.repository_pid = t.repository_pid
    BY <1>1 DEF Entering, Carries, GoodTask, TaskStates
  <2>. HIDE DEF u
  <2>2. QED
    BY <1>1, <2>1, TurnInv DEF Turns
<1>5. \/ Create(p, pid, u, {Ended(t, "raised")})
      \/ Only(p, Entering(t, "repository")) \/ Only(p, Ended(t, "raised"))
  BY DEF UploadLicenseFile
<1>. HIDE DEF u, pid
<1>6. QED
  BY <1>1, <1>2, <1>3, <1>4, <1>5, OnlyItems, CreateItems

LEMMA ItemsRepository ==
    ASSUME PackageInv, ItemsInv, NEW p \in Tasks, CreateUploadRepository(p)
    PROVE  ItemsInv'
<1>. DEFINE t == tasks[p]
            pid == Pid(p, "repository", 0)
            u == [Entering(t, "describe") EXCEPT !.repository_pid = pid]
<1>1. GoodTask(t) /\ TaskInv(p, t) /\ t.pc = "repository"
  BY TasksInv DEF CreateUploadRepository
<1>2. \A r : TaskInv(p, Ended(t, r))
  BY <1>1, EndedInv
<1>3. TaskInv(p, Entering(t, "describe"))
  BY <1>1, EnteringInv DEF Turns
<1>4. TaskInv(p, u)
  <2>1. /\ Carries(t, u) /\ u.i = 1 /\ u.pc = "describe"
        /\ u.license_pid = t.license_pid /\ u.repository_pid = Pid(p, "repository", 0)
    BY <1>1 DEF Entering, Carries, GoodTask, TaskStates
  <2>. HIDE DEF u
  <2>2. QED
    BY <1>1, <2>1, TurnInv DEF Turns
<1>5. Create(p, pid, u, {Entering(t, "describe"), Ended(t, "raised")})
  BY DEF CreateUploadRepository
<1>. HIDE DEF u, pid
<1>6. QED
  BY <1>1, <1>2, <1>3, <1>4, <1>5, CreateItems

LEMMA ItemsFailure ==
    ASSUME PackageInv, ItemsInv, NEW p \in Tasks, CallBreaks(p) \/ WorkerDies(p)
    PROVE  ItemsInv'
<1>. DEFINE t == tasks[p]
<1>1. TypeOK /\ GoodTask(t) /\ TaskInv(p, t) /\ t.pc # "ended"
  BY TasksInv DEF CallBreaks, WorkerDies
<1>2. PICK r : Becomes(p, Ended(t, r))
  BY DEF CallBreaks, WorkerDies
<1>3. TaskInv(p, Ended(t, r))
  BY <1>1, EndedInv
<1>4. Used("edit")' = Used("edit")
  BY <1>1, OtherSpend DEF CallBreaks, WorkerDies, Kinds
<1>5. QED
  BY <1>1, <1>2, <1>3, <1>4, ItemsTaskStep DEF CallBreaks, WorkerDies
------------------------------------------------------------------------------
(* The loops *)

(* An item is put in one of the lists. *)
LEMMA PlacedInv ==
    ASSUME NEW p \in Tasks, NEW t, GoodTask(t), TaskInv(p, t), t.pc \in {"filter", "relist"},
           t.i <= NItems, NEW u, u.pc = "filter", u.i = t.i + 1,
           u.local_file_pids = t.local_file_pids, u.license_pid = t.license_pid,
           u.repository_pid = t.repository_pid, u.described = t.described,
           u.reference_file = t.reference_file,
           Counted(u) = Counted(t) + 1, Listed(u) = Listed(t) \cup {t.i},
           Unedited =>
              /\ \A i \in Range(u.dataone) \cup Range(u.remote) : girder[i].link # "none"
              /\ \A i \in Range(u.local_items) : girder[i].link = "none"
    PROVE  TaskInv(p, u)
<1>1. t.i \in Nat \ {0} /\ NItems \in Nat
  BY FieldsTyped, ConstantsOK
<1>2. SortedInv(u)
  <2>1. t.i <= NItems + 1 /\ Counted(t) = t.i - 1 /\ Listed(t) = 1..(t.i - 1)
    BY DEF TaskInv, SortedInv, Sorting
  <2>2. u.i <= NItems + 1 /\ Counted(u) = u.i - 1 /\ Listed(u) = 1..(u.i - 1)
    BY <1>1, <2>1
  <2>3. QED
    BY <2>2 DEF SortedInv, Sorting, Sorted
<1>3. UploadedInv(p, u)
  BY DEF TaskInv, UploadedInv, Sorting, Uploaded, Sorted
<1>4. DescribedInv(u)
  BY DEF TaskInv, DescribedInv, Described
<1>5. Unedited => LocatedInv(u, girder)
  BY DEF TaskInv, LocatedInv, Referenced, Uploaded, Sorted, Sorting, Pcs
<1>6. QED
  BY <1>2, <1>3, <1>4, <1>5 DEF TaskInv

LEMMA ItemsFilter ==
    ASSUME PackageInv, ItemsInv, NEW p \in Tasks, FilterItem(p)
    PROVE  ItemsInv'
<1>. DEFINE t == tasks[p]
            g == girder[t.i]
<1>1. GoodTask(t) /\ TaskInv(p, t) /\ t.pc = "filter"
  BY TasksInv DEF FilterItem
<1>2. /\ t.i \in Nat \ {0} /\ NItems \in Nat /\ t.dataone \in Seq(Items)
      /\ t.remote \in Seq(Items) /\ t.local_items \in Seq(Items)
  BY <1>1, FieldsTyped, ConstantsOK
<1>3. CASE t.i > NItems /\ Only(p, Entering(t, "upload"))
  <2>1. TaskInv(p, Entering(t, "upload"))
    BY <1>1, <1>3, EnteringInv DEF Turns
  <2>2. QED
    BY <1>1, <1>3, <2>1, OnlyItems
<1>4. CASE Only(p, Ended(t, "raised"))
  BY <1>1, <1>4, EndedInv, OnlyItems
<1>5. CASE /\ t.i <= NItems /\ g.link = "dataone"
           /\ Only(p, Advanced([t EXCEPT !.dataone = Append(@, t.i)]))
  <2>. DEFINE u == Advanced([t EXCEPT !.dataone = Append(t.dataone, t.i)])
  <2>1. /\ u.pc = "filter" /\ u.i = t.i + 1 /\ u.dataone = Append(t.dataone, t.i)
        /\ u.remote = t.remote /\ u.local_items = t.local_items
        /\ u.local_file_pids = t.local_file_pids /\ u.license_pid = t.license_pid
        /\ u.repository_pid = t.repository_pid /\ u.described = t.described
        /\ u.reference_file = t.reference_file
    BY <1>1 DEF GoodTask, TaskStates, Advanced
  <2>2. Only(p, u)
    BY <1>5
  <2>3. t.i \in Items
    BY <1>2, <1>5 DEF Items
  <2>. HIDE DEF u
  <2>4. /\ Range(u.dataone) = Range(t.dataone) \cup {t.i}
        /\ Len(u.dataone) = Len(t.dataone) + 1
    BY <1>2, <2>1, <2>3, RangeAppend
  <2>5. Counted(u) = Counted(t) + 1
    <3>1. /\ Len(t.dataone) \in Nat /\ Len(t.local_items) \in Nat /\ Len(t.remote) \in Nat
      BY <1>1, EmlItemsListed
    <3>2. /\ Len(u.remote) = Len(t.remote) /\ Len(u.local_items) = Len(t.local_items)
          /\ Len(u.dataone) = Len(t.dataone) + 1
      BY <2>1, <2>4
    <3>3. QED
      BY <3>1, <3>2, CountedNext, Zenon
  <2>6. Listed(u) = Listed(t) \cup {t.i}
    BY <2>1, <2>4 DEF Listed
  <2>7. Unedited =>
              /\ \A i \in Range(u.dataone) \cup Range(u.remote) : girder[i].link # "none"
              /\ \A i \in Range(u.local_items) : girder[i].link = "none"
    BY <1>1, <1>5, <2>1, <2>4 DEF TaskInv, LocatedInv
  <2>8. TaskInv(p, u)
    BY <1>1, <1>5, <2>1, <2>5, <2>6, <2>7, PlacedInv
  <2>9. QED
    BY <1>1, <2>2, <2>8, OnlyItems
<1>6. CASE /\ t.i <= NItems /\ g.link = "remote"
           /\ Only(p, Advanced([t EXCEPT !.remote = Append(@, t.i)]))
  <2>. DEFINE u == Advanced([t EXCEPT !.remote = Append(t.remote, t.i)])
  <2>1. /\ u.pc = "filter" /\ u.i = t.i + 1 /\ u.remote = Append(t.remote, t.i)
        /\ u.dataone = t.dataone /\ u.local_items = t.local_items
        /\ u.local_file_pids = t.local_file_pids /\ u.license_pid = t.license_pid
        /\ u.repository_pid = t.repository_pid /\ u.described = t.described
        /\ u.reference_file = t.reference_file
    BY <1>1 DEF GoodTask, TaskStates, Advanced
  <2>2. Only(p, u)
    BY <1>6
  <2>3. t.i \in Items
    BY <1>2, <1>6 DEF Items
  <2>. HIDE DEF u
  <2>4. /\ Range(u.remote) = Range(t.remote) \cup {t.i}
        /\ Len(u.remote) = Len(t.remote) + 1
    BY <1>2, <2>1, <2>3, RangeAppend
  <2>5. Counted(u) = Counted(t) + 1
    <3>1. /\ Len(t.dataone) \in Nat /\ Len(t.local_items) \in Nat /\ Len(t.remote) \in Nat
      BY <1>1, EmlItemsListed
    <3>2. /\ Len(u.dataone) = Len(t.dataone) /\ Len(u.local_items) = Len(t.local_items)
          /\ Len(u.remote) = Len(t.remote) + 1
      BY <2>1, <2>4
    <3>3. QED
      BY <3>1, <3>2, CountedNext, Zenon
  <2>6. Listed(u) = Listed(t) \cup {t.i}
    BY <2>1, <2>4 DEF Listed
  <2>7. Unedited =>
              /\ \A i \in Range(u.dataone) \cup Range(u.remote) : girder[i].link # "none"
              /\ \A i \in Range(u.local_items) : girder[i].link = "none"
    BY <1>1, <1>6, <2>1, <2>4 DEF TaskInv, LocatedInv
  <2>8. TaskInv(p, u)
    BY <1>1, <1>6, <2>1, <2>5, <2>6, <2>7, PlacedInv
  <2>9. QED
    BY <1>1, <2>2, <2>8, OnlyItems
<1>7. CASE /\ t.i <= NItems /\ g.link = "none" /\ Only(p, [t EXCEPT !.pc = "relist"])
  <2>. DEFINE u == [t EXCEPT !.pc = "relist"]
  <2>1. /\ u.pc = "relist" /\ u.i = t.i /\ Carries(t, u)
        /\ u.license_pid = t.license_pid /\ u.repository_pid = t.repository_pid
    BY <1>1 DEF GoodTask, TaskStates, Carries
  <2>2. Only(p, u)
    BY <1>7
  <2>3. girder[u.i].link = "none"
    BY <1>7, <2>1
  <2>. HIDE DEF u
  <2>4. SortedInv(u) /\ UploadedInv(p, u) /\ DescribedInv(u)
    BY <1>1, <2>1 DEF TaskInv, SortedInv, UploadedInv, DescribedInv, Carries, Counted, Listed,
                      Sorting, Sorted, Uploaded, Described
  <2>5. Unedited => LocatedInv(u, girder)
    BY <1>1, <2>1, <2>3
       DEF TaskInv, LocatedInv, Carries, Referenced, Uploaded, Sorted, Sorting, Pcs
  <2>6. TaskInv(p, u)
    BY <2>4, <2>5 DEF TaskInv
  <2>7. QED
    BY <1>1, <2>2, <2>6, OnlyItems
<1>8. QED
  BY <1>3, <1>4, <1>5, <1>6, <1>7 DEF FilterItem

LEMMA ItemsRelist ==
    ASSUME PackageInv, ItemsInv, NEW p \in Tasks, RelistItem(p)
    PROVE  ItemsInv'
<1>. DEFINE t == tasks[p]
            g == girder[t.i]
            u == Advanced([t EXCEPT !.pc = "filter", !.local_files = Append(t.local_files, g),
                                    !.local_items = Append(t.local_items, t.i)])
<1>1. GoodTask(t) /\ TaskInv(p, t) /\ t.pc = "relist" /\ t.i \in Items
  BY TasksInv DEF RelistItem, GoodTask
<1>2. /\ t.i \in Nat \ {0} /\ t.i <= NItems /\ t.dataone \in Seq(Items)
      /\ t.remote \in Seq(Items) /\ t.local_items \in Seq(Items)
  BY <1>1, FieldsTyped, ConstantsOK DEF Items
<1>3. CASE Only(p, Ended(t, "raised"))
  BY <1>1, <1>3, EndedInv, OnlyItems
<1>4. CASE Only(p, u)
  <2>1. /\ u.pc = "filter" /\ u.i = t.i + 1 /\ u.local_items = Append(t.local_items, t.i)
        /\ u.dataone = t.dataone /\ u.remote = t.remote
        /\ u.local_file_pids = t.local_file_pids /\ u.license_pid = t.license_pid
        /\ u.repository_pid = t.repository_pid /\ u.described = t.described
        /\ u.reference_file = t.reference_file
    BY <1>1 DEF GoodTask, TaskStates, Advanced
  <2>. HIDE DEF u
  <2>2. /\ Range(u.local_items) = Range(t.local_items) \cup {t.i}
        /\ Len(u.local_items) = Len(t.local_items) + 1
    BY <1>1, <1>2, <2>1, RangeAppend
  <2>3. Counted(u) = Counted(t) + 1
    <3>1. /\ Len(t.dataone) \in Nat /\ Len(t.local_items) \in Nat /\ Len(t.remote) \in Nat
      BY <1>1, EmlItemsListed
    <3>2. /\ Len(u.dataone) = Len(t.dataone) /\ Len(u.remote) = Len(t.remote)
          /\ Len(u.local_items) = Len(t.local_items) + 1
      BY <2>1, <2>2
    <3>3. QED
      BY <3>1, <3>2, CountedNext, Zenon
  <2>4. Listed(u) = Listed(t) \cup {t.i}
    BY <2>1, <2>2 DEF Listed
  <2>5. Unedited =>
              /\ \A i \in Range(u.dataone) \cup Range(u.remote) : girder[i].link # "none"
              /\ \A i \in Range(u.local_items) : girder[i].link = "none"
    BY <1>1, <2>1, <2>2 DEF TaskInv, LocatedInv
  <2>6. TaskInv(p, u)
    BY <1>1, <1>2, <2>1, <2>3, <2>4, <2>5, PlacedInv
  <2>7. QED
    BY <1>1, <1>4, <2>6, OnlyItems
<1>5. QED
  BY <1>3, <1>4 DEF RelistItem

LEMMA ItemsUpload ==
    ASSUME PackageInv, ItemsInv, NEW p \in Tasks, CreateUploadObject(p)
    PROVE  ItemsInv'
<1>. DEFINE t == tasks[p]
            f == t.local_files[t.i]
            g == girder[t.local_items[t.i]]
            pid == Pid(p, "file", t.local_items[t.i])
            u == Advanced([t EXCEPT !.local_file_pids = Append(t.local_file_pids, pid),
                           !.uploads = t.uploads
                              \cup {[declared |-> f.size, sent |-> g.size]}])
<1>1. GoodTask(t) /\ TaskInv(p, t) /\ t.pc = "upload"
  BY TasksInv DEF CreateUploadObject
<1>2. /\ t.i \in Nat \ {0} /\ t.local_items \in Seq(Items) /\ t.local_file_pids \in Seq(Pids)
      /\ Len(t.local_files) = Len(t.local_items)
  BY <1>1, FieldsTyped DEF GoodTask
<1>3. CASE t.i > Len(t.local_files) /\ Only(p, Entering(t, "paths"))
  <2>1. TaskInv(p, Entering(t, "paths"))
    BY <1>1, <1>2, <1>3, EnteringInv DEF Turns
  <2>2. QED
    BY <1>1, <1>3, <2>1, OnlyItems
<1>4. CASE Only(p, Ended(t, "raised"))
  BY <1>1, <1>4, EndedInv, OnlyItems
<1>5. CASE t.i <= Len(t.local_files) /\ Create(p, pid, u, {Ended(t, "raised")})
  <2>1. /\ u.pc = "upload" /\ u.i = t.i + 1 /\ u.dataone = t.dataone /\ u.remote = t.remote
        /\ u.local_items = t.local_items /\ u.license_pid = t.license_pid
        /\ u.local_file_pids = Append(t.local_file_pids, pid)
        /\ u.repository_pid = t.repository_pid /\ u.described = t.described
        /\ u.reference_file = t.reference_file
    BY <1>1 DEF GoodTask, TaskStates, Advanced
  <2>. HIDE DEF u
  <2>2. t.local_items[t.i] \in Items /\ pid \in Pids
    BY <1>2, <1>5, ElementTyped, FilePid
  <2>3. Range(u.local_file_pids) = Range(t.local_file_pids) \cup {pid}
    <3>. HIDE DEF pid
    <3>1. QED
      BY <1>2, <2>1, <2>2, RangeAppend
  <2>4. /\ Range(t.local_file_pids) = FilePids(p, Before(t.local_items, t.i))
        /\ t.license_pid \in {NoPid, Pid(p, "license", 0)}
        /\ t.repository_pid \in {NoPid, Pid(p, "repository", 0)}
    BY <1>1 DEF TaskInv, UploadedInv
  <2>5. Before(t.local_items, t.i + 1) = Before(t.local_items, t.i) \cup {t.local_items[t.i]}
    BY <1>2, BeforeNext
  <2>6. Range(u.local_file_pids) = FilePids(p, Before(u.local_items, u.i))
    BY <2>1, <2>3, <2>4, <2>5 DEF FilePids
  <2>7. UploadedInv(p, u)
    BY <1>2, <1>5, <2>1, <2>4, <2>6 DEF UploadedInv, Sorting, Uploaded
  <2>8. SortedInv(u) /\ DescribedInv(u)
    BY <1>1, <2>1 DEF TaskInv, SortedInv, DescribedInv, Counted, Listed, Sorting, Sorted,
                      Described
  <2>9. Unedited => LocatedInv(u, girder)
    BY <1>1, <2>1 DEF TaskInv, LocatedInv, Referenced, Uploaded, Sorted, Sorting, Pcs
  <2>10. TaskInv(p, u)
    BY <2>7, <2>8, <2>9 DEF TaskInv
  <2>11. TaskInv(p, Ended(t, "raised"))
    BY <1>1, EndedInv
  <2>. HIDE DEF pid
  <2>12. QED
    BY <1>1, <1>5, <2>10, <2>11, CreateItems
<1>6. QED
  BY <1>3, <1>4, <1>5 DEF CreateUploadObject, SystemMetadata
(* An entry takes the place of one of the same name: no name gets lost.     *)
Relisted(entries, item, md5) ==
    {e \in entries : e.name # girder[item].name}
      \cup {[name |-> girder[item].name, item |-> item, md5 |-> md5]}

LEMMA ReferencedNext ==
    ASSUME NEW entries, NEW is, NEW item, NEW md5, Refers(entries, is, girder)
    PROVE  Refers(Relisted(entries, item, md5), is \cup {item}, girder)
<1>. DEFINE entry == [name |-> girder[item].name, item |-> item, md5 |-> md5]
            next == Relisted(entries, item, md5)
<1>1. entry.item = item /\ entry.name = girder[item].name
  OBVIOUS
<1>2. next = {e \in entries : e.name # girder[item].name} \cup {entry}
  BY DEF Relisted
<1>. HIDE DEF entry, next
<1>3. \A e \in next : e.item \in is \cup {item} /\ e.name = girder[e.item].name
  BY <1>1, <1>2 DEF Refers
<1>4. \A e, f \in next : e.name = f.name => e = f
  BY <1>1, <1>2 DEF Refers
<1>5. \A e \in entries : e \in next \/ e.name = entry.name
  BY <1>1, <1>2
<1>6. ASSUME NEW i \in is \cup {item} PROVE \E e \in next : e.name = girder[i].name
  <2>1. entry \in next
    BY <1>2
  <2>2. i # item => \E e \in entries : e.name = girder[i].name
    BY DEF Refers
  <2>3. QED
    BY <1>1, <1>5, <2>1, <2>2
<1>7. Refers(next, is \cup {item}, girder)
  BY <1>3, <1>4, <1>6 DEF Refers
<1>8. QED
  BY <1>7 DEF next

LEMMA ReferencingInv ==
    ASSUME NEW p \in Tasks, NEW t, TaskInv(p, t), t.pc = "external", NEW u, u.pc = "external",
           u.dataone = t.dataone, u.remote = t.remote, u.local_items = t.local_items,
           u.local_file_pids = t.local_file_pids, u.license_pid = t.license_pid,
           u.repository_pid = t.repository_pid, u.described = t.described
    PROVE  SortedInv(u) /\ UploadedInv(p, u) /\ DescribedInv(u)
BY DEF TaskInv, SortedInv, UploadedInv, DescribedInv, Counted, Listed, Sorting, Sorted,
       Uploaded, Described

LEMMA ItemsExternal ==
    ASSUME PackageInv, ItemsInv, NEW p \in Tasks, ReferenceExternal(p)
    PROVE  ItemsInv'
<1>. DEFINE t == tasks[p]
            g == girder[External(t)[t.i]]
            entry == [name |-> g.name, item |-> External(t)[t.i],
                      md5 |-> Md5FromPosition(Content, Len(Content))]
            kept == {e \in t.reference_file : e.name # g.name}
            u == Advanced([t EXCEPT !.reference_file = kept \cup {entry}])
<1>1. TypeOK /\ GoodTask(t) /\ TaskInv(p, t) /\ t.pc = "external"
  BY TasksInv DEF ReferenceExternal
<1>2. External(t) \in Seq(Items) /\ t.i \in Nat \ {0}
      /\ Range(External(t)) = Range(t.remote) \cup Range(t.dataone)
  BY <1>1, EmlItemsListed, FieldsTyped
<1>3. \/ t.i > Len(External(t)) /\ Only(p, Entering(t, "yaml"))
      \/ Only(p, Ended(t, "raised"))
      \/ /\ t.i <= Len(External(t)) /\ (g.has = "empty" \/ (g.has = "file" /\ g.link = "none"))
         /\ Only(p, Advanced(t))
      \/ t.i <= Len(External(t)) /\ Only(p, u)
  BY DEF ReferenceExternal, External
<1>4. ASSUME t.i <= Len(External(t))
      PROVE  External(t)[t.i] \in Items /\ External(t)[t.i] \in Range(External(t))
  BY <1>2, <1>4 DEF Range
<1>5. CASE t.i > Len(External(t)) /\ Only(p, Entering(t, "yaml"))
  <2>1. TaskInv(p, Entering(t, "yaml"))
    BY <1>1, <1>5, EnteringInv DEF Turns
  <2>2. QED
    BY <1>1, <1>5, <2>1, OnlyItems
<1>6. CASE Only(p, Ended(t, "raised"))
  BY <1>1, <1>6, EndedInv, OnlyItems
<1>7. CASE /\ t.i <= Len(External(t)) /\ (g.has = "empty" \/ (g.has = "file" /\ g.link = "none"))
           /\ Only(p, Advanced(t))
  <2>1. ~Unedited
    <3>. SUFFICES ASSUME Unedited PROVE FALSE
      OBVIOUS
    <3>1. g.has = "file"
      BY <1>4, <1>7 DEF ItemsInv, Unedited
    <3>2. g.link # "none"
      BY <1>1, <1>2, <1>4, <1>7 DEF TaskInv, LocatedInv
    <3>3. QED
      BY <1>7, <3>1, <3>2
  <2>. DEFINE v == Advanced(t)
  <2>2. /\ v.pc = "external" /\ v.dataone = t.dataone /\ v.remote = t.remote
        /\ v.local_items = t.local_items /\ v.local_file_pids = t.local_file_pids
        /\ v.license_pid = t.license_pid /\ v.repository_pid = t.repository_pid
        /\ v.described = t.described
    BY <1>1 DEF Advanced, GoodTask, TaskStates
  <2>3. Only(p, v)
    BY <1>7
  <2>. HIDE DEF v
  <2>4. TaskInv(p, v)
    BY <1>1, <2>1, <2>2, ReferencingInv DEF TaskInv
  <2>5. QED
    BY <1>1, <2>3, <2>4, OnlyItems
<1>8. CASE t.i <= Len(External(t)) /\ Only(p, u)
  <2>1. /\ u.pc = "external" /\ u.dataone = t.dataone /\ u.remote = t.remote
        /\ u.local_items = t.local_items /\ u.local_file_pids = t.local_file_pids
        /\ u.license_pid = t.license_pid /\ u.repository_pid = t.repository_pid
        /\ u.described = t.described /\ u.i = t.i + 1
        /\ u.reference_file = kept \cup {entry}
    BY <1>1 DEF Advanced, GoodTask, TaskStates
  <2>2. External(t)[t.i] \in Items
    BY <1>4, <1>8
  <2>3. ASSUME Unedited PROVE LocatedInv(u, girder)
    <3>1. LocatedInv(t, girder)
      BY <1>1, <2>3 DEF TaskInv
    <3>2. Refers(t.reference_file, Before(External(t), t.i), girder)
      BY <1>1, <3>1 DEF LocatedInv
    <3>3. Refers(u.reference_file, Before(External(t), t.i) \cup {External(t)[t.i]}, girder)
      <4>. DEFINE item == External(t)[t.i]
                  md5 == Md5FromPosition(Content, Len(Content))
      <4>1. u.reference_file = Relisted(t.reference_file, item, md5)
        BY <2>1 DEF Relisted
      <4>. HIDE DEF u, item, md5
      <4>2. Refers(u.reference_file, Before(External(t), t.i) \cup {item}, girder)
        BY <3>2, <4>1, ReferencedNext
      <4>3. QED
        BY <4>2 DEF item
    <3>. HIDE DEF u
    <3>5. External(u) = External(t) /\ u.i = t.i + 1
      BY <2>1 DEF External
    <3>6. u.i <= Len(External(u)) + 1
      BY <1>2, <1>8, <3>5
    <3>7. Refers(u.reference_file, Before(External(u), u.i), girder)
      <4>1. Before(External(t), t.i + 1) = Before(External(t), t.i) \cup {External(t)[t.i]}
        BY <1>2, BeforeNext
      <4>2. QED
        BY <3>3, <3>5, <4>1
    <3>8. /\ \A i \in Range(u.dataone) \cup Range(u.remote) : girder[i].link # "none"
          /\ \A i \in Range(u.local_items) : girder[i].link = "none"
      BY <1>1, <2>1, <3>1 DEF LocatedInv
    <3>9. QED
      BY <2>1, <3>3, <3>6, <3>7, <3>8 DEF LocatedInv, Referenced, Uploaded
  <2>. HIDE DEF u
  <2>4. TaskInv(p, u)
    BY <1>1, <2>1, <2>3, ReferencingInv DEF TaskInv
  <2>5. QED
    BY <1>1, <1>8, <2>4, OnlyItems
<1>9. QED
  BY <1>3, <1>5, <1>6, <1>7, <1>8

LEMMA ItemsDescribe ==
    ASSUME PackageInv, ItemsInv, NEW p \in Tasks, DescribeItem(p)
    PROVE  ItemsInv'
<1>. DEFINE t == tasks[p]
            item == EmlItems(t)[t.i]
            u == Advanced([t EXCEPT !.described = Append(t.described, item)])
<1>1. GoodTask(t) /\ TaskInv(p, t) /\ t.pc = "describe"
  BY TasksInv DEF DescribeItem
<1>2. /\ EmlItems(t) \in Seq(Items) /\ t.i \in Nat \ {0} /\ t.described \in Seq(Items)
  BY <1>1, EmlItemsListed, FieldsTyped
<1>3. \/ t.i > Len(EmlItems(t)) /\ Only(p, Entering(t, "eml"))
      \/ Only(p, Ended(t, "raised"))
      \/ t.i <= Len(EmlItems(t)) /\ Only(p, u)
  BY DEF DescribeItem, EmlItems
<1>4. CASE t.i > Len(EmlItems(t)) /\ Only(p, Entering(t, "eml"))
  <2>1. TaskInv(p, Entering(t, "eml"))
    BY <1>1, <1>4, EnteringInv DEF Turns
  <2>2. QED
    BY <1>1, <1>4, <2>1, OnlyItems
<1>5. CASE Only(p, Ended(t, "raised"))
  BY <1>1, <1>5, EndedInv, OnlyItems
<1>6. CASE t.i <= Len(EmlItems(t)) /\ Only(p, u)
  <2>1. /\ u.pc = "describe" /\ u.dataone = t.dataone /\ u.remote = t.remote
        /\ u.local_items = t.local_items /\ u.local_file_pids = t.local_file_pids
        /\ u.license_pid = t.license_pid /\ u.repository_pid = t.repository_pid
        /\ u.reference_file = t.reference_file /\ u.i = t.i + 1
        /\ u.described = Append(t.described, item)
    BY <1>1 DEF Advanced, GoodTask, TaskStates
  <2>2. item \in Items
    BY <1>2, <1>6, ElementTyped
  <2>. HIDE DEF u
  <2>3. DescribedInv(t) /\ SortedInv(t) /\ UploadedInv(p, t)
    BY <1>1 DEF TaskInv
  <2>4. /\ Range(u.described) = Range(t.described) \cup {item}
        /\ Len(u.described) = Len(t.described) + 1
    <3>. HIDE DEF item
    <3>1. QED
      BY <1>2, <2>1, <2>2, RangeAppend
  <2>5. /\ Len(t.described) = t.i - 1 /\ Range(t.described) = Before(EmlItems(t), t.i)
    BY <1>1, <2>3 DEF DescribedInv
  <2>6. Before(EmlItems(t), t.i + 1) = Before(EmlItems(t), t.i) \cup {item}
    BY <1>2, BeforeNext
  <2>7. EmlItems(u) = EmlItems(t)
    BY <2>1 DEF EmlItems
  <2>8. Range(u.described) = Before(EmlItems(u), u.i)
    BY <2>1, <2>4, <2>5, <2>6, <2>7
  <2>9. Len(u.described) = u.i - 1 /\ u.i <= Len(EmlItems(u)) + 1
    BY <1>2, <1>6, <2>1, <2>4, <2>5, <2>7
  <2>10. DescribedInv(u)
    BY <2>1, <2>8, <2>9 DEF DescribedInv, Described
  <2>11. SortedInv(u) /\ UploadedInv(p, u)
    BY <1>1, <2>1, <2>3 DEF SortedInv, UploadedInv, Counted, Listed, Sorting, Sorted, Uploaded
  <2>12. Unedited => LocatedInv(u, girder)
    BY <1>1, <2>1 DEF TaskInv, LocatedInv, Referenced, Uploaded, Sorted, Sorting, Pcs
  <2>13. TaskInv(p, u)
    BY <2>10, <2>11, <2>12 DEF TaskInv
  <2>14. QED
    BY <1>1, <1>6, <2>13, OnlyItems
<1>7. QED
  BY <1>3, <1>4, <1>5, <1>6

(* The resource map of a task whose lists account for every item. *)
LEMMA ItemsResmap ==
    ASSUME PackageInv, ItemsInv, NEW p \in Tasks, CreateUploadResmap(p)
    PROVE  ItemsInv'
<1>. DEFINE t == tasks[p]
            map == ResourceMap(p, t)
<1>1. TypeOK /\ GoodTask(t) /\ TaskInv(p, t) /\ t.pc = "map"
  BY TasksInv DEF CreateUploadResmap
<1>2. /\ maps' \subseteq maps \cup {map} /\ girder' = girder
      /\ \E r : Becomes(p, Ended(t, r))
  BY DEF CreateUploadResmap, PackageUrls
<1>3. PICK r : Becomes(p, Ended(t, r))
  BY <1>2
<1>4. Used("edit")' = Used("edit")
  <2>1. "refusal" \in Kinds \ {"edit"} /\ "break" \in Kinds \ {"edit"}
    BY DEF Kinds
  <2>2. CASE UNCHANGED budget
    BY <2>2 DEF Used
  <2>3. CASE Spend("refusal") \/ Spend("break")
    BY <1>1, <2>1, <2>3, OtherSpend
  <2>4. QED
    BY <2>2, <2>3 DEF CreateUploadResmap
<1>. DEFINE u == Ended(t, r)
<1>5. /\ TaskInv(p, u) /\ u.pc = "ended" /\ u.described = t.described
      /\ u.local_items = t.local_items /\ u.reference_file = t.reference_file
  BY <1>1, EndedInv DEF Ended, GoodTask, TaskStates
<1>. HIDE DEF u
<1>6. tasks'[p] = u /\ \A q \in Tasks \ {p} : tasks'[q] = tasks[q]
  BY <1>1, <1>3 DEF Becomes, TypeOK, u
<1>7. \A m \in maps : m.task \in Tasks \ {p}
  BY <1>1 DEF PackageInv, TypeOK
<1>8. map.task = p /\ map.members = Members(p, t)
  BY DEF ResourceMap, Members
<1>9. Unedited' = Unedited
  BY <1>2, <1>4 DEF Unedited
<1>10. /\ Len(t.described) = NItems /\ Range(t.described) = Items
       /\ {o \in Members(p, t) : o[2] = "file"} = FilePids(p, Range(t.local_items))
  <2>1. /\ Len(t.described) = NItems /\ Range(t.described) = Items
    BY <1>1 DEF TaskInv, DescribedInv, Described
  <2>2. /\ Range(t.local_file_pids) = FilePids(p, Range(t.local_items))
        /\ t.license_pid \in {NoPid, Pid(p, "license", 0)}
        /\ t.repository_pid \in {NoPid, Pid(p, "repository", 0)}
    BY <1>1 DEF TaskInv, UploadedInv, Uploaded, Sorted, Sorting, Pcs
  <2>3. /\ \A o \in FilePids(p, Range(t.local_items)) : o[2] = "file"
        /\ t.license_pid[2] # "file" /\ t.repository_pid[2] # "file"
        /\ Pid(p, "yaml", 0)[2] # "file"
    BY <2>2 DEF FilePids, Pid, NoPid
  <2>4. QED
    BY <2>1, <2>2, <2>3 DEF Members
<1>11. Unedited => Refers(t.reference_file, Items \ Range(t.local_items), girder)
  <2>. SUFFICES ASSUME Unedited
                PROVE  Refers(t.reference_file, Items \ Range(t.local_items), girder)
    OBVIOUS
  <2>1. /\ \A i \in Range(t.dataone) \cup Range(t.remote) : girder[i].link # "none"
        /\ \A i \in Range(t.local_items) : girder[i].link = "none"
        /\ Refers(t.reference_file, Range(t.remote) \cup Range(t.dataone), girder)
    BY <1>1 DEF TaskInv, LocatedInv, Referenced, Uploaded, Sorted, Sorting, Pcs
  <2>2. Range(t.dataone) \cup Range(t.local_items) \cup Range(t.remote) = Items
    BY <1>1 DEF TaskInv, SortedInv, Listed, Sorted, Sorting, Pcs
  <2>3. Range(t.dataone) \cup Range(t.remote) = Items \ Range(t.local_items)
    BY <2>1, <2>2
  <2>4. QED
    BY <2>1, <2>3
<1>. HIDE DEF t, map
<1>12. ItemsAccounted'
  <2>. SUFFICES ASSUME NEW m \in maps'
                PROVE  LET v == tasks'[m.task]
                       IN  /\ Len(v.described) = NItems /\ Range(v.described) = Items
                           /\ {o \in m.members : o[2] = "file"}
                                = FilePids(m.task, Range(v.local_items))
    BY DEF ItemsAccounted, FilePids
  <2>1. CASE m = map
    BY <1>5, <1>6, <1>8, <1>10, <2>1
  <2>2. CASE m \in maps
    BY <1>6, <1>7, <2>2 DEF ItemsInv, ItemsAccounted, FilePids
  <2>3. QED
    BY <1>2, <2>1, <2>2
<1>13. ItemsLocated'
  <2>. SUFFICES ASSUME Unedited', NEW m \in maps'
                PROVE  Refers(tasks'[m.task].reference_file,
                              Items \ Range(tasks'[m.task].local_items), girder')
    BY DEF ItemsLocated, Refers, Unedited
  <2>1. CASE m = map
    BY <1>2, <1>5, <1>6, <1>8, <1>9, <1>11, <2>1
  <2>2. CASE m \in maps
    BY <1>2, <1>6, <1>7, <1>9, <2>2 DEF ItemsInv, ItemsLocated, Unedited
  <2>3. QED
    BY <1>2, <2>1, <2>2
<1>14. ASSUME NEW q \in Tasks
       PROVE  /\ SortedInv(tasks'[q]) /\ UploadedInv(q, tasks'[q]) /\ DescribedInv(tasks'[q])
              /\ Unedited' => LocatedInv(tasks'[q], girder')
  <2>1. CASE q = p
    BY <1>2, <1>5, <1>6, <1>9, <2>1 DEF TaskInv
  <2>2. CASE q # p
    BY <1>2, <1>6, <1>9, <2>2 DEF ItemsInv
  <2>3. QED
    BY <2>1, <2>2
<1>15. (Used("edit") = 0 => \A i \in Items : girder[i].has = "file")'
  BY <1>2, <1>4 DEF ItemsInv
<1>16. QED
  BY <1>12, <1>13, <1>14, <1>15 DEF ItemsInv

LEMMA ItemsEdit == ASSUME PackageInv, ItemsInv, NEW i \in Items, Edit(i) PROVE ItemsInv'
<1>1. maps' = maps /\ tasks' = tasks
  BY DEF Edit
<1>2. Used("edit")' # 0
  <2>1. Used("edit") \in Nat /\ Used("edit")' = Used("edit") + 1
    BY ConstantsOK DEF PackageInv, TypeOK, Edit, Spend, Used, Limit, Kinds
  <2>2. QED
    BY <2>1
<1>3. QED
  BY <1>1, <1>2 DEF ItemsInv, ItemsAccounted, ItemsLocated, Unedited

LEMMA ItemsInit == ASSUME Init PROVE ItemsInv
<1>1. NItems \in Nat /\ Range(<<>>) = {} /\ Len(<<>>) = 0
  BY ConstantsOK DEF Range
<1>2. \A p \in Tasks : tasks[p] = NewTask
  BY DEF Init
<1>3. /\ SortedInv(NewTask) /\ DescribedInv(NewTask)
      /\ \A p \in Tasks : UploadedInv(p, NewTask)
  BY <1>1 DEF NewTask, SortedInv, DescribedInv, UploadedInv, Counted, Listed, Sorting, Sorted,
              Uploaded, Described
<1>4. LocatedInv(NewTask, girder)
  BY <1>1 DEF NewTask, LocatedInv, Referenced, Uploaded, Sorted, Sorting
<1>5. \A i \in Items : girder[i].has = "file"
  BY DEF Init, File
<1>6. maps = {}
  BY DEF Init
<1>7. QED
  BY <1>2, <1>3, <1>4, <1>5, <1>6 DEF ItemsInv, ItemsAccounted, ItemsLocated
------------------------------------------------------------------------------
THEOREM ItemsInvariant == Spec => []ItemsInv
<1>1. Init => ItemsInv
  BY ItemsInit
<1>2. PackageInv /\ ItemsInv /\ [Next]_vars => ItemsInv'
  <2>. SUFFICES ASSUME PackageInv, ItemsInv, [Next]_vars PROVE ItemsInv'
    OBVIOUS
  <2>1. ASSUME NEW p \in Tasks, PublishTale(p) PROVE ItemsInv'
    BY <2>1, ItemsStraight, ItemsFilter, ItemsRelist, ItemsUpload, ItemsExternal, ItemsLicense,
       ItemsRepository, ItemsDescribe, ItemsResmap, ItemsFailure DEF PublishTale
  <2>2. ASSUME NEW p \in Tasks, WorkerDies(p) PROVE ItemsInv'
    BY <2>2, ItemsFailure
  <2>3. ASSUME NEW i \in Items, Edit(i) PROVE ItemsInv'
    BY <2>3, ItemsEdit
  <2>4. CASE UNCHANGED vars
    <3>1. Used("edit")' = Used("edit") /\ girder' = girder /\ tasks' = tasks /\ maps' = maps
      BY <2>4 DEF vars, Used
    <3>2. QED
      BY <3>1 DEF ItemsInv, ItemsAccounted, ItemsLocated, Unedited
  <2>5. QED
    BY <2>1, <2>2, <2>3, <2>4 DEF Next
<1>3. QED
  BY <1>1, <1>2, PackageInvariant, PTL DEF Spec

(* The EML record of a package describes every item once and the package    *)
(* has a file for each item that is local, however often items are edited   *)
(* between the four times that they are read.                               *)
THEOREM ItemsAreAccounted == Spec => []ItemsAccounted
<1>1. ItemsInv => ItemsAccounted
  BY DEF ItemsInv
<1>2. QED
  BY <1>1, ItemsInvariant, PTL

(* Without edits, each item that a package has no file for is found by its  *)
(* name in tale.yml, which refers to nothing else.                          *)
THEOREM ItemsAreLocated == Spec => []ItemsLocated
<1>1. ItemsInv => ItemsLocated
  BY DEF ItemsInv
<1>2. QED
  BY <1>1, ItemsInvariant, PTL
==============================================================================
