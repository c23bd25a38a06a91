------------------------------- MODULE Publish -------------------------------
(***************************************************************************)
(* publish_tale (gwvolman/publish.py): a Celery task that copies the items  *)
(* of a tale from Girder to a DataONE member node, adds a tale.yml, a       *)
(* licence, the recipe's repository and an EML record, and ties them        *)
(* together with a resource map.  A task makes one call to Girder, DataONE  *)
(* or a download server per step; users edit the items meanwhile.  Girder   *)
(* and the member node are modelled from how the code uses them.            *)
(***************************************************************************)
EXTENDS Integers, Sequences, FiniteSets, SequencesExt

CONSTANTS
    Tasks,          \* publish tasks, possibly several of one tale at a time
    None,           \* no task
    NItems,         \* item_ids is <<1, ..., NItems>>
    Names,          \* names a file may have
    MaxEdits,       \* bound on the users' changes to the items
    MaxRefusals,    \* bound on create calls answered by a DataONEException
    MaxBreaks,      \* bound on calls that end in another exception
    MaxDeaths       \* bound on the deaths of a worker process

Items == 1..NItems
Kinds == {"edit", "refusal", "break", "death"}
Limit == [edit |-> MaxEdits, refusal |-> MaxRefusals, break |-> MaxBreaks,
          death |-> MaxDeaths]

ASSUME ConstantsOK ==
    /\ None \notin Tasks
    /\ NItems \in Nat
    /\ Names # {}
    /\ \A k \in Kinds : Limit[k] \in Nat

VARIABLES
    girder,     \* girder[i]: the item in Girder and its first file
    objects,    \* pids of the objects on the member node
    maps,       \* resource maps on the member node
    tasks,      \* tasks[p]: the local variables of publish_tale
    budget      \* edits and failures still to come

vars == <<girder, objects, maps, tasks, budget>>

Used(k) == Limit[k] - budget[k]
Spend(k) == budget[k] > 0 /\ budget' = [budget EXCEPT ![k] = @ - 1]

(* id stands for the identity of the file, size for its content: each is    *)
(* the number of the edit that made it.                                     *)
Links == {"none", "dataone", "remote"}
File(link, name, n) ==
    [has |-> "file", link |-> link, name |-> name, id |-> n, size |-> n]

(* The pids are fresh uuids, one for each thing a task uploads. *)
Pid(p, part, i) == <<p, part, i>>
NoPid == <<None, "none", 0>>
ObjectsOf(p) == {o \in objects : o[1] = p}

NewTask ==
    [pc |-> "idle", i |-> 1, dataone |-> <<>>, remote |-> <<>>,
     local_files |-> <<>>, local_items |-> <<>>, local_file_pids |-> <<>>,
     uploads |-> {}, reference_file |-> {}, license_pid |-> NoPid,
     repository_pid |-> NoPid, described |-> <<>>, result |-> "none"]

(* Slip: the task ends and says nothing of how. *)
EndedMute(t, result) == [t EXCEPT !.pc = "ended"]

Ended(t, result) == [t EXCEPT !.pc = "ended", !.result = result]
Advanced(t) == [t EXCEPT !.i = @ + 1]

(* Slip: the loop is entered with the index the last one ended on. *)
EnteringMidway(t, pc) == [t EXCEPT !.pc = pc]

Entering(t, pc) == [t EXCEPT !.pc = pc, !.i = 1]
Becomes(p, t) == tasks' = [tasks EXCEPT ![p] = t]
Only(p, t) == Becomes(p, t) /\ UNCHANGED <<girder, objects, maps, budget>>

Init ==
    /\ girder \in [Items -> {File(l, n, 0) : l \in Links, n \in Names}]
    /\ objects = {} /\ maps = {}
    /\ tasks = [p \in Tasks |-> NewTask]
    /\ budget = Limit
------------------------------------------------------------------------------
(* The users of Girder *)

Becoming(i, g) == girder' = [girder EXCEPT ![i] = g]

(* Delete the item or its file, replace the content, upload another file. *)
Edit(i) ==
    /\ girder[i].has # "deleted"
    /\ Spend("edit")
    /\ \/ Becoming(i, [girder[i] EXCEPT !.has = "deleted"])
       \/ /\ girder[i].has = "file"
          /\ \/ Becoming(i, [girder[i] EXCEPT !.has = "empty"])
             \/ Becoming(i, [girder[i] EXCEPT !.size = Used("edit") + 1])
       \/ /\ girder[i].has = "empty"
          /\ \E l \in Links, m \in Names :
                Becoming(i, File(l, m, Used("edit") + 1))
    /\ UNCHANGED <<objects, maps, tasks>>
------------------------------------------------------------------------------
(* Steps of a task *)

(* upload_file: a DataONEException is caught and its message returned to a  *)
(* caller that does not look; any other exception leaves the caller.  The   *)
(* object may be stored all the same.                                       *)
Create(p, pid, next, broken) ==
    /\ UNCHANGED <<girder, maps>>
    /\ \/ objects' = objects \cup {pid} /\ Becomes(p, next) /\ UNCHANGED budget
       \/ Spend("refusal") /\ Becomes(p, next) /\ UNCHANGED objects
       \/ /\ Spend("break")
          /\ objects' \in {objects, objects \cup {pid}}
          /\ \E t \in broken : Becomes(p, t)

(* A client for Girder, the tale, the user, a client for DataONE, the       *)
(* userId of the token.                                                     *)
Authenticate(p) ==
    LET t == tasks[p]
    IN  /\ t.pc = "idle"
        /\ \E u \in {Entering(t, "filter"), Ended(t, "message"),
                     Ended(t, "raised")} : Only(p, u)

(* get_remote_url raises ValueError when there is no file. *)
FilterItem(p) ==
    LET t == tasks[p]
        g == girder[t.i]
    IN  /\ t.pc = "filter"
        /\ \/ t.i > NItems /\ Only(p, Entering(t, "upload"))
           \/ t.i <= NItems /\ g.has # "file" /\ Only(p, Ended(t, "raised"))
           \/ /\ t.i <= NItems /\ g.has = "file"
              /\ \/ /\ g.link = "dataone"
                    /\ Only(p, Advanced([t EXCEPT !.dataone = Append(@, t.i)]))
                 \/ /\ g.link = "remote"
                    /\ Only(p, Advanced([t EXCEPT !.remote = Append(@, t.i)]))
                 \/ g.link = "none" /\ Only(p, [t EXCEPT !.pc = "relist"])

(* The files of the item are listed a second time; None may be appended. *)
RelistItem(p) ==
    LET t == tasks[p]
        g == girder[t.i]
    IN  /\ t.pc = "relist"
        /\ \/ g.has = "deleted" /\ Only(p, Ended(t, "raised"))
           \/ /\ g.has # "deleted"
              /\ Only(p, Advanced([t EXCEPT !.pc = "filter",
                                            !.local_files = Append(@, g),
                                            !.local_items = Append(@, t.i)]))

(* For a file the size is the one that is passed in, here that of the record *)
(* filter_items saw, while the content is that of now.                       *)
SystemMetadata(record, file) == [declared |-> record.size, sent |-> file.size]

CreateUploadObject(p) ==
    LET t == tasks[p]
        f == t.local_files[t.i]
        g == girder[t.local_items[t.i]]
        pid == Pid(p, "file", t.local_items[t.i])
    IN  /\ t.pc = "upload"
        /\ \/ t.i > Len(t.local_files) /\ Only(p, Entering(t, "paths"))
           \/ /\ t.i <= Len(t.local_files)
              /\ f.has # "file" \/ g.has # "file" \/ f.id # g.id
              /\ Only(p, Ended(t, "raised"))
           \/ /\ t.i <= Len(t.local_files)
              /\ f.has = "file" /\ g.has = "file" /\ f.id = g.id
              /\ Create(p, pid,
                   Advanced([t EXCEPT
                     !.local_file_pids = Append(@, pid),
                     !.uploads = @ \cup {SystemMetadata(f, g)}]),
                   {Ended(t, "raised")})

(* Only a deleted item stops create_paths_structure, and it stays deleted. *)
CreatePaths(p) ==
    LET t == tasks[p]
    IN  /\ t.pc = "paths"
        /\ \/ /\ \E i \in Items : girder[i].has = "deleted"
              /\ Only(p, Ended(t, "raised"))
           \/ /\ \A i \in Items : girder[i].has # "deleted"
              /\ Only(p, Entering(t, "external"))

(* urlopen's URLError is not a requests HTTPError and leaves the task. The  *)
(* copy leaves the temporary file at its end, and the digest is that of     *)
(* the bytes from there on.                                                 *)
Md5FromPosition(bytes, pos) == SubSeq(bytes, pos + 1, Len(bytes))
Content == <<"byte">>

(* Slip: only the items outside DataONE are listed. *)
ReferenceExternalRemote(p) ==
    LET t == tasks[p]
        g == girder[t.remote[t.i]]
        entry == [name |-> g.name, item |-> t.remote[t.i],
                  md5 |-> Md5FromPosition(Content, Len(Content))]
    IN  /\ t.pc = "external"
        /\ \/ t.i > Len(t.remote) /\ Only(p, Entering(t, "yaml"))
           \/ /\ t.i <= Len(t.remote)
              /\ \/ g.has = "deleted" /\ Only(p, Ended(t, "raised"))
                 \/ /\ g.has = "empty" \/ (g.has = "file" /\ g.link = "none")
                    /\ Only(p, Advanced(t))
                 \/ /\ g.has = "file" /\ g.link # "none"
                    /\ Only(p, Advanced([t EXCEPT !.reference_file =
                                  {e \in @ : e.name # g.name} \cup {entry}]))

ReferenceExternal(p) ==
    LET t == tasks[p]
        remote_items == t.remote \o t.dataone
        g == girder[remote_items[t.i]]
        entry == [name |-> g.name, item |-> remote_items[t.i],
                  md5 |-> Md5FromPosition(Content, Len(Content))]
    IN  /\ t.pc = "external"
        /\ \/ t.i > Len(remote_items) /\ Only(p, Entering(t, "yaml"))
           \/ /\ t.i <= Len(remote_items)
              /\ \/ g.has = "deleted" /\ Only(p, Ended(t, "raised"))
                 \/ /\ g.has = "empty" \/ (g.has = "file" /\ g.link = "none")
                    /\ Only(p, Advanced(t))
                 \/ /\ g.has = "file" /\ g.link # "none"
                    /\ Only(p, Advanced([t EXCEPT !.reference_file =
                                  {e \in @ : e.name # g.name} \cup {entry}]))

UploadTaleYaml(p) ==
    LET t == tasks[p]
    IN  /\ t.pc = "yaml"
        /\ Create(p, Pid(p, "yaml", 0), Entering(t, "license"), {Ended(t, "raised")})

(* Slip: the pid is made before the file is opened, and returned anyway. *)
UploadLicenseAnyway(p) ==
    LET t == tasks[p]
        pid == Pid(p, "license", 0)
        licensed == [Entering(t, "repository") EXCEPT !.license_pid = pid]
    IN  /\ t.pc = "license"
        /\ \/ Create(p, pid, licensed, {Ended(t, "raised")})
           \/ Only(p, licensed)
           \/ Only(p, Ended(t, "raised"))

(* None when the file cannot be opened; an unknown license is a KeyError. *)
UploadLicenseFile(p) ==
    LET t == tasks[p]
        pid == Pid(p, "license", 0)
    IN  /\ t.pc = "license"
        /\ \/ Create(p, pid, [Entering(t, "repository") EXCEPT !.license_pid = pid],
                     {Ended(t, "raised")})
           \/ Only(p, Entering(t, "repository"))
           \/ Only(p, Ended(t, "raised"))

(* An IOError, from Girder, the download or DataONE, gives None, 0; one     *)
(* while copying gives a string the caller cannot unpack; the rest leaves.  *)
CreateUploadRepository(p) ==
    LET t == tasks[p]
        pid == Pid(p, "repository", 0)
    IN  /\ t.pc = "repository"
        /\ Create(p, pid, [Entering(t, "describe") EXCEPT !.repository_pid = pid],
                  {Entering(t, "describe"), Ended(t, "raised")})

(* Slip: the record waits for an item that has lost its file. *)
DescribeItemPatiently(p) ==
    LET t == tasks[p]
        eml_items == t.dataone \o t.local_items \o t.remote
    IN  /\ t.pc = "describe"
        /\ \/ t.i > Len(eml_items) /\ Only(p, Entering(t, "eml"))
           \/ /\ t.i <= Len(eml_items)
              /\ girder[eml_items[t.i]].has = "file"
              /\ Only(p, Advanced([t EXCEPT !.described = Append(@, eml_items[t.i])]))

(* create_minimum_eml reads every item again; file['mimeType'] of None is a *)
(* TypeError.  Its check of the user's names never fires.                   *)
DescribeItem(p) ==
    LET t == tasks[p]
        eml_items == t.dataone \o t.local_items \o t.remote
    IN  /\ t.pc = "describe"
        /\ \/ t.i > Len(eml_items) /\ Only(p, Entering(t, "eml"))
           \/ /\ t.i <= Len(eml_items)
              /\ girder[eml_items[t.i]].has # "file"
              /\ Only(p, Ended(t, "raised"))
           \/ /\ t.i <= Len(eml_items)
              /\ girder[eml_items[t.i]].has = "file"
              /\ Only(p, Advanced([t EXCEPT !.described = Append(@, eml_items[t.i])]))

UploadEml(p) ==
    LET t == tasks[p]
    IN  /\ t.pc = "eml"
        /\ Create(p, Pid(p, "eml", 0), Entering(t, "map"), {Ended(t, "raised")})

(* Every pid the task holds, None among them. *)
ResourceMap(p, t) ==
    [task |-> p, eml |-> Pid(p, "eml", 0),
     members |-> Range(t.local_file_pids)
                   \cup {Pid(p, "yaml", 0), t.license_pid, t.repository_pid}]

(* The package's landing page; None for a node that is neither of two. *)
PackageUrls == {"url", "no url"}

(* Slip: the license is not part of the package. *)
UploadResmapUnlicensed(p) ==
    LET t == tasks[p]
        map == [ResourceMap(p, t) EXCEPT !.members = @ \ {t.license_pid}]
    IN  /\ t.pc = "map"
        /\ UNCHANGED <<girder, objects>>
        /\ maps' = maps \cup {map}
        /\ Becomes(p, Ended(t, "url"))
        /\ UNCHANGED budget

(* The library may reject None among the pids. *)
CreateUploadResmap(p) ==
    LET t == tasks[p]
        map == ResourceMap(p, t)
    IN  /\ t.pc = "map"
        /\ UNCHANGED <<girder, objects>>
        /\ \/ /\ maps' = maps \cup {map} /\ UNCHANGED budget
              /\ \E r \in PackageUrls : Becomes(p, Ended(t, r))
           \/ /\ NoPid \in map.members
              /\ Becomes(p, Ended(t, "raised")) /\ UNCHANGED <<maps, budget>>
           \/ /\ Spend("refusal") /\ UNCHANGED maps
              /\ \E r \in PackageUrls : Becomes(p, Ended(t, r))
           \/ /\ Spend("break") /\ maps' \in {maps, maps \cup {map}}
              /\ Becomes(p, Ended(t, "raised"))

(* A call to Girder or to a download server that is not answered well. *)
CallBreaks(p) ==
    /\ tasks[p].pc \in {"filter", "relist", "upload", "paths", "external", "describe"}
    /\ Spend("break")
    /\ Becomes(p, Ended(tasks[p], "raised"))
    /\ UNCHANGED <<girder, objects, maps>>

PublishTale(p) ==
    \/ Authenticate(p) \/ FilterItem(p) \/ RelistItem(p) \/ CreateUploadObject(p)
    \/ CreatePaths(p) \/ ReferenceExternal(p) \/ UploadTaleYaml(p)
    \/ UploadLicenseFile(p) \/ CreateUploadRepository(p) \/ DescribeItem(p)
    \/ UploadEml(p) \/ CreateUploadResmap(p) \/ CallBreaks(p)

(* Celery took the message off the queue when it started the task. *)
WorkerDies(p) ==
    /\ tasks[p].pc \notin {"idle", "ended"}
    /\ Spend("death")
    /\ Becomes(p, Ended(tasks[p], "lost"))
    /\ UNCHANGED <<girder, objects, maps>>

Next ==
    \/ \E p \in Tasks : PublishTale(p) \/ WorkerDies(p)
    \/ \E i \in Items : Edit(i)

Spec == Init /\ [][Next]_vars

(* A worker runs its task, and every call is answered or breaks. *)
FairSpec == Spec /\ \A p \in Tasks : WF_vars(PublishTale(p))
------------------------------------------------------------------------------
(* Correctness *)

Files ==
    [has : {"file", "empty", "deleted"}, link : Links, name : Names,
     id : 0..MaxEdits, size : 0..MaxEdits]
Pids ==
    {Pid(p, "file", i) : p \in Tasks, i \in Items}
      \cup {Pid(p, part, 0) : p \in Tasks, part \in {"yaml", "license", "repository", "eml"}}

Pcs == {"idle", "filter", "relist", "upload", "paths", "external", "yaml", "license",
        "repository", "describe", "eml", "map", "ended"}
TaskStates ==
    [pc : Pcs, i : Nat \ {0},
     dataone : Seq(Items), remote : Seq(Items), local_items : Seq(Items),
     local_files : Seq(Files), local_file_pids : Seq(Pids),
     uploads : SUBSET [declared : 0..MaxEdits, sent : 0..MaxEdits],
     reference_file : SUBSET [name : Names, item : Items, md5 : Seq(Range(Content))],
     license_pid : Pids \cup {NoPid}, repository_pid : Pids \cup {NoPid},
     described : Seq(Items),
     result : {"none", "url", "no url", "message", "raised", "lost"}]

(* Types: what each variable may hold, that a task says how it ended        *)
(* exactly when it has, and that each local item goes with a file record.   *)
TypeOK ==
    /\ girder \in [Items -> Files]
    /\ objects \subseteq Pids
    /\ maps \subseteq [task : Tasks, eml : Pids, members : SUBSET (Pids \cup {NoPid})]
    /\ tasks \in [Tasks -> TaskStates]
    /\ budget \in [edit : 0..MaxEdits, refusal : 0..MaxRefusals,
                   break : 0..MaxBreaks, death : 0..MaxDeaths]
    /\ \A p \in Tasks :
          /\ tasks[p].result = "none" <=> tasks[p].pc # "ended"
          /\ Len(tasks[p].local_files) = Len(tasks[p].local_items)
          /\ tasks[p].pc = "relist" => tasks[p].i \in Items

(* The package is whole: from the moment its resource map is on the member  *)
(* node the map lists all that its task has put there, the EML record       *)
(* included, and nothing is added later.  A repository whose create call    *)
(* broke after it was stored is the one thing that may be left out.         *)
PackageWhole ==
    \A m \in maps : \A o \in ObjectsOf(m.task) \ (m.members \cup {m.eml}) :
        o[2] = "repository" /\ Used("break") > 0

(* As long as DataONE has refused nothing, a resource map lists nothing     *)
(* that is not on the node: it comes last, and a call that broke has ended  *)
(* its task, or has left None in place of the pid.                          *)
NothingDangling ==
    Used("refusal") = 0 =>
        \A m \in maps : (m.members \cup {m.eml}) \ {NoPid} \subseteq objects

(* However the items change while they are read, up to four times each, the *)
(* EML record of a package describes every item once, and the package has a *)
(* file for exactly those that filter_items found to be local.              *)
ItemsAccounted ==
    \A m \in maps :
        LET t == tasks[m.task]
        IN  /\ Len(t.described) = NItems
            /\ Range(t.described) = Items
            /\ {o \in m.members : o[2] = "file"}
                 = {Pid(m.task, "file", i) : i \in Range(t.local_items)}

(* Of items that nobody edits, those that are not uploaded are found by     *)
(* their names in tale.yml.  It is keyed by name, and several files may     *)
(* have one name: then it refers to one of these, never to an item of       *)
(* another name or to one that is uploaded.                                 *)
Refers(entries, is, g) ==
    /\ \A i \in is : \E e \in entries : e.name = g[i].name
    /\ \A e \in entries : e.item \in is /\ e.name = g[e.item].name
    /\ \A e, f \in entries : e.name = f.name => e = f
ItemsLocated ==
    Used("edit") = 0 =>
        \A m \in maps :
            Refers(tasks[m.task].reference_file, Items \ Range(tasks[m.task].local_items), girder)

(* Every publish that is started ends: with an answer, an exception or the  *)
(* death of its worker, whatever the users do to the items meanwhile.       *)
Ends == \A p \in Tasks : tasks[p].pc # "idle" ~> tasks[p].pc = "ended"

(* publish.py:632, of the pids of the resource map: "Also filter out any    *)
(* pids that are None, which would have resulted from an error. This        *)
(* prevents referencing objects that failed to upload."                     *)
FailedNotReferenced == \A m \in maps : m.members \ {NoPid} \subseteq objects

(* dataone_metadata.py:380, of populate_sys_meta's size: "The size of the   *)
(* document that is being described".                                       *)
SizeOfDocument ==
    \A p \in Tasks : \A u \in tasks[p].uploads : u.declared = u.sent
==============================================================================
