# Whole Tale on Kubernetes: models and proofs

This directory holds TLA+ models of the parts of the repository that carry its
own logic, TLC configurations that check them on small instances, and proofs
that TLAPS checks for all instances. Paths below are relative to the repository;
`gwvolman/` stands for `dev-kube/gwvolman/t/gwvolman/`, `webdav/` for
`csi-test/csi-wt-webdav/`.

## 1. The system

Whole Tale runs "tales" (a container image plus data) on a cluster. The
repository deploys it on Kubernetes, mounts users' data with a storage plugin of
its own, and has Celery workers do the long operations. Some 6,600 lines are the
project's own; the other two thousand files are vendored Go packages.

| Component | State it keeps | Operations |
|---|---|---|
| CSI WebDAV node server (`webdav/pkg/webdav/nodeserver.go`, with the mounter and `UnmountPath` of the vendored `k8s.io/kubernetes`) | nothing in memory: target directories, the mount table, FUSE daemons, temporary files | NodePublishVolume, NodeUnpublishVolume; stage and unstage do nothing |
| CSI driver start-up (`driver.go`, `cmd/wtwebdavplugin/main.go`) | constants | start |
| Publish task (`publish.py`, `dataone_metadata.py`, helpers of `utils.py`) | local variables of one run; objects and resource maps on a DataONE member node | publish_tale |
| Import task (`tasks_base.py`) | a dataset, a tale and an instance in Girder | import_tale |
| Task entry points (`tasks.py`, `tasks_bk.py`, `tasks_factory.py`, `constants.py`) | none | Celery wrappers |
| Instance helpers (`utils.py`) | API keys in Girder, a lazy cache of URLs | `_get_api_key`, `Deployment`, `_launch_container`, ... |
| Deployment scripts (`dev-kube/deploy.sh`, `lib`, `clean.sh`, `check_certs.sh`; near copies in `csi-test/`) | the cluster's resources and labels, files in `tmp/` | deploy, rerun, clean |
| Girder set-up (`dev-kube/setup_girder.py`) | Girder's users, plugins, settings | one sequence with two polls |
| Manifests, entry points, certificate extraction | none | none |

How they interact. `deploy.sh` creates the resources and ends by running
`setup_girder.py`, which waits for Girder, creates what it needs and has it
restart. Girder queues Celery messages; a worker runs `import_tale` or `publish`
and calls Girder's REST interface, DataONE and download servers. Kubernetes
(the *orchestrator*) asks the plugin on a node to mount a WebDAV volume for a pod
and to unmount it when the pod ends.

### What is hard, and what correctness means

*Node server.* Each RPC runs in a goroutine of its own (`csi-common/server.go`)
and there is no lock on a path. The orchestrator may give up on a call and retry
while the handler runs on, the container may restart (which ends the FUSE
daemons that live in it and leaves the mounts on the host), any system call may
fail. Correct means: an answer is true of the path; a path that was unpublished
stays so; neither mounts nor temporary files pile up; an unpublish that is
insisted on gets through.

*Publish.* One run makes dozens of calls, each of which may fail, while users
edit the items, and reads every item four times. Nothing is rolled back, and what
a run knows is lost with its worker. Correct means: when a resource map is on
the node, the package it describes is complete, is all there, and accounts for
every item of the tale; a run ends; the comments' promises about errors hold.

*Import.* A dataset is registered, then found again by name; a tale is created
before the instance that may fail; the instance is polled with no timeout.
Correct means: the tale is of the data that were asked for; "ready" is said of a
launched instance only; a failure leaves little; an import waits for nothing but
an instance that is launching.

*Helpers.* `_get_api_key` checks, then creates, in several workers at once;
addresses are read once per process and go stale; a configuration is changed in
place and read again. Correct means: a user's keys are few; the image is of the
registry the worker has logged in to; an environment gets one setting and loses
none.

*Deployment.* A sequence of calls that may be interrupted anywhere and rerun;
existence is tested by a substring match of a listing, which may fail; what
`clean.sh` deletes depends on a label set by a second call. Correct means: what
runs has what it mounts; a run that reports no failure has made everything;
clean leaves nothing but what an interruption kept from being labelled, and a
deployment after it goes through.

*Girder set-up.* Two polls with different ideas of an answer, and creations
without checks, beside a server that starts, restarts and stops. Correct means:
nothing is made twice; the second wait ends at a Girder with its plugins;
success means that all is there; a run ends.

`PROJECT.json` lists each hazard at its line with the properties that cover it,
or why none does.

## 2. Modules

| Module | What it is |
|---|---|
| `CSIVolume` | what the node server promises for a target path: each call takes effect at one instant, its answer is true of that instant |
| `CSINode` | the node server, a process per RPC, one system call per step; implements `CSIVolume` |
| `CSINodeMC` | instances of `CSINode`, symmetry |
| `CSINodeProofs` | type correctness; answers and final states (`ReplySound`, `DoneIsGone`); broken mounts (`CorruptStays`); the refinement of `CSIVolume` |
| `CSINodeBoundProofs` | bounds on stacked mounts and temporary files |
| `Publish` | `publish_tale`, one call to another system per step, beside users and failures |
| `PublishMC` | instances of `Publish`, symmetry of names |
| `PublishProofs` | type correctness of `Publish`; wholeness and soundness of packages |
| `PublishItemsProofs` | packages account for every item and locate it |
| `ImportTale` | `import_tale`, one call to Girder per step, several at once |
| `ImportTaleMC`, `ImportTaleProofs` | instances; types and the four safety invariants |
| `SetupOnce` | what running `setup_girder.py` promises, however often it is run |
| `GirderSetup` | `setup_girder.py`, one HTTP call per step, beside Girder; implements `SetupOnce` |
| `GirderSetupMC`, `GirderSetupProofs` | instances; types, the safety invariants and the refinement |
| `Deploy` | `deploy.sh`, `clean.sh` and `lib`, one command per step; its last command is a run of the set-up as `SetupOnce` has it |
| `DeployMC`, `DeployProofs` | instances; types and the five safety invariants |
| `Launch` | the helpers of `utils.py` that give a tale its container |
| `LaunchMC`, `LaunchProofs` | instances, symmetry of workers; types, keys, logins and environments |

A definition whose comment begins with *Slip* is a mutant: a form the code might
have had by mistake. It is used by no specification; `PROJECT.json` says which
property finds it out.

### CSINode

`dir[t]` says whether target directory `t` exists and who made it, `mounts[t]`
is the stack of file systems on it (only the last is visible), each with its
readonly flag and whether its daemon lives, and `tmp` counts the temporary
files. `rpc[c]` is the handler in slot `c`: its position, target, flag and code.
`solo` is a history variable: no other handler for that target was ever live
beside it. `waiting` and `goal` are the orchestrator's: the call it waits for
and what it wants of a path.

| Action | Code |
|---|---|
| `PublishCheck`, `UnpublishCheck` | the first `IsLikelyNotMountPoint` (nodeserver.go:42, 90) and the early returns it decides |
| `MkdirAll`, `CreateConfigFile`, `Mount`, `RemoveConfigFiles` | nodeserver.go:45, 63, 72, 73-74 and the return |
| `PathExists`, `DoUnmountCheck`, `Unmount`, `PostUnmountCheck`, `RemoveDir` | the system calls of `UnmountPath` (util.go:141, 166, 181, 184, 175/190) |
| `Issue`, `Abandon`, `Answer`, `Rethink` | the orchestrator: one call at a time for a path, retried until it is answered; a call may be given up |
| `Crash`, `DaemonDies` | the plugin's container restarts; one daemon dies |

`Stat` is what the kernel answers: a missing path, a plain directory, a mount
point, or ENOTCONN for a FUSE mount without its daemon. `IsLikelyNotMountPoint`
reads the path and its parent; both are one step. mount(8) refuses a missing or
broken directory; over a mounted file system the davfs helper may refuse or stack
another one, and both are allowed. The two `os.Remove` are one step, since no
other handler looks at the files; each of them may fail, which the handler does
not notice: what it could not remove stays and the publish is answered as if it
were gone. The code PermissionDenied does not appear:
`Mount` returns an error of `fmt.Errorf`, for which `os.IsPermission` is false.
The volume's URL and the contents of the configuration file (whose secrets line
names the configuration file itself, nodeserver.go:131) make no difference to
the properties.

### Publish

`girder[i]` is an item and its first file, as a list of files gives it: the name,
where its link points, and two numbers that stand for the file's identity and its
content. `objects` and `maps` are what the member node stores; a pid is fresh (a
uuid), so it is named for the run, the part and the item it was made for.
`tasks[p]` holds the local variables of a run, named as in the code, with its
position `pc`, the index `i` of the loop it is in and how it ended. `budget`
counts what users and failures may still do.

Each action is one call, or one turn of a loop: `FilterItem` and `RelistItem`
(the two reads of `filter_items`), `CreateUploadObject`, `CreatePaths`,
`ReferenceExternal`, `UploadTaleYaml`, `UploadLicenseFile`,
`CreateUploadRepository`, `DescribeItem` (the loop of `create_minimum_eml`),
`UploadEml` and `CreateUploadResmap`. `Create` is `upload_file`: the call is
accepted; or refused, which `upload_file` swallows; or it breaks with another
exception, stored or not. What becomes of a broken call is the caller's choice
and a parameter of `Create`: for all callers the task ends, but
`create_upload_repository` takes an IOError for `None, 0`. `CallBreaks` is the
failure of any call to Girder or a download server, `WorkerDies` the death of
the process. `CreatePaths` reads all items in one step: only a deleted item
matters to it, and a deleted item stays deleted.

A file's text, the YAML, the EML and the resource map are reduced to what they
list. The check of the user's names (dataone_metadata.py:216) is left out: its
generator yields only None, so it never fires. How `girder_client` writes a
download to a path belongs to that library and is not modelled. A pid that is
None in the resource map may be accepted or rejected by the library: both are
allowed.

### ImportTale

`external[d]` is a data set of the outside world, with its name and whether
Girder makes a folder or an item of it; `catalog` the data sets that have a
resource, `tales` and `instance` what imports have made, `tasks[p]` the local
variables of a run. The actions are the calls in their order: `Lookup`,
`RegisterDataset`, `FindFolder`, `FindItem`, `CreateTale`, `CreateInstance`,
`PollInstance`. `CallBreaks` is any call that raises, `AnswerLost` one whose
effect is there all the same, `WorkerDies` the end of the process. `Remove` is
what users and administrators delete meanwhile, `InstanceLaunched` the other
worker that launches the container. A poll of an instance that is still
LAUNCHING changes nothing and is left to stuttering. What the caller overrides with `tale_kwargs`
(tasks_base.py:135, "title, etc.") is taken not to be the data set: for a caller
that replaces it, `TaleOfLookup` and `TaleInCatalog` say nothing. The code takes the first
data set of the map and, of several resources of one name, the first Girder
lists: the model takes any of them.

### GirderSetup and SetupOnce

`server` is the process of Girder: whether it is up, has the plugins loaded
(they are, when it starts after they were enabled) and has been asked to
restart. `db[x]` counts what the database holds of each thing the script makes,
`run[r]` is a run of the script, `owner` a history variable. The actions are
`WaitForGirder` (setup_girder.py:22-34, with its counter of connection errors),
`CreateAdmin`, `CreateAssetstore`, `EnablePlugins` (with the request to
restart), `WaitForRestart` and `SetUpPlugin` (settings, recipe, image, build),
and `Interrupt`. A call is answered, refused, or breaks with or without its
effect. Answers of the ingress while Girder is down are waited out for ever by
both loops; a connection error ends the second. A Girder that is up is taken to
answer the polls with 200: one that never did would be polled for ever. In `SetupOnce` Girder is fresh,
claimed or ready, and only the run that claimed it can make it ready.

### Deploy

A script is a sequence of commands: `make` creates a resource with its label,
`bare` without it, `label` adds it, `unless` is `if ! exists ... then`, and so
on; `DeployScript` and `CleanScript` are the texts of the two scripts, and the
actions interpret the command at the head of what the run has left to do.
`cluster` and `labelled` are the resources, `data` is what `volume-dirs` holds
of Girder, in the stages of `SetupOnce`. `exists` greps for a name in kubectl's
listing, so that a longer name with ours in it counts: the deployment of the
worker is called celery-worker and is found that way; `foreign` holds resources
of others of which this is true. A listing that fails shows nothing (lib:148)
and is a fault the model may inject (`MaxBlind`); a halted minikube lists nothing
either. `Stop` interrupts between any two commands, in the middle of a deletion
by label, or between `minikube stop` and `minikube delete`, which are one command
of the model and leave a halted cluster when interrupted. A deletion is over when
its command returns, as it is with kubectl's default of waiting. The API server
is assumed to accept the manifests. The files of `./csi-drivers/deployment` are not in the
repository; they are the external `Plugin`. The type of cluster is minikube with
local volumes, as in `settings`.

### Launch

`task[w]` is the task of a worker and the call it is in, with the tale's
configuration, which `_get_container_config` changes in place, and what it was
given at first. `cache[w]` is the process-wide `DEPLOYMENT`, `labels` how often
each address changed in docker, `keys` the user's API keys. `ListKeys` and
`CreateKey` are `_get_api_key`, `GetImage` and `NameImage`
`_get_container_config`, `Login` and `CreateService` `_launch_container`. The
tasks that call them are not in the repository, so a task calls them in any order. A
size is `<<n, p>>`, n times the p-th power of 1024, and a set of none where the
code raises. A setting of an environment is its name and value; the code looks
for names that begin with CSP_HOSTS (utils.py:172), for which `CspNames` stands, and
replaces the first of them whatever its full name is: a setting called
CSP_HOSTS_OLD is lost, and `OneCsp` counts it as the one it becomes.

## 3. What TLC checks

| Run | Module, bounds | Shows |
|---|---|---|
| csi_answers | 1 target, 3 slots, 2 abandoned calls, 1 crash, 1 fault of any call but stat | `ReplySound`, `DoneIsGone`, `StackBound`, `CorruptStays`, `ImplementsVolume` |
| csi_overlap | 2 targets, 3 slots, 1 abandoned call, 1 crash, 2 faults of any calls | `TypeOK`, `TempFilesBounded` |
| csi_drain | 1 target, 3 slots, 1 fault, 1 abandoned call, no crash; fairness | `Drained` |
| publish_package | 1 task, 2 items, 2 names, 2 edits, 1 refusal, 1 break, 1 death; fairness | `TypeOK`, `PackageWhole`, `NothingDangling`, `ItemsAccounted`, `ItemsLocated`, `Ends` |
| import_tale | 2 imports, 2 data sets, 2 names, maps of none, one and both, 1 removal, 1 failure; fairness | `TypeOK`, `TaleOfLookup`, `TaleInCatalog`, `ReadyIsLaunched`, `OrphansBounded`, `Ends` |
| girder_setup | 2 runs, 2 connection errors endured, Girder stops twice, 1 fault, 2 interruptions; fairness | `TypeOK`, `NothingTwice`, `PluginsServed`, `SuccessIsComplete`, `Ends`, `ImplementsSetupOnce` |
| deploy | 3 runs of either script with any options, 2 interruptions, 1 failing listing, 2 lookalikes (a deployment and a configmap) | `TypeOK`, `WorkloadsSupplied`, `ConfigmapsLabelled`, `CompletedIsWhole`, `AfterClean`, `CleanSlate` |
| launch | 2 workers, 5 calls, 1 change, 1 revocation, 1 fault, 1 death, 4 kinds of tales | `TypeOK`, `KeysBounded`, `LoginMatchesImage`, `OneCsp` |

Why these bounds. *CSI:* two file systems on a path need one abandoned call and
three need two, with three handlers live at once; the third slot also lets an
unpublish run beside two publishes. Targets share only the temporary directory,
the slots and the restart, so two targets are used where the temporary files are
counted; two faults let both removals of a publish fail, or a creation in one
handler and a removal in another. *Publish:* tasks share nothing but the items, and the properties of
packages are about one task: a second only changes the timing, and
the users' edits, which may come at any step, already do that. Two items are
needed for loops that end half-way and for names that collide; two edits let an
item lose its file and get another. *Import:* two imports can register, between
each other's steps, data sets of one name or of two; a map of two data sets has
one that is not the first. *Set-up:* two runs may overlap or follow each other;
the first may be interrupted at any call and the second then meets what it left;
Girder may stop once in each wait; the limit of two connection errors stands for
ten and is reached. *Deploy:* three runs are enough for deploy, clean, deploy
and for two interrupted runs before one that goes through; the two lookalikes
are of the two kinds for which a substring match decides something different (a
deployment that is skipped, a configmap that is deleted under our name).
*Launch:* two workers race for a key and one revocation lets one of them make
another; five calls let both configure, log in and launch, or one of them
configure twice.

Deadlock is not checked where every task or run ends (Publish, import_tale,
girder_setup, deploy). In launch a task may always begin or end.

`ItemsLocated` is about an unedited tale and about names: of two remote files
with one name tale.yml lists one, and refers to no other item by it. `NothingDangling` has the premise that DataONE
refused nothing, which `publish_dangling` shows is needed. `DoneIsGone` needs
that no call was abandoned: a late publish handler can mount a path whose
unpublish has been answered OK. `TaleOfLookup` allows another data set of the very same name, because
the name is all the import looks for. `WorkloadsSupplied` and `ConfigmapsLabelled`
do not need listings that work, but by a narrow margin: one that fails reads as
absence, and the configmap of a running deployment would be deleted under it, if
the gwvolman-dev claim, which deploy.sh:97 creates unchecked before it comes to
the deployments, did not have the run refused as long as one of them is there.
`AfterClean` counts what has no label,
because `clean.sh` deletes by label and a run that is interrupted between a
creation and its label leaves one such resource. `SuccessIsComplete` leaves the
assetstore out, whose answer the script does not look at, and `ReadyIsLaunched`
says nothing of an instance that ended in ERROR, which the import announces like
one that runs. Where a premise keeps a hazard out of a property, `PROJECT.json`
does not list the property under that hazard but says why nothing covers it.

### Disagreements between code and documentation

Four runs are expected to fail; each checks one statement of a comment or of the
documentation, quoted above the property.

| Run | Property | What the code does |
|---|---|---|
| csi_stat_fault | `UnmountPathUnmounts` | a stat that fails in `PathExists` reads as "nothing to unmount", and OK is answered |
| publish_dangling | `FailedNotReferenced` | a refused object is referenced by the resource map |
| publish_stale_size | `SizeOfDocument` | a file edited before its upload is declared with its old size |
| deploy_rerun | `StartsOnlyMissing` | a default run over an interrupted one fails on the gwvolman-dev claim (deploy.sh:97), which is made without a check |

What `publish_dangling` shows has two more consequences: a refused EML record goes
unnoticed, although publish.py:626 says it is checked, and the task goes on without
the repository, where publish.py:458 says "We should stop".

What a reader sees in the code without a run:

- node server: a publish whose mount fails leaves the directory it made, and
  unpublish answers NotFound without deleting it; a readonly publish of a path
  mounted read-write is answered OK;
- publish: the md5 of an external file is that of no bytes (nothing seeks back
  after the copy); `is_orcid_id` returns whether `find` differs from 0, which is
  true unless the id starts with the name it looks for;
- scripts: the variable tested in clean.sh:23 has a comma in its name; the
  worker's deployment claims gwvolman-dev-pv where the claim is called
  gwvolman-dev-pvc; `check_certs.sh` sets `CERTS_OK` to a string that never
  makes its loop repeat; a run with `-k` that is interrupted after minikube has
  started leaves out, when rerun, the steps that follow the start.

### Fairness

`csi_drain`: a goroutine that can take a step takes one (the Go scheduler), an
answer arrives or is given up, and the orchestrator retries an unpublish as long
as it wants it, which Kubernetes' reconciler does. Nothing is assumed of
publishes, edits of the goal, faults or daemons. `Drained` is about a path with
no publish handler left: while publishes overlap with retries, a path may be
mounted again.

`publish_package`, `import_tale`: a worker runs its task, and each call to another
system is answered or breaks. Nothing is assumed of the instances in `import_tale`:
`Ends` says that an import ends or polls one that is launching, which is all the
code can promise. `girder_setup`: a run takes its next step, and Kubernetes
starts Girder whenever it has ended. Nothing makes a run start.

## 4. What is proved

The theorems hold for all values of the constants that satisfy the named
assumptions of the modules: any finite set of slots, any targets, tasks, items
and bounds. `TalesOK` of `Launch` says that a tale, and its image, has one
environment or none, and that an environment is a sequence. (The bounds on
failures are counters the invariants mention; they are arbitrary.)

| Theorem | States |
|---|---|
| `CSINodeProofs!TypeCorrect` | `Spec => []TypeOK` |
| `CSINodeProofs!SoloRepliesSound` | `Spec => []ReplySound`, if `"stat" \notin Faulty` |
| `CSINodeProofs!DoneStaysGone` | `Spec => []DoneIsGone`, if `"stat" \notin Faulty` |
| `CSINodeProofs!CorruptPathsStay` | `Spec => CorruptStays` |
| `CSINodeProofs!CallsAreAtomic` | `Spec => ImplementsVolume`, if `"stat" \notin Faulty` |
| `CSINodeBoundProofs!StackBounded` | `Spec => []StackBound` |
| `CSINodeBoundProofs!TempFilesAccounted` | `Spec => []TempFilesBounded` |
| `PublishProofs!TypeCorrect` | `Spec => []TypeOK` |
| `PublishProofs!PackagesAreWhole` | `Spec => []PackageWhole` |
| `PublishProofs!PackagesAreSound` | `Spec => []NothingDangling` |
| `PublishItemsProofs!ItemsAreAccounted` | `Spec => []ItemsAccounted` |
| `PublishItemsProofs!ItemsAreLocated` | `Spec => []ItemsLocated` |
| `ImportTaleProofs!TypeCorrect` | `Spec => []TypeOK` |
| `ImportTaleProofs!TaleIsOfLookup` | `Spec => []TaleOfLookup` |
| `ImportTaleProofs!TaleStaysInCatalog` | `Spec => []TaleInCatalog` |
| `ImportTaleProofs!ReadyAfterLaunch` | `Spec => []ReadyIsLaunched` |
| `ImportTaleProofs!OrphansAreBounded` | `Spec => []OrphansBounded` |
| `GirderSetupProofs!TypeCorrect` | `Spec => []TypeOK` |
| `GirderSetupProofs!NothingIsTwice` | `Spec => []NothingTwice` |
| `GirderSetupProofs!PluginsAreServed` | `Spec => []PluginsServed` |
| `GirderSetupProofs!SuccessIsWhole` | `Spec => []SuccessIsComplete` |
| `GirderSetupProofs!GirderIsSetUpOnce` | `Spec => ImplementsSetupOnce` |
| `LaunchProofs!TypeCorrect` | `Spec => []TypeOK` |
| `LaunchProofs!KeysAreBounded` | `Spec => []KeysBounded` |
| `LaunchProofs!LoginsMatchImages` | `Spec => []LoginMatchesImage` |
| `LaunchProofs!EnvironmentsHaveOneCsp` | `Spec => []OneCsp` |
| `DeployProofs!TypeCorrect` | `Spec => []TypeOK` |
| `DeployProofs!WorkloadsAreSupplied` | `Spec => []WorkloadsSupplied` |
| `DeployProofs!ConfigmapsAreLabelled` | `Spec => []ConfigmapsLabelled` |
| `DeployProofs!CompletedRunsAreWhole` | `Spec => []CompletedIsWhole` |
| `DeployProofs!CleanLeavesLittle` | `Spec => []AfterClean` |
| `DeployProofs!CleanSlateHolds` | `Spec => []CleanSlate` |

*Answers.* An answer is true because of what the handler found steps before, and
nobody else has touched the path since. `ReplyInv` says both: a mount has a
directory; a solo handler is alone for its target; what a solo handler is about
to answer is true of the path from the step that decided it (`DecisionsHold`);
and, while no call was abandoned, every handler is solo and waited for
(`Attended`), so that a path whose goal is "done" has no handler and is gone
(`Settled`). The assumption on stat is the one `csi_stat_fault` shows to be
necessary.

*Paths.* `CorruptStays` is an action property of any well-typed state: the proof
goes through the steps of a handler that stands before the check at a broken
mount. For the refinement each handler's step is put into one of three classes,
by what it does to its path and to its call: `Quiet` (a stutter), `Alters` (the
directory is made, or a file system comes off), `Settles` (the answer is
decided, and is true of the path at that step). `MountsHaveDir` of `ReplyInv` is
needed where a file system comes off: a directory must be left.

*Stacks.* `StackBound` alone is not inductive: two handlers about to mount would
both add. The invariant counts: the handlers nobody waits for are no more than
the abandoned calls (`OrphansBounded`), and the mounts that are there plus the
handlers that may still add one exceed one by no more than that
(`AddingBounded`).

*Temporary files.* `FilesInv` ties `tmp` to the number of handlers between
`CreateConfigFile` and `RemoveConfigFiles` and to the faults that happened: a
failing creation forgets up to two files, a failing removal the one it was for.

*Packages.* `PackageInv` follows a task. `Sound`: each pid a running task holds
is the pid of a stored object, as long as nothing was refused. `Whole`: each
object of a running task is one whose pid it holds, apart from a repository
whose call broke, and it holds no pid before the step that makes it. A map's
task has ended, so its objects do not change any more, which makes both lasting.

*Items.* `ItemsInv` follows the three lists of a task through its loops.
`SortedInv`: the lists of items on DataONE, of local and of remote ones are
together as long as the part of the folder that was sorted, and cover it, each
item once. `UploadedInv`: the pids of the files are those of the local items up
to the index of the loop. `DescribedInv`: the EML record has described the items
in the order of the lists. `LocatedInv`: as long as nobody edited, the lists
agree with the items' links and tale.yml refers to the external ones by their
names, as far as the loop has come (`Refers`): an entry takes the place of one of
the same name, so that no name is lost.

*Imports.* `ImportInv` says of each task that it has one resource from the step
that found it (`Located`), that this has the name of the data set it was asked
for, and is in the catalogue, if nothing was removed (`Faithful`), and that its
tale is of that resource and comes before its instance (`Ordered`).
`OrphansBounded` alone is not inductive, since an import fails some steps after
its tale was made. What is counted are the tales whose import has failed or
whose instance was deleted (`Doomed`): each has cost a failure or a removal.

*Set-up.* `SetupInv`: things exist at most once and only if an admin user does;
the run that made the admin user is the only one that is or was past that call
(`Sole`); and where that run stands says how much there is and what Girder has
loaded (`Placed`). The refinement is proved from it, one action at a time: the
first creation is `Claim`, the build `Complete`, failures of other calls `Fail`,
and the rest stutters.

*Keys and logins.* A worker makes a key only if the list it was shown had no
active one. So a worker that is about to make a key has no active one of its
own, and the keys are no more than the workers with an active key and the
revocations (`KeysOK`). An address in a worker's cache stays what it is until
the worker dies and its task with it, so the registry of the image and of the
login are one.

*Environments.* `EnvInv` says of every task that the environment it works on is
the one it was given, perhaps with its CSP_HOSTS set: the settings of
other names are where they were, and there is one CSP_HOSTS if there was one
setting whose name begins so, or none. A second
configuration of the same tale starts from the first one's result, so the
argument is about any number of uses. That `next(...)` has a first position to
find is the well-ordering of the naturals (`Smallest`).

*Scripts.* `Inv` of `DeployProofs` relates what a run has left to do to what is in
the cluster. The text of a script enters only by what `Plan` says of it, and
`Plan` survives the removal of a command from the front. What is left of
deploy.sh is made of known commands; nothing in it is made twice, and no claim or
secret after a deployment (`Ordered`); the deletion, creation, labelling and use
of a configmap follow each other directly (`Chained`). That deploy.sh is such a
sequence is proved section by section, each with what it makes
(`Section`, `Apart`). Then:

- `ProgressInv`: what is not there is still to be made, or hidden by a
  lookalike; with nothing left, `CompletedIsWhole`;
- `SupplyInv`: a deployment has what it mounts, and the gwvolman-dev claim, which
  `WorkloadsSupplied` does not mention, exists beside it. That claim makes the
  invariant inductive: a run that has got past it without being refused finds no
  deployment (`DeployInv`), and so deletes no configmap in use;
- `DeployInv`: a run that is about to make a deployment has its configmap, with a
  label, or has both still before it;
- `SlateInv`: after a clean that went through, all that a run is about to make
  without looking is absent, or is a configmap that it deletes first. What may be
  left of the rest is unlabelled, and is therefore a secret or a configmap;
- `CleanInv`: what has a label is of a kind whose deletion is still to come, and
  no deletion of deployments comes after another;
- `LooseInv`: resources without their label are no more than the interruptions,
  and one that the run is about to label. `AfterClean` follows with `CleanInv`:
  what is left after a clean has no label.

TLC has gone through the conjuncts of this `Inv` on an instance smaller than
that of the run (two runs, one interruption, one failing listing).

Only model-checked: liveness (`Drained` and the three `Ends`), which the prover
cannot do, and the four statements of comments and documentation that do not
hold. Every safety invariant of a passing run, its action property and its two
refinements are theorems.

## 5. Not modelled, and why

- The Celery wrappers (`tasks.py`, `tasks_bk.py`, `tasks_factory.py`,
  `constants.py`): no state. Three raise on every call (`tasks.py`:56 and 123
  name undefined variables, 110 calls a method that `TasksBase` does not
  define), and the factory imports modules that are not in the repository. So
  `Publish` starts at `publish_tale` and `ImportTale` at `TasksBase.import_tale`.
- Helpers of `utils.py` that nothing in the repository calls and that keep no
  state: `_safe_mkdir`, `is_dev_url`, `is_in_network`, `esc`, `get_file_md5`,
  `find_initial_pid`.
- The branches of the scripts for gke; `check_certs.sh`, which asks a person for
  files; the scripts of `csi-test/`, near copies of those of `dev-kube/`.
- Identity and controller servers: defaults of csi-common without state. Vendored
  packages other than the two the node server runs through.
- Manifests: declarative; what a deployment mounts is `Supplies` in `Deploy`.
- Certificate extraction and container entry points: straight-line.

## 6. Plan

What is left, in order of worth:

1. `GirderSetup` below `Deploy`: `Deploy!SetUpGirder` is a run of `SetupOnce`
   in one step; a theorem that the states of `SetupOnce` that a run may leave are
   those that `SetUpGirder` allows.
2. Action properties where an invariant says less than the code does: that a
   resource map, once accepted, is never accepted again for the same task; that a
   default deployment deletes nothing but an old configmap.
3. The gke branches of `Deploy`, once the repository holds the manifests they use.
