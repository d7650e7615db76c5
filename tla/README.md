# A specification of KubeDirector

KubeDirector is a Kubernetes operator.  A user creates a `KubeDirectorCluster`
resource that names an application (`KubeDirectorApp`) and asks for roles with so
many members; KubeDirector turns each role into a StatefulSet, runs the
application's setup package in each container, and tells the members of each
other.  This directory holds TLA+ models of the parts of it that are hard to get
right, TLC configurations that check them on small instances, and proofs checked
by TLAPS for all instances.  Paths below are relative to the repository.

## Inventory

| Component | State it keeps | Operations | Hard because |
|---|---|---|---|
| Cluster reconciler: pass and roles (`pkg/controller/kubedirectorcluster/{cluster,roles}.go`) | status stanza: state, generation to process, connection hash, per role a StatefulSet name and a member list | one pass every 30 s: check containers, sync roles, raise the generation, sync members, notify, write the status | it computes on a copy while users, Kubernetes and the webhook go on; it may die anywhere |
| Members (`members.go`) | per member: state, last configured and configuring container, configmeta and setup generations, queue of notifications | one handler per state; update, replicas, setup script, cleanup, notification | results of an earlier container or run survive on volumes; notifications fail one at a time |
| Services, executor (`services.go`, `pkg/executor`) | Kubernetes objects | create, update, delete, run in a container | any of them may fail in the middle of a pass |
| Status generations (`pkg/shared/statusgen.go`, `cluster.go`, `pkg/validator/cluster.go`) | in memory, the UID of the status last written and whether a write under it was admitted | announce, validate, forget | webhook, reconciler, cache and API server each have their own version |
| App references, app admission (`pkg/shared/apptypes.go`, `pkg/validator/app.go`) | in memory, which clusters use an app | register, remove, refuse a change or deletion; fill in an app's defaults | lost in a restart, tied to a finalizer, shared by clusters |
| Cluster admission (`pkg/validator/cluster.go`) | none | admit create, update, delete; fill in defaults, encrypt | looks at a stored status the reconciler is about to replace, an app and settings that change |
| Connections (`cluster.go`, `pkg/controller/{configmap,secret}`) | hash of what is connected in the status; two annotations, one that numbers the changes and one that wakes up the cluster | compare the hash, number the change, tell connected clusters, run `--reconnect` | hash and data are read at different times; several writers of one resource; retry with a stale copy |
| Restore (`cluster_restore.go`, `pkg/executor/clusterstatusbackup.go`) | three progress flags, a backup resource, a label | wait for app, status backup and resources, put the status back, resume | the flags are from different moments, and what they stand for may be gone again |
| Global configuration (`pkg/controller/kubedirectorconfig`, `pkg/shared/globalconfig.go`, `pkg/validator/config.go`) | one resource, a copy in memory, a master key | fill in defaults, generate the key, bring into force, delete | nothing polls it; the copy is shared with the pass; a patch, a reply or an event may be lost |
| Configmeta and catalog (`pkg/catalog`) | none | compute what a member is told | consistency with the member list |
| Observer, client (`pkg/observer`, `pkg/shared/client.go`) | informer cache | read | staleness |
| Secret keys, certificates, webhook start-up | keys | encrypt, start | no concurrency of interest |

The reconciler reads the cluster resource from the cache and works on a copy.
Every other component acts on the resource itself, through the API server, which
calls the webhook; the webhook and the reconciler share the maps of status
generations and app references in memory.  Kubernetes acts on the StatefulSets.
Scripts in the guests are started by commands and leave their result in files.
`PROJECT.json` lists the components with what is modelled of each, and the hazards
line by line.

What makes them correct:

- members: generations in order; every ready member whose script is run is
  tracked; a setup script starts once in a container and its result is not confused with
  another's; members join and leave at the end of the list and do not come back to life;
- the pass: replicas never cut a member that counts; a change of membership moves
  the generation; "configured" means that nobody has anything left to process;
- at rest: StatefulSets, containers, configmeta and what the app instances were
  told all agree with the member list; and the cluster comes to rest;
- the resource: a pass starts from the last status; nobody is locked out by the
  status check; references and UIDs live as long as the cluster;
- connections: whatever changes, configmeta and setup scripts end up with the
  last data, and those who announce a change get through;
- a restored cluster resumes when everything is back, and never while the backup
  tool has something left to put back;
- the settings in force are one version as a whole, in the end the stored one, and
  the key that encrypts is stored;
- no series of admitted requests leads to a cluster its app cannot run, nor changes
  app or key under a running cluster.

## Modules

`MemberStatus.tla`: what the status records of a member, what Kubernetes and the
guest hold for its pod, and the functions the reconciler applies to one member or
one list: `ContainerChecked` (a container was replaced), `Configured` (a step of
`appConfig`: skip, reread the old result, start the script, take its result; for a
role whose event list has no `configure`, upload and be done), `Resized`,
`AllStranded`, `Compacted` (`handleRoleResize`, `handleRoleReCreate`,
`compactMembers`).  `EventList` gives each role the events it asks for: `Scripted` are
the roles whose script is run (`members.go:1411`), and a command is queued only for
roles that list it (`Queued`; `members.go:1488`).

`ClusterReconciler.tla`: the reconciler of one cluster with its surroundings.  A
pass is cut into steps where something else may come between its reads and writes:

| Step | Code |
|---|---|
| `FirstPass`, `BeginPass`, `BeginPassNoCluster`, `BeginPassNoSset`, `BeginPassNoService` | `handleNewCluster`; `checkContainerStates`, `syncClusterService`, `syncClusterRoles`, the generation, `syncMemberServices`; and its three early exits |
| `BeginPassOverwritten` | the same, where the annotation update in between is accepted and its reply replaces the copy (`cluster.go:301`) |
| `UpdateReadyMembers` | `syncMembers` up to the decision to go on: `handleReadyMembers`, `checkGenOk` |
| `HandleRole` | for one role `checkMemberCount` and the handlers of create-pending, creating, delete-pending and deleting members, with `generateNotifies` and `queueNotify` |
| `PanicInRole`, `DiesInRole` | the nil StatefulSet in the goroutine of the pass (`members.go:823`), whose deferred function still notifies and writes the status; the nil role spec in a goroutine of its own (`members.go:553`), which ends the process at once |
| `StartNotify`, `Deliver` | `syncMemberNotifies`, one member at a time |
| `WriteStatus`, `Crash` | the deferred write; the process dies |

The roles are synced, and the members of one state of a role handled, in parallel
in the code and wait for each other, so that one step stands for them.  Around it:
`ChangeSpec` (with the guards of `validateSpecChange` and `validateRoleChanges`),
`ChangeConnections`, pods that start, stop and restart, scripts that end, and a
StatefulSet that is deleted.  The copy `cr` and the stored status `stat` are
separate variables, so that admission may happen in the middle of a pass.  The webhook
lets an update that carries a changed status through if none was let through since the
status was written; `admitted` says whether one was, and so when `BeginPassOverwritten` is
possible.  A pass that panicked writes the status like any other, and the restart that
follows leaves nothing in memory (`WriteStatus` sets `admitted` for it).

`ClusterProperties.tla` has its properties, `MCReconciler.tla` its instances.

`MemberList.tla` is an abstract specification of the member lists: those in service
are the first ones of each role, members join and leave at the end, and while
somebody is leaving nobody joins, so that who leaves is not brought back and a
name is given again only when its last bearer is gone.  `ClusterReconciler` implements
it (`ActsAsMemberList`), with the ordinals in the stored status that are in a requested
state for `inService` and those in a deleting or gone state for `leaving`.  A pass
takes many steps to change its copy; the abstract step is `WriteStatus`.

`ClusterObject.tla`: the resource itself, from creation to deletion: what is stored,
what the cache shows, the known UID, the reference to the app, and the pass reduced to
numbered effects that a status must record.  `Begin*` are the outcomes of
`handleFinalizers` and `handleNewCluster`; `NewHash` is the annotation update in
the middle of a pass; `Notify`, `Announce`, `WriteStatus`, `WriteUnheard` (stored,
but the reply was lost), `WriteFinalizer`, `Refetch` and `GiveUp` are the deferred
function; `Admitted` and `Validated` the status check of the webhook.  The webhook
is registered for `kubedirectorclusters` only, so that status writes, which go to a
subresource, do not meet it.  The reply to an accepted update is decoded into the
object it was made from, which is why `NewHash` replaces the status of the copy.

`Connections.tla`: a cluster connected to config maps, secrets and another cluster
(the peer).  A member is reduced to what it was given and has processed.

| Step | Code |
|---|---|
| `BeginPass`, `PassDies` | `calcConnectionsHash`, and the dereferenced status of a peer that has none (`cluster.go:452`); the deferred function then writes back a status in which nothing of this module has changed |
| `SameHash`, `NewHash` | the comparison of hashes, the update of `hashChangeCounter`, the new generation, the early return |
| `SyncMembers` | `handleReadyMembers` with configmeta upload and `--reconnect`, `checkGenOk`, `handleCreatingMembers` |
| `WriteStatus`, `Crash` | the deferred write; the process dies |
| `HandleEvent`, `PeerStable`, `Notify`, `GiveUp` | the config map and secret controllers and the peer's reconciler: list the clusters, update `connUpdateCounter`, retry with the stale copy |
| `Edit`, `PeerResize`, `PeerClean`, `PeerFirstPass`, `ScriptEnds` | what users, the peer and the guests do |

Resource versions are abstracted to `current`, the set of those who hold the
newest one: an update succeeds for a holder and leaves no holder.

`Restore.tla`: a cluster with the being-restored label.  `ResumeRestored`,
`ResumeRefused`, `BeginRestore`, `CheckAppRestored`, `CheckStatusRestored`,
`CheckResourcesRestored` and `WriteRestoreStatus` are `handleRestore` in its order,
the flags computed one after the other from what is there at that moment;
`NormalPass` is what an ordinary pass does to what it finds missing; `PutBack`,
`Disappear` and `Reappear` are the backup tool and others, `TakeLabelOff` and
`DeleteRestoring` the user, with the webhook's checks (`Resumable`): the app, the
connections, no queued notifications, and what else a validation looks up (`Referenced`: service
accounts, storage classes, secrets, claims, sources of file injections).

`ConfigRegister.tla` is an abstract specification, in ten lines: a value that users
replace, and one that is in force, which is the current one, an earlier one or the
default, as a whole.  `Settings.tla` implements it (`ActsAsRegister`): the
resource, the informer's copy, the webhook's `StatusGens` entry, the copy in memory
and the pass, which works on a resource that is at the same time the settings in
memory.  The refinement mapping takes `Current` for what the stored resource says,
`heldSpecs` (history) for what it has said, and `globalConfig` for what is in force.

| Step | Code |
|---|---|
| `BeginGone`, `BeginDeleting`, `BeginStale`, `BeginNew`, `BeginKnown`, `BeginRecovered` | the outcomes of `Reconcile` and `syncConfig` |
| `BeginPatched`, `BeginUnpatched` | `ensureMasterKey`, with and without an error |
| `Announce`, `WriteStatus`, `WriteUnheard`, `WriteFinalizer`, `Refetch`, `GiveUp` | the deferred function |
| `CreateConfig`, `EditConfig`, `DeleteConfig` | users, with `admitKDConfigCR` |

`Admission.tla` EXTENDS `Settings`: the rules for apps and clusters as operators
(`AppValid`, `Defaulted`, `CardinalityOk`, `MinimumsOk`, `Filled`, `RoleChangesOk`,
...), the requests that go through them, and as much of the cluster reconciler as
the rules depend on.  What a stored cluster has to be is defined apart from the
rules, for each role name (`Fits`, in `Conforms`) and by sets of pods (`WithinLimits`).
`MCAdmission.tla` has the documents:
an app with a scalable role and a fixed one, three variants of it, and eight
requests, so that each rule has a request it refuses.

`ClusterProofs.tla`, `PassProofs.tla` and `RestingProofs.tla`, of which each extends the
one before, have the theorems about `ClusterReconciler`; `ObjectProofs.tla`,
`ConnectionsProofs.tla`, `RestoreProofs.tla` and `SettingsProofs.tla` those about
`ClusterObject`, `Connections`, `Restore` and `Settings`; `AdmissionProofs.tla` extends
the last and has those about `Admission`.

Definitions named `X_Y` are mutants of `X`: a slip in the code that must break a
property.  They are used by no specification.

## Checked with TLC

| Run | Instance | Shows |
|---|---|---|
| `Growth` | 1 to 2 members, 1 connection change, 1 restart, failed exec, failed script or failed API call | `GenerationsOrdered`; at rest every instance knows exactly the members (`RestingViews`) |
| `Resize` | 2 members, 2 changes between 0, 1 and 2, 1 restart or deleted StatefulSet | `RequestedPrefix`, `ScaleDownSparesMembers`, `RestingSsets`, `RestingMeta`, `RestingViewsComplete`; the member lists implement `MemberList` (`ActsAsMemberList`) |
| `Volumes` | 2 members on volumes, 2 changes between 1 and 2, 1 crash, restart, failed exec or failed script | `FreshMemberFreshDisk`, `ConfiguredMeansDone`, `ConfigureOncePerContainer`, `RetryFromScratch` |
| `TwoRoles` | 2 roles, of which one lists `configure` and `addnodes`, the other only `addnodes`, added, emptied, removed; 1 connection change, 1 restart | `TypeOK`, `ReadyIsTracked`, `GenMovesWithMembers` |
| `Converge` | 2 members, 2 changes between 0, 1 and 2, 1 restart, failed exec or crash | the cluster comes to rest (`Converges`) |
| `Lifecycle` | one resource; 1 effect, edit, hash change, and one lost reply or restart | `TypeOK`, `SyncsOnLatest`, `NobodyLockedOut`, `Released`, `AppKept` |
| `Connections` | 1 member, 1 config map, a peer of up to 1 member, 1 edit, 1 resize, 1 failed command or crash | `RestingData`, `ReadyMembersReconnect`; every change arrives (`ChangesArrive`), the peer gets through (`PeerConfigured`) |
| `Restore` | 2 components, 1 connection, 1 claim, 1 restart or disappearance | `NothingDoubled`, `Resumes` |
| `Settings` | 2 values of the setting, 3 edits, 2 restarts, lost replies or failed patches; a resource without a key to begin with | `KeyIsStored`, `StaysEditable`, `SettingsArrive`, `ActsAsRegister` |
| `Admission` | 2 clusters, 2 roles, 4 app documents, 8 requests, 3 changes, 1 edit of the settings, 1 restart | `Conforms`, `WithinLimits`, `PortsComplete`, `KeyKept`, `AppUnchanged` |
| `RestoredQueue` | as `Restore`, with a queue in the backup and no fault | `Resumes` is violated, see below |
| `Misled` | 1 cluster, 2 changes | `NotMisled` is violated, see below |

Bounds.  Two members are the fewest for which one is left to be told of the
other's arrival or departure and for which the order of the list matters; two
changes let a role be changed again while the first change is under way; two roles
are needed only where one role's error or its event list matters to another.  One
fault at any step is enough to separate any two writes of a pass.  The instances of
`ClusterReconciler` have between 95 thousand states (`Growth`) and a million (`TwoRoles`).
In `Growth` and `TwoRoles` a connection changes, so that they have passes whose copy is
replaced; `Resize`, `Volumes` and `Converge` have none, as most of their properties do not
survive one (see the last list of this section).
`ClusterObject` has also been run with two effects (1.2 million states) with the
same result.  Roles, members and their orders differ, so that no symmetry is
used there.

In `Connections` one member suffices because no rule relates two of them but
`checkGenOk`, which `Growth` and `Resize` have with two; one source and the peer
are two independent writers of the annotation besides the reconciler itself. In
`Restore` two components let one be back while the other is not, and a third
kind of resource, the connection, is asked for apart from them. In `Settings`
three edits are needed for a resource to be deleted and made again and edited
during one pass, and two faults for a lost reply followed by a restart; the same
properties hold with four edits (677,517 states) and with three faults. In
`Admission` two clusters share the entry of an app; three changes let one
create, edit and touch the app or the other cluster; the limit of two members
is exceeded by one of the requests, and `IntMax` is above every sum of the
requests, so that wrapping does not occur (see the last list of this section).
The two clusters are interchangeable, and there is no liveness property, so that
their symmetry is used.

Deadlock is not checked where the system may be done for good: `Lifecycle` and
`Restore` (the resource is gone), `Settings` and `Admission` (no request is queued and
the bound of edits is reached).

Fairness (`Fairness` in `ClusterReconciler.tla`): the steps of a pass, because the
controller runs one every `reconcilePeriod` and retries what failed; starting and
stopping of pods, because that is what Kubernetes is asked for; the end of a
script, successful or not, because the code waits for it without a timeout.
Users and faults are under no fairness and bounded, so that `Converges` says:
when they stop, the cluster settles.

`Connections`: the steps of a pass, which is polled; `Notify` and `GiveUp`, because the
retry has a time limit; `HandleEvent`, because the event queue is worked off; the
peer's passes and the end of scripts.  The peer's first pass is under none, since
the connected cluster's reconciler kills the process until it has happened, so
that both liveness properties are conditional on it.  `Restore`: the steps of
`handleRestore`, which is polled; none for the backup tool, so that `Resumes` starts
from everything being there.  `Settings`: the pass when a request is queued, and the
informer; there is no poll (`reconcilePeriod` is zero), and none is assumed.

### Disagreements between code and intent

| Run | Property | What happens |
|---|---|---|
| `RestoredQueue` | `Resumes` | a status that was backed up with queued notifications: taking off the label counts as a spec change, which is refused for a queue (`validator/cluster.go:115`), and only a pass after it could send the queue; `doc/backup-and-restore.md:60` says that such a state is "properly captured and restored" |
| `Misled` | `NotMisled` | a role is edited while the stored status has no members of it and a pass is making them from the older spec (`validator/cluster.go:379`); they stay under a spec they do not have, which `validator/cluster.go:375` sets out to prevent |

### Observed divergences without a run

The same models, in other instances or with one property stated without its
exception, also show these; no configuration is kept for them.

Members and passes:

- A member on a volume whose pod restarts during a spec change keeps its old
  configmeta generation; `syncMembers` then waits for it for ever (`members.go:82`;
  `HISTORY.md:202` says such a member is handled).
- A role is removed while one of its members is being created: every later pass dies
  on the nil role spec (`members.go:553`; `DiesInRole`).
- A crash after the start of a setup script: the member becomes ready without
  generations, and is taken for one without a setup package (`members.go:307`).
- One role's StatefulSet cannot be created: other roles' member changes are stored
  without a new generation (`cluster.go:274`).
- A pass refused for its stale status still delivers the notifications in it and then
  writes it over the newer one (`cluster.go:92`, `185`).
- A cluster deleted before its finalizer is stored keeps its app reference and its
  UID in memory (`cluster.go:707`).
- A configured member whose pod restarts and which is removed in that state
  (create pending) goes straight to deleting, so that nobody is told
  (`roles.go:563`; `roles.go:338` says why configured members are announced).
- A spec change admitted while a pass fails to deliver a notification puts an
  addition and a deletion of one node in the same queue; a failed command is sent
  again after the later one (`members.go:215`; the guard at `validator/cluster.go:115`
  looks at the stored status).
- With only a connection changed, the test at `cluster.go:404` comes after the hash
  was stored and is always true: the status says configured for one pass with the
  generation raised and no member updated.  `Volumes` checks `ConfiguredMeansDone`
  without connection changes for this reason.
- A retry after a config error clears the error before it is turned away for the lack
  of a generator (`members.go:1249`); the next pass rereads the old container's
  result.  `Volumes` has no connection change and one fault.
- A crash after a retried script has started leaves the stored status saying that it
  is a retry; after another restart of the container the script is started twice
  (`members.go:1330`).  It takes two faults.
- An annotation update accepted in the middle of a pass replaces the in-memory
  status by the stored one, with the loss of the role changes the pass has made
  (`cluster.go:301`); `ClusterObject` shows it with two effects and one hash change, and
  `ClusterReconciler` what it leads to (`BeginPassOverwritten`).  The name of a new StatefulSet is
  lost, and the next pass makes another one (`RestingSsets`).  Members that were to leave
  stay in service with the new generation, but the pass goes by their being gone: their
  pods are not counted (`ScaleDownSparesMembers`), and the configmeta of the new
  generation does not list them (`RestingMeta`).  With three members the list gets a gap
  (`RequestedPrefix`), and the stored lists change as `MemberList` does not allow.
- A role whose event list has no `configure` has members that are ready without a setup
  generation and are never told of anything, even if it lists `addnodes`: `generateNotifies`
  takes the missing generation for a missing setup package (`members.go:1412`, `1145`).
  By `HISTORY.md:159` a role is not notified of the events it does not list; this one is not
  notified of one it does.  `RestingViewsComplete` is therefore about roles that list both.

Connections:

- `hashChangeCounter` moves in memory although its update is refused
  (`cluster.go:301`); the next pass has the new hash and the old number, and nobody is
  reconnected for that change.  `ReadyMembersReconnect` leaves out `refused`.
- A member that is being set up takes the newest connection version, whatever data its
  script has started on (`members.go:550`): no `--reconnect` either, until the next
  change.  `ReadyMembersReconnect` leaves out `joining`.  `doc/backup-and-restore.md:46`
  counts on a "reconnect" whenever a connection reappears.
- The version goes up by one for each `--reconnect`, however many changes were missed;
  the comment at `members.go:344` says that the versions are made equal.
- A config map created and deleted between two computations leaves the hash as it was
  (and the configmeta of whoever was told in between as it was not).
- A connected cluster that no pass has been at has no status: the process dies at
  `cluster.go:452` until it has one (`PassDies`).
- A refused announcement is retried with the stale copy for more than an hour, in
  the worker that all clusters share, and is then dropped (`cluster.go:385`, and the same
  code in the config map and secret controllers; `GiveUp`).  That the next poll
  computes the hash anyway is why `ChangesArrive` holds.
- Configmeta lists members of a connected cluster that have gone, as nothing tells
  apart why they are still in its status; and a pointer to a loop variable makes it
  list the last member of a connected role once for each (`pkg/catalog/configmeta.go`).

Restore:

- A restored cluster has an entry in `StatusGens` from its status writes, and so never
  registers the reference to its app; until a restart the app may be changed or
  deleted (`NormalPass`).
- A cluster deleted while it is being restored has no finalizer, and its UID stays.

Settings:

- The patch that is to store a missing key is empty, since original and copy share
  their spec (`kubedirectorconfig/config.go:193`); that the key is stored is the
  webhook's doing.  When the patch fails, a key that is stored nowhere encrypts until
  the next restart (`patchFailed`).
- After a conflict of the finalizer the settings in memory are the newest, and the
  next pass, over an older cache, puts older ones in force for a while; `TakeEffect` of
  `ConfigRegister` allows it.
- The key may be changed and the resource deleted whenever no cluster is noted in
  memory, as after a restart, although the messages say "while kdclusters exist".
  `KeyKept` speaks of clusters that a pass has been at.

Admission:

- Member counts are added up in an int32 (`validator/cluster.go:215`): with 2147483647
  members after another role the sum is negative and below the limit (`Wrapped`).
- The default log size is filled in by a patch and the in-use comparison is made with
  the document before it (`validator/app.go`): sending the same app again is refused
  while a cluster uses it (`Compared`).
- The state that tells of a modified spec is patched into a subresource and dropped, so
  that two changes in a row are admitted before a pass has seen the first.
- `validateApp` fills in the catalog only as a patch, so that an update that leaves it
  out is refused; so is a secret sent again in clear text, and a role whose storage
  class was left out after the default has changed, for roles with members.
- `validateCardinality` leaves counts that were left out as they are when it skips an
  unknown role or ends at the limit; `validator/cluster.go:1207` then dereferences
  them for a role with volume projections.

## Proved with TLAPS

For all values of the constants that satisfy the named assumptions
(`RolesAssumption`: finitely many roles; `MaxMembersAssumption`;
`RoleKindsAssumption`; `EventListAssumption`: a role lists some of the
three events; `SpecAssumption` and `BoundsAssumption`: the inputs have their types; `MembersAssumption`: finitely many members, and at least one;
`KindsAssumption`: the kinds of resources of a restore are disjoint;
`SettingsAssumption`: bounds are numbers, switches Boolean, the default is a value;
`LimitsAssumption`: so are the bounds of admission, with the member limit below the
largest int32; `DocumentsAssumption`, `FirstAppAssumption`: app documents and requests
have the types that the schemas of the resources give them, and the app installed
at the beginning is one that the webhook lets in):

| Theorem | Statement |
|---|---|
| `ClusterProofs!TypeCorrect` | `ClusterReconciler` is well typed |
| `ClusterProofs!GenerationsStayOrdered` | `Spec => []GenerationsOrdered` |
| `ClusterProofs!MembersArePrefix` | `Spec => []RequestedPrefix`, without `BeginPassOverwritten` |
| `ClusterProofs!ImplementsMemberList` | `Spec => ActsAsMemberList`, without `BeginPassOverwritten`: `ClusterReconciler` implements `MemberList` |
| `PassProofs!FreshDisks` | `Spec => []FreshMemberFreshDisk`, without `BeginPassOverwritten` |
| `PassProofs!ScaleDownsSpareMembers` | `Spec => ScaleDownSparesMembers`, without `BeginPassOverwritten` |
| `PassProofs!GenerationsMove` | `Spec => GenMovesWithMembers`, without `BeginPassOverwritten`, `BeginPassNoSset` |
| `PassProofs!ConfiguredWhenDone` | `Spec => ConfiguredMeansDone`, without `BeginPassOverwritten`, `ChangeConnections` |
| `PassProofs!ScriptsStartOnce` | `Spec => ConfigureOncePerContainer`, without `BeginPassOverwritten`, `PassDies` |
| `RestingProofs!ReadyMembersTracked` | `Spec => []ReadyIsTracked`, without `BeginPassOverwritten`, `PassDies`, `BlindRetry` |
| `RestingProofs!RetriesStartOver` | `Spec => RetryFromScratch`, without `BeginPassOverwritten`, `PassDies`, `BlindRetry` |
| `RestingProofs!SsetsAreNamed` | `Spec => []RestingSsets`, without `BeginPassOverwritten`, `PassDies` |
| `RestingProofs!MetaAtRest` | `Spec => []RestingMeta`, without `BeginPassOverwritten`, `PassDies`, `BeginPassNoSset` |
| `RestingProofs!ViewsComplete` | `Spec => []RestingViewsComplete`, without these three, `BlindRetry`, `DeliversPart` |
| `RestingProofs!ViewsExact` | `Spec => []RestingViews`, without these five and `DropsUnheard` |
| `ConnectionsProofs!ConnectionTypes` | `Connections` is well typed |
| `ConnectionsProofs!RestingDataIsCurrent` | `Spec => []RestingData` |
| `ConnectionsProofs!RestingScriptsAreCurrent` | `Spec => []ReadyMembersReconnect` |
| `RestoreProofs!RestoreTypes` | `Restore` is well typed |
| `RestoreProofs!RestoreNothingDoubled` | `Spec => []NothingDoubled` |
| `ObjectProofs!PassesStartFromLatest` | `Spec => []SyncsOnLatest` |
| `ObjectProofs!EditsAreAdmitted` | `Spec => []NobodyLockedOut` |
| `ObjectProofs!DeletedClustersAreForgotten` | `Spec => []Released` |
| `ObjectProofs!AppsInUseAreKept` | `Spec => AppKept` |
| `ObjectProofs!TypeCorrect` | `ClusterObject` is well typed |
| `SettingsProofs!SettingsTypeCorrect` | `Settings` is well typed |
| `SettingsProofs!KeyStored` | `SettingsSpec => []KeyIsStored` |
| `SettingsProofs!SettingsStayEditable` | `SettingsSpec => []StaysEditable` |
| `AdmissionProofs!AdmissionTypes` | `Admission` is well typed |
| `AdmissionProofs!StoredConforms` | `Spec => []Conforms` |
| `AdmissionProofs!LimitsHold` | `Spec => []WithinLimits`, if `SmallCounts` |
| `AdmissionProofs!PortsFound` | `Spec => []PortsComplete` |
| `AdmissionProofs!AppsStay` | `Spec => AppUnchanged` |
| `AdmissionProofs!KeyStaysStored` | `Spec => KeyKept` |
| `AdmissionProofs!SettingsHold` | `Spec => SettingsSpec`: what holds of `Settings` holds in `Admission` |
| `SettingsProofs!ImplementsRegister` | `SettingsSpec => ActsAsRegister`: `Settings` implements `ConfigRegister` |

"Without `A`" is the hypothesis `[][~A]_vars`: no step is an `A` step.

`ClusterProofs`.  `GenerationsOrdered` is about the stored status and the copy, and
each is made from the other: a pass reads `stat` into `cr` and raises the
generation, the last step writes `cr` back.  The invariant is therefore that both
are well typed and ordered.  Its first part has, for every function
of `MemberStatus` that yields a member or a list, the lemma that it keeps type and
order when the generation does not fall; then there is one lemma per action.

For the member lists, a pass works on a copy and may be lost at any step, so that the
invariant (`ListInv`) compares the copy with the stored status it started from: every
list of either is `Dense` (those in service are the first ones), and the copy's is
one move of `MemberList` away from the stored one (`Moves`).  The lists change at the
start of a pass only, by `Grown`, `Shrunk` or `AllStranded`, with a lemma each:
growing takes place when all who are present are in service; shrinking marks
members by their index in the list, which for those in service is the ordinal
(`IndexInService`), and would leave one in the middle that is being created, had the
pass not put off the roles because of it (`Postponed`).  The member handlers move members
within service, or on their way out (`Alike`); that needs the states they go by to be
those of the copy still (`SnapIsCurrent`).  The write drops who is gone and is the abstract step
(`WriteStatusMoves`); all others leave the stored lists alone.

`PassProofs`.  An action of the reconciler does much, and most of it does not matter
to a given property.  The module therefore says first, once, what a kind of step
may do to one member, its guest and its pod (`Begins`, `Swept`, `Happens` and the
like; `Kinds` says that every step is of one of them), and each invariant is then
shown of one member and step kind at a time.

- `FreshDisks`: a member that has yet to run anything has no status file (`Housed`).
  A member may have been started by a pass whose write is still to come; a dying pass
  then leaves its file to a member that is still create-pending in the stored status,
  unless starting takes a pass of its own: the scripts run only for members that the
  stored status calls creating already (`CreatingIsStored`).
- `ScaleDownsSpareMembers`: replicas are the number of members in service
  (`RecountSpares`), and those are the first ones (`Dense`).
- `GenerationsMove`: who came or went in the copy did so in this pass, which then has a
  higher generation than the stored one (`GenInv`).
- `ConfiguredWhenDone`: when the state turns to configured, every member is stable (`DoneInv`): with
  the connections as they are, a pass that finds nothing to do raises the generation
  only if there was no hash yet, and then there is no member to be out of date.
- `ScriptsStartOnce`: a status file is of the container it was last started in, and no
  record is ahead of the pod (`Aged`); a failed setup is taken up only in a later
  container.

`RestingProofs`, with the same kinds of steps:

- What the rest stands on (`GivenInv`): a member of a role with a setup package that is
  ready, or has a configure.status file, has been given configmeta; and without a volume the
  file goes with its container (`Fleeting`).
- `ReadyMembersTracked` and `RetriesStartOver` (`TrackInv`): a configure.status file is
  believed only if it is of this container or the setup has once gone through
  (`Trusted`).  Without a volume that is so because the file goes with its container; on a
  volume because a failed setup is taken up again only with new
  generations, once `BlindRetry` is out of the way.  This is about roles whose script is
  run (`Scripted`).  The members of the others never have such a file, a setup generation
  or anything queued (`UntrackedInv`).
- `SsetsAreNamed` (`SsetInv`): the one StatefulSet of a role is the one the copy names, and
  a new one is created only when there is none.
- `MetaAtRest` (`MetaInv`): who has a generation that is the current one, in a container
  that still has what was uploaded to it (`InForce`), has the configmeta that would be
  computed now (`Current`), all through a pass.  The list is computed from the copy and
  the spec the pass goes by; it is the same for the next pass, since a change of who is in
  service raises the generation (`GenInv`) and leaves nobody current.  The exception is a
  role taken out of the spec whose members the status still has (`Pending`): the list
  loses them before the generation moves.  The exception ends with the pass that marks
  them, and no later pass brings such a role back (`GoneForGood`).  A member that a
  blind retry made ready keeps the generation it had, which may be an old one, so that the
  invariant also speaks of old generations: while nobody is coming or going (`Moving`), the
  configmeta of any generation lists the members there are (`Upheld`).  Members come
  and go only in passes that hand out configmeta, and those have brought
  everybody else to the generation first (`GenOk` in the phase `members`).
- `ViewsComplete` (`ToldAllInv`): for every member in service and every instance that has been
  set up (`Knows`), once all that is queued is delivered the instance knows the
  member (`WillKnow`), or the member has not been configured yet and the instance is behind
  the generation, so that the news is queued for it when it has (`WillHear`).  An
  instance whose script is running lists all members already (`Learns`).  `Announces` says
  what the handling of a role gives rise to: one command, with every member that has just
  been configured, queued for all who are behind and whose role lists the
  event.  `SetUpInv` is what this rests
  on: an instance that knows has a file of a setup that went through, and one that does
  not has an empty queue.
- `ViewsExact` (`ExactInv`), for roles that list all events (`Attentive`): every node
  that an instance will still know when all is
  delivered is that of a member, or of one whose leaving is yet to be announced while the
  instance is behind (`WontStay`).  The last announcement of a role may be of additions or
  of deletions, not both; nobody of a role is being created while others wait to
  leave (`Apart`), since a pass that finds members being created puts off shrinking the role.

At rest nobody is behind, nothing is queued, nobody is being created or waits to leave,
and what will be known is what is known.

The hypotheses are actions that no step takes:

- `BeginPassOverwritten` (the hypothesis is named `KeepsCopy`): the reply to an accepted
  annotation update replaces the copy of a pass by the status stored before it
  (`cluster.go:301`).  What the pass goes by is then no longer what the copy says
  (`SnapIsCurrent`), on which the proofs of the lists, and most of what is proved
  after them, rest.  `TypeCorrect` and `GenerationsStayOrdered` do without.
- `PassDies`: a pass that dies leaves an unnamed StatefulSet (`roles.go:274`), a ready
  member without generations, whose configmeta is not renewed (`members.go:307`), and,
  with a second fault, a script that is started twice (`members.go:1330`).
- `BlindRetry`: a pass that hands out no configmeta takes up a failed setup on a volume
  (`members.go:1249`).  With two faults and a changed connection the member gets ready by
  the file of an earlier container: `ReadyIsTracked` and `RetryFromScratch` fail.  Such a member
  has no setup generation and is not told of later members, so that
  `RestingViewsComplete` and `RestingViews` fail as well; its configmeta is right
  all the same, and `MetaAtRest` does without this hypothesis.
- `BeginPassNoSset`: a StatefulSet that cannot be created lets members be stored
  without a generation (`cluster.go:274`).  `RestingMeta` fails when the role it was for is
  taken out of the spec before a pass succeeds: the members that another role got in the
  same pass are configured under the old generation, and those before them have a
  configmeta without them.
- `ChangeConnections`: a changed connection makes a cluster configured too early
  (`cluster.go:404`).
- `DeliversPart`: a member is delivered some of what was queued for it and not the
  rest.  A command that failed is sent again after later ones that got through
  (`members.go:215`), so that a node that went and came back may end up deleted.
- `DropsUnheard`: a member in service goes straight to deleting (`roles.go:563`): nobody is
  told.  One restart is enough for `RestingViews` to fail.

TLC shows each of the failures on a small instance with all other hypotheses in place.

`ConnectionsProofs`.  At rest the stored hash is that of now, and the point is that
hash and configmeta are read at different times.  The invariant orders them: data
is from the past (`History`); a member of the current generation has a configmeta
at least as late as the hash (`Metas`; `Later`: a source that is still as the hash
has it is so in the data); and so has the script of one that is
being set up or has not missed a counted change, as long as no update of the counter
was refused and the member was not joining (`Scripts`).  What is as late as a hash
that is current is current (`LateIsCurrent`).

`RestoreProofs`.  A status is `Truthful` when its lack of flags means what it says:
without `awaitingStatus` it has the content of the backup, and without
`awaitingResources` every component has been put back.
That holds for the copy in each phase (`CopyInv`) and for what was stored, before and
after the label is taken off (`StoredInv`), since nothing that is back becomes
pending again (`StaysBack`).

`ObjectProofs`.  None of the four properties is inductive.  The invariant follows
the UID: outside the write of a status the UID known is the stored one
(`KnownIsStored`), and while none is known nothing has been written that the cache
lacks (`UnknownIsCached`), so that whichever way a pass finds its status current, it
is.  Both hold only as long as the cache does not show the deletion, which lasts
(`Deletions`).  For references: whoever is in a pass or has a UID has a reference
unless the resource is being deleted (`Referred`), only the pass over a deleted
cluster removes the finalizer, and that pass has forgotten the cluster and writes no
status (`Leaving`, `Gone`).

`SettingsProofs`.  What is in force comes from a copy of a copy: the pass reads the
cache, may be overtaken, and puts a conflict's newer resource over the settings.
The invariant (`Sourced`) is that what is stored, what the cache shows and, unless a
patch failed, what is in force are all among what the resource has said or the
defaults.  `StoresKeeps` gives what a write through the webhook does to that
history; then each group of actions (`UserMoves`, `BeginMoves`, `WriteMoves`,
`OtherMoves`) keeps it and is a step of the register: users replace, a pass takes
something earlier into force, a conflict or a generated key takes the current one,
a failed patch loses the grip.  `StepInv` gives both the invariant and the step half
of the refinement; `InitInv` the initial half.

`StaysEditable` needs, as in `ObjectProofs`, where the UID is (`UidInv`), and more, since
the resource may be deleted and made anew under its name during a pass: a copy with
the stored version is one of the stored resource (`Versions`), the UID to be written
is announced for the resource written (`Announced`), the known UID of the stored
resource is the stored one outside a write (`ExpectedIsStored`), and while none is known
for it the cache lacks no status (`UnknownIsCached`).

`AdmissionProofs`.  The webhook compares a request with what is stored, and relies on what
is stored being in order.  The invariant (`AdmissionInv`) says of what: stored apps
are valid and have their defaults filled in (`StoredApp`), and each cluster is `Kempt`:
it has a catalog, it is noted as using the app of that catalog once a pass has been at
it, and it fits the app while that is the one it was admitted for.

- `StoredConforms`: what is admitted fits (`AdmittedFits`).  The checks are made before the
  defaults are filled in and the result is stored, so that the lemma has to follow
  `Filled`, and the uniqueness of names makes "the role of that name" one role on both
  sides (`OneByName`, `NoMoreOften`).
- `LimitsHold`: the members counted one by one are within the limit, although the webhook
  adds up int32 numbers (`LimitInv`, on `AdmissionInv`).  Each count is added to a sum that
  has passed the test, so that the sum cannot wrap around as long as no role has more
  members than `IntMax - MaxMembers` (`SmallCounts`; for the code's 1000, 2147482647).  A
  larger count does get a cluster past the limit (`validator/cluster.go:215`).
  `SumsAddUp` then says that the sums are sums, those of the claims included, which the code
  does not test on the way; `UnionAddsUp` relates them to the sets of pods.
- `AppsStay`: an app that a noted cluster uses is only replaced by a document whose
  comparison with the stored one succeeds, and then what is stored is the same
  (`ComparedSame`), in spite of the log size that is compared before it is taken out.
- `KeyStaysStored`: users are refused while any cluster is noted; it is the finalizer's
  write that might bring an old key back, as it stores the whole spec of the pass.  A
  copy with the stored version has the stored key (`Keyed`), except where the pass found
  none and has made one itself, which is for the version without a key; an older copy
  is refused for its version.
- `SettingsHold`: each step is one of `Settings` or none, so that `SettingsProofs` applies
  and its invariant can be used in the other proofs.

Induction over the positions of a list is by a least counterexample: `HasMinimum`, from the
library's `WFMin`, is about sets and has no operator as a parameter.  In this way `SumsAre`
shows that the recursive function `Sums` is defined.

Only model-checked is liveness (`Converges`, `ChangesArrive`, `PeerConfigured`, `Resumes`,
`SettingsArrive`), which rests on fairness and so on ENABLED.  Every other property of a
passing run is a theorem, with the hypotheses named.

## Not modelled

- In `ClusterReconciler`: the cache and write conflicts (they are `ClusterObject`'s
  subject; a pass reads the stored status and its write succeeds or the process
  dies).  The deletion of a member's service and of its volume claim is one
  outcome.  The deletion of a StatefulSet does not fail, and a failed update of
  replicas is the same as a pass that did not need one.  Node IDs, the member state
  rollup, systemd specifics and the reconnect script's own bookkeeping
  (`LastConnectionVersion`) are left out, as no property looks at them.  A member whose
  pod, service and claim are gone is still listed until the status is written, and
  holds back what `syncMemberNotifies` does when nobody is coming or going.
  The marking of a modified spec at admission is a patch of the status, which the
  API server drops.
- `ClusterObject` abstracts the passes of `ClusterReconciler` to numbered effects; no
  refinement between the two is stated.
- `Connections` has no queue of notifications, no resizing of the connected cluster
  itself and one role; `ClusterReconciler` has.  Namespaces and access reviews of
  connections are left out.
- `Restore` reduces the normal pass to what it makes anew; the merge of backup
  configuration and KubeDirector's own version of the status is "content".  A spec
  that was admitted once is taken to pass the checks that look at nothing but the spec
  and the requester's rights when its label is removed.
- `Settings` has one setting for all with a fixed default; the checks of their values
  (storage class, image pull policy, domain names) are left out.
- `Admission` leaves out file injections, volume projections, labels, affinity, naming
  scheme and pod labels: data checks that no other part depends on.  Updates of the
  app's or the catalog's name are refused and not enumerated.
- Certificates, webhook start-up, pod templates, cryptography, the syntax of app
  documents, leader election, metrics: I/O and data without state of interest.
- Types, deep copies, CRDs and manifests: generated, or declarations the modules'
  types are taken from.

## Plan

1. Done: `MemberStatus`, `ClusterReconciler`, `ClusterObject`, their runs and
   first theorems.
2. Done: `Connections`, `Restore`, `Settings` with `ConfigRegister`, `Admission`,
   `MemberList`, their runs, and the proofs of both refinements.
3. Done: the theorems of `PassProofs`, `ConnectionsProofs`, `RestoreProofs` and
   `AdmissionProofs`, `StaysEditable` and `WithinLimits`.
4. Done: `RestingProofs`, up to what the app instances know at rest.
5. Compaction and the role rollups as operators against a reference definition.
