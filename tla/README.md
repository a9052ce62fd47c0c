# Kadalu: a verification project

TLA+ modules for the parts of Kadalu that decide whether a user keeps his data
and gets his pods served: the life of a volume in a storage pool, dedicated
pools, the placement of volumes over pools, the publication of volumes on a
node, the operator's life with a pool, and the readiness of the provisioner. The
modules are translated from `src/csi/controllerserver.py`,
`src/csi/volumeutils.py`, `src/csi/nodeserver.py`, `src/csi/main.py`,
`src/csi/remove_archived_pv.py`, `src/lib/kadalulib.py` and
`src/kadalu_operator/main.py`; line numbers below are those of these files (CS,
VU, NS, CM, RA, KL and OP). TLC checks the modules on small instances, TLAPS
proves theorems about them for every value of the constants.

## 1. The system

Kadalu provides Kubernetes (or Nomad) volumes out of GlusterFS. An *operator*
turns `KadaluStorage` resources into *storage servers* and *pools*; a *CSI
controller* carves volumes out of mounted pools; a *node plugin* mounts them
into pods.

| Component | State | Operations | Interacts through | Hard behaviours |
|---|---|---|---|---|
| Volume lifecycle (CS, VU) | files of a pool: `*.create-intent`, `*.expand-intent`, `info/<path>.json`, the payload directory and its quota | `CreateVolume`, `DeleteVolume`, `ControllerExpandVolume` | flocks in the pool, the pool's files | crash between any two files; two controllers; a volume replaced during a lock wait; retries |
| Capacity accounting (VU, KL `SizeAccounting`) | `stat.db` (`pv_stats`), the files it is rebuilt from | admit, reserve, reconcile, release, rebuild | SQLite's write lock, `BEGIN IMMEDIATE` | index behind the files; intent written inside a transaction that may not commit; limit of the pool |
| Archive (VU) and its purge (RA) | `archive/<name>`, `info/archive/<name>.json` | archive, purge | same files, **no lifecycle lock** for the purge | two renames with a crash between; purge from an old listing; re-created volume ID |
| Single-PV pools (VU 467-783) | a claim in an extended attribute of the pool's root | claim, adopt, begin delete, purge, retire | flock on the root | several clients, legacy adoption, never reused |
| Pool selection (VU 1390-1487) | the set of mounted pools | select and admit | intents in every pool | a name must end up in one pool |
| Node plugin (`nodeserver.py`) | target locks, bind mounts, publish-state files | publish, unpublish | kernel mounts | per-path locks in a table, stale mounts, crash between mount and record |
| Mount reconciler (`csi/main.py`) | readiness marker, reconciler thread | mount all, mark, clear, restart | marker file read by a probe | thread dies, marker I/O fails |
| Operator (`kadalu_operator/main.py`) | ConfigMap, StatefulSets, StorageClasses | added, modified, deleted, policy transition, upgrade | Kubernetes API, the *provisioner fence* (controller scaled to zero) | pool removed while a create is pending; events replayed after a re-list; interrupted transitions |
| Watch stream (5221-5446) | acknowledged resource version | list, watch, re-list | Kubernetes API | 410, bookmarks, DELETED of a replaced object |
| `ListVolumes` (CS 1333-1396) | a generator in a global | page | - | concurrent pagers |
| Quota daemon, servers, monitor | child processes, project quotas | start, restart, crawl | processes | restart during termination |
| CLI, exporters, templates, generated gRPC | none | - | - | - |

What makes each of them correct:

* lifecycle: what was acknowledged stays intact until its delete; a payload is
  lost only by the delete that was asked for; one call at a time works on a
  volume; repeated calls come to an end;
* accounting: the pool is never promised twice, and every quota is reserved;
* archive and purge: an interrupted archive can be resumed; archived data goes
  only under its own tombstone;
* single-PV: a pool belongs to at most one volume ever; retired is final;
  nobody's data is purged but the owner's, after a delete was asked for;
* selection: one name, one pool; what was answered stays true;
* node: one request at a time works on a target path, one client serves a pool,
  and a publish or unpublish is true when answered and succeeds in the end;
* readiness: not ready while a required pool is missing, eventually ready again;
* operator: no pool removed with a volume in it; the fence is lifted again, once the nodes are
  where it waits for them;
* watch: every resource is eventually reconciled, no stale event is acted upon.

## 2. The modules

| Module | What it is |
|---|---|
| `VolumeLifecycle` | the volume in one shared pool: three CSI calls and the purge, step by step |
| `MCVolumeLifecycle` | instances for TLC (symmetry of the processes) |
| `VolumeRetry` | `VolumeLifecycle` under a caller that repeats a call: fairness and liveness |
| `ManagedVolumes` | abstract: a volume is free, being created, live, on its way out; what it leaves in the archive; what its caller was told |
| `VolumeLifecycleProofs` | the inductive invariant, type correctness, locks, and the safety theorems that rest on it |
| `VolumeFilesProofs` | what the files of a volume say of each other and of the answers that were given |
| `VolumeCapacityProofs` | that the pool is never promised more than it has |
| `VolumeRefinementProofs` | that the files of a pool implement `ManagedVolumes` |
| `WholePoolOwnership` | abstract: a dedicated pool is free, owned, closed, retired |
| `SinglePVPool` | the dedicated pool with claims, locks, records, legacy adoption and crashes; it implements `WholePoolOwnership` |
| `SinglePVRetry` | `SinglePVPool` under a caller that repeats its delete |
| `SinglePVPoolProofs` | its invariant, its safety theorems and the refinement |
| `PoolReconciler` | the operator and one pool, with administrators and the provisioner |
| `PoolReconcilerProofs` | type correctness, that a pool outlives its volumes, ready means serving, live pools are left alone, retained data is retained, and what the operator waits on is reconciled |
| `TargetLocks` | the counted table of locks of the node plugin's targets |
| `NodePublish` | publish and unpublish on a node, over `TargetLocks` |
| `NodePublishProofs` | mutual exclusion on targets, that the plugin keeps to the table's discipline, and the plugin's safety |
| `PoolSelection` | a name over several pools: search, choice of a pool, delete |
| `StorageReadiness` | reconciler thread, supervisor and readiness marker |
| `Provisioner` | the instance of the last two |
| `ProvisionerProofs` | that a name has one home, that answers stay true, and type correctness |

Sections 2.1 to 2.5 take the components one by one.

## 2.1 A volume in one pool (`VolumeLifecycle`)

### State

| Variable | Code |
|---|---|
| `intent[v]` | `<path>.create-intent`: size and incarnation (VU 1522-1765) |
| `meta[v]` | `info/<path>.json`; `state` absent in the file is `"live"` here (VU 2209) |
| `xint[v]` | `<path>.expand-intent`: from and to (VU 1768-1940) |
| `payload[v]` | the directory: the generation that made it, and its quota (0: none yet) |
| `arcMeta[a]`, `arcPayload[a]` | `info/archive/<name>.json` and `archive/<name>` |
| `db[id]` | committed rows of `pv_stats`; 0 is no row |
| `policy` | `pvReclaimPolicy` of the pool's `.info` file |
| `ident[v]`, `vlock[v]` | flock on the create identity (CS 257), on `info/.locks/...` (VU 560) |
| `txOwner`, `txView` | SQLite's write lock between `BEGIN IMMEDIATE` and commit (KL 531), and the rows as that transaction sees them |
| `pc`, `call`, `vol`, `req`, `found`, `seen` | the call a process is in: place, kind, volume, size, last result of `search_volume`, evidence taken before the lock wait (`volume_incarnation`) |
| `acked[v]` | history: what the caller was last told of the volume and has not asked to be deleted |

A process is one controller process (CS 80-126 lets a process run one
capacity-changing call at a time) or a shell with the purge command. A
generation (`inc`) is the `uuid4` of a create intent: fresh, never reused. The
archive of a generation gets a fresh name, so `<<v, inc>>` names it.

### Actions

One action is one durable step with the reads that lead to it: a file written
(`_atomic_write_json`), unlinked, renamed; a directory removed; a transaction
committed; a lock taken; a lookup. Where a transaction touches a file, the file
and the commit are separate actions (`Admit` and `AdmitCommit`, `Reserve` and
`ReserveCommit`, `CancelIntent` and `CancelCommit`), because the file stays when
the transaction does not. A transaction that touches no file is one action.

* *The way in*: `TakeIdentity` (creates), `LookMetadata`, `LookIntent`
  (`search_volume` reads metadata first and intents afterwards, so other
  processes may move in between), `ReadEvidence`, `TakeVolumeLock`, `Relook`.
* *Create*: `CreateBody` chooses between a new create, a pending one and a
  committed one. New: `Admit`, `AdmitCommit`, `EnterCreation`, `MakePayload`,
  `SetQuota`, `SaveMetadata`, `DropIntent`, `RecordSize`. Committed:
  `FinishCommitted`, `Reconcile`.
* *Delete*: `DeleteBody`; cancellation `CancelPayload`, `CancelIntent`,
  `CancelCommit`; leftovers `FoldExpansion`, `DropExpansion`, `DropLeftover`;
  deletion `MarkDeleting`, `DestroyPayload`, `ReleaseRow`, `UnlinkMetadata`;
  archive `PrepareArchive`, `MovePayload`, `MoveRow`, `MoveMetadata`, `MarkArchived`.
* *Expand*: `ExpandBody`, `Requota`, `Reserve`, `ReserveCommit`, `GrowQuota`,
  `GrowMetadata`, `FinishExpansion`.
* *Purge*: `StartReclaim` (the listing), `ReclaimMark`, `ReclaimPayload`,
  `ReclaimRow`, `ReclaimUnlink`.
* `Abandon`: the process dies, a lock wait times out or an I/O operation fails.
  Its flocks and its transaction go with it, its files stay. It is enabled
  before every step of every call.
* `ChangePolicy`: the operator's policy transition (`main.py` 3819-3895). It
  runs behind the provisioner fence, so no call is running, but interrupted
  calls may have left files.

`Reservation`, `Rebuilt` and `Consistent` are `_capacity_metadata_records` and
`_rebuild_committed_capacity`: reservations from metadata, intents laid over
them, rows of tombstones removed, the row of a handed-off volume renamed, and a
pool with contradictory records refused.

### What it amounts to (`ManagedVolumes`)

`ManagedVolumes` says what the owners of the volumes can see, without intents, metadata
files, renames, locks or crashes. An ID is free or stands for one generation, which is
reserved, filled, committed with its own data, grows, is told to its caller, is withdrawn
when the caller has asked for that, and is destroyed or shelved. `LifecycleKept` is this
specification under the mapping

| Abstract | Of the pool's files |
|---|---|
| `volume[v]` | what `search_volume` finds (`Lookup`): the metadata, the record of an unfinished hand-off, or else the intent; absent, creating, live, deleting or archiving |
| `data[v]` | the generation of the active payload |
| `shelf`, `archived` | the archived payloads, and the sizes of finished archives |
| `told`, `fresh` | `acked`, `nextInc` |

Each of these is taken from what the code itself goes by, so that the property says of
every prefix of every call how far the volume has come. Most steps map to a stutter (locks,
lookups, transactions, rows, quotas, the rename that hands a record off, an intent dropped beside
its metadata); the others are one abstract step each, among them the unlink of a tombstone
(`Forget`), the unlink of a cancelled intent (`Cancel`) and the write that finishes an archive
(`File`). The abstract guards carry the obligations: `Commit` demands the data that was made for this
very generation, `Tell` that no answer goes back behind an earlier one, `Withdraw` and `Destroy`
a request, `File` that all of the data has arrived, `Empty` that the archive was given up
before.

Definitions whose comment begins with *Faulty* are wrong variants of the
definition that follows them. No action uses them. They stand for plausible
mistakes in the code, and each shows that a property can fail: with the variant
in place of the original, TLC finds the property violated.

### Abstractions, and why they are harmless

* **One pool.** Every lock, transaction and file above belongs to one pool; the
  choice of the pool is module `PoolSelection`.
* **The capacity walk is one step.** `_capacity_metadata_records` runs inside
  `BEGIN IMMEDIATE`, which keeps out all other admissions, but not the renames
  of an archive. A record that is renamed away while the walk reads it raises
  and fails the call, one found twice raises as a duplicate, and one that is
  missed still counts with its row in `stat.db`.
* **The look-up of metadata is one step**, and so are look-ups made with the
  lifecycle lock held. Without the lock, metadata and intent are read in two
  steps.
* **A quota, once set, stays.** That the quota daemon applies it is outside.
* **A removed directory is removed in one step.** A crash within `rmtree` leaves
  a part of it, which is the state before for every guard that looks at it.
* **Subvolumes on native pools.** Block volumes and external pools take other
  branches of the same handlers; single-PV pools are module `SinglePVPool`.
* **Legacy archives and legacy paths** are left out.
* Written down because the code has it, though no state reaches it: the branch of
  `Admit` for an intent that exists already. The identity lock, which a create
  holds from before its lookup, excludes it (`CreateOK` in the proofs).

## 2.2 Dedicated pools (`WholePoolOwnership`, `SinglePVPool`, `SinglePVRetry`)

A pool with `single_pv_per_pool` belongs to one volume. `claim` is the extended
attribute on the pool's root (VU 467-783), `lock` the flock on that root,
`mounts` the volumes through which workloads have it mounted, `rec` the operator's
record (ConfigMap) with its claim version and the owner it names for a pool of a
release without claims, `pvs` the PersistentVolumes it is rebuilt from. Create,
Delete and Publish are split at every step that reads or writes one of these;
`Abandon` ends a call anywhere. `LoseRecord`, `ListOwners`, `RecoverRecord` and
`MigrateRecord` are the loss of the record and its reconstruction by the operator
from a list that may be old when it is acted upon (OP 1851). A workload that is
still mounted may write (`Write`) while the purge goes over the pool.
`WholePoolOwnership` says what all this amounts to for the tenants.

## 2.3 The operator and a pool (`PoolReconciler`)

`cr` is the custom resource (an administrator creates, edits, marks and deletes it,
twice with different UIDs), `record` the pool's entry in the ConfigMap, `class`
the generated StorageClass, `servers` the `volume_id` its pods run with, `vol` each
volume from intent to PersistentVolume, `replicas` and `up` the provisioner, `ready`
the operator's marker, `nodes` how far the node plugins are behind the wanted template; `pc`, `goal`, `plan`, `work` and `event` are the operator.
Its steps are the calls that change, or decide on, what others touch:

* *The loop* (`reconcile_watch_storage_until_stable`, 5221-5446): `Boot`, `List`, a plan
  (`Adopt`), `Stable` or `Resume` and `RolledOut`, then `Relist` and `Tombstone`: the
  stream, bookmarks and expired versions come down to a list that may or may not
  be preceded by the DELETED event of an earlier UID.
* *Behind the fence*: `Fence`, `ScaleDown`, `DrainFenced`, `Resume`.
* *The node plugins* (`gate_nodeplugin_until_current`, 2871-2897, and
  `wait_for_csi_nodeplugin_rollout`, 5561-5596): a start, and a plan that wants another
  template (`Place`), publish it behind the fence (`GateNodes`) and hold the fence until
  every node has it; then the resource is listed again (`FencedList`). The pods are replaced
  only when somebody drains their nodes (`OnDelete`), so the wait may end in a timeout
  (`GateTimeout`): the operator exits, the provisioner stays at zero, and the restarted
  operator waits again. The template depends on the tolerations of all pools and comes down to three values:
  `current` on every node, `behind` (published, but not everywhere) and `old` (another one is wanted). A template
  that is edited during the wait is published without the rest of the one before.
* *Added, modified*: `HandleAdded`, `WriteRecord`, `DeployServers`, the class, and the
  change of the reclaim policy around them (`FirstStep`, `SwitchRead`, `Verify`).
* *Deleted*: `HandleDeleted`, `SealLegacy`, `DropClass`, `DisableProvisioning`,
  `RetireClass`, `CountVolumes`, `Dismantle`, `EraseRecord`.
* `Displace` (tolerations are edited, or a node plugin fails) and `Rotate` (the last node has been drained)
  are the environment of that rollout.
* `Crash` and `Fault`: the operator dies, or a call of the API fails, at any step; a
  loop over PersistentVolumes may have got half way (`HalfAligned`).

The provisioner (`Ask`, `Intend`, `Make`, `Provide`, `Reclaimed`) reads the class before it
creates and writes the PersistentVolume with what it has read, also when the class
has changed since. `custom` are volumes that come through a class of the
administrator's own, which the operator does not align. A pool may be new, or left
by a release that stored no UIDs.

## 2.4 Publish and unpublish on a node (`TargetLocks`, `NodePublish`)

`TargetLocks` is `_target_operation_lock` (NS 42-61): a table from targets to counted
locks, with `Enter`, `Acquire`, `Release`, `Leave`. `NodePublish` runs the two handlers
over it. `client` are the Gluster client processes with the identity in their
arguments (generation of the pool and fingerprint of its configuration), `stack` what
is mounted on the pool's mountpoint, `mnt` what is bind-mounted on each target
(a client, or `Bare`, the empty directory under the mountpoint), `card` the
publish-state file beside a target, `mutex` is `mount_lock`, `late` a `glusterfs`
command that outlives its caller. A handler is cut wherever another thread, kubelet,
the operator or a death can matter: `Start` (record read), `MountPool` (first look;
lock; second look), `DetachStale`, `Launch`, `CheckClaim` twice around `PinSource`,
`Inspect`, `ClearStale`, `CleanStale`, `Bind`, `Record`; `Unmount`, `Unlink`; `Depart`.
A launched client is any that is not in use (`NewClient`); nothing depends on which.
`ClientDies`, `CsiDies` (the process, with its table of locks), `PodDies` (the container
with every client; the targets stay as dead mounts of the host), `LateLaunch`, `EditPool`
and kubelet's `Retry`, `Repeat` (a request beside one that still runs) and
`ChangeMind` are the environment.

Left out: mount flags, read-only publication and filesystem types; the attachment of
loop devices as a step of its own; external pools; symbolic links in paths; a pool
without a record.

## 2.5 Placement and readiness (`PoolSelection`, `StorageReadiness`, `Provisioner`)

In `PoolSelection` the files of one name in one pool are one record, and building or
purging a payload is one step: the inside of a pool is `VolumeLifecycle`. What is
split is everything between pools: `search_volume` looks at one pool after the other,
metadata first (`LookForMetadata`), intents afterwards (`LookForPending`); it runs up
to three times in a call, before the lifecycle lock, under it, and before the payload
is built. `Select` is `mount_and_select_hosting_volume`, where a pool may be passed over
before its transaction has begun, but not after. Pools fail, fill up and are fenced
between any two steps (`ChangePools`), driver processes die (`Die`).
`serialized_capacity_operation` keeps a process to one call at a time. Pools are
assumed to be listed: a pool whose record is lost (module `PoolReconciler`) is not
searched.

In `StorageReadiness` the reconciler thread passes over the shared pools for ever
(`BeginPass`, `MountOne`, `Publish`, `Recover`), and `Supervise` starts it again. Reading
the configuration, mounting, writing and removing the marker can each fail; the
thread, the process and clients can end at any time. The marker survives them.

The two share no state, so `Provisioner` explores them one at a time.

## 3. What is checked

`OrderlyCaller = TRUE` means that a caller sends Expand only for a volume whose
Create was answered and not since deleted, and sends Create for an ID only when
its Expands were answered. The CSI sidecars behave so, and every run of
`VolumeLifecycle` assumes it. Otherwise two more behaviours arise, which the code's
comments exclude: an Expand beside an unanswered Create grows the metadata and leaves
an intent that contradicts it (VU 2899 calls it redundant), and an Expand whose
first lookup found nothing runs without the lifecycle lock (CS 149).

| Run | Instance | States | What it shows |
|---|---|---|---|
| `VolumeOverlap` | 2 processes, 1 volume, sizes 1 and 2, 2 generations, create/delete/expand, delete and retain | 134 000 | types; acknowledged volumes stay intact; one worker per volume; discoverable means usable; payloads are lost only with authority and only by a call that saw that very generation |
| `PoolAdmission` | 2 processes, 2 volumes of size 3, pool of 4, create/delete | 306 000 | the pool is not promised twice, though the volumes do not fit together |
| `PoolExpansion` | 2 processes, 2 volumes, sizes 1 and 3, pool of 5, create/expand | 274 000 | the same for growth: two volumes fit as created, one of them can grow beside the other, both cannot; leftover intents are redundant |
| `VolumeArchive` | 2 processes, 1 volume, 2 generations, archive policy, all calls | 192 000 | archives can be resumed and are purged only under their tombstone; the files implement `ManagedVolumes` |
| `RetriedVolume` | `VolumeRetry`, policies delete and archive | 271 000 | every quota is reserved; a repeated delete ends with nothing left, a repeated create with a committed volume and no intent |
| `SinglePVPool` | 2 processes, 2 volumes, delete and retain, legacy pools | 1 193 000 | the pool is owned as `WholePoolOwnership` says; the owner is undisturbed; only data whose deletion was asked for is purged; a repeated delete retires the pool empty |
| `PoolReconciler` | 1 volume, 2 UIDs, 2 troubles | 1 017 000 | what the operator waits with is what was asked for, the wanted node plugin included; retained data is never less protected; volumes keep their servers; a live pool is not taken down for an old one; the fence lifts and orphans drain, if nodes are drained when the operator waits for it |
| `NodePublish` | 2 targets, 2 requests on one of them, 1 fault, 1 edit; block, single-PV and legacy pools | 407 000 | one request per target, one client per pool, answers stay true, published targets can be rebuilt, mounts of another generation are left alone, kubelet is served |
| `Provisioner` | 2 driver processes, 2 pools, 2 generations, 2 surprises; 3 upsets of the readiness | 2 716 000 | a name has one home, answers stay true; readiness follows the pools |

Properties of `VolumeLifecycle` and their code:

* `AckedVolumeIntact`: from the answer of Create or Expand to the next Delete the
  volume has metadata of that generation, at least that size, and that quota.
* `OneWorkerPerVolume`: no two processes are at file-changing steps of one volume.
* `DiscoverableIsUsable`: committed metadata implies the payload of its own
  generation with a quota (order of VU 2380-2413).
* `PayloadLossAuthorised`, `LossOnlyOfSeenGeneration`, `ArchiveLossAuthorised`:
  action properties on the disappearance of data. What a delete has seen is what
  `volume_incarnation` read after the lookup; if the volume is replaced between the
  two reads, that is the replacement.
* `PoolNotOvercommitted`: the reservations that the files hold never exceed the
  pool. It is about the files, not `stat.db`, which may lag behind.
* `PayloadReserved`: every payload, active or archived, has a record of its own
  generation that reserves at least its quota.
* `ArchiveResumable`: while a volume is being archived its payload is at exactly
  one of the two places `_rename_for_archive` looks at.
* `LeftoverIntentRedundant`: an intent left beside live metadata agrees with it.
* `LifecycleKept`: section 2.1. It fails, for one, if the search does not take an unfinished
  hand-off into account (`MetadataOf_ActiveOnly`): a volume would vanish, and its ID could be
  given to a new one, while its archive is still being made.
* `DeleteConverges`, `CreateConverges`: liveness.

Of the other modules, what a property leaves out on purpose:

* `FenceLifts` and `OrphanDrains` except what the operator refuses (`Refused`): records and
  resources whose ownership it cannot prove. It fails closed and waits for an
  administrator, by design (`Refuses`, `Accepts`). Both have a premise, `Rotated`: node
  plugins that are behind the published template are replaced sooner or later. The code cannot see to that.
  It asks the administrator for it when it times out (OP 5587-5595), and says
  that the provisioner remains at zero until then. What the properties say is that nothing else keeps
  the fence down, and that nothing is left of a wait that was given up, however often: it is taken up again,
  with the template that is published already. `WatchReconciled` and `RetainIsSafe`
  are claimed while the record is never lost: a lost record is rebuilt from the
  class, which may be that of an interrupted change.
* `OneClient` except after a `glusterfs` command has outlived the process that started
  it (`orphaned`): no lock of a later process covers that.
* `KubeletServed` except where the code refuses (`Refused`): a foreign mount on the
  target, or a dead mount of the pool that passes for established because an old
  client of the same identity lives on behind a target (VU 3955); it lasts until
  that client ends.
* `AnswersStayTrue` says nothing of what a single-PV target shows. The model does reach
  a published target that shows the empty directory under the mountpoint: a request
  checks the claim (NS 500), the pool's configuration is edited, another request
  replaces the client, the first one pins the mountpoint between the other's
  `umount` and its launch, and its second check, which goes by path again, finds the
  claim through the new client. The directory it has pinned is bind-mounted and
  acknowledged.
* `OneHome` and `AnswersHold` in `Provisioner` assume that a client does not fail in
  the middle of the look at one pool (`BlindLooks = FALSE`); `BlindSearch` shows why.
  An answer promises something only if no opposite call ran beside it.

### Bounds

Two processes are enough for every pairwise race of the code: each lock has one
holder and one contender, and what a third would leave behind is left by the
same processes in earlier calls, as each of them makes any number of calls. Two
generations of an ID are needed (and used) by replacement during a lock wait and
by a purge next to a re-created volume. Sizes are chosen so that volumes do not
fit together (`PoolAdmission`), or do until both have grown (`PoolExpansion`: 1 + 3 of 5 are admitted, 3 + 3 are
not, and the expansion of either volume can come first): `Fits` demands that a tenth of
the free space is left. `MaxGen` bounds creates of one ID; a create beyond it is
not admitted. In `VolumeLifecycle` and `SinglePVPool` it is the only bound: calls, crashes and
retries are unlimited.

`PoolReconciler` bounds the UIDs of the resource (`Incarnations`) and, together,
crashes, failing calls, edits, displaced node plugins and losses (`MaxTrouble` = 2: one to leave something
half done, one to meet its repair; a wait that times out is no trouble and not bounded); its provisioner is not bounded. `NodePublish` has one fault
(`MaxFaults`) and one edit (`MaxEdits`), either of which may fall anywhere, two overlapping
requests on one target, a second target that shares the client, and a target whose volume is
missing; that requests exclude each other is also proved without these bounds.
An overlap costs the fault, so the run has no third request that enters the table after one of two has
left it while the other still works (NS 59-60); `OneAtATime` over any number of requests is what
`MutualExclusion` proves.
`Provisioner` has two generations of the name (`MaxBirths`), two surprises (`MaxSurprises`:
a failed commit or death and the next pool failure) and three upsets of the
readiness (`MaxUpsets`: a lost pool, a marker that cannot be removed, a thread that ends).

Deadlock is not checked, as all volumes may be used up and every call may be
answered: each of these systems may really stop. That nobody waits for ever is
shown by the liveness properties.

### Fairness

* `VolumeRetry` and `SinglePVRetry` assume one thing of the code and one of the
  environment. Each process runs the call it has accepted to its end (weak fairness
  of each process; locks are released by whoever holds them, as flocks and
  transactions end with their process). From some moment on (`calm`) no process dies
  and only the retried call is made; before it, anything may happen. Without the calm,
  no call need ever end. In a dedicated pool, kubelet also takes its mounts away.
* `PoolReconciler`: the operator is restarted and keeps going (weak fairness of its
  steps; the watch loop and the pod's restart policy), and Kubernetes scales the
  provisioner as it is told. Troubles are finitely many. There is no fairness for `Rotate`, as nothing drains
  the nodes but people; the liveness properties name it as their premise instead (`Rotated`).
* `NodePublish`: a handler that runs goes on, and kubelet repeats a request until it
  succeeds. Nothing is assumed of clients, faults or edits.
* `StorageReadiness`: the thread passes for ever, its supervisor and the process monitor
  restart what has ended (CM 129-179, 207-215). Its property speaks of pools that stay as they are.

### Where the code differs from what it says

Each of these runs finds a behaviour that a comment or docstring of the
repository excludes.

* `SpentArchive`: an archive whose payload is purged but whose record is still
  there enters its original volume ID among the tombstones (VU 1184), so the
  rebuild overlooks the intents of a volume re-created under that ID and removes
  its row: another create gets the same bytes. VU 1313 and RA 123-125 say that
  the re-created volume is preserved.
* `PolicySwitch`: a delete dies after it has removed the payload; the operator switches
  to `archive`; the retried delete marks the volume `archiving` and can never
  move what is not there. VU 2726 calls the order retry-safe.
* `BlindSearch`: the pending creates of a pool are listed with `os.path.isdir` and `os.walk`
  (VU 1669, 1673), which take what cannot be read for missing or empty. If the client
  fails after the metadata was looked for, a pending create is passed over without
  an error, the retried create reserves the name in a second pool, and from then on
  every lookup of it raises (VU 3264). VU 1667 says that all reservations of the pool are
  returned, VU 3252 that the mount is checked, which holds for the moment before.

## 4. What is proved

### The volume in one pool

These theorems hold for any number of processes, volumes, sizes and generations,
every set of reclaim policies and calls, under `ConstantsAssumption` alone: the
names are distinct, sizes are positive naturals.

| Theorem | Statement |
|---|---|
| `TypeCorrect` | `Spec => []TypeOK` |
| `Inductive` | `Spec => []IInv` |
| `LocksAreHeld` | every file-changing step is made with the volume's lock, every create with its identity |
| `PayloadLossIsAuthorised` | `Spec => PayloadLossAuthorised` |
| `ArchiveLossIsAuthorised` | `Spec => ArchiveLossAuthorised` |
| `OneWorker` | `OrderlyCaller` implies `Spec => []OneWorkerPerVolume` |

**The inductive invariant.** `TypeOK` is not inductive: `SetQuota` keeps it only
if the payload exists, `MarkArchived` only if the archive's record exists. What a
process knows of the files depends on the locks it holds, and those on which
call it runs. `IInv` therefore says, for each process, which call runs at which
label (`CallOK`), which locks it holds (`LockOK`), and what it knows of the files
of its volume (`FileOK`); and for each volume that a generation is never used
twice and is either active or archived (`GenerationOK`).

The argument has three levels. `LeaveFacts`, `StayFacts` and `FoundFacts` say what
a step does to its own process; `Frame` says what it leaves to the others. A step
that changes no file of a volume keeps the clauses of all other processes
(`KeptProcess`, `KeptStep`). A step that changes a file has to account for the
others that work on the same volume (`FileStep`): the lemmas named `...Rivals` show
where those can be, from the lock they would have to share. The purge takes
no lock; it is kept apart by generations instead: it works on an archive of a
generation that has been left behind (`Past`), which no other call touches. The
expand without a lock is why `ExpandOK` may claim nothing of the files, and why
`Requota` and `GrowQuota` are proved for a directory that may not be there.

**Payload loss.** Three actions take a payload away; at each of them `IInv` says
which record authorises it (`CancelLoss`, `DestroyLoss`, `MoveLoss`). `NextStays` shows
that every other step leaves a payload where there was one.

**Archive loss.** `Purging` adds that a purge past its tombstone works on a doomed
archive, one that is marked `reclaiming` or empty already, and `StepDoom` shows that no step of
anyone revives an archive of a past generation.

**One worker.** `Alone` adds the one thing the lock does not give: an expand that
has found no metadata stays without (`ExpandAlone`), because only a create brings
metadata into being (`MetadataFromCreate`) and an orderly caller has none running.
This is the precise condition under which CS 149 is harmless.

`VolumeFilesProofs` says what a caller can rely on. Its theorems assume `OrderlyCaller`,
without which an expand may grow what is being deleted:

| Theorem | Statement |
|---|---|
| `AckedIsIntact` | `Spec => []AckedVolumeIntact` |
| `DiscoverableUsable` | `Spec => []DiscoverableIsUsable` |
| `LeftoverIsRedundant` | `Spec => []LeftoverIntentRedundant` |
| `PayloadIsReserved` | `Spec => []PayloadReserved` |
| `LossIsOfSeenGeneration` | `Spec => LossOnlyOfSeenGeneration` |
| `ArchivesAreResumable` | with `OnePolicy` as well, `Spec => []ArchiveResumable` |

**The files of a volume** (`Integrity`). None of the six is inductive: what the files say of
each other at a crash depends on the step that was last made, and a step is sound only
because of what its process has seen. `Sound` relates the files of a volume: live metadata
has the payload of its generation with a quota (`LiveOK`); a pending expansion is of
a finished volume that is at one of its two sizes (`SpanOK`); a payload belongs to the metadata,
or else to the intent, and has no more than they grant (`PayloadOK`); what is on its way
out has no intent (`GoneOK`); an archived payload has its record, which is the metadata until
the hand-off (`ArchiveOK`); and promises are kept (`AckOK`). `Knows` is what a call knows at
each label, in two kinds. Under the lifecycle lock it knows what only its own steps can change
(`LockedCreate`, `LockedDelete`, `LockedExpand`). Without the lock it can know only
what nobody else may bring into being (`Unlocked`): a create that found nothing relies on
the identity of the name, an expand on the orderly caller. `RivalsKnow` shows once that the
holder of the lock leaves the others what they know; then there is one lemma per action
(`...Sound`). That `AckOK` has a second disjunct is the point of it: while a delete is
running, or after a failed one, the quota of a volume may be less than its metadata says, and only then.

**Generations.** `LossIsOfSeenGeneration` comes from `LockedDelete`: what a delete works on
has the generation that it read before it waited for the lock, as `Relook` compares
the two. `RemovesSeen` is that clause at the three steps that take a payload away.

**Archives.** `Whole` says that a payload is at one of its two places, and at the second once
the record is moved. It fails where an archive begins at the remains of a delete, which is
what the run `PolicySwitch` finds; so `OnePolicy` says that the pool is given one of `archive` and
`delete` only, besides `retain`. `Policed` says that a delete goes where the policy says from
its first look at it, since the policy changes only when no call is running.

### The capacity of a pool

`VolumeCapacityProofs`, for a finite set of volumes:

| Theorem | Statement |
|---|---|
| `PoolIsNotOvercommitted` | `OrderlyCaller`, `OnePolicy` and `ArchivesStay` imply `Spec => []PoolNotOvercommitted` |

`ArchivesStay` says that the pool does not both archive and have its archives purged. It cannot
be dropped: with the purge at work the property is false, as the run `SpentArchive` shows.

**Sums.** `PoolNotOvercommitted` adds up what the files promise over all identities, by a fold
(`SumFunctionOnSet`). What a fold computes is usually shown by an induction over the set; here it is shown by a
smallest subset (`SmallestSubset`) where the claim would fail: what is left of that
subset without its first element is smaller, so the claim holds of it. This gives that the fold is
well-defined (`SumsAreTabled`, `SumIsTabled`) and what the steps need of it: `SumBounded` (a sum
grows by no more than the one summand that grows), `SumMonotone`, and `SumMoved` (what one identity loses
another one may gain).

**The capacity walk.** `Owed(id)` is what the files promise an identity. An admission adds up not the files but
`Rebuilt`, and compares with that; `RebuiltCovers` is the fact that it counts no less than
the files promise, whatever rows a crash has left in `stat.db`, and `FittingAdmitted` that what fits beside it keeps the pool within
its size. The tombstones of purges are where this would fail (`Unspent` excludes them).

**The steps.** A step is of one of three kinds. Nearly all of them are `Steady`: no identity is promised more than
before. What makes them so is `Integrity`: `SaveMetadata` writes metadata for the size of the intent (`MetadataSteady`),
an intent is dropped only beside metadata for as much (`IntentSteady`), an expansion only when the metadata has grown (`SpanSteady`).
`PrepareArchive` moves a promise from the volume to its archive (`PrepareKept`, by `SumMoved`). Only `Admit` and `Reserve` make a
promise, in a transaction that has compared it with the walk (`AdmitKept`, `ReserveKept`).

### What the owners of the volumes see

`VolumeRefinementProofs`:

| Theorem | Statement |
|---|---|
| `LifecycleRefinement` | `OrderlyCaller` implies `Spec => LifecycleKept`, that is `Spec => ManagedVolumes!Spec` under the mapping of section 2.1 |

It holds with the purge at work and with every set of policies. `Integrity` and `Purging` are not enough for
it. A lookup takes a record in `info/archive` that is still `archiving` for the volume, so if there were two of
them it could find either; and the archive is finished by rewriting that record, so its data must
have come before it. `HandedDown` says both: at most one hand-off of a volume is unfinished, and it has its
data (`HandOffOK`); a delete that is about to hand the record off has moved the data (`MovedOK`).
There is one lemma per file-changing step for its preservation (`...Files`, `StepHandedDown`).

`ShownHere` then evaluates the lookup once, and the rest is one lemma per abstract step (`...Maps`), named after what
the owners see or what is done: `AdmitMaps`, `MakePayloadMaps`, `SaveMetadataMaps`, `AnswerMaps`, `GrowMaps`, `WithdrawMaps`, `DestroyMaps`,
`CancelMaps`, `ForgetMaps`, `ShelveMaps`, `HandOffMaps`, `FileMaps`, `ReclaimMaps` and so on; `QuietMaps` covers what changes no file.
`WithdrawMaps` includes the one case in which a volume on its way out changes its way, an archive that begins at
the remains of a delete after a change of policy: `ManagedVolumes` allows it, as no data is lost by it. That
such an archive cannot be finished is what `ArchiveResumable` and the run `PolicySwitch` say.

### Dedicated pools

`SinglePVPoolProofs`, for any number of processes and volumes, any set of policies,
with and without legacy pools:

| Theorem | Statement |
|---|---|
| `TypeCorrect` | `Spec => []TypeOK` |
| `OwnerIsUndisturbed` | `Spec => []OwnerUndisturbed` |
| `PurgeIsAuthorised` | `Spec => PurgeAuthorised` |
| `Refinement` | `Spec => OwnershipKept`, that is `Spec => WholePoolOwnership!Spec` under the mapping `owner <- claim.vol`, `phase <-` the claim's state, `users <- mounts` |

The invariant `IInv` joins the types with what a process may rely on at a step: the
lock it holds where it changes the claim, that a purge runs only under a claim that
is not active, and that whoever is about to adopt a legacy pool has a record which
names the only owner there is. There is one lemma per action (`...Inv`). The
refinement has one lemma per group of actions (`CreateMaps`, `PublishMaps`,
`DeleteMaps`): every step is `Assign`, `Grant`, `Leave`, `Close`, `Retire` or a stutter.

### The node plugin

`NodePublishProofs`, for any number of targets, requests, clients, faults and edits, under the
assumptions on constants that `TargetLocks` and `NodePublish` name (`LockAssumption`,
`NodeAssumption`):

| Theorem | Statement |
|---|---|
| `LockTableExcludes` | `LockSpec => []OneAtATime` |
| `PluginKeepsLockDiscipline` | `Spec => LockSpec`: the node plugin implements the lock table |
| `MutualExclusion` | `Spec => []OneAtATime` |
| `TypeCorrect` | `Spec => []TypeOK` |
| `AnswersAreTrue` | `Spec => []AnswersStayTrue` |
| `TargetsAreRecoverable` | `Spec => []PublishedIsRecoverable` |
| `PoolHasOneClient` | `Spec => []OneClient` |
| `GenerationsAreKept` | `Spec => RebuildKeepsGeneration` |
| `LiveClientsAreKept` | `Spec => LiveClientKept` |

**Locks.** `LockInv` says that whoever counts for a target refers to the entry that the table has
for it, that an entry's count is the number of its users, and that an entry
belongs to one target. It is the count that makes it inductive: `Leave` may remove
an entry only when the last user is gone, so nobody can be left with an entry the
table has forgotten. The refinement is what lets the second theorem be carried
over to a specification with fourteen handler steps: each of them is a step of the
table or leaves it alone.

**Generations.** The rest (`PluginInv`) rests on an order. The generation in the pool's record
only grows; a client's label is not newer than the servers it was started for, and those are not
newer than the record. A publish request reads the record with the lock of its target in
hand, so what is mounted there before it binds is not newer than its record, and what it
binds is not older; neither is the generation in its publish state. A mount with the request's
generation in its label or in its publish state is therefore of exactly that generation,
which is what `_same_logical_stale_source` infers. `TargetOK` says what a target owes to its last
answer when no request works on it (`Told`), and `CallOK` what a request knows at each of its steps.
`LaunchOK` carries `OneClient`: whoever is about to launch has `mount_lock` and has seen the
mountpoint empty, unless a launch has outlived the process that made it.

### Placement

`ProvisionerProofs`, for any number of pools, driver processes, generations and
surprises, under `SelectAssumption` and `ReadyAssumption` and with `BlindLooks = FALSE`,
the condition that the run `BlindSearch` shows to be needed:

| Theorem | Statement |
|---|---|
| `HomeIsUnique` | `Spec => []OneHome` |
| `AnswersAreKept` | `Spec => []AnswersHold` |
| `TypeCorrect` | `Spec => []TypeOK` |

A search over several pools is not a snapshot: a pool may change as soon as it has been
looked at. What makes the result good all the same is that only a create brings
anything into being, and that the creation lock of the name allows one create at a
time, from before its first look to its answer. So `Scanned` says of a create in its
last search that every pool it has passed over is empty, and `Placed` which locks a
call has at which step. `Verified` adds that what a create builds is there, as the
lifecycle lock, taken before the second look, keeps every purge away. There is one lemma
per action (`...Keeps`); `SelectKeeps` is where a record appears, and needs `Scanned`.

`AnswersAreKept` has a second invariant on top (`AInv`). An answer is recorded only from a call
that no call for the opposite has met; `Apart` says that such a call is still apart from them, and
`Kept` that none of them is there once the answer is given. A delete that runs without a create beside it
can therefore say of every pool it has passed over that it is still empty (`Missed`), and a
create that runs without a delete that the volume it has found is still there (`Found`).
`Caught` says that what is purged is there, so that a delete ends with nothing anywhere.

### The operator and a pool

`PoolReconcilerProofs`, for any number of volumes, resources of the
pool's name and troubles, under `ReconcilerAssumption`:

| Theorem | Statement |
|---|---|
| `ServersOutliveVolumes` | `Spec => PoolOutlivesVolumes` |
| `ReadyIsServing` | `Spec => []ReadyMeansServing` |
| `TypeCorrect` | `Spec => []TypeOK` |
| `LiveIsUndisturbed` | `Spec => LiveUndisturbed` |
| `RetainedIsRetained` | `Spec => []RetainIsSafe` |
| `WaitsReconciled` | `Spec => []WatchReconciled` |

Two facts carry `ServersOutliveVolumes`. `Fenced`: whenever the operator is at work with a
goal the provisioner is scaled down and gone, and every step of a deletion has a goal; so
nobody makes a PersistentVolume between the count of zero and the removal. `Identified`:
servers, record and the identity the operator is about to deploy agree, though the record
may be lost at any moment; so a placement never moves the servers. It needs
`Targeted`, that a deletion starts with a record, since a record sealed out of nothing
would have no identity. A step ends in one of four ways (`Gone`, `Lifted`, `Onwards`,
`Fencing`), and `Moves` shows once that each of them keeps `Fenced` and `Serving`.

**Past owners** (`Lineage`). Resources of one name follow each other. Once a resource is known to be gone,
or its name in use by a later one, it and all before it stay gone (`PastStays`). Whatever leads to a removal,
a plan, a deletion under way or an event still queued, was made from an owner in that past;
so what it takes down is nobody's (`PastIsNobodys`), however old it is when it is carried out.

**Retained data** (`Agreed`). Record, class and volumes are changed one after the other, and the operator may
die between. The one disagreement that matters is a record that says Retain with a class that
still says Delete, since a create would take the class's policy: `Lag` says that this is so
only behind the fence, at labels from which the operator goes on to write the class, or as long as it is
down. `Recorded` is what record, class and volumes have in common at all times; `Placement` and
`Removal` say how far a placement and a deletion have come.

**What the operator waits on** (`Settling`). A placement is carried out from the resource as it was listed, or
as it was read again behind the fence of a change of policy. `Latest` says that this is the
resource as it is, unless something came in that the operator has not seen; `Carried`
that the plan is carried out where it is left behind, and `Confirmed` that a second look
has found it so before the provisioner is given back. `Rolling` says the same of the node plugins: a
fence taken for them is given back, and the stream waited on, only with the wanted template published, unless it was edited
after the last list.

### What is only model-checked

Every safety property that a passing run checks is a theorem. What stays with TLC is liveness
(`CreateConverges`, `DeleteConverges`, `PoolRetires`, `FenceLifts`, `OrphanDrains`, `KubeletServed` and
`ReadinessFollows`), since fairness and `ENABLED` are outside the proof system's reach, and
the three runs of section 3 that find a property violated.

## 5. The plan

All modules of the plan are written and proved about, but for three that turned out to be worth less
than what replaced them: the capacity walk as steps (section 2.1 says what it
could meet), `ListVolumes` (read-only) and the process monitor (a step of the
environment in `StorageReadiness`). What would come next:

1. Block volumes in the controller as a second kind of payload: an image that is grown in a
   temporary file and renamed, under the same locks, records and admission.
2. An abstract specification of the whole provisioner, with `ManagedVolumes` for each pool and
   `PoolSelection` over them, so that what `AnswersHold` says of a name rests on what
   `LifecycleRefinement` says of a pool.
3. A repair of what `SpentArchive` and `PolicySwitch` show, modelled first: with the tombstones
   of purges kept from active volumes, `ArchivesStay` should no longer be needed.

## 6. What is not modelled

* *External pools and quota over SSH*: a branch of the same handlers whose effect is on
  a Gluster cluster outside.
* *Block volumes in the controller*: an image file grown in a temporary file and renamed;
  their publication is in `NodePublish`.
* *`ListVolumes`* keeps a generator in a process global, so two callers that page at the
  same time get each other's pages, and the token of the last page is not checked. It
  changes no volume. *`ValidateVolumeCapabilities`* and the identity service only answer.
* *The operator*: which node has which node plugin (`nodes` is one value for all of them), the
  rollout of server pods brick by brick, stored types and
  geometry, manifests, component configuration, upgrades.
* *Loop devices of a node*: the plugin may die between the attachment of one and its bind
  mount (VU 3378), and nothing looks for it afterwards.
* *Storage servers, quota daemon, GlusterFS and SQLite* are taken to do what they promise: a
  rename, a created file and a committed transaction are atomic and durable, a flock
  has one holder.
* *The command line, the exporters, the templates and the generated gRPC code* hold no
  state worth a model.
