# Verification of VM Operator

VM Operator is a Kubernetes operator: it keeps `VirtualMachine` objects in the
API server and virtual machines in vSphere in step. This directory holds TLA+
modules that model the core of it, TLC configurations that check them on small
instances, and proofs checked by TLAPS. Paths below are relative to the
repository (`src/` in PROJECT.json). `PROJECT.json` maps every definition to
the lines it models.

## 1. Inventory

| part | state it keeps | operations | what is hard |
|---|---|---|---|
| VirtualMachine controller (`controllers/virtualmachine/virtualmachine`) | none of its own; finalizers, annotations and status of the object | Reconcile, ReconcileNormal, ReconcileDelete, deferred patch, create-error handlers | works from a lagging cache; create may outlive the reconcile; requeue only by error or delay |
| vSphere provider (`pkg/providers/vsphere/vmprovider_vm.go`) | `concurrentCreateCount`, `currentlyReconciling` (memory only) | create or update, blocking or in a goroutine; delete; cleanup | many early returns, an unbuffered channel, a limit, crashes while vSphere runs the task |
| Update pipeline, power state | vSphere VM | twelve ordered steps, soft/hard power operations with timeouts | partial failure, NoRequeueError |
| VM watcher (`pkg/util/vsphere/watcher`) | container views, reference counts, property-hash cache, the Watcher in a shared context | Start, Add, Remove, Close, onUpdate, onObject | refcounts with failing calls; a goroutine that clears what it does not own; duplicate suppression |
| vm-watcher service (`services/vm-watcher`) | its current Watcher | list zones, add finalizers, start, receive results, restart | restarts racing with the zone controller |
| Zone controller (`controllers/infra/zone`) | finalizer of a zone | add or remove the zone's folder | no Watcher for a while |
| Channel sources, shared contexts (`pkg/util/kube/cource`, `pkg/context/generic`) | buffered channels, locked values | from, join, exec | a full buffer |
| Patch helper, conditions (`pkg/patch`, `pkg/conditions`) | the object before | three-way merge, optimistic lock, backoff | several writers |
| ReplicaSet controller (`controllers/virtualmachinereplicaset`) | finalizer and status of the replica set, owner and label of VMs | adopt, label, create, delete, wait for the cache | counts in a lagging cache |
| Publish request controller (`controllers/virtualmachinepublishrequest`) | conditions, attempts | quota, publish in a goroutine, find the task, find the image, TTL | calls nobody waits for, late tasks, two leaders |
| Snapshot controller and provider (`controllers/virtualmachinesnapshot`, `vmprovider_vmsnapshot.go`) | conditions, finalizer, the VM's `currentSnapshotName` | take, revert, remove | two controllers, one vSphere task at a time, crashes during it |
| Volume controllers (`controllers/virtualmachine/volumebatch`, `volume`) | batch attachment, `status.volumes` | attach, detach, migrate legacy attachments | two writers of one list, prerequisites that are not there yet |
| Group, group publish, image cache controllers | status of their objects | see PROJECT.json | stale caches, long tasks |
| VM service, class, policy, quota, image registry, console controllers | derived objects | copy or sum external state | little |
| Prober manager, in-memory caches, exit on change | queues, caches | periodic work | expiry |
| Webhooks, conversion | none | validate, default, convert | data only |

How the first six interact: the controller's workers call the provider; the
provider's goroutine writes the status, which the controller's watch sees; the
provider refuses VMs it cannot handle with a `NoRequeueError` and counts on
the watcher to signal a change; the service turns the Watcher's results into
events on a channel that is a source of the controller; the zone controller
and the service share one Watcher through a context value. The replica set
controller creates and deletes `VirtualMachine` objects; the volume controller
and the VirtualMachine controller write the same status; snapshots are taken by
the VirtualMachine controller and owned by the snapshot controller; all of them
write their objects back with the patch helper.

What makes them correct: no VM is created twice, orphaned, or destroyed while
it is being created; create slots are neither lost nor exceeded; every create
and delete ends; exactly the folders of existing zones are watched; every
change of a VM leads to a reconcile; no controller's write is lost to another's
stale copy; a replica set neither overshoots nor deletes too many; a publish
attempt is started once and its item recognised; no snapshot is taken twice or
left behind, and a VM is rolled back once per request; no volume is attached
twice or detached without being asked. The hazards behind these, line by line,
are the list `hazards` of PROJECT.json.

## 2. Modules

* `VirtualMachineController` – controller and create/delete half of the provider.
  * State: `obj` (API server), `cache` and `written` (informer and its lag),
    `queue`, `rec` (program counter and pending patch of the reconcile of each
    object), `outdated` (for the optimistic lock of the status patch),
    `reconciling`, `createCount`, `gor`/`handler` (create goroutine and the
    receiver of its channel), `releasing` (cleanups between their two
    statements), `vc`/`managed` (vSphere), `lost`/`everLost` (create tasks that
    nobody waits for, after a crash or a call that failed while its task went on).
  * Actions: one per step between two points where another thread can be seen:
    `LoadReconciling` … `StartHandler` and `BlockingArgs`, `BlockingCreate` are
    `createOrUpdateVirtualMachine` in its two modes, `Gor*` the goroutine,
    `Del*` `DeleteVirtualMachine`/`CleanupVirtualMachine`, `Patch`/`PatchFails`
    the deferred patch. `Crash` and `LostTask` are the process and vSphere.
  * Abstractions: create arguments, config specs and placement are calls that
    succeed or fail (`Fault`); an update is what it records in the status;
    a legacy object carries the deprecated finalizer; VMs in `Refused` may be
    found disconnected or paused by the admin, which ends a delete without a
    requeue. Names are not reused: an object that is gone stays gone.
* `ZoneWatcher` – which folders are watched, for which zones: zone controller,
  the service's loop, the Watchers with their views (`cv`), users (`cvr`) and
  list view (`lv`), the context (`ctx`). `Add` and `Remove` are single actions
  because `ExecWithContext` holds the context's lock for all of them; their
  failing calls are disjuncts. Which folders there are in vSphere is `existing`,
  any set of them.
* `AsyncSignal` – from a change in vSphere to a reconcile: property collector
  (`pend`), `batch`, `Cache`, the goroutines that wait with a result
  (`sender`), service (`svc`), channel (`chan`), work queue. A VM's watched
  properties are one value; `TouchVM` stands for updates whose hashes do not
  change. `known` is what the last reconcile saw, `missed` the VMs with a change
  that no Watcher can have told of: one before the Watcher's first report, one
  reported to a Watcher that ended, one undone before it was reported.
* `PatchHelper` – `Patch` of `pkg/patch` for several controllers of one object:
  the copies `before` and `after`, the status patch, the metadata patch, and the
  conditions with their three-way merge and backoff. Lists are replaced as a
  whole, as a merge patch does. A controller passes the options it passes in the
  code: the lock of the status patch (`Locking`: VMs and volumes), conditions it
  owns (`Owned`: the readiness probe), or conditions that go with the status
  instead of being merged (`Whole`: publish requests).
* `ConditionRegister` – what the helper promises: conditions are changed all
  together and each from the state its controller saw, or from any if it owns the
  condition; of a shared list a controller changes its own entry only. Who sends
  its status whole replaces all conditions. `PatchHelper` instantiates it with
  its own state (`Register`), and `ImplementsRegister` is the refinement.
* `VirtualMachineReplicaSet` – reconcile in the steps adopt, label, sync, create,
  wait, delete, wait, patch, each over copies (`rsCache`, `vmCache`) that lag;
  garbage collection is external, and the end of a deleted VM is one step. `past` is history:
  what has happened that a property excepts.
* `VirtualMachinePublishRequest` – one request and the processes of the operator
  (`Manager`; more than one while the leader changes). `calls` are goroutines on
  their way to vCenter, `tasks` what vCenter makes of them, `item` and `image`
  what comes of it. The deferred patch is two requests, either of which may fail:
  one for the metadata, one for the status with its conditions. Its error counts only if the
  reconcile has none yet: behind a terminal error it is lost (`dropped`).
* `VolumeBatch` – the batch volume controller, the status update of the
  VirtualMachine controller that writes the same list, and CSI (external).
  * State: the VM (`vm`: identifiers, hardware, pause, volumes and their status
    entries), the batch attachment, both with lagging copies; legacy attachments,
    PVCs, device controllers and the boot disk (`boot`: classic, registered as a
    first class disk, or gone); the reconcile (`rec`).
  * Actions: `Reconcile` (its early returns, the pause among them, and the
    deletion of legacy attachments that are not wanted any more), `Process` (PVCs,
    batch, status), `PatchStatus`; `UpdateStatus` of the VirtualMachine controller, which adds,
    retags and removes entries; `Edit`, `Pause`, `Claim` and CSI's steps.
  * Left out: disk and sharing modes, capacities, unit numbers, instance storage,
    and the name of the boot disk's entry when no volume stands for it. Every
    volume but the boot disk's has a device controller of its own.
* `VirtualMachineSnapshot` – the snapshot steps of the VirtualMachine controller
  (`vmr`) and the snapshot controller (`snr`) over one VM, vSphere's one task at
  a time (`task`) and tree (`vc`). A step that reads an object and patches it is
  atomic, because the copy read may lag as far as it likes anyway. A task may fail,
  outlive the wait for it (`WaitFails`) or its process (`Crash`), or succeed
  without the properties being readable afterwards. The snapshot controller's
  patch is one request; `PatchHelper` has its parts.
* `*_proofs` – the theorems about each of these components (section 4).
* `MC*` – instances for TLC.

Definitions named in comments as "Variant for mutation" are plausible bugs; the
entries `mutants` of PROJECT.json say which property finds each of them.

## 3. Runs

| run | shows | bounds |
|---|---|---|
| `vm_async` | slots, bound on running creates, create-once, delete against create, no orphan, finalizer first; non-blocking creates, over a crash | 2 VMs (symmetric), 2 workers, 1 slot, 1 failing call, 1 crash |
| `vm_blocking` | no orphan for blocking creates, with pausing, a VM that is refused and one that is kept on delete (the other invariants are proved for both modes) | 2 VMs, 2 workers, 1 slot, 1 failing call |
| `vm_live` | goroutines end, deletes end, creates succeed | 2 VMs, 1 worker, 1 slot, 1 failing call (one VM's create may go on after it: `Forsaken`) |
| `zone_faults` | counts, views and finalizers agree whatever fails | 2 zones sharing a folder, which may be missing, 1 failing call, 1 Close, 2 Watchers |
| `zone_live` | the context holds the running Watcher, what was added is reported on; live zones end up watched, deleted ones go | the same, without Close |
| `zone_leak` | a finding, see below | 2 zones, 2 Watchers |
| `signal` | the cache is never wrong unnoticed; every change a Watcher saw reaches a reconcile | 2 VMs (one appears, one may be deleted), 2 changes, 2 Watchers, channel of 1, evictions |
| `patch_helper` | the helper implements the register; no conflict with itself; conditions said to be written are | 4 controllers (two pass the lock, one owns a condition, one sends its status whole), 2 condition types of 2 states, 2 calls, 2 attempts, 1 failing request |
| `replica_set` | no surplus, none deleted too many, the size is reached, a deleted set leaves no VM | 1 set of 1 or 2, 3 VM names, 1 edit or meddling, 1 failing call or wait |
| `publish` | an activation ID is used once, ready means published, no lost wake-up, every request ends | 2 managers, 2 attempts, OVF and template libraries, TTL 0 or none, 1 fault, crash, intruder, deletion or change of leader |
| `volume_batch` | tracked once, no detach unasked, the boot disk's entry is kept, all ends up attached | 2 volumes, 2 claims, one of them the boot disk's and late, 2 edits (a pause among them) and faults together, at most 1 fault |
| `snapshots` | none taken twice or left behind, in order, rolled back once, all come to rest | 2 snapshots, one deletable and a target, 1 revert, 1 failing call, task, wait or process |

`TypeOK` is an invariant of `vm_async` and `publish`; those of the other modules
hold too, as a run with `TypeOK` added to the cfg shows.

Why the bounds are enough: interference is between a VM and itself (its
worker, its goroutine, its delete) and, through slots and workers, between two
VMs; one slot for two VMs makes the limit bite, and a second worker makes every
pair of steps interleave. Two zones are what sharing a folder takes, two
Watchers what a restart takes. A channel of one is full with two VMs. One
failing call can hit any call of any step. Two calls of two controllers and two
conditions are what a lost update takes, and the four controllers give every
pair of options; two attempts of the backoff let one conflict be
retried and a second end it. A set of two replicas among three names can
overshoot by one, fall short by one and change its size both ways. Two attempts
make an item of an earlier attempt meet a later one, two managers an overlap of
leaders. Two snapshots are what an order, and a revert beside a pending create,
take. One volume may take either claim and the other the first of them (`Wish`),
so that a claim can be exchanged, taken back and moved, and a volume can stand for
the boot disk or for a disk of its own. `SYMMETRY` is used only for safety, in configurations that treat
both VMs (locking controllers, states of a condition) alike. Deadlock is checked for
`volume_batch`, whose resync never ends, and not elsewhere: with every object
settled and the bounds used up those systems rest.

### Disagreements found

`zone_leak` ends with a counterexample: a zone deleted while the Watcher restarts
may be watched again by the new Watcher, from a stale list, and stays watched.
The entry `findings` of PROJECT.json quotes the comments concerned.

### What the properties had to except

Each exception below is written into a property, and is a behaviour of the code
that TLC shows when it is taken out.

* Creates. A create whose task goes on without it, after a crash or a call that
  failed (`lost`), is not known to anybody: a second VM may be created beside it,
  and it may be orphaned. `everLost` marks such VMs.
* Watcher. `remove` that fails half-way (the view is out of the list, its destroy
  fails) leaves a view that a later `Add` of the folder takes for watched.
  `AddedIsReported` and `ZoneStaysWatched` except the folders concerned
  (`leaked`), until the retry of `Remove` succeeds. No signal is sent for an
  object that is being deleted, nor for a `missed` change; the periodic resync
  of the manager reconciles such a VM in the end.
* Replica sets. `NoSurplus` holds until a call has failed or been refused, a wait
  timed out or somebody else deleted a VM; then a stale count may create one VM too
  many, which the next reconcile deletes (when one of several creates fails the
  others are not waited for). `NoOverDelete` holds whatever fails, but for VMs
  that somebody else deletes, and for a size raised after a delete has failed: of
  three VMs to be scaled to one the first cannot be deleted and the second is; with
  the size back at two and the cache still showing three, the first is deleted, and
  one is left. Two replica sets with overlapping selectors are not checked.
* Publish requests. The status patch carries no version: a former leader's may
  come after its successor's, and leave Ready with Complete false, or
  `ItemAlreadyExists` on an own item, until the next reconcile (`Resync`). An
  item whose description was cleared just before the status patch failed cannot
  be found again (`Lost`). A request given up as `Fatal` may still get its item
  from a late task. On the two paths that end with a `TerminalError` (out of
  attempts, quota refused) a failed deferred patch is not reported, nothing
  requeues, and the end is not recorded before the resync (`dropped`).
* Patch helper. A controller that owns a condition overwrites what others made
  of it, and one that sends its status whole overwrites all conditions with those
  it read; `ConditionRegister` says so.
* Volumes. Legacy attachments are not watched, so their end is noticed at the next
  event or resync. A `NoRequeueError` joined with errors that could be retried
  makes all of them terminal (`ResultFromError`). A VM without
  `status.hardware` makes the reconcile panic, although the comment there speaks
  of waiting; the worker recovers, and the status update follows. `TrackedOnce`
  compares volume and claim; a claim given to a volume of another name may
  be in a legacy attachment and in the batch for a while. A batch may name a PVC
  that is not bound, if its `dataSourceRef` points at the VM and a node has been
  selected for it (`BatchBound`). A paused VM does not settle.
* Snapshots. `cut`: the process dies during a create or revert, or its wait ends
  with an error, and the next reconcile reads the VM's properties before the end
  of the task and the tasks after it, so that it starts another. `raced`: the object is deleted while vSphere takes
  the snapshot, after the controller has looked for it. A request to revert
  stands until it is patched away, and a snapshot taken in the same reconcile
  hides that it was served: the VM is rolled back again. The guard of
  `ReconcileCurrentSnapshot` against two creates reads the condition Ready, while
  `markSnapshotInProgress` sets Created: it never fires (and if it read Created, a
  failed patch would stop all snapshots, which is the mutant of
  `SnapshotsSettle`). A reconcile that meets a running task ends without a
  requeue, and a task that fails changes nothing a Watcher reports, so the next
  one is the resync. Snapshots with equal creation timestamps are taken in
  either order; the model numbers them.

`WatcherStays` needs `MaxCloses = 0`: after `watcher.Close`, which closes the
Done channel before the Watcher's goroutine clears the context, that goroutine
clears its successor. Only tests of the repository call it.

### Fairness

Workers, goroutines, the informer and the service are threads the Go scheduler
runs: weak fairness. `Reconcile(v)` of the controller has strong fairness, since
a queued object competes for workers that become free again and again. The
queue is one with priorities by default (`main.go`), and deletes rank below
creates; a create that is refused a slot comes back after a delay, during which
the worker is free for the others. That the delays do not fill all of a worker's
time is an idealisation of this assumption. Workers, informers and watches of the other modules have
weak fairness; an external party that the code waits for (vCenter's tasks, CSI, the
garbage collector, the quota service, the source VM and the library of a publish
request, timers) does eventually what it was asked to, as every liveness claim
about these controllers must assume. `Resync` is the informers' periodic
resync; in `publish` and `snapshots` it happens only when all else is at rest,
which is the weakest help it can be. `signal` and `patch_helper` check safety
only and state no fairness. No fairness is assumed for users, failures,
crashes, evictions or vSphere's changes; failures are bounded, so calls
eventually succeed.

## 4. Proofs

Each component's `*_proofs` module proves its theorems for every value of the
constants that the component's named assumption admits: sets of any (finite) size,
any bounds on faults, edits, crashes, attempts. The assumptions only give the
constants their types and rule out degenerate cases (no worker, no slot, no
manager, an unbuffered channel), and TLC evaluates them in every run.

| module | theorem | states |
|---|---|---|
| `VirtualMachineController` | `Inductiveness`, `FinalizersAlways` | the inductive invariants |
| | `TypeCorrect` | `TypeOK` |
| | `SlotsAlwaysAccounted`, `RunningAlwaysBounded` | `SlotsAccounted`, `RunningBounded` |
| | `DeleteAlwaysExcludesCreate`, `NeverDoubleCreate` | `DeleteExcludesCreate`, `NoDoubleCreate` |
| | `FinalizerAlwaysFirst`, `NeverOrphan` | `FinalizerFirst`, `NoOrphan` |
| `PatchHelper` | `Inductiveness`, `TypeCorrect` | the inductive invariant, `TypeOK` |
| | `ConflictAlwaysHasCause` | `ConflictHasCause` |
| | `ConditionsAlwaysArrive` | `ConditionsArrive` (action property) |
| | `Refinement` | `ImplementsRegister` (the specification `ConditionRegister`) |
| `ZoneWatcher` | `Inductiveness` | the inductive invariant |
| | `ViewsAlwaysCounted`, `WatchedAlwaysHeld` | `ViewsCounted`, `WatchedIsHeld` |
| | `AddedAlwaysReported` | `AddedIsReported` |
| | `WatcherAlwaysStays` | `WatcherStays`, if `MaxCloses = 0` |
| `AsyncSignal` | `Inductiveness` | the inductive invariant |
| | `CacheAlwaysCurrent`, `SignalAlwaysDelivered` | `CacheCurrent`, `SignalDelivered` |
| `VirtualMachinePublishRequest` | `Inductiveness`, `TypeCorrect` | the inductive invariant, `TypeOK` |
| | `AlwaysOneTaskPerActID`, `ReadyAlwaysPublished` | `OneTaskPerActID`, `ReadyIsPublished` |
| | `NeverLostWakeup` | `NoLostWakeup` |
| `VolumeBatch` | `Inductiveness`, `TypeCorrect` | the inductive invariant, `TypeOK` |
| | `TrackedAlwaysOnce` | `TrackedOnce` |
| | `NeverSpuriousDetach`, `ClassicAlwaysKept` | `NoSpuriousDetach`, `ClassicKept` (action properties) |
| `VirtualMachineSnapshot` | `Inductiveness`, `TypeCorrect` | the inductive invariant, `TypeOK` |
| | `NeverDuplicate`, `NeverLeftover` | `NoDuplicate`, `NoLeftover` |
| | `AlwaysInOrder`, `AlwaysRolledBackOnce` | `InOrder`, `RolledBackOnce` (action properties) |
| `VirtualMachineReplicaSet` | `TypeCorrect` | `TypeOK`, for any number of replica sets |
| | `Inductiveness` | the inductive invariant, if `RS = {r}` |
| | `AlwaysNoSurplus`, `NeverOverDelete` | `NoSurplus`, `NoOverDelete` (action properties), if `RS = {r}` |

The two hypotheses are those of the runs, and the section on exceptions says
what happens without them. The inductive invariants are in the components'
modules, under the properties, and each was checked with TLC before its proof.
Why each is needed:

**`VirtualMachineController`.**

* `Registered` – a goroutine's VM is in `currentlyReconciling`, and a worker
  beyond its check has no goroutine of the same VM beside it. The check and the
  `LoadOrStore` are apart; this holds because only the VM's own worker, of which
  the work queue admits one, can start a goroutine.
* `Looked` – what a worker saw of vSphere stays so until it acts: no VM between
  lookup and create, a VM between lookup and destroy. It needs `Registered`, and
  is restricted to VMs that no crash or failed call has left a task for. It makes `vc - 1` a natural
  number in `DelDestroy`, so it is needed even for `TypeOK`.
* `SlotsAccounted` – a step that moves one VM in or out of the two sets of
  holders changes their cardinalities by one. With `CreatesBounded` (the counter is
  at most the limit) `RunningBounded` follows: whoever waits for a create of
  vSphere is among the holders.
* `Finalizers` – proved over the first invariant. `Covered`: whoever is past the
  first reconcile has the finalizer in the API server, although it decided from
  a cache that lags. `CleanedUp`: who is about to remove the finalizer has read
  the object as deleted and left nothing to clean up.

**`PatchHelper`.** `Versions`: a copy with the resource version of the API server is
the object (so the lock means what it says). `OwnEntry`: a controller changes its
own entry of the shared list, and then passes the lock. `LockFirst`: the locked
patch is the first of its call, so a version is never outdated by the helper's own
patches. `MergedApart`: who sends its status whole does not merge. With them each request maps to one step of `ConditionRegister` or to none.

**`ZoneWatcher`.** `Sightings`: whoever will watch a zone because of what a cache showed
may still do so. `UsersHeld`: a Watcher knows each zone under its folder, and such
zones are held. `Listed` (all views are on the list but the leaked ones) is
inductive over these, and so is `OneWatcher` under its hypothesis.

**`AsyncSignal`.** `Tracked`: a change that was not missed has been seen by a reconcile
or is in one of the places on its way (collector, batch, sender, service, channel,
queue). It needs `BatchCurrent`: an update is outdated only if a newer one is
pending, otherwise the cache could suppress the newer one.

**`VirtualMachinePublishRequest`.** `RequestSound`, for the request and every copy of it;
`Numbered`: a reconcile that is not out of date has read the request as it is, and
only the update raises the number of attempts, so that the loser of two leaders is
refused before it calls; `Finalized`, `Accounted` and `Attended` are what a lost
wake-up would break, but for the patch that fails behind a terminal error.

**`VolumeBatch`.** `CopiesCurrent` and `LegacyOnlyGoes` make the test for a legacy
attachment, made from a copy, still valid at the write; `BatchBound` says that a
PVC, once good enough for the batch, stays so; `SteadyKept`
follows a volume the user keeps through every copy of the VM and of the batch.

**`VirtualMachineSnapshot`.** `Objects`: what was so of an object stays so of its
copies. `Waiting`: a task is waited for by one reconcile, or was cut off. `Unseen`:
what the properties read did not show is not there, unless its create was cut off. `Kept` and `Taken`: a snapshot
has its object's finalizer before vSphere takes it, and stays until it is on its way
out. `RolledSeen`: a revert that was done shows in the properties.

**`VirtualMachineReplicaSet`.**

* `SetKept`, `Lists`, `Owners` – finalizer and sizes seen earlier, what a reconcile has
  listed, and that names are not reused while somebody knows them.
* `Counted` – as long as nothing went wrong the cache shows all VMs of the set but
  those whose creation is waited for. `NoSurplus` follows by counting.
* `Confirms` – the same for deletions: only those waited for are still taken for live.
* `Orderly` – when something did go wrong: beyond each deleted VM that is still
  taken for live there are, in the order of deletion, as many live VMs as are wanted.
  A delete preserves it (`EnoughBeyond`): a VM the reconcile means to keep
  comes after every VM it deletes (`Survivors`, from the order `Before`), and if
  one of the kept is in fact gone, `Orderly` says that enough are beyond that one.
  `NoOverDelete` follows.

The attempt to prove `NoOverDelete` as it was first stated failed for a good
reason: it was true only within the bounds of the run. With sizes up to three and
two edits TLC finds that a size raised after a failed delete makes the retry delete
one VM too many (`continue` in the loop of `syncReplicas`). The property
now names that case; `NoSurplus` names refused creates in the same way.

Only model-checked: liveness (`CreateFinishes`, `DeleteFinishes`, `CreateSucceeds`,
`ZoneStaysWatched`, `ZoneDeleteFinishes`, `Settles`, `Converges`, `DeletedSetEnds`,
`SnapshotsSettle`, `VolumesSettle`), since fairness and ENABLED are beyond the
prover. Facts that need induction over data or RECURSIVE operators would be, too;
there are none here.

## 5. Not modelled, and the plan

PROJECT.json lists every component, with what is left out of the modelled ones.
In the order of the plan:

1. `Group`: membership, placement, power-state propagation; group publish
   requests on top of `VirtualMachinePublishRequest`.
2. Update pipeline and `power_state.go`; image-cache gate of fast deploy.
3. Prober queue, in-memory caches; unit-number allocation as pure operators
   against a reference definition.
4. Composition of `VirtualMachineController` with `AsyncSignal` and with
   `VirtualMachineSnapshot`; an abstract create-once specification that the
   controller implements.
5. Proofs: every safety property of the runs is proved. What is left: the
   refinement of an abstract create-once specification (item 4), and what two
   replica sets with one selector still guarantee each other.

Two hazards have a note instead of a property: the truncated percentage of
`config.go` and replica sets with overlapping selectors.

Left out for good: webhooks and conversion (stateless data handling), controllers
that copy or sum external state in one step, wrappers of the vSphere API and the
assembly of config specs (I/O), generated code. Most of the
repository's implementation lines are of these kinds: generated conversions and
deep copies, API types, validation, wrappers.
