----------------------- MODULE VirtualMachineSnapshot -----------------------
(***************************************************************************)
(* Snapshots of a VM, and reverting to one:                                *)
(*   controllers/virtualmachinesnapshot/                                   *)
(*     virtualmachinesnapshot_controller.go                                *)
(*   pkg/providers/vsphere/vmprovider_vmsnapshot.go                        *)
(*   pkg/providers/vsphere/virtualmachine/snapshot.go                      *)
(*                                                                         *)
(* Two controllers share the work.  The VirtualMachine controller takes    *)
(* the snapshots, the oldest first, and reverts to one; the snapshot       *)
(* controller owns the objects, waits for CSI, and removes a snapshot from *)
(* vSphere when its object is deleted.  Neither knows what the other is    *)
(* doing, except from the objects and from vSphere, and each reads those   *)
(* once and acts on them later.                                            *)
(*                                                                         *)
(* One VM, which exists, is not a VKS node and has its disks promoted and  *)
(* registered. The steps of updateVirtualMachine that are not about        *)
(* snapshots are left out but for their failing. Storage usage and the     *)
(* snapshot tree in the VM's status are left out, and so is the revert     *)
(* annotation: every path out of the revert removes it before the object   *)
(* is patched. The snapshot controller's patch of conditions, metadata and *)
(* status is one request (PatchHelper has them apart). An object is read   *)
(* from a cache that lags as far behind as it will, and so a step that     *)
(* reads one and patches it is atomic: what could come between the two has *)
(* come between the copy and the object. vSphere, CSI, the API server and  *)
(* its caches are external.                                                *)
(***************************************************************************)
EXTENDS Naturals, FiniteSets, FiniteSetsExt

CONSTANTS Snap,        \* snapshots, numbered in the order of their creation
          Deletable,   \* those that users may delete
          Targets,     \* those that users may ask to revert to
          MaxReverts,  \* bound: requests to revert
          MaxFaults    \* bound: calls and tasks that fail, crashes

ASSUME SnapshotAssumption ==
  /\ Snap \subseteq Nat \ {0} /\ IsFiniteSet(Snap)
  /\ Deletable \subseteq Snap /\ Targets \subseteq Snap
  /\ MaxReverts \in Nat /\ MaxFaults \in Nat

VARIABLES
  snap, snapCache, snapStale,  \* VirtualMachineSnapshots, the informer's copies
  want, wantCache, wantStale,  \* the VM's spec.currentSnapshotName, 0 for none
  vc,                          \* the VM's snapshots in vSphere
  task,                        \* the snapshot task vSphere is running
  vmQueue, snapQueue,          \* the work queues
  vmr, snr,                    \* the reconcile each controller is in
  cut, raced, rolled,          \* history: see the properties
  reverts, faults

snapVars == <<snap, snapCache, snapStale>>
wantVars == <<want, wantCache, wantStale>>
history  == <<cut, raced, rolled>>
vars == <<snapVars, wantVars, vc, task, vmQueue, snapQueue, vmr, snr, history, reverts, faults>>

-----------------------------------------------------------------------------
(* The state. *)

None == 0

\* created, synced, ready: the conditions, with their reasons where they matter.
\* csi: the annotation by which the controller and CSI talk to each other.
Conds   == [created: {"unset", "InProgress", "Failed", "True"}, synced: BOOLEAN,
            ready: {"unset", "WaitingForCreation", "WaitingForCSISync", "True"}]
Object  == [st: {"none", "live", "deleting", "gone"}, fin: BOOLEAN, owner: BOOLEAN,
            csi: {"none", "requested", "completed"}, cond: Conds]
NoConds == [created |-> "unset", synced |-> FALSE, ready |-> "unset"]
NoObject == [st |-> "none", fin |-> FALSE, owner |-> FALSE, csi |-> "none", cond |-> NoConds]
Exists(o) == o.st \in {"live", "deleting"}

\* n: how many snapshots have this name;  up: the parent;  cur: currentSnapshot.
Tree == [n: [Snap -> Nat], up: [Snap -> Snap \cup {None}], cur: Snap \cup {None}]
Task == [kind: {"none", "create", "remove", "revert"}, s: Snap \cup {None}]
NoTask == [kind |-> "none", s |-> None]
Running == task.kind # "none"

\* want, tree, recent: what was read;  pick: the snapshot to take, base: its conditions when it was
\* last patched;  more: others are pending;  err: a step has failed.
VMRec == [pc: {"idle", "tasks", "revert", "reverting", "restore", "list", "create",
               "creating", "failed", "success"},
          want: Snap \cup {None}, tree: Tree, recent: Task, pick: Snap \cup {None}, base: Conds,
          more: BOOLEAN, err: BOOLEAN]

\* The snapshot controller's call of vSphere to remove a snapshot.
SnapRec == [pc: {"idle", "remove", "removing", "sync"}, s: Snap \cup {None}]

EmptyTree == [n |-> [s \in Snap |-> 0], up |-> [s \in Snap |-> None], cur |-> None]
VMIdle   == [pc |-> "idle", want |-> None, tree |-> EmptyTree, recent |-> NoTask, pick |-> None,
             base |-> NoConds, more |-> FALSE, err |-> FALSE]
SnapIdle == [pc |-> "idle", s |-> None]

TypeOK ==
  /\ snap \in [Snap -> Object] /\ snapCache \in [Snap -> Object] /\ snapStale \subseteq Snap
  /\ want \in Snap \cup {None} /\ wantCache \in Snap \cup {None} /\ wantStale \in BOOLEAN
  /\ vc \in Tree /\ task \in Task /\ vmQueue \in BOOLEAN /\ snapQueue \subseteq Snap
  /\ vmr \in VMRec /\ snr \in SnapRec
  /\ cut \subseteq Task /\ raced \subseteq Snap /\ rolled \in Snap \cup {None}
  /\ reverts \in 0..MaxReverts /\ faults \in 0..MaxFaults

Init ==
  /\ snap = [s \in Snap |-> NoObject] /\ snapCache = snap /\ snapStale = {}
  /\ want = None /\ wantCache = None /\ wantStale = FALSE
  /\ vc = EmptyTree /\ task = NoTask
  /\ vmQueue = FALSE /\ snapQueue = {} /\ vmr = VMIdle /\ snr = SnapIdle
  /\ cut = {} /\ raced = {} /\ rolled = None /\ reverts = 0 /\ faults = 0

WriteSnap(s, o) == /\ snap' = [snap EXCEPT ![s] = o]
                   /\ snapStale' = snapStale \cup {s} /\ UNCHANGED snapCache
WriteWant(s)    == want' = s /\ wantStale' = TRUE /\ UNCHANGED wantCache

Fault == faults < MaxFaults /\ faults' = faults + 1

-----------------------------------------------------------------------------
(* Users, CSI and the informers (external to this code). *)

CreateSnapshotObject(s) ==
  /\ snap[s].st = "none" /\ \A t \in Snap : t < s => snap[t].st # "none"
  /\ WriteSnap(s, [NoObject EXCEPT !.st = "live"])
  /\ UNCHANGED <<wantVars, vc, task, vmQueue, snapQueue, vmr, snr, history, reverts, faults>>

DeleteSnapshotObject(s) ==
  /\ s \in Deletable /\ snap[s].st = "live"
  /\ WriteSnap(s, [snap[s] EXCEPT !.st = IF snap[s].fin THEN "deleting" ELSE "gone"])
  /\ UNCHANGED <<wantVars, vc, task, vmQueue, snapQueue, vmr, snr, history, reverts, faults>>

\* The webhook does not let a request be exchanged for another.  (Nobody withdraws one.)
RequestRevert(s) ==
  /\ s \in Targets /\ reverts < MaxReverts /\ reverts' = reverts + 1
  /\ want = None /\ Exists(snap[s])
  /\ WriteWant(s) /\ rolled' = None
  /\ UNCHANGED <<snapVars, vc, task, vmQueue, snapQueue, vmr, snr, cut, raced, faults>>

CSISync(s) ==
  /\ Exists(snap[s]) /\ snap[s].csi = "requested"
  /\ WriteSnap(s, [snap[s] EXCEPT !.csi = "completed"])
  /\ UNCHANGED <<wantVars, vc, task, vmQueue, snapQueue, vmr, snr, history, reverts, faults>>

\* SnapshotToVMMapperFn: a snapshot that is ready does not queue its VM.
MapsToVM(o) == Exists(o) /\ o.cond.ready # "True"

\* The watch tells of new objects in the order of their creation.
SnapEvent(s) ==
  /\ s \in snapStale /\ \A t \in Snap : t < s => snapCache[t].st # "none"
  /\ snapCache' = [snapCache EXCEPT ![s] = snap[s]] /\ snapStale' = snapStale \ {s}
  /\ snapQueue' = snapQueue \cup {s}
  /\ vmQueue' = (vmQueue \/ MapsToVM(snapCache[s]) \/ MapsToVM(snap[s]))
  /\ UNCHANGED <<snap, wantVars, vc, task, vmr, snr, history, reverts, faults>>

VMEvent ==
  /\ wantStale
  /\ wantCache' = want /\ wantStale' = FALSE /\ vmQueue' = TRUE
  /\ UNCHANGED <<snapVars, want, vc, task, snapQueue, vmr, snr, history, reverts, faults>>

\* The resync every half hour, long after everything else has come to rest.
Resync ==
  /\ vmr.pc = "idle" /\ snr.pc = "idle" /\ ~Running
  /\ ~vmQueue /\ snapQueue = {} /\ snapStale = {} /\ ~wantStale
  /\ vmQueue' = TRUE /\ snapQueue' = {s \in Snap : Exists(snap[s])}
  /\ UNCHANGED <<snapVars, wantVars, vc, task, vmr, snr, history, reverts, faults>>

-----------------------------------------------------------------------------
(* vSphere: one snapshot task of a VM at a time.  Whoever waits for it goes on; the  *)
(* change is signalled to the VirtualMachine controller (see AsyncSignal).           *)

After(t) ==
  CASE t.kind = "create" -> [vc EXCEPT !.n[t.s] = @ + 1, !.up[t.s] = vc.cur, !.cur = t.s]
    [] t.kind = "revert" -> [vc EXCEPT !.cur = t.s]
    [] t.kind = "remove" -> [n   |-> [vc.n EXCEPT ![t.s] = @ - 1],
                             up  |-> [s \in Snap |-> IF vc.up[s] = t.s THEN vc.up[t.s] ELSE vc.up[s]],
                             cur |-> IF vc.cur = t.s THEN vc.up[t.s] ELSE vc.cur]

\* The snapshot controller's reconcile returns; an error brings its object back.
SnapReturn(again) == snr' = SnapIdle /\ snapQueue' = snapQueue \cup again

\* The waiting controller is told whether the task succeeded.  CreateSnapshot then
\* looks for the new snapshot by its name.
Tell(ok) ==
  CASE task.kind = "create" /\ vmr.pc = "creating" ->
         /\ vmr' = [vmr EXCEPT !.pc = IF ok /\ vc'.n[task.s] = 1 THEN "success" ELSE "failed"]
         /\ UNCHANGED <<snr, snapQueue>>
    [] task.kind = "revert" /\ vmr.pc = "reverting" ->
         /\ vmr' = [vmr EXCEPT !.pc = IF ok THEN "restore" ELSE "list", !.err = ~ok]
         /\ UNCHANGED <<snr, snapQueue>>
    [] task.kind = "remove" /\ snr.pc = "removing" ->
         /\ IF ok THEN snr' = [snr EXCEPT !.pc = "sync"] /\ UNCHANGED snapQueue ELSE SnapReturn({snr.s})
         /\ UNCHANGED vmr
    [] OTHER -> UNCHANGED <<vmr, snr, snapQueue>>

\* The snapshot controller has looked for the snapshot, or has removed it.
Searched(s) == snap[s].st = "gone" \/ (snr.s = s /\ snr.pc = "sync")

\* The second alternative: the snapshot is taken, but the properties in which to look for it
\* cannot be read.
TaskDone ==
  /\ Running
  /\ vc' = After(task) /\ task' = NoTask /\ vmQueue' = TRUE
  /\ \/ Tell(TRUE) /\ UNCHANGED faults
     \/ task.kind = "create" /\ vmr.pc = "creating" /\ Fault /\ Tell(FALSE)
  /\ rolled' = IF task.kind = "revert" THEN task.s ELSE IF vc'.cur = vc.cur THEN rolled ELSE None
  /\ raced' = IF task.kind = "create" /\ Searched(task.s) THEN raced \cup {task.s} ELSE raced
  /\ UNCHANGED <<snapVars, wantVars, cut, reverts>>

TaskFails ==
  /\ Running /\ Fault
  /\ UNCHANGED vc /\ task' = NoTask /\ Tell(FALSE)
  /\ UNCHANGED <<snapVars, wantVars, vmQueue, history, reverts>>

\* The wait ends with an error, and vSphere goes on with the task.
WaitFails ==
  /\ Running /\ Fault
  /\ vmr.pc \in {"creating", "reverting"} \/ snr.pc = "removing"
  /\ UNCHANGED <<vc, task>> /\ Tell(FALSE)
  /\ cut' = cut \cup {task}
  /\ UNCHANGED <<snapVars, wantVars, vmQueue, raced, rolled, reverts>>

-----------------------------------------------------------------------------
(* The VirtualMachine controller: updateVirtualMachine. *)

VMGoto(p) == vmr' = [vmr EXCEPT !.pc = p]

\* The reconcile returns; an error, or more snapshots to take, brings it back.
VMReturn(again) == vmr' = VMIdle /\ vmQueue' = (vmQueue \/ again)

\* The VM is read, and its properties are fetched: the snapshots and the recent tasks.
StartVM ==
  /\ vmr.pc = "idle" /\ vmQueue
  /\ vmQueue' = FALSE
  /\ vmr' = [VMIdle EXCEPT !.pc = "tasks", !.want = wantCache, !.tree = vc, !.recent = task]
  /\ UNCHANGED <<snapVars, wantVars, vc, task, snapQueue, snr, history, reverts, faults>>

\* reconcileSnapshotRevertCheckTask: is one of those tasks running now?
CheckTask ==
  /\ vmr.pc = "tasks"
  /\ \/ /\ Running /\ task = vmr.recent /\ VMReturn(FALSE) /\ UNCHANGED faults
     \/ /\ ~(Running /\ task = vmr.recent)
        /\ vmr' = [vmr EXCEPT !.pc = IF vmr.want = None THEN "list" ELSE "revert", !.recent = NoTask]
        /\ UNCHANGED <<vmQueue, faults>>
     \/ /\ Fault /\ VMReturn(TRUE)
  /\ UNCHANGED <<snapVars, wantVars, vc, task, snapQueue, snr, history, reverts>>

\* Variant for mutation: the snapshot is not looked for.
FindNothing(s) == 0

\* FindSnapshot, in the properties that were fetched: none, one, or too many.
FindSnapshot(s) == vmr.tree.n[s]

\* Variant for mutation: a retry reverts again.
NeverCurrent(s) == FALSE

IsCurrent(s) == vmr.tree.cur = s

\* reconcileSnapshotRevertDoTask, up to the call of vSphere.  What goes wrong does not
\* keep the reconcile from its other steps.
Revert ==
  /\ vmr.pc = "revert"
  /\ LET s == vmr.want
         revertible == /\ Exists(snapCache[s]) /\ snapCache[s].cond.ready = "True"
                       /\ FindSnapshot(s) = 1
         callable == ~Running /\ vc.n[s] > 0
     IN  \/ /\ revertible /\ IsCurrent(s)
            /\ VMGoto("restore") /\ UNCHANGED <<task, faults>>
         \/ /\ revertible /\ ~IsCurrent(s) /\ callable
            /\ task' = [kind |-> "revert", s |-> s]
            /\ VMGoto("reverting") /\ UNCHANGED faults
         \/ /\ IF revertible /\ (IsCurrent(s) \/ callable) THEN Fault ELSE UNCHANGED faults
            /\ vmr' = [vmr EXCEPT !.pc = "list", !.err = TRUE] /\ UNCHANGED task
  /\ UNCHANGED <<snapVars, wantVars, vc, vmQueue, snapQueue, snr, history, reverts>>

\* restoreVMSpecFromSnapshot: the spec comes from the snapshot, without currentSnapshotName.
\* The deferred patch of the spec has no lock.  ErrSnapshotRevert does not requeue; the new
\* version of the VM does.
Restore ==
  /\ vmr.pc = "restore"
  /\ \/ /\ vc.n[vmr.want] > 0
        /\ IF want = None THEN UNCHANGED wantVars ELSE WriteWant(None)
        /\ VMReturn(FALSE) /\ UNCHANGED faults
     \/ /\ IF vc.n[vmr.want] > 0 THEN Fault ELSE UNCHANGED faults
        /\ vmr' = [vmr EXCEPT !.pc = "list", !.err = TRUE] /\ UNCHANGED <<wantVars, vmQueue>>
     \/ /\ vc.n[vmr.want] > 0 /\ Fault     \* the patch fails
        /\ VMReturn(TRUE) /\ UNCHANGED wantVars
  /\ UNCHANGED <<snapVars, vc, task, snapQueue, snr, history, reverts>>

\* A patch of the status by MergeFrom: if it changes a condition it replaces the whole
\* list by the one it is based on.  The reply is the base of the next.
Conditions(s, base, c) == LET conds == [base EXCEPT !.created = c]
                          IN  IF conds = base THEN snap[s].cond ELSE conds

PatchCreated(s, base, c) ==
  LET o == [snap[s] EXCEPT !.cond = Conditions(s, base, c)]
  IN  Exists(snap[s]) /\ IF o = snap[s] THEN UNCHANGED snapVars ELSE WriteSnap(s, o)

\* A patch of a snapshot does not arrive: the object is gone, or the call fails.
PatchLost(s) == /\ IF Exists(snap[s]) THEN Fault ELSE UNCHANGED faults
                /\ UNCHANGED snapVars

\* Variant for mutation: the oldest that is ready to be taken.
OldestOwned(pending) ==
  LET owned == {s \in pending : snapCache[s].owner} IN Min(IF owned = {} THEN pending ELSE owned)

\* The list is sorted by the time of creation.
Oldest(pending) == Min(pending)

\* Variant for mutation: the reason is looked for where it is put.
InProgressCreated(o) == o.cond.created = "InProgress"

\* The reason is looked for in another condition than the one markSnapshotInProgress sets.
InProgress(o) == o.cond.ready = "InProgress"

\* ReconcileCurrentSnapshot: the oldest snapshot that is not created, unless it is being
\* deleted, has no owner yet, or is in progress; markSnapshotInProgress.
PickSnapshot ==
  /\ vmr.pc = "list"
  /\ LET pending == {s \in Snap : Exists(snapCache[s]) /\ snapCache[s].cond.created # "True"}
         s == Oldest(pending)
         old == snapCache[s].cond
         due == /\ pending # {} /\ snapCache[s].st = "live" /\ snapCache[s].owner
                /\ ~InProgress(snapCache[s])
     IN  \/ /\ due /\ PatchCreated(s, old, "InProgress")
            /\ vmr' = [vmr EXCEPT !.pc = "create", !.pick = s, !.base = Conditions(s, old, "InProgress"),
                         !.more = \E t \in pending \ {s} : snapCache[t].st = "live"]
            /\ UNCHANGED <<vmQueue, faults>>
         \/ due /\ PatchLost(s) /\ VMReturn(TRUE)
         \/ ~due /\ VMReturn(vmr.err) /\ UNCHANGED <<snapVars, faults>>
  /\ UNCHANGED <<wantVars, vc, task, snapQueue, snr, history, reverts>>

\* reconcileConfig or reconcilePowerState, which come before it, fails.
UpdateFails ==
  /\ vmr.pc = "list" /\ Fault /\ VMReturn(TRUE)
  /\ UNCHANGED <<snapVars, wantVars, vc, task, snapQueue, snr, history, reverts>>

\* SnapshotVirtualMachine: unless the properties that were fetched show the snapshot.
TakeSnapshot ==
  /\ vmr.pc = "create"
  /\ LET s == vmr.pick
         callable == FindSnapshot(s) = 0 /\ ~Running
     IN  \/ FindSnapshot(s) = 1 /\ VMGoto("success") /\ UNCHANGED <<task, faults>>
         \/ /\ callable
            /\ task' = [kind |-> "create", s |-> s]
            /\ VMGoto("creating") /\ UNCHANGED faults
         \/ /\ FindSnapshot(s) # 1 /\ IF callable THEN Fault ELSE UNCHANGED faults
            /\ VMGoto("failed") /\ UNCHANGED task
  /\ UNCHANGED <<snapVars, wantVars, vc, vmQueue, snapQueue, snr, history, reverts>>

\* markSnapshotFailed; the create's error requeues in any case.
MarkFailed ==
  /\ vmr.pc = "failed"
  /\ \/ PatchCreated(vmr.pick, vmr.base, "Failed") /\ UNCHANGED faults
     \/ PatchLost(vmr.pick)
  /\ VMReturn(TRUE)
  /\ UNCHANGED <<wantVars, vc, task, snapQueue, snr, history, reverts>>

\* PatchSnapshotSuccessStatus, and the next snapshot.
MarkCreated ==
  /\ vmr.pc = "success"
  /\ \/ /\ PatchCreated(vmr.pick, vmr.base, "True")
        /\ VMReturn(vmr.err \/ vmr.more) /\ UNCHANGED faults
     \/ PatchLost(vmr.pick) /\ VMReturn(TRUE)
  /\ UNCHANGED <<wantVars, vc, task, snapQueue, snr, history, reverts>>

-----------------------------------------------------------------------------
(* The snapshot controller. *)

\* reconcileSnapshotReadyCondition
Ready(o) ==
  IF o.st = "deleting" THEN o
  ELSE [o EXCEPT !.cond.ready = CASE o.cond.created # "True" -> "WaitingForCreation"
                                  [] o.cond.created = "True" /\ ~o.cond.synced -> "WaitingForCSISync"
                                  [] o.cond.created = "True" /\ o.cond.synced -> "True"]

\* ReconcileNormal for an object with the finalizer: the owner, then, once the snapshot is
\* created, the synchronisation with CSI; sized says that GetSnapshotSize succeeds.
Normal(o, sized) ==
  IF o.cond.created # "True" THEN [o EXCEPT !.owner = TRUE]
  ELSE [o EXCEPT !.owner = TRUE, !.csi = IF @ = "completed" THEN @ ELSE "requested",
                 !.cond.synced = sized /\ o.csi = "completed"]

\* The three-way merge of a condition: from what was read (b) to what is wanted (w), if
\* the latest (c) is one of them.
Merges(b, w, c) == b = w \/ c = b \/ c = w
Merged(b, w, c) == IF b = w THEN c ELSE w

\* What the deferred patch makes of the object: nothing but what the reconcile changed.
Patched(c, b, w) ==
  LET o == [c EXCEPT !.fin = Merged(b.fin, w.fin, c.fin), !.owner = Merged(b.owner, w.owner, c.owner),
              !.csi = Merged(b.csi, w.csi, c.csi),
              !.cond.synced = Merged(b.cond.synced, w.cond.synced, c.cond.synced),
              !.cond.ready  = Merged(b.cond.ready, w.cond.ready, c.cond.ready)]
  IN  [o EXCEPT !.st = IF o.st = "deleting" /\ ~o.fin THEN "gone" ELSE @]

\* The deferred patch, and whether the object is queued again.
PatchSnap(s, b, w, err) ==
  LET c == snap[s]
      o == Patched(c, b, w)
      ok == /\ Exists(c) /\ (c.st = "deleting" => (o.fin => c.fin))
            /\ Merges(b.cond.synced, w.cond.synced, c.cond.synced)
            /\ Merges(b.cond.ready, w.cond.ready, c.cond.ready)
      rest == snapQueue \ {s}
  IN  \/ /\ ok /\ IF o = c THEN UNCHANGED snapVars ELSE WriteSnap(s, o)
         /\ snapQueue' = IF err THEN rest \cup {s} ELSE rest
      \/ /\ ~ok /\ UNCHANGED snapVars /\ snapQueue' = rest \cup {s}

\* ReconcileNormal; or nothing, for an object that is gone or has no finalizer to remove.
ReconcileNormal(s) ==
  /\ snr.pc = "idle" /\ s \in snapQueue
  /\ LET o == snapCache[s]
         found == o.cond.created = "True" => vc.n[s] = 1
     IN  \/ /\ ~Exists(o) \/ (o.st = "deleting" /\ ~o.fin)
            /\ snapQueue' = snapQueue \ {s} /\ UNCHANGED <<snapVars, faults>>
         \/ /\ o.st = "live" /\ ~o.fin
            /\ PatchSnap(s, o, Ready([o EXCEPT !.fin = TRUE]), FALSE) /\ UNCHANGED faults
         \/ /\ o.st = "live" /\ o.fin /\ found
            /\ PatchSnap(s, o, Ready(Normal(o, TRUE)), FALSE) /\ UNCHANGED faults
         \/ /\ o.st = "live" /\ o.fin /\ IF found THEN Fault ELSE UNCHANGED faults
            /\ PatchSnap(s, o, Ready(Normal(o, FALSE)), TRUE)
  /\ UNCHANGED <<wantVars, vc, task, vmQueue, vmr, snr, history, reverts>>

ReconcileDelete(s) ==
  /\ snr.pc = "idle" /\ s \in snapQueue
  /\ snapCache[s].st = "deleting" /\ snapCache[s].fin
  /\ snr' = [pc |-> "remove", s |-> s] /\ snapQueue' = snapQueue \ {s}
  /\ UNCHANGED <<snapVars, wantVars, vc, task, vmQueue, vmr, history, reverts, faults>>

\* Variant for mutation: any refusal counts as not found.
NotFoundOrBusy(s) == vc.n[s] = 0 \/ Running

\* ErrSnapshotNotFound, from vSphere's own reply.
NotFound(s) == vc.n[s] = 0

\* DeleteSnapshot; a snapshot that is not found needs no removing.
RemoveSnapshot ==
  /\ snr.pc = "remove"
  /\ LET none == NotFound(snr.s)
         free == vc.n[snr.s] = 1 /\ ~Running
     IN  \/ /\ none /\ snr' = [snr EXCEPT !.pc = "sync"] /\ UNCHANGED <<task, snapQueue, faults>>
         \/ /\ free /\ task' = [kind |-> "remove", s |-> snr.s]
            /\ snr' = [snr EXCEPT !.pc = "removing"] /\ UNCHANGED <<snapQueue, faults>>
         \/ /\ IF none \/ free THEN Fault ELSE UNCHANGED faults
            /\ SnapReturn({snr.s}) /\ UNCHANGED task
  /\ UNCHANGED <<snapVars, wantVars, vc, vmQueue, vmr, history, reverts>>

\* syncVMSSnapshotTreeStatus, then the finalizer goes with the deferred patch.
RemoveFinalizer ==
  /\ snr.pc = "sync"
  /\ LET o == snap[snr.s]
     IN  \/ /\ Exists(o) /\ WriteSnap(snr.s, [o EXCEPT !.fin = FALSE, !.st = "gone"])
            /\ SnapReturn({}) /\ UNCHANGED faults
         \/ PatchLost(snr.s) /\ SnapReturn({snr.s})
  /\ UNCHANGED <<wantVars, vc, task, vmQueue, vmr, history, reverts>>

-----------------------------------------------------------------------------
\* The process dies and is started again; vSphere goes on with its task.
Crash ==
  /\ Fault
  /\ vmr' = VMIdle /\ snr' = SnapIdle
  /\ cut' = IF Running THEN cut \cup {task} ELSE cut
  /\ vmQueue' = TRUE /\ snapQueue' = {s \in Snap : Exists(snap[s])}
  /\ snapCache' = snap /\ snapStale' = {} /\ wantCache' = want /\ wantStale' = FALSE
  /\ UNCHANGED <<snap, want, vc, task, raced, rolled, reverts>>

VMController == StartVM \/ CheckTask \/ Revert \/ Restore \/ PickSnapshot \/ UpdateFails
                \/ TakeSnapshot \/ MarkFailed \/ MarkCreated
SnapController == RemoveSnapshot \/ RemoveFinalizer \/ \E s \in Snap : ReconcileNormal(s) \/ ReconcileDelete(s)
Informer == VMEvent \/ \E s \in Snap : SnapEvent(s)
User == \E s \in Snap : CreateSnapshotObject(s) \/ DeleteSnapshotObject(s) \/ RequestRevert(s)

Next ==
  \/ User \/ VMController \/ SnapController \/ Informer \/ Resync \/ Crash
  \/ TaskDone \/ TaskFails \/ WaitFails \/ \E s \in Snap : CSISync(s)

Spec == Init /\ [][Next]_vars

\* Workers, informers, vSphere's task and CSI keep going.
Fairness ==
  /\ WF_vars(VMController) /\ WF_vars(SnapController) /\ WF_vars(Informer)
  /\ WF_vars(TaskDone) /\ WF_vars(Resync) /\ WF_vars(\E s \in Snap : CSISync(s))

FairSpec == Spec /\ Fairness

-----------------------------------------------------------------------------
(* Properties. *)

\* No name is given to two snapshots, whatever patch fails after the create: nobody could
\* find either again.  Except (cut) when the process dies during the create, or the wait for
\* it fails: properties fetched before its end and the task's state fetched after it show
\* neither.
NoDuplicate == \A s \in Snap : vc.n[s] > 1 => [kind |-> "create", s |-> s] \in cut

\* An object that is gone leaves no snapshot in vSphere.  Except (raced) when vSphere
\* finishes taking it after the snapshot controller has looked for it.
NoLeftover == \A s \in Snap : snap[s].st = "gone" /\ vc.n[s] > 0 => s \in raced

\* Snapshots are taken in the order of their creation: when vSphere starts to take one,
\* the older ones are there, or their objects are on their way out.
InOrder ==
  [][task' # task /\ task'.kind = "create" =>
       \A s \in Snap : s < task'.s /\ snap[s].st = "live" => vc.n[s] > 0]_vars

\* A request to revert rolls the VM back once: what is written after that is not lost to a
\* retry, a stale copy of the request or a failed patch.  Except when another snapshot has
\* become the current one in between, and (cut) as above.
RolledBackOnce == [][task' # task /\ task'.kind = "revert" => rolled # task'.s \/ task' \in cut]_vars

\* Once users leave them alone, all snapshots are ready, deleted ones are gone, and a
\* request to revert has been served, unless its snapshot is gone, or two have one name.
Settled ==
  /\ \A s \in Snap : Exists(snap[s]) => snap[s].st = "live" /\ snap[s].cond.ready = "True"
  /\ want # None => ~Exists(snap[want])
SnapshotsSettle == <>[](Settled \/ \E s \in Snap : vc.n[s] > 1)
-----------------------------------------------------------------------------
(* The inductive invariant. *)

\* What was so of an object stays so: the copy c of o.
SoundObject(o) ==
  /\ o.st = "deleting" => o.fin
  /\ o.fin => Exists(o)
  /\ Exists(o) /\ o.owner => o.fin
CopyOf(c, o) ==
  /\ c.st # "none" => o.st # "none"
  /\ c.st \in {"deleting", "gone"} => o.st \in {"deleting", "gone"}
  /\ c.st = "gone" => o.st = "gone"
  /\ c.fin => o.fin \/ o.st = "gone"

\* Objects and their copies are sound, and exist in the order of their creation.
Objects ==
  \A s \in Snap :
    /\ SoundObject(snap[s]) /\ SoundObject(snapCache[s]) /\ CopyOf(snapCache[s], snap[s])
    /\ \A t \in Snap : t < s => /\ snap[s].st # "none" => snap[t].st # "none"
                                /\ snapCache[s].st # "none" => snapCache[t].st # "none"

\* Who waits for a task, and for which: nobody else's runs at the same time.  A task that
\* nobody waits for has been cut off.
Waiting ==
  /\ vmr.pc = "creating" => task = [kind |-> "create", s |-> vmr.pick]
  /\ vmr.pc = "reverting" => task.kind = "revert"
  /\ snr.pc = "removing" => task = [kind |-> "remove", s |-> snr.s]
  /\ task.kind = "create" => vmr.pc = "creating" \/ task \in cut
  /\ task.kind = "revert" => vmr.pc = "reverting" \/ task \in cut

\* What a reconcile or a task is about is a snapshot; a task of vSphere finds it, and one
\* that is removed has been there once.
Picking == vmr.pc \in {"create", "creating", "failed", "success"}
Subjects ==
  /\ Picking => vmr.pick \in Snap
  /\ vmr.pc \in {"revert", "reverting", "restore"} => vmr.want \in Snap
  /\ snr.pc # "idle" => snr.s \in Snap /\ snap[snr.s].st \in {"deleting", "gone"}
  /\ Running => task.s \in Snap
  /\ task.kind = "remove" => vc.n[task.s] = 1 /\ snap[task.s].st \in {"deleting", "gone"}

\* What the properties did not show is not there, unless its create was cut off.
Reading == vmr.pc \in {"tasks", "revert", "reverting", "restore", "list", "create", "creating"}
Unseen ==
  /\ Reading => \A s \in Snap : vmr.tree.n[s] = 0 => vc.n[s] = 0 \/ [kind |-> "create", s |-> s] \in cut
  /\ vmr.pc = "creating" => vmr.tree.n[vmr.pick] = 0

\* A snapshot has the finalizer of its object before vSphere takes it, until it is removed.
Kept ==
  /\ Picking => snap[vmr.pick].fin \/ snap[vmr.pick].st = "gone"
  /\ task.kind = "create" => snap[task.s].fin \/ snap[task.s].st = "gone"
  /\ snr.pc = "sync" => vc.n[snr.s] = 0 \/ snr.s \in raced
  /\ \A s \in Snap : vc.n[s] > 0 => snap[s].fin \/ s \in raced

\* A snapshot that was there, or was said to be, still is, unless it is on its way out; and
\* so are all that are older than the one that is picked.
There(s) == vc.n[s] > 0 \/ snap[s].st \in {"deleting", "gone"}
Taken ==
  /\ \A s \in Snap : /\ snap[s].cond.created = "True" => There(s)
                     /\ snapCache[s].cond.created = "True" => There(s)
                     /\ vmr.tree.n[s] > 0 => There(s)
  /\ vmr.pc = "success" => There(vmr.pick)
  /\ Picking => \A s \in Snap : s < vmr.pick => There(s)

\* The properties show a revert that has been done, unless it was cut off.
RolledSeen ==
  /\ rolled # None => vc.cur = rolled
  /\ vmr.pc \in {"tasks", "revert"} /\ rolled # None =>
       vmr.tree.cur = rolled \/ [kind |-> "revert", s |-> rolled] \in cut

Inductive ==
  /\ TypeOK /\ Objects /\ Waiting /\ Subjects /\ Unseen /\ Kept /\ Taken /\ RolledSeen
  /\ NoDuplicate
=============================================================================
