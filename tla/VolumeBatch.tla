---------------------------- MODULE VolumeBatch ----------------------------
(***************************************************************************)
(* The volume controller that attaches the persistent volumes of a VM:     *)
(*   controllers/virtualmachine/volumebatch/volumebatch_controller.go      *)
(* together with the part of the VirtualMachine controller that writes the *)
(* same status:                                                            *)
(*   pkg/providers/vsphere/vmlifecycle/update_status.go                    *)
(*                                                                         *)
(* The controller keeps one batch attachment per VM in step with the VM's  *)
(* volumes.  A VM from before there were batches has an attachment of its  *)
(* own, a legacy one, for each volume; those are only ever deleted.  CSI   *)
(* (external) attaches and detaches what these objects ask for.  The VM    *)
(* and the batch are read from informer caches that lag; of PVCs and       *)
(* legacy attachments, which only go forward, the cache shows the present. *)
(*                                                                         *)
(* One VM, which exists as long as the model runs, with one boot disk.     *)
(* That is a classic disk until it is registered as a first class disk     *)
(* (FCD), for a placeholder PVC whose dataSourceRef points at the VM; a    *)
(* volume with this claim sits at the boot disk's target.  Any other       *)
(* volume has a target, and needs a device controller, of its own.  Disk   *)
(* and sharing modes, capacities, unit numbers and instance storage are    *)
(* left out.                                                               *)
(***************************************************************************)
EXTENDS Naturals, FiniteSets

CONSTANTS Vols,      \* volume names
          Claims,    \* names of PVCs
          Late,      \* those that are not there from the start
          Placeholder, \* the PVC of the boot disk, in a set, or none
          Present,   \* volumes the VM may have, with their device controllers, from
                     \* the start
          Wish,      \* bound: the claims a user may give to each volume
          MaxEdits,  \* bound: edits of the VM's spec
          MaxFaults, \* bound: requests that fail
          MaxTrouble \* bound: both together

NoClaim == "none"

ASSUME VolumeAssumption ==
  /\ NoClaim \notin Claims /\ Late \subseteq Claims /\ Present \subseteq Vols
  /\ Placeholder \subseteq Claims /\ \A c, d \in Placeholder : c = d
  /\ Wish \in [Vols -> SUBSET Claims]
  /\ IsFiniteSet(Vols) /\ IsFiniteSet(Claims)
  /\ MaxEdits \in Nat /\ MaxFaults \in Nat /\ MaxTrouble \in Nat

VARIABLES
  vm, vmCache, vmStale,              \* the VirtualMachine, its cached copy
  legacy,                            \* the CnsNodeVmAttachments, by volume
  batch, batchCache, batchStale,     \* the CnsNodeVMBatchAttachment
  pvc,                               \* the PVCs
  ctls, boot,                        \* device controllers and boot disk in vSphere
  queue, rec,                        \* work queue and reconcile
  steady,                            \* history: see Process
  edits, faults

vmVars     == <<vm, vmCache, vmStale>>
vsphere    == <<ctls, boot>>
batchVars  == <<batch, batchCache, batchStale>>
budget     == <<edits, faults>>
vars == <<vmVars, legacy, batchVars, pvc, vsphere, queue, rec, steady, budget>>

-----------------------------------------------------------------------------
(* The state. *)

Pairs == Vols \X Claims   \* a volume and the claim it stands for

\* id: status.instanceUUID and biosUUID are set;  hw: status.hardware is set;
\* ctls: the volumes whose device controller is in status.hardware;
\* paused: it has the pause annotation or label;
\* classic: the boot disk has its entry of type Classic in status.volumes, under the
\* name of its volume, if it has one;
\* managed: the other entries, each a volume and how it is shown.
Shown   == {"basic", "attached", "detaching"}
Entries == Vols \X Shown
Machine == [spec: [Vols -> Claims \cup {NoClaim}], id: BOOLEAN, hw: BOOLEAN, paused: BOOLEAN,
            ctls: SUBSET Vols, classic: BOOLEAN, managed: SUBSET Entries]

\* A legacy attachment that was not attached before the switch to batches never
\* will be: CSI refuses it with an error that says it is deprecated.
Legacy   == [claim: Claims \cup {NoClaim}, st: {"none", "live", "deleting"},
             at: {"waiting", "refused", "attached"}]
NoLegacy == [claim |-> NoClaim, st |-> "none", at |-> "waiting"]

Batch   == [ex: BOOLEAN, spec: SUBSET Pairs, status: SUBSET Pairs]
NoBatch == [ex |-> FALSE, spec |-> {}, status |-> {}]

\* base, old: what was read;  managed: the entries to be written;  current: nobody
\* has written the VM since base;  err: there was an error;  term: one of the errors
\* is a NoRequeueError.
Rec  == [pc: {"idle", "process", "patch"}, base: Machine, old: [Vols -> Legacy],
         managed: SUBSET Entries, current: BOOLEAN, err: BOOLEAN, term: BOOLEAN]

TypeOK ==
  /\ vm \in Machine /\ vmCache \in Machine /\ vmStale \in BOOLEAN
  /\ legacy \in [Vols -> Legacy]
  /\ batch \in Batch /\ batchCache \in Batch /\ batchStale \in BOOLEAN
  /\ pvc \in [Claims -> {"missing", "wffc", "selected", "bound"}]
  /\ ctls \subseteq Vols /\ boot \in {"classic", "fcd", "gone"}
  /\ queue \in BOOLEAN /\ rec \in Rec /\ steady \subseteq Pairs
  /\ edits \in 0..MaxEdits /\ faults \in 0..MaxFaults

SpecPairs(m) == {<<v, m.spec[v]>> : v \in {u \in Vols : m.spec[u] # NoClaim}}
Names(ps)    == {p[1] : p \in ps}

NewMachine(spec, old) ==
  [spec |-> spec, id |-> old, hw |-> FALSE, paused |-> FALSE, ctls |-> {},
   classic |-> FALSE, managed |-> {}]
Blank == NewMachine([v \in Vols |-> NoClaim], FALSE)
NotRunning == [pc |-> "idle", base |-> Blank, old |-> [v \in Vols |-> NoLegacy],
                  managed |-> {}, current |-> TRUE, err |-> FALSE, term |-> FALSE]

\* The validation webhook refuses a spec with two volumes of the same claim.
Distinct(spec) == \A v, u \in Vols : v # u /\ spec[v] = spec[u] => spec[v] = NoClaim

\* A new VM, or one from before batches, with legacy attachments for some of its
\* volumes and no hardware in its status yet.
Init ==
  /\ \E spec \in {s \in [Vols -> Claims \cup {NoClaim}] : Distinct(s)}, old \in BOOLEAN :
       /\ \A v \in Vols : spec[v] = NoClaim \/ (v \in Present /\ spec[v] \in Wish[v])
       /\ vm = NewMachine(spec, old)
       /\ legacy \in [Vols -> Legacy]
       /\ \A v \in Vols : \/ legacy[v] = NoLegacy
                          \/ /\ old /\ spec[v] # NoClaim /\ legacy[v].claim = spec[v]
                             /\ legacy[v].st = "live" /\ spec[v] \notin Late \cup Placeholder
       /\ old = \E v \in Vols : legacy[v] # NoLegacy
  /\ vmCache = vm /\ batch = NoBatch /\ batchCache = batch
  /\ vmStale = FALSE /\ batchStale = FALSE
  /\ pvc = [c \in Claims |-> IF c \in Late THEN "missing" ELSE "bound"]
  /\ boot = IF \E c \in Placeholder : pvc[c] = "bound" THEN "fcd" ELSE "classic"
  /\ ctls = Present /\ queue = TRUE /\ rec = NotRunning
  /\ steady = {} /\ edits = 0 /\ faults = 0

-----------------------------------------------------------------------------
(* Helpers. *)

\* A write of the VM by whoever has the record mine; the others' versions are old.
WriteVM(m) == vm' = m /\ vmStale' = TRUE /\ UNCHANGED vmCache

Fault == /\ faults < MaxFaults /\ edits + faults < MaxTrouble
         /\ faults' = faults + 1 /\ UNCHANGED edits

-----------------------------------------------------------------------------
(* Users, CSI, vSphere and informers (external). *)

Edit(v) ==
  /\ edits < MaxEdits /\ edits + faults < MaxTrouble
  /\ edits' = edits + 1 /\ UNCHANGED faults
  /\ \E c \in Wish[v] \cup {NoClaim} :
       LET spec == [vm.spec EXCEPT ![v] = c]
       IN  /\ c # vm.spec[v] /\ Distinct(spec)
           /\ WriteVM([vm EXCEPT !.spec = spec])
           /\ steady' = {p \in steady : spec[p[1]] = p[2]}
  /\ rec' = [rec EXCEPT !.current = FALSE]
  /\ UNCHANGED <<legacy, batchVars, pvc, vsphere, queue>>

\* The user, or an extension, pauses the VM or lets it go on.
Pause ==
  /\ edits < MaxEdits /\ edits + faults < MaxTrouble
  /\ edits' = edits + 1 /\ UNCHANGED faults
  /\ WriteVM([vm EXCEPT !.paused = ~@])
  /\ rec' = [rec EXCEPT !.current = FALSE]
  /\ UNCHANGED <<legacy, batchVars, pvc, vsphere, queue, steady>>

\* A PVC appears; one that waits for its first consumer is bound once a node is
\* selected, and the boot disk is an FCD once its PVC is bound.  The controller
\* watches PVCs only with some features on, and only those that the spec names.
Claim(c) ==
  /\ \/ /\ pvc[c] = "missing"
        /\ pvc' = [pvc EXCEPT ![c] = "wffc"] /\ UNCHANGED boot
     \/ /\ pvc[c] = "selected"
        /\ pvc' = [pvc EXCEPT ![c] = "bound"]
        /\ boot' = IF c \in Placeholder THEN "fcd" ELSE boot
  /\ queue' \in {queue, TRUE}
  /\ UNCHANGED <<vmVars, legacy, batchVars, ctls, rec, steady, budget>>

AddController(v) ==
  /\ v \notin ctls /\ ctls' = ctls \cup {v}
  /\ UNCHANGED <<vmVars, legacy, batchVars, pvc, boot, queue, rec, steady, budget>>

\* A volume is attached at most once at a time.
IsBoot(p) == p[2] \in Placeholder
Disks == batch.status \cup {<<v, legacy[v].claim>> : v \in {u \in Vols : legacy[u].at = "attached"}}

CSIBatch ==
  /\ \/ \E p \in batch.spec \ batch.status :
          /\ pvc[p[2]] = "bound" /\ p[1] \notin Names(batch.status)
          /\ \A q \in Disks : q[2] # p[2]
          /\ batch' = [batch EXCEPT !.status = @ \cup {p}]
          /\ boot' = IF IsBoot(p) THEN "fcd" ELSE boot
     \/ \E p \in batch.status \ batch.spec :
          /\ batch' = [batch EXCEPT !.status = @ \ {p}]
          /\ boot' = IF IsBoot(p) THEN "gone" ELSE boot
  /\ batchStale' = TRUE
  /\ UNCHANGED <<vmVars, legacy, batchCache, pvc, ctls, queue, rec, steady, budget>>

\* The controller does not watch legacy attachments: nothing that CSI does to them
\* wakes it.
CSILegacy(v) ==
  /\ \/ /\ legacy[v].st = "live" /\ legacy[v].at = "waiting"
        /\ legacy' = [legacy EXCEPT ![v].at = "refused"]
     \/ /\ legacy[v].st = "deleting"
        /\ legacy' = [legacy EXCEPT ![v] = NoLegacy]
  /\ UNCHANGED <<vmVars, batchVars, pvc, vsphere, queue, rec, steady, budget>>

VMEvent ==
  /\ vmStale /\ vmCache' = vm /\ vmStale' = FALSE /\ queue' = TRUE
  /\ UNCHANGED <<vm, legacy, batchVars, pvc, vsphere, rec, steady, budget>>

BatchEvent ==
  /\ batchStale /\ batchCache' = batch /\ batchStale' = FALSE /\ queue' = TRUE
  /\ UNCHANGED <<vmVars, legacy, batch, pvc, vsphere, rec, steady, budget>>

\* The periodic resync of the informers; one during a reconcile is as good as one
\* right after it.
Resync ==
  /\ ~queue /\ rec.pc = "idle" /\ queue' = TRUE
  /\ UNCHANGED <<vmVars, legacy, batchVars, pvc, vsphere, rec, steady, budget>>

-----------------------------------------------------------------------------
(* The VirtualMachine controller. *)

\* The entry of a disk is stale when the spec has another name for what is at the
\* disk's target.  One that shows no disk yet has no UUID to find it by.
SameTarget(p, q) == (IsBoot(p) /\ IsBoot(q)) \/ (~IsBoot(p) /\ ~IsBoot(q) /\ p[1] = q[1])
StaleEntries(m) ==
  {e \in m.managed : \E p \in Disks, q \in SpecPairs(m) :
     /\ p[1] = e[1] /\ e[2] # "basic" /\ SameTarget(p, q)
     /\ q[1] # e[1] \/ e[2] = "detaching"}

\* The entry of the boot disk stays when the disk has become an FCD, as a managed one.
BootRetagged(m) ==
  {<<p[1], "attached">> : p \in {q \in SpecPairs(m) : m.classic /\ boot = "fcd" /\ IsBoot(q)}}

\* What the controller finds in vSphere goes into the status, locked on the version
\* it read: only a write on the latest version comes through.  Stale entries are
\* removed, the boot disk is added while it is a classic disk, and removed when it
\* is gone.
FromVSphere(m) ==
  [m EXCEPT !.id = TRUE, !.hw = TRUE, !.ctls = ctls, !.classic = (boot = "classic"),
            !.managed = (@ \ StaleEntries(m)) \cup BootRetagged(m)]

UpdateStatus ==
  /\ ~vmStale
  /\ LET m == FromVSphere(vm) IN m # vm /\ WriteVM(m)
  /\ rec' = [rec EXCEPT !.current = FALSE]
  /\ UNCHANGED <<legacy, batchVars, pvc, vsphere, queue, steady, budget>>

-----------------------------------------------------------------------------
(* The volume controller. *)

\* Attachments that CSI has refused are kept.
AttachmentsToDeleteBySpec(m, old) ==
  {v \in Vols : old[v].st # "none" /\ m.spec[v] # old[v].claim}

\* Legacy attachments are deleted that the spec does not ask for, or that CSI has
\* refused to attach.
AttachmentsToDelete(m, old) ==
  {v \in Vols : /\ old[v].st # "none"
                /\ m.spec[v] # old[v].claim \/ old[v].at = "refused"}

\* deleteOrphanedAttachments: those not being deleted yet are, but the ones where
\* that fails.
Orphans(m, old) == {v \in AttachmentsToDelete(m, old) : old[v].st = "live"}
DeleteOrphanedAttachments(failed) ==
  legacy' = [v \in Vols |-> IF v \in Orphans(vmCache, legacy) \ failed
                            THEN [legacy[v] EXCEPT !.st = "deleting"] ELSE legacy[v]]

\* A reconcile leaves a VM alone that is paused or has no identifiers yet.  Otherwise
\* it reads the legacy attachments and deletes the orphans; it goes on where that fails.
Reconcile ==
  /\ rec.pc = "idle" /\ queue /\ queue' = FALSE
  /\ \/ (vmCache.paused \/ ~vmCache.id) /\ UNCHANGED <<legacy, rec, budget>>
     \/ /\ ~vmCache.paused /\ vmCache.id
        /\ \E failed \in SUBSET Orphans(vmCache, legacy) :
             /\ IF failed = {} THEN UNCHANGED budget ELSE Fault
             /\ DeleteOrphanedAttachments(failed)
             /\ rec' = [NotRunning EXCEPT !.pc = "process", !.base = vmCache, !.old = legacy,
                                          !.current = ~vmStale, !.err = failed # {}]
  /\ UNCHANGED <<vmVars, batchVars, pvc, vsphere, steady>>

\* An attachment being deleted is taken for deleted.
CategorizeVolumeSpecsEarly(m, old) ==
  {p \in SpecPairs(m) : old[p[1]].claim # p[2] \/ old[p[1]].st = "deleting"}

\* The volumes the batch is for: all but those tracked by a legacy attachment.
CategorizeVolumeSpecs(m, old) ==
  {p \in SpecPairs(m) : old[p[1]].claim # p[2]}

\* The PVC of a volume that is not in the batch yet must be bound, or be the one of
\* the boot disk.  One that waits for its first consumer is given a node first;
\* failed: those where that fails.
New(want)  == want \ batchCache.spec
WFFC(want) == {p[2] : p \in {q \in New(want) : pvc[q[2]] = "wffc"}}
Ready(want, failed) ==
  (want \cap batchCache.spec) \cup
  {p \in New(want) : \/ pvc[p[2]] = "bound"
                     \/ p[2] \in Placeholder /\ pvc[p[2]] # "missing" /\ p[2] \notin failed}

\* The error of a missing device controller is overlooked.
WaitingOverlooked(ready) == FALSE

\* buildVolumeSpecs: nothing without hardware in the status, and an error with
\* nothing while one volume waits for its device controller.
Controlled(ready) == {p[1] : p \in {q \in ready : ~IsBoot(q)}} \subseteq rec.base.ctls
Waiting(ready) == rec.base.hw /\ ~Controlled(ready)
BuildVolumeSpecs(ready) == IF rec.base.hw /\ Controlled(ready) THEN ready ELSE {}

\* CreateOrPatch compares with the batch in the cache.  steady holds the pairs that
\* have been in the spec ever since they were put into the batch.
CreateOrUpdateBatchAttachment(specs) ==
  \/ /\ (batchCache.ex /\ batchCache.spec # specs) \/ (~batchCache.ex /\ ~batch.ex)
     /\ batch' = [batch EXCEPT !.ex = TRUE, !.spec = specs] /\ batchStale' = TRUE
     /\ steady' = (steady \cap specs) \cup (IF rec.current THEN specs \ batch.spec ELSE {})
  \/ batchCache.ex /\ batchCache.spec = specs /\ UNCHANGED <<batch, batchStale, steady>>

\* handlePVCWithWFFC: the node of a PVC is the zone of the VM.
SelectNodes(cs) == pvc' = [c \in Claims |-> IF c \in cs THEN "selected" ELSE pvc[c]]

\* The entries of volumes in status.volumes: those of the batch, but not the boot
\* disk while it has its entry as a classic disk, and volumes still to be detached.
Detaching(specs) == {<<v, "detaching">> : v \in Names(batchCache.status) \ Names(specs)}
FromBatch(specs) ==
  {<<p[1], IF p \in batchCache.status THEN "attached" ELSE "basic">> :
     p \in {q \in specs : ~(IsBoot(q) /\ rec.base.classic)}}
  \cup Detaching(specs)

\* The same for volumes with legacy attachments.
DetachingLegacy ==
  {<<v, "detaching">> :
     v \in {u \in AttachmentsToDelete(rec.base, rec.old) :
              /\ rec.base.spec[u] = NoClaim /\ rec.old[u].at = "attached"
              /\ \E s \in {"attached", "detaching"} : <<u, s>> \in rec.base.managed}}
FromLegacy ==
  {<<v, IF rec.old[v].at = "attached" THEN "attached" ELSE "basic">> :
     v \in {u \in Vols : rec.old[u].st # "none" /\ rec.old[u].claim = rec.base.spec[u]}}
  \cup DetachingLegacy

\* An error with one volume does not keep the others out, except that with a device
\* controller missing the batch is left alone, and the error is not retried.  The
\* write fails too when it finds a batch that the cache does not show yet.  Without
\* hardware in the status the code then dereferences a nil pointer: the panic ends
\* the reconcile with an error, and the deferred patch will find nothing changed.
Process ==
  /\ rec.pc = "process"
  /\ LET want == CategorizeVolumeSpecs(rec.base, rec.old)
     IN  \/ \E failed \in SUBSET WFFC(want), refused \in BOOLEAN :
              LET ready   == Ready(want, failed)
                  wait    == Waiting(ready)
                  specs   == IF wait THEN batchCache.spec ELSE BuildVolumeSpecs(ready)
                  missing == \E p \in New(want) : pvc[p[2]] = "missing"
                  kept    == wait \/ refused \/ (~batchCache.ex /\ batch.ex)
              IN  /\ refused => ~wait
                  /\ IF failed = {} /\ ~refused THEN UNCHANGED budget ELSE Fault
                  /\ SelectNodes(WFFC(want) \ failed)
                  /\ IF kept THEN UNCHANGED <<batch, batchStale, steady>>
                     ELSE CreateOrUpdateBatchAttachment(specs)
                  /\ rec' = [NotRunning EXCEPT
                       !.pc = "patch", !.base = rec.base, !.current = rec.current, !.term = wait,
                       !.err = rec.err \/ failed # {} \/ missing \/ kept \/ ~rec.base.hw,
                       !.managed = IF rec.base.hw THEN FromBatch(specs) \cup FromLegacy
                                   ELSE rec.base.managed]
                  /\ UNCHANGED queue
         \/ \* the hardware version cannot be read, or is too old
            /\ ~batchCache.ex /\ want # {} /\ Fault
            /\ rec' = NotRunning /\ queue' = TRUE
            /\ UNCHANGED <<pvc, batch, batchStale, steady>>
  /\ UNCHANGED <<vmVars, legacy, batchCache, vsphere>>

\* ResultFromError: a NoRequeueError among the errors makes them all terminal, and
\* then an error of the deferred patch is only logged.
Retried(patched) == ~rec.term /\ (rec.err \/ ~patched)

\* The patch is sent without a lock.
PatchStatusUnlocked ==
  /\ rec.pc = "patch" /\ rec' = NotRunning /\ queue' = TRUE
  /\ WriteVM([vm EXCEPT !.managed = rec.managed, !.classic = rec.base.classic])
  /\ UNCHANGED <<legacy, batchVars, pvc, vsphere, steady, budget>>

\* The deferred patch is sent, unless nothing has changed.
PatchStatus ==
  /\ rec.pc = "patch"
  /\ LET same == rec.managed = rec.base.managed
     IN  /\ IF same \/ ~rec.current THEN UNCHANGED vmVars
            ELSE WriteVM([rec.base EXCEPT !.managed = rec.managed])
         /\ queue' = (queue \/ Retried(same \/ rec.current))
  /\ rec' = NotRunning
  /\ UNCHANGED <<legacy, batchVars, pvc, vsphere, steady, budget>>

VolumeController ==
  Reconcile \/ Process \/ PatchStatus

\* Steps of the surroundings that are never undone.
Forward == \/ \E v \in Vols : AddController(v) \/ CSILegacy(v)
           \/ \E c \in Claims : Claim(c)

Next ==
  \/ VolumeController \/ UpdateStatus \/ VMEvent \/ BatchEvent \/ Resync
  \/ CSIBatch \/ Forward \/ Pause \/ \E v \in Vols : Edit(v)

\* The controllers' workers go on, informers deliver and resync, and CSI and
\* vSphere do what they are asked to.
Fairness ==
  /\ WF_vars(VolumeController) /\ WF_vars(UpdateStatus)
  /\ WF_vars(VMEvent) /\ WF_vars(BatchEvent) /\ WF_vars(Resync)
  /\ WF_vars(CSIBatch) /\ WF_vars(Forward)

Spec     == Init /\ [][Next]_vars
FairSpec == Spec /\ Fairness

-----------------------------------------------------------------------------
(* Properties. *)

\* A volume with its claim is never tracked by a legacy attachment and by the
\* batch: they would both attach the same disk, and detach it under each other.
TrackedOnce == \A p \in batch.spec : legacy[p[1]].claim # p[2]

\* A volume that the user has kept in the spec since it was put into the batch is
\* not taken out of it, whatever is missing, stale or failing for the others.
NoSpuriousDetach == [][\A p \in steady : p \in SpecPairs(vm') => p \in batch'.spec]_vars

\* Both controllers replace the whole of status.volumes; neither loses the entry of
\* the boot disk, which only the VirtualMachine controller adds, before the disk has
\* become an FCD.
ClassicKept == [][vm.classic /\ boot = "classic" => vm'.classic]_vars

\* Once the user makes no more edits, every volume of the spec is attached, by its
\* legacy attachment or by the batch, nothing else is, and the status says so; if
\* the VM is not paused.
Settled ==
  /\ batch.status = batch.spec
  /\ vm.classic <=> boot = "classic"
  /\ \A v \in Vols :
       IF vm.spec[v] = NoClaim
       THEN legacy[v] = NoLegacy /\ v \notin Names(batch.spec) \cup Names(vm.managed)
       ELSE /\ \/ legacy[v].claim = vm.spec[v] /\ legacy[v].st = "live" /\ legacy[v].at = "attached"
               \/ <<v, vm.spec[v]>> \in batch.spec
            /\ {s \in Shown : <<v, s>> \in vm.managed} = {"attached"}
VolumesSettle == <>[](Settled \/ vm.paused)

-----------------------------------------------------------------------------
(* What makes the properties above inductive. *)

\* A cached copy that is not stale, and a copy in a reconcile that nobody has written
\* past, is the VM as it is.
CopiesCurrent ==
  /\ ~vmStale => vmCache = vm
  /\ rec.pc # "idle" /\ rec.current => rec.base = vm /\ ~vmStale

\* A volume is in a batch only if its PVC is bound, or is the boot disk's and needs
\* no node any more.
Settling(c) == pvc[c] = "bound" \/ (c \in Placeholder /\ pvc[c] = "selected")
BatchBound == \A p \in batch.spec \cup batchCache.spec : Settling(p[2])

\* A legacy attachment that a reconcile has read may go, and none takes its place.
LegacyOnlyGoes ==
  rec.pc = "process" => \A v \in Vols : legacy[v].claim \in {rec.old[v].claim, NoClaim}

\* Whatever copy of the VM there is shows a steady volume, and hardware.
Shows(m, p) == m.hw /\ m.spec[p[1]] = p[2]

SteadyKept ==
  \A p \in steady :
    /\ p \in batch.spec /\ Shows(vm, p) /\ Shows(vmCache, p)
    /\ rec.pc = "process" => Shows(rec.base, p) /\ rec.old[p[1]].claim # p[2]

Inductive == TypeOK /\ TrackedOnce /\ CopiesCurrent /\ BatchBound /\ LegacyOnlyGoes /\ SteadyKept
=============================================================================
