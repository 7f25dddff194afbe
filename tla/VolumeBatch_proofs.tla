------------------------- MODULE VolumeBatch_proofs -------------------------
(***************************************************************************)
(* Proofs about VolumeBatch, for any volumes and claims, and any number of *)
(* edits and faults.                                                       *)
(***************************************************************************)
EXTENDS VolumeBatch, TLAPS

-----------------------------------------------------------------------------
(* The types. *)

LEMMA NotRunningType ==
  /\ NotRunning \in Rec /\ NotRunning.pc = "idle"
  /\ \A spec \in [Vols -> Claims \cup {NoClaim}], old \in BOOLEAN :
       /\ NewMachine(spec, old) \in Machine
       /\ NewMachine(spec, old).spec = spec
<1>1. \A spec \in [Vols -> Claims \cup {NoClaim}], old \in BOOLEAN :
        NewMachine(spec, old) \in Machine /\ NewMachine(spec, old).spec = spec
  BY DEF NewMachine, Machine
<1>2. Blank \in Machine
  BY <1>1 DEF Blank
<1>3. NoLegacy \in Legacy
  BY DEF NoLegacy, Legacy
<1> QED
  BY <1>1, <1>2, <1>3 DEF NotRunning, Rec

\* A fault is counted within its bound.
LEMMA FaultType ==
  ASSUME TypeOK, Fault \/ UNCHANGED budget
  PROVE  faults' \in 0..MaxFaults /\ edits' = edits
BY VolumeAssumption DEF Fault, TypeOK, budget

\* A reconcile whose VM is written goes on, out of date.
LEMMA RecOutdated ==
  ASSUME rec \in Rec
  PROVE  LET w == [rec EXCEPT !.current = FALSE] IN
         w \in Rec /\ ~w.current /\ w.pc = rec.pc /\ w.base = rec.base /\ w.old = rec.old
BY DEF Rec

\* A volume of the spec, with its claim.
LEMMA SpecPairsType ==
  ASSUME NEW m \in Machine
  PROVE  SpecPairs(m) = {p \in Pairs : m.spec[p[1]] = p[2]}
<1>1. m.spec \in [Vols -> Claims \cup {NoClaim}]
  BY DEF Machine
<1> QED
  BY <1>1, VolumeAssumption DEF SpecPairs, Pairs

\* What the VirtualMachine controller writes leaves the spec alone.
LEMMA FromVSphereType ==
  ASSUME TypeOK
  PROVE  /\ FromVSphere(vm) \in Machine /\ FromVSphere(vm).spec = vm.spec /\ FromVSphere(vm).hw
         /\ FromVSphere(vm).classic = (boot = "classic")
<1> DEFINE entries == (vm.managed \ StaleEntries(vm)) \cup BootRetagged(vm)
<1>1. vm \in Machine /\ ctls \subseteq Vols
  BY DEF TypeOK
<1>2. entries \subseteq Entries
  <2>1. SpecPairs(vm) \subseteq Pairs
    BY <1>1, SpecPairsType
  <2>2. BootRetagged(vm) \subseteq Entries
    BY <2>1 DEF BootRetagged, Entries, Pairs, Shown
  <2> QED
    BY <1>1, <2>2 DEF Machine
<1> HIDE DEF entries
<1>3. FromVSphere(vm) = [vm EXCEPT !.id = TRUE, !.hw = TRUE, !.ctls = ctls,
                                   !.classic = (boot = "classic"), !.managed = entries]
  BY DEF FromVSphere, entries
<1> QED
  BY <1>1, <1>2, <1>3 DEF Machine

\* What CSI does to the batch is not in its spec.
LEMMA CSIBatchEffect ==
  ASSUME TypeOK, CSIBatch
  PROVE  batch' \in Batch /\ batch'.spec = batch.spec /\ boot' \in {"classic", "fcd", "gone"}
<1>0. batch \in Batch /\ boot \in {"classic", "fcd", "gone"}
  BY DEF TypeOK
<1>1. PICK p \in batch.spec \cup batch.status :
        /\ batch' = [batch EXCEPT !.status = @ \cup {p}] \/ batch' = [batch EXCEPT !.status = @ \ {p}]
        /\ boot' \in {boot, "fcd", "gone"}
  BY DEF CSIBatch
<1> QED
  BY <1>0, <1>1 DEF Batch

\* The steps of users, CSI, vSphere, informers and the VirtualMachine controller.
LEMMA TypeOthers ==
  ASSUME TypeOK, UpdateStatus \/ VMEvent \/ BatchEvent \/ Resync \/ CSIBatch \/ Forward \/ Pause
                 \/ \E v \in Vols : Edit(v)
  PROVE  TypeOK'
<1>0. vm \in Machine /\ rec \in Rec /\ ctls \subseteq Vols /\ batch \in Batch /\ legacy \in [Vols -> Legacy]
  BY DEF TypeOK
<1>1. CASE UpdateStatus
  <2>1. vm' \in Machine /\ vmStale' = TRUE /\ UNCHANGED vmCache
    BY <1>1, FromVSphereType DEF UpdateStatus, WriteVM
  <2>2. rec' \in Rec
    BY <1>0, <1>1, RecOutdated DEF UpdateStatus
  <2> QED
    BY <1>1, <2>1, <2>2 DEF UpdateStatus, TypeOK, batchVars, vsphere, budget
<1>2. CASE VMEvent \/ BatchEvent \/ Resync
  BY <1>2 DEF VMEvent, BatchEvent, Resync, TypeOK, vmVars, batchVars, vsphere, budget
<1>3. CASE CSIBatch
  BY <1>3, CSIBatchEffect DEF CSIBatch, TypeOK, vmVars, budget
<1>4. ASSUME NEW v \in Vols, AddController(v) \/ CSILegacy(v) PROVE TypeOK'
  <2>1. legacy' \in [Vols -> Legacy] /\ ctls' \subseteq Vols
    <3>1. NoLegacy \in Legacy /\ [legacy[v] EXCEPT !.at = "refused"] \in Legacy
      BY <1>0 DEF NoLegacy, Legacy
    <3> QED
      BY <1>0, <1>4, <3>1 DEF AddController, CSILegacy, vsphere
  <2> QED
    BY <1>4, <2>1 DEF AddController, CSILegacy, TypeOK, vmVars, batchVars, vsphere, budget
<1>5. ASSUME NEW c \in Claims, Claim(c) PROVE TypeOK'
  BY <1>5 DEF Claim, TypeOK, vmVars, batchVars, budget
<1>6. ASSUME NEW v \in Vols, Edit(v) PROVE TypeOK'
  <2>1. vm' \in Machine
    <3>1. PICK c \in Claims \cup {NoClaim} : vm' = [vm EXCEPT !.spec = [vm.spec EXCEPT ![v] = c]]
      BY <1>6, VolumeAssumption DEF Edit, WriteVM
    <3>2. [vm.spec EXCEPT ![v] = c] \in [Vols -> Claims \cup {NoClaim}]
      BY <1>0 DEF Machine
    <3> QED
      BY <1>0, <3>1, <3>2 DEF Machine
  <2>2. steady' \subseteq steady /\ vmStale' = TRUE /\ UNCHANGED vmCache
    BY <1>6 DEF Edit, WriteVM
  <2>3. edits' \in 0..MaxEdits /\ faults' = faults
    BY <1>6, VolumeAssumption DEF Edit, TypeOK
  <2>4. rec' \in Rec
    BY <1>0, <1>6, RecOutdated DEF Edit
  <2> QED
    BY <1>6, <2>1, <2>2, <2>3, <2>4 DEF Edit, TypeOK, batchVars, vsphere
<1>7. CASE Pause
  <2>1. vm' \in Machine /\ vmStale' = TRUE /\ UNCHANGED vmCache
    BY <1>0, <1>7 DEF Pause, WriteVM, Machine
  <2>2. edits' \in 0..MaxEdits /\ faults' = faults
    BY <1>7, VolumeAssumption DEF Pause, TypeOK
  <2>3. rec' \in Rec
    BY <1>0, <1>7, RecOutdated DEF Pause
  <2> QED
    BY <1>7, <2>1, <2>2, <2>3 DEF Pause, TypeOK, batchVars, vsphere
<1> QED
  BY <1>1, <1>2, <1>3, <1>4, <1>5, <1>6, <1>7 DEF Forward

\* What Reconcile reads.
LEMMA ReconcileEffect ==
  ASSUME TypeOK, Reconcile
  PROVE  /\ legacy' \in [Vols -> Legacy] /\ rec' \in Rec /\ faults' \in 0..MaxFaults /\ edits' = edits
         /\ \A v \in Vols : legacy'[v].claim = legacy[v].claim
         /\ \/ rec' = rec
            \/ /\ rec'.pc = "process" /\ rec'.base = vmCache /\ rec'.old = legacy
               /\ rec'.current = ~vmStale
<1>0. legacy \in [Vols -> Legacy] /\ rec \in Rec /\ vmCache \in Machine /\ vmStale \in BOOLEAN
  BY DEF TypeOK
<1>1. CASE UNCHANGED <<legacy, rec, budget>>
  BY <1>0, <1>1, FaultType
<1>2. CASE ~UNCHANGED <<legacy, rec, budget>>
  <2> DEFINE todo == Orphans(vmCache, legacy)
  <2>1. PICK failed \in SUBSET todo :
          /\ IF failed = {} THEN UNCHANGED budget ELSE Fault
          /\ legacy' = [v \in Vols |-> IF v \in todo \ failed
                          THEN [legacy[v] EXCEPT !.st = "deleting"] ELSE legacy[v]]
          /\ rec' = [NotRunning EXCEPT !.pc = "process", !.base = vmCache, !.old = legacy,
                                       !.current = ~vmStale, !.err = failed # {}]
    BY <1>2, Zenon DEF Reconcile, DeleteOrphanedAttachments
  <2>2. faults' \in 0..MaxFaults /\ edits' = edits
    BY <2>1, FaultType
  <2>3. \A v \in Vols : /\ [legacy[v] EXCEPT !.st = "deleting"] \in Legacy
                        /\ [legacy[v] EXCEPT !.st = "deleting"].claim = legacy[v].claim
    BY <1>0 DEF Legacy
  <2> HIDE DEF todo
  <2>4. legacy' \in [Vols -> Legacy] /\ \A v \in Vols : legacy'[v].claim = legacy[v].claim
    BY <1>0, <2>1, <2>3
  <2>5. /\ rec' \in Rec /\ rec'.pc = "process" /\ rec'.base = vmCache /\ rec'.old = legacy
        /\ rec'.current = ~vmStale
    BY <1>0, <2>1, NotRunningType DEF Rec
  <2> QED
    BY <2>2, <2>4, <2>5
<1> QED
  BY <1>1, <1>2 DEF Reconcile

\* The volumes the reconcile finds ready for the batch.
Wanted        == CategorizeVolumeSpecs(rec.base, rec.old)
Found(failed) == Ready(Wanted, failed)

LEMMA FoundPairs ==
  ASSUME TypeOK, NEW failed
  PROVE  /\ Found(failed) \subseteq Wanted /\ Wanted \subseteq Pairs
         /\ \A p \in Wanted : rec.base.spec[p[1]] = p[2] /\ rec.old[p[1]].claim # p[2]
         /\ \A p \in Pairs : rec.base.spec[p[1]] = p[2] /\ rec.old[p[1]].claim # p[2] => p \in Wanted
         /\ BuildVolumeSpecs(Found(failed)) \subseteq Found(failed)
<1>1. SpecPairs(rec.base) = {p \in Pairs : rec.base.spec[p[1]] = p[2]}
  BY SpecPairsType DEF TypeOK, Rec
<1> QED
  BY <1>1 DEF Found, Wanted, Ready, New, CategorizeVolumeSpecs, BuildVolumeSpecs

\* The entries of status.volumes.
LEMMA ManagedType ==
  ASSUME TypeOK, NEW specs \in SUBSET Pairs
  PROVE  FromBatch(specs) \cup FromLegacy \subseteq Entries
<1>1. batchCache.status \subseteq Pairs
  BY DEF TypeOK, Batch
<1>2. FromBatch(specs) \subseteq Entries
  BY <1>1 DEF FromBatch, Detaching, Names, Pairs, Entries, Shown
<1>3. FromLegacy \subseteq Entries
  <2> DEFINE kept == {u \in Vols : rec.old[u].st # "none" /\ rec.old[u].claim = rec.base.spec[u]}
             going == {u \in AttachmentsToDelete(rec.base, rec.old) :
                         /\ rec.base.spec[u] = NoClaim /\ rec.old[u].at = "attached"
                         /\ \E s \in {"attached", "detaching"} : <<u, s>> \in rec.base.managed}
             how(v) == IF rec.old[v].at = "attached" THEN "attached" ELSE "basic"
  <2>1. kept \subseteq Vols /\ going \subseteq Vols
    BY DEF AttachmentsToDelete
  <2>2. \A v \in Vols : how(v) \in Shown /\ "detaching" \in Shown
    BY DEF Shown
  <2>3. FromLegacy = {<<v, how(v)>> : v \in kept} \cup {<<v, "detaching">> : v \in going}
    BY Zenon DEF FromLegacy, DetachingLegacy
  <2> HIDE DEF kept, going, how
  <2> QED
    BY <2>1, <2>2, <2>3 DEF Entries
<1> QED
  BY <1>2, <1>3

\* What Process writes: the batch, when it does, is made of what it has found ready.
LEMMA ProcessEffect ==
  ASSUME TypeOK, Process
  PROVE  /\ pvc' \in [Claims -> {"missing", "wffc", "selected", "bound"}]
         /\ \A c \in Claims : Settling(c) => Settling(c)'
         /\ rec' \in Rec /\ faults' \in 0..MaxFaults /\ edits' = edits /\ queue' \in BOOLEAN
         /\ \/ rec'.pc = "idle"
            \/ rec'.pc = "patch" /\ rec'.base = rec.base /\ rec'.current = rec.current
         /\ \/ UNCHANGED <<batch, batchStale, steady>>
            \/ \E failed \in SUBSET WFFC(Wanted) :
                 LET specs == BuildVolumeSpecs(Found(failed)) IN
                 /\ ~Waiting(Found(failed)) /\ SelectNodes(WFFC(Wanted) \ failed)
                 /\ batch' = [batch EXCEPT !.ex = TRUE, !.spec = specs] /\ batchStale' = TRUE
                 /\ steady' = (steady \cap specs) \cup (IF rec.current THEN specs \ batch.spec ELSE {})
<1>0. /\ rec \in Rec /\ batchCache \in Batch /\ pvc \in [Claims -> {"missing", "wffc", "selected", "bound"}]
      /\ queue \in BOOLEAN
  BY DEF TypeOK
<1>1. CASE /\ Fault /\ rec' = NotRunning /\ queue' = TRUE
           /\ UNCHANGED <<pvc, batch, batchStale, steady>>
  BY <1>0, <1>1, FaultType, NotRunningType DEF Settling
<1>2. CASE ~(/\ Fault /\ rec' = NotRunning /\ queue' = TRUE
             /\ UNCHANGED <<pvc, batch, batchStale, steady>>)
  <2> DEFINE specs(failed) == IF Waiting(Found(failed)) THEN batchCache.spec ELSE BuildVolumeSpecs(Found(failed))
             missing == \E p \in New(Wanted) : pvc[p[2]] = "missing"
             kept(failed, refused) == Waiting(Found(failed)) \/ refused \/ (~batchCache.ex /\ batch.ex)
             error(failed, refused) == rec.err \/ failed # {} \/ missing \/ kept(failed, refused) \/ ~rec.base.hw
             entries(failed) == IF rec.base.hw THEN FromBatch(specs(failed)) \cup FromLegacy ELSE rec.base.managed
  <2>1. PICK failed \in SUBSET WFFC(Wanted), refused \in BOOLEAN :
          /\ IF failed = {} /\ ~refused THEN UNCHANGED budget ELSE Fault
          /\ SelectNodes(WFFC(Wanted) \ failed)
          /\ IF kept(failed, refused) THEN UNCHANGED <<batch, batchStale, steady>>
             ELSE CreateOrUpdateBatchAttachment(specs(failed))
          /\ rec' = [NotRunning EXCEPT
               !.pc = "patch", !.base = rec.base, !.current = rec.current,
               !.term = Waiting(Found(failed)), !.err = error(failed, refused), !.managed = entries(failed)]
          /\ UNCHANGED queue
    BY <1>2, Zenon DEF Process, Wanted, Found
  <2>2. faults' \in 0..MaxFaults /\ edits' = edits /\ queue' \in BOOLEAN
    BY <1>0, <2>1, FaultType
  <2>3. /\ pvc' \in [Claims -> {"missing", "wffc", "selected", "bound"}]
        /\ \A c \in Claims : Settling(c) => Settling(c)'
    <3>1. \A c \in WFFC(Wanted) : pvc[c] = "wffc"
      BY DEF WFFC
    <3> QED
      BY <1>0, <2>1, <3>1 DEF SelectNodes, Settling
  <2>4. specs(failed) \subseteq Pairs
    BY <1>0, FoundPairs DEF Batch
  <2>5. entries(failed) \in SUBSET Entries
    <3>1. rec.base.managed \subseteq Entries
      BY <1>0 DEF Rec, Machine
    <3>2. FromBatch(specs(failed)) \cup FromLegacy \subseteq Entries
      BY <2>4, ManagedType
    <3> QED
      BY <3>1, <3>2
  <2>6. error(failed, refused) \in BOOLEAN /\ Waiting(Found(failed)) \in BOOLEAN
    BY DEF Waiting
  <2>7. rec' \in Rec /\ rec'.pc = "patch" /\ rec'.base = rec.base /\ rec'.current = rec.current
    <3> DEFINE w == Waiting(Found(failed))  e == error(failed, refused)  m == entries(failed)
    <3>1. w \in BOOLEAN /\ e \in BOOLEAN /\ m \in SUBSET Entries
      BY <2>5, <2>6
    <3>2. rec' = [NotRunning EXCEPT !.pc = "patch", !.base = rec.base, !.current = rec.current,
                                    !.term = w, !.err = e, !.managed = m]
      BY <2>1
    <3> HIDE DEF w, e, m
    <3> QED
      BY <1>0, <3>1, <3>2, NotRunningType DEF Rec
  <2>8. \/ UNCHANGED <<batch, batchStale, steady>>
        \/ /\ ~Waiting(Found(failed)) /\ CreateOrUpdateBatchAttachment(BuildVolumeSpecs(Found(failed)))
    BY <2>1
  <2>9. \/ UNCHANGED <<batch, batchStale, steady>>
        \/ \E f \in SUBSET WFFC(Wanted) :
             LET sp == BuildVolumeSpecs(Found(f)) IN
             /\ ~Waiting(Found(f)) /\ SelectNodes(WFFC(Wanted) \ f)
             /\ batch' = [batch EXCEPT !.ex = TRUE, !.spec = sp] /\ batchStale' = TRUE
             /\ steady' = (steady \cap sp) \cup (IF rec.current THEN sp \ batch.spec ELSE {})
    <3> HIDE DEF specs, missing, kept, error, entries
    <3>1. CASE UNCHANGED <<batch, batchStale, steady>>
      BY <3>1
    <3>2. CASE ~UNCHANGED <<batch, batchStale, steady>>
      <4>1. LET sp == BuildVolumeSpecs(Found(failed)) IN
            /\ ~Waiting(Found(failed)) /\ SelectNodes(WFFC(Wanted) \ failed)
            /\ batch' = [batch EXCEPT !.ex = TRUE, !.spec = sp] /\ batchStale' = TRUE
            /\ steady' = (steady \cap sp) \cup (IF rec.current THEN sp \ batch.spec ELSE {})
        BY <2>1, <2>8, <3>2, Zenon DEF CreateOrUpdateBatchAttachment
      <4> QED
        BY <4>1
    <3> QED
      BY <3>1, <3>2
  <2> HIDE DEF specs, missing, kept, error, entries
  <2> QED
    BY <2>2, <2>3, <2>7, <2>9, Zenon
<1> QED
  BY <1>1, <1>2, Zenon

\* What PatchStatus writes: the VM as it was read, with other entries of volumes.
LEMMA PatchEffect ==
  ASSUME TypeOK, PatchStatus
  PROVE  /\ rec' = NotRunning /\ queue' \in BOOLEAN /\ vmCache' = vmCache
         /\ \/ UNCHANGED <<vm, vmStale>>
            \/ /\ rec.current /\ vm' \in Machine /\ vmStale' = TRUE
               /\ vm'.spec = rec.base.spec /\ vm'.hw = rec.base.hw /\ vm'.classic = rec.base.classic
<1> DEFINE after == [rec.base EXCEPT !.managed = rec.managed]
           same  == rec.managed = rec.base.managed
<1>0. rec.base \in Machine /\ rec.managed \subseteq Entries /\ queue \in BOOLEAN
  BY DEF TypeOK, Rec
<1>1. /\ after \in Machine /\ after.spec = rec.base.spec /\ after.hw = rec.base.hw
      /\ after.classic = rec.base.classic
  BY <1>0 DEF Machine
<1>2. /\ IF same \/ ~rec.current THEN UNCHANGED vmVars ELSE WriteVM(after)
      /\ queue' = (queue \/ Retried(same \/ rec.current)) /\ rec' = NotRunning
  BY DEF PatchStatus
<1>3. queue' \in BOOLEAN
  BY <1>2
<1> HIDE DEF after, same
<1> QED
  BY <1>1, <1>2, <1>3 DEF WriteVM, vmVars

\* The volume controller keeps the types.
LEMMA TypeNext ==
  ASSUME TypeOK, [Next]_vars
  PROVE  TypeOK'
<1>1. CASE Reconcile
  <2>1. UNCHANGED <<vm, vmCache, vmStale, batch, batchCache, batchStale, pvc, ctls, boot, steady>> /\ queue' = FALSE
    BY <1>1 DEF Reconcile, vmVars, batchVars, vsphere
  <2> QED
    BY <1>1, <2>1, ReconcileEffect DEF TypeOK
<1>2. CASE Process
  <2>1. UNCHANGED <<vm, vmCache, vmStale, legacy, batchCache, ctls, boot>>
    BY <1>2 DEF Process, vmVars, vsphere
  <2>2. batch' \in Batch /\ batchStale' \in BOOLEAN /\ steady' \subseteq Pairs
    <3>1. CASE UNCHANGED <<batch, batchStale, steady>>
      BY <3>1 DEF TypeOK
    <3>2. ASSUME NEW sp \in SUBSET Pairs,
                 batch' = [batch EXCEPT !.ex = TRUE, !.spec = sp], batchStale' = TRUE,
                 steady' = (steady \cap sp) \cup (IF rec.current THEN sp \ batch.spec ELSE {})
          PROVE  batch' \in Batch /\ batchStale' \in BOOLEAN /\ steady' \subseteq Pairs
      BY <3>2 DEF TypeOK, Batch
    <3>3. \A failed : BuildVolumeSpecs(Found(failed)) \in SUBSET Pairs
      BY FoundPairs
    <3> QED
      BY <1>2, <3>1, <3>2, <3>3, ProcessEffect
  <2> QED
    BY <1>2, <2>1, <2>2, ProcessEffect DEF TypeOK
<1>3. CASE PatchStatus
  <2>1. UNCHANGED <<legacy, batch, batchCache, batchStale, pvc, ctls, boot, steady, edits, faults>>
    BY <1>3 DEF PatchStatus, batchVars, vsphere, budget
  <2>2. rec' \in Rec
    BY <1>3, PatchEffect, NotRunningType
  <2> QED
    BY <1>3, <2>1, <2>2, PatchEffect DEF TypeOK
<1>4. CASE UNCHANGED vars
  BY <1>4 DEF vars, vmVars, batchVars, vsphere, budget, TypeOK
<1> QED
  BY <1>1, <1>2, <1>3, <1>4, TypeOthers DEF Next, VolumeController

-----------------------------------------------------------------------------
(* The invariant. *)

\* No step takes the binding of a claim back, or its node.
LEMMA BoundStays ==
  ASSUME TypeOK, [Next]_vars
  PROVE  \A c \in Claims : Settling(c) => Settling(c)'
<1>1. CASE Process
  BY <1>1, ProcessEffect
<1>2. ASSUME NEW c \in Claims, Claim(c) PROVE \A d \in Claims : Settling(d) => Settling(d)'
  BY <1>2 DEF Claim, TypeOK, Settling
<1>3. CASE ~Process /\ ~\E c \in Claims : Claim(c)
  <2>1. UNCHANGED pvc
    BY <1>3 DEF Next, VolumeController, Forward, Reconcile, PatchStatus, UpdateStatus, VMEvent, BatchEvent,
                Resync, CSIBatch, AddController, CSILegacy, Edit, Pause, vars
  <2> QED
    BY <2>1 DEF Settling
<1> QED
  BY <1>1, <1>2, <1>3

\* No claim gets a legacy attachment.
LEMMA LegacyGoes ==
  ASSUME TypeOK, [Next]_vars, NEW v \in Vols
  PROVE  legacy'[v].claim \in {legacy[v].claim, NoClaim}
<1>1. CASE Reconcile
  BY <1>1, ReconcileEffect
<1>2. ASSUME NEW u \in Vols, CSILegacy(u) PROVE legacy'[v].claim \in {legacy[v].claim, NoClaim}
  <2>1. legacy \in [Vols -> Legacy] /\ [legacy[u] EXCEPT !.at = "refused"].claim = legacy[u].claim
    BY DEF TypeOK, Legacy
  <2>2. legacy' = [legacy EXCEPT ![u] = [legacy[u] EXCEPT !.at = "refused"]] \/ legacy' = [legacy EXCEPT ![u] = NoLegacy]
    BY <1>2, <2>1 DEF CSILegacy
  <2> DEFINE x == [legacy[u] EXCEPT !.at = "refused"]
  <2>3. NoLegacy.claim = NoClaim /\ x.claim = legacy[u].claim
    BY <2>1 DEF NoLegacy
  <2>4. legacy' = [legacy EXCEPT ![u] = x] \/ legacy' = [legacy EXCEPT ![u] = NoLegacy]
    BY <2>2
  <2> HIDE DEF x
  <2>5. IF v = u THEN legacy'[v] \in {x, NoLegacy} ELSE legacy'[v] = legacy[v]
    BY <2>1, <2>4
  <2> QED
    BY <2>3, <2>5
<1>3. CASE ~Reconcile /\ ~\E u \in Vols : CSILegacy(u)
  <2>1. UNCHANGED legacy
    BY <1>3 DEF Next, VolumeController, Forward, Process, PatchStatus, UpdateStatus, VMEvent, BatchEvent,
                Resync, CSIBatch, AddController, Claim, Edit, Pause, vars
  <2> QED
    BY <2>1
<1> QED
  BY <1>1, <1>2, <1>3

\* The volumes of the batch change only in Process.
LEMMA BatchSpecKept ==
  ASSUME TypeOK, [Next]_vars, ~Process
  PROVE  batch'.spec = batch.spec /\ batchCache'.spec \in {batchCache.spec, batch.spec}
<1>1. CASE CSIBatch
  BY <1>1, CSIBatchEffect DEF CSIBatch
<1>2. CASE ~CSIBatch
  <2>1. UNCHANGED batch /\ (UNCHANGED batchCache \/ batchCache' = batch)
    BY <1>2 DEF Next, VolumeController, Forward, Reconcile, PatchStatus, UpdateStatus, VMEvent, BatchEvent,
                Resync, CSILegacy, AddController, Claim, Edit, Pause, vars, batchVars
  <2> QED
    BY <2>1
<1> QED
  BY <1>1, <1>2

\* A volume that Process puts into the batch has no legacy attachment, and its claim is
\* bound, or the boot disk's and given its node, if it needs one.
LEMMA FoundSound ==
  ASSUME Inductive, rec.pc = "process", NEW failed \in SUBSET WFFC(Wanted), NEW p \in Found(failed)
  PROVE  /\ p \in Pairs /\ legacy[p[1]].claim # p[2] /\ rec.base.spec[p[1]] = p[2]
         /\ Settling(p[2]) \/ (p[2] \in Placeholder /\ p[2] \in WFFC(Wanted) \ failed)
<1>0. TypeOK
  BY DEF Inductive
<1>1. p \in Wanted /\ p \in Pairs
  BY <1>0, FoundPairs
<1>2. rec.base.spec[p[1]] = p[2] /\ rec.old[p[1]].claim # p[2]
  BY <1>0, <1>1, FoundPairs
<1>3. p[1] \in Vols /\ p[2] \in Claims
  BY <1>1 DEF Pairs
<1>4. legacy[p[1]].claim # p[2]
  BY <1>2, <1>3, VolumeAssumption DEF Inductive, LegacyOnlyGoes
<1>5. \/ p \in batchCache.spec
      \/ /\ p \in New(Wanted)
         /\ pvc[p[2]] = "bound" \/ (p[2] \in Placeholder /\ pvc[p[2]] # "missing" /\ p[2] \notin failed)
  BY DEF Found, Ready
<1>6. pvc[p[2]] \in {"missing", "wffc", "selected", "bound"}
  BY <1>0, <1>3 DEF TypeOK
<1>7. p \in New(Wanted) /\ pvc[p[2]] = "wffc" => p[2] \in WFFC(Wanted)
  BY DEF WFFC
<1> QED
  BY <1>1, <1>2, <1>4, <1>5, <1>6, <1>7 DEF Inductive, BatchBound, Settling

\* A steady volume is among those that Process finds.
LEMMA SteadyFound ==
  ASSUME Inductive, rec.pc = "process", NEW failed \in SUBSET WFFC(Wanted),
         ~Waiting(Found(failed)), NEW p \in steady
  PROVE  p \in BuildVolumeSpecs(Found(failed))
<1>1. p \in Pairs /\ p \in batch.spec /\ Shows(rec.base, p) /\ rec.old[p[1]].claim # p[2] /\ Settling(p[2])
  BY DEF Inductive, SteadyKept, BatchBound, TypeOK
<1>2. p \in Wanted
  BY <1>1, FoundPairs DEF Inductive, Shows
<1>3. p[2] \notin failed
  BY <1>1 DEF WFFC, Settling
<1>4. p \in Found(failed)
  BY <1>1, <1>2, <1>3 DEF Found, Ready, New, Settling
<1> QED
  BY <1>1, <1>4 DEF BuildVolumeSpecs, Waiting, Shows

\* Neither legacy attachments nor the batch come to track what the other does.
LEMMA TrackedNext ==
  ASSUME Inductive, [Next]_vars
  PROVE  TrackedOnce' /\ BatchBound'
<1>0. TypeOK /\ TrackedOnce /\ BatchBound
  BY DEF Inductive
<1>1. \A q \in batch.spec \cup batchCache.spec : q \in Pairs /\ q[1] \in Vols /\ q[2] \in Claims
  BY <1>0 DEF TypeOK, Batch, Pairs
<1>2. ASSUME NEW q \in Pairs, legacy[q[1]].claim # q[2] PROVE legacy'[q[1]].claim # q[2]
  <2>1. q[1] \in Vols /\ q[2] \in Claims
    BY DEF Pairs
  <2> QED
    BY <1>0, <1>2, <2>1, LegacyGoes, VolumeAssumption
<1>3. ASSUME NEW q \in Pairs, Settling(q[2]) PROVE Settling(q[2])'
  BY <1>0, <1>3, BoundStays DEF Pairs
<1>4. CASE ~Process
  <2>1. batch'.spec = batch.spec /\ batchCache'.spec \in {batchCache.spec, batch.spec}
    BY <1>0, <1>4, BatchSpecKept
  <2> QED
    BY <1>0, <1>1, <1>2, <1>3, <2>1 DEF TrackedOnce, BatchBound
<1>5. CASE Process
  <2>1. rec.pc = "process" /\ UNCHANGED batchCache
    BY <1>5 DEF Process
  <2>2. CASE UNCHANGED batch
    BY <1>0, <1>1, <1>2, <1>3, <2>1, <2>2 DEF TrackedOnce, BatchBound
  <2>3. ASSUME NEW failed \in SUBSET WFFC(Wanted), SelectNodes(WFFC(Wanted) \ failed),
               batch' = [batch EXCEPT !.ex = TRUE, !.spec = BuildVolumeSpecs(Found(failed))]
        PROVE  TrackedOnce' /\ BatchBound'
    <3>1. batch'.spec \subseteq Found(failed)
      BY <1>0, <2>3, FoundPairs DEF TypeOK, Batch
    <3>2. ASSUME NEW q \in Found(failed) PROVE q \in Pairs /\ legacy[q[1]].claim # q[2] /\ Settling(q[2])'
      <4>1. /\ q \in Pairs /\ legacy[q[1]].claim # q[2]
            /\ Settling(q[2]) \/ (q[2] \in Placeholder /\ q[2] \in WFFC(Wanted) \ failed)
        BY <2>1, FoundSound
      <4>2. q[2] \in Claims
        BY <4>1 DEF Pairs
      <4>3. CASE q[2] \in Placeholder /\ q[2] \in WFFC(Wanted) \ failed
        BY <2>3, <4>1, <4>2, <4>3 DEF SelectNodes, Settling
      <4> QED
        BY <1>3, <4>1, <4>3
    <3> QED
      BY <1>0, <1>1, <1>2, <1>3, <2>1, <3>1, <3>2 DEF TrackedOnce, BatchBound
  <2> QED
    BY <1>0, <1>5, <2>2, <2>3, ProcessEffect
<1> QED
  BY <1>4, <1>5

\* Outside the volume controller, a reconcile at most gets out of date.
LEMMA RecKept ==
  ASSUME TypeOK, [Next]_vars, ~VolumeController
  PROVE  /\ rec'.pc = rec.pc /\ rec'.base = rec.base /\ rec'.old = rec.old /\ (rec'.current => rec.current)
         /\ UNCHANGED vm \/ ~rec'.current
<1>0. rec \in Rec
  BY DEF TypeOK
<1>1. CASE UpdateStatus \/ Pause \/ \E v \in Vols : Edit(v)
  <2>1. rec' = [rec EXCEPT !.current = FALSE]
    BY <1>1 DEF UpdateStatus, Edit, Pause
  <2> QED
    BY <1>0, <2>1, RecOutdated
<1>2. CASE ~UpdateStatus /\ ~Pause /\ ~\E v \in Vols : Edit(v)
  <2>1. UNCHANGED <<rec, vm>>
    BY <1>2 DEF Next, VMEvent, BatchEvent, Resync, CSIBatch, Forward, AddController, CSILegacy, Claim, vars, vmVars
  <2> QED
    BY <2>1
<1> QED
  BY <1>1, <1>2

\* What a step may write into the VM.
LEMMA VMWrites ==
  ASSUME Inductive, [Next]_vars
  PROVE  /\ vm.hw => vm'.hw
         /\ vm.classic /\ boot = "classic" => vm'.classic
         /\ vm'.spec = vm.spec \/ \E v \in Vols : Edit(v)
         /\ \/ UNCHANGED <<vm, vmCache, vmStale>>
            \/ vmStale' = TRUE /\ UNCHANGED vmCache
            \/ vmStale /\ vmCache' = vm /\ vmStale' = FALSE /\ UNCHANGED <<vm, rec>>
<1>0. TypeOK /\ vm \in Machine /\ rec \in Rec
  BY DEF Inductive, TypeOK
<1>1. CASE UpdateStatus
  <2>1. vm' = FromVSphere(vm) /\ vmStale' = TRUE /\ UNCHANGED vmCache
    BY <1>1 DEF UpdateStatus, WriteVM
  <2> QED
    BY <1>0, <2>1, FromVSphereType
<1>2. ASSUME NEW v \in Vols, Edit(v)
      PROVE  /\ vm'.hw = vm.hw /\ vm'.classic = vm.classic /\ vmStale' = TRUE /\ UNCHANGED vmCache
  <2>1. PICK c \in Claims \cup {NoClaim} :
          vm' = [vm EXCEPT !.spec = [vm.spec EXCEPT ![v] = c]] /\ vmStale' = TRUE /\ UNCHANGED vmCache
    BY <1>2, VolumeAssumption DEF Edit, WriteVM
  <2> QED
    BY <1>0, <2>1 DEF Machine
<1>5. CASE Pause
  BY <1>0, <1>5 DEF Pause, WriteVM, Machine
<1>3. CASE PatchStatus
  <2>1. rec.pc = "patch"
    BY <1>3 DEF PatchStatus
  <2>2. rec.current => rec.base = vm
    BY <2>1 DEF Inductive, CopiesCurrent
  <2> QED
    BY <1>0, <1>3, <2>2, PatchEffect
<1>4. CASE ~UpdateStatus /\ ~PatchStatus /\ ~Pause /\ ~\E v \in Vols : Edit(v)
  <2>1. \/ UNCHANGED <<vm, vmCache, vmStale>>
        \/ vmStale /\ vmCache' = vm /\ vmStale' = FALSE /\ UNCHANGED <<vm, rec>>
    BY <1>4 DEF Next, VolumeController, Reconcile, Process, VMEvent, BatchEvent, Resync, CSIBatch, Forward,
                AddController, CSILegacy, Claim, vars, vmVars
  <2> QED
    BY <2>1
<1> QED
  BY <1>1, <1>2, <1>3, <1>4, <1>5

\* Copies get out of date, never wrong.
LEMMA CopiesNext ==
  ASSUME Inductive, [Next]_vars
  PROVE  CopiesCurrent' /\ LegacyOnlyGoes'
<1>0. TypeOK /\ CopiesCurrent /\ LegacyOnlyGoes
  BY DEF Inductive
<1>1. \A v \in Vols : legacy'[v].claim \in {legacy[v].claim, NoClaim}
  BY <1>0, LegacyGoes
<1>2. CASE Reconcile
  <2>1. UNCHANGED <<vm, vmCache, vmStale>>
    BY <1>2 DEF Reconcile, vmVars
  <2> QED
    BY <1>0, <1>1, <1>2, <2>1, ReconcileEffect DEF CopiesCurrent, LegacyOnlyGoes
<1>3. CASE Process
  <2>1. UNCHANGED <<vm, vmCache, vmStale>> /\ rec.pc = "process"
    BY <1>3 DEF Process, vmVars
  <2> QED
    BY <1>0, <1>3, <2>1, ProcessEffect DEF CopiesCurrent, LegacyOnlyGoes
<1>4. CASE PatchStatus
  BY <1>0, <1>4, PatchEffect, NotRunningType DEF CopiesCurrent, LegacyOnlyGoes
<1>5. CASE ~VolumeController
  <2>1. /\ rec'.pc = rec.pc /\ rec'.base = rec.base /\ rec'.old = rec.old /\ (rec'.current => rec.current)
        /\ UNCHANGED vm \/ ~rec'.current
    BY <1>0, <1>5, RecKept
  <2>2. \/ UNCHANGED <<vm, vmCache, vmStale>>
        \/ vmStale' = TRUE /\ UNCHANGED vmCache
        \/ vmStale /\ vmCache' = vm /\ vmStale' = FALSE /\ UNCHANGED <<vm, rec>>
    BY VMWrites
  <2>3. LegacyOnlyGoes'
    BY <1>0, <1>1, <2>1 DEF LegacyOnlyGoes
  <2>4. vmStale' = TRUE /\ UNCHANGED vmCache => UNCHANGED <<vm, vmCache, vmStale>> \/ ~rec'.current
    BY <1>0, <1>5
    DEF Next, UpdateStatus, VMEvent, BatchEvent, Resync, CSIBatch, Forward, AddController, CSILegacy, Claim,
        Edit, Pause, vars, vmVars, TypeOK, Rec
  <2> QED
    BY <1>0, <2>1, <2>2, <2>3, <2>4 DEF CopiesCurrent
<1> QED
  BY <1>2, <1>3, <1>4, <1>5 DEF VolumeController

\* A steady volume stays in the batch, and every copy of the VM shows it.
LEMMA SteadyNext ==
  ASSUME Inductive, [Next]_vars
  PROVE  SteadyKept' /\ \A p \in steady : p \in SpecPairs(vm') => p \in batch'.spec
<1>0. TypeOK /\ SteadyKept /\ CopiesCurrent /\ TrackedOnce
  BY DEF Inductive
<1>1. CASE Process
  <2>1. UNCHANGED <<vm, vmCache, vmStale>> /\ rec.pc = "process"
    BY <1>1 DEF Process, vmVars
  <2>2. rec'.pc # "process"
    BY <1>0, <1>1, ProcessEffect
  <2>3. CASE UNCHANGED <<batch, batchStale, steady>>
    BY <1>0, <2>1, <2>2, <2>3 DEF SteadyKept, Shows
  <2>4. ASSUME NEW failed \in SUBSET WFFC(Wanted), ~Waiting(Found(failed)),
               batch' = [batch EXCEPT !.ex = TRUE, !.spec = BuildVolumeSpecs(Found(failed))],
               steady' = (steady \cap BuildVolumeSpecs(Found(failed)))
                         \cup (IF rec.current THEN BuildVolumeSpecs(Found(failed)) \ batch.spec ELSE {})
        PROVE  SteadyKept' /\ \A p \in steady : p \in SpecPairs(vm') => p \in batch'.spec
    <3>1. batch'.spec = BuildVolumeSpecs(Found(failed))
      BY <1>0, <2>4 DEF TypeOK, Batch
    <3>2. ASSUME NEW p \in steady' PROVE p \in batch'.spec /\ Shows(vm', p) /\ Shows(vmCache', p)
      <4>1. CASE p \in steady
        BY <1>0, <2>1, <2>4, <3>1, <3>2, <4>1 DEF SteadyKept, Shows
      <4>2. CASE p \notin steady
        <5>1. rec.current /\ p \in BuildVolumeSpecs(Found(failed)) /\ p \in Found(failed)
          BY <1>0, <2>4, <3>2, <4>2, FoundPairs
        <5>2. rec.base = vm /\ vmCache = vm
          BY <1>0, <2>1, <5>1 DEF CopiesCurrent
        <5>3. rec.base.hw
          BY <5>1 DEF BuildVolumeSpecs
        <5>4. rec.base.spec[p[1]] = p[2]
          BY <2>1, <5>1, FoundSound
        <5> QED
          BY <2>1, <3>1, <5>1, <5>2, <5>3, <5>4 DEF Shows
      <4> QED
        BY <4>1, <4>2
    <3>3. \A p \in steady : p \in batch'.spec
      BY <2>1, <2>4, <3>1, SteadyFound
    <3> QED
      BY <2>2, <3>2, <3>3 DEF SteadyKept, Shows
  <2> QED
    BY <1>0, <1>1, <2>3, <2>4, ProcessEffect
<1>2. CASE ~Process
  <2>1. batch'.spec = batch.spec
    BY <1>0, <1>2, BatchSpecKept
  <2>2. steady' \subseteq steady /\ \A p \in steady' : Shows(vm', p)
    <3>1. ASSUME NEW v \in Vols, Edit(v) PROVE steady' \subseteq steady /\ \A p \in steady' : Shows(vm', p)
      <4>1. PICK c \in Claims \cup {NoClaim} :
              /\ vm' = [vm EXCEPT !.spec = [vm.spec EXCEPT ![v] = c]]
              /\ steady' = {p \in steady : [vm.spec EXCEPT ![v] = c][p[1]] = p[2]}
        BY <3>1, VolumeAssumption DEF Edit, WriteVM
      <4>2. vm'.spec = [vm.spec EXCEPT ![v] = c] /\ vm'.hw = vm.hw
        BY <1>0, <4>1 DEF TypeOK, Machine
      <4> QED
        BY <1>0, <4>1, <4>2 DEF SteadyKept, Shows
    <3>2. CASE ~\E v \in Vols : Edit(v)
      <4>1. UNCHANGED steady
        BY <1>2, <3>2
        DEF Next, VolumeController, Reconcile, PatchStatus, UpdateStatus, VMEvent, BatchEvent, Resync, CSIBatch,
            Forward, AddController, CSILegacy, Claim, Pause, vars
      <4>2. vm'.spec = vm.spec /\ (vm.hw => vm'.hw)
        BY <3>2, VMWrites
      <4> QED
        BY <1>0, <4>1, <4>2 DEF SteadyKept, Shows
    <3> QED
      BY <3>1, <3>2
  <2>3. vmCache' = vmCache \/ vmCache' = vm
    BY VMWrites
  <2>4. ASSUME NEW p \in steady', rec'.pc = "process"
        PROVE  Shows(rec'.base, p) /\ rec'.old[p[1]].claim # p[2]
    <3>1. CASE Reconcile
      <4>1. rec.pc = "idle"
        BY <3>1 DEF Reconcile
      <4>2. rec'.base = vmCache /\ rec'.old = legacy
        BY <1>0, <2>4, <3>1, <4>1, ReconcileEffect
      <4>3. p \in batch.spec
        BY <1>0, <2>2 DEF SteadyKept
      <4> QED
        BY <1>0, <2>2, <4>2, <4>3 DEF SteadyKept, TrackedOnce
    <3>2. CASE PatchStatus
      BY <1>0, <2>4, <3>2, PatchEffect, NotRunningType
    <3>3. CASE ~VolumeController
      BY <1>0, <2>2, <2>4, <3>3, RecKept DEF SteadyKept
    <3> QED
      BY <1>2, <3>1, <3>2, <3>3 DEF VolumeController
  <2>5. \A p \in steady' : p \in batch'.spec /\ Shows(vmCache', p)
    BY <1>0, <2>1, <2>2, <2>3 DEF SteadyKept
  <2> QED
    BY <1>0, <2>1, <2>2, <2>4, <2>5 DEF SteadyKept, Shows
<1> QED
  BY <1>1, <1>2

-----------------------------------------------------------------------------
(* The theorems. *)

\* The invariant holds of a new VM, and of one from before batches.
LEMMA InductiveInit ==
  Init => Inductive
<1> SUFFICES ASSUME Init PROVE Inductive
  OBVIOUS
<1>1. vm \in Machine
  <2>1. PICK spec \in {s \in [Vols -> Claims \cup {NoClaim}] : Distinct(s)}, old \in BOOLEAN :
          vm = NewMachine(spec, old)
    BY DEF Init
  <2> QED
    BY <2>1, NotRunningType
<1>2. legacy \in [Vols -> Legacy] /\ ctls \subseteq Vols /\ boot \in {"classic", "fcd", "gone"}
  BY VolumeAssumption DEF Init
<1>3. batch \in Batch /\ batch.spec = {} /\ batchCache = batch
  BY DEF Init, NoBatch, Batch
<1>4. /\ vmCache = vm /\ vmStale = FALSE /\ batchStale = FALSE /\ queue = TRUE /\ rec = NotRunning
      /\ pvc \in [Claims -> {"missing", "wffc", "selected", "bound"}]
      /\ steady = {} /\ edits \in 0..MaxEdits /\ faults \in 0..MaxFaults
  BY VolumeAssumption DEF Init
<1>5. TypeOK
  BY <1>1, <1>2, <1>3, <1>4, NotRunningType DEF TypeOK
<1> QED
  BY <1>3, <1>4, <1>5, NotRunningType
  DEF Inductive, TrackedOnce, CopiesCurrent, BatchBound, LegacyOnlyGoes, SteadyKept

\* What all steps keep: types, copies, bindings, and what the batch holds.
THEOREM Inductiveness == Spec => []Inductive
<1>1. Inductive /\ [Next]_vars => Inductive'
  BY TypeNext, TrackedNext, CopiesNext, SteadyNext DEF Inductive
<1> QED
  BY <1>1, InductiveInit, PTL DEF Spec

\* The types.
THEOREM TypeCorrect == Spec => []TypeOK
<1>1. Inductive => TypeOK
  BY DEF Inductive
<1> QED
  BY <1>1, Inductiveness, PTL

\* No volume is ever tracked by a legacy attachment and by the batch.
THEOREM TrackedAlwaysOnce == Spec => []TrackedOnce
<1>1. Inductive => TrackedOnce
  BY DEF Inductive
<1> QED
  BY <1>1, Inductiveness, PTL

\* No step takes a volume out of the batch that the user has kept in the spec.
THEOREM NeverSpuriousDetach == Spec => NoSpuriousDetach
<1>1. Inductive /\ [Next]_vars => [\A p \in steady : p \in SpecPairs(vm') => p \in batch'.spec]_vars
  BY SteadyNext
<1> QED
  BY <1>1, Inductiveness, PTL DEF Spec, NoSpuriousDetach

\* No step loses the entry of the boot disk.
THEOREM ClassicAlwaysKept == Spec => ClassicKept
<1>1. Inductive /\ [Next]_vars => [vm.classic /\ boot = "classic" => vm'.classic]_vars
  BY VMWrites
<1> QED
  BY <1>1, Inductiveness, PTL DEF Spec, ClassicKept
=============================================================================
