---------------------- MODULE VirtualMachineController ----------------------
(***************************************************************************)
(* The VirtualMachine controller and the create/delete half of the vSphere *)
(* provider:                                                               *)
(*   controllers/virtualmachine/virtualmachine/virtualmachine_controller.go*)
(*   pkg/providers/vsphere/vmprovider_vm.go (createOrUpdateVirtualMachine, *)
(*     createVirtualMachineAsync, DeleteVirtualMachine, ...)               *)
(*                                                                         *)
(* Several worker threads reconcile VirtualMachine objects read from an    *)
(* informer cache that lags the API server.  A create either blocks its    *)
(* worker or runs in a goroutine of its own that reports over an           *)
(* unbuffered channel; the number of creates is limited by a counter, and  *)
(* an in-memory set keeps a VM that is being created from being reconciled *)
(* or deleted.  The process may crash while vSphere keeps running its task.*)
(***************************************************************************)
EXTENDS Integers, FiniteSets

CONSTANTS VM,                      \* VirtualMachine objects (by UID)
          SkipDelete,              \* those annotated SkipDeletePlatformResource
          Async,                   \* AsyncSignalEnabled /\ AsyncCreateEnabled
          MaxConcurrentReconciles, \* worker threads of the controller
          MaxDeployThreads,        \* GetMaxDeployThreadsOnProvider()
          Legacy,                  \* objects an earlier release may have made
          Refused,                 \* VMs that vSphere may show disconnected or paused
          Pausable,                \* bound: objects the user may pause
          Forsaken,                \* bound: VMs whose create may go on after its call has failed
          MaxFaults,               \* bound: failed vSphere or API calls
          MaxCrashes               \* bound: crashes of the operator process

ASSUME ControllerAssumption ==
  /\ IsFiniteSet(VM)
  /\ SkipDelete \subseteq VM /\ Pausable \subseteq VM /\ Legacy \subseteq VM
  /\ Refused \subseteq VM /\ Forsaken \subseteq VM
  /\ Async \in BOOLEAN
  /\ MaxConcurrentReconciles \in Nat \ {0}
  /\ MaxDeployThreads \in Nat \ {0}
  /\ MaxFaults \in Nat /\ MaxCrashes \in Nat

VARIABLES
  obj,          \* the objects in the API server
  cache,        \* the informer's copy of them
  written,      \* objects written since the version in the cache
  queue,        \* the work queue
  rec,          \* the reconcile in progress for each object
  outdated,     \* objects written since the version that reconcile read
  reconciling,  \* currentlyReconciling
  createCount,  \* concurrentCreateCount
  gor,          \* the create goroutine of each object
  handler,      \* objects whose handleNonBlockingCreateErr is receiving
  releasing,    \* goroutines that left currentlyReconciling, not yet the count
  vc,           \* vSphere VMs carrying the object's instance UUID
  managed,      \* those of them that VM Operator has marked as its own
  lost,         \* create tasks still running in vSphere that nobody waits for
  everLost,     \* history: objects that ever had such a task
  faults, crashes

api     == <<obj, cache, written>>
threads == <<queue, rec, outdated>>
limits  == <<reconciling, createCount, releasing>>
vsphere == <<vc, managed, lost, everLost>>
budget  == <<faults, crashes>>
vars    == <<api, threads, limits, gor, handler, vsphere, budget>>

-----------------------------------------------------------------------------
(* The state. *)

Object == [st: {"none", "live", "deleting", "gone"},
           fin: {"none", "deprecated", "current"},
           uid: BOOLEAN,      \* status.uniqueID is set
           paused: BOOLEAN]   \* the pause annotation

NoObject  == [st |-> "none", fin |-> "none", uid |-> FALSE, paused |-> FALSE]
Exists(o) == o.st \in {"live", "deleting"}

\* What the deferred patchHelper.Patch has to write.
Change == {"nothing", "addFinalizer", "removeFinalizer", "uniqueID"}

RecSteps == {"idle", "load", "getVM", "limit", "store", "args", "spawned",
             "blockingArgs", "blockingCreate", "update",
             "delLoad", "delGetVM", "delDestroy", "patch"}
\* knownUid: status.uniqueID is set in the version the reconcile read.
Rec  == [pc: RecSteps, knownUid: BOOLEAN, change: Change, again: BOOLEAN]
Idle == [pc |-> "idle", knownUid |-> FALSE, change |-> "nothing", again |-> FALSE]

GorSteps == {"none", "create", "report", "patch", "reportPatch", "close", "delete"}
Gor      == [pc: GorSteps, ok: BOOLEAN]
NoGor    == [pc |-> "none", ok |-> FALSE]

TypeOK ==
  /\ obj \in [VM -> Object] /\ cache \in [VM -> Object]
  /\ written \subseteq VM /\ queue \subseteq VM /\ outdated \subseteq VM
  /\ rec \in [VM -> Rec]
  /\ reconciling \subseteq VM /\ createCount \in Int /\ releasing \in Nat
  /\ gor \in [VM -> Gor] /\ handler \subseteq VM
  /\ vc \in [VM -> Nat] /\ managed \subseteq VM
  /\ lost \subseteq VM /\ everLost \subseteq VM
  /\ faults \in 0..MaxFaults /\ crashes \in 0..MaxCrashes

\* Objects created by an earlier release carry the deprecated finalizer.
Upgraded == [st |-> "live", fin |-> "deprecated", uid |-> TRUE, paused |-> FALSE]

Init ==
  /\ \E old \in SUBSET Legacy :
       /\ obj = [v \in VM |-> IF v \in old THEN Upgraded ELSE NoObject]
       /\ vc = [v \in VM |-> IF v \in old THEN 1 ELSE 0]
       /\ managed = old /\ queue = old
  /\ cache = obj /\ written = {}
  /\ rec = [v \in VM |-> Idle] /\ outdated = {}
  /\ reconciling = {} /\ createCount = 0 /\ releasing = 0
  /\ gor = [v \in VM |-> NoGor] /\ handler = {}
  /\ lost = {} /\ everLost = {}
  /\ faults = 0 /\ crashes = 0

-----------------------------------------------------------------------------
(* Helpers. *)

\* A write to the API server: neither the cache nor a reconcile in progress
\* has seen the new version.
Write(v, o) == /\ obj' = [obj EXCEPT ![v] = o]
               /\ written' = written \cup {v}
               /\ outdated' = outdated \cup {v}
               /\ UNCHANGED cache

Fault == faults < MaxFaults /\ faults' = faults + 1 /\ UNCHANGED crashes

At(v, p)   == rec[v].pc = p
Goto(v, p) == rec' = [rec EXCEPT ![v].pc = p]

\* The reconcile returns: what its deferred patch writes, and whether its
\* error or result makes the controller queue the object again.
Return(v, c, again) ==
  rec' = [rec EXCEPT ![v].pc = "patch", ![v].change = c, ![v].again = again]

Busy == {v \in VM : rec[v].pc # "idle"}

-----------------------------------------------------------------------------
(* The user, the informer and the work queue (external to this code). *)

CreateObject(v) ==
  /\ obj[v].st = "none"
  /\ Write(v, [NoObject EXCEPT !.st = "live"])
  /\ UNCHANGED <<queue, rec, limits, gor, handler, vsphere, budget>>

\* The API server keeps a deleted object for as long as it has a finalizer.
DeleteObject(v) ==
  /\ obj[v].st = "live"
  /\ Write(v, [obj[v] EXCEPT !.st = IF obj[v].fin = "none" THEN "gone" ELSE "deleting"])
  /\ UNCHANGED <<queue, rec, limits, gor, handler, vsphere, budget>>

SetPaused(v) ==
  /\ v \in Pausable /\ Exists(obj[v])
  /\ Write(v, [obj[v] EXCEPT !.paused = ~@])
  /\ UNCHANGED <<queue, rec, limits, gor, handler, vsphere, budget>>

\* A watch event brings the cache up to date and queues the object.
WatchEvent(v) ==
  /\ v \in written
  /\ cache' = [cache EXCEPT ![v] = obj[v]]
  /\ written' = written \ {v}
  /\ queue' = queue \cup {v}
  /\ UNCHANGED <<obj, rec, outdated, limits, gor, handler, vsphere, budget>>

\* Any of the controller's other watches (class, image cache, group, PVC, ...).
OtherEvent(v) ==
  /\ Exists(cache[v]) /\ v \notin queue
  /\ queue' = queue \cup {v}
  /\ UNCHANGED <<api, rec, outdated, limits, gor, handler, vsphere, budget>>

-----------------------------------------------------------------------------
(* Reconcile: read the object from the cache and choose a path. *)

\* Variant for mutation: the reconcile that adds the finalizer goes on.
FirstStepEager(o) ==
  CASE o.paused                                -> "patch"
    [] ~o.paused /\ o.st = "deleting"          -> IF o.fin = "none" THEN "patch" ELSE "delLoad"
    [] ~o.paused /\ o.st = "live"              -> "load"

FirstStep(o) ==
  CASE o.paused                                -> "patch"
    [] ~o.paused /\ o.st = "deleting"          -> IF o.fin = "none" THEN "patch" ELSE "delLoad"
    [] ~o.paused /\ o.st = "live"              -> IF o.fin = "current" THEN "load" ELSE "patch"

\* The finalizer must be there before anything is created: the reconcile that
\* adds it returns at once, and a later one proceeds.
FirstChange(o) ==
  IF o.st = "live" /\ ~o.paused /\ o.fin # "current" THEN "addFinalizer" ELSE "nothing"

Reconcile(v) ==
  /\ v \in queue /\ At(v, "idle")
  /\ Cardinality(Busy) < MaxConcurrentReconciles
  /\ queue' = queue \ {v}
  /\ IF Exists(cache[v])
       THEN /\ rec' = [rec EXCEPT ![v] = [pc |-> FirstStep(cache[v]),
                                          knownUid |-> cache[v].uid,
                                          change |-> FirstChange(cache[v]),
                                          again |-> FALSE]]
            /\ outdated' = (outdated \ {v}) \cup (written \cap {v})
       ELSE UNCHANGED <<rec, outdated>>
  /\ UNCHANGED <<api, limits, gor, handler, vsphere, budget>>

\* The deferred patch.  A failed write, a conflict of the optimistic lock on
\* the status, or an object that is gone makes the reconcile return an error,
\* which queues the object again.
PatchFails(v) ==
  /\ At(v, "patch") /\ rec[v].change # "nothing"
  /\ \/ ~Exists(obj[v]) /\ UNCHANGED budget
     \/ rec[v].change = "uniqueID" /\ v \in outdated /\ UNCHANGED budget
     \/ rec[v].change = "addFinalizer" /\ obj[v].st = "deleting" /\ UNCHANGED budget
     \/ Exists(obj[v]) /\ Fault
  /\ rec' = [rec EXCEPT ![v] = Idle]
  /\ queue' = queue \cup {v}
  /\ UNCHANGED <<api, outdated, limits, gor, handler, vsphere>>

\* Removing the last finalizer of a deleted object removes the object.
Patched(v) ==
  CASE rec[v].change = "addFinalizer"    -> [obj[v] EXCEPT !.fin = "current"]
    [] rec[v].change = "removeFinalizer" ->
         [obj[v] EXCEPT !.fin = "none", !.st = IF @ = "deleting" THEN "gone" ELSE @]
    [] rec[v].change = "uniqueID"        -> [obj[v] EXCEPT !.uid = TRUE]

Patch(v) ==
  /\ At(v, "patch")
  /\ \/ rec[v].change = "nothing" /\ UNCHANGED <<api, outdated>>
     \/ /\ rec[v].change # "nothing" /\ Exists(obj[v])
        /\ rec[v].change = "uniqueID" => v \notin outdated
        /\ rec[v].change = "addFinalizer" => obj[v].st = "live"
        /\ Write(v, Patched(v))
  /\ rec' = [rec EXCEPT ![v] = Idle]
  /\ queue' = IF rec[v].again THEN queue \cup {v} ELSE queue
  /\ UNCHANGED <<limits, gor, handler, vsphere, budget>>

-----------------------------------------------------------------------------
(* createOrUpdateVirtualMachine. *)

\* Variant for mutation: the second create of a VM is not held back.
LoadReconcilingUnchecked(v) ==
  /\ At(v, "load")
  /\ Goto(v, "getVM")
  /\ UNCHANGED <<api, queue, outdated, limits, gor, handler, vsphere, budget>>

\* A VM being created by a goroutine is left alone; the object is requeued.
LoadReconciling(v) ==
  /\ At(v, "load")
  /\ IF v \in reconciling THEN Return(v, "nothing", TRUE) ELSE Goto(v, "getVM")
  /\ UNCHANGED <<api, queue, outdated, limits, gor, handler, vsphere, budget>>

\* GetVirtualMachine finds the VM by its managed object ID, if that is known, or else by
\* instance UUID; more than one VM of that UUID is an error.
Findable(v) == vc[v] = 1 \/ (vc[v] > 1 /\ rec[v].knownUid)

GetVM(v) ==
  /\ At(v, "getVM")
  /\ \/ Findable(v) /\ Goto(v, "update") /\ UNCHANGED budget
     \/ vc[v] = 0 /\ Goto(v, "limit") /\ UNCHANGED budget
     \/ vc[v] > 1 /\ Return(v, "nothing", TRUE) /\ UNCHANGED budget
     \/ Fault /\ Return(v, "nothing", TRUE)
  /\ UNCHANGED <<api, queue, outdated, limits, gor, handler, vsphere>>

\* updateVirtualMachine, here only for what it records in the status: it may
\* fail before or after that.  (A VM that is not connected is left alone after
\* that with a NoRequeueError, which here is no different from success.)
Update(v) ==
  /\ At(v, "update")
  /\ LET recorded == IF rec[v].knownUid THEN "nothing" ELSE "uniqueID"
     IN  \/ Return(v, recorded, FALSE) /\ UNCHANGED budget
         \/ Fault /\ Return(v, "nothing", TRUE)
         \/ Fault /\ Return(v, recorded, TRUE)
  /\ UNCHANGED <<api, queue, outdated, limits, gor, handler, vsphere>>

\* Variant for mutation: ErrTooManyCreates does not requeue.
CreateAllowedForgets(v) ==
  /\ At(v, "limit")
  /\ IF createCount >= MaxDeployThreads
       THEN Return(v, "nothing", FALSE) /\ UNCHANGED createCount
       ELSE /\ createCount' = createCount + 1
            /\ Goto(v, IF Async THEN "store" ELSE "blockingArgs")
  /\ UNCHANGED <<api, queue, outdated, reconciling, releasing, gor, handler,
                 vsphere, budget>>

\* vmCreateConcurrentAllowed.
CreateAllowed(v) ==
  /\ At(v, "limit")
  /\ IF createCount >= MaxDeployThreads
       THEN Return(v, "nothing", TRUE) /\ UNCHANGED createCount
       ELSE /\ createCount' = createCount + 1
            /\ Goto(v, IF Async THEN "store" ELSE "blockingArgs")
  /\ UNCHANGED <<api, queue, outdated, reconciling, releasing, gor, handler,
                 vsphere, budget>>

StoreReconciling(v) ==
  /\ At(v, "store")
  /\ IF v \in reconciling
       THEN /\ createCount' = createCount - 1
            /\ Return(v, "nothing", TRUE) /\ UNCHANGED reconciling
       ELSE /\ reconciling' = reconciling \cup {v}
            /\ Goto(v, "args") /\ UNCHANGED createCount
  /\ UNCHANGED <<api, queue, outdated, releasing, gor, handler, vsphere, budget>>

\* Variant for mutation: asyncCreateStarted is set before the arguments are
\* known, so the deferred cleanup never runs.
CreateArgsNoCleanup(v) ==
  /\ At(v, "args")
  /\ \/ /\ gor' = [gor EXCEPT ![v] = [pc |-> "create", ok |-> FALSE]]
        /\ Goto(v, "spawned")
        /\ UNCHANGED budget
     \/ Fault /\ Return(v, "nothing", TRUE) /\ UNCHANGED gor
  /\ UNCHANGED <<api, queue, outdated, limits, handler, vsphere>>

\* Variant for mutation: the deferred cleanup also runs when the goroutine was started.
CreateArgsReleases(v) ==
  /\ At(v, "args")
  /\ \/ /\ gor' = [gor EXCEPT ![v] = [pc |-> "create", ok |-> FALSE]]
        /\ Goto(v, "spawned")
        /\ UNCHANGED budget
     \/ Fault /\ Return(v, "nothing", TRUE) /\ UNCHANGED gor
  /\ reconciling' = reconciling \ {v}
  /\ releasing' = releasing + 1
  /\ UNCHANGED <<api, queue, outdated, createCount, handler, vsphere>>

\* getCreateArgs, then the goroutine; if the prerequisites are not met the
\* deferred cleanup undoes the two registrations one after the other.
CreateArgs(v) ==
  /\ At(v, "args")
  /\ \/ /\ gor' = [gor EXCEPT ![v] = [pc |-> "create", ok |-> FALSE]]
        /\ Goto(v, "spawned")
        /\ UNCHANGED <<reconciling, releasing, budget>>
     \/ /\ Fault
        /\ reconciling' = reconciling \ {v}
        /\ releasing' = releasing + 1
        /\ Return(v, "nothing", TRUE)
        /\ UNCHANGED gor
  /\ UNCHANGED <<api, queue, outdated, createCount, handler, vsphere>>

\* Variant for mutation: nobody receives from the channel.
StartHandlerNot(v) ==
  /\ At(v, "spawned")
  /\ Return(v, "nothing", TRUE)
  /\ UNCHANGED <<api, queue, outdated, limits, gor, handler, vsphere, budget>>

\* ReconcileNormal starts the receiver of the channel after the provider call
\* returned it, and asks to be requeued until the VM is created.
StartHandler(v) ==
  /\ At(v, "spawned")
  /\ handler' = handler \cup {v}
  /\ Return(v, "nothing", TRUE)
  /\ UNCHANGED <<api, queue, outdated, limits, gor, vsphere, budget>>

BlockingArgs(v) ==
  /\ At(v, "blockingArgs")
  /\ \/ Goto(v, "blockingCreate") /\ UNCHANGED <<createCount, budget>>
     \/ Fault /\ createCount' = createCount - 1 /\ Return(v, "nothing", TRUE)
  /\ UNCHANGED <<api, queue, outdated, reconciling, releasing, gor, handler, vsphere>>

\* CreateVirtualMachine returns an error: vSphere has not created the VM, or goes on with
\* a task that nobody waits for any more.
CreateFails(v) ==
  /\ Fault /\ UNCHANGED <<vc, managed>>
  /\ \/ UNCHANGED <<lost, everLost>>
     \/ v \in Forsaken /\ lost' = lost \cup {v} /\ everLost' = everLost \cup {v}

BlockingCreate(v) ==
  /\ At(v, "blockingCreate")
  /\ \/ /\ vc' = [vc EXCEPT ![v] = @ + 1]
        /\ managed' = managed \cup {v}
        /\ Return(v, "uniqueID", FALSE)
        /\ UNCHANGED <<lost, everLost, budget>>
     \/ CreateFails(v) /\ Return(v, "nothing", TRUE)
  /\ createCount' = createCount - 1
  /\ UNCHANGED <<api, queue, outdated, reconciling, releasing, gor, handler>>

-----------------------------------------------------------------------------
(* createVirtualMachineAsync: the goroutine. *)

GorAt(v, p)   == gor[v].pc = p
GorGoto(v, p) == gor' = [gor EXCEPT ![v].pc = p]

GorCreate(v) ==
  /\ GorAt(v, "create")
  /\ \/ /\ vc' = [vc EXCEPT ![v] = @ + 1]
        /\ managed' = managed \cup {v}
        /\ gor' = [gor EXCEPT ![v] = [pc |-> "report", ok |-> TRUE]]
        /\ UNCHANGED <<lost, everLost, budget>>
     \/ CreateFails(v) /\ GorGoto(v, "report")
  /\ UNCHANGED <<api, threads, limits, handler>>

\* The channel is unbuffered: a send waits for the receiver.
GorReport(v) ==
  /\ GorAt(v, "report") /\ v \in handler
  /\ GorGoto(v, "patch")
  /\ UNCHANGED <<api, threads, limits, handler, vsphere, budget>>

\* The status patch takes no lock, so it only fails if the call does.
GorPatch(v) ==
  /\ GorAt(v, "patch")
  /\ \/ /\ Exists(obj[v])
        /\ Write(v, [obj[v] EXCEPT !.uid = @ \/ gor[v].ok])
        /\ GorGoto(v, "close") /\ UNCHANGED budget
     \/ /\ IF Exists(obj[v]) THEN Fault ELSE UNCHANGED budget
        /\ GorGoto(v, "reportPatch") /\ UNCHANGED <<api, outdated>>
  /\ UNCHANGED <<queue, rec, limits, handler, vsphere>>

GorReportPatch(v) ==
  /\ GorAt(v, "reportPatch") /\ v \in handler
  /\ GorGoto(v, "close")
  /\ UNCHANGED <<api, threads, limits, handler, vsphere, budget>>

\* Closing the channel ends the receiver's loop.
GorClose(v) ==
  /\ GorAt(v, "close")
  /\ handler' = handler \ {v}
  /\ GorGoto(v, "delete")
  /\ UNCHANGED <<api, threads, limits, vsphere, budget>>

GorDelete(v) ==
  /\ GorAt(v, "delete")
  /\ reconciling' = reconciling \ {v}
  /\ releasing' = releasing + 1
  /\ gor' = [gor EXCEPT ![v] = NoGor]
  /\ UNCHANGED <<api, threads, createCount, handler, vsphere, budget>>

\* decrementFn, the last call of the cleanup.
Decrement ==
  /\ releasing > 0
  /\ releasing' = releasing - 1
  /\ createCount' = createCount - 1
  /\ UNCHANGED <<api, threads, reconciling, gor, handler, vsphere, budget>>

-----------------------------------------------------------------------------
(* ReconcileDelete: DeleteVirtualMachine or CleanupVirtualMachine. *)

\* Variant for mutation: a VM may be deleted while it is being created.
DelLoadUnchecked(v) ==
  /\ At(v, "delLoad")
  /\ Goto(v, "delGetVM")
  /\ UNCHANGED <<api, queue, outdated, limits, gor, handler, vsphere, budget>>

\* Variant for mutation: ErrReconcileInProgress does not requeue.
DelLoadForgets(v) ==
  /\ At(v, "delLoad")
  /\ IF v \in reconciling THEN Return(v, "nothing", FALSE) ELSE Goto(v, "delGetVM")
  /\ UNCHANGED <<api, queue, outdated, limits, gor, handler, vsphere, budget>>

DelLoadReconciling(v) ==
  /\ At(v, "delLoad")
  /\ IF v \in reconciling THEN Return(v, "nothing", TRUE) ELSE Goto(v, "delGetVM")
  /\ UNCHANGED <<api, queue, outdated, limits, gor, handler, vsphere, budget>>

\* Variant for mutation: a failed lookup counts as "VM does not exist".
DelGetVMIgnoresError(v) ==
  /\ At(v, "delGetVM")
  /\ \/ vc[v] = 0 /\ Return(v, "removeFinalizer", FALSE) /\ UNCHANGED budget
     \/ vc[v] > 0 /\ Goto(v, "delDestroy") /\ UNCHANGED budget
     \/ Fault /\ Return(v, "removeFinalizer", FALSE)
  /\ UNCHANGED <<api, queue, outdated, limits, gor, handler, vsphere>>

\* Variant for mutation: a VM that does not exist is destroyed.
DelGetVMNilUnchecked(v) ==
  /\ At(v, "delGetVM")
  /\ \/ Goto(v, "delDestroy") /\ UNCHANGED budget
     \/ Fault /\ Return(v, "nothing", TRUE)
  /\ UNCHANGED <<api, queue, outdated, limits, gor, handler, vsphere>>

DelGetVM(v) ==
  /\ At(v, "delGetVM")
  /\ \/ vc[v] = 0 /\ Return(v, "removeFinalizer", FALSE) /\ UNCHANGED budget
     \/ Findable(v) /\ Goto(v, "delDestroy") /\ UNCHANGED budget
     \/ vc[v] > 1 /\ Return(v, "nothing", TRUE) /\ UNCHANGED budget
     \/ Fault /\ Return(v, "nothing", TRUE)
  /\ UNCHANGED <<api, queue, outdated, limits, gor, handler, vsphere>>

\* The VM is destroyed or, to be kept, stripped of what marks it as managed.
\* One that is not connected or that the admin paused is not destroyed, and
\* the NoRequeueError leaves the object until something else queues it.
DelDestroy(v) ==
  /\ At(v, "delDestroy")
  /\ \/ /\ IF v \in SkipDelete THEN UNCHANGED vc
                               ELSE vc' = [vc EXCEPT ![v] = @ - 1]
        /\ managed' = IF v \notin SkipDelete /\ vc[v] > 1 THEN managed ELSE managed \ {v}
        /\ Return(v, "removeFinalizer", FALSE)
        /\ UNCHANGED budget
     \/ Fault /\ Return(v, "nothing", TRUE) /\ UNCHANGED <<vc, managed>>
     \/ v \in Refused \ SkipDelete /\ Return(v, "nothing", FALSE) /\ UNCHANGED <<vc, managed, budget>>
  /\ UNCHANGED <<api, queue, outdated, limits, gor, handler, lost, everLost>>

-----------------------------------------------------------------------------
(* A crash of the operator.  Its memory is gone, vSphere runs the create    *)
(* tasks it has accepted to their end, and the restarted process queues     *)
(* every object it finds.                                                   *)

Crash ==
  /\ crashes < MaxCrashes /\ crashes' = crashes + 1 /\ UNCHANGED faults
  /\ LET inFlight == {v \in VM : GorAt(v, "create") \/ At(v, "blockingCreate")}
     IN  lost' = lost \cup inFlight /\ everLost' = everLost \cup inFlight
  /\ rec' = [v \in VM |-> Idle] /\ outdated' = {}
  /\ gor' = [v \in VM |-> NoGor] /\ handler' = {}
  /\ reconciling' = {} /\ createCount' = 0 /\ releasing' = 0
  /\ cache' = obj /\ written' = {}
  /\ queue' = {v \in VM : Exists(obj[v])}
  /\ UNCHANGED <<obj, vc, managed>>

LostTask(v) ==
  /\ v \in lost /\ lost' = lost \ {v}
  /\ \/ vc' = [vc EXCEPT ![v] = @ + 1] /\ managed' = managed \cup {v}
     \/ UNCHANGED <<vc, managed>>
  /\ UNCHANGED <<api, threads, limits, gor, handler, everLost, budget>>

-----------------------------------------------------------------------------
Worker(v) ==
  \/ Patch(v) \/ PatchFails(v)
  \/ LoadReconciling(v) \/ GetVM(v) \/ Update(v)
  \/ CreateAllowed(v) \/ StoreReconciling(v) \/ CreateArgs(v) \/ StartHandler(v)
  \/ BlockingArgs(v) \/ BlockingCreate(v)
  \/ DelLoadReconciling(v) \/ DelGetVM(v) \/ DelDestroy(v)

Goroutine(v) ==
  \/ GorCreate(v) \/ GorReport(v) \/ GorPatch(v) \/ GorReportPatch(v)
  \/ GorClose(v) \/ GorDelete(v)

Environment(v) ==
  \/ CreateObject(v) \/ DeleteObject(v) \/ SetPaused(v)
  \/ WatchEvent(v) \/ OtherEvent(v) \/ LostTask(v)

Next ==
  \/ \E v \in VM : Reconcile(v) \/ Worker(v) \/ Goroutine(v) \/ Environment(v)
  \/ Decrement
  \/ Crash

Spec == Init /\ [][Next]_vars

\* Workers, goroutines and watches keep running, and an object that is queued is eventually
\* taken by a free worker.  The work queue is a priority queue by default: this holds as
\* long as objects of higher priority do not keep all workers busy for ever.
Fairness ==
  /\ \A v \in VM : /\ SF_vars(Reconcile(v)) /\ WF_vars(Worker(v))
                  /\ WF_vars(Goroutine(v)) /\ WF_vars(WatchEvent(v))
  /\ WF_vars(Decrement)

FairSpec == Spec /\ Fairness

-----------------------------------------------------------------------------
(* Properties. *)

Creating(v)  == At(v, "blockingCreate") \/ GorAt(v, "create")
RecHolders   == {v \in VM : rec[v].pc \in {"store", "args", "blockingArgs", "blockingCreate"}}
GorHolders   == {v \in VM : gor[v].pc # "none"}

\* concurrentCreateCount is exactly the number of creates under way, whichever
\* of the many early returns of createOrUpdateVirtualMachine, or the goroutine,
\* gives its slot back; so no slot is lost or returned twice.
SlotsAccounted ==
  createCount = Cardinality(RecHolders) + Cardinality(GorHolders) + releasing

\* The provider never waits for more creates of vSphere at a time, in workers and in
\* goroutines that outlive their workers, than GetMaxDeployThreadsOnProvider: a slot is not
\* given back before the call it was taken for has returned.
RunningBounded == Cardinality({v \in VM : Creating(v)}) <= MaxDeployThreads

\* A VM is never created twice: while a create is under way the VM does not
\* exist in vSphere, and no second create of it runs.  A create whose process
\* died, or whose call failed, while vSphere ran the task is out of the code's hands.
NoDoubleCreate ==
  \A v \in VM \ everLost :
    /\ vc[v] <= 1
    /\ Creating(v) => vc[v] = 0
    /\ ~(At(v, "blockingCreate") /\ GorAt(v, "create"))

\* DeleteVirtualMachine and CleanupVirtualMachine never act on a VM that a
\* goroutine is creating.
DeleteExcludesCreate ==
  \A v \in VM : rec[v].pc \in {"delGetVM", "delDestroy"} => gor[v].pc = "none"

\* The finalizer goes last: an object that is gone leaves no VM behind that
\* VM Operator manages, and no create under way, even though the reconciles
\* work from a cache that may still show the object as live.
NoOrphan ==
  \A v \in VM \ everLost :
    ~Exists(obj[v]) => v \notin managed /\ gor[v].pc \notin {"create", "report"}
                       /\ ~At(v, "blockingCreate")

\* A VM's finalizer is in the API server before its create begins.
FinalizerFirst ==
  \A v \in VM : Creating(v) => obj[v].fin = "current"

-----------------------------------------------------------------------------
(* What makes the invariants above inductive. *)

\* currentlyReconciling covers the goroutines, and a worker that is past its
\* check of it has no goroutine of the same VM beside it.
Registered ==
  \A v \in VM :
    /\ gor[v].pc # "none" => v \in reconciling
    /\ rec[v].pc = "args" => v \in reconciling
    /\ rec[v].pc \in {"getVM", "update", "limit", "store", "args", "blockingArgs",
                     "blockingCreate", "delGetVM", "delDestroy"} => gor[v].pc = "none"

\* The counter keeps to the limit.
CreatesBounded == createCount <= MaxDeployThreads

\* What a worker or a goroutine has seen of vSphere stays so, as long as
\* no create of the VM was left to itself.
Looked ==
  \A v \in VM :
    /\ rec[v].pc = "delDestroy" => vc[v] >= 1
    /\ v \in lost => v \in everLost
    /\ v \notin everLost =>
         /\ vc[v] <= 1
         /\ gor[v].pc = "create" => vc[v] = 0
         /\ rec[v].pc \in {"limit", "store", "args", "blockingArgs", "blockingCreate"}
              => vc[v] = 0

Inductive == TypeOK /\ Registered /\ Looked /\ SlotsAccounted /\ CreatesBounded

\* The finalizer covers everything that makes or keeps a VM.  The cache may lag, but a
\* version that shows the object live with its finalizer is never one that the removal of
\* the finalizer left behind: that removal is by a reconcile that read the object as
\* deleted, and one reconcile of an object runs at a time.
CreateSteps == {"load", "getVM", "update", "limit", "store", "args", "spawned",
                "blockingArgs", "blockingCreate"}
Deleted(o)  == o.st \in {"deleting", "gone"}

Covered(v) ==
  /\ ~Exists(obj[v]) => obj[v].fin = "none"
  /\ cache[v].st = "live" /\ cache[v].fin = "current" => obj[v].fin = "current"
  /\ Deleted(cache[v]) => Deleted(obj[v])
  /\ rec[v].pc \in CreateSteps \/ gor[v].pc # "none" => obj[v].fin = "current"

\* Who deletes has read the object as deleted, and who is about to remove the finalizer has
\* nothing left to clean up.
CleanedUp(v) ==
  /\ rec[v].pc \in {"delLoad", "delGetVM", "delDestroy"} => Deleted(cache[v])
  /\ rec[v].pc = "patch" /\ rec[v].change = "removeFinalizer" =>
       Deleted(cache[v]) /\ gor[v].pc = "none" /\ (v \in managed => v \in everLost)
  /\ v \in managed /\ v \notin everLost => vc[v] >= 1 /\ obj[v].fin # "none"

Finalizers == \A v \in VM : Covered(v) /\ CleanedUp(v)

-----------------------------------------------------------------------------
(* Liveness. *)

\* A create goroutine ends and lets go of its VM: neither of its sends on the
\* unbuffered channel blocks for ever.
CreateFinishes == \A v \in VM : v \in reconciling ~> v \notin reconciling

\* A deleted object goes away unless it is paused, whatever create was under
\* way when it was deleted.
DeleteFinishes ==
  \A v \in VM : obj[v].st = "deleting" ~>
               (obj[v].st = "gone" \/ obj[v].paused \/ v \in everLost)

\* A live object is created in vSphere and its ID recorded, unless it is
\* deleted or paused meanwhile; creates that were refused a slot or whose
\* status patch was lost included.
CreateSucceeds ==
  \A v \in VM : obj[v].st = "live" ~>
               (obj[v].uid \/ obj[v].st # "live" \/ obj[v].paused \/ v \in everLost)
=============================================================================
