------------------- MODULE VirtualMachineController_proofs -------------------
(***************************************************************************)
(* Proofs about VirtualMachineController, for every set of VMs, every      *)
(* number of workers and deploy threads, and any number of faults and      *)
(* crashes.                                                                *)
(***************************************************************************)
EXTENDS VirtualMachineController, FiniteSetTheorems, TLAPS

-----------------------------------------------------------------------------
(* Counting the holders of a create slot. *)

\* Both sets of holders are finite, so they have a size.
LEMMA HoldersFinite ==
  /\ IsFiniteSet(RecHolders) /\ Cardinality(RecHolders) \in Nat
  /\ IsFiniteSet(GorHolders) /\ Cardinality(GorHolders) \in Nat
<1>1. RecHolders \in SUBSET VM /\ GorHolders \in SUBSET VM
  BY DEF RecHolders, GorHolders
<1>2. IsFiniteSet(VM)
  BY ControllerAssumption
<1>3. IsFiniteSet(RecHolders) /\ IsFiniteSet(GorHolders)
  BY <1>1, <1>2, FS_Subset
<1> QED
  BY <1>3, FS_CardinalityType

\* Two finite sets that agree but for one element.
LEMMA OneApart ==
  ASSUME NEW S, IsFiniteSet(S), Cardinality(S) \in Nat, NEW T, NEW x, T \ {x} = S \ {x}
  PROVE  Cardinality(T) = Cardinality(S)
           + (IF x \in T THEN 1 ELSE 0) - (IF x \in S THEN 1 ELSE 0)
<1>1. CASE x \in T
  <2>1. T = S \cup {x}
    BY <1>1
  <2>2. Cardinality(T) = IF x \in S THEN Cardinality(S) ELSE Cardinality(S) + 1
    BY <2>1, FS_AddElement
  <2> QED
    BY <1>1, <2>2
<1>2. CASE x \notin T
  <2>1. T = S \ {x}
    BY <1>2
  <2>2. Cardinality(T) = IF x \in S THEN Cardinality(S) - 1 ELSE Cardinality(S)
    BY <2>1, FS_RemoveElement
  <2> QED
    BY <1>2, <2>2
<1> QED
  BY <1>1, <1>2

\* A step that moves one worker changes the number of workers that hold a slot
\* by what it does to that worker.
LEMMA WorkerMoves ==
  ASSUME NEW v \in VM, \A u \in VM \ {v} : rec'[u].pc = rec[u].pc
  PROVE  Cardinality(RecHolders') = Cardinality(RecHolders)
           + (IF v \in RecHolders' THEN 1 ELSE 0) - (IF v \in RecHolders THEN 1 ELSE 0)
<1>1. RecHolders' \ {v} = RecHolders \ {v}
  BY DEF RecHolders
<1> QED
  BY <1>1, HoldersFinite, OneApart

\* The same for the goroutines.
LEMMA GoroutineMoves ==
  ASSUME NEW v \in VM, \A u \in VM \ {v} : gor'[u].pc = gor[u].pc
  PROVE  Cardinality(GorHolders') = Cardinality(GorHolders)
           + (IF v \in GorHolders' THEN 1 ELSE 0) - (IF v \in GorHolders THEN 1 ELSE 0)
<1>1. GorHolders' \ {v} = GorHolders \ {v}
  BY DEF GorHolders
<1> QED
  BY <1>1, HoldersFinite, OneApart

-----------------------------------------------------------------------------
(* The helpers the actions are made of. *)

\* Goto moves one worker and nothing else of its record.
LEMMA GotoType ==
  ASSUME rec \in [VM -> Rec], NEW v \in VM, NEW p \in RecSteps, Goto(v, p)
  PROVE  /\ rec' \in [VM -> Rec]
         /\ rec'[v].pc = p /\ rec'[v].change = rec[v].change
         /\ \A u \in VM \ {v} : rec'[u] = rec[u]
BY DEF Goto, Rec

\* Return sends one worker to its deferred patch.
LEMMA ReturnType ==
  ASSUME rec \in [VM -> Rec], NEW v \in VM, NEW c \in Change, NEW b \in BOOLEAN,
         Return(v, c, b)
  PROVE  /\ rec' \in [VM -> Rec]
         /\ rec'[v].pc = "patch" /\ rec'[v].change = c
         /\ \A u \in VM \ {v} : rec'[u] = rec[u]
BY DEF Return, Rec, RecSteps

\* GorGoto moves one goroutine.
LEMMA GorGotoType ==
  ASSUME gor \in [VM -> Gor], NEW v \in VM, NEW p \in GorSteps, GorGoto(v, p)
  PROVE  /\ gor' \in [VM -> Gor]
         /\ gor'[v].pc = p
         /\ \A u \in VM \ {v} : gor'[u] = gor[u]
BY DEF GorGoto, Gor

\* A write keeps the types of the API server and of the informer's cache.
LEMMA WriteType ==
  ASSUME TypeOK, NEW v \in VM, NEW o \in Object, Write(v, o)
  PROVE  /\ obj' \in [VM -> Object] /\ cache' \in [VM -> Object]
         /\ written' \subseteq VM /\ outdated' \subseteq VM
BY DEF TypeOK, Write

\* A fault uses up one of the faults allowed.
LEMMA FaultType ==
  ASSUME TypeOK, Fault
  PROVE  faults' \in 0..MaxFaults /\ crashes' \in 0..MaxCrashes
BY ControllerAssumption DEF TypeOK, Fault

\* The null values have the types of what they stand for.
LEMMA NullTypes == Idle \in Rec /\ NoGor \in Gor /\ NoObject \in Object
BY DEF Idle, Rec, RecSteps, Change, NoGor, Gor, GorSteps, NoObject, Object

\* The counters stay integers when they are counted up or down.
LEMMA CountType ==
  ASSUME TypeOK
  PROVE  createCount + 1 \in Int /\ createCount - 1 \in Int /\ releasing + 1 \in Nat
BY DEF TypeOK


-----------------------------------------------------------------------------
(* The types. *)

\* Every step of a worker keeps the types.
LEMMA TypeWorker ==
  ASSUME TypeOK, Looked, NEW v \in VM, Worker(v)
  PROVE  TypeOK'
<1> USE GotoType, ReturnType, FaultType DEF TypeOK, RecSteps, Change
<1>1. ASSUME Patch(v) PROVE TypeOK'
  <2>1. ASSUME Write(v, Patched(v)), rec[v].change # "nothing" PROVE Patched(v) \in Object
    <3>1. obj[v] \in Object /\ rec[v].change \in {"addFinalizer", "removeFinalizer", "uniqueID"}
      BY <2>1 DEF Rec
    <3>2. CASE rec[v].change = "addFinalizer"
      BY <3>1, <3>2 DEF Patched, Object
    <3>3. CASE rec[v].change = "removeFinalizer"
      BY <3>1, <3>3 DEF Patched, Object
    <3>4. CASE rec[v].change = "uniqueID"
      BY <3>1, <3>4 DEF Patched, Object
    <3> QED
      BY <3>1, <3>2, <3>3, <3>4
  <2> QED
    BY <1>1, <2>1, WriteType, NullTypes DEF Patch, api, limits, vsphere, budget
<1>2. ASSUME PatchFails(v) PROVE TypeOK'
  BY <1>2, NullTypes DEF PatchFails, api, limits, vsphere, budget
<1>3. ASSUME LoadReconciling(v) PROVE TypeOK'
  BY <1>3 DEF LoadReconciling, api, limits, vsphere, budget
<1>4. ASSUME GetVM(v) PROVE TypeOK'
  BY <1>4 DEF GetVM, Findable, api, limits, vsphere, budget
<1>5. ASSUME Update(v) PROVE TypeOK'
  BY <1>5 DEF Update, api, limits, vsphere, budget
<1>6. ASSUME CreateAllowed(v) PROVE TypeOK'
  <2>1. createCount' \in Int
    BY <1>6, CountType DEF CreateAllowed
  <2> QED
    BY <1>6, <2>1 DEF CreateAllowed, api, vsphere, budget
<1>7. ASSUME StoreReconciling(v) PROVE TypeOK'
  <2>1. createCount' \in Int
    BY <1>7, CountType DEF StoreReconciling
  <2> QED
    BY <1>7, <2>1 DEF StoreReconciling, api, vsphere, budget
<1>8. ASSUME CreateArgs(v) PROVE TypeOK'
  <2>1. [pc |-> "create", ok |-> FALSE] \in Gor
    BY DEF Gor, GorSteps
  <2> QED
    <3>1. releasing' \in Nat
      BY <1>8, CountType DEF CreateArgs
    <3>3. gor' = [gor EXCEPT ![v] = [pc |-> "create", ok |-> FALSE]] \/ gor' = gor
      BY <1>8 DEF CreateArgs
    <3>4. gor' \in [VM -> Gor]
      BY <2>1, <3>3
    <3>5. reconciling' \subseteq VM
      BY <1>8 DEF CreateArgs
    <3>2. rec' \in [VM -> Rec] /\ faults' \in 0..MaxFaults /\ crashes' \in 0..MaxCrashes
      BY <1>8 DEF CreateArgs, budget
    <3> QED
      BY <1>8, <3>1, <3>2, <3>4, <3>5 DEF CreateArgs, api, vsphere
<1>9. ASSUME StartHandler(v) PROVE TypeOK'
  BY <1>9 DEF StartHandler, api, limits, vsphere, budget
<1>10. ASSUME BlockingArgs(v) PROVE TypeOK'
  <2>1. createCount' \in Int
    BY <1>10, CountType DEF BlockingArgs
  <2> QED
    BY <1>10, <2>1 DEF BlockingArgs, api, vsphere, budget
<1>11. ASSUME BlockingCreate(v) PROVE TypeOK'
  <2>1. createCount' \in Int
    BY <1>11, CountType DEF BlockingCreate, CreateFails
  <2>2. vc[v] + 1 \in Nat
    OBVIOUS
  <2>3. vc' \in [VM -> Nat]
    BY <1>11, <2>2 DEF BlockingCreate, CreateFails
  <2> QED
    BY <1>11, <2>1, <2>3 DEF BlockingCreate, CreateFails, api, budget
<1>12. ASSUME DelLoadReconciling(v) PROVE TypeOK'
  BY <1>12 DEF DelLoadReconciling, api, limits, vsphere, budget
<1>13. ASSUME DelGetVM(v) PROVE TypeOK'
  BY <1>13 DEF DelGetVM, Findable, api, limits, vsphere, budget
<1>14. ASSUME DelDestroy(v) PROVE TypeOK'
  <2>1. vc[v] - 1 \in Nat
    BY <1>14 DEF Looked, DelDestroy, At
  <2> QED
    BY <1>14, <2>1 DEF DelDestroy, api, limits, budget
<1> QED
  BY <1>1, <1>2, <1>3, <1>4, <1>5, <1>6, <1>7, <1>8, <1>9, <1>10, <1>11, <1>12,
     <1>13, <1>14 DEF Worker

\* Every step of a goroutine keeps the types.
LEMMA TypeGoroutine ==
  ASSUME TypeOK, NEW v \in VM, Goroutine(v)
  PROVE  TypeOK'
<1> USE GorGotoType, FaultType DEF TypeOK, GorSteps
<1>1. ASSUME GorCreate(v) PROVE TypeOK'
  <2>1. [pc |-> "report", ok |-> TRUE] \in Gor
    BY DEF Gor
  <2>2. vc' \in [VM -> Nat]
    BY <1>1 DEF GorCreate, CreateFails
  <2> QED
    BY <1>1, <2>1, <2>2 DEF GorCreate, CreateFails, api, threads, limits, budget
<1>2. ASSUME GorReport(v) PROVE TypeOK'
  BY <1>2 DEF GorReport, api, threads, limits, vsphere, budget
<1>3. ASSUME GorPatch(v) PROVE TypeOK'
  <2>1. [obj[v] EXCEPT !.uid = @ \/ gor[v].ok] \in Object
    <3>1. obj[v] \in Object
      OBVIOUS
    <3>2. ASSUME NEW b \in BOOLEAN PROVE [obj[v] EXCEPT !.uid = b] \in Object
      BY <3>1 DEF Object
    <3> QED
      BY <3>2
  <2> QED
    BY <1>3, <2>1, WriteType DEF GorPatch, api, limits, vsphere, budget
<1>4. ASSUME GorReportPatch(v) PROVE TypeOK'
  BY <1>4 DEF GorReportPatch, api, threads, limits, vsphere, budget
<1>5. ASSUME GorClose(v) PROVE TypeOK'
  BY <1>5 DEF GorClose, api, threads, limits, vsphere, budget
<1>6. ASSUME GorDelete(v) PROVE TypeOK'
  BY <1>6, NullTypes DEF GorDelete, api, threads, vsphere, budget
<1> QED
  BY <1>1, <1>2, <1>3, <1>4, <1>5, <1>6 DEF Goroutine

\* Every step of the users, the informer and vSphere keeps the types.
LEMMA TypeEnvironment ==
  ASSUME TypeOK, NEW v \in VM, Environment(v)
  PROVE  TypeOK'
<1> USE WriteType DEF TypeOK
<1>1. ASSUME CreateObject(v) PROVE TypeOK'
  <2>1. [NoObject EXCEPT !.st = "live"] \in Object
    BY DEF NoObject, Object
  <2> QED
    BY <1>1, <2>1 DEF CreateObject, limits, vsphere, budget
<1>2. ASSUME DeleteObject(v) PROVE TypeOK'
  <2>1. [obj[v] EXCEPT !.st = IF obj[v].fin = "none" THEN "gone" ELSE "deleting"] \in Object
    BY DEF Object
  <2> QED
    BY <1>2, <2>1 DEF DeleteObject, limits, vsphere, budget
<1>3. ASSUME SetPaused(v) PROVE TypeOK'
  <2>1. [obj[v] EXCEPT !.paused = ~@] \in Object
    BY DEF Object
  <2> QED
    BY <1>3, <2>1 DEF SetPaused, limits, vsphere, budget
<1>4. ASSUME WatchEvent(v) PROVE TypeOK'
  BY <1>4 DEF WatchEvent, limits, vsphere, budget
<1>5. ASSUME OtherEvent(v) PROVE TypeOK'
  BY <1>5 DEF OtherEvent, api, limits, vsphere, budget
<1>6. ASSUME LostTask(v) PROVE TypeOK'
  BY <1>6 DEF LostTask, api, threads, limits, budget
<1> QED
  BY <1>1, <1>2, <1>3, <1>4, <1>5, <1>6 DEF Environment

\* Every step keeps the types; the one that needs more than the types is the
\* destroy, which must have a VM to destroy.
LEMMA TypeNext ==
  ASSUME TypeOK, Looked, [Next]_vars
  PROVE  TypeOK'
<1>1. ASSUME NEW v \in VM, Reconcile(v) PROVE TypeOK'
  <2>1. ASSUME Exists(cache[v])
        PROVE  [pc |-> FirstStep(cache[v]), knownUid |-> cache[v].uid,
                change |-> FirstChange(cache[v]), again |-> FALSE] \in Rec
    BY <2>1 DEF TypeOK, Object, Exists, FirstStep, FirstChange, Rec, RecSteps, Change
  <2> QED
    BY <1>1, <2>1 DEF TypeOK, Reconcile, api, limits, vsphere, budget
<1>2. ASSUME Decrement PROVE TypeOK'
  BY <1>2 DEF TypeOK, Decrement, api, threads, vsphere, budget
<1>3. ASSUME Crash PROVE TypeOK'
  BY <1>3, NullTypes, ControllerAssumption DEF TypeOK, Crash
<1>4. ASSUME UNCHANGED vars PROVE TypeOK'
  BY <1>4 DEF TypeOK, vars, api, threads, limits, vsphere, budget
<1> QED
  BY <1>1, <1>2, <1>3, <1>4, TypeWorker, TypeGoroutine, TypeEnvironment DEF Next


-----------------------------------------------------------------------------
(* currentlyReconciling keeps the workers and the goroutines apart. *)

\* Every step of a worker keeps a VM registered for as long as it must be.
LEMMA RegisteredWorker ==
  ASSUME TypeOK, Registered, NEW v \in VM, Worker(v)
  PROVE  Registered'
<1>0. rec \in [VM -> Rec] /\ gor \in [VM -> Gor]
  BY DEF TypeOK
<1> USE <1>0, GotoType, ReturnType DEF Registered, RecSteps, Change, At
<1>1. ASSUME Patch(v) \/ PatchFails(v) PROVE Registered'
  BY <1>1 DEF Patch, PatchFails, Idle, limits
<1>2. ASSUME LoadReconciling(v) \/ DelLoadReconciling(v) PROVE Registered'
  BY <1>2 DEF LoadReconciling, DelLoadReconciling, limits
<1>3. ASSUME GetVM(v) \/ DelGetVM(v) PROVE Registered'
  <2>1. rec'[v].pc \in {"update", "limit", "delDestroy", "patch"} /\ \A u \in VM \ {v} : rec'[u] = rec[u]
    BY <1>3 DEF GetVM, Findable, DelGetVM
  <2>2. rec[v].pc \in {"getVM", "delGetVM"} /\ UNCHANGED <<gor, reconciling>>
    BY <1>3 DEF GetVM, Findable, DelGetVM, limits
  <2> QED
    BY <2>1, <2>2
<1>4. ASSUME Update(v) PROVE Registered'
  <2>1. rec'[v].pc \in {"patch"} /\ \A u \in VM \ {v} : rec'[u] = rec[u]
    BY <1>4 DEF Update
  <2>2. UNCHANGED <<gor, reconciling>>
    BY <1>4 DEF Update, limits
  <2> QED
    BY <2>1, <2>2
<1>5. ASSUME CreateAllowed(v) PROVE Registered'
  <2>1. rec'[v].pc \in {"store", "blockingArgs", "patch"} /\ \A u \in VM \ {v} : rec'[u] = rec[u]
    BY <1>5 DEF CreateAllowed
  <2>2. rec[v].pc = "limit" /\ UNCHANGED <<gor, reconciling>>
    BY <1>5 DEF CreateAllowed
  <2> QED
    BY <2>1, <2>2
<1>6. ASSUME StoreReconciling(v) PROVE Registered'
  <2>1. CASE v \in reconciling
    BY <1>6, <2>1 DEF StoreReconciling
  <2>2. CASE v \notin reconciling
    <3>1. rec'[v].pc = "args" /\ \A u \in VM \ {v} : rec'[u] = rec[u]
      BY <1>6, <2>2 DEF StoreReconciling
    <3>2. reconciling' = reconciling \cup {v} /\ UNCHANGED gor /\ rec[v].pc = "store"
      BY <1>6, <2>2 DEF StoreReconciling
    <3> QED
      BY <3>1, <3>2
  <2> QED
    BY <2>1, <2>2
<1>7. ASSUME CreateArgs(v) PROVE Registered'
  <2>1. /\ rec[v].pc = "args" /\ rec'[v].pc \in {"spawned", "patch"}
        /\ \A u \in VM \ {v} : rec'[u] = rec[u]
    BY <1>7 DEF CreateArgs
  <2>2. \/ gor' = [gor EXCEPT ![v] = [pc |-> "create", ok |-> FALSE]] /\ reconciling' = reconciling
        \/ gor' = gor /\ reconciling' = reconciling \ {v}
    BY <1>7 DEF CreateArgs
  <2> QED
    BY <2>1, <2>2
<1>8. ASSUME StartHandler(v) PROVE Registered'
  <2>1. rec'[v].pc \in {"patch"} /\ \A u \in VM \ {v} : rec'[u] = rec[u]
    BY <1>8 DEF StartHandler
  <2>2. UNCHANGED <<gor, reconciling>>
    BY <1>8 DEF StartHandler, limits
  <2> QED
    BY <2>1, <2>2
<1>9. ASSUME BlockingArgs(v) PROVE Registered'
  <2>1. rec[v].pc = "blockingArgs" /\ rec'[v].pc \in {"blockingCreate", "patch"}
        /\ \A u \in VM \ {v} : rec'[u] = rec[u]
    BY <1>9 DEF BlockingArgs
  <2>2. UNCHANGED <<gor, reconciling>>
    BY <1>9 DEF BlockingArgs
  <2> QED
    BY <2>1, <2>2
<1>10. ASSUME BlockingCreate(v) PROVE Registered'
  <2>1. rec'[v].pc \in {"patch"} /\ \A u \in VM \ {v} : rec'[u] = rec[u]
    BY <1>10 DEF BlockingCreate, CreateFails
  <2>2. UNCHANGED <<gor, reconciling>>
    BY <1>10 DEF BlockingCreate, CreateFails
  <2> QED
    BY <2>1, <2>2
<1>11. ASSUME DelDestroy(v) PROVE Registered'
  <2>1. rec'[v].pc \in {"patch"} /\ \A u \in VM \ {v} : rec'[u] = rec[u]
    BY <1>11 DEF DelDestroy
  <2>2. UNCHANGED <<gor, reconciling>>
    BY <1>11 DEF DelDestroy, limits
  <2> QED
    BY <2>1, <2>2
<1> QED
  BY <1>1, <1>2, <1>3, <1>4, <1>5, <1>6, <1>7, <1>8, <1>9, <1>10, <1>11 DEF Worker

\* Every step keeps a VM registered for as long as it must be.
LEMMA RegisteredNext ==
  ASSUME TypeOK, Registered, [Next]_vars
  PROVE  Registered'
<1>0. rec \in [VM -> Rec] /\ gor \in [VM -> Gor]
  BY DEF TypeOK
<1> USE <1>0 DEF Registered
<1>1. ASSUME NEW v \in VM, Reconcile(v) PROVE Registered'
  <2>1. ASSUME Exists(cache[v]) PROVE FirstStep(cache[v]) \in {"load", "delLoad", "patch"}
    BY <2>1 DEF TypeOK, Object, Exists, FirstStep
  <2> QED
    BY <1>1, <2>1 DEF Reconcile, limits
<1>2. ASSUME NEW v \in VM, GorDelete(v) PROVE Registered'
  BY <1>2 DEF GorDelete, GorAt, NoGor, threads
<1>3. ASSUME NEW v \in VM, Goroutine(v), ~GorDelete(v) PROVE Registered'
  <2>1. gor[v].pc # "none" /\ gor'[v].pc \in GorSteps
    BY <1>3, GorGotoType
    DEF Goroutine, GorCreate, CreateFails, GorReport, GorPatch, GorReportPatch, GorClose, GorAt, GorSteps, Gor
  <2>2. \A u \in VM \ {v} : gor'[u] = gor[u]
    BY <1>3, GorGotoType
    DEF Goroutine, GorCreate, CreateFails, GorReport, GorPatch, GorReportPatch, GorClose, GorSteps
  <2>3. UNCHANGED <<rec, reconciling>>
    BY <1>3
    DEF Goroutine, GorCreate, CreateFails, GorReport, GorPatch, GorReportPatch, GorClose, threads, limits
  <2> QED
    BY <2>1, <2>2, <2>3
<1>4. ASSUME \/ \E v \in VM : Environment(v)
             \/ Decrement
             \/ UNCHANGED vars
      PROVE  Registered'
  <2>1. UNCHANGED <<rec, gor, reconciling>>
    BY <1>4 DEF Environment, CreateObject, DeleteObject, SetPaused, WatchEvent, OtherEvent,
                LostTask, Decrement, vars, threads, limits
  <2> QED
    BY <2>1
<1>5. ASSUME Crash PROVE Registered'
  BY <1>5 DEF Crash, Idle, NoGor
<1> QED
  BY <1>1, <1>2, <1>3, <1>4, <1>5, RegisteredWorker DEF Next


-----------------------------------------------------------------------------
(* The create slots. *)

\* What a step does to the count must be what it does to the holders of a slot.
LEMMA SlotsBalance ==
  ASSUME TypeOK, SlotsAccounted, NEW v \in VM,
         \A u \in VM \ {v} : rec'[u] = rec[u] /\ gor'[u] = gor[u],
         createCount' - createCount = releasing' - releasing
           + (IF v \in RecHolders' THEN 1 ELSE 0) - (IF v \in RecHolders THEN 1 ELSE 0)
           + (IF v \in GorHolders' THEN 1 ELSE 0) - (IF v \in GorHolders THEN 1 ELSE 0),
         createCount' \in Int, releasing' \in Nat
  PROVE  SlotsAccounted'
<1>1. createCount \in Int /\ releasing \in Nat
  BY DEF TypeOK
<1>2. Cardinality(RecHolders') = Cardinality(RecHolders)
        + (IF v \in RecHolders' THEN 1 ELSE 0) - (IF v \in RecHolders THEN 1 ELSE 0)
  BY WorkerMoves
<1>3. Cardinality(GorHolders') = Cardinality(GorHolders)
        + (IF v \in GorHolders' THEN 1 ELSE 0) - (IF v \in GorHolders THEN 1 ELSE 0)
  BY GoroutineMoves
<1> QED
  BY <1>1, <1>2, <1>3, HoldersFinite DEF SlotsAccounted

\* Every step of a worker keeps the account of the slots.
LEMMA SlotsWorker ==
  ASSUME TypeOK, TypeOK', Registered, SlotsAccounted, NEW v \in VM, Worker(v)
  PROVE  SlotsAccounted'
<1>0. /\ rec \in [VM -> Rec] /\ gor \in [VM -> Gor]
      /\ createCount \in Int /\ createCount' \in Int /\ releasing \in Nat /\ releasing' \in Nat
  BY DEF TypeOK
<1> USE <1>0 DEF RecSteps, Change, At
<1> DEFINE Holds(r) == r[v].pc \in {"store", "args", "blockingArgs", "blockingCreate"}
<1>a. (v \in RecHolders <=> Holds(rec)) /\ (v \in RecHolders' <=> Holds(rec'))
  BY DEF RecHolders
<1>b. (v \in GorHolders <=> gor[v].pc # "none") /\ (v \in GorHolders' <=> gor'[v].pc # "none")
  BY DEF GorHolders
<1>1. ASSUME \/ Patch(v) \/ PatchFails(v) \/ LoadReconciling(v) \/ GetVM(v) \/ Update(v)
             \/ StartHandler(v) \/ DelLoadReconciling(v) \/ DelGetVM(v) \/ DelDestroy(v)
      PROVE  SlotsAccounted'
  <2>1. ~Holds(rec)
    BY <1>1 DEF Patch, PatchFails, LoadReconciling, GetVM, Findable, Update, StartHandler,
                DelLoadReconciling, DelGetVM, Findable, DelDestroy
  <2>2. ~Holds(rec') /\ \A u \in VM \ {v} : rec'[u] = rec[u]
    <3>1. CASE Patch(v) \/ PatchFails(v)
      BY <3>1 DEF Patch, PatchFails, Idle
    <3>2. CASE LoadReconciling(v) \/ DelLoadReconciling(v)
      BY <3>2, GotoType, ReturnType DEF LoadReconciling, DelLoadReconciling
    <3>3. CASE GetVM(v) \/ DelGetVM(v)
      BY <3>3, GotoType, ReturnType DEF GetVM, Findable, DelGetVM
    <3>4. CASE Update(v) \/ StartHandler(v) \/ DelDestroy(v)
      BY <3>4, GotoType, ReturnType DEF Update, StartHandler, DelDestroy
    <3> QED
      BY <1>1, <3>1, <3>2, <3>3, <3>4
  <2>3. UNCHANGED <<gor, createCount, releasing>>
    BY <1>1 DEF Patch, PatchFails, LoadReconciling, GetVM, Findable, Update, StartHandler,
                DelLoadReconciling, DelGetVM, Findable, DelDestroy, limits
  <2> HIDE DEF Holds
  <2> QED
    BY <1>a, <1>b, <2>1, <2>2, <2>3, SlotsBalance
<1>2. ASSUME CreateAllowed(v) PROVE SlotsAccounted'
  <2>1. ~Holds(rec) /\ UNCHANGED <<gor, releasing>>
    BY <1>2 DEF CreateAllowed
  <2>2. /\ \A u \in VM \ {v} : rec'[u] = rec[u]
        /\ \/ Holds(rec') /\ createCount' = createCount + 1
           \/ ~Holds(rec') /\ createCount' = createCount
    BY <1>2, GotoType, ReturnType DEF CreateAllowed
  <2> HIDE DEF Holds
  <2>3. CASE Holds(rec')
    BY <1>a, <1>b, <2>1, <2>2, <2>3, SlotsBalance
  <2>4. CASE ~Holds(rec')
    <3>1. createCount' = createCount
      BY <2>2, <2>4
    <3>2. v \notin RecHolders'
      BY <1>a, <2>4
    <3> QED
      BY <1>a, <1>b, <2>1, <2>2, <3>1, <3>2, SlotsBalance
  <2> QED
    BY <2>3, <2>4
<1>3. ASSUME StoreReconciling(v) PROVE SlotsAccounted'
  <2>1. Holds(rec) /\ UNCHANGED <<gor, releasing>>
    BY <1>3 DEF StoreReconciling
  <2>2. /\ \A u \in VM \ {v} : rec'[u] = rec[u]
        /\ \/ Holds(rec') /\ createCount' = createCount
           \/ ~Holds(rec') /\ createCount' = createCount - 1
    BY <1>3, GotoType, ReturnType DEF StoreReconciling
  <2> HIDE DEF Holds
  <2>3. CASE Holds(rec')
    BY <1>a, <1>b, <2>1, <2>2, <2>3, SlotsBalance
  <2>4. CASE ~Holds(rec')
    <3>1. createCount' = createCount - 1
      BY <2>2, <2>4
    <3>2. v \notin RecHolders'
      BY <1>a, <2>4
    <3> QED
      BY <1>a, <1>b, <2>1, <2>2, <3>1, <3>2, SlotsBalance
  <2> QED
    BY <2>3, <2>4
<1>4. ASSUME CreateArgs(v) PROVE SlotsAccounted'
  <2>1. Holds(rec) /\ gor[v].pc = "none" /\ UNCHANGED createCount
    BY <1>4 DEF CreateArgs, Registered
  <2>2. ~Holds(rec') /\ \A u \in VM \ {v} : rec'[u] = rec[u] /\ gor'[u] = gor[u]
    BY <1>4, GotoType, ReturnType DEF CreateArgs
  <2>3. CASE gor' = [gor EXCEPT ![v] = [pc |-> "create", ok |-> FALSE]] /\ UNCHANGED releasing
    <3>1. gor'[v].pc # "none"
      BY <2>3
    <3> HIDE DEF Holds
    <3> QED
      BY <1>a, <1>b, <2>1, <2>2, <2>3, <3>1, SlotsBalance
  <2>4. CASE gor' = gor /\ releasing' = releasing + 1
    <3> HIDE DEF Holds
    <3> QED
      BY <1>a, <1>b, <2>1, <2>2, <2>4, SlotsBalance
  <2> QED
    BY <1>4, <2>3, <2>4 DEF CreateArgs
<1>5. ASSUME BlockingArgs(v) PROVE SlotsAccounted'
  <2>1. Holds(rec) /\ UNCHANGED <<gor, releasing>>
    BY <1>5 DEF BlockingArgs
  <2>2. /\ \A u \in VM \ {v} : rec'[u] = rec[u]
        /\ \/ Holds(rec') /\ createCount' = createCount
           \/ ~Holds(rec') /\ createCount' = createCount - 1
    BY <1>5, GotoType, ReturnType DEF BlockingArgs
  <2> HIDE DEF Holds
  <2>3. CASE Holds(rec')
    BY <1>a, <1>b, <2>1, <2>2, <2>3, SlotsBalance
  <2>4. CASE ~Holds(rec')
    <3>1. createCount' = createCount - 1
      BY <2>2, <2>4
    <3>2. v \notin RecHolders'
      BY <1>a, <2>4
    <3> QED
      BY <1>a, <1>b, <2>1, <2>2, <3>1, <3>2, SlotsBalance
  <2> QED
    BY <2>3, <2>4
<1>6. ASSUME BlockingCreate(v) PROVE SlotsAccounted'
  <2>1. Holds(rec) /\ UNCHANGED <<gor, releasing>> /\ createCount' = createCount - 1
    BY <1>6 DEF BlockingCreate, CreateFails
  <2>2. ~Holds(rec') /\ \A u \in VM \ {v} : rec'[u] = rec[u]
    BY <1>6, GotoType, ReturnType DEF BlockingCreate, CreateFails
  <2> HIDE DEF Holds
  <2> QED
    BY <1>a, <1>b, <2>1, <2>2, SlotsBalance
<1> QED
  BY <1>1, <1>2, <1>3, <1>4, <1>5, <1>6 DEF Worker


\* Every step keeps the account of the slots.
LEMMA SlotsNext ==
  ASSUME TypeOK, TypeOK', Registered, SlotsAccounted, [Next]_vars
  PROVE  SlotsAccounted'
<1>0. /\ rec \in [VM -> Rec] /\ gor \in [VM -> Gor]
      /\ createCount \in Int /\ createCount' \in Int /\ releasing \in Nat /\ releasing' \in Nat
  BY DEF TypeOK
<1>1. ASSUME NEW v \in VM, Reconcile(v) PROVE SlotsAccounted'
  <2>1. UNCHANGED <<gor, createCount, releasing>>
    BY <1>1 DEF Reconcile, limits
  <2>2. ASSUME Exists(cache[v]) PROVE FirstStep(cache[v]) \in {"load", "delLoad", "patch"}
    BY <2>2 DEF TypeOK, Object, Exists, FirstStep
  <2>3. v \notin RecHolders /\ v \notin RecHolders'
    BY <1>0, <1>1, <2>2 DEF Reconcile, RecHolders, At
  <2>4. \A u \in VM \ {v} : rec'[u] = rec[u]
    BY <1>0, <1>1 DEF Reconcile
  <2>5. GorHolders' = GorHolders
    BY <2>1 DEF GorHolders
  <2> QED
    BY <1>0, <2>1, <2>3, <2>4, <2>5, SlotsBalance
<1>2. ASSUME NEW v \in VM, GorDelete(v) PROVE SlotsAccounted'
  <2>1. releasing' = releasing + 1 /\ UNCHANGED <<rec, createCount>>
    BY <1>2 DEF GorDelete, threads
  <2>2. v \in GorHolders /\ v \notin GorHolders'
    BY <1>0, <1>2 DEF GorDelete, GorAt, NoGor, GorHolders
  <2>3. \A u \in VM \ {v} : gor'[u] = gor[u]
    BY <1>0, <1>2 DEF GorDelete
  <2>4. RecHolders' = RecHolders
    BY <2>1 DEF RecHolders
  <2> QED
    BY <1>0, <2>1, <2>2, <2>3, <2>4, SlotsBalance
<1>3. ASSUME NEW v \in VM, Goroutine(v), ~GorDelete(v) PROVE SlotsAccounted'
  <2>1. gor[v].pc # "none" /\ gor'[v].pc # "none"
    BY <1>0, <1>3, GorGotoType
    DEF Goroutine, GorCreate, CreateFails, GorReport, GorPatch, GorReportPatch, GorClose, GorAt, GorSteps
  <2>2. \A u \in VM \ {v} : gor'[u] = gor[u]
    BY <1>0, <1>3, GorGotoType
    DEF Goroutine, GorCreate, CreateFails, GorReport, GorPatch, GorReportPatch, GorClose, GorSteps
  <2>3. UNCHANGED <<rec, createCount, releasing>>
    BY <1>3
    DEF Goroutine, GorCreate, CreateFails, GorReport, GorPatch, GorReportPatch, GorClose, threads, limits
  <2>4. RecHolders' = RecHolders /\ GorHolders' = GorHolders
    BY <2>1, <2>2, <2>3 DEF RecHolders, GorHolders
  <2> QED
    BY <2>3, <2>4 DEF SlotsAccounted
<1>4. ASSUME (\E v \in VM : Environment(v)) \/ UNCHANGED vars PROVE SlotsAccounted'
  <2>1. UNCHANGED <<rec, gor, createCount, releasing>>
    BY <1>4 DEF Environment, CreateObject, DeleteObject, SetPaused, WatchEvent, OtherEvent,
                LostTask, vars, threads, limits
  <2>2. RecHolders' = RecHolders /\ GorHolders' = GorHolders
    BY <2>1 DEF RecHolders, GorHolders
  <2> QED
    BY <2>1, <2>2 DEF SlotsAccounted
<1>5. ASSUME Decrement PROVE SlotsAccounted'
  <2>1. /\ releasing' = releasing - 1 /\ createCount' = createCount - 1
        /\ UNCHANGED <<rec, gor>>
    BY <1>5 DEF Decrement, threads
  <2>2. RecHolders' = RecHolders /\ GorHolders' = GorHolders
    BY <2>1 DEF RecHolders, GorHolders
  <2> QED
    BY <1>0, <2>1, <2>2, HoldersFinite DEF SlotsAccounted
<1>6. ASSUME Crash PROVE SlotsAccounted'
  <2>1. RecHolders' = {} /\ GorHolders' = {} /\ createCount' = 0 /\ releasing' = 0
    BY <1>6 DEF Crash, RecHolders, GorHolders, Idle, NoGor
  <2> QED
    BY <2>1, FS_EmptySet DEF SlotsAccounted
<1> QED
  BY <1>1, <1>2, <1>3, <1>4, <1>5, <1>6, SlotsWorker DEF Next

\* Only vmCreateConcurrentAllowed counts up, and only below the limit.
LEMMA BoundedNext ==
  ASSUME TypeOK, CreatesBounded, [Next]_vars
  PROVE  CreatesBounded'
<1>0. createCount \in Int /\ releasing \in Nat /\ MaxDeployThreads \in Nat \ {0}
  BY ControllerAssumption DEF TypeOK
<1>1. ASSUME NEW v \in VM, CreateAllowed(v) PROVE CreatesBounded'
  <2>1. \/ ~(createCount >= MaxDeployThreads) /\ createCount' = createCount + 1
        \/ createCount' = createCount
    BY <1>1 DEF CreateAllowed
  <2> QED
    BY <1>0, <2>1 DEF CreatesBounded
<1>2. ASSUME Crash PROVE CreatesBounded'
  BY <1>0, <1>2 DEF Crash, CreatesBounded
<1>3. ASSUME ~Crash, \A v \in VM : ~CreateAllowed(v) PROVE CreatesBounded'
  <2>1. createCount' = createCount \/ createCount' = createCount - 1
    BY <1>3
    DEF Next, Worker, Goroutine, Environment, Reconcile, Patch, PatchFails, LoadReconciling,
        GetVM, Findable, Update, StoreReconciling, CreateArgs, StartHandler, BlockingArgs, BlockingCreate, CreateFails,
        DelLoadReconciling, DelGetVM, Findable, DelDestroy, GorCreate, CreateFails, GorReport, GorPatch,
        GorReportPatch, GorClose, GorDelete, CreateObject, DeleteObject, SetPaused, WatchEvent,
        OtherEvent, LostTask, Decrement, vars, limits
  <2> QED
    BY <1>0, <2>1 DEF CreatesBounded
<1> QED
  BY <1>1, <1>2, <1>3


-----------------------------------------------------------------------------
(* What is known of vSphere. *)

\* Every step of a worker keeps what workers and goroutines know of vSphere.
LEMMA LookedWorker ==
  ASSUME TypeOK, Registered, Looked, NEW v \in VM, Worker(v)
  PROVE  Looked'
<1>0. rec \in [VM -> Rec] /\ gor \in [VM -> Gor] /\ vc \in [VM -> Nat]
  BY DEF TypeOK
<1> DEFINE New == {"limit", "store", "args", "blockingArgs", "blockingCreate"}
<1>1. ASSUME \/ Patch(v) \/ PatchFails(v) \/ LoadReconciling(v) \/ Update(v) \/ StartHandler(v)
             \/ DelLoadReconciling(v)
      PROVE  Looked'
  <2>1. rec'[v].pc \notin New \cup {"delDestroy"} /\ \A u \in VM \ {v} : rec'[u] = rec[u]
    <3>1. CASE Patch(v) \/ PatchFails(v)
      BY <1>0, <3>1 DEF Patch, PatchFails, Idle
    <3>2. CASE LoadReconciling(v) \/ DelLoadReconciling(v)
      BY <1>0, <3>2, GotoType, ReturnType
      DEF LoadReconciling, DelLoadReconciling, RecSteps, Change
    <3>3. CASE Update(v) \/ StartHandler(v)
      BY <1>0, <3>3, ReturnType DEF Update, StartHandler, Change
    <3> QED
      BY <1>1, <3>1, <3>2, <3>3
  <2>2. UNCHANGED <<gor, vsphere>>
    BY <1>1 DEF Patch, PatchFails, LoadReconciling, Update, StartHandler, DelLoadReconciling
  <2> QED
    BY <2>1, <2>2 DEF Looked, vsphere
<1>2. ASSUME GetVM(v) \/ DelGetVM(v) PROVE Looked'
  <2>1. UNCHANGED <<gor, vsphere>>
    BY <1>2 DEF GetVM, Findable, DelGetVM
  <2>2. \A u \in VM \ {v} : rec'[u] = rec[u]
    BY <1>0, <1>2, GotoType, ReturnType DEF GetVM, Findable, DelGetVM, RecSteps, Change
  <2>3. \/ rec'[v].pc \in {"update", "patch"}
        \/ rec'[v].pc = "limit" /\ vc[v] = 0
        \/ rec'[v].pc = "delDestroy" /\ vc[v] >= 1
    <3>1. CASE GetVM(v)
      <4>1. \/ Goto(v, "update") \/ Return(v, "nothing", TRUE)
            \/ Goto(v, "limit") /\ vc[v] = 0
        BY <3>1 DEF GetVM, Findable
      <4> QED
        BY <1>0, <4>1, GotoType, ReturnType DEF RecSteps, Change
    <3>2. CASE DelGetVM(v)
      <4>0. Findable(v) => vc[v] >= 1
        <5>1. vc[v] \in Nat
          BY <1>0
        <5> QED
          BY <5>1 DEF Findable
      <4>1. \/ Return(v, "removeFinalizer", FALSE) \/ Return(v, "nothing", TRUE)
            \/ Goto(v, "delDestroy") /\ vc[v] >= 1
        BY <3>2, <4>0, Zenon DEF DelGetVM
      <4> QED
        BY <1>0, <4>1, GotoType, ReturnType DEF RecSteps, Change
    <3> QED
      BY <1>2, <3>1, <3>2
  <2> QED
    BY <1>0, <2>1, <2>2, <2>3 DEF Looked, vsphere
<1>3. ASSUME CreateAllowed(v) \/ StoreReconciling(v) \/ BlockingArgs(v) PROVE Looked'
  <2>1. UNCHANGED <<gor, vsphere>>
    BY <1>3 DEF CreateAllowed, StoreReconciling, BlockingArgs
  <2>2. rec[v].pc \in New /\ rec'[v].pc # "delDestroy"
    BY <1>0, <1>3, GotoType, ReturnType
    DEF CreateAllowed, StoreReconciling, BlockingArgs, RecSteps, Change, At
  <2>3. \A u \in VM \ {v} : rec'[u] = rec[u]
    BY <1>0, <1>3, GotoType, ReturnType
    DEF CreateAllowed, StoreReconciling, BlockingArgs, RecSteps, Change
  <2> QED
    BY <2>1, <2>2, <2>3 DEF Looked, vsphere
<1>4. ASSUME CreateArgs(v) PROVE Looked'
  <2>1. rec[v].pc = "args" /\ UNCHANGED vsphere
    BY <1>4 DEF CreateArgs, At
  <2>2. rec'[v].pc \in {"spawned", "patch"}
    BY <1>0, <1>4, GotoType, ReturnType DEF CreateArgs, RecSteps, Change
  <2>3. \A u \in VM \ {v} : rec'[u] = rec[u] /\ gor'[u] = gor[u]
    BY <1>0, <1>4, GotoType, ReturnType DEF CreateArgs, RecSteps, Change
  <2> QED
    BY <2>1, <2>2, <2>3 DEF Looked, vsphere
<1>5. ASSUME BlockingCreate(v) PROVE Looked'
  <2>1. /\ rec[v].pc = "blockingCreate" /\ gor[v].pc = "none" /\ UNCHANGED gor
        /\ (lost' = lost /\ everLost' = everLost) \/ (lost' = lost \cup {v} /\ everLost' = everLost \cup {v})
    BY <1>5 DEF BlockingCreate, CreateFails, At, Registered
  <2>2. rec'[v].pc = "patch" /\ \A u \in VM \ {v} : rec'[u] = rec[u]
    BY <1>0, <1>5, ReturnType DEF BlockingCreate, CreateFails, Change
  <2>3. /\ vc'[v] = vc[v] \/ vc'[v] = vc[v] + 1
        /\ \A u \in VM \ {v} : vc'[u] = vc[u]
    BY <1>0, <1>5 DEF BlockingCreate, CreateFails
  <2>4. vc[v] \in Nat /\ (v \notin everLost => vc[v] = 0)
    BY <1>0, <2>1 DEF Looked
  <2> QED
    BY <2>1, <2>2, <2>3, <2>4 DEF Looked
<1>6. ASSUME DelDestroy(v) PROVE Looked'
  <2>1. rec[v].pc = "delDestroy" /\ gor[v].pc = "none" /\ UNCHANGED <<gor, lost, everLost>>
    BY <1>6 DEF DelDestroy, At, Registered
  <2>2. rec'[v].pc = "patch" /\ \A u \in VM \ {v} : rec'[u] = rec[u]
    BY <1>0, <1>6, ReturnType DEF DelDestroy, Change
  <2>3. /\ vc'[v] = vc[v] \/ vc'[v] = vc[v] - 1
        /\ \A u \in VM \ {v} : vc'[u] = vc[u]
    BY <1>0, <1>6 DEF DelDestroy
  <2>4. vc[v] \in Nat
    BY <1>0
  <2> QED
    BY <2>1, <2>2, <2>3, <2>4 DEF Looked
<1> QED
  BY <1>1, <1>2, <1>3, <1>4, <1>5, <1>6 DEF Worker

\* Every step keeps what workers and goroutines know of vSphere.
LEMMA LookedNext ==
  ASSUME TypeOK, Registered, Looked, [Next]_vars
  PROVE  Looked'
<1>0. rec \in [VM -> Rec] /\ gor \in [VM -> Gor] /\ vc \in [VM -> Nat]
  BY DEF TypeOK
<1>1. ASSUME NEW v \in VM, Reconcile(v) PROVE Looked'
  <2>1. ASSUME Exists(cache[v]) PROVE FirstStep(cache[v]) \in {"load", "delLoad", "patch"}
    BY <2>1 DEF TypeOK, Object, Exists, FirstStep
  <2> QED
    BY <1>0, <1>1, <2>1 DEF Looked, Reconcile, vsphere
<1>2. ASSUME NEW v \in VM, GorCreate(v) PROVE Looked'
  <2>1. /\ gor[v].pc = "create" /\ UNCHANGED rec
        /\ (lost' = lost /\ everLost' = everLost) \/ (lost' = lost \cup {v} /\ everLost' = everLost \cup {v})
    BY <1>2 DEF GorCreate, CreateFails, GorAt, threads
  <2>2. gor'[v].pc = "report" /\ \A u \in VM \ {v} : gor'[u] = gor[u]
    BY <1>0, <1>2, GorGotoType DEF GorCreate, CreateFails, GorSteps
  <2>3. /\ vc'[v] = vc[v] \/ vc'[v] = vc[v] + 1
        /\ \A u \in VM \ {v} : vc'[u] = vc[u]
    BY <1>0, <1>2 DEF GorCreate, CreateFails
  <2>4. vc[v] \in Nat /\ (v \notin everLost => vc[v] = 0)
    BY <1>0, <2>1 DEF Looked
  <2>5. rec[v].pc \notin {"limit", "store", "args", "blockingArgs", "blockingCreate", "delDestroy"}
    BY <2>1 DEF Registered
  <2> QED
    BY <2>1, <2>2, <2>3, <2>4, <2>5 DEF Looked
<1>3. ASSUME NEW v \in VM, Goroutine(v), ~GorCreate(v) PROVE Looked'
  <2>1. UNCHANGED <<rec, vsphere>>
    BY <1>3 DEF Goroutine, GorReport, GorPatch, GorReportPatch, GorClose, GorDelete, threads
  <2>2. gor'[v].pc # "create" /\ \A u \in VM \ {v} : gor'[u] = gor[u]
    BY <1>0, <1>3, GorGotoType
    DEF Goroutine, GorReport, GorPatch, GorReportPatch, GorClose, GorDelete, NoGor, GorSteps
  <2> QED
    BY <2>1, <2>2 DEF Looked, vsphere
<1>4. ASSUME NEW v \in VM, LostTask(v) PROVE Looked'
  <2>1. v \in everLost /\ lost' = lost \ {v} /\ UNCHANGED <<rec, gor, everLost>>
    BY <1>4 DEF LostTask, Looked, threads
  <2>2. /\ vc'[v] = vc[v] \/ vc'[v] = vc[v] + 1
        /\ \A u \in VM \ {v} : vc'[u] = vc[u]
    BY <1>0, <1>4 DEF LostTask
  <2>3. vc[v] \in Nat
    BY <1>0
  <2> QED
    BY <2>1, <2>2, <2>3 DEF Looked
<1>5. ASSUME \/ \E v \in VM : Environment(v) /\ ~LostTask(v)
             \/ Decrement
             \/ UNCHANGED vars
      PROVE  Looked'
  <2>1. UNCHANGED <<rec, gor, vsphere>>
    BY <1>5 DEF Environment, CreateObject, DeleteObject, SetPaused, WatchEvent, OtherEvent,
                Decrement, vars, threads
  <2> QED
    BY <2>1 DEF Looked, vsphere
<1>6. ASSUME Crash PROVE Looked'
  BY <1>6 DEF Looked, Crash, Idle, NoGor
<1> QED
  BY <1>1, <1>2, <1>3, <1>4, <1>5, <1>6, LookedWorker DEF Next


-----------------------------------------------------------------------------
(* The theorems. *)

\* The initial states satisfy the inductive invariant.
LEMMA InductiveInit == Init => Inductive
<1> SUFFICES ASSUME Init PROVE Inductive
  OBVIOUS
<1>1. PICK old \in SUBSET Legacy :
        /\ obj = [v \in VM |-> IF v \in old THEN Upgraded ELSE NoObject]
        /\ vc = [v \in VM |-> IF v \in old THEN 1 ELSE 0]
        /\ managed = old /\ queue = old
  BY DEF Init
<1>2. TypeOK
  <2>1. Upgraded \in Object /\ NoObject \in Object
    BY DEF Upgraded, NoObject, Object
  <2> QED
    BY <1>1, <2>1, NullTypes, ControllerAssumption DEF Init, TypeOK
<1>3. Registered /\ Looked
  BY <1>1 DEF Init, Registered, Looked, Idle, NoGor
<1>4. SlotsAccounted
  <2>1. RecHolders = {} /\ GorHolders = {}
    BY DEF Init, RecHolders, GorHolders, Idle, NoGor
  <2> QED
    BY <2>1, FS_EmptySet DEF Init, SlotsAccounted
<1>5. CreatesBounded
  BY ControllerAssumption DEF Init, CreatesBounded
<1> QED
  BY <1>2, <1>3, <1>4, <1>5 DEF Inductive

\* The inductive invariant holds in every behaviour of the controller.
THEOREM Inductiveness == Spec => []Inductive
<1>1. Inductive /\ [Next]_vars => Inductive'
  <2> SUFFICES ASSUME Inductive, [Next]_vars PROVE Inductive'
    OBVIOUS
  <2>1. TypeOK /\ Registered /\ Looked /\ SlotsAccounted /\ CreatesBounded
    BY DEF Inductive
  <2>2. TypeOK'
    BY <2>1, TypeNext
  <2>3. Registered' /\ Looked' /\ SlotsAccounted' /\ CreatesBounded'
    BY <2>1, <2>2, RegisteredNext, LookedNext, SlotsNext, BoundedNext
  <2> QED
    BY <2>2, <2>3 DEF Inductive
<1> QED
  BY <1>1, InductiveInit, PTL DEF Spec

\* The variables keep their types; in particular no VM is destroyed in vSphere
\* that is not there.
THEOREM TypeCorrect == Spec => []TypeOK
<1>1. Inductive => TypeOK
  BY DEF Inductive
<1> QED
  BY <1>1, Inductiveness, PTL

\* No early return of createOrUpdateVirtualMachine and no ending of the
\* goroutine loses a create slot or gives one back twice.
THEOREM SlotsAlwaysAccounted == Spec => []SlotsAccounted
<1>1. Inductive => SlotsAccounted
  BY DEF Inductive
<1> QED
  BY <1>1, Inductiveness, PTL

\* The provider waits for at most MaxDeployThreads creates of vSphere at a time.
THEOREM RunningAlwaysBounded == Spec => []RunningBounded
<1>1. Inductive => RunningBounded
  <2> SUFFICES ASSUME Inductive PROVE RunningBounded
    OBVIOUS
  <2> DEFINE running == {v \in VM : Creating(v)}
             holders == RecHolders \cup GorHolders
  <2>1. /\ createCount = Cardinality(RecHolders) + Cardinality(GorHolders) + releasing
        /\ createCount <= MaxDeployThreads /\ releasing \in Nat /\ MaxDeployThreads \in Nat
    BY ControllerAssumption DEF Inductive, SlotsAccounted, CreatesBounded, TypeOK
  <2>2. running \subseteq holders
    BY DEF Creating, At, GorAt, RecHolders, GorHolders
  <2>3. /\ IsFiniteSet(holders)
        /\ Cardinality(holders) = Cardinality(RecHolders) + Cardinality(GorHolders)
                                    - Cardinality(RecHolders \cap GorHolders)
    BY HoldersFinite, FS_Union
  <2>4. Cardinality(RecHolders \cap GorHolders) \in Nat
    BY HoldersFinite, FS_Intersection, FS_CardinalityType
  <2>5. IsFiniteSet(running) /\ Cardinality(running) <= Cardinality(holders) /\ Cardinality(running) \in Nat
    <3>1. IsFiniteSet(running) /\ Cardinality(running) <= Cardinality(holders)
      BY <2>2, <2>3, FS_Subset
    <3> QED
      BY <3>1, FS_CardinalityType
  <2> HIDE DEF running, holders
  <2>6. Cardinality(running) <= MaxDeployThreads
    BY <2>1, <2>3, <2>4, <2>5, HoldersFinite
  <2> QED
    BY <2>6 DEF RunningBounded, running
<1> QED
  BY <1>1, Inductiveness, PTL

\* A VM is not deleted or cleaned up while a goroutine creates it.
THEOREM DeleteAlwaysExcludesCreate == Spec => []DeleteExcludesCreate
<1>1. Inductive => DeleteExcludesCreate
  BY DEF Inductive, Registered, DeleteExcludesCreate
<1> QED
  BY <1>1, Inductiveness, PTL

\* However many workers race, a VM is created at most once, unless a create
\* was lost with its process or its call.
THEOREM NeverDoubleCreate == Spec => []NoDoubleCreate
<1>1. Inductive => NoDoubleCreate
  BY DEF Inductive, Registered, Looked, NoDoubleCreate, Creating, At, GorAt
<1> QED
  BY <1>1, Inductiveness, PTL

-----------------------------------------------------------------------------
(* The finalizer. *)

\* The part of the state that Covered and CleanedUp speak of.
Unaffected(u) ==
  /\ obj'[u] = obj[u] /\ cache'[u] = cache[u] /\ rec'[u] = rec[u] /\ gor'[u] = gor[u]
  /\ vc'[u] = vc[u] /\ (u \in managed' <=> u \in managed) /\ (u \in everLost' <=> u \in everLost)

\* A step that concerns one VM leaves the others' finalizers as they were.
LEMMA OneAtATime ==
  ASSUME Finalizers, NEW v \in VM, \A u \in VM \ {v} : Unaffected(u), Covered(v)', CleanedUp(v)'
  PROVE  Finalizers'
<1>1. ASSUME NEW u \in VM \ {v} PROVE Covered(u)' /\ CleanedUp(u)'
  <2>1. Covered(u) /\ CleanedUp(u) /\ Unaffected(u)
    BY DEF Finalizers
  <2> QED
    BY <2>1 DEF Covered, CleanedUp, Unaffected
<1> QED
  BY <1>1 DEF Finalizers

\* The steps of a create keep to the create path until they end in a patch that is not
\* that of the finalizer.
LEMMA CreatePath ==
  ASSUME TypeOK, NEW v \in VM,
         \/ LoadReconciling(v) \/ GetVM(v) \/ Update(v) \/ CreateAllowed(v) \/ StoreReconciling(v)
         \/ CreateArgs(v) \/ StartHandler(v) \/ BlockingArgs(v) \/ BlockingCreate(v)
  PROVE  /\ rec[v].pc \in CreateSteps
         /\ \/ rec'[v].pc \in CreateSteps
            \/ rec'[v].pc = "patch" /\ rec'[v].change # "removeFinalizer"
         /\ \A u \in VM \ {v} : rec'[u] = rec[u] /\ gor'[u] = gor[u]
         /\ UNCHANGED api /\ everLost' \in {everLost, everLost \cup {v}}
<1>0. rec \in [VM -> Rec] /\ gor \in [VM -> Gor]
  BY DEF TypeOK
<1> USE <1>0, GotoType, ReturnType DEF RecSteps, Change, CreateSteps, At
<1>1. CASE LoadReconciling(v)
  BY <1>1 DEF LoadReconciling, vsphere
<1>2. CASE GetVM(v)
  BY <1>2 DEF GetVM, Findable, vsphere
<1>3. CASE Update(v)
  BY <1>3 DEF Update, vsphere
<1>4. CASE CreateAllowed(v)
  BY <1>4 DEF CreateAllowed, vsphere
<1>5. CASE StoreReconciling(v)
  BY <1>5 DEF StoreReconciling, vsphere
<1>6. CASE CreateArgs(v)
  BY <1>6 DEF CreateArgs, vsphere
<1>7. CASE StartHandler(v)
  BY <1>7 DEF StartHandler, vsphere
<1>8. CASE BlockingArgs(v)
  BY <1>8 DEF BlockingArgs, vsphere
<1>9. CASE BlockingCreate(v)
  BY <1>9 DEF BlockingCreate, CreateFails, vsphere
<1> QED
  BY <1>1, <1>2, <1>3, <1>4, <1>5, <1>6, <1>7, <1>8, <1>9

\* The create path runs under the finalizer.
LEMMA FinalizersCreate ==
  ASSUME TypeOK, Finalizers, NEW v \in VM,
         \/ LoadReconciling(v) \/ GetVM(v) \/ Update(v) \/ CreateAllowed(v) \/ StoreReconciling(v)
         \/ CreateArgs(v) \/ StartHandler(v) \/ BlockingArgs(v) \/ BlockingCreate(v)
  PROVE  Finalizers'
<1>0. vc \in [VM -> Nat] /\ Covered(v) /\ CleanedUp(v)
  BY DEF TypeOK, Finalizers
<1>1. /\ rec[v].pc \in CreateSteps
      /\ \/ rec'[v].pc \in CreateSteps
         \/ rec'[v].pc = "patch" /\ rec'[v].change # "removeFinalizer"
      /\ \A u \in VM \ {v} : rec'[u] = rec[u] /\ gor'[u] = gor[u]
      /\ UNCHANGED <<obj, cache>> /\ everLost' \in {everLost, everLost \cup {v}}
  BY CreatePath DEF api
<1>2. \/ UNCHANGED <<vc, managed>>
      \/ vc' = [vc EXCEPT ![v] = @ + 1] /\ managed' = managed \cup {v}
  BY DEF LoadReconciling, GetVM, Findable, Update, CreateAllowed, StoreReconciling, CreateArgs, StartHandler,
         BlockingArgs, BlockingCreate, CreateFails, vsphere
<1>3. \A u \in VM \ {v} : Unaffected(u)
  BY <1>0, <1>1, <1>2 DEF Unaffected
<1>4. obj[v].fin = "current"
  BY <1>0, <1>1 DEF Covered
<1>5. Covered(v)'
  BY <1>0, <1>1, <1>4 DEF Covered, Exists, Deleted
<1>6. CleanedUp(v)'
  BY <1>0, <1>1, <1>2, <1>4 DEF CleanedUp, CreateSteps
<1> QED
  BY <1>3, <1>5, <1>6, OneAtATime

\* So does the goroutine.
LEMMA FinalizersGoroutine ==
  ASSUME TypeOK, Finalizers, NEW v \in VM, Goroutine(v)
  PROVE  Finalizers'
<1>0. /\ vc \in [VM -> Nat] /\ obj \in [VM -> Object] /\ gor \in [VM -> Gor] /\ obj[v] \in Object
      /\ Covered(v) /\ CleanedUp(v)
  BY DEF TypeOK, Finalizers
<1>1. gor[v].pc # "none" /\ \A u \in VM \ {v} : gor'[u] = gor[u]
  BY <1>0, GorGotoType
  DEF Goroutine, GorCreate, CreateFails, GorReport, GorPatch, GorReportPatch, GorClose, GorDelete, GorAt, GorSteps
<1>2. \/ UNCHANGED <<vc, managed>>
      \/ vc' = [vc EXCEPT ![v] = @ + 1] /\ managed' = managed \cup {v}
  BY DEF Goroutine, GorCreate, CreateFails, GorReport, GorPatch, GorReportPatch, GorClose, GorDelete, vsphere
<1>3. \/ UNCHANGED obj
      \/ obj' = [obj EXCEPT ![v] = [obj[v] EXCEPT !.uid = @ \/ gor[v].ok]]
  BY DEF Goroutine, GorCreate, CreateFails, GorReport, GorPatch, GorReportPatch, GorClose, GorDelete, api, Write
<1>4. UNCHANGED <<cache, rec>> /\ everLost' \in {everLost, everLost \cup {v}}
  BY DEF Goroutine, GorCreate, CreateFails, GorReport, GorPatch, GorReportPatch, GorClose, GorDelete, api, Write,
         vsphere, threads
<1>5. \A u \in VM \ {v} : Unaffected(u)
  BY <1>0, <1>1, <1>2, <1>3, <1>4 DEF Unaffected
<1>6. obj'[v].fin = obj[v].fin /\ obj'[v].st = obj[v].st /\ obj[v].fin = "current"
  BY <1>0, <1>1, <1>3 DEF Object, Covered
<1>7. Covered(v)'
  BY <1>0, <1>4, <1>6 DEF Covered, Exists, Deleted
<1>8. CleanedUp(v)'
  BY <1>0, <1>1, <1>2, <1>4, <1>6 DEF CleanedUp
<1> QED
  BY <1>5, <1>7, <1>8, OneAtATime

\* A delete that gets as far as the finalizer has found or left no VM that is managed.
LEMMA FinalizersDelete ==
  ASSUME TypeOK, Registered, Looked, Finalizers, NEW v \in VM,
         DelLoadReconciling(v) \/ DelGetVM(v) \/ DelDestroy(v)
  PROVE  Finalizers'
<1>0. /\ vc \in [VM -> Nat] /\ rec \in [VM -> Rec] /\ Covered(v) /\ CleanedUp(v)
  BY DEF TypeOK, Finalizers
<1> USE <1>0, GotoType, ReturnType DEF RecSteps, Change, At
<1>1. /\ rec[v].pc \in {"delLoad", "delGetVM", "delDestroy"}
      /\ \A u \in VM \ {v} : rec'[u] = rec[u]
      /\ UNCHANGED <<obj, cache, gor, everLost>>
  BY DEF DelLoadReconciling, DelGetVM, Findable, DelDestroy, api, vsphere
<1>2. \/ rec'[v].pc \in {"delLoad", "delGetVM", "delDestroy"} /\ UNCHANGED <<vc, managed>>
      \/ rec'[v].pc = "patch" /\ rec'[v].change = "nothing" /\ UNCHANGED <<vc, managed>>
      \/ /\ rec'[v].pc = "patch" /\ gor[v].pc = "none"
         /\ \/ vc[v] = 0 /\ UNCHANGED <<vc, managed>>
            \/ /\ vc' = vc \/ vc' = [vc EXCEPT ![v] = @ - 1]
               /\ managed' = managed \ {v}
            \/ /\ vc[v] > 1 /\ vc' = [vc EXCEPT ![v] = @ - 1] /\ UNCHANGED managed
  <2>1. CASE DelLoadReconciling(v)
    BY <2>1 DEF DelLoadReconciling, vsphere
  <2>2. CASE DelGetVM(v)
    BY <2>2 DEF DelGetVM, Findable, vsphere, Registered
  <2>3. CASE DelDestroy(v)
    BY <2>3 DEF DelDestroy, Registered
  <2> QED
    BY <2>1, <2>2, <2>3
<1>3. \A u \in VM \ {v} : Unaffected(u)
  BY <1>1, <1>2 DEF Unaffected
<1>4. Deleted(cache[v])
  BY <1>1 DEF CleanedUp
<1>5. Covered(v)'
  BY <1>1, <1>2 DEF Covered, Exists, Deleted, CreateSteps
<1>6. CleanedUp(v)'
  <2>1. vc[v] \in Nat /\ (vc[v] > 1 => v \in everLost)
    BY DEF Looked
  <2> QED
    BY <1>1, <1>2, <1>4, <2>1 DEF CleanedUp, Deleted
<1> QED
  BY <1>3, <1>5, <1>6, OneAtATime

\* The deferred patch: only it removes a finalizer, and only of an object that is deleted
\* in the cache too.
LEMMA FinalizersPatch ==
  ASSUME TypeOK, Finalizers, NEW v \in VM, Patch(v) \/ PatchFails(v)
  PROVE  Finalizers'
<1>0. /\ rec \in [VM -> Rec] /\ obj \in [VM -> Object] /\ obj[v] \in Object /\ rec[v].change \in Change
      /\ Covered(v) /\ CleanedUp(v)
  BY DEF TypeOK, Rec, Finalizers
<1>1. /\ rec[v].pc = "patch" /\ rec' = [rec EXCEPT ![v] = Idle]
      /\ UNCHANGED <<cache, gor, vc, managed, everLost>>
  BY DEF Patch, PatchFails, At, api, Write, vsphere
<1>2. \/ UNCHANGED obj
      \/ /\ obj' = [obj EXCEPT ![v] = Patched(v)]
         /\ rec[v].change \in {"addFinalizer", "removeFinalizer", "uniqueID"} /\ Exists(obj[v])
         /\ rec[v].change = "addFinalizer" => obj[v].st = "live"
  BY <1>0 DEF Patch, PatchFails, api, Write, Change
<1>3. \A u \in VM \ {v} : Unaffected(u)
  BY <1>0, <1>1, <1>2 DEF Unaffected
<1>4. rec'[v].pc = "idle"
  BY <1>0, <1>1 DEF Idle
<1>5. CASE UNCHANGED obj
  <2>1. Covered(v)' /\ CleanedUp(v)'
    BY <1>0, <1>1, <1>4, <1>5 DEF Covered, CleanedUp, Exists, Deleted, CreateSteps
  <2> QED
    BY <1>3, <2>1, OneAtATime
<1>6. CASE obj' # obj /\ rec[v].change = "removeFinalizer"
  <2>1. obj'[v].fin = "none" /\ obj'[v].st = IF obj[v].st = "deleting" THEN "gone" ELSE obj[v].st
    BY <1>0, <1>2, <1>6 DEF Patched, Object
  <2>2. Deleted(cache[v]) /\ gor[v].pc = "none" /\ (v \in managed => v \in everLost)
    BY <1>0, <1>1, <1>6 DEF CleanedUp
  <2>3. Deleted(obj'[v])
    BY <1>0, <2>1, <2>2 DEF Covered, Deleted
  <2>4. Covered(v)'
    BY <1>1, <1>4, <2>1, <2>2, <2>3 DEF Covered, Deleted, CreateSteps
  <2>5. CleanedUp(v)'
    BY <1>1, <1>4, <2>2 DEF CleanedUp
  <2> QED
    BY <1>3, <2>4, <2>5, OneAtATime
<1>7. CASE obj' # obj /\ rec[v].change \in {"addFinalizer", "uniqueID"}
  <2>1. /\ obj'[v].st = obj[v].st /\ Exists(obj[v])
        /\ obj'[v].fin = "current" \/ obj'[v].fin = obj[v].fin
    <3>1. CASE rec[v].change = "addFinalizer"
      BY <1>0, <1>2, <1>7, <3>1 DEF Patched, Object
    <3>2. CASE rec[v].change = "uniqueID"
      BY <1>0, <1>2, <1>7, <3>2 DEF Patched, Object
    <3> QED
      BY <1>7, <3>1, <3>2
  <2>2. Covered(v)'
    BY <1>0, <1>1, <1>4, <2>1 DEF Covered, Exists, Deleted, CreateSteps
  <2>3. CleanedUp(v)'
    BY <1>0, <1>1, <1>4, <2>1 DEF CleanedUp
  <2> QED
    BY <1>3, <2>2, <2>3, OneAtATime
<1> QED
  BY <1>2, <1>5, <1>6, <1>7

\* A reconcile takes the create path if the cache shows the finalizer, the delete path
\* if it shows the object deleted.
LEMMA FinalizersReconcile ==
  ASSUME TypeOK, Finalizers, NEW v \in VM, Reconcile(v)
  PROVE  Finalizers'
<1>0. /\ rec \in [VM -> Rec] /\ cache[v] \in Object /\ cache[v].paused \in BOOLEAN
      /\ Covered(v) /\ CleanedUp(v)
  BY DEF TypeOK, Finalizers, Object
<1>1. UNCHANGED <<obj, cache, gor, vc, managed, everLost>>
  BY DEF Reconcile, api, vsphere
<1>2. \A u \in VM \ {v} : Unaffected(u)
  BY <1>0, <1>1 DEF Unaffected, Reconcile
<1>3. \/ UNCHANGED rec
      \/ rec'[v].pc = "load" /\ cache[v].st = "live" /\ cache[v].fin = "current"
      \/ rec'[v].pc = "delLoad" /\ Deleted(cache[v])
      \/ rec'[v].pc = "patch" /\ rec'[v].change # "removeFinalizer"
  <2>1. CASE ~Exists(cache[v])
    BY <2>1 DEF Reconcile
  <2>2. CASE Exists(cache[v])
    <3>1. rec'[v].pc = FirstStep(cache[v]) /\ rec'[v].change = FirstChange(cache[v])
      BY <1>0, <2>2 DEF Reconcile
    <3>2. FirstChange(cache[v]) # "removeFinalizer"
      BY DEF FirstChange
    <3>3. \/ FirstStep(cache[v]) = "load" /\ cache[v].st = "live" /\ cache[v].fin = "current"
          \/ FirstStep(cache[v]) = "delLoad" /\ cache[v].st = "deleting"
          \/ FirstStep(cache[v]) = "patch"
      BY <1>0, <2>2 DEF FirstStep, Exists
    <3> QED
      BY <3>1, <3>2, <3>3 DEF Deleted
  <2> QED
    BY <2>1, <2>2
<1>4. Covered(v)'
  BY <1>0, <1>1, <1>3 DEF Covered, Exists, Deleted, CreateSteps
<1>5. CleanedUp(v)'
  BY <1>0, <1>1, <1>3 DEF CleanedUp, Deleted
<1> QED
  BY <1>2, <1>4, <1>5, OneAtATime

\* The user, the informer, and the tasks of a dead process.
LEMMA FinalizersEnvironment ==
  ASSUME TypeOK, Looked, Finalizers, NEW v \in VM, Environment(v)
  PROVE  Finalizers'
<1>0. /\ obj \in [VM -> Object] /\ cache \in [VM -> Object] /\ vc \in [VM -> Nat] /\ obj[v] \in Object
      /\ Covered(v) /\ CleanedUp(v)
  BY DEF TypeOK, Finalizers
<1>1. UNCHANGED <<rec, gor, everLost>>
  BY DEF Environment, CreateObject, DeleteObject, SetPaused, WatchEvent, OtherEvent, LostTask,
         vsphere, threads
<1>2. ASSUME CreateObject(v) \/ DeleteObject(v) \/ SetPaused(v) PROVE Finalizers'
  <2>1. /\ \A u \in VM \ {v} : obj'[u] = obj[u]
        /\ obj'[v].fin = obj[v].fin
        /\ \/ obj'[v].st = obj[v].st /\ Exists(obj[v])
           \/ obj[v].st = "none" /\ obj'[v].st = "live"
           \/ obj[v].st = "live" /\ obj'[v].st = IF obj[v].fin = "none" THEN "gone" ELSE "deleting"
    <3>1. CASE CreateObject(v)
      <4>1. obj' = [obj EXCEPT ![v] = [NoObject EXCEPT !.st = "live"]] /\ obj[v].st = "none"
        BY <3>1 DEF CreateObject, Write
      <4>2. obj[v].fin = "none"
        BY <1>0, <4>1 DEF Covered, Exists
      <4> QED
        BY <1>0, <4>1, <4>2 DEF NoObject
    <3>2. CASE DeleteObject(v)
      BY <1>0, <3>2 DEF DeleteObject, Write, Object
    <3>3. CASE SetPaused(v)
      BY <1>0, <3>3 DEF SetPaused, Write, Object
    <3> QED
      BY <1>2, <3>1, <3>2, <3>3
  <2>2. UNCHANGED <<cache, vc, managed>>
    BY <1>2 DEF CreateObject, DeleteObject, SetPaused, Write, vsphere
  <2>3. \A u \in VM \ {v} : Unaffected(u)
    BY <1>0, <1>1, <2>1, <2>2 DEF Unaffected
  <2>4. Covered(v)'
    BY <1>0, <1>1, <2>1, <2>2 DEF Covered, Exists, Deleted
  <2>5. CleanedUp(v)'
    BY <1>0, <1>1, <2>1, <2>2 DEF CleanedUp
  <2> QED
    BY <2>3, <2>4, <2>5, OneAtATime
<1>3. ASSUME WatchEvent(v) PROVE Finalizers'
  <2>1. cache'[v] = obj[v] /\ UNCHANGED <<obj, vc, managed>>
    BY <1>0, <1>3 DEF WatchEvent, vsphere
  <2>2. \A u \in VM \ {v} : Unaffected(u)
    BY <1>0, <1>1, <1>3, <2>1 DEF Unaffected, WatchEvent
  <2>3. Covered(v)'
    BY <1>0, <1>1, <2>1 DEF Covered, Exists, Deleted
  <2>4. CleanedUp(v)'
    BY <1>0, <1>1, <2>1 DEF Covered, CleanedUp, Deleted
  <2> QED
    BY <2>2, <2>3, <2>4, OneAtATime
<1>4. ASSUME OtherEvent(v) PROVE Finalizers'
  BY <1>1, <1>4 DEF OtherEvent, api, vsphere, Finalizers, Covered, CleanedUp, Exists, Deleted
<1>5. ASSUME LostTask(v) PROVE Finalizers'
  <2>1. v \in everLost /\ UNCHANGED <<obj, cache>>
    BY <1>5 DEF LostTask, Looked, api
  <2>2. \A u \in VM \ {v} : Unaffected(u)
    BY <1>0, <1>1, <1>5, <2>1 DEF Unaffected, LostTask
  <2>3. Covered(v)' /\ CleanedUp(v)'
    BY <1>0, <1>1, <2>1 DEF Covered, CleanedUp, Exists, Deleted
  <2> QED
    BY <2>2, <2>3, OneAtATime
<1> QED
  BY <1>2, <1>3, <1>4, <1>5 DEF Environment

\* A crash forgets the reconciles and the goroutines, and the cache starts out current.
LEMMA FinalizersCrash ==
  ASSUME TypeOK, Finalizers, Crash
  PROVE  Finalizers'
<1> SUFFICES ASSUME NEW v \in VM PROVE Covered(v)' /\ CleanedUp(v)'
  BY DEF Finalizers
<1>1. /\ UNCHANGED <<obj, vc, managed>> /\ cache' = obj
      /\ rec'[v].pc = "idle" /\ gor'[v].pc = "none" /\ (v \in everLost => v \in everLost')
  BY DEF Crash, Idle, NoGor
<1>2. Covered(v) /\ CleanedUp(v)
  BY DEF Finalizers
<1> QED
  BY <1>1, <1>2 DEF Covered, CleanedUp, Exists, Deleted, CreateSteps

\* The finalizers, from the invariant that the creates rest on.
LEMMA FinalizersNext ==
  ASSUME Inductive, Finalizers, [Next]_vars
  PROVE  Finalizers'
<1>0. TypeOK /\ Registered /\ Looked
  BY DEF Inductive
<1>1. ASSUME NEW v \in VM, Worker(v) PROVE Finalizers'
  BY <1>0, <1>1, FinalizersCreate, FinalizersDelete, FinalizersPatch DEF Worker
<1>2. ASSUME Decrement \/ UNCHANGED vars PROVE Finalizers'
  <2>1. UNCHANGED <<obj, cache, rec, gor, vc, managed, everLost>>
    BY <1>2 DEF Decrement, vars, api, threads, vsphere
  <2> QED
    BY <2>1 DEF Finalizers, Covered, CleanedUp, Exists, Deleted
<1> QED
  BY <1>0, <1>1, <1>2, FinalizersReconcile, FinalizersGoroutine, FinalizersEnvironment,
     FinalizersCrash DEF Next

\* The finalizer covers every create and every VM, in every behaviour.
THEOREM FinalizersAlways == Spec => []Finalizers
<1>1. Init => Finalizers
  <2> SUFFICES ASSUME Init, NEW v \in VM PROVE Covered(v) /\ CleanedUp(v)
    BY DEF Finalizers
  <2>1. PICK old \in SUBSET Legacy :
          /\ obj = [u \in VM |-> IF u \in old THEN Upgraded ELSE NoObject]
          /\ vc = [u \in VM |-> IF u \in old THEN 1 ELSE 0]
          /\ managed = old /\ queue = old
    BY DEF Init
  <2>2. rec[v].pc = "idle" /\ gor[v].pc = "none" /\ cache = obj
    BY DEF Init, Idle, NoGor
  <2> QED
    BY <2>1, <2>2 DEF Covered, CleanedUp, Upgraded, NoObject, Exists, Deleted, CreateSteps
<1> QED
  BY <1>1, FinalizersNext, Inductiveness, PTL DEF Spec

\* A VM's finalizer is in the API server before its create begins, although the reconcile
\* decides from a cache that lags.
THEOREM FinalizerAlwaysFirst == Spec => []FinalizerFirst
<1>1. Finalizers => FinalizerFirst
  BY DEF Finalizers, Covered, FinalizerFirst, Creating, At, GorAt, CreateSteps
<1> QED
  BY <1>1, FinalizersAlways, PTL

\* An object that is gone leaves no managed VM behind and no create under way, unless a
\* create was lost with its process or its call.
THEOREM NeverOrphan == Spec => []NoOrphan
<1>1. Finalizers => NoOrphan
  BY DEF Finalizers, Covered, CleanedUp, NoOrphan, At, CreateSteps
<1> QED
  BY <1>1, FinalizersAlways, PTL
=============================================================================
