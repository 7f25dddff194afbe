---------------------- MODULE VirtualMachineReplicaSet ----------------------
(***************************************************************************)
(* The VirtualMachineReplicaSet controller:                                *)
(*   controllers/virtualmachinereplicaset/                                 *)
(*     virtualmachinereplicaset_controller.go                              *)
(*     virtualmachinereplicaset_delete_policy.go                           *)
(*                                                                         *)
(* A reconcile counts the VMs of its replica set in an informer cache that *)
(* lags the API server and creates or deletes the difference, one call at  *)
(* a time.  What keeps it from doing so twice is that it waits for the     *)
(* cache to show its own work, and, where a call failed or the wait timed  *)
(* out, that it picks the VMs to delete in a fixed order.                  *)
(*                                                                         *)
(* All replica sets of RS have the same selector, which every VM matches.  *)
(* The garbage collector and the controller that finishes the deletion of  *)
(* a VM are external.                                                      *)
(***************************************************************************)
EXTENDS Integers, FiniteSets

CONSTANTS RS,        \* replica sets of one namespace, with one selector
          Names,     \* bound: VM objects that may exist at a time; by their names
          Sizes,     \* values of spec.replicas
          MaxFaults, \* bound: failed calls and waits that time out
          MaxEdits   \* bound: what users do

NoRS == "none"       \* the owner of an orphan

ASSUME ReplicaSetAssumption ==
  /\ NoRS \notin RS
  /\ Names \subseteq Nat /\ IsFiniteSet(Names)
  /\ Sizes \subseteq Nat /\ Sizes # {}
  /\ MaxFaults \in Nat /\ MaxEdits \in Nat

VARIABLES
  rs, rsCache, rsStale,  \* replica sets, the informer's copies, those that lag
  vm, vmCache, vmStale,  \* the same for the VM objects
  queue,                 \* the work queue
  rec,                   \* the reconcile in progress for each replica set
  past,                  \* history: what has happened that the properties except
  faults, edits

api     == <<rs, rsCache, rsStale>>
machine == <<vm, vmCache, vmStale>>
budget  == <<faults, edits>>
vars    == <<api, machine, queue, rec, past, budget>>

-----------------------------------------------------------------------------
(* The state. *)

\* failure is the condition ReplicaFailure.
Status     == [replicas: Nat, failure: BOOLEAN]
ReplicaSet == [st: {"live", "deleting", "gone"}, fin: BOOLEAN, n: Sizes, status: Status]

\* label is the value of the label VirtualMachineReplicaSetNameLabel.
Machine   == [st: {"none", "live", "deleting"},
              owner: RS \cup {NoRS}, label: RS \cup {NoRS}]
NoMachine == [st |-> "none", owner |-> NoRS, label |-> NoRS]

Exists(m) == m.st # "none"

\* base: the version read;  mine: filteredVMs;  dying: those of them with a
\* deletion timestamp;  plain: those without the label;  todo: VMs still to be
\* adopted, created (only counted, as left), deleted or waited for.
Rec  == [pc: {"idle", "adopt", "label", "sync", "create", "waitCreated",
              "delete", "waitDeleted", "patch"},
         base: ReplicaSet, fin: BOOLEAN, status: Status,
         mine: SUBSET Names, dying: SUBSET Names, plain: SUBSET Names,
         todo: SUBSET Names, done: SUBSET Names, left: Nat,
         errs: BOOLEAN, again: BOOLEAN]

\* Somebody else deleted a VM, the size was raised, a create was refused.
Past == {"meddled", "raised", "refused"}

TypeOK ==
  /\ rs \in [RS -> ReplicaSet] /\ rsCache \in [RS -> ReplicaSet] /\ rsStale \subseteq RS
  /\ vm \in [Names -> Machine] /\ vmCache \in [Names -> Machine] /\ vmStale \subseteq Names
  /\ queue \subseteq RS /\ rec \in [RS -> Rec] /\ past \subseteq Past
  /\ faults \in 0..MaxFaults /\ edits \in 0..MaxEdits

NewStatus == [replicas |-> 0, failure |-> FALSE]
NewSet(n) == [st |-> "live", fin |-> FALSE, n |-> n, status |-> NewStatus]
Idle(c)   == [pc |-> "idle", base |-> c, fin |-> c.fin, status |-> c.status,
              mine |-> {}, dying |-> {}, plain |-> {}, todo |-> {}, done |-> {},
              left |-> 0, errs |-> FALSE, again |-> FALSE]
NotRunning == Idle(NewSet(CHOOSE n \in Sizes : TRUE))

Init ==
  /\ \E n \in [RS -> Sizes] : rs = [r \in RS |-> NewSet(n[r])]
  /\ rsCache = rs /\ rsStale = {} /\ queue = RS
  /\ vm = [v \in Names |-> NoMachine] /\ vmCache = vm /\ vmStale = {}
  /\ rec = [r \in RS |-> NotRunning]
  /\ past = {} /\ faults = 0 /\ edits = 0

-----------------------------------------------------------------------------
(* Helpers. *)

WriteRS(r, s) == /\ rs' = [rs EXCEPT ![r] = s]
                 /\ rsStale' = rsStale \cup {r}
                 /\ UNCHANGED rsCache

WriteVM(v, m) == /\ vm' = [vm EXCEPT ![v] = m]
                 /\ vmStale' = vmStale \cup {v}
                 /\ UNCHANGED vmCache

Fault == faults < MaxFaults /\ faults' = faults + 1 /\ UNCHANGED edits
Edit  == edits < MaxEdits /\ edits' = edits + 1 /\ UNCHANGED faults

At(r, p) == rec[r].pc = p

\* A name is free when neither the API server nor anybody who read it knows it.
Free(v) == /\ ~Exists(vm[v]) /\ ~Exists(vmCache[v])
           /\ \A r \in RS : v \notin rec[r].mine \cup rec[r].todo \cup rec[r].done

\* A deleted VM stays until its finalizer, if it has one by then, is removed.
Deleted(m) == {[m EXCEPT !.st = "deleting"], NoMachine}

-----------------------------------------------------------------------------
(* Users, informers, garbage collector, VirtualMachine controller (external). *)

Scale(r) ==
  /\ rs[r].st = "live" /\ Edit
  /\ \E n \in Sizes \ {rs[r].n} :
       /\ WriteRS(r, [rs[r] EXCEPT !.n = n])
       /\ past' = IF n > rs[r].n THEN past \cup {"raised"} ELSE past
  /\ UNCHANGED <<machine, queue, rec>>

DeleteSet(r) ==
  /\ rs[r].st = "live" /\ Edit
  /\ WriteRS(r, [rs[r] EXCEPT !.st = IF rs[r].fin THEN "deleting" ELSE "gone"])
  /\ UNCHANGED <<machine, queue, rec, past>>

CreateOrphan(v) ==
  /\ Free(v) /\ Edit
  /\ WriteVM(v, [NoMachine EXCEPT !.st = "live"])
  /\ UNCHANGED <<api, queue, rec, past>>

DeleteMachine(v) ==
  /\ vm[v].st = "live" /\ Edit
  /\ \E m \in Deleted(vm[v]) : WriteVM(v, m)
  /\ past' = past \cup {"meddled"}
  /\ UNCHANGED <<api, queue, rec>>

GarbageCollect(v) ==
  /\ vm[v].st = "live" /\ vm[v].owner # NoRS /\ rs[vm[v].owner].st = "gone"
  /\ \E m \in Deleted(vm[v]) : WriteVM(v, m)
  /\ UNCHANGED <<api, queue, rec, past, budget>>

\* The VirtualMachine controller removes the finalizer (see VirtualMachineController).
MachineGone(v) ==
  /\ vm[v].st = "deleting"
  /\ WriteVM(v, NoMachine)
  /\ UNCHANGED <<api, queue, rec, past, budget>>

SetEvent(r) ==
  /\ r \in rsStale
  /\ rsCache' = [rsCache EXCEPT ![r] = rs[r]] /\ rsStale' = rsStale \ {r}
  /\ queue' = queue \cup {r}
  /\ UNCHANGED <<rs, machine, rec, past, budget>>

\* Owns queues the owner of a VM; VMToReplicaSets queues every replica set that
\* selects a VM without one.  A deletion event carries the last version seen.
MachineEvent(v) ==
  /\ v \in vmStale
  /\ vmCache' = [vmCache EXCEPT ![v] = vm[v]] /\ vmStale' = vmStale \ {v}
  /\ LET m == IF Exists(vm[v]) THEN vm[v] ELSE vmCache[v]
     IN  queue' = queue \cup (IF m.owner # NoRS THEN {m.owner}
                              ELSE {r \in RS : Exists(m) /\ rsCache[r].st # "gone"})
  /\ UNCHANGED <<api, vm, rec, past, budget>>

-----------------------------------------------------------------------------
(* Reconcile. *)

\* Variant for mutation: a deleted replica set keeps its finalizer.
ReconcileKeepsFinalizer(r) ==
  /\ r \in queue /\ At(r, "idle")
  /\ queue' = queue \ {r}
  /\ LET c == rsCache[r]
     IN  IF c.st = "live" /\ ~c.fin
           THEN rec' = [rec EXCEPT ![r] = [Idle(c) EXCEPT !.pc = "patch", !.fin = TRUE]]
           ELSE UNCHANGED rec
  /\ UNCHANGED <<api, machine, past, budget>>

\* What the reconcile of r reads: its own version of the replica set and the
\* selected VMs, all from caches.
Reconcile(r) ==
  /\ r \in queue /\ At(r, "idle")
  /\ queue' = queue \ {r}
  /\ LET c      == rsCache[r]
         listed == {v \in Names : Exists(vmCache[v])}
         own    == {v \in listed : vmCache[v].owner = r}
     IN  CASE c.st = "gone"             -> UNCHANGED rec
           [] c.st = "deleting"         ->
                rec' = [rec EXCEPT ![r] = [Idle(c) EXCEPT !.pc = "patch", !.fin = FALSE]]
           [] c.st = "live" /\ ~c.fin   ->
                rec' = [rec EXCEPT ![r] = [Idle(c) EXCEPT !.pc = "patch", !.fin = TRUE]]
           [] c.st = "live" /\ c.fin    ->
                rec' = [rec EXCEPT ![r] =
                         [Idle(c) EXCEPT !.pc = "adopt",
                            !.todo  = {v \in listed : vmCache[v].owner = NoRS},
                            !.mine  = own,
                            !.dying = {v \in own : vmCache[v].st = "deleting"},
                            !.plain = {v \in own : vmCache[v].label # r}]]
  /\ UNCHANGED <<api, machine, past, budget>>

\* adoptOrphan for one of the listed VMs without a controller.  The patch
\* replaces the owner references without a lock; it returns the version in the
\* API server.  A VM that could not be adopted is passed over.
Adopt(r) ==
  /\ At(r, "adopt")
  /\ IF rec[r].todo = {}
       THEN rec' = [rec EXCEPT ![r].pc = "label"] /\ UNCHANGED <<machine, faults, edits>>
       ELSE \E v \in rec[r].todo :
              \/ /\ Exists(vm[v])
                 /\ WriteVM(v, [vm[v] EXCEPT !.owner = r])
                 /\ rec' = [rec EXCEPT ![r] = [rec[r] EXCEPT !.todo = @ \ {v}, !.mine = @ \cup {v},
                              !.dying = IF vm[v].st = "deleting" THEN @ \cup {v} ELSE @,
                              !.plain = IF vm[v].label # r THEN @ \cup {v} ELSE @]]
                 /\ UNCHANGED budget
              \/ /\ IF Exists(vm[v]) THEN Fault ELSE UNCHANGED budget
                 /\ rec' = [rec EXCEPT ![r].todo = @ \ {v}]
                 /\ UNCHANGED machine
  /\ UNCHANGED <<api, queue, past>>

\* The label with the replica set's name; if it cannot be written the reconcile
\* ends with an error before it has counted anything.
Label(r) ==
  /\ At(r, "label")
  /\ IF rec[r].plain = {}
       THEN rec' = [rec EXCEPT ![r].pc = "sync"] /\ UNCHANGED <<machine, faults, edits>>
       ELSE \E v \in rec[r].plain :
              \/ /\ Exists(vm[v])
                 /\ WriteVM(v, [vm[v] EXCEPT !.label = r])
                 /\ rec' = [rec EXCEPT ![r].plain = @ \ {v}]
                 /\ UNCHANGED budget
              \/ /\ IF Exists(vm[v]) THEN Fault ELSE UNCHANGED budget
                 /\ rec' = [rec EXCEPT ![r] = [rec[r] EXCEPT !.pc = "patch", !.again = TRUE]]
                 /\ UNCHANGED machine
  /\ UNCHANGED <<api, queue, past>>

\* getMachinesToDeletePrioritized: VMs being deleted first, then by name.
Before(d, v, w) == IF (v \in d) = (w \in d) THEN v < w ELSE v \in d

\* Variant for mutation: the priorities are compared the wrong way round.
ToDeleteLowFirst(mine, dying, k) ==
  {v \in mine : Cardinality({w \in mine : Before(mine \ dying, w, v)}) < k}

ToDelete(mine, dying, k) ==
  {v \in mine : Cardinality({w \in mine : Before(dying, w, v)}) < k}

\* Variant for mutation: ReplicaFailure is set but never cleared.
UpdateStatusKeepsFailure(r, failure, err) ==
  rec' = [rec EXCEPT ![r] = [rec[r] EXCEPT !.pc = "patch", !.again = err,
            !.todo = {}, !.done = {}, !.left = 0,
            !.status = [replicas |-> Cardinality(rec[r].mine),
                           failure |-> failure \/ rec[r].base.status.failure]]]

\* updateStatus, on the VMs listed at the start; the reconcile is over.  The
\* conditions Resized, VirtualMachinesCreated and VirtualMachinesReady follow
\* from the counts and are left out.
UpdateStatus(r, failure, err) ==
  rec' = [rec EXCEPT ![r] = [rec[r] EXCEPT !.pc = "patch", !.again = err,
            !.todo = {}, !.done = {}, !.left = 0,
            !.status = [replicas |-> Cardinality(rec[r].mine), failure |-> failure]]]

\* syncReplicas.
Sync(r) ==
  /\ At(r, "sync")
  /\ LET diff == Cardinality(rec[r].mine) - rec[r].base.n
     IN  \/ diff < 0 /\ rec' = [rec EXCEPT ![r] = [rec[r] EXCEPT !.pc = "create", !.left = 0 - diff]]
         \/ diff = 0 /\ UpdateStatus(r, FALSE, FALSE)
         \/ /\ diff > 0
            /\ rec' = [rec EXCEPT ![r] = [rec[r] EXCEPT !.pc = "delete",
                         !.todo = ToDelete(rec[r].mine, rec[r].dying, diff),
                         !.done = ToDelete(rec[r].mine, rec[r].dying, diff)]]
  /\ UNCHANGED <<api, machine, queue, past, budget>>

\* One turn of the loop that creates VMs; an error does not end it.
\* Beyond the bound the API server refuses, as it does for a quota.
Create(r) ==
  /\ At(r, "create") /\ rec[r].left > 0
  /\ \/ \E v \in {w \in Names : Free(w)} :
          /\ WriteVM(v, [st |-> "live", owner |-> r, label |-> r])
          /\ rec' = [rec EXCEPT ![r] = [rec[r] EXCEPT !.left = @ - 1, !.todo = @ \cup {v}]]
          /\ UNCHANGED <<budget, past>>
     \/ /\ IF \E w \in Names : Free(w) THEN Fault /\ UNCHANGED past
                                       ELSE past' = past \cup {"refused"} /\ UNCHANGED budget
        /\ rec' = [rec EXCEPT ![r] = [rec[r] EXCEPT !.left = @ - 1, !.errs = TRUE]]
        /\ UNCHANGED machine
  /\ UNCHANGED <<api, queue>>

\* Variant for mutation: nothing is waited for.
CreatedNoWait(r) ==
  /\ At(r, "create") /\ rec[r].left = 0
  /\ UpdateStatus(r, rec[r].errs, rec[r].errs)
  /\ UNCHANGED <<api, machine, queue, past, budget>>

Created(r) ==
  /\ At(r, "create") /\ rec[r].left = 0
  /\ IF rec[r].errs THEN UpdateStatus(r, TRUE, TRUE)
                    ELSE rec' = [rec EXCEPT ![r].pc = "waitCreated"]
  /\ UNCHANGED <<api, machine, queue, past, budget>>

\* One turn of the loop that deletes VMs.
Delete(r) ==
  /\ At(r, "delete")
  /\ \E v \in rec[r].todo :
       \/ /\ v \in rec[r].dying
          /\ rec' = [rec EXCEPT ![r].todo = @ \ {v}]
          /\ UNCHANGED <<machine, budget>>
       \/ /\ v \notin rec[r].dying /\ Exists(vm[v])
          /\ \E m \in IF vm[v].st = "live" THEN Deleted(vm[v]) ELSE {vm[v]} : WriteVM(v, m)
          /\ rec' = [rec EXCEPT ![r].todo = @ \ {v}]
          /\ UNCHANGED budget
       \/ /\ v \notin rec[r].dying
          /\ IF Exists(vm[v]) THEN Fault ELSE UNCHANGED budget
          /\ rec' = [rec EXCEPT ![r] = [rec[r] EXCEPT !.todo = @ \ {v}, !.errs = TRUE]]
          /\ UNCHANGED machine
  /\ UNCHANGED <<api, queue, past>>

DeletedAll(r) ==
  /\ At(r, "delete") /\ rec[r].todo = {}
  /\ IF rec[r].errs THEN UpdateStatus(r, TRUE, TRUE)
                    ELSE rec' = [rec EXCEPT ![r] = [rec[r] EXCEPT !.pc = "waitDeleted", !.todo = rec[r].done]]
  /\ UNCHANGED <<api, machine, queue, past, budget>>

\* What waitForVMCreation and waitForVMDeletion look for in the cache.
Confirmed(r, v) == IF At(r, "waitCreated") THEN Exists(vmCache[v])
                                           ELSE vmCache[v].st # "live"

\* The poll ends when the cache shows the change, or with an error after
\* stateConfirmationTimeout: certainly so for a VM that is gone again.
Wait(r) ==
  /\ rec[r].pc \in {"waitCreated", "waitDeleted"}
  /\ IF rec[r].todo = {}
       THEN UpdateStatus(r, FALSE, FALSE) /\ UNCHANGED budget
       ELSE \E v \in rec[r].todo :
              \/ /\ Confirmed(r, v)
                 /\ rec' = [rec EXCEPT ![r].todo = @ \ {v}]
                 /\ UNCHANGED budget
              \/ /\ ~Confirmed(r, v)
                 /\ IF At(r, "waitCreated") /\ ~Exists(vm[v]) THEN UNCHANGED budget ELSE Fault
                 /\ UpdateStatus(r, FALSE, TRUE)
  /\ UNCHANGED <<api, machine, queue, past>>

\* The deferred patch writes what differs from the version read.
Merged(r) ==
  LET b == rec[r].base
      a == rec[r].status
      pick(old, new, cur) == IF old = new THEN cur ELSE new
      fin == pick(b.fin, rec[r].fin, rs[r].fin)
  IN  [rs[r] EXCEPT !.fin = fin,
         !.status = [replicas |-> pick(b.status.replicas, a.replicas, @.replicas),
                     failure  |-> pick(b.status.failure, a.failure, @.failure)],
         !.st = IF @ = "deleting" /\ ~fin THEN "gone" ELSE @]

\* While fewer VMs are ready than wanted (which is up to the prober) the
\* reconcile comes back after a delay.
Patch(r) ==
  /\ At(r, "patch")
  /\ LET b       == rec[r].base
         changed == rec[r].fin # b.fin \/ rec[r].status # b.status
     IN  \/ /\ changed => rs[r].st # "gone"
            /\ rec[r].fin /\ ~b.fin => rs[r].st = "live"
            /\ IF changed THEN WriteRS(r, Merged(r)) ELSE UNCHANGED api
            /\ queue' \in IF rec[r].again THEN {queue \cup {r}} ELSE {queue, queue \cup {r}}
            /\ UNCHANGED budget
         \/ /\ changed
            /\ IF rs[r].st = "gone" \/ (rec[r].fin /\ ~b.fin /\ rs[r].st # "live")
                 THEN UNCHANGED budget ELSE Fault
            /\ queue' = queue \cup {r}
            /\ UNCHANGED api
  /\ rec' = [rec EXCEPT ![r] = NotRunning]
  /\ UNCHANGED <<machine, past>>

-----------------------------------------------------------------------------
(* The specification. *)

Worker(r) == Reconcile(r) \/ Adopt(r) \/ Label(r) \/ Sync(r) \/ Create(r) \/ Created(r)
             \/ Delete(r) \/ DeletedAll(r) \/ Wait(r) \/ Patch(r)

Next ==
  \/ \E r \in RS : Worker(r) \/ SetEvent(r) \/ Scale(r) \/ DeleteSet(r)
  \/ \E v \in Names : CreateOrphan(v) \/ DeleteMachine(v) \/ GarbageCollect(v)
                      \/ MachineGone(v) \/ MachineEvent(v)

Spec == Init /\ [][Next]_vars

\* Workers, informers, the garbage collector and the VirtualMachine controller
\* keep running; users and failures may stop.
Fairness ==
  /\ \A r \in RS : WF_vars(Worker(r)) /\ WF_vars(SetEvent(r))
  /\ \A v \in Names : WF_vars(MachineEvent(v)) /\ WF_vars(MachineGone(v))
                      /\ WF_vars(GarbageCollect(v))

FairSpec == Spec /\ Fairness

-----------------------------------------------------------------------------
(* Properties. *)

Owned(r) == {v \in Names : Exists(vm[v]) /\ vm[v].owner = r}
Live(r)  == {v \in Owned(r) : vm[v].st = "live"}

\* syncReplicas counts in a lagging cache.  As long as no call has failed or been refused,
\* no wait has timed out and nobody else deletes VMs, a VM it creates never takes the replica
\* set beyond the size it is working towards: waitForVMCreation keeps the next reconcile
\* from counting without the VMs of this one.
NoSurplus ==
  [][\A r \in RS, v \in Names :
       (~Exists(vm[v]) /\ vm'[v].owner = r /\ faults = 0 /\ past \subseteq {"raised"})
          => Cardinality(Owned(r)') <= rec[r].base.n]_vars

\* A VM that syncReplicas deletes never takes the replica set below the size it is
\* working towards, whatever has failed or timed out before: with a stale cache it picks
\* the VMs it has already deleted again, because their order is fixed and VMs being deleted
\* come first.  Except when somebody else deletes VMs, and when the size is raised after a
\* delete has failed: of the VMs deleted for the smaller size it then picks too few again.
NoOverDelete ==
  [][\A r \in RS, v \in Names :
       (At(r, "delete") /\ rec'[r] # rec[r] /\ vm[v].st = "live" /\ vm'[v].st # "live"
          /\ "meddled" \notin past /\ (faults = 0 \/ "raised" \notin past))
          => Cardinality(Live(r)') >= rec[r].base.n]_vars

\* Once users leave it alone, a replica set that is not deleted has exactly as many
\* VMs as it asks for, and its status says so and reports no failure.
Converges ==
  \A r \in RS : <>[](rs[r].st = "live" => /\ Owned(r) = Live(r)
                                         /\ Cardinality(Owned(r)) = rs[r].n
                                         /\ rs[r].status = [replicas |-> rs[r].n,
                                                            failure |-> FALSE])

\* A deleted replica set goes away and ends up without VMs; those too go that a
\* reconcile with an old version of it has created or adopted meanwhile.
DeletedSetEnds ==
  \A r \in RS : rs[r].st = "deleting" ~> [](rs[r].st = "gone") /\ <>[](Owned(r) = {})

-----------------------------------------------------------------------------
(* The inductive invariant, for one replica set with the selector. *)

Working(r) == rec[r].pc \notin {"idle", "patch"}

\* The finalizer stays until the cache has shown the deletion; a reconcile that works on
\* VMs has seen it.  Until the size is raised, the sizes seen earlier are no smaller.
SetKept(r) ==
  /\ rs[r].fin => rs[r].st # "gone"
  /\ rsCache[r].st # "live" => rs[r].st # "live"
  /\ rsCache[r].st = "live" /\ rsCache[r].fin => rs[r].fin
  /\ Working(r) => rs[r].fin /\ rec[r].fin /\ rec[r].base.fin
  /\ rec[r].pc = "patch" /\ rec[r].base.fin /\ ~rec[r].fin => rsCache[r].st # "live"
  /\ "raised" \notin past => /\ rs[r].n <= rsCache[r].n
                             /\ Working(r) => rsCache[r].n <= rec[r].base.n

\* What a reconcile has listed and what it still has to do.
Lists(r) ==
  /\ rec[r].dying \subseteq rec[r].mine
  /\ rec[r].pc \in {"label", "sync"} => rec[r].todo = {}
  /\ rec[r].pc \in {"adopt", "label", "sync"} => ~rec[r].errs
  /\ rec[r].pc = "create" =>
       /\ rec[r].todo \cap rec[r].mine = {}
       /\ Cardinality(rec[r].mine) + Cardinality(rec[r].todo) + rec[r].left <= rec[r].base.n
  /\ rec[r].pc = "delete" =>
       /\ Cardinality(rec[r].mine) > rec[r].base.n
       /\ rec[r].done = ToDelete(rec[r].mine, rec[r].dying, Cardinality(rec[r].mine) - rec[r].base.n)
       /\ rec[r].todo \subseteq rec[r].done

\* Names of VMs are not used again while anybody knows them.
Owners(r) ==
  \A v \in Names :
    /\ ~Exists(vm[v]) => vm[v].owner = NoRS
    /\ Exists(vm[v]) /\ (v \in rec[r].mine \/ (Exists(vmCache[v]) /\ vmCache[v].owner = r)) => vm[v].owner = r
    /\ Exists(vm[v]) /\ rec[r].pc = "adopt" /\ v \in rec[r].todo => Exists(vmCache[v])

\* As long as nothing has gone wrong: the cache shows all VMs of the replica set but those
\* whose creation the reconcile will wait for, and it has counted all of them.
Counted(r) ==
  faults = 0 /\ past \subseteq {"raised"} =>
    /\ \A v \in Owned(r) :
         /\ Exists(vmCache[v]) \/ (rec[r].pc \in {"create", "waitCreated"} /\ v \in rec[r].todo)
         /\ rec[r].pc \in {"adopt", "label", "sync", "create"} => v \in rec[r].mine \cup rec[r].todo
    /\ rec[r].pc \in {"create", "waitCreated"} => ~rec[r].errs /\ rec[r].todo \subseteq Live(r)

\* VMs that are not live but that the reconcile, or the cache, still takes for such.
ListedLive(r) == {z \in Names : vm[z].st # "live" /\ Working(r) /\ z \in rec[r].mine \ rec[r].dying}
CachedLive(r) == {z \in Names : vm[z].st # "live" /\ vmCache[z].st = "live" /\ vmCache[z].owner = r}

\* As long as nothing has gone wrong there are none but those whose deletion the reconcile
\* will wait for.
Confirms(r) ==
  faults = 0 /\ "meddled" \notin past /\ rs[r].st # "gone" =>
    /\ rec[r].pc \notin {"delete", "waitDeleted"} => ListedLive(r) = {} /\ CachedLive(r) = {}
    /\ rec[r].pc = "delete" => ~rec[r].errs /\ ListedLive(r) \cup CachedLive(r) \subseteq rec[r].done \ rec[r].todo
    /\ rec[r].pc = "waitDeleted" => CachedLive(r) \subseteq rec[r].todo

\* In any case those it would keep were live when it deleted the first of them: beyond each
\* of them in the order there are as many live VMs as it wants.
Above(r, z) == {w \in Live(r) : w > z}
Orderly(r) ==
  "meddled" \notin past /\ (faults = 0 \/ "raised" \notin past) =>
    /\ Working(r) => \A z \in ListedLive(r) \cup CachedLive(r) : Cardinality(Above(r, z)) >= rec[r].base.n
    /\ ~Working(r) /\ rs[r].st # "gone" => \A z \in CachedLive(r) : Cardinality(Above(r, z)) >= rsCache[r].n

Inductive ==
  /\ TypeOK
  /\ \A r \in RS : SetKept(r) /\ Lists(r) /\ Owners(r) /\ Counted(r) /\ Confirms(r) /\ Orderly(r)
=============================================================================
