----------------------------- MODULE AsyncSignal -----------------------------
(***************************************************************************)
(* From a change of a VM in vSphere to a reconcile of its VirtualMachine:  *)
(*   pkg/util/vsphere/watcher/watcher.go (Start, onUpdate, onObject)       *)
(*   services/vm-watcher/vm_watcher_service.go (waitForChanges,            *)
(*     lookupNamespacedName)                                               *)
(*   the channel source of the VirtualMachine controller                   *)
(*                                                                         *)
(* A property collector reports batches of changed VMs to the Watcher,     *)
(* which compares them with a process-wide cache of property hashes and    *)
(* hands a result to a goroutine of its own for each VM that changed.  The *)
(* service receives the results, one at a time, and passes them through a  *)
(* buffered channel to the controller's work queue.  The provider leaves a *)
(* VM it cannot handle yet alone and relies on the signal to come.         *)
(***************************************************************************)
EXTENDS Integers, Sequences, SequencesExt

CONSTANTS VM,            \* VirtualMachine objects and their vSphere VMs
          Val,           \* values of a VM's watched properties
          Blocked,       \* those the provider refuses: NoRequeueError
          New,           \* VMs not yet created in vSphere
          Deletable,     \* VMs whose object the user may delete
          ChanSize,      \* the buffer of the channel source
          MaxChanges,    \* bound: changes in vSphere
          MaxWatchers    \* bound: Watchers started

Nobody == "nobody"
Nil    == "nil"

ASSUME SignalAssumption ==
  /\ Nobody \notin VM /\ Nil \notin Val
  /\ Blocked \subseteq Val /\ New \subseteq VM /\ Deletable \subseteq VM
  /\ ChanSize \in Nat \ {0} /\ MaxChanges \in Nat /\ MaxWatchers \in Nat

VARIABLES
  obj,      \* the VirtualMachine objects, as the informer's cache has them
  inVC,     \* VMs that exist in vSphere
  val,      \* their watched properties
  known,    \* what the last reconcile saw of them
  pend,     \* the property collector: what it has to report
  batch,    \* the updates that WaitForUpdatesEx returned
  Cache,    \* the cache of property hashes
  sender,   \* goroutines that have a result, verified or not, for the channel
  watcher,  \* the Watcher: none, up, or dead (its Done channel closed)
  started,  \* Watchers started
  svc,      \* the VM whose event the service is sending, or Nobody
  chan,     \* the channel source
  queue,    \* the work queue
  missed,   \* history: VMs with a change that no Watcher has told of
  changes

\* The vSphere side, the Watcher, and the way to the controller.
vsphere == <<inVC, val, pend, missed, changes>>
watch   == <<batch, Cache, sender, watcher, started>>
deliver == <<svc, chan, queue>>
vars    == <<obj, known, vsphere, watch, deliver>>

-----------------------------------------------------------------------------
Object == [st: {"live", "deleting", "gone"}, uid: BOOLEAN]
Update == [kind: {"enter", "modify"}, val: Val]
NoUpdate == [kind |-> "none", val |-> Nil]

\* No goroutine waits with a result.
NoSender == [verified \in BOOLEAN |-> 0]

TypeOK ==
  /\ obj \in [VM -> Object] /\ inVC \subseteq VM
  /\ val \in [VM -> Val] /\ known \in [VM -> Val \cup {Nil}]
  /\ pend \in [VM -> {"none", "enter", "modify"}]
  /\ batch \in [VM -> Update \cup {NoUpdate}]
  /\ Cache \in [VM -> Val \cup {Nil}] /\ sender \in [VM -> [BOOLEAN -> Nat]]
  /\ watcher \in {"none", "up", "dead"} /\ started \in 0..MaxWatchers
  /\ svc \in VM \cup {Nobody} /\ chan \in Seq(VM) /\ Len(chan) <= ChanSize
  /\ queue \subseteq VM /\ missed \subseteq VM /\ changes \in 0..MaxChanges

\* The operator starts: the controller queues every object it finds.
Init ==
  /\ obj = [v \in VM |-> [st |-> "live", uid |-> v \notin New]]
  /\ inVC = VM \ New /\ val \in [VM -> Val] /\ known = [v \in VM |-> Nil]
  /\ pend = [v \in VM |-> "none"] /\ batch = [v \in VM |-> NoUpdate]
  /\ Cache = [v \in VM |-> Nil] /\ sender = [v \in VM |-> NoSender]
  /\ watcher = "none" /\ started = 0
  /\ svc = Nobody /\ chan = <<>> /\ queue = VM /\ missed = {} /\ changes = 0

Exists(v) == obj[v].st # "gone"

\* The collector merges what it has not reported yet.
Report(v) == pend' = [pend EXCEPT ![v] = IF watcher = "up" /\ @ # "enter" THEN "modify" ELSE @]

-----------------------------------------------------------------------------
(* vSphere and the user (external to this code). *)

\* A VM that is being created appears in the watched folder.
VMAppears(v) ==
  /\ v \notin inVC /\ obj[v].st = "live" /\ ~obj[v].uid
  /\ inVC' = inVC \cup {v}
  /\ pend' = [pend EXCEPT ![v] = IF watcher = "up" THEN "enter" ELSE @]
  /\ UNCHANGED <<obj, known, val, missed, changes, watch, deliver>>

\* The create records status.uniqueID; the controller's own watch queues it.
UniqueIDPatched(v) ==
  /\ v \in inVC /\ obj[v].st = "live" /\ ~obj[v].uid
  /\ obj' = [obj EXCEPT ![v].uid = TRUE]
  /\ queue' = queue \cup {v}
  /\ UNCHANGED <<known, vsphere, watch, svc, chan>>

DeleteObject(v) ==
  /\ v \in Deletable /\ obj[v].st = "live" /\ obj[v].uid
  /\ obj' = [obj EXCEPT ![v].st = "deleting"]
  /\ queue' = queue \cup {v}
  /\ UNCHANGED <<known, vsphere, watch, svc, chan>>

\* The Watcher is there and has been told of the VM.
Watched(v) == watcher = "up" /\ pend[v] # "enter"

\* The Watcher has seen the VM's last change.
Handled(v) == pend[v] # "modify" /\ batch[v] = NoUpdate

\* A watched property changes.  That may be missed if no Watcher sees it, or if the Watcher
\* has not handled what there was before, as the two may cancel out.
ChangeVM(v) ==
  /\ v \in inVC /\ changes < MaxChanges
  /\ \E x \in Val \ {val[v]} : val' = [val EXCEPT ![v] = x]
  /\ changes' = changes + 1
  /\ missed' = IF Watched(v) /\ Handled(v) THEN missed ELSE missed \cup {v}
  /\ Report(v)
  /\ UNCHANGED <<obj, known, inVC, watch, deliver>>

\* An update of nothing that counts: an ignored key, a Reload, another order.
TouchVM(v) ==
  /\ v \in inVC /\ changes < MaxChanges
  /\ changes' = changes + 1
  /\ Report(v)
  /\ UNCHANGED <<obj, known, inVC, val, missed, watch, deliver>>

-----------------------------------------------------------------------------
(* The Watcher. *)

\* Start: a new filter reports every VM in its scope as entering it.
StartWatcher ==
  /\ watcher = "none" /\ started < MaxWatchers
  /\ watcher' = "up" /\ started' = started + 1
  /\ pend' = [v \in VM |-> IF v \in inVC THEN "enter" ELSE "none"]
  /\ UNCHANGED <<obj, known, inVC, val, missed, changes, batch, Cache, sender, deliver>>

\* WaitForUpdatesEx returns some of what there is to report.
WaitForUpdates ==
  /\ watcher = "up" /\ \A v \in VM : batch[v] = NoUpdate
  /\ \E some \in (SUBSET {v \in VM : pend[v] # "none"}) \ {{}} :
       /\ batch' = [v \in VM |-> IF v \in some THEN [kind |-> pend[v], val |-> val[v]] ELSE NoUpdate]
       /\ pend' = [v \in VM |-> IF v \in some THEN "none" ELSE pend[v]]
  /\ UNCHANGED <<obj, known, inVC, val, missed, changes, Cache, sender, watcher, started, deliver>>

\* Variant for mutation: the cache is filled only when the VM enters.
OnObjectCachesOnce(v) ==
  /\ watcher = "up" /\ batch[v] # NoUpdate
  /\ batch' = [batch EXCEPT ![v] = NoUpdate]
  /\ LET u == batch[v]
         changed == Cache[v] # u.val
         skip == obj[v].st = "deleting" \/ (u.kind = "enter" /\ obj[v].uid)
     IN  /\ Cache' = [Cache EXCEPT ![v] = IF @ = Nil THEN u.val ELSE @]
         /\ sender' = IF changed /\ ~skip THEN [sender EXCEPT ![v][obj[v].uid] = @ + 1] ELSE sender
  /\ UNCHANGED <<obj, known, vsphere, watcher, started, deliver>>

\* lookupNamespacedName: the object a VM belongs to, by name or by unique ID.
Lookup(v) == [verified |-> Exists(v) /\ obj[v].uid, deleted |-> obj[v].st = "deleting"]

\* onObject: compare with the cache, look the object up, and unless the object
\* is being deleted, or is known and only now entering, start a sender.
OnObject(v) ==
  /\ watcher = "up" /\ batch[v] # NoUpdate
  /\ batch' = [batch EXCEPT ![v] = NoUpdate]
  /\ LET u == batch[v]
         changed == Cache[v] # u.val
         r == Lookup(v)
         send == changed /\ ~r.deleted /\ ~(u.kind = "enter" /\ r.verified)
     IN  /\ Cache' = [Cache EXCEPT ![v] = IF changed /\ r.deleted THEN Nil ELSE u.val]
         /\ sender' = IF send THEN [sender EXCEPT ![v][r.verified] = @ + 1] ELSE sender
  /\ UNCHANGED <<obj, known, vsphere, watcher, started, deliver>>

\* The cache is an LRU with an expiry time.
Evict(v) ==
  /\ Cache[v] # Nil
  /\ Cache' = [Cache EXCEPT ![v] = Nil]
  /\ UNCHANGED <<obj, known, vsphere, batch, sender, watcher, started, deliver>>

\* The Watcher's goroutine ends; what it had of its batch is gone with it.
Dies ==
  /\ watcher' = "dead"
  /\ batch' = [v \in VM |-> NoUpdate] /\ pend' = [v \in VM |-> "none"]
  /\ missed' = missed \cup {v \in VM : ~Handled(v)}

\* The bound leaves the last Watcher running.
WatcherEnds ==
  /\ watcher = "up" /\ started < MaxWatchers
  /\ Dies
  /\ UNCHANGED <<obj, known, inVC, val, changes, Cache, sender, started, deliver>>

\* onObject fails for a VM it does not know: it cannot read whose VM it is, and
\* the cache has the change already.
RetrieveFails(v) ==
  /\ watcher = "up" /\ started < MaxWatchers
  /\ batch[v] # NoUpdate /\ Cache[v] # batch[v].val /\ ~Lookup(v).verified
  /\ Cache' = [Cache EXCEPT ![v] = batch[v].val]
  /\ Dies
  /\ UNCHANGED <<obj, known, inVC, val, changes, sender, started, deliver>>

-----------------------------------------------------------------------------
(* The service, the channel source and the controller. *)

\* A result from any of the waiting goroutines; select may still choose one
\* after the Watcher is done.  Unless the Watcher has verified it, the object
\* must exist now.
Receive(v) ==
  /\ svc = Nobody /\ watcher # "none"
  /\ \E verified \in BOOLEAN :
       /\ sender[v][verified] > 0
       /\ sender' = [sender EXCEPT ![v][verified] = @ - 1]
       /\ svc' = IF verified \/ Exists(v) THEN v ELSE Nobody
  /\ UNCHANGED <<obj, known, vsphere, batch, Cache, watcher, started, chan, queue>>

\* Variant for mutation: an event that finds the channel full is dropped.
SendEventDrops ==
  /\ svc # Nobody
  /\ chan' = IF Len(chan) < ChanSize THEN Append(chan, svc) ELSE chan
  /\ svc' = Nobody
  /\ UNCHANGED <<obj, known, vsphere, watch, queue>>

\* The buffered channel may be full: then the service waits.
SendEvent ==
  /\ svc # Nobody /\ Len(chan) < ChanSize
  /\ chan' = Append(chan, svc) /\ svc' = Nobody
  /\ UNCHANGED <<obj, known, vsphere, watch, queue>>

\* The Watcher is done: its senders wait for ever, and the loop starts again.
WatcherDone ==
  /\ svc = Nobody /\ watcher = "dead"
  /\ watcher' = "none" /\ sender' = [v \in VM |-> NoSender]
  /\ missed' = missed \cup {v \in VM : sender[v] # NoSender}
  /\ UNCHANGED <<obj, known, inVC, val, pend, changes, batch, Cache, started, deliver>>

\* controller-runtime moves an event from the channel to the work queue.
QueueEvent ==
  /\ chan # <<>>
  /\ chan' = Tail(chan) /\ queue' = queue \cup {Head(chan)}
  /\ UNCHANGED <<obj, known, vsphere, watch, svc>>

\* A reconcile sees the VM as it is.  A VM in a state that is refused is left
\* alone; a deleted one is destroyed otherwise.
Reconcile(v) ==
  /\ v \in queue /\ queue' = queue \ {v}
  /\ known' = [known EXCEPT ![v] = IF v \in inVC THEN val[v] ELSE @]
  /\ IF obj[v].st = "deleting" /\ val[v] \notin Blocked
       THEN /\ obj' = [obj EXCEPT ![v].st = "gone"]
            /\ inVC' = inVC \ {v} /\ pend' = [pend EXCEPT ![v] = "none"]
       ELSE UNCHANGED <<obj, inVC, pend>>
  /\ missed' = missed \ {v}
  /\ UNCHANGED <<val, changes, watch, svc, chan>>

-----------------------------------------------------------------------------
Environment(v) == VMAppears(v) \/ DeleteObject(v) \/ ChangeVM(v) \/ TouchVM(v) \/ Evict(v)
Watcher        == StartWatcher \/ WaitForUpdates \/ \E v \in VM : OnObject(v)
Service        == SendEvent \/ WatcherDone \/ \E v \in VM : Receive(v)

Next ==
  \/ \E v \in VM : Environment(v) \/ UniqueIDPatched(v) \/ Reconcile(v) \/ RetrieveFails(v)
  \/ Watcher \/ WatcherEnds \/ Service \/ QueueEvent

Spec == Init /\ [][Next]_vars

-----------------------------------------------------------------------------
(* Properties. *)

\* Nothing about the VM is on its way from vSphere to a reconcile.
Quiet(v) ==
  /\ watcher = "up" /\ pend[v] = "none" /\ batch[v] = NoUpdate
  /\ sender[v] = NoSender /\ svc # v /\ v \notin ToSet(chan) /\ v \notin queue

\* What the cache has of a VM is what vSphere has, unless an update of it is on
\* its way to the Watcher: a change is never mistaken for one seen before, over
\* evictions, restarts of the Watcher and VMs that change while there is none.
CacheCurrent ==
  \A v \in inVC : /\ watcher = "up" /\ pend[v] = "none" /\ batch[v] = NoUpdate
                  /\ Cache[v] # Nil
                  => Cache[v] = val[v]

\* The watcher service ensures that VMs are reconciled when they change: once
\* the signals have drained, the last reconcile saw the VM as it is, over full
\* channels, evictions and restarts of the Watcher.  Not so for an object that
\* is being deleted, as onObject sends nothing for it, nor for a change that the
\* Watcher missed: those wait for the resync.
SignalDelivered ==
  \A v \in VM \ missed :
    v \in inVC /\ obj[v].uid /\ obj[v].st = "live" /\ Quiet(v) => known[v] = val[v]

-----------------------------------------------------------------------------
(* What makes the properties above inductive. *)

\* Something about the VM is on its way from the Watcher to a reconcile.
Delivering(v) == v \in queue \/ v \in ToSet(chan) \/ svc = v \/ sender[v] # NoSender

\* An update is outdated only if a newer one is pending.
BatchCurrent ==
  \A v \in inVC : watcher = "up" /\ pend[v] = "none" /\ batch[v] # NoUpdate => batch[v].val = val[v]

\* A change that the Watcher will come upon, and will not take for one seen before.
Noticed(v) ==
  /\ watcher = "up" /\ Cache[v] # val[v]
  /\ \/ batch[v] = NoUpdate /\ pend[v] = "modify"
     \/ batch[v] = [kind |-> "modify", val |-> val[v]]

\* A change that was not missed has been seen by a reconcile, or is on its way to one.
Tracked ==
  \A v \in VM \ missed :
    v \in inVC /\ obj[v].uid /\ obj[v].st = "live" => known[v] = val[v] \/ Delivering(v) \/ Noticed(v)

Inductive == TypeOK /\ CacheCurrent /\ BatchCurrent /\ Tracked
=============================================================================
