-------------------------- MODULE AsyncSignal_proofs --------------------------
(***************************************************************************)
(* Proofs about AsyncSignal, for every set of VMs and of property values,  *)
(* every size of the channel, and any number of changes and of Watchers.   *)
(***************************************************************************)
EXTENDS AsyncSignal, SequenceTheorems, TLAPS

-----------------------------------------------------------------------------
(* The types. *)

\* One sender more or less.
LEMMA SenderType ==
  ASSUME sender \in [VM -> [BOOLEAN -> Nat]], NEW v \in VM, NEW b \in BOOLEAN
  PROVE  /\ [sender EXCEPT ![v][b] = @ + 1] \in [VM -> [BOOLEAN -> Nat]]
         /\ sender[v][b] > 0 => [sender EXCEPT ![v][b] = @ - 1] \in [VM -> [BOOLEAN -> Nat]]
OBVIOUS

\* The steps of vSphere, the user and the controller keep the types.
LEMMA TypeVM ==
  ASSUME TypeOK, NEW v \in VM, Environment(v) \/ UniqueIDPatched(v) \/ Reconcile(v)
  PROVE  TypeOK'
<1>0. obj \in [VM -> Object] /\ pend \in [VM -> {"none", "enter", "modify"}]
  BY DEF TypeOK
<1>1. CASE VMAppears(v)
  BY <1>0, <1>1 DEF VMAppears, TypeOK, watch, deliver
<1>2. CASE UniqueIDPatched(v) \/ DeleteObject(v)
  <2>1. obj' \in [VM -> Object]
    BY <1>0, <1>2 DEF UniqueIDPatched, DeleteObject, Object
  <2> QED
    BY <1>2, <2>1 DEF UniqueIDPatched, DeleteObject, TypeOK, vsphere, watch
<1>3. CASE ChangeVM(v) \/ TouchVM(v)
  <2>1. pend' \in [VM -> {"none", "enter", "modify"}]
    BY <1>0, <1>3 DEF ChangeVM, TouchVM, Report
  <2>2. val' \in [VM -> Val] /\ missed' \subseteq VM
    BY <1>3 DEF ChangeVM, TouchVM, TypeOK
  <2>3. changes' \in 0..MaxChanges
    BY <1>3, SignalAssumption DEF ChangeVM, TouchVM, TypeOK
  <2> QED
    BY <1>3, <2>1, <2>2, <2>3 DEF ChangeVM, TouchVM, TypeOK, watch, deliver
<1>4. CASE Evict(v)
  BY <1>4 DEF Evict, TypeOK, vsphere, deliver
<1>5. CASE Reconcile(v)
  <2>1. obj' \in [VM -> Object] /\ pend' \in [VM -> {"none", "enter", "modify"}] /\ inVC' \subseteq VM
    <3>1. obj' = [obj EXCEPT ![v].st = "gone"] \/ obj' = obj
      BY <1>5 DEF Reconcile
    <3>2. obj' \in [VM -> Object]
      BY <1>0, <3>1 DEF Object
    <3> QED
      BY <1>0, <1>5, <3>2 DEF Reconcile, TypeOK
  <2>2. known' \in [VM -> Val \cup {Nil}]
    BY <1>5 DEF Reconcile, TypeOK
  <2> QED
    BY <1>5, <2>1, <2>2 DEF Reconcile, TypeOK, watch
<1> QED
  BY <1>1, <1>2, <1>3, <1>4, <1>5 DEF Environment

\* The steps of the Watcher keep the types.
LEMMA TypeWatcher ==
  ASSUME TypeOK, Watcher \/ WatcherEnds \/ \E v \in VM : RetrieveFails(v)
  PROVE  TypeOK'
<1>0. /\ obj \in [VM -> Object] /\ pend \in [VM -> {"none", "enter", "modify"}]
      /\ batch \in [VM -> Update \cup {NoUpdate}] /\ Cache \in [VM -> Val \cup {Nil}]
      /\ sender \in [VM -> [BOOLEAN -> Nat]] /\ val \in [VM -> Val]
  BY DEF TypeOK
<1>1. CASE StartWatcher
  <2>1. started' \in 0..MaxWatchers
    BY <1>1, SignalAssumption DEF StartWatcher, TypeOK
  <2>2. pend' \in [VM -> {"none", "enter", "modify"}]
    BY <1>1 DEF StartWatcher
  <2> QED
    BY <1>1, <2>1, <2>2 DEF StartWatcher, TypeOK, deliver
<1>2. CASE WaitForUpdates
  <2>1. PICK some \in (SUBSET {v \in VM : pend[v] # "none"}) \ {{}} :
          /\ batch' = [v \in VM |-> IF v \in some THEN [kind |-> pend[v], val |-> val[v]] ELSE NoUpdate]
          /\ pend' = [v \in VM |-> IF v \in some THEN "none" ELSE pend[v]]
    BY <1>2, Zenon DEF WaitForUpdates
  <2>2. \A v \in some : v \in VM /\ [kind |-> pend[v], val |-> val[v]] \in Update
    BY <1>0 DEF Update
  <2>3. batch' \in [VM -> Update \cup {NoUpdate}] /\ pend' \in [VM -> {"none", "enter", "modify"}]
    BY <1>0, <2>1, <2>2
  <2> QED
    BY <1>2, <2>3 DEF WaitForUpdates, TypeOK, deliver
<1>3. ASSUME NEW v \in VM, OnObject(v) PROVE TypeOK'
  <2>1. batch[v] \in Update /\ batch[v].val \in Val
    BY <1>0, <1>3 DEF OnObject, Update
  <2>2. batch' \in [VM -> Update \cup {NoUpdate}] /\ Cache' \in [VM -> Val \cup {Nil}]
    BY <1>0, <1>3, <2>1 DEF OnObject
  <2>3. Lookup(v).verified \in BOOLEAN
    BY <1>0 DEF Lookup, Object
  <2>4. sender' \in [VM -> [BOOLEAN -> Nat]]
    BY <1>0, <1>3, <2>3, SenderType DEF OnObject
  <2> QED
    BY <1>3, <2>2, <2>4 DEF OnObject, TypeOK, vsphere, deliver
<1>4. ASSUME Dies
      PROVE  /\ watcher' \in {"none", "up", "dead"} /\ batch' \in [VM -> Update \cup {NoUpdate}]
             /\ pend' \in [VM -> {"none", "enter", "modify"}] /\ missed' \subseteq VM
  BY <1>4 DEF Dies, TypeOK
<1>5. CASE WatcherEnds
  BY <1>4, <1>5 DEF WatcherEnds, TypeOK, deliver
<1>6. ASSUME NEW v \in VM, RetrieveFails(v) PROVE TypeOK'
  <2>1. batch[v].val \in Val
    BY <1>0, <1>6 DEF RetrieveFails, Update
  <2>2. Cache' \in [VM -> Val \cup {Nil}]
    BY <1>0, <1>6, <2>1 DEF RetrieveFails
  <2> QED
    BY <1>4, <1>6, <2>2 DEF RetrieveFails, TypeOK, deliver
<1> QED
  BY <1>1, <1>2, <1>3, <1>5, <1>6 DEF Watcher

\* The steps of the service and of the channel source keep the types.
LEMMA TypeService ==
  ASSUME TypeOK, Service \/ QueueEvent
  PROVE  TypeOK'
<1>0. sender \in [VM -> [BOOLEAN -> Nat]] /\ chan \in Seq(VM) /\ Len(chan) <= ChanSize /\ ChanSize \in Nat
  BY SignalAssumption DEF TypeOK
<1>1. CASE SendEvent
  <2>1. svc \in VM
    BY <1>1 DEF SendEvent, TypeOK
  <2>2. chan' \in Seq(VM) /\ Len(chan') <= ChanSize
    BY <1>0, <1>1, <2>1 DEF SendEvent
  <2> QED
    BY <1>1, <2>2 DEF SendEvent, TypeOK, vsphere, watch
<1>2. CASE WatcherDone
  <2>1. sender' \in [VM -> [BOOLEAN -> Nat]]
    BY <1>2 DEF WatcherDone, NoSender
  <2> QED
    BY <1>2, <2>1 DEF WatcherDone, TypeOK, deliver
<1>3. ASSUME NEW v \in VM, Receive(v) PROVE TypeOK'
  <2>1. sender' \in [VM -> [BOOLEAN -> Nat]] /\ svc' \in VM \cup {Nobody}
    BY <1>0, <1>3, SenderType DEF Receive
  <2> QED
    BY <1>3, <2>1 DEF Receive, TypeOK, vsphere
<1>4. CASE QueueEvent
  <2>1. chan' \in Seq(VM) /\ Len(chan') <= ChanSize /\ Head(chan) \in VM
    BY <1>0, <1>4, HeadTailProperties DEF QueueEvent
  <2> QED
    BY <1>4, <2>1 DEF QueueEvent, TypeOK, vsphere, watch
<1> QED
  BY <1>1, <1>2, <1>3, <1>4 DEF Service

\* Every step keeps the types.
LEMMA TypeNext ==
  ASSUME TypeOK, [Next]_vars
  PROVE  TypeOK'
<1>1. CASE UNCHANGED vars
  BY <1>1 DEF vars, vsphere, watch, deliver, TypeOK
<1> QED
  BY <1>1, TypeVM, TypeWatcher, TypeService DEF Next

-----------------------------------------------------------------------------
(* The cache. *)

\* What the Watcher has of a VM is current unless something is pending, step by step.
LEMMA CacheNext ==
  ASSUME TypeOK, CacheCurrent, BatchCurrent, [Next]_vars
  PROVE  CacheCurrent' /\ BatchCurrent'
<1>0. /\ pend \in [VM -> {"none", "enter", "modify"}] /\ val \in [VM -> Val] /\ inVC \subseteq VM
      /\ batch \in [VM -> Update \cup {NoUpdate}] /\ Cache \in [VM -> Val \cup {Nil}]
  BY DEF TypeOK
<1>1. ASSUME UNCHANGED <<val, watcher, batch, Cache>>, inVC' \subseteq inVC,
             \A v \in inVC' : pend'[v] = pend[v]
      PROVE  CacheCurrent' /\ BatchCurrent'
  BY <1>1 DEF CacheCurrent, BatchCurrent
<1>2. ASSUME NEW v \in VM, VMAppears(v) PROVE CacheCurrent' /\ BatchCurrent'
  <2>1. /\ UNCHANGED <<val, watcher, batch, Cache>> /\ inVC' = inVC \cup {v}
        /\ watcher = "up" => pend'[v] = "enter"
        /\ \A u \in VM \ {v} : pend'[u] = pend[u]
    BY <1>0, <1>2 DEF VMAppears, watch
  <2> QED
    BY <1>0, <2>1 DEF CacheCurrent, BatchCurrent
<1>3. ASSUME NEW v \in VM, ChangeVM(v) \/ TouchVM(v) PROVE CacheCurrent' /\ BatchCurrent'
  <2>1. /\ UNCHANGED <<inVC, watcher, batch, Cache>>
        /\ watcher = "up" => pend'[v] # "none"
        /\ \A u \in VM \ {v} : pend'[u] = pend[u] /\ val'[u] = val[u]
    BY <1>0, <1>3 DEF ChangeVM, TouchVM, Report, watch
  <2> QED
    BY <1>0, <2>1 DEF CacheCurrent, BatchCurrent
<1>4. ASSUME NEW v \in VM, Evict(v) PROVE CacheCurrent' /\ BatchCurrent'
  <2>1. /\ UNCHANGED <<inVC, val, pend, watcher, batch>>
        /\ Cache'[v] = Nil /\ \A u \in VM \ {v} : Cache'[u] = Cache[u]
    BY <1>0, <1>4 DEF Evict, vsphere
  <2> QED
    BY <1>0, <2>1 DEF CacheCurrent, BatchCurrent
<1>5. ASSUME NEW v \in VM, Reconcile(v) PROVE CacheCurrent' /\ BatchCurrent'
  BY <1>0, <1>1, <1>5 DEF Reconcile, watch
<1>6. ASSUME StartWatcher PROVE CacheCurrent' /\ BatchCurrent'
  <2>1. UNCHANGED inVC /\ \A v \in inVC : pend'[v] = "enter"
    BY <1>0, <1>6 DEF StartWatcher
  <2> QED
    BY <2>1 DEF CacheCurrent, BatchCurrent
<1>7. ASSUME WaitForUpdates PROVE CacheCurrent' /\ BatchCurrent'
  <2>1. PICK some \in (SUBSET {v \in VM : pend[v] # "none"}) \ {{}} :
          /\ batch' = [v \in VM |-> IF v \in some THEN [kind |-> pend[v], val |-> val[v]] ELSE NoUpdate]
          /\ pend' = [v \in VM |-> IF v \in some THEN "none" ELSE pend[v]]
    BY <1>7, Zenon DEF WaitForUpdates
  <2>2. \A v \in VM : batch[v] = NoUpdate
    BY <1>7 DEF WaitForUpdates
  <2>3. UNCHANGED <<inVC, val, watcher, Cache>>
    BY <1>7 DEF WaitForUpdates
  <2>4. \A v \in some : batch'[v] # NoUpdate /\ batch'[v].val = val[v]
    BY <1>0, <2>1 DEF NoUpdate
  <2>5. \A v \in VM \ some : batch'[v] = NoUpdate /\ pend'[v] = pend[v]
    BY <2>1
  <2> QED
    BY <1>0, <2>2, <2>3, <2>4, <2>5 DEF CacheCurrent, BatchCurrent
<1>8. ASSUME NEW v \in VM, OnObject(v) PROVE CacheCurrent' /\ BatchCurrent'
  <2>1. /\ UNCHANGED <<inVC, val, pend, watcher>> /\ watcher = "up" /\ batch[v] # NoUpdate
        /\ batch'[v] = NoUpdate /\ Cache'[v] \in {Nil, batch[v].val}
        /\ \A u \in VM \ {v} : batch'[u] = batch[u] /\ Cache'[u] = Cache[u]
    BY <1>0, <1>8 DEF OnObject, vsphere
  <2> QED
    BY <1>0, <2>1 DEF CacheCurrent, BatchCurrent
<1>9. ASSUME WatcherEnds \/ \E v \in VM : RetrieveFails(v) PROVE CacheCurrent' /\ BatchCurrent'
  <2>1. watcher' = "dead"
    BY <1>9 DEF WatcherEnds, RetrieveFails, Dies
  <2> QED
    BY <2>1 DEF CacheCurrent, BatchCurrent
<1>10. ASSUME WatcherDone PROVE CacheCurrent' /\ BatchCurrent'
  <2>1. watcher' = "none"
    BY <1>10 DEF WatcherDone
  <2> QED
    BY <2>1 DEF CacheCurrent, BatchCurrent
<1>11. ASSUME \/ SendEvent \/ QueueEvent \/ UNCHANGED vars
              \/ \E v \in VM : DeleteObject(v) \/ UniqueIDPatched(v) \/ Receive(v)
       PROVE  CacheCurrent' /\ BatchCurrent'
  <2>1. UNCHANGED <<inVC, val, pend, watcher, batch, Cache>>
    BY <1>11 DEF SendEvent, QueueEvent, vars, DeleteObject, UniqueIDPatched, Receive, vsphere, watch
  <2> QED
    BY <1>1, <2>1
<1> QED
  BY <1>2, <1>3, <1>4, <1>5, <1>6, <1>7, <1>8, <1>9, <1>10, <1>11
  DEF Next, Environment, Watcher, Service

-----------------------------------------------------------------------------
(* The signal. *)

\* Tracked, of one VM.
OnTrack(v) ==
  v \notin missed /\ v \in inVC /\ obj[v].uid /\ obj[v].st = "live"
  => known[v] = val[v] \/ Delivering(v) \/ Noticed(v)

\* A step that leaves a VM and the way of its signal alone keeps it on track.
LEMMA Undisturbed ==
  ASSUME NEW v \in VM, OnTrack(v), v \in missed => v \in missed', v \in inVC' => v \in inVC,
         obj'[v] = obj[v], val'[v] = val[v], known'[v] = known[v],
         Delivering(v) => Delivering(v)', Noticed(v) => Noticed(v)'
  PROVE  OnTrack(v)'
BY DEF OnTrack

\* A VM in the work queue is on track.
LEMMA QueuedOnTrack ==
  ASSUME NEW v \in VM, v \in queue'
  PROVE  OnTrack(v)'
BY DEF OnTrack, Delivering

\* The channel source loses no event.
LEMMA ChannelKeeps ==
  ASSUME NEW s \in Seq(VM)
  PROVE  /\ \A v \in VM : ToSet(Append(s, v)) = ToSet(s) \cup {v}
         /\ s # <<>> => ToSet(s) \subseteq ToSet(Tail(s)) \cup {Head(s)}
<1>1. ASSUME NEW v \in VM PROVE ToSet(Append(s, v)) = ToSet(s) \cup {v}
  <2>1. /\ DOMAIN Append(s, v) = 1..(Len(s) + 1) /\ DOMAIN s = 1..Len(s) /\ Len(s) \in Nat
        /\ Append(s, v)[Len(s) + 1] = v /\ \A i \in 1..Len(s) : Append(s, v)[i] = s[i]
    OBVIOUS
  <2>2. 1..(Len(s) + 1) = 1..Len(s) \cup {Len(s) + 1}
    BY <2>1
  <2> QED
    BY <2>1, <2>2 DEF ToSet
<1>2. ASSUME s # <<>> PROVE ToSet(s) \subseteq ToSet(Tail(s)) \cup {Head(s)}
  <2>1. /\ Len(s) \in Nat \ {0} /\ DOMAIN s = 1..Len(s) /\ DOMAIN Tail(s) = 1..(Len(s) - 1)
        /\ Head(s) = s[1] /\ \A i \in 1..(Len(s) - 1) : Tail(s)[i] = s[i + 1]
    BY <1>2
  <2>2. ASSUME NEW i \in 1..Len(s), i # 1 PROVE s[i] \in ToSet(Tail(s))
    <3>1. i - 1 \in 1..(Len(s) - 1) /\ Tail(s)[i - 1] = s[i]
      BY <2>1, <2>2
    <3> QED
      BY <2>1, <3>1 DEF ToSet
  <2> QED
    BY <2>1, <2>2 DEF ToSet
<1> QED
  BY <1>1, <1>2

\* vSphere, the user and the controller keep every VM on track.
LEMMA TrackVM ==
  ASSUME Inductive, NEW v \in VM, Environment(v) \/ UniqueIDPatched(v) \/ Reconcile(v), NEW u \in VM
  PROVE  OnTrack(u)'
<1>0. /\ obj \in [VM -> Object] /\ pend \in [VM -> {"none", "enter", "modify"}] /\ val \in [VM -> Val]
      /\ batch \in [VM -> Update \cup {NoUpdate}] /\ Cache \in [VM -> Val \cup {Nil}]
      /\ known \in [VM -> Val \cup {Nil}] /\ inVC \subseteq VM
  BY DEF Inductive, TypeOK
<1>1. OnTrack(u)
  BY DEF Inductive, Tracked, OnTrack
<1>2. CASE VMAppears(v)
  <2>1. UNCHANGED <<obj, known, val, missed, watch, deliver>>
    BY <1>2 DEF VMAppears
  <2>2. CASE u = v
    BY <1>2, <2>1, <2>2 DEF VMAppears, OnTrack
  <2>3. CASE u # v
    BY <1>0, <1>1, <1>2, <2>1, <2>3, Undisturbed DEF VMAppears, Delivering, Noticed, watch, deliver
  <2> QED
    BY <2>2, <2>3
<1>3. CASE UniqueIDPatched(v) \/ DeleteObject(v)
  <2>1. /\ UNCHANGED <<known, vsphere, watch, svc, chan>> /\ queue' = queue \cup {v}
    BY <1>3 DEF UniqueIDPatched, DeleteObject
  <2>2. CASE u = v
    BY <2>1, <2>2, QueuedOnTrack
  <2>3. CASE u # v
    <3>1. obj'[u] = obj[u]
      BY <1>0, <1>3, <2>3 DEF UniqueIDPatched, DeleteObject
    <3> QED
      BY <1>1, <2>1, <3>1, Undisturbed DEF Delivering, Noticed, vsphere, watch
  <2> QED
    BY <2>2, <2>3
<1>4. CASE TouchVM(v)
  <2>1. UNCHANGED <<obj, known, inVC, val, missed, watch, deliver>> /\ (pend[u] = "modify" => pend'[u] = "modify")
    BY <1>0, <1>4 DEF TouchVM, Report
  <2> QED
    BY <1>1, <2>1, Undisturbed DEF Delivering, Noticed, watch, deliver
<1>5. CASE ChangeVM(v)
  <2>1. UNCHANGED <<obj, known, inVC, watch, deliver>> /\ v \in inVC
    BY <1>5 DEF ChangeVM
  <2>2. CASE u = v
    <3>1. CASE ~(Watched(v) /\ Handled(v))
      BY <1>5, <2>2, <3>1 DEF ChangeVM, OnTrack
    <3>2. CASE Watched(v) /\ Handled(v)
      <4>1. watcher = "up" /\ pend[v] = "none" /\ batch[v] = NoUpdate
        BY <1>0, <3>2 DEF Watched, Handled
      <4>2. Cache[v] # Nil => Cache[v] = val[v]
        BY <2>1, <4>1 DEF Inductive, CacheCurrent
      <4>3. val'[v] \in Val /\ val'[v] # val[v]
        BY <1>0, <1>5 DEF ChangeVM
      <4>4. Cache[v] # val'[v]
        BY <4>2, <4>3, SignalAssumption
      <4>5. pend'[v] = "modify"
        BY <1>0, <1>5, <4>1 DEF ChangeVM, Report
      <4> QED
        BY <2>1, <2>2, <4>1, <4>4, <4>5 DEF OnTrack, Noticed, watch
    <3> QED
      BY <3>1, <3>2
  <2>3. CASE u # v
    <3>1. val'[u] = val[u] /\ pend'[u] = pend[u] /\ (u \in missed => u \in missed')
      BY <1>0, <1>5, <2>3 DEF ChangeVM, Report
    <3> QED
      BY <1>1, <2>1, <3>1, Undisturbed DEF Delivering, Noticed, watch, deliver
  <2> QED
    BY <2>2, <2>3
<1>6. CASE Evict(v)
  <2>1. /\ UNCHANGED <<obj, known, vsphere, batch, sender, watcher, deliver>>
        /\ Cache'[u] = Nil \/ Cache'[u] = Cache[u]
    BY <1>0, <1>6 DEF Evict
  <2>2. val[u] # Nil
    BY <1>0, SignalAssumption
  <2>3. Noticed(u) => Noticed(u)'
    BY <2>1, <2>2 DEF Noticed, vsphere
  <2> QED
    BY <1>1, <2>1, <2>3, Undisturbed DEF Delivering, vsphere, deliver
<1>7. CASE Reconcile(v)
  <2>1. UNCHANGED <<val, watch, svc, chan>>
    BY <1>7 DEF Reconcile
  <2>2. inVC' \subseteq inVC
    BY <1>7 DEF Reconcile
  <2>3. CASE u = v
    <3>1. u \in inVC => known'[u] = val'[u]
      BY <1>0, <1>7, <2>1, <2>3 DEF Reconcile
    <3> QED
      BY <2>2, <3>1 DEF OnTrack
  <2>4. CASE u # v
    <3>1. /\ obj'[u] = obj[u] /\ known'[u] = known[u] /\ pend'[u] = pend[u]
          /\ (u \in missed => u \in missed') /\ (u \in queue => u \in queue')
      BY <1>0, <1>7, <2>4 DEF Reconcile
    <3> QED
      BY <1>1, <2>1, <2>2, <3>1, Undisturbed DEF Delivering, Noticed, watch
  <2> QED
    BY <2>3, <2>4
<1> QED
  BY <1>2, <1>3, <1>4, <1>5, <1>6, <1>7 DEF Environment

\* The Watcher keeps every VM on track.
LEMMA TrackWatcher ==
  ASSUME Inductive, Watcher \/ WatcherEnds \/ \E v \in VM : RetrieveFails(v), NEW u \in VM
  PROVE  OnTrack(u)'
<1>0. /\ obj \in [VM -> Object] /\ pend \in [VM -> {"none", "enter", "modify"}] /\ val \in [VM -> Val]
      /\ batch \in [VM -> Update \cup {NoUpdate}] /\ Cache \in [VM -> Val \cup {Nil}]
      /\ sender \in [VM -> [BOOLEAN -> Nat]] /\ inVC \subseteq VM
  BY DEF Inductive, TypeOK
<1>1. OnTrack(u)
  BY DEF Inductive, Tracked, OnTrack
<1>2. CASE StartWatcher
  <2>1. UNCHANGED <<obj, known, inVC, val, missed, sender, deliver>> /\ ~Noticed(u)
    BY <1>2 DEF StartWatcher, Noticed
  <2> QED
    BY <1>1, <2>1, Undisturbed DEF Delivering, deliver
<1>3. CASE WaitForUpdates
  <2>1. PICK some \in (SUBSET {v \in VM : pend[v] # "none"}) \ {{}} :
          /\ batch' = [v \in VM |-> IF v \in some THEN [kind |-> pend[v], val |-> val[v]] ELSE NoUpdate]
          /\ pend' = [v \in VM |-> IF v \in some THEN "none" ELSE pend[v]]
    BY <1>3, Zenon DEF WaitForUpdates
  <2>2. UNCHANGED <<obj, known, inVC, val, missed, Cache, sender, watcher, deliver>> /\ batch[u] = NoUpdate
    BY <1>3 DEF WaitForUpdates
  <2>3. Noticed(u) => Noticed(u)'
    <3>1. CASE u \in some
      <4>1. batch'[u] = [kind |-> pend[u], val |-> val[u]]
        BY <2>1, <3>1
      <4>2. Noticed(u) => pend[u] = "modify"
        BY <2>2 DEF Noticed, NoUpdate
      <4> QED
        BY <2>2, <4>1, <4>2 DEF Noticed
    <3>2. CASE u \notin some
      <4>1. batch'[u] = batch[u] /\ pend'[u] = pend[u]
        BY <2>1, <2>2, <3>2
      <4> QED
        BY <2>2, <4>1 DEF Noticed
    <3> QED
      BY <3>1, <3>2
  <2> QED
    BY <1>1, <2>2, <2>3, Undisturbed DEF Delivering, deliver
<1>4. ASSUME NEW v \in VM, OnObject(v) PROVE OnTrack(u)'
  <2>1. UNCHANGED <<obj, known, vsphere, watcher, deliver>>
    BY <1>4 DEF OnObject
  <2>2. CASE u = v
    <3>1. sender[v] # NoSender => sender'[v] # NoSender
      <4>1. Lookup(v).verified \in BOOLEAN
        BY <1>0 DEF Lookup, Object
      <4>2. sender' = sender \/ sender' = [sender EXCEPT ![v][Lookup(v).verified] = @ + 1]
        BY <1>4 DEF OnObject
      <4>3. CASE sender' = [sender EXCEPT ![v][Lookup(v).verified] = @ + 1]
        <5>1. sender'[v][Lookup(v).verified] > 0
          BY <1>0, <4>1, <4>3
        <5> QED
          BY <4>1, <5>1 DEF NoSender
      <4> QED
        BY <4>2, <4>3
    <3>2. ASSUME Noticed(v), obj[v].uid, obj[v].st = "live" PROVE sender'[v] # NoSender
      <4>1. batch[v].kind = "modify" /\ Cache[v] # batch[v].val
        BY <1>4, <3>2 DEF OnObject, Noticed
      <4>2. Lookup(v) = [verified |-> TRUE, deleted |-> FALSE]
        BY <3>2 DEF Lookup, Exists
      <4>3. sender' = [sender EXCEPT ![v][Lookup(v).verified] = @ + 1]
        BY <1>4, <4>1, <4>2 DEF OnObject
      <4>4. Lookup(v).verified \in BOOLEAN
        BY <1>0 DEF Lookup, Object
      <4>5. sender'[v][Lookup(v).verified] > 0
        BY <1>0, <4>3, <4>4
      <4> QED
        BY <4>4, <4>5 DEF NoSender
    <3> QED
      BY <1>1, <2>1, <2>2, <3>1, <3>2 DEF OnTrack, Delivering, vsphere, deliver
  <2>3. CASE u # v
    <3>1. batch'[u] = batch[u] /\ Cache'[u] = Cache[u] /\ sender'[u] = sender[u]
      BY <1>0, <1>4, <2>3 DEF OnObject
    <3> QED
      BY <1>1, <2>1, <3>1, Undisturbed DEF Delivering, Noticed, vsphere, deliver
  <2> QED
    BY <2>2, <2>3
<1>5. ASSUME WatcherEnds \/ \E v \in VM : RetrieveFails(v) PROVE OnTrack(u)'
  <2>1. Dies /\ UNCHANGED <<obj, known, inVC, val, sender, deliver>>
    BY <1>5 DEF WatcherEnds, RetrieveFails
  <2>2. u \notin missed' => Handled(u) /\ u \notin missed
    BY <2>1 DEF Dies
  <2>3. Handled(u) => ~Noticed(u)
    BY DEF Handled, Noticed, NoUpdate
  <2> QED
    BY <1>1, <2>1, <2>2, <2>3 DEF OnTrack, Delivering, deliver
<1> QED
  BY <1>2, <1>3, <1>4, <1>5 DEF Watcher

\* The service and the channel source keep every VM on track.
LEMMA TrackService ==
  ASSUME Inductive, Service \/ QueueEvent, NEW u \in VM
  PROVE  OnTrack(u)'
<1>0. obj \in [VM -> Object] /\ sender \in [VM -> [BOOLEAN -> Nat]] /\ chan \in Seq(VM) /\ svc \in VM \cup {Nobody}
  BY DEF Inductive, TypeOK
<1>1. OnTrack(u)
  BY DEF Inductive, Tracked, OnTrack
<1>2. CASE SendEvent
  <2>1. UNCHANGED <<obj, known, vsphere, watch, queue>> /\ chan' = Append(chan, svc) /\ svc \in VM
    BY <1>0, <1>2 DEF SendEvent
  <2>2. ToSet(chan') = ToSet(chan) \cup {svc}
    BY <1>0, <2>1, ChannelKeeps
  <2> QED
    BY <1>1, <2>1, <2>2, Undisturbed DEF Delivering, Noticed, vsphere, watch
<1>3. CASE QueueEvent
  <2>1. UNCHANGED <<obj, known, vsphere, watch, svc>> /\ queue' = queue \cup {Head(chan)}
    BY <1>3 DEF QueueEvent
  <2>2. ToSet(chan) \subseteq ToSet(chan') \cup {Head(chan)}
    BY <1>0, <1>3, ChannelKeeps DEF QueueEvent
  <2> QED
    BY <1>1, <2>1, <2>2, Undisturbed DEF Delivering, Noticed, vsphere, watch
<1>4. CASE WatcherDone
  <2>1. UNCHANGED <<obj, known, inVC, val, deliver>> /\ watcher = "dead"
    BY <1>4 DEF WatcherDone
  <2>2. u \notin missed' => sender[u] = NoSender /\ u \notin missed
    BY <1>4 DEF WatcherDone
  <2> QED
    BY <1>1, <2>1, <2>2 DEF OnTrack, Delivering, Noticed, deliver
<1>5. ASSUME NEW v \in VM, Receive(v) PROVE OnTrack(u)'
  <2>1. UNCHANGED <<obj, known, vsphere, batch, Cache, watcher, chan, queue>> /\ svc = Nobody
    BY <1>5 DEF Receive
  <2>2. CASE u = v
    <3>1. obj[v].st = "live" => svc' = v
      BY <1>5 DEF Receive, Exists
    <3> QED
      BY <2>1, <2>2, <3>1 DEF OnTrack, Delivering
  <2>3. CASE u # v
    <3>1. sender'[u] = sender[u]
      BY <1>0, <1>5, <2>3 DEF Receive
    <3>2. svc # u
      BY <2>1, SignalAssumption
    <3> QED
      BY <1>1, <2>1, <3>1, <3>2, Undisturbed DEF Delivering, Noticed, vsphere
  <2> QED
    BY <2>2, <2>3
<1> QED
  BY <1>2, <1>3, <1>4, <1>5 DEF Service

\* Every step keeps every VM on track.
LEMMA TrackedNext ==
  ASSUME Inductive, [Next]_vars
  PROVE  Tracked'
<1>1. ASSUME NEW u \in VM PROVE OnTrack(u)'
  <2>1. CASE UNCHANGED vars
    <3>1. OnTrack(u)
      BY DEF Inductive, Tracked, OnTrack
    <3> QED
      BY <2>1, <3>1, Undisturbed DEF vars, vsphere, watch, deliver, Delivering, Noticed
  <2> QED
    BY <2>1, TrackVM, TrackWatcher, TrackService DEF Next
<1> QED
  BY <1>1 DEF Tracked, OnTrack

-----------------------------------------------------------------------------
(* The theorems. *)

\* The invariant holds when the operator starts.
LEMMA InductiveInit ==
  Init => Inductive
<1> SUFFICES ASSUME Init PROVE Inductive
  OBVIOUS
<1>1. obj \in [VM -> Object] /\ inVC \subseteq VM
  BY DEF Init, Object
<1>2. chan \in Seq(VM) /\ Len(chan) = 0
  BY DEF Init
<1>3. sender \in [VM -> [BOOLEAN -> Nat]]
  BY DEF Init, NoSender
<1>4. TypeOK
  BY <1>1, <1>2, <1>3, SignalAssumption DEF Init, TypeOK
<1>5. Tracked
  BY DEF Init, Tracked, Delivering
<1> QED
  BY <1>4, <1>5 DEF Init, Inductive, CacheCurrent, BatchCurrent

\* Types, the cache and the way of every signal: what all steps keep.
THEOREM Inductiveness == Spec => []Inductive
<1>1. Inductive /\ [Next]_vars => Inductive'
  BY TypeNext, CacheNext, TrackedNext DEF Inductive
<1> QED
  BY <1>1, InductiveInit, PTL DEF Spec

\* A change is never mistaken for one seen before: unless an update of a VM is on its way,
\* what the cache has of it is what vSphere has.
THEOREM CacheAlwaysCurrent == Spec => []CacheCurrent
<1>1. Inductive => CacheCurrent
  BY DEF Inductive
<1> QED
  BY <1>1, Inductiveness, PTL

\* Once the signals of a VM have drained, the last reconcile saw it as it is, unless it is
\* being deleted or no Watcher saw the change.
THEOREM SignalAlwaysDelivered == Spec => []SignalDelivered
<1>1. Inductive => SignalDelivered
  <2> SUFFICES ASSUME Inductive, NEW v \in VM \ missed, v \in inVC, obj[v].uid, obj[v].st = "live", Quiet(v)
               PROVE  known[v] = val[v]
    BY DEF SignalDelivered
  <2>1. ~Delivering(v)
    BY DEF Quiet, Delivering
  <2>2. ~Noticed(v)
    BY DEF Quiet, Noticed, NoUpdate
  <2> QED
    BY <2>1, <2>2 DEF Inductive, Tracked
<1> QED
  BY <1>1, Inductiveness, PTL
=============================================================================
