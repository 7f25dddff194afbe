-------------------------- MODULE ZoneWatcher_proofs --------------------------
(***************************************************************************)
(* Proofs about ZoneWatcher, for every set of zones and of folders, every  *)
(* assignment of folders to zones, and any number of Watchers and faults.  *)
(***************************************************************************)
EXTENDS ZoneWatcher, FiniteSetTheorems, TLAPS

-----------------------------------------------------------------------------
(* What add and remove do to the Watcher in the context. *)

\* The null values have the types of what they stand for.
LEMMA NullTypes == Idle \in Rec /\ NoWatcher \in Watcher
BY DEF Idle, Rec, NoWatcher, Watcher

\* The fields of a Watcher.
LEMMA WatcherFields ==
  ASSUME NEW x \in Watcher
  PROVE  /\ x.life \in {"none", "run", "exit", "cleared", "ended"} /\ x.closed \in BOOLEAN
         /\ x.cv \in SUBSET Folder /\ x.lv \in SUBSET Folder /\ x.cvr \in [Folder -> SUBSET Zone]
         /\ x.leaked \in SUBSET Folder
BY DEF Watcher

\* A Watcher with other views and other users of one folder.
Changed(x, cv, lv, lk, f, users) ==
  [life |-> x.life, closed |-> x.closed, cv |-> cv, lv |-> lv, leaked |-> lk,
   cvr |-> [g \in Folder |-> IF g = f THEN users ELSE x.cvr[g]]]

\* What Changed gives.
LEMMA ChangedFields ==
  ASSUME NEW x \in Watcher, NEW f \in Folder, NEW users \in SUBSET Zone,
         NEW cv \in SUBSET Folder, NEW lv \in SUBSET Folder, NEW lk \in SUBSET Folder
  PROVE  /\ Changed(x, cv, lv, lk, f, users) \in Watcher
         /\ Changed(x, cv, lv, lk, f, users).life = x.life
         /\ Changed(x, cv, lv, lk, f, users).closed = x.closed
         /\ Changed(x, cv, lv, lk, f, users).cv = cv
         /\ Changed(x, cv, lv, lk, f, users).lv = lv
         /\ Changed(x, cv, lv, lk, f, users).leaked = lk
         /\ Changed(x, cv, lv, lk, f, users).cvr[f] = users
         /\ \A g \in Folder \ {f} : Changed(x, cv, lv, lk, f, users).cvr[g] = x.cvr[g]
BY DEF Watcher, Changed

\* The Watcher in the context gets other views or other users of f; nothing else changes.
ContextUpdated(f, cv, lv, lk, users) ==
  /\ ctx \in WatcherId /\ wat' \in [WatcherId -> Watcher]
  /\ \A w \in WatcherId \ {ctx} : wat'[w] = wat[w]
  /\ wat'[ctx].life = wat[ctx].life /\ wat'[ctx].closed = wat[ctx].closed
  /\ wat'[ctx].cv = cv /\ wat'[ctx].lv = lv /\ wat'[ctx].leaked = lk
  /\ wat'[ctx].cvr[f] = users
  /\ \A g \in Folder \ {f} : wat'[ctx].cvr[g] = wat[ctx].cvr[g]

\* An update of the Watcher in the context is of this kind if the new Watcher is.
LEMMA ContextChanged ==
  ASSUME wat \in [WatcherId -> Watcher], ctx \in WatcherId, NEW f \in Folder, NEW users \in SUBSET Zone,
         NEW cv \in SUBSET Folder, NEW lv \in SUBSET Folder, NEW lk \in SUBSET Folder, NEW x, x = wat[ctx],
         wat' = [wat EXCEPT ![ctx] = Changed(x, cv, lv, lk, f, users)]
  PROVE  ContextUpdated(f, cv, lv, lk, users)
<1>1. x \in Watcher
  OBVIOUS
<1>2. Changed(x, cv, lv, lk, f, users) \in Watcher
  BY <1>1, ChangedFields
<1>3. /\ wat'[ctx] = Changed(x, cv, lv, lk, f, users) /\ wat' \in [WatcherId -> Watcher]
      /\ \A w \in WatcherId \ {ctx} : wat'[w] = wat[w]
  BY <1>2
<1> QED
  BY <1>1, <1>3, ChangedFields DEF ContextUpdated

\* The shapes of such updates.
LEMMA ContextUpdate ==
  ASSUME wat \in [WatcherId -> Watcher], ctx \in WatcherId, NEW f \in Folder, NEW users \in SUBSET Zone,
         NEW cv \in SUBSET Folder, NEW lv \in SUBSET Folder, NEW lk \in SUBSET Folder
  PROVE  /\ wat' = [wat EXCEPT ![ctx].cvr[f] = users]
             => ContextUpdated(f, wat[ctx].cv, wat[ctx].lv, wat[ctx].leaked, users)
         /\ wat' = [wat EXCEPT ![ctx].lv = lv, ![ctx].leaked = lk]
             => ContextUpdated(f, wat[ctx].cv, lv, lk, wat[ctx].cvr[f])
         /\ wat' = [wat EXCEPT ![ctx].cv = cv, ![ctx].lv = lv, ![ctx].cvr[f] = users]
             => ContextUpdated(f, cv, lv, wat[ctx].leaked, users)
         /\ wat' = [wat EXCEPT ![ctx].cv = cv, ![ctx].lv = lv, ![ctx].cvr[f] = users,
                               ![ctx].leaked = lk]
             => ContextUpdated(f, cv, lv, lk, users)
<1> DEFINE x == wat[ctx]
<1>0. x \in Watcher
  OBVIOUS
<1> HIDE DEF x
<1>1. /\ x.cv \in SUBSET Folder /\ x.lv \in SUBSET Folder /\ x.leaked \in SUBSET Folder
      /\ x.cvr[f] \in SUBSET Zone
  BY <1>0, WatcherFields
<1>5. ASSUME NEW c \in SUBSET Folder, NEW l \in SUBSET Folder, NEW k \in SUBSET Folder
      PROVE  [x EXCEPT !.cv = c, !.lv = l, !.leaked = k, !.cvr[f] = users]
               = Changed(x, c, l, k, f, users)
  <2> DEFINE y == [x EXCEPT !.cv = c, !.lv = l, !.leaked = k]
  <2>1. /\ y \in Watcher /\ y.life = x.life /\ y.closed = x.closed /\ y.cv = c /\ y.lv = l
        /\ y.leaked = k /\ y.cvr = x.cvr
    BY <1>0 DEF Watcher
  <2>2. [x EXCEPT !.cv = c, !.lv = l, !.leaked = k, !.cvr[f] = users] = [y EXCEPT !.cvr[f] = users]
    OBVIOUS
  <2> HIDE DEF y
  <2>3. [y EXCEPT !.cvr[f] = users] = Changed(y, y.cv, y.lv, y.leaked, f, users)
    BY <2>1 DEF Watcher, Changed
  <2> QED
    BY <2>1, <2>2, <2>3 DEF Changed
<1>2. ASSUME wat' = [wat EXCEPT ![ctx].cvr[f] = users]
      PROVE  ContextUpdated(f, x.cv, x.lv, x.leaked, users)
  <2>1. wat' = [wat EXCEPT ![ctx] = [x EXCEPT !.cvr[f] = users]]
    BY <1>2 DEF x
  <2>2. [x EXCEPT !.cvr[f] = users] = Changed(x, x.cv, x.lv, x.leaked, f, users)
    BY <1>0 DEF Watcher, Changed
  <2> QED
    BY <1>1, <2>1, <2>2, ContextChanged DEF x
<1>3. ASSUME wat' = [wat EXCEPT ![ctx].lv = lv, ![ctx].leaked = lk]
      PROVE  ContextUpdated(f, x.cv, lv, lk, x.cvr[f])
  <2>1. wat' = [wat EXCEPT ![ctx] = [x EXCEPT !.lv = lv, !.leaked = lk]]
    BY <1>3 DEF x
  <2>2. [x EXCEPT !.lv = lv, !.leaked = lk] = Changed(x, x.cv, lv, lk, f, x.cvr[f])
    <3>1. x.cvr = [g \in Folder |-> IF g = f THEN x.cvr[f] ELSE x.cvr[g]]
      BY <1>0 DEF Watcher
    <3> DEFINE y == [x EXCEPT !.lv = lv, !.leaked = lk]
    <3>2. /\ y \in Watcher /\ y.life = x.life /\ y.closed = x.closed /\ y.cv = x.cv
          /\ y.lv = lv /\ y.leaked = lk /\ y.cvr = x.cvr
      BY <1>0 DEF Watcher
    <3> HIDE DEF y
    <3>3. y = [life |-> y.life, closed |-> y.closed, cv |-> y.cv, lv |-> y.lv,
               leaked |-> y.leaked, cvr |-> y.cvr]
      BY <3>2 DEF Watcher
    <3>4. y = Changed(x, x.cv, lv, lk, f, x.cvr[f])
      BY <3>1, <3>2, <3>3 DEF Changed
    <3> QED
      BY <3>4 DEF y
  <2> QED
    BY <1>1, <2>1, <2>2, ContextChanged DEF x
<1>4. ASSUME wat' = [wat EXCEPT ![ctx].cv = cv, ![ctx].lv = lv, ![ctx].cvr[f] = users]
      PROVE  ContextUpdated(f, cv, lv, x.leaked, users)
  <2>1. wat' = [wat EXCEPT ![ctx] = [x EXCEPT !.cv = cv, !.lv = lv, !.cvr[f] = users]]
    BY <1>4 DEF x
  <2>2. [x EXCEPT !.cv = cv, !.lv = lv, !.cvr[f] = users]
          = [x EXCEPT !.cv = cv, !.lv = lv, !.leaked = x.leaked, !.cvr[f] = users]
    BY <1>0 DEF Watcher
  <2> QED
    BY <1>1, <1>5, <2>1, <2>2, ContextChanged DEF x
<1>6. ASSUME wat' = [wat EXCEPT ![ctx].cv = cv, ![ctx].lv = lv, ![ctx].cvr[f] = users,
                                ![ctx].leaked = lk]
      PROVE  ContextUpdated(f, cv, lv, lk, users)
  <2>1. wat' = [wat EXCEPT ![ctx] =
                  [x EXCEPT !.cv = cv, !.lv = lv, !.cvr[f] = users, !.leaked = lk]]
    BY <1>6 DEF x
  <2>2. [x EXCEPT !.cv = cv, !.lv = lv, !.cvr[f] = users, !.leaked = lk]
          = [x EXCEPT !.cv = cv, !.lv = lv, !.leaked = lk, !.cvr[f] = users]
    BY <1>0 DEF Watcher
  <2> QED
    BY <1>1, <1>5, <2>1, <2>2, ContextChanged DEF x
<1> QED
  BY <1>2, <1>3, <1>4, <1>6 DEF x

\* The outcomes of watcher.Add: nothing, one more user of a view, or a new view.
LEMMA AddUpdate ==
  ASSUME TypeOK, NEW z \in Zone, Add(z), NEW f, f = FolderOf[z]
  PROVE  \/ UNCHANGED wat
         \/ /\ ContextUpdated(f, wat[ctx].cv, wat[ctx].lv, wat[ctx].leaked, wat[ctx].cvr[f] \cup {z})
            /\ f \in wat[ctx].cv
         \/ ContextUpdated(f, wat[ctx].cv \cup {f}, wat[ctx].lv \cup {f}, wat[ctx].leaked,
                           wat[ctx].cvr[f] \cup {z})
<1>0. f \in Folder /\ wat \in [WatcherId -> Watcher] /\ (ctx # 0 => ctx \in WatcherId)
  BY ZoneAssumption DEF TypeOK, WatcherId
<1>1. ASSUME ctx # 0
      PROVE  /\ wat[ctx].cvr[f] \cup {z} \in SUBSET Zone
             /\ wat[ctx].cv \in SUBSET Folder /\ wat[ctx].lv \in SUBSET Folder
             /\ wat[ctx].cv \cup {f} \in SUBSET Folder /\ wat[ctx].lv \cup {f} \in SUBSET Folder
  BY <1>0, <1>1, WatcherFields
<1>2. \/ UNCHANGED wat
      \/ /\ ctx # 0 /\ f \in wat[ctx].cv
         /\ wat' = [wat EXCEPT ![ctx].cvr[f] = wat[ctx].cvr[f] \cup {z}]
      \/ /\ ctx # 0
         /\ wat' = [wat EXCEPT ![ctx].cv = wat[ctx].cv \cup {f}, ![ctx].lv = wat[ctx].lv \cup {f},
                               ![ctx].cvr[f] = wat[ctx].cvr[f] \cup {z}]
  BY <1>0 DEF Add, Watcher
<1> QED
  BY <1>0, <1>1, <1>2, ContextUpdate

\* The outcomes of watcher.Remove: nothing, one user of a view less, a view that is gone
\* with its last user, or a view that is out of the list but could not be destroyed.
LEMMA RemoveUpdate ==
  ASSUME TypeOK, NEW z \in Zone, Remove(z), NEW f, f = FolderOf[z]
  PROVE  \/ UNCHANGED wat
         \/ /\ ContextUpdated(f, wat[ctx].cv, wat[ctx].lv, wat[ctx].leaked, wat[ctx].cvr[f] \ {z})
            /\ f \in wat[ctx].cv
            /\ z \notin wat[ctx].cvr[f] \/ Cardinality(wat[ctx].cvr[f]) > 1
         \/ ContextUpdated(f, wat[ctx].cv \ {f}, wat[ctx].lv \ {f},
                           wat[ctx].leaked \ {f}, {})
         \/ ContextUpdated(f, wat[ctx].cv, wat[ctx].lv \ {f}, wat[ctx].leaked \cup {f},
                           wat[ctx].cvr[f])
<1>0. f \in Folder /\ wat \in [WatcherId -> Watcher] /\ (ctx # 0 => ctx \in WatcherId)
  BY ZoneAssumption DEF TypeOK, WatcherId
<1>1. ASSUME ctx # 0
      PROVE  /\ wat[ctx].cvr[f] \ {z} \in SUBSET Zone /\ wat[ctx].cvr[f] \in SUBSET Zone
             /\ wat[ctx].cv \in SUBSET Folder /\ wat[ctx].lv \in SUBSET Folder
             /\ wat[ctx].cv \ {f} \in SUBSET Folder /\ wat[ctx].lv \ {f} \in SUBSET Folder
             /\ wat[ctx].leaked \ {f} \in SUBSET Folder
             /\ wat[ctx].leaked \cup {f} \in SUBSET Folder
  BY <1>0, <1>1, WatcherFields
<1>2. \/ UNCHANGED wat
      \/ /\ ctx # 0 /\ f \in wat[ctx].cv
         /\ z \notin wat[ctx].cvr[f] \/ Cardinality(wat[ctx].cvr[f]) > 1
         /\ wat' = [wat EXCEPT ![ctx].cvr[f] = wat[ctx].cvr[f] \ {z}]
      \/ /\ ctx # 0
         /\ wat' = [wat EXCEPT ![ctx].cv = wat[ctx].cv \ {f}, ![ctx].lv = wat[ctx].lv \ {f},
                               ![ctx].cvr[f] = {}, ![ctx].leaked = wat[ctx].leaked \ {f}]
      \/ /\ ctx # 0
         /\ wat' = [wat EXCEPT ![ctx].lv = wat[ctx].lv \ {f},
                               ![ctx].leaked = wat[ctx].leaked \cup {f}]
  BY <1>0 DEF Remove, Watcher
<1> QED
  BY <1>0, <1>1, <1>2, ContextUpdate

\* The end of a Watcher, in its steps, leaves its views and their users as they are.
LEMMA EndingUpdate ==
  ASSUME TypeOK, NEW w \in WatcherId,
         WaitFails(w) \/ ClearContext(w) \/ CloseWatcher(w) \/ (Close /\ ctx = w)
  PROVE  /\ wat' \in [WatcherId -> Watcher]
         /\ \A u \in WatcherId \ {w} : wat'[u] = wat[u]
         /\ wat'[w].cv = wat[w].cv /\ wat'[w].cvr = wat[w].cvr /\ wat'[w].leaked = wat[w].leaked
         /\ \/ wat'[w].lv = wat[w].lv /\ wat'[w].closed = wat[w].closed
            \/ wat'[w].closed
<1>0. wat \in [WatcherId -> Watcher] /\ wat[w] \in Watcher
  BY DEF TypeOK
<1>1. CASE WaitFails(w)
  BY <1>0, <1>1 DEF WaitFails, Watcher
<1>2. CASE ClearContext(w)
  BY <1>0, <1>2 DEF ClearContext, Watcher
<1>3. CASE CloseWatcher(w)
  BY <1>0, <1>3 DEF CloseWatcher, Watcher
<1>4. CASE Close /\ ctx = w
  BY <1>0, <1>4 DEF Close, Watcher
<1> QED
  BY <1>1, <1>2, <1>3, <1>4

\* A new Watcher has a view for the folder of every zone that was listed.
LEMMA StartUpdate ==
  ASSUME TypeOK, StartWatcher, svc'.pc # "list"
  PROVE  /\ svc.w < MaxWatchers /\ svc.w + 1 \in WatcherId
         /\ wat' \in [WatcherId -> Watcher]
         /\ \A u \in WatcherId \ {svc.w + 1} : wat'[u] = wat[u]
         /\ wat'[svc.w + 1].life = "run" /\ ~wat'[svc.w + 1].closed
         /\ wat'[svc.w + 1].cv = {FolderOf[z] : z \in svc.listed}
         /\ wat'[svc.w + 1].lv = {FolderOf[z] : z \in svc.listed}
         /\ wat'[svc.w + 1].cvr = [f \in Folder |-> {z \in svc.listed : FolderOf[z] = f}]
         /\ ctx' = svc.w + 1 /\ svc' = [svc EXCEPT !.pc = "wait", !.w = svc.w + 1]
<1> DEFINE folders == {FolderOf[z] : z \in svc.listed}
           users   == [f \in Folder |-> {z \in svc.listed : FolderOf[z] = f}]
           new     == [life |-> "run", closed |-> FALSE, cv |-> folders, lv |-> folders,
                       leaked |-> {}, cvr |-> users]
<1>0. /\ svc.listed \in SUBSET Zone /\ svc.w \in 0..MaxWatchers /\ MaxWatchers \in Nat
      /\ wat \in [WatcherId -> Watcher]
  BY ZoneAssumption DEF TypeOK, Svc
<1>1. /\ svc.w < MaxWatchers /\ wat' = [wat EXCEPT ![svc.w + 1] = new]
      /\ ctx' = svc.w + 1 /\ svc' = [svc EXCEPT !.pc = "wait", !.w = svc.w + 1]
  BY DEF StartWatcher, TypeOK, Svc
<1>2. folders \in SUBSET Folder /\ users \in [Folder -> SUBSET Zone]
  BY <1>0, ZoneAssumption
<1>3. svc.w + 1 \in WatcherId
  BY <1>0, <1>1 DEF WatcherId
<1> HIDE DEF folders, users
<1>4. /\ new \in Watcher /\ new.life = "run" /\ ~new.closed
      /\ new.cv = folders /\ new.lv = folders /\ new.cvr = users
  BY <1>2 DEF Watcher
<1> HIDE DEF new
<1>5. wat'[svc.w + 1] = new /\ wat' \in [WatcherId -> Watcher]
  BY <1>0, <1>1, <1>3, <1>4
<1>6. \A u \in WatcherId \ {svc.w + 1} : wat'[u] = wat[u]
  BY <1>0, <1>1
<1> QED
  BY <1>1, <1>3, <1>4, <1>5, <1>6 DEF folders, users

-----------------------------------------------------------------------------
(* The types. *)

\* A write keeps the types of the API server and of the cache.
LEMMA WriteType ==
  ASSUME TypeOK, NEW z \in Zone, NEW o \in Object, Write(z, o)
  PROVE  /\ zone' \in [Zone -> Object] /\ cache' \in [Zone -> Object] /\ written' \subseteq Zone
         /\ existing' \subseteq Folder
BY DEF TypeOK, Write

\* A fault uses up one of the faults allowed.
LEMMA FaultType ==
  ASSUME TypeOK, Fault
  PROVE  faults' \in 0..MaxFaults
BY ZoneAssumption DEF TypeOK, Fault

\* A reconcile that finishes goes to its deferred patch.
LEMMA FinishType ==
  ASSUME TypeOK, NEW z \in Zone, NEW c \in {"nothing", "addFinalizer", "removeFinalizer"},
         NEW b \in BOOLEAN, Finish(z, c, b)
  PROVE  /\ rec' \in [Zone -> Rec] /\ rec'[z].pc = "patch"
         /\ \A u \in Zone \ {z} : rec'[u] = rec[u]
BY DEF TypeOK, Finish, Rec

\* The service's record when a zone is written, and when the service goes on.
LEMMA SvcType ==
  ASSUME svc \in Svc
  PROVE  /\ \A z \in Zone : [svc EXCEPT !.stale = @ \cup {z}] \in Svc
         /\ \A p \in {"list", "finalizers", "start", "wait"} : [svc EXCEPT !.pc = p] \in Svc
BY DEF Svc

\* The steps of the user, the informer and the zone controller keep the types.
LEMMA TypeZone ==
  ASSUME TypeOK, NEW z \in Zone, CreateZone(z) \/ DeleteZone(z) \/ WatchEvent(z) \/ Controller(z)
  PROVE  TypeOK'
<1>0. /\ zone \in [Zone -> Object] /\ zone[z] \in Object /\ rec \in [Zone -> Rec] /\ svc \in Svc
      /\ zone[z].fin \in BOOLEAN
  BY DEF TypeOK, Object
<1>1. CASE CreateZone(z)
  <2>1. [st |-> "live", fin |-> FALSE] \in Object
    BY DEF Object
  <2> QED
    BY <1>0, <1>1, <2>1, WriteType, SvcType DEF CreateZone, TypeOK
<1>2. CASE DeleteZone(z)
  <2>1. [zone[z] EXCEPT !.st = IF zone[z].fin THEN "deleting" ELSE "gone"] \in Object
    BY <1>0 DEF Object
  <2> QED
    BY <1>0, <1>2, <2>1, WriteType, SvcType DEF DeleteZone, TypeOK
<1>3. CASE WatchEvent(z)
  BY <1>3 DEF WatchEvent, TypeOK
<1>4. CASE Reconcile(z)
  <2>1. rec' \in [Zone -> Rec]
    <3>1. \/ rec' = [rec EXCEPT ![z].pc = "remove"] \/ rec' = [rec EXCEPT ![z].pc = "add"]
          \/ Finish(z, "addFinalizer", FALSE) \/ UNCHANGED rec
      <4>1. cache[z] \in Object /\ cache[z].fin \in BOOLEAN
        BY DEF TypeOK, Object
      <4> QED
        BY <1>4, <4>1 DEF Reconcile, Object, Exists
    <3> QED
      BY <1>0, <3>1, FinishType DEF Rec
  <2> QED
    BY <1>4, <2>1 DEF Reconcile, TypeOK, api
<1>5. CASE Add(z)
  <2>1. rec' \in [Zone -> Rec]
    BY <1>5, FinishType DEF Add
  <2>2. wat' \in [WatcherId -> Watcher]
    BY <1>5, AddUpdate DEF TypeOK, ContextUpdated
  <2>3. faults' \in 0..MaxFaults
    BY <1>5, FaultType DEF Add, TypeOK
  <2> QED
    BY <1>5, <2>1, <2>2, <2>3 DEF Add, TypeOK, api
<1>6. CASE Remove(z)
  <2>1. rec' \in [Zone -> Rec]
    BY <1>6, FinishType DEF Remove
  <2>2. wat' \in [WatcherId -> Watcher]
    BY <1>6, RemoveUpdate DEF TypeOK, ContextUpdated
  <2>3. faults' \in 0..MaxFaults
    BY <1>6, FaultType DEF Remove, TypeOK
  <2> QED
    BY <1>6, <2>1, <2>2, <2>3 DEF Remove, TypeOK, api
<1>7. CASE Patch(z)
  <2>1. [zone[z] EXCEPT !.fin = TRUE] \in Object /\ [st |-> "gone", fin |-> FALSE] \in Object
    BY <1>0 DEF Object
  <2>2. /\ zone' \in [Zone -> Object] /\ cache' \in [Zone -> Object] /\ written' \subseteq Zone
        /\ existing' \subseteq Folder
    BY <1>7, <2>1, WriteType DEF Patch, TypeOK, api
  <2>3. svc' \in Svc /\ faults' \in 0..MaxFaults /\ queue' \subseteq Zone
    BY <1>0, <1>7, FaultType, SvcType DEF Patch, TypeOK
  <2>4. rec' \in [Zone -> Rec]
    BY <1>0, <1>7, NullTypes DEF Patch
  <2> QED
    BY <1>7, <2>2, <2>3, <2>4 DEF Patch, TypeOK
<1> QED
  BY <1>1, <1>2, <1>3, <1>4, <1>5, <1>6, <1>7 DEF Controller

\* The steps of the service and of the Watchers keep the types.
LEMMA TypeService ==
  ASSUME TypeOK, Service \/ (\E w \in WatcherId : WaitFails(w) \/ Ending(w)) \/ Close
  PROVE  TypeOK'
<1>0. zone \in [Zone -> Object] /\ svc \in Svc /\ MaxWatchers \in Nat
  BY ZoneAssumption DEF TypeOK
<1>1. CASE ListZones
  <2>1. svc' \in Svc
    <3> DEFINE keep == {z \in Zone : /\ Exists(cache[z]) /\ FolderOf[z] \in existing
                                     /\ cache[z].st = "deleting" => cache[z].fin}
               todo == {z \in keep : ~cache[z].fin}
    <3>1. keep \in SUBSET Zone /\ todo \in SUBSET Zone /\ written \in SUBSET Zone
      BY DEF TypeOK
    <3>2. svc' = [svc EXCEPT !.pc = "finalizers", !.listed = keep, !.stale = written, !.todo = todo]
      BY <1>1 DEF ListZones
    <3> HIDE DEF keep, todo
    <3> QED
      BY <1>0, <3>1, <3>2 DEF Svc
  <2> QED
    BY <1>1, <2>1 DEF ListZones, TypeOK, api
<1>2. CASE AddFinalizers
  <2>1. ASSUME NEW z \in svc.todo \ svc.stale, Write(z, [zone[z] EXCEPT !.fin = TRUE]), UNCHANGED faults,
               svc' = [svc EXCEPT !.todo = @ \ {z}, !.stale = @ \cup {z}]
        PROVE  TypeOK'
    <3>1. z \in Zone /\ svc' \in Svc
      BY <1>0, <2>1 DEF Svc
    <3>2. [zone[z] EXCEPT !.fin = TRUE] \in Object
      BY <1>0, <3>1 DEF Object
    <3> QED
      BY <1>2, <2>1, <3>1, <3>2, WriteType DEF AddFinalizers, TypeOK
  <2>2. ASSUME \E p \in {"list", "start"} : svc' = [svc EXCEPT !.pc = p], UNCHANGED api,
               Fault \/ UNCHANGED faults
        PROVE  TypeOK'
    <3>1. svc' \in Svc /\ faults' \in 0..MaxFaults
      BY <1>0, <2>2, FaultType, SvcType DEF TypeOK
    <3> QED
      BY <1>2, <2>2, <3>1 DEF AddFinalizers, TypeOK, api
  <2> QED
    BY <1>2, <2>1, <2>2 DEF AddFinalizers
<1>3. CASE StartWatcher
  <2>1. CASE svc'.pc # "list"
    <3>1. svc.w + 1 \in 0..MaxWatchers
      BY <1>3, <2>1, StartUpdate DEF WatcherId
    <3>2. svc' \in Svc /\ ctx' \in 0..MaxWatchers /\ wat' \in [WatcherId -> Watcher]
      BY <1>0, <1>3, <2>1, <3>1, StartUpdate DEF Svc
    <3>3. faults' \in 0..MaxFaults
      BY <1>3, FaultType DEF StartWatcher, TypeOK
    <3> QED
      BY <1>3, <3>2, <3>3 DEF StartWatcher, TypeOK, api
  <2>2. CASE svc'.pc = "list"
    <3>1. svc' = [svc EXCEPT !.pc = "list"] /\ UNCHANGED <<ctx, wat>>
      BY <1>0, <1>3, <2>2 DEF StartWatcher, Svc
    <3>2. faults' \in 0..MaxFaults
      BY <1>3, FaultType DEF StartWatcher, TypeOK
    <3> QED
      BY <1>0, <1>3, <3>1, <3>2, SvcType DEF StartWatcher, TypeOK, api
  <2> QED
    BY <2>1, <2>2
<1>4. CASE WatcherDone
  <2>1. svc' \in Svc
    BY <1>0, <1>4 DEF WatcherDone, Svc
  <2> QED
    BY <1>4, <2>1 DEF WatcherDone, TypeOK, api
<1>5. ASSUME NEW w \in WatcherId, WaitFails(w) \/ Ending(w) PROVE TypeOK'
  <2>1. wat' \in [WatcherId -> Watcher]
    BY <1>5, EndingUpdate DEF Ending
  <2>2. ctx' = 0 \/ ctx' = ctx
    BY <1>5 DEF Ending, WaitFails, ClearContext, CloseWatcher
  <2>3. UNCHANGED <<zone, cache, written, existing, queue, rec, svc, faults, closes>>
    BY <1>5 DEF Ending, WaitFails, ClearContext, CloseWatcher, api
  <2>4. ctx' \in 0..MaxWatchers
    BY <1>0, <2>2 DEF TypeOK
  <2> QED
    BY <2>1, <2>3, <2>4 DEF TypeOK
<1>6. CASE Close
  <2>1. ctx \in WatcherId
    BY <1>0, <1>6 DEF Close, TypeOK, WatcherId
  <2>2. wat' \in [WatcherId -> Watcher]
    BY <1>6, <2>1, EndingUpdate
  <2>3. closes' \in 0..MaxCloses
    BY <1>6, ZoneAssumption DEF Close, TypeOK
  <2> QED
    BY <1>6, <2>2, <2>3 DEF Close, TypeOK, api
<1> QED
  BY <1>1, <1>2, <1>3, <1>4, <1>5, <1>6 DEF Service

\* Every step keeps the types.
LEMMA TypeNext ==
  ASSUME TypeOK, [Next]_vars
  PROVE  TypeOK'
<1>1. CASE UNCHANGED vars
  BY <1>1 DEF vars, api, TypeOK
<1> QED
  BY <1>1, TypeZone, TypeService DEF Next

-----------------------------------------------------------------------------
(* The finalizers. *)

\* A write that does not take the finalizer from an object that stays: what was seen of
\* the zones remains true, since the service's list is marked stale with the write.
LEMMA SightingsWrite ==
  ASSUME TypeOK, Sightings, NEW z \in Zone, NEW o \in Object, Write(z, o),
         svc' = [svc EXCEPT !.stale = @ \cup {z}],
         o.fin => Exists(o), Held(z) => o.st # "none" /\ (Exists(o) => o.fin),
         \A u \in Zone : rec'[u].pc = "add" => rec[u].pc = "add"
  PROVE  Sightings' /\ \A u \in Zone : Held(u) => Held(u)'
<1>0. zone \in [Zone -> Object] /\ svc \in Svc
  BY DEF TypeOK
<1>1. /\ zone'[z] = o /\ \A u \in Zone \ {z} : zone'[u] = zone[u]
      /\ UNCHANGED cache /\ written' = written \cup {z}
  BY <1>0 DEF Write
<1>2. \A u \in Zone : Held(u) => Held(u)'
  BY <1>1 DEF Held, Exists
<1>3. /\ svc'.pc = svc.pc /\ svc'.listed = svc.listed /\ svc'.todo = svc.todo
      /\ svc'.stale = svc.stale \cup {z} /\ svc.listed \subseteq Zone /\ svc.todo \subseteq Zone
  BY <1>0 DEF Svc
<1>4. \A u \in Zone : /\ zone'[u].fin => Exists(zone'[u])
                      /\ u \notin written' => cache'[u] = zone'[u]
                      /\ cache'[u].fin \/ rec'[u].pc = "add" => Held(u)'
  BY <1>1, <1>2 DEF Sightings, Exists
<1>5. svc'.pc = "finalizers" => /\ \A u \in svc'.listed \ svc'.todo : Held(u)'
                               /\ \A u \in svc'.todo \ svc'.stale : Exists(zone'[u])
  BY <1>1, <1>2, <1>3 DEF Sightings, Exists
<1>6. svc'.pc = "start" => \A u \in svc'.listed : Held(u)'
  BY <1>2, <1>3 DEF Sightings
<1> QED
  BY <1>2, <1>4, <1>5, <1>6 DEF Sightings, Exists, Held

\* The steps of the user and of the zone controller's patch.
LEMMA SightingsZone ==
  ASSUME TypeOK, Sightings, NEW z \in Zone,
         CreateZone(z) \/ DeleteZone(z) \/ WatchEvent(z) \/ Controller(z)
  PROVE  Sightings' /\ \A u \in Zone : Held(u) => Held(u)'
<1>0. /\ zone \in [Zone -> Object] /\ zone[z] \in Object /\ rec \in [Zone -> Rec]
      /\ cache \in [Zone -> Object] /\ zone[z].fin \in BOOLEAN /\ cache[z].fin \in BOOLEAN
      /\ svc \in Svc /\ svc.listed \subseteq Zone /\ svc.todo \subseteq Zone
  BY DEF TypeOK, Object, Svc
<1>1. CASE CreateZone(z)
  <2> DEFINE o == [st |-> "live", fin |-> FALSE]
  <2>1. o \in Object /\ ~o.fin /\ ~Held(z) /\ UNCHANGED rec
    BY <1>1 DEF Object, CreateZone, Held
  <2>2. Write(z, o) /\ svc' = [svc EXCEPT !.stale = @ \cup {z}]
    BY <1>1 DEF CreateZone
  <2> HIDE DEF o
  <2> QED
    BY <2>1, <2>2, SightingsWrite
<1>2. CASE DeleteZone(z)
  <2> DEFINE o == [zone[z] EXCEPT !.st = IF zone[z].fin THEN "deleting" ELSE "gone"]
  <2>1. /\ o \in Object /\ o.fin = zone[z].fin
        /\ o.st = IF zone[z].fin THEN "deleting" ELSE "gone"
    BY <1>0 DEF Object
  <2>2. Write(z, o) /\ svc' = [svc EXCEPT !.stale = @ \cup {z}] /\ UNCHANGED rec
    BY <1>2 DEF DeleteZone
  <2> HIDE DEF o
  <2>3. /\ o.fin => Exists(o)
        /\ o.st # "none" /\ (Exists(o) => o.fin)
    BY <1>0, <2>1 DEF Exists
  <2> QED
    BY <2>1, <2>2, <2>3, SightingsWrite
<1>3. CASE WatchEvent(z)
  <2>1. /\ UNCHANGED <<zone, rec, svc>> /\ cache'[z] = zone[z] /\ written' = written \ {z}
        /\ \A u \in Zone \ {z} : cache'[u] = cache[u]
    BY <1>0, <1>3 DEF WatchEvent
  <2>2. zone[z].fin => Held(z)
    BY <1>0 DEF Sightings, Held, Exists
  <2>3. \A u \in Zone : Held(u)' <=> Held(u)
    BY <2>1 DEF Held, Exists
  <2>4. \A u \in Zone : /\ zone'[u].fin => Exists(zone'[u])
                        /\ u \notin written' => cache'[u] = zone'[u]
                        /\ cache'[u].fin \/ rec'[u].pc = "add" => Held(u)'
    BY <2>1, <2>2, <2>3 DEF Sightings, Exists
  <2> QED
    BY <1>0, <2>1, <2>3, <2>4 DEF Sightings, Exists
<1>4. ASSUME UNCHANGED <<zone, cache, written, svc>>,
             \A u \in Zone : rec'[u].pc = "add" => rec[u].pc = "add" \/ cache[u].fin
      PROVE  Sightings' /\ \A u \in Zone : Held(u) => Held(u)'
  <2>1. \A u \in Zone : Held(u)' <=> Held(u)
    BY <1>4 DEF Held, Exists
  <2>2. \A u \in Zone : /\ zone'[u].fin => Exists(zone'[u])
                        /\ u \notin written' => cache'[u] = zone'[u]
                        /\ cache'[u].fin \/ rec'[u].pc = "add" => Held(u)'
    BY <1>4, <2>1 DEF Sightings, Exists
  <2> QED
    BY <1>0, <1>4, <2>1, <2>2 DEF Sightings, Exists
<1>5. CASE Reconcile(z)
  <2>1. \A u \in Zone : rec'[u].pc = "add" => rec[u].pc = "add" \/ cache[u].fin
    <3>1. cache[z].st \in {"none", "live", "deleting", "gone"}
      BY <1>0 DEF Object
    <3>2. \/ rec' = [rec EXCEPT ![z].pc = "remove"] \/ UNCHANGED rec
          \/ cache[z].fin /\ rec' = [rec EXCEPT ![z].pc = "add"]
          \/ Finish(z, "addFinalizer", FALSE)
      BY <1>0, <1>5, <3>1 DEF Reconcile, Exists
    <3> QED
      BY <1>0, <3>2 DEF Finish, Rec
  <2> QED
    BY <1>4, <1>5, <2>1 DEF Reconcile, api
<1>6. CASE Add(z) \/ Remove(z)
  <2>1. \A u \in Zone : rec'[u].pc = "add" => rec[u].pc = "add"
    BY <1>6, FinishType DEF Add, Remove
  <2> QED
    BY <1>4, <1>6, <2>1 DEF Add, Remove, api
<1>7. CASE Patch(z)
  <2>1. \A u \in Zone : rec'[u].pc = "add" => rec[u].pc = "add"
    BY <1>0, <1>7 DEF Patch, Idle
  <2>2. CASE UNCHANGED <<api, svc>>
    BY <1>4, <2>1, <2>2 DEF api
  <2>3. CASE /\ zone[z].st = "live" /\ Write(z, [zone[z] EXCEPT !.fin = TRUE])
             /\ svc' = [svc EXCEPT !.stale = @ \cup {z}]
    <3> DEFINE o == [zone[z] EXCEPT !.fin = TRUE]
    <3>1. o \in Object /\ o.fin /\ o.st = "live"
      BY <1>0, <2>3 DEF Object
    <3> HIDE DEF o
    <3> QED
      BY <2>1, <2>3, <3>1, SightingsWrite DEF o, Exists
  <2>4. CASE /\ Write(z, [st |-> "gone", fin |-> FALSE])
             /\ svc' = [svc EXCEPT !.stale = @ \cup {z}]
    <3> DEFINE o == [st |-> "gone", fin |-> FALSE]
    <3>1. o \in Object /\ ~o.fin /\ o.st = "gone"
      BY DEF Object
    <3> HIDE DEF o
    <3> QED
      BY <2>1, <2>4, <3>1, SightingsWrite DEF o, Exists
  <2> QED
    BY <1>7, <2>2, <2>3, <2>4 DEF Patch
<1> QED
  BY <1>1, <1>2, <1>3, <1>5, <1>6, <1>7 DEF Controller

\* The service lists zones and adds the finalizers they lack before it starts a Watcher.
LEMMA SightingsService ==
  ASSUME TypeOK, Sightings, Service
  PROVE  Sightings' /\ \A u \in Zone : Held(u) => Held(u)'
<1>0. /\ zone \in [Zone -> Object] /\ svc \in Svc /\ svc.pc \in {"list", "finalizers", "start", "wait"}
      /\ svc.listed \subseteq Zone /\ svc.todo \subseteq Zone
  BY DEF TypeOK, Svc
<1>1. ASSUME UNCHANGED <<zone, cache, written, rec>>
      PROVE  /\ \A u \in Zone : Held(u)' <=> Held(u)
             /\ \A u \in Zone : /\ zone'[u].fin => Exists(zone'[u])
                                /\ u \notin written' => cache'[u] = zone'[u]
                                /\ cache'[u].fin \/ rec'[u].pc = "add" => Held(u)'
  <2>1. \A u \in Zone : Held(u)' <=> Held(u)
    BY <1>1 DEF Held, Exists
  <2> QED
    BY <1>1, <2>1 DEF Sightings, Exists
<1>2. CASE ListZones
  <2> DEFINE keep == {z \in Zone : /\ Exists(cache[z]) /\ FolderOf[z] \in existing
                                   /\ cache[z].st = "deleting" => cache[z].fin}
             todo == {z \in keep : ~cache[z].fin}
  <2>1. svc' = [svc EXCEPT !.pc = "finalizers", !.listed = keep, !.stale = written, !.todo = todo]
    BY <1>2 DEF ListZones
  <2>2. /\ \A z \in keep : z \in Zone /\ Exists(cache[z])
        /\ \A z \in todo : z \in keep
        /\ \A z \in keep \ todo : cache[z].fin
    OBVIOUS
  <2> HIDE DEF keep, todo
  <2>3. svc'.pc = "finalizers" /\ svc'.listed = keep /\ svc'.stale = written /\ svc'.todo = todo
    BY <1>0, <2>1 DEF Svc
  <2>4. UNCHANGED <<zone, cache, written, rec>>
    BY <1>2 DEF ListZones, api
  <2>5. \A z \in svc'.listed \ svc'.todo : Held(z)'
    BY <1>1, <2>2, <2>3, <2>4 DEF Sightings
  <2>6. \A z \in svc'.todo \ svc'.stale : Exists(zone'[z])
    BY <2>2, <2>3, <2>4 DEF Sightings
  <2> QED
    BY <1>1, <2>3, <2>4, <2>5, <2>6 DEF Sightings, Exists
<1>3. CASE AddFinalizers
  <2>1. ASSUME NEW z \in svc.todo \ svc.stale, Write(z, [zone[z] EXCEPT !.fin = TRUE]),
               svc' = [svc EXCEPT !.todo = @ \ {z}, !.stale = @ \cup {z}]
        PROVE  Sightings' /\ \A u \in Zone : Held(u) => Held(u)'
    <3>1. z \in Zone /\ svc.pc = "finalizers" /\ Exists(zone[z]) /\ zone[z] \in Object /\ UNCHANGED rec
      BY <1>0, <1>3, <2>1 DEF AddFinalizers, Sightings
    <3>2. /\ svc'.pc = "finalizers" /\ svc'.listed = svc.listed /\ svc'.todo = svc.todo \ {z}
          /\ svc'.stale = svc.stale \cup {z}
      BY <1>0, <2>1, <3>1 DEF Svc
    <3>3. /\ zone'[z].fin /\ zone'[z].st = zone[z].st /\ UNCHANGED cache /\ written' = written \cup {z}
          /\ \A u \in Zone \ {z} : zone'[u] = zone[u]
      BY <1>0, <2>1, <3>1 DEF Write, Object
    <3>4. Held(z)' /\ Exists(zone'[z])
      BY <3>1, <3>3 DEF Held, Exists
    <3>5. \A u \in Zone : Held(u) => Held(u)'
      BY <3>3, <3>4 DEF Held, Exists
    <3>6. \A u \in Zone : /\ zone'[u].fin => Exists(zone'[u])
                          /\ u \notin written' => cache'[u] = zone'[u]
                          /\ cache'[u].fin \/ rec'[u].pc = "add" => Held(u)'
      BY <3>1, <3>3, <3>4, <3>5 DEF Sightings, Exists
    <3>7. \A u \in svc'.listed \ svc'.todo : Held(u)'
      BY <1>0, <3>1, <3>2, <3>4, <3>5 DEF Sightings
    <3>8. \A u \in svc'.todo \ svc'.stale : Exists(zone'[u])
      BY <1>0, <3>1, <3>2, <3>3 DEF Sightings, Exists
    <3> QED
      BY <3>2, <3>5, <3>6, <3>7, <3>8 DEF Sightings, Exists
  <2>2. ASSUME UNCHANGED api, svc.todo = {}, svc' = [svc EXCEPT !.pc = "start"]
        PROVE  Sightings' /\ \A u \in Zone : Held(u) => Held(u)'
    <3>1. UNCHANGED <<zone, cache, written, rec>> /\ svc.pc = "finalizers"
      BY <1>3, <2>2 DEF AddFinalizers, api
    <3>2. svc'.pc = "start" /\ svc'.listed = svc.listed
      BY <1>0, <2>2 DEF Svc
    <3>3. \A u \in svc'.listed : Held(u)'
      BY <1>0, <1>1, <2>2, <3>1, <3>2 DEF Sightings
    <3> QED
      BY <1>1, <3>1, <3>2, <3>3 DEF Sightings, Exists
  <2>3. ASSUME UNCHANGED api, svc' = [svc EXCEPT !.pc = "list"]
        PROVE  Sightings' /\ \A u \in Zone : Held(u) => Held(u)'
    <3>1. UNCHANGED <<zone, cache, written, rec>> /\ svc'.pc = "list"
      BY <1>0, <1>3, <2>3 DEF AddFinalizers, api, Svc
    <3> QED
      BY <1>1, <3>1 DEF Sightings, Exists
  <2> QED
    BY <1>3, <2>1, <2>2, <2>3 DEF AddFinalizers
<1>4. CASE StartWatcher \/ WatcherDone
  <2>1. UNCHANGED <<zone, cache, written, rec>> /\ svc'.pc \in {"wait", "list"}
    BY <1>0, <1>4 DEF StartWatcher, WatcherDone, api, Svc
  <2> QED
    BY <1>1, <2>1 DEF Sightings, Exists
<1> QED
  BY <1>2, <1>3, <1>4 DEF Service

\* Every step.
LEMMA SightingsNext ==
  ASSUME TypeOK, Sightings, [Next]_vars
  PROVE  Sightings' /\ \A u \in Zone : Held(u) => Held(u)'
<1>1. ASSUME (\E w \in WatcherId : WaitFails(w) \/ Ending(w)) \/ Close \/ UNCHANGED vars
      PROVE  Sightings' /\ \A u \in Zone : Held(u) => Held(u)'
  <2>1. UNCHANGED <<zone, cache, written, rec, svc>>
    BY <1>1 DEF WaitFails, Ending, ClearContext, CloseWatcher, Close, vars, api
  <2>2. \A u : Held(u)' <=> Held(u)
    BY <2>1 DEF Held, Exists
  <2> QED
    BY <2>1, <2>2 DEF Sightings, Exists
<1> QED
  BY <1>1, SightingsZone, SightingsService DEF Next

-----------------------------------------------------------------------------
(* The views and their users. *)

\* An element less does not empty a set of more than one.
LEMMA NotLast ==
  ASSUME NEW S, NEW x, S # {}, x \notin S \/ Cardinality(S) > 1
  PROVE  S \ {x} # {}
<1> SUFFICES ASSUME S \ {x} = {} PROVE FALSE
  OBVIOUS
<1>1. S = {x} /\ Cardinality(S) > 1
  OBVIOUS
<1>2. Cardinality({x}) = 1
  BY FS_Singleton
<1> QED
  BY <1>1, <1>2

\* Views, users and folders agree in every Watcher.
LEMMA ViewsNext ==
  ASSUME Inductive, [Next]_vars
  PROVE  ViewsCounted' /\ UsersHeld'
<1>0. /\ TypeOK /\ ViewsCounted /\ Sightings /\ UsersHeld
      /\ wat \in [WatcherId -> Watcher] /\ svc \in Svc /\ svc.listed \subseteq Zone
  BY DEF Inductive, TypeOK, Svc
<1>1. \A u \in Zone : Held(u) => Held(u)'
  BY <1>0, SightingsNext
<1>2. ASSUME NEW w \in WatcherId, NEW f \in Folder PROVE wat[w].cvr[f] \subseteq Zone /\ wat[w].cv \subseteq Folder
  BY <1>0, WatcherFields
<1>3. ASSUME NEW w \in WatcherId, wat'[w].cv = wat[w].cv, wat'[w].cvr = wat[w].cvr
      PROVE  \A f \in Folder : /\ f \in wat'[w].cv <=> wat'[w].cvr[f] # {}
                               /\ \A z \in wat'[w].cvr[f] : FolderOf[z] = f /\ Held(z)'
  BY <1>0, <1>1, <1>2, <1>3 DEF ViewsCounted, UsersHeld
<1>4. ASSUME UNCHANGED wat PROVE ViewsCounted' /\ UsersHeld'
  BY <1>3, <1>4 DEF ViewsCounted, UsersHeld
<1>5. ASSUME NEW f \in Folder, NEW cv, NEW lv, NEW lk, NEW users, ContextUpdated(f, cv, lv, lk, users),
             f \in cv <=> users # {}, \A g \in Folder \ {f} : g \in cv <=> g \in wat[ctx].cv,
             \A z \in users : z \in wat[ctx].cvr[f] \/ (z \in Zone /\ FolderOf[z] = f /\ Held(z))
      PROVE  ViewsCounted' /\ UsersHeld'
  <2>1. \A w \in WatcherId \ {ctx} : wat'[w].cv = wat[w].cv /\ wat'[w].cvr = wat[w].cvr
    BY <1>5 DEF ContextUpdated
  <2>2. ctx \in WatcherId
    BY <1>5 DEF ContextUpdated
  <2>3. ASSUME NEW g \in Folder
        PROVE  /\ g \in wat'[ctx].cv <=> wat'[ctx].cvr[g] # {}
               /\ \A z \in wat'[ctx].cvr[g] : FolderOf[z] = g /\ Held(z)'
    <3>1. CASE g = f
      BY <1>0, <1>1, <1>2, <1>5, <2>2, <3>1 DEF ContextUpdated, UsersHeld
    <3>2. CASE g # f
      BY <1>0, <1>1, <1>2, <1>5, <2>2, <3>2 DEF ContextUpdated, UsersHeld, ViewsCounted
    <3> QED
      BY <3>1, <3>2
  <2> QED
    BY <1>3, <2>1, <2>3 DEF ViewsCounted, UsersHeld
<1>6. ASSUME NEW z \in Zone, Add(z) PROVE ViewsCounted' /\ UsersHeld'
  <2> DEFINE f == FolderOf[z]
  <2>1. f \in Folder /\ Held(z)
    BY <1>0, <1>6, ZoneAssumption DEF Add, Sightings
  <2> HIDE DEF f
  <2>2. \/ UNCHANGED wat
        \/ /\ ContextUpdated(f, wat[ctx].cv, wat[ctx].lv, wat[ctx].leaked, wat[ctx].cvr[f] \cup {z})
           /\ f \in wat[ctx].cv
        \/ ContextUpdated(f, wat[ctx].cv \cup {f}, wat[ctx].lv \cup {f}, wat[ctx].leaked,
                           wat[ctx].cvr[f] \cup {z})
    BY <1>0, <1>6, AddUpdate DEF f
  <2> QED
    BY <1>4, <1>5, <2>1, <2>2 DEF f
<1>7. ASSUME NEW z \in Zone, Remove(z) PROVE ViewsCounted' /\ UsersHeld'
  <2> DEFINE f == FolderOf[z]
  <2>1. f \in Folder
    BY ZoneAssumption
  <2> HIDE DEF f
  <2>2. \/ UNCHANGED wat
        \/ /\ ContextUpdated(f, wat[ctx].cv, wat[ctx].lv, wat[ctx].leaked, wat[ctx].cvr[f] \ {z})
           /\ f \in wat[ctx].cv
           /\ z \notin wat[ctx].cvr[f] \/ Cardinality(wat[ctx].cvr[f]) > 1
        \/ ContextUpdated(f, wat[ctx].cv \ {f}, wat[ctx].lv \ {f},
                           wat[ctx].leaked \ {f}, {})
        \/ ContextUpdated(f, wat[ctx].cv, wat[ctx].lv \ {f}, wat[ctx].leaked \cup {f},
                              wat[ctx].cvr[f])
    BY <1>0, <1>7, RemoveUpdate DEF f
  <2>3. CASE /\ ContextUpdated(f, wat[ctx].cv, wat[ctx].lv, wat[ctx].leaked, wat[ctx].cvr[f] \ {z})
             /\ f \in wat[ctx].cv
             /\ z \notin wat[ctx].cvr[f] \/ Cardinality(wat[ctx].cvr[f]) > 1
    <3>1. ctx \in WatcherId /\ wat[ctx].cvr[f] # {}
      BY <1>0, <2>1, <2>3 DEF ContextUpdated, ViewsCounted
    <3>2. wat[ctx].cvr[f] \ {z} # {}
      BY <2>3, <3>1, NotLast
    <3> QED
      BY <1>5, <2>1, <2>3, <3>2
  <2>4. CASE ContextUpdated(f, wat[ctx].cv \ {f}, wat[ctx].lv \ {f},
                           wat[ctx].leaked \ {f}, {})
    BY <1>5, <2>1, <2>4
  <2>5. CASE ContextUpdated(f, wat[ctx].cv, wat[ctx].lv \ {f}, wat[ctx].leaked \cup {f},
                              wat[ctx].cvr[f])
    <3>1. ctx \in WatcherId
      BY <2>5 DEF ContextUpdated
    <3> QED
      BY <1>0, <1>5, <2>1, <2>5, <3>1 DEF ViewsCounted
  <2> QED
    BY <1>4, <2>2, <2>3, <2>4, <2>5
<1>8. ASSUME StartWatcher PROVE ViewsCounted' /\ UsersHeld'
  <2>1. CASE svc'.pc = "list"
    BY <1>0, <1>4, <1>8, <2>1 DEF StartWatcher, Svc
  <2>2. CASE svc'.pc # "list"
    <3> DEFINE new == svc.w + 1
    <3>1. /\ \A u \in WatcherId \ {new} : wat'[u] = wat[u]
          /\ wat'[new].cv = {FolderOf[z] : z \in svc.listed}
          /\ wat'[new].cvr = [f \in Folder |-> {z \in svc.listed : FolderOf[z] = f}]
      BY <1>0, <1>8, <2>2, StartUpdate
    <3>2. \A z \in svc.listed : Held(z)'
      BY <1>0, <1>1, <1>8 DEF StartWatcher, Sightings
    <3>3. ASSUME NEW f \in Folder
          PROVE  /\ f \in wat'[new].cv <=> wat'[new].cvr[f] # {}
                 /\ \A z \in wat'[new].cvr[f] : FolderOf[z] = f /\ Held(z)'
      BY <3>1, <3>2
    <3> HIDE DEF new
    <3> QED
      BY <1>3, <3>1, <3>3 DEF ViewsCounted, UsersHeld
  <2> QED
    BY <2>1, <2>2
<1>9. ASSUME NEW w \in WatcherId, WaitFails(w) \/ Ending(w) \/ (Close /\ ctx = w)
      PROVE  ViewsCounted' /\ UsersHeld'
  <2>1. \A u \in WatcherId : wat'[u].cv = wat[u].cv /\ wat'[u].cvr = wat[u].cvr
    BY <1>0, <1>9, EndingUpdate DEF Ending
  <2> QED
    BY <1>3, <2>1 DEF ViewsCounted, UsersHeld
<1>10. ASSUME Close PROVE ViewsCounted' /\ UsersHeld'
  <2>1. ctx \in WatcherId
    BY <1>0, <1>10, ZoneAssumption DEF Close, TypeOK, WatcherId
  <2> QED
    BY <1>9, <1>10, <2>1
<1>11. ASSUME \/ ListZones \/ AddFinalizers \/ WatcherDone \/ UNCHANGED vars
              \/ \E z \in Zone : \/ CreateZone(z) \/ DeleteZone(z) \/ WatchEvent(z)
                                 \/ Reconcile(z) \/ Patch(z)
       PROVE  ViewsCounted' /\ UsersHeld'
  <2>1. UNCHANGED wat
    BY <1>11 DEF ListZones, AddFinalizers, WatcherDone, CreateZone, DeleteZone, WatchEvent,
                 Reconcile, Patch, vars
  <2> QED
    BY <1>4, <2>1
<1> QED
  BY <1>6, <1>7, <1>8, <1>9, <1>10, <1>11 DEF Next, Controller, Service

-----------------------------------------------------------------------------
(* The list view, and the Watcher in the context. *)

\* The only step that takes a folder out of the list and leaves its view is the
\* failure of cv.Destroy, and the folder is then one whose view is still to be destroyed.
LEMMA ListedNext ==
  ASSUME TypeOK, Listed, [Next]_vars
  PROVE  Listed'
<1>0. wat \in [WatcherId -> Watcher] /\ svc \in Svc
  BY DEF TypeOK
<1>1. ASSUME NEW z \in Zone, Add(z) \/ Remove(z) PROVE Listed'
  <2> DEFINE f == FolderOf[z]
  <2>1. \/ UNCHANGED wat
        \/ ContextUpdated(f, wat[ctx].cv, wat[ctx].lv, wat[ctx].leaked, wat[ctx].cvr[f] \cup {z})
        \/ ContextUpdated(f, wat[ctx].cv \cup {f}, wat[ctx].lv \cup {f}, wat[ctx].leaked,
                           wat[ctx].cvr[f] \cup {z})
        \/ ContextUpdated(f, wat[ctx].cv, wat[ctx].lv, wat[ctx].leaked, wat[ctx].cvr[f] \ {z})
        \/ ContextUpdated(f, wat[ctx].cv \ {f}, wat[ctx].lv \ {f},
                           wat[ctx].leaked \ {f}, {})
        \/ ContextUpdated(f, wat[ctx].cv, wat[ctx].lv \ {f}, wat[ctx].leaked \cup {f},
                          wat[ctx].cvr[f])
    BY <1>1, AddUpdate, RemoveUpdate
  <2> HIDE DEF f
  <2> QED
    BY <2>1 DEF ContextUpdated, Listed
<1>2. ASSUME StartWatcher PROVE Listed'
  <2>1. CASE svc'.pc = "list"
    BY <1>0, <1>2, <2>1 DEF StartWatcher, Svc, Listed
  <2>2. CASE svc'.pc # "list"
    <3> DEFINE new == svc.w + 1
    <3>1. /\ \A u \in WatcherId \ {new} : wat'[u] = wat[u]
          /\ wat'[new].cv = wat'[new].lv
      BY <1>2, <2>2, StartUpdate
    <3> HIDE DEF new
    <3> QED
      BY <3>1 DEF Listed
  <2> QED
    BY <2>1, <2>2
<1>3. ASSUME NEW w \in WatcherId, WaitFails(w) \/ Ending(w) \/ (Close /\ ctx = w)
      PROVE  Listed'
  BY <1>3, EndingUpdate DEF Ending, Listed
<1>4. ASSUME Close PROVE Listed'
  <2>1. ctx \in WatcherId
    BY <1>4, ZoneAssumption DEF Close, TypeOK, WatcherId
  <2> QED
    BY <1>3, <1>4, <2>1
<1>5. ASSUME \/ ListZones \/ AddFinalizers \/ WatcherDone \/ UNCHANGED vars
             \/ \E z \in Zone : \/ CreateZone(z) \/ DeleteZone(z) \/ WatchEvent(z)
                                \/ Reconcile(z) \/ Patch(z)
      PROVE  Listed'
  <2>1. UNCHANGED wat
    BY <1>5 DEF ListZones, AddFinalizers, WatcherDone, CreateZone, DeleteZone, WatchEvent,
                Reconcile, Patch, vars
  <2> QED
    BY <2>1 DEF Listed
<1> QED
  BY <1>1, <1>2, <1>3, <1>4, <1>5 DEF Next, Controller, Service

\* Without Close, the Done channel of a Watcher is closed by the last step of its
\* goroutine, so the next one starts when nothing of it is left to run.
LEMMA OneWatcherNext ==
  ASSUME TypeOK, MaxCloses = 0, OneWatcher, [Next]_vars
  PROVE  OneWatcher'
<1>0. wat \in [WatcherId -> Watcher] /\ svc \in Svc /\ svc.pc \in {"list", "finalizers", "start", "wait"}
  BY DEF TypeOK, Svc
<1> DEFINE Living == {"run", "exit", "cleared"}
<1>1. ASSUME NEW z \in Zone, CreateZone(z) \/ DeleteZone(z) \/ WatchEvent(z) \/ Controller(z)
      PROVE  OneWatcher'
  <2>1. svc'.pc = svc.pc /\ svc'.w = svc.w /\ ctx' = ctx
    BY <1>0, <1>1 DEF CreateZone, DeleteZone, WatchEvent, Controller, Reconcile, Add, Remove, Patch, Svc
  <2>2. \A w \in WatcherId : wat'[w].life = wat[w].life /\ wat'[w].closed = wat[w].closed
    <3>1. CASE UNCHANGED wat
      BY <3>1
    <3>2. CASE Add(z) \/ Remove(z)
      BY <3>2, AddUpdate, RemoveUpdate DEF ContextUpdated
    <3> QED
      BY <1>1, <3>1, <3>2 DEF CreateZone, DeleteZone, WatchEvent, Controller, Reconcile, Patch
  <2> QED
    BY <2>1, <2>2 DEF OneWatcher
<1>2. ASSUME StartWatcher PROVE OneWatcher'
  <2>1. svc.pc = "start" /\ \A w \in WatcherId : wat[w].life \notin Living
    BY <1>2 DEF StartWatcher, OneWatcher
  <2>2. CASE svc'.pc = "list"
    <3>1. UNCHANGED wat
      BY <1>0, <1>2, <2>2 DEF StartWatcher, Svc
    <3> QED
      BY <2>1, <2>2, <3>1 DEF OneWatcher
  <2>3. CASE svc'.pc # "list"
    <3> DEFINE new == svc.w + 1
    <3>1. /\ \A u \in WatcherId \ {new} : wat'[u] = wat[u]
          /\ wat'[new].life = "run" /\ ~wat'[new].closed /\ ctx' = new
          /\ svc' = [svc EXCEPT !.pc = "wait", !.w = new]
      BY <1>2, <2>3, StartUpdate
    <3> HIDE DEF new
    <3>2. svc'.pc = "wait" /\ svc'.w = new /\ new # 0
      BY <1>0, <3>1 DEF Svc, new
    <3>3. ASSUME NEW w \in WatcherId
          PROVE  /\ wat'[w].life \in Living => svc'.pc = "wait" /\ w = svc'.w
                 /\ wat'[w].closed => wat'[w].life = "ended"
                 /\ wat'[w].life = "run" => ctx' = w
      <4>1. CASE w = new
        BY <3>1, <3>2, <4>1
      <4>2. CASE w # new
        BY <2>1, <3>1, <4>2 DEF OneWatcher
      <4> QED
        BY <4>1, <4>2
    <3> QED
      BY <3>2, <3>3 DEF OneWatcher
  <2> QED
    BY <2>2, <2>3
<1>3. ASSUME ListZones \/ AddFinalizers PROVE OneWatcher'
  <2>1. (\A w \in WatcherId : wat[w].life \notin Living) /\ UNCHANGED wat
    BY <1>3 DEF ListZones, AddFinalizers, OneWatcher
  <2>2. svc'.pc # "wait"
    BY <1>0, <1>3 DEF ListZones, AddFinalizers, Svc
  <2> QED
    BY <2>1, <2>2 DEF OneWatcher
<1>4. ASSUME WatcherDone PROVE OneWatcher'
  <2>1. (\A w \in WatcherId : wat[w].life \notin Living) /\ UNCHANGED wat
    BY <1>4 DEF WatcherDone, OneWatcher
  <2>2. svc'.pc # "wait"
    BY <1>0, <1>4 DEF WatcherDone, Svc
  <2> QED
    BY <2>1, <2>2 DEF OneWatcher
<1>5. ASSUME NEW w \in WatcherId, WaitFails(w) \/ Ending(w) PROVE OneWatcher'
  <2>1. wat[w].life \in Living /\ svc.pc = "wait" /\ w = svc.w /\ UNCHANGED svc
    BY <1>5 DEF WaitFails, Ending, ClearContext, CloseWatcher, OneWatcher
  <2>2. \A u \in WatcherId \ {w} : wat'[u] = wat[u] /\ wat[u].life \notin Living
    BY <1>5, <2>1, EndingUpdate DEF Ending, OneWatcher
  <2>3. \/ wat'[w].life \in {"exit", "cleared"} /\ wat'[w].closed = wat[w].closed
        \/ wat'[w].life = "ended"
    <3>1. wat[w] \in Watcher
      BY <1>0
    <3> QED
      BY <1>0, <1>5, <3>1 DEF WaitFails, Ending, ClearContext, CloseWatcher, Watcher
  <2>4. ASSUME NEW u \in WatcherId
        PROVE  /\ wat'[u].life \in Living => svc'.pc = "wait" /\ u = svc'.w
               /\ wat'[u].closed => wat'[u].life = "ended"
               /\ wat'[u].life = "run" => ctx' = u
    <3>1. CASE u = w
      BY <2>1, <2>3, <3>1 DEF OneWatcher
    <3>2. CASE u # w
      BY <2>1, <2>2, <3>2 DEF OneWatcher
    <3> QED
      BY <3>1, <3>2
  <2> QED
    BY <2>1, <2>4 DEF OneWatcher
<1>6. ~Close
  BY ZoneAssumption DEF Close, TypeOK
<1>7. CASE UNCHANGED vars
  BY <1>7 DEF vars, OneWatcher
<1> QED
  BY <1>1, <1>2, <1>3, <1>4, <1>5, <1>6, <1>7 DEF Next, Service

-----------------------------------------------------------------------------
(* The theorems. *)

\* The first state.
LEMMA InductiveInit == Init => Inductive /\ Listed /\ OneWatcher
<1> SUFFICES ASSUME Init PROVE Inductive /\ Listed /\ OneWatcher
  OBVIOUS
<1>1. \A w \in WatcherId : wat[w] = NoWatcher
  BY DEF Init
<1>2. /\ NoWatcher.cv = {} /\ NoWatcher.life = "none" /\ ~NoWatcher.closed
      /\ \A f \in Folder : NoWatcher.cvr[f] = {}
  BY DEF NoWatcher
<1>3. ViewsCounted /\ UsersHeld /\ Listed /\ OneWatcher
  BY <1>1, <1>2 DEF Init, ViewsCounted, UsersHeld, Listed, OneWatcher
<1>4. TypeOK
  <2>1. zone \in [Zone -> Object]
    <3> DEFINE Found == {[st |-> "none", fin |-> FALSE], [st |-> "live", fin |-> TRUE],
                         [st |-> "live", fin |-> FALSE], [st |-> "deleting", fin |-> TRUE]}
    <3>1. \A o \in Found : o \in Object
      <4>1. /\ [st |-> "none", fin |-> FALSE] \in Object /\ [st |-> "live", fin |-> TRUE] \in Object
            /\ [st |-> "live", fin |-> FALSE] \in Object /\ [st |-> "deleting", fin |-> TRUE] \in Object
        BY DEF Object
      <4> QED
        BY <4>1, Zenon
    <3>2. zone \in [Zone -> Found]
      BY DEF Init
    <3> HIDE DEF Found
    <3> QED
      BY <3>1, <3>2
  <2>2. svc \in Svc
    BY ZoneAssumption DEF Init, Svc
  <2>3. rec \in [Zone -> Rec] /\ wat \in [WatcherId -> Watcher]
    BY NullTypes DEF Init
  <2>4. /\ cache = zone /\ written = {} /\ existing \subseteq Folder /\ queue \subseteq Zone
        /\ ctx = 0 /\ faults = 0 /\ closes = 0
    BY DEF Init
  <2>5. 0 \in 0..MaxWatchers /\ 0 \in 0..MaxFaults /\ 0 \in 0..MaxCloses
    BY ZoneAssumption
  <2> QED
    BY <2>1, <2>2, <2>3, <2>4, <2>5 DEF TypeOK
<1>5. Sightings
  <2>1. \A z \in Zone : zone[z].fin => Exists(zone[z]) /\ Held(z)
    BY DEF Init, Exists, Held
  <2>2. /\ cache = zone /\ svc.pc = "list" /\ \A z \in Zone : rec[z].pc = "idle"
    BY DEF Init, Idle
  <2> QED
    BY <2>1, <2>2 DEF Sightings
<1> QED
  BY <1>3, <1>4, <1>5 DEF Inductive

\* The inductive invariant holds in every behaviour.
THEOREM Inductiveness == Spec => []Inductive
<1>1. Inductive /\ [Next]_vars => Inductive'
  BY TypeNext, SightingsNext, ViewsNext DEF Inductive
<1> QED
  BY <1>1, InductiveInit, PTL DEF Spec

\* A folder has a container view exactly while some zone uses it, however the vSphere
\* calls of add and remove fail.
THEOREM ViewsAlwaysCounted == Spec => []ViewsCounted
<1>1. Inductive => ViewsCounted
  BY DEF Inductive
<1> QED
  BY <1>1, Inductiveness, PTL

\* A zone that is watched and still there is held by the finalizer, although controller
\* and service decide from a cache that lags.
THEOREM WatchedAlwaysHeld == Spec => []WatchedIsHeld
<1>1. Inductive => WatchedIsHeld
  <2> SUFFICES ASSUME Inductive, NEW z \in Watched PROVE Exists(zone[z]) => zone[z].fin
    BY DEF WatchedIsHeld
  <2>1. PICK f \in Folder : ctx # 0 /\ z \in wat[ctx].cvr[f]
    BY DEF Watched
  <2>2. ctx \in WatcherId
    BY <2>1, ZoneAssumption DEF Inductive, TypeOK, WatcherId
  <2> QED
    BY <2>1, <2>2 DEF Inductive, UsersHeld, Held
<1> QED
  BY <1>1, Inductiveness, PTL

\* A live zone that was added to a Watcher has its folder among those the property
\* collector reports on, whichever calls fail, except between a failed destruction of the
\* folder's view and its retry.
THEOREM AddedAlwaysReported == Spec => []AddedIsReported
<1>1. Inductive /\ Listed => AddedIsReported
  <2> SUFFICES ASSUME Inductive, Listed, NEW z \in Watched, ~wat[ctx].closed
               PROVE  FolderOf[z] \in wat[ctx].lv \cup wat[ctx].leaked
    BY DEF AddedIsReported
  <2>1. PICK f \in Folder : ctx # 0 /\ z \in wat[ctx].cvr[f]
    BY DEF Watched
  <2>2. ctx \in WatcherId
    BY <2>1, ZoneAssumption DEF Inductive, TypeOK, WatcherId
  <2>3. FolderOf[z] = f /\ f \in wat[ctx].cv
    BY <2>1, <2>2 DEF Inductive, UsersHeld, ViewsCounted
  <2> QED
    BY <2>2, <2>3 DEF Listed
<1>2. Inductive /\ Listed /\ [Next]_vars => Listed'
  BY ListedNext DEF Inductive
<1> QED
  BY <1>1, <1>2, InductiveInit, Inductiveness, PTL DEF Spec

\* As long as nobody calls Close, nothing but the end of the service's own Watcher takes
\* it out of the context.
THEOREM WatcherAlwaysStays ==
  ASSUME MaxCloses = 0
  PROVE  Spec => []WatcherStays
<1>1. Inductive /\ OneWatcher => WatcherStays
  BY ZoneAssumption DEF Inductive, TypeOK, OneWatcher, WatcherStays, WatcherId, Svc
<1>2. Inductive /\ OneWatcher /\ [Next]_vars => OneWatcher'
  BY OneWatcherNext DEF Inductive
<1> QED
  BY <1>1, <1>2, InductiveInit, Inductiveness, PTL DEF Spec
=============================================================================
