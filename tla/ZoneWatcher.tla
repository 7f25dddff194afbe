----------------------------- MODULE ZoneWatcher -----------------------------
(***************************************************************************)
(* Which vSphere folders are watched, and for which zones:                 *)
(*   pkg/util/vsphere/watcher/{watcher,watcher_context}.go                 *)
(*   services/vm-watcher/vm_watcher_service.go                             *)
(*   controllers/infra/zone/zone_controller.go                             *)
(*                                                                         *)
(* The vm-watcher service starts a Watcher on the folders of all zones,    *)
(* and a new one whenever that one stops.  The zone controller adds the    *)
(* folder of a new zone to the Watcher found in a shared context and       *)
(* removes the folder of a deleted one, holding the zone by a finalizer    *)
(* meanwhile.  A Watcher counts the zones that use a folder (cvr) and      *)
(* destroys the folder's container view with the last of them.             *)
(***************************************************************************)
EXTENDS Integers, FiniteSets

CONSTANTS Zone,        \* zones, by namespaced name
          Folder,      \* vSphere folders
          FolderOf,    \* spec.managedVMs.folderMoID of each zone
          MaxFaults,   \* bound: calls that fail
          MaxWatchers, \* bound: Watchers started
          MaxCloses    \* bound: calls of watcher.Close

ASSUME ZoneAssumption ==
  /\ FolderOf \in [Zone -> Folder]
  /\ MaxFaults \in Nat /\ MaxWatchers \in Nat /\ MaxCloses \in Nat

VARIABLES
  zone,     \* the zones in the API server
  cache,    \* the informer's copy, which controller and service both read
  written,  \* zones written since the version in the cache
  existing, \* the folders there are in vSphere, which stay as they are
  queue,    \* the zone controller's work queue
  rec,      \* its reconcile of each zone
  svc,      \* the service
  ctx,      \* the Watcher in the context, 0 for nil
  wat,      \* the Watchers
  faults, closes

api  == <<zone, cache, written, existing>>
vars == <<api, queue, rec, svc, ctx, wat, faults, closes>>

-----------------------------------------------------------------------------
WatcherId == 1..MaxWatchers
Object    == [st: {"none", "live", "deleting", "gone"}, fin: BOOLEAN]
Rec       == [pc: {"idle", "add", "remove", "patch"},
              change: {"nothing", "addFinalizer", "removeFinalizer"}, again: BOOLEAN]
\* listed: zones to watch; todo: those that lack the finalizer; stale: zones
\* written since the version the service listed; w: its last Watcher.
Svc       == [pc: {"list", "finalizers", "start", "wait"}, listed: SUBSET Zone,
              todo: SUBSET Zone, stale: SUBSET Zone, w: 0..MaxWatchers]
\* life is where the Watcher's goroutine is; closed that chanDone is; leaked
\* (history) has the folders whose view is still to be destroyed, a first try
\* having failed after the view was taken off the list.
Watcher   == [life: {"none", "run", "exit", "cleared", "ended"}, closed: BOOLEAN,
              cv: SUBSET Folder, cvr: [Folder -> SUBSET Zone], lv: SUBSET Folder,
              leaked: SUBSET Folder]

Idle      == [pc |-> "idle", change |-> "nothing", again |-> FALSE]
NoWatcher == [life |-> "none", closed |-> FALSE, cv |-> {},
              cvr |-> [f \in Folder |-> {}], lv |-> {}, leaked |-> {}]
Exists(o) == o.st \in {"live", "deleting"}

TypeOK ==
  /\ zone \in [Zone -> Object] /\ cache \in [Zone -> Object]
  /\ written \subseteq Zone /\ existing \subseteq Folder /\ queue \subseteq Zone
  /\ rec \in [Zone -> Rec] /\ svc \in Svc
  /\ ctx \in 0..MaxWatchers /\ wat \in [WatcherId -> Watcher]
  /\ faults \in 0..MaxFaults /\ closes \in 0..MaxCloses

\* A restarted operator finds zones with the finalizer and zones without.
Init ==
  /\ zone \in [Zone -> {[st |-> "none", fin |-> FALSE], [st |-> "live", fin |-> TRUE],
                        [st |-> "live", fin |-> FALSE], [st |-> "deleting", fin |-> TRUE]}]
  /\ cache = zone /\ written = {} /\ existing \in SUBSET Folder
  /\ queue = {z \in Zone : Exists(zone[z])}
  /\ rec = [z \in Zone |-> Idle]
  /\ svc = [pc |-> "list", listed |-> {}, todo |-> {}, stale |-> {}, w |-> 0]
  /\ ctx = 0 /\ wat = [w \in WatcherId |-> NoWatcher]
  /\ faults = 0 /\ closes = 0

\* A write: the cache and the service's list have the old version.
Write(z, o) == /\ zone' = [zone EXCEPT ![z] = o]
               /\ written' = written \cup {z}
               /\ UNCHANGED <<cache, existing>>

Fault == faults < MaxFaults /\ faults' = faults + 1

Finish(z, c, again) ==
  rec' = [rec EXCEPT ![z] = [pc |-> "patch", change |-> c, again |-> again]]

-----------------------------------------------------------------------------
(* The user and the informer (external to this code). *)

CreateZone(z) ==
  /\ zone[z].st = "none"
  /\ Write(z, [st |-> "live", fin |-> FALSE])
  /\ svc' = [svc EXCEPT !.stale = @ \cup {z}]
  /\ UNCHANGED <<queue, rec, ctx, wat, faults, closes>>

DeleteZone(z) ==
  /\ zone[z].st = "live"
  /\ Write(z, [zone[z] EXCEPT !.st = IF zone[z].fin THEN "deleting" ELSE "gone"])
  /\ svc' = [svc EXCEPT !.stale = @ \cup {z}]
  /\ UNCHANGED <<queue, rec, ctx, wat, faults, closes>>

WatchEvent(z) ==
  /\ z \in written
  /\ cache' = [cache EXCEPT ![z] = zone[z]]
  /\ written' = written \ {z} /\ queue' = queue \cup {z}
  /\ UNCHANGED <<zone, existing, rec, svc, ctx, wat, faults, closes>>

-----------------------------------------------------------------------------
(* The zone controller. *)

Reconcile(z) ==
  /\ z \in queue /\ rec[z].pc = "idle"
  /\ queue' = queue \ {z}
  /\ CASE cache[z].st = "deleting" -> rec' = [rec EXCEPT ![z].pc = "remove"]
       [] cache[z].st = "live" /\ cache[z].fin -> rec' = [rec EXCEPT ![z].pc = "add"]
       [] cache[z].st = "live" /\ ~cache[z].fin -> Finish(z, "addFinalizer", FALSE)
       [] ~Exists(cache[z]) -> UNCHANGED rec
  /\ UNCHANGED <<api, svc, ctx, wat, faults, closes>>

\* Variant for mutation: ErrNoWatcher is not retried.
AddForgets(z) ==
  /\ rec[z].pc = "add"
  /\ LET f == FolderOf[z]
     IN  IF ctx = 0 \/ f \notin existing
           THEN UNCHANGED wat
           ELSE wat' = [wat EXCEPT ![ctx].cv = @ \cup {f}, ![ctx].lv = @ \cup {f},
                                   ![ctx].cvr[f] = @ \cup {z}]
  /\ Finish(z, "nothing", FALSE)
  /\ UNCHANGED <<api, queue, svc, ctx, faults, closes>>

\* Add and Remove fail while there is no Watcher in the context.
ErrNoWatcher == ctx = 0

\* watcher.Add, and Watcher.add under the lock of the context.
Add(z) ==
  /\ rec[z].pc = "add"
  /\ LET f == FolderOf[z]
     IN  \/ /\ ErrNoWatcher
            /\ Finish(z, "nothing", TRUE) /\ UNCHANGED <<wat, faults>>
         \/ /\ ctx # 0 /\ f \in wat[ctx].cv
            /\ wat' = [wat EXCEPT ![ctx].cvr[f] = @ \cup {z}]
            /\ Finish(z, "nothing", FALSE) /\ UNCHANGED faults
         \/ /\ ctx # 0 /\ f \notin wat[ctx].cv /\ f \in existing /\ ~wat[ctx].closed
            /\ wat' = [wat EXCEPT ![ctx].cv = @ \cup {f}, ![ctx].lv = @ \cup {f},
                                  ![ctx].cvr[f] = @ \cup {z}]
            /\ Finish(z, "nothing", FALSE) /\ UNCHANGED faults
         \/ /\ ctx # 0 /\ f \notin wat[ctx].cv
            /\ IF f \notin existing \/ wat[ctx].closed THEN UNCHANGED faults ELSE Fault
            /\ Finish(z, "nothing", TRUE) /\ UNCHANGED wat
  /\ UNCHANGED <<api, queue, svc, ctx, closes>>

\* Variant for mutation: the view is destroyed though other zones use it.
RemoveUncounted(z) ==
  /\ rec[z].pc = "remove" /\ ctx # 0
  /\ LET f == FolderOf[z]
     IN  wat' = [wat EXCEPT ![ctx].cv = @ \ {f}, ![ctx].lv = @ \ {f},
                            ![ctx].cvr[f] = @ \ {z}]
  /\ Finish(z, "removeFinalizer", FALSE)
  /\ UNCHANGED <<api, queue, svc, ctx, faults, closes>>

\* Variant for mutation: the view is taken off the list before the users are counted.
RemoveUnlists(z) ==
  /\ rec[z].pc = "remove" /\ ctx # 0
  /\ LET f    == FolderOf[z]
         last == wat[ctx].cvr[f] \subseteq {z}
     IN  wat' = [wat EXCEPT ![ctx].cv = IF last THEN @ \ {f} ELSE @,
                            ![ctx].lv = @ \ {f}, ![ctx].cvr[f] = @ \ {z}]
  /\ Finish(z, "removeFinalizer", FALSE)
  /\ UNCHANGED <<api, queue, svc, ctx, faults, closes>>

\* Variant for mutation: ErrNoWatcher is not retried.
RemoveForgets(z) ==
  /\ rec[z].pc = "remove"
  /\ IF ctx = 0
       THEN Finish(z, "nothing", FALSE) /\ UNCHANGED wat
       ELSE /\ wat' = [wat EXCEPT ![ctx].cvr[FolderOf[z]] = @ \ {z}]
            /\ Finish(z, "removeFinalizer", FALSE)
  /\ UNCHANGED <<api, queue, svc, ctx, faults, closes>>

\* watcher.Remove, and Watcher.remove under the lock of the context.
Remove(z) ==
  /\ rec[z].pc = "remove"
  /\ LET f == FolderOf[z]
         shared == z \notin wat[ctx].cvr[f] \/ Cardinality(wat[ctx].cvr[f]) > 1
     IN  \/ /\ ErrNoWatcher
            /\ Finish(z, "nothing", TRUE) /\ UNCHANGED <<wat, faults>>
         \/ /\ ctx # 0 /\ f \notin wat[ctx].cv
            /\ Finish(z, "removeFinalizer", FALSE) /\ UNCHANGED <<wat, faults>>
         \/ /\ ctx # 0 /\ f \in wat[ctx].cv /\ shared
            /\ wat' = [wat EXCEPT ![ctx].cvr[f] = @ \ {z}]
            /\ Finish(z, "removeFinalizer", FALSE) /\ UNCHANGED faults
         \/ /\ ctx # 0 /\ f \in wat[ctx].cv /\ ~shared /\ ~wat[ctx].closed
            /\ \/ /\ wat' = [wat EXCEPT ![ctx].cv = @ \ {f}, ![ctx].lv = @ \ {f},
                                        ![ctx].cvr[f] = {}, ![ctx].leaked = @ \ {f}]
                  /\ Finish(z, "removeFinalizer", FALSE) /\ UNCHANGED faults
               \/ /\ Fault                       \* lv.Remove fails
                  /\ Finish(z, "nothing", TRUE) /\ UNCHANGED wat
               \/ /\ Fault                    \* cv.Destroy fails
                  /\ wat' = [wat EXCEPT ![ctx].lv = @ \ {f}, ![ctx].leaked = @ \cup {f}]
                  /\ Finish(z, "nothing", TRUE)
         \/ /\ ctx # 0 /\ f \in wat[ctx].cv /\ ~shared /\ wat[ctx].closed
            /\ Finish(z, "nothing", TRUE) /\ UNCHANGED <<wat, faults>>
  /\ UNCHANGED <<api, queue, svc, ctx, closes>>

\* The deferred patch; the API server takes no new finalizer for an object
\* that is being deleted.
Patch(z) ==
  /\ rec[z].pc = "patch"
  /\ \/ /\ rec[z].change = "nothing"
        /\ queue' = IF rec[z].again THEN queue \cup {z} ELSE queue
        /\ UNCHANGED <<api, svc, faults>>
     \/ /\ rec[z].change = "addFinalizer" /\ zone[z].st = "live"
        /\ Write(z, [zone[z] EXCEPT !.fin = TRUE])
        /\ svc' = [svc EXCEPT !.stale = @ \cup {z}] /\ UNCHANGED <<queue, faults>>
     \/ /\ rec[z].change = "removeFinalizer" /\ zone[z].st = "deleting"
        /\ Write(z, [st |-> "gone", fin |-> FALSE])
        /\ svc' = [svc EXCEPT !.stale = @ \cup {z}] /\ UNCHANGED <<queue, faults>>
     \/ /\ rec[z].change # "nothing"
        /\ IF \/ ~Exists(zone[z])
              \/ rec[z].change = "addFinalizer" /\ zone[z].st = "deleting"
             THEN UNCHANGED faults ELSE Fault
        /\ queue' = queue \cup {z} /\ UNCHANGED <<api, svc>>
  /\ rec' = [rec EXCEPT ![z] = Idle]
  /\ UNCHANGED <<ctx, wat, closes>>

-----------------------------------------------------------------------------
(* The vm-watcher service: waitForChanges, in a loop. *)

\* vmFolderMoRefWithIDs: the zones to watch, from the cache, and those of them
\* that need the finalizer.  Folders that do not exist are left out.
ListZones ==
  /\ svc.pc = "list"
  /\ LET keep == {z \in Zone : /\ Exists(cache[z]) /\ FolderOf[z] \in existing
                               /\ cache[z].st = "deleting" => cache[z].fin}
     IN  svc' = [svc EXCEPT !.pc = "finalizers", !.listed = keep, !.stale = written,
                            !.todo = {z \in keep : ~cache[z].fin}]
  /\ UNCHANGED <<api, queue, rec, ctx, wat, faults, closes>>

\* Variant for mutation: zones are watched without the finalizer.
AddFinalizersNot ==
  /\ svc.pc = "finalizers"
  /\ svc' = [svc EXCEPT !.pc = "start"]
  /\ UNCHANGED <<api, queue, rec, ctx, wat, faults, closes>>

\* The finalizers are patched one by one under an optimistic lock; a conflict
\* ends waitForChanges and the loop lists again.
AddFinalizers ==
  /\ svc.pc = "finalizers"
  /\ \/ /\ svc.todo = {}
        /\ svc' = [svc EXCEPT !.pc = "start"] /\ UNCHANGED <<api, faults>>
     \/ \E z \in svc.todo \ svc.stale :
          /\ Write(z, [zone[z] EXCEPT !.fin = TRUE])
          /\ svc' = [svc EXCEPT !.todo = @ \ {z}, !.stale = @ \cup {z}] /\ UNCHANGED faults
     \/ /\ svc.todo \cap svc.stale # {}
        /\ svc' = [svc EXCEPT !.pc = "list"] /\ UNCHANGED <<api, faults>>
     \/ /\ Fault
        /\ svc' = [svc EXCEPT !.pc = "list"] /\ UNCHANGED api
  /\ UNCHANGED <<queue, rec, ctx, wat, closes>>

\* newWatcher builds the views, then setContext publishes the Watcher.
StartWatcher ==
  /\ svc.pc = "start"
  /\ \/ /\ svc.w < MaxWatchers
        /\ LET w == svc.w + 1
               folders == {FolderOf[z] : z \in svc.listed}
           IN  /\ wat' = [wat EXCEPT ![w] =
                    [life |-> "run", closed |-> FALSE, cv |-> folders, lv |-> folders,
                     leaked |-> {}, cvr |-> [f \in Folder |-> {z \in svc.listed : FolderOf[z] = f}]]]
               /\ ctx' = w
               /\ svc' = [svc EXCEPT !.pc = "wait", !.w = w]
        /\ UNCHANGED faults
     \/ /\ Fault
        /\ svc' = [svc EXCEPT !.pc = "list"] /\ UNCHANGED <<wat, ctx>>
  /\ UNCHANGED <<api, queue, rec, closes>>

\* The Watcher's Done channel is closed: waitForChanges returns.
WatcherDone ==
  /\ svc.pc = "wait" /\ wat[svc.w].closed
  /\ svc' = [svc EXCEPT !.pc = "list"]
  /\ UNCHANGED <<api, queue, rec, ctx, wat, faults, closes>>

-----------------------------------------------------------------------------
(* The Watcher's goroutine. *)

\* The wait for updates fails, because vSphere does or because Close cancelled
\* it.  The bound leaves the last Watcher running.
WaitFails(w) ==
  /\ wat[w].life = "run" /\ (wat[w].closed \/ w < MaxWatchers)
  /\ wat' = [wat EXCEPT ![w].life = "exit"]
  /\ UNCHANGED <<api, queue, rec, svc, ctx, faults, closes>>

\* The deferred function: setContext(ctx, nil), whatever is in the context ...
ClearContext(w) ==
  /\ wat[w].life = "exit"
  /\ ctx' = 0
  /\ wat' = [wat EXCEPT ![w].life = "cleared"]
  /\ UNCHANGED <<api, queue, rec, svc, faults, closes>>

\* Variant for mutation: chanDone is closed before the context is cleared.
CloseWatcherEarly(w) ==
  /\ wat[w].life \in {"exit", "cleared"}
  /\ wat' = [wat EXCEPT ![w].life = IF @ = "exit" THEN "exit" ELSE "ended",
                        ![w].closed = TRUE, ![w].lv = {}]
  /\ UNCHANGED <<api, queue, rec, svc, ctx, faults, closes>>

\* ... and close, which closes chanDone and destroys the views.
CloseWatcher(w) ==
  /\ wat[w].life = "cleared"
  /\ wat' = [wat EXCEPT ![w].life = "ended", ![w].closed = TRUE, ![w].lv = {}]
  /\ UNCHANGED <<api, queue, rec, svc, ctx, faults, closes>>

\* watcher.Close closes the Watcher in the context first.
Close ==
  /\ closes < MaxCloses /\ closes' = closes + 1
  /\ ctx # 0
  /\ wat' = [wat EXCEPT ![ctx].closed = TRUE, ![ctx].lv = {}]
  /\ UNCHANGED <<api, queue, rec, svc, ctx, faults>>

-----------------------------------------------------------------------------
Controller(z) == Reconcile(z) \/ Add(z) \/ Remove(z) \/ Patch(z)
Service       == ListZones \/ AddFinalizers \/ StartWatcher \/ WatcherDone
Ending(w)     == ClearContext(w) \/ CloseWatcher(w)

Next ==
  \/ \E z \in Zone : CreateZone(z) \/ DeleteZone(z) \/ WatchEvent(z) \/ Controller(z)
  \/ Service
  \/ \E w \in WatcherId : WaitFails(w) \/ Ending(w)
  \/ Close

Spec == Init /\ [][Next]_vars

\* Goroutines, workers and the informer keep running.
Fairness ==
  /\ \A z \in Zone : WF_vars(WatchEvent(z)) /\ WF_vars(Controller(z))
  /\ WF_vars(Service)
  /\ \A w \in WatcherId : WF_vars(Ending(w)) /\ WF_vars(wat[w].closed /\ WaitFails(w))

FairSpec == Spec /\ Fairness

-----------------------------------------------------------------------------
(* Properties. *)

\* Zones that the Watcher in the context watches.
Watched == IF ctx = 0 THEN {} ELSE UNION {wat[ctx].cvr[f] : f \in Folder}

\* A folder has a container view exactly while some zone uses it: the reference
\* counts of add and remove never drop a view that is in use nor keep one that
\* is not, whichever vSphere call of theirs fails.
ViewsCounted ==
  \A w \in WatcherId, f \in Folder : f \in wat[w].cv <=> wat[w].cvr[f] # {}

\* Add starts watching a folder: a live zone that was added to the Watcher has
\* its folder among those the property collector reports on, whichever calls
\* fail and whoever else leaves the folder.  The one exception is Add between a
\* failed destruction of the folder's view and its retry: the view is off the
\* list but still in the map, and Add takes the folder for watched.
AddedIsReported ==
  \A z \in Watched : zone[z].st = "live" /\ ~wat[ctx].closed =>
    FolderOf[z] \in wat[ctx].lv \cup wat[ctx].leaked

\* A zone that is watched and still there is held by the finalizer, whether
\* the zone controller or the service began to watch it.
WatchedIsHeld == \A z \in Watched : Exists(zone[z]) => zone[z].fin

\* A zone that is gone is not watched any more.
GoneIsUnwatched == \A z \in Watched : zone[z].st # "gone"

\* Nothing but the end of the service's own Watcher takes it out of the context.
WatcherStays ==
  svc.pc = "wait" /\ wat[svc.w].life = "run" /\ ~wat[svc.w].closed => ctx = svc.w

\* A zone that stays live comes to be watched and stays watched, however the
\* service's restarts and the controller's retries interleave; with the exception
\* above, which nothing repairs before the next Watcher.
ZoneStaysWatched ==
  \A z \in Zone : FolderOf[z] \in existing =>
    (<>[](zone[z].st = "live") =>
       <>[](ctx # 0 /\ FolderOf[z] \in wat[ctx].lv \cup wat[ctx].leaked))

\* A deleted zone goes away once a Watcher runs.
ZoneDeleteFinishes == \A z \in Zone : zone[z].st = "deleting" ~> zone[z].st = "gone"

-----------------------------------------------------------------------------
(* What makes the invariants above inductive. *)

\* Once a zone has the finalizer it keeps it for as long as it exists.
Held(z) == zone[z].st # "none" /\ (Exists(zone[z]) => zone[z].fin)

\* Whoever will watch a zone because of what the cache showed may still do so: the
\* finalizer it saw is there, and a version it will write to under the lock is the one
\* it listed.
Sightings ==
  /\ \A z \in Zone : /\ zone[z].fin => Exists(zone[z])
                     /\ z \notin written => cache[z] = zone[z]
                     /\ cache[z].fin \/ rec[z].pc = "add" => Held(z)
  /\ svc.pc = "finalizers" => /\ \A z \in svc.listed \ svc.todo : Held(z)
                              /\ \A z \in svc.todo \ svc.stale : Exists(zone[z])
  /\ svc.pc = "start" => \A z \in svc.listed : Held(z)

\* A Watcher knows each zone under its folder.
UsersHeld ==
  \A w \in WatcherId, f \in Folder : \A z \in wat[w].cvr[f] : FolderOf[z] = f /\ Held(z)

Inductive == TypeOK /\ ViewsCounted /\ Sightings /\ UsersHeld

\* An open Watcher lists all its views but those it failed to destroy.
Listed ==
  \A w \in WatcherId : ~wat[w].closed => wat[w].cv \subseteq wat[w].lv \cup wat[w].leaked

\* Without calls of Close at most one Watcher is not over: the one the service waits for.
OneWatcher ==
  /\ svc.pc = "wait" => svc.w # 0
  /\ \A w \in WatcherId :
       /\ wat[w].life \in {"run", "exit", "cleared"} => svc.pc = "wait" /\ w = svc.w
       /\ wat[w].closed => wat[w].life = "ended"
       /\ wat[w].life = "run" => ctx = w
=============================================================================
