-------------------- MODULE VirtualMachinePublishRequest --------------------
(***************************************************************************)
(* The controller that publishes a VM as an image of a content library:    *)
(*   controllers/virtualmachinepublishrequest/                             *)
(*     virtualmachinepublishrequest_controller.go                          *)
(* and the calls it makes of the provider,                                 *)
(*   pkg/providers/vsphere/virtualmachine/publish.go                       *)
(*                                                                         *)
(* A publish is a call to vCenter made by a goroutine nobody waits for.    *)
(* The controller finds its task again by an activation ID, the UID of the *)
(* request and the number of the attempt; when a task does not show up     *)
(* within 30 seconds it starts another attempt, and must then recognise    *)
(* the item an earlier, late attempt left in the library by the request's  *)
(* UID, which is put in the item's description (or, for a VM template, in  *)
(* its extraConfig).                                                       *)
(*                                                                         *)
(* One request.  Managers are processes of the operator: after a change of *)
(* leader the former one takes no new reconcile, but nothing stops the one *)
(* it is in, nor its goroutines.  Queued and running tasks are not told    *)
(* apart, start and completion times are left out, and a TTL is zero or    *)
(* none.  The encryption of disks is not modelled.                         *)
(***************************************************************************)
EXTENDS Naturals, FiniteSets

CONSTANTS Manager,       \* processes of the operator
          BackoffLimit,  \* spec.backoffLimit, 0 for no limit
          MaxAttempts,   \* bound: attempts, if there is no limit
          Setups,        \* the pairs of kind and ttl (see below) a request may have
          MaxFaults      \* bound: crashes, changes of leader, failures, intruders

Attempts == 1..(IF BackoffLimit = 0 THEN MaxAttempts ELSE BackoffLimit)
NoItem   == [by |-> 0, tag |-> FALSE, ex |-> FALSE]

ASSUME PublishAssumption ==
  /\ IsFiniteSet(Manager) /\ Manager # {} /\ "quota" \notin Manager /\ "user" \notin Manager
  /\ BackoffLimit \in Nat /\ MaxAttempts \in Nat \ {0} /\ MaxFaults \in Nat
  /\ Setups \subseteq {"ContentLibrary", "Inventory"} \X BOOLEAN /\ Setups # {}

VARIABLES
  req,             \* the VirtualMachinePublishRequest in the API server
  late,            \* status.lastAttemptTime is more than 30 seconds ago
  source, library, \* the source VM and the target library
  kind, ttl,       \* the library's type; spec.ttlSecondsAfterFinished is 0, not unset
  item, image,     \* the library's item of the target name, its VirtualMachineImage
  calls, tasks,    \* calls of PublishVirtualMachine on their way, vCenter's tasks
  sent,            \* history: calls made, by activation ID
  leader, wake,    \* the manager that reconciles; its work queue holds the request
  rec,             \* the reconcile each manager is in
  dropped,         \* history: the leader's latest reconcile kept quiet about a failed patch
  faults

reqVars  == <<req, late>>
envVars  == <<source, library, kind, ttl>>
vcVars   == <<item, image, tasks>>
callVars == <<calls, sent>>
vars == <<reqVars, envVars, vcVars, callVars, leader, wake, rec, dropped, faults>>

-----------------------------------------------------------------------------
(* The state. *)

\* Conditions src, tgt, up, img, comp: SourceValid, TargetValid, Uploaded,
\* ImageAvailable and Complete with their reasons; img stands for imageName too.
\* quota: the annotations of the quota check.
Request == [ex: BOOLEAN, deleting: BOOLEAN, fin: BOOLEAN,
            quota: {"none", "asked", "passed", "failed"}, att: {0} \cup Attempts,
            src: {"unset", "True", "Invalid"},
            tgt: {"unset", "True", "Invalid", "ItemAlreadyExists"},
            up: {"unset", "True", "InProgress", "Failed", "ItemIDInvalid"},
            img: {"unset", "True", "NotFound"},
            comp: {"unset", "True", "False", "Fatal"}, ready: BOOLEAN]

NewRequest == [ex |-> TRUE, deleting |-> FALSE, fin |-> FALSE, quota |-> "none", att |-> 0,
               src |-> "unset", tgt |-> "unset", up |-> "unset", img |-> "unset",
               comp |-> "unset", ready |-> FALSE]

\* base: the request as it was read;  obj: as it is being changed;  id: the attempt
\* that made the item whose ID is known, 0 if none is;  current: nobody has written
\* the request since base;  again: the result asks for another reconcile.
Rec == [pc: {"idle", "task", "publish", "update", "image", "describe", "ttl", "patch"},
        base: Request, obj: Request, id: {0} \cup Attempts,
        current: BOOLEAN, again: BOOLEAN]
Idle == [pc |-> "idle", base |-> NewRequest, obj |-> NewRequest, id |-> 0,
         current |-> TRUE, again |-> FALSE]

\* unsent: vCenter has not had the call, or lost it;  accepted: it has, but the task
\* manager does not show a task yet;  odd: success, with a result that is no item ID.
TaskState == {"unsent", "accepted", "running", "success", "odd", "error"}

TypeOK ==
  /\ req \in Request /\ late \in BOOLEAN
  /\ source \in {"missing", "uncreated", "created"}
  /\ library \in {"missing", "unready", "ready"} /\ \E s \in Setups : kind = s[1] /\ ttl = s[2]
  /\ item \in [by: {0} \cup Attempts, tag: BOOLEAN, ex: BOOLEAN] /\ image \in BOOLEAN
  /\ calls \subseteq (Manager \X Attempts) /\ tasks \in [Attempts -> TaskState]
  /\ sent \in [Attempts -> Nat]
  /\ leader \in Manager /\ wake \in BOOLEAN /\ rec \in [Manager -> Rec]
  /\ dropped \in BOOLEAN /\ faults \in 0..MaxFaults

Init ==
  /\ req = NewRequest /\ late = FALSE
  /\ source = "missing" /\ library = "missing" /\ \E s \in Setups : kind = s[1] /\ ttl = s[2]
  /\ item = NoItem /\ image = FALSE
  /\ calls = {} /\ tasks = [a \in Attempts |-> "unsent"] /\ sent = [a \in Attempts |-> 0]
  /\ leader = (CHOOSE m \in Manager : TRUE) /\ wake = TRUE /\ rec = [m \in Manager |-> Idle]
  /\ dropped = FALSE /\ faults = 0

Fault == faults < MaxFaults /\ faults' = faults + 1

\* The request is written by by, or by somebody else if that is no manager: the copies
\* of all others are out of date.
Outdated(r, by) == [m \in Manager |-> [r[m] EXCEPT !.current = @ /\ (m = by \/ r[m].pc = "idle")]]

\* m's reconcile goes on at pc, with obj and id.
Step(m, pc, obj, id, again) ==
  rec' = [rec EXCEPT ![m].pc = pc, ![m].obj = obj, ![m].id = id, ![m].again = again]

-----------------------------------------------------------------------------
(* Finding the task and the item. *)

\* GetTasksByActID: the task of the current attempt, if it shows one.
Shown(a) == a # 0 /\ tasks[a] \notin {"unsent", "accepted"}

\* isItemCorrelatedWithVMPub
Correlated == item.by # 0 /\ item.tag

\* getUploadedItemID, parseItemIDFromTaskResult, findCorrelatedItemIDByName; 0 stands
\* for an error.
UploadedItemID(a) ==
  IF Shown(a) /\ tasks[a] \in {"success", "odd"}
  THEN IF tasks[a] = "success" THEN a ELSE 0
  ELSE IF item.ex /\ Correlated THEN item.by ELSE 0

RequeuedOnceUploaded(obj) == obj.up = "True"

\* requeueResult: whether it asks for another reconcile, in 10 or 60 seconds.
Requeued(obj) == obj.tgt # "ItemAlreadyExists" /\ obj.up # "ItemIDInvalid"

-----------------------------------------------------------------------------
(* The reconcile, up to the calls that change something. *)

\* Reconcile reads the request from the API server, not from a cache.  ReconcileDelete,
\* and ReconcileNormal up to getTargetLibrary.
Reconcile(m) ==
  /\ m = leader /\ wake /\ rec[m].pc = "idle"
  /\ wake' = FALSE /\ dropped' = FALSE
  /\ LET start(pc, obj, again) ==
           [pc |-> pc, base |-> req, obj |-> obj, id |-> 0, current |-> TRUE, again |-> again]
     IN  rec' = [rec EXCEPT ![m] =
           CASE ~req.ex                         -> Idle
             [] req.ex /\ req.deleting          -> start("patch", [req EXCEPT !.fin = FALSE], FALSE)
             [] req.ex /\ ~req.deleting /\ ~req.fin
                                                -> start("patch", [req EXCEPT !.fin = TRUE], FALSE)
             [] req.ex /\ ~req.deleting /\ req.fin /\ req.comp = "Fatal"
                                                -> Idle
             [] req.ex /\ ~req.deleting /\ req.fin /\ req.ready /\ req.comp = "True"
                                                -> start("ttl", req, FALSE)
             [] OTHER -> IF library = "missing"
                         THEN start("patch", [req EXCEPT !.tgt = "Invalid"], TRUE)
                         ELSE start("task", req, FALSE)]
  /\ UNCHANGED <<reqVars, envVars, vcVars, callVars, leader, faults>>

\* checkPubReqStatusAndShouldRepublish, processUploadedItem: the next step and the
\* Uploaded condition.
Republish(obj) ==
  CASE obj.up = "True"             -> [pc |-> "image", up |-> "True"]
    [] obj.att = 0                 -> [pc |-> "publish", up |-> obj.up]
    [] obj.up # "True" /\ obj.att # 0 /\ ~Shown(obj.att)
         -> IF late THEN [pc |-> "publish", up |-> obj.up]
                    ELSE [pc |-> "image", up |-> "InProgress"]
    [] OTHER -> CASE tasks[obj.att] = "running" -> [pc |-> "image", up |-> "InProgress"]
                  [] tasks[obj.att] = "success" -> [pc |-> "image", up |-> "True"]
                  [] tasks[obj.att] = "odd"     -> [pc |-> "image", up |-> "ItemIDInvalid"]
                  [] tasks[obj.att] = "error"   -> [pc |-> "publish", up |-> "Failed"]

CheckTask(m) ==
  /\ rec[m].pc = "task"
  /\ LET obj == rec[m].obj
         r   == Republish(obj)
     IN  \/ /\ Step(m, r.pc, [obj EXCEPT !.up = r.up],
                    IF obj.up # "True" /\ r.up = "True" THEN obj.att ELSE 0, FALSE)
            /\ UNCHANGED faults
         \/ \* the query fails
            /\ obj.up # "True" /\ obj.att # 0 /\ Fault
            /\ Step(m, "patch", obj, 0, TRUE)
  /\ UNCHANGED <<reqVars, envVars, vcVars, callVars, leader, dropped, wake>>

\* checkContentLibraryQuota, for a library of templates: the outcome, and the request.
Quota(obj) ==
  CASE obj.quota = "none"   -> [go |-> FALSE, obj |-> [obj EXCEPT !.quota = "asked"]]
    [] obj.quota = "asked"  -> [go |-> FALSE, obj |-> obj]
    [] obj.quota = "failed" -> [go |-> FALSE, obj |-> [obj EXCEPT !.tgt = "Invalid", !.comp = "Fatal"]]
    [] obj.quota = "passed" -> [go |-> TRUE, obj |-> obj]

OwnIfLatest(obj) == item.ex /\ Correlated /\ item.by = obj.att

\* checkIsTargetValid: the item that is there was made for this request.
Own(obj) == item.ex /\ obj.att > 0 /\ Correlated

LimitPassed(att) == BackoffLimit # 0 /\ att > BackoffLimit

\* The attempts allowed have been made.
LimitReached(att) == BackoffLimit # 0 /\ att >= BackoffLimit

\* publishVirtualMachine up to the update: checkIsSourceValid, checkIsTargetValid and
\* the limit.
Publish(m) ==
  /\ rec[m].pc = "publish"
  /\ LET obj == [rec[m].obj EXCEPT !.src = IF source = "created" THEN "True" ELSE "Invalid"]
         q   == IF kind = "Inventory" THEN Quota(obj) ELSE [go |-> TRUE, obj |-> obj]
         ok  == [q.obj EXCEPT !.tgt = "True"]
     IN  CASE source # "created" ->
                Step(m, "patch", obj, 0, TRUE)
           [] source = "created" /\ library # "ready" ->
                Step(m, "patch", [obj EXCEPT !.tgt = "Invalid"], 0, TRUE)
           [] source = "created" /\ library = "ready" /\ ~q.go ->
                Step(m, "patch", q.obj, 0, FALSE)
           [] OTHER ->
                IF Own(obj) THEN Step(m, "patch", [ok EXCEPT !.up = "True"], item.by, TRUE)
                ELSE IF item.ex
                THEN LET dup == [q.obj EXCEPT !.tgt = "ItemAlreadyExists"]
                     IN  Step(m, "patch", dup, 0, Requeued(dup))
                ELSE IF LimitReached(obj.att)
                THEN Step(m, "patch", [ok EXCEPT !.comp = "Fatal"], 0, FALSE)
                ELSE /\ obj.att < MaxAttempts
                     /\ Step(m, "update", [ok EXCEPT !.att = @ + 1], 0, TRUE)
  /\ UNCHANGED <<reqVars, envVars, vcVars, callVars, leader, dropped, wake, faults>>

-----------------------------------------------------------------------------
(* The reconcile, from the calls that change something. *)

UpdateAlwaysAccepted(m) == req.ex

\* Status().Update: rejected if the request was written since it was read; a rejected
\* one is not patched either (SkipPatch).
UpdateAccepted(m) == req.ex /\ rec[m].current

\* publishVirtualMachine from the update.  An accepted update starts the goroutine that
\* calls the provider.
Update(m) ==
  /\ rec[m].pc = "update"
  /\ IF UpdateAccepted(m)
     THEN LET a == rec[m].obj.att IN
          /\ req' = rec[m].obj
          /\ late' = FALSE
          /\ calls' = calls \cup {<<m, a>>}
          /\ sent' = [sent EXCEPT ![a] = @ + 1]
          /\ rec' = [Outdated(rec, m) EXCEPT ![m] = Idle]
          /\ wake' = TRUE
     ELSE /\ rec' = [rec EXCEPT ![m] = Idle]
          /\ wake' = (wake \/ m = leader)
          /\ UNCHANGED <<reqVars, callVars>>
  /\ UNCHANGED <<envVars, vcVars, leader, dropped, faults>>

CompletedOnUpload(obj) ==
  IF obj.up = "True" THEN [obj EXCEPT !.comp = "True", !.ready = TRUE]
                     ELSE [obj EXCEPT !.comp = "False"]

\* checkIsComplete: the Complete condition and status.ready.
Completed(obj) ==
  IF obj.up = "True" /\ obj.img = "True" THEN [obj EXCEPT !.comp = "True", !.ready = TRUE]
                                         ELSE [obj EXCEPT !.comp = "False"]

\* What follows once the image has been looked up: updatePublishedItemDescription (not
\* for a template), then checkIsComplete.
AfterImage(obj) ==
  CASE obj.up # "True" \/ obj.img # "True" -> "patch"
    [] obj.up = "True" /\ obj.img = "True" /\ kind = "ContentLibrary" -> "describe"
    [] OTHER -> "ttl"

\* checkIsImageAvailable
Image(m) ==
  /\ rec[m].pc = "image"
  /\ LET obj  == rec[m].obj
         look == obj.up = "True" /\ obj.img # "True"
         id   == IF look /\ rec[m].id = 0 THEN UploadedItemID(obj.att) ELSE rec[m].id
         new  == IF look
                 THEN [obj EXCEPT !.img = IF image /\ item.by = id THEN "True" ELSE "NotFound"]
                 ELSE obj
         next == AfterImage(new)
     IN  \/ /\ look
            /\ \/ id = 0 /\ UNCHANGED faults   \* nothing is found
               \/ id # 0 /\ Fault              \* a request fails
            /\ Step(m, "patch", obj, 0, TRUE)
         \/ /\ ~look \/ id # 0
            /\ IF next = "describe" THEN Step(m, next, new, id, FALSE)
               ELSE Step(m, next, Completed(new), id, next = "patch" /\ Requeued(new))
            /\ UNCHANGED faults
  /\ UNCHANGED <<reqVars, envVars, vcVars, callVars, leader, dropped, wake>>

\* updatePublishedItemDescription takes the UID of the request out of the item's
\* description; then the request is complete.  The update may fail, before or after
\* vCenter has made it.
Describe(m) ==
  /\ rec[m].pc = "describe"
  /\ LET obj == rec[m].obj
         id  == IF rec[m].id = 0 THEN UploadedItemID(obj.att) ELSE rec[m].id
     IN  \/ /\ id = 0
            /\ Step(m, "patch", obj, 0, TRUE)
            /\ UNCHANGED <<item, faults>>
         \/ /\ id # 0
            /\ item' = [item EXCEPT !.tag = FALSE]
            /\ Step(m, "ttl", Completed(obj), id, FALSE)
            /\ UNCHANGED faults
         \/ /\ id # 0 /\ Fault
            /\ \/ UNCHANGED item
               \/ item' = [item EXCEPT !.tag = FALSE]
            /\ Step(m, "patch", obj, id, TRUE)
  /\ UNCHANGED <<reqVars, envVars, image, tasks, callVars, leader, dropped, wake>>

\* removeVMPubResourceFromCluster, before the patch.
Remove(m) ==
  /\ rec[m].pc = "ttl"
  /\ \/ /\ ttl /\ req.ex
        /\ req' = [req EXCEPT !.deleting = TRUE]
        /\ rec' = [Outdated(rec, m) EXCEPT ![m].pc = "patch"]
        /\ wake' = TRUE
        /\ UNCHANGED faults
     \/ /\ ttl /\ Fault
        /\ rec' = [rec EXCEPT ![m].pc = "patch", ![m].again = TRUE]
        /\ UNCHANGED <<req, wake>>
     \/ /\ ~ttl \/ ~req.ex
        /\ rec' = [rec EXCEPT ![m].pc = "patch", ![m].again = ~req.ex]
        /\ UNCHANGED <<req, wake, faults>>
  /\ UNCHANGED <<late, envVars, vcVars, callVars, leader, dropped>>

\* The deferred patch carries what the reconcile has changed and no resource version.
\* Metadata and status go in a request each; the conditions, one list, go together.
Conds == {"src", "tgt", "up", "img", "comp"}
Parts == {"metadata", "status"}
PartOf(f) == IF f \in {"fin", "quota"} THEN "metadata" ELSE "status"

\* The request once the given parts of w's patch have arrived.
Patched(w, parts) ==
  LET dirty == {f \in DOMAIN req : w.obj[f] # w.base[f]}
      carried == dirty \cup (IF dirty \cap Conds # {} THEN Conds ELSE {})
      new == [f \in DOMAIN req |-> IF f \in carried /\ PartOf(f) \in parts THEN w.obj[f] ELSE req[f]]
  IN  CASE ~req.ex                               -> req
        [] req.ex /\ new.deleting /\ ~new.fin    -> [NewRequest EXCEPT !.ex = FALSE]
        [] req.ex /\ ~(new.deleting /\ ~new.fin) -> new

\* ResultFromError: the reconcile has used up the attempts or the quota and returns a
\* TerminalError, which is not retried.
TerminalError(w) == w.obj.comp = "Fatal" /\ w.base.comp # "Fatal"

\* The patch may fail, before or after each part has arrived, and then the reconcile is
\* retried, unless its own error takes the place of the patch's and is a TerminalError.
Patch(m) ==
  /\ rec[m].pc = "patch"
  /\ \E parts \in SUBSET Parts, failed \in BOOLEAN :
       LET w == rec[m] IN
       /\ IF failed THEN w.obj # w.base
                    ELSE parts = Parts /\ (req.ex \/ w.obj = w.base)
       /\ IF failed /\ req.ex THEN Fault ELSE UNCHANGED faults
       /\ req' = Patched(w, parts)
       /\ rec' = [(IF req' # req THEN Outdated(rec, m) ELSE rec) EXCEPT ![m] = Idle]
       /\ wake' = (\/ wake \/ req' # req
                   \/ m = leader /\ (w.again \/ (failed /\ ~TerminalError(w))))
       /\ dropped' = IF m = leader THEN failed /\ TerminalError(w) ELSE dropped
  /\ UNCHANGED <<late, envVars, vcVars, callVars, leader>>

-----------------------------------------------------------------------------
(* The provider's call and vCenter. *)

\* PublishVirtualMachine, in its goroutine: vCenter takes the call or it fails.
Call(c) ==
  /\ c \in calls
  /\ calls' = calls \ {c}
  /\ \/ /\ tasks' = [tasks EXCEPT ![c[2]] = IF @ = "unsent" THEN "accepted" ELSE @]
        /\ UNCHANGED faults
     \/ Fault /\ UNCHANGED tasks
  /\ UNCHANGED <<reqVars, envVars, item, image, sent, leader, dropped, wake, rec>>

\* The task of attempt a is registered, or never is.
Register(a) ==
  /\ tasks[a] = "accepted"
  /\ \/ tasks' = [tasks EXCEPT ![a] = "running"] /\ UNCHANGED faults
     \/ tasks' = [tasks EXCEPT ![a] = "unsent"] /\ Fault
  /\ UNCHANGED <<reqVars, envVars, item, image, callVars, leader, dropped, wake, rec>>

\* The task ends.  It fails when the library has an item of that name; else CreateOVF and
\* CloneVM make one that carries the UID of the request.
Finish(a) ==
  /\ tasks[a] = "running"
  /\ \/ /\ ~item.ex
        /\ item' = [by |-> a, tag |-> TRUE, ex |-> TRUE]
        /\ \/ tasks' = [tasks EXCEPT ![a] = "success"] /\ UNCHANGED faults
           \/ tasks' = [tasks EXCEPT ![a] = "odd"] /\ Fault
     \/ /\ tasks' = [tasks EXCEPT ![a] = "error"]
        /\ IF item.ex THEN UNCHANGED faults ELSE Fault
        /\ UNCHANGED item
  /\ UNCHANGED <<reqVars, envVars, image, callVars, leader, dropped, wake, rec>>

\* The image registry makes the VirtualMachineImage of the item; the controller watches
\* it (vmiToVMPubMapperFn).
ImageAppears ==
  /\ item.ex /\ item.by # 0 /\ ~image
  /\ image' = TRUE /\ wake' = TRUE
  /\ UNCHANGED <<reqVars, envVars, item, tasks, callVars, leader, dropped, rec, faults>>

\* Somebody else makes an item of the same name.
Intruder ==
  /\ ~item.ex /\ Fault
  /\ item' = [by |-> 0, tag |-> FALSE, ex |-> TRUE]
  /\ UNCHANGED <<reqVars, envVars, image, tasks, callVars, leader, dropped, wake, rec>>

-----------------------------------------------------------------------------
(* The environment. *)

SourceAppears ==
  /\ source # "created"
  /\ source' = IF source = "missing" THEN "uncreated" ELSE "created"
  /\ UNCHANGED <<reqVars, library, kind, ttl, vcVars, callVars, leader, dropped, wake, rec, faults>>

LibraryAppears ==
  /\ library # "ready"
  /\ library' = IF library = "missing" THEN "unready" ELSE "ready"
  /\ UNCHANGED <<reqVars, source, kind, ttl, vcVars, callVars, leader, dropped, wake, rec, faults>>

\* waitForTaskTimeout passes.
Timeout ==
  /\ req.ex /\ req.att # 0 /\ ~late
  /\ late' = TRUE
  /\ UNCHANGED <<req, envVars, vcVars, callVars, leader, dropped, wake, rec, faults>>

\* The quota service answers.
QuotaChecked ==
  /\ req.ex /\ req.quota = "asked"
  /\ \E r \in {"passed", "failed"} : req' = [req EXCEPT !.quota = r]
  /\ rec' = Outdated(rec, "quota") /\ wake' = TRUE
  /\ UNCHANGED <<late, envVars, vcVars, callVars, leader, dropped, faults>>

\* The informers' resync.
Resync ==
  /\ req.ex /\ ~wake /\ \A m \in Manager : rec[m].pc = "idle"
  /\ wake' = TRUE
  /\ UNCHANGED <<reqVars, envVars, vcVars, callVars, leader, dropped, rec, faults>>

\* A user deletes the request.
Delete ==
  /\ req.ex /\ ~req.deleting /\ Fault
  /\ req' = IF req.fin THEN [req EXCEPT !.deleting = TRUE] ELSE [NewRequest EXCEPT !.ex = FALSE]
  /\ rec' = Outdated(rec, "user") /\ wake' = TRUE
  /\ UNCHANGED <<late, envVars, vcVars, callVars, leader, dropped>>

\* Another manager becomes leader and queues all requests; the former one's reconcile
\* and goroutines go on.
Takeover ==
  /\ Fault
  /\ \E m \in Manager \ {leader} : rec[m].pc = "idle" /\ leader' = m
  /\ wake' = TRUE
  /\ UNCHANGED <<reqVars, envVars, vcVars, callVars, dropped, rec>>

\* A manager's process ends, with its reconcile and its goroutines, and starts again.
Crash(m) ==
  /\ rec[m].pc # "idle" \/ \E c \in calls : c[1] = m
  /\ Fault
  /\ rec' = [rec EXCEPT ![m] = Idle]
  /\ calls' = {c \in calls : c[1] # m}
  /\ wake' = (wake \/ m = leader)
  /\ UNCHANGED <<reqVars, envVars, vcVars, sent, leader, dropped>>

-----------------------------------------------------------------------------
Work(m) == \/ Reconcile(m) \/ CheckTask(m) \/ Publish(m) \/ Update(m)
           \/ Image(m) \/ Describe(m) \/ Remove(m) \/ Patch(m)
VCenter == \/ \E c \in calls : Call(c)
           \/ \E a \in Attempts : Register(a) \/ Finish(a)
           \/ ImageAppears
Next == \/ \E m \in Manager : Work(m) \/ Crash(m)
        \/ VCenter \/ Intruder \/ SourceAppears \/ LibraryAppears \/ Timeout \/ QuotaChecked
        \/ Resync \/ Delete \/ Takeover

Spec == Init /\ [][Next]_vars

\* The work queue hands out what it holds and a reconcile runs to its end; a call, a task
\* and a timer come to theirs; the source VM is created, the library gets ready, and the
\* quota service answers.  Informers resync every 30 minutes.
Fairness ==
  /\ \A m \in Manager : WF_vars(Work(m))
  /\ WF_vars(VCenter) /\ WF_vars(SourceAppears) /\ WF_vars(LibraryAppears)
  /\ WF_vars(Timeout) /\ WF_vars(QuotaChecked) /\ WF_vars(Resync)
FairSpec == Spec /\ Fairness

-----------------------------------------------------------------------------
(* Properties. *)

\* No two calls are made with one activation ID, not even by two managers: an attempt
\* gets its number in an update the API server rejects when it is based on an old
\* request.  (A comment in getPublishRequestTask relies on it.)
OneTaskPerActID == \A a \in Attempts : sent[a] <= 1

\* A request that reports itself ready has left an item of its own in the library, and
\* the image of that item is in the cluster; a foreign item of the same name, a failed or
\* late attempt, or an upload whose image is not there yet does not make it ready.
ReadyIsPublished == req.ready => item.ex /\ item.by # 0 /\ image

\* The item was made by an attempt that is not the latest, and does not say so any more.
Untraceable == item.ex /\ item.by # 0 /\ ~item.tag /\ item.by # req.att

\* The ends of a request: ready; out of attempts or of quota; a foreign item; a task whose
\* result cannot be read.
Terminal == \/ req.ready /\ req.comp = "True" /\ ~ttl
            \/ req.comp = "Fatal"
            \/ req.tgt = "ItemAlreadyExists" /\ item.by = 0
            \/ req.att # 0 /\ tasks[req.att] = "odd"

\* The one other state the controller does not leave: the description was updated and
\* the status that says so was not patched, so that the item cannot be found again (or
\* passes for a foreign one).
Lost == Untraceable /\ (req.up = "True" \/ req.tgt = "ItemAlreadyExists")

\* No reconcile runs and none is due.
AtRest == ~wake /\ \A m \in Manager : rec[m].pc = "idle"

\* The controller does not fall asleep over a request: when no reconcile runs and none is
\* due, the request is at an end, waits for its quota, or is thought to have met a foreign
\* item (which a former leader's patch can make of an own one: only the resync helps).  The
\* one exception is a patch that fails behind a terminal error: that the request is out of
\* attempts or of quota is then not recorded, and nothing but the resync comes back to it.
NoLostWakeup ==
  AtRest /\ req.ex => /\ ~req.deleting
                      /\ \/ Terminal \/ req.quota = "asked" \/ req.tgt = "ItemAlreadyExists"
                         \/ dropped

\* Whatever call is lost, task is late, patch fails, process ends or is overtaken by
\* another: a request that is deleted goes away, and every other one comes to one of its
\* ends, or is Lost.
Settles == <>[](~req.ex \/ (~req.deleting /\ (Terminal \/ Lost)))

-----------------------------------------------------------------------------
(* What makes the properties above inductive. *)

Busy(m) == rec[m].pc # "idle"

\* The request, or a copy of it, says that there is an image only if there is.
Founded(r) == r.img = "True" \/ r.ready => item.ex /\ item.by # 0 /\ image

\* No call is made with a number beyond that of the request's attempts, and a request
\* that is being deleted has its finalizer.
RequestSound ==
  /\ \A a \in Attempts : req.ex /\ a > req.att => sent[a] = 0
  /\ req.ex /\ req.deleting => req.fin
  /\ Founded(req) /\ (item.by # 0 => item.ex)

\* The request r needs no further reconcile.
Ended(r) ==
  /\ ~r.deleting
  /\ \/ r.ready /\ r.comp = "True" /\ ~ttl
     \/ r.comp = "Fatal" \/ r.quota = "asked" \/ r.tgt = "ItemAlreadyExists"
     \/ r.att # 0 /\ tasks[r.att] = "odd"

\* Until its last step, a reconcile that is not out of date has read the request as it
\* is; only the update raises the number of attempts.
Numbered(m) ==
  /\ rec[m].current /\ rec[m].pc # "patch" => rec[m].base = req
  /\ rec[m].obj.att = rec[m].base.att + (IF rec[m].pc = "update" THEN 1 ELSE 0)

\* The finalizer goes only from a request that is being deleted, and with it the request;
\* neither a deletion nor the finalizer is taken back.
Finalized(m) ==
  LET w == rec[m] IN
  /\ w.base.ex /\ w.obj.ex /\ w.obj.deleting = w.base.deleting
  /\ w.pc # "patch" => w.base.fin /\ ~w.base.deleting
  /\ w.base.deleting => w.base.fin /\ w.obj.comp = w.base.comp
  /\ ~w.obj.fin <=> w.base.deleting
  /\ req.ex /\ w.base.deleting => req.deleting
  /\ req.ex /\ w.base.fin => req.fin

\* A reconcile that neither changes the request nor asks for another one has found it at
\* an end, or has deleted it.
Accounted(m) ==
  LET w == rec[m] IN
  /\ w.pc = "image" /\ w.obj.up = "ItemIDInvalid" => w.obj.att # 0 /\ tasks[w.obj.att] = "odd"
  /\ w.pc = "describe" => w.obj.up = "True" /\ w.obj.img = "True"
  /\ w.pc = "ttl" => w.obj.ready /\ w.obj.comp = "True"
  /\ w.pc = "patch" /\ ~w.again /\ w.obj = w.base
     => Ended(w.base) \/ (~w.base.deleting /\ (req.ex => req.deleting))

ReconcileSound(m) ==
  /\ Founded(rec[m].base) /\ Founded(rec[m].obj)
  /\ Busy(m) => Numbered(m) /\ Finalized(m) /\ Accounted(m)

\* The request is queued, or the leader has read it as it is, or needs not read it, or
\* keeps quiet about a failed patch.
Attended ==
  ~wake => IF Busy(leader) THEN rec[leader].base = req
                           ELSE req.ex => Ended(req) \/ (dropped /\ ~req.deleting)

Inductive ==
  /\ TypeOK /\ OneTaskPerActID /\ RequestSound
  /\ (\A m \in Manager : ReconcileSound(m)) /\ Attended
=============================================================================
