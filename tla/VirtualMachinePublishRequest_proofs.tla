---------------- MODULE VirtualMachinePublishRequest_proofs ----------------
(***************************************************************************)
(* Proofs about VirtualMachinePublishRequest, for every number of managers *)
(* and of attempts, every limit on these, and any number of faults.        *)
(***************************************************************************)
EXTENDS VirtualMachinePublishRequest, TLAPS

-----------------------------------------------------------------------------
(* The operators the steps are built from. *)

\* An attempt is a number.
LEMMA AttemptsNat == \A a \in {0} \cup Attempts : a \in Nat
BY PublishAssumption DEF Attempts

\* The limit allows the next attempt.
LEMMA NextAttempt ==
  ASSUME NEW a \in Nat, a < MaxAttempts, ~LimitReached(a)
  PROVE  a + 1 \in Attempts
BY PublishAssumption DEF Attempts, LimitReached

\* The fields of a request.
LEMMA RequestFields ==
  ASSUME NEW r \in Request
  PROVE  /\ r.ex \in BOOLEAN /\ r.deleting \in BOOLEAN /\ r.fin \in BOOLEAN /\ r.ready \in BOOLEAN
         /\ r.att \in {0} \cup Attempts /\ r.att \in Nat
         /\ DOMAIN r = {"ex", "deleting", "fin", "quota", "att", "src", "tgt", "up", "img", "comp", "ready"}
<1>1. r.att \in {0} \cup Attempts
  BY DEF Request
<1>2. r.att \in Nat
  BY <1>1, AttemptsNat
<1> QED
  BY <1>1, <1>2 DEF Request

LEMMA NewRequestType ==
  NewRequest \in Request /\ [NewRequest EXCEPT !.ex = FALSE] \in Request /\ Idle \in Rec
<1>1. NewRequest \in Request /\ [NewRequest EXCEPT !.ex = FALSE] \in Request
  BY DEF NewRequest, Request
<1> QED
  BY <1>1 DEF Idle, Rec

\* A step of a reconcile changes only what it names.
LEMMA StepEffect ==
  ASSUME rec \in [Manager -> Rec], NEW m \in Manager,
         NEW pc \in {"idle", "task", "publish", "update", "image", "describe", "ttl", "patch"},
         NEW obj \in Request, NEW id \in {0} \cup Attempts, NEW again \in BOOLEAN,
         Step(m, pc, obj, id, again)
  PROVE  /\ rec' \in [Manager -> Rec]
         /\ rec'[m].pc = pc /\ rec'[m].obj = obj /\ rec'[m].again = again
         /\ rec'[m].base = rec[m].base /\ rec'[m].current = rec[m].current
         /\ \A n \in Manager \ {m} : rec'[n] = rec[n]
<1>1. rec[m] \in Rec
  OBVIOUS
<1> DEFINE w == [rec[m] EXCEPT !.pc = pc, !.obj = obj, !.id = id, !.again = again]
<1>2. /\ w \in Rec /\ w.pc = pc /\ w.obj = obj /\ w.again = again
      /\ w.base = rec[m].base /\ w.current = rec[m].current
  BY <1>1 DEF Rec
<1>3. rec' = [rec EXCEPT ![m] = w]
  BY DEF Step
<1> HIDE DEF w
<1> QED
  BY <1>2, <1>3

\* A write of the request leaves every reconcile as it is, but out of date.
LEMMA OutdatedEffect ==
  ASSUME rec \in [Manager -> Rec], NEW by
  PROVE  /\ Outdated(rec, by) \in [Manager -> Rec]
         /\ \A n \in Manager :
              LET w == Outdated(rec, by)[n] IN
              /\ w.pc = rec[n].pc /\ w.base = rec[n].base /\ w.obj = rec[n].obj
              /\ w.again = rec[n].again
              /\ w.current => rec[n].current /\ (n = by \/ rec[n].pc = "idle")
<1>1. ASSUME NEW n \in Manager
      PROVE  LET w == [rec[n] EXCEPT !.current = @ /\ (n = by \/ rec[n].pc = "idle")] IN
             /\ w \in Rec /\ w.pc = rec[n].pc /\ w.base = rec[n].base /\ w.obj = rec[n].obj
             /\ w.again = rec[n].again
             /\ w.current => rec[n].current /\ (n = by \/ rec[n].pc = "idle")
  <2>1. rec[n] \in Rec
    OBVIOUS
  <2> QED
    BY <2>1 DEF Rec
<1> QED
  BY <1>1 DEF Outdated

\* What the parts of a patch that arrive make of the request.
LEMMA PatchedEffect ==
  ASSUME req \in Request, NEW w \in Rec, NEW parts \in SUBSET Parts, req.ex,
         w.obj.ex = w.base.ex, w.obj.deleting = w.base.deleting, w.obj.att = w.base.att
  PROVE  \/ Patched(w, parts) = [NewRequest EXCEPT !.ex = FALSE]
         \/ LET new == Patched(w, parts) IN
            /\ new \in Request /\ new.ex /\ new.deleting = req.deleting /\ new.att = req.att
            /\ new.fin = req.fin \/ (w.obj.fin # w.base.fin /\ new.fin = w.obj.fin)
            /\ new.deleting => new.fin
            /\ new.img \in {w.obj.img, req.img} /\ new.ready \in {w.obj.ready, req.ready}
            /\ w.base = req /\ parts = Parts => new = w.obj
<1> DEFINE dirty == {f \in DOMAIN req : w.obj[f] # w.base[f]}
           carried == dirty \cup (IF dirty \cap Conds # {} THEN Conds ELSE {})
           new == [f \in DOMAIN req |-> IF f \in carried /\ PartOf(f) \in parts THEN w.obj[f] ELSE req[f]]
<1>1. /\ DOMAIN req = {"ex", "deleting", "fin", "quota", "att", "src", "tgt", "up", "img", "comp", "ready"}
      /\ w.obj \in Request /\ w.base \in Request
  BY RequestFields DEF Rec
<1>2. /\ new \in Request /\ new.ex = req.ex /\ new.deleting = req.deleting /\ new.att = req.att
      /\ new.fin = req.fin \/ (w.obj.fin # w.base.fin /\ new.fin = w.obj.fin)
      /\ new.img \in {w.obj.img, req.img} /\ new.ready \in {w.obj.ready, req.ready}
  <2>1. \A f \in DOMAIN req : new[f] = req[f] \/ (f \in carried /\ new[f] = w.obj[f])
    OBVIOUS
  <2>2. \A f \in {"ex", "deleting", "fin", "att", "ready"} : f \in carried => w.obj[f] # w.base[f]
    BY DEF Conds
  <2>3. DOMAIN new = DOMAIN req /\ new = [f \in DOMAIN new |-> new[f]]
    OBVIOUS
  <2> HIDE DEF new, carried
  <2>4. \A f \in DOMAIN req : new[f] \in {req[f], w.obj[f]}
    BY <2>1
  <2>5. new = [ex |-> new.ex, deleting |-> new.deleting, fin |-> new.fin, quota |-> new.quota,
               att |-> new.att, src |-> new.src, tgt |-> new.tgt, up |-> new.up, img |-> new.img,
               comp |-> new.comp, ready |-> new.ready]
    BY <1>1, <2>3
  <2>6. new \in Request
    BY <1>1, <2>4, <2>5 DEF Request
  <2>7. new.ex = req.ex /\ new.deleting = req.deleting /\ new.att = req.att
    BY <1>1, <2>1, <2>2
  <2>8. new.fin = req.fin \/ (w.obj.fin # w.base.fin /\ new.fin = w.obj.fin)
    BY <1>1, <2>1, <2>2
  <2>9. new.img \in {w.obj.img, req.img} /\ new.ready \in {w.obj.ready, req.ready}
    BY <1>1, <2>4
  <2> QED
    BY <2>6, <2>7, <2>8, <2>9
<1>3. w.base = req /\ parts = Parts => new = w.obj
  BY <1>1 DEF Request, Parts, PartOf
<1>4. Patched(w, parts) = IF new.deleting /\ ~new.fin THEN [NewRequest EXCEPT !.ex = FALSE] ELSE new
  BY DEF Patched
<1> HIDE DEF new
<1>5. new.deleting \in BOOLEAN /\ new.fin \in BOOLEAN
  BY <1>2, RequestFields
<1> QED
  BY <1>2, <1>3, <1>4, <1>5

-----------------------------------------------------------------------------
(* What every step does to the reconciles it does not take part in. *)

\* No step takes back a deletion, a finalizer, the end of a task or an image.
Onward ==
  /\ req'.ex => req.ex /\ (req.deleting => req'.deleting) /\ (req.fin => req'.fin)
  /\ \A a \in Attempts : tasks[a] = "odd" => tasks'[a] = "odd"
  /\ item.ex /\ item.by # 0 /\ image => item'.ex /\ item'.by # 0 /\ image'
  /\ ttl' = ttl

\* What reconciles are kept in stays sound.
LEMMA Kept ==
  ASSUME TypeOK, Onward, NEW n \in Manager, ReconcileSound(n),
         rec'[n].pc = rec[n].pc, rec'[n].base = rec[n].base, rec'[n].obj = rec[n].obj,
         rec'[n].again = rec[n].again, rec'[n].current => rec[n].current,
         Busy(n) /\ rec'[n].current => req' = req
  PROVE  ReconcileSound(n)'
<1>0. rec[n] \in Rec /\ rec[n].obj \in Request /\ rec[n].base \in Request
  BY DEF TypeOK, Rec
<1>1. Founded(rec[n].base)' /\ Founded(rec[n].obj)'
  BY DEF ReconcileSound, Founded, Onward
<1>2. Busy(n)' = Busy(n)
  BY DEF Busy
<1>3. ASSUME Busy(n) PROVE Numbered(n)'
  BY <1>3 DEF ReconcileSound, Numbered, Onward
<1>4. ASSUME Busy(n) PROVE Finalized(n)'
  BY <1>4 DEF ReconcileSound, Finalized, Onward
<1>5. ASSUME Busy(n) PROVE Accounted(n)'
  <2>1. \A r \in Request : Ended(r) => Ended(r)'
    BY RequestFields DEF Ended, Onward
  <2>2. rec[n].obj.att \in {0} \cup Attempts
    BY <1>0, RequestFields
  <2>3. Accounted(n)
    BY <1>5 DEF ReconcileSound
  <2>4. rec[n].pc = "patch" /\ ~rec[n].again /\ rec[n].obj = rec[n].base
        => Ended(rec[n].base)' \/ (~rec[n].base.deleting /\ (req'.ex => req'.deleting))
    BY <1>0, <2>1, <2>3 DEF Accounted, Onward
  <2>5. rec[n].pc = "image" /\ rec[n].obj.up = "ItemIDInvalid"
        => rec[n].obj.att # 0 /\ tasks'[rec[n].obj.att] = "odd"
    BY <2>2, <2>3 DEF Accounted, Onward
  <2> QED
    BY <2>3, <2>4, <2>5 DEF Accounted, Ended
<1> QED
  BY <1>1, <1>2, <1>3, <1>4, <1>5 DEF ReconcileSound

\* A reconcile that is over is sound.
LEMMA IdleSound ==
  ASSUME NEW n \in Manager, rec'[n] = Idle
  PROVE  ReconcileSound(n)'
BY DEF ReconcileSound, Founded, Busy, Idle, NewRequest

\* A step that neither writes the request nor is the leader's leaves it attended.
LEMMA AttendedKept ==
  ASSUME TypeOK, Onward, Attended, UNCHANGED <<req, leader, dropped>>, ~wake' => ~wake,
         Busy(leader)' <=> Busy(leader), rec'[leader].base = rec[leader].base
  PROVE  Attended'
<1>1. Ended(req) => Ended(req)'
  BY RequestFields DEF Ended, Onward, TypeOK
<1> QED
  BY <1>1 DEF Attended

\* The parts of the request's soundness that only a write or a call can disturb.
LEMMA RequestKept ==
  ASSUME TypeOK, Onward, RequestSound, UNCHANGED <<req, sent>>, item'.by # 0 => item'.ex
  PROVE  RequestSound'
BY DEF RequestSound, Founded, Onward

-----------------------------------------------------------------------------
(* The reconcile, up to the calls that change something. *)

\* A reconcile that goes on, in any state but the last two, and writes nothing.
LEMMA LocalStep ==
  ASSUME Inductive, NEW m \in Manager, rec[m].pc \in {"task", "publish", "image", "describe"},
         NEW pc \in {"publish", "update", "image", "describe", "ttl", "patch"},
         NEW obj \in Request, NEW id \in {0} \cup Attempts, NEW again \in BOOLEAN,
         Step(m, pc, obj, id, again),
         UNCHANGED <<reqVars, envVars, image, tasks, callVars, leader, dropped, wake>>,
         faults' \in 0..MaxFaults, item' \in {item, [item EXCEPT !.tag = FALSE]},
         obj.ex = rec[m].obj.ex, obj.deleting = rec[m].obj.deleting, obj.fin = rec[m].obj.fin,
         obj.att = rec[m].obj.att + (IF pc = "update" THEN 1 ELSE 0), Founded(obj),
         pc = "image" /\ obj.up = "ItemIDInvalid" => obj.att # 0 /\ tasks[obj.att] = "odd",
         pc = "describe" => obj.up = "True" /\ obj.img = "True",
         pc = "ttl" => obj.ready /\ obj.comp = "True",
         pc = "patch" /\ ~again /\ obj = rec[m].base => Ended(rec[m].base)
  PROVE  Inductive'
<1>0. /\ rec \in [Manager -> Rec] /\ rec[m] \in Rec /\ TypeOK
      /\ item \in [by: {0} \cup Attempts, tag: BOOLEAN, ex: BOOLEAN]
  BY DEF Inductive, TypeOK
<1>1. /\ rec' \in [Manager -> Rec] /\ rec'[m].pc = pc /\ rec'[m].obj = obj /\ rec'[m].again = again
      /\ rec'[m].base = rec[m].base /\ rec'[m].current = rec[m].current
      /\ \A n \in Manager \ {m} : rec'[n] = rec[n]
  <2>1. pc \in {"idle", "task", "publish", "update", "image", "describe", "ttl", "patch"}
    OBVIOUS
  <2> QED
    BY <1>0, <2>1, StepEffect
<1>2. /\ item'.by = item.by /\ item'.ex = item.ex
      /\ item' \in [by: {0} \cup Attempts, tag: BOOLEAN, ex: BOOLEAN]
  BY <1>0
<1>3. UNCHANGED <<req, late, source, library, kind, ttl, image, tasks, calls, sent, leader, dropped, wake>>
  BY DEF reqVars, envVars, callVars
<1>4. Onward
  BY <1>2, <1>3 DEF Onward
<1>5. TypeOK'
  BY <1>0, <1>1, <1>2, <1>3 DEF TypeOK
<1>6. ReconcileSound(m)'
  <2>1. ReconcileSound(m) /\ Busy(m)
    BY DEF Inductive, Busy
  <2>2. Founded(rec[m].base)' /\ Founded(rec[m].obj)'
    BY <1>1, <1>2, <1>3, <2>1 DEF ReconcileSound, Founded
  <2>3. Numbered(m)'
    <3>1. rec[m].base.att \in Nat /\ rec[m].obj.att \in Nat
      BY <1>0, RequestFields DEF Rec
    <3> QED
      BY <1>1, <1>3, <2>1, <3>1 DEF ReconcileSound, Numbered
  <2>4. Finalized(m)'
    BY <1>1, <1>3, <2>1 DEF ReconcileSound, Finalized
  <2>5. Accounted(m)'
    <3>1. Ended(rec[m].base) => Ended(rec[m].base)'
      BY <1>1, <1>3 DEF Ended
    <3> QED
      BY <1>1, <1>3, <3>1 DEF Accounted
  <2> QED
    BY <2>2, <2>3, <2>4, <2>5 DEF ReconcileSound
<1>7. ASSUME NEW n \in Manager \ {m} PROVE ReconcileSound(n)'
  <2>1. ReconcileSound(n)
    BY DEF Inductive
  <2> QED
    BY <1>0, <1>1, <1>3, <1>4, <2>1, Kept
<1>8. Attended'
  <2>1. leader \in Manager /\ Attended
    BY <1>0 DEF TypeOK, Inductive
  <2>2. (Busy(leader)' <=> Busy(leader)) /\ rec'[leader].base = rec[leader].base
    BY <1>1, <1>3, <2>1 DEF Busy
  <2> QED
    BY <1>0, <1>3, <1>4, <2>1, <2>2, AttendedKept
<1>9. RequestSound'
  BY <1>0, <1>2, <1>3, <1>4, RequestKept DEF Inductive, RequestSound
<1> QED
  BY <1>3, <1>5, <1>6, <1>7, <1>8, <1>9 DEF Inductive, OneTaskPerActID

\* Reconcile reads the request as it is.
LEMMA InductiveReconcile ==
  ASSUME Inductive, NEW m \in Manager, Reconcile(m)
  PROVE  Inductive'
<1> DEFINE w == rec'[m]
           start(pc, obj, again) ==
             [pc |-> pc, base |-> req, obj |-> obj, id |-> 0, current |-> TRUE, again |-> again]
<1>0. /\ rec \in [Manager -> Rec] /\ req \in Request /\ TypeOK /\ RequestSound
      /\ m = leader /\ wake' = FALSE /\ dropped' = FALSE
      /\ UNCHANGED <<req, late, source, library, kind, ttl, item, image, tasks, calls, sent, leader, faults>>
  BY DEF Inductive, TypeOK, Reconcile, reqVars, envVars, vcVars, callVars
<1>1. \/ w = Idle /\ (req.ex => Ended(req))
      \/ req.ex /\ req.deleting /\ w = start("patch", [req EXCEPT !.fin = FALSE], FALSE)
      \/ req.ex /\ ~req.deleting /\ ~req.fin /\ w = start("patch", [req EXCEPT !.fin = TRUE], FALSE)
      \/ req.ex /\ ~req.deleting /\ req.fin /\ req.ready /\ req.comp = "True" /\ w = start("ttl", req, FALSE)
      \/ req.ex /\ ~req.deleting /\ req.fin /\ w = start("patch", [req EXCEPT !.tgt = "Invalid"], TRUE)
      \/ req.ex /\ ~req.deleting /\ req.fin /\ w = start("task", req, FALSE)
  BY <1>0 DEF Reconcile, Ended
<1>2. \A n \in Manager \ {m} : rec'[n] = rec[n]
  BY <1>0 DEF Reconcile
<1>3. rec' = [rec EXCEPT ![m] = w]
  BY <1>0 DEF Reconcile
<1> HIDE DEF w
<1>4. w \in Rec
  <2>1. /\ [req EXCEPT !.fin = FALSE] \in Request /\ [req EXCEPT !.fin = TRUE] \in Request
        /\ [req EXCEPT !.tgt = "Invalid"] \in Request
    BY <1>0 DEF Request
  <2>2. ASSUME NEW pc \in {"patch", "ttl", "task"}, NEW obj \in Request, NEW again \in BOOLEAN
        PROVE  start(pc, obj, again) \in Rec
    BY <1>0 DEF Rec
  <2> HIDE DEF start
  <2> QED
    BY <1>0, <1>1, <2>1, <2>2, NewRequestType
<1>5. TypeOK'
  BY <1>0, <1>3, <1>4 DEF TypeOK
<1>6. Onward
  BY <1>0 DEF Onward
<1>7. ReconcileSound(m)'
  <2>1. CASE w = Idle
    BY <2>1, IdleSound DEF w
  <2>2. ASSUME w # Idle
        PROVE  /\ w.pc \in {"patch", "ttl", "task"} /\ w.base = req
               /\ w.obj.att = req.att /\ w.obj.ex /\ req.ex /\ w.obj.deleting = req.deleting
               /\ w.obj.img = req.img /\ w.obj.ready = req.ready /\ w.obj.comp = req.comp
               /\ w.pc # "patch" => req.fin /\ ~req.deleting
               /\ w.obj.fin <=> ~req.deleting
               /\ w.pc = "ttl" => w.obj.ready /\ w.obj.comp = "True"
               /\ w.pc = "patch" => w.again \/ w.obj.fin # req.fin
    <3>1. req.ex /\ req.deleting => req.fin
      BY <1>0 DEF RequestSound
    <3> QED
      BY <1>0, <1>1, <2>2, <3>1 DEF Request
  <2>3. CASE w # Idle
    <3>1. Founded(rec[m].base)' /\ Founded(rec[m].obj)'
      BY <1>0, <2>2, <2>3 DEF Founded, RequestSound, w
    <3>2. Numbered(m)'
      <4>1. req.att \in Nat
        BY <1>0, RequestFields
      <4> QED
        BY <1>0, <2>2, <2>3, <4>1 DEF Numbered, w
    <3>3. Finalized(m)'
      BY <1>0, <2>2, <2>3 DEF Finalized, RequestSound, w
    <3>4. Accounted(m)'
      BY <1>0, <2>2, <2>3 DEF Accounted, w
    <3> QED
      BY <3>1, <3>2, <3>3, <3>4 DEF ReconcileSound
  <2> QED
    BY <2>1, <2>3
<1>8. ASSUME NEW n \in Manager \ {m} PROVE ReconcileSound(n)'
  BY <1>0, <1>2, <1>6, Kept DEF Inductive
<1>9. Attended'
  <2>1. w = Idle => ~Busy(m)' /\ (req'.ex => Ended(req)')
    BY <1>0, <1>1 DEF Busy, Idle, Ended, w
  <2>2. w # Idle => w.base = req /\ Busy(m)'
    BY <1>0, <1>1 DEF Busy, w
  <2> QED
    BY <1>0, <2>1, <2>2 DEF Attended, w
<1>10. RequestSound' /\ OneTaskPerActID'
  BY <1>0, <1>6, RequestKept DEF Inductive, OneTaskPerActID, RequestSound
<1> QED
  BY <1>5, <1>7, <1>8, <1>9, <1>10 DEF Inductive

\* A fault is counted within its bound.
LEMMA FaultType ==
  ASSUME TypeOK, Fault \/ UNCHANGED faults
  PROVE  faults' \in 0..MaxFaults
BY PublishAssumption DEF Fault, TypeOK

\* CheckTask asks for a retry only of what can be retried.
LEMMA InductiveCheckTask ==
  ASSUME Inductive, NEW m \in Manager, CheckTask(m)
  PROVE  Inductive'
<1> DEFINE obj == rec[m].obj
           r   == Republish(obj)
           new == [obj EXCEPT !.up = r.up]
           id  == IF obj.up # "True" /\ r.up = "True" THEN obj.att ELSE 0
<1>0. /\ TypeOK /\ rec[m] \in Rec /\ obj \in Request /\ rec[m].pc = "task" /\ item' = item
      /\ UNCHANGED <<reqVars, envVars, image, tasks, callVars, leader, dropped, wake>>
  BY DEF Inductive, TypeOK, Rec, CheckTask, vcVars
<1>1. obj.att \in {0} \cup Attempts /\ obj.att \in Nat /\ tasks \in [Attempts -> TaskState] /\ Founded(obj)
  BY <1>0, RequestFields DEF TypeOK, Inductive, ReconcileSound
<1>2. /\ r.pc \in {"image", "publish"} /\ r.up \in {"unset", "True", "InProgress", "Failed", "ItemIDInvalid"}
      /\ r.pc = "image" /\ r.up = "ItemIDInvalid" => obj.att # 0 /\ tasks[obj.att] = "odd"
  BY <1>0, <1>1 DEF Republish, Shown, TaskState, Request
<1>3. /\ new \in Request /\ new.ex = obj.ex /\ new.deleting = obj.deleting /\ new.fin = obj.fin
      /\ new.att = obj.att /\ new.img = obj.img /\ new.ready = obj.ready /\ new.up = r.up
  BY <1>0, <1>2 DEF Request
<1>4. Founded(new) /\ id \in {0} \cup Attempts
  BY <1>1, <1>3 DEF Founded
<1>5. \/ Step(m, r.pc, new, id, FALSE) /\ UNCHANGED faults
      \/ Step(m, "patch", obj, 0, TRUE) /\ Fault
  BY DEF CheckTask
<1>6. faults' \in 0..MaxFaults
  BY <1>0, <1>5, FaultType
<1>7. CASE Step(m, r.pc, new, id, FALSE)
  <2>1. new.att = rec[m].obj.att + (IF r.pc = "update" THEN 1 ELSE 0)
    BY <1>1, <1>2, <1>3
  <2> HIDE DEF r, new, id
  <2> QED
    BY <1>0, <1>2, <1>3, <1>4, <1>6, <1>7, <2>1, LocalStep
<1>8. CASE Step(m, "patch", obj, 0, TRUE)
  <2>1. obj.att = rec[m].obj.att + 0
    BY <1>1
  <2> QED
    BY <1>0, <1>1, <1>6, <1>8, <2>1, LocalStep
<1> QED
  BY <1>5, <1>7, <1>8

\* Publish stops only at an end of the request.
LEMMA InductivePublish ==
  ASSUME Inductive, NEW m \in Manager, Publish(m)
  PROVE  Inductive'
<1> DEFINE obj == [rec[m].obj EXCEPT !.src = IF source = "created" THEN "True" ELSE "Invalid"]
           q   == IF kind = "Inventory" THEN Quota(obj) ELSE [go |-> TRUE, obj |-> obj]
           ok  == [q.obj EXCEPT !.tgt = "True"]
           dup == [q.obj EXCEPT !.tgt = "ItemAlreadyExists"]
           Alike(n) == /\ n \in Request /\ n.ex = rec[m].obj.ex /\ n.deleting = rec[m].obj.deleting
                       /\ n.fin = rec[m].obj.fin /\ n.img = rec[m].obj.img /\ n.ready = rec[m].obj.ready
<1>0. /\ TypeOK /\ rec[m] \in Rec /\ rec[m].obj \in Request /\ rec[m].pc = "publish" /\ item' = item
      /\ UNCHANGED <<reqVars, envVars, image, tasks, callVars, leader, dropped, wake, faults>>
      /\ item \in [by: {0} \cup Attempts, tag: BOOLEAN, ex: BOOLEAN]
  BY DEF Inductive, TypeOK, Rec, Publish, vcVars
<1>1. Founded(rec[m].obj) /\ Finalized(m) /\ faults' \in 0..MaxFaults
  BY <1>0, FaultType DEF Inductive, ReconcileSound, Busy
<1>2. Alike(obj) /\ obj.att = rec[m].obj.att
  BY <1>0 DEF Request
<1>3. /\ Alike(q.obj) /\ q.obj.att = rec[m].obj.att /\ q.go \in BOOLEAN
      /\ ~q.go => q.obj.quota = "asked" \/ q.obj.comp = "Fatal"
  <2>1. obj.quota \in {"none", "asked", "passed", "failed"}
    BY <1>2 DEF Request
  <2> HIDE DEF obj
  <2>2. CASE kind # "Inventory"
    BY <1>2, <2>2
  <2>3. CASE kind = "Inventory" /\ obj.quota = "none"
    BY <1>2, <2>3 DEF Quota, Request
  <2>4. CASE kind = "Inventory" /\ obj.quota = "failed"
    BY <1>2, <2>4 DEF Quota, Request
  <2>5. CASE kind = "Inventory" /\ obj.quota \in {"asked", "passed"}
    BY <1>2, <2>5 DEF Quota
  <2> QED
    BY <2>1, <2>2, <2>3, <2>4, <2>5
<1>4. ~rec[m].base.deleting
  BY <1>0, <1>1 DEF Finalized
<1> HIDE DEF obj, q
<1>5. Alike(ok) /\ ok.att = rec[m].obj.att
  BY <1>3 DEF Request
<1>6. Alike(dup) /\ dup.att = rec[m].obj.att /\ dup.tgt = "ItemAlreadyExists" /\ Requeued(dup) = FALSE
  BY <1>3 DEF Request, Requeued
<1>7. obj.att \in {0} \cup Attempts /\ obj.att \in Nat
  BY <1>0, <1>2, RequestFields
<1> DEFINE inv == [obj EXCEPT !.tgt = "Invalid"]
           own == [ok EXCEPT !.up = "True"]
           fatal == [ok EXCEPT !.comp = "Fatal"]
           up == [ok EXCEPT !.att = @ + 1]
<1>8. \/ Step(m, "patch", obj, 0, TRUE)
      \/ Step(m, "patch", inv, 0, TRUE)
      \/ ~q.go /\ Step(m, "patch", q.obj, 0, FALSE)
      \/ Step(m, "patch", own, item.by, TRUE)
      \/ Step(m, "patch", dup, 0, Requeued(dup))
      \/ Step(m, "patch", fatal, 0, FALSE)
      \/ /\ ~LimitReached(obj.att) /\ obj.att < MaxAttempts
         /\ Step(m, "update", up, 0, TRUE)
  BY Zenon DEF Publish, obj, q
<1> HIDE DEF ok, dup
<1>9. Alike(inv) /\ inv.att = rec[m].obj.att
  BY <1>2 DEF Request
<1>10. Alike(own) /\ own.att = rec[m].obj.att
  BY <1>5 DEF Request
<1>11. Alike(fatal) /\ fatal.att = rec[m].obj.att /\ fatal.comp = "Fatal"
  BY <1>5 DEF Request
<1>12. ~LimitReached(obj.att) /\ obj.att < MaxAttempts => Alike(up) /\ up.att = rec[m].obj.att + 1
  BY <1>2, <1>5, <1>7, NextAttempt DEF Request
<1> HIDE DEF inv, own, fatal, up
<1>13. ASSUME NEW n, Alike(n), n.att = rec[m].obj.att, NEW id \in {0} \cup Attempts, NEW again \in BOOLEAN,
              again \/ n.quota = "asked" \/ n.comp = "Fatal" \/ n.tgt = "ItemAlreadyExists",
              Step(m, "patch", n, id, again)
       PROVE  Inductive'
  <2>1. Founded(n)
    BY <1>1, <1>13 DEF Founded
  <2>2. ~again /\ n = rec[m].base => Ended(rec[m].base)
    BY <1>4, <1>13 DEF Ended
  <2>3. n.att = rec[m].obj.att + 0
    BY <1>0, <1>13, RequestFields
  <2> QED
    BY <1>0, <1>1, <1>13, <2>1, <2>2, <2>3, LocalStep
<1>14. ASSUME Alike(up), up.att = rec[m].obj.att + 1, Step(m, "update", up, 0, TRUE)
       PROVE  Inductive'
  <2>1. Founded(up)
    BY <1>1, <1>14 DEF Founded
  <2> QED
    BY <1>0, <1>1, <1>14, <2>1, LocalStep
<1>15. item.by \in {0} \cup Attempts
  BY <1>0
<1> HIDE DEF Alike
<1> QED
  BY <1>2, <1>3, <1>5, <1>6, <1>8, <1>9, <1>10, <1>11, <1>12, <1>13, <1>14, <1>15

\* The item of a task, or the one found by name, is that of an attempt.
LEMMA UploadedItemIDType ==
  ASSUME TypeOK, NEW a \in {0} \cup Attempts
  PROVE  UploadedItemID(a) \in {0} \cup Attempts
BY DEF UploadedItemID, TypeOK

\* A request is complete once its item and its image are there.
LEMMA CompletedEffect ==
  ASSUME NEW r \in Request
  PROVE  /\ Completed(r) \in Request /\ Completed(r).ex = r.ex /\ Completed(r).deleting = r.deleting
         /\ Completed(r).fin = r.fin /\ Completed(r).att = r.att /\ Completed(r).img = r.img
         /\ Completed(r).up = r.up /\ Completed(r).tgt = r.tgt
         /\ r.up = "True" /\ r.img = "True" => Completed(r).ready /\ Completed(r).comp = "True"
         /\ Completed(r).ready => r.ready \/ r.img = "True"
<1>1. CASE r.up = "True" /\ r.img = "True"
  BY <1>1 DEF Completed, Request
<1>2. CASE ~(r.up = "True" /\ r.img = "True")
  BY <1>2 DEF Completed, Request
<1> QED
  BY <1>1, <1>2

\* Image believes in an image only when it is there, and stops only at an end.
LEMMA InductiveImage ==
  ASSUME Inductive, NEW m \in Manager, Image(m)
  PROVE  Inductive'
<1> DEFINE obj  == rec[m].obj
           look == obj.up = "True" /\ obj.img # "True"
           id   == IF look /\ rec[m].id = 0 THEN UploadedItemID(obj.att) ELSE rec[m].id
           new  == IF look
                   THEN [obj EXCEPT !.img = IF image /\ item.by = id THEN "True" ELSE "NotFound"]
                   ELSE obj
           next == AfterImage(new)
<1>0. /\ TypeOK /\ rec[m] \in Rec /\ obj \in Request /\ rec[m].pc = "image" /\ item' = item
      /\ rec[m].id \in {0} \cup Attempts
      /\ UNCHANGED <<reqVars, envVars, image, tasks, callVars, leader, dropped, wake>>
  BY DEF Inductive, TypeOK, Rec, Image, vcVars
<1>1. obj.att \in {0} \cup Attempts /\ obj.att \in Nat
  BY <1>0, RequestFields
<1>2. Founded(obj) /\ Accounted(m) /\ Finalized(m) /\ RequestSound
  BY <1>0 DEF Inductive, ReconcileSound, Busy
<1>3. id \in {0} \cup Attempts
  BY <1>0, <1>1, UploadedItemIDType
<1>4. \/ Step(m, "patch", obj, 0, TRUE) /\ (UNCHANGED faults \/ Fault)
      \/ /\ ~look \/ id # 0
         /\ IF next = "describe" THEN Step(m, next, new, id, FALSE)
            ELSE Step(m, next, Completed(new), id, next = "patch" /\ Requeued(new))
         /\ UNCHANGED faults
  BY Zenon DEF Image
<1>5. faults' \in 0..MaxFaults
  BY <1>0, <1>4, FaultType
<1>6. CASE Step(m, "patch", obj, 0, TRUE)
  <2>1. obj.att = rec[m].obj.att + 0
    BY <1>1
  <2> QED
    BY <1>0, <1>2, <1>5, <1>6, <2>1, LocalStep
<1>7. ASSUME ~look \/ id # 0 PROVE Founded(new)
  BY <1>0, <1>2, <1>7 DEF Founded, RequestSound, Request
<1>8. /\ new \in Request /\ new.ex = obj.ex /\ new.deleting = obj.deleting /\ new.fin = obj.fin
      /\ new.att = obj.att /\ new.up = obj.up /\ new.tgt = obj.tgt /\ new.ready = obj.ready
  BY <1>0 DEF Request
<1>9. /\ next \in {"patch", "describe", "ttl"}
      /\ next # "patch" => new.up = "True" /\ new.img = "True"
  BY DEF AfterImage
<1>10. new.att = rec[m].obj.att + 0
  BY <1>1, <1>8
<1> HIDE DEF id, new, next, look
<1>11. CASE Founded(new) /\ next = "describe" /\ Step(m, "describe", new, id, FALSE)
  BY <1>0, <1>3, <1>5, <1>8, <1>9, <1>10, <1>11, LocalStep
<1>12. CASE /\ Founded(new) /\ next # "describe"
            /\ Step(m, next, Completed(new), id, next = "patch" /\ Requeued(new))
  <2> DEFINE done == Completed(new)
             again == next = "patch" /\ Requeued(new)
  <2>1. /\ done \in Request /\ done.ex = obj.ex /\ done.deleting = obj.deleting /\ done.fin = obj.fin
        /\ done.att = rec[m].obj.att + 0 /\ done.up = obj.up /\ done.tgt = obj.tgt
        /\ next = "ttl" => done.ready /\ done.comp = "True"
    BY <1>8, <1>9, <1>10, CompletedEffect
  <2>2. Founded(done)
    BY <1>8, <1>12, CompletedEffect DEF Founded
  <2>3. next = "patch" /\ ~again /\ done = rec[m].base => Ended(rec[m].base)
    <3> SUFFICES ASSUME next = "patch", ~again, done = rec[m].base PROVE Ended(rec[m].base)
      OBVIOUS
    <3>1. ~rec[m].base.deleting
      BY <1>0, <1>2 DEF Finalized
    <3>2. obj.tgt = "ItemAlreadyExists" \/ obj.up = "ItemIDInvalid"
      BY <1>8 DEF Requeued
    <3>3. obj.up = "ItemIDInvalid" => obj.att # 0 /\ tasks[obj.att] = "odd"
      BY <1>0, <1>2 DEF Accounted
    <3>4. done.att = obj.att
      BY <1>8, CompletedEffect
    <3> QED
      BY <2>1, <3>1, <3>2, <3>3, <3>4 DEF Ended
  <2>4. next \in {"patch", "ttl"} /\ again \in BOOLEAN
    BY <1>9, <1>12
  <2>5. Step(m, next, done, id, again)
    BY <1>12
  <2> HIDE DEF done, again
  <2> QED
    BY <1>0, <1>3, <1>5, <2>1, <2>2, <2>3, <2>4, <2>5, LocalStep
<1> QED
  BY <1>4, <1>6, <1>7, <1>11, <1>12

\* Describe is for a request whose image is there.
LEMMA InductiveDescribe ==
  ASSUME Inductive, NEW m \in Manager, Describe(m)
  PROVE  Inductive'
<1> DEFINE obj == rec[m].obj
           id  == IF rec[m].id = 0 THEN UploadedItemID(obj.att) ELSE rec[m].id
<1>0. /\ TypeOK /\ rec[m] \in Rec /\ obj \in Request /\ rec[m].pc = "describe"
      /\ rec[m].id \in {0} \cup Attempts
      /\ UNCHANGED <<reqVars, envVars, image, tasks, callVars, leader, dropped, wake>>
  BY DEF Inductive, TypeOK, Rec, Describe
<1>1. obj.att \in {0} \cup Attempts /\ obj.att \in Nat
  BY <1>0, RequestFields
<1>2. Founded(obj) /\ obj.up = "True" /\ obj.img = "True"
  BY <1>0 DEF Inductive, ReconcileSound, Busy, Accounted
<1>3. id \in {0} \cup Attempts
  BY <1>0, <1>1, UploadedItemIDType
<1>4. /\ item' \in {item, [item EXCEPT !.tag = FALSE]} /\ (Fault \/ UNCHANGED faults)
      /\ \/ Step(m, "patch", obj, 0, TRUE) \/ Step(m, "patch", obj, id, TRUE)
         \/ Step(m, "ttl", Completed(obj), id, FALSE)
  BY DEF Describe
<1>5. faults' \in 0..MaxFaults
  BY <1>0, <1>4, FaultType
<1> HIDE DEF id
<1>6. ASSUME NEW i \in {0} \cup Attempts, Step(m, "patch", obj, i, TRUE) PROVE Inductive'
  <2>1. obj.att = rec[m].obj.att + 0
    BY <1>1
  <2> QED
    BY <1>0, <1>2, <1>4, <1>5, <1>6, <2>1, LocalStep
<1>7. CASE Step(m, "ttl", Completed(obj), id, FALSE)
  <2> DEFINE done == Completed(obj)
  <2>1. /\ done \in Request /\ done.ex = obj.ex /\ done.deleting = obj.deleting /\ done.fin = obj.fin
        /\ done.att = rec[m].obj.att + 0 /\ done.ready /\ done.comp = "True"
    BY <1>0, <1>1, <1>2, CompletedEffect
  <2>2. Founded(done)
    BY <1>0, <1>2, CompletedEffect DEF Founded
  <2>3. Step(m, "ttl", done, id, FALSE)
    BY <1>7
  <2> HIDE DEF done
  <2> QED
    BY <1>0, <1>3, <1>4, <1>5, <2>1, <2>2, <2>3, LocalStep
<1> QED
  BY <1>3, <1>4, <1>6, <1>7

-----------------------------------------------------------------------------
(* The reconcile, from the calls that change something. *)

\* A reconcile ends: the others are as they were, or out of date if the request was
\* written.
LEMMA OthersSound ==
  ASSUME Inductive, Onward, NEW m \in Manager, NEW n \in Manager \ {m}, NEW by,
         by = m \/ by \notin Manager,
         \/ rec'[n] = rec[n] /\ req' = req
         \/ rec'[n] = Outdated(rec, by)[n]
  PROVE  ReconcileSound(n)'
<1>0. TypeOK /\ ReconcileSound(n) /\ rec \in [Manager -> Rec]
  BY DEF Inductive, TypeOK
<1>1. CASE rec'[n] = rec[n] /\ req' = req
  BY <1>0, <1>1, Kept
<1>2. CASE rec'[n] = Outdated(rec, by)[n]
  <2>1. /\ rec'[n].pc = rec[n].pc /\ rec'[n].base = rec[n].base /\ rec'[n].obj = rec[n].obj
        /\ rec'[n].again = rec[n].again
        /\ rec'[n].current => rec[n].current /\ rec[n].pc = "idle"
    BY <1>0, <1>2, OutdatedEffect
  <2> QED
    BY <1>0, <2>1, Kept DEF Busy
<1> QED
  BY <1>1, <1>2

\* An attempt gets its number, and its call is made, only on the request as it was read.
LEMMA InductiveUpdate ==
  ASSUME Inductive, NEW m \in Manager, Update(m)
  PROVE  Inductive'
<1>0. /\ TypeOK /\ rec \in [Manager -> Rec] /\ rec[m] \in Rec /\ rec[m].obj \in Request /\ req \in Request
      /\ rec[m].pc = "update" /\ wake' \in BOOLEAN /\ RequestSound /\ sent \in [Attempts -> Nat]
      /\ UNCHANGED <<source, library, kind, ttl, item, image, tasks, leader, dropped, faults>>
  BY DEF Inductive, TypeOK, Rec, Update, envVars, vcVars
<1>1. Founded(rec[m].obj) /\ Numbered(m) /\ Finalized(m)
  BY <1>0 DEF Inductive, ReconcileSound, Busy
<1>3. CASE UpdateAccepted(m)
  <2> DEFINE a == rec[m].obj.att
  <2>1. /\ req' = rec[m].obj /\ late' = FALSE /\ calls' = calls \cup {<<m, a>>}
        /\ sent' = [sent EXCEPT ![a] = @ + 1] /\ rec' = [Outdated(rec, m) EXCEPT ![m] = Idle]
        /\ wake' = TRUE
    BY <1>3 DEF Update
  <2>2. rec[m].base = req /\ req.ex
    BY <1>0, <1>1, <1>3 DEF Numbered, UpdateAccepted
  <2>3. a = req.att + 1 /\ req.att \in Nat /\ a \in Attempts /\ a \in Nat
    BY <1>0, <1>1, <2>2, RequestFields DEF Numbered
  <2>4. req'.ex /\ ~req'.deleting /\ req'.fin /\ ~req.deleting
    BY <1>0, <1>1, <2>1, <2>2 DEF Finalized
  <2>5. Onward
    BY <1>0, <2>1, <2>2, <2>4 DEF Onward
  <2>6. rec' \in [Manager -> Rec] /\ rec'[m] = Idle /\ \A n \in Manager \ {m} : rec'[n] = Outdated(rec, m)[n]
    BY <1>0, <2>1, OutdatedEffect, NewRequestType
  <2>7. sent' \in [Attempts -> Nat] /\ calls' \subseteq (Manager \X Attempts)
    BY <1>0, <2>1, <2>3 DEF TypeOK
  <2>8. TypeOK'
    BY <1>0, <2>1, <2>6, <2>7 DEF TypeOK
  <2>9. OneTaskPerActID' /\ RequestSound'
    <3>1. \A b \in Attempts : b \in Nat /\ (b > req.att => sent[b] = 0) /\ sent[b] <= 1 /\ sent[b] \in Nat
      BY <1>0, <2>2, AttemptsNat DEF Inductive, RequestSound, OneTaskPerActID
    <3>2. \A b \in Attempts : sent'[b] = IF b = a THEN 1 ELSE sent[b]
      BY <1>0, <2>1, <2>3, <3>1
    <3>3. OneTaskPerActID'
      BY <3>1, <3>2 DEF OneTaskPerActID
    <3>4. \A b \in Attempts : b > req'.att => sent'[b] = 0
      BY <2>1, <2>3, <3>1, <3>2
    <3>5. Founded(req)' /\ (item'.by # 0 => item'.ex)
      BY <1>0, <1>1, <2>1 DEF Founded, RequestSound
    <3> QED
      BY <2>4, <3>3, <3>4, <3>5 DEF RequestSound
  <2>10. ASSUME NEW n \in Manager PROVE ReconcileSound(n)'
    BY <2>5, <2>6, IdleSound, OthersSound
  <2> QED
    BY <2>1, <2>8, <2>9, <2>10 DEF Inductive, Attended
<1>4. CASE ~UpdateAccepted(m)
  <2>1. /\ rec' = [rec EXCEPT ![m] = Idle] /\ UNCHANGED <<req, late, calls, sent>>
        /\ ~wake' => ~wake /\ m # leader
    BY <1>0, <1>4 DEF Update, reqVars, callVars
  <2>2. Onward
    BY <1>0, <2>1 DEF Onward
  <2>3. TypeOK'
    BY <1>0, <2>1, NewRequestType DEF TypeOK
  <2>4. RequestSound' /\ OneTaskPerActID'
    BY <1>0, <2>1, <2>2, RequestKept DEF Inductive, OneTaskPerActID, RequestSound
  <2>5. ASSUME NEW n \in Manager PROVE ReconcileSound(n)'
    <3>1. rec'[m] = Idle /\ \A k \in Manager \ {m} : rec'[k] = rec[k]
      BY <1>0, <2>1
    <3> QED
      BY <2>1, <2>2, <3>1, IdleSound, OthersSound
  <2>6. Attended'
    <3>1. CASE wake'
      BY <3>1 DEF Attended
    <3>2. CASE ~wake'
      <4>1. leader \in Manager /\ Attended /\ rec'[leader] = rec[leader]
        BY <1>0, <2>1, <3>2 DEF TypeOK, Inductive
      <4> QED
        BY <1>0, <2>1, <2>2, <3>2, <4>1, AttendedKept DEF Busy
    <3> QED
      BY <3>1, <3>2
  <2> QED
    BY <2>3, <2>4, <2>5, <2>6 DEF Inductive
<1> QED
  BY <1>3, <1>4

\* Remove deletes a request that has its finalizer.
LEMMA InductiveRemove ==
  ASSUME Inductive, NEW m \in Manager, Remove(m)
  PROVE  Inductive'
<1>0. /\ TypeOK /\ rec \in [Manager -> Rec] /\ rec[m] \in Rec /\ rec[m].obj \in Request /\ req \in Request
      /\ rec[m].pc = "ttl" /\ RequestSound
      /\ UNCHANGED <<late, source, library, kind, ttl, item, image, tasks, calls, sent, leader, dropped>>
  BY DEF Inductive, TypeOK, Rec, Remove, envVars, vcVars, callVars
<1>1. /\ Founded(rec[m].obj) /\ Founded(rec[m].base) /\ Numbered(m) /\ Finalized(m) /\ Accounted(m)
      /\ rec[m].base \in Request
  BY <1>0 DEF Inductive, ReconcileSound, Busy, Rec
<1>2. faults' \in 0..MaxFaults
  BY <1>0, FaultType DEF Remove
<1>3. ASSUME ttl, req.ex, req' = [req EXCEPT !.deleting = TRUE],
             rec' = [Outdated(rec, m) EXCEPT ![m].pc = "patch"], wake' = TRUE
      PROVE  Inductive'
  <2>1. /\ req' \in Request /\ req'.deleting /\ req'.fin = req.fin /\ req'.ex = req.ex /\ req'.att = req.att
        /\ req'.img = req.img /\ req'.ready = req.ready
    BY <1>0, <1>3 DEF Request
  <2>2. Onward
    BY <1>0, <2>1 DEF Onward
  <2>3. /\ Outdated(rec, m) \in [Manager -> Rec]
        /\ LET w == Outdated(rec, m)[m] IN
           w.base = rec[m].base /\ w.obj = rec[m].obj /\ w.again = rec[m].again
    BY <1>0, OutdatedEffect
  <2> DEFINE w == [Outdated(rec, m)[m] EXCEPT !.pc = "patch"]
  <2>4. w \in Rec /\ w.pc = "patch" /\ w.base = rec[m].base /\ w.obj = rec[m].obj
    <3>1. Outdated(rec, m)[m] \in Rec
      BY <2>3
    <3> QED
      BY <2>3, <3>1 DEF Rec
  <2>5. rec' = [Outdated(rec, m) EXCEPT ![m] = w]
    BY <1>3
  <2> HIDE DEF w
  <2>6. rec' \in [Manager -> Rec] /\ rec'[m] = w /\ \A n \in Manager \ {m} : rec'[n] = Outdated(rec, m)[n]
    BY <2>3, <2>4, <2>5
  <2>7. TypeOK'
    BY <1>0, <1>2, <1>3, <2>1, <2>6 DEF TypeOK
  <2>8. req.fin /\ ~rec[m].base.deleting
    BY <1>0, <1>1, <1>3 DEF Finalized
  <2>9. RequestSound' /\ OneTaskPerActID'
    BY <1>0, <2>1, <2>8 DEF RequestSound, Founded, Inductive, OneTaskPerActID
  <2>10. ReconcileSound(m)'
    <3>1. Founded(rec[m].base)' /\ Founded(rec[m].obj)'
      BY <1>0, <1>1, <2>4, <2>6 DEF Founded
    <3>2. Numbered(m)'
      BY <1>0, <1>1, <2>4, <2>6 DEF Numbered
    <3>3. Finalized(m)'
      BY <1>0, <1>1, <2>1, <2>4, <2>6, <2>8 DEF Finalized
    <3>4. Accounted(m)'
      BY <2>1, <2>4, <2>6, <2>8 DEF Accounted
    <3> QED
      BY <3>1, <3>2, <3>3, <3>4 DEF ReconcileSound
  <2>11. ASSUME NEW n \in Manager PROVE ReconcileSound(n)'
    BY <2>2, <2>6, <2>10, OthersSound
  <2>12. Attended'
    BY <1>3 DEF Attended
  <2> QED
    BY <2>7, <2>9, <2>11, <2>12 DEF Inductive
<1>4. ASSUME NEW again \in BOOLEAN, again \/ (req.ex /\ ~ttl),
             rec' = [rec EXCEPT ![m].pc = "patch", ![m].again = again], UNCHANGED <<req, wake>>
      PROVE  Inductive'
  <2> DEFINE w == [rec[m] EXCEPT !.pc = "patch", !.again = again]
  <2>1. /\ w \in Rec /\ w.pc = "patch" /\ w.base = rec[m].base /\ w.obj = rec[m].obj /\ w.again = again
        /\ w.current = rec[m].current
    BY <1>0 DEF Rec
  <2>2. rec' = [rec EXCEPT ![m] = w]
    BY <1>4
  <2> HIDE DEF w
  <2>3. rec' \in [Manager -> Rec] /\ rec'[m] = w /\ \A n \in Manager \ {m} : rec'[n] = rec[n]
    BY <1>0, <2>1, <2>2
  <2>4. Onward
    BY <1>0, <1>4 DEF Onward
  <2>5. TypeOK'
    BY <1>0, <1>2, <1>4, <2>3 DEF TypeOK
  <2>6. RequestSound' /\ OneTaskPerActID'
    BY <1>0, <1>4, <2>4, RequestKept DEF Inductive, OneTaskPerActID, RequestSound
  <2>7. ReconcileSound(m)'
    <3>1. Founded(rec[m].base)' /\ Founded(rec[m].obj)'
      BY <1>0, <1>1, <2>1, <2>3 DEF Founded
    <3>2. Numbered(m)'
      BY <1>0, <1>1, <2>1, <2>3 DEF Numbered
    <3>3. Finalized(m)'
      BY <1>0, <1>1, <1>4, <2>1, <2>3 DEF Finalized
    <3>4. Accounted(m)'
      <4>1. ~again /\ rec[m].obj = rec[m].base => Ended(rec[m].base)'
        BY <1>0, <1>1, <1>4, <2>1, <2>3 DEF Accounted, Finalized, Ended
      <4> QED
        BY <2>1, <2>3, <4>1 DEF Accounted
    <3> QED
      BY <3>1, <3>2, <3>3, <3>4 DEF ReconcileSound
  <2>8. ASSUME NEW n \in Manager PROVE ReconcileSound(n)'
    BY <1>4, <2>3, <2>4, <2>7, OthersSound
  <2>9. Attended'
    <3>1. leader \in Manager /\ Attended
      BY <1>0 DEF TypeOK, Inductive
    <3>2. (Busy(leader)' <=> Busy(leader)) /\ rec'[leader].base = rec[leader].base
      BY <1>0, <2>1, <2>3, <3>1 DEF Busy
    <3> QED
      BY <1>0, <1>4, <2>4, <3>1, <3>2, AttendedKept
  <2> QED
    BY <2>5, <2>6, <2>8, <2>9 DEF Inductive
<1>5. req.ex \in BOOLEAN
  BY <1>0, RequestFields
<1>6. CASE /\ ttl /\ req.ex /\ req' = [req EXCEPT !.deleting = TRUE]
           /\ rec' = [Outdated(rec, m) EXCEPT ![m].pc = "patch"] /\ wake' = TRUE
  BY <1>3, <1>6
<1>7. CASE ttl /\ Fault /\ rec' = [rec EXCEPT ![m].pc = "patch", ![m].again = TRUE] /\ UNCHANGED <<req, wake>>
  BY <1>4, <1>7
<1>8. CASE /\ ~ttl \/ ~req.ex
           /\ rec' = [rec EXCEPT ![m].pc = "patch", ![m].again = ~req.ex] /\ UNCHANGED <<req, wake>>
  BY <1>4, <1>5, <1>8
<1> QED
  BY <1>6, <1>7, <1>8 DEF Remove

\* The patch takes nothing back, and when it changes nothing and is not retried, the request
\* is at an end or a TerminalError hides that the patch has failed.
LEMMA InductivePatch ==
  ASSUME Inductive, NEW m \in Manager, Patch(m)
  PROVE  Inductive'
<1> DEFINE w == rec[m]
           terminal == TerminalError(w)
<1>0. /\ TypeOK /\ rec \in [Manager -> Rec] /\ w \in Rec /\ w.obj \in Request /\ w.base \in Request
      /\ req \in Request /\ w.pc = "patch" /\ RequestSound /\ leader \in Manager /\ Attended
      /\ wake \in BOOLEAN /\ w.again \in BOOLEAN /\ dropped \in BOOLEAN
      /\ UNCHANGED <<late, source, library, kind, ttl, item, image, tasks, calls, sent, leader>>
  BY DEF Inductive, TypeOK, Rec, Patch, envVars, vcVars, callVars
<1>1. Busy(m) /\ Founded(w.obj) /\ Numbered(m) /\ Finalized(m) /\ Accounted(m)
  BY <1>0 DEF Inductive, ReconcileSound, Busy
<1>2. PICK parts \in SUBSET Parts, failed \in BOOLEAN :
        /\ IF failed THEN w.obj # w.base
                     ELSE parts = Parts /\ (req.ex \/ w.obj = w.base)
        /\ IF failed /\ req.ex THEN Fault ELSE UNCHANGED faults
        /\ req' = Patched(w, parts)
        /\ rec' = [(IF req' # req THEN Outdated(rec, m) ELSE rec) EXCEPT ![m] = Idle]
        /\ wake' = (\/ wake \/ req' # req
                    \/ m = leader /\ (w.again \/ (failed /\ ~TerminalError(w))))
        /\ dropped' = IF m = leader THEN failed /\ TerminalError(w) ELSE dropped
  BY DEF Patch
<1>3. terminal \in BOOLEAN /\ (w.base.deleting => ~terminal)
  BY <1>1 DEF TerminalError, Finalized
<1>4. dropped' = (IF m = leader THEN failed /\ terminal ELSE dropped)
      /\ wake' = (wake \/ req' # req \/ (m = leader /\ (w.again \/ (failed /\ ~terminal))))
  BY <1>2
<1> HIDE DEF terminal
<1>5. faults' \in 0..MaxFaults /\ wake' \in BOOLEAN /\ dropped' \in BOOLEAN
  BY <1>0, <1>2, <1>3, <1>4, FaultType
<1>6. ~req.ex => req' = req
  BY <1>2 DEF Patched
<1>7. req.ex => \/ req' = [NewRequest EXCEPT !.ex = FALSE]
                \/ /\ req' \in Request /\ req'.ex /\ req'.deleting = req.deleting /\ req'.att = req.att
                   /\ req'.fin = req.fin \/ (w.obj.fin # w.base.fin /\ req'.fin = w.obj.fin)
                   /\ req'.deleting => req'.fin
                   /\ req'.img \in {w.obj.img, req.img} /\ req'.ready \in {w.obj.ready, req.ready}
                   /\ w.base = req /\ parts = Parts => req' = w.obj
  <2>1. /\ w.obj.ex = w.base.ex /\ w.obj.deleting = w.base.deleting /\ w.obj.att = w.base.att
    <3>1. w.base.att \in Nat /\ w.base.ex \in BOOLEAN /\ w.obj.ex \in BOOLEAN
      BY <1>0, RequestFields
    <3> QED
      BY <1>0, <1>1, <3>1 DEF Numbered, Finalized
  <2>2. CASE req.ex
    BY <1>0, <1>2, <2>1, <2>2, PatchedEffect
  <2> QED
    BY <2>2
<1>8. LET none == [NewRequest EXCEPT !.ex = FALSE] IN
      none \in Request /\ ~none.ex /\ none.img = "unset" /\ ~none.ready
  BY NewRequestType DEF NewRequest
<1>9. req' \in Request /\ (req'.ex => req.ex)
  BY <1>0, <1>6, <1>7, <1>8
<1>10. req'.ex => req.deleting = req'.deleting /\ (req.fin => req'.fin)
  <2>1. w.obj.fin \in BOOLEAN /\ w.base.fin \in BOOLEAN /\ req.fin \in BOOLEAN
    BY <1>0, RequestFields
  <2>2. ~w.obj.fin <=> w.base.deleting
    BY <1>1 DEF Finalized
  <2>3. req.ex /\ w.base.deleting => req.deleting
    BY <1>1 DEF Finalized
  <2> QED
    BY <1>6, <1>7, <1>8, <2>1, <2>2, <2>3
<1>11. Onward
  BY <1>0, <1>9, <1>10 DEF Onward
<1>12. /\ rec' \in [Manager -> Rec] /\ rec'[m] = Idle
       /\ \A n \in Manager \ {m} : (rec'[n] = rec[n] /\ req' = req) \/ rec'[n] = Outdated(rec, m)[n]
  BY <1>0, <1>2, OutdatedEffect, NewRequestType
<1>13. TypeOK'
  BY <1>0, <1>5, <1>9, <1>12 DEF TypeOK
<1>14. RequestSound' /\ OneTaskPerActID'
  <2>1. Founded(req)'
    BY <1>0, <1>1, <1>6, <1>7, <1>8 DEF Founded, RequestSound
  <2>2. req'.ex => req'.att = req.att /\ (req'.deleting => req'.fin)
    BY <1>0, <1>6, <1>7, <1>8 DEF RequestSound
  <2>3. \A a \in Attempts : req'.ex /\ a > req'.att => sent'[a] = 0
    BY <1>0, <1>9, <2>2 DEF RequestSound
  <2>4. (item'.by # 0 => item'.ex) /\ OneTaskPerActID'
    BY <1>0 DEF RequestSound, OneTaskPerActID, Inductive
  <2> QED
    BY <2>1, <2>2, <2>3, <2>4 DEF RequestSound
<1>15. ASSUME NEW n \in Manager PROVE ReconcileSound(n)'
  BY <1>11, <1>12, IdleSound, OthersSound
<1>16. Attended'
  <2> SUFFICES ASSUME ~wake' PROVE Attended'
    BY DEF Attended
  <2>1. ~wake /\ req' = req /\ (m = leader => ~w.again /\ (failed => terminal))
    BY <1>0, <1>3, <1>4
  <2>2. CASE m # leader
    <3>1. rec'[leader] = rec[leader] /\ dropped' = dropped
      BY <1>0, <1>2, <2>1, <2>2
    <3> QED
      BY <1>0, <1>11, <2>1, <3>1, AttendedKept DEF Busy
  <2>3. CASE m = leader
    <3>1. w.base = req
      BY <1>0, <1>1, <2>1, <2>3 DEF Attended
    <3>2. ~Busy(leader)'
      BY <1>0, <1>12, <2>3 DEF Busy, Idle
    <3>3. CASE failed
      <4>1. dropped' /\ ~req'.deleting
        BY <1>0, <1>3, <1>4, <2>1, <2>3, <3>1, <3>3, RequestFields
      <4> QED
        BY <3>2, <4>1 DEF Attended
    <3>4. CASE ~failed
      <4>1. CASE ~req.ex
        BY <2>1, <3>2, <4>1 DEF Attended
      <4>2. CASE req.ex
        <5>1. w.obj = w.base
          BY <1>2, <1>7, <1>8, <2>1, <3>1, <3>4, <4>2
        <5>2. Ended(w.base) \/ (~w.base.deleting /\ (req.ex => req.deleting))
          BY <1>0, <1>1, <2>1, <2>3, <5>1 DEF Accounted
        <5>3. Ended(req)'
          BY <1>0, <2>1, <3>1, <4>2, <5>2 DEF Ended
        <5> QED
          BY <3>2, <5>3 DEF Attended
      <4> QED
        BY <4>1, <4>2
    <3> QED
      BY <3>3, <3>4
  <2> QED
    BY <2>2, <2>3
<1> QED
  BY <1>13, <1>14, <1>15, <1>16 DEF Inductive

-----------------------------------------------------------------------------
(* The provider's call, vCenter and the environment. *)

\* A step that leaves the request and the reconciles alone.
LEMMA Elsewhere ==
  ASSUME Inductive, TypeOK', Onward, UNCHANGED <<req, sent, rec, leader, dropped>>, ~wake' => ~wake,
         item'.by # 0 => item'.ex
  PROVE  Inductive'
<1>0. TypeOK /\ Attended /\ leader \in Manager
  BY DEF Inductive, TypeOK
<1>1. RequestSound' /\ OneTaskPerActID'
  BY <1>0, RequestKept DEF Inductive, OneTaskPerActID
<1>2. ASSUME NEW n \in Manager PROVE ReconcileSound(n)'
  BY <1>0, Kept DEF Inductive
<1>3. Attended'
  BY <1>0, AttendedKept DEF Busy
<1> QED
  BY <1>1, <1>2, <1>3 DEF Inductive

LEMMA InductiveVCenter ==
  ASSUME Inductive, VCenter \/ Intruder \/ SourceAppears \/ LibraryAppears \/ Timeout \/ Resync
  PROVE  Inductive'
<1>0. /\ TypeOK /\ tasks \in [Attempts -> TaskState] /\ calls \subseteq (Manager \X Attempts)
      /\ item \in [by: {0} \cup Attempts, tag: BOOLEAN, ex: BOOLEAN] /\ RequestSound
  BY DEF Inductive, TypeOK
<1>1. ASSUME NEW c \in calls, Call(c) PROVE Inductive'
  <2>1. /\ tasks' \in [Attempts -> TaskState] /\ \A a \in Attempts : tasks[a] = "odd" => tasks'[a] = "odd"
    BY <1>0, <1>1 DEF Call, TaskState
  <2>2. /\ UNCHANGED <<req, late, source, library, kind, ttl, item, image, sent, leader, dropped, wake, rec>>
        /\ calls' \subseteq calls /\ faults' \in 0..MaxFaults
    BY <1>0, <1>1, FaultType DEF Call, reqVars, envVars
  <2>3. TypeOK' /\ Onward
    BY <1>0, <2>1, <2>2 DEF TypeOK, Onward
  <2> QED
    BY <1>0, <2>2, <2>3, Elsewhere DEF RequestSound
<1>2. ASSUME NEW a \in Attempts, Register(a) PROVE Inductive'
  <2>1. /\ tasks' \in [Attempts -> TaskState] /\ \A b \in Attempts : tasks[b] = "odd" => tasks'[b] = "odd"
    BY <1>0, <1>2 DEF Register, TaskState
  <2>2. /\ UNCHANGED <<req, late, source, library, kind, ttl, item, image, calls, sent, leader, dropped, wake, rec>>
        /\ faults' \in 0..MaxFaults
    BY <1>0, <1>2, FaultType DEF Register, reqVars, envVars, callVars
  <2>3. TypeOK' /\ Onward
    BY <1>0, <2>1, <2>2 DEF TypeOK, Onward
  <2> QED
    BY <1>0, <2>2, <2>3, Elsewhere DEF RequestSound
<1>3. ASSUME NEW a \in Attempts, Finish(a) PROVE Inductive'
  <2>1. /\ tasks' \in [Attempts -> TaskState] /\ \A b \in Attempts : tasks[b] = "odd" => tasks'[b] = "odd"
    BY <1>0, <1>3 DEF Finish, TaskState
  <2>2. /\ UNCHANGED <<req, late, source, library, kind, ttl, image, calls, sent, leader, dropped, wake, rec>>
        /\ faults' \in 0..MaxFaults
    BY <1>0, <1>3, FaultType DEF Finish, reqVars, envVars, callVars
  <2>3. item' \in [by: {0} \cup Attempts, tag: BOOLEAN, ex: BOOLEAN] /\ (item'.ex \/ item' = item)
    <3>1. item' = item \/ item' = [by |-> a, tag |-> TRUE, ex |-> TRUE]
      BY <1>3 DEF Finish
    <3>2. CASE item' = [by |-> a, tag |-> TRUE, ex |-> TRUE]
      BY <3>2
    <3> QED
      BY <1>0, <3>1, <3>2
  <2>4. item.ex => item' = item
    BY <1>3 DEF Finish
  <2>5. TypeOK' /\ Onward
    BY <1>0, <2>1, <2>2, <2>3, <2>4 DEF TypeOK, Onward
  <2> QED
    BY <1>0, <2>2, <2>3, <2>5, Elsewhere DEF RequestSound
<1>4. ASSUME ImageAppears \/ Intruder PROVE Inductive'
  <2>1. /\ UNCHANGED <<req, late, source, library, kind, ttl, tasks, calls, sent, leader, dropped, rec>>
        /\ image' \in BOOLEAN /\ (image => image') /\ wake' \in BOOLEAN /\ (~wake' => ~wake)
        /\ faults' \in 0..MaxFaults
    BY <1>0, <1>4, FaultType DEF ImageAppears, Intruder, reqVars, envVars, callVars, TypeOK
  <2>2. /\ item' \in [by: {0} \cup Attempts, tag: BOOLEAN, ex: BOOLEAN]
        /\ (item.ex => item' = item) /\ (item'.by # 0 => item'.ex)
    <3>1. item' = item \/ (~item.ex /\ item' = [by |-> 0, tag |-> FALSE, ex |-> TRUE])
      BY <1>4 DEF ImageAppears, Intruder
    <3>2. CASE ~item.ex /\ item' = [by |-> 0, tag |-> FALSE, ex |-> TRUE]
      BY <3>2
    <3> QED
      BY <1>0, <3>1, <3>2 DEF RequestSound
  <2>3. TypeOK' /\ Onward
    BY <1>0, <2>1, <2>2 DEF TypeOK, Onward
  <2> QED
    BY <2>1, <2>2, <2>3, Elsewhere
<1>5. ASSUME SourceAppears \/ LibraryAppears \/ Timeout \/ Resync PROVE Inductive'
  <2>1. /\ UNCHANGED <<req, kind, ttl, item, image, tasks, calls, sent, leader, dropped, rec, faults>>
        /\ source' \in {"missing", "uncreated", "created"} /\ library' \in {"missing", "unready", "ready"}
        /\ late' \in BOOLEAN /\ wake' \in BOOLEAN /\ (~wake' => ~wake)
    BY <1>0, <1>5
    DEF SourceAppears, LibraryAppears, Timeout, Resync, reqVars, envVars, vcVars, callVars, TypeOK
  <2>2. TypeOK' /\ Onward
    BY <1>0, <2>1 DEF TypeOK, Onward
  <2> QED
    BY <1>0, <2>1, <2>2, Elsewhere DEF RequestSound
<1> QED
  BY <1>1, <1>2, <1>3, <1>4, <1>5 DEF VCenter

\* A write from outside leaves every reconcile out of date and queues the request.
LEMMA InductiveWrites ==
  ASSUME Inductive, QuotaChecked \/ Delete
  PROVE  Inductive'
<1>0. /\ TypeOK /\ rec \in [Manager -> Rec] /\ req \in Request /\ RequestSound /\ req.ex
      /\ wake' = TRUE /\ faults' \in 0..MaxFaults
      /\ UNCHANGED <<late, source, library, kind, ttl, item, image, tasks, calls, sent, leader, dropped>>
  BY FaultType DEF Inductive, TypeOK, QuotaChecked, Delete, envVars, vcVars, callVars
<1>1. \E by \in {"quota", "user"} : rec' = Outdated(rec, by)
  BY DEF QuotaChecked, Delete
<1>2. PICK by \in {"quota", "user"} : rec' = Outdated(rec, by)
  BY <1>1
<1>3. by \notin Manager
  BY PublishAssumption
<1>4. /\ req' \in Request
      /\ \/ req' = [NewRequest EXCEPT !.ex = FALSE]
         \/ /\ req'.ex /\ req'.att = req.att /\ req'.img = req.img /\ req'.ready = req.ready
            /\ req'.fin = req.fin /\ (req.deleting => req'.deleting) /\ (req'.deleting => req.deleting \/ req.fin)
  <2>1. CASE QuotaChecked
    <3>1. PICK r \in {"passed", "failed"} : req' = [req EXCEPT !.quota = r]
      BY <2>1 DEF QuotaChecked
    <3> QED
      BY <1>0, <3>1 DEF Request
  <2>2. CASE Delete
    <3>1. req' = [NewRequest EXCEPT !.ex = FALSE] \/ (req.fin /\ req' = [req EXCEPT !.deleting = TRUE])
      BY <2>2 DEF Delete
    <3>2. CASE req.fin /\ req' = [req EXCEPT !.deleting = TRUE]
      BY <1>0, <3>2 DEF Request
    <3> QED
      BY <3>1, <3>2, NewRequestType
  <2> QED
    BY <2>1, <2>2
<1>5. req' = [NewRequest EXCEPT !.ex = FALSE] => ~req'.ex /\ req'.img = "unset" /\ ~req'.ready
  BY DEF NewRequest
<1>6. Onward
  BY <1>0, <1>4, <1>5 DEF Onward
<1>7. rec' \in [Manager -> Rec]
  BY <1>0, <1>2, OutdatedEffect
<1>8. TypeOK'
  BY <1>0, <1>4, <1>7 DEF TypeOK
<1>9. RequestSound' /\ OneTaskPerActID'
  BY <1>0, <1>4, <1>5 DEF RequestSound, Founded, Inductive, OneTaskPerActID
<1>10. ASSUME NEW n \in Manager PROVE ReconcileSound(n)'
  <2>1. /\ rec'[n].pc = rec[n].pc /\ rec'[n].base = rec[n].base /\ rec'[n].obj = rec[n].obj
        /\ rec'[n].again = rec[n].again
        /\ rec'[n].current => rec[n].current /\ rec[n].pc = "idle"
    BY <1>0, <1>2, <1>3, OutdatedEffect
  <2> QED
    BY <1>0, <1>6, <2>1, Kept DEF Busy, Inductive
<1> QED
  BY <1>0, <1>8, <1>9, <1>10 DEF Inductive, Attended

\* A change of leader and the end of a process queue the request.
LEMMA InductiveManagers ==
  ASSUME Inductive, Takeover \/ \E m \in Manager : Crash(m)
  PROVE  Inductive'
<1>0. /\ TypeOK /\ rec \in [Manager -> Rec] /\ RequestSound /\ faults' \in 0..MaxFaults
      /\ leader \in Manager /\ Attended
      /\ UNCHANGED <<req, late, source, library, kind, ttl, item, image, tasks, sent, dropped>>
  BY FaultType DEF Inductive, TypeOK, Takeover, Crash, reqVars, envVars, vcVars, callVars
<1>1. Onward
  BY <1>0 DEF Onward
<1>2. RequestSound' /\ OneTaskPerActID'
  BY <1>0, <1>1, RequestKept DEF Inductive, OneTaskPerActID, RequestSound
<1>3. CASE Takeover
  <2>1. UNCHANGED <<rec, calls>> /\ leader' \in Manager /\ wake' = TRUE
    BY <1>3 DEF Takeover, callVars
  <2>2. TypeOK'
    BY <1>0, <2>1 DEF TypeOK
  <2>3. ASSUME NEW n \in Manager PROVE ReconcileSound(n)'
    BY <1>0, <1>1, <2>1, Kept DEF Inductive
  <2> QED
    BY <1>2, <2>1, <2>2, <2>3 DEF Inductive, Attended
<1>4. ASSUME NEW m \in Manager, Crash(m) PROVE Inductive'
  <2>1. /\ rec' = [rec EXCEPT ![m] = Idle] /\ UNCHANGED leader /\ calls' \subseteq calls
        /\ wake' \in BOOLEAN /\ (~wake' => ~wake /\ m # leader)
    BY <1>0, <1>4 DEF Crash, TypeOK
  <2>2. rec'[m] = Idle /\ \A n \in Manager \ {m} : rec'[n] = rec[n]
    BY <1>0, <2>1
  <2>3. TypeOK'
    BY <1>0, <2>1, NewRequestType DEF TypeOK
  <2>4. ASSUME NEW n \in Manager PROVE ReconcileSound(n)'
    BY <1>0, <1>1, <2>2, IdleSound, OthersSound
  <2>5. Attended'
    <3>1. CASE wake'
      BY <3>1 DEF Attended
    <3>2. CASE ~wake'
      BY <1>0, <1>1, <2>1, <2>2, <3>2, AttendedKept DEF Busy
    <3> QED
      BY <3>1, <3>2
  <2> QED
    BY <1>2, <2>3, <2>4, <2>5 DEF Inductive
<1> QED
  BY <1>3, <1>4

-----------------------------------------------------------------------------
(* The theorems. *)

\* Every step keeps the invariant.
LEMMA InductiveNext ==
  ASSUME Inductive, [Next]_vars
  PROVE  Inductive'
<1>1. CASE UNCHANGED vars
  <2>1. UNCHANGED <<req, late, source, library, kind, ttl, item, image, tasks, calls, sent, leader, dropped, wake, rec, faults>>
    BY <1>1 DEF vars, reqVars, envVars, vcVars, callVars
  <2>2. TypeOK' /\ Onward
    BY <2>1 DEF Inductive, TypeOK, Onward
  <2> QED
    BY <2>1, <2>2, Elsewhere DEF Inductive, RequestSound
<1>2. ASSUME NEW m \in Manager, Work(m) PROVE Inductive'
  BY <1>2, InductiveReconcile, InductiveCheckTask, InductivePublish, InductiveUpdate, InductiveImage,
     InductiveDescribe, InductiveRemove, InductivePatch DEF Work
<1>3. CASE VCenter \/ Intruder \/ SourceAppears \/ LibraryAppears \/ Timeout \/ Resync
  BY <1>3, InductiveVCenter
<1>4. CASE QuotaChecked \/ Delete
  BY <1>4, InductiveWrites
<1>5. CASE Takeover \/ \E m \in Manager : Crash(m)
  BY <1>5, InductiveManagers
<1> QED
  BY <1>1, <1>2, <1>3, <1>4, <1>5 DEF Next

\* The invariant holds when the request is made.
LEMMA InductiveInit ==
  Init => Inductive
<1> SUFFICES ASSUME Init PROVE Inductive
  OBVIOUS
<1>1. leader \in Manager
  BY PublishAssumption DEF Init
<1>2. item \in [by: {0} \cup Attempts, tag: BOOLEAN, ex: BOOLEAN] /\ item.by = 0
  BY DEF Init, NoItem
<1>3. \E s \in Setups : kind = s[1] /\ ttl = s[2]
  BY Zenon DEF Init
<1>4. tasks \in [Attempts -> TaskState] /\ sent \in [Attempts -> Nat] /\ calls \subseteq (Manager \X Attempts)
  BY DEF Init, TaskState
<1>5. TypeOK
  <2>1. rec \in [Manager -> Rec] /\ req \in Request /\ faults \in 0..MaxFaults
    BY NewRequestType, PublishAssumption DEF Init
  <2>2. /\ late \in BOOLEAN /\ source \in {"missing", "uncreated", "created"} /\ image \in BOOLEAN
        /\ library \in {"missing", "unready", "ready"} /\ wake \in BOOLEAN
        /\ dropped \in BOOLEAN
    BY DEF Init
  <2> QED
    BY <1>1, <1>2, <1>3, <1>4, <2>1, <2>2, Zenon DEF TypeOK
<1>6. Founded(NewRequest) /\ \A m \in Manager : ReconcileSound(m)
  BY DEF Init, ReconcileSound, Founded, NewRequest, Idle, Busy
<1>7. RequestSound /\ OneTaskPerActID
  <2>1. req.att = 0 /\ ~req.deleting
    BY DEF Init, NewRequest
  <2> QED
    BY <1>2, <1>6, <2>1 DEF Init, RequestSound, OneTaskPerActID
<1> QED
  BY <1>5, <1>6, <1>7 DEF Init, Inductive, Attended

\* What all steps keep: the request and every copy of it are sound, and it is attended to.
THEOREM Inductiveness == Spec => []Inductive
<1>1. Inductive /\ [Next]_vars => Inductive'
  BY InductiveNext
<1> QED
  BY <1>1, InductiveInit, PTL DEF Spec

\* The types.
THEOREM TypeCorrect == Spec => []TypeOK
<1>1. Inductive => TypeOK
  BY DEF Inductive
<1> QED
  BY <1>1, Inductiveness, PTL

\* No two calls are made with one activation ID, not even by two managers.
THEOREM AlwaysOneTaskPerActID == Spec => []OneTaskPerActID
<1>1. Inductive => OneTaskPerActID
  BY DEF Inductive
<1> QED
  BY <1>1, Inductiveness, PTL

\* A request is ready only if an item of its own and the image of that are there.
THEOREM ReadyAlwaysPublished == Spec => []ReadyIsPublished
<1>1. Inductive => ReadyIsPublished
  BY DEF Inductive, RequestSound, Founded, ReadyIsPublished
<1> QED
  BY <1>1, Inductiveness, PTL

\* When no reconcile runs and none is due, the request needs none, or the latest one has
\* ended with a terminal error behind which its patch failed.
THEOREM NeverLostWakeup == Spec => []NoLostWakeup
<1>1. Inductive => NoLostWakeup
  <2> SUFFICES ASSUME Inductive, AtRest, req.ex
               PROVE  ~req.deleting /\ (Terminal \/ req.quota = "asked" \/ req.tgt = "ItemAlreadyExists" \/ dropped)
    BY DEF NoLostWakeup
  <2>1. leader \in Manager
    BY DEF Inductive, TypeOK
  <2>2. ~wake /\ ~Busy(leader)
    BY <2>1 DEF AtRest, Busy
  <2>3. Ended(req) \/ (dropped /\ ~req.deleting)
    BY <2>2 DEF Inductive, Attended
  <2> QED
    BY <2>3 DEF Ended, Terminal
<1> QED
  BY <1>1, Inductiveness, PTL
=============================================================================
