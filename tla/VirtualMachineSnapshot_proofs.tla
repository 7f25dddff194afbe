-------------------- MODULE VirtualMachineSnapshot_proofs --------------------
(***************************************************************************)
(* Proofs about VirtualMachineSnapshot, for any finite set of snapshots    *)
(* and any number of reverts and faults.                                   *)
(***************************************************************************)
EXTENDS VirtualMachineSnapshot, WellFoundedInduction, TLAPS

-----------------------------------------------------------------------------
(* The operators of the model. *)

\* The head of the sorted list is the oldest of the snapshots in it.
LEMMA OldestIsLeast ==
  ASSUME NEW S, S \subseteq Nat, S # {}
  PROVE  Oldest(S) \in S /\ \A t \in S : Oldest(S) <= t
<1> DEFINE R == {ss \in Nat \X Nat : ss[1] < ss[2]}
<1>1. IsWellFoundedOn(R, Nat)
  BY NatLessThanWellFounded DEF OpToRel
<1>2. PICK x \in S : \A y \in S : <<y, x>> \notin R
  <2> HIDE DEF R
  <2> QED
    BY <1>1, WFMin
<1>3. \A y \in S : x <= y
  <2>1. ASSUME NEW y \in S PROVE x <= y
    <3>1. <<y, x>> \in Nat \X Nat /\ <<y, x>>[1] = y /\ <<y, x>>[2] = x
      OBVIOUS
    <3>2. ~(y < x)
      BY <1>2, <3>1
    <3> QED
      BY <3>2
  <2> QED
    BY <2>1
<1> QED
  BY <1>3 DEF Oldest, Min

\* A reconcile that has ended knows of nothing.
LEMMA IdleTypes ==
  /\ EmptyTree \in Tree /\ NoTask \in Task /\ NoConds \in Conds /\ NoObject \in Object
  /\ VMIdle \in VMRec /\ SnapIdle \in SnapRec
  /\ VMIdle.pc = "idle" /\ SnapIdle.pc = "idle" /\ NoTask.kind = "none"
  /\ VMIdle.tree = EmptyTree /\ \A s \in Snap : EmptyTree.n[s] = 0
<1>1. EmptyTree \in Tree /\ (\A s \in Snap : EmptyTree.n[s] = 0) /\ NoTask \in Task /\ NoConds \in Conds
  BY SnapshotAssumption DEF EmptyTree, Tree, NoTask, Task, NoConds, Conds, None
<1>2. NoObject \in Object
  BY <1>1 DEF NoObject, Object
<1> QED
  BY <1>1, <1>2 DEF VMIdle, VMRec, SnapIdle, SnapRec, NoTask

\* A new name for what changes when a reconcile goes on: nothing but the named fields.
LEMMA VMGotoEffect ==
  ASSUME TypeOK, NEW p \in {"idle", "tasks", "revert", "reverting", "restore", "list", "create",
               "creating", "failed", "success"}, VMGoto(p)
  PROVE  /\ vmr' \in VMRec /\ vmr'.pc = p
         /\ vmr'.tree = vmr.tree /\ vmr'.pick = vmr.pick /\ vmr'.want = vmr.want
BY DEF VMGoto, TypeOK, VMRec

LEMMA VMGoErrEffect ==
  ASSUME TypeOK, NEW p \in {"restore", "list"}, NEW e \in BOOLEAN,
         vmr' = [vmr EXCEPT !.pc = p, !.err = e]
  PROVE  /\ vmr' \in VMRec /\ vmr'.pc = p
         /\ vmr'.tree = vmr.tree /\ vmr'.pick = vmr.pick /\ vmr'.want = vmr.want
BY DEF TypeOK, VMRec

LEMMA SnapGotoEffect ==
  ASSUME TypeOK, NEW p \in {"idle", "remove", "removing", "sync"}, snr' = [snr EXCEPT !.pc = p]
  PROVE  snr' \in SnapRec /\ snr'.pc = p /\ snr'.s = snr.s
BY DEF TypeOK, SnapRec

LEMMA FaultType ==
  ASSUME TypeOK, Fault \/ UNCHANGED faults
  PROVE  faults' \in 0..MaxFaults
BY SnapshotAssumption DEF Fault, TypeOK

\* What a task makes of the tree.
LEMMA AfterEffect ==
  ASSUME TypeOK, Subjects, Running, vc' = After(task)
  PROVE  /\ vc' \in Tree
         /\ \A s \in Snap : vc'.n[s] = IF task.kind = "create" /\ s = task.s THEN vc.n[s] + 1
                                       ELSE IF task.kind = "remove" /\ s = task.s THEN 0 ELSE vc.n[s]
         /\ task.kind = "revert" => vc'.cur = task.s
<1>0. vc \in Tree /\ task.s \in Snap /\ task.kind \in {"create", "remove", "revert"}
  BY DEF TypeOK, Task, Running, Subjects
<1>1. CASE task.kind = "create"
  <2>1. vc' = [vc EXCEPT !.n[task.s] = @ + 1, !.up[task.s] = vc.cur, !.cur = task.s]
    BY <1>1 DEF After
  <2>2. vc'.n = [vc.n EXCEPT ![task.s] = @ + 1] /\ vc'.up = [vc.up EXCEPT ![task.s] = vc.cur] /\ vc'.cur = task.s
    BY <2>1, <1>0 DEF Tree
  <2>3. vc' \in Tree
    <3>1. [vc.n EXCEPT ![task.s] = @ + 1] \in [Snap -> Nat] /\ [vc.up EXCEPT ![task.s] = vc.cur] \in [Snap -> Snap \cup {None}]
      BY <1>0 DEF Tree
    <3>2. vc' = [n |-> vc'.n, up |-> vc'.up, cur |-> vc'.cur]
      BY <2>1, <1>0 DEF Tree
    <3> QED
      BY <3>1, <3>2, <2>2, <1>0 DEF Tree
  <2> QED
    BY <1>0, <1>1, <2>2, <2>3 DEF Tree
<1>2. CASE task.kind = "revert"
  BY <1>0, <1>2 DEF After, Tree
<1>3. CASE task.kind = "remove"
  <2>1. vc.n[task.s] = 1
    BY <1>3 DEF Subjects
  <2> DEFINE y == After(task)
  <2>2. y = [n   |-> [vc.n EXCEPT ![task.s] = @ - 1],
             up  |-> [s \in Snap |-> IF vc.up[s] = task.s THEN vc.up[task.s] ELSE vc.up[s]],
             cur |-> IF vc.cur = task.s THEN vc.up[task.s] ELSE vc.cur]
    BY <1>3 DEF After
  <2>3. [vc.n EXCEPT ![task.s] = @ - 1] \in [Snap -> Nat]
    BY <1>0, <2>1 DEF Tree
  <2>4. y \in Tree
    BY <1>0, <2>2, <2>3 DEF Tree
  <2>5. \A s \in Snap : y.n[s] = IF s = task.s THEN 0 ELSE vc.n[s]
    BY <1>0, <2>1, <2>2 DEF Tree
  <2> QED
    BY <1>3, <2>4, <2>5
<1> QED
  BY <1>0, <1>1, <1>2, <1>3

-----------------------------------------------------------------------------
(* What steps do to the objects. *)

\* From o to n: no way back, the finalizer goes last, and only who has succeeded says so.
Moves(s, o, n) ==
  /\ n \in Object /\ SoundObject(n) /\ CopyOf(o, n)
  /\ o.st = "none" /\ n.st # "none" => \A t \in Snap : t < s => snap[t].st # "none"
  /\ o.fin /\ ~n.fin => snr.pc = "sync" /\ snr.s = s
  /\ n.cond.created = "True" => o.cond.created = "True" \/ (vmr.pc = "success" /\ vmr.pick = s)
ObjectsMove ==
  /\ snap' \in [Snap -> Object] /\ snapStale' \subseteq Snap
  /\ \A s \in Snap : Moves(s, snap[s], snap'[s])

LEMMA Stays ==
  ASSUME TypeOK, Objects, UNCHANGED snap, snapStale' \subseteq Snap
  PROVE  ObjectsMove
BY DEF TypeOK, Objects, ObjectsMove, Moves, CopyOf

\* A write of one object.
LEMMA Written ==
  ASSUME TypeOK, Objects, NEW s \in Snap, NEW o, Moves(s, snap[s], o),
         WriteSnap(s, o) \/ UNCHANGED snapVars
  PROVE  ObjectsMove /\ UNCHANGED snapCache
<1>1. CASE UNCHANGED snapVars
  BY <1>1, Stays DEF snapVars, TypeOK
<1>2. CASE WriteSnap(s, o)
  <2>1. o \in Object
    BY DEF Moves
  <2>2. /\ snap' \in [Snap -> Object] /\ snapStale' \subseteq Snap
        /\ snap'[s] = o /\ \A t \in Snap : t # s => snap'[t] = snap[t]
    BY <1>2, <2>1 DEF WriteSnap, TypeOK
  <2>3. \A t \in Snap : t # s => Moves(t, snap[t], snap[t])
    BY DEF TypeOK, Objects, Moves, CopyOf
  <2>4. ASSUME NEW t \in Snap PROVE Moves(t, snap[t], snap'[t])
    <3>1. CASE t = s
      BY <3>1, <2>2
    <3>2. CASE t # s
      <4>1. snap'[t] = snap[t]
        BY <3>2, <2>2
      <4> QED
        BY <3>2, <4>1, <2>3
    <3> QED
      BY <3>1, <3>2
  <2> QED
    BY <1>2, <2>2, <2>4 DEF ObjectsMove, WriteSnap
<1> QED
  BY <1>1, <1>2

\* A patch of the condition Created.
LEMMA PatchCreatedMoves ==
  ASSUME TypeOK, Objects, NEW s \in Snap, NEW base \in Conds, NEW c \in {"InProgress", "Failed", "True"},
         c = "True" => vmr.pc = "success" /\ vmr.pick = s,
         PatchCreated(s, base, c)
  PROVE  ObjectsMove /\ UNCHANGED snapCache /\ Conditions(s, base, c) \in Conds
<1> DEFINE k == Conditions(s, base, c)
           o == [snap[s] EXCEPT !.cond = k]
<1>0. snap[s] \in Object /\ Exists(snap[s]) /\ SoundObject(snap[s])
  BY DEF TypeOK, Objects, PatchCreated
<1>1. k \in Conds /\ (k.created = snap[s].cond.created \/ k.created = c)
  BY <1>0 DEF Conditions, Conds, Object
<1> HIDE DEF k
<1>2. o \in Object /\ o.cond = k /\ o.st = snap[s].st /\ o.fin = snap[s].fin /\ o.owner = snap[s].owner
  BY <1>0, <1>1 DEF Object
<1>3. WriteSnap(s, o) \/ UNCHANGED snapVars
  BY DEF PatchCreated, k
<1> HIDE DEF o
<1>4. Moves(s, snap[s], o)
  BY <1>0, <1>1, <1>2 DEF Moves, SoundObject, CopyOf, Exists
<1> QED
  BY <1>1, <1>3, <1>4, Written DEF k

LEMMA PatchLostMoves ==
  ASSUME TypeOK, Objects, NEW s \in Snap, PatchLost(s)
  PROVE  ObjectsMove /\ UNCHANGED snapCache /\ faults' \in 0..MaxFaults
BY Stays, FaultType DEF PatchLost, snapVars, TypeOK

\* The deferred patch of the snapshot controller.
LEMMA PatchSnapMoves ==
  ASSUME TypeOK, Objects, NEW s \in Snap, NEW err \in BOOLEAN, NEW b \in Object, NEW w \in Object,
         b = snapCache[s], w.fin = b.fin \/ w.fin, w.owner = b.owner \/ b.fin,
         PatchSnap(s, b, w, err)
  PROVE  ObjectsMove /\ UNCHANGED snapCache /\ snapQueue' \subseteq Snap
<1> DEFINE o == Patched(snap[s], b, w)
<1>0. snap[s] \in Object /\ SoundObject(snap[s]) /\ CopyOf(b, snap[s]) /\ snapQueue \subseteq Snap
  BY DEF TypeOK, Objects
<1>1. snapQueue' \subseteq Snap
  BY <1>0 DEF PatchSnap
<1>2. CASE Exists(snap[s]) /\ (WriteSnap(s, o) \/ UNCHANGED snapVars)
  <2> DEFINE p == [snap[s] EXCEPT !.fin = Merged(b.fin, w.fin, snap[s].fin),
                     !.owner = Merged(b.owner, w.owner, snap[s].owner),
                     !.csi = Merged(b.csi, w.csi, snap[s].csi),
                     !.cond.synced = Merged(b.cond.synced, w.cond.synced, snap[s].cond.synced),
                     !.cond.ready  = Merged(b.cond.ready, w.cond.ready, snap[s].cond.ready)]
  <2>1. /\ p \in Object /\ p.st = snap[s].st /\ p.cond.created = snap[s].cond.created
        /\ p.fin = Merged(b.fin, w.fin, snap[s].fin) /\ p.owner = Merged(b.owner, w.owner, snap[s].owner)
    <3> DEFINE f == Merged(b.fin, w.fin, snap[s].fin)
               g == Merged(b.owner, w.owner, snap[s].owner)
               i == Merged(b.csi, w.csi, snap[s].csi)
               y == Merged(b.cond.synced, w.cond.synced, snap[s].cond.synced)
               r == Merged(b.cond.ready, w.cond.ready, snap[s].cond.ready)
               k == [snap[s].cond EXCEPT !.synced = y, !.ready = r]
    <3>1. /\ f \in BOOLEAN /\ g \in BOOLEAN /\ i \in {"none", "requested", "completed"}
          /\ y \in BOOLEAN /\ r \in {"unset", "WaitingForCreation", "WaitingForCSISync", "True"}
          /\ snap[s].cond \in Conds
      BY <1>0 DEF Object, Conds, Merged
    <3> HIDE DEF f, g, i, y, r
    <3>2. k \in Conds /\ k.created = snap[s].cond.created
      BY <3>1 DEF Conds
    <3>3. p = [snap[s] EXCEPT !.fin = f, !.owner = g, !.csi = i, !.cond = k]
      BY <1>0, <3>1 DEF f, g, i, y, r, Object, Conds
    <3> HIDE DEF k, p
    <3>4. /\ p \in Object /\ p.st = snap[s].st /\ p.cond.created = snap[s].cond.created
          /\ p.fin = f /\ p.owner = g
      BY <1>0, <3>1, <3>2, <3>3 DEF Object
    <3> QED
      BY <3>4 DEF f, g
  <2>2. o = [p EXCEPT !.st = IF p.st = "deleting" /\ ~p.fin THEN "gone" ELSE @]
    BY DEF Patched
  <2> HIDE DEF p, o
  <2>3. p.fin = snap[s].fin \/ p.fin
    BY <2>1 DEF Merged
  <2>4. p.st = "deleting" => p.fin
    BY <1>0, <2>1, <2>3 DEF SoundObject
  <2>5. o = p
    BY <2>1, <2>2, <2>4 DEF Object
  <2>6. p.owner => snap[s].owner \/ snap[s].fin
    BY <1>0, <1>2, <2>1 DEF Merged, CopyOf, Exists
  <2>7. Moves(s, snap[s], o)
    BY <1>0, <1>2, <2>1, <2>3, <2>4, <2>5, <2>6 DEF Moves, SoundObject, CopyOf, Exists
  <2> QED
    BY <1>1, <1>2, <2>7, Written
<1>3. CASE UNCHANGED snapVars
  BY <1>1, <1>3, Stays DEF snapVars, TypeOK
<1> QED
  BY <1>2, <1>3 DEF PatchSnap

\* What the snapshot controller makes of its copy.
LEMMA ReadyType ==
  ASSUME NEW o \in Object
  PROVE  Ready(o) \in Object /\ Ready(o).fin = o.fin /\ Ready(o).owner = o.owner
<1>1. CASE o.st = "deleting"
  BY <1>1 DEF Ready
<1>2. CASE o.st # "deleting"
  <2> DEFINE r == CASE o.cond.created # "True" -> "WaitingForCreation"
                    [] o.cond.created = "True" /\ ~o.cond.synced -> "WaitingForCSISync"
                    [] o.cond.created = "True" /\ o.cond.synced -> "True"
             k == [o.cond EXCEPT !.ready = r]
  <2>1. r \in {"WaitingForCreation", "WaitingForCSISync", "True"} /\ o.cond \in Conds
    BY DEF Object, Conds
  <2>2. Ready(o) = [o EXCEPT !.cond.ready = r]
    BY <1>2 DEF Ready
  <2> HIDE DEF r
  <2>3. k \in Conds
    BY <2>1 DEF Conds
  <2>4. Ready(o) = [o EXCEPT !.cond = k]
    BY <2>2 DEF Object
  <2> HIDE DEF k
  <2> QED
    BY <2>3, <2>4 DEF Object
<1> QED
  BY <1>1, <1>2

LEMMA NormalType ==
  ASSUME NEW o \in Object, NEW sized \in BOOLEAN
  PROVE  Normal(o, sized) \in Object /\ Normal(o, sized).fin = o.fin /\ Normal(o, sized).owner
<1>1. CASE o.cond.created # "True"
  BY <1>1 DEF Normal, Object
<1>2. CASE o.cond.created = "True"
  <2> DEFINE i == IF o.csi = "completed" THEN o.csi ELSE "requested"
             y == sized /\ o.csi = "completed"
             k == [o.cond EXCEPT !.synced = y]
  <2>1. i \in {"requested", "completed"} /\ y \in BOOLEAN /\ o.cond \in Conds
    BY DEF Object
  <2>2. Normal(o, sized) = [o EXCEPT !.owner = TRUE, !.csi = i, !.cond.synced = y]
    BY <1>2 DEF Normal, Object
  <2> HIDE DEF i, y
  <2>3. k \in Conds
    BY <2>1 DEF Conds
  <2>4. Normal(o, sized) = [o EXCEPT !.owner = TRUE, !.csi = i, !.cond = k]
    BY <2>2 DEF Object
  <2> HIDE DEF k
  <2> QED
    BY <2>1, <2>3, <2>4 DEF Object
<1> QED
  BY <1>1, <1>2

LEMMA ReconcileNormalMoves ==
  ASSUME TypeOK, Objects, NEW s \in Snap, ReconcileNormal(s)
  PROVE  ObjectsMove /\ UNCHANGED snapCache /\ snapQueue' \subseteq Snap /\ faults' \in 0..MaxFaults
<1> DEFINE o == snapCache[s]
           a == [o EXCEPT !.fin = TRUE]
<1>0. o \in Object
  BY DEF TypeOK
<1>1. faults' \in 0..MaxFaults
  BY FaultType DEF ReconcileNormal
<1>2. a \in Object /\ a.fin /\ a.owner = o.owner
  BY <1>0 DEF Object
<1> HIDE DEF a
<1>3. CASE UNCHANGED snapVars /\ snapQueue' = snapQueue \ {s}
  BY <1>1, <1>3, Stays DEF snapVars, TypeOK
<1>4. CASE PatchSnap(s, o, Ready(a), FALSE)
  <2>1. Ready(a) \in Object /\ Ready(a).fin /\ Ready(a).owner = o.owner
    BY <1>2, ReadyType
  <2> QED
    BY <1>0, <1>1, <1>4, <2>1, PatchSnapMoves
<1>5. CASE o.fin /\ \E z \in BOOLEAN : PatchSnap(s, o, Ready(Normal(o, z)), ~z)
  <2>1. PICK z \in BOOLEAN : PatchSnap(s, o, Ready(Normal(o, z)), ~z)
    BY <1>5
  <2> DEFINE m == Normal(o, z)
  <2>2. m \in Object /\ m.fin = o.fin
    BY <1>0, NormalType
  <2> HIDE DEF m
  <2>3. Ready(m) \in Object /\ Ready(m).fin = o.fin
    BY <2>2, ReadyType
  <2>4. (~z) \in BOOLEAN
    OBVIOUS
  <2>5. PatchSnap(s, o, Ready(m), ~z)
    BY <2>1 DEF m
  <2> QED
    BY <1>0, <1>1, <1>5, <2>3, <2>4, <2>5, PatchSnapMoves
<1> QED
  <2>1. \/ UNCHANGED snapVars /\ snapQueue' = snapQueue \ {s}
        \/ PatchSnap(s, o, Ready(a), FALSE)
        \/ o.fin /\ PatchSnap(s, o, Ready(Normal(o, TRUE)), FALSE)
        \/ o.fin /\ PatchSnap(s, o, Ready(Normal(o, FALSE)), TRUE)
    BY DEF ReconcileNormal, a
  <2>2. ASSUME o.fin, PatchSnap(s, o, Ready(Normal(o, TRUE)), FALSE)
        PROVE  \E z \in BOOLEAN : PatchSnap(s, o, Ready(Normal(o, z)), ~z)
    <3>1. PatchSnap(s, o, Ready(Normal(o, TRUE)), ~TRUE)
      <4>1. (~TRUE) = FALSE
        OBVIOUS
      <4> QED
        BY <2>2, <4>1
    <3> QED
      BY <3>1
  <2>3. ASSUME o.fin, PatchSnap(s, o, Ready(Normal(o, FALSE)), TRUE)
        PROVE  \E z \in BOOLEAN : PatchSnap(s, o, Ready(Normal(o, z)), ~z)
    <3>1. PatchSnap(s, o, Ready(Normal(o, FALSE)), ~FALSE)
      <4>1. (~FALSE) = TRUE
        OBVIOUS
      <4> QED
        BY <2>3, <4>1
    <3> QED
      BY <3>1
  <2> QED
    BY <2>1, <2>2, <2>3, <1>3, <1>4, <1>5

\* The removal of the finalizer ends the object.
LEMMA RemoveFinalizerMoves ==
  ASSUME TypeOK, Objects, Subjects, RemoveFinalizer
  PROVE  /\ ObjectsMove /\ UNCHANGED snapCache /\ snapQueue' \subseteq Snap /\ faults' \in 0..MaxFaults
         /\ snr' = SnapIdle
<1>0. snr.s \in Snap /\ snr.pc = "sync" /\ snap[snr.s] \in Object /\ snap[snr.s].st \in {"deleting", "gone"}
  BY DEF TypeOK, Subjects, RemoveFinalizer
<1>1. snapQueue' \subseteq Snap /\ faults' \in 0..MaxFaults /\ snr' = SnapIdle
  BY <1>0, FaultType DEF RemoveFinalizer, SnapReturn, PatchLost, TypeOK
<1>2. CASE PatchLost(snr.s)
  BY <1>0, <1>1, <1>2, PatchLostMoves
<1>3. CASE Exists(snap[snr.s]) /\ WriteSnap(snr.s, [snap[snr.s] EXCEPT !.fin = FALSE, !.st = "gone"])
  <2> DEFINE n == [snap[snr.s] EXCEPT !.fin = FALSE, !.st = "gone"]
  <2>1. n \in Object /\ n.st = "gone" /\ ~n.fin /\ n.cond = snap[snr.s].cond
    BY <1>0 DEF Object
  <2> HIDE DEF n
  <2>2. Moves(snr.s, snap[snr.s], n)
    BY <1>0, <2>1 DEF Moves, SoundObject, CopyOf, Exists
  <2> QED
    BY <1>0, <1>1, <1>3, <2>2, Written DEF n
<1> QED
  BY <1>2, <1>3 DEF RemoveFinalizer

\* What users and CSI do.
LEMMA UserMoves ==
  ASSUME TypeOK, Objects, NEW s \in Snap,
         CreateSnapshotObject(s) \/ DeleteSnapshotObject(s) \/ CSISync(s)
  PROVE  ObjectsMove /\ UNCHANGED snapCache
<1>0. snap[s] \in Object /\ SoundObject(snap[s]) /\ NoObject \in Object
  BY IdleTypes DEF TypeOK, Objects
<1>1. CASE CreateSnapshotObject(s)
  <2> DEFINE n == [NoObject EXCEPT !.st = "live"]
  <2>1. n \in Object /\ n.st = "live" /\ ~n.fin /\ ~n.owner /\ n.cond.created = "unset"
    BY <1>0 DEF NoObject, NoConds, Object
  <2> HIDE DEF n
  <2>2. Moves(s, snap[s], n)
    BY <1>0, <1>1, <2>1 DEF CreateSnapshotObject, Moves, SoundObject, CopyOf, Exists
  <2> QED
    BY <1>1, <2>2, Written DEF CreateSnapshotObject, n
<1>2. CASE DeleteSnapshotObject(s)
  <2> DEFINE n == [snap[s] EXCEPT !.st = IF snap[s].fin THEN "deleting" ELSE "gone"]
  <2>1. n \in Object /\ n.st = (IF snap[s].fin THEN "deleting" ELSE "gone") /\ n.fin = snap[s].fin
        /\ n.owner = snap[s].owner /\ n.cond = snap[s].cond
    BY <1>0 DEF Object
  <2> HIDE DEF n
  <2>2. Moves(s, snap[s], n)
    BY <1>0, <1>2, <2>1 DEF DeleteSnapshotObject, Moves, SoundObject, CopyOf, Exists
  <2> QED
    BY <1>2, <2>2, Written DEF DeleteSnapshotObject, n
<1>3. CASE CSISync(s)
  <2> DEFINE n == [snap[s] EXCEPT !.csi = "completed"]
  <2>1. n \in Object /\ n.st = snap[s].st /\ n.fin = snap[s].fin /\ n.owner = snap[s].owner /\ n.cond = snap[s].cond
    BY <1>0 DEF Object
  <2> HIDE DEF n
  <2>2. Moves(s, snap[s], n)
    BY <1>0, <1>3, <2>1 DEF CSISync, Moves, SoundObject, CopyOf, Exists
  <2> QED
    BY <1>3, <2>2, Written DEF CSISync, n
<1> QED
  BY <1>1, <1>2, <1>3

-----------------------------------------------------------------------------
(* What steps do to the reconciles. *)

\* The snapshot that is picked is live in the cache and has its owner there; those before
\* it are created or gone.
LEMMA PickEffect ==
  ASSUME TypeOK, Objects, PickSnapshot
  PROVE  /\ ObjectsMove /\ UNCHANGED snapCache /\ faults' \in 0..MaxFaults /\ vmQueue' \in BOOLEAN
         /\ \/ vmr' = VMIdle
            \/ /\ vmr' \in VMRec /\ vmr'.pc = "create" /\ vmr'.tree = vmr.tree /\ vmr'.pick \in Snap
               /\ snapCache[vmr'.pick].st = "live" /\ snapCache[vmr'.pick].owner
               /\ \A t \in Snap : t < vmr'.pick => \/ ~Exists(snapCache[t])
                                                   \/ snapCache[t].cond.created = "True"
<1> DEFINE pending == {s \in Snap : Exists(snapCache[s]) /\ snapCache[s].cond.created # "True"}
           s == Oldest(pending)
           old == snapCache[s].cond
           more == \E t \in pending \ {s} : snapCache[t].st = "live"
           due == /\ pending # {} /\ snapCache[s].st = "live" /\ snapCache[s].owner
                  /\ ~InProgress(snapCache[s])
<1>0. vmr \in VMRec /\ vmQueue \in BOOLEAN /\ snapStale \subseteq Snap /\ faults \in 0..MaxFaults
  BY DEF TypeOK
<1>1. \/ /\ due /\ PatchCreated(s, old, "InProgress")
         /\ vmr' = [vmr EXCEPT !.pc = "create", !.pick = s, !.base = Conditions(s, old, "InProgress"),
                      !.more = more]
         /\ UNCHANGED <<vmQueue, faults>>
      \/ due /\ PatchLost(s) /\ VMReturn(TRUE)
      \/ ~due /\ VMReturn(vmr.err) /\ UNCHANGED <<snapVars, faults>>
  BY DEF PickSnapshot
<1>2. ASSUME due PROVE /\ s \in Snap /\ snapCache[s].st = "live" /\ snapCache[s].owner /\ old \in Conds
                       /\ \A t \in Snap : t < s => ~Exists(snapCache[t]) \/ snapCache[t].cond.created = "True"
  <2>1. pending \subseteq Nat /\ pending # {} /\ pending \subseteq Snap /\ Snap \subseteq Nat
    BY <1>2, SnapshotAssumption
  <2>2. s \in pending /\ \A t \in pending : s <= t
    <3> HIDE DEF pending
    <3> QED
      BY <2>1, OldestIsLeast
  <2>3. snapCache[s].st = "live" /\ snapCache[s].owner
    BY <1>2
  <2> HIDE DEF s
  <2>4. \A t \in Snap : t < s => t \notin pending
    BY <2>1, <2>2
  <2>5. old \in Conds
    BY <2>1, <2>2 DEF TypeOK, Object
  <2> QED
    BY <2>1, <2>2, <2>3, <2>4, <2>5
<1> HIDE DEF s, more
<1>3. more \in BOOLEAN
  BY DEF more
<1>4. CASE /\ due /\ PatchCreated(s, old, "InProgress")
           /\ vmr' = [vmr EXCEPT !.pc = "create", !.pick = s, !.base = Conditions(s, old, "InProgress"),
                        !.more = more]
           /\ UNCHANGED <<vmQueue, faults>>
  <2>1. ObjectsMove /\ UNCHANGED snapCache /\ Conditions(s, old, "InProgress") \in Conds
    BY <1>2, <1>4, PatchCreatedMoves
  <2>2. vmr' \in VMRec /\ vmr'.pc = "create" /\ vmr'.tree = vmr.tree /\ vmr'.pick = s
    <3> DEFINE k == Conditions(s, old, "InProgress")
    <3> HIDE DEF k
    <3>1. vmr' = [vmr EXCEPT !.pc = "create", !.pick = s, !.base = k, !.more = more] /\ k \in Conds /\ s \in Snap
      BY <1>2, <1>4, <2>1 DEF k
    <3> QED
      BY <1>0, <1>3, <3>1 DEF VMRec
  <2> QED
    BY <1>0, <1>2, <1>4, <2>1, <2>2
<1>5. CASE due /\ PatchLost(s) /\ VMReturn(TRUE)
  BY <1>0, <1>2, <1>5, PatchLostMoves DEF VMReturn
<1>6. CASE ~due /\ VMReturn(vmr.err) /\ UNCHANGED <<snapVars, faults>>
  BY <1>0, <1>6, Stays DEF VMReturn, snapVars, VMRec
<1> QED
  BY <1>1, <1>4, <1>5, <1>6

\* Who waits is told; nobody else notices.
LEMMA TellEffect ==
  ASSUME TypeOK, Waiting, Subjects, NEW ok \in BOOLEAN, Tell(ok)
  PROVE  /\ vmr' \in VMRec /\ snr' \in SnapRec /\ snapQueue' \subseteq Snap
         /\ vmr'.tree = vmr.tree /\ vmr'.pick = vmr.pick /\ vmr'.want = vmr.want
         /\ vmr.pc = "creating" => /\ vmr'.pc \in {"success", "failed"}
                                   /\ vmr'.pc = "success" => ok /\ vc'.n[vmr.pick] = 1
         /\ vmr.pc = "reverting" => vmr'.pc \in {"restore", "list"}
         /\ vmr.pc \notin {"creating", "reverting"} => vmr' = vmr
         /\ snr.pc = "removing" => \/ snr' = SnapIdle
                                   \/ ok /\ snr'.pc = "sync" /\ snr'.s = snr.s
         /\ snr.pc # "removing" => snr' = snr
<1>0. vmr \in VMRec /\ snr \in SnapRec /\ snapQueue \subseteq Snap /\ SnapIdle \in SnapRec
  BY IdleTypes DEF TypeOK
<1>1. CASE task.kind = "create" /\ vmr.pc = "creating"
  <2>1. task.s = vmr.pick /\ snr.pc # "removing"
    BY <1>1 DEF Waiting
  <2> DEFINE q == IF ok /\ vc'.n[task.s] = 1 THEN "success" ELSE "failed"
  <2>2. vmr' = [vmr EXCEPT !.pc = q] /\ snr' = snr /\ snapQueue' = snapQueue
    BY <1>1 DEF Tell
  <2>3. q \in {"success", "failed"} /\ (q = "success" => ok /\ vc'.n[vmr.pick] = 1)
    BY <2>1
  <2> HIDE DEF q
  <2>4. vmr' \in VMRec /\ vmr'.pc = q /\ vmr'.tree = vmr.tree /\ vmr'.pick = vmr.pick /\ vmr'.want = vmr.want
    BY <1>0, <2>2, <2>3 DEF VMRec
  <2> QED
    BY <1>0, <1>1, <2>1, <2>2, <2>3, <2>4
<1>2. CASE task.kind = "revert" /\ vmr.pc = "reverting"
  <2>1. snr.pc # "removing"
    BY <1>2 DEF Waiting
  <2> DEFINE q == IF ok THEN "restore" ELSE "list"
             e == ~ok
  <2>2. vmr' = [vmr EXCEPT !.pc = q, !.err = e] /\ snr' = snr /\ snapQueue' = snapQueue
    BY <1>2 DEF Tell
  <2>3. q \in {"restore", "list"} /\ e \in BOOLEAN
    OBVIOUS
  <2> HIDE DEF q, e
  <2>4. vmr' \in VMRec /\ vmr'.pc = q /\ vmr'.tree = vmr.tree /\ vmr'.pick = vmr.pick /\ vmr'.want = vmr.want
    BY <2>2, <2>3, VMGoErrEffect
  <2> QED
    BY <1>0, <1>2, <2>1, <2>2, <2>3, <2>4
<1>3. CASE task.kind = "remove" /\ snr.pc = "removing"
  <2>1. vmr.pc \notin {"creating", "reverting"} /\ snr.s \in Snap
    BY <1>3 DEF Waiting, Subjects
  <2>2. vmr' = vmr /\ IF ok THEN snr' = [snr EXCEPT !.pc = "sync"] /\ UNCHANGED snapQueue ELSE SnapReturn({snr.s})
    BY <1>3 DEF Tell
  <2>3. CASE ok
    BY <1>0, <1>3, <2>1, <2>2, <2>3, SnapGotoEffect
  <2>4. CASE ~ok
    BY <1>0, <1>3, <2>1, <2>2, <2>4 DEF SnapReturn
  <2> QED
    BY <2>3, <2>4
<1>4. CASE ~(task.kind = "create" /\ vmr.pc = "creating") /\ ~(task.kind = "revert" /\ vmr.pc = "reverting")
           /\ ~(task.kind = "remove" /\ snr.pc = "removing")
  <2>1. vmr.pc \notin {"creating", "reverting"} /\ snr.pc # "removing"
    BY <1>4 DEF Waiting
  <2>2. UNCHANGED <<vmr, snr, snapQueue>>
    BY <1>4 DEF Tell
  <2> QED
    BY <1>0, <2>1, <2>2
<1> QED
  BY <1>1, <1>2, <1>3, <1>4

\* What a step of the VirtualMachine controller amounts to: it ends, begins, goes on, starts
\* to revert, picks a snapshot, decides about it, or starts to take it.
Ends   == vmr.pc \notin {"creating", "reverting"} /\ vmr' = VMIdle /\ UNCHANGED task
Begins == vmr.pc = "idle" /\ vmr'.pc = "tasks" /\ vmr'.tree = vc /\ UNCHANGED task
GoesOn == /\ vmr'.tree = vmr.tree /\ vmr'.pc \in {"list", "revert", "restore"} /\ UNCHANGED task
          /\ vmr.pc \in {"tasks", "revert", "restore"} /\ (vmr'.pc = "revert" => vmr.pc = "tasks")
          /\ vmr'.pc # "list" => vmr'.want \in Snap
Reverts == /\ vmr.pc = "revert" /\ vmr'.pc = "reverting" /\ vmr'.tree = vmr.tree /\ ~Running
           /\ task' = [kind |-> "revert", s |-> vmr.want] /\ vmr.tree.cur # vmr.want
           /\ vmr'.want = vmr.want
Picks == /\ vmr.pc = "list" /\ vmr'.pc = "create" /\ vmr'.tree = vmr.tree /\ UNCHANGED task
         /\ vmr'.pick \in Snap
         /\ snapCache[vmr'.pick].st = "live" /\ snapCache[vmr'.pick].owner
         /\ \A t \in Snap : t < vmr'.pick => ~Exists(snapCache[t]) \/ snapCache[t].cond.created = "True"
Decides == /\ vmr.pc = "create" /\ vmr'.pc \in {"success", "failed"} /\ vmr'.tree = vmr.tree
           /\ vmr'.pick = vmr.pick /\ UNCHANGED task /\ (vmr'.pc = "success" => vmr.tree.n[vmr.pick] = 1)
Takes == /\ vmr.pc = "create" /\ vmr'.pc = "creating" /\ vmr'.tree = vmr.tree /\ vmr'.pick = vmr.pick
         /\ ~Running /\ task' = [kind |-> "create", s |-> vmr.pick] /\ vmr.tree.n[vmr.pick] = 0
VMMoves == Ends \/ Begins \/ GoesOn \/ Reverts \/ Picks \/ Decides \/ Takes

LEMMA VMEffect ==
  ASSUME TypeOK, Objects, Subjects, VMController
  PROVE  /\ TypeOK' /\ ObjectsMove /\ VMMoves
         /\ UNCHANGED <<snapCache, vc, snr, history>>
<1>0. /\ vmr \in VMRec /\ vmQueue \in BOOLEAN /\ VMIdle \in VMRec /\ VMIdle.pc = "idle"
      /\ task \in Task /\ vc \in Tree /\ wantCache \in Snap \cup {None} /\ wantStale \in BOOLEAN
      /\ want \in Snap \cup {None} /\ snapStale \subseteq Snap
  BY IdleTypes DEF TypeOK
<1>1. ASSUME /\ ObjectsMove /\ UNCHANGED snapCache /\ vmr' \in VMRec /\ task' \in Task
             /\ vmQueue' \in BOOLEAN /\ faults' \in 0..MaxFaults
             /\ want' \in Snap \cup {None} /\ wantCache' \in Snap \cup {None} /\ wantStale' \in BOOLEAN
             /\ UNCHANGED <<vc, snapQueue, snr, history, reverts>>
      PROVE  TypeOK' /\ UNCHANGED <<snapCache, vc, snr, history>>
  BY <1>1 DEF TypeOK, ObjectsMove, history
<1>2. CASE StartVM
  <2>1. vmr' = [VMIdle EXCEPT !.pc = "tasks", !.want = wantCache, !.tree = vc, !.recent = task]
    BY <1>2 DEF StartVM
  <2>2. vmr' \in VMRec /\ vmr'.pc = "tasks" /\ vmr'.tree = vc
    BY <1>0, <2>1 DEF VMRec
  <2>3. ObjectsMove /\ UNCHANGED snapCache /\ faults' \in 0..MaxFaults
    BY <1>0, <1>2, Stays, FaultType DEF StartVM, snapVars
  <2> QED
    BY <1>0, <1>1, <1>2, <2>2, <2>3 DEF StartVM, wantVars, VMMoves, Begins
<1>3. CASE CheckTask
  <2>1. ObjectsMove /\ UNCHANGED snapCache /\ faults' \in 0..MaxFaults
    BY <1>0, <1>3, Stays, FaultType DEF CheckTask, snapVars
  <2>2. CASE vmr' = VMIdle /\ vmQueue' \in BOOLEAN
    BY <1>0, <1>1, <1>3, <2>1, <2>2 DEF CheckTask, wantVars, VMMoves, Ends
  <2>3. CASE vmr' = [vmr EXCEPT !.pc = IF vmr.want = None THEN "list" ELSE "revert", !.recent = NoTask] /\ UNCHANGED vmQueue
    <3>1. /\ vmr' \in VMRec /\ vmr'.tree = vmr.tree /\ vmr'.want = vmr.want
          /\ vmr'.pc = (IF vmr.want = None THEN "list" ELSE "revert")
      BY <1>0, <2>3, IdleTypes DEF VMRec
    <3>2. vmr.want \in Snap \cup {None}
      BY <1>0 DEF VMRec
    <3>3. GoesOn
      BY <1>3, <3>1, <3>2 DEF CheckTask, GoesOn
    <3> QED
      BY <1>0, <1>1, <1>3, <2>1, <2>3, <3>1, <3>3 DEF CheckTask, wantVars, VMMoves
  <2> QED
    BY <1>0, <1>3, <2>2, <2>3 DEF CheckTask, VMReturn
<1>4. CASE Revert
  <2>0. vmr.want \in Snap /\ vmr.pc = "revert"
    BY <1>4 DEF Subjects, Revert
  <2>1. ObjectsMove /\ UNCHANGED snapCache /\ faults' \in 0..MaxFaults
    BY <1>0, <1>4, Stays, FaultType DEF Revert, snapVars
  <2>2. CASE VMGoto("restore") /\ UNCHANGED task
    <3>1. vmr' \in VMRec /\ vmr'.pc = "restore" /\ vmr'.tree = vmr.tree /\ vmr'.want = vmr.want
      BY <2>2, VMGotoEffect
    <3> QED
      BY <1>0, <1>1, <1>4, <2>0, <2>1, <2>2, <3>1 DEF Revert, wantVars, VMMoves, GoesOn
  <2>3. CASE ~IsCurrent(vmr.want) /\ ~Running /\ task' = [kind |-> "revert", s |-> vmr.want] /\ VMGoto("reverting")
    <3>1. vmr' \in VMRec /\ vmr'.pc = "reverting" /\ vmr'.tree = vmr.tree /\ vmr'.want = vmr.want
      BY <2>3, VMGotoEffect
    <3>2. task' \in Task
      BY <2>0, <2>3 DEF Task
    <3>3. Reverts
      BY <2>0, <2>3, <3>1 DEF Reverts, IsCurrent
    <3> QED
      BY <1>0, <1>1, <1>4, <2>0, <2>1, <3>1, <3>2, <3>3 DEF Revert, wantVars, VMMoves
  <2>4. CASE vmr' = [vmr EXCEPT !.pc = "list", !.err = TRUE] /\ UNCHANGED task
    <3>1. vmr' \in VMRec /\ vmr'.pc = "list" /\ vmr'.tree = vmr.tree
      BY <2>4, VMGoErrEffect
    <3> QED
      BY <1>0, <1>1, <1>4, <2>0, <2>1, <2>4, <3>1 DEF Revert, wantVars, VMMoves, GoesOn
  <2> QED
    BY <1>4, <2>2, <2>3, <2>4 DEF Revert
<1>5. CASE Restore
  <2>1. ObjectsMove /\ UNCHANGED snapCache /\ faults' \in 0..MaxFaults
    BY <1>0, <1>5, Stays, FaultType DEF Restore, snapVars
  <2>2. want' \in Snap \cup {None} /\ wantCache' \in Snap \cup {None} /\ wantStale' \in BOOLEAN
    BY <1>0, <1>5 DEF Restore, WriteWant, wantVars
  <2>3. CASE vmr' = VMIdle /\ vmQueue' \in BOOLEAN
    BY <1>0, <1>1, <1>5, <2>1, <2>2, <2>3 DEF Restore, VMMoves, Ends
  <2>4. CASE vmr' = [vmr EXCEPT !.pc = "list", !.err = TRUE] /\ UNCHANGED vmQueue
    <3>1. vmr' \in VMRec /\ vmr'.pc = "list" /\ vmr'.tree = vmr.tree
      BY <2>4, VMGoErrEffect
    <3> QED
      BY <1>0, <1>1, <1>5, <2>1, <2>2, <2>4, <3>1 DEF Restore, VMMoves, GoesOn
  <2> QED
    BY <1>0, <1>5, <2>3, <2>4 DEF Restore, VMReturn
<1>6. CASE PickSnapshot
  <2>1. UNCHANGED task /\ vmr.pc = "list" /\ UNCHANGED <<wantVars, vc, snapQueue, snr, history, reverts>>
    BY <1>6 DEF PickSnapshot
  <2>2. vmr' \in VMRec /\ ObjectsMove /\ UNCHANGED snapCache /\ faults' \in 0..MaxFaults /\ vmQueue' \in BOOLEAN
    BY <1>0, <1>6, PickEffect
  <2>3. Ends \/ Picks
    BY <1>6, <2>1, PickEffect DEF Ends, Picks
  <2> QED
    BY <1>0, <1>1, <2>1, <2>2, <2>3 DEF VMMoves, wantVars
<1>7. CASE UpdateFails
  <2>1. ObjectsMove /\ UNCHANGED snapCache /\ faults' \in 0..MaxFaults
    BY <1>0, <1>7, Stays, FaultType DEF UpdateFails, snapVars
  <2> QED
    BY <1>0, <1>1, <1>7, <2>1 DEF UpdateFails, VMReturn, wantVars, VMMoves, Ends
<1>8. CASE TakeSnapshot
  <2>0. vmr.pick \in Snap /\ vmr.pc = "create"
    BY <1>8 DEF Subjects, TakeSnapshot, Picking
  <2>1. ObjectsMove /\ UNCHANGED snapCache /\ faults' \in 0..MaxFaults
    BY <1>0, <1>8, Stays, FaultType DEF TakeSnapshot, snapVars
  <2>2. CASE FindSnapshot(vmr.pick) = 1 /\ VMGoto("success") /\ UNCHANGED task
    <3>1. vmr' \in VMRec /\ vmr'.pc = "success" /\ vmr'.tree = vmr.tree /\ vmr'.pick = vmr.pick
      BY <2>2, VMGotoEffect
    <3> QED
      BY <1>0, <1>1, <1>8, <2>0, <2>1, <2>2, <3>1 DEF TakeSnapshot, wantVars, VMMoves, Decides, FindSnapshot
  <2>3. CASE FindSnapshot(vmr.pick) = 0 /\ ~Running /\ task' = [kind |-> "create", s |-> vmr.pick] /\ VMGoto("creating")
    <3>1. vmr' \in VMRec /\ vmr'.pc = "creating" /\ vmr'.tree = vmr.tree /\ vmr'.pick = vmr.pick
      BY <2>3, VMGotoEffect
    <3>2. task' \in Task
      BY <2>0, <2>3 DEF Task
    <3>3. Takes
      BY <2>0, <2>3, <3>1 DEF Takes, FindSnapshot
    <3> QED
      BY <1>0, <1>1, <1>8, <2>1, <3>1, <3>2, <3>3 DEF TakeSnapshot, wantVars, VMMoves
  <2>4. CASE VMGoto("failed") /\ UNCHANGED task
    <3>1. vmr' \in VMRec /\ vmr'.pc = "failed" /\ vmr'.tree = vmr.tree /\ vmr'.pick = vmr.pick
      BY <2>4, VMGotoEffect
    <3> QED
      BY <1>0, <1>1, <1>8, <2>0, <2>1, <2>4, <3>1 DEF TakeSnapshot, wantVars, VMMoves, Decides
  <2> QED
    BY <1>8, <2>2, <2>3, <2>4 DEF TakeSnapshot
<1>9. CASE MarkFailed \/ MarkCreated
  <2>0. vmr.pick \in Snap /\ vmr.base \in Conds /\ vmr.err \in BOOLEAN /\ vmr.more \in BOOLEAN
    BY <1>0, <1>9 DEF Subjects, Picking, MarkFailed, MarkCreated, VMRec
  <2>1. ObjectsMove /\ UNCHANGED snapCache /\ faults' \in 0..MaxFaults
    <3>1. CASE PatchLost(vmr.pick)
      BY <2>0, <3>1, PatchLostMoves
    <3>2. CASE PatchCreated(vmr.pick, vmr.base, "Failed") /\ UNCHANGED faults
      BY <2>0, <3>2, PatchCreatedMoves, FaultType
    <3>3. CASE vmr.pc = "success" /\ PatchCreated(vmr.pick, vmr.base, "True") /\ UNCHANGED faults
      BY <2>0, <3>3, PatchCreatedMoves, FaultType
    <3> QED
      BY <1>9, <3>1, <3>2, <3>3 DEF MarkFailed, MarkCreated
  <2>2. vmr' = VMIdle /\ vmQueue' \in BOOLEAN
    BY <1>0, <1>9, <2>0 DEF MarkFailed, MarkCreated, VMReturn
  <2> QED
    BY <1>0, <1>1, <1>9, <2>1, <2>2 DEF MarkFailed, MarkCreated, wantVars, VMMoves, Ends
<1> QED
  BY <1>2, <1>3, <1>4, <1>5, <1>6, <1>7, <1>8, <1>9 DEF VMController

\* What a step of the snapshot controller amounts to: it rests, or it ends, finds an object
\* that is deleted, finds no snapshot, or starts to remove it.
Rests   == UNCHANGED <<snr, task>>
Stops   == snr' = SnapIdle /\ UNCHANGED task
Deletes == /\ snr.pc = "idle" /\ snr'.pc = "remove" /\ snr'.s \in Snap /\ UNCHANGED task
           /\ snap[snr'.s].st \in {"deleting", "gone"}
Misses  == /\ snr.pc = "remove" /\ snr'.pc = "sync" /\ snr'.s = snr.s /\ vc.n[snr.s] = 0
           /\ UNCHANGED task
Removes == /\ snr.pc = "remove" /\ snr'.pc = "removing" /\ snr'.s = snr.s /\ vc.n[snr.s] = 1
           /\ ~Running /\ task' = [kind |-> "remove", s |-> snr.s]
SnapMoves == Rests \/ Stops \/ Deletes \/ Misses \/ Removes

LEMMA SnapEffect ==
  ASSUME TypeOK, Objects, Subjects, SnapController
  PROVE  /\ TypeOK' /\ ObjectsMove /\ SnapMoves
         /\ UNCHANGED <<snapCache, vc, vmr, history>>
<1>0. /\ snr \in SnapRec /\ SnapIdle \in SnapRec /\ task \in Task /\ snapQueue \subseteq Snap /\ snapStale \subseteq Snap
  BY IdleTypes DEF TypeOK
<1>1. ASSUME /\ ObjectsMove /\ UNCHANGED snapCache /\ snr' \in SnapRec /\ task' \in Task
             /\ snapQueue' \subseteq Snap /\ faults' \in 0..MaxFaults
             /\ UNCHANGED <<wantVars, vc, vmQueue, vmr, history, reverts>>
      PROVE  TypeOK' /\ UNCHANGED <<snapCache, vc, vmr, history>>
  BY <1>1 DEF TypeOK, ObjectsMove, history, wantVars
<1>2. CASE RemoveSnapshot
  <2>0. snr.s \in Snap /\ snr.pc = "remove"
    BY <1>2 DEF Subjects, RemoveSnapshot
  <2>1. ObjectsMove /\ UNCHANGED snapCache /\ faults' \in 0..MaxFaults
    BY <1>0, <1>2, Stays, FaultType DEF RemoveSnapshot, snapVars
  <2>2. CASE vc.n[snr.s] = 0 /\ snr' = [snr EXCEPT !.pc = "sync"] /\ UNCHANGED <<task, snapQueue>>
    <3>1. snr' \in SnapRec /\ snr'.pc = "sync" /\ snr'.s = snr.s
      BY <2>2, SnapGotoEffect
    <3> QED
      BY <1>0, <1>1, <1>2, <2>0, <2>1, <2>2, <3>1 DEF RemoveSnapshot, SnapMoves, Misses
  <2>3. CASE /\ vc.n[snr.s] = 1 /\ ~Running /\ task' = [kind |-> "remove", s |-> snr.s]
             /\ snr' = [snr EXCEPT !.pc = "removing"] /\ UNCHANGED snapQueue
    <3>1. snr' \in SnapRec /\ snr'.pc = "removing" /\ snr'.s = snr.s
      BY <2>3, SnapGotoEffect
    <3>2. task' \in Task
      BY <2>0, <2>3 DEF Task
    <3>3. Removes
      BY <2>0, <2>3, <3>1 DEF Removes
    <3> QED
      BY <1>0, <1>1, <1>2, <2>1, <2>3, <3>1, <3>2, <3>3 DEF RemoveSnapshot, SnapMoves
  <2>4. CASE SnapReturn({snr.s}) /\ UNCHANGED task
    BY <1>0, <1>1, <1>2, <2>0, <2>1, <2>4 DEF RemoveSnapshot, SnapMoves, Stops, SnapReturn
  <2> QED
    BY <1>2, <2>2, <2>3, <2>4 DEF RemoveSnapshot, NotFound
<1>3. CASE RemoveFinalizer
  BY <1>0, <1>1, <1>3, RemoveFinalizerMoves DEF RemoveFinalizer, SnapMoves, Stops
<1>4. ASSUME NEW s \in Snap, ReconcileNormal(s) PROVE TypeOK' /\ ObjectsMove /\ SnapMoves /\ UNCHANGED <<snapCache, vc, vmr, history>>
  BY <1>0, <1>1, <1>4, ReconcileNormalMoves DEF ReconcileNormal, SnapMoves, Rests
<1>5. ASSUME NEW s \in Snap, ReconcileDelete(s) PROVE TypeOK' /\ ObjectsMove /\ SnapMoves /\ UNCHANGED <<snapCache, vc, vmr, history>>
  <2>1. ObjectsMove /\ UNCHANGED snapCache /\ faults' \in 0..MaxFaults
    BY <1>0, <1>5, Stays, FaultType DEF ReconcileDelete, snapVars
  <2>2. snr' \in SnapRec /\ snr'.pc = "remove" /\ snr'.s = s
    BY <1>5 DEF ReconcileDelete, SnapRec
  <2>3. Deletes
    BY <1>5, <2>2 DEF ReconcileDelete, Deletes, Objects, CopyOf
  <2> QED
    BY <1>0, <1>1, <1>5, <2>1, <2>2, <2>3 DEF ReconcileDelete, SnapMoves
<1> QED
  BY <1>2, <1>3, <1>4, <1>5 DEF SnapController

\* What the cache is told.
CacheMoves ==
  /\ snapCache' \in [Snap -> Object]
  /\ \/ UNCHANGED snapCache
     \/ snapCache' = snap /\ UNCHANGED snap
     \/ /\ UNCHANGED snap
        /\ \E s \in Snap : /\ snapCache' = [snapCache EXCEPT ![s] = snap[s]]
                           /\ \A t \in Snap : t < s => snapCache[t].st # "none"

\* Users, CSI, the informers and the resync.
Outside == User \/ Informer \/ Resync \/ \E s \in Snap : CSISync(s)
LEMMA OutsideEffect ==
  ASSUME TypeOK, Objects, Outside
  PROVE  /\ TypeOK' /\ ObjectsMove /\ CacheMoves
         /\ UNCHANGED <<vc, task, vmr, snr, cut, raced>> /\ rolled' \in {rolled, None}
<1>0. /\ snapQueue \subseteq Snap /\ snapStale \subseteq Snap /\ snapCache \in [Snap -> Object] /\ snap \in [Snap -> Object]
      /\ vmQueue \in BOOLEAN /\ want \in Snap \cup {None} /\ wantCache \in Snap \cup {None} /\ wantStale \in BOOLEAN
      /\ reverts \in 0..MaxReverts
  BY DEF TypeOK
<1>1. ASSUME /\ ObjectsMove /\ CacheMoves /\ snapQueue' \subseteq Snap /\ vmQueue' \in BOOLEAN
             /\ want' \in Snap \cup {None} /\ wantCache' \in Snap \cup {None} /\ wantStale' \in BOOLEAN
             /\ reverts' \in 0..MaxReverts /\ rolled' \in {rolled, None}
             /\ UNCHANGED <<vc, task, vmr, snr, cut, raced, faults>>
      PROVE  TypeOK' /\ UNCHANGED <<vc, task, vmr, snr, cut, raced>>
  BY <1>1 DEF TypeOK, ObjectsMove, CacheMoves
<1>2. ASSUME NEW s \in Snap, CreateSnapshotObject(s) \/ DeleteSnapshotObject(s) \/ CSISync(s)
      PROVE  TypeOK' /\ ObjectsMove /\ CacheMoves /\ UNCHANGED <<vc, task, vmr, snr, cut, raced>> /\ rolled' \in {rolled, None}
  <2>1. ObjectsMove /\ UNCHANGED snapCache
    BY <1>2, UserMoves
  <2>2. CacheMoves
    BY <1>0, <2>1 DEF CacheMoves
  <2> QED
    BY <1>0, <1>1, <1>2, <2>1, <2>2 DEF CreateSnapshotObject, DeleteSnapshotObject, CSISync, wantVars, history
<1>3. ASSUME NEW s \in Snap, RequestRevert(s)
      PROVE  TypeOK' /\ ObjectsMove /\ CacheMoves /\ UNCHANGED <<vc, task, vmr, snr, cut, raced>> /\ rolled' \in {rolled, None}
  <2>1. ObjectsMove /\ CacheMoves
    BY <1>0, <1>3, Stays DEF RequestRevert, snapVars, CacheMoves
  <2>2. reverts' \in 0..MaxReverts
    BY <1>0, <1>3, SnapshotAssumption DEF RequestRevert
  <2> QED
    BY <1>0, <1>1, <1>3, <2>1, <2>2 DEF RequestRevert, WriteWant
<1>4. ASSUME NEW s \in Snap, SnapEvent(s)
      PROVE  TypeOK' /\ ObjectsMove /\ CacheMoves /\ UNCHANGED <<vc, task, vmr, snr, cut, raced>> /\ rolled' \in {rolled, None}
  <2>1. ObjectsMove
    BY <1>0, <1>4, Stays DEF SnapEvent
  <2>2. CacheMoves
    BY <1>0, <1>4 DEF SnapEvent, CacheMoves
  <2>3. vmQueue' \in BOOLEAN /\ snapQueue' \subseteq Snap
    BY <1>0, <1>4 DEF SnapEvent, MapsToVM
  <2> QED
    BY <1>0, <1>1, <1>4, <2>1, <2>2, <2>3 DEF SnapEvent, wantVars, history
<1>5. CASE VMEvent \/ Resync
  <2>1. ObjectsMove /\ CacheMoves
    BY <1>0, <1>5, Stays DEF VMEvent, Resync, snapVars, CacheMoves
  <2>2. vmQueue' \in BOOLEAN /\ snapQueue' \subseteq Snap
    BY <1>0, <1>5 DEF VMEvent, Resync
  <2> QED
    BY <1>0, <1>1, <1>5, <2>1, <2>2 DEF VMEvent, Resync, wantVars, history
<1> QED
  BY <1>2, <1>3, <1>4, <1>5 DEF Outside, User, Informer

\* The end of a task.
LEMMA TaskEffect ==
  ASSUME TypeOK, Objects, Waiting, Subjects, TaskDone \/ TaskFails
  PROVE  TypeOK' /\ ObjectsMove /\ UNCHANGED <<snap, snapCache, cut>> /\ task' = NoTask
<1>0. /\ NoTask \in Task /\ task \in Task /\ task.s \in Snap /\ raced \subseteq Snap /\ rolled \in Snap \cup {None}
      /\ snapStale \subseteq Snap
  BY IdleTypes DEF TypeOK, Subjects, TaskDone, TaskFails
<1>1. ObjectsMove /\ UNCHANGED <<snap, snapCache, cut>> /\ task' = NoTask
  BY <1>0, Stays DEF TaskDone, TaskFails, snapVars, history
<1>2. vmr' \in VMRec /\ snr' \in SnapRec /\ snapQueue' \subseteq Snap
  <2>1. PICK ok \in BOOLEAN : Tell(ok)
    BY DEF TaskDone, TaskFails
  <2> QED
    BY <2>1, TellEffect
<1>3. vc' \in Tree
  BY AfterEffect DEF TaskDone, TaskFails, TypeOK
<1>4. rolled' \in Snap \cup {None} /\ raced' \subseteq Snap /\ faults' \in 0..MaxFaults
  <2>1. faults' \in 0..MaxFaults
    BY FaultType DEF TaskDone, TaskFails
  <2>2. CASE TaskDone
    BY <1>0, <2>1, <2>2 DEF TaskDone
  <2>3. CASE TaskFails
    BY <1>0, <2>1, <2>3 DEF TaskFails, history
  <2> QED
    BY <2>2, <2>3
<1> QED
  BY <1>0, <1>1, <1>2, <1>3, <1>4 DEF TypeOK, ObjectsMove, TaskDone, TaskFails, snapVars, wantVars

\* A wait that fails tells whoever waits, and leaves the task to itself.
LEMMA WaitEffect ==
  ASSUME TypeOK, Objects, Waiting, Subjects, WaitFails
  PROVE  /\ TypeOK' /\ ObjectsMove /\ UNCHANGED <<snap, snapCache, vc, task, raced, rolled>>
         /\ cut' = cut \cup {task} /\ Tell(FALSE)
<1>0. task \in Task /\ cut \subseteq Task /\ snapStale \subseteq Snap
  BY DEF TypeOK
<1>1. /\ ObjectsMove /\ UNCHANGED <<snap, snapCache, vc, task, raced, rolled>>
      /\ cut' = cut \cup {task} /\ Tell(FALSE)
  BY <1>0, Stays DEF WaitFails, snapVars
<1>2. vmr' \in VMRec /\ snr' \in SnapRec /\ snapQueue' \subseteq Snap
  BY <1>1, TellEffect
<1>3. faults' \in 0..MaxFaults
  BY FaultType DEF WaitFails
<1>4. cut' \subseteq Task
  BY <1>0, <1>1
<1> QED
  BY <1>0, <1>1, <1>2, <1>3, <1>4 DEF TypeOK, ObjectsMove, WaitFails, snapVars, wantVars

LEMMA CrashEffect ==
  ASSUME TypeOK, Objects, Crash
  PROVE  TypeOK' /\ ObjectsMove /\ CacheMoves /\ UNCHANGED snap
<1>0. /\ VMIdle \in VMRec /\ SnapIdle \in SnapRec /\ snap \in [Snap -> Object] /\ cut \subseteq Task /\ task \in Task
      /\ want \in Snap \cup {None}
  BY IdleTypes DEF TypeOK
<1>1. ObjectsMove /\ CacheMoves
  BY <1>0, Stays DEF Crash, CacheMoves
<1>2. faults' \in 0..MaxFaults
  BY FaultType DEF Crash
<1>3. cut' \subseteq Task /\ snapQueue' \subseteq Snap
  BY <1>0 DEF Crash
<1> QED
  BY <1>0, <1>1, <1>2, <1>3 DEF Crash, TypeOK, ObjectsMove, CacheMoves

-----------------------------------------------------------------------------
(* Each part of the invariant is kept by every step. *)

Step == Outside \/ VMController \/ SnapController \/ TaskDone \/ TaskFails \/ WaitFails \/ Crash

LEMMA NextIsStep ==
  ASSUME Next PROVE Step
BY DEF Next, Step, Outside, User

\* Types, and what objects and cache go through.
LEMMA TypeStep ==
  ASSUME TypeOK, Objects, Waiting, Subjects, Step
  PROVE  TypeOK' /\ ObjectsMove /\ CacheMoves
<1>1. ASSUME UNCHANGED snapCache PROVE CacheMoves
  BY <1>1 DEF TypeOK, CacheMoves
<1> QED
  BY <1>1, OutsideEffect, VMEffect, SnapEffect, TaskEffect, WaitEffect, CrashEffect DEF Step

LEMMA ObjectsStep ==
  ASSUME TypeOK, Objects, ObjectsMove, CacheMoves
  PROVE  Objects'
<1> SUFFICES ASSUME NEW s \in Snap
             PROVE  /\ SoundObject(snap'[s]) /\ SoundObject(snapCache'[s]) /\ CopyOf(snapCache'[s], snap'[s])
                    /\ \A t \in Snap : t < s => /\ snap'[s].st # "none" => snap'[t].st # "none"
                                                /\ snapCache'[s].st # "none" => snapCache'[t].st # "none"
  BY DEF Objects, SoundObject, CopyOf, Exists
<1>0. snap \in [Snap -> Object] /\ snapCache \in [Snap -> Object] /\ Snap \subseteq Nat
  BY SnapshotAssumption DEF TypeOK
<1>1. SoundObject(snap'[s])
  BY DEF ObjectsMove, Moves
<1>2. SoundObject(snapCache'[s])
  BY <1>0 DEF CacheMoves, Objects
<1>3. CopyOf(snapCache'[s], snap'[s])
  <2>1. CopyOf(snapCache[s], snap[s]) /\ CopyOf(snap[s], snap'[s]) /\ SoundObject(snap[s])
    BY DEF Objects, ObjectsMove, Moves
  <2>2. CASE UNCHANGED snapCache
    BY <2>1, <2>2 DEF CopyOf, SoundObject, Exists
  <2>3. CASE UNCHANGED snap /\ snapCache'[s] \in {snapCache[s], snap[s]}
    BY <2>1, <2>3 DEF CopyOf
  <2> QED
    BY <1>0, <2>2, <2>3 DEF CacheMoves
<1>4. ASSUME NEW t \in Snap, t < s, snap'[s].st # "none" PROVE snap'[t].st # "none"
  BY <1>4 DEF Objects, ObjectsMove, Moves, CopyOf
<1>5. ASSUME NEW t \in Snap, t < s, snapCache'[s].st # "none" PROVE snapCache'[t].st # "none"
  <2>1. snapCache[s].st # "none" => snapCache[t].st # "none"
    BY <1>5 DEF Objects
  <2>2. snap[s].st # "none" => snap[t].st # "none"
    BY <1>5 DEF Objects
  <2>3. snapCache[t].st # "none" => snap[t].st # "none"
    BY DEF Objects, CopyOf
  <2>4. CASE UNCHANGED snapCache \/ snapCache' = snap
    BY <1>5, <2>1, <2>2, <2>4
  <2>5. ASSUME NEW u \in Snap, snapCache' = [snapCache EXCEPT ![u] = snap[u]],
               \A r \in Snap : r < u => snapCache[r].st # "none"
        PROVE  snapCache'[t].st # "none"
    <3>1. CASE u = s
      <4>1. snapCache[t].st # "none" /\ t # u
        BY <1>0, <1>5, <2>5, <3>1
      <4> QED
        BY <1>0, <2>5, <4>1
    <3>2. CASE u # s
      <4>1. snapCache[t].st # "none"
        BY <1>0, <1>5, <2>1, <2>5, <3>2
      <4> QED
        BY <1>0, <2>3, <2>5, <4>1
    <3> QED
      BY <3>1, <3>2
  <2> QED
    BY <2>4, <2>5 DEF CacheMoves
<1> QED
  BY <1>1, <1>2, <1>3, <1>4, <1>5

LEMMA WaitingStep ==
  ASSUME TypeOK, Objects, Waiting, Subjects, Step
  PROVE  Waiting'
<1>0. VMIdle.pc = "idle" /\ SnapIdle.pc = "idle" /\ NoTask.kind = "none" /\ task \in Task
  BY IdleTypes DEF TypeOK
<1>1. CASE Outside
  BY <1>1, OutsideEffect DEF Waiting
<1>2. CASE VMController
  <2>1. VMMoves /\ UNCHANGED <<snr, history>>
    BY <1>2, VMEffect
  <2> QED
    BY <1>0, <2>1 DEF VMMoves, Ends, Begins, GoesOn, Reverts, Picks, Decides, Takes, Waiting, history, Running
<1>3. CASE SnapController
  <2>1. SnapMoves /\ UNCHANGED <<vmr, history>>
    BY <1>3, SnapEffect
  <2> QED
    BY <1>0, <2>1 DEF SnapMoves, Rests, Stops, Deletes, Misses, Removes, Waiting, history, Running
<1>4. CASE TaskDone \/ TaskFails
  <2>1. PICK ok \in BOOLEAN : Tell(ok)
    BY <1>4 DEF TaskDone, TaskFails
  <2>2. task' = NoTask
    BY <1>4, TaskEffect
  <2> QED
    BY <1>0, <2>1, <2>2, TellEffect DEF Waiting
<1>5. CASE WaitFails
  <2>1. task' = task /\ task \in cut' /\ Tell(FALSE)
    BY <1>5, WaitEffect
  <2>2. vmr'.pc \in {"creating", "reverting"} => vmr' = vmr
    BY <2>1, TellEffect
  <2>3. snr'.pc = "removing" => snr' = snr
    BY <1>0, <2>1, TellEffect
  <2>4. /\ vmr'.pc = "creating" => task' = [kind |-> "create", s |-> vmr'.pick]
        /\ vmr'.pc = "reverting" => task'.kind = "revert"
        /\ snr'.pc = "removing" => task' = [kind |-> "remove", s |-> snr'.s]
    BY <2>1, <2>2, <2>3 DEF Waiting
  <2> QED
    BY <2>1, <2>4 DEF Waiting
<1>6. CASE Crash
  BY <1>0, <1>6 DEF Crash, Waiting, Running
<1> QED
  BY <1>1, <1>2, <1>3, <1>4, <1>5, <1>6 DEF Step

LEMMA SubjectsStep ==
  ASSUME TypeOK, Objects, Waiting, Subjects, Step
  PROVE  Subjects'
<1>0. VMIdle.pc = "idle" /\ SnapIdle.pc = "idle" /\ NoTask.kind = "none" /\ task \in Task
  BY IdleTypes DEF TypeOK
<1>00. \A s \in Snap : snap[s].st \in {"deleting", "gone"} => snap'[s].st \in {"deleting", "gone"}
  BY TypeStep DEF ObjectsMove, Moves, CopyOf
<1>1. CASE Outside
  BY <1>00, <1>1, OutsideEffect DEF Subjects, Picking, Running
<1>2. CASE VMController
  <2>1. VMMoves /\ UNCHANGED <<vc, snr>>
    BY <1>2, VMEffect
  <2> QED
    BY <1>0, <1>00, <2>1 DEF VMMoves, Ends, Begins, GoesOn, Reverts, Picks, Decides, Takes, Subjects, Picking, Running
<1>3. CASE SnapController
  <2>1. SnapMoves /\ UNCHANGED <<vc, vmr>>
    BY <1>3, SnapEffect
  <2> QED
    BY <1>0, <1>00, <2>1 DEF SnapMoves, Rests, Stops, Deletes, Misses, Removes, Subjects, Picking, Running
<1>4. CASE TaskDone \/ TaskFails
  <2>1. PICK ok \in BOOLEAN : Tell(ok)
    BY <1>4 DEF TaskDone, TaskFails
  <2>2. task' = NoTask
    BY <1>4, TaskEffect
  <2> QED
    BY <1>0, <1>00, <2>1, <2>2, TellEffect DEF Subjects, Picking, Running
<1>5. CASE WaitFails
  <2>1. Tell(FALSE) /\ UNCHANGED <<task, vc, snap>>
    BY <1>5, WaitEffect
  <2> QED
    BY <1>0, <1>00, <2>1, TellEffect DEF Subjects, Picking, Running
<1>6. CASE Crash
  BY <1>0, <1>00, <1>6 DEF Crash, Subjects, Picking, Running
<1> QED
  BY <1>1, <1>2, <1>3, <1>4, <1>5, <1>6 DEF Step

\* Who starts a task.
LEMMA TaskStep ==
  ASSUME TypeOK, Objects, Waiting, Subjects, Step
  PROVE  task' = task \/ task' = NoTask \/ Takes \/ Reverts \/ Removes
<1>1. CASE Outside \/ Crash
  BY <1>1, OutsideEffect DEF Crash
<1>2. CASE VMController
  BY <1>2, VMEffect DEF VMMoves, Ends, Begins, GoesOn, Picks, Decides
<1>3. CASE SnapController
  BY <1>3, SnapEffect DEF SnapMoves, Rests, Stops, Deletes, Misses
<1>4. CASE TaskDone \/ TaskFails \/ WaitFails
  BY <1>4, TaskEffect, WaitEffect
<1> QED
  BY <1>1, <1>2, <1>3, <1>4 DEF Step

\* The count of a snapshot changes with the end of a task only.
LEMMA CountStep ==
  ASSUME TypeOK, Objects, Waiting, Subjects, Step, NEW s \in Snap
  PROVE  /\ vc.n[s] \in Nat
         /\ \/ vc'.n[s] = vc.n[s]
            \/ TaskDone /\ task.kind = "create" /\ task.s = s /\ vc'.n[s] = vc.n[s] + 1
            \/ TaskDone /\ task.kind = "remove" /\ task.s = s /\ vc'.n[s] = 0
<1>1. vc.n[s] \in Nat
  BY DEF TypeOK, Tree
<1>2. CASE TaskDone
  <2>1. vc'.n[s] = IF task.kind = "create" /\ s = task.s THEN vc.n[s] + 1
                   ELSE IF task.kind = "remove" /\ s = task.s THEN 0 ELSE vc.n[s]
    BY <1>2, AfterEffect DEF TaskDone
  <2> QED
    BY <1>1, <1>2, <2>1
<1>3. CASE ~TaskDone
  <2>1. vc' = vc
    BY <1>3, OutsideEffect, VMEffect, SnapEffect, WaitEffect DEF Step, TaskFails, Crash
  <2> QED
    BY <1>1, <2>1
<1> QED
  BY <1>2, <1>3

\* The create of a snapshot that runs and was not cut off is the one its reconcile waits
\* for, and the properties this reconcile has fetched did not show the snapshot.
LEMMA CreateIsFirst ==
  ASSUME TypeOK, Waiting, Subjects, Unseen, NEW s \in Snap, task.kind = "create", task.s = s,
         [kind |-> "create", s |-> s] \notin cut
  PROVE  vmr.pc = "creating" /\ vc.n[s] = 0
<1>1. task = [kind |-> "create", s |-> s]
  BY DEF TypeOK, Task
<1>2. vmr.pc = "creating" /\ vmr.pick = s
  BY <1>1 DEF Waiting
<1> QED
  BY <1>2 DEF Unseen, Reading

LEMMA UnseenStep ==
  ASSUME TypeOK, Objects, Waiting, Subjects, Unseen, Step
  PROVE  Unseen'
<1>0. VMIdle.pc = "idle"
  BY IdleTypes
<1>1. CASE Outside
  BY <1>1, OutsideEffect DEF Unseen, Reading
<1>2. CASE VMController
  <2>1. VMMoves /\ UNCHANGED <<vc, history>>
    BY <1>2, VMEffect
  <2> QED
    BY <1>0, <2>1 DEF VMMoves, Ends, Begins, GoesOn, Reverts, Picks, Decides, Takes, Unseen, Reading, history
<1>3. CASE SnapController
  BY <1>3, SnapEffect DEF Unseen, Reading, history
<1>4. CASE TaskDone \/ TaskFails
  <2>1. PICK ok \in BOOLEAN : Tell(ok)
    BY <1>4 DEF TaskDone, TaskFails
  <2>2. /\ vmr'.tree = vmr.tree /\ (vmr.pc = "creating" => vmr'.pc \in {"success", "failed"})
        /\ vmr.pc = "reverting" => vmr'.pc \in {"restore", "list"}
        /\ vmr.pc \notin {"creating", "reverting"} => vmr' = vmr
    BY <2>1, TellEffect
  <2>3. cut' = cut
    BY <1>4, TaskEffect
  <2>4. ASSUME Reading', NEW s \in Snap, vmr.tree.n[s] = 0, [kind |-> "create", s |-> s] \notin cut
        PROVE  vc'.n[s] = 0
    <3>1. Reading /\ vmr.pc # "creating"
      BY <2>2, <2>4 DEF Reading
    <3>2. vc.n[s] = 0
      BY <2>4, <3>1 DEF Unseen
    <3>3. ~(task.kind = "create" /\ task.s = s)
      BY <2>4, <3>1, CreateIsFirst
    <3> QED
      BY <3>2, <3>3, CountStep
  <2>5. vmr'.pc # "creating"
    BY <2>2
  <2> QED
    BY <2>2, <2>3, <2>4, <2>5 DEF Unseen
<1>5. CASE WaitFails
  <2>1. Tell(FALSE) /\ vc' = vc /\ cut \subseteq cut'
    BY <1>5, WaitEffect
  <2> QED
    BY <2>1, TellEffect DEF Unseen, Reading
<1>6. CASE Crash
  BY <1>0, <1>6 DEF Crash, Unseen, Reading
<1> QED
  BY <1>1, <1>2, <1>3, <1>4, <1>5, <1>6 DEF Step

LEMMA NoDuplicateStep ==
  ASSUME TypeOK, Objects, Waiting, Subjects, Unseen, NoDuplicate, Step
  PROVE  NoDuplicate'
<1>1. cut \subseteq cut'
  BY OutsideEffect, VMEffect, SnapEffect, TaskEffect, WaitEffect DEF Step, Crash, history
<1>2. ASSUME NEW s \in Snap, vc'.n[s] > 1 PROVE [kind |-> "create", s |-> s] \in cut
  <2>1. CASE vc'.n[s] = vc.n[s]
    BY <1>2, <2>1 DEF NoDuplicate
  <2>2. CASE task.kind = "create" /\ task.s = s /\ vc'.n[s] = vc.n[s] + 1
    BY <1>2, <2>2, CreateIsFirst
  <2> QED
    BY <1>2, <2>1, <2>2, CountStep
<1> QED
  BY <1>1, <1>2 DEF NoDuplicate

LEMMA KeptStep ==
  ASSUME TypeOK, Objects, Waiting, Subjects, Kept, Step
  PROVE  Kept'
<1>0. VMIdle.pc = "idle" /\ SnapIdle.pc = "idle" /\ NoTask.kind = "none"
  BY IdleTypes
<1>00. ASSUME NEW s \in Snap, snap[s].fin \/ snap[s].st = "gone" PROVE snap'[s].fin \/ snap'[s].st = "gone"
  BY <1>00, TypeStep DEF ObjectsMove, Moves, CopyOf
<1>01. ASSUME NEW s \in Snap, snap[s].fin PROVE snap'[s].fin \/ (snr.pc = "sync" /\ snr.s = s)
  BY <1>01, TypeStep DEF ObjectsMove, Moves
<1>02. raced \subseteq raced'
  BY OutsideEffect, VMEffect, SnapEffect, WaitEffect DEF Step, TaskDone, TaskFails, Crash, history
<1>1. Picking' => snap'[vmr'.pick].fin \/ snap'[vmr'.pick].st = "gone"
  <2>1. ASSUME Picking, vmr'.pick = vmr.pick PROVE snap'[vmr'.pick].fin \/ snap'[vmr'.pick].st = "gone"
    BY <2>1, <1>00 DEF Kept, Subjects
  <2>2. CASE Outside \/ SnapController
    BY <2>1, <2>2, OutsideEffect, SnapEffect DEF Picking
  <2>3. CASE VMController
    <3>1. VMMoves
      BY <2>3, VMEffect
    <3>2. ASSUME Picks PROVE snap'[vmr'.pick].fin \/ snap'[vmr'.pick].st = "gone"
      <4>1. vmr'.pick \in Snap /\ snapCache[vmr'.pick].st = "live" /\ snapCache[vmr'.pick].owner
        BY <3>2 DEF Picks
      <4>2. snap[vmr'.pick].fin \/ snap[vmr'.pick].st = "gone"
        BY <4>1 DEF Objects, SoundObject, CopyOf, Exists
      <4> QED
        BY <4>1, <4>2, <1>00
    <3> QED
      BY <1>0, <2>1, <3>1, <3>2 DEF VMMoves, Ends, Begins, GoesOn, Reverts, Decides, Takes, Picking
  <2>4. CASE TaskDone \/ TaskFails \/ WaitFails
    <3>1. PICK ok \in BOOLEAN : Tell(ok)
      BY <2>4, WaitEffect DEF TaskDone, TaskFails
    <3> QED
      BY <2>1, <3>1, TellEffect DEF Picking
  <2>5. CASE Crash
    BY <1>0, <2>5 DEF Crash, Picking
  <2> QED
    BY <2>2, <2>3, <2>4, <2>5 DEF Step
<1>2. task'.kind = "create" => snap'[task'.s].fin \/ snap'[task'.s].st = "gone"
  <2>1. CASE task' = task
    BY <2>1, <1>00 DEF Kept, Subjects, Running
  <2>2. CASE task'.kind # "create"
    BY <2>2
  <2>3. CASE Takes
    BY <2>3, <1>00 DEF Takes, Kept, Subjects, Picking
  <2>4. task' = task \/ task'.kind # "create" \/ Takes
    BY <1>0, TaskStep DEF Reverts, Removes
  <2> QED
    BY <2>1, <2>2, <2>3, <2>4
<1>3. snr'.pc = "sync" => vc'.n[snr'.s] = 0 \/ snr'.s \in raced'
  <2>1. ASSUME snr'.pc = "sync", snr.pc = "sync", snr'.s = snr.s PROVE vc'.n[snr'.s] = 0 \/ snr'.s \in raced'
    <3>1. snr.s \in Snap /\ (vc.n[snr.s] = 0 \/ snr.s \in raced)
      BY <2>1 DEF Subjects, Kept
    <3>2. CASE TaskDone /\ task.kind = "create" /\ task.s = snr.s
      BY <2>1, <3>2 DEF TaskDone, Searched
    <3>3. CASE ~(TaskDone /\ task.kind = "create" /\ task.s = snr.s)
      BY <2>1, <3>1, <3>3, <1>02, CountStep
    <3> QED
      BY <3>2, <3>3
  <2>2. CASE Outside \/ VMController
    BY <2>1, <2>2, OutsideEffect, VMEffect
  <2>3. CASE SnapController
    BY <1>0, <2>1, <2>3, SnapEffect DEF SnapMoves, Rests, Stops, Deletes, Misses, Removes
  <2>4. CASE TaskFails \/ WaitFails
    <3>1. Tell(FALSE)
      BY <2>4, WaitEffect DEF TaskFails
    <3> QED
      BY <1>0, <2>1, <3>1, TellEffect
  <2>5. CASE TaskDone
    <3>1. PICK ok \in BOOLEAN : Tell(ok)
      BY <2>5 DEF TaskDone
    <3>2. CASE snr.pc = "removing" /\ snr'.s = snr.s
      <4>1. task.kind = "remove" /\ task.s = snr.s /\ snr.s \in Snap
        BY <3>2 DEF Waiting, Subjects
      <4>2. vc'.n[snr.s] = 0
        BY <2>5, <4>1, AfterEffect DEF TaskDone
      <4> QED
        BY <3>2, <4>2
    <3> QED
      BY <1>0, <2>1, <3>1, <3>2, TellEffect
  <2>6. CASE Crash
    BY <1>0, <2>6 DEF Crash
  <2> QED
    BY <2>2, <2>3, <2>4, <2>5, <2>6 DEF Step
<1>4. ASSUME NEW s \in Snap, vc'.n[s] > 0, s \notin raced' PROVE snap'[s].fin
  <2>1. CASE TaskDone /\ task.kind = "create" /\ task.s = s
    <3>1. snap[s].fin \/ snap[s].st = "gone"
      BY <2>1 DEF Kept
    <3>2. ~Searched(s)
      BY <1>4, <2>1 DEF TaskDone
    <3>3. snap' = snap
      BY <2>1, TaskEffect
    <3> QED
      BY <3>1, <3>2, <3>3 DEF Searched
  <2>2. CASE ~(TaskDone /\ task.kind = "create" /\ task.s = s)
    <3>1. vc.n[s] > 0
      BY <1>4, <2>2, CountStep
    <3>2. snap[s].fin /\ s \notin raced
      BY <1>02, <1>4, <3>1 DEF Kept
    <3>3. ~(snr.pc = "sync" /\ snr.s = s)
      BY <3>1, <3>2 DEF Kept
    <3> QED
      BY <3>2, <3>3, <1>01
  <2> QED
    BY <2>1, <2>2
<1> QED
  BY <1>1, <1>2, <1>3, <1>4 DEF Kept, Picking

\* A snapshot that is there stays there until its object is on its way out.
LEMMA ThereStep ==
  ASSUME TypeOK, Objects, Waiting, Subjects, Step, NEW s \in Snap, There(s)
  PROVE  There(s)'
<1>1. snap[s].st \in {"deleting", "gone"} => snap'[s].st \in {"deleting", "gone"}
  BY TypeStep DEF ObjectsMove, Moves, CopyOf
<1>2. CASE task.kind = "remove" /\ task.s = s
  BY <1>1, <1>2 DEF Subjects, There
<1>3. CASE ~(task.kind = "remove" /\ task.s = s)
  BY <1>1, <1>3, CountStep DEF There
<1> QED
  BY <1>2, <1>3

LEMMA TakenStep ==
  ASSUME TypeOK, Objects, Waiting, Subjects, Taken, Step
  PROVE  Taken'
<1>0. VMIdle.pc = "idle" /\ VMIdle.tree = EmptyTree /\ (\A s \in Snap : EmptyTree.n[s] = 0)
  BY IdleTypes
<1>00. Snap \subseteq Nat /\ \A s \in Snap : vc.n[s] \in Nat
  BY SnapshotAssumption DEF TypeOK, Tree
<1>1. ASSUME NEW s \in Snap, snap'[s].cond.created = "True" PROVE There(s)'
  <2>1. snap[s].cond.created = "True" \/ (vmr.pc = "success" /\ vmr.pick = s)
    BY <1>1, TypeStep DEF ObjectsMove, Moves
  <2>2. There(s)
    BY <2>1 DEF Taken
  <2> QED
    BY <2>2, ThereStep
<1>2. ASSUME NEW s \in Snap, snapCache'[s].cond.created = "True" PROVE There(s)'
  <2>1. snapCache'[s] = snapCache[s] \/ snapCache'[s] = snap[s]
    BY TypeStep DEF CacheMoves, TypeOK
  <2>2. There(s)
    BY <1>2, <2>1 DEF Taken
  <2> QED
    BY <2>2, ThereStep
<1>3. ASSUME NEW s \in Snap, vmr'.tree.n[s] > 0 PROVE There(s)'
  <2>1. vmr'.tree = vmr.tree \/ vmr' = VMIdle \/ vmr'.tree = vc
    <3>1. CASE Outside \/ SnapController \/ Crash
      BY <3>1, OutsideEffect, SnapEffect DEF Crash
    <3>2. CASE VMController
      BY <3>2, VMEffect DEF VMMoves, Ends, Begins, GoesOn, Reverts, Picks, Decides, Takes
    <3>3. CASE TaskDone \/ TaskFails \/ WaitFails
      <4>1. PICK ok \in BOOLEAN : Tell(ok)
        BY <3>3, WaitEffect DEF TaskDone, TaskFails
      <4> QED
        BY <4>1, TellEffect
    <3> QED
      BY <3>1, <3>2, <3>3 DEF Step
  <2>2. There(s)
    BY <1>0, <1>00, <1>3, <2>1 DEF Taken, There
  <2> QED
    BY <2>2, ThereStep
<1>4. ASSUME NEW s \in Snap, vmr'.pc = "success", vmr'.pick = s PROVE There(s)'
  <2>1. CASE There(s)
    BY <2>1, ThereStep
  <2>2. ASSUME vmr.pc = "success", vmr.pick = s PROVE There(s)
    BY <2>2 DEF Taken
  <2>3. CASE Outside \/ SnapController
    <3>1. vmr' = vmr
      BY <2>3, OutsideEffect, SnapEffect
    <3> QED
      BY <1>4, <2>1, <2>2, <3>1
  <2>4. CASE VMController
    <3>1. Decides
      BY <1>0, <1>4, <2>4, VMEffect DEF VMMoves, Ends, Begins, GoesOn, Reverts, Picks, Takes
    <3>2. vmr.tree.n[s] = 1
      BY <1>4, <3>1 DEF Decides
    <3>3. There(s)
      BY <3>2 DEF Taken
    <3> QED
      BY <2>1, <3>3
  <2>5. CASE TaskDone \/ TaskFails \/ WaitFails
    <3>1. PICK ok \in BOOLEAN : Tell(ok)
      BY <2>5, WaitEffect DEF TaskDone, TaskFails
    <3>2. vmr' = vmr \/ vc'.n[s] = 1
      BY <1>4, <3>1, TellEffect
    <3>3. CASE vc'.n[s] = 1
      BY <3>3 DEF There
    <3> QED
      BY <1>4, <2>1, <2>2, <3>2, <3>3
  <2>6. ~Crash
    BY <1>0, <1>4 DEF Crash
  <2> QED
    BY <2>3, <2>4, <2>5, <2>6 DEF Step
<1>5. ASSUME NEW p \in Snap, Picking', vmr'.pick = p, NEW s \in Snap, s < p PROVE There(s)'
  <2>1. CASE There(s)
    BY <2>1, ThereStep
  <2>2. ASSUME Picking, vmr.pick = p PROVE There(s)
    BY <1>5, <2>2 DEF Taken
  <2>3. CASE Outside \/ SnapController
    <3>1. vmr' = vmr
      BY <2>3, OutsideEffect, SnapEffect
    <3> QED
      BY <1>5, <2>1, <2>2, <3>1 DEF Picking
  <2>4. CASE VMController
    <3>1. CASE Picks
      <4>1. /\ snapCache[p].st = "live"
            /\ ~Exists(snapCache[s]) \/ snapCache[s].cond.created = "True"
        BY <1>5, <3>1 DEF Picks
      <4>2. CASE snapCache[s].cond.created = "True"
        BY <2>1, <4>2 DEF Taken
      <4>3. CASE ~Exists(snapCache[s])
        <5>1. snapCache[s].st # "none" /\ snapCache[s] \in Object
          BY <1>5, <4>1 DEF Objects, TypeOK
        <5>2. snapCache[s].st = "gone"
          BY <4>3, <5>1 DEF Exists, Object
        <5>3. snap[s].st = "gone"
          BY <5>2 DEF Objects, CopyOf
        <5> QED
          BY <2>1, <5>3 DEF There
      <4> QED
        BY <4>1, <4>2, <4>3
    <3>2. CASE Decides \/ Takes
      BY <1>5, <2>1, <2>2, <3>2 DEF Decides, Takes, Picking
    <3> QED
      BY <1>0, <1>5, <2>4, <3>1, <3>2, VMEffect DEF VMMoves, Ends, Begins, GoesOn, Reverts, Picking
  <2>5. CASE TaskDone \/ TaskFails \/ WaitFails
    <3>1. PICK ok \in BOOLEAN : Tell(ok)
      BY <2>5, WaitEffect DEF TaskDone, TaskFails
    <3>2. vmr.pick = p /\ Picking
      BY <1>5, <3>1, TellEffect DEF Picking
    <3> QED
      BY <2>1, <2>2, <3>2
  <2>6. ~Crash
    BY <1>0, <1>5 DEF Crash, Picking
  <2> QED
    BY <2>3, <2>4, <2>5, <2>6 DEF Step
<1>6. Picking' => vmr'.pick \in Snap
  BY SubjectsStep DEF Subjects
<1>7. vmr'.pc = "success" => Picking'
  BY DEF Picking
<1> QED
  BY <1>1, <1>2, <1>3, <1>4, <1>5, <1>6, <1>7 DEF Taken, There, Picking

LEMMA RolledSeenStep ==
  ASSUME TypeOK, Objects, Waiting, Subjects, RolledSeen, Step
  PROVE  RolledSeen'
<1>0. VMIdle.pc = "idle" /\ task \in Task
  BY IdleTypes DEF TypeOK
<1>1. CASE Outside
  BY <1>1, OutsideEffect DEF RolledSeen
<1>2. CASE VMController
  <2>1. VMMoves /\ UNCHANGED <<vc, history>>
    BY <1>2, VMEffect
  <2> QED
    BY <1>0, <2>1 DEF VMMoves, Ends, Begins, GoesOn, Reverts, Picks, Decides, Takes, RolledSeen, history
<1>3. CASE SnapController
  BY <1>3, SnapEffect DEF RolledSeen, history
<1>4. CASE TaskDone
  <2>1. (\E ok \in BOOLEAN : Tell(ok)) /\ cut' = cut /\ Running /\ vc' = After(task)
        /\ rolled' = IF task.kind = "revert" THEN task.s ELSE IF vc'.cur = vc.cur THEN rolled ELSE None
    BY <1>4 DEF TaskDone
  <2>2. task.kind = "revert" => vc'.cur = task.s
    BY <2>1, AfterEffect
  <2>3. rolled' # None => vc'.cur = rolled'
    BY <2>1, <2>2 DEF RolledSeen
  <2>4. ASSUME vmr'.pc \in {"tasks", "revert"}, rolled' # None
        PROVE  vmr'.tree.cur = rolled' \/ [kind |-> "revert", s |-> rolled'] \in cut'
    <3>1. vmr' = vmr
      BY <2>1, <2>4, TellEffect
    <3>2. CASE task.kind = "revert"
      <4>1. task \in cut /\ rolled' = task.s
        BY <2>1, <2>4, <3>1, <3>2 DEF Waiting
      <4>2. task = [kind |-> "revert", s |-> task.s]
        BY <1>0, <3>2 DEF Task
      <4> QED
        BY <2>1, <4>1, <4>2
    <3>3. CASE task.kind # "revert"
      BY <2>1, <2>4, <3>1, <3>3 DEF RolledSeen
    <3> QED
      BY <3>2, <3>3
  <2> QED
    BY <2>3, <2>4 DEF RolledSeen
<1>5. CASE TaskFails
  <2>1. Tell(FALSE) /\ UNCHANGED <<vc, history>>
    BY <1>5 DEF TaskFails
  <2> QED
    BY <2>1, TellEffect DEF RolledSeen, history
<1>6. CASE WaitFails
  <2>1. Tell(FALSE) /\ UNCHANGED <<vc, rolled>> /\ cut \subseteq cut'
    BY <1>6, WaitEffect
  <2> QED
    BY <2>1, TellEffect DEF RolledSeen
<1>7. CASE Crash
  BY <1>0, <1>7 DEF Crash, RolledSeen
<1> QED
  BY <1>1, <1>2, <1>3, <1>4, <1>5, <1>6, <1>7 DEF Step

-----------------------------------------------------------------------------
(* The theorems. *)

LEMMA InductiveStep ==
  ASSUME Inductive, [Next]_vars
  PROVE  Inductive'
<1>1. CASE Next
  <2>1. Step /\ TypeOK /\ Objects /\ Waiting /\ Subjects /\ Unseen /\ Kept /\ Taken /\ RolledSeen /\ NoDuplicate
    BY <1>1, NextIsStep DEF Inductive
  <2>2. TypeOK' /\ Objects'
    BY <2>1, TypeStep, ObjectsStep
  <2>3. Waiting' /\ Subjects'
    BY <2>1, WaitingStep, SubjectsStep
  <2>4. Unseen' /\ NoDuplicate'
    BY <2>1, UnseenStep, NoDuplicateStep
  <2>5. Kept' /\ Taken' /\ RolledSeen'
    BY <2>1, KeptStep, TakenStep, RolledSeenStep
  <2> QED
    BY <2>2, <2>3, <2>4, <2>5 DEF Inductive
<1>2. CASE UNCHANGED vars
  BY <1>2 DEF vars, snapVars, wantVars, history, Inductive, TypeOK, Objects, SoundObject, CopyOf, Exists,
     Waiting, Subjects, Picking, Running, Unseen, Reading, Kept, Taken, There, RolledSeen, NoDuplicate
<1> QED
  BY <1>1, <1>2

LEMMA InductiveInit ==
  ASSUME Init
  PROVE  Inductive
<1>0. /\ EmptyTree \in Tree /\ NoTask \in Task /\ NoObject \in Object /\ VMIdle \in VMRec /\ SnapIdle \in SnapRec
      /\ VMIdle.pc = "idle" /\ SnapIdle.pc = "idle" /\ NoTask.kind = "none"
      /\ VMIdle.tree = EmptyTree /\ \A s \in Snap : EmptyTree.n[s] = 0
  BY IdleTypes
<1>1. \A s \in Snap : snap[s] = NoObject /\ snapCache[s] = NoObject
  BY DEF Init
<1>2. NoObject.st = "none" /\ ~NoObject.fin /\ NoObject.cond.created = "unset"
  BY DEF NoObject, NoConds
<1>3. TypeOK
  <2>1. snap \in [Snap -> Object] /\ snapCache \in [Snap -> Object]
    BY <1>0 DEF Init
  <2>2. vc \in Tree /\ task \in Task /\ vmr \in VMRec /\ snr \in SnapRec
    BY <1>0 DEF Init
  <2>3. reverts \in 0..MaxReverts /\ faults \in 0..MaxFaults
    BY SnapshotAssumption DEF Init
  <2> QED
    BY <2>1, <2>2, <2>3 DEF Init, TypeOK
<1>4. Objects
  BY <1>1, <1>2 DEF Objects, SoundObject, CopyOf, Exists
<1>5. Waiting /\ Subjects /\ Unseen /\ RolledSeen
  BY <1>0 DEF Init, Waiting, Subjects, Picking, Running, Unseen, Reading, RolledSeen
<1>6. Kept /\ Taken /\ NoDuplicate
  BY <1>0, <1>1, <1>2 DEF Init, Kept, Picking, Taken, NoDuplicate
<1> QED
  BY <1>3, <1>4, <1>5, <1>6 DEF Inductive

\* What all steps keep: objects and copies, who waits for which task, what a reconcile has
\* read of vSphere, and what holds a snapshot there.
THEOREM Inductiveness == Spec => []Inductive
<1>1. Inductive /\ [Next]_vars => Inductive'
  BY InductiveStep
<1> QED
  BY InductiveInit, <1>1, PTL DEF Spec

\* The types; in particular no more snapshots of a name are removed than there are.
THEOREM TypeCorrect == Spec => []TypeOK
<1>1. Inductive => TypeOK
  BY DEF Inductive
<1> QED
  BY <1>1, Inductiveness, PTL

\* Whatever patch or task fails, SnapshotVirtualMachine gives no name to two snapshots,
\* unless the process died, or its wait failed, during the first create.
THEOREM NeverDuplicate == Spec => []NoDuplicate
<1>1. Inductive => NoDuplicate
  BY DEF Inductive
<1> QED
  BY <1>1, Inductiveness, PTL

\* The finalizer goes after the snapshot: an object that is gone leaves none in vSphere, but
\* one that vSphere finished to take after the snapshot controller had looked for it.
THEOREM NeverLeftover == Spec => []NoLeftover
<1>1. Inductive => NoLeftover
  BY DEF Inductive, Kept, Objects, SoundObject, Exists, NoLeftover
<1> QED
  BY <1>1, Inductiveness, PTL

\* ReconcileCurrentSnapshot takes the snapshots in the order of their creation, although it
\* sorts copies of them and two controllers write their conditions.
THEOREM AlwaysInOrder == Spec => InOrder
<1> DEFINE Older == task' # task /\ task'.kind = "create" =>
                      \A s \in Snap : s < task'.s /\ snap[s].st = "live" => vc.n[s] > 0
<1>1. Inductive /\ [Next]_vars => [Older]_vars
  <2> SUFFICES ASSUME Inductive, Next, task' # task, task'.kind = "create",
                      NEW s \in Snap, s < task'.s, snap[s].st = "live"
               PROVE  vc.n[s] > 0
    OBVIOUS
  <2>1. Step /\ TypeOK /\ Objects /\ Waiting /\ Subjects /\ Taken
    BY NextIsStep DEF Inductive
  <2>2. Takes
    BY <2>1, IdleTypes, TaskStep DEF Reverts, Removes
  <2>3. There(s)
    BY <2>1, <2>2 DEF Takes, Taken, Picking
  <2> QED
    BY <2>3 DEF There
<1> QED
  BY <1>1, Inductiveness, PTL DEF InOrder, Spec

\* No retry, stale copy of the request or failed patch makes the VM lose what was written
\* after it had been rolled back, unless the process died, or its wait failed, during the
\* revert.
THEOREM AlwaysRolledBackOnce == Spec => RolledBackOnce
<1> DEFINE Once == task' # task /\ task'.kind = "revert" => rolled # task'.s \/ task' \in cut
<1>1. Inductive /\ [Next]_vars => [Once]_vars
  <2> SUFFICES ASSUME Inductive, Next, task' # task, task'.kind = "revert", rolled = task'.s
               PROVE  task' \in cut
    OBVIOUS
  <2>1. Step /\ TypeOK /\ Objects /\ Waiting /\ Subjects /\ RolledSeen
    BY NextIsStep DEF Inductive
  <2>2. Reverts
    BY <2>1, IdleTypes, TaskStep DEF Takes, Removes
  <2>3. vmr.want \in Snap /\ vmr.want # None
    BY <2>1, <2>2, SnapshotAssumption DEF Reverts, Subjects, None
  <2> QED
    BY <2>1, <2>2, <2>3 DEF Reverts, RolledSeen
<1> QED
  BY <1>1, Inductiveness, PTL DEF RolledBackOnce, Spec
=============================================================================
