------------------- MODULE VirtualMachineReplicaSet_proofs -------------------
(***************************************************************************)
(* Proofs about VirtualMachineReplicaSet, for any names, sizes, faults and *)
(* edits.  The types hold for any number of replica sets; what is proved   *)
(* of their sizes, for one that shares its selector with no other.         *)
(***************************************************************************)
EXTENDS VirtualMachineReplicaSet, FiniteSetTheorems, WellFoundedInduction, TLAPS

-----------------------------------------------------------------------------
(* The order in which VMs are deleted. *)

LEMMA NaturalLeast ==
  ASSUME NEW S, S \subseteq Nat, S # {}
  PROVE  \E x \in S : \A y \in S : x <= y
<1> DEFINE R == {ss \in Nat \X Nat : ss[1] < ss[2]}
<1>1. IsWellFoundedOn(R, Nat)
  BY NatLessThanWellFounded DEF OpToRel
<1>2. PICK x \in S : \A y \in S : <<y, x>> \notin R
  <2> HIDE DEF R
  <2> QED
    BY <1>1, WFMin
<1>3. ASSUME NEW y \in S PROVE x <= y
  <2>1. <<y, x>> \in Nat \X Nat /\ <<y, x>>[1] = y /\ <<y, x>>[2] = x
    OBVIOUS
  <2>2. ~(y < x)
    BY <1>2, <2>1
  <2> QED
    BY <2>2
<1> QED
  BY <1>3

\* Sets of names are finite.
LEMMA NamesFinite ==
  ASSUME NEW S, S \subseteq Names
  PROVE  IsFiniteSet(S) /\ Cardinality(S) \in Nat
BY ReplicaSetAssumption, FS_Subset, FS_CardinalityType

LEMMA NamesMonotone ==
  ASSUME NEW T, T \subseteq Names, NEW S, S \subseteq T
  PROVE  Cardinality(S) <= Cardinality(T)
BY NamesFinite, FS_Subset

\* Before is a strict total order.
LEMMA BeforeOrder ==
  ASSUME NEW d
  PROVE  /\ \A u, v, w \in Names : Before(d, u, v) /\ Before(d, v, w) => Before(d, u, w)
         /\ \A u, v \in Names : u # v => Before(d, u, v) \/ Before(d, v, u)
         /\ \A u \in Names : ~Before(d, u, u)
<1>1. Names \subseteq Nat
  BY ReplicaSetAssumption
<1>2. ASSUME NEW u \in Names, NEW v \in Names, NEW w \in Names, Before(d, u, v), Before(d, v, w)
      PROVE  Before(d, u, w)
  <2>1. u \in Nat /\ v \in Nat /\ w \in Nat
    BY <1>1
  <2>2. (u < v /\ v < w) => u < w
    BY <2>1
  <2> QED
    BY <1>2, <2>2 DEF Before
<1>3. ASSUME NEW u \in Names, NEW v \in Names, u # v PROVE Before(d, u, v) \/ Before(d, v, u)
  <2>1. u < v \/ v < u
    BY <1>1, <1>3
  <2> QED
    BY <2>1 DEF Before
<1>4. ASSUME NEW u \in Names PROVE ~Before(d, u, u)
  BY <1>1 DEF Before
<1> QED
  BY <1>2, <1>3, <1>4

\* Those before one that is deleted are deleted too.
LEMMA DownwardClosed ==
  ASSUME NEW mine, mine \subseteq Names, NEW dying, NEW k \in Nat,
         NEW v \in ToDelete(mine, dying, k), NEW w \in mine, Before(dying, w, v)
  PROVE  w \in ToDelete(mine, dying, k)
<1> DEFINE bv == {u \in mine : Before(dying, u, v)}
           bw == {u \in mine : Before(dying, u, w)}
<1>1. v \in mine /\ Cardinality(bv) < k
  BY DEF ToDelete
<1>2. bw \subseteq bv /\ bv \subseteq Names
  BY <1>1, BeforeOrder
<1>3. Cardinality(bw) <= Cardinality(bv)
  BY <1>2, NamesMonotone
<1>4. Cardinality(bw) \in Nat /\ Cardinality(bv) \in Nat
  BY <1>2, NamesFinite
<1>5. Cardinality(bw) < k
  BY <1>1, <1>3, <1>4
<1> QED
  BY <1>5 DEF ToDelete

\* No more than asked for are deleted.
LEMMA NotTooMany ==
  ASSUME NEW mine, mine \subseteq Names, NEW dying, NEW k \in Nat
  PROVE  Cardinality(ToDelete(mine, dying, k)) <= k
<1> DEFINE D == ToDelete(mine, dying, k)
           b(v) == {u \in mine : Before(dying, u, v)}
           ranks == {k - Cardinality(b(v)) : v \in D}
<1>0. D \subseteq mine /\ \A v \in D : Cardinality(b(v)) < k
  BY DEF ToDelete
<1>1. \A v \in mine : b(v) \subseteq Names /\ IsFiniteSet(b(v)) /\ Cardinality(b(v)) \in Nat
  BY NamesFinite
<1>2. CASE D = {}
  BY <1>2, FS_EmptySet
<1>3. CASE D # {}
  <2> HIDE DEF D, b
  <2>1. ranks \subseteq Nat /\ ranks # {}
    BY <1>0, <1>1, <1>3
  <2>2. PICK x \in ranks : \A y \in ranks : x <= y
    BY <2>1, NaturalLeast
  <2>3. PICK m \in D : x = k - Cardinality(b(m))
    BY <2>2
  <2>4. ASSUME NEW u \in D PROVE Cardinality(b(u)) <= Cardinality(b(m))
    <3>1. k - Cardinality(b(m)) <= k - Cardinality(b(u))
      BY <2>2, <2>3
    <3> QED
      BY <3>1, <1>0, <1>1
  <2>5. D \subseteq b(m) \cup {m}
    <3> SUFFICES ASSUME NEW u \in D, u # m, u \notin b(m) PROVE FALSE
      OBVIOUS
    <3>1. u \in Names /\ m \in Names /\ u \in mine /\ m \in mine
      BY <1>0
    <3>2. Before(dying, m, u)
      BY <3>1, BeforeOrder DEF b
    <3>3. b(m) \cup {m} \subseteq b(u)
      BY <1>0, <3>1, <3>2, BeforeOrder DEF b
    <3>4. m \notin b(m)
      BY <3>1, BeforeOrder DEF b
    <3>5. Cardinality(b(m) \cup {m}) = Cardinality(b(m)) + 1
      BY <1>1, <3>1, <3>4, FS_AddElement
    <3>6. Cardinality(b(m) \cup {m}) <= Cardinality(b(u))
      BY <1>1, <3>1, <3>3, NamesMonotone
    <3> QED
      BY <1>1, <2>4, <3>1, <3>5, <3>6
  <2>6. Cardinality(D) <= Cardinality(b(m) \cup {m})
    <3>1. b(m) \cup {m} \subseteq Names
      BY <1>0, <1>1
    <3> QED
      BY <2>5, <3>1, NamesMonotone
  <2>7. Cardinality(b(m) \cup {m}) <= Cardinality(b(m)) + 1
    <3>1. m \in mine
      BY <1>0
    <3>0. Cardinality(b(m)) \in Nat
      BY <1>1, <3>1
    <3>2. CASE m \in b(m)
      <4>1. b(m) \cup {m} = b(m)
        BY <3>2
      <4>2. Cardinality(b(m) \cup {m}) = Cardinality(b(m))
        BY <4>1
      <4> QED
        BY <3>0, <4>2
    <3>3. CASE m \notin b(m)
      <4>1. Cardinality(b(m) \cup {m}) = Cardinality(b(m)) + 1
        BY <1>1, <3>1, <3>3, FS_AddElement
      <4> QED
        BY <3>0, <4>1
    <3> QED
      BY <3>2, <3>3
  <2>8. Cardinality(D) \in Nat /\ Cardinality(b(m)) \in Nat /\ Cardinality(b(m) \cup {m}) \in Nat /\ Cardinality(b(m)) < k
    <3>1. D \subseteq Names /\ b(m) \cup {m} \subseteq Names /\ m \in mine
      BY <1>0, <1>1
    <3> QED
      BY <1>0, <1>1, <3>1, NamesFinite
  <2>9. Cardinality(D) <= k
    BY <2>6, <2>7, <2>8
  <2> QED
    BY <2>9 DEF D
<1> QED
  BY <1>2, <1>3

\* The VMs that are kept: enough, and all beyond any that is picked and not yet dying.
LEMMA Survivors ==
  ASSUME NEW mine, mine \subseteq Names, NEW dying, NEW n \in Nat, Cardinality(mine) > n
  PROVE  LET D == ToDelete(mine, dying, Cardinality(mine) - n) IN
         /\ Cardinality(mine \ D) >= n
         /\ \A v \in D \ dying, w \in mine \ D : w \notin dying /\ v < w
<1> DEFINE k == Cardinality(mine) - n
           D == ToDelete(mine, dying, k)
<1>0. IsFiniteSet(mine) /\ Cardinality(mine) \in Nat /\ k \in Nat
  BY NamesFinite
<1>1. D \subseteq mine
  BY DEF ToDelete
<1>2. Cardinality(D) <= k
  BY <1>0, NotTooMany
<1>3. ASSUME NEW v \in D \ dying, NEW w \in mine \ D PROVE w \notin dying /\ v < w
  <2>1. ~Before(dying, w, v)
    <3> HIDE DEF k
    <3> QED
      BY <1>0, <1>3, DownwardClosed
  <2>2. v \in Names /\ w \in Names /\ v # w /\ Names \subseteq Nat
    BY <1>1, ReplicaSetAssumption
  <2>3. Before(dying, v, w)
    BY <2>1, <2>2, BeforeOrder
  <2> QED
    BY <2>1, <2>3 DEF Before
<1> HIDE DEF D
<1>4. IsFiniteSet(D) /\ Cardinality(D) \in Nat /\ mine \cap D = D
  BY <1>1, NamesFinite
<1>5. Cardinality(mine \ D) = Cardinality(mine) - Cardinality(mine \cap D)
  BY <1>0, <1>4, FS_Difference
<1>6. Cardinality(mine \ D) >= n
  BY <1>0, <1>2, <1>4, <1>5
<1> QED
  BY <1>3, <1>6 DEF D

-----------------------------------------------------------------------------
(* What steps do. *)

LEMMA IdleType ==
  /\ \A c \in ReplicaSet : Idle(c) \in Rec
  /\ NotRunning \in Rec /\ NotRunning.pc = "idle" /\ NotRunning.mine = {} /\ NotRunning.dying = {}
  /\ NoMachine \in Machine /\ NoMachine.st = "none" /\ NoMachine.owner = NoRS
<1>1. ASSUME NEW c \in ReplicaSet PROVE Idle(c) \in Rec
  BY DEF Idle, Rec, ReplicaSet
<1>2. (CHOOSE n \in Sizes : TRUE) \in Sizes
  BY ReplicaSetAssumption
<1>3. NewSet(CHOOSE n \in Sizes : TRUE) \in ReplicaSet
  BY <1>2 DEF NewSet, NewStatus, ReplicaSet, Status
<1> QED
  BY <1>1, <1>3 DEF NotRunning, Idle, NoMachine, Machine

LEMMA RecEffect ==
  ASSUME TypeOK, NEW r \in RS, NEW y \in Rec, rec' = [rec EXCEPT ![r] = y]
  PROVE  rec' \in [RS -> Rec] /\ rec'[r] = y
BY DEF TypeOK

LEMMA FaultEffect ==
  ASSUME TypeOK, Fault \/ Edit \/ UNCHANGED budget
  PROVE  /\ faults' \in 0..MaxFaults /\ edits' \in 0..MaxEdits
         /\ faults' = 0 => faults = 0
         /\ Fault => faults' # 0
BY ReplicaSetAssumption DEF TypeOK, Fault, Edit, budget

\* One VM is written.
Sets(v, x) == vm'[v] = x /\ (\A u \in Names : u # v => vm'[u] = vm[u]) /\ UNCHANGED vmCache
Still == UNCHANGED <<vm, vmCache>>

LEMMA WriteVMEffect ==
  ASSUME TypeOK, NEW v \in Names, NEW x \in Machine, WriteVM(v, x)
  PROVE  Sets(v, x) /\ vm' \in [Names -> Machine] /\ vmCache' \in [Names -> Machine] /\ vmStale' \subseteq Names
BY DEF TypeOK, WriteVM, Sets

LEMMA StillEffect ==
  ASSUME TypeOK, UNCHANGED machine
  PROVE  Still /\ vm' \in [Names -> Machine] /\ vmCache' \in [Names -> Machine] /\ vmStale' \subseteq Names
BY DEF TypeOK, machine, Still

LEMMA DeletedEffect ==
  ASSUME NEW m \in Machine, NEW x \in Deleted(m)
  PROVE  /\ x \in Machine /\ x.st # "live"
         /\ Exists(x) => x.owner = m.owner
         /\ ~Exists(x) => x.owner = NoRS
<1>1. [m EXCEPT !.st = "deleting"] \in Machine /\ [m EXCEPT !.st = "deleting"].st = "deleting"
      /\ [m EXCEPT !.st = "deleting"].owner = m.owner
  BY DEF Machine
<1> QED
  BY <1>1, IdleType DEF Deleted, Exists

\* What a reconcile keeps, and the steps it goes through.
Keeps(r) == /\ rec'[r].base = rec[r].base /\ rec'[r].fin = rec[r].fin
            /\ rec'[r].mine = rec[r].mine /\ rec'[r].dying = rec[r].dying
Same(r)  == rec'[r].pc = rec[r].pc /\ rec'[r].base = rec[r].base /\ rec'[r].fin = rec[r].fin
Goes(r, p, q) == rec[r].pc = p /\ rec'[r].pc = q

Finalizes(r) ==
  /\ Goes(r, "idle", "patch") /\ Still /\ rec'[r].base = rsCache[r]
  /\ rec'[r].mine = {} /\ rec'[r].dying = {}
  /\ rec'[r].fin \/ rsCache[r].st = "deleting"
Reads(r) ==
  /\ Goes(r, "idle", "adopt") /\ Still
  /\ rsCache[r].st = "live" /\ rsCache[r].fin /\ rec'[r].base = rsCache[r] /\ rec'[r].fin /\ ~rec'[r].errs
  /\ rec'[r].todo  = {v \in Names : Exists(vmCache[v]) /\ vmCache[v].owner = NoRS}
  /\ rec'[r].mine  = {v \in Names : Exists(vmCache[v]) /\ vmCache[v].owner = r}
  /\ rec'[r].dying = {v \in Names : Exists(vmCache[v]) /\ vmCache[v].owner = r /\ vmCache[v].st = "deleting"}
Adopts(r) ==
  /\ rec[r].pc = "adopt" /\ Same(r) /\ rec'[r].errs = rec[r].errs
  /\ \E v \in rec[r].todo :
       /\ Exists(vm[v]) /\ Sets(v, [vm[v] EXCEPT !.owner = r])
       /\ rec'[r].todo = rec[r].todo \ {v} /\ rec'[r].mine = rec[r].mine \cup {v}
       /\ rec'[r].dying = IF vm[v].st = "deleting" THEN rec[r].dying \cup {v} ELSE rec[r].dying
Passes(r) ==
  /\ rec[r].pc = "adopt" /\ Same(r) /\ Keeps(r) /\ Still /\ rec'[r].errs = rec[r].errs
  /\ \E v \in rec[r].todo : /\ rec'[r].todo = rec[r].todo \ {v}
                            /\ Exists(vm[v]) => faults' # 0
Proceeds(r) ==
  /\ Goes(r, "adopt", "label") \/ Goes(r, "label", "sync")
  /\ Keeps(r) /\ Still /\ rec'[r].todo = rec[r].todo /\ rec'[r].errs = rec[r].errs
  /\ rec[r].pc = "adopt" => rec[r].todo = {}
Labels(r) ==
  /\ rec[r].pc = "label" /\ Same(r) /\ Keeps(r) /\ rec'[r].todo = rec[r].todo /\ rec'[r].errs = rec[r].errs
  /\ \E v \in Names : Exists(vm[v]) /\ Sets(v, [vm[v] EXCEPT !.label = r])
Grows(r) ==
  /\ Goes(r, "sync", "create") /\ Keeps(r) /\ Still /\ rec'[r].todo = rec[r].todo
  /\ rec'[r].errs = rec[r].errs /\ rec'[r].left = rec[r].base.n - Cardinality(rec[r].mine)
Shrinks(r) ==
  /\ Goes(r, "sync", "delete") /\ Keeps(r) /\ Still /\ rec'[r].errs = rec[r].errs
  /\ Cardinality(rec[r].mine) > rec[r].base.n
  /\ rec'[r].todo = ToDelete(rec[r].mine, rec[r].dying, Cardinality(rec[r].mine) - rec[r].base.n)
  /\ rec'[r].done = rec'[r].todo
Creates(r) ==
  /\ rec[r].pc = "create" /\ rec[r].left > 0 /\ Same(r) /\ Keeps(r) /\ rec'[r].errs = rec[r].errs
  /\ rec'[r].left = rec[r].left - 1
  /\ \E v \in Names : /\ Free(v) /\ Sets(v, [st |-> "live", owner |-> r, label |-> r])
                      /\ rec'[r].todo = rec[r].todo \cup {v}
Misses(r) ==
  /\ rec[r].pc = "create" /\ rec[r].left > 0 /\ Same(r) /\ Keeps(r) /\ Still
  /\ rec'[r].left = rec[r].left - 1 /\ rec'[r].todo = rec[r].todo
  /\ faults' # 0 \/ "refused" \in past'
Deletes(r) ==
  /\ rec[r].pc = "delete" /\ Same(r) /\ Keeps(r) /\ rec'[r].done = rec[r].done
  /\ \E v \in rec[r].todo :
       /\ rec'[r].todo = rec[r].todo \ {v}
       /\ \/ v \in rec[r].dying /\ Still /\ rec'[r].errs = rec[r].errs
          \/ /\ v \notin rec[r].dying /\ Exists(vm[v]) /\ rec'[r].errs = rec[r].errs
             /\ \E x \in IF vm[v].st = "live" THEN Deleted(vm[v]) ELSE {vm[v]} : Sets(v, x)
          \/ /\ v \notin rec[r].dying /\ Still
             /\ Exists(vm[v]) => faults' # 0
Awaits(r) ==
  /\ Keeps(r) /\ Still /\ ~rec[r].errs /\ rec'[r].errs = rec[r].errs
  /\ \/ Goes(r, "create", "waitCreated") /\ rec'[r].todo = rec[r].todo
     \/ Goes(r, "delete", "waitDeleted") /\ rec[r].todo = {} /\ rec'[r].todo = rec[r].done
Sees(r) ==
  /\ rec[r].pc \in {"waitCreated", "waitDeleted"} /\ Same(r) /\ Keeps(r) /\ Still
  /\ rec'[r].errs = rec[r].errs
  /\ \E v \in rec[r].todo : Confirmed(r, v) /\ rec'[r].todo = rec[r].todo \ {v}
Ends(r) ==
  /\ Working(r) /\ rec'[r].pc = "patch" /\ Keeps(r) /\ Still
  /\ \/ rec[r].pc \in {"label", "sync"}
     \/ rec[r].pc \in {"create", "delete"} /\ rec[r].errs
     \/ rec[r].pc \in {"waitCreated", "waitDeleted"} /\ rec[r].todo = {}
     \/ rec[r].pc = "waitCreated" /\ \E v \in rec[r].todo : ~Exists(vm[v])
     \/ faults' # 0
Moves(r) ==
  \/ UNCHANGED rec /\ Still
  \/ Finalizes(r) \/ Reads(r) \/ Adopts(r) \/ Passes(r) \/ Proceeds(r) \/ Labels(r) \/ Grows(r) \/ Shrinks(r)
  \/ Creates(r) \/ Misses(r) \/ Deletes(r) \/ Awaits(r) \/ Sees(r) \/ Ends(r)

\* A reconcile reads.
LEMMA ReconcileEffect ==
  ASSUME TypeOK, NEW r \in RS, Reconcile(r)
  PROVE  TypeOK' /\ Moves(r)
<1> DEFINE c == rsCache[r]
           listed == {v \in Names : Exists(vmCache[v])}
           own == {v \in listed : vmCache[v].owner = r}
<1>1. c \in ReplicaSet /\ Idle(c) \in Rec /\ c.st \in {"live", "deleting", "gone"} /\ c.fin \in BOOLEAN
  BY IdleType DEF TypeOK, ReplicaSet
<1>2. Still /\ UNCHANGED <<rs, rsCache, rsStale, vm, vmCache, vmStale, past, faults, edits>> /\ queue' \subseteq RS
  BY DEF Reconcile, TypeOK, api, machine, budget, Still
<1>3. rec[r].pc = "idle"
  BY DEF Reconcile, At
<1>4. CASE c.st = "gone"
  BY <1>2, <1>4 DEF Reconcile, TypeOK, Moves
<1>5. CASE c.st = "deleting" \/ (c.st = "live" /\ ~c.fin)
  <2> DEFINE y == [Idle(c) EXCEPT !.pc = "patch", !.fin = (c.st = "live")]
  <2>1. y \in Rec /\ y.pc = "patch" /\ y.base = c /\ y.mine = {} /\ y.dying = {} /\ y.fin = (c.st = "live")
    BY <1>1 DEF Rec, Idle
  <2>2. rec' = [rec EXCEPT ![r] = y]
    BY <1>5 DEF Reconcile
  <2> HIDE DEF y
  <2>3. rec' \in [RS -> Rec] /\ rec'[r] = y
    BY <2>1, <2>2, RecEffect
  <2>4. Finalizes(r)
    BY <1>1, <1>2, <1>3, <1>5, <2>1, <2>3 DEF Finalizes, Goes
  <2> QED
    BY <1>2, <2>3, <2>4 DEF TypeOK, Moves
<1>6. CASE c.st = "live" /\ c.fin
  <2> DEFINE y == [Idle(c) EXCEPT !.pc = "adopt",
                     !.todo  = {v \in listed : vmCache[v].owner = NoRS},
                     !.mine  = own,
                     !.dying = {v \in own : vmCache[v].st = "deleting"},
                     !.plain = {v \in own : vmCache[v].label # r}]
  <2>1. /\ y \in Rec /\ y.pc = "adopt" /\ y.base = c /\ y.fin = c.fin /\ ~y.errs
        /\ y.todo  = {v \in listed : vmCache[v].owner = NoRS} /\ y.mine = own
        /\ y.dying = {v \in own : vmCache[v].st = "deleting"}
    <3>1. /\ {v \in listed : vmCache[v].owner = NoRS} \in SUBSET Names /\ own \in SUBSET Names
          /\ {v \in own : vmCache[v].st = "deleting"} \in SUBSET Names
          /\ {v \in own : vmCache[v].label # r} \in SUBSET Names
      OBVIOUS
    <3> HIDE DEF listed, own, c
    <3> QED
      BY <1>1, <3>1 DEF Rec, Idle
  <2>2. rec' = [rec EXCEPT ![r] = y]
    BY <1>6 DEF Reconcile
  <2> HIDE DEF y
  <2>3. rec' \in [RS -> Rec] /\ rec'[r] = y
    BY <2>1, <2>2, RecEffect
  <2>4. Reads(r)
    BY <1>2, <1>3, <1>6, <2>1, <2>3 DEF Reads, Goes
  <2> QED
    BY <1>2, <2>3, <2>4 DEF TypeOK, Moves
<1> QED
  BY <1>1, <1>4, <1>5, <1>6

\* What a step of the worker leaves alone, beyond rec and the VMs.
Apart == api' = api /\ queue' = queue

LEMMA Assemble ==
  ASSUME TypeOK, Apart, rec' \in [RS -> Rec], past' \subseteq Past,
         vm' \in [Names -> Machine], vmCache' \in [Names -> Machine], vmStale' \subseteq Names,
         faults' \in 0..MaxFaults, edits' \in 0..MaxEdits
  PROVE  TypeOK'
BY DEF TypeOK, Apart, api

LEMMA AdoptEffect ==
  ASSUME TypeOK, NEW r \in RS, Adopt(r)
  PROVE  TypeOK' /\ Moves(r)
<1>0. rec[r] \in Rec /\ rec[r].pc = "adopt" /\ Apart /\ past' = past /\ past' \subseteq Past
  BY DEF TypeOK, Adopt, At, Apart
<1>1. CASE rec[r].todo = {}
  <2> DEFINE y == [rec[r] EXCEPT !.pc = "label"]
  <2>1. /\ y \in Rec /\ y.pc = "label" /\ y.base = rec[r].base /\ y.fin = rec[r].fin /\ y.errs = rec[r].errs
        /\ y.mine = rec[r].mine /\ y.dying = rec[r].dying /\ y.todo = rec[r].todo
    BY <1>0 DEF Rec
  <2>2. rec' = [rec EXCEPT ![r] = y] /\ UNCHANGED machine /\ UNCHANGED budget
    BY <1>1 DEF Adopt, budget
  <2> HIDE DEF y
  <2>3. rec' \in [RS -> Rec] /\ rec'[r] = y
    BY <2>1, <2>2, RecEffect
  <2>4. Proceeds(r)
    BY <1>0, <1>1, <2>1, <2>2, <2>3, StillEffect DEF Proceeds, Goes, Keeps
  <2> QED
    BY <1>0, <2>2, <2>3, <2>4, Assemble, StillEffect, FaultEffect DEF Moves
<1>2. ASSUME NEW v \in rec[r].todo, Exists(vm[v]), WriteVM(v, [vm[v] EXCEPT !.owner = r]), UNCHANGED budget,
             rec' = [rec EXCEPT ![r] = [rec[r] EXCEPT !.todo = @ \ {v}, !.mine = @ \cup {v},
                              !.dying = IF vm[v].st = "deleting" THEN @ \cup {v} ELSE @,
                              !.plain = IF vm[v].label # r THEN @ \cup {v} ELSE @]]
      PROVE  TypeOK' /\ Moves(r)
  <2> DEFINE y == [rec[r] EXCEPT !.todo = @ \ {v}, !.mine = @ \cup {v},
                              !.dying = IF vm[v].st = "deleting" THEN @ \cup {v} ELSE @,
                              !.plain = IF vm[v].label # r THEN @ \cup {v} ELSE @]
  <2>0. v \in Names /\ [vm[v] EXCEPT !.owner = r] \in Machine
    <3>1. v \in Names
      BY <1>0 DEF Rec
    <3>2. vm[v] \in Machine
      BY <3>1 DEF TypeOK
    <3> QED
      BY <3>1, <3>2 DEF Machine
  <2>1. /\ y \in Rec /\ y.pc = rec[r].pc /\ y.base = rec[r].base /\ y.fin = rec[r].fin /\ y.errs = rec[r].errs
        /\ y.mine = rec[r].mine \cup {v} /\ y.todo = rec[r].todo \ {v}
        /\ y.dying = IF vm[v].st = "deleting" THEN rec[r].dying \cup {v} ELSE rec[r].dying
    BY <1>0, <2>0 DEF Rec
  <2>2. rec' = [rec EXCEPT ![r] = y]
    BY <1>2
  <2> HIDE DEF y
  <2>3. rec' \in [RS -> Rec] /\ rec'[r] = y
    BY <2>1, <2>2, RecEffect
  <2>4. Adopts(r)
    BY <1>0, <1>2, <2>0, <2>1, <2>3, WriteVMEffect DEF Adopts, Same
  <2> QED
    BY <1>0, <1>2, <2>0, <2>3, <2>4, Assemble, WriteVMEffect, FaultEffect DEF Moves
<1>3. ASSUME NEW v \in rec[r].todo, IF Exists(vm[v]) THEN Fault ELSE UNCHANGED budget, UNCHANGED machine,
             rec' = [rec EXCEPT ![r].todo = @ \ {v}]
      PROVE  TypeOK' /\ Moves(r)
  <2> DEFINE y == [rec[r] EXCEPT !.todo = @ \ {v}]
  <2>1. /\ y \in Rec /\ y.pc = rec[r].pc /\ y.base = rec[r].base /\ y.fin = rec[r].fin /\ y.errs = rec[r].errs
        /\ y.mine = rec[r].mine /\ y.dying = rec[r].dying /\ y.todo = rec[r].todo \ {v}
    BY <1>0 DEF Rec
  <2>2. rec' = [rec EXCEPT ![r] = y]
    BY <1>3
  <2> HIDE DEF y
  <2>3. rec' \in [RS -> Rec] /\ rec'[r] = y
    BY <2>1, <2>2, RecEffect
  <2>4. Passes(r)
    BY <1>0, <1>3, <2>1, <2>3, StillEffect, FaultEffect DEF Passes, Same, Keeps
  <2> QED
    BY <1>0, <1>3, <2>3, <2>4, Assemble, StillEffect, FaultEffect DEF Moves
<1> QED
  BY <1>1, <1>2, <1>3 DEF Adopt

LEMMA LabelEffect ==
  ASSUME TypeOK, NEW r \in RS, Label(r)
  PROVE  TypeOK' /\ Moves(r)
<1>0. rec[r] \in Rec /\ rec[r].pc = "label" /\ Apart /\ past' = past /\ past' \subseteq Past
  BY DEF TypeOK, Label, At, Apart
<1>1. CASE rec[r].plain = {}
  <2> DEFINE y == [rec[r] EXCEPT !.pc = "sync"]
  <2>1. /\ y \in Rec /\ y.pc = "sync" /\ y.base = rec[r].base /\ y.fin = rec[r].fin /\ y.errs = rec[r].errs
        /\ y.mine = rec[r].mine /\ y.dying = rec[r].dying /\ y.todo = rec[r].todo
    BY <1>0 DEF Rec
  <2>2. rec' = [rec EXCEPT ![r] = y] /\ UNCHANGED machine /\ UNCHANGED budget
    BY <1>1 DEF Label, budget
  <2> HIDE DEF y
  <2>3. rec' \in [RS -> Rec] /\ rec'[r] = y
    BY <2>1, <2>2, RecEffect
  <2>4. Proceeds(r)
    BY <1>0, <2>1, <2>2, <2>3, StillEffect DEF Proceeds, Goes, Keeps
  <2> QED
    BY <1>0, <2>2, <2>3, <2>4, Assemble, StillEffect, FaultEffect DEF Moves
<1>2. ASSUME NEW v \in rec[r].plain, Exists(vm[v]), WriteVM(v, [vm[v] EXCEPT !.label = r]), UNCHANGED budget,
             rec' = [rec EXCEPT ![r].plain = @ \ {v}]
      PROVE  TypeOK' /\ Moves(r)
  <2> DEFINE y == [rec[r] EXCEPT !.plain = @ \ {v}]
  <2>0. v \in Names /\ [vm[v] EXCEPT !.label = r] \in Machine
    <3>1. v \in Names
      BY <1>0 DEF Rec
    <3>2. vm[v] \in Machine
      BY <3>1 DEF TypeOK
    <3> QED
      BY <3>1, <3>2 DEF Machine
  <2>1. /\ y \in Rec /\ y.pc = rec[r].pc /\ y.base = rec[r].base /\ y.fin = rec[r].fin /\ y.errs = rec[r].errs
        /\ y.mine = rec[r].mine /\ y.dying = rec[r].dying /\ y.todo = rec[r].todo
    BY <1>0 DEF Rec
  <2>2. rec' = [rec EXCEPT ![r] = y]
    BY <1>2
  <2> HIDE DEF y
  <2>3. rec' \in [RS -> Rec] /\ rec'[r] = y
    BY <2>1, <2>2, RecEffect
  <2>4. Labels(r)
    BY <1>0, <1>2, <2>0, <2>1, <2>3, WriteVMEffect DEF Labels, Same, Keeps
  <2> QED
    BY <1>0, <1>2, <2>0, <2>3, <2>4, Assemble, WriteVMEffect, FaultEffect DEF Moves
<1>3. ASSUME IF UNCHANGED budget THEN TRUE ELSE Fault, UNCHANGED machine,
             rec' = [rec EXCEPT ![r] = [rec[r] EXCEPT !.pc = "patch", !.again = TRUE]]
      PROVE  TypeOK' /\ Moves(r)
  <2> DEFINE y == [rec[r] EXCEPT !.pc = "patch", !.again = TRUE]
  <2>1. /\ y \in Rec /\ y.pc = "patch" /\ y.base = rec[r].base /\ y.fin = rec[r].fin
        /\ y.mine = rec[r].mine /\ y.dying = rec[r].dying
    BY <1>0 DEF Rec
  <2>2. rec' = [rec EXCEPT ![r] = y]
    BY <1>3
  <2> HIDE DEF y
  <2>3. rec' \in [RS -> Rec] /\ rec'[r] = y
    BY <2>1, <2>2, RecEffect
  <2>4. Ends(r)
    BY <1>0, <1>3, <2>1, <2>3, StillEffect DEF Ends, Keeps, Working
  <2> QED
    BY <1>0, <1>3, <2>3, <2>4, Assemble, StillEffect, FaultEffect DEF Moves
<1> QED
  BY <1>1, <1>2, <1>3 DEF Label

LEMMA UpdateStatusEffect ==
  ASSUME TypeOK, NEW r \in RS, NEW f \in BOOLEAN, NEW e \in BOOLEAN, UpdateStatus(r, f, e)
  PROVE  rec' \in [RS -> Rec] /\ rec'[r].pc = "patch" /\ Keeps(r)
<1> DEFINE s == [replicas |-> Cardinality(rec[r].mine), failure |-> f]
           y == [rec[r] EXCEPT !.pc = "patch", !.again = e, !.todo = {}, !.done = {}, !.left = 0, !.status = s]
<1>0. rec[r] \in Rec
  BY DEF TypeOK
<1>1. s \in Status
  <2>1. rec[r].mine \subseteq Names
    BY <1>0 DEF Rec
  <2>2. Cardinality(rec[r].mine) \in Nat
    BY <2>1, NamesFinite
  <2> QED
    BY <2>2 DEF Status
<1>2. rec' = [rec EXCEPT ![r] = y]
  BY DEF UpdateStatus
<1> HIDE DEF s
<1>3. /\ y \in Rec /\ y.pc = "patch" /\ y.base = rec[r].base /\ y.fin = rec[r].fin
      /\ y.mine = rec[r].mine /\ y.dying = rec[r].dying
  BY <1>0, <1>1 DEF Rec
<1> HIDE DEF y
<1>4. rec' \in [RS -> Rec] /\ rec'[r] = y
  BY <1>2, <1>3, RecEffect
<1> QED
  BY <1>3, <1>4 DEF Keeps

LEMMA SyncEffect ==
  ASSUME TypeOK, NEW r \in RS, Sync(r)
  PROVE  TypeOK' /\ Moves(r)
<1>0. /\ rec[r] \in Rec /\ rec[r].pc = "sync" /\ Apart /\ past' \subseteq Past
      /\ UNCHANGED machine /\ UNCHANGED budget
  BY DEF TypeOK, Sync, At, Apart
<1>1. Cardinality(rec[r].mine) \in Nat /\ rec[r].base.n \in Nat
  <2>1. rec[r].mine \subseteq Names /\ rec[r].base \in ReplicaSet
    BY <1>0 DEF Rec
  <2> QED
    BY <2>1, NamesFinite, ReplicaSetAssumption DEF ReplicaSet
<1> DEFINE diff == Cardinality(rec[r].mine) - rec[r].base.n
<1>2. CASE diff < 0 /\ rec' = [rec EXCEPT ![r] = [rec[r] EXCEPT !.pc = "create", !.left = 0 - diff]]
  <2> DEFINE k == 0 - diff
             y == [rec[r] EXCEPT !.pc = "create", !.left = k]
  <2>0. k \in Nat /\ k = rec[r].base.n - Cardinality(rec[r].mine)
    BY <1>1, <1>2
  <2>2. rec' = [rec EXCEPT ![r] = y]
    BY <1>2
  <2> HIDE DEF k
  <2>1. /\ y \in Rec /\ y.pc = "create" /\ y.base = rec[r].base /\ y.fin = rec[r].fin /\ y.errs = rec[r].errs
        /\ y.mine = rec[r].mine /\ y.dying = rec[r].dying /\ y.todo = rec[r].todo /\ y.left = k
    BY <1>0, <2>0 DEF Rec
  <2> HIDE DEF y
  <2>3. rec' \in [RS -> Rec] /\ rec'[r] = y
    BY <2>1, <2>2, RecEffect
  <2>4. Grows(r)
    BY <1>0, <2>0, <2>1, <2>3, StillEffect DEF Grows, Goes, Keeps
  <2> QED
    BY <1>0, <2>3, <2>4, Assemble, StillEffect, FaultEffect DEF Moves
<1>3. CASE diff = 0 /\ UpdateStatus(r, FALSE, FALSE)
  <2>1. rec' \in [RS -> Rec] /\ rec'[r].pc = "patch" /\ Keeps(r)
    BY <1>3, UpdateStatusEffect
  <2>2. Ends(r)
    BY <1>0, <2>1, StillEffect DEF Ends, Working
  <2> QED
    BY <1>0, <2>1, <2>2, Assemble, StillEffect, FaultEffect DEF Moves
<1>4. CASE /\ diff > 0
           /\ rec' = [rec EXCEPT ![r] = [rec[r] EXCEPT !.pc = "delete",
                         !.todo = ToDelete(rec[r].mine, rec[r].dying, diff),
                         !.done = ToDelete(rec[r].mine, rec[r].dying, diff)]]
  <2> DEFINE D == ToDelete(rec[r].mine, rec[r].dying, diff)
             y == [rec[r] EXCEPT !.pc = "delete", !.todo = D, !.done = D]
  <2>0. D \in SUBSET Names
    BY <1>0 DEF ToDelete, Rec
  <2>2. rec' = [rec EXCEPT ![r] = y] /\ D = ToDelete(rec[r].mine, rec[r].dying, Cardinality(rec[r].mine) - rec[r].base.n)
    BY <1>4
  <2> HIDE DEF D
  <2>1. /\ y \in Rec /\ y.pc = "delete" /\ y.base = rec[r].base /\ y.fin = rec[r].fin /\ y.errs = rec[r].errs
        /\ y.mine = rec[r].mine /\ y.dying = rec[r].dying /\ y.todo = D /\ y.done = D
    BY <1>0, <2>0 DEF Rec
  <2> HIDE DEF y
  <2>3. rec' \in [RS -> Rec] /\ rec'[r] = y
    BY <2>1, <2>2, RecEffect
  <2>5. Cardinality(rec[r].mine) > rec[r].base.n
    BY <1>1, <1>4
  <2>4. Shrinks(r)
    BY <1>0, <2>1, <2>2, <2>3, <2>5, StillEffect DEF Shrinks, Goes, Keeps
  <2> QED
    BY <1>0, <2>3, <2>4, Assemble, StillEffect, FaultEffect DEF Moves
<1> QED
  BY <1>2, <1>3, <1>4 DEF Sync

LEMMA CreateEffect ==
  ASSUME TypeOK, NEW r \in RS, Create(r)
  PROVE  TypeOK' /\ Moves(r)
<1>0. rec[r] \in Rec /\ rec[r].pc = "create" /\ rec[r].left > 0 /\ Apart /\ rec[r].left - 1 \in Nat
  <2>1. rec[r] \in Rec /\ rec[r].pc = "create" /\ rec[r].left > 0 /\ Apart
    BY DEF TypeOK, Create, At, Apart
  <2>2. rec[r].left \in Nat
    BY <2>1 DEF Rec
  <2> QED
    BY <2>1, <2>2
<1> DEFINE k == rec[r].left - 1
<1>1. ASSUME NEW v \in {w \in Names : Free(w)}, WriteVM(v, [st |-> "live", owner |-> r, label |-> r]),
             rec' = [rec EXCEPT ![r] = [rec[r] EXCEPT !.left = @ - 1, !.todo = @ \cup {v}]],
             UNCHANGED <<budget, past>>
      PROVE  TypeOK' /\ Moves(r)
  <2> DEFINE y == [rec[r] EXCEPT !.left = k, !.todo = @ \cup {v}]
  <2>0. v \in Names /\ [st |-> "live", owner |-> r, label |-> r] \in Machine
    BY DEF Machine
  <2>2. rec' = [rec EXCEPT ![r] = y] /\ k = rec[r].left - 1
    BY <1>1
  <2>5. k \in Nat /\ past' \subseteq Past
    BY <1>0, <1>1 DEF TypeOK
  <2> HIDE DEF k
  <2>1. /\ y \in Rec /\ y.pc = rec[r].pc /\ y.base = rec[r].base /\ y.fin = rec[r].fin /\ y.errs = rec[r].errs
        /\ y.mine = rec[r].mine /\ y.dying = rec[r].dying /\ y.todo = rec[r].todo \cup {v} /\ y.left = k
    BY <1>0, <2>0, <2>5 DEF Rec
  <2> HIDE DEF y
  <2>3. rec' \in [RS -> Rec] /\ rec'[r] = y
    BY <2>1, <2>2, RecEffect
  <2>4. Creates(r)
    BY <1>0, <1>1, <2>0, <2>1, <2>2, <2>3, WriteVMEffect DEF Creates, Same, Keeps
  <2> QED
    BY <1>0, <1>1, <2>0, <2>3, <2>4, <2>5, Assemble, WriteVMEffect, FaultEffect DEF Moves
<1>2. ASSUME IF \E w \in Names : Free(w) THEN Fault /\ UNCHANGED past
                                         ELSE past' = past \cup {"refused"} /\ UNCHANGED budget,
             rec' = [rec EXCEPT ![r] = [rec[r] EXCEPT !.left = @ - 1, !.errs = TRUE]],
             UNCHANGED machine
      PROVE  TypeOK' /\ Moves(r)
  <2> DEFINE y == [rec[r] EXCEPT !.left = k, !.errs = TRUE]
  <2>2. rec' = [rec EXCEPT ![r] = y] /\ k = rec[r].left - 1
    BY <1>2
  <2>5. k \in Nat /\ past' \subseteq Past /\ (Fault \/ UNCHANGED budget) /\ (faults' # 0 \/ "refused" \in past')
    BY <1>0, <1>2, FaultEffect DEF TypeOK, Past
  <2> HIDE DEF k
  <2>1. /\ y \in Rec /\ y.pc = rec[r].pc /\ y.base = rec[r].base /\ y.fin = rec[r].fin
        /\ y.mine = rec[r].mine /\ y.dying = rec[r].dying /\ y.todo = rec[r].todo /\ y.left = k
    BY <1>0, <2>5 DEF Rec
  <2> HIDE DEF y
  <2>3. rec' \in [RS -> Rec] /\ rec'[r] = y
    BY <2>1, <2>2, RecEffect
  <2>4. Misses(r)
    BY <1>0, <1>2, <2>1, <2>2, <2>3, <2>5, StillEffect DEF Misses, Same, Keeps
  <2> QED
    BY <1>0, <1>2, <2>3, <2>4, <2>5, Assemble, StillEffect, FaultEffect DEF Moves
<1> QED
  BY <1>1, <1>2 DEF Create

LEMMA CreatedEffect ==
  ASSUME TypeOK, NEW r \in RS, Created(r)
  PROVE  TypeOK' /\ Moves(r)
<1>0. /\ rec[r] \in Rec /\ rec[r].pc = "create" /\ Apart /\ past' \subseteq Past
      /\ UNCHANGED machine /\ UNCHANGED budget
  BY DEF TypeOK, Created, At, Apart
<1>1. CASE rec[r].errs
  <2>1. rec' \in [RS -> Rec] /\ rec'[r].pc = "patch" /\ Keeps(r)
    BY <1>1, UpdateStatusEffect DEF Created
  <2>2. Ends(r)
    BY <1>0, <1>1, <2>1, StillEffect DEF Ends, Working
  <2> QED
    BY <1>0, <2>1, <2>2, Assemble, StillEffect, FaultEffect DEF Moves
<1>2. CASE ~rec[r].errs
  <2> DEFINE y == [rec[r] EXCEPT !.pc = "waitCreated"]
  <2>1. /\ y \in Rec /\ y.pc = "waitCreated" /\ y.base = rec[r].base /\ y.fin = rec[r].fin /\ y.errs = rec[r].errs
        /\ y.mine = rec[r].mine /\ y.dying = rec[r].dying /\ y.todo = rec[r].todo
    BY <1>0 DEF Rec
  <2>2. rec' = [rec EXCEPT ![r] = y]
    BY <1>2 DEF Created
  <2> HIDE DEF y
  <2>3. rec' \in [RS -> Rec] /\ rec'[r] = y
    BY <2>1, <2>2, RecEffect
  <2>4. Awaits(r)
    BY <1>0, <1>2, <2>1, <2>3, StillEffect DEF Awaits, Goes, Keeps
  <2> QED
    BY <1>0, <2>3, <2>4, Assemble, StillEffect, FaultEffect DEF Moves
<1> QED
  BY <1>1, <1>2

LEMMA DeleteEffect ==
  ASSUME TypeOK, NEW r \in RS, Delete(r)
  PROVE  TypeOK' /\ Moves(r)
<1>0. rec[r] \in Rec /\ rec[r].pc = "delete" /\ Apart /\ past' \subseteq Past
  BY DEF TypeOK, Delete, At, Apart
<1>1. ASSUME NEW v \in rec[r].todo, NEW e \in {rec[r].errs, TRUE},
             rec' = [rec EXCEPT ![r] = [rec[r] EXCEPT !.todo = @ \ {v}, !.errs = e]]
      PROVE  /\ rec' \in [RS -> Rec] /\ Same(r) /\ Keeps(r)
             /\ rec'[r].done = rec[r].done /\ rec'[r].todo = rec[r].todo \ {v} /\ rec'[r].errs = e
  <2> DEFINE y == [rec[r] EXCEPT !.todo = @ \ {v}, !.errs = e]
  <2>1. /\ y \in Rec /\ y.pc = rec[r].pc /\ y.base = rec[r].base /\ y.fin = rec[r].fin /\ y.errs = e
        /\ y.mine = rec[r].mine /\ y.dying = rec[r].dying /\ y.todo = rec[r].todo \ {v} /\ y.done = rec[r].done
    BY <1>0 DEF Rec
  <2>2. rec' = [rec EXCEPT ![r] = y]
    BY <1>1
  <2> HIDE DEF y
  <2>3. rec' \in [RS -> Rec] /\ rec'[r] = y
    BY <2>1, <2>2, RecEffect
  <2> QED
    BY <2>1, <2>3 DEF Same, Keeps
<1>2. ASSUME NEW v \in rec[r].todo, rec' = [rec EXCEPT ![r].todo = @ \ {v}]
      PROVE  /\ rec' \in [RS -> Rec] /\ Same(r) /\ Keeps(r)
             /\ rec'[r].done = rec[r].done /\ rec'[r].todo = rec[r].todo \ {v} /\ rec'[r].errs = rec[r].errs
  <2> DEFINE y == [rec[r] EXCEPT !.todo = @ \ {v}]
  <2>1. /\ y \in Rec /\ y.pc = rec[r].pc /\ y.base = rec[r].base /\ y.fin = rec[r].fin /\ y.errs = rec[r].errs
        /\ y.mine = rec[r].mine /\ y.dying = rec[r].dying /\ y.todo = rec[r].todo \ {v} /\ y.done = rec[r].done
    BY <1>0 DEF Rec
  <2>2. rec' = [rec EXCEPT ![r] = y]
    BY <1>2
  <2> HIDE DEF y
  <2>3. rec' \in [RS -> Rec] /\ rec'[r] = y
    BY <2>1, <2>2, RecEffect
  <2> QED
    BY <2>1, <2>3 DEF Same, Keeps
<1>3. ASSUME NEW v \in rec[r].todo, v \in rec[r].dying, rec' = [rec EXCEPT ![r].todo = @ \ {v}],
             UNCHANGED <<machine, budget>>
      PROVE  TypeOK' /\ Moves(r)
  <2>1. Deletes(r)
    BY <1>0, <1>2, <1>3, StillEffect DEF Deletes
  <2> QED
    BY <1>0, <1>2, <1>3, <2>1, Assemble, StillEffect, FaultEffect DEF Moves
<1>4. ASSUME NEW v \in rec[r].todo, v \notin rec[r].dying, Exists(vm[v]), rec' = [rec EXCEPT ![r].todo = @ \ {v}],
             NEW x \in IF vm[v].st = "live" THEN Deleted(vm[v]) ELSE {vm[v]}, WriteVM(v, x), UNCHANGED budget
      PROVE  TypeOK' /\ Moves(r)
  <2>0. v \in Names
    BY <1>0 DEF Rec
  <2>1. vm[v] \in Machine
    BY <2>0 DEF TypeOK
  <2>2. x \in Machine
    BY <2>1, DeletedEffect
  <2>3. Deletes(r)
    BY <1>0, <1>2, <1>4, <2>0, <2>2, WriteVMEffect DEF Deletes
  <2> QED
    BY <1>0, <1>2, <1>4, <2>0, <2>2, <2>3, Assemble, WriteVMEffect, FaultEffect DEF Moves
<1>5. ASSUME NEW v \in rec[r].todo, v \notin rec[r].dying, IF Exists(vm[v]) THEN Fault ELSE UNCHANGED budget,
             rec' = [rec EXCEPT ![r] = [rec[r] EXCEPT !.todo = @ \ {v}, !.errs = TRUE]], UNCHANGED machine
      PROVE  TypeOK' /\ Moves(r)
  <2>1. Deletes(r)
    BY <1>0, <1>1, <1>5, StillEffect, FaultEffect DEF Deletes
  <2> QED
    BY <1>0, <1>1, <1>5, <2>1, Assemble, StillEffect, FaultEffect DEF Moves
<1> QED
  BY <1>3, <1>4, <1>5 DEF Delete

LEMMA DeletedAllEffect ==
  ASSUME TypeOK, NEW r \in RS, DeletedAll(r)
  PROVE  TypeOK' /\ Moves(r)
<1>0. /\ rec[r] \in Rec /\ rec[r].pc = "delete" /\ rec[r].todo = {} /\ Apart /\ past' \subseteq Past
      /\ UNCHANGED machine /\ UNCHANGED budget
  BY DEF TypeOK, DeletedAll, At, Apart
<1>1. CASE rec[r].errs
  <2>1. rec' \in [RS -> Rec] /\ rec'[r].pc = "patch" /\ Keeps(r)
    BY <1>1, UpdateStatusEffect DEF DeletedAll
  <2>2. Ends(r)
    BY <1>0, <1>1, <2>1, StillEffect DEF Ends, Working
  <2> QED
    BY <1>0, <2>1, <2>2, Assemble, StillEffect, FaultEffect DEF Moves
<1>2. CASE ~rec[r].errs
  <2> DEFINE y == [rec[r] EXCEPT !.pc = "waitDeleted", !.todo = rec[r].done]
  <2>1. /\ y \in Rec /\ y.pc = "waitDeleted" /\ y.base = rec[r].base /\ y.fin = rec[r].fin /\ y.errs = rec[r].errs
        /\ y.mine = rec[r].mine /\ y.dying = rec[r].dying /\ y.todo = rec[r].done
    BY <1>0 DEF Rec
  <2>2. rec' = [rec EXCEPT ![r] = y]
    BY <1>2 DEF DeletedAll
  <2> HIDE DEF y
  <2>3. rec' \in [RS -> Rec] /\ rec'[r] = y
    BY <2>1, <2>2, RecEffect
  <2>4. Awaits(r)
    BY <1>0, <1>2, <2>1, <2>3, StillEffect DEF Awaits, Goes, Keeps
  <2> QED
    BY <1>0, <2>3, <2>4, Assemble, StillEffect, FaultEffect DEF Moves
<1> QED
  BY <1>1, <1>2

LEMMA WaitEffect ==
  ASSUME TypeOK, NEW r \in RS, Wait(r)
  PROVE  TypeOK' /\ Moves(r)
<1>0. /\ rec[r] \in Rec /\ rec[r].pc \in {"waitCreated", "waitDeleted"} /\ Apart /\ past' \subseteq Past
      /\ UNCHANGED machine
  BY DEF TypeOK, Wait, Apart
<1>1. ASSUME UpdateStatus(r, FALSE, FALSE) \/ UpdateStatus(r, FALSE, TRUE), Fault \/ UNCHANGED budget,
             \/ rec[r].todo = {}
             \/ rec[r].pc = "waitCreated" /\ \E v \in rec[r].todo : ~Exists(vm[v])
             \/ Fault
      PROVE  TypeOK' /\ Moves(r)
  <2>1. rec' \in [RS -> Rec] /\ rec'[r].pc = "patch" /\ Keeps(r)
    BY <1>1, UpdateStatusEffect
  <2>2. Ends(r)
    BY <1>0, <1>1, <2>1, StillEffect, FaultEffect DEF Ends, Working
  <2> QED
    BY <1>0, <1>1, <2>1, <2>2, Assemble, StillEffect, FaultEffect DEF Moves
<1>2. ASSUME NEW v \in rec[r].todo, Confirmed(r, v), rec' = [rec EXCEPT ![r].todo = @ \ {v}], UNCHANGED budget
      PROVE  TypeOK' /\ Moves(r)
  <2> DEFINE y == [rec[r] EXCEPT !.todo = @ \ {v}]
  <2>1. /\ y \in Rec /\ y.pc = rec[r].pc /\ y.base = rec[r].base /\ y.fin = rec[r].fin /\ y.errs = rec[r].errs
        /\ y.mine = rec[r].mine /\ y.dying = rec[r].dying /\ y.todo = rec[r].todo \ {v}
    BY <1>0 DEF Rec
  <2>2. rec' = [rec EXCEPT ![r] = y]
    BY <1>2
  <2> HIDE DEF y
  <2>3. rec' \in [RS -> Rec] /\ rec'[r] = y
    BY <2>1, <2>2, RecEffect
  <2>4. Sees(r)
    BY <1>0, <1>2, <2>1, <2>3, StillEffect DEF Sees, Same, Keeps
  <2> QED
    BY <1>0, <1>2, <2>3, <2>4, Assemble, StillEffect, FaultEffect DEF Moves
<1> QED
  BY <1>1, <1>2 DEF Wait, At

\* A step of the worker but the last: the replica set itself and its cached copy stay.
LEMMA WorkEffect ==
  ASSUME TypeOK, NEW r \in RS, Worker(r), ~Patch(r)
  PROVE  TypeOK' /\ Moves(r) /\ UNCHANGED <<rs, rsCache>> /\ past \subseteq past' /\ (faults' = 0 => faults = 0)
         /\ ("raised" \in past' => "raised" \in past) /\ ("meddled" \in past' => "meddled" \in past)
<1>1. TypeOK' /\ Moves(r)
  BY ReconcileEffect, AdoptEffect, LabelEffect, SyncEffect, CreateEffect, CreatedEffect, DeleteEffect,
     DeletedAllEffect, WaitEffect DEF Worker
<1>2. UNCHANGED <<rs, rsCache>>
  BY DEF Worker, Reconcile, Adopt, Label, Sync, Create, Created, Delete, DeletedAll, Wait, api
<1>3. past' = past \/ past' = past \cup {"refused"}
  BY DEF Worker, Reconcile, Adopt, Label, Sync, Create, Created, Delete, DeletedAll, Wait
<1>4. Fault \/ UNCHANGED budget
  BY DEF Worker, Reconcile, Adopt, Label, Sync, Create, Created, Delete, DeletedAll, Wait, budget
<1> QED
  BY <1>1, <1>2, <1>3, <1>4, FaultEffect

\* The last step of a reconcile: nothing is written, or what it has changed.
Closes(r) ==
  /\ rec[r].pc = "patch" /\ rec'[r] = NotRunning /\ Still /\ UNCHANGED rsCache
  /\ rs'[r].n = rs[r].n
  /\ \/ rs'[r] = rs[r]
     \/ /\ rs'[r].fin = (IF rec[r].base.fin = rec[r].fin THEN rs[r].fin ELSE rec[r].fin)
        /\ rs'[r].st = (IF rs[r].st = "deleting" /\ ~rs'[r].fin THEN "gone" ELSE rs[r].st)
        /\ rec[r].fin /\ ~rec[r].base.fin => rs[r].st = "live"
        /\ rs[r].st # "gone"

LEMMA WriteRSEffect ==
  ASSUME TypeOK, NEW r \in RS, NEW s \in ReplicaSet, WriteRS(r, s)
  PROVE  /\ rs' \in [RS -> ReplicaSet] /\ rsCache' \in [RS -> ReplicaSet] /\ rsStale' \subseteq RS
         /\ rs'[r] = s /\ UNCHANGED rsCache
BY DEF TypeOK, WriteRS

LEMMA MergedEffect ==
  ASSUME TypeOK, NEW r \in RS
  PROVE  /\ Merged(r) \in ReplicaSet /\ Merged(r).n = rs[r].n
         /\ Merged(r).fin = (IF rec[r].base.fin = rec[r].fin THEN rs[r].fin ELSE rec[r].fin)
         /\ Merged(r).st = (IF rs[r].st = "deleting" /\ ~Merged(r).fin THEN "gone" ELSE rs[r].st)
<1> DEFINE b == rec[r].base
           a == rec[r].status
           fin == IF b.fin = rec[r].fin THEN rs[r].fin ELSE rec[r].fin
           rep == IF b.status.replicas = a.replicas THEN rs[r].status.replicas ELSE a.replicas
           fai == IF b.status.failure = a.failure THEN rs[r].status.failure ELSE a.failure
           sts == [replicas |-> rep, failure |-> fai]
           st  == IF rs[r].st = "deleting" /\ ~fin THEN "gone" ELSE rs[r].st
<1>0. rec[r] \in Rec /\ rs[r] \in ReplicaSet
  BY DEF TypeOK
<1>1. /\ b \in ReplicaSet /\ a \in Status /\ rec[r].fin \in BOOLEAN
      /\ rs[r].status \in Status /\ rs[r].fin \in BOOLEAN /\ rs[r].st \in {"live", "deleting", "gone"}
  BY <1>0 DEF Rec, ReplicaSet
<1>2. Merged(r) = [rs[r] EXCEPT !.fin = fin, !.status = sts, !.st = st]
  BY DEF Merged
<1>3. sts \in Status
  <2>1. rep \in Nat /\ fai \in BOOLEAN
    BY <1>1 DEF Status
  <2> HIDE DEF rep, fai
  <2> QED
    BY <2>1 DEF Status
<1>4. fin \in BOOLEAN /\ st \in {"live", "deleting", "gone"}
  BY <1>1
<1>5. fin = (IF rec[r].base.fin = rec[r].fin THEN rs[r].fin ELSE rec[r].fin)
  OBVIOUS
<1>6. st = (IF rs[r].st = "deleting" /\ ~fin THEN "gone" ELSE rs[r].st)
  OBVIOUS
<1> HIDE DEF fin, sts, st
<1>7. Merged(r) \in ReplicaSet /\ Merged(r).n = rs[r].n /\ Merged(r).fin = fin /\ Merged(r).st = st
  BY <1>0, <1>2, <1>3, <1>4 DEF ReplicaSet
<1> QED
  BY <1>5, <1>6, <1>7

LEMMA PatchEffect ==
  ASSUME TypeOK, NEW r \in RS, Patch(r)
  PROVE  TypeOK' /\ Closes(r) /\ past' = past /\ (faults' = 0 => faults = 0)
<1>1. rec' \in [RS -> Rec] /\ rec'[r] = NotRunning
  BY IdleType, RecEffect DEF Patch
<1>2. rec[r].pc = "patch" /\ UNCHANGED machine /\ past' = past /\ past' \subseteq Past
  BY DEF Patch, At, TypeOK
<1>3. Fault \/ UNCHANGED budget
  BY DEF Patch
<1>4. queue' \subseteq RS
  BY DEF Patch, TypeOK
<1>5. CASE WriteRS(r, Merged(r)) /\ rs[r].st # "gone" /\ (rec[r].fin /\ ~rec[r].base.fin => rs[r].st = "live")
  <2>1. /\ rs' \in [RS -> ReplicaSet] /\ rsCache' \in [RS -> ReplicaSet] /\ rsStale' \subseteq RS
        /\ rs'[r] = Merged(r) /\ UNCHANGED rsCache
    BY <1>5, MergedEffect, WriteRSEffect
  <2>2. Closes(r)
    BY <1>1, <1>2, <1>5, <2>1, MergedEffect, StillEffect DEF Closes
  <2>3. TypeOK'
    BY <1>1, <1>2, <1>3, <1>4, <2>1, StillEffect, FaultEffect DEF TypeOK
  <2> QED
    BY <1>2, <1>3, <2>2, <2>3, FaultEffect
<1>6. CASE UNCHANGED api
  <2>1. UNCHANGED <<rs, rsCache, rsStale>>
    BY <1>6 DEF api
  <2>2. Closes(r)
    BY <1>1, <1>2, <2>1, StillEffect DEF Closes
  <2>3. TypeOK'
    BY <1>1, <1>2, <1>3, <1>4, <2>1, StillEffect, FaultEffect DEF TypeOK
  <2> QED
    BY <1>2, <1>3, <2>2, <2>3, FaultEffect
<1> QED
  BY <1>5, <1>6 DEF Patch

\* What others do to the replica set.
Edited(r) ==
  /\ Still /\ UNCHANGED rsCache /\ rs'[r].fin = rs[r].fin /\ rs[r].st = "live"
  /\ \/ rs'[r].st = "live" /\ (rs'[r].n > rs[r].n => "raised" \in past')
     \/ rs'[r].n = rs[r].n /\ rs'[r].st # "live" /\ (rs[r].fin => rs'[r].st # "gone")
Refreshed(r) == Still /\ UNCHANGED rs /\ rsCache'[r] = rs[r]

LEMMA EditEffect ==
  ASSUME TypeOK, Edit
  PROVE  /\ faults' \in 0..MaxFaults /\ edits' \in 0..MaxEdits /\ (faults' = 0 => faults = 0)
BY FaultEffect

LEMMA SetStepsEffect ==
  ASSUME TypeOK, NEW r \in RS, Scale(r) \/ DeleteSet(r) \/ SetEvent(r)
  PROVE  /\ TypeOK' /\ UNCHANGED rec /\ past \subseteq past' /\ (faults' = 0 => faults = 0)
         /\ Edited(r) \/ Refreshed(r)
<1>0. rs[r] \in ReplicaSet
  BY DEF TypeOK
<1>1. CASE Scale(r)
  <2>1. PICK n \in Sizes : /\ WriteRS(r, [rs[r] EXCEPT !.n = n])
                           /\ past' = IF n > rs[r].n THEN past \cup {"raised"} ELSE past
    BY <1>1 DEF Scale
  <2>2. /\ [rs[r] EXCEPT !.n = n] \in ReplicaSet /\ [rs[r] EXCEPT !.n = n].n = n
        /\ [rs[r] EXCEPT !.n = n].fin = rs[r].fin /\ [rs[r] EXCEPT !.n = n].st = rs[r].st
    BY <1>0 DEF ReplicaSet
  <2>3. /\ rs' \in [RS -> ReplicaSet] /\ rsCache' \in [RS -> ReplicaSet] /\ rsStale' \subseteq RS
        /\ rs'[r] = [rs[r] EXCEPT !.n = n] /\ UNCHANGED rsCache
    BY <2>1, <2>2, WriteRSEffect
  <2>4. UNCHANGED machine /\ UNCHANGED <<queue, rec>> /\ Edit /\ rs[r].st = "live"
    BY <1>1 DEF Scale
  <2>5. past \subseteq past' /\ past' \subseteq Past /\ (rs'[r].n > rs[r].n => "raised" \in past')
    BY <2>1, <2>2, <2>3 DEF TypeOK, Past
  <2>6. TypeOK'
    BY <2>3, <2>4, <2>5, StillEffect, EditEffect DEF TypeOK
  <2>7. Edited(r)
    BY <2>2, <2>3, <2>4, <2>5, StillEffect DEF Edited
  <2> QED
    BY <2>4, <2>5, <2>6, <2>7, EditEffect
<1>2. CASE DeleteSet(r)
  <2> DEFINE t == IF rs[r].fin THEN "deleting" ELSE "gone"
             s == [rs[r] EXCEPT !.st = t]
  <2>1. WriteRS(r, s) /\ UNCHANGED machine /\ UNCHANGED <<queue, rec, past>> /\ Edit /\ rs[r].st = "live"
    BY <1>2 DEF DeleteSet
  <2>2. s \in ReplicaSet /\ s.n = rs[r].n /\ s.fin = rs[r].fin /\ s.st = t
    BY <1>0 DEF ReplicaSet
  <2> HIDE DEF s
  <2>3. /\ rs' \in [RS -> ReplicaSet] /\ rsCache' \in [RS -> ReplicaSet] /\ rsStale' \subseteq RS
        /\ rs'[r] = s /\ UNCHANGED rsCache
    BY <2>1, <2>2, WriteRSEffect
  <2>6. TypeOK'
    BY <2>1, <2>3, StillEffect, EditEffect DEF TypeOK
  <2>7. Edited(r)
    BY <2>1, <2>2, <2>3, StillEffect DEF Edited
  <2> QED
    BY <2>1, <2>6, <2>7, EditEffect
<1>3. CASE SetEvent(r)
  <2>1. /\ UNCHANGED machine /\ UNCHANGED <<rs, rec, past, faults, edits>> /\ queue' = queue \cup {r}
        /\ rsCache' = [rsCache EXCEPT ![r] = rs[r]] /\ rsStale' \subseteq rsStale
    BY <1>3 DEF SetEvent, budget
  <2>2. rsCache' \in [RS -> ReplicaSet] /\ rsCache'[r] = rs[r]
    BY <1>0, <2>1 DEF TypeOK
  <2>3. TypeOK'
    BY <2>1, <2>2, StillEffect DEF TypeOK
  <2> QED
    BY <2>1, <2>2, <2>3, StillEffect DEF Refreshed
<1> QED
  BY <1>1, <1>2, <1>3

\* What others do to a VM.
Appears(v)  == Free(v) /\ \E x : Sets(v, x) /\ x.st = "live" /\ x.owner = NoRS
Removed(v)  == /\ vm[v].st = "live" /\ \E x \in Deleted(vm[v]) : Sets(v, x)
               /\ "meddled" \in past' \/ (vm[v].owner # NoRS /\ rs[vm[v].owner].st = "gone")
Vanishes(v) == vm[v].st = "deleting" /\ Sets(v, NoMachine)
Notices(v)  == UNCHANGED vm /\ vmCache'[v] = vm[v] /\ \A u \in Names : u # v => vmCache'[u] = vmCache[u]
Happens(v)  == Appears(v) \/ Removed(v) \/ Vanishes(v) \/ Notices(v)

LEMMA VMStepsEffect ==
  ASSUME TypeOK, NEW v \in Names,
         CreateOrphan(v) \/ DeleteMachine(v) \/ GarbageCollect(v) \/ MachineGone(v) \/ MachineEvent(v)
  PROVE  /\ TypeOK' /\ UNCHANGED <<rec, rs, rsCache>> /\ past \subseteq past' /\ (faults' = 0 => faults = 0)
         /\ Happens(v)
<1>0. vm[v] \in Machine /\ vmCache[v] \in Machine
  BY DEF TypeOK
<1>1. ASSUME NEW x \in Machine, WriteVM(v, x), Edit \/ UNCHANGED budget, UNCHANGED <<api, queue, rec>>,
             past' \in {past, past \cup {"meddled"}}
      PROVE  TypeOK' /\ UNCHANGED <<rec, rs, rsCache>> /\ past \subseteq past' /\ (faults' = 0 => faults = 0) /\ Sets(v, x)
  <2>1. past' \subseteq Past /\ past \subseteq past' /\ UNCHANGED <<rs, rsCache, rsStale>>
    BY <1>1 DEF TypeOK, Past, api
  <2>2. TypeOK'
    BY <1>1, <2>1, WriteVMEffect, FaultEffect DEF TypeOK
  <2> QED
    BY <1>1, <2>1, <2>2, WriteVMEffect, FaultEffect
<1>2. CASE CreateOrphan(v)
  <2> DEFINE x == [NoMachine EXCEPT !.st = "live"]
  <2>1. x \in Machine /\ x.st = "live" /\ x.owner = NoRS
    BY DEF NoMachine, Machine
  <2>2. WriteVM(v, x) /\ Edit /\ UNCHANGED <<api, queue, rec>> /\ past' = past /\ Free(v)
    BY <1>2 DEF CreateOrphan
  <2> HIDE DEF x
  <2> QED
    BY <1>1, <2>1, <2>2 DEF Happens, Appears
<1>3. CASE DeleteMachine(v)
  <2>1. PICK x \in Deleted(vm[v]) : WriteVM(v, x)
    BY <1>3 DEF DeleteMachine
  <2>2. x \in Machine
    BY <1>0, DeletedEffect
  <2>3. Edit /\ UNCHANGED <<api, queue, rec>> /\ past' = past \cup {"meddled"} /\ vm[v].st = "live"
    BY <1>3 DEF DeleteMachine
  <2> QED
    BY <1>1, <2>1, <2>2, <2>3 DEF Happens, Removed
<1>4. CASE GarbageCollect(v)
  <2>1. PICK x \in Deleted(vm[v]) : WriteVM(v, x)
    BY <1>4 DEF GarbageCollect
  <2>2. x \in Machine
    BY <1>0, DeletedEffect
  <2>3. /\ UNCHANGED budget /\ UNCHANGED <<api, queue, rec>> /\ past' = past
        /\ vm[v].st = "live" /\ vm[v].owner # NoRS /\ rs[vm[v].owner].st = "gone"
    BY <1>4 DEF GarbageCollect
  <2> QED
    BY <1>1, <2>1, <2>2, <2>3 DEF Happens, Removed
<1>5. CASE MachineGone(v)
  <2>1. WriteVM(v, NoMachine) /\ UNCHANGED budget /\ UNCHANGED <<api, queue, rec>> /\ past' = past /\ vm[v].st = "deleting"
    BY <1>5 DEF MachineGone
  <2> QED
    BY <1>1, <2>1, IdleType DEF Happens, Vanishes
<1>6. CASE MachineEvent(v)
  <2> DEFINE m == IF Exists(vm[v]) THEN vm[v] ELSE vmCache[v]
  <2>1. /\ UNCHANGED <<rs, rsCache, rsStale, vm, rec, past, faults, edits>> /\ vmStale' \subseteq vmStale
        /\ vmCache' = [vmCache EXCEPT ![v] = vm[v]]
        /\ queue' = queue \cup (IF m.owner # NoRS THEN {m.owner} ELSE {r \in RS : Exists(m) /\ rsCache[r].st # "gone"})
    BY <1>6 DEF MachineEvent, api, budget
  <2>2. m.owner \in RS \cup {NoRS}
    BY <1>0 DEF Machine
  <2>3. queue' \subseteq RS
    <3> HIDE DEF m
    <3> QED
      BY <2>1, <2>2 DEF TypeOK
  <2>4. vmCache' \in [Names -> Machine] /\ vmCache'[v] = vm[v] /\ \A u \in Names : u # v => vmCache'[u] = vmCache[u]
    BY <1>0, <2>1 DEF TypeOK
  <2> HIDE DEF m
  <2>5. TypeOK'
    BY <2>1, <2>3, <2>4 DEF TypeOK
  <2> QED
    BY <2>1, <2>4, <2>5 DEF Happens, Notices
<1> QED
  BY <1>2, <1>3, <1>4, <1>5, <1>6

-----------------------------------------------------------------------------
(* Types, for any number of replica sets. *)

LEMMA InitialTypes ==
  ASSUME Init
  PROVE  TypeOK
<1>1. PICK n \in [RS -> Sizes] : rs = [r \in RS |-> NewSet(n[r])]
  BY DEF Init
<1>2. \A r \in RS : NewSet(n[r]) \in ReplicaSet
  BY <1>1 DEF NewSet, NewStatus, ReplicaSet, Status
<1>3. rs \in [RS -> ReplicaSet]
  BY <1>1, <1>2
<1> QED
  BY <1>3, IdleType, ReplicaSetAssumption DEF Init, TypeOK

LEMMA StepTypes ==
  ASSUME TypeOK, [Next]_vars
  PROVE  TypeOK' /\ past \subseteq past' /\ (faults' = 0 => faults = 0)
<1>1. CASE UNCHANGED vars
  BY <1>1 DEF vars, api, machine, budget, TypeOK
<1>2. ASSUME NEW r \in RS, Worker(r) \/ SetEvent(r) \/ Scale(r) \/ DeleteSet(r)
      PROVE  TypeOK' /\ past \subseteq past' /\ (faults' = 0 => faults = 0)
  BY <1>2, WorkEffect, PatchEffect, SetStepsEffect
<1>3. ASSUME NEW v \in Names,
             CreateOrphan(v) \/ DeleteMachine(v) \/ GarbageCollect(v) \/ MachineGone(v) \/ MachineEvent(v)
      PROVE  TypeOK' /\ past \subseteq past' /\ (faults' = 0 => faults = 0)
  BY <1>3, VMStepsEffect
<1> QED
  BY <1>1, <1>2, <1>3 DEF Next

\* The types hold, whatever the replica sets with one selector do to each other's VMs
\* (virtualmachinereplicaset_controller.go, Reconcile and everything it calls).
THEOREM TypeCorrect == Spec => []TypeOK
<1>1. Init => TypeOK
  BY InitialTypes
<1>2. TypeOK /\ [Next]_vars => TypeOK'
  BY StepTypes
<1> QED
  BY <1>1, <1>2, PTL DEF Spec

-----------------------------------------------------------------------------
(* A replica set that shares its selector with no other. *)

\* What may happen to it in a step.
Does(r) ==
  \/ Moves(r) /\ UNCHANGED <<rs, rsCache>>
  \/ Closes(r)
  \/ UNCHANGED rec /\ (Edited(r) \/ Refreshed(r))
  \/ UNCHANGED <<rec, rs, rsCache>> /\ \E v \in Names : Happens(v)

LEMMA Steps ==
  ASSUME TypeOK, NEW r, RS = {r}, [Next]_vars
  PROVE  Does(r)
<1>0. r \in RS
  OBVIOUS
<1>1. CASE UNCHANGED vars
  <2>1. UNCHANGED <<rs, rsCache, rec, vm, vmCache>>
    BY <1>1 DEF vars, api, machine
  <2> QED
    BY <2>1 DEF Does, Moves, Still
<1>2. CASE Worker(r) \/ SetEvent(r) \/ Scale(r) \/ DeleteSet(r)
  BY <1>0, <1>2, WorkEffect, PatchEffect, SetStepsEffect DEF Does
<1>3. ASSUME NEW v \in Names,
             CreateOrphan(v) \/ DeleteMachine(v) \/ GarbageCollect(v) \/ MachineGone(v) \/ MachineEvent(v)
      PROVE  Does(r)
  BY <1>3, VMStepsEffect DEF Does
<1> QED
  BY <1>1, <1>2, <1>3 DEF Next

LEMMA WorkingMoves ==
  ASSUME NEW r, Moves(r), UNCHANGED rec \/ Working(r) \/ Working(r)'
  PROVE  \/ rec'[r].fin = rec[r].fin /\ rec'[r].base = rec[r].base /\ (Working(r) \/ UNCHANGED rec)
         \/ Reads(r)
BY DEF Moves, Working, Finalizes, Adopts, Passes, Proceeds, Labels, Grows, Shrinks,
       Creates, Misses, Deletes, Awaits, Sees, Ends, Keeps, Same, Goes

LEMMA KeepsSet ==
  ASSUME TypeOK, TypeOK', NEW r \in RS, Does(r), past \subseteq past', SetKept(r)
  PROVE  SetKept(r)'
<1>0. /\ rs[r] \in ReplicaSet /\ rsCache[r] \in ReplicaSet /\ rec[r] \in Rec /\ rec[r].base \in ReplicaSet
      /\ rs'[r] \in ReplicaSet /\ rsCache'[r] \in ReplicaSet /\ rec'[r] \in Rec /\ rec'[r].base \in ReplicaSet
  <2>1. /\ rs[r] \in ReplicaSet /\ rsCache[r] \in ReplicaSet /\ rec[r] \in Rec
        /\ rs'[r] \in ReplicaSet /\ rsCache'[r] \in ReplicaSet /\ rec'[r] \in Rec
    BY DEF TypeOK
  <2> QED
    BY <2>1 DEF Rec
<1>n. rs[r].n \in Nat /\ rsCache[r].n \in Nat /\ rec[r].base.n \in Nat /\ rs'[r].n \in Nat
  BY <1>0, ReplicaSetAssumption DEF ReplicaSet
<1>1. CASE Moves(r) /\ UNCHANGED <<rs, rsCache>>
  <2>1. CASE UNCHANGED rec
    BY <1>1, <2>1 DEF SetKept, Working
  <2>2. CASE Reads(r)
    <3>1. ~Working(r) /\ Working(r)' /\ rec'[r].pc # "patch"
      BY <2>2 DEF Reads, Goes, Working
    <3> QED
      BY <1>1, <2>2, <3>1, <1>n DEF Reads, SetKept
  <2>3. CASE Working(r) /\ ~Reads(r)
    <3>1. rec'[r].fin = rec[r].fin /\ rec'[r].base = rec[r].base
      BY <1>1, <2>3, WorkingMoves
    <3> QED
      BY <1>1, <2>3, <3>1 DEF SetKept
  <2>4. CASE ~Working(r) /\ ~Working(r)' /\ rec' # rec /\ ~Reads(r)
    <3>1. Finalizes(r)
      BY <1>1, <2>4 DEF Moves, Working, Adopts, Passes, Proceeds, Labels, Grows, Shrinks,
                        Creates, Misses, Deletes, Awaits, Sees, Ends, Goes
    <3> QED
      BY <1>1, <2>4, <3>1 DEF SetKept, Finalizes, Goes
  <2> QED
    BY <1>1, <2>1, <2>2, <2>3, <2>4, WorkingMoves
<1>2. CASE Closes(r)
  <2>1. rec'[r].pc = "idle" /\ ~Working(r)' /\ UNCHANGED rsCache
    BY <1>2, IdleType DEF Closes, Working
  <2>2. rs[r].fin \in BOOLEAN /\ rec[r].fin \in BOOLEAN /\ rec[r].base.fin \in BOOLEAN
    BY <1>0 DEF ReplicaSet, Rec
  <2> QED
    BY <1>2, <2>1, <2>2 DEF SetKept, Closes
<1>3. CASE UNCHANGED rec /\ Edited(r)
  <2>1. Working(r)' = Working(r) /\ UNCHANGED rsCache
    BY <1>3 DEF Working, Edited
  <2>2. "raised" \notin past' => rs'[r].n <= rs[r].n
    BY <1>3, <1>n DEF Edited
  <2> QED
    BY <1>3, <2>1, <2>2, <1>n DEF SetKept, Edited
<1>4. CASE UNCHANGED rec /\ Refreshed(r)
  <2>1. Working(r)' = Working(r)
    BY <1>4 DEF Working
  <2> QED
    BY <1>4, <2>1, <1>n DEF SetKept, Refreshed
<1>5. CASE UNCHANGED <<rec, rs, rsCache>>
  BY <1>5 DEF SetKept, Working
<1> QED
  BY <1>1, <1>2, <1>3, <1>4, <1>5 DEF Does

LEMMA KeepsLists ==
  ASSUME TypeOK, TypeOK', NEW r \in RS, Does(r), Lists(r)
  PROVE  Lists(r)'
<1>0. /\ rec[r] \in Rec /\ rec[r].mine \subseteq Names /\ rec[r].todo \subseteq Names /\ rec[r].left \in Nat
      /\ rec[r].base.n \in Nat
  <2>1. rec[r] \in Rec
    BY DEF TypeOK
  <2>2. rec[r].mine \subseteq Names /\ rec[r].todo \subseteq Names /\ rec[r].left \in Nat /\ rec[r].base \in ReplicaSet
    BY <2>1 DEF Rec
  <2> QED
    BY <2>1, <2>2, ReplicaSetAssumption DEF ReplicaSet
<1>n. Cardinality(rec[r].mine) \in Nat /\ Cardinality(rec[r].todo) \in Nat /\ IsFiniteSet(rec[r].todo)
  BY <1>0, NamesFinite
<1>1. CASE UNCHANGED rec
  BY <1>1 DEF Lists
<1>2. CASE Finalizes(r) \/ Ends(r) \/ Sees(r)
  BY <1>2 DEF Finalizes, Ends, Sees, Goes, Keeps, Same, Lists
<1>3. CASE Reads(r)
  BY <1>3 DEF Reads, Goes, Lists
<1>4. CASE Adopts(r)
  BY <1>4 DEF Adopts, Same, Lists
<1>5. CASE Passes(r) \/ Proceeds(r) \/ Labels(r)
  BY <1>5 DEF Passes, Proceeds, Labels, Goes, Keeps, Same, Lists
<1>6. CASE Grows(r)
  <2>1. rec'[r].pc = "create" /\ rec'[r].todo = {} /\ Keeps(r) /\ rec'[r].left = rec[r].base.n - Cardinality(rec[r].mine)
    BY <1>6 DEF Grows, Goes, Lists
  <2>2. Cardinality(rec'[r].todo) = 0
    BY <2>1, FS_EmptySet
  <2>3. Cardinality(rec[r].mine) + Cardinality(rec'[r].todo) + rec'[r].left <= rec[r].base.n
    BY <1>0, <1>n, <2>1, <2>2
  <2> QED
    BY <2>1, <2>3 DEF Lists, Keeps
<1>7. CASE Shrinks(r)
  BY <1>7 DEF Shrinks, Goes, Keeps, Lists
<1>8. CASE Creates(r)
  <2>1. PICK v \in Names : Free(v) /\ rec'[r].todo = rec[r].todo \cup {v}
    BY <1>8 DEF Creates
  <2>2. v \notin rec[r].mine /\ v \notin rec[r].todo
    BY <2>1 DEF Free
  <2>3. /\ rec[r].pc = "create" /\ rec'[r].pc = "create" /\ Keeps(r)
        /\ rec'[r].left = rec[r].left - 1 /\ rec[r].left > 0
    BY <1>8 DEF Creates, Same
  <2>4. Cardinality(rec'[r].todo) = Cardinality(rec[r].todo) + 1
    BY <1>n, <2>1, <2>2, FS_AddElement
  <2>5. Cardinality(rec[r].mine) + Cardinality(rec[r].todo) + rec[r].left <= rec[r].base.n
    BY <2>3 DEF Lists
  <2>6. Cardinality(rec[r].mine) + Cardinality(rec'[r].todo) + rec'[r].left <= rec[r].base.n
    BY <1>0, <1>n, <2>3, <2>4, <2>5
  <2> QED
    BY <2>1, <2>2, <2>3, <2>6 DEF Lists, Keeps
<1>9. CASE Misses(r)
  <2>3. /\ rec[r].pc = "create" /\ rec'[r].pc = "create" /\ Keeps(r) /\ rec'[r].todo = rec[r].todo
        /\ rec'[r].left = rec[r].left - 1 /\ rec[r].left > 0
    BY <1>9 DEF Misses, Same
  <2>5. Cardinality(rec[r].mine) + Cardinality(rec[r].todo) + rec[r].left <= rec[r].base.n
    BY <2>3 DEF Lists
  <2>6. Cardinality(rec[r].mine) + Cardinality(rec[r].todo) + rec'[r].left <= rec[r].base.n
    BY <1>0, <1>n, <2>3, <2>5
  <2> QED
    BY <2>3, <2>6 DEF Lists, Keeps
<1>10. CASE Deletes(r)
  BY <1>10 DEF Deletes, Keeps, Same, Lists
<1>11. CASE Awaits(r)
  BY <1>11 DEF Awaits, Goes, Keeps, Lists
<1>12. CASE Closes(r)
  BY <1>12, IdleType DEF Closes, Lists
<1> QED
  BY <1>1, <1>2, <1>3, <1>4, <1>5, <1>6, <1>7, <1>8, <1>9, <1>10, <1>11, <1>12 DEF Does, Moves

\* A written VM and the sets of VMs.
LEMMA SetsEffect ==
  ASSUME NEW r, NEW v \in Names, NEW x, Sets(v, x)
  PROVE  /\ \A u \in Names : u # v => (u \in Owned(r)' <=> u \in Owned(r)) /\ (u \in Live(r)' <=> u \in Live(r))
         /\ v \in Owned(r)' <=> Exists(x) /\ x.owner = r
         /\ v \in Live(r)' <=> x.st = "live" /\ x.owner = r
BY DEF Sets, Owned, Live, Exists

LEMMA OwnedStill ==
  ASSUME NEW r, UNCHANGED vm
  PROVE  Owned(r)' = Owned(r) /\ Live(r)' = Live(r)
BY DEF Owned, Live

\* Written VMs as the owner and the state see them.
LEMMA Written ==
  ASSUME TypeOK, NEW r \in RS, NEW v \in Names
  PROVE  /\ [vm[v] EXCEPT !.owner = r].st = vm[v].st /\ [vm[v] EXCEPT !.owner = r].owner = r
         /\ [vm[v] EXCEPT !.label = r].st = vm[v].st /\ [vm[v] EXCEPT !.label = r].owner = vm[v].owner
         /\ vm[v].owner \in RS \cup {NoRS} /\ vm[v].st \in {"none", "live", "deleting"}
         /\ vmCache[v].owner \in RS \cup {NoRS} /\ vmCache[v].st \in {"none", "live", "deleting"}
         /\ vm[v] \in Machine
<1>1. vm[v] \in Machine /\ vmCache[v] \in Machine
  BY DEF TypeOK
<1> QED
  BY <1>1 DEF Machine

LEMMA KeepsOwners ==
  ASSUME TypeOK, NEW r \in RS, Does(r), Owners(r)
  PROVE  Owners(r)'
<1> SUFFICES ASSUME NEW v \in Names
             PROVE  /\ ~Exists(vm'[v]) => vm'[v].owner = NoRS
                    /\ Exists(vm'[v]) /\ (v \in rec'[r].mine \/ (Exists(vmCache'[v]) /\ vmCache'[v].owner = r))
                         => vm'[v].owner = r
                    /\ Exists(vm'[v]) /\ rec'[r].pc = "adopt" /\ v \in rec'[r].todo => Exists(vmCache'[v])
  BY DEF Owners, Exists
<1>0. /\ ~Exists(vm[v]) => vm[v].owner = NoRS
      /\ Exists(vm[v]) /\ (v \in rec[r].mine \/ (Exists(vmCache[v]) /\ vmCache[v].owner = r)) => vm[v].owner = r
      /\ Exists(vm[v]) /\ rec[r].pc = "adopt" /\ v \in rec[r].todo => Exists(vmCache[v])
  BY DEF Owners
<1>1. CASE UNCHANGED rec /\ Still
  BY <1>0, <1>1 DEF Still
<1>2. CASE Finalizes(r) \/ Reads(r)
  BY <1>0, <1>2 DEF Finalizes, Reads, Still, Goes
<1>3. CASE Adopts(r)
  <2>1. PICK u \in rec[r].todo : /\ Exists(vm[u]) /\ Sets(u, [vm[u] EXCEPT !.owner = r])
                                 /\ rec'[r].todo = rec[r].todo \ {u} /\ rec'[r].mine = rec[r].mine \cup {u}
    BY <1>3 DEF Adopts
  <2>2. UNCHANGED vmCache /\ (u # v => vm'[v] = vm[v]) /\ (u = v => vm'[v].st = vm[v].st /\ vm'[v].owner = r)
    <3> DEFINE x == [vm[v] EXCEPT !.owner = r]
    <3>1. UNCHANGED vmCache /\ (u # v => vm'[v] = vm[v]) /\ (u = v => vm'[v] = x)
      BY <2>1 DEF Sets
    <3>2. x.st = vm[v].st /\ x.owner = r
      BY Written
    <3> HIDE DEF x
    <3> QED
      BY <3>1, <3>2
  <2>3. rec[r].pc = "adopt"
    BY <1>3 DEF Adopts
  <2> QED
    BY <1>0, <2>1, <2>2, <2>3 DEF Exists
<1>4. CASE Passes(r)
  BY <1>0, <1>4 DEF Passes, Keeps, Same, Still
<1>5. CASE Proceeds(r) \/ Grows(r) \/ Shrinks(r) \/ Misses(r) \/ Awaits(r) \/ Sees(r) \/ Ends(r)
  <2>1. rec'[r].mine = rec[r].mine /\ rec'[r].pc # "adopt" /\ Still
    BY <1>5 DEF Proceeds, Grows, Shrinks, Misses, Awaits, Sees, Ends, Goes, Keeps, Same
  <2> QED
    BY <1>0, <2>1 DEF Still
<1>6. CASE Labels(r)
  <2>1. PICK u \in Names : Exists(vm[u]) /\ Sets(u, [vm[u] EXCEPT !.label = r])
    BY <1>6 DEF Labels
  <2>2. UNCHANGED vmCache /\ (u # v => vm'[v] = vm[v]) /\ (u = v => vm'[v].st = vm[v].st /\ vm'[v].owner = vm[v].owner)
    <3> DEFINE x == [vm[v] EXCEPT !.label = r]
    <3>1. UNCHANGED vmCache /\ (u # v => vm'[v] = vm[v]) /\ (u = v => vm'[v] = x)
      BY <2>1 DEF Sets
    <3>2. x.st = vm[v].st /\ x.owner = vm[v].owner
      BY Written
    <3> HIDE DEF x
    <3> QED
      BY <3>1, <3>2
  <2>3. rec'[r].mine = rec[r].mine /\ rec'[r].pc # "adopt"
    BY <1>6 DEF Labels, Keeps, Same
  <2> QED
    BY <1>0, <2>1, <2>2, <2>3 DEF Exists
<1>7. CASE Creates(r)
  <2>1. PICK u \in Names : Sets(u, [st |-> "live", owner |-> r, label |-> r])
    BY <1>7 DEF Creates
  <2>2. UNCHANGED vmCache /\ (u # v => vm'[v] = vm[v]) /\ (u = v => vm'[v].st = "live" /\ vm'[v].owner = r)
    BY <2>1 DEF Sets
  <2>3. rec'[r].mine = rec[r].mine /\ rec'[r].pc # "adopt"
    BY <1>7 DEF Creates, Keeps, Same
  <2> QED
    BY <1>0, <2>2, <2>3 DEF Exists
<1>8. CASE Deletes(r)
  <2>1. rec'[r].mine = rec[r].mine /\ rec'[r].pc # "adopt"
    BY <1>8 DEF Deletes, Keeps, Same
  <2>2. CASE Still
    BY <1>0, <2>1, <2>2 DEF Still
  <2>3. CASE ~Still
    <3>1. PICK u \in rec[r].todo : \E x \in IF vm[u].st = "live" THEN Deleted(vm[u]) ELSE {vm[u]} : Sets(u, x)
      BY <1>8, <2>3 DEF Deletes
    <3>2. PICK x \in IF vm[u].st = "live" THEN Deleted(vm[u]) ELSE {vm[u]} : Sets(u, x)
      BY <3>1
    <3>3. UNCHANGED vmCache /\ (u # v => vm'[v] = vm[v]) /\ (u = v => vm'[v] = x)
      BY <3>2 DEF Sets
    <3>4. vm[v].st = "live" => Exists(vm[v])
      BY DEF Exists
    <3> QED
      BY <1>0, <2>1, <3>2, <3>3, <3>4, Written, DeletedEffect
  <2> QED
    BY <2>2, <2>3
<1>9. CASE Closes(r)
  BY <1>0, <1>9, IdleType DEF Closes, Still
<1>10. CASE UNCHANGED rec /\ (Edited(r) \/ Refreshed(r))
  BY <1>0, <1>10 DEF Edited, Refreshed, Still
<1>11. ASSUME UNCHANGED rec, NEW u \in Names, Happens(u)
       PROVE  /\ ~Exists(vm'[v]) => vm'[v].owner = NoRS
              /\ Exists(vm'[v]) /\ (v \in rec'[r].mine \/ (Exists(vmCache'[v]) /\ vmCache'[v].owner = r)) => vm'[v].owner = r
              /\ Exists(vm'[v]) /\ rec'[r].pc = "adopt" /\ v \in rec'[r].todo => Exists(vmCache'[v])
  <2>1. CASE u # v
    BY <1>0, <1>11, <2>1 DEF Happens, Appears, Removed, Vanishes, Notices, Sets
  <2>2. CASE u = v /\ Appears(v)
    BY <1>11, <2>2 DEF Appears, Sets, Free, Exists
  <2>3. CASE u = v /\ Removed(v)
    <3>1. PICK x \in Deleted(vm[v]) : Sets(v, x)
      BY <2>3 DEF Removed
    <3>2. UNCHANGED vmCache /\ vm'[v] = x /\ Exists(vm[v])
      BY <2>3, <3>1 DEF Sets, Removed, Exists
    <3> QED
      BY <1>0, <1>11, <3>1, <3>2, Written, DeletedEffect
  <2>4. CASE u = v /\ Vanishes(v)
    BY <2>4, IdleType DEF Vanishes, Sets, Exists
  <2>5. CASE u = v /\ Notices(v)
    BY <1>0, <1>11, <2>5 DEF Notices
  <2> QED
    BY <1>11, <2>1, <2>2, <2>3, <2>4, <2>5 DEF Happens
<1> QED
  BY <1>1, <1>2, <1>3, <1>4, <1>5, <1>6, <1>7, <1>8, <1>9, <1>10, <1>11 DEF Does, Moves

\* What a change of the label or of the owner leaves of a VM.
LEMMA Rewritten ==
  ASSUME TypeOK, NEW r \in RS, NEW v \in Names, Exists(vm[v]),
         Sets(v, [vm[v] EXCEPT !.owner = r]) \/ Sets(v, [vm[v] EXCEPT !.label = r])
  PROVE  /\ \A u \in Names : vm'[u].st = vm[u].st /\ (u # v => vm'[u] = vm[u])
         /\ Owned(r) \subseteq Owned(r)' /\ Owned(r)' \subseteq Owned(r) \cup {v}
         /\ Live(r) \subseteq Live(r)' /\ vm'[v].owner \in {r, vm[v].owner}
         /\ Sets(v, [vm[v] EXCEPT !.label = r]) => Owned(r)' = Owned(r) /\ Live(r)' = Live(r)
         /\ UNCHANGED vmCache
<1>1. ASSUME NEW x, Sets(v, x), x.st = vm[v].st, x.owner \in {r, vm[v].owner}
      PROVE  /\ \A u \in Names : vm'[u].st = vm[u].st /\ (u # v => vm'[u] = vm[u])
             /\ Owned(r) \subseteq Owned(r)' /\ Owned(r)' \subseteq Owned(r) \cup {v}
             /\ Live(r) \subseteq Live(r)' /\ vm'[v].owner = x.owner
             /\ x.owner = vm[v].owner => Owned(r)' = Owned(r) /\ Live(r)' = Live(r)
             /\ UNCHANGED vmCache
  BY <1>1 DEF Sets, Owned, Live, Exists
<1> DEFINE a == [vm[v] EXCEPT !.owner = r]
           b == [vm[v] EXCEPT !.label = r]
<1>2. a.st = vm[v].st /\ a.owner = r /\ b.st = vm[v].st /\ b.owner = vm[v].owner
  BY Written
<1> HIDE DEF a, b
<1>3. CASE Sets(v, b)
  BY <1>1, <1>2, <1>3
<1>4. CASE Sets(v, a) /\ ~Sets(v, b)
  BY <1>1, <1>2, <1>4 DEF b
<1> QED
  BY <1>3, <1>4 DEF a, b

\* What a deletion leaves of a VM.
LEMMA Unwritten ==
  ASSUME TypeOK, NEW r \in RS, NEW v \in Names, NEW x, Sets(v, x), Exists(vm[v]),
         \/ vm[v].st = "live" /\ x \in Deleted(vm[v])
         \/ x = vm[v]
         \/ vm[v].st = "deleting" /\ x = NoMachine
  PROVE  /\ \A u \in Names : u # v => vm'[u] = vm[u]
         /\ Owned(r)' \subseteq Owned(r) /\ Live(r)' \subseteq Live(r) /\ Live(r) \subseteq Live(r)' \cup {v}
         /\ UNCHANGED vmCache
         /\ vm[v].st # "live" => Live(r)' = Live(r) /\ \A u \in Names : vm'[u].st = "live" <=> vm[u].st = "live"
         /\ vm[v].st = "live" /\ x # vm[v] => vm'[v].st # "live" /\ v \notin Live(r)'
<1>0. vm[v] \in Machine
  BY Written
<1>1. Exists(x) => x.owner = vm[v].owner /\ (x.st = "live" => vm[v].st = "live")
  BY <1>0, DeletedEffect, IdleType DEF Exists
<1>2. vm[v].st # "live" => x.st # "live"
  BY IdleType
<1>3. vm[v].st = "live" /\ x # vm[v] => x.st # "live"
  BY <1>0, DeletedEffect
<1>4. vm'[v] = x /\ (\A u \in Names : u # v => vm'[u] = vm[u]) /\ UNCHANGED vmCache
  BY DEF Sets
<1>5. Owned(r)' \subseteq Owned(r) /\ Live(r)' \subseteq Live(r) /\ Live(r) \subseteq Live(r)' \cup {v}
  BY <1>1, <1>4 DEF Owned, Live, Exists
<1>6. vm[v].st # "live" => Live(r) \subseteq Live(r)' /\ \A u \in Names : vm'[u].st = "live" <=> vm[u].st = "live"
  BY <1>2, <1>4 DEF Owned, Live
<1>7. vm[v].st = "live" /\ x # vm[v] => vm'[v].st # "live" /\ v \notin Live(r)'
  BY <1>3, <1>4 DEF Live
<1> QED
  BY <1>4, <1>5, <1>6, <1>7

LEMMA KeepsCounted ==
  ASSUME TypeOK, NEW r, RS = {r}, Does(r), SetKept(r), Lists(r), Owners(r), Counted(r),
         past \subseteq past', faults' = 0 => faults = 0
  PROVE  Counted(r)'
<1> SUFFICES ASSUME faults' = 0, past' \subseteq {"raised"}
             PROVE  /\ \A v \in Owned(r)' :
                         /\ Exists(vmCache'[v]) \/ (rec'[r].pc \in {"create", "waitCreated"} /\ v \in rec'[r].todo)
                         /\ rec'[r].pc \in {"adopt", "label", "sync", "create"} => v \in rec'[r].mine \cup rec'[r].todo
                    /\ rec'[r].pc \in {"create", "waitCreated"} => ~rec'[r].errs /\ rec'[r].todo \subseteq Live(r)'
  BY DEF Counted, Exists
<1>r. r \in RS
  OBVIOUS
<1>0. /\ \A v \in Owned(r) :
           /\ Exists(vmCache[v]) \/ (rec[r].pc \in {"create", "waitCreated"} /\ v \in rec[r].todo)
           /\ rec[r].pc \in {"adopt", "label", "sync", "create"} => v \in rec[r].mine \cup rec[r].todo
      /\ rec[r].pc \in {"create", "waitCreated"} => ~rec[r].errs /\ rec[r].todo \subseteq Live(r)
  BY DEF Counted
<1>o. Owned(r) \subseteq Names /\ Owned(r)' \subseteq Names
  BY DEF Owned
<1>1. CASE UNCHANGED rec /\ Still
  BY <1>0, <1>1, OwnedStill DEF Still
<1>2. CASE Finalizes(r)
  BY <1>0, <1>2, OwnedStill DEF Finalizes, Still, Goes
<1>3. CASE Reads(r)
  <2>1. Owned(r)' = Owned(r) /\ vmCache' = vmCache /\ rec[r].pc = "idle" /\ rec'[r].pc = "adopt"
    BY <1>3, OwnedStill DEF Reads, Still, Goes
  <2>2. ASSUME NEW v \in Owned(r) PROVE v \in rec'[r].mine \cup rec'[r].todo
    <3>1. Exists(vmCache[v]) /\ vmCache[v].owner \in {r, NoRS}
      BY <1>0, <1>o, <1>r, <2>1, Written
    <3> QED
      BY <1>3, <1>o, <3>1 DEF Reads
  <2> QED
    BY <1>0, <2>1, <2>2
<1>4. CASE Adopts(r)
  <2>1. PICK v \in rec[r].todo : /\ Exists(vm[v]) /\ Sets(v, [vm[v] EXCEPT !.owner = r])
                                 /\ rec'[r].todo = rec[r].todo \ {v} /\ rec'[r].mine = rec[r].mine \cup {v}
    BY <1>4 DEF Adopts
  <2>2. rec[r].pc = "adopt" /\ rec'[r].pc = "adopt"
    BY <1>4 DEF Adopts, Same
  <2>3. v \in Names
    <3>1. rec[r] \in Rec
      BY <1>r DEF TypeOK
    <3> QED
      BY <3>1 DEF Rec
  <2>4. Owned(r)' \subseteq Owned(r) \cup {v} /\ UNCHANGED vmCache
    BY <1>r, <2>1, <2>3, Rewritten
  <2>5. Exists(vmCache[v])
    BY <2>1, <2>2, <2>3 DEF Owners
  <2> QED
    BY <1>0, <2>1, <2>2, <2>4, <2>5
<1>5. CASE Passes(r)
  <2>1. PICK v \in rec[r].todo : rec'[r].todo = rec[r].todo \ {v} /\ ~Exists(vm[v])
    BY <1>5 DEF Passes
  <2>2. v \notin Owned(r)
    BY <2>1 DEF Owned
  <2>3. Owned(r)' = Owned(r) /\ UNCHANGED vmCache
    BY <1>5, OwnedStill DEF Passes, Still
  <2> QED
    BY <1>0, <1>5, <2>1, <2>2, <2>3 DEF Passes, Same, Keeps
<1>6. CASE Proceeds(r) \/ Grows(r) \/ Shrinks(r) \/ Awaits(r) \/ Sees(r)
  <2>1. Owned(r)' = Owned(r) /\ Live(r)' = Live(r) /\ UNCHANGED vmCache /\ rec'[r].mine = rec[r].mine
    BY <1>6, OwnedStill DEF Proceeds, Grows, Shrinks, Awaits, Sees, Still, Keeps
  <2>2. CASE Proceeds(r)
    BY <1>0, <2>1, <2>2 DEF Proceeds, Goes
  <2>3. CASE Grows(r)
    BY <1>0, <2>1, <2>3 DEF Grows, Goes, Lists
  <2>4. CASE Shrinks(r)
    BY <1>0, <2>1, <2>4 DEF Shrinks, Goes
  <2>5. CASE Awaits(r)
    BY <1>0, <2>1, <2>5 DEF Awaits, Goes
  <2>6. CASE Sees(r)
    BY <1>0, <2>1, <2>6 DEF Sees, Same, Confirmed, At
  <2> QED
    BY <1>6, <2>2, <2>3, <2>4, <2>5, <2>6
<1>7. CASE Labels(r)
  <2>1. PICK v \in Names : Exists(vm[v]) /\ Sets(v, [vm[v] EXCEPT !.label = r])
    BY <1>7 DEF Labels
  <2>2. Owned(r)' = Owned(r) /\ UNCHANGED vmCache
    BY <1>r, <2>1, Rewritten
  <2> QED
    BY <1>0, <1>7, <2>2 DEF Labels, Same, Keeps
<1>8. CASE Creates(r)
  <2>1. PICK v \in Names : /\ Free(v) /\ Sets(v, [st |-> "live", owner |-> r, label |-> r])
                           /\ rec'[r].todo = rec[r].todo \cup {v}
    BY <1>8 DEF Creates
  <2>2. /\ \A u \in Names : u # v => (u \in Owned(r)' <=> u \in Owned(r)) /\ (u \in Live(r)' <=> u \in Live(r))
        /\ v \in Live(r)' /\ UNCHANGED vmCache
    BY <2>1, SetsEffect DEF Sets
  <2>3. Live(r) \subseteq Names
    BY DEF Live, Owned
  <2>4. /\ rec[r].pc = "create" /\ rec'[r].pc = "create" /\ rec'[r].mine = rec[r].mine /\ rec'[r].errs = rec[r].errs
    BY <1>8 DEF Creates, Same, Keeps
  <2>5. \A u \in Owned(r)' : u = v \/ u \in Owned(r)
    BY <1>o, <2>2
  <2>6. rec'[r].todo \subseteq Live(r)'
    BY <1>0, <2>1, <2>2, <2>3, <2>4
  <2> QED
    BY <1>0, <2>1, <2>2, <2>4, <2>5, <2>6
<1>9. CASE Misses(r)
  BY <1>9 DEF Misses
<1>10. CASE Deletes(r)
  <2>1. rec[r].pc = "delete" /\ rec'[r].pc = "delete"
    BY <1>10 DEF Deletes, Same
  <2>2. CASE Still
    BY <1>0, <2>1, <2>2, OwnedStill DEF Still
  <2>3. CASE ~Still
    <3>1. PICK v \in rec[r].todo : /\ Exists(vm[v])
                                   /\ \E x \in IF vm[v].st = "live" THEN Deleted(vm[v]) ELSE {vm[v]} : Sets(v, x)
      BY <1>10, <2>3 DEF Deletes
    <3>2. PICK x \in IF vm[v].st = "live" THEN Deleted(vm[v]) ELSE {vm[v]} : Sets(v, x)
      BY <3>1
    <3>3. rec[r] \in Rec
      BY <1>r DEF TypeOK
    <3>4. v \in Names
      BY <3>3 DEF Rec
    <3>5. Owned(r)' \subseteq Owned(r) /\ UNCHANGED vmCache
      BY <1>r, <3>1, <3>2, <3>4, Unwritten
    <3> QED
      BY <1>0, <2>1, <3>5
  <2> QED
    BY <2>2, <2>3
<1>11. CASE Ends(r)
  <2>1. Owned(r)' = Owned(r) /\ UNCHANGED vmCache /\ rec'[r].pc = "patch"
    BY <1>11, OwnedStill DEF Ends, Still
  <2>2. \A v \in Live(r) : Exists(vm[v])
    BY DEF Live, Owned
  <2>3. ~(rec[r].pc = "create" /\ rec[r].errs) /\ ~(rec[r].pc = "waitCreated" /\ \E v \in rec[r].todo : ~Exists(vm[v]))
    BY <1>0, <2>2
  <2> QED
    BY <1>0, <1>11, <2>1, <2>3 DEF Ends
<1>12. CASE Closes(r)
  BY <1>0, <1>12, OwnedStill, IdleType DEF Closes, Still
<1>13. CASE UNCHANGED rec /\ (Edited(r) \/ Refreshed(r))
  BY <1>0, <1>13, OwnedStill DEF Edited, Refreshed, Still
<1>14. ASSUME UNCHANGED <<rec, rs, rsCache>>, NEW v \in Names, Happens(v)
       PROVE  /\ \A u \in Owned(r)' :
                   /\ Exists(vmCache'[u]) \/ (rec'[r].pc \in {"create", "waitCreated"} /\ u \in rec'[r].todo)
                   /\ rec'[r].pc \in {"adopt", "label", "sync", "create"} => u \in rec'[r].mine \cup rec'[r].todo
              /\ rec'[r].pc \in {"create", "waitCreated"} => ~rec'[r].errs /\ rec'[r].todo \subseteq Live(r)'
  <2>1. CASE Appears(v)
    <3>1. PICK x : Sets(v, x) /\ x.st = "live" /\ x.owner = NoRS
      BY <2>1 DEF Appears
    <3>2. /\ \A u \in Names : u # v => (u \in Owned(r)' <=> u \in Owned(r)) /\ (u \in Live(r)' <=> u \in Live(r))
          /\ v \notin Owned(r)' /\ UNCHANGED vmCache
      BY <1>r, <3>1, SetsEffect, ReplicaSetAssumption DEF Sets
    <3>3. v \notin Live(r)
      BY <2>1 DEF Appears, Free, Live, Owned
    <3>4. Owned(r)' \subseteq Owned(r) /\ Live(r) \subseteq Live(r)'
      BY <1>o, <3>2, <3>3 DEF Live
    <3> QED
      BY <1>0, <1>14, <3>2, <3>4
  <2>2. CASE Removed(v)
    <3>1. PICK x \in Deleted(vm[v]) : Sets(v, x)
      BY <2>2 DEF Removed
    <3>2. vm[v].st = "live" /\ Exists(vm[v]) /\ rs[vm[v].owner].st = "gone" /\ vm[v].owner # NoRS
      BY <2>2 DEF Removed, Exists
    <3>3. vm[v].owner = r
      BY <1>r, <3>2, Written
    <3>4. rec[r].pc \notin {"create", "waitCreated"}
      BY <3>2, <3>3 DEF SetKept, Working
    <3>5. Owned(r)' \subseteq Owned(r) /\ UNCHANGED vmCache
      BY <1>r, <3>1, <3>2, Unwritten
    <3> QED
      BY <1>0, <1>14, <3>4, <3>5
  <2>3. CASE Vanishes(v)
    <3>1. vm[v].st = "deleting" /\ Exists(vm[v]) /\ Sets(v, NoMachine)
      BY <2>3 DEF Vanishes, Exists
    <3>2. Owned(r)' \subseteq Owned(r) /\ Live(r)' = Live(r) /\ UNCHANGED vmCache
      BY <1>r, <3>1, Unwritten
    <3> QED
      BY <1>0, <1>14, <3>2
  <2>4. CASE Notices(v)
    <3>1. Owned(r)' = Owned(r) /\ Live(r)' = Live(r)
      BY <2>4, OwnedStill DEF Notices
    <3>2. \A u \in Owned(r) : Exists(vmCache[u]) => Exists(vmCache'[u])
      BY <1>o, <2>4 DEF Notices, Owned
    <3> QED
      BY <1>0, <1>14, <3>1, <3>2
  <2> QED
    BY <1>14, <2>1, <2>2, <2>3, <2>4 DEF Happens
<1> QED
  BY <1>1, <1>2, <1>3, <1>4, <1>5, <1>6, <1>7, <1>8, <1>9, <1>10, <1>11, <1>12, <1>13, <1>14 DEF Does, Moves

\* When VMs, lists and cache stay as they are, so do the two sets.
LEMMA SameZombies ==
  ASSUME NEW r, \A z \in Names : vm'[z].st = "live" <=> vm[z].st = "live", UNCHANGED vmCache
  PROVE  /\ CachedLive(r)' = CachedLive(r)
         /\ Working(r) /\ rec'[r].mine = rec[r].mine /\ rec'[r].dying = rec[r].dying => ListedLive(r)' \subseteq ListedLive(r)
         /\ ~Working(r)' => ListedLive(r)' = {}
BY DEF CachedLive, ListedLive

\* A reconcile starts with those that the cache takes for live.
LEMMA ReadZombies ==
  ASSUME TypeOK, NEW r \in RS, Reads(r)
  PROVE  ListedLive(r)' \subseteq CachedLive(r) /\ CachedLive(r)' = CachedLive(r)
<1>1. ASSUME NEW z \in Names PROVE vmCache[z].st \in {"none", "live", "deleting"}
  BY Written
<1> QED
  BY <1>1 DEF Reads, Still, ListedLive, CachedLive, Exists

\* An adopted VM is listed as what it is.
LEMMA AdoptZombies ==
  ASSUME TypeOK, NEW r \in RS, Adopts(r)
  PROVE  /\ ListedLive(r)' \subseteq ListedLive(r) /\ CachedLive(r)' = CachedLive(r)
         /\ Live(r) \subseteq Live(r)'
<1>1. PICK v \in rec[r].todo : /\ Exists(vm[v]) /\ Sets(v, [vm[v] EXCEPT !.owner = r])
                               /\ rec'[r].mine = rec[r].mine \cup {v}
                               /\ rec'[r].dying = IF vm[v].st = "deleting" THEN rec[r].dying \cup {v} ELSE rec[r].dying
  BY DEF Adopts
<1>2. rec[r] \in Rec
  BY DEF TypeOK
<1>3. v \in Names
  BY <1>2 DEF Rec
<1>4. (\A u \in Names : vm'[u].st = vm[u].st) /\ UNCHANGED vmCache /\ Live(r) \subseteq Live(r)'
  BY <1>1, <1>3, Rewritten
<1>5. vm[v].st \in {"live", "deleting"}
  BY <1>1, <1>3, Written DEF Exists
<1>6. Working(r) /\ rec[r].pc = "adopt"
  BY DEF Adopts, Working
<1> QED
  BY <1>1, <1>3, <1>4, <1>5, <1>6 DEF ListedLive, CachedLive

\* The other steps of a reconcile that deletes nothing.
LEMMA QuietZombies ==
  ASSUME TypeOK, NEW r \in RS,
         Passes(r) \/ Proceeds(r) \/ Labels(r) \/ Grows(r) \/ Shrinks(r) \/ Creates(r) \/ Misses(r) \/ Awaits(r) \/ Sees(r)
  PROVE  /\ Working(r) /\ Working(r)' /\ Keeps(r)
         /\ ListedLive(r)' \subseteq ListedLive(r) /\ CachedLive(r)' \subseteq CachedLive(r)
         /\ Live(r) \subseteq Live(r)'
<1>1. Working(r) /\ Working(r)' /\ Keeps(r)
  BY DEF Working, Passes, Proceeds, Labels, Grows, Shrinks, Creates, Misses, Awaits, Sees, Same, Goes
<1>2. CASE Still
  <2>1. UNCHANGED vm /\ UNCHANGED vmCache
    BY <1>2 DEF Still
  <2> QED
    BY <1>1, <2>1, SameZombies, OwnedStill DEF Keeps
<1>3. CASE Labels(r)
  <2>1. PICK v \in Names : Exists(vm[v]) /\ Sets(v, [vm[v] EXCEPT !.label = r])
    BY <1>3 DEF Labels
  <2>2. (\A u \in Names : vm'[u].st = vm[u].st) /\ UNCHANGED vmCache /\ Live(r) \subseteq Live(r)'
    BY <2>1, Rewritten
  <2> QED
    BY <1>1, <2>2, SameZombies DEF Keeps
<1>4. CASE Creates(r)
  <2>1. PICK v \in Names : Free(v) /\ Sets(v, [st |-> "live", owner |-> r, label |-> r])
    BY <1>4 DEF Creates
  <2>2. vm'[v].st = "live" /\ vm'[v].owner = r /\ (\A u \in Names : u # v => vm'[u] = vm[u]) /\ UNCHANGED vmCache
    BY <2>1 DEF Sets
  <2>3. Live(r) \subseteq Live(r)'
    BY <2>2 DEF Live, Owned, Exists
  <2> QED
    BY <1>1, <2>2, <2>3 DEF Keeps, ListedLive, CachedLive
<1> QED
  BY <1>2, <1>3, <1>4 DEF Passes, Proceeds, Grows, Shrinks, Misses, Awaits, Sees

\* What others do, but for deletions.
LEMMA OthersZombies ==
  ASSUME TypeOK, NEW r \in RS, UNCHANGED rec, NEW v \in Names, Appears(v) \/ Vanishes(v) \/ Notices(v)
  PROVE  /\ ListedLive(r)' \subseteq ListedLive(r) /\ CachedLive(r)' \subseteq CachedLive(r)
         /\ Live(r) \subseteq Live(r)'
<1>1. CASE Appears(v)
  <2>1. PICK x : Sets(v, x) /\ x.st = "live" /\ x.owner = NoRS
    BY <1>1 DEF Appears
  <2>2. vm'[v].st = "live" /\ (\A u \in Names : u # v => vm'[u] = vm[u]) /\ UNCHANGED vmCache
    BY <2>1 DEF Sets
  <2>3. v \notin Live(r)
    BY <1>1 DEF Appears, Free, Live, Owned
  <2>4. Live(r) \subseteq Live(r)'
    BY <2>2, <2>3 DEF Live, Owned, Exists
  <2> QED
    BY <2>2, <2>4 DEF ListedLive, CachedLive, Working
<1>2. CASE Vanishes(v)
  <2>1. vm[v].st = "deleting" /\ Exists(vm[v]) /\ Sets(v, NoMachine)
    BY <1>2 DEF Vanishes, Exists
  <2>2. Live(r)' = Live(r) /\ (\A u \in Names : vm'[u].st = "live" <=> vm[u].st = "live") /\ UNCHANGED vmCache
    BY <2>1, Unwritten
  <2> QED
    BY <2>2 DEF ListedLive, CachedLive, Working
<1>3. CASE Notices(v)
  <2>1. Live(r)' = Live(r)
    BY <1>3, OwnedStill DEF Notices
  <2> QED
    BY <1>3, <2>1 DEF Notices, ListedLive, CachedLive, Working
<1> QED
  BY <1>1, <1>2, <1>3

LEMMA NeverBack ==
  ASSUME TypeOK, NEW r \in RS, Does(r), rs'[r].st # "gone"
  PROVE  rs[r].st # "gone"
<1>1. CASE Closes(r)
  BY <1>1 DEF Closes
<1> QED
  BY <1>1 DEF Does, Edited, Refreshed

LEMMA KeepsConfirms ==
  ASSUME TypeOK, NEW r, RS = {r}, Does(r), Lists(r), Confirms(r),
         past \subseteq past', faults' = 0 => faults = 0
  PROVE  Confirms(r)'
<1> SUFFICES ASSUME faults' = 0, "meddled" \notin past', rs'[r].st # "gone"
             PROVE  /\ rec'[r].pc \notin {"delete", "waitDeleted"} => ListedLive(r)' = {} /\ CachedLive(r)' = {}
                    /\ rec'[r].pc = "delete" => ~rec'[r].errs /\ (ListedLive(r)' \cup CachedLive(r)') \subseteq rec'[r].done \ rec'[r].todo
                    /\ rec'[r].pc = "waitDeleted" => CachedLive(r)' \subseteq rec'[r].todo
  BY DEF Confirms
<1>r. r \in RS
  OBVIOUS
<1>0. /\ rec[r].pc \notin {"delete", "waitDeleted"} => ListedLive(r) = {} /\ CachedLive(r) = {}
      /\ rec[r].pc = "delete" => ~rec[r].errs /\ (ListedLive(r) \cup CachedLive(r)) \subseteq rec[r].done \ rec[r].todo
      /\ rec[r].pc = "waitDeleted" => CachedLive(r) \subseteq rec[r].todo
  BY <1>r, NeverBack DEF Confirms
<1>1. CASE UNCHANGED rec /\ Still
  BY <1>0, <1>1 DEF Still, ListedLive, CachedLive, Working
<1>2. CASE Finalizes(r)
  <2>1. rec[r].pc = "idle" /\ rec'[r].pc = "patch" /\ ListedLive(r)' = {} /\ CachedLive(r)' = CachedLive(r)
    BY <1>2, SameZombies DEF Finalizes, Goes, Still, Working
  <2> QED
    BY <1>0, <2>1
<1>3. CASE Reads(r)
  <2>1. rec[r].pc = "idle" /\ rec'[r].pc = "adopt"
    BY <1>3 DEF Reads, Goes
  <2> QED
    BY <1>0, <1>3, <1>r, <2>1, ReadZombies
<1>4. CASE Adopts(r)
  BY <1>0, <1>4, <1>r, AdoptZombies DEF Adopts, Same
<1>5. CASE Passes(r) \/ Proceeds(r) \/ Labels(r) \/ Grows(r) \/ Creates(r) \/ Misses(r)
  <2>1. rec[r].pc \notin {"delete", "waitDeleted"} /\ rec'[r].pc \notin {"delete", "waitDeleted"}
    BY <1>5 DEF Passes, Proceeds, Labels, Grows, Creates, Misses, Same, Goes
  <2> QED
    BY <1>0, <1>5, <1>r, <2>1, QuietZombies
<1>6. CASE Shrinks(r)
  BY <1>0, <1>6, <1>r, QuietZombies DEF Shrinks, Goes, Lists
<1>7. CASE Awaits(r)
  BY <1>0, <1>7, <1>r, QuietZombies DEF Awaits, Goes
<1>8. CASE Sees(r)
  <2>1. PICK v \in rec[r].todo : Confirmed(r, v) /\ rec'[r].todo = rec[r].todo \ {v}
    BY <1>8 DEF Sees
  <2>2. rec[r].pc = "waitDeleted" => v \notin CachedLive(r)
    BY <2>1 DEF Confirmed, At, CachedLive
  <2> QED
    BY <1>0, <1>8, <1>r, <2>1, <2>2, QuietZombies DEF Sees, Same
<1>9. CASE Deletes(r)
  <2>1. PICK v \in rec[r].todo :
          /\ rec'[r].todo = rec[r].todo \ {v}
          /\ \/ v \in rec[r].dying /\ Still /\ rec'[r].errs = rec[r].errs
             \/ /\ v \notin rec[r].dying /\ Exists(vm[v]) /\ rec'[r].errs = rec[r].errs
                /\ \E x \in IF vm[v].st = "live" THEN Deleted(vm[v]) ELSE {vm[v]} : Sets(v, x)
             \/ /\ v \notin rec[r].dying /\ Still
                /\ Exists(vm[v]) => faults' # 0
    BY <1>9 DEF Deletes
  <2>2. rec[r].pc = "delete" /\ rec'[r].pc = "delete" /\ rec'[r].done = rec[r].done /\ Keeps(r) /\ Working(r) /\ Working(r)'
    BY <1>9 DEF Deletes, Same, Working
  <2>3. v \in rec[r].done /\ v \in rec[r].mine
    BY <2>2 DEF Lists, ToDelete
  <2>4. rec[r] \in Rec
    BY <1>r DEF TypeOK
  <2>5. v \in Names
    BY <2>4 DEF Rec
  <2>6. CASE Still /\ rec'[r].errs = rec[r].errs
    <3>1. ListedLive(r)' \subseteq ListedLive(r) /\ CachedLive(r)' = CachedLive(r)
      BY <2>2, <2>6, SameZombies DEF Still, Keeps
    <3> QED
      BY <1>0, <2>1, <2>2, <2>6, <3>1
  <2>7. CASE Exists(vm[v]) /\ rec'[r].errs = rec[r].errs /\ \E x \in IF vm[v].st = "live" THEN Deleted(vm[v]) ELSE {vm[v]} : Sets(v, x)
    <3>1. (\A u \in Names : u # v => vm'[u] = vm[u]) /\ UNCHANGED vmCache
      BY <2>7 DEF Sets
    <3>2. ListedLive(r)' \subseteq ListedLive(r) \cup {v} /\ CachedLive(r)' \subseteq CachedLive(r) \cup {v}
      BY <2>2, <3>1 DEF ListedLive, CachedLive, Keeps
    <3> QED
      BY <1>0, <2>1, <2>2, <2>3, <2>7, <3>2
  <2>8. CASE v \notin rec[r].dying /\ ~Exists(vm[v])
    <3>1. v \in ListedLive(r)
      BY <2>2, <2>3, <2>5, <2>8 DEF ListedLive, Exists
    <3> QED
      BY <1>0, <2>2, <3>1
  <2> QED
    BY <2>1, <2>6, <2>7, <2>8
<1>10. CASE Ends(r)
  <2>1. ListedLive(r)' = {} /\ CachedLive(r)' = CachedLive(r) /\ rec'[r].pc = "patch"
    BY <1>10, SameZombies DEF Ends, Still, Working
  <2>2. CachedLive(r) = {}
    BY <1>0, <1>10 DEF Ends
  <2> QED
    BY <2>1, <2>2
<1>11. CASE Closes(r)
  <2>1. ListedLive(r)' = {} /\ CachedLive(r)' = CachedLive(r) /\ rec[r].pc = "patch" /\ rec'[r].pc = "idle"
    BY <1>11, IdleType, SameZombies DEF Closes, Still, Working
  <2> QED
    BY <1>0, <2>1
<1>12. CASE UNCHANGED rec /\ (Edited(r) \/ Refreshed(r))
  BY <1>1, <1>12 DEF Edited, Refreshed
<1>13. ASSUME UNCHANGED <<rec, rs, rsCache>>, NEW v \in Names, Happens(v)
       PROVE  /\ rec'[r].pc \notin {"delete", "waitDeleted"} => ListedLive(r)' = {} /\ CachedLive(r)' = {}
              /\ rec'[r].pc = "delete" => ~rec'[r].errs /\ (ListedLive(r)' \cup CachedLive(r)') \subseteq rec'[r].done \ rec'[r].todo
              /\ rec'[r].pc = "waitDeleted" => CachedLive(r)' \subseteq rec'[r].todo
  <2>1. ~Removed(v)
    <3> SUFFICES ASSUME Removed(v) PROVE FALSE
      OBVIOUS
    <3>1. vm[v].owner # NoRS /\ rs[vm[v].owner].st = "gone"
      BY DEF Removed
    <3>2. vm[v].owner = r
      BY <1>r, <3>1, Written
    <3> QED
      BY <1>13, <3>1, <3>2
  <2>2. ListedLive(r)' \subseteq ListedLive(r) /\ CachedLive(r)' \subseteq CachedLive(r)
    BY <1>13, <1>r, <2>1, OthersZombies DEF Happens
  <2> QED
    BY <1>0, <1>13, <2>2
<1> QED
  BY <1>1, <1>2, <1>3, <1>4, <1>5, <1>6, <1>7, <1>8, <1>9, <1>10, <1>11, <1>12, <1>13 DEF Does, Moves

LEMMA AboveNames ==
  ASSUME NEW r, NEW z
  PROVE  /\ Above(r, z) \subseteq Names /\ Above(r, z)' \subseteq Names /\ Live(r)' \subseteq Names
         /\ Cardinality(Above(r, z)) \in Nat /\ Cardinality(Above(r, z)') \in Nat /\ Cardinality(Live(r)') \in Nat
<1>1. Above(r, z) \subseteq Names /\ Above(r, z)' \subseteq Names /\ Live(r)' \subseteq Names
  BY DEF Above, Live, Owned
<1> QED
  BY <1>1, NamesFinite

\* Beyond a VM there are no fewer when no live VM has gone.
LEMMA AboveGrows ==
  ASSUME NEW r, NEW z, Live(r) \subseteq Live(r)', NEW n \in Nat, Cardinality(Above(r, z)) >= n
  PROVE  Cardinality(Above(r, z)') >= n
<1>1. Above(r, z) \subseteq Above(r, z)'
  BY DEF Above
<1>2. Cardinality(Above(r, z)) <= Cardinality(Above(r, z)')
  BY <1>1, AboveNames, NamesMonotone
<1> QED
  BY <1>2, AboveNames

\* The heart of it: whatever the reconcile has got wrong about other VMs, beyond the live VM
\* that it deletes there are as many live ones as it wants.
LEMMA EnoughBeyond ==
  ASSUME TypeOK, NEW r \in RS, Lists(r), Owners(r), rec[r].pc = "delete",
         \A z \in ListedLive(r) : Cardinality(Above(r, z)) >= rec[r].base.n,
         NEW v \in rec[r].todo, v \notin rec[r].dying, vm[v].st = "live",
         \A u \in Names : u # v => vm'[u] = vm[u]
  PROVE  Cardinality(Above(r, v)') >= rec[r].base.n
<1> DEFINE mine == rec[r].mine
           n == rec[r].base.n
           kept == mine \ rec[r].done
<1>0. mine \subseteq Names /\ rec[r].base \in ReplicaSet /\ v \in Names
  <2>1. rec[r] \in Rec
    BY DEF TypeOK
  <2> QED
    BY <2>1 DEF Rec
<1>1. n \in Nat
  BY <1>0, ReplicaSetAssumption DEF ReplicaSet
<1>2. Cardinality(mine) > n /\ rec[r].done = ToDelete(mine, rec[r].dying, Cardinality(mine) - n) /\ v \in rec[r].done
  BY DEF Lists
<1> HIDE DEF mine, n
<1>3. Cardinality(kept) >= n /\ \A w \in kept : w \notin rec[r].dying /\ v < w
  <2> DEFINE D == ToDelete(mine, rec[r].dying, Cardinality(mine) - n)
  <2>1. Cardinality(mine \ D) >= n /\ \A u \in D \ rec[r].dying, w \in mine \ D : w \notin rec[r].dying /\ u < w
    BY <1>0, <1>1, <1>2, Survivors
  <2>2. rec[r].done = D /\ v \in D \ rec[r].dying
    BY <1>2
  <2> HIDE DEF D
  <2>3. kept = mine \ D
    BY <2>2
  <2> QED
    BY <2>1, <2>2, <2>3
<1>4. kept \subseteq Names /\ kept \subseteq mine /\ Cardinality(kept) \in Nat
  BY <1>0, NamesFinite
<1>5. Names \subseteq Nat
  BY ReplicaSetAssumption
<1>6. CASE \E w \in kept : vm[w].st # "live"
  <2>1. PICK w \in kept : vm[w].st # "live"
    BY <1>6
  <2>2. w \in ListedLive(r)
    BY <1>3, <1>4, <2>1 DEF ListedLive, Working, mine
  <2>3. Cardinality(Above(r, w)) >= n
    BY <2>2 DEF n
  <2>4. ASSUME NEW u \in Above(r, w) PROVE u \in Above(r, v)'
    <3>1. u \in Names /\ w \in Names /\ v \in Names /\ u > w /\ v < w /\ u \in Live(r)
      BY <1>0, <1>3, <1>4 DEF Above, Live, Owned
    <3>0. u \in Nat /\ w \in Nat /\ v \in Nat
      BY <1>5, <3>1
    <3>2. u > v /\ u # v
      BY <3>0, <3>1
    <3>3. u \in Live(r)'
      BY <3>1, <3>2 DEF Live, Owned
    <3> QED
      BY <3>2, <3>3 DEF Above
  <2>5. Cardinality(Above(r, w)) <= Cardinality(Above(r, v)')
    BY <2>4, AboveNames, NamesMonotone
  <2>6. Cardinality(Above(r, v)') >= n
    BY <1>1, <2>3, <2>5, AboveNames
  <2> QED
    BY <2>6 DEF n
<1>7. CASE \A w \in kept : vm[w].st = "live"
  <2>1. ASSUME NEW w \in kept PROVE w \in Above(r, v)'
    <3>1. w \in Names /\ w \in rec[r].mine /\ vm[w].st = "live" /\ v < w
      BY <1>3, <1>4, <1>7 DEF mine
    <3>2. Exists(vm[w]) /\ vm[w].owner = r
      BY <3>1 DEF Owners, Exists
    <3>3. w # v /\ w > v
      BY <1>0, <1>5, <3>1
    <3>4. w \in Live(r)'
      BY <3>1, <3>2, <3>3 DEF Live, Owned, Exists
    <3> QED
      BY <3>3, <3>4 DEF Above
  <2>2. Cardinality(kept) <= Cardinality(Above(r, v)')
    BY <2>1, AboveNames, NamesMonotone
  <2>3. Cardinality(Above(r, v)') >= n
    BY <1>1, <1>3, <1>4, <2>2, AboveNames
  <2> QED
    BY <2>3 DEF n
<1> QED
  BY <1>6, <1>7

LEMMA KeepsOrderly ==
  ASSUME TypeOK, TypeOK', NEW r, RS = {r}, Does(r), SetKept(r), Lists(r), Owners(r), Confirms(r), Confirms(r)',
         Orderly(r), past \subseteq past', faults' = 0 => faults = 0
  PROVE  Orderly(r)'
<1> SUFFICES ASSUME "meddled" \notin past', faults' = 0 \/ "raised" \notin past'
             PROVE  /\ Working(r)' => \A z \in ListedLive(r)' \cup CachedLive(r)' : Cardinality(Above(r, z)') >= rec'[r].base.n
                    /\ ~Working(r)' /\ rs'[r].st # "gone" => \A z \in CachedLive(r)' : Cardinality(Above(r, z)') >= rsCache'[r].n
  BY DEF Orderly, Above, Live, Owned, Exists
<1>r. r \in RS
  OBVIOUS
<1>0. /\ Working(r) => \A z \in ListedLive(r) \cup CachedLive(r) : Cardinality(Above(r, z)) >= rec[r].base.n
      /\ ~Working(r) /\ rs[r].st # "gone" => \A z \in CachedLive(r) : Cardinality(Above(r, z)) >= rsCache[r].n
  BY DEF Orderly
<1>n. rs[r].n \in Nat /\ rsCache[r].n \in Nat /\ rec[r].base.n \in Nat
  <2>1. rs[r] \in ReplicaSet /\ rsCache[r] \in ReplicaSet /\ rec[r] \in Rec
    BY <1>r DEF TypeOK
  <2>2. rec[r].base \in ReplicaSet
    BY <2>1 DEF Rec
  <2> QED
    BY <2>1, <2>2, ReplicaSetAssumption DEF ReplicaSet
<1> DEFINE Goal == /\ Working(r)' => \A z \in ListedLive(r)' \cup CachedLive(r)' : Cardinality(Above(r, z)') >= rec'[r].base.n
                   /\ ~Working(r)' /\ rs'[r].st # "gone" => \A z \in CachedLive(r)' : Cardinality(Above(r, z)') >= rsCache'[r].n
\* Steps that leave the replica set and its live VMs alone.
<1>q. ASSUME Working(r)' <=> Working(r), rec'[r].base = rec[r].base \/ ~Working(r), UNCHANGED rsCache,
             rs'[r].st # "gone" => rs[r].st # "gone",
             ListedLive(r)' \subseteq ListedLive(r), CachedLive(r)' \subseteq CachedLive(r), Live(r) \subseteq Live(r)'
      PROVE  Goal
  <2>1. ASSUME Working(r)', NEW z \in ListedLive(r)' \cup CachedLive(r)'
        PROVE  Cardinality(Above(r, z)') >= rec'[r].base.n
    <3>1. Cardinality(Above(r, z)) >= rec[r].base.n /\ rec'[r].base = rec[r].base
      BY <1>0, <1>q, <2>1
    <3> QED
      BY <1>n, <1>q, <3>1, AboveGrows
  <2>2. ASSUME ~Working(r)', rs'[r].st # "gone", NEW z \in CachedLive(r)'
        PROVE  Cardinality(Above(r, z)') >= rsCache'[r].n
    <3>1. Cardinality(Above(r, z)) >= rsCache[r].n /\ rsCache'[r] = rsCache[r]
      BY <1>0, <1>q, <2>2
    <3> QED
      BY <1>n, <1>q, <3>1, AboveGrows
  <2> QED
    BY <2>1, <2>2
<1>g. rs'[r].st # "gone" => rs[r].st # "gone"
  BY <1>r, NeverBack
<1>1. CASE UNCHANGED <<rec, rsCache>> /\ Still
  <2>1. Live(r)' = Live(r) /\ ListedLive(r)' = ListedLive(r) /\ CachedLive(r)' = CachedLive(r) /\ Working(r)' = Working(r)
    BY <1>1 DEF Still, Live, Owned, ListedLive, CachedLive, Working
  <2> QED
    BY <1>1, <1>g, <1>q, <2>1
<1>2. CASE Finalizes(r) /\ UNCHANGED <<rs, rsCache>>
  <2>1. ListedLive(r)' = {} /\ CachedLive(r)' = CachedLive(r) /\ Live(r)' = Live(r) /\ ~Working(r) /\ ~Working(r)'
    BY <1>2, SameZombies, OwnedStill DEF Finalizes, Goes, Still, Working
  <2> QED
    BY <1>2, <1>g, <1>q, <2>1
<1>3. CASE Reads(r) /\ UNCHANGED <<rs, rsCache>>
  <2>1. ~Working(r) /\ Working(r)' /\ rs[r].st # "gone" /\ rec'[r].base = rsCache[r]
    BY <1>3 DEF Reads, Goes, Working, SetKept
  <2>2. (ListedLive(r)' \cup CachedLive(r)') \subseteq CachedLive(r) /\ Live(r)' = Live(r)
    BY <1>3, <1>r, ReadZombies, OwnedStill DEF Reads, Still
  <2>3. ASSUME NEW z \in ListedLive(r)' \cup CachedLive(r)' PROVE Cardinality(Above(r, z)') >= rec'[r].base.n
    <3>1. Cardinality(Above(r, z)) >= rsCache[r].n
      BY <1>0, <2>1, <2>2
    <3> QED
      BY <1>n, <2>1, <2>2, <3>1, AboveGrows
  <2> QED
    BY <2>1, <2>3
<1>4. CASE Adopts(r) /\ UNCHANGED <<rs, rsCache>>
  <2>1. Working(r) /\ Working(r)' /\ rec'[r].base = rec[r].base
    BY <1>4 DEF Adopts, Same, Working
  <2> QED
    BY <1>4, <1>g, <1>q, <1>r, <2>1, AdoptZombies
<1>5. CASE /\ UNCHANGED <<rs, rsCache>>
           /\ Passes(r) \/ Proceeds(r) \/ Labels(r) \/ Grows(r) \/ Shrinks(r) \/ Creates(r) \/ Misses(r) \/ Awaits(r) \/ Sees(r)
  <2>1. /\ Working(r) /\ Working(r)' /\ Keeps(r)
        /\ ListedLive(r)' \subseteq ListedLive(r) /\ CachedLive(r)' \subseteq CachedLive(r) /\ Live(r) \subseteq Live(r)'
    BY <1>5, <1>r, QuietZombies
  <2>2. rec'[r].base = rec[r].base
    BY <2>1 DEF Keeps
  <2> QED
    BY <1>5, <1>g, <1>q, <2>1, <2>2
<1>6. CASE Deletes(r) /\ UNCHANGED <<rs, rsCache>>
  <2>1. PICK v \in rec[r].todo :
          \/ Still
          \/ /\ v \notin rec[r].dying /\ Exists(vm[v])
             /\ \E x \in IF vm[v].st = "live" THEN Deleted(vm[v]) ELSE {vm[v]} : Sets(v, x)
    BY <1>6 DEF Deletes
  <2>2. rec[r].pc = "delete" /\ Working(r) /\ Working(r)' /\ Keeps(r) /\ rec'[r].base = rec[r].base
    BY <1>6 DEF Deletes, Same, Keeps, Working
  <2>3. v \in Names
    <3>1. rec[r] \in Rec
      BY <1>r DEF TypeOK
    <3> QED
      BY <3>1 DEF Rec
  <2>4. CASE Still
    <3>1. ListedLive(r)' \subseteq ListedLive(r) /\ CachedLive(r)' = CachedLive(r) /\ Live(r)' = Live(r)
      BY <2>2, <2>4, SameZombies, OwnedStill DEF Still, Keeps
    <3> QED
      BY <1>6, <1>g, <1>q, <2>2, <3>1
  <2>5. ASSUME v \notin rec[r].dying, Exists(vm[v]), NEW x \in IF vm[v].st = "live" THEN Deleted(vm[v]) ELSE {vm[v]}, Sets(v, x)
        PROVE  Goal
    <3>1. (\A u \in Names : u # v => vm'[u] = vm[u]) /\ UNCHANGED vmCache
      BY <2>5 DEF Sets
    <3>2. CASE vm[v].st # "live"
      <4>1. Live(r)' = Live(r) /\ \A u \in Names : vm'[u].st = "live" <=> vm[u].st = "live"
        BY <1>r, <2>3, <2>5, <3>2, Unwritten
      <4>2. ListedLive(r)' \subseteq ListedLive(r) /\ CachedLive(r)' = CachedLive(r)
        BY <2>2, <3>1, <4>1, SameZombies DEF Keeps
      <4> QED
        BY <1>6, <1>g, <1>q, <2>2, <4>1, <4>2
    <3>3. CASE vm[v].st = "live"
      <4>1. Cardinality(Above(r, v)') >= rec[r].base.n
        BY <1>0, <1>r, <2>2, <2>5, <3>1, <3>3, EnoughBeyond
      <4>2. Live(r) \subseteq Live(r)' \cup {v}
        BY <1>r, <2>3, <2>5, <3>3, Unwritten
      <4>3. (ListedLive(r)' \cup CachedLive(r)') \subseteq ListedLive(r) \cup CachedLive(r) \cup {v}
        BY <2>2, <3>1 DEF ListedLive, CachedLive, Keeps
      <4>4. ASSUME NEW z \in ListedLive(r)' \cup CachedLive(r)' PROVE Cardinality(Above(r, z)') >= rec'[r].base.n
        <5>1. z \in Names /\ z \in Nat /\ v \in Nat /\ Live(r) \subseteq Nat /\ Live(r)' \subseteq Nat
          BY <2>3, ReplicaSetAssumption DEF ListedLive, CachedLive, Live, Owned
        <5>2. CASE z = v
          BY <2>2, <4>1, <5>2
        <5>3. CASE z < v
          <6>1. Above(r, v)' \subseteq Above(r, z)'
            BY <5>1, <5>3 DEF Above
          <6>2. Cardinality(Above(r, v)') <= Cardinality(Above(r, z)')
            BY <6>1, AboveNames, NamesMonotone
          <6> QED
            BY <1>n, <2>2, <4>1, <6>2, AboveNames
        <5>4. CASE z > v
          <6>1. Above(r, z) \subseteq Above(r, z)'
            BY <4>2, <5>1, <5>4 DEF Above
          <6>2. Cardinality(Above(r, z)) <= Cardinality(Above(r, z)')
            BY <6>1, AboveNames, NamesMonotone
          <6>3. z \in ListedLive(r) \cup CachedLive(r)
            BY <4>3, <5>1, <5>4
          <6>4. Cardinality(Above(r, z)) >= rec[r].base.n
            BY <1>0, <2>2, <6>3
          <6> QED
            BY <1>n, <2>2, <6>2, <6>4, AboveNames
        <5> QED
          BY <5>1, <5>2, <5>3, <5>4
      <4> QED
        BY <2>2, <4>4
    <3> QED
      BY <3>2, <3>3
  <2> QED
    BY <2>1, <2>4, <2>5
<1>7. CASE Ends(r) /\ UNCHANGED <<rs, rsCache>>
  <2>1. /\ CachedLive(r)' = CachedLive(r) /\ Live(r)' = Live(r) /\ rec'[r].pc = "patch" /\ Working(r) /\ ~Working(r)'
    BY <1>7, SameZombies, OwnedStill DEF Ends, Still, Working
  <2>2. ASSUME rs'[r].st # "gone", NEW z \in CachedLive(r)' PROVE Cardinality(Above(r, z)') >= rsCache'[r].n
    <3>1. "raised" \notin past
      BY <2>1, <2>2 DEF Confirms
    <3>2. rsCache[r].n <= rec[r].base.n
      BY <2>1, <3>1 DEF SetKept
    <3>3. Cardinality(Above(r, z)) >= rec[r].base.n
      BY <1>0, <2>1, <2>2
    <3>4. Cardinality(Above(r, z)) >= rsCache[r].n
      BY <1>n, <3>2, <3>3, AboveNames
    <3> QED
      BY <1>7, <1>n, <2>1, <3>4, AboveGrows
  <2> QED
    BY <2>1, <2>2
<1>8. CASE Closes(r)
  <2>1. /\ ListedLive(r)' = {} /\ CachedLive(r)' = CachedLive(r) /\ Live(r)' = Live(r)
        /\ ~Working(r) /\ ~Working(r)' /\ UNCHANGED rsCache
    BY <1>8, IdleType, SameZombies, OwnedStill DEF Closes, Still, Working
  <2> QED
    BY <1>g, <1>q, <2>1
<1>9. CASE UNCHANGED rec /\ Refreshed(r)
  <2>1. /\ Live(r)' = Live(r) /\ ListedLive(r)' = ListedLive(r) /\ CachedLive(r)' = CachedLive(r)
        /\ Working(r)' = Working(r) /\ UNCHANGED rs /\ rsCache'[r] = rs[r]
    BY <1>9 DEF Refreshed, Still, Live, Owned, ListedLive, CachedLive, Working
  <2>2. ASSUME Working(r)', NEW z \in ListedLive(r)' \cup CachedLive(r)' PROVE Cardinality(Above(r, z)') >= rec'[r].base.n
    <3>1. Cardinality(Above(r, z)) >= rec[r].base.n
      BY <1>0, <2>1, <2>2
    <3> QED
      BY <1>9, <1>n, <2>1, <3>1, AboveGrows
  <2>3. ASSUME ~Working(r)', rs'[r].st # "gone", NEW z \in CachedLive(r)' PROVE Cardinality(Above(r, z)') >= rsCache'[r].n
    <3>1. rec[r].pc \notin {"delete", "waitDeleted"} /\ rs[r].st # "gone"
      BY <2>1, <2>3 DEF Working
    <3>2. "raised" \notin past
      BY <2>1, <2>3, <3>1 DEF Confirms
    <3>3. rs[r].n <= rsCache[r].n
      BY <3>2 DEF SetKept
    <3>4. Cardinality(Above(r, z)) >= rsCache[r].n
      BY <1>0, <2>1, <2>3
    <3>5. Cardinality(Above(r, z)) >= rs[r].n
      BY <1>n, <3>3, <3>4, AboveNames
    <3> QED
      BY <1>n, <2>1, <3>5, AboveGrows
  <2> QED
    BY <2>2, <2>3
<1>10. ASSUME UNCHANGED <<rec, rs, rsCache>>, NEW v \in Names, Happens(v)
       PROVE  Goal
  <2>1. CASE Removed(v)
    <3>1. vm[v].owner # NoRS /\ rs[vm[v].owner].st = "gone"
      BY <2>1 DEF Removed
    <3>2. vm[v].owner = r
      BY <1>r, <3>1, Written
    <3>3. rs'[r].st = "gone" /\ ~Working(r) /\ Working(r)' = Working(r)
      BY <1>10, <3>1, <3>2 DEF SetKept, Working
    <3> QED
      BY <3>3
  <2>2. CASE Appears(v) \/ Vanishes(v) \/ Notices(v)
    <3>1. Working(r)' = Working(r)
      BY <1>10 DEF Working
    <3> QED
      BY <1>10, <1>g, <1>q, <1>r, <2>2, <3>1, OthersZombies
  <2> QED
    BY <1>10, <2>1, <2>2 DEF Happens
<1>11. CASE UNCHANGED rec /\ Edited(r)
  BY <1>1, <1>11 DEF Edited
<1> QED
  BY <1>1, <1>2, <1>3, <1>4, <1>5, <1>6, <1>7, <1>8, <1>9, <1>10, <1>11 DEF Does, Moves

-----------------------------------------------------------------------------
(* The theorems. *)

LEMMA InitialState ==
  ASSUME NEW r, RS = {r}, Init
  PROVE  Inductive
<1>r. r \in RS
  OBVIOUS
<1>1. PICK n \in [RS -> Sizes] : rs = [s \in RS |-> NewSet(n[s])]
  BY DEF Init
<1>2. rs[r] = NewSet(n[r]) /\ rsCache = rs /\ rec[r] = NotRunning /\ vmCache = vm
  BY <1>1, <1>r DEF Init
<1>3. ~rs[r].fin /\ rs[r].st = "live" /\ rs[r].n \in Nat
  BY <1>1, <1>2, <1>r, ReplicaSetAssumption DEF NewSet
<1>4. \A v \in Names : vm[v].st = "none" /\ vm[v].owner = NoRS
  BY IdleType DEF Init
<1>5. rec[r].pc = "idle" /\ rec[r].mine = {} /\ rec[r].dying = {} /\ ~Working(r)
  BY <1>2, IdleType DEF Working
<1>6. SetKept(r)
  BY <1>2, <1>3, <1>5 DEF SetKept
<1>7. Lists(r)
  BY <1>5 DEF Lists
<1>8. Owners(r)
  BY <1>2, <1>4, <1>5 DEF Owners, Exists
<1>9. Owned(r) = {} /\ CachedLive(r) = {} /\ ListedLive(r) = {}
  BY <1>2, <1>4, <1>5 DEF Owned, CachedLive, ListedLive, Exists
<1>10. Counted(r) /\ Confirms(r) /\ Orderly(r)
  BY <1>5, <1>9 DEF Counted, Confirms, Orderly
<1> QED
  BY <1>6, <1>7, <1>8, <1>10, InitialTypes DEF Inductive

LEMMA Preserved ==
  ASSUME NEW r, RS = {r}, Inductive, [Next]_vars
  PROVE  Inductive'
<1>r. r \in RS
  OBVIOUS
<1>1. TypeOK /\ SetKept(r) /\ Lists(r) /\ Owners(r) /\ Counted(r) /\ Confirms(r) /\ Orderly(r)
  BY <1>r DEF Inductive
<1>2. TypeOK' /\ past \subseteq past' /\ (faults' = 0 => faults = 0) /\ Does(r)
  BY <1>1, StepTypes, Steps
<1>3. SetKept(r)' /\ Lists(r)'
  BY <1>1, <1>2, <1>r, KeepsSet, KeepsLists
<1>4. Owners(r)'
  BY <1>1, <1>2, <1>r, KeepsOwners
<1>5. Counted(r)'
  BY <1>1, <1>2, KeepsCounted
<1>6. Confirms(r)'
  BY <1>1, <1>2, KeepsConfirms
<1>7. Orderly(r)'
  BY <1>1, <1>2, <1>6, KeepsOrderly
<1> QED
  BY <1>2, <1>3, <1>4, <1>5, <1>6, <1>7 DEF Inductive

\* What the reconcile of a replica set with a selector of its own has listed, what the caches
\* show and what is really there stay related as Inductive says, for any sizes, any number
\* of VMs, failed calls and interventions of users.
THEOREM Inductiveness ==
  ASSUME NEW r, RS = {r}
  PROVE  Spec => []Inductive
<1>1. Init => Inductive
  BY InitialState
<1>2. Inductive /\ [Next]_vars => Inductive'
  BY Preserved
<1> QED
  BY <1>1, <1>2, PTL DEF Spec

\* syncReplicas never creates beyond the size that it works towards, with as many VMs, sizes
\* and size changes as one likes, until a call fails or is refused, a wait times out or
\* somebody else deletes a VM (waitForVMCreation).
THEOREM AlwaysNoSurplus ==
  ASSUME NEW one, RS = {one}
  PROVE  Spec => NoSurplus
<1>1. Inductive /\ [Next]_vars =>
       [\A r \in RS, v \in Names :
              (~Exists(vm[v]) /\ vm'[v].owner = r /\ faults = 0 /\ past \subseteq {"raised"})
                 => Cardinality(Owned(r)') <= rec[r].base.n]_vars
  <2> SUFFICES ASSUME Inductive, Next, NEW r \in RS, NEW v \in Names,
                      ~Exists(vm[v]), vm'[v].owner = r, faults = 0, past \subseteq {"raised"}
               PROVE  Cardinality(Owned(r)') <= rec[r].base.n
    OBVIOUS
  <2>r. r \in RS /\ RS = {r}
    OBVIOUS
  <2>1. TypeOK /\ SetKept(r) /\ Lists(r) /\ Owners(r) /\ Counted(r) /\ Does(r)
    <3>1. TypeOK /\ SetKept(r) /\ Lists(r) /\ Owners(r) /\ Counted(r)
      BY <2>r DEF Inductive
    <3> QED
      BY <2>r, <3>1, Steps
  <2>2. vm[v].owner = NoRS /\ vm[v].st = "none" /\ vm'[v] # vm[v]
    BY <2>1, <2>r, ReplicaSetAssumption DEF Owners, Exists
  <2>3. Creates(r)
    <3>1. ~Still
      BY <2>2 DEF Still
    <3>2. ~Adopts(r) /\ ~Labels(r)
      BY <2>2 DEF Adopts, Labels, Sets
    <3>3. ~Deletes(r)
      BY <2>2, <3>1 DEF Deletes, Sets
    <3>4. ASSUME NEW u \in Names PROVE ~Happens(u)
      <4>1. ~Appears(u)
        BY <2>2, <2>r, ReplicaSetAssumption DEF Appears, Sets
      <4>2. ~Removed(u) /\ ~Vanishes(u) /\ ~Notices(u)
        BY <2>2 DEF Removed, Vanishes, Notices, Sets
      <4> QED
        BY <4>1, <4>2 DEF Happens
    <3> QED
      BY <2>1, <3>1, <3>2, <3>3, <3>4
      DEF Does, Moves, Closes, Edited, Refreshed, Finalizes, Reads, Passes, Proceeds, Grows, Shrinks, Misses, Awaits, Sees, Ends
  <2>4. PICK u \in Names : /\ Free(u) /\ Sets(u, [st |-> "live", owner |-> r, label |-> r])
                           /\ rec'[r].todo = rec[r].todo \cup {u}
    BY <2>3 DEF Creates
  <2> DEFINE mine == rec[r].mine
             todo == rec[r].todo
  <2>5. rec[r].pc = "create" /\ rec[r].left > 0
    BY <2>3 DEF Creates
  <2>6. Owned(r)' \subseteq mine \cup (todo \cup {u})
    <3>1. Owned(r) \subseteq mine \cup todo
      BY <2>1, <2>5 DEF Counted
    <3>2. \A w \in Owned(r)' : w = u \/ w \in Owned(r)
      BY <2>4, SetsEffect DEF Owned
    <3> QED
      BY <3>1, <3>2
  <2>7. mine \subseteq Names /\ todo \subseteq Names /\ rec[r].left \in Nat /\ rec[r].base.n \in Nat
    <3>1. rec[r] \in Rec
      BY <2>1, <2>r DEF TypeOK
    <3>2. mine \subseteq Names /\ todo \subseteq Names /\ rec[r].left \in Nat /\ rec[r].base \in ReplicaSet
      BY <3>1 DEF Rec
    <3> QED
      BY <3>2, ReplicaSetAssumption DEF ReplicaSet
  <2>8. u \notin todo /\ Cardinality(mine) + Cardinality(todo) + rec[r].left <= rec[r].base.n
    BY <2>1, <2>4, <2>5, <2>r DEF Free, Lists
  <2> HIDE DEF mine, todo
  <2>9. /\ IsFiniteSet(mine) /\ IsFiniteSet(todo) /\ IsFiniteSet(todo \cup {u})
        /\ Cardinality(mine) \in Nat /\ Cardinality(todo) \in Nat
        /\ mine \cup (todo \cup {u}) \subseteq Names /\ mine \cap (todo \cup {u}) \subseteq Names
    <3>1. todo \cup {u} \subseteq Names
      BY <2>4, <2>7
    <3> QED
      BY <2>7, <3>1, NamesFinite
  <2>10. Cardinality(todo \cup {u}) = Cardinality(todo) + 1
    BY <2>8, <2>9, FS_AddElement
  <2>11. Cardinality(mine \cup (todo \cup {u}))
           = Cardinality(mine) + Cardinality(todo \cup {u}) - Cardinality(mine \cap (todo \cup {u}))
    BY <2>9, FS_Union
  <2>12. Cardinality(Owned(r)') <= Cardinality(mine \cup (todo \cup {u}))
    BY <2>6, <2>9, NamesMonotone
  <2>13. /\ Cardinality(mine \cup (todo \cup {u})) \in Nat /\ Cardinality(mine \cap (todo \cup {u})) \in Nat
         /\ Cardinality(Owned(r)') \in Nat
    <3>1. Owned(r)' \subseteq Names
      BY <2>6, <2>9
    <3> QED
      BY <2>9, <3>1, NamesFinite
  <2> QED
    BY <2>5, <2>7, <2>8, <2>9, <2>10, <2>11, <2>12, <2>13
<1>2. Spec => []Inductive
  BY Inductiveness
<1> QED
  BY <1>1, <1>2, PTL DEF NoSurplus, Spec

\* A VM that syncReplicas deletes never takes the replica set below the size that it works
\* towards, whatever fails or times out (getMachinesToDeletePrioritized, waitForVMDeletion):
\* until somebody else deletes a VM, and, once a call has failed, until the size is raised.
THEOREM NeverOverDelete ==
  ASSUME NEW one, RS = {one}
  PROVE  Spec => NoOverDelete
<1>1. Inductive /\ [Next]_vars =>
       [\A r \in RS, v \in Names :
              (At(r, "delete") /\ rec'[r] # rec[r] /\ vm[v].st = "live" /\ vm'[v].st # "live"
                 /\ "meddled" \notin past /\ (faults = 0 \/ "raised" \notin past))
                 => Cardinality(Live(r)') >= rec[r].base.n]_vars
  <2> SUFFICES ASSUME Inductive, Next, NEW r \in RS, NEW v \in Names, At(r, "delete"), rec'[r] # rec[r],
                      vm[v].st = "live", vm'[v].st # "live",
                      "meddled" \notin past, faults = 0 \/ "raised" \notin past
               PROVE  Cardinality(Live(r)') >= rec[r].base.n
    OBVIOUS
  <2>r. r \in RS /\ RS = {r}
    OBVIOUS
  <2>1. TypeOK /\ Lists(r) /\ Owners(r) /\ Orderly(r) /\ Does(r) /\ rec[r].pc = "delete"
    <3>1. TypeOK /\ Lists(r) /\ Owners(r) /\ Orderly(r)
      BY <2>r DEF Inductive
    <3> QED
      BY <2>r, <3>1, Steps DEF At
  <2>2. ~Still
    BY DEF Still
  <2>3. Deletes(r)
    <3>1. rec' # rec
      OBVIOUS
    <3> QED
      BY <2>1, <2>2, <3>1
      DEF Does, Moves, Closes, Finalizes, Reads, Adopts, Passes, Proceeds, Labels, Grows, Shrinks, Creates, Misses,
          Awaits, Sees, Ends, Goes
  <2>4. PICK u \in rec[r].todo : /\ u \notin rec[r].dying
                                 /\ \E x \in IF vm[u].st = "live" THEN Deleted(vm[u]) ELSE {vm[u]} : Sets(u, x)
    BY <2>2, <2>3 DEF Deletes
  <2>5. u = v /\ \A w \in Names : w # v => vm'[w] = vm[w]
    BY <2>4 DEF Sets
  <2>6. \A z \in ListedLive(r) : Cardinality(Above(r, z)) >= rec[r].base.n
    BY <2>1 DEF Orderly, Working
  <2>7. Cardinality(Above(r, v)') >= rec[r].base.n
    BY <2>1, <2>4, <2>5, <2>6, <2>r, EnoughBeyond
  <2>8. Cardinality(Above(r, v)') <= Cardinality(Live(r)')
    <3>1. Above(r, v)' \subseteq Live(r)'
      BY DEF Above
    <3> QED
      BY <3>1, AboveNames, NamesMonotone
  <2>9. rec[r].base.n \in Nat
    <3>1. rec[r] \in Rec
      BY <2>1, <2>r DEF TypeOK
    <3>2. rec[r].base \in ReplicaSet
      BY <3>1 DEF Rec
    <3> QED
      BY <3>2, ReplicaSetAssumption DEF ReplicaSet
  <2> QED
    BY <2>7, <2>8, <2>9, AboveNames
<1>2. Spec => []Inductive
  BY Inductiveness
<1> QED
  BY <1>1, <1>2, PTL DEF NoOverDelete, Spec
=============================================================================
