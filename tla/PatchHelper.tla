---------------------------- MODULE PatchHelper ----------------------------
(***************************************************************************)
(* The patch helper that every controller uses to write its object back:   *)
(*   pkg/patch/patch.go, pkg/patch/utils.go, pkg/patch/options.go          *)
(*   pkg/conditions/patch.go, pkg/conditions/conditions.go                 *)
(*                                                                         *)
(* Several controllers work on one object.  Each reads it from the cache,  *)
(* changes its copy, and hands the copy to Patch, which sends up to three  *)
(* patches: of the status, of metadata and spec, and of the conditions.    *)
(* The first is sent with or without a lock on the version that was read;  *)
(* conditions are merged into the latest version the cache shows, with a   *)
(* lock on that one, and the merge is repeated after a conflict.           *)
(*                                                                         *)
(* A merge patch replaces a list as a whole.  Conditions are such a list,  *)
(* and so are the entries of the status (status.volumes, say) that several *)
(* controllers share; of metadata and spec each controller has a field of  *)
(* its own.  A controller always passes the same options: the lock (the    *)
(* controllers of a VM and its volumes), conditions it owns, which its     *)
(* merge overwrites (the readiness probe's worker), or one patch for the   *)
(* whole status, conditions included (the controllers of publish requests).*)
(* Forced overwrite, which nobody passes, is left out.  The API server and *)
(* the cache are external.                                                 *)
(*                                                                         *)
(* A condition is its state.  Its transition time, which is cut to seconds *)
(* and tells a condition changed and changed back from one untouched if a  *)
(* second has passed, is left out: that only adds errors of the merge.     *)
(***************************************************************************)
EXTENDS Naturals, FiniteSets

CONSTANTS Writers,    \* the controllers that share the object
          Types,      \* condition types
          States,     \* status, reason and message of a condition
          Entries,    \* values of an entry of the shared list, and of a field
          Locking,    \* who passes WithStatusOptimisticLock
          Owned,      \* what each passes as WithOwnedConditions
          Whole,      \* who calls DisableSeparateConditionsPatch
          Steps,      \* the attempts of the backoff (5 in the code)
          MaxCalls,   \* bound: calls of Patch
          MaxFaults   \* bound: requests that fail

Absent    == "absent"
Condition == States \cup {Absent}

ASSUME PatchAssumption ==
  /\ Absent \notin States
  /\ Entries # {}
  /\ Locking \subseteq Writers /\ Whole \subseteq Writers \ Locking
  /\ Owned \in [Writers -> SUBSET Types]
  /\ Steps \in Nat \ {0}
  /\ MaxCalls \in Nat /\ MaxFaults \in Nat

VARIABLES obj,        \* the object at the API server
          cache,      \* the copy the controllers read
          h,          \* each controller's helper
          calls, faults

vars == <<obj, cache, h, calls, faults>>

-----------------------------------------------------------------------------
(* The state. *)

\* list is the shared list of the status, meta the fields of metadata and spec.
Object == [rv: Nat, cond: [Types -> Condition],
           list: [Writers -> Entries], meta: [Writers -> Entries]]

\* lock: whether this call passes the lock;
\* before and after: the copies made by NewHelper and handed to Patch;
\* latest: what the backoff loop read;  errs: the patches that failed;
\* conflict: the locked status patch was refused;  alone: history, nobody else
\* has written since the version in before.
Helper == [pc: {"idle", "status", "spec", "get", "cond", "done"}, lock: BOOLEAN,
           before: Object, after: Object, latest: Object, tries: 0..Steps,
           errs: SUBSET {"status", "spec", "cond"}, conflict: BOOLEAN,
           alone: BOOLEAN]

TypeOK ==
  /\ obj \in Object /\ cache \in Object
  /\ h \in [Writers -> Helper]
  /\ calls \in 0..MaxCalls /\ faults \in 0..MaxFaults

New == LET e == [w \in Writers |-> CHOOSE e \in Entries : TRUE]
       IN  [rv |-> 0, cond |-> [t \in Types |-> Absent], list |-> e, meta |-> e]

NoHelper == [pc |-> "idle", lock |-> FALSE, before |-> New, after |-> New, latest |-> New, tries |-> 0,
             errs |-> {}, conflict |-> FALSE, alone |-> TRUE]

Init ==
  /\ obj = New /\ cache = New
  /\ h = [w \in Writers |-> NoHelper]
  /\ calls = 0 /\ faults = 0

-----------------------------------------------------------------------------
(* Conditions. *)

Changed(w) == {t \in Types : h[w].before.cond[t] # h[w].after.cond[t]}

\* Patch.Apply: the three-way merge of the conditions, which may conflict, as a
\* change does with a removal.  An owned condition never does.
Agrees(w, t) == \/ t \in Owned[w]
                \/ h[w].latest.cond[t] \in {h[w].before.cond[t], h[w].after.cond[t]}
Apply(w)     == [t \in Types |-> IF t \in Changed(w) THEN h[w].after.cond[t]
                                 ELSE h[w].latest.cond[t]]

-----------------------------------------------------------------------------
(* The API server and the cache. *)

\* A request that changes nothing makes no new version.
Write(o) ==
  IF o = obj THEN UNCHANGED obj
  ELSE obj' = [o EXCEPT !.rv = obj.rv + 1]

Fault == faults < MaxFaults /\ faults' = faults + 1

\* A write by w is an interference with everybody else's call.
Finish(w, hw) ==
  h' = [u \in Writers |->
          IF u = w THEN hw
          ELSE [h[u] EXCEPT !.alone = @ /\ obj' = obj]]

CacheEvent == /\ cache # obj /\ cache' = obj
              /\ UNCHANGED <<obj, h, calls, faults>>

-----------------------------------------------------------------------------
(* Patch. *)

ListChanged(w) == h[w].before.list # h[w].after.list
MetaChanged(w) == h[w].before.meta # h[w].after.meta

\* The same order whatever the options: conditions, spec, status.
OrderUnlocked(lock) == <<"get", "spec", "status", "done">>

\* The order of the three patches depends on the lock: a locked status patch must
\* come before this call's other writes make a new version.
Order(lock) == IF lock THEN <<"status", "spec", "get", "done">>
               ELSE <<"get", "spec", "status", "done">>

After(w, p) == LET order == Order(h[w].lock)
               IN  order[1 + CHOOSE i \in 1..3 : order[i] = p]

\* A controller reads its object, makes a helper, changes its copy and calls
\* Patch.  Only those that pass the lock write the shared list.
NewHelper(w) ==
  /\ h[w].pc = "idle" /\ calls < MaxCalls /\ calls' = calls + 1
  /\ \E c \in [Types -> Condition], e, m \in Entries :
       LET lock  == w \in Locking
           after == [cache EXCEPT !.cond = c, !.list[w] = e, !.meta[w] = m]
       IN  /\ after # cache
           /\ after.list # cache.list => lock
           /\ h' = [h EXCEPT ![w] =
                     [NoHelper EXCEPT !.pc = Order(lock)[1], !.lock = lock,
                        !.before = cache, !.after = after, !.alone = (cache = obj)]]
  /\ UNCHANGED <<obj, cache, faults>>

\* Conditions that go with the status patch, and those that are merged.
WholeChanged(w) == w \in Whole /\ Changed(w) # {}
ToMerge(w)      == IF w \in Whole THEN {} ELSE Changed(w)

\* The patch holds the list when it has changed, and the list of conditions when
\* that is not merged separately.  It also holds changes of the metadata, which
\* the status subresource ignores; but a locked one is sent for them, and may be
\* refused.
StatusSent(w) ==
  /\ ListChanged(w) \/ Changed(w) # {}
  /\ ListChanged(w) \/ MetaChanged(w) \/ WholeChanged(w)

PatchStatus(w) ==
  /\ h[w].pc = "status"
  /\ LET next     == [h[w] EXCEPT !.pc = After(w, "status")]
         conflict == h[w].lock /\ obj.rv # h[w].before.rv
         failed   == [next EXCEPT !.errs = @ \cup {"status"}]
     IN  \/ /\ ~StatusSent(w)
            /\ UNCHANGED <<obj, faults>> /\ Finish(w, next)
         \/ /\ StatusSent(w) /\ conflict
            /\ UNCHANGED <<obj, faults>>
            /\ Finish(w, [failed EXCEPT !.conflict = TRUE])
         \/ /\ StatusSent(w) /\ ~conflict
            /\ Write([obj EXCEPT !.list = IF ListChanged(w) THEN h[w].after.list ELSE @,
                                 !.cond = IF WholeChanged(w) THEN h[w].after.cond ELSE @])
            /\ UNCHANGED faults /\ Finish(w, next)
         \/ /\ StatusSent(w) /\ Fault
            /\ UNCHANGED obj /\ Finish(w, failed)
  /\ UNCHANGED <<cache, calls>>

Patch(w) ==
  /\ h[w].pc = "spec"
  /\ LET next == [h[w] EXCEPT !.pc = After(w, "spec")]
     IN  \/ /\ Write([obj EXCEPT !.meta[w] = IF MetaChanged(w) THEN h[w].after.meta[w] ELSE @])
            /\ UNCHANGED faults /\ Finish(w, next)
         \/ /\ MetaChanged(w) /\ Fault
            /\ UNCHANGED obj /\ Finish(w, [next EXCEPT !.errs = @ \cup {"spec"}])
  /\ UNCHANGED <<cache, calls>>

\* The end of the backoff is taken for the end of the work.
GetLatestGivesUp(w) ==
  /\ h[w].pc = "get"
  /\ \/ /\ ToMerge(w) = {} \/ h[w].tries = Steps
        /\ h' = [h EXCEPT ![w].pc = After(w, "get")]
     \/ /\ ToMerge(w) # {} /\ h[w].tries < Steps
        /\ h' = [h EXCEPT ![w].pc = "cond", ![w].latest = cache, ![w].tries = @ + 1]
  /\ UNCHANGED <<obj, cache, calls, faults>>

\* One round of the backoff: read the latest version the cache has, and merge.
\* A conflict in the merge is an error, and so are too many rounds.
GetLatest(w) ==
  /\ h[w].pc = "get"
  /\ LET next   == [h[w] EXCEPT !.pc = After(w, "get")]
         failed == [next EXCEPT !.errs = @ \cup {"cond"}]
     IN  \/ ToMerge(w) = {} /\ h' = [h EXCEPT ![w] = next]
         \/ ToMerge(w) # {} /\ h[w].tries = Steps /\ h' = [h EXCEPT ![w] = failed]
         \/ /\ ToMerge(w) # {} /\ h[w].tries < Steps
            /\ h' = [h EXCEPT ![w].pc = "cond", ![w].latest = cache, ![w].tries = @ + 1]
  /\ UNCHANGED <<obj, cache, calls, faults>>

\* The merged list is sent without the lock on the version it was merged into.
PatchConditionsNoLock(w) ==
  /\ h[w].pc = "cond" /\ \A t \in Changed(w) : Agrees(w, t)
  /\ Write([obj EXCEPT !.cond = Apply(w)])
  /\ Finish(w, [h[w] EXCEPT !.pc = After(w, "get")])
  /\ UNCHANGED <<cache, calls, faults>>

PatchConditions(w) ==
  /\ h[w].pc = "cond"
  /\ LET next     == [h[w] EXCEPT !.pc = After(w, "get")]
         failed   == [next EXCEPT !.errs = @ \cup {"cond"}]
         merges   == \A t \in Changed(w) : Agrees(w, t)
         conflict == obj.rv # h[w].latest.rv
     IN  \/ ~merges /\ UNCHANGED <<obj, faults>> /\ Finish(w, failed)
         \/ /\ merges /\ conflict /\ UNCHANGED <<obj, faults>>
            /\ Finish(w, [h[w] EXCEPT !.pc = "get"])
         \/ /\ merges /\ ~conflict /\ Write([obj EXCEPT !.cond = Apply(w)])
            /\ UNCHANGED faults /\ Finish(w, next)
         \/ merges /\ Fault /\ UNCHANGED obj /\ Finish(w, failed)
  /\ UNCHANGED <<cache, calls>>

\* Patch returns what failed; the controller that gets an error starts over.
Return(w) ==
  /\ h[w].pc = "done"
  /\ h' = [h EXCEPT ![w] = NoHelper]
  /\ UNCHANGED <<obj, cache, calls, faults>>

Next ==
  \/ CacheEvent
  \/ \E w \in Writers : \/ NewHelper(w) \/ PatchStatus(w) \/ Patch(w)
                        \/ GetLatest(w) \/ PatchConditions(w) \/ Return(w)

Spec == Init /\ [][Next]_vars

-----------------------------------------------------------------------------
(* Properties. *)

Register == INSTANCE ConditionRegister WITH
              States <- Condition,
              cond   <- obj.cond,
              list   <- obj.list,
              saw    <- [w \in Writers |-> h[w].before.cond],
              goal   <- [w \in Writers |-> h[w].after.cond]

\* The helper implements the register: conditions merged from a cache that lags,
\* with retries, partial failures and whole lists replaced on the wire, are still
\* changed all together, each from the state the controller saw unless it owns the
\* condition, and no controller's entry of the shared list is lost to another's
\* stale copy.  Only who asks for one patch of the whole status loses others'
\* conditions.
ImplementsRegister == Register!RegSpec

\* A call whose version is current, and during which nobody else writes, is never
\* refused for its lock: its own other patches do not get in its way.
ConflictHasCause == \A w \in Writers : h[w].conflict => ~h[w].alone

\* Where the conditions of a call are sent, and the error it reports if that fails.
CondSteps(w) == IF w \in Whole THEN {"status"} ELSE {"get", "cond"}
CondError(w) == IF w \in Whole THEN "status" ELSE "cond"

\* When the part of Patch that carries the conditions ends without an error, the
\* object at the API server, not just the copy in the cache, has the conditions
\* asked for.
ConditionsArrive ==
  [][\A w \in Writers :
       /\ h[w].pc \in CondSteps(w) /\ h'[w].pc \notin CondSteps(w)
       /\ CondError(w) \notin h'[w].errs
       => \A t \in Changed(w) : obj'.cond[t] = h[w].after.cond[t]]_vars

-----------------------------------------------------------------------------
(* What makes the properties above inductive. *)

\* The resource version tells objects apart: whoever holds a copy with the version
\* the API server has, holds the same object.
UpToDateIfSame(copy, o) == copy.rv <= o.rv /\ (copy.rv = o.rv => copy = o)
Versions ==
  /\ UpToDateIfSame(New, obj) /\ UpToDateIfSame(cache, obj)
  /\ \A w \in Writers : UpToDateIfSame(h[w].before, obj) /\ UpToDateIfSame(h[w].latest, obj)

\* A controller changes its own entry only, and then passes the lock.
OwnEntry ==
  \A w \in Writers :
    /\ \A u \in Writers \ {w} : h[w].after.list[u] = h[w].before.list[u]
    /\ ListChanged(w) => h[w].lock /\ w \in Locking

\* A locked status patch comes first: with nobody else writing, its version is good.
LockFirst ==
  \A w \in Writers :
    /\ h[w].pc = "status" /\ h[w].lock /\ h[w].alone => h[w].before = obj
    /\ h[w].conflict => ~h[w].alone

\* Who sends its status as one patch does not merge.
MergedApart == \A w \in Writers : h[w].pc = "cond" => w \notin Whole

Inductive == TypeOK /\ Versions /\ OwnEntry /\ LockFirst /\ MergedApart
=============================================================================
