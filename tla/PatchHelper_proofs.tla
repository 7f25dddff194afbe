------------------------- MODULE PatchHelper_proofs -------------------------
(***************************************************************************)
(* Proofs about PatchHelper, for any number of controllers, condition      *)
(* types, attempts, calls and failing requests; among them that it         *)
(* implements ConditionRegister.                                           *)
(***************************************************************************)
EXTENDS PatchHelper, TLAPS

-----------------------------------------------------------------------------
(* The helpers the actions are made of. *)

\* What comes after each of the three patches.
LEMMA AfterValue ==
  ASSUME NEW w \in Writers, h[w].lock \in BOOLEAN, NEW p \in {"status", "spec", "get"}
  PROVE  /\ After(w, p) \in {"status", "spec", "get", "done"}
         /\ After(w, p) # p
         /\ h[w].lock => After(w, p) # "status"
<1> DEFINE order == Order(h[w].lock)
           i     == CHOOSE j \in 1..3 : order[j] = p
<1>1. order = IF h[w].lock THEN <<"status", "spec", "get", "done">>
              ELSE <<"get", "spec", "status", "done">>
  BY DEF Order
<1>2. \E j \in 1..3 : order[j] = p
  <2>1. CASE h[w].lock
    BY <1>1, <2>1
  <2>2. CASE ~h[w].lock
    BY <1>1, <2>2
  <2> QED
    BY <2>1, <2>2
<1>3. i \in 1..3 /\ order[i] = p
  BY <1>2, Zenon
<1>4. After(w, p) = order[1 + i]
  BY DEF After
<1> HIDE DEF i, order
<1>5. CASE h[w].lock
  BY <1>1, <1>3, <1>4, <1>5
<1>6. CASE ~h[w].lock
  BY <1>1, <1>3, <1>4, <1>6
<1> QED
  BY <1>5, <1>6

\* A request to the API server leaves what it does not carry, and makes a new version if
\* it changes anything.
LEMMA WriteEffect ==
  ASSUME obj \in Object, NEW o \in Object, o.rv = obj.rv, Write(o)
  PROVE  /\ obj' \in Object
         /\ obj'.cond = o.cond /\ obj'.list = o.list /\ obj'.meta = o.meta
         /\ obj' = obj \/ obj'.rv = obj.rv + 1
BY DEF Write, Object

\* Copies stay comparable when a new version is made.
LEMMA CopyKept ==
  ASSUME NEW a \in Object, NEW b \in Object, NEW c \in Object,
         UpToDateIfSame(c, a), b = a \/ b.rv = a.rv + 1
  PROVE  UpToDateIfSame(c, b)
BY DEF UpToDateIfSame, Object

\* The empty values have the types of what they stand for.
LEMMA NullTypes == New \in Object /\ NoHelper \in Helper
<1>1. (CHOOSE e \in Entries : TRUE) \in Entries
  BY PatchAssumption
<1>2. New \in Object
  BY <1>1 DEF New, Object, Condition
<1>3. 0 \in 0..Steps
  BY PatchAssumption
<1> QED
  BY <1>2, <1>3 DEF NoHelper, Helper

\* A fault uses up one of the faults allowed.
LEMMA FaultType ==
  ASSUME TypeOK, Fault
  PROVE  faults' \in 0..MaxFaults
BY PatchAssumption DEF TypeOK, Fault

\* The other controllers notice of a request only that there was one.
LEMMA FinishEffect ==
  ASSUME h \in [Writers -> Helper], NEW w \in Writers, NEW hw \in Helper, Finish(w, hw)
  PROVE  /\ h' \in [Writers -> Helper]
         /\ h'[w] = hw
         /\ \A u \in Writers \ {w} : h'[u] = [h[u] EXCEPT !.alone = @ /\ obj' = obj]
<1>1. ASSUME NEW x \in Helper, NEW b \in BOOLEAN PROVE [x EXCEPT !.alone = b] \in Helper
  BY <1>1 DEF Helper
<1>2. \A u \in Writers : h[u] \in Helper /\ h[u].alone \in BOOLEAN
  BY DEF Helper
<1>3. \A u \in Writers : [h[u] EXCEPT !.alone = @ /\ obj' = obj] \in Helper
  BY <1>1, <1>2
<1> QED
  BY <1>3 DEF Finish

\* The changes a step of Patch makes to its record keep the type.
LEMMA RecordType ==
  ASSUME NEW x \in Helper
  PROVE  /\ \A p \in {"status", "spec", "get", "cond", "done"} : [x EXCEPT !.pc = p] \in Helper
         /\ \A e \in {"status", "spec", "cond"} : [x EXCEPT !.errs = @ \cup {e}] \in Helper
         /\ [x EXCEPT !.conflict = TRUE] \in Helper
<1>1. \A e \in {"status", "spec", "cond"} :
        x.errs \cup {e} \in SUBSET {"status", "spec", "cond"}
  BY DEF Helper
<1> QED
  BY <1>1 DEF Helper

-----------------------------------------------------------------------------
(* What a step of Patch does, whichever it is. *)

\* The record of a helper between two steps of Patch: only these fields change.
Moved(a, b) ==
  /\ b.lock = a.lock /\ b.before = a.before /\ b.after = a.after
  /\ b.alone = a.alone

\* The steps that send a request change the caller's record, and tell the others.
LEMMA SendEffect ==
  ASSUME TypeOK, NEW w \in Writers, PatchStatus(w) \/ Patch(w) \/ PatchConditions(w)
  PROVE  \E hw \in Helper :
           /\ Finish(w, hw) /\ Moved(h[w], hw) /\ hw.latest = h[w].latest
           /\ hw.conflict => \/ h[w].conflict
                             \/ /\ h[w].pc = "status" /\ h[w].lock
                                /\ obj.rv # h[w].before.rv
           /\ h[w].lock => hw.pc # "status"
           /\ hw.pc # "cond"
<1> USE DEF Moved
<1>0. /\ h[w] \in Helper /\ h[w].lock \in BOOLEAN /\ h[w].conflict \in BOOLEAN
      /\ h[w].errs \in SUBSET {"status", "spec", "cond"}
  BY DEF TypeOK, Helper
<1>2. CASE PatchStatus(w)
  <2> DEFINE p      == After(w, "status")
             next   == [h[w] EXCEPT !.pc = p]
             failed == [next EXCEPT !.errs = @ \cup {"status"}]
             refused == [failed EXCEPT !.conflict = TRUE]
  <2>1. p \in {"status", "spec", "get", "done"} /\ (h[w].lock => p # "status")
    BY <1>0, AfterValue
  <2>2. next \in Helper
    BY <1>0, <2>1, RecordType
  <2>5. failed \in Helper
    BY <2>2, RecordType
  <2>6. refused \in Helper
    BY <2>5, RecordType
  <2>3. \/ Finish(w, next) \/ Finish(w, failed)
        \/ Finish(w, refused) /\ h[w].lock /\ obj.rv # h[w].before.rv
    BY <1>2 DEF PatchStatus
  <2>4. h[w].pc = "status"
    BY <1>2 DEF PatchStatus
  <2> QED
    BY <1>0, <2>1, <2>2, <2>3, <2>4, <2>5, <2>6 DEF Helper
<1>3. CASE Patch(w)
  <2> DEFINE p      == After(w, "spec")
             next   == [h[w] EXCEPT !.pc = p]
             failed == [next EXCEPT !.errs = @ \cup {"spec"}]
  <2>1. p \in {"status", "spec", "get", "done"} /\ (h[w].lock => p # "status")
    BY <1>0, AfterValue
  <2>2. next \in Helper
    BY <1>0, <2>1, RecordType
  <2>5. failed \in Helper
    BY <2>2, RecordType
  <2>3. Finish(w, next) \/ Finish(w, failed)
    BY <1>3 DEF Patch
  <2> QED
    BY <1>0, <2>1, <2>2, <2>3, <2>5 DEF Helper
<1>4. CASE PatchConditions(w)
  <2> DEFINE p      == After(w, "get")
             next   == [h[w] EXCEPT !.pc = p]
             failed == [next EXCEPT !.errs = @ \cup {"cond"}]
             again  == [h[w] EXCEPT !.pc = "get"]
  <2>1. p \in {"status", "spec", "get", "done"} /\ (h[w].lock => p # "status")
    BY <1>0, AfterValue
  <2>2. next \in Helper /\ again \in Helper
    BY <1>0, <2>1, RecordType
  <2>5. failed \in Helper
    BY <2>2, RecordType
  <2>3. Finish(w, next) \/ Finish(w, failed) \/ Finish(w, again)
    BY <1>4 DEF PatchConditions
  <2> QED
    BY <1>0, <2>1, <2>2, <2>3, <2>5 DEF Helper
<1> QED
  BY <1>2, <1>3, <1>4

\* What they do to the object: nothing, or a new version that differs in the list, in one
\* field of the metadata, or in the conditions.
LEMMA SendWrites ==
  ASSUME TypeOK, NEW w \in Writers, PatchStatus(w) \/ Patch(w) \/ PatchConditions(w)
  PROVE  /\ obj' \in Object /\ (obj' = obj \/ obj'.rv = obj.rv + 1)
         /\ \/ obj'.cond = obj.cond
            \/ /\ PatchConditions(w) /\ obj'.cond = Apply(w) /\ obj'.list = obj.list
               /\ obj.rv = h[w].latest.rv /\ \A t \in Changed(w) : Agrees(w, t)
            \/ /\ PatchStatus(w) /\ w \in Whole /\ obj'.cond = h[w].after.cond
         /\ \/ obj'.list = obj.list
            \/ /\ PatchStatus(w) /\ ListChanged(w) /\ obj'.list = h[w].after.list
               /\ h[w].lock => obj.rv = h[w].before.rv
<1>0. obj \in Object /\ h[w].after \in Object /\ h[w].latest \in Object
  BY DEF TypeOK, Helper
<1>1. CASE PatchStatus(w)
  <2> DEFINE o == [obj EXCEPT !.list = IF ListChanged(w) THEN h[w].after.list ELSE @,
                              !.cond = IF WholeChanged(w) THEN h[w].after.cond ELSE @]
  <2>1. o \in Object /\ o.rv = obj.rv /\ o.meta = obj.meta
        /\ o.list = (IF ListChanged(w) THEN h[w].after.list ELSE obj.list)
        /\ o.cond = (IF WholeChanged(w) THEN h[w].after.cond ELSE obj.cond)
    BY <1>0 DEF Object
  <2>2. obj' = obj \/ (Write(o) /\ ~(h[w].lock /\ obj.rv # h[w].before.rv))
    BY <1>1 DEF PatchStatus
  <2> HIDE DEF o
  <2> QED
    BY <1>0, <1>1, <2>1, <2>2, WriteEffect DEF WholeChanged
<1>2. CASE Patch(w)
  <2> DEFINE o == [obj EXCEPT !.meta[w] = IF MetaChanged(w) THEN h[w].after.meta[w] ELSE @]
  <2>1. o \in Object /\ o.rv = obj.rv /\ o.cond = obj.cond /\ o.list = obj.list
    BY <1>0 DEF Object
  <2>2. obj' = obj \/ Write(o)
    BY <1>2 DEF Patch
  <2> HIDE DEF o
  <2> QED
    BY <1>0, <2>1, <2>2, WriteEffect
<1>3. CASE PatchConditions(w)
  <2> DEFINE o == [obj EXCEPT !.cond = Apply(w)]
  <2>1. Apply(w) \in [Types -> Condition]
    BY <1>0 DEF Apply, Object
  <2>2. o \in Object /\ o.rv = obj.rv /\ o.cond = Apply(w) /\ o.list = obj.list
    BY <1>0, <2>1 DEF Object
  <2>3. \/ obj' = obj
        \/ Write(o) /\ obj.rv = h[w].latest.rv /\ \A t \in Changed(w) : Agrees(w, t)
    BY <1>3 DEF PatchConditions
  <2> HIDE DEF o
  <2> QED
    BY <1>0, <1>3, <2>2, <2>3, WriteEffect
<1> QED
  BY <1>1, <1>2, <1>3

\* A round of the backoff changes the caller's record and nothing else.
LEMMA GetEffect ==
  ASSUME TypeOK, NEW w \in Writers, GetLatest(w)
  PROVE  \E hw \in Helper :
           /\ h' = [h EXCEPT ![w] = hw] /\ Moved(h[w], hw) /\ hw.conflict = h[w].conflict
           /\ hw.latest \in {h[w].latest, cache}
           /\ h[w].lock => hw.pc # "status"
           /\ hw.pc = "cond" => w \notin Whole
<1> USE DEF Moved
<1> DEFINE p      == After(w, "get")
           next   == [h[w] EXCEPT !.pc = p]
           failed == [next EXCEPT !.errs = @ \cup {"cond"}]
           merge  == [h[w] EXCEPT !.pc = "cond", !.latest = cache, !.tries = @ + 1]
<1>1. /\ h[w] \in Helper /\ h[w].lock \in BOOLEAN /\ h[w].tries \in 0..Steps
      /\ cache \in Object /\ h[w].pc = "get"
  BY DEF TypeOK, Helper, GetLatest
<1>2. p \in {"status", "spec", "get", "done"} /\ (h[w].lock => p # "status")
  BY <1>1, AfterValue
<1>3. next \in Helper
  BY <1>1, <1>2, RecordType
<1>4. failed \in Helper
  BY <1>3, RecordType
<1>5. h[w].tries < Steps => merge \in Helper
  <2>1. h[w].tries < Steps => h[w].tries + 1 \in 0..Steps
    BY <1>1, PatchAssumption
  <2> QED
    BY <1>1, <2>1 DEF Helper
<1>6. \/ h' = [h EXCEPT ![w] = next] \/ h' = [h EXCEPT ![w] = failed]
      \/ h' = [h EXCEPT ![w] = merge] /\ h[w].tries < Steps /\ w \notin Whole
  BY DEF GetLatest, TypeOK, ToMerge
<1>7. CASE h' = [h EXCEPT ![w] = next]
  BY <1>1, <1>2, <1>3, <1>7 DEF Helper
<1>8. CASE h' = [h EXCEPT ![w] = failed]
  BY <1>1, <1>2, <1>4, <1>8 DEF Helper
<1>9. CASE h' = [h EXCEPT ![w] = merge] /\ h[w].tries < Steps /\ w \notin Whole
  BY <1>1, <1>2, <1>5, <1>9 DEF Helper
<1> QED
  BY <1>6, <1>7, <1>8, <1>9

\* The record of a new call: a copy of the cache, changed where the controller may.
LEMMA NewHelperEffect ==
  ASSUME TypeOK, NEW w \in Writers, NewHelper(w)
  PROVE  \E hw \in Helper :
           /\ h' = [h EXCEPT ![w] = hw]
           /\ hw.before = cache /\ hw.latest = New /\ ~hw.conflict
           /\ hw.alone = (cache = obj) /\ hw.pc # "cond"
           /\ \A u \in Writers \ {w} : hw.after.list[u] = cache.list[u]
           /\ hw.after.list # cache.list => hw.lock /\ w \in Locking
<1> DEFINE lock == w \in Locking
<1>1. PICK c \in [Types -> Condition], e \in Entries, m \in Entries :
        LET after == [cache EXCEPT !.cond = c, !.list[w] = e, !.meta[w] = m]
        IN  /\ after # cache
            /\ after.list # cache.list => lock
            /\ h' = [h EXCEPT ![w] =
                       [NoHelper EXCEPT !.pc = Order(lock)[1], !.lock = lock,
                          !.before = cache, !.after = after, !.alone = (cache = obj)]]
  BY Zenon DEF NewHelper
<1> DEFINE after == [cache EXCEPT !.cond = c, !.list[w] = e, !.meta[w] = m]
           hw    == [NoHelper EXCEPT !.pc = Order(lock)[1], !.lock = lock,
                       !.before = cache, !.after = after, !.alone = (cache = obj)]
<1>2. cache \in Object /\ after \in Object /\ \A u \in Writers \ {w} : after.list[u] = cache.list[u]
  BY DEF TypeOK, Object
<1>3. Order(lock)[1] \in {"status", "get"}
  BY DEF Order
<1>7. lock \in BOOLEAN /\ (lock => w \in Locking)
  OBVIOUS
<1> HIDE DEF after, lock
<1>4. hw \in Helper
  BY <1>2, <1>3, <1>7, NullTypes DEF Helper
<1>5. hw.before = cache /\ hw.latest = New /\ ~hw.conflict /\ hw.alone = (cache = obj)
      /\ hw.after = after /\ hw.lock = lock /\ hw.pc # "cond"
  BY <1>2, <1>3 DEF NoHelper
<1>6. h' = [h EXCEPT ![w] = hw] /\ (after.list # cache.list => lock)
  BY <1>1 DEF after, lock
<1> HIDE DEF hw
<1> QED
  BY <1>2, <1>4, <1>5, <1>6, <1>7

-----------------------------------------------------------------------------
(* The inductive invariant. *)

\* A request keeps the invariant.
LEMMA InductiveSend ==
  ASSUME Inductive, NEW w \in Writers, PatchStatus(w) \/ Patch(w) \/ PatchConditions(w)
  PROVE  Inductive'
<1>1. PICK hw \in Helper :
        /\ Finish(w, hw) /\ Moved(h[w], hw) /\ hw.latest = h[w].latest
        /\ hw.conflict => \/ h[w].conflict
                          \/ h[w].pc = "status" /\ h[w].lock /\ obj.rv # h[w].before.rv
        /\ h[w].lock => hw.pc # "status"
        /\ hw.pc # "cond"
  BY SendEffect DEF Inductive
<1>2. obj' \in Object /\ (obj' = obj \/ obj'.rv = obj.rv + 1)
  BY SendWrites DEF Inductive
<1>3. /\ h' \in [Writers -> Helper] /\ h'[w] = hw
      /\ \A u \in Writers \ {w} : h'[u] = [h[u] EXCEPT !.alone = @ /\ obj' = obj]
  BY <1>1, FinishEffect DEF Inductive, TypeOK
<1>4. cache' = cache /\ calls' = calls /\ faults' \in 0..MaxFaults
  BY FaultType DEF Inductive, TypeOK, PatchStatus, Patch, PatchConditions
<1>5. TypeOK'
  BY <1>2, <1>3, <1>4 DEF Inductive, TypeOK
<1>6. ASSUME NEW u \in Writers, u # w
      PROVE  /\ h'[u].lock = h[u].lock /\ h'[u].before = h[u].before /\ h'[u].after = h[u].after
             /\ h'[u].latest = h[u].latest /\ h'[u].pc = h[u].pc
             /\ h'[u].conflict = h[u].conflict
             /\ h'[u].alone = (h[u].alone /\ obj' = obj)
  <2>1. h[u] \in Helper /\ h'[u] = [h[u] EXCEPT !.alone = @ /\ obj' = obj]
    BY <1>3, <1>6 DEF Inductive, TypeOK
  <2> QED
    BY <2>1 DEF Helper
<1>7. \A u \in Writers : /\ h'[u].before = h[u].before /\ h'[u].after = h[u].after
                         /\ h'[u].latest = h[u].latest /\ h'[u].lock = h[u].lock
  BY <1>1, <1>3, <1>6 DEF Moved
<1>8. Versions'
  <2>1. /\ New \in Object /\ cache \in Object /\ obj \in Object
        /\ \A u \in Writers : h[u].before \in Object /\ h[u].latest \in Object
    BY NullTypes DEF Inductive, TypeOK, Helper
  <2>2. \A c \in Object : UpToDateIfSame(c, obj) => UpToDateIfSame(c, obj')
    BY <1>2, <2>1, CopyKept
  <2> QED
    BY <1>4, <1>7, <2>1, <2>2 DEF Inductive, Versions
<1>9. OwnEntry'
  BY <1>7 DEF Inductive, OwnEntry, ListChanged
<1>10. LockFirst'
  <2>1. ASSUME NEW u \in Writers, u # w
        PROVE  /\ h'[u].pc = "status" /\ h'[u].lock /\ h'[u].alone => h'[u].before = obj'
               /\ h'[u].conflict => ~h'[u].alone
    BY <1>6, <2>1 DEF Inductive, LockFirst
  <2>2. /\ h'[w].pc = "status" /\ h'[w].lock /\ h'[w].alone => h'[w].before = obj'
        /\ h'[w].conflict => ~h'[w].alone
    BY <1>1, <1>3 DEF Inductive, LockFirst, Moved
  <2> QED
    BY <2>1, <2>2 DEF LockFirst
<1>11. MergedApart'
  BY <1>1, <1>3, <1>6 DEF Inductive, MergedApart
<1> QED
  BY <1>5, <1>8, <1>9, <1>10, <1>11 DEF Inductive

\* So does every step that changes no more than one record, to one that fits.
LEMMA InductiveRecord ==
  ASSUME Inductive, NEW w \in Writers, NEW hw \in Helper, h' = [h EXCEPT ![w] = hw],
         UNCHANGED <<obj, cache>>, calls' \in 0..MaxCalls, faults' = faults,
         UpToDateIfSame(hw.before, obj), UpToDateIfSame(hw.latest, obj),
         \A u \in Writers \ {w} : hw.after.list[u] = hw.before.list[u],
         hw.after.list # hw.before.list => hw.lock /\ w \in Locking,
         hw.pc = "status" /\ hw.lock /\ hw.alone => hw.before = obj,
         hw.conflict => ~hw.alone,
         hw.pc = "cond" => w \notin Whole
  PROVE  Inductive'
<1>1. h'[w] = hw /\ \A u \in Writers \ {w} : h'[u] = h[u]
  BY DEF Inductive, TypeOK
<1>2. TypeOK'
  BY DEF Inductive, TypeOK
<1>3. Versions'
  BY <1>1 DEF Inductive, Versions
<1>4. OwnEntry'
  BY <1>1 DEF Inductive, OwnEntry, ListChanged
<1>5. LockFirst'
  BY <1>1 DEF Inductive, LockFirst
<1>6. MergedApart'
  BY <1>1 DEF Inductive, MergedApart
<1> QED
  BY <1>2, <1>3, <1>4, <1>5, <1>6 DEF Inductive

\* Every step keeps the invariant.
LEMMA InductiveNext ==
  ASSUME Inductive, [Next]_vars
  PROVE  Inductive'
<1>1. ASSUME NEW w \in Writers, PatchStatus(w) \/ Patch(w) \/ PatchConditions(w)
      PROVE  Inductive'
  BY <1>1, InductiveSend
<1>2. ASSUME NEW w \in Writers, GetLatest(w) PROVE Inductive'
  <2>1. PICK hw \in Helper :
          /\ h' = [h EXCEPT ![w] = hw] /\ Moved(h[w], hw) /\ hw.conflict = h[w].conflict
          /\ hw.latest \in {h[w].latest, cache}
          /\ h[w].lock => hw.pc # "status"
          /\ hw.pc = "cond" => w \notin Whole
    BY <1>2, GetEffect DEF Inductive
  <2>2. /\ UNCHANGED <<obj, cache>> /\ calls' \in 0..MaxCalls /\ faults' = faults
    BY <1>2 DEF GetLatest, Inductive, TypeOK
  <2>3. UpToDateIfSame(hw.before, obj) /\ UpToDateIfSame(hw.latest, obj)
    BY <2>1 DEF Inductive, Versions, Moved
  <2>4. /\ \A u \in Writers \ {w} : hw.after.list[u] = hw.before.list[u]
        /\ hw.after.list # hw.before.list => hw.lock /\ w \in Locking
    BY <2>1 DEF Inductive, OwnEntry, ListChanged, Moved
  <2>5. /\ hw.pc = "status" /\ hw.lock /\ hw.alone => hw.before = obj
        /\ hw.conflict => ~hw.alone
    BY <2>1 DEF Inductive, LockFirst, Moved
  <2> QED
    BY <2>1, <2>2, <2>3, <2>4, <2>5, InductiveRecord
<1>3. ASSUME NEW w \in Writers, NewHelper(w) PROVE Inductive'
  <2>1. PICK hw \in Helper :
          /\ h' = [h EXCEPT ![w] = hw]
          /\ hw.before = cache /\ hw.latest = New /\ ~hw.conflict
          /\ hw.alone = (cache = obj) /\ hw.pc # "cond"
          /\ \A u \in Writers \ {w} : hw.after.list[u] = cache.list[u]
          /\ hw.after.list # cache.list => hw.lock /\ w \in Locking
    BY <1>3, NewHelperEffect DEF Inductive
  <2>2. /\ UNCHANGED <<obj, cache>> /\ calls' \in 0..MaxCalls /\ faults' = faults
    BY <1>3, PatchAssumption DEF NewHelper, Inductive, TypeOK
  <2>3. UpToDateIfSame(hw.before, obj) /\ UpToDateIfSame(hw.latest, obj)
    BY <2>1 DEF Inductive, Versions
  <2> QED
    BY <2>1, <2>2, <2>3, InductiveRecord
<1>4. ASSUME NEW w \in Writers, Return(w) PROVE Inductive'
  <2>1. h' = [h EXCEPT ![w] = NoHelper] /\ UNCHANGED <<obj, cache>>
        /\ calls' \in 0..MaxCalls /\ faults' = faults
    BY <1>4 DEF Return, Inductive, TypeOK
  <2>2. /\ NoHelper.before = New /\ NoHelper.latest = New /\ NoHelper.after = New
        /\ NoHelper.pc = "idle" /\ ~NoHelper.conflict
    BY DEF NoHelper
  <2>3. UpToDateIfSame(New, obj) /\ NoHelper \in Helper
    BY NullTypes DEF Inductive, Versions
  <2> QED
    BY <2>1, <2>2, <2>3, InductiveRecord
<1>5. ASSUME CacheEvent PROVE Inductive'
  <2>1. cache' = obj /\ UNCHANGED <<obj, h, calls, faults>>
    BY <1>5 DEF CacheEvent
  <2>2. TypeOK' /\ OwnEntry' /\ LockFirst' /\ MergedApart'
    BY <2>1 DEF Inductive, TypeOK, OwnEntry, LockFirst, ListChanged, MergedApart
  <2>3. Versions'
    BY <2>1 DEF Inductive, Versions, TypeOK, Object, UpToDateIfSame
  <2> QED
    BY <2>2, <2>3 DEF Inductive
<1>6. ASSUME UNCHANGED vars PROVE Inductive'
  BY <1>6 DEF vars, Inductive, TypeOK, Versions, OwnEntry, LockFirst, ListChanged, MergedApart
<1> QED
  BY <1>1, <1>2, <1>3, <1>4, <1>5, <1>6 DEF Next

\* Inductive holds in every reachable state: versions tell copies apart, a controller
\* touches its own entry only and under the lock, and a locked patch goes first.
THEOREM Inductiveness == Spec => []Inductive
<1>1. Init => Inductive
  <2> SUFFICES ASSUME Init PROVE Inductive
    OBVIOUS
  <2>1. obj = New /\ cache = New /\ \A w \in Writers : h[w] = NoHelper
    BY DEF Init
  <2>2. /\ NoHelper.before = New /\ NoHelper.latest = New /\ NoHelper.after = New
        /\ NoHelper.pc = "idle" /\ ~NoHelper.conflict
    BY DEF NoHelper
  <2>3. TypeOK
    BY NullTypes, PatchAssumption DEF Init, TypeOK
  <2>4. Versions
    BY <2>1, <2>2, NullTypes DEF Versions, UpToDateIfSame, Object
  <2>5. OwnEntry /\ LockFirst /\ MergedApart
    BY <2>1, <2>2 DEF OwnEntry, LockFirst, ListChanged, MergedApart
  <2> QED
    BY <2>3, <2>4, <2>5 DEF Inductive
<1>2. Inductive /\ [Next]_vars => Inductive'
  BY InductiveNext
<1> QED
  BY <1>1, <1>2, PTL DEF Spec

\* The types: in particular the backoff never makes more rounds than it has steps.
THEOREM TypeCorrect == Spec => []TypeOK
<1>1. Inductive => TypeOK
  BY DEF Inductive
<1> QED
  BY <1>1, Inductiveness, PTL

\* A call whose version is current, and during which nobody else writes, is never refused
\* for its lock: Patch sends the locked status first, before its other patches make a new
\* version of the object.
THEOREM ConflictAlwaysHasCause == Spec => []ConflictHasCause
<1>1. Inductive => ConflictHasCause
  BY DEF Inductive, LockFirst, ConflictHasCause
<1> QED
  BY <1>1, Inductiveness, PTL

-----------------------------------------------------------------------------
(* What Patch promises its caller. *)

\* When the part of Patch that carries the conditions ends without an error, the API server
\* has the conditions asked for: the backoff reports that it gave up, a failed merge is an error,
\* and the merged list is sent with a lock on the version it was merged into.
THEOREM ConditionsAlwaysArrive == Spec => ConditionsArrive
<1> DEFINE Arrives ==
      \A w \in Writers :
        /\ h[w].pc \in CondSteps(w) /\ h'[w].pc \notin CondSteps(w)
        /\ CondError(w) \notin h'[w].errs
        => \A t \in Changed(w) : obj'.cond[t] = h[w].after.cond[t]
<1>1. ASSUME Inductive, [Next]_vars PROVE Arrives \/ UNCHANGED vars
  <2> SUFFICES ASSUME NEW w \in Writers, Next,
                      h[w].pc \in CondSteps(w), h'[w].pc \notin CondSteps(w),
                      CondError(w) \notin h'[w].errs
               PROVE  \A t \in Changed(w) : obj'.cond[t] = h[w].after.cond[t]
    BY <1>1
  <2>0. TypeOK /\ h[w] \in Helper
    BY <1>1 DEF Inductive, TypeOK
  <2>1. ASSUME NEW u \in Writers, u # w,
               PatchStatus(u) \/ Patch(u) \/ PatchConditions(u)
        PROVE  FALSE
    <3>1. PICK hw \in Helper : Finish(u, hw)
      BY <2>0, <2>1, SendEffect
    <3>2. h'[w] = [h[w] EXCEPT !.alone = @ /\ obj' = obj]
      BY <2>0, <2>1, <3>1, FinishEffect DEF TypeOK
    <3> QED
      BY <2>0, <3>2 DEF Helper
  <2>2. ASSUME NEW u \in Writers, u # w, GetLatest(u) \/ NewHelper(u) \/ Return(u)
        PROVE  FALSE
    <3>1. h'[w] = h[w]
      BY <2>0, <2>2 DEF GetLatest, NewHelper, Return, TypeOK
    <3> QED
      BY <3>1
  <2>3. ASSUME CacheEvent PROVE FALSE
    BY <2>3 DEF CacheEvent
  <2>4. ASSUME NewHelper(w) \/ Return(w) \/ Patch(w) PROVE FALSE
    BY <2>4 DEF NewHelper, Return, Patch, CondSteps
  <2>5. ASSUME GetLatest(w) PROVE Changed(w) = {}
    <3>0. w \notin Whole /\ CondError(w) = "cond"
      BY <2>5 DEF GetLatest, CondSteps, CondError
    <3> DEFINE next   == [h[w] EXCEPT !.pc = After(w, "get")]
               failed == [next EXCEPT !.errs = @ \cup {"cond"}]
               merge  == [h[w] EXCEPT !.pc = "cond", !.latest = cache, !.tries = @ + 1]
    <3>1. \/ Changed(w) = {} \/ h'[w] = failed \/ h'[w] = merge
      BY <2>0, <2>5, <3>0 DEF GetLatest, TypeOK, ToMerge
    <3>2. failed.errs = h[w].errs \cup {"cond"} /\ merge.pc = "cond"
      BY <2>0 DEF Helper
    <3> QED
      BY <3>0, <3>1, <3>2 DEF CondSteps
  <2>6. ASSUME PatchConditions(w) PROVE obj'.cond = Apply(w)
    <3> DEFINE next   == [h[w] EXCEPT !.pc = After(w, "get")]
               failed == [next EXCEPT !.errs = @ \cup {"cond"}]
               again  == [h[w] EXCEPT !.pc = "get"]
               o      == [obj EXCEPT !.cond = Apply(w)]
    <3>1. \/ Finish(w, failed) \/ Finish(w, again) \/ Write(o)
      BY <2>6 DEF PatchConditions
    <3>2. failed.errs = h[w].errs \cup {"cond"} /\ again.pc = "get"
      BY <2>0 DEF Helper
    <3>3. ASSUME NEW hw, Finish(w, hw) PROVE h'[w] = hw
      BY <3>3 DEF Finish
    <3>0. CondError(w) = "cond" /\ "get" \in CondSteps(w)
      BY <2>6 DEF PatchConditions, CondSteps, CondError
    <3>4. Write(o)
      BY <3>0, <3>1, <3>2, <3>3
    <3>5. obj \in Object /\ h[w].latest \in Object /\ h[w].after \in Object
      BY <2>0 DEF TypeOK, Helper
    <3>6. Apply(w) \in [Types -> Condition]
      BY <3>5 DEF Apply, Object
    <3>7. o \in Object /\ o.rv = obj.rv /\ o.cond = Apply(w)
      BY <3>5, <3>6 DEF Object
    <3> QED
      BY <3>4, <3>5, <3>7, WriteEffect
  <2>8. ASSUME PatchStatus(w) PROVE Changed(w) = {} \/ obj'.cond = h[w].after.cond
    <3> DEFINE next    == [h[w] EXCEPT !.pc = After(w, "status")]
               failed  == [next EXCEPT !.errs = @ \cup {"status"}]
               refused == [failed EXCEPT !.conflict = TRUE]
               o       == [obj EXCEPT !.list = IF ListChanged(w) THEN h[w].after.list ELSE @,
                                      !.cond = IF WholeChanged(w) THEN h[w].after.cond ELSE @]
    <3>1. w \in Whole /\ CondError(w) = "status"
      BY <2>8 DEF PatchStatus, CondSteps, CondError
    <3>2. failed.errs = h[w].errs \cup {"status"} /\ refused.errs = h[w].errs \cup {"status"}
      BY <2>0 DEF Helper
    <3>3. ASSUME NEW hw, Finish(w, hw) PROVE h'[w] = hw
      BY <3>3 DEF Finish
    <3>4. ~StatusSent(w) \/ Finish(w, failed) \/ Finish(w, refused) \/ Write(o)
      BY <2>8 DEF PatchStatus
    <3>5. Changed(w) = {} \/ Write(o)
      BY <3>1, <3>2, <3>3, <3>4 DEF StatusSent, WholeChanged
    <3>6. obj \in Object /\ h[w].after \in Object
      BY <2>0 DEF TypeOK, Helper
    <3>7. o \in Object /\ o.rv = obj.rv /\ (Changed(w) # {} => o.cond = h[w].after.cond)
      BY <3>1, <3>6 DEF Object, WholeChanged
    <3> QED
      BY <3>5, <3>6, <3>7, WriteEffect
  <2>7. Changed(w) = {} \/ obj'.cond = Apply(w) \/ obj'.cond = h[w].after.cond
    BY <2>1, <2>2, <2>3, <2>4, <2>5, <2>6, <2>8 DEF Next
  <2> QED
    BY <2>7 DEF Changed, Apply
<1> QED
  BY <1>1, Inductiveness, PTL DEF Spec, ConditionsArrive

-----------------------------------------------------------------------------
(* The refinement. *)

\* A step that leaves a record's copies alone is none of the register's business, except
\* for what it does to conditions and list.
LEMMA ViewsKept ==
  ASSUME \A w \in Writers : h'[w].before = h[w].before /\ h'[w].after = h[w].after
  PROVE  /\ [w \in Writers |-> h[w].before.cond]' = [w \in Writers |-> h[w].before.cond]
         /\ [w \in Writers |-> h[w].after.cond]' = [w \in Writers |-> h[w].after.cond]
OBVIOUS

\* A request is a change of conditions, of an entry of the list, or of nothing.
LEMMA RegisterSend ==
  ASSUME Inductive, NEW w \in Writers, PatchStatus(w) \/ Patch(w) \/ PatchConditions(w)
  PROVE  [Register!RegNext]_(Register!regVars)
<1>0. TypeOK /\ obj \in Object /\ h[w] \in Helper
  BY DEF Inductive, TypeOK
<1>1. PICK hw \in Helper : Finish(w, hw) /\ Moved(h[w], hw)
  BY <1>0, SendEffect
<1>2. \A u \in Writers : h'[u].before = h[u].before /\ h'[u].after = h[u].after
  <2>1. h'[w] = hw /\ \A u \in Writers \ {w} : h'[u] = [h[u] EXCEPT !.alone = @ /\ obj' = obj]
    BY <1>0, <1>1, FinishEffect DEF TypeOK
  <2>2. \A u \in Writers : h[u] \in Helper
    BY <1>0 DEF TypeOK
  <2>3. ASSUME NEW u \in Writers \ {w}
        PROVE  h'[u].before = h[u].before /\ h'[u].after = h[u].after
    <3>1. h[u] \in Helper /\ h'[u] = [h[u] EXCEPT !.alone = @ /\ obj' = obj]
      BY <2>1, <2>2
    <3> QED
      BY <3>1 DEF Helper
  <2> QED
    BY <1>1, <2>1, <2>3 DEF Moved
<1>3. CASE obj'.cond = obj.cond /\ obj'.list = obj.list
  BY <1>2, <1>3, ViewsKept DEF Register!regVars
<1>4. CASE /\ PatchConditions(w) /\ obj'.cond = Apply(w) /\ obj'.list = obj.list
           /\ obj.rv = h[w].latest.rv /\ \A t \in Changed(w) : Agrees(w, t)
  <2>1. h[w].latest = obj
    BY <1>4 DEF Inductive, Versions, UpToDateIfSame
  <2>2. Register!Changed(w) = Changed(w)
    BY DEF Register!Changed, Changed
  <2>3. \A t \in Changed(w) \ Owned[w] :
          obj.cond[t] \in {h[w].before.cond[t], h[w].after.cond[t]}
    BY <1>4, <2>1 DEF Agrees
  <2>4. w \notin Whole
    BY <1>4 DEF Inductive, MergedApart, PatchConditions
  <2>5. Register!ChangeConditions(w)
    BY <1>2, <1>4, <2>1, <2>2, <2>3, <2>4, ViewsKept DEF Register!ChangeConditions, Apply
  <2> QED
    BY <2>5 DEF Register!RegNext
<1>5. CASE /\ PatchStatus(w) /\ ListChanged(w) /\ obj'.list = h[w].after.list
           /\ h[w].lock => obj.rv = h[w].before.rv
           /\ obj'.cond = obj.cond
  <2>1. h[w].before = obj
    BY <1>5 DEF Inductive, OwnEntry, Versions, UpToDateIfSame
  <2>2. h[w].after.list \in [Writers -> Entries] /\ obj.list \in [Writers -> Entries]
    BY <1>0 DEF Helper, Object
  <2>3. obj'.list = [obj.list EXCEPT ![w] = h[w].after.list[w]]
    BY <1>5, <2>1, <2>2 DEF Inductive, OwnEntry
  <2>4. Register!ChangeEntry(w)
    BY <1>2, <1>5, <2>2, <2>3, ViewsKept DEF Register!ChangeEntry
  <2> QED
    BY <2>4 DEF Register!RegNext
<1>6. CASE /\ PatchStatus(w) /\ w \in Whole /\ obj'.cond = h[w].after.cond
           /\ obj'.list = obj.list
  <2>1. Register!ReplaceConditions(w)
    BY <1>2, <1>6, ViewsKept DEF Register!ReplaceConditions
  <2> QED
    BY <2>1 DEF Register!RegNext
<1>7. ListChanged(w) => w \notin Whole
  BY PatchAssumption DEF Inductive, OwnEntry
<1> QED
  BY <1>0, <1>3, <1>4, <1>5, <1>6, <1>7, SendWrites

\* Patch implements the register of ConditionRegister: whatever the cache shows, whoever
\* retries and whatever fails, conditions change together and each from the state its
\* controller saw unless it owns them, of the shared list a controller changes its own
\* entry only, and only who sends its status as one patch replaces others' conditions.
THEOREM Refinement == Spec => ImplementsRegister
<1>1. Init => Register!RegInit
  <2> SUFFICES ASSUME Init PROVE Register!RegInit
    OBVIOUS
  <2>1. New \in Object /\ obj = New
    BY NullTypes DEF Init
  <2>2. \A w \in Writers : h[w].before = New /\ h[w].after = New
    BY DEF Init, NoHelper
  <2> QED
    BY <2>1, <2>2 DEF Register!RegInit, Object
<1>2. ASSUME Inductive, [Next]_vars PROVE [Register!RegNext]_(Register!regVars)
  <2>1. ASSUME NEW w \in Writers, PatchStatus(w) \/ Patch(w) \/ PatchConditions(w)
        PROVE  [Register!RegNext]_(Register!regVars)
    BY <1>2, <2>1, RegisterSend
  <2>2. ASSUME NEW w \in Writers, GetLatest(w)
        PROVE  [Register!RegNext]_(Register!regVars)
    <3>1. PICK hw \in Helper : h' = [h EXCEPT ![w] = hw] /\ Moved(h[w], hw)
      BY <1>2, <2>2, GetEffect DEF Inductive
    <3>2. \A u \in Writers : h'[u].before = h[u].before /\ h'[u].after = h[u].after
      BY <1>2, <3>1 DEF Moved, Inductive, TypeOK
    <3>3. obj' = obj
      BY <2>2 DEF GetLatest
    <3> QED
      BY <3>2, <3>3, ViewsKept DEF Register!regVars
  <2>3. ASSUME NEW w \in Writers, NEW hw \in Helper, h' = [h EXCEPT ![w] = hw], obj' = obj
        PROVE  [Register!RegNext]_(Register!regVars)
    <3>1. hw.before.cond \in [Types -> Condition] /\ hw.after.cond \in [Types -> Condition]
      BY <2>3 DEF Helper, Object
    <3>2. /\ [u \in Writers |-> h[u].before.cond]'
               = [[u \in Writers |-> h[u].before.cond] EXCEPT ![w] = hw.before.cond]
          /\ [u \in Writers |-> h[u].after.cond]'
               = [[u \in Writers |-> h[u].after.cond] EXCEPT ![w] = hw.after.cond]
      BY <1>2, <2>3 DEF Inductive, TypeOK
    <3>3. Register!Look(w)
      BY <2>3, <3>1, <3>2 DEF Register!Look
    <3> QED
      BY <3>3 DEF Register!RegNext
  <2>4. ASSUME NEW w \in Writers, NewHelper(w) \/ Return(w)
        PROVE  [Register!RegNext]_(Register!regVars)
    <3>1. \E hw \in Helper : h' = [h EXCEPT ![w] = hw]
      BY <1>2, <2>4, NewHelperEffect, NullTypes DEF Inductive, Return
    <3>2. obj' = obj
      BY <2>4 DEF NewHelper, Return
    <3> QED
      BY <2>3, <3>1, <3>2
  <2>5. ASSUME CacheEvent \/ UNCHANGED vars
        PROVE  [Register!RegNext]_(Register!regVars)
    BY <2>5, ViewsKept DEF CacheEvent, vars, Register!regVars
  <2> QED
    BY <1>2, <2>1, <2>2, <2>4, <2>5 DEF Next
<1> QED
  BY <1>1, <1>2, Inductiveness, PTL DEF Spec, ImplementsRegister, Register!RegSpec
=============================================================================
