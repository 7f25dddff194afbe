------------------------- MODULE ConditionRegister -------------------------
(***************************************************************************)
(* What the patch helper promises to controllers that share an object,     *)
(* without versions, caches, retries or wire formats.                      *)
(*                                                                         *)
(* A controller looks at the conditions (what it sees may be old), decides *)
(* on new ones, and changes all it decided on in one step, or none: each   *)
(* from the state it saw to the state it decided on, unless another        *)
(* controller has made the very same change or the condition is its own.   *)
(* Of a list in the status that several controllers share, it changes its  *)
(* own entry and no other.  Some controllers, which are meant to be alone  *)
(* with their object, replace the conditions instead.                      *)
(***************************************************************************)
CONSTANTS Writers,   \* the controllers
          Types,     \* condition types
          States,    \* states of a condition, the absent one included
          Entries,   \* values of an entry of the shared list
          Owned,     \* the conditions each controller owns
          Whole      \* the controllers that replace all conditions

VARIABLES cond,      \* the state of each condition
          list,      \* the entry of each controller
          saw, goal  \* conditions each controller saw, and those it wants

regVars == <<cond, list, saw, goal>>

RegInit ==
  /\ cond \in [Types -> States] /\ list \in [Writers -> Entries]
  /\ saw = [w \in Writers |-> cond] /\ goal = saw

Look(w) ==
  /\ saw'  \in {[saw EXCEPT ![w] = c] : c \in [Types -> States]}
  /\ goal' \in {[goal EXCEPT ![w] = c] : c \in [Types -> States]}
  /\ UNCHANGED <<cond, list>>

Changed(w) == {t \in Types : saw[w][t] # goal[w][t]}

ChangeConditions(w) ==
  /\ w \notin Whole
  /\ \A t \in Changed(w) \ Owned[w] : cond[t] \in {saw[w][t], goal[w][t]}
  /\ cond' = [t \in Types |-> IF t \in Changed(w) THEN goal[w][t] ELSE cond[t]]
  /\ UNCHANGED <<list, saw, goal>>

ReplaceConditions(w) ==
  /\ w \in Whole /\ cond' = goal[w]
  /\ UNCHANGED <<list, saw, goal>>

ChangeEntry(w) ==
  /\ list' \in {[list EXCEPT ![w] = e] : e \in Entries}
  /\ UNCHANGED <<cond, saw, goal>>

RegNext == \E w \in Writers :
  Look(w) \/ ChangeConditions(w) \/ ReplaceConditions(w) \/ ChangeEntry(w)

RegSpec == RegInit /\ [][RegNext]_regVars
=============================================================================
