--------------------------- MODULE MCPatchHelper ---------------------------
(* Instances of PatchHelper for TLC. *)
EXTENDS PatchHelper, TLC

CONSTANTS vm, volumes,    \* controllers that write the status under the lock
          probe,          \* owns the condition ready
          publisher,      \* sends its status as one patch
          ready, other, s1, s2

OwnedByProbe == [w \in Writers |-> IF w = probe THEN {ready} ELSE {}]

Symmetry == Permutations({vm, volumes}) \cup Permutations({s1, s2})
=============================================================================
