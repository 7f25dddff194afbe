--------------------------- MODULE MCVolumeBatch ---------------------------
(* Instances of VolumeBatch for TLC. *)
EXTENDS VolumeBatch, TLC

CONSTANTS v1, v2, c1, c2

\* c2 is the boot disk's claim, so that v1 can stand for the boot disk or a disk of
\* its own, and c1 can be exchanged, taken back and moved.
Wishes == v1 :> {c1, c2} @@ v2 :> {c1}
=============================================================================
