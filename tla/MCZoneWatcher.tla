---------------------------- MODULE MCZoneWatcher ----------------------------
(* Model-checking instances of ZoneWatcher. *)
EXTENDS ZoneWatcher, TLC

CONSTANTS z1, z2, f1

\* Two zones of a namespace that share its folder.
Shared == (z1 :> f1) @@ (z2 :> f1)
=============================================================================
