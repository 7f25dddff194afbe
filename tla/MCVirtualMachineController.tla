-------------------- MODULE MCVirtualMachineController ---------------------
(* Model-checking instances of VirtualMachineController. *)
EXTENDS VirtualMachineController, TLC

\* The objects are interchangeable unless SkipDelete tells them apart.
Symmetry == Permutations(VM \ SkipDelete)
=============================================================================
