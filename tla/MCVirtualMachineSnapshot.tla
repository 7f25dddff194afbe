---------------------- MODULE MCVirtualMachineSnapshot ----------------------
(* Instances of VirtualMachineSnapshot for TLC. *)
EXTENDS VirtualMachineSnapshot
=============================================================================
