--------------------- MODULE MCVirtualMachineReplicaSet ---------------------
(* Model-checking instances of VirtualMachineReplicaSet. *)
EXTENDS VirtualMachineReplicaSet
=============================================================================
