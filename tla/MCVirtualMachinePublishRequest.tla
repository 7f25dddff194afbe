------------------- MODULE MCVirtualMachinePublishRequest -------------------
(* Instances of VirtualMachinePublishRequest for TLC. *)
EXTENDS VirtualMachinePublishRequest

CONSTANTS m1, m2

SomeSetups == {<<"ContentLibrary", FALSE>>, <<"ContentLibrary", TRUE>>, <<"Inventory", FALSE>>}
=============================================================================
