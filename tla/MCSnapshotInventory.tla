------------------------ MODULE MCSnapshotInventory ------------------------
(***************************************************************************)
(* Instances of SnapshotInventory for TLC.                                 *)
(***************************************************************************)
EXTENDS SnapshotInventory
=============================================================================
