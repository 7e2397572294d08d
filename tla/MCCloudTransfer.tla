-------------------------- MODULE MCCloudTransfer ---------------------------
(* Small instances of CloudTransfer for TLC.                               *)
EXTENDS CloudTransfer
=============================================================================
