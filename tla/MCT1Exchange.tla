---------------------------- MODULE MCT1Exchange ----------------------------
(* Values for the model checker; see the .cfg files. *)
EXTENDS T1Exchange
=============================================================================
