---------------------------- MODULE MCSerialFrame ----------------------------
(* Values for the model checker; see the .cfg files. *)
EXTENDS SerialFrame
=============================================================================
