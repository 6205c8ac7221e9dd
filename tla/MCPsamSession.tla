---------------------------- MODULE MCPsamSession ----------------------------
(* Values for the model checker; see the .cfg files. *)
EXTENDS PsamSession
=============================================================================
