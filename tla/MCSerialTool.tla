---------------------------- MODULE MCSerialTool ----------------------------
(* Values for the model checker; see the .cfg files. *)
EXTENDS SerialTool

\* Two devices: the first opening is of one of them, up to renaming.
TwoDevices == [s \in 1..MaxSessions |-> IF s = 1 THEN {"ttyS1"} ELSE {"ttyS1", "ttyS4"}]
OneDevice  == [s \in 1..MaxSessions |-> {"ttyS1"}]
=============================================================================
