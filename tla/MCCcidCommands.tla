--------------------------- MODULE MCCcidCommands ---------------------------
(* Values for the model checker; see the .cfg files. *)
EXTENDS CcidCommands

\* ifdhandler.c: int PowerOnVoltage = -1
MinusOne == -1
=============================================================================
