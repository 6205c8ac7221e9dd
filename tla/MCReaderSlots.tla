--------------------------- MODULE MCReaderSlots ---------------------------
(* Values for the model checker; see the .cfg files. *)
EXTENDS ReaderSlots
=============================================================================
