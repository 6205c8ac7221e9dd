--------------------------- MODULE MCT1Transceive ---------------------------
(* Values for the model checker; see the .cfg files. *)
EXTENDS T1Transceive
=============================================================================
