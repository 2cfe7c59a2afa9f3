--------------------------- MODULE MCOpsConverge ---------------------------
(* A small instance of OpsConverge: the .cfg gives its constants.          *)
EXTENDS OpsConverge
=============================================================================
