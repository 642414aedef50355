--------------------------- MODULE MCProvisioner ---------------------------
(***************************************************************************)
(* Provisioner on small instances: two volumes that compete for the ids.   *)
(***************************************************************************)
EXTENDS Provisioner
=============================================================================
