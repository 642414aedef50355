----------------------------- MODULE MCReload -----------------------------
(***************************************************************************)
(* Reload on a small instance: one person and one group, whose every       *)
(* combination of grants, membership and credential is an initial state.   *)
(***************************************************************************)
EXTENDS Reload
=============================================================================
