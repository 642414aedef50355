---------------------------- MODULE MCGeneration ----------------------------
(***************************************************************************)
(* Generation on small instances: one socket, one or two clients and a few *)
(* generations.                                                            *)
(***************************************************************************)
EXTENDS Generation
=============================================================================
