----------------------------- MODULE MCWorkers -----------------------------
(***************************************************************************)
(* Workers on a small instance: one person's share, reached over one SSH   *)
(* connection and one WebDAV request at a time.                            *)
(***************************************************************************)
EXTENDS Workers
=============================================================================
