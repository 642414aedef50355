----------------------------- MODULE MCManager -----------------------------
(***************************************************************************)
(* Manager on small instances: one share of the configuration and one or   *)
(* two names for the API, over two paths that are links to one file.       *)
(***************************************************************************)
EXTENDS Manager

OneFileBlock == [conf |-> [path |-> "a", as |-> "image", ro |-> FALSE, vol |-> FALSE]]
NoFileBlocks == <<>>
LinkedFile == [p \in Paths |-> 1]
OwnFiles == [p \in Paths |-> IF p = "a" THEN 1 ELSE 2]
=============================================================================
