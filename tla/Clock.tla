------------------------------- MODULE Clock -------------------------------
(***************************************************************************)
(* What the revocation modules share: the time, in steps from 1, and       *)
(* whether the process runs.  Moment 0 is Go's zero time: never.           *)
(***************************************************************************)
EXTENDS Integers, FiniteSets

CONSTANT MaxTime   \* bound: when the clock stops

ASSUME TimeAssumption == MaxTime \in Nat \ {0}

VARIABLES now, up

Never == 0
Moments == 0..MaxTime
=============================================================================
