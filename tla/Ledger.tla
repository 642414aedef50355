------------------------------- MODULE Ledger -------------------------------
(***************************************************************************)
(* What the admin API promises of the list of shares, whatever the manager *)
(* does to keep it.  An edition of the list is written, then shown to      *)
(* clients, and only then is its caller told; a crash at any moment comes  *)
(* back with the last edition a caller was told of, or with the one that   *)
(* was written after it, and never with half of one.                       *)
(*                                                                         *)
(* An edition is a record: what is saved of it, and the list it shows.     *)
(* Manager implements this specification.                                  *)
(***************************************************************************)
CONSTANTS Empty,    \* what a server that was never asked for a change saved
          Nothing   \* the list nobody is shown anything from

VARIABLES file,     \* what was saved last
          told,     \* the edition callers know of; none while the server is down
          pending,  \* the edition written whose caller waits, or none
          shown,    \* the list clients are served
          phase     \* "down", "up", "closing"

ledgerVars == <<file, told, pending, shown, phase>>

LedgerInit ==
  /\ file = Empty /\ told = {} /\ pending = {} /\ shown = Nothing /\ phase = "down"

\* One edition at a time is written.
Write ==
  /\ phase # "down" /\ pending = {}
  /\ \E e \in pending' : pending' = {e} /\ file' = e.saved
  /\ UNCHANGED <<told, shown, phase>>

Show ==
  /\ phase = "up"
  /\ \E e \in pending : shown' = e.list
  /\ UNCHANGED <<file, told, pending, phase>>

\* The caller is told of what clients already see.
Tell ==
  /\ phase # "down"
  /\ \E e \in pending : shown = e.list
  /\ told' = pending /\ pending' = {}
  /\ UNCHANGED <<file, shown, phase>>

\* A server that closes shows nothing new: the caller is refused, and what
\* was written is taken back, or not.
Refuse ==
  /\ phase = "closing" /\ pending # {}
  /\ \E e \in told : file' \in {file, e.saved}
  /\ pending' = {}
  /\ UNCHANGED <<told, shown, phase>>

\* What comes up is the edition that was saved.
ComeUp ==
  /\ phase = "down" /\ phase' = "up"
  /\ \E e \in told' : told' = {e} /\ e.saved = file /\ shown' = e.list
  /\ UNCHANGED <<file, pending>>

Close ==
  /\ phase = "up" /\ phase' = "closing"
  /\ UNCHANGED <<file, told, pending, shown>>

GoDown ==
  /\ phase # "down" /\ phase' = "down"
  /\ told' = {} /\ pending' = {} /\ shown' = Nothing
  /\ UNCHANGED file

LedgerNext == Write \/ Show \/ Tell \/ Refuse \/ ComeUp \/ Close \/ GoDown

LedgerSpec == LedgerInit /\ [][LedgerNext]_ledgerVars
=============================================================================
