---------------------------- MODULE Revocation ----------------------------
(***************************************************************************)
(* What replacing the list of shares promises, whatever the servers do to  *)
(* keep it: a session is opened under the list that is current, happens    *)
(* once per connection, and none is left when the next list takes over.    *)
(* Generation implements this specification.                               *)
(***************************************************************************)
EXTENDS Naturals

CONSTANT Conns   \* the connections clients make

VARIABLES list,     \* the number of the list of shares being served
          session,  \* the list a connection is being served from, 0 for none
          past      \* the connections whose session is over

abstractVars == <<list, session, past>>

AbstractInit ==
  /\ list = 1
  /\ session = [c \in Conns |-> 0]
  /\ past = {}

OpenSession(c) ==
  /\ session[c] = 0 /\ c \notin past
  /\ session' = [session EXCEPT ![c] = list]
  /\ UNCHANGED <<list, past>>

EndSession(c) ==
  /\ session[c] # 0
  /\ session' = [session EXCEPT ![c] = 0]
  /\ past' = past \cup {c}
  /\ UNCHANGED list

\* The access a list gave ends with it.
ReplaceList ==
  /\ \A c \in Conns : session[c] = 0
  /\ list' = list + 1
  /\ UNCHANGED <<session, past>>

AbstractNext == ReplaceList \/ \E c \in Conns : OpenSession(c) \/ EndSession(c)

AbstractSpec == AbstractInit /\ [][AbstractNext]_abstractVars
=============================================================================
