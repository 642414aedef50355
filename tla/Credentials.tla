---------------------------- MODULE Credentials ----------------------------
(***************************************************************************)
(* A credential the identity provider issued, and what it opens while the  *)
(* provider may take it back: the logins and sessions of federated_sftp.go *)
(* and opkssh.go, the calls of serve_nfs.go and the requests of            *)
(* oidcauth.go, over a revocation list and the shared signals.             *)
(*                                                                         *)
(* Whose name a credential carries, and which shares that name may use, is *)
(* module Access.  Signatures are external.                                *)
(***************************************************************************)
EXTENDS RevocationList, SharedSignals

\* An SSH certificate of the provider's CA, an opkssh certificate, an X.509
\* client certificate over NFS, a token over WebDAV.
Kinds == {"ca", "opk", "x509", "token"}

CONSTANTS Life,      \* how long a credential of each kind lasts
          OpkMaxAge, \* opkssh_max_age
          Configs    \* pairs: which of "list" and "signals" are configured,
                     \* and a kind of credential

ASSUME CredentialsAssumption ==
  /\ Life \in [Kinds -> Nat] /\ OpkMaxAge \in Nat
  /\ Configs \subseteq (SUBSET {"list", "signals"}) \X Kinds
  \* Checked by ssfBlock.timing, against the longest life there is.
  /\ \A c \in Configs : "signals" \in c[1] => Retain >= Life[c[2]] /\ Retain >= OpkMaxAge

VARIABLES
  conf,     \* what is configured
  cred,     \* the credential: its kind, when it was issued, when it ends
  sess,     \* the SSH session it opened: "none", "open", "over"
  refused   \* history: by what it was refused for good, "nothing" if it was not

vars == <<now, up, listVars, signalVars, conf, cred, sess, refused>>

HasSession == cred.kind \in {"ca", "opk"}

Init ==
  /\ now = 1 /\ up = TRUE
  /\ ListInit /\ SignalsInit
  \* A token need not say when it was issued, and an opkssh certificate may
  \* say it lasts for ever.
  /\ \E c \in Configs :
       /\ conf = c[1]
       /\ cred \in [kind : {c[2]}, issued : IF c[2] = "token" THEN {now, Never} ELSE {now},
                    until : {now + Life[c[2]]} \cup IF c[2] = "opk" THEN {MaxTime + 1} ELSE {}]
  /\ signed <=> cred.kind # "x509"
  \* Only the provider's own certificates have a list.
  /\ "list" \in conf => cred.kind \in {"ca", "x509"}
  /\ "list" \notin conf => honest /\ source = "url" /\ ~issues[1].revokes
  /\ "signals" \notin conf => tStream = 0
  /\ sess = "none" /\ refused = "nothing"
-----------------------------------------------------------------------------
(***************************************************************************)
(* What is asked of the credential at a login, and of an open session or a *)
(* stateless call each time: its end, the list, the signals, in this       *)
(* order.                                                                  *)
(***************************************************************************)

\* openpubkey: a PK Token ages out, whatever its certificate says.
expires == IF cred.kind = "opk" /\ cred.issued + OpkMaxAge < cred.until
           THEN cred.issued + OpkMaxAge ELSE cred.until

\* Only a token or a PK Token carries the provider's issuer and subject.
namedBy == {"acct", "scope"} \cup (IF cred.kind \in {"opk", "token"} THEN {"iss_sub"} ELSE {})

revokedCert == IF "list" \in conf THEN get ELSE "ok"
federatedRevoked == IF "signals" \in conf THEN check(namedBy, cred.issued) ELSE "ok"

\* crypto/tls's certificates last to their end, SSH's until it.
ended == IF cred.kind = "x509" THEN now > expires ELSE now >= expires

sessionCheck ==
  IF ended THEN "refused"
  ELSE IF revokedCert # "ok" THEN revokedCert ELSE federatedRevoked

\* The refusals that what is on disk outlives a restart with: by the end, by
\* the list in the state file, by revocations that were saved.
Note ==
  LET by == IF sessionCheck # "refused" THEN "nothing"
            ELSE IF ended THEN "end"
            ELSE IF revokedCert = "refused" THEN (IF saved = held THEN "list" ELSE "nothing")
            ELSE IF entries = kept.entries THEN "signals" ELSE "nothing"
  IN refused' = IF refused = "nothing" THEN by ELSE refused

\* certificate, openpubkey: the login.
Login ==
  /\ up /\ HasSession /\ sess = "none"
  /\ ~ended
  /\ sess' = IF sessionCheck = "ok" THEN "open" ELSE sess
  /\ Note
  /\ UNCHANGED <<now, up, listVars, signalVars, conf, cred>>

\* sessionRevoked, before each operation: a session found revoked is over
\* and its connection closed; one whose list is not known is only refused.
Operation ==
  /\ up /\ sess = "open"
  /\ sess' = IF sessionCheck = "refused" THEN "over" ELSE sess
  /\ Note
  /\ UNCHANGED <<now, up, listVars, signalVars, conf, cred>>

\* certificateGate, bearer: every call decides anew.
Call ==
  /\ up /\ ~HasSession
  /\ Note
  /\ UNCHANGED <<now, up, listVars, signalVars, conf, cred, sess>>

\* The client ends its session, and may log in again.
Logout ==
  /\ sess # "none"
  /\ sess' = "none"
  /\ UNCHANGED <<now, up, listVars, signalVars, conf, cred, refused>>
-----------------------------------------------------------------------------
\* The provider's lists revoke a certificate until it ends, and may leave it
\* out once it has.
ProviderIssues(r, e) ==
  /\ "list" \in conf
  /\ issues[Latest].revokes /\ ~ended => r
  /\ Issue(r, e)
  /\ UNCHANGED <<now, up, signalVars, conf, cred, sess, refused>>

ProviderRevokes(s) ==
  /\ "signals" \in conf
  /\ Emit(s)
  /\ UNCHANGED <<now, up, listVars, conf, cred, sess, refused>>

ListRuns ==
  /\ "list" \in conf
  /\ FetchStep
  /\ UNCHANGED <<now, up, signalVars, conf, cred, sess, refused>>

SignalsRun ==
  /\ "signals" \in conf
  /\ PollStep
  /\ UNCHANGED <<now, up, listVars, conf, cred, sess, refused>>

Tick ==
  /\ now < MaxTime
  /\ FetchInTime /\ PollInTime
  /\ now' = now + 1
  /\ UNCHANGED <<up, listVars, signalVars, conf, cred, sess, refused>>

Crash ==
  /\ up
  /\ up' = FALSE /\ sess' = "none"
  /\ ListStops /\ SignalsStop
  /\ UNCHANGED <<now, conf, cred, refused>>

Start ==
  /\ ~up
  /\ up' = TRUE
  /\ \/ restore /\ UNCHANGED refused
     \/ restoreNothing /\ refused' = IF refused = "list" THEN "nothing" ELSE refused
  /\ SignalsStart
  /\ UNCHANGED <<now, conf, cred, sess>>

Next ==
  \/ Login \/ Operation \/ Call \/ Logout
  \/ \E r, e \in BOOLEAN : ProviderIssues(r, e)
  \/ \E s \in Subjects : ProviderRevokes(s)
  \/ ListRuns \/ SignalsRun
  \/ Tick \/ Crash \/ Start

Spec == Init /\ [][Next]_vars
-----------------------------------------------------------------------------
(***************************************************************************)
(* Properties.                                                             *)
(***************************************************************************)

\* The types of the variables.
TypeOK ==
  /\ now \in Moments /\ up \in BOOLEAN
  /\ ListTypeOK /\ SignalsTypeOK
  /\ conf \subseteq {"list", "signals"}
  /\ cred \in [kind : Kinds, issued : Moments, until : Nat]
  /\ sess \in {"none", "open", "over"}
  /\ refused \in {"nothing", "end", "list", "signals"}

\* The next operation of the session, or the next call, would be served.
Served == up /\ (HasSession => sess = "open") /\ sessionCheck = "ok"

\* A certificate a list revokes is out, of open sessions too, once that list
\* is max_age old and a fetch takes its time; and where something between
\* answers with old lists, once the lists that do not have it have expired.
\* A KRL placed by hand that has no end is the exception: read again and
\* again it stays current, however old (README.md, trusted as the filesystem
\* that holds it).  Neither outages, nor broken lists, nor 304s, nor a restart, nor that the
\* provider leaves an ended certificate out of its lists, make it longer.
ListRevocationBites ==
  Served /\ "list" \in conf =>
    \A n \in Issued : issues[n].revokes =>
      /\ issues[held].ends \/ ~MayBeEndless => now - issues[n].at <= Validity
      /\ honest /\ source = "url" => now - issues[n].at <= ListMaxAge + FetchTime

\* A list older than one the state file has kept is never believed, across
\* restarts and whatever answers, unless that file is lost.
NeverBackwards == up /\ get # "unknown" => held >= floor

\* A revocation the transmitter was told of having, and has forgotten, is in
\* the state file, until no credential it voids can be left.
AcknowledgedIsKept ==
  \A e \in acked : \A k \in keysOf(emitted[e].subject) :
    kept.entries[k] >= emitted[e].at \/ emitted[e].at < now - Retain

\* What was issued before its person was revoked is served no longer than
\* max_age and a poll's time after, through lost answers, failed writes,
\* redelivery and restarts -- if the event was put on the stream polled.
SignalRevocationBites ==
  Served /\ "signals" \in conf =>
    \A e \in Events :
      /\ keysOf(emitted[e].subject) \cap namedBy # {}
      /\ emitted[e].at > since
      /\ cred.issued <= emitted[e].at
      => now - emitted[e].at <= SignalMaxAge + PollTime

\* A credential refused for good is never served again: not when the store
\* forgets its revocation, nor when the list leaves it out, nor after a
\* restart.
RefusedStaysRefused == refused # "nothing" => ~Served
=============================================================================
