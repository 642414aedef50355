--------------------------- MODULE RevocationList ---------------------------
(***************************************************************************)
(* One revocation list and the copy kept of it: revocation.go, with the    *)
(* KRL of krl_sftp.go and the CRL of nfs_identity.go.                      *)
(*                                                                         *)
(* The provider issues lists, numbered in the order of `older' (a version  *)
(* or CRL number, then the time of issue).  Each says whether it revokes   *)
(* the one certificate this model follows, and whether it ends: one that   *)
(* does lasts Validity, and only a KRL placed by hand may not.  A fetch     *)
(* takes at most FetchTime.  What answers is the provider itself, or       *)
(* something between -- a cache, a mirror, a compromised web server -- that *)
(* may answer with any list ever issued, with nonsense, and with any tag.  *)
(***************************************************************************)
EXTENDS Clock

CONSTANTS MaxIssues,    \* bound: lists the provider issues
          Validity,     \* how long after its issue a list expires
          ListMaxAge,   \* max_age
          FetchTime     \* how long a fetch may take

ASSUME ListAssumption ==
  /\ MaxIssues \in Nat \ {0} /\ Validity \in Nat /\ ListMaxAge \in Nat /\ FetchTime \in Nat

VARIABLES
  issues,    \* the lists issued: number -> when, and whether it revokes and ends
  honest,    \* the provider itself answers
  signed,    \* the list has a detached signature (KRL), or its own (CRL)
  source,    \* "url" or "file"
  held,      \* current and raw: the list held, 0 for nil
  fetched,   \* when it was last confirmed
  etag,      \* the tag of the copy held, 0 for none
  saved,     \* the state file's list, 0 for no file
  fetch,     \* the fetch in progress
  floor      \* history: the newest list the state file has kept, unless lost

listConf == <<honest, signed, source>>
copyVars == <<held, fetched, etag>>
listVars == <<issues, listConf, copyVars, saved, fetch, floor>>

NoList == 0
Broken == -1        \* a body that does not verify or does not parse
Issued == DOMAIN issues
Latest == CHOOSE n \in Issued : \A m \in Issued : m <= n

NoFetch == [at |-> "idle", body |-> NoList, tag |-> 0, tries |-> 0, since |-> Never]

\* sshKRL.expires: a KRL in a file may not say when it expires.  One from a
\* URL is refused unless it does, and so is a CRL.
MayBeEndless == signed /\ source = "file"

ListInit ==
  /\ honest \in BOOLEAN /\ signed \in BOOLEAN /\ source \in {"url", "file"}
  /\ \E r, e \in BOOLEAN : /\ e \/ MayBeEndless
                           /\ issues = [n \in {1} |-> [at |-> now, revokes |-> r, ends |-> e]]
  /\ held = NoList /\ fetched = Never /\ etag = 0
  /\ saved = NoList /\ fetch = NoFetch /\ floor = NoList
-----------------------------------------------------------------------------
\* The provider issues a list.
Issue(r, e) ==
  /\ Latest < MaxIssues
  /\ e \/ MayBeEndless
  /\ issues' = [n \in Issued \cup {Latest + 1} |->
                  IF n = Latest + 1 THEN [at |-> now, revokes |-> r, ends |-> e]
                                    ELSE issues[n]]
  /\ UNCHANGED <<listConf, copyVars, saved, fetch, floor>>

\* get, and what the list then says of the certificate: a list that was
\* never fetched, is older than max_age or has expired says nothing; one
\* without an end is good for max_age after each fetch.
get ==
  IF held = NoList \/ fetched = Never \/ now - fetched > ListMaxAge
     \/ (issues[held].ends /\ now > issues[held].at + Validity)
  THEN "unknown" ELSE IF issues[held].revokes THEN "refused" ELSE "ok"
-----------------------------------------------------------------------------
(***************************************************************************)
(* fetchOnce, step by step; one goroutine fetches.  A failure at any step  *)
(* keeps the copy held, and its age.                                       *)
(***************************************************************************)
FetchAt(step) == up /\ fetch.at = step
FetchEnds == fetch' = NoFetch

\* Only the tag of a copy that is held.
IfNoneMatch == IF held # NoList THEN etag ELSE 0

FetchBegin ==
  /\ FetchAt("idle")
  /\ fetch' = [at |-> "asked", body |-> NoList, tag |-> IfNoneMatch, tries |-> 1, since |-> now]
  /\ UNCHANGED <<issues, listConf, copyVars, saved, floor>>

\* The file named by ssh_krl_file or crl_file holds some list.
ReadFile(n) ==
  /\ FetchAt("asked") /\ source = "file"
  /\ fetch' = [fetch EXCEPT !.at = "read", !.body = n, !.tag = 0]
  /\ UNCHANGED <<issues, listConf, copyVars, saved, floor>>

\* 304: what is held is current -- if something is held.
NotModified ==
  /\ FetchAt("asked") /\ source = "url"
  /\ honest => fetch.tag = Latest
  /\ fetched' = IF held # NoList THEN now ELSE fetched
  /\ FetchEnds
  /\ UNCHANGED <<issues, listConf, held, etag, saved, floor>>

\* Mutant of Answered: the tag is kept before the list is.
AnsweredKeepsTag(n, tag) ==
  /\ FetchAt("asked") /\ source = "url"
  /\ honest => n = Latest /\ tag = n /\ fetch.tag # n
  /\ fetch' = [fetch EXCEPT !.at = "read", !.body = n, !.tag = tag]
  /\ etag' = tag
  /\ UNCHANGED <<issues, listConf, held, fetched, saved, floor>>

\* 200, with a list and a tag.
Answered(n, tag) ==
  /\ FetchAt("asked") /\ source = "url"
  /\ honest => n = Latest /\ tag = n /\ fetch.tag # n
  /\ fetch' = [fetch EXCEPT !.at = "read", !.body = n, !.tag = tag]
  /\ UNCHANGED <<issues, listConf, copyVars, saved, floor>>

\* The same bytes as those held.
Same ==
  /\ FetchAt("read")
  /\ held # NoList /\ fetch.body = held
  /\ fetched' = now /\ etag' = fetch.tag
  /\ FetchEnds
  /\ UNCHANGED <<issues, listConf, held, saved, floor>>

Different == held = NoList \/ fetch.body # held

\* verify: the signature of list n is fetched with If-Match, and is the one
\* of the body read.  A list in a file is not verified.
Verified(n) ==
  /\ FetchAt("read") /\ Different
  /\ signed /\ source = "url"
  /\ honest => n = Latest /\ (fetch.tag # 0 => fetch.tag = n)
  /\ fetch.body = n
  /\ fetch' = [fetch EXCEPT !.at = "verified"]
  /\ UNCHANGED <<issues, listConf, copyVars, saved, floor>>

\* 412: it was issued again meanwhile, and is fetched again, once.
Reissued ==
  /\ FetchAt("read") /\ Different
  /\ signed /\ source = "url"
  /\ fetch.tag # 0 /\ (honest => fetch.tag # Latest)
  /\ IF fetch.tries < 2
     THEN fetch' = [fetch EXCEPT !.at = "asked", !.body = NoList, !.tag = IfNoneMatch, !.tries = 2]
     ELSE FetchEnds
  /\ UNCHANGED <<issues, listConf, copyVars, saved, floor>>

NothingToVerify ==
  /\ FetchAt("read") /\ Different
  /\ ~signed \/ source = "file"
  /\ fetch' = [fetch EXCEPT !.at = "verified"]
  /\ UNCHANGED <<issues, listConf, copyVars, saved, floor>>

\* Mutant of Install: an older list than the one held is taken.
InstallAny ==
  /\ FetchAt("verified") /\ fetch.body # Broken
  /\ held' = fetch.body /\ fetched' = now /\ etag' = fetch.tag
  /\ fetch' = [fetch EXCEPT !.at = "installed"]
  /\ UNCHANGED <<issues, listConf, saved, floor>>

\* It parses, and is not older than the list held: it is the list from here.
Install ==
  /\ FetchAt("verified") /\ fetch.body # Broken
  /\ fetch.body >= held
  /\ held' = fetch.body /\ fetched' = now /\ etag' = fetch.tag
  /\ fetch' = [fetch EXCEPT !.at = "installed"]
  /\ UNCHANGED <<issues, listConf, saved, floor>>

\* The state file, whose failure is said and nothing more.
SaveList ==
  /\ FetchAt("installed")
  /\ saved' = held /\ floor' = held
  /\ FetchEnds
  /\ UNCHANGED <<issues, listConf, copyVars>>

\* A request failed, a body did not verify or parse or was older, the state
\* file was not written, or the time for all of it is up.
FetchFails ==
  /\ up /\ fetch.at # "idle"
  /\ FetchEnds
  /\ UNCHANGED <<issues, listConf, copyVars, saved, floor>>

\* A fetch that takes FetchTime ends before time goes on.
FetchInTime == fetch.at \in {"idle", "installed"} \/ now - fetch.since < FetchTime
-----------------------------------------------------------------------------
\* restore: what was kept orders the next list, and is not current.
restore ==
  /\ held' = saved /\ fetched' = Never /\ etag' = 0
  /\ UNCHANGED <<issues, listConf, saved, fetch, floor>>

\* There is no state file, or it is not one.
restoreNothing ==
  /\ held' = NoList /\ fetched' = Never /\ etag' = 0
  /\ floor' = NoList
  /\ UNCHANGED <<issues, listConf, saved, fetch>>

ListStops ==
  /\ held' = NoList /\ fetched' = Never /\ etag' = 0
  /\ FetchEnds
  /\ UNCHANGED <<issues, listConf, saved, floor>>
-----------------------------------------------------------------------------
Bodies == Issued \cup {Broken}
Tags == {0} \cup Issued

FetchStep ==
  \/ FetchBegin \/ NotModified \/ Same \/ Reissued \/ NothingToVerify
  \/ Install \/ SaveList \/ FetchFails
  \/ \E n \in Bodies : ReadFile(n) \/ \E tag \in Tags : Answered(n, tag)
  \/ \E n \in Issued : Verified(n)

ListTypeOK ==
  /\ issues \in [Issued -> [at : Moments, revokes : BOOLEAN, ends : BOOLEAN]] /\ Issued = 1..Latest
  /\ honest \in BOOLEAN /\ signed \in BOOLEAN /\ source \in {"url", "file"}
  /\ held \in {NoList} \cup Issued /\ saved \in {NoList} \cup Issued
  /\ floor \in {NoList} \cup Issued
  /\ fetched \in Moments /\ etag \in Tags
  /\ fetch \in [at : {"idle", "asked", "read", "verified", "installed"},
                body : {NoList, Broken} \cup Issued, tag : Tags, tries : 0..2, since : Moments]
=============================================================================
