------------------------- MODULE CredentialsProofs -------------------------
(***************************************************************************)
(* Theorems about Credentials, for every validity, max_age, retention and  *)
(* duration, any number of lists and events, and any interleaving of what  *)
(* the provider does with fetches, polls, crashes and restarts.            *)
(***************************************************************************)
EXTENDS Credentials, FiniteSetTheorems, TLAPS

\* Types, with what they leave out: time starts at 1, lists and events are
\* numbered without gaps, and a process that is down holds nothing.
Shape ==
  /\ TypeOK /\ now >= 1
  /\ Latest \in Nat \ {0}
  /\ IsFiniteSet(Events) /\ Events = 1..Cardinality(Events)
  /\ \A n \in Issued : issues[n].at <= now
  /\ \A e \in Events : emitted[e].at \in 1..now
  /\ fetched <= now /\ heard <= now /\ since <= now
  /\ ~up => /\ fetch.at = "idle" /\ poll.at = "down"
            /\ sess = "none" /\ heard = Never

\* Lists are numbered in the order of their issue, a revocation is left out
\* of a later one only once the certificate has ended, and only a KRL in a
\* file has no end.
IssueInv ==
  /\ \A i, j \in Issued : i < j =>
       /\ issues[i].at <= issues[j].at
       /\ issues[i].revokes /\ ~issues[j].revokes => ended
  /\ \A n \in Issued : issues[n].ends \/ MayBeEndless

\* The strengthening of NeverBackwards.
FloorInv == floor <= saved /\ (up => floor <= held)

\* A fetch under way reads a list that is or is not one, and ends in time.
FetchInv ==
  /\ fetch.at \in {"read", "verified"} => fetch.body \in Issued \cup {Broken}
  /\ fetch.at \in {"asked", "read", "verified"} => fetch.since <= now /\ now - fetch.since <= FetchTime

\* What the provider itself answers: the copy held misses no list that was
\* issued longer than a fetch before it was last confirmed, and its tag is
\* the tag of that copy.
HonestInv ==
  honest /\ source = "url" =>
    /\ etag \in {0, held}
    /\ fetch.at = "asked" => fetch.tag \in {0, held}
    /\ fetch.at \in {"read", "verified"} =>
         /\ fetch.body \in Issued /\ fetch.tag = fetch.body
         /\ \A n \in Issued : issues[n].at < fetch.since => n <= fetch.body
    /\ fetched # Never => \A n \in Issued : issues[n].at < fetched - FetchTime => n <= held

ListInv == IssueInv /\ FloorInv /\ FetchInv /\ HonestInv

\* The entries f have what event e revokes, or it is too long ago to matter.
Knows(f, e) ==
  \A k \in keysOf(emitted[e].subject) : f[k] >= emitted[e].at \/ emitted[e].at < now - Retain

\* The strengthening of AcknowledgedIsKept: what is about to be acknowledged
\* is written down too, and memory has what the state file has.
AckInv == \A e \in acked \cup acks : Knows(kept.entries, e) /\ (up => Knows(entries, e))

\* Every event since the stream was made is on it or was acknowledged.
QueueInv ==
  /\ tStream # 0 => \A e \in Events : emitted[e].at > since => e \in queue \cup acked
  /\ tStream = 0 => heard = Never /\ poll.at = "down"

\* A round under way holds, or has written down, all that had happened when it
\* was asked for, and ends in time.
PollInv ==
  poll.at = "consume" =>
    /\ poll.asked <= now /\ now - poll.asked <= PollTime
    /\ \A e \in Events : emitted[e].at > since /\ emitted[e].at < poll.asked =>
         e \in poll.todo \/ Knows(entries, e)

\* A transmitter last heard from at some moment has told all that happened a
\* round's time before it.
HeardInv ==
  heard # Never =>
    \A e \in Events : emitted[e].at > since /\ emitted[e].at < heard - PollTime => Knows(entries, e)

\* A credential ends before a revocation that voids it is forgotten.
LifeInv == "signals" \in conf => expires <= 1 + Retain

SignalInv == AckInv /\ QueueInv /\ PollInv /\ HeardInv /\ LifeInv

\* A revocation at moment t voids the credential.
Voids(t) == t # Never /\ (cred.issued = Never \/ cred.issued <= t)

\* The strengthening of RefusedStaysRefused: until the credential has ended,
\* what it was refused by is on disk, and in memory while the process runs.
RefusedInv ==
  /\ refused = "end" => ended
  /\ refused = "list" => /\ "list" \in conf
                         /\ ended \/ (saved # NoList /\ issues[saved].revokes /\ (up => saved <= held))
  /\ refused = "signals" => /\ "signals" \in conf
                            /\ ended \/ \E k \in namedBy : Voids(kept.entries[k]) /\ (up => Voids(entries[k]))

\* The records of a fetch and of a round.
Fetch == [at : {"idle", "asked", "read", "verified", "installed"},
          body : {NoList, Broken} \cup Issued, tag : Tags, tries : 0..2, since : Moments]
Round == [at : {"down", "idle", "consume", "deliver"},
          sets : SUBSET Events, todo : SUBSET Events, asked : Moments]

\* The latest of the lists 1 to n is n.
LEMMA LatestOf ==
  ASSUME NEW n \in Nat \ {0}
  PROVE  (CHOOSE x \in 1..n : \A y \in 1..n : y <= x) = n
<1>1. n \in 1..n /\ \A y \in 1..n : y <= n
  OBVIOUS
<1>2. \A x \in 1..n : (\A y \in 1..n : y <= x) => x = n
  OBVIOUS
<1> DEFINE P(x) == \A y \in 1..n : y <= x
<1>3. \E x \in 1..n : P(x)
  BY <1>1
<1>4. (CHOOSE x \in 1..n : P(x)) \in 1..n /\ P(CHOOSE x \in 1..n : P(x))
  BY <1>3, Zenon
<1>5. QED
  BY <1>2, <1>4

\* The types hold at the start.
LEMMA ShapeInit == Init => Shape
<1> SUFFICES ASSUME Init PROVE Shape
  OBVIOUS
<1>1. now = 1 /\ MaxTime \in Nat \ {0} /\ now \in Moments /\ Never \in Moments
  BY TimeAssumption DEF Init, Moments, Never
<1>2. PICK r \in BOOLEAN, e \in BOOLEAN : issues = [n \in {1} |-> [at |-> now, revokes |-> r, ends |-> e]]
  BY DEF Init, ListInit
<1>3. Issued = 1..1 /\ Issued = {1} /\ Latest = 1
  <2>1. Issued = 1..1 /\ Issued = {1}
    BY <1>2 DEF Issued
  <2>2. QED
    BY <2>1, LatestOf DEF Latest
<1>4. ListTypeOK /\ \A n \in Issued : issues[n].at <= now
  <2>1. issues \in [Issued -> [at : Moments, revokes : BOOLEAN, ends : BOOLEAN]]
    BY <1>1, <1>2, <1>3
  <2>2. fetch \in Fetch
    BY <1>1, <1>3 DEF Init, ListInit, NoFetch, Fetch, Tags
  <2>3. QED
    BY <1>1, <1>2, <1>3, <2>1, <2>2 DEF Init, ListInit, ListTypeOK, Fetch, Tags, NoList
<1>5. Events = {} /\ IsFiniteSet(Events) /\ Events = 1..Cardinality(Events)
  <2>1. Events = {} /\ emitted \in [Events -> [at : Moments, subject : Subjects]]
    BY DEF Init, SignalsInit, Events
  <2>2. QED
    BY <2>1, FS_EmptySet
<1>6. SignalsTypeOK
  <2>1. emitted \in [Events -> [at : Moments, subject : Subjects]]
    BY DEF Init, SignalsInit, Events
  <2>2. tStream \in 0..MaxStreams
    BY SignalsAssumption DEF Init, SignalsInit
  <2>3. poll \in Round
    BY <1>1 DEF Init, SignalsInit, NoPoll, Round
  <2>4. Empty \in [Keys -> Moments]
    BY <1>1 DEF Empty
  <2>5. QED
    BY <1>1, <2>1, <2>2, <2>3, <2>4 DEF Init, SignalsInit, SignalsTypeOK, Round, IsEntries
<1>7. PICK c \in Configs :
        /\ conf = c[1]
        /\ cred \in [kind : {c[2]}, issued : IF c[2] = "token" THEN {now, Never} ELSE {now},
                     until : {now + Life[c[2]]} \cup IF c[2] = "opk" THEN {MaxTime + 1} ELSE {}]
  BY DEF Init
<1>8. c[1] \subseteq {"list", "signals"} /\ c[2] \in Kinds /\ Life[c[2]] \in Nat
  BY CredentialsAssumption
<1>9. cred.kind \in Kinds /\ cred.issued \in Moments /\ cred.until \in Nat
  BY <1>1, <1>7, <1>8
<1>10. cred \in [kind : Kinds, issued : Moments, until : Nat]
  BY <1>7, <1>9
<1>11. TypeOK
  BY <1>1, <1>4, <1>6, <1>7, <1>8, <1>10 DEF TypeOK, Init
<1>12. QED
  BY <1>1, <1>3, <1>4, <1>5, <1>11 DEF Shape, Init, ListInit, SignalsInit, NoFetch, NoPoll, Never

\* What a new list leaves as it was.
LEMMA IssueIs ==
  ASSUME Shape, NEW r \in BOOLEAN, NEW e \in BOOLEAN, Issue(r, e)
  PROVE  /\ Issued' = Issued \cup {Latest + 1} /\ Latest' = Latest + 1 /\ Latest + 1 \notin Issued
         /\ \A n \in Issued : issues'[n] = issues[n] /\ n <= Latest
         /\ issues'[Latest + 1] = [at |-> now, revokes |-> r, ends |-> e]
         /\ ListTypeOK'
<1>1. Issued = 1..Latest /\ Latest \in Nat \ {0} /\ now \in Moments
  BY DEF Shape, TypeOK, ListTypeOK
<1>2. Issued' = Issued \cup {Latest + 1}
  BY DEF Issue, Issued
<1>3. Issued' = 1..(Latest + 1)
  BY <1>1, <1>2
<1>4. Latest' = Latest + 1
  <2>1. PICK n \in Nat \ {0} : n = Latest + 1
    BY <1>1
  <2>2. Issued' = 1..n
    BY <1>3, <2>1
  <2>3. Latest' = n
    BY <2>2, LatestOf DEF Latest
  <2>4. QED
    BY <2>1, <2>3
<1>5. /\ \A n \in Issued : issues'[n] = issues[n] /\ n <= Latest
      /\ issues'[Latest + 1] = [at |-> now, revokes |-> r, ends |-> e] /\ Latest + 1 \notin Issued
  BY <1>1, <1>2 DEF Issue
<1>6. issues' \in [Issued' -> [at : Moments, revokes : BOOLEAN, ends : BOOLEAN]]
  BY <1>1, <1>2, <1>5 DEF Issue, Shape, TypeOK, ListTypeOK
<1>7. UNCHANGED <<listConf, copyVars, saved, fetch, floor>>
  BY DEF Issue
<1>8. fetch \in Fetch'
  BY <1>2 DEF Shape, TypeOK, ListTypeOK, Fetch, Tags
<1>9. QED
  BY <1>2, <1>3, <1>4, <1>5, <1>6, <1>7, <1>8
  DEF Shape, TypeOK, ListTypeOK, Fetch, Tags, listConf, copyVars

\* A fetch that goes on, field by field.
LEMMA FetchGoesOn ==
  ASSUME NEW f \in Fetch, NEW a \in {"verified", "installed"}, NEW g, g = [f EXCEPT !.at = a]
  PROVE  g \in Fetch /\ g.at = a /\ g.body = f.body /\ g.tag = f.tag /\ g.since = f.since
BY DEF Fetch

\* Each step of a fetch, field by field.
LEMMA FetchIs ==
  ASSUME Shape, FetchStep
  PROVE  /\ fetch' \in Fetch /\ up /\ UNCHANGED <<issues, listConf>>
         /\ \/ fetch' = NoFetch
            \/ /\ FetchBegin \/ Reissued
               /\ fetch'.at = "asked" /\ fetch'.tag = IfNoneMatch
               /\ IF FetchBegin THEN fetch'.since = now ELSE fetch'.since = fetch.since
            \/ /\ fetch'.at = "read" /\ fetch'.body \in Bodies /\ fetch'.since = fetch.since
               /\ \/ ReadFile(fetch'.body) /\ fetch'.tag = 0
                  \/ Answered(fetch'.body, fetch'.tag)
            \/ /\ fetch.at = "read" /\ fetch'.at = "verified"
               /\ fetch'.body = fetch.body /\ fetch'.tag = fetch.tag /\ fetch'.since = fetch.since
               /\ UNCHANGED <<copyVars, saved, floor>>
            \/ Install /\ fetch'.at = "installed"
<1>1. fetch \in Fetch /\ now \in Moments /\ etag \in Tags
  BY DEF Shape, TypeOK, ListTypeOK, Fetch
<1>2. NoFetch \in Fetch /\ IfNoneMatch \in Tags
  BY <1>1, TimeAssumption DEF NoFetch, Fetch, IfNoneMatch, Tags, Moments, Never
<1>3. up /\ UNCHANGED <<issues, listConf>>
  BY DEF FetchStep, FetchAt, FetchBegin, NotModified, Same, Reissued, NothingToVerify, Install, SaveList,
         FetchFails, ReadFile, Answered, Verified
<1>4. CASE FetchBegin
  BY <1>1, <1>2, <1>3, <1>4 DEF FetchBegin, Fetch
<1>5. CASE NotModified \/ Same \/ SaveList \/ FetchFails
  BY <1>1, <1>2, <1>3, <1>5 DEF NotModified, Same, SaveList, FetchFails, FetchEnds
<1>6. CASE Reissued
  <2>1. CASE fetch.tries < 2
    <3>1. fetch' = [fetch EXCEPT !.at = "asked", !.body = NoList, !.tag = IfNoneMatch, !.tries = 2]
      BY <1>6, <2>1 DEF Reissued
    <3>2. fetch' \in Fetch /\ fetch'.at = "asked" /\ fetch'.tag = IfNoneMatch /\ fetch'.since = fetch.since
      <4>1. 2 \in 0..2 /\ NoList \in {NoList, Broken} \cup Issued
        OBVIOUS
      <4>2. QED
        BY ONLY <1>1, <1>2, <3>1, <4>1 DEF Fetch
    <3>3. ~FetchBegin
      BY <1>6 DEF Reissued, FetchBegin, FetchAt
    <3>4. QED
      BY <1>3, <1>6, <3>2, <3>3
  <2>2. CASE ~(fetch.tries < 2)
    BY <1>2, <1>3, <1>6, <2>2 DEF Reissued, FetchEnds
  <2>3. QED
    BY <2>1, <2>2
<1>7. CASE \E n \in Bodies : ReadFile(n)
  <2>1. PICK n \in Bodies : ReadFile(n)
    BY <1>7
  <2>2. /\ fetch' \in Fetch /\ fetch'.at = "read" /\ fetch'.body = n /\ fetch'.tag = 0
        /\ fetch'.since = fetch.since
    <3>1. n \in {NoList, Broken} \cup Issued /\ 0 \in Tags
      BY DEF Bodies, Tags
    <3>2. fetch' = [fetch EXCEPT !.at = "read", !.body = n, !.tag = 0]
      BY <2>1 DEF ReadFile
    <3>3. QED
      BY ONLY <1>1, <3>1, <3>2 DEF Fetch
  <2>3. QED
    BY <1>3, <2>1, <2>2
<1>8. CASE \E n \in Bodies : \E tag \in Tags : Answered(n, tag)
  <2>1. PICK n \in Bodies, tag \in Tags : Answered(n, tag)
    BY <1>8
  <2>2. /\ fetch' \in Fetch /\ fetch'.at = "read" /\ fetch'.body = n /\ fetch'.tag = tag
        /\ fetch'.since = fetch.since
    <3>1. n \in {NoList, Broken} \cup Issued /\ tag \in Tags
      BY DEF Bodies
    <3>2. fetch' = [fetch EXCEPT !.at = "read", !.body = n, !.tag = tag]
      BY <2>1 DEF Answered
    <3>3. QED
      BY ONLY <1>1, <3>1, <3>2 DEF Fetch
  <2>3. QED
    BY <1>3, <2>1, <2>2
<1>9. CASE NothingToVerify \/ \E n \in Issued : Verified(n)
  <2>1. fetch' = [fetch EXCEPT !.at = "verified"] /\ fetch.at = "read" /\ UNCHANGED <<copyVars, saved, floor>>
    BY <1>9 DEF NothingToVerify, Verified, FetchAt
  <2>2. QED
    BY <1>1, <1>3, <2>1, FetchGoesOn
<1>10. CASE Install
  <2>1. fetch' = [fetch EXCEPT !.at = "installed"]
    BY <1>10 DEF Install
  <2>2. QED
    BY <1>1, <1>3, <1>10, <2>1, FetchGoesOn
<1>11. QED
  BY <1>4, <1>5, <1>6, <1>7, <1>8, <1>9, <1>10 DEF FetchStep

\* Time only brings the end of a credential nearer.
LEMMA EndedStays ==
  ASSUME Shape, now' \in Moments, now <= now', UNCHANGED cred, ended
  PROVE  ended'
<1>1. now \in Int /\ now' \in Int
  BY TimeAssumption DEF Shape, TypeOK, Moments
<1>2. cred.issued \in Int /\ cred.until \in Int /\ OpkMaxAge \in Int
  BY TimeAssumption, CredentialsAssumption DEF Shape, TypeOK, Moments
<1>3. expires \in Int /\ expires' = expires
  BY <1>2 DEF expires
<1>4. QED
  BY <1>1, <1>3 DEF ended

\* The types of the list's variables through the steps of a fetch.
LEMMA FetchTyped ==
  ASSUME Shape, ListInv, FetchStep
  PROVE  ListTypeOK' /\ fetched' \in {fetched, now} /\ Latest' = Latest /\ Issued' = Issued
<1>1. fetch' \in Fetch /\ UNCHANGED <<issues, listConf>>
  BY FetchIs
<1>2. Issued' = Issued /\ Latest' = Latest /\ Tags' = Tags /\ Fetch' = Fetch
  BY <1>1 DEF Issued, Latest, Tags, Fetch
<1>3. fetch \in Fetch /\ now \in Moments /\ held \in {NoList} \cup Issued
  BY DEF Shape, TypeOK, ListTypeOK, Fetch
<1>4. held' \in {NoList} \cup Issued
  <2>1. CASE Install
    BY <1>3, <2>1 DEF Install, FetchAt, ListInv, FetchInv
  <2>2. CASE ~Install
    BY <1>3, <2>2
    DEF FetchStep, FetchBegin, NotModified, Same, Reissued, NothingToVerify, SaveList,
        FetchFails, ReadFile, Answered, Verified, copyVars
  <2>3. QED
    BY <2>1, <2>2
<1>5. fetched' \in {fetched, now} /\ etag' \in {etag, fetch.tag} /\ saved' \in {saved, held} /\ floor' \in {floor, held}
  BY DEF FetchStep, FetchBegin, NotModified, Same, Reissued, NothingToVerify, SaveList, Install,
         FetchFails, ReadFile, Answered, Verified, copyVars
<1>6. etag' \in Tags /\ fetched' \in Moments /\ saved' \in {NoList} \cup Issued /\ floor' \in {NoList} \cup Issued
  BY <1>3, <1>5 DEF Shape, TypeOK, ListTypeOK, Fetch
<1>7. QED
  BY <1>1, <1>2, <1>4, <1>5, <1>6 DEF Shape, TypeOK, ListTypeOK, Fetch, listConf

\* A fetch keeps what the list's variables fulfil.
LEMMA FetchKeeps ==
  ASSUME Shape, ListInv, FetchStep, UNCHANGED <<now, up, cred>>
  PROVE  ListInv'
<1>0. /\ Issued' = Issued /\ Latest' = Latest /\ UNCHANGED <<issues, honest, signed, source>>
      /\ Issued \subseteq Nat \ {0} /\ Latest \in Issued /\ \A n \in Issued : n <= Latest
      /\ held \in {NoList} \cup Issued /\ saved \in {NoList} \cup Issued /\ floor \in {NoList} \cup Issued
      /\ fetch \in Fetch
  BY FetchTyped, FetchIs DEF Shape, TypeOK, ListTypeOK, listConf, Fetch
<1>1. /\ now \in Int /\ fetched \in Int /\ fetch.since \in Int /\ fetched <= now
      /\ FetchTime \in Nat /\ \A n \in Issued : issues[n].at \in Int /\ issues[n].at <= now
  BY TimeAssumption, ListAssumption DEF Shape, TypeOK, ListTypeOK, Moments
<1>2. IssueInv'
  <2>1. ended' <=> ended
    BY DEF ended, expires
  <2>2. QED
    BY <1>0, <2>1 DEF ListInv, IssueInv, MayBeEndless
<1>3. FloorInv'
  <2>1. CASE SaveList
    BY <1>0, <2>1 DEF SaveList, copyVars, FloorInv, NoList
  <2>2. CASE Install
    BY <1>0, <2>2 DEF Install, FloorInv, ListInv, NoList, FetchInv, Broken, Fetch
  <2>3. CASE ~SaveList /\ ~Install
    BY <2>3
    DEF FetchStep, FetchBegin, NotModified, Same, Reissued, NothingToVerify, FetchFails, ReadFile,
        Answered, Verified, copyVars, FloorInv, ListInv
  <2>4. QED
    BY <2>1, <2>2, <2>3
<1>4. FetchInv'
  <2>1. CASE FetchBegin
    BY <1>1, <2>1 DEF FetchBegin, FetchInv
  <2>2. CASE ~FetchBegin
    BY <1>0, <1>1, <2>2, FetchIs
    DEF Reissued, ReadFile, Answered, FetchAt, NoFetch, FetchInv, ListInv, Bodies
  <2>3. QED
    BY <2>1, <2>2
<1>5. HonestInv'
  <2> SUFFICES ASSUME honest, source = "url" PROVE HonestInv'
    BY <1>0 DEF HonestInv
  <2>0. /\ etag \in {0, held} /\ (fetch.at = "asked" => fetch.tag \in {0, held})
        /\ fetch.at \in {"read", "verified"} =>
             /\ fetch.body \in Issued /\ fetch.tag = fetch.body
             /\ \A n \in Issued : issues[n].at < fetch.since => n <= fetch.body
        /\ fetched # Never => \A n \in Issued : issues[n].at < fetched - FetchTime => n <= held
        /\ fetch.at \in {"asked", "read", "verified"} => fetch.since <= now /\ now - fetch.since <= FetchTime
    BY DEF ListInv, HonestInv, FetchInv
  <2>1. CASE Install
    BY <1>0, <1>1, <2>0, <2>1, FetchIs DEF Install, FetchAt, HonestInv, NoFetch
  <2>2. CASE Same
    BY <1>0, <1>1, <2>0, <2>2 DEF Same, FetchAt, FetchEnds, NoFetch, HonestInv
  <2>3. CASE NotModified
    <3>1. held' = held /\ etag' = etag /\ fetch'.at = "idle"
      BY <2>3 DEF NotModified, FetchEnds, NoFetch
    <3>2. fetch.tag = held /\ held = Latest
      BY <1>0, <2>0, <2>3 DEF NotModified, FetchAt
    <3>3. \A n \in Issued : n <= held
      BY <1>0, <3>2
    <3>4. QED
      BY <1>0, <2>0, <3>1, <3>3 DEF HonestInv
  <2>4. CASE SaveList \/ FetchFails
    BY <1>0, <2>0, <2>4 DEF SaveList, FetchFails, FetchEnds, NoFetch, copyVars, HonestInv
  <2>5. CASE FetchBegin \/ Reissued
    <3>1. UNCHANGED <<held, fetched, etag>> /\ IfNoneMatch \in {0, held}
      BY <2>0, <2>5 DEF FetchBegin, Reissued, copyVars, IfNoneMatch
    <3>2. fetch'.at = "idle" \/ (fetch'.at = "asked" /\ fetch'.tag = IfNoneMatch)
      <4>1. CASE fetch' = [fetch EXCEPT !.at = "asked", !.body = NoList, !.tag = IfNoneMatch, !.tries = 2]
        BY ONLY <1>0, <4>1 DEF Fetch
      <4>2. QED
        BY <2>5, <4>1 DEF FetchBegin, Reissued, FetchEnds, NoFetch
    <3>3. QED
      BY <1>0, <2>0, <3>1, <3>2 DEF HonestInv
  <2>6. CASE NothingToVerify \/ \E n \in Issued : Verified(n)
    <3>1. UNCHANGED <<held, fetched, etag>> /\ fetch.at = "read" /\ fetch' = [fetch EXCEPT !.at = "verified"]
      BY <2>6 DEF NothingToVerify, Verified, FetchAt, copyVars
    <3>2. fetch'.at = "verified" /\ fetch'.body = fetch.body /\ fetch'.tag = fetch.tag /\ fetch'.since = fetch.since
      BY <1>0, <3>1, FetchGoesOn
    <3>3. QED
      BY <1>0, <2>0, <3>1, <3>2 DEF HonestInv
  <2>7. CASE \E n \in Bodies : ReadFile(n) \/ \E tag \in Tags : Answered(n, tag)
    <3>1. PICK n \in Bodies, tag \in Tags : Answered(n, tag)
      BY <2>7 DEF ReadFile
    <3>2. n = Latest /\ tag = n /\ UNCHANGED <<held, fetched, etag>>
      BY <3>1 DEF Answered, copyVars
    <3>3. fetch'.at = "read" /\ fetch'.body = n /\ fetch'.tag = tag
      BY <1>0, <3>1 DEF Answered, Fetch
    <3>4. QED
      BY <1>0, <2>0, <3>2, <3>3 DEF HonestInv
  <2>8. QED
    BY <2>1, <2>2, <2>3, <2>4, <2>5, <2>6, <2>7 DEF FetchStep
<1>6. QED
  BY <1>2, <1>3, <1>4, <1>5 DEF ListInv

\* A new list keeps what the list's variables fulfil: it revokes what the
\* last one did, unless the certificate has ended.
LEMMA IssueKeeps ==
  ASSUME Shape, ListInv, NEW r \in BOOLEAN, NEW e \in BOOLEAN, Issue(r, e), issues[Latest].revokes /\ ~ended => r,
         UNCHANGED <<now, up, cred>>
  PROVE  ListInv'
<1>0. /\ Issued' = Issued \cup {Latest + 1} /\ Latest \in Issued /\ Latest + 1 \notin Issued
      /\ \A n \in Issued : issues'[n] = issues[n] /\ n <= Latest
      /\ issues'[Latest + 1].at = now /\ issues'[Latest + 1].revokes = r
      /\ issues'[Latest + 1].ends \/ MayBeEndless
      /\ UNCHANGED <<honest, signed, source, held, fetched, etag, saved, fetch, floor>>
      /\ Issued \subseteq Nat \ {0} /\ fetch \in Fetch
  <2>1. fetch \in Fetch
    BY DEF Shape, TypeOK, ListTypeOK, Fetch
  <2>2. UNCHANGED <<honest, signed, source, held, fetched, etag, saved, fetch, floor>>
    BY DEF Issue, listConf, copyVars
  <2>3. e \/ MayBeEndless
    BY DEF Issue
  <2>4. /\ Issued' = Issued \cup {Latest + 1} /\ Latest + 1 \notin Issued
        /\ \A n \in Issued : issues'[n] = issues[n] /\ n <= Latest
        /\ issues'[Latest + 1] = [at |-> now, revokes |-> r, ends |-> e]
    BY IssueIs, Zenon
  <2>5. Latest \in Issued /\ Issued \subseteq Nat \ {0}
    BY DEF Shape, TypeOK, ListTypeOK
  <2>6. QED
    BY ONLY <2>1, <2>2, <2>3, <2>4, <2>5
<1>1. /\ now \in Int /\ fetched \in Int /\ fetch.since \in Int /\ fetched <= now
      /\ FetchTime \in Nat /\ \A n \in Issued : issues[n].at \in Int /\ issues[n].at <= now
  BY TimeAssumption, ListAssumption DEF Shape, TypeOK, ListTypeOK, Moments
<1>2. IssueInv'
  <2>1. ended' <=> ended
    BY DEF ended, expires
  <2>2. SUFFICES ASSUME NEW i \in Issued', NEW j \in Issued', i < j
                 PROVE  /\ issues'[i].at <= issues'[j].at
                        /\ issues'[i].revokes /\ ~issues'[j].revokes => ended
    <3>1. \A n \in Issued' : issues'[n].ends \/ MayBeEndless'
      BY <1>0 DEF ListInv, IssueInv, MayBeEndless
    <3>2. QED
      BY <2>1, <3>1 DEF IssueInv
  <2>3. CASE j \in Issued
    <3>1. j <= Latest /\ Latest \in Int /\ j \in Int /\ i \in Issued \cup {Latest + 1}
      BY <1>0, <2>2, <2>3
    <3>2. i \in Issued
      BY <2>2, <3>1
    <3>3. /\ issues[i].at <= issues[j].at
          /\ issues[i].revokes /\ ~issues[j].revokes => ended
      BY <2>2, <2>3, <3>2 DEF ListInv, IssueInv
    <3>4. QED
      BY <1>0, <2>3, <3>2, <3>3
  <2>4. CASE j = Latest + 1
    <3>1. i \in Issued /\ i <= Latest
      <4>1. Latest \in Int /\ i \in Issued \cup {Latest + 1} /\ i < Latest + 1
        BY <1>0, <2>2, <2>4
      <4>2. i # Latest + 1
        BY ONLY <4>1
      <4>3. QED
        BY <1>0, <4>1, <4>2
    <3>2. issues[i].revokes /\ ~issues[Latest].revokes => ended
      BY <1>0, <3>1 DEF ListInv, IssueInv
    <3>3. QED
      BY <1>0, <1>1, <2>4, <3>1, <3>2
  <2>5. QED
    BY <1>0, <2>3, <2>4
<1>3. FloorInv'
  BY <1>0 DEF ListInv, FloorInv
<1>4. FetchInv'
  BY <1>0 DEF ListInv, FetchInv
<1>5. HonestInv'
  BY <1>0, <1>1 DEF ListInv, HonestInv, FetchInv
<1>6. QED
  BY <1>2, <1>3, <1>4, <1>5 DEF ListInv

\* The clock keeps it, since no fetch outlives its time.
LEMMA TickKeepsList ==
  ASSUME Shape, ListInv, Tick
  PROVE  ListInv'
<1>0. /\ UNCHANGED <<up, cred, issues, honest, signed, source, held, fetched, etag, saved, fetch, floor>>
      /\ now' = now + 1 /\ now' \in Moments /\ FetchInTime
  BY TimeAssumption DEF Tick, listVars, listConf, copyVars, Shape, TypeOK, Moments
<1>1. now \in Int /\ fetch.since \in Int /\ FetchTime \in Nat /\ Issued' = Issued
  BY <1>0, TimeAssumption, ListAssumption DEF Shape, TypeOK, ListTypeOK, Moments, Issued
<1>2. ended => ended'
  BY <1>0, <1>1, EndedStays
<1>3. IssueInv'
  BY <1>0, <1>1, <1>2 DEF ListInv, IssueInv, MayBeEndless
<1>4. FloorInv' /\ HonestInv'
  BY <1>0, <1>1 DEF ListInv, FloorInv, HonestInv
<1>5. FetchInv'
  BY <1>0, <1>1 DEF ListInv, FetchInv, FetchInTime
<1>6. QED
  BY <1>3, <1>4, <1>5 DEF ListInv

\* Stopping and starting keep it.
LEMMA RestartKeepsList ==
  ASSUME Shape, ListInv, UNCHANGED <<now, cred>>,
         (ListStops /\ ~up') \/ ((restore \/ restoreNothing) /\ ~up /\ up')
  PROVE  ListInv'
<1>0. /\ UNCHANGED <<issues, honest, signed, source, saved>> /\ Issued' = Issued
      /\ fetched' = Never /\ etag' = 0 /\ fetch'.at = "idle"
  BY DEF ListStops, restore, restoreNothing, listConf, FetchEnds, NoFetch, Shape, Issued
<1>1. IssueInv'
  <2>1. ended' <=> ended
    BY DEF ended, expires
  <2>2. QED
    BY <1>0, <2>1 DEF ListInv, IssueInv, MayBeEndless
<1>2. FloorInv'
  <2>1. saved \in Nat /\ floor \in Nat
    BY DEF Shape, TypeOK, ListTypeOK, NoList
  <2>2. QED
    BY <2>1 DEF ListInv, FloorInv, ListStops, restore, restoreNothing, NoList
<1>3. FetchInv' /\ HonestInv'
  BY <1>0 DEF FetchInv, HonestInv
<1>4. QED
  BY <1>1, <1>2, <1>3 DEF ListInv

\* A subject is kept under keys.
LEMMA KeysOfAreKeys == \A x : keysOf(x) \subseteq Keys
BY DEF keysOf, Keys

\* What writing event e down leaves of the entries: none goes back, and none
\* goes but those that are too old to matter; e itself is among them.
LEMMA RevokedIs ==
  ASSUME Shape, NEW e \in Events
  PROVE  /\ revoked(e) \in [Keys -> Moments]
         /\ \A k \in Keys : revoked(e)[k] >= entries[k] \/ entries[k] < now - Retain
         /\ Knows(revoked(e), e)
         /\ \A d \in Events : Knows(entries, d) => Knows(revoked(e), d)
<1>0. /\ entries \in [Keys -> Moments] /\ emitted[e].at \in Moments /\ now \in Int /\ Retain \in Nat
      /\ Moments \subseteq Int /\ Never \in Moments /\ Never = 0 /\ \A t \in Moments : t >= 0
      /\ \A d \in Events : emitted[d].at \in Moments
  BY TimeAssumption, SignalsAssumption DEF Shape, TypeOK, SignalsTypeOK, IsEntries, Moments, Never
<1> DEFINE g == [k \in Keys |-> IF k \in keysOf(emitted[e].subject) /\ emitted[e].at > entries[k]
                                THEN emitted[e].at ELSE entries[k]]
<1>1. revoked(e) = [k \in Keys |-> IF g[k] < now - Retain THEN Never ELSE g[k]]
  BY DEF revoked, prune
<1>2. g \in [Keys -> Moments] /\ \A k \in Keys : g[k] >= entries[k]
  <2>1. ASSUME NEW k \in Keys PROVE g[k] \in Moments /\ g[k] >= entries[k]
    <3>1. entries[k] \in Moments /\ entries[k] \in Int /\ emitted[e].at \in Int
      BY <1>0
    <3>2. QED
      BY <1>0, <3>1
  <2>2. QED
    BY <2>1
<1>3. \A k \in keysOf(emitted[e].subject) : g[k] >= emitted[e].at
  <2>1. ASSUME NEW k \in keysOf(emitted[e].subject) PROVE g[k] >= emitted[e].at
    <3>1. k \in Keys /\ entries[k] \in Int /\ emitted[e].at \in Int
      BY <1>0, KeysOfAreKeys
    <3>2. QED
      BY <3>1
  <2>2. QED
    BY <2>1
<1> HIDE DEF g
<1>4. revoked(e) \in [Keys -> Moments]
  BY <1>0, <1>1, <1>2
<1>5. \A k \in Keys : revoked(e)[k] = g[k] \/ g[k] < now - Retain
  BY <1>1
<1>6. \A k \in Keys : g[k] \in Int /\ entries[k] \in Int
  BY <1>0, <1>2
<1>7. \A k \in Keys : revoked(e)[k] >= entries[k] \/ entries[k] < now - Retain
  BY <1>0, <1>2, <1>5, <1>6
<1>8. Knows(revoked(e), e)
  <2>1. SUFFICES ASSUME NEW k \in keysOf(emitted[e].subject)
                 PROVE  revoked(e)[k] >= emitted[e].at \/ emitted[e].at < now - Retain
    BY DEF Knows
  <2>2. k \in Keys /\ g[k] >= emitted[e].at /\ g[k] \in Int /\ emitted[e].at \in Int
    BY <1>0, <1>3, <1>6, KeysOfAreKeys
  <2>3. QED
    BY <1>0, <1>5, <2>2
<1>9. ASSUME NEW d \in Events, Knows(entries, d) PROVE Knows(revoked(e), d)
  <2>1. SUFFICES ASSUME NEW k \in keysOf(emitted[d].subject), ~(emitted[d].at < now - Retain)
                 PROVE  revoked(e)[k] >= emitted[d].at
    BY DEF Knows
  <2>2. k \in Keys /\ entries[k] >= emitted[d].at
    BY <1>9, <2>1, KeysOfAreKeys DEF Knows
  <2>3. g[k] >= emitted[d].at /\ g[k] \in Int /\ emitted[d].at \in Int
    <3>1. g[k] \in Int /\ entries[k] \in Int /\ emitted[d].at \in Int /\ g[k] >= entries[k]
      BY <1>0, <1>2, <1>6, <2>2
    <3>2. QED
      BY <2>2, <3>1
  <2>4. QED
    BY <1>0, <1>5, <2>1, <2>2, <2>3
<1>10. QED
  BY <1>4, <1>7, <1>8, <1>9

\* What a step of the receiver does to the store.
LEMMA PollIs ==
  ASSUME Shape, PollStep
  PROVE  /\ up /\ UNCHANGED emitted
         /\ entries' = entries \/ \E e \in Events : entries' = revoked(e)
         /\ kept' = kept \/ kept' = [entries |-> entries', stream |-> stream']
         /\ IF \E saves \in BOOLEAN : StreamMade(saves)
              THEN since' = now /\ stream' = tStream' /\ tStream' \in 1..MaxStreams
              ELSE UNCHANGED <<since, stream, tStream>>
         /\ heard' = heard \/ HeardFrom
<1>1. up /\ UNCHANGED emitted
  BY DEF PollStep, StreamKept, Poll, PollLost, HeardFrom, Delivered, StreamMade, Consume, ConsumeFails,
         Deliver, DeliverFails, providerVars
<1>2. entries' = entries \/ \E e \in Events : entries' = revoked(e)
  BY DEF PollStep, StreamKept, Poll, PollLost, HeardFrom, Delivered, StreamMade, Consume, ConsumeFails,
         Deliver, DeliverFails, storeVars
<1>3. kept' = kept \/ kept' = [entries |-> entries', stream |-> stream']
  BY DEF PollStep, StreamKept, Poll, PollLost, HeardFrom, Delivered, StreamMade, Consume, ConsumeFails,
         Deliver, DeliverFails, storeVars, save, saveFails
<1>4. CASE \E saves \in BOOLEAN : StreamMade(saves)
  <2>1. tStream \in 0..MaxStreams /\ MaxStreams \in Nat
    BY SignalsAssumption DEF Shape, TypeOK, SignalsTypeOK
  <2>2. tStream < MaxStreams /\ since' = now /\ stream' = tStream' /\ tStream' = tStream + 1 /\ heard' = heard
    BY <1>4 DEF StreamMade
  <2>3. QED
    BY <1>1, <1>2, <1>3, <1>4, <2>1, <2>2
<1>5. CASE ~ \E saves \in BOOLEAN : StreamMade(saves)
  <2>1. UNCHANGED <<since, stream, tStream>> /\ (heard' = heard \/ HeardFrom)
    BY <1>5 DEF PollStep, StreamKept, Poll, PollLost, HeardFrom, Delivered, Consume, ConsumeFails,
         Deliver, DeliverFails, storeVars, providerVars
  <2>2. QED
    BY <1>1, <1>2, <1>3, <1>5, <2>1
<1>6. QED
  BY <1>4, <1>5

\* The types of the signals' variables through the steps of the receiver.
LEMMA PollTyped ==
  ASSUME Shape, PollStep
  PROVE  SignalsTypeOK' /\ heard' \in {heard, now} /\ since' \in {since, now}
<1>0. /\ entries \in [Keys -> Moments] /\ kept.entries \in [Keys -> Moments] /\ now \in Moments
      /\ kept.stream \in 0..MaxStreams /\ stream \in 0..MaxStreams /\ tStream \in 0..MaxStreams
      /\ poll \in Round /\ queue \subseteq Events /\ acks \subseteq Events /\ acked \subseteq Events
      /\ since \in Moments /\ heard \in Moments /\ MaxStreams \in Nat
  BY SignalsAssumption DEF Shape, TypeOK, SignalsTypeOK, IsEntries, Round
<1>1. entries' \in [Keys -> Moments]
  BY <1>0, PollIs, RevokedIs
<1>2. since' \in {since, now} /\ stream' \in 0..MaxStreams /\ tStream' \in 0..MaxStreams
  BY <1>0, PollIs
<1>3. kept'.entries \in [Keys -> Moments] /\ kept'.stream \in 0..MaxStreams
  BY <1>0, <1>1, <1>2, PollIs
<1>4. heard' \in {heard, now}
  BY PollIs DEF HeardFrom
<1>5. queue' \subseteq Events /\ acked' \subseteq Events /\ acks' \subseteq Events
  BY <1>0 DEF PollStep, StreamKept, Poll, PollLost, HeardFrom, Delivered, StreamMade, Consume, ConsumeFails,
         Deliver, DeliverFails, providerVars
<1>6. poll' \in Round
  <2>1. NoPoll \in Round /\ [NoPoll EXCEPT !.at = "idle"] \in Round /\ [poll EXCEPT !.at = "idle"] \in Round
    BY <1>0, TimeAssumption DEF NoPoll, Round, Moments, Never
  <2>2. \A e : [poll EXCEPT !.todo = @ \ {e}] \in Round
    BY <1>0 DEF Round
  <2>3. CASE Poll \/ HeardFrom
    BY <1>0, <1>5, <2>3, TimeAssumption DEF Poll, HeardFrom, Round, Moments, Never
  <2>4. CASE ~Poll /\ ~HeardFrom
    BY <1>0, <2>1, <2>2, <2>4
    DEF PollStep, StreamKept, PollLost, Delivered, StreamMade, Consume, ConsumeFails,
         Deliver, DeliverFails, RoundFails
  <2>5. QED
    BY <2>3, <2>4
<1>7. Events' = Events /\ UNCHANGED emitted
  BY PollIs DEF Events
<1>8. QED
  BY <1>0, <1>1, <1>2, <1>3, <1>4, <1>5, <1>6, <1>7 DEF Shape, TypeOK, SignalsTypeOK, IsEntries, Round

\* A new event leaves the earlier ones as they were.
LEMMA EmitIs ==
  ASSUME Shape, NEW x \in Subjects, Emit(x)
  PROVE  /\ IsFiniteSet(Events)' /\ (Events = 1..Cardinality(Events))'
         /\ Events \subseteq Events' /\ \A e \in Events : emitted'[e] = emitted[e]
         /\ \A e \in Events' : e \in Events \/ emitted'[e].at = now
         /\ tStream # 0 => \A e \in Events' : e \in Events \/ e \in queue'
         /\ queue \subseteq queue' /\ UNCHANGED <<tStream, since, acked, storeVars, poll, acks>>
         /\ SignalsTypeOK'
<1>1. PICK n : n = Cardinality(Events) + 1
  OBVIOUS
<1>2. /\ emitted' = [e \in Events \cup {n} |-> IF e = n THEN [at |-> now, subject |-> x] ELSE emitted[e]]
      /\ queue' = IF tStream # 0 THEN queue \cup {n} ELSE queue
      /\ UNCHANGED <<tStream, since, acked, storeVars, poll, acks>>
  BY <1>1 DEF Emit
<1>3. Cardinality(Events) \in Nat /\ IsFiniteSet(Events)
  BY FS_CardinalityType DEF Shape
<1>4. n \notin Events /\ n \in Nat /\ Events \cup {n} = 1..n
  BY <1>1, <1>3 DEF Shape
<1>5. Events' = Events \cup {n}
  BY <1>2 DEF Events
<1>6. IsFiniteSet(Events)' /\ (Events = 1..Cardinality(Events))'
  <2>1. IsFiniteSet(1..n) /\ Cardinality(1..n) = n
    BY <1>4, FS_Interval
  <2>2. QED
    BY <1>4, <1>5, <2>1
<1>7. \A e \in Events : emitted'[e] = emitted[e]
  BY <1>2, <1>4
<1>8. emitted'[n] = [at |-> now, subject |-> x]
  BY <1>2
<1>9. emitted' \in [Events' -> [at : Moments, subject : Subjects]]
  BY <1>2, <1>5, <1>7, <1>8 DEF Shape, TypeOK, SignalsTypeOK
<1>10. queue' \subseteq Events' /\ poll \in Round'
  BY <1>2, <1>5 DEF Shape, TypeOK, SignalsTypeOK, Round
<1>11. SignalsTypeOK'
  BY <1>2, <1>5, <1>9, <1>10 DEF Shape, TypeOK, SignalsTypeOK, Round, IsEntries, storeVars
<1>12. QED
  BY <1>2, <1>5, <1>6, <1>7, <1>8, <1>11

\* Every variable keeps its type.
LEMMA ShapeKept == Shape /\ ListInv /\ [Next]_vars => Shape'
<1> SUFFICES ASSUME Shape, ListInv, [Next]_vars PROVE Shape'
  OBVIOUS
<1>0. /\ now \in Moments /\ now \in Int /\ ListTypeOK /\ SignalsTypeOK /\ Never \in Moments
      /\ Latest \in Nat \ {0} /\ fetched \in Int /\ heard \in Int /\ since \in Int
      /\ \A n \in Issued : issues[n].at \in Int /\ issues[n].at <= now
      /\ \A e \in Events : emitted[e].at \in Int /\ emitted[e].at \in 1..now
  BY TimeAssumption DEF Shape, TypeOK, ListTypeOK, SignalsTypeOK, Moments, Never
<1>1. ASSUME UNCHANGED listVars
      PROVE  ListTypeOK' /\ Latest' = Latest /\ fetched' = fetched /\ fetch' = fetch /\ Issued' = Issued /\ issues' = issues
  <2>1. /\ UNCHANGED <<issues, honest, signed, source, held, fetched, etag, saved, fetch, floor>>
        /\ Issued' = Issued /\ Latest' = Latest /\ Tags' = Tags
    BY <1>1 DEF listVars, listConf, copyVars, Latest, Issued, Tags
  <2>2. QED
    BY <1>0, <2>1 DEF ListTypeOK
<1>2. ASSUME UNCHANGED signalVars
      PROVE  /\ SignalsTypeOK' /\ Events' = Events
             /\ UNCHANGED <<emitted, heard, since, poll>>
  BY <1>0, <1>2 DEF signalVars, providerVars, storeVars, SignalsTypeOK, Events, IsEntries
<1>3. refused' \in {"nothing", "end", "list", "signals"}
  BY DEF Next, Login, Operation, Call, Logout, ProviderIssues, ProviderRevokes, ListRuns, SignalsRun, Tick,
         Crash, Start, Note, vars, Shape, TypeOK
<1>4. sess' \in {"none", "open", "over"} /\ up' \in BOOLEAN /\ UNCHANGED <<conf, cred>>
  BY DEF Next, Login, Operation, Call, Logout, ProviderIssues, ProviderRevokes, ListRuns, SignalsRun, Tick,
         Crash, Start, vars, Shape, TypeOK
<1>5. ASSUME UNCHANGED <<now, up, listVars, signalVars>>, up \/ sess' = "none" PROVE Shape'
  BY <1>1, <1>2, <1>3, <1>4, <1>5 DEF Shape, TypeOK
<1>6. CASE Login \/ Operation \/ Call \/ Logout \/ UNCHANGED vars
  BY <1>5, <1>6 DEF Login, Operation, Call, Logout, vars, Shape
<1>7. ASSUME NEW r \in BOOLEAN, NEW e \in BOOLEAN, ProviderIssues(r, e) PROVE Shape'
  <2>1. Issue(r, e) /\ UNCHANGED <<now, up, signalVars, sess>> /\ fetched' = fetched /\ fetch' = fetch
    BY <1>7 DEF ProviderIssues, Issue, copyVars
  <2>2. /\ Issued' = Issued \cup {Latest + 1} /\ Latest' = Latest + 1
        /\ \A n \in Issued : issues'[n] = issues[n]
        /\ issues'[Latest + 1] = [at |-> now, revokes |-> r, ends |-> e] /\ ListTypeOK'
    BY <2>1, IssueIs, Zenon
  <2>3. \A n \in Issued' : issues'[n].at <= now
    BY <1>0, <2>2
  <2>4. Latest' \in Nat \ {0} /\ ListTypeOK'
    BY <1>0, <2>2
  <2>5. QED
    BY <1>2, <1>3, <1>4, <2>1, <2>3, <2>4 DEF Shape, TypeOK
<1>8. ASSUME NEW x \in Subjects, ProviderRevokes(x) PROVE Shape'
  <2>1. Emit(x) /\ UNCHANGED <<now, up, listVars, sess>>
    BY <1>8 DEF ProviderRevokes
  <2>2. \A e \in Events' : emitted'[e].at \in 1..now
    <3>1. now \in 1..now
      BY <1>0 DEF Shape
    <3>2. QED
      BY <1>0, <2>1, <3>1, EmitIs
  <2>3. SignalsTypeOK' /\ UNCHANGED <<heard, since, poll>>
    BY <2>1, EmitIs DEF storeVars
  <2>4. QED
    BY <1>1, <1>3, <1>4, <2>1, <2>2, <2>3, EmitIs DEF Shape, TypeOK
<1>9. CASE ListRuns
  <2>1. FetchStep /\ UNCHANGED <<now, up, signalVars, sess>>
    BY <1>9 DEF ListRuns
  <2>2. up /\ ListTypeOK' /\ fetched' <= now /\ Latest' = Latest /\ Issued' = Issued /\ issues' = issues
    BY <1>0, <2>1, FetchTyped, FetchIs DEF Shape
  <2>3. QED
    BY <1>2, <1>3, <1>4, <2>1, <2>2 DEF Shape, TypeOK
<1>10. CASE SignalsRun
  <2>1. PollStep /\ UNCHANGED <<now, up, listVars, sess>>
    BY <1>10 DEF SignalsRun
  <2>2. up /\ SignalsTypeOK' /\ heard' <= now /\ since' <= now /\ UNCHANGED emitted
    BY <1>0, <2>1, PollTyped, PollIs DEF Shape
  <2>3. QED
    BY <1>1, <1>3, <1>4, <2>1, <2>2 DEF Shape, TypeOK, Events
<1>11. CASE Tick
  <2>1. UNCHANGED <<up, listVars, signalVars, sess>> /\ now' = now + 1 /\ now' \in Moments
    BY <1>0, <1>11, TimeAssumption DEF Tick, Moments
  <2>2. /\ \A n \in Issued : issues[n].at <= now'
        /\ \A e \in Events : emitted[e].at \in 1..now'
        /\ fetched <= now' /\ heard <= now' /\ since <= now' /\ now' >= 1
    BY <1>0, <2>1 DEF Shape
  <2>3. QED
    BY <1>1, <1>2, <1>3, <1>4, <2>1, <2>2 DEF Shape, TypeOK
<1>12. CASE Crash
  <2>1. UNCHANGED now /\ ~up' /\ sess' = "none" /\ ListStops /\ SignalsStop
    BY <1>12 DEF Crash
  <2>2. ListTypeOK' /\ UNCHANGED issues /\ Issued' = Issued /\ Latest' = Latest /\ fetched' = Never /\ fetch'.at = "idle"
    <3>1. NoFetch \in Fetch /\ 0 \in Tags
      BY <1>0 DEF NoFetch, Fetch, Tags
    <3>2. UNCHANGED <<issues, listConf, saved, floor>> /\ fetch' = NoFetch /\ Tags' = Tags /\ Issued' = Issued /\ Latest' = Latest
      BY <2>1 DEF ListStops, FetchEnds, Tags, Issued, Latest
    <3>3. QED
      BY <1>0, <2>1, <3>1, <3>2 DEF ListStops, ListTypeOK, listConf, Fetch, NoFetch
  <2>3. SignalsTypeOK' /\ UNCHANGED <<emitted, since>> /\ Events' = Events /\ heard' = Never /\ poll'.at = "down"
    <3>1. NoPoll \in Round /\ Empty \in [Keys -> Moments] /\ 0 \in 0..MaxStreams
      BY <1>0, SignalsAssumption DEF NoPoll, Round, Empty
    <3>2. UNCHANGED <<providerVars, kept>> /\ Events' = Events /\ poll' = NoPoll
      BY <2>1 DEF SignalsStop, providerVars, Events
    <3>3. QED
      BY <1>0, <2>1, <3>1, <3>2 DEF SignalsStop, SignalsTypeOK, providerVars, Round, NoPoll, IsEntries
  <2>4. QED
    BY <1>0, <1>3, <1>4, <2>1, <2>2, <2>3 DEF Shape, TypeOK, Never
<1>13. CASE Start
  <2>1. UNCHANGED <<now, sess>> /\ ~up /\ up' /\ (restore \/ restoreNothing) /\ SignalsStart
    BY <1>13 DEF Start
  <2>2. ListTypeOK' /\ UNCHANGED issues /\ Issued' = Issued /\ Latest' = Latest /\ fetched' = Never
    <3>1. UNCHANGED <<issues, listConf, saved, fetch>> /\ Tags' = Tags /\ Issued' = Issued /\ Latest' = Latest
      BY <2>1 DEF restore, restoreNothing, Tags, Issued, Latest
    <3>2. QED
      BY <1>0, <2>1, <3>1 DEF restore, restoreNothing, ListTypeOK, listConf, Tags, NoList
  <2>3. SignalsTypeOK' /\ UNCHANGED <<emitted, since>> /\ Events' = Events /\ heard' = Never
    BY <1>0, <2>1 DEF SignalsStart, SignalsTypeOK, providerVars, IsEntries, Events
  <2>4. QED
    BY <1>0, <1>3, <1>4, <2>1, <2>2, <2>3 DEF Shape, TypeOK, Never
<1>14. QED
  BY <1>6, <1>7, <1>8, <1>9, <1>10, <1>11, <1>12, <1>13 DEF Next

\* The invariants of the list hold at the start.
LEMMA ListInvInit == Init => ListInv
BY DEF Init, ListInit, ListInv, IssueInv, FloorInv, FetchInv, HonestInv, Issued, NoFetch, NoList, Never

\* Every step keeps them.
LEMMA ListKept == Shape /\ ListInv /\ [Next]_vars => ListInv'
<1> SUFFICES ASSUME Shape, ListInv, [Next]_vars PROVE ListInv'
  OBVIOUS
<1>1. ASSUME UNCHANGED <<now, up, cred, listVars>> PROVE ListInv'
  <2>1. /\ UNCHANGED <<issues, honest, signed, source, held, fetched, etag, saved, fetch, floor>>
        /\ Issued' = Issued /\ (ended' <=> ended)
    BY <1>1 DEF listVars, listConf, copyVars, Issued, ended, expires
  <2>2. QED
    BY <1>1, <2>1 DEF ListInv, IssueInv, MayBeEndless, FloorInv, FetchInv, HonestInv
<1>2. CASE Login \/ Operation \/ Call \/ Logout \/ UNCHANGED vars
  BY <1>1, <1>2 DEF Login, Operation, Call, Logout, vars
<1>3. ASSUME NEW r \in BOOLEAN, NEW e \in BOOLEAN, ProviderIssues(r, e) PROVE ListInv'
  <2>1. Issue(r, e) /\ (issues[Latest].revokes /\ ~ended => r) /\ UNCHANGED <<now, up, cred>>
    BY <1>3 DEF ProviderIssues
  <2>2. QED
    BY <2>1, IssueKeeps, Zenon
<1>4. CASE \E x \in Subjects : ProviderRevokes(x)
  BY <1>1, <1>4 DEF ProviderRevokes
<1>5. CASE ListRuns
  BY <1>5, FetchKeeps DEF ListRuns
<1>6. CASE SignalsRun
  BY <1>1, <1>6 DEF SignalsRun
<1>7. CASE Tick
  BY <1>7, TickKeepsList
<1>8. CASE Crash
  BY <1>8, RestartKeepsList DEF Crash
<1>9. CASE Start
  BY <1>9, RestartKeepsList DEF Start
<1>10. QED
  BY <1>2, <1>3, <1>4, <1>5, <1>6, <1>7, <1>8, <1>9 DEF Next

\* Types and the list's invariants always hold.
LEMMA ListHolds == Spec => [](Shape /\ ListInv)
<1>1. Shape /\ ListInv /\ [Next]_vars => (Shape /\ ListInv)'
  BY ShapeKept, ListKept
<1>2. QED
  BY <1>1, ShapeInit, ListInvInit, PTL DEF Spec

\* Every variable keeps its type, through every interleaving of the provider,
\* the fetches, the polls and the restarts.
THEOREM CredentialsTypeCorrect == Spec => []TypeOK
<1>1. Shape => TypeOK
  BY DEF Shape
<1>2. QED
  BY <1>1, ListHolds, PTL

\* A list older than one the state file has kept is never believed: not after
\* a restart, and not when something between the provider and this server
\* answers with old lists and old tags for as long as it likes.
THEOREM ListNeverBackwards == Spec => []NeverBackwards
<1>1. Shape /\ ListInv => NeverBackwards
  <2> SUFFICES ASSUME Shape, ListInv, up PROVE held >= floor
    BY DEF NeverBackwards
  <2>1. held \in Int /\ floor \in Int
    BY DEF Shape, TypeOK, ListTypeOK, NoList
  <2>2. QED
    BY <2>1 DEF ListInv, FloorInv
<1>2. QED
  BY <1>1, ListHolds, PTL

\* A certificate that a list revokes is out once that list is max_age and a
\* fetch's time old when the provider itself answers, and once the lists
\* without it have expired whatever answers, unless the list held is one
\* placed by hand that never does: through outages, broken lists,
\* 304s, restarts, and lists that leave out certificates that have ended.
THEOREM ListRevocationsBite == Spec => []ListRevocationBites
<1>1. Shape /\ ListInv => ListRevocationBites
  <2> SUFFICES ASSUME Shape, ListInv, Served, "list" \in conf, NEW n \in Issued, issues[n].revokes
               PROVE  /\ issues[held].ends \/ ~MayBeEndless => now - issues[n].at <= Validity
                      /\ honest /\ source = "url" => now - issues[n].at <= ListMaxAge + FetchTime
    BY DEF ListRevocationBites
  <2>1. ~ended /\ get = "ok"
    BY DEF Served, sessionCheck, revokedCert
  <2>2. /\ held # NoList /\ fetched # Never /\ ~(now - fetched > ListMaxAge)
        /\ issues[held].ends => ~(now > issues[held].at + Validity)
        /\ ~issues[held].revokes
    BY <2>1 DEF get
  <2>3. /\ held \in Issued /\ Issued \subseteq Nat
        /\ now \in Int /\ fetched \in Int /\ issues[held].at \in Int /\ issues[n].at \in Int
        /\ Validity \in Nat /\ ListMaxAge \in Nat /\ FetchTime \in Nat
    BY <2>2, TimeAssumption, ListAssumption DEF Shape, TypeOK, ListTypeOK, Moments, NoList
  <2>4. ~(n <= held)
    <3>1. ~(n < held)
      BY <2>1, <2>2, <2>3 DEF ListInv, IssueInv
    <3>2. n # held
      BY <2>2
    <3>3. QED
      BY <2>3, <3>1, <3>2
  <2>5. issues[held].at <= issues[n].at
    BY <2>3, <2>4 DEF ListInv, IssueInv
  <2>6. ASSUME honest, source = "url" PROVE ~(issues[n].at < fetched - FetchTime)
    BY <2>2, <2>4, <2>6 DEF ListInv, HonestInv
  <2>7. issues[held].ends \/ MayBeEndless
    BY <2>3 DEF ListInv, IssueInv
  <2>8. QED
    BY <2>2, <2>3, <2>5, <2>6, <2>7
<1>2. QED
  BY <1>1, ListHolds, PTL

\* The invariants of the signals hold at the start.
LEMMA SignalInit == Init => SignalInv
<1> SUFFICES ASSUME Init PROVE SignalInv
  OBVIOUS
<1>1. AckInv /\ QueueInv /\ PollInv /\ HeardInv
  BY DEF Init, SignalsInit, AckInv, QueueInv, PollInv, HeardInv, NoPoll, Events, Never
<1>2. LifeInv
  <2> SUFFICES ASSUME "signals" \in conf PROVE expires <= 1 + Retain
    BY DEF LifeInv
  <2>1. PICK c \in Configs :
          /\ conf = c[1]
          /\ cred \in [kind : {c[2]}, issued : IF c[2] = "token" THEN {now, Never} ELSE {now},
                       until : {now + Life[c[2]]} \cup IF c[2] = "opk" THEN {MaxTime + 1} ELSE {}]
    BY DEF Init
  <2>2. /\ Retain >= Life[c[2]] /\ Retain >= OpkMaxAge /\ Life[c[2]] \in Nat /\ OpkMaxAge \in Nat
        /\ Retain \in Nat /\ MaxTime \in Nat
    BY <2>1, CredentialsAssumption, SignalsAssumption, TimeAssumption
  <2>3. /\ cred.kind = c[2] /\ cred.issued \in {1, 0} /\ cred.until \in Nat
        /\ cred.kind = "opk" => cred.issued = 1
        /\ cred.kind # "opk" => cred.until = 1 + Life[c[2]]
    BY <2>1, <2>2 DEF Init, Never
  <2>4. QED
    BY <2>2, <2>3 DEF expires
<1>3. QED
  BY <1>1, <1>2 DEF SignalInv

\* What is known stays known: entries are raised, and time goes on.
LEMMA KnowsOn ==
  ASSUME Shape, now' \in Moments, now <= now', NEW e \in Events, emitted'[e] = emitted[e],
         NEW f, Knows(f, e)
  PROVE  \A k \in keysOf(emitted'[e].subject) : f[k] >= emitted'[e].at \/ emitted'[e].at < now' - Retain
<1>1. now \in Int /\ now' \in Int /\ Retain \in Int /\ emitted[e].at \in Int
  BY TimeAssumption, SignalsAssumption DEF Shape, TypeOK, SignalsTypeOK, Moments
<1>2. QED
  BY <1>1 DEF Knows

\* A step of the receiver keeps the invariants.
LEMMA PollKeeps ==
  ASSUME Shape, SignalInv, PollStep, UNCHANGED <<now, up, conf, cred>>
  PROVE  SignalInv'
<1>0. /\ up /\ UNCHANGED emitted /\ Events' = Events /\ acked \subseteq Events /\ acks \subseteq Events
      /\ queue \subseteq Events /\ poll \in Round
  BY PollIs DEF Events, Shape, TypeOK, SignalsTypeOK, Round
<1>1. /\ now \in Int /\ heard \in Int /\ since \in Int /\ PollTime \in Nat /\ poll.asked \in Int
      /\ \A e \in Events : emitted[e].at \in Int /\ emitted[e].at <= now
  BY TimeAssumption, SignalsAssumption DEF Shape, TypeOK, SignalsTypeOK, Moments
<1>2. ASSUME NEW e \in Events, Knows(entries, e) PROVE Knows(entries, e)'
  <2>1. Knows(entries', e)
    BY <1>2, PollIs, RevokedIs
  <2>2. QED
    BY <1>0, <2>1 DEF Knows
<1>3. ASSUME NEW e \in Events, Knows(entries, e), Knows(kept.entries, e) PROVE Knows(kept.entries, e)'
  <2>1. Knows(entries, e)'
    BY <1>2, <1>3
  <2>2. kept'.entries = kept.entries \/ kept'.entries = entries'
    BY PollIs
  <2>3. QED
    BY <1>0, <1>3, <2>1, <2>2 DEF Knows
<1>4. ASSUME NEW e \in Events, Consume(e) \/ Deliver(e) PROVE Knows(entries, e)'
  <2>1. CASE keysOf(emitted[e].subject) = {}
    BY <1>0, <2>1 DEF Knows
  <2>2. CASE keysOf(emitted[e].subject) # {}
    <3>1. entries' = revoked(e)
      BY <1>4, <2>2 DEF Consume, Deliver
    <3>2. Knows(entries', e)
      BY <3>1, RevokedIs
    <3>3. QED
      BY <1>0, <3>2 DEF Knows
  <2>3. QED
    BY <2>1, <2>2
<1>5. ASSUME NEW e \in Events, Deliver(e) PROVE Knows(kept.entries, e)'
  <2>1. CASE keysOf(emitted[e].subject) = {}
    BY <1>0, <2>1 DEF Knows
  <2>2. CASE keysOf(emitted[e].subject) # {}
    <3>1. kept'.entries = entries'
      BY <1>5, <2>2 DEF Deliver
    <3>2. QED
      BY <1>4, <1>5, <3>1 DEF Knows
  <2>3. QED
    BY <2>1, <2>2
<1>6. AckInv'
  <2>1. \A e \in acked' \cup acks' : e \in acked \cup acks \/ (e \in Events /\ Deliver(e))
    BY DEF PollStep, StreamKept, Poll, PollLost, HeardFrom, Delivered, StreamMade, Consume, ConsumeFails,
         Deliver, DeliverFails, providerVars
  <2>2. \A e \in acked' \cup acks' : Knows(kept.entries, e)' /\ Knows(entries, e)'
    BY <1>0, <1>2, <1>3, <1>4, <1>5, <2>1 DEF SignalInv, AckInv
  <2>3. QED
    BY <2>2 DEF AckInv
<1>7. QueueInv'
  <2>1. CASE \E saves \in BOOLEAN : StreamMade(saves)
    <3>1. since' = now /\ tStream' # 0
      BY <2>1, PollIs
    <3>2. QED
      BY <1>0, <1>1, <3>1 DEF QueueInv
  <2>2. CASE ~ \E saves \in BOOLEAN : StreamMade(saves)
    <3>1. UNCHANGED <<since, tStream>>
      BY <2>2, PollIs
    <3>2. queue \cup acked \subseteq queue' \cup acked'
      BY <1>0, <2>2
      DEF PollStep, StreamKept, Poll, PollLost, HeardFrom, Delivered, Consume, ConsumeFails,
         Deliver, DeliverFails, providerVars
    <3>3. tStream = 0 => heard' = Never /\ poll'.at = "down"
      BY <1>0, <2>2
      DEF SignalInv, QueueInv, PollStep, StreamKept, Poll, PollLost, HeardFrom, Delivered, Consume, ConsumeFails,
         Deliver, DeliverFails
    <3>4. QED
      BY <1>0, <3>1, <3>2, <3>3 DEF SignalInv, QueueInv
  <2>3. QED
    BY <2>1, <2>2
<1>8. PollInv'
  <2>1. CASE Poll
    <3>1. tStream # 0 /\ since' = since
      BY <2>1 DEF Poll, SignalInv, QueueInv
    <3>2. poll'.asked = now /\ poll'.todo = queue' /\ queue' = queue \ acks /\ UNCHANGED entries
      BY <2>1 DEF Poll, storeVars
    <3>3. ASSUME NEW e \in Events, emitted[e].at > since PROVE e \in queue' \/ Knows(entries, e)'
      <4>1. e \in queue \cup acked
        BY <3>1, <3>3 DEF SignalInv, QueueInv
      <4>2. e \in queue' \/ e \in acked \cup acks
        BY <3>2, <4>1
      <4>3. QED
        BY <1>0, <1>2, <4>2 DEF SignalInv, AckInv
    <3>4. QED
      BY <1>0, <1>1, <3>1, <3>2, <3>3 DEF PollInv
  <2>2. ASSUME NEW e \in Events, Consume(e) PROVE PollInv'
    <3>1. since' = since /\ poll' = [poll EXCEPT !.todo = @ \ {e}] /\ poll.at = "consume"
      BY <2>2 DEF Consume, providerVars
    <3>2. poll'.at = poll.at /\ poll'.asked = poll.asked /\ poll'.todo = poll.todo \ {e}
      BY <1>0, <3>1 DEF Round
    <3>3. QED
      BY <1>0, <1>2, <1>4, <2>2, <3>1, <3>2 DEF SignalInv, PollInv
  <2>3. CASE \E e \in Events : Consume(e)
    BY <2>2, <2>3
  <2>4. CASE ~Poll /\ ~ \E e \in Events : Consume(e)
    <3>1. poll'.at # "consume" \/ (UNCHANGED <<poll, entries, since>>)
      BY <1>0, <2>4
      DEF PollStep, StreamKept, PollLost, HeardFrom, Delivered, StreamMade, ConsumeFails,
         Deliver, DeliverFails, RoundFails, NoPoll, Round, storeVars
    <3>2. QED
      BY <1>0, <1>2, <3>1 DEF SignalInv, PollInv
  <2>5. QED
    BY <2>1, <2>3, <2>4
<1>9. HeardInv'
  <2>1. CASE HeardFrom
    <3>1. heard' = now /\ since' = since /\ entries' = entries /\ poll.at = "consume" /\ poll.todo = {}
      BY <2>1 DEF HeardFrom, providerVars
    <3>2. ASSUME NEW e \in Events, emitted[e].at > since, emitted[e].at < now - PollTime PROVE Knows(entries, e)'
      <4>1. emitted[e].at < poll.asked
        BY <1>1, <3>1, <3>2 DEF SignalInv, PollInv
      <4>2. Knows(entries, e)
        BY <3>1, <3>2, <4>1 DEF SignalInv, PollInv
      <4>3. QED
        BY <1>2, <4>2
    <3>3. QED
      BY <1>0, <3>1, <3>2 DEF HeardInv
  <2>2. CASE \E saves \in BOOLEAN : StreamMade(saves)
    <3>1. since' = now
      BY <2>2, PollIs
    <3>2. QED
      BY <1>0, <1>1, <3>1 DEF HeardInv
  <2>3. CASE ~HeardFrom /\ ~ \E saves \in BOOLEAN : StreamMade(saves)
    <3>1. heard' = heard /\ since' = since
      BY <2>3, PollIs
    <3>2. QED
      BY <1>0, <1>2, <3>1 DEF SignalInv, HeardInv
  <2>4. QED
    BY <2>1, <2>2, <2>3
<1>10. LifeInv'
  BY DEF SignalInv, LifeInv, expires
<1>11. QED
  BY <1>6, <1>7, <1>8, <1>9, <1>10 DEF SignalInv

\* A new event keeps them: it is on the stream, and younger than any round.
LEMMA EmitKeeps ==
  ASSUME Shape, SignalInv, NEW x \in Subjects, Emit(x), UNCHANGED <<now, up, conf, cred>>
  PROVE  SignalInv'
<1>0. /\ Events \subseteq Events' /\ \A e \in Events : emitted'[e] = emitted[e]
      /\ \A e \in Events' : e \in Events \/ emitted'[e].at = now
      /\ tStream # 0 => \A e \in Events' : e \in Events \/ e \in queue'
      /\ queue \subseteq queue'
      /\ UNCHANGED <<tStream, since, acked, entries, stream, heard, kept, poll, acks>>
  BY EmitIs DEF storeVars
<1>1. /\ now \in Int /\ heard \in Int /\ since \in Int /\ PollTime \in Nat /\ poll.asked \in Int
      /\ heard <= now /\ acked \subseteq Events /\ acks \subseteq Events /\ now \in Moments /\ now' \in Moments /\ now <= now'
  BY TimeAssumption, SignalsAssumption DEF Shape, TypeOK, SignalsTypeOK, Moments
<1>2. ASSUME NEW e \in Events PROVE /\ Knows(entries, e) => Knows(entries, e)'
                                    /\ Knows(kept.entries, e) => Knows(kept.entries, e)'
  BY <1>0 DEF Knows
<1>3. AckInv'
  BY <1>0, <1>1, <1>2 DEF SignalInv, AckInv
<1>4. QueueInv'
  BY <1>0 DEF SignalInv, QueueInv
<1>5. PollInv'
  <2> SUFFICES ASSUME poll.at = "consume"
               PROVE  \A e \in Events' : emitted'[e].at > since /\ emitted'[e].at < poll.asked =>
                        e \in poll.todo \/ Knows(entries, e)'
    BY <1>0 DEF SignalInv, PollInv
  <2>1. poll.asked <= now
    BY DEF SignalInv, PollInv
  <2>2. QED
    BY <1>0, <1>1, <1>2, <2>1 DEF SignalInv, PollInv
<1>6. HeardInv'
  <2> SUFFICES ASSUME heard # Never, NEW e \in Events', emitted'[e].at > since, emitted'[e].at < heard - PollTime
               PROVE  Knows(entries, e)'
    BY <1>0 DEF HeardInv
  <2>1. e \in Events
    BY <1>0, <1>1
  <2>2. QED
    BY <1>0, <1>2, <2>1 DEF SignalInv, HeardInv
<1>7. LifeInv'
  BY DEF SignalInv, LifeInv, expires
<1>8. QED
  BY <1>3, <1>4, <1>5, <1>6, <1>7 DEF SignalInv

\* The clock keeps them: no round outlives its time.
LEMMA TickKeepsSignals ==
  ASSUME Shape, SignalInv, Tick
  PROVE  SignalInv'
<1>0. /\ UNCHANGED <<up, conf, cred, emitted, tStream, since, queue, acked, entries, stream, heard, kept, poll, acks>>
      /\ now' = now + 1 /\ now' \in Moments /\ PollInTime /\ Events' = Events
  BY TimeAssumption
  DEF Tick, signalVars, providerVars, storeVars, Shape, TypeOK, Moments, Events
<1>1. /\ now \in Int /\ PollTime \in Nat /\ poll.asked \in Int /\ acked \subseteq Events /\ acks \subseteq Events
  BY TimeAssumption, SignalsAssumption DEF Shape, TypeOK, SignalsTypeOK, Moments
<1>2. ASSUME NEW e \in Events PROVE /\ Knows(entries, e) => Knows(entries, e)'
                                    /\ Knows(kept.entries, e) => Knows(kept.entries, e)'
  <2>1. now <= now'
    BY <1>0, <1>1
  <2>2. QED
    BY <1>0, <2>1, KnowsOn DEF Knows
<1>3. AckInv'
  BY <1>0, <1>1, <1>2 DEF SignalInv, AckInv
<1>4. QueueInv'
  BY <1>0 DEF SignalInv, QueueInv
<1>5. PollInv'
  BY <1>0, <1>1, <1>2 DEF SignalInv, PollInv, PollInTime
<1>6. HeardInv'
  BY <1>0, <1>2 DEF SignalInv, HeardInv
<1>7. LifeInv'
  BY <1>0 DEF SignalInv, LifeInv, expires
<1>8. QED
  BY <1>3, <1>4, <1>5, <1>6, <1>7 DEF SignalInv

\* Stopping and starting keep them: what is acknowledged is in the state file.
LEMMA RestartKeepsSignals ==
  ASSUME Shape, SignalInv, UNCHANGED <<now, conf, cred>>,
         (SignalsStop /\ ~up') \/ (SignalsStart /\ ~up /\ up')
  PROVE  SignalInv'
<1>0. /\ UNCHANGED <<emitted, tStream, since, queue, acked, kept>> /\ Events' = Events
      /\ heard' = Never /\ poll'.at = "down" /\ acks' \subseteq acks
      /\ up' => entries' = kept.entries
  BY DEF SignalsStop, SignalsStart, providerVars, NoPoll, Shape, Events
<1>1. ASSUME NEW e \in Events, Knows(kept.entries, e)
      PROVE  Knows(kept.entries, e)' /\ (up' => Knows(entries, e)')
  BY <1>0, <1>1 DEF Knows
<1>2. AckInv'
  BY <1>0, <1>1 DEF SignalInv, AckInv, Shape, TypeOK, SignalsTypeOK
<1>3. QueueInv' /\ PollInv' /\ HeardInv'
  BY <1>0 DEF SignalInv, QueueInv, PollInv, HeardInv
<1>4. LifeInv'
  BY DEF SignalInv, LifeInv, expires
<1>5. QED
  BY <1>2, <1>3, <1>4 DEF SignalInv

\* Every step keeps the invariants of the signals.
LEMMA SignalKept == Shape /\ SignalInv /\ [Next]_vars => SignalInv'
<1> SUFFICES ASSUME Shape, SignalInv, [Next]_vars PROVE SignalInv'
  OBVIOUS
<1>1. ASSUME UNCHANGED <<now, up, conf, cred, signalVars>> PROVE SignalInv'
  <2>1. /\ UNCHANGED <<emitted, tStream, since, queue, acked, entries, stream, heard, kept, poll, acks>>
        /\ Events' = Events /\ expires' = expires
    BY <1>1 DEF signalVars, providerVars, storeVars, Events, expires
  <2>2. QED
    BY <1>1, <2>1 DEF SignalInv, AckInv, QueueInv, PollInv, HeardInv, LifeInv, Knows
<1>2. CASE Login \/ Operation \/ Call \/ Logout \/ UNCHANGED vars
  BY <1>1, <1>2 DEF Login, Operation, Call, Logout, vars
<1>3. CASE (\E r, e \in BOOLEAN : ProviderIssues(r, e)) \/ ListRuns
  BY <1>1, <1>3 DEF ProviderIssues, ListRuns
<1>4. ASSUME NEW x \in Subjects, ProviderRevokes(x) PROVE SignalInv'
  <2>1. Emit(x) /\ UNCHANGED <<now, up, conf, cred>>
    BY <1>4 DEF ProviderRevokes
  <2>2. QED
    BY <2>1, EmitKeeps
<1>5. CASE SignalsRun
  BY <1>5, PollKeeps DEF SignalsRun
<1>6. CASE Tick
  BY <1>6, TickKeepsSignals
<1>7. CASE Crash
  BY <1>7, RestartKeepsSignals DEF Crash
<1>8. CASE Start
  BY <1>8, RestartKeepsSignals DEF Start
<1>9. QED
  BY <1>2, <1>3, <1>4, <1>5, <1>6, <1>7, <1>8 DEF Next

\* They always hold.
LEMMA SignalHolds == Spec => [](Shape /\ ListInv /\ SignalInv)
<1>1. Shape /\ SignalInv /\ [Next]_vars => SignalInv'
  BY SignalKept
<1>2. QED
  BY <1>1, SignalInit, ListHolds, PTL DEF Spec

\* A revocation old enough to be forgotten voids nothing that has not ended.
LEMMA OldMeansEnded ==
  ASSUME Shape, LifeInv, "signals" \in conf, NEW t \in Moments, t >= 1, t < now - Retain
  PROVE  ended
<1>1. /\ now \in Int /\ t \in Int /\ Retain \in Int
      /\ cred.issued \in Int /\ cred.until \in Int /\ OpkMaxAge \in Int
  BY TimeAssumption, SignalsAssumption, CredentialsAssumption DEF Shape, TypeOK, Moments
<1>2. expires \in Int /\ expires <= 1 + Retain
  BY <1>1 DEF expires, LifeInv
<1>3. now > expires
  BY <1>1, <1>2
<1>4. QED
  BY <1>1, <1>2, <1>3 DEF ended

\* What the transmitter was told of having and has forgotten is in the state
\* file, until no credential it voids can be left: through answers that are
\* lost, writes that fail, crashes between the write and the acknowledgement,
\* and streams made anew.
THEOREM AcknowledgedStaysKept == Spec => []AcknowledgedIsKept
<1>1. SignalInv => AcknowledgedIsKept
  BY DEF SignalInv, AckInv, Knows, AcknowledgedIsKept
<1>2. QED
  BY <1>1, SignalHolds, PTL

\* What was issued before its person was revoked is served no longer than
\* max_age and a poll's time after, if the event was put on the stream polled:
\* through lost answers, failed writes, redelivery and restarts.
THEOREM SignalRevocationsBite == Spec => []SignalRevocationBites
<1>1. Shape /\ SignalInv => SignalRevocationBites
  <2> SUFFICES ASSUME Shape, SignalInv, Served, "signals" \in conf, NEW e \in Events,
                      keysOf(emitted[e].subject) \cap namedBy # {},
                      emitted[e].at > since, cred.issued <= emitted[e].at
               PROVE  now - emitted[e].at <= SignalMaxAge + PollTime
    BY DEF SignalRevocationBites
  <2>1. ~ended /\ check(namedBy, cred.issued) = "ok"
    BY DEF Served, sessionCheck, federatedRevoked
  <2>2. heard # Never /\ now - heard <= SignalMaxAge
    BY <2>1 DEF check, heardOfLate
  <2>3. PICK k : k \in keysOf(emitted[e].subject) /\ k \in namedBy
    OBVIOUS
  <2>4. ~(entries[k] # Never /\ (cred.issued = Never \/ cred.issued <= entries[k]))
    BY <2>1, <2>3 DEF check
  <2>5. /\ now \in Int /\ heard \in Int /\ SignalMaxAge \in Nat /\ PollTime \in Nat
        /\ emitted[e].at \in Moments /\ emitted[e].at \in Int /\ emitted[e].at >= 1
        /\ entries[k] \in Int /\ cred.issued \in Int
    <3>1. k \in Keys
      BY <2>3, KeysOfAreKeys
    <3>2. QED
      BY <3>1, TimeAssumption, SignalsAssumption DEF Shape, TypeOK, SignalsTypeOK, IsEntries, Moments
  <2>6. ~(emitted[e].at < now - Retain)
    BY <2>1, <2>5, OldMeansEnded DEF SignalInv
  <2>7. ~(entries[k] >= emitted[e].at)
    BY <2>4, <2>5 DEF Never
  <2>8. ~Knows(entries, e)
    BY <2>3, <2>6, <2>7 DEF Knows
  <2>9. ~(emitted[e].at < heard - PollTime)
    BY <2>2, <2>8 DEF SignalInv, HeardInv
  <2>10. QED
    BY <2>2, <2>5, <2>9
<1>2. QED
  BY <1>1, SignalHolds, PTL

\* A refusal is noted for a reason that is on disk.
LEMMA NoteIs ==
  ASSUME Shape, RefusedInv, Note, UNCHANGED <<now, up, listVars, signalVars, conf, cred>>
  PROVE  RefusedInv'
<1>0. /\ UNCHANGED <<issues, held, saved, entries, kept>> /\ (ended' <=> ended) /\ namedBy' = namedBy
      /\ \A t : Voids(t)' <=> Voids(t)
  BY DEF listVars, copyVars, signalVars, storeVars, ended, expires, namedBy, Voids
<1>1. ASSUME refused' = refused PROVE RefusedInv'
  <2>1. \A k : (Voids(kept.entries[k])' <=> Voids(kept.entries[k])) /\ (Voids(entries[k])' <=> Voids(entries[k]))
    BY <1>0 DEF Voids
  <2>2. QED
    BY <1>0, <1>1, <2>1 DEF RefusedInv
<1>2. ASSUME sessionCheck = "refused", ended, refused' = "end" PROVE RefusedInv'
  BY <1>0, <1>2 DEF RefusedInv
<1>3. ASSUME sessionCheck = "refused", revokedCert = "refused", saved = held, refused' = "list" PROVE RefusedInv'
  <2>1. "list" \in conf /\ held # NoList /\ issues[held].revokes
    BY <1>3 DEF revokedCert, get
  <2>2. held <= held
    BY DEF Shape, TypeOK, ListTypeOK, NoList
  <2>3. QED
    BY <1>0, <1>3, <2>1, <2>2 DEF RefusedInv
<1>4. ASSUME sessionCheck = "refused", ~ended, revokedCert # "refused", entries = kept.entries, refused' = "signals"
      PROVE  RefusedInv'
  <2>1. "signals" \in conf /\ check(namedBy, cred.issued) = "refused"
    BY <1>4 DEF sessionCheck, federatedRevoked
  <2>2. PICK k \in namedBy : entries[k] # Never /\ (cred.issued = Never \/ cred.issued <= entries[k])
    BY <2>1 DEF check
  <2>3. Voids(kept.entries[k])' /\ Voids(entries[k])'
    BY <1>0, <1>4, <2>2 DEF Voids
  <2>4. QED
    BY <1>0, <1>4, <2>1, <2>3 DEF RefusedInv
<1>5. refused' = "nothing" => RefusedInv'
  BY DEF RefusedInv
<1>6. QED
  BY <1>1, <1>2, <1>3, <1>4, <1>5 DEF Note

\* A refusal by the list outlives the steps of a fetch.
LEMMA RefusedByList ==
  ASSUME Shape, ListInv, FetchStep, "list" \in conf, ended \/ (saved # NoList /\ issues[saved].revokes /\ (up => saved <= held)),
         UNCHANGED <<now, up, cred>>
  PROVE  ended \/ (saved' # NoList /\ issues'[saved'].revokes /\ saved' <= held')
<1>0. /\ up /\ UNCHANGED issues /\ held \in {NoList} \cup Issued /\ saved \in {NoList} \cup Issued
      /\ Issued \subseteq Nat \ {0} /\ fetch \in Fetch
  BY FetchIs DEF Shape, TypeOK, ListTypeOK, Fetch
<1> SUFFICES ASSUME ~ended PROVE saved' # NoList /\ issues'[saved'].revokes /\ saved' <= held'
  OBVIOUS
<1>1. saved \in Issued /\ saved # NoList /\ issues[saved].revokes /\ saved <= held
  BY <1>0
<1>2. CASE SaveList
  <2>1. saved' = held /\ held' = held
    BY <1>2 DEF SaveList, copyVars
  <2>2. held \in Issued /\ held # NoList
    BY <1>0, <1>1 DEF NoList
  <2>3. held = saved \/ saved < held
    BY <1>0, <1>1, <2>2
  <2>4. issues[held].revokes
    BY <1>1, <2>2, <2>3 DEF ListInv, IssueInv
  <2>5. QED
    BY <1>0, <2>1, <2>2, <2>4
<1>3. CASE Install
  <2>1. saved' = saved /\ held' >= held /\ held' \in Issued
    BY <1>0, <1>3 DEF Install, FetchAt, ListInv, FetchInv
  <2>2. QED
    BY <1>0, <1>1, <2>1 DEF NoList
<1>4. CASE ~SaveList /\ ~Install
  <2>1. UNCHANGED <<saved, held>>
    BY <1>4
    DEF FetchStep, FetchBegin, NotModified, Same, Reissued, NothingToVerify, FetchFails, ReadFile,
        Answered, Verified, copyVars
  <2>2. QED
    BY <1>0, <1>1, <2>1
<1>5. QED
  BY <1>2, <1>3, <1>4

\* A refusal by the signals outlives the steps of the receiver.
LEMMA RefusedBySignals ==
  ASSUME Shape, SignalInv, PollStep, "signals" \in conf, NEW k \in namedBy,
         Voids(kept.entries[k]), Voids(entries[k]), UNCHANGED <<now, cred>>, ~ended
  PROVE  Voids(kept'.entries[k]) /\ Voids(entries'[k])
<1>0. k \in Keys /\ entries[k] \in Moments /\ entries[k] \in Int /\ cred.issued \in Int /\ entries[k] >= 1
  <2>1. k \in Keys
    BY DEF namedBy, Keys
  <2>2. QED
    BY <2>1, TimeAssumption DEF Shape, TypeOK, SignalsTypeOK, IsEntries, Moments, Voids, Never
<1>1. ~(entries[k] < now - Retain)
  BY <1>0, OldMeansEnded DEF SignalInv
<1>2. entries'[k] \in Int /\ entries'[k] >= entries[k]
  <2>1. ASSUME NEW e \in Events PROVE revoked(e)[k] \in Int /\ revoked(e)[k] >= entries[k]
    BY <1>0, <1>1, RevokedIs, TimeAssumption DEF Moments
  <2>2. QED
    BY <1>0, <2>1, PollIs
<1>3. Voids(entries'[k])
  BY <1>0, <1>2 DEF Voids, Never
<1>4. kept'.entries = kept.entries \/ kept'.entries = entries'
  BY PollIs
<1>5. QED
  BY <1>3, <1>4

\* A credential refused for good is never served again: not when the store
\* forgets its revocation, nor when the list leaves it out, nor after a
\* restart -- unless the state file of the list that refused it is lost.
THEOREM RefusedForGood == Spec => []RefusedStaysRefused
<1>1. Init => RefusedInv
  BY DEF Init, RefusedInv
<1>2. Shape /\ ListInv /\ SignalInv /\ RefusedInv /\ [Next]_vars => RefusedInv'
  <2> SUFFICES ASSUME Shape, ListInv, SignalInv, RefusedInv, [Next]_vars PROVE RefusedInv'
    OBVIOUS
  <2>0. namedBy' = namedBy /\ conf' = conf /\ cred' = cred
    BY DEF Next, Login, Operation, Call, Logout, ProviderIssues, ProviderRevokes, ListRuns, SignalsRun, Tick,
           Crash, Start, vars, namedBy
  <2>1. ASSUME ended => ended', refused' = refused, UNCHANGED <<issues, saved, kept>>,
               up' => up /\ held' = held /\ entries' = entries
        PROVE  RefusedInv'
    <3>1. \A k : /\ Voids(kept.entries[k]) => Voids(kept.entries[k])'
                 /\ up' /\ Voids(entries[k]) => Voids(entries[k])'
      BY <2>0, <2>1 DEF Voids
    <3>2. QED
      BY <2>0, <2>1, <3>1 DEF RefusedInv
  <2>2. ASSUME UNCHANGED now PROVE ended' <=> ended
    BY <2>0, <2>2 DEF ended, expires
  <2>3. CASE Login \/ Operation \/ Call
    <3>1. Note /\ UNCHANGED <<now, up, listVars, signalVars, conf, cred>>
      BY <2>3 DEF Login, Operation, Call
    <3>2. QED
      BY <3>1, NoteIs
  <2>4. CASE Logout \/ UNCHANGED vars
    BY <2>1, <2>2, <2>4 DEF Logout, vars, listVars, copyVars, signalVars, storeVars
  <2>5. ASSUME NEW r \in BOOLEAN, NEW e \in BOOLEAN, ProviderIssues(r, e) PROVE RefusedInv'
    <3>1. Issue(r, e) /\ UNCHANGED <<now, up, saved, held, kept, entries, refused>>
      BY <2>5 DEF ProviderIssues, Issue, copyVars, signalVars, storeVars
    <3>2. \A n \in Issued : issues'[n] = issues[n]
      BY <3>1, IssueIs, Zenon
    <3>3. saved # NoList => issues'[saved] = issues[saved]
      BY <3>2 DEF Shape, TypeOK, ListTypeOK
    <3>4. \A k : (Voids(kept.entries[k])' <=> Voids(kept.entries[k])) /\ (Voids(entries[k])' <=> Voids(entries[k]))
      BY <2>0, <3>1 DEF Voids
    <3>5. QED
      BY <2>0, <2>2, <3>1, <3>3, <3>4 DEF RefusedInv
  <2>6. ASSUME NEW x \in Subjects, ProviderRevokes(x) PROVE RefusedInv'
    BY <2>1, <2>2, <2>6 DEF ProviderRevokes, Emit, storeVars, listVars, copyVars
  <2>7. CASE ListRuns
    <3>1. FetchStep /\ UNCHANGED <<now, up, cred, kept, entries, refused>>
      BY <2>7 DEF ListRuns, signalVars, storeVars
    <3>2. \A k : (Voids(kept.entries[k])' <=> Voids(kept.entries[k])) /\ (Voids(entries[k])' <=> Voids(entries[k]))
      BY <2>0, <3>1 DEF Voids
    <3>3. refused = "list" => ended \/ (saved' # NoList /\ issues'[saved'].revokes /\ saved' <= held')
      BY <3>1, RefusedByList DEF RefusedInv
    <3>4. QED
      BY <2>0, <2>2, <3>1, <3>2, <3>3 DEF RefusedInv
  <2>8. CASE SignalsRun
    <3>1. PollStep /\ up /\ UNCHANGED <<now, up, cred, issues, saved, held, refused>>
      BY <2>8, PollIs DEF SignalsRun, listVars, copyVars
    <3>2. ASSUME refused = "signals", ~ended
          PROVE  \E k \in namedBy : Voids(kept.entries[k])' /\ Voids(entries[k])'
      <4>1. PICK k \in namedBy : Voids(kept.entries[k]) /\ Voids(entries[k])
        BY <3>1, <3>2 DEF RefusedInv
      <4>2. "signals" \in conf
        BY <3>2 DEF RefusedInv
      <4>3. Voids(kept'.entries[k]) /\ Voids(entries'[k])
        BY <3>1, <3>2, <4>1, <4>2, RefusedBySignals
      <4>4. QED
        BY <2>0, <4>3 DEF Voids
    <3>3. QED
      BY <2>0, <2>2, <3>1, <3>2 DEF RefusedInv
  <2>9. CASE Tick
    <3>1. now' \in Moments /\ now <= now'
      BY <2>9, TimeAssumption DEF Tick, Shape, TypeOK, Moments
    <3>2. QED
      BY <2>0, <2>1, <2>9, <3>1, EndedStays DEF Tick, listVars, copyVars, signalVars, storeVars
  <2>10. CASE Crash
    BY <2>1, <2>2, <2>10 DEF Crash, ListStops, SignalsStop
  <2>11. CASE Start
    <3>1. UNCHANGED <<now, issues, saved, kept>> /\ entries' = kept.entries
      BY <2>11 DEF Start, restore, restoreNothing, SignalsStart
    <3>2. \A k : /\ Voids(kept.entries[k]) => Voids(kept.entries[k])' /\ Voids(entries[k])'
      BY <2>0, <3>1 DEF Voids
    <3>3. CASE restore /\ UNCHANGED refused
      <4>1. held' = saved /\ saved <= saved
        BY <3>3 DEF restore, Shape, TypeOK, ListTypeOK, NoList
      <4>2. QED
        BY <2>0, <2>2, <3>1, <3>2, <3>3, <4>1 DEF RefusedInv
    <3>4. CASE restoreNothing /\ refused' = IF refused = "list" THEN "nothing" ELSE refused
      BY <2>0, <2>2, <3>1, <3>2, <3>4 DEF RefusedInv
    <3>5. QED
      BY <2>11, <3>3, <3>4 DEF Start
  <2>12. QED
    BY <2>3, <2>4, <2>5, <2>6, <2>7, <2>8, <2>9, <2>10, <2>11 DEF Next
<1>3. Shape /\ ListInv /\ RefusedInv => RefusedStaysRefused
  <2> SUFFICES ASSUME Shape, ListInv, RefusedInv, Served, refused # "nothing" PROVE FALSE
    BY DEF RefusedStaysRefused
  <2>1. up /\ ~ended /\ revokedCert = "ok" /\ federatedRevoked = "ok"
    BY DEF Served, sessionCheck
  <2>2. CASE refused = "list"
    <3>1. saved # NoList /\ issues[saved].revokes /\ saved <= held /\ get = "ok"
      BY <2>1, <2>2 DEF RefusedInv, revokedCert
    <3>2. held # NoList /\ ~issues[held].revokes
      BY <3>1 DEF get
    <3>3. saved \in Issued /\ held \in Issued /\ Issued \subseteq Nat
      BY <3>1, <3>2 DEF Shape, TypeOK, ListTypeOK
    <3>4. saved < held
      BY <3>1, <3>2, <3>3
    <3>5. QED
      BY <2>1, <3>1, <3>2, <3>3, <3>4 DEF ListInv, IssueInv
  <2>3. CASE refused = "signals"
    <3>1. PICK k \in namedBy : Voids(entries[k])
      BY <2>1, <2>3 DEF RefusedInv
    <3>2. check(namedBy, cred.issued) = "ok"
      BY <2>1, <2>3 DEF federatedRevoked, RefusedInv
    <3>3. QED
      BY <3>1, <3>2 DEF check, Voids
  <2>4. CASE refused = "end"
    BY <2>1, <2>4 DEF RefusedInv
  <2>5. QED
    BY <2>2, <2>3, <2>4 DEF Shape, TypeOK
<1>4. QED
  BY <1>1, <1>2, <1>3, SignalHolds, PTL DEF Spec
=============================================================================
