--------------------------- MODULE ReloadProofs ---------------------------
(***************************************************************************)
(* Theorems about Reload, for every finite set of people and groups and    *)
(* any number of moves of the directory and changes of the grants.         *)
(***************************************************************************)
EXTENDS Reload, TLAPS

\* What is known about the people of f is known in g, unchanged.
Within(f, g) == \A p \in DOMAIN f : p \in DOMAIN g /\ g[p] = f[p]

\* p is granted one of the accesses A by name, or through a group they were in.
Through(p, A) == \E s \in Subjects : /\ grants[s] \in A
                                     /\ s = p \/ (s \in Groups /\ p \in everIn[s])

\* Somebody is granted something: a share the API made is never open to all.
SomeGrant(g) == \E s \in Subjects : g[s] # "none"

\* An opened share whose lists hold nobody but the people of the grants, and
\* which remembers that the lists named somebody.
ByGrants(sh) ==
  /\ sh.allowNamed
  /\ \A p \in sh.allow : Through(p, {"read", "write"})
  /\ \A p \in sh.writers : Through(p, {"write"})
  /\ ~sh.readOnly => sh.writersNamed

\* The inductive invariant of AccessByGrantOnly.
GrantInv ==
  /\ SomeGrant(grants) /\ (ask # NoChange => SomeGrant(ask))
  /\ \A g \in Groups : members[g] \subseteq everIn[g]
  /\ ByGrants(lists) /\ ByGrants(pend)

\* The inductive invariant of SessionsEntitled: what SMB holds, and what a
\* reload is about to add to it, is what the server holds.
SessionInv ==
  /\ SessionsEntitled
  /\ rl # "set" => Within(users, who)
  /\ rl = "adding" => Within(ids, who)

\* The inductive invariant of DisconnectsOnlyForCause: as long as the
\* directory only grew, everything the server holds is still in it and the
\* served lists are what their grants expand to.
CauseInv ==
  ~taken => /\ rl \notin {"opened", "set"}
            /\ Within(who, dir)
            /\ rl = "read" => Within(who, ids) /\ Within(ids, dir)
            /\ lists.allow = expand(block(grants).allow)
            /\ ~lists.readOnly => lists.writers = expand(block(grants).writers)

\* expand yields people, and a share opened from grants is a share.
LEMMA OpenShareType ==
  ASSUME TypeOK, NEW g \in [Subjects -> Access]
  PROVE  openShare(block(g)) \in Share
<1>1. \A N \in SUBSET Subjects : expand(N) \in SUBSET People
  BY DEF expand, TypeOK, Subjects
<1>2. /\ block(g).allow \in SUBSET Subjects /\ block(g).writers \in SUBSET Subjects
      /\ block(g).noWriters \in BOOLEAN
  BY DEF block
<1>3. QED
  BY <1>1, <1>2 DEF openShare, Share, TypeOK

\* The initial states are well typed.
LEMMA ReloadTypeInit == Init => TypeOK
<1> USE BoundsAssumption DEF BoundsAssumption
<1> SUFFICES ASSUME Init PROVE TypeOK
  OBVIOUS
<1>1. PeopleMap(dir) /\ PeopleMap(who)
  BY DEF Init, PeopleMap, Creds
<1>2. PeopleMap(ids) /\ PeopleMap(users)
  BY DEF Init, PeopleMap, Nobody
<1>3. lists \in Share /\ pend \in Share
  <2>1. \A N \in SUBSET Subjects : expand(N) \in SUBSET People
    BY DEF expand, Init, Subjects
  <2>2. /\ block(grants).allow \in SUBSET Subjects /\ block(grants).writers \in SUBSET Subjects
        /\ block(grants).noWriters \in BOOLEAN
    BY DEF block
  <2>3. openShare(block(grants)) \in Share
    BY <2>1, <2>2 DEF openShare, Share, Init
  <2>4. QED
    BY <2>3 DEF Init
<1>4. session \in [People -> [cred : 0..2, write : BOOLEAN]]
  BY DEF Init, NoSession
<1>5. /\ members \in [Groups -> SUBSET People] /\ everIn \in [Groups -> SUBSET People]
      /\ moves \in 0..MaxMoves /\ changes \in 0..MaxChanges
      /\ grants \in [Subjects -> Access] /\ ask \in [Subjects -> Access] \cup {NoChange}
      /\ rl = "idle" /\ smb = "starting"
  BY DEF Init
<1>6. {media, broken, adds, taken} \subseteq BOOLEAN
  BY DEF Init
<1>7. QED
  BY <1>1, <1>2, <1>3, <1>4, <1>5, <1>6 DEF TypeOK

\* Every variable keeps its type through every move of the directory, every
\* change of the grants and every step of reload and of serveSMB.
THEOREM ReloadTypeCorrect == Spec => []TypeOK
<1> USE BoundsAssumption DEF BoundsAssumption
<1>1. Init => TypeOK
  BY ReloadTypeInit
<1>2. TypeOK /\ [Next]_vars => TypeOK'
  <2> SUFFICES ASSUME TypeOK, [Next]_vars PROVE TypeOK'
    OBVIOUS
  <2> USE DEF dirVars, grantVars, reloadVars, genVars
  <2>0. PeopleMap(Nobody) /\ [p \in People |-> NoSession] \in [People -> [cred : 0..2, write : BOOLEAN]]
    BY DEF PeopleMap, Nobody, NoSession
  <2>1. ASSUME NEW p \in People, PersonGone(p) PROVE TypeOK'
    BY <2>1 DEF PersonGone, Move, TypeOK, PeopleMap
  <2>2. ASSUME NEW p \in People, NEW c \in Creds, PersonSet(p, c) PROVE TypeOK'
    BY <2>2 DEF PersonSet, Move, TypeOK, PeopleMap
  <2>3. ASSUME NEW g \in Groups, NEW S \in SUBSET People, GroupSet(g, S) PROVE TypeOK'
    <3>1. /\ members' \in [Groups -> SUBSET People]
          /\ everIn' \in [Groups -> SUBSET People]
      BY <2>3 DEF GroupSet, TypeOK
    <3>2. QED
      BY <2>3, <3>1 DEF GroupSet, Move, TypeOK, PeopleMap
  <2>4. ASSUME NEW s \in Subjects, Revoke(s) PROVE TypeOK'
    BY <2>4 DEF Revoke, Change, TypeOK, PeopleMap, Access
  <2>5. ASSUME NEW s \in Subjects, NEW a \in Access \ {"none"}, Grant(s, a) PROVE TypeOK'
    BY <2>5 DEF Grant, Change, TypeOK, PeopleMap
  <2>6. ASSUME Apply PROVE TypeOK'
    <3>1. ask \in [Subjects -> Access]
      BY <2>6 DEF Apply, TypeOK
    <3>2. openShare(block(ask)) \in Share
      BY <3>1, OpenShareType
    <3>3. QED
      BY <2>0, <2>6, <3>1, <3>2 DEF Apply, swap, TypeOK, PeopleMap
  <2>7. ASSUME ReloadRead PROVE TypeOK'
    BY <2>7 DEF ReloadRead, TypeOK, PeopleMap
  <2>8. ASSUME ReloadUnchanged PROVE TypeOK'
    BY <2>0, <2>8 DEF ReloadUnchanged, TypeOK, PeopleMap
  <2>9. ASSUME ReloadAdds PROVE TypeOK'
    BY <2>9 DEF ReloadAdds, added, TypeOK, PeopleMap
  <2>10. ASSUME ReloadOpens PROVE TypeOK'
    <3>1. openShare(block(grants)) \in Share
      BY OpenShareType DEF TypeOK
    <3>2. QED
      BY <2>10, <3>1 DEF ReloadOpens, TypeOK, PeopleMap
  <2>11. ASSUME ReloadAddsToSmb PROVE TypeOK'
    BY <2>0, <2>11 DEF ReloadAddsToSmb, TypeOK, PeopleMap
  <2>12. ASSUME ReloadSetsPeople PROVE TypeOK'
    BY <2>12 DEF ReloadSetsPeople, TypeOK, PeopleMap
  <2>13. ASSUME ReloadSwaps PROVE TypeOK'
    BY <2>0, <2>13 DEF ReloadSwaps, swap, TypeOK, PeopleMap
  <2>14. ASSUME ReloadFails \/ ReloadOpenFails PROVE TypeOK'
    BY <2>0, <2>14 DEF ReloadFails, ReloadOpenFails, TypeOK, PeopleMap
  <2>22. ASSUME BreakOrMend \/ ApplyRefused PROVE TypeOK'
    BY <2>22 DEF BreakOrMend, ApplyRefused, TypeOK, PeopleMap
  <2>15. ASSUME SmbReadsPeople PROVE TypeOK'
    BY <2>15 DEF SmbReadsPeople, TypeOK, PeopleMap
  <2>16. ASSUME SmbStoresAdd PROVE TypeOK'
    BY <2>16 DEF SmbStoresAdd, TypeOK, PeopleMap
  <2>17. ASSUME NEW p \in People, NEW table, PeopleMap(table), Login(p, table) PROVE TypeOK'
    <3>1. [cred |-> table[p], write |-> ~readOnlyFor(lists, p)] \in [cred : 0..2, write : BOOLEAN]
      BY <2>17 DEF Login, PeopleMap, Creds, readOnlyFor
    <3>2. QED
      BY <2>17, <3>1 DEF Login, TypeOK, PeopleMap
  <2>18. ASSUME NEW p \in People, Logout(p) PROVE TypeOK'
    BY <2>18 DEF Logout, NoSession, TypeOK, PeopleMap
  <2>19. ASSUME UNCHANGED vars PROVE TypeOK'
    BY <2>19 DEF vars, TypeOK, PeopleMap
  <2>20. PeopleMap(users) /\ PeopleMap(who)
    BY DEF TypeOK
  <2>21. QED
    BY <2>1, <2>2, <2>3, <2>4, <2>5, <2>6, <2>7, <2>8, <2>9, <2>10, <2>11, <2>12, <2>13,
       <2>14, <2>15, <2>16, <2>17, <2>18, <2>19, <2>20, <2>22
    DEF Next, Moves, SmbRuns, ReloadDecides, ReloadRuns, SmbLogin
<1>3. QED
  BY <1>1, <1>2, PTL DEF Spec

\* A share opened from grants g lets in whom g names, by name or through a
\* group, and remembers that its lists named somebody.
LEMMA OpenedByGrants ==
  ASSUME TypeOK, NEW g \in [Subjects -> Access], SomeGrant(g)
  PROVE  LET sh == openShare(block(g))
             ThroughG(p, A) == \E s \in Subjects : /\ g[s] \in A
                                                   /\ s = p \/ (s \in Groups /\ p \in members[s])
         IN /\ sh.allowNamed
            /\ \A p \in sh.allow : ThroughG(p, {"read", "write"})
            /\ \A p \in sh.writers : ThroughG(p, {"write"})
            /\ ~sh.readOnly => sh.writersNamed
<1> DEFINE sh == openShare(block(g))
           ThroughG(p, A) == \E s \in Subjects : /\ g[s] \in A
                                                 /\ s = p \/ (s \in Groups /\ p \in members[s])
<1>1. \A N \in SUBSET Subjects : \A p \in expand(N) :
        \E s \in N : s = p \/ (s \in Groups /\ p \in members[s])
  BY DEF expand
<1>2. \A p \in expand(block(g).allow) : ThroughG(p, {"read", "write"})
  BY <1>1 DEF block, Access
<1>3. \A p \in expand(block(g).writers) : ThroughG(p, {"write"})
  BY <1>1 DEF block
<1>4. sh.allowNamed
  BY DEF openShare, block, SomeGrant
<1>5. ~sh.readOnly => sh.writersNamed
  BY DEF openShare, block
<1>6. \A p \in sh.allow : ThroughG(p, {"read", "write"})
  BY <1>2 DEF openShare
<1>7. \A p \in sh.writers : ThroughG(p, {"write"})
  BY <1>3 DEF openShare
<1>8. QED
  BY <1>4, <1>5, <1>6, <1>7

\* Nobody uses or writes a share except by a grant: the lists a change or a
\* reload opens the share with, and the ones served, hold nobody else, and
\* never pass for a share without lists when their groups have emptied.
THEOREM AccessComesFromGrants == Spec => []AccessByGrantOnly
<1>1. Init => GrantInv
  <2> SUFFICES ASSUME Init PROVE GrantInv
    OBVIOUS
  <2>1. TypeOK
    BY ReloadTypeInit
  <2>2. SomeGrant(grants) /\ ask = NoChange /\ everIn = members
    BY DEF Init, SomeGrant
  <2>3. ByGrants(openShare(block(grants)))
    BY <2>1, <2>2, OpenedByGrants DEF ByGrants, Through, TypeOK
  <2>4. QED
    BY <2>2, <2>3 DEF GrantInv, Init
<1>2. TypeOK /\ GrantInv /\ [Next]_vars => GrantInv'
  <2> SUFFICES ASSUME TypeOK, GrantInv, [Next]_vars PROVE GrantInv'
    OBVIOUS
  <2> USE DEF dirVars, grantVars, reloadVars, genVars
  <2>1. ASSUME UNCHANGED <<members, everIn, grants, ask, lists, pend>> PROVE GrantInv'
    BY <2>1 DEF GrantInv, ByGrants, Through, SomeGrant
  <2>2. ASSUME NEW p \in People, PersonGone(p) PROVE GrantInv'
    BY <2>1, <2>2 DEF PersonGone, Move
  <2>3. ASSUME NEW p \in People, NEW c \in Creds, PersonSet(p, c) PROVE GrantInv'
    BY <2>1, <2>3 DEF PersonSet, Move
  <2>4. ASSUME NEW g \in Groups, NEW S \in SUBSET People, GroupSet(g, S) PROVE GrantInv'
    <3>1. \A h \in Groups : members'[h] \subseteq everIn'[h] /\ everIn[h] \subseteq everIn'[h]
      BY <2>4 DEF GroupSet, GrantInv, TypeOK
    <3>2. UNCHANGED <<grants, ask, lists, pend>>
      BY <2>4 DEF GroupSet, Move
    <3>3. \A p \in People : \A A : Through(p, A) => Through(p, A)'
      BY <3>1, <3>2 DEF Through
    <3>4. lists.allow \subseteq People /\ lists.writers \subseteq People
          /\ pend.allow \subseteq People /\ pend.writers \subseteq People
      BY DEF TypeOK, Share
    <3>5. ByGrants(lists)' /\ ByGrants(pend)'
      BY <3>2, <3>3, <3>4 DEF ByGrants, GrantInv
    <3>6. QED
      BY <3>1, <3>2, <3>5 DEF GrantInv, SomeGrant
  <2>5. ASSUME NEW g, SomeGrant(g), Change(g) PROVE GrantInv'
    BY <2>5 DEF Change, GrantInv, SomeGrant, ByGrants, Through
  <2>6. ASSUME NEW s \in Subjects, Revoke(s) PROVE GrantInv'
    BY <2>5, <2>6 DEF Revoke, SomeGrant, TypeOK
  <2>7. ASSUME NEW s \in Subjects, NEW a \in Access \ {"none"}, Grant(s, a) PROVE GrantInv'
    BY <2>5, <2>7 DEF Grant, SomeGrant, TypeOK
  <2>8. ASSUME Apply PROVE GrantInv'
    <3>1. ask \in [Subjects -> Access] /\ SomeGrant(ask)
      BY <2>8 DEF Apply, TypeOK, GrantInv
    <3>2. /\ grants' = ask /\ ask' = NoChange /\ UNCHANGED <<members, everIn>>
          /\ lists' = openShare(block(ask)) /\ pend' = openShare(block(ask))
      BY <2>8 DEF Apply, swap
    <3>3. ByGrants(lists)' /\ ByGrants(pend)'
      BY <3>1, <3>2, OpenedByGrants DEF ByGrants, Through, GrantInv
    <3>4. QED
      BY <3>1, <3>2, <3>3 DEF GrantInv, SomeGrant
  <2>9. ASSUME ReloadOpens PROVE GrantInv'
    <3>1. ByGrants(openShare(block(grants)))
      BY OpenedByGrants DEF ByGrants, Through, GrantInv, TypeOK
    <3>2. /\ UNCHANGED <<members, everIn, grants, ask, lists>>
          /\ pend' = openShare(block(grants))
      BY <2>9 DEF ReloadOpens
    <3>3. QED
      BY <3>1, <3>2 DEF GrantInv, ByGrants, Through, SomeGrant
  <2>10. ASSUME ReloadSwaps PROVE GrantInv'
    BY <2>10 DEF ReloadSwaps, swap, GrantInv, ByGrants, Through, SomeGrant
  <2>11. ASSUME ReloadRead \/ ReloadUnchanged \/ ReloadAdds \/ ReloadAddsToSmb
                \/ ReloadSetsPeople \/ ReloadFails \/ ReloadOpenFails \/ BreakOrMend
         PROVE  GrantInv'
    BY <2>1, <2>11 DEF ReloadRead, ReloadUnchanged, ReloadAdds, ReloadAddsToSmb,
                       ReloadSetsPeople, ReloadFails, ReloadOpenFails, BreakOrMend
  <2>16. ASSUME ApplyRefused PROVE GrantInv'
    BY <2>16 DEF ApplyRefused, GrantInv, SomeGrant, ByGrants, Through
  <2>12. ASSUME SmbReadsPeople \/ SmbStoresAdd PROVE GrantInv'
    BY <2>1, <2>12 DEF SmbReadsPeople, SmbStoresAdd
  <2>13. ASSUME NEW p \in People, SmbLogin(p) \/ Login(p, who) \/ Logout(p) PROVE GrantInv'
    BY <2>1, <2>13 DEF SmbLogin, Login, Logout
  <2>14. ASSUME UNCHANGED vars PROVE GrantInv'
    BY <2>1, <2>14 DEF vars
  <2>15. QED
    BY <2>2, <2>3, <2>4, <2>6, <2>7, <2>8, <2>9, <2>10, <2>11, <2>12, <2>13, <2>14,
       <2>16
    DEF Next, Moves, SmbRuns, ReloadDecides, ReloadRuns
<1>3. GrantInv => AccessByGrantOnly
  BY DEF GrantInv, ByGrants, Through, AccessByGrantOnly, mayUse, allowsAnyone,
         readOnlyFor, anyAllowedWrites
<1>4. QED
  BY <1>1, <1>2, <1>3, ReloadTypeCorrect, PTL DEF Spec

\* No session is more than the server would grant now: a reload that only
\* adds people leaves what is known of the others, SMB's table included, and
\* one that takes something away ends every session before it is over.
THEOREM SessionsAreEntitled == Spec => []SessionsEntitled
<1>1. Init => SessionInv
  BY DEF Init, SessionInv, SessionsEntitled, Within, Nobody
<1>2. TypeOK /\ SessionInv /\ [Next]_vars => SessionInv'
  <2> SUFFICES ASSUME TypeOK, SessionInv, [Next]_vars PROVE SessionInv'
    OBVIOUS
  <2> USE DEF dirVars, grantVars, reloadVars, genVars
  <2>1. ASSUME UNCHANGED <<session, lists, who, rl, users, ids>> PROVE SessionInv'
    BY <2>1 DEF SessionInv, SessionsEntitled, Within, mayUse, allowsAnyone,
                readOnlyFor, anyAllowedWrites
  <2>2. ASSUME Moves \/ BreakOrMend \/ ApplyRefused PROVE SessionInv'
    BY <2>1, <2>2 DEF Moves, PersonGone, PersonSet, GroupSet, Move, BreakOrMend, ApplyRefused
  <2>3. ASSUME NEW s \in Subjects, Revoke(s) PROVE SessionInv'
    BY <2>1, <2>3 DEF Revoke, Change
  <2>4. ASSUME NEW s \in Subjects, NEW a \in Access \ {"none"}, Grant(s, a) PROVE SessionInv'
    BY <2>1, <2>4 DEF Grant, Change
  <2>5. ASSUME NEW list, swap(list), rl' = "idle" PROVE SessionInv'
    BY <2>5 DEF swap, SessionInv, SessionsEntitled, Within, Nobody
  <2>6. ASSUME Apply PROVE SessionInv'
    BY <2>5, <2>6 DEF Apply
  <2>7. ASSUME ReloadSwaps PROVE SessionInv'
    BY <2>5, <2>7 DEF ReloadSwaps
  <2>8. ASSUME ReloadRead \/ ReloadUnchanged \/ ReloadOpens \/ ReloadFails
                \/ ReloadOpenFails PROVE SessionInv'
    <3>1. UNCHANGED <<session, lists, who, users>> /\ rl' \notin {"set", "adding"} /\ rl # "set"
      BY <2>8 DEF ReloadRead, ReloadUnchanged, ReloadOpens, ReloadFails, ReloadOpenFails
    <3>2. QED
      BY <3>1 DEF SessionInv, SessionsEntitled, Within, mayUse, allowsAnyone,
                  readOnlyFor, anyAllowedWrites
  <2>9. ASSUME ReloadAdds PROVE SessionInv'
    <3>1. Within(who, ids)
      BY <2>9 DEF ReloadAdds, takesAway, removed, changed, Within
    <3>2. /\ rl = "read" /\ rl' = "adding" /\ who' = ids /\ ids' = [p \in added |-> ids[p]]
          /\ UNCHANGED <<session, lists, users>>
      BY <2>9 DEF ReloadAdds
    <3>3. SessionsEntitled'
      BY <3>1, <3>2 DEF SessionInv, SessionsEntitled, Within, mayUse, allowsAnyone,
                        readOnlyFor, anyAllowedWrites
    <3>4. Within(users, who)'
      BY <3>1, <3>2 DEF SessionInv, Within
    <3>5. Within(ids, who)'
      BY <3>2 DEF Within, added
    <3>6. QED
      BY <3>3, <3>4, <3>5 DEF SessionInv
  <2>10. ASSUME ReloadAddsToSmb PROVE SessionInv'
    <3>1. /\ rl = "adding" /\ rl' = "idle" /\ UNCHANGED <<session, lists, who>>
          /\ users' = IF adds THEN [p \in DOMAIN users \cup DOMAIN ids |->
                                      IF p \in DOMAIN ids THEN ids[p] ELSE users[p]]
                              ELSE users
      BY <2>10 DEF ReloadAddsToSmb
    <3>2. Within(users, who)'
      BY <3>1 DEF SessionInv, Within
    <3>3. QED
      BY <3>1, <3>2 DEF SessionInv, SessionsEntitled, mayUse, allowsAnyone,
                        readOnlyFor, anyAllowedWrites
  <2>11. ASSUME ReloadSetsPeople PROVE SessionInv'
    BY <2>11 DEF ReloadSetsPeople, SessionInv, SessionsEntitled
  <2>12. ASSUME SmbReadsPeople PROVE SessionInv'
    BY <2>12 DEF SmbReadsPeople, SessionInv, SessionsEntitled, Within, mayUse,
                 allowsAnyone, readOnlyFor, anyAllowedWrites
  <2>13. ASSUME SmbStoresAdd PROVE SessionInv'
    BY <2>1, <2>13 DEF SmbStoresAdd
  <2>14. ASSUME NEW p \in People, NEW table, rl # "set" => Within(table, who), Login(p, table)
         PROVE  SessionInv'
    BY <2>14 DEF Login, TypeOK, SessionInv, SessionsEntitled, Within, mayUse,
                 allowsAnyone, readOnlyFor, anyAllowedWrites
  <2>15. ASSUME NEW p \in People, Logout(p) PROVE SessionInv'
    BY <2>15 DEF Logout, TypeOK, SessionInv, SessionsEntitled, Within, mayUse,
                 allowsAnyone, readOnlyFor, anyAllowedWrites
  <2>16. ASSUME UNCHANGED vars PROVE SessionInv'
    BY <2>1, <2>16 DEF vars
  <2>17. (rl # "set" => Within(users, who)) /\ Within(who, who)
    BY DEF SessionInv, Within
  <2>18. QED
    BY <2>2, <2>3, <2>4, <2>6, <2>7, <2>8, <2>9, <2>10, <2>11, <2>12, <2>13, <2>14, <2>15,
       <2>16, <2>17
    DEF Next, SmbRuns, ReloadDecides, ReloadRuns, SmbLogin
<1>3. SessionInv => SessionsEntitled
  BY DEF SessionInv
<1>4. QED
  BY <1>1, <1>2, <1>3, ReloadTypeCorrect, PTL DEF Spec

\* A reload swaps the generation, and so disconnects everybody, only after
\* the directory took or changed something: while it only grows, nothing the
\* server holds is missing or different in what reload reads, and the lists
\* expand to what is served.
THEOREM ReloadDisconnectsForCause == Spec => DisconnectsOnlyForCause
<1>1. Init => CauseInv
  BY DEF Init, CauseInv, Within, openShare, block, expand
<1>2. TypeOK /\ CauseInv /\ [Next]_vars => CauseInv'
  <2> SUFFICES ASSUME TypeOK, CauseInv, [Next]_vars, ~taken' PROVE CauseInv'
    BY DEF CauseInv
  <2> USE DEF dirVars, grantVars, reloadVars, genVars
  <2>0. ASSUME UNCHANGED <<members, grants, lists>>, ~taken
        PROVE  /\ (lists.allow = expand(block(grants).allow))'
               /\ (~lists.readOnly => lists.writers = expand(block(grants).writers))'
    BY <2>0 DEF CauseInv, expand, block
  <2>1. ASSUME UNCHANGED <<dir, members, grants, lists, who, rl, ids, taken>> PROVE CauseInv'
    BY <2>0, <2>1 DEF CauseInv, Within
  <2>2. ASSUME NEW p \in People, PersonGone(p) PROVE CauseInv'
    BY <2>2 DEF PersonGone, CauseInv
  <2>3. ASSUME NEW p \in People, NEW c \in Creds, PersonSet(p, c) PROVE CauseInv'
    <3>1. /\ p \notin DOMAIN dir /\ ~taken /\ UNCHANGED <<members, grants, lists, who, rl, ids>>
          /\ dir' = [q \in DOMAIN dir \cup {p} |-> IF q = p THEN c ELSE dir[q]]
      BY <2>3 DEF PersonSet, Move
    <3>2. Within(dir, dir')
      BY <3>1 DEF Within
    <3>3. QED
      BY <2>0, <3>1, <3>2 DEF CauseInv, Within
  <2>4. ASSUME NEW g \in Groups, NEW S \in SUBSET People, GroupSet(g, S) PROVE CauseInv'
    BY <2>4 DEF GroupSet, CauseInv
  <2>5. ASSUME NEW s \in Subjects, Revoke(s) PROVE CauseInv'
    BY <2>1, <2>5 DEF Revoke, Change
  <2>6. ASSUME NEW s \in Subjects, NEW a \in Access \ {"none"}, Grant(s, a) PROVE CauseInv'
    BY <2>1, <2>6 DEF Grant, Change
  <2>7. ASSUME Apply PROVE CauseInv'
    <3>1. /\ lists' = openShare(block(ask)) /\ grants' = ask /\ rl = "idle"
          /\ UNCHANGED <<dir, members, who, rl, ids, taken, media>>
      BY <2>7 DEF Apply, swap
    <3>2. lists'.allow = expand(block(ask).allow)
      BY <3>1 DEF openShare
    <3>3. ~lists'.readOnly => lists'.writers = expand(block(ask).writers)
      BY <3>1 DEF openShare
    <3>4. QED
      BY <3>1, <3>2, <3>3 DEF CauseInv, Within, expand, block
  <2>8. ASSUME ReloadRead PROVE CauseInv'
    BY <2>0, <2>8 DEF ReloadRead, CauseInv, Within
  <2>9. ASSUME ReloadUnchanged \/ ReloadFails \/ ReloadOpenFails PROVE CauseInv'
    BY <2>0, <2>9 DEF ReloadUnchanged, ReloadFails, ReloadOpenFails, CauseInv, Within
  <2>10. ASSUME ReloadAdds PROVE CauseInv'
    BY <2>0, <2>10 DEF ReloadAdds, CauseInv, Within
  <2>11. ASSUME ReloadAddsToSmb PROVE CauseInv'
    BY <2>0, <2>11 DEF ReloadAddsToSmb, CauseInv, Within
  <2>12. ASSUME ReloadOpens PROVE CauseInv'
    <3>1. rl = "read" /\ takesAway /\ ~taken
      BY <2>12 DEF ReloadOpens
    <3>2. Within(who, ids) /\ ~listsChanged
      BY <3>1 DEF CauseInv, listsChanged, expandLists
    <3>3. removed = {} /\ changed = {}
      BY <3>2 DEF Within, removed, changed
    <3>4. QED
      BY <3>1, <3>2, <3>3 DEF takesAway
  <2>13. ASSUME ReloadSetsPeople \/ ReloadSwaps PROVE CauseInv'
    BY <2>13 DEF ReloadSetsPeople, ReloadSwaps, swap, CauseInv
  <2>14. ASSUME SmbReadsPeople \/ SmbStoresAdd PROVE CauseInv'
    BY <2>1, <2>14 DEF SmbReadsPeople, SmbStoresAdd
  <2>15. ASSUME NEW p \in People, SmbLogin(p) \/ Login(p, who) \/ Logout(p) PROVE CauseInv'
    BY <2>1, <2>15 DEF SmbLogin, Login, Logout
  <2>16. ASSUME BreakOrMend \/ ApplyRefused \/ UNCHANGED vars PROVE CauseInv'
    BY <2>1, <2>16 DEF BreakOrMend, ApplyRefused, vars
  <2>17. QED
    BY <2>2, <2>3, <2>4, <2>5, <2>6, <2>7, <2>8, <2>9, <2>10, <2>11, <2>12, <2>13, <2>14,
       <2>15, <2>16
    DEF Next, Moves, SmbRuns, ReloadDecides, ReloadRuns
<1>3. CauseInv => (rl = "set" /\ rl' = "idle" => taken)
  BY DEF CauseInv
<1>4. QED
  BY <1>1, <1>2, <1>3, ReloadTypeCorrect, PTL DEF Spec, DisconnectsOnlyForCause
=============================================================================
