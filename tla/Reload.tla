------------------------------ MODULE Reload ------------------------------
(***************************************************************************)
(* Who may use a share while the directory behind the server moves:        *)
(* reload.go, the grants of a share the admin API made (state.go,          *)
(* admin_grpc.go), what they expand to and whom that lets in (share.go),   *)
(* and the table of users the SMB server keeps (serve_smb.go).             *)
(*                                                                         *)
(* One share stands for each of them.  The directory is external: people,  *)
(* each with a credential, and groups.  A group that was deleted and one   *)
(* that was emptied expand to nobody alike, so both are an empty group.    *)
(* reload and apply exclude each other by server.changeMu; the steps of a  *)
(* generation between stop and start are module Generation.                *)
(***************************************************************************)
EXTENDS Integers, FiniteSets

CONSTANTS People, Groups,
          MaxMoves,     \* bound: how often the directory moves
          MaxChanges    \* bound: how many changes the admin API makes

ASSUME SubjectsAssumption == People \cap Groups = {} /\ IsFiniteSet(People \cup Groups)
ASSUME BoundsAssumption == MaxMoves \in Nat /\ MaxChanges \in Nat

Subjects == People \cup Groups
Creds == 1..2
Access == {"none", "read", "write"}

VARIABLES
  \* the directory
  dir,       \* the people in it, each with a credential
  members,   \* the members of each group
  moves,     \* how often it moved
  \* the share
  grants,    \* managedShare.Grants, as last applied
  ask,       \* the grants a change that passed its checks asks for, or NoChange
  changes,   \* how many changes were asked for
  media,     \* the driver fell back to read-only when the image was opened
  broken,    \* a list with this share would not open: its file is gone from
             \* its path, or what is there now does not open
  lists,     \* the share as served: what the lists expanded to, and the rest
  \* the server
  who,       \* server.who
  rl,        \* where reload is
  ids,       \* reload's next: the people it read
  pend,      \* the share it opened, the served one otherwise
  \* the running generation
  smb,       \* where serveSMB is
  users,     \* the SMB server's users
  adds,      \* server.smbAddUser adds to this generation's SMB server
  session,   \* who has a session on the share
  \* history, for the properties
  everIn,    \* everybody who was ever a member of each group
  taken      \* the directory has taken or changed something

dirVars == <<dir, members, moves, everIn>>
grantVars == <<grants, ask, changes, media, broken>>
reloadVars == <<rl, ids, pend>>
genVars == <<smb, users, adds, session>>
vars == <<dirVars, grantVars, lists, who, reloadVars, genVars, taken>>

Nobody == <<>>
NoChange == <<>>
NoSession == [cred |-> 0, write |-> FALSE]
-----------------------------------------------------------------------------
(***************************************************************************)
(* From grants to access.                                                  *)
(***************************************************************************)

\* managedShare.block: the allow and writers lists, and noWriters.
block(g) == [allow |-> {s \in Subjects : g[s] # "none"},
             writers |-> {s \in Subjects : g[s] = "write"},
             noWriters |-> \A s \in Subjects : g[s] # "write"]

\* tolerantExpand: a person stays in the list whoever is in the directory, a
\* group is its members now.
expand(names) == (names \cap People) \cup UNION {members[g] : g \in names \cap Groups}

\* What openSharesExpanding makes of a block: the share.
openShare(b) ==
  LET readOnly == b.noWriters \/ media
  IN [allow |-> expand(b.allow),
      writers |-> IF media THEN {} ELSE expand(b.writers),
      readOnly |-> readOnly,
      allowNamed |-> b.allow # {},
      writersNamed |-> b.writers # {}]

\* Mutant of allowsAnyone: a list that expanded to nobody is no list.
allowsAnyoneIfEmpty(sh) == sh.allow = {}
allowsAnyone(sh) == ~sh.allowNamed /\ sh.allow = {}
anyAllowedWrites(sh) == ~sh.writersNamed /\ sh.writers = {}
mayUse(sh, p) == allowsAnyone(sh) \/ p \in sh.allow
readOnlyFor(sh, p) == sh.readOnly \/ ~(anyAllowedWrites(sh) \/ p \in sh.writers)

\* config.resolve, for the share a change writes: every person it names is
\* one the server knows.  Its groups are looked up, and taken to be found.
resolve(b) == b.allow \cap People \subseteq DOMAIN who
-----------------------------------------------------------------------------
Init ==
  /\ dir \in {[p \in S |-> 1] : S \in SUBSET People}
  /\ members \in [Groups -> SUBSET People]
  /\ moves = 0
  /\ grants \in [Subjects -> Access] /\ \E s \in Subjects : grants[s] # "none"
  /\ ask = NoChange /\ changes = 0
  /\ media \in BOOLEAN /\ broken = FALSE
  /\ lists = openShare(block(grants))
  /\ who = dir /\ resolve(block(grants))
  /\ rl = "idle" /\ ids = Nobody /\ pend = lists
  /\ smb = "starting" /\ users = Nobody /\ adds = FALSE
  /\ session = [p \in People |-> NoSession]
  /\ everIn = members
  /\ taken = FALSE
-----------------------------------------------------------------------------
(***************************************************************************)
(* The directory moves: other programs write to it.                        *)
(***************************************************************************)
Move ==
  /\ moves < MaxMoves
  /\ moves' = moves + 1
  /\ UNCHANGED <<grantVars, lists, who, reloadVars, genVars>>

\* Somebody appears, or has a new credential.
PersonSet(p, c) ==
  /\ Move
  /\ p \in DOMAIN dir => dir[p] # c
  /\ dir' = [q \in DOMAIN dir \cup {p} |-> IF q = p THEN c ELSE dir[q]]
  /\ taken' = (taken \/ p \in DOMAIN dir)
  /\ UNCHANGED <<members, everIn>>

PersonGone(p) ==
  /\ Move
  /\ p \in DOMAIN dir
  /\ dir' = [q \in DOMAIN dir \ {p} |-> dir[q]]
  /\ taken' = TRUE
  /\ UNCHANGED <<members, everIn>>

GroupSet(g, S) ==
  /\ Move
  /\ S # members[g]
  /\ members' = [members EXCEPT ![g] = S]
  /\ everIn' = [everIn EXCEPT ![g] = @ \cup S]
  /\ taken' = TRUE
  /\ UNCHANGED dir

\* The share's file is taken away, or put back.  The driver that is open goes
\* on serving; sameImage finds no file to compare, so a list opened now needs
\* a driver of its own, and has none.
BreakOrMend ==
  /\ broken' = ~broken
  /\ UNCHANGED <<dirVars, grants, ask, changes, media, lists, who, reloadVars, genVars, taken>>
-----------------------------------------------------------------------------
(***************************************************************************)
(* A new generation: every session is over, and serveSMB begins again.     *)
(***************************************************************************)
\* Mutant of swap: the old generation's sessions are left to finish.
swapKeepsSessions(list) ==
  /\ lists' = list
  /\ smb' = "starting" /\ users' = Nobody /\ adds' = FALSE
  /\ pend' = list
  /\ UNCHANGED <<session, taken>>

swap(list) ==
  /\ lists' = list
  /\ smb' = "starting" /\ users' = Nobody /\ adds' = FALSE
  /\ session' = [p \in People |-> NoSession]
  /\ pend' = list
  /\ UNCHANGED taken

\* serveSMB reads the people, and only then stores how to add one.
SmbReadsPeople ==
  /\ smb = "starting"
  /\ users' = who
  /\ smb' = "read"
  /\ UNCHANGED <<dirVars, grantVars, lists, who, reloadVars, adds, session, taken>>

SmbStoresAdd ==
  /\ smb = "read"
  /\ adds' = TRUE
  /\ smb' = "serving"
  /\ UNCHANGED <<dirVars, grantVars, lists, who, reloadVars, users, session, taken>>

\* Somebody logs in: over SMB against its table, over the others against
\* server.who.
Login(p, table) ==
  /\ p \in DOMAIN table
  /\ mayUse(lists, p)
  /\ session[p] = NoSession
  /\ session' = [session EXCEPT ![p] = [cred |-> table[p], write |-> ~readOnlyFor(lists, p)]]
  /\ UNCHANGED <<dirVars, grantVars, lists, who, reloadVars, smb, users, adds, taken>>

SmbLogin(p) == smb = "serving" /\ Login(p, users)

Logout(p) ==
  /\ session[p] # NoSession
  /\ session' = [session EXCEPT ![p] = NoSession]
  /\ UNCHANGED <<dirVars, grantVars, lists, who, reloadVars, smb, users, adds, taken>>
-----------------------------------------------------------------------------
(***************************************************************************)
(* The admin API: the edit and the checks, then the rest of apply under    *)
(* changeMu.                                                               *)
(***************************************************************************)
\* manager.change: what an edit leaves as it was is not resolved again, and
\* is served again all the same.
Change(g) ==
  /\ ask = NoChange
  /\ changes < MaxChanges
  /\ g # grants => resolve(block(g))
  /\ ask' = g
  /\ changes' = changes + 1
  /\ UNCHANGED <<dirVars, grants, media, broken, lists, who, reloadVars, genVars, taken>>

Grant(s, a) == Change([grants EXCEPT ![s] = a])

\* Revoking the last grant is refused.
Revoke(s) ==
  /\ grants[s] # "none"
  /\ \E t \in Subjects \ {s} : grants[t] # "none"
  /\ Change([grants EXCEPT ![s] = "none"])

Apply ==
  /\ ask # NoChange
  /\ rl = "idle"
  /\ ~broken
  /\ grants' = ask
  /\ ask' = NoChange
  /\ swap(openShare(block(ask)))
  /\ UNCHANGED <<dirVars, changes, media, broken, who, rl, ids>>

\* A share did not open: the change is refused, a revocation too.
ApplyRefused ==
  /\ ask # NoChange
  /\ rl = "idle"
  /\ broken
  /\ ask' = NoChange
  /\ UNCHANGED <<dirVars, grants, changes, media, broken, lists, who, reloadVars, genVars, taken>>
-----------------------------------------------------------------------------
(***************************************************************************)
(* reload, under changeMu.                                                 *)
(***************************************************************************)

\* dir.Identities answered.  When it does not, nothing changes.
ReloadRead ==
  /\ rl = "idle"
  /\ ids' = dir
  /\ rl' = "read"
  /\ UNCHANGED <<dirVars, grantVars, lists, who, pend, genVars, taken>>

added == DOMAIN ids \ DOMAIN who
removed == DOMAIN who \ DOMAIN ids
changed == {p \in DOMAIN ids \cap DOMAIN who : ids[p] # who[p]}

expandLists(b) == [allow |-> expand(b.allow), writers |-> expand(b.writers)]

\* Mutant of listsChanged: writers are compared on read-only media too.
listsChangedOnMedia ==
  LET now == expandLists(block(grants))
  IN now.allow # lists.allow \/ now.writers # lists.writers

\* The share's lists expand to something else than what is served.
listsChanged ==
  LET now == expandLists(block(grants))
  IN now.allow # lists.allow \/ (~lists.readOnly /\ now.writers # lists.writers)

\* Mutant of takesAway: only people are compared.
takesAwayPeople == removed # {} \/ changed # {}
takesAway == removed # {} \/ changed # {} \/ listsChanged

\* Nothing changed.
ReloadUnchanged ==
  /\ rl = "read"
  /\ ~takesAway /\ added = {}
  /\ rl' = "idle" /\ ids' = Nobody
  /\ UNCHANGED <<dirVars, grantVars, lists, who, pend, genVars, taken>>

\* Mutant of ReloadAdds: the addition reaches SMB alone.
ReloadAddsSmbOnly ==
  /\ rl = "read"
  /\ ~takesAway /\ added # {}
  /\ rl' = "adding" /\ ids' = [p \in added |-> ids[p]]
  /\ UNCHANGED <<dirVars, grantVars, lists, who, pend, genVars, taken>>

\* Additions only: the people are replaced, nobody is disconnected.
ReloadAdds ==
  /\ rl = "read"
  /\ ~takesAway /\ added # {}
  /\ who' = ids
  /\ rl' = "adding" /\ ids' = [p \in added |-> ids[p]]
  /\ UNCHANGED <<dirVars, grantVars, lists, pend, genVars, taken>>

\* smbAddUser.Load, and every addition made through what it holds.
ReloadAddsToSmb ==
  /\ rl = "adding"
  /\ users' = IF adds THEN [p \in DOMAIN users \cup DOMAIN ids |->
                              IF p \in DOMAIN ids THEN ids[p] ELSE users[p]]
                      ELSE users
  /\ rl' = "idle" /\ ids' = Nobody
  /\ UNCHANGED <<dirVars, grantVars, lists, who, pend, smb, adds, session, taken>>

\* Something was taken away: the shares are opened, which expands their
\* lists again, against the groups as they are by now.
ReloadOpens ==
  /\ rl = "read"
  /\ takesAway
  /\ ~broken
  /\ pend' = openShare(block(grants))
  /\ rl' = "opened"
  /\ UNCHANGED <<dirVars, grantVars, lists, who, ids, genVars, taken>>

\* One does not open: nothing changes, who has been removed included.
ReloadOpenFails ==
  /\ rl = "read"
  /\ takesAway
  /\ broken
  /\ rl' = "idle" /\ ids' = Nobody
  /\ UNCHANGED <<dirVars, grantVars, lists, who, pend, genVars, taken>>

ReloadSetsPeople ==
  /\ rl = "opened"
  /\ who' = ids
  /\ rl' = "set"
  /\ UNCHANGED <<dirVars, grantVars, lists, ids, pend, genVars, taken>>

ReloadSwaps ==
  /\ rl = "set"
  /\ swap(pend)
  /\ rl' = "idle" /\ ids' = Nobody
  /\ UNCHANGED <<dirVars, grantVars, who>>

\* The directory could not answer for a group.
ReloadFails ==
  /\ rl = "read"
  /\ rl' = "idle" /\ ids' = Nobody
  /\ UNCHANGED <<dirVars, grantVars, lists, who, pend, genVars, taken>>
-----------------------------------------------------------------------------
Moves == \/ \E p \in People : PersonGone(p) \/ \E c \in Creds : PersonSet(p, c)
         \/ \E g \in Groups, S \in SUBSET People : GroupSet(g, S)

SmbRuns == SmbReadsPeople \/ SmbStoresAdd

ReloadDecides == ReloadUnchanged \/ ReloadAdds \/ ReloadOpens \/ ReloadOpenFails
ReloadRuns == ReloadAddsToSmb \/ ReloadSetsPeople \/ ReloadSwaps

Next ==
  \/ Moves \/ BreakOrMend
  \/ \E s \in Subjects : Revoke(s) \/ \E a \in Access \ {"none"} : Grant(s, a)
  \/ Apply \/ ApplyRefused
  \/ ReloadRead \/ ReloadDecides \/ ReloadRuns \/ ReloadFails
  \/ SmbRuns
  \/ \E p \in People : SmbLogin(p) \/ Login(p, who) \/ Logout(p)

Spec == Init /\ [][Next]_vars

\* Fairness: the configuration says reload, so the directory is read again
\* and again, and its outages end; a reload and serveSMB, once begun, go on.
\* Nothing is assumed of clients, of the directory moving, of the API, or of
\* a share's file coming back.
FairSpec == /\ Spec
            /\ WF_vars(ReloadRead) /\ SF_vars(ReloadDecides)
            /\ WF_vars(ReloadRuns) /\ WF_vars(SmbRuns)
-----------------------------------------------------------------------------
(***************************************************************************)
(* Properties.                                                             *)
(***************************************************************************)
PeopleMap(f) == DOMAIN f \subseteq People /\ f \in [DOMAIN f -> Creds]
Share == [allow : SUBSET People, writers : SUBSET People, readOnly : BOOLEAN,
          allowNamed : BOOLEAN, writersNamed : BOOLEAN]

\* The types of the variables.
TypeOK ==
  /\ PeopleMap(dir) /\ PeopleMap(who) /\ PeopleMap(ids) /\ PeopleMap(users)
  /\ members \in [Groups -> SUBSET People] /\ everIn \in [Groups -> SUBSET People]
  /\ moves \in 0..MaxMoves /\ changes \in 0..MaxChanges
  /\ grants \in [Subjects -> Access] /\ ask \in [Subjects -> Access] \cup {NoChange}
  /\ {media, broken, adds, taken} \subseteq BOOLEAN
  /\ lists \in Share /\ pend \in Share
  /\ rl \in {"idle", "read", "adding", "opened", "set"}
  /\ smb \in {"starting", "read", "serving"}
  /\ session \in [People -> [cred : 0..2, write : BOOLEAN]]

\* A session is never more than the server would grant now: its person is
\* known with the credential it was opened with and the served share lets
\* them in, and write when it writes.  Only between setPeople and the swap it
\* leads to may a session outlive its person.
SessionsEntitled ==
  \A p \in People :
    session[p] # NoSession /\ rl # "set" =>
      /\ p \in DOMAIN who /\ who[p] = session[p].cred
      /\ mayUse(lists, p)
      /\ session[p].write => ~readOnlyFor(lists, p)

\* Access comes from a grant and from nothing else: whoever is let in is
\* granted access by name or through a group they were in, and whoever
\* writes was granted write.  Groups emptying, a list nobody is left in, and
\* a share whose grants all read do not open it.
AccessByGrantOnly ==
  \A p \in People :
    LET through(S) == \E s \in Subjects : /\ grants[s] \in S
                                          /\ s = p \/ (s \in Groups /\ p \in everIn[s])
    IN /\ mayUse(lists, p) => through({"read", "write"})
       /\ ~readOnlyFor(lists, p) => through({"write"})

\* A reload disconnects people only if the directory ever took something
\* away or changed a group: new people all day long, and read-only media
\* whose writers list is not what is served, disturb nobody.
DisconnectsOnlyForCause == [][rl = "set" /\ rl' = "idle" => taken]_vars

\* p is in the directory and a grant reaches them.
EntitledNow(p) ==
  /\ p \in DOMAIN dir
  /\ \E s \in Subjects : grants[s] # "none" /\ (s = p \/ (s \in Groups /\ p \in members[s]))

\* Somebody who is out of the directory, or of every grant, for good is in
\* the end out of the share, however they log in meanwhile, provided every
\* share the server serves can be opened: as long as one cannot, reload
\* changes nothing, and who was removed stays in.
RevokedIsOut ==
  \A p \in People : <>[](~EntitledNow(p) /\ ~broken) => <>[](session[p] = NoSession)

\* Somebody the directory has for good is in the end known to the server,
\* with the same proviso: an addition read together with a removal waits for
\* the shares to open as the removal does.
AddedIsIn ==
  \A p \in People : <>[](p \in DOMAIN dir /\ ~broken) => <>[](p \in DOMAIN who)

\* What the comment at the top of reload.go says of an addition: added in
\* place, SMB's running server included.
AddedReachesSmb ==
  \A p \in People : <>[](p \in DOMAIN dir /\ ~broken) => <>[](p \in DOMAIN users)
=============================================================================
