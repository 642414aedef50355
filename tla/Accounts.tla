------------------------------ MODULE Accounts ------------------------------
(***************************************************************************)
(* The account a worker runs as (internal/account, internal/launch): what  *)
(* the directory and /etc/passwd say of a person, what the policy makes of *)
(* it, and what the worker checks of itself before it touches a file.      *)
(*                                                                         *)
(* An id is a number of 0 .. NoChange, NoChange standing for 2^32 - 1, the *)
(* (uid_t)-1 that setresuid reads as "leave it as it is"; a value that is  *)
(* no such number is written NoChange + 1.  A person's entry is            *)
(*   [us, gs: what uidNumber and gidNumber hold, groups, listed: what the  *)
(*    gidNumber of each group they name, and of each that lists them,      *)
(*    holds, passwd: the accounts of their name in /etc/passwd, one or     *)
(*    none]                                                                *)
(* and what may fail answers a set: one account, or none when it refuses.  *)
(***************************************************************************)
EXTENDS Integers, Sequences

CONSTANT NoChange

ASSUME AccountsAssumption == NoChange \in Nat \ {0}

Ids == 0..NoChange

\* parseID, and one: exactly one value, and a number.
one(vals) == {n \in Ids : vals = <<n>>}

\* Neither attribute: not found here, and /etc/passwd is asked.
inDirectory(e) == e.us # <<>> \/ e.gs # <<>>

\* groupsOf: the groups they name and, of launcherResolver's memberOf, those
\* that list them.
groupsOf(e) == e.groups \cup e.listed

\* groupGID: a group without a number is no system group and gives nothing;
\* one whose number cannot be told is an error.
groupGIDFails(vals) == vals # <<>> /\ one(vals) = {}
groupGIDs(e) == UNION {one(vals) : vals \in groupsOf(e)}

\* fromDirectory: one of each, and every group's number readable, or no
\* account at all.
fromDirectory(e) ==
  {[uid |-> u, gid |-> g, groups |-> groupGIDs(e)] :
     u \in one(e.us), g \in {n \in one(e.gs) : \A vals \in groupsOf(e) : ~groupGIDFails(vals)}}

\* Mutant of find: half an account in the directory falls back to the host's.
findEither(e) == IF fromDirectory(e) # {} THEN fromDirectory(e) ELSE e.passwd

\* Resolver.find.
find(e) == IF inDirectory(e) THEN fromDirectory(e) ELSE e.passwd

\* Policy.apply: root, -1, and what the policy denies are refused; groups it
\* denies are dropped.
apply(pol, a) ==
  IF \/ a.uid \in {0, NoChange} \/ a.gid \in {0, NoChange}
     \/ a.uid < pol.minUID \/ a.gid < pol.minGID \/ a.uid \in pol.denyUIDs
    THEN {}
    ELSE {[a EXCEPT !.groups = {a.gid} \cup {g \in @ : g \notin {0, NoChange} /\ g >= pol.minGID}]}

Resolve(pol, e) == UNION {apply(pol, a) : a \in find(e)}

\* command and sysProcAttr, and what the kernel makes of them.
Exec(a) == [uid |-> IF a.uid = NoChange THEN 0 ELSE a.uid,
            gid |-> IF a.gid = NoChange THEN 0 ELSE a.gid, groups |-> a.groups]

\* ParseExpect, of what workerArgs wrote.
ParseExpect(a) == {e \in {a} : NoChange \notin {a.uid, a.gid} \cup a.groups}

\* verify: it runs as exactly that, and cannot be root again.
verify(proc, e) ==
  /\ e.uid # 0
  /\ proc.uid = e.uid /\ proc.gid = e.gid
  /\ proc.groups \ {e.gid} = e.groups \ {e.gid}
  /\ proc.uid # 0

\* Launcher.start and Worker: the processes that serve e's owner.
Worker(pol, e) ==
  UNION {{proc \in {Exec(a)} : \E x \in ParseExpect(a) : verify(proc, x)} : a \in Resolve(pol, e)}
=============================================================================
