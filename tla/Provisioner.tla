---------------------------- MODULE Provisioner ----------------------------
(***************************************************************************)
(* The volume provisioner: service.go and state.go of internal/provision,  *)
(* over its XFS/ext4 backend (projquota.go), its btrfs one (btrfs.go) or   *)
(* its ZFS one (zfs.go).                                                   *)
(*                                                                         *)
(* Every request runs under service.mu, so one is in progress at a time;   *)
(* what interleaves with its steps is failure: of a system call, of the    *)
(* write of the state file, and of the process.  What was done to the      *)
(* filesystem stays.                                                       *)
(*                                                                         *)
(* An object is the directory, subvolume or dataset of a volume.  Its tag  *)
(* is what tells whose it is: the project id set on a directory, the id of *)
(* a subvolume, the mark a dataset carries itself, 0 when it carries none  *)
(* or only inherits one.  A limit is kept by the filesystem under a tag.   *)
(* A dataset is given to the group by mounting it; whether a mount is      *)
(* still there is not kept here.                                           *)
(***************************************************************************)
EXTENDS Integers, FiniteSets, Functions

CONSTANTS Names,    \* the names of volumes, in one parent
          Quotas,   \* the quotas asked for, none of them 0
          Tags,     \* the parent's range of project ids, subvolume ids, or marks
          Snaps,    \* the names of snapshots
          Kinds     \* the backends considered: "project", "btrfs", "zfs"

ASSUME QuotasAssumption == Quotas \subseteq Nat \ {0}
ASSUME TagsAssumption == Tags \subseteq Nat \ {0} /\ IsFiniteSet(Tags)
ASSUME KindsAssumption == Kinds \subseteq {"project", "btrfs", "zfs"}
ASSUME MarksAssumption == "zfs" \in Kinds => Injection(Names, Tags) # {}

VARIABLES
  kind,    \* the parent's backend
  up,      \* the process runs
  vols,    \* state.vols: name -> record
  disk,    \* the state file
  op,      \* the request in progress
  objects, \* what is at each volume's path
  limit,   \* tag -> the limit the filesystem enforces, 0 for none
  snaps    \* the snapshots in a volume's snapshot directory

vars == <<kind, up, vols, disk, op, objects, limit, snaps>>

NoRecord == [quota |-> 0, pending |-> FALSE, tag |-> 0, snapshots |-> {}]
NoObject == [made |-> "none", tag |-> 0, given |-> FALSE]
Idle == [what |-> "none", name |-> "", quota |-> 0, snap |-> "", step |-> "idle"]

recorded(n) == vols[n].quota # 0
present(n) == objects[n].made # "none"

\* ownerProp's value <parent id>/<name>: each name has its own.
markOf == CHOOSE f \in Injection(Names, Tags) : TRUE

\* backend.owned says the object at a name is not the recorded one.  A
\* pending record claims a directory without a project id, or a subvolume
\* whose id it does not know yet.  A dataset's mark is enough, recorded or not.
projOwned(r, o) == (r.pending /\ o.tag = 0) \/ (r.tag # 0 /\ o.tag = r.tag)
btrfsOwned(r, o) == o.tag # 0 /\ IF r.tag = 0 THEN r.pending ELSE o.tag = r.tag
zfsOwned(n, o) == o.tag = markOf[n]
notOurs(n, r, o) == CASE kind = "project" -> ~projOwned(r, o)
                      [] kind = "btrfs" -> ~btrfsOwned(r, o)
                      [] OTHER -> ~zfsOwned(n, o)

\* What the limit of a recorded volume is kept under.
limitOf(n) == IF kind = "zfs" THEN markOf[n] ELSE vols[n].tag

\* backend.snapshots: ZFS is asked, the others have what was recorded.
snapshots(n) == IF kind = "zfs" THEN snaps[n] ELSE vols[n].snapshots

\* Mutant of free: the ids of pending records are given out again.
freeOfFinished == {t \in Tags : \A n \in Names : vols[n].tag # t \/ vols[n].pending}

\* service.allocate: the ids of the range no record holds, the lowest first.
free == {t \in Tags : \A n \in Names : vols[n].tag # t}

allocate == CHOOSE t \in free : \A u \in free : t <= u

\* The ids the kernel may give a new subvolume: never one in use.
fresh == {t \in Tags : /\ limit[t] = 0
                       /\ \A n \in Names : t \notin {vols[n].tag, disk[n].tag, objects[n].tag}}
-----------------------------------------------------------------------------
Init ==
  /\ kind \in Kinds
  /\ up = TRUE
  /\ vols = [n \in Names |-> NoRecord] /\ disk = vols
  /\ op = Idle
  /\ objects \in [Names -> {NoObject} \cup [made : {"foreign"}, tag : {0} \cup Tags, given : {TRUE}]]
  /\ kind = "zfs" => \A n \in Names : objects[n].tag # markOf[n]
  /\ limit = [t \in Tags |-> 0]
  /\ snaps = [n \in Names |-> {}]
-----------------------------------------------------------------------------
(***************************************************************************)
(* A request begins under service.mu, takes steps and ends.  Requests that *)
(* change nothing are not here: those refused, on what the record says or  *)
(* for want of room or because a volume is in use, and those answered from *)
(* the record, such as a creation of what exists.                          *)
(***************************************************************************)
Begin(what, n, q, s, step) ==
  /\ up /\ op = Idle
  /\ op' = [what |-> what, name |-> n, quota |-> q, snap |-> s, step |-> step]

Ends == op' = Idle

At(step) == up /\ op.step = step
Goes(step) == op' = [op EXCEPT !.step = step]

\* state.save: the records replace the file -- or, when it fails, they may
\* have: the directory's sync comes after the rename.
save == disk' = vols'
saveFails == disk' \in {disk, vols'}
-----------------------------------------------------------------------------
(***************************************************************************)
(* CreateVolume.                                                           *)
(***************************************************************************)

\* Mutant of CreateNew: what is already at the path is not looked at.
CreateOver(n, q) ==
  /\ ~recorded(n)
  /\ kind = "project" => free # {}
  /\ vols' = [vols EXCEPT ![n] = [quota |-> q, pending |-> TRUE, snapshots |-> {},
                                  tag |-> IF kind = "project" THEN allocate ELSE 0]]
  /\ Begin("create", n, q, "", "record")
  /\ UNCHANGED <<kind, up, disk, objects, limit, snaps>>

\* Nothing recorded and nothing there: a pending record is written first.
CreateNew(n, q) ==
  /\ ~recorded(n) /\ ~present(n)
  /\ kind = "project" => free # {}
  /\ vols' = [vols EXCEPT ![n] = [quota |-> q, pending |-> TRUE, snapshots |-> {},
                                  tag |-> IF kind = "project" THEN allocate ELSE 0]]
  /\ Begin("create", n, q, "", "record")
  /\ UNCHANGED <<kind, up, disk, objects, limit, snaps>>

CreateRecorded ==
  /\ At("record")
  /\ UNCHANGED vols /\ save
  /\ Goes("make")
  /\ UNCHANGED <<kind, up, objects, limit, snaps>>

CreateNotRecorded ==
  /\ At("record")
  /\ disk' \in {disk, vols}
  /\ vols' = [vols EXCEPT ![op.name] = NoRecord]
  /\ Ends
  /\ UNCHANGED <<kind, up, objects, limit, snaps>>

\* No record, and a dataset with our mark: it is recorded as it is, in memory
\* even when that cannot be saved.
CreateFound(n, q) ==
  /\ ~recorded(n) /\ present(n) /\ ~notOurs(n, NoRecord, objects[n])
  /\ vols' = [vols EXCEPT ![n] = [NoRecord EXCEPT !.quota = limit[limitOf(n)]]]
  /\ Begin("create", n, q, "", "finish")
  /\ UNCHANGED <<kind, up, disk, objects, limit, snaps>>

\* A creation that did not finish is taken up again.
CreateAgain(n, q) ==
  /\ recorded(n) /\ vols[n].quota = q /\ vols[n].pending
  /\ Begin("create", n, q, "", "make")
  /\ UNCHANGED <<kind, up, vols, disk, objects, limit, snaps>>

\* backend.create, step by step: the directory or the subvolume; its tag,
\* set or read; the limit; and only then the group that lets fileshare in.
\* What was made is looked at before it is tagged: a subvolume is not the
\* recorded one when the record already holds another's id.  A dataset is
\* made with its limit and its mark.
tagsOfNew(n) == CASE kind = "project" -> {0}
                  [] kind = "btrfs" -> fresh
                  [] OTHER -> {markOf[n]}

limitAsMade(n) == IF kind = "zfs" THEN [limit EXCEPT ![limitOf(n)] = vols[n].quota] ELSE limit

Make ==
  /\ At("make")
  /\ LET r == vols[op.name]
         next == IF kind = "zfs" THEN "give" ELSE "tag"
     IN IF present(op.name)
        THEN /\ ~notOurs(op.name, r, objects[op.name])
             /\ Goes(next)
             /\ UNCHANGED <<objects, limit>>
        ELSE \E t \in tagsOfNew(op.name) :
               LET new == [made |-> "ours", tag |-> t, given |-> FALSE]
               IN /\ objects' = [objects EXCEPT ![op.name] = new]
                  /\ limit' = limitAsMade(op.name)
                  /\ IF notOurs(op.name, r, new) THEN Ends ELSE Goes(next)
  /\ UNCHANGED <<kind, up, vols, disk, snaps>>

\* Mutant of Tag: the group before the limit.
TagThenGive ==
  /\ At("tag")
  /\ IF kind = "project"
     THEN /\ objects' = [objects EXCEPT ![op.name].tag = vols[op.name].tag]
          /\ UNCHANGED vols
     ELSE /\ vols' = [vols EXCEPT ![op.name].tag = objects[op.name].tag]
          /\ UNCHANGED objects
  /\ Goes("give")
  /\ UNCHANGED <<kind, up, disk, limit, snaps>>

Tag ==
  /\ At("tag")
  /\ IF kind = "project"
     THEN /\ objects' = [objects EXCEPT ![op.name].tag = vols[op.name].tag]
          /\ UNCHANGED vols
     ELSE /\ vols' = [vols EXCEPT ![op.name].tag = objects[op.name].tag]
          /\ UNCHANGED objects
  /\ Goes("limit")
  /\ UNCHANGED <<kind, up, disk, limit, snaps>>

Limit ==
  /\ At("limit")
  /\ limit' = [limit EXCEPT ![limitOf(op.name)] = vols[op.name].quota]
  /\ Goes("give")
  /\ UNCHANGED <<kind, up, vols, disk, objects, snaps>>

Give ==
  /\ At("give")
  /\ objects' = [objects EXCEPT ![op.name].given = TRUE]
  /\ vols' = [vols EXCEPT ![op.name].pending = FALSE]
  /\ Goes("finish")
  /\ UNCHANGED <<kind, up, disk, limit, snaps>>

\* Mutant of MakeFails: the record goes whatever was made.
MakeFailsForgets ==
  /\ \E step \in {"make", "tag", "limit", "give"} : At(step)
  /\ vols' = [vols EXCEPT ![op.name] = NoRecord] /\ saveFails
  /\ Ends
  /\ UNCHANGED <<kind, up, objects, limit, snaps>>

\* A step of backend.create failed: when nothing was made the record goes,
\* written down or not.
MakeFails ==
  /\ \E step \in {"make", "tag", "limit", "give"} : At(step)
  /\ IF present(op.name)
     THEN UNCHANGED <<vols, disk>>
     ELSE vols' = [vols EXCEPT ![op.name] = NoRecord] /\ saveFails
  /\ Ends
  /\ UNCHANGED <<kind, up, objects, limit, snaps>>
-----------------------------------------------------------------------------
(***************************************************************************)
(* ResizeVolume and SnapshotVolume, of a finished volume that is ours.     *)
(***************************************************************************)
finished(n) == /\ recorded(n) /\ ~vols[n].pending
               /\ present(n) /\ ~notOurs(n, vols[n], objects[n])

ResizeVolume(n, q) ==
  /\ finished(n) /\ vols[n].quota # q
  /\ Begin("resize", n, q, "", "resize")
  /\ UNCHANGED <<kind, up, vols, disk, objects, limit, snaps>>

\* The limit, then the record in memory.
Resize ==
  /\ At("resize")
  /\ limit' = [limit EXCEPT ![limitOf(op.name)] = op.quota]
  /\ vols' = [vols EXCEPT ![op.name].quota = op.quota]
  /\ Goes("finish")
  /\ UNCHANGED <<kind, up, disk, objects, snaps>>

SnapshotVolume(n, s) ==
  /\ kind # "project"
  /\ finished(n) /\ s \notin snapshots(n)
  /\ Begin("snapshot", n, 0, s, "snapshot")
  /\ UNCHANGED <<kind, up, vols, disk, objects, limit, snaps>>

Snapshot ==
  /\ At("snapshot")
  /\ op.snap \notin snaps[op.name]
  /\ snaps' = [snaps EXCEPT ![op.name] = @ \cup {op.snap}]
  /\ vols' = IF kind = "zfs" THEN vols ELSE [vols EXCEPT ![op.name].snapshots = @ \cup {op.snap}]
  /\ Goes("finish")
  /\ UNCHANGED <<kind, up, disk, objects, limit>>

\* The system call failed; a snapshot that is already there always does.
StepFails ==
  /\ \E step \in {"resize", "snapshot"} : At(step)
  /\ Ends
  /\ UNCHANGED <<kind, up, vols, disk, objects, limit, snaps>>
-----------------------------------------------------------------------------
(***************************************************************************)
(* DeleteVolume.                                                           *)
(***************************************************************************)

\* zfsBackend.empty mounts the dataset to look into it.
emptyGives(n) == IF kind = "zfs" /\ present(n) THEN {objects, [objects EXCEPT ![n].given = TRUE]}
                                              ELSE {objects}

\* What is recorded is ours, or is not there any more.  Nothing to
\* destroy is known of an absent one but its limit.
DeleteVolume(n) ==
  /\ recorded(n) \/ present(n)
  /\ present(n) => ~notOurs(n, vols[n], objects[n])
  /\ Begin("delete", n, 0, "", IF kind = "project" THEN "remove" ELSE "snapshots")
  /\ objects' \in emptyGives(n)
  /\ UNCHANGED <<kind, up, vols, disk, limit, snaps>>

\* A delete refused because the volume is not empty, or could not be read.
DeleteRefused(n) ==
  /\ up /\ op = Idle
  /\ kind = "zfs" /\ present(n) /\ ~notOurs(n, vols[n], objects[n]) /\ snaps[n] = {}
  /\ objects' \in emptyGives(n)
  /\ UNCHANGED <<kind, up, vols, disk, op, limit, snaps>>

\* The snapshots, then their directory, which must be empty.
DeleteSnapshots ==
  /\ At("snapshots")
  /\ LET left == IF present(op.name) THEN snaps[op.name] \ snapshots(op.name)
                                     ELSE snaps[op.name]
     IN /\ snaps' = [snaps EXCEPT ![op.name] = left]
        /\ IF left = {} THEN Goes("remove") ELSE Ends
  /\ UNCHANGED <<kind, up, vols, disk, objects, limit>>

lifted(n) == [t \in Tags |-> IF t = limitOf(n) THEN 0 ELSE limit[t]]

Remove ==
  /\ At("remove")
  /\ objects' = [objects EXCEPT ![op.name] = NoObject]
  /\ limit' = IF kind = "zfs" THEN lifted(op.name) ELSE limit
  /\ Goes("lift")
  /\ UNCHANGED <<kind, up, vols, disk, snaps>>

\* The limit is lifted -- on btrfs nobody looks whether it was, and the id
\* is never given to another subvolume; on ZFS it went with the dataset, and
\* the mount point goes -- and the record removed.
Lift ==
  /\ At("lift")
  /\ limit' \in IF kind = "btrfs" THEN {lifted(op.name), limit} ELSE {lifted(op.name)}
  /\ vols' = [vols EXCEPT ![op.name] = NoRecord]
  /\ Goes("finish")
  /\ UNCHANGED <<kind, up, disk, objects, snaps>>

\* A system call failed: some of the snapshots may be gone by then, and the
\* record stays as it is.
DestroyFails ==
  /\ \/ At("remove") /\ UNCHANGED snaps
     \/ At("lift") /\ kind # "btrfs" /\ UNCHANGED snaps
     \/ /\ At("snapshots") /\ present(op.name)
        /\ \E S \in SUBSET snapshots(op.name) :
             snaps' = [snaps EXCEPT ![op.name] = @ \ S]
  /\ Ends
  /\ UNCHANGED <<kind, up, vols, disk, objects, limit>>
-----------------------------------------------------------------------------
(***************************************************************************)
(* The last step of a request: the records, as they are in memory, are     *)
(* saved.                                                                  *)
(***************************************************************************)
Finish ==
  /\ At("finish")
  /\ UNCHANGED vols /\ save
  /\ Ends
  /\ UNCHANGED <<kind, up, objects, limit, snaps>>

FinishFails ==
  /\ At("finish")
  /\ UNCHANGED vols /\ saveFails
  /\ Ends
  /\ UNCHANGED <<kind, up, objects, limit, snaps>>

\* The process is killed, or told to stop: run waits a few seconds for the
\* request in progress, and cuts off what has not ended by then.
Crash ==
  /\ up
  /\ up' = FALSE
  /\ op' = Idle
  /\ vols' = [n \in Names |-> NoRecord]
  /\ UNCHANGED <<kind, disk, objects, limit, snaps>>

\* The state file is lost, a case the code has an answer to on ZFS only.
LoseRecords ==
  /\ kind = "zfs" /\ ~up
  /\ disk' = [n \in Names |-> NoRecord]
  /\ UNCHANGED <<kind, up, vols, op, objects, limit, snaps>>

\* backend.start mounts the finished datasets again, those it can.
startGives ==
  LET ours == {n \in Names : /\ kind = "zfs" /\ disk[n].quota # 0 /\ ~disk[n].pending
                             /\ present(n) /\ ~notOurs(n, disk[n], objects[n])}
  IN {[n \in Names |-> IF n \in S THEN [objects[n] EXCEPT !.given = TRUE] ELSE objects[n]] :
        S \in SUBSET ours}

\* openState: the records are those of the state file.
openState == vols' = disk

\* A record that the configuration does not account for stops the start.
recordFits(r) == kind = "project" /\ r.quota # 0 => r.tag \in Tags \/ (r.pending /\ r.tag = 0)

newService ==
  /\ ~up
  /\ \A n \in Names : recordFits(disk[n])
  /\ up' = TRUE
  /\ openState
  /\ objects' \in startGives
  /\ UNCHANGED <<kind, disk, op, limit, snaps>>
-----------------------------------------------------------------------------
Requests == \E n \in Names :
  \/ \E q \in Quotas : CreateNew(n, q) \/ CreateFound(n, q) \/ CreateAgain(n, q) \/ ResizeVolume(n, q)
  \/ \E s \in Snaps : SnapshotVolume(n, s)
  \/ DeleteVolume(n) \/ DeleteRefused(n)

Steps == \/ CreateRecorded \/ CreateNotRecorded \/ Make \/ Tag \/ Limit \/ Give \/ MakeFails
         \/ Resize \/ Snapshot \/ StepFails
         \/ DeleteSnapshots \/ Remove \/ Lift \/ DestroyFails
         \/ Finish \/ FinishFails

Next == Requests \/ Steps \/ Crash \/ LoseRecords \/ newService

Spec == Init /\ [][Next]_vars
-----------------------------------------------------------------------------
(***************************************************************************)
(* Properties.                                                             *)
(***************************************************************************)
Record == [quota : Quotas \cup {0}, pending : BOOLEAN, tag : Tags \cup {0}, snapshots : SUBSET Snaps]
Object == [made : {"none", "ours", "foreign"}, tag : Tags \cup {0}, given : BOOLEAN]
Request == [what : {"none", "create", "resize", "snapshot", "delete"}, name : Names \cup {""},
            quota : Quotas \cup {0}, snap : Snaps \cup {""},
            step : {"idle", "record", "make", "tag", "limit", "give", "resize", "snapshot",
                    "snapshots", "remove", "lift", "finish"}]

\* The types of the variables.
TypeOK ==
  /\ kind \in Kinds /\ up \in BOOLEAN
  /\ vols \in [Names -> Record] /\ disk \in [Names -> Record]
  /\ op \in Request
  /\ objects \in [Names -> Object]
  /\ limit \in [Tags -> Quotas \cup {0}]
  /\ snaps \in [Names -> SUBSET Snaps]

\* fileshare can never write into a volume unlimited: at every moment, after
\* any failure or crash, an object of ours that was given to the group has a
\* limit under its tag.
NeverUnlimited ==
  \A n \in Names : objects[n].made = "ours" /\ objects[n].given =>
    objects[n].tag \in Tags /\ limit[objects[n].tag] # 0

\* No two volumes are charged to one project, or are one subvolume: an id
\* goes back to the range only when nothing carries it.
OneVolumePerTag ==
  \A m, n \in Names :
    /\ m # n
    /\ objects[m].made = "ours" /\ objects[n].made = "ours"
    /\ objects[m].tag # 0
    => objects[m].tag # objects[n].tag

\* What is at a name is not something nobody recorded: the state file and,
\* while the process runs, its memory have a record that claims it, so a
\* retry of the creation can finish it and a delete can remove it.
Claimed(n) ==
  objects[n].made = "ours" =>
    /\ disk[n].quota # 0 /\ ~notOurs(n, disk[n], objects[n])
    /\ up => recorded(n) /\ ~notOurs(n, vols[n], objects[n])

\* Through any failure and crash, a directory the XFS/ext4 backend made is
\* one of a record.
MadeIsRecorded == kind = "project" => \A n \in Names : Claimed(n)

\* It never touches what it did not create.
ForeignUntouched ==
  [][\A n \in Names : objects[n].made = "foreign" => objects'[n] = objects[n]]_vars

\* What the comment on record.Pending says of every kind of volume: a crash
\* leaves a record that a creation with the same parameters finishes and a
\* delete removes, and never a half-made subvolume that nobody recorded.
HalfMadeIsClaimed == \A n \in Names : Claimed(n)
=============================================================================
