------------------------- MODULE ProvisionerProofs -------------------------
(***************************************************************************)
(* Theorems about Provisioner, for every set of names, quotas and          *)
(* snapshots, any range of ids, each of the three backends, and any        *)
(* sequence of requests, failures, crashes and restarts.                   *)
(***************************************************************************)
EXTENDS Provisioner, WellFoundedInduction, TLAPS

\* A request in progress is one of a running process, about one of the names,
\* with the parameters its first step took.
RequestInv ==
  /\ op.step # "idle" => up /\ op.name \in Names
  /\ op.step = "resize" => op.quota \in Quotas
  /\ op.step = "snapshot" => op.snap \in Snaps

\* Nobody recorded what is not ours, and no request is about it.
ForeignInv ==
  \A n \in Names : objects[n].made = "foreign" =>
    /\ vols[n] = NoRecord /\ disk[n] = NoRecord
    /\ kind = "zfs" => objects[n].tag # markOf[n]
    /\ op.step # "idle" => op.name # n

\* What a creation and a deletion have done to their volume, by their step.
StepInv ==
  LET n == op.name
  IN /\ op.step \in {"record", "make", "tag", "limit", "give"} =>
          vols[n].quota # 0 /\ vols[n].pending
     /\ op.step \in {"record", "lift"} => objects[n].made = "none"
     /\ op.step \in {"tag", "limit", "give"} => objects[n].made = "ours"
     /\ op.step \in {"limit", "give"} /\ kind # "zfs" => objects[n].tag = vols[n].tag
     /\ op.step = "resize" => vols[n].quota # 0

\* A record has an id of the range, and no two have the same.
RecordsFit(f) ==
  \A n \in Names :
    /\ f[n].quota # 0 => f[n].tag \in Tags
    /\ f[n].quota = 0 => ~f[n].pending /\ f[n].tag = 0
    /\ \A m \in Names : m # n /\ f[m].tag # 0 => f[m].tag # f[n].tag

\* A pending record is in the file, once its first save has been tried.
PendingWritten ==
  \A n \in Names : up /\ vols[n].pending /\ ~(op.step = "record" /\ op.name = n) =>
    disk[n].pending /\ disk[n].quota # 0 /\ disk[n].tag = vols[n].tag

\* A record claims what the XFS/ext4 backend made, as projOwned says.
Claims(r, o) == r.quota # 0 /\ projOwned(r, o)

\* XFS and ext4: memory and the file fit, and both claim what was made.
ProjectInv ==
  kind = "project" =>
    /\ \A n \in Names : objects[n].made = "ours" =>
         Claims(disk[n], objects[n]) /\ (up => Claims(vols[n], objects[n]))
    /\ RecordsFit(vols) /\ RecordsFit(disk)
    /\ PendingWritten

\* btrfs: what records and subvolumes of two names carry are different ids.
TagsOf(n) == {vols[n].tag, disk[n].tag, objects[n].tag} \ {0}
BtrfsInv ==
  kind = "btrfs" =>
    /\ \A m, n \in Names : m # n /\ objects[m].made # "foreign" /\ objects[n].made # "foreign" =>
         TagsOf(m) \cap TagsOf(n) = {}
    /\ \A n \in Names : objects[n].made = "ours" => objects[n].tag # 0

\* ZFS: a dataset of ours has its name's mark, and a limit from the first.
ZfsInv ==
  kind = "zfs" =>
    \A n \in Names : objects[n].made = "ours" =>
      objects[n].tag = markOf[n] /\ limit[markOf[n]] # 0

\* What the group is given, now or next, has its limit.
Limited(n) == objects[n].tag \in Tags /\ limit[objects[n].tag] # 0
LimitInv ==
  /\ \A n \in Names : objects[n].made = "ours" /\ objects[n].given => Limited(n)
  /\ op.step = "give" => Limited(op.name)

\* A step after which a name's record, file and object carry only ids they
\* carried before.
KeepsTags(n) == {vols'[n].tag, disk'[n].tag, objects'[n].tag} \subseteq TagsOf(n) \cup {0}

\* Less-than on the natural numbers, as a relation.
Less == {ss \in Nat \X Nat : ss[1] < ss[2]}

\* A step that leaves what is foreign alone: the object, what is recorded of
\* it, and the request that is in progress after it.
Spares ==
  \A n \in Names :
    /\ objects'[n].made = "foreign" => objects[n].made = "foreign"
    /\ objects[n].made = "foreign" =>
         /\ objects'[n] = objects[n]
         /\ vols'[n] \in {vols[n], disk[n], NoRecord} /\ disk'[n] \in {vols[n], disk[n], NoRecord}
         /\ op'.step # "idle" => op'.name # n

\* A nonempty set of ids has a least one: allocate takes one of the free ids.
LEMMA AllocateFree ==
  ASSUME free # {}
  PROVE  allocate \in free /\ allocate \in Tags
<1>1. free \subseteq Nat /\ free \subseteq Tags
  BY TagsAssumption DEF free
<1>2. IsWellFoundedOn(Less, Nat)
  BY NatLessThanWellFounded DEF OpToRel, Less
<1>3. \E x \in free : \A y \in free : ~(<<y, x>> \in Less)
  BY <1>1, <1>2, WFMin
<1>4. \A x, y \in Nat : <<y, x>> \in Less <=> y < x
  BY DEF Less
<1>5. \E x \in free : \A y \in free : x <= y
  <2>1. PICK x \in free : \A y \in free : ~(<<y, x>> \in Less)
    BY <1>3
  <2>2. \A y \in free : x <= y
    <3> SUFFICES ASSUME NEW y \in free PROVE x <= y
      OBVIOUS
    <3>1. x \in Nat /\ y \in Nat /\ ~(y < x)
      BY <1>1, <1>4, <2>1
    <3>2. QED
      BY <3>1
  <2>3. QED
    BY <2>2
<1>6. QED
  BY <1>1, <1>5 DEF allocate

\* An update of one field of an object is an object.
LEMMA ObjectUpdates ==
  ASSUME NEW o \in Object
  PROVE  /\ [o EXCEPT !.given = TRUE] \in Object
         /\ \A t \in Tags \cup {0} : [o EXCEPT !.tag = t] \in Object
BY DEF Object

\* An update of one field of a record is a record.
LEMMA RecordUpdates ==
  ASSUME NEW r \in Record
  PROVE  /\ [r EXCEPT !.pending = FALSE] \in Record
         /\ \A t \in Tags \cup {0} : [r EXCEPT !.tag = t] \in Record
         /\ \A q \in Quotas \cup {0} : [r EXCEPT !.quota = q] \in Record
         /\ \A S \in SUBSET Snaps : [r EXCEPT !.snapshots = S] \in Record
BY DEF Record

\* A request that goes on is a request.
LEMMA RequestGoesOn ==
  ASSUME NEW r \in Request,
         NEW t \in {"make", "tag", "limit", "give", "remove", "lift", "finish"}
  PROVE  /\ [r EXCEPT !.step = t] \in Request
         /\ [r EXCEPT !.step = t].step = t /\ [r EXCEPT !.step = t].name = r.name
BY DEF Request

\* On ZFS each name has its own mark, one of Tags.
LEMMA MarkOfName ==
  ASSUME kind \in Kinds, kind = "zfs"
  PROVE  /\ \A n \in Names : markOf[n] \in Tags
         /\ \A m, n \in Names : markOf[m] = markOf[n] => m = n
<1>1. markOf \in Injection(Names, Tags)
  BY MarksAssumption DEF markOf
<1>2. QED
  BY <1>1 DEF Injection, IsInjective

\* The types and the request in progress, initially.
LEMMA ProvisionerTypeInit == Init => TypeOK /\ RequestInv
<1> SUFFICES ASSUME Init PROVE TypeOK /\ RequestInv
  OBVIOUS
<1>1. NoRecord \in Record
  BY DEF NoRecord, Record
<1>2. objects \in [Names -> Object]
  <2>1. NoObject \in Object
    BY DEF NoObject, Object
  <2>2. ASSUME NEW o \in [made : {"foreign"}, tag : {0} \cup Tags, given : {TRUE}] PROVE o \in Object
    <3>1. o.given = TRUE
      OBVIOUS
    <3>2. o = [made |-> "foreign", tag |-> o.tag, given |-> TRUE] /\ o.tag \in Tags \cup {0}
      BY <3>1
    <3>3. QED
      BY <3>2 DEF Object
  <2>3. QED
    BY <2>1, <2>2 DEF Init
<1>3. vols \in [Names -> Record] /\ disk \in [Names -> Record]
  BY <1>1 DEF Init
<1>4. op \in Request
  BY DEF Init, Idle, Request
<1>5. up \in BOOLEAN
  BY DEF Init
<1>6. TypeOK
  BY <1>2, <1>3, <1>4, <1>5 DEF Init, TypeOK
<1>7. RequestInv
  BY DEF Init, RequestInv, Idle
<1>8. QED
  BY <1>6, <1>7

\* The types and the request in progress, through every step.
LEMMA ProvisionerTyped == Spec => [](TypeOK /\ RequestInv)
<1> DEFINE Typed == TypeOK /\ RequestInv
<1>1. Typed /\ [Next]_vars => Typed'
  <2> SUFFICES ASSUME Typed, [Next]_vars PROVE Typed'
    OBVIOUS
  <2> USE DEF TypeOK, RequestInv
  <2>0. NoRecord \in Record /\ NoObject \in Object /\ Idle \in Request /\ Idle.step = "idle"
    BY DEF NoRecord, Record, NoObject, Object, Idle, Request
  <2>a. ASSUME NEW what \in {"create", "resize", "snapshot", "delete"}, NEW n \in Names,
               NEW q \in Quotas \cup {0}, NEW s \in Snaps \cup {""},
               NEW step \in {"record", "make", "finish", "resize", "snapshot", "remove", "snapshots"},
               step = "resize" => q \in Quotas, step = "snapshot" => s \in Snaps,
               Begin(what, n, q, s, step), UNCHANGED up
        PROVE  op' \in Request /\ RequestInv'
    BY <2>a DEF Begin, Request
  <2>b. ASSUME NEW t \in {"make", "tag", "limit", "give", "remove", "lift", "finish"},
               op.step # "idle", Goes(t), UNCHANGED up
        PROVE  op' \in Request /\ RequestInv'
    <3>1. op' \in Request /\ op'.step = t /\ op'.name = op.name
      BY <2>b, RequestGoesOn DEF Goes
    <3>2. QED
      BY <2>b, <3>1
  <2>c. Ends => op' \in Request /\ RequestInv'
    BY <2>0 DEF Ends
  <2>d. \A n \in Names : emptyGives(n) \subseteq [Names -> Object]
    <3>1. \A n \in Names : [objects EXCEPT ![n].given = TRUE] \in [Names -> Object]
      BY ObjectUpdates
    <3>2. QED
      BY <3>1 DEF emptyGives
  <2>1. ASSUME NEW n \in Names, NEW q \in Quotas, CreateNew(n, q) PROVE Typed'
    <3>1. (IF kind = "project" THEN allocate ELSE 0) \in Tags \cup {0}
      BY <2>1, AllocateFree DEF CreateNew
    <3>2. [quota |-> q, pending |-> TRUE, snapshots |-> {},
           tag |-> IF kind = "project" THEN allocate ELSE 0] \in Record
      BY <3>1 DEF Record
    <3>3. QED
      BY <2>1, <2>a, <3>2 DEF CreateNew
  <2>2. ASSUME NEW n \in Names, NEW q \in Quotas, CreateFound(n, q) PROVE Typed'
    <3>1. kind = "zfs"
      BY <2>2, KindsAssumption DEF CreateFound, notOurs, projOwned, btrfsOwned, NoRecord
    <3>2. limit[limitOf(n)] \in Quotas \cup {0}
      BY <3>1, MarkOfName DEF limitOf
    <3>3. [NoRecord EXCEPT !.quota = limit[limitOf(n)]] \in Record
      BY <2>0, <3>2, RecordUpdates
    <3>4. QED
      BY <2>2, <2>a, <3>3 DEF CreateFound
  <2>3. ASSUME NEW n \in Names, NEW q \in Quotas, CreateAgain(n, q) PROVE Typed'
    BY <2>3, <2>a DEF CreateAgain
  <2>4. ASSUME NEW n \in Names, NEW q \in Quotas, ResizeVolume(n, q) PROVE Typed'
    BY <2>4, <2>a DEF ResizeVolume
  <2>5. ASSUME NEW n \in Names, NEW s \in Snaps, SnapshotVolume(n, s) PROVE Typed'
    BY <2>5, <2>a DEF SnapshotVolume
  <2>6. ASSUME NEW n \in Names, DeleteVolume(n) PROVE Typed'
    <3>1. objects' \in [Names -> Object]
      BY <2>6, <2>d DEF DeleteVolume
    <3>2. QED
      BY <2>6, <2>a, <3>1 DEF DeleteVolume
  <2>7. ASSUME NEW n \in Names, DeleteRefused(n) PROVE Typed'
    <3>1. objects' \in [Names -> Object]
      BY <2>7, <2>d DEF DeleteRefused
    <3>2. QED
      BY <2>7, <3>1 DEF DeleteRefused
  <2>8. ASSUME CreateRecorded PROVE Typed'
    BY <2>8, <2>b DEF CreateRecorded, At, save
  <2>9. ASSUME CreateNotRecorded PROVE Typed'
    BY <2>0, <2>9, <2>c DEF CreateNotRecorded
  <2>10. ASSUME Make PROVE Typed'
    <3>1. op.name \in Names /\ op.step # "idle"
      BY <2>10 DEF Make, At
    <3>2. tagsOfNew(op.name) \subseteq Tags \cup {0}
      BY <3>1, MarkOfName, KindsAssumption DEF tagsOfNew, fresh
    <3>3. objects' \in [Names -> Object]
      <4>1. \A t \in tagsOfNew(op.name) : [made |-> "ours", tag |-> t, given |-> FALSE] \in Object
        BY <3>2 DEF Object
      <4>2. QED
        BY <2>10, <4>1 DEF Make
    <3>4. limitAsMade(op.name) \in [Tags -> Quotas \cup {0}]
      <4>1. vols[op.name].quota \in Quotas \cup {0}
        BY <3>1 DEF Record
      <4>2. QED
        BY <4>1 DEF limitAsMade
    <3>5. limit' \in [Tags -> Quotas \cup {0}]
      BY <2>10, <3>4 DEF Make
    <3>6. Ends \/ Goes("give") \/ Goes("tag")
      BY <2>10 DEF Make
    <3>7. UNCHANGED <<kind, up, vols, disk, snaps>>
      BY <2>10 DEF Make
    <3>8. op' \in Request /\ RequestInv'
      BY <2>b, <2>c, <3>1, <3>6, <3>7
    <3>9. QED
      BY <3>3, <3>5, <3>7, <3>8
  <2>11. ASSUME Tag PROVE Typed'
    <3>1. op.name \in Names /\ op.step # "idle"
      BY <2>11 DEF Tag, At
    <3>2. vols[op.name].tag \in Tags \cup {0} /\ objects[op.name].tag \in Tags \cup {0}
      BY <3>1 DEF Record, Object
    <3>3. [objects[op.name] EXCEPT !.tag = vols[op.name].tag] \in Object
      BY <3>1, <3>2, ObjectUpdates
    <3>4. [vols[op.name] EXCEPT !.tag = objects[op.name].tag] \in Record
      BY <3>1, <3>2, RecordUpdates
    <3>5. objects' \in [Names -> Object] /\ vols' \in [Names -> Record]
      BY <2>11, <3>3, <3>4 DEF Tag
    <3>6. QED
      BY <2>11, <2>b, <3>1, <3>5 DEF Tag
  <2>12. ASSUME Limit PROVE Typed'
    <3>1. vols[op.name].quota \in Quotas \cup {0} /\ op.step # "idle"
      BY <2>12 DEF Limit, At, Record
    <3>2. QED
      BY <2>12, <2>b, <3>1 DEF Limit
  <2>13. ASSUME Give PROVE Typed'
    <3>1. op.name \in Names /\ op.step # "idle"
      BY <2>13 DEF Give, At
    <3>2. vols' \in [Names -> Record] /\ objects' \in [Names -> Object]
      BY <2>13, <3>1, ObjectUpdates, RecordUpdates DEF Give
    <3>3. QED
      BY <2>13, <2>b, <3>1, <3>2 DEF Give
  <2>14. ASSUME MakeFails PROVE Typed'
    <3>1. vols' \in [Names -> Record] /\ disk' \in [Names -> Record]
      BY <2>0, <2>14 DEF MakeFails, saveFails
    <3>2. QED
      BY <2>14, <2>c, <3>1 DEF MakeFails
  <2>15. ASSUME Resize PROVE Typed'
    <3>1. op.name \in Names /\ op.step = "resize" /\ op.quota \in Quotas
      BY <2>15 DEF Resize, At
    <3>2. vols' \in [Names -> Record]
      BY <2>15, <3>1, RecordUpdates DEF Resize
    <3>3. QED
      BY <2>15, <2>b, <3>1, <3>2 DEF Resize
  <2>16. ASSUME Snapshot PROVE Typed'
    <3>1. op.name \in Names /\ op.step = "snapshot" /\ op.snap \in Snaps
      BY <2>16 DEF Snapshot, At
    <3>2. vols[op.name].snapshots \cup {op.snap} \in SUBSET Snaps
      BY <3>1 DEF Record
    <3>3. vols' \in [Names -> Record]
      BY <2>16, <3>1, <3>2, RecordUpdates DEF Snapshot
    <3>4. QED
      BY <2>16, <2>b, <3>1, <3>3 DEF Snapshot
  <2>17. ASSUME StepFails PROVE Typed'
    BY <2>17, <2>c DEF StepFails
  <2>18. ASSUME DeleteSnapshots PROVE Typed'
    <3>1. snaps' \in [Names -> SUBSET Snaps]
      BY <2>18 DEF DeleteSnapshots, At
    <3>2. op.step # "idle" /\ (Ends \/ Goes("remove"))
      BY <2>18 DEF DeleteSnapshots, At
    <3>3. QED
      BY <2>18, <2>b, <2>c, <3>1, <3>2 DEF DeleteSnapshots
  <2>19. ASSUME Remove PROVE Typed'
    <3>1. op.step # "idle" /\ limit' \in [Tags -> Quotas \cup {0}]
      BY <2>19 DEF Remove, At, lifted
    <3>2. QED
      BY <2>0, <2>19, <2>b, <3>1 DEF Remove
  <2>20. ASSUME Lift PROVE Typed'
    <3>1. op.step # "idle" /\ limit' \in [Tags -> Quotas \cup {0}]
      BY <2>20 DEF Lift, At, lifted
    <3>2. QED
      BY <2>0, <2>20, <2>b, <3>1 DEF Lift
  <2>21. ASSUME DestroyFails PROVE Typed'
    <3>1. snaps' \in [Names -> SUBSET Snaps]
      BY <2>21 DEF DestroyFails
    <3>2. QED
      BY <2>21, <2>c, <3>1 DEF DestroyFails
  <2>22. ASSUME Finish PROVE Typed'
    BY <2>22, <2>c DEF Finish, save
  <2>23. ASSUME FinishFails PROVE Typed'
    BY <2>23, <2>c DEF FinishFails, saveFails
  <2>24. ASSUME Crash PROVE Typed'
    BY <2>0, <2>24 DEF Crash
  <2>25. ASSUME LoseRecords PROVE Typed'
    BY <2>0, <2>25 DEF LoseRecords
  <2>26. ASSUME newService PROVE Typed'
    <3>1. objects' \in [Names -> Object]
      BY <2>26, ObjectUpdates DEF newService, startGives
    <3>2. QED
      BY <2>26, <3>1 DEF newService, openState
  <2>27. ASSUME UNCHANGED vars PROVE Typed'
    BY <2>27 DEF vars
  <2>28. QED
    BY <2>1, <2>2, <2>3, <2>4, <2>5, <2>6, <2>7, <2>8, <2>9, <2>10, <2>11, <2>12, <2>13,
       <2>14, <2>15, <2>16, <2>17, <2>18, <2>19, <2>20, <2>21, <2>22, <2>23, <2>24, <2>25,
       <2>26, <2>27
    DEF Next, Requests, Steps
<1>2. QED
  BY <1>1, ProvisionerTypeInit, PTL DEF Spec

\* Every variable keeps its type through every request, failure, crash and
\* restart; an id that is allocated is one of the range.
THEOREM ProvisionerTypeCorrect == Spec => []TypeOK
BY ProvisionerTyped, PTL

\* Where backend.owned says no to what nobody recorded.
LEMMA ForeignIsNotOurs ==
  ASSUME TypeOK, ForeignInv, NEW n \in Names, objects[n].made = "foreign"
  PROVE  /\ notOurs(n, NoRecord, objects[n]) /\ notOurs(n, vols[n], objects[n])
         /\ notOurs(n, disk[n], objects[n])
         /\ ~recorded(n) /\ present(n)
<1>1. vols[n] = NoRecord /\ disk[n] = NoRecord /\ (kind = "zfs" => objects[n].tag # markOf[n])
  BY DEF ForeignInv
<1>2. kind \in {"project", "btrfs", "zfs"}
  BY KindsAssumption DEF TypeOK
<1>3. notOurs(n, NoRecord, objects[n])
  BY <1>1, <1>2 DEF notOurs, projOwned, btrfsOwned, zfsOwned, NoRecord
<1>4. QED
  BY <1>1, <1>3 DEF recorded, present, NoRecord

\* No step of a request, no failure and no start touches what is foreign.
LEMMA ForeignSpared ==
  ASSUME TypeOK, RequestInv, ForeignInv, [Next]_vars
  PROVE  Spares /\ UNCHANGED kind
<1> USE DEF TypeOK
<1>0. Idle.step = "idle"
  BY DEF Idle
<1>1. ASSUME NEW what, NEW n \in Names, NEW q, NEW s, NEW t, Begin(what, n, q, s, t),
             objects[n].made # "foreign", UNCHANGED <<kind, disk>>,
             \A m \in Names \ {n} : vols'[m] = vols[m] /\ objects'[m] = objects[m],
             objects'[n].made # "foreign"
      PROVE  Spares /\ UNCHANGED kind
  BY <1>1 DEF Begin, Spares
<1>2. ASSUME op.step # "idle", op' = Idle \/ \E t : Goes(t), UNCHANGED kind,
             \A m \in Names \ {op.name} : vols'[m] = vols[m] /\ objects'[m] = objects[m],
             objects'[op.name].made # "foreign",
             \A m \in Names \ {op.name} : disk'[m] \in {disk[m], vols[m]}
      PROVE  Spares /\ UNCHANGED kind
  <2>1. objects[op.name].made # "foreign"
    BY <1>2 DEF ForeignInv, RequestInv
  <2>2. op'.step # "idle" => op'.name = op.name
    <3>1. \A t : [op EXCEPT !.step = t].name = op.name
      BY DEF Request
    <3>2. QED
      BY <1>0, <1>2, <3>1 DEF Goes
  <2>3. QED
    BY <1>2, <2>1, <2>2 DEF Spares
<1>3. ASSUME op.step # "idle" PROVE op.name \in Names /\ objects[op.name].made # "foreign"
  BY <1>3 DEF ForeignInv, RequestInv
<1>4. ASSUME NEW n \in Names, NEW q \in Quotas, CreateNew(n, q) PROVE Spares /\ UNCHANGED kind
  BY <1>1, <1>4 DEF CreateNew, present
<1>5. ASSUME NEW n \in Names, NEW q \in Quotas, CreateFound(n, q) PROVE Spares /\ UNCHANGED kind
  BY <1>1, <1>5, ForeignIsNotOurs DEF CreateFound
<1>6. ASSUME NEW n \in Names, NEW q \in Quotas, CreateAgain(n, q) \/ ResizeVolume(n, q)
      PROVE  Spares /\ UNCHANGED kind
  BY <1>1, <1>6, ForeignIsNotOurs DEF CreateAgain, ResizeVolume, finished
<1>7. ASSUME NEW n \in Names, NEW s \in Snaps, SnapshotVolume(n, s) PROVE Spares /\ UNCHANGED kind
  BY <1>1, <1>7, ForeignIsNotOurs DEF SnapshotVolume, finished
<1>8. ASSUME NEW n \in Names, objects' \in emptyGives(n)
      PROVE  /\ \A m \in Names \ {n} : objects'[m] = objects[m]
             /\ objects'[n].made = objects[n].made
  <2>1. objects' = objects \/ objects' = [objects EXCEPT ![n].given = TRUE]
    BY <1>8 DEF emptyGives
  <2>2. QED
    BY <2>1 DEF Object
<1>9. ASSUME NEW n \in Names, DeleteVolume(n) PROVE Spares /\ UNCHANGED kind
  <2>1. objects[n].made # "foreign"
    BY <1>9, ForeignIsNotOurs DEF DeleteVolume
  <2>2. QED
    BY <1>1, <1>8, <1>9, <2>1 DEF DeleteVolume
<1>10. ASSUME NEW n \in Names, DeleteRefused(n) PROVE Spares /\ UNCHANGED kind
  <2>1. objects[n].made # "foreign"
    BY <1>10, ForeignIsNotOurs DEF DeleteRefused
  <2>2. QED
    BY <1>0, <1>8, <1>10, <2>1 DEF DeleteRefused, Spares
<1>11. ASSUME CreateRecorded \/ Finish PROVE Spares /\ UNCHANGED kind
  BY <1>2, <1>3, <1>11 DEF CreateRecorded, Finish, At, Ends, save
<1>12. ASSUME CreateNotRecorded PROVE Spares /\ UNCHANGED kind
  BY <1>2, <1>3, <1>12 DEF CreateNotRecorded, At, Ends
<1>13. ASSUME Make PROVE Spares /\ UNCHANGED kind
  <2>1. op.step # "idle" /\ UNCHANGED <<kind, vols, disk>> /\ (op' = Idle \/ \E t : Goes(t))
    BY <1>13 DEF Make, At, Ends
  <2>2. \/ objects' = objects
        \/ \E t : objects' = [objects EXCEPT ![op.name] = [made |-> "ours", tag |-> t, given |-> FALSE]]
    BY <1>13 DEF Make
  <2>3. /\ \A m \in Names \ {op.name} : objects'[m] = objects[m]
        /\ objects'[op.name].made # "foreign"
    <3>1. CASE objects' = objects
      BY <1>3, <2>1, <3>1
    <3>2. ASSUME NEW t, objects' = [objects EXCEPT ![op.name] =
                                      [made |-> "ours", tag |-> t, given |-> FALSE]]
          PROVE  /\ \A m \in Names \ {op.name} : objects'[m] = objects[m]
                 /\ objects'[op.name].made # "foreign"
      BY <1>3, <2>1, <3>2
    <3>3. QED
      BY <2>2, <3>1, <3>2
  <2>4. QED
    BY <1>2, <2>1, <2>3
<1>14. ASSUME Tag PROVE Spares /\ UNCHANGED kind
  <2>1. /\ op.step # "idle" /\ \E t : Goes(t)
        /\ \A m \in Names \ {op.name} : objects'[m] = objects[m] /\ vols'[m] = vols[m]
    BY <1>14 DEF Tag, At
  <2>2. objects'[op.name].made = objects[op.name].made
    BY <1>3, <1>14, <2>1 DEF Tag, Object
  <2>3. QED
    BY <1>2, <1>3, <1>14, <2>1, <2>2 DEF Tag
<1>15. ASSUME Give PROVE Spares /\ UNCHANGED kind
  <2>1. objects'[op.name].made = objects[op.name].made /\ op.step # "idle"
    BY <1>3, <1>15 DEF Give, At, Object
  <2>2. QED
    BY <1>2, <1>3, <1>15, <2>1 DEF Give
<1>16. ASSUME Limit \/ Resize \/ Snapshot \/ Lift PROVE Spares /\ UNCHANGED kind
  BY <1>2, <1>3, <1>16 DEF Limit, Resize, Snapshot, Lift, At
<1>17. ASSUME MakeFails \/ FinishFails PROVE Spares /\ UNCHANGED kind
  BY <1>2, <1>3, <1>17 DEF MakeFails, FinishFails, At, Ends, saveFails
<1>18. ASSUME StepFails \/ DestroyFails PROVE Spares /\ UNCHANGED kind
  BY <1>2, <1>3, <1>18 DEF StepFails, DestroyFails, At, Ends
<1>19. ASSUME DeleteSnapshots PROVE Spares /\ UNCHANGED kind
  BY <1>2, <1>3, <1>19 DEF DeleteSnapshots, At, Ends
<1>20. ASSUME Remove PROVE Spares /\ UNCHANGED kind
  BY <1>2, <1>3, <1>20 DEF Remove, At, NoObject
<1>21. ASSUME Crash \/ LoseRecords PROVE Spares /\ UNCHANGED kind
  BY <1>0, <1>21 DEF Crash, LoseRecords, Spares, ForeignInv
<1>22. ASSUME newService PROVE Spares /\ UNCHANGED kind
  <2>1. \A n \in Names : objects[n].made = "foreign" => objects'[n] = objects[n]
    BY <1>22, ForeignIsNotOurs DEF newService, startGives
  <2>2. \A n \in Names : objects'[n].made = objects[n].made
    BY <1>22 DEF newService, startGives, Object
  <2>3. QED
    BY <1>22, <2>1, <2>2 DEF newService, openState, Spares, ForeignInv
<1>23. ASSUME UNCHANGED vars PROVE Spares /\ UNCHANGED kind
  BY <1>23 DEF vars, Spares, ForeignInv
<1>24. QED
  BY <1>4, <1>5, <1>6, <1>7, <1>9, <1>10, <1>11, <1>12, <1>13, <1>14, <1>15, <1>16, <1>17,
     <1>18, <1>19, <1>20, <1>21, <1>22, <1>23
  DEF Next, Requests, Steps

\* What is foreign stays unrecorded, and no request is ever about it.
LEMMA ForeignInvHolds == Spec => []ForeignInv
<1>1. Init => ForeignInv
  <2> SUFFICES ASSUME Init PROVE ForeignInv
    OBVIOUS
  <2>1. op.step = "idle"
    BY DEF Init, Idle
  <2>2. \A n \in Names : vols[n] = NoRecord /\ disk[n] = NoRecord
    BY DEF Init
  <2>3. kind = "zfs" => \A n \in Names : objects[n].tag # markOf[n]
    BY DEF Init
  <2>4. QED
    BY <2>1, <2>2, <2>3 DEF ForeignInv
<1>2. TypeOK /\ RequestInv /\ ForeignInv /\ [Next]_vars => ForeignInv'
  <2> SUFFICES ASSUME TypeOK, RequestInv, ForeignInv, [Next]_vars PROVE ForeignInv'
    OBVIOUS
  <2>1. Spares /\ UNCHANGED kind
    BY ForeignSpared
  <2>2. QED
    BY <2>1 DEF Spares, ForeignInv
<1>3. QED
  BY <1>1, <1>2, ProvisionerTyped, PTL DEF Spec

\* The provisioner never touches what it did not create, whichever backend it
\* runs over and whatever request names it: it is not recorded, so that no
\* creation, resize, deletion or start finds it to be the recorded one.
THEOREM ForeignStaysUntouched == Spec => ForeignUntouched
<1>1. TypeOK /\ RequestInv /\ ForeignInv /\ [Next]_vars =>
        \A n \in Names : objects[n].made = "foreign" => objects'[n] = objects[n]
  BY ForeignSpared DEF Spares
<1>2. QED
  BY <1>1, ForeignInvHolds, ProvisionerTyped, PTL DEF Spec, ForeignUntouched

\* What was made, tagged and recorded so far, through every step.
LEMMA StepInvHolds == Spec => []StepInv
<1>1. Init => StepInv
  <2> SUFFICES ASSUME Init PROVE StepInv
    OBVIOUS
  <2>1. op.step = "idle"
    BY DEF Init, Idle
  <2>2. QED
    BY <2>1 DEF StepInv
<1>2. TypeOK /\ RequestInv /\ ForeignInv /\ StepInv /\ [Next]_vars => StepInv'
  <2> SUFFICES ASSUME TypeOK, RequestInv, ForeignInv, StepInv, [Next]_vars PROVE StepInv'
    OBVIOUS
  <2>0. Idle.step = "idle"
    BY DEF Idle
  <2>1. ASSUME op'.step \in {"idle", "finish", "snapshot", "snapshots", "remove"} PROVE StepInv'
    BY <2>1 DEF StepInv
  <2>2. op \in Request /\ objects \in [Names -> Object] /\ vols \in [Names -> Record]
    BY DEF TypeOK
  <2>3. ASSUME NEW t, Goes(t) PROVE op'.step = t /\ op'.name = op.name
    BY <2>2, <2>3 DEF Goes, Request
  <2>4. ASSUME op.step # "idle" PROVE op.name \in Names /\ objects[op.name].made # "foreign"
    BY <2>4 DEF RequestInv, ForeignInv
  <2>5. ASSUME NEW n \in Names, NEW q \in Quotas, CreateNew(n, q) PROVE StepInv'
    <3>1. op'.step = "record" /\ op'.name = n /\ objects'[n].made = "none"
      BY <2>5 DEF CreateNew, Begin, present
    <3>2. vols'[n].quota = q /\ vols'[n].pending
      BY <2>2, <2>5 DEF CreateNew
    <3>3. q # 0
      BY QuotasAssumption
    <3>4. QED
      BY <3>1, <3>2, <3>3 DEF StepInv
  <2>6. ASSUME NEW n \in Names, NEW q \in Quotas, CreateFound(n, q) PROVE StepInv'
    BY <2>1, <2>6 DEF CreateFound, Begin
  <2>7. ASSUME NEW n \in Names, NEW q \in Quotas, CreateAgain(n, q) PROVE StepInv'
    BY <2>7 DEF CreateAgain, Begin, recorded, StepInv
  <2>8. ASSUME NEW n \in Names, NEW q \in Quotas, ResizeVolume(n, q) PROVE StepInv'
    BY <2>8 DEF ResizeVolume, Begin, finished, recorded, StepInv
  <2>9. ASSUME NEW n \in Names, NEW s \in Snaps, SnapshotVolume(n, s) PROVE StepInv'
    BY <2>1, <2>9 DEF SnapshotVolume, Begin
  <2>10. ASSUME NEW n \in Names, DeleteVolume(n) PROVE StepInv'
    BY <2>1, <2>10 DEF DeleteVolume, Begin
  <2>11. ASSUME NEW n \in Names, DeleteRefused(n) PROVE StepInv'
    BY <2>0, <2>1, <2>11 DEF DeleteRefused
  <2>12. ASSUME CreateRecorded PROVE StepInv'
    <3>1. op'.step = "make" /\ op'.name = op.name /\ op.step = "record" /\ UNCHANGED <<vols, objects>>
      BY <2>3, <2>12 DEF CreateRecorded, At
    <3>2. QED
      BY <3>1 DEF StepInv
  <2>13. ASSUME Ends PROVE StepInv'
    BY <2>0, <2>1, <2>13 DEF Ends
  <2>14. ASSUME Make PROVE StepInv'
    <3>1. op.name \in Names /\ op.step = "make" /\ UNCHANGED <<kind, vols>>
      BY <2>4, <2>14 DEF Make, At
    <3>2. objects'[op.name].made = "ours" \/ Ends
      <4>1. CASE present(op.name)
        <5>1. objects[op.name].made \in {"none", "ours", "foreign"}
          BY <2>2, <3>1 DEF Object
        <5>2. QED
          BY <2>4, <2>14, <3>1, <4>1, <5>1 DEF Make, present
      <4>2. CASE ~present(op.name)
        <5>1. PICK t : objects' = [objects EXCEPT ![op.name] = [made |-> "ours", tag |-> t, given |-> FALSE]]
          BY <2>14, <4>2 DEF Make
        <5>2. QED
          BY <2>2, <3>1, <5>1
      <4>3. QED
        BY <4>1, <4>2
    <3>3. \/ Ends
          \/ op'.name = op.name /\ op'.step = (IF kind = "zfs" THEN "give" ELSE "tag")
      BY <2>3, <2>14 DEF Make
    <3>4. QED
      BY <2>13, <3>1, <3>2, <3>3 DEF StepInv
  <2>15. ASSUME Tag PROVE StepInv'
    <3>1. /\ op.step = "tag" /\ op'.step = "limit" /\ op'.name = op.name /\ op.name \in Names
          /\ UNCHANGED kind
      BY <2>3, <2>4, <2>15 DEF Tag, At
    <3>2. /\ objects'[op.name].made = objects[op.name].made
          /\ vols'[op.name].quota = vols[op.name].quota /\ vols'[op.name].pending = vols[op.name].pending
          /\ objects'[op.name].tag = vols'[op.name].tag
      BY <2>2, <2>15, <3>1 DEF Tag, Object, Record
    <3>3. QED
      BY <3>1, <3>2 DEF StepInv
  <2>16. ASSUME Limit PROVE StepInv'
    <3>1. op.step = "limit" /\ op'.step = "give" /\ op'.name = op.name /\ UNCHANGED <<kind, vols, objects>>
      BY <2>3, <2>16 DEF Limit, At
    <3>2. QED
      BY <3>1 DEF StepInv
  <2>17. ASSUME Give \/ Resize \/ Snapshot \/ Lift PROVE StepInv'
    BY <2>1, <2>3, <2>17 DEF Give, Resize, Snapshot, Lift
  <2>18. ASSUME \/ CreateNotRecorded \/ MakeFails \/ StepFails \/ DestroyFails \/ Finish \/ FinishFails
         PROVE  StepInv'
    BY <2>13, <2>18 DEF CreateNotRecorded, MakeFails, StepFails, DestroyFails, Finish, FinishFails
  <2>19. ASSUME DeleteSnapshots PROVE StepInv'
    BY <2>1, <2>3, <2>13, <2>19 DEF DeleteSnapshots
  <2>20. ASSUME Remove PROVE StepInv'
    <3>1. op.step = "remove" /\ op'.step = "lift" /\ op'.name = op.name /\ op.name \in Names
      BY <2>3, <2>4, <2>20 DEF Remove, At
    <3>2. objects'[op.name].made = "none"
      BY <2>2, <2>20, <3>1 DEF Remove, NoObject
    <3>3. QED
      BY <3>1, <3>2 DEF StepInv
  <2>21. ASSUME Crash \/ LoseRecords \/ newService PROVE StepInv'
    BY <2>0, <2>1, <2>21 DEF Crash, LoseRecords, newService, RequestInv
  <2>22. ASSUME UNCHANGED vars PROVE StepInv'
    BY <2>22 DEF vars, StepInv
  <2>23. QED
    BY <2>5, <2>6, <2>7, <2>8, <2>9, <2>10, <2>11, <2>12, <2>14, <2>15, <2>16, <2>17, <2>18,
       <2>19, <2>20, <2>21, <2>22
    DEF Next, Requests, Steps
<1>3. QED
  BY <1>1, <1>2, ProvisionerTyped, ForeignInvHolds, PTL DEF Spec

\* What is there before the provisioner first runs is not its own.
LEMMA NothingMadeYet ==
  ASSUME Init, NEW n \in Names
  PROVE  objects[n] = NoObject \/ objects[n].made = "foreign"
<1>1. \/ objects[n] = NoObject
      \/ objects[n] \in [made : {"foreign"}, tag : {0} \cup Tags, given : {TRUE}]
  BY DEF Init
<1>2. ASSUME NEW o \in [made : {"foreign"}, tag : {0} \cup Tags, given : {TRUE}]
      PROVE  o.made = "foreign"
  OBVIOUS
<1>3. QED
  BY ONLY <1>1, <1>2, Zenon

\* A record that goes leaves the others as they fit.
LEMMA FitWithout ==
  ASSUME NEW f \in [Names -> Record], RecordsFit(f), NEW n \in Names
  PROVE  RecordsFit([f EXCEPT ![n] = NoRecord])
BY DEF RecordsFit, NoRecord

\* XFS and ext4: memory and the file fit, and both claim what was made,
\* through every step.
LEMMA ProjectInvHolds == Spec => []ProjectInv
<1>1. Init => ProjectInv
  <2> SUFFICES ASSUME Init PROVE ProjectInv
    OBVIOUS
  <2>1. \A n \in Names : vols[n] = NoRecord /\ disk[n] = NoRecord
    BY DEF Init
  <2>2. \A n \in Names : objects[n].made # "ours"
    BY NothingMadeYet DEF NoObject
  <2>3. QED
    BY <2>1, <2>2 DEF ProjectInv, RecordsFit, PendingWritten, NoRecord
<1>2. TypeOK /\ RequestInv /\ ForeignInv /\ StepInv /\ ProjectInv /\ [Next]_vars => ProjectInv'
  <2> SUFFICES ASSUME TypeOK, RequestInv, ForeignInv, StepInv, ProjectInv, [Next]_vars,
                      kind' = "project"
               PROVE  ProjectInv'
    BY DEF ProjectInv
  <2>0. kind = "project" /\ UNCHANGED kind
    BY ForeignSpared
  <2> DEFINE Claimed_ == \A n \in Names : objects[n].made = "ours" =>
                            Claims(disk[n], objects[n]) /\ (up => Claims(vols[n], objects[n]))
  <2>1. Claimed_ /\ RecordsFit(vols) /\ RecordsFit(disk) /\ PendingWritten
    BY <2>0 DEF ProjectInv
  <2>2. ASSUME Claimed_', RecordsFit(vols)', RecordsFit(disk)', PendingWritten' PROVE ProjectInv'
    BY <2>2 DEF ProjectInv
  <2> HIDE DEF Claimed_
  <2>3. /\ op \in Request /\ objects \in [Names -> Object]
        /\ vols \in [Names -> Record] /\ disk \in [Names -> Record]
    BY DEF TypeOK
  <2>4. ASSUME op.step # "idle" PROVE op.name \in Names /\ up
    BY <2>4 DEF RequestInv
  <2>5. ASSUME op.step # "record", UNCHANGED <<up, vols, disk, objects>> PROVE ProjectInv'
    BY <2>1, <2>2, <2>5 DEF Claimed_, RecordsFit, PendingWritten
  <2>6. Idle.step = "idle"
    BY DEF Idle
  <2>7. ASSUME NEW n \in Names, NEW q \in Quotas, CreateNew(n, q) PROVE ProjectInv'
    <3>1. allocate \in Tags /\ \A m \in Names : vols[m].tag # allocate
      BY <2>0, <2>7, AllocateFree DEF CreateNew, free
    <3>2. q # 0 /\ allocate # 0
      BY <3>1, QuotasAssumption, TagsAssumption
    <3>3. /\ vols'[n].quota = q /\ vols'[n].tag = allocate
          /\ \A m \in Names \ {n} : vols'[m] = vols[m]
      BY <2>0, <2>3, <2>7 DEF CreateNew
    <3>4. objects[n].made = "none" /\ UNCHANGED <<up, disk, objects>>
      BY <2>7 DEF CreateNew, present
    <3>5. op.step = "idle" /\ op'.step = "record" /\ op'.name = n
      BY <2>6, <2>7 DEF CreateNew, Begin
    <3>6. Claimed_'
      BY <2>1, <3>3, <3>4 DEF Claimed_
    <3>7. RecordsFit(vols)'
      BY <2>1, <3>1, <3>2, <3>3 DEF RecordsFit
    <3>8. PendingWritten'
      BY <2>1, <3>3, <3>4, <3>5 DEF PendingWritten
    <3>9. QED
      BY <2>1, <2>2, <3>4, <3>6, <3>7, <3>8 DEF RecordsFit
  <2>8. ASSUME NEW n \in Names, NEW q \in Quotas, CreateFound(n, q) PROVE ProjectInv'
    BY <2>0, <2>8 DEF CreateFound, notOurs, projOwned, NoRecord
  <2>9. ASSUME NEW n \in Names, NEW q \in Quotas, CreateAgain(n, q) \/ ResizeVolume(n, q)
        PROVE  ProjectInv'
    BY <2>5, <2>6, <2>9 DEF CreateAgain, ResizeVolume, Begin
  <2>10. ASSUME NEW n \in Names, DeleteVolume(n) PROVE ProjectInv'
    BY <2>0, <2>5, <2>6, <2>10 DEF DeleteVolume, Begin, emptyGives
  <2>11. ASSUME NEW n \in Names, DeleteRefused(n) \/ \E s \in Snaps : SnapshotVolume(n, s)
         PROVE  ProjectInv'
    BY <2>0, <2>11 DEF DeleteRefused, SnapshotVolume
  <2>12. ASSUME up, UNCHANGED <<up, vols, objects>>, disk' = vols PROVE ProjectInv'
    BY <2>1, <2>2, <2>12 DEF Claimed_, RecordsFit, PendingWritten
  <2>13. ASSUME CreateRecorded \/ Finish PROVE ProjectInv'
    BY <2>12, <2>13 DEF CreateRecorded, Finish, At, save
  <2>14. ASSUME FinishFails PROVE ProjectInv'
    BY <2>5, <2>12, <2>14 DEF FinishFails, At, saveFails
  <2>15. ASSUME op.step # "idle", objects[op.name].made = "none", UNCHANGED <<up, objects>>,
                vols' = [vols EXCEPT ![op.name] = NoRecord],
                disk' = disk \/ disk' = vols' \/ disk' = vols
         PROVE  ProjectInv'
    <3>1. op.name \in Names /\ up
      BY <2>4, <2>15
    <3>2. vols'[op.name] = NoRecord /\ \A m \in Names \ {op.name} : vols'[m] = vols[m]
      BY <2>3, <2>15, <3>1
    <3>3. RecordsFit(vols)'
      BY <2>1, <2>3, <2>15, <3>1, FitWithout DEF RecordsFit
    <3>4. RecordsFit(disk)'
      <4>1. CASE disk' = disk
        BY <2>1, <4>1 DEF RecordsFit
      <4>2. CASE disk' = vols'
        BY <3>3, <4>2 DEF RecordsFit
      <4>3. CASE disk' = vols
        BY <2>1, <4>3 DEF RecordsFit
      <4>4. QED
        BY <2>15, <4>1, <4>2, <4>3
    <3>5. \A m \in Names \ {op.name} : disk'[m] \in {disk[m], vols[m]}
      BY <2>15, <3>2
    <3>6. Claimed_'
      BY <2>1, <2>15, <3>1, <3>2, <3>5 DEF Claimed_
    <3>7. PendingWritten'
      BY <2>1, <2>15, <3>1, <3>2, <3>5 DEF PendingWritten, RecordsFit, NoRecord
    <3>8. QED
      BY <2>2, <3>3, <3>4, <3>6, <3>7
  <2>16. ASSUME CreateNotRecorded PROVE ProjectInv'
    BY <2>15, <2>16 DEF CreateNotRecorded, At, StepInv
  <2>17. ASSUME MakeFails PROVE ProjectInv'
    BY <2>5, <2>15, <2>17 DEF MakeFails, At, saveFails, present
  <2>18. ASSUME Lift PROVE ProjectInv'
    BY <2>15, <2>18 DEF Lift, At, StepInv
  <2>19. ASSUME Make PROVE ProjectInv'
    <3>1. op.step = "make" /\ op.name \in Names /\ UNCHANGED <<up, vols, disk>>
      BY <2>4, <2>19 DEF Make, At
    <3>2. CASE present(op.name)
      BY <2>5, <2>19, <3>1, <3>2 DEF Make
    <3>3. CASE ~present(op.name)
      <4>1. objects' = [objects EXCEPT ![op.name] = [made |-> "ours", tag |-> 0, given |-> FALSE]]
        BY <2>0, <2>19, <3>3 DEF Make, tagsOfNew
      <4>2. objects'[op.name].tag = 0 /\ \A m \in Names \ {op.name} : objects'[m] = objects[m]
        BY <2>3, <3>1, <4>1
      <4>3. vols[op.name].pending /\ vols[op.name].quota # 0 /\ up
        BY <2>4, <3>1 DEF StepInv
      <4>4. disk[op.name].pending /\ disk[op.name].quota # 0
        BY <2>1, <3>1, <4>3 DEF PendingWritten
      <4>5. Claimed_'
        BY <2>1, <3>1, <4>2, <4>3, <4>4 DEF Claimed_, Claims, projOwned
      <4>6. QED
        BY <2>1, <2>2, <3>1, <4>5 DEF RecordsFit, PendingWritten
    <3>4. QED
      BY <3>2, <3>3
  <2>20. ASSUME Tag PROVE ProjectInv'
    <3>1. op.step = "tag" /\ op.name \in Names /\ UNCHANGED <<up, vols, disk>>
      BY <2>0, <2>4, <2>20 DEF Tag, At
    <3>2. vols[op.name].pending /\ vols[op.name].quota # 0 /\ up
      BY <2>4, <3>1 DEF StepInv
    <3>3. disk[op.name].quota # 0 /\ disk[op.name].tag = vols[op.name].tag
      BY <2>1, <3>1, <3>2 DEF PendingWritten
    <3>4. vols[op.name].tag # 0
      BY <2>1, <3>1, <3>2, TagsAssumption DEF RecordsFit
    <3>5. /\ objects'[op.name].tag = vols[op.name].tag
          /\ \A m \in Names \ {op.name} : objects'[m] = objects[m]
      BY <2>0, <2>3, <2>20, <3>1 DEF Tag, Object
    <3>6. Claimed_'
      BY <2>1, <3>1, <3>2, <3>3, <3>4, <3>5 DEF Claimed_, Claims, projOwned
    <3>7. QED
      BY <2>1, <2>2, <3>1, <3>6 DEF RecordsFit, PendingWritten
  <2>21. ASSUME Limit PROVE ProjectInv'
    BY <2>5, <2>21 DEF Limit, At
  <2>22. ASSUME Give PROVE ProjectInv'
    <3>1. op.step = "give" /\ op.name \in Names /\ up /\ UNCHANGED <<up, disk>>
      BY <2>4, <2>22 DEF Give, At
    <3>2. objects[op.name].tag = vols[op.name].tag /\ vols[op.name].quota # 0
      BY <2>0, <3>1 DEF StepInv
    <3>3. vols[op.name].tag # 0
      BY <2>1, <3>1, <3>2, TagsAssumption DEF RecordsFit
    <3>4. /\ vols'[op.name].tag = vols[op.name].tag /\ vols'[op.name].quota = vols[op.name].quota
          /\ ~vols'[op.name].pending /\ \A m \in Names \ {op.name} : vols'[m] = vols[m]
      BY <2>3, <2>22, <3>1 DEF Give, Record
    <3>5. /\ objects'[op.name].tag = objects[op.name].tag
          /\ objects'[op.name].made = objects[op.name].made
          /\ \A m \in Names \ {op.name} : objects'[m] = objects[m]
      BY <2>3, <2>22, <3>1 DEF Give, Object
    <3>6. Claimed_'
      BY <2>1, <3>1, <3>2, <3>3, <3>4, <3>5 DEF Claimed_, Claims, projOwned
    <3>7. RecordsFit(vols)'
      BY <2>1, <3>1, <3>2, <3>4 DEF RecordsFit
    <3>8. PendingWritten'
      BY <2>1, <3>1, <3>4 DEF PendingWritten
    <3>9. QED
      BY <2>1, <2>2, <3>1, <3>6, <3>7, <3>8 DEF RecordsFit
  <2>23. ASSUME Resize \/ Snapshot PROVE ProjectInv'
    <3>1. op.step \in {"resize", "snapshot"} /\ op.name \in Names /\ up /\ UNCHANGED <<up, disk, objects>>
      BY <2>4, <2>23 DEF Resize, Snapshot, At
    <3>2. op.step = "resize" => vols[op.name].quota # 0 /\ op.quota # 0
      BY QuotasAssumption DEF StepInv, RequestInv
    <3>3. /\ vols'[op.name].tag = vols[op.name].tag /\ vols'[op.name].pending = vols[op.name].pending
          /\ \/ vols'[op.name].quota = vols[op.name].quota
             \/ vols[op.name].quota # 0 /\ vols'[op.name].quota # 0
          /\ \A m \in Names \ {op.name} : vols'[m] = vols[m]
      BY <2>0, <2>3, <2>23, <3>1, <3>2 DEF Resize, Snapshot, At, Record
    <3>4. Claimed_'
      BY <2>1, <3>1, <3>3 DEF Claimed_, Claims, projOwned
    <3>5. RecordsFit(vols)'
      BY <2>1, <3>1, <3>3 DEF RecordsFit
    <3>6. PendingWritten'
      BY <2>1, <3>1, <3>3 DEF PendingWritten
    <3>7. QED
      BY <2>1, <2>2, <3>1, <3>4, <3>5, <3>6 DEF RecordsFit
  <2>24. ASSUME StepFails \/ DestroyFails \/ DeleteSnapshots PROVE ProjectInv'
    BY <2>5, <2>24 DEF StepFails, DestroyFails, DeleteSnapshots, At
  <2>25. ASSUME Remove PROVE ProjectInv'
    <3>1. op.step = "remove" /\ op.name \in Names /\ UNCHANGED <<up, vols, disk>>
      BY <2>4, <2>25 DEF Remove, At
    <3>2. objects'[op.name].made = "none" /\ \A m \in Names \ {op.name} : objects'[m] = objects[m]
      BY <2>3, <2>25, <3>1 DEF Remove, NoObject
    <3>3. Claimed_'
      BY <2>1, <3>1, <3>2 DEF Claimed_
    <3>4. QED
      BY <2>1, <2>2, <3>1, <3>3 DEF RecordsFit, PendingWritten
  <2>26. ASSUME Crash PROVE ProjectInv'
    <3>1. ~up' /\ UNCHANGED <<disk, objects>> /\ \A n \in Names : vols'[n] = NoRecord
      BY <2>26 DEF Crash
    <3>2. Claimed_'
      BY <2>1, <3>1 DEF Claimed_
    <3>3. RecordsFit(vols)'
      BY <3>1 DEF RecordsFit, NoRecord
    <3>4. QED
      BY <2>1, <2>2, <3>1, <3>2, <3>3 DEF RecordsFit, PendingWritten
  <2>27. ASSUME LoseRecords PROVE ProjectInv'
    BY <2>0, <2>27 DEF LoseRecords
  <2>28. ASSUME newService PROVE ProjectInv'
    <3>1. up' /\ vols' = disk /\ UNCHANGED disk
      BY <2>28 DEF newService, openState
    <3>2. objects' = objects
      BY <2>0, <2>3, <2>28 DEF newService, startGives
    <3>3. Claimed_'
      BY <2>1, <3>1, <3>2 DEF Claimed_
    <3>4. PendingWritten'
      BY <2>1, <3>1 DEF PendingWritten, RecordsFit
    <3>5. QED
      BY <2>1, <2>2, <3>1, <3>3, <3>4 DEF RecordsFit
  <2>29. ASSUME UNCHANGED vars PROVE ProjectInv'
    BY <2>29 DEF vars, ProjectInv, RecordsFit, PendingWritten
  <2>30. QED
    BY <2>7, <2>8, <2>9, <2>10, <2>11, <2>13, <2>14, <2>16, <2>17, <2>18, <2>19, <2>20, <2>21,
       <2>22, <2>23, <2>24, <2>25, <2>26, <2>27, <2>28, <2>29
    DEF Next, Requests, Steps
<1>3. QED
  BY <1>1, <1>2, ProvisionerTyped, ForeignInvHolds, StepInvHolds, PTL DEF Spec

\* Through any failure and crash, what the XFS/ext4 backend made is claimed by
\* a record of the file and, while the process runs, by one of its memory: the
\* record is on disk before anything is made, and is removed after.
THEOREM EverythingMadeIsRecorded == Spec => []MadeIsRecorded
<1>1. ProjectInv => MadeIsRecorded
  BY DEF ProjectInv, MadeIsRecorded, Claimed, Claims, notOurs, recorded
<1>2. QED
  BY <1>1, ProjectInvHolds, PTL

\* What a step other than the making of an object does to ids: no name's
\* record or object has one that it or its file did not have.
LEMMA TagsKept ==
  ASSUME TypeOK, RequestInv, StepInv, kind = "btrfs", [Next]_vars, ~(Make /\ ~present(op.name))
  PROVE  \A n \in Names :
           KeepsTags(n) /\ (objects'[n].made = "ours" => objects[n].made = "ours" /\ objects'[n].tag = objects[n].tag)
<1> DEFINE Goal == \A n \in Names : KeepsTags(n) /\ (objects'[n].made = "ours" =>
                       objects[n].made = "ours" /\ objects'[n].tag = objects[n].tag)
<1> SUFFICES Goal
  OBVIOUS
<1>1. /\ op \in Request /\ objects \in [Names -> Object]
      /\ vols \in [Names -> Record] /\ disk \in [Names -> Record]
  BY DEF TypeOK
<1>2. ASSUME \A n \in Names : vols'[n].tag \in {vols[n].tag, disk[n].tag, objects[n].tag, 0},
             \A n \in Names : disk'[n].tag \in {vols[n].tag, disk[n].tag, objects[n].tag, 0},
             \A n \in Names : objects'[n] = objects[n] \/ objects'[n] = NoObject
      PROVE  Goal
  BY <1>2 DEF KeepsTags, TagsOf, NoObject
<1> HIDE DEF Goal
<1>3. ASSUME op.step # "idle" PROVE op.name \in Names
  BY <1>3 DEF RequestInv
<1>4. NoRecord.tag = 0
  BY DEF NoRecord
<1>5. ASSUME UNCHANGED <<vols, disk, objects>> PROVE Goal
  BY <1>2, <1>5
<1>6. ASSUME NEW n \in Names, NEW q \in Quotas, CreateNew(n, q) PROVE Goal
  <2>1. /\ UNCHANGED <<disk, objects>> /\ vols'[n].tag = 0
        /\ \A m \in Names \ {n} : vols'[m] = vols[m]
    BY <1>1, <1>6 DEF CreateNew
  <2>2. QED
    BY <1>2, <2>1
<1>7. ASSUME NEW n \in Names, NEW q \in Quotas, CreateFound(n, q) PROVE Goal
  BY <1>7 DEF CreateFound, notOurs, btrfsOwned, NoRecord
<1>8. ASSUME NEW n \in Names, NEW q \in Quotas, CreateAgain(n, q) \/ ResizeVolume(n, q) PROVE Goal
  BY <1>5, <1>8 DEF CreateAgain, ResizeVolume
<1>9. ASSUME NEW n \in Names, NEW s \in Snaps, SnapshotVolume(n, s) PROVE Goal
  BY <1>5, <1>9 DEF SnapshotVolume
<1>10. ASSUME NEW n \in Names, DeleteVolume(n) \/ DeleteRefused(n) PROVE Goal
  BY <1>5, <1>10 DEF DeleteVolume, DeleteRefused, emptyGives
<1>11. ASSUME CreateRecorded \/ Finish \/ FinishFails PROVE Goal
  BY <1>2, <1>11 DEF CreateRecorded, Finish, FinishFails, save, saveFails
<1>12. ASSUME op.step # "idle", vols' = [vols EXCEPT ![op.name] = NoRecord], UNCHANGED objects,
              disk' \in {disk, vols, vols'}
       PROVE  Goal
  <2>1. \A n \in Names : vols'[n] = vols[n] \/ vols'[n].tag = 0
    BY <1>1, <1>3, <1>4, <1>12
  <2>2. QED
    BY <1>2, <1>12, <2>1
<1>13. ASSUME CreateNotRecorded \/ MakeFails \/ Lift PROVE Goal
  BY <1>5, <1>12, <1>13 DEF CreateNotRecorded, MakeFails, Lift, At, saveFails
<1>14. ASSUME Make PROVE Goal
  BY <1>5, <1>14 DEF Make
<1>15. ASSUME Tag PROVE Goal
  <2>1. /\ UNCHANGED <<disk, objects>> /\ op.name \in Names
        /\ \A m \in Names \ {op.name} : vols'[m] = vols[m]
        /\ vols'[op.name].tag = objects[op.name].tag
    BY <1>1, <1>3, <1>15 DEF Tag, At, Record
  <2>2. QED
    BY <1>2, <2>1
<1>16. ASSUME Limit \/ StepFails \/ DeleteSnapshots \/ DestroyFails PROVE Goal
  BY <1>5, <1>16 DEF Limit, StepFails, DeleteSnapshots, DestroyFails
<1>17. ASSUME Give PROVE Goal
  <2>1. op.name \in Names /\ UNCHANGED disk
    BY <1>3, <1>17 DEF Give, At
  <2>2. \A n \in Names : /\ vols'[n].tag = vols[n].tag /\ objects'[n].tag = objects[n].tag
                         /\ objects'[n].made = objects[n].made
    BY <1>1, <1>17, <2>1 DEF Give, Record, Object
  <2>3. QED
    BY <2>1, <2>2 DEF Goal, KeepsTags, TagsOf
<1>18. ASSUME Resize \/ Snapshot PROVE Goal
  <2>1. op.name \in Names /\ UNCHANGED <<disk, objects>>
    BY <1>3, <1>18 DEF Resize, Snapshot, At
  <2>2. \A n \in Names : vols'[n].tag = vols[n].tag
    BY <1>1, <1>18, <2>1 DEF Resize, Snapshot, Record
  <2>3. QED
    BY <1>2, <2>1, <2>2
<1>19. ASSUME Remove PROVE Goal
  BY <1>1, <1>2, <1>19 DEF Remove
<1>20. ASSUME Crash \/ LoseRecords PROVE Goal
  BY <1>2, <1>4, <1>20 DEF Crash, LoseRecords
<1>21. ASSUME newService PROVE Goal
  <2>1. objects' = objects
    BY <1>1, <1>21 DEF newService, startGives
  <2>2. QED
    BY <1>2, <1>21, <2>1 DEF newService, openState
<1>22. QED
  BY <1>5, <1>6, <1>7, <1>8, <1>9, <1>10, <1>11, <1>13, <1>14, <1>15, <1>16, <1>17, <1>18,
     <1>19, <1>20, <1>21
  DEF Next, Requests, Steps, vars

\* btrfs: two names never carry one subvolume id, through every step.
LEMMA BtrfsInvHolds == Spec => []BtrfsInv
<1>1. Init => BtrfsInv
  <2> SUFFICES ASSUME Init PROVE BtrfsInv
    OBVIOUS
  <2>1. \A n \in Names : vols[n] = NoRecord /\ disk[n] = NoRecord
    BY DEF Init
  <2>2. \A n \in Names : objects[n].made # "ours" /\ (objects[n].made # "foreign" => objects[n].tag = 0)
    BY NothingMadeYet DEF NoObject
  <2>3. QED
    BY <2>1, <2>2 DEF BtrfsInv, TagsOf, NoRecord
<1>2. TypeOK /\ RequestInv /\ ForeignInv /\ StepInv /\ BtrfsInv /\ [Next]_vars => BtrfsInv'
  <2> SUFFICES ASSUME TypeOK, RequestInv, ForeignInv, StepInv, BtrfsInv, [Next]_vars,
                      kind' = "btrfs"
               PROVE  BtrfsInv'
    BY DEF BtrfsInv
  <2>1. kind = "btrfs" /\ \A n \in Names : objects'[n].made # "foreign" => objects[n].made # "foreign"
    BY ForeignSpared DEF Spares
  <2>2. CASE Make /\ ~present(op.name)
    <3>0. PICK n \in Names : n = op.name
      BY <2>2 DEF Make, At, RequestInv
    <3>1. UNCHANGED <<vols, disk>> /\ objects \in [Names -> Object]
      BY <2>2 DEF Make, TypeOK
    <3>2. PICK t \in fresh :
            objects' = [objects EXCEPT ![n] = [made |-> "ours", tag |-> t, given |-> FALSE]]
      BY <2>1, <2>2, <3>0 DEF Make, tagsOfNew
    <3>3. /\ objects'[n].tag = t /\ objects'[n].made = "ours"
          /\ \A m \in Names \ {n} : objects'[m] = objects[m]
      BY <3>1, <3>2
    <3>4. t # 0 /\ \A m \in Names : t \notin TagsOf(m)
      BY <3>2, TagsAssumption DEF fresh, TagsOf
    <3>5. objects[n].made = "none"
      BY <2>2, <3>0 DEF present
    <3>6. \A m \in Names \ {n} : TagsOf(m)' = TagsOf(m)
      BY <3>1, <3>3 DEF TagsOf
    <3>7. TagsOf(n)' \subseteq TagsOf(n) \cup {t}
      BY <3>1, <3>3 DEF TagsOf
    <3>8. QED
      BY <2>1, <3>3, <3>4, <3>5, <3>6, <3>7 DEF BtrfsInv
  <2>3. CASE ~(Make /\ ~present(op.name))
    <3>1. \A n \in Names : KeepsTags(n) /\ (objects'[n].made = "ours" =>
             objects[n].made = "ours" /\ objects'[n].tag = objects[n].tag)
      BY <2>1, <2>3, TagsKept
    <3>2. \A n \in Names : TagsOf(n)' \subseteq TagsOf(n)
      BY <3>1 DEF KeepsTags, TagsOf
    <3>3. QED
      BY <2>1, <3>1, <3>2 DEF BtrfsInv
  <2>4. QED
    BY <2>2, <2>3
<1>3. QED
  BY <1>1, <1>2, ProvisionerTyped, ForeignInvHolds, StepInvHolds, PTL DEF Spec

\* ZFS: a dataset of ours has its name's mark and a limit, through every step.
LEMMA ZfsInvHolds == Spec => []ZfsInv
<1>1. Init => ZfsInv
  BY NothingMadeYet DEF ZfsInv, NoObject
<1>2. TypeOK /\ RequestInv /\ ForeignInv /\ StepInv /\ ZfsInv /\ [Next]_vars => ZfsInv'
  <2> SUFFICES ASSUME TypeOK, RequestInv, ForeignInv, StepInv, ZfsInv, [Next]_vars, kind' = "zfs"
               PROVE  ZfsInv'
    BY DEF ZfsInv
  <2>0. kind = "zfs" /\ UNCHANGED kind /\ kind \in Kinds
    BY ForeignSpared DEF TypeOK
  <2>1. /\ op \in Request /\ objects \in [Names -> Object] /\ limit \in [Tags -> Quotas \cup {0}]
    BY DEF TypeOK
  <2>2. /\ \A n \in Names : markOf[n] \in Tags
        /\ \A m, n \in Names : markOf[m] = markOf[n] => m = n
    BY <2>0, MarkOfName
  <2>3. \A n \in Names : objects[n].made = "ours" => objects[n].tag = markOf[n] /\ limit[markOf[n]] # 0
    BY <2>0 DEF ZfsInv
  <2>4. ASSUME \A n \in Names : objects'[n].made = "ours" =>
                 objects[n].made = "ours" /\ objects'[n].tag = objects[n].tag,
               \A n \in Names : objects'[n].made = "ours" /\ limit[markOf[n]] # 0 => limit'[markOf[n]] # 0
        PROVE  ZfsInv'
    BY <2>3, <2>4 DEF ZfsInv
  <2>5. ASSUME op.step # "idle" PROVE op.name \in Names
    BY <2>5 DEF RequestInv
  <2>6. ASSUME UNCHANGED <<objects, limit>> PROVE ZfsInv'
    BY <2>4, <2>6
  <2>7. ASSUME NEW n \in Names, NEW q \in Quotas,
               CreateNew(n, q) \/ CreateFound(n, q) \/ CreateAgain(n, q) \/ ResizeVolume(n, q)
        PROVE  ZfsInv'
    BY <2>6, <2>7 DEF CreateNew, CreateFound, CreateAgain, ResizeVolume
  <2>8. ASSUME NEW n \in Names, NEW s \in Snaps, SnapshotVolume(n, s) PROVE ZfsInv'
    BY <2>6, <2>8 DEF SnapshotVolume
  <2>9. ASSUME NEW n \in Names, DeleteVolume(n) \/ DeleteRefused(n) PROVE ZfsInv'
    <3>1. UNCHANGED limit /\ (objects' = objects \/ objects' = [objects EXCEPT ![n].given = TRUE])
      BY <2>9 DEF DeleteVolume, DeleteRefused, emptyGives
    <3>2. \A m \in Names : objects'[m].made = objects[m].made /\ objects'[m].tag = objects[m].tag
      BY <2>1, <3>1 DEF Object
    <3>3. QED
      BY <2>4, <3>1, <3>2
  <2>10. ASSUME \/ CreateRecorded \/ CreateNotRecorded \/ MakeFails \/ Snapshot \/ StepFails
                \/ DeleteSnapshots \/ DestroyFails \/ Finish \/ FinishFails \/ Crash \/ LoseRecords
         PROVE  ZfsInv'
    BY <2>6, <2>10
    DEF CreateRecorded, CreateNotRecorded, MakeFails, Snapshot, StepFails, DeleteSnapshots,
        DestroyFails, Finish, FinishFails, Crash, LoseRecords
  <2>11. ASSUME Make PROVE ZfsInv'
    <3>1. op.name \in Names /\ vols[op.name].quota # 0
      BY <2>5, <2>11 DEF Make, At, StepInv
    <3>2. CASE present(op.name)
      BY <2>6, <2>11, <3>2 DEF Make
    <3>3. CASE ~present(op.name)
      <4>1. /\ objects' = [objects EXCEPT ![op.name] =
                             [made |-> "ours", tag |-> markOf[op.name], given |-> FALSE]]
            /\ limit' = [limit EXCEPT ![markOf[op.name]] = vols[op.name].quota]
        BY <2>0, <2>11, <3>3 DEF Make, tagsOfNew, limitAsMade, limitOf
      <4>2. objects'[op.name].tag = markOf[op.name] /\ limit'[markOf[op.name]] # 0
        BY <2>1, <2>2, <3>1, <4>1
      <4>3. \A m \in Names \ {op.name} :
              objects'[m] = objects[m] /\ limit'[markOf[m]] = limit[markOf[m]]
        BY <2>1, <2>2, <3>1, <4>1
      <4>4. QED
        BY <2>3, <4>2, <4>3 DEF ZfsInv
    <3>4. QED
      BY <3>2, <3>3
  <2>12. ASSUME Tag PROVE ZfsInv'
    BY <2>0, <2>6, <2>12 DEF Tag
  <2>13. ASSUME Limit \/ Resize PROVE ZfsInv'
    <3>1. op.name \in Names /\ UNCHANGED objects
      BY <2>5, <2>13 DEF Limit, Resize, At
    <3>2. PICK q : q # 0 /\ limit' = [limit EXCEPT ![markOf[op.name]] = q]
      BY <2>0, <2>13, QuotasAssumption DEF Limit, Resize, At, StepInv, RequestInv, limitOf
    <3>3. QED
      BY <2>1, <2>2, <2>4, <3>1, <3>2
  <2>14. ASSUME Give PROVE ZfsInv'
    <3>1. op.name \in Names /\ UNCHANGED limit
      BY <2>5, <2>14 DEF Give, At
    <3>2. \A m \in Names : objects'[m].made = objects[m].made /\ objects'[m].tag = objects[m].tag
      BY <2>1, <2>14, <3>1 DEF Give, Object
    <3>3. QED
      BY <2>4, <3>1, <3>2
  <2>15. ASSUME op.name \in Names, objects'[op.name].made = "none",
                \A m \in Names \ {op.name} : objects'[m] = objects[m], limit' = lifted(op.name)
         PROVE  ZfsInv'
    BY <2>0, <2>2, <2>4, <2>15 DEF lifted, limitOf
  <2>16. ASSUME Remove PROVE ZfsInv'
    <3>1. op.name \in Names /\ limit' = lifted(op.name)
      BY <2>0, <2>5, <2>16 DEF Remove, At
    <3>2. objects'[op.name].made = "none" /\ \A m \in Names \ {op.name} : objects'[m] = objects[m]
      BY <2>1, <2>16, <3>1 DEF Remove, NoObject
    <3>3. QED
      BY <2>15, <3>1, <3>2
  <2>17. ASSUME Lift PROVE ZfsInv'
    BY <2>0, <2>5, <2>15, <2>17 DEF Lift, At, StepInv
  <2>18. ASSUME newService PROVE ZfsInv'
    <3>1. UNCHANGED limit /\ \A m \in Names : \/ objects'[m] = objects[m]
                                               \/ objects'[m] = [objects[m] EXCEPT !.given = TRUE]
      BY <2>18 DEF newService, startGives
    <3>2. \A m \in Names : objects'[m].made = objects[m].made /\ objects'[m].tag = objects[m].tag
      BY <2>1, <3>1 DEF Object
    <3>3. QED
      BY <2>4, <3>1, <3>2
  <2>19. ASSUME UNCHANGED vars PROVE ZfsInv'
    BY <2>6, <2>19 DEF vars
  <2>20. QED
    BY <2>7, <2>8, <2>9, <2>10, <2>11, <2>12, <2>13, <2>14, <2>16, <2>17, <2>18, <2>19
    DEF Next, Requests, Steps
<1>3. QED
  BY <1>1, <1>2, ProvisionerTyped, ForeignInvHolds, StepInvHolds, PTL DEF Spec

\* No two volumes are charged to one project id, are one subvolume or carry one
\* mark, after any failure and crash: an id of the range is given out only when
\* no record holds it, and whatever carries it is claimed by a record of the file.
THEOREM TagsAreApart == Spec => []OneVolumePerTag
<1>1. TypeOK /\ ProjectInv /\ BtrfsInv /\ ZfsInv => OneVolumePerTag
  <2> SUFFICES ASSUME TypeOK, ProjectInv, BtrfsInv, ZfsInv, NEW m \in Names, NEW n \in Names,
                      m # n, objects[m].made = "ours", objects[n].made = "ours", objects[m].tag # 0,
                      objects[m].tag = objects[n].tag
               PROVE  FALSE
    BY DEF OneVolumePerTag
  <2>1. CASE kind = "project"
    <3>1. objects[m].tag = disk[m].tag /\ objects[n].tag = disk[n].tag
      BY <2>1 DEF ProjectInv, Claims, projOwned
    <3>2. QED
      BY <2>1, <3>1 DEF ProjectInv, RecordsFit
  <2>2. CASE kind = "btrfs"
    BY <2>2 DEF BtrfsInv, TagsOf
  <2>3. CASE kind = "zfs"
    BY <2>3, MarkOfName DEF ZfsInv, TypeOK
  <2>4. QED
    BY <2>1, <2>2, <2>3, KindsAssumption DEF TypeOK
<1>2. QED
  BY <1>1, ProvisionerTyped, ProjectInvHolds, BtrfsInvHolds, ZfsInvHolds, PTL

\* What the group is given has its limit, through every step.
LEMMA LimitInvHolds == Spec => []LimitInv
<1>1. Init => LimitInv
  <2> SUFFICES ASSUME Init PROVE LimitInv
    OBVIOUS
  <2>1. op.step = "idle"
    BY DEF Init, Idle
  <2>2. QED
    BY <2>1, NothingMadeYet DEF LimitInv, NoObject
<1> DEFINE Known == /\ TypeOK /\ RequestInv /\ ForeignInv /\ StepInv
                    /\ ProjectInv /\ BtrfsInv /\ ZfsInv
<1>2. TypeOK /\ RequestInv /\ StepInv /\ ZfsInv /\ kind = "zfs" => LimitInv
  <2> SUFFICES ASSUME TypeOK, RequestInv, StepInv, ZfsInv, kind = "zfs" PROVE LimitInv
    OBVIOUS
  <2>1. \A n \in Names : objects[n].made = "ours" => Limited(n)
    BY MarkOfName DEF ZfsInv, TypeOK, Limited
  <2>2. op.step = "give" => op.name \in Names /\ objects[op.name].made = "ours"
    BY DEF RequestInv, StepInv
  <2>3. QED
    BY <2>1, <2>2 DEF LimitInv
<1>3. Known /\ LimitInv /\ [Next]_vars /\ kind # "zfs" => LimitInv'
  <2> SUFFICES ASSUME Known, LimitInv, [Next]_vars, kind # "zfs" PROVE LimitInv'
    OBVIOUS
  <2>0. kind \in {"project", "btrfs"} /\ UNCHANGED kind
    BY ForeignSpared, KindsAssumption DEF TypeOK
  <2>1. /\ op \in Request /\ objects \in [Names -> Object] /\ vols \in [Names -> Record]
        /\ limit \in [Tags -> Quotas \cup {0}]
    BY DEF TypeOK
  <2>2. Idle.step = "idle"
    BY DEF Idle
  <2>3. ASSUME NEW t, Goes(t) PROVE op'.step = t /\ op'.name = op.name
    BY <2>1, <2>3 DEF Goes, Request
  <2>4. ASSUME op.step # "idle" PROVE op.name \in Names /\ up
    BY <2>4 DEF RequestInv
  <2>5. ASSUME \A n \in Names : objects'[n].made = "ours" /\ objects'[n].given =>
                 objects[n].made = "ours" /\ objects[n].given /\ objects'[n].tag = objects[n].tag,
               \A t \in Tags : limit[t] # 0 => limit'[t] # 0,
               op'.step # "give"
        PROVE  LimitInv'
    BY <2>5 DEF LimitInv, Limited
  <2>6. ASSUME UNCHANGED <<objects, limit>>, op'.step # "give" PROVE LimitInv'
    BY <2>5, <2>6
  <2>b. ASSUME NEW what, NEW n, NEW q, NEW t, NEW step, Begin(what, n, q, t, step) PROVE op'.step = step
    BY ONLY <2>b DEF Begin
  <2>7. ASSUME NEW n \in Names, NEW q \in Quotas,
               CreateNew(n, q) \/ CreateFound(n, q) \/ CreateAgain(n, q) \/ ResizeVolume(n, q)
        PROVE  LimitInv'
    <3>1. UNCHANGED <<objects, limit>>
      BY <2>7 DEF CreateNew, CreateFound, CreateAgain, ResizeVolume
    <3>2. op'.step # "give"
      <4>1. CASE CreateNew(n, q)
        BY <2>b, <4>1 DEF CreateNew
      <4>2. CASE CreateFound(n, q)
        BY <2>b, <4>2 DEF CreateFound
      <4>3. CASE CreateAgain(n, q)
        BY <2>b, <4>3 DEF CreateAgain
      <4>4. CASE ResizeVolume(n, q)
        BY <2>b, <4>4 DEF ResizeVolume
      <4>5. QED
        BY <2>7, <4>1, <4>2, <4>3, <4>4
    <3>3. QED
      BY <2>6, <3>1, <3>2
  <2>8. ASSUME NEW n \in Names, NEW s \in Snaps, SnapshotVolume(n, s) PROVE LimitInv'
    BY <2>6, <2>8 DEF SnapshotVolume, Begin
  <2>9. ASSUME NEW n \in Names, DeleteVolume(n) \/ DeleteRefused(n) PROVE LimitInv'
    <3>1. ~DeleteRefused(n) /\ UNCHANGED <<objects, limit>>
      BY <2>9 DEF DeleteVolume, DeleteRefused, emptyGives
    <3>2. op'.step # "give"
      BY <2>9, <2>b, <3>1 DEF DeleteVolume
    <3>3. QED
      BY <2>6, <3>1, <3>2
  <2>10. ASSUME \/ CreateRecorded \/ CreateNotRecorded \/ MakeFails \/ Snapshot \/ StepFails
                \/ DeleteSnapshots \/ DestroyFails \/ Finish \/ FinishFails \/ Crash \/ LoseRecords
         PROVE  LimitInv'
    <3>1. op' = Idle \/ Goes("make") \/ Goes("finish") \/ Goes("remove") \/ LoseRecords
      BY <2>10
      DEF CreateRecorded, CreateNotRecorded, MakeFails, Snapshot, StepFails, DeleteSnapshots,
          DestroyFails, Finish, FinishFails, Crash, Ends
    <3>2. op'.step # "give" \/ LoseRecords
      BY <2>2, <2>3, <3>1
    <3>3. QED
      BY <2>6, <2>10, <3>2
      DEF CreateRecorded, CreateNotRecorded, MakeFails, Snapshot, StepFails, DeleteSnapshots,
          DestroyFails, Finish, FinishFails, Crash, LoseRecords
  <2>11. ASSUME Make PROVE LimitInv'
    <3>1. op.name \in Names /\ (op' = Idle \/ Goes("tag")) /\ UNCHANGED limit
      BY <2>0, <2>4, <2>11 DEF Make, At, Ends, limitAsMade
    <3>2. op'.step # "give"
      BY <2>2, <2>3, <3>1
    <3>3. \/ UNCHANGED objects
          \/ \E t : objects' = [objects EXCEPT ![op.name] = [made |-> "ours", tag |-> t, given |-> FALSE]]
      BY <2>11 DEF Make
    <3>4. \A n \in Names : objects'[n] = objects[n] \/ ~objects'[n].given
      <4>1. ASSUME NEW t, NEW n \in Names,
                   objects' = [objects EXCEPT ![op.name] = [made |-> "ours", tag |-> t, given |-> FALSE]]
            PROVE  objects'[n] = objects[n] \/ ~objects'[n].given
        <5>1. CASE n = op.name
          BY ONLY <2>1, <4>1, <5>1
        <5>2. CASE n # op.name
          BY <2>1, <4>1, <5>2
        <5>3. QED
          BY <5>1, <5>2
      <4>2. QED
        BY ONLY <3>3, <4>1
    <3>5. QED
      BY <2>5, <3>1, <3>2, <3>4
  <2>12. ASSUME Tag PROVE LimitInv'
    <3>1. op.name \in Names /\ up /\ UNCHANGED limit /\ op'.step # "give"
      BY <2>3, <2>4, <2>12 DEF Tag, At
    <3>2. CASE kind = "project"
      <4>1. /\ objects'[op.name].tag = vols[op.name].tag
            /\ objects'[op.name].made = objects[op.name].made
            /\ objects'[op.name].given = objects[op.name].given
            /\ \A m \in Names \ {op.name} : objects'[m] = objects[m]
        BY <2>1, <2>12, <3>1, <3>2 DEF Tag, Object
      <4>2. objects[op.name].made = "ours" /\ objects[op.name].given =>
              objects[op.name].tag = vols[op.name].tag
        BY <3>1, <3>2, TagsAssumption DEF LimitInv, Limited, ProjectInv, Claims, projOwned
      <4>3. QED
        BY <2>5, <3>1, <4>1, <4>2
    <3>3. CASE kind # "project"
      BY <2>6, <2>12, <3>1, <3>3 DEF Tag
    <3>4. QED
      BY <3>2, <3>3
  <2>13. ASSUME Limit PROVE LimitInv'
    <3>1. /\ op.name \in Names /\ UNCHANGED objects /\ op'.name = op.name
          /\ limit' = [limit EXCEPT ![vols[op.name].tag] = vols[op.name].quota]
      BY <2>0, <2>3, <2>4, <2>13 DEF Limit, At, limitOf
    <3>2. /\ vols[op.name].quota # 0 /\ objects[op.name].made = "ours"
          /\ objects[op.name].tag = vols[op.name].tag
      BY <2>13 DEF Limit, At, StepInv
    <3>3. objects[op.name].tag \in Tags
      <4>1. CASE kind = "project"
        BY <3>1, <3>2, <4>1 DEF ProjectInv, RecordsFit
      <4>2. CASE kind = "btrfs"
        BY <2>1, <3>1, <3>2, <4>2 DEF BtrfsInv, Object
      <4>3. QED
        BY <2>0, <4>1, <4>2
    <3>4. \A t \in Tags : limit'[t] = limit[t] \/ limit'[t] # 0
      BY <2>1, <3>1, <3>2
    <3>5. limit'[objects[op.name].tag] # 0
      BY <2>1, <3>1, <3>2, <3>3
    <3>6. QED
      BY <3>1, <3>3, <3>4, <3>5 DEF LimitInv, Limited
  <2>14. ASSUME Give PROVE LimitInv'
    <3>1. op.name \in Names /\ UNCHANGED limit /\ op'.step # "give" /\ Limited(op.name)
      BY <2>3, <2>4, <2>14 DEF Give, At, LimitInv
    <3>2. /\ objects'[op.name].tag = objects[op.name].tag
          /\ \A m \in Names \ {op.name} : objects'[m] = objects[m]
      BY <2>1, <2>14, <3>1 DEF Give, Object
    <3>3. QED
      BY <3>1, <3>2 DEF LimitInv, Limited
  <2>15. ASSUME Resize PROVE LimitInv'
    <3>1. op.quota # 0 /\ UNCHANGED objects /\ op'.step # "give"
      BY <2>3, <2>15, QuotasAssumption DEF Resize, At, RequestInv
    <3>2. \A t \in Tags : limit'[t] = limit[t] \/ limit'[t] # 0
      BY <2>1, <2>15, <3>1 DEF Resize
    <3>3. QED
      BY <2>5, <3>1, <3>2
  <2>16. ASSUME Remove PROVE LimitInv'
    <3>1. op.name \in Names /\ UNCHANGED limit /\ op'.step # "give"
      BY <2>0, <2>3, <2>4, <2>16 DEF Remove, At
    <3>2. objects'[op.name].made = "none" /\ \A m \in Names \ {op.name} : objects'[m] = objects[m]
      BY <2>1, <2>16, <3>1 DEF Remove, NoObject
    <3>3. QED
      BY <2>5, <3>1, <3>2
  <2>17. ASSUME Lift PROVE LimitInv'
    <3>1. /\ op.name \in Names /\ up /\ UNCHANGED objects /\ op'.step # "give"
          /\ objects[op.name].made = "none"
      BY <2>3, <2>4, <2>17 DEF Lift, At, StepInv
    <3>2. \A t \in Tags : t = vols[op.name].tag \/ limit'[t] = limit[t]
      BY <2>0, <2>17 DEF Lift, lifted, limitOf
    <3>3. ASSUME NEW n \in Names, objects[n].made = "ours", objects[n].given
          PROVE  objects[n].tag # vols[op.name].tag
      <4>1. objects[n].tag # 0 /\ n # op.name
        BY <3>1, <3>3, TagsAssumption DEF LimitInv, Limited
      <4>2. CASE kind = "project"
        <5>1. objects[n].tag = vols[n].tag
          BY <3>1, <3>3, <4>1, <4>2 DEF ProjectInv, Claims, projOwned
        <5>2. QED
          BY <3>1, <4>1, <4>2, <5>1 DEF ProjectInv, RecordsFit
      <4>3. CASE kind = "btrfs"
        BY <3>1, <3>3, <4>1, <4>3 DEF BtrfsInv, TagsOf
      <4>4. QED
        BY <2>0, <4>2, <4>3
    <3>4. QED
      BY <3>1, <3>2, <3>3 DEF LimitInv, Limited
  <2>18. ASSUME newService PROVE LimitInv'
    <3>1. op' = op /\ op.step = "idle" /\ UNCHANGED limit
      BY <2>18 DEF newService, RequestInv
    <3>2. objects' = objects
      BY <2>0, <2>1, <2>18 DEF newService, startGives
    <3>3. QED
      BY <2>6, <3>1, <3>2
  <2>19. ASSUME UNCHANGED vars PROVE LimitInv'
    BY <2>19 DEF vars, LimitInv, Limited
  <2>20. QED
    BY <2>7, <2>8, <2>9, <2>10, <2>11, <2>12, <2>13, <2>14, <2>15, <2>16, <2>17, <2>18, <2>19
    DEF Next, Requests, Steps
<1>4. Known /\ [Next]_vars => UNCHANGED kind
  BY ForeignSpared
<1>5. Known /\ Known' /\ LimitInv /\ [Next]_vars => LimitInv'
  <2> SUFFICES ASSUME Known, Known', LimitInv, [Next]_vars PROVE LimitInv'
    OBVIOUS
  <2>1. CASE kind # "zfs"
    BY <1>3, <2>1
  <2>2. CASE kind = "zfs"
    <3>1. kind' = "zfs"
      BY <1>4, <2>2
    <3>2. (TypeOK /\ RequestInv /\ StepInv /\ ZfsInv /\ kind = "zfs" => LimitInv)'
      BY <1>2, PTL
    <3>3. QED
      BY <3>1, <3>2
  <2>3. QED
    BY <2>1, <2>2
<1>6. Spec => []Known
  BY ProvisionerTyped, ForeignInvHolds, StepInvHolds, ProjectInvHolds, BtrfsInvHolds, ZfsInvHolds, PTL
<1>7. QED
  BY <1>1, <1>5, <1>6, PTL DEF Spec

\* fileshare can never write into a volume unlimited, whichever the backend and
\* wherever a creation, a deletion or the process stopped: the group is given
\* the volume only after its limit is set, and a limit is lifted only after what
\* it limits is gone, under an id that nothing else carries.
THEOREM NeverWithoutLimit == Spec => []NeverUnlimited
<1>1. LimitInv => NeverUnlimited
  BY DEF LimitInv, Limited, NeverUnlimited
<1>2. QED
  BY <1>1, LimitInvHolds, PTL
=============================================================================
