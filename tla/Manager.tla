------------------------------ MODULE Manager ------------------------------
(***************************************************************************)
(* Changes to the list of shares: the admin API's manager (state.go, the   *)
(* handlers of admin_grpc.go), the opening and releasing of the drivers    *)
(* behind the shares (server.go, share.go), the reload that opens the      *)
(* served list again (reload.go), the start that reads the state file back *)
(* (withState, newManager, open), and the volumes shares are made from     *)
(* (volume.go, volume_grpc.go), which the provisioner makes and deletes.   *)
(*                                                                         *)
(* A change holds manager.mu from its first line to its last.  From the    *)
(* opening of the shares to the end of apply it also holds server.changeMu, *)
(* as a reload does from beginning to end.  What swap does between two     *)
(* generations is module Generation; here it is one step.                  *)
(*                                                                         *)
(* Who is granted what is module Reload's; here a grant is a change that   *)
(* leaves the share's source and its read_only as they are.                *)
(***************************************************************************)
EXTENDS Integers, FiniteSets

CONSTANTS ApiNames,    \* the names the admin API may give a share
          FileBlocks,  \* the shares of the configuration: name -> definition
          Paths,       \* the resolved sources shares are made from
          Kinds,       \* what a block says of its source, see Def
          Volumes,     \* those of them where the provisioner may have a volume
          FileAt,      \* the file first found at each path: path -> file
          MaxFile      \* bound: files that ever appear, numbered from 1

Files == 1..MaxFile
NoFile == 0            \* stat found nothing

\* A share block: where from, whether that is a "directory" or an image, and
\* of an image the filesystem it names or that it is to be detected; read_only;
\* and whether it was made from the volume there, by its name, or from what is
\* at the path.
Def == {d \in [path : Paths, as : Kinds, ro : BOOLEAN, vol : BOOLEAN] :
          d.vol => d.path \in Volumes /\ d.as = "directory"}

FileNames == DOMAIN FileBlocks
Names == ApiNames \cup FileNames

ASSUME NamesAssumption == IsFiniteSet(Names) /\ ApiNames \cap FileNames = {}
ASSUME VolumesAssumption == Volumes \subseteq Paths
ASSUME FilesAssumption == MaxFile \in Nat \ {0} /\ FileAt \in [Paths -> Files]
ASSUME BlocksAssumption ==
  /\ FileBlocks \in [FileNames -> {d \in Def : ~d.vol}]
  /\ \A m, n \in FileNames : m # n => FileBlocks[m].path # FileBlocks[n].path

\* A driver's number.  One is taken from those nobody refers to.
Drivers == 1..(2 * Cardinality(Names))

\* Neither a share's name nor a volume's.
NoName == "no name"
ASSUME NoNameAssumption == NoName \notin Names \cup Volumes

VARIABLES
  disk,     \* the state file
  mem,      \* manager.state
  next,     \* the state being applied, or started from; empty otherwise
  change,   \* where manager.change is
  served,   \* server.shares: name -> definition and driver
  drivers,  \* the open drivers: number -> what was opened
  holder,   \* who holds server.changeMu and opens shares
  todo,     \* openSharesExpanding: the blocks not yet looked at
  cur,      \* the block it is at, NoName between two
  key,      \* imageKeyOf of that block: the file stat saw
  pend,     \* its result so far
  opened,   \* the drivers it opened itself
  at,       \* the filesystem: the file or directory at each path
  vol,      \* the provisioner: the directory that is the volume, per volume
  asked,    \* the deletions it was asked for and has not done
  del,      \* the volume whose deletion DeleteVolume waits for, or NoName
  proc      \* "down", "starting", "serving", "stopping" (server.gen = nil)

openVars == <<holder, todo, cur, key, pend, opened>>
stateVars == <<disk, mem, next, change>>
volVars == <<vol, asked, del>>
vars == <<stateVars, served, drivers, openVars, at, volVars, proc>>
-----------------------------------------------------------------------------
(***************************************************************************)
(* A state, and what it defines.  found is the shares whose volume was     *)
(* asked for, found and checked; it is in memory only.                     *)
(***************************************************************************)
EmptyState == [shares |-> <<>>, disabled |-> {}, found |-> {}]

Written(st) == [st EXCEPT !.found = {}]

\* manager.blocks: every share the files and a state define, and those served.
All(st) == [n \in FileNames \cup DOMAIN st.shares |->
              IF n \in FileNames THEN FileBlocks[n] ELSE st.shares[n]]

\* managedShare.unavailable: enabled, and its volume not found.
unavailable(st) == {n \in DOMAIN st.shares : st.shares[n].vol /\ n \notin st.found}

Serve(st) == [n \in DOMAIN All(st) \ (st.disabled \cup unavailable(st)) |-> All(st)[n]]

\* manager.changedBlocks: the API's shares a state defines differently.
changedBlocks(st) == {n \in DOMAIN st.shares :
                        \/ n \notin DOMAIN mem.shares \/ mem.shares[n] # st.shares[n]
                        \/ (n \in mem.found) # (n \in st.found)}

\* No share of changed has the source of another share, served or offline.
checkNoShareHoldsShare(st, changed) ==
  \A n \in changed, o \in DOMAIN All(st) : n # o => All(st)[n].path # All(st)[o].path

\* The definitions a list of shares serves, and the drivers it holds.
Defs(list) == [n \in DOMAIN list |-> list[n].def]
DriversOf(list) == {list[n].drv : n \in DOMAIN list}

\* Mutant of release: the drivers both lists hold are closed too.
releaseAll(list, keep) ==
  [d \in DOMAIN drivers \ DriversOf(list) |-> drivers[d]]

\* release: the open drivers, without those of list that keep does not hold.
release(list, keep) ==
  [d \in DOMAIN drivers \ (DriversOf(list) \ DriversOf(keep)) |-> drivers[d]]
-----------------------------------------------------------------------------
Init ==
  /\ disk = EmptyState /\ mem = EmptyState /\ next = EmptyState
  /\ change = "idle"
  /\ served = <<>>
  /\ drivers = <<>>
  /\ holder = "nobody" /\ todo = {} /\ cur = NoName /\ key = NoFile
  /\ pend = <<>> /\ opened = {}
  /\ at = [p \in Paths |-> IF p \in Volumes THEN NoFile ELSE FileAt[p]]
  /\ vol = [p \in Volumes |-> NoFile] /\ asked = {} /\ del = NoName
  /\ proc = "down"
-----------------------------------------------------------------------------
(***************************************************************************)
(* The files under the shares are other programs': one is replaced by      *)
(* another (renamed over it), or removed.                                  *)
(***************************************************************************)
new == Files \ ({at[p] : p \in Paths} \cup {vol[p] : p \in Volumes}
                 \cup {drivers[d].file : d \in DOMAIN drivers})

ReplaceFile(p) ==
  /\ \E f \in new : at' = [at EXCEPT ![p] = f]
  /\ UNCHANGED <<stateVars, served, drivers, openVars, proc, volVars>>

RemoveFile(p) ==
  /\ at[p] # NoFile
  /\ at' = [at EXCEPT ![p] = NoFile]
  /\ UNCHANGED <<stateVars, served, drivers, openVars, proc, volVars>>
-----------------------------------------------------------------------------
(***************************************************************************)
(* manager.change: the edit of one handler on a copy of the state, then    *)
(* the checks of apply up to the lock.  A refused edit changes nothing.    *)
(***************************************************************************)
\* manager.mu can be had.
muFree == proc \in {"serving", "stopping"} /\ change = "idle" /\ del = NoName

\* Mutant of Begin: the new sources are not checked against the others.
BeginUnchecked(st) ==
  /\ muFree
  /\ next' = st
  /\ change' = "checked"
  /\ UNCHANGED <<disk, mem, served, drivers, openVars, at, proc, volVars>>

Begin(st) ==
  /\ muFree
  /\ checkNoShareHoldsShare(st, changedBlocks(st))
  /\ next' = st
  /\ change' = "checked"
  /\ UNCHANGED <<disk, mem, served, drivers, openVars, at, proc, volVars>>

With(n, d) == [m \in DOMAIN mem.shares \cup {n} |-> IF m = n THEN d ELSE mem.shares[m]]

\* checkVolume: what is at the path is the volume -- mounted, and under its
\* quota.  resolveVolume: the provisioner has it, too.
checkVolume(p) == at[p] = vol[p]
resolveVolume(p) == vol[p] # NoFile /\ checkVolume(p)

\* resolveVolumes: what a start may find, of the volumes of a state; the
\* provisioner may not answer for some.
resolveVolumes(st) ==
  SUBSET {n \in DOMAIN st.shares : st.shares[n].vol /\ resolveVolume(st.shares[n].path)}

CreateShare(n, d, off) ==
  /\ n \notin DOMAIN mem.shares
  /\ d.vol => resolveVolume(d.path)
  /\ Begin([shares |-> With(n, d),
            disabled |-> IF off THEN mem.disabled \cup {n} ELSE mem.disabled \ {n},
            found |-> IF d.vol THEN mem.found \cup {n} ELSE mem.found])

UpdateShare(n, ro) ==
  /\ n \in DOMAIN mem.shares
  /\ Begin([mem EXCEPT !.shares[n].ro = ro])

\* Grant and Revoke.
Regrant(n) ==
  /\ n \in DOMAIN mem.shares
  /\ Begin(mem)

DeleteShare(n) ==
  /\ n \in DOMAIN mem.shares
  /\ Begin([shares |-> [m \in DOMAIN mem.shares \ {n} |-> mem.shares[m]],
            disabled |-> mem.disabled \ {n}, found |-> mem.found \ {n}])

\* DisableShare and EnableShare.  Asking for what already is, is refused.
setDisabled(n, off) ==
  /\ n \in DOMAIN All(mem)
  /\ (n \in mem.disabled) # off
  /\ ~off => ~All(mem)[n].vol
  /\ Begin([mem EXCEPT !.disabled = IF off THEN @ \cup {n} ELSE @ \ {n}])

\* Its volume is looked up again when a share is brought back, and when it
\* is not disabled and waits for it.
EnableVolumeShare(n) ==
  /\ n \in DOMAIN mem.shares /\ mem.shares[n].vol
  /\ n \in mem.disabled \cup unavailable(mem)
  /\ resolveVolume(mem.shares[n].path)
  /\ Begin([shares |-> mem.shares,
            disabled |-> mem.disabled \ {n}, found |-> mem.found \cup {n}])

\* apply takes changeMu, and begins to open what the state serves.
ApplyLock ==
  /\ change = "checked"
  /\ holder = "nobody"
  /\ change' = "opening"
  /\ holder' = "change"
  /\ todo' = DOMAIN Serve(next)
  /\ UNCHANGED <<disk, mem, next, served, drivers, cur, key, pend, opened, at, proc, volVars>>
-----------------------------------------------------------------------------
(***************************************************************************)
(* A reload that found something taken away opens the served shares again, *)
(* from the blocks they were opened from.                                  *)
(***************************************************************************)
ReloadLock ==
  /\ proc \in {"serving", "stopping"}
  /\ holder = "nobody"
  /\ holder' = "reload"
  /\ todo' = DOMAIN served
  /\ UNCHANGED <<stateVars, served, drivers, cur, key, pend, opened, at, proc, volVars>>
-----------------------------------------------------------------------------
(***************************************************************************)
(* openSharesExpanding, for the holder of changeMu and for a start.  Each  *)
(* block in turn: stat its source, then take the driver that has that file *)
(* open or open one.                                                       *)
(***************************************************************************)
Blocks == IF holder = "reload" THEN Defs(served) ELSE Serve(next)

\* imageKey.same: a driver was opened for the file stat saw, and by a block
\* that said the same of it.
same(d) == key # NoFile /\ drivers[d].key = key /\ drivers[d].as = Blocks[cur].as

\* Mutant of sameImage: only the previous list is looked through.
sameImageBefore == {d \in DriversOf(served) : same(d)}

\* sameImage: the drivers of the previous list and of this one.
sameImage == {d \in DriversOf(served) \cup DriversOf(pend) : same(d)}

\* The configuration's shares come before the API's.
StatShare(n) ==
  /\ n \in todo /\ (n \in FileNames \/ todo \cap FileNames = {})
  /\ cur = NoName
  /\ cur' = n
  /\ key' = at[Blocks[n].path]
  /\ todo' = todo \ {n}
  /\ UNCHANGED <<stateVars, served, drivers, holder, pend, opened, at, proc, volVars>>

\* The block at hand has its driver: on to the next.
Took(d) ==
  /\ pend' = [n \in DOMAIN pend \cup {cur} |->
                IF n = cur THEN [def |-> Blocks[cur], drv |-> d] ELSE pend[n]]
  /\ cur' = NoName
  /\ key' = NoFile

\* A driver opened read-only because it was asked to be cannot become
\* writable.
mayAdopt(d) == ~(drivers[d].ro /\ ~Blocks[cur].ro /\ ~drivers[d].asked)

adopt ==
  /\ cur # NoName
  /\ \E d \in sameImage : mayAdopt(d) /\ Took(d)
  /\ UNCHANGED <<stateVars, served, drivers, holder, todo, opened, at, proc, volVars>>

\* What opening a source gives: whatever is at the path by now.  An image
\* that may not be written is opened read-only; a directory is not tried.
openImageFile(b) == [file : {at[b.path]} \ {NoFile}, ro : IF b.ro THEN {TRUE} ELSE BOOLEAN]
openDirectory(b) == [file : {at[b.path]} \ {NoFile}, ro : {b.ro}]

openImage ==
  /\ cur # NoName
  /\ sameImage = {}
  /\ LET d == CHOOSE i \in Drivers : i \notin DOMAIN drivers
         b == Blocks[cur]
     IN \E o \in IF b.as = "directory" THEN openDirectory(b) ELSE openImageFile(b) :
          LET drv == [key |-> key, as |-> b.as, file |-> o.file, ro |-> o.ro, asked |-> ~b.ro]
          IN /\ Took(d)
             /\ drivers' = [i \in DOMAIN drivers \cup {d} |-> IF i = d THEN drv ELSE drivers[i]]
             /\ opened' = opened \cup {d}
  /\ UNCHANGED <<stateVars, served, holder, todo, at, proc, volVars>>

\* changeMu is released, and the result of opening handed on or dropped.
Unlock ==
  /\ holder' = "nobody" /\ todo' = {} /\ cur' = NoName /\ key' = NoFile
  /\ pend' = <<>> /\ opened' = {}

\* An open failed, a list could not be expanded, or adopting was refused:
\* what was opened here is closed.  A change is refused, a reload changes
\* nothing, a start ends the process.
openFails ==
  /\ cur # NoName
  /\ drivers' = [d \in DOMAIN drivers \ opened |-> drivers[d]]
  /\ change' = IF holder = "change" THEN "idle" ELSE change
  /\ next' = IF holder = "reload" THEN next ELSE EmptyState
  /\ mem' = IF holder = "start" THEN EmptyState ELSE mem
  /\ proc' = IF holder = "start" THEN "down" ELSE proc
  /\ Unlock
  /\ UNCHANGED <<disk, served, at, volVars>>

Opened == todo = {} /\ cur = NoName
-----------------------------------------------------------------------------
(***************************************************************************)
(* The rest of apply: write, swap, remember.                               *)
(***************************************************************************)
\* Mutant of WriteState: nothing is written.
WriteStateLater ==
  /\ change = "opening" /\ Opened
  /\ change' = "written"
  /\ UNCHANGED <<disk, mem, next, served, drivers, openVars, at, proc, volVars>>

WriteState ==
  /\ change = "opening" /\ Opened
  /\ disk' = Written(next)
  /\ change' = "written"
  /\ UNCHANGED <<mem, next, served, drivers, openVars, at, proc, volVars>>

\* Mutant of WriteFails: changeMu is not released on this path.
WriteFailsLocked ==
  /\ change = "opening" /\ Opened
  /\ drivers' = release(pend, served)
  /\ change' = "idle" /\ next' = EmptyState
  /\ pend' = <<>> /\ opened' = {}
  /\ UNCHANGED <<disk, mem, served, holder, todo, cur, key, at, proc, volVars>>

WriteFails ==
  /\ change = "opening" /\ Opened
  /\ drivers' = release(pend, served)
  /\ change' = "idle" /\ next' = EmptyState
  /\ Unlock
  /\ UNCHANGED <<disk, mem, served, at, proc, volVars>>

\* Mutant of swap: the generation starts over the list it had.
swapSameList ==
  /\ proc = "serving"
  /\ drivers' = release(pend, served)
  /\ UNCHANGED served
  /\ Unlock

\* server.swap: the new list is served, and what only the old one held is
\* closed.
swap ==
  /\ proc = "serving"
  /\ served' = pend
  /\ drivers' = release(served, pend)
  /\ Unlock

ApplySwap ==
  /\ change = "written"
  /\ swap
  /\ change' = "served"
  /\ UNCHANGED <<disk, mem, next, at, proc, volVars>>

\* swap is refused: nothing is serving.  The state file is put back, and
\* whether that write succeeds nobody looks.
ApplySwapRefused ==
  /\ change = "written"
  /\ proc = "stopping"
  /\ drivers' = release(pend, served)
  /\ disk' \in {Written(mem), disk}
  /\ change' = "idle" /\ next' = EmptyState
  /\ Unlock
  /\ UNCHANGED <<mem, served, at, proc, volVars>>

\* Back in change, which still holds manager.mu.
Commit ==
  /\ change = "served"
  /\ mem' = next
  /\ change' = "idle" /\ next' = EmptyState
  /\ UNCHANGED <<disk, served, drivers, openVars, at, proc, volVars>>

ReloadSwap ==
  /\ holder = "reload" /\ Opened
  /\ swap
  /\ UNCHANGED <<stateVars, at, proc, volVars>>

ReloadSwapRefused ==
  /\ holder = "reload" /\ Opened
  /\ proc = "stopping"
  /\ drivers' = release(pend, served)
  /\ Unlock
  /\ UNCHANGED <<stateVars, served, at, proc, volVars>>
-----------------------------------------------------------------------------
(***************************************************************************)
(* The process.                                                            *)
(***************************************************************************)

\* newManager: the state file, with the volumes the start found.
newManager(F) == [disk EXCEPT !.found = F]

\* withState and open: the state file is read and checked, its volumes are
\* asked for, and what it serves is opened with nothing to take over.
Start ==
  /\ proc = "down"
  /\ checkNoShareHoldsShare(disk, DOMAIN All(disk))
  /\ \E F \in resolveVolumes(disk) : mem' = newManager(F)
  /\ next' = mem'
  /\ holder' = "start"
  /\ todo' = DOMAIN Serve(mem')
  /\ proc' = "starting"
  /\ UNCHANGED <<disk, change, served, drivers, cur, key, pend, opened, at, volVars>>

Started ==
  /\ holder = "start" /\ Opened
  /\ served' = pend
  /\ proc' = "serving"
  /\ next' = EmptyState
  /\ Unlock
  /\ UNCHANGED <<disk, mem, change, drivers, at, volVars>>

\* shutdown has emptied server.gen; changes in progress go on.
Stop ==
  /\ proc = "serving"
  /\ proc' = "stopping"
  /\ UNCHANGED <<stateVars, served, drivers, openVars, at, volVars>>

\* The process exits, or is killed, whatever it was doing.
Crash ==
  /\ proc # "down"
  /\ proc' = "down"
  /\ mem' = EmptyState /\ next' = EmptyState /\ change' = "idle"
  /\ served' = <<>> /\ drivers' = <<>>
  /\ Unlock
  /\ del' = NoName
  /\ UNCHANGED <<disk, at, vol, asked>>
-----------------------------------------------------------------------------
(***************************************************************************)
(* Volumes.  CreateVolume is relayed to the provisioner under no lock of   *)
(* this server's.  DeleteVolume holds manager.mu from the question who     *)
(* uses the volume to the provisioner's answer -- or to the end of its     *)
(* caller's patience, when the provisioner may still come to it.  Bound:   *)
(* one deletion of a volume asked for at a time.                           *)
(***************************************************************************)
CreateVolume(p) ==
  /\ proc \in {"serving", "stopping"}
  /\ vol[p] = NoFile /\ at[p] = NoFile
  /\ \E f \in new : vol' = [vol EXCEPT ![p] = f] /\ at' = [at EXCEPT ![p] = f]
  /\ UNCHANGED <<stateVars, served, drivers, openVars, asked, del, proc>>

\* A volume that was unmounted, or hidden by something else, is back.
Remount(p) ==
  /\ vol[p] # NoFile
  /\ at' = [at EXCEPT ![p] = vol[p]]
  /\ UNCHANGED <<stateVars, served, drivers, openVars, volVars, proc>>

MadeFrom(st, p) == {n \in DOMAIN st.shares : st.shares[n].vol /\ st.shares[n].path = p}

\* Mutant of usersOf: the shares that are served.
usersServed(p) == {n \in DOMAIN served : served[n].def.path = p}

\* usersOf: the shares made from it, or with a source in it, served or not.
\* Where it is, is known of a volume that exists.
usersOf(p) == MadeFrom(mem, p) \cup IF vol[p] = NoFile THEN {}
                                     ELSE {n \in DOMAIN All(mem) : All(mem)[n].path = p}

DeleteVolume(p) ==
  /\ muFree
  /\ usersOf(p) = {}
  /\ p \notin asked
  /\ asked' = asked \cup {p}
  /\ del' = p
  /\ UNCHANGED <<stateVars, served, drivers, openVars, at, vol, proc>>

\* The provisioner has deleted it, or refused to; its answer, if somebody
\* still waits for it, ends the call.
Answered(p) ==
  /\ p \in asked
  /\ asked' = asked \ {p}
  /\ del' = IF del = p THEN NoName ELSE del
  /\ UNCHANGED <<stateVars, served, drivers, openVars, proc>>

VolumeDeleted(p) ==
  /\ vol' = [vol EXCEPT ![p] = NoFile]
  /\ at' = [at EXCEPT ![p] = IF @ = vol[p] THEN NoFile ELSE @]
  /\ Answered(p)

VolumeDeleteRefused(p) == Answered(p) /\ UNCHANGED <<vol, at>>

DeleteVolumeGivenUp ==
  /\ del # NoName
  /\ del' = NoName
  /\ UNCHANGED <<stateVars, served, drivers, openVars, at, vol, asked, proc>>
-----------------------------------------------------------------------------
Edit ==
  \/ \E n \in ApiNames, d \in Def, off \in BOOLEAN : CreateShare(n, d, off)
  \/ \E n \in ApiNames, ro \in BOOLEAN : UpdateShare(n, ro)
  \/ \E n \in ApiNames : Regrant(n) \/ DeleteShare(n) \/ EnableVolumeShare(n)
  \/ \E n \in Names, off \in BOOLEAN : setDisabled(n, off)

Opening ==
  \/ \E n \in Names : StatShare(n)
  \/ adopt
  \/ openImage
  \/ openFails

Applying == WriteState \/ WriteFails \/ ApplySwap \/ ApplySwapRefused \/ Commit

Reloading == ReloadSwap \/ ReloadSwapRefused

Next ==
  \/ Edit \/ ApplyLock \/ ReloadLock \/ Opening \/ Applying \/ Reloading
  \/ Start \/ Started \/ Stop \/ Crash
  \/ \E p \in Paths : ReplaceFile(p) \/ RemoveFile(p)
  \/ \E p \in Volumes : \/ CreateVolume(p) \/ Remount(p) \/ DeleteVolume(p)
                        \/ VolumeDeleted(p) \/ VolumeDeleteRefused(p)
  \/ DeleteVolumeGivenUp

Spec == Init /\ [][Next]_vars

\* Fairness: a change or a reload that has begun goes on.  changeMu is a
\* sync.Mutex, which hands itself to a waiter that has waited long enough,
\* so a change that wants it again and again gets it (SF).
FairSpec == Spec /\ WF_vars(Opening) /\ WF_vars(Applying) /\ WF_vars(Reloading)
                 /\ WF_vars(Started) /\ SF_vars(ApplyLock)
-----------------------------------------------------------------------------
(***************************************************************************)
(* Properties.                                                             *)
(***************************************************************************)
Partial(f, S, T) == DOMAIN f \subseteq S /\ f \in [DOMAIN f -> T]

IsState(st) == /\ st = [shares |-> st.shares, disabled |-> st.disabled, found |-> st.found]
               /\ Partial(st.shares, ApiNames, Def)
               /\ st.disabled \subseteq Names /\ st.found \subseteq DOMAIN st.shares

\* The types of the variables.
TypeOK ==
  /\ IsState(disk) /\ IsState(mem) /\ IsState(next)
  /\ change \in {"idle", "checked", "opening", "written", "served"}
  /\ Partial(served, Names, [def : Def, drv : Drivers])
  /\ Partial(pend, Names, [def : Def, drv : Drivers])
  /\ Partial(drivers, Drivers, [key : Files \cup {NoFile}, as : Kinds, file : Files,
                                ro : BOOLEAN, asked : BOOLEAN])
  /\ holder \in {"nobody", "start", "change", "reload"}
  /\ todo \subseteq Names
  /\ cur \in Names \cup {NoName}
  /\ key \in Files \cup {NoFile}
  /\ opened \subseteq Drivers
  /\ at \in [Paths -> Files \cup {NoFile}]
  /\ vol \in [Volumes -> Files \cup {NoFile}]
  /\ asked \subseteq Volumes /\ del \in Volumes \cup {NoName}
  /\ proc \in {"down", "starting", "serving", "stopping"}

\* What a call was told was applied is in the state file, so that a crash at
\* any moment loses none of it -- a revocation least of all -- and what was
\* refused is not there.
AcknowledgedIsWritten ==
  proc = "serving" /\ change \notin {"written", "served"} => disk = Written(mem)

\* The editions of Ledger: a state, without what only memory knows of it, and
\* the shares it serves.  A server that is starting is down.
Edition(st) == [saved |-> Written(st), list |-> Serve(st)]

Promise == INSTANCE Ledger WITH
  Empty <- EmptyState, Nothing <- Defs(<<>>),
  file <- disk,
  told <- IF proc \in {"serving", "stopping"} THEN {Edition(mem)} ELSE {},
  pending <- IF change \in {"written", "served"} THEN {Edition(next)} ELSE {},
  shown <- Defs(served),
  phase <- CASE proc = "serving" -> "up" [] proc = "stopping" -> "closing" [] OTHER -> "down"

\* The manager implements the promise: of all the steps of a change the write,
\* the swap and the answer are those a caller can tell, in that order, a
\* reload is none, and a crash between any two of them loses nothing a caller
\* was told.
ImplementsLedger == Promise!LedgerSpec

\* What is served is what the state file says, of volumes those that were
\* found, except between the write and the swap of one change, when it is
\* what the file said before.
ServesWhatIsWritten ==
  proc = "serving" =>
    LET st == IF change = "written" THEN mem ELSE disk
        found == (IF change = "served" THEN next ELSE mem).found
    IN Defs(served) = Serve([st EXCEPT !.found = found])

\* A start never finds a state file that it must refuse: whatever sequence of
\* changes wrote it, no two shares of it are a way into each other.
StateFileStarts == checkNoShareHoldsShare(disk, DOMAIN All(disk))

\* Every served share's driver is open, and every open driver belongs to a
\* share that is served or about to be: no path through a change, a failed
\* one included, closes a driver in use or leaves one behind.
DriversHeld ==
  DOMAIN drivers = DriversOf(served) \cup DriversOf(pend)

\* No two open drivers have one key, the file as stat told files apart and
\* what the block says of it: whatever the paths that lead to it, a second
\* driver is never opened beside one that a share holds.  Two blocks that
\* name different filesystems for one file do have a driver each.
OneDriverPerKey ==
  \A d, e \in DOMAIN drivers :
    d # e /\ drivers[d].key # NoFile /\ drivers[d].as = drivers[e].as => drivers[d].key # drivers[e].key

\* What the comment on apply says: every way it can fail leaves what was
\* served, and what was written, as they were.
FailureLeavesAsWas ==
  [][(/\ change \in {"opening", "written"}
      /\ change' = "idle"
      /\ proc' # "down") => served' = served /\ disk' = Written(mem)]_vars

\* While DeleteVolume waits for the provisioner no share is made from the
\* volume, nor is one being made, whether it is served, offline or waiting:
\* the manager's lock is held from the question to the answer.
UsedVolumeKept ==
  [][\A p \in Volumes : del = p /\ vol[p] # NoFile /\ vol'[p] = NoFile =>
       MadeFrom(mem, p) = {} /\ MadeFrom(next, p) = {}]_vars

\* Every change that passed its checks is answered, however often reloads
\* take changeMu before it.
ChangeAnswered == change = "checked" ~> change = "idle"
=============================================================================
