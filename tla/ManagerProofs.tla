--------------------------- MODULE ManagerProofs ---------------------------
(***************************************************************************)
(* Theorems about Manager, for every finite set of names, every set of     *)
(* paths and volumes and any number of changes, reloads, failures and      *)
(* crashes.                                                                *)
(***************************************************************************)
EXTENDS Manager, FiniteSetTheorems, TLAPS

\* Who holds which lock when: server.changeMu is a change's from ApplyLock to
\* the swap, a start's before it serves; a deletion of a volume has
\* manager.mu to itself; and next is nothing between two changes.
Locks ==
  /\ change \in {"opening", "written"} <=> holder = "change"
  /\ holder = "start" <=> proc = "starting"
  /\ proc \in {"down", "starting"} => change = "idle" /\ served = <<>>
  /\ proc = "down" => holder = "nobody"
  /\ change = "idle" /\ holder # "start" => next = EmptyState
  /\ holder = "start" => next = mem
  /\ change = "written" => Opened
  /\ del # NoName => change = "idle" /\ proc \in {"serving", "stopping"}

\* The list being opened: the blocks looked at, the one at hand and those to
\* come are the blocks of what is opened, each of them once.
ListInv ==
  /\ holder = "nobody" => pend = <<>> /\ todo = {} /\ cur = NoName /\ opened = {}
  /\ todo \cap DOMAIN pend = {} /\ cur \notin DOMAIN pend /\ cur \notin todo
  /\ holder # "nobody" => DOMAIN pend \cup todo \cup ({cur} \ {NoName}) = DOMAIN Blocks
  /\ \A n \in DOMAIN pend : pend[n].def = Blocks[n]

\* The drivers of the list being opened are the served list's or its own.
HeldInv ==
  /\ DriversHeld
  /\ opened \cap DriversOf(served) = {}
  /\ DriversOf(pend) \subseteq DriversOf(served) \cup opened

\* What a state file and a state in memory have to do with each other: the
\* file holds what memory does, from the write of a change on what it is to
\* hold; and what is served is what one of the two serves.
WrittenInv ==
  /\ disk.found = {}
  /\ AcknowledgedIsWritten
  /\ change \in {"written", "served"} => disk = Written(next)
  /\ proc = "starting" => disk = Written(mem)
  /\ proc \in {"serving", "stopping"} => Defs(served) = Serve(IF change = "served" THEN next ELSE mem)

\* No share of a state has the source of another.
Apart(st) == checkNoShareHoldsShare(st, DOMAIN All(st))

\* That holds of the file, of memory and of what is being applied.
ApartInv == Apart(disk) /\ Apart(mem) /\ Apart(next)

\* No share is made from the volume whose deletion is waited for.
VolumeInv == del # NoName => MadeFrom(mem, del) = {}

\* The locks are held as Locks says.
LEMMA LocksHeld == Spec => []Locks
<1>1. Init => Locks
  BY DEF Init, Locks, Opened
<1>2. Locks /\ [Next]_vars => Locks'
  <2> SUFFICES ASSUME Locks, [Next]_vars PROVE Locks'
    OBVIOUS
  <2> USE DEF Locks, Opened, stateVars, openVars, volVars
  <2>1. ASSUME NEW st, Begin(st) PROVE Locks'
    BY <2>1 DEF Begin, muFree
  <2>2. ASSUME Edit PROVE Locks'
    BY <2>1, <2>2 DEF Edit, CreateShare, UpdateShare, Regrant, DeleteShare,
                      EnableVolumeShare, setDisabled
  <2>3. ASSUME ApplyLock PROVE Locks'
    BY <2>3 DEF ApplyLock
  <2>4. ASSUME ReloadLock PROVE Locks'
    BY <2>4 DEF ReloadLock
  <2>5. ASSUME NEW n \in Names, StatShare(n) PROVE Locks'
    BY <2>5 DEF StatShare
  <2>6. ASSUME adopt PROVE Locks'
    BY <2>6 DEF adopt, Took
  <2>7. ASSUME openImage PROVE Locks'
    BY <2>7 DEF openImage, Took
  <2>8. ASSUME openFails PROVE Locks'
    BY <2>8 DEF openFails, Unlock
  <2>9. ASSUME Applying PROVE Locks'
    BY <2>9 DEF Applying, WriteState, WriteFails, ApplySwap, ApplySwapRefused, Commit,
                swap, Unlock
  <2>10. ASSUME Reloading PROVE Locks'
    BY <2>10 DEF Reloading, ReloadSwap, ReloadSwapRefused, swap, Unlock
  <2>11. ASSUME Start PROVE Locks'
    BY <2>11 DEF Start
  <2>12. ASSUME Started PROVE Locks'
    BY <2>12 DEF Started, Unlock
  <2>13. ASSUME Stop PROVE Locks'
    BY <2>13 DEF Stop
  <2>14. ASSUME Crash PROVE Locks'
    BY <2>14 DEF Crash, Unlock
  <2>15. ASSUME NEW p \in Paths, ReplaceFile(p) \/ RemoveFile(p) PROVE Locks'
    BY <2>15 DEF ReplaceFile, RemoveFile
  <2>16. ASSUME NEW p \in Volumes, CreateVolume(p) \/ Remount(p) PROVE Locks'
    BY <2>16 DEF CreateVolume, Remount
  <2>17. ASSUME NEW p \in Volumes, DeleteVolume(p) PROVE Locks'
    BY <2>17 DEF DeleteVolume, muFree
  <2>18. ASSUME NEW p \in Volumes, VolumeDeleted(p) \/ VolumeDeleteRefused(p) PROVE Locks'
    BY <2>18 DEF VolumeDeleted, VolumeDeleteRefused, Answered
  <2>19. ASSUME DeleteVolumeGivenUp PROVE Locks'
    BY <2>19 DEF DeleteVolumeGivenUp
  <2>20. ASSUME UNCHANGED vars PROVE Locks'
    BY <2>20 DEF vars
  <2>21. QED
    BY <2>2, <2>3, <2>4, <2>5, <2>6, <2>7, <2>8, <2>9, <2>10, <2>11, <2>12, <2>13, <2>14,
       <2>15, <2>16, <2>17, <2>18, <2>19, <2>20
    DEF Next, Opening
<1>3. QED
  BY <1>1, <1>2, PTL DEF Spec

\* Every handler of the admin API edits the state into a state.
LEMMA EditMakesState ==
  ASSUME TypeOK, Edit
  PROVE  \E st : IsState(st) /\ Begin(st)
<1>0. mem = [shares |-> mem.shares, disabled |-> mem.disabled, found |-> mem.found]
  BY DEF TypeOK, IsState
<1> USE DEF TypeOK, IsState, Partial
<1>1. ASSUME NEW n \in ApiNames, NEW d \in Def, NEW off \in BOOLEAN, CreateShare(n, d, off)
      PROVE  \E st : IsState(st) /\ Begin(st)
  <2> DEFINE st == [shares |-> With(n, d),
                    disabled |-> IF off THEN mem.disabled \cup {n} ELSE mem.disabled \ {n},
                    found |-> IF d.vol THEN mem.found \cup {n} ELSE mem.found]
  <2>1. With(n, d) \in [DOMAIN mem.shares \cup {n} -> Def]
    BY DEF With
  <2>2. IsState(st)
    BY <2>1 DEF Names
  <2>3. QED
    BY <1>1, <2>2 DEF CreateShare
<1>2. ASSUME NEW n \in ApiNames, NEW ro \in BOOLEAN, UpdateShare(n, ro)
      PROVE  \E st : IsState(st) /\ Begin(st)
  <2> DEFINE st == [mem EXCEPT !.shares[n].ro = ro]
  <2>1. n \in DOMAIN mem.shares /\ mem.shares[n] \in Def
    BY <1>2 DEF UpdateShare
  <2>2. [mem.shares[n] EXCEPT !.ro = ro] \in Def
    BY <2>1 DEF Def
  <2>3. st.shares = [mem.shares EXCEPT ![n] = [mem.shares[n] EXCEPT !.ro = ro]]
    OBVIOUS
  <2>4. st.shares \in [DOMAIN mem.shares -> Def]
    BY <2>2, <2>3
  <2>5. IsState(st)
    BY <2>4
  <2>6. QED
    BY <1>2, <2>5 DEF UpdateShare
<1>3. ASSUME NEW n \in ApiNames, Regrant(n) PROVE \E st : IsState(st) /\ Begin(st)
  BY <1>3 DEF Regrant
<1>4. ASSUME NEW n \in ApiNames, DeleteShare(n) PROVE \E st : IsState(st) /\ Begin(st)
  <2> DEFINE st == [shares |-> [m \in DOMAIN mem.shares \ {n} |-> mem.shares[m]],
                    disabled |-> mem.disabled \ {n}, found |-> mem.found \ {n}]
  <2>1. IsState(st)
    OBVIOUS
  <2>2. QED
    BY <1>4, <2>1 DEF DeleteShare
<1>5. ASSUME NEW n \in ApiNames, EnableVolumeShare(n) PROVE \E st : IsState(st) /\ Begin(st)
  <2> DEFINE st == [shares |-> mem.shares,
                    disabled |-> mem.disabled \ {n}, found |-> mem.found \cup {n}]
  <2>1. IsState(st)
    BY <1>5 DEF EnableVolumeShare
  <2>2. QED
    BY <1>5, <2>1 DEF EnableVolumeShare
<1>6. ASSUME NEW n \in Names, NEW off \in BOOLEAN, setDisabled(n, off)
      PROVE  \E st : IsState(st) /\ Begin(st)
  <2> DEFINE st == [mem EXCEPT !.disabled = IF off THEN @ \cup {n} ELSE @ \ {n}]
  <2>1. /\ st = [shares |-> st.shares, disabled |-> st.disabled, found |-> st.found]
        /\ st.shares = mem.shares /\ st.found = mem.found
        /\ st.disabled = IF off THEN mem.disabled \cup {n} ELSE mem.disabled \ {n}
    BY ONLY <1>0
  <2>2. IsState(st)
    BY <2>1
  <2>3. QED
    BY <1>6, <2>2 DEF setDisabled
<1> HIDE DEF TypeOK, IsState, Partial
<1>7. QED
  BY <1>1, <1>2, <1>3, <1>4, <1>5, <1>6 DEF Edit

\* A list holds no more drivers than it has shares.
LEMMA DriversOfBound ==
  ASSUME NEW list, NEW S, IsFiniteSet(S), DOMAIN list \subseteq S
  PROVE  /\ IsFiniteSet(DriversOf(list))
         /\ Cardinality(DriversOf(list)) <= Cardinality(S)
         /\ Cardinality(DriversOf(list)) \in Nat
<1> DEFINE f == [n \in DOMAIN list |-> list[n].drv]
<1>1. /\ IsFiniteSet(DOMAIN list) /\ Cardinality(DOMAIN list) <= Cardinality(S)
      /\ Cardinality(DOMAIN list) \in Nat /\ Cardinality(S) \in Nat
  BY FS_Subset, FS_CardinalityType
<1>2. f \in Surjection(DOMAIN list, DriversOf(list))
  BY DEF Surjection, DriversOf
<1>3. /\ IsFiniteSet(DriversOf(list))
      /\ Cardinality(DriversOf(list)) <= Cardinality(DOMAIN list)
  BY <1>1, <1>2, FS_Surjection
<1>4. Cardinality(DriversOf(list)) \in Nat
  BY <1>3, FS_CardinalityType
<1>5. QED
  BY <1>1, <1>3, <1>4

\* There is a number left for the driver of the block at hand: the served
\* list and the one being opened hold fewer than two for each name.
LEMMA FreshDriver ==
  ASSUME TypeOK, ListInv, HeldInv, cur # NoName
  PROVE  LET d == CHOOSE i \in Drivers : i \notin DOMAIN drivers
         IN d \in Drivers /\ d \notin DOMAIN drivers
<1> DEFINE N == Cardinality(Names)
<1>1. IsFiniteSet(Names) /\ N \in Nat
  BY NamesAssumption, FS_CardinalityType
<1>2. cur \in Names
  BY DEF TypeOK
<1>3. IsFiniteSet(Names \ {cur}) /\ Cardinality(Names \ {cur}) = N - 1
  BY <1>1, <1>2, FS_RemoveElement
<1>4. /\ IsFiniteSet(DriversOf(served)) /\ Cardinality(DriversOf(served)) <= N
      /\ Cardinality(DriversOf(served)) \in Nat
  BY <1>1, DriversOfBound DEF TypeOK, Partial
<1>5. DOMAIN pend \subseteq Names \ {cur}
  BY DEF TypeOK, Partial, ListInv
<1>6. /\ IsFiniteSet(DriversOf(pend)) /\ Cardinality(DriversOf(pend)) <= N - 1
      /\ Cardinality(DriversOf(pend)) \in Nat
  BY <1>3, <1>5, DriversOfBound
<1>7. /\ IsFiniteSet(DOMAIN drivers)
      /\ Cardinality(DOMAIN drivers) < 2 * N
  <2>1. DOMAIN drivers = DriversOf(served) \cup DriversOf(pend)
    BY DEF HeldInv, DriversHeld
  <2>2. IsFiniteSet(DriversOf(served) \cap DriversOf(pend))
    BY <1>4, FS_Intersection
  <2>3. Cardinality(DriversOf(served) \cap DriversOf(pend)) \in Nat
    BY <2>2, FS_CardinalityType
  <2>4. /\ IsFiniteSet(DriversOf(served) \cup DriversOf(pend))
        /\ Cardinality(DriversOf(served) \cup DriversOf(pend))
             = Cardinality(DriversOf(served)) + Cardinality(DriversOf(pend))
                 - Cardinality(DriversOf(served) \cap DriversOf(pend))
    BY <1>4, <1>6, FS_Union
  <2>5. QED
    BY <1>1, <1>4, <1>6, <2>1, <2>3, <2>4
<1>8. Cardinality(Drivers) = 2 * N
  BY <1>1, FS_Interval DEF Drivers
<1>9. Drivers \in SUBSET DOMAIN drivers => Cardinality(Drivers) <= Cardinality(DOMAIN drivers)
  BY <1>7, FS_Subset
<1>10. ~(Drivers \subseteq DOMAIN drivers)
  <2>1. Cardinality(DOMAIN drivers) \in Nat
    BY <1>7, FS_CardinalityType
  <2>2. QED
    BY <1>1, <1>7, <1>8, <1>9, <2>1
<1>11. QED
  BY <1>10

\* What is opened is a list of share blocks.
LEMMA BlocksType ==
  ASSUME TypeOK
  PROVE  /\ DOMAIN Blocks \subseteq Names
         /\ \A n \in DOMAIN Blocks : Blocks[n] \in Def
<1>1. ASSUME NEW st, IsState(st)
      PROVE  /\ DOMAIN Serve(st) \subseteq Names
             /\ \A n \in DOMAIN Serve(st) : Serve(st)[n] \in Def
  BY <1>1, BlocksAssumption DEF Serve, All, IsState, Partial, Names
<1>2. /\ DOMAIN Defs(served) \subseteq Names
      /\ \A n \in DOMAIN Defs(served) : Defs(served)[n] \in Def
  BY DEF TypeOK, Partial, Defs
<1>3. QED
  BY <1>1, <1>2 DEF Blocks, TypeOK

\* The three parts that are proved together: a driver's type needs a number
\* that is free, and that one is free follows from who holds the drivers.
OpenInv == TypeOK /\ ListInv /\ HeldInv

\* The initial states are well typed, and hold no list and no driver.
LEMMA OpenInit == Init => OpenInv
<1> SUFFICES ASSUME Init PROVE OpenInv
  OBVIOUS
<1>1. IsState(EmptyState)
  BY DEF EmptyState, IsState, Partial
<1>2. /\ Partial(served, Names, [def : Def, drv : Drivers])
      /\ Partial(pend, Names, [def : Def, drv : Drivers])
      /\ Partial(drivers, Drivers, [key : Files \cup {NoFile}, as : Kinds, file : Files,
                                    ro : BOOLEAN, asked : BOOLEAN])
  BY DEF Init, Partial
<1>3. at \in [Paths -> Files \cup {NoFile}] /\ vol \in [Volumes -> Files \cup {NoFile}]
  BY FilesAssumption DEF Init
<1>4. TypeOK
  BY <1>1, <1>2, <1>3 DEF Init, TypeOK
<1>5. ListInv
  BY NoNameAssumption DEF Init, ListInv
<1>6. HeldInv
  BY DEF Init, HeldInv, DriversHeld, DriversOf
<1>7. QED
  BY <1>4, <1>5, <1>6 DEF OpenInv

\* When changeMu is released no list is being opened, and the drivers left
\* are the served list's.
LEMMA UnlockKeeps ==
  ASSUME Unlock, DOMAIN drivers' = DriversOf(served')
  PROVE  ListInv' /\ HeldInv'
<1>1. ListInv'
  BY DEF Unlock, ListInv
<1>2. DriversOf(pend)' = {} /\ DriversOf(served)' = DriversOf(served')
  BY DEF Unlock, DriversOf
<1>3. HeldInv'
  BY <1>2 DEF Unlock, HeldInv, DriversHeld
<1>4. QED
  BY <1>1, <1>3

\* A step that leaves the served list, the drivers and the list being opened
\* as they are, and the blocks it is opened from, leaves what is said of them.
LEMMA ListsKept ==
  ASSUME ListInv, HeldInv, UNCHANGED <<served, drivers, openVars>>,
         holder \in {"nobody", "reload"} \/ UNCHANGED next
  PROVE  ListInv' /\ HeldInv'
<1> USE DEF openVars
<1>1. holder # "nobody" => Blocks' = Blocks
  BY DEF Blocks, Defs, Serve
<1>2. ListInv'
  BY <1>1 DEF ListInv
<1>3. HeldInv'
  BY DEF HeldInv, DriversHeld, DriversOf
<1>4. QED
  BY <1>2, <1>3

\* Whoever takes changeMu has all its blocks to look at, and opened nothing.
LEMMA LockBegins ==
  ASSUME ListInv, holder = "nobody", holder' # "nobody", UNCHANGED <<cur, pend>>,
         todo' = DOMAIN Blocks', DOMAIN Blocks' \subseteq Names
  PROVE  ListInv'
<1>1. pend' = <<>> /\ DOMAIN pend' = {} /\ cur' = NoName
  BY DEF ListInv
<1>2. NoName \notin todo'
  BY NoNameAssumption
<1>3. QED
  BY <1>1, <1>2 DEF ListInv

\* What is written of a state is a state.
LEMMA WrittenIsState ==
  ASSUME NEW st, IsState(st)
  PROVE  /\ IsState(Written(st)) /\ Written(st).found = {}
         /\ Written(st).shares = st.shares /\ Written(st).disabled = st.disabled
<1>1. st = [shares |-> st.shares, disabled |-> st.disabled, found |-> st.found]
  BY DEF IsState
<1>2. Written(st) = [shares |-> Written(st).shares, disabled |-> Written(st).disabled,
                     found |-> Written(st).found]
  BY ONLY <1>1 DEF Written
<1>3. /\ Written(st).shares = st.shares /\ Written(st).disabled = st.disabled
      /\ Written(st).found = {}
  BY ONLY <1>1 DEF Written
<1>4. QED
  BY <1>2, <1>3 DEF IsState, Partial

\* Taking driver d for the block at hand puts it in the list being opened.
LEMMA TookTakes ==
  ASSUME OpenInv, NEW d \in Drivers, cur # NoName, Took(d), UNCHANGED <<served, next, holder, todo>>
  PROVE  /\ ListInv'
         /\ Partial(pend, Names, [def : Def, drv : Drivers])'
         /\ DriversOf(pend)' = DriversOf(pend) \cup {d}
<1> USE DEF OpenInv
<1>1. cur \in Names /\ cur \notin DOMAIN pend /\ cur \notin todo /\ holder # "nobody"
  BY DEF TypeOK, ListInv
<1>2. cur \in DOMAIN Blocks /\ Blocks[cur] \in Def
  BY <1>1, BlocksType DEF ListInv
<1>3. Blocks' = Blocks
  BY DEF Blocks, Defs, Serve
<1>4. /\ DOMAIN pend' = DOMAIN pend \cup {cur} /\ pend'[cur] = [def |-> Blocks[cur], drv |-> d]
      /\ \A n \in DOMAIN pend : pend'[n] = pend[n]
      /\ cur' = NoName
  BY <1>1 DEF Took
<1>5. ListInv'
  <2>1. /\ NoName \notin Names /\ DOMAIN pend \subseteq Names /\ todo \subseteq Names
        /\ todo' = todo /\ holder' = holder
    BY NoNameAssumption DEF TypeOK, Partial
  <2>2. todo' \cap DOMAIN pend' = {} /\ cur' \notin DOMAIN pend' /\ cur' \notin todo'
    BY <1>1, <1>4, <2>1 DEF ListInv
  <2>3. DOMAIN pend' \cup todo' \cup ({cur'} \ {NoName}) = DOMAIN Blocks'
    BY <1>1, <1>3, <1>4, <2>1 DEF ListInv
  <2>4. \A n \in DOMAIN pend' : pend'[n].def = Blocks'[n]
    BY <1>1, <1>3, <1>4 DEF ListInv
  <2>5. QED
    BY <1>1, <2>1, <2>2, <2>3, <2>4 DEF ListInv
<1>6. Partial(pend, Names, [def : Def, drv : Drivers])'
  <2>1. pend' \in [DOMAIN pend' -> [def : Def, drv : Drivers]]
    BY <1>1, <1>2 DEF Took, TypeOK, Partial
  <2>2. QED
    BY <1>1, <1>4, <2>1 DEF TypeOK, Partial
<1>7. DriversOf(pend)' = DriversOf(pend) \cup {d}
  BY <1>1, <1>4 DEF DriversOf
<1>8. QED
  BY <1>5, <1>6, <1>7

\* The types, the list being opened and the drivers held, through every step.
LEMMA OpenInvHolds == Spec => []OpenInv
<1>1. OpenInv /\ Locks /\ Locks' /\ [Next]_vars => OpenInv'
  <2> SUFFICES ASSUME OpenInv, Locks, Locks', [Next]_vars PROVE OpenInv'
    OBVIOUS
  <2> USE DEF OpenInv, stateVars, openVars, volVars
  <2>0. IsState(EmptyState) /\ IsState(Written(next)) /\ IsState(Written(mem))
    <3>1. IsState(EmptyState)
      BY DEF EmptyState, IsState, Partial
    <3>2. QED
      BY <3>1, WrittenIsState DEF TypeOK
  <2>1. ASSUME Edit PROVE OpenInv'
    <3>1. PICK st : IsState(st) /\ Begin(st)
      BY <2>1, EditMakesState
    <3>2. holder \in {"nobody", "reload"}
      BY <3>1 DEF Begin, muFree, Locks, TypeOK
    <3>3. ListInv' /\ HeldInv'
      BY <3>1, <3>2, ListsKept DEF Begin
    <3>4. TypeOK'
      BY <3>1 DEF Begin, TypeOK, Partial, IsState
    <3>5. QED
      BY <3>3, <3>4
  <2>2. ASSUME ApplyLock PROVE OpenInv'
    <3>1. DOMAIN Serve(next) \subseteq Names
      BY <2>2, BlocksType DEF ApplyLock, Blocks
    <3>2. TypeOK'
      BY <2>2, <3>1 DEF ApplyLock, TypeOK, Partial, IsState
    <3>3. Blocks' = Serve(next)
      BY <2>2 DEF ApplyLock, Blocks
    <3>4. ListInv'
      BY <2>2, <3>1, <3>3, LockBegins DEF ApplyLock
    <3>5. HeldInv'
      BY <2>2 DEF ApplyLock, HeldInv, DriversHeld, DriversOf
    <3>6. QED
      BY <3>2, <3>4, <3>5
  <2>3. ASSUME ReloadLock PROVE OpenInv'
    <3>1. DOMAIN served \subseteq Names
      BY DEF TypeOK, Partial
    <3>2. TypeOK'
      BY <2>3, <3>1 DEF ReloadLock, TypeOK, Partial, IsState
    <3>3. DOMAIN Blocks' = DOMAIN served
      BY <2>3 DEF ReloadLock, Blocks, Defs
    <3>4. ListInv'
      BY <2>3, <3>1, <3>3, LockBegins DEF ReloadLock
    <3>5. HeldInv'
      BY <2>3 DEF ReloadLock, HeldInv, DriversHeld, DriversOf
    <3>6. QED
      BY <3>2, <3>4, <3>5
  <2>4. ASSUME NEW n \in Names, StatShare(n) PROVE OpenInv'
    <3>1. /\ n \in todo /\ cur = NoName /\ cur' = n /\ todo' = todo \ {n}
          /\ UNCHANGED <<served, drivers, holder, pend, opened, next>>
      BY <2>4 DEF StatShare
    <3>2. holder # "nobody" /\ Blocks' = Blocks
      BY <3>1 DEF ListInv, Blocks, Defs
    <3>3. n \in DOMAIN Blocks /\ Blocks[n] \in Def
      BY <3>1, <3>2, BlocksType DEF ListInv
    <3>4. key' \in Files \cup {NoFile}
      BY <2>4, <3>3 DEF StatShare, TypeOK, Def
    <3>5. TypeOK'
      BY <2>4, <3>1, <3>4 DEF StatShare, TypeOK, Partial, IsState
    <3>6. ListInv'
      BY <3>1, <3>2, NoNameAssumption DEF ListInv
    <3>7. HeldInv'
      BY <3>1 DEF HeldInv, DriversHeld, DriversOf
    <3>8. QED
      BY <3>5, <3>6, <3>7
  <2>5. ASSUME adopt PROVE OpenInv'
    <3>1. PICK d \in sameImage : Took(d)
      BY <2>5 DEF adopt
    <3>2. d \in DriversOf(served) \cup DriversOf(pend) /\ d \in Drivers
      BY <3>1 DEF sameImage, DriversOf, TypeOK, Partial
    <3>3. cur # NoName /\ UNCHANGED <<stateVars, served, drivers, holder, todo, opened, at, proc, volVars>>
      BY <2>5 DEF adopt
    <3>4. /\ ListInv' /\ Partial(pend, Names, [def : Def, drv : Drivers])'
          /\ DriversOf(pend)' = DriversOf(pend) \cup {d}
      BY <3>1, <3>2, <3>3, TookTakes
    <3>5. cur' = NoName /\ key' = NoFile
      BY <3>1 DEF Took
    <3>6. TypeOK'
      BY <3>3, <3>4, <3>5 DEF TypeOK, IsState, Partial
    <3>7. DriversOf(served)' = DriversOf(served)
      BY <3>3 DEF DriversOf
    <3>8. HeldInv'
      BY <3>2, <3>3, <3>4, <3>7 DEF HeldInv, DriversHeld
    <3>9. QED
      BY <3>4, <3>6, <3>8
  <2>6. ASSUME openImage PROVE OpenInv'
    <3> DEFINE d == CHOOSE i \in Drivers : i \notin DOMAIN drivers
               b == Blocks[cur]
    <3> HIDE DEF d
    <3>1. cur # NoName /\ UNCHANGED <<stateVars, served, holder, todo, at, proc, volVars>>
      BY <2>6 DEF openImage
    <3>2. d \in Drivers /\ d \notin DOMAIN drivers
      BY <3>1, FreshDriver DEF d
    <3>3. PICK o \in IF b.as = "directory" THEN openDirectory(b) ELSE openImageFile(b) :
            LET drv == [key |-> key, as |-> b.as, file |-> o.file, ro |-> o.ro, asked |-> ~b.ro]
            IN /\ Took(d)
               /\ drivers' = [i \in DOMAIN drivers \cup {d} |-> IF i = d THEN drv ELSE drivers[i]]
               /\ opened' = opened \cup {d}
      BY <2>6 DEF openImage, d
    <3>4. /\ ListInv' /\ Partial(pend, Names, [def : Def, drv : Drivers])'
          /\ DriversOf(pend)' = DriversOf(pend) \cup {d}
      BY <3>1, <3>2, <3>3, TookTakes
    <3>5. b \in Def /\ at[b.path] \in Files \cup {NoFile}
      <4>1. cur \in DOMAIN Blocks
        BY <3>1 DEF ListInv, TypeOK
      <4>2. QED
        BY <4>1, BlocksType DEF TypeOK, Def
    <3>6. o.file \in Files /\ o.ro \in BOOLEAN
      BY <3>3, <3>5 DEF openDirectory, openImageFile, Def
    <3>7. Partial(drivers, Drivers, [key : Files \cup {NoFile}, as : Kinds, file : Files,
                                     ro : BOOLEAN, asked : BOOLEAN])'
      <4>1. [key |-> key, as |-> b.as, file |-> o.file, ro |-> o.ro, asked |-> ~b.ro]
              \in [key : Files \cup {NoFile}, as : Kinds, file : Files, ro : BOOLEAN, asked : BOOLEAN]
        BY <3>5, <3>6 DEF TypeOK, Def
      <4>2. QED
        BY <3>2, <3>3, <4>1 DEF TypeOK, Partial
    <3>8. cur' = NoName /\ key' = NoFile /\ opened' \subseteq Drivers
      BY <3>2, <3>3 DEF Took, TypeOK
    <3>9. TypeOK'
      BY <3>1, <3>4, <3>7, <3>8 DEF TypeOK, IsState, Partial
    <3>10. DriversOf(served)' = DriversOf(served) /\ DOMAIN drivers' = DOMAIN drivers \cup {d}
      BY <3>1, <3>3 DEF DriversOf
    <3>11. HeldInv'
      BY <3>2, <3>3, <3>4, <3>10 DEF HeldInv, DriversHeld
    <3>12. QED
      BY <3>4, <3>9, <3>11
  <2>7. ASSUME openFails PROVE OpenInv'
    <3>1. DriversOf(served') = DriversOf(served) /\ DOMAIN drivers' = DOMAIN drivers \ opened
      BY <2>7 DEF openFails
    <3>2. DOMAIN drivers' = DriversOf(served')
      BY <3>1 DEF HeldInv, DriversHeld
    <3>3. ListInv' /\ HeldInv'
      BY <2>7, <3>2, UnlockKeeps DEF openFails
    <3>4. /\ IsState(mem') /\ IsState(next') /\ IsState(disk')
          /\ change' \in {"idle", "checked", "opening", "written", "served"}
          /\ proc' \in {"down", "starting", "serving", "stopping"}
      BY <2>0, <2>7 DEF openFails, TypeOK
    <3>5. TypeOK'
      BY <2>7, <3>4 DEF openFails, Unlock, TypeOK, Partial, IsState
    <3>6. QED
      BY <3>3, <3>5
  <2>8. ASSUME WriteState PROVE OpenInv'
    <3>1. TypeOK'
      BY <2>0, <2>8 DEF WriteState, TypeOK, Partial, IsState
    <3>2. QED
      BY <2>8, <3>1, ListsKept DEF WriteState
  <2>9. ASSUME drivers' = release(pend, served), UNCHANGED served, Unlock
        PROVE  ListInv' /\ HeldInv'
    <3>1. DOMAIN drivers' = DriversOf(served')
      BY <2>9 DEF release, HeldInv, DriversHeld
    <3>2. QED
      BY <2>9, <3>1, UnlockKeeps
  <2>10. ASSUME WriteFails PROVE OpenInv'
    <3>1. TypeOK'
      BY <2>0, <2>10 DEF WriteFails, Unlock, release, TypeOK, Partial, IsState
    <3>2. QED
      BY <2>9, <2>10, <3>1 DEF WriteFails
  <2>11. ASSUME swap, UNCHANGED <<disk, mem, next, at, proc, volVars>>,
                change' \in {change, "served"}
         PROVE  OpenInv'
    <3>1. DOMAIN drivers' = DriversOf(served')
      BY <2>11 DEF swap, release, HeldInv, DriversHeld
    <3>2. ListInv' /\ HeldInv'
      BY <2>11, <3>1, UnlockKeeps DEF swap
    <3>3. TypeOK'
      BY <2>11 DEF swap, Unlock, release, TypeOK, Partial, IsState
    <3>4. QED
      BY <3>2, <3>3
  <2>12. ASSUME ApplySwap PROVE OpenInv'
    BY <2>11, <2>12 DEF ApplySwap
  <2>13. ASSUME ApplySwapRefused PROVE OpenInv'
    <3>1. TypeOK'
      BY <2>0, <2>13 DEF ApplySwapRefused, Unlock, release, TypeOK, Partial, IsState
    <3>2. QED
      BY <2>9, <2>13, <3>1 DEF ApplySwapRefused
  <2>14. ASSUME Commit PROVE OpenInv'
    <3>1. holder \in {"nobody", "reload"}
      BY <2>14 DEF Commit, Locks, TypeOK
    <3>2. TypeOK'
      BY <2>0, <2>14 DEF Commit, TypeOK, Partial, IsState
    <3>3. QED
      BY <2>14, <3>1, <3>2, ListsKept DEF Commit
  <2>15. ASSUME ReloadSwap PROVE OpenInv'
    BY <2>11, <2>15 DEF ReloadSwap
  <2>16. ASSUME ReloadSwapRefused PROVE OpenInv'
    <3>1. TypeOK'
      BY <2>16 DEF ReloadSwapRefused, Unlock, release, TypeOK, Partial, IsState
    <3>2. QED
      BY <2>9, <2>16, <3>1 DEF ReloadSwapRefused
  <2>17. ASSUME Start PROVE OpenInv'
    <3>1. PICK F \in resolveVolumes(disk) : mem' = newManager(F)
      BY <2>17 DEF Start
    <3>2. IsState(mem')
      <4>1. F \subseteq DOMAIN disk.shares
        BY <3>1 DEF resolveVolumes
      <4>2. disk = [shares |-> disk.shares, disabled |-> disk.disabled, found |-> disk.found]
        BY DEF TypeOK, IsState
      <4>3. /\ mem' = [shares |-> mem'.shares, disabled |-> mem'.disabled, found |-> mem'.found]
            /\ mem'.shares = disk.shares /\ mem'.disabled = disk.disabled /\ mem'.found = F
        BY ONLY <3>1, <4>2 DEF newManager
      <4>4. QED
        BY <4>1, <4>3 DEF TypeOK, IsState, Partial
    <3>3. /\ Blocks' = Serve(mem') /\ todo' = DOMAIN Serve(mem') /\ next' = mem'
          /\ holder = "nobody" /\ UNCHANGED <<served, drivers, cur, pend, opened>>
          /\ holder' = "start"
      BY <2>17 DEF Start, Blocks, Locks
    <3>4. DOMAIN Serve(mem') \subseteq Names
      BY <3>2, BlocksAssumption DEF Serve, All, IsState, Partial, Names
    <3>5. TypeOK'
      BY <2>17, <3>2, <3>4 DEF Start, TypeOK, Partial, IsState
    <3>6. ListInv'
      BY <3>3, <3>4, LockBegins
    <3>7. HeldInv'
      BY <3>3 DEF HeldInv, DriversHeld, DriversOf
    <3>8. QED
      BY <3>5, <3>6, <3>7
  <2>18. ASSUME Started PROVE OpenInv'
    <3>1. served = <<>>
      BY <2>18 DEF Started, Locks
    <3>2. DriversOf(served) = {}
      BY <3>1 DEF DriversOf
    <3>3. DOMAIN drivers' = DriversOf(served')
      BY <2>18, <3>2 DEF Started, HeldInv, DriversHeld
    <3>4. ListInv' /\ HeldInv'
      BY <2>18, <3>3, UnlockKeeps DEF Started
    <3>5. TypeOK'
      BY <2>0, <2>18 DEF Started, Unlock, TypeOK, Partial, IsState
    <3>6. QED
      BY <3>4, <3>5
  <2>19. ASSUME Stop PROVE OpenInv'
    <3>1. TypeOK'
      BY <2>19 DEF Stop, TypeOK, Partial, IsState
    <3>2. QED
      BY <2>19, <3>1, ListsKept DEF Stop
  <2>20. ASSUME Crash PROVE OpenInv'
    <3>1. DOMAIN drivers' = DriversOf(served')
      BY <2>20 DEF Crash, DriversOf
    <3>2. ListInv' /\ HeldInv'
      BY <2>20, <3>1, UnlockKeeps DEF Crash
    <3>3. TypeOK'
      BY <2>0, <2>20 DEF Crash, Unlock, TypeOK, Partial, IsState
    <3>4. QED
      BY <3>2, <3>3
  <2>21. ASSUME UNCHANGED <<stateVars, served, drivers, openVars, proc>>,
                at' \in [Paths -> Files \cup {NoFile}],
                vol' \in [Volumes -> Files \cup {NoFile}],
                asked' \subseteq Volumes /\ del' \in Volumes \cup {NoName}
         PROVE  OpenInv'
    <3>1. TypeOK'
      BY <2>21 DEF TypeOK, Partial, IsState
    <3>2. QED
      BY <2>21, <3>1, ListsKept
  <2>22. ASSUME NEW p \in Paths, ReplaceFile(p) \/ RemoveFile(p) PROVE OpenInv'
    <3>1. at' \in [Paths -> Files \cup {NoFile}]
      BY <2>22 DEF ReplaceFile, RemoveFile, new, TypeOK
    <3>2. UNCHANGED <<stateVars, served, drivers, openVars, proc, volVars>>
      BY <2>22 DEF ReplaceFile, RemoveFile
    <3>3. QED
      BY <2>21, <3>1, <3>2 DEF TypeOK
  <2>23. ASSUME NEW p \in Volumes, CreateVolume(p) PROVE OpenInv'
    <3>1. PICK f \in new : vol' = [vol EXCEPT ![p] = f] /\ at' = [at EXCEPT ![p] = f]
      BY <2>23 DEF CreateVolume
    <3>2. at' \in [Paths -> Files \cup {NoFile}] /\ vol' \in [Volumes -> Files \cup {NoFile}]
      BY <3>1 DEF new, TypeOK
    <3>3. QED
      BY <2>21, <2>23, <3>2 DEF CreateVolume, TypeOK
  <2>24. ASSUME NEW p \in Volumes, Remount(p) PROVE OpenInv'
    <3>1. at' \in [Paths -> Files \cup {NoFile}]
      BY <2>24 DEF Remount, TypeOK
    <3>2. QED
      BY <2>21, <2>24, <3>1 DEF Remount, TypeOK
  <2>25. ASSUME NEW p \in Volumes, DeleteVolume(p) PROVE OpenInv'
    BY <2>21, <2>25 DEF DeleteVolume, TypeOK
  <2>26. ASSUME NEW p \in Volumes, VolumeDeleted(p) PROVE OpenInv'
    <3>1. at' \in [Paths -> Files \cup {NoFile}] /\ vol' \in [Volumes -> Files \cup {NoFile}]
      BY <2>26 DEF VolumeDeleted, TypeOK
    <3>2. QED
      BY <2>21, <2>26, <3>1 DEF VolumeDeleted, Answered, TypeOK
  <2>27. ASSUME NEW p \in Volumes, VolumeDeleteRefused(p) PROVE OpenInv'
    BY <2>21, <2>27 DEF VolumeDeleteRefused, Answered, TypeOK
  <2>28. ASSUME DeleteVolumeGivenUp PROVE OpenInv'
    BY <2>21, <2>28 DEF DeleteVolumeGivenUp, TypeOK
  <2>29. ASSUME UNCHANGED vars PROVE OpenInv'
    BY <2>21, <2>29 DEF vars, TypeOK
  <2>30. QED
    BY <2>1, <2>2, <2>3, <2>4, <2>5, <2>6, <2>7, <2>8, <2>10, <2>12, <2>13, <2>14, <2>15,
       <2>16, <2>17, <2>18, <2>19, <2>20, <2>22, <2>23, <2>24, <2>25, <2>26, <2>27, <2>28, <2>29
    DEF Next, Opening, Applying, Reloading
<1>2. QED
  BY <1>1, OpenInit, LocksHeld, PTL DEF Spec

\* Every variable keeps its type through every change, reload, start, failure
\* and crash; the numbers for drivers never run out.
THEOREM ManagerTypeCorrect == Spec => []TypeOK
<1>1. OpenInv => TypeOK
  BY DEF OpenInv
<1>2. QED
  BY <1>1, OpenInvHolds, PTL

\* The open drivers are at every moment those of the shares served and of the
\* list being opened: a failed open, a failed write, a refused swap and a
\* reload close what they opened and nothing that is in use.
THEOREM DriversAreHeld == Spec => []DriversHeld
<1>1. OpenInv => DriversHeld
  BY DEF OpenInv, HeldInv
<1>2. QED
  BY <1>1, OpenInvHolds, PTL

\* sameImage looks through both lists, and these hold every open driver: no
\* file gets a second driver beside one that was opened for it by a block
\* that says the same of it.
THEOREM DriversAreOnePerKey == Spec => []OneDriverPerKey
<1>1. Init => OneDriverPerKey
  BY DEF Init, OneDriverPerKey
<1>2. OpenInv /\ OneDriverPerKey /\ [Next]_vars => OneDriverPerKey'
  <2> SUFFICES ASSUME OpenInv, OneDriverPerKey, [Next]_vars PROVE OneDriverPerKey'
    OBVIOUS
  <2> USE DEF OpenInv, stateVars, openVars, volVars
  <2>1. ASSUME NEW D \in SUBSET DOMAIN drivers, drivers' = [d \in D |-> drivers[d]]
        PROVE  OneDriverPerKey'
    BY <2>1 DEF OneDriverPerKey
  <2>2. ASSUME drivers' = drivers PROVE OneDriverPerKey'
    BY <2>2 DEF OneDriverPerKey
  <2>3. ASSUME openImage PROVE OneDriverPerKey'
    <3> DEFINE d == CHOOSE i \in Drivers : i \notin DOMAIN drivers
               b == Blocks[cur]
    <3>1. PICK o : LET drv == [key |-> key, as |-> b.as, file |-> o.file, ro |-> o.ro, asked |-> ~b.ro]
                   IN drivers' = [i \in DOMAIN drivers \cup {d} |-> IF i = d THEN drv ELSE drivers[i]]
      BY <2>3 DEF openImage
    <3>2. \A e \in DOMAIN drivers : key # NoFile /\ drivers[e].as = b.as => drivers[e].key # key
      BY <2>3 DEF openImage, sameImage, same, HeldInv, DriversHeld
    <3> HIDE DEF d
    <3>3. /\ DOMAIN drivers' = DOMAIN drivers \cup {d} /\ drivers'[d].key = key /\ drivers'[d].as = b.as
          /\ \A e \in DOMAIN drivers \ {d} : drivers'[e] = drivers[e]
      BY <3>1
    <3>4. QED
      BY <3>2, <3>3 DEF OneDriverPerKey
  <2>4. ASSUME openFails PROVE OneDriverPerKey'
    BY <2>1, <2>4 DEF openFails
  <2>5. ASSUME NEW l, NEW k, drivers' = release(l, k) PROVE OneDriverPerKey'
    BY <2>1, <2>5 DEF release
  <2>6. ASSUME Applying \/ Reloading PROVE OneDriverPerKey'
    BY <2>2, <2>5, <2>6 DEF Applying, Reloading, WriteState, WriteFails, ApplySwap,
         ApplySwapRefused, Commit, ReloadSwap, ReloadSwapRefused, swap
  <2>7. ASSUME Edit \/ ApplyLock \/ ReloadLock \/ adopt PROVE OneDriverPerKey'
    BY <2>2, <2>7 DEF Edit, CreateShare, UpdateShare, Regrant, DeleteShare,
         EnableVolumeShare, setDisabled, Begin, ApplyLock, ReloadLock, adopt
  <2>8. ASSUME NEW n \in Names, StatShare(n) PROVE OneDriverPerKey'
    BY <2>2, <2>8 DEF StatShare
  <2>9. ASSUME Start \/ Started \/ Stop PROVE OneDriverPerKey'
    BY <2>2, <2>9 DEF Start, Started, Stop
  <2>10. ASSUME Crash PROVE OneDriverPerKey'
    BY <2>10 DEF Crash, OneDriverPerKey
  <2>11. ASSUME NEW p \in Paths, ReplaceFile(p) \/ RemoveFile(p) PROVE OneDriverPerKey'
    BY <2>2, <2>11 DEF ReplaceFile, RemoveFile
  <2>12. ASSUME NEW p \in Volumes, \/ CreateVolume(p) \/ Remount(p) \/ DeleteVolume(p)
                                   \/ VolumeDeleted(p) \/ VolumeDeleteRefused(p)
         PROVE  OneDriverPerKey'
    BY <2>2, <2>12 DEF CreateVolume, Remount, DeleteVolume, VolumeDeleted,
         VolumeDeleteRefused, Answered
  <2>13. ASSUME DeleteVolumeGivenUp \/ UNCHANGED vars PROVE OneDriverPerKey'
    BY <2>2, <2>13 DEF DeleteVolumeGivenUp, vars
  <2>14. QED
    BY <2>3, <2>4, <2>6, <2>7, <2>8, <2>9, <2>10, <2>11, <2>12, <2>13 DEF Next, Opening
<1>3. QED
  BY <1>1, <1>2, OpenInvHolds, PTL DEF Spec

\* A state whose found shares are put back after it was written is the state.
LEMMA FoundAgain ==
  ASSUME NEW st, IsState(st)
  PROVE  [Written(st) EXCEPT !.found = st.found] = st /\ [st EXCEPT !.found = st.found] = st
<1>1. st = [shares |-> st.shares, disabled |-> st.disabled, found |-> st.found]
  BY DEF IsState
<1>2. Written(st) = [shares |-> st.shares, disabled |-> st.disabled, found |-> {}]
  BY ONLY <1>1 DEF Written
<1>3. [Written(st) EXCEPT !.found = st.found]
        = [shares |-> st.shares, disabled |-> st.disabled, found |-> st.found]
  BY ONLY <1>2
<1>4. QED
  BY <1>1, <1>3

\* When every block was looked at, the list is of the blocks, each as defined.
LEMMA OpenedAll ==
  ASSUME OpenInv, holder # "nobody", Opened
  PROVE  Defs(pend) = Blocks
<1>1. DOMAIN pend = DOMAIN Blocks /\ \A n \in DOMAIN pend : pend[n].def = Blocks[n]
  BY DEF OpenInv, ListInv, Opened
<1>2. Blocks = [n \in DOMAIN Blocks |-> Blocks[n]]
  BY DEF Blocks, Defs, Serve
<1>3. QED
  BY <1>1, <1>2 DEF Defs

\* The state file, memory and the served list agree through every step.
LEMMA WrittenInvHolds == Spec => []WrittenInv
<1>1. Init => WrittenInv
  BY DEF Init, WrittenInv, AcknowledgedIsWritten, EmptyState
<1>2. OpenInv /\ Locks /\ WrittenInv /\ [Next]_vars => WrittenInv'
  <2> SUFFICES ASSUME OpenInv, Locks, WrittenInv, [Next]_vars PROVE WrittenInv'
    OBVIOUS
  <2> USE DEF stateVars, openVars, volVars
  <2>0. IsState(mem) /\ IsState(next) /\ IsState(disk)
    BY DEF OpenInv, TypeOK
  <2>1. ASSUME UNCHANGED <<disk, mem, next, change, served, proc>> PROVE WrittenInv'
    BY <2>1 DEF WrittenInv, AcknowledgedIsWritten, Defs
  <2>2. ASSUME NEW st, Begin(st) PROVE WrittenInv'
    BY <2>2 DEF Begin, muFree, WrittenInv, AcknowledgedIsWritten, Defs
  <2>3. ASSUME Edit PROVE WrittenInv'
    BY <2>2, <2>3 DEF Edit, CreateShare, UpdateShare, Regrant, DeleteShare,
                      EnableVolumeShare, setDisabled
  <2>4. ASSUME ApplyLock PROVE WrittenInv'
    BY <2>4 DEF ApplyLock, WrittenInv, AcknowledgedIsWritten, Defs
  <2>5. ASSUME ReloadLock \/ adopt \/ openImage \/ \E n \in Names : StatShare(n) PROVE WrittenInv'
    BY <2>1, <2>5 DEF ReloadLock, adopt, openImage, StatShare
  <2>6. ASSUME openFails PROVE WrittenInv'
    <3>1. /\ change # "written" /\ UNCHANGED <<disk, served>>
          /\ holder = "change" => change = "opening" /\ change' = "idle" /\ UNCHANGED <<mem, proc>>
          /\ holder = "reload" => UNCHANGED <<mem, next, change, proc>>
          /\ holder = "start" => change = "idle" /\ change' = "idle" /\ proc' = "down"
          /\ holder # "nobody"
      BY <2>6 DEF openFails, Locks, Opened, OpenInv, ListInv
    <3>2. holder \in {"nobody", "start", "change", "reload"}
      BY DEF OpenInv, TypeOK
    <3>3. ASSUME holder = "change" PROVE WrittenInv'
      BY <3>1, <3>3, <2>6 DEF openFails, Locks, WrittenInv, AcknowledgedIsWritten, Defs
    <3>4. ASSUME holder = "start" PROVE WrittenInv'
      BY <3>1, <3>4 DEF WrittenInv, AcknowledgedIsWritten
    <3>5. QED
      BY <2>1, <3>1, <3>2, <3>3, <3>4
  <2>7. ASSUME WriteState PROVE WrittenInv'
    <3>1. disk' = Written(next) /\ disk'.found = {}
      BY <2>0, <2>7, WrittenIsState DEF WriteState
    <3>2. QED
      BY <2>7, <3>1 DEF WriteState, Locks, WrittenInv, AcknowledgedIsWritten, Defs
  <2>8. ASSUME WriteFails PROVE WrittenInv'
    BY <2>8 DEF WriteFails, Locks, WrittenInv, AcknowledgedIsWritten, Defs
  <2>9. ASSUME ApplySwap PROVE WrittenInv'
    <3>1. Defs(pend) = Serve(next)
      BY <2>9, OpenedAll DEF ApplySwap, Locks, Blocks
    <3>2. QED
      BY <2>9, <3>1 DEF ApplySwap, swap, WrittenInv, AcknowledgedIsWritten, Defs
  <2>10. ASSUME ApplySwapRefused PROVE WrittenInv'
    <3>1. disk'.found = {}
      BY <2>0, <2>10, WrittenIsState DEF ApplySwapRefused, WrittenInv
    <3>2. QED
      BY <2>10, <3>1 DEF ApplySwapRefused, WrittenInv, AcknowledgedIsWritten
  <2>11. ASSUME Commit PROVE WrittenInv'
    BY <2>11 DEF Commit, Locks, WrittenInv, AcknowledgedIsWritten, Defs
  <2>12. ASSUME ReloadSwap PROVE WrittenInv'
    <3>1. Defs(pend) = Defs(served)
      BY <2>12, OpenedAll DEF ReloadSwap, Blocks
    <3>2. Defs(served)' = Defs(served) /\ UNCHANGED <<stateVars, proc>>
      BY <2>12, <3>1 DEF ReloadSwap, swap, Defs
    <3>3. QED
      BY <3>2 DEF WrittenInv, AcknowledgedIsWritten
  <2>13. ASSUME ReloadSwapRefused PROVE WrittenInv'
    BY <2>1, <2>13 DEF ReloadSwapRefused
  <2>14. ASSUME Start PROVE WrittenInv'
    <3>1. PICK F : mem' = [disk EXCEPT !.found = F]
      BY <2>14 DEF Start, newManager
    <3>2. Written(mem') = disk
      <4>1. disk = [shares |-> disk.shares, disabled |-> disk.disabled, found |-> {}]
        BY <2>0 DEF IsState, WrittenInv
      <4>2. mem' = [shares |-> disk.shares, disabled |-> disk.disabled, found |-> F]
        BY ONLY <3>1, <4>1
      <4>3. Written(mem') = [shares |-> disk.shares, disabled |-> disk.disabled, found |-> {}]
        BY ONLY <4>2 DEF Written
      <4>4. QED
        BY <4>1, <4>3
    <3>3. QED
      BY <2>14, <3>2 DEF Start, Locks, WrittenInv, AcknowledgedIsWritten
  <2>15. ASSUME Started PROVE WrittenInv'
    <3>1. Defs(pend) = Serve(mem)
      BY <2>15, OpenedAll DEF Started, Locks, Blocks
    <3>2. QED
      BY <2>15, <3>1 DEF Started, Locks, WrittenInv, AcknowledgedIsWritten, Defs
  <2>16. ASSUME Stop PROVE WrittenInv'
    BY <2>16 DEF Stop, WrittenInv, AcknowledgedIsWritten
  <2>17. ASSUME Crash PROVE WrittenInv'
    BY <2>17 DEF Crash, WrittenInv, AcknowledgedIsWritten
  <2>18. ASSUME NEW p \in Paths, ReplaceFile(p) \/ RemoveFile(p) PROVE WrittenInv'
    BY <2>1, <2>18 DEF ReplaceFile, RemoveFile
  <2>19. ASSUME NEW p \in Volumes, \/ CreateVolume(p) \/ Remount(p) \/ DeleteVolume(p)
                                   \/ VolumeDeleted(p) \/ VolumeDeleteRefused(p)
         PROVE  WrittenInv'
    BY <2>1, <2>19 DEF CreateVolume, Remount, DeleteVolume, VolumeDeleted,
         VolumeDeleteRefused, Answered
  <2>20. ASSUME DeleteVolumeGivenUp \/ UNCHANGED vars PROVE WrittenInv'
    BY <2>1, <2>20 DEF DeleteVolumeGivenUp, vars
  <2>21. QED
    BY <2>3, <2>4, <2>5, <2>6, <2>7, <2>8, <2>9, <2>10, <2>11, <2>12, <2>13, <2>14, <2>15,
       <2>16, <2>17, <2>18, <2>19, <2>20
    DEF Next, Opening, Applying, Reloading
<1>3. QED
  BY <1>1, <1>2, OpenInvHolds, LocksHeld, PTL DEF Spec

\* While the server serves, memory -- what the API answers from, and what was
\* acknowledged -- is in the state file, but for the moment of one change
\* between its write and its end.
THEOREM AcknowledgedStaysWritten == Spec => []AcknowledgedIsWritten
<1>1. WrittenInv => AcknowledgedIsWritten
  BY DEF WrittenInv
<1>2. QED
  BY <1>1, WrittenInvHolds, PTL

\* What is served is what the state file says, whatever changes, reloads and
\* failures led there.
THEOREM ServedIsWritten == Spec => []ServesWhatIsWritten
<1>1. OpenInv /\ WrittenInv => ServesWhatIsWritten
  <2> SUFFICES ASSUME OpenInv, WrittenInv, proc = "serving" PROVE ServesWhatIsWritten
    BY DEF ServesWhatIsWritten
  <2>1. IsState(mem) /\ IsState(next)
    BY DEF OpenInv, TypeOK
  <2>2. CASE change = "written"
    BY <2>1, <2>2, FoundAgain DEF WrittenInv, ServesWhatIsWritten
  <2>3. CASE change = "served"
    BY <2>1, <2>3, FoundAgain DEF WrittenInv, ServesWhatIsWritten
  <2>4. CASE change \notin {"written", "served"}
    BY <2>1, <2>4, FoundAgain DEF WrittenInv, AcknowledgedIsWritten, ServesWhatIsWritten
  <2>5. QED
    BY <2>2, <2>3, <2>4
<1>2. QED
  BY <1>1, OpenInvHolds, WrittenInvHolds, PTL

\* A change, step by step, is the promise of Ledger: the write is Write, the
\* swap Show, the end of change Tell, and a crash GoDown, wherever it strikes;
\* every other step of changes, reloads and volumes is none that a caller or a
\* client can tell.
THEOREM ManagerImplementsLedger == Spec => ImplementsLedger
<1> DEFINE told == IF proc \in {"serving", "stopping"} THEN {Edition(mem)} ELSE {}
           pending == IF change \in {"written", "served"} THEN {Edition(next)} ELSE {}
           shown == Defs(served)
           phase == CASE proc = "serving" -> "up" [] proc = "stopping" -> "closing" [] OTHER -> "down"
           Same == UNCHANGED <<disk, told, pending, shown, phase>>
<1>1. Init => Promise!LedgerInit
  BY DEF Init, Promise!LedgerInit, Defs
<1>2. OpenInv /\ Locks /\ WrittenInv /\ [Next]_vars => [Promise!LedgerNext]_(Promise!ledgerVars)
  <2> SUFFICES ASSUME OpenInv, Locks, WrittenInv, [Next]_vars
               PROVE  Promise!LedgerNext \/ Same
    BY DEF Promise!ledgerVars
  <2> USE DEF stateVars, openVars, volVars
  <2>0. IsState(mem) /\ IsState(next) /\ IsState(disk) /\ proc \in {"down", "starting", "serving", "stopping"}
    BY DEF OpenInv, TypeOK
  <2>1. ASSUME UNCHANGED <<disk, mem, next, change, served, proc>> PROVE Same
    BY <2>1 DEF Edition, Written, Serve, All, unavailable, Defs
  <2>2. ASSUME UNCHANGED <<disk, mem, served, proc>>,
               change \notin {"written", "served"}, change' \notin {"written", "served"}
        PROVE  Same
    BY <2>2 DEF Edition, Written, Serve, All, unavailable, Defs
  <2>3. ASSUME NEW st, Begin(st) PROVE Same
    BY <2>2, <2>3 DEF Begin, muFree
  <2>4. ASSUME Edit PROVE Same
    BY <2>3, <2>4 DEF Edit, CreateShare, UpdateShare, Regrant, DeleteShare,
                      EnableVolumeShare, setDisabled
  <2>5. ASSUME ApplyLock PROVE Same
    BY <2>2, <2>5 DEF ApplyLock
  <2>6. ASSUME ReloadLock \/ adopt \/ openImage \/ \E n \in Names : StatShare(n) PROVE Same
    BY <2>1, <2>6 DEF ReloadLock, adopt, openImage, StatShare
  <2>7. ASSUME openFails PROVE Same
    <3>1. /\ change # "written" /\ UNCHANGED <<disk, served>>
          /\ holder = "change" => change = "opening" /\ change' = "idle" /\ UNCHANGED <<mem, proc>>
          /\ holder = "reload" => UNCHANGED <<mem, next, change, proc>>
          /\ holder = "start" => change = "idle" /\ change' = "idle" /\ proc = "starting" /\ proc' = "down"
          /\ holder # "nobody"
      BY <2>7 DEF openFails, Locks, Opened, OpenInv, ListInv
    <3>2. holder \in {"nobody", "start", "change", "reload"}
      BY DEF OpenInv, TypeOK
    <3>3. CASE holder = "change"
      BY <2>2, <3>1, <3>3
    <3>4. CASE holder = "reload"
      BY <2>1, <3>1, <3>4
    <3>5. CASE holder = "start"
      BY <3>1, <3>5 DEF Defs
    <3>6. QED
      BY <3>1, <3>2, <3>3, <3>4, <3>5
  <2>8. ASSUME WriteState PROVE Promise!Write
    <3>1. /\ change = "opening" /\ change' = "written" /\ disk' = Written(next)
          /\ UNCHANGED <<mem, next, served, proc>> /\ proc \in {"serving", "stopping"}
      BY <2>0, <2>8 DEF WriteState, Locks
    <3>2. pending = {} /\ pending' = {Edition(next)} /\ Edition(next).saved = disk'
      BY <3>1 DEF Edition, Written, Serve, All, unavailable
    <3>3. told' = told /\ shown' = shown /\ phase' = phase /\ phase # "down"
      BY <3>1 DEF Edition, Written, Serve, All, unavailable, Defs
    <3>4. QED
      BY <3>2, <3>3 DEF Promise!Write
  <2>9. ASSUME WriteFails PROVE Same
    BY <2>2, <2>9 DEF WriteFails
  <2>10. ASSUME ApplySwap PROVE Promise!Show
    <3>1. Defs(pend) = Serve(next)
      BY <2>10, OpenedAll DEF ApplySwap, Locks, Blocks
    <3>2. /\ change = "written" /\ change' = "served" /\ proc = "serving" /\ served' = pend
          /\ UNCHANGED <<disk, mem, next, proc>>
      BY <2>10 DEF ApplySwap, swap
    <3>3. shown' = Edition(next).list /\ Edition(next) \in pending /\ phase = "up"
      BY <3>1, <3>2 DEF Edition, Defs
    <3>4. told' = told /\ pending' = pending /\ phase' = phase /\ disk' = disk
      BY <3>2 DEF Edition, Written, Serve, All, unavailable
    <3>5. QED
      BY <3>3, <3>4 DEF Promise!Show
  <2>11. ASSUME ApplySwapRefused PROVE Promise!Refuse
    <3>1. /\ change = "written" /\ change' = "idle" /\ proc = "stopping" /\ disk' \in {Written(mem), disk}
          /\ UNCHANGED <<mem, served, proc>>
      BY <2>11 DEF ApplySwapRefused
    <3>2. pending # {} /\ pending' = {} /\ phase = "closing" /\ phase' = phase
      BY <3>1
    <3>3. Edition(mem) \in told /\ disk' \in {disk, Edition(mem).saved}
      BY <3>1 DEF Edition
    <3>4. told' = told /\ shown' = shown
      BY <3>1 DEF Edition, Written, Serve, All, unavailable, Defs
    <3>5. QED
      BY <3>2, <3>3, <3>4 DEF Promise!Refuse
  <2>12. ASSUME Commit PROVE Promise!Tell
    <3>1. /\ change = "served" /\ change' = "idle" /\ mem' = next /\ proc \in {"serving", "stopping"}
          /\ UNCHANGED <<disk, served, proc>>
      BY <2>0, <2>12 DEF Commit, Locks
    <3>2. shown = Serve(next)
      BY <3>1 DEF WrittenInv
    <3>3. Edition(next) \in pending /\ shown = Edition(next).list /\ pending' = {} /\ told' = pending
      BY <3>1, <3>2 DEF Edition, Written, Serve, All, unavailable
    <3>4. shown' = shown /\ phase' = phase /\ phase # "down" /\ disk' = disk
      BY <3>1 DEF Defs
    <3>5. QED
      BY <3>3, <3>4 DEF Promise!Tell
  <2>13. ASSUME ReloadSwap PROVE Same
    <3>1. Defs(pend) = Defs(served)
      BY <2>13, OpenedAll DEF ReloadSwap, Blocks
    <3>2. shown' = shown /\ UNCHANGED <<disk, mem, next, change, proc>>
      BY <2>13, <3>1 DEF ReloadSwap, swap, Defs
    <3>3. QED
      BY <3>2 DEF Edition, Written, Serve, All, unavailable
  <2>14. ASSUME ReloadSwapRefused PROVE Same
    BY <2>1, <2>14 DEF ReloadSwapRefused
  <2>15. ASSUME Start PROVE Same
    BY <2>15 DEF Start, Locks, Defs
  <2>16. ASSUME Started PROVE Promise!ComeUp
    <3>1. Defs(pend) = Serve(mem)
      BY <2>16, OpenedAll DEF Started, Locks, Blocks
    <3>2. /\ proc = "starting" /\ proc' = "serving" /\ served' = pend /\ disk = Written(mem)
          /\ change = "idle" /\ UNCHANGED <<disk, mem, change>>
      BY <2>16 DEF Started, Locks, WrittenInv
    <3>3. told' = {Edition(mem)} /\ Edition(mem).saved = disk /\ shown' = Edition(mem).list
      BY <3>1, <3>2 DEF Edition, Written, Serve, All, unavailable, Defs
    <3>4. phase = "down" /\ phase' = "up" /\ disk' = disk /\ pending' = pending
      BY <3>2
    <3>5. QED
      BY <3>3, <3>4 DEF Promise!ComeUp
  <2>17. ASSUME Stop PROVE Promise!Close
    <3>1. proc = "serving" /\ proc' = "stopping" /\ UNCHANGED <<disk, mem, next, change, served>>
      BY <2>17 DEF Stop
    <3>2. told' = told /\ pending' = pending /\ shown' = shown /\ phase = "up" /\ phase' = "closing"
      BY <3>1 DEF Edition, Written, Serve, All, unavailable, Defs
    <3>3. QED
      BY <3>1, <3>2 DEF Promise!Close
  <2>18. ASSUME Crash PROVE Promise!LedgerNext \/ Same
    <3>1. proc # "down" /\ proc' = "down" /\ change' = "idle" /\ served' = <<>> /\ disk' = disk
      BY <2>18 DEF Crash
    <3>2. told' = {} /\ pending' = {} /\ shown' = Defs(<<>>) /\ phase' = "down"
      BY <3>1 DEF Defs
    <3>3. CASE proc = "starting"
      <4>1. told = {} /\ pending = {} /\ shown = Defs(<<>>) /\ phase = "down"
        BY <3>3 DEF Locks
      <4>2. QED
        BY <3>1, <3>2, <4>1
    <3>4. CASE proc \in {"serving", "stopping"}
      <4>1. phase # "down"
        BY <3>4
      <4>2. Promise!GoDown
        BY <3>1, <3>2, <4>1 DEF Promise!GoDown
      <4>3. QED
        BY <4>2 DEF Promise!LedgerNext
    <3>5. QED
      BY <2>0, <3>1, <3>3, <3>4
  <2>19. ASSUME NEW p \in Paths, ReplaceFile(p) \/ RemoveFile(p) PROVE Same
    BY <2>1, <2>19 DEF ReplaceFile, RemoveFile
  <2>20. ASSUME NEW p \in Volumes, \/ CreateVolume(p) \/ Remount(p) \/ DeleteVolume(p)
                                   \/ VolumeDeleted(p) \/ VolumeDeleteRefused(p)
         PROVE  Same
    BY <2>1, <2>20 DEF CreateVolume, Remount, DeleteVolume, VolumeDeleted,
         VolumeDeleteRefused, Answered
  <2>21. ASSUME DeleteVolumeGivenUp \/ UNCHANGED vars PROVE Same
    BY <2>1, <2>21 DEF DeleteVolumeGivenUp, vars
  <2>22. QED
    BY <2>4, <2>5, <2>6, <2>7, <2>8, <2>9, <2>10, <2>11, <2>12, <2>13, <2>14, <2>15,
       <2>16, <2>17, <2>18, <2>19, <2>20, <2>21
    DEF Next, Opening, Applying, Reloading, Promise!LedgerNext
<1>3. QED
  BY <1>1, <1>2, OpenInvHolds, LocksHeld, WrittenInvHolds, PTL DEF Spec, ImplementsLedger, Promise!LedgerSpec

\* Only the sources of a state count for its shares being apart.
LEMMA ApartBySources ==
  ASSUME NEW st, NEW tt, st.shares = tt.shares, Apart(st)
  PROVE  Apart(tt)
BY DEF Apart, checkNoShareHoldsShare, All

\* An edit that passes the check of what it changed, on a state whose shares
\* are apart, leaves them apart.
LEMMA EditKeepsApart ==
  ASSUME NEW st, IsState(st), IsState(mem), Apart(mem),
         checkNoShareHoldsShare(st, changedBlocks(st))
  PROVE  Apart(st)
<1> SUFFICES ASSUME NEW n \in DOMAIN All(st), NEW o \in DOMAIN All(st), n # o
             PROVE  All(st)[n].path # All(st)[o].path
  BY DEF Apart, checkNoShareHoldsShare
<1>1. CASE n \in changedBlocks(st) \/ o \in changedBlocks(st)
  BY <1>1 DEF checkNoShareHoldsShare
<1>2. ASSUME NEW m \in DOMAIN All(st), m \notin changedBlocks(st)
      PROVE  m \in DOMAIN All(mem) /\ All(mem)[m] = All(st)[m]
  BY <1>2 DEF All, changedBlocks
<1>3. CASE n \notin changedBlocks(st) /\ o \notin changedBlocks(st)
  BY <1>2, <1>3 DEF Apart, checkNoShareHoldsShare
<1>4. QED
  BY <1>1, <1>3

\* No start ever finds a state file it must refuse: whatever was written last
\* passed the checks, against everything else the state defines.
THEOREM StateFileAlwaysStarts == Spec => []StateFileStarts
<1>0. Apart(EmptyState)
  BY BlocksAssumption DEF Apart, checkNoShareHoldsShare, All, EmptyState
<1>1. Init => ApartInv
  BY <1>0 DEF Init, ApartInv
<1>2. OpenInv /\ ApartInv /\ [Next]_vars => ApartInv'
  <2> SUFFICES ASSUME OpenInv, ApartInv, [Next]_vars PROVE ApartInv'
    OBVIOUS
  <2> USE DEF stateVars, openVars, volVars
  <2>0. IsState(mem) /\ IsState(next) /\ IsState(disk)
    BY DEF OpenInv, TypeOK
  <2>1. ASSUME disk' \in {disk, Written(mem), Written(next)}, mem' \in {mem, next, EmptyState},
               next' \in {next, EmptyState}
        PROVE  ApartInv'
    <3>1. Apart(Written(mem)) /\ Apart(Written(next))
      BY <2>0, WrittenIsState, ApartBySources DEF ApartInv
    <3>2. QED
      BY <1>0, <2>1, <3>1 DEF ApartInv
  <2>2. ASSUME Edit PROVE ApartInv'
    <3>1. PICK st : IsState(st) /\ Begin(st)
      BY <2>2, EditMakesState DEF OpenInv
    <3>2. Apart(st)
      BY <2>0, <3>1, EditKeepsApart DEF Begin, ApartInv
    <3>3. QED
      BY <3>1, <3>2 DEF Begin, ApartInv
  <2>3. ASSUME Start PROVE ApartInv'
    <3>1. PICK F : mem' = [disk EXCEPT !.found = F]
      BY <2>3 DEF Start, newManager
    <3>2. mem'.shares = disk.shares
      BY <2>0, <3>1 DEF IsState
    <3>3. next' = mem' /\ disk' = disk
      BY <2>3 DEF Start
    <3>4. QED
      BY <3>2, <3>3, ApartBySources DEF ApartInv
  <2>4. ASSUME Opening \/ ApplyLock \/ ReloadLock PROVE ApartInv'
    BY <2>1, <2>4 DEF Opening, StatShare, adopt, openImage, openFails, ApplyLock, ReloadLock
  <2>5. ASSUME Applying \/ Reloading PROVE ApartInv'
    BY <2>1, <2>5 DEF Applying, Reloading, WriteState, WriteFails, ApplySwap,
         ApplySwapRefused, Commit, ReloadSwap, ReloadSwapRefused
  <2>6. ASSUME Started \/ Stop \/ Crash PROVE ApartInv'
    BY <2>1, <2>6 DEF Started, Stop, Crash
  <2>7. ASSUME NEW p \in Paths, ReplaceFile(p) \/ RemoveFile(p) PROVE ApartInv'
    BY <2>1, <2>7 DEF ReplaceFile, RemoveFile
  <2>8. ASSUME NEW p \in Volumes, \/ CreateVolume(p) \/ Remount(p) \/ DeleteVolume(p)
                                  \/ VolumeDeleted(p) \/ VolumeDeleteRefused(p)
        PROVE  ApartInv'
    BY <2>1, <2>8 DEF CreateVolume, Remount, DeleteVolume, VolumeDeleted,
         VolumeDeleteRefused, Answered
  <2>9. ASSUME DeleteVolumeGivenUp \/ UNCHANGED vars PROVE ApartInv'
    BY <2>1, <2>9 DEF DeleteVolumeGivenUp, vars
  <2>10. QED
    BY <2>2, <2>3, <2>4, <2>5, <2>6, <2>7, <2>8, <2>9 DEF Next
<1>3. ApartInv => StateFileStarts
  BY DEF ApartInv, Apart, StateFileStarts
<1>4. QED
  BY <1>1, <1>2, <1>3, OpenInvHolds, PTL DEF Spec

\* manager.mu is held from DeleteVolume's question to its answer: while the
\* call waits no share is made from the volume and no change is under way, so
\* a volume it deletes is nobody's.
THEOREM VolumeInUseIsKept == Spec => UsedVolumeKept
<1>1. Init => VolumeInv
  BY DEF Init, VolumeInv
<1>2. Locks /\ VolumeInv /\ [Next]_vars => VolumeInv'
  <2> SUFFICES ASSUME Locks, VolumeInv, [Next]_vars PROVE VolumeInv'
    OBVIOUS
  <2> USE DEF stateVars, openVars, volVars
  <2>1. ASSUME \/ UNCHANGED <<mem, del>> \/ del' = NoName
               \/ del = NoName /\ UNCHANGED del
        PROVE  VolumeInv'
    BY <2>1 DEF VolumeInv, MadeFrom
  <2>2. ASSUME Edit \/ ApplyLock \/ ReloadLock \/ Opening PROVE VolumeInv'
    <3>1. openFails => UNCHANGED <<mem, del>> \/ (del = NoName /\ UNCHANGED del)
      BY DEF openFails, Locks
    <3>2. QED
      BY <2>1, <2>2, <3>1 DEF Edit, CreateShare, UpdateShare, Regrant, DeleteShare,
         EnableVolumeShare, setDisabled, Begin, ApplyLock, ReloadLock, Opening,
         StatShare, adopt, openImage
  <2>3. ASSUME Applying \/ Reloading PROVE VolumeInv'
    BY <2>1, <2>3 DEF Locks, Applying, Reloading, WriteState, WriteFails, ApplySwap,
         ApplySwapRefused, Commit, ReloadSwap, ReloadSwapRefused
  <2>4. ASSUME Start \/ Started \/ Stop \/ Crash PROVE VolumeInv'
    BY <2>1, <2>4 DEF Locks, Start, Started, Stop, Crash
  <2>5. ASSUME NEW p \in Paths, ReplaceFile(p) \/ RemoveFile(p) PROVE VolumeInv'
    BY <2>1, <2>5 DEF ReplaceFile, RemoveFile
  <2>6. ASSUME NEW p \in Volumes, DeleteVolume(p) PROVE VolumeInv'
    BY <2>6 DEF DeleteVolume, usersOf, VolumeInv, MadeFrom
  <2>7. ASSUME NEW p \in Volumes, \/ CreateVolume(p) \/ Remount(p)
                                  \/ VolumeDeleted(p) \/ VolumeDeleteRefused(p)
        PROVE  VolumeInv'
    BY <2>1, <2>7 DEF CreateVolume, Remount, VolumeDeleted, VolumeDeleteRefused, Answered
  <2>8. ASSUME DeleteVolumeGivenUp \/ UNCHANGED vars PROVE VolumeInv'
    BY <2>1, <2>8 DEF DeleteVolumeGivenUp, vars
  <2>9. QED
    BY <2>2, <2>3, <2>4, <2>5, <2>6, <2>7, <2>8 DEF Next
<1>3. Locks /\ VolumeInv =>
        \A p \in Volumes : del = p /\ vol[p] # NoFile /\ vol'[p] = NoFile =>
          MadeFrom(mem, p) = {} /\ MadeFrom(next, p) = {}
  BY NoNameAssumption DEF Locks, VolumeInv, MadeFrom, EmptyState
<1>4. QED
  BY <1>1, <1>2, <1>3, LocksHeld, PTL DEF Spec, UsedVolumeKept
=============================================================================
