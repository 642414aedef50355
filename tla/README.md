# A formal model of fileshare

fileshare serves disk images and directories over SMB, NFS, S3, WebDAV and SFTP
from one process, changes what it serves while it runs, and has a privileged
companion that makes volumes. This directory models the parts of it in which
order, concurrency and failure decide whether it is correct: TLA+ modules, TLC
configurations, and proofs checked by TLAPS. `PROJECT.json` maps every definition to
the lines it models and lists the runs, the hazards and the theorems.

## The system

| Component | State | Operations | Hard behaviour |
|---|---|---|---|
| **Generations** (`generation.go`, `run`/`swap`/`shutdown` of `server.go`) | bound sockets, the channel each offers connections on, one listener and goroutine per socket and generation, `ready`, counters | accept, take, track, close, stop, swap, shutdown | a swap races accepts, sessions, a failing protocol and shutdown |
| **Share manager** (`state.go`, `admin_grpc.go`) | state file, `manager.state`, `server.shares` | create, update, grant, revoke, delete, disable, enable; `apply`: check, open, write, swap | crash between write and swap; a refusal after the write; reloads compete for `changeMu` |
| **Drivers** (`openSharesExpanding`, `share.go`) | one open driver per image key, held by one or two lists | open, adopt, release | who closes what after a failure half way; two paths to one image |
| **Volumes in the API** (`volume.go`, `volume_grpc.go`) | shares that name a volume | create, resolve, enable, delete | a delete against a share that is made from it; a caller who gives up |
| **Reload** (`reload.go`, `serve_smb.go`) | `server.who`, each share's expanded lists, SMB's own users | read, compare, add in place, or new generation | the directory moves between any two steps; SMB copies the people |
| **Provisioner** (`internal/provision`) | state file, records; project ids, subvolumes, datasets, limits | create, resize, snapshot, delete, recovery of a lost record | failure or crash between any two system calls; retry; what it did not make |
| **Revocation lists** (`revocation.go`, `krl_sftp.go`, `nfs_identity.go`) | list, when fetched, ETag, floor, state file | fetch, verify, install, save, restore, get | never backwards, never fresh without a copy, restart |
| **Shared signals** (`ssf.go`, `caep.go`) | revocations on disk, when last heard, the stream | set up, poll, keep, acknowledge, check, prune | redelivery, failure in the middle of a poll |
| **Federated login** (`federated_sftp.go`, `opkssh.go`, `oidcauth.go`, `domaingrant.go`) | a credential and the session it opened | login, watch, call | revoked between two operations; forgotten revocations |
| **Per-person workers** (`workerpool.go`, `identity_unix.go`, `internal/launch`, `internal/account`) | a worker per person and share, references, idle timers, held failures; the launcher's one conversation | acquire, release, forget, reset, Close, start a worker | reset against a starting worker and a firing timer; descriptors left open |
| **SSH connections** (`sshconn.go`, `serve_sftp.go`) | the connection table and the wait group of one daemon | accept, register, count, close all, wait | stop between accept and registration |
| **Access** (`share.go`, `principal.go`, `config.go`, the `serve_*.go`) | lists, rules, claims | log in over each protocol, `mayUse`, `readOnlyFor`, export | five protocols derive one answer in five places |
| **Trees** (`lockedfs.go`, `unionfs.go`, `isolate.go`) | drivers and their locks, handles, snapshots and their budget | open, read, write, rename, sync, close, revoke | two requests on one descriptor; concurrent loads against one budget |

The rest (TLS, partitions and devices, metrics, the web UI, directory back ends, the
command line, generated code) is listed in `PROJECT.json` with the reason it is not
modelled.

How they interact: the manager and a reload both open a new list of shares and hand
it to `server.swap`, which stops the running generation, resets the workers and starts
the next over the same sockets. `server.changeMu` lets one of them at a time do so;
`server.runMu` excludes swap and shutdown. A protocol server reads the shares and the
people when its generation starts, and the people at each login. A login makes a
principal of a credential, asks the revocation list and the signals about it, and gets
a tree of the shares that `mayUse` gives it; shares served as their people go through
a worker of the pool. Volumes are made and deleted by the provisioner, which the
manager asks while it holds its own lock.

## Modules

| Module | Models | State and actions |
|---|---|---|
| `Revocation` | the promise of a swap, abstractly | a list number, the sessions; open, end, replace the list when none is left |
| `Generation` | `generation.go` with `run`, `swap`, `shutdown` | one action per channel operation and lock region: `Take`, `Track` and `Untake` are the two halves of `genListener.Accept`, `Shut`/`ShutCloses`/`StopReturned` are `generation.stop`, `SwapBegin`/`SwapStart`/`SwapEnd` are `swap` |
| `Ledger` | the promise of the admin API, abstractly | what is saved, what callers were told, what was written and not told yet, what clients see; write, show, tell, refuse, come up, close, go down |
| `Manager` | `change`, `apply`, `openSharesExpanding`, start and crash; shares from volumes, `CreateVolume`, `DeleteVolume` | the state file, its copy in memory, the served list, the open drivers, each volume at the provisioner; `StatShare` and `openImage` are apart, because the file can be replaced in between; a deletion is asked for and answered in two steps |
| `Reload` | `reload`, grants and their expansion, `serveSMB` | one share, the directory, `server.who`, SMB's users, sessions; `SmbReadsPeople` and `SmbStoresAdd` are apart as in the code |
| `Provisioner` | `service.go`, `state.go`, the project-quota, btrfs and ZFS backends | records in memory and on disk, objects, limits; one action per system call, each may fail, and the process may die before any |
| `Clock` | what the next three share | the time, and whether the process runs |
| `RevocationList` | `revocation.go` with the KRL and the CRL | the lists issued, what answers, the copy held, the state file; `Fetch` asks, the answer is verified, installed, saved |
| `SharedSignals` | `ssf.go`, `caep.go` | events, streams, a poll, the store in memory and on disk |
| `Credentials` | `federated_sftp.go`, `opkssh.go`, `oidcauth.go`, NFS's certificates; composes the two before it | one credential, its session and the session's latch |
| `Workers` | `workerpool.go`, `internal/launch`, `identity_unix.go`, `sshconn.go`, WebDAV's requests; composed with `swap` and `shutdown` | the pool's map, each worker's references, timer and filesystem, resets, the conversation with the launcher, processes, connections; one action per lock region of `pool.mu` |
| `Accounts` | `internal/account`, the worker's own checks | none: from a directory entry and a policy to an account, or to a refusal |
| `Access` | who may use a share, and who each protocol takes a caller for | none: from a configuration and a credential to what a session sees |
| `Trees` | `lockedfs.go`, `unionfs.go` | requests inside a driver, the locks, handles, snapshots and their budget |
| `Sessions` | composes `Access`, `Accounts` and `Trees` | a configuration, who was let in how, and their requests |
| `MC*` | | the instances for TLC |
| `GenerationProofs`, `ManagerProofs`, `ReloadProofs`, `ProvisionerProofs`, `WorkersProofs`, `CredentialsProofs`, `SessionsProofs`, `SnapshotsProofs` | | the inductive invariants and the theorems about the module each is named after; `SessionsProofs` has those of `Access`, `Accounts` and `Trees` too, but for the budget of snapshots, which `SnapshotsProofs` has |

`Generation` implements `Revocation` (property `ImplementsRevocation`), and `Manager`
implements `Ledger` (property `ImplementsLedger`). `Manager` and `Reload` take a swap as
one step, which is what the first refinement allows. `Workers` keeps of a swap what
touches the pool: sessions end, the pool is reset, the next generation starts.

Data is abstract. A share is a source, what the block says of it (`Kinds`: a directory,
an image that is sniffed, or an image with a named filesystem) and `read_only` in
`Manager`; two lists, and whether its file is there (`broken`), in `Reload`; a list of
shares is a number in `Generation`; a credential is 1 or 2; a file is a number that stat
tells apart. The image key of `Manager` is the file and the kind, as `imageKey.same`
compares them; partitions, which would be further kinds, are left out. In `Access` a
source is a path, and two shares are of one source or apart: a directory inside another
is not told, and two paths to one file are `Manager`'s matter. An error of a socket is
fatal or temporary (`Errors`), which is all that net/http asks of it. A list says when
it expires, unless it is a KRL in a file that does not (`MayBeEndless`). `Credentials`
follows one credential of one person, and a list says whether it is on it. Names and
domains stand for their lower-case spelling. User ids are scaled down: `NoChange`, 7 in
the run, stands for 2^32-1, the id that setresuid reads as "leave it". A share holds one
file in `Trees`. A feed's `closing` channel and its socket close in one step, and the
check of `stopped` and the send on `failures` in `startGeneration` are one step; nobody
else writes in between what they read.

What is assumed of libraries: the SFTP server closes a handle only after its reads
have returned; signatures and tokens verify or do not; the transmitter of shared
signals repeats what was not acknowledged and forgets what was. What answers a fetch of
a list may be anything: the provider, or a cache that answers with an old list, nonsense
or a tag.

Definitions that follow a "Mutant of" comment are plausible mistakes in the code.
They are used by no specification; substituted for the definition they name, each
makes TLC report the property `PROJECT.json` pairs it with.

## Runs

| Run | Question | Instance | States |
|---|---|---|---|
| `generation` | does anything survive its generation, does a swap refine `Revocation`, and does everything end? | 1 socket, 2 clients, 3 generations | 160 thousand |
| `generation_waits` | does a client that connects during a swap wait? -- **no** | 1 socket, 1 client, 2 generations | |
| `manager_safety` | do the file, the memory, the served list and the drivers agree? | 1 configured share, 1 API share, 2 paths to one file, 2 files, 2 kinds | 4 million |
| `manager_live` | is every change answered, and no volume deleted under a share; does a change refine `Ledger`? | 1 API share, 1 volume, directories | 45 thousand |
| `manager_rollback` | does every failure leave everything as it was? -- **no** | as `manager_safety` | |
| `reload_directory` | does access follow grants and directory? | 1 person, 1 group, every initial combination, 3 moves, 1 change, a share's file that goes and comes back | 600 thousand |
| `reload_smb` | does an addition reach SMB? -- **no** | the same, 2 moves | |
| `provisioner_crash` | what survives failures and crashes? | 2 volumes, 2 ids, 2 quotas, 1 snapshot, three backends | 530 thousand |
| `provisioner_orphan` | can a retry or a delete always finish half-made volumes? -- **no** | 2 volumes on btrfs, 3 ids | |
| `credentials` | when does a revoked credential stop being served? | 2 lists or 2 events, 2 streams, 5 moments, four kinds of credential, lists with and without an expiry | 2.9 million |
| `workers` | is a worker closed under somebody, or left over? | 1 person on 1 share, 1 SSH connection and 1 WebDAV request, 2 workers, 1 swap | 260 thousand |
| `sessions` | who gets what, over which protocol and as whom; and do requests keep out of each other's way? | every way in and kind of list with one session; every shape of account; 3 requests of 2 sessions at once; shares of one source and of two, in one process and in several | 770 thousand |

Why the bounds are enough.

* `Generation`: a bug needs one stopping and one starting generation and two
  connections in different places; three generations let a swap follow a swap. Its
  safety properties are proved for any number of sockets.
* `Manager`: two shares over two paths to one file make adoption from the previous list
  and from the list being opened happen, one spare file lets it be replaced, and two
  kinds let two shares of one file have two keys. One
  volume and one name are enough for `UsedVolumeKept`, which is about one pair of them;
  one deletion at a time is asked for, since the lock is held until its answer and one
  that was given up on may still come after the share that follows it.
* `Reload`: its steps treat people independently, so one person and one group do: the
  person may be granted by name, through the group, both or neither.
* `Provisioner`: it runs one request at a time, so two volumes that compete for the ids
  are all that a third would show.
* `Credentials`: a list or event that revokes and one more, before or after it, and time
  for a list to expire after the credential was opened. A server with a list and one
  with the signals are checked apart: neither's state is read by the other, and a
  session is served only when both agree.
* `Workers`: one key, because keys share only `pool.mu` and the conversation with the
  launcher; two users let one acquire wait for another's start, and two workers let a
  forgotten or reset one outlive the next. Connections and ids are used again once
  they are done.
* `Sessions`: in all configurations but the crowded ones (`Crowded`) one session
  (`Lead`) logs in, which is all that the access properties need; in the others three
  requests compete for two drivers and for snapshots of which not all fit. The two
  requests of one session are interchangeable, which is the symmetry used.

Bounds (`MaxGen`, `MaxFile`, `MaxMoves`, `MaxChanges`, `MaxTime`, `MaxIssues`,
`MaxEvents`, `MaxStreams`, `MaxIds`, `MaxSwaps`, `MaxFired`, `MaxHandles`) are
constants, and only stop the environment. Every safety property that a run checks is
also a theorem, for all values of these constants. `RevokedIsOut` and `AddedIsIn` speak
of what the directory says for good, so a bound on its moves takes nothing from them;
a share's file may come and go any number of times.

Deadlock is checked in every run: `Exited` in `Generation` is the one state that is
meant to stay.

### Fairness

Go runs every goroutine that can run, so each step of an accept goroutine, a protocol
server, `stop`, `swap` and `shutdown` is weakly fair. `closing` connections finish.
Nothing is assumed of clients, of sessions ending, of a protocol failing, or of anybody
asking for a change. `changeMu` is a `sync.Mutex`, which passes itself to a waiter that
has waited too long, so a change that wants it is strongly fair; the same holds of
`Client.mu`, behind which acquires wait to ask the launcher. The configuration's
`reload` interval makes reloads recur; the directory's outages are assumed to end
(strong fairness of what follows a read). Nothing is assumed of the served files: a
reload that must open the shares fails while one of them does not open
(`ReloadOpenFails` is one of the steps that may follow a read), and `RevokedIsOut` and
`AddedIsIn` speak of runs in which, from some moment on, they open. A protocol server
returns when its listener's `Accept` fails, but for a temporary error, after which
net/http asks again; `EveryClientAnswered` excepts a socket that failed so. In `Workers`
timers go off, the launcher's loop runs, a WebDAV request that was begun ends, and a
process whose socket nobody holds ends; SSH connections end only when they are closed.

### Findings

Four comments say more than the code does; each has a run that shows it.

1. *A client that connects during a swap waits in the channel* (`generation.go:32`).
   `Accept` selects over the channel and `stop`; with both ready Go may choose the
   channel, and `Accept` then closes what it received.
2. *People who were only added are added in place, SMB's running server included*
   (`reload.go:29`). Not when the reload falls between serveSMB's copy of the people
   and its `smbAddUser.Store`.
3. *Every way it can fail leaves what was written as it was* (`state.go:454`). When
   the server is stopping the state file is put back by a write nobody checks.
4. *A half-made volume is finished by a creation and removed by a delete*
   (`internal/provision/state.go:35`). A pending btrfs record that already knows an
   id, and whose subvolume was deleted, does not claim the one the retry makes.

## Proofs

Every safety property of the passing runs is a theorem of its specification, for all
values of the constants that satisfy the named assumptions. TLC evaluates those
assumptions on its instances; every inductive invariant was model-checked on the run's
instance before it was proved. Each proof has the same shape: the initial states satisfy
the invariant, every step keeps it, one lemma or step per action, and the property
follows from it.

`GenerationProofs`, for all finite sets of sockets and clients and any bound on
generations (the three assumptions of `Generation`):

* `TypeCorrect`: `TypeOK`. It needs `SwapInBounds`: a swap only begins over an
  existing generation below the bound.
* `InvCorrect`: the inductive invariant `Inv`, which is `TypeOK` and `Safe`:
  * `LifeCycle`: what `main` and `swapper` say about `live`, `genN`, `ready` and
    `stopped`;
  * `OneGeneration`: connections and goroutines belong to the running generation;
  * `ServersCurrent`: a protocol server that is past its setup read the current list;
  * `CurrentListOnly` itself.

  The property alone is not inductive: that a tracked connection's list is still
  current after `SwapStart` follows only because `stop` has returned, that is because
  no connection and no goroutine of the old generation is left
  (`StopLeavesNothing`), and that the next one is tracked under the right list only
  because its server read the list after it was installed.
* `OnlyTheCurrentList`, `OneGenerationAtATime` and `ReadyIsServing` follow from `Inv`.
* `CountersAreExact`: each move of a connection from one state to another changes one
  of the two cardinalities by one, or neither, and the counter with it.
* `SwapImplementsRevocation`: the refinement. `Track` is the opening of a session,
  `SessionEnds` and `ShutCloses` end one, `SwapStart` replaces the list, and every
  other step changes nothing that `Revocation` sees.

`ManagerProofs`, for any finite set of names, and any paths and volumes:

* `Locks` says who holds `changeMu` and `manager.mu` at each step of a change, a reload,
  a start and a deletion; everything else rests on it.
* `DriversAreHeld` needs `ListInv` and `HeldInv`: while a list is opened, its drivers are
  the served list's or were opened for it, and no driver is both. `DriversAreOnePerKey`
  follows, because `sameImage` looks through exactly those. The key is `imageKey`'s: the
  theorem says nothing of two blocks that say different things of one file.
* `AcknowledgedStaysWritten`, `ServedIsWritten`: `WrittenInv` ties the position of a
  change to what is on disk, in memory and served.
* `StateFileAlwaysStarts`: `ApartInv`, that no two sources coincide, holds of the file,
  of memory and of what is being applied at once: each becomes one of the others.
* `VolumeInUseIsKept`: `VolumeInv`, from `manager.mu`.
* `ManagerImplementsLedger`: the refinement. `WriteState` is `Write`, `ApplySwap` is
  `Show`, `Commit` is `Tell`, `ApplySwapRefused` is `Refuse`, `Started` is `ComeUp`,
  `Stop` is `Close` and `Crash` is `GoDown`; nobody can tell any other step. It rests on
  `WrittenInv`, and on the list that was opened being the one that was written. Finding
  3 is in `Refuse`: what was written is taken back, or not. `AcknowledgedIsWritten` is
  the part of this that speaks of one state; it is proved, and no run repeats it.

`NoNameAssumption` says that the value for "no name" is none of the names.

`ReloadProofs`, for any finite set of people and groups:

* `AccessComesFromGrants`: `GrantInv`; the list being opened is covered as well as the
  served one, and a list whose groups have emptied still remembers that it named
  somebody.
* `SessionsAreEntitled`: `SessionInv`; what SMB holds, and what a reload is about to add
  to it, is within what the server holds.
* `ReloadDisconnectsForCause`: `CauseInv`; while the directory only grows, what is read
  from it contains what is held.

`ProvisionerProofs`, for any names and quotas, any finite range of ids and the three
backends:

* `ForeignStaysUntouched`: `ForeignInv`; what is foreign has no record in memory or on
  disk, and no request in progress is about it.
* `EverythingMadeIsRecorded`: `ProjectInv`, both of the file and of memory, with
  `PendingWritten`: a pending record reaches the file before anything is made for it.
* `TagsAreApart`: `ProjectInv`, `BtrfsInv` and `ZfsInv`, one for each way a backend tells
  its volumes apart. An orphan (finding 4) keeps its id, so the argument is about every
  id that a record, the file or an object carries.
* `NeverWithoutLimit`: `LimitInv` with `StepInv`, what a request has done by each step;
  lifting a limit is harmless only because no other volume has the id, so it rests on
  `TagsAreApart`.

`WorkersProofs`, for any finite set of connections and requests, any keys and workers:

* `IdleNeverClosesUsed`: `PoolInv`. The count of a worker in the map is the number of
  its uses (`CountInv`) unless its start failed, when it only has to be above zero; each
  worker is started once (`StarterInv`); and a use relies on its worker's state by its
  step (`UseInv`).
* `NoWorkerIsStray`: `StrayInv`; what is open or being started is in the map or on the
  list of a reset. The property speaks only of open ones, and a start ends after a swap.
* `SshEndsBeforeWorkers`: `SshInv`. The wait group's count is the number of connections
  that have a goroutine; the accept loop has one other at most, between `Accept` and
  `wg.Add`, and none when it waits; and `swap` and `Close` go on only after the wait. That
  the count is zero says nothing of the connections without the first of these.

`CredentialsProofs`, for any validity, `max_age`, retention, duration and number of lists
and events, of which `CredentialsAssumption` asks what `ssfBlock.timing` checks:

* `ListNeverBackwards`: `FloorInv`, the file is never behind the floor nor memory.
* `ListRevocationsBite`: `ListInv`; the copy held misses no list issued longer than a
  fetch before it was last confirmed (`HonestInv`), and a list only leaves out what has
  ended (`IssueInv`). The half about expiry is for a list that has one.
* `AcknowledgedStaysKept`, `SignalRevocationsBite`: `SignalInv`; every event since the
  stream was made is queued or acknowledged (`QueueInv`), what is acknowledged, or about
  to be, is in the file (`AckInv`), and a round ends with everything that had happened
  when it was asked for (`PollInv`, `HeardInv`).
* `RefusedForGood`: `RefusedInv`; until the credential has ended, what refused it is on
  disk, and in memory while the process runs.

`SessionsProofs`, for every configuration that is served, every credential, and any
sessions, requests, shares and files:

* The inductive invariant is `SessionsInv`. `GivenInv`: a session is for good what it
  was when it was let in, served by its protocol's process with the view and the worker
  that process gave to its credential. `OffInv`: a session that is over has nothing
  left. `ReachInv`: what is open or at work is in a share the view shows. `LockInv`:
  whoever is inside an image's driver holds the lock of its process.
* `AccessIsEntitled` and `ProtocolsAgree` need no more of `GivenInv` than what each
  protocol answers (`TreeAnswers`, `OpenAnswers`, `S3Answers`, `SmbAnswers`,
  `NfsAnswers`, together `Answered`): five ways to compute a view, and one statement of
  what it is, by the lists and the credential alone. `ListsAgree` is the core: what a
  list asks of a principal is what it says of the credential behind it.
* `WorkersAreTheirs` adds `WorkerIs`, the chain of `Resolver`, `Policy`, the kernel and
  the worker's own checks, and that nobody without a name has a worker.
* `NoWayPastTheView`: every step that reaches a driver is one `StartsAllowed` lists; for a
  session that is gone these are `Size`, `Sync` and `Close`, which ask nobody.
* `DriversAreAlone`: `LockInv` within a process, where `checkNoShareHoldsShare` leaves one
  share per source (`OneSourceEach`), and between processes that `isolationRefusal` lets
  two of them have one share only when it is read-only.

`SnapshotsProofs`, over `SessionsInv`, for any budget:

* `SnapshotsAreBounded`: `SnapshotsInv`. `RefsInv`: `refs` of a snapshot is the number
  of handles on it, it has bytes only once it was read, and one that is being read has
  somebody reading it. `LoadInv`: only one request reads a snapshot, and at a handle
  that is open. `CountInv`: the count is the number of bytes that are held, or were
  found to be over the budget and are about to be taken off. The property alone is not
  inductive: a release takes off what was counted only because no other handle is left,
  and two requests that read at once stay within the budget only because each counts
  before it keeps. Bytes are a set of pairs of a snapshot and a position, so that a sum
  over snapshots is the size of a set, and no induction is needed.

`ConfigsAssumption` says what the parser makes: rules have a value (`principal.go:62`),
there is one identity block at most, and nobody is known whom neither the file nor a
directory declares (`server.go:937`). `AccessEntitled` speaks of the grant in an SSH
certificate only over SFTP: anybody may present anything to an open WebDAV server,
which asks for nothing.

Only model-checked:

* all liveness (`SwapReturns`, `ShutdownReturns`, `EveryClientAnswered`,
  `ChangeAnswered`, `RevokedIsOut`, `AddedIsIn`, `StopEnds`, `UnusedEnds`): the prover
  has no support for fairness and `ENABLED`;
* the four disagreements, which are counterexamples.

The `TypeOK` of a module is there for its proofs; it is checked by no run of its own.

## Observations without a run

Met while modelling. The first four disagree with a comment, and the fifth with what a
reader expects; the modules have the code's behaviour, and the property each would break
is stated without the case. Of the others nothing in the repository says otherwise. A
maintainer may want to know of all of them.

* Under `--isolate` the parent asks `isolationRefusal` alone, which counts protocols share
  by share (`root.go:135`, `isolate.go:50`), and `checkNoShareHoldsShare` runs in each
  child over the shares it kept (`isolate.go:207`, `server.go:305`). Two shares of one
  image on two protocols are served, and two processes write it; the comment at
  `isolate.go:41` says that is refused. `DriverAlone` compares sources within a process,
  and shares between processes.
* Two paths to one image, one with `filesystem` set and one without, have two image keys
  and get two drivers (`share.go:112`); the comment over `imageKey` (`share.go:97`) says
  that the file is compared. `OneDriverPerKey` is about the key.
* A reload that has to take somebody out opens every share first, and returns when one
  does not open (`reload.go:134`), before `setPeople`: while one served file is missing
  from its path, who left the directory stays in, and ending that session is what
  `reload.go:38` says a reload exists for. `RevokedIsOut` assumes that the shares open.
* `Size` of a snapshot that was not read yet reads the whole file from the driver, and
  `revocableFile` asks `gone` in `ReadAt` only (`unionfs.go:380`, `unionfs.go:424`): a
  handle opened before a revocation still answers its size after it, though the comment
  says that it "stops answering" (`unionfs.go:417`). `OnlyWhatTheViewAllows` excepts it.
* An error of `Accept` that is temporary (too many open files) ends `feed.accept` for good
  (`generation.go:61`), and `genListener.Accept` answers it for ever
  (`generation.go:122`). WebDAV and S3 run net/http's `Serve`, which asks again and does
  not return (`serve_webdav.go:82`, `serve_s3.go:49`): no failure is reported, and clients
  in the socket's backlog wait until the server stops. `EveryClientAnswered` excepts it.
* A KRL in a file need not say when it expires (`krl_sftp.go:29`): an old file that is
  read again is current for ever. The documentation says so; `ListRevocationBites` has it.
* A change to a share is refused while the share names anybody who left the directory
  (`state.go:482`); when two have left, neither can be revoked through the API before
  the other.
* A start that was under way when `reset` forgot the failures may fail afterwards and is
  remembered all the same: the person is refused in the new generation until the hold
  ends (`workerpool.go:109`).
* `DeleteVolume` of the API stops when `GetVolume` answers anything but NotFound; a
  volume that was not finished answers FailedPrecondition, so the API cannot delete it,
  though the provisioner's own `DeleteVolume` would (`volume_grpc.go:341`).
* When `GetVolume` answers NotFound, `usersOf` is given no path and does not look for
  shares whose source lies inside the volume (`volume_grpc.go:339`).
* When the caller of `DeleteVolume` goes away the manager's lock is released with the
  request still queued (`volume_grpc.go:353`). `UsedVolumeKept` speaks of the deletions
  the manager still waits for.
* A share of the API is confined to its source roots when its source is opened
  (`hostdir.go:68`, `server.go:892`). A list that finds the file open already takes over
  the driver instead (`server.go:389`), and the stat that decides so follows links: what
  is under a root when the share is made may by then be elsewhere.
* A ZFS dataset whose record was lost is recorded again as finished although its
  creation may have stopped before the mount (`internal/provision/service.go:179`); the
  next start mounts it.
* A snapshot made and not recorded can be neither listed nor deleted, and its volume's
  deletion leaves it (`internal/provision/btrfs.go:185`).
* A restart whose state file of a list cannot be read starts without a floor; a stream
  made at the transmitter and not written down before a crash keeps events nobody polls.
  `NeverBackwards` and `SignalRevocationBites` are stated for the other cases.
* With `--isolate` the block a child is started with carries neither identity nor TLS:
  shares that need NFS's client certificates are then refused, not opened.

## Not modelled

What `PROJECT.json` marks `not_modelled`, and of the parts that are modelled:

* `Manager`: secrets and the confinement of paths; partitions and devices; the calls
  that only list; resizes and snapshots of volumes, which are relayed.
* `Reload`: a swap refused because the server stops, which `Manager` has: every session
  is over by then.
* `Provisioner`: requests that change nothing, refused or answered from the record;
  whether a dataset is still mounted after it was.
* `RevocationList`: which of several issuers signed a CRL. `SharedSignals`: streams that
  the transmitter pauses or drops.
* `Access`: parsing and the syntax of names, `canServeUser`, where secrets lie. A list
  that is not current is `Credentials`' matter.
* `Trees`: `fullfs.go`, `partition.go`, `device.go`: arithmetic and translation with no
  state that two requests share.

The generated code, TLS and ACME, the metrics, the web UI and the directory back ends
are libraries, views and input and output around what is modelled.

## Plan

The modules of the plan are written, and every safety property that a run checks is
proved. Worth adding: an abstract specification of the pool in `Workers`, which hands
out a worker per key and takes it back, and its refinement from `PoolInv`.
