-------------------------------- MODULE Trees --------------------------------
(***************************************************************************)
(* What a session reaches once it is let in: the tree that unionfs.go      *)
(* builds for one person out of the shares, the lock that lockedfs.go puts *)
(* around an image's driver, and the bounded snapshots that serve the      *)
(* files of a driver with no random access.                                *)
(*                                                                         *)
(* A session of SFTP or S3 goes through its tree; one of WebDAV, SMB or    *)
(* NFS ("direct") calls the share's filesystem itself, through a handler   *)
(* that is read-only or not.  Sessions says how a session gets its view.   *)
(* A share holds one file: paths differ only in the share they lead to,    *)
(* and in "/" and a share's own name, which no driver is asked about.  A   *)
(* driver call is a critical section that takes time: Enter and Leave.     *)
(***************************************************************************)
EXTENDS Integers, FiniteSets

CONSTANTS Shares, Locked,     \* the shares, and those whose driver is an image's
          Openers,            \* the shares whose driver answers Opener
          Sessions, Procs,    \* Procs: the processes, one unless --isolate
          Threads, Owner,     \* the requests at work at once, and whose they are
          Sizes,              \* how long the file can be found to be
          MaxFile, MaxTotal,  \* maxSnapshotFile, maxSnapshotTotal
          MaxHandles          \* bound: handles each session has open

ASSUME TreesAssumption ==
  /\ Locked \subseteq Shares /\ Openers \subseteq Shares
  /\ Owner \in [Threads -> Sessions] /\ "-" \notin Threads /\ "one" \in Procs
  /\ Sizes \subseteq Nat /\ MaxFile \in Nat /\ MaxTotal \in Nat /\ MaxHandles \in [Sessions -> Nat]

Handles(s) == 1..MaxHandles[s]
NoShare == "-"
NoThread == "-"

VARIABLES
  view,    \* unionEntry: per session and share, left out, readOnly or writable
  proc,    \* the process that serves a session
  kind,    \* how a session is served: not yet, "tree", "watched", "direct"
  gone,    \* the sessions whose revoked() answers an error
  handles, \* per session and handle, its share and what kind of File it is
  snap,    \* per session and share, the snapshot of the share's file
  total,   \* snapshotBytes, in each process
  lock,    \* lockedFS.mu of each process's image, and who holds it
  th       \* what each thread is doing

login == <<view, proc, kind>>
treeVars == <<view, proc, kind, gone, handles, snap, total, lock, th>>

NoHandle == [share |-> NoShare, file |-> "none"]
NoSnapshot == [refs |-> 0, once |-> "none", len |-> 0]
Rest == [at |-> "idle", op |-> "none", share |-> NoShare, h |-> 0]

TreesInit ==
  /\ view = [s \in Sessions |-> [sh \in Shares |-> "none"]]
  /\ proc = [s \in Sessions |-> "one"] /\ kind = [s \in Sessions |-> "none"]
  /\ gone = {}
  /\ handles = [s \in Sessions |-> [h \in Handles(s) |-> NoHandle]]
  /\ snap = [s \in Sessions |-> [sh \in Shares |-> NoSnapshot]]
  /\ total = [p \in Procs |-> 0]
  /\ lock = [p \in Procs |-> [sh \in Locked |-> NoThread]]
  /\ th = [t \in Threads |-> Rest]
-----------------------------------------------------------------------------
(***************************************************************************)
(* unionFS: what a request may ask a driver.                               *)
(***************************************************************************)

\* unionFS.gone: it is asked at every operation, and latched.
isGone(s) == s \in gone

\* unionFS.route, to a path inside a share.
route(s, sh) == ~isGone(s) /\ view[s][sh] # "none"

\* unionFS.writable.
writable(s, sh) == route(s, sh) /\ view[s][sh] = "write"

Calls(t, op, sh, h) == th' = [th EXCEPT ![t] = [at |-> "call", op |-> op, share |-> sh, h |-> h]]

\* ReadFile, ListDir, Stat and ReadLink.
ReadPath(t, sh) ==
  /\ th[t] = Rest
  /\ route(Owner[t], sh)
  /\ Calls(t, "read", sh, 0)
  /\ UNCHANGED <<login, gone, handles, snap, total, lock>>

\* WriteFile, MkDir, DeleteFile and DeleteDir.
WritePath(t, sh) ==
  /\ th[t] = Rest
  /\ writable(Owner[t], sh)
  /\ Calls(t, "write", sh, 0)
  /\ UNCHANGED <<login, gone, handles, snap, total, lock>>

\* Both ends writable, and in one share.
Rename(t, from, to) ==
  /\ th[t] = Rest
  /\ writable(Owner[t], from) /\ writable(Owner[t], to) /\ from = to
  /\ Calls(t, "write", from, 0)
  /\ UNCHANGED <<login, gone, handles, snap, total, lock>>

Free(s) == {h \in Handles(s) : handles[s][h] = NoHandle
                             /\ \A t \in Threads : Owner[t] = s => th[t].h # h}

\* OpenFile of a driver that answers Opener: the driver opens it.
OpenFile(t, sh) ==
  LET s == Owner[t]
  IN /\ th[t] = Rest /\ kind[s] # "direct"
     /\ route(s, sh) /\ sh \in Openers
     /\ \E h \in Free(s) : /\ \A g \in Free(s) : h <= g
                           /\ Calls(t, "open", sh, h)
  /\ UNCHANGED <<login, gone, handles, snap, total, lock>>

\* Mutant of opened: a read-only view hands out the driver's own File.
openedRaw(s, sh) == [share |-> sh, file |-> "writable"]

\* The File the driver answered, its writes taken away (readOnlyFile) when
\* the view is read-only; revocableFile is what ReadAt and WriteAt ask.
opened(s, sh) == [share |-> sh, file |-> IF view[s][sh] = "write" THEN "writable" ELSE "plain"]

\* OpenFile of any other driver: snapshotCache.open, which reads nothing.
OpenSnapshot(t, sh) ==
  LET s == Owner[t]  x == snap[s][sh]
  IN /\ th[t] = Rest /\ kind[s] # "direct"
     /\ route(s, sh) /\ sh \notin Openers
     /\ \E h \in Free(s) :
          /\ \A g \in Free(s) : h <= g
          /\ handles' = [handles EXCEPT ![s][h] = [share |-> sh, file |-> "snapshot"]]
     /\ snap' = [snap EXCEPT ![s][sh] =
                   IF x = NoSnapshot THEN [refs |-> 1, once |-> "unread", len |-> 0]
                                     ELSE [x EXCEPT !.refs = @ + 1]]
  /\ UNCHANGED <<login, gone, total, lock, th>>

\* Nobody else is at work on a handle: the SFTP server closes one when the
\* requests on it are answered.
Alone(t, h) == \A o \in Threads \ {t} : Owner[o] = Owner[t] => th[o].h # h

\* revocableFile.ReadAt of a driver's File.
ReadAt(t, h) ==
  /\ th[t] = Rest /\ handles[Owner[t]][h].file \in {"plain", "writable"}
  /\ ~isGone(Owner[t])
  /\ Calls(t, "read", handles[Owner[t]][h].share, h)
  /\ UNCHANGED <<login, gone, handles, snap, total, lock>>

\* revocableWritable's WriteAt and Truncate.
WriteAt(t, h) ==
  /\ th[t] = Rest /\ handles[Owner[t]][h].file = "writable"
  /\ ~isGone(Owner[t])
  /\ Calls(t, "write", handles[Owner[t]][h].share, h)
  /\ UNCHANGED <<login, gone, handles, snap, total, lock>>

\* Size and Sync, which nothing stops.
SizeOrSync(t, h) ==
  /\ th[t] = Rest /\ handles[Owner[t]][h].file \in {"plain", "writable"}
  /\ Calls(t, "sync", handles[Owner[t]][h].share, h)
  /\ UNCHANGED <<login, gone, handles, snap, total, lock>>

\* Close of a driver's File.
CloseFile(t, h) ==
  /\ th[t] = Rest /\ handles[Owner[t]][h].file \in {"plain", "writable"} /\ Alone(t, h)
  /\ Calls(t, "close", handles[Owner[t]][h].share, h)
  /\ UNCHANGED <<login, gone, handles, snap, total, lock>>

\* The session's certificate is found revoked, which is for good (a list
\* that is not current is Credentials').
Revoked(s) ==
  /\ kind[s] = "watched" /\ s \notin gone
  /\ gone' = gone \cup {s}
  /\ UNCHANGED <<login, handles, snap, total, lock, th>>
-----------------------------------------------------------------------------
(***************************************************************************)
(* snapshotFile: ReadAt and Size load the snapshot, once, and Close drops  *)
(* a handle on it.                                                         *)
(***************************************************************************)

\* revocableFile.ReadAt of a snapshot.  The first to need the bytes reads
\* them; the others wait in once.Do, and what is loaded is answered without
\* the driver.
Load(t, h) ==
  LET s == Owner[t]  sh == handles[s][h].share
  IN /\ th[t] = Rest /\ handles[s][h].file = "snapshot"
     /\ ~isGone(s)
     /\ snap[s][sh].once = "unread"
     /\ snap' = [snap EXCEPT ![s][sh].once = "loading"]
     /\ Calls(t, "load", sh, h)
  /\ UNCHANGED <<login, gone, handles, total, lock>>

\* snapshotFile.Size, which revocableFile leaves as it is: asked before the
\* first ReadAt it is what reads the file, whoever the session has become.
SizeLoads(t, h) ==
  LET s == Owner[t]  sh == handles[s][h].share
  IN /\ th[t] = Rest /\ handles[s][h].file = "snapshot"
     /\ snap[s][sh].once = "unread"
     /\ snap' = [snap EXCEPT ![s][sh].once = "loading"]
     /\ Calls(t, "size", sh, h)
  /\ UNCHANGED <<login, gone, handles, total, lock>>

\* Mutant of bytes: what is refused stays counted.
bytesKept(t) ==
  LET s == Owner[t]  sh == th[t].share  n == snap[s][sh].len
  IN /\ th[t].at = "loaded"
     /\ IF n > MaxFile
          THEN snap' = [snap EXCEPT ![s][sh] = [refs |-> @.refs, once |-> "err", len |-> 0]] /\ UNCHANGED total
          ELSE /\ total' = [total EXCEPT ![proc[s]] = @ + n]
               /\ snap' = [snap EXCEPT ![s][sh] =
                             IF total'[proc[s]] > MaxTotal THEN [@ EXCEPT !.once = "err", !.len = 0]
                                                  ELSE [@ EXCEPT !.once = "held"]]
     /\ th' = [th EXCEPT ![t] = Rest]
  /\ UNCHANGED <<login, gone, handles, lock>>

\* snapshot.bytes, the file read: one too long is refused; any other is
\* counted, and what takes the count past the bound is to be counted off.
bytes(t) ==
  LET s == Owner[t]  sh == th[t].share  n == snap[s][sh].len
  IN /\ th[t].at = "loaded"
     /\ IF n > MaxFile
          THEN snap' = [snap EXCEPT ![s][sh] = [refs |-> @.refs, once |-> "err", len |-> 0]] /\ UNCHANGED total
          ELSE /\ total' = [total EXCEPT ![proc[s]] = @ + n]
               /\ snap' = [snap EXCEPT ![s][sh].once = IF total'[proc[s]] > MaxTotal THEN "over" ELSE "held"]
     /\ th' = [th EXCEPT ![t] = IF snap'[s][sh].once = "over" THEN [@ EXCEPT !.at = "over"] ELSE Rest]
  /\ UNCHANGED <<login, gone, handles, lock>>

\* The second half of a refusal.
CountOff(t) ==
  LET s == Owner[t]  sh == th[t].share
  IN /\ th[t].at = "over"
     /\ total' = [total EXCEPT ![proc[s]] = @ - snap[s][sh].len]
     /\ snap' = [snap EXCEPT ![s][sh] = [refs |-> @.refs, once |-> "err", len |-> 0]]
     /\ th' = [th EXCEPT ![t] = Rest]
  /\ UNCHANGED <<login, gone, handles, lock>>

\* snapshotFile.Close: the last handle frees the bytes.
release(t, h) ==
  LET s == Owner[t]  sh == handles[s][h].share
  IN /\ th[t] = Rest /\ handles[s][h].file = "snapshot" /\ Alone(t, h)
     /\ handles' = [handles EXCEPT ![s][h] = NoHandle]
     /\ IF snap[s][sh].refs > 1
          THEN snap' = [snap EXCEPT ![s][sh].refs = @ - 1] /\ UNCHANGED total
          ELSE /\ snap' = [snap EXCEPT ![s][sh] = NoSnapshot]
               /\ total' = [total EXCEPT ![proc[s]] = @ - snap[s][sh].len]
  /\ UNCHANGED <<login, gone, lock, th>>
-----------------------------------------------------------------------------
(***************************************************************************)
(* The driver.                                                             *)
(***************************************************************************)

\* Mutant of mustLock: a file handle is used without the lock.
mustLockPaths(t) == th[t].share \in Locked /\ th[t].h = 0

\* lockFS wraps what an image's driver answers, and every File it opens; a
\* directory of the host is the kernel's to serialise.
mustLock(t) == th[t].share \in Locked

\* What the driver is asked, whichever call of ours asks it.
inside(op) == IF op \in {"read", "write", "sync"} THEN "use" ELSE IF op = "size" THEN "load" ELSE op

Enter(t) ==
  /\ th[t].at = "call"
  /\ LET sh == th[t].share  p == proc[Owner[t]]
     IN IF mustLock(t) THEN lock[p][sh] = NoThread /\ lock' = [lock EXCEPT ![p][sh] = t]
                       ELSE UNCHANGED lock
  /\ th' = [th EXCEPT ![t] = [at |-> "in", op |-> inside(@.op), share |-> @.share, h |-> @.h]]
  /\ UNCHANGED <<login, gone, handles, snap, total>>

\* The call returns, and the deferred Unlock runs.  An open or a read can
\* fail; a write that fails changed what it changed.
Leave(t) ==
  LET s == Owner[t]  sh == th[t].share  h == th[t].h
  IN /\ th[t].at = "in"
     /\ lock' = IF mustLock(t) THEN [lock EXCEPT ![proc[s]][sh] = NoThread] ELSE lock
     /\ \/ /\ th[t].op = "open"
           /\ handles' = [handles EXCEPT ![s][h] = opened(s, sh)]
           /\ th' = [th EXCEPT ![t] = Rest] /\ UNCHANGED snap
        \/ /\ th[t].op = "close"
           /\ handles' = [handles EXCEPT ![s][h] = NoHandle]
           /\ th' = [th EXCEPT ![t] = Rest] /\ UNCHANGED snap
        \/ /\ th[t].op = "load"
           /\ \E n \in Sizes : snap' = [snap EXCEPT ![s][sh].len = n]
           /\ th' = [th EXCEPT ![t].at = "loaded"] /\ UNCHANGED handles
        \/ /\ th[t].op = "load"
           /\ snap' = [snap EXCEPT ![s][sh].once = "err"]
           /\ th' = [th EXCEPT ![t] = Rest] /\ UNCHANGED handles
        \/ /\ th[t].op \in {"use", "open"}
           /\ th' = [th EXCEPT ![t] = Rest] /\ UNCHANGED <<handles, snap>>
  /\ UNCHANGED <<login, gone, total>>
-----------------------------------------------------------------------------
TreesNext ==
  \/ \E t \in Threads, sh \in Shares :
       ReadPath(t, sh) \/ WritePath(t, sh) \/ OpenFile(t, sh) \/ OpenSnapshot(t, sh)
  \/ \E t \in Threads, from, to \in Shares : Rename(t, from, to)
  \/ \E t \in Threads : \E h \in Handles(Owner[t]) :
       \/ ReadAt(t, h) \/ WriteAt(t, h) \/ SizeOrSync(t, h) \/ CloseFile(t, h)
       \/ Load(t, h) \/ SizeLoads(t, h) \/ release(t, h)
  \/ \E t \in Threads : bytes(t) \/ CountOff(t) \/ Enter(t) \/ Leave(t)
  \/ \E s \in Sessions : Revoked(s)
-----------------------------------------------------------------------------
(***************************************************************************)
(* Properties.                                                             *)
(***************************************************************************)

\* No way past the view: no driver is asked to change a share that the session
\* sees read-only, by a path, a rename or a File opened through the view, and
\* a session that is gone opens nothing and reads and writes nothing, not even
\* through a file it opened before.  Size, Sync and Close still reach the
\* driver, and a first Size makes it read a snapshot's file ("size").
OnlyWhatTheViewAllows ==
  [][\A t \in Threads :
       th[t].at = "idle" /\ th'[t].at = "call" =>
         LET s == Owner[t]  v == view[s][th'[t].share]
         IN /\ v # "none"
            /\ th'[t].op = "write" => v = "write"
            /\ th'[t].op \in {"read", "write", "load", "open"} => s \notin gone]_treeVars

\* The bytes of the snapshots of process p that are in one of the states once.
Bytes(p, once) ==
  LET of == {x \in Sessions \X Shares : proc[x[1]] = p /\ snap[x[1]][x[2]].once \in once}
  IN UNION {{x} \X (1..snap[x[1]][x[2]].len) : x \in of}

\* The snapshots of a whole process stay within their bound, and what is
\* counted is what is held or being counted off: concurrent loads, refusals
\* and closes neither lose bytes nor keep them.
SnapshotsBounded ==
  \A p \in Procs : /\ total[p] = Cardinality(Bytes(p, {"held", "over"}))
                   /\ Cardinality(Bytes(p, {"held"})) <= MaxTotal
=============================================================================
