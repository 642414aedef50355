-------------------------- MODULE SessionsProofs --------------------------
(***************************************************************************)
(* Theorems about Sessions, for every configuration a server can be        *)
(* started with, every credential presented to it, and any number of       *)
(* sessions, requests at work at once, shares and open files.              *)
(***************************************************************************)
EXTENDS Sessions, FiniteSetTheorems, TLAPS

Views == {"none", "read", "write"}
Handle == [share : Shares \cup {NoShare}, file : {"none", "plain", "writable", "snapshot"}]
Thread == [at : {"idle", "call", "in", "loaded", "over"},
           op : {"none", "read", "write", "open", "sync", "close", "load", "size", "use"},
           share : Shares \cup {NoShare}, h : Nat]

\* The types of the variables that say who reaches what.
Shape ==
  /\ config \in Configs /\ serve(config) /\ DOMAIN who = Sessions
  /\ view \in [Sessions -> [Shares -> Views]] /\ proc \in [Sessions -> Procs]
  /\ DOMAIN handles = Sessions
  /\ \A s \in Sessions : handles[s] \in [Handles(s) -> Handle]
  /\ lock \in [Procs -> [Locked -> Threads \cup {NoThread}]]
  /\ th \in [Threads -> Thread]

\* Before a session is let in, and after it ended, nothing of it is left.
OffInv ==
  \A s \in Sessions : who[s] = Nobody =>
    /\ \A sh \in Shares : view[s][sh] = "none"
    /\ \A h \in Handles(s) : handles[s][h] = NoHandle
    /\ \A t \in Threads : Owner[t] = s => th[t] = Rest

\* A file is open, and a call is at work, only in a share the session sees;
\* and a File that can be written, only in one it may write.
ReachInv ==
  /\ \A s \in Sessions : \A h \in Handles(s) :
       handles[s][h].file # "none" =>
         /\ handles[s][h].share \in Shares /\ view[s][handles[s][h].share] # "none"
         /\ handles[s][h].file = "writable" => view[s][handles[s][h].share] = "write"
  /\ \A t \in Threads :
       IF th[t].at = "idle" THEN th[t] = Rest
       ELSE th[t].share \in Shares /\ view[Owner[t]][th[t].share] # "none"

\* Whoever is inside an image's driver holds the lock of its process.
LockInv ==
  \A t \in Threads : th[t].at = "in" /\ th[t].share \in Locked => lock[proc[Owner[t]]][th[t].share] = t

\* What a protocol made of a credential, and the view it gave.
Given(cfg, proto, cred, p, v) ==
  \/ proto = "smb" /\ p \in ntlm(cfg, cred) /\ v = smbView(cfg, p)
  \/ proto = "webdav" /\ p \in authenticated(cfg, cred) /\ v = treeView(cfg, "webdav", p)
  \/ proto = "sftp" /\ p \in sshLogin(cfg, cred) /\ v = treeView(cfg, "sftp", p)
  \/ proto = "s3" /\ v = s3View(cfg, p) /\ \E user, id \in cfg.people : p \in forUser(cfg, user, id, cred)
  \/ /\ proto = "nfs" /\ v = nfsView(cfg, cred)
     /\ p \in IF nfsPrincipals(cfg, cred) = {} THEN {Anonymous} ELSE nfsPrincipals(cfg, cred)

\* The configuration does not change, so a session is for good what it was
\* when it was let in: served by the process of its protocol, with the view,
\* and the worker, that process gave to its credential.
GivenInv ==
  \A s \in Sessions : who[s] # Nobody =>
    LET proto == who[s].proto  cred == who[s].cred  p == who[s].p  cfg == Process(config, proto)
    IN /\ proto \in config.serves /\ cred \in Creds(config)
       /\ proc[s] = IF config.isolate THEN proto ELSE "one"
       /\ \E v \in {smbView(cfg, p), treeView(cfg, proto, p), s3View(cfg, p), nfsView(cfg, cred)} :
            /\ Given(cfg, proto, cred, p, v)
            /\ view[s] = Whole(v) /\ who[s].worker = Serving(cfg, v, p)

SessionsInv == Shape /\ OffInv /\ ReachInv /\ LockInv /\ GivenInv

\* Thread t, at rest, asks a driver for something its session may ask for.
Started(t) ==
  /\ th[t] = Rest /\ UNCHANGED <<view, proc, kind, gone, handles, lock>>
  /\ \E op \in {"read", "write", "open", "sync", "close", "load", "size"}, sh \in Shares, h \in Nat :
       /\ Calls(t, op, sh, h)
       /\ view[Owner[t]][sh] # "none"
       /\ op = "write" => view[Owner[t]][sh] = "write"
       /\ op \in {"read", "write", "load", "open"} => Owner[t] \notin gone

\* Every operation that reaches a driver is one the view allows.
LEMMA StartsAllowed ==
  ASSUME Shape, ReachInv, NEW t \in Threads,
         \/ \E sh \in Shares : ReadPath(t, sh) \/ WritePath(t, sh) \/ OpenFile(t, sh)
         \/ \E from, to \in Shares : Rename(t, from, to)
         \/ \E h \in Handles(Owner[t]) :
              ReadAt(t, h) \/ WriteAt(t, h) \/ SizeOrSync(t, h) \/ CloseFile(t, h) \/ Load(t, h) \/ SizeLoads(t, h)
  PROVE  Started(t)
<1>0. 0 \in Nat /\ Owner[t] \in Sessions /\ Handles(Owner[t]) \subseteq Nat
  BY TreesAssumption DEF Handles
<1>1. ASSUME NEW sh \in Shares, ReadPath(t, sh) \/ WritePath(t, sh) PROVE Started(t)
  BY <1>0, <1>1 DEF ReadPath, WritePath, Started, route, writable, isGone, login
<1>2. ASSUME NEW sh \in Shares, OpenFile(t, sh) PROVE Started(t)
  <2>1. PICK h \in Free(Owner[t]) : Calls(t, "open", sh, h)
    BY <1>2 DEF OpenFile
  <2>2. h \in Nat
    BY <1>0, <2>1 DEF Free
  <2>3. QED
    BY <1>2, <2>1, <2>2 DEF OpenFile, Started, route, isGone, login
<1>3. ASSUME NEW from \in Shares, NEW to \in Shares, Rename(t, from, to) PROVE Started(t)
  BY <1>0, <1>3 DEF Rename, Started, route, writable, isGone, login
<1>4. ASSUME NEW h \in Handles(Owner[t]), ReadAt(t, h) \/ WriteAt(t, h) \/ SizeOrSync(t, h) \/ CloseFile(t, h) \/ Load(t, h) \/ SizeLoads(t, h)
      PROVE  Started(t)
  <2>1. PICK sh : sh = handles[Owner[t]][h].share
    OBVIOUS
  <2>2. /\ sh \in Shares /\ view[Owner[t]][sh] # "none"
        /\ handles[Owner[t]][h].file = "writable" => view[Owner[t]][sh] = "write"
    BY <1>0, <1>4, <2>1 DEF ReadAt, WriteAt, SizeOrSync, CloseFile, Load, SizeLoads, ReachInv
  <2>3. h \in Nat
    BY <1>0
  <2>4. QED
    BY <1>4, <2>1, <2>2, <2>3 DEF ReadAt, WriteAt, SizeOrSync, CloseFile, Load, SizeLoads, Started, isGone, login
<1>5. QED
  BY <1>1, <1>2, <1>3, <1>4

\* One handle is set.
LEMMA HandlesSet ==
  ASSUME Shape, NEW s \in Sessions, NEW h, NEW x \in Handle, handles' = [handles EXCEPT ![s][h] = x]
  PROVE  /\ DOMAIN handles' = Sessions /\ \A z \in Sessions : handles'[z] \in [Handles(z) -> Handle]
         /\ \A z \in Sessions : \A g \in Handles(z) :
              handles'[z][g] = IF z = s /\ g = h THEN x ELSE handles[z][g]
<1>1. handles' = [handles EXCEPT ![s] = [handles[s] EXCEPT ![h] = x]]
  OBVIOUS
<1>2. DOMAIN handles = Sessions /\ \A z \in Sessions : handles[z] \in [Handles(z) -> Handle]
  BY DEF Shape
<1>3. handles'[s] = [handles[s] EXCEPT ![h] = x] /\ \A z \in Sessions \ {s} : handles'[z] = handles[z]
  BY <1>1, <1>2
<1>4. [handles[s] EXCEPT ![h] = x] \in [Handles(s) -> Handle]
  BY <1>2
<1>5. \A g \in Handles(s) : handles'[s][g] = IF g = h THEN x ELSE handles[s][g]
  BY <1>2, <1>3
<1>6. QED
  BY <1>1, <1>2, <1>3, <1>4, <1>5

\* One lock is taken or given back.
LEMMA LockSet ==
  ASSUME Shape, NEW p \in Procs, NEW sh \in Locked, NEW x \in Threads \cup {NoThread},
         lock' = [lock EXCEPT ![p][sh] = x]
  PROVE  /\ lock' \in [Procs -> [Locked -> Threads \cup {NoThread}]]
         /\ \A q \in Procs, y \in Locked : lock'[q][y] = IF q = p /\ y = sh THEN x ELSE lock[q][y]
<1>1. lock \in [Procs -> [Locked -> Threads \cup {NoThread}]]
  BY DEF Shape
<1>2. QED
  BY <1>1

\* What a step of the trees does, as far as it matters to who reaches what:
\* a call is started, or a snapshot opened, or a handle closed, or a driver
\* entered, or left, or a snapshot counted, or a session found revoked.
LEMMA TreeStepIs ==
  ASSUME Shape, ReachInv, TreesNext
  PROVE  \/ \E t \in Threads : Started(t)
         \/ /\ UNCHANGED <<view, proc, lock, th>>
            /\ \/ UNCHANGED handles
               \/ \E s \in Sessions, x \in Handle :
                    /\ \E h : handles' = [handles EXCEPT ![s][h] = x]
                    /\ x = NoHandle \/ (x.share \in Shares /\ view[s][x.share] # "none" /\ x.file = "snapshot")
         \/ \E t \in Threads : Enter(t) \/ Leave(t)
         \/ \E t \in Threads :
              /\ UNCHANGED <<view, proc, lock, handles>> /\ th[t].at \in {"loaded", "over"}
              /\ th' = [th EXCEPT ![t] = Rest] \/ th' = [th EXCEPT ![t] = [th[t] EXCEPT !.at = "over"]]
<1>0. NoHandle \in Handle /\ NoHandle.file = "none" /\ \A t \in Threads : Owner[t] \in Sessions
  BY TreesAssumption DEF NoHandle, Handle
<1>1. ASSUME NEW t \in Threads, NEW sh \in Shares, OpenSnapshot(t, sh)
      PROVE  /\ UNCHANGED <<view, proc, lock, th>>
             /\ \E s \in Sessions, x \in Handle :
                    /\ \E h : handles' = [handles EXCEPT ![s][h] = x]
                    /\ x = NoHandle \/ (x.share \in Shares /\ view[s][x.share] # "none" /\ x.file = "snapshot")
  <2>1. PICK x : x = [share |-> sh, file |-> "snapshot"]
    OBVIOUS
  <2>2. x \in Handle /\ x.share = sh /\ x.file = "snapshot"
    BY <2>1 DEF Handle
  <2>3. \E h : handles' = [handles EXCEPT ![Owner[t]][h] = x]
    BY <1>1, <2>1 DEF OpenSnapshot
  <2>4. UNCHANGED <<view, proc, lock, th>> /\ view[Owner[t]][sh] # "none"
    BY <1>1 DEF OpenSnapshot, login, route
  <2>5. QED
    BY <1>0, <2>2, <2>3, <2>4
<1>2. ASSUME NEW t \in Threads, NEW h, release(t, h)
      PROVE  /\ UNCHANGED <<view, proc, lock, th>>
             /\ handles' = [handles EXCEPT ![Owner[t]][h] = NoHandle]
  BY <1>2 DEF release, login
<1>3. ASSUME NEW t \in Threads, bytes(t) \/ CountOff(t)
      PROVE  /\ UNCHANGED <<view, proc, lock, handles>> /\ th[t].at \in {"loaded", "over"}
             /\ th' = [th EXCEPT ![t] = Rest] \/ th' = [th EXCEPT ![t] = [th[t] EXCEPT !.at = "over"]]
  BY <1>3 DEF bytes, CountOff, login
<1>4. ASSUME NEW s \in Sessions, Revoked(s) PROVE UNCHANGED <<view, proc, lock, th, handles>>
  BY <1>4 DEF Revoked, login
<1>5. QED
  BY <1>0, <1>1, <1>2, <1>3, <1>4, StartsAllowed DEF TreesNext

\* No call of one session disturbs what another was given.
LEMMA TreesKeep ==
  ASSUME Shape, OffInv, ReachInv, LockInv, TreesNext, UNCHANGED <<config, who>>
  PROVE  (Shape /\ OffInv /\ ReachInv /\ LockInv)' /\ UNCHANGED <<view, proc>>
<1>0. /\ Rest \in Thread /\ Rest.at = "idle" /\ Rest.share = NoShare /\ NoHandle \in Handle /\ NoHandle.file = "none"
      /\ th \in [Threads -> Thread] /\ \A t \in Threads : Owner[t] \in Sessions /\ proc[Owner[t]] \in Procs
  BY TreesAssumption DEF Shape, Rest, Thread, NoHandle, Handle
<1>1. ASSUME NEW t \in Threads, Started(t)
      PROVE  (Shape /\ OffInv /\ ReachInv /\ LockInv)' /\ UNCHANGED <<view, proc>>
  <2>1. PICK op \in {"read", "write", "open", "sync", "close", "load", "size"}, sh \in Shares, h \in Nat :
          Calls(t, op, sh, h) /\ view[Owner[t]][sh] # "none"
    BY <1>1 DEF Started
  <2>2. PICK x \in Thread : /\ th' = [th EXCEPT ![t] = x] /\ x.at = "call" /\ x.share = sh
    <3>1. PICK x : x = [at |-> "call", op |-> op, share |-> sh, h |-> h]
      OBVIOUS
    <3>2. x \in Thread /\ x.at = "call" /\ x.share = sh
      BY <2>1, <3>1 DEF Thread
    <3>3. QED
      BY <2>1, <3>1, <3>2 DEF Calls
  <2>3. UNCHANGED <<view, proc, handles, lock>>
    BY <1>1 DEF Started
  <2>4. th' \in [Threads -> Thread] /\ th'[t] = x /\ \A u \in Threads \ {t} : th'[u] = th[u]
    BY <1>0, <2>2
  <2>5. Shape'
    BY <2>3, <2>4 DEF Shape
  <2>6. who[Owner[t]] # Nobody
    BY <1>0, <2>1 DEF OffInv
  <2>7. OffInv'
    BY <2>3, <2>4, <2>6 DEF OffInv
  <2>8. ReachInv'
    BY <2>1, <2>2, <2>3, <2>4 DEF ReachInv
  <2>9. LockInv'
    BY <2>2, <2>3, <2>4 DEF LockInv
  <2>10. QED
    BY <2>3, <2>5, <2>7, <2>8, <2>9
<1>2. ASSUME UNCHANGED <<view, proc, lock, th>>, UNCHANGED handles
      PROVE  (Shape /\ OffInv /\ ReachInv /\ LockInv)' /\ UNCHANGED <<view, proc>>
  BY <1>2 DEF Shape, OffInv, ReachInv, LockInv
<1>3. ASSUME UNCHANGED <<view, proc, lock, th>>, NEW s \in Sessions, NEW x \in Handle, NEW h,
             handles' = [handles EXCEPT ![s][h] = x],
             x = NoHandle \/ (x.share \in Shares /\ view[s][x.share] # "none" /\ x.file = "snapshot")
      PROVE  (Shape /\ OffInv /\ ReachInv /\ LockInv)' /\ UNCHANGED <<view, proc>>
  <2>1. /\ DOMAIN handles' = Sessions /\ \A z \in Sessions : handles'[z] \in [Handles(z) -> Handle]
        /\ \A z \in Sessions : \A g \in Handles(z) :
             handles'[z][g] = IF z = s /\ g = h THEN x ELSE handles[z][g]
    BY <1>3, HandlesSet
  <2>2. Shape' /\ LockInv'
    BY <1>3, <2>1 DEF Shape, LockInv
  <2>3. ReachInv'
    BY <1>0, <1>3, <2>1 DEF ReachInv
  <2>4. who[s] = Nobody => x = NoHandle
    BY <1>3 DEF OffInv
  <2>5. OffInv'
    BY <1>3, <2>1, <2>4 DEF OffInv
  <2>6. QED
    BY <1>3, <2>2, <2>3, <2>5
<1>4. ASSUME NEW t \in Threads, Enter(t)
      PROVE  (Shape /\ OffInv /\ ReachInv /\ LockInv)' /\ UNCHANGED <<view, proc>>
  <2>1. PICK x : x = [at |-> "in", op |-> inside(th[t].op),
                      share |-> th[t].share, h |-> th[t].h]
    OBVIOUS
  <2>2. th' = [th EXCEPT ![t] = x] /\ th[t].at = "call" /\ UNCHANGED <<view, proc, handles>>
    BY <1>0, <1>4, <2>1 DEF Enter, login
  <2>3. th[t] \in Thread
    BY <1>0
  <2>4. x \in Thread /\ x.at = "in" /\ x.share = th[t].share
    BY <2>1, <2>3 DEF Thread, inside
  <2>5. th' \in [Threads -> Thread] /\ th'[t] = x /\ \A u \in Threads \ {t} : th'[u] = th[u]
    BY <1>0, <2>2, <2>4
  <2>6. th[t].share \in Shares /\ view[Owner[t]][th[t].share] # "none" /\ th[t] # Rest
    BY <1>0, <2>2 DEF ReachInv
  <2>7. who[Owner[t]] # Nobody
    BY <1>0, <2>6 DEF OffInv
  <2>8. OffInv'
    BY <2>2, <2>5, <2>7 DEF OffInv
  <2>9. ReachInv'
    BY <2>2, <2>4, <2>5, <2>6 DEF ReachInv
  <2>10. CASE th[t].share \in Locked
    <3>1. lock[proc[Owner[t]]][th[t].share] = NoThread /\ lock' = [lock EXCEPT ![proc[Owner[t]]][th[t].share] = t]
      BY <1>4, <2>10 DEF Enter, mustLock
    <3>2. /\ lock' \in [Procs -> [Locked -> Threads \cup {NoThread}]]
          /\ \A q \in Procs, y \in Locked :
               lock'[q][y] = IF q = proc[Owner[t]] /\ y = th[t].share THEN t ELSE lock[q][y]
      BY <1>0, <2>10, <3>1, LockSet
    <3>3. Shape'
      BY <2>2, <2>5, <3>2 DEF Shape
    <3>4. LockInv'
      BY <1>0, <2>2, <2>4, <2>5, <3>1, <3>2, TreesAssumption DEF LockInv, NoThread
    <3>5. QED
      BY <2>2, <2>8, <2>9, <3>3, <3>4
  <2>11. CASE th[t].share \notin Locked
    <3>1. UNCHANGED lock
      BY <1>4, <2>11 DEF Enter, mustLock
    <3>2. QED
      BY <2>2, <2>4, <2>5, <2>8, <2>9, <2>11, <3>1 DEF Shape, LockInv
  <2>12. QED
    BY <2>10, <2>11
<1>5. ASSUME NEW t \in Threads, Leave(t)
      PROVE  (Shape /\ OffInv /\ ReachInv /\ LockInv)' /\ UNCHANGED <<view, proc>>
  <2>1. th[t].at = "in" /\ UNCHANGED <<view, proc>>
    BY <1>5 DEF Leave, login
  <2>2. th[t].share \in Shares /\ view[Owner[t]][th[t].share] # "none" /\ th[t] # Rest
    BY <1>0, <2>1 DEF ReachInv
  <2>3. who[Owner[t]] # Nobody
    BY <1>0, <2>2 DEF OffInv
  <2>4. PICK x \in Thread : /\ th' = [th EXCEPT ![t] = x]
                            /\ x = Rest \/ (x.at = "loaded" /\ x.share = th[t].share)
    <3>1. th[t] \in Thread
      BY <1>0
    <3>2. CASE th' = [th EXCEPT ![t] = Rest]
      BY <1>0, <3>2
    <3>3. CASE th' = [th EXCEPT ![t].at = "loaded"]
      <4>1. PICK x : x = [th[t] EXCEPT !.at = "loaded"]
        OBVIOUS
      <4>2. x \in Thread /\ x.at = "loaded" /\ x.share = th[t].share
        BY <3>1, <4>1 DEF Thread
      <4>3. QED
        BY <3>3, <4>1, <4>2
    <3>4. QED
      BY <1>5, <3>2, <3>3 DEF Leave
  <2>5. th' \in [Threads -> Thread] /\ th'[t] = x /\ x.at # "in" /\ \A u \in Threads \ {t} : th'[u] = th[u]
    BY <1>0, <2>4
  <2>6. \/ UNCHANGED handles
        \/ \E y \in Handle : /\ \E h : handles' = [handles EXCEPT ![Owner[t]][h] = y]
                             /\ \/ y = NoHandle
                                \/ /\ y.share = th[t].share
                                   /\ y.file = "writable" => view[Owner[t]][th[t].share] = "write"
    <3>1. opened(Owner[t], th[t].share) \in Handle
      BY <2>2 DEF opened, Handle
    <3>2. /\ opened(Owner[t], th[t].share).share = th[t].share
          /\ opened(Owner[t], th[t].share).file = "writable" => view[Owner[t]][th[t].share] = "write"
      BY DEF opened
    <3>3. PICK y : y = opened(Owner[t], th[t].share)
      OBVIOUS
    <3>4. \/ UNCHANGED handles
          \/ handles' = [handles EXCEPT ![Owner[t]][th[t].h] = y]
          \/ handles' = [handles EXCEPT ![Owner[t]][th[t].h] = NoHandle]
      BY <1>5, <3>3 DEF Leave
    <3>5. QED
      BY <1>0, <3>1, <3>2, <3>3, <3>4
  <2>7. /\ DOMAIN handles' = Sessions /\ \A z \in Sessions : handles'[z] \in [Handles(z) -> Handle]
        /\ \A z \in Sessions : \A g \in Handles(z) :
             \/ handles'[z][g] = handles[z][g] \/ handles'[z][g] = NoHandle
             \/ /\ z = Owner[t] /\ handles'[z][g].share = th[t].share
                /\ handles'[z][g].file = "writable" => view[z][th[t].share] = "write"
    <3>1. CASE UNCHANGED handles
      BY <3>1 DEF Shape
    <3>2. ASSUME NEW y \in Handle, NEW h, handles' = [handles EXCEPT ![Owner[t]][h] = y],
                 \/ y = NoHandle
                 \/ y.share = th[t].share /\ (y.file = "writable" => view[Owner[t]][th[t].share] = "write")
          PROVE  /\ DOMAIN handles' = Sessions /\ \A z \in Sessions : handles'[z] \in [Handles(z) -> Handle]
                 /\ \A z \in Sessions : \A g \in Handles(z) :
                      \/ handles'[z][g] = handles[z][g] \/ handles'[z][g] = NoHandle
                      \/ /\ z = Owner[t] /\ handles'[z][g].share = th[t].share
                         /\ handles'[z][g].file = "writable" => view[z][th[t].share] = "write"
      <4>1. /\ DOMAIN handles' = Sessions /\ \A z \in Sessions : handles'[z] \in [Handles(z) -> Handle]
            /\ \A z \in Sessions : \A g \in Handles(z) :
                 handles'[z][g] = IF z = Owner[t] /\ g = h THEN y ELSE handles[z][g]
        <5>1. PICK z0 \in Sessions : z0 = Owner[t]
          BY <1>0
        <5>2. handles' = [handles EXCEPT ![z0][h] = y]
          BY <3>2, <5>1
        <5>3. /\ DOMAIN handles' = Sessions /\ \A z \in Sessions : handles'[z] \in [Handles(z) -> Handle]
              /\ \A z \in Sessions : \A g \in Handles(z) :
                   handles'[z][g] = IF z = z0 /\ g = h THEN y ELSE handles[z][g]
          BY <5>2, HandlesSet
        <5>4. QED
          BY ONLY <5>1, <5>3
      <4>2. QED
        BY <3>2, <4>1
    <3>3. QED
      BY <2>6, <3>1, <3>2
  <2>8. OffInv'
    BY <2>1, <2>3, <2>5, <2>7 DEF OffInv
  <2>9. ReachInv'
    BY <1>0, <2>1, <2>2, <2>4, <2>5, <2>7 DEF ReachInv
  <2>10. CASE th[t].share \in Locked
    <3>1. lock' = [lock EXCEPT ![proc[Owner[t]]][th[t].share] = NoThread]
      BY <1>5, <2>10 DEF Leave, mustLock
    <3>2. /\ lock' \in [Procs -> [Locked -> Threads \cup {NoThread}]]
          /\ \A q \in Procs, y \in Locked :
               lock'[q][y] = IF q = proc[Owner[t]] /\ y = th[t].share THEN NoThread ELSE lock[q][y]
      BY <1>0, <2>10, <3>1, LockSet
    <3>3. Shape'
      BY <2>1, <2>5, <2>7, <3>2 DEF Shape
    <3>4. LockInv'
      BY <1>0, <2>1, <2>5, <2>10, <3>2 DEF LockInv
    <3>5. QED
      BY <2>1, <2>8, <2>9, <3>3, <3>4
  <2>11. CASE th[t].share \notin Locked
    <3>1. UNCHANGED lock
      BY <1>5, <2>11 DEF Leave, mustLock
    <3>2. QED
      BY <2>1, <2>5, <2>7, <2>8, <2>9, <3>1 DEF Shape, LockInv
  <2>12. QED
    BY <2>10, <2>11
<1>6. ASSUME NEW t \in Threads, UNCHANGED <<view, proc, lock, handles>>, th[t].at \in {"loaded", "over"},
             th' = [th EXCEPT ![t] = Rest] \/ th' = [th EXCEPT ![t] = [th[t] EXCEPT !.at = "over"]]
      PROVE  (Shape /\ OffInv /\ ReachInv /\ LockInv)' /\ UNCHANGED <<view, proc>>
  <2>1. th[t].share \in Shares /\ view[Owner[t]][th[t].share] # "none" /\ th[t] # Rest
    BY <1>0, <1>6 DEF ReachInv
  <2>2. PICK x \in Thread : /\ th' = [th EXCEPT ![t] = x]
                            /\ x = Rest \/ (x.at = "over" /\ x.share = th[t].share)
    <3>1. th[t] \in Thread
      BY <1>0
    <3>2. PICK x : x = [th[t] EXCEPT !.at = "over"]
      OBVIOUS
    <3>3. x \in Thread /\ x.at = "over" /\ x.share = th[t].share
      BY <3>1, <3>2 DEF Thread
    <3>4. QED
      BY <1>0, <1>6, <3>2, <3>3
  <2>3. th' \in [Threads -> Thread] /\ th'[t] = x /\ x.at # "in" /\ \A u \in Threads \ {t} : th'[u] = th[u]
    BY <1>0, <2>2
  <2>4. who[Owner[t]] # Nobody
    BY <1>0, <2>1 DEF OffInv
  <2>5. QED
    BY <1>0, <1>6, <2>1, <2>2, <2>3, <2>4 DEF Shape, OffInv, ReachInv, LockInv
<1>7. QED
  BY <1>1, <1>2, <1>3, <1>4, <1>5, <1>6, TreeStepIs
-----------------------------------------------------------------------------
(***************************************************************************)
(* Who is let in, and what they are given.                                 *)
(***************************************************************************)

\* Whether a credential is the word of the provider, and whether the name it
\* proves is a name of this server's.
Theirs(cred) == cred.type \in {"token", "provider", "opkssh", "client"}
Ours(cred) ==
  \/ cred.type \in {"password", "key", "local", "client"}
  \/ cred.type = "ticket" /\ cred.realm = "ours"
  \/ Theirs(cred) /\ config.localNames

\* p is the principal that stands for the owner of a credential.
Speaks(p, cred) ==
  \/ p = local(cred.name) /\ Ours(cred) /\ ~Theirs(cred) /\ cred.type # "none"
  \/ /\ \E ln : p = Federated(cred, ln) /\ (ln <=> Ours(cred))
     /\ Theirs(cred) /\ cred.type # "none"

\* The configuration of a process, next to the whole one.
LEMMA ProcessIs ==
  ASSUME NEW c \in Configs, NEW proto
  PROVE  LET cfg == Process(c, proto)
         IN /\ DOMAIN cfg.shares \subseteq DOMAIN c.shares /\ \A sh \in DOMAIN cfg.shares : cfg.shares[sh] = c.shares[sh]
            /\ cfg.people = c.people /\ cfg.holds = c.holds /\ cfg.declares = c.declares
            /\ cfg.kerberos = c.kerberos /\ (cfg.nfsCert => c.nfsCert)
            /\ cfg.oidc = c.oidc /\ cfg.localNames = c.localNames /\ cfg.trustAll = c.trustAll
            /\ cfg.domains = c.domains /\ cfg.sshDomains = c.sshDomains
            /\ cfg.acceptUngranted = c.acceptUngranted
            /\ cfg.identity = c.identity /\ cfg.entries = c.entries
            /\ exports(cfg, proto) \subseteq exports(c, proto)
<1>1. CASE ~c.isolate
  BY <1>1 DEF Process
<1>2. CASE c.isolate
  <2>1. PICK xs : xs = exports(c, proto)
    OBVIOUS
  <2>2. PICK cfg : cfg = [c EXCEPT !.serves = {proto}, !.nfsCert = FALSE, !.shares = [sh \in xs |-> c.shares[sh]]]
    OBVIOUS
  <2>3. Process(c, proto) = cfg
    BY <1>2, <2>1, <2>2 DEF Process, childOf
  <2>4. DOMAIN c = ConfigFields
    BY ConfigsAssumption
  <2>5. cfg.shares = [sh \in xs |-> c.shares[sh]] /\ cfg.nfsCert = FALSE
    BY <2>2, <2>4 DEF ConfigFields
  <2>6. \A f \in ConfigFields \ {"serves", "nfsCert", "shares"} : cfg[f] = c[f]
    BY <2>2, <2>4 DEF ConfigFields
  <2>7. xs \subseteq DOMAIN c.shares
    BY <2>1 DEF exports
  <2>8. cfg.kerberos = c.kerberos
    BY <2>6 DEF ConfigFields
  <2>9. exports(cfg, proto) \subseteq exports(c, proto)
    BY <2>5, <2>7, <2>8 DEF exports, canAuthenticate
  <2>10. QED
    BY <2>3, <2>5, <2>6, <2>7, <2>9 DEF ConfigFields
<1>3. QED
  BY <1>1, <1>2

\* The lists of a block ask of a principal what they say of its credential.
LEMMA ListsAgree ==
  ASSUME NEW p, NEW cred, Speaks(p, cred), NEW list,
         \A e \in list : e.kind = "name" \/ (e.kind \in {"user", "groups", "domain"} /\ e.value # "")
  PROVE  /\ (byName(p) /\ p.name \in names(list)) \/ matches(p, claims(list)) <=> \E e \in list : About(e, cred)
         /\ matches(p, claims(list)) => \E e \in list : e.kind # "name" /\ About(e, cred)
<1>1. p.name = cred.name /\ (byName(p) <=> Ours(cred)) /\ (p.federated <=> Theirs(cred))
      /\ (p.federated => p.groups = cred.groups)
  <2>1. CASE p = local(cred.name) /\ Ours(cred) /\ ~Theirs(cred)
    <3>1. p.name = cred.name /\ p.federated = FALSE
      BY <2>1 DEF local
    <3>2. QED
      BY <2>1, <3>1 DEF byName
  <2>2. CASE (\E ln : p = Federated(cred, ln) /\ (ln <=> Ours(cred))) /\ Theirs(cred)
    <3>1. PICK ln : p = Federated(cred, ln) /\ (ln <=> Ours(cred))
      BY <2>2
    <3>2. p.name = cred.name /\ p.federated = TRUE /\ p.localName = ln /\ p.groups = cred.groups
      BY <3>1 DEF Federated
    <3>3. QED
      BY <2>2, <3>1, <3>2 DEF byName
  <2>3. QED
    BY <2>1, <2>2 DEF Speaks
<1>2. ASSUME NEW e \in list
      PROVE  /\ e.kind = "name" => (About(e, cred) <=> Ours(cred) /\ e.value = cred.name)
             /\ e.kind = "user" => (About(e, cred) <=> Theirs(cred) /\ e.value = cred.name)
             /\ e.kind = "groups" => (About(e, cred) <=> Theirs(cred) /\ e.value \in cred.groups)
             /\ e.kind = "domain" => (About(e, cred) <=> Theirs(cred) /\ e.value = Scope[cred.name])
  BY DEF About, Ours, Theirs
<1>3. p.name \in names(list) <=> \E e \in list : e.kind = "name" /\ e.value = cred.name
  BY <1>1 DEF names
<1> DEFINE Named == \E e \in list : \/ e.kind = "user" /\ e.value = cred.name
                                    \/ e.kind = "groups" /\ e.value \in cred.groups
                                    \/ e.kind = "domain" /\ e.value = Scope[cred.name]
<1>4. matches(p, claims(list)) <=> Theirs(cred) /\ Named
  <2>1. matches(p, claims(list)) => Theirs(cred) /\ Named
    BY <1>1 DEF matches, claims
  <2>2. Theirs(cred) /\ Named => matches(p, claims(list))
    BY <1>1 DEF matches, claims
  <2>3. QED
    BY <2>1, <2>2
<1>5. QED
  BY <1>1, <1>2, <1>3, <1>4

LEMMA BlocksAgree ==
  ASSUME config \in Configs, NEW sh \in DOMAIN config.shares, NEW p, NEW cred, Speaks(p, cred)
  PROVE  LET b == config.shares[sh]
         IN /\ mayUse(b, p) <=> On(b.allow, cred)
            /\ readOnlyFor(b, p) <=> b.readOnly \/ ~On(b.writers, cred)
<1>1. PICK b : b = config.shares[sh]
  OBVIOUS
<1>2. /\ \A e \in b.allow : e.kind = "name" \/ (e.kind \in {"user", "groups", "domain"} /\ e.value # "")
      /\ \A e \in b.writers : e.kind = "name" \/ (e.kind \in {"user", "groups", "domain"} /\ e.value # "")
  BY <1>1, ConfigsAssumption
<1>3. (byName(p) /\ p.name \in names(b.allow)) \/ matches(p, claims(b.allow)) <=> \E e \in b.allow : About(e, cred)
  BY <1>2, ListsAgree
<1>4. (byName(p) /\ p.name \in names(b.writers)) \/ matches(p, claims(b.writers)) <=> \E e \in b.writers : About(e, cred)
  BY <1>2, ListsAgree
<1>5. mayUse(b, p) <=> On(b.allow, cred)
  BY <1>3 DEF mayUse, allowsAnyone, On
<1>6. readOnlyFor(b, p) <=> b.readOnly \/ ~On(b.writers, cred)
  BY <1>4 DEF readOnlyFor, anyAllowedWrites, On
<1>7. QED
  BY <1>1, <1>5, <1>6

\* Nobody is a principal without a credential, except where nobody is asked:
\* a server that knows of no people, and an NFS call of nobody's.
LEMMA Speakers ==
  ASSUME config \in Configs, NEW proto, NEW cred, NEW p, NEW v, NEW cfg, cfg = Process(config, proto),
         Given(cfg, proto, cred, p, v)
  PROVE  /\ proto \in {"smb", "sftp", "s3"} => Speaks(p, cred)
         /\ proto = "webdav" => Speaks(p, cred) \/ (p = Anonymous /\ ~config.declares /\ ~config.oidc)
         /\ proto = "nfs" => /\ \A q \in nfsPrincipals(cfg, cred) : Speaks(q, cred) /\ q = p
                             /\ nfsPrincipals(cfg, cred) = {} => p = Anonymous
<1>1. cfg.localNames = config.localNames /\ cfg.declares = config.declares /\ cfg.oidc = config.oidc
  BY ProcessIs
<1>2. ASSUME cred.type \in {"password", "key", "local"} PROVE Speaks(local(cred.name), cred)
  BY <1>2 DEF Speaks, Ours, Theirs
<1>3. ASSUME cred.type \in {"token", "provider", "opkssh"} PROVE Speaks(Federated(cred, cfg.localNames), cred)
  <2>1. Theirs(cred) /\ cred.type # "none" /\ (cfg.localNames <=> Ours(cred))
    BY <1>1, <1>3 DEF Ours, Theirs
  <2>2. QED
    BY <2>1 DEF Speaks
<1>4. CASE proto = "smb"
  BY <1>2, <1>4 DEF Given, ntlm
<1>5. CASE proto = "webdav"
  BY <1>1, <1>2, <1>3, <1>5 DEF Given, authenticated, bearer
<1>6. CASE proto = "sftp"
  <2>1. p \in sshLogin(cfg, cred)
    BY <1>6 DEF Given
  <2>2. \/ p = local(cred.name) /\ cred.type \in {"key", "local"}
        \/ p = Federated(cred, cfg.localNames) /\ cred.type \in {"provider", "opkssh"}
    BY <2>1 DEF sshLogin
  <2>3. QED
    BY <1>2, <1>3, <1>6, <2>2
<1>7. CASE proto = "s3"
  BY <1>2, <1>7 DEF Given, forUser, s3Secret
<1>8. CASE proto = "nfs"
  <2>1. p \in IF nfsPrincipals(cfg, cred) = {} THEN {Anonymous} ELSE nfsPrincipals(cfg, cred)
    BY <1>8 DEF Given
  <2>2. ASSUME NEW q \in nfsPrincipals(cfg, cred)
        PROVE  \/ q = local(cred.name) /\ cred.type = "ticket" /\ cred.realm = "ours"
               \/ q = Federated(cred, TRUE) /\ cred.type = "client"
    BY <2>2 DEF nfsPrincipals, userOf
  <2>3. ASSUME NEW q \in nfsPrincipals(cfg, cred) PROVE Speaks(q, cred)
    <3>1. CASE q = local(cred.name) /\ cred.type = "ticket" /\ cred.realm = "ours"
      BY <3>1 DEF Speaks, Ours, Theirs
    <3>2. CASE q = Federated(cred, TRUE) /\ cred.type = "client"
      <4>1. Theirs(cred) /\ cred.type # "none" /\ (TRUE <=> Ours(cred))
        BY <3>2 DEF Ours, Theirs
      <4>2. QED
        BY <3>2, <4>1 DEF Speaks
    <3>3. QED
      BY <2>2, <3>1, <3>2
  <2>4. ASSUME NEW q \in nfsPrincipals(cfg, cred) PROVE q = p
    BY <2>1, <2>2
  <2>5. QED
    BY <1>8, <2>1, <2>3, <2>4
<1>9. QED
  BY <1>4, <1>5, <1>6, <1>7, <1>8

\* Who reaches a share through a view, and how far, for a credential.
Answers(cfg, proto, cred, p, v) ==
  /\ DOMAIN v = DOMAIN cfg.shares
  /\ \A sh \in DOMAIN cfg.shares :
       LET b == config.shares[sh]
       IN /\ v[sh] \in Views
          /\ v[sh] # "none" => /\ sh \in exports(cfg, proto) /\ On(b.allow, cred)
                               /\ restricted(b) => cred.type # "none"
          /\ v[sh] = "write" => ~b.readOnly /\ On(b.writers, cred)
          /\ /\ sh \in exports(cfg, proto) /\ On(b.allow, cred) /\ (b.system => workerOf(cfg, p) # {})
             /\ ~(restricted(b) /\ p = Anonymous)
             => v[sh] = IF b.readOnly \/ ~On(b.writers, cred) \/ proto = "s3" THEN "read" ELSE "write"

\* SFTP and WebDAV, with a principal.
LEMMA TreeAnswers ==
  ASSUME config \in Configs, NEW proto, NEW cred, NEW p, NEW v, NEW cfg, cfg = Process(config, proto),
         proto # "s3", Speaks(p, cred), v = treeView(cfg, proto, p)
  PROVE  Answers(cfg, proto, cred, p, v)
<1>1. DOMAIN cfg.shares \subseteq DOMAIN config.shares /\ \A sh \in DOMAIN cfg.shares : cfg.shares[sh] = config.shares[sh]
  BY ProcessIs
<1>2. DOMAIN v = DOMAIN cfg.shares
  BY DEF treeView
<1>3. cred.type # "none"
  BY DEF Speaks
<1>4. ASSUME NEW sh \in DOMAIN cfg.shares, NEW b, b = config.shares[sh]
      PROVE  /\ v[sh] \in Views
             /\ v[sh] # "none" => /\ sh \in exports(cfg, proto) /\ On(b.allow, cred)
             /\ v[sh] = "write" => ~b.readOnly /\ On(b.writers, cred)
             /\ /\ sh \in exports(cfg, proto) /\ On(b.allow, cred) /\ (b.system => workerOf(cfg, p) # {})
                => v[sh] = IF b.readOnly \/ ~On(b.writers, cred) THEN "read" ELSE "write"
  <2>1. (mayUse(b, p) <=> On(b.allow, cred)) /\ (readOnlyFor(b, p) <=> b.readOnly \/ ~On(b.writers, cred))
    BY <1>1, <1>4, BlocksAgree
  <2>2. v[sh] = Grade(sh \in exports(cfg, proto) /\ mayUse(b, p) /\ (b.system => workerOf(cfg, p) # {}),
                      ~readOnlyFor(b, p))
    BY <1>1, <1>4 DEF treeView
  <2>3. QED
    BY <2>1, <2>2 DEF Grade, Views
<1>5. QED
  BY <1>2, <1>3, <1>4 DEF Answers

\* Where nobody is declared and no provider trusted, no list names anybody.
LEMMA NobodyIsNamed ==
  ASSUME NEW c \in Configs, serve(c), ~c.declares, ~c.oidc, NEW sh \in DOMAIN c.shares
  PROVE  /\ c.shares[sh].allow = {} /\ c.shares[sh].writers = {} /\ ~restricted(c.shares[sh])
         /\ ~c.shares[sh].system
<1>1. PICK b : b = c.shares[sh]
  OBVIOUS
<1>2. names(b.allow) \cup names(b.writers) = {} /\ claims(b.allow) \cup claims(b.writers) = {}
  BY <1>1, ConfigsAssumption DEF serve, resolve
<1>3. ASSUME NEW list, names(list) = {}, claims(list) = {} PROVE list = {}
  BY <1>3 DEF names, claims
<1>4. b.allow = {} /\ b.writers = {}
  BY <1>2, <1>3
<1>5. b.system => c.declares
  BY <1>1 DEF serve, check, checkShareIdentity
<1>6. QED
  BY <1>1, <1>4, <1>5 DEF restricted, allowsAnyone, anyAllowedWrites

LEMMA OpenAnswers ==
  ASSUME config \in Configs, serve(config), NEW cred, NEW v, NEW cfg, cfg = Process(config, "webdav"),
         ~config.declares, ~config.oidc, v = treeView(cfg, "webdav", Anonymous)
  PROVE  Answers(cfg, "webdav", cred, Anonymous, v)
<1>1. DOMAIN cfg.shares \subseteq DOMAIN config.shares /\ \A sh \in DOMAIN cfg.shares : cfg.shares[sh] = config.shares[sh]
  BY ProcessIs
<1>2. DOMAIN v = DOMAIN cfg.shares
  BY DEF treeView
<1>3. ASSUME NEW sh \in DOMAIN cfg.shares, NEW b, b = config.shares[sh]
      PROVE  /\ v[sh] \in Views
             /\ v[sh] # "none" => /\ sh \in exports(cfg, "webdav") /\ On(b.allow, cred)
                                  /\ restricted(b) => cred.type # "none"
             /\ v[sh] = "write" => ~b.readOnly /\ On(b.writers, cred)
             /\ sh \in exports(cfg, "webdav") => v[sh] = IF b.readOnly \/ ~On(b.writers, cred) THEN "read" ELSE "write"
  <2>1. b.allow = {} /\ b.writers = {} /\ ~restricted(b) /\ ~b.system
    BY <1>1, <1>3, NobodyIsNamed
  <2>2. On(b.allow, cred) /\ On(b.writers, cred) /\ mayUse(b, Anonymous) /\ (readOnlyFor(b, Anonymous) <=> b.readOnly)
    BY <2>1 DEF On, mayUse, allowsAnyone, readOnlyFor, anyAllowedWrites
  <2>3. v[sh] = Grade(sh \in exports(cfg, "webdav") /\ mayUse(b, Anonymous) /\ (b.system => workerOf(cfg, Anonymous) # {}),
                      ~readOnlyFor(b, Anonymous))
    BY <1>1, <1>3 DEF treeView
  <2>4. QED
    BY <2>1, <2>2, <2>3 DEF Grade, Views
<1>4. QED
  BY <1>2, <1>3 DEF Answers

LEMMA S3Answers ==
  ASSUME config \in Configs, NEW cred, NEW p, NEW v, NEW cfg, cfg = Process(config, "s3"),
         Speaks(p, cred), v = s3View(cfg, p)
  PROVE  Answers(cfg, "s3", cred, p, v)
<1>1. DOMAIN cfg.shares \subseteq DOMAIN config.shares /\ \A sh \in DOMAIN cfg.shares : cfg.shares[sh] = config.shares[sh]
  BY ProcessIs
<1>2. DOMAIN v = DOMAIN cfg.shares
  BY DEF s3View
<1>3. cred.type # "none"
  BY DEF Speaks
<1>4. ASSUME NEW sh \in DOMAIN cfg.shares, NEW b, b = config.shares[sh]
      PROVE  /\ v[sh] \in Views /\ v[sh] # "write"
             /\ v[sh] # "none" => /\ sh \in exports(cfg, "s3") /\ On(b.allow, cred)
             /\ /\ sh \in exports(cfg, "s3") /\ On(b.allow, cred) /\ (b.system => workerOf(cfg, p) # {})
                => v[sh] = "read"
  <2>1. mayUse(b, p) <=> On(b.allow, cred)
    BY <1>1, <1>4, BlocksAgree
  <2>2. treeView(cfg, "s3", p)[sh] =
          Grade(sh \in exports(cfg, "s3") /\ mayUse(b, p) /\ (b.system => workerOf(cfg, p) # {}), ~readOnlyFor(b, p))
    BY <1>1, <1>4 DEF treeView
  <2>3. v[sh] = Grade(treeView(cfg, "s3", p)[sh] # "none", FALSE)
    BY <1>4 DEF s3View
  <2>4. QED
    BY <2>1, <2>2, <2>3 DEF Grade, Views
<1>5. QED
  BY <1>2, <1>3, <1>4 DEF Answers

\* SMB asks the names of the lists only: no rule of a provider's matches
\* anybody who came with a password.
LEMMA SmbAnswers ==
  ASSUME config \in Configs, NEW cred, NEW p, NEW v, NEW cfg, cfg = Process(config, "smb"),
         Speaks(p, cred), p = local(cred.name), v = smbView(cfg, p)
  PROVE  Answers(cfg, "smb", cred, p, v)
<1>1. DOMAIN cfg.shares \subseteq DOMAIN config.shares /\ \A sh \in DOMAIN cfg.shares : cfg.shares[sh] = config.shares[sh]
  BY ProcessIs
<1>2. DOMAIN v = DOMAIN cfg.shares
  BY DEF smbView
<1>3. cred.type # "none"
  BY DEF Speaks
<1>4. byName(p) /\ \A rules : ~matches(p, rules)
  BY DEF local, byName, matches
<1>5. ASSUME NEW sh \in DOMAIN cfg.shares, NEW b, b = config.shares[sh]
      PROVE  /\ v[sh] \in Views
             /\ v[sh] # "none" => /\ sh \in exports(cfg, "smb") /\ On(b.allow, cred)
             /\ v[sh] = "write" => ~b.readOnly /\ On(b.writers, cred)
             /\ sh \in exports(cfg, "smb") /\ On(b.allow, cred) =>
                  v[sh] = IF b.readOnly \/ ~On(b.writers, cred) THEN "read" ELSE "write"
  <2>1. (mayUse(b, p) <=> On(b.allow, cred)) /\ (readOnlyFor(b, p) <=> b.readOnly \/ ~On(b.writers, cred))
    BY <1>1, <1>5, BlocksAgree
  <2>2. b.allow = {} => names(b.allow) = {}
    BY DEF names
  <2>3. sh \in smbShares(cfg) /\ AllowUsers(names(b.allow), p.name) <=> sh \in exports(cfg, "smb") /\ mayUse(b, p)
    BY <1>1, <1>4, <1>5, <2>2 DEF smbShares, AllowUsers, mayUse, allowsAnyone
  <2>4. ~readOnlyFor(b, p) <=>
          ~b.readOnly /\ (~anyAllowedWrites(b) => names(b.writers) # {} /\ AllowUsers(names(b.writers), p.name))
    BY <1>4 DEF readOnlyFor, AllowUsers
  <2>5. v[sh] = Grade(sh \in smbShares(cfg) /\ AllowUsers(names(b.allow), p.name),
                      ~b.readOnly /\ (~anyAllowedWrites(b) => names(b.writers) # {} /\ AllowUsers(names(b.writers), p.name)))
    BY <1>1, <1>5 DEF smbView
  <2>6. QED
    BY <2>1, <2>3, <2>4, <2>5 DEF Grade, Views
<1>6. QED
  BY <1>2, <1>3, <1>5 DEF Answers

\* NFS asks its gate about a share that names people, and serves any other
\* to whoever calls.
LEMMA NfsAnswers ==
  ASSUME config \in Configs, NEW cred, NEW p, NEW v, NEW cfg, cfg = Process(config, "nfs"),
         \A q \in nfsPrincipals(cfg, cred) : Speaks(q, cred) /\ q = p,
         nfsPrincipals(cfg, cred) = {} => p = Anonymous, v = nfsView(cfg, cred)
  PROVE  Answers(cfg, "nfs", cred, p, v)
<1>1. DOMAIN cfg.shares \subseteq DOMAIN config.shares /\ \A sh \in DOMAIN cfg.shares : cfg.shares[sh] = config.shares[sh]
  BY ProcessIs
<1>2. DOMAIN v = DOMAIN cfg.shares
  BY DEF nfsView
<1>3. PICK ps : ps = nfsPrincipals(cfg, cred)
  OBVIOUS
<1>4. ASSUME NEW sh \in DOMAIN cfg.shares, NEW b, b = config.shares[sh]
      PROVE  /\ v[sh] \in Views
             /\ v[sh] # "none" => /\ sh \in exports(cfg, "nfs") /\ On(b.allow, cred)
                                  /\ restricted(b) => cred.type # "none"
             /\ v[sh] = "write" => ~b.readOnly /\ On(b.writers, cred)
             /\ sh \in exports(cfg, "nfs") /\ On(b.allow, cred) /\ ~(restricted(b) /\ p = Anonymous) =>
                  v[sh] = IF b.readOnly \/ ~On(b.writers, cred) THEN "read" ELSE "write"
  <2>1. v[sh] = Grade(sh \in exports(cfg, "nfs") /\ (gated(cfg, b) => \E q \in ps : mayUse(b, q)),
                      nfsWritable(cfg, b) /\ (gated(cfg, b) => \E q \in ps : mayUse(b, q) /\ ~readOnlyFor(b, q)))
    BY <1>1, <1>3, <1>4 DEF nfsView
  <2>2. sh \in exports(cfg, "nfs") => (gated(cfg, b) <=> restricted(b))
    BY <1>1, <1>4 DEF exports, gated, canAuthenticate
  <2>3. CASE ~restricted(b)
    <3>1. On(b.allow, cred) /\ On(b.writers, cred) /\ ~gated(cfg, b)
      BY <2>3 DEF restricted, allowsAnyone, anyAllowedWrites, On, gated
    <3>2. nfsWritable(cfg, b) <=> ~b.readOnly
      BY <2>3, <3>1 DEF nfsWritable, anyoneWrites
    <3>3. QED
      BY <2>1, <2>3, <3>1, <3>2 DEF Grade, Views
  <2>4. CASE restricted(b) /\ sh \in exports(cfg, "nfs")
    <3>1. gated(cfg, b) /\ (nfsWritable(cfg, b) <=> ~b.readOnly)
      BY <2>2, <2>4 DEF nfsWritable, anyoneWrites
    <3>2. CASE ps = {}
      BY <1>3, <2>1, <2>4, <3>1, <3>2 DEF Grade, Views
    <3>3. CASE ps # {}
      <4>1. ps = {p} /\ Speaks(p, cred) /\ cred.type # "none"
        BY <1>3, <3>3 DEF Speaks
      <4>2. (mayUse(b, p) <=> On(b.allow, cred)) /\ (readOnlyFor(b, p) <=> b.readOnly \/ ~On(b.writers, cred))
        BY <1>1, <1>4, <4>1, BlocksAgree
      <4>3. QED
        BY <2>1, <2>4, <3>1, <4>1, <4>2 DEF Grade, Views
    <3>4. QED
      BY <3>2, <3>3
  <2>5. CASE sh \notin exports(cfg, "nfs")
    BY <2>1, <2>5 DEF Grade, Views
  <2>6. QED
    BY <2>3, <2>4, <2>5
<1>5. QED
  BY <1>2, <1>4 DEF Answers

\* The five protocols together.
LEMMA Answered ==
  ASSUME config \in Configs, serve(config), NEW proto, NEW cred, NEW p, NEW v, NEW cfg, cfg = Process(config, proto),
         Given(cfg, proto, cred, p, v)
  PROVE  Answers(cfg, proto, cred, p, v)
<1>1. /\ proto \in {"smb", "sftp", "s3"} => Speaks(p, cred)
      /\ proto = "webdav" => Speaks(p, cred) \/ (p = Anonymous /\ ~config.declares /\ ~config.oidc)
      /\ proto = "nfs" => /\ \A q \in nfsPrincipals(cfg, cred) : Speaks(q, cred) /\ q = p
                          /\ nfsPrincipals(cfg, cred) = {} => p = Anonymous
  BY Speakers
<1>2. CASE proto = "smb"
  <2>1. p = local(cred.name) /\ v = smbView(cfg, p)
    BY <1>2 DEF Given, ntlm
  <2>2. QED
    BY <1>1, <1>2, <2>1, SmbAnswers
<1>3. CASE proto = "webdav"
  <2>1. v = treeView(cfg, proto, p)
    BY <1>3 DEF Given
  <2>2. CASE Speaks(p, cred)
    BY <1>3, <2>1, <2>2, TreeAnswers
  <2>3. CASE p = Anonymous /\ ~config.declares /\ ~config.oidc
    BY <1>3, <2>1, <2>3, OpenAnswers
  <2>4. QED
    BY <1>1, <1>3, <2>2, <2>3
<1>4. CASE proto = "sftp"
  <2>1. v = treeView(cfg, proto, p) /\ Speaks(p, cred) /\ proto # "s3"
    BY <1>1, <1>4 DEF Given
  <2>2. QED
    BY <2>1, TreeAnswers
<1>5. CASE proto = "s3"
  <2>1. v = s3View(cfg, p)
    BY <1>5 DEF Given
  <2>2. QED
    BY <1>1, <1>5, <2>1, S3Answers
<1>6. CASE proto = "nfs"
  <2>1. v = nfsView(cfg, cred)
    BY <1>6 DEF Given
  <2>2. QED
    BY <1>1, <1>6, <2>1, NfsAnswers
<1>7. QED
  BY <1>2, <1>3, <1>4, <1>5, <1>6 DEF Given

\* Whoever the provider vouches for was admitted.
LEMMA AdmittedIsKnown ==
  ASSUME config \in Configs, NEW proto, NEW cred, NEW p, NEW v, NEW cfg, cfg = Process(config, proto),
         Given(cfg, proto, cred, p, v), p.federated
  PROVE  Known(cred)
<1>1. /\ DOMAIN cfg.shares \subseteq DOMAIN config.shares /\ \A sh \in DOMAIN cfg.shares : cfg.shares[sh] = config.shares[sh]
      /\ cfg.people = config.people /\ cfg.localNames = config.localNames /\ cfg.trustAll = config.trustAll
  BY ProcessIs
<1>2. \A n : local(n).federated = FALSE
  BY DEF local
<1>3. admitFederated(cfg, p) /\ Speaks(p, cred)
      /\ \E ln : p = Federated(cred, ln) /\ (ln => config.localNames \/ cred.type = "client")
  <2>1. /\ proto \in {"smb", "sftp", "s3"} => Speaks(p, cred)
        /\ proto = "webdav" => Speaks(p, cred) \/ (p = Anonymous /\ ~config.declares /\ ~config.oidc)
        /\ proto = "nfs" => /\ \A q \in nfsPrincipals(cfg, cred) : Speaks(q, cred) /\ q = p
                            /\ nfsPrincipals(cfg, cred) = {} => p = Anonymous
    BY Speakers
  <2>2. p # Anonymous /\ \A n : p # local(n)
    BY <1>2 DEF Anonymous
  <2>3. CASE proto = "webdav"
    BY <1>1, <2>1, <2>2, <2>3 DEF Given, authenticated, bearer
  <2>4. CASE proto = "sftp"
    BY <1>1, <2>1, <2>2, <2>4 DEF Given, sshLogin
  <2>5. CASE proto = "nfs"
    <3>1. p \in nfsPrincipals(cfg, cred)
      BY <2>2, <2>5 DEF Given
    <3>2. admitFederated(cfg, p) /\ p = Federated(cred, TRUE) /\ cred.type = "client"
      BY <2>2, <3>1 DEF nfsPrincipals
    <3>3. QED
      BY <2>1, <2>5, <3>1, <3>2
  <2>6. CASE proto = "smb"
    BY <2>2, <2>6 DEF Given, ntlm
  <2>7. CASE proto = "s3"
    BY <2>2, <2>7 DEF Given, forUser
  <2>8. QED
    BY <2>3, <2>4, <2>5, <2>6, <2>7 DEF Given
<1>4. PICK ln : p = Federated(cred, ln) /\ (ln => config.localNames \/ cred.type = "client")
  BY <1>3
<1>5. p.name = cred.name /\ p.localName = ln
  BY <1>4 DEF Federated
<1>6. CASE p.name \in cfg.people /\ p.localName
  BY <1>1, <1>4, <1>5, <1>6 DEF Known
<1>7. CASE cfg.trustAll
  BY <1>1, <1>7 DEF Known
<1>8. CASE namedByARule(cfg, p)
  <2>1. PICK sh \in DOMAIN cfg.shares :
          matches(p, claims(config.shares[sh].allow)) \/ matches(p, claims(config.shares[sh].writers))
    BY <1>1, <1>8 DEF namedByARule
  <2>2. PICK list : /\ list = config.shares[sh].allow \/ list = config.shares[sh].writers
                    /\ matches(p, claims(list))
    BY <2>1
  <2>3. sh \in Shares /\ \A e \in list : e.kind = "name" \/ (e.kind \in {"user", "groups", "domain"} /\ e.value # "")
    BY <1>1, <2>2, ConfigsAssumption
  <2>4. \E e \in list : e.kind # "name" /\ About(e, cred)
    BY <1>3, <2>2, <2>3, ListsAgree
  <2>5. QED
    BY <2>2, <2>3, <2>4 DEF Known
<1>9. QED
  BY <1>3, <1>6, <1>7, <1>8 DEF admitFederated

\* What a worker is, of what is known of a person: Resolver, Policy, what the
\* kernel makes of it and what the worker checks of itself.
LEMMA WorkerIs ==
  ASSUME NEW pol, pol.minUID \in 1..(NoChange - 1), pol.minGID \in 1..(NoChange - 1),
         NEW e, e.passwd \subseteq [uid : Nat, gid : Nat, groups : SUBSET Nat], NEW w \in Worker(pol, e)
  PROVE  /\ w.uid >= pol.minUID /\ w.uid # NoChange /\ w.uid \notin pol.denyUIDs
         /\ \A g \in w.groups \cup {w.gid} : g >= pol.minGID /\ g # NoChange
         /\ \/ /\ e.us = <<w.uid>> /\ e.gs = <<w.gid>>
               /\ \A g \in w.groups : g = w.gid \/ <<g>> \in e.groups \cup e.listed
            \/ /\ e.us = <<>> /\ e.gs = <<>>
               /\ \E a \in e.passwd : /\ a.uid = w.uid /\ a.gid = w.gid
                                      /\ w.groups \subseteq a.groups \cup {a.gid}
<1>1. PICK a \in Resolve(pol, e) : w = Exec(a) /\ \E x \in ParseExpect(a) : verify(w, x)
  BY DEF Worker
<1>2. NoChange \notin {a.uid, a.gid} \cup a.groups
  BY <1>1 DEF ParseExpect
<1>3. w.uid = a.uid /\ w.gid = a.gid /\ w.groups = a.groups
  BY <1>1, <1>2 DEF Exec
<1>4. PICK f \in find(e) : a \in apply(pol, f)
  BY <1>1 DEF Resolve
<1>5. /\ f \in [uid : Nat, gid : Nat, groups : SUBSET Nat]
      /\ \/ /\ e.us = <<f.uid>> /\ e.gs = <<f.gid>>
            /\ \A g \in f.groups : <<g>> \in e.groups \cup e.listed
         \/ e.us = <<>> /\ e.gs = <<>> /\ f \in e.passwd
  <2>1. CASE inDirectory(e)
    <3>1. PICK u \in one(e.us), g \in one(e.gs) : f = [uid |-> u, gid |-> g, groups |-> groupGIDs(e)]
      BY <1>4, <2>1 DEF find, fromDirectory
    <3>2. u \in Nat /\ g \in Nat /\ e.us = <<u>> /\ e.gs = <<g>>
      BY <3>1, AccountsAssumption DEF one, Ids
    <3>3. \A n \in groupGIDs(e) : n \in Nat /\ <<n>> \in e.groups \cup e.listed
      BY AccountsAssumption DEF groupGIDs, groupsOf, one, Ids
    <3>4. QED
      BY <3>1, <3>2, <3>3
  <2>2. CASE ~inDirectory(e)
    BY <1>4, <2>2 DEF find, inDirectory
  <2>3. QED
    BY <2>1, <2>2
<1>6. /\ ~(f.uid < pol.minUID) /\ ~(f.gid < pol.minGID) /\ f.uid \notin pol.denyUIDs
      /\ a = [f EXCEPT !.groups = {f.gid} \cup {g \in f.groups : g \notin {0, NoChange} /\ g >= pol.minGID}]
  BY <1>4 DEF apply
<1>7. /\ a.uid = f.uid /\ a.gid = f.gid
      /\ a.groups = {f.gid} \cup {g \in f.groups : g \notin {0, NoChange} /\ g >= pol.minGID}
  BY <1>5, <1>6
<1>8. pol.minUID \in Int /\ pol.minGID \in Int /\ f.uid \in Nat /\ f.gid \in Nat
  BY <1>5, AccountsAssumption
<1>9. w.uid >= pol.minUID /\ w.uid # NoChange /\ w.uid \notin pol.denyUIDs
  BY <1>2, <1>3, <1>6, <1>7, <1>8
<1>10. \A g \in w.groups \cup {w.gid} : g >= pol.minGID /\ g # NoChange
  BY <1>2, <1>3, <1>6, <1>7, <1>8
<1>11. QED
  BY <1>3, <1>5, <1>7, <1>9, <1>10

\* A login is one protocol's, of a credential that was presented.
LEMMA LoginIs ==
  ASSUME config \in Configs, Login
  PROVE  \E s \in Sessions, proto \in config.serves, cred \in Creds(config) : \E p, v, how :
           /\ who[s] = Nobody /\ LetIn(s, proto, cred, p, v, how)
           /\ Given(Process(config, proto), proto, cred, p, v)
<1>1. PICK s \in Sessions, cred \in Creds(config) :
        /\ who[s] = Nobody
        /\ \/ "smb" \in config.serves /\ SmbLogin(s, cred)
           \/ "webdav" \in config.serves /\ WebdavRequest(s, cred)
           \/ "sftp" \in config.serves /\ ServerForLogin(s, cred)
           \/ "nfs" \in config.serves /\ NfsCall(s, cred)
           \/ "s3" \in config.serves /\ \E user, id \in config.people : S3Request(s, cred, user, id)
  BY DEF Login
<1>2. CASE "smb" \in config.serves /\ SmbLogin(s, cred)
  BY <1>1, <1>2 DEF SmbLogin, Given
<1>3. CASE "webdav" \in config.serves /\ WebdavRequest(s, cred)
  BY <1>1, <1>3 DEF WebdavRequest, Given
<1>4. CASE "sftp" \in config.serves /\ ServerForLogin(s, cred)
  BY <1>1, <1>4 DEF ServerForLogin, Given
<1>5. CASE "nfs" \in config.serves /\ NfsCall(s, cred)
  BY <1>1, <1>5 DEF NfsCall, Given
<1>6. CASE "s3" \in config.serves /\ \E user, id \in config.people : S3Request(s, cred, user, id)
  <2>1. Process(config, "s3").people = config.people
    BY ProcessIs
  <2>2. QED
    BY <1>1, <1>6, <2>1 DEF S3Request, Given
<1>7. QED
  BY <1>1, <1>2, <1>3, <1>4, <1>5, <1>6

LEMMA InitGives == Init => SessionsInv
<1> SUFFICES ASSUME Init PROVE SessionsInv
  OBVIOUS
<1>1. \A s \in Sessions : who[s] = Nobody
  BY DEF Init
<1>2. /\ \A s \in Sessions : handles[s] = [h \in Handles(s) |-> NoHandle]
      /\ \A t \in Threads : th[t] = Rest
      /\ \A s \in Sessions, sh \in Shares : view[s][sh] = "none"
  BY DEF Init, TreesInit
<1>3. Rest \in Thread /\ NoHandle \in Handle /\ Rest.at = "idle" /\ NoHandle.file = "none"
  BY DEF Rest, Thread, NoHandle, Handle
<1>4. Shape
  <2>1. config \in Configs /\ serve(config) /\ DOMAIN who = Sessions
    BY DEF Init
  <2>2. view \in [Sessions -> [Shares -> Views]] /\ proc \in [Sessions -> Procs]
    BY TreesAssumption DEF Init, TreesInit, Views
  <2>3. DOMAIN handles = Sessions /\ \A s \in Sessions : handles[s] \in [Handles(s) -> Handle]
    BY <1>2, <1>3 DEF Init, TreesInit
  <2>4. lock \in [Procs -> [Locked -> Threads \cup {NoThread}]] /\ th \in [Threads -> Thread]
    BY <1>3 DEF Init, TreesInit
  <2>5. QED
    BY <2>1, <2>2, <2>3, <2>4 DEF Shape
<1>5. OffInv /\ ReachInv /\ LockInv /\ GivenInv
  BY <1>1, <1>2, <1>3 DEF OffInv, ReachInv, LockInv, GivenInv
<1>6. QED
  BY <1>4, <1>5 DEF SessionsInv

LEMMA LoginGives == SessionsInv /\ Login => SessionsInv'
<1> SUFFICES ASSUME SessionsInv, Login PROVE SessionsInv'
  OBVIOUS
<1>0. config \in Configs /\ serve(config) /\ Shape /\ OffInv /\ ReachInv /\ LockInv /\ GivenInv
  BY DEF SessionsInv, Shape
<1>1. PICK s \in Sessions, proto \in config.serves, cred \in Creds(config) : \E p, v, how :
        /\ who[s] = Nobody /\ LetIn(s, proto, cred, p, v, how)
        /\ Given(Process(config, proto), proto, cred, p, v)
  BY <1>0, LoginIs
<1>2. PICK p, v, how : /\ who[s] = Nobody /\ LetIn(s, proto, cred, p, v, how)
                       /\ Given(Process(config, proto), proto, cred, p, v)
  BY <1>1
<1>3. PICK cfg : cfg = Process(config, proto)
  OBVIOUS
<1>4. PICK me : me = [proto |-> proto, cred |-> cred, p |-> p, worker |-> Serving(cfg, v, p)]
  OBVIOUS
<1>5. /\ who' = [who EXCEPT ![s] = me] /\ view' = [view EXCEPT ![s] = Whole(v)]
      /\ proc' = [proc EXCEPT ![s] = IF config.isolate THEN proto ELSE "one"]
      /\ UNCHANGED <<config, handles, lock, th>>
  BY <1>2, <1>3, <1>4 DEF LetIn
<1>6. Answers(cfg, proto, cred, p, v)
  BY <1>0, <1>2, <1>3, Answered
<1>7. Whole(v) \in [Shares -> Views]
  BY <1>6 DEF Whole, Answers, Views
<1>8. (IF config.isolate THEN proto ELSE "one") \in Procs
  BY <1>0, TreesAssumption, ConfigsAssumption
<1>9. me # Nobody /\ me.proto = proto /\ me.cred = cred /\ me.p = p /\ me.worker = Serving(cfg, v, p)
  <2>1. me.proto = proto /\ me.cred = cred /\ me.p = p /\ me.worker = Serving(cfg, v, p)
    BY <1>4
  <2>2. proto # "none" /\ Nobody.proto = "none"
    BY <1>2 DEF Given, Nobody
  <2>3. QED
    BY <2>1, <2>2
<1>10. /\ DOMAIN who' = Sessions /\ who'[s] = me /\ \A z \in Sessions \ {s} : who'[z] = who[z]
       /\ view' \in [Sessions -> [Shares -> Views]] /\ view'[s] = Whole(v) /\ \A z \in Sessions \ {s} : view'[z] = view[z]
       /\ proc' \in [Sessions -> Procs] /\ proc'[s] = (IF config.isolate THEN proto ELSE "one")
       /\ \A z \in Sessions \ {s} : proc'[z] = proc[z]
  BY <1>0, <1>5, <1>7, <1>8 DEF Shape
<1>11. Shape'
  BY <1>0, <1>5, <1>10 DEF Shape
<1>12. OffInv'
  BY <1>0, <1>5, <1>9, <1>10 DEF OffInv
<1>13. /\ \A h \in Handles(s) : handles[s][h].file = "none"
       /\ \A t \in Threads : Owner[t] = s => th[t] = Rest /\ th[t].at = "idle"
  BY <1>0, <1>2 DEF OffInv, NoHandle, Rest
<1>14. \A t \in Threads : Owner[t] \in Sessions
  BY TreesAssumption
<1>15. ReachInv'
  BY <1>0, <1>5, <1>10, <1>13, <1>14 DEF ReachInv
<1>16. LockInv'
  BY <1>0, <1>5, <1>10, <1>13, <1>14 DEF LockInv
<1>17. GivenInv'
  <2>1. v \in {smbView(cfg, p), treeView(cfg, proto, p), s3View(cfg, p), nfsView(cfg, cred)}
    BY <1>2, <1>3 DEF Given
  <2>2. SUFFICES ASSUME NEW z \in Sessions, who'[z] # Nobody
                 PROVE  (LET q == who[z].proto  c == who[z].cred  u == who[z].p  f == Process(config, q)
                         IN /\ q \in config.serves /\ c \in Creds(config)
                            /\ proc[z] = IF config.isolate THEN q ELSE "one"
                            /\ \E x \in {smbView(f, u), treeView(f, q, u), s3View(f, u), nfsView(f, c)} :
                                 /\ Given(f, q, c, u, x)
                                 /\ view[z] = Whole(x) /\ who[z].worker = Serving(f, x, u))'
    BY DEF GivenInv
  <2>3. CASE z = s
    BY <1>2, <1>3, <1>5, <1>9, <1>10, <2>1, <2>3
  <2>4. CASE z # s
    BY <1>0, <1>5, <1>10, <2>2, <2>4 DEF GivenInv
  <2>5. QED
    BY <2>3, <2>4
<1>18. QED
  BY <1>11, <1>12, <1>15, <1>16, <1>17 DEF SessionsInv

LEMMA LogoutGives ==
  ASSUME SessionsInv, NEW s \in Sessions, Logout(s)
  PROVE  SessionsInv'
<1>0. Shape /\ OffInv /\ ReachInv /\ LockInv /\ GivenInv
  BY DEF SessionsInv
<1>1. /\ who' = [who EXCEPT ![s] = Nobody] /\ view' = [view EXCEPT ![s] = [sh \in Shares |-> "none"]]
      /\ proc' = [proc EXCEPT ![s] = "one"] /\ UNCHANGED <<config, handles, lock, th>>
      /\ \A t \in Threads : Owner[t] = s => th[t] = Rest
      /\ \A h \in Handles(s) : handles[s][h] = NoHandle
  BY DEF Logout
<1>2. [sh \in Shares |-> "none"] \in [Shares -> Views] /\ "one" \in Procs
  BY TreesAssumption DEF Views
<1>3. /\ DOMAIN who' = Sessions /\ who'[s] = Nobody /\ \A z \in Sessions \ {s} : who'[z] = who[z]
      /\ view' \in [Sessions -> [Shares -> Views]] /\ view'[s] = [sh \in Shares |-> "none"]
      /\ \A z \in Sessions \ {s} : view'[z] = view[z]
      /\ proc' \in [Sessions -> Procs] /\ \A z \in Sessions \ {s} : proc'[z] = proc[z]
  BY <1>0, <1>1, <1>2 DEF Shape
<1>4. Shape'
  BY <1>0, <1>1, <1>3 DEF Shape
<1>5. OffInv'
  BY <1>0, <1>1, <1>3 DEF OffInv
<1>6. NoHandle.file = "none" /\ Rest.at = "idle" /\ \A t \in Threads : Owner[t] \in Sessions
  BY TreesAssumption DEF NoHandle, Rest
<1>7. ReachInv'
  BY <1>0, <1>1, <1>3, <1>6 DEF ReachInv
<1>8. LockInv'
  BY <1>0, <1>1, <1>3, <1>6 DEF LockInv
<1>9. GivenInv'
  BY <1>0, <1>1, <1>3 DEF GivenInv
<1>10. QED
  BY <1>4, <1>5, <1>7, <1>8, <1>9 DEF SessionsInv

LEMMA SessionsInvariant == Spec => []SessionsInv
<1>1. SessionsInv /\ [Next]_vars => SessionsInv'
  <2> SUFFICES ASSUME SessionsInv, [Next]_vars PROVE SessionsInv'
    OBVIOUS
  <2>0. Shape /\ OffInv /\ ReachInv /\ LockInv /\ GivenInv
    BY DEF SessionsInv
  <2>1. CASE Login
    BY <2>1, LoginGives
  <2>2. CASE Work
    <3>1. TreesNext /\ UNCHANGED <<config, who>>
      BY <2>2 DEF Work
    <3>2. (Shape /\ OffInv /\ ReachInv /\ LockInv)' /\ UNCHANGED <<view, proc>>
      BY <2>0, <3>1, TreesKeep
    <3>3. GivenInv'
      BY <2>0, <3>1, <3>2 DEF GivenInv
    <3>4. QED
      BY <3>2, <3>3 DEF SessionsInv
  <2>3. CASE \E s \in Sessions : Logout(s)
    BY <2>3, LogoutGives
  <2>4. CASE UNCHANGED vars
    BY <2>0, <2>4 DEF vars, treeVars, SessionsInv, Shape, OffInv, ReachInv, LockInv, GivenInv
  <2>5. QED
    BY <2>1, <2>2, <2>3, <2>4 DEF Next
<1>2. QED
  BY <1>1, InitGives, PTL DEF Spec

\* What a session has, of what it was given.
LEMMA SessionHas ==
  ASSUME SessionsInv, NEW s \in Sessions, who[s] # Nobody
  PROVE  \E v : LET proto == who[s].proto  cred == who[s].cred  p == who[s].p  cfg == Process(config, proto)
                IN /\ proto \in config.serves /\ cred \in Creds(config)
                   /\ proc[s] = IF config.isolate THEN proto ELSE "one"
                   /\ Given(cfg, proto, cred, p, v) /\ Answers(cfg, proto, cred, p, v)
                   /\ view[s] = Whole(v) /\ who[s].worker = Serving(cfg, v, p)
<1>1. PICK proto, cred, p, cfg : proto = who[s].proto /\ cred = who[s].cred /\ p = who[s].p /\ cfg = Process(config, proto)
  OBVIOUS
<1>2. /\ proto \in config.serves /\ cred \in Creds(config)
      /\ proc[s] = IF config.isolate THEN proto ELSE "one"
      /\ \E v : Given(cfg, proto, cred, p, v) /\ view[s] = Whole(v) /\ who[s].worker = Serving(cfg, v, p)
  BY <1>1 DEF SessionsInv, GivenInv
<1>3. PICK v : Given(cfg, proto, cred, p, v) /\ view[s] = Whole(v) /\ who[s].worker = Serving(cfg, v, p)
  BY <1>2
<1>4. config \in Configs /\ serve(config)
  BY DEF SessionsInv, Shape
<1>5. Answers(cfg, proto, cred, p, v)
  BY <1>1, <1>3, <1>4, Answered
<1>6. QED
  BY <1>1, <1>2, <1>3, <1>5

\* Whatever the protocol, the process, the configuration and the credential, a
\* session sees and writes only what the share's own lists say.
THEOREM AccessIsEntitled == Spec => []AccessEntitled
<1>1. SessionsInv => AccessEntitled
  <2> SUFFICES ASSUME SessionsInv, NEW s \in Sessions, NEW sh \in Shares, view[s][sh] # "none"
               PROVE  LET b == config.shares[sh]  cred == who[s].cred
                      IN /\ On(b.allow, cred)
                         /\ view[s][sh] = "write" => ~b.readOnly /\ On(b.writers, cred)
                         /\ restricted(b) => cred.type # "none"
                         /\ who[s].p.federated => Known(cred)
                         /\ b.protocols = {} \/ who[s].proto \in b.protocols
                         /\ who[s].proto = "sftp" /\ cred.type \in {"local", "provider"} /\ config.sshDomains =>
                              cred.grant \notin {"elsewhere", "malformed"}
    BY DEF AccessEntitled
  <2>1. who[s] # Nobody /\ config \in Configs
    BY DEF SessionsInv, OffInv, Shape
  <2>2. PICK proto, cred, p, cfg : proto = who[s].proto /\ cred = who[s].cred /\ p = who[s].p /\ cfg = Process(config, proto)
    OBVIOUS
  <2>3. PICK v : /\ Given(cfg, proto, cred, p, v) /\ Answers(cfg, proto, cred, p, v) /\ view[s] = Whole(v)
    BY <2>1, <2>2, SessionHas
  <2>4. /\ DOMAIN cfg.shares \subseteq DOMAIN config.shares /\ \A x \in DOMAIN cfg.shares : cfg.shares[x] = config.shares[x]
        /\ cfg.sshDomains = config.sshDomains
    BY <2>1, <2>2, ProcessIs
  <2>5. sh \in DOMAIN cfg.shares /\ view[s][sh] = v[sh]
    BY <2>3 DEF Whole, Answers
  <2>6. PICK b : b = config.shares[sh]
    OBVIOUS
  <2>7. /\ sh \in exports(cfg, proto) /\ On(b.allow, cred) /\ (restricted(b) => cred.type # "none")
        /\ view[s][sh] = "write" => ~b.readOnly /\ On(b.writers, cred)
    BY <2>3, <2>5, <2>6 DEF Answers
  <2>8. p.federated => Known(cred)
    BY <2>1, <2>2, <2>3, AdmittedIsKnown
  <2>9. b.protocols = {} \/ proto \in b.protocols
    BY <2>4, <2>5, <2>6, <2>7 DEF exports
  <2>10. ASSUME proto = "sftp", cred.type \in {"local", "provider"}, config.sshDomains
         PROVE  cred.grant \notin {"elsewhere", "malformed"}
    <3>1. domainGrant(cfg, cred)
      BY <2>3, <2>4, <2>10 DEF Given, sshLogin
    <3>2. QED
      BY <3>1 DEF domainGrant
  <2>11. QED
    BY <2>2, <2>6, <2>7, <2>8, <2>9, <2>10
<1>2. QED
  BY <1>1, SessionsInvariant, PTL

\* The converse: who was let in gets, over every protocol, everything that
\* protocol carries and the lists give them.
THEOREM ProtocolsAgree == Spec => []EveryProtocolTheSame
<1>1. SessionsInv => EveryProtocolTheSame
  <2> SUFFICES ASSUME SessionsInv, NEW s \in Sessions, who[s] # Nobody,
                      NEW sh \in exports(Process(config, who[s].proto), who[s].proto)
               PROVE  LET b == config.shares[sh]  cred == who[s].cred
                      IN \/ b.system /\ who[s].worker = {}
                         \/ restricted(b) /\ who[s].p = Anonymous
                         \/ ~On(b.allow, cred)
                         \/ view[s][sh] = IF b.readOnly \/ ~On(b.writers, cred) \/ who[s].proto = "s3" THEN "read" ELSE "write"
    BY DEF EveryProtocolTheSame
  <2>1. config \in Configs
    BY DEF SessionsInv, Shape
  <2>2. PICK proto, cred, p, cfg : proto = who[s].proto /\ cred = who[s].cred /\ p = who[s].p /\ cfg = Process(config, proto)
    OBVIOUS
  <2>3. PICK v : Answers(cfg, proto, cred, p, v) /\ view[s] = Whole(v) /\ who[s].worker = Serving(cfg, v, p)
    BY <2>2, SessionHas
  <2>4. DOMAIN cfg.shares \subseteq DOMAIN config.shares /\ \A x \in DOMAIN cfg.shares : cfg.shares[x] = config.shares[x]
    BY <2>1, <2>2, ProcessIs
  <2>5. sh \in DOMAIN cfg.shares /\ sh \in Shares /\ sh \in exports(cfg, proto)
    BY <2>1, <2>2, <2>4, ConfigsAssumption DEF exports
  <2>6. view[s][sh] = v[sh] /\ DOMAIN v = DOMAIN cfg.shares
    BY <2>3, <2>5 DEF Whole, Answers
  <2>7. PICK b : b = config.shares[sh]
    OBVIOUS
  <2>8. ASSUME ~(b.system /\ who[s].worker = {}), ~(restricted(b) /\ p = Anonymous), On(b.allow, cred)
        PROVE  v[sh] = IF b.readOnly \/ ~On(b.writers, cred) \/ proto = "s3" THEN "read" ELSE "write"
    <3>1. b.system => workerOf(cfg, p) # {}
      BY <2>3, <2>8 DEF Serving
    <3>2. QED
      BY <2>3, <2>5, <2>7, <2>8, <3>1 DEF Answers
  <2>9. QED
    BY <2>2, <2>6, <2>7, <2>8
<1>2. QED
  BY <1>1, SessionsInvariant, PTL

\* A worker runs as the person it serves, within the policy, and as nobody
\* else.
THEOREM WorkersAreTheirs == Spec => []WorkerAsThem
<1>1. SessionsInv => WorkerAsThem
  <2> SUFFICES ASSUME SessionsInv, NEW s \in Sessions, who[s] # Nobody, NEW w \in who[s].worker, NEW pol \in config.identity
               PROVE  LET e == config.entries[who[s].cred.name]
                      IN /\ w.uid >= pol.minUID /\ w.uid # NoChange /\ w.uid \notin pol.denyUIDs
                         /\ \A g \in w.groups \cup {w.gid} : g >= pol.minGID /\ g # NoChange
                         /\ \/ /\ e.us = <<w.uid>> /\ e.gs = <<w.gid>>
                               /\ \A g \in w.groups : g = w.gid \/ <<g>> \in e.groups \cup e.listed
                            \/ /\ e.us = <<>> /\ e.gs = <<>>
                               /\ \E a \in e.passwd : /\ a.uid = w.uid /\ a.gid = w.gid
                                                      /\ w.groups \subseteq a.groups \cup {a.gid}
                         /\ who[s].cred.type \in {"token", "provider", "opkssh"} => config.localNames
    BY DEF WorkerAsThem
  <2>1. config \in Configs /\ serve(config)
    BY DEF SessionsInv, Shape
  <2>2. PICK proto, cred, p, cfg : proto = who[s].proto /\ cred = who[s].cred /\ p = who[s].p /\ cfg = Process(config, proto)
    OBVIOUS
  <2>3. PICK v : /\ Given(cfg, proto, cred, p, v) /\ Answers(cfg, proto, cred, p, v)
                 /\ cred \in Creds(config) /\ who[s].worker = Serving(cfg, v, p)
    BY <2>2, SessionHas
  <2>4. /\ DOMAIN cfg.shares \subseteq DOMAIN config.shares /\ \A x \in DOMAIN cfg.shares : cfg.shares[x] = config.shares[x]
        /\ cfg.identity = config.identity /\ cfg.entries = config.entries
    BY <2>1, <2>2, ProcessIs
  <2>5. PICK sh \in DOMAIN cfg.shares : config.shares[sh].system /\ v[sh] # "none"
    BY <2>3, <2>4 DEF Serving, Answers
  <2>6. w \in workerOf(cfg, p)
    BY <2>3 DEF Serving
  <2>7. byName(p) /\ w \in Worker(pol, config.entries[p.name])
    BY <2>1, <2>4, <2>6, ConfigsAssumption DEF workerOf
  <2>8. sh \in exports(cfg, proto) /\ proto \in identityProtocols
    BY <2>3, <2>4, <2>5 DEF Answers, exports
  <2>9. Speaks(p, cred)
    <3>1. /\ proto \in {"smb", "sftp", "s3"} => Speaks(p, cred)
          /\ proto = "webdav" => Speaks(p, cred) \/ (p = Anonymous /\ ~config.declares /\ ~config.oidc)
      BY <2>1, <2>2, <2>3, Speakers
    <3>2. config.declares
      BY <2>1, <2>4, <2>5 DEF serve, check, checkShareIdentity
    <3>3. QED
      BY <2>8, <3>1, <3>2 DEF identityProtocols
  <2>10. p.name = cred.name /\ (cred.type \in {"token", "provider", "opkssh"} => config.localNames)
    <3>1. CASE p = local(cred.name) /\ ~Theirs(cred)
      BY <3>1 DEF local, Theirs
    <3>2. CASE \E ln : p = Federated(cred, ln) /\ (ln <=> Ours(cred))
      <4>1. PICK ln : p = Federated(cred, ln) /\ (ln <=> Ours(cred))
        BY <3>2
      <4>2. p.name = cred.name /\ p.federated = TRUE /\ p.localName = ln
        BY <4>1 DEF Federated
      <4>3. Ours(cred)
        BY <2>7, <4>1, <4>2 DEF byName
      <4>4. QED
        BY <4>2, <4>3 DEF Ours
    <3>3. QED
      BY <2>9, <3>1, <3>2 DEF Speaks
  <2>11. pol.minUID \in 1..(NoChange - 1) /\ pol.minGID \in 1..(NoChange - 1)
    BY <2>1 DEF serve, check, checkIdentity
  <2>12. PICK e : e = config.entries[cred.name]
    OBVIOUS
  <2>13. e.passwd \subseteq [uid : Nat, gid : Nat, groups : SUBSET Nat]
    BY <2>1, <2>3, <2>12, ConfigsAssumption
  <2>14. /\ w.uid >= pol.minUID /\ w.uid # NoChange /\ w.uid \notin pol.denyUIDs
         /\ \A g \in w.groups \cup {w.gid} : g >= pol.minGID /\ g # NoChange
         /\ \/ /\ e.us = <<w.uid>> /\ e.gs = <<w.gid>>
               /\ \A g \in w.groups : g = w.gid \/ <<g>> \in e.groups \cup e.listed
            \/ /\ e.us = <<>> /\ e.gs = <<>>
               /\ \E a \in e.passwd : /\ a.uid = w.uid /\ a.gid = w.gid
                                      /\ w.groups \subseteq a.groups \cup {a.gid}
    BY <2>7, <2>10, <2>11, <2>12, <2>13, WorkerIs
  <2>15. QED
    BY <2>2, <2>10, <2>12, <2>14
<1>2. QED
  BY <1>1, SessionsInvariant, PTL

\* No request reaches a driver that the session's view does not allow, and
\* none for a session that is gone.
THEOREM NoWayPastTheView == Spec => OnlyWhatTheViewAllows
<1> DEFINE Only == \A t \in Threads :
       th[t].at = "idle" /\ th'[t].at = "call" =>
         LET s == Owner[t]  v == view[s][th'[t].share]
         IN /\ v # "none"
            /\ th'[t].op = "write" => v = "write"
            /\ th'[t].op \in {"read", "write", "load", "open"} => s \notin gone
<1>1. SessionsInv /\ [Next]_vars => [Only]_treeVars
  <2> SUFFICES ASSUME SessionsInv, [Next]_vars, NEW t \in Threads, th[t].at = "idle", th'[t].at = "call"
               PROVE  LET s == Owner[t]  v == view[s][th'[t].share]
                      IN /\ v # "none"
                         /\ th'[t].op = "write" => v = "write"
                         /\ th'[t].op \in {"read", "write", "load", "open"} => s \notin gone
    OBVIOUS
  <2>0. Shape /\ ReachInv /\ th \in [Threads -> Thread]
    BY DEF SessionsInv, Shape
  <2>1. th'[t] # th[t]
    OBVIOUS
  <2>2. TreesNext
    <3>1. ~UNCHANGED th
      BY <2>1
    <3>2. Login => UNCHANGED th
      BY <2>0, LoginIs DEF LetIn, Shape
    <3>3. \A s \in Sessions : Logout(s) => UNCHANGED th
      BY DEF Logout
    <3>4. UNCHANGED vars => UNCHANGED th
      BY DEF vars, treeVars
    <3>5. QED
      BY <3>1, <3>2, <3>3, <3>4 DEF Next, Work
  <2>3. PICK u \in Threads : Started(u)
    <3>1. ASSUME NEW u \in Threads, Enter(u) \/ Leave(u) PROVE FALSE
      <4>1. \A x \in Threads \ {u} : th'[x] = th[x]
        BY <2>0, <3>1 DEF Enter, Leave
      <4>2. u = t
        BY <2>1, <4>1
      <4>3. QED
        BY <3>1, <4>2 DEF Enter, Leave
    <3>2. ASSUME NEW u \in Threads, th[u].at \in {"loaded", "over"},
                 th' = [th EXCEPT ![u] = Rest] \/ th' = [th EXCEPT ![u] = [th[u] EXCEPT !.at = "over"]]
          PROVE  FALSE
      <4>1. \A x \in Threads \ {u} : th'[x] = th[x]
        BY <2>0, <3>2
      <4>2. QED
        BY <2>1, <3>2, <4>1
    <3>3. QED
      BY <2>0, <2>1, <2>2, <3>1, <3>2, TreeStepIs
  <2>4. PICK op \in {"read", "write", "open", "sync", "close", "load", "size"}, sh \in Shares, h \in Nat :
          /\ Calls(u, op, sh, h) /\ view[Owner[u]][sh] # "none"
          /\ op = "write" => view[Owner[u]][sh] = "write"
          /\ op \in {"read", "write", "load", "open"} => Owner[u] \notin gone
    BY <2>3 DEF Started
  <2>5. u = t
    BY <2>0, <2>1, <2>4 DEF Calls
  <2>6. th'[t] = [at |-> "call", op |-> op, share |-> sh, h |-> h]
    BY <2>0, <2>4, <2>5 DEF Calls
  <2>7. th'[t].op = op /\ th'[t].share = sh
    BY <2>6
  <2>8. QED
    BY <2>4, <2>5, <2>7
<1>2. QED
  BY <1>1, SessionsInvariant, PTL DEF Spec, OnlyWhatTheViewAllows

\* Where two processes serve one share, neither may write it.
LEMMA WrittenByOne ==
  ASSUME NEW c \in Configs, serve(c), c.isolate, NEW a \in c.serves, NEW b \in c.serves, a # b,
         NEW sh \in exports(c, a), sh \in exports(c, b)
  PROVE  c.shares[sh].readOnly
<1>1. PICK ps : ps = {proto \in c.serves : sh \in exports(c, proto)}
  OBVIOUS
<1>2. sh \in DOMAIN c.shares
  BY DEF exports
<1>3. IsFiniteSet(ps)
  BY <1>1, FS_Subset, ConfigsAssumption
<1>4. {a, b} \subseteq ps /\ IsFiniteSet({a, b}) /\ Cardinality({a, b}) = 2
  <2>1. IsFiniteSet({a}) /\ Cardinality({a}) = 1
    BY FS_Singleton
  <2>2. {a, b} = {a} \cup {b} /\ b \notin {a}
    OBVIOUS
  <2>3. IsFiniteSet({a} \cup {b}) /\ Cardinality({a} \cup {b}) = Cardinality({a}) + 1
    BY <2>1, <2>2, FS_AddElement
  <2>4. QED
    BY <1>1, <2>1, <2>2, <2>3
<1>5. Cardinality(ps) \in Nat /\ Cardinality({a, b}) <= Cardinality(ps)
  BY <1>3, <1>4, FS_Subset, FS_CardinalityType
<1>6. Cardinality(ps) > 1
  BY <1>4, <1>5
<1>7. ~isolationRefusal(c)
  BY DEF serve
<1>8. QED
  BY <1>1, <1>2, <1>6, <1>7 DEF isolationRefusal

\* The shares of one process are not of one source.
LEMMA OneSourceEach ==
  ASSUME NEW c \in Configs, serve(c), NEW p \in c.serves, NEW q \in c.serves, c.isolate => p = q,
         NEW a \in exports(c, p), NEW b \in exports(c, q), c.shares[a].source = c.shares[b].source
  PROVE  a = b
<1>1. checkNoShareHoldsShare(Process(c, p))
  BY DEF serve
<1>2. a \in DOMAIN c.shares /\ b \in DOMAIN c.shares
  BY DEF exports
<1>3. c = [f \in ConfigFields |-> c[f]]
  BY ConfigsAssumption
<1>4. PICK sh : sh = Process(c, p).shares
  OBVIOUS
<1>5. /\ a \in DOMAIN sh /\ b \in DOMAIN sh /\ sh[a] = c.shares[a] /\ sh[b] = c.shares[b]
  <2>1. CASE c.isolate
    <3>1. sh = [x \in exports(c, p) |-> c.shares[x]]
      BY <1>3, <1>4, <2>1 DEF Process, childOf, ConfigFields
    <3>2. QED
      BY <2>1, <3>1
  <2>2. CASE ~c.isolate
    BY <1>2, <1>4, <2>2 DEF Process
  <2>3. QED
    BY <2>1, <2>2
<1>6. QED
  BY <1>1, <1>4, <1>5 DEF checkNoShareHoldsShare

\* A driver is never inside two calls of one process, by one share or by two,
\* and never over a share that another process has and somebody may write.
THEOREM DriversAreAlone == Spec => []DriverAlone
<1>1. SessionsInv => DriverAlone
  <2> SUFFICES ASSUME SessionsInv, NEW t \in Threads, NEW u \in Threads, t # u, th[t].at = "in", th[u].at = "in",
                      th[t].share \in Locked, th[u].share \in Locked,
                      config.shares[th[t].share].source = config.shares[th[u].share].source
               PROVE  /\ proc[Owner[t]] # proc[Owner[u]]
                      /\ th[t].share = th[u].share => view[Owner[t]][th[t].share] # "write"
    BY DEF DriverAlone
  <2>1. config \in Configs /\ serve(config) /\ LockInv /\ ReachInv /\ OffInv
    BY DEF SessionsInv, Shape
  <2>2. PICK s, z, a, b : s = Owner[t] /\ z = Owner[u] /\ a = th[t].share /\ b = th[u].share
    OBVIOUS
  <2>3. s \in Sessions /\ z \in Sessions /\ a \in Shares /\ b \in Shares
    BY <2>2, TreesAssumption
  <2>4. a = b => proc[s] # proc[z]
    BY <2>1, <2>2 DEF LockInv
  <2>5. view[s][a] # "none" /\ view[z][b] # "none"
    BY <2>1, <2>2 DEF ReachInv
  <2>6. who[s] # Nobody /\ who[z] # Nobody
    BY <2>1, <2>3, <2>5 DEF OffInv
  <2>7. ASSUME NEW x \in Sessions, who[x] # Nobody, NEW sh \in Shares, view[x][sh] # "none"
        PROVE  /\ who[x].proto \in config.serves
               /\ proc[x] = IF config.isolate THEN who[x].proto ELSE "one"
               /\ sh \in exports(config, who[x].proto) /\ (view[x][sh] = "write" => ~config.shares[sh].readOnly)
    <3>1. PICK proto, cred, p, cfg : proto = who[x].proto /\ cred = who[x].cred /\ p = who[x].p /\ cfg = Process(config, proto)
      OBVIOUS
    <3>2. PICK v : /\ proto \in config.serves /\ proc[x] = IF config.isolate THEN proto ELSE "one"
                   /\ Answers(cfg, proto, cred, p, v) /\ view[x] = Whole(v)
      BY <2>7, <3>1, SessionHas
    <3>3. exports(cfg, proto) \subseteq exports(config, proto)
      BY <2>1, <3>1, ProcessIs
    <3>4. sh \in DOMAIN cfg.shares /\ view[x][sh] = v[sh]
      BY <2>7, <3>2 DEF Whole, Answers
    <3>5. sh \in exports(cfg, proto) /\ (v[sh] = "write" => ~config.shares[sh].readOnly)
      BY <2>7, <3>2, <3>4 DEF Answers
    <3>6. QED
      BY <3>1, <3>2, <3>3, <3>4, <3>5
  <2>8. /\ who[s].proto \in config.serves /\ proc[s] = (IF config.isolate THEN who[s].proto ELSE "one")
        /\ a \in exports(config, who[s].proto) /\ (view[s][a] = "write" => ~config.shares[a].readOnly)
        /\ who[z].proto \in config.serves /\ proc[z] = (IF config.isolate THEN who[z].proto ELSE "one")
        /\ b \in exports(config, who[z].proto)
    BY <2>3, <2>5, <2>6, <2>7
  <2>9. proc[s] # proc[z]
    <3>1. SUFFICES ASSUME proc[s] = proc[z] PROVE FALSE
      OBVIOUS
    <3>2. config.isolate => who[s].proto = who[z].proto
      BY <2>8, <3>1
    <3>3. a = b
      BY <2>1, <2>2, <2>8, <3>2, OneSourceEach
    <3>4. QED
      BY <2>4, <3>1, <3>3
  <2>10. ASSUME a = b PROVE view[s][a] # "write"
    <3>1. config.isolate /\ who[s].proto # who[z].proto
      BY <2>8, <2>9
    <3>2. config.shares[a].readOnly
      BY <2>1, <2>8, <2>10, <3>1, WrittenByOne
    <3>3. QED
      BY <2>8, <3>2
  <2>11. QED
    BY <2>2, <2>9, <2>10
<1>2. QED
  BY <1>1, SessionsInvariant, PTL
=============================================================================
