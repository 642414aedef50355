------------------------------ MODULE Workers ------------------------------
(***************************************************************************)
(* The workers of a server whose shares are served as their people: the    *)
(* front's pool of them (workerpool.go), the conversation in which the     *)
(* front asks the launcher for one (internal/launch, identity_unix.go),    *)
(* and the sessions that use them: SSH connections, which serveSSH keeps   *)
(* and waits for (sshconn.go, serve_sftp.go), and WebDAV requests, which   *)
(* nobody waits for (serve_webdav.go).  server.swap resets the pool between *)
(* two generations; shutting down closes it.                               *)
(*                                                                         *)
(* A key is a person on a share.  Which account the launcher finds for a   *)
(* person, and whether it may be used, is module Accounts: here it answers *)
(* yes or no.  A worker's filesystem is the front's end of a socket, and a *)
(* worker process ends when nobody holds the other end.                    *)
(***************************************************************************)
EXTENDS Integers, FiniteSets

CONSTANTS Keys,       \* (person, share) pairs
          Ssh, Http,  \* SSH connections and WebDAV requests, reused once over
          MaxIds,     \* bound: how many *worker values are not yet garbage
          MaxSwaps,   \* bound: how many swaps the server makes
          MaxFired    \* bound: callbacks of one worker that wait for pool.mu

ASSUME UsesAssumption == Ssh \cap Http = {} /\ IsFiniteSet(Ssh \cup Http)
ASSUME WorkersBoundsAssumption == MaxIds \in Nat /\ MaxSwaps \in Nat /\ MaxFired \in Nat \ {0}

Uses == Ssh \cup Http
Ids == 1..MaxIds
None == 0
NoKey == "none"

VARIABLES
  \* workerPool
  m,       \* the worker of each key, None for none
  failed,  \* the keys whose failure is still held
  closed,  \* workerPool.closed
  wk,      \* every *worker: see Blank
  rst,     \* the workers reset took out of the map and has not closed yet
  \* the launcher and the processes
  conv,    \* Client.mu: the worker being asked for, None when free
  asked,   \* where that conversation is
  held,    \* the workers whose socket the launcher holds a copy of
  running, \* the workers whose process runs
  \* who uses workers
  use,     \* every connection and request: see Idle
  conns,   \* the SSH connections whose socket is open
  \* serveSSH, of the running generation
  shutting, \* its closed
  accept,   \* its accept loop: "accepting", "holds" a connection, has it
            \* "tracked"; then it "returned", and "waiting" for wg
  wg,       \* its wait group's count
  \* the server
  stopping, \* server.stopping is closed
  srv,      \* where swap, shutdown and Close are
  swaps     \* how many swaps it made

poolVars == <<m, failed, closed, wk, rst>>
launchVars == <<conv, asked, held, running>>
sshVars == <<shutting, accept, wg>>
srvVars == <<stopping, srv, swaps>>
vars == <<poolVars, launchVars, use, conns, sshVars, srvVars>>

\* A worker: fs is "nil" until ready is closed, then "open" or "err", and
\* "shut" once closed; fired counts the idle callbacks that wait for pool.mu.
Blank == [key |-> NoKey, fs |-> "blank", refs |-> 0, timer |-> FALSE, fired |-> 0]

\* A use: at names the step of acquire, or of the session around it.
Idle == [at |-> "off", key |-> NoKey, w |-> None]

InAcquire == {"acquire", "starting", "asking", "failing", "waiting", "dead", "forget"}
Counting(w) == {u \in Uses : use[u].w = w /\ use[u].at \in (InAcquire \ {"failing", "forget"}) \cup {"using"}}

Init ==
  /\ m = [k \in Keys |-> None] /\ failed = {} /\ closed = FALSE
  /\ wk = [w \in Ids |-> Blank] /\ rst = {}
  /\ conv = None /\ asked = "no" /\ held = {}
  /\ running = {}
  /\ use = [u \in Uses |-> Idle] /\ conns = {}
  /\ shutting = FALSE /\ accept = "accepting" /\ wg = 0
  /\ stopping = FALSE /\ srv = "serving" /\ swaps = 0

\* A worker out of the map.  Its count is never read again, and its timer, if
\* it was not stopped, goes off and does nothing: neither is kept.
Dropped(w) == [wk[w] EXCEPT !.refs = 0, !.timer = FALSE]

At(u, a) == use' = [use EXCEPT ![u].at = a]
\* acquire returned an error: SFTP leaves the share out, and a person with no
\* share left is refused; WebDAV answers 403 or 503.
Refused(u) == IF u \in Ssh THEN "ended" ELSE "off"
Leave(u) == use' = [use EXCEPT ![u] = [at |-> Refused(u), key |-> NoKey, w |-> None]]
-----------------------------------------------------------------------------
(***************************************************************************)
(* workerPool.acquire.                                                     *)
(***************************************************************************)

\* One more use, and the idle timer stopped.  (The count of a worker whose
\* start failed is never read again, and is left as it is.)
counted(w) == wk' = [wk EXCEPT ![w].refs = IF wk[w].fs = "err" THEN @ ELSE @ + 1, ![w].timer = FALSE]

\* Under pool.mu: refused, or a new worker that this use starts, or the one
\* there is, kept from its idle timer.
acquire(u) ==
  LET k == use[u].key
  IN /\ use[u].at = "acquire"
     /\ \/ /\ closed \/ k \in failed
           /\ Leave(u)
           /\ UNCHANGED <<m, wk>>
        \/ /\ ~closed /\ k \notin failed /\ m[k] = None
           /\ \E w \in Ids :
                /\ wk[w] = Blank /\ \A v \in 1..(w - 1) : wk[v] # Blank
                /\ wk' = [wk EXCEPT ![w] = [key |-> k, fs |-> "nil", refs |-> 1, timer |-> FALSE, fired |-> 0]]
                /\ m' = [m EXCEPT ![k] = w]
                /\ use' = [use EXCEPT ![u].at = "starting", ![u].w = w]
        \/ /\ ~closed /\ k \notin failed /\ m[k] # None
           /\ counted(m[k])
           /\ use' = [use EXCEPT ![u].at = "waiting", ![u].w = m[k]]
           /\ UNCHANGED m
  /\ UNCHANGED <<failed, closed, rst, launchVars, conns, sshVars, srvVars>>

\* The hold on a failure is over.
HoldEnds(k) ==
  /\ k \in failed
  /\ failed' = failed \ {k}
  /\ UNCHANGED <<m, closed, wk, rst, launchVars, use, conns, sshVars, srvVars>>

\* The start failed: the worker is dropped, if it is still the key's, and the
\* failure is held.
StartFailed(u) ==
  LET w == use[u].w  k == use[u].key
  IN /\ use[u].at = "failing"
     /\ m' = IF m[k] = w THEN [m EXCEPT ![k] = None] ELSE m
     /\ wk' = [wk EXCEPT ![w] = Dropped(w)]
     /\ failed' = failed \cup {k}
     /\ Leave(u)
  /\ UNCHANGED <<closed, rst, launchVars, conns, sshVars, srvVars>>

\* worker.alive: a worker that is closed or has exited answers fs.ErrClosed.
alive(w) == wk[w].fs = "open" /\ w \in running

\* ready is closed: the failure is this use's too, or the worker is used, or
\* it is gone.
Waited(u) ==
  LET w == use[u].w
  IN /\ use[u].at = "waiting"
     /\ wk[w].fs # "nil"
     /\ \/ wk[w].fs = "err" /\ Leave(u)
        \/ alive(w) /\ At(u, "using")
        \/ wk[w].fs # "err" /\ ~alive(w) /\ At(u, "dead")
  /\ UNCHANGED <<poolVars, launchVars, conns, sshVars, srvVars>>

\* Mutant of release: the count is read before it is lowered.
releaseEarly(w) ==
  wk' = IF m[wk[w].key] = w
          THEN [wk EXCEPT ![w].refs = @ - 1, ![w].timer = wk[w].refs = 0]
          ELSE wk

\* worker.release, under pool.mu: the last use of a worker the pool still
\* has sets its idle timer.
release(w) ==
  wk' = IF m[wk[w].key] = w
          THEN [wk EXCEPT ![w].refs = @ - 1, ![w].timer = wk[w].refs = 1]
          ELSE wk

Release(u, to) ==
  /\ release(use[u].w)
  /\ use' = [use EXCEPT ![u] = [at |-> to, key |-> IF to = "forget" THEN @.key ELSE NoKey,
                                           w |-> IF to = "forget" THEN @.w ELSE None]]
  /\ UNCHANGED <<m, failed, closed, rst, launchVars, conns, sshVars, srvVars>>

\* A dead worker is released, forgotten and closed, and acquire starts over.
DeadRelease(u) == use[u].at = "dead" /\ Release(u, "forget")

forget(u) ==
  LET w == use[u].w
      mine == m[wk[w].key] = w
  IN /\ use[u].at = "forget"
     /\ m' = IF mine THEN [m EXCEPT ![wk[w].key] = None] ELSE m
     /\ wk' = [wk EXCEPT ![w] = [Dropped(w) EXCEPT !.fs = "shut"]]
     /\ use' = [use EXCEPT ![u].at = "acquire", ![u].w = None]
  /\ UNCHANGED <<failed, closed, rst, launchVars, conns, sshVars, srvVars>>

\* The idle timer goes off: its callback then waits for pool.mu, and stopping
\* the timer no longer stops it.
TimerFires(w) ==
  /\ wk[w].timer /\ wk[w].fired < MaxFired
  /\ wk' = [wk EXCEPT ![w].timer = FALSE, ![w].fired = @ + 1]
  /\ UNCHANGED <<m, failed, closed, rst, launchVars, use, conns, sshVars, srvVars>>

\* Mutant of idle: the callback trusts the timer.
idleTrusting(w) ==
  /\ wk[w].fired > 0
  /\ m' = IF m[wk[w].key] = w THEN [m EXCEPT ![wk[w].key] = None] ELSE m
  /\ wk' = [wk EXCEPT ![w] = IF m[wk[w].key] = w
                                THEN [Dropped(w) EXCEPT !.fired = @ - 1, !.fs = "shut"]
                                ELSE [wk[w] EXCEPT !.fired = @ - 1]]
  /\ UNCHANGED <<failed, closed, rst, launchVars, use, conns, sshVars, srvVars>>

\* The callback: a worker used since, or no longer the pool's, is left alone;
\* otherwise it is dropped, and then closed, when nobody can reach it.
idle(w) ==
  /\ wk[w].fired > 0
  /\ LET ends == wk[w].refs = 0 /\ m[wk[w].key] = w
     IN /\ m' = IF ends THEN [m EXCEPT ![wk[w].key] = None] ELSE m
        /\ wk' = [wk EXCEPT ![w] = IF ends THEN [Dropped(w) EXCEPT !.fired = @ - 1, !.fs = "shut"]
                                           ELSE [wk[w] EXCEPT !.fired = @ - 1]]
  /\ UNCHANGED <<failed, closed, rst, launchVars, use, conns, sshVars, srvVars>>

\* Not a step of the program: a worker nothing refers to is garbage, and its
\* name may stand for another.
Collect(w) ==
  /\ wk[w].fs \in {"err", "shut"} /\ w \notin running
  /\ ~wk[w].timer /\ wk[w].fired = 0
  /\ w \notin rst /\ w \notin held /\ conv # w
  /\ \A k \in Keys : m[k] # w
  /\ \A u \in Uses : use[u].w # w
  /\ wk' = [wk EXCEPT ![w] = Blank]
  /\ UNCHANGED <<m, failed, closed, rst, launchVars, use, conns, sshVars, srvVars>>
-----------------------------------------------------------------------------
(***************************************************************************)
(* Client.Worker and Launcher.Serve: one request at a time.                *)
(***************************************************************************)
Ask(u) ==
  /\ use[u].at = "starting" /\ conv = None
  /\ conv' = use[u].w /\ asked' = "sent"
  /\ At(u, "asking")
  /\ UNCHANGED <<poolVars, held, running, conns, sshVars, srvVars>>

\* Launcher.start: no such share, no account, an account the policy forbids,
\* or the process did not start; or it runs, and the launcher holds the other
\* end of its socket.
start ==
  /\ asked = "sent"
  /\ \/ asked' = "no worker" /\ UNCHANGED <<held, running>>
     \/ asked' = "sending" /\ held' = held \cup {conv} /\ running' = running \cup {conv}
  /\ UNCHANGED <<poolVars, conv, use, conns, sshVars, srvVars>>

\* Mutant of replies: the launcher keeps its copy of the socket.
repliesKeeping ==
  /\ asked = "sending"
  /\ asked' = "answered"
  /\ UNCHANGED <<poolVars, conv, held, running, use, conns, sshVars, srvVars>>

\* The reply carries the descriptor; then the launcher closes its own copy.
\* The message in flight holds one for the front.
replies ==
  /\ asked = "sending"
  /\ asked' = "answered"
  /\ held' = held \ {conv}
  /\ UNCHANGED <<poolVars, conv, running, use, conns, sshVars, srvVars>>

\* The answer is read, fsys or err is set and ready is closed.  A descriptor
\* may have come that is no worker's: remote.New fails, and nobody holds it.
Answered(u) ==
  /\ use[u].at = "asking" /\ asked \in {"no worker", "answered"}
  /\ \/ /\ asked = "answered"
        /\ wk' = [wk EXCEPT ![conv].fs = "open"]
        /\ At(u, "using")
     \/ /\ wk' = [wk EXCEPT ![conv].fs = "err"]
        /\ At(u, "failing")
  /\ conv' = None /\ asked' = "no"
  /\ UNCHANGED <<m, failed, closed, rst, held, running, conns, sshVars, srvVars>>

\* Somebody holds the other end of a worker's socket: the launcher, a message
\* in flight, the front.
SocketHeld(w) == \/ w \in held
                 \/ conv = w /\ asked = "answered"
                 \/ wk[w].fs = "open" /\ srv # "exited"

\* remote.Serve returns when the socket closes; or the worker crashes, or
\* refused to serve, not finding itself as it was told it would (Verify).
WorkerEnds(w) ==
  /\ w \in running
  /\ ~SocketHeld(w)
  /\ running' = running \ {w}
  /\ UNCHANGED <<poolVars, conv, asked, held, use, conns, sshVars, srvVars>>

WorkerDies(w) ==
  /\ w \in running
  /\ SocketHeld(w)
  /\ running' = running \ {w}
  /\ UNCHANGED <<poolVars, conv, asked, held, use, conns, sshVars, srvVars>>
-----------------------------------------------------------------------------
(***************************************************************************)
(* The sessions.                                                           *)
(***************************************************************************)

\* byUser.asThem: a request, already let in, asks for its worker.
Request(u, k) ==
  /\ u \in Http /\ use[u] = Idle /\ srv = "serving"
  /\ use' = [use EXCEPT ![u] = [at |-> "acquire", key |-> k, w |-> None]]
  /\ UNCHANGED <<poolVars, launchVars, conns, sshVars, srvVars>>

RequestEnds(u) ==
  /\ u \in Http /\ use[u].at = "using"
  /\ Release(u, "off")

\* serveSSH's accept loop takes a connection.
SshAccepts(u) ==
  /\ u \in Ssh /\ use[u] = Idle
  /\ accept = "accepting" /\ srv = "serving"
  /\ accept' = "holds"
  /\ conns' = conns \cup {u}
  /\ At(u, "accepted")
  /\ UNCHANGED <<poolVars, launchVars, shutting, wg, srvVars>>

\* Under serveSSH's mu: the connection is in the table, or closed.
SshTracks(u) ==
  /\ use[u].at = "accepted" /\ accept = "holds"
  /\ IF shutting THEN accept' = "accepting" /\ At(u, "off") /\ conns' = conns \ {u}
                 ELSE accept' = "tracked" /\ At(u, "tracked") /\ UNCHANGED conns
  /\ UNCHANGED <<poolVars, launchVars, shutting, wg, srvVars>>

\* Mutant of SshSpawns: no wg.Add.
SshSpawnsUncounted(u) ==
  /\ use[u].at = "tracked" /\ accept = "tracked"
  /\ accept' = "accepting"
  /\ At(u, "handshake")
  /\ UNCHANGED <<poolVars, launchVars, conns, shutting, wg, srvVars>>

\* wg.Add, and then the goroutine that handles it.
SshSpawns(u) ==
  /\ use[u].at = "tracked" /\ accept = "tracked"
  /\ accept' = "accepting" /\ wg' = wg + 1
  /\ At(u, "handshake")
  /\ UNCHANGED <<poolVars, launchVars, conns, shutting, srvVars>>

\* ServerForLogin: the person proved who they are, and their tree is built.
SshLogsIn(u, k) ==
  /\ use[u].at = "handshake" /\ u \in conns
  /\ use' = [use EXCEPT ![u] = [at |-> "acquire", key |-> k, w |-> None]]
  /\ UNCHANGED <<poolVars, launchVars, conns, sshVars, srvVars>>

\* The client leaves, or the handshake's deadline passes.  (Nothing is read
\* from the connection while its tree is built: one that left is noticed after.)
SshHangsUp(u) ==
  /\ u \in conns /\ use[u].at \in {"handshake", "using"}
  /\ conns' = conns \ {u}
  /\ UNCHANGED <<poolVars, launchVars, use, sshVars, srvVars>>

\* handle returns when the connection is closed; then ended runs the release
\* that ServerForLogin left with onClose.
SshEnds(u) ==
  /\ u \in Ssh \ conns
  /\ \/ use[u].at = "using" /\ Release(u, "ended")
     \/ /\ use[u].at = "handshake" /\ At(u, "ended")
        /\ UNCHANGED <<poolVars, launchVars, conns, sshVars, srvVars>>

\* The connection leaves the table and is closed: wg.Done.
SshDone(u) ==
  /\ use[u].at = "ended"
  /\ use' = [use EXCEPT ![u] = Idle]
  /\ conns' = conns \ {u}
  /\ wg' = wg - 1
  /\ UNCHANGED <<poolVars, launchVars, shutting, accept, srvVars>>

\* shut: no connection enters the table from here on, and those in it are
\* closed.
shut ==
  /\ shutting' = TRUE
  /\ conns' = {u \in conns : use[u].at = "accepted"}

\* The goroutine that shuts, told by server.stopping or because the accept
\* loop returned.
SshShut ==
  /\ ~shutting
  /\ stopping \/ accept = "returned"
  /\ shut
  /\ UNCHANGED <<poolVars, launchVars, use, accept, wg, srvVars>>

\* ln.Accept fails: the generation's listener is closed, by generation.stop
\* or by shut.
SshAcceptFails ==
  /\ accept = "accepting"
  /\ srv \in {"swapping", "shutting down"} \/ shutting
  /\ accept' = "returned"
  /\ UNCHANGED <<poolVars, launchVars, use, conns, shutting, wg, srvVars>>

\* What serveSSH deferred: shut, whoever did it before, and then wg.Wait.
SshReturns ==
  /\ accept = "returned"
  /\ accept' = "waiting"
  /\ shut
  /\ UNCHANGED <<poolVars, launchVars, use, wg, srvVars>>

\* serveSSH has returned: wg.Wait has.
SshReturned == accept = "waiting" /\ wg = 0
-----------------------------------------------------------------------------
(***************************************************************************)
(* server.swap, server.shutdown and server.Close.                          *)
(***************************************************************************)

\* generation.stop: the listeners are shut, and every connection with them.
StopGeneration(next) ==
  /\ srv' = next
  /\ conns' = {}

Swap ==
  /\ srv = "serving" /\ swaps < MaxSwaps
  /\ swaps' = swaps + 1
  /\ StopGeneration("swapping")
  /\ UNCHANGED <<poolVars, launchVars, use, sshVars, stopping>>

\* reset, under pool.mu: the maps are replaced, the timers stopped.
reset ==
  /\ rst' = {w \in Ids : \E k \in Keys : m[k] = w}
  /\ m' = [k \in Keys |-> None]
  /\ failed' = {}
  /\ wk' = [w \in Ids |-> IF w \in rst' THEN Dropped(w) ELSE wk[w]]

\* Mutant of ResetCloses: a worker that is still starting is passed over.
ResetClosesReady(w) ==
  /\ srv \in {"resetting", "closing"} /\ w \in rst
  /\ rst' = rst \ {w}
  /\ wk' = [wk EXCEPT ![w].fs = IF @ = "open" THEN "shut" ELSE @]
  /\ UNCHANGED <<m, failed, closed, launchVars, use, conns, sshVars, srvVars>>

\* reset waits for a worker to be ready, and closes it.
ResetCloses(w) ==
  /\ srv \in {"resetting", "closing"} /\ w \in rst
  /\ wk[w].fs # "nil"
  /\ rst' = rst \ {w}
  /\ wk' = [wk EXCEPT ![w].fs = IF @ = "open" THEN "shut" ELSE @]
  /\ UNCHANGED <<m, failed, closed, launchVars, use, conns, sshVars, srvVars>>

SwapResets ==
  /\ srv = "swapping" /\ SshReturned
  /\ reset
  /\ srv' = "resetting"
  /\ UNCHANGED <<closed, launchVars, use, conns, sshVars, stopping, swaps>>

\* startGeneration.
SwapStarts ==
  /\ srv = "resetting" /\ rst = {}
  /\ srv' = "serving"
  /\ accept' = "accepting" /\ shutting' = FALSE
  /\ UNCHANGED <<poolVars, launchVars, use, conns, wg, stopping, swaps>>

\* shutdown, first half: the protocols that stop by their own Close are told.
\* It does not wait for runMu.
Stop ==
  /\ ~stopping
  /\ stopping' = TRUE
  /\ UNCHANGED <<poolVars, launchVars, use, conns, sshVars, srv, swaps>>

Shutdown ==
  /\ stopping /\ srv = "serving"
  /\ StopGeneration("shutting down")
  /\ UNCHANGED <<poolVars, launchVars, use, sshVars, stopping, swaps>>

\* workerPool.Close, first half: no worker is started from here on.
CloseBegins ==
  /\ srv = "shutting down" /\ SshReturned
  /\ closed' = TRUE
  /\ srv' = "closed"
  /\ UNCHANGED <<m, failed, wk, rst, launchVars, use, conns, sshVars, stopping, swaps>>

CloseResets ==
  /\ srv = "closed"
  /\ reset
  /\ srv' = "closing"
  /\ UNCHANGED <<closed, launchVars, use, conns, sshVars, stopping, swaps>>

\* Every worker is closed, the socket to the launcher too, and the front
\* exits with whatever requests it still answers.
Exit ==
  /\ srv = "closing" /\ rst = {}
  /\ srv' = "exited"
  /\ UNCHANGED <<poolVars, launchVars, use, conns, sshVars, stopping, swaps>>
-----------------------------------------------------------------------------
Acquires(u) == acquire(u) \/ StartFailed(u) \/ Waited(u) \/ DeadRelease(u) \/ forget(u)
Asks(u) == Ask(u) \/ Answered(u)
Launches == start \/ replies
Times(w) == TimerFires(w) \/ idle(w) \/ Collect(w) \/ WorkerEnds(w)
SshRuns(u) == SshTracks(u) \/ SshSpawns(u) \/ SshEnds(u) \/ SshDone(u)
ServeSSH == SshShut \/ SshAcceptFails \/ SshReturns
ShutsDown == Shutdown \/ CloseBegins \/ CloseResets \/ Exit
Swaps == SwapResets \/ SwapStarts
Resets(w) == ResetCloses(w)

Next ==
  \/ \E u \in Uses : Acquires(u) \/ Asks(u)
  \/ \E u \in Http : RequestEnds(u) \/ \E k \in Keys : Request(u, k)
  \/ \E u \in Ssh : SshAccepts(u) \/ SshRuns(u) \/ SshHangsUp(u) \/ \E k \in Keys : SshLogsIn(u, k)
  \/ \E k \in Keys : HoldEnds(k)
  \/ \E w \in Ids : Times(w) \/ WorkerDies(w) \/ Resets(w)
  \/ Launches \/ ServeSSH \/ Swap \/ Swaps \/ Stop \/ ShutsDown
  \/ srv = "exited" /\ UNCHANGED vars

Spec == Init /\ [][Next]_vars

\* Fairness: the front's goroutines and the launcher's loop run, timers go
\* off, a request is answered in the end, and a process whose socket is
\* closed ends.  Nothing is assumed of clients, of crashes or of swaps.
FairSpec ==
  /\ Spec
  /\ \A u \in Uses : WF_vars(Acquires(u)) /\ SF_vars(Ask(u)) /\ WF_vars(Answered(u))
  /\ \A u \in Http : WF_vars(RequestEnds(u))
  /\ \A u \in Ssh : WF_vars(SshRuns(u))
  /\ \A w \in Ids : WF_vars(Times(w)) /\ WF_vars(Resets(w))
  /\ WF_vars(Launches) /\ WF_vars(ServeSSH) /\ WF_vars(ShutsDown) /\ WF_vars(Swaps)
-----------------------------------------------------------------------------
(***************************************************************************)
(* Properties.                                                             *)
(***************************************************************************)

Worker == [key : Keys \cup {NoKey}, fs : {"blank", "nil", "open", "err", "shut"}, refs : Int,
           timer : BOOLEAN, fired : 0..MaxFired]
Use == [at : InAcquire \cup {"off", "using", "accepted", "tracked", "handshake", "ended"},
        key : Keys \cup {NoKey}, w : Ids \cup {None}]

\* The types of the variables.
TypeOK ==
  /\ m \in [Keys -> Ids \cup {None}] /\ failed \subseteq Keys /\ closed \in BOOLEAN
  /\ wk \in [Ids -> Worker] /\ \A w \in Ids : wk[w].refs \in 0..Cardinality(Uses)
  /\ rst \subseteq Ids /\ held \subseteq Ids /\ conv \in Ids \cup {None}
  /\ asked \in {"no", "sent", "no worker", "sending", "answered"}
  /\ running \subseteq Ids
  /\ use \in [Uses -> Use]
  /\ conns \subseteq Ssh /\ shutting \in BOOLEAN /\ wg \in 0..Cardinality(Ssh)
  /\ accept \in {"accepting", "holds", "tracked", "returned", "waiting"}
  /\ stopping \in BOOLEAN /\ swaps \in 0..MaxSwaps
  /\ srv \in {"serving", "swapping", "resetting", "shutting down", "closed", "closing", "exited"}

\* The pool is the only thing that keeps a worker alive: a filesystem that is
\* open, or will be when its start ends, is in the pool's map or on the list
\* of a reset that will close it.  None is left for nobody to close.
NoStrayWorker ==
  \A w \in Ids :
    wk[w].fs \in {"nil", "open"} /\ srv # "exited" =>
      m[wk[w].key] = w \/ w \in rst

\* The idle timer never closes a worker under somebody: a callback that lost
\* the race for pool.mu to an acquire leaves the worker alone.
IdleClosesUnused ==
  [][\A w \in Ids : wk'[w].fired < wk[w].fired /\ wk'[w].fs # wk[w].fs => Counting(w) = {}]_vars

\* "Every connection that used a worker went with the generation": when swap
\* and Close take the workers, the wait group of serveSSH has counted every
\* connection down, and none is left that it did not count, not even one that
\* was accepted as serveSSH was told to stop.
SessionsEndFirst == srv \in {"resetting", "closed", "closing"} => \A u \in Ssh : use[u].at = "off"

\* Once told to stop, the server stops, and no worker outlives it.
StopEnds == stopping ~> (srv = "exited" /\ running = {})

\* A worker process nobody uses ends.
UnusedEnds == \A w \in Ids : []<>(w \notin running \/ Counting(w) # {})
=============================================================================
