---------------------------- MODULE Generation ----------------------------
(***************************************************************************)
(* Generations of protocol servers over listening sockets that outlive     *)
(* them: generation.go, and the part of server.go that starts, swaps and   *)
(* shuts generations down (run, swap, shutdown).                           *)
(*                                                                         *)
(* A feed is one bound socket.  Its accept goroutine takes connections     *)
(* from the kernel and offers each on an unbuffered channel.  A generation *)
(* has, for every feed, a genListener and a goroutine that runs the        *)
(* protocol server over it.  swap stops the running generation, waits for  *)
(* its goroutines and starts the next one; shutdown closes the feeds and   *)
(* stops the running generation.  Both work under server.runMu; the two    *)
(* callers of swap (manager.apply and server.reload) are serialised by     *)
(* server.changeMu, so one swapper process stands for both.                *)
(***************************************************************************)
EXTENDS Integers, FiniteSets

CONSTANTS Feeds,   \* the bound sockets, one per serve block
          Conns,   \* the connections clients make
          MaxGen   \* bound: how many generations a behaviour may start

ASSUME FeedsAssumption == Feeds # {} /\ IsFiniteSet(Feeds)
ASSUME ConnsAssumption == IsFiniteSet(Conns)
ASSUME MaxGenAssumption == MaxGen \in Nat \ {0}

VARIABLES
  \* connections
  status,    \* where each connection is, see Status
  feedOf,    \* the feed it was made to
  genOf,     \* the generation whose listener received it, 0 when none has
  \* feeds
  acceptor,  \* feed.accept: "accepting", "handing" (in its select) or "done"
  failed,    \* feed.err, see Errors
  closing,   \* feed.closing is closed, and the socket with it
  accepted,  \* feed.accepted
  open,      \* feed.open
  \* generations
  pc,        \* the goroutine of startGeneration, per generation and feed
  stop,      \* genListener.stop is closed, per generation and feed
  lists,     \* which share list that protocol server read, 0 before it did
  stopped,   \* generation.stopped
  \* the server
  genN,      \* server.genN
  live,      \* server.gen # nil
  shares,    \* server.shares, as the number of the list
  ready,     \* server.ready
  stopping,  \* server.stopping is closed
  failures,  \* the channel server.failures (capacity 1) holds an error
  main,      \* where run is
  swapper    \* where swap is

connVars == <<status, feedOf, genOf>>
feedVars == <<acceptor, failed, closing, accepted>>
genVars  == <<pc, stop, lists, stopped>>
srvVars  == <<genN, live, shares, ready, stopping, failures, main, swapper>>
vars == <<connVars, feedVars, open, genVars, srvVars>>

Gens == 1..MaxGen

(***************************************************************************)
(* absent: the client has not connected.  backlog: in the kernel's queue.  *)
(* held: accepted, and offered on feed.conns.  taken: received by          *)
(* genListener.Accept, which has not yet looked at stop.  tracked: in      *)
(* genListener.conns, being served.  closing: its socket is closed and     *)
(* trackedConn.once has not run yet.  closed: over.  dropped: closed by    *)
(* this program without having been served.  refused: reset by the kernel  *)
(* when the socket closed.                                                 *)
(***************************************************************************)
Status == {"absent", "backlog", "held", "taken", "tracked", "closing",
           "closed", "dropped", "refused"}

\* feed.err: "no" is none, or net.ErrClosed.  "fatal" is one the protocol
\* server returns, "temporary" one it does not: net/http's Serve, which
\* WebDAV and S3 run, calls Accept again after an error that is Temporary()
\* (too many open files).
Errors == {"no", "fatal", "temporary"}

\* The connections feed.open counts: open.Add(1) in Accept, open.Add(-1) in
\* trackedConn.once.
Counted(f) == {c \in Conns : feedOf[c] = f /\ status[c] \in {"taken", "tracked", "closing"}}

\* The connections genListener.conns holds for a listener, or that shut took
\* from it and has not finished closing.
TrackedBy(g, f) == {c \in Conns : /\ genOf[c] = g
                                  /\ feedOf[c] = f
                                  /\ status[c] \in {"tracked", "closing"}}

\* server.runMu is held from swap's first line to its last, and by shutdown
\* from closeFeeds to gen = nil.
RunMuFree == swapper = "idle" /\ main \notin {"closing", "stopping"}

\* generation.stop is running, called by swap or by shutdown.
InStop == swapper = "stopping" \/ main = "stopping"
-----------------------------------------------------------------------------
Init ==
  /\ status = [c \in Conns |-> "absent"]
  /\ feedOf \in [Conns -> Feeds]
  /\ genOf = [c \in Conns |-> 0]
  /\ acceptor = [f \in Feeds |-> "accepting"]
  /\ failed = [f \in Feeds |-> "no"]
  /\ closing = [f \in Feeds |-> FALSE]
  /\ accepted = [f \in Feeds |-> 0]
  /\ open = [f \in Feeds |-> 0]
  /\ pc = [g \in Gens |-> [f \in Feeds |-> "off"]]
  /\ stop = [g \in Gens |-> [f \in Feeds |-> FALSE]]
  /\ lists = [g \in Gens |-> [f \in Feeds |-> 0]]
  /\ stopped = [g \in Gens |-> FALSE]
  /\ genN = 0
  /\ live = FALSE
  /\ shares = 1
  /\ ready = FALSE
  /\ stopping = FALSE
  /\ failures = FALSE
  /\ main = "bound"
  /\ swapper = "idle"
-----------------------------------------------------------------------------
(***************************************************************************)
(* Clients (the environment): connecting reaches the kernel's queue while  *)
(* the socket is open.                                                     *)
(***************************************************************************)
Connect(c) ==
  /\ status[c] = "absent"
  /\ ~closing[feedOf[c]]
  /\ status' = [status EXCEPT ![c] = "backlog"]
  /\ UNCHANGED <<feedOf, genOf, feedVars, open, genVars, srvVars>>

(***************************************************************************)
(* The accept goroutine of a feed.                                         *)
(***************************************************************************)

\* ln.Accept returned a connection: it is counted, then offered.
FeedAccept(f, c) ==
  /\ acceptor[f] = "accepting"
  /\ ~closing[f]
  /\ feedOf[c] = f /\ status[c] = "backlog"
  /\ status' = [status EXCEPT ![c] = "held"]
  /\ acceptor' = [acceptor EXCEPT ![f] = "handing"]
  /\ accepted' = [accepted EXCEPT ![f] = @ + 1]
  /\ UNCHANGED <<feedOf, genOf, failed, closing, open, genVars, srvVars>>

\* ln.Accept failed: because the socket was closed, or for another reason.
FeedAcceptFails(f) ==
  /\ acceptor[f] = "accepting"
  /\ acceptor' = [acceptor EXCEPT ![f] = "done"]
  /\ \E e \in Errors : /\ closing[f] <=> e = "no"
                       /\ failed' = [failed EXCEPT ![f] = e]
  /\ UNCHANGED <<connVars, closing, accepted, open, genVars, srvVars>>

\* The select chose closing: nobody takes the connection, so it is closed.
FeedDrop(f, c) ==
  /\ acceptor[f] = "handing"
  /\ closing[f]
  /\ feedOf[c] = f /\ status[c] = "held"
  /\ status' = [status EXCEPT ![c] = "dropped"]
  /\ acceptor' = [acceptor EXCEPT ![f] = "done"]
  /\ UNCHANGED <<feedOf, genOf, failed, closing, accepted, open, genVars, srvVars>>
-----------------------------------------------------------------------------
(***************************************************************************)
(* The goroutine startGeneration starts for a feed.  Its states: "off",    *)
(* "setup" (p.serve is building the protocol server), "accepting" (in      *)
(* genListener.Accept), "got" (Accept received, has not locked mu),        *)
(* "failed" and "ended" (p.serve returned an error or net.ErrClosed), and  *)
(* "returned" (wg.Done).                                                   *)
(***************************************************************************)

\* p.serve reads the shares and starts accepting.
ServerSetup(g, f) ==
  /\ pc[g][f] = "setup"
  /\ lists' = [lists EXCEPT ![g][f] = shares]
  /\ pc' = [pc EXCEPT ![g][f] = "accepting"]
  /\ UNCHANGED <<connVars, feedVars, open, stop, stopped, srvVars>>

\* p.serve returns an error of its own, or panics and is recovered.
ServerFails(g, f) ==
  /\ pc[g][f] \in {"setup", "accepting"}
  /\ pc' = [pc EXCEPT ![g][f] = "failed"]
  /\ UNCHANGED <<connVars, feedVars, open, stop, lists, stopped, srvVars>>

\* Accept's select received: the rendezvous with the accept goroutine.  A
\* closed stop does not prevent it, select picks any ready case.
Take(g, f, c) ==
  /\ pc[g][f] = "accepting"
  /\ acceptor[f] = "handing"
  /\ feedOf[c] = f /\ status[c] = "held"
  /\ pc' = [pc EXCEPT ![g][f] = "got"]
  /\ acceptor' = [acceptor EXCEPT ![f] = "accepting"]
  /\ status' = [status EXCEPT ![c] = "taken"]
  /\ genOf' = [genOf EXCEPT ![c] = g]
  /\ open' = [open EXCEPT ![f] = @ + 1]
  /\ UNCHANGED <<feedOf, failed, closing, accepted, stop, lists, stopped, srvVars>>

\* Under genListener.mu: stop is not closed, the connection is tracked and
\* handed to the protocol server, which accepts again.
Track(g, f, c) ==
  /\ pc[g][f] = "got"
  /\ ~stop[g][f]
  /\ genOf[c] = g /\ feedOf[c] = f /\ status[c] = "taken"
  /\ status' = [status EXCEPT ![c] = "tracked"]
  /\ pc' = [pc EXCEPT ![g][f] = "accepting"]
  /\ UNCHANGED <<feedOf, genOf, feedVars, open, stop, lists, stopped, srvVars>>

\* Under genListener.mu: stop is closed, the connection is closed unserved
\* and Accept returns net.ErrClosed.
Untake(g, f, c) ==
  /\ pc[g][f] = "got"
  /\ stop[g][f]
  /\ genOf[c] = g /\ feedOf[c] = f /\ status[c] = "taken"
  /\ status' = [status EXCEPT ![c] = "dropped"]
  /\ open' = [open EXCEPT ![f] = @ - 1]
  /\ pc' = [pc EXCEPT ![g][f] = "ended"]
  /\ UNCHANGED <<feedOf, genOf, feedVars, stop, lists, stopped, srvVars>>

\* Mutant of AcceptEnds: Accept does not wait for stop.
AcceptMissesStop(g, f) ==
  /\ pc[g][f] = "accepting"
  /\ acceptor[f] = "done"
  /\ failed[f] # "temporary"
  /\ pc' = [pc EXCEPT ![g][f] = IF failed[f] = "fatal" THEN "failed" ELSE "ended"]
  /\ UNCHANGED <<connVars, feedVars, open, stop, lists, stopped, srvVars>>

\* Accept's select saw stop closed, or the feed done; either when both are.
\* After a temporary error the server asks again, and Accept, whose feed is
\* done, has the same answer each time: only stop ends that.
AcceptEnds(g, f) ==
  /\ pc[g][f] = "accepting"
  /\ \/ /\ stop[g][f]
        /\ pc' = [pc EXCEPT ![g][f] = "ended"]
     \/ /\ acceptor[f] = "done"
        /\ failed[f] # "temporary"
        /\ pc' = [pc EXCEPT ![g][f] = IF failed[f] = "fatal" THEN "failed" ELSE "ended"]
  /\ UNCHANGED <<connVars, feedVars, open, stop, lists, stopped, srvVars>>

\* Mutant of ServerReturns: a failure is only logged.
ServerReturnsQuietly(g, f) ==
  /\ pc[g][f] \in {"failed", "ended"}
  /\ pc' = [pc EXCEPT ![g][f] = "returned"]
  /\ UNCHANGED <<connVars, feedVars, open, stop, lists, stopped, srvVars>>

\* After p.serve: a failure is reported unless the generation was stopped;
\* the send does not block, a full channel already holds a failure.
ServerReturns(g, f) ==
  /\ pc[g][f] \in {"failed", "ended"}
  /\ pc' = [pc EXCEPT ![g][f] = "returned"]
  /\ failures' = (failures \/ (pc[g][f] = "failed" /\ ~stopped[g]))
  /\ UNCHANGED <<connVars, feedVars, open, stop, lists, stopped,
                 genN, live, shares, ready, stopping, main, swapper>>

\* The protocol server closes its own listener: on its way out, or serveSSH
\* when server.stopping closes.
ServerClosesListener(g, f) ==
  /\ ~stop[g][f]
  /\ \/ pc[g][f] \in {"failed", "ended"}
     \/ stopping /\ pc[g][f] \in {"accepting", "got"}
  /\ stop' = [stop EXCEPT ![g][f] = TRUE]
  /\ UNCHANGED <<connVars, feedVars, open, pc, lists, stopped, srvVars>>
-----------------------------------------------------------------------------
(***************************************************************************)
(* trackedConn.Close: the socket, then once.  The protocol server calls it *)
(* when the session ends, shut calls it for every connection it took.      *)
(***************************************************************************)

\* Mutant of SessionEnds: the counter goes down outside once.
SessionEndsTwice(c) ==
  /\ status[c] = "tracked"
  /\ status' = [status EXCEPT ![c] = "closing"]
  /\ open' = [open EXCEPT ![feedOf[c]] = @ - 1]
  /\ UNCHANGED <<feedOf, genOf, feedVars, genVars, srvVars>>

\* The session ends: the client left, or the protocol server closed it.
SessionEnds(c) ==
  /\ status[c] = "tracked"
  /\ status' = [status EXCEPT ![c] = "closing"]
  /\ UNCHANGED <<feedOf, genOf, feedVars, open, genVars, srvVars>>

\* shut closes a connection of the listener it stopped.
ShutCloses(c) ==
  /\ status[c] = "tracked"
  /\ stop[genOf[c]][feedOf[c]]
  /\ status' = [status EXCEPT ![c] = "closing"]
  /\ UNCHANGED <<feedOf, genOf, feedVars, open, genVars, srvVars>>

\* once: open.Add(-1), and the listener forgets the connection.  Every
\* Close waits for it.
Uncount(c) ==
  /\ status[c] = "closing"
  /\ status' = [status EXCEPT ![c] = "closed"]
  /\ open' = [open EXCEPT ![feedOf[c]] = @ - 1]
  /\ UNCHANGED <<feedOf, genOf, feedVars, genVars, srvVars>>
-----------------------------------------------------------------------------
(***************************************************************************)
(* generation.stop, called by swap and by shutdown: stopped is set, every  *)
(* listener is shut, every goroutine is waited for.                        *)
(***************************************************************************)

\* genListener.shut's critical section: stop is closed, conns is taken.
Shut(f) ==
  /\ InStop
  /\ ~stop[genN][f]
  /\ stop' = [stop EXCEPT ![genN][f] = TRUE]
  /\ UNCHANGED <<connVars, feedVars, open, pc, lists, stopped, srvVars>>

\* Mutants of StopReturned: sessions are left to finish; servers are not
\* waited for.
StopLeavesSessions ==
  \A f \in Feeds : stop[genN][f] /\ pc[genN][f] = "returned"
StopWaitsForNobody ==
  \A f \in Feeds : stop[genN][f] /\ TrackedBy(genN, f) = {}

\* stop has returned: every shut has closed what it took, wg.Wait is over.
StopReturned ==
  \A f \in Feeds : /\ stop[genN][f]
                   /\ TrackedBy(genN, f) = {}
                   /\ pc[genN][f] = "returned"

\* startGeneration: a listener and a goroutine per feed.
startGeneration(g) ==
  /\ pc' = [pc EXCEPT ![g] = [f \in Feeds |-> "setup"]]
  /\ genN' = g
-----------------------------------------------------------------------------
(***************************************************************************)
(* run and shutdown.  run's first action starts generation 1 over the feeds *)
(* it has bound.                                                           *)
(***************************************************************************)
RunStart ==
  /\ main = "bound"
  /\ startGeneration(1)
  /\ live' = TRUE
  /\ main' = "started"
  /\ UNCHANGED <<connVars, feedVars, open, stop, lists, stopped,
                 shares, ready, stopping, failures, swapper>>

\* ready is stored outside runMu, before anything that can call swap exists.
RunReady ==
  /\ main = "started"
  /\ ready' = TRUE
  /\ main' = "serving"
  /\ UNCHANGED <<connVars, feedVars, open, genVars, genN, live, shares,
                 stopping, failures, swapper>>

\* shutdown begins: it clears ready, closes server.stopping, and goes for
\* runMu.
Leave ==
  /\ main = "serving"
  /\ ready' = FALSE
  /\ stopping' = TRUE
  /\ main' = "leaving"
  /\ UNCHANGED <<connVars, feedVars, open, genVars, genN, live, shares, swapper>>

\* The context is cancelled, or startControl failed.
RunCancelled == Leave /\ UNCHANGED failures

\* A protocol reported a failure: one failure stops the lot.
RunSeesFailure == failures /\ failures' = FALSE /\ Leave

\* Mutant of ShutdownLock: ready is cleared before runMu only.
ShutdownLockOnly ==
  /\ main = "leaving"
  /\ RunMuFree
  /\ main' = "closing"
  /\ UNCHANGED <<connVars, feedVars, open, genVars, genN, live, shares, ready,
                 stopping, failures, swapper>>

ShutdownLock ==
  /\ main = "leaving"
  /\ RunMuFree
  /\ ready' = FALSE
  /\ main' = "closing"
  /\ UNCHANGED <<connVars, feedVars, open, genVars, genN, live, shares,
                 stopping, failures, swapper>>

\* closeFeeds, one feed: closing is closed, then the socket.  The kernel
\* resets what was still in its queue.
CloseFeed(f) ==
  /\ main = "closing"
  /\ ~closing[f]
  /\ closing' = [closing EXCEPT ![f] = TRUE]
  /\ status' = [c \in Conns |-> IF feedOf[c] = f /\ status[c] = "backlog"
                                THEN "refused" ELSE status[c]]
  /\ UNCHANGED <<feedOf, genOf, acceptor, failed, accepted, open, genVars, srvVars>>

ShutdownStop ==
  /\ main = "closing"
  /\ \A f \in Feeds : closing[f]
  /\ stopped' = [stopped EXCEPT ![genN] = TRUE]
  /\ main' = "stopping"
  /\ UNCHANGED <<connVars, feedVars, open, pc, stop, lists, genN, live, shares,
                 ready, stopping, failures, swapper>>

ShutdownEnd ==
  /\ main = "stopping"
  /\ StopReturned
  /\ live' = FALSE
  /\ main' = "stopped"
  /\ UNCHANGED <<connVars, feedVars, open, genVars, genN, shares, ready,
                 stopping, failures, swapper>>
-----------------------------------------------------------------------------
(***************************************************************************)
(* swap.                                                                   *)
(***************************************************************************)

\* Mutant of SwapBegin: the new list is installed before the old one's
\* sessions are closed.
SwapInstallsFirst ==
  /\ RunMuFree
  /\ main \notin {"bound", "started"}
  /\ live
  /\ genN < MaxGen
  /\ ready' = FALSE
  /\ shares' = shares + 1
  /\ stopped' = [stopped EXCEPT ![genN] = TRUE]
  /\ swapper' = "stopping"
  /\ UNCHANGED <<connVars, feedVars, open, pc, stop, lists, genN, live,
                 stopping, failures, main>>

\* Refused when no generation runs; otherwise not ready, and stop begins.
\* Whoever calls swap is started after ready was first stored.
SwapBegin ==
  /\ RunMuFree
  /\ main \notin {"bound", "started"}
  /\ live
  /\ genN < MaxGen
  /\ ready' = FALSE
  /\ stopped' = [stopped EXCEPT ![genN] = TRUE]
  /\ swapper' = "stopping"
  /\ UNCHANGED <<connVars, feedVars, open, pc, stop, lists, genN, live, shares,
                 stopping, failures, main>>

\* The old generation is gone: the new list is installed and served.
SwapStart ==
  /\ swapper = "stopping"
  /\ StopReturned
  /\ shares' = shares + 1
  /\ startGeneration(genN + 1)
  /\ swapper' = "started"
  /\ UNCHANGED <<connVars, feedVars, open, stop, lists, stopped, live, ready,
                 stopping, failures, main>>

SwapEnd ==
  /\ swapper = "started"
  /\ ready' = TRUE
  /\ swapper' = "idle"
  /\ UNCHANGED <<connVars, feedVars, open, genVars, genN, live, shares,
                 stopping, failures, main>>
-----------------------------------------------------------------------------
\* Everything has ended: the process exits.
Exited ==
  /\ main = "stopped"
  /\ \A f \in Feeds : acceptor[f] = "done"
  /\ \A c \in Conns : status[c] \in {"absent", "closed", "dropped", "refused"}
  /\ UNCHANGED vars

ConnNext(c) == Connect(c) \/ SessionEnds(c) \/ ShutCloses(c) \/ Uncount(c)

FeedNext(f) == FeedAcceptFails(f) \/ CloseFeed(f) \/ Shut(f)
                 \/ \E c \in Conns : FeedAccept(f, c) \/ FeedDrop(f, c)

ListenerNext(g, f) ==
  \/ ServerSetup(g, f) \/ ServerFails(g, f) \/ AcceptEnds(g, f)
  \/ ServerReturns(g, f) \/ ServerClosesListener(g, f)
  \/ \E c \in Conns : Take(g, f, c) \/ Track(g, f, c) \/ Untake(g, f, c)

ServerNext == RunStart \/ RunReady \/ RunCancelled \/ RunSeesFailure \/ ShutdownLock
                \/ ShutdownStop \/ ShutdownEnd \/ SwapBegin \/ SwapStart \/ SwapEnd

Next == \/ \E c \in Conns : ConnNext(c)
        \/ \E f \in Feeds : FeedNext(f)
        \/ \E g \in Gens, f \in Feeds : ListenerNext(g, f)
        \/ ServerNext
        \/ Exited

Spec == Init /\ [][Next]_vars
-----------------------------------------------------------------------------
(***************************************************************************)
(* Fairness: every goroutine that can run does.  Nothing is assumed of     *)
(* clients, of sessions ending by themselves, of a protocol failing, or of *)
(* anybody asking for a swap or a shutdown.                                *)
(***************************************************************************)
ListenerRuns(g, f) ==
  \/ ServerSetup(g, f) \/ AcceptEnds(g, f) \/ ServerReturns(g, f)
  \/ \E c \in Conns : Take(g, f, c) \/ Track(g, f, c) \/ Untake(g, f, c)

FeedRuns(f) ==
  \/ closing[f] /\ FeedAcceptFails(f)
  \/ \E c \in Conns : FeedAccept(f, c) \/ FeedDrop(f, c)

Fairness ==
  /\ \A g \in Gens, f \in Feeds : WF_vars(ListenerRuns(g, f))
  /\ \A f \in Feeds : WF_vars(FeedRuns(f)) /\ WF_vars(CloseFeed(f)) /\ WF_vars(Shut(f))
  /\ \A c \in Conns : WF_vars(ShutCloses(c)) /\ WF_vars(Uncount(c))
  /\ WF_vars(RunStart \/ RunReady \/ RunSeesFailure \/ ShutdownLock
               \/ ShutdownStop \/ ShutdownEnd)
  /\ WF_vars(SwapStart \/ SwapEnd)

FairSpec == Spec /\ Fairness
-----------------------------------------------------------------------------
(***************************************************************************)
(* Properties.                                                             *)
(***************************************************************************)

\* The types of the variables.
TypeOK ==
  /\ status \in [Conns -> Status]
  /\ feedOf \in [Conns -> Feeds]
  /\ genOf \in [Conns -> 0..MaxGen]
  /\ acceptor \in [Feeds -> {"accepting", "handing", "done"}]
  /\ failed \in [Feeds -> Errors]
  /\ closing \in [Feeds -> BOOLEAN]
  /\ accepted \in [Feeds -> Nat]
  /\ open \in [Feeds -> Int]
  /\ pc \in [Gens -> [Feeds -> {"off", "setup", "accepting", "got", "failed",
                                "ended", "returned"}]]
  /\ stop \in [Gens -> [Feeds -> BOOLEAN]]
  /\ lists \in [Gens -> [Feeds -> Nat]]
  /\ stopped \in [Gens -> BOOLEAN]
  /\ genN \in 0..MaxGen
  /\ live \in BOOLEAN
  /\ shares \in Nat
  /\ ready \in BOOLEAN
  /\ stopping \in BOOLEAN
  /\ failures \in BOOLEAN
  /\ main \in {"bound", "started", "serving", "leaving", "closing", "stopping", "stopped"}
  /\ swapper \in {"idle", "stopping", "started"}

\* A session is served from the list of shares that is current: none
\* outlives the list it was opened under, which is what makes a revocation
\* one (generation.go: a session that outlived a revocation would keep the
\* access that was just taken away).
CurrentListOnly ==
  \A c \in Conns : status[c] = "tracked" => lists[genOf[c]][feedOf[c]] = shares

\* The sessions of Revocation: a tracked connection is a session from the
\* list its protocol server read, and one that left "tracked" is over.
Abstract == INSTANCE Revocation WITH
  list <- shares,
  session <- [c \in Conns |-> IF status[c] = "tracked"
                              THEN lists[genOf[c]][feedOf[c]] ELSE 0],
  past <- {c \in Conns : status[c] \in {"closing", "closed"}}

\* The generations implement the promise: a swap, step by step, is the one
\* step ReplaceList of Revocation, taken when no session is left.
ImplementsRevocation == Abstract!AbstractSpec

\* Only the running generation holds connections and goroutines: once a new
\* one has started, or the server has stopped, every protocol server before
\* it has returned and every connection it took is over.
OneGeneration ==
  /\ \A c \in Conns : status[c] \in {"taken", "tracked", "closing"} => live /\ genOf[c] = genN
  /\ \A g \in Gens, f \in Feeds :
       pc[g][f] \notin {"off", "returned"} => live /\ g = genN

\* The two counters a scrape reads: open is exactly the connections received
\* and not yet closed, whoever closes them and however often, and accepted
\* every connection the accept goroutine ever took.
CountersExact ==
  \A f \in Feeds :
    /\ open[f] = Cardinality(Counted(f))
    /\ accepted[f] = Cardinality({c \in Conns :
                        feedOf[c] = f /\ status[c] \notin {"absent", "backlog", "refused"}})

\* A readiness probe is answered yes only while a generation that nobody has
\* asked to stop is installed, and never again once shutdown holds runMu --
\* also when a swap that raced it stored ready after shutdown first cleared it.
ReadyMeansServing ==
  ready => live /\ ~stopped[genN] /\ main \in {"serving", "leaving"}

\* What the comment on feed says of a client that connects during a swap: it
\* waits in the channel instead of being refused.  A client that had not
\* connected when the old generation's listener was already stopped is not
\* closed unserved, unless the server is shutting down.
WaitsOutSwap ==
  \A c \in Conns :
    [](status[c] = "absent" /\ swapper = "stopping" /\ stop[genN][feedOf[c]]
         => [](status[c] = "dropped" => stopping))

\* swap always returns: stopping a generation cannot wait forever on a
\* protocol server in Accept or on a connection being closed by its session.
SwapReturns == swapper = "stopping" ~> swapper = "idle"

\* shutdown always ends, whatever swap or failure it races with, and leaves
\* no connection open and no accept goroutine behind.
ShutdownReturns ==
  main = "leaving" ~>
    /\ main = "stopped" /\ ~ready
    /\ \A f \in Feeds : acceptor[f] = "done"
    /\ \A c \in Conns : status[c] \notin {"backlog", "held", "taken", "tracked", "closing"}

\* No client is left waiting for ever: a connection in the kernel's queue is
\* served, or closed, through any number of swaps and failures.  The one
\* exception is a socket whose Accept failed with an error net/http takes for
\* temporary: feed.accept has returned, the protocol server asks a listener
\* that answers with the same error for ever, no failure is reported and the
\* clients wait until somebody stops the server.
EveryClientAnswered ==
  \A c \in Conns :
    status[c] = "backlog" ~> \/ status[c] \notin {"backlog", "held", "taken"}
                            \/ failed[feedOf[c]] = "temporary"
=============================================================================
