------------------------- MODULE GenerationProofs -------------------------
(***************************************************************************)
(* Theorems about Generation, for every set of feeds and connections and   *)
(* any number of generations.                                              *)
(***************************************************************************)
EXTENDS Generation, FiniteSetTheorems, TLAPS

\* What TypeOK needs to be inductive: swap begins only below the bound, over
\* a generation that exists, and after run has started one.
SwapInBounds ==
  /\ live => genN \in Gens
  /\ swapper = "stopping" => genN \in Gens /\ genN < MaxGen
  /\ main = "bound" => swapper = "idle"

\* The initial states are well typed.
LEMMA TypeInit == Init => TypeOK /\ SwapInBounds
<1> USE MaxGenAssumption DEF MaxGenAssumption
<1> SUFFICES ASSUME Init PROVE TypeOK /\ SwapInBounds
  OBVIOUS
<1>1. /\ pc \in [Gens -> [Feeds -> {"off", "setup", "accepting", "got", "failed",
                                    "ended", "returned"}]]
      /\ stop \in [Gens -> [Feeds -> BOOLEAN]]
      /\ lists \in [Gens -> [Feeds -> Nat]]
  BY DEF Init
<1>2. /\ stopped \in [Gens -> BOOLEAN]
      /\ failed \in [Feeds -> Errors]
      /\ closing \in [Feeds -> BOOLEAN]
  BY DEF Init, Errors
<1>3. {live, ready, stopping, failures} \subseteq BOOLEAN
  BY DEF Init
<1>4. SwapInBounds
  BY DEF Init, SwapInBounds
<1>5. /\ genN \in 0..MaxGen /\ shares \in Nat
      /\ accepted \in [Feeds -> Nat] /\ open \in [Feeds -> Int]
      /\ genOf \in [Conns -> 0..MaxGen]
  BY DEF Init
<1>6. QED
  BY <1>1, <1>2, <1>3, <1>4, <1>5 DEF Init, TypeOK, Status

\* Every variable keeps its type through every step of generation.go, run,
\* swap and shutdown.
THEOREM TypeCorrect == Spec => []TypeOK
<1> DEFINE Typed == TypeOK /\ SwapInBounds
<1> USE MaxGenAssumption DEF MaxGenAssumption
<1>1. Init => Typed
  BY TypeInit
<1>2. Typed /\ [Next]_vars => Typed'
  <2> SUFFICES ASSUME Typed, [Next]_vars PROVE Typed'
    OBVIOUS
  <2> USE DEF TypeOK, SwapInBounds
  <2>1. ASSUME NEW c \in Conns, Connect(c) PROVE Typed'
    BY <2>1
    DEF Status, Gens, connVars, feedVars, genVars, srvVars, Connect
  <2>2. ASSUME NEW c \in Conns, SessionEnds(c) PROVE Typed'
    BY <2>2
    DEF Status, Gens, connVars, feedVars, genVars, srvVars, SessionEnds
  <2>3. ASSUME NEW c \in Conns, ShutCloses(c) PROVE Typed'
    BY <2>3
    DEF Status, Gens, connVars, feedVars, genVars, srvVars, ShutCloses
  <2>4. ASSUME NEW c \in Conns, Uncount(c) PROVE Typed'
    BY <2>4
    DEF Status, Gens, connVars, feedVars, genVars, srvVars, Uncount
  <2>5. ASSUME NEW f \in Feeds, FeedAcceptFails(f) PROVE Typed'
    BY <2>5
    DEF Status, Gens, connVars, feedVars, genVars, srvVars, FeedAcceptFails
  <2>6. ASSUME NEW f \in Feeds, CloseFeed(f) PROVE Typed'
    BY <2>6
    DEF Status, Gens, connVars, feedVars, genVars, srvVars, CloseFeed
  <2>7. ASSUME NEW f \in Feeds, Shut(f) PROVE Typed'
    BY <2>7
    DEF Status, Gens, connVars, feedVars, genVars, srvVars, Shut
  <2>8. ASSUME NEW f \in Feeds, NEW c \in Conns, FeedAccept(f, c) PROVE Typed'
    BY <2>8
    DEF Status, Gens, connVars, feedVars, genVars, srvVars, FeedAccept
  <2>9. ASSUME NEW f \in Feeds, NEW c \in Conns, FeedDrop(f, c) PROVE Typed'
    BY <2>9
    DEF Status, Gens, connVars, feedVars, genVars, srvVars, FeedDrop
  <2>10. ASSUME NEW g \in Gens, NEW f \in Feeds, ServerSetup(g, f) PROVE Typed'
    BY <2>10
    DEF Status, Gens, connVars, feedVars, genVars, srvVars, ServerSetup
  <2>11. ASSUME NEW g \in Gens, NEW f \in Feeds, ServerFails(g, f) PROVE Typed'
    BY <2>11
    DEF Status, Gens, connVars, feedVars, genVars, srvVars, ServerFails
  <2>12. ASSUME NEW g \in Gens, NEW f \in Feeds, AcceptEnds(g, f) PROVE Typed'
    <3>1. PICK r \in {"failed", "ended"} : pc' = [pc EXCEPT ![g][f] = r]
      BY <2>12 DEF AcceptEnds
    <3>2. UNCHANGED <<connVars, feedVars, open, stop, lists, stopped, srvVars>>
      BY <2>12 DEF AcceptEnds
    <3>3. QED
      BY <3>1, <3>2 DEF Status, Gens, connVars, feedVars, srvVars
  <2>13. ASSUME NEW g \in Gens, NEW f \in Feeds, ServerReturns(g, f) PROVE Typed'
    BY <2>13
    DEF Status, Gens, connVars, feedVars, genVars, srvVars, ServerReturns
  <2>14. ASSUME NEW g \in Gens, NEW f \in Feeds, ServerClosesListener(g, f) PROVE Typed'
    BY <2>14
    DEF Status, Gens, connVars, feedVars, genVars, srvVars, ServerClosesListener
  <2>15. ASSUME NEW g \in Gens, NEW f \in Feeds, NEW c \in Conns, Take(g, f, c) PROVE Typed'
    BY <2>15
    DEF Status, Gens, connVars, feedVars, genVars, srvVars, Take
  <2>16. ASSUME NEW g \in Gens, NEW f \in Feeds, NEW c \in Conns, Track(g, f, c) PROVE Typed'
    BY <2>16
    DEF Status, Gens, connVars, feedVars, genVars, srvVars, Track
  <2>17. ASSUME NEW g \in Gens, NEW f \in Feeds, NEW c \in Conns, Untake(g, f, c) PROVE Typed'
    BY <2>17
    DEF Status, Gens, connVars, feedVars, genVars, srvVars, Untake
  <2>18. ASSUME RunStart PROVE Typed'
    BY <2>18
    DEF Status, Gens, connVars, feedVars, genVars, srvVars, RunStart, startGeneration
  <2>19. ASSUME RunReady PROVE Typed'
    BY <2>19
    DEF Status, Gens, connVars, feedVars, genVars, srvVars, RunReady
  <2>20. ASSUME RunCancelled PROVE Typed'
    BY <2>20
    DEF Status, Gens, connVars, feedVars, genVars, srvVars, RunCancelled, Leave
  <2>21. ASSUME RunSeesFailure PROVE Typed'
    BY <2>21
    DEF Status, Gens, connVars, feedVars, genVars, srvVars, RunSeesFailure, Leave
  <2>22. ASSUME ShutdownLock PROVE Typed'
    BY <2>22
    DEF Status, Gens, connVars, feedVars, genVars, srvVars, ShutdownLock
  <2>23. ASSUME ShutdownStop PROVE Typed'
    BY <2>23
    DEF Status, Gens, connVars, feedVars, genVars, srvVars, ShutdownStop
  <2>24. ASSUME ShutdownEnd PROVE Typed'
    BY <2>24
    DEF Status, Gens, connVars, feedVars, genVars, srvVars, ShutdownEnd
  <2>25. ASSUME SwapBegin PROVE Typed'
    BY <2>25
    DEF Status, Gens, connVars, feedVars, genVars, srvVars, SwapBegin
  <2>26. ASSUME SwapStart PROVE Typed'
    BY <2>26
    DEF Status, Gens, connVars, feedVars, genVars, srvVars, SwapStart, startGeneration
  <2>27. ASSUME SwapEnd PROVE Typed'
    BY <2>27
    DEF Status, Gens, connVars, feedVars, genVars, srvVars, SwapEnd
  <2>28. ASSUME Exited PROVE Typed'
    BY <2>28
    DEF Status, Gens, connVars, feedVars, genVars, srvVars, Exited, vars
  <2>29. ASSUME UNCHANGED vars PROVE Typed'
    BY <2>29 DEF Status, Gens, connVars, feedVars, genVars, srvVars, vars
  <2>30. QED
    BY <2>1, <2>2, <2>3, <2>4, <2>5, <2>6, <2>7, <2>8, <2>9, <2>10, <2>11, <2>12, <2>13, <2>14, <2>15, <2>16, <2>17, <2>18, <2>19, <2>20, <2>21, <2>22, <2>23, <2>24, <2>25, <2>26, <2>27, <2>28, <2>29
    DEF Next, ConnNext, FeedNext, ListenerNext, ServerNext
<1>3. QED
  BY <1>1, <1>2, PTL DEF Spec
-----------------------------------------------------------------------------
(***************************************************************************)
(* The inductive invariant.                                                *)
(***************************************************************************)

\* run, swap and shutdown: when a generation is installed, which list is
\* current, who may hold runMu, when ready may be set, and which generations
\* have been asked to stop.
LifeCycle ==
  /\ live <=> main \notin {"bound", "stopped"}
  /\ main = "bound" => genN = 0
  /\ main # "bound" => genN \in Gens
  /\ shares = IF genN = 0 THEN 1 ELSE genN
  /\ swapper # "idle" => main \in {"serving", "leaving"}
  /\ ready => main \in {"serving", "leaving"} /\ swapper = "idle"
  /\ \A g \in Gens : stopped[g] =>
       \/ g < genN
       \/ g = genN /\ (swapper = "stopping" \/ main \in {"stopping", "stopped"})

\* A protocol server that accepts has read the current list, and a
\* connection Accept holds belongs to a goroutine that is still in Accept,
\* which holds no other.
ServersCurrent ==
  /\ \A g \in Gens, f \in Feeds :
       pc[g][f] \in {"accepting", "got"} => lists[g][f] = shares
  /\ \A c \in Conns : status[c] = "taken" => pc[genOf[c]][feedOf[c]] = "got"
  /\ \A c, d \in Conns : /\ status[c] = "taken" /\ status[d] = "taken"
                         /\ genOf[c] = genOf[d] /\ feedOf[c] = feedOf[d]
                         => c = d

Safe == LifeCycle /\ OneGeneration /\ ServersCurrent /\ CurrentListOnly

Inv == TypeOK /\ Safe

\* When generation.stop has returned, nothing of the generation is left.
LEMMA StopLeavesNothing ==
  ASSUME TypeOK, OneGeneration, ServersCurrent, StopReturned
  PROVE  /\ \A c \in Conns : status[c] \notin {"taken", "tracked", "closing"}
         /\ \A g \in Gens, f \in Feeds : pc[g][f] \in {"off", "returned"}
<1>1. ASSUME NEW c \in Conns, status[c] \in {"taken", "tracked", "closing"} PROVE FALSE
  <2>1. genOf[c] = genN /\ feedOf[c] \in Feeds
    BY <1>1 DEF OneGeneration, TypeOK
  <2>2. status[c] = "taken" => pc[genN][feedOf[c]] = "got"
    BY <2>1 DEF ServersCurrent
  <2>3. QED
    BY <1>1, <2>1, <2>2 DEF StopReturned, TrackedBy
<1>2. ASSUME NEW g \in Gens, NEW f \in Feeds PROVE pc[g][f] \in {"off", "returned"}
  BY DEF OneGeneration, StopReturned, TypeOK
<1>3. QED
  BY <1>1, <1>2

\* The invariant is inductive: no step of the accept goroutines, the protocol
\* servers, run, swap or shutdown leads out of it.
THEOREM InvCorrect == Spec => []Inv
<1> USE MaxGenAssumption, FeedsAssumption DEF MaxGenAssumption
<1>1. Init => Inv
  BY TypeInit DEF Init, Inv, Safe, LifeCycle, OneGeneration, ServersCurrent, CurrentListOnly
<1>2. Inv /\ TypeOK' /\ [Next]_vars => Inv'
  <2> SUFFICES ASSUME Inv, TypeOK', [Next]_vars PROVE Safe'
    BY DEF Inv
  <2>0. TypeOK /\ LifeCycle /\ OneGeneration /\ ServersCurrent /\ CurrentListOnly
    BY DEF Inv, Safe
  <2>00. \A c \in Conns : /\ feedOf[c] \in Feeds
                          /\ status[c] \in {"taken", "tracked", "closing"} => genOf[c] \in Gens
    BY <2>0 DEF TypeOK, LifeCycle, OneGeneration
  <2>1. ASSUME NEW c \in Conns, Connect(c) PROVE Safe'
    BY <2>1
    DEF Inv, Safe, TypeOK, LifeCycle, OneGeneration, ServersCurrent, CurrentListOnly,
        Gens, connVars, feedVars, genVars, srvVars,
        Connect
  <2>2. ASSUME NEW c \in Conns, SessionEnds(c) PROVE Safe'
    BY <2>2
    DEF Inv, Safe, TypeOK, LifeCycle, OneGeneration, ServersCurrent, CurrentListOnly,
        Gens, connVars, feedVars, genVars, srvVars,
        SessionEnds
  <2>3. ASSUME NEW c \in Conns, ShutCloses(c) PROVE Safe'
    BY <2>3
    DEF Inv, Safe, TypeOK, LifeCycle, OneGeneration, ServersCurrent, CurrentListOnly,
        Gens, connVars, feedVars, genVars, srvVars,
        ShutCloses
  <2>4. ASSUME NEW c \in Conns, Uncount(c) PROVE Safe'
    BY <2>4
    DEF Inv, Safe, TypeOK, LifeCycle, OneGeneration, ServersCurrent, CurrentListOnly,
        Gens, connVars, feedVars, genVars, srvVars,
        Uncount
  <2>5. ASSUME NEW f \in Feeds, FeedAcceptFails(f) PROVE Safe'
    <3>1. UNCHANGED <<connVars, pc, lists, stopped, srvVars>>
      BY <2>5 DEF FeedAcceptFails, genVars
    <3>2. QED
      BY <3>1, <2>0 DEF Safe, LifeCycle, OneGeneration, ServersCurrent, CurrentListOnly,
                        connVars, srvVars
  <2>6. ASSUME NEW f \in Feeds, CloseFeed(f) PROVE Safe'
    BY <2>6
    DEF Inv, Safe, TypeOK, LifeCycle, OneGeneration, ServersCurrent, CurrentListOnly,
        Gens, connVars, feedVars, genVars, srvVars,
        CloseFeed
  <2>7. ASSUME NEW f \in Feeds, Shut(f) PROVE Safe'
    <3>1. UNCHANGED <<connVars, pc, lists, stopped, srvVars>>
      BY <2>7 DEF Shut
    <3>2. QED
      BY <3>1, <2>0 DEF Safe, LifeCycle, OneGeneration, ServersCurrent, CurrentListOnly,
                        connVars, srvVars
  <2>8. ASSUME NEW f \in Feeds, NEW c \in Conns, FeedAccept(f, c) PROVE Safe'
    BY <2>8
    DEF Inv, Safe, TypeOK, LifeCycle, OneGeneration, ServersCurrent, CurrentListOnly,
        Gens, connVars, feedVars, genVars, srvVars,
        FeedAccept
  <2>9. ASSUME NEW f \in Feeds, NEW c \in Conns, FeedDrop(f, c) PROVE Safe'
    BY <2>9
    DEF Inv, Safe, TypeOK, LifeCycle, OneGeneration, ServersCurrent, CurrentListOnly,
        Gens, connVars, feedVars, genVars, srvVars,
        FeedDrop
  <2>10. ASSUME NEW g \in Gens, NEW f \in Feeds, ServerSetup(g, f) PROVE Safe'
    <3>1. \A h \in Gens, k \in Feeds :
            pc'[h][k] = IF h = g /\ k = f THEN "accepting" ELSE pc[h][k]
      BY <2>10, <2>0 DEF TypeOK, ServerSetup
    <3>2. \A h \in Gens, k \in Feeds :
            lists'[h][k] = IF h = g /\ k = f THEN shares ELSE lists[h][k]
      BY <2>10, <2>0 DEF TypeOK, ServerSetup
    <3>3. /\ pc[g][f] \in {"setup"}
          /\ UNCHANGED <<feedOf, stopped, genN, live, shares, ready, main, swapper>>
      BY <2>10 DEF ServerSetup, connVars, srvVars
    <3>4. UNCHANGED <<status, genOf>>
      BY <2>10 DEF ServerSetup, connVars
    <3>6. LifeCycle'
      BY <2>0, <3>3 DEF LifeCycle
    <3>7. OneGeneration'
      BY <2>0, <2>00, <3>1, <3>3, <3>4 DEF OneGeneration
    <3>8. ServersCurrent'
      BY <2>0, <2>00, <3>1, <3>2, <3>3, <3>4 DEF ServersCurrent, OneGeneration
    <3>9. CurrentListOnly'
      BY <2>0, <2>00, <3>2, <3>3, <3>4 DEF CurrentListOnly, ServersCurrent
    <3>10. QED
      BY <3>6, <3>7, <3>8, <3>9 DEF Safe
  <2>11. ASSUME NEW g \in Gens, NEW f \in Feeds, ServerFails(g, f) PROVE Safe'
    <3>1. \A h \in Gens, k \in Feeds :
            pc'[h][k] = IF h = g /\ k = f THEN "failed" ELSE pc[h][k]
      BY <2>11, <2>0 DEF TypeOK, ServerFails
    <3>2. lists' = lists
      BY <2>11 DEF ServerFails
    <3>3. /\ pc[g][f] \in {"setup", "accepting"}
          /\ UNCHANGED <<feedOf, stopped, genN, live, shares, ready, main, swapper>>
      BY <2>11 DEF ServerFails, connVars, srvVars
    <3>4. UNCHANGED <<status, genOf>>
      BY <2>11 DEF ServerFails, connVars
    <3>6. LifeCycle'
      BY <2>0, <3>3 DEF LifeCycle
    <3>7. OneGeneration'
      BY <2>0, <2>00, <3>1, <3>3, <3>4 DEF OneGeneration
    <3>8. ServersCurrent'
      BY <2>0, <2>00, <3>1, <3>2, <3>3, <3>4 DEF ServersCurrent, OneGeneration
    <3>9. CurrentListOnly'
      BY <2>0, <2>00, <3>2, <3>3, <3>4 DEF CurrentListOnly, ServersCurrent
    <3>10. QED
      BY <3>6, <3>7, <3>8, <3>9 DEF Safe
  <2>12. ASSUME NEW g \in Gens, NEW f \in Feeds, AcceptEnds(g, f) PROVE Safe'
    <3>1. \A h \in Gens, k \in Feeds :
            pc'[h][k] = IF h = g /\ k = f THEN pc'[g][f] ELSE pc[h][k]
      BY <2>12, <2>0 DEF TypeOK, AcceptEnds
    <3>2. lists' = lists
      BY <2>12 DEF AcceptEnds
    <3>3. /\ pc[g][f] \in {"accepting"}
          /\ UNCHANGED <<feedOf, stopped, genN, live, shares, ready, main, swapper>>
      BY <2>12 DEF AcceptEnds, connVars, srvVars
    <3>4. UNCHANGED <<status, genOf>>
      BY <2>12 DEF AcceptEnds, connVars
    <3>5. pc'[g][f] \in {"failed", "ended"}
      BY <2>12, <2>0 DEF TypeOK, AcceptEnds
    <3>6. LifeCycle'
      BY <2>0, <3>3 DEF LifeCycle
    <3>7. OneGeneration'
      BY <2>0, <2>00, <3>1, <3>3, <3>4, <3>5 DEF OneGeneration
    <3>8. ServersCurrent'
      BY <2>0, <2>00, <3>1, <3>2, <3>3, <3>4, <3>5 DEF ServersCurrent, OneGeneration
    <3>9. CurrentListOnly'
      BY <2>0, <2>00, <3>2, <3>3, <3>4 DEF CurrentListOnly, ServersCurrent
    <3>10. QED
      BY <3>6, <3>7, <3>8, <3>9 DEF Safe
  <2>13. ASSUME NEW g \in Gens, NEW f \in Feeds, ServerReturns(g, f) PROVE Safe'
    <3>1. \A h \in Gens, k \in Feeds :
            pc'[h][k] = IF h = g /\ k = f THEN "returned" ELSE pc[h][k]
      BY <2>13, <2>0 DEF TypeOK, ServerReturns
    <3>2. lists' = lists
      BY <2>13 DEF ServerReturns
    <3>3. /\ pc[g][f] \in {"failed", "ended"}
          /\ UNCHANGED <<feedOf, stopped, genN, live, shares, ready, main, swapper>>
      BY <2>13 DEF ServerReturns, connVars, srvVars
    <3>4. UNCHANGED <<status, genOf>>
      BY <2>13 DEF ServerReturns, connVars
    <3>6. LifeCycle'
      BY <2>0, <3>3 DEF LifeCycle
    <3>7. OneGeneration'
      BY <2>0, <2>00, <3>1, <3>3, <3>4 DEF OneGeneration
    <3>8. ServersCurrent'
      BY <2>0, <2>00, <3>1, <3>2, <3>3, <3>4 DEF ServersCurrent, OneGeneration
    <3>9. CurrentListOnly'
      BY <2>0, <2>00, <3>2, <3>3, <3>4 DEF CurrentListOnly, ServersCurrent
    <3>10. QED
      BY <3>6, <3>7, <3>8, <3>9 DEF Safe
  <2>14. ASSUME NEW g \in Gens, NEW f \in Feeds, ServerClosesListener(g, f) PROVE Safe'
    BY <2>14
    DEF Inv, Safe, TypeOK, LifeCycle, OneGeneration, ServersCurrent, CurrentListOnly,
        Gens, connVars, feedVars, genVars, srvVars,
        ServerClosesListener
  <2>15. ASSUME NEW g \in Gens, NEW f \in Feeds, NEW c \in Conns, Take(g, f, c) PROVE Safe'
    <3>1. \A h \in Gens, k \in Feeds :
            pc'[h][k] = IF h = g /\ k = f THEN "got" ELSE pc[h][k]
      BY <2>15, <2>0 DEF TypeOK, Take
    <3>2. lists' = lists
      BY <2>15 DEF Take
    <3>3. /\ pc[g][f] \in {"accepting"}
          /\ UNCHANGED <<feedOf, stopped, genN, live, shares, ready, main, swapper>>
      BY <2>15 DEF Take, connVars, srvVars
    <3>4. /\ status[c] = "held" /\ feedOf[c] = f
          /\ \A d \in Conns : /\ status'[d] = IF d = c THEN "taken" ELSE status[d]
                             /\ genOf'[d] = IF d = c THEN g ELSE genOf[d]
      BY <2>15, <2>0 DEF TypeOK, Take
    <3>6. LifeCycle'
      BY <2>0, <3>3 DEF LifeCycle
    <3>7. OneGeneration'
      BY <2>0, <2>00, <3>1, <3>3, <3>4 DEF OneGeneration
    <3>8. ServersCurrent'
      BY <2>0, <2>00, <3>1, <3>2, <3>3, <3>4 DEF ServersCurrent, OneGeneration
    <3>9. CurrentListOnly'
      BY <2>0, <2>00, <3>2, <3>3, <3>4 DEF CurrentListOnly, ServersCurrent
    <3>10. QED
      BY <3>6, <3>7, <3>8, <3>9 DEF Safe
  <2>16. ASSUME NEW g \in Gens, NEW f \in Feeds, NEW c \in Conns, Track(g, f, c) PROVE Safe'
    <3>1. \A h \in Gens, k \in Feeds :
            pc'[h][k] = IF h = g /\ k = f THEN "accepting" ELSE pc[h][k]
      BY <2>16, <2>0 DEF TypeOK, Track
    <3>2. lists' = lists
      BY <2>16 DEF Track
    <3>3. /\ pc[g][f] \in {"got"}
          /\ UNCHANGED <<feedOf, stopped, genN, live, shares, ready, main, swapper>>
      BY <2>16 DEF Track, connVars, srvVars
    <3>4. /\ status[c] = "taken" /\ genOf[c] = g /\ feedOf[c] = f
          /\ \A d \in Conns : /\ status'[d] = IF d = c THEN "tracked" ELSE status[d]
                             /\ genOf'[d] = IF d = c THEN g ELSE genOf[d]
      BY <2>16, <2>0 DEF TypeOK, Track
    <3>6. LifeCycle'
      BY <2>0, <3>3 DEF LifeCycle
    <3>7. OneGeneration'
      BY <2>0, <2>00, <3>1, <3>3, <3>4 DEF OneGeneration
    <3>8. ServersCurrent'
      BY <2>0, <2>00, <3>1, <3>2, <3>3, <3>4 DEF ServersCurrent, OneGeneration
    <3>9. CurrentListOnly'
      BY <2>0, <2>00, <3>2, <3>3, <3>4 DEF CurrentListOnly, ServersCurrent
    <3>10. QED
      BY <3>6, <3>7, <3>8, <3>9 DEF Safe
  <2>17. ASSUME NEW g \in Gens, NEW f \in Feeds, NEW c \in Conns, Untake(g, f, c) PROVE Safe'
    <3>1. \A h \in Gens, k \in Feeds :
            pc'[h][k] = IF h = g /\ k = f THEN "ended" ELSE pc[h][k]
      BY <2>17, <2>0 DEF TypeOK, Untake
    <3>2. lists' = lists
      BY <2>17 DEF Untake
    <3>3. /\ pc[g][f] \in {"got"}
          /\ UNCHANGED <<feedOf, stopped, genN, live, shares, ready, main, swapper>>
      BY <2>17 DEF Untake, connVars, srvVars
    <3>4. /\ status[c] = "taken" /\ genOf[c] = g /\ feedOf[c] = f
          /\ \A d \in Conns : /\ status'[d] = IF d = c THEN "dropped" ELSE status[d]
                             /\ genOf'[d] = IF d = c THEN g ELSE genOf[d]
      BY <2>17, <2>0 DEF TypeOK, Untake
    <3>6. LifeCycle'
      BY <2>0, <3>3 DEF LifeCycle
    <3>7. OneGeneration'
      BY <2>0, <2>00, <3>1, <3>3, <3>4 DEF OneGeneration
    <3>8. ServersCurrent'
      BY <2>0, <2>00, <3>1, <3>2, <3>3, <3>4 DEF ServersCurrent, OneGeneration
    <3>9. CurrentListOnly'
      BY <2>0, <2>00, <3>2, <3>3, <3>4 DEF CurrentListOnly, ServersCurrent
    <3>10. QED
      BY <3>6, <3>7, <3>8, <3>9 DEF Safe
  <2>18. ASSUME RunStart PROVE Safe'
    <3>1. \A h \in Gens, k \in Feeds :
            pc'[h][k] = IF h = 1 THEN "setup" ELSE pc[h][k]
      BY <2>18, <2>0 DEF TypeOK, RunStart, startGeneration
    <3>2. /\ \A c \in Conns : status[c] \notin {"taken", "tracked", "closing"}
          /\ \A g \in Gens, f \in Feeds : pc[g][f] \in {"off", "returned"}
      BY <2>18, <2>0 DEF RunStart, LifeCycle, OneGeneration
    <3>3. /\ live' /\ main = "bound" /\ main' = "started" /\ genN = 0 /\ genN' = 1
          /\ UNCHANGED <<connVars, stopped, shares, ready, swapper>>
      BY <2>18, <2>0 DEF RunStart, startGeneration, LifeCycle
    <3>4. LifeCycle'
      BY <2>0, <3>3 DEF LifeCycle, TypeOK, Gens
    <3>5. OneGeneration'
      BY <2>0, <3>1, <3>2, <3>3 DEF OneGeneration, connVars
    <3>6. ServersCurrent'
      BY <2>0, <3>1, <3>2, <3>3 DEF ServersCurrent, connVars
    <3>7. CurrentListOnly'
      BY <2>0, <3>2, <3>3 DEF CurrentListOnly, connVars
    <3>8. QED
      BY <3>4, <3>5, <3>6, <3>7 DEF Safe
  <2>19. ASSUME RunReady PROVE Safe'
    BY <2>19
    DEF Inv, Safe, TypeOK, LifeCycle, OneGeneration, ServersCurrent, CurrentListOnly,
        Gens, connVars, feedVars, genVars, srvVars,
        RunReady
  <2>20. ASSUME RunCancelled PROVE Safe'
    BY <2>20
    DEF Inv, Safe, TypeOK, LifeCycle, OneGeneration, ServersCurrent, CurrentListOnly,
        Gens, connVars, feedVars, genVars, srvVars,
        RunCancelled, Leave
  <2>21. ASSUME RunSeesFailure PROVE Safe'
    BY <2>21
    DEF Inv, Safe, TypeOK, LifeCycle, OneGeneration, ServersCurrent, CurrentListOnly,
        Gens, connVars, feedVars, genVars, srvVars,
        RunSeesFailure, Leave
  <2>22. ASSUME ShutdownLock PROVE Safe'
    BY <2>22
    DEF Inv, Safe, TypeOK, LifeCycle, OneGeneration, ServersCurrent, CurrentListOnly,
        Gens, connVars, feedVars, genVars, srvVars,
        ShutdownLock, RunMuFree
  <2>23. ASSUME ShutdownStop PROVE Safe'
    BY <2>23
    DEF Inv, Safe, TypeOK, LifeCycle, OneGeneration, ServersCurrent, CurrentListOnly,
        Gens, connVars, feedVars, genVars, srvVars,
        ShutdownStop
  <2>24. ASSUME ShutdownEnd PROVE Safe'
    BY <2>24, StopLeavesNothing
    DEF Inv, Safe, TypeOK, LifeCycle, OneGeneration, ServersCurrent, CurrentListOnly,
        Gens, connVars, feedVars, genVars, srvVars,
        ShutdownEnd
  <2>25. ASSUME SwapBegin PROVE Safe'
    BY <2>25
    DEF Inv, Safe, TypeOK, LifeCycle, OneGeneration, ServersCurrent, CurrentListOnly,
        Gens, connVars, feedVars, genVars, srvVars,
        SwapBegin, RunMuFree
  <2>26. ASSUME SwapStart PROVE Safe'
    <3>1. \A h \in Gens, k \in Feeds :
            pc'[h][k] = IF h = genN + 1 THEN "setup" ELSE pc[h][k]
      BY <2>26, <2>0 DEF TypeOK, SwapStart, startGeneration
    <3>2. /\ \A c \in Conns : status[c] \notin {"taken", "tracked", "closing"}
          /\ \A g \in Gens, f \in Feeds : pc[g][f] \in {"off", "returned"}
      BY <2>26, <2>0, StopLeavesNothing DEF SwapStart
    <3>3. /\ live' /\ swapper = "stopping" /\ swapper' = "started"
          /\ genN' = genN + 1 /\ shares' = shares + 1 /\ genN \in Gens
          /\ UNCHANGED <<connVars, stopped, main, ready>>
      BY <2>26, <2>0 DEF SwapStart, startGeneration, LifeCycle
    <3>4. LifeCycle'
      BY <2>0, <3>3 DEF LifeCycle, TypeOK, Gens
    <3>5. OneGeneration'
      BY <2>0, <3>1, <3>2, <3>3 DEF OneGeneration, connVars
    <3>6. ServersCurrent'
      BY <2>0, <3>1, <3>2, <3>3 DEF ServersCurrent, connVars
    <3>7. CurrentListOnly'
      BY <2>0, <3>2, <3>3 DEF CurrentListOnly, connVars
    <3>8. QED
      BY <3>4, <3>5, <3>6, <3>7 DEF Safe
  <2>27. ASSUME SwapEnd PROVE Safe'
    BY <2>27
    DEF Inv, Safe, TypeOK, LifeCycle, OneGeneration, ServersCurrent, CurrentListOnly,
        Gens, connVars, feedVars, genVars, srvVars,
        SwapEnd
  <2>28. ASSUME Exited PROVE Safe'
    BY <2>28
    DEF Inv, Safe, TypeOK, LifeCycle, OneGeneration, ServersCurrent, CurrentListOnly,
        Gens, connVars, feedVars, genVars, srvVars,
        Exited, vars
  <2>29. ASSUME UNCHANGED vars PROVE Safe'
    BY <2>29
    DEF Inv, Safe, TypeOK, LifeCycle, OneGeneration, ServersCurrent, CurrentListOnly,
        Gens, connVars, feedVars, genVars, srvVars,
        vars
  <2>30. QED
    BY <2>1, <2>2, <2>3, <2>4, <2>5, <2>6, <2>7, <2>8, <2>9, <2>10, <2>11,
       <2>12, <2>13, <2>14, <2>15, <2>16, <2>17, <2>18, <2>19, <2>20, <2>21,
       <2>22, <2>23, <2>24, <2>25, <2>26, <2>27, <2>28, <2>29
    DEF Next, ConnNext, FeedNext, ListenerNext, ServerNext
<1>3. QED
  BY <1>1, <1>2, TypeCorrect, PTL DEF Spec
-----------------------------------------------------------------------------
(***************************************************************************)
(* What follows from the invariant.                                        *)
(***************************************************************************)

\* Whatever the interleaving of accept goroutines, protocol servers, sessions,
\* swaps and a shutdown, nobody is served from a list that was replaced.
THEOREM OnlyTheCurrentList == Spec => []CurrentListOnly
<1>1. Inv => CurrentListOnly
  BY DEF Inv, Safe
<1>2. QED
  BY <1>1, InvCorrect, PTL

\* A stopped generation leaves no goroutine and no connection behind.
THEOREM OneGenerationAtATime == Spec => []OneGeneration
<1>1. Inv => OneGeneration
  BY DEF Inv, Safe
<1>2. QED
  BY <1>1, InvCorrect, PTL

\* The readiness answer of server.ready is never yes for a server that is
\* stopping or stopped, whichever of swap and shutdown stored it last.
THEOREM ReadyIsServing == Spec => []ReadyMeansServing
<1>1. Inv => ReadyMeansServing
  BY DEF Inv, Safe, LifeCycle, ReadyMeansServing, Gens
<1>2. QED
  BY <1>1, InvCorrect, PTL

-----------------------------------------------------------------------------
(***************************************************************************)
(* The counters.                                                           *)
(***************************************************************************)

\* The connections of a feed that are in one of some states, and how many.
InStates(at, of, S, f) == {c \in Conns : of[c] = f /\ at[c] \in S}
OpenStates == {"taken", "tracked", "closing"}
AcceptedStates == Status \ {"absent", "backlog", "refused"}

Exact ==
  \A f \in Feeds : /\ open[f] = Cardinality(InStates(status, feedOf, OpenStates, f))
                   /\ accepted[f] = Cardinality(InStates(status, feedOf, AcceptedStates, f))

\* A connection that moves from one state to another changes one of the two
\* counts by one, or neither.
LEMMA ConnectionStays ==
  ASSUME NEW at, NEW next, NEW of, NEW S, NEW f, NEW c \in Conns, \A d \in Conns \ {c} : next[d] = at[d],
         of[c] = f => (at[c] \in S /\ next[c] \in S) \/ (at[c] \notin S /\ next[c] \notin S)
  PROVE  Cardinality(InStates(next, of, S, f)) = Cardinality(InStates(at, of, S, f))
<1>1. InStates(next, of, S, f) = InStates(at, of, S, f)
  BY DEF InStates
<1>2. QED
  BY <1>1

LEMMA ConnectionComes ==
  ASSUME NEW at, NEW next, NEW of, NEW S, NEW f, NEW c \in Conns, \A d \in Conns \ {c} : next[d] = at[d],
         of[c] = f, at[c] \notin S, next[c] \in S
  PROVE  Cardinality(InStates(next, of, S, f)) = Cardinality(InStates(at, of, S, f)) + 1
<1>1. PICK A : A = InStates(at, of, S, f)
  OBVIOUS
<1>2. InStates(next, of, S, f) = A \cup {c} /\ c \notin A
  BY <1>1 DEF InStates
<1>3. IsFiniteSet(A)
  BY <1>1, ConnsAssumption, FS_Subset DEF InStates
<1>4. QED
  BY <1>1, <1>2, <1>3, FS_AddElement

LEMMA ConnectionGoes ==
  ASSUME NEW at, NEW next, NEW of, NEW S, NEW f, NEW c \in Conns, \A d \in Conns \ {c} : next[d] = at[d],
         of[c] = f, at[c] \in S, next[c] \notin S
  PROVE  Cardinality(InStates(next, of, S, f)) = Cardinality(InStates(at, of, S, f)) - 1
<1>1. PICK A : A = InStates(at, of, S, f)
  OBVIOUS
<1>2. InStates(next, of, S, f) = A \ {c} /\ c \in A
  BY <1>1 DEF InStates
<1>3. IsFiniteSet(A)
  BY <1>1, ConnsAssumption, FS_Subset DEF InStates
<1>4. QED
  BY <1>1, <1>2, <1>3, FS_RemoveElement

\* What a scrape reads is what there is: no close is counted twice, and no
\* connection is forgotten, whoever closes it.
THEOREM CountersAreExact == Spec => []CountersExact
<1>1. Init => Exact
  <2> SUFFICES ASSUME Init, NEW f \in Feeds
               PROVE  /\ open[f] = Cardinality(InStates(status, feedOf, OpenStates, f))
                      /\ accepted[f] = Cardinality(InStates(status, feedOf, AcceptedStates, f))
    BY DEF Exact
  <2>1. InStates(status, feedOf, OpenStates, f) = {} /\ InStates(status, feedOf, AcceptedStates, f) = {}
    BY DEF Init, InStates, OpenStates, AcceptedStates
  <2>2. open[f] = 0 /\ accepted[f] = 0
    BY DEF Init
  <2>3. QED
    BY <2>1, <2>2, FS_EmptySet
<1>2. TypeOK /\ Exact /\ [Next]_vars => Exact'
  <2> SUFFICES ASSUME TypeOK, Exact, [Next]_vars PROVE Exact'
    OBVIOUS
  <2>1. ASSUME UNCHANGED <<status, feedOf, open, accepted>> PROVE Exact'
    BY <2>1 DEF Exact, InStates
  <2>2. ASSUME NEW c \in Conns, NEW x \in Status, status' = [status EXCEPT ![c] = x], UNCHANGED feedOf,
               open' = IF status[c] \in OpenStates <=> x \in OpenStates THEN open
                       ELSE [open EXCEPT ![feedOf[c]] = IF x \in OpenStates THEN @ + 1 ELSE @ - 1],
               accepted' = IF status[c] \in AcceptedStates <=> x \in AcceptedStates THEN accepted
                           ELSE [accepted EXCEPT ![feedOf[c]] = @ + 1],
               status[c] \in AcceptedStates => x \in AcceptedStates
        PROVE  Exact'
    <3> SUFFICES ASSUME NEW f \in Feeds
                 PROVE  /\ open'[f] = Cardinality(InStates(status', feedOf', OpenStates, f))
                        /\ accepted'[f] = Cardinality(InStates(status', feedOf', AcceptedStates, f))
      BY DEF Exact, OpenStates, AcceptedStates
    <3>1. /\ open[f] = Cardinality(InStates(status, feedOf, OpenStates, f))
          /\ accepted[f] = Cardinality(InStates(status, feedOf, AcceptedStates, f))
          /\ feedOf[c] \in Feeds
      BY DEF Exact, TypeOK
    <3>2. PICK n, m : n = Cardinality(InStates(status, feedOf, OpenStates, f)) /\ m = Cardinality(InStates(status, feedOf, AcceptedStates, f))
      OBVIOUS
    <3>3. status'[c] = x /\ (\A d \in Conns \ {c} : status'[d] = status[d]) /\ feedOf' = feedOf
      BY <2>2 DEF TypeOK
    <3>4. ASSUME NEW S
          PROVE  /\ Cardinality(InStates(status, feedOf, S, f)) \in Nat
                 /\ feedOf[c] # f \/ (status[c] \in S <=> x \in S) =>
                      Cardinality(InStates(status', feedOf', S, f)) = Cardinality(InStates(status, feedOf, S, f))
                 /\ feedOf[c] = f /\ status[c] \notin S /\ x \in S =>
                      Cardinality(InStates(status', feedOf', S, f)) = Cardinality(InStates(status, feedOf, S, f)) + 1
                 /\ feedOf[c] = f /\ status[c] \in S /\ x \notin S =>
                      Cardinality(InStates(status', feedOf', S, f)) = Cardinality(InStates(status, feedOf, S, f)) - 1
      <4>1. PICK at, next, of : at = status /\ next = status' /\ of = feedOf
        OBVIOUS
      <4>2. \A d \in Conns \ {c} : next[d] = at[d]
        BY <3>3, <4>1
      <4>3. Cardinality(InStates(at, of, S, f)) \in Nat
        BY ConnsAssumption, FS_Subset, FS_CardinalityType DEF InStates
      <4>4. CASE feedOf[c] # f \/ (status[c] \in S /\ x \in S) \/ (status[c] \notin S /\ x \notin S)
        <5>1. of[c] = f => (at[c] \in S /\ next[c] \in S) \/ (at[c] \notin S /\ next[c] \notin S)
          BY <3>3, <4>1, <4>4
        <5>2. Cardinality(InStates(next, of, S, f)) = Cardinality(InStates(at, of, S, f))
          BY <4>2, <5>1, ConnectionStays
        <5>3. QED
          BY <3>3, <4>1, <4>3, <4>4, <5>2
      <4>5. CASE feedOf[c] = f /\ status[c] \notin S /\ x \in S
        <5>1. of[c] = f /\ at[c] \notin S /\ next[c] \in S
          BY <3>3, <4>1, <4>5
        <5>2. Cardinality(InStates(next, of, S, f)) = Cardinality(InStates(at, of, S, f)) + 1
          BY <4>2, <5>1, ConnectionComes
        <5>3. QED
          BY <3>3, <4>1, <4>3, <4>5, <5>2
      <4>6. CASE feedOf[c] = f /\ status[c] \in S /\ x \notin S
        <5>1. of[c] = f /\ at[c] \in S /\ next[c] \notin S
          BY <3>3, <4>1, <4>6
        <5>2. Cardinality(InStates(next, of, S, f)) = Cardinality(InStates(at, of, S, f)) - 1
          BY <4>2, <5>1, ConnectionGoes
        <5>3. QED
          BY <3>3, <4>1, <4>3, <4>6, <5>2
      <4>7. QED
        BY <4>4, <4>5, <4>6
    <3>5. open'[f] = IF feedOf[c] # f \/ (status[c] \in OpenStates <=> x \in OpenStates) THEN n
                     ELSE IF x \in OpenStates THEN n + 1 ELSE n - 1
      BY <2>2, <3>1, <3>2 DEF TypeOK
    <3>6. accepted'[f] = IF feedOf[c] # f \/ (status[c] \in AcceptedStates <=> x \in AcceptedStates) THEN m
                         ELSE m + 1
      BY <2>2, <3>1, <3>2 DEF TypeOK
    <3>7. QED
      BY <2>2, <3>2, <3>4, <3>5, <3>6
  <2> USE DEF OpenStates, AcceptedStates, Status, connVars, feedVars, genVars, srvVars
  <2>3. ASSUME NEW c \in Conns, Connect(c) PROVE Exact'
    BY <2>2, <2>3 DEF Connect
  <2>4. ASSUME NEW c \in Conns, SessionEnds(c) \/ ShutCloses(c) PROVE Exact'
    BY <2>2, <2>4 DEF SessionEnds, ShutCloses
  <2>5. ASSUME NEW c \in Conns, Uncount(c) PROVE Exact'
    BY <2>2, <2>5 DEF Uncount
  <2>6. ASSUME NEW f \in Feeds, CloseFeed(f) PROVE Exact'
    <3>1. ASSUME NEW g \in Feeds
          PROVE  /\ InStates(status', feedOf', OpenStates, g) = InStates(status, feedOf, OpenStates, g)
                 /\ InStates(status', feedOf', AcceptedStates, g) = InStates(status, feedOf, AcceptedStates, g)
      BY <2>6 DEF CloseFeed, InStates
    <3>2. UNCHANGED <<open, accepted>>
      BY <2>6 DEF CloseFeed
    <3>3. QED
      BY <3>1, <3>2 DEF Exact
  <2>7. ASSUME NEW f \in Feeds, NEW c \in Conns, FeedAccept(f, c) PROVE Exact'
    BY <2>2, <2>7 DEF FeedAccept
  <2>8. ASSUME NEW f \in Feeds, NEW c \in Conns, FeedDrop(f, c) PROVE Exact'
    BY <2>2, <2>8 DEF FeedDrop
  <2>9. ASSUME NEW g \in Gens, NEW f \in Feeds, NEW c \in Conns, Take(g, f, c) PROVE Exact'
    BY <2>2, <2>9 DEF Take
  <2>10. ASSUME NEW g \in Gens, NEW f \in Feeds, NEW c \in Conns, Track(g, f, c) PROVE Exact'
    BY <2>2, <2>10 DEF Track
  <2>11. ASSUME NEW g \in Gens, NEW f \in Feeds, NEW c \in Conns, Untake(g, f, c) PROVE Exact'
    BY <2>2, <2>11 DEF Untake
  <2>12. ASSUME NEW f \in Feeds, FeedAcceptFails(f) \/ Shut(f) PROVE Exact'
    BY <2>1, <2>12 DEF FeedAcceptFails, Shut
  <2>13. ASSUME NEW g \in Gens, NEW f \in Feeds,
                \/ ServerSetup(g, f) \/ ServerFails(g, f) \/ AcceptEnds(g, f)
                \/ ServerReturns(g, f) \/ ServerClosesListener(g, f)
         PROVE  Exact'
    BY <2>1, <2>13 DEF ServerSetup, ServerFails, AcceptEnds, ServerReturns, ServerClosesListener
  <2>14. ASSUME ServerNext \/ Exited \/ UNCHANGED vars PROVE Exact'
    BY <2>1, <2>14 DEF ServerNext, RunStart, RunReady, RunCancelled, RunSeesFailure, Leave, ShutdownLock,
         ShutdownStop, ShutdownEnd, SwapBegin, SwapStart, SwapEnd, Exited, vars
  <2>15. QED
    BY <2>3, <2>4, <2>5, <2>6, <2>7, <2>8, <2>9, <2>10, <2>11, <2>12, <2>13, <2>14
    DEF Next, ConnNext, FeedNext, ListenerNext
<1>3. TypeOK /\ Exact => CountersExact
  <2> SUFFICES ASSUME TypeOK, Exact, NEW f \in Feeds
               PROVE  /\ open[f] = Cardinality(Counted(f))
                      /\ accepted[f] = Cardinality({c \in Conns :
                           feedOf[c] = f /\ status[c] \notin {"absent", "backlog", "refused"}})
    BY DEF CountersExact
  <2>1. Counted(f) = InStates(status, feedOf, OpenStates, f)
    BY DEF Counted, InStates, OpenStates
  <2>2. {c \in Conns : feedOf[c] = f /\ status[c] \notin {"absent", "backlog", "refused"}} =
          InStates(status, feedOf, AcceptedStates, f)
    BY DEF InStates, AcceptedStates, TypeOK
  <2>3. QED
    BY <2>1, <2>2 DEF Exact
<1>4. QED
  BY <1>1, <1>2, <1>3, TypeCorrect, PTL DEF Spec
-----------------------------------------------------------------------------
(***************************************************************************)
(* The refinement.                                                         *)
(***************************************************************************)

\* The generations implement Revocation: every step of this program is a
\* session opening under the current list, a session ending, the list being
\* replaced while no session is left, or none of the promise's business.
THEOREM SwapImplementsRevocation == Spec => ImplementsRevocation
<1> DEFINE session == [c \in Conns |-> IF status[c] = "tracked"
                                       THEN lists[genOf[c]][feedOf[c]] ELSE 0]
<1> DEFINE past == {c \in Conns : status[c] \in {"closing", "closed"}}
<1>1. Init => Abstract!AbstractInit
  BY DEF Init, Abstract!AbstractInit
<1>2. Inv /\ Inv' /\ [Next]_vars => [Abstract!AbstractNext]_(Abstract!abstractVars)
  <2> SUFFICES ASSUME Inv, Inv', [Next]_vars
               PROVE  Abstract!AbstractNext \/ UNCHANGED <<shares, session, past>>
    BY DEF Abstract!abstractVars
  <2>0. /\ TypeOK /\ LifeCycle /\ ServersCurrent /\ CurrentListOnly
        /\ \A c \in Conns : status[c] = "tracked" => /\ lists[genOf[c]][feedOf[c]] = shares
                                                     /\ shares # 0
    BY DEF Inv, Safe, LifeCycle, OneGeneration, CurrentListOnly, Gens, TypeOK
  <2>1. ASSUME NEW c \in Conns, status[c] = "tracked", UNCHANGED <<shares, lists, genOf, feedOf>>,
               status' = [status EXCEPT ![c] = "closing"]
        PROVE  Abstract!EndSession(c)
    BY <2>0, <2>1 DEF Abstract!EndSession, TypeOK
  <2>2. ASSUME NEW c \in Conns, SessionEnds(c) \/ ShutCloses(c)
        PROVE  Abstract!AbstractNext
    BY <2>1, <2>2 DEF SessionEnds, ShutCloses, genVars, srvVars, Abstract!AbstractNext
  <2>3. ASSUME NEW g \in Gens, NEW f \in Feeds, NEW c \in Conns, Track(g, f, c)
        PROVE  Abstract!AbstractNext
    <3>1. /\ status[c] = "taken" /\ status' = [status EXCEPT ![c] = "tracked"]
          /\ UNCHANGED <<shares, lists, genOf, feedOf>>
      BY <2>3 DEF Track, srvVars
    <3>2. lists[genOf[c]][feedOf[c]] = shares
      BY <3>1 DEF Inv, Safe, CurrentListOnly, TypeOK
    <3>3. Abstract!OpenSession(c)
      BY <2>0, <3>1, <3>2 DEF Abstract!OpenSession, TypeOK
    <3>4. QED
      BY <3>3 DEF Abstract!AbstractNext
  <2>4. ASSUME SwapStart PROVE Abstract!AbstractNext
    <3>1. \A c \in Conns : status[c] \notin {"taken", "tracked", "closing"}
      BY <2>4, StopLeavesNothing DEF SwapStart, Inv, Safe
    <3>2. shares' = shares + 1 /\ UNCHANGED <<status, genOf, feedOf>>
      BY <2>4 DEF SwapStart, connVars
    <3>3. session' = session /\ past' = past /\ \A c \in Conns : session[c] = 0
      BY <3>1, <3>2
    <3>4. QED
      BY <3>2, <3>3 DEF Abstract!AbstractNext, Abstract!ReplaceList
  <2>5. ASSUME shares' = shares,
               \A c \in Conns : /\ status'[c] = "tracked" <=> status[c] = "tracked"
                                /\ status'[c] \in {"closing", "closed"} <=> status[c] \in {"closing", "closed"}
        PROVE  UNCHANGED <<shares, session, past>>
    <3>1. past' = past
      BY <2>5
    <3>2. ASSUME NEW c \in Conns PROVE session'[c] = session[c]
      BY <2>5 DEF Inv, Safe, CurrentListOnly
    <3>3. session' = session
      BY <3>2
    <3>4. QED
      BY <2>5, <3>1, <3>3
  <2>6. ASSUME UNCHANGED <<shares, status>> PROVE UNCHANGED <<shares, session, past>>
    BY <2>5, <2>6
  <2>7. ASSUME NEW c \in Conns, Connect(c) \/ Uncount(c)
        PROVE  UNCHANGED <<shares, session, past>>
    BY <2>0, <2>5, <2>7 DEF Connect, Uncount, srvVars, TypeOK
  <2>8. ASSUME NEW f \in Feeds, CloseFeed(f)
        PROVE  UNCHANGED <<shares, session, past>>
    BY <2>0, <2>5, <2>8 DEF CloseFeed, srvVars, TypeOK
  <2>9. ASSUME NEW f \in Feeds, NEW c \in Conns, FeedAccept(f, c) \/ FeedDrop(f, c)
        PROVE  UNCHANGED <<shares, session, past>>
    BY <2>0, <2>5, <2>9 DEF FeedAccept, FeedDrop, srvVars, TypeOK
  <2>10. ASSUME NEW g \in Gens, NEW f \in Feeds, NEW c \in Conns, Take(g, f, c) \/ Untake(g, f, c)
         PROVE  UNCHANGED <<shares, session, past>>
    BY <2>0, <2>5, <2>10 DEF Take, Untake, srvVars, TypeOK
  <2>11. ASSUME NEW f \in Feeds, FeedAcceptFails(f) \/ Shut(f)
         PROVE  UNCHANGED <<shares, session, past>>
    BY <2>6, <2>11 DEF FeedAcceptFails, Shut, connVars, srvVars
  <2>12. ASSUME NEW g \in Gens, NEW f \in Feeds,
                \/ ServerSetup(g, f) \/ ServerFails(g, f) \/ AcceptEnds(g, f)
                \/ ServerReturns(g, f) \/ ServerClosesListener(g, f)
         PROVE  UNCHANGED <<shares, session, past>>
    BY <2>6, <2>12 DEF ServerSetup, ServerFails, AcceptEnds, ServerReturns,
                       ServerClosesListener, connVars, srvVars
  <2>13. ASSUME \/ RunStart \/ RunReady \/ RunCancelled \/ RunSeesFailure \/ ShutdownLock
                \/ ShutdownStop \/ ShutdownEnd \/ SwapBegin \/ SwapEnd \/ Exited \/ UNCHANGED vars
         PROVE  UNCHANGED <<shares, session, past>>
    BY <2>6, <2>13 DEF RunStart, RunReady, RunCancelled, RunSeesFailure, Leave, ShutdownLock,
         ShutdownStop, ShutdownEnd, SwapBegin, SwapEnd, Exited, connVars, srvVars, vars
  <2>14. QED
    BY <2>2, <2>3, <2>4, <2>7, <2>8, <2>9, <2>10, <2>11, <2>12, <2>13
    DEF Next, ConnNext, FeedNext, ListenerNext, ServerNext
<1>3. QED
  BY <1>1, <1>2, InvCorrect, PTL DEF Spec, ImplementsRevocation, Abstract!AbstractSpec
=============================================================================
