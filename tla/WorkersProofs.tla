--------------------------- MODULE WorkersProofs ---------------------------
(***************************************************************************)
(* Theorems about Workers, for any number of people, shares, connections   *)
(* and requests, and any interleaving of them with idle timers, starts     *)
(* that fail, workers that die, swaps and the shutdown.                    *)
(***************************************************************************)
EXTENDS Workers, FiniteSetTheorems, TLAPS

\* Where a use has a worker, and where it is the one that starts it.
Refers == {"starting", "asking", "failing", "waiting", "dead", "forget", "using"}
Starts == {"starting", "asking"}

\* The variables' types but for the bounds of a worker's count: a use has a
\* key and a worker where it needs one, and whoever asks asks for a worker.
Shape ==
  /\ m \in [Keys -> Ids \cup {None}] /\ failed \subseteq Keys /\ closed \in BOOLEAN
  /\ wk \in [Ids -> Worker] /\ rst \subseteq Ids /\ held \subseteq Ids /\ running \subseteq Ids
  /\ conv \in Ids \cup {None} /\ asked \in {"no", "sent", "no worker", "sending", "answered"}
  /\ asked # "no" => conv # None
  /\ use \in [Uses -> Use]
  /\ \A u \in Uses : /\ use[u].at \in InAcquire \cup {"using"} => use[u].key \in Keys
                     /\ use[u].at \in Refers <=> use[u].w # None
  /\ conns \subseteq Ssh /\ shutting \in BOOLEAN /\ wg \in Int
  /\ accept \in {"accepting", "holds", "tracked", "returned", "waiting"}
  /\ stopping \in BOOLEAN /\ swaps \in 0..MaxSwaps
  /\ srv \in {"serving", "swapping", "resetting", "shutting down", "closed", "closing", "exited"}

\* What a use may rely on of its worker, by its step.
UseFits(x) ==
  /\ x.at \in Refers => wk[x.w].key = x.key
  /\ x.at \in Starts => wk[x.w].fs = "nil"
  /\ x.at = "asking" => conv = x.w
  /\ x.at = "failing" => wk[x.w].fs \in {"err", "shut"}
  /\ x.at \in {"dead", "forget", "using"} => wk[x.w].fs \in {"open", "shut"}
  /\ x.at = "waiting" => wk[x.w].fs # "blank"

UseInv == \A u \in Uses : UseFits(use[u])

\* A worker is started once.
StarterInv ==
  \A u, v \in Uses : use[u].at \in Starts /\ use[v].at \in Starts /\ use[u].w = use[v].w => u = v

\* The map's worker of a key is that key's; a reset that is under way closes
\* what it took out of the map.
MapInv ==
  /\ \A k \in Keys : m[k] # None => wk[m[k]].key = k /\ wk[m[k]].fs # "blank"
  /\ rst # {} => srv \in {"resetting", "closing"}

InMap(w) == \E k \in Keys : m[k] = w

\* The count of a worker in the map is the number of its uses.  Once its start
\* failed it only has to stay above zero, which keeps the idle timer off it.
CountInv ==
  \A w \in Ids :
    /\ InMap(w) /\ wk[w].fs # "err" => wk[w].refs = Cardinality(Counting(w))
    /\ InMap(w) /\ wk[w].fs = "err" => wk[w].refs >= 1
    /\ wk[w].refs \in 0..Cardinality(Uses)

\* A worker that was ever given out is somebody's.
KeyInv == \A w \in Ids : wk[w].key \in Keys \/ wk[w] = Blank

PoolInv == UseInv /\ StarterInv /\ MapInv /\ CountInv /\ KeyInv

\* The strengthening of NoStrayWorker.
StrayInv ==
  \A w \in Ids : wk[w].fs \in {"nil", "open"} /\ srv # "exited" => InMap(w) \/ w \in rst

\* An update of a worker is a worker.
LEMMA WorkerUpdates ==
  ASSUME NEW x \in Worker
  PROVE  /\ \A i \in Int : [x EXCEPT !.refs = i] \in Worker
         /\ \A b \in BOOLEAN : [x EXCEPT !.timer = b] \in Worker
         /\ \A s \in {"blank", "nil", "open", "err", "shut"} : [x EXCEPT !.fs = s] \in Worker
         /\ \A i \in 0..MaxFired : [x EXCEPT !.fired = i] \in Worker
BY DEF Worker

\* A use that goes on is a use.
LEMMA UseUpdates ==
  ASSUME NEW x \in Use
  PROVE  /\ \A a \in InAcquire \cup {"off", "using", "accepted", "tracked", "handshake", "ended"} :
              [x EXCEPT !.at = a] \in Use
         /\ \A w \in Ids \cup {None} : [x EXCEPT !.w = w] \in Use
         /\ \A k \in Keys \cup {NoKey} : [x EXCEPT !.key = k] \in Use
BY DEF Use

\* A worker that is dropped keeps its filesystem and its key.
LEMMA DroppedIs ==
  ASSUME wk \in [Ids -> Worker], NEW w \in Ids
  PROVE  /\ Dropped(w) \in Worker
         /\ Dropped(w).key = wk[w].key /\ Dropped(w).fs = wk[w].fs
         /\ Dropped(w).refs = 0 /\ Dropped(w).fired = wk[w].fired
<1>1. wk[w] \in Worker
  OBVIOUS
<1>2. [wk[w] EXCEPT !.refs = 0] \in Worker
  BY <1>1 DEF Worker
<1>3. Dropped(w) = [[wk[w] EXCEPT !.refs = 0] EXCEPT !.timer = FALSE]
  BY DEF Dropped
<1>4. Dropped(w) \in Worker
  BY <1>2, <1>3, WorkerUpdates
<1>5. QED
  BY <1>1, <1>2, <1>3, <1>4 DEF Worker

\* A worker that is dropped and closed.
LEMMA DroppedShut ==
  ASSUME wk \in [Ids -> Worker], NEW w \in Ids
  PROVE  LET x == [Dropped(w) EXCEPT !.fs = "shut"]
         IN x \in Worker /\ x.key = wk[w].key /\ x.fs = "shut" /\ x.refs = 0 /\ x.fired = wk[w].fired
<1>1. Dropped(w) \in Worker
  BY DroppedIs
<1>2. [Dropped(w) EXCEPT !.fs = "shut"] \in Worker
  BY <1>1, WorkerUpdates
<1>3. QED
  BY <1>1, <1>2, DroppedIs DEF Worker

\* What acquire does to the worker it counts itself on.
LEMMA CountedIs ==
  ASSUME wk \in [Ids -> Worker], NEW w \in Ids, counted(w)
  PROVE  /\ wk' \in [Ids -> Worker] /\ \A v \in Ids \ {w} : wk'[v] = wk[v]
         /\ wk'[w].key = wk[w].key /\ wk'[w].fs = wk[w].fs /\ wk'[w].fired = wk[w].fired
         /\ wk'[w].refs = IF wk[w].fs = "err" THEN wk[w].refs ELSE wk[w].refs + 1
<1> DEFINE r == IF wk[w].fs = "err" THEN wk[w].refs ELSE wk[w].refs + 1
<1>1. wk[w] \in Worker /\ r \in Int
  BY DEF Worker
<1>2. wk' = [[wk EXCEPT ![w].refs = r] EXCEPT ![w].timer = FALSE]
  BY DEF counted
<1>3. [wk[w] EXCEPT !.refs = r] \in Worker
  BY <1>1, WorkerUpdates
<1> HIDE DEF r
<1>4. [wk EXCEPT ![w].refs = r] \in [Ids -> Worker]
  BY <1>3
<1>5. wk'[w] = [[wk[w] EXCEPT !.refs = r] EXCEPT !.timer = FALSE]
  BY <1>2
<1>6. wk'[w] \in Worker
  BY <1>3, <1>5, WorkerUpdates
<1>7. wk' \in [Ids -> Worker] /\ \A v \in Ids \ {w} : wk'[v] = wk[v]
  BY <1>2, <1>4, <1>6
<1>8. wk'[w].key = wk[w].key /\ wk'[w].fs = wk[w].fs /\ wk'[w].fired = wk[w].fired /\ wk'[w].refs = r
  BY <1>1, <1>3, <1>5 DEF Worker
<1>9. QED
  BY <1>7, <1>8 DEF r

\* What the release of a worker that is in the map does to it.
LEMMA ReleaseIs ==
  ASSUME wk \in [Ids -> Worker], NEW w \in Ids, release(w)
  PROVE  /\ wk' \in [Ids -> Worker] /\ \A v \in Ids \ {w} : wk'[v] = wk[v]
         /\ wk'[w].key = wk[w].key /\ wk'[w].fs = wk[w].fs /\ wk'[w].fired = wk[w].fired
         /\ wk'[w].refs = IF m[wk[w].key] = w THEN wk[w].refs - 1 ELSE wk[w].refs
<1> DEFINE r == wk[w].refs - 1
<1> DEFINE b == (wk[w].refs = 1)
<1>1. wk[w] \in Worker /\ r \in Int /\ b \in BOOLEAN
  BY DEF Worker
<1>2. CASE m[wk[w].key] = w
  <2>1. wk' = [[wk EXCEPT ![w].refs = r] EXCEPT ![w].timer = b]
    BY <1>2 DEF release
  <2>2. r \in Int /\ b \in BOOLEAN
    BY <1>1
  <2>3. r = wk[w].refs - 1
    OBVIOUS
  <2> HIDE DEF r, b
  <2>4. [wk[w] EXCEPT !.refs = r] \in Worker
    BY <1>1, <2>2, WorkerUpdates
  <2>5. [wk EXCEPT ![w].refs = r] \in [Ids -> Worker]
    BY <2>4
  <2>6. wk'[w] = [[wk[w] EXCEPT !.refs = r] EXCEPT !.timer = b]
    BY <2>1
  <2>7. wk'[w] \in Worker
    BY <2>2, <2>4, <2>6, WorkerUpdates
  <2>8. wk' \in [Ids -> Worker] /\ \A v \in Ids \ {w} : wk'[v] = wk[v]
    BY <2>1, <2>5, <2>7
  <2>9. wk'[w].key = wk[w].key /\ wk'[w].fs = wk[w].fs /\ wk'[w].fired = wk[w].fired /\ wk'[w].refs = r
    BY <1>1, <2>4, <2>6 DEF Worker
  <2>10. QED
    BY <1>2, <2>3, <2>8, <2>9
<1>3. CASE m[wk[w].key] # w
  BY <1>3 DEF release
<1>4. QED
  BY <1>2, <1>3

\* What one use does to itself only.
LEMMA UseMoves ==
  ASSUME use \in [Uses -> Use], NEW u \in Uses
  PROVE  /\ \A a \in InAcquire \cup {"off", "using", "accepted", "tracked", "handshake", "ended"} : At(u, a) =>
              /\ use' \in [Uses -> Use] /\ \A v \in Uses \ {u} : use'[v] = use[v]
              /\ use'[u].at = a /\ use'[u].key = use[u].key /\ use'[u].w = use[u].w
         /\ Leave(u) => /\ use' \in [Uses -> Use] /\ \A v \in Uses \ {u} : use'[v] = use[v]
                        /\ use'[u].at \in {"ended", "off"} /\ use'[u].w = None /\ use'[u].key = NoKey
<1>1. ASSUME NEW a \in InAcquire \cup {"off", "using", "accepted", "tracked", "handshake", "ended"}, At(u, a)
      PROVE  /\ use' \in [Uses -> Use] /\ \A v \in Uses \ {u} : use'[v] = use[v]
             /\ use'[u].at = a /\ use'[u].key = use[u].key /\ use'[u].w = use[u].w
  <2>1. [use[u] EXCEPT !.at = a] \in Use
    BY UseUpdates
  <2>2. QED
    BY <1>1, <2>1 DEF At, Use
<1>2. ASSUME Leave(u)
      PROVE  /\ use' \in [Uses -> Use] /\ \A v \in Uses \ {u} : use'[v] = use[v]
             /\ use'[u].at \in {"ended", "off"} /\ use'[u].w = None /\ use'[u].key = NoKey
  <2>1. Refused(u) \in {"ended", "off"}
    BY DEF Refused
  <2>2. [at |-> Refused(u), key |-> NoKey, w |-> None] \in Use
    BY <2>1 DEF Use
  <2>3. QED
    BY <1>2, <2>1, <2>2 DEF Leave
<1>3. QED
  BY <1>1, <1>2

\* A use that takes a worker, or gives it up to start over.
LEMMA UseTakes ==
  ASSUME use \in [Uses -> Use], NEW u \in Uses, NEW a \in InAcquire, NEW w \in Ids \cup {None},
         use' = [use EXCEPT ![u].at = a, ![u].w = w]
  PROVE  /\ use' \in [Uses -> Use] /\ \A v \in Uses \ {u} : use'[v] = use[v]
         /\ use'[u].at = a /\ use'[u].key = use[u].key /\ use'[u].w = w
<1>1. [use[u] EXCEPT !.at = a] \in Use
  BY UseUpdates
<1>2. [[use[u] EXCEPT !.at = a] EXCEPT !.w = w] \in Use
  BY <1>1, UseUpdates
<1>3. use'[u] = [[use[u] EXCEPT !.at = a] EXCEPT !.w = w]
  OBVIOUS
<1>4. use' \in [Uses -> Use] /\ \A v \in Uses \ {u} : use'[v] = use[v]
  BY <1>2, <1>3
<1>5. QED
  BY <1>1, <1>2, <1>3, <1>4 DEF Use

\* A use that releases its worker keeps it only to forget it.
LEMMA ReleaseMoves ==
  ASSUME use \in [Uses -> Use], NEW u \in Uses, NEW to \in {"forget", "off", "ended"}, Release(u, to)
  PROVE  /\ use' \in [Uses -> Use] /\ \A v \in Uses \ {u} : use'[v] = use[v]
         /\ use'[u].at = to
         /\ IF to = "forget" THEN use'[u].w = use[u].w /\ use'[u].key = use[u].key
                             ELSE use'[u].w = None
<1> DEFINE nw == IF to = "forget" THEN use[u].w ELSE None
<1> DEFINE nk == IF to = "forget" THEN use[u].key ELSE NoKey
<1>0. use[u].w \in Ids \cup {None} /\ use[u].key \in Keys \cup {NoKey}
  BY DEF Use
<1>1. nw \in Ids \cup {None} /\ nk \in Keys \cup {NoKey}
  BY <1>0
<1>2. use'[u] = [at |-> to, key |-> nk, w |-> nw]
  BY DEF Release
<1>3. \A v \in Uses \ {u} : use'[v] = use[v]
  BY DEF Release
<1>4. use'[u] \in Use
  BY <1>1, <1>2 DEF Use, InAcquire
<1>5. use' \in [Uses -> Use]
  BY <1>3, <1>4 DEF Release
<1>6. QED
  BY <1>2, <1>3, <1>5

\* What the callback of the idle timer does to its worker.
LEMMA IdleIs ==
  ASSUME wk \in [Ids -> Worker], m \in [Keys -> Ids \cup {None}], NEW w \in Ids, idle(w)
  PROVE  /\ wk' \in [Ids -> Worker] /\ \A v \in Ids \ {w} : wk'[v] = wk[v]
         /\ wk'[w].key = wk[w].key /\ wk[w].fired > 0
         /\ IF wk[w].refs = 0 /\ m[wk[w].key] = w
              THEN /\ wk'[w].fs = "shut" /\ wk'[w].refs = 0
                   /\ m' = [m EXCEPT ![wk[w].key] = None]
              ELSE wk'[w].fs = wk[w].fs /\ wk'[w].refs = wk[w].refs /\ m' = m
<1>0. wk[w] \in Worker /\ wk[w].fired > 0 /\ wk[w].fired - 1 \in 0..MaxFired
  BY WorkersBoundsAssumption DEF idle, Worker
<1>1. \A v \in Ids \ {w} : wk'[v] = wk[v]
  BY DEF idle
<1>2. CASE wk[w].refs = 0 /\ m[wk[w].key] = w
  <2> DEFINE d == Dropped(w)
  <2>1. d \in Worker /\ d.key = wk[w].key /\ d.fs = wk[w].fs /\ d.refs = 0 /\ d.fired = wk[w].fired
    BY DroppedIs
  <2>2. wk'[w] = [[d EXCEPT !.fired = wk[w].fired - 1] EXCEPT !.fs = "shut"]
    BY <1>2, <2>1 DEF idle
  <2> HIDE DEF d
  <2>3. [d EXCEPT !.fired = wk[w].fired - 1] \in Worker
    BY <1>0, <2>1, WorkerUpdates
  <2>4. wk'[w] \in Worker
    BY <2>2, <2>3, WorkerUpdates
  <2>5. wk'[w].key = wk[w].key /\ wk'[w].fs = "shut" /\ wk'[w].refs = 0
    BY <2>1, <2>2, <2>3, <2>4 DEF Worker
  <2>6. wk' \in [Ids -> Worker] /\ m' = [m EXCEPT ![wk[w].key] = None]
    BY <1>1, <1>2, <2>4 DEF idle
  <2>7. QED
    BY <1>0, <1>1, <1>2, <2>5, <2>6
<1>3. CASE ~(wk[w].refs = 0 /\ m[wk[w].key] = w)
  <2>0. m' = m
    BY <1>3 DEF idle
  <2>a. wk' = [wk EXCEPT ![w] = [wk[w] EXCEPT !.fired = wk[w].fired - 1]]
    BY <1>3 DEF idle
  <2>1. wk'[w] = [wk[w] EXCEPT !.fired = wk[w].fired - 1] /\ m' = m
    BY <2>0, <2>a
  <2>2. wk'[w] \in Worker
    BY <1>0, <2>1, WorkerUpdates
  <2>3. wk'[w].key = wk[w].key /\ wk'[w].fs = wk[w].fs /\ wk'[w].refs = wk[w].refs
    BY <1>0, <2>1 DEF Worker
  <2>4. wk' \in [Ids -> Worker]
    BY <1>1, <2>2 DEF idle
  <2>5. QED
    BY <1>0, <1>1, <1>3, <2>1, <2>3, <2>4
<1>4. QED
  BY <1>2, <1>3

\* An update of a worker's filesystem alone.
LEMMA FsIs ==
  ASSUME wk \in [Ids -> Worker], NEW w \in Ids, NEW s \in {"open", "err", "shut"},
         wk' = [wk EXCEPT ![w].fs = s]
  PROVE  /\ wk' \in [Ids -> Worker] /\ \A v \in Ids \ {w} : wk'[v] = wk[v]
         /\ wk'[w].key = wk[w].key /\ wk'[w].fs = s
         /\ wk'[w].refs = wk[w].refs /\ wk'[w].fired = wk[w].fired
<1>1. [wk[w] EXCEPT !.fs = s] \in Worker
  BY WorkerUpdates
<1>2. QED
  BY <1>1 DEF Worker

\* What reset does to the workers of the map.
LEMMA ResetIs ==
  ASSUME wk \in [Ids -> Worker], reset
  PROVE  /\ wk' \in [Ids -> Worker]
         /\ \A w \in Ids : /\ wk'[w].key = wk[w].key /\ wk'[w].fs = wk[w].fs /\ wk'[w].fired = wk[w].fired
                           /\ wk'[w].refs = IF InMap(w) THEN 0 ELSE wk[w].refs
         /\ \A w \in Ids : ~InMap(w) => wk'[w] = wk[w]
         /\ \A w \in Ids : w \in rst' <=> InMap(w)
         /\ rst' \subseteq Ids
<1>1. rst' \subseteq Ids /\ \A w \in Ids : w \in rst' <=> InMap(w)
  BY DEF reset, InMap
<1>2. wk' = [w \in Ids |-> IF w \in rst' THEN Dropped(w) ELSE wk[w]]
  BY DEF reset
<1>3. QED
  BY <1>1, <1>2, DroppedIs

\* What acquire does, of its three ways.
LEMMA AcquireIs ==
  ASSUME Shape, NEW u \in Uses, acquire(u)
  PROVE  /\ use[u].at = "acquire"
         /\ \/ Leave(u) /\ UNCHANGED <<m, wk>>
            \/ /\ m[use[u].key] = None
               /\ \E w \in Ids :
                    /\ wk[w].fs = "blank"
                    /\ wk' \in [Ids -> Worker] /\ \A v \in Ids \ {w} : wk'[v] = wk[v]
                    /\ wk'[w].key = use[u].key /\ wk'[w].fs = "nil" /\ wk'[w].refs = 1
                    /\ wk'[w].fired = wk[w].fired
                    /\ m' = [m EXCEPT ![use[u].key] = w]
                    /\ use' = [use EXCEPT ![u].at = "starting", ![u].w = w]
            \/ /\ m[use[u].key] # None
               /\ counted(m[use[u].key]) /\ UNCHANGED m
               /\ use' = [use EXCEPT ![u].at = "waiting", ![u].w = m[use[u].key]]
<1>1. use[u].at = "acquire"
  BY DEF acquire
<1>2. \/ Leave(u) /\ UNCHANGED <<m, wk>>
      \/ /\ m[use[u].key] = None
         /\ \E w \in Ids :
              /\ wk[w] = Blank
              /\ wk' = [wk EXCEPT ![w] = [key |-> use[u].key, fs |-> "nil", refs |-> 1, timer |-> FALSE, fired |-> 0]]
              /\ m' = [m EXCEPT ![use[u].key] = w]
              /\ use' = [use EXCEPT ![u].at = "starting", ![u].w = w]
      \/ /\ m[use[u].key] # None
         /\ counted(m[use[u].key]) /\ UNCHANGED m
         /\ use' = [use EXCEPT ![u].at = "waiting", ![u].w = m[use[u].key]]
  BY DEF acquire
<1>3. ASSUME NEW w \in Ids, wk[w] = Blank,
             wk' = [wk EXCEPT ![w] = [key |-> use[u].key, fs |-> "nil", refs |-> 1, timer |-> FALSE, fired |-> 0]]
      PROVE  /\ wk[w].fs = "blank"
             /\ wk' \in [Ids -> Worker] /\ \A v \in Ids \ {w} : wk'[v] = wk[v]
             /\ wk'[w].key = use[u].key /\ wk'[w].fs = "nil" /\ wk'[w].refs = 1
             /\ wk'[w].fired = wk[w].fired
  <2> DEFINE new == [key |-> use[u].key, fs |-> "nil", refs |-> 1, timer |-> FALSE, fired |-> 0]
  <2>2. use[u].key \in Keys \cup {NoKey}
    BY DEF Shape, Use
  <2>3. new \in Worker
    BY <2>2, WorkersBoundsAssumption DEF Worker
  <2>4. wk \in [Ids -> Worker] /\ wk' = [wk EXCEPT ![w] = new]
    BY <1>3 DEF Shape
  <2>5. new.key = use[u].key /\ new.fs = "nil" /\ new.refs = 1 /\ new.fired = 0
    OBVIOUS
  <2>6. wk[w].fs = "blank" /\ wk[w].fired = 0
    BY <1>3 DEF Blank
  <2> HIDE DEF new
  <2>7. QED
    BY <2>3, <2>4, <2>5, <2>6
<1>4. QED
  BY <1>1, <1>2, <1>3

\* The variables keep their shapes through every step.
LEMMA ShapeHolds == Spec => []Shape
<1>1. Init => Shape
  <2> SUFFICES ASSUME Init PROVE Shape
    OBVIOUS
  <2>1. Blank \in Worker /\ Idle \in Use /\ Idle.at = "off" /\ Idle.w = None
    BY WorkersBoundsAssumption DEF Blank, Worker, Idle, Use
  <2>2. wk \in [Ids -> Worker] /\ use \in [Uses -> Use] /\ m \in [Keys -> Ids \cup {None}]
    BY <2>1 DEF Init
  <2>3. \A u \in Uses : use[u].at = "off" /\ use[u].w = None
    BY <2>1 DEF Init
  <2>4. \A u \in Uses : /\ use[u].at \in InAcquire \cup {"using"} => use[u].key \in Keys
                        /\ use[u].at \in Refers <=> use[u].w # None
    BY <2>3 DEF InAcquire, Refers
  <2>5. closed \in BOOLEAN /\ shutting \in BOOLEAN /\ stopping \in BOOLEAN
    BY Zenon DEF Init
  <2>6. swaps \in 0..MaxSwaps
    BY WorkersBoundsAssumption DEF Init
  <2>7. QED
    BY <2>2, <2>4, <2>5, <2>6 DEF Init, Shape
<1>2. Shape /\ [Next]_vars => Shape'
  <2> SUFFICES ASSUME Shape, [Next]_vars PROVE Shape'
    OBVIOUS
  <2> DEFINE Fits(x) == /\ x.at \in InAcquire \cup {"using"} => x.key \in Keys
                        /\ x.at \in Refers <=> x.w # None
  <2>0. /\ m \in [Keys -> Ids \cup {None}] /\ wk \in [Ids -> Worker] /\ use \in [Uses -> Use]
        /\ \A u \in Uses : Fits(use[u])
        /\ \A u \in Uses : use[u].w \in Ids \cup {None} /\ use[u].key \in Keys \cup {NoKey}
    BY DEF Shape, Use
  <2>1. ASSUME m' \in [Keys -> Ids \cup {None}], failed' \subseteq Keys, wk' \in [Ids -> Worker],
               use' \in [Uses -> Use], \A u \in Uses : Fits(use'[u]),
               UNCHANGED <<closed, rst, launchVars, conns, sshVars, srvVars>>
        PROVE  Shape'
    BY <2>1 DEF Shape, launchVars, sshVars, srvVars
  <2>2. ASSUME UNCHANGED <<poolVars, launchVars, srvVars, shutting>>,
               use' \in [Uses -> Use], \A u \in Uses : Fits(use'[u]), conns' \subseteq Ssh,
               accept' \in {"accepting", "holds", "tracked", "returned", "waiting"}, wg' \in Int
        PROVE  Shape'
    BY <2>2 DEF Shape, poolVars, launchVars, srvVars
  <2>3. ASSUME UNCHANGED <<use, m, failed, wk, sshVars, srvVars, conns, closed, rst>>,
               conv' \in Ids \cup {None}, asked' \in {"no", "sent", "no worker", "sending", "answered"},
               asked' # "no" => conv' # None, held' \subseteq Ids, running' \subseteq Ids
        PROVE  Shape'
    BY <2>3 DEF Shape, sshVars, srvVars
  <2>4. ASSUME UNCHANGED <<launchVars, use>>, wk' \in [Ids -> Worker], m' \in [Keys -> Ids \cup {None}],
               failed' \subseteq Keys, rst' \subseteq Ids, closed' \in BOOLEAN, conns' \subseteq Ssh,
               shutting' \in BOOLEAN, wg' \in Int,
               accept' \in {"accepting", "holds", "tracked", "returned", "waiting"},
               stopping' \in BOOLEAN, swaps' \in 0..MaxSwaps,
               srv' \in {"serving", "swapping", "resetting", "shutting down", "closed", "closing", "exited"}
        PROVE  Shape'
    BY <2>4 DEF Shape, launchVars
  <2> HIDE DEF Fits
  <2>5. ASSUME NEW x, x.at \in {"off", "accepted", "tracked", "handshake", "ended"}, x.w = None PROVE Fits(x)
    BY <2>5 DEF Fits, InAcquire, Refers
  <2>6. ASSUME NEW u \in Uses, acquire(u) PROVE Shape'
    <3>1. UNCHANGED <<failed, closed, rst, launchVars, conns, sshVars, srvVars>> /\ failed \subseteq Keys
      BY <2>6 DEF acquire, Shape
    <3>2. CASE Leave(u) /\ UNCHANGED <<m, wk>>
      <4>1. /\ use' \in [Uses -> Use] /\ \A v \in Uses \ {u} : use'[v] = use[v]
            /\ use'[u].at \in {"ended", "off"} /\ use'[u].w = None
        BY <2>0, <3>2, UseMoves
      <4>2. \A v \in Uses : Fits(use'[v])
        BY <2>0, <2>5, <4>1
      <4>3. QED
        BY <2>0, <2>1, <3>1, <3>2, <4>1, <4>2
    <3>3. use[u].key \in Keys
      BY <2>0, <2>6, AcquireIs DEF Fits, InAcquire
    <3>4. ASSUME NEW a \in {"starting", "waiting"}, NEW w \in Ids, wk' \in [Ids -> Worker],
                 m' \in [Keys -> Ids \cup {None}],
                 use' = [use EXCEPT ![u].at = a, ![u].w = w]
          PROVE  Shape'
      <4>1. /\ use' \in [Uses -> Use] /\ \A v \in Uses \ {u} : use'[v] = use[v]
            /\ use'[u].at = a /\ use'[u].key = use[u].key /\ use'[u].w = w
        BY <2>0, <3>4, UseTakes DEF InAcquire
      <4>2. \A v \in Uses : Fits(use'[v])
        BY <2>0, <3>3, <4>1 DEF Fits, Refers, Ids, None
      <4>3. QED
        BY <2>1, <3>1, <3>4, <4>1, <4>2
    <3>5. ASSUME NEW w \in Ids, wk' \in [Ids -> Worker], m' = [m EXCEPT ![use[u].key] = w],
                 use' = [use EXCEPT ![u].at = "starting", ![u].w = w]
          PROVE  Shape'
      BY <2>0, <3>4, <3>5
    <3>6. CASE /\ m[use[u].key] # None /\ counted(m[use[u].key]) /\ UNCHANGED m
               /\ use' = [use EXCEPT ![u].at = "waiting", ![u].w = m[use[u].key]]
      <4>1. m[use[u].key] \in Ids
        BY <2>0, <3>3, <3>6
      <4>2. QED
        BY <2>0, <3>4, <3>6, <4>1, CountedIs
    <3>7. QED
      BY <2>6, <3>2, <3>5, <3>6, AcquireIs
  <2>7. ASSUME NEW k \in Keys, HoldEnds(k) PROVE Shape'
    BY <2>0, <2>1, <2>7 DEF HoldEnds, Shape
  <2>8. ASSUME NEW u \in Uses, use[u].at \in Refers PROVE use[u].w \in Ids /\ use[u].key \in Keys
    BY <2>0, <2>8 DEF Fits, Refers, InAcquire
  <2>9. ASSUME NEW u \in Uses, StartFailed(u) PROVE Shape'
    <3>1. use[u].w \in Ids /\ use[u].key \in Keys
      BY <2>8, <2>9 DEF StartFailed, Refers
    <3>2. m' \in [Keys -> Ids \cup {None}] /\ failed' \subseteq Keys
      BY <2>0, <2>9, <3>1 DEF StartFailed, Shape
    <3>3. wk' \in [Ids -> Worker]
      BY <2>0, <2>9, <3>1, DroppedIs DEF StartFailed
    <3>4. /\ use' \in [Uses -> Use] /\ \A v \in Uses \ {u} : use'[v] = use[v]
          /\ use'[u].at \in {"ended", "off"} /\ use'[u].w = None
      BY <2>0, <2>9, UseMoves DEF StartFailed
    <3>5. \A v \in Uses : Fits(use'[v])
      BY <2>0, <2>5, <3>4
    <3>6. QED
      BY <2>1, <2>9, <3>2, <3>3, <3>4, <3>5 DEF StartFailed
  <2>10. ASSUME NEW u \in Uses, Waited(u) PROVE Shape'
    <3>1. /\ use' \in [Uses -> Use] /\ \A v \in Uses \ {u} : use'[v] = use[v]
          /\ \/ use'[u].at \in {"ended", "off"} /\ use'[u].w = None
             \/ /\ use'[u].at \in {"using", "dead"} /\ use'[u].w = use[u].w
                /\ use'[u].key = use[u].key
      BY <2>0, <2>10, UseMoves DEF Waited, InAcquire
    <3>2. use[u].w \in Ids /\ use[u].key \in Keys
      BY <2>8, <2>10 DEF Waited, Refers
    <3>3. Fits(use'[u])
      BY <2>5, <3>1, <3>2 DEF Fits, Refers, Ids, None
    <3>4. QED
      BY <2>0, <2>2, <2>10, <3>1, <3>3 DEF Waited, Shape, sshVars
  <2>11. ASSUME NEW u \in Uses, NEW to \in {"forget", "off", "ended"}, use[u].at \in Refers,
                Release(u, to)
         PROVE  Shape'
    <3>1. use[u].w \in Ids /\ use[u].key \in Keys
      BY <2>8, <2>11
    <3>2. wk' \in [Ids -> Worker]
      BY <2>0, <2>11, <3>1, ReleaseIs DEF Release
    <3>3. /\ use' \in [Uses -> Use] /\ \A v \in Uses \ {u} : use'[v] = use[v]
          /\ use'[u].at = to
          /\ IF to = "forget" THEN use'[u].w = use[u].w /\ use'[u].key = use[u].key
                              ELSE use'[u].w = None
      BY <2>0, <2>11, ReleaseMoves
    <3>4. Fits(use'[u])
      BY <2>5, <3>1, <3>3 DEF Fits, Refers, Ids, None
    <3>5. QED
      BY <2>0, <2>1, <2>11, <3>2, <3>3, <3>4 DEF Release, Shape
  <2>12. ASSUME NEW u \in Uses, DeadRelease(u) PROVE Shape'
    BY <2>11, <2>12 DEF DeadRelease, Refers
  <2>13. ASSUME NEW u \in Uses, forget(u) PROVE Shape'
    <3>1. use[u].w \in Ids /\ use[u].key \in Keys
      BY <2>8, <2>13 DEF forget, Refers
    <3>2. m' \in [Keys -> Ids \cup {None}]
      BY <2>0, <2>13 DEF forget
    <3>3. wk' \in [Ids -> Worker]
      BY <2>0, <2>13, <3>1, DroppedShut DEF forget
    <3>4. use' = [use EXCEPT ![u].at = "acquire", ![u].w = None]
      BY <2>13 DEF forget
    <3>5. /\ use' \in [Uses -> Use] /\ \A v \in Uses \ {u} : use'[v] = use[v]
          /\ use'[u].at = "acquire" /\ use'[u].key = use[u].key /\ use'[u].w = None
      BY <2>0, <3>4, UseTakes DEF InAcquire
    <3>6. \A v \in Uses : Fits(use'[v])
      BY <2>0, <3>1, <3>5 DEF Fits, Refers
    <3>7. QED
      BY <2>1, <2>13, <3>2, <3>3, <3>5, <3>6 DEF forget, Shape
  <2>14. ASSUME NEW w \in Ids, TimerFires(w) PROVE Shape'
    <3>1. wk[w].fired + 1 \in 0..MaxFired /\ wk[w] \in Worker
      BY <2>0, <2>14, WorkersBoundsAssumption DEF TimerFires, Worker
    <3>2. [wk[w] EXCEPT !.timer = FALSE] \in Worker /\ [wk[w] EXCEPT !.timer = FALSE].fired = wk[w].fired
      BY <3>1, WorkerUpdates DEF Worker
    <3>3. [[wk[w] EXCEPT !.timer = FALSE] EXCEPT !.fired = wk[w].fired + 1] \in Worker
      BY <3>1, <3>2, WorkerUpdates
    <3>4. wk' = [wk EXCEPT ![w] = [[wk[w] EXCEPT !.timer = FALSE] EXCEPT !.fired = wk[w].fired + 1]]
      BY <2>0, <2>14, <3>2 DEF TimerFires
    <3>5. wk' \in [Ids -> Worker]
      BY <2>0, <3>3, <3>4
    <3>6. QED
      BY <2>0, <2>1, <2>14, <3>5 DEF TimerFires, Shape
  <2>15. ASSUME NEW w \in Ids, idle(w) PROVE Shape'
    <3>1. wk' \in [Ids -> Worker] /\ m' \in [Keys -> Ids \cup {None}]
      BY <2>0, <2>15, IdleIs
    <3>2. QED
      BY <2>0, <2>1, <2>15, <3>1 DEF idle, Shape
  <2>16. ASSUME NEW w \in Ids, Collect(w) PROVE Shape'
    <3>1. Blank \in Worker
      BY WorkersBoundsAssumption DEF Blank, Worker
    <3>2. QED
      BY <2>0, <2>1, <2>16, <3>1 DEF Collect, Shape
  <2>17. ASSUME NEW u \in Uses, Ask(u) PROVE Shape'
    <3>1. use[u].w \in Ids /\ use[u].key \in Keys
      BY <2>8, <2>17 DEF Ask, Refers
    <3>2. /\ use' \in [Uses -> Use] /\ \A v \in Uses \ {u} : use'[v] = use[v]
          /\ use'[u].at = "asking" /\ use'[u].w = use[u].w /\ use'[u].key = use[u].key
      BY <2>0, <2>17, UseMoves DEF Ask, InAcquire
    <3>3. \A v \in Uses : Fits(use'[v])
      BY <2>0, <3>1, <3>2 DEF Fits, Refers, Ids, None
    <3>4. conv' \in Ids /\ conv' # None /\ asked' = "sent"
      BY <2>17, <3>1 DEF Ask, Ids, None
    <3>5. QED
      BY <2>17, <3>2, <3>3, <3>4 DEF Ask, Shape, poolVars, sshVars, srvVars, Fits
  <2>18. ASSUME start \/ replies PROVE Shape'
    BY <2>3, <2>18 DEF start, replies, Shape, poolVars
  <2>19. ASSUME NEW u \in Uses, Answered(u) PROVE Shape'
    <3>1. use[u].w \in Ids /\ use[u].key \in Keys /\ conv \in Ids
      BY <2>8, <2>19 DEF Answered, Refers, Shape
    <3>2. /\ use' \in [Uses -> Use] /\ \A v \in Uses \ {u} : use'[v] = use[v]
          /\ use'[u].at \in {"using", "failing"} /\ use'[u].w = use[u].w /\ use'[u].key = use[u].key
      BY <2>0, <2>19, UseMoves DEF Answered, InAcquire
    <3>3. \A v \in Uses : Fits(use'[v])
      BY <2>0, <3>1, <3>2 DEF Fits, Refers, Ids, None
    <3>4. wk' \in [Ids -> Worker]
      BY <2>0, <2>19, <3>1, FsIs DEF Answered
    <3>5. QED
      BY <2>19, <3>2, <3>3, <3>4 DEF Answered, Shape, sshVars, srvVars, Fits
  <2>20. ASSUME NEW w \in Ids, WorkerEnds(w) \/ WorkerDies(w) PROVE Shape'
    BY <2>3, <2>20 DEF WorkerEnds, WorkerDies, Shape, poolVars
  <2>21. ASSUME NEW u \in Uses, NEW k \in Keys, Request(u, k) \/ SshLogsIn(u, k) PROVE Shape'
    <3>1. use' = [use EXCEPT ![u] = [at |-> "acquire", key |-> k, w |-> None]]
      BY <2>21 DEF Request, SshLogsIn
    <3>2. [at |-> "acquire", key |-> k, w |-> None] \in Use
      BY DEF Use, InAcquire
    <3>3. Fits([at |-> "acquire", key |-> k, w |-> None])
      BY DEF Fits, Refers
    <3>4. use' \in [Uses -> Use] /\ \A v \in Uses : Fits(use'[v])
      BY <2>0, <3>1, <3>2, <3>3
    <3>5. QED
      BY <2>2, <2>21, <3>4 DEF Request, SshLogsIn, Shape, sshVars
  <2>22. ASSUME NEW u \in Http, RequestEnds(u) PROVE Shape'
    BY <2>11, <2>22 DEF RequestEnds, Refers, Uses
  <2>23. ASSUME NEW u \in Ssh, NEW a \in {"off", "accepted", "tracked", "handshake", "ended"},
                use[u].w = None, At(u, a), UNCHANGED <<poolVars, launchVars, srvVars, shutting>>, conns' \subseteq Ssh,
                accept' \in {"accepting", "holds", "tracked", "returned", "waiting"}, wg' \in Int
         PROVE  Shape'
    <3>1. /\ use' \in [Uses -> Use] /\ \A v \in Uses \ {u} : use'[v] = use[v]
          /\ use'[u].at = a /\ use'[u].w = None
      BY <2>0, <2>23, UseMoves DEF Uses
    <3>2. \A v \in Uses : Fits(use'[v])
      BY <2>0, <2>5, <3>1
    <3>3. QED
      BY <2>2, <2>23, <3>1, <3>2
  <2>24. ASSUME NEW u \in Ssh, SshAccepts(u) PROVE Shape'
    <3>1. use[u].w = None
      BY <2>24 DEF SshAccepts, Idle
    <3>2. QED
      BY <2>23, <2>24, <3>1 DEF SshAccepts, Shape
  <2>25. ASSUME NEW u \in Ssh, use[u].at \in {"accepted", "tracked", "handshake"} PROVE use[u].w = None
    BY <2>0, <2>25 DEF Fits, Refers, Uses
  <2>26. ASSUME NEW u \in Ssh, SshTracks(u) \/ SshSpawns(u) PROVE Shape'
    <3>0. wg \in Int /\ conns \subseteq Ssh
      BY DEF Shape
    <3>1. wg + 1 \in Int
      BY <3>0
    <3>2. CASE SshTracks(u)
      <4>1. UNCHANGED <<poolVars, launchVars, srvVars, shutting>> /\ wg' = wg /\ use[u].w = None
        BY <2>25, <3>2 DEF SshTracks
      <4>2. CASE shutting
        BY <2>23, <3>0, <3>2, <4>1, <4>2 DEF SshTracks
      <4>3. CASE ~shutting
        BY <2>23, <3>0, <3>2, <4>1, <4>3 DEF SshTracks
      <4>4. QED
        BY <4>2, <4>3
    <3>3. CASE SshSpawns(u)
      <4>1. UNCHANGED <<poolVars, launchVars, srvVars, shutting>> /\ wg' = wg + 1 /\ use[u].w = None
        BY <2>25, <3>3 DEF SshSpawns
      <4>2. QED
        BY <2>23, <3>0, <3>1, <3>3, <4>1 DEF SshSpawns
    <3>4. QED
      BY <2>26, <3>2, <3>3
  <2>27. ASSUME NEW u \in Ssh, SshEnds(u) PROVE Shape'
    <3>1. CASE use[u].at = "using" /\ Release(u, "ended")
      BY <2>11, <3>1 DEF Refers, Uses
    <3>2. CASE /\ use[u].at = "handshake" /\ At(u, "ended")
               /\ UNCHANGED <<poolVars, launchVars, conns, sshVars, srvVars>>
      BY <2>23, <2>25, <3>2 DEF Shape, sshVars
    <3>3. QED
      BY <2>27, <3>1, <3>2 DEF SshEnds
  <2>28. ASSUME NEW u \in Ssh, SshDone(u) PROVE Shape'
    <3>1. Idle \in Use /\ Fits(Idle)
      BY <2>5 DEF Idle, Use
    <3>2. use' \in [Uses -> Use] /\ \A v \in Uses : Fits(use'[v])
      BY <2>0, <2>28, <3>1 DEF SshDone
    <3>3. wg \in Int /\ conns \subseteq Ssh
      BY DEF Shape
    <3>4. wg' \in Int /\ conns' \subseteq Ssh
      BY <2>28, <3>3 DEF SshDone
    <3>5. QED
      BY <2>2, <2>28, <3>2, <3>4 DEF SshDone, Shape
  <2>29. ASSUME NEW u \in Ssh, SshHangsUp(u) PROVE Shape'
    BY <2>0, <2>2, <2>29 DEF SshHangsUp, Shape, sshVars
  <2>30. ASSUME SshShut \/ SshAcceptFails \/ SshReturns PROVE Shape'
    BY <2>4, <2>30 DEF SshShut, SshAcceptFails, SshReturns, shut, Shape, poolVars, srvVars
  <2>31. ASSUME Swap \/ Shutdown \/ Stop PROVE Shape'
    <3>1. swaps' \in 0..MaxSwaps
      <4>1. swaps \in 0..MaxSwaps /\ (swaps' = swaps \/ (swaps' = swaps + 1 /\ swaps < MaxSwaps))
        BY <2>31 DEF Swap, Shutdown, Stop, Shape
      <4>2. QED
        BY <4>1, WorkersBoundsAssumption
    <3>2. QED
      BY <2>4, <2>31, <3>1 DEF Swap, Shutdown, Stop, StopGeneration, Shape, poolVars, sshVars
  <2>32. ASSUME SwapResets \/ CloseResets PROVE Shape'
    <3>1. reset
      BY <2>32 DEF SwapResets, CloseResets
    <3>2. wk' \in [Ids -> Worker] /\ rst' \subseteq Ids
      BY <2>0, <3>1, ResetIs
    <3>3. m' \in [Keys -> Ids \cup {None}] /\ failed' \subseteq Keys
      BY <3>1 DEF reset
    <3>4. QED
      BY <2>4, <2>32, <3>2, <3>3 DEF SwapResets, CloseResets, Shape, sshVars
  <2>33. ASSUME NEW w \in Ids, ResetCloses(w) PROVE Shape'
    <3>1. wk' \in [Ids -> Worker]
      <4>1. CASE wk[w].fs = "open"
        BY <2>0, <2>33, <4>1, FsIs DEF ResetCloses
      <4>2. CASE wk[w].fs # "open"
        <5>1. wk[w].fs \in {"blank", "nil", "open", "err", "shut"}
          BY <2>0 DEF Worker
        <5>2. [wk[w] EXCEPT !.fs = wk[w].fs] \in Worker
          BY <2>0, <5>1, WorkerUpdates
        <5>3. QED
          BY <2>0, <2>33, <4>2, <5>2 DEF ResetCloses
      <4>3. QED
        BY <4>1, <4>2
    <3>2. QED
      BY <2>4, <2>33, <3>1 DEF ResetCloses, Shape, sshVars, srvVars
  <2>34. ASSUME SwapStarts \/ CloseBegins \/ Exit PROVE Shape'
    BY <2>4, <2>34 DEF SwapStarts, CloseBegins, Exit, Shape, poolVars, sshVars
  <2>35. ASSUME UNCHANGED vars PROVE Shape'
    BY <2>35 DEF vars, poolVars, launchVars, sshVars, srvVars, Shape
  <2>36. QED
    BY <2>6, <2>7, <2>9, <2>10, <2>12, <2>13, <2>14, <2>15, <2>16, <2>17, <2>18, <2>19, <2>20,
       <2>21, <2>22, <2>24, <2>26, <2>27, <2>28, <2>29, <2>30, <2>31, <2>32, <2>33, <2>34, <2>35
    DEF Next, Acquires, Asks, Launches, Times, SshRuns, ServeSSH, ShutsDown, Swaps, Resets, Uses
<1>3. QED
  BY <1>1, <1>2, PTL DEF Spec

\* How many uses a worker has, before and after a step of one use.
LEMMA CountingMoves ==
  ASSUME NEW u \in Uses, \A v \in Uses \ {u} : use'[v] = use[v], NEW w \in Ids
  PROVE  /\ Cardinality(Counting(w)) \in 0..Cardinality(Uses)
         /\ Cardinality(Counting(w)') \in 0..Cardinality(Uses)
         /\ (u \in Counting(w)' <=> u \in Counting(w)) => Counting(w)' = Counting(w)
         /\ u \notin Counting(w) /\ u \in Counting(w)' =>
              Cardinality(Counting(w)') = Cardinality(Counting(w)) + 1
         /\ u \in Counting(w) => Cardinality(Counting(w)) >= 1
         /\ u \in Counting(w) /\ u \notin Counting(w)' =>
              Cardinality(Counting(w)') = Cardinality(Counting(w)) - 1
<1>1. IsFiniteSet(Uses)
  BY UsesAssumption DEF Uses
<1>2. Counting(w) \subseteq Uses /\ Counting(w)' \subseteq Uses
  BY DEF Counting
<1>3. /\ IsFiniteSet(Counting(w)) /\ IsFiniteSet(Counting(w)')
      /\ Cardinality(Counting(w)) <= Cardinality(Uses) /\ Cardinality(Counting(w)') <= Cardinality(Uses)
  BY <1>1, <1>2, FS_Subset
<1>4. Cardinality(Counting(w)) \in Nat /\ Cardinality(Counting(w)') \in Nat /\ Cardinality(Uses) \in Nat
  BY <1>1, <1>3, FS_CardinalityType
<1>5. \A v \in Uses \ {u} : v \in Counting(w)' <=> v \in Counting(w)
  BY DEF Counting
<1>6. (u \in Counting(w)' <=> u \in Counting(w)) => Counting(w)' = Counting(w)
  BY <1>2, <1>5
<1>7. ASSUME u \notin Counting(w), u \in Counting(w)'
      PROVE  Cardinality(Counting(w)') = Cardinality(Counting(w)) + 1
  <2>1. Counting(w)' = Counting(w) \cup {u}
    BY <1>2, <1>5, <1>7
  <2>2. QED
    BY <1>3, <1>7, <2>1, FS_AddElement
<1>8. ASSUME u \in Counting(w), u \notin Counting(w)'
      PROVE  Cardinality(Counting(w)') = Cardinality(Counting(w)) - 1
  <2>1. Counting(w)' = Counting(w) \ {u}
    BY <1>2, <1>5, <1>8
  <2>2. QED
    BY <1>3, <1>8, <2>1, FS_RemoveElement
<1>9. ASSUME u \in Counting(w) PROVE Cardinality(Counting(w)) >= 1
  <2>1. Cardinality(Counting(w) \ {u}) = Cardinality(Counting(w)) - 1 /\ IsFiniteSet(Counting(w) \ {u})
    BY <1>3, <1>9, FS_RemoveElement
  <2>2. Cardinality(Counting(w) \ {u}) \in Nat
    BY <2>1, FS_CardinalityType
  <2>3. QED
    BY <1>4, <2>1, <2>2
<1>10. QED
  BY <1>3, <1>4, <1>6, <1>7, <1>8, <1>9

\* How uses, map and counts fit, initially.
LEMMA PoolInit == Init => PoolInv
<1> SUFFICES ASSUME Init PROVE PoolInv
  OBVIOUS
<1>1. \A u \in Uses : use[u].at = "off"
  BY DEF Init, Idle
<1>2. UseInv /\ StarterInv
  BY <1>1 DEF UseInv, UseFits, StarterInv, Refers, Starts
<1>3. MapInv /\ \A w \in Ids : ~InMap(w)
  BY DEF Init, MapInv, InMap, Ids, None
<1>4. \A w \in Ids : wk[w].refs = 0
  BY DEF Init, Blank
<1>5. 0 \in 0..Cardinality(Uses)
  <2>1. Cardinality(Uses) \in Nat
    BY UsesAssumption, FS_CardinalityType DEF Uses
  <2>2. QED
    BY <2>1
<1>6. CountInv
  BY <1>3, <1>4, <1>5 DEF CountInv
<1>7. KeyInv
  BY DEF Init, KeyInv
<1>8. QED
  BY <1>2, <1>3, <1>6, <1>7 DEF PoolInv

\* A step that leaves the pool's workers and their uses alone.
LEMMA PoolQuiet ==
  ASSUME PoolInv, UNCHANGED <<m, wk, use, conv, rst>>, rst # {} => srv' \in {"resetting", "closing"}
  PROVE  PoolInv'
<1>1. UseInv' /\ StarterInv'
  BY DEF PoolInv, UseInv, UseFits, StarterInv
<1>2. MapInv' /\ KeyInv'
  BY DEF PoolInv, MapInv, KeyInv
<1>3. \A w \in Ids : Counting(w)' = Counting(w)
  BY DEF Counting
<1>4. CountInv'
  BY <1>3 DEF PoolInv, CountInv, InMap
<1>5. QED
  BY <1>1, <1>2, <1>4 DEF PoolInv

\* A step of one use that has no worker, before or after.
LEMMA PoolWithoutWorker ==
  ASSUME PoolInv, Shape, NEW u \in Uses, \A v \in Uses \ {u} : use'[v] = use[v],
         use[u].at \notin Refers, use'[u].at \notin Refers, use'[u].w = None,
         UNCHANGED <<m, wk, conv, rst, srv>>
  PROVE  PoolInv'
<1>1. UseInv' /\ StarterInv'
  BY DEF PoolInv, UseInv, UseFits, StarterInv, Refers, Starts
<1>2. MapInv' /\ KeyInv'
  BY DEF PoolInv, MapInv, KeyInv
<1>3. \A w \in Ids : Counting(w)' = Counting(w)
  <2>1. use[u].w = None
    BY DEF Shape
  <2>2. \A w \in Ids : u \notin Counting(w) /\ u \notin Counting(w)'
    BY <2>1 DEF Counting, Ids, None
  <2>3. QED
    BY <2>2, CountingMoves
<1>4. CountInv'
  BY <1>3 DEF PoolInv, CountInv, InMap
<1>5. QED
  BY <1>1, <1>2, <1>4 DEF PoolInv

\* A worker that is dropped is no longer in the map.
LEMMA MapDrops ==
  ASSUME m \in [Keys -> Ids \cup {None}], MapInv, NEW w \in Ids,
         m' = IF m[wk[w].key] = w THEN [m EXCEPT ![wk[w].key] = None] ELSE m
  PROVE  /\ \A v \in Ids : InMap(v)' => InMap(v) /\ v # w
         /\ \A v \in Ids \ {w} : InMap(v) => InMap(v)'
         /\ \A k \in Keys : m'[k] = m[k] \/ m'[k] = None
<1>1. \A k \in Keys : m'[k] = m[k] \/ m'[k] = None
  OBVIOUS
<1>2. ASSUME NEW v \in Ids, NEW k \in Keys, m'[k] = v PROVE m[k] = v /\ v # w
  <2>1. v # None /\ m[k] = v
    BY <1>1, <1>2 DEF Ids, None
  <2>2. ASSUME v = w PROVE FALSE
    <3>1. wk[w].key = k
      BY <2>1, <2>2 DEF MapInv
    <3>2. m' = [m EXCEPT ![k] = None]
      BY <2>1, <2>2, <3>1
    <3>3. QED
      BY <1>2, <2>1, <3>2
  <2>3. QED
    BY <2>1, <2>2
<1>3. ASSUME NEW v \in Ids \ {w}, NEW k \in Keys, m[k] = v PROVE m'[k] = v
  BY <1>3
<1>4. QED
  BY <1>1, <1>2, <1>3 DEF InMap

\* Uses, map and counts fit through every step.
LEMMA PoolKept ==
  ASSUME Shape, PoolInv, [Next]_vars
  PROVE  PoolInv'
<1>0. /\ m \in [Keys -> Ids \cup {None}] /\ wk \in [Ids -> Worker] /\ use \in [Uses -> Use]
      /\ \A w \in Ids : w # None
      /\ \A w \in Ids : wk[w].refs \in Int
  <2>1. \A w \in Ids : w # None
    BY DEF Ids, None
  <2>2. QED
    BY <2>1 DEF Shape, Worker
<1>a. Cardinality(Uses) \in Nat
  BY UsesAssumption, FS_CardinalityType DEF Uses
<1>b. \A w \in Ids : wk[w].fs # "blank" \/ wk[w].fired > 0 \/ wk[w].timer => wk[w].key \in Keys
  BY DEF PoolInv, KeyInv, Blank
<1>1. ASSUME NEW u \in Uses, use[u].at \in Refers
      PROVE  use[u].w \in Ids /\ use[u].key \in Keys /\ wk[use[u].w].key = use[u].key
  BY <1>1 DEF Shape, Use, Refers, InAcquire, PoolInv, UseInv, UseFits
<1>2. ASSUME NEW w \in Ids, wk[w].fs = "blank", NEW u \in Uses PROVE use[u].w # w
  <2>1. use[u].w = w => use[u].at \in Refers
    BY <1>0 DEF Shape
  <2>2. QED
    BY <1>2, <2>1 DEF PoolInv, UseInv, UseFits, Refers, Starts
<1>3. \A w \in Ids : InMap(w) => wk[w].key \in Keys /\ m[wk[w].key] = w /\ wk[w].fs # "blank"
  BY <1>0 DEF PoolInv, MapInv, InMap
<1>c. ASSUME \A v \in Ids : \/ wk'[v] = wk[v]
                            \/ wk'[v].key \in Keys
                            \/ wk'[v].key = wk[v].key /\ wk[v].fs # "blank"
      PROVE  KeyInv'
  BY <1>b, <1>c DEF PoolInv, KeyInv
<1>4. ASSUME NEW u \in Uses, acquire(u) PROVE PoolInv'
  <2> DEFINE k == use[u].key
  <2>0. use[u].at = "acquire" /\ k \in Keys /\ use[u].w = None /\ UNCHANGED <<conv, rst, srv>>
    BY <1>4 DEF acquire, Shape, InAcquire, Refers, launchVars, srvVars
  <2>a. \A w \in Ids : u \notin Counting(w)
    BY <1>0, <2>0 DEF Counting
  <2> HIDE DEF k
  <2>1. CASE Leave(u) /\ UNCHANGED <<m, wk>>
    BY <1>0, <2>0, <2>1, UseMoves, PoolWithoutWorker DEF Refers
  <2>2. ASSUME m[k] = None, NEW w \in Ids, wk[w].fs = "blank", \A v \in Ids \ {w} : wk'[v] = wk[v],
               wk'[w].key = k, wk'[w].fs = "nil", wk'[w].refs = 1, m' = [m EXCEPT ![k] = w],
               use' = [use EXCEPT ![u].at = "starting", ![u].w = w]
        PROVE  PoolInv'
    <3>1. /\ \A v \in Uses \ {u} : use'[v] = use[v]
          /\ use'[u].at = "starting" /\ use'[u].key = k /\ use'[u].w = w
      BY <1>0, <2>2, UseTakes DEF InAcquire, k
    <3>2. \A v \in Uses : use[v].w # w
      BY <1>2, <2>2
    <3>3. \A v \in Uses \ {u} : use[v].at \in Refers => use[v].w \in Ids /\ wk'[use[v].w] = wk[use[v].w]
      BY <1>1, <2>2, <3>2
    <3>4. UseInv'
      <4>1. ASSUME NEW v \in Uses \ {u} PROVE UseFits(use[v])'
        <5>1. UseFits(use[v])
          BY DEF PoolInv, UseInv
        <5>2. QED
          BY <2>0, <3>1, <3>3, <5>1 DEF UseFits, Refers, Starts
      <4>2. UseFits(use[u])'
        BY <2>2, <3>1 DEF UseFits, Refers, Starts
      <4>3. QED
        BY <4>1, <4>2 DEF UseInv
    <3>5. StarterInv'
      BY <3>1, <3>2 DEF PoolInv, StarterInv
    <3>6. MapInv'
      <4>1. \A x \in Keys \ {k} : m'[x] = m[x] /\ m[x] # w
        BY <1>0, <2>2 DEF PoolInv, MapInv
      <4>2. m'[k] = w
        BY <1>0, <2>0, <2>2
      <4>3. QED
        BY <1>0, <2>0, <2>2, <4>1, <4>2 DEF PoolInv, MapInv
    <3>7. \A v \in Ids \ {w} : InMap(v)' => InMap(v)
      BY <1>0, <2>0, <2>2 DEF InMap
    <3>8. \A v \in Ids \ {w} : Counting(v)' = Counting(v)
      <4>1. \A v \in Ids \ {w} : u \notin Counting(v)'
        BY <3>1 DEF Counting
      <4>2. QED
        BY <2>a, <3>1, <4>1, CountingMoves
    <3>9. Cardinality(Counting(w)') = 1 /\ 1 \in 0..Cardinality(Uses)
      <4>1. Counting(w)' = {u}
        BY <3>1, <3>2 DEF Counting, InAcquire
      <4>2. Cardinality({u}) = 1
        BY FS_Singleton
      <4>3. Cardinality(Counting(w)') \in 0..Cardinality(Uses)
        BY <3>1, CountingMoves
      <4>4. QED
        BY <4>1, <4>2, <4>3
    <3>10. CountInv'
      BY <2>2, <3>7, <3>8, <3>9 DEF PoolInv, CountInv
    <3>11. KeyInv'
      BY <1>c, <2>0, <2>2
    <3>12. QED
      BY <3>4, <3>5, <3>6, <3>10, <3>11 DEF PoolInv
  <2>3. CASE /\ m[k] # None /\ counted(m[k]) /\ UNCHANGED m
             /\ use' = [use EXCEPT ![u].at = "waiting", ![u].w = m[k]]
    <3>0. PICK w \in Ids : w = m[k]
      BY <1>0, <2>0, <2>3
    <3>1. /\ \A v \in Uses \ {u} : use'[v] = use[v]
          /\ use'[u].at = "waiting" /\ use'[u].key = k /\ use'[u].w = w
      BY <1>0, <2>3, <3>0, UseTakes DEF InAcquire, k
    <3>2. /\ \A v \in Ids \ {w} : wk'[v] = wk[v]
          /\ wk'[w].key = wk[w].key /\ wk'[w].fs = wk[w].fs
          /\ wk'[w].refs = IF wk[w].fs = "err" THEN wk[w].refs ELSE wk[w].refs + 1
      BY <1>0, <2>3, <3>0, CountedIs
    <3>3. wk[w].key = k /\ wk[w].fs # "blank" /\ InMap(w)
      BY <1>0, <2>0, <3>0 DEF PoolInv, MapInv, InMap
    <3>4. UseInv'
      BY <1>1, <2>0, <3>1, <3>2, <3>3 DEF PoolInv, UseInv, UseFits, Refers, Starts
    <3>5. StarterInv'
      BY <3>1 DEF PoolInv, StarterInv, Starts
    <3>6. MapInv'
      BY <1>0, <2>0, <2>3, <3>2 DEF PoolInv, MapInv
    <3>7. \A v \in Ids \ {w} : Counting(v)' = Counting(v)
      <4>1. \A v \in Ids \ {w} : u \notin Counting(v)'
        BY <3>1 DEF Counting
      <4>2. QED
        BY <2>a, <3>1, <4>1, CountingMoves
    <3>8. /\ Cardinality(Counting(w)') = Cardinality(Counting(w)) + 1
          /\ Cardinality(Counting(w)') \in 0..Cardinality(Uses)
      <4>1. u \in Counting(w)'
        BY <3>1 DEF Counting, InAcquire
      <4>2. QED
        BY <2>a, <3>1, <4>1, CountingMoves
    <3>9. \A v \in Ids : InMap(v)' <=> InMap(v)
      BY <2>3 DEF InMap
    <3>10. CountInv'
      BY <1>0, <3>2, <3>3, <3>7, <3>8, <3>9 DEF PoolInv, CountInv
    <3>11. KeyInv'
      BY <1>c, <3>2, <3>3
    <3>12. QED
      BY <3>4, <3>5, <3>6, <3>10, <3>11 DEF PoolInv
  <2>4. QED
    BY <1>4, <2>1, <2>2, <2>3, AcquireIs DEF k
<1>5. ASSUME NEW u \in Uses, StartFailed(u) PROVE PoolInv'
  <2>0. PICK w \in Ids : w = use[u].w /\ wk[w].key = use[u].key
    BY <1>1, <1>5 DEF StartFailed, Refers
  <2>1. /\ use[u].at = "failing" /\ use[u].key \in Keys /\ UNCHANGED <<conv, rst, srv>>
        /\ m' = IF m[use[u].key] = w THEN [m EXCEPT ![use[u].key] = None] ELSE m
    BY <1>1, <1>5, <2>0 DEF StartFailed, launchVars, srvVars, Refers
  <2>2. /\ \A v \in Ids \ {w} : wk'[v] = wk[v]
        /\ wk'[w].key = wk[w].key /\ wk'[w].fs = wk[w].fs /\ wk'[w].refs = 0
    BY <1>0, <1>5, <2>0, DroppedIs DEF StartFailed
  <2>3. /\ \A v \in Uses \ {u} : use'[v] = use[v]
        /\ use'[u].at \in {"ended", "off"} /\ use'[u].w = None
    BY <1>0, <1>5, UseMoves DEF StartFailed
  <2>4. UseInv'
    BY <1>1, <2>1, <2>2, <2>3 DEF PoolInv, UseInv, UseFits, Refers, Starts
  <2>5. StarterInv'
    BY <2>3 DEF PoolInv, StarterInv, Starts
  <2>6. \A v \in Ids : InMap(v)' => InMap(v) /\ v # w
    BY <1>0, <2>0, <2>1, MapDrops DEF PoolInv
  <2>7. MapInv'
    BY <1>0, <2>1, <2>2 DEF PoolInv, MapInv
  <2>8. \A v \in Ids : Counting(v)' = Counting(v)
    <3>1. \A v \in Ids : u \notin Counting(v) /\ u \notin Counting(v)'
      BY <2>1, <2>3 DEF Counting, InAcquire
    <3>2. QED
      BY <2>3, <3>1, CountingMoves
  <2>9. CountInv'
    <3>1. 0 \in 0..Cardinality(Uses)
      BY <1>a
    <3>2. QED
      BY <2>2, <2>6, <2>8, <3>1 DEF PoolInv, CountInv
  <2>10. KeyInv'
    BY <1>c, <2>0, <2>1, <2>2
  <2>11. QED
    BY <2>4, <2>5, <2>7, <2>9, <2>10 DEF PoolInv
<1>6. ASSUME NEW u \in Uses, Waited(u) PROVE PoolInv'
  <2>0. PICK w \in Ids : w = use[u].w
    BY <1>1, <1>6 DEF Waited, Refers
  <2>1. use[u].at = "waiting" /\ wk[w].fs # "nil" /\ UNCHANGED <<m, wk, conv, rst, srv>>
    BY <1>6, <2>0 DEF Waited, poolVars, launchVars, srvVars
  <2>2. wk[w].fs \in {"open", "err", "shut"}
    BY <1>0, <2>0, <2>1 DEF PoolInv, UseInv, UseFits, Worker
  <2>3. /\ \A v \in Uses \ {u} : use'[v] = use[v]
        /\ \/ wk[w].fs = "err" /\ use'[u].at \in {"ended", "off"} /\ use'[u].w = None
           \/ /\ wk[w].fs # "err" /\ use'[u].at \in {"using", "dead"}
              /\ use'[u].w = w /\ use'[u].key = use[u].key
    BY <1>0, <1>6, <2>0, UseMoves DEF Waited, InAcquire, alive
  <2>4. UseInv'
    BY <1>1, <2>0, <2>1, <2>2, <2>3 DEF PoolInv, UseInv, UseFits, Refers, Starts
  <2>5. StarterInv'
    BY <2>3 DEF PoolInv, StarterInv, Starts
  <2>6. MapInv'
    BY <2>1 DEF PoolInv, MapInv
  <2>7. \A v \in Ids : wk[v].fs # "err" => Counting(v)' = Counting(v)
    <3>1. \A v \in Ids : wk[v].fs # "err" => (u \in Counting(v)' <=> u \in Counting(v))
      BY <1>0, <2>0, <2>1, <2>3 DEF Counting, InAcquire
    <3>2. QED
      BY <2>3, <3>1, CountingMoves
  <2>8. CountInv'
    BY <2>1, <2>7 DEF PoolInv, CountInv, InMap
  <2>9. KeyInv'
    BY <1>c, <2>1
  <2>10. QED
    BY <2>4, <2>5, <2>6, <2>8, <2>9 DEF PoolInv
<1>7. ASSUME NEW u \in Uses, NEW to \in {"forget", "off", "ended"}, use[u].at \in {"dead", "using"},
             Release(u, to)
      PROVE  PoolInv'
  <2>0. PICK w \in Ids : w = use[u].w /\ wk[w].key = use[u].key /\ wk[w].key \in Keys
    BY <1>1, <1>7 DEF Refers
  <2>1. UNCHANGED <<m, conv, rst, srv>> /\ wk[w].fs \in {"open", "shut"}
    BY <1>7, <2>0 DEF Release, launchVars, srvVars, PoolInv, UseInv, UseFits
  <2>2. /\ \A v \in Ids \ {w} : wk'[v] = wk[v]
        /\ wk'[w].key = wk[w].key /\ wk'[w].fs = wk[w].fs
        /\ wk'[w].refs = IF m[wk[w].key] = w THEN wk[w].refs - 1 ELSE wk[w].refs
    BY <1>0, <1>7, <2>0, ReleaseIs DEF Release
  <2>3. /\ \A v \in Uses \ {u} : use'[v] = use[v]
        /\ use'[u].at = to
        /\ IF to = "forget" THEN use'[u].w = w /\ use'[u].key = use[u].key ELSE use'[u].w = None
    BY <1>0, <1>7, <2>0, ReleaseMoves
  <2>4. UseInv'
    BY <1>1, <2>0, <2>1, <2>2, <2>3 DEF PoolInv, UseInv, UseFits, Refers, Starts
  <2>5. StarterInv'
    BY <2>3 DEF PoolInv, StarterInv, Starts
  <2>6. MapInv'
    BY <1>0, <2>1, <2>2 DEF PoolInv, MapInv
  <2>7. \A v \in Ids \ {w} : Counting(v)' = Counting(v)
    <3>1. \A v \in Ids \ {w} : u \notin Counting(v)' /\ u \notin Counting(v)
      BY <1>0, <2>0, <2>3 DEF Counting
    <3>2. QED
      BY <2>3, <3>1, CountingMoves
  <2>8. /\ Cardinality(Counting(w)') = Cardinality(Counting(w)) - 1
        /\ Cardinality(Counting(w)) >= 1
        /\ Cardinality(Counting(w)') \in 0..Cardinality(Uses)
    <3>1. u \notin Counting(w)' /\ u \in Counting(w)
      BY <1>0, <1>7, <2>0, <2>3 DEF Counting, InAcquire
    <3>2. QED
      BY <2>3, <3>1, CountingMoves
  <2>9. \A v \in Ids : InMap(v)' <=> InMap(v)
    BY <2>1 DEF InMap
  <2>10. InMap(w) <=> m[wk[w].key] = w
    BY <1>3, <2>0 DEF InMap
  <2>11. CountInv'
    BY <1>0, <2>1, <2>2, <2>7, <2>8, <2>9, <2>10 DEF PoolInv, CountInv
  <2>12. KeyInv'
    BY <1>c, <2>0, <2>1, <2>2
  <2>13. QED
    BY <2>4, <2>5, <2>6, <2>11, <2>12 DEF PoolInv
<1>8. ASSUME NEW w \in Ids, wk[w].fs # "blank", \A v \in Ids \ {w} : wk'[v] = wk[v], wk'[w].key = wk[w].key,
             wk'[w].fs = "shut", wk'[w].refs = 0, UNCHANGED <<conv, rst, srv>>,
             m' = IF m[wk[w].key] = w THEN [m EXCEPT ![wk[w].key] = None] ELSE m,
             \A v \in Uses : use[v].at \in Starts => use[v].w # w,
             \A v \in Uses : \/ use'[v] = use[v]
                             \/ use[v].at = "forget" /\ use'[v].at = "acquire" /\ use'[v].w = None
      PROVE  PoolInv'
  <2>1. UseInv'
    <3>1. ASSUME NEW v \in Uses, use'[v] = use[v] PROVE UseFits(use[v])'
      <4>1. use[v].at \in Refers => use[v].w \in Ids
        BY <1>1
      <4>2. UseFits(use[v])
        BY DEF PoolInv, UseInv
      <4>3. QED
        BY <1>8, <3>1, <4>1, <4>2 DEF UseFits, Refers, Starts
    <3>2. ASSUME NEW v \in Uses, use'[v] # use[v] PROVE UseFits(use[v])'
      BY <1>8, <3>2 DEF UseFits, Refers, Starts
    <3>3. QED
      BY <1>8, <3>1, <3>2 DEF UseInv
  <2>2. StarterInv'
    BY <1>8 DEF PoolInv, StarterInv, Starts
  <2>3. \A v \in Ids : InMap(v)' => InMap(v) /\ v # w
    BY <1>0, <1>8, MapDrops DEF PoolInv
  <2>4. MapInv'
    BY <1>0, <1>8 DEF PoolInv, MapInv
  <2>5. \A v \in Ids : Counting(v)' = Counting(v)
    BY <1>0, <1>8 DEF Counting, InAcquire
  <2>6. CountInv'
    <3>1. 0 \in 0..Cardinality(Uses)
      BY <1>a
    <3>2. QED
      BY <1>8, <2>3, <2>5, <3>1 DEF PoolInv, CountInv
  <2>7. KeyInv'
    BY <1>8, <1>c
  <2>8. QED
    BY <2>1, <2>2, <2>4, <2>6, <2>7 DEF PoolInv
<1>9. ASSUME NEW u \in Uses, forget(u) PROVE PoolInv'
  <2>0. PICK w \in Ids : w = use[u].w /\ wk[w].key = use[u].key
    BY <1>1, <1>9 DEF forget, Refers
  <2>1. /\ use[u].at = "forget" /\ UNCHANGED <<conv, rst, srv>>
        /\ m' = IF m[wk[w].key] = w THEN [m EXCEPT ![wk[w].key] = None] ELSE m
    BY <1>9, <2>0 DEF forget, launchVars, srvVars
  <2>2. /\ \A v \in Ids \ {w} : wk'[v] = wk[v]
        /\ wk'[w].key = wk[w].key /\ wk'[w].fs = "shut" /\ wk'[w].refs = 0
    BY <1>0, <1>9, <2>0, DroppedShut DEF forget
  <2>3. use' = [use EXCEPT ![u].at = "acquire", ![u].w = None]
    BY <1>9 DEF forget
  <2>4. /\ \A v \in Uses \ {u} : use'[v] = use[v]
        /\ use'[u].at = "acquire" /\ use'[u].w = None
    BY <1>0, <2>3, UseTakes DEF InAcquire
  <2>5. wk[w].fs \in {"open", "shut"}
    BY <2>0, <2>1 DEF PoolInv, UseInv, UseFits
  <2>6. \A v \in Uses : use[v].at \in Starts => use[v].w # w
    BY <2>5 DEF PoolInv, UseInv, UseFits
  <2>7. QED
    BY <1>8, <2>1, <2>2, <2>4, <2>5, <2>6
<1>10. ASSUME \A v \in Ids : /\ wk'[v].key = wk[v].key /\ wk'[v].fs = wk[v].fs
                             /\ wk'[v].refs = wk[v].refs,
              \A v \in Ids : wk'[v] = wk[v] \/ wk'[v].key \in Keys,
              UNCHANGED <<m, use, conv, rst, srv>>
       PROVE  PoolInv'
  <2>1. UseInv' /\ StarterInv'
    <3>1. \A v \in Uses : use[v].at \in Refers => use[v].w \in Ids
      BY <1>1
    <3>2. \A v \in Uses : UseFits(use[v])
      BY DEF PoolInv, UseInv
    <3>3. QED
      BY <1>10, <3>1, <3>2 DEF PoolInv, UseInv, UseFits, StarterInv, Refers, Starts
  <2>2. MapInv'
    BY <1>0, <1>10 DEF PoolInv, MapInv
  <2>3. \A w \in Ids : Counting(w)' = Counting(w)
    BY <1>10 DEF Counting
  <2>4. CountInv'
    BY <1>10, <2>3 DEF PoolInv, CountInv, InMap
  <2>5. KeyInv'
    BY <1>10, <1>c
  <2>6. QED
    BY <2>1, <2>2, <2>4, <2>5 DEF PoolInv
<1>11. ASSUME NEW w \in Ids, TimerFires(w) PROVE PoolInv'
  <2>1. \A v \in Ids : wk'[v].key = wk[v].key /\ wk'[v].fs = wk[v].fs /\ wk'[v].refs = wk[v].refs
    BY <1>0, <1>11 DEF TimerFires, Worker
  <2>2. \A v \in Ids : wk'[v] = wk[v] \/ wk'[v].key \in Keys
    BY <1>0, <1>b, <1>11, <2>1 DEF TimerFires
  <2>3. QED
    BY <1>10, <1>11, <2>1, <2>2 DEF TimerFires, launchVars, srvVars
<1>12. ASSUME NEW w \in Ids, idle(w) PROVE PoolInv'
  <2>1. /\ \A v \in Ids \ {w} : wk'[v] = wk[v]
        /\ wk'[w].key = wk[w].key
        /\ IF wk[w].refs = 0 /\ m[wk[w].key] = w
             THEN /\ wk'[w].fs = "shut" /\ wk'[w].refs = 0
                  /\ m' = [m EXCEPT ![wk[w].key] = None]
             ELSE wk'[w].fs = wk[w].fs /\ wk'[w].refs = wk[w].refs /\ m' = m
    BY <1>0, <1>12, IdleIs
  <2>2. UNCHANGED <<use, conv, rst, srv>>
    BY <1>12 DEF idle, launchVars, srvVars
  <2>3. CASE wk[w].refs = 0 /\ m[wk[w].key] = w
    <3>1. wk[w].key \in Keys
      BY <1>b, <1>12 DEF idle
    <3>2. InMap(w) /\ wk[w].fs # "blank"
      BY <1>3, <2>3, <3>1 DEF InMap
    <3>3. \A v \in Uses : use[v].at \in Starts => use[v].w # w
      <4> SUFFICES ASSUME NEW v \in Uses, use[v].at \in Starts, use[v].w = w PROVE FALSE
        OBVIOUS
      <4>1. wk[w].fs = "nil" /\ v \in Counting(w)
        BY DEF PoolInv, UseInv, UseFits, Counting, Starts, InAcquire
      <4>2. Cardinality(Counting(w)) = 0
        BY <2>3, <3>2, <4>1 DEF PoolInv, CountInv
      <4>3. Cardinality(Counting(w)) >= 1
        BY <2>2, <4>1, CountingMoves
      <4>4. QED
        BY <4>2, <4>3
    <3>4. QED
      BY <1>8, <2>1, <2>2, <2>3, <3>2, <3>3
  <2>4. CASE ~(wk[w].refs = 0 /\ m[wk[w].key] = w)
    <3>1. wk[w].key \in Keys
      BY <1>b, <1>12 DEF idle
    <3>2. QED
      BY <1>10, <2>1, <2>2, <2>4, <3>1
  <2>5. QED
    BY <2>3, <2>4
<1>13. ASSUME NEW w \in Ids, Collect(w) PROVE PoolInv'
  <2>1. /\ \A u \in Uses : use[u].w # w
        /\ UNCHANGED <<m, use, conv, rst, srv>>
    BY <1>13 DEF Collect, launchVars, srvVars
  <2>2. wk'[w] = Blank /\ \A v \in Ids \ {w} : wk'[v] = wk[v]
    BY <1>0, <1>13 DEF Collect
  <2>3. \A k \in Keys : m[k] # w
    BY <1>13 DEF Collect
  <2>4. UseInv' /\ StarterInv'
    <3>1. ASSUME NEW v \in Uses PROVE UseFits(use[v])'
      <4>1. use[v].at \in Refers => use[v].w \in Ids
        BY <1>1
      <4>2. UseFits(use[v])
        BY DEF PoolInv, UseInv
      <4>3. QED
        BY <2>1, <2>2, <4>1, <4>2 DEF UseFits, Refers, Starts
    <3>2. QED
      BY <2>1, <3>1 DEF PoolInv, UseInv, StarterInv
  <2>5. MapInv'
    BY <1>0, <2>1, <2>2, <2>3 DEF PoolInv, MapInv
  <2>6. \A v \in Ids : Counting(v)' = Counting(v)
    BY <2>1 DEF Counting
  <2>7. Blank.refs \in 0..Cardinality(Uses) /\ ~InMap(w)'
    BY <1>a, <2>1, <2>3 DEF Blank, InMap
  <2>8. CountInv'
    BY <2>1, <2>2, <2>6, <2>7 DEF PoolInv, CountInv, InMap
  <2>9. KeyInv'
    BY <2>2 DEF PoolInv, KeyInv
  <2>10. QED
    BY <2>4, <2>5, <2>8, <2>9 DEF PoolInv
<1>14. ASSUME NEW u \in Uses, Ask(u) PROVE PoolInv'
  <2>1. /\ use[u].at = "starting" /\ conv = None /\ conv' = use[u].w
        /\ UNCHANGED <<m, wk, rst, srv>>
    BY <1>14 DEF Ask, poolVars, srvVars
  <2>2. /\ \A v \in Uses \ {u} : use'[v] = use[v]
        /\ use'[u].at = "asking" /\ use'[u].w = use[u].w /\ use'[u].key = use[u].key
    BY <1>0, <1>14, UseMoves DEF Ask, InAcquire
  <2>3. UseInv'
    <3>1. ASSUME NEW v \in Uses \ {u} PROVE UseFits(use[v])'
      <4>1. use[v].at \in Refers => use[v].w \in Ids
        BY <1>1
      <4>2. UseFits(use[v])
        BY DEF PoolInv, UseInv
      <4>3. QED
        BY <1>0, <2>1, <2>2, <4>1, <4>2 DEF UseFits, Refers, Starts
    <3>2. UseFits(use[u])'
      BY <2>1, <2>2 DEF PoolInv, UseInv, UseFits, Refers, Starts
    <3>3. QED
      BY <3>1, <3>2 DEF UseInv
  <2>4. StarterInv'
    BY <2>1, <2>2 DEF PoolInv, StarterInv, Starts
  <2>5. MapInv' /\ KeyInv'
    BY <2>1 DEF PoolInv, MapInv, KeyInv
  <2>6. \A v \in Ids : Counting(v)' = Counting(v)
    <3>1. \A v \in Ids : u \in Counting(v)' <=> u \in Counting(v)
      BY <2>1, <2>2 DEF Counting, InAcquire
    <3>2. QED
      BY <2>2, <3>1, CountingMoves
  <2>7. CountInv'
    BY <2>1, <2>6 DEF PoolInv, CountInv, InMap
  <2>8. QED
    BY <2>3, <2>4, <2>5, <2>7 DEF PoolInv
<1>15. ASSUME NEW u \in Uses, Answered(u) PROVE PoolInv'
  <2>0. PICK w \in Ids : w = use[u].w /\ w = conv
    BY <1>1, <1>15 DEF Answered, Refers, PoolInv, UseInv, UseFits
  <2>1. /\ use[u].at = "asking" /\ wk[w].fs = "nil" /\ conv' = None
        /\ UNCHANGED <<m, rst, srv>>
    BY <1>15, <2>0 DEF Answered, srvVars, PoolInv, UseInv, UseFits, Starts
  <2>2. /\ \A v \in Uses \ {u} : use'[v] = use[v]
        /\ use'[u].w = w /\ use'[u].key = use[u].key
        /\ \A v \in Ids \ {w} : wk'[v] = wk[v]
        /\ wk'[w].key = wk[w].key /\ wk'[w].refs = wk[w].refs
        /\ \/ use'[u].at = "using" /\ wk'[w].fs = "open"
           \/ use'[u].at = "failing" /\ wk'[w].fs = "err"
    BY <1>0, <1>15, <2>0, UseMoves, FsIs DEF Answered, InAcquire
  <2>3. UseInv'
    <3>1. ASSUME NEW v \in Uses \ {u} PROVE UseFits(use[v])'
      <4>1. use[v].at \in Refers => use[v].w \in Ids
        BY <1>1
      <4>2. UseFits(use[v])
        BY DEF PoolInv, UseInv
      <4>3. use[v].at \in Starts => use[v].w # w
        BY <2>0, <2>1 DEF PoolInv, StarterInv, Starts
      <4>4. QED
        BY <2>0, <2>1, <2>2, <4>1, <4>2, <4>3 DEF UseFits, Refers, Starts
    <3>2. UseFits(use[u])'
      BY <2>0, <2>1, <2>2 DEF PoolInv, UseInv, UseFits, Refers, Starts
    <3>3. QED
      BY <3>1, <3>2 DEF UseInv
  <2>4. StarterInv'
    BY <2>2 DEF PoolInv, StarterInv, Starts
  <2>5. MapInv'
    BY <1>0, <2>1, <2>2 DEF PoolInv, MapInv
  <2>6. \A v \in Ids \ {w} : Counting(v)' = Counting(v)
    <3>1. \A v \in Ids \ {w} : u \notin Counting(v)' /\ u \notin Counting(v)
      BY <2>0, <2>2 DEF Counting
    <3>2. QED
      BY <2>2, <3>1, CountingMoves
  <2>7. Cardinality(Counting(w)) >= 1 /\ (wk'[w].fs = "open" => Counting(w)' = Counting(w))
    <3>1. u \in Counting(w) /\ (wk'[w].fs = "open" => u \in Counting(w)')
      BY <2>0, <2>1, <2>2 DEF Counting, InAcquire
    <3>2. QED
      BY <2>2, <3>1, CountingMoves
  <2>8. \A v \in Ids : InMap(v)' <=> InMap(v)
    BY <2>1 DEF InMap
  <2>9. CountInv'
    BY <2>1, <2>2, <2>6, <2>7, <2>8 DEF PoolInv, CountInv
  <2>10. KeyInv'
    BY <1>c, <2>1, <2>2
  <2>11. QED
    BY <2>3, <2>4, <2>5, <2>9, <2>10 DEF PoolInv
<1>16. ASSUME reset, UNCHANGED <<use, conv>>, srv' \in {"resetting", "closing"} PROVE PoolInv'
  <2>1. /\ \A w \in Ids : /\ wk'[w].key = wk[w].key /\ wk'[w].fs = wk[w].fs
                          /\ wk'[w].refs = IF InMap(w) THEN 0 ELSE wk[w].refs
        /\ \A w \in Ids : ~InMap(w) => wk'[w] = wk[w]
        /\ \A k \in Keys : m'[k] = None
    BY <1>0, <1>16, ResetIs DEF reset
  <2>2. UseInv' /\ StarterInv'
    <3>1. ASSUME NEW v \in Uses PROVE UseFits(use[v])'
      <4>1. use[v].at \in Refers => use[v].w \in Ids
        BY <1>1
      <4>2. UseFits(use[v])
        BY DEF PoolInv, UseInv
      <4>3. QED
        BY <1>16, <2>1, <4>1, <4>2 DEF UseFits, Refers, Starts
    <3>2. QED
      BY <1>16, <3>1 DEF PoolInv, UseInv, StarterInv
  <2>3. MapInv' /\ \A w \in Ids : ~InMap(w)'
    BY <1>0, <1>16, <2>1 DEF MapInv, InMap
  <2>4. CountInv'
    <3>1. 0 \in 0..Cardinality(Uses)
      BY <1>a
    <3>2. QED
      BY <2>1, <2>3, <3>1 DEF PoolInv, CountInv
  <2>5. KeyInv'
    BY <1>3, <1>c, <2>1
  <2>6. QED
    BY <2>2, <2>3, <2>4, <2>5 DEF PoolInv
<1>17. ASSUME SwapResets \/ CloseResets PROVE PoolInv'
  BY <1>16, <1>17 DEF SwapResets, CloseResets, launchVars
<1>18. ASSUME NEW w \in Ids, ResetCloses(w) PROVE PoolInv'
  <2>1. /\ UNCHANGED <<m, use, conv, srv>> /\ srv \in {"resetting", "closing"}
        /\ wk' = [wk EXCEPT ![w].fs = IF wk[w].fs = "open" THEN "shut" ELSE wk[w].fs]
    BY <1>18 DEF ResetCloses, launchVars, srvVars
  <2>2. /\ \A v \in Ids \ {w} : wk'[v] = wk[v]
        /\ wk'[w].key = wk[w].key /\ wk'[w].refs = wk[w].refs
        /\ wk'[w].fs = IF wk[w].fs = "open" THEN "shut" ELSE wk[w].fs
        /\ wk[w].fs # "open" => wk'[w] = wk[w]
    BY <1>0, <2>1 DEF Worker
  <2>3. UseInv' /\ StarterInv'
    <3>1. ASSUME NEW v \in Uses PROVE UseFits(use[v])'
      <4>1. use[v].at \in Refers => use[v].w \in Ids
        BY <1>1
      <4>2. UseFits(use[v])
        BY DEF PoolInv, UseInv
      <4>3. QED
        BY <2>1, <2>2, <4>1, <4>2 DEF UseFits, Refers, Starts
    <3>2. QED
      BY <2>1, <3>1 DEF PoolInv, UseInv, StarterInv
  <2>4. MapInv'
    BY <1>0, <2>1, <2>2 DEF PoolInv, MapInv
  <2>5. \A v \in Ids : Counting(v)' = Counting(v)
    BY <2>1 DEF Counting
  <2>6. CountInv'
    BY <2>1, <2>2, <2>5 DEF PoolInv, CountInv, InMap
  <2>7. KeyInv'
    BY <1>c, <2>2
  <2>8. QED
    BY <2>3, <2>4, <2>6, <2>7 DEF PoolInv
<1>19. ASSUME NEW u \in Uses, DeadRelease(u) PROVE PoolInv'
  BY <1>7, <1>19 DEF DeadRelease
<1>20. ASSUME NEW u \in Http, RequestEnds(u) PROVE PoolInv'
  BY <1>7, <1>20 DEF RequestEnds, Uses
<1>21. ASSUME NEW u \in Ssh, SshEnds(u) PROVE PoolInv'
  <2>1. CASE use[u].at = "using" /\ Release(u, "ended")
    BY <1>7, <2>1 DEF Uses
  <2>2. CASE /\ use[u].at = "handshake" /\ At(u, "ended")
             /\ UNCHANGED <<poolVars, launchVars, conns, sshVars, srvVars>>
    <3>1. /\ \A v \in Uses \ {u} : use'[v] = use[v]
          /\ use'[u].at = "ended" /\ use'[u].w = use[u].w
      BY <1>0, <2>2, UseMoves DEF Uses
    <3>2. use[u].w = None
      BY <2>2 DEF Shape, Refers, Uses
    <3>3. QED
      BY <2>2, <3>1, <3>2, PoolWithoutWorker DEF Refers, Uses, poolVars, launchVars, srvVars
  <2>3. QED
    BY <1>21, <2>1, <2>2 DEF SshEnds
<1>22. ASSUME NEW u \in Uses, NEW k \in Keys, Request(u, k) \/ SshLogsIn(u, k) PROVE PoolInv'
  <2>1. use[u].at \in {"off", "handshake"} /\ UNCHANGED <<m, wk, conv, rst, srv>>
    BY <1>22 DEF Request, SshLogsIn, Idle, poolVars, launchVars, srvVars
  <2>2. use' = [use EXCEPT ![u] = [at |-> "acquire", key |-> k, w |-> None]]
    BY <1>22 DEF Request, SshLogsIn
  <2>3. /\ \A v \in Uses \ {u} : use'[v] = use[v]
        /\ use'[u].at = "acquire" /\ use'[u].w = None
    BY <1>0, <2>2
  <2>4. QED
    BY <2>1, <2>3, PoolWithoutWorker DEF Refers
<1>23. ASSUME NEW u \in Ssh, SshAccepts(u) \/ SshTracks(u) \/ SshSpawns(u) PROVE PoolInv'
  <2>1. use[u].at \in {"off", "accepted", "tracked"} /\ UNCHANGED <<m, wk, conv, rst, srv>>
    BY <1>23 DEF SshAccepts, SshTracks, SshSpawns, Idle, poolVars, launchVars, srvVars
  <2>2. use[u].w = None
    BY <2>1 DEF Shape, Refers, Uses
  <2>3. /\ \A v \in Uses \ {u} : use'[v] = use[v]
        /\ use'[u].at \in {"accepted", "tracked", "off", "handshake"} /\ use'[u].w = use[u].w
    BY <1>0, <1>23, UseMoves DEF SshAccepts, SshTracks, SshSpawns, Uses
  <2>4. QED
    BY <2>1, <2>2, <2>3, PoolWithoutWorker DEF Refers, Uses
<1>24. ASSUME NEW u \in Ssh, SshDone(u) PROVE PoolInv'
  <2>1. use[u].at = "ended" /\ UNCHANGED <<m, wk, conv, rst, srv>>
    BY <1>24 DEF SshDone, poolVars, launchVars, srvVars
  <2>2. /\ \A v \in Uses \ {u} : use'[v] = use[v]
        /\ use'[u].at = "off" /\ use'[u].w = None
    BY <1>0, <1>24 DEF SshDone, Idle, Uses
  <2>3. QED
    BY <2>1, <2>2, PoolWithoutWorker DEF Refers, Uses
<1>25. ASSUME UNCHANGED <<m, wk, use, conv, rst, srv>> PROVE PoolInv'
  BY <1>25, PoolQuiet DEF PoolInv, MapInv
<1>26. ASSUME NEW k \in Keys, HoldEnds(k) PROVE PoolInv'
  BY <1>25, <1>26 DEF HoldEnds, launchVars, srvVars
<1>27. ASSUME NEW w \in Ids, WorkerEnds(w) \/ WorkerDies(w) PROVE PoolInv'
  BY <1>25, <1>27 DEF WorkerEnds, WorkerDies, poolVars, srvVars
<1>28. ASSUME NEW u \in Ssh, SshHangsUp(u) PROVE PoolInv'
  BY <1>25, <1>28 DEF SshHangsUp, poolVars, launchVars, srvVars
<1>29. ASSUME start \/ replies \/ ServeSSH \/ Stop \/ UNCHANGED vars PROVE PoolInv'
  BY <1>25, <1>29
  DEF start, replies, ServeSSH, SshShut, SshAcceptFails, SshReturns, Stop, vars, poolVars, launchVars, srvVars
<1>30. ASSUME Swap \/ Shutdown \/ SwapStarts \/ CloseBegins \/ Exit PROVE PoolInv'
  <2>1. rst = {} /\ UNCHANGED <<m, wk, use, conv, rst>>
    BY <1>30
    DEF Swap, Shutdown, SwapStarts, CloseBegins, Exit, poolVars, launchVars, PoolInv, MapInv
  <2>2. QED
    BY <2>1, PoolQuiet
<1>31. QED
  BY <1>4, <1>5, <1>6, <1>9, <1>11, <1>12, <1>13, <1>14, <1>15, <1>17, <1>18, <1>19, <1>20, <1>21,
     <1>22, <1>23, <1>24, <1>26, <1>27, <1>28, <1>29, <1>30
  DEF Next, Acquires, Asks, Launches, Times, SshRuns, ServeSSH, ShutsDown, Swaps, Resets, Uses

\* Uses, map and counts always fit.
LEMMA PoolHolds == Spec => [](Shape /\ PoolInv)
<1>1. Shape /\ PoolInv /\ [Next]_vars => PoolInv'
  BY PoolKept
<1>2. QED
  BY <1>1, PoolInit, ShapeHolds, PTL DEF Spec

\* The connections that have a goroutine of serveSSH's.
AtWork == {u \in Ssh : use[u].at \notin {"off", "accepted", "tracked"}}

\* Where the workers of the pool are being taken.
Taken == {"resetting", "closed", "closing"}

\* The wait group counts exactly the connections at work; the accept loop has
\* one connection in its hands at most; and it waited before workers are taken.
SshInv ==
  /\ wg = Cardinality(AtWork)
  /\ \A u \in Ssh : /\ use[u].at = "accepted" => accept = "holds"
                    /\ use[u].at = "tracked" => accept = "tracked"
  /\ \A u, v \in Ssh : use[u].at \in {"accepted", "tracked"} /\ use[v].at \in {"accepted", "tracked"} => u = v
  /\ srv \in Taken => SshReturned

LEMMA AtWorkFinite ==
  /\ IsFiniteSet(AtWork) /\ Cardinality(AtWork) \in 0..Cardinality(Ssh)
  /\ AtWork = {} <=> Cardinality(AtWork) = 0
<1>1. IsFiniteSet(Ssh)
  <2>1. Ssh \subseteq Ssh \cup Http
    OBVIOUS
  <2>2. QED
    BY <2>1, UsesAssumption, FS_Subset
<1>2. AtWork \subseteq Ssh
  BY DEF AtWork
<1>3. IsFiniteSet(AtWork) /\ Cardinality(AtWork) <= Cardinality(Ssh)
  BY <1>1, <1>2, FS_Subset
<1>4. Cardinality(AtWork) \in Nat /\ Cardinality(Ssh) \in Nat
  BY <1>1, <1>3, FS_CardinalityType
<1>5. AtWork = {} <=> Cardinality(AtWork) = 0
  BY <1>3, FS_EmptySet
<1>6. QED
  BY <1>3, <1>4, <1>5

\* A step by which no connection begins or ends.
LEMMA SshQuiet ==
  ASSUME SshInv, UNCHANGED <<accept, wg>>,
         \A u \in Ssh : \/ use'[u].at = use[u].at
                        \/ u \in AtWork /\ use'[u].at \notin {"off", "accepted", "tracked"},
         srv' \in Taken => srv \in Taken \/ SshReturned
  PROVE  SshInv'
<1>1. AtWork' = AtWork
  BY DEF AtWork
<1>2. \A u \in Ssh : use'[u].at \in {"accepted", "tracked"} => use'[u].at = use[u].at
  BY DEF AtWork
<1>3. QED
  BY <1>1, <1>2 DEF SshInv, SshReturned

\* The count of serveSSH's wait group is right through every step.
LEMMA SshKept ==
  ASSUME Shape, SshInv, [Next]_vars
  PROVE  SshInv'
<1>0. /\ use \in [Uses -> Use] /\ Ssh \subseteq Uses /\ Idle.at = "off"
      /\ \A u \in Ssh : u \notin Http
  BY UsesAssumption DEF Shape, Uses, Idle
<1>1. ASSUME NEW u \in Uses, u \in Ssh => u \in AtWork /\ use'[u].at \notin {"off", "accepted", "tracked"},
             \A v \in Uses \ {u} : use'[v] = use[v], UNCHANGED <<sshVars, srv>>
      PROVE  SshInv'
  BY <1>0, <1>1, SshQuiet DEF sshVars
<1>2. ASSUME NEW u \in Uses, Acquires(u) PROVE SshInv'
  <2>1. UNCHANGED <<sshVars, srv>> /\ use[u].at \in InAcquire
    BY <1>2 DEF Acquires, acquire, StartFailed, Waited, DeadRelease, forget, Release, srvVars, InAcquire
  <2>2. u \in Ssh => u \in AtWork
    BY <2>1 DEF AtWork, InAcquire
  <2>3. ASSUME Leave(u) PROVE SshInv'
    <3>1. \A v \in Uses \ {u} : use'[v] = use[v]
      BY <1>0, <2>3, UseMoves
    <3>2. u \in Ssh => use'[u].at = "ended"
      BY <1>0, <2>3 DEF Leave, Refused
    <3>3. QED
      BY <1>1, <2>1, <2>2, <3>1, <3>2
  <2>4. ASSUME NEW a \in {"using", "dead"}, At(u, a) PROVE SshInv'
    <3>1. use'[u].at = a /\ \A v \in Uses \ {u} : use'[v] = use[v]
      BY <1>0, <2>4 DEF At, Use
    <3>2. QED
      BY <1>1, <2>1, <2>2, <3>1
  <2>5. ASSUME NEW a \in {"starting", "waiting", "acquire"}, NEW w, use' = [use EXCEPT ![u].at = a, ![u].w = w]
        PROVE  SshInv'
    <3>1. use'[u].at = a /\ \A v \in Uses \ {u} : use'[v] = use[v]
      BY <1>0, <2>5 DEF Use
    <3>2. QED
      BY <1>1, <2>1, <2>2, <3>1
  <2>6. CASE DeadRelease(u)
    <3>1. /\ \A v \in Uses \ {u} : use'[v] = use[v]
          /\ use'[u].at = "forget"
      BY <1>0, <2>6, ReleaseMoves DEF DeadRelease
    <3>2. QED
      BY <1>1, <2>1, <2>2, <3>1
  <2>7. CASE acquire(u)
    BY <2>3, <2>5, <2>7, AcquireIs
  <2>8. CASE StartFailed(u) \/ Waited(u) \/ forget(u)
    BY <2>3, <2>4, <2>5, <2>8 DEF StartFailed, Waited, forget
  <2>9. QED
    BY <1>2, <2>6, <2>7, <2>8 DEF Acquires
<1>3. ASSUME NEW u \in Uses, Asks(u) PROVE SshInv'
  <2>1. UNCHANGED <<sshVars, srv>> /\ use[u].at \in {"starting", "asking"}
    BY <1>3 DEF Asks, Ask, Answered, srvVars
  <2>2. PICK a \in {"asking", "using", "failing"} : At(u, a)
    BY <1>3 DEF Asks, Ask, Answered
  <2>3. use'[u].at = a /\ \A v \in Uses \ {u} : use'[v] = use[v]
    BY <1>0, <2>2 DEF At, Use
  <2>4. QED
    BY <1>1, <2>1, <2>3 DEF AtWork
<1>4. ASSUME NEW u \in Http, RequestEnds(u) \/ \E k \in Keys : Request(u, k) PROVE SshInv'
  <2>1. (\E x : use' = [use EXCEPT ![u] = x]) /\ UNCHANGED <<sshVars, srv>>
    BY <1>4 DEF RequestEnds, Release, Request, srvVars
  <2>2. u \in Uses /\ u \notin Ssh /\ \A v \in Uses \ {u} : use'[v] = use[v]
    BY <1>0, <2>1, UsesAssumption DEF Uses
  <2>3. QED
    BY <1>1, <2>1, <2>2
<1>5. ASSUME NEW u \in Ssh, SshAccepts(u) PROVE SshInv'
  <2>1. use'[u].at = "accepted" /\ \A v \in Ssh \ {u} : use'[v] = use[v]
    BY <1>0, <1>5 DEF SshAccepts, At, Use
  <2>2. use[u].at = "off" /\ accept = "accepting" /\ accept' = "holds" /\ wg' = wg /\ srv = "serving" /\ srv' = srv
    BY <1>0, <1>5 DEF SshAccepts, srvVars
  <2>3. AtWork' = AtWork
    BY <2>1, <2>2 DEF AtWork
  <2>4. QED
    BY <2>1, <2>2, <2>3 DEF SshInv, Taken
<1>6. ASSUME NEW u \in Ssh, SshTracks(u) PROVE SshInv'
  <2>1. /\ use[u].at = "accepted" /\ accept = "holds" /\ wg' = wg /\ srv' = srv
        /\ \/ use'[u].at = "off"
           \/ use'[u].at = "tracked" /\ accept' = "tracked"
        /\ \A v \in Ssh \ {u} : use'[v] = use[v]
    BY <1>0, <1>6 DEF SshTracks, At, Use, srvVars
  <2>2. AtWork' = AtWork
    BY <2>1 DEF AtWork
  <2>3. srv \notin Taken
    BY <2>1 DEF SshInv, SshReturned
  <2>4. QED
    BY <2>1, <2>2, <2>3 DEF SshInv
<1>7. ASSUME NEW u \in Ssh, SshSpawns(u) PROVE SshInv'
  <2>1. /\ use[u].at = "tracked" /\ accept = "tracked" /\ wg' = wg + 1 /\ srv' = srv
        /\ use'[u].at = "handshake" /\ \A v \in Ssh \ {u} : use'[v] = use[v]
    BY <1>0, <1>7 DEF SshSpawns, At, Use, srvVars
  <2>2. AtWork' = AtWork \cup {u} /\ u \notin AtWork
    BY <2>1 DEF AtWork
  <2>3. Cardinality(AtWork') = Cardinality(AtWork) + 1
    BY <2>2, AtWorkFinite, FS_AddElement
  <2>4. srv \notin Taken
    BY <2>1 DEF SshInv, SshReturned
  <2>5. QED
    BY <2>1, <2>3, <2>4 DEF SshInv
<1>8. ASSUME NEW u \in Ssh, SshEnds(u) PROVE SshInv'
  <2>1. CASE use[u].at = "using" /\ Release(u, "ended")
    <3>1. /\ \A v \in Uses \ {u} : use'[v] = use[v]
          /\ use'[u].at = "ended"
      BY <1>0, <2>1, ReleaseMoves
    <3>2. UNCHANGED <<sshVars, srv>>
      BY <2>1 DEF Release, srvVars
    <3>3. QED
      BY <1>0, <1>1, <2>1, <3>1, <3>2 DEF AtWork
  <2>2. CASE /\ use[u].at = "handshake" /\ At(u, "ended")
             /\ UNCHANGED <<poolVars, launchVars, conns, sshVars, srvVars>>
    <3>1. use'[u].at = "ended" /\ \A v \in Uses \ {u} : use'[v] = use[v]
      BY <1>0, <2>2 DEF At, Use
    <3>2. QED
      BY <1>0, <1>1, <2>2, <3>1 DEF AtWork, srvVars
  <2>3. QED
    BY <1>8, <2>1, <2>2 DEF SshEnds
<1>9. ASSUME NEW u \in Ssh, SshDone(u) PROVE SshInv'
  <2>1. /\ use[u].at = "ended" /\ accept' = accept /\ wg' = wg - 1 /\ srv' = srv
        /\ use'[u].at = "off" /\ \A v \in Ssh \ {u} : use'[v] = use[v]
    BY <1>0, <1>9 DEF SshDone, srvVars
  <2>2. AtWork' = AtWork \ {u} /\ u \in AtWork
    BY <2>1 DEF AtWork
  <2>3. Cardinality(AtWork') = Cardinality(AtWork) - 1
    BY <2>2, AtWorkFinite, FS_RemoveElement
  <2>4. srv \notin Taken
    BY <2>2, AtWorkFinite DEF SshInv, SshReturned
  <2>5. QED
    BY <2>1, <2>3, <2>4 DEF SshInv
<1>10. ASSUME NEW u \in Ssh, NEW k \in Keys, SshLogsIn(u, k) PROVE SshInv'
  <2>1. /\ use[u].at = "handshake" /\ UNCHANGED <<sshVars, srv>>
        /\ use'[u].at = "acquire" /\ \A v \in Uses \ {u} : use'[v] = use[v]
    BY <1>0, <1>10 DEF SshLogsIn, srvVars
  <2>2. QED
    BY <1>0, <1>1, <2>1 DEF AtWork
<1>11. ASSUME UNCHANGED <<use, accept, wg>>, srv' \in Taken => srv \in Taken \/ SshReturned PROVE SshInv'
  BY <1>11, SshQuiet
<1>12. ASSUME \/ \E u \in Ssh : SshHangsUp(u)
              \/ \E k \in Keys : HoldEnds(k)
              \/ \E w \in Ids : Times(w) \/ WorkerDies(w) \/ Resets(w)
              \/ Launches \/ SshShut \/ Stop \/ UNCHANGED vars
       PROVE  SshInv'
  <2>1. UNCHANGED <<use, accept, wg, srv>>
    BY <1>12
    DEF SshHangsUp, HoldEnds, Times, TimerFires, idle, Collect, WorkerEnds, WorkerDies, Resets,
        ResetCloses, Launches, start, replies, SshShut, Stop, vars, srvVars, sshVars
  <2>2. QED
    BY <1>11, <2>1
<1>13. ASSUME SshAcceptFails \/ SshReturns PROVE SshInv'
  <2>1. /\ UNCHANGED <<use, wg, srv>> /\ accept \in {"accepting", "returned"}
        /\ accept' \in {"returned", "waiting"}
    BY <1>13 DEF SshAcceptFails, SshReturns, srvVars
  <2>2. srv \notin Taken /\ AtWork' = AtWork
    BY <2>1 DEF SshInv, SshReturned, AtWork
  <2>3. QED
    BY <2>1, <2>2 DEF SshInv
<1>14. ASSUME Swap \/ Shutdown \/ CloseResets \/ Exit PROVE SshInv'
  BY <1>11, <1>14 DEF Swap, Shutdown, StopGeneration, CloseResets, Exit, sshVars, Taken
<1>15. ASSUME SwapResets \/ CloseBegins PROVE SshInv'
  BY <1>11, <1>15 DEF SwapResets, CloseBegins, sshVars
<1>16. ASSUME SwapStarts PROVE SshInv'
  <2>1. UNCHANGED <<use, wg>> /\ srv = "resetting" /\ srv' = "serving"
    BY <1>16 DEF SwapStarts
  <2>2. accept = "waiting" /\ AtWork' = AtWork
    BY <2>1 DEF SshInv, SshReturned, Taken, AtWork
  <2>3. QED
    BY <2>1, <2>2 DEF SshInv, Taken
<1>17. QED
  BY <1>2, <1>3, <1>4, <1>5, <1>6, <1>7, <1>8, <1>9, <1>10, <1>12, <1>13, <1>14, <1>15, <1>16
  DEF Next, SshRuns, ServeSSH, Swaps, ShutsDown

\* The count of serveSSH's wait group is always right.
LEMMA SshHolds == Spec => [](Shape /\ SshInv)
<1>1. Init => SshInv
  <2> SUFFICES ASSUME Init PROVE SshInv
    OBVIOUS
  <2>1. \A u \in Ssh : use[u].at = "off"
    BY DEF Init, Uses, Idle
  <2>2. AtWork = {} /\ wg = 0 /\ srv = "serving"
    BY <2>1 DEF AtWork, Init
  <2>3. QED
    BY <2>1, <2>2, FS_EmptySet DEF SshInv, Taken
<1>2. Shape /\ SshInv /\ [Next]_vars => SshInv'
  BY SshKept
<1>3. QED
  BY <1>1, <1>2, ShapeHolds, PTL DEF Spec

\* Every variable keeps its type through every interleaving; a worker's count
\* never falls below zero nor grows past the number of those who can use it.
THEOREM WorkersTypeCorrect == Spec => []TypeOK
<1>1. Shape /\ PoolInv /\ SshInv => TypeOK
  <2> SUFFICES ASSUME Shape, PoolInv, SshInv PROVE TypeOK
    OBVIOUS
  <2>1. wg \in 0..Cardinality(Ssh)
    BY AtWorkFinite DEF SshInv
  <2>2. QED
    BY <2>1 DEF Shape, PoolInv, CountInv, TypeOK
<1>2. QED
  BY <1>1, PoolHolds, SshHolds, PTL

\* A callback of the idle timer closes a worker only when nobody uses it,
\* waits for it or starts it, however many acquires and releases came between
\* the timer going off and the callback getting pool.mu: the count that the
\* callback looks at is exactly the number of the worker's uses.
THEOREM IdleNeverClosesUsed == Spec => IdleClosesUnused
<1>1. Shape /\ PoolInv /\ [Next]_vars =>
        \A w \in Ids : wk'[w].fired < wk[w].fired /\ wk'[w].fs # wk[w].fs => Counting(w) = {}
  <2> SUFFICES ASSUME Shape, PoolInv, [Next]_vars, NEW w \in Ids,
                      wk'[w].fired < wk[w].fired, wk'[w].fs # wk[w].fs
               PROVE  Counting(w) = {}
    OBVIOUS
  <2>0. /\ m \in [Keys -> Ids \cup {None}] /\ wk \in [Ids -> Worker] /\ use \in [Uses -> Use]
        /\ wk[w].fired \in Int
    <3>1. wk[w].fired \in 0..MaxFired
      BY DEF Shape, Worker
    <3>2. wk[w].fired \in Int
      BY ONLY <3>1, WorkersBoundsAssumption
    <3>3. QED
      BY <3>2 DEF Shape
  <2>1. ASSUME wk'[w].fired = wk[w].fired \/ wk'[w].fs = wk[w].fs PROVE FALSE
    BY <2>0, <2>1
  <2>2. ASSUME NEW u \in Uses, use[u].at \in Refers PROVE use[u].w \in Ids
    BY <2>2 DEF Shape, Use
  <2>3. ASSUME NEW u \in Uses, acquire(u) PROVE FALSE
    <3>1. use[u].key \in Keys
      BY <2>3 DEF acquire, Shape, InAcquire
    <3>2. CASE UNCHANGED wk
      BY <2>1, <3>2
    <3>3. ASSUME NEW v \in Ids, \A x \in Ids \ {v} : wk'[x] = wk[x], wk'[v].fired = wk[v].fired PROVE FALSE
      BY <2>1, <3>3
    <3>4. CASE m[use[u].key] # None /\ counted(m[use[u].key])
      <4>1. m[use[u].key] \in Ids
        BY <2>0, <3>1, <3>4
      <4>2. QED
        BY <2>0, <3>3, <3>4, <4>1, CountedIs
    <3>5. QED
      BY <2>3, <3>2, <3>3, <3>4, AcquireIs
  <2>4. ASSUME NEW u \in Uses, StartFailed(u) PROVE FALSE
    BY <2>0, <2>1, <2>2, <2>4, DroppedIs DEF StartFailed, Refers
  <2>5. ASSUME NEW v \in Ids, release(v) PROVE FALSE
    BY <2>0, <2>1, <2>5, ReleaseIs
  <2>6. ASSUME NEW u \in Uses, DeadRelease(u) \/ RequestEnds(u) PROVE FALSE
    BY <2>2, <2>5, <2>6 DEF DeadRelease, RequestEnds, Release, Refers
  <2>7. ASSUME NEW u \in Uses, forget(u) PROVE FALSE
    BY <2>0, <2>1, <2>2, <2>7, DroppedShut DEF forget, Refers
  <2>8. ASSUME NEW v \in Ids, TimerFires(v) PROVE FALSE
    <3>1. wk'[w].fs = wk[w].fs
      BY <2>0, <2>8 DEF TimerFires, Worker
    <3>2. QED
      BY <2>1, <3>1
  <2>9. ASSUME NEW v \in Ids, idle(v) PROVE Counting(w) = {}
    <3>1. v = w
      BY <2>0, <2>1, <2>9, IdleIs
    <3>2. wk[w].refs = 0 /\ m[wk[w].key] = w
      BY <2>0, <2>1, <2>9, <3>1, IdleIs
    <3>3. wk[w].key \in Keys
      BY <2>9, <3>1 DEF idle, PoolInv, KeyInv, Blank
    <3>4. InMap(w)
      BY <3>2, <3>3 DEF InMap
    <3>5. Cardinality(Counting(w)) = 0
      BY <3>2, <3>4 DEF PoolInv, CountInv
    <3>6. IsFiniteSet(Counting(w))
      <4>1. Counting(w) \subseteq Uses /\ IsFiniteSet(Uses)
        BY UsesAssumption DEF Counting, Uses
      <4>2. QED
        BY <4>1, FS_Subset
    <3>7. QED
      BY <3>5, <3>6, FS_EmptySet
  <2>10. ASSUME NEW v \in Ids, Collect(v) PROVE FALSE
    <3>1. v # w => wk'[w] = wk[w]
      BY <2>0, <2>10 DEF Collect
    <3>2. v = w => wk[w].fired = 0 /\ wk'[w].fired = 0
      BY <2>0, <2>10 DEF Collect, Blank
    <3>3. QED
      BY <2>1, <3>1, <3>2
  <2>11. ASSUME NEW u \in Uses, Answered(u) PROVE FALSE
    <3>1. conv \in Ids
      BY <2>11 DEF Answered, Shape
    <3>2. QED
      BY <2>0, <2>1, <2>11, <3>1, FsIs DEF Answered
  <2>12. ASSUME SwapResets \/ CloseResets PROVE FALSE
    BY <2>0, <2>1, <2>12, ResetIs DEF SwapResets, CloseResets
  <2>13. ASSUME NEW v \in Ids, ResetCloses(v) PROVE FALSE
    <3>1. wk'[w].fired = wk[w].fired
      BY <2>0, <2>13 DEF ResetCloses, Worker
    <3>2. QED
      BY <2>1, <3>1
  <2>14. ASSUME NEW u \in Ssh, SshEnds(u) PROVE FALSE
    <3>1. use[u].at = "using" => use[u].w \in Ids
      BY <2>2 DEF Refers, Uses
    <3>2. QED
      BY <2>1, <2>5, <2>14, <3>1 DEF SshEnds, Release, poolVars
  <2>15. ASSUME UNCHANGED wk PROVE FALSE
    BY <2>1, <2>15
  <2>16. ASSUME NEW u \in Uses, Waited(u) \/ Ask(u) PROVE FALSE
    BY <2>15, <2>16 DEF Waited, Ask, poolVars
  <2>17. ASSUME NEW u \in Uses, NEW k \in Keys, Request(u, k) \/ SshLogsIn(u, k) PROVE FALSE
    BY <2>15, <2>17 DEF Request, SshLogsIn, poolVars
  <2>18. ASSUME NEW k \in Keys, HoldEnds(k) PROVE FALSE
    BY <2>15, <2>18 DEF HoldEnds
  <2>19. ASSUME NEW u \in Ssh, SshAccepts(u) \/ SshTracks(u) \/ SshSpawns(u) \/ SshDone(u) \/ SshHangsUp(u)
         PROVE  FALSE
    BY <2>15, <2>19 DEF SshAccepts, SshTracks, SshSpawns, SshDone, SshHangsUp, poolVars
  <2>20. ASSUME NEW v \in Ids, WorkerEnds(v) \/ WorkerDies(v) PROVE FALSE
    BY <2>15, <2>20 DEF WorkerEnds, WorkerDies, poolVars
  <2>21. ASSUME \/ start \/ replies \/ ServeSSH \/ Stop \/ Swap \/ Shutdown
                \/ SwapStarts \/ CloseBegins \/ Exit \/ UNCHANGED vars
         PROVE  FALSE
    BY <2>15, <2>21
    DEF start, replies, ServeSSH, SshShut, SshAcceptFails, SshReturns, Stop, Swap, Shutdown, SwapStarts, CloseBegins,
        Exit, vars, poolVars
  <2>22. QED
    BY <2>3, <2>4, <2>6, <2>7, <2>8, <2>9, <2>10, <2>11, <2>12, <2>13, <2>14, <2>16, <2>17, <2>18,
       <2>19, <2>20, <2>21
    DEF Next, Acquires, Asks, Launches, Times, SshRuns, ServeSSH, ShutsDown, Swaps, Resets, Uses
<1>2. QED
  BY <1>1, PoolHolds, PTL DEF Spec, IdleClosesUnused

\* A filesystem that is open or will be is the pool's to close: in its map, or
\* on the list of a reset under way.  A start that ends after the swap that
\* took its worker out of the map, a callback that comes late, a worker that
\* died and a start that failed leave none behind.
THEOREM NoWorkerIsStray == Spec => []NoStrayWorker
<1>1. Init => StrayInv
  BY DEF Init, StrayInv, Blank
<1>2. Shape /\ PoolInv /\ StrayInv /\ [Next]_vars => StrayInv'
  <2> SUFFICES ASSUME Shape, PoolInv, StrayInv, [Next]_vars PROVE StrayInv'
    OBVIOUS
  <2>0. m \in [Keys -> Ids \cup {None}] /\ wk \in [Ids -> Worker] /\ use \in [Uses -> Use] /\ MapInv
    BY DEF Shape, PoolInv
  <2>1. ASSUME srv = "exited" => srv' = "exited",
               \A w \in Ids : wk'[w].fs \in {"nil", "open"} =>
                 \/ InMap(w)'
                 \/ w \in rst'
                 \/ wk[w].fs \in {"nil", "open"} /\ ~InMap(w) /\ w \notin rst
        PROVE  StrayInv'
    BY <2>1 DEF StrayInv
  <2>2. ASSUME srv = "exited" => srv' = "exited", UNCHANGED <<m, rst>>,
               \A w \in Ids : wk'[w].fs \in {"nil", "open"} => wk[w].fs \in {"nil", "open"}
        PROVE  StrayInv'
    <3>1. \A w \in Ids : InMap(w)' <=> InMap(w)
      BY <2>2 DEF InMap
    <3>2. QED
      BY <2>2, <3>1 DEF StrayInv
  <2>3. ASSUME NEW u \in Uses, use[u].at \in Refers PROVE use[u].w \in Ids /\ wk[use[u].w].key = use[u].key
    BY <2>3 DEF Shape, Use, PoolInv, UseInv, UseFits
  <2>4. ASSUME NEW w \in Ids, wk'[w].fs \notin {"nil", "open"}, \A v \in Ids \ {w} : wk'[v] = wk[v],
               m' = IF m[wk[w].key] = w THEN [m EXCEPT ![wk[w].key] = None] ELSE m,
               UNCHANGED <<rst, srv>>
        PROVE  StrayInv'
    BY <2>0, <2>1, <2>4, MapDrops
  <2>5. ASSUME NEW u \in Uses, acquire(u) PROVE StrayInv'
    <3>1. use[u].key \in Keys /\ UNCHANGED <<rst, srv>>
      BY <2>5 DEF acquire, Shape, InAcquire, srvVars
    <3>2. CASE UNCHANGED <<m, wk>>
      BY <2>2, <3>1, <3>2
    <3>3. ASSUME NEW w \in Ids, m[use[u].key] = None, \A v \in Ids \ {w} : wk'[v] = wk[v],
                 m' = [m EXCEPT ![use[u].key] = w]
          PROVE  StrayInv'
      <4>1. InMap(w)' /\ \A v \in Ids \ {w} : InMap(v) => InMap(v)'
        BY <2>0, <3>1, <3>3 DEF InMap, Ids, None
      <4>2. QED
        BY <2>1, <3>1, <3>3, <4>1
    <3>4. CASE m[use[u].key] # None /\ counted(m[use[u].key]) /\ UNCHANGED m
      <4>1. m[use[u].key] \in Ids
        BY <2>0, <3>1, <3>4
      <4>2. QED
        BY <2>0, <2>2, <3>1, <3>4, <4>1, CountedIs
    <3>5. QED
      BY <2>5, <3>2, <3>3, <3>4, AcquireIs
  <2>6. ASSUME NEW u \in Uses, StartFailed(u) PROVE StrayInv'
    <3>0. PICK w \in Ids : w = use[u].w /\ wk[w].key = use[u].key
      BY <2>3, <2>6 DEF StartFailed, Refers
    <3>1. wk[w].fs \in {"err", "shut"}
      BY <2>6, <3>0 DEF StartFailed, PoolInv, UseInv, UseFits
    <3>2. wk'[w].fs = wk[w].fs /\ \A v \in Ids \ {w} : wk'[v] = wk[v]
      BY <2>0, <2>6, <3>0, DroppedIs DEF StartFailed
    <3>3. /\ m' = IF m[wk[w].key] = w THEN [m EXCEPT ![wk[w].key] = None] ELSE m
          /\ UNCHANGED <<rst, srv>>
      BY <2>6, <3>0 DEF StartFailed, srvVars
    <3>4. QED
      BY <2>4, <3>1, <3>2, <3>3
  <2>7. ASSUME NEW u \in Uses, NEW to, use[u].at \in Refers, Release(u, to) PROVE StrayInv'
    BY <2>0, <2>2, <2>3, <2>7, ReleaseIs DEF Release, srvVars
  <2>8. ASSUME NEW u \in Uses, DeadRelease(u) \/ RequestEnds(u) PROVE StrayInv'
    BY <2>7, <2>8 DEF DeadRelease, RequestEnds, Refers
  <2>9. ASSUME NEW u \in Uses, forget(u) PROVE StrayInv'
    <3>0. PICK w \in Ids : w = use[u].w
      BY <2>3, <2>9 DEF forget, Refers
    <3>1. wk'[w].fs = "shut" /\ \A v \in Ids \ {w} : wk'[v] = wk[v]
      BY <2>0, <2>9, <3>0, DroppedShut DEF forget
    <3>2. /\ m' = IF m[wk[w].key] = w THEN [m EXCEPT ![wk[w].key] = None] ELSE m
          /\ UNCHANGED <<rst, srv>>
      BY <2>9, <3>0 DEF forget, srvVars
    <3>3. QED
      BY <2>4, <3>1, <3>2
  <2>10. ASSUME NEW w \in Ids, TimerFires(w) PROVE StrayInv'
    <3>1. \A v \in Ids : wk'[v].fs = wk[v].fs
      BY <2>0, <2>10 DEF TimerFires, Worker
    <3>2. QED
      BY <2>2, <2>10, <3>1 DEF TimerFires, srvVars
  <2>11. ASSUME NEW w \in Ids, idle(w) PROVE StrayInv'
    <3>1. UNCHANGED <<rst, srv>>
      BY <2>11 DEF idle, srvVars
    <3>2. CASE wk[w].refs = 0 /\ m[wk[w].key] = w
      BY <2>0, <2>4, <2>11, <3>1, <3>2, IdleIs
    <3>3. CASE ~(wk[w].refs = 0 /\ m[wk[w].key] = w)
      BY <2>0, <2>2, <2>11, <3>1, <3>3, IdleIs
    <3>4. QED
      BY <3>2, <3>3
  <2>12. ASSUME NEW w \in Ids, Collect(w) PROVE StrayInv'
    <3>1. \A v \in Ids : wk'[v] = wk[v] \/ wk'[v].fs = "blank"
      BY <2>0, <2>12 DEF Collect, Blank
    <3>2. QED
      BY <2>2, <2>12, <3>1 DEF Collect, srvVars
  <2>13. ASSUME NEW u \in Uses, Answered(u) PROVE StrayInv'
    <3>1. conv \in Ids /\ wk[conv].fs = "nil"
      BY <2>3, <2>13 DEF Answered, Refers, Starts, PoolInv, UseInv, UseFits
    <3>2. \A v \in Ids \ {conv} : wk'[v] = wk[v]
      BY <2>0, <2>13, <3>1 DEF Answered
    <3>3. QED
      BY <2>2, <2>13, <3>1, <3>2 DEF Answered, srvVars
  <2>14. ASSUME SwapResets \/ CloseResets PROVE StrayInv'
    <3>1. reset /\ rst = {} /\ srv # "exited"
      BY <2>0, <2>14 DEF SwapResets, CloseResets, MapInv
    <3>2. /\ \A w \in Ids : wk'[w].fs = wk[w].fs
          /\ \A w \in Ids : w \in rst' <=> InMap(w)
      BY <2>0, <3>1, ResetIs
    <3>3. QED
      BY <2>1, <3>1, <3>2
  <2>15. ASSUME NEW w \in Ids, ResetCloses(w) PROVE StrayInv'
    <3>1. /\ \A v \in Ids \ {w} : wk'[v] = wk[v]
          /\ wk'[w].fs = IF wk[w].fs = "open" THEN "shut" ELSE wk[w].fs
          /\ wk[w].fs # "nil" /\ rst' = rst \ {w} /\ UNCHANGED <<m, srv>>
      BY <2>0, <2>15 DEF ResetCloses, Worker, srvVars
    <3>2. \A v \in Ids : InMap(v)' <=> InMap(v)
      BY <3>1 DEF InMap
    <3>3. QED
      BY <2>1, <3>1, <3>2
  <2>16. ASSUME srv = "exited" => srv' = "exited", UNCHANGED poolVars PROVE StrayInv'
    BY <2>2, <2>16 DEF poolVars
  <2>17. ASSUME NEW u \in Ssh, SshEnds(u) PROVE StrayInv'
    <3>1. CASE use[u].at = "using" /\ Release(u, "ended")
      BY <2>7, <3>1 DEF Refers, Uses
    <3>2. CASE UNCHANGED <<poolVars, launchVars, conns, sshVars, srvVars>>
      BY <2>16, <3>2 DEF srvVars
    <3>3. QED
      BY <2>17, <3>1, <3>2 DEF SshEnds
  <2>18. ASSUME NEW u \in Uses, Waited(u) \/ Ask(u) PROVE StrayInv'
    BY <2>16, <2>18 DEF Waited, Ask, srvVars
  <2>19. ASSUME NEW u \in Uses, NEW k \in Keys, Request(u, k) \/ SshLogsIn(u, k) PROVE StrayInv'
    BY <2>16, <2>19 DEF Request, SshLogsIn, srvVars
  <2>20. ASSUME NEW k \in Keys, HoldEnds(k) PROVE StrayInv'
    BY <2>2, <2>20 DEF HoldEnds, srvVars
  <2>21. ASSUME NEW u \in Ssh, SshAccepts(u) \/ SshTracks(u) \/ SshSpawns(u) \/ SshDone(u) \/ SshHangsUp(u)
         PROVE  StrayInv'
    BY <2>16, <2>21 DEF SshAccepts, SshTracks, SshSpawns, SshDone, SshHangsUp, srvVars
  <2>22. ASSUME NEW w \in Ids, WorkerEnds(w) \/ WorkerDies(w) PROVE StrayInv'
    BY <2>16, <2>22 DEF WorkerEnds, WorkerDies, srvVars
  <2>23. ASSUME start \/ replies \/ ServeSSH \/ Stop \/ UNCHANGED vars PROVE StrayInv'
    BY <2>16, <2>23 DEF start, replies, ServeSSH, SshShut, SshAcceptFails, SshReturns, Stop, vars, srvVars
  <2>24. ASSUME Swap \/ Shutdown \/ SwapStarts \/ Exit PROVE StrayInv'
    BY <2>16, <2>24 DEF Swap, Shutdown, SwapStarts, Exit
  <2>25. ASSUME CloseBegins PROVE StrayInv'
    BY <2>2, <2>25 DEF CloseBegins
  <2>26. QED
    BY <2>5, <2>6, <2>8, <2>9, <2>10, <2>11, <2>12, <2>13, <2>14, <2>15, <2>17, <2>18, <2>19,
       <2>20, <2>21, <2>22, <2>23, <2>24, <2>25
    DEF Next, Acquires, Asks, Launches, Times, SshRuns, ServeSSH, ShutsDown, Swaps, Resets, Uses
<1>3. PoolInv /\ StrayInv => NoStrayWorker
  BY DEF PoolInv, MapInv, StrayInv, NoStrayWorker, InMap, Ids, None
<1>4. QED
  BY <1>1, <1>2, <1>3, PoolHolds, PTL DEF Spec

\* When swap and Close take the workers, no SSH connection is left to use one,
\* not even one that was accepted as serveSSH was told to stop: the wait group
\* counts every connection that is handled, none is between Accept and wg.Add
\* when it is waited for, and none is accepted before the next start.
THEOREM SshEndsBeforeWorkers == Spec => []SessionsEndFirst
<1>1. SshInv => SessionsEndFirst
  <2> SUFFICES ASSUME SshInv, srv \in Taken, NEW u \in Ssh PROVE use[u].at = "off"
    BY DEF SessionsEndFirst, Taken
  <2>1. accept = "waiting" /\ wg = 0
    BY DEF SshInv, SshReturned
  <2>2. AtWork = {}
    BY <2>1, AtWorkFinite, FS_EmptySet DEF SshInv
  <2>3. use[u].at \notin {"accepted", "tracked"}
    BY <2>1 DEF SshInv
  <2>4. QED
    BY <2>2, <2>3 DEF AtWork
<1>2. QED
  BY <1>1, SshHolds, PTL
=============================================================================
