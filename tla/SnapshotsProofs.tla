-------------------------- MODULE SnapshotsProofs --------------------------
(***************************************************************************)
(* The budget of the snapshots in Trees, for any number of sessions,       *)
(* requests, shares and handles, and any length of a file.                 *)
(***************************************************************************)
EXTENDS SessionsProofs

Snapshot == [refs : Nat, once : {"none", "unread", "loading", "over", "held", "err"}, len : Nat]

\* The types of the snapshots and of their counts.
SnapShape ==
  snap \in [Sessions -> [Shares -> Snapshot]] /\ total \in [Procs -> Int]

\* The handles of session s on its snapshot of sh.
Opens(s, sh) == {h \in Handles(s) : handles[s][h] = [share |-> sh, file |-> "snapshot"]}

\* The calls that load a snapshot: a first ReadAt, and a first Size.
ToLoad == {"load", "size"}

\* Request t reads the bytes of the snapshot of sh for session s.
Loads(t, s, sh) == Owner[t] = s /\ th[t].op \in ToLoad /\ th[t].share = sh

\* A snapshot counts its handles, it has bytes only when they were read, and
\* somebody is at work on it while its once.Do has not returned.
RefsAt(s, sh) ==
  LET x == snap[s][sh]
  IN /\ x.refs = Cardinality(Opens(s, sh))
     /\ x.refs = 0 <=> x = NoSnapshot
     /\ x.once = "none" => x.refs = 0
     /\ x.once \in {"none", "unread", "err"} => x.len = 0
     /\ x.once \in {"loading", "over"} => \E t \in Threads : Loads(t, s, sh)

RefsInv == \A s \in Sessions, sh \in Shares : RefsAt(s, sh)

\* A request that loads a snapshot is the only one to, at a handle that is
\* open; no other is at a handle on a snapshot.
LoadAt(t) ==
  LET s == Owner[t]  sh == th[t].share
  IN IF th[t].op \in ToLoad
       THEN /\ th[t].at # "idle" /\ th[t].h \in Opens(s, sh)
            /\ snap[s][sh].once = IF th[t].at = "over" THEN "over" ELSE "loading"
            /\ th[t].at \in {"call", "in"} => snap[s][sh].len = 0
            /\ \A u \in Threads : Loads(u, s, sh) => u = t
       ELSE /\ th[t].at \notin {"loaded", "over"}
            /\ th[t].h \in Handles(s) => handles[s][th[t].h].file # "snapshot"

LoadInv == \A t \in Threads : LoadAt(t)

\* What is counted is finite, and within the bound once it is to stay.
CountInv ==
  \A p \in Procs :
    /\ IsFiniteSet(Bytes(p, {"held", "over"})) /\ total[p] = Cardinality(Bytes(p, {"held", "over"}))
    /\ Cardinality(Bytes(p, {"held"})) <= MaxTotal

SnapshotsInv == SnapShape /\ RefsInv /\ LoadInv /\ CountInv
-----------------------------------------------------------------------------
(***************************************************************************)
(* Counting bytes.                                                         *)
(***************************************************************************)

\* How many bytes of a snapshot are counted, when those in a state of once are.
Counts(x, once) == IF x.once \in once THEN x.len ELSE 0

\* Bytes, of given processes pr and snapshots sn: now, or after a step.
BytesOf(pr, sn, p, once) ==
  LET of == {x \in Sessions \X Shares : pr[x[1]] = p /\ sn[x[1]][x[2]].once \in once}
  IN UNION {{x} \X (1..sn[x[1]][x[2]].len) : x \in of}

\* A byte is the number of one in a snapshot.
LEMMA BytesAre ==
  ASSUME NEW pr, NEW sn, NEW p, NEW once, NEW b
  PROVE  b \in BytesOf(pr, sn, p, once) <=>
           \E s \in Sessions, sh \in Shares : \E i \in 1..sn[s][sh].len :
             b = << <<s, sh>>, i >> /\ pr[s] = p /\ sn[s][sh].once \in once
<1>1. ASSUME b \in BytesOf(pr, sn, p, once)
      PROVE  \E s \in Sessions, sh \in Shares : \E i \in 1..sn[s][sh].len :
               b = << <<s, sh>>, i >> /\ pr[s] = p /\ sn[s][sh].once \in once
  <2>1. PICK x \in Sessions \X Shares : /\ pr[x[1]] = p /\ sn[x[1]][x[2]].once \in once
                                        /\ b \in {x} \X (1..sn[x[1]][x[2]].len)
    BY <1>1 DEF BytesOf
  <2>2. PICK s \in Sessions, sh \in Shares : x = <<s, sh>>
    BY <2>1
  <2>3. x[1] = s /\ x[2] = sh
    BY <2>2
  <2>4. PICK i \in 1..sn[s][sh].len : b = <<x, i>>
    BY <2>1, <2>3
  <2>5. QED
    BY <2>1, <2>2, <2>3, <2>4
<1>2. ASSUME NEW s \in Sessions, NEW sh \in Shares, NEW i \in 1..sn[s][sh].len,
             b = << <<s, sh>>, i >>, pr[s] = p, sn[s][sh].once \in once
      PROVE  b \in BytesOf(pr, sn, p, once)
  <2>1. PICK x : x = <<s, sh>>
    OBVIOUS
  <2>4. x \in Sessions \X Shares /\ x[1] = s /\ x[2] = sh
    BY <2>1
  <2>2. b \in {x} \X (1..sn[x[1]][x[2]].len)
    BY <1>2, <2>1, <2>4
  <2>3. QED
    BY <1>2, <2>2, <2>4 DEF BytesOf
<1>3. QED
  BY <1>1, <1>2

\* The bytes of one snapshot, and those of the others.
Part(s, sh, n) == {<<s, sh>>} \X (1..n)
Others(pr, sn, p, once, s, sh) == {b \in BytesOf(pr, sn, p, once) : b[1] # <<s, sh>>}

LEMMA PartCounts ==
  ASSUME NEW s, NEW sh, NEW n \in Nat
  PROVE  IsFiniteSet(Part(s, sh, n)) /\ Cardinality(Part(s, sh, n)) = n
<1>1. PICK S, T : S = {<<s, sh>>} /\ T = 1..n
  OBVIOUS
<1>2. IsFiniteSet(T) /\ Cardinality(T) = n
  BY <1>1, FS_Interval
<1>3. IsFiniteSet(S) /\ Cardinality(S) = 1
  BY <1>1, FS_Singleton
<1>4. IsFiniteSet(S \X T) /\ Cardinality(S \X T) = 1 * n
  BY <1>2, <1>3, FS_Product
<1>5. QED
  BY <1>1, <1>4 DEF Part

LEMMA BytesSplit ==
  ASSUME NEW pr, NEW sn, NEW p, NEW once, NEW s \in Sessions, NEW sh \in Shares, pr[s] = p
  PROVE  /\ BytesOf(pr, sn, p, once) = Others(pr, sn, p, once, s, sh) \cup Part(s, sh, Counts(sn[s][sh], once))
         /\ Others(pr, sn, p, once, s, sh) \cap Part(s, sh, Counts(sn[s][sh], once)) = {}
<1>0. PICK n : n = Counts(sn[s][sh], once)
  OBVIOUS
<1>1. \A b \in Part(s, sh, n) : b[1] = <<s, sh>>
  BY DEF Part
<1>2. ASSUME NEW b \in BytesOf(pr, sn, p, once), b[1] = <<s, sh>> PROVE b \in Part(s, sh, n)
  <2>1. PICK z \in Sessions, w \in Shares : \E i \in 1..sn[z][w].len :
          b = << <<z, w>>, i >> /\ sn[z][w].once \in once
    BY BytesAre
  <2>2. z = s /\ w = sh
    BY <1>2, <2>1
  <2>3. QED
    BY <1>0, <2>1, <2>2 DEF Part, Counts
<1>3. ASSUME NEW b \in Part(s, sh, n) PROVE b \in BytesOf(pr, sn, p, once)
  <2>1. PICK i \in 1..n : b = << <<s, sh>>, i >>
    BY DEF Part
  <2>2. sn[s][sh].once \in once /\ i \in 1..sn[s][sh].len
    BY <1>0, <2>1 DEF Counts
  <2>3. QED
    BY <2>1, <2>2, BytesAre
<1>4. QED
  BY <1>0, <1>1, <1>2, <1>3 DEF Others

\* One snapshot changes, and the bytes counted with it.
LEMMA BytesMove ==
  ASSUME NEW pr, NEW on, NEW tn, NEW s \in Sessions, NEW sh \in Shares, NEW p, NEW once,
         \A z \in Sessions, w \in Shares : z # s \/ w # sh => tn[z][w] = on[z][w],
         IsFiniteSet(BytesOf(pr, on, p, once)),
         Counts(on[s][sh], once) \in Nat, Counts(tn[s][sh], once) \in Nat
  PROVE  /\ IsFiniteSet(BytesOf(pr, tn, p, once)) /\ Cardinality(BytesOf(pr, on, p, once)) \in Nat
         /\ Cardinality(BytesOf(pr, tn, p, once)) =
              Cardinality(BytesOf(pr, on, p, once))
              + (IF pr[s] = p THEN Counts(tn[s][sh], once) - Counts(on[s][sh], once) ELSE 0)
<1>1. Others(pr, tn, p, once, s, sh) = Others(pr, on, p, once, s, sh)
  <2>1. ASSUME NEW b PROVE b \in Others(pr, tn, p, once, s, sh) <=> b \in Others(pr, on, p, once, s, sh)
    <3>1. ASSUME NEW fn, fn \in {on, tn}
          PROVE  b \in Others(pr, fn, p, once, s, sh) <=>
                   \E z \in Sessions, w \in Shares : \E i \in 1..fn[z][w].len :
                     /\ b = << <<z, w>>, i >> /\ pr[z] = p /\ fn[z][w].once \in once
                     /\ z # s \/ w # sh
      BY BytesAre DEF Others
    <3>2. QED
      BY <3>1
  <2>2. QED
    BY <2>1 DEF Others
<1>2. CASE pr[s] # p
  <2>1. ASSUME NEW fn PROVE Others(pr, fn, p, once, s, sh) = BytesOf(pr, fn, p, once)
    <3>1. ASSUME NEW b \in BytesOf(pr, fn, p, once) PROVE b[1] # <<s, sh>>
      BY <1>2, BytesAre
    <3>2. QED
      BY <3>1 DEF Others
  <2>2. BytesOf(pr, tn, p, once) = BytesOf(pr, on, p, once)
    BY <1>1, <2>1
  <2>3. QED
    BY <1>2, <2>2, FS_CardinalityType
<1>3. CASE pr[s] = p
  <2>1. PICK m, n, O : /\ m = Counts(on[s][sh], once) /\ n = Counts(tn[s][sh], once)
                       /\ O = Others(pr, on, p, once, s, sh)
    OBVIOUS
  <2>0. ASSUME NEW fn
        PROVE  /\ BytesOf(pr, fn, p, once) = Others(pr, fn, p, once, s, sh) \cup Part(s, sh, Counts(fn[s][sh], once))
               /\ Others(pr, fn, p, once, s, sh) \cap Part(s, sh, Counts(fn[s][sh], once)) = {}
    BY <1>3, BytesSplit
  <2>2. BytesOf(pr, on, p, once) = O \cup Part(s, sh, m) /\ O \cap Part(s, sh, m) = {}
    BY <2>0, <2>1
  <2>3. BytesOf(pr, tn, p, once) = O \cup Part(s, sh, n) /\ O \cap Part(s, sh, n) = {}
    BY <1>1, <2>0, <2>1
  <2>4. IsFiniteSet(O) /\ Cardinality(O) \in Nat
    BY <2>2, FS_Subset, FS_CardinalityType
  <2>5. ASSUME NEW k \in Nat, O \cap Part(s, sh, k) = {}
        PROVE  IsFiniteSet(O \cup Part(s, sh, k)) /\ Cardinality(O \cup Part(s, sh, k)) = Cardinality(O) + k
    <3>1. IsFiniteSet(Part(s, sh, k)) /\ Cardinality(Part(s, sh, k)) = k
      BY PartCounts
    <3>2. PICK P : P = Part(s, sh, k)
      OBVIOUS
    <3>3. /\ IsFiniteSet(O \cup P)
          /\ Cardinality(O \cup P) = Cardinality(O) + Cardinality(P) - Cardinality(O \cap P)
      BY <2>4, <3>1, <3>2, FS_Union
    <3>4. Cardinality(O \cap P) = 0
      BY <2>5, <3>2, FS_EmptySet
    <3>5. QED
      BY <2>4, <3>1, <3>2, <3>3, <3>4
  <2>6. QED
    <3>1. m \in Nat /\ n \in Nat
      BY <2>1
    <3>2. PICK X, Y : X = BytesOf(pr, on, p, once) /\ Y = BytesOf(pr, tn, p, once)
      OBVIOUS
    <3>3. IsFiniteSet(X) /\ Cardinality(X) = Cardinality(O) + m
      BY <2>2, <2>5, <3>1, <3>2
    <3>4. IsFiniteSet(Y) /\ Cardinality(Y) = Cardinality(O) + n
      BY <2>3, <2>5, <3>1, <3>2
    <3>5. QED
      BY <1>3, <2>1, <2>4, <3>1, <3>2, <3>3, <3>4
<1>4. QED
  BY <1>2, <1>3

\* A step that changes one snapshot, and counts what it changes.
LEMMA CountStep ==
  ASSUME SnapShape, SnapShape', CountInv, proc' = proc, NEW s \in Sessions, NEW sh \in Shares, proc[s] \in Procs,
         \A z \in Sessions, w \in Shares : z # s \/ w # sh => snap'[z][w] = snap[z][w],
         NEW d \in Int, d = Counts(snap'[s][sh], {"held", "over"}) - Counts(snap[s][sh], {"held", "over"}),
         \A p \in Procs : total'[p] = total[p] + (IF proc[s] = p THEN d ELSE 0),
         \/ snap'[s][sh].once # "held" \/ total'[proc[s]] <= MaxTotal
         \/ Counts(snap'[s][sh], {"held"}) <= Counts(snap[s][sh], {"held"})
  PROVE  CountInv'
<1>1. \A once : Counts(snap[s][sh], once) \in Nat /\ Counts(snap'[s][sh], once) \in Nat
  BY DEF SnapShape, Snapshot, Counts
<1>2. SUFFICES ASSUME NEW p \in Procs
               PROVE  /\ IsFiniteSet(Bytes(p, {"held", "over"})')
                      /\ total'[p] = Cardinality(Bytes(p, {"held", "over"})')
                      /\ Cardinality(Bytes(p, {"held"})') <= MaxTotal
  BY DEF CountInv
<1> DEFINE CountedIn(f) == BytesOf(proc, f, p, {"held", "over"})
           HeldIn(f) == BytesOf(proc, f, p, {"held"})
<1>3. /\ Bytes(p, {"held", "over"}) = CountedIn(snap) /\ Bytes(p, {"held"}) = HeldIn(snap)
      /\ Bytes(p, {"held", "over"})' = CountedIn(snap') /\ Bytes(p, {"held"})' = HeldIn(snap')
  BY DEF Bytes, BytesOf
<1>4. IsFiniteSet(CountedIn(snap)) /\ total[p] = Cardinality(CountedIn(snap)) /\ Cardinality(HeldIn(snap)) <= MaxTotal
  BY <1>3 DEF CountInv
<1>5. \A f : HeldIn(f) \subseteq CountedIn(f)
  BY BytesAre
<1>6. /\ IsFiniteSet(CountedIn(snap')) /\ Cardinality(CountedIn(snap)) \in Nat
      /\ Cardinality(CountedIn(snap')) = Cardinality(CountedIn(snap)) + (IF proc[s] = p THEN d ELSE 0)
  BY <1>1, <1>4, BytesMove
<1>8. total'[p] = Cardinality(CountedIn(snap'))
  BY <1>4, <1>6
<1>9. IsFiniteSet(HeldIn(snap))
  BY <1>4, <1>5, FS_Subset
<1>10. /\ Cardinality(HeldIn(snap)) \in Nat
       /\ Cardinality(HeldIn(snap')) = Cardinality(HeldIn(snap))
            + (IF proc[s] = p THEN Counts(snap'[s][sh], {"held"}) - Counts(snap[s][sh], {"held"}) ELSE 0)
  <2>1. PICK once : once = {"held"}
    OBVIOUS
  <2>2. PICK e : e = Counts(snap'[s][sh], once) - Counts(snap[s][sh], once)
    OBVIOUS
  <2>3. Counts(snap'[s][sh], once) \in Nat /\ Counts(snap[s][sh], once) \in Nat /\ IsFiniteSet(BytesOf(proc, snap, p, once))
    BY <1>1, <1>9, <2>1
  <2>4. /\ Cardinality(BytesOf(proc, snap, p, once)) \in Nat
        /\ Cardinality(BytesOf(proc, snap', p, once)) =
             Cardinality(BytesOf(proc, snap, p, once)) + (IF proc[s] = p THEN e ELSE 0)
    BY <2>2, <2>3, BytesMove
  <2>5. QED
    BY <2>1, <2>2, <2>4
<1>11. Cardinality(HeldIn(snap')) <= Cardinality(CountedIn(snap')) /\ Cardinality(HeldIn(snap')) \in Nat
  BY <1>5, <1>6, FS_Subset, FS_CardinalityType
<1>12. Cardinality(HeldIn(snap')) <= MaxTotal
  <2>1. MaxTotal \in Nat /\ Cardinality(CountedIn(snap')) \in Nat
    BY <1>6, FS_CardinalityType, TreesAssumption
  <2>2. CASE proc[s] # p
    BY <1>4, <1>10, <2>1, <2>2
  <2>3. CASE proc[s] = p /\ Counts(snap'[s][sh], {"held"}) <= Counts(snap[s][sh], {"held"})
    BY <1>1, <1>4, <1>10, <2>1, <2>3
  <2>4. CASE proc[s] = p /\ total'[proc[s]] <= MaxTotal
    BY <1>8, <1>11, <2>1, <2>4
  <2>5. CASE snap'[s][sh].once # "held"
    <3>1. Counts(snap'[s][sh], {"held"}) = 0
      BY <2>5 DEF Counts
    <3>2. Counts(snap'[s][sh], {"held"}) <= Counts(snap[s][sh], {"held"})
      BY <1>1, <3>1
    <3>3. QED
      BY <2>2, <2>3, <3>2
  <2>6. QED
    BY <2>2, <2>3, <2>4, <2>5
<1>13. QED
  BY <1>3, <1>6, <1>8, <1>12

\* A step that changes one snapshot, and none of the bytes counted.
LEMMA CountSame ==
  ASSUME SnapShape, SnapShape', CountInv, proc' = proc, total' = total, NEW s \in Sessions, NEW sh \in Shares,
         proc[s] \in Procs,
         \A z \in Sessions, w \in Shares : z # s \/ w # sh => snap'[z][w] = snap[z][w],
         Counts(snap'[s][sh], {"held", "over"}) = Counts(snap[s][sh], {"held", "over"}),
         Counts(snap'[s][sh], {"held"}) = Counts(snap[s][sh], {"held"})
  PROVE  CountInv'
<1>1. PICK d \in Int : d = 0
  OBVIOUS
<1>2. \A once : Counts(snap[s][sh], once) \in Nat
  BY DEF SnapShape, Snapshot, Counts
<1>3. d = Counts(snap'[s][sh], {"held", "over"}) - Counts(snap[s][sh], {"held", "over"})
  BY <1>1, <1>2
<1>4. \A p \in Procs : total'[p] = total[p] + (IF proc[s] = p THEN d ELSE 0)
  BY <1>1 DEF SnapShape
<1>5. Counts(snap'[s][sh], {"held"}) <= Counts(snap[s][sh], {"held"})
  BY <1>2
<1>6. QED
  BY <1>3, <1>4, <1>5, CountStep

\* A session with no snapshot moves to another process.
LEMMA CountElsewhere ==
  ASSUME CountInv, UNCHANGED <<snap, total>>, NEW s \in Sessions,
         \A sh \in Shares : snap[s][sh].len = 0, \A z \in Sessions \ {s} : proc'[z] = proc[z]
  PROVE  CountInv'
<1>1. ASSUME NEW p, NEW once PROVE Bytes(p, once)' = Bytes(p, once)
  <2>1. /\ Bytes(p, once) = BytesOf(proc, snap, p, once)
        /\ Bytes(p, once)' = BytesOf(proc', snap, p, once)
    BY DEF Bytes, BytesOf
  <2>2. ASSUME NEW b PROVE b \in BytesOf(proc', snap, p, once) <=> b \in BytesOf(proc, snap, p, once)
    <3>1. ASSUME NEW pr
          PROVE  b \in BytesOf(pr, snap, p, once) <=>
                   \E z \in Sessions \ {s}, w \in Shares : \E i \in 1..snap[z][w].len :
                     b = << <<z, w>>, i >> /\ pr[z] = p /\ snap[z][w].once \in once
      BY BytesAre
    <3>2. QED
      BY <3>1
  <2>3. QED
    BY <2>1, <2>2 DEF BytesOf
<1>2. QED
  BY <1>1 DEF CountInv
-----------------------------------------------------------------------------
(***************************************************************************)
(* Handles, loads, and the snapshots they are of.                          *)
(***************************************************************************)

\* The handles on a snapshot are finitely many.
LEMMA OpensFinite ==
  ASSUME NEW s \in Sessions, NEW sh
  PROVE  IsFiniteSet(Opens(s, sh)) /\ Cardinality(Opens(s, sh)) \in Nat
<1>1. IsFiniteSet(Handles(s))
  BY FS_Interval, TreesAssumption DEF Handles
<1>2. QED
  BY <1>1, FS_Subset, FS_CardinalityType DEF Opens

\* A request that loads nothing, before or after the step, leaves every
\* snapshot and every handle on one alone.
LEMMA OtherStep ==
  ASSUME Shape, RefsInv, LoadInv, UNCHANGED snap, NEW t \in Threads, NEW x,
         th' = [th EXCEPT ![t] = x], th[t].op \notin ToLoad, x.op \notin ToLoad, x.at \notin {"loaded", "over"},
         x.h \in Handles(Owner[t]) => handles'[Owner[t]][x.h].file # "snapshot",
         \A z \in Sessions : \A h \in Handles(z) :
           \/ handles'[z][h] = handles[z][h]
           \/ handles'[z][h].file # "snapshot" /\ handles[z][h].file # "snapshot"
  PROVE  RefsInv' /\ LoadInv'
<1>1. th'[t] = x /\ \A u \in Threads \ {t} : th'[u] = th[u]
  BY DEF Shape
<1>2. \A z \in Sessions, w \in Shares \cup {NoShare} : Opens(z, w)' = Opens(z, w)
  BY DEF Opens
<1>3. \A u \in Threads : \A z, w : Loads(u, z, w)' <=> Loads(u, z, w)
  BY <1>1 DEF Loads
<1>4. RefsInv'
  BY <1>2, <1>3 DEF RefsInv, RefsAt
<1>5. ASSUME NEW u \in Threads PROVE LoadAt(u)'
  <2>1. Owner[u] \in Sessions /\ th[u].share \in Shares \cup {NoShare}
    BY TreesAssumption DEF Shape, Thread
  <2>2. LoadAt(u)
    BY DEF LoadInv
  <2>3. CASE u = t
    BY <1>1, <2>3 DEF LoadAt
  <2>4. CASE u # t /\ th[u].op \in ToLoad
    BY <1>1, <1>2, <1>3, <2>1, <2>2, <2>4 DEF LoadAt
  <2>5. CASE u # t /\ th[u].op \notin ToLoad
    BY <1>1, <2>1, <2>2, <2>5 DEF LoadAt
  <2>6. QED
    BY <2>3, <2>4, <2>5
<1>6. QED
  BY <1>4, <1>5 DEF LoadInv

\* What the request that loads a snapshot makes of itself and of the snapshot:
\* it begins, goes on, or is done.
Loading(t, s, sh, x, y) ==
  /\ y.refs = snap[s][sh].refs
  /\ \E h \in Opens(s, sh) :
       /\ \/ th[t].op \in ToLoad /\ th[t].share = sh /\ th[t].h = h
          \/ th[t] = Rest /\ snap[s][sh].once = "unread"
       /\ \/ /\ x.op \in ToLoad /\ x.share = sh /\ x.h = h /\ x.at # "idle"
             /\ y.once = IF x.at = "over" THEN "over" ELSE "loading"
             /\ x.at \in {"call", "in"} => y.len = 0
          \/ x = Rest /\ y.once \in {"held", "err"} /\ (y.once = "err" => y.len = 0)

\* A step of the request that loads a snapshot, the first and the last too.
LEMMA LoadStep ==
  ASSUME Shape, ReachInv, SnapShape, RefsInv, LoadInv, UNCHANGED handles, NEW t \in Threads, NEW x, NEW y \in Snapshot,
         NEW s \in Sessions, NEW sh \in Shares, s = Owner[t],
         th' = [th EXCEPT ![t] = x], snap' = [snap EXCEPT ![s][sh] = y], Loading(t, s, sh, x, y)
  PROVE  RefsInv' /\ LoadInv'
<1>0. /\ y.refs = snap[s][sh].refs
      /\ \E h \in Opens(s, sh) :
           /\ \/ th[t].op \in ToLoad /\ th[t].share = sh /\ th[t].h = h
              \/ th[t] = Rest /\ snap[s][sh].once = "unread"
           /\ \/ /\ x.op \in ToLoad /\ x.share = sh /\ x.h = h /\ x.at # "idle"
                 /\ y.once = IF x.at = "over" THEN "over" ELSE "loading"
                 /\ x.at \in {"call", "in"} => y.len = 0
              \/ x = Rest /\ y.once \in {"held", "err"} /\ (y.once = "err" => y.len = 0)
  BY DEF Loading
<1>1. th'[t] = x /\ \A u \in Threads \ {t} : th'[u] = th[u]
  BY DEF Shape
<1>2. /\ snap' \in [Sessions -> [Shares -> Snapshot]] /\ snap'[s][sh] = y
      /\ \A z \in Sessions, w \in Shares : z # s \/ w # sh => snap'[z][w] = snap[z][w]
  BY DEF SnapShape
<1>3. \A z, w : Opens(z, w)' = Opens(z, w)
  BY DEF Opens
<1>4. Rest.op = "none" /\ Rest.h = 0 /\ Rest.at = "idle" /\ Rest.share = NoShare /\ 0 \notin Handles(s)
  BY DEF Rest, Handles
<1>5. \A u \in Threads : Loads(u, s, sh) => u = t
  <2>1. ASSUME NEW u \in Threads, Loads(u, s, sh) PROVE snap[s][sh].once \in {"loading", "over"} /\ LoadAt(u)
    BY <2>1 DEF LoadInv, LoadAt, Loads
  <2>2. CASE th[t].op \in ToLoad /\ th[t].share = sh
    BY <1>0, <2>2 DEF LoadInv, LoadAt, Loads
  <2>3. CASE snap[s][sh].once = "unread"
    BY <2>1, <2>3
  <2>4. QED
    BY <1>0, <2>2, <2>3
<1>6. /\ \A u \in Threads \ {t} : \A z, w : (Loads(u, z, w)' <=> Loads(u, z, w))
      /\ \A z, w : z # s \/ w # sh => (Loads(t, z, w)' <=> Loads(t, z, w))
      /\ Loads(t, s, sh)' <=> x.op \in ToLoad
  BY <1>0, <1>1, <1>4 DEF Loads, ToLoad
<1>7. snap[s][sh].refs # 0 /\ y # NoSnapshot /\ snap[s][sh].refs = Cardinality(Opens(s, sh))
  <2>1. PICK h \in Opens(s, sh) : TRUE
    BY <1>0
  <2>2. Cardinality(Opens(s, sh)) # 0
    BY <2>1, OpensFinite, FS_EmptySet
  <2>3. QED
    BY <1>0, <2>2 DEF RefsInv, RefsAt, NoSnapshot
<1>8. RefsInv'
  <2> SUFFICES ASSUME NEW z \in Sessions, NEW w \in Shares PROVE RefsAt(z, w)'
    BY DEF RefsInv
  <2>1. CASE z = s /\ w = sh
    BY <1>0, <1>2, <1>3, <1>6, <1>7, <2>1 DEF RefsAt
  <2>2. CASE z # s \/ w # sh
    <3>1. RefsAt(z, w)
      BY DEF RefsInv
    <3>2. QED
      BY <1>2, <1>3, <1>6, <2>2, <3>1 DEF RefsAt
  <2>3. QED
    BY <2>1, <2>2
<1>9. ASSUME NEW u \in Threads PROVE LoadAt(u)'
  <2>0. LoadAt(u) /\ Owner[u] \in Sessions
    BY TreesAssumption DEF LoadInv
  <2>1. CASE u = t /\ x = Rest
    BY <1>1, <1>4, <2>1 DEF LoadAt, ToLoad
  <2>2. CASE u = t /\ x.op \in ToLoad /\ x # Rest
    BY <1>0, <1>1, <1>2, <1>3, <1>4, <1>5, <1>6, <2>2 DEF LoadAt
  <2>3. CASE u # t /\ th[u].op \in ToLoad
    <3>1. Loads(u, Owner[u], th[u].share)
      BY <2>3 DEF Loads
    <3>2. Owner[u] # s \/ th[u].share # sh
      BY <1>5, <2>3, <3>1
    <3>3. th[u].share \in Shares
      BY <2>0, <2>3 DEF LoadAt, ReachInv
    <3>4. QED
      BY <1>1, <1>2, <1>3, <1>6, <2>0, <2>3, <3>2, <3>3 DEF LoadAt
  <2>4. CASE u # t /\ th[u].op \notin ToLoad
    BY <1>1, <2>0, <2>4 DEF LoadAt
  <2>5. QED
    BY <1>0, <1>4, <2>1, <2>2, <2>3, <2>4
<1>10. QED
  BY <1>8, <1>9 DEF LoadInv

\* A handle on a snapshot comes: no bytes do.
LEMMA OpenKeeps ==
  ASSUME Shape, ReachInv, SnapshotsInv, NEW t \in Threads, NEW sh \in Shares, OpenSnapshot(t, sh)
  PROVE  SnapshotsInv'
<1>0. SnapShape /\ RefsInv /\ LoadInv /\ CountInv
  BY DEF SnapshotsInv
<1>1. PICK s \in Sessions : s = Owner[t]
  BY TreesAssumption
<1>2. PICK h \in Free(s) : handles' = [handles EXCEPT ![s][h] = [share |-> sh, file |-> "snapshot"]]
  BY <1>1 DEF OpenSnapshot
<1>3. PICK y : y = IF snap[s][sh] = NoSnapshot THEN [refs |-> 1, once |-> "unread", len |-> 0]
                                             ELSE [snap[s][sh] EXCEPT !.refs = @ + 1]
  OBVIOUS
<1>4. snap' = [snap EXCEPT ![s][sh] = y] /\ proc' = proc /\ total' = total /\ th' = th
  BY <1>1, <1>3 DEF OpenSnapshot, login
<1>5. snap[s][sh] \in Snapshot /\ RefsAt(s, sh)
  BY <1>0 DEF SnapShape, RefsInv
<1>6. /\ y \in Snapshot /\ y.refs = snap[s][sh].refs + 1 /\ y.len = snap[s][sh].len
      /\ y.once = IF snap[s][sh].once = "none" THEN "unread" ELSE snap[s][sh].once
  <2>1. CASE snap[s][sh] = NoSnapshot
    <3>1. snap[s][sh] = [refs |-> 0, once |-> "none", len |-> 0]
      BY <2>1 DEF NoSnapshot
    <3>2. y = [refs |-> 1, once |-> "unread", len |-> 0]
      BY <1>3, <2>1
    <3>3. QED
      BY <3>1, <3>2 DEF Snapshot
  <2>2. CASE snap[s][sh] # NoSnapshot
    BY <1>3, <1>5, <2>2 DEF Snapshot, RefsAt
  <2>3. QED
    BY <2>1, <2>2
<1>7. /\ snap' \in [Sessions -> [Shares -> Snapshot]] /\ snap'[s][sh] = y
      /\ \A z \in Sessions, w \in Shares : z # s \/ w # sh => snap'[z][w] = snap[z][w]
  BY <1>0, <1>4, <1>6 DEF SnapShape
<1>8. PICK x \in Handle : x = [share |-> sh, file |-> "snapshot"]
  BY DEF Handle
<1>9. x.share = sh /\ x.file = "snapshot" /\ NoHandle.file = "none"
  BY <1>8 DEF NoHandle
<1>10. \A z \in Sessions : \A g \in Handles(z) :
         handles'[z][g] = IF z = s /\ g = h THEN x ELSE handles[z][g]
  BY <1>2, <1>8, HandlesSet
<1>11. h \in Handles(s) /\ handles[s][h] = NoHandle /\ \A u \in Threads : Owner[u] = s => th[u].h # h
  BY <1>2 DEF Free
<1>12. /\ Opens(s, sh)' = Opens(s, sh) \cup {h} /\ h \notin Opens(s, sh)
       /\ \A z \in Sessions, w \in Shares : z # s \/ w # sh => Opens(z, w)' = Opens(z, w)
  BY <1>8, <1>9, <1>10, <1>11 DEF Opens
<1>13. \A u, z, w : Loads(u, z, w)' <=> Loads(u, z, w)
  BY <1>4 DEF Loads
<1>14. SnapShape'
  BY <1>0, <1>4, <1>7 DEF SnapShape
<1>15. RefsInv'
  <2> SUFFICES ASSUME NEW z \in Sessions, NEW w \in Shares PROVE RefsAt(z, w)'
    BY DEF RefsInv
  <2>1. CASE z = s /\ w = sh
    <3>1. Cardinality(Opens(s, sh)') = Cardinality(Opens(s, sh)) + 1
      BY <1>12, OpensFinite, FS_AddElement
    <3>2. y.refs = Cardinality(Opens(s, sh)') /\ y.refs # 0 /\ y # NoSnapshot
      BY <1>5, <1>6, <3>1 DEF RefsAt, Snapshot, NoSnapshot
    <3>3. QED
      BY <1>5, <1>6, <1>7, <1>13, <2>1, <3>2 DEF RefsAt
  <2>2. CASE z # s \/ w # sh
    <3>1. RefsAt(z, w)
      BY <1>0 DEF RefsInv
    <3>2. QED
      BY <1>7, <1>12, <1>13, <2>2, <3>1 DEF RefsAt
  <2>3. QED
    BY <2>1, <2>2
<1>16. ASSUME NEW u \in Threads PROVE LoadAt(u)'
  <2>0. LoadAt(u) /\ Owner[u] \in Sessions
    BY <1>0, TreesAssumption DEF LoadInv
  <2>1. CASE th[u].op \in ToLoad
    <3>1. th[u].share \in Shares
      BY <2>0, <2>1 DEF LoadAt, ReachInv
    <3>2. QED
      BY <1>4, <1>6, <1>7, <1>12, <1>13, <2>0, <2>1, <3>1 DEF LoadAt
  <2>2. CASE th[u].op \notin ToLoad
    BY <1>4, <1>10, <1>11, <2>0, <2>2 DEF LoadAt
  <2>3. QED
    BY <2>1, <2>2
<1>17. CountInv'
  <2>1. /\ Counts(snap'[s][sh], {"held", "over"}) = Counts(snap[s][sh], {"held", "over"})
        /\ Counts(snap'[s][sh], {"held"}) = Counts(snap[s][sh], {"held"})
    BY <1>6, <1>7 DEF Counts
  <2>2. proc[s] \in Procs
    BY DEF Shape
  <2>3. QED
    BY <1>0, <1>4, <1>7, <1>14, <2>1, <2>2, CountSame
<1>18. QED
  BY <1>14, <1>15, <1>16, <1>17 DEF SnapshotsInv, LoadInv

\* A handle on a snapshot goes, and with the last of them the bytes.
LEMMA ReleaseKeeps ==
  ASSUME Shape, ReachInv, SnapshotsInv, NEW t \in Threads, NEW h \in Handles(Owner[t]), release(t, h)
  PROVE  SnapshotsInv'
<1>0. SnapShape /\ RefsInv /\ LoadInv /\ CountInv
  BY DEF SnapshotsInv
<1>1. PICK s \in Sessions : s = Owner[t]
  BY TreesAssumption
<1>2. PICK sh \in Shares : sh = handles[s][h].share
  BY <1>1 DEF release, ReachInv
<1>3. handles[s][h] = [share |-> sh, file |-> "snapshot"]
  BY <1>1, <1>2 DEF release, Shape, Handle
<1>4. PICK x : x = snap[s][sh]
  OBVIOUS
<1>5. x \in Snapshot /\ RefsAt(s, sh)
  BY <1>0, <1>4 DEF SnapShape, RefsInv
<1>6. PICK y : y = IF x.refs > 1 THEN [x EXCEPT !.refs = @ - 1] ELSE NoSnapshot
  OBVIOUS
<1>7. /\ snap' = [snap EXCEPT ![s][sh] = y] /\ proc' = proc /\ th' = th
      /\ handles' = [handles EXCEPT ![s][h] = NoHandle]
      /\ x.refs > 1 => total' = total
      /\ ~(x.refs > 1) => total' = [total EXCEPT ![proc[s]] = total[proc[s]] - x.len]
      /\ \A u \in Threads \ {t} : Owner[u] = s => th[u].h # h
      /\ th[t] = Rest
  BY <1>0, <1>1, <1>2, <1>4, <1>6 DEF release, login, Alone, SnapShape
<1>8. /\ y \in Snapshot /\ (x.refs > 1 => y.refs = x.refs - 1 /\ y.once = x.once /\ y.len = x.len)
      /\ NoSnapshot.once = "none" /\ NoSnapshot.len = 0 /\ NoSnapshot.refs = 0
  BY <1>5, <1>6 DEF Snapshot, NoSnapshot
<1>9. /\ snap' \in [Sessions -> [Shares -> Snapshot]] /\ snap'[s][sh] = y
      /\ \A z \in Sessions, w \in Shares : z # s \/ w # sh => snap'[z][w] = snap[z][w]
  BY <1>0, <1>7, <1>8 DEF SnapShape
<1>10. NoHandle \in Handle /\ NoHandle.file = "none" /\ Rest.op = "none" /\ Rest.h = 0
  BY DEF NoHandle, Handle, Rest
<1>11. \A z \in Sessions : \A g \in Handles(z) :
         handles'[z][g] = IF z = s /\ g = h THEN NoHandle ELSE handles[z][g]
  BY <1>7, <1>10, HandlesSet
<1>12. /\ h \in Opens(s, sh) /\ Opens(s, sh)' = Opens(s, sh) \ {h}
       /\ \A z \in Sessions, w \in Shares : z # s \/ w # sh => Opens(z, w)' = Opens(z, w)
  BY <1>1, <1>3, <1>10, <1>11 DEF Opens
<1>13. \A u, z, w : Loads(u, z, w)' <=> Loads(u, z, w)
  BY <1>7 DEF Loads
<1>14. /\ Cardinality(Opens(s, sh)) = x.refs /\ Cardinality(Opens(s, sh)') = x.refs - 1 /\ x.refs # 0
       /\ x.refs = 1 => Opens(s, sh) = {h}
  <2>1. x.refs = Cardinality(Opens(s, sh))
    BY <1>4, <1>5 DEF RefsAt
  <2>2. IsFiniteSet(Opens(s, sh))
    BY OpensFinite
  <2>3. Cardinality(Opens(s, sh) \ {h}) = Cardinality(Opens(s, sh)) - 1
    BY <1>12, <2>2, FS_RemoveElement
  <2>4. x.refs # 0
    BY <1>12, <2>1, <2>2, FS_EmptySet
  <2>5. x.refs = 1 => \E k : Opens(s, sh) = {k}
    BY <2>1, <2>2, FS_Singleton
  <2>6. QED
    BY <1>12, <2>1, <2>3, <2>4, <2>5
<1>15. \A u \in Threads : Loads(u, s, sh) => x.refs > 1
  <2> SUFFICES ASSUME NEW u \in Threads, Loads(u, s, sh) PROVE x.refs > 1
    OBVIOUS
  <2>1. u # t /\ th[u].h \in Opens(s, sh)
    BY <1>0, <1>7, <1>10 DEF LoadInv, LoadAt, Loads, ToLoad
  <2>2. th[u].h # h
    BY <1>7, <2>1 DEF Loads
  <2>3. x.refs \in Nat /\ x.refs # 1 /\ x.refs # 0
    BY <1>5, <1>14, <2>1, <2>2 DEF Snapshot
  <2>4. QED
    BY <2>3
<1>16. SnapShape'
  <2>1. x.len \in Nat /\ proc[s] \in Procs /\ total \in [Procs -> Int]
    BY <1>0, <1>5 DEF Snapshot, Shape, SnapShape
  <2>2. total' \in [Procs -> Int]
    <3>1. CASE x.refs > 1
      BY <1>7, <2>1, <3>1
    <3>2. CASE ~(x.refs > 1)
      <4>1. total[proc[s]] - x.len \in Int
        BY <2>1
      <4>2. QED
        BY <1>7, <2>1, <3>2, <4>1
    <3>3. QED
      BY <3>1, <3>2
  <2>3. QED
    BY <1>9, <2>2 DEF SnapShape
<1>17. RefsInv'
  <2> SUFFICES ASSUME NEW z \in Sessions, NEW w \in Shares PROVE RefsAt(z, w)'
    BY DEF RefsInv
  <2>1. CASE z = s /\ w = sh
    <3>1. y.refs = Cardinality(Opens(s, sh)') /\ (x.refs > 1 => y.refs # 0)
      <4>1. x.refs \in Nat
        BY <1>5 DEF Snapshot
      <4>2. QED
        BY <1>6, <1>8, <1>14, <4>1
    <3>2. CASE x.refs > 1
      <4>1. y # NoSnapshot /\ x.refs # 0 /\ (x.once = "none" => x.refs = 0)
        BY <1>4, <1>5, <1>8, <1>14, <3>1, <3>2 DEF RefsAt
      <4>2. QED
        BY <1>4, <1>5, <1>8, <1>9, <1>13, <2>1, <3>1, <3>2, <4>1 DEF RefsAt
    <3>3. CASE ~(x.refs > 1)
      BY <1>6, <1>8, <1>9, <2>1, <3>1, <3>3 DEF RefsAt
    <3>4. QED
      BY <3>2, <3>3
  <2>2. CASE z # s \/ w # sh
    <3>1. RefsAt(z, w)
      BY <1>0 DEF RefsInv
    <3>2. QED
      BY <1>9, <1>12, <1>13, <2>2, <3>1 DEF RefsAt
  <2>3. QED
    BY <2>1, <2>2
<1>18. ASSUME NEW u \in Threads PROVE LoadAt(u)'
  <2>0. LoadAt(u) /\ Owner[u] \in Sessions
    BY <1>0, TreesAssumption DEF LoadInv
  <2>1. CASE th[u].op \in ToLoad
    <3>1. th[u].share \in Shares /\ u # t
      BY <1>7, <1>10, <2>0, <2>1 DEF LoadAt, ReachInv, ToLoad
    <3>2. CASE Owner[u] = s /\ th[u].share = sh
      <4>1. Loads(u, s, sh)
        BY <2>1, <3>2 DEF Loads
      <4>2. th[u].h # h /\ x.refs > 1
        BY <1>7, <1>15, <3>1, <3>2, <4>1
      <4>3. QED
        BY <1>4, <1>7, <1>8, <1>9, <1>12, <1>13, <2>0, <2>1, <3>2, <4>2 DEF LoadAt
    <3>3. CASE Owner[u] # s \/ th[u].share # sh
      BY <1>7, <1>9, <1>12, <1>13, <2>0, <2>1, <3>1, <3>3 DEF LoadAt
    <3>4. QED
      BY <3>2, <3>3
  <2>2. CASE th[u].op \notin ToLoad
    BY <1>7, <1>10, <1>11, <2>0, <2>2 DEF LoadAt
  <2>3. QED
    BY <2>1, <2>2
<1>19. CountInv'
  <2>1. /\ proc[s] \in Procs /\ total \in [Procs -> Int] /\ x.len \in Nat
        /\ \A once : Counts(x, once) \in Nat
    BY <1>0, <1>5 DEF Counts, Snapshot, SnapShape, Shape
  <2>2. CASE x.refs > 1
    <3>1. \A once : Counts(snap'[s][sh], once) = Counts(snap[s][sh], once)
      BY <1>4, <1>8, <1>9, <2>2 DEF Counts
    <3>2. QED
      BY <1>0, <1>7, <1>9, <1>16, <2>1, <2>2, <3>1, CountSame
  <2>3. CASE ~(x.refs > 1)
    <3>1. x.once \notin {"loading", "over"}
      BY <1>4, <1>5, <1>15, <2>3 DEF RefsAt
    <3>2. Counts(snap[s][sh], {"held", "over"}) = x.len
      BY <1>4, <1>5, <3>1 DEF RefsAt, Counts, Snapshot
    <3>3. Counts(snap'[s][sh], {"held", "over"}) = 0 /\ snap'[s][sh].once # "held"
      BY <1>6, <1>8, <1>9, <2>3 DEF Counts
    <3>4. PICK d \in Int : d = 0 - x.len
      BY <2>1
    <3>5. \A p \in Procs : total'[p] = total[p] + (IF proc[s] = p THEN d ELSE 0)
      <4>1. \A p \in Procs : total'[p] = IF proc[s] = p THEN total[p] - x.len ELSE total[p]
        BY <1>7, <2>1, <2>3
      <4>2. QED
        BY <2>1, <3>4, <4>1
    <3>6. d = Counts(snap'[s][sh], {"held", "over"}) - Counts(snap[s][sh], {"held", "over"})
      BY <3>2, <3>3, <3>4
    <3>7. QED
      BY <1>0, <1>7, <1>9, <1>16, <2>1, <3>3, <3>5, <3>6, CountStep
  <2>4. QED
    BY <2>2, <2>3
<1>20. QED
  BY <1>16, <1>17, <1>18, <1>19 DEF SnapshotsInv, LoadInv
-----------------------------------------------------------------------------
(***************************************************************************)
(* Every step.                                                             *)
(***************************************************************************)

\* Nothing that is counted changes.
LEMMA Uncounted ==
  ASSUME SnapShape, CountInv, proc' = proc, total' = total, snap' = snap
  PROVE  SnapShape' /\ CountInv'
<1>1. \A p, once : Bytes(p, once)' = Bytes(p, once)
  BY DEF Bytes
<1>2. QED
  BY <1>1 DEF SnapShape, CountInv

\* A driver is asked for something other than a snapshot.
LEMMA StartKeeps ==
  ASSUME Shape, SnapshotsInv, NEW t \in Threads, th[t] = Rest,
         proc' = proc, total' = total, snap' = snap, handles' = handles,
         NEW op, NEW sh, NEW h, Calls(t, op, sh, h), op \notin ToLoad,
         h \in Handles(Owner[t]) => handles[Owner[t]][h].file # "snapshot"
  PROVE  SnapshotsInv'
<1>1. PICK x : x = [at |-> "call", op |-> op, share |-> sh, h |-> h]
  OBVIOUS
<1>2. th' = [th EXCEPT ![t] = x] /\ x.op = op /\ x.at = "call" /\ x.h = h /\ th[t].op \notin ToLoad
  BY <1>1 DEF Calls, Rest, ToLoad
<1>3. SnapShape /\ RefsInv /\ LoadInv /\ CountInv
  BY DEF SnapshotsInv
<1>4. RefsInv' /\ LoadInv'
  BY <1>2, <1>3, OtherStep
<1>5. QED
  BY <1>3, <1>4, Uncounted DEF SnapshotsInv

\* The request that loads a snapshot counts d bytes more of it, and no more
\* than the bound if they are to stay.
LoadCounts(t, s, sh, x, y, d) ==
  /\ s = Owner[t] /\ proc' = proc /\ handles' = handles
  /\ th' = [th EXCEPT ![t] = x] /\ snap' = [snap EXCEPT ![s][sh] = y] /\ Loading(t, s, sh, x, y)
  /\ d = Counts(y, {"held", "over"}) - Counts(snap[s][sh], {"held", "over"})
  /\ total' = [total EXCEPT ![proc[s]] = total[proc[s]] + d]
  /\ y.once # "held" \/ total'[proc[s]] <= MaxTotal

LEMMA LoadKeeps ==
  ASSUME Shape, ReachInv, SnapshotsInv, NEW t \in Threads, NEW x, NEW y \in Snapshot,
         NEW s \in Sessions, NEW sh \in Shares, NEW d \in Int, LoadCounts(t, s, sh, x, y, d)
  PROVE  SnapshotsInv'
<1> USE DEF LoadCounts
<1>0. SnapShape /\ RefsInv /\ LoadInv /\ CountInv /\ proc[s] \in Procs
  BY DEF SnapshotsInv, Shape
<1>1. RefsInv' /\ LoadInv'
  BY <1>0, LoadStep
<1>2. /\ snap' \in [Sessions -> [Shares -> Snapshot]] /\ snap'[s][sh] = y
      /\ \A z \in Sessions, w \in Shares : z # s \/ w # sh => snap'[z][w] = snap[z][w]
  BY <1>0 DEF SnapShape
<1>3. /\ total' \in [Procs -> Int]
      /\ \A p \in Procs : total'[p] = total[p] + (IF proc[s] = p THEN d ELSE 0)
  <2>1. total \in [Procs -> Int]
    BY <1>0 DEF SnapShape
  <2>2. QED
    BY <1>0, <2>1
<1>4. SnapShape'
  BY <1>2, <1>3 DEF SnapShape
<1>5. CountInv'
  BY <1>0, <1>2, <1>3, <1>4, CountStep
<1>6. QED
  BY <1>1, <1>4, <1>5 DEF SnapshotsInv

\* A request that has a snapshot to itself.
LEMMA LoaderHas ==
  ASSUME Shape, ReachInv, SnapshotsInv, NEW t \in Threads,
         th[t].op \in ToLoad \/ th[t].at \in {"loaded", "over"}
  PROVE  /\ th[t].op \in ToLoad /\ Owner[t] \in Sessions /\ th[t].share \in Shares
         /\ th[t].h \in Opens(Owner[t], th[t].share) /\ snap[Owner[t]][th[t].share] \in Snapshot
         /\ snap[Owner[t]][th[t].share].once = IF th[t].at = "over" THEN "over" ELSE "loading"
         /\ th[t].at \in {"call", "in"} => snap[Owner[t]][th[t].share].len = 0
<1>1. LoadAt(t) /\ Owner[t] \in Sessions /\ SnapShape
  BY TreesAssumption DEF SnapshotsInv, LoadInv
<1>2. th[t].op \in ToLoad /\ th[t].at # "idle"
  BY <1>1 DEF LoadAt
<1>3. th[t].share \in Shares
  BY <1>2 DEF ReachInv
<1>4. QED
  BY <1>1, <1>2, <1>3 DEF LoadAt, SnapShape

\* The first to need the bytes goes to read them.
LEMMA LoadBegins ==
  ASSUME Shape, ReachInv, SnapshotsInv, NEW t \in Threads, NEW h \in Handles(Owner[t]), Load(t, h) \/ SizeLoads(t, h)
  PROVE  SnapshotsInv'
<1>0. SnapShape /\ RefsInv /\ LoadInv
  BY DEF SnapshotsInv
<1>1. PICK s \in Sessions : s = Owner[t]
  BY TreesAssumption
<1>2. PICK sh \in Shares : sh = handles[s][h].share
  BY <1>1 DEF Load, SizeLoads, ReachInv
<1>3. h \in Opens(s, sh)
  BY <1>1, <1>2 DEF Load, SizeLoads, Shape, Handle, Opens
<1>a. PICK op \in ToLoad : Calls(t, op, sh, h)
  BY <1>1, <1>2 DEF Load, SizeLoads, ToLoad
<1>4. PICK x : x = [at |-> "call", op |-> op, share |-> sh, h |-> h]
  OBVIOUS
<1>5. PICK y : y = [snap[s][sh] EXCEPT !.once = "loading"]
  OBVIOUS
<1>6. /\ th[t] = Rest /\ snap[s][sh].once = "unread" /\ proc' = proc /\ handles' = handles /\ total' = total
      /\ th' = [th EXCEPT ![t] = x] /\ snap' = [snap EXCEPT ![s][sh] = y]
  BY <1>1, <1>2, <1>a, <1>4, <1>5 DEF Load, SizeLoads, Calls, login
<1>7. snap[s][sh] \in Snapshot /\ snap[s][sh].len = 0
  BY <1>0, <1>6 DEF SnapShape, RefsInv, RefsAt
<1>8. y \in Snapshot /\ y.once = "loading" /\ y.len = 0 /\ y.refs = snap[s][sh].refs
  BY <1>5, <1>7 DEF Snapshot
<1>9. x.at = "call" /\ x.op \in ToLoad /\ x.share = sh /\ x.h = h
  BY <1>4
<1>10. Loading(t, s, sh, x, y)
  BY <1>3, <1>6, <1>8, <1>9 DEF Loading
<1>11. PICK d \in Int : d = 0
  OBVIOUS
<1>12. d = Counts(y, {"held", "over"}) - Counts(snap[s][sh], {"held", "over"})
  BY <1>6, <1>8, <1>11 DEF Counts
<1>13. total' = [total EXCEPT ![proc[s]] = total[proc[s]] + d]
  BY <1>0, <1>6, <1>11 DEF SnapShape, Shape
<1>14. LoadCounts(t, s, sh, x, y, d)
  BY <1>1, <1>6, <1>8, <1>10, <1>12, <1>13 DEF LoadCounts
<1>15. QED
  BY <1>8, <1>14, LoadKeeps

\* The driver is entered.
LEMMA EnterKeeps ==
  ASSUME Shape, ReachInv, SnapshotsInv, NEW t \in Threads, Enter(t)
  PROVE  SnapshotsInv'
<1>0. SnapShape /\ RefsInv /\ LoadInv /\ CountInv
  BY DEF SnapshotsInv
<1>1. PICK x : x = [at |-> "in", op |-> inside(th[t].op),
                    share |-> th[t].share, h |-> th[t].h]
  OBVIOUS
<1>2. /\ th[t].at = "call" /\ th' = [th EXCEPT ![t] = x]
      /\ proc' = proc /\ handles' = handles /\ snap' = snap /\ total' = total
  BY <1>1 DEF Enter, login
<1>3. /\ x.at = "in" /\ x.share = th[t].share /\ x.h = th[t].h
      /\ x.op \in ToLoad <=> th[t].op \in ToLoad
  BY <1>1 DEF inside, ToLoad
<1>4. CASE th[t].op \notin ToLoad
  <2>1. LoadAt(t)
    BY <1>0 DEF LoadInv
  <2>2. th[t].h \in Handles(Owner[t]) => handles[Owner[t]][th[t].h].file # "snapshot"
    BY <1>4, <2>1 DEF LoadAt
  <2>3. RefsInv' /\ LoadInv'
    BY <1>0, <1>2, <1>3, <1>4, <2>2, OtherStep
  <2>4. QED
    BY <1>0, <1>2, <2>3, Uncounted DEF SnapshotsInv
<1>5. CASE th[t].op \in ToLoad
  <2>1. PICK s \in Sessions, sh \in Shares : s = Owner[t] /\ sh = th[t].share
    BY <1>5, LoaderHas
  <2>2. PICK y \in Snapshot : y = snap[s][sh]
    BY <1>5, <2>1, LoaderHas
  <2>3. th[t].h \in Opens(s, sh) /\ y.once = "loading" /\ y.len = 0
    BY <1>2, <1>5, <2>1, <2>2, LoaderHas
  <2>4. Loading(t, s, sh, x, y)
    BY <1>2, <1>3, <1>5, <2>1, <2>2, <2>3 DEF Loading
  <2>5. snap' = [snap EXCEPT ![s][sh] = y]
    BY <1>0, <1>2, <2>2 DEF SnapShape
  <2>6. RefsInv' /\ LoadInv'
    BY <1>0, <1>2, <2>1, <2>4, <2>5, LoadStep
  <2>7. QED
    BY <1>0, <1>2, <2>6, Uncounted DEF SnapshotsInv
<1>6. QED
  BY <1>4, <1>5

\* The driver is left, by a request that loads nothing.
LEMMA OthersLeave ==
  ASSUME Shape, ReachInv, SnapshotsInv, NEW t \in Threads, Leave(t), th[t].op \notin ToLoad
  PROVE  SnapshotsInv'
<1>0. SnapShape /\ RefsInv /\ LoadInv /\ CountInv
  BY DEF SnapshotsInv
<1>1. PICK s \in Sessions, sh \in Shares : s = Owner[t] /\ sh = th[t].share
  BY TreesAssumption DEF Leave, ReachInv
<1>2. proc' = proc /\ snap' = snap /\ total' = total /\ th' = [th EXCEPT ![t] = Rest]
  BY DEF Leave, login, ToLoad
<1>3. \/ handles' = handles
      \/ handles' = [handles EXCEPT ![s][th[t].h] = opened(s, sh)]
      \/ handles' = [handles EXCEPT ![s][th[t].h] = NoHandle]
  BY <1>1 DEF Leave
<1>4. th[t].h \in Handles(s) => handles[s][th[t].h].file # "snapshot"
  BY <1>0, <1>1 DEF LoadInv, LoadAt
<1>5. /\ opened(s, sh) \in Handle /\ opened(s, sh).file # "snapshot"
      /\ NoHandle \in Handle /\ NoHandle.file # "snapshot"
  BY DEF opened, NoHandle, Handle
<1>6. \A z \in Sessions : \A g \in Handles(z) :
        \/ handles'[z][g] = handles[z][g]
        \/ handles'[z][g].file # "snapshot" /\ handles[z][g].file # "snapshot"
  <2>1. CASE handles' = handles
    BY <2>1
  <2>2. ASSUME NEW x \in Handle, x.file # "snapshot", handles' = [handles EXCEPT ![s][th[t].h] = x]
        PROVE  \A z \in Sessions : \A g \in Handles(z) :
                 \/ handles'[z][g] = handles[z][g]
                 \/ handles'[z][g].file # "snapshot" /\ handles[z][g].file # "snapshot"
    <3>1. \A z \in Sessions : \A g \in Handles(z) :
            handles'[z][g] = IF z = s /\ g = th[t].h THEN x ELSE handles[z][g]
      BY <2>2, HandlesSet
    <3>2. QED
      BY <1>4, <2>2, <3>1
  <2>3. QED
    BY <1>3, <1>5, <2>1, <2>2
<1>7. Rest.op \notin ToLoad /\ Rest.at = "idle" /\ Rest.h \notin Handles(s)
  BY DEF Rest, Handles, ToLoad
<1>8. RefsInv' /\ LoadInv'
  BY <1>0, <1>1, <1>2, <1>6, <1>7, OtherStep
<1>9. QED
  BY <1>0, <1>2, <1>8, Uncounted DEF SnapshotsInv

\* The driver is left, by a request that loads a snapshot.
LEMMA LoaderLeaves ==
  ASSUME Shape, ReachInv, SnapshotsInv, NEW t \in Threads, Leave(t), th[t].op \in ToLoad
  PROVE  SnapshotsInv'
<1>0. SnapShape /\ th[t].at = "in" /\ th \in [Threads -> Thread]
  BY DEF SnapshotsInv, Leave, Shape
<1>1. PICK s \in Sessions, sh \in Shares : s = Owner[t] /\ sh = th[t].share
  BY LoaderHas
<1>2. /\ snap[s][sh] \in Snapshot /\ snap[s][sh].once = "loading" /\ snap[s][sh].len = 0
      /\ th[t].h \in Opens(s, sh)
  BY <1>0, <1>1, LoaderHas
<1>3. proc' = proc /\ handles' = handles /\ total' = total
  BY DEF Leave, login, ToLoad
<1>4. ASSUME NEW x, NEW y \in Snapshot, th' = [th EXCEPT ![t] = x], snap' = [snap EXCEPT ![s][sh] = y],
             Loading(t, s, sh, x, y), y.once \notin {"held", "over"}
      PROVE  SnapshotsInv'
  <2>1. PICK d \in Int : d = 0
    OBVIOUS
  <2>2. d = Counts(y, {"held", "over"}) - Counts(snap[s][sh], {"held", "over"})
    BY <1>2, <1>4, <2>1 DEF Counts
  <2>3. total' = [total EXCEPT ![proc[s]] = total[proc[s]] + d]
    BY <1>0, <1>3, <2>1 DEF SnapShape, Shape
  <2>4. y.once # "held"
    BY <1>4
  <2>5. LoadCounts(t, s, sh, x, y, d)
    BY <1>1, <1>3, <1>4, <2>2, <2>3, <2>4 DEF LoadCounts
  <2>6. QED
    BY <2>5, LoadKeeps
<1>5. CASE \E n \in Sizes : snap' = [snap EXCEPT ![s][sh].len = n] /\ th' = [th EXCEPT ![t].at = "loaded"]
  <2>1. PICK n \in Sizes : snap' = [snap EXCEPT ![s][sh].len = n]
    BY <1>5
  <2>2. PICK x : x = [th[t] EXCEPT !.at = "loaded"]
    OBVIOUS
  <2>3. PICK y : y = [snap[s][sh] EXCEPT !.len = n]
    OBVIOUS
  <2>4. th' = [th EXCEPT ![t] = x] /\ snap' = [snap EXCEPT ![s][sh] = y]
    BY <1>5, <2>1, <2>2, <2>3
  <2>5. x.at = "loaded" /\ x.op \in ToLoad /\ x.share = sh /\ x.h = th[t].h
    BY <1>0, <1>1, <2>2 DEF Thread
  <2>6. y \in Snapshot /\ y.once = "loading" /\ y.refs = snap[s][sh].refs
    BY <1>2, <2>3, TreesAssumption DEF Snapshot
  <2>7. Loading(t, s, sh, x, y)
    BY <1>1, <1>2, <2>5, <2>6 DEF Loading
  <2>8. QED
    BY <1>4, <2>4, <2>6, <2>7
<1>6. CASE snap' = [snap EXCEPT ![s][sh].once = "err"] /\ th' = [th EXCEPT ![t] = Rest]
  <2>1. PICK y : y = [snap[s][sh] EXCEPT !.once = "err"]
    OBVIOUS
  <2>2. snap' = [snap EXCEPT ![s][sh] = y]
    BY <1>6, <2>1
  <2>3. y \in Snapshot /\ y.once = "err" /\ y.len = 0 /\ y.refs = snap[s][sh].refs
    BY <1>2, <2>1 DEF Snapshot
  <2>4. Loading(t, s, sh, Rest, y)
    BY <1>1, <1>2, <2>3 DEF Loading
  <2>5. QED
    BY <1>4, <1>6, <2>2, <2>3, <2>4
<1>7. QED
  BY <1>1, <1>5, <1>6 DEF Leave, ToLoad

\* What was read is counted, or refused.
LEMMA BytesKeep ==
  ASSUME Shape, ReachInv, SnapshotsInv, NEW t \in Threads, bytes(t)
  PROVE  SnapshotsInv'
<1>0. SnapShape /\ th[t].at = "loaded" /\ th \in [Threads -> Thread]
  BY DEF SnapshotsInv, bytes, Shape
<1>1. PICK s \in Sessions, sh \in Shares : s = Owner[t] /\ sh = th[t].share
  BY <1>0, LoaderHas
<1>2. PICK n : n = snap[s][sh].len
  OBVIOUS
<1>3. /\ snap[s][sh] \in Snapshot /\ snap[s][sh].once = "loading" /\ n \in Nat
      /\ th[t].h \in Opens(s, sh) /\ th[t].op \in ToLoad
  <2>1. snap[s][sh] \in Snapshot /\ snap[s][sh].once = "loading" /\ th[t].h \in Opens(s, sh) /\ th[t].op \in ToLoad
    BY <1>0, <1>1, LoaderHas
  <2>2. QED
    BY <1>2, <2>1 DEF Snapshot
<1>4. Counts(snap[s][sh], {"held", "over"}) = 0 /\ proc[s] \in Procs /\ total \in [Procs -> Int]
  BY <1>0, <1>3 DEF Counts, Shape, SnapShape
<1>5. proc' = proc /\ handles' = handles
  BY DEF bytes, login
<1>6. CASE n > MaxFile
  <2>1. PICK y : y = [refs |-> snap[s][sh].refs, once |-> "err", len |-> 0]
    OBVIOUS
  <2>2. y \in Snapshot /\ y.once = "err" /\ y.len = 0 /\ y.refs = snap[s][sh].refs
    BY <1>3, <2>1 DEF Snapshot
  <2>3. snap' = [snap EXCEPT ![s][sh] = y] /\ total' = total
    BY <1>1, <1>2, <1>6, <2>1 DEF bytes
  <2>4. snap'[s][sh] = y
    BY <1>0, <2>3 DEF SnapShape
  <2>5. th' = [th EXCEPT ![t] = Rest]
    BY <1>1, <2>2, <2>4 DEF bytes
  <2>6. Loading(t, s, sh, Rest, y)
    BY <1>1, <1>3, <2>2 DEF Loading
  <2>7. PICK d \in Int : d = 0
    OBVIOUS
  <2>8. d = Counts(y, {"held", "over"}) - Counts(snap[s][sh], {"held", "over"})
    BY <1>4, <2>2, <2>7 DEF Counts
  <2>9. total' = [total EXCEPT ![proc[s]] = total[proc[s]] + d]
    BY <1>4, <2>3, <2>7
  <2>10. LoadCounts(t, s, sh, Rest, y, d)
    BY <1>1, <1>5, <2>2, <2>3, <2>5, <2>6, <2>8, <2>9 DEF LoadCounts
  <2>11. QED
    BY <2>2, <2>10, LoadKeeps
<1>7. CASE ~(n > MaxFile)
  <2>1. total' = [total EXCEPT ![proc[s]] = total[proc[s]] + n]
    BY <1>1, <1>2, <1>7 DEF bytes
  <2>2. PICK v : v = IF total'[proc[s]] > MaxTotal THEN "over" ELSE "held"
    OBVIOUS
  <2>3. PICK y : y = [snap[s][sh] EXCEPT !.once = v]
    OBVIOUS
  <2>4. y \in Snapshot /\ y.once = v /\ y.len = n /\ y.refs = snap[s][sh].refs
    BY <1>2, <1>3, <2>2, <2>3 DEF Snapshot
  <2>5. snap' = [snap EXCEPT ![s][sh] = y]
    BY <1>1, <1>2, <1>7, <2>2, <2>3 DEF bytes
  <2>6. snap'[s][sh] = y
    BY <1>0, <2>5 DEF SnapShape
  <2>7. PICK x : x = IF v = "over" THEN [th[t] EXCEPT !.at = "over"] ELSE Rest
    OBVIOUS
  <2>8. th' = [th EXCEPT ![t] = x]
    BY <1>1, <2>4, <2>6, <2>7 DEF bytes
  <2>9. v = "over" => x.at = "over" /\ x.op \in ToLoad /\ x.share = sh /\ x.h = th[t].h
    BY <1>0, <1>1, <1>3, <2>7 DEF Thread
  <2>10. Loading(t, s, sh, x, y)
    BY <1>1, <1>3, <2>2, <2>4, <2>7, <2>9 DEF Loading
  <2>11. n \in Int /\ n = Counts(y, {"held", "over"}) - Counts(snap[s][sh], {"held", "over"})
    BY <1>3, <1>4, <2>2, <2>4 DEF Counts
  <2>12. y.once # "held" \/ total'[proc[s]] <= MaxTotal
    <3>1. total'[proc[s]] \in Int /\ MaxTotal \in Int
      BY <1>3, <1>4, <2>1, TreesAssumption
    <3>2. QED
      BY <2>2, <2>4, <3>1
  <2>13. LoadCounts(t, s, sh, x, y, n)
    BY <1>1, <1>5, <2>1, <2>5, <2>8, <2>10, <2>11, <2>12 DEF LoadCounts
  <2>14. QED
    BY <2>4, <2>11, <2>13, LoadKeeps
<1>8. QED
  BY <1>6, <1>7

\* What went past the bound is counted off.
LEMMA CountOffKeeps ==
  ASSUME Shape, ReachInv, SnapshotsInv, NEW t \in Threads, CountOff(t)
  PROVE  SnapshotsInv'
<1>0. SnapShape /\ th[t].at = "over"
  BY DEF SnapshotsInv, CountOff
<1>1. PICK s \in Sessions, sh \in Shares : s = Owner[t] /\ sh = th[t].share
  BY <1>0, LoaderHas
<1>2. PICK n : n = snap[s][sh].len
  OBVIOUS
<1>3. /\ snap[s][sh] \in Snapshot /\ snap[s][sh].once = "over" /\ n \in Nat
      /\ th[t].h \in Opens(s, sh) /\ th[t].op \in ToLoad
  <2>1. snap[s][sh] \in Snapshot /\ snap[s][sh].once = "over" /\ th[t].h \in Opens(s, sh) /\ th[t].op \in ToLoad
    BY <1>0, <1>1, LoaderHas
  <2>2. QED
    BY <1>2, <2>1 DEF Snapshot
<1>4. PICK y : y = [refs |-> snap[s][sh].refs, once |-> "err", len |-> 0]
  OBVIOUS
<1>5. y \in Snapshot /\ y.once = "err" /\ y.len = 0 /\ y.refs = snap[s][sh].refs
  BY <1>3, <1>4 DEF Snapshot
<1>6. /\ snap' = [snap EXCEPT ![s][sh] = y] /\ th' = [th EXCEPT ![t] = Rest]
      /\ total' = [total EXCEPT ![proc[s]] = total[proc[s]] - n]
      /\ proc' = proc /\ handles' = handles
  BY <1>1, <1>2, <1>4 DEF CountOff, login
<1>7. Loading(t, s, sh, Rest, y)
  BY <1>1, <1>3, <1>5 DEF Loading
<1>8. PICK d \in Int : d = 0 - n
  BY <1>3
<1>9. d = Counts(y, {"held", "over"}) - Counts(snap[s][sh], {"held", "over"})
  BY <1>2, <1>3, <1>5, <1>8 DEF Counts
<1>10. total' = [total EXCEPT ![proc[s]] = total[proc[s]] + d]
  <2>1. total[proc[s]] \in Int
    BY <1>0 DEF Shape, SnapShape
  <2>2. total[proc[s]] + d = total[proc[s]] - n
    BY <1>3, <1>8, <2>1
  <2>3. QED
    BY <1>6, <2>2
<1>11. LoadCounts(t, s, sh, Rest, y, d)
  BY <1>1, <1>5, <1>6, <1>7, <1>9, <1>10 DEF LoadCounts
<1>12. QED
  BY <1>5, <1>11, LoadKeeps

LEMMA TreesKeepSnapshots ==
  ASSUME Shape, ReachInv, SnapshotsInv, TreesNext
  PROVE  SnapshotsInv'
<1>0. \A t \in Threads : Owner[t] \in Sessions /\ 0 \notin Handles(Owner[t])
  BY TreesAssumption DEF Handles
<1>1. ASSUME NEW t \in Threads, NEW sh \in Shares, ReadPath(t, sh) \/ WritePath(t, sh)
      PROVE  SnapshotsInv'
  <2>1. /\ th[t] = Rest /\ proc' = proc /\ total' = total /\ snap' = snap /\ handles' = handles
        /\ Calls(t, "read", sh, 0) \/ Calls(t, "write", sh, 0)
    BY <1>1 DEF ReadPath, WritePath, login
  <2>2. QED
    BY <1>0, <2>1, StartKeeps DEF ToLoad
<1>2. ASSUME NEW t \in Threads, NEW from \in Shares, NEW to \in Shares, Rename(t, from, to)
      PROVE  SnapshotsInv'
  <2>1. /\ th[t] = Rest /\ proc' = proc /\ total' = total /\ snap' = snap /\ handles' = handles
        /\ Calls(t, "write", from, 0)
    BY <1>2 DEF Rename, login
  <2>2. QED
    BY <1>0, <2>1, StartKeeps DEF ToLoad
<1>3. ASSUME NEW t \in Threads, NEW sh \in Shares, OpenFile(t, sh)
      PROVE  SnapshotsInv'
  <2>1. PICK h \in Free(Owner[t]) : Calls(t, "open", sh, h)
    BY <1>3 DEF OpenFile
  <2>2. handles[Owner[t]][h].file # "snapshot"
    BY <2>1 DEF Free, NoHandle
  <2>3. th[t] = Rest /\ proc' = proc /\ total' = total /\ snap' = snap /\ handles' = handles
    BY <1>3 DEF OpenFile, login
  <2>4. QED
    BY <2>1, <2>2, <2>3, StartKeeps DEF ToLoad
<1>4. ASSUME NEW t \in Threads, NEW h \in Handles(Owner[t]),
             ReadAt(t, h) \/ WriteAt(t, h) \/ SizeOrSync(t, h) \/ CloseFile(t, h)
      PROVE  SnapshotsInv'
  <2>1. PICK sh : sh = handles[Owner[t]][h].share
    OBVIOUS
  <2>2. /\ th[t] = Rest /\ proc' = proc /\ total' = total /\ snap' = snap /\ handles' = handles
        /\ handles[Owner[t]][h].file # "snapshot"
        /\ \E op \in {"read", "write", "sync", "close"} : Calls(t, op, sh, h)
    BY <1>4, <2>1 DEF ReadAt, WriteAt, SizeOrSync, CloseFile, login
  <2>3. QED
    BY <2>2, StartKeeps DEF ToLoad
<1>5. ASSUME NEW t \in Threads, Leave(t) PROVE SnapshotsInv'
  BY <1>5, OthersLeave, LoaderLeaves
<1>6. ASSUME NEW s \in Sessions, Revoked(s) PROVE SnapshotsInv'
  <2>1. proc' = proc /\ total' = total /\ snap' = snap /\ handles' = handles /\ th' = th
    BY <1>6 DEF Revoked, login
  <2>2. QED
    BY <2>1, Uncounted DEF SnapshotsInv, RefsInv, RefsAt, LoadInv, LoadAt, Opens, Loads
<1>7. QED
  BY <1>1, <1>2, <1>3, <1>4, <1>5, <1>6, OpenKeeps, ReleaseKeeps, LoadBegins, EnterKeeps, BytesKeep, CountOffKeeps
     DEF TreesNext

\* A session comes or goes with no file open, so with no snapshot.
LEMMA MovedWithout ==
  ASSUME SnapshotsInv, NEW s \in Sessions, \A h \in Handles(s) : handles[s][h] = NoHandle,
         \A z \in Sessions \ {s} : proc'[z] = proc[z],
         th' = th, handles' = handles, snap' = snap, total' = total
  PROVE  SnapshotsInv'
<1>1. \A sh \in Shares : snap[s][sh].len = 0
  <2> SUFFICES ASSUME NEW sh \in Shares PROVE snap[s][sh].len = 0
    OBVIOUS
  <2>1. Opens(s, sh) = {}
    BY DEF Opens, NoHandle
  <2>2. Cardinality(Opens(s, sh)) = 0
    BY <2>1, FS_EmptySet
  <2>3. snap[s][sh] = NoSnapshot
    BY <2>2 DEF SnapshotsInv, RefsInv, RefsAt
  <2>4. QED
    BY <2>3 DEF NoSnapshot
<1>2. CountInv'
  BY <1>1, CountElsewhere DEF SnapshotsInv
<1>3. SnapShape' /\ RefsInv' /\ LoadInv'
  <2>1. (\A z, w : Opens(z, w)' = Opens(z, w)) /\ (\A u, z, w : Loads(u, z, w)' <=> Loads(u, z, w))
    BY DEF Opens, Loads
  <2>2. SnapShape'
    BY DEF SnapshotsInv, SnapShape
  <2>3. RefsInv'
    BY <2>1 DEF SnapshotsInv, RefsInv, RefsAt
  <2>4. LoadInv'
    BY <2>1 DEF SnapshotsInv, LoadInv, LoadAt
  <2>5. QED
    BY <2>2, <2>3, <2>4
<1>4. QED
  BY <1>2, <1>3 DEF SnapshotsInv

LEMMA InitCounts == Init => SnapshotsInv
<1> SUFFICES ASSUME Init PROVE SnapshotsInv
  OBVIOUS
<1>1. /\ snap = [s \in Sessions |-> [sh \in Shares |-> NoSnapshot]] /\ total = [p \in Procs |-> 0]
      /\ \A t \in Threads : th[t] = Rest
      /\ \A s \in Sessions : handles[s] = [h \in Handles(s) |-> NoHandle]
  BY DEF Init, TreesInit
<1>2. NoSnapshot \in Snapshot /\ NoSnapshot.refs = 0 /\ NoSnapshot.once = "none" /\ NoSnapshot.len = 0
  BY DEF NoSnapshot, Snapshot
<1>3. SnapShape
  BY <1>1, <1>2 DEF SnapShape
<1>4. RefsInv
  <2> SUFFICES ASSUME NEW s \in Sessions, NEW sh \in Shares PROVE RefsAt(s, sh)
    BY DEF RefsInv
  <2>0. \A h \in Handles(s) : handles[s][h] = NoHandle
    BY <1>1
  <2>1. Opens(s, sh) = {}
    BY <2>0 DEF Opens, NoHandle
  <2>2. QED
    BY <1>1, <1>2, <2>1, FS_EmptySet DEF RefsAt
<1>5. LoadInv
  <2> SUFFICES ASSUME NEW t \in Threads PROVE LoadAt(t)
    BY DEF LoadInv
  <2>1. Rest.at = "idle" /\ Rest.op = "none" /\ Rest.h \notin Handles(Owner[t])
    BY DEF Rest, Handles
  <2>2. QED
    BY <1>1, <2>1 DEF LoadAt, ToLoad
<1>6. CountInv
  <2> SUFFICES ASSUME NEW p \in Procs
               PROVE  /\ IsFiniteSet(Bytes(p, {"held", "over"})) /\ total[p] = Cardinality(Bytes(p, {"held", "over"}))
                      /\ Cardinality(Bytes(p, {"held"})) <= MaxTotal
    BY DEF CountInv
  <2>1. ASSUME NEW once, once \subseteq {"held", "over"} PROVE Bytes(p, once) = {}
    <3>1. \A x \in Sessions \X Shares : snap[x[1]][x[2]].once = "none"
      BY <1>1, <1>2
    <3>2. QED
      BY <2>1, <3>1 DEF Bytes
  <2>2. Bytes(p, {"held", "over"}) = {} /\ Bytes(p, {"held"}) = {}
    BY <2>1
  <2>3. MaxTotal \in Nat
    BY TreesAssumption
  <2>4. QED
    BY <1>1, <2>2, <2>3, FS_EmptySet
<1>7. QED
  BY <1>3, <1>4, <1>5, <1>6 DEF SnapshotsInv

\* The snapshots of a process stay within their bound, and the count of their
\* bytes is exact, whatever sessions, loads, refusals and closes there are at
\* once: Trees' SnapshotsBounded, about snapshot.bytes and snapshotCache.release.
THEOREM SnapshotsAreBounded == Spec => []SnapshotsBounded
<1>1. SnapshotsInv /\ SessionsInv /\ [Next]_vars => SnapshotsInv'
  <2> SUFFICES ASSUME SnapshotsInv, SessionsInv, [Next]_vars PROVE SnapshotsInv'
    OBVIOUS
  <2>0. Shape /\ OffInv /\ ReachInv /\ config \in Configs /\ proc \in [Sessions -> Procs]
    BY DEF SessionsInv, Shape
  <2>1. CASE Login
    <3>1. PICK s \in Sessions : /\ who[s] = Nobody
                                /\ \E proto, cred, p, v, how : LetIn(s, proto, cred, p, v, how)
      BY <2>0, <2>1, LoginIs
    <3>2. \A h \in Handles(s) : handles[s][h] = NoHandle
      BY <2>0, <3>1 DEF OffInv
    <3>3. /\ \A z \in Sessions \ {s} : proc'[z] = proc[z]
          /\ th' = th /\ handles' = handles /\ snap' = snap /\ total' = total
      BY <2>0, <3>1 DEF LetIn
    <3>4. QED
      BY <3>2, <3>3, MovedWithout
  <2>2. CASE Work
    BY <2>0, <2>2, TreesKeepSnapshots DEF Work
  <2>3. CASE \E s \in Sessions : Logout(s)
    <3>1. PICK s \in Sessions : Logout(s)
      BY <2>3
    <3>2. /\ \A z \in Sessions \ {s} : proc'[z] = proc[z]
          /\ th' = th /\ handles' = handles /\ snap' = snap /\ total' = total
          /\ \A h \in Handles(s) : handles[s][h] = NoHandle
      BY <2>0, <3>1 DEF Logout
    <3>3. QED
      BY <3>2, MovedWithout
  <2>4. CASE UNCHANGED vars
    <3>1. proc' = proc /\ total' = total /\ snap' = snap /\ handles' = handles /\ th' = th
      BY <2>4 DEF vars, treeVars
    <3>2. QED
      BY <3>1, Uncounted DEF SnapshotsInv, RefsInv, RefsAt, LoadInv, LoadAt, Opens, Loads
  <2>5. QED
    BY <2>1, <2>2, <2>3, <2>4 DEF Next
<1>2. SnapshotsInv => SnapshotsBounded
  BY DEF SnapshotsInv, CountInv, SnapshotsBounded
<1>3. QED
  BY <1>1, <1>2, InitCounts, SessionsInvariant, PTL DEF Spec
=============================================================================
