----------------------------- MODULE NodeProofs -----------------------------
(***************************************************************************)
(* What a miner's node keeps, for any miners, jobs, assignments, limits and*)
(* order of messages: its shards and its pieces of contexts (L2Miner), and *)
(* what it hears and stores through the overlay (Overlay, Memory).  The two*)
(* parts share no variable.                                                *)
(***************************************************************************)
EXTENDS L2Miner, Memory, TotalsTheorems, SequenceTheorems

(* The shards and the pieces of contexts.                                  *)

(* A node within its limits, which mines exactly when it is idle.          *)
Good(st) ==
    /\ st \in NodeRec
    /\ IsFiniteSet(st.active)
    /\ Cardinality(st.active) <= MaxShards
    /\ \A o, p \in st.active : o.key = p.key => o = p
    /\ st.mining <=> st.active = {}

NodesGood == \A m \in Miners : Good(node[m])

(* Pieces are sent, kept and used only where the job has a context.        *)
HasContext == \A k \in ctxOffers : Context[k[1]] # NoContext
PiecesOfContexts ==
    \A m \in Miners :
        /\ \A j \in Jobs : chunk[m][j] # NoPiece => Context[j] # NoContext
        /\ \A r \in running[m] : r.piece # NoPiece => Context[Job(r.offer)] # NoContext

(* Some confirmed piece of the job: of two on one miner the later counts.  *)
IsPiece(m, j, piece) == \E l \in loaded[m] : l[1] = j /\ piece = Piece(j, l[2])

(* A confirmed piece stays in the table until the job's first run there,   *)
(* which takes it.                                                         *)
HeldUntilRun ==
    \A m \in Miners, j \in Jobs :
        (\E l \in loaded[m] : l[1] = j) /\ (\A k \in ran[m] : k[1] # j)
          => IsPiece(m, j, chunk[m][j])

FirstRunHasPiece ==
    \A m \in Miners : \A r \in running[m] :
        r.first /\ r.had => IsPiece(m, Job(r.offer), r.piece)

(* Answers, on their way or counted, come from miners that hold a piece,   *)
(* and a piece of a shard is only at the miner selected for it.            *)
Holds(m, j) == \E k \in loaded[m] : k[1] = j
LoadedByAssignee == \A m \in Miners : \A k \in loaded[m] : m = Assigned[k[1]][k[2]]
AnswersAreTrue ==
    /\ \A l \in loads : Holds(l[2], l[1])
    /\ \A j \in Jobs : \A m \in responded[j] : Holds(m, j)
(* A reassignment replaces a miner, it adds and removes no shard.          *)
SpecShape == \A j \in Jobs : DOMAIN spec[j] = DOMAIN Assigned[j]

NodeInv  == NodesGood /\ NoIdleQueue
PieceInv == HasContext /\ PiecesOfContexts /\ HeldUntilRun /\ FirstRunHasPiece
LoadInv  == LoadedByAssignee /\ AnswersAreTrue /\ CommitMeansLoaded /\ WaitedForAll

(* Capacity rests on the types, the pieces on what was confirmed and run,  *)
(* the commitments on where the answers came from.                         *)
MinerInv == TypeOK /\ SpecShape /\ NodeInv /\ PieceInv /\ LoadInv
-----------------------------------------------------------------------------
LEMMA KeyFacts ==
  ASSUME NEW k \in Keys
  PROVE  k[1] \in Jobs /\ k[2] \in ShardsOf(k[1]) /\ k = <<k[1], k[2]>> /\ Piece(k[1], k[2]) \in Pieces
  BY DEF Keys, Pieces

LEMMA ShardKey ==
  ASSUME NEW j \in Jobs, NEW s \in ShardsOf(j)
  PROVE  <<j, s>> \in Keys /\ s \in 1 .. Len(Assigned[j]) /\ Assigned[j][s] \in Miners
  BY MinerInputs DEF Keys, ShardsOf

LEMMA OfferFacts ==
  ASSUME NEW o \in Offer
  PROVE  o.key \in Keys /\ Job(o) \in Jobs /\ o.re \in BOOLEAN
<1>1. o.key \in Keys /\ o.re \in BOOLEAN
  BY DEF Offer
<1> QED
  BY <1>1, KeyFacts DEF Job
-----------------------------------------------------------------------------
(* One offer more: a node stays within its limits, and its queue fills     *)
(* only when it is full.                                                   *)
Tight(st) == st.queue # <<>> => Full(st)

LEMMA AdmittedGood ==
  ASSUME NEW m \in Miners, NEW st, Good(st), NEW o \in Offer
  PROVE  Good(Admitted(m, st, o)) /\ (Tight(st) => Tight(Admitted(m, st, o)))
<1>1. /\ st \in NodeRec /\ IsFiniteSet(st.active) /\ Cardinality(st.active) <= MaxShards
      /\ Cardinality(st.active) \in Nat /\ MaxShards \in Nat \ {0}
      /\ st.active \subseteq Offer /\ st.queue \in Seq(Offer) /\ st.mining \in BOOLEAN
  BY MinerInputs, FS_CardinalityType DEF Good, NodeRec
<1>2. CASE Full(st)
  <2> DEFINE new == [st EXCEPT !.queue = Append(@, o)]
  <2>1. Admitted(m, st, o) = new
    BY <1>2 DEF Admitted
  <2>2. new \in NodeRec /\ new.active = st.active /\ new.mining = st.mining
    BY <1>1 DEF NodeRec
  <2>3. Good(new)
    BY <2>2 DEF Good
  <2>4. Full(new)
    BY <1>2, <2>2 DEF Full
  <2> QED
    BY <2>1, <2>3, <2>4 DEF Tight
<1>3. CASE ~ Full(st) /\ (Declined(m, o) \/ Active(st, o))
  <2>1. Admitted(m, st, o) = st
    BY <1>3 DEF Admitted
  <2> QED
    BY <2>1
<1>4. CASE ~ Full(st) /\ ~ (Declined(m, o) \/ Active(st, o))
  <2> DEFINE new == [st EXCEPT !.active = @ \cup {o}, !.mining = FALSE]
  <2>1. Admitted(m, st, o) = new
    BY <1>4 DEF Admitted
  <2>2. /\ new \in NodeRec /\ new.active = st.active \cup {o} /\ new.mining = FALSE
        /\ new.queue = st.queue
    BY <1>1 DEF NodeRec
  <2>3. Cardinality(st.active) < MaxShards
    BY <1>1, <1>4 DEF Full
  <2>4. IsFiniteSet(new.active) /\ Cardinality(new.active) <= MaxShards
    <3>1. /\ IsFiniteSet(st.active \cup {o})
          /\ Cardinality(st.active \cup {o}) \in {Cardinality(st.active), Cardinality(st.active) + 1}
      BY <1>1, FS_AddElement
    <3> HIDE DEF new
    <3> QED
      BY <1>1, <2>2, <2>3, <3>1
  <2>5. \A p, q \in new.active : p.key = q.key => p = q
    BY <1>4, <2>2 DEF Good, Active
  <2>6. Good(new)
    BY <2>2, <2>4, <2>5 DEF Good
  <2>7. Tight(st) => new.queue = <<>>
    BY <1>4, <2>2 DEF Tight
  <2> QED
    BY <2>1, <2>6, <2>7 DEF Tight
<1> QED
  BY <1>2, <1>3, <1>4

(* The queue handled from the front: the function of Drained exists, and   *)
(* what it ends in is within the limits and tight.                         *)
Begins(m) == [node[m] EXCEPT !.queue = <<>>]

Steps(m, n, f) ==
    f = [i \in 0 .. n |-> IF i = 0 THEN Begins(m) ELSE Admitted(m, f[i - 1], node[m].queue[i])]

LEMMA StepsExist ==
  ASSUME NEW m \in Miners
  PROVE  \A n \in Nat : \E f : Steps(m, n, f)
<1> DEFINE S == {n \in Nat : \E f : Steps(m, n, f)}
<1>1. 0 \in S
  <2> DEFINE f == [i \in 0 .. 0 |-> Begins(m)]
  <2>1. Steps(m, 0, f)
    BY DEF Steps
  <2> QED
    BY <2>1
<1>2. ASSUME NEW n \in Nat, n \in S PROVE n + 1 \in S
  <2>1. PICK f : Steps(m, n, f)
    BY <1>2
  <2> DEFINE g == [i \in 0 .. n + 1 |->
                     IF i <= n THEN f[i] ELSE Admitted(m, f[n], node[m].queue[n + 1])]
  <2>2. \A i \in 0 .. n : f[i] = IF i = 0 THEN Begins(m) ELSE Admitted(m, f[i - 1], node[m].queue[i])
    BY <2>1 DEF Steps
  <2>3. ASSUME NEW i \in 0 .. n + 1
        PROVE  g[i] = IF i = 0 THEN Begins(m) ELSE Admitted(m, g[i - 1], node[m].queue[i])
    <3>1. CASE i = 0
      BY <2>2, <3>1
    <3>2. CASE i \in 1 .. n
      <4>1. g[i] = f[i] /\ g[i - 1] = f[i - 1] /\ i # 0
        BY <3>2
      <4> QED
        BY <2>2, <3>2, <4>1
    <3>3. CASE i = n + 1
      <4>1. g[i] = Admitted(m, f[n], node[m].queue[n + 1]) /\ g[i - 1] = f[n] /\ i # 0
        BY <3>3
      <4> QED
        BY <3>3, <4>1
    <3> QED
      BY <3>1, <3>2, <3>3
  <2>4. g = [i \in 0 .. n + 1 |-> g[i]]
    OBVIOUS
  <2> HIDE DEF g
  <2>5. Steps(m, n + 1, g)
    BY <2>3, <2>4 DEF Steps
  <2> QED
    BY <2>5
<1>3. Nat \subseteq S
  <2> HIDE DEF S
  <2> QED
    BY <1>1, <1>2, SetInduction
<1> QED
  BY <1>3

LEMMA StepsGood ==
  ASSUME NEW m \in Miners, Good(node[m]), NEW f, Steps(m, Len(node[m].queue), f)
  PROVE  LET n == Len(node[m].queue) IN Good(f[n]) /\ Tight(f[n])
<1> DEFINE queue == node[m].queue
           N == Len(queue)
           S == {i \in Nat : i <= N => Good(f[i]) /\ Tight(f[i])}
<1>0. queue \in Seq(Offer) /\ N \in Nat /\ node[m] \in NodeRec
  BY DEF Good, NodeRec
<1>1. \A i \in 0 .. N : f[i] = IF i = 0 THEN Begins(m) ELSE Admitted(m, f[i - 1], queue[i])
  BY DEF Steps
<1>2. 0 \in S
  <2>1. f[0] = Begins(m)
    BY <1>0, <1>1
  <2>4. <<>> \in Seq(Offer)
    OBVIOUS
  <2>2. /\ Begins(m) \in NodeRec /\ Begins(m).queue = <<>>
        /\ Begins(m).active = node[m].active /\ Begins(m).mining = node[m].mining
    BY <1>0, <2>4 DEF Begins, NodeRec
  <2>3. Good(Begins(m)) /\ Tight(Begins(m))
    BY <2>2 DEF Good, Tight
  <2> QED
    BY <2>1, <2>3
<1>3. ASSUME NEW i \in Nat, i \in S PROVE i + 1 \in S
  <2> SUFFICES ASSUME i + 1 <= N PROVE Good(f[i + 1]) /\ Tight(f[i + 1])
    BY <1>3
  <2>1. Good(f[i]) /\ Tight(f[i])
    BY <1>0, <1>3
  <2>2. queue[i + 1] \in Offer
    BY <1>0
  <2>3. f[i + 1] = Admitted(m, f[i], queue[i + 1])
    <3>1. i + 1 \in 0 .. N /\ i + 1 # 0 /\ (i + 1) - 1 = i
      BY <1>0
    <3> QED
      BY <1>1, <3>1
  <2> QED
    BY <2>1, <2>2, <2>3, AdmittedGood
<1>4. Nat \subseteq S
  <2> HIDE DEF S
  <2> QED
    BY <1>2, <1>3, SetInduction
<1> QED
  BY <1>0, <1>4

LEMMA DrainedGood ==
  ASSUME NEW m \in Miners, Good(node[m])
  PROVE  Good(Drained(m)) /\ Tight(Drained(m))
<1> DEFINE n == Len(node[m].queue)
           f == CHOOSE g : Steps(m, n, g)
<1>1. n \in Nat
  BY DEF Good, NodeRec
<1>2. Steps(m, n, f)
  BY <1>1, StepsExist
<1>3. Drained(m) = f[n]
  BY DEF Drained, Steps, Begins
<1> HIDE DEF f
<1> QED
  BY <1>2, <1>3, StepsGood
-----------------------------------------------------------------------------
(* The wait ended because as many miners answered as there are shards:     *)
(* the shards are then on different miners, and each of them answered for  *)
(* its own.                                                                *)
LEMMA AllMeansAll ==
  ASSUME TypeOK, LoadedByAssignee, AnswersAreTrue, NEW j \in Jobs, AllResponded(j),
         NEW s \in ShardsOf(j)
  PROVE  <<j, s>> \in loaded[Assigned[j][s]]
<1> DEFINE a   == Assigned[j]
           n   == Len(a)
           f   == [i \in 1 .. n |-> a[i]]
           Rng == {a[i] : i \in 1 .. n}
<1>1. a \in Seq(Miners) /\ n \in Nat /\ ShardsOf(j) = 1 .. n
  BY MinerInputs DEF ShardsOf
<1>2. f \in Surjection(1 .. n, Rng)
  BY DEF Surjection
<1>3. IsFiniteSet(1 .. n) /\ Cardinality(1 .. n) = n
  BY <1>1, FS_Interval
<1>4. IsFiniteSet(Rng) /\ Cardinality(Rng) <= n /\ (Cardinality(Rng) = n => f \in Injection(1 .. n, Rng))
  BY <1>2, <1>3, FS_Surjection
<1>5. ASSUME NEW m \in responded[j]
      PROVE  \E i \in 1 .. n : m = a[i] /\ <<j, i>> \in loaded[m]
  <2>1. m \in Miners
    BY DEF TypeOK
  <2>2. PICK k \in loaded[m] : k[1] = j
    BY DEF AnswersAreTrue, Holds
  <2>3. k \in Keys
    BY <2>1 DEF TypeOK
  <2>4. k[2] \in 1 .. n /\ k = <<j, k[2]>>
    BY <1>1, <2>2, <2>3, KeyFacts
  <2>5. m = a[k[2]]
    BY <2>1, <2>2 DEF LoadedByAssignee
  <2> QED
    BY <2>2, <2>4, <2>5
<1>6. responded[j] \subseteq Rng
  BY <1>5
<1>7. /\ Cardinality(responded[j]) <= Cardinality(Rng)
      /\ (Cardinality(Rng) = Cardinality(responded[j]) => Rng = responded[j])
      /\ Cardinality(responded[j]) \in Nat /\ Cardinality(Rng) \in Nat
  BY <1>4, <1>6, FS_Subset, FS_CardinalityType
<1>8. Cardinality(responded[j]) >= n
  BY DEF AllResponded
<1>9. Cardinality(Rng) = n /\ Rng = responded[j]
  BY <1>1, <1>4, <1>7, <1>8
<1>10. f \in Injection(1 .. n, Rng)
  BY <1>4, <1>9
<1>11. s \in 1 .. n /\ a[s] \in responded[j]
  BY <1>1, <1>9
<1>12. PICK i \in 1 .. n : a[s] = a[i] /\ <<j, i>> \in loaded[a[s]]
  BY <1>5, <1>11
<1>13. f[i] = f[s]
  BY <1>11, <1>12
<1> HIDE DEF f
<1>14. i = s
  BY <1>10, <1>11, <1>13 DEF Injection, IsInjective
<1> QED
  BY <1>12, <1>14
-----------------------------------------------------------------------------
(* What a step leaves alone stays in order.                                *)
LEMMA NodesSame ==
  ASSUME MinerInv, UNCHANGED <<node, lastEnd, drains>>
  PROVE  NodeInv'
  BY DEF MinerInv, NodeInv, NodesGood, NoIdleQueue, Good, Full

LEMMA NodeChanged ==
  ASSUME MinerInv, NEW m \in Miners, NEW st, Good(st), node' = [node EXCEPT ![m] = st],
         \A i \in Miners \ {m} : lastEnd'[i] = lastEnd[i] /\ drains'[i] = drains[i],
         lastEnd'[m] = "ok" /\ drains'[m] = 0 => Tight(st)
  PROVE  NodeInv'
<1>1. NodesGood /\ NoIdleQueue /\ node \in [Miners -> NodeRec]
  BY DEF MinerInv, NodeInv, TypeOK
<1>2. node'[m] = st /\ \A i \in Miners \ {m} : node'[i] = node[i]
  BY <1>1
<1>3. NodesGood'
  BY <1>1, <1>2 DEF NodesGood, Good
<1>4. NoIdleQueue'
  <2> SUFFICES ASSUME NEW i \in Miners, lastEnd'[i] = "ok", drains'[i] = 0, node'[i].queue # <<>>
               PROVE  Full(node'[i])
    BY DEF NoIdleQueue, Full
  <2>1. CASE i = m
    BY <1>2, <2>1 DEF Tight
  <2>2. CASE i # m
    BY <1>1, <1>2, <2>2 DEF NoIdleQueue
  <2> QED
    BY <2>1, <2>2
<1> QED
  BY <1>3, <1>4 DEF NodeInv

LEMMA PiecesSame ==
  ASSUME MinerInv, UNCHANGED <<ctxOffers, chunk, running, loaded, ran>>
  PROVE  PieceInv'
<1>1. PieceInv
  BY DEF MinerInv
<1>2. HasContext' /\ PiecesOfContexts'
  BY <1>1 DEF PieceInv, HasContext, PiecesOfContexts
<1>3. HeldUntilRun' /\ FirstRunHasPiece'
  BY <1>1 DEF PieceInv, HeldUntilRun, FirstRunHasPiece, IsPiece
<1> QED
  BY <1>2, <1>3 DEF PieceInv

\* Tasks that end take nothing away from those that go on.
LEMMA PiecesFewer ==
  ASSUME MinerInv, UNCHANGED <<ctxOffers, chunk, loaded, ran>>,
         \A m \in Miners : running'[m] \subseteq running[m]
  PROVE  PieceInv'
<1>1. PieceInv
  BY DEF MinerInv
<1>2. HasContext' /\ PiecesOfContexts'
  BY <1>1 DEF PieceInv, HasContext, PiecesOfContexts
<1>3. HeldUntilRun' /\ FirstRunHasPiece'
  BY <1>1 DEF PieceInv, HeldUntilRun, FirstRunHasPiece, IsPiece
<1> QED
  BY <1>2, <1>3 DEF PieceInv

LEMMA LoadsSame ==
  ASSUME MinerInv, UNCHANGED <<loads, responded, commits, phase, loaded>>
  PROVE  LoadInv'
<1>1. LoadInv
  BY DEF MinerInv
<1> QED
  BY <1>1 DEF LoadInv, LoadedByAssignee, AnswersAreTrue, Holds, CommitMeansLoaded, WaitedForAll

LEMMA ShapeSame == ASSUME MinerInv, UNCHANGED spec PROVE SpecShape'
  BY DEF MinerInv, SpecShape
-----------------------------------------------------------------------------
(* The sequencer's steps.                                                  *)
LEMMA StartLoadKept ==
  ASSUME MinerInv, NEW j \in Jobs, StartLoad(j)
  PROVE  MinerInv'
<1> USE DEF StartLoad, miner
<1>1. TypeOK'
  <2>1. {<<j, s>> : s \in ShardsOf(j)} \subseteq Keys
    BY ShardKey
  <2> QED
    BY <2>1 DEF MinerInv, TypeOK
<1>2. PieceInv'
  <2>1. PieceInv
    BY DEF MinerInv
  <2>2. HasContext'
    BY <2>1 DEF PieceInv, HasContext
  <2>3. PiecesOfContexts' /\ HeldUntilRun' /\ FirstRunHasPiece'
    BY <2>1 DEF PieceInv, PiecesOfContexts, HeldUntilRun, FirstRunHasPiece, IsPiece
  <2> QED
    BY <2>2, <2>3 DEF PieceInv
<1>3. LoadInv'
  <2>1. LoadInv /\ phase \in [Jobs -> {"new", "loading", "none", "all", "timeout"}]
    BY DEF MinerInv, TypeOK
  <2>2. WaitedForAll'
    BY <2>1 DEF LoadInv, WaitedForAll
  <2> QED
    BY <2>1, <2>2 DEF LoadInv, LoadedByAssignee, AnswersAreTrue, Holds, CommitMeansLoaded
<1> QED
  BY <1>1, <1>2, <1>3, NodesSame, ShapeSame DEF MinerInv

LEMMA OnLoadResultKept ==
  ASSUME MinerInv, NEW j \in Jobs, NEW m \in Miners, OnLoadResult(j, m)
  PROVE  MinerInv'
<1> USE DEF OnLoadResult, miner
<1>1. TypeOK'
  BY DEF MinerInv, TypeOK
<1>2. LoadInv'
  <2>1. LoadInv /\ responded \in [Jobs -> SUBSET Miners]
    BY DEF MinerInv, TypeOK
  <2>2. Holds(m, j)
    BY <2>1 DEF LoadInv, AnswersAreTrue
  <2>3. AnswersAreTrue'
    BY <2>1, <2>2 DEF LoadInv, AnswersAreTrue, Holds
  <2> QED
    BY <2>1, <2>3 DEF LoadInv, LoadedByAssignee, CommitMeansLoaded, WaitedForAll
<1> QED
  BY <1>1, <1>2, NodesSame, PiecesSame, ShapeSame DEF MinerInv

LEMMA EndLoadKept ==
  ASSUME MinerInv, NEW j \in Jobs, NEW how \in {"none", "all", "timeout"}, EndLoad(j, how)
  PROVE  MinerInv'
<1> USE DEF EndLoad, miner
<1>1. TypeOK'
  <2>1. TypeOK /\ 1 \in 0 .. MaxOffers
    BY MinerInputs DEF MinerInv
  <2>2. \A s \in ShardsOf(j) : <<Assigned[j][s], [key |-> <<j, s>>, re |-> FALSE]>> \in Miners \X Offer
    BY ShardKey DEF Offer
  <2>3. offers' \subseteq Miners \X Offer
    BY <2>1, <2>2 DEF TypeOK
  <2>4. commits' \subseteq Jobs \X Miners
    BY <2>1 DEF TypeOK, Respondents
  <2>5. offered' \in [Keys -> 0 .. MaxOffers]
    BY <2>1 DEF TypeOK
  <2>6. phase' \in [Jobs -> {"new", "loading", "none", "all", "timeout"}]
    BY <2>1 DEF TypeOK
  <2> QED
    BY <2>1, <2>3, <2>4, <2>5, <2>6 DEF TypeOK
<1>2. LoadInv'
  <2>1. LoadInv /\ TypeOK
    BY DEF MinerInv
  <2>2. CommitMeansLoaded'
    <3> SUFFICES ASSUME NEW c \in commits' PROVE \E k \in loaded[c[2]] : k[1] = c[1]
      BY DEF CommitMeansLoaded
    <3>1. CASE c \in commits
      BY <2>1, <3>1 DEF LoadInv, CommitMeansLoaded
    <3>2. CASE \E m \in responded[j] : c = <<j, m>>
      BY <2>1, <3>2 DEF LoadInv, AnswersAreTrue, Holds
    <3> QED
      BY <3>1, <3>2 DEF Respondents
  <2>3. WaitedForAll'
    <3> SUFFICES ASSUME NEW i \in Jobs, phase'[i] = "all", NEW s \in ShardsOf(i)
                 PROVE  <<i, s>> \in loaded[Assigned[i][s]]
      BY DEF WaitedForAll
    <3>1. CASE i = j
      <4>1. how = "all" /\ AllResponded(j)
        BY <2>1, <3>1 DEF TypeOK
      <4> QED
        BY <2>1, <3>1, <4>1, AllMeansAll DEF LoadInv
    <3>2. CASE i # j
      BY <2>1, <3>2 DEF TypeOK, LoadInv, WaitedForAll
    <3> QED
      BY <3>1, <3>2
  <2> QED
    BY <2>1, <2>2, <2>3 DEF LoadInv, LoadedByAssignee, AnswersAreTrue, Holds
<1> QED
  BY <1>1, <1>2, NodesSame, PiecesSame, ShapeSame DEF MinerInv

LEMMA RebroadcastKept ==
  ASSUME MinerInv, NEW k \in Keys, Rebroadcast(k)
  PROVE  MinerInv'
<1> USE DEF Rebroadcast, miner
<1>1. TypeOK'
  <2>1. TypeOK /\ SpecShape
    BY DEF MinerInv
  <2>2. k[1] \in Jobs /\ k[2] \in DOMAIN spec[k[1]] /\ spec[k[1]] \in Seq(Miners)
    BY <2>1, KeyFacts DEF SpecShape, ShardsOf, TypeOK
  <2>3. spec[k[1]][k[2]] \in Miners
    BY <2>2
  <2>4. <<spec[k[1]][k[2]], [key |-> k, re |-> FALSE]>> \in Miners \X Offer
    BY <2>3 DEF Offer
  <2>5. offered[k] + 1 \in 0 .. MaxOffers
    BY MinerInputs DEF CanOffer
  <2> QED
    BY <2>1, <2>4, <2>5 DEF TypeOK
<1> QED
  BY <1>1, NodesSame, PiecesSame, LoadsSame, ShapeSame DEF MinerInv

LEMMA ReassignShardKept ==
  ASSUME MinerInv, NEW k \in Keys, NEW m \in Miners, ReassignShard(k, m)
  PROVE  MinerInv'
<1> USE DEF ReassignShard, miner
<1>0. TypeOK /\ SpecShape
  BY DEF MinerInv
<1>1. k[1] \in Jobs /\ k[2] \in 1 .. Len(spec[k[1]]) /\ spec[k[1]] \in Seq(Miners)
  <2>1. k[1] \in Jobs /\ k[2] \in DOMAIN spec[k[1]] /\ spec[k[1]] \in Seq(Miners)
    BY <1>0, KeyFacts DEF SpecShape, ShardsOf, TypeOK
  <2> QED
    BY <2>1
<1>2. /\ [spec[k[1]] EXCEPT ![k[2]] = m] \in Seq(Miners)
      /\ DOMAIN [spec[k[1]] EXCEPT ![k[2]] = m] = DOMAIN spec[k[1]]
  BY <1>1, ExceptSeq
<1>3. spec' = [spec EXCEPT ![k[1]] = [spec[k[1]] EXCEPT ![k[2]] = m]]
  OBVIOUS
<1>4. spec' \in [Jobs -> Seq(Miners)] /\ SpecShape'
  BY <1>0, <1>1, <1>2, <1>3 DEF TypeOK, SpecShape
<1>5. TypeOK'
  <2>1. <<m, [key |-> k, re |-> TRUE]>> \in Miners \X Offer
    BY DEF Offer
  <2>2. offered[k] + 1 \in 0 .. MaxOffers
    BY MinerInputs DEF CanOffer
  <2> QED
    BY <1>0, <1>4, <2>1, <2>2 DEF TypeOK
<1> QED
  BY <1>4, <1>5, NodesSame, PiecesSame, LoadsSame DEF MinerInv
-----------------------------------------------------------------------------
(* The miners' steps.                                                      *)
LEMMA OnContextOfferKept ==
  ASSUME MinerInv, NEW m \in Miners, NEW k \in Keys, OnContextOffer(m, k)
  PROVE  MinerInv'
<1> USE DEF OnContextOffer, sequencer
<1>0. TypeOK /\ PieceInv /\ LoadInv
  BY DEF MinerInv
<1>1. k[1] \in Jobs /\ k[2] \in ShardsOf(k[1]) /\ Piece(k[1], k[2]) \in Pieces
  BY KeyFacts
<1>2. /\ \A i \in Miners, j \in Jobs :
            chunk'[i][j] = IF i = m /\ j = k[1] THEN Piece(k[1], k[2]) ELSE chunk[i][j]
      /\ \A i \in Miners : loaded'[i] = IF i = m THEN loaded[i] \cup {k} ELSE loaded[i]
  BY <1>0 DEF TypeOK
<1>3. TypeOK'
  <2>1. chunk' \in [Miners -> [Jobs -> Pieces \cup {NoPiece}]]
    BY <1>0, <1>1 DEF TypeOK
  <2> QED
    BY <1>0, <1>1, <2>1 DEF TypeOK
<1>4. PieceInv'
  <2>1. HasContext' /\ Context[k[1]] # NoContext
    BY <1>0 DEF PieceInv, HasContext
  <2>2. PiecesOfContexts'
    BY <1>0, <1>2, <2>1 DEF PieceInv, PiecesOfContexts
  <2>3. HeldUntilRun'
    <3> SUFFICES ASSUME NEW i \in Miners, NEW j \in Jobs, NEW l \in loaded'[i], l[1] = j,
                        \A r \in ran[i] : r[1] # j
                 PROVE  \E p \in loaded'[i] : p[1] = j /\ chunk'[i][j] = Piece(j, p[2])
      BY DEF HeldUntilRun, IsPiece
    <3>1. CASE i = m /\ j = k[1]
      BY <1>2, <3>1 DEF IsPiece
    <3>2. CASE ~ (i = m /\ j = k[1])
      <4>1. l \in loaded[i] /\ chunk'[i][j] = chunk[i][j]
        BY <1>2, <3>2
      <4>2. IsPiece(i, j, chunk[i][j])
        BY <1>0, <4>1 DEF PieceInv, HeldUntilRun
      <4> QED
        BY <1>2, <4>1, <4>2 DEF IsPiece
    <3> QED
      BY <3>1, <3>2
  <2>4. FirstRunHasPiece'
    BY <1>0, <1>2 DEF PieceInv, FirstRunHasPiece, IsPiece
  <2> QED
    BY <2>1, <2>2, <2>3, <2>4 DEF PieceInv
<1>5. LoadInv'
  <2>1. LoadedByAssignee'
    BY <1>0, <1>2 DEF LoadInv, LoadedByAssignee
  <2>2. \A i \in Miners, j \in Jobs : Holds(i, j) => Holds(i, j)'
    BY <1>2 DEF Holds
  <2>3. AnswersAreTrue'
    <3>1. Holds(m, k[1])'
      BY <1>2 DEF Holds
    <3> QED
      BY <1>0, <2>2, <3>1 DEF LoadInv, AnswersAreTrue, TypeOK
  <2>4. CommitMeansLoaded'
    <3> SUFFICES ASSUME NEW c \in commits PROVE \E l \in loaded'[c[2]] : l[1] = c[1]
      BY DEF CommitMeansLoaded
    <3>1. c[1] \in Jobs /\ c[2] \in Miners /\ \E l \in loaded[c[2]] : l[1] = c[1]
      BY <1>0 DEF TypeOK, LoadInv, CommitMeansLoaded
    <3> QED
      BY <1>2, <3>1
  <2>5. WaitedForAll'
    <3> SUFFICES ASSUME NEW j \in Jobs, phase[j] = "all", NEW s \in ShardsOf(j)
                 PROVE  <<j, s>> \in loaded'[Assigned[j][s]]
      BY DEF WaitedForAll
    <3>1. <<j, s>> \in loaded[Assigned[j][s]] /\ Assigned[j][s] \in Miners
      BY <1>0, ShardKey DEF LoadInv, WaitedForAll
    <3> QED
      BY <1>2, <3>1
  <2> QED
    BY <2>1, <2>3, <2>4, <2>5 DEF LoadInv
<1> QED
  BY <1>3, <1>4, <1>5, NodesSame, ShapeSame DEF MinerInv

LEMMA OnShardOfferKept ==
  ASSUME MinerInv, NEW m \in Miners, NEW o \in Offer, OnShardOffer(m, o)
  PROVE  MinerInv'
<1> USE DEF OnShardOffer, sequencer
<1>0. TypeOK /\ Good(node[m]) /\ NoIdleQueue
  BY DEF MinerInv, NodeInv, NodesGood
<1> DEFINE new == Admitted(m, node[m], o)
<1>1. Good(new) /\ (Tight(node[m]) => Tight(new))
  BY <1>0, AdmittedGood
<1>2. new \in NodeRec
  BY <1>1 DEF Good
<1>3. node' = [node EXCEPT ![m] = new]
  OBVIOUS
<1> HIDE DEF new
<1>4. TypeOK'
  BY <1>0, <1>2, <1>3 DEF TypeOK
<1>5. lastEnd'[m] = "ok" /\ drains'[m] = 0 => Tight(new)
  BY <1>0, <1>1 DEF NoIdleQueue, Tight
<1>6. NodeInv'
  BY <1>1, <1>3, <1>5, NodeChanged
<1> QED
  BY <1>4, <1>6, PiecesSame, LoadsSame, ShapeSame DEF MinerInv

LEMMA DrainKept ==
  ASSUME MinerInv, NEW m \in Miners, Drain(m)
  PROVE  MinerInv'
<1> USE DEF Drain, sequencer, network
<1>0. TypeOK /\ Good(node[m])
  BY DEF MinerInv, NodeInv, NodesGood
<1>1. Good(Drained(m)) /\ Tight(Drained(m)) /\ Drained(m) \in NodeRec
  BY <1>0, DrainedGood DEF Good
<1>2. TypeOK'
  BY <1>0, <1>1 DEF TypeOK
<1>3. \A i \in Miners \ {m} : lastEnd'[i] = lastEnd[i] /\ drains'[i] = drains[i]
  BY <1>0 DEF TypeOK
<1>4. NodeInv'
  BY <1>1, <1>3, NodeChanged
<1> QED
  BY <1>2, <1>4, PiecesSame, LoadsSame, ShapeSame DEF MinerInv

LEMMA StartRunKept ==
  ASSUME MinerInv, NEW m \in Miners, NEW o \in Offer, StartRun(m, o)
  PROVE  MinerInv'
<1>0. TypeOK /\ PieceInv /\ o.key \in Keys /\ Job(o) \in Jobs /\ Job(o) = o.key[1]
  BY OfferFacts DEF MinerInv, Job
<1> DEFINE had == o.key \in loaded[m]
           first == \A k \in ran[m] : k[1] # Job(o)
<1>1. had \in BOOLEAN /\ first \in BOOLEAN
  OBVIOUS
<1>2. PICK run : run = [offer |-> o, piece |-> chunk[m][Job(o)], had |-> had, first |-> first]
  OBVIOUS
<1>3. /\ running' = [running EXCEPT ![m] = @ \cup {run}]
      /\ ran' = [ran EXCEPT ![m] = @ \cup {o.key}]
      /\ chunk' = [chunk EXCEPT ![m] = [chunk[m] EXCEPT ![Job(o)] = NoPiece]]
      /\ UNCHANGED <<sequencer, network, node, cached, drains, loaded, lastEnd>>
  BY <1>2 DEF StartRun, Popped
<1>4. /\ run.offer = o /\ run.piece = chunk[m][Job(o)]
      /\ run.had => o.key \in loaded[m]
      /\ run.first => \A k \in ran[m] : k[1] # Job(o)
  BY <1>2
<1>5. run \in RunRec
  <2> HIDE DEF had, first
  <2>1. chunk[m][Job(o)] \in Pieces \cup {NoPiece}
    BY <1>0 DEF TypeOK
  <2> QED
    BY <1>1, <1>2, <2>1 DEF RunRec
<1> HIDE DEF had, first
<1>6. /\ running \in [Miners -> SUBSET RunRec] /\ ran \in [Miners -> SUBSET Keys]
      /\ chunk \in [Miners -> [Jobs -> Pieces \cup {NoPiece}]]
  BY <1>0 DEF TypeOK
<1>8. TypeOK'
  <2>1. running' \in [Miners -> SUBSET RunRec] /\ ran' \in [Miners -> SUBSET Keys]
    BY <1>0, <1>3, <1>5, <1>6
  <2>2. [chunk[m] EXCEPT ![Job(o)] = NoPiece] \in [Jobs -> Pieces \cup {NoPiece}]
    BY <1>0, <1>6
  <2>3. chunk' \in [Miners -> [Jobs -> Pieces \cup {NoPiece}]]
    BY <1>3, <1>6, <2>2
  <2> QED
    BY <1>0, <1>3, <2>1, <2>3 DEF TypeOK, sequencer, network
<1>9. /\ \A i \in Miners : running'[i] = IF i = m THEN running[i] \cup {run} ELSE running[i]
      /\ \A i \in Miners : ran'[i] = IF i = m THEN ran[i] \cup {o.key} ELSE ran[i]
      /\ \A i \in Miners, c \in Jobs :
            chunk'[i][c] = IF i = m /\ c = Job(o) THEN NoPiece ELSE chunk[i][c]
  BY <1>0, <1>3, <1>6
<1>7. PieceInv'
  <2>1. HasContext'
    BY <1>0, <1>3 DEF PieceInv, HasContext, network
  <2>2. PiecesOfContexts'
    <3>1. \A i \in Miners, c \in Jobs : chunk'[i][c] # NoPiece => Context[c] # NoContext
      BY <1>0, <1>9 DEF PieceInv, PiecesOfContexts
    <3>2. run.piece # NoPiece => Context[Job(run.offer)] # NoContext
      BY <1>0, <1>4 DEF PieceInv, PiecesOfContexts
    <3>3. ASSUME NEW i \in Miners, NEW r \in running'[i], r.piece # NoPiece
          PROVE  Context[Job(r.offer)] # NoContext
      <4>1. r = run \/ r \in running[i]
        BY <1>9
      <4> QED
        BY <1>0, <3>2, <3>3, <4>1 DEF PieceInv, PiecesOfContexts
    <3> QED
      BY <3>1, <3>3 DEF PiecesOfContexts
  <2>3. HeldUntilRun'
    <3> SUFFICES ASSUME NEW i \in Miners, NEW c \in Jobs, NEW l \in loaded[i], l[1] = c,
                        \A r \in ran'[i] : r[1] # c
                 PROVE  \E p \in loaded[i] : p[1] = c /\ chunk'[i][c] = Piece(c, p[2])
      BY <1>3 DEF HeldUntilRun, IsPiece
    <3>1. ~ (i = m /\ c = Job(o))
      BY <1>0, <1>9
    <3>2. chunk'[i][c] = chunk[i][c] /\ \A r \in ran[i] : r[1] # c
      BY <1>9, <3>1
    <3> QED
      BY <1>0, <3>2 DEF PieceInv, HeldUntilRun, IsPiece
  <2>4. FirstRunHasPiece'
    <3> SUFFICES ASSUME NEW i \in Miners, NEW r \in running'[i], r.first, r.had
                 PROVE  \E p \in loaded[i] : p[1] = Job(r.offer) /\ r.piece = Piece(Job(r.offer), p[2])
      BY <1>3 DEF FirstRunHasPiece, IsPiece
    <3>1. CASE r \in running[i]
      BY <1>0, <3>1 DEF PieceInv, FirstRunHasPiece, IsPiece
    <3>2. CASE i = m /\ r = run
      <4>1. o.key \in loaded[m] /\ \A k \in ran[m] : k[1] # Job(o)
        BY <1>4, <3>2
      <4>2. IsPiece(m, Job(o), chunk[m][Job(o)])
        BY <1>0, <4>1 DEF PieceInv, HeldUntilRun
      <4> QED
        BY <1>4, <3>2, <4>2 DEF IsPiece
    <3> QED
      BY <1>9, <3>1, <3>2
  <2> QED
    BY <2>1, <2>2, <2>3, <2>4 DEF PieceInv
<1> QED
  BY <1>3, <1>8, <1>7, NodesSame, LoadsSame, ShapeSame DEF MinerInv, sequencer, network

(* A task that ends leaves a node that mines if it has nothing else to do. *)
WithoutTask(m, o) ==
    [node[m] EXCEPT !.active = @ \ {o}, !.mining = @ \/ node[m].active \ {o} = {}]

LEMMA EndedFacts ==
  ASSUME MinerInv, NEW m \in Miners, NEW o \in Offer, NEW how \in {"ok", "worker", "failed"},
         Ended(m, o, how)
  PROVE  /\ node' \in [Miners -> NodeRec] /\ running' \in [Miners -> SUBSET RunRec]
         /\ lastEnd' \in [Miners -> {"ok", "worker", "failed"}]
         /\ \A i \in Miners : running'[i] \subseteq running[i]
         /\ Good(WithoutTask(m, o)) /\ node' = [node EXCEPT ![m] = WithoutTask(m, o)]
         /\ lastEnd'[m] = how /\ \A i \in Miners \ {m} : lastEnd'[i] = lastEnd[i]
<1>0. TypeOK /\ Good(node[m]) /\ node[m] \in NodeRec
  BY DEF MinerInv, NodeInv, NodesGood, Good
<1> DEFINE rest == node[m].active \ {o}
           new  == WithoutTask(m, o)
<1>1. /\ new \in NodeRec /\ new.active = rest /\ new.queue = node[m].queue
      /\ new.mining <=> node[m].mining \/ rest = {}
  BY <1>0 DEF NodeRec, WithoutTask
<1>2. IsFiniteSet(rest) /\ Cardinality(rest) <= MaxShards
  <2>1. /\ IsFiniteSet(rest) /\ Cardinality(rest) <= Cardinality(node[m].active)
        /\ Cardinality(rest) \in Nat /\ Cardinality(node[m].active) \in Nat
        /\ Cardinality(node[m].active) <= MaxShards /\ MaxShards \in Nat
    BY <1>0, FS_Subset, FS_CardinalityType, MinerInputs DEF Good
  <2> QED
    BY <2>1
<1>3. Good(new)
  BY <1>0, <1>1, <1>2 DEF Good
<1>4. node' = [node EXCEPT ![m] = new]
  BY <1>0 DEF Ended, Resumes, WithoutTask, TypeOK, NodeRec
<1> HIDE DEF new
<1>5. /\ node' \in [Miners -> NodeRec] /\ running' \in [Miners -> SUBSET RunRec]
      /\ lastEnd' \in [Miners -> {"ok", "worker", "failed"}]
      /\ \A i \in Miners : running'[i] \subseteq running[i]
      /\ lastEnd'[m] = how /\ \A i \in Miners \ {m} : lastEnd'[i] = lastEnd[i]
  <2>1. node' \in [Miners -> NodeRec]
    BY <1>0, <1>1, <1>4 DEF TypeOK
  <2>2. running' = [running EXCEPT ![m] = {r \in @ : r.offer # o}] /\ lastEnd' = [lastEnd EXCEPT ![m] = how]
    BY DEF Ended
  <2>3. running \in [Miners -> SUBSET RunRec] /\ lastEnd \in [Miners -> {"ok", "worker", "failed"}]
    BY <1>0 DEF TypeOK
  <2>4. \A i \in Miners : running'[i] \subseteq running[i]
    BY <2>2, <2>3
  <2>5. running' \in [Miners -> SUBSET RunRec]
    BY <2>2, <2>3
  <2> QED
    BY <2>1, <2>2, <2>3, <2>4, <2>5
<1> QED
  BY <1>3, <1>4, <1>5 DEF new

LEMMA CompletesKept ==
  ASSUME MinerInv, NEW m \in Miners, NEW o \in Offer, Completes(m, o)
  PROVE  MinerInv'
<1> USE DEF Completes, sequencer
<1>0. TypeOK /\ PieceInv /\ o.key \in Keys /\ Job(o) \in Jobs
  BY OfferFacts DEF MinerInv
<1>1. /\ node' \in [Miners -> NodeRec] /\ running' \in [Miners -> SUBSET RunRec]
      /\ lastEnd' \in [Miners -> {"ok", "worker", "failed"}]
      /\ \A i \in Miners : running'[i] \subseteq running[i]
      /\ Good(WithoutTask(m, o)) /\ node' = [node EXCEPT ![m] = WithoutTask(m, o)]
      /\ \A i \in Miners \ {m} : lastEnd'[i] = lastEnd[i]
  BY EndedFacts
<1>2. drains' \in [Miners -> Nat] /\ drains'[m] # 0 /\ \A i \in Miners \ {m} : drains'[i] = drains[i]
  BY <1>0 DEF TypeOK
<1>3. cached' \in [Miners -> SUBSET Contexts]
  <2>1. PICK files \in CachedAfter(m, o) : cached' = [cached EXCEPT ![m] = files]
    OBVIOUS
  <2>2. cached[m] \subseteq Contexts
    BY <1>0 DEF TypeOK
  <2>3. CASE files # cached[m]
    <3>1. PICK r \in running[m] : r.offer = o /\ r.piece # NoPiece
      BY <2>1, <2>3 DEF CachedAfter
    <3>2. Context[Job(o)] # NoContext
      BY <1>0, <3>1 DEF PieceInv, PiecesOfContexts
    <3>3. files = cached[m] \cup {Context[Job(o)]}
      BY <2>1, <2>3 DEF CachedAfter
    <3>4. files \subseteq Contexts
      BY <1>0, <2>2, <3>2, <3>3 DEF Contexts
    <3> QED
      BY <1>0, <2>1, <3>4 DEF TypeOK
  <2>4. CASE files = cached[m]
    BY <1>0, <2>1, <2>2, <2>4 DEF TypeOK
  <2> QED
    BY <2>3, <2>4
<1>4. TypeOK'
  BY <1>0, <1>1, <1>2, <1>3 DEF TypeOK
<1>5. NodeInv'
  BY <1>1, <1>2, NodeChanged
<1>6. PieceInv'
  BY <1>1, PiecesFewer
<1> QED
  BY <1>4, <1>5, <1>6, LoadsSame, ShapeSame DEF MinerInv

LEMMA OtherEndsKept ==
  ASSUME MinerInv, NEW m \in Miners, NEW o \in Offer, WorkerAnswers(m, o) \/ Fails(m, o)
  PROVE  MinerInv'
<1>0. TypeOK /\ o.key \in Keys
  BY OfferFacts DEF MinerInv
<1>1. PICK how \in {"worker", "failed"} : Ended(m, o, how)
  BY DEF WorkerAnswers, Fails
<1>2. UNCHANGED <<sequencer, ctxOffers, loads, offers, chunk, cached, drains, loaded, ran>>
      /\ (answers' = answers \/ answers' = answers \cup {o.key})
  BY DEF WorkerAnswers, Fails, network
<1>3. /\ node' \in [Miners -> NodeRec] /\ running' \in [Miners -> SUBSET RunRec]
      /\ lastEnd' \in [Miners -> {"ok", "worker", "failed"}]
      /\ \A i \in Miners : running'[i] \subseteq running[i]
      /\ Good(WithoutTask(m, o)) /\ node' = [node EXCEPT ![m] = WithoutTask(m, o)]
      /\ lastEnd'[m] = how /\ \A i \in Miners \ {m} : lastEnd'[i] = lastEnd[i]
  BY <1>1, EndedFacts
<1>4. TypeOK'
  BY <1>0, <1>2, <1>3 DEF TypeOK, sequencer
<1>5. NodeInv'
  BY <1>2, <1>3, NodeChanged
<1>6. PieceInv'
  BY <1>2, <1>3, PiecesFewer
<1>7. LoadInv' /\ SpecShape'
  BY <1>2, LoadsSame, ShapeSame DEF sequencer
<1> QED
  BY <1>4, <1>5, <1>6, <1>7 DEF MinerInv

LEMMA ExpireKept ==
  ASSUME MinerInv, NEW m \in Miners, NEW c, Expire(m, c)
  PROVE  MinerInv'
<1>1. UNCHANGED <<sequencer, network, node, chunk, running, drains, loaded, ran, lastEnd>>
  BY DEF Expire
<1>2. cached' \in [Miners -> SUBSET Contexts]
  <2>1. cached \in [Miners -> SUBSET Contexts]
    BY DEF MinerInv, TypeOK
  <2>2. cached' = [cached EXCEPT ![m] = @ \ {c}]
    BY DEF Expire
  <2> QED
    BY <2>1, <2>2
<1>3. TypeOK'
  BY <1>1, <1>2 DEF MinerInv, TypeOK, sequencer, network
<1> QED
  BY <1>1, <1>3, NodesSame, PiecesSame, LoadsSame, ShapeSame DEF MinerInv, sequencer, network
-----------------------------------------------------------------------------
LEMMA MinerStart == Init => MinerInv
<1> SUFFICES ASSUME Init PROVE MinerInv
  OBVIOUS
<1>1. IdleNode \in NodeRec /\ Good(IdleNode) /\ IdleNode.queue = <<>>
  <2>1. <<>> \in Seq(Offer)
    OBVIOUS
  <2>2. IdleNode \in NodeRec /\ IdleNode.active = {} /\ IdleNode.mining = TRUE /\ IdleNode.queue = <<>>
    BY <2>1 DEF IdleNode, NodeRec
  <2>3. IsFiniteSet({}) /\ Cardinality({}) <= MaxShards
    BY FS_EmptySet, MinerInputs
  <2> QED
    BY <2>2, <2>3 DEF Good
<1>2. TypeOK
  BY <1>1, MinerInputs DEF Init, TypeOK
<1>3. NodeInv
  BY <1>1 DEF Init, NodeInv, NodesGood, NoIdleQueue
<1>4. PieceInv
  BY DEF Init, PieceInv, HasContext, PiecesOfContexts, HeldUntilRun, FirstRunHasPiece
<1>5. LoadInv
  BY DEF Init, LoadInv, LoadedByAssignee, AnswersAreTrue, CommitMeansLoaded, WaitedForAll
<1>6. SpecShape
  BY DEF Init, SpecShape
<1> QED
  BY <1>2, <1>3, <1>4, <1>5, <1>6 DEF MinerInv

LEMMA MinerStep == MinerInv /\ [Next]_vars => MinerInv'
<1> SUFFICES ASSUME MinerInv, [Next]_vars PROVE MinerInv'
  OBVIOUS
<1>1. CASE Sequencer
  <2>1. ASSUME NEW j \in Jobs, StartLoad(j) PROVE MinerInv'
    BY <2>1, StartLoadKept
  <2>2. ASSUME NEW j \in Jobs, NEW how \in {"none", "all", "timeout"}, EndLoad(j, how)
        PROVE  MinerInv'
    BY <2>2, EndLoadKept
  <2>3. ASSUME NEW j \in Jobs, NEW m \in Miners, OnLoadResult(j, m) PROVE MinerInv'
    BY <2>3, OnLoadResultKept
  <2>4. ASSUME NEW k \in Keys, Rebroadcast(k) PROVE MinerInv'
    BY <2>4, RebroadcastKept
  <2>5. ASSUME NEW k \in Keys, NEW m \in Miners, ReassignShard(k, m) PROVE MinerInv'
    BY <2>5, ReassignShardKept
  <2> QED
    BY <1>1, <2>1, <2>2, <2>3, <2>4, <2>5 DEF Sequencer
<1>2. ASSUME NEW m \in Miners, Miner(m) PROVE MinerInv'
  <2>1. ASSUME NEW k \in Keys, OnContextOffer(m, k) PROVE MinerInv'
    BY <2>1, OnContextOfferKept
  <2>2. ASSUME NEW o \in Offer, OnShardOffer(m, o) PROVE MinerInv'
    BY <2>2, OnShardOfferKept
  <2>3. ASSUME NEW o \in Offer, StartRun(m, o) PROVE MinerInv'
    BY <2>3, StartRunKept
  <2>4. ASSUME NEW o \in Offer, Completes(m, o) PROVE MinerInv'
    BY <2>4, CompletesKept
  <2>5. ASSUME NEW o \in Offer, WorkerAnswers(m, o) \/ Fails(m, o) PROVE MinerInv'
    BY <2>5, OtherEndsKept
  <2>6. ASSUME Drain(m) PROVE MinerInv'
    BY <2>6, DrainKept
  <2>7. ASSUME NEW c, Expire(m, c) PROVE MinerInv'
    BY <2>7, ExpireKept
  <2> QED
    BY <1>2, <2>1, <2>2, <2>3, <2>4, <2>5, <2>6, <2>7 DEF Miner
<1>3. CASE UNCHANGED vars
  <2>1. UNCHANGED <<sequencer, network, miner>>
    BY <1>3 DEF vars
  <2>2. TypeOK'
    BY <2>1 DEF MinerInv, TypeOK, sequencer, network, miner
  <2> QED
    BY <2>1, <2>2, NodesSame, PiecesSame, LoadsSame, ShapeSame DEF MinerInv, sequencer, network, miner
<1> QED
  BY <1>1, <1>2, <1>3 DEF Next

(* The inductive invariant holds throughout.                               *)
THEOREM MinerInvariant == Spec => []MinerInv
<1>1. Init => MinerInv
  BY MinerStart
<1>2. MinerInv /\ [Next]_vars => MinerInv'
  BY MinerStep
<1> QED
  BY <1>1, <1>2, PTL DEF Spec

(* A miner keeps to its capacity, never runs a shard twice at a time, and  *)
(* mines MINE exactly when it has nothing else to do.                      *)
THEOREM MinersConsistent == Spec => []MinerIsConsistent
<1>1. MinerInv => MinerIsConsistent
  BY DEF MinerInv, NodeInv, NodesGood, Good, MinerIsConsistent, CapacityKept, MiningYields
<1> QED
  BY <1>1, MinerInvariant, PTL

(* The piece of the context a miner confirmed is the one it generates with. *)
THEOREM ConfirmedPiecesUsed == Spec => []ConfirmedPieceIsUsed
<1>1. MinerInv => ConfirmedPieceIsUsed
  <2> SUFFICES ASSUME MinerInv, NEW m \in Miners, NEW r \in running[m],
                      r.first, r.had, OnlyPiece(m, r.offer.key)
               PROVE  r.piece = Piece(r.offer.key[1], r.offer.key[2])
    BY DEF ConfirmedPieceIsUsed
  <2>1. PICK l \in loaded[m] : l[1] = Job(r.offer) /\ r.piece = Piece(Job(r.offer), l[2])
    BY DEF MinerInv, PieceInv, FirstRunHasPiece, IsPiece
  <2>2. l = r.offer.key
    BY <2>1 DEF OnlyPiece, Job
  <2> QED
    BY <2>1, <2>2 DEF Job
<1> QED
  BY <1>1, MinerInvariant, PTL

(* Commitments name miners that loaded, and an early end of the wait means *)
(* every shard's miner had.                                                *)
THEOREM WaitIsTruthful == Spec => []WaitIsHonest
<1>1. MinerInv => WaitIsHonest
  BY DEF MinerInv, LoadInv, WaitIsHonest
<1> QED
  BY <1>1, MinerInvariant, PTL

(* No offer is left waiting for a miner that has room.                     *)
THEOREM QueuesDrained == Spec => []NoIdleQueue
<1>1. MinerInv => NoIdleQueue
  BY DEF MinerInv, NodeInv
<1> QED
  BY <1>1, MinerInvariant, PTL
-----------------------------------------------------------------------------
(* The overlay and the memory.                                             *)
OnWire(e, w) == \E i \in 1 .. Len(wire[w]) : wire[w][i] = e
Published(e) == \E n \in Nodes : e \in seen[n]

(* Handlers were given what a node has seen, once.                         *)
Counted == \A n \in Nodes, e \in Envelopes : delivered[n][e] = IF e \in seen[n] THEN 1 ELSE 0

(* Entries are of sockets that were opened; while none broke, every open   *)
(* link has one.                                                           *)
Registered ==
    /\ \A l \in Links : reg[l] # 0 => socket[l][reg[l]] # "none"
    /\ breaks = 0 =>
          \A l \in Links, k \in Sockets :
             /\ socket[l][k] \in {"none", "open"}
             /\ socket[l][k] = "open" => reg[l] # 0

(* While no socket broke, an envelope is seen by, or on its way to, every  *)
(* node its origin had a socket to.                                        *)
Reaches(e, n) == e \in seen[n] \/ \E w \in Wires : Receiver(w) = n /\ OnWire(e, w)
Reached == breaks = 0 => \A e \in Envelopes : \A n \in audience[e] : Reaches(e, n)

(* What is on the wires or handled was broadcast by somebody.              *)
Genuine ==
    /\ \A w \in Wires, e \in Envelopes : OnWire(e, w) => Published(e)
    /\ \A t \in Tasks : task[t] # NoEnvelope => Published(task[t])

NetInv ==
    /\ OverlayTypeOK /\ audience \in [Envelopes -> SUBSET Nodes]
    /\ Counted /\ Registered /\ Reached /\ Genuine

(* Handlers run for an envelope their node subscribes to.                  *)
Awaited ==
    \A t \in Tasks : stage[t] > 0 => task[t] \in Envelopes /\ Subscribes(At(t), task[t])

(* A row without a vector has a handler that is about to store one.        *)
BeingStored ==
    \A n \in Nodes, j \in ThoughtJobs :
        thoughts[n][j].by # NoMiner /\ thoughts[n][j].emb = NoMiner
          => \E t \in Tasks : /\ At(t) = n /\ stage[t] = 1
                              /\ task[t].topic = "thought" /\ task[t].ref = j

(* Before a rollup is sent, or stored by a miner, the sequencer has it.    *)
RollupStored ==
    rollup.phase \in {"stored", "sent"} \/ Published(RollupMsg) \/ (\E m \in MinerNodes : rolled[m] # "none")
       => rolled[Seq0] # "none"

(* A challenge was asked, a run was of a challenge, a response is of a     *)
(* run, and an answered benchmark has one by the miner it was asked of.    *)
Asked(b, m) == bench[b].phase # "idle" /\ bench[b].miner = m
Measured ==
    /\ \A b \in Benchmarks, m \in MinerNodes :
          /\ Published(Challenge(b, m)) \/ <<b, m>> \in inferred => Asked(b, m)
          /\ Published(Response(b, m)) => <<b, m>> \in inferred
    /\ \A t \in Tasks : stage[t] = 1 /\ task[t].topic = "challenge" => <<task[t].ref, At(t)>> \in inferred
    /\ \A b \in Benchmarks :
          bench[b].phase \in {"answered", "committed"} => <<b, bench[b].miner>> \in inferred

MemInv == MemoryTypeOK /\ Awaited /\ BeingStored /\ RollupStored /\ Measured /\ ScoreMeasured
MemoryInv == NetInv /\ MemInv
-----------------------------------------------------------------------------
LEMMA AtNode ==
  /\ \A w \in Wires : Receiver(w) \in Nodes /\ w[1] \in Links /\ w[2] \in Sockets
  /\ \A t \in Tasks : At(t) \in Nodes
  /\ \A n \in Nodes : Local(n) \in Tasks
<1>1. ASSUME NEW w \in Wires PROVE Receiver(w) \in Nodes /\ w[1] \in Links /\ w[2] \in Sockets
  BY LinksAssumption DEF Wires, Receiver
<1>2. ASSUME NEW t \in Tasks PROVE At(t) \in Nodes
  BY <1>1 DEF Tasks, At, Local
<1> QED
  BY <1>1, <1>2 DEF Tasks

LEMMA EnvelopeFacts ==
  /\ \A e \in Envelopes :
        /\ e.topic = "thought" => e.from \in MinerNodes /\ e.ref \in ThoughtJobs
        /\ e.topic = "rollup" => e = RollupMsg
        /\ e.topic = "challenge" =>
              e.ref \in Benchmarks /\ e.from \in MinerNodes /\ e = Challenge(e.ref, e.from)
        /\ e.topic = "response" =>
              e.ref \in Benchmarks /\ e.from \in MinerNodes /\ e = Response(e.ref, e.from)
  /\ RollupMsg \in Envelopes
  /\ \A b \in Benchmarks, m \in MinerNodes : Challenge(b, m) \in Envelopes /\ Response(b, m) \in Envelopes
  /\ \A m, j : <<m, j>> \in Thinkers => Thought(m, j) \in Envelopes
<1>1. ASSUME NEW m, NEW j, <<m, j>> \in Thinkers
      PROVE  Thought(m, j) \in Envelopes /\ m \in MinerNodes /\ j \in ThoughtJobs
  <2>1. Thought(m, j) \in AllEnvelopes
    BY <1>1 DEF AllEnvelopes
  <2> QED
    BY <1>1, <2>1, MemoryInputs
<1>2. ASSUME NEW t \in Thinkers PROVE t[1] \in MinerNodes /\ t[2] \in ThoughtJobs
  BY MemoryInputs
<1>3. ASSUME NEW e \in Envelopes
      PROVE  /\ e.topic = "thought" => e.from \in MinerNodes /\ e.ref \in ThoughtJobs
             /\ e.topic = "rollup" => e = RollupMsg
             /\ e.topic = "challenge" =>
                   e.ref \in Benchmarks /\ e.from \in MinerNodes /\ e = Challenge(e.ref, e.from)
             /\ e.topic = "response" =>
                   e.ref \in Benchmarks /\ e.from \in MinerNodes /\ e = Response(e.ref, e.from)
  <2>1. \/ \E t \in Thinkers : e = Thought(t[1], t[2])
        \/ e = RollupMsg
        \/ \E b \in Benchmarks, m \in MinerNodes : e = Challenge(b, m)
        \/ \E b \in Benchmarks, m \in MinerNodes : e = Response(b, m)
    BY MemoryInputs DEF AllEnvelopes
  <2>2. CASE \E t \in Thinkers : e = Thought(t[1], t[2])
    BY <1>2, <2>2 DEF Thought
  <2>3. CASE e = RollupMsg
    BY <2>3 DEF RollupMsg
  <2>4. CASE \E b \in Benchmarks, m \in MinerNodes : e = Challenge(b, m)
    BY <2>4 DEF Challenge
  <2>5. CASE \E b \in Benchmarks, m \in MinerNodes : e = Response(b, m)
    BY <2>5 DEF Response
  <2> QED
    BY <2>1, <2>2, <2>3, <2>4, <2>5
<1>4. /\ RollupMsg \in Envelopes
      /\ \A b \in Benchmarks, m \in MinerNodes : Challenge(b, m) \in Envelopes /\ Response(b, m) \in Envelopes
  BY MemoryInputs DEF AllEnvelopes
<1> QED
  BY <1>1, <1>3, <1>4

(* What an append, a removal and a cut do to the envelopes on a wire.      *)
LEMMA SentFacts ==
  ASSUME wire \in [Wires -> Seq(Envelopes)], NEW e \in Envelopes, NEW targets,
         wire' = Sent(wire, e, targets)
  PROVE  /\ wire' \in [Wires -> Seq(Envelopes)]
         /\ \A f, w : w \in Wires => (OnWire(f, w)' <=> OnWire(f, w) \/ (f = e /\ w \in targets))
<1>1. ASSUME NEW w \in Wires
      PROVE  /\ wire'[w] \in Seq(Envelopes)
             /\ \A f : OnWire(f, w)' <=> OnWire(f, w) \/ (f = e /\ w \in targets)
  <2>1. wire[w] \in Seq(Envelopes)
    OBVIOUS
  <2>2. CASE w \in targets
    <3>1. wire'[w] = Append(wire[w], e)
      BY <2>2 DEF Sent
    <3>2. /\ Len(wire'[w]) = Len(wire[w]) + 1 /\ Len(wire[w]) \in Nat
          /\ wire'[w][Len(wire[w]) + 1] = e
          /\ \A i \in 1 .. Len(wire[w]) : wire'[w][i] = wire[w][i]
      BY <2>1, <3>1
    <3>3. wire'[w] \in Seq(Envelopes)
      BY <2>1, <3>1
    <3> QED
      BY <2>2, <3>2, <3>3 DEF OnWire
  <2>3. CASE w \notin targets
    BY <2>1, <2>3 DEF Sent, OnWire
  <2> QED
    BY <2>2, <2>3
<1>2. wire' \in [Wires -> Seq(Envelopes)]
  BY <1>1 DEF Sent
<1> QED
  BY <1>1, <1>2

LEMMA TailFacts ==
  ASSUME wire \in [Wires -> Seq(Envelopes)], NEW w \in Wires, wire[w] # <<>>,
         wire' = [wire EXCEPT ![w] = Tail(@)]
  PROVE  /\ wire' \in [Wires -> Seq(Envelopes)]
         /\ Head(wire[w]) \in Envelopes /\ OnWire(Head(wire[w]), w)
         /\ \A f, v : v \in Wires /\ OnWire(f, v)' => OnWire(f, v)
         /\ \A f, v : v \in Wires /\ OnWire(f, v) => OnWire(f, v)' \/ (v = w /\ f = Head(wire[w]))
<1> DEFINE s == wire[w]
<1>1. /\ s \in Seq(Envelopes) /\ s # <<>>
      /\ Len(s) \in Nat /\ Len(s) > 0 /\ Head(s) = s[1] /\ s[1] \in Envelopes
  <2>1. s \in Seq(Envelopes)
    OBVIOUS
  <2> HIDE DEF s
  <2>2. s # <<>>
    BY DEF s
  <2> QED
    BY <2>1, <2>2
<1>2. /\ Tail(s) \in Seq(Envelopes) /\ Len(Tail(s)) = Len(s) - 1
      /\ \A i \in 1 .. Len(s) - 1 : Tail(s)[i] = s[i + 1]
  <2> HIDE DEF s
  <2> QED
    BY <1>1
<1>3. wire' \in [Wires -> Seq(Envelopes)] /\ wire'[w] = Tail(s)
  BY <1>2
<1>4. \A v \in Wires \ {w} : wire'[v] = wire[v]
  OBVIOUS
<1>5. ASSUME NEW f, OnWire(f, w)' PROVE OnWire(f, w)
  <2>1. PICK i \in 1 .. Len(Tail(s)) : Tail(s)[i] = f
    BY <1>3, <1>5 DEF OnWire
  <2> HIDE DEF s
  <2>2. i + 1 \in 1 .. Len(s) /\ s[i + 1] = f
    BY <1>1, <1>2, <2>1
  <2> QED
    BY <2>2 DEF s, OnWire
<1>6. ASSUME NEW f, OnWire(f, w) PROVE OnWire(f, w)' \/ f = Head(s)
  <2>1. PICK i \in 1 .. Len(s) : s[i] = f
    BY <1>6 DEF OnWire
  <2> HIDE DEF s
  <2>2. CASE i = 1
    BY <1>1, <2>1, <2>2
  <2>3. CASE i # 1
    <3>1. i - 1 \in 1 .. Len(Tail(s)) /\ Tail(s)[i - 1] = f
      BY <1>1, <1>2, <2>1, <2>3
    <3> QED
      BY <1>3, <3>1 DEF OnWire
  <2> QED
    BY <2>2, <2>3
<1>7. OnWire(Head(s), w)
  <2>1. 1 \in 1 .. Len(s)
    BY <1>1
  <2> QED
    BY <1>1, <2>1 DEF OnWire
<1>8. \A f, v : v \in Wires /\ v # w => (OnWire(f, v)' <=> OnWire(f, v))
  BY <1>4 DEF OnWire
<1> QED
  BY <1>1, <1>3, <1>5, <1>6, <1>7, <1>8

LEMMA CutFacts ==
  ASSUME wire \in [Wires -> Seq(Envelopes)], NEW l, NEW k, wire' = Cut(wire, l, k)
  PROVE  /\ wire' \in [Wires -> Seq(Envelopes)]
         /\ \A f, v : v \in Wires /\ OnWire(f, v)' => OnWire(f, v)
<1>1. ASSUME NEW v \in Wires
      PROVE  wire'[v] \in Seq(Envelopes) /\ (wire'[v] = wire[v] \/ wire'[v] = <<>>)
  BY DEF Cut
<1>2. wire' \in [Wires -> Seq(Envelopes)]
  BY <1>1 DEF Cut
<1>3. ASSUME NEW v \in Wires, NEW f, OnWire(f, v)' PROVE OnWire(f, v)
  <2>1. wire'[v] # <<>>
    BY <1>3 DEF OnWire
  <2> QED
    BY <1>1, <1>3, <2>1 DEF OnWire
<1> QED
  BY <1>2, <1>3
-----------------------------------------------------------------------------
(* Sockets come and go: nothing is said, and less may be on its way.       *)
LEMMA SameSpeech ==
  ASSUME NetInv, UNCHANGED <<seen, task, audience>>,
         \A f, v : v \in Wires /\ OnWire(f, v)' => OnWire(f, v)
  PROVE  Genuine'
  BY DEF NetInv, Genuine, Published

LEMMA FreshSocket ==
  ASSUME OverlayTypeOK, NEW l \in Links, Fresh(l) # {}
  PROVE  Next1(Fresh(l)) \in Sockets /\ socket[l][Next1(Fresh(l))] = "none"
<1>1. Fresh(l) \subseteq Nat
  BY LinksAssumption DEF Fresh, Sockets
<1>2. \E k \in Fresh(l) : \A i \in Fresh(l) : k <= i
  BY <1>1, LeastElement
<1>3. Next1(Fresh(l)) \in Fresh(l)
  BY <1>2 DEF Next1
<1> QED
  BY <1>3 DEF Fresh

LEMMA SocketStepKept ==
  ASSUME NetInv, LinkStep, UNCHANGED audience
  PROVE  NetInv'
<1>0. OverlayTypeOK /\ Registered /\ Reached
  BY DEF NetInv
<1>1. PICK l \in Links : \/ Connected(l) \/ Refused(l) \/ Refresh(l)
                         \/ \E k \in Sockets : Break(l, k) \/ LoopEnds(l, k)
  BY DEF LinkStep
<1>2. UNCHANGED <<seen, task, delivered>>
  BY <1>1 DEF Connected, Refused, Refresh, Break, LoopEnds
<1>3. Counted'
  BY <1>2 DEF NetInv, Counted
<1>4. audience' \in [Envelopes -> SUBSET Nodes]
  BY DEF NetInv
<1>5. CASE Connected(l)
  <2>1. PICK k : /\ k = Next1(Fresh(l)) /\ k \in Sockets /\ socket[l][k] = "none"
                 /\ socket' = [socket EXCEPT ![l][k] = "open"]
                 /\ reg' = [reg EXCEPT ![l] = k]
    BY <1>0, <1>5, FreshSocket DEF Connected
  <2>2. UNCHANGED <<failed, active, wire, breaks>> /\ dialling' = [dialling EXCEPT ![l] = @ - 1] /\ dialling[l] > 0
    BY <1>5 DEF Connected
  <2>3. OverlayTypeOK'
    <3>1. dialling' \in [Links -> 0 .. 2]
      BY <1>0, <2>2 DEF OverlayTypeOK
    <3>2. socket' \in [Links -> [Sockets -> {"none", "open", "broken", "closed"}]]
      BY <1>0, <2>1 DEF OverlayTypeOK
    <3>3. reg' \in [Links -> 0 .. MaxSockets]
      BY <1>0, <2>1, LinksAssumption DEF OverlayTypeOK, Sockets
    <3> QED
      BY <1>0, <1>2, <2>2, <3>1, <3>2, <3>3 DEF OverlayTypeOK
  <2>4. /\ \A x \in Links, y \in Sockets :
              socket'[x][y] = IF x = l /\ y = k THEN "open" ELSE socket[x][y]
        /\ \A x \in Links : reg'[x] = IF x = l THEN k ELSE reg[x]
    BY <1>0, <2>1 DEF OverlayTypeOK
  <2>5. \A x \in Links : reg[x] \in 0 .. MaxSockets /\ (reg[x] # 0 => reg[x] \in Sockets)
    BY <1>0, LinksAssumption DEF OverlayTypeOK, Sockets
  <2>6. k # 0
    BY <2>1 DEF Sockets
  <2>7. Registered'
    BY <1>0, <2>1, <2>2, <2>4, <2>5, <2>6 DEF Registered
  <2>8. Reached' /\ Genuine'
    BY <1>0, <1>2, <2>2, SameSpeech DEF Reached, Reaches, OnWire
  <2> QED
    BY <1>3, <1>4, <2>3, <2>7, <2>8 DEF NetInv
<1>6. CASE Refused(l)
  <2>1. /\ UNCHANGED <<socket, reg, failed, active, wire>> /\ dialling' = [dialling EXCEPT ![l] = @ - 1]
        /\ dialling[l] > 0 /\ breaks < MaxBreaks /\ breaks' = breaks + 1
    BY <1>6 DEF Refused
  <2>2. OverlayTypeOK' /\ breaks' # 0
    <3>1. dialling' \in [Links -> 0 .. 2]
      BY <1>0, <2>1 DEF OverlayTypeOK
    <3>2. breaks' \in 0 .. MaxBreaks /\ breaks' # 0
      BY <1>0, <2>1, LinksAssumption DEF OverlayTypeOK
    <3> QED
      BY <1>0, <1>2, <2>1, <3>1, <3>2 DEF OverlayTypeOK
  <2>3. Registered' /\ Reached'
    BY <1>0, <2>1, <2>2 DEF Registered, Reached
  <2>4. Genuine'
    BY <1>2, <2>1, SameSpeech DEF OnWire
  <2> QED
    BY <1>3, <1>4, <2>2, <2>3, <2>4 DEF NetInv
<1>7. CASE Refresh(l)
  <2>1. UNCHANGED <<socket, reg, wire, breaks>>
    BY <1>7 DEF Refresh
  <2>2. active' \subseteq Links /\ dialling' \in [Links -> 0 .. 2] /\ failed' \in [Links -> 0 .. 3]
    <3>1. active \subseteq Links /\ dialling \in [Links -> 0 .. 2] /\ failed \in [Links -> 0 .. 3]
      BY <1>0 DEF OverlayTypeOK
    <3>2. active' \subseteq Links
      BY <1>7, <3>1 DEF Refresh, Reactivated
    <3>3. dialling' \in [Links -> 0 .. 2]
      BY <1>7, <3>1 DEF Refresh
    <3>4. failed' \in [Links -> 0 .. 3]
      BY <1>7, <3>1 DEF Refresh
    <3> QED
      BY <3>2, <3>3, <3>4
  <2>3. OverlayTypeOK'
    BY <1>0, <1>2, <2>1, <2>2 DEF OverlayTypeOK
  <2>4. Registered'
    BY <1>0, <2>1 DEF Registered
  <2>5. Reached' /\ Genuine'
    BY <1>0, <1>2, <2>1, SameSpeech DEF Reached, Reaches, OnWire
  <2> QED
    BY <1>3, <1>4, <2>3, <2>4, <2>5 DEF NetInv
<1>8. ASSUME NEW k \in Sockets, Break(l, k) PROVE NetInv'
  <2>1. /\ UNCHANGED <<reg, dialling, failed, active>> /\ wire' = Cut(wire, l, k)
        /\ socket' = [socket EXCEPT ![l][k] = "broken"]
        /\ breaks < MaxBreaks /\ breaks' = breaks + 1
    BY <1>8 DEF Break
  <2>2. breaks' \in 0 .. MaxBreaks /\ breaks' # 0
    BY <1>0, <2>1, LinksAssumption DEF OverlayTypeOK
  <2>3. /\ wire' \in [Wires -> Seq(Envelopes)]
        /\ \A f, v : v \in Wires /\ OnWire(f, v)' => OnWire(f, v)
    BY <1>0, <2>1, CutFacts DEF OverlayTypeOK
  <2>4. /\ socket' \in [Links -> [Sockets -> {"none", "open", "broken", "closed"}]]
        /\ \A x \in Links, y \in Sockets :
              socket'[x][y] = IF x = l /\ y = k THEN "broken" ELSE socket[x][y]
    BY <1>0, <2>1 DEF OverlayTypeOK
  <2>5. OverlayTypeOK'
    BY <1>0, <1>2, <2>1, <2>2, <2>3, <2>4 DEF OverlayTypeOK
  <2>6. \A x \in Links : reg[x] \in 0 .. MaxSockets /\ (reg[x] # 0 => reg[x] \in Sockets)
    BY <1>0, LinksAssumption DEF OverlayTypeOK, Sockets
  <2>7. Registered'
    BY <1>0, <2>1, <2>2, <2>4, <2>6 DEF Registered
  <2>8. Reached'
    BY <2>2 DEF Reached
  <2> QED
    BY <1>2, <1>3, <1>4, <2>3, <2>5, <2>7, <2>8, SameSpeech DEF NetInv
<1>9. ASSUME NEW k \in Sockets, LoopEnds(l, k) PROVE NetInv'
  <2>1. /\ UNCHANGED <<dialling, failed, active, wire, breaks>> /\ socket[l][k] = "broken"
        /\ socket' = [socket EXCEPT ![l][k] = "closed"]
        /\ reg' = [reg EXCEPT ![l] = 0]
    BY <1>9 DEF LoopEnds, Forgotten
  <2>2. breaks # 0
    BY <1>0, <2>1 DEF Registered
  <2>3. /\ socket' \in [Links -> [Sockets -> {"none", "open", "broken", "closed"}]]
        /\ \A x \in Links, y \in Sockets :
              socket'[x][y] = IF x = l /\ y = k THEN "closed" ELSE socket[x][y]
    BY <1>0, <2>1 DEF OverlayTypeOK
  <2>4. /\ reg' \in [Links -> 0 .. MaxSockets]
        /\ \A x \in Links : reg'[x] = IF x = l THEN 0 ELSE reg[x]
    BY <1>0, <2>1, LinksAssumption DEF OverlayTypeOK
  <2>5. OverlayTypeOK'
    BY <1>0, <1>2, <2>1, <2>3, <2>4 DEF OverlayTypeOK
  <2>6. \A x \in Links : reg[x] \in 0 .. MaxSockets /\ (reg[x] # 0 => reg[x] \in Sockets)
    BY <1>0, LinksAssumption DEF OverlayTypeOK, Sockets
  <2>7. Registered'
    BY <1>0, <2>1, <2>2, <2>3, <2>4, <2>6 DEF Registered
  <2>8. Reached' /\ Genuine'
    BY <1>2, <2>1, <2>2, SameSpeech DEF Reached, OnWire
  <2> QED
    BY <1>3, <1>4, <2>5, <2>7, <2>8 DEF NetInv
<1> QED
  BY <1>1, <1>5, <1>6, <1>7, <1>8, <1>9
-----------------------------------------------------------------------------
(* Something is sent by n: the entries of sockets that are not open go.    *)
LEMMA SendFacts ==
  ASSUME NetInv, NEW n \in Nodes, NEW e \in Envelopes, NEW targets,
         wire' = Sent(wire, e, targets), reg' = Pruned(n), UNCHANGED <<socket, breaks>>
  PROVE  wire' \in [Wires -> Seq(Envelopes)] /\ reg' \in [Links -> 0 .. MaxSockets] /\ Registered'
<1>0. OverlayTypeOK /\ Registered
  BY DEF NetInv
<1>1. wire' \in [Wires -> Seq(Envelopes)]
  BY <1>0, SentFacts DEF OverlayTypeOK
<1>2. \A l \in Links : reg[l] \in 0 .. MaxSockets /\ (reg[l] # 0 => reg[l] \in Sockets)
  BY <1>0, LinksAssumption DEF OverlayTypeOK, Sockets
<1>3. reg' \in [Links -> 0 .. MaxSockets]
  BY <1>2, LinksAssumption DEF Pruned
<1>4. \A l \in Links : \/ reg'[l] = reg[l]
                       \/ reg'[l] = 0 /\ reg[l] # 0 /\ socket[l][reg[l]] # "open"
  BY DEF Pruned
<1>5. Registered'
  BY <1>0, <1>2, <1>4 DEF Registered
<1> QED
  BY <1>1, <1>3, <1>5

(* As long as no socket broke, what goes to everybody is on its way to     *)
(* every node at the other end of an open socket.                          *)
LEMMA ToEverybody ==
  ASSUME NetInv, NEW n \in Nodes, NEW e \in Envelopes, breaks = 0,
         wire' = Sent(wire, e, Outbound(n) \cup Inbound(n)), NEW p \in Peers(n)
  PROVE  \E w \in Wires : Receiver(w) = p /\ OnWire(e, w)'
<1>0. OverlayTypeOK /\ Registered
  BY DEF NetInv
<1>1. \A w \in Wires : w \in Outbound(n) \cup Inbound(n) => OnWire(e, w)'
  <2> DEFINE targets == Outbound(n) \cup Inbound(n)
  <2>1. wire \in [Wires -> Seq(Envelopes)] /\ wire' = Sent(wire, e, targets)
    BY <1>0 DEF OverlayTypeOK
  <2> HIDE DEF targets
  <2>2. \A f, w : w \in Wires => (OnWire(f, w)' <=> OnWire(f, w) \/ (f = e /\ w \in targets))
    BY <2>1, SentFacts
  <2> QED
    BY <2>2 DEF targets
<1>2. PICK l \in Links, k \in Sockets : l \in {<<n, p>>, <<p, n>>} /\ socket[l][k] = "open"
  BY DEF Peers
<1>3. CASE l = <<n, p>>
  <2>1. reg[l] # 0 /\ reg[l] \in Sockets
    BY <1>0, <1>2, LinksAssumption DEF Registered, OverlayTypeOK, Sockets
  <2>2. socket[l][reg[l]] = "open"
    BY <1>0, <2>1 DEF Registered
  <2> DEFINE w == <<l, reg[l], "up">>
  <2>3. w \in Outbound(n)
    BY <1>3, <2>1, <2>2 DEF Outbound
  <2>4. w \in Wires /\ Receiver(w) = p
    BY <1>3, <2>1 DEF Wires, Receiver
  <2> QED
    BY <1>1, <2>3, <2>4
<1>4. CASE l = <<p, n>>
  <2> DEFINE w == <<l, k, "down">>
  <2>1. w \in Wires /\ Receiver(w) = p
    BY <1>4 DEF Wires, Receiver
  <2>2. w \in Inbound(n)
    BY <1>2, <1>4, <2>1 DEF Inbound
  <2> QED
    BY <1>1, <2>1, <2>2
<1> QED
  BY <1>2, <1>3, <1>4

LEMMA HeardFacts ==
  ASSUME NetInv, NEW n \in Nodes, NEW e \in Envelopes, Heard(n, e),
         wire' = Sent(wire, e, Outbound(n) \cup Inbound(n)),
         \A p \in Nodes : seen[p] \subseteq seen'[p], UNCHANGED breaks
  PROVE  audience' \in [Envelopes -> SUBSET Nodes] /\ Reached'
<1>0. OverlayTypeOK /\ Reached /\ audience \in [Envelopes -> SUBSET Nodes]
  BY DEF NetInv
<1>1. audience' \in [Envelopes -> SUBSET Nodes]
  BY <1>0 DEF Heard, Peers
<1>2. ASSUME breaks' = 0, NEW f \in Envelopes, NEW p \in audience'[f]
      PROVE  Reaches(f, p)'
  <2>0. breaks = 0
    BY <1>2
  <2>1. CASE f = e
    <3>1. p \in Peers(n)
      BY <1>0, <1>2, <2>1 DEF Heard
    <3>2. \E w \in Wires : Receiver(w) = p /\ OnWire(e, w)'
      BY <2>0, <3>1, ToEverybody
    <3> QED
      BY <2>1, <3>2 DEF Reaches, Receiver
  <2>2. CASE f # e
    <3>1. p \in audience[f] /\ p \in Nodes
      BY <1>0, <1>2, <2>2 DEF Heard
    <3>2. Reaches(f, p)
      BY <1>0, <2>0, <3>1 DEF Reached
    <3>3. \A w \in Wires : OnWire(f, w) => OnWire(f, w)'
      BY <1>0, SentFacts DEF OverlayTypeOK
    <3> QED
      BY <3>1, <3>2, <3>3 DEF Reaches, Receiver
  <2> QED
    BY <2>1, <2>2
<1> QED
  BY <1>1, <1>2 DEF Reached

(* A node has heard of one envelope more.                                  *)
LEMMA MarkedFacts ==
  ASSUME NetInv, NEW n \in Nodes, NEW e \in Envelopes, e \notin seen[n],
         seen' = Marked(n, e), delivered' = Given(n, e)
  PROVE  /\ seen' \in [Nodes -> SUBSET Envelopes] /\ delivered' \in [Nodes -> [Envelopes -> Nat]]
         /\ Counted'
         /\ \A p \in Nodes : seen[p] \subseteq seen'[p]
         /\ \A f : Published(f)' <=> Published(f) \/ f = e
<1>0. seen \in [Nodes -> SUBSET Envelopes] /\ delivered \in [Nodes -> [Envelopes -> Nat]] /\ Counted
  BY DEF NetInv, OverlayTypeOK
<1>1. \A p \in Nodes : seen'[p] = IF p = n THEN seen[p] \cup {e} ELSE seen[p]
  BY <1>0 DEF Marked
<1>2. \A p \in Nodes, f \in Envelopes :
         delivered'[p][f] = IF p = n /\ f = e THEN delivered[p][f] + 1 ELSE delivered[p][f]
  BY <1>0 DEF Given
<1>3. seen' \in [Nodes -> SUBSET Envelopes]
  BY <1>0 DEF Marked
<1>4. delivered' \in [Nodes -> [Envelopes -> Nat]]
  BY <1>0 DEF Given
<1>5. Counted'
  <2>1. delivered[n][e] = 0
    BY <1>0 DEF Counted
  <2>2. ASSUME NEW p \in Nodes, NEW f \in Envelopes
        PROVE  delivered'[p][f] = IF f \in seen'[p] THEN 1 ELSE 0
    <3>1. CASE p = n /\ f = e
      <4>1. delivered'[n][e] = delivered[n][e] + 1
        BY <1>2
      <4>2. e \in seen'[n]
        BY <1>1
      <4> QED
        BY <2>1, <3>1, <4>1, <4>2
    <3>2. CASE ~ (p = n /\ f = e)
      <4>1. delivered'[p][f] = delivered[p][f] /\ (f \in seen'[p] <=> f \in seen[p])
        BY <1>1, <1>2, <3>2
      <4> QED
        BY <1>0, <4>1 DEF Counted
    <3> QED
      BY <3>1, <3>2
  <2> QED
    BY <2>2 DEF Counted
<1> QED
  BY <1>1, <1>3, <1>4, <1>5 DEF Published

LEMMA BroadcastKept ==
  ASSUME NetInv, NEW n \in Nodes, NEW e \in Envelopes, Broadcast(n, e), Heard(n, e)
  PROVE  NetInv' /\ (\A f : Published(f)' <=> Published(f) \/ f = e)
<1>0. OverlayTypeOK /\ Genuine
  BY DEF NetInv
<1>1. /\ e \notin seen[n] /\ seen' = Marked(n, e) /\ delivered' = Given(n, e)
      /\ wire' = Sent(wire, e, Outbound(n) \cup Inbound(n)) /\ reg' = Pruned(n)
      /\ UNCHANGED <<socket, dialling, failed, active, task, breaks>>
  BY DEF Broadcast
<1>2. /\ seen' \in [Nodes -> SUBSET Envelopes] /\ delivered' \in [Nodes -> [Envelopes -> Nat]]
      /\ Counted' /\ \A p \in Nodes : seen[p] \subseteq seen'[p]
  BY <1>1, MarkedFacts
<1>3. \A f : Published(f)' <=> Published(f) \/ f = e
  BY <1>1, MarkedFacts
<1>4. wire' \in [Wires -> Seq(Envelopes)] /\ reg' \in [Links -> 0 .. MaxSockets] /\ Registered'
  BY <1>1, SendFacts
<1>5. OverlayTypeOK'
  BY <1>0, <1>1, <1>2, <1>4 DEF OverlayTypeOK
<1>6. audience' \in [Envelopes -> SUBSET Nodes] /\ Reached'
  BY <1>1, <1>2, HeardFacts
<1>7. \A w \in Wires, f \in Envelopes : OnWire(f, w)' => OnWire(f, w) \/ f = e
  BY <1>0, <1>1, SentFacts DEF OverlayTypeOK
<1>8. Genuine'
  BY <1>0, <1>1, <1>3, <1>7 DEF Genuine
<1> QED
  BY <1>2, <1>3, <1>4, <1>5, <1>6, <1>8 DEF NetInv

LEMMA BroadcastSelfKept ==
  ASSUME NetInv, NEW n \in Nodes, NEW e \in Envelopes, BroadcastSelf(n, e), UNCHANGED audience
  PROVE  NetInv' /\ (\A f : Published(f)' <=> Published(f) \/ f = e)
<1>0. OverlayTypeOK /\ Genuine /\ Reached /\ Registered
  BY DEF NetInv
<1>1. /\ e \notin seen[n] /\ seen' = Marked(n, e) /\ delivered' = Given(n, e)
      /\ task' = [task EXCEPT ![Local(n)] = e]
      /\ UNCHANGED <<socket, reg, dialling, failed, active, wire, breaks>>
  BY DEF BroadcastSelf
<1>2. /\ seen' \in [Nodes -> SUBSET Envelopes] /\ delivered' \in [Nodes -> [Envelopes -> Nat]]
      /\ Counted' /\ \A p \in Nodes : seen[p] \subseteq seen'[p]
  BY <1>1, MarkedFacts
<1>3. \A f : Published(f)' <=> Published(f) \/ f = e
  BY <1>1, MarkedFacts
<1>4. task' \in [Tasks -> Envelopes \cup {NoEnvelope}]
  BY <1>0, <1>1 DEF OverlayTypeOK
<1>5. OverlayTypeOK'
  BY <1>0, <1>1, <1>2, <1>4 DEF OverlayTypeOK
<1>6. Registered'
  BY <1>0, <1>1 DEF Registered
<1>7. audience' \in [Envelopes -> SUBSET Nodes] /\ audience' = audience
  BY DEF NetInv
<1>8. Reached'
  BY <1>0, <1>1, <1>2, <1>7 DEF NetInv, Reached, Reaches, OnWire
<1>9. \A t \in Tasks : task'[t] = task[t] \/ task'[t] = e
  BY <1>0, <1>1 DEF OverlayTypeOK
<1>10. Genuine'
  BY <1>0, <1>1, <1>3, <1>9 DEF Genuine, OnWire
<1> QED
  BY <1>2, <1>3, <1>5, <1>6, <1>7, <1>8, <1>10 DEF NetInv

LEMMA DropKept ==
  ASSUME NetInv, NEW w \in Wires, Drop(w), UNCHANGED audience
  PROVE  NetInv'
<1>0. OverlayTypeOK /\ Genuine /\ Reached /\ Registered /\ Counted
  BY DEF NetInv
<1>1. /\ wire[w] # <<>> /\ Head(wire[w]) \in seen[Receiver(w)]
      /\ wire' = [wire EXCEPT ![w] = Tail(@)]
      /\ UNCHANGED <<linkVars, seen, task, delivered>>
  BY DEF Drop, Known
<1>2. /\ wire' \in [Wires -> Seq(Envelopes)]
      /\ \A f, v : v \in Wires /\ OnWire(f, v)' => OnWire(f, v)
      /\ \A f, v : v \in Wires /\ OnWire(f, v) => OnWire(f, v)' \/ (v = w /\ f = Head(wire[w]))
  BY <1>0, <1>1, TailFacts DEF OverlayTypeOK
<1>3. OverlayTypeOK' /\ Registered' /\ Counted'
  BY <1>0, <1>1, <1>2 DEF OverlayTypeOK, Registered, Counted, linkVars
<1>4. \A f, p : Reaches(f, p) => Reaches(f, p)'
  BY <1>1, <1>2 DEF Reaches, Receiver
<1>5. Reached'
  BY <1>0, <1>1, <1>4 DEF Reached, linkVars
<1>6. Genuine'
  BY <1>1, <1>2, SameSpeech
<1>7. audience' \in [Envelopes -> SUBSET Nodes]
  BY DEF NetInv
<1> QED
  BY <1>3, <1>5, <1>6, <1>7 DEF NetInv

LEMMA TakeKept ==
  ASSUME NetInv, NEW w \in Wires, Take(w), UNCHANGED audience
  PROVE  /\ NetInv' /\ (\A f : Published(f)' <=> Published(f))
         /\ Head(wire[w]) \in Envelopes /\ task[w] = NoEnvelope
         /\ task' = [task EXCEPT ![w] = Head(wire[w])]
<1>0. OverlayTypeOK /\ Genuine /\ Reached /\ Registered
  BY DEF NetInv
<1> DEFINE e == Head(wire[w])
           n == Receiver(w)
<1>1. /\ wire[w] # <<>> /\ e \notin seen[n] /\ task[w] = NoEnvelope
      /\ seen' = Marked(n, e) /\ delivered' = Given(n, e) /\ task' = [task EXCEPT ![w] = e]
      /\ wire' = [wire EXCEPT ![w] = Tail(@)] /\ UNCHANGED linkVars
  BY DEF Take, Known
<1>2. /\ wire' \in [Wires -> Seq(Envelopes)] /\ e \in Envelopes /\ OnWire(e, w)
      /\ \A f, v : v \in Wires /\ OnWire(f, v)' => OnWire(f, v)
      /\ \A f, v : v \in Wires /\ OnWire(f, v) => OnWire(f, v)' \/ (v = w /\ f = e)
  BY <1>0, <1>1, TailFacts DEF OverlayTypeOK
<1>3. n \in Nodes /\ w \in Tasks
  BY AtNode DEF Tasks
<1> HIDE DEF e, n
<1>4. /\ seen' \in [Nodes -> SUBSET Envelopes] /\ delivered' \in [Nodes -> [Envelopes -> Nat]]
      /\ Counted' /\ \A p \in Nodes : seen[p] \subseteq seen'[p]
  BY <1>1, <1>2, <1>3, MarkedFacts
<1>5. \A f : Published(f)' <=> Published(f)
  BY <1>0, <1>1, <1>2, <1>3, MarkedFacts DEF Genuine
<1>6. task' \in [Tasks -> Envelopes \cup {NoEnvelope}] /\ \A t \in Tasks : task'[t] = task[t] \/ task'[t] = e
  BY <1>0, <1>1, <1>2 DEF OverlayTypeOK
<1>7. OverlayTypeOK' /\ Registered'
  BY <1>0, <1>1, <1>2, <1>4, <1>6 DEF OverlayTypeOK, Registered, linkVars
<1>8. e \in seen'[n]
  BY <1>0, <1>1, <1>3 DEF OverlayTypeOK, Marked
<1>9. \A f, p : p \in Nodes /\ Reaches(f, p) => Reaches(f, p)'
  BY <1>2, <1>4, <1>8 DEF Reaches, Receiver, n
<1>10. audience' \in [Envelopes -> SUBSET Nodes] /\ audience' = audience
  BY DEF NetInv
<1>11. Reached'
  BY <1>0, <1>1, <1>9, <1>10 DEF Reached, linkVars
<1>12. Genuine'
  BY <1>0, <1>2, <1>5, <1>6 DEF Genuine
<1> QED
  BY <1>1, <1>2, <1>4, <1>5, <1>7, <1>10, <1>11, <1>12 DEF NetInv, e

LEMMA ReturnKept ==
  ASSUME NetInv, NEW t \in Tasks, Return(t),
         IF t \in Wires THEN UNCHANGED audience ELSE Heard(At(t), task[t])
  PROVE  NetInv' /\ task' = [task EXCEPT ![t] = NoEnvelope] /\ UNCHANGED seen
<1>0. OverlayTypeOK /\ Genuine /\ Reached /\ Counted
  BY DEF NetInv
<1> DEFINE n == At(t)
           e == task[t]
           targets == IF t \in Wires THEN Forwards(n) ELSE Outbound(n) \cup Inbound(n)
<1>1. /\ e # NoEnvelope /\ task' = [task EXCEPT ![t] = NoEnvelope]
      /\ wire' = Sent(wire, e, targets) /\ reg' = Pruned(n)
      /\ UNCHANGED <<socket, dialling, failed, active, seen, delivered, breaks>>
  BY DEF Return
<1>2. n \in Nodes /\ e \in Envelopes
  BY <1>0, <1>1, AtNode DEF OverlayTypeOK
<1>3. ~ (t \in Wires) => Heard(n, e) /\ wire' = Sent(wire, e, Outbound(n) \cup Inbound(n))
  BY <1>1
<1>4. t \in Wires => UNCHANGED audience
  OBVIOUS
<1> HIDE DEF n, e, targets
<1>5. wire' \in [Wires -> Seq(Envelopes)] /\ reg' \in [Links -> 0 .. MaxSockets] /\ Registered'
  BY <1>1, <1>2, SendFacts
<1>6. task' \in [Tasks -> Envelopes \cup {NoEnvelope}] /\ \A x \in Tasks : task'[x] = task[x] \/ task'[x] = NoEnvelope
  BY <1>0, <1>1 DEF OverlayTypeOK
<1>7. OverlayTypeOK' /\ Counted'
  BY <1>0, <1>1, <1>5, <1>6 DEF OverlayTypeOK, Counted
<1>8. \A f, w : w \in Wires => (OnWire(f, w)' <=> OnWire(f, w) \/ (f = e /\ w \in targets))
  BY <1>0, <1>1, <1>2, SentFacts DEF OverlayTypeOK
<1>9. audience' \in [Envelopes -> SUBSET Nodes] /\ Reached'
  <2>1. CASE t \in Wires
    <3>1. \A f, p : Reaches(f, p) => Reaches(f, p)'
      BY <1>1, <1>8 DEF Reaches, Receiver
    <3> QED
      BY <1>0, <1>1, <1>4, <2>1, <3>1 DEF Reached, NetInv
  <2>2. CASE t \notin Wires
    BY <1>1, <1>2, <1>3, <2>2, HeardFacts
  <2> QED
    BY <2>1, <2>2
<1>10. Published(e)
  BY <1>0, <1>1 DEF Genuine, e
<1>11. \A f : Published(f)' <=> Published(f)
  BY <1>1 DEF Published
<1>12. Genuine'
  BY <1>0, <1>6, <1>8, <1>10, <1>11 DEF Genuine
<1> QED
  BY <1>1, <1>5, <1>7, <1>9, <1>12 DEF NetInv

LEMMA NetSame ==
  ASSUME NetInv, UNCHANGED <<netVars, audience>>
  PROVE  NetInv'
  BY DEF NetInv, netVars, OverlayTypeOK, Counted, Registered, Reached, Reaches, Genuine, Published, OnWire
-----------------------------------------------------------------------------
(* Envelopes of different topics differ, and those of benchmarks by their  *)
(* nonce and miner.                                                        *)
LEMMA Topics ==
  /\ \A m, j, b, p : Thought(m, j) # RollupMsg /\ Thought(m, j) # Challenge(b, p) /\ Thought(m, j) # Response(b, p)
  /\ \A b, p : RollupMsg # Challenge(b, p) /\ RollupMsg # Response(b, p)
  /\ \A b, p, c, q : Challenge(b, p) # Response(c, q)
  /\ \A b, p, c, q : Challenge(b, p) = Challenge(c, q) => b = c /\ p = q
  /\ \A b, p, c, q : Response(b, p) = Response(c, q) => b = c /\ p = q
<1>1. \A b, p, c, q : Challenge(b, p) = Challenge(c, q) => b = c /\ p = q
  <2> TAKE b, p, c, q
  <2>1. Challenge(b, p).ref = b /\ Challenge(b, p).from = p /\ Challenge(c, q).ref = c /\ Challenge(c, q).from = q
    BY DEF Challenge
  <2> QED
    BY <2>1
<1>2. \A b, p, c, q : Response(b, p) = Response(c, q) => b = c /\ p = q
  <2> TAKE b, p, c, q
  <2>1. Response(b, p).ref = b /\ Response(b, p).from = p /\ Response(c, q).ref = c /\ Response(c, q).from = q
    BY DEF Response
  <2> QED
    BY <2>1
<1>3. /\ \A m, j : Thought(m, j).topic = "thought"
      /\ RollupMsg.topic = "rollup"
      /\ \A b, p : Challenge(b, p).topic = "challenge" /\ Response(b, p).topic = "response"
  BY DEF Thought, RollupMsg, Challenge, Response
<1>4. /\ \A m, j, b, p : Thought(m, j) # RollupMsg /\ Thought(m, j) # Challenge(b, p) /\ Thought(m, j) # Response(b, p)
      /\ \A b, p : RollupMsg # Challenge(b, p) /\ RollupMsg # Response(b, p)
      /\ \A b, p, c, q : Challenge(b, p) # Response(c, q)
  <2> USE <1>3
  <2>1. \A m, j, b, p : Thought(m, j) # RollupMsg /\ Thought(m, j) # Challenge(b, p) /\ Thought(m, j) # Response(b, p)
    <3> TAKE m, j, b, p
    <3>1. /\ Thought(m, j).topic = "thought" /\ RollupMsg.topic = "rollup"
          /\ Challenge(b, p).topic = "challenge" /\ Response(b, p).topic = "response"
      OBVIOUS
    <3> QED
      BY <3>1
  <2>2. \A b, p : RollupMsg # Challenge(b, p) /\ RollupMsg # Response(b, p)
    <3> TAKE b, p
    <3>1. /\ RollupMsg.topic = "rollup"
          /\ Challenge(b, p).topic = "challenge" /\ Response(b, p).topic = "response"
      OBVIOUS
    <3> QED
      BY <3>1
  <2>3. \A b, p, c, q : Challenge(b, p) # Response(c, q)
    <3> TAKE b, p, c, q
    <3>1. Challenge(b, p).topic = "challenge" /\ Response(c, q).topic = "response"
      OBVIOUS
    <3> QED
      BY <3>1
  <2> QED
    BY <2>1, <2>2, <2>3
<1> QED
  BY <1>1, <1>2, <1>4

(* Busy tasks go on with their envelopes, idle ones may be given some.     *)
Steady == \A t \in Tasks : stage[t] > 0 => stage'[t] = stage[t] /\ task'[t] = task[t]

LEMMA StoringSame ==
  ASSUME MemInv, Steady, UNCHANGED thoughts
  PROVE  BeingStored'
<1> SUFFICES ASSUME NEW n \in Nodes, NEW j \in ThoughtJobs,
                    thoughts[n][j].by # NoMiner, thoughts[n][j].emb = NoMiner
             PROVE  \E t \in Tasks : /\ At(t) = n /\ stage'[t] = 1
                                     /\ task'[t].topic = "thought" /\ task'[t].ref = j
  BY DEF BeingStored, At, Receiver
<1>1. PICK t \in Tasks : /\ At(t) = n /\ stage[t] = 1
                         /\ task[t].topic = "thought" /\ task[t].ref = j
  BY DEF MemInv, BeingStored
<1>2. stage[t] > 0
  BY <1>1
<1> QED
  BY <1>1, <1>2 DEF Steady

LEMMA RollupsSame ==
  ASSUME MemInv, UNCHANGED <<rollup, rolled>>, Published(RollupMsg)' => Published(RollupMsg)
  PROVE  RollupStored'
  BY DEF MemInv, RollupStored

LEMMA MemSame ==
  ASSUME MemInv, NetInv', UNCHANGED <<stage, memVars, seen, task>>
  PROVE  MemInv'
<1>1. \A f : Published(f)' <=> Published(f)
  BY DEF Published
<1>2. MemoryTypeOK'
  BY DEF NetInv, MemInv, MemoryTypeOK, memVars
<1>3. Awaited' /\ ScoreMeasured'
  BY DEF MemInv, Awaited, ScoreMeasured, memVars, At, Receiver
<1>4. BeingStored'
  BY StoringSame DEF Steady, memVars
<1>5. RollupStored'
  BY <1>1, RollupsSame DEF memVars
<1>6. Measured'
  BY <1>1 DEF MemInv, Measured, Asked, memVars, At, Receiver
<1> QED
  BY <1>2, <1>3, <1>4, <1>5, <1>6 DEF MemInv

LEMMA TakeMemKept ==
  ASSUME MemoryInv, NEW w \in Wires, Take(w), UNCHANGED <<memVars, audience>>,
         stage' = [stage EXCEPT ![w] = IF Subscribes(Receiver(w), Head(wire[w]))
                                       THEN Statements(Head(wire[w])) ELSE 0]
  PROVE  MemoryInv'
<1> DEFINE e == Head(wire[w])
<1>0. NetInv /\ MemInv /\ MemoryTypeOK
  BY DEF MemoryInv, MemInv
<1>1. /\ NetInv' /\ \A f : Published(f)' <=> Published(f)
      /\ e \in Envelopes /\ task[w] = NoEnvelope /\ task' = [task EXCEPT ![w] = e]
  BY <1>0, TakeKept
<1>2. w \in Tasks /\ At(w) = Receiver(w)
  BY DEF Tasks, At
<1>3. stage' = [stage EXCEPT ![w] = IF Subscribes(Receiver(w), e) THEN Statements(e) ELSE 0]
  OBVIOUS
<1> HIDE DEF e
<1>4. /\ stage \in [Tasks -> 0 .. 2] /\ task \in [Tasks -> Envelopes \cup {NoEnvelope}]
  BY <1>0 DEF MemoryTypeOK, OverlayTypeOK
<1>5. stage[w] = 0
  BY <1>0, <1>1, <1>2, <1>4, MemoryInputs DEF MemInv, Awaited
<1>6. Statements(e) \in 1 .. 2 /\ (e.topic = "challenge" => Statements(e) = 2)
  BY DEF Statements
<1>7. MemoryTypeOK'
  <2>1. (IF Subscribes(Receiver(w), e) THEN Statements(e) ELSE 0) \in 0 .. 2
    BY <1>6
  <2>2. stage' \in [Tasks -> 0 .. 2]
    BY <1>3, <1>4, <2>1
  <2> QED
    BY <1>0, <1>1, <2>2 DEF NetInv, MemoryTypeOK, memVars
<1>8. /\ \A t \in Tasks : stage'[t] = IF t = w THEN IF Subscribes(Receiver(w), e) THEN Statements(e) ELSE 0
                                     ELSE stage[t]
      /\ \A t \in Tasks : task'[t] = IF t = w THEN e ELSE task[t]
  BY <1>1, <1>2, <1>3, <1>4
<1>9. Awaited'
  BY <1>0, <1>1, <1>2, <1>8 DEF MemInv, Awaited, Subscribes, At, Receiver
<1>10. Steady
  BY <1>5, <1>8 DEF Steady
<1>11. BeingStored' /\ RollupStored' /\ ScoreMeasured'
  BY <1>0, <1>1, <1>10, StoringSame, RollupsSame DEF memVars, MemInv, ScoreMeasured
<1>12. Measured'
  <2>1. ASSUME NEW t \in Tasks, stage'[t] = 1, task'[t].topic = "challenge"
        PROVE  <<task'[t].ref, At(t)>> \in inferred
    <3>1. t # w
      BY <1>6, <1>8, <2>1
    <3> QED
      BY <1>0, <1>8, <2>1, <3>1 DEF MemInv, Measured
  <2> QED
    BY <1>0, <1>1, <2>1 DEF MemInv, Measured, Asked, memVars, At, Receiver
<1> QED
  BY <1>1, <1>7, <1>9, <1>11, <1>12 DEF MemoryInv, MemInv

LEMMA PassOnKept ==
  ASSUME MemoryInv, NEW t \in Tasks, PassOn(t)
  PROVE  MemoryInv'
<1>0. NetInv /\ MemInv /\ MemoryTypeOK
  BY DEF MemoryInv, MemInv
<1>1. stage[t] = 0 /\ UNCHANGED <<stage, memVars>>
  BY DEF PassOn
<1>2. NetInv' /\ task' = [task EXCEPT ![t] = NoEnvelope] /\ UNCHANGED seen
  BY <1>0, ReturnKept DEF PassOn
<1>3. \A f : Published(f)' <=> Published(f)
  BY <1>2 DEF Published
<1>4. MemoryTypeOK'
  BY <1>0, <1>1, <1>2 DEF NetInv, MemoryTypeOK, memVars
<1>5. \A x \in Tasks : x # t => task'[x] = task[x]
  BY <1>0, <1>2 DEF NetInv, OverlayTypeOK
<1>6. Steady
  BY <1>1, <1>5 DEF Steady
<1>7. Awaited'
  BY <1>0, <1>1, <1>5 DEF MemInv, Awaited, At, Receiver
<1>8. BeingStored' /\ RollupStored' /\ ScoreMeasured'
  BY <1>0, <1>1, <1>3, <1>6, StoringSame, RollupsSame DEF memVars, MemInv, ScoreMeasured
<1>9. Measured'
  BY <1>0, <1>1, <1>3, <1>5 DEF MemInv, Measured, Asked, memVars, At, Receiver
<1> QED
  BY <1>2, <1>4, <1>7, <1>8, <1>9 DEF MemoryInv, MemInv

LEMMA ThinkKept ==
  ASSUME MemoryInv, NEW m, NEW j, Think(m, j)
  PROVE  MemoryInv'
<1> DEFINE e == Thought(m, j)
<1>0. NetInv /\ MemInv /\ MemoryTypeOK
  BY DEF MemoryInv, MemInv
<1>1. /\ <<m, j>> \in Thinkers /\ finished' = finished \cup {<<m, j>>}
      /\ thoughts' = [thoughts EXCEPT ![m][j] = [by |-> m, emb |-> m]]
      /\ BroadcastSelf(m, e) /\ stage' = [stage EXCEPT ![Local(m)] = 2]
      /\ UNCHANGED <<rollup, rolled, bench, inferred, scores, audience>>
  BY DEF Think
<1>2. e \in Envelopes /\ m \in MinerNodes /\ j \in ThoughtJobs /\ m \in Nodes /\ Local(m) \in Tasks
  <2>1. m \in MinerNodes /\ j \in ThoughtJobs
    BY <1>1, MemoryInputs
  <2> QED
    BY <1>1, <2>1, EnvelopeFacts, AtNode DEF MinerNodes
<1>3. NetInv' /\ \A f : Published(f)' <=> Published(f) \/ f = e
  BY <1>0, <1>1, <1>2, BroadcastSelfKept
<1>4. task[Local(m)] = NoEnvelope /\ task' = [task EXCEPT ![Local(m)] = e]
  BY <1>1 DEF BroadcastSelf
<1>5. e.topic = "thought" /\ e # RollupMsg /\ \A b, p : e # Challenge(b, p) /\ e # Response(b, p)
  BY Topics DEF Thought
<1> HIDE DEF e
<1>6. /\ stage \in [Tasks -> 0 .. 2] /\ task \in [Tasks -> Envelopes \cup {NoEnvelope}]
      /\ thoughts \in [Nodes -> [ThoughtJobs -> ThoughtRec]]
  BY <1>0 DEF MemoryTypeOK, OverlayTypeOK
<1>7. stage[Local(m)] = 0
  BY <1>0, <1>2, <1>4, <1>6, MemoryInputs DEF MemInv, Awaited
<1>8. /\ \A t \in Tasks : stage'[t] = IF t = Local(m) THEN 2 ELSE stage[t]
      /\ \A t \in Tasks : task'[t] = IF t = Local(m) THEN e ELSE task[t]
  BY <1>1, <1>2, <1>4, <1>6
<1>9. /\ thoughts' \in [Nodes -> [ThoughtJobs -> ThoughtRec]]
      /\ \A n \in Nodes, i \in ThoughtJobs :
            thoughts'[n][i] = IF n = m /\ i = j THEN [by |-> m, emb |-> m] ELSE thoughts[n][i]
  <2>1. [by |-> m, emb |-> m] \in ThoughtRec
    BY <1>2 DEF ThoughtRec
  <2> QED
    BY <1>1, <1>2, <1>6, <2>1
<1>10. MemoryTypeOK'
  <2>1. stage' \in [Tasks -> 0 .. 2]
    <3>1. 2 \in 0 .. 2
      OBVIOUS
    <3> QED
      BY <1>1, <1>6, <3>1
  <2>2. finished' \subseteq Thinkers
    BY <1>0, <1>1 DEF MemoryTypeOK
  <2> QED
    BY <1>0, <1>1, <1>3, <1>9, <2>1, <2>2 DEF NetInv, MemoryTypeOK
<1>11. Awaited'
  BY <1>0, <1>2, <1>5, <1>8 DEF MemInv, Awaited, Subscribes, At, Receiver
<1>12. BeingStored'
  <2> SUFFICES ASSUME NEW n \in Nodes, NEW i \in ThoughtJobs,
                      thoughts'[n][i].by # NoMiner, thoughts'[n][i].emb = NoMiner
               PROVE  \E t \in Tasks : /\ At(t) = n /\ stage'[t] = 1
                                       /\ task'[t].topic = "thought" /\ task'[t].ref = i
    BY DEF BeingStored, At, Receiver
  <2>1. ~ (n = m /\ i = j)
    BY <1>2, <1>9, MemoryInputs
  <2>2. PICK t \in Tasks : /\ At(t) = n /\ stage[t] = 1
                           /\ task[t].topic = "thought" /\ task[t].ref = i
    BY <1>0, <1>9, <2>1 DEF MemInv, BeingStored
  <2> QED
    BY <1>7, <1>8, <2>2
<1>13. RollupStored' /\ ScoreMeasured'
  BY <1>0, <1>1, <1>3, <1>5, RollupsSame DEF MemInv, ScoreMeasured
<1>14. Measured'
  BY <1>0, <1>1, <1>3, <1>5, <1>8 DEF MemInv, Measured, Asked, At, Receiver
<1> QED
  BY <1>3, <1>10, <1>11, <1>12, <1>13, <1>14 DEF MemoryInv, MemInv
-----------------------------------------------------------------------------
(* A statement of the handlers leaves the overlay alone.                   *)
LEMMA StatementFacts ==
  ASSUME MemoryInv, NEW t \in Tasks, stage[t] > 0, UNCHANGED <<netVars, audience>>,
         NEW i \in 0 .. 1, stage' = [stage EXCEPT ![t] = i]
  PROVE  /\ NetInv' /\ stage' \in [Tasks -> 0 .. 2] /\ Awaited'
         /\ task[t] \in Envelopes /\ Subscribes(At(t), task[t]) /\ At(t) \in Nodes /\ Published(task[t])
         /\ \A x \in Tasks : stage'[x] = IF x = t THEN i ELSE stage[x]
         /\ UNCHANGED <<seen, task>> /\ \A f : Published(f)' <=> Published(f)
<1>0. NetInv /\ MemInv /\ MemoryTypeOK
  BY DEF MemoryInv, MemInv
<1>1. NetInv'
  BY <1>0, NetSame
<1>2. stage' \in [Tasks -> 0 .. 2] /\ \A x \in Tasks : stage'[x] = IF x = t THEN i ELSE stage[x]
  <2>1. stage \in [Tasks -> 0 .. 2] /\ i \in 0 .. 2
    BY <1>0 DEF MemoryTypeOK
  <2> QED
    BY <2>1
<1>3. task[t] \in Envelopes /\ Subscribes(At(t), task[t]) /\ At(t) \in Nodes
  BY <1>0, AtNode DEF MemInv, Awaited
<1>4. Published(task[t])
  BY <1>0, <1>3, MemoryInputs DEF NetInv, Genuine
<1>5. UNCHANGED <<seen, task>>
  BY DEF netVars
<1>6. \A f : Published(f)' <=> Published(f)
  BY <1>5 DEF Published
<1>7. Awaited'
  BY <1>0, <1>2, <1>3, <1>5 DEF MemInv, Awaited, At, Receiver
<1> QED
  BY <1>1, <1>2, <1>3, <1>4, <1>5, <1>6, <1>7

(* Statements that are not about thoughts leave those being stored alone.  *)
LEMMA StoringGoesOn ==
  ASSUME MemInv, NEW t \in Tasks, task[t].topic # "thought", UNCHANGED <<task, thoughts>>,
         \A x \in Tasks : x # t => stage'[x] = stage[x]
  PROVE  BeingStored'
<1> SUFFICES ASSUME NEW n \in Nodes, NEW j \in ThoughtJobs,
                    thoughts[n][j].by # NoMiner, thoughts[n][j].emb = NoMiner
             PROVE  \E x \in Tasks : /\ At(x) = n /\ stage'[x] = 1
                                     /\ task[x].topic = "thought" /\ task[x].ref = j
  BY DEF BeingStored, At, Receiver
<1>1. PICK x \in Tasks : /\ At(x) = n /\ stage[x] = 1
                         /\ task[x].topic = "thought" /\ task[x].ref = j
  BY DEF MemInv, BeingStored
<1> QED
  BY <1>1

LEMMA StoreThoughtKept ==
  ASSUME MemoryInv, NEW t \in Tasks, StoreThought(t)
  PROVE  MemoryInv'
<1> DEFINE n == At(t)
           e == task[t]
<1>0. NetInv /\ MemInv /\ MemoryTypeOK
  BY DEF MemoryInv, MemInv
<1>1. /\ stage[t] > 0 /\ e.topic = "thought" /\ stage' = [stage EXCEPT ![t] = @ - 1]
      /\ thoughts' = IF stage[t] = 2 THEN Ingested(n, e.ref, e.from) ELSE Embedded(n, e.ref, e.from)
      /\ UNCHANGED <<netVars, finished, rollup, rolled, bench, inferred, scores, audience>>
  BY DEF StoreThought, Statement, RowFirst
<1>2. stage[t] \in {1, 2} /\ stage[t] - 1 \in 0 .. 1
  BY <1>0, <1>1 DEF MemoryTypeOK
<1>3. /\ NetInv' /\ stage' \in [Tasks -> 0 .. 2] /\ Awaited'
      /\ e \in Envelopes /\ n \in Nodes
      /\ \A x \in Tasks : stage'[x] = IF x = t THEN stage[t] - 1 ELSE stage[x]
      /\ UNCHANGED <<seen, task>> /\ \A f : Published(f)' <=> Published(f)
  BY <1>1, <1>2, StatementFacts
<1>4. e.ref \in ThoughtJobs /\ e.from \in MinerNodes /\ e.from # NoMiner
  BY <1>1, <1>3, EnvelopeFacts, MemoryInputs
<1>5. thoughts \in [Nodes -> [ThoughtJobs -> ThoughtRec]]
  BY <1>0 DEF MemoryTypeOK
<1> HIDE DEF n, e
<1> DEFINE j == e.ref
           m == e.from
           old == thoughts[n][j]
<1>6. old \in ThoughtRec /\ j \in ThoughtJobs /\ m \in MinerNodes /\ m # NoMiner
  BY <1>3, <1>4, <1>5
<1> HIDE DEF j, m
<1>7. ASSUME stage[t] = 2
      PROVE  thoughts' \in [Nodes -> [ThoughtJobs -> ThoughtRec]] /\ BeingStored'
  <2>1. thoughts' = [thoughts EXCEPT ![n][j].by = m]
    BY <1>1, <1>7 DEF Ingested, j, m
  <2>2. [old EXCEPT !.by = m] \in ThoughtRec /\ [old EXCEPT !.by = m].by = m
    BY <1>6 DEF ThoughtRec
  <2>3. /\ thoughts' \in [Nodes -> [ThoughtJobs -> ThoughtRec]]
        /\ \A p \in Nodes, i \in ThoughtJobs :
              thoughts'[p][i] = IF p = n /\ i = j THEN [old EXCEPT !.by = m] ELSE thoughts[p][i]
    BY <1>3, <1>5, <1>6, <2>1, <2>2
  <2>4. stage'[t] = 1
    BY <1>3, <1>7
  <2>5. BeingStored'
    <3> SUFFICES ASSUME NEW p \in Nodes, NEW i \in ThoughtJobs,
                        thoughts'[p][i].by # NoMiner, thoughts'[p][i].emb = NoMiner
                 PROVE  \E x \in Tasks : /\ At(x) = p /\ stage'[x] = 1
                                         /\ task[x].topic = "thought" /\ task[x].ref = i
      BY <1>3 DEF BeingStored, At, Receiver
    <3>1. CASE p = n /\ i = j
      BY <1>1, <2>4, <3>1 DEF n, e, j
    <3>2. CASE ~ (p = n /\ i = j)
      <4>1. PICK x \in Tasks : /\ At(x) = p /\ stage[x] = 1
                               /\ task[x].topic = "thought" /\ task[x].ref = i
        BY <1>0, <2>3, <3>2 DEF MemInv, BeingStored
      <4> QED
        BY <1>3, <1>7, <4>1
    <3> QED
      BY <3>1, <3>2
  <2> QED
    BY <2>3, <2>5
<1>8. ASSUME stage[t] = 1, old.by = NoMiner
      PROVE  thoughts' \in [Nodes -> [ThoughtJobs -> ThoughtRec]] /\ BeingStored'
  <2>1. thoughts' = thoughts
    BY <1>1, <1>8 DEF Embedded, j, m
  <2>2. BeingStored'
    <3> SUFFICES ASSUME NEW p \in Nodes, NEW i \in ThoughtJobs,
                        thoughts[p][i].by # NoMiner, thoughts[p][i].emb = NoMiner
                 PROVE  \E x \in Tasks : /\ At(x) = p /\ stage'[x] = 1
                                         /\ task[x].topic = "thought" /\ task[x].ref = i
      BY <1>3, <2>1 DEF BeingStored, At, Receiver
    <3>1. PICK x \in Tasks : /\ At(x) = p /\ stage[x] = 1
                             /\ task[x].topic = "thought" /\ task[x].ref = i
      BY <1>0 DEF MemInv, BeingStored
    <3>2. x # t
      BY <1>8, <3>1 DEF n, e, j
    <3> QED
      BY <1>3, <3>1, <3>2
  <2> QED
    BY <1>5, <2>1, <2>2
<1>9. ASSUME stage[t] = 1, old.by # NoMiner
      PROVE  thoughts' \in [Nodes -> [ThoughtJobs -> ThoughtRec]] /\ BeingStored'
  <2>1. thoughts' = [thoughts EXCEPT ![n][j].emb = m]
    BY <1>1, <1>9 DEF Embedded, j, m
  <2>2. [old EXCEPT !.emb = m] \in ThoughtRec /\ [old EXCEPT !.emb = m].emb = m
    BY <1>6 DEF ThoughtRec
  <2>3. /\ thoughts' \in [Nodes -> [ThoughtJobs -> ThoughtRec]]
        /\ \A p \in Nodes, i \in ThoughtJobs :
              thoughts'[p][i] = IF p = n /\ i = j THEN [old EXCEPT !.emb = m] ELSE thoughts[p][i]
    BY <1>3, <1>5, <1>6, <2>1, <2>2
  <2>4. BeingStored'
    <3> SUFFICES ASSUME NEW p \in Nodes, NEW i \in ThoughtJobs,
                        thoughts'[p][i].by # NoMiner, thoughts'[p][i].emb = NoMiner
                 PROVE  \E x \in Tasks : /\ At(x) = p /\ stage'[x] = 1
                                         /\ task[x].topic = "thought" /\ task[x].ref = i
      BY <1>3 DEF BeingStored, At, Receiver
    <3>1. ~ (p = n /\ i = j)
      BY <1>6, <2>2, <2>3
    <3>2. PICK x \in Tasks : /\ At(x) = p /\ stage[x] = 1
                             /\ task[x].topic = "thought" /\ task[x].ref = i
      BY <1>0, <2>3, <3>1 DEF MemInv, BeingStored
    <3>3. x # t
      BY <3>1, <3>2 DEF n, e, j
    <3> QED
      BY <1>3, <3>2, <3>3
  <2> QED
    BY <2>3, <2>4
<1>10. thoughts' \in [Nodes -> [ThoughtJobs -> ThoughtRec]] /\ BeingStored'
  BY <1>2, <1>7, <1>8, <1>9
<1>11. MemoryTypeOK'
  BY <1>0, <1>1, <1>3, <1>10 DEF NetInv, MemoryTypeOK
<1>12. RollupStored' /\ ScoreMeasured'
  BY <1>0, <1>1, <1>3, RollupsSame DEF MemInv, ScoreMeasured
<1>13. Measured'
  <2>1. ASSUME NEW x \in Tasks, stage'[x] = 1, task[x].topic = "challenge"
        PROVE  <<task[x].ref, At(x)>> \in inferred
    <3>1. x # t
      BY <1>1, <2>1 DEF e
    <3> QED
      BY <1>0, <1>3, <2>1, <3>1 DEF MemInv, Measured
  <2> QED
    BY <1>0, <1>1, <1>3, <2>1 DEF MemInv, Measured, Asked, At, Receiver
<1> QED
  BY <1>3, <1>10, <1>11, <1>12, <1>13 DEF MemoryInv, MemInv
-----------------------------------------------------------------------------
(* Steps that only the rollup knows about.                                 *)
LEMMA RollupStepKept ==
  ASSUME MemoryInv, BeginRollup \/ RollupFails \/ \E model \in {"named", "any"} : StoreRollup(model)
  PROVE  MemoryInv'
<1>0. NetInv /\ MemInv /\ MemoryTypeOK
  BY DEF MemoryInv, MemInv
<1>1. UNCHANGED <<netVars, stage, thoughts, finished, bench, inferred, scores, audience>>
  BY DEF BeginRollup, RollupFails, StoreRollup
<1>2. NetInv' /\ UNCHANGED <<seen, task>>
  BY <1>0, <1>1, NetSame DEF netVars
<1>3. \A f : Published(f)' <=> Published(f)
  BY <1>2 DEF Published
<1>4. /\ rollup' \in [phase : {"idle", "waiting", "failed", "stored", "sent"}, jobs : SUBSET ThoughtJobs]
      /\ rolled' \in [Nodes -> {"none", "named", "any", "used"}]
      /\ RollupStored'
  <2>1. /\ rollup \in [phase : {"idle", "waiting", "failed", "stored", "sent"}, jobs : SUBSET ThoughtJobs]
        /\ rolled \in [Nodes -> {"none", "named", "any", "used"}] /\ RollupStored
    BY <1>0 DEF MemInv, MemoryTypeOK
  <2>2. CASE BeginRollup
    <3>1. rollup' = [phase |-> "waiting", jobs |-> {j \in ThoughtJobs : thoughts[Seq0][j].emb # NoMiner}]
          /\ rolled' = rolled
      BY <2>2 DEF BeginRollup
    <3>2. {j \in ThoughtJobs : thoughts[Seq0][j].emb # NoMiner} \in SUBSET ThoughtJobs
      OBVIOUS
    <3> QED
      BY <1>3, <2>1, <3>1, <3>2 DEF RollupStored
  <2>3. CASE RollupFails
    <3>1. rollup' = [rollup EXCEPT !.phase = "failed"] /\ rolled' = rolled
      BY <2>3 DEF RollupFails
    <3> QED
      BY <1>3, <2>1, <3>1 DEF RollupStored
  <2>4. ASSUME NEW model \in {"named", "any"}, StoreRollup(model)
        PROVE  <1>4!1 /\ <1>4!2 /\ <1>4!3
    <3>1. rollup' = [rollup EXCEPT !.phase = "stored"] /\ rolled' = [rolled EXCEPT ![Seq0] = model]
      BY <2>4 DEF StoreRollup, Upserted
    <3>2. model # "none" /\ model \in {"none", "named", "any", "used"}
      OBVIOUS
    <3>3. rolled'[Seq0] # "none"
      BY <2>1, <3>1, <3>2, MemoryInputs
    <3> QED
      BY <2>1, <3>1, <3>2, <3>3 DEF RollupStored
  <2> QED
    BY <2>2, <2>3, <2>4
<1>5. MemoryTypeOK'
  BY <1>0, <1>1, <1>2, <1>4 DEF NetInv, MemoryTypeOK
<1>6. Awaited' /\ ScoreMeasured'
  BY <1>0, <1>1, <1>2 DEF MemInv, Awaited, ScoreMeasured, At, Receiver
<1>7. BeingStored'
  BY <1>0, <1>1, <1>2, StoringSame DEF Steady
<1>8. Measured'
  BY <1>0, <1>1, <1>2, <1>3 DEF MemInv, Measured, Asked, At, Receiver
<1> QED
  BY <1>2, <1>4, <1>5, <1>6, <1>7, <1>8 DEF MemoryInv, MemInv

LEMMA SendRollupKept ==
  ASSUME MemoryInv, SendRollup
  PROVE  MemoryInv'
<1>0. NetInv /\ MemInv /\ MemoryTypeOK
  BY DEF MemoryInv, MemInv
<1>1. /\ rollup.phase = "stored" /\ rollup' = [rollup EXCEPT !.phase = "sent"]
      /\ Broadcast(Seq0, RollupMsg) /\ Heard(Seq0, RollupMsg)
      /\ UNCHANGED <<stage, thoughts, finished, rolled, bench, inferred, scores>>
  BY DEF SendRollup, Sendable
<1>2. NetInv' /\ \A f : Published(f)' <=> Published(f) \/ f = RollupMsg
  BY <1>0, <1>1, BroadcastKept, EnvelopeFacts, MemoryInputs
<1>3. UNCHANGED task
  BY <1>1 DEF Broadcast
<1>4. MemoryTypeOK'
  BY <1>0, <1>1, <1>2 DEF NetInv, MemoryTypeOK
<1>5. Awaited' /\ ScoreMeasured'
  BY <1>0, <1>1, <1>3 DEF MemInv, Awaited, ScoreMeasured, At, Receiver
<1>6. BeingStored'
  BY <1>0, <1>1, <1>3, StoringSame DEF Steady
<1>7. RollupStored'
  BY <1>0, <1>1 DEF MemInv, RollupStored
<1>8. Measured'
  BY <1>0, <1>1, <1>2, <1>3, Topics DEF MemInv, Measured, Asked, At, Receiver
<1> QED
  BY <1>2, <1>4, <1>5, <1>6, <1>7, <1>8 DEF MemoryInv, MemInv

LEMMA ReceiveRollupKept ==
  ASSUME MemoryInv, NEW t \in Tasks, ReceiveRollup(t)
  PROVE  MemoryInv'
<1> DEFINE n == At(t)
           e == task[t]
<1>0. NetInv /\ MemInv /\ MemoryTypeOK
  BY DEF MemoryInv, MemInv
<1>1. /\ stage[t] > 0 /\ e.topic = "rollup" /\ stage' = [stage EXCEPT ![t] = @ - 1]
      /\ rolled' = [rolled EXCEPT ![n] = "used"]
      /\ UNCHANGED <<netVars, thoughts, finished, rollup, bench, inferred, scores, audience>>
  BY DEF ReceiveRollup, Statement, Upserted
<1>2. stage[t] - 1 \in 0 .. 1
  BY <1>0, <1>1 DEF MemoryTypeOK
<1>3. /\ NetInv' /\ stage' \in [Tasks -> 0 .. 2] /\ Awaited'
      /\ e \in Envelopes /\ n \in Nodes /\ Published(e)
      /\ \A x \in Tasks : stage'[x] = IF x = t THEN stage[t] - 1 ELSE stage[x]
      /\ UNCHANGED <<seen, task>> /\ \A f : Published(f)' <=> Published(f)
  BY <1>1, <1>2, StatementFacts
<1>4. e = RollupMsg
  BY <1>1, <1>3, EnvelopeFacts
<1> HIDE DEF n
<1>5. rolled \in [Nodes -> {"none", "named", "any", "used"}] /\ rolled[Seq0] # "none"
  BY <1>0, <1>3, <1>4 DEF MemoryTypeOK, MemInv, RollupStored
<1>6. rolled' \in [Nodes -> {"none", "named", "any", "used"}] /\ rolled'[Seq0] # "none"
  BY <1>1, <1>3, <1>5, MemoryInputs
<1>7. MemoryTypeOK'
  BY <1>0, <1>1, <1>3, <1>6 DEF NetInv, MemoryTypeOK
<1>8. BeingStored'
  BY <1>0, <1>1, <1>3, StoringGoesOn
<1>9. RollupStored' /\ ScoreMeasured'
  BY <1>0, <1>1, <1>6 DEF MemInv, RollupStored, ScoreMeasured
<1>10. Measured'
  <2>1. ASSUME NEW x \in Tasks, stage'[x] = 1, task[x].topic = "challenge"
        PROVE  <<task[x].ref, At(x)>> \in inferred
    <3>1. x # t
      BY <1>1, <2>1 DEF e
    <3> QED
      BY <1>0, <1>3, <2>1, <3>1 DEF MemInv, Measured
  <2> QED
    BY <1>0, <1>1, <1>3, <2>1 DEF MemInv, Measured, Asked, At, Receiver
<1> QED
  BY <1>3, <1>7, <1>8, <1>9, <1>10 DEF MemoryInv, MemInv
-----------------------------------------------------------------------------
(* Steps of the sequencer's side of a benchmark.                           *)
LEMMA AskKept ==
  ASSUME MemoryInv, NEW b \in Benchmarks, NEW m \in MinerNodes, Ask(b, m)
  PROVE  MemoryInv'
<1>0. NetInv /\ MemInv /\ MemoryTypeOK
  BY DEF MemoryInv, MemInv
<1>1. /\ bench[b].phase = "idle" /\ bench' = [bench EXCEPT ![b] = [phase |-> "waiting", miner |-> m]]
      /\ Broadcast(Seq0, Challenge(b, m)) /\ Heard(Seq0, Challenge(b, m))
      /\ UNCHANGED <<stage, thoughts, finished, rollup, rolled, inferred, scores>>
  BY DEF Ask
<1>2. NetInv' /\ \A f : Published(f)' <=> Published(f) \/ f = Challenge(b, m)
  BY <1>0, <1>1, BroadcastKept, EnvelopeFacts, MemoryInputs
<1>3. UNCHANGED task
  BY <1>1 DEF Broadcast
<1>4. /\ bench' \in [Benchmarks -> BenchRec]
      /\ bench'[b] = [phase |-> "waiting", miner |-> m]
      /\ \A c \in Benchmarks : c # b => bench'[c] = bench[c]
  <2>1. [phase |-> "waiting", miner |-> m] \in BenchRec
    BY DEF BenchRec
  <2>2. bench \in [Benchmarks -> BenchRec]
    BY <1>0 DEF MemoryTypeOK
  <2> QED
    BY <1>1, <2>1, <2>2
<1>5. MemoryTypeOK'
  BY <1>0, <1>1, <1>2, <1>4 DEF NetInv, MemoryTypeOK
<1>6. Awaited'
  BY <1>0, <1>1, <1>3 DEF MemInv, Awaited, At, Receiver
<1>7. BeingStored'
  BY <1>0, <1>1, <1>3, StoringSame DEF Steady
<1>8. RollupStored'
  BY <1>0, <1>1, <1>2, Topics, RollupsSame
<1>9. ScoreMeasured'
  <2> SUFFICES ASSUME NEW p \in MinerNodes, scores[p] # 0
               PROVE  /\ bench'[scores[p]] = [phase |-> "committed", miner |-> p]
                      /\ <<scores[p], p>> \in inferred
    BY <1>1 DEF ScoreMeasured
  <2>1. /\ bench[scores[p]] = [phase |-> "committed", miner |-> p] /\ <<scores[p], p>> \in inferred
        /\ scores[p] \in Benchmarks
    BY <1>0 DEF MemInv, ScoreMeasured, MemoryTypeOK
  <2>2. scores[p] # b
    BY <1>1, <2>1
  <2> QED
    BY <1>4, <2>1, <2>2
<1>10. \A c \in Benchmarks, p \in MinerNodes : Asked(c, p) => c # b /\ Asked(c, p)'
  BY <1>1, <1>4 DEF Asked
<1>11. Asked(b, m)'
  BY <1>4 DEF Asked
<1>12. Measured'
  <2>1. ASSUME NEW c \in Benchmarks, NEW p \in MinerNodes
        PROVE  /\ Published(Challenge(c, p))' \/ <<c, p>> \in inferred' => Asked(c, p)'
               /\ Published(Response(c, p))' => <<c, p>> \in inferred'
    <3>1. /\ Published(Challenge(c, p)) \/ <<c, p>> \in inferred => Asked(c, p)
          /\ Published(Response(c, p)) => <<c, p>> \in inferred
      BY <1>0 DEF MemInv, Measured
    <3>2. /\ Published(Challenge(c, p))' => Published(Challenge(c, p)) \/ (c = b /\ p = m)
          /\ Published(Response(c, p))' => Published(Response(c, p))
      BY <1>2, Topics
    <3> QED
      BY <1>1, <1>10, <1>11, <3>1, <3>2
  <2>2. ASSUME NEW x \in Tasks, stage'[x] = 1, task'[x].topic = "challenge"
        PROVE  <<task'[x].ref, At(x)>> \in inferred'
    BY <1>0, <1>1, <1>3, <2>2 DEF MemInv, Measured
  <2>3. ASSUME NEW c \in Benchmarks, bench'[c].phase \in {"answered", "committed"}
        PROVE  <<c, bench'[c].miner>> \in inferred'
    <3>1. c # b
      BY <1>4, <2>3
    <3> QED
      BY <1>0, <1>1, <1>4, <2>3, <3>1 DEF MemInv, Measured
  <2> QED
    BY <2>1, <2>2, <2>3, <1>3 DEF Measured, Challenge, Response, At, Receiver
<1> QED
  BY <1>2, <1>5, <1>6, <1>7, <1>8, <1>9, <1>12 DEF MemoryInv, MemInv

LEMMA CommittedRecord ==
  ASSUME NEW r, NEW m, r = [phase |-> "committed", miner |-> m]
  PROVE  r.phase = "committed"
  OBVIOUS

(* The phase of a benchmark moves on, what was asked of whom stays.        *)
LEMMA PhaseMoves ==
  ASSUME MemInv, NEW b \in Benchmarks, NEW p \in {"answered", "timed out", "committed"},
         bench[b].phase \in {"waiting", "answered"},
         bench' = [bench EXCEPT ![b].phase = p]
  PROVE  /\ bench' \in [Benchmarks -> BenchRec]
         /\ bench'[b].phase = p /\ bench'[b].miner = bench[b].miner
         /\ \A c \in Benchmarks : c # b => bench'[c] = bench[c]
         /\ \A c, m : c \in Benchmarks /\ Asked(c, m) => Asked(c, m)'
         /\ \A m \in MinerNodes : scores[m] # 0 =>
               scores[m] # b /\ bench'[scores[m]] = [phase |-> "committed", miner |-> m]
<1>0. bench \in [Benchmarks -> BenchRec] /\ scores \in [MinerNodes -> Benchmarks \cup {0}]
  BY DEF MemInv, MemoryTypeOK
<1> DEFINE new == [bench[b] EXCEPT !.phase = p]
<1>1. new \in BenchRec /\ new.phase = p /\ new.miner = bench[b].miner
  BY <1>0 DEF BenchRec
<1>2. bench' = [bench EXCEPT ![b] = new]
  OBVIOUS
<1> HIDE DEF new
<1>3. /\ bench' \in [Benchmarks -> BenchRec] /\ bench'[b] = new
      /\ \A c \in Benchmarks : c # b => bench'[c] = bench[c]
  BY <1>0, <1>1, <1>2
<1>4. \A c, m : c \in Benchmarks /\ Asked(c, m) => Asked(c, m)'
  BY <1>1, <1>3 DEF Asked
<1>5. ASSUME NEW m \in MinerNodes, scores[m] # 0
      PROVE  scores[m] # b /\ bench'[scores[m]] = [phase |-> "committed", miner |-> m]
  <2>1. bench[scores[m]] = [phase |-> "committed", miner |-> m] /\ scores[m] \in Benchmarks
    BY <1>0, <1>5 DEF MemInv, ScoreMeasured
  <2>2. bench[scores[m]].phase = "committed"
    BY <2>1, CommittedRecord, Zenon
  <2>3. scores[m] # b
    BY <2>2
  <2> QED
    BY <1>3, <2>1, <2>3
<1> QED
  BY <1>1, <1>3, <1>4, <1>5

LEMMA TimeoutKept ==
  ASSUME MemoryInv, NEW b \in Benchmarks, Timeout(b)
  PROVE  MemoryInv'
<1>0. NetInv /\ MemInv /\ MemoryTypeOK
  BY DEF MemoryInv, MemInv
<1>1. /\ bench[b].phase = "waiting" /\ bench' = [bench EXCEPT ![b].phase = "timed out"]
      /\ UNCHANGED <<netVars, stage, thoughts, finished, rollup, rolled, inferred, scores, audience>>
  BY DEF Timeout
<1>2. NetInv' /\ UNCHANGED <<seen, task>>
  BY <1>0, <1>1, NetSame DEF netVars
<1>3. \A f : Published(f)' <=> Published(f)
  BY <1>2 DEF Published
<1>4. /\ bench' \in [Benchmarks -> BenchRec] /\ bench'[b].phase = "timed out"
      /\ \A c \in Benchmarks : c # b => bench'[c] = bench[c]
      /\ \A c, m : c \in Benchmarks /\ Asked(c, m) => Asked(c, m)'
      /\ \A m \in MinerNodes : scores[m] # 0 =>
               scores[m] # b /\ bench'[scores[m]] = [phase |-> "committed", miner |-> m]
  BY <1>0, <1>1, PhaseMoves
<1>5. MemoryTypeOK'
  BY <1>0, <1>1, <1>2, <1>4 DEF NetInv, MemoryTypeOK
<1>6. Awaited'
  BY <1>0, <1>1, <1>2 DEF MemInv, Awaited, At, Receiver
<1>7. BeingStored'
  BY <1>0, <1>1, <1>2, StoringSame DEF Steady
<1>8. RollupStored'
  BY <1>0, <1>1, <1>3, RollupsSame
<1>9. ScoreMeasured'
  BY <1>0, <1>1, <1>4 DEF MemInv, ScoreMeasured
<1>10. Measured'
  BY <1>0, <1>1, <1>2, <1>3, <1>4 DEF MemInv, Measured, At, Receiver
<1> QED
  BY <1>2, <1>5, <1>6, <1>7, <1>8, <1>9, <1>10 DEF MemoryInv, MemInv

LEMMA CommitKept ==
  ASSUME MemoryInv, NEW b \in Benchmarks, Commit(b)
  PROVE  MemoryInv'
<1> DEFINE m == bench[b].miner
<1>0. NetInv /\ MemInv /\ MemoryTypeOK
  BY DEF MemoryInv, MemInv
<1>1. /\ bench[b].phase = "answered" /\ bench' = [bench EXCEPT ![b].phase = "committed"]
      /\ scores' = [scores EXCEPT ![m] = b]
      /\ UNCHANGED <<netVars, stage, thoughts, finished, rollup, rolled, inferred, audience>>
  BY DEF Commit
<1>2. NetInv' /\ UNCHANGED <<seen, task>>
  BY <1>0, <1>1, NetSame DEF netVars
<1>3. \A f : Published(f)' <=> Published(f)
  BY <1>2 DEF Published
<1>4. /\ bench' \in [Benchmarks -> BenchRec] /\ bench'[b].phase = "committed" /\ bench'[b].miner = m
      /\ \A c \in Benchmarks : c # b => bench'[c] = bench[c]
      /\ \A c, p : c \in Benchmarks /\ Asked(c, p) => Asked(c, p)'
      /\ \A p \in MinerNodes : scores[p] # 0 =>
               scores[p] # b /\ bench'[scores[p]] = [phase |-> "committed", miner |-> p]
  BY <1>0, <1>1, PhaseMoves
<1>5. <<b, m>> \in inferred /\ m \in MinerNodes
  BY <1>0, <1>1 DEF MemInv, Measured, MemoryTypeOK
<1> HIDE DEF m
<1>6. /\ scores' \in [MinerNodes -> Benchmarks \cup {0}] /\ scores'[m] = b
      /\ \A p \in MinerNodes : p # m => scores'[p] = scores[p]
  BY <1>0, <1>1, <1>5 DEF MemoryTypeOK
<1>7. MemoryTypeOK'
  BY <1>0, <1>1, <1>2, <1>4, <1>6 DEF NetInv, MemoryTypeOK
<1>8. Awaited'
  BY <1>0, <1>1, <1>2 DEF MemInv, Awaited, At, Receiver
<1>9. BeingStored'
  BY <1>0, <1>1, <1>2, StoringSame DEF Steady
<1>10. RollupStored'
  BY <1>0, <1>1, <1>3, RollupsSame
<1>11. bench'[b] = [phase |-> "committed", miner |-> m]
  BY <1>4 DEF BenchRec
<1>12. ScoreMeasured'
  <2> SUFFICES ASSUME NEW p \in MinerNodes, scores'[p] # 0
               PROVE  /\ bench'[scores'[p]] = [phase |-> "committed", miner |-> p]
                      /\ <<scores'[p], p>> \in inferred
    BY <1>1 DEF ScoreMeasured
  <2>1. CASE p = m
    BY <1>5, <1>6, <1>11, <2>1
  <2>2. CASE p # m
    BY <1>0, <1>4, <1>6, <2>2 DEF MemInv, ScoreMeasured
  <2> QED
    BY <2>1, <2>2
<1>13. Measured'
  <2>1. \A c \in Benchmarks : bench'[c].phase \in {"answered", "committed"} => <<c, bench'[c].miner>> \in inferred
    BY <1>0, <1>4, <1>5 DEF MemInv, Measured
  <2> QED
    BY <1>0, <1>1, <1>2, <1>3, <1>4, <2>1 DEF MemInv, Measured, At, Receiver
<1> QED
  BY <1>2, <1>7, <1>8, <1>9, <1>10, <1>12, <1>13 DEF MemoryInv, MemInv

LEMMA AnsweredKept ==
  ASSUME MemoryInv, NEW t \in Tasks, Answered(t)
  PROVE  MemoryInv'
<1> DEFINE e == task[t]
           b == e.ref
<1>0. NetInv /\ MemInv /\ MemoryTypeOK
  BY DEF MemoryInv, MemInv
<1>1. /\ stage[t] > 0 /\ e.topic = "response" /\ stage' = [stage EXCEPT ![t] = @ - 1]
      /\ bench' = IF bench[b].phase = "waiting" THEN [bench EXCEPT ![b].phase = "answered"] ELSE bench
      /\ UNCHANGED <<netVars, thoughts, finished, rollup, rolled, inferred, scores, audience>>
  BY DEF Answered, Statement, Pending
<1>2. stage[t] - 1 \in 0 .. 1
  BY <1>0, <1>1 DEF MemoryTypeOK
<1>3. /\ NetInv' /\ stage' \in [Tasks -> 0 .. 2] /\ Awaited'
      /\ e \in Envelopes /\ Published(e)
      /\ \A x \in Tasks : stage'[x] = IF x = t THEN stage[t] - 1 ELSE stage[x]
      /\ UNCHANGED <<seen, task>> /\ \A f : Published(f)' <=> Published(f)
  BY <1>1, <1>2, StatementFacts
<1>4. b \in Benchmarks /\ e.from \in MinerNodes /\ e = Response(b, e.from)
  BY <1>1, <1>3, EnvelopeFacts
<1>5. <<b, e.from>> \in inferred /\ bench[b].miner = e.from
  BY <1>0, <1>3, <1>4 DEF MemInv, Measured, Asked
<1>6. \A x \in Tasks : stage'[x] = 1 /\ task[x].topic = "challenge" => <<task[x].ref, At(x)>> \in inferred
  <2> SUFFICES ASSUME NEW x \in Tasks, stage'[x] = 1, task[x].topic = "challenge"
               PROVE  <<task[x].ref, At(x)>> \in inferred
    OBVIOUS
  <2>1. x # t
    BY <1>1
  <2> QED
    BY <1>0, <1>3, <2>1 DEF MemInv, Measured
<1>7. BeingStored'
  BY <1>0, <1>1, <1>3, StoringGoesOn
<1>8. RollupStored'
  BY <1>0, <1>1, <1>3, RollupsSame
<1> HIDE DEF b
<1>9. bench' \in [Benchmarks -> BenchRec] /\ ScoreMeasured' /\ Measured'
  <2>1. CASE bench[b].phase = "waiting"
    <3>1. /\ bench' \in [Benchmarks -> BenchRec]
          /\ bench'[b].phase = "answered" /\ bench'[b].miner = bench[b].miner
          /\ \A c \in Benchmarks : c # b => bench'[c] = bench[c]
          /\ \A c, m : c \in Benchmarks /\ Asked(c, m) => Asked(c, m)'
          /\ \A m \in MinerNodes : scores[m] # 0 =>
                scores[m] # b /\ bench'[scores[m]] = [phase |-> "committed", miner |-> m]
      BY <1>0, <1>1, <1>4, <2>1, PhaseMoves
    <3>2. \A c \in Benchmarks : bench'[c].phase \in {"answered", "committed"} => <<c, bench'[c].miner>> \in inferred
      BY <1>0, <1>5, <3>1 DEF MemInv, Measured
    <3>3. Measured'
      BY <1>0, <1>1, <1>3, <1>6, <3>1, <3>2 DEF MemInv, Measured, At, Receiver
    <3>4. ScoreMeasured'
      BY <1>0, <1>1, <3>1 DEF MemInv, ScoreMeasured
    <3> QED
      BY <3>1, <3>3, <3>4
  <2>2. CASE bench[b].phase # "waiting"
    <3>1. bench' = bench
      BY <1>1, <2>2
    <3>2. bench' \in [Benchmarks -> BenchRec] /\ ScoreMeasured'
      BY <1>0, <1>1, <3>1 DEF MemInv, MemoryTypeOK, ScoreMeasured
    <3>3. Measured'
      BY <1>0, <1>1, <1>3, <1>6, <3>1 DEF MemInv, Measured, Asked, At, Receiver
    <3> QED
      BY <3>2, <3>3
  <2> QED
    BY <2>1, <2>2
<1>10. MemoryTypeOK'
  BY <1>0, <1>1, <1>3, <1>9 DEF NetInv, MemoryTypeOK
<1> QED
  BY <1>3, <1>7, <1>8, <1>9, <1>10 DEF MemoryInv, MemInv
-----------------------------------------------------------------------------
(* Steps of the miner's side of a benchmark.                               *)
LEMMA ChallengeKept ==
  ASSUME MemoryInv, NEW t \in Tasks, IgnoreChallenge(t) \/ RunBenchmark(t)
  PROVE  MemoryInv'
<1> DEFINE n == At(t)
           e == task[t]
<1>0. NetInv /\ MemInv /\ MemoryTypeOK
  BY DEF MemoryInv, MemInv
<1>1. /\ stage[t] = 2 /\ e.topic = "challenge"
      /\ UNCHANGED <<netVars, thoughts, finished, rollup, rolled, bench, scores, audience>>
  BY DEF IgnoreChallenge, RunBenchmark, memVars
<1>2. PICK i \in 0 .. 1 : /\ stage' = [stage EXCEPT ![t] = i]
                          /\ \/ i = 0 /\ inferred' = inferred
                             \/ i = 1 /\ e.from = n /\ inferred' = inferred \cup {<<e.ref, n>>}
  <2>1. CASE IgnoreChallenge(t)
    BY <2>1 DEF IgnoreChallenge, memVars
  <2>2. CASE RunBenchmark(t)
    BY <2>2 DEF RunBenchmark, Addressed
  <2> QED
    BY <2>1, <2>2
<1>3. /\ NetInv' /\ stage' \in [Tasks -> 0 .. 2] /\ Awaited'
      /\ e \in Envelopes /\ n \in Nodes /\ Subscribes(n, e) /\ Published(e)
      /\ \A x \in Tasks : stage'[x] = IF x = t THEN i ELSE stage[x]
      /\ UNCHANGED <<seen, task>> /\ \A f : Published(f)' <=> Published(f)
  <2>1. stage[t] > 0 /\ stage' = [stage EXCEPT ![t] = i] /\ UNCHANGED <<netVars, audience>>
    BY <1>1, <1>2
  <2> QED
    BY <2>1, StatementFacts
<1>4. e.ref \in Benchmarks /\ e.from \in MinerNodes /\ e = Challenge(e.ref, e.from)
  BY <1>1, <1>3, EnvelopeFacts
<1>5. Asked(e.ref, e.from)
  BY <1>0, <1>3, <1>4 DEF MemInv, Measured
<1>6. n \in MinerNodes
  BY <1>1, <1>3 DEF Subscribes, MinerNodes
<1>7. inferred \subseteq inferred' /\ inferred' \subseteq Benchmarks \X MinerNodes
  BY <1>0, <1>2, <1>4, <1>6 DEF MemoryTypeOK
<1>8. MemoryTypeOK'
  BY <1>0, <1>1, <1>3, <1>7 DEF NetInv, MemoryTypeOK
<1>9. BeingStored'
  BY <1>0, <1>1, <1>3, StoringGoesOn
<1>10. RollupStored'
  BY <1>0, <1>1, <1>3, RollupsSame
<1>11. ScoreMeasured'
  BY <1>0, <1>1, <1>7 DEF MemInv, ScoreMeasured
<1>12. Measured'
  <2>1. ASSUME NEW b \in Benchmarks, NEW m \in MinerNodes
        PROVE  /\ Published(Challenge(b, m)) \/ <<b, m>> \in inferred' => Asked(b, m)
               /\ Published(Response(b, m)) => <<b, m>> \in inferred'
    BY <1>0, <1>2, <1>5, <1>7 DEF MemInv, Measured
  <2>2. ASSUME NEW x \in Tasks, stage'[x] = 1, task[x].topic = "challenge"
        PROVE  <<task[x].ref, At(x)>> \in inferred'
    <3>1. CASE x = t
      BY <1>2, <1>3, <2>2, <3>1
    <3>2. CASE x # t
      BY <1>0, <1>3, <1>7, <2>2, <3>2 DEF MemInv, Measured
    <3> QED
      BY <3>1, <3>2
  <2>3. \A b \in Benchmarks : bench[b].phase \in {"answered", "committed"} => <<b, bench[b].miner>> \in inferred'
    BY <1>0, <1>7 DEF MemInv, Measured
  <2> QED
    BY <1>1, <1>3, <2>1, <2>2, <2>3 DEF Measured, Asked, Challenge, Response, At, Receiver
<1> QED
  BY <1>3, <1>8, <1>9, <1>10, <1>11, <1>12 DEF MemoryInv, MemInv

LEMMA RespondKept ==
  ASSUME MemoryInv, NEW t \in Tasks, Respond(t)
  PROVE  MemoryInv'
<1> DEFINE n == At(t)
           e == task[t]
           r == Response(e.ref, n)
<1>0. NetInv /\ MemInv /\ MemoryTypeOK
  BY DEF MemoryInv, MemInv
<1>1. /\ stage[t] = 1 /\ e.topic = "challenge" /\ stage' = [stage EXCEPT ![t] = 0]
      /\ Broadcast(n, r) /\ Heard(n, r) /\ UNCHANGED memVars
  BY DEF Respond
<1>2. n \in Nodes /\ <<e.ref, n>> \in inferred /\ e.ref \in Benchmarks /\ n \in MinerNodes
  BY <1>0, <1>1, AtNode DEF MemInv, Measured, MemoryTypeOK
<1>3. r \in Envelopes
  BY <1>2, EnvelopeFacts
<1>4. NetInv' /\ \A f : Published(f)' <=> Published(f) \/ f = r
  BY <1>0, <1>1, <1>2, <1>3, BroadcastKept
<1>5. task' = task
  BY <1>1 DEF Broadcast
<1>6. stage' \in [Tasks -> 0 .. 2] /\ \A x \in Tasks : stage'[x] = IF x = t THEN 0 ELSE stage[x]
  <2>1. stage \in [Tasks -> 0 .. 2] /\ 0 \in 0 .. 2
    BY <1>0 DEF MemoryTypeOK
  <2> QED
    BY <1>1, <2>1
<1>7. MemoryTypeOK'
  BY <1>0, <1>1, <1>4, <1>6 DEF NetInv, MemoryTypeOK, memVars
<1>8. Awaited'
  BY <1>0, <1>5, <1>6 DEF MemInv, Awaited, At, Receiver
<1>9. BeingStored'
  BY <1>0, <1>1, <1>5, <1>6, StoringGoesOn DEF memVars
<1>10. RollupStored'
  <2>1. RollupMsg # r
    BY Topics
  <2> QED
    BY <1>0, <1>1, <1>4, <2>1, RollupsSame DEF memVars
<1>11. ScoreMeasured'
  BY <1>0, <1>1 DEF MemInv, ScoreMeasured, memVars
<1>12. Measured'
  <2>1. ASSUME NEW b \in Benchmarks, NEW m \in MinerNodes
        PROVE  /\ Published(Challenge(b, m))' => Published(Challenge(b, m))
               /\ Published(Response(b, m))' => Published(Response(b, m)) \/ (b = e.ref /\ m = n)
    BY <1>4, Topics
  <2> QED
    BY <1>0, <1>1, <1>2, <1>5, <1>6, <2>1 DEF MemInv, Measured, Asked, memVars, At, Receiver
<1> QED
  BY <1>4, <1>7, <1>8, <1>9, <1>10, <1>11, <1>12 DEF MemoryInv, MemInv
-----------------------------------------------------------------------------
LEMMA MemoryStart == MemoryInit => MemoryInv
<1> SUFFICES ASSUME MemoryInit PROVE MemoryInv
  OBVIOUS
<1>1. OverlayInit
  BY DEF MemoryInit
<1>2. OverlayTypeOK
  <2>1. wire \in [Wires -> Seq(Envelopes)]
    BY <1>1 DEF OverlayInit
  <2> QED
    BY <1>1, <2>1, LinksAssumption DEF OverlayInit, OverlayTypeOK
<1>3. audience \in [Envelopes -> SUBSET Nodes] /\ \A e \in Envelopes : audience[e] = {}
  BY DEF MemoryInit
<1>4. Counted /\ Registered
  BY <1>1 DEF OverlayInit, Counted, Registered
<1>5. Reached
  BY <1>3 DEF Reached
<1>6. Genuine
  BY <1>1 DEF OverlayInit, Genuine, OnWire
<1>7. NoThought \in ThoughtRec /\ NoThought.by = NoMiner
  BY DEF NoThought, ThoughtRec
<1>8. [phase |-> "idle", miner |-> NoMiner] \in BenchRec
  BY DEF BenchRec
<1>9. MemoryTypeOK
  <2>1. stage \in [Tasks -> 0 .. 2] /\ rolled \in [Nodes -> {"none", "named", "any", "used"}]
    BY DEF MemoryInit
  <2>2. thoughts \in [Nodes -> [ThoughtJobs -> ThoughtRec]] /\ bench \in [Benchmarks -> BenchRec]
    BY <1>7, <1>8 DEF MemoryInit
  <2>3. rollup \in [phase : {"idle", "waiting", "failed", "stored", "sent"}, jobs : SUBSET ThoughtJobs]
    BY DEF MemoryInit
  <2>4. finished \subseteq Thinkers /\ inferred \subseteq Benchmarks \X MinerNodes
        /\ scores \in [MinerNodes -> Benchmarks \cup {0}]
    BY DEF MemoryInit
  <2> QED
    BY <1>2, <1>3, <2>1, <2>2, <2>3, <2>4 DEF MemoryTypeOK
<1>10. Awaited /\ BeingStored
  BY <1>7 DEF MemoryInit, Awaited, BeingStored
<1>11. \A f : ~ Published(f)
  BY <1>1 DEF OverlayInit, Published
<1>12. RollupStored /\ ScoreMeasured
  BY <1>11 DEF MemoryInit, RollupStored, ScoreMeasured, MinerNodes
<1>13. Measured
  BY <1>11 DEF MemoryInit, Measured
<1> QED
  BY <1>2, <1>3, <1>4, <1>5, <1>6, <1>9, <1>10, <1>12, <1>13 DEF MemoryInv, NetInv, MemInv

LEMMA MemoryStep == MemoryInv /\ [MemoryNext]_memoryVars => MemoryInv'
<1> SUFFICES ASSUME MemoryInv, [MemoryNext]_memoryVars PROVE MemoryInv'
  OBVIOUS
<1>0. NetInv /\ MemInv
  BY DEF MemoryInv
<1>1. CASE LinkStep /\ UNCHANGED <<stage, memVars, audience>>
  <2>1. UNCHANGED <<seen, task>>
    BY <1>1 DEF LinkStep, Connected, Refused, Refresh, Break, LoopEnds
  <2> QED
    BY <1>0, <1>1, <2>1, SocketStepKept, MemSame DEF MemoryInv
<1>2. ASSUME NEW w \in Wires, Receive(w) PROVE MemoryInv'
  <2>1. CASE Drop(w) /\ UNCHANGED <<stage, memVars, audience>>
    <3>1. UNCHANGED <<seen, task>>
      BY <2>1 DEF Drop
    <3> QED
      BY <1>0, <2>1, <3>1, DropKept, MemSame DEF MemoryInv
  <2>2. CASE Take(w) /\ ~ (Drop(w) /\ UNCHANGED <<stage, memVars, audience>>)
    BY <1>2, <2>2, TakeMemKept DEF Receive
  <2> QED
    BY <1>2, <2>1, <2>2 DEF Receive
<1>3. ASSUME NEW t \in Tasks,
             \/ PassOn(t) \/ StoreThought(t) \/ ReceiveRollup(t) \/ IgnoreChallenge(t)
             \/ RunBenchmark(t) \/ Respond(t) \/ Answered(t)
      PROVE  MemoryInv'
  BY <1>3, PassOnKept, StoreThoughtKept, ReceiveRollupKept, ChallengeKept, RespondKept, AnsweredKept
<1>4. ASSUME NEW th \in Thinkers, Think(th[1], th[2]) PROVE MemoryInv'
  BY <1>4, ThinkKept
<1>5. CASE BeginRollup \/ RollupFails \/ \E model \in {"named", "any"} : StoreRollup(model)
  BY <1>5, RollupStepKept
<1>6. CASE SendRollup
  BY <1>6, SendRollupKept
<1>7. ASSUME NEW b \in Benchmarks, (\E m \in MinerNodes : Ask(b, m)) \/ Timeout(b) \/ Commit(b)
      PROVE  MemoryInv'
  BY <1>7, AskKept, TimeoutKept, CommitKept
<1>8. CASE UNCHANGED memoryVars
  <2>1. UNCHANGED <<netVars, stage, memVars, audience>>
    BY <1>8 DEF memoryVars
  <2>2. UNCHANGED <<seen, task>>
    BY <2>1 DEF netVars
  <2> QED
    BY <1>0, <2>1, <2>2, NetSame, MemSame DEF MemoryInv
<1> QED
  BY <1>1, <1>2, <1>3, <1>4, <1>5, <1>6, <1>7, <1>8 DEF MemoryNext

(* The overlay's and the memory's inductive invariant.                     *)
THEOREM MemoryInvariant == MemorySpec => []MemoryInv
<1> QED
  BY MemoryStart, MemoryStep, PTL DEF MemorySpec

(* Whatever sockets double, break and are forgotten late, a handler gets   *)
(* an envelope once; while none breaks, every peer of its origin gets it.  *)
THEOREM GossipIsHeardOnce == MemorySpec => []HeardOnce
<1>1. MemoryInv => HeardOnce
  <2> SUFFICES ASSUME MemoryInv PROVE HeardOnce
    OBVIOUS
  <2>0. NetInv /\ MemInv /\ audience \in [Envelopes -> SUBSET Nodes]
    BY DEF MemoryInv, NetInv
  <2>1. HandledOnce
    BY <2>0 DEF NetInv, Counted, HandledOnce
  <2>2. PeersHear
    <3> SUFFICES ASSUME Quiet, breaks = 0, NEW e \in Envelopes, NEW n \in audience[e]
                 PROVE  delivered[n][e] = 1
      BY DEF PeersHear
    <3>1. Reaches(e, n) /\ n \in Nodes
      BY <2>0 DEF NetInv, Reached
    <3>2. \A w \in Wires : ~ OnWire(e, w)
      BY DEF Quiet, OnWire
    <3>3. e \in seen[n]
      BY <3>1, <3>2 DEF Reaches
    <3> QED
      BY <2>0, <3>1, <3>3 DEF NetInv, Counted
  <2> QED
    BY <2>0, <2>1, <2>2 DEF HeardOnce, MemInv
<1> QED
  BY <1>1, MemoryInvariant, PTL

(* Once the handlers are through every stored thought has its vector; no   *)
(* miner has a rollup before the sequencer; every score on the chain is of *)
(* a benchmark that its miner ran.                                         *)
THEOREM StoresAreGrounded == MemorySpec => []MemoryIsGrounded
<1>1. MemoryInv => MemoryIsGrounded
  <2> SUFFICES ASSUME MemoryInv PROVE MemoryIsGrounded
    OBVIOUS
  <2>0. NetInv /\ MemInv
    BY DEF MemoryInv
  <2>1. Indexed
    <3> SUFFICES ASSUME Quiet, NEW n \in Nodes, NEW j \in ThoughtJobs,
                        thoughts[n][j].by # NoMiner, thoughts[n][j].emb = NoMiner
                 PROVE  FALSE
      BY DEF Indexed
    <3>1. PICK t \in Tasks : stage[t] = 1
      BY <2>0 DEF MemInv, BeingStored
    <3>2. task[t] \in Envelopes
      BY <2>0, <3>1 DEF MemInv, Awaited
    <3> QED
      BY <3>2, MemoryInputs DEF Quiet
  <2> QED
    BY <2>0, <2>1 DEF MemoryIsGrounded, MemInv, RollupStored, RollupMirrored
<1> QED
  BY <1>1, MemoryInvariant, PTL
=============================================================================
