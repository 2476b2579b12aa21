------------------------- MODULE ShardManagerProof --------------------------
(***************************************************************************)
(* The placement driver, for every number of shards and nodes: replicas    *)
(* are on registered nodes, at most three a shard, no two on one node, and *)
(* led by the first.                                                       *)
(*                                                                         *)
(* A tick is a loop over the shards.  What a loop keeps is shown by taking *)
(* the first turn that would break it (WFMin).                             *)
(***************************************************************************)
EXTENDS ShardManager, FiniteSetTheorems, WellFoundedInduction, TLAPS

\* Every non-empty set of numbers has a least one.
LEMMA LeastExists ==
    ASSUME NEW X \in SUBSET Nat, X # {}
    PROVE  Min(X) \in X /\ \A x \in X : Min(X) <= x
<1> DEFINE R == {p \in Nat \X Nat : p[1] < p[2]}
<1>1. IsWellFoundedOn(R, Nat)
  BY NatLessThanWellFounded DEF OpToRel
<1>2. \E x \in X : \A y \in X : ~(<<y, x>> \in R)
  BY <1>1, WFMin
<1>3. PICK x \in X : \A y \in X : ~(<<y, x>> \in R)
  BY <1>2
<1>4. ASSUME NEW y \in X PROVE x <= y
  <2>1. <<y, x>> \in Nat \X Nat /\ <<y, x>>[1] = y /\ <<y, x>>[2] = x
    OBVIOUS
  <2> QED
    BY <1>3, <2>1
<1>5. \E z \in X : \A y \in X : z <= y
  BY <1>4
<1> QED
  BY <1>5 DEF Min

\* What a loop that counts to n has and every turn keeps, it has at the end.
LEMMA LoopKeeps ==
    ASSUME NEW n \in Nat, NEW K, 0 \in K, \A k \in 1 .. n : k - 1 \in K => k \in K
    PROVE  \A k \in 0 .. n : k \in K
<1> SUFFICES ASSUME NEW m \in 0 .. n, m \notin K PROVE FALSE
  OBVIOUS
<1> DEFINE X == {k \in 0 .. n : k \notin K}
<1>1. X \in SUBSET Nat /\ X # {}
  OBVIOUS
<1>2. Min(X) \in X /\ \A x \in X : Min(X) <= x
  BY <1>1, LeastExists
<1>3. PICK x \in X : \A y \in X : x <= y
  BY <1>2
<1>4. x \in 1 .. n
  BY <1>3
<1>5. x - 1 \in 0 .. n /\ x - 1 \notin X
  BY <1>3, <1>4
<1>6. x - 1 \in K
  BY <1>5
<1> QED
  BY <1>3, <1>4, <1>6

-----------------------------------------------------------------------------
(* tick *)

Shard == [leader : Nat, peers : Seq(Nat)]

\* At most three replicas, on the nodes N, led by the first
Fine(shard, N) ==
    /\ Len(shard.peers) <= 3
    /\ \A k \in 1 .. Len(shard.peers) : shard.peers[k] \in N
    /\ shard.leader # 0 => shard.peers # <<>> /\ shard.leader = shard.peers[1]

\* What was there is still there
Grown(old, new) ==
    /\ Len(old.peers) <= Len(new.peers)
    /\ \A k \in 1 .. Len(old.peers) : new.peers[k] = old.peers[k]
    /\ old.leader \in {0, new.leader}

\* The placements a tick may make of S on the nodes N
Placements(S, N) ==
    {T \in [DOMAIN S -> Shard] : \A i \in DOMAIN S : Fine(T[i], N) /\ Grown(S[i], T[i])}

\* The places of the replicas on a node, which Load counts
Spots(S, id) ==
    {p \in (DOMAIN S) \X (1 .. 3) : p[2] \in DOMAIN S[p[1]].peers /\ S[p[1]].peers[p[2]] = id}

\* There are finitely many places.
LEMMA SpotsFinite ==
    ASSUME NEW n \in Nat, NEW T, DOMAIN T = 1 .. n, NEW id PROVE IsFiniteSet(Spots(T, id))
<1>1. IsFiniteSet(1 .. n) /\ IsFiniteSet(1 .. 3)
  <2>1. \A k \in Nat : IsFiniteSet(1 .. k)
    BY FS_Interval
  <2> QED
    BY <2>1
<1>2. IsFiniteSet((1 .. n) \X (1 .. 3))
  BY <1>1, FS_Product
<1>3. Spots(T, id) \in SUBSET ((1 .. n) \X (1 .. 3))
  BY DEF Spots
<1> QED
  BY <1>2, <1>3, FS_Subset

\* A table of the replicas counts finitely many.
LEMMA LoadType == ASSUME NEW n \in Nat, NEW T, DOMAIN T = 1 .. n, NEW id PROVE Load(T, id) \in Nat
<1>1. Cardinality(Spots(T, id)) \in Nat
  BY SpotsFinite, FS_CardinalityType
<1> QED
  BY <1>1 DEF Load, Spots

\* The node chosen for a replica is one of those that are alive.
LEMMA BestAlive ==
    ASSUME NEW n \in Nat, NEW T, DOMAIN T = 1 .. n, NEW i \in 1 .. n,
           NEW N, NEW m \in Nat, m > 0, NEW order \in [1 .. m -> N]
    PROVE  Best(T, i, order) \in N
<1> DEFINE better == Eligible(T, i, order)
           least == {k \in better : \A j \in better : Load(T, order[k]) <= Load(T, order[j])}
           loads == {Load(T, order[k]) : k \in better}
<1>1. better \subseteq 1 .. m
  BY DEF Eligible
<1>2. CASE better = {}
  BY <1>2 DEF Best
<1>3. CASE better # {}
  <2> HIDE DEF better
  <2>1. loads \in SUBSET Nat /\ loads # {}
    BY <1>3, LoadType
  <2>2. PICK x \in loads : \A y \in loads : x <= y
    BY <2>1, LeastExists
  <2>3. PICK k \in better : x = Load(T, order[k])
    BY <2>2
  <2>4. k \in least
    BY <2>2, <2>3
  <2>5. least \in SUBSET Nat /\ least # {}
    <3>1. least \subseteq better /\ 1 .. m \subseteq Nat
      OBVIOUS
    <3> QED
      BY <1>1, <2>4, <3>1
  <2>6. Min(least) \in least
    BY <2>5, LeastExists
  <2>7. Min(least) \in 1 .. m
    BY <1>1, <2>6
  <2>8. Best(T, i, order) = order[Min(least)]
    BY <1>3 DEF Best, better
  <2> QED
    BY <2>7, <2>8
<1> QED
  BY <1>2, <1>3

\* A turn of the while loop keeps to the placements.
LEMMA PlacedKeeps ==
    ASSUME NEW S \in Seq(Shard), NEW N \in SUBSET Nat, NEW m \in Nat, m > 0, NEW order \in [1 .. m -> N],
           NEW T \in Placements(S, N), NEW i \in DOMAIN S
    PROVE  Placed(T, i, order) \in Placements(S, N)
<1>1. Len(S) \in Nat /\ DOMAIN S = 1 .. Len(S)
  OBVIOUS
<1>2. T \in [DOMAIN S -> Shard] /\ \A k \in DOMAIN S : Fine(T[k], N) /\ Grown(S[k], T[k])
  BY DEF Placements
<1>3. CASE ~Room(T[i], order)
  BY <1>3 DEF Placed
<1>4. CASE Room(T[i], order)
  <2> DEFINE b == Best(T, i, order)
             q == [T[i] EXCEPT !.peers = Append(@, b)]
             p == T[i].peers
  <2>1. b \in N /\ b \in Nat
    BY <1>1, <1>2, BestAlive
  <2>2. Placed(T, i, order) = [T EXCEPT ![i] = q]
    BY <1>2, <1>4 DEF Placed
  <2> HIDE DEF b
  <2>3. T[i] \in Shard /\ p \in Seq(Nat) /\ Len(p) < 3 /\ S[i].peers \in Seq(Nat)
    <3>1. T[i] \in Shard /\ S[i] \in Shard
      BY <1>1, <1>2
    <3>2. p \in Seq(Nat) /\ S[i].peers \in Seq(Nat)
      BY <3>1 DEF Shard
    <3> QED
      BY <1>4, <3>1, <3>2 DEF Room
  <2>4. Append(p, b) \in Seq(Nat) /\ Append(p, b) # <<>>
    <3>1. Append(p, b) \in Seq(Nat)
      BY <2>1, <2>3
    <3>2. Len(Append(p, b)) = Len(p) + 1 /\ Len(p) \in Nat
      BY <2>1, <2>3
    <3> QED
      BY <3>1, <3>2
  <2>5. q \in Shard /\ q.leader = T[i].leader /\ q.peers = Append(p, b)
    BY <2>3, <2>4 DEF Shard
  <2>6. /\ Len(Append(p, b)) = Len(p) + 1 /\ Append(p, b)[Len(p) + 1] = b
        /\ \A k \in 1 .. Len(p) : Append(p, b)[k] = p[k]
    BY <2>1, <2>3
  <2> HIDE DEF q
  <2>7. Fine(T[i], N) /\ Grown(S[i], T[i])
    BY <1>2
  <2>8. Fine(q, N)
    <3>1. ASSUME NEW k \in 1 .. (Len(p) + 1) PROVE Append(p, b)[k] \in N
      <4>1. k = Len(p) + 1 \/ k \in 1 .. Len(p)
        BY <2>3
      <4> QED
        BY <2>1, <2>6, <2>7, <4>1 DEF Fine
    <3>2. ASSUME q.leader # 0 PROVE Append(p, b) # <<>> /\ q.leader = Append(p, b)[1]
      <4>1. p # <<>> /\ T[i].leader = p[1]
        BY <2>5, <2>7, <3>2 DEF Fine
      <4>2. 1 \in 1 .. Len(p)
        BY <2>3, <4>1
      <4> QED
        BY <2>4, <2>5, <2>6, <4>1, <4>2
    <3>3. Len(q.peers) <= 3 /\ 1 .. Len(q.peers) = 1 .. (Len(p) + 1)
      BY <2>3, <2>5, <2>6
    <3> QED
      BY <2>5, <3>1, <3>2, <3>3 DEF Fine
  <2>9. Grown(S[i], q)
    BY <2>3, <2>5, <2>6, <2>7 DEF Grown
  <2>10. \A k \in DOMAIN S : [T EXCEPT ![i] = q][k] = IF k = i THEN q ELSE T[k]
    BY <1>2
  <2>11. [T EXCEPT ![i] = q] \in [DOMAIN S -> Shard]
    BY <1>2, <2>5
  <2> QED
    BY <1>2, <2>2, <2>8, <2>9, <2>10, <2>11 DEF Placements
<1> QED
  BY <1>3, <1>4

\* The while loop keeps to them.
LEMMA FilledKeeps ==
    ASSUME NEW S \in Seq(Shard), NEW N \in SUBSET Nat, NEW m \in Nat, m > 0, NEW order \in [1 .. m -> N],
           NEW T \in Placements(S, N), NEW i \in DOMAIN S
    PROVE  Filled(T, i, order) \in Placements(S, N)
<1>1. Placed(T, i, order) \in Placements(S, N)
  BY PlacedKeeps
<1>2. Placed(Placed(T, i, order), i, order) \in Placements(S, N)
  BY <1>1, PlacedKeeps
<1>3. Placed(Placed(Placed(T, i, order), i, order), i, order) \in Placements(S, N)
  BY <1>2, PlacedKeeps
<1> QED
  BY <1>3 DEF Filled

\* The order of nodes_ begins with a node that is alive.
LEMMA OrderStarts ==
    ASSUME NEW n \in Nat, NEW live \in SUBSET (1 .. n), live # {}, NEW order \in SetToSeqs(live)
    PROVE  \E m \in Nat : m > 0 /\ order \in [1 .. m -> live]
<1>1. IsFiniteSet(live)
  <2>1. IsFiniteSet(1 .. n)
    BY FS_Interval
  <2> QED
    BY <2>1, FS_Subset
<1>2. Cardinality(live) \in Nat /\ Cardinality(live) # 0
  BY <1>1, FS_CardinalityType, FS_EmptySet
<1>3. order \in [1 .. Cardinality(live) -> live]
  BY DEF SetToSeqs
<1> QED
  BY <1>2, <1>3

\* Leaders are appointed among replicas.
LEMMA LedKeeps ==
    ASSUME NEW N \in SUBSET Nat, 0 \notin N, NEW shard \in Shard, Fine(shard, N)
    PROVE  Led(shard) \in Shard /\ Fine(Led(shard), N) /\ Grown(shard, Led(shard))
<1>1. shard.peers \in Seq(Nat) /\ Len(shard.peers) \in Nat
  BY DEF Shard
<1>2. CASE shard.leader = 0 /\ shard.peers # <<>>
  <2> DEFINE q == [shard EXCEPT !.leader = shard.peers[1]]
  <2>1. Led(shard) = q
    BY <1>2 DEF Led
  <2>2. 1 \in 1 .. Len(shard.peers)
    BY <1>1, <1>2
  <2>3. q \in Shard /\ q.peers = shard.peers /\ q.leader = shard.peers[1]
    BY <1>1, <2>2 DEF Shard
  <2> HIDE DEF q
  <2> QED
    BY <1>1, <1>2, <2>1, <2>3 DEF Fine, Grown
<1>3. CASE ~(shard.leader = 0 /\ shard.peers # <<>>)
  <2>1. Led(shard) = shard
    BY <1>3 DEF Led
  <2> QED
    BY <1>1, <2>1 DEF Grown
<1> QED
  BY <1>2, <1>3

\* scheduleRebalance: the loop over the shards has a value after every turn, and it is a
\* placement.
LEMMA RebalancedLoop ==
    ASSUME NEW S \in Seq(Shard), NEW N \in SUBSET Nat, 0 \notin N, NEW m \in Nat, m > 0,
           NEW order \in [1 .. m -> N], \A i \in DOMAIN S : Fine(S[i], N)
    PROVE  \E g \in [0 .. Len(S) -> Placements(S, N)] :
              /\ g[0] = [k \in DOMAIN S |-> Led(S[k])]
              /\ \A i \in 1 .. Len(S) : g[i] = Filled(g[i - 1], i, order)
              /\ Rebalanced(S, order) = g[Len(S)]
<1> DEFINE n == Len(S)
           led == [k \in DOMAIN S |-> Led(S[k])]
           turn(T, i) == Filled(T, i, order)
           Loop(g, k) == g[0] = led /\ \A i \in 1 .. k : g[i] = turn(g[i - 1], i)
           P == Placements(S, N)
           upTo[i \in 0 .. n] == IF i = 0 THEN led ELSE turn(upTo[i - 1], i)
<1>1. n \in Nat /\ DOMAIN S = 1 .. n
  OBVIOUS
<1>2. led \in P
  <2>1. \A k \in DOMAIN S : Led(S[k]) \in Shard /\ Fine(Led(S[k]), N) /\ Grown(S[k], Led(S[k]))
    BY LedKeeps
  <2> QED
    BY <2>1 DEF Placements
<1>3. \A T \in P, i \in 1 .. n : turn(T, i) \in P
  BY <1>1, FilledKeeps
<1>4. Rebalanced(S, order) = upTo[n]
  BY DEF Rebalanced
<1> HIDE DEF n, led, turn, P
<1>5. \E g \in [0 .. n -> P] : Loop(g, n)
  <2> DEFINE K == {k \in 0 .. n : \E g \in [0 .. k -> P] : Loop(g, k)}
  <2>1. 0 \in K
    <3>1. [i \in 0 .. 0 |-> led] \in [0 .. 0 -> P] /\ Loop([i \in 0 .. 0 |-> led], 0)
      BY <1>2
    <3>2. \E g \in [0 .. 0 -> P] : Loop(g, 0)
      BY <3>1
    <3>3. 0 \in 0 .. n
      BY <1>1
    <3> QED
      BY <3>2, <3>3
  <2>2. ASSUME NEW k \in 1 .. n, k - 1 \in K PROVE k \in K
    <3>1. PICK g \in [0 .. (k - 1) -> P] : Loop(g, k - 1)
      BY <2>2
    <3> DEFINE h == [i \in 0 .. k |-> IF i = k THEN turn(g[k - 1], k) ELSE g[i]]
    <3>2. turn(g[k - 1], k) \in P
      BY <1>1, <1>3
    <3>3. h \in [0 .. k -> P]
      BY <1>1, <3>2
    <3>4. h[0] = led
      BY <1>1, <3>1
    <3>5. ASSUME NEW i \in 1 .. k PROVE h[i] = turn(h[i - 1], i)
      <4>1. h[i - 1] = g[i - 1]
        BY <1>1
      <4>2. CASE i = k
        BY <1>1, <4>1, <4>2
      <4>3. CASE i # k
        <5>1. i \in 1 .. (k - 1) /\ h[i] = g[i]
          BY <1>1, <4>3
        <5> QED
          BY <3>1, <4>1, <5>1
      <4> QED
        BY <4>2, <4>3
    <3> HIDE DEF h
    <3>6. Loop(h, k)
      BY <3>4, <3>5
    <3> HIDE DEF Loop
    <3>7. \E f \in [0 .. k -> P] : Loop(f, k)
      BY <3>3, <3>6
    <3>8. k \in 0 .. n
      BY <1>1
    <3> QED
      BY <3>7, <3>8
  <2> HIDE DEF K
  <2>3. \A k \in 0 .. n : k \in K
    BY <1>1, <2>1, <2>2, LoopKeeps
  <2> QED
    BY <1>1, <2>3 DEF K
<1>6. upTo = [i \in 0 .. n |-> IF i = 0 THEN led ELSE turn(upTo[i - 1], i)]
  <2>1. PICK g \in [0 .. n -> P] : Loop(g, n)
    BY <1>5
  <2>2. g = [i \in 0 .. n |-> IF i = 0 THEN led ELSE turn(g[i - 1], i)]
    BY <1>1, <2>1
  <2>3. \E f : f = [i \in 0 .. n |-> IF i = 0 THEN led ELSE turn(f[i - 1], i)]
    BY <2>2
  <2> QED
    BY <2>3 DEF upTo
<1> HIDE DEF upTo
<1>7. \A k \in 0 .. n : upTo[k] \in P
  <2> DEFINE K == {k \in 0 .. n : upTo[k] \in P}
  <2>1. 0 \in K
    BY <1>1, <1>2, <1>6
  <2>2. ASSUME NEW k \in 1 .. n, k - 1 \in K PROVE k \in K
    <3>1. upTo[k] = turn(upTo[k - 1], k)
      BY <1>1, <1>6
    <3> QED
      BY <1>1, <1>3, <2>2, <3>1
  <2> HIDE DEF K
  <2>3. \A k \in 0 .. n : k \in K
    BY <1>1, <2>1, <2>2, LoopKeeps
  <2> QED
    BY <2>3 DEF K
<1>8. upTo \in [0 .. n -> P] /\ upTo[0] = led /\ \A i \in 1 .. n : upTo[i] = turn(upTo[i - 1], i)
  <2>1. upTo \in [0 .. n -> P]
    BY <1>6, <1>7
  <2>2. upTo[0] = led
    BY <1>1, <1>6
  <2>3. ASSUME NEW i \in 1 .. n PROVE upTo[i] = turn(upTo[i - 1], i)
    BY <1>1, <1>6
  <2> QED
    BY <2>1, <2>2, <2>3
<1> QED
  BY <1>4, <1>8 DEF P, n, led, turn

\* What scheduleRebalance makes is a placement.
LEMMA RebalancedKeeps ==
    ASSUME NEW S \in Seq(Shard), NEW N \in SUBSET Nat, 0 \notin N, NEW m \in Nat, m > 0,
           NEW order \in [1 .. m -> N], \A i \in DOMAIN S : Fine(S[i], N)
    PROVE  Rebalanced(S, order) \in Placements(S, N)
<1>1. PICK g \in [0 .. Len(S) -> Placements(S, N)] :
         /\ g[0] = [k \in DOMAIN S |-> Led(S[k])]
         /\ \A i \in 1 .. Len(S) : g[i] = Filled(g[i - 1], i, order)
         /\ Rebalanced(S, order) = g[Len(S)]
  BY RebalancedLoop, ZenonT(30)
<1>2. Len(S) \in 0 .. Len(S)
  OBVIOUS
<1> QED
  BY <1>1, <1>2


-----------------------------------------------------------------------------
(* The placement driver *)

\* Shards keep to placements on the nodes registered
PlacementInv ==
    /\ alive \in Seq(BOOLEAN) /\ shards \in Seq(Shard)
    /\ \A i \in DOMAIN shards : Fine(shards[i], DOMAIN alive)

\* What every step keeps: no node is forgotten, shards only grow
Kept ==
    /\ alive' \in Seq(BOOLEAN) /\ DOMAIN alive \subseteq DOMAIN alive'
    /\ shards' \in Placements(shards, DOMAIN alive)

\* A placement that stays.
LEMMA Stays ==
    ASSUME PlacementInv, shards' = shards PROVE shards' \in Placements(shards, DOMAIN alive)
<1>1. \A i \in DOMAIN shards : shards[i] \in Shard /\ Fine(shards[i], DOMAIN alive)
  BY DEF PlacementInv
<1>2. \A i \in DOMAIN shards : Grown(shards[i], shards[i])
  BY <1>1 DEF Grown, Shard
<1>3. shards \in [DOMAIN shards -> Shard]
  BY DEF PlacementInv
<1> QED
  BY <1>1, <1>2, <1>3 DEF Placements

\* registerNode, processHeartbeat and getShardMap forget no node.
LEMMA HandleKeeps ==
    ASSUME alive \in Seq(BOOLEAN), NEW request, NEW id, Handle(request, id)
    PROVE  alive' \in Seq(BOOLEAN) /\ DOMAIN alive \subseteq DOMAIN alive'
<1>1. CASE alive' = Append(alive, TRUE)
  BY <1>1
<1>2. CASE id \in DOMAIN alive /\ alive' = [alive EXCEPT ![id] = TRUE]
  BY <1>2
<1>3. CASE alive' = alive
  BY <1>3
<1> QED
  BY <1>1, <1>2, <1>3 DEF Handle

\* Every step keeps nodes and placements.
LEMMA NextKeeps == ASSUME PlacementInv, [Next]_vars PROVE Kept
<1>0. /\ alive \in Seq(BOOLEAN) /\ shards \in Seq(Shard)
      /\ \A i \in DOMAIN shards : Fine(shards[i], DOMAIN alive)
  BY DEF PlacementInv
<1>1. ASSUME shards' = shards, alive' \in Seq(BOOLEAN), DOMAIN alive \subseteq DOMAIN alive' PROVE Kept
  BY <1>1, Stays DEF Kept
<1>2. ASSUME shards' = shards, NEW request, NEW id, Handle(request, id) PROVE Kept
  BY <1>0, <1>1, <1>2, HandleKeeps
<1>3. ASSUME UNCHANGED <<alive, shards>> PROVE Kept
  BY <1>0, <1>1, <1>3
<1>4. CASE Tick
  <2> DEFINE dead == {id \in DOMAIN alive : alive[id] /\ id \notin ToSet(recent)}
             live == {id \in DOMAIN alive : alive[id]} \ dead
             N == DOMAIN alive
  <2>1. /\ alive' = [id \in DOMAIN alive |-> id \in live]
        /\ \E order \in SetToSeqs(live) : shards' = IF live = {} THEN shards ELSE Rebalanced(shards, order)
    BY <1>4 DEF Tick
  <2>2. Len(alive) \in Nat /\ N = 1 .. Len(alive) /\ live \in SUBSET N
    BY <1>0
  <2>3. alive' \in Seq(BOOLEAN) /\ DOMAIN alive \subseteq DOMAIN alive'
    <3>1. \A id : (id \in live) \in BOOLEAN
      OBVIOUS
    <3> HIDE DEF live
    <3> QED
      BY <2>1, <2>2, <3>1
  <2> HIDE DEF live
  <2>4. CASE live = {}
    BY <1>1, <2>1, <2>3, <2>4
  <2>5. CASE live # {}
    <3>1. PICK order \in SetToSeqs(live) : shards' = Rebalanced(shards, order)
      BY <2>1, <2>5
    <3>2. PICK m \in Nat : m > 0 /\ order \in [1 .. m -> live]
      BY <2>2, <2>5, OrderStarts
    <3>3. N \in SUBSET Nat /\ 0 \notin N /\ order \in [1 .. m -> N]
      BY <2>2, <3>2
    <3>4. shards' \in Placements(shards, N)
      BY <1>0, <3>1, <3>2, <3>3, RebalancedKeeps
    <3> QED
      BY <2>3, <3>4 DEF Kept
  <2> QED
    BY <2>4, <2>5
<1>5. CASE RegisterNode \/ (\E id \in 1 .. MaxNodes : Heartbeat(id)) \/ FetchShardMap
  BY <1>2, <1>5 DEF RegisterNode, Heartbeat, FetchShardMap
<1>6. CASE LoadShardMap \/ NodeSilent \/ UNCHANGED vars
  BY <1>3, <1>6 DEF LoadShardMap, NodeSilent, vars
<1> QED
  BY <1>4, <1>5, <1>6 DEF Next

\* A placement is one on more nodes.
LEMMA KeptInv == ASSUME PlacementInv, Kept PROVE PlacementInv'
<1>1. shards' \in [DOMAIN shards -> Shard] /\ \A i \in DOMAIN shards : Fine(shards'[i], DOMAIN alive)
  BY DEF Kept, Placements
<1>2. shards' \in Seq(Shard) /\ DOMAIN shards' = DOMAIN shards
  BY <1>1 DEF PlacementInv
<1>3. \A i \in DOMAIN shards : Fine(shards'[i], DOMAIN alive')
  BY <1>1 DEF Kept, Fine
<1> QED
  BY <1>2, <1>3 DEF Kept, PlacementInv

\* The inductive invariant of the placement driver.
THEOREM PlacementInvariance == Spec => []PlacementInv
<1>1. Init => PlacementInv
  <2> SUFFICES ASSUME Init PROVE PlacementInv
    OBVIOUS
  <2>1. PICK n \in ShardCounts : shards = [i \in 1 .. n |-> [leader |-> 0, peers |-> <<>>]]
    BY DEF Init
  <2>2. n \in Nat
    BY ShardAssumption
  <2>3. [leader |-> 0, peers |-> <<>>] \in Shard /\ Fine([leader |-> 0, peers |-> <<>>], DOMAIN alive)
    BY DEF Shard, Fine
  <2>4. alive \in Seq(BOOLEAN)
    BY DEF Init
  <2> QED
    BY <2>1, <2>2, <2>3, <2>4 DEF PlacementInv
<1>2. PlacementInv /\ [Next]_vars => PlacementInv'
  BY NextKeeps, KeptInv
<1> QED
  BY <1>1, <1>2, PTL DEF Spec

\* A shard has at most three replicas, on nodes that registered, and its leader is the first
\* of them.
THEOREM PlacementIsValid == Spec => []PlacementValid
<1>1. ASSUME PlacementInv, NEW i \in DOMAIN shards
      PROVE  /\ Len(shards[i].peers) <= 3
             /\ ToSet(shards[i].peers) \subseteq DOMAIN alive
             /\ shards[i].leader # 0 => shards[i].leader = Head(shards[i].peers)
  <2>1. shards[i].peers \in Seq(Nat) /\ Fine(shards[i], DOMAIN alive)
    <3>1. shards[i] \in Shard
      BY <1>1 DEF PlacementInv
    <3> QED
      BY <1>1, <3>1 DEF PlacementInv, Shard
  <2> QED
    BY <2>1 DEF Fine, ToSet
<1>2. PlacementInv => PlacementValid
  BY <1>1 DEF PlacementValid
<1> QED
  BY <1>2, PlacementInvariance, PTL

-----------------------------------------------------------------------------
(* How a tick spreads the replicas *)

\* A replica more on b
With(T, i, b) == [T EXCEPT ![i].peers = Append(@, b)]

\* Placing a replica adds one to the load of its node and leaves the others.
LEMMA LoadAdds ==
    ASSUME NEW n \in Nat, NEW T \in [1 .. n -> Shard], NEW i \in 1 .. n, NEW b \in Nat,
           Len(T[i].peers) < 3
    PROVE  /\ With(T, i, b) \in [1 .. n -> Shard] /\ With(T, i, b)[i].peers = Append(T[i].peers, b)
           /\ \A j \in 1 .. n : j # i => With(T, i, b)[j] = T[j]
           /\ Load(With(T, i, b), b) = Load(T, b) + 1
           /\ \A id : id # b => Load(With(T, i, b), id) = Load(T, id)
<1> DEFINE U == With(T, i, b)
           p == T[i].peers
           q == [T[i] EXCEPT !.peers = Append(@, b)]
           spot == <<i, Len(p) + 1>>
<1>1. T[i] \in Shard /\ p \in Seq(Nat) /\ Len(p) \in Nat
  BY DEF Shard
<1>2. Append(p, b) \in Seq(Nat)
  BY <1>1
<1>3. q \in Shard /\ q.peers = Append(p, b)
  BY <1>1, <1>2 DEF Shard
<1>4. U = [T EXCEPT ![i] = q]
  BY DEF With
<1> HIDE DEF q, U
<1>5. U \in [1 .. n -> Shard] /\ U[i] = q /\ \A j \in 1 .. n : j # i => U[j] = T[j]
  BY <1>3, <1>4
<1>6. /\ DOMAIN Append(p, b) = 1 .. (Len(p) + 1) /\ Append(p, b)[Len(p) + 1] = b
      /\ \A k \in 1 .. Len(p) : Append(p, b)[k] = p[k]
      /\ DOMAIN p = 1 .. Len(p)
  BY <1>1
<1> HIDE DEF p
<1>7. ASSUME NEW id, NEW j \in 1 .. n, NEW k \in 1 .. 3
      PROVE  <<j, k>> \in Spots(U, id) <=> <<j, k>> \in Spots(T, id) \/ (id = b /\ <<j, k>> = spot)
  <2>1. /\ <<j, k>> \in Spots(U, id) <=> k \in DOMAIN U[j].peers /\ U[j].peers[k] = id
        /\ <<j, k>> \in Spots(T, id) <=> k \in DOMAIN T[j].peers /\ T[j].peers[k] = id
    BY <1>5 DEF Spots
  <2>2. CASE j # i
    BY <1>5, <2>1, <2>2
  <2>3. CASE j = i
    <3>1. U[j].peers = Append(p, b) /\ T[j].peers = p
      BY <1>3, <1>5, <2>3 DEF p
    <3>2. k \in 1 .. (Len(p) + 1) <=> k \in 1 .. Len(p) \/ k = Len(p) + 1
      BY <1>1
    <3>3. Len(p) + 1 \notin 1 .. Len(p)
      BY <1>1
    <3> QED
      BY <1>6, <2>1, <2>3, <3>1, <3>2, <3>3
  <2> QED
    BY <2>2, <2>3
<1>8. spot \in (1 .. n) \X (1 .. 3)
  BY <1>1 DEF p
<1>9. \A id : Spots(U, id) \subseteq (1 .. n) \X (1 .. 3) /\ Spots(T, id) \subseteq (1 .. n) \X (1 .. 3)
  BY <1>5 DEF Spots
<1>10. Load(U, b) = Load(T, b) + 1
  <2>1. Spots(U, b) = Spots(T, b) \cup {spot}
    <3>1. ASSUME NEW x \in (1 .. n) \X (1 .. 3) PROVE x \in Spots(U, b) <=> x \in Spots(T, b) \cup {spot}
      <4>1. PICK j \in 1 .. n, k \in 1 .. 3 : x = <<j, k>>
        OBVIOUS
      <4> QED
        BY <1>7, <4>1
    <3> QED
      BY <1>8, <1>9, <3>1
  <2>2. spot \notin Spots(T, b)
    <3>1. Len(p) + 1 \notin DOMAIN T[i].peers
      BY <1>1, <1>6 DEF p
    <3> QED
      BY <3>1 DEF Spots
  <2>3. IsFiniteSet(Spots(T, b))
    BY SpotsFinite
  <2> HIDE DEF spot
  <2> QED
    BY <2>1, <2>2, <2>3, FS_AddElement DEF Load, Spots
<1>11. ASSUME NEW id, id # b PROVE Load(U, id) = Load(T, id)
  <2>1. Spots(U, id) = Spots(T, id)
    <3>1. ASSUME NEW x \in (1 .. n) \X (1 .. 3) PROVE x \in Spots(U, id) <=> x \in Spots(T, id)
      <4>1. PICK j \in 1 .. n, k \in 1 .. 3 : x = <<j, k>>
        OBVIOUS
      <4> QED
        BY <1>7, <1>11, <4>1
    <3> QED
      BY <1>9, <3>1
  <2> QED
    BY <2>1 DEF Load, Spots
<1> QED
  BY <1>3, <1>5, <1>10, <1>11 DEF p, U

\* The loads are a matter of the replicas alone.
LEMMA LoadSame ==
    ASSUME NEW T, NEW U, DOMAIN T = DOMAIN U, \A i \in DOMAIN T : T[i].peers = U[i].peers, NEW id
    PROVE  Load(T, id) = Load(U, id)
<1>1. Spots(T, id) = Spots(U, id)
  BY DEF Spots
<1> QED
  BY <1>1 DEF Load, Spots

\* A replica of a shard on node id
Has(shard, id) == \E k \in 1 .. Len(shard.peers) : shard.peers[k] = id

\* A node without replicas has no load.
LEMMA LoadZero ==
    ASSUME NEW n \in Nat, NEW T \in [1 .. n -> Shard], NEW id, \A i \in 1 .. n : ~Has(T[i], id)
    PROVE  Load(T, id) = 0
<1>1. ASSUME NEW i \in 1 .. n PROVE DOMAIN T[i].peers = 1 .. Len(T[i].peers)
  <2>1. T[i].peers \in Seq(Nat)
    BY DEF Shard
  <2> QED
    BY <2>1
<1>2. Spots(T, id) = {}
  BY <1>1 DEF Spots, Has
<1> QED
  BY <1>2, FS_EmptySet DEF Load, Spots

\* What the search may find: a node without a replica of the shard and with fewer replicas
\* than the first, or the first, when there is no such node
Choice(T, i, order, m, b) ==
    \/ \E k \in 1 .. m : b = order[k] /\ ~Has(T[i], b) /\ Load(T, b) < Load(T, order[1])
    \/ /\ b = order[1]
       /\ \A k \in 1 .. m : Has(T[i], order[k]) \/ Load(T, order[k]) >= Load(T, order[1])

\* It finds one of them.
LEMMA BestChoice ==
    ASSUME NEW n \in Nat, NEW T \in [1 .. n -> Shard], NEW i \in 1 .. n,
           NEW m \in Nat, m > 0, NEW order \in [1 .. m -> Nat]
    PROVE  Choice(T, i, order, m, Best(T, i, order))
<1> DEFINE better == Eligible(T, i, order)
           least == {k \in better : \A j \in better : Load(T, order[k]) <= Load(T, order[j])}
           loads == {Load(T, order[k]) : k \in better}
<1>1. T[i].peers \in Seq(Nat) /\ DOMAIN T = 1 .. n
  BY DEF Shard
<1>2. ASSUME NEW x PROVE x \in ToSet(T[i].peers) <=> Has(T[i], x)
  <2>1. DOMAIN T[i].peers = 1 .. Len(T[i].peers)
    BY <1>1
  <2> QED
    BY <2>1 DEF ToSet, Has
<1>3. \A x : Load(T, x) \in Nat
  BY <1>1, LoadType
<1>4. \A k : k \in better <=> k \in 1 .. m /\ Load(T, order[k]) < Load(T, order[1]) /\ ~Has(T[i], order[k])
  BY <1>2 DEF Eligible
<1>5. CASE better = {}
  <2>1. Best(T, i, order) = order[1]
    BY <1>5 DEF Best
  <2>2. ASSUME NEW k \in 1 .. m PROVE Has(T[i], order[k]) \/ Load(T, order[k]) >= Load(T, order[1])
    BY <1>3, <1>4, <1>5, SMTT(30)
  <2> QED
    BY <2>1, <2>2 DEF Choice
<1>6. CASE better # {}
  <2> HIDE DEF better
  <2>1. loads \in SUBSET Nat /\ loads # {}
    BY <1>3, <1>6
  <2>2. PICK x \in loads : \A y \in loads : x <= y
    BY <2>1, LeastExists
  <2>3. PICK k \in better : x = Load(T, order[k])
    BY <2>2
  <2>4. k \in least
    BY <2>2, <2>3
  <2>5. better \subseteq 1 .. m /\ least \subseteq better
    BY <1>4
  <2>6. least \in SUBSET Nat /\ least # {}
    <3>1. 1 .. m \subseteq Nat
      OBVIOUS
    <3> QED
      BY <2>4, <2>5, <3>1
  <2>7. Min(least) \in better
    BY <2>5, <2>6, LeastExists
  <2>8. Best(T, i, order) = order[Min(least)]
    BY <1>6 DEF Best, better
  <2> HIDE DEF least
  <2> QED
    BY <1>4, <2>7, <2>8 DEF Choice
<1> QED
  BY <1>5, <1>6

\* A shard has a node once
NoRepeats(p) == \A j, k \in 1 .. Len(p) : p[j] = p[k] => j = k

\* How the loads lie while shard i is filled from nodes that began without replicas: the first
\* node leads by one at most.  Until it has a replica of this shard, those that have one
\* are level with it; from then on, those that have none are behind
Even(T, i, order, m) ==
    /\ \A k \in 1 .. m : Load(T, order[k]) \in {Load(T, order[1]), Load(T, order[1]) - 1}
    /\ ~Has(T[i], order[1]) =>
          \A k \in 1 .. m : Has(T[i], order[k]) => Load(T, order[k]) = Load(T, order[1])
    /\ Has(T[i], order[1]) =>
          \A k \in 1 .. m : ~Has(T[i], order[k]) => Load(T, order[k]) = Load(T, order[1]) - 1

\* Among two nodes, one that has a replica of shard i has a replica of every second shard
Halves(T, i, order) ==
    /\ Load(T, order[1]) + Load(T, order[2]) >= i - 1
    /\ \A k \in 1 .. 2 : Has(T[i], order[k]) => i <= 2 * Load(T, order[k])

\* With fewer replicas than nodes there is a node without one.
LEMMA NodeLeft ==
    ASSUME NEW shard \in Shard, NEW m \in Nat, NEW order \in [1 .. m -> Nat],
           \A j, k \in 1 .. m : j # k => order[j] # order[k],
           Len(shard.peers) < 3, Len(shard.peers) < m
    PROVE  \E k \in 1 .. m : ~Has(shard, order[k])
<1>1. shard.peers \in Seq(Nat)
  BY DEF Shard
<1>2. Len(shard.peers) = 0 \/ Len(shard.peers) = 1 \/ Len(shard.peers) = 2
  <2> DEFINE l == Len(shard.peers)
  <2>1. l \in Nat /\ l < 3
    BY <1>1
  <2> HIDE DEF l
  <2>2. l = 0 \/ l = 1 \/ l = 2
    BY <2>1
  <2> QED
    BY <2>2 DEF l
<1>3. CASE Len(shard.peers) = 0
  <2>1. 1 \in 1 .. m /\ ~Has(shard, order[1])
    BY <1>3 DEF Has
  <2> QED
    BY <2>1
<1>4. CASE Len(shard.peers) = 1
  <2>1. 1 \in 1 .. m /\ 2 \in 1 .. m /\ order[1] # order[2]
    BY <1>4
  <2>2. \A x : Has(shard, x) => x = shard.peers[1]
    BY <1>4 DEF Has
  <2> QED
    BY <2>1, <2>2
<1>5. CASE Len(shard.peers) = 2
  <2>1. 1 \in 1 .. m /\ 2 \in 1 .. m /\ 3 \in 1 .. m
    BY <1>5
  <2>2. order[1] # order[2] /\ order[1] # order[3] /\ order[2] # order[3]
    BY <2>1
  <2>3. \A x : Has(shard, x) => x = shard.peers[1] \/ x = shard.peers[2]
    BY <1>5 DEF Has
  <2> QED
    BY <2>1, <2>2, <2>3
<1> QED
  BY <1>2, <1>3, <1>4, <1>5

\* One replica more, as the other definitions see it.
LEMMA WithFacts ==
    ASSUME NEW n \in Nat, NEW T \in [1 .. n -> Shard], NEW i \in 1 .. n, NEW b \in Nat,
           Len(T[i].peers) < 3
    PROVE  /\ Len(With(T, i, b)[i].peers) = Len(T[i].peers) + 1
           /\ \A x : Has(With(T, i, b)[i], x) <=> Has(T[i], x) \/ x = b
           /\ NoRepeats(T[i].peers) /\ ~Has(T[i], b) => NoRepeats(With(T, i, b)[i].peers)
<1> DEFINE U == With(T, i, b)
           p == T[i].peers
<1>1. /\ U \in [1 .. n -> Shard] /\ U[i].peers = Append(p, b)
      /\ \A j \in 1 .. n : j # i => U[j] = T[j]
      /\ Load(U, b) = Load(T, b) + 1
      /\ \A id : id # b => Load(U, id) = Load(T, id)
  BY LoadAdds
<1> HIDE DEF U
<1>2. p \in Seq(Nat) /\ Len(p) \in Nat
  BY DEF Shard
<1> HIDE DEF p
<1>3. /\ Len(Append(p, b)) = Len(p) + 1 /\ Append(p, b)[Len(p) + 1] = b
      /\ \A k \in 1 .. Len(p) : Append(p, b)[k] = p[k]
  BY <1>2
<1>4. \A k : k \in 1 .. (Len(p) + 1) <=> k \in 1 .. Len(p) \/ k = Len(p) + 1
  BY <1>2
<1>5. \A x : Has(U[i], x) <=> Has(T[i], x) \/ x = b
  BY <1>1, <1>3, <1>4 DEF Has, p
<1>6. ASSUME NoRepeats(p), ~Has(T[i], b) PROVE NoRepeats(Append(p, b))
  <2>1. \A k \in 1 .. Len(p) : p[k] # b
    BY <1>6 DEF Has, p
  <2> QED
    BY <1>3, <1>4, <1>6, <2>1 DEF NoRepeats
<1> QED
  BY <1>1, <1>3, <1>5, <1>6 DEF U, p

\* A turn of the while loop: the node chosen has no replica of the shard, and the loads lie as
\* before.
LEMMA EvenTurn ==
    ASSUME NEW n \in Nat, NEW T \in [1 .. n -> Shard], NEW i \in 1 .. n,
           NEW m \in Nat, NEW order \in [1 .. m -> Nat],
           \A j, k \in 1 .. m : j # k => order[j] # order[k],
           Len(T[i].peers) < 3, Len(T[i].peers) < m, Even(T, i, order, m),
           NEW b, Choice(T, i, order, m, b)
    PROVE  /\ b \in Nat /\ ~Has(T[i], b) /\ Even(With(T, i, b), i, order, m)
           /\ m = 2 /\ Halves(T, i, order) =>
                 /\ Halves(With(T, i, b), i, order)
                 /\ Load(With(T, i, b), order[1]) + Load(With(T, i, b), order[2]) >= i
<1> DEFINE U == With(T, i, b)
           A == Load(T, order[1])
<1>1. T[i].peers \in Seq(Nat) /\ m > 0 /\ DOMAIN T = 1 .. n
  <2>1. T[i].peers \in Seq(Nat)
    BY DEF Shard
  <2> QED
    BY <2>1
<1>2. \A x : Load(T, x) \in Nat
  BY <1>1, LoadType
<1>3. 1 \in 1 .. m
  BY <1>1
<1>4. \/ \E k \in 1 .. m : b = order[k] /\ ~Has(T[i], b) /\ Load(T, b) < A
      \/ /\ b = order[1]
         /\ \A k \in 1 .. m : Has(T[i], order[k]) \/ Load(T, order[k]) >= A
  BY DEF Choice
<1>5. PICK f \in 1 .. m : ~Has(T[i], order[f])
  BY NodeLeft
<1>6. \A k \in 1 .. m : Load(T, order[k]) = A \/ Load(T, order[k]) = A - 1
  BY DEF Even
<1>7. b \in Nat /\ ~Has(T[i], b)
  <2>1. CASE \E k \in 1 .. m : b = order[k] /\ ~Has(T[i], b) /\ Load(T, b) < A
    BY <2>1
  <2>2. CASE /\ b = order[1]
             /\ \A k \in 1 .. m : Has(T[i], order[k]) \/ Load(T, order[k]) >= A
    <3>1. ASSUME Has(T[i], order[1]) PROVE FALSE
      <4>1. Load(T, order[f]) = A - 1
        BY <1>5, <3>1 DEF Even
      <4>2. Load(T, order[f]) >= A
        BY <1>5, <2>2
      <4> QED
        BY <1>2, <4>1, <4>2
    <3> QED
      BY <1>3, <2>2, <3>1
  <2> QED
    BY <1>4, <2>1, <2>2
<1>8. /\ \A x : Has(U[i], x) <=> Has(T[i], x) \/ x = b
      /\ Load(U, b) = Load(T, b) + 1 /\ \A x : x # b => Load(U, x) = Load(T, x)
  <2>1. b \in Nat
    BY <1>7
  <2>2. \A x : Has(With(T, i, b)[i], x) <=> Has(T[i], x) \/ x = b
    BY <2>1, WithFacts, ZenonT(30)
  <2>3. Load(With(T, i, b), b) = Load(T, b) + 1
    BY <2>1, LoadAdds
  <2>4. \A x : x # b => Load(With(T, i, b), x) = Load(T, x)
    BY <2>1, LoadAdds
  <2> QED
    BY <2>2, <2>3, <2>4
<1> HIDE DEF U
<1>9. \/ /\ b # order[1] /\ Load(T, b) = A - 1 /\ \E k \in 1 .. m : b = order[k]
      \/ b = order[1] /\ \A k \in 1 .. m : Load(T, order[k]) = A
  <2>1. CASE \E k \in 1 .. m : b = order[k] /\ ~Has(T[i], b) /\ Load(T, b) < A
    BY <1>2, <1>6, <2>1
  <2>2. CASE /\ b = order[1]
             /\ \A k \in 1 .. m : Has(T[i], order[k]) \/ Load(T, order[k]) >= A
    <3>1. ASSUME NEW k \in 1 .. m PROVE Load(T, order[k]) = A
      <4>1. CASE Has(T[i], order[k])
        BY <1>7, <2>2, <4>1 DEF Even
      <4>2. CASE ~Has(T[i], order[k])
        BY <1>2, <1>6, <2>2, <4>2
      <4> QED
        BY <4>1, <4>2
    <3> QED
      BY <2>2, <3>1
  <2> QED
    BY <1>4, <2>1, <2>2
<1>10. Even(U, i, order, m)
  <2>1. CASE b # order[1] /\ Load(T, b) = A - 1
    <3>1. Load(U, order[1]) = A /\ Load(U, b) = A
      BY <1>2, <1>8, <2>1
    <3>2. \A k \in 1 .. m : Load(U, order[k]) = IF order[k] = b THEN A ELSE Load(T, order[k])
      BY <1>8, <3>1
    <3>3. Has(U[i], order[1]) <=> Has(T[i], order[1])
      BY <1>8, <2>1
    <3>4. ASSUME NEW k \in 1 .. m PROVE Load(U, order[k]) = A \/ Load(U, order[k]) = A - 1
      BY <1>6, <3>2
    <3>5. ASSUME ~Has(U[i], order[1]), NEW k \in 1 .. m, Has(U[i], order[k])
          PROVE  Load(U, order[k]) = A
      BY <1>8, <3>2, <3>3, <3>5 DEF Even
    <3>6. ASSUME Has(U[i], order[1]), NEW k \in 1 .. m, ~Has(U[i], order[k])
          PROVE  Load(U, order[k]) = A - 1
      BY <1>8, <3>2, <3>3, <3>6 DEF Even
    <3> QED
      BY <3>1, <3>4, <3>5, <3>6 DEF Even
  <2>2. CASE b = order[1] /\ \A k \in 1 .. m : Load(T, order[k]) = A
    <3>1. Load(U, order[1]) = A + 1
      BY <1>8, <2>2
    <3>2. ASSUME NEW k \in 1 .. m PROVE k = 1 \/ Load(U, order[k]) = (A + 1) - 1
      BY <1>2, <1>3, <1>8, <2>2
    <3>3. Has(U[i], order[1])
      BY <1>8, <2>2
    <3> QED
      BY <3>1, <3>2, <3>3 DEF Even
  <2> QED
    BY <1>9, <2>1, <2>2
<1>11. ASSUME m = 2, Halves(T, i, order)
       PROVE  Halves(U, i, order) /\ Load(U, order[1]) + Load(U, order[2]) >= i
  <2>1. order[1] # order[2] /\ 1 .. m = {1, 2} /\ 2 \in 1 .. m
    BY <1>11
  <2>2. \/ /\ b = order[1] /\ Load(U, order[1]) = Load(T, order[1]) + 1
           /\ Load(U, order[2]) = Load(T, order[2]) /\ Load(T, order[2]) = Load(T, order[1])
        \/ /\ b = order[2] /\ Load(U, order[2]) = Load(T, order[2]) + 1
           /\ Load(U, order[1]) = Load(T, order[1]) /\ Load(T, order[2]) = Load(T, order[1]) - 1
    BY <1>8, <1>9, <2>1
  <2>3. /\ Load(T, order[1]) + Load(T, order[2]) >= i - 1
        /\ Has(T[i], order[1]) => i <= 2 * Load(T, order[1])
        /\ Has(T[i], order[2]) => i <= 2 * Load(T, order[2])
    BY <1>11 DEF Halves
  <2>4. i \in Nat /\ Load(T, order[1]) \in Nat /\ Load(T, order[2]) \in Nat
    BY <1>2
  <2>5. /\ Has(U[i], order[1]) => Has(T[i], order[1]) \/ b = order[1]
        /\ Has(U[i], order[2]) => Has(T[i], order[2]) \/ b = order[2]
    BY <1>8
  <2>6. /\ Load(U, order[1]) + Load(U, order[2]) >= i
        /\ Has(U[i], order[1]) => i <= 2 * Load(U, order[1])
        /\ Has(U[i], order[2]) => i <= 2 * Load(U, order[2])
    BY <2>2, <2>3, <2>4, <2>5, <2>1, SMTT(30)
  <2>7. Load(U, order[1]) + Load(U, order[2]) >= i - 1
    BY <2>2, <2>4, <2>6
  <2> QED
    BY <2>6, <2>7 DEF Halves
<1> QED
  BY <1>7, <1>10, <1>11 DEF U

\* The nodes alive, each once
Orders(m) == {order \in [1 .. m -> Nat] : \A j, k \in 1 .. m : j # k => order[j] # order[k]}

\* A turn of the while loop adds a replica while there is room.
LEMMA PlacedIs ==
    ASSUME NEW n \in Nat, NEW T \in [1 .. n -> Shard], NEW i \in 1 .. n,
           NEW m \in Nat, NEW order \in [1 .. m -> Nat]
    PROVE  Placed(T, i, order) = IF Len(T[i].peers) < 3 /\ Len(T[i].peers) < m
                                 THEN With(T, i, Best(T, i, order)) ELSE T
<1>1. Len(order) = m
  OBVIOUS
<1> QED
  BY <1>1 DEF Placed, Room, With

\* What a shard keeps while it is filled from nodes that began without replicas
Turning(T, i, order, m) ==
    /\ Even(T, i, order, m) /\ NoRepeats(T[i].peers)
    /\ m = 2 => Halves(T, i, order)

\* A turn of the while loop keeps it.
LEMMA EvenPlaced ==
    ASSUME NEW n \in Nat, NEW T \in [1 .. n -> Shard], NEW i \in 1 .. n,
           NEW m \in Nat, NEW order \in Orders(m), Turning(T, i, order, m)
    PROVE  LET U == Placed(T, i, order)
               room == Len(T[i].peers) < 3 /\ Len(T[i].peers) < m
           IN  /\ U \in [1 .. n -> Shard] /\ \A j \in 1 .. n : j # i => U[j] = T[j]
               /\ Turning(U, i, order, m) /\ \A x : Load(U, x) >= Load(T, x)
               /\ Len(U[i].peers) = IF room THEN Len(T[i].peers) + 1 ELSE Len(T[i].peers)
               /\ m = 2 /\ room => Load(U, order[1]) + Load(U, order[2]) >= i
<1> DEFINE b == Best(T, i, order)
           room == Len(T[i].peers) < 3 /\ Len(T[i].peers) < m
<1>1. order \in [1 .. m -> Nat] /\ \A j, k \in 1 .. m : j # k => order[j] # order[k]
  BY DEF Orders
<1>2. Placed(T, i, order) = IF room THEN With(T, i, b) ELSE T
  BY <1>1, PlacedIs
<1>3. \A x : Load(T, x) \in Nat
  BY LoadType
<1>4. CASE ~room
  BY <1>2, <1>3, <1>4
<1>5. CASE room
  <2> DEFINE U == With(T, i, b)
  <2>1. m > 0
    <3>1. T[i].peers \in Seq(Nat)
      BY DEF Shard
    <3> QED
      BY <1>5, <3>1
  <2>2. Choice(T, i, order, m, b)
    BY <1>1, <2>1, BestChoice
  <2> HIDE DEF b
  <2>3. /\ b \in Nat /\ ~Has(T[i], b) /\ Even(U, i, order, m)
        /\ m = 2 /\ Halves(T, i, order) =>
              Halves(U, i, order) /\ Load(U, order[1]) + Load(U, order[2]) >= i
    BY <1>1, <1>5, <2>2, EvenTurn DEF Turning
  <2>4. U \in [1 .. n -> Shard] /\ \A j \in 1 .. n : j # i => U[j] = T[j]
    BY <1>5, <2>3, LoadAdds
  <2>5. Load(U, b) = Load(T, b) + 1
    BY <1>5, <2>3, LoadAdds
  <2>6. \A x : x # b => Load(U, x) = Load(T, x)
    BY <1>5, <2>3, LoadAdds
  <2>7. \A x : Load(U, x) >= Load(T, x)
    <3> HIDE DEF U
    <3> QED
      BY <1>3, <2>5, <2>6
  <2>8. Len(U[i].peers) = Len(T[i].peers) + 1
    BY <1>5, <2>3, WithFacts
  <2>9. NoRepeats(U[i].peers)
    BY <1>5, <2>3, WithFacts DEF Turning
  <2> HIDE DEF U
  <2>10. Turning(U, i, order, m) /\ (m = 2 => Load(U, order[1]) + Load(U, order[2]) >= i)
    BY <2>3, <2>9 DEF Turning
  <2>11. Placed(T, i, order) = U
    BY <1>2, <1>5 DEF U
  <2> HIDE DEF room
  <2> QED
    BY <1>5, <2>4, <2>7, <2>8, <2>10, <2>11 DEF room
<1> QED
  BY <1>4, <1>5

\* Three replicas, or one on each node
Full(m) == IF m < 3 THEN m ELSE 3

\* The while loop keeps it and fills the shard.
LEMMA EvenFilled ==
    ASSUME NEW n \in Nat, NEW T \in [1 .. n -> Shard], NEW i \in 1 .. n,
           NEW m \in Nat, NEW order \in Orders(m), Turning(T, i, order, m),
           Len(T[i].peers) < Full(m)
    PROVE  LET U == Filled(T, i, order)
           IN  /\ U \in [1 .. n -> Shard] /\ \A j \in 1 .. n : j # i => U[j] = T[j]
               /\ Turning(U, i, order, m) /\ \A x : Load(U, x) >= Load(T, x)
               /\ Len(U[i].peers) = Full(m)
               /\ m = 2 => Load(U, order[1]) + Load(U, order[2]) >= i
<1> DEFINE A == Placed(T, i, order)
           B == Placed(A, i, order)
           C == Placed(B, i, order)
           Step(X, Y) == /\ Y \in [1 .. n -> Shard] /\ \A j \in 1 .. n : j # i => Y[j] = X[j]
                         /\ Turning(Y, i, order, m) /\ \A x : Load(Y, x) >= Load(X, x)
                         /\ Len(Y[i].peers) = IF Len(X[i].peers) < 3 /\ Len(X[i].peers) < m
                                              THEN Len(X[i].peers) + 1 ELSE Len(X[i].peers)
<1>1. Step(T, A)
  BY EvenPlaced
<1>2. m = 2 => Load(A, order[1]) + Load(A, order[2]) >= i
  <2>1. Len(T[i].peers) < 3 /\ (m = 2 => Len(T[i].peers) < m)
    <3>1. T[i].peers \in Seq(Nat)
      BY DEF Shard
    <3>2. Len(T[i].peers) \in Nat
      BY <3>1
    <3> QED
      BY <3>2 DEF Full
  <2> QED
    BY <2>1, EvenPlaced
<1>3. Step(A, B)
  <2>1. A \in [1 .. n -> Shard] /\ Turning(A, i, order, m)
    BY <1>1
  <2> HIDE DEF A
  <2> QED
    BY <2>1, EvenPlaced
<1>4. Step(B, C)
  <2>1. B \in [1 .. n -> Shard] /\ Turning(B, i, order, m)
    BY <1>3
  <2> HIDE DEF B
  <2> QED
    BY <2>1, EvenPlaced
<1>5. Filled(T, i, order) = C
  BY DEF Filled
<1> HIDE DEF A, B, C
<1>6. /\ \A x : Load(T, x) \in Nat /\ Load(A, x) \in Nat /\ Load(B, x) \in Nat /\ Load(C, x) \in Nat
      /\ Len(T[i].peers) \in Nat
  <2>1. DOMAIN T = 1 .. n /\ DOMAIN A = 1 .. n /\ DOMAIN B = 1 .. n /\ DOMAIN C = 1 .. n
    BY <1>1, <1>3, <1>4
  <2>2. T[i].peers \in Seq(Nat)
    BY DEF Shard
  <2> QED
    BY <2>1, <2>2, LoadType
<1>7. Len(C[i].peers) = Full(m)
  <2> DEFINE l == Len(T[i].peers)
             up(k) == IF k < 3 /\ k < m THEN k + 1 ELSE k
  <2>1. Len(C[i].peers) = up(up(up(l)))
    BY <1>1, <1>3, <1>4
  <2>2. l \in Nat /\ l < Full(m)
    BY <1>6
  <2> HIDE DEF l
  <2> QED
    BY <2>1, <2>2 DEF Full
<1>8. \A x : Load(C, x) >= Load(B, x) /\ Load(B, x) >= Load(A, x) /\ Load(A, x) >= Load(T, x)
  BY <1>1, <1>3, <1>4
<1>9. \A x : Load(C, x) >= Load(A, x) /\ Load(C, x) >= Load(T, x)
  BY <1>6, <1>8
<1>10. m = 2 => Load(C, order[1]) + Load(C, order[2]) >= i
  <2>1. i \in Nat
    OBVIOUS
  <2> QED
    BY <1>2, <1>6, <1>9, <2>1
<1>11. C \in [1 .. n -> Shard] /\ Turning(C, i, order, m) /\ \A j \in 1 .. n : j # i => C[j] = T[j]
  BY <1>1, <1>3, <1>4
<1> QED
  BY <1>5, <1>7, <1>9, <1>10, <1>11

\* Appointing leaders moves no replica.
LEMMA LedPeers == ASSUME NEW shard \in Shard PROVE Led(shard).peers = shard.peers
BY DEF Led, Shard

\* A tick that fills shards from nodes without replicas: no shard gets a node twice.  Of two
\* nodes, one that has a replica of shard i has at least half as many replicas as i.
LEMMA FreshTick ==
    ASSUME NEW S \in Seq(Shard), NEW N \in SUBSET Nat, 0 \notin N, NEW m \in Nat, m > 0,
           NEW order \in Orders(m), order \in [1 .. m -> N],
           \A i \in DOMAIN S : /\ Fine(S[i], N) /\ NoRepeats(S[i].peers)
                               /\ Len(S[i].peers) < Full(m)
                               /\ \A k \in 1 .. m : ~Has(S[i], order[k])
    PROVE  LET R == Rebalanced(S, order)
           IN  \A i \in DOMAIN S :
                  /\ Len(R[i].peers) = Full(m) /\ NoRepeats(R[i].peers)
                  /\ m = 2 => \A k \in 1 .. 2 : Has(R[i], order[k]) => i <= 2 * Load(R, order[k])
<1> DEFINE n == Len(S)
           P == Placements(S, N)
           R == Rebalanced(S, order)
           Done(T, i) == /\ Len(T[i].peers) = Full(m) /\ NoRepeats(T[i].peers)
                         /\ m = 2 => \A k \in 1 .. 2 : Has(T[i], order[k]) => i <= 2 * Load(T, order[k])
           Good(T, k) ==
              /\ \A i \in 1 .. n : IF i <= k THEN Done(T, i) ELSE T[i].peers = S[i].peers
              /\ \A q \in 1 .. m : Load(T, order[q]) \in {Load(T, order[1]), Load(T, order[1]) - 1}
              /\ m = 2 => Load(T, order[1]) + Load(T, order[2]) >= k
<1>1. n \in Nat /\ DOMAIN S = 1 .. n /\ S \in [1 .. n -> Shard] /\ 1 \in 1 .. m
  OBVIOUS
<1>2. PICK g \in [0 .. n -> P] :
         /\ g[0] = [k \in DOMAIN S |-> Led(S[k])]
         /\ \A i \in 1 .. n : g[i] = Filled(g[i - 1], i, order)
         /\ R = g[n]
  BY RebalancedLoop, ZenonT(30)
<1>3. \A T \in P : T \in [1 .. n -> Shard]
  BY <1>1 DEF Placements
<1> HIDE DEF n, P, R
<1>4. Good(g[0], 0)
  <2> DEFINE T == g[0]
  <2>1. T = [k \in 1 .. n |-> Led(S[k])] /\ T \in [1 .. n -> Shard]
    BY <1>1, <1>2, <1>3
  <2> HIDE DEF T
  <2>2. \A i \in 1 .. n : T[i].peers = S[i].peers
    BY <1>1, <2>1, LedPeers
  <2>3. ASSUME NEW q \in 1 .. m PROVE Load(T, order[q]) = 0
    <3>1. \A i \in 1 .. n : ~Has(T[i], order[q])
      BY <1>1, <2>2 DEF Has
    <3> QED
      BY <1>1, <2>1, <3>1, LoadZero
  <2>4. m = 2 => Load(T, order[1]) + Load(T, order[2]) >= 0
    <3>1. CASE m = 2
      <4>1. 1 \in 1 .. m /\ 2 \in 1 .. m
        BY <3>1
      <4>2. Load(T, order[1]) = 0 /\ Load(T, order[2]) = 0
        BY <2>3, <4>1
      <4> QED
        BY <4>2
    <3> QED
      BY <3>1
  <2>5. \A i \in 1 .. n : ~(i <= 0)
    OBVIOUS
  <2>6. Good(T, 0)
    <3>1. \A i \in 1 .. n : IF i <= 0 THEN Done(T, i) ELSE T[i].peers = S[i].peers
      BY <2>2, <2>5
    <3> QED
      BY <1>1, <2>3, <2>4, <3>1
  <2> QED
    BY <2>6 DEF T
<1>5. ASSUME NEW k \in 1 .. n, Good(g[k - 1], k - 1) PROVE Good(g[k], k)
  <2> DEFINE T == g[k - 1]
             U == Filled(T, k, order)
  <2>1. T \in [1 .. n -> Shard] /\ g[k] = U
    <3>1. k - 1 \in 0 .. n
      BY <1>1
    <3> QED
      BY <1>2, <1>3, <3>1
  <2> HIDE DEF T
  <2>2. /\ \A i \in 1 .. n : IF i <= k - 1 THEN Done(T, i) ELSE T[i].peers = S[i].peers
        /\ \A q \in 1 .. m : Load(T, order[q]) \in {Load(T, order[1]), Load(T, order[1]) - 1}
        /\ m = 2 => Load(T, order[1]) + Load(T, order[2]) >= k - 1
    BY <1>5 DEF T
  <2>3. T[k].peers = S[k].peers /\ k \in DOMAIN S
    BY <1>1, <2>2
  <2>4. \A q \in 1 .. m : ~Has(T[k], order[q])
    BY <2>3 DEF Has
  <2>5. NoRepeats(T[k].peers) /\ Len(T[k].peers) < Full(m)
    BY <2>3
  <2>6. Turning(T, k, order, m)
    <3>1. Even(T, k, order, m)
      BY <1>1, <2>2, <2>4 DEF Even
    <3>2. m = 2 => Halves(T, k, order)
      BY <2>2, <2>4 DEF Halves
    <3> QED
      BY <2>5, <3>1, <3>2 DEF Turning
  <2>7. /\ U \in [1 .. n -> Shard] /\ \A j \in 1 .. n : j # k => U[j] = T[j]
        /\ Turning(U, k, order, m) /\ \A x : Load(U, x) >= Load(T, x)
        /\ Len(U[k].peers) = Full(m)
        /\ m = 2 => Load(U, order[1]) + Load(U, order[2]) >= k
    BY <1>1, <2>1, <2>5, <2>6, EvenFilled
  <2> HIDE DEF U
  <2>8. Done(U, k)
    BY <2>7 DEF Turning, Halves
  <2>9. ASSUME NEW i \in 1 .. n, i < k PROVE Done(U, i)
    <3>1. Done(T, i) /\ U[i] = T[i]
      BY <1>1, <2>2, <2>7, <2>9
    <3>2. \A x : Load(U, x) \in Nat /\ Load(T, x) \in Nat
      BY <1>1, <2>1, <2>7, LoadType
    <3>3. ASSUME m = 2, NEW q \in 1 .. 2, Has(U[i], order[q]) PROVE i <= 2 * Load(U, order[q])
      <4>1. i <= 2 * Load(T, order[q])
        BY <3>1, <3>3
      <4>2. Load(U, order[q]) >= Load(T, order[q])
        BY <2>7
      <4>3. i \in Nat /\ Load(U, order[q]) \in Nat /\ Load(T, order[q]) \in Nat
        BY <1>1, <3>2
      <4> HIDE DEF Done
      <4> QED
        BY <4>1, <4>2, <4>3
    <3> QED
      BY <3>1, <3>3
  <2>10. ASSUME NEW i \in 1 .. n
         PROVE  IF i <= k THEN Done(U, i) ELSE U[i].peers = S[i].peers
    <3>1. CASE i < k
      BY <1>1, <2>9, <3>1
    <3>2. CASE i = k
      BY <1>1, <2>8, <3>2
    <3>3. CASE i > k
      <4>1. ~(i <= k) /\ ~(i <= k - 1) /\ i # k
        BY <1>1, <3>3
      <4> QED
        BY <2>2, <2>7, <4>1
    <3> QED
      BY <1>1, <3>1, <3>2, <3>3
  <2> HIDE DEF Done
  <2>11. Good(U, k)
    BY <2>7, <2>10 DEF Turning, Even
  <2> QED
    BY <2>1, <2>11
<1> HIDE DEF Good
<1>6. Good(g[n], n)
  <2> DEFINE K == {k \in 0 .. n : Good(g[k], k)}
  <2>1. 0 \in K
    BY <1>1, <1>4
  <2>2. ASSUME NEW k \in 1 .. n, k - 1 \in K PROVE k \in K
    <3>1. Good(g[k - 1], k - 1) /\ k \in 0 .. n
      BY <1>1, <2>2
    <3> QED
      BY <1>5, <3>1
  <2> HIDE DEF K
  <2>3. \A k \in 0 .. n : k \in K
    BY <1>1, <2>1, <2>2, LoopKeeps
  <2>4. n \in 0 .. n
    BY <1>1
  <2> QED
    BY <2>3, <2>4 DEF K
<1>7. ASSUME NEW i \in 1 .. n PROVE Done(R, i)
  <2>1. i <= n
    BY <1>1
  <2>2. IF i <= n THEN Done(R, i) ELSE R[i].peers = S[i].peers
    BY <1>2, <1>6 DEF Good
  <2> HIDE DEF Done
  <2> QED
    BY <2>1, <2>2
<1> QED
  BY <1>1, <1>7 DEF R

\* A shard that lacks one replica
LacksOne(shard) == Len(shard.peers) = 2

\* The while loop of a shard that lacks one replica.
LEMMA LastFilled ==
    ASSUME NEW n \in Nat, NEW T \in [1 .. n -> Shard], NEW i \in 1 .. n,
           NEW m \in Nat, m >= 3, NEW order \in [1 .. m -> Nat], LacksOne(T[i])
    PROVE  /\ Filled(T, i, order) = With(T, i, Best(T, i, order))
           /\ Best(T, i, order) \in Nat
<1> DEFINE b == Best(T, i, order)
           U == With(T, i, b)
<1>0. m > 0 /\ 2 < m
  OBVIOUS
<1>1. b \in Nat
  <2>1. DOMAIN T = 1 .. n
    OBVIOUS
  <2> QED
    BY <1>0, <2>1, BestAlive
<1>2. Placed(T, i, order) = U
  <2>1. Len(T[i].peers) < 3 /\ Len(T[i].peers) < m
    BY <1>0 DEF LacksOne
  <2> QED
    BY <2>1, PlacedIs, SMTT(30)
<1> HIDE DEF b
<1>3. Len(T[i].peers) < 3
  BY DEF LacksOne
<1>4. U \in [1 .. n -> Shard]
  BY <1>1, <1>3, LoadAdds
<1>5. Len(U[i].peers) = 3
  <2> DEFINE p == T[i].peers
             q == U[i].peers
  <2>1. q = Append(p, b)
    BY <1>1, <1>3, LoadAdds, ZenonT(30)
  <2>2. p \in Seq(Nat)
    BY DEF Shard
  <2> HIDE DEF p, q
  <2>3. Len(q) = Len(p) + 1
    BY <1>1, <2>1, <2>2
  <2>4. Len(p) = 2
    BY DEF LacksOne, p
  <2>5. Len(q) = 3
    BY <2>3, <2>4
  <2> QED
    BY <2>5 DEF q
<1> HIDE DEF U
<1>6. Placed(U, i, order) = U
  <2>1. ~(Len(U[i].peers) < 3 /\ Len(U[i].peers) < m)
    BY <1>5
  <2> QED
    BY <1>4, <2>1, PlacedIs
<1> QED
  BY <1>1, <1>2, <1>6 DEF Filled, U, b

\* Shards that lack one replica, with node s at most left of those that have replicas; it has
\* at least half as many as the number of a shard it is in
OneLeft(S, order, m, s) ==
    \A i \in DOMAIN S : /\ NoRepeats(S[i].peers) /\ LacksOne(S[i])
                        /\ \A k \in 1 .. m : Has(S[i], order[k]) => order[k] = s
                        /\ Has(S[i], s) => i <= 2 * Load(S, s)

\* A turn adds to one of three nodes at most
AtMostOneMore(T, U, x, y, s) ==
    /\ Load(U, x) + Load(U, y) + Load(U, s) <= Load(T, x) + Load(T, y) + Load(T, s) + 1
    /\ Load(U, s) >= Load(T, s)

\* The third replica of a shard, and the loads of three nodes.
LEMMA ThirdTurn ==
    ASSUME NEW n \in Nat, NEW T \in [1 .. n -> Shard], NEW k \in 1 .. n, NEW b \in Nat,
           LacksOne(T[k]), NoRepeats(T[k].peers), ~Has(T[k], b),
           NEW x \in Nat, NEW y \in Nat, NEW s \in Nat, x # y, x # s, y # s
    PROVE  LET U == With(T, k, b)
           IN  /\ U \in [1 .. n -> Shard] /\ \A j \in 1 .. n : j # k => U[j] = T[j]
               /\ Len(U[k].peers) = 3 /\ NoRepeats(U[k].peers)
               /\ AtMostOneMore(T, U, x, y, s)
<1> DEFINE U == With(T, k, b)
<1>1. Len(T[k].peers) < 3
  BY DEF LacksOne
<1>2. U \in [1 .. n -> Shard] /\ \A j \in 1 .. n : j # k => U[j] = T[j]
  BY <1>1, LoadAdds
<1>3. Load(U, b) = Load(T, b) + 1
  BY <1>1, LoadAdds
<1>4. \A v : v # b => Load(U, v) = Load(T, v)
  BY <1>1, LoadAdds
<1>5. Len(U[k].peers) = Len(T[k].peers) + 1
  BY <1>1, WithFacts
<1>6. NoRepeats(U[k].peers)
  BY <1>1, WithFacts
<1> HIDE DEF U
<1>7. Len(U[k].peers) = 3
  BY <1>5 DEF LacksOne
<1>8. Load(T, x) \in Nat /\ Load(T, y) \in Nat /\ Load(T, s) \in Nat
  BY LoadType
<1>9. \/ /\ Load(U, x) = Load(T, x) + 1 /\ Load(U, y) = Load(T, y) /\ Load(U, s) = Load(T, s)
      \/ /\ Load(U, x) = Load(T, x) /\ Load(U, y) = Load(T, y) + 1 /\ Load(U, s) = Load(T, s)
      \/ /\ Load(U, x) = Load(T, x) /\ Load(U, y) = Load(T, y) /\ Load(U, s) = Load(T, s) + 1
      \/ /\ Load(U, x) = Load(T, x) /\ Load(U, y) = Load(T, y) /\ Load(U, s) = Load(T, s)
  BY <1>3, <1>4
<1>10. /\ Load(U, x) + Load(U, y) + Load(U, s) <= Load(T, x) + Load(T, y) + Load(T, s) + 1
       /\ Load(U, s) >= Load(T, s)
  BY <1>8, <1>9
<1> QED
  BY <1>2, <1>6, <1>7, <1>10 DEF U, AtMostOneMore

\* A tick that places the third replicas, with one node, s, left of those that have replicas:
\* s is not chosen for a shard it is in.  The two others would have had to catch up with it
\* before shard i, twice its load in turns, and s is in shard i only if i is at most that.
LEMMA ThirdTick ==
    ASSUME NEW S \in Seq(Shard), NEW N \in SUBSET Nat, 0 \notin N, NEW m \in Nat, m >= 3,
           NEW order \in Orders(m), order \in [1 .. m -> N], NEW s \in Nat,
           \A i \in DOMAIN S : Fine(S[i], N), OneLeft(S, order, m, s)
    PROVE  LET R == Rebalanced(S, order)
           IN  \A i \in DOMAIN S : Len(R[i].peers) = 3 /\ NoRepeats(R[i].peers)
<1> DEFINE n == Len(S)
           P == Placements(S, N)
           R == Rebalanced(S, order)
           K == Load(S, s)
           Done(T, i) == Len(T[i].peers) = 3 /\ NoRepeats(T[i].peers)
<1>1. n \in Nat /\ DOMAIN S = 1 .. n /\ S \in [1 .. n -> Shard] /\ 1 \in 1 .. m /\ m > 0
  OBVIOUS
<1>2. order \in [1 .. m -> Nat] /\ \A j, k \in 1 .. m : j # k => order[j] # order[k]
  BY DEF Orders
<1>3. PICK x \in Nat, y \in Nat : /\ x # y /\ x # s /\ y # s
                                  /\ \E p, q \in 1 .. m : x = order[p] /\ y = order[q]
  <2>1. 1 \in 1 .. m /\ 2 \in 1 .. m /\ 3 \in 1 .. m
    OBVIOUS
  <2>2. /\ order[1] # order[2] /\ order[1] # order[3] /\ order[2] # order[3]
        /\ order[1] \in Nat /\ order[2] \in Nat /\ order[3] \in Nat
    BY <1>2, <2>1
  <2> QED
    BY <2>1, <2>2
<1> DEFINE Good(T, k) ==
              /\ \A i \in 1 .. n : IF i <= k THEN Done(T, i) ELSE T[i].peers = S[i].peers
              /\ Load(T, x) + Load(T, y) + Load(T, s) <= K + k /\ Load(T, s) >= K
<1>4. PICK g \in [0 .. n -> P] :
         /\ g[0] = [k \in DOMAIN S |-> Led(S[k])]
         /\ \A i \in 1 .. n : g[i] = Filled(g[i - 1], i, order)
         /\ R = g[n]
  <2>1. m > 0
    OBVIOUS
  <2> QED
    BY <2>1, RebalancedLoop, ZenonT(30)
<1>5. \A T \in P : T \in [1 .. n -> Shard]
  BY <1>1 DEF Placements
<1>6. K \in Nat
  BY <1>1, LoadType
<1>7. \A i \in 1 .. n : Has(S[i], s) => i <= 2 * K
  BY <1>1 DEF OneLeft
<1>8. \A i \in 1 .. n : ~Has(S[i], x) /\ ~Has(S[i], y)
  BY <1>1, <1>3 DEF OneLeft
<1> HIDE DEF n, P, R, K
<1>9. Good(g[0], 0)
  <2> DEFINE T == g[0]
  <2>1. T = [k \in 1 .. n |-> Led(S[k])] /\ T \in [1 .. n -> Shard]
    BY <1>1, <1>4, <1>5
  <2> HIDE DEF T
  <2>2. \A i \in 1 .. n : T[i].peers = S[i].peers
    BY <1>1, <2>1, LedPeers
  <2>3. Load(T, s) = K
    <3>1. DOMAIN T = DOMAIN S /\ \A i \in DOMAIN T : T[i].peers = S[i].peers
      BY <1>1, <2>1, <2>2
    <3> QED
      BY <3>1, LoadSame DEF K
  <2>4. Load(T, x) = 0 /\ Load(T, y) = 0
    <3>1. \A i \in 1 .. n : ~Has(T[i], x) /\ ~Has(T[i], y)
      BY <1>8, <2>2 DEF Has
    <3> QED
      BY <1>1, <2>1, <3>1, LoadZero
  <2>5. \A i \in 1 .. n : ~(i <= 0)
    OBVIOUS
  <2>6. Good(T, 0)
    BY <1>6, <2>2, <2>3, <2>4, <2>5
  <2> QED
    BY <2>6 DEF T
<1>10. ASSUME NEW k \in 1 .. n, Good(g[k - 1], k - 1) PROVE Good(g[k], k)
  <2> DEFINE T == g[k - 1]
             b == Best(T, k, order)
             U == With(T, k, b)
  <2>1. T \in [1 .. n -> Shard] /\ g[k] = Filled(T, k, order)
    <3>1. k - 1 \in 0 .. n
      BY <1>1
    <3> QED
      BY <1>4, <1>5, <3>1
  <2> HIDE DEF T
  <2>2. /\ \A i \in 1 .. n : IF i <= k - 1 THEN Done(T, i) ELSE T[i].peers = S[i].peers
        /\ Load(T, x) + Load(T, y) + Load(T, s) <= K + (k - 1) /\ Load(T, s) >= K
    BY <1>10 DEF T
  <2>3. T[k].peers = S[k].peers /\ k \in DOMAIN S
    BY <1>1, <2>2
  <2>4. \A v : Has(T[k], v) <=> Has(S[k], v)
    BY <2>3 DEF Has
  <2>5. NoRepeats(T[k].peers) /\ LacksOne(T[k])
    BY <2>3 DEF LacksOne, OneLeft
  <2>6. \A v : Load(T, v) \in Nat
    BY <1>1, <2>1, LoadType
  <2>7. Choice(T, k, order, m, b)
    BY <1>1, <1>2, <2>1, BestChoice
  <2>8. b \in Nat
    BY <1>1, <1>2, <2>1, <2>5, LastFilled
  <2>17. g[k] = U
    BY <1>1, <1>2, <2>1, <2>5, LastFilled
  <2>18. Len(T[k].peers) < 3
    BY <2>5 DEF LacksOne
  <2>19. n \in Nat
    BY <1>1
  <2>20. T \in [1 .. n -> Shard]
    BY <2>1
  <2> HIDE DEF b
  <2>9. ~Has(T[k], b)
    <3> SUFFICES ASSUME Has(T[k], b) PROVE FALSE
      OBVIOUS
    <3>1. b = order[1] /\ \A q \in 1 .. m : Has(T[k], order[q]) \/ Load(T, order[q]) >= Load(T, order[1])
      BY <2>7 DEF Choice
    <3>2. b = s /\ Has(S[k], s)
      BY <1>1, <2>3, <2>4, <3>1 DEF OneLeft
    <3>3. Load(T, x) >= Load(T, s) /\ Load(T, y) >= Load(T, s)
      BY <1>3, <1>8, <2>4, <3>1, <3>2
    <3>4. k <= 2 * K
      BY <1>7, <3>2
    <3>5. k \in Nat /\ Load(T, x) \in Nat /\ Load(T, y) \in Nat /\ Load(T, s) \in Nat
      BY <1>1, <2>6
    <3> HIDE DEF Done
    <3> QED
      BY <1>6, <2>2, <3>3, <3>4, <3>5
  <2>10. /\ U \in [1 .. n -> Shard] /\ \A j \in 1 .. n : j # k => U[j] = T[j]
         /\ Len(U[k].peers) = 3 /\ NoRepeats(U[k].peers)
         /\ AtMostOneMore(T, U, x, y, s)
    <3>1. x # y /\ x # s /\ y # s
      BY <1>3
    <3>2. LacksOne(T[k])
      BY <2>5
    <3>3. NoRepeats(T[k].peers)
      BY <2>5
    <3> QED
      BY <2>8, <2>9, <2>19, <2>20, <3>1, <3>2, <3>3, ThirdTurn
  <2> HIDE DEF U
  <2>13. Done(U, k)
    BY <2>10
  <2>14. Load(U, x) + Load(U, y) + Load(U, s) <= K + k /\ Load(U, s) >= K
    <3>1. /\ k \in Nat /\ Load(T, x) \in Nat /\ Load(T, y) \in Nat /\ Load(T, s) \in Nat
          /\ Load(U, x) \in Nat /\ Load(U, y) \in Nat /\ Load(U, s) \in Nat
      BY <1>1, <2>6, <2>10, LoadType
    <3>2. /\ Load(T, x) + Load(T, y) + Load(T, s) <= K + (k - 1) /\ Load(T, s) >= K
          /\ Load(U, x) + Load(U, y) + Load(U, s) <= Load(T, x) + Load(T, y) + Load(T, s) + 1
          /\ Load(U, s) >= Load(T, s)
      BY <2>2, <2>10 DEF AtMostOneMore
    <3> DEFINE before == Load(T, x) + Load(T, y) + Load(T, s)
               after == Load(U, x) + Load(U, y) + Load(U, s)
    <3>3. before \in Nat /\ after \in Nat /\ before <= K + (k - 1) /\ after <= before + 1
      BY <3>1, <3>2, SMTT(30)
    <3> HIDE DEF before, after
    <3>4. after <= K + k
      BY <1>6, <3>1, <3>3
    <3>5. Load(U, s) >= K
      BY <1>6, <3>1, <3>2
    <3> QED
      BY <3>4, <3>5 DEF after
  <2>15. ASSUME NEW i \in 1 .. n
         PROVE  IF i <= k THEN Done(U, i) ELSE U[i].peers = S[i].peers
    <3>1. CASE i < k
      <4>1. i <= k - 1 /\ i <= k /\ i # k
        BY <1>1, <3>1
      <4> QED
        BY <2>2, <2>10, <4>1
    <3>2. CASE i = k
      BY <1>1, <2>13, <3>2
    <3>3. CASE i > k
      <4>1. ~(i <= k) /\ ~(i <= k - 1) /\ i # k
        BY <1>1, <3>3
      <4> QED
        BY <2>2, <2>10, <4>1
    <3> QED
      BY <1>1, <3>1, <3>2, <3>3
  <2> HIDE DEF Done
  <2>16. Good(U, k)
    BY <2>14, <2>15
  <2> QED
    BY <2>16, <2>17
<1> HIDE DEF Good
<1>11. Good(g[n], n)
  <2> DEFINE X == {k \in 0 .. n : Good(g[k], k)}
  <2>1. 0 \in X
    BY <1>1, <1>9
  <2>2. ASSUME NEW k \in 1 .. n, k - 1 \in X PROVE k \in X
    <3>1. Good(g[k - 1], k - 1) /\ k \in 0 .. n
      BY <1>1, <2>2
    <3> QED
      BY <1>10, <3>1
  <2> HIDE DEF X
  <2>3. \A k \in 0 .. n : k \in X
    BY <1>1, <2>1, <2>2, LoopKeeps
  <2>4. n \in 0 .. n
    BY <1>1
  <2> QED
    BY <2>3, <2>4 DEF X
<1>12. ASSUME NEW i \in 1 .. n PROVE Done(R, i)
  <2>1. i <= n
    BY <1>1
  <2>2. IF i <= n THEN Done(R, i) ELSE R[i].peers = S[i].peers
    BY <1>4, <1>11 DEF Good
  <2> HIDE DEF Done
  <2> QED
    BY <2>1, <2>2
<1> QED
  BY <1>1, <1>12 DEF R

\* A tick that finds all shards full moves no replica.
LEMMA IdleTick ==
    ASSUME NEW S \in Seq(Shard), NEW N \in SUBSET Nat, 0 \notin N, NEW m \in Nat, m > 0,
           NEW order \in [1 .. m -> N],
           \A i \in DOMAIN S : Fine(S[i], N) /\ Len(S[i].peers) >= Full(m)
    PROVE  \A i \in DOMAIN S : Rebalanced(S, order)[i].peers = S[i].peers
<1> DEFINE n == Len(S)
           P == Placements(S, N)
           R == Rebalanced(S, order)
           Same(T) == \A i \in 1 .. n : T[i].peers = S[i].peers
<1>1. n \in Nat /\ DOMAIN S = 1 .. n /\ S \in [1 .. n -> Shard] /\ order \in [1 .. m -> Nat]
  <2>1. order \in [1 .. m -> Nat]
    OBVIOUS
  <2>2. n \in Nat /\ DOMAIN S = 1 .. n /\ S \in [1 .. n -> Shard]
    OBVIOUS
  <2> QED
    BY <2>1, <2>2
<1>2. PICK g \in [0 .. n -> P] :
         /\ g[0] = [k \in DOMAIN S |-> Led(S[k])]
         /\ \A i \in 1 .. n : g[i] = Filled(g[i - 1], i, order)
         /\ R = g[n]
  BY RebalancedLoop, ZenonT(30)
<1>3. \A T \in P : T \in [1 .. n -> Shard]
  BY <1>1 DEF Placements
<1> HIDE DEF n, P, R
<1>4. Same(g[0])
  BY <1>1, <1>2, LedPeers
<1>5. ASSUME NEW k \in 1 .. n, Same(g[k - 1]) PROVE Same(g[k])
  <2> DEFINE T == g[k - 1]
  <2>1. T \in [1 .. n -> Shard] /\ g[k] = Filled(T, k, order) /\ Same(T)
    <3>1. k - 1 \in 0 .. n
      BY <1>1
    <3> QED
      BY <1>2, <1>3, <1>5, <3>1
  <2> HIDE DEF T
  <2>2. ~(Len(T[k].peers) < 3 /\ Len(T[k].peers) < m)
    <3>1. T[k].peers = S[k].peers /\ S[k].peers \in Seq(Nat) /\ Len(S[k].peers) >= Full(m)
      BY <1>1, <2>1 DEF Shard
    <3>2. Len(S[k].peers) \in Nat
      BY <3>1
    <3> QED
      BY <3>1, <3>2 DEF Full
  <2>3. Placed(T, k, order) = T
    BY <1>1, <2>1, <2>2, PlacedIs
  <2> QED
    BY <2>1, <2>3 DEF Filled
<1> HIDE DEF Same
<1>6. Same(g[n])
  <2> DEFINE X == {k \in 0 .. n : Same(g[k])}
  <2>1. 0 \in X
    BY <1>1, <1>4
  <2>2. ASSUME NEW k \in 1 .. n, k - 1 \in X PROVE k \in X
    <3>1. Same(g[k - 1]) /\ k \in 0 .. n
      BY <1>1, <2>2
    <3> QED
      BY <1>5, <3>1
  <2> HIDE DEF X
  <2>3. \A k \in 0 .. n : k \in X
    BY <1>1, <2>1, <2>2, LoopKeeps
  <2>4. n \in 0 .. n
    BY <1>1
  <2> QED
    BY <2>3, <2>4 DEF X
<1> QED
  BY <1>1, <1>2, <1>6 DEF R, Same

-----------------------------------------------------------------------------
(* No node holds two replicas of a shard *)

\* How the replicas lie when the nodes up to d have been found dead.  All shards have as many.
\* A single one is on the node after them at the latest; of two, none is on a later node than the
\* second after them, and that one has at least half as many replicas as the number of any
\* shard it is in
Stage(S, d) ==
    \E l \in 0 .. 3 :
        /\ \A i \in DOMAIN S : Len(S[i].peers) = l /\ NoRepeats(S[i].peers)
        /\ l \in {1, 2} => \A i \in DOMAIN S, x \in Nat : Has(S[i], x) => x <= d + l
        /\ l = 2 => \A i \in DOMAIN S : Has(S[i], d + 2) => i <= 2 * Load(S, d + 2)

\* More nodes have died, and no replica has been placed.
LEMMA StageLater ==
    ASSUME NEW S, NEW d \in Nat, NEW z \in Nat, d < z, Stage(S, d),
           NEW R, DOMAIN R = DOMAIN S, \A i \in DOMAIN S : R[i].peers = S[i].peers
    PROVE  Stage(R, z)
<1>1. PICK l \in 0 .. 3 :
         /\ \A i \in DOMAIN S : Len(S[i].peers) = l /\ NoRepeats(S[i].peers)
         /\ l \in {1, 2} => \A i \in DOMAIN S, x \in Nat : Has(S[i], x) => x <= d + l
         /\ l = 2 => \A i \in DOMAIN S : Has(S[i], d + 2) => i <= 2 * Load(S, d + 2)
  BY DEF Stage
<1>2. \A i \in DOMAIN S : \A x : Has(R[i], x) <=> Has(S[i], x)
  BY DEF Has
<1>3. \A i \in DOMAIN R : Len(R[i].peers) = l /\ NoRepeats(R[i].peers)
  BY <1>1
<1>4. ASSUME l \in {1, 2}, NEW i \in DOMAIN R, NEW x \in Nat, Has(R[i], x) PROVE x < z + l
  <2>1. x <= d + l
    BY <1>1, <1>2, <1>4
  <2> QED
    BY <2>1
<1>5. ASSUME l = 2, NEW i \in DOMAIN R, Has(R[i], z + 2) PROVE FALSE
  <2>1. z + 2 \in Nat /\ l \in {1, 2}
    BY <1>5
  <2>2. z + 2 < z + l
    BY <1>4, <1>5, <2>1
  <2> QED
    BY <1>5, <2>2
<1>6. l \in {1, 2} => \A i \in DOMAIN R, x \in Nat : Has(R[i], x) => x <= z + l
  BY <1>4
<1> QED
  BY <1>3, <1>5, <1>6 DEF Stage

\* The order of nodes_ has every node that is alive once.
LEMMA OrderOnce ==
    ASSUME NEW n \in Nat, NEW z \in Nat, z < n, NEW order \in SetToSeqs((z + 1) .. n)
    PROVE  /\ n - z \in Nat /\ n - z > 0 /\ order \in Orders(n - z)
           /\ order \in [1 .. (n - z) -> 1 .. n]
           /\ \A k \in 1 .. (n - z) : order[k] > z
<1> DEFINE live == (z + 1) .. n
<1>1. Cardinality(live) = n - z
  <2>1. z + 1 \in Int /\ n \in Int /\ ~(z + 1 > n) /\ n - (z + 1) + 1 = n - z
    OBVIOUS
  <2>2. Cardinality(live) = IF z + 1 > n THEN 0 ELSE n - (z + 1) + 1
    BY <2>1, FS_Interval
  <2> QED
    BY <2>1, <2>2
<1>2. /\ order \in [1 .. Cardinality(live) -> live]
      /\ \A j, k \in 1 .. Cardinality(live) : j # k => order[j] # order[k]
  BY DEF SetToSeqs
<1>3. \A x \in live : x > z /\ x \in 1 .. n /\ x \in Nat
  OBVIOUS
<1> HIDE DEF live
<1>4. order \in [1 .. (n - z) -> live] /\ \A j, k \in 1 .. (n - z) : j # k => order[j] # order[k]
  BY <1>1, <1>2
<1>5. order \in [1 .. (n - z) -> Nat] /\ order \in [1 .. (n - z) -> 1 .. n]
  BY <1>3, <1>4
<1> QED
  BY <1>3, <1>4, <1>5 DEF Orders

\* A tick that finds nodes dead, the ones up to z, and the others up to n alive.
LEMMA TickStage ==
    ASSUME NEW n \in Nat, NEW S \in Seq(Shard), \A i \in DOMAIN S : Fine(S[i], 1 .. n),
           NEW d \in Nat, NEW z \in Nat, d < z, z < n, Stage(S, d),
           NEW order \in SetToSeqs((z + 1) .. n)
    PROVE  Stage(Rebalanced(S, order), z)
<1> DEFINE m == n - z
           N == 1 .. n
           R == Rebalanced(S, order)
<1>1. /\ m \in Nat /\ m > 0 /\ order \in Orders(m) /\ order \in [1 .. m -> N]
      /\ \A k \in 1 .. m : order[k] > z
  BY OrderOnce
<1>2. N \in SUBSET Nat /\ 0 \notin N
  OBVIOUS
<1>3. PICK l \in 0 .. 3 :
         /\ \A i \in DOMAIN S : Len(S[i].peers) = l /\ NoRepeats(S[i].peers)
         /\ l \in {1, 2} => \A i \in DOMAIN S, x \in Nat : Has(S[i], x) => x <= d + l
         /\ l = 2 => \A i \in DOMAIN S : Has(S[i], d + 2) => i <= 2 * Load(S, d + 2)
  BY DEF Stage
<1>4. R \in Placements(S, N)
  BY <1>1, <1>2, RebalancedKeeps
<1>5. n = z + m
  OBVIOUS
<1>6. \A i \in DOMAIN S : Fine(S[i], N)
  OBVIOUS
<1> HIDE DEF m, N, R
<1>7. DOMAIN R = DOMAIN S /\ \A i \in DOMAIN S : Fine(R[i], N)
  BY <1>4 DEF Placements
<1>8. CASE l >= Full(m)
  <2>1. \A i \in DOMAIN S : Fine(S[i], N) /\ Len(S[i].peers) >= Full(m)
    BY <1>3, <1>6, <1>8
  <2>2. \A i \in DOMAIN S : R[i].peers = S[i].peers
    BY <1>1, <1>2, <2>1, IdleTick DEF R
  <2> QED
    BY <1>7, <2>2, StageLater DEF R
<1>9. CASE l < Full(m) /\ l < 2
  <2>1. ASSUME NEW i \in DOMAIN S, NEW k \in 1 .. m PROVE ~Has(S[i], order[k])
    <3>1. order[k] > z /\ order[k] \in Nat
      BY <1>1 DEF Orders
    <3>2. CASE l = 0
      BY <1>3, <3>2 DEF Has
    <3>3. CASE l = 1
      <4>1. Has(S[i], order[k]) => order[k] <= d + 1
        BY <1>3, <3>1, <3>3
      <4> QED
        BY <3>1, <4>1
    <3> QED
      BY <1>9, <3>2, <3>3
  <2>2. \A i \in DOMAIN S : /\ Fine(S[i], N) /\ NoRepeats(S[i].peers)
                            /\ Len(S[i].peers) < Full(m)
                            /\ \A k \in 1 .. m : ~Has(S[i], order[k])
    BY <1>3, <1>6, <1>9, <2>1
  <2>3. \A i \in DOMAIN S :
           /\ Len(R[i].peers) = Full(m) /\ NoRepeats(R[i].peers)
           /\ m = 2 => \A k \in 1 .. 2 : Has(R[i], order[k]) => i <= 2 * Load(R, order[k])
    BY <1>1, <1>2, <2>2, FreshTick DEF R
  <2>4. Full(m) \in 0 .. 3 /\ (Full(m) \in {1, 2} => m = Full(m))
    BY <1>1 DEF Full
  <2>5. ASSUME Full(m) \in {1, 2}, NEW i \in DOMAIN R, NEW x \in Nat, Has(R[i], x)
        PROVE  x <= z + Full(m)
    <3>1. x \in N
      <4>1. Fine(R[i], N) /\ \E k \in 1 .. Len(R[i].peers) : R[i].peers[k] = x
        BY <1>7, <2>5 DEF Has
      <4> QED
        BY <4>1 DEF Fine
    <3> QED
      BY <1>5, <2>4, <2>5, <3>1 DEF N
  <2>6. ASSUME Full(m) = 2, NEW i \in DOMAIN R, Has(R[i], z + 2)
        PROVE  i <= 2 * Load(R, z + 2)
    <3>1. m = 2 /\ n = z + 2 /\ 1 \in 1 .. m /\ 2 \in 1 .. m
      BY <1>5, <2>4, <2>6
    <3>2. order[1] # order[2] /\ order[1] \in 1 .. n /\ order[2] \in 1 .. n
      BY <1>1, <3>1 DEF Orders, N
    <3>3. order[1] > z /\ order[2] > z
      BY <1>1, <3>1
    <3>4. order[1] = z + 2 \/ order[2] = z + 2
      BY <3>1, <3>2, <3>3
    <3>5. \A k \in 1 .. 2 : Has(R[i], order[k]) => i <= 2 * Load(R, order[k])
      BY <1>7, <2>3, <3>1
    <3> QED
      BY <2>6, <3>4, <3>5
  <2> QED
    BY <1>7, <2>3, <2>4, <2>5, <2>6 DEF Stage, R
<1>10. CASE l < Full(m) /\ l = 2
  <2> DEFINE s == d + 2
  <2>1. m >= 3 /\ s \in Nat
    BY <1>1, <1>10 DEF Full
  <2>2. ASSUME NEW i \in DOMAIN S, NEW k \in 1 .. m, Has(S[i], order[k]) PROVE order[k] = s
    <3>1. order[k] > z /\ order[k] \in Nat
      BY <1>1 DEF Orders
    <3>2. order[k] <= d + 2
      BY <1>3, <1>10, <2>2, <3>1
    <3> QED
      BY <3>1, <3>2
  <2>3. OneLeft(S, order, m, s)
    BY <1>3, <1>10, <2>2 DEF OneLeft, LacksOne
  <2> HIDE DEF s
  <2>4. \A i \in DOMAIN S : Len(R[i].peers) = 3 /\ NoRepeats(R[i].peers)
    BY <1>1, <1>2, <1>6, <2>1, <2>3, ThirdTick DEF R
  <2> QED
    BY <1>7, <2>4 DEF Stage, R
<1> QED
  <2> DEFINE f == Full(m)
  <2>1. f \in 0 .. 3
    BY <1>1 DEF Full
  <2> HIDE DEF f
  <2>2. l >= f \/ (l < f /\ l < 2) \/ (l < f /\ l = 2)
    BY <2>1
  <2> QED
    BY <1>8, <1>9, <1>10, <2>2 DEF R, f

\* Nodes from whose registration ten seconds have passed
Silent == Len(alive) - Len(recent)

\* The inductive invariant: nodes fall silent and are found dead in the order of registration,
\* as no frame counts as a heartbeat, and the replicas lie by stages
SpreadInv ==
    /\ PlacementInv
    /\ recent \in Seq(Nat) /\ Silent \in Nat /\ \A k \in 1 .. Len(recent) : recent[k] = Silent + k
    /\ \E d \in 0 .. Silent : (\A id \in DOMAIN alive : alive[id] <=> id > d) /\ Stage(shards, d)

\* onMessage takes every frame for a registration.
LEMMA EveryFrameRegisters == \A request \in Requests : Handler(request) = "RegisterNode"
<1> TAKE request \in Requests
<1> DEFINE order == <<"RegisterNode", "Heartbeat", "GetShardMap">>
           Is(k) == Parses(order[k], request) /\ \A j \in 1 .. (k - 1) : ~Parses(order[j], request)
           first == CHOOSE k \in DOMAIN order : Is(k)
<1>1. DOMAIN order = 1 .. 3 /\ order[1] = "RegisterNode"
  OBVIOUS
<1>2. Parses(order[1], request)
  BY <1>1 DEF Parses, Requests
<1>3. Handler(request) = order[first]
  BY DEF Handler
<1> HIDE DEF order
<1>4. Is(1)
  BY <1>2
<1>5. ASSUME NEW k \in DOMAIN order, Is(k) PROVE k = 1
  <2>1. k # 1 => 1 \in 1 .. (k - 1)
    BY <1>1
  <2> QED
    BY <1>2, <1>5, <2>1
<1>6. first = 1
  BY <1>1, <1>4, <1>5
<1> QED
  BY <1>1, <1>3, <1>6

\* A frame adds a node at the end and leaves the replicas.
LEMMA RegisterSpread ==
    ASSUME SpreadInv, PlacementInv', NEW request \in Requests, NEW id, Handle(request, id), shards' = shards
    PROVE  SpreadInv'
<1>1. alive' = Append(alive, TRUE) /\ recent' = Append(recent, Len(alive) + 1)
  BY EveryFrameRegisters DEF Handle, RegisterId
<1>2. /\ alive \in Seq(BOOLEAN) /\ recent \in Seq(Nat) /\ Silent \in Nat
      /\ \A k \in 1 .. Len(recent) : recent[k] = Silent + k
  BY DEF SpreadInv, PlacementInv
<1>3. PICK d \in 0 .. Silent : (\A x \in DOMAIN alive : alive[x] <=> x > d) /\ Stage(shards, d)
  BY DEF SpreadInv
<1>4. Len(alive) \in Nat /\ Len(recent) \in Nat /\ DOMAIN alive = 1 .. Len(alive)
  BY <1>2
<1>5. Len(alive') = Len(alive) + 1 /\ Len(recent') = Len(recent) + 1 /\ recent' \in Seq(Nat)
  BY <1>1, <1>2, <1>4
<1>6. Silent' = Silent
  BY <1>4, <1>5 DEF Silent
<1>7. ASSUME NEW k \in 1 .. Len(recent') PROVE recent'[k] = Silent + k
  <2>1. CASE k \in 1 .. Len(recent)
    BY <1>1, <1>2, <2>1
  <2>2. CASE k = Len(recent) + 1
    <3>1. recent'[k] = Len(alive) + 1
      BY <1>1, <1>2, <2>2
    <3> QED
      BY <1>4, <2>2, <3>1 DEF Silent
  <2> QED
    BY <1>4, <1>5, <2>1, <2>2
<1>8. ASSUME NEW x \in DOMAIN alive' PROVE alive'[x] <=> x > d
  <2>1. x \in 1 .. Len(alive) \/ x = Len(alive) + 1
    BY <1>1, <1>2, <1>4
  <2>2. CASE x \in 1 .. Len(alive)
    BY <1>1, <1>2, <1>3, <1>4, <2>2
  <2>3. CASE x = Len(alive) + 1
    <3>1. alive'[x] = TRUE
      BY <1>1, <1>2, <2>3
    <3>2. d <= Len(alive) /\ d \in Nat
      BY <1>2, <1>4 DEF Silent
    <3> QED
      BY <1>4, <2>3, <3>1, <3>2
  <2> QED
    BY <2>1, <2>2, <2>3
<1> QED
  BY <1>2, <1>3, <1>5, <1>6, <1>7, <1>8 DEF SpreadInv

\* The oldest of the nodes heard of falls silent.
LEMMA SilentSpread == ASSUME SpreadInv, PlacementInv', NodeSilent PROVE SpreadInv'
<1>1. /\ alive \in Seq(BOOLEAN) /\ recent \in Seq(Nat) /\ Silent \in Nat
      /\ \A k \in 1 .. Len(recent) : recent[k] = Silent + k
  BY DEF SpreadInv, PlacementInv
<1>2. recent # <<>> /\ recent' = Tail(recent) /\ alive' = alive /\ shards' = shards
  BY DEF NodeSilent
<1>3. PICK d \in 0 .. Silent : (\A x \in DOMAIN alive : alive[x] <=> x > d) /\ Stage(shards, d)
  BY DEF SpreadInv
<1>4. /\ Len(alive) \in Nat /\ Len(recent) \in Nat /\ Len(recent) > 0
      /\ recent' \in Seq(Nat) /\ Len(recent') = Len(recent) - 1
      /\ \A k \in 1 .. (Len(recent) - 1) : recent'[k] = recent[k + 1]
  BY <1>1, <1>2
<1>5. Silent' = Silent + 1
  BY <1>2, <1>4 DEF Silent
<1>6. ASSUME NEW k \in 1 .. Len(recent') PROVE recent'[k] = Silent' + k
  <2>1. k \in 1 .. (Len(recent) - 1) /\ k + 1 \in 1 .. Len(recent)
    BY <1>4
  <2>2. recent'[k] = Silent + (k + 1)
    BY <1>1, <1>4, <2>1
  <2> QED
    BY <1>1, <1>5, <2>1, <2>2
<1>7. d \in 0 .. Silent'
  BY <1>1, <1>5
<1>8. (\A x \in DOMAIN alive' : alive'[x] <=> x > d) /\ Stage(shards', d)
  BY <1>2, <1>3
<1> QED
  BY <1>1, <1>4, <1>5, <1>6, <1>7, <1>8 DEF SpreadInv

\* A tick: the silent nodes are found dead and replicas are placed on the others.
LEMMA TickSpread == ASSUME SpreadInv, PlacementInv', Tick PROVE SpreadInv'
<1> DEFINE dead == {id \in DOMAIN alive : alive[id] /\ id \notin ToSet(recent)}
           live == {id \in DOMAIN alive : alive[id]} \ dead
           n == Len(alive)
           z == Silent
<1>1. /\ alive \in Seq(BOOLEAN) /\ recent \in Seq(Nat) /\ z \in Nat
      /\ \A k \in 1 .. Len(recent) : recent[k] = z + k
      /\ shards \in Seq(Shard) /\ \A i \in DOMAIN shards : Fine(shards[i], DOMAIN alive)
  BY DEF SpreadInv, PlacementInv
<1>2. PICK d \in 0 .. z : (\A x \in DOMAIN alive : alive[x] <=> x > d) /\ Stage(shards, d)
  BY DEF SpreadInv
<1>3. /\ dead # {} /\ alive' = [id \in DOMAIN alive |-> id \in live] /\ recent' = recent
      /\ \E order \in SetToSeqs(live) : shards' = IF live = {} THEN shards ELSE Rebalanced(shards, order)
  BY DEF Tick
<1>4. n \in Nat /\ DOMAIN alive = 1 .. n /\ Len(recent) = n - z /\ Len(recent) \in Nat
  BY <1>1 DEF Silent
<1>5. ASSUME NEW x \in 1 .. n PROVE x \in ToSet(recent) <=> x > z
  <2>1. DOMAIN recent = 1 .. (n - z)
    BY <1>1, <1>4
  <2>2. x \in ToSet(recent) <=> \E k \in 1 .. (n - z) : x = z + k
    BY <1>1, <1>4, <2>1 DEF ToSet
  <2>3. x > z => x - z \in 1 .. (n - z) /\ x = z + (x - z)
    BY <1>1, <1>4
  <2>4. ASSUME NEW k \in 1 .. (n - z), x = z + k PROVE x > z
    BY <1>1, <1>4, <2>4
  <2> HIDE DEF n, z
  <2> QED
    BY <2>2, <2>3, <2>4
<1>6. d < z
  <2>1. PICK x \in dead : TRUE
    BY <1>3
  <2>2. x \in 1 .. n /\ x > d /\ ~(x > z)
    BY <1>2, <1>4, <1>5, <2>1
  <2> QED
    BY <1>1, <1>4, <2>2
<1>7. ASSUME NEW x \in 1 .. n PROVE x \in live <=> x > z
  <2>1. x \in live <=> alive[x] /\ x \in ToSet(recent)
    BY <1>4
  <2>2. x > z => x > d
    BY <1>1, <1>6
  <2> QED
    BY <1>2, <1>4, <1>5, <2>1, <2>2
<1>8. live = (z + 1) .. n
  <2>1. live \subseteq 1 .. n /\ (z + 1) .. n \subseteq 1 .. n
    BY <1>1, <1>4
  <2>2. \A x \in 1 .. n : x \in (z + 1) .. n <=> x > z
    BY <1>1, <1>4
  <2> HIDE DEF live, n, z
  <2> QED
    BY <1>7, <2>1, <2>2
<1> HIDE DEF live, dead
<1>9. Silent' = z /\ DOMAIN alive' = 1 .. n /\ \A x \in 1 .. n : alive'[x] <=> x > z
  <2>1. Len(alive') = n
    BY <1>3, <1>4
  <2>2. Silent' = z
    BY <1>3, <2>1 DEF Silent
  <2> QED
    BY <1>3, <1>4, <1>7, <2>2
<1>10. Stage(shards', z)
  <2>1. CASE z < n
    <3>1. live # {}
      <4>1. n \in (z + 1) .. n
        BY <1>1, <1>4, <2>1
      <4> QED
        BY <1>8, <4>1
    <3>2. PICK order \in SetToSeqs((z + 1) .. n) : shards' = Rebalanced(shards, order)
      BY <1>3, <1>8, <3>1
    <3>3. d \in Nat /\ \A i \in DOMAIN shards : Fine(shards[i], 1 .. n)
      BY <1>1, <1>4
    <3> HIDE DEF n, z
    <3> QED
      BY <1>1, <1>2, <1>4, <1>6, <2>1, <3>2, <3>3, TickStage
  <2>2. CASE ~(z < n)
    <3>1. live = {}
      BY <1>1, <1>4, <1>8, <2>2
    <3>2. shards' = shards
      BY <1>3, <3>1
    <3>3. d \in Nat
      BY <1>1
    <3> QED
      BY <1>1, <1>2, <1>6, <3>2, <3>3, StageLater
  <2> QED
    BY <2>1, <2>2
<1>11. z \in 0 .. Silent'
  BY <1>1, <1>9
<1> QED
  BY <1>1, <1>3, <1>9, <1>10, <1>11 DEF SpreadInv

\* The inductive invariant of the spread of replicas.
THEOREM SpreadInvariance == Spec => []SpreadInv
<1>1. Init /\ PlacementInv => SpreadInv
  <2> SUFFICES ASSUME Init, PlacementInv PROVE SpreadInv
    OBVIOUS
  <2>1. PICK n \in ShardCounts : shards = [i \in 1 .. n |-> [leader |-> 0, peers |-> <<>>]]
    BY DEF Init
  <2>2. alive = <<>> /\ recent = <<>>
    BY DEF Init
  <2>3. Silent = 0
    BY <2>2 DEF Silent
  <2>4. \A i \in DOMAIN shards : Len(shards[i].peers) = 0 /\ NoRepeats(shards[i].peers)
    BY <2>1 DEF NoRepeats
  <2>5. Stage(shards, 0)
    BY <2>4 DEF Stage
  <2> QED
    BY <2>2, <2>3, <2>5 DEF SpreadInv
<1>2. SpreadInv /\ PlacementInv' /\ [Next]_vars => SpreadInv'
  <2> SUFFICES ASSUME SpreadInv, PlacementInv', [Next]_vars PROVE SpreadInv'
    OBVIOUS
  <2>1. "RegisterNode" \in Requests /\ "Heartbeat" \in Requests /\ "GetShardMap" \in Requests
    BY DEF Requests
  <2>2. CASE RegisterNode
    BY <2>1, <2>2, RegisterSpread DEF RegisterNode
  <2>3. CASE \E id \in 1 .. MaxNodes : Heartbeat(id)
    BY <2>1, <2>3, RegisterSpread DEF Heartbeat
  <2>4. CASE FetchShardMap
    BY <2>1, <2>4, RegisterSpread DEF FetchShardMap
  <2>5. CASE LoadShardMap \/ UNCHANGED vars
    <3>1. UNCHANGED <<alive, recent, shards>>
      BY <2>5 DEF LoadShardMap, vars
    <3> QED
      BY <3>1 DEF SpreadInv, Silent
  <2>6. CASE NodeSilent
    BY <2>6, SilentSpread
  <2>7. CASE Tick
    BY <2>7, TickSpread
  <2> QED
    BY <2>2, <2>3, <2>4, <2>5, <2>6, <2>7 DEF Next
<1> QED
  BY <1>1, <1>2, PlacementInvariance, PTL DEF Spec

\* No node holds two replicas of a shard, for any number of nodes and shards, whatever nodes come
\* and go and in whatever order nodes_ lists them at each tick.
THEOREM ReplicasAreDistinct == Spec => []DistinctReplicas
<1>1. ASSUME SpreadInv, NEW i \in DOMAIN shards
      PROVE  Cardinality(ToSet(shards[i].peers)) = Len(shards[i].peers)
  <2> DEFINE p == shards[i].peers
             D == 1 .. Len(p)
  <2>1. p \in Seq(Nat) /\ NoRepeats(p)
    <3>1. shards \in Seq(Shard) /\ NoRepeats(p)
      BY <1>1 DEF SpreadInv, PlacementInv, Stage
    <3>2. shards[i] \in Shard
      BY <3>1
    <3> QED
      BY <3>1, <3>2 DEF Shard
  <2> HIDE DEF p
  <2>2. Len(p) \in Nat /\ DOMAIN p = D /\ ToSet(p) = {p[k] : k \in D}
    BY <2>1 DEF ToSet
  <2>3. p \in [D -> ToSet(p)]
    BY <2>1, <2>2
  <2>4. p \in Bijection(D, ToSet(p))
    <3>1. \A j, k \in D : p[j] = p[k] => j = k
      BY <2>1 DEF NoRepeats
    <3>2. \A y \in ToSet(p) : \E k \in D : p[k] = y
      BY <2>2
    <3> QED
      BY <2>3, <3>1, <3>2 DEF Bijection, Injection, Surjection, IsInjective
  <2>5. IsFiniteSet(D) /\ Cardinality(D) = Len(p)
    <3>1. IsFiniteSet(D) /\ Cardinality(D) = IF 1 > Len(p) THEN 0 ELSE Len(p) - 1 + 1
      BY <2>2, FS_Interval
    <3> QED
      BY <2>2, <3>1
  <2>6. Cardinality(ToSet(p)) = Cardinality(D)
    BY <2>4, <2>5, FS_Bijection DEF ExistsBijection
  <2> QED
    BY <2>5, <2>6 DEF p
<1>2. SpreadInv => DistinctReplicas
  BY <1>1 DEF DistinctReplicas
<1> QED
  BY <1>2, SpreadInvariance, PTL
=============================================================================
