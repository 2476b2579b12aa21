------------------------- MODULE ConnectPoolProof -------------------------
(***************************************************************************)
(* What holds of the connection pool for every number of clients and every *)
(* initsize and maxsize.                                                   *)
(***************************************************************************)
EXTENDS ConnectPool, FiniteSetTheorems, TLAPS

\* The types alone: the counters are integers
Typed ==
    /\ queue \in Seq(Conn)
    /\ free \in Int /\ cur \in Int /\ fails \in Nat
    /\ client \in [Client -> {"idle", "waiting", "holding"}]
    /\ producer \in {"awake", "waiting", "crashed"}

\* Inductive invariant.  In both copies _curSize is exact, and _curfreeSize never
\* promises a connection the queue does not hold; in the chat server's copy it is exact
\* and the reaper keeps initsize connections
PoolInv ==
    /\ Typed
    /\ CreatedExact
    /\ free <= Len(queue)
    /\ cur <= MaxSize
    /\ ~Standalone => FreeExact /\ InitSize <= cur

\* The constructor's state: initsize connections in the queue, nobody holds one.
LEMMA PoolStart == Init => PoolInv
<1> SUFFICES ASSUME Init PROVE PoolInv
  OBVIOUS
<1> USE PoolAssumption DEF Init
<1>1. queue \in Seq(Conn) /\ Len(queue) = InitSize
  <2>1. \A k \in 1 .. InitSize : Fresh \in Conn
    BY DEF Fresh, Conn
  <2> QED
    BY <2>1
<1>2. Holders = {}
  BY DEF Holders
<1>3. Cardinality(Holders) = 0
  BY <1>2, FS_EmptySet
<1>4. Typed
  BY <1>1 DEF Typed
<1> QED
  BY <1>1, <1>3, <1>4 DEF PoolInv, CreatedExact, FreeExact

\* Clients are finitely many, so the connections they hold can be counted.
LEMMA HoldersFinite == IsFiniteSet(Holders) /\ Cardinality(Holders) \in Nat
<1>1. Holders \subseteq Client
  BY DEF Holders
<1> QED
  BY <1>1, PoolAssumption, FS_Subset, FS_CardinalityType

\* getconn moves a connection from the queue to a client.
LEMMA TakeKeeps == ASSUME PoolInv, NEW c \in Client, Take(c) PROVE PoolInv'
<1> USE DEF Take
<1>1. queue # <<>> /\ Len(queue) >= 1
  BY DEF PoolInv, Typed
<1>2. queue' \in Seq(Conn) /\ Len(queue') = Len(queue) - 1
  BY <1>1 DEF PoolInv, Typed
<1>3. Holders' = Holders \cup {c} /\ c \notin Holders
  BY DEF Holders, PoolInv, Typed
<1>4. Cardinality(Holders') = Cardinality(Holders) + 1
  BY <1>3, HoldersFinite, FS_AddElement
<1>5. Typed'
  BY <1>2 DEF PoolInv, Typed
<1> QED
  <2>1. CreatedExact'
    BY <1>2, <1>4, HoldersFinite DEF PoolInv, Typed, CreatedExact
  <2>2. free' = free - 1 /\ free \in Int /\ Len(queue) \in Nat
    BY DEF PoolInv, Typed
  <2>3. free' <= Len(queue')
    BY <1>2, <2>2 DEF PoolInv
  <2>4. ~Standalone => FreeExact'
    BY <1>2, <2>2 DEF PoolInv, FreeExact
  <2> QED
    BY <1>5, <2>1, <2>3, <2>4 DEF PoolInv

\* The deleter moves it back.
LEMMA ReleaseKeeps == ASSUME PoolInv, NEW c \in Client, Release(c) PROVE PoolInv'
<1> USE DEF Release
<1>1. Returned \in Conn
  BY DEF Returned, Conn
<1>2. queue' \in Seq(Conn) /\ Len(queue') = Len(queue) + 1
  BY <1>1 DEF PoolInv, Typed
<1>3. Holders' = Holders \ {c} /\ c \in Holders
  BY DEF Holders, PoolInv, Typed
<1>4. Cardinality(Holders') = Cardinality(Holders) - 1
  BY <1>3, HoldersFinite, FS_RemoveElement
<1>5. Typed'
  BY <1>2 DEF PoolInv, Typed, FreeAfterReturn
<1> QED
  BY <1>2, <1>4, <1>5, HoldersFinite, PoolAssumption
     DEF PoolInv, Typed, CreatedExact, FreeExact, FreeAfterReturn

\* The producer adds one only below maxsize.
LEMMA ProduceKeeps == ASSUME PoolInv, Produce PROVE PoolInv'
<1> USE DEF Produce
<1>1. Fresh \in Conn
  BY DEF Fresh, Conn
<1>2. queue' \in Seq(Conn) /\ Len(queue') = Len(queue) + 1
  BY <1>1 DEF PoolInv, Typed
<1>3. Holders' = Holders
  BY DEF Holders
<1>4. Typed'
  BY <1>2 DEF PoolInv, Typed
<1> QED
  BY <1>2, <1>3, <1>4, HoldersFinite, PoolAssumption
     DEF PoolInv, Typed, CreatedExact, FreeExact, Wanted

\* The reaper removes a prefix of the queue, and stops at initsize.
LEMMA ReapKeeps == ASSUME PoolInv, Reap PROVE PoolInv'
<1>1. PICK k \in Reapable : Remove(k)
  BY DEF Reap
<1>2. k \in 1 .. Len(queue) /\ MayReap(k)
  BY <1>1 DEF Reapable
<1>3. queue' \in Seq(Conn) /\ Len(queue') = Len(queue) - k
  BY <1>1, <1>2 DEF Remove, PoolInv, Typed
<1>4. Holders' = Holders
  BY DEF Holders, Reap
<1>5. Typed'
  BY <1>1, <1>2, <1>3 DEF PoolInv, Typed, Reap, Remove
<1> QED
  <2>1. cur' = cur - k /\ free' = free - k
    BY <1>1 DEF Remove
  <2>2. CreatedExact'
    BY <1>2, <1>3, <1>4, <2>1, HoldersFinite DEF PoolInv, Typed, CreatedExact
  <2>3. free' <= Len(queue') /\ (~Standalone => FreeExact')
    BY <1>2, <1>3, <2>1 DEF PoolInv, Typed, FreeExact
  <2>4. cur' <= MaxSize /\ (~Standalone => InitSize <= cur')
    BY <1>2, <2>1, PoolAssumption DEF PoolInv, Typed, MayReap
  <2> QED
    BY <1>5, <2>2, <2>3, <2>4 DEF PoolInv

\* Time changes what the reaper sees, and nothing else.
LEMMA TimeKeeps == ASSUME PoolInv, NEW k \in DOMAIN queue, TimePasses(k) PROVE PoolInv'
<1> USE DEF TimePasses
<1>1. \A p \in DOMAIN queue : queue[p] \in Conn /\ [queue[p] EXCEPT !.idle = TRUE] \in Conn
  <2>1. \A p \in DOMAIN queue : queue[p] \in Conn
    BY DEF PoolInv, Typed
  <2>2. \A x \in Conn : [x EXCEPT !.idle = TRUE] \in Conn
    BY DEF Conn
  <2> QED
    BY <2>1, <2>2
<1>2. queue' \in Seq(Conn) /\ Len(queue') = Len(queue)
  BY <1>1 DEF PoolInv, Typed
<1>3. Holders' = Holders
  BY DEF Holders
<1>4. Typed'
  BY <1>2 DEF PoolInv, Typed
<1> QED
  BY <1>2, <1>3, <1>4 DEF PoolInv, CreatedExact, FreeExact

\* Every step keeps the inductive invariant.
LEMMA PoolStep == PoolInv /\ [Next]_vars => PoolInv'
<1> SUFFICES ASSUME PoolInv, [Next]_vars PROVE PoolInv'
  OBVIOUS
<1>1. ASSUME NEW c \in Client, Wait(c) \/ GiveUp(c) PROVE PoolInv'
  <2>1. Holders' = Holders
    BY <1>1 DEF Wait, GiveUp, Holders, PoolInv, Typed
  <2>2. Typed'
    BY <1>1 DEF Wait, GiveUp, PoolInv, Typed
  <2> QED
    BY <1>1, <2>1, <2>2 DEF Wait, GiveUp, PoolInv, CreatedExact, FreeExact
<1>2. ASSUME ProducerWaits \/ ConnectFails \/ SpuriousWakeup \/ UNCHANGED vars PROVE PoolInv'
  <2>1. UNCHANGED <<queue, free, cur, client>>
    BY <1>2 DEF ProducerWaits, ConnectFails, SpuriousWakeup, vars
  <2>2. Typed'
    BY <1>2, <2>1 DEF ProducerWaits, ConnectFails, SpuriousWakeup, vars, PoolInv, Typed
  <2> QED
    BY <2>1, <2>2 DEF PoolInv, CreatedExact, FreeExact, Holders
<1>3. QED
  BY <1>1, <1>2, TakeKeeps, ReleaseKeeps, ProduceKeeps, ReapKeeps, TimeKeeps
     DEF Next, ClientStep

\* The inductive invariant holds throughout.
THEOREM PoolInvariance == Spec => []PoolInv
BY PoolStart, PoolStep, PTL DEF Spec

\* In both copies of the pool _curSize is the number of connections that exist, however
\* clients, producer and reaper interleave.
THEOREM NoConnectionLost == Spec => []CreatedExact
<1>1. PoolInv => CreatedExact
  BY DEF PoolInv
<1> QED
  BY <1>1, PoolInvariance, PTL

\* In the chat server's copy _curfreeSize is the length of the queue, so getconn never
\* reads the front of an empty queue.
THEOREM FreeCountExact == ~Standalone => (Spec => []FreeExact)
<1> SUFFICES ASSUME ~Standalone PROVE Spec => []FreeExact
  OBVIOUS
<1>1. PoolInv => FreeExact
  BY DEF PoolInv
<1> QED
  BY <1>1, PoolInvariance, PTL

\* In the chat server's copy the number of connections stays between initsize and
\* maxsize.
THEOREM PoolWithinLimits == ~Standalone => (Spec => []SizeWithinLimits)
<1> SUFFICES ASSUME ~Standalone PROVE Spec => []SizeWithinLimits
  OBVIOUS
<1>1. PoolInv => SizeWithinLimits
  BY DEF PoolInv, SizeWithinLimits
<1> QED
  BY <1>1, PoolInvariance, PTL

\* In the chat server's copy the variables keep their types; no counter goes negative.
THEOREM PoolTypeCorrect == ~Standalone => (Spec => []TypeOK)
<1> SUFFICES ASSUME ~Standalone PROVE Spec => []TypeOK
  OBVIOUS
<1>1. PoolInv => TypeOK
  BY HoldersFinite, PoolAssumption DEF PoolInv, Typed, TypeOK, FreeExact, CreatedExact
<1> QED
  BY <1>1, PoolInvariance, PTL

-----------------------------------------------------------------------------
(* The pool implements BoundedPool *)

\* The two modules count alike.
LEMMA SameCount == \A S : Bounded!Cardinality(S) = Cardinality(S)
BY DEF Bounded!Cardinality, Cardinality

\* The constructor leaves the pool as BoundedPool begins.
LEMMA PoolStartMaps == Init => Bounded!Init
BY DEF Init, Bounded!Init, Holders

\* In the chat server's copy every step is a step of BoundedPool or changes nothing it
\* sees.
LEMMA PoolStepMaps == ~Standalone /\ PoolInv /\ [Next]_vars => [Bounded!Next]_Bounded!vars
<1> SUFFICES ASSUME ~Standalone, PoolInv, [Next]_vars PROVE [Bounded!Next]_Bounded!vars
  OBVIOUS
<1>0. /\ free = Len(queue) /\ free \in Int /\ cur \in Int /\ Len(queue) \in Nat
      /\ cur = Len(queue) + Cardinality(Holders) /\ Cardinality(Holders) \in Nat
      /\ client \in [Client -> {"idle", "waiting", "holding"}]
  BY HoldersFinite DEF PoolInv, Typed, FreeExact, CreatedExact
<1>1. ASSUME NEW c \in Client, Take(c) PROVE Bounded!Lend(c)
  <2>1. Holders' = Holders \cup {c} /\ c \notin Holders
    BY <1>0, <1>1 DEF Take, Holders
  <2>2. Cardinality(Holders) < cur
    BY <1>0, <1>1 DEF Take
  <2> QED
    BY <1>1, <2>1, <2>2, SameCount DEF Take, Bounded!Lend
<1>2. ASSUME NEW c \in Client, Release(c) PROVE Bounded!Return(c)
  <2>1. Holders' = Holders \ {c} /\ c \in Holders
    BY <1>0, <1>2 DEF Release, Holders
  <2> QED
    BY <1>2, <2>1 DEF Release, Bounded!Return
<1>3. ASSUME Produce PROVE Bounded!Grow
  <2>1. Holders' = Holders
    BY <1>3 DEF Produce, Holders
  <2>2. Cardinality(Holders) = cur /\ cur < MaxSize
    BY <1>0, <1>3 DEF Produce, Wanted
  <2> QED
    BY <1>3, <2>1, <2>2, SameCount DEF Produce, Bounded!Grow
<1>4. ASSUME Reap PROVE Bounded!Shrink
  <2>1. PICK k \in Reapable : Remove(k)
    BY <1>4 DEF Reap
  <2>2. k \in 1 .. Len(queue) /\ InitSize <= cur - k
    BY <2>1, PoolAssumption, <1>0 DEF Reapable, MayReap
  <2>3. cur' = cur - k
    BY <2>1 DEF Remove
  <2>4. Holders' = Holders
    BY <1>4 DEF Reap, Holders
  <2>5. cur' \in Int /\ cur' < cur /\ InitSize <= cur' /\ Cardinality(Holders) <= cur'
    BY <1>0, <2>2, <2>3
  <2> QED
    BY <2>4, <2>5, SameCount DEF Bounded!Shrink
<1>5. ASSUME \/ \E c \in Client : Wait(c) \/ GiveUp(c)
             \/ ProducerWaits \/ ConnectFails \/ SpuriousWakeup \/ UNCHANGED vars
             \/ \E k \in DOMAIN queue : TimePasses(k)
      PROVE UNCHANGED Bounded!vars
  <2>1. cur' = cur
    BY <1>5 DEF Wait, GiveUp, ProducerWaits, ConnectFails, SpuriousWakeup, TimePasses, vars
  <2>2. Holders' = Holders
    BY <1>0, <1>5 DEF Wait, GiveUp, ProducerWaits, ConnectFails, SpuriousWakeup, TimePasses,
                      vars, Holders
  <2> QED
    BY <2>1, <2>2 DEF Bounded!vars
<1> QED
  BY <1>1, <1>2, <1>3, <1>4, <1>5 DEF Next, ClientStep, Bounded!Next

\* The chat server's pool implements BoundedPool, for any number of clients and any
\* limits: no connection is lent twice, opened without need or closed in use.
THEOREM PoolRefines == ~Standalone => (Spec => ImplementsBoundedPool)
<1> SUFFICES ASSUME ~Standalone PROVE Spec => ImplementsBoundedPool
  OBVIOUS
<1>1. PoolInv /\ [Next]_vars => [Bounded!Next]_Bounded!vars
  BY PoolStepMaps
<1> QED
  BY <1>1, PoolStartMaps, PoolInvariance, PTL DEF Spec, ImplementsBoundedPool, Bounded!Spec
=============================================================================
