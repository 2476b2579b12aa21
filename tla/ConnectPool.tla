---------------------------- MODULE ConnectPool ----------------------------
(***************************************************************************)
(* The MySQL connection pool (ConnectPool) that the chat server's handlers *)
(* borrow their database connections from, and the older copy of it that   *)
(* the repository keeps as a program of its own.                           *)
(*                                                                         *)
(* Client threads, the producer thread and the reaper thread share one     *)
(* mutex.  Every critical section is one action.  A client waits for a     *)
(* connection with a timeout, so it may look again at any time; the        *)
(* producer waits without one, so whether it has been notified matters.    *)
(* The producer keeps the mutex while it connects.                         *)
(*                                                                         *)
(* The state is that of a pool whose constructor has succeeded.            *)
(***************************************************************************)
EXTENDS Integers, Sequences, FiniteSets

CONSTANTS
    Client,      \* threads that use the pool, one connection each at a time
    InitSize,    \* initsize and maxsize of db.conf
    MaxSize,
    Standalone,  \* TRUE: the older copy
    MaxFails     \* bound: connects the database refuses

ASSUME PoolAssumption ==
    /\ IsFiniteSet(Client)
    /\ InitSize \in Nat /\ MaxSize \in Nat /\ InitSize <= MaxSize
    /\ Standalone \in BOOLEAN /\ MaxFails \in Nat

VARIABLES
    queue,     \* _connnectQueue, oldest first.  stamped: setlasttime has been
               \* called; idle: in the queue for more than 10 s
    free,      \* _curfreeSize
    cur,       \* _curSize
    client,    \* where each client is in getconn and the deleter
    producer,  \* awake: about to look at its condition; waiting: in produce.wait;
               \* crashed: it has taken the process down
    fails      \* bound

vars == <<queue, free, cur, client, producer, fails>>

Fresh    == [stamped |-> FALSE, idle |-> FALSE]
Returned == [stamped |-> TRUE, idle |-> FALSE]
Conn     == [stamped : BOOLEAN, idle : BOOLEAN]
Holders  == {c \in Client : client[c] = "holding"}

Init ==
    /\ queue = [k \in 1 .. InitSize |-> Fresh]
    /\ free = InitSize /\ cur = InitSize
    /\ client = [c \in Client |-> "idle"]
    /\ producer = "awake"
    /\ fails = 0

-----------------------------------------------------------------------------
(* getconn and the deleter of the pointer it returns *)

\* Nothing free: wait for at most a second
Wait(c) ==
    /\ client[c] = "idle"
    /\ free <= 0
    /\ client' = [client EXCEPT ![c] = "waiting"]
    /\ UNCHANGED <<queue, free, cur, producer, fails>>

\* ... and return nullptr if nothing is free then
GiveUp(c) ==
    /\ client[c] = "waiting"
    /\ free <= 0
    /\ client' = [client EXCEPT ![c] = "idle"]
    /\ UNCHANGED <<queue, free, cur, producer, fails>>

\* Mutant: _curfreeSize keeps its value
Take_Uncounted(c) ==
    /\ client[c] \in {"idle", "waiting"}
    /\ free > 0 /\ queue # <<>>
    /\ client' = [client EXCEPT ![c] = "holding"]
    /\ queue' = Tail(queue)
    /\ producer' = "awake"
    /\ UNCHANGED <<free, cur, fails>>

\* Take the front of the queue and notify the producer
Take(c) ==
    /\ client[c] \in {"idle", "waiting"}
    /\ free > 0
    /\ client' = [client EXCEPT ![c] = "holding"]
    /\ queue' = Tail(queue)
    /\ free' = free - 1
    /\ producer' = "awake"
    /\ UNCHANGED <<cur, fails>>

\* The older copy forgets to count what comes back
FreeAfterReturn == IF Standalone THEN free ELSE free + 1

Release(c) ==
    /\ client[c] = "holding"
    /\ client' = [client EXCEPT ![c] = "idle"]
    /\ queue' = Append(queue, Returned)
    /\ free' = FreeAfterReturn
    /\ UNCHANGED <<cur, producer, fails>>

-----------------------------------------------------------------------------
(* produceConnect *)

\* Mutant: the maximum is not looked at
Wanted_NoMaximum == free = 0

\* Mutant: grow while connections are free
Wanted_Early == cur < MaxSize

\* The condition of produce.wait
Wanted == free = 0 /\ cur < MaxSize

ProducerWaits ==
    /\ producer = "awake" /\ ~Wanted
    /\ producer' = "waiting"
    /\ UNCHANGED <<queue, free, cur, client, fails>>

Produce ==
    /\ producer = "awake" /\ Wanted
    /\ queue' = Append(queue, Fresh)
    /\ free' = free + 1
    /\ cur' = cur + 1
    /\ UNCHANGED <<client, producer, fails>>

\* connection() closes the handle it could not connect and the destructor of MysqlDB
\* closes it again: the producer tries once more, or the second close ends the process
ConnectFails ==
    /\ producer = "awake" /\ Wanted
    /\ fails < MaxFails
    /\ fails' = fails + 1
    /\ producer' \in {"awake", "crashed"}
    /\ UNCHANGED <<queue, free, cur, client>>

\* A condition variable may wake for no reason
SpuriousWakeup ==
    /\ producer = "waiting"
    /\ producer' = "awake"
    /\ UNCHANGED <<queue, free, cur, client, fails>>

-----------------------------------------------------------------------------
(* freetimeover *)

\* resultfreetime() > 10: a connection nobody has returned yet counts from the epoch
LooksIdle(p) == p.idle \/ ~p.stamped

\* After k removals, is the pool still at least as large as initsize?
MayReap(k) == Standalone \/ cur - k >= InitSize

\* Lengths of prefixes of the queue that the loop goes through
Reapable == {k \in 1 .. Len(queue) : MayReap(k) /\ \A p \in 1 .. k : LooksIdle(queue[p])}

\* Mutant: _curSize keeps its value
Remove_SizeKept(k) ==
    /\ queue' = SubSeq(queue, k + 1, Len(queue))
    /\ free' = free - k
    /\ cur' = cur

\* k passes of the loop
Remove(k) ==
    /\ queue' = SubSeq(queue, k + 1, Len(queue))
    /\ free' = free - k
    /\ cur' = cur - k

\* The loop goes on as long as it may
Reap ==
    /\ \E k \in Reapable : k + 1 \notin Reapable /\ Remove(k)
    /\ UNCHANGED <<client, producer, fails>>

\* Ten seconds pass for the k oldest connections in the queue
TimePasses(k) ==
    /\ \E p \in 1 .. k : ~queue[p].idle
    /\ queue' = [p \in DOMAIN queue |-> IF p <= k THEN [queue[p] EXCEPT !.idle = TRUE]
                                                  ELSE queue[p]]
    /\ UNCHANGED <<free, cur, client, producer, fails>>

-----------------------------------------------------------------------------

ClientStep(c) == Wait(c) \/ GiveUp(c) \/ Take(c) \/ Release(c)

Running == producer # "crashed"

Next ==
    /\ Running
    /\ \/ \E c \in Client : ClientStep(c)
       \/ ProducerWaits
       \/ Produce
       \/ ConnectFails
       \/ SpuriousWakeup
       \/ Reap
       \/ \E k \in DOMAIN queue : TimePasses(k)

Spec == Init /\ [][Next]_vars

\* The scheduler runs the producer and the clients' waits end; nobody is made to
\* return a connection, and no spurious wakeup is counted on
LiveSpec ==
    /\ Spec
    /\ WF_vars(Produce) /\ WF_vars(ProducerWaits)
    /\ \A c \in Client : WF_vars(Running /\ (Take(c) \/ GiveUp(c)))

-----------------------------------------------------------------------------
(* Properties *)

\* Every variable has its type; in particular the two counters never go below zero,
\* although the reaper and the clients decrement them independently.
TypeOK ==
    /\ queue \in Seq(Conn)
    /\ free \in Nat /\ cur \in Nat /\ fails \in Nat
    /\ client \in [Client -> {"idle", "waiting", "holding"}]
    /\ producer \in {"awake", "waiting", "crashed"}

\* Whatever clients, producer and reaper do, _curSize counts the connections in the
\* queue and in the hands of clients: none leaks and none is counted twice.
CreatedExact == cur = Len(queue) + Cardinality(Holders)

\* _curfreeSize, which decides whether getconn touches the front of the queue, is the
\* length of the queue.
FreeExact == free = Len(queue)

\* The producer never opens more connections than db.conf allows, and the reaper never
\* leaves fewer than it asks for.
SizeWithinLimits == InitSize <= cur /\ cur <= MaxSize

Bounded == INSTANCE BoundedPool
               WITH Least <- InitSize, Most <- MaxSize, total <- cur, lent <- Holders

\* The pool keeps the promise of BoundedPool: seen from outside, through _curSize and the
\* pointers clients have, each step of clients, producer and reaper lends, takes back,
\* opens because everything is lent, or closes what is not lent.
ImplementsBoundedPool == Bounded!Spec

-----------------------------------------------------------------------------
(* What comments say of this code, and the code does not do *)

\* ConnectPool.h says freetimeover kills connections that have been idle for more than
\* ten seconds: a step that makes the pool smaller removes only such connections.
ReapsOnlyIdle ==
    [][cur' < cur => \A p \in 1 .. cur - cur' : queue[p].idle]_vars

\* The project description says the pool grows by itself when it runs dry: while there
\* is room, an empty queue does not stay empty.
ExpandsOnDemand == Wanted ~> free > 0
=============================================================================
