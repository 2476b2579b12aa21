-------------------------- MODULE ThreadPoolProof --------------------------
(***************************************************************************)
(* What holds of the chat server's thread pool for every number of tasks   *)
(* and threads, every taskMaxSize_ and every maxThreadSize_: the counters  *)
(* are exact while the pool is in use, the pool keeps its limits, and      *)
(* submitters see a first-in-first-out queue that runs each task once.     *)
(*                                                                         *)
(* freeThreadSize_ is changed in submitTask and in four places of          *)
(* threadfunc, two of them outside the mutex or just before a thread ends, *)
(* so its value is no function of any other variable: the inductive        *)
(* invariant says what it counts, before the destructor exactly and        *)
(* afterwards as a bound, because threads that leave then do not count.    *)
(***************************************************************************)
EXTENDS ThreadPool, FiniteSetTheorems, TLAPS

\* The threads that run no task
Idle == {w \in threads : pc[w] # "running"}

\* The table of threads holds the threads that have not ended
TableExact == threads = {w \in Worker : pc[w] # "none"}

\* The counters, before the destructor and after
Counted ==
    /\ now >= Cardinality(threads) /\ free >= Cardinality(Idle)
    /\ isStart => now = Cardinality(threads) /\ free = Cardinality(Idle)

MostThreads == IF MaxThreads > InitThreads THEN MaxThreads ELSE InitThreads

Limited == InitThreads <= now /\ now <= MostThreads

\* A thread runs a task exactly when it has one, and no two threads have the same
Jobs ==
    /\ \A w \in Worker : pc[w] = "running" <=> job[w] # NoTask
    /\ \A t \in Task : task[t] = "running" <=> \E w \in Worker : job[w] = t
    /\ \A v, w \in Worker : job[v] # NoTask /\ job[v] = job[w] => v = w

\* The queue holds the tasks that are queued, each of them once
Lined ==
    /\ \A t \in Task : task[t] = "queued" <=> \E k \in 1 .. Len(queue) : queue[k] = t
    /\ \A j, k \in 1 .. Len(queue) : queue[j] = queue[k] => j = k

PoolInv == TypeOK /\ TableExact /\ Counted /\ Limited /\ Jobs /\ Lined

-----------------------------------------------------------------------------
(* Counting threads *)

\* The threads are finitely many, so they can be counted.
LEMMA ThreadsCount ==
    ASSUME PoolInv
    PROVE  /\ IsFiniteSet(threads) /\ Cardinality(threads) \in Nat
           /\ IsFiniteSet(Idle) /\ Cardinality(Idle) \in Nat
<1>1. threads \subseteq Worker /\ Idle \subseteq Worker
  BY DEF PoolInv, TypeOK, Idle
<1> QED
  BY <1>1, ThreadPoolAssumption, FS_Subset, FS_CardinalityType

\* start() gives out a positive number of threads.
LEMMA InitThreadsCount == InitThreads \in Nat /\ MaxThreads \in Nat
<1>1. IsFiniteSet(Started)
  BY ThreadPoolAssumption, FS_Subset
<1>2. Cardinality(Worker) \in Nat
  BY ThreadPoolAssumption, FS_CardinalityType
<1> QED
  BY <1>1, <1>2, ThreadPoolAssumption, FS_CardinalityType DEF InitThreads

\* notify_one wakes a thread that waits: nobody starts, ends, or takes up a task by it.
LEMMA Woken ==
    ASSUME TypeOK, NEW woken \in NotifyOne
    PROVE  /\ woken \in [Worker -> {"none", "locking", "waiting", "notified", "timedout", "running"}]
           /\ \A w \in Worker : /\ woken[w] = "none" <=> pc[w] = "none"
                                /\ woken[w] = "running" <=> pc[w] = "running"
<1>1. woken = pc \/ \E w \in Waiting : woken = [pc EXCEPT ![w] = "notified"]
  BY DEF NotifyOne
<1>2. pc \in [Worker -> {"none", "locking", "waiting", "notified", "timedout", "running"}]
  BY DEF TypeOK
<1>3. \A w \in Waiting : w \in Worker /\ pc[w] = "waiting"
  BY DEF Waiting
<1> QED
  BY <1>1, <1>2, <1>3

\* A step by which no thread starts, ends, or changes between busy and free, and which
\* leaves the counters alone, keeps them right.
LEMMA NobodyCounts ==
    ASSUME PoolInv, UNCHANGED <<threads, free, now>>, isStart' => isStart,
           \A w \in Worker : /\ pc'[w] = "none" <=> pc[w] = "none"
                             /\ pc'[w] = "running" <=> pc[w] = "running"
    PROVE  TableExact' /\ Counted' /\ Limited'
<1>1. threads \subseteq Worker
  BY DEF PoolInv, TypeOK
<1>2. TableExact'
  BY DEF PoolInv, TableExact
<1>3. Idle' = Idle
  BY <1>1 DEF Idle
<1>4. Counted'
  BY <1>3 DEF PoolInv, Counted
<1>5. Limited'
  BY DEF PoolInv, Limited, MostThreads
<1> QED
  BY <1>2, <1>4, <1>5

-----------------------------------------------------------------------------
(* submitTask *)

\* A state start() leaves: the threads it has given out, and nothing else.
LEMMA PoolStart == Init => PoolInv
<1> SUFFICES ASSUME Init PROVE PoolInv
  OBVIOUS
<1> USE ThreadPoolAssumption DEF Init
<1>1. Started \subseteq Worker /\ InitThreads \in Nat
  BY InitThreadsCount
<1>2. Idle = threads
  BY <1>1 DEF Idle
<1>3. TypeOK
  BY <1>1 DEF TypeOK
<1>4. TableExact
  BY <1>1 DEF TableExact
<1>5. Counted
  BY <1>1, <1>2 DEF Counted, InitThreads
<1>6. Limited
  BY <1>1, InitThreadsCount DEF Limited, MostThreads
<1>7. Jobs
  <2>1. \A w \in Worker : pc[w] # "running" /\ job[w] = NoTask
    OBVIOUS
  <2>2. \A t \in Task : task[t] # "running" /\ t # NoTask
    OBVIOUS
  <2> QED
    BY <2>1, <2>2 DEF Jobs
<1>8. Lined
  BY DEF Lined
<1> QED
  BY <1>3, <1>4, <1>5, <1>6, <1>7, <1>8 DEF PoolInv

\* An accepted task goes to the end of the queue; the thread a CACHE pool starts for it
\* is counted twice, as a thread and as a free one.
LEMMA AcceptKeeps == ASSUME PoolInv, NEW t \in Task, Accept(t) PROVE PoolInv'
<1> USE DEF Accept
<1>1. TypeOK /\ isStart /\ destructor' = destructor
  BY DEF PoolInv
<1>2. queue \in Seq(Task) /\ Len(queue) \in Nat /\ Len(queue) < TaskMax /\ TaskMax \in Nat
  BY <1>1, ThreadPoolAssumption DEF TypeOK, HasRoom
<1>3. queue' \in Seq(Task) /\ Len(queue') = Len(queue) + 1
  BY <1>2
<1>4. task \in [Task -> {"new", "blocked", "queued", "running", "done", "rejected"}]
  BY <1>1 DEF TypeOK
<1>5. PICK woken \in NotifyOne :
          IF mode = "CACHE" /\ Len(queue) + 1 > free /\ now < MaxThreads
          THEN /\ \E w \in Worker :
                     /\ pc[w] = "none"
                     /\ pc' = [woken EXCEPT ![w] = "locking"]
                     /\ threads' = threads \cup {w}
               /\ now' = now + 1
               /\ free' = free + 1
          ELSE pc' = woken /\ UNCHANGED <<threads, now, free>>
  OBVIOUS
<1>6. /\ woken \in [Worker -> {"none", "locking", "waiting", "notified", "timedout", "running"}]
      /\ \A w \in Worker : /\ woken[w] = "none" <=> pc[w] = "none"
                           /\ woken[w] = "running" <=> pc[w] = "running"
  BY <1>1, Woken
<1>7. /\ pc' \in [Worker -> {"none", "locking", "waiting", "notified", "timedout", "running"}]
      /\ threads' \subseteq Worker /\ now' \in Nat /\ free' \in Nat
      /\ \A w \in Worker : pc'[w] = "running" <=> pc[w] = "running"
      /\ TableExact' /\ Counted' /\ Limited'
  <2>1. CASE pc' = woken /\ UNCHANGED <<threads, now, free>>
    <3>1. TableExact' /\ Counted' /\ Limited'
      BY <1>1, <1>6, <2>1, NobodyCounts DEF isStart
    <3> QED
      BY <1>1, <1>6, <2>1, <3>1 DEF TypeOK
  <2>2. CASE /\ now < MaxThreads /\ now' = now + 1 /\ free' = free + 1
             /\ \E w \in Worker : /\ pc[w] = "none"
                                  /\ pc' = [woken EXCEPT ![w] = "locking"]
                                  /\ threads' = threads \cup {w}
    <3>1. PICK w \in Worker : /\ pc[w] = "none"
                              /\ pc' = [woken EXCEPT ![w] = "locking"]
                              /\ threads' = threads \cup {w}
      BY <2>2
    <3>2. threads \subseteq Worker /\ now \in Nat /\ free \in Nat
      BY <1>1 DEF TypeOK
    <3>3. w \notin threads /\ w \notin Idle
      BY <3>1 DEF PoolInv, TableExact, Idle
    <3>4. \A v \in Worker : v # w => pc'[v] = woken[v]
      BY <1>6, <3>1
    <3>5. pc'[w] = "locking"
      BY <1>6, <3>1
    <3>6. TableExact'
      BY <1>6, <3>1, <3>4, <3>5 DEF PoolInv, TableExact
    <3>7. Idle' = Idle \cup {w}
      BY <1>6, <3>1, <3>2, <3>4, <3>5 DEF Idle
    <3>8. /\ Cardinality(threads') = Cardinality(threads) + 1
          /\ Cardinality(Idle') = Cardinality(Idle) + 1
      BY <3>1, <3>3, <3>7, ThreadsCount, FS_AddElement
    <3>9. Counted'
      BY <1>1, <2>2, <3>2, <3>8, ThreadsCount DEF PoolInv, Counted, isStart
    <3>10. Limited'
      BY <2>2, <3>2, InitThreadsCount DEF PoolInv, Limited, MostThreads
    <3>11. pc' \in [Worker -> {"none", "locking", "waiting", "notified", "timedout", "running"}]
      BY <1>6, <3>1
    <3>12. \A v \in Worker : pc'[v] = "running" <=> pc[v] = "running"
      BY <1>6, <3>1, <3>4, <3>5
    <3> QED
      BY <2>2, <3>1, <3>2, <3>6, <3>9, <3>10, <3>11, <3>12
  <2> QED
    BY <1>5, <2>1, <2>2
<1>8. TypeOK'
  BY <1>1, <1>2, <1>3, <1>4, <1>7 DEF TypeOK
<1>9. task[t] \notin {"queued", "running"} /\ task' = [task EXCEPT ![t] = "queued"]
  OBVIOUS
<1>10. Jobs'
  <2>1. job' = job /\ \A u \in Task : task'[u] = "running" <=> task[u] = "running"
    BY <1>4, <1>9
  <2> QED
    BY <1>7, <2>1 DEF PoolInv, Jobs
<1>11. Lined'
  <2>1. \A k \in 1 .. Len(queue) : queue'[k] = queue[k] /\ queue[k] \in Task
    BY <1>2
  <2>2. queue'[Len(queue) + 1] = t
    BY <1>2
  <2>3. \A k \in 1 .. Len(queue') : k \in 1 .. Len(queue) \/ k = Len(queue) + 1
    BY <1>2, <1>3
  <2>4. \A k \in 1 .. Len(queue) : queue[k] # t
    BY <1>9 DEF PoolInv, Lined
  <2>5. Len(queue) + 1 \in 1 .. Len(queue')
    BY <1>2, <1>3
  <2>6. \A k \in 1 .. Len(queue) : k \in 1 .. Len(queue')
    BY <1>2, <1>3
  <2>7. \A u \in Task : task'[u] = "queued" <=> \E k \in 1 .. Len(queue') : queue'[k] = u
    <3>1. ASSUME NEW u \in Task
          PROVE  task'[u] = "queued" <=> u = t \/ \E k \in 1 .. Len(queue) : queue[k] = u
      BY <1>4, <1>9 DEF PoolInv, Lined
    <3> QED
      BY <2>1, <2>2, <2>3, <2>5, <2>6, <3>1
  <2>8. \A j, k \in 1 .. Len(queue') : queue'[j] = queue'[k] => j = k
    BY <2>1, <2>2, <2>3, <2>4 DEF PoolInv, Lined
  <2> QED
    BY <2>7, <2>8 DEF Lined
<1> QED
  BY <1>7, <1>8, <1>10, <1>11 DEF PoolInv

\* A step that leaves the queue and the threads' tasks alone, and moves no task to or
\* from them.
LEMMA NobodyMoves ==
    ASSUME PoolInv, UNCHANGED <<queue, job>>,
           \A t \in Task : /\ task'[t] = "queued" <=> task[t] = "queued"
                           /\ task'[t] = "running" <=> task[t] = "running",
           \A w \in Worker : pc'[w] = "running" <=> pc[w] = "running"
    PROVE  Jobs' /\ Lined'
<1>1. Jobs'
  BY DEF PoolInv, Jobs
<1>2. Lined'
  BY DEF PoolInv, Lined
<1> QED
  BY <1>1, <1>2

\* A submitter that waits for room, or gives up, leaves the pool as it is.
LEMMA BlockKeeps == ASSUME PoolInv, NEW t \in Task, Block(t) \/ Reject(t) PROVE PoolInv'
<1>1. /\ UNCHANGED <<queue, pc, job, threads, free, now, destructor, mode>>
      /\ task[t] \in {"new", "blocked"}
      /\ \E s \in {"blocked", "rejected"} : task' = [task EXCEPT ![t] = s]
  BY DEF Block, Reject
<1>2. TypeOK
  BY DEF PoolInv
<1>3. task \in [Task -> {"new", "blocked", "queued", "running", "done", "rejected"}]
  BY <1>2 DEF TypeOK
<1>4. /\ task' \in [Task -> {"new", "blocked", "queued", "running", "done", "rejected"}]
      /\ \A u \in Task : /\ task'[u] = "queued" <=> task[u] = "queued"
                         /\ task'[u] = "running" <=> task[u] = "running"
  BY <1>1, <1>3
<1>5. TypeOK'
  BY <1>1, <1>2, <1>4 DEF TypeOK
<1>6. TableExact' /\ Counted' /\ Limited'
  BY <1>1, NobodyCounts DEF isStart
<1>7. Jobs' /\ Lined'
  BY <1>1, <1>4, NobodyMoves
<1> QED
  BY <1>5, <1>6, <1>7 DEF PoolInv

-----------------------------------------------------------------------------
(* threadfunc *)

\* A thread takes the task at the front: it is queued once, nobody runs it yet, and the
\* thread, which was free, is counted as busy.
LEMMA TakeKeeps == ASSUME PoolInv, NEW w \in Worker, Take(w) PROVE PoolInv'
<1> DEFINE t == Head(queue)
<1> USE DEF Take
<1>1. TypeOK /\ destructor' = destructor /\ mode' = mode
  BY DEF PoolInv
<1>2. queue \in Seq(Task) /\ Len(queue) \in Nat /\ queue # <<>>
  BY <1>1 DEF TypeOK
<1>3. queue' = Tail(queue)
  BY DEF Taken
<1>4. /\ queue' \in Seq(Task) /\ Len(queue') = Len(queue) - 1 /\ Len(queue) >= 1
      /\ \A k \in 1 .. Len(queue') : queue'[k] = queue[k + 1]
      /\ t \in Task /\ t = queue[1]
  BY <1>2, <1>3
<1>5. /\ task \in [Task -> {"new", "blocked", "queued", "running", "done", "rejected"}]
      /\ pc \in [Worker -> {"none", "locking", "waiting", "notified", "timedout", "running"}]
      /\ job \in [Worker -> Task \cup {NoTask}]
      /\ threads \subseteq Worker /\ free \in Nat
  BY <1>1 DEF TypeOK
<1>6. task[t] = "queued"
  <2>1. 1 \in 1 .. Len(queue) /\ queue[1] = t
    BY <1>2, <1>4
  <2> QED
    BY <1>4, <2>1 DEF PoolInv, Lined
<1>7. PICK woken \in NotifyOne \cup {pc} : pc' = [woken EXCEPT ![w] = "running"]
  OBVIOUS
<1>8. /\ woken \in [Worker -> {"none", "locking", "waiting", "notified", "timedout", "running"}]
      /\ \A v \in Worker : /\ woken[v] = "none" <=> pc[v] = "none"
                           /\ woken[v] = "running" <=> pc[v] = "running"
  BY <1>1, <1>5, <1>7, Woken
<1>9. pc[w] # "none" /\ pc[w] # "running"
  BY DEF Awake
<1>10. /\ pc' \in [Worker -> {"none", "locking", "waiting", "notified", "timedout", "running"}]
       /\ pc'[w] = "running"
       /\ \A v \in Worker : v # w => pc'[v] = woken[v]
  BY <1>7, <1>8
<1>11. w \in threads /\ w \in Idle
  BY <1>9 DEF PoolInv, TableExact, Idle
<1>12. threads' = threads /\ now' = now /\ free' = free - 1
  OBVIOUS
<1>13. TableExact'
  BY <1>8, <1>9, <1>10, <1>12 DEF PoolInv, TableExact
<1>14. Idle' = Idle \ {w}
  BY <1>5, <1>8, <1>10, <1>12 DEF Idle
<1>15. Cardinality(Idle') = Cardinality(Idle) - 1
  BY <1>11, <1>14, ThreadsCount, FS_RemoveElement
<1>16. Cardinality(Idle') \in Nat
  BY <1>14, ThreadsCount, FS_RemoveElement, FS_CardinalityType
<1>17. Counted' /\ free' \in Nat
  BY <1>1, <1>5, <1>12, <1>15, <1>16, ThreadsCount DEF PoolInv, Counted, isStart
<1>18. Limited'
  BY <1>12 DEF PoolInv, Limited, MostThreads
<1>19. task' = [task EXCEPT ![t] = "running"] /\ job' = [job EXCEPT ![w] = t]
  OBVIOUS
<1> HIDE DEF t, Take
<1>20. TypeOK'
  BY <1>1, <1>2, <1>4, <1>5, <1>10, <1>12, <1>17, <1>19, ThreadPoolAssumption DEF TypeOK
<1>21. job[w] = NoTask /\ t # NoTask /\ \A v \in Worker : job[v] # t
  <2>1. job[w] = NoTask
    BY <1>9 DEF PoolInv, Jobs
  <2>2. t # NoTask
    BY <1>4, ThreadPoolAssumption
  <2>3. task[t] # "running"
    BY <1>6
  <2> QED
    BY <1>4, <2>1, <2>2, <2>3 DEF PoolInv, Jobs
<1>22. job'[w] = t /\ \A v \in Worker : v # w => job'[v] = job[v]
  BY <1>5, <1>19
<1>23. task'[t] = "running" /\ \A u \in Task : u # t => task'[u] = task[u]
  BY <1>4, <1>5, <1>19
<1>24. Jobs'
  <2>1. \A v \in Worker : pc'[v] = "running" <=> job'[v] # NoTask
    BY <1>8, <1>10, <1>21, <1>22 DEF PoolInv, Jobs
  <2>2. \A u \in Task : task'[u] = "running" <=> \E v \in Worker : job'[v] = u
    <3>1. \A u \in Task : u # t => ((\E v \in Worker : job'[v] = u) <=> \E v \in Worker : job[v] = u)
      BY <1>21, <1>22, ThreadPoolAssumption
    <3>2. \A u \in Task : u # t => (task'[u] = "running" <=> \E v \in Worker : job'[v] = u)
      BY <1>23, <3>1 DEF PoolInv, Jobs
    <3> QED
      BY <1>22, <1>23, <3>2
  <2>3. \A v, x \in Worker : job'[v] # NoTask /\ job'[v] = job'[x] => v = x
    BY <1>21, <1>22 DEF PoolInv, Jobs
  <2> QED
    BY <2>1, <2>2, <2>3 DEF Jobs
<1>25. Lined'
  <2>1. \A k \in 1 .. Len(queue') : k + 1 \in 1 .. Len(queue) /\ k + 1 # 1
    BY <1>2, <1>4
  <2>2. \A k \in 1 .. Len(queue) : k = 1 \/ (k - 1 \in 1 .. Len(queue') /\ k = (k - 1) + 1)
    BY <1>2, <1>4
  <2>3. 1 \in 1 .. Len(queue)
    BY <1>2, <1>4
  <2>4. \A j, k \in 1 .. Len(queue) : queue[j] = queue[k] => j = k
    BY DEF PoolInv, Lined
  <2>5. \A k \in 1 .. Len(queue') : queue'[k] # t
    BY <1>4, <2>1, <2>3, <2>4
  <2>6. \A u \in Task : u # t => ((\E k \in 1 .. Len(queue') : queue'[k] = u)
                                  <=> \E k \in 1 .. Len(queue) : queue[k] = u)
    <3> SUFFICES ASSUME NEW u \in Task, u # t
                 PROVE  (\E k \in 1 .. Len(queue') : queue'[k] = u)
                           <=> \E k \in 1 .. Len(queue) : queue[k] = u
      OBVIOUS
    <3>1. ASSUME NEW k \in 1 .. Len(queue'), queue'[k] = u
          PROVE  \E j \in 1 .. Len(queue) : queue[j] = u
      BY <1>4, <2>1, <3>1
    <3>2. ASSUME NEW k \in 1 .. Len(queue), queue[k] = u
          PROVE  \E j \in 1 .. Len(queue') : queue'[j] = u
      <4>1. k # 1
        BY <1>4, <3>2
      <4>2. k - 1 \in 1 .. Len(queue') /\ queue'[k - 1] = queue[(k - 1) + 1]
        BY <1>4, <2>2, <4>1
      <4> QED
        BY <2>2, <3>2, <4>1, <4>2
    <3> QED
      BY <3>1, <3>2
  <2>7. \A u \in Task : task'[u] = "queued" <=> \E k \in 1 .. Len(queue') : queue'[k] = u
    BY <1>23, <2>5, <2>6 DEF PoolInv, Lined
  <2>8. \A j, k \in 1 .. Len(queue') : queue'[j] = queue'[k] => j = k
    <3> SUFFICES ASSUME NEW j \in 1 .. Len(queue'), NEW k \in 1 .. Len(queue'), queue'[j] = queue'[k]
                 PROVE  j = k
      OBVIOUS
    <3>1. j + 1 = k + 1
      BY <1>4, <2>1, <2>4
    <3> QED
      BY <3>1, <1>4, <1>2
  <2> QED
    BY <2>7, <2>8 DEF Lined
<1> QED
  BY <1>13, <1>17, <1>18, <1>20, <1>24, <1>25 DEF PoolInv

\* A thread that has run its task is free again, and counts as free.
LEMMA FinishKeeps == ASSUME PoolInv, NEW w \in Worker, Finish(w) PROVE PoolInv'
<1> DEFINE t == job[w]
<1>1. /\ pc[w] = "running"
      /\ task' = [task EXCEPT ![t] = "done"]
      /\ job' = [job EXCEPT ![w] = NoTask]
      /\ pc' = [pc EXCEPT ![w] = "locking"]
      /\ free' = free + 1
      /\ UNCHANGED <<queue, threads, now, destructor, mode>>
  BY DEF Finish
<1>2. TypeOK
  BY DEF PoolInv
<1>3. /\ task \in [Task -> {"new", "blocked", "queued", "running", "done", "rejected"}]
      /\ pc \in [Worker -> {"none", "locking", "waiting", "notified", "timedout", "running"}]
      /\ job \in [Worker -> Task \cup {NoTask}]
      /\ threads \subseteq Worker /\ free \in Nat
  BY <1>2 DEF TypeOK
<1>4. t # NoTask
  BY <1>1 DEF PoolInv, Jobs
<1>5. t \in Task
  BY <1>3, <1>4
<1>6. task[t] = "running" /\ \A v \in Worker : job[v] = t => v = w
  BY <1>4, <1>5 DEF PoolInv, Jobs
<1> HIDE DEF t
<1>7. pc'[w] = "locking" /\ \A v \in Worker : v # w => pc'[v] = pc[v]
  BY <1>1, <1>3
<1>8. TypeOK'
  BY <1>1, <1>2, <1>3, <1>5 DEF TypeOK
<1>9. TableExact'
  BY <1>1, <1>7 DEF PoolInv, TableExact
<1>10. w \in threads /\ w \notin Idle
  BY <1>1 DEF PoolInv, TableExact, Idle
<1>11. Idle' = Idle \cup {w}
  BY <1>1, <1>3, <1>7, <1>10 DEF Idle
<1>12. Cardinality(Idle') = Cardinality(Idle) + 1
  BY <1>10, <1>11, ThreadsCount, FS_AddElement
<1>13. Counted'
  BY <1>1, <1>3, <1>12, ThreadsCount DEF PoolInv, Counted, isStart
<1>14. Limited'
  BY <1>1 DEF PoolInv, Limited, MostThreads
<1>15. job'[w] = NoTask /\ \A v \in Worker : v # w => job'[v] = job[v]
  BY <1>1, <1>3
<1>16. task'[t] = "done" /\ \A u \in Task : u # t => task'[u] = task[u]
  BY <1>1, <1>3, <1>5
<1>17. Jobs'
  <2>1. \A v \in Worker : pc'[v] = "running" <=> job'[v] # NoTask
    BY <1>7, <1>15 DEF PoolInv, Jobs
  <2>2. \A v \in Worker : job'[v] # t
    BY <1>4, <1>6, <1>15
  <2>3. \A u \in Task : u # t => ((\E v \in Worker : job'[v] = u) <=> \E v \in Worker : job[v] = u)
    <3> SUFFICES ASSUME NEW u \in Task, u # t
                 PROVE  (\E v \in Worker : job'[v] = u) <=> \E v \in Worker : job[v] = u
      OBVIOUS
    <3>1. u # NoTask
      BY ThreadPoolAssumption
    <3>2. job[w] # u /\ job'[w] # u
      BY <1>15, <3>1 DEF t
    <3> QED
      BY <1>15, <3>2
  <2>4. \A u \in Task : task'[u] = "running" <=> \E v \in Worker : job'[v] = u
    BY <1>16, <2>2, <2>3 DEF PoolInv, Jobs
  <2>5. \A v, x \in Worker : job'[v] # NoTask /\ job'[v] = job'[x] => v = x
    BY <1>15 DEF PoolInv, Jobs
  <2> QED
    BY <2>1, <2>4, <2>5 DEF Jobs
<1>18. Lined'
  <2>1. \A u \in Task : task'[u] = "queued" <=> task[u] = "queued"
    BY <1>6, <1>16
  <2> QED
    BY <1>1, <2>1 DEF PoolInv, Lined
<1> QED
  BY <1>8, <1>9, <1>13, <1>14, <1>17, <1>18 DEF PoolInv

\* A thread that goes to sleep, is woken or runs out of patience is as free as before.
LEMMA IdleStepKeeps ==
    ASSUME PoolInv, NEW w \in Worker, Wait(w) \/ SpuriousWakeup(w) \/ TimeOut(w)
    PROVE  PoolInv'
<1>1. /\ UNCHANGED <<queue, task, job, threads, free, now, destructor, mode>>
      /\ pc[w] \in {"locking", "waiting", "notified", "timedout"}
      /\ \E s \in {"waiting", "notified", "timedout"} : pc' = [pc EXCEPT ![w] = s]
  BY DEF Wait, SpuriousWakeup, TimeOut, Awake
<1>2. TypeOK
  BY DEF PoolInv
<1>3. pc \in [Worker -> {"none", "locking", "waiting", "notified", "timedout", "running"}]
  BY <1>2 DEF TypeOK
<1>4. /\ pc' \in [Worker -> {"none", "locking", "waiting", "notified", "timedout", "running"}]
      /\ \A v \in Worker : /\ pc'[v] = "none" <=> pc[v] = "none"
                           /\ pc'[v] = "running" <=> pc[v] = "running"
  BY <1>1, <1>3
<1>5. TypeOK'
  BY <1>1, <1>2, <1>4 DEF TypeOK
<1>6. TableExact' /\ Counted' /\ Limited'
  BY <1>1, <1>4, NobodyCounts DEF isStart
<1>7. Jobs' /\ Lined'
  BY <1>1, <1>4, NobodyMoves
<1> QED
  BY <1>5, <1>6, <1>7 DEF PoolInv

\* A thread that leaves, whether it retires or the pool is destroyed, ran no task.
LEMMA Leaves ==
    ASSUME PoolInv, NEW w \in Worker, pc[w] # "none", pc[w] # "running",
           pc' = [pc EXCEPT ![w] = "none"], threads' = threads \ {w},
           UNCHANGED <<queue, task, job>>
    PROVE  /\ pc' \in [Worker -> {"none", "locking", "waiting", "notified", "timedout", "running"}]
           /\ threads' \subseteq Worker
           /\ TableExact' /\ Jobs' /\ Lined'
           /\ Cardinality(threads') = Cardinality(threads) - 1
           /\ Cardinality(Idle') = Cardinality(Idle) - 1
           /\ Cardinality(threads') \in Nat /\ Cardinality(Idle') \in Nat
<1>1. /\ pc \in [Worker -> {"none", "locking", "waiting", "notified", "timedout", "running"}]
      /\ threads \subseteq Worker
  BY DEF PoolInv, TypeOK
<1>2. pc'[w] = "none" /\ \A v \in Worker : v # w => pc'[v] = pc[v]
  BY <1>1
<1>3. w \in threads /\ w \in Idle
  BY DEF PoolInv, TableExact, Idle
<1>4. Idle' = Idle \ {w}
  BY <1>1, <1>2 DEF Idle
<1>5. TableExact'
  BY <1>1, <1>2 DEF PoolInv, TableExact
<1>6. \A v \in Worker : pc'[v] = "running" <=> pc[v] = "running"
  BY <1>2
<1>7. Jobs' /\ Lined'
  BY <1>6, NobodyMoves
<1>8. /\ Cardinality(threads') = Cardinality(threads) - 1
      /\ Cardinality(Idle') = Cardinality(Idle) - 1
      /\ IsFiniteSet(threads') /\ IsFiniteSet(Idle')
  BY <1>3, <1>4, ThreadsCount, FS_RemoveElement
<1>9. Cardinality(threads') \in Nat /\ Cardinality(Idle') \in Nat
  BY <1>8, FS_CardinalityType
<1> QED
  BY <1>1, <1>5, <1>7, <1>8, <1>9

\* A thread retires only while there are more than start() gave the pool.
LEMMA RetireKeeps == ASSUME PoolInv, NEW w \in Worker, Retire(w) PROVE PoolInv'
<1>1. /\ pc[w] # "none" /\ pc[w] # "running"
      /\ pc' = [pc EXCEPT ![w] = "none"] /\ threads' = threads \ {w}
      /\ now > InitThreads /\ now' = now - 1 /\ free' = free - 1
      /\ UNCHANGED <<queue, task, job, destructor, mode>>
  BY DEF Retire, MayRetire
<1>2. /\ pc' \in [Worker -> {"none", "locking", "waiting", "notified", "timedout", "running"}]
      /\ threads' \subseteq Worker
      /\ TableExact' /\ Jobs' /\ Lined'
      /\ Cardinality(threads') = Cardinality(threads) - 1
      /\ Cardinality(Idle') = Cardinality(Idle) - 1
      /\ Cardinality(threads') \in Nat /\ Cardinality(Idle') \in Nat
  BY <1>1, Leaves
<1>3. TypeOK /\ free \in Nat /\ now \in Nat
  BY DEF PoolInv, TypeOK
<1>4. Counted' /\ free' \in Nat /\ now' \in Nat
  BY <1>1, <1>2, <1>3, ThreadsCount DEF PoolInv, Counted, isStart
<1>5. Limited'
  BY <1>1, <1>3, InitThreadsCount DEF PoolInv, Limited, MostThreads
<1>6. TypeOK'
  BY <1>1, <1>2, <1>3, <1>4 DEF TypeOK
<1> QED
  BY <1>2, <1>4, <1>5, <1>6 DEF PoolInv

\* A thread that exits because the pool is destroyed leaves the counters alone: from then
\* on they only bound the threads.
LEMMA ExitKeeps == ASSUME PoolInv, NEW w \in Worker, Exit(w) PROVE PoolInv'
<1>1. /\ pc[w] # "none" /\ pc[w] # "running"
      /\ pc' = [pc EXCEPT ![w] = "none"] /\ threads' = threads \ {w}
      /\ ~isStart
      /\ destructor' = IF destructor = "waiting" THEN "notified" ELSE destructor
      /\ UNCHANGED <<queue, task, job, free, now, mode>>
  BY DEF Exit, Awake, NotifyOver
<1>2. /\ pc' \in [Worker -> {"none", "locking", "waiting", "notified", "timedout", "running"}]
      /\ threads' \subseteq Worker
      /\ TableExact' /\ Jobs' /\ Lined'
      /\ Cardinality(threads') = Cardinality(threads) - 1
      /\ Cardinality(Idle') = Cardinality(Idle) - 1
      /\ Cardinality(threads') \in Nat /\ Cardinality(Idle') \in Nat
  BY <1>1, Leaves
<1>3. TypeOK /\ free \in Nat /\ now \in Nat
  BY DEF PoolInv, TypeOK
<1>4. ~isStart'
  BY <1>1 DEF isStart
<1>5. Counted'
  BY <1>1, <1>2, <1>3, <1>4, ThreadsCount DEF PoolInv, Counted
<1>6. Limited'
  BY <1>1 DEF PoolInv, Limited, MostThreads
<1>7. TypeOK'
  BY <1>1, <1>2, <1>3 DEF TypeOK
<1> QED
  BY <1>2, <1>5, <1>6, <1>7 DEF PoolInv

-----------------------------------------------------------------------------
(* ~ThreadPool *)

\* The destructor's steps start and end no thread.
LEMMA DestructorKeeps == ASSUME PoolInv, Stop \/ NotifyAll \/ LookAgain PROVE PoolInv'
<1>1. /\ UNCHANGED <<queue, task, job, threads, free, now, mode>>
      /\ isStart' => isStart
      /\ destructor' \in {"none", "stopping", "waiting", "notified", "returned"}
      /\ pc' = pc \/ pc' = [w \in Worker |-> IF pc[w] = "waiting" THEN "notified" ELSE pc[w]]
  BY DEF Stop, NotifyAll, LookAgain, WaitOver, isStart
<1>2. TypeOK
  BY DEF PoolInv
<1>3. pc \in [Worker -> {"none", "locking", "waiting", "notified", "timedout", "running"}]
  BY <1>2 DEF TypeOK
<1>4. /\ pc' \in [Worker -> {"none", "locking", "waiting", "notified", "timedout", "running"}]
      /\ \A v \in Worker : /\ pc'[v] = "none" <=> pc[v] = "none"
                           /\ pc'[v] = "running" <=> pc[v] = "running"
  BY <1>1, <1>3
<1>5. TypeOK'
  BY <1>1, <1>2, <1>4 DEF TypeOK
<1>6. TableExact' /\ Counted' /\ Limited'
  BY <1>1, <1>4, NobodyCounts
<1>7. Jobs' /\ Lined'
  BY <1>1, <1>4, NobodyMoves
<1> QED
  BY <1>5, <1>6, <1>7 DEF PoolInv

-----------------------------------------------------------------------------
(* The invariant, and what it gives *)

\* No step of a submitter, a thread or the destructor breaks it.
LEMMA PoolStep == PoolInv /\ [Next]_vars => PoolInv'
<1> SUFFICES ASSUME PoolInv, [Next]_vars PROVE PoolInv'
  OBVIOUS
<1>1. ASSUME NEW t \in Task, Submit(t) PROVE PoolInv'
  BY <1>1, AcceptKeeps, BlockKeeps DEF Submit
<1>2. ASSUME NEW w \in Worker, Look(w) \/ Finish(w) \/ SpuriousWakeup(w) \/ TimeOut(w)
      PROVE  PoolInv'
  BY <1>2, TakeKeeps, FinishKeeps, IdleStepKeeps, RetireKeeps, ExitKeeps DEF Look
<1>3. CASE Stop \/ NotifyAll \/ LookAgain
  BY <1>3, DestructorKeeps
<1>4. CASE UNCHANGED vars
  BY <1>4 DEF vars, PoolInv, TypeOK, TableExact, Counted, Limited, MostThreads, Jobs, Lined, Idle, isStart
<1> QED
  BY <1>1, <1>2, <1>3, <1>4 DEF Next

\* The pool keeps its inductive invariant, and with it every variable its type: the queue
\* never outgrows taskMaxSize_ and freeThreadSize_ is never negative.
THEOREM PoolInvariance == Spec => []PoolInv
<1> QED
  BY PoolStart, PoolStep, PTL DEF Spec

\* Every variable keeps its type, the queue its bound and the counter its sign.
THEOREM PoolTyped == Spec => []TypeOK
<1>1. PoolInv => TypeOK
  BY DEF PoolInv
<1> QED
  BY <1>1, PoolInvariance, PTL

\* freeThreadSize_ and nowThreadSize_ are exact while the pool is in use.
THEOREM CountersStayExact == Spec => []CountersExact
<1>1. PoolInv => CountersExact
  BY DEF PoolInv, Counted, CountersExact, Idle
<1> QED
  BY <1>1, PoolInvariance, PTL

\* Between them growth and retirement keep the number of threads within its limits.
THEOREM ThreadsStayWithinLimits == Spec => []ThreadsWithinLimits
<1>1. PoolInv => ThreadsWithinLimits
  BY DEF PoolInv, Counted, Limited, MostThreads, ThreadsWithinLimits
<1> QED
  BY <1>1, PoolInvariance, PTL

-----------------------------------------------------------------------------
(* The pool as a queue of tasks *)

Status == [t \in Task |-> Seen(t)]

\* What a step of one task shows to submitters.
LEMMA SeenMoves ==
    ASSUME TypeOK, NEW t \in Task, NEW s, task' = [task EXCEPT ![t] = s]
    PROVE  Status' = [Status EXCEPT ![t] = Seen(t)']
<1>1. task \in [Task -> {"new", "blocked", "queued", "running", "done", "rejected"}]
  BY DEF TypeOK
<1>2. \A u \in Task : u # t => task'[u] = task[u]
  BY <1>1
<1>3. \A u \in Task : u # t => Seen(u)' = Seen(u)
  BY <1>2 DEF Seen
<1> QED
  BY <1>3 DEF Status

\* Every step is a step of a TaskQueue or shows nothing: in particular a submission is
\* refused only when the queue is full, and a thread starts the oldest task there is.
LEMMA TaskStep == PoolInv /\ [Next]_vars => [Tasks!Next]_Tasks!vars
<1> SUFFICES ASSUME PoolInv, [Next]_vars PROVE [Tasks!Next]_Tasks!vars
  OBVIOUS
<1> USE DEF Tasks!Next, Tasks!vars, Tasks!Accept, Tasks!Refuse, Tasks!Start, Tasks!Finish, Tasks!Shut
<1>0. /\ TypeOK /\ queue \in Seq(Task) /\ Len(queue) <= TaskMax /\ Len(queue) \in Nat /\ TaskMax \in Nat
      /\ task \in [Task -> {"new", "blocked", "queued", "running", "done", "rejected"}]
      /\ \A t \in Task : Status[t] = Seen(t)
  BY ThreadPoolAssumption DEF PoolInv, TypeOK, Status
<1>1. ASSUME NEW t \in Task, Accept(t) PROVE Tasks!Accept(t)
  <2>1. /\ task[t] \in {"new", "blocked"} /\ isStart /\ isStart' /\ Len(queue) < TaskMax
        /\ queue' = Append(queue, t) /\ task' = [task EXCEPT ![t] = "queued"]
    BY <1>1 DEF Accept, HasRoom, isStart
  <2>2. Seen(t) = "outside" /\ Seen(t)' = "waiting"
    BY <1>0, <2>1 DEF Seen
  <2>3. Status' = [Status EXCEPT ![t] = "waiting"]
    BY <1>0, <2>1, <2>2, SeenMoves
  <2> QED
    BY <1>0, <2>1, <2>2, <2>3 DEF Status
<1>2. ASSUME NEW t \in Task, Block(t) PROVE UNCHANGED Tasks!vars
  <2>1. task[t] = "new" /\ task' = [task EXCEPT ![t] = "blocked"] /\ UNCHANGED <<queue, destructor>>
    BY <1>2 DEF Block
  <2>2. \A u \in Task : Seen(u)' = Seen(u)
    BY <1>0, <2>1 DEF Seen
  <2> QED
    BY <2>1, <2>2 DEF isStart
<1>3. ASSUME NEW t \in Task, Reject(t) PROVE Tasks!Refuse(t)
  <2>1. /\ task[t] = "blocked" /\ ~(Len(queue) < TaskMax)
        /\ task' = [task EXCEPT ![t] = "rejected"] /\ UNCHANGED <<queue, destructor>>
    BY <1>3 DEF Reject, HasRoom
  <2>2. Seen(t) = "outside" /\ Seen(t)' = "refused"
    BY <1>0, <2>1 DEF Seen
  <2>3. Status' = [Status EXCEPT ![t] = "refused"]
    BY <1>0, <2>1, <2>2, SeenMoves
  <2>4. Len(queue) = TaskMax
    BY <1>0, <2>1
  <2> QED
    BY <1>0, <2>1, <2>2, <2>3, <2>4 DEF Status, isStart
<1>4. ASSUME NEW w \in Worker, Take(w) PROVE Tasks!Start
  <2>1. /\ queue # <<>> /\ queue' = Tail(queue) /\ destructor' = destructor
        /\ task' = [task EXCEPT ![Head(queue)] = "running"]
    BY <1>4 DEF Take, Taken
  <2>2. Head(queue) \in Task /\ Head(queue) = queue[1] /\ 1 \in 1 .. Len(queue)
    BY <1>0, <2>1
  <2>3. task[Head(queue)] = "queued"
    BY <2>2 DEF PoolInv, Lined
  <2>4. Seen(Head(queue)) = "waiting"
    BY <2>3 DEF Seen
  <2>5. \A t \in Task : t = Head(queue) => Seen(t)' = "started"
    BY <1>0, <2>1 DEF Seen
  <2>6. Status' = [Status EXCEPT ![Head(queue)] = "started"]
    <3>1. PICK t \in Task : t = Head(queue)
      BY <2>2
    <3>2. Status' = [Status EXCEPT ![t] = Seen(t)']
      BY <1>0, <2>1, <3>1, SeenMoves
    <3> QED
      BY <2>5, <3>1, <3>2
  <2> QED
    BY <1>0, <2>1, <2>2, <2>4, <2>6 DEF Status, isStart
<1>5. ASSUME NEW w \in Worker, Finish(w) PROVE \E t \in Task : Tasks!Finish(t)
  <2>1. /\ pc[w] = "running" /\ task' = [task EXCEPT ![job[w]] = "done"]
        /\ UNCHANGED <<queue, destructor>>
    BY <1>5 DEF Finish
  <2>2. job[w] \in Task \cup {NoTask} /\ job[w] # NoTask
    BY <2>1 DEF PoolInv, TypeOK, Jobs
  <2>3. PICK t \in Task : t = job[w]
    BY <2>2
  <2>4. task[t] = "running" /\ task' = [task EXCEPT ![t] = "done"]
    BY <2>1, <2>3 DEF PoolInv, Jobs
  <2>5. Seen(t) = "started" /\ Seen(t)' = "finished"
    BY <1>0, <2>4 DEF Seen
  <2>6. Status' = [Status EXCEPT ![t] = "finished"]
    BY <1>0, <2>4, <2>5, SeenMoves
  <2>7. Tasks!Finish(t)
    BY <1>0, <2>1, <2>5, <2>6 DEF Status, isStart
  <2> QED
    BY <2>7
<1>6. CASE Stop
  BY <1>6 DEF Stop, isStart, Seen
<1>7. ASSUME UNCHANGED <<queue, task>>, isStart' = isStart PROVE UNCHANGED Tasks!vars
  BY <1>7 DEF Seen
<1>8. ASSUME NEW w \in Worker, Wait(w) \/ SpuriousWakeup(w) \/ TimeOut(w) \/ Retire(w)
      PROVE  UNCHANGED Tasks!vars
  BY <1>7, <1>8 DEF Wait, SpuriousWakeup, TimeOut, Retire, isStart
<1>9. ASSUME NEW w \in Worker, Exit(w) PROVE UNCHANGED Tasks!vars
  BY <1>7, <1>9 DEF Exit, NotifyOver, isStart
<1>10. CASE NotifyAll \/ LookAgain
  BY <1>7, <1>10 DEF NotifyAll, LookAgain, WaitOver, isStart
<1>11. CASE UNCHANGED vars
  BY <1>7, <1>11 DEF vars, isStart
<1>12. ASSUME NEW t \in Task, Submit(t) PROVE [Tasks!Next]_Tasks!vars
  BY <1>1, <1>2, <1>3, <1>12 DEF Submit
<1>13. ASSUME NEW w \in Worker, Look(w) \/ Finish(w) \/ SpuriousWakeup(w) \/ TimeOut(w)
       PROVE  [Tasks!Next]_Tasks!vars
  BY <1>4, <1>5, <1>8, <1>9, <1>13 DEF Look
<1> QED
  BY <1>6, <1>10, <1>11, <1>12, <1>13 DEF Next

\* A pool after start() has taken nothing in.
LEMMA TasksStart == Init => Tasks!Init
<1> SUFFICES ASSUME Init PROVE Tasks!Init
  OBVIOUS
<1>1. \A t \in Task : Seen(t) = "outside"
  BY DEF Init, Seen
<1> QED
  BY <1>1 DEF Init, isStart, Tasks!Init

\* Submitters, threads that grow, retire and take tasks, and the destructor together are
\* a TaskQueue: tasks start in the order of submission, each of them once, and none after
\* it was refused.
THEOREM PoolImplementsTaskQueue == Spec => ImplementsTaskQueue
<1> QED
  BY TasksStart, TaskStep, PoolInvariance, PTL DEF Spec, ImplementsTaskQueue, Tasks!Spec
=============================================================================
