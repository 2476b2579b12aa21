----------------------------- MODULE ThreadPool -----------------------------
(***************************************************************************)
(* ThreadPool of the chat server: muduo's I/O threads submit the handlers  *)
(* of client messages, the pool's threads run them, and the destructor     *)
(* waits until the threads are gone.                                       *)
(*                                                                         *)
(* Every critical section of taskQueMtx_ is one action; a thread that      *)
(* waits on a condition variable is outside the mutex until it has been    *)
(* woken and gets the mutex again.  A submitter waits with a timeout, so   *)
(* it may look again at any time; the threads of a CACHE pool wait for a   *)
(* second at a time; those of a FIXED pool, and the destructor, wait until *)
(* they are notified.                                                      *)
(*                                                                         *)
(* The state is that of a pool after start().                              *)
(***************************************************************************)
EXTENDS Integers, Sequences, FiniteSets

CONSTANTS
    Task,         \* calls of submitTask
    NoTask,       \* none of them
    Worker,       \* threads; one that has ended stands for the next one to be created
    Started,      \* the ids start() has given out: intThreadSize_ of them
    MaxThreads,   \* maxThreadSize_
    TaskMax       \* taskMaxSize_

ASSUME ThreadPoolAssumption ==
    /\ IsFiniteSet(Worker) /\ Started \subseteq Worker /\ Started # {}
    /\ MaxThreads \in 0 .. Cardinality(Worker) /\ TaskMax \in Nat
    /\ NoTask \notin Task

VARIABLES
    queue,       \* taskQue_; taskSize_ is its length
    task,        \* history: where each task is
    pc,          \* where each thread is in threadfunc
    job,         \* the task a thread runs
    threads,     \* keys of threads_
    free, now,   \* freeThreadSize_, nowThreadSize_
    mode,        \* poolMode_: setMode refuses to change it after start()
    destructor   \* where ~ThreadPool is; isStart_ is true before it

vars == <<queue, task, pc, job, threads, free, now, mode, destructor>>

InitThreads == Cardinality(Started)
isStart == destructor = "none"

\* Threads that get the mutex next and look at the queue
Awake == {"locking", "notified", "timedout"}

Init ==
    /\ queue = <<>>
    /\ task = [t \in Task |-> "new"]
    /\ pc = [w \in Worker |-> IF w \in Started THEN "locking" ELSE "none"]
    /\ job = [w \in Worker |-> NoTask]
    /\ threads = Started
    /\ free = InitThreads /\ now = InitThreads
    /\ mode \in {"FIXED", "CACHE"}
    /\ destructor = "none"

-----------------------------------------------------------------------------
(* submitTask *)

Waiting == {w \in Worker : pc[w] = "waiting"}

\* Mutant: nobody is notified
NotifyOne_Nobody == {pc}

\* notEmpty_.notify_one: some waiting thread, if there is one
NotifyOne == IF Waiting = {} THEN {pc}
             ELSE {[pc EXCEPT ![w] = "notified"] : w \in Waiting}

\* The condition of notFull_.wait_for
HasRoom == Len(queue) < TaskMax

\* Room for one more task: it is queued and a thread is notified.  A CACHE pool with
\* more tasks than free threads also starts a new thread
Accept(t) ==
    /\ task[t] \in {"new", "blocked"} /\ isStart
    /\ HasRoom
    /\ queue' = Append(queue, t)
    /\ task' = [task EXCEPT ![t] = "queued"]
    /\ \E woken \in NotifyOne :
          IF mode = "CACHE" /\ Len(queue) + 1 > free /\ now < MaxThreads
          THEN /\ \E w \in Worker :
                     /\ pc[w] = "none"
                     /\ pc' = [woken EXCEPT ![w] = "locking"]
                     /\ threads' = threads \cup {w}
               /\ now' = now + 1
               /\ free' = free + 1
          ELSE pc' = woken /\ UNCHANGED <<threads, now, free>>
    /\ UNCHANGED <<job, destructor, mode>>

\* No room: wait on notFull_ for at most a second
Block(t) ==
    /\ task[t] = "new" /\ isStart
    /\ ~HasRoom
    /\ task' = [task EXCEPT ![t] = "blocked"]
    /\ UNCHANGED <<queue, pc, job, threads, free, now, destructor, mode>>

\* ... then give up: the caller gets a future with a default value
Reject(t) ==
    /\ task[t] = "blocked"
    /\ ~HasRoom
    /\ task' = [task EXCEPT ![t] = "rejected"]
    /\ UNCHANGED <<queue, pc, job, threads, free, now, destructor, mode>>

-----------------------------------------------------------------------------
(* threadfunc *)

\* Mutant: a copy is taken and the task stays in the queue while another waits behind it
Taken_Copied == IF Len(queue) > 1 THEN queue ELSE Tail(queue)

\* taskQue_ after the task at its front has been taken
Taken == Tail(queue)

\* A task is there: take it
Take(w) ==
    /\ pc[w] \in Awake
    /\ queue # <<>>
    /\ free' = free - 1
    /\ job' = [job EXCEPT ![w] = Head(queue)]
    /\ task' = [task EXCEPT ![Head(queue)] = "running"]
    /\ queue' = Taken
    /\ \E woken \in IF Len(queue) > 1 THEN NotifyOne ELSE {pc} :
          pc' = [woken EXCEPT ![w] = "running"]
    /\ UNCHANGED <<threads, now, destructor, mode>>

\* Mutant: the thread does not count as free again
Finish_Uncounted(w) ==
    /\ pc[w] = "running"
    /\ task' = [task EXCEPT ![job[w]] = "done"]
    /\ job' = [job EXCEPT ![w] = NoTask]
    /\ pc' = [pc EXCEPT ![w] = "locking"]
    /\ UNCHANGED <<queue, threads, free, now, destructor, mode>>

\* The task is done: count this thread as free and go for the mutex
Finish(w) ==
    /\ pc[w] = "running"
    /\ task' = [task EXCEPT ![job[w]] = "done"]
    /\ job' = [job EXCEPT ![w] = NoTask]
    /\ free' = free + 1
    /\ pc' = [pc EXCEPT ![w] = "locking"]
    /\ UNCHANGED <<queue, threads, now, destructor, mode>>

\* No task: wait on notEmpty_
Wait(w) ==
    /\ pc[w] \in Awake
    /\ queue = <<>> /\ isStart
    /\ pc' = [pc EXCEPT ![w] = "waiting"]
    /\ UNCHANGED <<queue, task, job, threads, free, now, destructor, mode>>

SpuriousWakeup(w) ==
    /\ pc[w] = "waiting"
    /\ pc' = [pc EXCEPT ![w] = "notified"]
    /\ UNCHANGED <<queue, task, job, threads, free, now, destructor, mode>>

\* The wait_for of a CACHE pool ends after a second.  A thread that was notified but gets
\* the mutex after that second is told the same: the notification is used up
TimeOut(w) ==
    /\ mode = "CACHE"
    /\ pc[w] \in {"waiting", "notified"}
    /\ pc' = [pc EXCEPT ![w] = "timedout"]
    /\ UNCHANGED <<queue, task, job, threads, free, now, destructor, mode>>

\* Mutant: any thread idle for long enough may go
MayRetire_Any == TRUE

MayRetire == now > InitThreads

\* ... and the thread, idle for more than MAX_TIME, goes without another look at the
\* queue or at isStart_, even if it has used up the notification of a queued task
Retire(w) ==
    /\ pc[w] = "timedout"
    /\ MayRetire
    /\ pc' = [pc EXCEPT ![w] = "none"]
    /\ threads' = threads \ {w}
    /\ now' = now - 1
    /\ free' = free - 1
    /\ UNCHANGED <<queue, task, job, destructor, mode>>

\* over_.notify_all, and its mutant that does nothing
NotifyOver_Nobody == destructor

NotifyOver == IF destructor = "waiting" THEN "notified" ELSE destructor

\* Nothing to do and the pool is being destroyed; the counters are left alone
Exit(w) ==
    /\ pc[w] \in Awake
    /\ queue = <<>> /\ ~isStart
    /\ pc' = [pc EXCEPT ![w] = "none"]
    /\ threads' = threads \ {w}
    /\ destructor' = NotifyOver
    /\ UNCHANGED <<queue, task, job, free, now, mode>>

-----------------------------------------------------------------------------
(* ~ThreadPool *)

\* isStart_ = false, before the mutex is taken.  Nobody may be in submitTask then
Stop ==
    /\ destructor = "none"
    /\ \A t \in Task : task[t] # "blocked"
    /\ destructor' = "stopping"
    /\ UNCHANGED <<queue, task, pc, job, threads, free, now, mode>>

\* over_.wait: the condition, before and after waiting
WaitOver == IF threads = {} THEN "returned" ELSE "waiting"

NotifyAll ==
    /\ destructor = "stopping"
    /\ pc' = [w \in Worker |-> IF pc[w] = "waiting" THEN "notified" ELSE pc[w]]
    /\ destructor' = WaitOver
    /\ UNCHANGED <<queue, task, job, threads, free, now, mode>>

LookAgain ==
    /\ destructor = "notified"
    /\ destructor' = WaitOver
    /\ UNCHANGED <<queue, task, pc, job, threads, free, now, mode>>

-----------------------------------------------------------------------------

Submit(t) == Accept(t) \/ Block(t) \/ Reject(t)
Look(w) == Take(w) \/ Wait(w) \/ Exit(w) \/ Retire(w)

Next ==
    \/ \E t \in Task : Submit(t)
    \/ \E w \in Worker : Look(w) \/ Finish(w) \/ SpuriousWakeup(w) \/ TimeOut(w)
    \/ Stop
    \/ NotifyAll
    \/ LookAgain

Spec == Init /\ [][Next]_vars

\* Threads that want the mutex get it, tasks return and the one-second waits of a CACHE
\* pool end; nothing is assumed of spurious wakeups, submitters or the moment the pool is
\* destroyed
Fairness ==
    /\ \A w \in Worker : WF_vars(Look(w)) /\ WF_vars(Finish(w)) /\ WF_vars(TimeOut(w))
    /\ WF_vars(NotifyAll) /\ WF_vars(LookAgain)

LiveSpec == Spec /\ Fairness

-----------------------------------------------------------------------------
(* Properties *)

\* Every variable has its type; the queue stays within taskMaxSize_ and the counter of
\* free threads, which submitTask compares with an unsigned size, is never negative.
TypeOK ==
    /\ queue \in Seq(Task) /\ Len(queue) <= TaskMax
    /\ task \in [Task -> {"new", "blocked", "queued", "running", "done", "rejected"}]
    /\ pc \in [Worker -> {"none", "locking", "waiting", "notified", "timedout", "running"}]
    /\ job \in [Worker -> Task \cup {NoTask}]
    /\ threads \subseteq Worker
    /\ free \in Nat /\ now \in Nat /\ mode \in {"FIXED", "CACHE"}
    /\ destructor \in {"none", "stopping", "waiting", "notified", "returned"}

\* While the pool is in use freeThreadSize_ and nowThreadSize_ are what their comments
\* say, although one is changed inside and outside the mutex: the threads that run no
\* task, and all threads.
CountersExact ==
    isStart => /\ now = Cardinality(threads)
               /\ free = Cardinality({w \in threads : pc[w] # "running"})

\* A pool in use has at least the threads start() gave it and never more than the
\* maximum, however growth and retirement interleave.
ThreadsWithinLimits ==
    isStart => InitThreads <= Cardinality(threads)
               /\ Cardinality(threads) <= IF MaxThreads > InitThreads THEN MaxThreads ELSE InitThreads

\* A task submitTask has accepted runs to its end, also when the pool is destroyed
\* while it is queued.  In a FIXED pool the notifications alone see to that.  In a CACHE
\* pool notify_one may wake a thread that retires without looking at the queue; the task
\* then waits until another thread's wait_for has timed out.
AcceptedTasksRun == \A t \in Task : task[t] = "queued" ~> task[t] = "done"

\* The destructor of a FIXED pool returns once it has been entered, whatever is queued
\* and running then: every thread that leaves tells it.
FixedDestructorReturns ==
    mode = "FIXED" /\ destructor = "stopping" ~> destructor = "returned"

\* What a submitter can tell about its task
Seen(t) ==
    CASE task[t] \in {"new", "blocked"} -> "outside"
      [] task[t] = "queued"   -> "waiting"
      [] task[t] = "running"  -> "started"
      [] task[t] = "done"     -> "finished"
      [] task[t] = "rejected" -> "refused"

Tasks == INSTANCE TaskQueue
             WITH Capacity <- TaskMax, waiting <- queue, status <- [t \in Task |-> Seen(t)],
                  open <- isStart

\* Submitters, threads that grow, retire and take tasks, and the destructor together are
\* a TaskQueue: however they interleave, tasks start in the order of submission, each one
\* once, none after it was refused, and a submission is refused only when the queue is
\* full at the end of its wait.
ImplementsTaskQueue == Tasks!Spec

-----------------------------------------------------------------------------
(* What a comment says of this code, and the code does not do *)

\* The comment on over_ says it tells when the table of threads is empty, which is what
\* the destructor waits for: it returns once it has been entered, in either mode.
DestructorReturns == destructor = "stopping" ~> destructor = "returned"
=============================================================================
