----------------------------- MODULE TaskQueue -----------------------------
(***************************************************************************)
(* What a thread pool promises to those who submit tasks, without threads, *)
(* mutexes or timeouts: it takes tasks in while it is open and has room,   *)
(* starts them in the order it took them in, each of them once, and starts *)
(* none it has refused.                                                    *)
(***************************************************************************)
EXTENDS Naturals, Sequences

CONSTANTS Task, Capacity

VARIABLES
    waiting,  \* tasks taken in and not started, oldest first
    status,   \* where each task is
    open      \* the pool takes tasks in

vars == <<waiting, status, open>>

Init ==
    /\ waiting = <<>>
    /\ status = [t \in Task |-> "outside"]
    /\ open = TRUE

Accept(t) ==
    /\ open /\ status[t] = "outside" /\ Len(waiting) < Capacity
    /\ waiting' = Append(waiting, t)
    /\ status' = [status EXCEPT ![t] = "waiting"]
    /\ UNCHANGED open

Refuse(t) ==
    /\ status[t] = "outside" /\ Len(waiting) = Capacity
    /\ status' = [status EXCEPT ![t] = "refused"]
    /\ UNCHANGED <<waiting, open>>

Start ==
    /\ waiting # <<>>
    /\ status[Head(waiting)] = "waiting"
    /\ status' = [status EXCEPT ![Head(waiting)] = "started"]
    /\ waiting' = Tail(waiting)
    /\ UNCHANGED open

Finish(t) ==
    /\ status[t] = "started"
    /\ status' = [status EXCEPT ![t] = "finished"]
    /\ UNCHANGED <<waiting, open>>

Shut == open /\ open' = FALSE /\ UNCHANGED <<waiting, status>>

Next == Start \/ Shut \/ \E t \in Task : Accept(t) \/ Refuse(t) \/ Finish(t)

Spec == Init /\ [][Next]_vars
=============================================================================
