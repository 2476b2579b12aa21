------------------------------ MODULE Mailbox ------------------------------
(***************************************************************************)
(* What the chat servers together promise about messages, without servers, *)
(* Redis, handlers or connections that close: a message is stored once for *)
(* its recipient, goes only to connections its recipient has logged in on, *)
(* any number of times, and becomes read once and for all after it has     *)
(* gone to one of them.  A message whose INSERT failed has no row that     *)
(* could become read.                                                      *)
(***************************************************************************)
EXTENDS FiniteSets

CONSTANTS User, Conn, Msg, None

VARIABLES
    status,  \* none, unread, read, or failed: stored nowhere
    to,      \* the recipient
    seen,    \* connections a message has gone to
    owners   \* users who have logged in on a connection

vars == <<status, to, seen, owners>>

Init ==
    /\ status = [m \in Msg |-> "none"]
    /\ to = [m \in Msg |-> None]
    /\ seen = [m \in Msg |-> {}]
    /\ owners = [c \in Conn |-> {}]

LogIn(c, u) ==
    /\ owners' = [owners EXCEPT ![c] = @ \cup {u}]
    /\ UNCHANGED <<status, to, seen>>

Post(m, u) ==
    /\ status[m] = "none"
    /\ \E stored \in {"unread", "failed"} : status' = [status EXCEPT ![m] = stored]
    /\ to' = [to EXCEPT ![m] = u]
    /\ UNCHANGED <<seen, owners>>

\* Some messages go to a connection
Deliver(M, c) ==
    /\ \A m \in M : status[m] # "none" /\ to[m] \in owners[c]
    /\ seen' = [m \in Msg |-> IF m \in M THEN seen[m] \cup {c} ELSE seen[m]]
    /\ UNCHANGED <<status, to, owners>>

Acknowledge(m) ==
    /\ status[m] = "unread" /\ seen[m] # {}
    /\ status' = [status EXCEPT ![m] = "read"]
    /\ UNCHANGED <<to, seen, owners>>

Next ==
    \/ \E c \in Conn, M \in SUBSET Msg : Deliver(M, c)
    \/ \E c \in Conn, u \in User : LogIn(c, u)
    \/ \E m \in Msg, u \in User : Post(m, u)
    \/ \E m \in Msg : Acknowledge(m)

Spec == Init /\ [][Next]_vars
=============================================================================
