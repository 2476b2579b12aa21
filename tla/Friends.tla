------------------------------- MODULE Friends -------------------------------
(***************************************************************************)
(* Friendships: entries 2 to 6 of the main menu of chat_client, the        *)
(* handlers addfriend, agreefiend, refusefriend, getaddlist and            *)
(* getfriendlist of ChatService, and the table friend behind UserModel.    *)
(*                                                                         *)
(* A row (u, f) of the table belongs to u: it is the application of u to   *)
(* f, or says that f is a friend of u.  The pool runs the requests of a    *)
(* client in any order, and agreeFriend is two statements.  Two variables, *)
(* agreed and applied, keep what has happened for the properties.          *)
(***************************************************************************)
EXTENDS Integers, FiniteSets

CONSTANTS
    User,
    MaxRequests,  \* bound: requests, of all users together
    MaxFaults     \* bound: statements that fail

ASSUME FriendsAssumption == MaxRequests \in Nat /\ MaxFaults \in Nat

VARIABLES
    friend,    \* table friend: the column status of each row, or "none"
    tasks,     \* requests in the thread pool
    halfway,   \* requests to agree whose first statement is done
    refused,   \* users with an error reply on its way to their client
    client,    \* whether the client of a user runs
    requests,  \* bound
    faults,    \* bound
    agreed,    \* <<u, f>>: u agreed to f, the statements succeeded, nobody refused since
    applied    \* <<u, f>>: u applied to f, the INSERT succeeded, nobody refused since

vars == <<friend, tasks, halfway, refused, client, requests, faults, agreed, applied>>

Op == {"ADD_FRIEND", "AGREE_FRIEND", "REFUSE_FRIEND"}

Task == [op : Op, user : User, friend : User, n : 1 .. MaxRequests]

Init ==
    /\ friend = [u \in User |-> [f \in User |-> "none"]]
    /\ tasks = {} /\ halfway = {} /\ refused = {}
    /\ client = [u \in User |-> "running"]
    /\ requests = 0 /\ faults = 0
    /\ agreed = {} /\ applied = {}

\* Entries 2, 4 and 5: user_id is the user of the client, friend_id what they typed
Request(u, op, f) ==
    /\ client[u] = "running"
    /\ requests < MaxRequests
    /\ requests' = requests + 1
    /\ tasks' = tasks \cup {[op |-> op, user |-> u, friend |-> f, n |-> requests + 1]}
    /\ UNCHANGED <<friend, halfway, refused, client, faults, agreed, applied>>

-----------------------------------------------------------------------------
(* Handlers *)

Statement(ok) == IF ok THEN UNCHANGED faults ELSE faults < MaxFaults /\ faults' = faults + 1

Set(u, f, status) == friend' = [friend EXCEPT ![u][f] = status]

\* Mutant: a row that is there already is set back
Insertable_Always(u, f) == TRUE

\* The key of the table is the pair (ON DUPLICATE KEY of agreeFriend, the error of addfriend)
Insertable(u, f) == friend[u][f] = "none"

\* addfriend: the INSERT makes a row, or an error goes back
AddFriend(t, ok) ==
    /\ t.op = "ADD_FRIEND"
    /\ tasks' = tasks \ {t}
    /\ Statement(ok)
    /\ IF ok /\ Insertable(t.user, t.friend)
       THEN /\ Set(t.user, t.friend, "applied")
            /\ applied' = applied \cup {<<t.user, t.friend>>}
            /\ UNCHANGED refused
       ELSE /\ refused' = refused \cup {t.user}
            /\ UNCHANGED <<friend, applied>>
    /\ UNCHANGED <<halfway, client, requests, agreed>>

\* UPDATE: a row that is not there stays away, and that is no error
Updated(status) == IF status = "none" THEN status ELSE "friends"

\* agreefiend, the UPDATE; when it fails the handler is done
Agree(t, ok) ==
    /\ t.op = "AGREE_FRIEND"
    /\ tasks' = tasks \ {t}
    /\ Statement(ok)
    /\ IF ok THEN /\ Set(t.user, t.friend, Updated(friend[t.user][t.friend]))
                  /\ halfway' = halfway \cup {t}
             ELSE UNCHANGED <<friend, halfway>>
    /\ UNCHANGED <<refused, client, requests, agreed, applied>>

\* The row of the one who is agreed to
Other(t) == <<t.friend, t.user>>

\* The INSERT ... ON DUPLICATE KEY UPDATE
AgreeOther(t, ok) ==
    /\ t \in halfway
    /\ halfway' = halfway \ {t}
    /\ Statement(ok)
    /\ IF ok THEN /\ Set(Other(t)[1], Other(t)[2], "friends")
                  /\ agreed' = agreed \cup {<<t.user, t.friend>>}
             ELSE UNCHANGED <<friend, agreed>>
    /\ UNCHANGED <<tasks, refused, client, requests, applied>>

\* refusefriend: the DELETE
Refuse(t, ok) ==
    LET pairs == {<<t.user, t.friend>>, <<t.friend, t.user>>} IN
    /\ t.op = "REFUSE_FRIEND"
    /\ tasks' = tasks \ {t}
    /\ Statement(ok)
    /\ IF ok THEN Set(t.user, t.friend, "none") ELSE UNCHANGED friend
    /\ agreed' = agreed \ pairs
    /\ applied' = applied \ pairs
    /\ UNCHANGED <<halfway, refused, client, requests>>

\* The error reply has no field msgtype: reading it throws in the receiving thread
ReceiveError(u) ==
    /\ u \in refused
    /\ refused' = refused \ {u}
    /\ client' = [client EXCEPT ![u] = "ended"]
    /\ UNCHANGED <<friend, tasks, halfway, requests, faults, agreed, applied>>

\* The user starts it again
Restart(u) ==
    /\ client[u] = "ended"
    /\ client' = [client EXCEPT ![u] = "running"]
    /\ UNCHANGED <<friend, tasks, halfway, refused, requests, faults, agreed, applied>>

\* Mutant: the applications of a user, not those to them
ApplyList_Own(u) == {f \in User : friend[u][f] = "applied"}

\* getaddlist
ApplyList(u) == {f \in User : friend[f][u] = "applied"}

\* getfriendlist
FriendList(u) == {f \in User : friend[u][f] = "friends"}

-----------------------------------------------------------------------------

Run(t) == \E ok \in BOOLEAN : AddFriend(t, ok) \/ Agree(t, ok) \/ Refuse(t, ok)

Next ==
    \/ \E u, f \in User, op \in Op : Request(u, op, f)
    \/ \E t \in tasks : Run(t)
    \/ \E t \in halfway, ok \in BOOLEAN : AgreeOther(t, ok)
    \/ \E u \in User : ReceiveError(u) \/ Restart(u)

Spec == Init /\ [][Next]_vars

-----------------------------------------------------------------------------
(* Properties *)

\* Every variable has its type.
FriendsTypeOK ==
    /\ friend \in [User -> [User -> {"none", "applied", "friends"}]]
    /\ tasks \subseteq Task /\ halfway \subseteq Task
    /\ refused \subseteq User
    /\ client \in [User -> {"running", "ended"}]
    /\ requests \in 0 .. MaxRequests /\ faults \in 0 .. MaxFaults
    /\ agreed \subseteq User \X User /\ applied \subseteq User \X User

\* Whoever has been agreed to finds the other in their list of friends until one of the
\* two refuses, whatever requests of both are in the pool and in whatever order it runs
\* them: a second application does not turn a friendship back into an application.
AgreedListed == \A p \in agreed : p[1] \in FriendList(p[2])

\* An application that was accepted is in the list of the one it is addressed to, or has
\* become a friendship, until one of the two refuses: it is not lost between the two
\* statements of agreeFriend, nor by a statement that fails.
ApplicationKept == \A p \in applied : p[1] \in ApplyList(p[2]) \/ p[2] \in FriendList(p[1])

-----------------------------------------------------------------------------
(* What the menus say, and the code does not do *)

\* "Agreed to the application" (chat_client): friends are friends of each other.  The
\* UPDATE looks for the row of the one who agrees, which nobody has made.
FriendsMutual ==
    tasks = {} /\ halfway = {} =>
        \A p \in agreed : <<p[2], p[1]>> \in applied => p[2] \in FriendList(p[1])

\* "Refused the application" (chat_client): what a user has refused is not in their list
\* when the request is dealt with.  The DELETE names the other row.
RefusedGone ==
    [][\A t \in tasks \ tasks' : t.op = "REFUSE_FRIEND" => t.friend \notin ApplyList(t.user)']_vars

\* Nobody becomes a friend without agreeing: an application turns into a friendship
\* through a request of the one it is addressed to.  The applicant can agree to it.
Consent ==
    [][\A u, f \in User :
           friend[u][f] = "applied" /\ friend'[u][f] = "friends" =>
               \E t \in tasks \cup halfway : t.op = "AGREE_FRIEND" /\ t.user = f /\ t.friend = u]_vars

\* A client shows the error of an application that was refused and goes on.
ClientsSurvive == \A u \in User : client[u] = "running"

=============================================================================
