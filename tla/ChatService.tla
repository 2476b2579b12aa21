---------------------------- MODULE ChatService ----------------------------
(***************************************************************************)
(* Sessions and messages of the chat system: ChatService of several chat   *)
(* servers behind a load balancer, the tables user and message they share  *)
(* through UserModel, and RedisClient, which carries messages between      *)
(* servers.                                                                *)
(*                                                                         *)
(* Handlers of client messages run in the threads of the pool, clientColse *)
(* in the I/O thread of the connection and redisHandler in the thread of   *)
(* subLoop.  A step is one critical section or one call of the database or *)
(* of Redis, so handlers interleave between those.  A server process may   *)
(* be stopped with SIGINT, or die, and is then started again.              *)
(*                                                                         *)
(* Users who are refused, and senders, have no session that is followed    *)
(* here: onemessage does not look at the session of its sender.            *)
(***************************************************************************)
EXTENDS Integers, Sequences, FiniteSets, FiniteSetsExt

CONSTANTS
    User, Conn, Server, Msg,
    Login,          \* logins that pass the first check, over all connections
    Registered,     \* the users whose accounts exist at the start
    ServerOf,       \* the server a connection was given to
    None,           \* no connection, no user
    MaxFaults       \* bound: INSERTs into message that fail, subscription connections
                    \* that break and server processes that end, together

ASSUME ChatAssumption ==
    /\ Registered \subseteq User
    /\ ServerOf \in [Conn -> Server]
    /\ None \notin Conn \cup User \cup Server
    /\ MaxFaults \in Nat

VARIABLES
    userState,   \* table user: the column state, or "none" before ref
    status,      \* table message: the column status, or why there is no row
    login,       \* the handler of each login
    msg,         \* the onemessage handler of each message
    conn,        \* each connection, and where clientColse is
    leaving,     \* the local id of clientColse
    userIdConn,  \* _userIdConn of each server
    connMutex,   \* who holds _connMutex across a wait
    cmdQueue,    \* _cmdQueue of each server
    channels,    \* Redis: the channels a server has subscribed to
    replies,     \* Redis: what it has sent to a server on _subCtx
    subLoop,     \* what subLoop of each server is about to hand to its callback
    sent,        \* what has been written to each connection
    stopping,    \* the servers whose handlerfun has begun
    faults       \* bound

sessionVars == <<userState, login, conn, leaving, userIdConn, connMutex>>
messageVars == <<status, msg, sent>>
redisVars   == <<cmdQueue, channels, replies, subLoop>>
stopVars    == <<stopping, faults>>
vars == <<userState, status, login, msg, conn, leaving, userIdConn, connMutex, cmdQueue,
          channels, replies, subLoop, sent, stopping, faults>>

Idle  == [type |-> "idle"]
Ended == [type |-> "ended"]
Confirm == [type |-> "confirm"]
Push  == [type : {"message"}, channel : User, msg : Msg]
Cmd   == [type : {"SUBSCRIBE", "UNSUBSCRIBE"}, channel : User, by : Conn \cup Login]

Init ==
    /\ userState = [u \in User |-> IF u \in Registered THEN "offline" ELSE "none"]
    /\ status = [m \in Msg |-> "none"]
    /\ login = [l \in Login |-> [pc |-> "none", conn |-> None, user |-> None]]
    /\ msg = [m \in Msg |-> [pc |-> "none", at |-> None, to |-> None]]
    /\ conn = [c \in Conn |-> "open"]
    /\ leaving = [c \in Conn |-> None]
    /\ userIdConn = [s \in Server |-> [u \in User |-> None]]
    /\ connMutex = [s \in Server |-> None]
    /\ cmdQueue = [s \in Server |-> <<>>]
    /\ channels = [s \in Server |-> {}]
    /\ replies = [s \in Server |-> <<>>]
    /\ subLoop = [s \in Server |-> Idle]
    /\ sent = [c \in Conn |-> {}]
    /\ stopping = {}
    /\ faults = 0

\* Something goes wrong
Fault == faults < MaxFaults /\ faults' = faults + 1

\* TcpConnection::send: nothing leaves on a connection that is down
Written(c, M) == IF conn[c] = "open" THEN [sent EXCEPT ![c] = @ \cup M] ELSE sent

\* RedisClient::subscribe and unsubscribe, up to the wait
Enqueue(s, type, u, by) ==
    cmdQueue' = [cmdQueue EXCEPT ![s] = Append(@, [type |-> type, channel |-> u, by |-> by])]

\* The request has been dealt with
Answered(s, by) == \A k \in DOMAIN cmdQueue[s] : cmdQueue[s][k].by # by

-----------------------------------------------------------------------------
(* ref *)

Ref(u) ==
    /\ userState[u] = "none"
    /\ userState' = [userState EXCEPT ![u] = "offline"]
    /\ UNCHANGED <<login, conn, leaving, userIdConn, connMutex>>
    /\ UNCHANGED messageVars /\ UNCHANGED redisVars

-----------------------------------------------------------------------------
(* login *)

LoginAt(l, pc) == login' = [login EXCEPT ![l].pc = pc]
ServerOfLogin(l) == ServerOf[login[l].conn]

\* query: the user exists, has sent the right password and is offline.  Otherwise an error
\* goes back and nothing changes.  The pool may run the task after the connection has
\* closed, and a connection may ask again
LoginQuery(l, c, u) ==
    /\ login[l].pc = "none" /\ conn[c] # "dead"
    /\ userState[u] = "offline"
    /\ login' = [login EXCEPT ![l] = [pc |-> "checked", conn |-> c, user |-> u]]
    /\ UNCHANGED <<userState, conn, leaving, userIdConn, connMutex>>
    /\ UNCHANGED messageVars /\ UNCHANGED redisVars

LoginMap(l) ==
    LET s == ServerOfLogin(l) IN
    /\ login[l].pc = "checked"
    /\ connMutex[s] = None
    /\ userIdConn' = [userIdConn EXCEPT ![s][login[l].user] = login[l].conn]
    /\ LoginAt(l, "mapped")
    /\ UNCHANGED <<userState, conn, leaving, connMutex>>
    /\ UNCHANGED messageVars /\ UNCHANGED redisVars

LoginSubscribe(l) ==
    /\ login[l].pc = "mapped"
    /\ Enqueue(ServerOfLogin(l), "SUBSCRIBE", login[l].user, l)
    /\ LoginAt(l, "subscribing")
    /\ UNCHANGED <<userState, conn, leaving, userIdConn, connMutex>>
    /\ UNCHANGED messageVars /\ UNCHANGED <<channels, replies, subLoop>>

\* The wait of subscribe ends, answered or after 3 s; its result is not looked at
SubscribeReturns(l, timeout) ==
    /\ login[l].pc = "subscribing"
    /\ timeout \/ Answered(ServerOfLogin(l), l)
    /\ LoginAt(l, "subscribed")
    /\ UNCHANGED <<userState, conn, leaving, userIdConn, connMutex>>
    /\ UNCHANGED messageVars /\ UNCHANGED redisVars

\* updateStates, and the LOGIN_ACK
LoginOnline(l) ==
    /\ login[l].pc = "subscribed"
    /\ userState' = [userState EXCEPT ![login[l].user] = "online"]
    /\ LoginAt(l, "online")
    /\ UNCHANGED <<conn, leaving, userIdConn, connMutex>>
    /\ UNCHANGED messageVars /\ UNCHANGED redisVars

\* Mutant: the messages that have been acknowledged are selected
Unread_Acked(u) == {m \in Msg : status[m] = "read" /\ msg[m].to = u}

\* Mutant: the messages of everybody are selected
Unread_Everybody(u) == {m \in Msg : status[m] = "unread"}

\* getofflineMessage
Unread(u) == {m \in Msg : status[m] = "unread" /\ msg[m].to = u}

LoginOffline(l) ==
    /\ login[l].pc = "online"
    /\ sent' = Written(login[l].conn, Unread(login[l].user))
    /\ LoginAt(l, "done")
    /\ UNCHANGED <<userState, conn, leaving, userIdConn, connMutex>>
    /\ UNCHANGED <<status, msg>> /\ UNCHANGED redisVars

-----------------------------------------------------------------------------
(* onemessage and ackMessage *)

MsgAt(m, pc) == msg' = [msg EXCEPT ![m].pc = pc]

\* insertMessage.  When the INSERT fails the id stays 0, which is not the -1 the handler
\* looks for, so it goes on without a row
Store(m, s, u, ok) ==
    /\ msg[m].pc = "none"
    /\ msg' = [msg EXCEPT ![m] = [pc |-> "stored", at |-> s, to |-> u]]
    /\ status' = [status EXCEPT ![m] = IF ok THEN "unread" ELSE "failed"]
    /\ IF ok THEN UNCHANGED faults ELSE Fault
    /\ UNCHANGED <<sent, stopping>>
    /\ UNCHANGED sessionVars /\ UNCHANGED redisVars

\* Is the recipient on this server?
Lookup(m) ==
    LET s == msg[m].at
        c == userIdConn[s][msg[m].to]
    IN  /\ msg[m].pc = "stored"
        /\ connMutex[s] = None
        /\ sent' = IF c = None THEN sent ELSE Written(c, {m})
        /\ MsgAt(m, IF c = None THEN "missed" ELSE "done")
        /\ UNCHANGED status /\ UNCHANGED sessionVars /\ UNCHANGED redisVars

\* Is the recipient on another one?
QueryState(m) ==
    /\ msg[m].pc = "missed"
    /\ MsgAt(m, IF userState[msg[m].to] = "online" THEN "publishing" ELSE "done")
    /\ UNCHANGED <<status, sent>> /\ UNCHANGED sessionVars /\ UNCHANGED redisVars

Publish(m) ==
    LET u == msg[m].to IN
    /\ msg[m].pc = "publishing"
    /\ replies' = [s \in Server |->
           IF u \in channels[s]
           THEN Append(replies[s], [type |-> "message", channel |-> u, msg |-> m])
           ELSE replies[s]]
    /\ MsgAt(m, "done")
    /\ UNCHANGED <<status, sent>> /\ UNCHANGED sessionVars
    /\ UNCHANGED <<cmdQueue, channels, subLoop>>

\* A client answers a message it has received, and updateMesStatus runs
AckMessage(c, m) ==
    /\ m \in sent[c] /\ status[m] = "unread"
    /\ status' = [status EXCEPT ![m] = "read"]
    /\ UNCHANGED <<msg, sent>> /\ UNCHANGED sessionVars /\ UNCHANGED redisVars

-----------------------------------------------------------------------------
(* clientColse *)

Disconnect(c) ==
    /\ conn[c] = "open"
    /\ conn' = [conn EXCEPT ![c] = "closed"]
    /\ UNCHANGED <<userState, login, leaving, userIdConn, connMutex>>
    /\ UNCHANGED messageVars /\ UNCHANGED redisVars

\* Users whose connection is c
UsersOn(c) == {u \in User : userIdConn[ServerOf[c]][u] = c}

\* Nobody is logged in on it: id stays 0 and the UPDATE finds no row
CloseUnknown(c) ==
    /\ conn[c] = "closed"
    /\ connMutex[ServerOf[c]] = None
    /\ UsersOn(c) = {}
    /\ conn' = [conn EXCEPT ![c] = "gone"]
    /\ UNCHANGED <<userState, login, leaving, userIdConn, connMutex>>
    /\ UNCHANGED messageVars /\ UNCHANGED redisVars

\* Mutant: the mutex is not kept while unsubscribe waits its turn
Close_Unlocked(c) ==
    LET s == ServerOf[c] IN
    \/ /\ conn[c] = "closed"
       /\ connMutex[s] = None
       /\ \E u \in UsersOn(c) :
             /\ userIdConn' = [userIdConn EXCEPT ![s][u] = None]
             /\ leaving' = [leaving EXCEPT ![c] = u]
       /\ conn' = [conn EXCEPT ![c] = "erased"]
       /\ UNCHANGED <<userState, login, connMutex>>
       /\ UNCHANGED messageVars /\ UNCHANGED redisVars
    \/ /\ conn[c] = "erased"
       /\ Enqueue(s, "UNSUBSCRIBE", leaving[c], c)
       /\ conn' = [conn EXCEPT ![c] = "unsubscribing"]
       /\ UNCHANGED <<userState, login, leaving, userIdConn, connMutex>>
       /\ UNCHANGED messageVars /\ UNCHANGED <<channels, replies, subLoop>>

\* The entry is erased and unsubscribe called, all under _connMutex
Close(c) ==
    LET s == ServerOf[c] IN
    /\ conn[c] = "closed"
    /\ connMutex[s] = None
    /\ \E u \in UsersOn(c) :
          /\ userIdConn' = [userIdConn EXCEPT ![s][u] = None]
          /\ leaving' = [leaving EXCEPT ![c] = u]
          /\ Enqueue(s, "UNSUBSCRIBE", u, c)
    /\ connMutex' = [connMutex EXCEPT ![s] = c]
    /\ conn' = [conn EXCEPT ![c] = "unsubscribing"]
    /\ UNCHANGED <<userState, login>>
    /\ UNCHANGED messageVars /\ UNCHANGED <<channels, replies, subLoop>>

\* Mutant: unsubscribe waits for its answer, however long
GivesUp_Never(timeout) == FALSE

\* wait_for(3 s)
GivesUp(timeout) == timeout

UnsubscribeReturns(c, timeout) ==
    LET s == ServerOf[c] IN
    /\ conn[c] = "unsubscribing"
    /\ GivesUp(timeout) \/ Answered(s, c)
    /\ connMutex' = [connMutex EXCEPT ![s] = None]
    /\ conn' = [conn EXCEPT ![c] = "unsubscribed"]
    /\ UNCHANGED <<userState, login, leaving, userIdConn>>
    /\ UNCHANGED messageVars /\ UNCHANGED redisVars

CloseOffline(c) ==
    /\ conn[c] = "unsubscribed"
    /\ userState' = [userState EXCEPT ![leaving[c]] = "offline"]
    /\ conn' = [conn EXCEPT ![c] = "gone"]
    /\ UNCHANGED <<login, leaving, userIdConn, connMutex>>
    /\ UNCHANGED messageVars /\ UNCHANGED redisVars

-----------------------------------------------------------------------------
(* subLoop *)

Here(s) == {c \in Conn : ServerOf[c] = s}

\* One request: redisCommand writes the command and takes the next reply for its answer,
\* whatever that reply is
RunCommand(s) ==
    /\ subLoop[s] = Idle
    /\ cmdQueue[s] # <<>>
    /\ LET q == Head(cmdQueue[s]) IN
       channels' = [channels EXCEPT ![s] = IF q.type = "SUBSCRIBE" THEN @ \cup {q.channel}
                                                                   ELSE @ \ {q.channel}]
    /\ replies' = [replies EXCEPT ![s] = Tail(Append(@, Confirm))]
    /\ cmdQueue' = [cmdQueue EXCEPT ![s] = Tail(@)]
    /\ UNCHANGED <<subLoop>> /\ UNCHANGED messageVars /\ UNCHANGED sessionVars

\* poll and redisGetReply: a message goes to the callback, anything else is dropped
ReadReply(s) ==
    /\ subLoop[s] = Idle
    /\ replies[s] # <<>>
    /\ LET r == Head(replies[s]) IN
       subLoop' = [subLoop EXCEPT ![s] = IF r.type = "message" THEN r ELSE Idle]
    /\ replies' = [replies EXCEPT ![s] = Tail(@)]
    /\ UNCHANGED <<cmdQueue, channels>>
    /\ UNCHANGED messageVars /\ UNCHANGED sessionVars

RedisHandler(s) ==
    /\ subLoop[s].type = "message"
    /\ connMutex[s] = None
    /\ LET c == userIdConn[s][subLoop[s].channel] IN
       sent' = IF c = None THEN sent ELSE Written(c, {subLoop[s].msg})
    /\ subLoop' = [subLoop EXCEPT ![s] = Idle]
    /\ UNCHANGED <<cmdQueue, channels, replies>>
    /\ UNCHANGED <<status, msg>> /\ UNCHANGED sessionVars

\* The connection to Redis breaks: the loop ends, failing what is queued.  _running stays
\* true, so later requests are queued for nobody.  A server without users has nothing to
\* lose by it
SubLoopEnds(s) ==
    /\ subLoop[s] = Idle /\ Here(s) # {}
    /\ Fault
    /\ subLoop' = [subLoop EXCEPT ![s] = Ended]
    /\ cmdQueue' = [cmdQueue EXCEPT ![s] = <<>>]
    /\ channels' = [channels EXCEPT ![s] = {}]
    /\ replies' = [replies EXCEPT ![s] = <<>>]
    /\ UNCHANGED stopping /\ UNCHANGED messageVars /\ UNCHANGED sessionVars

-----------------------------------------------------------------------------

(* The end of a server process *)

\* Connections of s on which something has happened
Used(s) == {c \in Here(s) : conn[c] # "open" \/ \E l \in Login : login[l].conn = c}

\* The process is gone and a new one has been started, with the tables as they are.
\* Handlers and the connections old end with it, clientColse does not run
NewProcess(s, old) ==
    /\ login' = [l \in Login |-> IF login[l].conn \in Here(s) THEN [login[l] EXCEPT !.pc = "killed"]
                                                               ELSE login[l]]
    /\ msg' = [m \in Msg |-> IF msg[m].at = s /\ msg[m].pc # "done"
                             THEN [msg[m] EXCEPT !.pc = "killed"] ELSE msg[m]]
    /\ conn' = [c \in Conn |-> IF c \in old THEN "dead" ELSE conn[c]]
    /\ leaving' = [c \in Conn |-> IF c \in old THEN None ELSE leaving[c]]
    /\ userIdConn' = [userIdConn EXCEPT ![s] = [u \in User |-> None]]
    /\ connMutex' = [connMutex EXCEPT ![s] = None]
    /\ cmdQueue' = [cmdQueue EXCEPT ![s] = <<>>]
    /\ channels' = [channels EXCEPT ![s] = {}]
    /\ replies' = [replies EXCEPT ![s] = <<>>]
    /\ subLoop' = [subLoop EXCEPT ![s] = Idle]
    /\ stopping' = stopping \ {s}
    /\ UNCHANGED <<userState, status, sent>>

\* SIGINT: handlerfun, up to exit.  The statement concerns the users of all servers.  When
\* the database cannot be reached handlerfun returns and the server runs on
SigInt(s, reached) ==
    /\ s \notin stopping
    /\ \/ /\ reached
          /\ Fault
          /\ stopping' = stopping \cup {s}
          /\ userState' = [u \in User |-> IF userState[u] = "online" THEN "offline"
                                                                     ELSE userState[u]]
       \/ ~reached /\ UNCHANGED <<userState, stopping, faults>>
    /\ UNCHANGED <<login, conn, leaving, userIdConn, connMutex>>
    /\ UNCHANGED messageVars /\ UNCHANGED redisVars

\* exit destroys the ChatService, whose RedisClient frees _subCtx and joins subLoop; the
\* other threads run on until the process is gone.  A subLoop in its callback does not
\* touch _subCtx and is waited for.  Anywhere else it may use what has been freed: it
\* meets an error and ends, or the process crashes, and either way it is gone
Exit(s, old) ==
    /\ s \in stopping
    /\ subLoop[s].type # "message"
    /\ NewProcess(s, old)
    /\ UNCHANGED faults

\* The process dies without handlerfun: an exception leaves a callback or a handler, as
\* when onMessage parses half a message, or getconn has returned nullptr, or the pool's
\* producer closes a handle twice.  A process that does nothing leaves nothing behind
Die(s, old) ==
    /\ Fault
    /\ Here(s) # {} \/ \E m \in Msg : msg[m].at = s /\ msg[m].pc # "done"
    /\ NewProcess(s, old)

-----------------------------------------------------------------------------

LoginStep(l) ==
    /\ \/ LoginMap(l)
       \/ LoginSubscribe(l)
       \/ \E timeout \in BOOLEAN : SubscribeReturns(l, timeout)
       \/ LoginOnline(l)
       \/ LoginOffline(l)
    /\ UNCHANGED stopVars

MessageStep(m) == (Lookup(m) \/ QueryState(m) \/ Publish(m)) /\ UNCHANGED stopVars

CloseStep(c) ==
    /\ \/ CloseUnknown(c)
       \/ Close(c)
       \/ \E timeout \in BOOLEAN : UnsubscribeReturns(c, timeout)
       \/ CloseOffline(c)
    /\ UNCHANGED stopVars

SubLoopStep(s) == (RunCommand(s) \/ ReadReply(s) \/ RedisHandler(s)) /\ UNCHANGED stopVars

ClientStep ==
    /\ \/ \E u \in User : Ref(u)
       \/ \E l \in Login, c \in Conn, u \in User : LoginQuery(l, c, u)
       \/ \E c \in Conn, m \in Msg : AckMessage(c, m)
       \/ \E c \in Conn : Disconnect(c)
    /\ UNCHANGED stopVars

Next ==
    \/ ClientStep
    \/ \E m \in Msg, s \in Server, u \in User, ok \in BOOLEAN : Store(m, s, u, ok)
    \/ \E l \in Login : LoginStep(l)
    \/ \E c \in Conn : CloseStep(c)
    \/ \E m \in Msg : MessageStep(m)
    \/ \E s \in Server : SubLoopStep(s) \/ \E reached \in BOOLEAN : SigInt(s, reached)
    \* Connections on which nothing has happened may as well be made to the new process
    \/ \E s \in Server : Exit(s, Used(s)) \/ Die(s, Used(s))
    \/ \E s \in Server : SubLoopEnds(s)

Spec == Init /\ [][Next]_vars

\* Handlers that have begun go on, waits of 3 s end, subLoop runs its commands and
\* callbacks, exit comes to its end.  Nothing is assumed of clients, nor of ReadReply:
\* poll does not see what redisCommand has left in the buffer of hiredis
Fairness ==
    /\ \A l \in Login : WF_vars(LoginStep(l))
    /\ \A c \in Conn : WF_vars(CloseStep(c))
    /\ \A m \in Msg : WF_vars(MessageStep(m))
    /\ \A s \in Server : WF_vars(SubLoopStep(s) /\ RunCommand(s))
    /\ \A s \in Server : WF_vars(SubLoopStep(s) /\ RedisHandler(s))
    /\ \A s \in Server : WF_vars(Exit(s, Used(s)))

LiveSpec == Spec /\ Fairness

-----------------------------------------------------------------------------
(* Properties *)

\* Every variable has its type; _connMutex is held across a wait only by the clientColse
\* of a connection of that server.
TypeOK ==
    /\ userState \in [User -> {"none", "offline", "online"}]
    /\ status \in [Msg -> {"none", "unread", "read", "failed"}]
    /\ login \in [Login -> [pc : {"none", "checked", "mapped", "subscribing", "subscribed",
                                  "online", "done", "killed"},
                            conn : Conn \cup {None}, user : User \cup {None}]]
    /\ msg \in [Msg -> [pc : {"none", "stored", "missed", "publishing", "done", "killed"},
                        at : Server \cup {None}, to : User \cup {None}]]
    /\ conn \in [Conn -> {"open", "closed", "unsubscribing", "unsubscribed", "gone", "dead"}]
    /\ leaving \in [Conn -> User \cup {None}]
    /\ userIdConn \in [Server -> [User -> Conn \cup {None}]]
    /\ \A s \in Server : connMutex[s] # None =>
           ServerOf[connMutex[s]] = s /\ conn[connMutex[s]] = "unsubscribing"
    /\ cmdQueue \in [Server -> Seq(Cmd)]
    /\ channels \in [Server -> SUBSET User]
    /\ replies \in [Server -> Seq(Push \cup {Confirm})]
    /\ subLoop \in [Server -> Push \cup {Idle, Ended}]
    /\ sent \in [Conn -> SUBSET Msg]
    /\ stopping \subseteq Server

\* A message stored by a server reaches the recipient whose connection that server has,
\* however the steps of onemessage fall between those of login: once every login of the
\* recipient on the connection has ended, it has been sent there.  Until then one of them
\* may still find it in the table.
LocalDelivery ==
    \A m \in Msg : msg[m].pc = "done" /\ status[m] = "unread" =>
        LET u == msg[m].to
            c == userIdConn[msg[m].at][u]
        IN  /\ c # None /\ conn[c] = "open"
            /\ \A l \in Login : login[l].conn = c /\ login[l].user = u => login[l].pc = "done"
            => m \in sent[c]

\* Users who have logged in on a connection
Owners(c) == {login[l].user : l \in {k \in Login : login[k].conn = c}}

Boxes == INSTANCE Mailbox
             WITH to     <- [m \in Msg |-> msg[m].to],
                  seen   <- [m \in Msg |-> {c \in Conn : m \in sent[c]}],
                  owners <- [c \in Conn |-> Owners(c)]

\* Whatever logins, closing connections, Redis, failed statements and ending servers do in
\* between, the servers together are a Mailbox: a message leaves only on connections its
\* recipient has logged in on, is read only after it has left on one, and is never
\* unread again or replaced.
ImplementsMailbox == Boxes!Spec

\* Commands waiting for subLoop of s that concern u
Pending(s, u) == {k \in DOMAIN cmdQueue[s] : cmdQueue[s][k].channel = u}

\* A server whose subLoop works is subscribed, or about to be, to every user it has a
\* connection for once login has asked for it: no unsubscribe of an earlier session of
\* the same user gets in after it.
MappedSubscribed ==
    \A s \in Server, u \in User :
        /\ subLoop[s] # Ended /\ userIdConn[s][u] # None
        /\ \A l \in Login : login[l].user = u /\ login[l].conn = userIdConn[s][u] =>
                login[l].pc \in {"subscribing", "subscribed", "online", "done"}
        => IF Pending(s, u) = {} THEN u \in channels[s]
           ELSE cmdQueue[s][Max(Pending(s, u))].type = "SUBSCRIBE"

\* clientColse and subLoop may wait for each other, one holding _connMutex and waiting for
\* its command, the other in a callback that needs _connMutex.  Every handler that has
\* begun comes to its end all the same, provided Redis answers what it is sent: again and
\* again none is under way.
HandlersFinish ==
    []<>(/\ \A c \in Conn : conn[c] \in {"open", "gone", "dead"}
         /\ \A l \in Login : login[l].pc \in {"none", "done", "killed"}
         /\ \A m \in Msg : msg[m].pc \in {"none", "done", "killed"})

\* A server whose handlerfun has reached the database after SIGINT ends: what exit waits
\* for does not wait for ever, although it joins a thread that may need a mutex another
\* thread keeps.  (Without the database the signal has no effect.)
ShutdownCompletes == \A s \in Server : s \in stopping ~> s \notin stopping

\* "Already logged in, logging in twice is not allowed" (login): a user has one session.
\* The check of the state and the update are two statements, so two logins may both pass.
SingleSession ==
    \A k, l \in Login :
        /\ login[k].pc = "done" /\ conn[login[k].conn] = "open"
        /\ login[l].pc = "done" /\ conn[login[l].conn] = "open"
        /\ login[k].user = login[l].user
        => k = l

\* login refuses a user whose state is online with "already logged in": once no handler is
\* at work, such a user has a connection.  A connection that closes while its login runs
\* leaves the state online and nobody to reset it.
OnlineMeansConnected ==
    /\ \A c \in Conn : conn[c] \in {"open", "gone", "dead"}
    /\ \A l \in Login : login[l].pc \in {"none", "done"}
    => \A u \in User : userState[u] = "online" =>
           \E l \in Login : login[l].user = u /\ conn[login[l].conn] = "open"

\* The comment in Main.cpp says Ctrl+C closes the server and changes the state of the
\* users: when a server has ended so, no user it had logged in is left online.  A login
\* that is on its way when handlerfun runs sets the state again.
StoppedLeavesOffline ==
    [][\A s \in stopping \ stopping', l \in Login :
           login[l].conn \in Here(s) => userState'[login[l].user] # "online"]_vars

\* A user with a session in place is online for everybody else, or messages from other
\* servers pass it by.  SIGINT on any server takes that away from the sessions of all others.
ConnectedMeansOnline ==
    \A l \in Login :
        stopping = {} /\ login[l].pc = "done" /\ conn[login[l].conn] = "open"
        => userState[login[l].user] = "online"

=============================================================================
