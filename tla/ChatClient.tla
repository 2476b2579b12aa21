----------------------------- MODULE ChatClient -----------------------------
(***************************************************************************)
(* The chat system from end to end: chat_client, with its main thread and  *)
(* its receiving thread, the byte streams to and from a server,            *)
(* ChatServer::onMessage with the hand-over to the thread pool, and the    *)
(* handlers of module ChatService.                                         *)
(*                                                                         *)
(* A client has one connection and the same name here.  The stream towards *)
(* the client is cut into objects by extractJsonObjects (module Framing),  *)
(* which falls out of step when a string ends in a backslash; the one      *)
(* towards the server is not cut: a read that does not hold exactly one    *)
(* object ends the server.  The tasks of the pool run in any order.        *)
(***************************************************************************)
EXTENDS ChatService

S == INSTANCE SequencesExt

CONSTANTS
    Backslashed,  \* the messages whose text, and users whose name, ends in a backslash
    MaxInputs,    \* bound: requests a user makes through the menus of a client, and
                  \* messages, together
    MaxDrops      \* bound: tasks the full pool refuses

ASSUME ClientAssumption ==
    /\ MaxInputs \in Nat /\ MaxDrops \in Nat
    /\ IsFiniteSet(Msg)
    /\ Backslashed \subseteq Msg \cup User /\ None \notin Backslashed

VARIABLES
    client,  \* the global variables of each client, where its threads are, and whether
             \* extractJsonObjects takes the inside of strings for the outside
    up,      \* requests written to a connection and not read by the server
    tasks,   \* requests handed to the thread pool and not begun
    down,    \* replies written to a connection and not read by the client
    shown,   \* messages a client has displayed
    drops    \* bound

clientVars == <<client, up, tasks, down, shown, drops>>
allVars == <<vars, client, up, tasks, down, shown, drops>>

LoginAck(ok, u) == [type |-> "LOGIN_ACK", ok |-> ok, name |-> u]
RefAck       == [type |-> "REF_ACK"]
OneMessage(m) == [type |-> "ONE_MESSAGE", msg |-> m]

Started == [main |-> "menu", recv |-> "running", running |-> TRUE, loggedIn |-> FALSE,
            myId |-> None, arrived |-> FALSE, garbled |-> FALSE, requests |-> 0]

ClientInit ==
    /\ Init
    /\ client = [c \in Conn |-> Started]
    /\ up = [c \in Conn |-> <<>>]
    /\ tasks = {}
    /\ down = [c \in Conn |-> <<>>]
    /\ shown = [c \in Conn |-> {}]
    /\ drops = 0

-----------------------------------------------------------------------------
(* The main thread of a client *)

\* sendJson: nothing arrives on a connection that is down
SendJson(c, q) == up' = IF conn[c] = "open" /\ client[c].main # "closing"
                        THEN [up EXCEPT ![c] = Append(@, q)] ELSE up

\* In getline
AtMenu(c) == client[c].main = "menu"

\* The loop goes round, unless g_running has become false
Round(c) == [client EXCEPT ![c].main = IF client[c].running THEN "menu" ELSE "closing"]

\* Each message is written once
Fresh(m) ==
    LET about == {t.req : t \in tasks} \cup UNION {{up[c][k] : k \in DOMAIN up[c]} : c \in Conn}
    IN  msg[m].pc = "none" /\ \A q \in about : q.type = "ONE_MESSAGE" => q.msg # m

Inputs(c) == client[c].requests + Cardinality({m \in Msg : ~Fresh(m)})

\* Entry 1 or 2 of the first menu, and two more lines of input to come
Choose(c, entry) ==
    /\ AtMenu(c) /\ ~client[c].loggedIn
    /\ Inputs(c) < MaxInputs
    /\ client' = [client EXCEPT ![c].main = entry, ![c].requests = @ + 1]
    /\ UNCHANGED vars /\ UNCHANGED <<up, tasks, down, shown, drops>>

\* ... then the request, numbered, and the wait for its response.  Whether the client has
\* been logged in meanwhile is not looked at
Ask(c, entry, q, id) ==
    /\ client[c].main = entry
    /\ SendJson(c, q)
    /\ client' = [client EXCEPT ![c].main = "waiting", ![c].myId = id]
    /\ UNCHANGED vars /\ UNCHANGED <<tasks, down, shown, drops>>

AskLogin(c, u) ==
    Ask(c, "login", [type |-> "LOGIN", user |-> u, n |-> client[c].requests], u)

AskRegister(c) ==
    Ask(c, "register", [type |-> "REF", n |-> client[c].requests], client[c].myId)

AskSend(c, m, u) ==
    /\ AtMenu(c) /\ client[c].loggedIn
    /\ Fresh(m) /\ Inputs(c) < MaxInputs
    /\ SendJson(c, [type |-> "ONE_MESSAGE", msg |-> m, to |-> u])
    /\ client' = Round(c)
    /\ UNCHANGED vars /\ UNCHANGED <<tasks, down, shown, drops>>

\* waitForResponse ends with a response, any response, or after 5 s
WaitEnds(c, timeout) ==
    /\ client[c].main = "waiting"
    /\ timeout \/ client[c].arrived
    /\ client' = [Round(c) EXCEPT ![c].arrived = FALSE]
    /\ UNCHANGED vars /\ UNCHANGED <<up, tasks, down, shown, drops>>

\* Menu entry 7: the server is not told
LogOut(c) ==
    /\ AtMenu(c) /\ client[c].loggedIn
    /\ client' = [Round(c) EXCEPT ![c].loggedIn = FALSE, ![c].myId = None]
    /\ UNCHANGED vars /\ UNCHANGED <<up, tasks, down, shown, drops>>

\* Menu entry 3, or the end of the input; shutdown and close
Leave(c) ==
    /\ AtMenu(c)
    /\ client' = [client EXCEPT ![c].main = "closing", ![c].running = FALSE]
    /\ UNCHANGED vars /\ UNCHANGED <<up, tasks, down, shown, drops>>

\* The process is gone, and its variables with it
Ends(c) ==
    client' = [client EXCEPT ![c] = [Started EXCEPT !.main = "ended", !.recv = "ended",
                                                    !.running = FALSE, !.requests = client[c].requests]]

\* shutdown has woken the receiving thread; join
Join(c) ==
    /\ client[c].main = "closing" /\ client[c].recv = "ended"
    /\ Ends(c)
    /\ UNCHANGED vars /\ UNCHANGED <<up, tasks, down, shown, drops>>

-----------------------------------------------------------------------------
(* The receiving thread of a client *)

\* Mutant: a message is acknowledged without being displayed
Show_Nothing(c, m) == shown' = shown

\* showMessage, up to the acknowledgement
Show(c, m) == shown' = [shown EXCEPT ![c] = @ \cup {m}]

\* Mutant: a message is displayed and not acknowledged
SendAck_Forgotten(c, m) == UNCHANGED up

\* showMessage, the acknowledgement
SendAck(c, m) == SendJson(c, [type |-> "ACK_MESSAGE", msg |-> m])

\* Mutant: every LOGIN_ACK is taken for a success
Accepted_Always(r) == TRUE

\* error = 0
Accepted(r) == r.ok

\* Objects with a text somebody has chosen
HasText(r) == r.type = "ONE_MESSAGE" \/ (r.type = "LOGIN_ACK" /\ r.ok)

\* The quote after a backslash is not taken for the end of the string
Unclosed(r) ==
    \/ r.type = "ONE_MESSAGE" /\ r.msg \in Backslashed
    \/ r.type = "LOGIN_ACK" /\ r.name \in Backslashed

\* One object of what recv has brought
Receive(c) ==
    /\ client[c].recv = "running" /\ down[c] # <<>>
    /\ ~client[c].garbled
    /\ LET r == Head(down[c]) IN
       /\ ~Unclosed(r)
       /\ \/ /\ r.type = "LOGIN_ACK"
             /\ client' = [client EXCEPT ![c].arrived = TRUE, ![c].loggedIn = @ \/ Accepted(r)]
             /\ UNCHANGED <<up, shown>>
          \/ /\ r.type = "REF_ACK"
             /\ client' = [client EXCEPT ![c].arrived = TRUE]
             /\ UNCHANGED <<up, shown>>
          \/ /\ r.type = "ONE_MESSAGE"
             /\ Show(c, r.msg)
             /\ SendAck(c, r.msg)
             /\ UNCHANGED client
    /\ down' = [down EXCEPT ![c] = Tail(@)]
    /\ UNCHANGED vars /\ UNCHANGED <<tasks, drops>>

\* An object that is not closed swallows those that follow.  The braces and the end of a
\* later text, which now counts as outside of strings, may bring the scanner into step again
Swallow(c) ==
    /\ client[c].recv = "running" /\ down[c] # <<>>
    /\ LET r == Head(down[c]) IN
       /\ client[c].garbled \/ Unclosed(r)
       /\ \E g \in IF client[c].garbled /\ HasText(r) THEN BOOLEAN ELSE {TRUE} :
             client' = [client EXCEPT ![c].garbled = g]
    /\ down' = [down EXCEPT ![c] = Tail(@)]
    /\ UNCHANGED vars /\ UNCHANGED <<up, tasks, shown, drops>>

\* recv returns 0 or an error, or g_running is false: wake the main thread, end
ReceiveEnds(c) ==
    /\ client[c].recv = "running"
    /\ client[c].main = "closing" \/ (conn[c] # "open" /\ down[c] = <<>>)
    /\ client' = [client EXCEPT ![c].recv = "ended", ![c].running = FALSE, ![c].arrived = TRUE]
    /\ UNCHANGED vars /\ UNCHANGED <<up, tasks, down, shown, drops>>

\* An exception leaves a thread of the client and ends it: stoi of a line that is no
\* number, or an object without msgtype that was cut out of a text
Abort(c) ==
    /\ \/ client[c].main = "login" \/ (AtMenu(c) /\ client[c].loggedIn)
       \/ client[c].recv = "running" /\ client[c].garbled /\ down[c] # <<>> /\ HasText(Head(down[c]))
    /\ Ends(c)
    /\ UNCHANGED vars /\ UNCHANGED <<up, tasks, down, shown, drops>>

-----------------------------------------------------------------------------
(* ChatServer::onMessage and the pool *)

\* A read that holds exactly one request: it becomes a task
OnMessage(c) ==
    /\ up[c] # <<>> /\ conn[c] = "open"
    /\ tasks' = tasks \cup {[conn |-> c, req |-> Head(up[c])]}
    /\ up' = [up EXCEPT ![c] = Tail(@)]
    /\ UNCHANGED vars /\ UNCHANGED <<client, down, shown, drops>>

\* The pool has been full for a second
Dropped(c) ==
    /\ up[c] # <<>> /\ conn[c] = "open"
    /\ drops < MaxDrops
    /\ drops' = drops + 1
    /\ up' = [up EXCEPT ![c] = Tail(@)]
    /\ UNCHANGED vars /\ UNCHANGED <<client, tasks, down, shown>>

\* What the end of a process takes with it
Lose(s) ==
    /\ up' = [c \in Conn |-> IF c \in Here(s) THEN <<>> ELSE up[c]]
    /\ tasks' = {t \in tasks : t.conn \notin Here(s)}
    /\ UNCHANGED <<client, down, shown, drops>>

\* A read that holds part of a request, or several: json::parse throws
BadRead(c) ==
    /\ up[c] # <<>> /\ conn[c] = "open"
    /\ Die(ServerOf[c], Here(ServerOf[c])) /\ Lose(ServerOf[c])

\* The server reads the end of the stream; what is left in it may be lost
ClientGone(c) ==
    /\ client[c].main \in {"closing", "ended"}
    /\ Disconnect(c) /\ UNCHANGED stopVars
    /\ up' = [up EXCEPT ![c] = <<>>]
    /\ UNCHANGED <<client, tasks, down, shown, drops>>

-----------------------------------------------------------------------------
(* Handlers, with what they write to the client *)

Reply(c, rs) == IF conn[c] = "open" THEN [down EXCEPT ![c] = @ \o rs] ELSE down

Unused(l) == login[l].pc = "none"

\* login begins, or is refused: the account does not exist or is not offline, or the
\* password is wrong
RunLogin(t) ==
    /\ t.req.type = "LOGIN"
    /\ \/ /\ \E l \in Login : Unused(l)
          /\ LoginQuery(CHOOSE l \in Login : Unused(l), t.conn, t.req.user)
          /\ UNCHANGED stopVars /\ UNCHANGED down
       \/ /\ down' = Reply(t.conn, <<LoginAck(FALSE, None)>>)
          /\ UNCHANGED vars

\* The INSERT may fail; the client only tells its user
RunRef(t) ==
    /\ t.req.type = "REF"
    /\ \/ (\E u \in User : Ref(u)) /\ UNCHANGED stopVars
       \/ UNCHANGED vars
    /\ down' = Reply(t.conn, <<RefAck>>)

RunMessage(t, ok) ==
    /\ t.req.type = "ONE_MESSAGE"
    /\ Store(t.req.msg, ServerOf[t.conn], t.req.to, ok)
    /\ UNCHANGED down

\* UPDATE ... WHERE msgid: no row if the INSERT had failed
Acknowledges(t, m) == m = t.req.msg /\ status[m] = "unread"

RunAck(t) ==
    /\ t.req.type = "ACK_MESSAGE"
    /\ status' = [m \in Msg |-> IF Acknowledges(t, m) THEN "read" ELSE status[m]]
    /\ UNCHANGED <<msg, sent>> /\ UNCHANGED sessionVars
    /\ UNCHANGED redisVars /\ UNCHANGED stopVars /\ UNCHANGED down

\* A thread of the pool takes a task.  The first step of the handler follows
RunTask(t) ==
    /\ \/ RunLogin(t)
       \/ RunRef(t)
       \/ \E ok \in BOOLEAN : RunMessage(t, ok)
       \/ RunAck(t)
    /\ tasks' = tasks \ {t}
    /\ UNCHANGED <<client, up, shown, drops>>

\* login goes on: the LOGIN_ACK follows updateStates, then the offline messages
ServeLogin(l) ==
    /\ LoginStep(l)
    /\ LET c == login[l].conn IN
       down' = CASE login[l].pc = "subscribed" -> Reply(c, <<LoginAck(TRUE, login[l].user)>>)
                 [] login[l].pc = "online" ->
                      Reply(c, [k \in 1 .. Cardinality(Unread(login[l].user)) |->
                                   OneMessage(S!SetToSeq(Unread(login[l].user))[k])])
                 [] OTHER -> down
    /\ UNCHANGED <<client, up, tasks, shown, drops>>

\* onemessage and redisHandler write to the connection they find
Forward(c, m) == down' = IF c = None THEN down ELSE Reply(c, <<OneMessage(m)>>)

ServeMessage(m) ==
    /\ MessageStep(m)
    /\ IF msg[m].pc = "stored" THEN Forward(userIdConn[msg[m].at][msg[m].to], m)
                               ELSE UNCHANGED down
    /\ UNCHANGED <<client, up, tasks, shown, drops>>

ServeRedis(s) ==
    /\ SubLoopStep(s)
    /\ IF subLoop[s].type = "message" THEN Forward(userIdConn[s][subLoop[s].channel], subLoop[s].msg)
                                      ELSE UNCHANGED down
    /\ UNCHANGED <<client, up, tasks, shown, drops>>

-----------------------------------------------------------------------------

MainStep(c) ==
    \/ \E entry \in {"login", "register"} : Choose(c, entry)
    \/ \E u \in User : AskLogin(c, u)
    \/ AskRegister(c)
    \/ \E m \in Msg, u \in User : AskSend(c, m, u)
    \/ LogOut(c)
    \/ Leave(c)

ReceiveStep(c) == Receive(c) \/ Swallow(c) \/ ReceiveEnds(c)

FrontStep(c) == OnMessage(c) \/ ClientGone(c)

ServeClose(c) == CloseStep(c) /\ UNCHANGED clientVars

RedisBreaks(s) == SubLoopEnds(s) /\ UNCHANGED clientVars

Signal(s) == (\E reached \in BOOLEAN : SigInt(s, reached)) /\ UNCHANGED clientVars

ServerExits(s) == Exit(s, Here(s)) /\ Lose(s)

\* A message from somebody whose client is not followed here
OtherSender(m, s, u) ==
    /\ Fresh(m) /\ \A c \in Conn : Inputs(c) < MaxInputs
    /\ Store(m, s, u, TRUE)
    /\ UNCHANGED clientVars

ClientNext ==
    \/ \E c \in Conn :
          \/ MainStep(c) \/ Join(c) \/ Abort(c) \/ \E timeout \in BOOLEAN : WaitEnds(c, timeout)
          \/ ReceiveStep(c)
          \/ FrontStep(c) \/ Dropped(c) \/ BadRead(c)
          \/ ServeClose(c)
    \/ \E t \in tasks : RunTask(t)
    \/ \E l \in Login : ServeLogin(l)
    \/ \E m \in Msg : ServeMessage(m)
    \/ \E m \in Msg, s \in Server, u \in User : OtherSender(m, s, u)
    \/ \E s \in Server : ServeRedis(s) \/ RedisBreaks(s) \/ Signal(s) \/ ServerExits(s)

ClientSpec == ClientInit /\ [][ClientNext]_allVars

\* Threads that can run do, on both sides: waits end, readable connections are read,
\* accepted tasks run (AcceptedTasksRun of module ThreadPool), handlers go on.  Nothing is
\* assumed of what users do
ClientFairness ==
    /\ \A c \in Conn : WF_allVars(WaitEnds(c, TRUE) \/ Join(c))
    /\ \A c \in Conn : WF_allVars(ReceiveStep(c)) /\ WF_allVars(FrontStep(c))
    /\ \A c \in Conn : WF_allVars(ServeClose(c))
    /\ WF_allVars(\E t \in tasks : RunTask(t))
    /\ \A l \in Login : WF_allVars(ServeLogin(l))
    /\ \A m \in Msg : WF_allVars(ServeMessage(m))
    /\ \A s \in Server : WF_allVars(ServeRedis(s) /\ (RunCommand(s) \/ RedisHandler(s)))
    /\ \A s \in Server : WF_allVars(ServerExits(s))

ClientLiveSpec == ClientSpec /\ ClientFairness

-----------------------------------------------------------------------------
(* Properties *)

\* A message the table calls read has been displayed, by a client its recipient has logged
\* in with: no acknowledgement, however late and in whatever order the pool runs the tasks,
\* marks a message nobody has seen.
ReadIsShown ==
    \A m \in Msg : status[m] = "read" =>
        \E c \in Conn : m \in shown[c] /\ msg[m].to \in Owners(c)

\* A client shows the main menu only after a server has accepted a login on its
\* connection, whichever response ended which wait.
MenuMeansSession ==
    \A c \in Conn : client[c].loggedIn =>
        \E l \in Login : login[l].conn = c /\ login[l].pc \in {"online", "done", "killed"}

\* Nothing that would log somebody in is under way for c
Settled(c) ==
    /\ \A l \in Login : login[l].conn = c => login[l].pc = "done"
    /\ \A t \in tasks : t.conn = c => t.req.type # "LOGIN"
    /\ \A k \in DOMAIN up[c] : up[c][k].type # "LOGIN"

\* A user who leaves with the main menu before them ends up offline, and can log in again,
\* provided no other login of theirs is under way and nothing fails (no INSERT, no
\* connection to Redis, no server): the receiving thread lets the main thread go, the
\* server sees the connection close, and clientColse gets through its wait.
LeavingGoesOffline ==
    \A c \in Conn :
        /\ client[c].main = "closing" /\ client[c].loggedIn /\ Settled(c)
        /\ Cardinality(Owners(c)) = 1 /\ conn[c] = "open"
        ~> \/ client[c].main = "ended" /\ \A u \in Owners(c) : userState[u] = "offline"
           \/ faults > 0
           \/ \E l \in Login : login[l].conn # c /\ login[l].user \in Owners(c)

\* A message that has been written to a connection becomes read, unless the client is left
\* or the server ends first, or the pool refuses a task, or a text on that connection, the
\* name of its user included, ends in a backslash: display, acknowledgement and update
\* follow by themselves.
SentIsRead ==
    \A c \in Conn, m \in Msg :
        m \in sent[c] /\ status[m] = "unread"
        ~> \/ status[m] = "read"
           \/ client[c].main \in {"closing", "ended"} \/ conn[c] # "open" \/ drops > 0
           \/ (sent[c] \cup Owners(c)) \cap Backslashed # {}

-----------------------------------------------------------------------------
(* What the menus say, and the code does not do *)

\* The client sends messages as g_myId, the account it is logged in with: while the main
\* menu is up, a login for that account has been accepted on the connection.  A LOGIN_ACK
\* that comes after the 5 s of its own request belongs to another account than the last
\* one asked for.
SendsAsLoggedIn ==
    \A c \in Conn : client[c].loggedIn /\ client[c].main = "menu" =>
        client[c].myId \in Owners(c)

\* Menu entry 7 is called "log out", and menu entry 1 logs in again: once a client is
\* logged out the account does not stay online.
LogOutGoesOffline ==
    \A c \in Conn, u \in User :
        client[c].main = "menu" /\ ~client[c].loggedIn /\ Owners(c) = {u} /\ Settled(c)
            /\ down[c] = <<>>
        ~> userState[u] = "offline" \/ client[c].loggedIn

=============================================================================
