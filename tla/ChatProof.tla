----------------------------- MODULE ChatProof ------------------------------
(***************************************************************************)
(* The chat system, for every number of users, connections, logins,        *)
(* servers, requests, messages and faults.  In the first half the servers  *)
(* of module ChatService: a server stays subscribed to the users it has    *)
(* connections for, a message is not lost between onemessage and login,    *)
(* and the servers together are a Mailbox.  In the second half module      *)
(* ChatClient: with clients, streams and the pool before them the servers  *)
(* are still a Mailbox, a client shows the main menu only after an         *)
(* accepted login, and a message is called read only after it has been     *)
(* displayed to its recipient.                                             *)
(*                                                                         *)
(* None of these is inductive by itself.  What carries those of the        *)
(* servers is what holds while a handler is on its way: a mapped user      *)
(* without a subscription has a login between its entry into _userIdConn   *)
(* and its subscribe, and a message that was looked up in vain has a login *)
(* that will still read the table.  What carries those of the clients is   *)
(* what may be on its way: an acknowledgement only of a message its client *)
(* has displayed, a LOGIN_ACK without error only after an accepted login,  *)
(* a message only after it has been written.                               *)
(***************************************************************************)
EXTENDS ChatClient, FiniteSetTheorems, TLAPS

-----------------------------------------------------------------------------
(* Types, variable by variable *)

LoginPc == {"none", "checked", "mapped", "subscribing", "subscribed", "online", "done", "killed"}
MsgPc == {"none", "stored", "missed", "publishing", "done", "killed"}
ConnState == {"open", "closed", "unsubscribing", "unsubscribed", "gone", "dead"}

UserT == userState \in [User -> {"none", "offline", "online"}]
StatusT == status \in [Msg -> {"none", "unread", "read", "failed"}]
LoginT == login \in [Login -> [pc : LoginPc, conn : Conn \cup {None}, user : User \cup {None}]]
MsgT == msg \in [Msg -> [pc : MsgPc, at : Server \cup {None}, to : User \cup {None}]]
ConnT == conn \in [Conn -> ConnState]
LeavingT == leaving \in [Conn -> User \cup {None}]
MapT == userIdConn \in [Server -> [User -> Conn \cup {None}]]
MutexT ==
    /\ connMutex \in [Server -> Conn \cup {None}]
    /\ \A s \in Server : connMutex[s] # None =>
           ServerOf[connMutex[s]] = s /\ conn[connMutex[s]] = "unsubscribing"
QueueT == cmdQueue \in [Server -> Seq(Cmd)]
ChannelT == channels \in [Server -> SUBSET User]
ReplyT == replies \in [Server -> Seq(Push \cup {Confirm})]
LoopT == subLoop \in [Server -> Push \cup {Idle, Ended}]
SentT == sent \in [Conn -> SUBSET Msg]

Types ==
    /\ UserT /\ StatusT /\ LoginT /\ MsgT /\ ConnT /\ LeavingT /\ MapT /\ MutexT
    /\ QueueT /\ ChannelT /\ ReplyT /\ LoopT /\ SentT /\ stopping \subseteq Server

\* What the handlers that have begun know
Handlers ==
    /\ \A l \in Login : IF login[l].pc = "none" THEN login[l].conn = None
                        ELSE login[l].conn \in Conn /\ login[l].user \in User
    /\ \A m \in Msg : IF msg[m].pc = "none" THEN status[m] = "none" /\ msg[m].at = None
                      ELSE status[m] # "none" /\ msg[m].at \in Server /\ msg[m].to \in User
    /\ \A c \in Conn : conn[c] \in {"unsubscribing", "unsubscribed"} => leaving[c] \in User

\* The same, with the types, is the type invariant of the model.
LEMMA TypesOK == Types => TypeOK
  BY DEF Types, UserT, StatusT, LoginT, MsgT, ConnT, LeavingT, MapT, MutexT, QueueT, ChannelT,
         ReplyT, LoopT, SentT, TypeOK, LoginPc, MsgPc, ConnState

\* A record of a handler with another pc.
LEMMA LoginPcMoves ==
    ASSUME LoginT, NEW l \in Login, NEW pc \in LoginPc, LoginAt(l, pc)
    PROVE  /\ LoginT'
           /\ login'[l].pc = pc /\ login'[l].conn = login[l].conn /\ login'[l].user = login[l].user
           /\ \A k \in Login : k # l => login'[k] = login[k]
  BY DEF LoginT, LoginAt

\* The same of onemessage.
LEMMA MsgPcMoves ==
    ASSUME MsgT, NEW m \in Msg, NEW pc \in MsgPc, MsgAt(m, pc)
    PROVE  /\ MsgT'
           /\ msg'[m].pc = pc /\ msg'[m].at = msg[m].at /\ msg'[m].to = msg[m].to
           /\ \A k \in Msg : k # m => msg'[k] = msg[k]
  BY DEF MsgT, MsgAt

\* What is written is written to connections, and nothing written is taken back.
LEMMA WrittenGrows ==
    ASSUME SentT, NEW c \in Conn, NEW M \in SUBSET Msg
    PROVE  /\ Written(c, M) \in [Conn -> SUBSET Msg]
           /\ \A d \in Conn : sent[d] \subseteq Written(c, M)[d]
           /\ conn[c] = "open" => Written(c, M)[c] = sent[c] \cup M
           /\ conn[c] # "open" => Written(c, M) = sent
           /\ \A d \in Conn : d # c => Written(c, M)[d] = sent[d]
  BY DEF SentT, Written

\* A connection moves on: whoever holds a mutex is not concerned.
LEMMA ConnMoves ==
    ASSUME ConnT, MutexT, NEW c \in Conn, NEW pc \in ConnState, conn[c] # "unsubscribing",
           conn' = [conn EXCEPT ![c] = pc], UNCHANGED connMutex
    PROVE  ConnT' /\ MutexT'
<1>1. ConnT'
  BY DEF ConnT
<1>2. \A s \in Server : connMutex[s] # None => connMutex[s] # c /\ connMutex[s] \in Conn
  BY DEF MutexT
<1>3. \A s \in Server : connMutex[s] # None => conn'[connMutex[s]] = conn[connMutex[s]]
  BY <1>2 DEF ConnT
<1>4. MutexT'
  BY <1>2, <1>3 DEF MutexT
<1> QED
  BY <1>1, <1>4

\* A server process is started with everything of its predecessor in memory gone.
LEMMA NewProcessTypes ==
    ASSUME Types, NEW s \in Server, NEW old, old \subseteq Here(s), NewProcess(s, old)
    PROVE  Types'
<1> USE DEF NewProcess
<1>1. LoginT'
  BY DEF Types, LoginT, LoginPc
<1>2. MsgT'
  BY DEF Types, MsgT, MsgPc
<1>3. ConnT'
  BY DEF Types, ConnT, ConnState
<1>4. LeavingT'
  BY DEF Types, LeavingT
<1>5. MapT'
  BY DEF Types, MapT
<1>6. MutexT'
  <2>1. connMutex' \in [Server -> Conn \cup {None}] /\ connMutex'[s] = None
    BY DEF Types, MutexT
  <2>2. ASSUME NEW r \in Server, connMutex'[r] # None
        PROVE  ServerOf[connMutex'[r]] = r /\ conn'[connMutex'[r]] = "unsubscribing"
    <3>1. r # s /\ connMutex'[r] = connMutex[r] /\ connMutex[r] \in Conn
      BY <2>1, <2>2 DEF Types, MutexT
    <3>2. ServerOf[connMutex[r]] = r /\ conn[connMutex[r]] = "unsubscribing"
      BY <2>2, <3>1 DEF Types, MutexT
    <3>3. connMutex[r] \notin old
      BY <3>1, <3>2 DEF Here
    <3> QED
      BY <3>1, <3>2, <3>3
  <2> QED
    BY <2>1, <2>2 DEF MutexT
<1>7. QueueT'
  BY DEF Types, QueueT
<1>8. ChannelT'
  BY DEF Types, ChannelT
<1>9. ReplyT'
  BY DEF Types, ReplyT
<1>10. LoopT'
  BY DEF Types, LoopT
<1>11. UserT' /\ StatusT' /\ SentT' /\ (stopping \subseteq Server)'
  BY DEF Types, UserT, StatusT, SentT
<1> QED
  BY <1>1, <1>2, <1>3, <1>4, <1>5, <1>6, <1>7, <1>8, <1>9, <1>10, <1>11 DEF Types

\* A variable that is left alone keeps its type.
LEMMA TypesFrame ==
    ASSUME Types
    PROVE  /\ userState' = userState => UserT'
           /\ status' = status => StatusT'
           /\ login' = login => LoginT'
           /\ msg' = msg => MsgT'
           /\ conn' = conn => ConnT'
           /\ leaving' = leaving => LeavingT'
           /\ userIdConn' = userIdConn => MapT'
           /\ conn' = conn /\ connMutex' = connMutex => MutexT'
           /\ cmdQueue' = cmdQueue => QueueT'
           /\ channels' = channels => ChannelT'
           /\ replies' = replies => ReplyT'
           /\ subLoop' = subLoop => LoopT'
           /\ sent' = sent => SentT'
           /\ stopping' = stopping => (stopping \subseteq Server)'
  BY DEF Types, UserT, StatusT, LoginT, MsgT, ConnT, LeavingT, MapT, MutexT, QueueT, ChannelT,
         ReplyT, LoopT, SentT

\* subscribe and unsubscribe append a command.
LEMMA EnqueueTypes ==
    ASSUME QueueT, NEW s \in Server, NEW type \in {"SUBSCRIBE", "UNSUBSCRIBE"}, NEW u \in User,
           NEW by \in Conn \cup Login, Enqueue(s, type, u, by)
    PROVE  /\ QueueT'
           /\ cmdQueue'[s] = Append(cmdQueue[s], [type |-> type, channel |-> u, by |-> by])
           /\ \A r \in Server : r # s => cmdQueue'[r] = cmdQueue[r]
<1>1. [type |-> type, channel |-> u, by |-> by] \in Cmd
  BY DEF Cmd
<1> QED
  BY <1>1 DEF QueueT, Enqueue

\* A step of the servers, which may take the connections nobody has used with it or not
\* when a process ends.
Steps == Next \/ \E s \in Server : Exit(s, Here(s)) \/ Die(s, Here(s))

\* Every handler keeps the types.
LEMMA TypesStep == ASSUME Types, Handlers, [Steps]_vars PROVE Types'
<1> USE ChatAssumption
<1> USE DEF sessionVars, messageVars, redisVars, stopVars
<1>0. /\ \A l \in Login : login[l].pc # "none" => /\ login[l].conn \in Conn /\ login[l].user \in User
                                                  /\ ServerOfLogin(l) \in Server
      /\ \A m \in Msg : msg[m].pc # "none" => msg[m].at \in Server /\ msg[m].to \in User
  BY DEF Handlers, ServerOfLogin
<1>1. ASSUME NEW u \in User, Ref(u), UNCHANGED stopVars PROVE Types'
  <2>1. UserT'
    BY <1>1 DEF Ref, Types, UserT
  <2> QED
    BY <1>1, <2>1, TypesFrame DEF Ref, Types
<1>2. ASSUME NEW l \in Login, NEW c \in Conn, NEW u \in User, LoginQuery(l, c, u), UNCHANGED stopVars
      PROVE  Types'
  <2>1. LoginT'
    BY <1>2 DEF LoginQuery, Types, LoginT, LoginPc
  <2> QED
    BY <1>2, <2>1, TypesFrame DEF LoginQuery, Types
<1>3. ASSUME NEW l \in Login, LoginMap(l), UNCHANGED stopVars PROVE Types'
  <2>1. LoginT'
    BY <1>3, LoginPcMoves DEF LoginMap, Types, LoginPc
  <2>2. MapT'
    BY <1>0, <1>3 DEF LoginMap, Types, MapT
  <2> QED
    BY <1>3, <2>1, <2>2, TypesFrame DEF LoginMap, Types
<1>4. ASSUME NEW l \in Login, LoginSubscribe(l), UNCHANGED stopVars PROVE Types'
  <2>1. LoginT'
    BY <1>4, LoginPcMoves DEF LoginSubscribe, Types, LoginPc
  <2>2. QueueT'
    BY <1>0, <1>4, EnqueueTypes DEF LoginSubscribe, Types
  <2> QED
    BY <1>4, <2>1, <2>2, TypesFrame DEF LoginSubscribe, Types
<1>5. ASSUME NEW l \in Login, NEW timeout \in BOOLEAN, SubscribeReturns(l, timeout), UNCHANGED stopVars
      PROVE  Types'
  <2>1. LoginT'
    BY <1>5, LoginPcMoves DEF SubscribeReturns, Types, LoginPc
  <2> QED
    BY <1>5, <2>1, TypesFrame DEF SubscribeReturns, Types
<1>6. ASSUME NEW l \in Login, LoginOnline(l), UNCHANGED stopVars PROVE Types'
  <2>1. LoginT'
    BY <1>6, LoginPcMoves DEF LoginOnline, Types, LoginPc
  <2>2. UserT'
    BY <1>6 DEF LoginOnline, Types, UserT
  <2> QED
    BY <1>6, <2>1, <2>2, TypesFrame DEF LoginOnline, Types
<1>7. ASSUME NEW l \in Login, LoginOffline(l), UNCHANGED stopVars PROVE Types'
  <2>1. LoginT'
    BY <1>7, LoginPcMoves DEF LoginOffline, Types, LoginPc
  <2>2. Unread(login[l].user) \in SUBSET Msg
    BY DEF Unread
  <2>3. SentT'
    BY <1>0, <1>7, <2>2, WrittenGrows DEF LoginOffline, Types, SentT
  <2> QED
    BY <1>7, <2>1, <2>3, TypesFrame DEF LoginOffline, Types
<1>8. ASSUME NEW m \in Msg, NEW s \in Server, NEW u \in User, NEW ok \in BOOLEAN, Store(m, s, u, ok)
      PROVE  Types'
  <2>1. MsgT'
    BY <1>8 DEF Store, Types, MsgT, MsgPc
  <2>2. StatusT'
    BY <1>8 DEF Store, Types, StatusT
  <2> QED
    BY <1>8, <2>1, <2>2, TypesFrame DEF Store, Types
<1>9. ASSUME NEW m \in Msg, Lookup(m), UNCHANGED stopVars PROVE Types'
  <2> DEFINE c == userIdConn[msg[m].at][msg[m].to]
  <2>1. MsgT'
    BY <1>9, MsgPcMoves DEF Lookup, Types, MsgPc
  <2>2. c \in Conn \cup {None}
    BY <1>0, <1>9 DEF Lookup, Types, MapT
  <2>3. SentT'
    <3>1. CASE c = None
      BY <1>9, <3>1 DEF Lookup, Types, SentT
    <3>2. CASE c \in Conn
      <4>1. sent' = Written(c, {m})
        BY <1>9, <3>2 DEF Lookup
      <4> QED
        BY <3>2, <4>1, WrittenGrows DEF Types, SentT
    <3> QED
      BY <2>2, <3>1, <3>2
  <2> QED
    BY <1>9, <2>1, <2>3, TypesFrame DEF Lookup, Types
<1>10. ASSUME NEW m \in Msg, QueryState(m), UNCHANGED stopVars PROVE Types'
  <2>1. MsgT'
    BY <1>10, MsgPcMoves DEF QueryState, Types, MsgPc
  <2> QED
    BY <1>10, <2>1, TypesFrame DEF QueryState, Types
<1>11. ASSUME NEW m \in Msg, Publish(m), UNCHANGED stopVars PROVE Types'
  <2>1. MsgT'
    BY <1>11, MsgPcMoves DEF Publish, Types, MsgPc
  <2>2. [type |-> "message", channel |-> msg[m].to, msg |-> m] \in Push
    BY <1>0, <1>11 DEF Publish, Push
  <2>3. ReplyT'
    BY <1>11, <2>2 DEF Publish, Types, ReplyT
  <2> QED
    BY <1>11, <2>1, <2>3, TypesFrame DEF Publish, Types
<1>12. ASSUME NEW c \in Conn, NEW m \in Msg, AckMessage(c, m), UNCHANGED stopVars PROVE Types'
  <2>1. StatusT'
    BY <1>12 DEF AckMessage, Types, StatusT
  <2> QED
    BY <1>12, <2>1, TypesFrame DEF AckMessage, Types
<1>13. ASSUME NEW c \in Conn, Disconnect(c) \/ CloseUnknown(c), UNCHANGED stopVars PROVE Types'
  <2>1. ConnT' /\ MutexT'
    BY <1>13, ConnMoves DEF Disconnect, CloseUnknown, Types, ConnState
  <2> QED
    BY <1>13, <2>1, TypesFrame DEF Disconnect, CloseUnknown, Types
<1>14. ASSUME NEW c \in Conn, Close(c), UNCHANGED stopVars PROVE Types'
  <2> DEFINE s == ServerOf[c]
  <2>1. PICK u \in UsersOn(c) : /\ userIdConn' = [userIdConn EXCEPT ![s][u] = None]
                                /\ leaving' = [leaving EXCEPT ![c] = u]
                                /\ Enqueue(s, "UNSUBSCRIBE", u, c)
    BY <1>14 DEF Close
  <2>2. u \in User /\ s \in Server
    BY DEF UsersOn
  <2>3. MapT'
    BY <2>1, <2>2 DEF Types, MapT
  <2>4. LeavingT'
    BY <2>1, <2>2 DEF Types, LeavingT
  <2>5. QueueT'
    BY <2>1, <2>2, EnqueueTypes DEF Types
  <2>6. conn[c] = "closed" /\ conn' = [conn EXCEPT ![c] = "unsubscribing"] /\ connMutex' = [connMutex EXCEPT ![s] = c]
    BY <1>14 DEF Close
  <2>7. ConnT'
    BY <2>6 DEF Types, ConnT, ConnState
  <2>8. MutexT'
    <3>1. connMutex' \in [Server -> Conn \cup {None}]
      BY <2>2, <2>6 DEF Types, MutexT
    <3>2. ASSUME NEW r \in Server, connMutex'[r] # None
          PROVE  ServerOf[connMutex'[r]] = r /\ conn'[connMutex'[r]] = "unsubscribing"
      <4>1. CASE r = s
        BY <2>2, <2>6, <4>1 DEF Types, MutexT, ConnT
      <4>2. CASE r # s
        <5>1. connMutex'[r] = connMutex[r]
          BY <2>6, <4>2 DEF Types, MutexT
        <5>2. ServerOf[connMutex[r]] = r /\ conn[connMutex[r]] = "unsubscribing" /\ connMutex[r] \in Conn
          BY <3>2, <5>1 DEF Types, MutexT
        <5>3. connMutex[r] # c
          BY <2>6, <5>2
        <5> QED
          BY <2>6, <5>1, <5>2, <5>3 DEF Types, ConnT
      <4> QED
        BY <4>1, <4>2
    <3> QED
      BY <3>1, <3>2 DEF MutexT
  <2> QED
    BY <1>14, <2>3, <2>4, <2>5, <2>7, <2>8, TypesFrame DEF Close, Types
<1>15. ASSUME NEW c \in Conn, NEW timeout \in BOOLEAN, UnsubscribeReturns(c, timeout), UNCHANGED stopVars
       PROVE  Types'
  <2> DEFINE s == ServerOf[c]
  <2>1. s \in Server /\ connMutex' = [connMutex EXCEPT ![s] = None]
        /\ conn[c] = "unsubscribing" /\ conn' = [conn EXCEPT ![c] = "unsubscribed"]
    BY <1>15 DEF UnsubscribeReturns
  <2>2. ConnT'
    BY <2>1 DEF Types, ConnT, ConnState
  <2>3. MutexT'
    <3>1. connMutex' \in [Server -> Conn \cup {None}]
      BY <2>1 DEF Types, MutexT
    <3>2. ASSUME NEW r \in Server, connMutex'[r] # None
          PROVE  ServerOf[connMutex'[r]] = r /\ conn'[connMutex'[r]] = "unsubscribing"
      <4>1. r # s /\ connMutex'[r] = connMutex[r]
        BY <2>1, <3>2 DEF Types, MutexT
      <4>2. ServerOf[connMutex[r]] = r /\ conn[connMutex[r]] = "unsubscribing" /\ connMutex[r] \in Conn
        BY <3>2, <4>1 DEF Types, MutexT
      <4>3. connMutex[r] # c
        BY <4>1, <4>2
      <4> QED
        BY <2>1, <4>1, <4>2, <4>3 DEF Types, ConnT
    <3> QED
      BY <3>1, <3>2 DEF MutexT
  <2> QED
    BY <1>15, <2>2, <2>3, TypesFrame DEF UnsubscribeReturns, Types
<1>16. ASSUME NEW c \in Conn, CloseOffline(c), UNCHANGED stopVars PROVE Types'
  <2>1. ConnT' /\ MutexT'
    BY <1>16, ConnMoves DEF CloseOffline, Types, ConnState
  <2>2. UserT'
    BY <1>16 DEF CloseOffline, Types, UserT
  <2> QED
    BY <1>16, <2>1, <2>2, TypesFrame DEF CloseOffline, Types
<1>17. ASSUME NEW s \in Server, RunCommand(s), UNCHANGED stopVars PROVE Types'
  <2>1. cmdQueue[s] \in Seq(Cmd) /\ cmdQueue[s] # <<>>
    BY <1>17 DEF RunCommand, Types, QueueT
  <2>2. Head(cmdQueue[s]) \in Cmd /\ Tail(cmdQueue[s]) \in Seq(Cmd)
    BY <2>1
  <2>3. Head(cmdQueue[s]).channel \in User
    BY <2>2 DEF Cmd
  <2>4. QueueT'
    BY <1>17, <2>2 DEF RunCommand, Types, QueueT
  <2>5. ChannelT'
    BY <1>17, <2>3 DEF RunCommand, Types, ChannelT
  <2>6. ReplyT'
    <3>1. replies[s] \in Seq(Push \cup {Confirm})
      BY DEF Types, ReplyT
    <3>2. /\ Append(replies[s], Confirm) \in Seq(Push \cup {Confirm})
          /\ Len(Append(replies[s], Confirm)) = Len(replies[s]) + 1 /\ Len(replies[s]) \in Nat
      BY <3>1
    <3>3. \A q \in Seq(Push \cup {Confirm}) : Len(q) >= 1 => Tail(q) \in Seq(Push \cup {Confirm})
      OBVIOUS
    <3>4. Tail(Append(replies[s], Confirm)) \in Seq(Push \cup {Confirm})
      BY <3>2, <3>3
    <3> QED
      BY <1>17, <3>4 DEF RunCommand, Types, ReplyT
  <2> QED
    BY <1>17, <2>4, <2>5, <2>6, TypesFrame DEF RunCommand, Types
<1>18. ASSUME NEW s \in Server, ReadReply(s), UNCHANGED stopVars PROVE Types'
  <2>1. replies[s] \in Seq(Push \cup {Confirm}) /\ replies[s] # <<>>
    BY <1>18 DEF ReadReply, Types, ReplyT
  <2>2. Head(replies[s]) \in Push \cup {Confirm} /\ Tail(replies[s]) \in Seq(Push \cup {Confirm})
    BY <2>1
  <2>3. Head(replies[s]).type = "message" => Head(replies[s]) \in Push
    BY <2>2 DEF Confirm
  <2>4. LoopT'
    BY <1>18, <2>3 DEF ReadReply, Types, LoopT
  <2>5. ReplyT'
    BY <1>18, <2>2 DEF ReadReply, Types, ReplyT
  <2> QED
    BY <1>18, <2>4, <2>5, TypesFrame DEF ReadReply, Types
<1>19. ASSUME NEW s \in Server, RedisHandler(s), UNCHANGED stopVars PROVE Types'
  <2> DEFINE c == userIdConn[s][subLoop[s].channel]
  <2>1. subLoop[s] \in Push
    BY <1>19 DEF RedisHandler, Types, LoopT, Idle, Ended
  <2>2. subLoop[s].channel \in User /\ subLoop[s].msg \in Msg
    BY <2>1 DEF Push
  <2>3. c \in Conn \cup {None}
    BY <2>2 DEF Types, MapT
  <2>4. SentT'
    <3>1. CASE c = None
      BY <1>19, <3>1 DEF RedisHandler, Types, SentT
    <3>2. CASE c \in Conn
      <4>1. sent' = Written(c, {subLoop[s].msg}) /\ {subLoop[s].msg} \in SUBSET Msg
        BY <1>19, <2>2, <3>2 DEF RedisHandler
      <4> QED
        BY <3>2, <4>1, WrittenGrows DEF Types, SentT
    <3> QED
      BY <2>3, <3>1, <3>2
  <2>5. LoopT'
    BY <1>19 DEF RedisHandler, Types, LoopT
  <2> QED
    BY <1>19, <2>4, <2>5, TypesFrame DEF RedisHandler, Types
<1>20. ASSUME NEW s \in Server, SubLoopEnds(s) PROVE Types'
  <2>1. LoopT' /\ QueueT' /\ ChannelT' /\ ReplyT'
    BY <1>20 DEF SubLoopEnds, Types, LoopT, QueueT, ChannelT, ReplyT
  <2> QED
    BY <1>20, <2>1, TypesFrame DEF SubLoopEnds, Types
<1>21. ASSUME NEW s \in Server, NEW reached \in BOOLEAN, SigInt(s, reached) PROVE Types'
  <2>1. UserT' /\ (stopping \subseteq Server)'
    BY <1>21 DEF SigInt, Types, UserT
  <2> QED
    BY <1>21, <2>1, TypesFrame DEF SigInt, Types
<1>22. ASSUME NEW s \in Server, NEW old \in {Used(s), Here(s)}, Exit(s, old) \/ Die(s, old) PROVE Types'
  <2>1. old \subseteq Here(s) /\ NewProcess(s, old)
    BY <1>22 DEF Exit, Die, Used
  <2> QED
    BY <2>1, NewProcessTypes
<1>23. CASE UNCHANGED vars
  BY <1>23, TypesFrame DEF vars, Types
<1>24. ASSUME ClientStep PROVE Types'
  BY <1>1, <1>2, <1>12, <1>13, <1>24 DEF ClientStep
<1>25. ASSUME NEW l \in Login, LoginStep(l) PROVE Types'
  BY <1>3, <1>4, <1>5, <1>6, <1>7, <1>25 DEF LoginStep
<1>26. ASSUME NEW c \in Conn, CloseStep(c) PROVE Types'
  BY <1>13, <1>14, <1>15, <1>16, <1>26 DEF CloseStep
<1>27. ASSUME NEW m \in Msg, MessageStep(m) PROVE Types'
  BY <1>9, <1>10, <1>11, <1>27 DEF MessageStep
<1>28. ASSUME NEW s \in Server, SubLoopStep(s) PROVE Types'
  BY <1>17, <1>18, <1>19, <1>28 DEF SubLoopStep
<1> QED
  BY <1>8, <1>20, <1>21, <1>22, <1>23, <1>24, <1>25, <1>26, <1>27, <1>28 DEF Steps, Next

-----------------------------------------------------------------------------
(* What a step may do to handlers, connections and the table of connections *)

\* A login between its entry into _userIdConn and its query for offline messages
Delivering == {"mapped", "subscribing", "subscribed", "online"}

\* A message whose recipient has been looked up on the server that stored it
Looked == {"missed", "publishing", "done"}

\* A handler keeps its arguments; a new login has passed the first check
LoginsMove ==
    \A l \in Login :
        IF login[l].pc # "none"
        THEN /\ login'[l].pc # "none"
             /\ login'[l].conn = login[l].conn /\ login'[l].user = login[l].user
        ELSE \/ login'[l] = login[l]
             \/ login'[l].pc = "checked" /\ login'[l].conn \in Conn /\ login'[l].user \in User

\* A message keeps its recipient, and does not become unread again
MsgsMove ==
    \A m \in Msg :
        IF msg[m].pc # "none"
        THEN /\ msg'[m].pc # "none" /\ msg'[m].at = msg[m].at /\ msg'[m].to = msg[m].to
             /\ status'[m] # "none" /\ (status'[m] = "unread" => status[m] = "unread")
        ELSE \/ msg'[m] = msg[m] /\ status'[m] = status[m]
             \/ /\ msg'[m].pc = "stored" /\ msg'[m].at \in Server /\ msg'[m].to \in User
                /\ status'[m] # "none"

\* A connection does not open again, and clientColse knows whom it logs out
ConnsMove ==
    \A c \in Conn : /\ conn'[c] = "open" => conn[c] = "open"
                    /\ conn'[c] \in {"unsubscribing", "unsubscribed"} => leaving'[c] \in User

\* A new entry of _userIdConn is that of a login of this step
MapsMove ==
    \A s \in Server, u \in User :
        \/ userIdConn'[s][u] \in {None, userIdConn[s][u]}
        \/ \E l \in Login : /\ login[l].pc # "none" /\ login'[l].pc = "mapped" /\ login'[l].user = u
                            /\ login'[l].conn = userIdConn'[s][u] /\ ServerOf[login'[l].conn] = s

SentGrows == \A c \in Conn : sent[c] \subseteq sent'[c]

\* A login stops being about to deliver only by delivering, or with its server
DeliveriesMove ==
    \A l \in Login : login[l].pc \in Delivering =>
        \/ login'[l].pc \in Delivering
        \/ conn[login[l].conn] = "open" =>
              \A m \in Msg : status[m] = "unread" /\ msg[m].to = login[l].user => m \in sent'[login[l].conn]
        \/ \A u \in User : userIdConn'[ServerOf[login[l].conn]][u] = None

\* A message is looked up without success only if there is nobody to send it to
LookupsMove ==
    \A m \in Msg : msg'[m].pc \in Looked =>
        \/ msg[m].pc \in Looked
        \/ LET c == userIdConn'[msg'[m].at][msg'[m].to] IN c = None \/ (conn[c] = "open" => m \in sent'[c])

Moves == LoginsMove /\ MsgsMove /\ ConnsMove /\ MapsMove /\ SentGrows /\ DeliveriesMove /\ LookupsMove

\* What a step leaves alone moves as it should.
LEMMA MovesFrame ==
    ASSUME Types, Handlers
    PROVE  /\ login' = login => LoginsMove /\ DeliveriesMove
           /\ msg' = msg => LookupsMove
           /\ msg' = msg /\ status' = status => MsgsMove
           /\ conn' = conn /\ leaving' = leaving => ConnsMove
           /\ userIdConn' = userIdConn => MapsMove
           /\ sent' = sent => SentGrows
<1>1. login' = login => LoginsMove /\ DeliveriesMove
  BY DEF LoginsMove, DeliveriesMove
<1>2. msg' = msg => LookupsMove
  BY DEF LookupsMove
<1>3. msg' = msg /\ status' = status => MsgsMove
  BY DEF MsgsMove, Handlers
<1>4. conn' = conn /\ leaving' = leaving => ConnsMove
  BY DEF ConnsMove, Handlers
<1> QED
  BY <1>1, <1>2, <1>3, <1>4 DEF MapsMove, SentGrows

\* A login goes on to its next step.
LEMMA LoginMoves ==
    ASSUME Types, Handlers, NEW l \in Login, NEW pc \in LoginPc \ {"none"}, LoginAt(l, pc),
           login[l].pc # "none"
    PROVE  /\ LoginsMove
           /\ login[l].pc \notin Delivering \/ pc \in Delivering => DeliveriesMove
<1>1. /\ login'[l].pc = pc /\ login'[l].conn = login[l].conn /\ login'[l].user = login[l].user
      /\ \A k \in Login : k # l => login'[k] = login[k]
  BY LoginPcMoves DEF Types
<1>2. LoginsMove
  BY <1>1 DEF LoginsMove
<1>3. ASSUME login[l].pc \notin Delivering \/ pc \in Delivering PROVE DeliveriesMove
  <2> SUFFICES ASSUME NEW k \in Login, login[k].pc \in Delivering PROVE login'[k].pc \in Delivering
    BY DEF DeliveriesMove
  <2> QED
    BY <1>1, <1>3
<1> QED
  BY <1>2, <1>3

\* A message goes on to its next step.
LEMMA MessageMoves ==
    ASSUME Types, Handlers, NEW m \in Msg, NEW pc \in MsgPc \ {"none"}, MsgAt(m, pc),
           msg[m].pc # "none", status' = status
    PROVE  /\ MsgsMove
           /\ msg[m].pc \in Looked => LookupsMove
<1>1. /\ msg'[m].pc = pc /\ msg'[m].at = msg[m].at /\ msg'[m].to = msg[m].to
      /\ \A k \in Msg : k # m => msg'[k] = msg[k]
  BY MsgPcMoves DEF Types
<1>2. MsgsMove
  BY <1>1 DEF MsgsMove, Handlers
<1>3. ASSUME msg[m].pc \in Looked PROVE LookupsMove
  <2> SUFFICES ASSUME NEW k \in Msg, msg'[k].pc \in Looked PROVE msg[k].pc \in Looked
    BY DEF LookupsMove
  <2> QED
    BY <1>1, <1>3
<1> QED
  BY <1>2, <1>3

\* The end of a process moves its handlers to their end and its table to nothing.
LEMMA NewProcessMoves ==
    ASSUME Types, Handlers, NEW s \in Server, NEW old, NewProcess(s, old) PROVE Moves
<1> USE ChatAssumption
<1> USE DEF NewProcess
<1>1. \A l \in Login : login[l].conn \in Here(s) => login[l].pc # "none"
  BY DEF Handlers, Here
<1>2. \A l \in Login : IF login[l].conn \in Here(s)
                       THEN /\ login'[l].pc = "killed" /\ login'[l].conn = login[l].conn
                            /\ login'[l].user = login[l].user
                       ELSE login'[l] = login[l]
  BY DEF Types, LoginT
<1>3. LoginsMove
  BY <1>1, <1>2 DEF LoginsMove
<1>4. userIdConn' = [userIdConn EXCEPT ![s] = [u \in User |-> None]]
  OBVIOUS
<1>5. /\ \A u \in User : userIdConn'[s][u] = None
      /\ \A r \in Server : r # s => userIdConn'[r] = userIdConn[r]
  BY <1>4 DEF Types, MapT
<1>6. DeliveriesMove
  <2> SUFFICES ASSUME NEW l \in Login, login[l].pc \in Delivering, login'[l].pc \notin Delivering
               PROVE  \A u \in User : userIdConn'[ServerOf[login[l].conn]][u] = None
    BY DEF DeliveriesMove
  <2>1. ServerOf[login[l].conn] = s
    BY <1>2 DEF Here
  <2> QED
    BY <1>5, <2>1
<1>7. \A m \in Msg : \/ msg'[m] = msg[m]
                     \/ /\ msg[m].at = s /\ msg'[m].pc = "killed"
                        /\ msg'[m].at = msg[m].at /\ msg'[m].to = msg[m].to
  BY DEF Types, MsgT
<1>8. MsgsMove
  BY <1>7 DEF MsgsMove, Handlers
<1>9. LookupsMove
  BY <1>7 DEF LookupsMove, Looked
<1>10. ConnsMove
  BY DEF ConnsMove, Handlers, Types, ConnT
<1>11. MapsMove
  BY <1>5 DEF MapsMove
<1>12. SentGrows
  BY DEF SentGrows
<1> QED
  BY <1>3, <1>6, <1>8, <1>9, <1>10, <1>11, <1>12 DEF Moves

\* Every step moves them so.
LEMMA NextMoves == ASSUME Types, Handlers, [Steps]_vars PROVE Moves
<1> USE ChatAssumption
<1> USE DEF sessionVars, messageVars, redisVars, stopVars
<1>0. /\ \A l \in Login : login[l].pc # "none" => /\ login[l].conn \in Conn /\ login[l].user \in User
                                                  /\ ServerOfLogin(l) \in Server
      /\ \A m \in Msg : msg[m].pc # "none" => msg[m].at \in Server /\ msg[m].to \in User
  BY DEF Handlers, ServerOfLogin
<1>1. ASSUME NEW l \in Login, NEW c \in Conn, NEW u \in User, LoginQuery(l, c, u) PROVE Moves
  <2>1. login[l].pc = "none" /\ login' = [login EXCEPT ![l] = [pc |-> "checked", conn |-> c, user |-> u]]
    BY <1>1 DEF LoginQuery
  <2>2. /\ login'[l] = [pc |-> "checked", conn |-> c, user |-> u]
        /\ \A k \in Login : k # l => login'[k] = login[k]
    BY <2>1 DEF Types, LoginT
  <2>3. LoginsMove
    BY <2>1, <2>2 DEF LoginsMove
  <2>4. DeliveriesMove
    <3> SUFFICES ASSUME NEW k \in Login, login[k].pc \in Delivering PROVE login'[k].pc \in Delivering
      BY DEF DeliveriesMove
    <3>1. k # l
      BY <2>1 DEF Delivering
    <3> QED
      BY <2>2, <3>1
  <2> QED
    BY <1>1, <2>3, <2>4, MovesFrame DEF LoginQuery, Moves
<1>2. ASSUME NEW l \in Login, LoginMap(l) PROVE Moves
  <2> DEFINE s == ServerOfLogin(l)
             u == login[l].user
  <2>1. login[l].pc = "checked" /\ LoginAt(l, "mapped")
        /\ userIdConn' = [userIdConn EXCEPT ![s][u] = login[l].conn]
    BY <1>2 DEF LoginMap
  <2>2. LoginsMove /\ DeliveriesMove
    BY <2>1, LoginMoves DEF LoginPc, Delivering
  <2>3. /\ login'[l].pc = "mapped" /\ login'[l].conn = login[l].conn /\ login'[l].user = u
        /\ s \in Server /\ u \in User /\ s = ServerOf[login[l].conn]
    BY <1>0, <2>1, LoginPcMoves DEF Types, LoginPc, ServerOfLogin
  <2>4. MapsMove
    <3> SUFFICES ASSUME NEW r \in Server, NEW v \in User, userIdConn'[r][v] # userIdConn[r][v]
                 PROVE  r = s /\ v = u /\ userIdConn'[r][v] = login[l].conn
      BY <2>1, <2>3 DEF MapsMove
    <3> QED
      BY <2>1, <2>3 DEF Types, MapT
  <2> QED
    BY <1>2, <2>2, <2>4, MovesFrame DEF LoginMap, Moves
<1>3. ASSUME NEW l \in Login, LoginSubscribe(l) \/ LoginOnline(l) \/ \E timeout \in BOOLEAN : SubscribeReturns(l, timeout)
      PROVE  Moves
  <2>1. \E pc \in {"subscribing", "subscribed", "online"} : LoginAt(l, pc)
    BY <1>3 DEF LoginSubscribe, LoginOnline, SubscribeReturns
  <2>2. login[l].pc # "none"
    BY <1>3 DEF LoginSubscribe, LoginOnline, SubscribeReturns
  <2>3. LoginsMove /\ DeliveriesMove
    BY <2>1, <2>2, LoginMoves DEF LoginPc, Delivering
  <2> QED
    BY <1>3, <2>3, MovesFrame DEF LoginSubscribe, LoginOnline, SubscribeReturns, Moves
<1>4. ASSUME NEW l \in Login, LoginOffline(l) PROVE Moves
  <2>1. login[l].pc = "online" /\ LoginAt(l, "done") /\ sent' = Written(login[l].conn, Unread(login[l].user))
    BY <1>4 DEF LoginOffline
  <2>2. LoginsMove
    BY <2>1, LoginMoves DEF LoginPc
  <2>3. Unread(login[l].user) \in SUBSET Msg /\ login[l].conn \in Conn
    BY <1>0, <2>1 DEF Unread
  <2>4. /\ SentGrows
        /\ conn[login[l].conn] = "open" => Unread(login[l].user) \subseteq sent'[login[l].conn]
    BY <2>1, <2>3, WrittenGrows DEF Types, SentGrows
  <2>5. \A k \in Login : k # l => login'[k] = login[k]
    BY <2>1, LoginPcMoves DEF Types, LoginPc
  <2>6. DeliveriesMove
    BY <2>4, <2>5 DEF DeliveriesMove, Unread
  <2> QED
    BY <1>4, <2>2, <2>4, <2>6, MovesFrame DEF LoginOffline, Moves
<1>5. ASSUME NEW m \in Msg, NEW s \in Server, NEW u \in User, NEW ok \in BOOLEAN, Store(m, s, u, ok)
      PROVE  Moves
  <2>1. /\ msg[m].pc = "none" /\ msg' = [msg EXCEPT ![m] = [pc |-> "stored", at |-> s, to |-> u]]
        /\ status' = [status EXCEPT ![m] = IF ok THEN "unread" ELSE "failed"]
    BY <1>5 DEF Store
  <2>2. /\ msg'[m] = [pc |-> "stored", at |-> s, to |-> u] /\ status'[m] # "none"
        /\ \A k \in Msg : k # m => msg'[k] = msg[k] /\ status'[k] = status[k]
    BY <2>1 DEF Types, MsgT, StatusT
  <2>3. MsgsMove
    BY <2>1, <2>2 DEF MsgsMove, Handlers
  <2>4. LookupsMove
    BY <2>2 DEF LookupsMove, Looked
  <2> QED
    BY <1>5, <2>3, <2>4, MovesFrame DEF Store, Moves
<1>6. ASSUME NEW m \in Msg, Lookup(m) PROVE Moves
  <2> DEFINE c == userIdConn[msg[m].at][msg[m].to]
  <2>1. /\ msg[m].pc = "stored" /\ userIdConn' = userIdConn
        /\ MsgAt(m, IF c = None THEN "missed" ELSE "done") /\ status' = status
        /\ sent' = IF c = None THEN sent ELSE Written(c, {m})
    BY <1>6 DEF Lookup
  <2>2. c \in Conn \cup {None}
    BY <1>0, <2>1 DEF Types, MapT
  <2>3. SentGrows /\ (c # None /\ conn[c] = "open" => m \in sent'[c])
    <3>1. CASE c = None
      BY <2>1, <3>1 DEF SentGrows
    <3>2. CASE c \in Conn
      <4>1. sent' = Written(c, {m})
        BY <2>1, <3>2
      <4> QED
        BY <3>2, <4>1, WrittenGrows DEF Types, SentGrows
    <3> QED
      BY <2>2, <3>1, <3>2
  <2>4. PICK pc \in {"missed", "done"} : MsgAt(m, pc)
    BY <2>1
  <2>5. MsgsMove
    BY <2>1, <2>4, MessageMoves DEF MsgPc
  <2>6. /\ msg'[m].at = msg[m].at /\ msg'[m].to = msg[m].to
        /\ \A k \in Msg : k # m => msg'[k] = msg[k]
    BY <2>4, MsgPcMoves DEF Types, MsgPc
  <2>7. userIdConn'[msg'[m].at][msg'[m].to] = c
    BY <2>1, <2>6
  <2>8. LookupsMove
    <3> SUFFICES ASSUME NEW k \in Msg, msg'[k].pc \in Looked, msg[k].pc \notin Looked
                 PROVE  LET d == userIdConn'[msg'[k].at][msg'[k].to] IN d = None \/ (conn[d] = "open" => k \in sent'[d])
      BY DEF LookupsMove
    <3>1. k = m
      BY <2>6
    <3> QED
      BY <2>3, <2>7, <3>1
  <2> QED
    BY <1>6, <2>3, <2>5, <2>8, MovesFrame DEF Lookup, Moves
<1>7. ASSUME NEW m \in Msg, QueryState(m) \/ Publish(m) PROVE Moves
  <2>1. msg[m].pc \in {"missed", "publishing"} /\ status' = status /\ \E pc \in {"publishing", "done"} : MsgAt(m, pc)
    BY <1>7 DEF QueryState, Publish
  <2>2. MsgsMove /\ LookupsMove
    BY <2>1, MessageMoves DEF MsgPc, Looked
  <2> QED
    BY <1>7, <2>2, MovesFrame DEF QueryState, Publish, Moves
<1>8. ASSUME NEW c \in Conn, NEW m \in Msg, AckMessage(c, m) PROVE Moves
  <2>1. status[m] = "unread" /\ status' = [status EXCEPT ![m] = "read"] /\ msg' = msg
    BY <1>8 DEF AckMessage
  <2>2. MsgsMove
    BY <2>1 DEF MsgsMove, Handlers, Types, StatusT
  <2> QED
    BY <1>8, <2>2, MovesFrame DEF AckMessage, Moves
<1>9. ASSUME NEW c \in Conn, Disconnect(c) \/ CloseUnknown(c) \/ CloseOffline(c)
      PROVE  Moves
  <2>1. leaving' = leaving /\ \E pc \in {"closed", "gone"} : conn' = [conn EXCEPT ![c] = pc]
    BY <1>9 DEF Disconnect, CloseUnknown, CloseOffline
  <2>2. ConnsMove
    BY <2>1 DEF ConnsMove, Handlers, Types, ConnT
  <2> QED
    BY <1>9, <2>2, MovesFrame DEF Disconnect, CloseUnknown, CloseOffline, Moves
<1>10. ASSUME NEW c \in Conn, Close(c) PROVE Moves
  <2> DEFINE s == ServerOf[c]
  <2>1. PICK u \in UsersOn(c) : /\ userIdConn' = [userIdConn EXCEPT ![s][u] = None]
                                /\ leaving' = [leaving EXCEPT ![c] = u]
    BY <1>10 DEF Close
  <2>2. u \in User /\ s \in Server
    BY DEF UsersOn
  <2>3. MapsMove
    BY <2>1, <2>2 DEF MapsMove, Types, MapT
  <2>4. conn' = [conn EXCEPT ![c] = "unsubscribing"]
    BY <1>10 DEF Close
  <2>5. ConnsMove
    BY <2>1, <2>2, <2>4 DEF ConnsMove, Handlers, Types, ConnT, LeavingT
  <2> QED
    BY <1>10, <2>3, <2>5, MovesFrame DEF Close, Moves
<1>11. ASSUME NEW c \in Conn, NEW timeout \in BOOLEAN, UnsubscribeReturns(c, timeout) PROVE Moves
  <2>1. leaving' = leaving /\ conn[c] = "unsubscribing" /\ conn' = [conn EXCEPT ![c] = "unsubscribed"]
    BY <1>11 DEF UnsubscribeReturns
  <2>2. ConnsMove
    BY <2>1 DEF ConnsMove, Handlers, Types, ConnT
  <2> QED
    BY <1>11, <2>2, MovesFrame DEF UnsubscribeReturns, Moves
<1>12. ASSUME NEW s \in Server, RedisHandler(s) PROVE Moves
  <2> DEFINE c == userIdConn[s][subLoop[s].channel]
  <2>1. subLoop[s] \in Push
    BY <1>12 DEF RedisHandler, Types, LoopT, Idle, Ended
  <2>2. subLoop[s].channel \in User /\ {subLoop[s].msg} \in SUBSET Msg
    BY <2>1 DEF Push
  <2>3. c \in Conn \cup {None}
    BY <2>2 DEF Types, MapT
  <2>4. SentGrows
    <3>1. CASE c = None
      BY <1>12, <3>1 DEF RedisHandler, SentGrows
    <3>2. CASE c \in Conn
      <4>1. sent' = Written(c, {subLoop[s].msg})
        BY <1>12, <3>2 DEF RedisHandler
      <4> QED
        BY <2>2, <3>2, <4>1, WrittenGrows DEF Types, SentGrows
    <3> QED
      BY <2>3, <3>1, <3>2
  <2> QED
    BY <1>12, <2>4, MovesFrame DEF RedisHandler, Moves
<1>13. ASSUME UNCHANGED <<login, msg, status, conn, leaving, userIdConn, sent>> PROVE Moves
  BY <1>13, MovesFrame DEF Moves
<1>14. ASSUME NEW s \in Server, RunCommand(s) \/ ReadReply(s) \/ SubLoopEnds(s) \/ \E reached \in BOOLEAN : SigInt(s, reached) PROVE Moves
  BY <1>13, <1>14 DEF RunCommand, ReadReply, SubLoopEnds, SigInt
<1>15. ASSUME NEW s \in Server, NEW old \in {Used(s), Here(s)}, Exit(s, old) \/ Die(s, old) PROVE Moves
  BY <1>15, NewProcessMoves DEF Exit, Die
<1>16. CASE UNCHANGED vars
  BY <1>13, <1>16 DEF vars
<1>17. ASSUME ClientStep PROVE Moves
  <2>1. ASSUME NEW u \in User, Ref(u) PROVE Moves
    BY <1>13, <2>1 DEF Ref
  <2> QED
    BY <1>1, <1>8, <1>9, <1>17, <2>1 DEF ClientStep
<1>18. ASSUME NEW l \in Login, LoginStep(l) PROVE Moves
  BY <1>2, <1>3, <1>4, <1>18 DEF LoginStep
<1>19. ASSUME NEW c \in Conn, CloseStep(c) PROVE Moves
  BY <1>9, <1>10, <1>11, <1>19 DEF CloseStep
<1>20. ASSUME NEW m \in Msg, MessageStep(m) PROVE Moves
  BY <1>6, <1>7, <1>20 DEF MessageStep
<1>21. ASSUME NEW s \in Server, SubLoopStep(s) PROVE Moves
  BY <1>12, <1>14, <1>21 DEF SubLoopStep
<1> QED
  BY <1>5, <1>14, <1>15, <1>16, <1>17, <1>18, <1>19, <1>20, <1>21 DEF Steps, Next

-----------------------------------------------------------------------------
(* What the handlers leave behind *)

\* An entry of _userIdConn is a connection of that server on which the user has logged in
Mapped ==
    \A s \in Server, u \in User : userIdConn[s][u] # None =>
        /\ ServerOf[userIdConn[s][u]] = s
        /\ \E l \in Login : /\ login[l].pc # "none" /\ login[l].user = u
                            /\ login[l].conn = userIdConn[s][u]

\* A message that has been looked up is on its recipient's connection, or a login there
\* will still find it in the table
Delivered ==
    \A m \in Msg :
        LET c == userIdConn[msg[m].at][msg[m].to] IN
        msg[m].pc \in Looked /\ status[m] = "unread" /\ c # None /\ conn[c] = "open" =>
            \/ m \in sent[c]
            \/ \E l \in Login : /\ login[l].pc \in Delivering
                                /\ login[l].user = msg[m].to /\ login[l].conn = c

\* What Redis carries is a message that has been stored, on the channel of its recipient
Genuine(p) == msg[p.msg].pc # "none" /\ msg[p.msg].to = p.channel

Pushed ==
    \A s \in Server :
        /\ subLoop[s] \in Push => Genuine(subLoop[s])
        /\ \A k \in 1 .. Len(replies[s]) : replies[s][k] \in Push => Genuine(replies[s][k])

\* Handlers go on knowing what they know.
LEMMA HandlersStep == ASSUME Types, Handlers, Moves PROVE Handlers'
<1>1. \A l \in Login : IF login'[l].pc = "none" THEN login'[l].conn = None
                       ELSE login'[l].conn \in Conn /\ login'[l].user \in User
  BY DEF Handlers, Moves, LoginsMove
<1>2. \A m \in Msg : IF msg'[m].pc = "none" THEN status'[m] = "none" /\ msg'[m].at = None
                     ELSE status'[m] # "none" /\ msg'[m].at \in Server /\ msg'[m].to \in User
  BY DEF Handlers, Moves, MsgsMove
<1>3. \A c \in Conn : conn'[c] \in {"unsubscribing", "unsubscribed"} => leaving'[c] \in User
  BY DEF Moves, ConnsMove
<1> QED
  BY <1>1, <1>2, <1>3 DEF Handlers

\* Only a login makes an entry, and it stays a login of that user on that connection.
LEMMA MappedStep == ASSUME Types, Handlers, Mapped, Moves PROVE Mapped'
<1> SUFFICES ASSUME NEW s \in Server, NEW u \in User, userIdConn'[s][u] # None
             PROVE  /\ ServerOf[userIdConn'[s][u]] = s
                    /\ \E l \in Login : /\ login'[l].pc # "none" /\ login'[l].user = u
                                        /\ login'[l].conn = userIdConn'[s][u]
  BY DEF Mapped
<1>1. CASE userIdConn'[s][u] = userIdConn[s][u]
  <2>1. PICK l \in Login : /\ login[l].pc # "none" /\ login[l].user = u
                           /\ login[l].conn = userIdConn[s][u] /\ ServerOf[userIdConn[s][u]] = s
    BY <1>1 DEF Mapped
  <2> QED
    BY <1>1, <2>1 DEF Moves, LoginsMove
<1>2. CASE userIdConn'[s][u] # userIdConn[s][u]
  <2>1. PICK l \in Login : /\ login'[l].pc = "mapped" /\ login'[l].user = u
                           /\ login'[l].conn = userIdConn'[s][u] /\ ServerOf[login'[l].conn] = s
    BY <1>2 DEF Moves, MapsMove
  <2> QED
    BY <2>1
<1> QED
  BY <1>1, <1>2

\* A message is not lost between onemessage and login: when it misses the entry, the login
\* that makes the entry reads the table later.
LEMMA DeliveredStep ==
    ASSUME Types, Types', Handlers, Handlers', Mapped, Delivered, Moves PROVE Delivered'
<1> SUFFICES ASSUME NEW m \in Msg, msg'[m].pc \in Looked, status'[m] = "unread",
                    userIdConn'[msg'[m].at][msg'[m].to] # None,
                    conn'[userIdConn'[msg'[m].at][msg'[m].to]] = "open",
                    m \notin sent'[userIdConn'[msg'[m].at][msg'[m].to]]
             PROVE  \E l \in Login : /\ login'[l].pc \in Delivering
                                     /\ login'[l].user = msg'[m].to
                                     /\ login'[l].conn = userIdConn'[msg'[m].at][msg'[m].to]
  BY DEF Delivered
<1> DEFINE s == msg'[m].at
           u == msg'[m].to
           c == userIdConn'[s][u]
<1>1. s \in Server /\ u \in User
  BY DEF Handlers, Looked
<1>2. c \in Conn
  BY <1>1 DEF Types, MapT
<1>3. conn[c] = "open"
  BY <1>2 DEF Moves, ConnsMove
<1>4. CASE userIdConn[s][u] # c
  <2>1. PICK l \in Login : login'[l].pc = "mapped" /\ login'[l].user = u /\ login'[l].conn = c
    BY <1>1, <1>4 DEF Moves, MapsMove
  <2> QED
    BY <2>1 DEF Delivering
<1>5. CASE userIdConn[s][u] = c
  <2>1. msg[m].pc \in Looked
    BY <1>3 DEF Moves, LookupsMove
  <2>2. msg[m].at = s /\ msg[m].to = u /\ status[m] = "unread"
    BY <2>1 DEF Moves, MsgsMove, Looked
  <2>3. m \notin sent[c]
    BY <1>2 DEF Moves, SentGrows
  <2>4. PICK l \in Login : login[l].pc \in Delivering /\ login[l].user = u /\ login[l].conn = c
    BY <1>3, <1>5, <2>1, <2>2, <2>3 DEF Delivered
  <2>5. login'[l].user = u /\ login'[l].conn = c
    BY <2>4 DEF Moves, LoginsMove, Delivering
  <2>6. ServerOf[c] = s
    BY <1>1, <1>5 DEF Mapped
  <2>7. login'[l].pc \in Delivering
    BY <1>1, <1>3, <2>2, <2>4, <2>6 DEF Moves, DeliveriesMove
  <2> QED
    BY <2>4, <2>5, <2>7
<1> QED
  BY <1>4, <1>5

\* Nothing but a message is a message.
LEMMA NoPush == Idle \notin Push /\ Ended \notin Push /\ Confirm \notin Push
<1>1. \A p \in Push : p.type = "message"
  BY DEF Push
<1>2. Idle.type = "idle" /\ Ended.type = "ended" /\ Confirm.type = "confirm"
  BY DEF Idle, Ended, Confirm
<1> QED
  BY <1>1, <1>2

\* Publish hands Redis a stored message for its recipient; the rest only passes it on or
\* drops it.
LEMMA PushedStep == ASSUME Types, Handlers, Pushed, Moves, [Steps]_vars PROVE Pushed'
<1> USE ChatAssumption
<1> USE DEF sessionVars, messageVars, redisVars, stopVars
<1> DEFINE StaysGenuine(p) == msg'[p.msg].pc # "none" /\ msg'[p.msg].to = p.channel
<1>1. \A p \in Push : Genuine(p) => StaysGenuine(p)
  <2>1. \A p \in Push : p.msg \in Msg
    BY DEF Push
  <2> QED
    BY <2>1 DEF Genuine, Moves, MsgsMove
<1>2. ASSUME \A s \in Server : /\ subLoop'[s] \in Push => StaysGenuine(subLoop'[s])
                               /\ \A k \in 1 .. Len(replies'[s]) :
                                     replies'[s][k] \in Push => StaysGenuine(replies'[s][k])
      PROVE  Pushed'
  BY <1>2 DEF Pushed, Genuine
<1> HIDE DEF StaysGenuine
<1>3. ASSUME \A s \in Server : /\ subLoop'[s] = subLoop[s] \/ subLoop'[s] \notin Push
                               /\ \A k \in 1 .. Len(replies'[s]) :
                                     \/ replies'[s][k] \notin Push
                                     \/ \E j \in 1 .. Len(replies[s]) : replies'[s][k] = replies[s][j]
      PROVE  Pushed'
  BY <1>1, <1>2, <1>3 DEF Pushed
<1>4. ASSUME UNCHANGED <<subLoop, replies>> PROVE Pushed'
  BY <1>3, <1>4
<1>5. \A s \in Server : replies[s] \in Seq(Push \cup {Confirm}) /\ Len(replies[s]) \in Nat
  BY DEF Types, ReplyT
<1>6. ASSUME NEW m \in Msg, Publish(m) PROVE Pushed'
  <2> DEFINE p == [type |-> "message", channel |-> msg[m].to, msg |-> m]
  <2>1. /\ msg[m].pc = "publishing" /\ subLoop' = subLoop
        /\ \A s \in Server : replies'[s] = Append(replies[s], p) \/ replies'[s] = replies[s]
    BY <1>6 DEF Publish
  <2>2. p \in Push
    BY <2>1 DEF Push, Handlers
  <2>3. StaysGenuine(p)
    <3>1. p.msg = m /\ p.channel = msg[m].to
      OBVIOUS
    <3>2. msg'[m].pc # "none" /\ msg'[m].to = msg[m].to
      BY <2>1 DEF Moves, MsgsMove
    <3> QED
      BY <3>1, <3>2 DEF StaysGenuine
  <2> HIDE DEF p
  <2>4. ASSUME NEW s \in Server, NEW k \in 1 .. Len(replies'[s]), replies'[s][k] \in Push
        PROVE  StaysGenuine(replies'[s][k])
    <3>1. CASE replies'[s] = replies[s]
      BY <1>1, <2>4, <3>1 DEF Pushed
    <3>2. CASE replies'[s] = Append(replies[s], p)
      <4>1. /\ Len(replies'[s]) = Len(replies[s]) + 1
            /\ replies'[s][Len(replies[s]) + 1] = p
            /\ \A j \in 1 .. Len(replies[s]) : replies'[s][j] = replies[s][j]
        BY <1>5, <2>2, <3>2
      <4>2. CASE k \in 1 .. Len(replies[s])
        BY <1>1, <2>4, <4>1, <4>2 DEF Pushed
      <4>3. CASE k = Len(replies[s]) + 1
        BY <2>3, <4>1, <4>3
      <4> QED
        BY <1>5, <4>1, <4>2, <4>3
    <3> QED
      BY <2>1, <3>1, <3>2
  <2>5. \A s \in Server : subLoop'[s] \in Push => StaysGenuine(subLoop'[s])
    BY <1>1, <2>1 DEF Pushed
  <2> QED
    BY <1>2, <2>4, <2>5
<1>7. ASSUME NEW s \in Server, RunCommand(s) PROVE Pushed'
  <2>1. subLoop' = subLoop /\ replies' = [replies EXCEPT ![s] = Tail(Append(@, Confirm))]
    BY <1>7 DEF RunCommand
  <2>2. PICK q \in Seq(Push \cup {Confirm}) : q = Append(replies[s], Confirm)
    <3>1. Append(replies[s], Confirm) \in Seq(Push \cup {Confirm})
      BY <1>5
    <3> QED
      BY <3>1
  <2>3. /\ Len(q) = Len(replies[s]) + 1 /\ q[Len(replies[s]) + 1] = Confirm
        /\ \A j \in 1 .. Len(replies[s]) : q[j] = replies[s][j]
    BY <1>5, <2>2
  <2>4. Len(Tail(q)) = Len(replies[s]) /\ \A k \in 1 .. Len(Tail(q)) : Tail(q)[k] = q[k + 1]
    BY <1>5, <2>3
  <2>5. \A k \in 1 .. Len(replies[s]) : k + 1 \in 1 .. Len(replies[s]) \/ k + 1 = Len(replies[s]) + 1
    BY <1>5
  <2>6. /\ replies'[s] = Tail(q)
        /\ \A r \in Server : r # s => replies'[r] = replies[r]
    BY <2>1, <2>2 DEF Types, ReplyT
  <2>7. \A k \in 1 .. Len(replies'[s]) :
            \/ replies'[s][k] \notin Push
            \/ \E j \in 1 .. Len(replies[s]) : replies'[s][k] = replies[s][j]
    BY <2>3, <2>4, <2>5, <2>6, NoPush
  <2> QED
    BY <1>3, <2>1, <2>6, <2>7
<1>8. ASSUME NEW s \in Server, ReadReply(s) PROVE Pushed'
  <2>1. /\ replies[s] # <<>> /\ replies' = [replies EXCEPT ![s] = Tail(@)]
        /\ subLoop' = [subLoop EXCEPT ![s] = IF Head(replies[s]).type = "message" THEN Head(replies[s]) ELSE Idle]
    BY <1>8 DEF ReadReply
  <2>2. /\ \A r \in Server : r # s => replies'[r] = replies[r] /\ subLoop'[r] = subLoop[r]
        /\ replies'[s] = Tail(replies[s]) /\ (subLoop'[s] = Head(replies[s]) \/ subLoop'[s] = Idle)
    BY <2>1 DEF Types, ReplyT, LoopT
  <2>3. /\ Head(replies[s]) = replies[s][1] /\ 1 \in 1 .. Len(replies[s])
        /\ \A k \in 1 .. Len(Tail(replies[s])) :
              k + 1 \in 1 .. Len(replies[s]) /\ Tail(replies[s])[k] = replies[s][k + 1]
    BY <1>5, <2>1
  <2>4. subLoop'[s] \in Push => StaysGenuine(subLoop'[s])
    BY <1>1, <2>2, <2>3, NoPush DEF Pushed
  <2>5. \A k \in 1 .. Len(replies'[s]) : replies'[s][k] \in Push => StaysGenuine(replies'[s][k])
    BY <1>1, <2>2, <2>3 DEF Pushed
  <2>6. ASSUME NEW r \in Server
        PROVE  /\ subLoop'[r] \in Push => StaysGenuine(subLoop'[r])
               /\ \A k \in 1 .. Len(replies'[r]) : replies'[r][k] \in Push => StaysGenuine(replies'[r][k])
    <3>1. CASE r = s
      BY <2>4, <2>5, <3>1
    <3>2. CASE r # s
      BY <1>1, <2>2, <3>2 DEF Pushed
    <3> QED
      BY <3>1, <3>2
  <2> QED
    BY <1>2, <2>6
<1>9. ASSUME NEW s \in Server, RedisHandler(s) PROVE Pushed'
  <2>1. replies' = replies /\ subLoop' = [subLoop EXCEPT ![s] = Idle]
    BY <1>9 DEF RedisHandler
  <2>2. \A r \in Server : subLoop'[r] = subLoop[r] \/ subLoop'[r] \notin Push
    BY <2>1, NoPush DEF Types, LoopT
  <2> QED
    BY <1>3, <2>1, <2>2
<1>10. ASSUME NEW s \in Server, NEW loop \in {Idle, Ended}, replies' = [replies EXCEPT ![s] = <<>>],
              subLoop' = [subLoop EXCEPT ![s] = loop]
       PROVE  Pushed'
  <2>1. \A r \in Server : subLoop'[r] = subLoop[r] \/ subLoop'[r] \notin Push
    BY <1>10, NoPush DEF Types, LoopT
  <2>2. \A r \in Server : replies'[r] = replies[r] \/ Len(replies'[r]) = 0
    BY <1>10 DEF Types, ReplyT
  <2> QED
    BY <1>3, <2>1, <2>2
<1>11. ASSUME NEW s \in Server, NEW old, SubLoopEnds(s) \/ Exit(s, old) \/ Die(s, old) PROVE Pushed'
  BY <1>10, <1>11 DEF SubLoopEnds, Exit, Die, NewProcess
<1>12. ASSUME NEW s \in Server, NEW reached \in BOOLEAN, SigInt(s, reached) PROVE Pushed'
  BY <1>4, <1>12 DEF SigInt
<1>13. ASSUME ClientStep PROVE Pushed'
  BY <1>4, <1>13 DEF ClientStep, Ref, LoginQuery, AckMessage, Disconnect
<1>14. ASSUME NEW m \in Msg, NEW s \in Server, NEW u \in User, NEW ok \in BOOLEAN, Store(m, s, u, ok)
       PROVE  Pushed'
  BY <1>4, <1>14 DEF Store
<1>15. ASSUME NEW l \in Login, LoginStep(l) PROVE Pushed'
  BY <1>4, <1>15 DEF LoginStep, LoginMap, LoginSubscribe, SubscribeReturns, LoginOnline, LoginOffline
<1>16. ASSUME NEW c \in Conn, CloseStep(c) PROVE Pushed'
  BY <1>4, <1>16 DEF CloseStep, CloseUnknown, Close, UnsubscribeReturns, CloseOffline
<1>17. ASSUME NEW m \in Msg, MessageStep(m) PROVE Pushed'
  BY <1>4, <1>6, <1>17 DEF MessageStep, Lookup, QueryState
<1>18. ASSUME NEW s \in Server, SubLoopStep(s) PROVE Pushed'
  BY <1>7, <1>8, <1>9, <1>18 DEF SubLoopStep
<1>19. CASE UNCHANGED vars
  BY <1>4, <1>19 DEF vars
<1> QED
  BY <1>11, <1>12, <1>13, <1>14, <1>15, <1>16, <1>17, <1>18, <1>19 DEF Steps, Next

-----------------------------------------------------------------------------
(* Subscriptions *)

\* With the commands q still to run and subscribed to ch, a server ends up subscribed to u
Asks(q, ch, u) ==
    \/ u \in ch /\ \A k \in 1 .. Len(q) : q[k].channel # u
    \/ \E k \in 1 .. Len(q) : /\ q[k].channel = u /\ q[k].type = "SUBSCRIBE"
                              /\ \A j \in 1 .. Len(q) : j > k => q[j].channel # u

\* A server is subscribed, or about to be, to every user it has a connection for, or a
\* login of that user on that connection has not come to its subscribe
Subscribed ==
    \A s \in Server, u \in User : subLoop[s] # Ended /\ userIdConn[s][u] # None =>
        \/ Asks(cmdQueue[s], channels[s], u)
        \/ \E l \in Login : /\ login[l].pc = "mapped" /\ login[l].user = u
                            /\ login[l].conn = userIdConn[s][u]

\* A SUBSCRIBE at the end of the queue is the last word on its channel, and a command for
\* another channel says nothing about it.
LEMMA AsksAppend ==
    ASSUME NEW q \in Seq(Cmd), NEW ch, NEW u, NEW x \in Cmd
    PROVE  /\ x.channel = u /\ x.type = "SUBSCRIBE" => Asks(Append(q, x), ch, u)
           /\ x.channel # u /\ Asks(q, ch, u) => Asks(Append(q, x), ch, u)
<1> DEFINE r == Append(q, x)
<1>1. /\ Len(r) = Len(q) + 1 /\ Len(q) \in Nat /\ r[Len(q) + 1] = x
      /\ \A k \in 1 .. Len(q) : r[k] = q[k]
  OBVIOUS
<1>2. \A k \in 1 .. Len(r) : k \in 1 .. Len(q) \/ k = Len(q) + 1
  BY <1>1
<1>3. Len(q) + 1 \in 1 .. Len(r) /\ (\A k \in 1 .. Len(q) : k \in 1 .. Len(r))
      /\ ~ \E j \in 1 .. Len(r) : j > Len(q) + 1
  BY <1>1
<1> HIDE DEF r
<1>4. ASSUME x.channel = u, x.type = "SUBSCRIBE" PROVE Asks(r, ch, u)
  BY <1>1, <1>3, <1>4 DEF Asks
<1>5. ASSUME x.channel # u, Asks(q, ch, u) PROVE Asks(r, ch, u)
  <2>1. CASE u \in ch /\ \A k \in 1 .. Len(q) : q[k].channel # u
    BY <1>1, <1>2, <1>5, <2>1 DEF Asks
  <2>2. ASSUME NEW k \in 1 .. Len(q), q[k].channel = u, q[k].type = "SUBSCRIBE",
               \A j \in 1 .. Len(q) : j > k => q[j].channel # u
        PROVE  Asks(r, ch, u)
    <3>1. k \in 1 .. Len(r) /\ r[k].channel = u /\ r[k].type = "SUBSCRIBE"
      BY <1>1, <1>3, <2>2
    <3>2. \A j \in 1 .. Len(r) : j > k => r[j].channel # u
      BY <1>1, <1>2, <1>5, <2>2
    <3> QED
      BY <3>1, <3>2 DEF Asks
  <2> QED
    BY <1>5, <2>1, <2>2 DEF Asks
<1> QED
  BY <1>4, <1>5 DEF r

\* Running the first command changes nothing about where the queue leads.
LEMMA AsksRun ==
    ASSUME NEW q \in Seq(Cmd), q # <<>>, NEW ch, NEW u, Asks(q, ch, u)
    PROVE  Asks(Tail(q), IF Head(q).type = "SUBSCRIBE" THEN ch \cup {Head(q).channel}
                                                       ELSE ch \ {Head(q).channel}, u)
<1> DEFINE r == Tail(q)
           new == IF Head(q).type = "SUBSCRIBE" THEN ch \cup {Head(q).channel}
                                                ELSE ch \ {Head(q).channel}
<1>1. /\ Len(r) = Len(q) - 1 /\ Len(q) \in Nat /\ Len(q) >= 1 /\ Head(q) = q[1]
      /\ \A k \in 1 .. Len(r) : r[k] = q[k + 1]
  OBVIOUS
<1>2. /\ \A k \in 1 .. Len(r) : k + 1 \in 1 .. Len(q) /\ k + 1 # 1 /\ k + 1 > 1
      /\ \A k \in 1 .. Len(q) : k = 1 \/ k - 1 \in 1 .. Len(r)
      /\ 1 \in 1 .. Len(q)
  BY <1>1
<1>3. CASE u \in ch /\ \A k \in 1 .. Len(q) : q[k].channel # u
  <2>1. Head(q).channel # u
    BY <1>1, <1>2, <1>3
  <2>2. u \in new
    BY <1>3, <2>1
  <2>3. \A k \in 1 .. Len(r) : r[k].channel # u
    BY <1>1, <1>2, <1>3
  <2> QED
    BY <2>2, <2>3 DEF Asks
<1>4. ASSUME NEW k \in 1 .. Len(q), q[k].channel = u, q[k].type = "SUBSCRIBE",
             \A j \in 1 .. Len(q) : j > k => q[j].channel # u
      PROVE  Asks(r, new, u)
  <2>1. CASE k = 1
    <3>1. u \in new
      BY <1>1, <1>4, <2>1
    <3>2. \A j \in 1 .. Len(r) : r[j].channel # u
      BY <1>1, <1>2, <1>4, <2>1
    <3> QED
      BY <3>1, <3>2 DEF Asks
  <2>2. CASE k # 1
    <3>1. k - 1 \in 1 .. Len(r) /\ r[k - 1] = q[(k - 1) + 1] /\ (k - 1) + 1 = k
      BY <1>1, <1>2, <2>2
    <3>2. ASSUME NEW j \in 1 .. Len(r), j > k - 1 PROVE r[j].channel # u
      <4>1. j + 1 \in 1 .. Len(q) /\ j + 1 > k /\ r[j] = q[j + 1]
        BY <1>1, <1>2, <3>2
      <4> QED
        BY <1>4, <4>1
    <3> HIDE DEF r, new
    <3>3. r[k - 1].channel = u /\ r[k - 1].type = "SUBSCRIBE"
      BY <1>4, <3>1
    <3> QED
      BY <3>1, <3>2, <3>3 DEF Asks
  <2> QED
    BY <2>1, <2>2
<1> QED
  BY <1>3, <1>4 DEF Asks

\* The last command that concerns a user is the one MappedSubscribed speaks of.
LEMMA AsksLast ==
    ASSUME Types, NEW s \in Server, NEW u \in User, Asks(cmdQueue[s], channels[s], u)
    PROVE  IF Pending(s, u) = {} THEN u \in channels[s]
           ELSE cmdQueue[s][Max(Pending(s, u))].type = "SUBSCRIBE"
<1> DEFINE q == cmdQueue[s]
<1>1. q \in Seq(Cmd) /\ Len(q) \in Nat /\ DOMAIN q = 1 .. Len(q)
  BY DEF Types, QueueT
<1>2. \A k : k \in Pending(s, u) <=> k \in 1 .. Len(q) /\ q[k].channel = u
  BY <1>1 DEF Pending
<1> HIDE DEF q
<1>3. CASE Pending(s, u) = {}
  BY <1>2, <1>3 DEF Asks, q
<1>4. CASE Pending(s, u) # {}
  <2>1. PICK k \in 1 .. Len(q) : /\ q[k].channel = u /\ q[k].type = "SUBSCRIBE"
                                 /\ \A j \in 1 .. Len(q) : j > k => q[j].channel # u
    BY <1>2, <1>4 DEF Asks, q
  <2>2. k \in Pending(s, u) /\ \A j \in Pending(s, u) : k >= j /\ j \in Int
    BY <1>1, <1>2, <2>1
  <2>3. Max(Pending(s, u)) \in Pending(s, u) /\ \A j \in Pending(s, u) : Max(Pending(s, u)) >= j
    BY <2>2 DEF Max
  <2>4. Max(Pending(s, u)) = k
    <3>1. ASSUME NEW j, j \in Pending(s, u), \A i \in Pending(s, u) : j >= i PROVE j = k
      <4>1. j >= k /\ k >= j /\ j \in Int /\ k \in Int
        BY <2>2, <3>1
      <4> QED
        BY <4>1
    <3> QED
      BY <2>3, <3>1
  <2> QED
    BY <1>4, <2>1, <2>4 DEF q
<1> QED
  BY <1>3, <1>4

\* The end of a session takes the entry away in the step that sends UNSUBSCRIBE, and a
\* login makes the entry before it sends SUBSCRIBE: neither comes between the other's two.
LEMMA SubscribedStep ==
    ASSUME Types, Types', Handlers, Mapped, Mapped', Subscribed, Moves, [Steps]_vars
    PROVE  Subscribed'
<1> USE ChatAssumption
<1> USE DEF sessionVars, messageVars, redisVars, stopVars
<1> DEFINE Mapping(s, u) == \E l \in Login : /\ login[l].pc = "mapped" /\ login[l].user = u
                                             /\ login[l].conn = userIdConn[s][u]
           StillMapping(s, u) == \E l \in Login : /\ login'[l].pc = "mapped" /\ login'[l].user = u
                                                  /\ login'[l].conn = userIdConn'[s][u]
           Fine(s, u) == \/ subLoop'[s] = Ended
                         \/ userIdConn'[s][u] = None
                         \/ Asks(cmdQueue'[s], channels'[s], u)
                         \/ StillMapping(s, u)
<1>1. ASSUME \A s \in Server, u \in User : Fine(s, u) PROVE Subscribed'
  BY <1>1 DEF Subscribed
<1>2. \A s \in Server, u \in User : \/ subLoop[s] = Ended \/ userIdConn[s][u] = None
                                    \/ Asks(cmdQueue[s], channels[s], u) \/ Mapping(s, u)
  BY DEF Subscribed
<1>3. ASSUME NEW s \in Server, NEW u \in User, subLoop[s] = Ended => subLoop'[s] = Ended,
             userIdConn'[s][u] \in {None, userIdConn[s][u]},
             cmdQueue'[s] = cmdQueue[s], channels'[s] = channels[s],
             \A l \in Login : login[l].pc = "mapped" => login'[l] = login[l]
      PROVE  Fine(s, u)
  BY <1>2, <1>3
<1> HIDE DEF Fine
<1>4. ASSUME UNCHANGED <<subLoop, userIdConn, cmdQueue, channels>>,
             \A l \in Login : login[l].pc = "mapped" => login'[l] = login[l]
      PROVE  Subscribed'
  BY <1>1, <1>3, <1>4
<1>5. ASSUME NEW l \in Login, LoginMap(l) PROVE Subscribed'
  <2>1. UNCHANGED <<subLoop, cmdQueue, channels>> /\ LoginAt(l, "mapped") /\ login[l].pc = "checked"
    BY <1>5 DEF LoginMap
  <2>2. \A k \in Login : login[k].pc = "mapped" => login'[k] = login[k]
    BY <2>1, LoginPcMoves DEF Types, LoginPc
  <2>3. ASSUME NEW s \in Server, NEW u \in User PROVE Fine(s, u)
    <3>1. CASE userIdConn'[s][u] \in {None, userIdConn[s][u]}
      BY <1>3, <2>1, <2>2, <3>1
    <3>2. CASE userIdConn'[s][u] \notin {None, userIdConn[s][u]}
      BY <3>2 DEF Moves, MapsMove, Fine
    <3> QED
      BY <3>1, <3>2
  <2> QED
    BY <1>1, <2>3
<1>6. ASSUME NEW l \in Login, LoginSubscribe(l) PROVE Subscribed'
  <2> DEFINE s == ServerOfLogin(l)
             u == login[l].user
             x == [type |-> "SUBSCRIBE", channel |-> u, by |-> l]
  <2>1. /\ UNCHANGED <<subLoop, userIdConn, channels>>
        /\ LoginAt(l, "subscribing") /\ login[l].pc = "mapped" /\ Enqueue(s, "SUBSCRIBE", u, l)
    BY <1>6 DEF LoginSubscribe
  <2>2. s \in Server /\ u \in User /\ login[l].conn \in Conn /\ s = ServerOf[login[l].conn]
    BY <2>1 DEF Handlers, ServerOfLogin
  <2>3. x \in Cmd /\ x.channel = u /\ x.type = "SUBSCRIBE"
    BY <2>2 DEF Cmd
  <2>4. cmdQueue'[s] = Append(cmdQueue[s], x) /\ \A r \in Server : r # s => cmdQueue'[r] = cmdQueue[r]
    BY <2>1, <2>2, EnqueueTypes DEF Types
  <2>5. cmdQueue[s] \in Seq(Cmd)
    BY <2>2 DEF Types, QueueT
  <2>6. \A k \in Login : k # l => login'[k] = login[k]
    BY <2>1, LoginPcMoves DEF Types, LoginPc
  <2> HIDE DEF x
  <2>7. ASSUME NEW r \in Server, NEW v \in User PROVE Fine(r, v)
    <3>1. CASE r = s /\ v = u
      <4>1. Asks(Append(cmdQueue[s], x), channels'[s], u)
        BY <2>3, <2>5, AsksAppend
      <4> QED
        BY <2>4, <3>1, <4>1 DEF Fine
    <3>2. CASE ~(r = s /\ v = u)
      <4>1. Asks(cmdQueue[r], channels[r], v) => Asks(cmdQueue'[r], channels'[r], v)
        <5>1. CASE r = s
          <6>1. x.channel # v
            BY <2>3, <3>2, <5>1
          <6>2. Asks(cmdQueue[s], channels[s], v) => Asks(Append(cmdQueue[s], x), channels[s], v)
            BY <2>3, <2>5, <6>1, AsksAppend
          <6> QED
            BY <2>1, <2>4, <5>1, <6>2
        <5>2. CASE r # s
          BY <2>1, <2>4, <5>2
        <5> QED
          BY <5>1, <5>2
      <4>2. ASSUME NEW k \in Login, userIdConn[r][v] # None, login[k].pc = "mapped",
                   login[k].user = v, login[k].conn = userIdConn[r][v]
            PROVE  k # l
        BY <2>2, <3>2, <4>2 DEF Mapped
      <4>3. userIdConn[r][v] # None /\ Mapping(r, v) => StillMapping(r, v)
        BY <2>1, <2>6, <4>2
      <4> QED
        BY <1>2, <2>1, <4>1, <4>3 DEF Fine
    <3> QED
      BY <3>1, <3>2
  <2> QED
    BY <1>1, <2>7
<1>7. ASSUME NEW c \in Conn, Close(c) PROVE Subscribed'
  <2> DEFINE s == ServerOf[c]
  <2>1. PICK u \in UsersOn(c) : /\ userIdConn' = [userIdConn EXCEPT ![s][u] = None]
                                /\ Enqueue(s, "UNSUBSCRIBE", u, c)
    BY <1>7 DEF Close
  <2> DEFINE x == [type |-> "UNSUBSCRIBE", channel |-> u, by |-> c]
  <2>2. s \in Server /\ u \in User
    BY DEF UsersOn
  <2>3. x \in Cmd /\ x.channel = u
    BY <2>2 DEF Cmd
  <2>4. cmdQueue'[s] = Append(cmdQueue[s], x) /\ \A r \in Server : r # s => cmdQueue'[r] = cmdQueue[r]
    BY <2>1, <2>2, EnqueueTypes DEF Types
  <2>5. cmdQueue[s] \in Seq(Cmd)
    BY <2>2 DEF Types, QueueT
  <2>6. /\ userIdConn'[s][u] = None
        /\ \A r \in Server, v \in User : ~(r = s /\ v = u) => userIdConn'[r][v] = userIdConn[r][v]
    BY <2>1, <2>2 DEF Types, MapT
  <2>7. UNCHANGED <<subLoop, channels, login>>
    BY <1>7 DEF Close
  <2> HIDE DEF x
  <2>8. ASSUME NEW r \in Server, NEW v \in User PROVE Fine(r, v)
    <3>1. CASE r = s /\ v = u
      BY <2>6, <3>1 DEF Fine
    <3>2. CASE ~(r = s /\ v = u)
      <4>1. Asks(cmdQueue[r], channels[r], v) => Asks(cmdQueue'[r], channels'[r], v)
        <5>1. CASE r = s
          <6>1. x.channel # v
            BY <2>3, <3>2, <5>1
          <6>2. Asks(cmdQueue[s], channels[s], v) => Asks(Append(cmdQueue[s], x), channels[s], v)
            BY <2>3, <2>5, <6>1, AsksAppend
          <6> QED
            BY <2>4, <2>7, <5>1, <6>2
        <5>2. CASE r # s
          BY <2>4, <2>7, <5>2
        <5> QED
          BY <5>1, <5>2
      <4>2. Mapping(r, v) => StillMapping(r, v)
        BY <2>6, <2>7, <3>2
      <4> QED
        BY <1>2, <2>6, <2>7, <3>2, <4>1, <4>2 DEF Fine
    <3> QED
      BY <3>1, <3>2
  <2> QED
    BY <1>1, <2>8
<1>8. ASSUME NEW s \in Server, RunCommand(s) PROVE Subscribed'
  <2> DEFINE q == cmdQueue[s]
  <2>1. q \in Seq(Cmd) /\ q # <<>>
    BY <1>8 DEF RunCommand, Types, QueueT
  <2>2. /\ cmdQueue'[s] = Tail(q)
        /\ channels'[s] = IF Head(q).type = "SUBSCRIBE" THEN channels[s] \cup {Head(q).channel}
                                                        ELSE channels[s] \ {Head(q).channel}
        /\ \A r \in Server : r # s => cmdQueue'[r] = cmdQueue[r] /\ channels'[r] = channels[r]
    BY <1>8 DEF RunCommand, Types, QueueT, ChannelT
  <2>3. UNCHANGED <<subLoop, userIdConn, login>>
    BY <1>8 DEF RunCommand
  <2>4. ASSUME NEW r \in Server, NEW v \in User PROVE Fine(r, v)
    <3>1. Asks(cmdQueue[r], channels[r], v) => Asks(cmdQueue'[r], channels'[r], v)
      <4>1. CASE r = s
        <5>1. Asks(q, channels[s], v) =>
                  Asks(Tail(q), IF Head(q).type = "SUBSCRIBE" THEN channels[s] \cup {Head(q).channel}
                                ELSE channels[s] \ {Head(q).channel}, v)
          <6> HIDE DEF q
          <6> QED
            BY <2>1, AsksRun
        <5> QED
          BY <2>2, <4>1, <5>1
      <4>2. CASE r # s
        BY <2>2, <4>2
      <4> QED
        BY <4>1, <4>2
    <3>2. Mapping(r, v) => StillMapping(r, v)
      BY <2>3
    <3> QED
      BY <1>2, <2>3, <3>1, <3>2 DEF Fine
  <2> QED
    BY <1>1, <2>4
<1>9. ASSUME NEW s \in Server, ReadReply(s) \/ RedisHandler(s) PROVE Subscribed'
  <2>1. UNCHANGED <<userIdConn, cmdQueue, channels, login>>
    BY <1>9 DEF ReadReply, RedisHandler
  <2>2. subLoop[s] # Ended
    <3>1. Idle.type # Ended.type /\ Ended.type # "message"
      BY DEF Idle, Ended
    <3> QED
      BY <1>9, <3>1 DEF ReadReply, RedisHandler
  <2>3. \A r \in Server : subLoop[r] = Ended => subLoop'[r] = Ended
    BY <1>9, <2>2 DEF ReadReply, RedisHandler, Types, LoopT
  <2>4. ASSUME NEW r \in Server, NEW v \in User PROVE Fine(r, v)
    BY <1>3, <2>1, <2>3
  <2> QED
    BY <1>1, <2>4
<1>10. ASSUME NEW s \in Server, SubLoopEnds(s) PROVE Subscribed'
  <2>1. /\ UNCHANGED <<userIdConn, login>> /\ subLoop'[s] = Ended
        /\ \A r \in Server : r # s => /\ subLoop'[r] = subLoop[r] /\ cmdQueue'[r] = cmdQueue[r]
                                      /\ channels'[r] = channels[r]
    BY <1>10 DEF SubLoopEnds, Types, LoopT, QueueT, ChannelT
  <2>2. ASSUME NEW r \in Server, NEW v \in User PROVE Fine(r, v)
    <3>1. CASE r = s
      BY <2>1, <3>1 DEF Fine
    <3>2. CASE r # s
      BY <1>3, <2>1, <3>2
    <3> QED
      BY <3>1, <3>2
  <2> QED
    BY <1>1, <2>2
<1>11. ASSUME NEW s \in Server, NEW old \in {Used(s), Here(s)}, Exit(s, old) \/ Die(s, old) PROVE Subscribed'
  <2>1. NewProcess(s, old)
    BY <1>11 DEF Exit, Die
  <2>2. /\ \A v \in User : userIdConn'[s][v] = None
        /\ \A r \in Server : r # s => /\ subLoop'[r] = subLoop[r] /\ cmdQueue'[r] = cmdQueue[r]
                                      /\ channels'[r] = channels[r] /\ userIdConn'[r] = userIdConn[r]
    BY <2>1 DEF NewProcess, Types, LoopT, QueueT, ChannelT, MapT
  <2>3. \A l \in Login : login[l].conn \notin Here(s) => login'[l] = login[l]
    BY <2>1 DEF NewProcess
  <2>4. ASSUME NEW r \in Server, NEW v \in User PROVE Fine(r, v)
    <3>1. CASE r = s
      BY <2>2, <3>1 DEF Fine
    <3>2. CASE r # s
      <4>1. userIdConn[r][v] # None => userIdConn[r][v] \notin Here(s)
        BY <3>2 DEF Mapped, Here
      <4>2. userIdConn[r][v] # None /\ Mapping(r, v) => StillMapping(r, v)
        BY <2>2, <2>3, <3>2, <4>1
      <4> QED
        BY <1>2, <2>2, <3>2, <4>2 DEF Fine
    <3> QED
      BY <3>1, <3>2
  <2> QED
    BY <1>1, <2>4
<1>12. ASSUME NEW s \in Server, NEW reached \in BOOLEAN, SigInt(s, reached) PROVE Subscribed'
  BY <1>4, <1>12 DEF SigInt
<1>13. ASSUME ClientStep PROVE Subscribed'
  <2>1. ASSUME NEW l \in Login, NEW c \in Conn, NEW u \in User, LoginQuery(l, c, u) PROVE Subscribed'
    <3>1. \A k \in Login : login[k].pc = "mapped" => login'[k] = login[k]
      BY <2>1 DEF LoginQuery, Types, LoginT
    <3> QED
      BY <1>4, <2>1, <3>1 DEF LoginQuery
  <2> QED
    BY <1>4, <1>13, <2>1 DEF ClientStep, Ref, AckMessage, Disconnect
<1>14. ASSUME NEW m \in Msg, NEW s \in Server, NEW u \in User, NEW ok \in BOOLEAN, Store(m, s, u, ok)
       PROVE  Subscribed'
  BY <1>4, <1>14 DEF Store
<1>15. ASSUME NEW l \in Login, LoginStep(l) PROVE Subscribed'
  <2>1. ASSUME LoginOnline(l) \/ LoginOffline(l) \/ \E timeout \in BOOLEAN : SubscribeReturns(l, timeout)
        PROVE  Subscribed'
    <3>1. login[l].pc # "mapped" /\ \E pc \in {"subscribed", "online", "done"} : LoginAt(l, pc)
      BY <2>1 DEF LoginOnline, LoginOffline, SubscribeReturns
    <3>2. \A k \in Login : login[k].pc = "mapped" => login'[k] = login[k]
      BY <3>1, LoginPcMoves DEF Types, LoginPc
    <3> QED
      BY <1>4, <2>1, <3>2 DEF LoginOnline, LoginOffline, SubscribeReturns
  <2> QED
    BY <1>5, <1>6, <1>15, <2>1 DEF LoginStep
<1>16. ASSUME NEW c \in Conn, CloseStep(c) PROVE Subscribed'
  BY <1>4, <1>7, <1>16 DEF CloseStep, CloseUnknown, UnsubscribeReturns, CloseOffline
<1>17. ASSUME NEW m \in Msg, MessageStep(m) PROVE Subscribed'
  BY <1>4, <1>17 DEF MessageStep, Lookup, QueryState, Publish
<1>18. ASSUME NEW s \in Server, SubLoopStep(s) PROVE Subscribed'
  BY <1>8, <1>9, <1>18 DEF SubLoopStep
<1>19. CASE UNCHANGED vars
  BY <1>4, <1>19 DEF vars
<1> QED
  BY <1>10, <1>11, <1>12, <1>13, <1>14, <1>15, <1>16, <1>17, <1>18, <1>19 DEF Steps, Next

-----------------------------------------------------------------------------
(* The invariant *)

ChatInv == Types /\ Handlers /\ Mapped /\ Delivered /\ Pushed /\ Subscribed

\* A chat system without accounts in use starts so.
LEMMA InitChat == Init => ChatInv
<1> SUFFICES ASSUME Init PROVE ChatInv
  OBVIOUS
<1> USE ChatAssumption DEF Init
<1>1. UserT /\ StatusT /\ ConnT /\ LeavingT /\ MapT
  BY DEF UserT, StatusT, ConnT, ConnState, LeavingT, MapT
<1>2. LoginT /\ MsgT
  BY DEF LoginT, LoginPc, MsgT, MsgPc
<1>3. MutexT /\ QueueT /\ ChannelT /\ ReplyT /\ LoopT /\ SentT
  BY DEF MutexT, QueueT, ChannelT, ReplyT, LoopT, SentT
<1>4. Types
  BY <1>1, <1>2, <1>3 DEF Types
<1>5. Handlers
  BY DEF Handlers
<1>6. Mapped /\ Subscribed
  BY DEF Mapped, Subscribed
<1>7. Delivered
  BY DEF Delivered, Looked
<1>8. Pushed
  BY NoPush DEF Pushed
<1> QED
  BY <1>4, <1>5, <1>6, <1>7, <1>8 DEF ChatInv

\* Every step of handlers, clients, Redis and processes that end keeps it.
LEMMA ChatStep == ChatInv /\ [Steps]_vars => ChatInv'
<1> SUFFICES ASSUME ChatInv, [Steps]_vars PROVE ChatInv'
  OBVIOUS
<1>1. Types' /\ Moves
  BY TypesStep, NextMoves DEF ChatInv
<1>2. Handlers' /\ Mapped'
  BY <1>1, HandlersStep, MappedStep DEF ChatInv
<1>3. Delivered'
  BY <1>1, <1>2, DeliveredStep DEF ChatInv
<1>4. Pushed'
  BY <1>1, PushedStep DEF ChatInv
<1>5. Subscribed'
  BY <1>1, <1>2, SubscribedStep DEF ChatInv
<1> QED
  BY <1>1, <1>2, <1>3, <1>4, <1>5 DEF ChatInv

\* The chat servers stay in the states ChatInv describes, with any number of users,
\* connections, logins, servers, messages and faults.
THEOREM ChatInvariance == Spec => []ChatInv
<1>1. [Next]_vars => [Steps]_vars
  BY DEF Steps
<1> QED
  BY <1>1, InitChat, ChatStep, PTL DEF Spec

\* Types are kept, and _connMutex is held across a wait only by the clientColse of a
\* connection of its server that waits for unsubscribe.
THEOREM ChatTyped == Spec => []TypeOK
<1>1. ChatInv => TypeOK
  BY TypesOK DEF ChatInv
<1> QED
  BY <1>1, ChatInvariance, PTL

\* What the subscriptions of a server owe to the state its handlers are in.
LEMMA SubscribedToMapped == ChatInv => MappedSubscribed
<1> SUFFICES ASSUME ChatInv, NEW s \in Server, NEW u \in User,
                    subLoop[s] # Ended, userIdConn[s][u] # None,
                    \A l \in Login : login[l].user = u /\ login[l].conn = userIdConn[s][u] =>
                        login[l].pc \in {"subscribing", "subscribed", "online", "done"}
             PROVE  IF Pending(s, u) = {} THEN u \in channels[s]
                    ELSE cmdQueue[s][Max(Pending(s, u))].type = "SUBSCRIBE"
  BY DEF MappedSubscribed
<1>1. Asks(cmdQueue[s], channels[s], u)
  BY DEF ChatInv, Subscribed
<1> QED
  BY <1>1, AsksLast DEF ChatInv

\* What has been sent owes to it.
LEMMA DeliveredLocally == ChatInv => LocalDelivery
<1> SUFFICES ASSUME ChatInv, NEW m \in Msg, NEW c, c = userIdConn[msg[m].at][msg[m].to],
                    msg[m].pc = "done", status[m] = "unread", c # None, conn[c] = "open",
                    \A l \in Login : login[l].conn = c /\ login[l].user = msg[m].to =>
                                         login[l].pc = "done"
             PROVE  m \in sent[c]
  BY DEF LocalDelivery
<1> QED
  BY DEF ChatInv, Delivered, Delivering, Looked

\* No unsubscribe of an earlier session comes after the subscribe of a later one: a server
\* whose subLoop works is subscribed, or about to be, to the users it has connections for.
\* It rests on _connMutex being held while clientColse erases the entry and unsubscribes.
THEOREM MappedStaySubscribed == Spec => []MappedSubscribed
  BY SubscribedToMapped, ChatInvariance, PTL

\* A message stored by a server reaches the recipient whose connection that server has,
\* whichever way the steps of onemessage fall between those of login.
THEOREM LocalMessagesDelivered == Spec => []LocalDelivery
  BY DeliveredLocally, ChatInvariance, PTL

-----------------------------------------------------------------------------
(* The mailbox *)

\* Nobody gets into or out of Owners while the handlers keep their arguments.
LEMMA SameOwners ==
    ASSUME \A l \in Login : login'[l].conn = login[l].conn /\ login'[l].user = login[l].user
    PROVE  \A c : Owners(c)' = Owners(c)
  BY DEF Owners

\* A step that stores, sends and reads nothing and lets nobody in is none of the mailbox.
LEMMA MailboxStutters ==
    ASSUME \A l \in Login : login'[l].conn = login[l].conn /\ login'[l].user = login[l].user,
           \A m \in Msg : msg'[m].to = msg[m].to,
           UNCHANGED <<status, sent>>
    PROVE  UNCHANGED Boxes!vars
<1>1. \A c : Owners(c)' = Owners(c)
  BY SameOwners
<1> QED
  BY <1>1 DEF Boxes!vars

\* Writing messages of their owners to a connection is a delivery, or nothing if the
\* connection is down.
LEMMA MailboxDelivers ==
    ASSUME Types, NEW c \in Conn, NEW M \in SUBSET Msg, sent' = Written(c, M),
           \A m \in M : status[m] # "none" /\ msg[m].to \in Owners(c),
           \A l \in Login : login'[l].conn = login[l].conn /\ login'[l].user = login[l].user,
           \A m \in Msg : msg'[m].to = msg[m].to,
           UNCHANGED status
    PROVE  [Boxes!Next]_Boxes!vars
<1>1. CASE conn[c] # "open"
  <2>1. sent' = sent
    BY <1>1 DEF Written
  <2> QED
    BY <2>1, MailboxStutters
<1>2. CASE conn[c] = "open"
  <2>1. /\ sent'[c] = sent[c] \cup M
        /\ \A d \in Conn : d # c => sent'[d] = sent[d]
    BY <1>2, WrittenGrows DEF Types
  <2>2. \A d : Owners(d)' = Owners(d)
    BY SameOwners
  <2>3. \A m \in Msg : {d \in Conn : m \in sent'[d]} =
                           IF m \in M THEN {d \in Conn : m \in sent[d]} \cup {c}
                           ELSE {d \in Conn : m \in sent[d]}
    BY <2>1
  <2>4. Boxes!Deliver(M, c)
    BY <2>2, <2>3 DEF Boxes!Deliver
  <2> QED
    BY <2>4 DEF Boxes!Next
<1> QED
  BY <1>1, <1>2

\* No message and nobody logged in is an empty mailbox.
LEMMA MailboxStarts == Init => Boxes!Init
<1> SUFFICES ASSUME Init PROVE Boxes!Init
  OBVIOUS
<1>1. \A c \in Conn : Owners(c) = {}
  BY ChatAssumption DEF Init, Owners
<1> QED
  BY <1>1 DEF Init, Boxes!Init

\* Every step of the servers is a step of the mailbox or none.
LEMMA MailboxStep == ChatInv /\ [Steps]_vars => [Boxes!Next]_Boxes!vars
<1> SUFFICES ASSUME ChatInv, [Steps]_vars PROVE [Boxes!Next]_Boxes!vars
  OBVIOUS
<1> USE ChatAssumption
<1> USE DEF sessionVars, messageVars, redisVars, stopVars
<1>0. /\ Types
      /\ \A l \in Login : login[l].pc # "none" => login[l].conn \in Conn /\ login[l].user \in User
      /\ \A m \in Msg : msg[m].pc # "none" => /\ msg[m].at \in Server /\ msg[m].to \in User
                                              /\ status[m] # "none"
  BY DEF ChatInv, Handlers
<1>1. \A s \in Server, u \in User :
          LET c == userIdConn[s][u] IN c # None => c \in Conn /\ u \in Owners(c)
  BY <1>0 DEF ChatInv, Mapped, Owners, Types, MapT
<1>2. \A m \in Msg : status[m] # "none" => msg[m].pc # "none"
  BY DEF ChatInv, Handlers
<1>3. ASSUME UNCHANGED <<login, msg, status, sent>> PROVE UNCHANGED Boxes!vars
  BY <1>3, MailboxStutters
<1>4. ASSUME NEW l \in Login, NEW c \in Conn, NEW u \in User, LoginQuery(l, c, u)
      PROVE  Boxes!LogIn(c, u)
  <2>1. login[l].conn = None /\ UNCHANGED <<msg, status, sent>>
    BY <1>4 DEF LoginQuery, ChatInv, Handlers
  <2>2. /\ login'[l].conn = c /\ login'[l].user = u
        /\ \A k \in Login : k # l => login'[k] = login[k]
    BY <1>0, <1>4 DEF LoginQuery, Types, LoginT
  <2>3. ASSUME NEW d \in Conn PROVE Owners(d)' = IF d = c THEN Owners(d) \cup {u} ELSE Owners(d)
    <3>1. d # None
      OBVIOUS
    <3>2. \A v : v \in Owners(d) <=> \E k \in Login : login[k].conn = d /\ login[k].user = v
      BY DEF Owners
    <3>3. \A v : v \in Owners(d)' <=> \E k \in Login : login'[k].conn = d /\ login'[k].user = v
      BY DEF Owners
    <3>4. \A v : v \in Owners(d)' <=> v \in Owners(d) \/ (d = c /\ v = u)
      BY <2>1, <2>2, <3>1, <3>2, <3>3
    <3> QED
      BY <3>4
  <2>4. [d \in Conn |-> Owners(d)'] = [[d \in Conn |-> Owners(d)] EXCEPT ![c] = @ \cup {u}]
    BY <2>3
  <2> QED
    BY <2>1, <2>4 DEF Boxes!LogIn
<1>5. ASSUME NEW m \in Msg, NEW s \in Server, NEW u \in User, NEW ok \in BOOLEAN, Store(m, s, u, ok)
      PROVE  Boxes!Post(m, u)
  <2>1. status[m] = "none" /\ UNCHANGED <<login, sent>>
    BY <1>2, <1>5 DEF Store
  <2>2. \E stored \in {"unread", "failed"} : status' = [status EXCEPT ![m] = stored]
    BY <1>5 DEF Store
  <2>3. msg'[m].to = u /\ \A k \in Msg : k # m => msg'[k] = msg[k]
    BY <1>0, <1>5 DEF Store, Types, MsgT
  <2>4. [k \in Msg |-> msg'[k].to] = [[k \in Msg |-> msg[k].to] EXCEPT ![m] = u]
    BY <2>3
  <2>5. \A d : Owners(d)' = Owners(d)
    BY <2>1, SameOwners
  <2> QED
    BY <2>1, <2>2, <2>4, <2>5 DEF Boxes!Post
<1>6. ASSUME NEW c \in Conn, NEW m \in Msg, AckMessage(c, m) PROVE Boxes!Acknowledge(m)
  <2>1. UNCHANGED <<login, msg, sent>> /\ status[m] = "unread" /\ m \in sent[c]
        /\ status' = [status EXCEPT ![m] = "read"]
    BY <1>6 DEF AckMessage
  <2>2. \A d : Owners(d)' = Owners(d)
    BY <2>1, SameOwners
  <2> QED
    BY <2>1, <2>2 DEF Boxes!Acknowledge
<1>7. ASSUME NEW l \in Login, LoginStep(l) PROVE [Boxes!Next]_Boxes!vars
  <2>1. PICK pc \in LoginPc : LoginAt(l, pc)
    BY <1>7 DEF LoginStep, LoginMap, LoginSubscribe, SubscribeReturns, LoginOnline, LoginOffline,
                LoginPc
  <2>2. \A k \in Login : login'[k].conn = login[k].conn /\ login'[k].user = login[k].user
    BY <1>0, <2>1, LoginPcMoves DEF Types
  <2>3. UNCHANGED <<status, msg>>
    BY <1>7 DEF LoginStep, LoginMap, LoginSubscribe, SubscribeReturns, LoginOnline, LoginOffline
  <2>4. CASE LoginOffline(l)
    <3> DEFINE c == login[l].conn
               M == Unread(login[l].user)
    <3>1. c \in Conn /\ M \in SUBSET Msg /\ sent' = Written(c, M)
      BY <1>0, <2>4 DEF LoginOffline, Unread
    <3>2. login[l].user \in Owners(c)
      BY DEF Owners
    <3>3. \A m \in M : status[m] # "none" /\ msg[m].to \in Owners(c)
      BY <3>2 DEF Unread
    <3> HIDE DEF c, M
    <3> QED
      BY <1>0, <2>2, <2>3, <3>1, <3>3, MailboxDelivers
  <2>5. CASE ~LoginOffline(l)
    <3>1. UNCHANGED sent
      BY <1>7, <2>5 DEF LoginStep, LoginMap, LoginSubscribe, SubscribeReturns, LoginOnline
    <3> QED
      BY <2>2, <2>3, <3>1, MailboxStutters
  <2> QED
    BY <2>4, <2>5
<1>8. ASSUME NEW m \in Msg, MessageStep(m) PROVE [Boxes!Next]_Boxes!vars
  <2>1. PICK pc \in MsgPc : MsgAt(m, pc)
    BY <1>8 DEF MessageStep, Lookup, QueryState, Publish, MsgPc
  <2>2. \A k \in Msg : msg'[k].to = msg[k].to
    BY <1>0, <2>1, MsgPcMoves DEF Types
  <2>3. UNCHANGED <<status, login>>
    BY <1>8 DEF MessageStep, Lookup, QueryState, Publish
  <2> DEFINE c == userIdConn[msg[m].at][msg[m].to]
  <2>4. CASE Lookup(m) /\ c # None
    <3>1. msg[m].pc = "stored" /\ sent' = Written(c, {m})
      BY <2>4 DEF Lookup
    <3>2. c \in Conn /\ msg[m].to \in Owners(c) /\ status[m] # "none"
      BY <1>0, <1>1, <2>4, <3>1
    <3>3. {m} \in SUBSET Msg /\ \A k \in {m} : status[k] # "none" /\ msg[k].to \in Owners(c)
      BY <3>2
    <3> HIDE DEF c
    <3> QED
      BY <1>0, <2>2, <2>3, <3>1, <3>2, <3>3, MailboxDelivers
  <2>5. CASE ~(Lookup(m) /\ c # None)
    <3>1. UNCHANGED sent
      BY <1>8, <2>5 DEF MessageStep, Lookup, QueryState, Publish
    <3> QED
      BY <2>2, <2>3, <3>1, MailboxStutters
  <2> QED
    BY <2>4, <2>5
<1>9. ASSUME NEW s \in Server, SubLoopStep(s) PROVE [Boxes!Next]_Boxes!vars
  <2> DEFINE p == subLoop[s]
             c == userIdConn[s][p.channel]
  <2>1. UNCHANGED <<status, login, msg>>
    BY <1>9 DEF SubLoopStep, RunCommand, ReadReply, RedisHandler
  <2>2. CASE RedisHandler(s) /\ c # None
    <3>1. p \in Push
      BY <1>0, <2>2 DEF RedisHandler, Types, LoopT, Idle, Ended
    <3>2. p.channel \in User /\ p.msg \in Msg /\ msg[p.msg].pc # "none" /\ msg[p.msg].to = p.channel
      BY <3>1 DEF Push, ChatInv, Pushed, Genuine
    <3>3. c \in Conn /\ msg[p.msg].to \in Owners(c) /\ status[p.msg] # "none"
      BY <1>0, <1>1, <2>2, <3>2
    <3>4. sent' = Written(c, {p.msg})
      BY <2>2 DEF RedisHandler
    <3>5. {p.msg} \in SUBSET Msg /\ \A k \in {p.msg} : status[k] # "none" /\ msg[k].to \in Owners(c)
      BY <3>2, <3>3
    <3> HIDE DEF c, p
    <3> QED
      BY <1>0, <2>1, <3>3, <3>4, <3>5, MailboxDelivers
  <2>3. CASE ~(RedisHandler(s) /\ c # None)
    <3>1. UNCHANGED sent
      BY <1>9, <2>3 DEF SubLoopStep, RunCommand, ReadReply, RedisHandler
    <3> QED
      BY <1>3, <2>1, <3>1
  <2> QED
    BY <2>2, <2>3
<1>10. ASSUME NEW s \in Server, NEW old \in {Used(s), Here(s)}, Exit(s, old) \/ Die(s, old) PROVE UNCHANGED Boxes!vars
  <2>1. NewProcess(s, old)
    BY <1>10 DEF Exit, Die
  <2>2. \A l \in Login : login'[l].conn = login[l].conn /\ login'[l].user = login[l].user
    BY <1>0, <2>1 DEF NewProcess, Types, LoginT
  <2>3. \A m \in Msg : msg'[m].to = msg[m].to
    BY <1>0, <2>1 DEF NewProcess, Types, MsgT
  <2>4. UNCHANGED <<status, sent>>
    BY <2>1 DEF NewProcess
  <2> QED
    BY <2>2, <2>3, <2>4, MailboxStutters
<1>11. ASSUME NEW c \in Conn, CloseStep(c) PROVE UNCHANGED Boxes!vars
  BY <1>3, <1>11 DEF CloseStep, CloseUnknown, Close, UnsubscribeReturns, CloseOffline
<1>12. ASSUME NEW s \in Server, SubLoopEnds(s) \/ \E reached \in BOOLEAN : SigInt(s, reached) PROVE UNCHANGED Boxes!vars
  BY <1>3, <1>12 DEF SigInt, SubLoopEnds
<1>13. ASSUME ClientStep PROVE [Boxes!Next]_Boxes!vars
  <2>1. ASSUME NEW u \in User, Ref(u) PROVE UNCHANGED Boxes!vars
    BY <1>3, <2>1 DEF Ref
  <2>2. ASSUME NEW c \in Conn, Disconnect(c) PROVE UNCHANGED Boxes!vars
    BY <1>3, <2>2 DEF Disconnect
  <2> QED
    BY <1>4, <1>6, <1>13, <2>1, <2>2 DEF ClientStep, Boxes!Next
<1>14. CASE UNCHANGED vars
  BY <1>3, <1>14 DEF vars
<1>15. ASSUME NEW m \in Msg, NEW s \in Server, NEW u \in User, NEW ok \in BOOLEAN, Store(m, s, u, ok)
       PROVE  Boxes!Next
  BY <1>5, <1>15 DEF Boxes!Next
<1> QED
  BY <1>7, <1>8, <1>9, <1>10, <1>11, <1>12, <1>13, <1>14, <1>15 DEF Steps, Next

\* The servers together are a Mailbox, however many there are and whatever fails: a message
\* leaves only on connections its recipient has logged in on, is read only after it has
\* left on one, and is never unread again or replaced.
THEOREM ChatImplementsMailbox == Spec => ImplementsMailbox
<1>1. ChatInv /\ [Next]_vars => [Boxes!Next]_Boxes!vars
  BY MailboxStep DEF Steps
<1> QED
  BY <1>1, MailboxStarts, ChatInvariance, PTL DEF Spec, ImplementsMailbox, Boxes!Spec

-----------------------------------------------------------------------------
(* Clients: what is on its way *)

\* A login on c has been accepted, or ended with its server
Session(c) == \E l \in Login : login[l].conn = c /\ login[l].pc \in {"online", "done", "killed"}

\* What the client of c may have on its way to the server
Request(c) ==
    [type : {"LOGIN"}, user : User, n : Nat] \cup [type : {"REF"}, n : Nat]
        \cup [type : {"ONE_MESSAGE"}, msg : Msg, to : User]
        \cup [type : {"ACK_MESSAGE"}, msg : shown[c]]

\* What may be on its way to it
Response(c) ==
    [type : {"LOGIN_ACK"}, ok : {b \in BOOLEAN : b => Session(c)}, name : User \cup {None}]
        \cup [type : {"REF_ACK"}] \cup [type : {"ONE_MESSAGE"}, msg : sent[c]]

Globals ==
    [main : {"menu", "login", "register", "waiting", "closing", "ended"}, recv : {"running", "ended"},
     running : BOOLEAN, loggedIn : BOOLEAN, myId : User \cup {None}, arrived : BOOLEAN,
     garbled : BOOLEAN, requests : Nat]
ClientT == client \in [Conn -> Globals]
UpT == up = [c \in Conn |-> up[c]] /\ \A c \in Conn : up[c] \in Seq(Request(c))
TasksT == \A t \in tasks : /\ t.conn \in Conn /\ t.req \in Request(t.conn)
                           /\ t = [conn |-> t.conn, req |-> t.req]
DownT == down = [c \in Conn |-> down[c]] /\ \A c \in Conn : down[c] \in Seq(Response(c))
ShownT == shown \in [Conn -> SUBSET Msg] /\ \A c \in Conn : shown[c] \subseteq sent[c]

\* The main menu
LoggedIn == \A c \in Conn : client[c].loggedIn => Session(c)

\* The column status
ReadShown == \A m \in Msg : status[m] = "read" => \E c \in Conn : m \in shown[c]

\* What has been written is a message to an owner of the connection
SentOwned == \A c \in Conn : \A m \in sent[c] : status[m] # "none" /\ msg[m].to \in Owners(c)

ClientInv ==
    ChatInv /\ ClientT /\ UpT /\ TasksT /\ DownT /\ ShownT /\ LoggedIn /\ ReadShown /\ SentOwned

-----------------------------------------------------------------------------
(* Every step is one of the servers *)

\* A handler of the pool, and what the client has to do with it, is a handler of
\* ChatService: an acknowledgement that arrives is one of a message that was sent.
LEMMA TaskSteps == ASSUME ClientInv, NEW t \in tasks, RunTask(t) PROVE [Steps]_vars
<1> USE DEF sessionVars, messageVars, redisVars, stopVars
<1>0. t.conn \in Conn /\ t.req \in Request(t.conn)
  BY DEF ClientInv, TasksT
<1>1. CASE RunLogin(t)
  <2>1. t.req.user \in User
    BY <1>0, <1>1 DEF RunLogin, Request
  <2>2. CASE UNCHANGED vars
    BY <2>2
  <2>3. CASE /\ \E l \in Login : Unused(l)
             /\ LoginQuery(CHOOSE l \in Login : Unused(l), t.conn, t.req.user)
             /\ UNCHANGED stopVars
    <3>1. (CHOOSE l \in Login : Unused(l)) \in Login
      BY <2>3
    <3>2. ClientStep
      BY <1>0, <2>1, <2>3, <3>1 DEF ClientStep
    <3> QED
      BY <3>2 DEF Steps, Next
  <2> QED
    BY <1>1, <2>2, <2>3 DEF RunLogin
<1>2. CASE RunRef(t)
  BY <1>2 DEF RunRef, Steps, Next, ClientStep
<1>3. ASSUME NEW ok \in BOOLEAN, RunMessage(t, ok) PROVE [Steps]_vars
  <2>1. t.req.msg \in Msg /\ t.req.to \in User /\ ServerOf[t.conn] \in Server
    BY <1>0, <1>3, ChatAssumption DEF RunMessage, Request
  <2> QED
    BY <1>3, <2>1 DEF RunMessage, Steps, Next
<1>4. CASE RunAck(t)
  <2> DEFINE m == t.req.msg
  <2>1. m \in shown[t.conn]
    BY <1>0, <1>4 DEF RunAck, Request
  <2>2. m \in sent[t.conn] /\ m \in Msg
    BY <1>0, <2>1 DEF ClientInv, ShownT
  <2>3. status \in [Msg -> {"none", "unread", "read", "failed"}]
    BY DEF ClientInv, ChatInv, Types, StatusT
  <2>4. status' = [k \in Msg |-> IF k = m /\ status[k] = "unread" THEN "read" ELSE status[k]]
    BY <1>4 DEF RunAck, Acknowledges
  <2> HIDE DEF m
  <2>5. CASE status[m] = "unread"
    <3>1. status' = [status EXCEPT ![m] = "read"]
      BY <2>2, <2>3, <2>4, <2>5
    <3>2. AckMessage(t.conn, m) /\ UNCHANGED stopVars
      BY <1>4, <2>2, <2>5, <3>1 DEF AckMessage, RunAck
    <3> QED
      BY <1>0, <2>2, <3>2 DEF Steps, Next, ClientStep
  <2>6. CASE status[m] # "unread"
    <3>1. status' = status
      BY <2>2, <2>3, <2>4, <2>6
    <3> QED
      BY <1>4, <3>1 DEF RunAck, vars
  <2> QED
    BY <2>5, <2>6
<1> QED
  BY <1>1, <1>2, <1>3, <1>4 DEF RunTask

\* Whatever clients, streams and the pool do, the servers take their own steps or none.
LEMMA ServerSteps == ASSUME ClientInv, [ClientNext]_allVars PROVE [Steps]_vars
<1> USE DEF Steps, Next
<1>1. ASSUME NEW c \in Conn, MainStep(c) \/ Join(c) \/ Abort(c) \/ \E timeout \in BOOLEAN : WaitEnds(c, timeout)
      PROVE  UNCHANGED vars
  <2>1. ASSUME MainStep(c) PROVE UNCHANGED vars
    <3>1. ASSUME NEW entry, NEW q, NEW id, Ask(c, entry, q, id) \/ Choose(c, entry) PROVE UNCHANGED vars
      BY <3>1 DEF Ask, Choose
    <3>2. ASSUME NEW m \in Msg, NEW u \in User, AskSend(c, m, u) PROVE UNCHANGED vars
      BY <3>2 DEF AskSend
    <3>3. ASSUME LogOut(c) \/ Leave(c) PROVE UNCHANGED vars
      BY <3>3 DEF LogOut, Leave
    <3> QED
      BY <2>1, <3>1, <3>2, <3>3 DEF MainStep, AskLogin, AskRegister
  <2>2. ASSUME Join(c) \/ Abort(c) PROVE UNCHANGED vars
    BY <2>2 DEF Join, Abort
  <2>3. ASSUME NEW timeout \in BOOLEAN, WaitEnds(c, timeout) PROVE UNCHANGED vars
    BY <2>3 DEF WaitEnds
  <2> QED
    BY <1>1, <2>1, <2>2, <2>3
<1>2. ASSUME NEW c \in Conn, ReceiveStep(c) \/ OnMessage(c) \/ Dropped(c) PROVE UNCHANGED vars
  BY <1>2 DEF ReceiveStep, Receive, Swallow, ReceiveEnds, OnMessage, Dropped
<1>3. ASSUME NEW c \in Conn, ClientGone(c) PROVE Steps
  BY <1>3 DEF ClientGone, ClientStep
<1>4. ASSUME NEW c \in Conn, BadRead(c) PROVE Steps
  BY <1>4, ChatAssumption DEF BadRead
<1>5. ASSUME NEW c \in Conn, ServeClose(c) PROVE Steps
  BY <1>5 DEF ServeClose
<1>6. ASSUME NEW l \in Login, ServeLogin(l) PROVE Steps
  BY <1>6 DEF ServeLogin
<1>7. ASSUME NEW m \in Msg, ServeMessage(m) PROVE Steps
  BY <1>7 DEF ServeMessage
<1>8. ASSUME NEW m \in Msg, NEW s \in Server, NEW u \in User, OtherSender(m, s, u) PROVE Steps
  BY <1>8 DEF OtherSender
<1>9. ASSUME NEW s \in Server, ServeRedis(s) \/ RedisBreaks(s) \/ Signal(s) \/ ServerExits(s) PROVE Steps
  BY <1>9 DEF ServeRedis, RedisBreaks, Signal, ServerExits
<1>10. CASE UNCHANGED allVars
  BY <1>10 DEF allVars
<1> HIDE DEF Steps, Next
<1> QED
  BY <1>1, <1>2, <1>3, <1>4, <1>5, <1>6, <1>7, <1>8, <1>9, <1>10, TaskSteps DEF ClientNext, FrontStep

-----------------------------------------------------------------------------
(* What the servers do to clients *)

\* A login that has been accepted stays so, or ends with its server.
LEMMA AcceptedStay ==
    ASSUME Types, Handlers, [Steps]_vars, NEW k \in Login, login[k].pc \in {"online", "done", "killed"}
    PROVE  login'[k].pc \in {"online", "done", "killed"}
<1> USE DEF sessionVars, messageVars, redisVars, stopVars
<1>1. ASSUME login' = login PROVE login'[k].pc \in {"online", "done", "killed"}
  BY <1>1
<1>2. ASSUME NEW l \in Login, NEW c \in Conn, NEW u \in User, LoginQuery(l, c, u)
      PROVE  login'[k].pc \in {"online", "done", "killed"}
  BY <1>2 DEF LoginQuery, Types, LoginT
<1>3. ASSUME NEW l \in Login, LoginStep(l) PROVE login'[k].pc \in {"online", "done", "killed"}
  <2>1. ASSUME NEW pc \in LoginPc, LoginAt(l, pc), l # k \/ pc = "done"
        PROVE  login'[k].pc \in {"online", "done", "killed"}
    BY <2>1, LoginPcMoves DEF Types
  <2>2. CASE LoginOffline(l)
    BY <2>1, <2>2 DEF LoginOffline, LoginPc
  <2>3. CASE l # k
    BY <1>3, <2>1, <2>3 DEF LoginStep, LoginMap, LoginSubscribe, SubscribeReturns, LoginOnline,
                            LoginOffline, LoginPc
  <2>4. CASE l = k /\ ~LoginOffline(l)
    BY <1>3, <2>4 DEF LoginStep, LoginMap, LoginSubscribe, SubscribeReturns, LoginOnline
  <2> QED
    BY <2>2, <2>3, <2>4
<1>4. ASSUME NEW s \in Server, NEW old, NewProcess(s, old) PROVE login'[k].pc \in {"online", "done", "killed"}
  BY <1>4 DEF NewProcess, Types, LoginT
<1>5. ASSUME NEW s \in Server, Exit(s, Used(s)) \/ Die(s, Used(s)) \/ Exit(s, Here(s)) \/ Die(s, Here(s))
      PROVE  login'[k].pc \in {"online", "done", "killed"}
  BY <1>4, <1>5 DEF Exit, Die
<1>6. ASSUME ClientStep PROVE login'[k].pc \in {"online", "done", "killed"}
  BY <1>1, <1>2, <1>6 DEF ClientStep, Ref, AckMessage, Disconnect
<1>7. ASSUME \/ \E m \in Msg, s \in Server, u \in User, ok \in BOOLEAN : Store(m, s, u, ok)
             \/ \E c \in Conn : CloseStep(c)
             \/ \E m \in Msg : MessageStep(m)
      PROVE  login'[k].pc \in {"online", "done", "killed"}
  BY <1>1, <1>7 DEF Store, CloseStep, CloseUnknown, Close, UnsubscribeReturns, CloseOffline,
                    MessageStep, Lookup, QueryState, Publish
<1>8. ASSUME NEW s \in Server, SubLoopStep(s) \/ SubLoopEnds(s) \/ \E reached \in BOOLEAN : SigInt(s, reached)
      PROVE  login'[k].pc \in {"online", "done", "killed"}
  BY <1>1, <1>8 DEF SubLoopStep, RunCommand, ReadReply, RedisHandler, SigInt, SubLoopEnds
<1>9. CASE UNCHANGED vars
  BY <1>1, <1>9 DEF vars
<1> QED
  BY <1>3, <1>5, <1>6, <1>7, <1>8, <1>9 DEF Steps, Next

\* Sessions and written messages are not taken back
Grows == \A c \in Conn : sent[c] \subseteq sent'[c] /\ (Session(c) => Session(c)')

\* The servers take nothing back that a client has been told.
LEMMA ServersGrow == ASSUME ChatInv, [Steps]_vars PROVE Grows
<1>1. Types /\ Handlers /\ Moves
  BY NextMoves DEF ChatInv
<1>2. \A c \in Conn : sent[c] \subseteq sent'[c]
  BY <1>1 DEF Moves, SentGrows
<1>3. ASSUME NEW c \in Conn, Session(c) PROVE Session(c)'
  <2>1. PICK l \in Login : login[l].conn = c /\ login[l].pc \in {"online", "done", "killed"}
    BY <1>3 DEF Session
  <2>2. login'[l].conn = c
    BY <1>1, <2>1 DEF Moves, LoginsMove
  <2>3. login'[l].pc \in {"online", "done", "killed"}
    BY <1>1, <2>1, AcceptedStay
  <2> QED
    BY <2>2, <2>3 DEF Session
<1> QED
  BY <1>2, <1>3 DEF Grows

\* What a mailbox delivers has a recipient among the owners, and keeps it.
LEMMA SentOwnedStep == ASSUME ChatInv, SentOwned, [Steps]_vars PROVE SentOwned'
<1>1. Types /\ Types' /\ [Boxes!Next]_Boxes!vars
  BY TypesStep, MailboxStep DEF ChatInv
<1>2. sent \in [Conn -> SUBSET Msg] /\ sent' \in [Conn -> SUBSET Msg] /\ DOMAIN status = Msg
  BY <1>1 DEF Types, SentT, StatusT
<1> DEFINE Is(m, c) == status'[m] # "none" /\ msg'[m].to \in Owners(c)'
<1>3. ASSUME NEW c \in Conn, NEW m \in sent'[c],
             {d \in Conn : m \in sent'[d]} = {d \in Conn : m \in sent[d]},
             msg'[m].to = msg[m].to, status[m] # "none" => status'[m] # "none",
             Owners(c) \subseteq Owners(c)'
      PROVE  Is(m, c)
  <2>1. m \in sent[c]
    BY <1>3
  <2> QED
    BY <1>3, <2>1 DEF SentOwned
<1>4. CASE UNCHANGED Boxes!vars
  <2>1. /\ status' = status
        /\ [m \in Msg |-> msg'[m].to] = [m \in Msg |-> msg[m].to]
        /\ [m \in Msg |-> {c \in Conn : m \in sent'[c]}] = [m \in Msg |-> {c \in Conn : m \in sent[c]}]
        /\ [c \in Conn |-> Owners(c)'] = [c \in Conn |-> Owners(c)]
    BY <1>4 DEF Boxes!vars
  <2>2. ASSUME NEW c \in Conn, NEW m \in sent'[c] PROVE Is(m, c)
    <3>1. m \in Msg
      BY <1>2
    <3>2. [k \in Msg |-> msg'[k].to][m] = [k \in Msg |-> msg[k].to][m]
      BY <2>1
    <3>3. [k \in Msg |-> {d \in Conn : k \in sent'[d]}][m] = [k \in Msg |-> {d \in Conn : k \in sent[d]}][m]
      BY <2>1
    <3>4. [d \in Conn |-> Owners(d)'][c] = [d \in Conn |-> Owners(d)][c]
      BY <2>1
    <3> QED
      BY <1>3, <2>1, <3>1, <3>2, <3>3, <3>4
  <2> QED
    BY <2>2 DEF SentOwned
<1>5. ASSUME NEW c \in Conn, NEW u \in User, Boxes!LogIn(c, u) PROVE SentOwned'
  <2>1. /\ status' = status
        /\ [m \in Msg |-> msg'[m].to] = [m \in Msg |-> msg[m].to]
        /\ [m \in Msg |-> {d \in Conn : m \in sent'[d]}] = [m \in Msg |-> {d \in Conn : m \in sent[d]}]
        /\ [d \in Conn |-> Owners(d)'] = [[d \in Conn |-> Owners(d)] EXCEPT ![c] = @ \cup {u}]
    BY <1>5 DEF Boxes!LogIn
  <2>2. ASSUME NEW d \in Conn, NEW m \in sent'[d] PROVE Is(m, d)
    <3>1. m \in Msg
      BY <1>2
    <3>2. [k \in Msg |-> msg'[k].to][m] = [k \in Msg |-> msg[k].to][m]
      BY <2>1
    <3>3. [k \in Msg |-> {e \in Conn : k \in sent'[e]}][m] = [k \in Msg |-> {e \in Conn : k \in sent[e]}][m]
      BY <2>1
    <3>4. [e \in Conn |-> Owners(e)'][d] = [[e \in Conn |-> Owners(e)] EXCEPT ![c] = @ \cup {u}][d]
      BY <2>1
    <3>5. Owners(d) \subseteq Owners(d)'
      BY <3>4
    <3> QED
      BY <1>3, <2>1, <3>1, <3>2, <3>3, <3>5
  <2> QED
    BY <2>2 DEF SentOwned
<1>6. ASSUME NEW p \in Msg, NEW u \in User, Boxes!Post(p, u) PROVE SentOwned'
  <2>1. /\ status[p] = "none" /\ \E stored \in {"unread", "failed"} : status' = [status EXCEPT ![p] = stored]
        /\ [m \in Msg |-> msg'[m].to] = [[m \in Msg |-> msg[m].to] EXCEPT ![p] = u]
        /\ [m \in Msg |-> {d \in Conn : m \in sent'[d]}] = [m \in Msg |-> {d \in Conn : m \in sent[d]}]
        /\ [d \in Conn |-> Owners(d)'] = [d \in Conn |-> Owners(d)]
    BY <1>6 DEF Boxes!Post
  <2>2. ASSUME NEW d \in Conn, NEW m \in sent'[d] PROVE Is(m, d)
    <3>1. m \in Msg
      BY <1>2
    <3>2. [k \in Msg |-> {e \in Conn : k \in sent'[e]}][m] = [k \in Msg |-> {e \in Conn : k \in sent[e]}][m]
      BY <2>1
    <3>3. m \in sent[d]
      BY <3>1, <3>2
    <3>4. m # p
      BY <2>1, <3>3 DEF SentOwned
    <3>5. [k \in Msg |-> msg'[k].to][m] = [[k \in Msg |-> msg[k].to] EXCEPT ![p] = u][m]
      BY <2>1
    <3>6. [e \in Conn |-> Owners(e)'][d] = [e \in Conn |-> Owners(e)][d]
      BY <2>1
    <3>7. status'[m] = status[m]
      BY <1>2, <2>1, <3>1, <3>4
    <3> QED
      BY <1>3, <3>1, <3>2, <3>4, <3>5, <3>6, <3>7
  <2> QED
    BY <2>2 DEF SentOwned
<1>7. ASSUME NEW c \in Conn, NEW M \in SUBSET Msg, Boxes!Deliver(M, c) PROVE SentOwned'
  <2>1. /\ status' = status
        /\ [m \in Msg |-> msg'[m].to] = [m \in Msg |-> msg[m].to]
        /\ [m \in Msg |-> {d \in Conn : m \in sent'[d]}] =
               [m \in Msg |-> IF m \in M THEN {d \in Conn : m \in sent[d]} \cup {c}
                                         ELSE {d \in Conn : m \in sent[d]}]
        /\ [d \in Conn |-> Owners(d)'] = [d \in Conn |-> Owners(d)]
    BY <1>7 DEF Boxes!Deliver
  <2>2. \A m \in M : status[m] # "none" /\ msg[m].to \in Owners(c)
    BY <1>7 DEF Boxes!Deliver
  <2>3. ASSUME NEW d \in Conn, NEW m \in sent'[d] PROVE Is(m, d)
    <3>1. m \in Msg
      BY <1>2
    <3>2. [k \in Msg |-> msg'[k].to][m] = [k \in Msg |-> msg[k].to][m]
      BY <2>1
    <3>3. [k \in Msg |-> {e \in Conn : k \in sent'[e]}][m] =
              [k \in Msg |-> IF k \in M THEN {e \in Conn : k \in sent[e]} \cup {c}
                                        ELSE {e \in Conn : k \in sent[e]}][m]
      BY <2>1
    <3>4. [e \in Conn |-> Owners(e)'][d] = [e \in Conn |-> Owners(e)][d]
      BY <2>1
    <3>5. m \in sent[d] \/ (m \in M /\ d = c)
      BY <3>1, <3>3
    <3> QED
      BY <2>1, <2>2, <3>1, <3>2, <3>4, <3>5 DEF SentOwned
  <2> QED
    BY <2>3 DEF SentOwned
<1>8. ASSUME NEW p \in Msg, Boxes!Acknowledge(p) PROVE SentOwned'
  <2>1. /\ status' = [status EXCEPT ![p] = "read"]
        /\ [m \in Msg |-> msg'[m].to] = [m \in Msg |-> msg[m].to]
        /\ [m \in Msg |-> {d \in Conn : m \in sent'[d]}] = [m \in Msg |-> {d \in Conn : m \in sent[d]}]
        /\ [d \in Conn |-> Owners(d)'] = [d \in Conn |-> Owners(d)]
    BY <1>8 DEF Boxes!Acknowledge
  <2>2. ASSUME NEW d \in Conn, NEW m \in sent'[d] PROVE Is(m, d)
    <3>1. m \in Msg
      BY <1>2
    <3>2. [k \in Msg |-> msg'[k].to][m] = [k \in Msg |-> msg[k].to][m]
      BY <2>1
    <3>3. [k \in Msg |-> {e \in Conn : k \in sent'[e]}][m] = [k \in Msg |-> {e \in Conn : k \in sent[e]}][m]
      BY <2>1
    <3>4. [e \in Conn |-> Owners(e)'][d] = [e \in Conn |-> Owners(e)][d]
      BY <2>1
    <3>5. status[m] # "none" => status'[m] # "none"
      BY <1>2, <2>1, <3>1
    <3> QED
      BY <1>3, <3>1, <3>2, <3>3, <3>4, <3>5
  <2> QED
    BY <2>2 DEF SentOwned
<1> QED
  BY <1>1, <1>4, <1>5, <1>6, <1>7, <1>8 DEF Boxes!Next

-----------------------------------------------------------------------------
(* Clients and streams *)

ClientPart == ClientT /\ UpT /\ TasksT /\ DownT /\ ShownT /\ LoggedIn /\ ReadShown

\* What a client may have on its way becomes more.
LEMMA WaysGrow ==
    ASSUME Grows, \A c \in Conn : shown[c] \subseteq shown'[c], NEW c \in Conn
    PROVE  /\ Request(c) \subseteq Request(c)' /\ Seq(Request(c)) \subseteq Seq(Request(c)')
           /\ Response(c) \subseteq Response(c)' /\ Seq(Response(c)) \subseteq Seq(Response(c)')
<1>1. Request(c) \subseteq Request(c)'
  BY DEF Request
<1>2. Response(c) \subseteq Response(c)'
  BY DEF Response, Grows
<1>3. ASSUME NEW A, NEW B, A \subseteq B PROVE Seq(A) \subseteq Seq(B)
  BY <1>3
<1> QED
  BY <1>1, <1>2, <1>3

\* A variable that is left alone keeps its part of the invariant.
LEMMA ClientFrame ==
    ASSUME ClientPart, Grows, \A c \in Conn : shown[c] \subseteq shown'[c]
    PROVE  /\ client' = client => ClientT' /\ LoggedIn'
           /\ up' = up => UpT'
           /\ tasks' \subseteq tasks => TasksT'
           /\ down' = down => DownT'
           /\ shown' = shown => ShownT'
           /\ (\A m \in Msg : status'[m] = "read" => status[m] = "read") => ReadShown'
<1>1. client' = client => ClientT' /\ LoggedIn'
  BY DEF ClientPart, ClientT, LoggedIn, Grows
<1>2. ASSUME up' = up PROVE UpT'
  <2>1. \A c \in Conn : up[c] \in Seq(Request(c)')
    BY WaysGrow DEF ClientPart, UpT
  <2> QED
    BY <1>2, <2>1 DEF ClientPart, UpT
<1>3. ASSUME tasks' \subseteq tasks PROVE TasksT'
  <2>1. \A t \in tasks : t.conn \in Conn => Request(t.conn) \subseteq Request(t.conn)'
    BY WaysGrow
  <2> QED
    BY <1>3, <2>1 DEF ClientPart, TasksT
<1>4. ASSUME down' = down PROVE DownT'
  <2>1. \A c \in Conn : down[c] \in Seq(Response(c)')
    BY WaysGrow DEF ClientPart, DownT
  <2> QED
    BY <1>4, <2>1 DEF ClientPart, DownT
<1>5. shown' = shown => ShownT'
  BY DEF ClientPart, ShownT, Grows
<1>6. (\A m \in Msg : status'[m] = "read" => status[m] = "read") => ReadShown'
  BY DEF ClientPart, ReadShown
<1> QED
  BY <1>1, <1>2, <1>3, <1>4, <1>5, <1>6

\* sendJson.
LEMMA Sends ==
    ASSUME ClientPart, Grows, \A c \in Conn : shown[c] \subseteq shown'[c],
           NEW c \in Conn, NEW q \in Request(c)', SendJson(c, q)
    PROVE  UpT'
<1>1. \A d \in Conn : up[d] \in Seq(Request(d)')
  BY WaysGrow DEF ClientPart, UpT
<1>2. up = [d \in Conn |-> up[d]]
  BY DEF ClientPart, UpT
<1>3. CASE up' = up
  BY <1>3, ClientFrame
<1>4. CASE up' = [up EXCEPT ![c] = Append(@, q)]
  <2>1. up'[c] = Append(up[c], q) /\ up' = [d \in Conn |-> up'[d]]
        /\ \A d \in Conn : d # c => up'[d] = up[d]
    BY <1>2, <1>4
  <2>2. Append(up[c], q) \in Seq(Request(c)')
    BY <1>1
  <2> QED
    BY <1>1, <2>1, <2>2 DEF UpT
<1> QED
  BY <1>3, <1>4 DEF SendJson

\* A request is taken off a stream, or the stream is lost.
LEMMA Reads ==
    ASSUME ClientPart, Grows, \A c \in Conn : shown[c] \subseteq shown'[c],
           up' = [d \in Conn |-> up'[d]],
           \A d \in Conn : up'[d] \in {up[d], <<>>} \/ (up[d] # <<>> /\ up'[d] = Tail(up[d]))
    PROVE  UpT'
<1>1. \A d \in Conn : up[d] \in Seq(Request(d)')
  BY WaysGrow DEF ClientPart, UpT
<1>2. ASSUME NEW d \in Conn PROVE up'[d] \in Seq(Request(d)')
  <2>1. up[d] \in Seq(Request(d)')
    BY <1>1
  <2>2. CASE up[d] # <<>> /\ up'[d] = Tail(up[d])
    <3>1. Tail(up[d]) \in Seq(Request(d)')
      BY <2>1, <2>2
    <3> QED
      BY <2>2, <3>1
  <2>3. CASE up'[d] = up[d]
    BY <2>1, <2>3
  <2>4. CASE up'[d] = <<>>
    <3>1. <<>> \in Seq(Request(d)')
      OBVIOUS
    <3> QED
      BY <2>4, <3>1
  <2> QED
    BY <1>2, <2>2, <2>3, <2>4
<1> QED
  BY <1>2 DEF UpT

\* What the servers write to a client.
LEMMA Replies ==
    ASSUME ClientPart, Grows, \A c \in Conn : shown[c] \subseteq shown'[c],
           NEW c \in Conn, NEW rs \in Seq(Response(c)'), down' = Reply(c, rs)
    PROVE  DownT'
<1>1. \A d \in Conn : down[d] \in Seq(Response(d)')
  BY WaysGrow DEF ClientPart, DownT
<1>2. down = [d \in Conn |-> down[d]]
  BY DEF ClientPart, DownT
<1>3. CASE down' = down
  BY <1>3, ClientFrame
<1>4. CASE down' = [down EXCEPT ![c] = @ \o rs]
  <2>1. down'[c] = down[c] \o rs /\ down' = [d \in Conn |-> down'[d]]
        /\ \A d \in Conn : d # c => down'[d] = down[d]
    BY <1>2, <1>4
  <2>2. down[c] \o rs \in Seq(Response(c)')
    BY <1>1
  <2> QED
    BY <1>1, <2>1, <2>2 DEF DownT
<1> QED
  BY <1>3, <1>4 DEF Reply

\* Assignments to the Boolean globals of a client.
LEMMA GlobalsSet ==
    ASSUME NEW g \in Globals, NEW b \in BOOLEAN
    PROVE  /\ [g EXCEPT !.arrived = b] \in Globals /\ [g EXCEPT !.arrived = b].loggedIn = g.loggedIn
           /\ [g EXCEPT !.running = b] \in Globals /\ [g EXCEPT !.running = b].loggedIn = g.loggedIn
           /\ [g EXCEPT !.loggedIn = b] \in Globals /\ [g EXCEPT !.loggedIn = b].loggedIn = b
<1>1. [g EXCEPT !.arrived = b] \in Globals /\ [g EXCEPT !.arrived = b].loggedIn = g.loggedIn
  BY DEF Globals
<1>2. [g EXCEPT !.running = b] \in Globals /\ [g EXCEPT !.running = b].loggedIn = g.loggedIn
  BY DEF Globals
<1>3. [g EXCEPT !.loggedIn = b] \in Globals /\ [g EXCEPT !.loggedIn = b].loggedIn = b
  BY DEF Globals
<1> QED
  BY <1>1, <1>2, <1>3

\* One client's globals change.
LEMMA ClientSet ==
    ASSUME ClientT, NEW c \in Conn, NEW g \in Globals, client' = [client EXCEPT ![c] = g]
    PROVE  ClientT' /\ client'[c] = g /\ \A d \in Conn : d # c => client'[d] = client[d]
  BY DEF ClientT

\* A client's variables change, and g_loggedIn becomes true only after an accepted login.
LEMMA ClientMoves ==
    ASSUME ClientPart, Grows, NEW c \in Conn, ClientT',
           \A d \in Conn : d # c => client'[d] = client[d],
           client'[c].loggedIn => client[c].loggedIn \/ Session(c)
    PROVE  LoggedIn'
  BY DEF ClientPart, LoggedIn, Grows

\* The main thread: the menus, the wait for a response, and the end.
LEMMA MainKeeps ==
    ASSUME ClientPart, Grows, NEW c \in Conn,
           MainStep(c) \/ Join(c) \/ Abort(c) \/ \E timeout \in BOOLEAN : WaitEnds(c, timeout)
    PROVE  ClientPart'
<1> USE ChatAssumption DEF vars
<1>1. ClientT
  BY DEF ClientPart
<1>2. ASSUME UNCHANGED <<status, tasks, down, shown>>, UpT', ClientT',
             \A d \in Conn : d # c => client'[d] = client[d],
             client'[c].loggedIn => client[c].loggedIn
      PROVE  ClientPart'
  <2>1. TasksT' /\ DownT' /\ ShownT' /\ ReadShown'
    BY <1>2, ClientFrame
  <2>2. LoggedIn'
    BY <1>2, ClientMoves
  <2> QED
    BY <1>2, <2>1, <2>2 DEF ClientPart
<1>3. up' = up /\ shown' = shown => UpT'
  BY ClientFrame
<1>4. ASSUME NEW entry, NEW q \in Request(c)', NEW id \in User \cup {None}, Ask(c, entry, q, id) PROVE ClientPart'
  <2>1. UpT'
    BY <1>4, Sends DEF Ask
  <2>2. client' = [client EXCEPT ![c].main = "waiting", ![c].myId = id]
    BY <1>4 DEF Ask
  <2>3. ClientT' /\ client'[c].loggedIn = client[c].loggedIn /\ \A d \in Conn : d # c => client'[d] = client[d]
    <3> DEFINE g == [client[c] EXCEPT !.main = "waiting"]
               h == [g EXCEPT !.myId = id]
    <3>1. g \in Globals /\ g.loggedIn = client[c].loggedIn
      BY <1>1 DEF ClientT, Globals
    <3>2. client' = [client EXCEPT ![c] = h]
      BY <1>1, <2>2 DEF ClientT
    <3> HIDE DEF g
    <3>3. h \in Globals /\ h.loggedIn = client[c].loggedIn
      BY <3>1 DEF Globals
    <3> HIDE DEF h
    <3> QED
      BY <1>1, <3>2, <3>3, ClientSet
  <2> QED
    BY <1>2, <1>4, <2>1, <2>3 DEF Ask
<1>5. client[c].requests \in Nat /\ client[c].myId \in User \cup {None}
  BY <1>1 DEF ClientT, Globals
<1>6. ASSUME NEW u \in User, AskLogin(c, u) PROVE ClientPart'
  <2>1. [type |-> "LOGIN", user |-> u, n |-> client[c].requests] \in Request(c)'
    BY <1>5 DEF Request
  <2> QED
    BY <1>4, <1>6, <2>1 DEF AskLogin
<1>7. ASSUME AskRegister(c) PROVE ClientPart'
  <2>1. [type |-> "REF", n |-> client[c].requests] \in Request(c)'
    BY <1>5 DEF Request
  <2> QED
    BY <1>4, <1>5, <1>7, <2>1 DEF AskRegister
<1>8. ASSUME client' = Round(c)
      PROVE  ClientT' /\ client'[c].loggedIn = client[c].loggedIn /\ \A d \in Conn : d # c => client'[d] = client[d]
  BY <1>1, <1>8 DEF ClientT, Globals, Round
<1>9. ASSUME NEW m \in Msg, NEW u \in User, AskSend(c, m, u) PROVE ClientPart'
  <2>1. [type |-> "ONE_MESSAGE", msg |-> m, to |-> u] \in Request(c)'
    BY DEF Request
  <2>2. UpT'
    BY <1>9, <2>1, Sends DEF AskSend
  <2> QED
    BY <1>2, <1>8, <1>9, <2>2 DEF AskSend
<1>10. ASSUME NEW timeout \in BOOLEAN, WaitEnds(c, timeout) PROVE ClientPart'
  <2>1. ClientT' /\ client'[c].loggedIn = client[c].loggedIn /\ \A d \in Conn : d # c => client'[d] = client[d]
    <3> DEFINE g == [client[c] EXCEPT !.main = IF client[c].running THEN "menu" ELSE "closing"]
    <3>1. g \in Globals /\ g.loggedIn = client[c].loggedIn
      BY <1>1 DEF ClientT, Globals
    <3>2. client' = [client EXCEPT ![c] = [g EXCEPT !.arrived = FALSE]]
      BY <1>1, <1>10 DEF ClientT, WaitEnds, Round
    <3> HIDE DEF g
    <3>3. [g EXCEPT !.arrived = FALSE] \in Globals /\ [g EXCEPT !.arrived = FALSE].loggedIn = client[c].loggedIn
      BY <3>1, GlobalsSet
    <3> QED
      BY <1>1, <3>2, <3>3, ClientSet
  <2> QED
    BY <1>2, <1>3, <1>10, <2>1 DEF WaitEnds
<1>11. ASSUME LogOut(c) PROVE ClientPart'
  <2>1. ClientT' /\ client'[c].loggedIn = FALSE /\ \A d \in Conn : d # c => client'[d] = client[d]
    BY <1>1, <1>11 DEF ClientT, Globals, LogOut, Round
  <2> QED
    BY <1>2, <1>3, <1>11, <2>1 DEF LogOut
<1>12. ASSUME Leave(c) PROVE ClientPart'
  <2>1. ClientT' /\ client'[c].loggedIn = client[c].loggedIn /\ \A d \in Conn : d # c => client'[d] = client[d]
    <3> DEFINE g == [client[c] EXCEPT !.main = "closing"]
    <3>1. g \in Globals /\ g.loggedIn = client[c].loggedIn
      BY <1>1 DEF ClientT, Globals
    <3>2. client' = [client EXCEPT ![c] = [g EXCEPT !.running = FALSE]]
      BY <1>1, <1>12 DEF ClientT, Leave
    <3> HIDE DEF g
    <3>3. [g EXCEPT !.running = FALSE] \in Globals /\ [g EXCEPT !.running = FALSE].loggedIn = client[c].loggedIn
      BY <3>1, GlobalsSet
    <3> QED
      BY <1>1, <3>2, <3>3, ClientSet
  <2> QED
    BY <1>2, <1>3, <1>12, <2>1 DEF Leave
<1>13. ASSUME Join(c) \/ Abort(c) PROVE ClientPart'
  <2>1. ClientT' /\ client'[c].loggedIn = FALSE /\ \A d \in Conn : d # c => client'[d] = client[d]
    <3> DEFINE g == [Started EXCEPT !.main = "ended", !.recv = "ended", !.running = FALSE,
                                    !.requests = client[c].requests]
    <3>1. g \in Globals /\ g.loggedIn = FALSE
      BY <1>5 DEF Globals, Started
    <3>2. client' = [client EXCEPT ![c] = g]
      BY <1>13 DEF Join, Abort, Ends
    <3> HIDE DEF g
    <3> QED
      BY <1>1, <3>1, <3>2, ClientSet
  <2> QED
    BY <1>2, <1>3, <1>13, <2>1 DEF Join, Abort
<1>14. ASSUME NEW entry \in {"login", "register"}, Choose(c, entry) PROVE ClientPart'
  <2>1. ClientT' /\ client'[c].loggedIn = client[c].loggedIn /\ \A d \in Conn : d # c => client'[d] = client[d]
    BY <1>1, <1>14 DEF ClientT, Globals, Choose
  <2> QED
    BY <1>2, <1>3, <1>14, <2>1 DEF Choose
<1> QED
  BY <1>6, <1>7, <1>9, <1>10, <1>11, <1>12, <1>13, <1>14 DEF MainStep

\* The receiving thread believes a LOGIN_ACK without error, and acknowledges what it has
\* displayed.
LEMMA ReceiveKeeps ==
    ASSUME ClientPart, Grows, sent \in [Conn -> SUBSET Msg], NEW c \in Conn, ReceiveStep(c)
    PROVE  ClientPart'
<1> USE DEF vars
<1>1. ClientT
  BY DEF ClientPart
<1>2. CASE ReceiveEnds(c)
  <2>1. ClientT' /\ client'[c].loggedIn = client[c].loggedIn /\ \A d \in Conn : d # c => client'[d] = client[d]
    <3> DEFINE g == [client[c] EXCEPT !.recv = "ended"]
               h == [g EXCEPT !.running = FALSE]
    <3>1. g \in Globals /\ g.loggedIn = client[c].loggedIn
      BY <1>1 DEF ClientT, Globals
    <3>2. client' = [client EXCEPT ![c] = [h EXCEPT !.arrived = TRUE]]
      BY <1>1, <1>2 DEF ClientT, ReceiveEnds
    <3> HIDE DEF g
    <3>3. h \in Globals /\ h.loggedIn = client[c].loggedIn
      BY <3>1, GlobalsSet
    <3> HIDE DEF h
    <3>4. [h EXCEPT !.arrived = TRUE] \in Globals /\ [h EXCEPT !.arrived = TRUE].loggedIn = client[c].loggedIn
      BY <3>3, GlobalsSet
    <3> QED
      BY <1>1, <3>2, <3>4, ClientSet
  <2>2. UpT' /\ TasksT' /\ DownT' /\ ShownT' /\ ReadShown'
    BY <1>2, ClientFrame DEF ReceiveEnds
  <2>3. LoggedIn'
    BY <2>1, ClientMoves
  <2> QED
    BY <2>1, <2>2, <2>3 DEF ClientPart
<1>3. ASSUME down[c] # <<>>, UNCHANGED <<status, sent, tasks>>, down' = [down EXCEPT ![c] = Tail(@)],
             \A d \in Conn : shown[d] \subseteq shown'[d]
      PROVE  DownT' /\ TasksT' /\ ReadShown'
  <2>1. \A d \in Conn : down[d] \in Seq(Response(d)')
    BY <1>3, WaysGrow DEF ClientPart, DownT
  <2>2. Tail(down[c]) \in Seq(Response(c)')
    BY <1>3, <2>1
  <2>3. down = [d \in Conn |-> down[d]]
    BY DEF ClientPart, DownT
  <2>4. /\ down'[c] = Tail(down[c]) /\ down' = [d \in Conn |-> down'[d]]
        /\ \A d \in Conn : d # c => down'[d] = down[d]
    BY <1>3, <2>3
  <2>5. DownT'
    BY <2>1, <2>2, <2>4 DEF DownT
  <2> QED
    BY <1>3, <2>5, ClientFrame
<1>4. CASE Swallow(c)
  <2>1. PICK b \in BOOLEAN : client' = [client EXCEPT ![c].garbled = b]
    BY <1>4 DEF Swallow
  <2>2. ClientT' /\ client'[c].loggedIn = client[c].loggedIn /\ \A d \in Conn : d # c => client'[d] = client[d]
    BY <1>1, <2>1 DEF ClientT, Globals
  <2>3. UpT' /\ ShownT' /\ DownT' /\ TasksT' /\ ReadShown'
    BY <1>3, <1>4, ClientFrame DEF Swallow
  <2>4. LoggedIn'
    BY <2>2, ClientMoves
  <2> QED
    BY <2>2, <2>3, <2>4 DEF ClientPart
<1>5. CASE Receive(c)
  <2> DEFINE r == Head(down[c])
  <2>1. down[c] \in Seq(Response(c)) /\ down[c] # <<>>
    BY <1>5 DEF Receive, ClientPart, DownT
  <2>2. r \in Response(c)
    BY <2>1
  <2>3. UNCHANGED <<status, sent, tasks>> /\ down' = [down EXCEPT ![c] = Tail(@)]
    BY <1>5 DEF Receive
  <2>4. ASSUME \A d \in Conn : shown[d] \subseteq shown'[d]
        PROVE  DownT' /\ TasksT' /\ ReadShown'
    BY <1>3, <2>1, <2>3, <2>4
  <2> HIDE DEF r
  <2>5. CASE r.type = "ONE_MESSAGE"
    <3>1. r.msg \in sent[c]
      BY <2>2, <2>5 DEF Response
    <3>8. r.msg \in Msg
      BY <3>1
    <3>2. Show(c, r.msg) /\ SendAck(c, r.msg) /\ UNCHANGED client
      BY <1>5, <2>5 DEF Receive, r
    <3>3. /\ shown'[c] = shown[c] \cup {r.msg} /\ \A d \in Conn : d # c => shown'[d] = shown[d]
          /\ DOMAIN shown' = Conn /\ shown' = [d \in Conn |-> shown'[d]]
      BY <3>2 DEF Show, ClientPart, ShownT
    <3>4. ShownT'
      <4>1. \A d \in Conn : shown'[d] \subseteq sent'[d]
        BY <2>3, <3>1, <3>3 DEF ClientPart, ShownT
      <4>2. \A d \in Conn : shown'[d] \in SUBSET Msg
        BY <3>3, <3>8 DEF ClientPart, ShownT
      <4> QED
        BY <3>3, <4>1, <4>2 DEF ShownT
    <3>5. \A d \in Conn : shown[d] \subseteq shown'[d]
      BY <3>3
    <3>6. [type |-> "ACK_MESSAGE", msg |-> r.msg] \in Request(c)'
      BY <3>3 DEF Request
    <3>7. UpT'
      BY <3>2, <3>5, <3>6, Sends DEF SendAck
    <3> QED
      BY <2>4, <3>2, <3>4, <3>5, <3>7, ClientFrame DEF ClientPart
  <2>6. CASE r.type # "ONE_MESSAGE"
    <3>1. UNCHANGED <<up, shown>>
      BY <1>5, <2>6 DEF Receive, r
    <3>2. \/ client' = [client EXCEPT ![c].arrived = TRUE]
          \/ /\ r.type = "LOGIN_ACK"
             /\ client' = [client EXCEPT ![c].arrived = TRUE, ![c].loggedIn = @ \/ r.ok]
      BY <1>5, <2>6 DEF Receive, Accepted, r
    <3>3. r.type = "LOGIN_ACK" => r.ok \in BOOLEAN /\ (r.ok => Session(c))
      BY <2>2 DEF Response
    <3>4. /\ ClientT' /\ \A d \in Conn : d # c => client'[d] = client[d]
          /\ client'[c].loggedIn => client[c].loggedIn \/ Session(c)
      <4>1. CASE client' = [client EXCEPT ![c].arrived = TRUE]
        BY <1>1, <4>1, ZenonT(30) DEF ClientT, Globals
      <4>2. CASE r.type = "LOGIN_ACK" /\ client' = [client EXCEPT ![c].arrived = TRUE, ![c].loggedIn = @ \/ r.ok]
        <5> DEFINE b == client[c].loggedIn \/ r.ok
              g == [client[c] EXCEPT !.arrived = TRUE]
        <5>1. client' = [client EXCEPT ![c] = [g EXCEPT !.loggedIn = b]]
          BY <1>1, <4>2 DEF ClientT
        <5>4. g \in Globals
          BY <1>1, GlobalsSet DEF ClientT
        <5>2. b \in BOOLEAN /\ (b => client[c].loggedIn \/ Session(c))
          BY <3>3, <4>2
        <5> HIDE DEF b
        <5> HIDE DEF g
        <5>3. [g EXCEPT !.loggedIn = b] \in Globals /\ [g EXCEPT !.loggedIn = b].loggedIn = b
          BY <5>2, <5>4, GlobalsSet
        <5> QED
          BY <1>1, <5>1, <5>2, <5>3, ClientSet
      <4> QED
        BY <3>2, <4>1, <4>2
    <3>5. LoggedIn'
      BY <3>4, ClientMoves
    <3> QED
      BY <2>4, <3>1, <3>4, <3>5, ClientFrame DEF ClientPart
  <2> QED
    BY <2>5, <2>6
<1> QED
  BY <1>2, <1>5, <1>4 DEF ReceiveStep

\* What the streams and the pool do to requests.
LEMMA FrontKeeps ==
    ASSUME ClientPart, Grows, NEW c \in Conn,
           OnMessage(c) \/ Dropped(c) \/ ClientGone(c)
    PROVE  ClientPart'
<1> USE DEF vars, messageVars
<1>1. UNCHANGED <<status, client, down, shown>>
  BY DEF OnMessage, Dropped, ClientGone, Disconnect
<1>2. ClientT' /\ LoggedIn' /\ DownT' /\ ShownT' /\ ReadShown'
  BY <1>1, ClientFrame
<1>3. up = [d \in Conn |-> up[d]] /\ up[c] \in Seq(Request(c))
  BY DEF ClientPart, UpT
<1>4. UpT'
  <2>1. CASE up' = [up EXCEPT ![c] = Tail(@)] /\ up[c] # <<>>
    BY <1>1, <1>3, <2>1, Reads
  <2>2. CASE up' = [up EXCEPT ![c] = <<>>]
    BY <1>1, <1>3, <2>2, Reads
  <2> QED
    BY <2>1, <2>2 DEF OnMessage, Dropped, ClientGone
<1>5. TasksT'
  <2>1. CASE OnMessage(c)
    <3> DEFINE n == [conn |-> c, req |-> Head(up[c])]
    <3>1. Head(up[c]) \in Request(c)
      BY <1>3, <2>1 DEF OnMessage
    <3>2. n.conn \in Conn /\ n.req \in Request(n.conn) /\ n = [conn |-> n.conn, req |-> n.req]
      BY <3>1
    <3>3. tasks' = tasks \cup {n}
      BY <2>1 DEF OnMessage
    <3> HIDE DEF n
    <3>4. \A t \in tasks' : t.conn \in Conn /\ t.req \in Request(t.conn) /\ t = [conn |-> t.conn, req |-> t.req]
      BY <3>2, <3>3 DEF ClientPart, TasksT
    <3>5. \A d \in Conn : Request(d) \subseteq Request(d)'
      BY <1>1, WaysGrow
    <3> QED
      BY <3>4, <3>5 DEF TasksT
  <2>2. CASE tasks' = tasks
    BY <1>1, <2>2, ClientFrame
  <2> QED
    BY <2>1, <2>2 DEF Dropped, ClientGone
<1> QED
  BY <1>2, <1>4, <1>5 DEF ClientPart

\* What the end of a process takes with it.
LEMMA LoseKeeps ==
    ASSUME ClientPart, Grows, NEW s, Lose(s), status' = status PROVE ClientPart'
<1>1. ClientT' /\ LoggedIn' /\ DownT' /\ ShownT' /\ ReadShown' /\ TasksT'
  BY ClientFrame DEF Lose
<1>2. /\ up' = [d \in Conn |-> up'[d]]
      /\ \A d \in Conn : up'[d] \in {up[d], <<>>}
  BY DEF Lose
<1>3. UpT'
  BY <1>2, Reads DEF Lose
<1> QED
  BY <1>1, <1>3 DEF ClientPart

\* What the servers do for themselves.
LEMMA IdleKeeps ==
    ASSUME ClientPart, Grows, UNCHANGED clientVars, \A m \in Msg : status'[m] = "read" => status[m] = "read"
    PROVE  ClientPart'
  BY ClientFrame DEF ClientPart, clientVars

\* What the servers write to a client.
LEMMA WriteKeeps ==
    ASSUME ClientPart, Grows, UNCHANGED <<client, up, shown, drops>>, tasks' \subseteq tasks, DownT',
           \A m \in Msg : status'[m] = "read" => status[m] = "read"
    PROVE  ClientPart'
  BY ClientFrame DEF ClientPart


\* A task of the pool: only an acknowledgement makes a message read, and it comes from a
\* client that has displayed it.
LEMMA TaskKeeps ==
    ASSUME ClientPart, Grows, StatusT, NEW t \in tasks, RunTask(t) PROVE ClientPart'
<1> USE DEF vars, messageVars
<1>1. UNCHANGED <<client, up, shown, drops>> /\ tasks' \subseteq tasks
  BY DEF RunTask
<1>2. t.conn \in Conn /\ t.req \in Request(t.conn)
  BY DEF ClientPart, TasksT
<1>3. \A r \in Response(t.conn)' : down' = Reply(t.conn, <<r>>) => DownT'
  <2>1. ASSUME NEW r \in Response(t.conn)', down' = Reply(t.conn, <<r>>) PROVE DownT'
    <3>1. <<r>> \in Seq(Response(t.conn)')
      OBVIOUS
    <3> QED
      BY <1>1, <1>2, <2>1, <3>1, Replies
  <2> QED
    BY <2>1
<1>4. down' = down => DownT'
  BY <1>1, ClientFrame
<1>5. LoginAck(FALSE, None) \in Response(t.conn)' /\ RefAck \in Response(t.conn)'
  BY DEF LoginAck, RefAck, Response
<1>6. CASE RunLogin(t)
  <2>1. status' = status
    BY <1>6 DEF RunLogin, LoginQuery
  <2>2. DownT'
    BY <1>3, <1>4, <1>5, <1>6 DEF RunLogin
  <2> QED
    BY <1>1, <2>1, <2>2, WriteKeeps
<1>7. CASE RunRef(t)
  <2>1. status' = status
    BY <1>7 DEF RunRef, Ref
  <2>2. DownT'
    BY <1>3, <1>5, <1>7 DEF RunRef
  <2> QED
    BY <1>1, <2>1, <2>2, WriteKeeps
<1>8. ASSUME NEW ok \in BOOLEAN, RunMessage(t, ok) PROVE ClientPart'
  <2>1. \A m \in Msg : status'[m] = "read" => status[m] = "read"
    BY <1>8 DEF RunMessage, Store, StatusT
  <2>2. DownT'
    BY <1>4, <1>8 DEF RunMessage
  <2> QED
    BY <1>1, <2>1, <2>2, WriteKeeps
<1>9. CASE RunAck(t)
  <2>1. t.req.msg \in shown[t.conn]
    BY <1>2, <1>9 DEF RunAck, Request
  <2>2. \A m \in Msg : status'[m] = "read" => status[m] = "read" \/ m = t.req.msg
    BY <1>9 DEF RunAck, Acknowledges
  <2>3. ReadShown'
    BY <1>1, <1>2, <2>1, <2>2 DEF ClientPart, ReadShown
  <2>4. DownT'
    BY <1>4, <1>9 DEF RunAck
  <2> QED
    BY <1>1, <2>3, <2>4, ClientFrame DEF ClientPart
<1> QED
  BY <1>6, <1>7, <1>8, <1>9 DEF RunTask

\* A message that has been written on an open connection may be on its way to the client.
LEMMA MessageOnItsWay ==
    ASSUME ClientPart, Grows, shown' = shown, sent \in [Conn -> SUBSET Msg], NEW c \in Conn, NEW m,
           sent' = Written(c, {m}), down' = Reply(c, <<OneMessage(m)>>)
    PROVE  DownT'
<1>1. CASE conn[c] = "open"
  <2>1. m \in sent'[c]
    BY <1>1 DEF Written
  <2>2. OneMessage(m) \in Response(c)'
    BY <2>1 DEF OneMessage, Response
  <2>3. <<OneMessage(m)>> \in Seq(Response(c)')
    BY <2>2
  <2> QED
    BY <2>3, Replies
<1>2. CASE conn[c] # "open"
  BY <1>2, ClientFrame DEF Reply
<1> QED
  BY <1>1, <1>2

\* onemessage.
LEMMA MessageKeeps ==
    ASSUME ClientPart, Grows, Types, Handlers, NEW m \in Msg, ServeMessage(m) PROVE ClientPart'
<1> USE DEF sessionVars, redisVars
<1>1. UNCHANGED <<status, client, up, shown, drops, tasks>>
  BY DEF ServeMessage, MessageStep, Lookup, QueryState, Publish
<1>2. CASE down' = down
  <2>1. DownT'
    BY <1>1, <1>2, ClientFrame
  <2> QED
    BY <1>1, <2>1, WriteKeeps
<1>3. CASE msg[m].pc = "stored" /\ down' # down
  <2> DEFINE c == userIdConn[msg[m].at][msg[m].to]
  <2>1. c # None /\ down' = Reply(c, <<OneMessage(m)>>)
    BY <1>3 DEF ServeMessage, Forward
  <2>2. Lookup(m)
    BY <1>3 DEF ServeMessage, MessageStep, QueryState, Publish
  <2>3. sent' = Written(c, {m})
    BY <2>1, <2>2 DEF Lookup
  <2>4. c \in Conn
    BY <1>3, <2>1 DEF Handlers, Types, MapT
  <2>5. sent \in [Conn -> SUBSET Msg]
    BY DEF Types, SentT
  <2> HIDE DEF c
  <2>6. DownT'
    BY <1>1, <2>1, <2>3, <2>4, <2>5, MessageOnItsWay
  <2> QED
    BY <1>1, <2>6, WriteKeeps
<1> QED
  BY <1>2, <1>3 DEF ServeMessage

\* redisHandler.
LEMMA RedisKeeps ==
    ASSUME ClientPart, Grows, Types, NEW s \in Server, ServeRedis(s) PROVE ClientPart'
<1> USE DEF sessionVars, messageVars
<1>1. UNCHANGED <<status, client, up, shown, drops, tasks>>
  BY DEF ServeRedis, SubLoopStep, RunCommand, ReadReply, RedisHandler
<1>2. CASE down' = down
  <2>1. DownT'
    BY <1>1, <1>2, ClientFrame
  <2> QED
    BY <1>1, <2>1, WriteKeeps
<1>3. CASE subLoop[s].type = "message" /\ down' # down
  <2> DEFINE c == userIdConn[s][subLoop[s].channel]
             m == subLoop[s].msg
  <2>1. c # None /\ down' = Reply(c, <<OneMessage(m)>>)
    BY <1>3 DEF ServeRedis, Forward
  <2>2. RedisHandler(s)
    BY <1>3 DEF ServeRedis, SubLoopStep, RunCommand, ReadReply, Idle
  <2>3. sent' = Written(c, {m})
    BY <2>1, <2>2 DEF RedisHandler
  <2>4. c \in Conn
    BY <1>3, <2>1 DEF Types, LoopT, MapT, Push, Idle, Ended
  <2>5. sent \in [Conn -> SUBSET Msg]
    BY DEF Types, SentT
  <2> HIDE DEF c, m
  <2>6. DownT'
    BY <1>1, <2>1, <2>3, <2>4, <2>5, MessageOnItsWay
  <2> QED
    BY <1>1, <2>6, WriteKeeps
<1> QED
  BY <1>2, <1>3 DEF ServeRedis


\* The offline messages are listed in some order, and nothing else is.
LEMMA OfflineListed ==
    ASSUME NEW M, IsFiniteSet(M)
    PROVE  Cardinality(M) \in Nat /\ \A k \in 1 .. Cardinality(M) : S!SetToSeq(M)[k] \in M
<1>1. Cardinality(M) \in Nat /\ ExistsBijection(1 .. Cardinality(M), M)
  BY FS_CardinalityType
<1>2. \E f \in [1 .. Cardinality(M) -> M] : S!IsInjective(f)
  BY <1>1 DEF ExistsBijection, Bijection, Injection, IsInjective, S!IsInjective
<1>3. S!Cardinality(M) = Cardinality(M)
  BY DEF S!Cardinality, Cardinality
<1>4. S!SetToSeq(M) \in [1 .. Cardinality(M) -> M]
  BY <1>2, <1>3 DEF S!SetToSeq
<1> QED
  BY <1>1, <1>4

\* login: the LOGIN_ACK without error follows an accepted login, and the messages after it
\* have been written.
LEMMA LoginKeeps ==
    ASSUME ClientPart, Grows, Types, Handlers, NEW l \in Login, ServeLogin(l) PROVE ClientPart'
<1> USE DEF messageVars
<1>1. UNCHANGED <<status, client, up, shown, drops, tasks>>
  BY DEF ServeLogin, LoginStep, LoginMap, LoginSubscribe, SubscribeReturns, LoginOnline, LoginOffline
<1>2. login[l].pc # "none"
  BY DEF ServeLogin, LoginStep, LoginMap, LoginSubscribe, SubscribeReturns, LoginOnline, LoginOffline
<1>3. PICK c \in Conn, u \in User : c = login[l].conn /\ u = login[l].user
  BY <1>2 DEF Handlers
<1>4. DownT'
  <2>1. CASE login[l].pc = "subscribed"
    <3>1. down' = Reply(c, <<LoginAck(TRUE, u)>>)
      BY <1>3, <2>1 DEF ServeLogin
    <3>2. LoginAt(l, "online")
      BY <2>1 DEF ServeLogin, LoginStep, LoginMap, LoginSubscribe, SubscribeReturns, LoginOnline,
                  LoginOffline
    <3>3. login'[l].conn = c /\ login'[l].pc = "online"
      BY <1>3, <3>2 DEF LoginAt, Types, LoginT
    <3>4. Session(c)'
      BY <3>3 DEF Session
    <3>5. LoginAck(TRUE, u) \in Response(c)'
      BY <3>4 DEF LoginAck, Response
    <3>6. <<LoginAck(TRUE, u)>> \in Seq(Response(c)')
      <4>1. \A r \in Response(c)' : <<r>> \in Seq(Response(c)')
        OBVIOUS
      <4> QED
        BY <3>5, <4>1
    <3> QED
      BY <1>1, <1>3, <3>1, <3>6, Replies
  <2>2. CASE login[l].pc = "online"
    <3> DEFINE M == Unread(login[l].user)
               rs == [k \in 1 .. Cardinality(M) |-> OneMessage(S!SetToSeq(M)[k])]
    <3>1. down' = Reply(c, rs)
      BY <1>3, <2>2 DEF ServeLogin
    <3>2. sent' = Written(c, M)
      BY <1>3, <2>2 DEF ServeLogin, LoginStep, LoginMap, LoginSubscribe, SubscribeReturns, LoginOnline,
                  LoginOffline
    <3>3. M \in SUBSET Msg
      BY DEF Unread
    <3>4. IsFiniteSet(M)
      BY <3>3, ClientAssumption, FS_Subset
    <3> HIDE DEF M
    <3>5. CASE conn[c] = "open"
      <4>1. M \subseteq sent'[c]
        BY <1>3, <3>2, <3>5 DEF Written, Types, SentT
      <4>2. \A k \in 1 .. Cardinality(M) : OneMessage(S!SetToSeq(M)[k]) \in Response(c)'
        BY <3>4, <4>1, OfflineListed DEF OneMessage, Response
      <4>3. rs \in Seq(Response(c)')
        BY <3>4, <4>2, OfflineListed
      <4> HIDE DEF rs
      <4> QED
        BY <1>1, <1>3, <3>1, <4>3, Replies
    <3>6. CASE conn[c] # "open"
      BY <1>1, <3>1, <3>6, ClientFrame DEF Reply
    <3> QED
      BY <3>5, <3>6
  <2>3. CASE login[l].pc \notin {"subscribed", "online"}
    <3>1. down' = down
      BY <2>3 DEF ServeLogin
    <3> QED
      BY <1>1, <3>1, ClientFrame
  <2> QED
    BY <2>1, <2>2, <2>3
<1> QED
  BY <1>1, <1>4, WriteKeeps

-----------------------------------------------------------------------------
(* The invariant *)

\* Everybody is at the first menu and nothing is on its way.
LEMMA InitClient == ClientInit => ClientInv
<1> SUFFICES ASSUME ClientInit PROVE ClientInv
  OBVIOUS
<1> USE DEF ClientInit
<1>1. ChatInv
  BY InitChat
<1>2. ClientT /\ LoggedIn
  BY DEF ClientT, Globals, LoggedIn, Started
<1>3. UpT /\ TasksT /\ DownT
  BY DEF UpT, TasksT, DownT
<1>4. ShownT /\ ReadShown /\ SentOwned
  BY DEF Init, ShownT, ReadShown, SentOwned
<1> QED
  BY <1>1, <1>2, <1>3, <1>4 DEF ClientInv

\* A step of anybody keeps it.
LEMMA ClientInvStep == ClientInv /\ [ClientNext]_allVars => ClientInv'
<1> SUFFICES ASSUME ClientInv, [ClientNext]_allVars PROVE ClientInv'
  OBVIOUS
<1>1. [Steps]_vars /\ ChatInv
  BY ServerSteps DEF ClientInv
<1>2. ChatInv' /\ SentOwned' /\ Grows
  BY <1>1, ChatStep, SentOwnedStep, ServersGrow DEF ClientInv
<1>3. ClientPart /\ Types /\ Handlers /\ StatusT /\ sent \in [Conn -> SUBSET Msg]
  BY DEF ClientInv, ClientPart, ChatInv, Types, SentT
<1>4. ClientPart'
  <2> USE <1>2, <1>3 DEF messageVars
  <2>1. ASSUME NEW c \in Conn, MainStep(c) \/ Join(c) \/ Abort(c) \/ \E timeout \in BOOLEAN : WaitEnds(c, timeout)
        PROVE  ClientPart'
    BY <2>1, MainKeeps
  <2>2. ASSUME NEW c \in Conn, ReceiveStep(c) PROVE ClientPart'
    BY <2>2, ReceiveKeeps
  <2>3. ASSUME NEW c \in Conn, FrontStep(c) \/ Dropped(c) PROVE ClientPart'
    BY <2>3, FrontKeeps DEF FrontStep
  <2>4. ASSUME NEW c \in Conn, BadRead(c) PROVE ClientPart'
    BY <2>4, LoseKeeps DEF BadRead, Die, NewProcess
  <2>5. ASSUME NEW c \in Conn, ServeClose(c) PROVE ClientPart'
    <3>1. status' = status
      BY <2>5 DEF ServeClose, CloseStep, CloseUnknown, Close, UnsubscribeReturns, CloseOffline
    <3> QED
      BY <2>5, <3>1, IdleKeeps DEF ServeClose
  <2>6. ASSUME NEW m \in Msg, NEW s \in Server, NEW u \in User, OtherSender(m, s, u) PROVE ClientPart'
    <3>1. \A k \in Msg : status'[k] = "read" => status[k] = "read"
      BY <2>6 DEF OtherSender, Store, StatusT
    <3> QED
      BY <2>6, <3>1, IdleKeeps DEF OtherSender
  <2>7. ASSUME NEW s \in Server, RedisBreaks(s) \/ Signal(s) PROVE ClientPart'
    <3>1. status' = status
      BY <2>7 DEF RedisBreaks, SubLoopEnds, Signal, SigInt
    <3> QED
      BY <2>7, <3>1, IdleKeeps DEF RedisBreaks, Signal
  <2>8. ASSUME NEW s \in Server, ServerExits(s) PROVE ClientPart'
    BY <2>8, LoseKeeps DEF ServerExits, Exit, NewProcess
  <2>9. CASE UNCHANGED allVars
    BY <2>9, IdleKeeps DEF allVars, clientVars, vars
  <2> QED
    BY <2>1, <2>2, <2>3, <2>4, <2>5, <2>6, <2>7, <2>8, <2>9,
       TaskKeeps, LoginKeeps, MessageKeeps, RedisKeeps DEF ClientNext
<1> QED
  BY <1>2, <1>4 DEF ClientInv, ClientPart

\* The inductive invariant of the whole chat system.
THEOREM ClientInvariance == ClientSpec => []ClientInv
  BY InitClient, ClientInvStep, PTL DEF ClientSpec

\* A client shows the main menu only after a server has accepted a login on its connection,
\* however late, reordered or lost requests and responses are.
THEOREM MenuAfterLogin == ClientSpec => []MenuMeansSession
<1>1. ClientInv => MenuMeansSession
  BY DEF ClientInv, LoggedIn, Session, MenuMeansSession
<1> QED
  BY <1>1, ClientInvariance, PTL

\* A message the table calls read has been displayed by a client of its recipient: a client
\* acknowledges only what it displays, displays only what was written to its connection, and
\* only messages to an account that logged in on a connection are written to it.
THEOREM ReadMessagesShown == ClientSpec => []ReadIsShown
<1>1. ASSUME ClientInv, NEW m \in Msg, status[m] = "read"
      PROVE  \E c \in Conn : m \in shown[c] /\ msg[m].to \in Owners(c)
  <2>1. PICK c \in Conn : m \in shown[c]
    BY <1>1 DEF ClientInv, ReadShown
  <2>2. m \in sent[c]
    BY <1>1, <2>1 DEF ClientInv, ShownT
  <2>3. msg[m].to \in Owners(c)
    BY <1>1, <2>2 DEF ClientInv, SentOwned
  <2> QED
    BY <2>1, <2>3
<1>2. ClientInv => ReadIsShown
  BY <1>1 DEF ReadIsShown
<1> QED
  BY <1>2, ClientInvariance, PTL

\* With clients, streams and the pool before them the servers keep what they keep for any
\* clients: subscriptions, and messages to users on the same server.
THEOREM ServersKeepTheirPromises == ClientSpec => [](MappedSubscribed /\ LocalDelivery)
<1>1. ClientInv => MappedSubscribed /\ LocalDelivery
  BY SubscribedToMapped, DeliveredLocally DEF ClientInv
<1> QED
  BY <1>1, ClientInvariance, PTL

\* The chat system from end to end is a Mailbox.
THEOREM ClientsUseMailbox == ClientSpec => ImplementsMailbox
<1>1. ClientInit => Boxes!Init
  BY MailboxStarts DEF ClientInit
<1>2. ClientInv /\ [ClientNext]_allVars => [Boxes!Next]_Boxes!vars
  BY ServerSteps, MailboxStep DEF ClientInv
<1> QED
  BY <1>1, <1>2, ClientInvariance, PTL DEF ClientSpec, ImplementsMailbox, Boxes!Spec

=============================================================================
