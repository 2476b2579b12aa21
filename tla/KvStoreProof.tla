---------------------------- MODULE KvStoreProof ----------------------------
(***************************************************************************)
(* The key-value service and its client over Raft, for every number of     *)
(* nodes, calls, retries and lost connections: what a call has done when   *)
(* it returns, where a redirect leads, and that the nodes below are the    *)
(* Raft cluster of module Raft, so that what is proved of Raft holds of    *)
(* the store.                                                              *)
(*                                                                         *)
(* WriteOutcome is about three histories; the inductive invariant ties     *)
(* them to the requests on the wire.  The difficult ones are the requests  *)
(* of calls that have already returned: the connection was lost, and the   *)
(* node may still read the request while the client is in another call.    *)
(***************************************************************************)
EXTENDS KvStore, RaftProof

Operation == Command \cup ReadOp
Winner(i) == \E t \in Nat : <<t, i>> \in elected

\* KvClient.  A reply NOT_LEADER names a node that has won an election
ClientInv ==
    /\ client = [pc |-> client.pc, calls |-> client.calls, op |-> client.op,
                 direct |-> client.direct, addr |-> client.addr, tries |-> client.tries,
                 reply |-> client.reply]
    /\ client.pc \in {"idle", "sent", "replied"}
    /\ client.calls \in 0 .. MaxCalls
    /\ client.direct \in Server
    /\ client.pc # "idle" => client.calls \in Calls /\ client.op \in Operation

RedirectsNameWinners ==
    client.pc = "replied" /\ client.reply.code = "NOT_LEADER" =>
        client.reply.leader \in Server \ {client.reply.from} /\ Winner(client.reply.leader)

HistoryTyped ==
    /\ proposed \in [Calls -> Nat]
    /\ outcome \in [Calls -> {"none", "written", "read", "refused", "lost"}]

WireTyped ==
    \A w \in wire : /\ w.call \in Calls /\ w.call <= client.calls
                    /\ w.op \in Operation /\ w.to \in Server

\* A request on the wire is the one the client waits for
Awaited(w) ==
    /\ client.pc = "sent" /\ w.call = client.calls /\ w.tries = client.tries
    /\ w.op = client.op

\* A request on the wire has caused no entry yet, is the only one of its call, and
\* belongs to the attempt the client waits for or to a call whose connection was lost
Undelivered ==
    /\ \A w \in wire : proposed[w.call] = 0 /\ (outcome[w.call] = "lost" \/ Awaited(w))
    /\ \A v, w \in wire : v.call = w.call => v = w

\* The call the client is in has not returned.  It has caused an entry exactly when a
\* node has said so
CurrentCall ==
    client.pc # "idle" =>
        /\ outcome[client.calls] = "none"
        /\ proposed[client.calls] =
              IF client.pc = "replied" /\ client.op \in Command /\ client.reply.code = "OK"
              THEN 1 ELSE 0

LaterCalls == \A n \in Calls : n > client.calls => outcome[n] = "none" /\ proposed[n] = 0

KvInv == /\ ClientInv /\ HistoryTyped /\ WireTyped /\ Undelivered /\ CurrentCall /\ LaterCalls
         /\ WriteOutcome

-----------------------------------------------------------------------------

\* A write is no read.
LEMMA WritesAreNoReads == \A op : ~(op \in Command /\ op \in ReadOp)
<1> SUFFICES ASSUME NEW op, op \in Command, op \in ReadOp PROVE FALSE
  OBVIOUS
<1>1. op.type \in {"PUT", "DELETE"}
  BY DEF Command
<1>2. op.type \in {"GET", "SCAN"}
  BY DEF ReadOp
<1> QED
  BY <1>1, <1>2

\* Before the first call nothing has been asked or caused.
LEMMA KvStart == KvInit => KvInv /\ RedirectsNameWinners
<1> SUFFICES ASSUME KvInit PROVE KvInv /\ RedirectsNameWinners
  OBVIOUS
<1>1. PICK i \in Server : client = [pc |-> "idle", calls |-> 0, op |-> NoOp, direct |-> i,
                                    addr |-> i, tries |-> 0, reply |-> NoReply]
  BY DEF KvInit
<1>2. client.pc = "idle" /\ client.calls = 0 /\ client.direct = i
  BY <1>1
<1>3. ClientInv
  BY <1>1, <1>2, KvAssumption DEF ClientInv
<1>4. wire = {} /\ proposed = [n \in Calls |-> 0] /\ outcome = [n \in Calls |-> "none"]
  BY DEF KvInit
<1>5. HistoryTyped /\ WireTyped /\ Undelivered
  BY <1>4 DEF HistoryTyped, WireTyped, Undelivered
<1>6. CurrentCall /\ RedirectsNameWinners
  BY <1>2 DEF CurrentCall, RedirectsNameWinners
<1>7. LaterCalls /\ WriteOutcome
  BY <1>4 DEF LaterCalls, WriteOutcome
<1> QED
  BY <1>3, <1>5, <1>6, <1>7 DEF KvInv

\* A step that changes nothing of the client, its calls and the wire but loses requests.
LEMMA RequestsVanish ==
    ASSUME KvInv, UNCHANGED <<client, proposed, outcome>>, wire' \subseteq wire
    PROVE  KvInv'
<1>1. ClientInv' /\ HistoryTyped' /\ CurrentCall' /\ LaterCalls' /\ WriteOutcome'
  BY DEF KvInv, ClientInv, HistoryTyped, CurrentCall, LaterCalls, WriteOutcome
<1>2. WireTyped' /\ Undelivered'
  BY DEF KvInv, WireTyped, Undelivered, Awaited
<1> QED
  BY <1>1, <1>2 DEF KvInv

\* A node reads a request and answers.  Only the answer OK to a write comes with an entry;
\* when the client no longer waits for it, its call has returned "lost".
LEMMA AnswerKeeps ==
    ASSUME KvInv, NEW w \in wire, NEW code, NEW leader, NEW value,
           Answer(w, code, leader, value),
           \/ code # "OK" /\ proposed' = proposed
           \/ w.op \in ReadOp /\ proposed' = proposed
           \/ code = "OK" /\ w.op \in Command /\ proposed' = [proposed EXCEPT ![w.call] = @ + 1]
    PROVE  /\ KvInv'
           /\ \/ client' = client
              \/ /\ client'.pc = "replied"
                 /\ client'.reply = [code |-> code, from |-> w.to, leader |-> leader, value |-> value]
<1>1. /\ wire' = wire \ {w} /\ outcome' = outcome
      /\ client' = IF client.pc = "sent" /\ client.calls = w.call /\ client.tries = w.tries
                   THEN [client EXCEPT !.pc = "replied",
                            !.reply = [code |-> code, from |-> w.to, leader |-> leader,
                                       value |-> value]]
                   ELSE client
  BY DEF Answer
<1>2. /\ w.call \in Calls /\ w.call <= client.calls /\ w.op \in Operation /\ w.to \in Server
      /\ proposed[w.call] = 0 /\ (outcome[w.call] = "lost" \/ Awaited(w))
      /\ \A v \in wire : v # w => v.call # w.call
  BY DEF KvInv, WireTyped, Undelivered
<1>3. proposed \in [Calls -> Nat] /\ outcome \in [Calls -> {"none", "written", "read", "refused", "lost"}]
  BY DEF KvInv, HistoryTyped
<1>4. /\ proposed' \in [Calls -> Nat]
      /\ proposed'[w.call] = IF w.op \in Command /\ code = "OK" THEN 1 ELSE 0
      /\ \A n \in Calls : n # w.call => proposed'[n] = proposed[n]
  BY <1>2, <1>3, WritesAreNoReads
<1>5. HistoryTyped'
  BY <1>1, <1>3, <1>4 DEF HistoryTyped
<1>6. CASE Awaited(w)
  <2>1. client.pc = "sent" /\ client.calls = w.call /\ client.tries = w.tries /\ client.op = w.op
    BY <1>6 DEF Awaited
  <2>2. client' = [client EXCEPT !.pc = "replied",
                            !.reply = [code |-> code, from |-> w.to, leader |-> leader, value |-> value]]
    BY <1>1, <2>1
  <2>3. /\ client'.pc = "replied" /\ client'.calls = client.calls /\ client'.op = client.op
        /\ client'.direct = client.direct
        /\ client'.reply = [code |-> code, from |-> w.to, leader |-> leader, value |-> value]
        /\ client' = [pc |-> client'.pc, calls |-> client'.calls, op |-> client'.op,
                      direct |-> client'.direct, addr |-> client'.addr, tries |-> client'.tries,
                      reply |-> client'.reply]
    BY <2>2 DEF KvInv, ClientInv
  <2>4. client'.reply.code = code
    BY <2>3
  <2>5. ClientInv'
    BY <2>1, <2>3 DEF KvInv, ClientInv
  <2>6. WireTyped'
    BY <1>1, <2>3 DEF KvInv, WireTyped
  <2>7. Undelivered'
    <3>1. ASSUME NEW v \in wire' PROVE proposed'[v.call] = 0 /\ outcome'[v.call] = "lost"
      <4>1. v \in wire /\ v.call \in Calls /\ v.call # w.call
        BY <1>1, <1>2 DEF KvInv, WireTyped
      <4>2. proposed[v.call] = 0 /\ outcome[v.call] = "lost"
        BY <2>1, <4>1 DEF KvInv, Undelivered, Awaited
      <4> QED
        BY <1>1, <1>4, <4>1, <4>2
    <3>2. \A v, x \in wire' : v.call = x.call => v = x
      BY <1>1 DEF KvInv, Undelivered
    <3> QED
      BY <3>1, <3>2 DEF Undelivered
  <2>8. outcome[w.call] = "none"
    BY <2>1 DEF KvInv, CurrentCall
  <2>9. CurrentCall'
    BY <1>1, <1>4, <2>1, <2>3, <2>4, <2>8 DEF CurrentCall
  <2>10. LaterCalls'
    BY <1>1, <1>4, <2>1, <2>3 DEF KvInv, LaterCalls, ClientInv
  <2>11. WriteOutcome'
    BY <1>1, <1>3, <1>4, <2>8 DEF KvInv, WriteOutcome
  <2> QED
    BY <1>5, <2>3, <2>5, <2>6, <2>7, <2>9, <2>10, <2>11 DEF KvInv
<1>7. CASE ~Awaited(w)
  <2>1. outcome[w.call] = "lost"
    BY <1>2, <1>7
  <2>2. client.pc # "idle" => client.calls # w.call
    BY <2>1 DEF KvInv, CurrentCall
  <2>3. client' = client
    BY <1>1, <2>2
  <2>4. ClientInv'
    BY <2>3 DEF KvInv, ClientInv
  <2>5. WireTyped'
    BY <1>1, <2>3 DEF KvInv, WireTyped
  <2>6. Undelivered'
    <3>1. ASSUME NEW v \in wire'
          PROVE  proposed'[v.call] = 0 /\ (outcome'[v.call] = "lost" \/ Awaited(v)')
      <4>1. v \in wire /\ v.call \in Calls /\ v.call # w.call
        BY <1>1, <1>2 DEF KvInv, WireTyped
      <4>2. proposed[v.call] = 0 /\ (outcome[v.call] = "lost" \/ Awaited(v))
        BY <4>1 DEF KvInv, Undelivered
      <4> QED
        BY <1>1, <1>4, <2>3, <4>1, <4>2 DEF Awaited
    <3>2. \A v, x \in wire' : v.call = x.call => v = x
      BY <1>1 DEF KvInv, Undelivered
    <3> QED
      BY <3>1, <3>2 DEF Undelivered
  <2>7. CurrentCall'
    <3>1. client.pc # "idle" => client.calls \in Calls
      BY DEF KvInv, ClientInv
    <3> QED
      BY <1>1, <1>4, <2>2, <2>3, <3>1 DEF KvInv, CurrentCall
  <2>8. LaterCalls'
    BY <1>1, <1>2, <1>4, <2>1, <2>3 DEF KvInv, LaterCalls
  <2>9. WriteOutcome'
    BY <1>1, <1>3, <1>4, <2>1 DEF KvInv, WriteOutcome
  <2> QED
    BY <1>5, <2>3, <2>4, <2>5, <2>6, <2>7, <2>8, <2>9 DEF KvInv
<1> QED
  BY <1>6, <1>7

-----------------------------------------------------------------------------
(* KvService *)

\* The four ways handlePut and handleDelete end.  What a node answers besides OK has
\* caused nothing, and a redirect names another node, one that has won an election.
LEMMA WriteKeeps ==
    ASSUME TypeOK, LeaderHintElected, KvInv, RedirectsNameWinners, NEW w \in wire, HandleWrite(w)
    PROVE  KvInv' /\ RedirectsNameWinners' /\ [Next]_vars
<1>1. w.op \in Command /\ w.to \in Server
  BY DEF HandleWrite, KvInv, WireTyped
<1>2. CASE /\ Redirects(w.to)
           /\ Answer(w, "NOT_LEADER", LeaderAddr(w.to), Absent)
           /\ UNCHANGED <<vars, engine, proposed>>
  <2>1. /\ LeaderAddr(w.to) = leaderId[w.to] /\ leaderId[w.to] # Nil /\ leaderId[w.to] # w.to
    BY <1>2 DEF Redirects, LeaderAddr
  <2>2. leaderId[w.to] \in Server
    BY <1>1, <2>1 DEF TypeOK
  <2>3. Winner(leaderId[w.to])
    <3>1. PICK t \in 1 .. currentTerm[w.to] : <<t, leaderId[w.to]>> \in elected
      BY <1>1, <2>1 DEF LeaderHintElected
    <3>2. t \in Nat
      OBVIOUS
    <3> QED
      BY <3>1, <3>2 DEF Winner
  <2>4. elected' = elected
    BY <1>2 DEF vars
  <2>5. /\ KvInv'
        /\ \/ client' = client
           \/ /\ client'.pc = "replied"
              /\ client'.reply = [code |-> "NOT_LEADER", from |-> w.to,
                                  leader |-> LeaderAddr(w.to), value |-> Absent]
    BY <1>2, AnswerKeeps
  <2>6. RedirectsNameWinners'
    <3>1. CASE client' = client
      BY <2>4, <3>1 DEF RedirectsNameWinners, Winner
    <3>2. CASE client'.reply = [code |-> "NOT_LEADER", from |-> w.to,
                                leader |-> LeaderAddr(w.to), value |-> Absent]
      <4>1. client'.reply.leader = leaderId[w.to] /\ client'.reply.from = w.to
        BY <2>1, <3>2
      <4>2. \E t \in Nat : <<t, client'.reply.leader>> \in elected'
        BY <2>3, <2>4, <4>1 DEF Winner
      <4> QED
        BY <2>1, <2>2, <4>1, <4>2 DEF RedirectsNameWinners, Winner
    <3> QED
      BY <2>5, <3>1, <3>2
  <2> QED
    BY <1>2, <2>5, <2>6
<1>3. CASE Answer(w, "INTERNAL_ERROR", Nil, Absent) /\ UNCHANGED <<vars, engine, proposed>>
  <2>1. /\ KvInv'
        /\ \/ client' = client
           \/ client'.reply = [code |-> "INTERNAL_ERROR", from |-> w.to, leader |-> Nil, value |-> Absent]
    BY <1>3, AnswerKeeps
  <2>2. elected' = elected
    BY <1>3 DEF vars
  <2>3. RedirectsNameWinners'
    BY <2>1, <2>2 DEF RedirectsNameWinners, Winner
  <2> QED
    BY <1>3, <2>1, <2>3
<1>4. CASE /\ Answer(w, "OK", Nil, Absent)
           /\ proposed' = [proposed EXCEPT ![w.call] = @ + 1]
           /\ Propose(w.to, w.op) \/ UNCHANGED vars
  <2>1. /\ KvInv'
        /\ \/ client' = client
           \/ client'.reply = [code |-> "OK", from |-> w.to, leader |-> Nil, value |-> Absent]
    BY <1>1, <1>4, AnswerKeeps, ZenonT(30)
  <2>2. elected' = elected
    BY <1>4 DEF vars, Propose
  <2>3. RedirectsNameWinners'
    BY <2>1, <2>2 DEF RedirectsNameWinners, Winner
  <2>4. [Next]_vars
    BY <1>1, <1>4, KvAssumption DEF Next
  <2> QED
    BY <2>1, <2>3, <2>4
<1> QED
  BY <1>2, <1>3, <1>4 DEF HandleWrite, NoLeader

\* handleGet and handleScan cause nothing.
LEMMA ReadKeeps ==
    ASSUME TypeOK, LeaderHintElected, KvInv, RedirectsNameWinners, NEW w \in wire, HandleRead(w)
    PROVE  KvInv' /\ RedirectsNameWinners' /\ UNCHANGED vars
<1>1. w.op \in ReadOp /\ w.to \in Server /\ UNCHANGED <<vars, engine, proposed>>
  BY DEF HandleRead, KvInv, WireTyped
<1>2. elected' = elected
  BY <1>1 DEF vars
<1>3. CASE Redirects(w.to) /\ Answer(w, "NOT_LEADER", LeaderAddr(w.to), Absent)
  <2>1. /\ LeaderAddr(w.to) = leaderId[w.to] /\ leaderId[w.to] # Nil /\ leaderId[w.to] # w.to
    BY <1>3 DEF Redirects, LeaderAddr
  <2>2. leaderId[w.to] \in Server
    BY <1>1, <2>1 DEF TypeOK
  <2>3. Winner(leaderId[w.to])
    <3>1. PICK t \in 1 .. currentTerm[w.to] : <<t, leaderId[w.to]>> \in elected
      BY <1>1, <2>1 DEF LeaderHintElected
    <3>2. t \in Nat
      OBVIOUS
    <3> QED
      BY <3>1, <3>2 DEF Winner
  <2>4. /\ KvInv'
        /\ \/ client' = client
           \/ /\ client'.pc = "replied"
              /\ client'.reply = [code |-> "NOT_LEADER", from |-> w.to,
                                  leader |-> LeaderAddr(w.to), value |-> Absent]
    BY <1>1, <1>3, AnswerKeeps
  <2>5. RedirectsNameWinners'
    BY <1>2, <2>1, <2>2, <2>3, <2>4 DEF RedirectsNameWinners, Winner
  <2> QED
    BY <1>1, <2>4, <2>5
<1>4. ASSUME NEW code \in {"OK", "KEY_NOT_FOUND"}, NEW value, Answer(w, code, Nil, value)
      PROVE  KvInv' /\ RedirectsNameWinners'
  <2>1. /\ KvInv'
        /\ \/ client' = client
           \/ client'.reply = [code |-> code, from |-> w.to, leader |-> Nil, value |-> value]
    BY <1>1, <1>4, AnswerKeeps
  <2> QED
    BY <1>2, <2>1, SMTT(30) DEF RedirectsNameWinners, Winner
<1>5. ReadCode(w.to, w.op) \in {"OK", "KEY_NOT_FOUND"}
  BY DEF ReadCode
<1> QED
  BY <1>1, <1>3, <1>4, <1>5 DEF HandleRead

-----------------------------------------------------------------------------
(* KvClient *)

\* A new call: its number has not been used, so nothing on the wire belongs to it.
LEMMA CallKeeps == ASSUME KvInv, NEW op \in Operation, Call(op) PROVE KvInv'
<1> DEFINE c == [client EXCEPT !.calls = @ + 1]
           n == client.calls + 1
           new == [call |-> n, tries |-> MaxRetries, op |-> op, to |-> client.direct]
<1>1. client.pc = "idle" /\ client.calls < MaxCalls /\ UNCHANGED <<proposed, outcome>>
  BY DEF Call
<1>2. /\ client = [pc |-> client.pc, calls |-> client.calls, op |-> client.op,
                   direct |-> client.direct, addr |-> client.addr, tries |-> client.tries,
                   reply |-> client.reply]
      /\ client.calls \in Nat /\ client.direct \in Server /\ MaxCalls \in Nat
  BY KvAssumption DEF KvInv, ClientInv
<1>3. c.calls = n
  BY <1>2
<1>4. /\ client' = [c EXCEPT !.pc = "sent", !.op = op, !.addr = client.direct, !.tries = MaxRetries,
                             !.reply = NoReply]
      /\ wire' = wire \cup {[call |-> c.calls, tries |-> MaxRetries, op |-> op, to |-> client.direct]}
  BY DEF Call, Attempt
<1>5. client' = [pc |-> "sent", calls |-> n, op |-> op, direct |-> client.direct,
                 addr |-> client.direct, tries |-> MaxRetries, reply |-> NoReply]
  BY <1>2, <1>4
<1>6. wire' = wire \cup {new}
  BY <1>3, <1>4
<1>7. n \in Calls /\ n > client.calls
  BY <1>1, <1>2 DEF Calls
<1>8. outcome[n] = "none" /\ proposed[n] = 0
  BY <1>7 DEF KvInv, LaterCalls
<1>9. \A w \in wire : w.call \in Calls /\ w.call <= client.calls /\ w.call # n
  BY <1>2 DEF KvInv, WireTyped, Calls
<1>10. new.call = n /\ new.tries = MaxRetries /\ new.op = op /\ new.to = client.direct
  OBVIOUS
<1>11. /\ client'.pc = "sent" /\ client'.calls = n /\ client'.op = op
       /\ client'.direct = client.direct /\ client'.tries = MaxRetries
  BY <1>5
<1>12. ClientInv'
  <2>1. n \in 0 .. MaxCalls
    BY <1>1, <1>2
  <2>2. client' = [pc |-> client'.pc, calls |-> client'.calls, op |-> client'.op,
                   direct |-> client'.direct, addr |-> client'.addr, tries |-> client'.tries,
                   reply |-> client'.reply]
    BY <1>5
  <2> QED
    BY <1>2, <1>7, <1>11, <2>1, <2>2 DEF ClientInv
<1> HIDE DEF new
<1>13. WireTyped'
  <2>1. n <= n /\ \A w \in wire : w.call <= n
    BY <1>2, <1>9 DEF Calls
  <2> QED
    BY <1>2, <1>6, <1>7, <1>10, <1>11, <2>1 DEF KvInv, WireTyped
<1>14. Undelivered'
  <2>1. \A w \in wire : proposed[w.call] = 0 /\ outcome[w.call] = "lost"
    BY <1>1 DEF KvInv, Undelivered, Awaited
  <2>2. \A w : w = new => Awaited(w)'
    BY <1>10, <1>11 DEF Awaited
  <2>3. \A v, w \in wire' : v.call = w.call => v = w
    BY <1>6, <1>9, <1>10 DEF KvInv, Undelivered
  <2> QED
    BY <1>1, <1>6, <1>8, <1>10, <2>1, <2>2, <2>3 DEF Undelivered
<1>15. CurrentCall'
  BY <1>1, <1>8, <1>11 DEF CurrentCall
<1>16. LaterCalls'
  <2>1. \A k \in Calls : k > n => k > client.calls
    BY <1>2 DEF Calls
  <2> QED
    BY <1>1, <1>11, <2>1 DEF KvInv, LaterCalls
<1>17. HistoryTyped' /\ WriteOutcome'
  BY <1>1 DEF KvInv, HistoryTyped, WriteOutcome
<1> QED
  BY <1>12, <1>13, <1>14, <1>15, <1>16, <1>17 DEF KvInv

\* A call returns: with "lost" whatever has happened, otherwise with what the node said.
LEMMA ReturnKeeps ==
    ASSUME KvInv, client.pc # "idle", NEW d \in Server,
           NEW result \in {"written", "read", "refused", "lost"},
           client' = [client EXCEPT !.direct = d, !.pc = "idle", !.op = NoOp, !.tries = 0,
                                    !.reply = NoReply],
           outcome' = [outcome EXCEPT ![client.calls] = result],
           proposed' = proposed, wire' \subseteq wire,
           result # "lost" => client.pc = "replied",
           result = "written" => proposed[client.calls] = 1,
           result = "refused" => proposed[client.calls] = 0
    PROVE  KvInv'
<1>1. /\ client = [pc |-> client.pc, calls |-> client.calls, op |-> client.op,
                   direct |-> client.direct, addr |-> client.addr, tries |-> client.tries,
                   reply |-> client.reply]
      /\ client.calls \in Calls /\ client.calls \in 0 .. MaxCalls
  BY DEF KvInv, ClientInv
<1>2. client' = [pc |-> "idle", calls |-> client.calls, op |-> NoOp, direct |-> d,
                 addr |-> client.addr, tries |-> 0, reply |-> NoReply]
  BY <1>1
<1>3. client'.pc = "idle" /\ client'.calls = client.calls /\ client'.direct = d
  BY <1>2
<1>4. ClientInv'
  <2>1. client' = [pc |-> client'.pc, calls |-> client'.calls, op |-> client'.op,
                   direct |-> client'.direct, addr |-> client'.addr, tries |-> client'.tries,
                   reply |-> client'.reply]
    BY <1>2
  <2> QED
    BY <1>1, <1>3, <2>1 DEF ClientInv
<1>5. /\ outcome' \in [Calls -> {"none", "written", "read", "refused", "lost"}]
      /\ outcome'[client.calls] = result
      /\ \A n \in Calls : n # client.calls => outcome'[n] = outcome[n]
  BY <1>1 DEF KvInv, HistoryTyped
<1>6. HistoryTyped'
  BY <1>5 DEF KvInv, HistoryTyped
<1>7. WireTyped'
  BY <1>3 DEF KvInv, WireTyped
<1>8. Undelivered'
  <2>1. ASSUME NEW w \in wire' PROVE proposed'[w.call] = 0 /\ outcome'[w.call] = "lost"
    <3>1. /\ w.call \in Calls /\ proposed[w.call] = 0
          /\ outcome[w.call] = "lost" \/ Awaited(w)
      BY DEF KvInv, WireTyped, Undelivered
    <3>2. CASE w.call = client.calls
      <4>1. outcome[client.calls] = "none"
        BY DEF KvInv, CurrentCall
      <4>2. Awaited(w)
        BY <3>1, <3>2, <4>1
      <4>3. result = "lost"
        BY <4>2 DEF Awaited
      <4> QED
        BY <1>5, <3>1, <3>2, <4>3
    <3>3. CASE w.call # client.calls
      <4>1. outcome[w.call] = "lost"
        BY <3>1, <3>3 DEF Awaited
      <4> QED
        BY <1>5, <3>1, <3>3, <4>1
    <3> QED
      BY <3>2, <3>3
  <2>2. \A v, w \in wire' : v.call = w.call => v = w
    BY DEF KvInv, Undelivered
  <2> QED
    BY <2>1, <2>2 DEF Undelivered
<1>9. CurrentCall'
  BY <1>3 DEF CurrentCall
<1>10. LaterCalls'
  BY <1>1, <1>3, <1>5 DEF KvInv, LaterCalls
<1>11. WriteOutcome'
  BY <1>1, <1>5 DEF KvInv, WriteOutcome
<1> QED
  BY <1>4, <1>6, <1>7, <1>8, <1>9, <1>10, <1>11 DEF KvInv

\* A redirect is followed: the refused attempt has caused nothing and is off the wire.
LEMMA FollowKeeps ==
    ASSUME KvInv, client.pc = "replied", client.reply.code # "OK",
           NEW d \in Server, NEW tries,
           Attempt([client EXCEPT !.direct = d], client.op, d, tries),
           UNCHANGED <<proposed, outcome>>
    PROVE  KvInv'
<1> DEFINE c == [client EXCEPT !.direct = d]
           new == [call |-> client.calls, tries |-> tries, op |-> client.op, to |-> d]
<1>1. /\ client = [pc |-> client.pc, calls |-> client.calls, op |-> client.op,
                   direct |-> client.direct, addr |-> client.addr, tries |-> client.tries,
                   reply |-> client.reply]
      /\ client.calls \in Calls /\ client.calls \in 0 .. MaxCalls /\ client.op \in Operation
  BY DEF KvInv, ClientInv
<1>2. c.calls = client.calls
  BY <1>1
<1>3. /\ client' = [c EXCEPT !.pc = "sent", !.op = client.op, !.addr = d, !.tries = tries,
                             !.reply = NoReply]
      /\ wire' = wire \cup {[call |-> c.calls, tries |-> tries, op |-> client.op, to |-> d]}
  BY DEF Attempt
<1>4. client' = [pc |-> "sent", calls |-> client.calls, op |-> client.op, direct |-> d,
                 addr |-> d, tries |-> tries, reply |-> NoReply]
  BY <1>1, <1>3
<1>5. wire' = wire \cup {new}
  BY <1>2, <1>3
<1>6. new.call = client.calls /\ new.tries = tries /\ new.op = client.op /\ new.to = d
  OBVIOUS
<1>7. /\ client'.pc = "sent" /\ client'.calls = client.calls /\ client'.op = client.op
      /\ client'.direct = d /\ client'.tries = tries
  BY <1>4
<1>8. outcome[client.calls] = "none" /\ proposed[client.calls] = 0
  BY DEF KvInv, CurrentCall
<1>9. \A w \in wire : proposed[w.call] = 0 /\ outcome[w.call] = "lost" /\ w.call # client.calls
  BY <1>8 DEF KvInv, Undelivered, Awaited
<1> HIDE DEF new, c
<1>10. ClientInv'
  <2>1. client' = [pc |-> client'.pc, calls |-> client'.calls, op |-> client'.op,
                   direct |-> client'.direct, addr |-> client'.addr, tries |-> client'.tries,
                   reply |-> client'.reply]
    BY <1>4
  <2> QED
    BY <1>1, <1>7, <2>1 DEF ClientInv
<1>11. WireTyped'
  <2>1. client.calls <= client.calls
    BY <1>1
  <2> QED
    BY <1>1, <1>5, <1>6, <1>7, <2>1 DEF KvInv, WireTyped
<1>12. Undelivered'
  <2>1. \A w : w = new => Awaited(w)'
    BY <1>6, <1>7 DEF Awaited
  <2>2. \A v, w \in wire' : v.call = w.call => v = w
    BY <1>5, <1>6, <1>9 DEF KvInv, Undelivered
  <2> QED
    BY <1>5, <1>6, <1>8, <1>9, <2>1, <2>2 DEF Undelivered
<1>13. CurrentCall'
  BY <1>7, <1>8 DEF CurrentCall
<1>14. LaterCalls' /\ HistoryTyped' /\ WriteOutcome'
  BY <1>7 DEF KvInv, LaterCalls, HistoryTyped, WriteOutcome
<1> QED
  BY <1>10, <1>11, <1>12, <1>13, <1>14 DEF KvInv

\* The client reads a reply: it follows it, or returns what it says.
LEMMA ReceiveKeeps ==
    ASSUME KvInv, RedirectsNameWinners, Receive
    PROVE  KvInv' /\ RedirectsNameWinners' /\ UNCHANGED vars
<1> DEFINE r == client.reply
           c == IF Follows(client.op, r) THEN [client EXCEPT !.direct = r.leader] ELSE client
<1>1. client.pc = "replied" /\ UNCHANGED <<vars, proposed>>
  BY DEF Receive
<1>2. /\ client = [pc |-> client.pc, calls |-> client.calls, op |-> client.op,
                   direct |-> client.direct, addr |-> client.addr, tries |-> client.tries,
                   reply |-> client.reply]
      /\ client.direct \in Server /\ client.op \in Operation
  BY <1>1 DEF KvInv, ClientInv
<1>3. Follows(client.op, r) => r.leader \in Server /\ r.code = "NOT_LEADER"
  BY <1>1 DEF Follows, RedirectsNameWinners
<1>4. proposed[client.calls] = IF client.op \in Command /\ r.code = "OK" THEN 1 ELSE 0
  BY <1>1 DEF KvInv, CurrentCall
<1>5. ASSUME client'.pc # "replied" PROVE RedirectsNameWinners'
  BY <1>5 DEF RedirectsNameWinners
<1>6. CASE Follows(client.op, r) /\ Attempt(c, client.op, r.leader, client.tries - 1) /\ UNCHANGED outcome
  <2>1. c = [client EXCEPT !.direct = r.leader]
    BY <1>6
  <2>2. client'.pc = "sent"
    BY <1>2, <1>6, <2>1 DEF Attempt
  <2>3. KvInv'
    BY <1>1, <1>3, <1>6, <2>1, FollowKeeps
  <2> QED
    BY <1>1, <1>5, <2>2, <2>3
<1>7. CASE Follows(client.op, r) /\ Return(c, "refused") /\ UNCHANGED wire
  <2>1. c = [client EXCEPT !.direct = r.leader] /\ c.calls = client.calls
    BY <1>2, <1>7
  <2>2. client' = [client EXCEPT !.direct = r.leader, !.pc = "idle", !.op = NoOp, !.tries = 0,
                                 !.reply = NoReply]
    BY <1>2, <1>7, <2>1 DEF Return
  <2>3. outcome' = [outcome EXCEPT ![client.calls] = "refused"]
    BY <1>7, <2>1 DEF Return
  <2>4. proposed[client.calls] = 0
    BY <1>3, <1>4, <1>7
  <2>5. KvInv'
    BY <1>1, <1>3, <1>7, <2>2, <2>3, <2>4, ReturnKeeps
  <2>6. client'.pc = "idle"
    BY <1>2, <2>2
  <2> QED
    BY <1>1, <1>5, <2>5, <2>6
<1>8. CASE ~Follows(client.op, r) /\ Return(c, Result(client.op, r)) /\ UNCHANGED wire
  <2>1. c = client
    BY <1>8
  <2>2. client' = [client EXCEPT !.direct = client.direct, !.pc = "idle", !.op = NoOp, !.tries = 0,
                                 !.reply = NoReply]
    BY <1>2, <1>8, <2>1 DEF Return
  <2>3. outcome' = [outcome EXCEPT ![client.calls] = Result(client.op, r)]
    BY <1>8, <2>1 DEF Return
  <2>4. /\ Result(client.op, r) \in {"written", "read", "refused"}
        /\ Result(client.op, r) = "written" => proposed[client.calls] = 1
        /\ Result(client.op, r) = "refused" => proposed[client.calls] = 0
    BY <1>4 DEF Result
  <2>5. KvInv'
    BY <1>1, <1>2, <1>8, <2>2, <2>3, <2>4, ReturnKeeps
  <2>6. client'.pc = "idle"
    BY <1>2, <2>2
  <2> QED
    BY <1>1, <1>5, <2>5, <2>6
<1> QED
  BY <1>6, <1>7, <1>8 DEF Receive

\* The connection is lost, with the request or with the reply; a node that dies takes the
\* requests on its connections with it.
LEMMA LossKeeps ==
    ASSUME KvInv, RedirectsNameWinners, client.pc # "idle", Return(client, "lost"),
           proposed' = proposed, wire' \subseteq wire
    PROVE  KvInv' /\ RedirectsNameWinners'
<1>1. /\ client = [pc |-> client.pc, calls |-> client.calls, op |-> client.op,
                   direct |-> client.direct, addr |-> client.addr, tries |-> client.tries,
                   reply |-> client.reply]
      /\ client.direct \in Server
  BY DEF KvInv, ClientInv
<1>2. client' = [client EXCEPT !.direct = client.direct, !.pc = "idle", !.op = NoOp, !.tries = 0,
                               !.reply = NoReply]
  BY <1>1 DEF Return
<1>3. outcome' = [outcome EXCEPT ![client.calls] = "lost"]
  BY DEF Return
<1>4. KvInv'
  BY <1>1, <1>2, <1>3, ReturnKeeps
<1>5. client'.pc = "idle"
  BY <1>1, <1>2
<1> QED
  BY <1>4, <1>5 DEF RedirectsNameWinners

-----------------------------------------------------------------------------
(* The store over Raft *)

\* Whatever happens in the store, its nodes take a step of Raft or none.
LEMMA StoreStep ==
    TypeOK /\ LeaderHintElected /\ KvInv /\ RedirectsNameWinners /\ [KvNext]_allVars
        => /\ [Next]_vars /\ KvInv'
           /\ elected \subseteq elected' => RedirectsNameWinners'
<1> SUFFICES ASSUME TypeOK, LeaderHintElected, KvInv, RedirectsNameWinners, [KvNext]_allVars
             PROVE  /\ [Next]_vars /\ KvInv'
                    /\ elected \subseteq elected' => RedirectsNameWinners'
  OBVIOUS
<1>1. ASSUME client' = client, elected \subseteq elected' PROVE RedirectsNameWinners'
  BY <1>1 DEF RedirectsNameWinners, Winner
<1>2. CASE RaftRuns
  <2>1. RunStep /\ UNCHANGED <<client, wire, proposed, outcome>>
    BY <1>2 DEF RaftRuns
  <2>2. KvInv'
    BY <2>1, RequestsVanish
  <2> QED
    BY <1>1, <2>1, <2>2 DEF Next
<1>3. ASSUME NEW i \in Server, NodeDies(i)
      PROVE  /\ [Next]_vars /\ KvInv'
             /\ elected \subseteq elected' => RedirectsNameWinners'
  <2>1. CrashStep(i) /\ proposed' = proposed /\ wire' \subseteq wire
    BY <1>3 DEF NodeDies, CrashStep
  <2>2. [Next]_vars
    BY <2>1 DEF Next
  <2>3. CASE client.pc # "idle" /\ Return(client, "lost")
    BY <2>1, <2>2, <2>3, LossKeeps
  <2>4. CASE UNCHANGED <<client, outcome>>
    BY <1>1, <2>1, <2>2, <2>4, RequestsVanish
  <2> QED
    BY <1>3, <2>3, <2>4 DEF NodeDies
<1>4. CASE HandleRequest
  BY <1>4, WriteKeeps, ReadKeeps DEF HandleRequest
<1>5. ASSUME NEW op \in Command \cup ReadOp, Call(op)
      PROVE  UNCHANGED vars /\ KvInv' /\ RedirectsNameWinners'
  <2>1. KvInv'
    BY <1>5, CallKeeps DEF Operation
  <2>2. client'.pc = "sent" /\ UNCHANGED vars
    BY <1>5 DEF Call, Attempt, KvInv, ClientInv
  <2> QED
    BY <2>1, <2>2 DEF RedirectsNameWinners
<1>6. CASE Receive
  BY <1>6, ReceiveKeeps
<1>7. CASE ConnectionLost
  <2>1. /\ client.pc # "idle" /\ Return(client, "lost") /\ UNCHANGED vars
        /\ proposed' = proposed /\ wire' \subseteq wire
    BY <1>7 DEF ConnectionLost
  <2> QED
    BY <2>1, LossKeeps
<1>8. CASE UNCHANGED allVars
  <2>1. UNCHANGED <<client, wire, proposed, outcome>> /\ UNCHANGED vars
    BY <1>8 DEF allVars
  <2> QED
    BY <1>1, <2>1, RequestsVanish
<1> QED
  BY <1>2, <1>3, <1>4, <1>5, <1>6, <1>7, <1>8 DEF KvNext

\* The store keeps the invariants of Raft together with its own.
LEMMA StoreInvariance ==
    KvSpec => [](IInv /\ LeaderInv /\ KvInv /\ RedirectsNameWinners) /\ [][Next]_vars
<1> DEFINE J == IInv /\ LeaderInv /\ KvInv /\ RedirectsNameWinners
<1>1. IInv /\ LeaderInv => TypeOK /\ LeaderHintElected
  BY DEF IInv, TypeInv, LeaderInv
<1>2. KvInit => J
  BY KvStart, InitIInv, InitLeader DEF KvInit
<1>3. J /\ [KvNext]_allVars => J' /\ [Next]_vars
  <2> SUFFICES ASSUME J, [KvNext]_allVars PROVE J' /\ [Next]_vars
    OBVIOUS
  <2>1. [Next]_vars /\ KvInv' /\ (elected \subseteq elected' => RedirectsNameWinners')
    BY <1>1, StoreStep
  <2>2. LeaderStep
    BY <2>1, NextLeaderStep
  <2>3. elected \subseteq elected'
    BY <2>2 DEF LeaderStep, WinsAsLeader
  <2>4. IInv' /\ LeaderInv'
    BY <2>1, NextIInv, NextLeader
  <2> QED
    BY <2>1, <2>3, <2>4
<1> QED
  BY <1>2, <1>3, PTL DEF KvSpec

\* The nodes of the store, whatever clients ask of them and whichever connections break,
\* are a Raft cluster: every theorem about module Raft holds of the store.
THEOREM StoreRunsRaft == KvSpec => Spec
<1>1. KvInit => Init
  BY DEF KvInit
<1> QED
  BY <1>1, StoreInvariance, PTL DEF KvSpec, Spec

\* So the store has at most one leader in a term, whatever its clients do.
COROLLARY StoreHasOneLeaderPerTerm == KvSpec => []ElectionSafety
<1> QED
  BY StoreRunsRaft, AtMostOneLeaderPerTerm, PTL

\* One call of put or del puts at most one entry into a log; a write that returns true has
\* put one there and a refused one none, for any number of retries and redirects and with
\* requests of earlier calls still on the wire.
THEOREM CallsWriteOnce == KvSpec => []WriteOutcome
<1>1. KvInv => WriteOutcome
  BY DEF KvInv
<1> QED
  BY <1>1, StoreInvariance, PTL

\* A node that redirects a client sends it to another node, one that has been elected.
THEOREM RedirectsLeadToWinners == KvSpec => []RedirectsNameWinners
<1> QED
  BY StoreInvariance, PTL
=============================================================================
