------------------------------ MODULE KvStore ------------------------------
(***************************************************************************)
(* The key-value service on top of Raft and the client library that talks  *)
(* to it: KvService and DataServer::dispatchClientRpc in a data node,      *)
(* RaftService::onApply and RocksEngine below them, KvClient and its       *)
(* Router (direct mode, the one demo_cli uses) on the other side.  A node  *)
(* that was started without a node id has no RaftService and writes to its *)
(* engine at once.                                                         *)
(*                                                                         *)
(* A client handler is a callback of the node's event loop, atomic like    *)
(* the handlers of module Raft.  The client is a blocking process: every   *)
(* attempt opens a connection, writes one request, waits for the reply     *)
(* without a timeout and closes.  User keys are taken to be apart from the *)
(* keys Raft keeps in the same RocksDB.                                    *)
(***************************************************************************)
EXTENDS Raft

S == INSTANCE SequencesExt

CONSTANTS
    Key, Data,  \* user keys and the values put under them
    Absent,     \* no value
    MaxRetries, \* default of sendToAddr: attempts of one call
    MaxCalls,   \* bound: calls of the client
    MaxLost     \* bound: connections between client and node lost without a crash

\* What handlePut and handleDelete propose: the serialized request
Command == [type : {"PUT"}, key : Key, value : Data]
           \cup [type : {"DELETE"}, key : Key, value : {Absent}]
ReadOp  == [type : {"GET"}, key : Key] \cup [type : {"SCAN"}]

ASSUME KvAssumption ==
    /\ Value = Command /\ Absent \notin Data
    /\ MaxRetries \in Nat \ {0} /\ MaxCalls \in Nat /\ MaxLost \in Nat

VARIABLES
    alone,    \* the nodes have been started without Raft: raft_ is null
    engine,   \* RocksDB of each node: the user keys
    client,   \* KvClient: the call it is in, its attempt, and Router::directAddr_
    wire,     \* requests written to a connection and not yet read by their node
    lost,     \* bound
    proposed, \* history: log entries, or writes without Raft, call n has caused
    outcome   \* history: what call n returned

allVars == <<vars, alone, engine, client, wire, lost, proposed, outcome>>

Calls  == 1 .. MaxCalls
NoOp   == [type |-> "NONE"]
NoReply == [code |-> "NONE", from |-> Nil, leader |-> Nil, value |-> Absent]

\* onApply: one committed command against the engine
OnApply(e, entry) == [e EXCEPT ![entry.command.key] = entry.command.value]

\* The part of applyEntries that lies outside RaftNode: every entry handed to
\* applyCb_ in this step, in order
Apply == engine' = [i \in Server |->
    S!FoldLeft(OnApply, engine[i], SubSeq(applied'[i], Len(applied[i]) + 1, Len(applied'[i])))]

KvInit ==
    /\ Init
    /\ alone \in BOOLEAN
    /\ engine = [i \in Server |-> [k \in Key |-> Absent]]
    /\ \E i \in Server : client = [pc |-> "idle", calls |-> 0, op |-> NoOp, direct |-> i,
                                   addr |-> i, tries |-> 0, reply |-> NoReply]
    /\ wire = {} /\ lost = 0
    /\ proposed = [n \in Calls |-> 0]
    /\ outcome = [n \in Calls |-> "none"]

-----------------------------------------------------------------------------
(* KvService *)

\* getLeaderAddr: nobody known, or this node itself, gives no address
LeaderAddr(i) == IF leaderId[i] = i THEN Nil ELSE leaderId[i]

\* Not the leader, and able to name another node
Redirects(i) == ~alone /\ state[i] # "LEADER" /\ LeaderAddr(i) # Nil

\* The node reads request w and answers on its connection; nobody reads the answer if
\* the client has given the connection up
Answer(w, code, leader, value) ==
    /\ wire' = wire \ {w}
    /\ client' = IF client.pc = "sent" /\ client.calls = w.call /\ client.tries = w.tries
                 THEN [client EXCEPT !.pc = "replied",
                          !.reply = [code |-> code, from |-> w.to, leader |-> leader,
                                     value |-> value]]
                 ELSE client
    /\ UNCHANGED <<alone, lost, outcome>>

\* Mutant: the handler returns without an answer
NoLeader_Silent(w) == wire' = wire \ {w} /\ UNCHANGED <<alone, client, lost, outcome>>

\* A write meets a node that has no leader to name
NoLeader(w) == Answer(w, "INTERNAL_ERROR", Nil, Absent)

\* handlePut and handleDelete
HandleWrite(w) ==
    /\ w.op \in Command
    /\ \/ /\ Redirects(w.to)
          /\ Answer(w, "NOT_LEADER", LeaderAddr(w.to), Absent)
          /\ UNCHANGED <<vars, engine, proposed>>
       \/ /\ ~alone /\ state[w.to] # "LEADER" /\ ~Redirects(w.to)
          /\ NoLeader(w)
          /\ UNCHANGED <<vars, engine, proposed>>
       \/ /\ alone
          /\ engine' = [engine EXCEPT ![w.to][w.op.key] = w.op.value]
          /\ Answer(w, "OK", Nil, Absent)
          /\ proposed' = [proposed EXCEPT ![w.call] = @ + 1]
          /\ UNCHANGED vars
       \/ /\ ~alone /\ state[w.to] = "LEADER"
          /\ Propose(w.to, w.op)
          /\ Answer(w, "OK", Nil, Absent)
          /\ proposed' = [proposed EXCEPT ![w.call] = @ + 1]
          /\ UNCHANGED engine

\* What a read finds in the engine
ReadCode(i, op)  == IF op.type = "GET" /\ engine[i][op.key] = Absent
                    THEN "KEY_NOT_FOUND" ELSE "OK"
ReadValue(i, op) == IF op.type = "GET" THEN engine[i][op.key] ELSE engine[i]

\* handleGet and handleScan
HandleRead(w) ==
    /\ w.op \in ReadOp
    /\ \/ /\ Redirects(w.to)
          /\ Answer(w, "NOT_LEADER", LeaderAddr(w.to), Absent)
       \/ /\ ~Redirects(w.to)
          /\ Answer(w, ReadCode(w.to, w.op), Nil, ReadValue(w.to, w.op))
    /\ UNCHANGED <<vars, engine, proposed>>

-----------------------------------------------------------------------------
(* KvClient *)

\* One attempt of sendToAddr: connect and write the request
Attempt(c, op, to, tries) ==
    /\ client' = [c EXCEPT !.pc = "sent", !.op = op, !.addr = to, !.tries = tries,
                           !.reply = NoReply]
    /\ wire' = wire \cup {[call |-> c.calls, tries |-> tries, op |-> op, to |-> to]}

Return(c, result) ==
    /\ client' = [c EXCEPT !.pc = "idle", !.op = NoOp, !.tries = 0, !.reply = NoReply]
    /\ outcome' = [outcome EXCEPT ![c.calls] = result]

\* put, get, del, scan: the first attempt goes to directAddr_
Call(op) ==
    /\ client.pc = "idle"
    /\ client.calls < MaxCalls
    /\ Attempt([client EXCEPT !.calls = @ + 1], op, client.direct, MaxRetries)
    /\ UNCHANGED <<vars, alone, engine, lost, proposed, outcome>>

\* sendToAddr looks for NOT_LEADER in the replies to PUT and GET only
Follows(op, reply) == op.type \in {"PUT", "GET"} /\ reply.code = "NOT_LEADER"

\* What the caller learns.  scan does not look at the error code: refused, it returns
\* the empty list
Result(op, reply) == IF reply.code # "OK" THEN "refused"
                     ELSE IF op \in Command THEN "written" ELSE "read"

Receive ==
    /\ client.pc = "replied"
    /\ LET r == client.reply
           c == IF Follows(client.op, r) THEN [client EXCEPT !.direct = r.leader] ELSE client
       IN  \/ /\ Follows(client.op, r) /\ client.tries > 1
              /\ Attempt(c, client.op, r.leader, client.tries - 1)
              /\ UNCHANGED outcome
           \/ /\ Follows(client.op, r) /\ client.tries = 1
              /\ Return(c, "refused")
              /\ UNCHANGED wire
           \/ /\ ~Follows(client.op, r)
              /\ Return(c, Result(client.op, r))
              /\ UNCHANGED wire
    /\ UNCHANGED <<vars, alone, engine, lost, proposed>>

\* Mutant: sendToAddr tries again after a failed sendRaw
ConnectionLost_Retry ==
    /\ client.pc \in {"sent", "replied"}
    /\ client.tries > 1
    /\ lost < MaxLost
    /\ lost' = lost + 1
    /\ Attempt(client, client.op, client.addr, client.tries - 1)
    /\ UNCHANGED <<vars, alone, engine, proposed, outcome>>

\* connect, send or recv fails.  Without a crash of the node the request may have been
\* written, and may still be read
ConnectionLost ==
    /\ client.pc \in {"sent", "replied"}
    /\ lost < MaxLost
    /\ lost' = lost + 1
    /\ Return(client, "lost")
    /\ wire' \in {wire, {w \in wire : w.call # client.calls}}
    /\ UNCHANGED <<vars, alone, engine, proposed>>

\* The node of this attempt dies: the request is lost, or the reply may be
NodeDies(i) ==
    /\ IF alone THEN Crash(i) ELSE CrashStep(i)
    /\ Apply
    /\ wire' = {w \in wire : w.to # i}
    /\ \/ /\ client.addr = i /\ client.pc \in {"sent", "replied"}
          /\ Return(client, "lost")
       \/ /\ client.addr # i \/ client.pc # "sent"
          /\ UNCHANGED <<client, outcome>>
    /\ UNCHANGED <<alone, lost, proposed>>

RaftRuns == ~alone /\ RunStep /\ Apply /\ UNCHANGED <<alone, client, wire, lost, proposed, outcome>>

HandleRequest == \E w \in wire : HandleWrite(w) \/ HandleRead(w)

KvNext ==
    \/ RaftRuns
    \/ \E i \in Server : NodeDies(i)
    \/ HandleRequest
    \/ \E op \in Command \cup ReadOp : Call(op)
    \/ Receive
    \/ ConnectionLost

KvSpec == KvInit /\ [][KvNext]_allVars

\* The event loop of a node reads what clients send, and the client, which only waits
\* for its reply, reads it; the nodes keep handling each other's messages
KvFairness ==
    /\ WF_allVars(HandleRequest)
    /\ WF_allVars(Receive)
    /\ WF_allVars(RaftRuns /\ \E i, j \in Server :
                      \/ HandleRequestVote(i, j) \/ HandleAppendEntries(i, j)
                      \/ ProcessRequestVoteResponse(i, j) \/ ProcessAppendEntriesResponse(i, j))

KvLiveSpec == KvSpec /\ KvFairness

-----------------------------------------------------------------------------
(* Properties *)

\* Every variable has its type.
KvTypeOK ==
    /\ alone \in BOOLEAN
    /\ engine \in [Server -> [Key -> Data \cup {Absent}]]
    /\ client.pc \in {"idle", "sent", "replied"}
    /\ client.calls \in 0 .. MaxCalls /\ client.tries \in 0 .. MaxRetries
    /\ client.op \in Command \cup ReadOp \cup {NoOp}
    /\ client.direct \in Server /\ client.addr \in Server
    /\ \A w \in wire : w.call \in Calls /\ w.op \in Command \cup ReadOp /\ w.to \in Server
    /\ proposed \in [Calls -> Nat]
    /\ outcome \in [Calls -> {"none", "written", "read", "refused", "lost"}]

\* Whatever redirects, crashes and lost replies happen, one call of put or del puts at
\* most one entry into a log; a write that returns true has put one there, and a call
\* that a node refused none.  Only a lost connection leaves the caller in doubt.
WriteOutcome ==
    \A n \in Calls :
        /\ proposed[n] <= 1
        /\ outcome[n] = "refused" => proposed[n] = 0
        /\ outcome[n] = "written" => proposed[n] = 1

\* Every call returns, wherever the hints of the nodes send it.
CallReturns == \A n \in Calls : client.calls = n ~> outcome[n] # "none"

-----------------------------------------------------------------------------
(* What comments and the project guide say of this code, and the code does not do *)

\* The guide says the leader answers a client only after a majority has confirmed the
\* entry: when a node answers OK to a write, a majority has it in its log.
AckedOnMajority ==
    ~alone /\ client.pc = "replied" /\ client.op \in Command /\ client.reply.code = "OK" =>
        Cardinality({j \in Server : \E k \in DOMAIN log[j] : log[j][k].command = client.op})
            > Half

\* The guide says reads are served by the leader and that a follower redirects them:
\* while there is a leader, a node that is not it answers a read with NOT_LEADER.
FollowerReadsRedirected ==
    [][~alone /\ client.pc = "sent" /\ client'.pc = "replied" /\ client.op \in ReadOp
           /\ state[client.addr] # "LEADER" 
           /\ (\E j \in Server : state[j] = "LEADER")
       => client'.reply.code = "NOT_LEADER"]_allVars

\* kv_client.h says put, get, del and scan all follow NOT_LEADER: a call whose attempts
\* are not used up does not end with that answer.
EveryCallFollows ==
    [][client.pc = "replied" /\ client.reply.code = "NOT_LEADER" /\ client.tries > 1
           /\ client'.pc = "idle"
       => outcome'[client.calls] = "lost"]_allVars
=============================================================================
