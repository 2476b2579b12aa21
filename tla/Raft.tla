-------------------------------- MODULE Raft --------------------------------
(***************************************************************************)
(* The replication core of the distributed key-value store: RaftNode (the  *)
(* protocol state machine of one data node) together with RaftService (its *)
(* connections to the other nodes and its persistent state in RocksDB).    *)
(*                                                                         *)
(* A data node is one process with one muduo EventLoop.  The 10 ms tick,   *)
(* client requests, Raft requests of the peers and the replies of the      *)
(* peers are callbacks of that loop, so every handler below is atomic with *)
(* respect to the other handlers of its node.  A process crash can still   *)
(* fall between the separate RocksDB writes of one persistRaftState().     *)
(*                                                                         *)
(* Node i owns one TcpClient to each peer j.  Requests of i travel on it   *)
(* to j and the replies of j travel back on the same connection, both in   *)
(* order and at most once.  TcpClient::enableRetry is never called, so a   *)
(* connection that closes stays closed until i restarts.                   *)
(***************************************************************************)
EXTENDS RaftLog

CONSTANTS
    Server,         \* nodeIds, all greater than 0
    Nil,            \* id 0: "nobody" in votedFor_ and leaderId_
    InitialConns,   \* <<i, j>>: i's client to j is connected at the start
    MaxTerm,        \* bound: no election starts a term above it
    MaxLog,         \* bound: longest log a leader extends by propose
    MaxQueue,       \* bound: messages in flight on a connection when an election
                    \* timeout or a client request sends more
    MaxHeartbeats,  \* bound: the same, when a leader's tick sends a heartbeat
    MaxCrashes,     \* bound: process crashes, over all nodes
    MaxBreaks       \* bound: connections lost without a crash

ASSUME ServerAssumption == IsFiniteSet(Server) /\ Server # {} /\ Nil \notin Server
ASSUME ConnsAssumption == InitialConns \subseteq Server \X Server
ASSUME BoundsAssumption ==
    /\ MaxTerm \in Nat /\ MaxLog \in Nat /\ MaxQueue \in Nat
    /\ MaxHeartbeats \in Nat /\ MaxCrashes \in Nat /\ MaxBreaks \in Nat

VARIABLES
    \* RaftNode, persistent
    currentTerm, votedFor, log,
    \* RaftNode, volatile.  applied[i] is the sequence of entries handed to
    \* applyCb_ since the process started: its length is lastApplied_
    state, commitIndex, applied, leaderId, votesReceived, nextIndex, matchIndex,
    \* RocksDB: the raft_term and raft_vote keys and the \xff log keys
    disk,
    \* TCP: status of i's client to j, requests and replies on it, and requests
    \* of lost connections that their receiver may still read
    conn, req, resp, orphans,
    \* bounds
    crashes, breaks,
    \* history: votes granted <<voter, term, candidate>>, the voters behind the
    \* counter votesReceived_, and elections won <<term, node>>
    votes, voters, elected

boundVars == <<crashes, breaks>>
vars == <<currentTerm, votedFor, log, state, commitIndex, applied, leaderId,
          votesReceived, nextIndex, matchIndex, disk, conn, req, resp, orphans,
          crashes, breaks, votes, voters, elected>>

States == {"FOLLOWER", "CANDIDATE", "LEADER"}

RequestVoteMsg == [type : {"REQUEST_VOTE"}, term : Nat, candidate : Server,
                   lastLogIndex : Nat, lastLogTerm : Nat]
AppendEntriesMsg == [type : {"APPEND_ENTRIES"}, term : Nat, leader : Server,
                     prevLogIndex : Nat, prevLogTerm : Nat,
                     entries : Seq(Entry), leaderCommit : Nat]
RequestVoteResp == [type : {"REQUEST_VOTE_RESP"}, term : Nat, granted : BOOLEAN]
AppendEntriesResp == [type : {"APPEND_ENTRIES_RESP"}, term : Nat,
                      success : BOOLEAN, matchIndex : Nat]
Request == RequestVoteMsg \cup AppendEntriesMsg
Reply   == RequestVoteResp \cup AppendEntriesResp

-----------------------------------------------------------------------------
(* Helpers *)

Peers(i) == Server \ {i}

\* Mutant: half of the nodes are enough
Half_Enough == Cardinality(Server) \div 2 - 1

\* peerIds_.size() + 1, halved the way the code halves it
Half == Cardinality(Server) \div 2

\* Messages in flight on i's connection to j
InFlight(i, j) == Len(req[i][j]) + Len(resp[i][j])

\* Bound on timers and clients: they add requests only while fewer than bound
\* messages are in flight on every connection they would be sent on.  Requests
\* sent in answer to a reply are never held back
Room(i, bound) == \A j \in Peers(i) : conn[i][j] = "connected" => InFlight(i, j) < bound

\* sendRaftRpc to every peer: dropped unless the client is connected
Broadcast(i, msg) ==
    req' = [req EXCEPT ![i] = [j \in Server |->
               IF j # i /\ conn[i][j] = "connected"
               THEN Append(req[i][j], msg[j]) ELSE req[i][j]]]

\* Mutant: the raft_vote key is not written
Persisted_NoVote(d, t, v, lg) == [term |-> t, vote |-> d.vote, log |-> BatchWrite(d.log, lg)]

\* persistRaftState, run to its end
Persisted(d, t, v, lg) == [term |-> t, vote |-> v, log |-> BatchWrite(d.log, lg)]

IsDisk(d) == /\ d.term \in Nat
             /\ d.vote \in Server \cup {Nil}
             /\ IsDiskLog(d.log)

\* ... and stopped by a crash after its first or second engine_->put
TornPersist(d, t, v) == {[term |-> t, vote |-> d.vote, log |-> d.log],
                         [term |-> t, vote |-> v, log |-> d.log]}

\* One message of sendAppendEntries; ni is the leader's nextIndex_ map
AppendEntriesTo(i, lg, ni, j, heartbeatOnly) ==
    [type         |-> "APPEND_ENTRIES",
     term         |-> currentTerm[i],
     leader       |-> i,
     prevLogIndex |-> ni[j] - 1,
     prevLogTerm  |-> TermAt(lg, ni[j] - 1),
     entries      |-> IF heartbeatOnly THEN <<>> ELSE EntriesFrom(lg, ni[j]),
     leaderCommit |-> commitIndex[i]]

SendAppendEntries(i, lg, ni, heartbeatOnly) ==
    Broadcast(i, [j \in Server |-> AppendEntriesTo(i, lg, ni, j, heartbeatOnly)])

-----------------------------------------------------------------------------
(* start(): an empty database, every node a follower of term 0 *)

Init ==
    /\ currentTerm = [i \in Server |-> 0]
    /\ votedFor = [i \in Server |-> Nil]
    /\ log = [i \in Server |-> <<>>]
    /\ state = [i \in Server |-> "FOLLOWER"]
    /\ commitIndex = [i \in Server |-> 0]
    /\ applied = [i \in Server |-> <<>>]
    /\ leaderId = [i \in Server |-> Nil]
    /\ votesReceived = [i \in Server |-> 0]
    /\ nextIndex = [i \in Server |-> [j \in Server |-> 0]]
    /\ matchIndex = [i \in Server |-> [j \in Server |-> 0]]
    /\ disk = [i \in Server |-> [term |-> 0, vote |-> Nil, log |-> EmptyDisk]]
    /\ conn = [i \in Server |-> [j \in Server |->
                  IF <<i, j>> \in InitialConns THEN "connected" ELSE "connecting"]]
    /\ req = [i \in Server |-> [j \in Server |-> <<>>]]
    /\ resp = [i \in Server |-> [j \in Server |-> <<>>]]
    /\ orphans = {}
    /\ crashes = 0 /\ breaks = 0
    /\ votes = {} /\ elected = {}
    /\ voters = [i \in Server |-> {}]

-----------------------------------------------------------------------------
(* tick *)

\* tick of a follower or candidate whose election timeout has passed:
\* becomeCandidate and startElection
Timeout(i) ==
    /\ state[i] \in {"FOLLOWER", "CANDIDATE"}
    /\ currentTerm[i] < MaxTerm
    /\ Room(i, MaxQueue)
    /\ LET t == currentTerm[i] + 1 IN
       /\ state' = [state EXCEPT ![i] = "CANDIDATE"]
       /\ currentTerm' = [currentTerm EXCEPT ![i] = t]
       /\ votedFor' = [votedFor EXCEPT ![i] = i]
       /\ leaderId' = [leaderId EXCEPT ![i] = Nil]
       /\ votesReceived' = [votesReceived EXCEPT ![i] = 1]
       /\ disk' = [disk EXCEPT ![i] = Persisted(@, t, i, log[i])]
       /\ Broadcast(i, [j \in Server |->
             [type |-> "REQUEST_VOTE", term |-> t, candidate |-> i,
              lastLogIndex |-> LastIndex(log[i]), lastLogTerm |-> LastTerm(log[i])]])
       /\ votes' = votes \cup {<<i, t, i>>}
       /\ voters' = [voters EXCEPT ![i] = {i}]
    /\ UNCHANGED <<log, commitIndex, applied, nextIndex, matchIndex, conn, resp,
                   orphans, crashes, breaks, elected>>

\* Indices above commitIndex_ that advanceCommitIndex may commit
Committable(i) ==
    {n \in commitIndex[i] + 1 .. Len(log[i]) :
        /\ log[i][n].term = currentTerm[i]
        /\ Cardinality({j \in Peers(i) : matchIndex[i][j] >= n}) + 1 > Half}

\* advanceCommitIndex: the largest of them
AdvanceCommitIndex(i) ==
    IF Committable(i) = {} THEN commitIndex[i] ELSE Max(Committable(i))

\* tick of a leader: a heartbeat if 50 ms have passed, with the commit index it
\* had before, then advanceCommitIndex and applyEntries
LeaderTick(i, heartbeatDue) ==
    /\ state[i] = "LEADER"
    /\ \/ /\ heartbeatDue
          /\ Room(i, MaxHeartbeats)
          /\ SendAppendEntries(i, log[i], nextIndex[i], TRUE)
       \/ /\ ~heartbeatDue
          /\ UNCHANGED req
    /\ commitIndex' = [commitIndex EXCEPT ![i] = AdvanceCommitIndex(i)]
    /\ applied' = [applied EXCEPT ![i] = ApplyEntries(@, log[i], AdvanceCommitIndex(i))]
    /\ UNCHANGED <<currentTerm, votedFor, log, state, leaderId, votesReceived,
                   nextIndex, matchIndex, disk, conn, resp, orphans, crashes,
                   breaks, votes, voters, elected>>

-----------------------------------------------------------------------------
(* propose *)

Propose(i, v) ==
    /\ state[i] = "LEADER"
    /\ Len(log[i]) < MaxLog
    /\ Room(i, MaxQueue)
    /\ LET e  == NewEntry(log[i], currentTerm[i], v)
           lg == Append(log[i], e)
           ni == [nextIndex[i] EXCEPT ![i] = e.index + 1]
       IN  /\ log' = [log EXCEPT ![i] = lg]
           /\ matchIndex' = [matchIndex EXCEPT ![i][i] = e.index]
           /\ nextIndex' = [nextIndex EXCEPT ![i] = ni]
           /\ disk' = [disk EXCEPT ![i] = Persisted(@, currentTerm[i], votedFor[i], lg)]
           /\ SendAppendEntries(i, lg, ni, FALSE)
    /\ UNCHANGED <<currentTerm, votedFor, state, commitIndex, applied, leaderId,
                   votesReceived, conn, resp, orphans, crashes, breaks, votes,
                   voters, elected>>

-----------------------------------------------------------------------------
(* Requests: handleRequestVote and handleAppendEntries.  The ...Step operators *)
(* are the effect on node j, whichever connection the request came from.       *)

\* becomeFollower(t), called only for t > currentTerm_
StepsDown(j, t) == t > currentTerm[j]
TermAfter(j, t) == Max2(t, currentTerm[j])
VoteAfter(j, t) == IF StepsDown(j, t) THEN Nil ELSE votedFor[j]
\* Mutant: becomeFollower does not persist
DiskAfter_NotPersisted(j, t) == disk[j]
DiskAfter(j, t) == IF StepsDown(j, t) THEN Persisted(disk[j], t, Nil, log[j]) ELSE disk[j]
BecomeFollower(j, t) ==
    /\ currentTerm' = [currentTerm EXCEPT ![j] = TermAfter(j, t)]
    /\ state' = [state EXCEPT ![j] = IF StepsDown(j, t) THEN "FOLLOWER" ELSE @]

UpToDate(lg, m) ==
    \/ m.lastLogTerm > LastTerm(lg)
    \/ m.lastLogTerm = LastTerm(lg) /\ m.lastLogIndex >= LastIndex(lg)

\* Mutant: votedFor_ is not looked at
Grants_Again(j, m) == m.term >= currentTerm[j] /\ UpToDate(log[j], m)

Grants(j, m) ==
    /\ m.term >= currentTerm[j]
    /\ VoteAfter(j, m.term) \in {Nil, m.candidate}
    /\ UpToDate(log[j], m)

RequestVoteStep(j, m) ==
    /\ BecomeFollower(j, m.term)
    /\ IF Grants(j, m)
       THEN /\ votedFor' = [votedFor EXCEPT ![j] = m.candidate]
            /\ disk' = [disk EXCEPT ![j] =
                  Persisted(DiskAfter(j, m.term), m.term, m.candidate, log[j])]
            /\ votes' = votes \cup {<<j, m.term, m.candidate>>}
       ELSE /\ votedFor' = [votedFor EXCEPT ![j] = VoteAfter(j, m.term)]
            /\ disk' = [disk EXCEPT ![j] = DiskAfter(j, m.term)]
            /\ votes' = votes
    /\ UNCHANGED <<log, commitIndex, applied, leaderId, nextIndex, matchIndex,
                   votesReceived, voters, elected>>

RequestVoteReply(j, m) ==
    [type |-> "REQUEST_VOTE_RESP", term |-> TermAfter(j, m.term), granted |-> Grants(j, m)]

\* Mutant: the term at prev_log_index is not compared
Matches_IndexOnly(j, m) == m.prevLogIndex <= Len(log[j])

\* The log matching check of handleAppendEntries
Matches(j, m) ==
    /\ m.prevLogIndex <= Len(log[j])
    /\ m.prevLogIndex > 0 => TermAt(log[j], m.prevLogIndex) = m.prevLogTerm

\* Mutant: entries of an earlier term are accepted
Accepts_Stale(j, m) == Matches(j, m)

Accepts(j, m) == m.term >= currentTerm[j] /\ Matches(j, m)

\* min(leader_commit, getLastLogIndex()), only when leader_commit is news
CommitAfter(j, m, lg) ==
    IF m.leaderCommit > commitIndex[j] THEN Min2(m.leaderCommit, Len(lg))
                                       ELSE commitIndex[j]

\* Mutants: the hint is the node voted for; a leader of an earlier term is believed too
LeaderHint_VotedFor(j, m) == IF m.term >= currentTerm[j] THEN VoteAfter(j, m.term) ELSE leaderId[j]
LeaderHint_Stale(j, m) == m.leader

\* leaderId_, set before the log is looked at
LeaderHint(j, m) == IF m.term >= currentTerm[j] THEN m.leader ELSE leaderId[j]

AppendEntriesStep(j, m) ==
    /\ BecomeFollower(j, m.term)
    /\ votedFor' = [votedFor EXCEPT ![j] = VoteAfter(j, m.term)]
    /\ leaderId' = [leaderId EXCEPT ![j] = LeaderHint(j, m)]
    /\ IF Accepts(j, m)
       THEN LET lg == MergeEntries(log[j], m.prevLogIndex, m.entries)
                ci == CommitAfter(j, m, lg)
            IN  /\ log' = [log EXCEPT ![j] = lg]
                /\ commitIndex' = [commitIndex EXCEPT ![j] = ci]
                /\ disk' = [disk EXCEPT ![j] =
                      Persisted(DiskAfter(j, m.term), m.term, VoteAfter(j, m.term), lg)]
                /\ applied' = [applied EXCEPT ![j] = ApplyEntries(@, lg, ci)]
       ELSE /\ disk' = [disk EXCEPT ![j] = DiskAfter(j, m.term)]
            /\ UNCHANGED <<log, commitIndex, applied>>
    /\ UNCHANGED <<nextIndex, matchIndex, votesReceived, votes, voters, elected>>

\* Mutant: one answer for every refusal
MatchIndexReply_Stale(j, m) ==
    IF Accepts(j, m) THEN Len(MergeEntries(log[j], m.prevLogIndex, m.entries))
                     ELSE Min2(Len(log[j]), m.prevLogIndex - 1)

\* A success reply carries the last index of the follower's whole log
MatchIndexReply(j, m) ==
    CASE m.term < currentTerm[j]         -> 0
      [] Accepts(j, m)                   -> Len(MergeEntries(log[j], m.prevLogIndex, m.entries))
      [] m.prevLogIndex > Len(log[j])    -> Len(log[j])
      [] OTHER                           -> m.prevLogIndex - 1

AppendEntriesReply(j, m) ==
    [type |-> "APPEND_ENTRIES_RESP", term |-> TermAfter(j, m.term),
     success |-> Accepts(j, m), matchIndex |-> MatchIndexReply(j, m)]

\* j answers on the connection the request came from
ReplyOn(i, j, r) ==
    /\ req' = [req EXCEPT ![i][j] = Tail(@)]
    /\ resp' = [resp EXCEPT ![i][j] = Append(@, r)]
    /\ UNCHANGED <<conn, orphans>>

HandleRequestVote(i, j) ==
    /\ req[i][j] # <<>>
    /\ LET m == Head(req[i][j]) IN
       /\ m.type = "REQUEST_VOTE"
       /\ RequestVoteStep(j, m)
       /\ ReplyOn(i, j, RequestVoteReply(j, m))
    /\ UNCHANGED boundVars

HandleAppendEntries(i, j) ==
    /\ req[i][j] # <<>>
    /\ LET m == Head(req[i][j]) IN
       /\ m.type = "APPEND_ENTRIES"
       /\ AppendEntriesStep(j, m)
       /\ ReplyOn(i, j, AppendEntriesReply(j, m))
    /\ UNCHANGED boundVars

\* A request read from a connection that is gone: handled alike, and the reply
\* is sent to nobody
HandleOrphan(o) ==
    /\ \/ o.msg.type = "REQUEST_VOTE" /\ RequestVoteStep(o.to, o.msg)
       \/ o.msg.type = "APPEND_ENTRIES" /\ AppendEntriesStep(o.to, o.msg)
    /\ orphans' = orphans \ {o}
    /\ UNCHANGED <<conn, req, resp, crashes, breaks>>

-----------------------------------------------------------------------------
(* Replies: processRequestVoteResponse and processAppendEntriesResponse *)

ConsumeReply(i, j) == resp' = [resp EXCEPT ![i][j] = Tail(@)]

\* becomeLeader
BecomeLeader(i) ==
    LET ni == [j \in Server |-> LastIndex(log[i]) + 1] IN
    /\ state' = [state EXCEPT ![i] = "LEADER"]
    /\ leaderId' = [leaderId EXCEPT ![i] = i]
    /\ nextIndex' = [nextIndex EXCEPT ![i] = ni]
    /\ matchIndex' = [matchIndex EXCEPT ![i] =
          [j \in Server |-> IF j = i THEN LastIndex(log[i]) ELSE 0]]
    /\ SendAppendEntries(i, log[i], ni, TRUE)
    /\ elected' = elected \cup {<<currentTerm[i], i>>}

\* Mutant: the term of the reply is not compared
CountsVote_AnyTerm(i, m) == state[i] = "CANDIDATE"

\* The reply counts: it is of this election
CountsVote(i, m) == m.term = currentTerm[i] /\ state[i] = "CANDIDATE"
VotesAfter(i, m) == votesReceived[i] + (IF m.granted THEN 1 ELSE 0)

ProcessRequestVoteResponse(i, j) ==
    /\ resp[i][j] # <<>>
    /\ LET m == Head(resp[i][j]) IN
       /\ m.type = "REQUEST_VOTE_RESP"
       /\ \/ /\ StepsDown(i, m.term)
             /\ BecomeFollower(i, m.term)
             /\ votedFor' = [votedFor EXCEPT ![i] = Nil]
             /\ disk' = [disk EXCEPT ![i] = DiskAfter(i, m.term)]
             /\ UNCHANGED <<leaderId, votesReceived, nextIndex, matchIndex, req,
                            voters, elected>>
          \/ /\ CountsVote(i, m)
             /\ votesReceived' = [votesReceived EXCEPT ![i] = VotesAfter(i, m)]
             /\ voters' = [voters EXCEPT ![i] = IF m.granted THEN @ \cup {j} ELSE @]
             /\ \/ /\ VotesAfter(i, m) >= Half + 1
                   /\ BecomeLeader(i)
                \/ /\ VotesAfter(i, m) < Half + 1
                   /\ UNCHANGED <<state, leaderId, nextIndex, matchIndex, req, elected>>
             /\ UNCHANGED <<currentTerm, votedFor, disk>>
          \/ /\ ~StepsDown(i, m.term) /\ ~CountsVote(i, m)
             /\ UNCHANGED <<currentTerm, votedFor, state, disk, leaderId,
                            votesReceived, nextIndex, matchIndex, req, voters, elected>>
    /\ ConsumeReply(i, j)
    /\ UNCHANGED <<log, commitIndex, applied, conn, orphans, crashes, breaks, votes>>

\* Mutants: back up below the first entry; try the same entry again
BackUp_Below(n) == n - 1
BackUp_Never(n) == n

\* After a rejection the next attempt starts one entry earlier, but not before the first
BackUp(n) == IF n > 1 THEN n - 1 ELSE n

ProcessAppendEntriesResponse(i, j) ==
    /\ resp[i][j] # <<>>
    /\ LET m == Head(resp[i][j]) IN
       /\ m.type = "APPEND_ENTRIES_RESP"
       /\ \/ /\ state[i] = "LEADER" /\ m.term = currentTerm[i] /\ m.success
             /\ IF m.matchIndex > matchIndex[i][j]
                THEN /\ matchIndex' = [matchIndex EXCEPT ![i][j] = m.matchIndex]
                     /\ nextIndex' = [nextIndex EXCEPT ![i][j] = m.matchIndex + 1]
                ELSE UNCHANGED <<nextIndex, matchIndex>>
             /\ UNCHANGED req
          \/ /\ state[i] = "LEADER" /\ m.term = currentTerm[i] /\ ~m.success
             /\ LET ni == [nextIndex[i] EXCEPT ![j] = BackUp(@)] IN
                /\ nextIndex' = [nextIndex EXCEPT ![i] = ni]
                /\ SendAppendEntries(i, log[i], ni, FALSE)
             /\ UNCHANGED matchIndex
          \/ /\ state[i] # "LEADER" \/ m.term # currentTerm[i]
             /\ UNCHANGED <<nextIndex, matchIndex, req>>
    /\ ConsumeReply(i, j)
    /\ UNCHANGED <<currentTerm, votedFor, log, state, commitIndex, applied, leaderId,
                   votesReceived, disk, conn, orphans, crashes, breaks, votes,
                   voters, elected>>

-----------------------------------------------------------------------------
(* Connections and processes *)

\* onConnection of i's client to j
Connect(i, j) ==
    /\ i # j
    /\ conn[i][j] = "connecting"
    /\ conn' = [conn EXCEPT ![i][j] = "connected"]
    /\ UNCHANGED <<currentTerm, votedFor, log, state, commitIndex, applied, leaderId,
                   votesReceived, nextIndex, matchIndex, disk, req, resp, orphans,
                   crashes, breaks, votes, voters, elected>>

Orphaned(i, j) == {[to |-> j, msg |-> req[i][j][k]] : k \in DOMAIN req[i][j]}

\* The network closes i's connection to j.  i may still read the replies it has
\* received, and j the requests
Break(i, j) ==
    /\ breaks < MaxBreaks
    /\ conn[i][j] = "connected"
    /\ breaks' = breaks + 1
    /\ conn' = [conn EXCEPT ![i][j] = "closed"]
    /\ req' = [req EXCEPT ![i][j] = <<>>]
    /\ orphans' = orphans \cup Orphaned(i, j)
    /\ UNCHANGED <<currentTerm, votedFor, log, state, commitIndex, applied, leaderId,
                   votesReceived, nextIndex, matchIndex, disk, resp, crashes, votes,
                   voters, elected>>

\* The process of i dies with d on its disk and starts again: recoverRaftState and
\* connectToPeer.  What i had not read is lost, the clients of its peers close,
\* and peers may still read what i sent
Restart(i, d) ==
    /\ crashes < MaxCrashes
    /\ crashes' = crashes + 1
    /\ disk' = [disk EXCEPT ![i] = d]
    /\ currentTerm' = [currentTerm EXCEPT ![i] = d.term]
    /\ votedFor' = [votedFor EXCEPT ![i] = d.vote]
    /\ \E lg \in Recovered(d.log) : log' = [log EXCEPT ![i] = lg]
    /\ state' = [state EXCEPT ![i] = "FOLLOWER"]
    /\ commitIndex' = [commitIndex EXCEPT ![i] = 0]
    /\ applied' = [applied EXCEPT ![i] = <<>>]
    /\ leaderId' = [leaderId EXCEPT ![i] = Nil]
    /\ votesReceived' = [votesReceived EXCEPT ![i] = 0]
    /\ nextIndex' = [nextIndex EXCEPT ![i] = [j \in Server |-> 0]]
    /\ matchIndex' = [matchIndex EXCEPT ![i] = [j \in Server |-> 0]]
    /\ voters' = [voters EXCEPT ![i] = {}]
    /\ conn' = [k \in Server |-> [j \in Server |->
           IF k = i THEN "connecting"
           ELSE IF j = i /\ conn[k][j] = "connected" THEN "closed" ELSE conn[k][j]]]
    /\ req' = [k \in Server |-> [j \in Server |->
           IF i \in {k, j} THEN <<>> ELSE req[k][j]]]
    /\ resp' = [resp EXCEPT ![i] = [j \in Server |-> <<>>]]
    /\ orphans' = {o \in orphans \cup UNION {Orphaned(i, j) : j \in Server} : o.to # i}
    /\ UNCHANGED <<breaks, votes, elected>>

\* A crash between two handlers
Crash(i) == Restart(i, disk[i])

\* Disk states in the middle of a handler that adopts the term of message m
TornStepDown(i, m) ==
    IF StepsDown(i, m.term)
    THEN TornPersist(disk[i], m.term, Nil) \cup {DiskAfter(i, m.term)} ELSE {}

\* ... and of one that grants a vote, after the second put of the last persist
TornGrant(i, m) ==
    IF m.type = "REQUEST_VOTE" /\ Grants(i, m)
    THEN {[term |-> m.term, vote |-> m.candidate, log |-> DiskAfter(i, m.term).log]} ELSE {}

\* The messages i may be handling
Deliverable(i) ==
    {o.msg : o \in {x \in orphans : x.to = i}}
    \cup {Head(req[k][i]) : k \in {x \in Peers(i) : req[x][i] # <<>>}}

\* A crash inside Timeout, a handler or processRequestVoteResponse
CrashInTimeout(i) ==
    /\ state[i] \in {"FOLLOWER", "CANDIDATE"}
    /\ currentTerm[i] < MaxTerm
    /\ \E d \in TornPersist(disk[i], currentTerm[i] + 1, i) : Restart(i, d)

CrashInHandler(i) ==
    \E m \in Deliverable(i) : \E d \in TornStepDown(i, m) \cup TornGrant(i, m) : Restart(i, d)

CrashInResponse(i, j) ==
    /\ resp[i][j] # <<>>
    /\ Head(resp[i][j]).type = "REQUEST_VOTE_RESP"
    /\ \E d \in TornStepDown(i, Head(resp[i][j])) : Restart(i, d)

-----------------------------------------------------------------------------

NodeStep(i) ==
    \/ Timeout(i)
    \/ \E due \in BOOLEAN : LeaderTick(i, due)

ConnStep(i, j) ==
    \/ HandleRequestVote(i, j)
    \/ HandleAppendEntries(i, j)
    \/ ProcessRequestVoteResponse(i, j)
    \/ ProcessAppendEntriesResponse(i, j)
    \/ Connect(i, j)
    \/ Break(i, j)

CrashStep(i) ==
    \/ Crash(i)
    \/ CrashInTimeout(i)
    \/ CrashInHandler(i)
    \/ \E j \in Server : CrashInResponse(i, j)

\* What running nodes do by themselves ...
RunStep ==
    \/ \E i \in Server : NodeStep(i)
    \/ \E i, j \in Server : ConnStep(i, j)
    \/ \E o \in orphans : HandleOrphan(o)

\* ... with crashes and with the requests of clients
Next ==
    \/ RunStep
    \/ \E i \in Server : CrashStep(i)
    \/ \E i \in Server, v \in Value : Propose(i, v)

Spec == Init /\ [][Next]_vars

\* What the event loops guarantee while no node crashes and no connection is lost:
\* readable connections are read, pending connects finish, the timer of a leader
\* keeps firing.  Nothing is assumed of elections or clients
Fairness ==
    /\ \A i, j \in Server : WF_vars(HandleRequestVote(i, j) \/ HandleAppendEntries(i, j))
    /\ \A i, j \in Server : WF_vars(\/ ProcessRequestVoteResponse(i, j)
                                    \/ ProcessAppendEntriesResponse(i, j))
    /\ \A i, j \in Server : WF_vars(Connect(i, j))
    /\ \A i \in Server : WF_vars(LeaderTick(i, TRUE))

LiveSpec == Spec /\ Fairness

-----------------------------------------------------------------------------
(* Properties *)

\* Every variable has its type: in particular every index the handlers compute
\* stays a natural number, as the uint64 fields of the code require.
TypeOK ==
    /\ currentTerm \in [Server -> Nat]
    /\ votedFor \in [Server -> Server \cup {Nil}]
    /\ log \in [Server -> Seq(Entry)]
    /\ state \in [Server -> States]
    /\ commitIndex \in [Server -> Nat]
    /\ applied \in [Server -> Seq(Entry \cup {NoEntry})]
    /\ leaderId \in [Server -> Server \cup {Nil}]
    /\ votesReceived \in [Server -> Nat]
    /\ nextIndex \in [Server -> [Server -> Nat]]
    /\ matchIndex \in [Server -> [Server -> Nat]]
    /\ DOMAIN disk = Server /\ \A i \in Server : IsDisk(disk[i])
    /\ conn \in [Server -> [Server -> {"connecting", "connected", "closed"}]]
    /\ req \in [Server -> [Server -> Seq(Request)]]
    /\ resp \in [Server -> [Server -> Seq(Reply)]]
    /\ orphans \subseteq [to : Server, msg : Request]
    /\ crashes \in Nat /\ breaks \in Nat
    /\ votes \subseteq Server \X Nat \X Server
    /\ voters \in [Server -> SUBSET Server]
    /\ elected \subseteq Nat \X Server

\* Raft election safety: becomeLeader never runs in two nodes for one term, even
\* when nodes crash between the writes of persistRaftState, and although
\* votesReceived_ is a bare counter.
ElectionSafety == \A a, b \in elected : a[1] = b[1] => a[2] = b[2]

\* The elections of Raft are those of module Election: what counts as the ballot of a node
\* is on its disk, whatever its memory and the messages in flight say.
Ballots == INSTANCE Election WITH
    ballot  <- [i \in Server |-> [term |-> disk[i].term, vote |-> disk[i].vote]],
    granted <- votes

\* Every step of every handler, also one cut short by a crash between two writes of
\* persistRaftState, is a step of Election: a ballot on disk only moves forward, a vote
\* is confirmed only when the ballot holds it, and becomeLeader runs only for a node a
\* majority has confirmed.
ImplementsElection == Ballots!Spec

\* A vote handleRequestVote or becomeCandidate has given is on disk before anyone
\* can hear of it, and stays there until the disk holds a later term.
VotesDurable ==
    \A b \in votes : LET d == disk[b[1]] IN
        d.term > b[2] \/ (d.term = b[2] /\ d.vote = b[3])

\* votesReceived_ of a candidate, and of the leader it becomes, is the number of
\* different nodes that voted for it in this term: no reply is counted twice or
\* carried over from another term.
VotesCountedOnce ==
    \A i \in Server : state[i] # "FOLLOWER" =>
        /\ votesReceived[i] = Cardinality(voters[i])
        /\ \A j \in voters[i] : <<j, currentTerm[i], i>> \in votes

\* applyEntries never reads past the end of log_ although a truncation in
\* handleAppendEntries may leave commitIndex_ beyond it.
AppliedEntriesExist ==
    \A i \in Server : \A k \in DOMAIN applied[i] : applied[i][k] # NoEntry

\* nextIndex_ of a leader stays above 0 however many rejections arrive, so that
\* nextIdx - 1 in sendAppendEntries does not wrap around.
NextIndexPositive ==
    \A i, j \in Server : state[i] = "LEADER" => nextIndex[i][j] >= 1

\* A node redirects clients only to a node that has won an election of a term
\* this node has reached.
LeaderHintElected ==
    \A i \in Server : leaderId[i] # Nil =>
        \E t \in 1 .. currentTerm[i] : <<t, leaderId[i]>> \in elected

\* The hints of the nodes never lead a client around in a circle: following them one
\* after the other ends at a node that names itself or nobody.
HintsEnd ==
    ~ \E C \in SUBSET Server : C # {} /\ \A i \in C : leaderId[i] \in C \ {i}

\* Raft log matching: two logs that agree on the term at an index agree on
\* everything up to it.
LogMatching ==
    \A i, j \in Server : \A k \in DOMAIN log[i] \cap DOMAIN log[j] :
        log[i][k].term = log[j][k].term => SubSeq(log[i], 1, k) = SubSeq(log[j], 1, k)

\* A node that stays leader never loses or changes an entry of its log: an
\* AppendEntries of its own term cannot reach it.
LeaderAppendOnly ==
    [][\A i \in Server : state[i] = "LEADER" /\ state'[i] = "LEADER" =>
          SubSeq(log'[i], 1, Len(log[i])) = log[i]]_vars

\* currentTerm_ never goes back, not even through a crash in the middle of a
\* persist and the recovery that follows.
TermMonotonic == [][\A i \in Server : currentTerm'[i] >= currentTerm[i]]_vars

\* The last leader the bounds allow: nobody can depose it
LastLeader(i) == state[i] = "LEADER" /\ currentTerm[i] = MaxTerm

\* The first n entries of the log of i are in the log of j, or the connection is lost
\* (none is opened a second time)
Reaches(i, j, n) ==
    \/ conn[i][j] = "closed"
    \/ n <= Len(log[i]) /\ \A k \in 1 .. n : EntryAt(log[j], k) = log[i][k]

\* Entry n is of an earlier term, or still to be proposed
Due(i, n) == n \in DOMAIN log[i] => log[i][n].term < MaxTerm

\* Once its connection to a node is up, a leader nobody deposes brings it the entries of
\* earlier terms, and every entry proposed from then on with all that stands before it,
\* however far the rejections of processAppendEntriesResponse must back up.  An entry
\* proposed while a connection was still being opened (sendAppendEntries drops the
\* message, and heartbeats are empty) arrives there only if another one is proposed.
LeaderLogReplicated ==
    \A i \in Server : \A j \in Server \ {i} : \A n \in 1 .. MaxLog :
        [](LastLeader(i) /\ conn[i][j] = "connected" /\ Due(i, n) /\ <>(Len(log[i]) >= n)
              => <>Reaches(i, j, n))

-----------------------------------------------------------------------------
(* What comments and the project guide say of this code, and the code does not do *)

HoldsEntry(j, k, e) == k <= Len(log[j]) /\ log[j][k].term = e.term

\* raft_node.h calls commitIndex_ the largest index a majority has confirmed: what
\* a leader has committed is in the logs of a majority.
CommittedOnMajority ==
    \A i \in Server : state[i] = "LEADER" =>
        \A k \in 1 .. Min2(commitIndex[i], Len(log[i])) :
            Cardinality({j \in Server : HoldsEntry(j, k, log[i][k])}) > Half

\* The guide says a committed entry is never overwritten: no step of a node changes
\* an entry at or below its own commitIndex_.
CommittedNeverOverwritten ==
    [][\A i \in Server : \A k \in 1 .. Min2(commitIndex[i], Len(log[i])) :
          k <= Len(log'[i]) /\ log'[i][k] = log[i][k]]_vars

\* raft_node.h lists log_ as state that must be recovered after a crash: between two
\* handlers, what recoverRaftState would read from the disk is the log of the node.
DiskHoldsLog == \A i \in Server : log[i] \in Recovered(disk[i].log)

\* The guide says the logs of all nodes must become equal in the end: the whole log of a
\* leader nobody deposes reaches every node whose connection is not lost.
LogsBecomeEqual ==
    \A i, j \in Server : LastLeader(i) ~> Reaches(i, j, Len(log[i]))

\* The guide says a node that sees a higher term in any message steps down: after
\* reading a reply of a higher term a node is a follower of that term.
HigherTermStepsDown ==
    [][\A i, j \in Server :
          resp[i][j] # <<>> /\ resp'[i][j] = Tail(resp[i][j])
              /\ Head(resp[i][j]).term > currentTerm[i] /\ crashes' = crashes
          => state'[i] = "FOLLOWER" /\ currentTerm'[i] >= Head(resp[i][j]).term]_vars
=============================================================================
