# A TLA+ verification of the distributed key-value store and the chat system

This directory holds TLA+ modules for the two systems of the repository, TLC configurations
that check them on small instances, and TLAPS proofs of the properties that matter most for
every size of the instance. Paths below are relative to the root of the repository's copy,
`src/`; in `PROJECT.json` every definition that models code is mapped to the lines it models.

## 1. The systems and their parts

### The distributed key-value store (`分布式存储/`)

A cluster of data nodes replicates a log with Raft and applies it to RocksDB; clients reach it
with a small library; a placement driver (PD) keeps nodes and shards.

| Part | Source | State | Operations |
|---|---|---|---|
| RaftNode | `data_node/raft_node.*` | term, vote, log, role, commit and apply index, `nextIndex_`, `matchIndex_`, leader hint | `tick`, `propose`, two request handlers, two reply handlers |
| RaftService | `data_node/raft_service.*` | one TcpClient per peer, Raft keys in RocksDB | send, dispatch, `persistRaftState`, `recoverRaftState`, `onApply` |
| RocksEngine | `data_node/rocks_engine.*` | a map of keys | `put`, `get`, `del`, `scan`, `writeBatch` |
| KvService, DataServer | `data_node/kv_service.*`, `data_server.*` | none of their own | GET, PUT, DELETE, SCAN, dispatch |
| KvClient, Router | `client_sdk/` | the address it talks to, the shard map | `put`, `get`, `del`, `scan`, redirects, `connectToPd` |
| Placement driver | `pd_server/` | nodes with their last heartbeat, shards with leader and replicas | register, heartbeat, shard map, tick |
| Common | `common/` | – | frame codec, config file, a routing table used by a unit test |

How they interact: a data node is one process with one event loop, so handlers of a node
exclude each other; nodes talk over TCP (ordered, at most once, and never reconnected, since
`enableRetry` is not called); a persist is three separate writes to RocksDB between which the
process may die. Clients connect anew for every attempt and block on the reply.

Hard behaviours: a crash between two writes; replies of an earlier term; stale AppendEntries;
a commit index beyond the log; connections that come up late or are lost; a client whose
reply is lost; hints about the leader that are out of date.

### The chat system (`chat/`, and an older connection pool in `mysql连接池/`)

| Part | Source | State | Operations |
|---|---|---|---|
| ThreadPool | `chat/include/threadpool.h` | task queue, threads, counters | `submitTask`, `threadfunc`, destructor |
| ConnectPool | `chat/src/server/ConnectPool.cpp`, older copy in `mysql连接池/` | queue of connections, two counters | `getconn`, its deleter, producer, reaper |
| ChatService | `chat/src/server/chatservice.cpp` | `_userIdConn` under `_connMutex` | registration, login, messages, acknowledgement, friends, closed connections |
| UserModel | `chat/src/server/usermodel.cpp` | tables user, message, friend | one SQL statement per method |
| RedisClient | `chat/src/server/redis.cpp` | command queue, subscription connection | `publish`, `subscribe`, `unsubscribe`, `subLoop` |
| ChatServer, Main | `chat/src/server/chatserver.cpp`, `Main.cpp` | – | callbacks, SIGINT |
| MysqlDB | `chat/src/server/MysqlDB.cpp` | one connection | `execute`, `query` |
| chat_client | `chat/src/client/chat_client.cpp` | login state, a response flag, a receive buffer; two threads | menus, `waitForResponse`, `recvThread`, `extractJsonObjects` |

How they interact: I/O threads hand client messages to the thread pool; its threads run the
handlers of ChatService, which take a database connection per statement; a closed connection
is handled in its I/O thread; messages for users of another server go through Redis, whose
subscription thread calls back into ChatService. A client writes JSON objects to a stream and a
server takes each read for one object; towards the client the objects are found by matching braces.

Hard behaviours: check-then-act across two statements; a login whose connection closes
meanwhile; `clientColse` waiting for the subscription thread while that thread waits for the
mutex `clientColse` holds; notifications that reach nobody; counters changed by three kinds
of threads; threads that retire while tasks arrive; requests of one client run in any order or refused by
a full pool; streams cut anywhere; a server that ends with or without SIGINT; responses that come after the
client has stopped waiting; two statements without a transaction.

What makes each part correct is listed with the runs in section 3; `PROJECT.json` lists
every hazard at its line.

## 2. Modules

| Module | Models | Composes |
|---|---|---|
| `RaftLog` | operators on logs and on their copy on disk | |
| `Raft` | RaftNode with RaftService: nodes, connections, crashes | `RaftLog` |
| `Election` | abstract: ballots that only move forward, votes, leaders with a majority | implemented by `Raft` |
| `KvStore` | KvService, DataServer, `onApply`, RocksEngine, KvClient | `Raft` (its actions are conjoined with applying) |
| `ShardManager` | the placement driver and the client's shard map | |
| `Framing` | how messages are found in a stream: the store's frames, `LengthPrefixedCodec`, `extractJsonObjects`, `ChatServer::onMessage` | |
| `ConnectPool` | both copies of the pool (`Standalone` selects) | |
| `BoundedPool` | abstract: a pool that grows when nothing is free and shrinks above its initial size | implemented by `ConnectPool` |
| `ThreadPool` | the thread pool in both modes | |
| `TaskQueue` | abstract: tasks are accepted up to a capacity, or refused, and begun once, in order | implemented by `ThreadPool` |
| `ChatService` | sessions and messages: ChatService, UserModel, RedisClient, several servers and their end | |
| `Mailbox` | abstract: messages are stored once, go to connections of their recipient, and become read after that | implemented by `ChatService` and `ChatClient` |
| `ChatClient` | chat_client with both threads, the streams, the pool's queue | `ChatService` (its actions are conjoined with replies) |
| `Friends` | the friend menus, handlers and table | |
| `RaftProof`, `KvStoreProof`, `ShardManagerProof`, `FramingProof`, `ConnectPoolProof`, `ThreadPoolProof`, `ChatProof`, `FriendsProof` | proofs | `KvStoreProof` uses `RaftProof`; `ChatProof` is about `ChatService` and `ChatClient` |
| `MC*` | constants for TLC | |

**Raft.** The variables carry the names of the members. `req[i][j]` and `resp[i][j]` are the two
directions of node i's connection to j. `applied[i]` is the sequence of entries handed to
`applyCb_`; its length is `lastApplied_`. `disk[i]` holds what the three kinds of RocksDB keys hold.
Timers are nondeterministic. `BatchWrite` is what `writeBatch` does with the puts and deletes of
`persistRaftState`: the deletes come last in the batch and win. `Recovered` is what the scan at a
restart rebuilds. `TornPersist` are the disks a crash inside a persist leaves. `Break` closes a
connection for good, and its receiver may still read what was sent (`orphans`). `votes`, `voters` and `elected`
are history. Only crashes of processes are modelled: the write-ahead log is not synced, but
the operating system keeps what a dead process wrote.

**KvStore.** `client` is a blocking process: `Call`, then for every attempt a request on `wire`, an
answer, and `Receive`, which follows a redirect or returns. `HandleWrite` conjoins `Propose` with the
answer, as the code replies right after `propose`. `Apply` folds `onApply` over the entries a Raft step
has applied. `alone` is a cluster of nodes started without a node id: `raft_` is null and writes go to the engine
at once. `proposed` and `outcome` are history.

**ShardManager.** `Handler` is the cascade of `onMessage`. Since protobuf keeps unexpected fields as
unknown, each of the three requests parses as the first type that is tried; the model says so in
`Parses` and draws the consequences. `recent` orders nodes by their last heartbeat, so that nodes
become silent in that order. `Rebalanced` is `scheduleRebalance`, with the nodes in any order, as
`nodes_` is an `unordered_map`; it is a recursive function of the number of shards dealt with.

**ConnectPool.** One action per critical section of the mutex: waiting, giving up after a second, taking,
returning, producing, reaping. A connect of the producer that fails (`ConnectFails`) closes the MYSQL handle, and the destructor of `MysqlDB`
closes it once more: the process goes on, or crashes and nothing runs any more (`Running`). The time of the last use is abstracted to whether the reaper takes a
connection for idle.

**ThreadPool.** One action per critical section of `taskQueMtx_`; condition variables are modelled with
the set of waiting threads, `notify_one` as the choice of one of them, with spurious wakeups and timeouts. A thread that has been notified and gets the mutex after its second is over takes itself for timed out (`TimeOut`),
as `wait_for` reports it, and may retire with the notification. The mode is chosen in
`Init`, because it cannot change after `start()`.

**ChatService.** A step is one critical section or one call of the database or of Redis. `login[c].pc`
and `msg[m].pc` are the places of the handlers, `conn[c]` that of `clientColse`. `RunCommand` shows that
`redisCommand` takes the next reply on the connection for its own, whatever it is. Both waits
of three seconds may end at any time. `SigInt` is `handlerfun` up to `exit`; where it does not reach the database it does nothing and the server runs on. `Exit` is the destruction of the
service, which frees the subscription connection and waits for the subscription thread: a thread in its callback ends by itself, one that is using the freed connection
meets an error or takes the process down. `Die` is an end without `handlerfun` (an exception, a null pointer
from `getconn`); `NewProcess` starts the server again with the tables as they are. `Fault` counts what goes wrong:
failed INSERTs, lost Redis connections, ends of processes. A server without users has no Redis connection to lose and dies only
while it handles a message; this only leaves out steps without an effect.

**ChatClient.** `client[c]` has the client's global variables and where its main and its receiving thread are, and whether the scanner is out of step (`garbled`); `up` and `down` are the
two directions of its connection, `tasks` what the pool has accepted and not begun, in no order, since several threads take them. A step
of `ChatService` is conjoined with the reply the handler writes (`ServeLogin`, `ServeMessage`, `ServeRedis`). `Dropped` is a
refused task, `BadRead` a read that is not one object. `OtherSender` stands for clients that are not followed. A request is
three steps of the main thread, the choice in the menu (`Choose`), the sending after two more lines of input (`Ask`), and the end of the wait (`WaitEnds`); a response to an earlier request may come between any two of them.
A reply with a text that ends in a backslash (`Backslashed`) is not closed for the scanner and swallows the replies after it (`Swallow`), until the characters of a later text happen to bring it into
step again. `Abort` is an exception nobody catches: `stoi` of a line that is no number, or an object cut out of a text that has no `msgtype`.

**Framing.** One stream, written message by message and read in pieces of any size. `protocol` selects the framing. Bytes are
abstract: the length has two binary digits, an object is a string between braces, of characters that matter
to the scanner (brace, quote, backslash, other). `Extract` is the loop of the readers.

**Friends.** `friend[u][f]` is the row (u, f) of the table; requests are tasks the pool runs in any order, `agreeFriend` is two steps.
That (user_id, friend_id) is the key of the table is inferred from `ON DUPLICATE KEY` and from the error message of `addfriend`, as the schema is not in the
repository. `agreed` and `applied` are history.

## 3. Runs

Deadlock is not checked in any run: the bounds on terms, calls, registrations and so on end every
behaviour, and a chat server or pool without clients rests. Liveness is stated instead
where something must happen.

| Run | Instance | Shows |
|---|---|---|
| `raft_elections` | 3 nodes, 2 terms, 1 crash anywhere, empty logs | `ElectionSafety`, `VotesDurable`, `VotesCountedOnce`, `LeaderHintElected`, `HintsEnd`, `TermMonotonic`, `ImplementsElection` |
| `raft_replication` | 3 nodes, 2 terms, logs of 2 | `LogMatching`, `AppliedEntriesExist`, `LeaderAppendOnly` |
| `raft_live` | 2 nodes, 3 terms, logs of 2, connections up at first and 1 of them lost, fair | `LeaderLogReplicated`, `NextIndexPositive`, `TypeOK` |
| `kv_calls` | 2 nodes with or without Raft, 1 call of any kind, 1 crash, 1 lost connection on each side, fair | `WriteOutcome`, `CallReturns` |
| `connect_pool` | 4 clients, 1 to 3 connections, 1 failed connect | `CreatedExact`, `FreeExact`, `SizeWithinLimits`, `ImplementsBoundedPool` |
| `thread_pool` | 4 tasks, 2 to 3 threads, queue of 2, both modes, fair | `CountersExact`, `ThreadsWithinLimits`, `AcceptedTasksRun`, `FixedDestructorReturns`, `ImplementsTaskQueue` |
| `chat_sessions` | 1 user, 2 connections, 2 logins, 2 servers, 1 message, 1 fault | `LocalDelivery`, `MappedSubscribed` |
| `chat_client` | 1 client, 2 accounts, the name of one ending in a backslash, 2 inputs (requests and a message from any side), 1 fault, 1 refused task, fair | `ReadIsShown`, `MenuMeansSession`, `SentIsRead`, `LeavingGoesOffline`, `HandlersFinish`, `ShutdownCompletes`, `ImplementsMailbox` |
| `placement` | 6 nodes, 1 to 4 shards | `PlacementValid`, `DistinctReplicas` |
| `framing` | 2 messages on a stream, data of up to 2 bytes, strings of up to 2 characters, every cut | `FramesIntact` |
| `friends` | 2 users, 4 requests, 1 failed statement | `AgreedListed`, `ApplicationKept` |

The other modules state their types too (`TypeOK`, `KvTypeOK`, `FriendsTypeOK`), as the first conjuncts of the
inductive invariants their proofs need.

Every property of these runs comes with a mutant: a definition changed the way a slip in the code would
change it, under which the run fails.

Why the bounds are enough for the cases of interest. Two terms give a deposed leader and a
reply that is a term late; three terms on two nodes give two rejections in flight, which is what
could drive `nextIndex_` to zero. One crash covers every place inside a persist. Logs of two
entries let a stale tail differ from its replacement, and a truncated log fall behind the commit index. With four clients and three connections there is always one that must wait. With a
queue of two and two threads, four tasks fill the queue while the threads are busy. Six
registrations give three rebalances with different sets of nodes alive. Two requests of a client are the smallest number with a response that ends the
wait of another request. Two logins on two connections of
one server are the smallest instance in which an old session's `clientColse` meets a new login of the same user. Two messages on a
stream are the smallest in which one can be joined with or swallowed by the next; four requests allow application, agreement, refusal and a
second application.

Fairness. In `Raft`: a node reads what has arrived, a connect that was begun ends, a leader's timer
fires; the event loop does this as long as the process runs (`raft_live` has no crash). `LeaderLogReplicated` promises the entries a leader proposed while the connection to a peer was up;
that an entry proposed before arrives too is what `PROJECT_GUIDE.md` says and the code does not do (`LogsBecomeEqual`, section 5). Nothing is
assumed of election timeouts or clients; instead the leader of the last term, whom
nobody can depose, is followed. In `KvStore`: nodes read requests and the client reads its
reply. In `ThreadPool`: a thread that wants the mutex gets it, tasks return, and the timed waits of a CACHE pool end; not
spurious wakeups, not submissions. The timeouts are needed: a thread may retire with the notification of a task, and without the timeouts of the
others `AcceptedTasksRun` does not hold. In `ChatService`: handlers that have begun go on, waits of
three seconds end, the subscription thread runs commands and callbacks. Reading
of replies is not assumed fair, because `poll` does not see what hiredis has already buffered. In `ChatClient` also: threads of the
client that can run do, readable connections are read, accepted tasks begin, which `AcceptedTasksRun` of `thread_pool`
shows; nothing is assumed of what users type. Redis is assumed to answer: `redisCommand` has no timeout. `LeavingGoesOffline` excepts
behaviours in which something fails (an INSERT, the connection to Redis, a server), `SentIsRead` those in which the server ended, a task was refused, the client left, or
a text on the connection ends in a backslash, because then the code gives up.

## 4. Proofs

`RaftProof` proves, for any finite set of nodes, any commands and any bounds, from the assumptions
`ServerAssumption`, `ConnsAssumption`, `BoundsAssumption` and `CommandAssumption` (the set of nodes is finite and not empty,
nobody is called `Nil`, bounds are numbers):

- `Invariance`: the inductive invariant `IInv`. It joins the types of all variables (`TypeInv`), what disks say about votes
  (`VoteInv`: a vote given is on disk, a node votes once per term, and memory agrees with the disk), what messages in flight say about votes (`NetInv`: a vote is asked for once per term, a grant on its way is recorded and comes once, and a vote that has been counted is no longer on its way), that
  `votesReceived_` counts voters (`VotesCountedOnce`), and that every leader was elected by a majority
  (`ElectedByMajority`).
- `AtMostOneLeaderPerTerm`: two majorities share a node, and `VoteInv` gives this node one vote per term.
  `ElectionSafety` alone is not inductive: the counter must be tied to voters, the voters to votes, the votes to disks,
  and replies in flight to the votes they report, or a late reply could be counted.
- `VotesStayDurable`, `EveryVoteCountsOnce`, `TermNeverGoesBack`: from the same invariant; the last
  is an action property and covers a crash inside a persist and the recovery.
- `TypeCorrect`, `NextIndexStaysPositive`, `AppliesExistingEntries`: from `TypeInv`, which joins to the types what
  they need to be inductive (`Progress`): a leader's `nextIndex_` is above 0, everything applied was an entry, and the
  commit index does not exceed what has been applied. The last part is what keeps `applyEntries` inside the log
  although a truncation may leave the commit index beyond it.

The module begins with lemmas on the operators of `RaftLog` (`MergeEntries`, `EntriesFrom`, `ApplyEntries`, `BatchWrite`, `Recovered`).

Its second half, about leaders, goes on from `IInv`:

- `HintsElected`, `HintsComeToAnEnd`: `LeaderInv` adds that an AppendEntries, also one left over on a closed connection, comes from a node elected in its term,
  and that a hint names a node elected in a term the hinting node has reached; along a chain of hints the terms grow, so it has an end.
- `LeadersOnlyAppend`: an action property; a leader's log changes only in `propose`, because a message that could truncate it would be from another leader of its term.
- `RaftImplementsElection`: every step is one of `Election` or none. A crash and the recovery after it leave ballot and vote as they are,
  because `VoteInv` says that they were on disk before anybody was told.
- `LogsMatchUntilCrash`: `MatchInv` treats logs and AppendEntries in flight as chains of links (an entry with the term before it) and says that no two different links end in
  the same index and term, since the leader of a term writes each index once. It is stated for behaviours up to the first crash: what a node recovers is not the
  log it had (section 5), and two recovered logs may well disagree.

`KvStoreProof` shows that the store's nodes are a Raft cluster (`StoreRunsRaft`: every behaviour of `KvSpec` is one of `Spec`, so all the theorems above hold of the store), that
one call puts at most one entry into a log, a true one exactly one and a refused one none (`CallsWriteOnce`), and that redirects name winners
(`RedirectsLeadToWinners`). `KvInv` ties the histories to the requests on the wire; the part that makes it inductive is about requests of calls that have returned
after a lost connection, which a node may read while the client is in another call (`LaterCalls`, `Undelivered`).

`ShardManagerProof` proves, for any numbers of shards and nodes (`ShardAssumption`), `PlacementIsValid` from the invariant `PlacementInv`. `scheduleRebalance` is a loop over the shards, so the proof first shows that the recursive function `Rebalanced` is defined by has a value at every turn
(`RebalancedKeeps`). Induction is done on sets, not on predicates: a set of turns that has 0 and with each turn the next has all of them, because otherwise it would lack a least one
(`LoopKeeps`, from `WFMin`). `BestAlive` needs that the loads of finitely many candidates have a least one.

`ReplicasAreDistinct` is the hardest of them, because nothing in `bestAlive` excludes a node that already has the shard; the reason is in the history of the placement. `SpreadInv` (`SpreadInvariance`) says it in three parts: every
frame is a registration, so nodes fall silent and die in the order they registered and those alive are the ones above some id `d`; after every tick all shards have equally many replicas; with one replica each they are on nodes up to `d + 1`, with two on nodes
up to `d + 2`, and node `d + 2` is in at least half of the first `i` shards whenever it is in shard `i`. A tick that gives shards their first or second replica keeps the loads of the nodes even, the first of them ahead by one at most (`EvenTurn`, `EvenFilled`). In a tick that gives
third replicas a node that holds a shard could be chosen again only after two other nodes have caught up with its load, which takes more turns than there were shards before this one (`ThirdTurn`).

`FramingProof` proves `FramesStayIntact` for any number of messages and every way to cut the stream into reads, from `FramingAssumption`: for the length-prefixed frames, with any data whose length the prefix can hold; for the chat client's
`extractJsonObjects`, with strings of any length none of which ends in a backslash; and for requests to the chat server as long as it has not thrown. `Readable` names these cases and is not a restriction beyond them: outside of it are the reader of `LengthPrefixedCodec` and strings that end
in a backslash, where TLC finds counterexamples (`VCodec.cfg`, `VBackslash.cfg`).

- `FrameInv` (`FrameInvariance`): what has been handed on is the first messages written; the bytes that follow them are exactly what is in the buffer and on the wire; and the buffer holds less than the next message. `FramesIntact` alone says nothing
  about the buffer, so no read could be shown to continue where the last one stopped; the last part is what makes a message come out with its last byte and not later (`CompleteIs`).
- A read looks at the bytes from the end of the last message on. `ExtractFinds` follows the loop of the readers over it: the end of the first frame is found when all of it is there (`FirstFrame`) and nothing is found when it is not (`PartFrame`). For objects that is about the scanner: `ScanDump`
  gives its state after every character of a dumped string, outside a string at depth 0 or 1, or inside, where braces and escaped quotes do not count. A string that ends in a backslash is where this fails.
- The chat server, which parses a whole read, hands on what was written because no dumped object begins another (`DumpUnique`).
- `FlattenSeq`, the fold over the scanner and the loop are recursive functions; that they have values and take the steps one expects is shown by the induction on sets described for `ShardManagerProof` (`LoopRuns`, `FlattenRuns`, `FoldScans`, `ExtractRuns`).

`ConnectPoolProof` proves, for any number of clients and any limits (`PoolAssumption`), the inductive invariant `PoolInv`
(`PoolInvariance`) and from it that no connection is lost from the count (`NoConnectionLost`, both copies), and for the chat server's
copy that the free counter is exact (`FreeCountExact`), the size stays within limits (`PoolWithinLimits`) and counters never go
below zero (`PoolTypeCorrect`). For the older copy the invariant only has `free <= Len(queue)`, which is what is
true of it. `PoolRefines` shows that the chat server's pool implements `BoundedPool`: `PoolInv` gives the equality of counter and
queue that the guard of the producer and of the reaper need.

`ThreadPoolProof` proves, for any tasks, threads and sizes in both modes, that `PoolInv` is inductive (`PoolInvariance`, `PoolTyped`), that `freeThreadSize_` and `nowThreadSize_`
are exact while the pool is in use (`CountersStayExact`), that the number of threads stays within its limits (`ThreadsStayWithinLimits`), and that the pool implements `TaskQueue`
(`PoolImplementsTaskQueue`). The counters are not functions of other variables: `Counted` says what `freeThreadSize_` counts, exactly before the destructor begins and as a bound afterwards.

`ChatProof` proves of `ChatService`, for any users, connections, logins, servers, messages and faults (`ChatAssumption`), the inductive invariant `ChatInv`, whose parts are
types; what a handler that has begun knows (`Handlers`); that an entry of `_userIdConn` comes from a login on that connection (`Mapped`); that pushes from Redis are messages to the user of their channel (`Pushed`);
that a user who is mapped, and whose login has asked for the subscription, is subscribed to or will be by the last command in the queue (`Subscribed`); and that a message which was looked up in vain either is still on its way or
has a login that will read the table (`Delivered`). From it follow `ChatTyped`, `MappedStaySubscribed`, `LocalMessagesDelivered` and `ChatImplementsMailbox`. `LocalDelivery` excepts logins of the recipient that are on their way on the same connection, all of them: with
three logins a weaker exception has a counterexample, which came out of the attempt to prove it.

The second half is about `ChatClient` (`ClientAssumption`: bounds are numbers and there are finitely many messages). `ServerSteps` shows that whatever clients, streams and pool do is a step of the servers or none, so that the first half
applies (`ServersKeepTheirPromises`, `ClientsUseMailbox`). `ClientInv` adds what may be on its way: an acknowledgement in a stream or in the pool is of a message its client has displayed, a `LOGIN_ACK` without error comes after an accepted login on this connection,
a message comes after it was written, and what was written to a connection is addressed to somebody who logged in on it. `MenuAfterLogin` and `ReadMessagesShown` follow.

`FriendsProof` proves, for any users and bounds (`FriendsAssumption`), that `FriendsInv`, the conjunction of `FriendsTypeOK`, `AgreedListed` and
`ApplicationKept`, is inductive (`FriendsInvariance`), with one lemma per statement, and from it `AgreedStayListed` and `ApplicationsKept`. The
types are needed to know that the row a statement names is a row of the table.

Only model-checked:

- everything under fairness (`LeaderLogReplicated`, `CallReturns`, `AcceptedTasksRun`, `FixedDestructorReturns`, `SentIsRead`, `LeavingGoesOffline`, `HandlersFinish`, `ShutdownCompletes`), which is out of the prover's reach;
- `LogMatching` after a crash: neither the run nor the theorem looks at it, because what a recovery rebuilds is not the log that was saved (section 5).

Every other safety invariant, action property and refinement that a passing run checks is stated by a theorem.

## 5. Where the code and its documentation disagree

One run shows a disagreement; `PROJECT.json` quotes the line.

- `raft_disk_holds_log`: from the second persist on, log entries are deleted from RocksDB by the batch that writes
  them.

Further ones are stated in the modules as properties, each with a configuration under which TLC
finds a counterexample. Where a configuration names several, TLC stops at the first: leave one of them in it to see the others.

| Property | Configuration | What the code does instead |
|---|---|---|
| `CommittedOnMajority` | `VRaft.cfg` | a success reply carries the last index of the follower's whole log, so a leader may commit entries that only it has |
| `HigherTermStepsDown` | `VRaft.cfg` | a leader ignores a higher term in an AppendEntries reply |
| `CommittedNeverOverwritten` | `VCommittedNeverOverwritten.cfg` (some minutes) | a follower takes `leader_commit` over for entries the message did not compare |
| `LogsBecomeEqual` | `VLogsBecomeEqual.cfg` | an entry proposed before a connection is up is not sent again: heartbeats carry no entries and are accepted |
| `AckedOnMajority` | `VKvStore.cfg` | PUT is answered before replication |
| `FollowerReadsRedirected` | `VKvStore.cfg` | a follower that knows no leader answers from its own engine |
| `EveryCallFollows` | `VKvStore.cfg` | del and scan do not follow redirects |
| `ExpandsOnDemand` | `VConnectPool.cfg` | the reaper makes the pool empty without waking the producer |
| `ReapsOnlyIdle` | `VConnectPool.cfg` | a connection that was never returned counts as idle since 1970 |
| `FreeExact` of the older copy | `VConnectPool.cfg`, with `Standalone = TRUE` and this invariant | its deleter does not count the connection it returns |
| `DestructorReturns` | `VDestructorReturns.cfg` | the last thread of a CACHE pool may retire without waking the destructor |
| `SingleSession` | `VSessions.cfg` | two logins of one user may both pass the check of the state |
| `OnlineMeansConnected` | `VSessions.cfg` | a connection that closes during login leaves its user online |
| `StoppedLeavesOffline` | `VStop.cfg` | a login on its way when SIGINT comes sets the state online after `handlerfun` has reset it |
| `ConnectedMeansOnline` | `VStop.cfg` | SIGINT on one server sets the users of all servers offline |
| `SendsAsLoggedIn` | `VSendsAsLoggedIn.cfg` | a late LOGIN_ACK logs the client in under the account it has asked for since |
| `LogOutGoesOffline` | `VLogOutGoesOffline.cfg` | menu entry 7 tells the server nothing |
| `ReadsParse` | `VReadsParse.cfg` | two requests in one read, or half of one, end the chat server |
| `FramesIntact` | `VBackslash.cfg` | with a string that ends in a backslash the scanner takes the closing quote for an escaped one |
| `FramesIntact` | `VCodec.cfg` | `LengthPrefixedCodec::onMessage` does not expect the type byte `sendRaw` writes |
| `FriendsMutual`, `RefusedGone`, `Consent` | `VFriends.cfg` | agreeing and refusing name the row of the user, where the application is the other row |
| `ClientsSurvive` | `VFriends.cfg` | the error reply of `addfriend` has `msgid` for `msgtype`, and the client ends on it |
| `ClientLearnsShards` | `VShardManager.cfg` | a request for the shard map is taken for a registration; the client loads an empty map |
| `DeadReplicasMoved` | `VShardManager.cfg` | replicas on dead nodes count as replicas and are not replaced |

That replicas of a shard are on different nodes (`DistinctReplicas`) holds because nodes die in the order they registered, as no
heartbeat is ever counted; the search itself does not exclude it.

## 6. Not modelled

- Disk errors and loss of power of a data node; user keys that collide with the keys Raft keeps in the same RocksDB.
- `setInitialNodes` and `assignShard` of ShardManager (nothing calls them), crashes of the placement driver (it keeps
  nothing on disk and has no recovery).
- The config parser and `common/shard_router` (used by tests only), `demo_cli`, the text of menus: sequential code,
  or user interface.
- Inside MysqlDB: binding of parameters and columns; a column of more than 1024 bytes, which ends the fetch loop; statements other than INSERTs
  into message and those on friends that fail. The older MysqlDB in `mysql连接池/`, which its demo uses.
- What `handlerfun` does to the thread it interrupts: it opens a database connection and calls `exit` inside a signal handler, which may
  block on a lock that thread holds. What a use of the subscription connection after `stopSubscribeLoop` has freed it may do besides an error or a crash. Commands
  Redis never answers.
- Key ranges of shards and their lookup in the client's Router: no client ever gets a shard map (`ClientLearnsShards`, section 5).
- A chat server that cannot reach Redis when it starts; PUBLISH that fails; SIGPIPE in a client that writes to a closed connection; a handler of
  a friend request whose server dies between its statements (the model has the failing second statement, with the same effect on
  the table).

## 7. Plan

Done, in this order: `Raft` and its proof, `KvStore`, `ConnectPool` and its proof, `ThreadPool`, `ChatService` (sessions and messages), `ShardManager`;
then the end of chat servers, `ChatClient`, `Framing`, `Friends`, standalone data nodes, and the abstract specifications with their refinements.

Then the proofs of section 4: elections and votes, pools and friends first; then leaders, hints and log matching, the store, the thread pool, the chat servers with
their clients, the placement driver with the spread of its replicas, and the streams.

Nothing of the plan is left but what the prover cannot do (liveness). A repair of the code changes the modules first: `LogMatching` through crashes can be stated once
`BatchWrite` keeps the entries it saves, and `Readable` can be dropped once the scanner counts backslashes and the codec reads the type.
