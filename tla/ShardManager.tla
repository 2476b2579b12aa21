---------------------------- MODULE ShardManager ----------------------------
(***************************************************************************)
(* The placement driver of the key-value store: PdServer dispatches frames *)
(* and ticks, ShardManager keeps nodes_ and shards_, and KvClient fetches  *)
(* the shard map into its Router.  PdServer has one event loop, so every   *)
(* frame and every tick is one step.  The key ranges of the shards are     *)
(* left out: no shard ever reaches a client that could look a key up.      *)
(***************************************************************************)
EXTENDS Integers, Sequences, FiniteSets, SequencesExt

CONSTANTS
    ShardCounts,    \* the values argv[3] may have
    MaxNodes        \* bound: nodes registered

ASSUME ShardAssumption ==
    ShardCounts \subseteq Nat \ {0} /\ MaxNodes \in Nat

VARIABLES
    alive,      \* nodes_: alive, by nodeId; nextNodeId_ is one more than its length
    recent,     \* the nodes heard of in the last 10 s, in the order of lastHeartbeat
    shards,     \* shards_: leaderNodeId and peerNodeIds, in the order of shardId
    reply,      \* what the placement driver has answered a client, or <<>>
    router      \* shardMap_ of the client's Router: <<>> before it is loaded

vars == <<alive, recent, shards, reply, router>>

Init ==
    /\ \E n \in ShardCounts : shards = [i \in 1 .. n |-> [leader |-> 0, peers |-> <<>>]]
    /\ alive = <<>>
    /\ recent = <<>>
    /\ reply = <<>>
    /\ router = <<>>

-----------------------------------------------------------------------------
(* Frames *)

Requests == {"RegisterNode", "Heartbeat", "GetShardMap"}

\* Protobuf: a field of an unexpected number or type is kept as unknown, so bytes that are
\* one of these messages parse as each of them
Parses(as, request) == as \in Requests /\ request \in Requests

\* onMessage tries the types in this order and calls the handler of the first that parses
Handler(request) ==
    LET order == <<"RegisterNode", "Heartbeat", "GetShardMap">>
        first == CHOOSE k \in DOMAIN order :
                     /\ Parses(order[k], request)
                     /\ \A j \in 1 .. (k - 1) : ~Parses(order[j], request)
    IN  order[first]

RegisterId == Len(alive) + 1

\* registerNode, processHeartbeat of node id, and getShardMap by what they do to nodes_
Handle(request, id) ==
    CASE Handler(request) = "RegisterNode" ->
            /\ alive' = Append(alive, TRUE)
            /\ recent' = Append(recent, RegisterId)
      [] Handler(request) = "Heartbeat" /\ id \in DOMAIN alive ->
            /\ alive' = [alive EXCEPT ![id] = TRUE]
            /\ recent' = Append(Remove(recent, id), id)
      [] OTHER -> UNCHANGED <<alive, recent>>

\* A node registers, or reports the state of its shards
RegisterNode ==
    /\ Len(alive) < MaxNodes
    /\ Handle("RegisterNode", 0)
    /\ UNCHANGED <<shards, reply, router>>

Heartbeat(id) ==
    /\ Len(alive) < MaxNodes
    /\ Handle("Heartbeat", id)
    /\ UNCHANGED <<shards, reply, router>>

\* fetchShardMap of a client.  The answer of registerNode parses as a GetShardMapResponse
\* without shards
FetchShardMap ==
    /\ Len(alive) < MaxNodes
    /\ reply = <<>>
    /\ Handle("GetShardMap", 0)
    /\ reply' = <<IF Handler("GetShardMap") = "GetShardMap" THEN shards ELSE <<>> >>
    /\ UNCHANGED <<shards, router>>

LoadShardMap ==
    /\ reply # <<>>
    /\ router' = <<Head(reply)>>
    /\ reply' = <<>>
    /\ UNCHANGED <<alive, recent, shards>>

\* Ten seconds have passed since the last frame of the node heard of least recently
NodeSilent ==
    /\ recent # <<>>
    /\ recent' = Tail(recent)
    /\ UNCHANGED <<alive, shards, reply, router>>

-----------------------------------------------------------------------------
(* tick *)

\* The first replica becomes leader, if there is no leader
Led(shard) ==
    IF shard.leader = 0 /\ shard.peers # <<>>
    THEN [shard EXCEPT !.leader = shard.peers[1]]
    ELSE shard

\* Mutant: the replicas this tick has placed are not counted
Load_BeforeTick(S, id) ==
    Cardinality({p \in (DOMAIN shards) \X (1 .. 3) :
                    p[2] \in DOMAIN shards[p[1]].peers /\ shards[p[1]].peers[p[2]] = id})

\* shardCounts: the replicas on a node
Load(S, id) ==
    Cardinality({p \in (DOMAIN S) \X (1 .. 3) :
                    p[2] \in DOMAIN S[p[1]].peers /\ S[p[1]].peers[p[2]] = id})

\* Mutant: a replica too many
Room_OneMore(shard, order) == Len(shard.peers) <= 3 /\ Len(shard.peers) < Len(order)

Room(shard, order) == Len(shard.peers) < 3 /\ Len(shard.peers) < Len(order)

\* Nodes that are better than the first
Eligible(S, i, order) ==
    {k \in DOMAIN order : /\ Load(S, order[k]) < Load(S, order[1])
                          /\ order[k] \notin ToSet(S[i].peers)}

\* The first of the nodes with the least replicas.  The first node that is alive is the
\* candidate to begin with, whether or not it holds a replica of the shard
Best(S, i, order) ==
    LET better == Eligible(S, i, order)
        least  == {k \in better : \A j \in better : Load(S, order[k]) <= Load(S, order[j])}
    IN  IF better = {} THEN order[1] ELSE order[Min(least)]

\* A turn of the while loop of one shard
Placed(S, i, order) ==
    IF Room(S[i], order) THEN [S EXCEPT ![i].peers = Append(@, Best(S, i, order))] ELSE S

\* The while loop: at most three turns
Filled(S, i, order) == Placed(Placed(Placed(S, i, order), i, order), i, order)

\* Leaders first, then replicas, shard by shard
Rebalanced(S, order) ==
    LET upTo[i \in 0 .. Len(S)] ==
            IF i = 0 THEN [k \in DOMAIN S |-> Led(S[k])] ELSE Filled(upTo[i - 1], i, order)
    IN  upTo[Len(S)]

\* getDeadNodes, and scheduleRebalance when there are any.  nodes_ is an unordered_map: the
\* nodes that are alive come in any order
Tick ==
    LET dead == {id \in DOMAIN alive : alive[id] /\ id \notin ToSet(recent)}
        live == {id \in DOMAIN alive : alive[id]} \ dead
    IN  /\ dead # {}
        /\ alive' = [id \in DOMAIN alive |-> id \in live]
        /\ \E order \in SetToSeqs(live) :
              shards' = IF live = {} THEN shards ELSE Rebalanced(shards, order)
        /\ UNCHANGED <<recent, reply, router>>

Next ==
    \/ RegisterNode
    \/ \E id \in 1 .. MaxNodes : Heartbeat(id)
    \/ FetchShardMap
    \/ LoadShardMap
    \/ NodeSilent
    \/ Tick

Spec == Init /\ [][Next]_vars

-----------------------------------------------------------------------------
(* Properties *)

\* A shard has at most three replicas, on nodes that registered, and its leader is the first
\* of them: scheduleRebalance appoints leaders before it places replicas and counts with a
\* table it updates as it goes.
PlacementValid ==
    \A i \in DOMAIN shards :
        /\ Len(shards[i].peers) <= 3
        /\ ToSet(shards[i].peers) \subseteq DOMAIN alive
        /\ shards[i].leader # 0 => shards[i].leader = Head(shards[i].peers)

\* No node holds two replicas of a shard, though the search of scheduleRebalance begins
\* with a node it has not compared with the replicas.  It depends on the order in which
\* nodes come and go: they die in the order they registered, as no heartbeat is counted.
DistinctReplicas ==
    \A i \in DOMAIN shards :
        Cardinality(ToSet(shards[i].peers)) = Len(shards[i].peers)

\* "A node is down: its replicas move to nodes that are up" (PROJECT_GUIDE.md): a tick that
\* finds dead nodes, with at least three alive, leaves no replica on a dead one.
DeadReplicasMoved ==
    [][LET live == {id \in DOMAIN alive' : alive'[id]} IN
       /\ \E id \in DOMAIN alive : alive[id] /\ ~alive'[id]
       /\ Cardinality(live) >= 3
       => \A i \in DOMAIN shards : ToSet(shards'[i].peers) \subseteq live]_vars

\* In PD mode the client takes the shard map from the placement driver (PROJECT_GUIDE.md):
\* a map that has been loaded has shards.
ClientLearnsShards == router # <<>> => router[1] # <<>>
=============================================================================
