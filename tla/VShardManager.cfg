\* A client fetches the shard map; nodes die and others take their place
SPECIFICATION Spec
CONSTANTS
    ShardCounts = {1, 2, 3, 4}
    MaxNodes = 6
INVARIANTS ClientLearnsShards
PROPERTIES DeadReplicasMoved
CHECK_DEADLOCK FALSE
