\* The default number of shards and some more
SPECIFICATION Spec
CONSTANTS
    ShardCounts = {1, 2, 3, 4}
    MaxNodes = 6
INVARIANTS PlacementValid DistinctReplicas
CHECK_DEADLOCK FALSE
