------------------------------ MODULE RaftLog ------------------------------
(***************************************************************************)
(* The log of a data node (RaftNode::log_) and its copy in RocksDB, as     *)
(* pure operators.                                                         *)
(*                                                                         *)
(* A log is a sequence of entries [term, index, command]; the sentinel     *)
(* log_[0] is left out, so position k of the sequence is log_[k].  The     *)
(* position of an entry and its index field are two different things: they *)
(* agree as long as a node has never restarted (see Recovered).            *)
(*                                                                         *)
(* The copy on disk is a function from RocksDB log keys (encodeLogKey of   *)
(* an index field, so the index itself) to entries.                        *)
(***************************************************************************)
EXTENDS Integers, Sequences, FiniteSets, FiniteSetsExt

CONSTANTS
    Value,        \* serialized client commands
    NoCommand     \* the empty command of a default LogEntry

ASSUME CommandAssumption == NoCommand \notin Value

Entry   == [term : Nat, index : Nat, command : Value]
NoEntry == [term |-> 0, index |-> 0, command |-> NoCommand]

Max2(a, b) == IF a >= b THEN a ELSE b
Min2(a, b) == IF a <= b THEN a ELSE b

\* getLastLogIndex
LastIndex(lg) == Len(lg)

\* getLogEntry(k).term(): the sentinel, and any index past the end, give the
\* default entry, whose term is 0
TermAt(lg, k) == IF k \in DOMAIN lg THEN lg[k].term ELSE 0

\* getLastLogTerm
LastTerm(lg) == TermAt(lg, Len(lg))

\* The entry propose() appends to the log of a leader in term t
NewEntry(lg, t, v) == [term |-> t, index |-> Len(lg) + 1, command |-> v]

\* Positions of es that meet an entry of another term in lg, when es starts
\* right after position prev
Conflicts(lg, prev, es) ==
    {k \in DOMAIN es : prev + k <= Len(lg) /\ lg[prev + k].term # es[k].term}

\* The loop of handleAppendEntries: the first conflict truncates the log, and
\* from there on, or from the end of the log on, every entry is pushed back
MergeEntries(lg, prev, es) ==
    LET bad  == Conflicts(lg, prev, es)
        keep == IF bad = {} THEN Len(lg) ELSE prev + Min(bad) - 1
    IN  SubSeq(lg, 1, keep) \o SubSeq(es, keep - prev + 1, Len(es))

\* log_[k] without a bounds check; the sentinel and what lies past the end are
\* not client entries
EntryAt(lg, k) == IF k \in DOMAIN lg THEN lg[k] ELSE NoEntry

\* The entries sendAppendEntries(false) copies for a peer at nextIndex n
EntriesFrom(lg, n) == [k \in 1 .. Len(lg) - n + 1 |-> EntryAt(lg, n + k - 1)]

\* Mutant: the loop runs while lastApplied_ <= commitIndex_
ApplyEntries_OneMore(done, lg, ci) ==
    done \o [k \in 1 .. Max2(ci - Len(done) + 1, 0) |-> EntryAt(lg, Len(done) + k)]

\* applyEntries: everything after lastApplied_, the length of done, up to ci
ApplyEntries(done, lg, ci) ==
    done \o [k \in 1 .. Max2(ci - Len(done), 0) |-> EntryAt(lg, Len(done) + k)]

-----------------------------------------------------------------------------

EmptyDisk == [x \in {} |-> {}]

IsDiskLog(d) == /\ DOMAIN d \in SUBSET Nat
                /\ IsFiniteSet(DOMAIN d)
                /\ d \in [DOMAIN d -> Entry]

\* Keys of the Puts of one writeBatch
PutKeys(lg) == {lg[k].index : k \in DOMAIN lg}

\* The last Put of a key wins
LastPut(lg, x) == lg[Max({k \in DOMAIN lg : lg[k].index = x})]

\* writeBatch(puts, oldKeys) of persistRaftState: the batch first puts every
\* entry of the log, then deletes every log key found by the scan made before
\* it, so a key that was already on disk is gone whatever was put there
BatchWrite(old, lg) == [x \in PutKeys(lg) \ DOMAIN old |-> LastPut(lg, x)]

\* Ascending enumerations of a finite set of keys (there is exactly one)
Ascending(K) == {key \in [1 .. Cardinality(K) -> K] :
                    \A a, b \in DOMAIN key : a < b => key[a] < key[b]}

\* recoverRaftState rebuilds the log from a scan in ascending key order, so an
\* entry lands at its rank among the surviving keys, not at its index
Recovered(d) == {[k \in DOMAIN key |-> d[key[k]]] : key \in Ascending(DOMAIN d)}
=============================================================================
