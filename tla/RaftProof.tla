----------------------------- MODULE RaftProof ------------------------------
(***************************************************************************)
(* Proofs about Raft, for any number of nodes, any bounds and any initial  *)
(* connections.                                                            *)
(***************************************************************************)
EXTENDS Raft, FiniteSetTheorems, WellFoundedInduction, TLAPS

-----------------------------------------------------------------------------
(* The log operators of RaftLog, for every log and every disk *)

(* Every non-empty set of positions has a first one (Min of MergeEntries).  *)
LEMMA MinExists ==
    ASSUME NEW S \in SUBSET Nat, S # {}
    PROVE  Min(S) \in S /\ \A x \in S : Min(S) <= x
<1> DEFINE R == {ss \in Nat \X Nat : ss[1] < ss[2]}
<1>a. IsWellFoundedOn(R, Nat)
    BY NatLessThanWellFounded DEF OpToRel
<1>b. \E x \in S : \A y \in S : ~(<<y, x>> \in R)
    BY <1>a, WFMin
<1>1. PICK x \in S : \A y \in S : ~(<<y, x>> \in R)
    BY <1>b
<1>2. \E z \in S : \A y \in S : z <= y
    <2>1. ASSUME NEW y \in S PROVE x <= y
        <3>1. <<y, x>> \in Nat \X Nat /\ <<y, x>>[1] = y /\ <<y, x>>[2] = x
            OBVIOUS
        <3>2. ~(y < x)
            BY <1>1, <3>1
        <3> QED
            BY <3>2
    <2> QED
        BY <2>1
<1> QED
    BY <1>2 DEF Min

(* Every non-empty bounded set of positions has a last one (Max of          *)
(* LastPut and of advanceCommitIndex).                                      *)
LEMMA MaxExists ==
    ASSUME NEW n \in Nat, NEW S \in SUBSET (0 .. n), S # {}
    PROVE  Max(S) \in S /\ \A x \in S : Max(S) >= x
<1> DEFINE T == {n - x : x \in S}
<1>1. T \in SUBSET Nat /\ T # {}
    <2>1. \A x \in S : n - x \in Nat
        OBVIOUS
    <2> QED
        BY <2>1
<1>2. Min(T) \in T /\ \A x \in T : Min(T) <= x
    BY <1>1, MinExists
<1>3. PICK m \in S : Min(T) = n - m
    BY <1>2
<1>4. \A y \in S : m >= y
    <2> TAKE y \in S
    <2>1. n - m <= n - y
        BY <1>2, <1>3
    <2> QED
        BY <2>1
<1> QED
    BY <1>4 DEF Max

-----------------------------------------------------------------------------

(* getLogEntry gives a term at every index. *)
LEMMA TermAtType ==
    ASSUME NEW lg \in Seq(Entry), NEW k
    PROVE  TermAt(lg, k) \in Nat
<1>1. k \in DOMAIN lg => lg[k] \in Entry
    OBVIOUS
<1> QED
    BY <1>1 DEF TermAt, Entry

(* handleAppendEntries keeps log_ a sequence of entries.                    *)
LEMMA MergeEntriesType ==
    ASSUME NEW lg \in Seq(Entry), NEW prev \in Nat, NEW es \in Seq(Entry),
           prev <= Len(lg)
    PROVE  MergeEntries(lg, prev, es) \in Seq(Entry)
<1> DEFINE bad  == Conflicts(lg, prev, es)
           keep == IF bad = {} THEN Len(lg) ELSE prev + Min(bad) - 1
<1>1. bad \in SUBSET Nat /\ \A k \in bad : k >= 1 /\ prev + k <= Len(lg)
    BY DEF Conflicts
<1>2. keep \in Nat /\ prev <= keep /\ keep <= Len(lg)
    <2>1. CASE bad = {}
        BY <2>1
    <2>2. CASE bad # {}
        <3>1. Min(bad) \in bad
            BY <1>1, <2>2, MinExists
        <3> HIDE DEF bad
        <3>2. Min(bad) \in Nat /\ Min(bad) >= 1 /\ prev + Min(bad) <= Len(lg)
            BY <1>1, <3>1
        <3> QED
            BY <2>2, <3>2
    <2> QED
        BY <2>1, <2>2
<1> HIDE DEF keep
<1>3. SubSeq(lg, 1, keep) \in Seq(Entry)
    BY <1>2
<1>4. SubSeq(es, keep - prev + 1, Len(es)) \in Seq(Entry)
    BY <1>2
<1>5. MergeEntries(lg, prev, es)
        = SubSeq(lg, 1, keep) \o SubSeq(es, keep - prev + 1, Len(es))
    BY DEF MergeEntries, keep
<1> QED
    BY <1>3, <1>4, <1>5

(* sendAppendEntries copies entries, not the sentinel, when nextIndex_ > 0. *)
LEMMA EntriesFromType ==
    ASSUME NEW lg \in Seq(Entry), NEW n \in Nat, n >= 1
    PROVE  EntriesFrom(lg, n) \in Seq(Entry)
<1>1. ASSUME NEW k \in 1 .. Len(lg) - n + 1
      PROVE  EntryAt(lg, n + k - 1) \in Entry
    <2>1. n + k - 1 \in DOMAIN lg
        OBVIOUS
    <2> QED
        BY <2>1 DEF EntryAt
<1>2. CASE Len(lg) - n + 1 >= 0
    <2>1. EntriesFrom(lg, n) \in [1 .. (Len(lg) - n + 1) -> Entry]
        BY <1>1 DEF EntriesFrom
    <2>2. Len(lg) - n + 1 \in Nat
        BY <1>2
    <2> QED
        BY <2>1, <2>2
<1>3. CASE Len(lg) - n + 1 < 0
    <2>1. 1 .. (Len(lg) - n + 1) = {} /\ 1 .. 0 = {}
        BY <1>3
    <2>2. EntriesFrom(lg, n) \in [1 .. 0 -> Entry]
        BY <1>1, <2>1 DEF EntriesFrom
    <2> QED
        BY <2>2
<1> QED
    BY <1>2, <1>3

(* applyEntries extends what has been applied by entries that exist, as     *)
(* long as the commit index is inside the log or already applied.           *)
LEMMA ApplyEntriesType ==
    ASSUME NEW done \in Seq(Entry), NEW lg \in Seq(Entry), NEW ci \in Nat,
           ci <= Len(done) \/ ci <= Len(lg)
    PROVE  /\ ApplyEntries(done, lg, ci) \in Seq(Entry)
           /\ ci <= Len(ApplyEntries(done, lg, ci))
<1> DEFINE n == Max2(ci - Len(done), 0)
           new == [k \in 1 .. n |-> EntryAt(lg, Len(done) + k)]
<1>1. n \in Nat /\ ci <= Len(done) + n /\ (n > 0 => n = ci - Len(done))
    BY DEF Max2
<1>2. ASSUME NEW k \in 1 .. n PROVE EntryAt(lg, Len(done) + k) \in Entry
    <2>1. Len(done) + k \in DOMAIN lg
        BY <1>1
    <2> QED
        BY <2>1 DEF EntryAt
<1> HIDE DEF n
<1>3. new \in [1 .. n -> Entry]
    BY <1>2
<1>4. new \in Seq(Entry) /\ Len(new) = n
    BY <1>1, <1>3
<1> HIDE DEF new
<1>5. ApplyEntries(done, lg, ci) = done \o new
    BY DEF ApplyEntries, n, new
<1> QED
    BY <1>1, <1>4, <1>5

-----------------------------------------------------------------------------

\* A database without log keys is a disk.
LEMMA EmptyDiskType == IsDiskLog(EmptyDisk)
    BY FS_EmptySet DEF IsDiskLog, EmptyDisk

(* writeBatch leaves entries of the log under finitely many keys.           *)
LEMMA BatchWriteType ==
    ASSUME NEW old, NEW lg \in Seq(Entry)
    PROVE  IsDiskLog(BatchWrite(old, lg))
<1> DEFINE K == PutKeys(lg) \ DOMAIN old
<1>1. IsFiniteSet(DOMAIN lg)
    BY FS_Interval
<1>2. IsFiniteSet(PutKeys(lg))
    <2> DEFINE f == [k \in DOMAIN lg |-> lg[k].index]
    <2>1. f \in Surjection(DOMAIN lg, PutKeys(lg))
        BY DEF Surjection, PutKeys
    <2> QED
        BY <1>1, <2>1, FS_Surjection
<1>3. IsFiniteSet(K)
    BY <1>2, FS_Subset
<1>4. K \in SUBSET Nat
    <2>0. \A k \in DOMAIN lg : lg[k] \in Entry
        OBVIOUS
    <2>1. \A k \in DOMAIN lg : lg[k].index \in Nat
        BY <2>0 DEF Entry
    <2> QED
        BY <2>1 DEF PutKeys
<1>5. ASSUME NEW x \in K PROVE LastPut(lg, x) \in Entry
    <2> DEFINE P == {k \in DOMAIN lg : lg[k].index = x}
    <2>1. P # {} /\ P \in SUBSET (0 .. Len(lg))
        BY DEF PutKeys
    <2>2. Len(lg) \in Nat
        OBVIOUS
    <2> HIDE DEF P
    <2>3. Max(P) \in P
        BY <2>1, <2>2, MaxExists
    <2> QED
        BY <2>3 DEF LastPut, P
<1>6. BatchWrite(old, lg) \in [K -> Entry] /\ DOMAIN BatchWrite(old, lg) = K
    BY <1>5 DEF BatchWrite
<1> QED
    BY <1>3, <1>4, <1>6 DEF IsDiskLog

(* recoverRaftState rebuilds a sequence of entries from any disk.           *)
LEMMA RecoveredType ==
    ASSUME NEW d, IsDiskLog(d), NEW lg \in Recovered(d)
    PROVE  lg \in Seq(Entry)
<1> DEFINE n == Cardinality(DOMAIN d)
<1>1. n \in Nat
    BY FS_CardinalityType DEF IsDiskLog
<1> HIDE DEF n
<1>2. PICK key \in [1 .. n -> DOMAIN d] : lg = [k \in DOMAIN key |-> d[key[k]]]
    BY DEF Recovered, Ascending, n
<1>3. lg \in [1 .. n -> Entry]
    BY <1>2 DEF IsDiskLog
<1> QED
    BY <1>1, <1>3

-----------------------------------------------------------------------------

USE DEF States

(* Positions of a leader are natural numbers above 0, and what is committed *)
(* has been applied: what TypeOK needs to be inductive.                     *)
Progress ==
    /\ NextIndexPositive
    /\ applied \in [Server -> Seq(Entry)]
    /\ \A i \in Server : commitIndex[i] <= Len(applied[i])

TypeInv == TypeOK /\ Progress

-----------------------------------------------------------------------------
(* Types of what the handlers compute *)

\* persistRaftState leaves a term, a vote and log keys on the disk.
LEMMA PersistedType ==
    ASSUME NEW d, NEW t \in Nat, NEW v \in Server \cup {Nil}, NEW lg \in Seq(Entry)
    PROVE  IsDisk(Persisted(d, t, v, lg))
    BY BatchWriteType DEF IsDisk, Persisted

\* A message of sendAppendEntries is well formed while nextIndex_ is above 0.
LEMMA AppendEntriesToType ==
    ASSUME TypeInv, NEW i \in Server, NEW lg \in Seq(Entry), NEW ni \in [Server -> Nat],
           \A j \in Server : ni[j] >= 1, NEW hb \in BOOLEAN, NEW j \in Server
    PROVE  AppendEntriesTo(i, lg, ni, j, hb) \in AppendEntriesMsg
<1>1. ni[j] \in Nat /\ ni[j] >= 1 /\ ni[j] - 1 \in Nat
    OBVIOUS
<1>2. EntriesFrom(lg, ni[j]) \in Seq(Entry) /\ <<>> \in Seq(Entry)
    BY <1>1, EntriesFromType
<1>3. TermAt(lg, ni[j] - 1) \in Nat
    BY TermAtType
<1>4. currentTerm[i] \in Nat /\ commitIndex[i] \in Nat
    BY DEF TypeInv, TypeOK
<1> QED
    BY <1>1, <1>2, <1>3, <1>4 DEF AppendEntriesTo, AppendEntriesMsg

\* Sending to every connected peer keeps the queues of requests well typed.
LEMMA BroadcastType ==
    ASSUME TypeInv, NEW i \in Server, NEW msg \in [Server -> Request], Broadcast(i, msg)
    PROVE  req' \in [Server -> [Server -> Seq(Request)]]
<1>1. ASSUME NEW j \in Server
      PROVE  (IF j # i /\ conn[i][j] = "connected"
              THEN Append(req[i][j], msg[j]) ELSE req[i][j]) \in Seq(Request)
    BY DEF TypeInv, TypeOK
<1> QED
    BY <1>1 DEF TypeInv, TypeOK, Broadcast

\* So does sendAppendEntries.
LEMMA SendAppendEntriesType ==
    ASSUME TypeInv, NEW i \in Server, NEW lg \in Seq(Entry), NEW ni \in [Server -> Nat],
           \A j \in Server : ni[j] >= 1, NEW hb \in BOOLEAN,
           SendAppendEntries(i, lg, ni, hb)
    PROVE  req' \in [Server -> [Server -> Seq(Request)]]
<1> DEFINE msg == [j \in Server |-> AppendEntriesTo(i, lg, ni, j, hb)]
<1>1. \A j \in Server : AppendEntriesTo(i, lg, ni, j, hb) \in Request
    BY AppendEntriesToType DEF Request
<1>2. msg \in [Server -> Request]
    BY <1>1
<1>3. Broadcast(i, msg)
    BY DEF SendAppendEntries
<1> QED
    BY <1>2, <1>3, BroadcastType

\* Two majorities of the nodes have more members than there are nodes.
LEMMA HalfType == Half \in Nat /\ 2 * Half <= Cardinality(Server) /\ Cardinality(Server) < 2 * Half + 2
<1>1. Cardinality(Server) \in Nat
    BY ServerAssumption, FS_CardinalityType
<1> QED
    BY <1>1 DEF Half

(* advanceCommitIndex stays inside the log or keeps the old commit index.   *)
LEMMA AdvanceCommitIndexType ==
    ASSUME TypeInv, NEW i \in Server
    PROVE  /\ AdvanceCommitIndex(i) \in Nat
           /\ AdvanceCommitIndex(i) = commitIndex[i] \/ AdvanceCommitIndex(i) <= Len(log[i])
<1>1. commitIndex[i] \in Nat /\ log[i] \in Seq(Entry) /\ Len(log[i]) \in Nat
    BY DEF TypeInv, TypeOK
<1>2. Committable(i) \in SUBSET (0 .. Len(log[i]))
    BY <1>1 DEF Committable
<1>3. Committable(i) # {} => Max(Committable(i)) \in Committable(i)
    BY <1>1, <1>2, MaxExists
<1> QED
    BY <1>1, <1>2, <1>3 DEF AdvanceCommitIndex

\* The type field of a request says which kind of request it is.
LEMMA RequestKinds ==
    ASSUME NEW m \in Request
    PROVE  /\ m.type = "REQUEST_VOTE" => m \in RequestVoteMsg
           /\ m.type = "APPEND_ENTRIES" => m \in AppendEntriesMsg
           /\ m.term \in Nat
    BY DEF Request, RequestVoteMsg, AppendEntriesMsg

\* The type field of a reply says which kind of reply it is.
LEMMA ReplyKinds ==
    ASSUME NEW m \in Reply
    PROVE  /\ m.type = "REQUEST_VOTE_RESP" => m \in RequestVoteResp
           /\ m.type = "APPEND_ENTRIES_RESP" => m \in AppendEntriesResp
           /\ m.term \in Nat
    BY DEF Reply, RequestVoteResp, AppendEntriesResp

(* becomeFollower and the persist it makes.                                 *)
LEMMA BecomeFollowerType ==
    ASSUME TypeInv, NEW j \in Server, NEW t \in Nat
    PROVE  /\ TermAfter(j, t) \in Nat
           /\ VoteAfter(j, t) \in Server \cup {Nil}
           /\ IsDisk(DiskAfter(j, t))
<1>1. /\ currentTerm[j] \in Nat /\ votedFor[j] \in Server \cup {Nil}
      /\ log[j] \in Seq(Entry) /\ IsDisk(disk[j])
    BY DEF TypeInv, TypeOK
<1>2. IsDisk(Persisted(disk[j], t, Nil, log[j]))
    BY <1>1, PersistedType
<1> QED
    BY <1>1, <1>2 DEF TermAfter, Max2, VoteAfter, DiskAfter

(* handleRequestVote and its reply.                                         *)
LEMMA RequestVoteStepType ==
    ASSUME TypeInv, NEW j \in Server, NEW m \in RequestVoteMsg, RequestVoteStep(j, m),
           conn' \in [Server -> [Server -> {"connecting", "connected", "closed"}]],
           req' \in [Server -> [Server -> Seq(Request)]],
           resp' \in [Server -> [Server -> Seq(Reply)]],
           orphans' \subseteq [to : Server, msg : Request],
           crashes' \in Nat, breaks' \in Nat
    PROVE  TypeInv'
<1>1. m.term \in Nat /\ m.candidate \in Server
    BY DEF RequestVoteMsg
<1>2. /\ TermAfter(j, m.term) \in Nat
      /\ VoteAfter(j, m.term) \in Server \cup {Nil}
      /\ IsDisk(DiskAfter(j, m.term))
    BY <1>1, BecomeFollowerType
<1>3. IsDisk(Persisted(DiskAfter(j, m.term), m.term, m.candidate, log[j]))
    BY <1>1, PersistedType DEF TypeInv, TypeOK
<1>4. /\ currentTerm' \in [Server -> Nat]
      /\ state' \in [Server -> {"FOLLOWER", "CANDIDATE", "LEADER"}]
      /\ \A i \in Server : state'[i] = "LEADER" => state[i] = "LEADER"
    BY <1>2 DEF TypeInv, TypeOK, RequestVoteStep, BecomeFollower
<1>5. /\ votedFor' \in [Server -> Server \cup {Nil}]
      /\ DOMAIN disk' = Server /\ \A i \in Server : IsDisk(disk'[i])
      /\ votes' \subseteq Server \X Nat \X Server
    <2>0. /\ votedFor \in [Server -> Server \cup {Nil}]
          /\ DOMAIN disk = Server /\ \A i \in Server : IsDisk(disk[i])
          /\ votes \subseteq Server \X Nat \X Server
        BY DEF TypeInv, TypeOK
    <2>1. CASE Grants(j, m)
        <3>1. /\ votedFor' = [votedFor EXCEPT ![j] = m.candidate]
              /\ disk' = [disk EXCEPT ![j] =
                    Persisted(DiskAfter(j, m.term), m.term, m.candidate, log[j])]
              /\ votes' = votes \cup {<<j, m.term, m.candidate>>}
            BY <2>1 DEF RequestVoteStep
        <3>2. votedFor' \in [Server -> Server \cup {Nil}]
            BY <1>1, <2>0, <3>1
        <3>3. DOMAIN disk' = Server /\ \A i \in Server : IsDisk(disk'[i])
            BY <1>3, <2>0, <3>1
        <3>4. <<j, m.term, m.candidate>> \in Server \X Nat \X Server
            BY <1>1
        <3> QED
            BY <2>0, <3>1, <3>2, <3>3, <3>4
    <2>2. CASE ~Grants(j, m)
        <3>1. /\ votedFor' = [votedFor EXCEPT ![j] = VoteAfter(j, m.term)]
              /\ disk' = [disk EXCEPT ![j] = DiskAfter(j, m.term)]
              /\ votes' = votes
            BY <2>2 DEF RequestVoteStep
        <3> QED
            BY <1>2, <2>0, <3>1
    <2> QED
        BY <2>1, <2>2
<1>6. UNCHANGED <<log, commitIndex, applied, leaderId, nextIndex, matchIndex,
                  votesReceived, voters, elected>>
    BY DEF RequestVoteStep
<1>7. TypeOK'
    BY <1>4, <1>5, <1>6 DEF TypeInv, TypeOK
<1>8. Progress'
    BY <1>4, <1>6 DEF TypeInv, Progress, NextIndexPositive
<1> QED
    BY <1>7, <1>8 DEF TypeInv

\* handleRequestVote answers with a well-formed reply.
LEMMA RequestVoteReplyType ==
    ASSUME TypeInv, NEW j \in Server, NEW m \in RequestVoteMsg
    PROVE  RequestVoteReply(j, m) \in Reply
<1>1. m.term \in Nat
    BY DEF RequestVoteMsg
<1>2. TermAfter(j, m.term) \in Nat /\ Grants(j, m) \in BOOLEAN
    BY <1>1, BecomeFollowerType DEF Grants
<1> QED
    BY <1>2 DEF RequestVoteReply, Reply, RequestVoteResp

(* handleAppendEntries and its reply.                                       *)
LEMMA AcceptedLog ==
    ASSUME TypeInv, NEW j \in Server, NEW m \in AppendEntriesMsg, Accepts(j, m)
    PROVE  /\ MergeEntries(log[j], m.prevLogIndex, m.entries) \in Seq(Entry)
           /\ m.term >= currentTerm[j]
<1>1. /\ log[j] \in Seq(Entry) /\ m.prevLogIndex \in Nat /\ m.entries \in Seq(Entry)
      /\ m.prevLogIndex <= Len(log[j])
    BY DEF TypeInv, TypeOK, AppendEntriesMsg, Accepts, Matches
<1> QED
    BY <1>1, MergeEntriesType DEF Accepts

\* handleAppendEntries keeps the types of everything it writes.
LEMMA AppendEntriesStepType ==
    ASSUME TypeInv, NEW j \in Server, NEW m \in AppendEntriesMsg, AppendEntriesStep(j, m),
           conn' \in [Server -> [Server -> {"connecting", "connected", "closed"}]],
           req' \in [Server -> [Server -> Seq(Request)]],
           resp' \in [Server -> [Server -> Seq(Reply)]],
           orphans' \subseteq [to : Server, msg : Request],
           crashes' \in Nat, breaks' \in Nat
    PROVE  TypeInv'
<1>1. m.term \in Nat /\ m.leader \in Server /\ m.leaderCommit \in Nat
    BY DEF AppendEntriesMsg
<1>2. /\ TermAfter(j, m.term) \in Nat
      /\ VoteAfter(j, m.term) \in Server \cup {Nil}
      /\ IsDisk(DiskAfter(j, m.term))
    BY <1>1, BecomeFollowerType
<1>4. /\ currentTerm' \in [Server -> Nat]
      /\ state' \in [Server -> {"FOLLOWER", "CANDIDATE", "LEADER"}]
      /\ \A i \in Server : state'[i] = "LEADER" => state[i] = "LEADER"
      /\ votedFor' \in [Server -> Server \cup {Nil}]
      /\ leaderId' \in [Server -> Server \cup {Nil}]
    BY <1>1, <1>2 DEF TypeInv, TypeOK, AppendEntriesStep, BecomeFollower, LeaderHint
<1>5. /\ log' \in [Server -> Seq(Entry)]
      /\ commitIndex' \in [Server -> Nat]
      /\ DOMAIN disk' = Server /\ \A i \in Server : IsDisk(disk'[i])
      /\ applied' \in [Server -> Seq(Entry)]
      /\ \A i \in Server : commitIndex'[i] <= Len(applied'[i])
    <2>1. CASE Accepts(j, m)
        <3> DEFINE lg == MergeEntries(log[j], m.prevLogIndex, m.entries)
                   ci == CommitAfter(j, m, lg)
        <3>1. lg \in Seq(Entry) /\ Len(lg) \in Nat
            BY <2>1, AcceptedLog
        <3> HIDE DEF lg
        <3>2. ci \in Nat /\ (ci = commitIndex[j] \/ ci <= Len(lg))
            <4>1. commitIndex[j] \in Nat
                BY DEF TypeInv, TypeOK
            <4> QED
                BY <1>1, <3>1, <4>1 DEF CommitAfter, Min2
        <3> HIDE DEF ci
        <3>3. applied[j] \in Seq(Entry) /\ commitIndex[j] <= Len(applied[j])
            BY DEF TypeInv, Progress
        <3>4. /\ ApplyEntries(applied[j], lg, ci) \in Seq(Entry)
              /\ ci <= Len(ApplyEntries(applied[j], lg, ci))
            BY <3>1, <3>2, <3>3, ApplyEntriesType
        <3>5. IsDisk(Persisted(DiskAfter(j, m.term), m.term, VoteAfter(j, m.term), lg))
            BY <1>1, <1>2, <3>1, PersistedType
        <3>6. /\ log' = [log EXCEPT ![j] = lg]
              /\ commitIndex' = [commitIndex EXCEPT ![j] = ci]
              /\ disk' = [disk EXCEPT ![j] =
                    Persisted(DiskAfter(j, m.term), m.term, VoteAfter(j, m.term), lg)]
              /\ applied' = [applied EXCEPT ![j] = ApplyEntries(applied[j], lg, ci)]
            BY <2>1 DEF AppendEntriesStep, lg, ci
        <3> QED
            BY <3>1, <3>2, <3>3, <3>4, <3>5, <3>6 DEF TypeInv, TypeOK, Progress
    <2>2. CASE ~Accepts(j, m)
        BY <1>2, <2>2 DEF AppendEntriesStep, TypeInv, TypeOK, Progress
    <2> QED
        BY <2>1, <2>2
<1>6. UNCHANGED <<nextIndex, matchIndex, votesReceived, votes, voters, elected>>
    BY DEF AppendEntriesStep
<1>7. applied' \in [Server -> Seq(Entry \cup {NoEntry})]
    BY <1>5
<1>8. TypeOK'
    BY <1>4, <1>5, <1>6, <1>7 DEF TypeInv, TypeOK
<1>9. Progress'
    BY <1>4, <1>5, <1>6 DEF TypeInv, Progress, NextIndexPositive
<1> QED
    BY <1>8, <1>9 DEF TypeInv

\* handleAppendEntries answers with a well-formed reply; prev_log_index - 1 does not wrap.
LEMMA AppendEntriesReplyType ==
    ASSUME TypeInv, NEW j \in Server, NEW m \in AppendEntriesMsg
    PROVE  AppendEntriesReply(j, m) \in Reply
<1>1. m.term \in Nat /\ m.prevLogIndex \in Nat
    BY DEF AppendEntriesMsg
<1>2. TermAfter(j, m.term) \in Nat /\ Accepts(j, m) \in BOOLEAN
    BY <1>1, BecomeFollowerType DEF Accepts
<1>3. log[j] \in Seq(Entry) /\ Len(log[j]) \in Nat /\ currentTerm[j] \in Nat
    BY DEF TypeInv, TypeOK
<1>4. MatchIndexReply(j, m) \in Nat
    <2>1. CASE m.term < currentTerm[j]
        BY <1>1, <1>3, <2>1 DEF MatchIndexReply, Accepts
    <2>2. CASE Accepts(j, m)
        <3>1. Len(MergeEntries(log[j], m.prevLogIndex, m.entries)) \in Nat
            BY <2>2, AcceptedLog
        <3> QED
            BY <1>1, <1>3, <2>2, <3>1 DEF MatchIndexReply, Accepts, Matches
    <2>3. CASE m.term >= currentTerm[j] /\ ~Accepts(j, m)
        BY <1>1, <1>3, <2>3 DEF MatchIndexReply, Accepts, Matches
    <2> QED
        BY <1>1, <1>3, <2>1, <2>2, <2>3
<1> QED
    BY <1>2, <1>4 DEF AppendEntriesReply, Reply, AppendEntriesResp

-----------------------------------------------------------------------------
(* TypeInv is inductive *)

\* The types hold when the nodes start on empty databases.
LEMMA InitTypeInv == Init => TypeInv
<1> SUFFICES ASSUME Init PROVE TypeInv
    OBVIOUS
<1>1. \A i \in Server : IsDisk(disk[i])
    BY EmptyDiskType DEF Init, IsDisk
<1>2. <<>> \in Seq(Entry) /\ <<>> \in Seq(Request) /\ <<>> \in Seq(Reply)
      /\ <<>> \in Seq(Entry \cup {NoEntry}) /\ Len(<<>>) = 0
    OBVIOUS
<1>3. DOMAIN disk = Server
    BY DEF Init
<1>4. TypeOK
    BY <1>1, <1>2, <1>3 DEF Init, TypeOK
<1>5. Progress
    BY <1>2 DEF Init, Progress, NextIndexPositive
<1> QED
    BY <1>4, <1>5 DEF TypeInv

\* becomeCandidate and startElection keep the types.
LEMMA TimeoutType ==
    ASSUME TypeInv, NEW i \in Server, Timeout(i)
    PROVE  TypeInv'
<1> DEFINE t == currentTerm[i] + 1
           m == [type |-> "REQUEST_VOTE", term |-> t, candidate |-> i,
                 lastLogIndex |-> LastIndex(log[i]), lastLogTerm |-> LastTerm(log[i])]
           msg == [j \in Server |-> m]
<1>1. t \in Nat /\ log[i] \in Seq(Entry) /\ LastIndex(log[i]) \in Nat
    BY DEF TypeInv, TypeOK, LastIndex
<1>2. LastTerm(log[i]) \in Nat
    BY <1>1, TermAtType DEF LastTerm
<1>3. m \in Request
    BY <1>1, <1>2 DEF Request, RequestVoteMsg
<1>4. Broadcast(i, msg)
    BY DEF Timeout
<1>5. msg \in [Server -> Request]
    BY <1>3
<1> HIDE DEF m, msg
<1>6. req' \in [Server -> [Server -> Seq(Request)]]
    BY <1>4, <1>5, BroadcastType
<1>7. IsDisk(Persisted(disk[i], t, i, log[i]))
    BY <1>1, PersistedType
<1>8. /\ currentTerm' = [currentTerm EXCEPT ![i] = t]
      /\ disk' = [disk EXCEPT ![i] = Persisted(disk[i], t, i, log[i])]
      /\ state' = [state EXCEPT ![i] = "CANDIDATE"]
      /\ votes' = votes \cup {<<i, t, i>>}
    BY DEF Timeout
<1> HIDE DEF t
<1>9. /\ currentTerm' \in [Server -> Nat]
      /\ DOMAIN disk' = Server /\ \A k \in Server : IsDisk(disk'[k])
    BY <1>1, <1>7, <1>8 DEF TypeInv, TypeOK
<1>10. votes' \subseteq Server \X Nat \X Server
    <2>1. <<i, t, i>> \in Server \X Nat \X Server
        BY <1>1
    <2> QED
        BY <1>8, <2>1 DEF TypeInv, TypeOK
<1>11. /\ votedFor' \in [Server -> Server \cup {Nil}]
       /\ state' \in [Server -> {"FOLLOWER", "CANDIDATE", "LEADER"}]
       /\ leaderId' \in [Server -> Server \cup {Nil}]
       /\ votesReceived' \in [Server -> Nat]
       /\ voters' \in [Server -> SUBSET Server]
       /\ \A k \in Server : state'[k] = "LEADER" => state[k] = "LEADER"
    BY DEF Timeout, TypeInv, TypeOK
<1>12. UNCHANGED <<log, commitIndex, applied, nextIndex, matchIndex, conn, resp,
                   orphans, crashes, breaks, elected>>
    BY DEF Timeout
<1>13. TypeOK'
    BY <1>6, <1>9, <1>10, <1>11, <1>12 DEF TypeInv, TypeOK
<1>14. Progress'
    BY <1>11, <1>12 DEF TypeInv, Progress, NextIndexPositive
<1> QED
    BY <1>13, <1>14 DEF TypeInv

\* tick of a leader keeps the types, and what it commits it has applied.
LEMMA LeaderTickType ==
    ASSUME TypeInv, NEW i \in Server, NEW due \in BOOLEAN, LeaderTick(i, due)
    PROVE  TypeInv'
<1> DEFINE ci == AdvanceCommitIndex(i)
<1>1. /\ log[i] \in Seq(Entry) /\ applied[i] \in Seq(Entry)
      /\ commitIndex[i] <= Len(applied[i])
      /\ nextIndex[i] \in [Server -> Nat] /\ \A j \in Server : nextIndex[i][j] >= 1
    BY DEF TypeInv, TypeOK, Progress, NextIndexPositive, LeaderTick
<1>2. req' \in [Server -> [Server -> Seq(Request)]]
    <2>1. CASE SendAppendEntries(i, log[i], nextIndex[i], TRUE)
        BY <1>1, <2>1, SendAppendEntriesType
    <2>2. CASE UNCHANGED req
        BY <2>2 DEF TypeInv, TypeOK
    <2> QED
        BY <2>1, <2>2 DEF LeaderTick
<1>3. ci \in Nat /\ (ci = commitIndex[i] \/ ci <= Len(log[i]))
    BY AdvanceCommitIndexType
<1>4. commitIndex' = [commitIndex EXCEPT ![i] = ci]
      /\ applied' = [applied EXCEPT ![i] = ApplyEntries(applied[i], log[i], ci)]
    BY DEF LeaderTick
<1> HIDE DEF ci
<1>5. /\ ApplyEntries(applied[i], log[i], ci) \in Seq(Entry)
      /\ ci <= Len(ApplyEntries(applied[i], log[i], ci))
    BY <1>1, <1>3, ApplyEntriesType
<1>6. /\ commitIndex' \in [Server -> Nat] /\ applied' \in [Server -> Seq(Entry)]
      /\ \A k \in Server : commitIndex'[k] <= Len(applied'[k])
    BY <1>3, <1>4, <1>5 DEF TypeInv, TypeOK, Progress
<1>7. applied' \in [Server -> Seq(Entry \cup {NoEntry})]
    BY <1>6
<1>8. UNCHANGED <<currentTerm, votedFor, log, state, leaderId, votesReceived,
                  nextIndex, matchIndex, disk, conn, resp, orphans, crashes,
                  breaks, votes, voters, elected>>
    BY DEF LeaderTick
<1>9. TypeOK'
    BY <1>2, <1>6, <1>7, <1>8 DEF TypeInv, TypeOK
<1>10. Progress'
    BY <1>6, <1>8 DEF TypeInv, Progress, NextIndexPositive
<1> QED
    BY <1>9, <1>10 DEF TypeInv

\* propose keeps the types.
LEMMA ProposeType ==
    ASSUME TypeInv, NEW i \in Server, NEW v \in Value, Propose(i, v)
    PROVE  TypeInv'
<1> DEFINE e  == NewEntry(log[i], currentTerm[i], v)
           lg == Append(log[i], e)
           ni == [nextIndex[i] EXCEPT ![i] = e.index + 1]
<1>1. log[i] \in Seq(Entry) /\ Len(log[i]) \in Nat /\ currentTerm[i] \in Nat
      /\ votedFor[i] \in Server \cup {Nil}
    BY DEF TypeInv, TypeOK
<1>2. e \in Entry /\ e.index \in Nat
    BY <1>1 DEF NewEntry, Entry
<1>3. /\ log' = [log EXCEPT ![i] = lg]
      /\ matchIndex' = [matchIndex EXCEPT ![i][i] = e.index]
      /\ nextIndex' = [nextIndex EXCEPT ![i] = ni]
      /\ disk' = [disk EXCEPT ![i] = Persisted(disk[i], currentTerm[i], votedFor[i], lg)]
      /\ SendAppendEntries(i, lg, ni, FALSE)
    BY DEF Propose
<1> HIDE DEF e
<1>4. lg \in Seq(Entry)
    BY <1>1, <1>2
<1>5. ni \in [Server -> Nat] /\ \A j \in Server : ni[j] >= 1
    BY <1>2, SMTT(30) DEF TypeInv, TypeOK, Progress, NextIndexPositive, Propose
<1> HIDE DEF lg, ni
<1>6. req' \in [Server -> [Server -> Seq(Request)]]
    BY <1>3, <1>4, <1>5, SendAppendEntriesType
<1>7. IsDisk(Persisted(disk[i], currentTerm[i], votedFor[i], lg))
    BY <1>1, <1>4, PersistedType
<1>8. /\ log' \in [Server -> Seq(Entry)]
      /\ matchIndex' \in [Server -> [Server -> Nat]]
      /\ nextIndex' \in [Server -> [Server -> Nat]]
      /\ DOMAIN disk' = Server /\ \A k \in Server : IsDisk(disk'[k])
      /\ \A k, j \in Server : state[k] = "LEADER" => nextIndex'[k][j] >= 1
    BY <1>2, <1>3, <1>4, <1>5, <1>7 DEF TypeInv, TypeOK, Progress, NextIndexPositive
<1>9. UNCHANGED <<currentTerm, votedFor, state, commitIndex, applied, leaderId,
                  votesReceived, conn, resp, orphans, crashes, breaks, votes,
                  voters, elected>>
    BY DEF Propose
<1>10. TypeOK'
    BY <1>6, <1>8, <1>9 DEF TypeInv, TypeOK
<1>11. Progress'
    BY <1>8, <1>9 DEF TypeInv, Progress, NextIndexPositive
<1> QED
    BY <1>10, <1>11 DEF TypeInv

\* Handling a request that came over a connection keeps the types.
LEMMA HandleRequestType ==
    ASSUME TypeInv, NEW i \in Server, NEW j \in Server,
           HandleRequestVote(i, j) \/ HandleAppendEntries(i, j)
    PROVE  TypeInv'
<1> DEFINE m == Head(req[i][j])
<1>1. req[i][j] \in Seq(Request) /\ req[i][j] # <<>>
    BY DEF TypeInv, TypeOK, HandleRequestVote, HandleAppendEntries
<1>2. m \in Request /\ Tail(req[i][j]) \in Seq(Request)
    BY <1>1
<1>3. UNCHANGED <<conn, orphans, crashes, breaks>>
      /\ req' = [req EXCEPT ![i][j] = Tail(req[i][j])]
    BY DEF HandleRequestVote, HandleAppendEntries, ReplyOn, boundVars
<1>4. /\ conn' \in [Server -> [Server -> {"connecting", "connected", "closed"}]]
      /\ req' \in [Server -> [Server -> Seq(Request)]]
      /\ orphans' \subseteq [to : Server, msg : Request]
      /\ crashes' \in Nat /\ breaks' \in Nat
    BY <1>2, <1>3 DEF TypeInv, TypeOK
<1>5. ASSUME NEW r \in Reply, resp' = [resp EXCEPT ![i][j] = Append(resp[i][j], r)]
      PROVE  resp' \in [Server -> [Server -> Seq(Reply)]]
    <2>1. resp \in [Server -> [Server -> Seq(Reply)]]
        BY DEF TypeInv, TypeOK
    <2>2. Append(resp[i][j], r) \in Seq(Reply)
        BY <2>1
    <2> QED
        BY <1>5, <2>1, <2>2
<1>6. CASE HandleRequestVote(i, j)
    <2>1. m \in RequestVoteMsg /\ RequestVoteStep(j, m)
        BY <1>2, <1>6, RequestKinds DEF HandleRequestVote
    <2>2. resp' \in [Server -> [Server -> Seq(Reply)]]
        BY <1>5, <1>6, <2>1, RequestVoteReplyType DEF HandleRequestVote, ReplyOn
    <2> QED
        BY <1>4, <2>1, <2>2, RequestVoteStepType
<1>7. CASE HandleAppendEntries(i, j)
    <2>1. m \in AppendEntriesMsg /\ AppendEntriesStep(j, m)
        BY <1>2, <1>7, RequestKinds DEF HandleAppendEntries
    <2>2. resp' \in [Server -> [Server -> Seq(Reply)]]
        BY <1>5, <1>7, <2>1, AppendEntriesReplyType DEF HandleAppendEntries, ReplyOn
    <2> QED
        BY <1>4, <2>1, <2>2, AppendEntriesStepType
<1> QED
    BY <1>6, <1>7

\* Handling a request of a connection that is gone keeps the types.
LEMMA HandleOrphanType ==
    ASSUME TypeInv, NEW o \in orphans, HandleOrphan(o)
    PROVE  TypeInv'
<1>1. o.to \in Server /\ o.msg \in Request
    BY DEF TypeInv, TypeOK
<1>2. /\ conn' \in [Server -> [Server -> {"connecting", "connected", "closed"}]]
      /\ req' \in [Server -> [Server -> Seq(Request)]]
      /\ resp' \in [Server -> [Server -> Seq(Reply)]]
      /\ orphans' \subseteq [to : Server, msg : Request]
      /\ crashes' \in Nat /\ breaks' \in Nat
    BY DEF TypeInv, TypeOK, HandleOrphan
<1>3. CASE o.msg.type = "REQUEST_VOTE" /\ RequestVoteStep(o.to, o.msg)
    BY <1>1, <1>2, <1>3, RequestKinds, RequestVoteStepType
<1>4. CASE o.msg.type = "APPEND_ENTRIES" /\ AppendEntriesStep(o.to, o.msg)
    BY <1>1, <1>2, <1>4, RequestKinds, AppendEntriesStepType
<1> QED
    BY <1>3, <1>4 DEF HandleOrphan

\* processRequestVoteResponse, becomeLeader included, keeps the types.
LEMMA ProcessRequestVoteResponseType ==
    ASSUME TypeInv, NEW i \in Server, NEW j \in Server, ProcessRequestVoteResponse(i, j)
    PROVE  TypeInv'
<1> DEFINE m == Head(resp[i][j])
<1>1. resp[i][j] \in Seq(Reply) /\ resp[i][j] # <<>>
    BY DEF TypeInv, TypeOK, ProcessRequestVoteResponse
<1>2. m \in Reply /\ Tail(resp[i][j]) \in Seq(Reply)
    BY <1>1
<1>3. m \in RequestVoteResp /\ m.term \in Nat
    BY <1>2, ReplyKinds DEF ProcessRequestVoteResponse
<1>4. /\ resp' \in [Server -> [Server -> Seq(Reply)]]
      /\ UNCHANGED <<log, commitIndex, applied, conn, orphans, crashes, breaks, votes>>
    BY <1>2 DEF TypeInv, TypeOK, ProcessRequestVoteResponse, ConsumeReply
<1>5. CASE /\ StepsDown(i, m.term)
           /\ BecomeFollower(i, m.term)
           /\ votedFor' = [votedFor EXCEPT ![i] = Nil]
           /\ disk' = [disk EXCEPT ![i] = DiskAfter(i, m.term)]
           /\ UNCHANGED <<leaderId, votesReceived, nextIndex, matchIndex, req, voters, elected>>
    <2>1. TermAfter(i, m.term) \in Nat /\ IsDisk(DiskAfter(i, m.term))
        BY <1>3, BecomeFollowerType
    <2>2. /\ currentTerm' \in [Server -> Nat]
          /\ state' \in [Server -> {"FOLLOWER", "CANDIDATE", "LEADER"}]
          /\ \A k \in Server : state'[k] = "LEADER" => state[k] = "LEADER"
          /\ votedFor' \in [Server -> Server \cup {Nil}]
          /\ DOMAIN disk' = Server /\ \A k \in Server : IsDisk(disk'[k])
        BY <1>5, <2>1 DEF TypeInv, TypeOK, BecomeFollower
    <2>3. TypeOK'
        BY <1>4, <1>5, <2>2 DEF TypeInv, TypeOK
    <2>4. Progress'
        BY <1>4, <1>5, <2>2 DEF TypeInv, Progress, NextIndexPositive
    <2> QED
        BY <2>3, <2>4 DEF TypeInv
<1>6. CASE /\ CountsVote(i, m)
           /\ votesReceived' = [votesReceived EXCEPT ![i] = VotesAfter(i, m)]
           /\ voters' = [voters EXCEPT ![i] = IF m.granted THEN @ \cup {j} ELSE @]
           /\ \/ BecomeLeader(i)
              \/ UNCHANGED <<state, leaderId, nextIndex, matchIndex, req, elected>>
           /\ UNCHANGED <<currentTerm, votedFor, disk>>
    <2>1. VotesAfter(i, m) \in Nat
        <3>1. votesReceived[i] \in Nat
            BY DEF TypeInv, TypeOK
        <3> QED
            BY <3>1 DEF VotesAfter
    <2>2. votesReceived' \in [Server -> Nat] /\ voters' \in [Server -> SUBSET Server]
        <3>1. votesReceived \in [Server -> Nat] /\ voters \in [Server -> SUBSET Server]
            BY DEF TypeInv, TypeOK
        <3>2. votesReceived' \in [Server -> Nat]
            BY <1>6, <2>1, <3>1
        <3>3. voters' = voters \/ voters' = [voters EXCEPT ![i] = @ \cup {j}]
            BY <1>6, <3>1
        <3>4. voters' \in [Server -> SUBSET Server]
            BY <3>1, <3>3
        <3> QED
            BY <3>2, <3>4
    <2>3. CASE UNCHANGED <<state, leaderId, nextIndex, matchIndex, req, elected>>
        <3>1. TypeOK'
            BY <1>4, <1>6, <2>2, <2>3 DEF TypeInv, TypeOK
        <3>2. Progress'
            BY <1>4, <2>3 DEF TypeInv, Progress, NextIndexPositive
        <3> QED
            BY <3>1, <3>2 DEF TypeInv
    <2>4. CASE BecomeLeader(i)
        <3> DEFINE ni == [k \in Server |-> LastIndex(log[i]) + 1]
                   mi == [k \in Server |-> IF k = i THEN LastIndex(log[i]) ELSE 0]
        <3>1. log[i] \in Seq(Entry) /\ LastIndex(log[i]) \in Nat /\ currentTerm[i] \in Nat
            BY DEF TypeInv, TypeOK, LastIndex
        <3>2. ni \in [Server -> Nat] /\ (\A k \in Server : ni[k] >= 1)
              /\ mi \in [Server -> Nat]
            BY <3>1
        <3>3. /\ state' = [state EXCEPT ![i] = "LEADER"]
              /\ leaderId' = [leaderId EXCEPT ![i] = i]
              /\ nextIndex' = [nextIndex EXCEPT ![i] = ni]
              /\ matchIndex' = [matchIndex EXCEPT ![i] = mi]
              /\ SendAppendEntries(i, log[i], ni, TRUE)
              /\ elected' = elected \cup {<<currentTerm[i], i>>}
            BY <2>4 DEF BecomeLeader
        <3> HIDE DEF ni, mi
        <3>4. req' \in [Server -> [Server -> Seq(Request)]]
            BY <3>1, <3>2, <3>3, SendAppendEntriesType
        <3>5. elected' \subseteq Nat \X Server
            <4>1. <<currentTerm[i], i>> \in Nat \X Server
                BY <3>1
            <4> QED
                BY <3>3, <4>1 DEF TypeInv, TypeOK
        <3>6. /\ state' \in [Server -> {"FOLLOWER", "CANDIDATE", "LEADER"}]
              /\ leaderId' \in [Server -> Server \cup {Nil}]
              /\ nextIndex' \in [Server -> [Server -> Nat]]
              /\ matchIndex' \in [Server -> [Server -> Nat]]
            BY <3>2, <3>3 DEF TypeInv, TypeOK
        <3>7. NextIndexPositive'
            BY <3>2, <3>3 DEF TypeInv, TypeOK, Progress, NextIndexPositive
        <3>8. TypeOK'
            BY <1>4, <1>6, <2>2, <3>4, <3>5, <3>6 DEF TypeInv, TypeOK
        <3>9. Progress'
            BY <1>4, <3>7 DEF TypeInv, Progress
        <3> QED
            BY <3>8, <3>9 DEF TypeInv
    <2> QED
        BY <1>6, <2>3, <2>4
<1>7. CASE UNCHANGED <<currentTerm, votedFor, state, disk, leaderId, votesReceived,
                       nextIndex, matchIndex, req, voters, elected>>
    <2>1. TypeOK'
        BY <1>4, <1>7 DEF TypeInv, TypeOK
    <2>2. Progress'
        BY <1>4, <1>7 DEF TypeInv, Progress, NextIndexPositive
    <2> QED
        BY <2>1, <2>2 DEF TypeInv
<1> QED
    BY <1>5, <1>6, <1>7 DEF ProcessRequestVoteResponse

\* processAppendEntriesResponse keeps the types; nextIndex_ stays above 0.
LEMMA ProcessAppendEntriesResponseType ==
    ASSUME TypeInv, NEW i \in Server, NEW j \in Server, ProcessAppendEntriesResponse(i, j)
    PROVE  TypeInv'
<1> DEFINE m == Head(resp[i][j])
<1>1. resp[i][j] \in Seq(Reply) /\ resp[i][j] # <<>>
    BY DEF TypeInv, TypeOK, ProcessAppendEntriesResponse
<1>2. m \in Reply /\ Tail(resp[i][j]) \in Seq(Reply)
    BY <1>1
<1>3. m \in AppendEntriesResp /\ m.matchIndex \in Nat
    BY <1>2, ReplyKinds DEF ProcessAppendEntriesResponse, AppendEntriesResp
<1>4. /\ resp' \in [Server -> [Server -> Seq(Reply)]]
      /\ UNCHANGED <<currentTerm, votedFor, log, state, commitIndex, applied, leaderId,
                     votesReceived, disk, conn, orphans, crashes, breaks, votes,
                     voters, elected>>
    BY <1>2 DEF TypeInv, TypeOK, ProcessAppendEntriesResponse, ConsumeReply
<1>5. /\ req' \in [Server -> [Server -> Seq(Request)]]
      /\ nextIndex' \in [Server -> [Server -> Nat]]
      /\ matchIndex' \in [Server -> [Server -> Nat]]
      /\ \A k, l \in Server : state[k] = "LEADER" => nextIndex'[k][l] >= 1
    <2>0. /\ req \in [Server -> [Server -> Seq(Request)]]
          /\ nextIndex \in [Server -> [Server -> Nat]]
          /\ matchIndex \in [Server -> [Server -> Nat]]
          /\ \A k, l \in Server : state[k] = "LEADER" => nextIndex[k][l] >= 1
        BY DEF TypeInv, TypeOK, Progress, NextIndexPositive
    <2>1. CASE /\ matchIndex' = [matchIndex EXCEPT ![i][j] = m.matchIndex]
               /\ nextIndex' = [nextIndex EXCEPT ![i][j] = m.matchIndex + 1]
               /\ UNCHANGED req
        <3>1. m.matchIndex + 1 \in Nat /\ m.matchIndex + 1 >= 1
            BY <1>3
        <3> HIDE DEF m
        <3> QED
            BY <1>3, <2>0, <2>1, <3>1
    <2>2. CASE /\ state[i] = "LEADER"
               /\ LET ni == [nextIndex[i] EXCEPT ![j] = BackUp(@)] IN
                  /\ nextIndex' = [nextIndex EXCEPT ![i] = ni]
                  /\ SendAppendEntries(i, log[i], ni, FALSE)
               /\ UNCHANGED matchIndex
        <3> DEFINE n == BackUp(nextIndex[i][j])
                   ni == [nextIndex[i] EXCEPT ![j] = n]
        <3>1. n \in Nat /\ n >= 1
            BY <2>0, <2>2 DEF BackUp
        <3>2. nextIndex' = [nextIndex EXCEPT ![i] = ni] /\ SendAppendEntries(i, log[i], ni, FALSE)
            BY <2>2
        <3> HIDE DEF n
        <3>3. ni \in [Server -> Nat] /\ \A l \in Server : ni[l] >= 1
            BY <2>0, <2>2, <3>1
        <3> HIDE DEF ni
        <3>4. log[i] \in Seq(Entry)
            BY DEF TypeInv, TypeOK
        <3>5. req' \in [Server -> [Server -> Seq(Request)]]
            BY <3>2, <3>3, <3>4, SendAppendEntriesType
        <3> QED
            BY <2>0, <2>2, <3>2, <3>3, <3>5
    <2>3. CASE UNCHANGED <<nextIndex, matchIndex, req>>
        BY <2>0, <2>3
    <2> QED
        BY <2>1, <2>2, <2>3 DEF ProcessAppendEntriesResponse
<1>6. TypeOK'
    BY <1>4, <1>5 DEF TypeInv, TypeOK
<1>7. Progress'
    BY <1>4, <1>5 DEF TypeInv, Progress, NextIndexPositive
<1> QED
    BY <1>6, <1>7 DEF TypeInv

\* Connections that come up or break keep the types.
LEMMA ConnectionType ==
    ASSUME TypeInv, NEW i \in Server, NEW j \in Server, Connect(i, j) \/ Break(i, j)
    PROVE  TypeInv'
<1>1. UNCHANGED <<currentTerm, votedFor, log, state, commitIndex, applied, leaderId,
                  votesReceived, nextIndex, matchIndex, disk, resp, crashes, votes,
                  voters, elected>>
    BY DEF Connect, Break
<1>2. conn' \in [Server -> [Server -> {"connecting", "connected", "closed"}]]
    <2>1. conn \in [Server -> [Server -> {"connecting", "connected", "closed"}]]
        BY DEF TypeInv, TypeOK
    <2>2. CASE conn' = [conn EXCEPT ![i][j] = "connected"]
        BY <2>1, <2>2
    <2>3. CASE conn' = [conn EXCEPT ![i][j] = "closed"]
        BY <2>1, <2>3
    <2> QED
        BY <2>2, <2>3 DEF Connect, Break
<1>3. /\ req' \in [Server -> [Server -> Seq(Request)]]
      /\ orphans' \subseteq [to : Server, msg : Request]
      /\ breaks' \in Nat
    <2>1. CASE Connect(i, j)
        BY <2>1 DEF Connect, TypeInv, TypeOK
    <2>2. CASE Break(i, j)
        <3>1. req[i][j] \in Seq(Request) /\ <<>> \in Seq(Request)
            BY DEF TypeInv, TypeOK
        <3>2. Orphaned(i, j) \subseteq [to : Server, msg : Request]
            BY <3>1 DEF Orphaned
        <3>3. /\ req' = [req EXCEPT ![i][j] = <<>>] /\ breaks' = breaks + 1
              /\ orphans' = orphans \cup Orphaned(i, j)
            BY <2>2 DEF Break
        <3>4. req' \in [Server -> [Server -> Seq(Request)]]
            BY <3>1, <3>3 DEF TypeInv, TypeOK
        <3>5. orphans \subseteq [to : Server, msg : Request] /\ breaks \in Nat
            BY DEF TypeInv, TypeOK
        <3>6. orphans' \subseteq [to : Server, msg : Request]
            BY <3>2, <3>3, <3>5
        <3> QED
            BY <3>3, <3>4, <3>5, <3>6
    <2> QED
        BY <2>1, <2>2
<1>4. TypeOK'
    BY <1>1, <1>2, <1>3 DEF TypeInv, TypeOK
<1>5. Progress'
    BY <1>1 DEF TypeInv, Progress, NextIndexPositive
<1> QED
    BY <1>4, <1>5 DEF TypeInv

\* A restart from any well-typed disk keeps the types.
LEMMA RestartType ==
    ASSUME TypeInv, NEW i \in Server, NEW d, IsDisk(d), Restart(i, d)
    PROVE  TypeInv'
<1>1. PICK lg \in Recovered(d.log) : log' = [log EXCEPT ![i] = lg]
    BY DEF Restart
<1>2. lg \in Seq(Entry)
    BY RecoveredType DEF IsDisk
<1>3. <<>> \in Seq(Entry) /\ <<>> \in Seq(Request) /\ <<>> \in Seq(Reply)
      /\ <<>> \in Seq(Entry \cup {NoEntry}) /\ Len(<<>>) = 0
    OBVIOUS
<1>4. d.term \in Nat /\ d.vote \in Server \cup {Nil}
    BY DEF IsDisk
<1>5. /\ log' \in [Server -> Seq(Entry)]
      /\ currentTerm' \in [Server -> Nat]
      /\ votedFor' \in [Server -> Server \cup {Nil}]
      /\ DOMAIN disk' = Server /\ \A k \in Server : IsDisk(disk'[k])
    BY <1>1, <1>2, <1>4 DEF Restart, TypeInv, TypeOK
<1>6. /\ state' \in [Server -> {"FOLLOWER", "CANDIDATE", "LEADER"}]
      /\ commitIndex' \in [Server -> Nat]
      /\ leaderId' \in [Server -> Server \cup {Nil}]
      /\ votesReceived' \in [Server -> Nat]
      /\ voters' \in [Server -> SUBSET Server]
      /\ crashes' \in Nat
      /\ UNCHANGED <<breaks, votes, elected>>
    BY DEF Restart, TypeInv, TypeOK
<1>7. /\ applied' \in [Server -> Seq(Entry)]
      /\ applied' \in [Server -> Seq(Entry \cup {NoEntry})]
      /\ \A k \in Server : commitIndex'[k] <= Len(applied'[k])
    <2>1. applied' = [applied EXCEPT ![i] = <<>>] /\ commitIndex' = [commitIndex EXCEPT ![i] = 0]
        BY DEF Restart
    <2>2. applied \in [Server -> Seq(Entry)] /\ \A k \in Server : commitIndex[k] <= Len(applied[k])
        BY DEF TypeInv, Progress
    <2>3. applied' \in [Server -> Seq(Entry)]
        BY <1>3, <2>1, <2>2
    <2>4. applied' \in [Server -> Seq(Entry \cup {NoEntry})]
        BY <2>3
    <2>5. commitIndex'[i] = 0 /\ Len(applied'[i]) = 0
        BY <1>3, <2>1, <2>2 DEF TypeInv, TypeOK
    <2>6. \A k \in Server : k # i => commitIndex'[k] = commitIndex[k] /\ applied'[k] = applied[k]
        BY <2>1, <2>2 DEF TypeInv, TypeOK
    <2>7. ASSUME NEW k \in Server PROVE commitIndex'[k] <= Len(applied'[k])
        <3>1. CASE k = i
            BY <2>5, <3>1
        <3>2. CASE k # i
            BY <2>2, <2>6, <3>2
        <3> QED
            BY <3>1, <3>2
    <2> QED
        BY <2>3, <2>4, <2>7
<1>8. /\ nextIndex' \in [Server -> [Server -> Nat]]
      /\ matchIndex' \in [Server -> [Server -> Nat]]
      /\ NextIndexPositive'
    BY DEF Restart, TypeInv, TypeOK, Progress, NextIndexPositive
<1>9. conn' \in [Server -> [Server -> {"connecting", "connected", "closed"}]]
    BY DEF Restart, TypeInv, TypeOK
<1>10. req' \in [Server -> [Server -> Seq(Request)]]
       /\ resp' \in [Server -> [Server -> Seq(Reply)]]
    BY <1>3 DEF Restart, TypeInv, TypeOK
<1>11. orphans' \subseteq [to : Server, msg : Request]
    <2>1. ASSUME NEW j \in Server
          PROVE  Orphaned(i, j) \subseteq [to : Server, msg : Request]
        <3>1. req[i][j] \in Seq(Request)
            BY DEF TypeInv, TypeOK
        <3> QED
            BY <3>1 DEF Orphaned
    <2> QED
        BY <2>1 DEF Restart, TypeInv, TypeOK
<1>12. TypeOK'
    BY <1>5, <1>6, <1>7, <1>8, <1>9, <1>10, <1>11 DEF TypeInv, TypeOK
<1>13. Progress'
    BY <1>7, <1>8 DEF Progress
<1> QED
    BY <1>12, <1>13 DEF TypeInv

-----------------------------------------------------------------------------
(* The inductive invariant behind election safety *)

IsVote(m)  == m.type = "REQUEST_VOTE"
IsGrant(m) == m.type = "REQUEST_VOTE_RESP" /\ m.granted

\* Between two handlers the disk holds the term and the vote of the node
MemoryOnDisk == \A i \in Server : currentTerm[i] = disk[i].term /\ votedFor[i] = disk[i].vote

\* A node votes for one candidate per term
OneVotePerTerm == \A a, b \in votes : a[1] = b[1] /\ a[2] = b[2] => a[3] = b[3]

\* A vote request on i's connection asks for i, in a term i has reached, and there is
\* one per term and peer
RequestsOwn(i, j) ==
    \A k \in DOMAIN req[i][j] : IsVote(req[i][j][k]) =>
        /\ j # i
        /\ req[i][j][k].candidate = i
        /\ req[i][j][k].term <= currentTerm[i]
RequestsOnce(i, j) ==
    \A k, l \in DOMAIN req[i][j] :
        IsVote(req[i][j][k]) /\ IsVote(req[i][j][l])
            /\ req[i][j][k].term = req[i][j][l].term => k = l

\* A granted vote on its way back has been recorded, and there is one per term
GrantsRecorded(i, j) ==
    \A k \in DOMAIN resp[i][j] : IsGrant(resp[i][j][k]) =>
        /\ <<j, resp[i][j][k].term, i>> \in votes
        /\ resp[i][j][k].term <= currentTerm[i]
GrantsOnce(i, j) ==
    \A k, l \in DOMAIN resp[i][j] :
        IsGrant(resp[i][j][k]) /\ IsGrant(resp[i][j][l])
            /\ resp[i][j][k].term = resp[i][j][l].term => k = l

\* A vote is not both still asked for and already granted
GrantEndsRequest(i, j) ==
    \A k \in DOMAIN req[i][j], l \in DOMAIN resp[i][j] :
        IsVote(req[i][j][k]) /\ IsGrant(resp[i][j][l])
            => req[i][j][k].term # resp[i][j][l].term

\* A vote that has been counted is neither asked for nor on its way any more
CountEndsRequest(i, j) ==
    state[i] = "CANDIDATE" /\ j \in voters[i] =>
        \A k \in DOMAIN req[i][j] : IsVote(req[i][j][k]) => req[i][j][k].term # currentTerm[i]
CountEndsGrant(i, j) ==
    state[i] = "CANDIDATE" /\ j \in voters[i] =>
        \A k \in DOMAIN resp[i][j] : IsGrant(resp[i][j][k]) => resp[i][j][k].term # currentTerm[i]

Link(i, j) == /\ RequestsOwn(i, j) /\ RequestsOnce(i, j)
              /\ GrantsRecorded(i, j) /\ GrantsOnce(i, j)
              /\ GrantEndsRequest(i, j) /\ CountEndsRequest(i, j) /\ CountEndsGrant(i, j)

\* Every election was won with the votes of a majority
ElectedByMajority ==
    \A e \in elected : \E Q \in SUBSET Server :
        Cardinality(Q) > Half /\ \A q \in Q : <<q, e[1], e[2]>> \in votes

VoteInv == VotesDurable /\ OneVotePerTerm /\ MemoryOnDisk
NetInv  == \A i, j \in Server : Link(i, j)
IInv    == TypeInv /\ VoteInv /\ NetInv /\ VotesCountedOnce /\ ElectedByMajority

-----------------------------------------------------------------------------
(* Votes on disk *)

\* d may replace the disk of node j: no recorded vote of j is forgotten
SafeDisk(j, d) ==
    /\ IsDisk(d)
    /\ d.term >= disk[j].term
    /\ d.term = disk[j].term =>
          \A b \in votes : b[1] = j /\ b[2] = d.term => b[3] = d.vote

\* What a node has in memory of its term and vote is well typed and on its disk.
LEMMA DiskTypes ==
    ASSUME TypeInv, VoteInv, NEW j \in Server
    PROVE  /\ IsDisk(disk[j]) /\ disk[j].term \in Nat /\ disk[j].vote \in Server \cup {Nil}
           /\ currentTerm[j] = disk[j].term /\ votedFor[j] = disk[j].vote
           /\ \A b \in votes : b[1] \in Server /\ b[2] \in Nat /\ b[3] \in Server
           /\ SafeDisk(j, disk[j])
<1>1. IsDisk(disk[j])
    BY DEF TypeInv, TypeOK
<1>2. disk[j].term \in Nat /\ disk[j].vote \in Server \cup {Nil}
    BY <1>1 DEF IsDisk
<1>3. currentTerm[j] = disk[j].term /\ votedFor[j] = disk[j].vote
    BY DEF VoteInv, MemoryOnDisk
<1>4. ASSUME NEW b \in votes PROVE b[1] \in Server /\ b[2] \in Nat /\ b[3] \in Server
    <2>1. b \in Server \X Nat \X Server
        BY DEF TypeInv, TypeOK
    <2> QED
        BY <2>1
<1>5. ASSUME NEW b \in votes, b[1] = j, b[2] = disk[j].term PROVE b[3] = disk[j].vote
    BY <1>2, <1>5 DEF VoteInv, VotesDurable
<1>6. SafeDisk(j, disk[j])
    BY <1>1, <1>2, <1>5 DEF SafeDisk
<1> QED
    BY <1>1, <1>2, <1>3, <1>4, <1>6

(* A step that puts a safe disk under node j, with its term and vote in     *)
(* memory, and records at most that vote, keeps the votes consistent.       *)
LEMMA VoteStep ==
    ASSUME TypeInv, VoteInv, NEW j \in Server, NEW d, SafeDisk(j, d),
           disk' = [disk EXCEPT ![j] = d],
           currentTerm' = [currentTerm EXCEPT ![j] = d.term],
           votedFor' = [votedFor EXCEPT ![j] = d.vote],
           votes' = votes \/ (d.vote \in Server /\ votes' = votes \cup {<<j, d.term, d.vote>>})
    PROVE  VoteInv' /\ \A i \in Server : currentTerm[i] <= currentTerm'[i]
<1>1. \A i \in Server : /\ currentTerm[i] \in Nat /\ currentTerm[i] = disk[i].term
                        /\ votedFor[i] = disk[i].vote
    BY DEF TypeInv, TypeOK, VoteInv, MemoryOnDisk
<1>2. d.term \in Nat /\ d.term >= disk[j].term
    BY DEF SafeDisk, IsDisk
<1>3. DOMAIN disk = Server /\ DOMAIN currentTerm = Server /\ DOMAIN votedFor = Server
    BY DEF TypeInv, TypeOK
<1>4. disk'[j] = d /\ \A i \in Server \ {j} : disk'[i] = disk[i]
    BY <1>3
<1>5. MemoryOnDisk' /\ \A i \in Server : currentTerm[i] <= currentTerm'[i]
    BY <1>1, <1>2, <1>3, <1>4 DEF MemoryOnDisk
<1>6. ASSUME NEW b \in votes
      PROVE  /\ b[1] \in Server /\ b[2] \in Nat
             /\ disk'[b[1]].term > b[2] \/ (disk'[b[1]].term = b[2] /\ disk'[b[1]].vote = b[3])
    <2>1. /\ b[1] \in Server /\ b[2] \in Nat
          /\ disk[b[1]].term > b[2] \/ (disk[b[1]].term = b[2] /\ disk[b[1]].vote = b[3])
        BY DEF TypeInv, TypeOK, VoteInv, VotesDurable
    <2>2. CASE b[1] # j
        BY <1>4, <2>1, <2>2
    <2>3. CASE b[1] = j
        <3>1. disk[j].term \in Nat
            BY <1>1
        <3> QED
            BY <1>2, <1>4, <2>1, <2>3, <3>1 DEF SafeDisk
    <2> QED
        BY <2>2, <2>3
<1>7. VotesDurable'
    BY <1>4, <1>6 DEF VotesDurable
<1>8. OneVotePerTerm'
    <2>1. CASE votes' = votes
        BY <2>1 DEF OneVotePerTerm, VoteInv
    <2>2. CASE votes' = votes \cup {<<j, d.term, d.vote>>}
        <3>1. ASSUME NEW b \in votes, b[1] = j, b[2] = d.term PROVE b[3] = d.vote
            BY <1>2, <1>4, <1>6, <3>1
        <3> QED
            BY <2>2, <3>1 DEF OneVotePerTerm, VoteInv
    <2> QED
        BY <2>1, <2>2
<1> QED
    BY <1>5, <1>7, <1>8 DEF VoteInv

(* becomeFollower(t) and a vote granted by handleRequestVote are safe.      *)
LEMMA StepDownSafe ==
    ASSUME TypeInv, VoteInv, NEW j \in Server, NEW t \in Nat
    PROVE  /\ SafeDisk(j, DiskAfter(j, t))
           /\ DiskAfter(j, t).term = TermAfter(j, t)
           /\ DiskAfter(j, t).vote = VoteAfter(j, t)
<1>1. IsDisk(DiskAfter(j, t))
    BY BecomeFollowerType
<1>2. CASE StepsDown(j, t)
    BY <1>1, <1>2, DiskTypes
       DEF SafeDisk, DiskAfter, StepsDown, Persisted, TermAfter, VoteAfter, Max2
<1>3. CASE ~StepsDown(j, t)
    BY <1>1, <1>3, DiskTypes DEF SafeDisk, DiskAfter, StepsDown, TermAfter, VoteAfter, Max2
<1> QED
    BY <1>2, <1>3

\* A disk that records the vote handleRequestVote grants is safe.
LEMMA GrantSafe ==
    ASSUME TypeInv, VoteInv, NEW j \in Server, NEW m \in RequestVoteMsg, Grants(j, m),
           NEW d, IsDisk(d), d.term = m.term, d.vote = m.candidate
    PROVE  SafeDisk(j, d)
<1>1. m.term \in Nat /\ m.candidate \in Server
    BY DEF RequestVoteMsg
<1>2. m.term >= disk[j].term /\ disk[j].term \in Nat
    BY DiskTypes DEF Grants
<1>3. ASSUME m.term = disk[j].term, NEW b \in votes, b[1] = j, b[2] = m.term
      PROVE  b[3] = m.candidate
    <2>1. disk[j].vote = b[3] /\ b[3] \in Server
        BY <1>2, <1>3, DiskTypes DEF VoteInv, VotesDurable
    <2>2. VoteAfter(j, m.term) = b[3]
        BY <1>1, <1>3, <2>1, DiskTypes DEF VoteAfter, StepsDown
    <2> QED
        BY <2>1, <2>2, ServerAssumption DEF Grants
<1> QED
    BY <1>1, <1>2, <1>3 DEF SafeDisk

(* Every disk a crash can leave in the middle of a handler is safe.         *)
LEMMA TornSafe ==
    ASSUME TypeInv, VoteInv, NEW j \in Server, NEW t \in Nat, t > currentTerm[j],
           NEW v \in Server \cup {Nil}, NEW d \in TornPersist(disk[j], t, v)
    PROVE  SafeDisk(j, d)
    BY DiskTypes DEF TornPersist, SafeDisk, IsDisk

-----------------------------------------------------------------------------
(* Votes in flight *)

\* A step leaves the votes asked for on a link alone, up to dropping some of the first
\* or all of them; the same for the votes granted
KeepsRequests(a, b) ==
    \E n \in Nat : \A k \in DOMAIN req'[a][b] : IsVote(req'[a][b][k]) =>
        k + n \in DOMAIN req[a][b] /\ req'[a][b][k] = req[a][b][k + n]
KeepsGrants(a, b) ==
    \E n \in Nat : \A k \in DOMAIN resp'[a][b] : IsGrant(resp'[a][b][k]) =>
        k + n \in DOMAIN resp[a][b] /\ resp'[a][b][k] = resp[a][b][k + n]

\* A step does not start or advance the candidacy of node a
KeepsCandidate(a) ==
    state'[a] # "FOLLOWER" =>
        /\ state'[a] = state[a] /\ currentTerm'[a] = currentTerm[a]
        /\ voters'[a] = voters[a] /\ votesReceived'[a] = votesReceived[a]

\* The types of what is on one connection and of the candidacy behind it.
LEMMA LinkTypes ==
    ASSUME TypeInv, NEW a \in Server, NEW b \in Server
    PROVE  /\ req[a][b] \in Seq(Request) /\ resp[a][b] \in Seq(Reply)
           /\ currentTerm[a] \in Nat /\ voters[a] \subseteq Server /\ votesReceived[a] \in Nat
           /\ \A k \in DOMAIN req[a][b] :
                 k \in Nat /\ req[a][b][k] \in Request /\ req[a][b][k].term \in Nat
           /\ \A k \in DOMAIN resp[a][b] :
                 k \in Nat /\ resp[a][b][k] \in Reply /\ resp[a][b][k].term \in Nat
<1>1. /\ req[a][b] \in Seq(Request) /\ resp[a][b] \in Seq(Reply)
      /\ currentTerm[a] \in Nat /\ voters[a] \subseteq Server /\ votesReceived[a] \in Nat
    BY DEF TypeInv, TypeOK
<1>2. \A m \in Request : m.term \in Nat
    BY DEF Request, RequestVoteMsg, AppendEntriesMsg
<1>3. \A m \in Reply : m.term \in Nat
    BY DEF Reply, RequestVoteResp, AppendEntriesResp
<1>4. \A k \in DOMAIN req[a][b] : k \in Nat /\ req[a][b][k] \in Request
    BY <1>1
<1>5. \A k \in DOMAIN resp[a][b] : k \in Nat /\ resp[a][b][k] \in Reply
    BY <1>1
<1> QED
    BY <1>1, <1>2, <1>3, <1>4, <1>5

\* A step that only drops votes from a connection, and does not advance its
\* candidate, keeps what holds of the connection.
LEMMA LinkFrame ==
    ASSUME TypeInv, TypeInv', NEW a \in Server, NEW b \in Server, Link(a, b),
           KeepsRequests(a, b), KeepsGrants(a, b),
           state'[a] = "CANDIDATE" => KeepsCandidate(a),
           currentTerm[a] <= currentTerm'[a], votes \subseteq votes'
    PROVE  Link(a, b)'
<1>1. PICK n \in Nat : \A k \in DOMAIN req'[a][b] : IsVote(req'[a][b][k]) =>
          k + n \in DOMAIN req[a][b] /\ req'[a][b][k] = req[a][b][k + n]
    BY DEF KeepsRequests
<1>2. PICK p \in Nat : \A k \in DOMAIN resp'[a][b] : IsGrant(resp'[a][b][k]) =>
          k + p \in DOMAIN resp[a][b] /\ resp'[a][b][k] = resp[a][b][k + p]
    BY DEF KeepsGrants
<1>3. /\ \A k \in DOMAIN req[a][b] : k \in Nat /\ req[a][b][k].term \in Nat
      /\ \A k \in DOMAIN resp[a][b] : k \in Nat /\ resp[a][b][k].term \in Nat
      /\ currentTerm[a] \in Nat
    BY LinkTypes
<1>4. /\ \A k \in DOMAIN req'[a][b] : k \in Nat /\ req'[a][b][k].term \in Nat
      /\ \A k \in DOMAIN resp'[a][b] : k \in Nat /\ resp'[a][b][k].term \in Nat
      /\ currentTerm'[a] \in Nat
    <2>1. req'[a][b] \in Seq(Request) /\ resp'[a][b] \in Seq(Reply) /\ currentTerm'[a] \in Nat
        BY DEF TypeInv, TypeOK
    <2>2. \A m \in Request : m.term \in Nat
        BY DEF Request, RequestVoteMsg, AppendEntriesMsg
    <2>3. \A m \in Reply : m.term \in Nat
        BY DEF Reply, RequestVoteResp, AppendEntriesResp
    <2>4. \A k \in DOMAIN req'[a][b] : k \in Nat /\ req'[a][b][k] \in Request
        BY <2>1
    <2>5. \A k \in DOMAIN resp'[a][b] : k \in Nat /\ resp'[a][b][k] \in Reply
        BY <2>1
    <2> QED
        BY <2>1, <2>2, <2>3, <2>4, <2>5
<1>5. RequestsOwn(a, b)'
    BY <1>1, <1>3, <1>4 DEF Link, RequestsOwn
<1>6. RequestsOnce(a, b)'
    <2>1. SUFFICES ASSUME NEW k \in DOMAIN req'[a][b], NEW l \in DOMAIN req'[a][b],
                          IsVote(req'[a][b][k]), IsVote(req'[a][b][l]),
                          req'[a][b][k].term = req'[a][b][l].term
                   PROVE  k = l
        BY DEF RequestsOnce
    <2>2. k + n = l + n
        BY <1>1, <2>1 DEF Link, RequestsOnce
    <2> QED
        BY <1>4, <2>2
<1>7. GrantsRecorded(a, b)'
    BY <1>2, <1>3, <1>4 DEF Link, GrantsRecorded
<1>8. GrantsOnce(a, b)'
    <2>1. SUFFICES ASSUME NEW k \in DOMAIN resp'[a][b], NEW l \in DOMAIN resp'[a][b],
                          IsGrant(resp'[a][b][k]), IsGrant(resp'[a][b][l]),
                          resp'[a][b][k].term = resp'[a][b][l].term
                   PROVE  k = l
        BY DEF GrantsOnce
    <2>2. k + p = l + p
        BY <1>2, <2>1 DEF Link, GrantsOnce
    <2> QED
        BY <1>4, <2>2
<1>9. GrantEndsRequest(a, b)'
    BY <1>1, <1>2 DEF Link, GrantEndsRequest
<1>10. CountEndsRequest(a, b)' /\ CountEndsGrant(a, b)'
    BY <1>1, <1>2 DEF Link, CountEndsRequest, CountEndsGrant, KeepsCandidate
<1> QED
    BY <1>5, <1>6, <1>7, <1>8, <1>9, <1>10 DEF Link

(* A step that leaves every link and every candidacy alone in this sense    *)
(* keeps everything said about them.                                        *)
NetRest == NetInv /\ VotesCountedOnce /\ ElectedByMajority

\* A step that does not advance a candidate keeps its count of votes right.
LEMMA CountFrame ==
    ASSUME VotesCountedOnce, votes \subseteq votes', NEW a \in Server, KeepsCandidate(a),
           state'[a] # "FOLLOWER"
    PROVE  /\ votesReceived'[a] = Cardinality(voters'[a])
           /\ \A j \in voters'[a] : <<j, currentTerm'[a], a>> \in votes'
    BY DEF KeepsCandidate, VotesCountedOnce

\* A leader stays elected by a majority: votes are never taken back.
LEMMA ElectedFrame ==
    ASSUME ElectedByMajority, votes \subseteq votes', elected' = elected
    PROVE  ElectedByMajority'
    BY DEF ElectedByMajority, Half

\* Together: a step that sends no vote and advances no candidate keeps the invariant.
LEMMA NetFrame ==
    ASSUME TypeInv, TypeInv', NetRest,
           \A a, b \in Server : KeepsRequests(a, b) /\ KeepsGrants(a, b),
           \A a \in Server : KeepsCandidate(a) /\ currentTerm[a] <= currentTerm'[a],
           votes \subseteq votes', elected' = elected
    PROVE  NetRest'
<1>1. NetInv'
    BY LinkFrame DEF NetInv, NetRest
<1>2. VotesCountedOnce'
    BY CountFrame DEF NetRest, VotesCountedOnce
<1>3. ElectedByMajority'
    BY ElectedFrame DEF NetRest
<1> QED
    BY <1>1, <1>2, <1>3 DEF NetRest

\* The shapes a queue of a link takes after a step
LEMMA KeepsShapes ==
    ASSUME TypeInv, NEW a \in Server, NEW b \in Server
    PROVE  /\ req'[a][b] = req[a][b] => KeepsRequests(a, b)
           /\ req'[a][b] = <<>> => KeepsRequests(a, b)
           /\ req[a][b] # <<>> /\ req'[a][b] = Tail(req[a][b]) => KeepsRequests(a, b)
           /\ \A m \in Request : ~IsVote(m) /\ req'[a][b] = Append(req[a][b], m)
                 => KeepsRequests(a, b)
           /\ resp'[a][b] = resp[a][b] => KeepsGrants(a, b)
           /\ resp'[a][b] = <<>> => KeepsGrants(a, b)
           /\ resp[a][b] # <<>> /\ resp'[a][b] = Tail(resp[a][b]) => KeepsGrants(a, b)
           /\ \A m \in Reply : ~IsGrant(m) /\ resp'[a][b] = Append(resp[a][b], m)
                 => KeepsGrants(a, b)
<1> DEFINE q == req[a][b]
           r == resp[a][b]
<1>1. q \in Seq(Request) /\ r \in Seq(Reply)
    BY LinkTypes
<1>2. 0 \in Nat /\ 1 \in Nat
    OBVIOUS
<1>3. \A k \in DOMAIN q : k + 0 = k
    BY <1>1
<1>4. \A k \in DOMAIN r : k + 0 = k
    BY <1>1
<1>5. q # <<>> => \A k \in DOMAIN Tail(q) : k + 1 \in DOMAIN q /\ Tail(q)[k] = q[k + 1]
    BY <1>1
<1>6. r # <<>> => \A k \in DOMAIN Tail(r) : k + 1 \in DOMAIN r /\ Tail(r)[k] = r[k + 1]
    BY <1>1
<1>7. ASSUME NEW m \in Request, NEW k \in DOMAIN Append(q, m), Append(q, m)[k] # m
      PROVE  k \in DOMAIN q /\ Append(q, m)[k] = q[k]
    BY <1>1, <1>7
<1>8. ASSUME NEW m \in Reply, NEW k \in DOMAIN Append(r, m), Append(r, m)[k] # m
      PROVE  k \in DOMAIN r /\ Append(r, m)[k] = r[k]
    BY <1>1, <1>8
<1>9. \A k \in DOMAIN <<>> : FALSE
    OBVIOUS
<1> HIDE DEF q, r
<1>10. req'[a][b] = q \/ req'[a][b] = <<>> => KeepsRequests(a, b)
    BY <1>2, <1>3, <1>9 DEF KeepsRequests, q
<1>11. q # <<>> /\ req'[a][b] = Tail(q) => KeepsRequests(a, b)
    BY <1>2, <1>5 DEF KeepsRequests, q
<1>12. ASSUME NEW m \in Request, ~IsVote(m), req'[a][b] = Append(q, m)
       PROVE  KeepsRequests(a, b)
    <2>1. \A k \in DOMAIN req'[a][b] : IsVote(req'[a][b][k]) =>
              k + 0 \in DOMAIN q /\ req'[a][b][k] = q[k + 0]
        BY <1>3, <1>7, <1>12
    <2> QED
        BY <1>2, <2>1 DEF KeepsRequests, q
<1>13. resp'[a][b] = r \/ resp'[a][b] = <<>> => KeepsGrants(a, b)
    BY <1>2, <1>4, <1>9 DEF KeepsGrants, r
<1>14. r # <<>> /\ resp'[a][b] = Tail(r) => KeepsGrants(a, b)
    BY <1>2, <1>6 DEF KeepsGrants, r
<1>15. ASSUME NEW m \in Reply, ~IsGrant(m), resp'[a][b] = Append(r, m)
       PROVE  KeepsGrants(a, b)
    <2>1. \A k \in DOMAIN resp'[a][b] : IsGrant(resp'[a][b][k]) =>
              k + 0 \in DOMAIN r /\ resp'[a][b][k] = r[k + 0]
        BY <1>4, <1>8, <1>15
    <2> QED
        BY <1>2, <2>1 DEF KeepsGrants, r
<1> QED
    BY <1>10, <1>11, <1>12, <1>13, <1>14, <1>15 DEF q, r

\* AppendEntries messages carry no vote
LEMMA SendKeeps ==
    ASSUME TypeInv, NEW i \in Server, NEW lg \in Seq(Entry), NEW ni \in [Server -> Nat],
           \A j \in Server : ni[j] >= 1, NEW h \in BOOLEAN, SendAppendEntries(i, lg, ni, h)
    PROVE  \A a, b \in Server : KeepsRequests(a, b)
<1> SUFFICES ASSUME NEW a \in Server, NEW b \in Server PROVE KeepsRequests(a, b)
    OBVIOUS
<1> DEFINE m == AppendEntriesTo(i, lg, ni, b, h)
<1>1. m \in Request /\ ~IsVote(m)
    <2>1. m \in AppendEntriesMsg
        BY AppendEntriesToType
    <2> QED
        BY <2>1 DEF Request, AppendEntriesMsg, IsVote
<1>2. req'[a][b] = req[a][b] \/ req'[a][b] = Append(req[a][b], m)
    BY DEF SendAppendEntries, Broadcast, TypeInv, TypeOK
<1> HIDE DEF m
<1> QED
    BY <1>1, <1>2, KeepsShapes

\* No node goes back to an earlier term
TermsGrow == \A a \in Server : currentTerm[a] <= currentTerm'[a]

\* tick of a leader keeps the inductive invariant.
LEMMA LeaderTickNet ==
    ASSUME IInv, TypeInv', NEW i \in Server, NEW h \in BOOLEAN, LeaderTick(i, h)
    PROVE  IInv' /\ TermsGrow
<1>1. TypeInv /\ VoteInv /\ NetRest
    BY DEF IInv, NetRest
<1>2. UNCHANGED <<currentTerm, votedFor, state, votesReceived, disk, resp, votes, voters, elected>>
    BY DEF LeaderTick
<1>3. \A a, b \in Server : KeepsRequests(a, b)
    <2>1. log[i] \in Seq(Entry) /\ nextIndex[i] \in [Server -> Nat]
          /\ \A j \in Server : nextIndex[i][j] >= 1
        BY <1>1 DEF LeaderTick, TypeInv, TypeOK, Progress, NextIndexPositive
    <2>2. CASE SendAppendEntries(i, log[i], nextIndex[i], TRUE)
        BY <1>1, <2>1, <2>2, SendKeeps
    <2>3. CASE UNCHANGED req
        BY <1>1, <2>3, KeepsShapes
    <2> QED
        BY <2>2, <2>3 DEF LeaderTick
<1>4. \A a, b \in Server : KeepsGrants(a, b)
    BY <1>1, <1>2, KeepsShapes
<1>5. \A a \in Server : KeepsCandidate(a) /\ currentTerm[a] <= currentTerm'[a]
    BY <1>1, <1>2 DEF KeepsCandidate, TypeInv, TypeOK
<1>6. NetRest'
    BY <1>1, <1>2, <1>3, <1>4, <1>5, NetFrame
<1>7. VoteInv'
    BY <1>1, <1>2 DEF VoteInv, VotesDurable, OneVotePerTerm, MemoryOnDisk
<1> QED
    BY <1>5, <1>6, <1>7 DEF IInv, NetRest, TermsGrow

\* Writing the term and the vote in memory once more is safe
LEMMA RewriteSafe ==
    ASSUME TypeInv, VoteInv, NEW j \in Server, NEW d, IsDisk(d),
           d.term = currentTerm[j], d.vote = votedFor[j]
    PROVE  SafeDisk(j, d)
    BY DiskTypes DEF SafeDisk

\* propose keeps the inductive invariant.
LEMMA ProposeNet ==
    ASSUME IInv, TypeInv', NEW i \in Server, NEW v \in Value, Propose(i, v)
    PROVE  IInv' /\ TermsGrow
<1>1. TypeInv /\ VoteInv /\ NetRest
    BY DEF IInv, NetRest
<1> DEFINE e  == NewEntry(log[i], currentTerm[i], v)
           lg == Append(log[i], e)
           ni == [nextIndex[i] EXCEPT ![i] = e.index + 1]
           d  == Persisted(disk[i], currentTerm[i], votedFor[i], lg)
<1>2. /\ UNCHANGED <<currentTerm, votedFor, state, votesReceived, resp, votes, voters, elected>>
      /\ state[i] = "LEADER"
      /\ disk' = [disk EXCEPT ![i] = d]
      /\ SendAppendEntries(i, lg, ni, FALSE)
    BY DEF Propose
<1>3. /\ log[i] \in Seq(Entry) /\ nextIndex[i] \in [Server -> Nat] /\ currentTerm[i] \in Nat
      /\ votedFor[i] \in Server \cup {Nil} /\ \A j \in Server : nextIndex[i][j] >= 1
    BY <1>1, <1>2 DEF TypeInv, TypeOK, Progress, NextIndexPositive
<1>4. e \in Entry /\ e.index \in Nat
    BY <1>3 DEF NewEntry, LastIndex, Entry
<1> HIDE DEF e
<1>5. lg \in Seq(Entry) /\ ni \in [Server -> Nat] /\ \A j \in Server : ni[j] >= 1
    BY <1>3, <1>4
<1> HIDE DEF lg, ni
<1>6. \A a, b \in Server : KeepsRequests(a, b)
    BY <1>1, <1>2, <1>5, SendKeeps
<1>7. \A a, b \in Server : KeepsGrants(a, b)
    BY <1>1, <1>2, KeepsShapes
<1>8. \A a \in Server : KeepsCandidate(a) /\ currentTerm[a] <= currentTerm'[a]
    BY <1>1, <1>2 DEF KeepsCandidate, TypeInv, TypeOK
<1>9. NetRest'
    BY <1>1, <1>2, <1>6, <1>7, <1>8, NetFrame
<1>10. IsDisk(d) /\ d.term = currentTerm[i] /\ d.vote = votedFor[i]
    BY <1>3, <1>5, PersistedType DEF Persisted
<1> HIDE DEF d
<1>11. currentTerm' = [currentTerm EXCEPT ![i] = d.term] /\ votedFor' = [votedFor EXCEPT ![i] = d.vote]
    BY <1>1, <1>2, <1>10 DEF TypeInv, TypeOK
<1>12. VoteInv'
    BY <1>1, <1>2, <1>10, <1>11, RewriteSafe, VoteStep
<1> QED
    BY <1>8, <1>9, <1>12 DEF IInv, NetRest, TermsGrow

\* Connections that come up or break keep the inductive invariant.
LEMMA ConnectionNet ==
    ASSUME IInv, TypeInv', NEW i \in Server, NEW j \in Server, Connect(i, j) \/ Break(i, j)
    PROVE  IInv' /\ TermsGrow
<1>1. TypeInv /\ VoteInv /\ NetRest
    BY DEF IInv, NetRest
<1>2. UNCHANGED <<currentTerm, votedFor, state, votesReceived, disk, resp, votes, voters, elected>>
    BY DEF Connect, Break
<1>3. \A a, b \in Server : req'[a][b] = req[a][b] \/ req'[a][b] = <<>>
    <2>1. req \in [Server -> [Server -> Seq(Request)]]
        BY <1>1 DEF TypeInv, TypeOK
    <2>2. CASE req' = req
        BY <2>2
    <2>3. CASE req' = [req EXCEPT ![i][j] = <<>>]
        BY <2>1, <2>3
    <2> QED
        BY <2>2, <2>3 DEF Connect, Break
<1>4. \A a, b \in Server : KeepsRequests(a, b) /\ KeepsGrants(a, b)
    BY <1>1, <1>2, <1>3, KeepsShapes
<1>5. \A a \in Server : KeepsCandidate(a) /\ currentTerm[a] <= currentTerm'[a]
    BY <1>1, <1>2 DEF KeepsCandidate, TypeInv, TypeOK
<1>6. NetRest'
    BY <1>1, <1>2, <1>4, <1>5, NetFrame
<1>7. VoteInv'
    BY <1>1, <1>2 DEF VoteInv, VotesDurable, OneVotePerTerm, MemoryOnDisk
<1> QED
    BY <1>5, <1>6, <1>7 DEF IInv, NetRest, TermsGrow

\* processAppendEntriesResponse keeps the inductive invariant.
LEMMA ProcessAppendEntriesResponseNet ==
    ASSUME IInv, TypeInv', NEW i \in Server, NEW j \in Server, ProcessAppendEntriesResponse(i, j)
    PROVE  IInv' /\ TermsGrow
<1>1. TypeInv /\ VoteInv /\ NetRest
    BY DEF IInv, NetRest
<1>2. UNCHANGED <<currentTerm, votedFor, state, votesReceived, disk, votes, voters, elected>>
    BY DEF ProcessAppendEntriesResponse
<1>3. \A a, b \in Server : \/ resp'[a][b] = resp[a][b]
                           \/ resp[a][b] # <<>> /\ resp'[a][b] = Tail(resp[a][b])
    BY <1>1 DEF ProcessAppendEntriesResponse, ConsumeReply, TypeInv, TypeOK
<1>4. \A a, b \in Server : KeepsRequests(a, b)
    <2> DEFINE ni == [nextIndex[i] EXCEPT ![j] = BackUp(@)]
    <2>1. CASE UNCHANGED req
        BY <1>1, <2>1, KeepsShapes
    <2>2. CASE state[i] = "LEADER" /\ SendAppendEntries(i, log[i], ni, FALSE)
        <3>1. log[i] \in Seq(Entry) /\ nextIndex[i] \in [Server -> Nat]
              /\ \A k \in Server : nextIndex[i][k] >= 1
            BY <1>1, <2>2 DEF TypeInv, TypeOK, Progress, NextIndexPositive
        <3>2. ni \in [Server -> Nat] /\ \A k \in Server : ni[k] >= 1
            BY <3>1 DEF BackUp
        <3> HIDE DEF ni
        <3> QED
            BY <1>1, <2>2, <3>1, <3>2, SendKeeps
    <2> QED
        BY <2>1, <2>2 DEF ProcessAppendEntriesResponse
<1>5. \A a, b \in Server : KeepsGrants(a, b)
    BY <1>1, <1>3, KeepsShapes
<1>6. \A a \in Server : KeepsCandidate(a) /\ currentTerm[a] <= currentTerm'[a]
    BY <1>1, <1>2 DEF KeepsCandidate, TypeInv, TypeOK
<1>7. NetRest'
    BY <1>1, <1>2, <1>4, <1>5, <1>6, NetFrame
<1>8. VoteInv'
    BY <1>1, <1>2 DEF VoteInv, VotesDurable, OneVotePerTerm, MemoryOnDisk
<1> QED
    BY <1>6, <1>7, <1>8 DEF IInv, NetRest, TermsGrow

(* What both request handlers do to votes and candidacies.                  *)
LEMMA HandlerVotes ==
    ASSUME TypeInv, VoteInv, NEW j \in Server, NEW m \in Request,
           \/ m.type = "REQUEST_VOTE" /\ RequestVoteStep(j, m)
           \/ m.type = "APPEND_ENTRIES" /\ AppendEntriesStep(j, m)
    PROVE  /\ VoteInv' /\ votes \subseteq votes' /\ elected' = elected
           /\ \A a \in Server : KeepsCandidate(a) /\ currentTerm[a] <= currentTerm'[a]
<1>1. m.term \in Nat
    BY DEF Request, RequestVoteMsg, AppendEntriesMsg
<1> DEFINE d0 == DiskAfter(j, m.term)
<1>2. /\ SafeDisk(j, d0) /\ d0.term = TermAfter(j, m.term) /\ d0.vote = VoteAfter(j, m.term)
    BY <1>1, StepDownSafe
<1>3. /\ currentTerm' = [currentTerm EXCEPT ![j] = TermAfter(j, m.term)]
      /\ state' = [state EXCEPT ![j] = IF StepsDown(j, m.term) THEN "FOLLOWER" ELSE @]
      /\ UNCHANGED <<votesReceived, voters, elected>>
      /\ votes \subseteq votes'
    BY DEF RequestVoteStep, AppendEntriesStep, BecomeFollower
<1>4. VoteInv' /\ \A a \in Server : currentTerm[a] <= currentTerm'[a]
    <2> HIDE DEF d0
    <2>1. CASE disk' = [disk EXCEPT ![j] = d0] /\ votes' = votes
               /\ votedFor' = [votedFor EXCEPT ![j] = VoteAfter(j, m.term)]
        BY <1>2, <1>3, <2>1, VoteStep
    <2>2. CASE m.type = "REQUEST_VOTE" /\ RequestVoteStep(j, m) /\ Grants(j, m)
        <3> DEFINE d == Persisted(d0, m.term, m.candidate, log[j])
        <3>1. m \in RequestVoteMsg /\ m.candidate \in Server /\ log[j] \in Seq(Entry)
            BY <2>2, RequestKinds DEF RequestVoteMsg, TypeInv, TypeOK
        <3>2. IsDisk(d) /\ d.term = m.term /\ d.vote = m.candidate
            BY <1>1, <3>1, PersistedType DEF Persisted
        <3>3. /\ votedFor' = [votedFor EXCEPT ![j] = m.candidate]
              /\ disk' = [disk EXCEPT ![j] = d]
              /\ votes' = votes \cup {<<j, m.term, m.candidate>>}
            BY <2>2 DEF RequestVoteStep, d0
        <3>4. TermAfter(j, m.term) = m.term
            BY <1>1, <2>2 DEF Grants, TermAfter, Max2, TypeInv, TypeOK
        <3> HIDE DEF d
        <3>5. SafeDisk(j, d)
            BY <2>2, <3>1, <3>2, GrantSafe
        <3> QED
            BY <1>3, <3>1, <3>2, <3>3, <3>4, <3>5, VoteStep
    <2>3. CASE m.type = "APPEND_ENTRIES" /\ AppendEntriesStep(j, m) /\ Accepts(j, m)
        <3> DEFINE lg == MergeEntries(log[j], m.prevLogIndex, m.entries)
                   d  == Persisted(d0, m.term, VoteAfter(j, m.term), lg)
        <3>1. m \in AppendEntriesMsg
            BY <2>3, RequestKinds
        <3>2. lg \in Seq(Entry)
            BY <2>3, <3>1, AcceptedLog
        <3>3. /\ votedFor' = [votedFor EXCEPT ![j] = VoteAfter(j, m.term)]
              /\ disk' = [disk EXCEPT ![j] = d] /\ votes' = votes
            BY <2>3 DEF AppendEntriesStep, d0
        <3> HIDE DEF lg
        <3>4. VoteAfter(j, m.term) \in Server \cup {Nil}
            BY <1>1, BecomeFollowerType
        <3>5. IsDisk(d) /\ d.term = m.term /\ d.vote = VoteAfter(j, m.term)
            BY <1>1, <3>2, <3>4, PersistedType DEF Persisted
        <3>6. TermAfter(j, m.term) = m.term
            BY <1>1, <2>3 DEF Accepts, TermAfter, Max2, TypeInv, TypeOK
        <3> HIDE DEF d
        <3>7. SafeDisk(j, d)
            BY <1>2, <3>5, <3>6 DEF SafeDisk
        <3> QED
            BY <1>3, <3>3, <3>5, <3>6, <3>7, VoteStep
    <2>4. \/ disk' = [disk EXCEPT ![j] = d0] /\ votes' = votes
               /\ votedFor' = [votedFor EXCEPT ![j] = VoteAfter(j, m.term)]
          \/ m.type = "REQUEST_VOTE" /\ RequestVoteStep(j, m) /\ Grants(j, m)
          \/ m.type = "APPEND_ENTRIES" /\ AppendEntriesStep(j, m) /\ Accepts(j, m)
        BY DEF RequestVoteStep, AppendEntriesStep, d0
    <2> QED
        BY <2>1, <2>2, <2>3, <2>4
<1>5. ASSUME NEW a \in Server PROVE KeepsCandidate(a)
    <2>1. /\ currentTerm[j] \in Nat /\ DOMAIN currentTerm = Server /\ DOMAIN state = Server
        BY DEF TypeInv, TypeOK
    <2>2. CASE a # j
        BY <1>3, <2>1, <2>2 DEF KeepsCandidate
    <2>3. CASE a = j /\ StepsDown(j, m.term)
        BY <1>3, <2>1, <2>3 DEF KeepsCandidate
    <2>4. CASE a = j /\ ~StepsDown(j, m.term)
        <3>1. TermAfter(j, m.term) = currentTerm[j]
            BY <1>1, <2>1, <2>4 DEF TermAfter, StepsDown, Max2
        <3> QED
            BY <1>3, <2>1, <2>4, <3>1 DEF KeepsCandidate
    <2> QED
        BY <2>2, <2>3, <2>4
<1> QED
    BY <1>3, <1>4, <1>5

\* A request of a connection that is gone may grant a vote that nobody hears of.
LEMMA HandleOrphanNet ==
    ASSUME IInv, TypeInv', NEW o \in orphans, HandleOrphan(o)
    PROVE  IInv' /\ TermsGrow
<1>1. TypeInv /\ VoteInv /\ NetRest
    BY DEF IInv, NetRest
<1>2. o.to \in Server /\ o.msg \in Request
    <2>1. o \in [to : Server, msg : Request]
        BY <1>1 DEF TypeInv, TypeOK
    <2> QED
        BY <2>1
<1>3. \/ o.msg.type = "REQUEST_VOTE" /\ RequestVoteStep(o.to, o.msg)
      \/ o.msg.type = "APPEND_ENTRIES" /\ AppendEntriesStep(o.to, o.msg)
    BY DEF HandleOrphan
<1>4. /\ VoteInv' /\ votes \subseteq votes' /\ elected' = elected
      /\ \A a \in Server : KeepsCandidate(a) /\ currentTerm[a] <= currentTerm'[a]
    BY <1>1, <1>2, <1>3, HandlerVotes
<1>5. \A a, b \in Server : KeepsRequests(a, b) /\ KeepsGrants(a, b)
    <2>1. UNCHANGED <<req, resp>>
        BY DEF HandleOrphan
    <2> QED
        BY <1>1, <2>1, KeepsShapes
<1>6. NetRest'
    BY <1>1, <1>4, <1>5, NetFrame
<1> QED
    BY <1>4, <1>6 DEF IInv, NetRest, TermsGrow

\* A restart from a safe disk keeps the inductive invariant.
LEMMA RestartNet ==
    ASSUME IInv, TypeInv', NEW i \in Server, NEW d, SafeDisk(i, d), Restart(i, d)
    PROVE  IInv' /\ TermsGrow
<1>1. TypeInv /\ VoteInv /\ NetRest
    BY DEF IInv, NetRest
<1>2. VoteInv' /\ \A a \in Server : currentTerm[a] <= currentTerm'[a]
    <2>1. /\ disk' = [disk EXCEPT ![i] = d]
          /\ currentTerm' = [currentTerm EXCEPT ![i] = d.term]
          /\ votedFor' = [votedFor EXCEPT ![i] = d.vote]
          /\ votes' = votes
        BY DEF Restart
    <2> QED
        BY <1>1, <2>1, VoteStep
<1>3. ASSUME NEW a \in Server PROVE KeepsCandidate(a)
    <2>1. /\ state' = [state EXCEPT ![i] = "FOLLOWER"]
          /\ currentTerm' = [currentTerm EXCEPT ![i] = d.term]
          /\ votesReceived' = [votesReceived EXCEPT ![i] = 0]
          /\ voters' = [voters EXCEPT ![i] = {}]
        BY DEF Restart
    <2>2. DOMAIN state = Server /\ DOMAIN currentTerm = Server
          /\ DOMAIN votesReceived = Server /\ DOMAIN voters = Server
        BY <1>1 DEF TypeInv, TypeOK
    <2> QED
        BY <2>1, <2>2 DEF KeepsCandidate
<1>4. ASSUME NEW a \in Server, NEW b \in Server PROVE KeepsRequests(a, b) /\ KeepsGrants(a, b)
    <2>1. req'[a][b] = req[a][b] \/ req'[a][b] = <<>>
        BY DEF Restart
    <2>2. resp'[a][b] = resp[a][b] \/ resp'[a][b] = <<>>
        <3>1. resp \in [Server -> [Server -> Seq(Reply)]]
            BY <1>1 DEF TypeInv, TypeOK
        <3>2. resp' = [resp EXCEPT ![i] = [j \in Server |-> <<>>]]
            BY DEF Restart
        <3> QED
            BY <3>1, <3>2
    <2> QED
        BY <1>1, <2>1, <2>2, KeepsShapes
<1>5. votes' = votes /\ elected' = elected
    BY DEF Restart
<1>6. NetRest'
    BY <1>1, <1>2, <1>3, <1>4, <1>5, NetFrame
<1> QED
    BY <1>2, <1>6 DEF IInv, NetRest, TermsGrow

\* What a crash inside a handler leaves on disk
LEMMA TornHandlerSafe ==
    ASSUME TypeInv, VoteInv, NEW i \in Server, NEW m, m \in Request \cup Reply,
           NEW d \in TornStepDown(i, m) \cup TornGrant(i, m)
    PROVE  SafeDisk(i, d)
<1>1. m.term \in Nat
    BY DEF Request, RequestVoteMsg, AppendEntriesMsg, Reply, RequestVoteResp, AppendEntriesResp
<1>2. CASE d \in TornStepDown(i, m)
    <2>1. d \in TornPersist(disk[i], m.term, Nil) \/ d = DiskAfter(i, m.term)
        BY <1>2 DEF TornStepDown
    <2>2. m.term > currentTerm[i]
        BY <1>2 DEF TornStepDown, StepsDown
    <2>3. Nil \in Server \cup {Nil}
        OBVIOUS
    <2>4. CASE d \in TornPersist(disk[i], m.term, Nil)
        BY <1>1, <2>2, <2>3, <2>4, TornSafe
    <2>5. CASE d = DiskAfter(i, m.term)
        BY <1>1, <2>5, StepDownSafe
    <2> QED
        BY <2>1, <2>4, <2>5
<1>3. CASE d \in TornGrant(i, m)
    <2>1. m.type = "REQUEST_VOTE" /\ Grants(i, m)
          /\ d = [term |-> m.term, vote |-> m.candidate, log |-> DiskAfter(i, m.term).log]
        BY <1>3 DEF TornGrant
    <2>2. m \in RequestVoteMsg /\ m.candidate \in Server
        BY <2>1 DEF Request, Reply, RequestVoteMsg, AppendEntriesMsg, RequestVoteResp,
                    AppendEntriesResp
    <2>3. IsDisk(DiskAfter(i, m.term))
        BY <1>1, BecomeFollowerType
    <2>4. IsDisk(d) /\ d.term = m.term /\ d.vote = m.candidate
        BY <1>1, <2>1, <2>2, <2>3 DEF IsDisk
    <2> QED
        BY <2>1, <2>2, <2>4, GrantSafe
<1> QED
    BY <1>2, <1>3

\* A crash, wherever in a handler it falls, keeps the inductive invariant.
LEMMA CrashNet ==
    ASSUME IInv, NEW i \in Server, CrashStep(i)
    PROVE  IInv' /\ TermsGrow
<1>1. TypeInv /\ VoteInv
    BY DEF IInv
<1>2. \E d : SafeDisk(i, d) /\ Restart(i, d)
    <2>1. CASE Crash(i)
        BY <1>1, <2>1, DiskTypes DEF Crash
    <2>2. CASE CrashInTimeout(i)
        <3>1. PICK d \in TornPersist(disk[i], currentTerm[i] + 1, i) : Restart(i, d)
            BY <2>2 DEF CrashInTimeout
        <3>2. currentTerm[i] + 1 \in Nat /\ currentTerm[i] + 1 > currentTerm[i]
            BY <1>1, LinkTypes
        <3> QED
            BY <1>1, <3>1, <3>2, TornSafe
    <2>3. CASE CrashInHandler(i)
        <3>0. PICK m \in Deliverable(i) :
                  \E d \in TornStepDown(i, m) \cup TornGrant(i, m) : Restart(i, d)
            BY <2>3 DEF CrashInHandler
        <3>1. PICK d \in TornStepDown(i, m) \cup TornGrant(i, m) : Restart(i, d)
            BY <3>0
        <3>2. m \in Request
            <4>1. CASE \E o \in orphans : m = o.msg
                BY <1>1, <4>1 DEF TypeInv, TypeOK
            <4>2. CASE \E k \in Server : req[k][i] # <<>> /\ m = Head(req[k][i])
                <5>1. PICK k \in Server : req[k][i] # <<>> /\ m = Head(req[k][i])
                    BY <4>2
                <5>2. req[k][i] \in Seq(Request)
                    BY <1>1, LinkTypes
                <5> QED
                    BY <5>1, <5>2
            <4> QED
                BY <4>1, <4>2 DEF Deliverable, Peers
        <3> QED
            BY <1>1, <3>1, <3>2, TornHandlerSafe
    <2>4. CASE \E j \in Server : CrashInResponse(i, j)
        <3>1. PICK j \in Server : CrashInResponse(i, j)
            BY <2>4
        <3>2. PICK d \in TornStepDown(i, Head(resp[i][j])) : Restart(i, d)
            BY <3>1 DEF CrashInResponse
        <3>3. Head(resp[i][j]) \in Reply
            <4>1. resp[i][j] \in Seq(Reply) /\ resp[i][j] # <<>>
                BY <1>1, <3>1, LinkTypes DEF CrashInResponse
            <4> QED
                BY <4>1
        <3> QED
            BY <1>1, <3>2, <3>3, TornHandlerSafe
    <2> QED
        BY <2>1, <2>2, <2>3, <2>4 DEF CrashStep
<1>3. PICK d : SafeDisk(i, d) /\ Restart(i, d)
    BY <1>2
<1>4. TypeInv'
    BY <1>1, <1>3, RestartType DEF SafeDisk
<1> QED
    BY <1>3, <1>4, RestartNet

(* handleRequestVote and handleAppendEntries answer the first request of a  *)
(* link.                                                                    *)
LEMMA ReplyOnShape ==
    ASSUME TypeInv, NEW i \in Server, NEW j \in Server, NEW r, ReplyOn(i, j, r)
    PROVE  /\ req'[i][j] = Tail(req[i][j]) /\ resp'[i][j] = Append(resp[i][j], r)
           /\ \A a, b \in Server : <<a, b>> # <<i, j>> =>
                 req'[a][b] = req[a][b] /\ resp'[a][b] = resp[a][b]
<1>1. req \in [Server -> [Server -> Seq(Request)]] /\ resp \in [Server -> [Server -> Seq(Reply)]]
    BY DEF TypeInv, TypeOK
<1>2. req' = [req EXCEPT ![i][j] = Tail(req[i][j])]
      /\ resp' = [resp EXCEPT ![i][j] = Append(resp[i][j], r)]
    BY DEF ReplyOn
<1> QED
    BY <1>1, <1>2

\* handleAppendEntries and its reply keep the inductive invariant.
LEMMA HandleAppendEntriesNet ==
    ASSUME IInv, TypeInv', NEW i \in Server, NEW j \in Server, HandleAppendEntries(i, j)
    PROVE  IInv' /\ TermsGrow
<1>1. TypeInv /\ VoteInv /\ NetRest
    BY DEF IInv, NetRest
<1> DEFINE m == Head(req[i][j])
           r == AppendEntriesReply(j, m)
<1>2. /\ req[i][j] # <<>> /\ m.type = "APPEND_ENTRIES"
      /\ AppendEntriesStep(j, m) /\ ReplyOn(i, j, r)
    BY DEF HandleAppendEntries
<1>3. m \in Request
    <2>1. req[i][j] \in Seq(Request)
        BY <1>1, LinkTypes
    <2> QED
        BY <1>2, <2>1
<1>4. /\ VoteInv' /\ votes \subseteq votes' /\ elected' = elected
      /\ \A a \in Server : KeepsCandidate(a) /\ currentTerm[a] <= currentTerm'[a]
    BY <1>1, <1>2, <1>3, HandlerVotes
<1>5. r \in Reply /\ ~IsGrant(r)
    <2>1. m \in AppendEntriesMsg
        BY <1>2, <1>3, RequestKinds
    <2> QED
        BY <1>1, <2>1, AppendEntriesReplyType DEF IsGrant, AppendEntriesReply
<1> HIDE DEF m, r
<1>6. \A a, b \in Server : KeepsRequests(a, b) /\ KeepsGrants(a, b)
    BY <1>1, <1>2, <1>5, ReplyOnShape, KeepsShapes
<1>7. NetRest'
    BY <1>1, <1>4, <1>6, NetFrame
<1> QED
    BY <1>4, <1>7 DEF IInv, NetRest, TermsGrow

\* A vote moves from the requests of a link to its replies
LEMMA GrantLink ==
    ASSUME TypeInv, TypeInv', NEW i \in Server, NEW j \in Server, Link(i, j),
           NEW r \in Reply, req[i][j] # <<>>, IsVote(Head(req[i][j])), IsGrant(r),
           r.term = Head(req[i][j]).term, <<j, r.term, i>> \in votes',
           req'[i][j] = Tail(req[i][j]), resp'[i][j] = Append(resp[i][j], r),
           votes \subseteq votes', currentTerm'[i] = currentTerm[i],
           state'[i] = state[i], voters'[i] = voters[i]
    PROVE  Link(i, j)'
<1> DEFINE q  == req[i][j]
           p  == resp[i][j]
           q2 == Tail(q)
           p2 == Append(p, r)
<1>1. q \in Seq(Request) /\ p \in Seq(Reply) /\ q # <<>> /\ currentTerm[i] \in Nat
    BY LinkTypes
<1>2. 1 \in DOMAIN q /\ Head(q) = q[1]
    BY <1>1
<1>3. \A k \in DOMAIN q2 : k + 1 \in DOMAIN q /\ q2[k] = q[k + 1] /\ k \in Nat /\ k >= 1
    BY <1>1
<1>4. \A k \in DOMAIN p2 : \/ k \in DOMAIN p /\ p2[k] = p[k]
                           \/ k = Len(p) + 1 /\ p2[k] = r
    BY <1>1
<1>5. req'[i][j] = q2 /\ resp'[i][j] = p2
    OBVIOUS
<1>6. IsVote(q[1]) /\ q[1].term = r.term
    BY <1>2
<1> HIDE DEF q2, p2
<1>7. RequestsOwn(i, j)'
    BY <1>3, <1>5 DEF RequestsOwn, Link, q
<1>8. RequestsOnce(i, j)'
    <2>1. ASSUME NEW k \in DOMAIN q2, NEW l \in DOMAIN q2, IsVote(q2[k]), IsVote(q2[l]),
                 q2[k].term = q2[l].term
          PROVE  k = l
        <3>1. k + 1 = l + 1
            BY <1>3, <2>1 DEF RequestsOnce, Link, q
        <3> QED
            BY <1>3, <3>1
    <2> QED
        BY <1>5, <2>1 DEF RequestsOnce
<1>9. \A l \in DOMAIN p : IsGrant(p[l]) => p[l].term # r.term
    BY <1>2, <1>6 DEF GrantEndsRequest, Link, q, p
<1>10. \A k \in DOMAIN q2 : IsVote(q2[k]) => q2[k].term # r.term
    <2>1. SUFFICES ASSUME NEW k \in DOMAIN q2, IsVote(q2[k]), q2[k].term = r.term PROVE FALSE
        OBVIOUS
    <2>2. k + 1 = 1
        BY <1>2, <1>3, <1>6, <2>1 DEF RequestsOnce, Link, q
    <2> QED
        BY <1>3, <2>2
<1>11. GrantsRecorded(i, j)'
    <2>1. r.term <= currentTerm[i]
        BY <1>2, <1>6 DEF RequestsOwn, Link, q
    <2> QED
        BY <1>4, <1>5, <2>1 DEF GrantsRecorded, Link, p
<1>12. GrantsOnce(i, j)'
    BY <1>4, <1>5, <1>9 DEF GrantsOnce, Link, p
<1>13. GrantEndsRequest(i, j)'
    BY <1>3, <1>4, <1>5, <1>10 DEF GrantEndsRequest, Link, q, p
<1>14. CountEndsRequest(i, j)'
    BY <1>3, <1>5 DEF CountEndsRequest, Link, q
<1>15. CountEndsGrant(i, j)'
    <2>1. state[i] = "CANDIDATE" /\ j \in voters[i] => r.term # currentTerm[i]
        BY <1>2, <1>6 DEF CountEndsRequest, Link, q
    <2> QED
        BY <1>4, <1>5, <2>1 DEF CountEndsGrant, Link, p
<1> QED
    BY <1>7, <1>8, <1>11, <1>12, <1>13, <1>14, <1>15 DEF Link

\* handleRequestVote and its reply keep the inductive invariant.
LEMMA HandleRequestVoteNet ==
    ASSUME IInv, TypeInv', NEW i \in Server, NEW j \in Server, HandleRequestVote(i, j)
    PROVE  IInv' /\ TermsGrow
<1>1. TypeInv /\ VoteInv /\ NetRest
    BY DEF IInv, NetRest
<1> DEFINE m == Head(req[i][j])
           r == RequestVoteReply(j, m)
<1>2. /\ req[i][j] # <<>> /\ m.type = "REQUEST_VOTE"
      /\ RequestVoteStep(j, m) /\ ReplyOn(i, j, r)
    BY DEF HandleRequestVote
<1>3. m \in Request /\ 1 \in DOMAIN req[i][j] /\ m = req[i][j][1]
    <2>1. req[i][j] \in Seq(Request)
        BY <1>1, LinkTypes
    <2> QED
        BY <1>2, <2>1
<1>4. /\ VoteInv' /\ votes \subseteq votes' /\ elected' = elected
      /\ \A a \in Server : KeepsCandidate(a) /\ currentTerm[a] <= currentTerm'[a]
    BY <1>1, <1>2, <1>3, HandlerVotes
<1>5. m \in RequestVoteMsg /\ m.term \in Nat
    BY <1>2, <1>3, RequestKinds DEF RequestVoteMsg
<1>6. r \in Reply /\ r.type = "REQUEST_VOTE_RESP" /\ r.granted = Grants(j, m)
    BY <1>1, <1>5, RequestVoteReplyType DEF RequestVoteReply
<1>7. ASSUME NEW a \in Server, NEW b \in Server, <<a, b>> # <<i, j>> \/ ~Grants(j, m)
      PROVE  Link(a, b)'
    <2>1. KeepsRequests(a, b) /\ KeepsGrants(a, b)
        <3> HIDE DEF m, r
        <3>1. CASE <<a, b>> # <<i, j>>
            BY <1>1, <1>2, <3>1, ReplyOnShape, KeepsShapes
        <3>2. CASE a = i /\ b = j /\ ~Grants(j, m)
            BY <1>1, <1>2, <1>6, <3>2, ReplyOnShape, KeepsShapes DEF IsGrant
        <3> QED
            BY <1>7, <3>1, <3>2
    <2> QED
        BY <1>1, <1>4, <2>1, LinkFrame DEF NetRest, NetInv
<1>8. ASSUME Grants(j, m) PROVE NetInv'
    <2>1. j # i /\ m.candidate = i
        BY <1>1, <1>2, <1>3 DEF NetRest, NetInv, Link, RequestsOwn, IsVote
    <2>2. r.term = m.term
        BY <1>1, <1>5, <1>8 DEF RequestVoteReply, Grants, TermAfter, Max2, TypeInv, TypeOK
    <2>3. <<j, m.term, i>> \in votes'
        BY <1>2, <1>8, <2>1 DEF RequestVoteStep
    <2>4. /\ currentTerm'[i] = currentTerm[i] /\ state'[i] = state[i] /\ voters'[i] = voters[i]
        BY <1>1, <1>2, <2>1 DEF RequestVoteStep, BecomeFollower, TypeInv, TypeOK
    <2>5. IsVote(m) /\ IsGrant(r)
        BY <1>2, <1>6, <1>8 DEF IsVote, IsGrant
    <2>6. req'[i][j] = Tail(req[i][j]) /\ resp'[i][j] = Append(resp[i][j], r)
        BY <1>1, <1>2, ReplyOnShape
    <2>7. Link(i, j)
        BY <1>1 DEF NetRest, NetInv
    <2>8. Link(i, j)'
        <3> HIDE DEF r
        <3> QED
            BY <1>1, <1>2, <1>4, <1>6, <2>2, <2>3, <2>4, <2>5, <2>6, <2>7, GrantLink
    <2> QED
        BY <1>7, <2>8 DEF NetInv
<1>9. NetInv'
    <2> HIDE DEF m
    <2>1. CASE Grants(j, m)
        BY <1>1, <1>4, <1>7, <1>8, <2>1 DEF NetInv
    <2>2. CASE ~Grants(j, m)
        BY <1>7, <2>2 DEF NetInv
    <2> QED
        BY <2>1, <2>2
<1>10. VotesCountedOnce'
    BY <1>1, <1>4, CountFrame DEF NetRest, VotesCountedOnce
<1>11. ElectedByMajority'
    BY <1>1, <1>4, ElectedFrame DEF NetRest
<1> QED
    BY <1>4, <1>9, <1>10, <1>11 DEF IInv, TermsGrow

(* becomeCandidate asks every peer for a vote of a new term.                *)
LEMMA AskLink ==
    ASSUME TypeInv, TypeInv', NEW i \in Server, NEW b \in Server, Link(i, b),
           NEW m \in Request, IsVote(m), m.candidate = i, m.term = currentTerm[i] + 1,
           \/ req'[i][b] = req[i][b]
           \/ b # i /\ req'[i][b] = Append(req[i][b], m),
           resp'[i][b] = resp[i][b], votes \subseteq votes',
           currentTerm'[i] = currentTerm[i] + 1, voters'[i] = {i}
    PROVE  Link(i, b)'
<1> DEFINE q  == req[i][b]
           p  == resp[i][b]
           q2 == req'[i][b]
           t  == currentTerm[i]
<1>1. q \in Seq(Request) /\ t \in Nat
    BY LinkTypes
<1>2. /\ \A k \in DOMAIN q : k \in Nat /\ q[k].term \in Nat
      /\ \A k \in DOMAIN p : p[k].term \in Nat
    BY LinkTypes
<1>3. \A k \in DOMAIN q2 : \/ k \in DOMAIN q /\ q2[k] = q[k]
                           \/ k = Len(q) + 1 /\ q2[k] = m /\ b # i
    <2>1. q2 = q \/ (b # i /\ q2 = Append(q, m))
        OBVIOUS
    <2> HIDE DEF q, q2
    <2>2. CASE q2 = q
        BY <2>2
    <2>3. CASE b # i /\ q2 = Append(q, m)
        BY <1>1, <2>3
    <2> QED
        BY <2>1, <2>2, <2>3
<1>4. /\ \A k \in DOMAIN q : IsVote(q[k]) => q[k].term <= t
      /\ \A k \in DOMAIN p : IsGrant(p[k]) => p[k].term <= t
    BY DEF Link, RequestsOwn, GrantsRecorded
<1>5. /\ \A k \in DOMAIN q : IsVote(q[k]) => q[k].term # t + 1
      /\ \A k \in DOMAIN p : IsGrant(p[k]) => p[k].term # t + 1
    BY <1>1, <1>2, <1>4
<1>6. RequestsOwn(i, b)'
    <2>1. ASSUME NEW k \in DOMAIN q2, IsVote(q2[k])
          PROVE  b # i /\ q2[k].candidate = i /\ q2[k].term <= t + 1
        <3>1. CASE k \in DOMAIN q /\ q2[k] = q[k]
            BY <1>1, <1>2, <2>1, <3>1 DEF Link, RequestsOwn
        <3>2. CASE q2[k] = m /\ b # i
            BY <1>1, <3>2
        <3> QED
            BY <1>3, <3>1, <3>2
    <2> QED
        BY <2>1 DEF RequestsOwn
<1> HIDE DEF q2
<1>7. RequestsOnce(i, b)'
    BY <1>3, <1>5 DEF Link, RequestsOnce, q2
<1>8. GrantsRecorded(i, b)'
    <2>1. \A k \in DOMAIN p : IsGrant(p[k]) => p[k].term <= t + 1
        BY <1>1, <1>2, <1>4
    <2> QED
        BY <2>1 DEF Link, GrantsRecorded
<1>9. GrantsOnce(i, b)'
    BY DEF Link, GrantsOnce
<1>10. GrantEndsRequest(i, b)'
    BY <1>3, <1>5 DEF Link, GrantEndsRequest, q2
<1>11. CountEndsRequest(i, b)'
    BY <1>3, <1>5 DEF CountEndsRequest, q2
<1>12. CountEndsGrant(i, b)'
    BY <1>5 DEF CountEndsGrant
<1> QED
    BY <1>6, <1>7, <1>8, <1>9, <1>10, <1>11, <1>12 DEF Link

\* A new election keeps the inductive invariant.
LEMMA TimeoutNet ==
    ASSUME IInv, TypeInv', NEW i \in Server, Timeout(i)
    PROVE  IInv' /\ TermsGrow
<1>1. TypeInv /\ VoteInv /\ NetRest
    BY DEF IInv, NetRest
<1> DEFINE t == currentTerm[i] + 1
           m == [type |-> "REQUEST_VOTE", term |-> t, candidate |-> i,
                 lastLogIndex |-> LastIndex(log[i]), lastLogTerm |-> LastTerm(log[i])]
           d == Persisted(disk[i], t, i, log[i])
<1>2. /\ state' = [state EXCEPT ![i] = "CANDIDATE"]
      /\ currentTerm' = [currentTerm EXCEPT ![i] = t]
      /\ votedFor' = [votedFor EXCEPT ![i] = i]
      /\ votesReceived' = [votesReceived EXCEPT ![i] = 1]
      /\ voters' = [voters EXCEPT ![i] = {i}]
      /\ disk' = [disk EXCEPT ![i] = d]
      /\ votes' = votes \cup {<<i, t, i>>}
      /\ Broadcast(i, [j \in Server |-> m])
      /\ UNCHANGED <<resp, elected>>
    BY DEF Timeout
<1>3. currentTerm[i] \in Nat /\ log[i] \in Seq(Entry) /\ t \in Nat /\ t > currentTerm[i]
    <2>1. currentTerm[i] \in Nat /\ log[i] \in Seq(Entry)
        BY <1>1 DEF TypeInv, TypeOK
    <2> QED
        BY <2>1
<1>4. m \in Request /\ IsVote(m) /\ m.candidate = i /\ m.term = t
    <2>1. LastIndex(log[i]) \in Nat /\ LastTerm(log[i]) \in Nat
        BY <1>3, TermAtType DEF LastIndex, LastTerm
    <2> QED
        BY <1>3, <2>1 DEF Request, RequestVoteMsg, IsVote
<1>5. IsDisk(d) /\ d.term = t /\ d.vote = i
    BY <1>3, PersistedType DEF Persisted
<1>6. \A b \in Server : \/ req'[i][b] = req[i][b]
                        \/ b # i /\ req'[i][b] = Append(req[i][b], m)
    <2> HIDE DEF m
    <2> QED
        BY <1>1, <1>2 DEF Broadcast, TypeInv, TypeOK
<1>7. \A a, b \in Server : a # i => req'[a][b] = req[a][b]
    <2> HIDE DEF m
    <2> QED
        BY <1>1, <1>2 DEF Broadcast, TypeInv, TypeOK
<1> HIDE DEF m, d
<1>8. VoteInv' /\ \A a \in Server : currentTerm[a] <= currentTerm'[a]
    <2>1. SafeDisk(i, d)
        BY <1>1, <1>3, <1>5, DiskTypes DEF SafeDisk
    <2> QED
        BY <1>1, <1>2, <1>5, <2>1, VoteStep
<1>9. /\ state'[i] = "CANDIDATE" /\ currentTerm'[i] = t /\ voters'[i] = {i}
      /\ votesReceived'[i] = 1
    BY <1>1, <1>2 DEF TypeInv, TypeOK
<1>10. \A a \in Server : a # i => KeepsCandidate(a)
    BY <1>1, <1>2 DEF KeepsCandidate, TypeInv, TypeOK
<1>11. ASSUME NEW a \in Server, NEW b \in Server PROVE Link(a, b)'
    <2>1. CASE a = i
        BY <1>1, <1>2, <1>4, <1>6, <1>9, <2>1, AskLink DEF NetRest, NetInv
    <2>2. CASE a # i
        BY <1>1, <1>2, <1>7, <1>8, <1>10, <2>2, KeepsShapes, LinkFrame DEF NetRest, NetInv
    <2> QED
        BY <2>1, <2>2
<1>12. VotesCountedOnce'
    <2>1. votesReceived'[i] = Cardinality(voters'[i])
          /\ \A j \in voters'[i] : <<j, currentTerm'[i], i>> \in votes'
        <3>1. Cardinality({i}) = 1
            BY FS_Singleton
        <3>2. <<i, t, i>> \in votes'
            <4>1. votes' = votes \cup {<<i, t, i>>}
                BY <1>2
            <4> HIDE DEF t
            <4> QED
                BY <4>1, Zenon
        <3> HIDE DEF t
        <3>3. \A j \in voters'[i] : <<j, currentTerm'[i], i>> \in votes'
            BY <1>9, <3>2
        <3> QED
            BY <1>9, <3>1, <3>3
    <2> QED
        BY <1>1, <1>2, <1>10, <2>1, CountFrame DEF NetRest, VotesCountedOnce
<1>13. ElectedByMajority'
    BY <1>1, <1>2, ElectedFrame DEF NetRest
<1> QED
    BY <1>8, <1>11, <1>12, <1>13 DEF IInv, NetInv, TermsGrow

(* The votes behind the counter after one more reply.                       *)
LEMMA OneMoreVote ==
    ASSUME TypeInv, NetRest, NEW i \in Server, NEW j \in Server, resp[i][j] # <<>>,
           NEW m, m = Head(resp[i][j]), m.type = "REQUEST_VOTE_RESP", CountsVote(i, m),
           NEW W, W = IF m.granted THEN voters[i] \cup {j} ELSE voters[i]
    PROVE  /\ VotesAfter(i, m) = Cardinality(W)
           /\ W \subseteq Server
           /\ \A w \in W : <<w, currentTerm[i], i>> \in votes
<1>1. /\ voters[i] \subseteq Server /\ resp[i][j] \in Seq(Reply) /\ IsFiniteSet(voters[i])
      /\ votesReceived[i] \in Nat
    <2>1. voters[i] \subseteq Server /\ resp[i][j] \in Seq(Reply) /\ votesReceived[i] \in Nat
        BY LinkTypes
    <2> QED
        BY <2>1, ServerAssumption, FS_Subset
<1>2. 1 \in DOMAIN resp[i][j] /\ m = resp[i][j][1]
    BY <1>1
<1>3. /\ votesReceived[i] = Cardinality(voters[i])
      /\ \A w \in voters[i] : <<w, currentTerm[i], i>> \in votes
    BY DEF CountsVote, NetRest, VotesCountedOnce
<1>4. CASE m.granted
    <2>1. IsGrant(resp[i][j][1]) /\ resp[i][j][1].term = currentTerm[i]
        BY <1>2, <1>4 DEF IsGrant, CountsVote
    <2>2. <<j, currentTerm[i], i>> \in votes /\ j \notin voters[i]
        BY <1>2, <2>1 DEF NetRest, NetInv, Link, GrantsRecorded, CountEndsGrant, CountsVote
    <2>3. Cardinality(voters[i] \cup {j}) = Cardinality(voters[i]) + 1
        BY <1>1, <2>2, FS_AddElement
    <2> QED
        BY <1>1, <1>3, <1>4, <2>2, <2>3 DEF VotesAfter
<1>5. CASE ~m.granted
    BY <1>1, <1>3, <1>5 DEF VotesAfter
<1> QED
    BY <1>4, <1>5

\* Counting a vote takes it off its link
LEMMA CountLink ==
    ASSUME TypeInv, TypeInv', NEW i \in Server, NEW j \in Server, NEW b \in Server, Link(i, b),
           b = j => /\ resp[i][j] # <<>> /\ resp'[i][j] = Tail(resp[i][j])
                    /\ IsGrant(Head(resp[i][j])) /\ Head(resp[i][j]).term = currentTerm[i],
           b # j => resp'[i][b] = resp[i][b],
           req'[i][b] = req[i][b], votes' = votes, currentTerm'[i] = currentTerm[i],
           state'[i] = state[i], voters'[i] = voters[i] \cup {j}
    PROVE  Link(i, b)'
<1> DEFINE p  == resp[i][b]
           p2 == resp'[i][b]
<1>1. p \in Seq(Reply)
    BY LinkTypes
<1>2. CASE b # j
    BY <1>2 DEF Link, RequestsOwn, RequestsOnce, GrantsRecorded, GrantsOnce,
                GrantEndsRequest, CountEndsRequest, CountEndsGrant
<1>3. CASE b = j
    <2>1. 1 \in DOMAIN p /\ IsGrant(p[1]) /\ p[1].term = currentTerm[i]
        BY <1>1, <1>3
    <2>2. \A k \in DOMAIN p2 : /\ k \in Nat /\ k >= 1 /\ k + 1 \in DOMAIN p
                               /\ p2[k] = p[k + 1]
        <3>1. p # <<>> /\ p2 = Tail(p)
            BY <1>3
        <3> HIDE DEF p, p2
        <3>2. /\ Len(p) \in Nat /\ Len(p) >= 1 /\ DOMAIN p = 1 .. Len(p)
              /\ DOMAIN p2 = 1 .. Len(p) - 1 /\ \A k \in 1 .. Len(p) - 1 : p2[k] = p[k + 1]
            BY <1>1, <3>1
        <3> QED
            BY <3>2
    <2> HIDE DEF p2
    <2>3. \A k \in DOMAIN p2 : IsGrant(p2[k]) => p2[k].term # currentTerm[i]
        <3>1. SUFFICES ASSUME NEW k \in DOMAIN p2, IsGrant(p2[k]), p2[k].term = currentTerm[i]
                       PROVE  FALSE
            OBVIOUS
        <3>2. k + 1 = 1
            BY <2>1, <2>2, <3>1 DEF Link, GrantsOnce
        <3> QED
            BY <2>2, <3>2
    <2>4. RequestsOwn(i, b)' /\ RequestsOnce(i, b)'
        BY DEF Link, RequestsOwn, RequestsOnce
    <2>5. GrantsRecorded(i, b)'
        BY <2>2 DEF Link, GrantsRecorded, p2
    <2>6. GrantsOnce(i, b)'
        <3>1. ASSUME NEW k \in DOMAIN p2, NEW l \in DOMAIN p2, IsGrant(p2[k]), IsGrant(p2[l]),
                     p2[k].term = p2[l].term
              PROVE  k = l
            <4>1. k + 1 = l + 1
                BY <2>2, <3>1 DEF Link, GrantsOnce
            <4> QED
                BY <2>2, <4>1
        <3> QED
            BY <3>1 DEF GrantsOnce, p2
    <2>7. GrantEndsRequest(i, b)'
        BY <2>2 DEF Link, GrantEndsRequest, p2
    <2>8. CountEndsRequest(i, b)'
        BY <2>1 DEF Link, GrantEndsRequest, CountEndsRequest
    <2>9. CountEndsGrant(i, b)'
        BY <2>3 DEF CountEndsGrant, p2
    <2> QED
        BY <2>4, <2>5, <2>6, <2>7, <2>8, <2>9 DEF Link
<1> QED
    BY <1>2, <1>3

\* Counting a vote, and becoming leader with it, keeps the inductive invariant.
LEMMA ProcessRequestVoteResponseNet ==
    ASSUME IInv, TypeInv', NEW i \in Server, NEW j \in Server, ProcessRequestVoteResponse(i, j)
    PROVE  IInv' /\ TermsGrow
<1>1. TypeInv /\ VoteInv /\ NetRest
    BY DEF IInv, NetRest
<1> DEFINE m == Head(resp[i][j])
           W == IF m.granted THEN voters[i] \cup {j} ELSE voters[i]
<1>2. /\ resp[i][j] # <<>> /\ m.type = "REQUEST_VOTE_RESP" /\ votes' = votes
      /\ resp' = [resp EXCEPT ![i][j] = Tail(resp[i][j])]
    BY DEF ProcessRequestVoteResponse, ConsumeReply
<1>3. /\ resp[i][j] \in Seq(Reply) /\ m \in Reply /\ m.term \in Nat /\ currentTerm[i] \in Nat
      /\ m \in RequestVoteResp /\ m.granted \in BOOLEAN /\ votesReceived[i] \in Nat
    <2>1. resp[i][j] \in Seq(Reply) /\ currentTerm[i] \in Nat /\ votesReceived[i] \in Nat
        BY <1>1, LinkTypes
    <2>2. m \in Reply
        BY <1>2, <2>1
    <2>3. m \in RequestVoteResp
        BY <1>2, <2>2, ReplyKinds
    <2> QED
        BY <2>1, <2>2, <2>3 DEF RequestVoteResp
<1>4. /\ resp'[i][j] = Tail(resp[i][j])
      /\ \A a, b \in Server : <<a, b>> # <<i, j>> => resp'[a][b] = resp[a][b]
    <2>1. resp \in [Server -> [Server -> Seq(Reply)]]
        BY <1>1 DEF TypeInv, TypeOK
    <2> QED
        BY <1>2, <2>1
<1>5. \A a, b \in Server : KeepsGrants(a, b)
    BY <1>1, <1>2, <1>4, KeepsShapes
<1>6. /\ DOMAIN state = Server /\ DOMAIN currentTerm = Server /\ DOMAIN voters = Server
      /\ DOMAIN votesReceived = Server
    BY <1>1 DEF TypeInv, TypeOK
<1>7. ASSUME /\ StepsDown(i, m.term)
             /\ BecomeFollower(i, m.term)
             /\ votedFor' = [votedFor EXCEPT ![i] = Nil]
             /\ disk' = [disk EXCEPT ![i] = DiskAfter(i, m.term)]
             /\ UNCHANGED <<votesReceived, req, voters, elected>>
      PROVE  IInv' /\ TermsGrow
    <2> DEFINE d == DiskAfter(i, m.term)
    <2>1. SafeDisk(i, d) /\ d.term = TermAfter(i, m.term) /\ d.vote = Nil
        BY <1>1, <1>3, <1>7, StepDownSafe DEF VoteAfter
    <2>2. /\ currentTerm' = [currentTerm EXCEPT ![i] = TermAfter(i, m.term)]
          /\ state' = [state EXCEPT ![i] = "FOLLOWER"]
        BY <1>7 DEF BecomeFollower
    <2> HIDE DEF d
    <2>3. VoteInv' /\ \A a \in Server : currentTerm[a] <= currentTerm'[a]
        BY <1>1, <1>2, <1>7, <2>1, <2>2, VoteStep DEF d
    <2>4. \A a \in Server : KeepsCandidate(a)
        BY <1>6, <1>7, <2>2 DEF KeepsCandidate
    <2>5. \A a, b \in Server : KeepsRequests(a, b)
        BY <1>1, <1>7, KeepsShapes
    <2>6. NetRest'
        BY <1>1, <1>2, <1>5, <1>7, <2>3, <2>4, <2>5, NetFrame
    <2> QED
        BY <2>3, <2>6 DEF IInv, NetRest, TermsGrow
<1>8. ASSUME UNCHANGED <<currentTerm, votedFor, disk>>
      PROVE  VoteInv' /\ \A a \in Server : currentTerm[a] <= currentTerm'[a]
    BY <1>1, <1>2, <1>8 DEF VoteInv, VotesDurable, OneVotePerTerm, MemoryOnDisk, TypeInv, TypeOK
<1>9. ASSUME UNCHANGED <<currentTerm, votedFor, state, disk, votesReceived, req, voters, elected>>
      PROVE  IInv' /\ TermsGrow
    <2>1. \A a \in Server : KeepsCandidate(a)
        BY <1>9 DEF KeepsCandidate
    <2>2. \A a, b \in Server : KeepsRequests(a, b)
        BY <1>1, <1>9, KeepsShapes
    <2>3. NetRest'
        BY <1>1, <1>2, <1>5, <1>8, <1>9, <2>1, <2>2, NetFrame
    <2> QED
        BY <1>8, <1>9, <2>3 DEF IInv, NetRest, TermsGrow
<1>10. ASSUME CountsVote(i, m)
       PROVE  /\ VotesAfter(i, m) = Cardinality(W) /\ W \subseteq Server
              /\ \A w \in W : <<w, currentTerm[i], i>> \in votes
    BY <1>1, <1>2, <1>10, OneMoreVote, ZenonT(30)
<1>11. ASSUME /\ CountsVote(i, m)
              /\ votesReceived' = [votesReceived EXCEPT ![i] = VotesAfter(i, m)]
              /\ voters' = [voters EXCEPT ![i] = W]
              /\ UNCHANGED <<currentTerm, votedFor, disk>>
              /\ UNCHANGED <<state, req, elected>>
       PROVE  IInv' /\ TermsGrow
    <2>1. CASE ~m.granted
        <3>1. W = voters[i] /\ VotesAfter(i, m) = votesReceived[i]
            BY <1>3, <2>1 DEF VotesAfter
        <3>2. UNCHANGED <<votesReceived, voters>>
            <4>1. /\ votesReceived' = [votesReceived EXCEPT ![i] = votesReceived[i]]
                  /\ voters' = [voters EXCEPT ![i] = voters[i]]
                BY <1>11, <3>1
            <4>2. votesReceived \in [Server -> Nat] /\ voters \in [Server -> SUBSET Server]
                BY <1>1 DEF TypeInv, TypeOK
            <4>3. votesReceived' = votesReceived
                BY <4>1, <4>2
            <4>4. voters' = voters
                BY <4>1, <4>2
            <4> QED
                BY <4>3, <4>4
        <3> QED
            BY <1>9, <1>11, <3>2
    <2>2. CASE m.granted
        <3>1. IsGrant(m) /\ m.term = currentTerm[i] /\ voters'[i] = voters[i] \cup {j}
            BY <1>2, <1>6, <1>11, <2>2 DEF IsGrant, CountsVote
        <3>2. \A a \in Server : a # i => KeepsCandidate(a)
            BY <1>6, <1>11 DEF KeepsCandidate
        <3>3. ASSUME NEW a \in Server, NEW b \in Server PROVE Link(a, b)'
            <4>0. Link(a, b)
                BY <1>1 DEF NetRest, NetInv
            <4>1. CASE a = i
                BY <1>1, <1>2, <1>4, <1>11, <3>1, <4>0, <4>1, CountLink
            <4>2. CASE a # i
                <5>1. KeepsRequests(a, b)
                    BY <1>1, <1>11, KeepsShapes
                <5> QED
                    BY <1>1, <1>2, <1>5, <1>8, <1>11, <3>2, <4>0, <4>2, <5>1, LinkFrame
            <4> QED
                BY <4>1, <4>2
        <3>4. VotesCountedOnce'
            <4>1. votesReceived'[i] = Cardinality(voters'[i])
                  /\ \A k \in voters'[i] : <<k, currentTerm'[i], i>> \in votes'
                BY <1>2, <1>6, <1>10, <1>11
            <4> QED
                BY <1>1, <1>2, <3>2, <4>1, CountFrame DEF NetRest, VotesCountedOnce
        <3>5. ElectedByMajority'
            BY <1>1, <1>2, <1>11, ElectedFrame DEF NetRest
        <3> QED
            BY <1>8, <1>11, <3>3, <3>4, <3>5 DEF IInv, NetInv, TermsGrow
    <2> QED
        BY <2>1, <2>2
<1>12. ASSUME /\ CountsVote(i, m)
              /\ voters' = [voters EXCEPT ![i] = W]
              /\ votesReceived' = [votesReceived EXCEPT ![i] = VotesAfter(i, m)]
              /\ UNCHANGED <<currentTerm, votedFor, disk>>
              /\ VotesAfter(i, m) >= Half + 1
              /\ BecomeLeader(i)
       PROVE  IInv' /\ TermsGrow
    <2>1. state' = [state EXCEPT ![i] = "LEADER"] /\ elected' = elected \cup {<<currentTerm[i], i>>}
        BY <1>12 DEF BecomeLeader
    <2>2. \A a, b \in Server : KeepsRequests(a, b)
        <3> DEFINE ni == [k \in Server |-> LastIndex(log[i]) + 1]
        <3>1. log[i] \in Seq(Entry)
            BY <1>1 DEF TypeInv, TypeOK
        <3>2. ni \in [Server -> Nat] /\ \A k \in Server : ni[k] >= 1
            BY <3>1 DEF LastIndex
        <3>3. SendAppendEntries(i, log[i], ni, TRUE)
            BY <1>12 DEF BecomeLeader
        <3> HIDE DEF ni
        <3> QED
            BY <1>1, <3>1, <3>2, <3>3, SendKeeps
    <2>3. \A a \in Server : a # i \/ state'[a] = "CANDIDATE" => KeepsCandidate(a)
        BY <1>6, <1>12, <2>1 DEF KeepsCandidate
    <2>4. NetInv'
        BY <1>1, <1>2, <1>5, <1>8, <1>12, <2>2, <2>3, LinkFrame DEF NetInv, NetRest
    <2>5. VotesCountedOnce'
        <3>1. votesReceived'[i] = Cardinality(voters'[i])
              /\ \A k \in voters'[i] : <<k, currentTerm'[i], i>> \in votes'
            BY <1>2, <1>6, <1>10, <1>12
        <3> QED
            BY <1>1, <1>2, <2>3, <3>1, CountFrame DEF NetRest, VotesCountedOnce
    <2>6. ElectedByMajority'
        <3> HIDE DEF W
        <3>1. Cardinality(W) > Half /\ W \subseteq Server
              /\ \A w \in W : <<w, currentTerm[i], i>> \in votes
            <4>1. VotesAfter(i, m) \in Nat
                BY <1>3 DEF VotesAfter
            <4> QED
                BY <1>10, <1>12, <4>1, HalfType
        <3>2. ASSUME NEW e \in elected'
              PROVE  \E Q \in SUBSET Server :
                        Cardinality(Q) > Half /\ \A q \in Q : <<q, e[1], e[2]>> \in votes'
            <4>1. CASE e \in elected
                BY <1>1, <1>2, <4>1 DEF NetRest, ElectedByMajority
            <4>2. CASE e = <<currentTerm[i], i>>
                BY <1>2, <3>1, <4>2
            <4> QED
                BY <2>1, <4>1, <4>2
        <3> QED
            BY <3>2 DEF ElectedByMajority, Half
    <2> QED
        BY <1>8, <1>12, <2>4, <2>5, <2>6 DEF IInv, TermsGrow
<1> HIDE DEF m
<1>13. \/ /\ StepsDown(i, m.term)
          /\ BecomeFollower(i, m.term)
          /\ votedFor' = [votedFor EXCEPT ![i] = Nil]
          /\ disk' = [disk EXCEPT ![i] = DiskAfter(i, m.term)]
          /\ UNCHANGED <<votesReceived, req, voters, elected>>
       \/ /\ CountsVote(i, m)
          /\ votesReceived' = [votesReceived EXCEPT ![i] = VotesAfter(i, m)]
          /\ voters' = [voters EXCEPT ![i] = W]
          /\ UNCHANGED <<currentTerm, votedFor, disk>>
          /\ \/ VotesAfter(i, m) >= Half + 1 /\ BecomeLeader(i)
             \/ UNCHANGED <<state, req, elected>>
       \/ UNCHANGED <<currentTerm, votedFor, state, disk, votesReceived, req, voters, elected>>
    BY DEF ProcessRequestVoteResponse, m
<1> HIDE DEF W
<1> QED
    BY <1>7, <1>9, <1>11, <1>12, <1>13

-----------------------------------------------------------------------------
(* The invariant *)

\* The inductive invariant holds at the start.
LEMMA InitIInv == Init => IInv
<1> SUFFICES ASSUME Init PROVE IInv
    OBVIOUS
<1>1. TypeInv
    BY InitTypeInv
<1>2. VoteInv
    BY DEF Init, VoteInv, VotesDurable, OneVotePerTerm, MemoryOnDisk
<1>3. NetInv
    BY DEF Init, NetInv, Link, RequestsOwn, RequestsOnce, GrantsRecorded, GrantsOnce,
           GrantEndsRequest, CountEndsRequest, CountEndsGrant
<1>4. VotesCountedOnce /\ ElectedByMajority
    BY DEF Init, VotesCountedOnce, ElectedByMajority
<1> QED
    BY <1>1, <1>2, <1>3, <1>4 DEF IInv

\* Every step keeps the inductive invariant and lets no term go back.
LEMMA NextIInv == IInv /\ [Next]_vars => IInv' /\ TermsGrow
<1> SUFFICES ASSUME IInv, [Next]_vars PROVE IInv' /\ TermsGrow
    OBVIOUS
<1>1. TypeInv
    BY DEF IInv
<1>2. CASE UNCHANGED vars
    <2>1. TypeInv'
        BY <1>1, <1>2 DEF vars, TypeInv, TypeOK, Progress, NextIndexPositive
    <2>2. VoteInv'
        BY <1>2 DEF vars, IInv, VoteInv, VotesDurable, OneVotePerTerm, MemoryOnDisk
    <2>3. \A a, b \in Server : KeepsRequests(a, b) /\ KeepsGrants(a, b)
        BY <1>1, <1>2, KeepsShapes DEF vars
    <2>4. \A a \in Server : KeepsCandidate(a) /\ currentTerm[a] <= currentTerm'[a]
        BY <1>1, <1>2 DEF vars, KeepsCandidate, TypeInv, TypeOK
    <2>5. NetRest'
        BY <1>1, <1>2, <2>1, <2>3, <2>4, NetFrame DEF vars, IInv, NetRest
    <2> QED
        BY <2>1, <2>2, <2>4, <2>5 DEF IInv, NetRest, TermsGrow
<1>3. ASSUME NEW i \in Server, NodeStep(i) PROVE IInv' /\ TermsGrow
    <2>1. CASE Timeout(i)
        BY <1>1, <2>1, TimeoutType, TimeoutNet
    <2>2. ASSUME NEW due \in BOOLEAN, LeaderTick(i, due) PROVE IInv' /\ TermsGrow
        BY <1>1, <2>2, LeaderTickType, LeaderTickNet
    <2> QED
        BY <1>3, <2>1, <2>2 DEF NodeStep
<1>4. ASSUME NEW i \in Server, NEW j \in Server, ConnStep(i, j) PROVE IInv' /\ TermsGrow
    <2>1. CASE HandleRequestVote(i, j)
        BY <1>1, <2>1, HandleRequestType, HandleRequestVoteNet
    <2>2. CASE HandleAppendEntries(i, j)
        BY <1>1, <2>2, HandleRequestType, HandleAppendEntriesNet
    <2>3. CASE ProcessRequestVoteResponse(i, j)
        BY <1>1, <2>3, ProcessRequestVoteResponseType, ProcessRequestVoteResponseNet
    <2>4. CASE ProcessAppendEntriesResponse(i, j)
        BY <1>1, <2>4, ProcessAppendEntriesResponseType, ProcessAppendEntriesResponseNet
    <2>5. CASE Connect(i, j) \/ Break(i, j)
        BY <1>1, <2>5, ConnectionType, ConnectionNet
    <2> QED
        BY <1>4, <2>1, <2>2, <2>3, <2>4, <2>5 DEF ConnStep
<1>5. ASSUME NEW o \in orphans, HandleOrphan(o) PROVE IInv' /\ TermsGrow
    BY <1>1, <1>5, HandleOrphanType, HandleOrphanNet
<1>6. ASSUME NEW i \in Server, NEW v \in Value, Propose(i, v) PROVE IInv' /\ TermsGrow
    BY <1>1, <1>6, ProposeType, ProposeNet
<1>7. ASSUME NEW i \in Server, CrashStep(i) PROVE IInv' /\ TermsGrow
    BY <1>7, CrashNet
<1> QED
    BY <1>2, <1>3, <1>4, <1>5, <1>6, <1>7 DEF Next, RunStep

\* The inductive invariant holds in every state the nodes, their connections and their
\* crashes can reach, for any number of nodes and without the bounds of the runs.
THEOREM Invariance == Spec => []IInv
    BY InitIInv, NextIInv, PTL DEF Spec

\* Every handler of RaftNode keeps its fields, its messages and its disk of their types;
\* the indices it computes by subtraction do not leave the naturals.
THEOREM TypeCorrect == Spec => []TypeOK
<1>1. IInv => TypeOK
    BY DEF IInv, TypeInv
<1> QED
    BY <1>1, Invariance, PTL

\* nextIndex_ of a leader never reaches 0, whatever rejections it reads.
THEOREM NextIndexStaysPositive == Spec => []NextIndexPositive
<1>1. IInv => NextIndexPositive
    BY DEF IInv, TypeInv, Progress
<1> QED
    BY <1>1, Invariance, PTL

\* applyEntries hands only existing entries of log_ to applyCb_.
THEOREM AppliesExistingEntries == Spec => []AppliedEntriesExist
<1>1. IInv => AppliedEntriesExist
    <2>1. SUFFICES ASSUME IInv, NEW i \in Server, NEW k \in DOMAIN applied[i]
                   PROVE  applied[i][k] # NoEntry
        BY DEF AppliedEntriesExist
    <2>2. applied[i] \in Seq(Entry)
        BY <2>1 DEF IInv, TypeInv, Progress
    <2>3. applied[i][k] \in Entry
        BY <2>1, <2>2
    <2> QED
        BY <2>3, CommandAssumption DEF Entry, NoEntry
<1> QED
    BY <1>1, Invariance, PTL

\* A vote given is on disk, through every crash inside persistRaftState.
THEOREM VotesStayDurable == Spec => []VotesDurable
<1>1. IInv => VotesDurable
    BY DEF IInv, VoteInv
<1> QED
    BY <1>1, Invariance, PTL

\* The counter votesReceived_ of a candidate counts different voters of its term.
THEOREM EveryVoteCountsOnce == Spec => []VotesCountedOnce
<1>1. IInv => VotesCountedOnce
    BY DEF IInv
<1> QED
    BY <1>1, Invariance, PTL

\* Two majorities share a voter, and a voter votes once per term.
LEMMA MajoritiesMeet == IInv => ElectionSafety
<1>1. SUFFICES ASSUME IInv, NEW a \in elected, NEW b \in elected, a[1] = b[1]
               PROVE  a[2] = b[2]
    BY DEF ElectionSafety
<1>2. PICK P \in SUBSET Server :
          Cardinality(P) > Half /\ \A q \in P : <<q, a[1], a[2]>> \in votes
    BY <1>1 DEF IInv, ElectedByMajority
<1>3. PICK Q \in SUBSET Server :
          Cardinality(Q) > Half /\ \A q \in Q : <<q, b[1], b[2]>> \in votes
    BY <1>1 DEF IInv, ElectedByMajority
<1>4. P \cap Q # {}
    <2>1. /\ IsFiniteSet(P) /\ IsFiniteSet(Q)
          /\ Cardinality(P) \in Nat /\ Cardinality(Q) \in Nat /\ Cardinality(Server) \in Nat
        BY ServerAssumption, FS_Subset, FS_CardinalityType
    <2>2. Cardinality(P) + Cardinality(Q) > Cardinality(Server)
        BY <1>2, <1>3, <2>1, HalfType
    <2> QED
        BY <2>2, ServerAssumption, FS_MajoritiesIntersect
<1>5. PICK q \in P \cap Q : TRUE
    BY <1>4
<1>6. <<q, a[1], a[2]>> \in votes /\ <<q, b[1], b[2]>> \in votes
    BY <1>2, <1>3, <1>5
<1> QED
    BY <1>1, <1>6 DEF IInv, VoteInv, OneVotePerTerm

\* becomeLeader runs in at most one node per term: two majorities share a voter, and a
\* voter votes once per term.
THEOREM AtMostOneLeaderPerTerm == Spec => []ElectionSafety
    BY MajoritiesMeet, Invariance, PTL

\* currentTerm_ never goes back: no handler lowers it, and what recoverRaftState reads
\* after any crash is at least the term the node had.
THEOREM TermNeverGoesBack == Spec => TermMonotonic
<1>1. IInv /\ [Next]_vars => [\A i \in Server : currentTerm'[i] >= currentTerm[i]]_vars
    <2>1. SUFFICES ASSUME IInv, [Next]_vars, NEW i \in Server
                   PROVE  currentTerm'[i] >= currentTerm[i]
        OBVIOUS
    <2>2. IInv' /\ TermsGrow
        BY <2>1, NextIInv
    <2>3. currentTerm[i] \in Nat /\ currentTerm'[i] \in Nat
        BY <2>1, <2>2 DEF IInv, TypeInv, TypeOK
    <2> QED
        BY <2>2, <2>3 DEF TermsGrow
<1> QED
    BY <1>1, Invariance, PTL DEF Spec, TermMonotonic

-----------------------------------------------------------------------------
(***************************************************************************)
(* The leaders of Raft, on top of the invariant IInv: the hints of the     *)
(* nodes, the logs of leaders, the refinement of Election and, as long as  *)
(* no node has crashed, log matching.                                      *)
(***************************************************************************)

-----------------------------------------------------------------------------
(* Messages of leaders *)

\* The AppendEntries on their way to each node, on a connection or left over from one
Flying ==
    {f \in Server \X AppendEntriesMsg :
        \/ \E a \in Server : \E k \in DOMAIN req[a][f[1]] : req[a][f[1]][k] = f[2]
        \/ [to |-> f[1], msg |-> f[2]] \in orphans}

\* What sendAppendEntries of node i puts on its way
SentBy(i, lg, ni, hb) == {<<j, AppendEntriesTo(i, lg, ni, j, hb)>> : j \in Peers(i)}

\* AppendEntries never come out of nothing: a step that only takes from the connections
\* leaves no more on its way.
LEMMA TakenFlies ==
    ASSUME TypeInv,
           \A a, b \in Server : \A k \in DOMAIN req'[a][b] :
               \/ \E l \in DOMAIN req[a][b] : req'[a][b][k] = req[a][b][l]
               \/ req'[a][b][k].type = "REQUEST_VOTE",
           \A o \in orphans' : \/ o \in orphans
                               \/ \E a, b \in Server : o \in Orphaned(a, b)
    PROVE  Flying' \subseteq Flying
<1> SUFFICES ASSUME NEW f \in Flying' PROVE f \in Flying
    OBVIOUS
<1>1. f \in Server \X AppendEntriesMsg /\ f[1] \in Server /\ f[2] \in AppendEntriesMsg
    BY DEF Flying
<1>2. f[2].type = "APPEND_ENTRIES"
    BY <1>1 DEF AppendEntriesMsg
<1>3. CASE \E a \in Server : \E k \in DOMAIN req'[a][f[1]] : req'[a][f[1]][k] = f[2]
    <2>1. PICK a \in Server : \E k \in DOMAIN req'[a][f[1]] : req'[a][f[1]][k] = f[2]
        BY <1>3
    <2>2. \E l \in DOMAIN req[a][f[1]] : req[a][f[1]][l] = f[2]
        BY <1>1, <1>2, <2>1
    <2> QED
        BY <1>1, <2>2 DEF Flying
<1>4. CASE [to |-> f[1], msg |-> f[2]] \in orphans'
    <2>1. CASE [to |-> f[1], msg |-> f[2]] \in orphans
        BY <1>1, <2>1 DEF Flying
    <2>2. CASE \E a, b \in Server : [to |-> f[1], msg |-> f[2]] \in Orphaned(a, b)
        <3>1. PICK a \in Server, b \in Server : [to |-> f[1], msg |-> f[2]] \in Orphaned(a, b)
            BY <2>2
        <3>2. PICK k \in DOMAIN req[a][b] :
                  [to |-> f[1], msg |-> f[2]] = [to |-> b, msg |-> req[a][b][k]]
            BY <3>1 DEF Orphaned
        <3>3. f[1] = b /\ f[2] = req[a][b][k]
            BY <3>2
        <3> QED
            BY <1>1, <3>3 DEF Flying
    <2> QED
        BY <1>4, <2>1, <2>2
<1> QED
    BY <1>3, <1>4 DEF Flying

\* sendAppendEntries adds its own messages, none of them to the sender.
LEMMA SendFlies ==
    ASSUME TypeInv, NEW i \in Server, NEW lg \in Seq(Entry), NEW ni \in [Server -> Nat],
           \A j \in Server : ni[j] >= 1, NEW hb \in BOOLEAN,
           SendAppendEntries(i, lg, ni, hb), orphans' = orphans
    PROVE  Flying' \subseteq Flying \cup SentBy(i, lg, ni, hb)
<1> SUFFICES ASSUME NEW f \in Flying', f \notin Flying PROVE f \in SentBy(i, lg, ni, hb)
    OBVIOUS
<1>1. f \in Server \X AppendEntriesMsg /\ f[1] \in Server /\ f[2] \in AppendEntriesMsg
      /\ f = <<f[1], f[2]>>
    BY DEF Flying
<1>2. PICK a \in Server : \E k \in DOMAIN req'[a][f[1]] : req'[a][f[1]][k] = f[2]
    BY <1>1 DEF Flying
<1>3. PICK k \in DOMAIN req'[a][f[1]] : req'[a][f[1]][k] = f[2]
    BY <1>2
<1> DEFINE msg == [j \in Server |-> AppendEntriesTo(i, lg, ni, j, hb)]
<1>4. req \in [Server -> [Server -> Seq(Request)]]
    BY DEF TypeInv, TypeOK
<1>5. req' = [req EXCEPT ![i] = [j \in Server |->
                 IF j # i /\ conn[i][j] = "connected"
                 THEN Append(req[i][j], msg[j]) ELSE req[i][j]]]
    BY DEF SendAppendEntries, Broadcast
<1>6. \A l \in DOMAIN req[a][f[1]] : req[a][f[1]][l] # f[2]
    BY <1>1 DEF Flying
<1>7. a = i /\ f[1] # i /\ req'[i][f[1]] = Append(req[i][f[1]], msg[f[1]])
    <2> HIDE DEF msg
    <2>1. req'[a][f[1]] # req[a][f[1]]
        BY <1>3, <1>6
    <2> QED
        BY <1>1, <1>4, <1>5, <2>1
<1>8. f[2] = msg[f[1]]
    <2> HIDE DEF msg
    <2>1. req[i][f[1]] \in Seq(Request)
        BY <1>1, <1>4
    <2>2. k \in 1 .. Len(req[i][f[1]]) + 1
        BY <1>3, <1>7, <2>1
    <2>3. CASE k \in DOMAIN req[i][f[1]]
        <3>1. req'[i][f[1]][k] = req[i][f[1]][k]
            BY <1>7, <2>1, <2>3
        <3> QED
            BY <1>3, <1>6, <1>7, <2>3, <3>1
    <2>4. CASE k = Len(req[i][f[1]]) + 1
        BY <1>3, <1>7, <2>1, <2>4
    <2>5. DOMAIN req[i][f[1]] = 1 .. Len(req[i][f[1]]) /\ Len(req[i][f[1]]) \in Nat
        BY <2>1
    <2> QED
        BY <2>2, <2>3, <2>4, <2>5
<1>9. f = <<f[1], AppendEntriesTo(i, lg, ni, f[1], hb)>> /\ f[1] \in Peers(i)
    BY <1>1, <1>7, <1>8 DEF Peers
<1> QED
    BY <1>9 DEF SentBy

-----------------------------------------------------------------------------
(* What is known about leaders *)

\* A node has reached the terms it has won, all of them above 0
ElectedReached == \A e \in elected : 1 <= e[1] /\ e[1] <= currentTerm[e[2]]

\* A candidate has started a term and not won it; a leader has won the term it is in
CandidatesReached ==
    \A i \in Server : state[i] = "CANDIDATE" =>
        currentTerm[i] >= 1 /\ <<currentTerm[i], i>> \notin elected
LeadersElected == \A i \in Server : state[i] = "LEADER" => <<currentTerm[i], i>> \in elected

\* AppendEntries come from winners and do not go to themselves
AppendsElected ==
    \A f \in Flying : f[2].leader # f[1] /\ <<f[2].term, f[2].leader>> \in elected

\* The node another one names has won a term after all those the other one has won
HintsLater ==
    \A i \in Server : leaderId[i] \notin {Nil, i} =>
        \E e \in elected : /\ e[2] = leaderId[i]
                           /\ \A d \in elected : d[2] = i => d[1] < e[1]

LeaderInv == /\ ElectedReached /\ CandidatesReached /\ LeadersElected
             /\ AppendsElected /\ LeaderHintElected /\ HintsLater

\* Whoever wins in a step is then a leader who names itself
WinsAsLeader ==
    /\ elected \subseteq elected'
    /\ \A e \in elected' \ elected : \E i \in Server :
          e = <<currentTerm'[i], i>> /\ leaderId'[i] = i /\ currentTerm'[i] >= 1

\* After a step a hint is the old one, none, the node itself having won, or the leader of
\* an AppendEntries of the term the node is in
HintMoves(i) ==
    \/ leaderId'[i] \in {Nil, leaderId[i]}
    \/ leaderId'[i] = i /\ <<currentTerm'[i], i>> \in elected'
    \/ \E f \in Flying : /\ f[1] = i /\ f[2].term = currentTerm'[i]
                         /\ leaderId'[i] = f[2].leader

\* At most one node wins a term, after a step as before it.
LEMMA MajoritiesMeetAgain == IInv' => ElectionSafety'
    BY MajoritiesMeet, PTL

\* A step that moves hints and messages this way keeps what is known about leaders.
LEMMA LeaderFrame ==
    ASSUME IInv, IInv', TermsGrow, LeaderInv, WinsAsLeader,
           LeadersElected', CandidatesReached',
           \A f \in Flying' : \/ f \in Flying
                              \/ f[2].leader # f[1] /\ <<f[2].term, f[2].leader>> \in elected',
           \A i \in Server : HintMoves(i)
    PROVE  LeaderInv'
<1>0. /\ \A i \in Server : /\ currentTerm[i] \in Nat /\ currentTerm'[i] \in Nat
                            /\ currentTerm[i] <= currentTerm'[i]
                            /\ leaderId[i] \in Server \cup {Nil}
      /\ \A e \in elected : e[1] \in Nat /\ e[2] \in Server /\ e = <<e[1], e[2]>>
      /\ \A e \in elected' : e[1] \in Nat /\ e[2] \in Server /\ e = <<e[1], e[2]>>
      /\ Nil \notin Server
    <2>1. elected \subseteq Nat \X Server /\ elected' \subseteq Nat \X Server
        BY DEF IInv, TypeInv, TypeOK
    <2>2. /\ currentTerm \in [Server -> Nat] /\ currentTerm' \in [Server -> Nat]
          /\ leaderId \in [Server -> Server \cup {Nil}]
        BY DEF IInv, TypeInv, TypeOK
    <2>3. \A i \in Server : currentTerm[i] <= currentTerm'[i]
        BY DEF TermsGrow
    <2>4. \A i \in Server : /\ currentTerm[i] \in Nat /\ currentTerm'[i] \in Nat
                             /\ leaderId[i] \in Server \cup {Nil}
        BY <2>2
    <2>5. /\ \A e \in elected : e[1] \in Nat /\ e[2] \in Server /\ e = <<e[1], e[2]>>
          /\ \A e \in elected' : e[1] \in Nat /\ e[2] \in Server /\ e = <<e[1], e[2]>>
        BY <2>1
    <2> QED
        BY <2>3, <2>4, <2>5, ServerAssumption
<1>1. ElectedReached'
    <2> SUFFICES ASSUME NEW e \in elected' PROVE 1 <= e[1] /\ e[1] <= currentTerm'[e[2]]
        BY DEF ElectedReached
    <2>1. CASE e \in elected
        BY <1>0, <2>1 DEF LeaderInv, ElectedReached
    <2>2. CASE e \notin elected
        BY <1>0, <2>2 DEF WinsAsLeader
    <2> QED
        BY <2>1, <2>2
<1>2. AppendsElected'
    <2> SUFFICES ASSUME NEW f \in Flying'
                 PROVE  f[2].leader # f[1] /\ <<f[2].term, f[2].leader>> \in elected'
        BY DEF AppendsElected
    <2>1. CASE f \in Flying
        BY <2>1 DEF LeaderInv, AppendsElected, WinsAsLeader
    <2> QED
        BY <2>1
<1>3. LeaderHintElected'
    <2> SUFFICES ASSUME NEW i \in Server, leaderId'[i] # Nil
                 PROVE  \E t \in 1 .. currentTerm'[i] : <<t, leaderId'[i]>> \in elected'
        BY DEF LeaderHintElected
    <2>1. CASE leaderId'[i] = leaderId[i]
        <3>1. PICK t \in 1 .. currentTerm[i] : <<t, leaderId[i]>> \in elected
            BY <2>1 DEF LeaderInv, LeaderHintElected
        <3> QED
            BY <1>0, <2>1, <3>1 DEF WinsAsLeader
    <2>2. CASE leaderId'[i] = i /\ <<currentTerm'[i], i>> \in elected'
        BY <1>0, <1>1, <2>2 DEF ElectedReached
    <2>3. CASE \E f \in Flying : /\ f[1] = i /\ f[2].term = currentTerm'[i]
                                 /\ leaderId'[i] = f[2].leader
        <3>1. <<currentTerm'[i], leaderId'[i]>> \in elected'
            BY <2>3 DEF LeaderInv, AppendsElected, WinsAsLeader
        <3> QED
            BY <1>0, <1>1, <3>1 DEF ElectedReached
    <2> QED
        BY <2>1, <2>2, <2>3 DEF HintMoves
<1>4. HintsLater'
    <2> SUFFICES ASSUME NEW i \in Server, leaderId'[i] \notin {Nil, i}
                 PROVE  \E e \in elected' : /\ e[2] = leaderId'[i]
                                            /\ \A d \in elected' : d[2] = i => d[1] < e[1]
        BY DEF HintsLater
    <2>1. CASE leaderId'[i] = leaderId[i]
        <3>1. PICK e \in elected : /\ e[2] = leaderId[i]
                                  /\ \A d \in elected : d[2] = i => d[1] < e[1]
            BY <2>1 DEF LeaderInv, HintsLater
        <3>2. ASSUME NEW d \in elected', d[2] = i PROVE d \in elected
            BY <1>0, <3>2 DEF WinsAsLeader
        <3> QED
            BY <2>1, <3>1, <3>2 DEF WinsAsLeader
    <2>2. CASE \E f \in Flying : /\ f[1] = i /\ f[2].term = currentTerm'[i]
                                 /\ leaderId'[i] = f[2].leader
        <3> DEFINE e == <<currentTerm'[i], leaderId'[i]>>
        <3>1. e \in elected'
            BY <2>2 DEF LeaderInv, AppendsElected, WinsAsLeader
        <3>2. ASSUME NEW d \in elected', d[2] = i PROVE d[1] < currentTerm'[i]
            <4>1. d[1] <= currentTerm'[i] /\ d[1] \in Nat
                BY <1>0, <1>1, <3>2 DEF ElectedReached
            <4>2. d[1] # currentTerm'[i]
                <5>1. ElectionSafety'
                    BY MajoritiesMeetAgain
                <5> QED
                    BY <3>1, <3>2, <5>1 DEF ElectionSafety
            <4> QED
                BY <1>0, <4>1, <4>2
        <3> QED
            BY <3>1, <3>2
    <2> QED
        BY <2>1, <2>2 DEF HintMoves
<1> QED
    BY <1>1, <1>2, <1>3, <1>4 DEF LeaderInv

-----------------------------------------------------------------------------
(* Every action moves hints and messages this way *)

\* The only AppendEntries a step puts on their way are those of a leader, from the log it
\* has after the step
FlightMoves ==
    \/ Flying' \subseteq Flying
    \/ \E i \in Server, ni \in [Server -> Nat], hb \in BOOLEAN :
          /\ <<currentTerm[i], i>> \in elected' /\ \A j \in Server : ni[j] >= 1
          /\ Flying' \subseteq Flying \cup SentBy(i, log'[i], ni, hb)

\* A node that leads after a step has won or kept the term it was in
LeadersStay ==
    \A i \in Server : state'[i] = "LEADER" =>
        state[i] # "FOLLOWER" /\ currentTerm'[i] = currentTerm[i]

\* What a step does to leaders, hints and messages
LeaderStep == /\ WinsAsLeader /\ LeadersElected' /\ CandidatesReached'
              /\ FlightMoves /\ LeadersStay /\ \A i \in Server : HintMoves(i)

\* A step that starts no candidacy and wins no election leaves the leaders and candidates
\* in the terms they had.
LEMMA NobodyWins ==
    ASSUME LeaderInv, \A a \in Server : KeepsCandidate(a), elected' = elected
    PROVE  WinsAsLeader /\ LeadersElected' /\ CandidatesReached' /\ LeadersStay
<1>1. WinsAsLeader /\ LeadersStay
    BY DEF WinsAsLeader, LeadersStay, KeepsCandidate
<1>2. LeadersElected'
    BY DEF LeaderInv, LeadersElected, KeepsCandidate
<1>3. CandidatesReached'
    BY DEF LeaderInv, CandidatesReached, KeepsCandidate
<1> QED
    BY <1>1, <1>2, <1>3

\* What a leader sends comes from a winner.
LEMMA SentElected ==
    ASSUME NEW i \in Server, NEW lg, NEW ni, NEW hb, <<currentTerm[i], i>> \in elected'
    PROVE  \A f \in SentBy(i, lg, ni, hb) :
               f[2].leader # f[1] /\ <<f[2].term, f[2].leader>> \in elected'
    BY DEF SentBy, AppendEntriesTo, Peers

\* So whatever a step puts on its way comes from a winner, and not to itself.
LEMMA NewFlightElected ==
    ASSUME FlightMoves
    PROVE  \A f \in Flying' :
               \/ f \in Flying
               \/ f[2].leader # f[1] /\ <<f[2].term, f[2].leader>> \in elected'
<1>1. CASE Flying' \subseteq Flying
    BY <1>1
<1>2. CASE ~(Flying' \subseteq Flying)
    <2>1. PICK i \in Server, ni \in [Server -> Nat], hb \in BOOLEAN :
              /\ <<currentTerm[i], i>> \in elected' /\ \A j \in Server : ni[j] >= 1
              /\ Flying' \subseteq Flying \cup SentBy(i, log'[i], ni, hb)
        BY <1>2 DEF FlightMoves
    <2> QED
        BY <2>1, SentElected
<1> QED
    BY <1>1, <1>2

\* becomeCandidate forgets the leader and sends no AppendEntries.
LEMMA TimeoutLeader ==
    ASSUME IInv, LeaderInv, NEW i \in Server, Timeout(i)
    PROVE  LeaderStep
<1>1. TypeInv
    BY DEF IInv
<1>2. /\ currentTerm' = [currentTerm EXCEPT ![i] = currentTerm[i] + 1]
      /\ state' = [state EXCEPT ![i] = "CANDIDATE"]
      /\ leaderId' = [leaderId EXCEPT ![i] = Nil]
      /\ orphans' = orphans /\ elected' = elected
    BY DEF Timeout
<1>3. /\ DOMAIN state = Server /\ DOMAIN leaderId = Server
      /\ currentTerm \in [Server -> Nat]
    BY <1>1 DEF TypeInv, TypeOK
<1>4. WinsAsLeader /\ LeadersElected' /\ CandidatesReached' /\ LeadersStay
    <2>1. WinsAsLeader /\ LeadersStay
        BY <1>2, <1>3 DEF WinsAsLeader, LeadersStay
    <2>2. LeadersElected'
        BY <1>2, <1>3 DEF LeaderInv, LeadersElected
    <2>3. CandidatesReached'
        <3>1. currentTerm[i] \in Nat /\ <<currentTerm[i] + 1, i>> \notin elected
            BY <1>3 DEF LeaderInv, ElectedReached
        <3> QED
            BY <1>2, <1>3, <3>1 DEF LeaderInv, CandidatesReached
    <2> QED
        BY <2>1, <2>2, <2>3
<1>5. Flying' \subseteq Flying
    <2> DEFINE msg == [j \in Server |->
                 [type |-> "REQUEST_VOTE", term |-> currentTerm[i] + 1, candidate |-> i,
                  lastLogIndex |-> LastIndex(log[i]), lastLogTerm |-> LastTerm(log[i])]]
    <2>1. req' = [req EXCEPT ![i] = [j \in Server |->
                     IF j # i /\ conn[i][j] = "connected"
                     THEN Append(req[i][j], msg[j]) ELSE req[i][j]]]
        BY DEF Timeout, Broadcast
    <2>2. \A j \in Server : msg[j].type = "REQUEST_VOTE"
        OBVIOUS
    <2> HIDE DEF msg
    <2>3. ASSUME NEW a \in Server, NEW b \in Server, NEW k \in DOMAIN req'[a][b]
          PROVE  \/ \E l \in DOMAIN req[a][b] : req'[a][b][k] = req[a][b][l]
                 \/ req'[a][b][k].type = "REQUEST_VOTE"
        <3>1. req \in [Server -> [Server -> Seq(Request)]] /\ req[a][b] \in Seq(Request)
            BY <1>1, SMTT(30) DEF TypeInv, TypeOK
        <3>2. req'[a][b] = req[a][b] \/ req'[a][b] = Append(req[a][b], msg[b])
            BY <2>1, <3>1
        <3>3. CASE req'[a][b] = req[a][b]
            BY <2>3, <3>3
        <3>4. CASE req'[a][b] = Append(req[a][b], msg[b])
            <4>1. k \in 1 .. Len(req[a][b]) + 1
                BY <2>3, <3>1, <3>4
            <4>2. CASE k = Len(req[a][b]) + 1
                BY <2>2, <3>1, <3>4, <4>2
            <4>3. CASE k \in 1 .. Len(req[a][b])
                BY <3>1, <3>4, <4>3
            <4> QED
                BY <3>1, <4>1, <4>2, <4>3
        <3> QED
            BY <3>2, <3>3, <3>4
    <2>4. \A o \in orphans' : o \in orphans
        BY <1>2
    <2> QED
        BY <1>1, <2>3, <2>4, TakenFlies
<1>6. \A j \in Server : HintMoves(j)
    BY <1>2, <1>3 DEF HintMoves
<1> QED
    BY <1>4, <1>5, <1>6 DEF LeaderStep, FlightMoves

\* A step of a leader that sends nothing or AppendEntries of its own, and changes neither
\* terms, states nor hints: tick, propose and processAppendEntriesResponse.
LEMMA SendingLeader ==
    ASSUME IInv, LeaderInv, NEW i \in Server, state[i] = "LEADER",
           NEW ni \in [Server -> Nat], \A j \in Server : ni[j] >= 1, log'[i] \in Seq(Entry),
           NEW hb \in BOOLEAN, req' = req \/ SendAppendEntries(i, log'[i], ni, hb),
           UNCHANGED <<currentTerm, state, leaderId, elected, orphans>>
    PROVE  LeaderStep
<1>1. TypeInv
    BY DEF IInv
<1>2. WinsAsLeader /\ LeadersStay
    BY DEF WinsAsLeader, LeadersStay
<1>3. LeadersElected'
    BY DEF LeaderInv, LeadersElected
<1>4. CandidatesReached'
    BY DEF LeaderInv, CandidatesReached
<1>5. FlightMoves
    <2>1. CASE req' = req
        BY <2>1 DEF Flying, FlightMoves
    <2>2. CASE SendAppendEntries(i, log'[i], ni, hb)
        <3> DEFINE lg == log'[i]
        <3>1. SendAppendEntries(i, lg, ni, hb) /\ lg \in Seq(Entry)
            BY <2>2
        <3> HIDE DEF lg
        <3>2. Flying' \subseteq Flying \cup SentBy(i, lg, ni, hb)
            BY <1>1, <3>1, SendFlies
        <3>3. <<currentTerm[i], i>> \in elected'
            BY DEF LeaderInv, LeadersElected
        <3> QED
            BY <3>2, <3>3 DEF FlightMoves, lg
    <2> QED
        BY <2>1, <2>2
<1>6. \A j \in Server : HintMoves(j)
    BY DEF HintMoves
<1> QED
    BY <1>2, <1>3, <1>4, <1>5, <1>6 DEF LeaderStep

\* The tick of a leader.
LEMMA LeaderTickLeader ==
    ASSUME IInv, LeaderInv, NEW i \in Server, NEW due \in BOOLEAN, LeaderTick(i, due)
    PROVE  LeaderStep
<1>1. /\ state[i] = "LEADER"
      /\ req' = req \/ SendAppendEntries(i, log'[i], nextIndex[i], TRUE)
      /\ UNCHANGED <<log, currentTerm, state, leaderId, elected, orphans>>
    BY DEF LeaderTick
<1>2. /\ log[i] \in Seq(Entry) /\ nextIndex[i] \in [Server -> Nat]
      /\ \A j \in Server : nextIndex[i][j] >= 1
    BY <1>1 DEF IInv, TypeInv, TypeOK, Progress, NextIndexPositive
<1> QED
    BY <1>1, <1>2, SendingLeader

\* propose.
LEMMA ProposeLeader ==
    ASSUME IInv, LeaderInv, NEW i \in Server, NEW v \in Value, Propose(i, v)
    PROVE  LeaderStep
<1> DEFINE e  == NewEntry(log[i], currentTerm[i], v)
           lg == Append(log[i], e)
           ni == [nextIndex[i] EXCEPT ![i] = e.index + 1]
<1>1. /\ state[i] = "LEADER"
      /\ SendAppendEntries(i, lg, ni, FALSE) /\ log' = [log EXCEPT ![i] = lg]
      /\ UNCHANGED <<currentTerm, state, leaderId, elected, orphans>>
    BY DEF Propose
<1>2. /\ log[i] \in Seq(Entry) /\ nextIndex[i] \in [Server -> Nat] /\ currentTerm[i] \in Nat
      /\ \A j \in Server : nextIndex[i][j] >= 1
    BY <1>1 DEF IInv, TypeInv, TypeOK, Progress, NextIndexPositive
<1>3. e \in Entry /\ e.index \in Nat
    BY <1>2 DEF NewEntry, Entry
<1> HIDE DEF e
<1>4. lg \in Seq(Entry) /\ ni \in [Server -> Nat] /\ \A j \in Server : ni[j] >= 1
    BY <1>2, <1>3
<1> HIDE DEF lg, ni
<1>5. log'[i] = lg
    BY <1>1 DEF IInv, TypeInv, TypeOK
<1> QED
    BY <1>1, <1>4, <1>5, SendingLeader

\* processAppendEntriesResponse.
LEMMA AppendResponseLeader ==
    ASSUME IInv, LeaderInv, NEW i \in Server, NEW j \in Server,
           ProcessAppendEntriesResponse(i, j)
    PROVE  LeaderStep
<1>1. UNCHANGED <<currentTerm, state, leaderId, elected, orphans>>
    BY DEF ProcessAppendEntriesResponse
<1>2. CASE req' = req
    <2>1. \A a \in Server : KeepsCandidate(a)
        BY DEF ProcessAppendEntriesResponse, KeepsCandidate
    <2>2. WinsAsLeader /\ LeadersElected' /\ CandidatesReached' /\ LeadersStay
        BY <1>1, <2>1, NobodyWins
    <2>3. Flying' = Flying
        BY <1>1, <1>2 DEF Flying
    <2>4. \A a \in Server : HintMoves(a)
        BY <1>1 DEF HintMoves
    <2> QED
        BY <2>2, <2>3, <2>4 DEF LeaderStep, FlightMoves
<1>3. CASE req' # req
    <2> DEFINE ni == [nextIndex[i] EXCEPT ![j] = BackUp(nextIndex[i][j])]
    <2>1. state[i] = "LEADER" /\ log' = log /\ SendAppendEntries(i, log'[i], ni, FALSE)
        BY <1>3 DEF ProcessAppendEntriesResponse
    <2>2. /\ log[i] \in Seq(Entry) /\ nextIndex[i] \in [Server -> Nat]
          /\ \A k \in Server : nextIndex[i][k] >= 1
        BY <2>1 DEF IInv, TypeInv, TypeOK, Progress, NextIndexPositive
    <2>3. BackUp(nextIndex[i][j]) \in Nat /\ BackUp(nextIndex[i][j]) >= 1
        BY <2>2 DEF BackUp
    <2>4. ni \in [Server -> Nat] /\ \A k \in Server : ni[k] >= 1
        BY <2>2, <2>3
    <2> HIDE DEF ni
    <2> QED
        BY <1>1, <2>1, <2>2, <2>4, SendingLeader
<1> QED
    BY <1>2, <1>3

\* A request on a connection is an AppendEntries on its way.
LEMMA HeadFlies ==
    ASSUME TypeInv, NEW i \in Server, NEW j \in Server, req[i][j] # <<>>,
           Head(req[i][j]).type = "APPEND_ENTRIES"
    PROVE  <<j, Head(req[i][j])>> \in Flying /\ Head(req[i][j]) \in AppendEntriesMsg
<1>1. req[i][j] \in Seq(Request) /\ 1 \in DOMAIN req[i][j]
      /\ Head(req[i][j]) = req[i][j][1] /\ Head(req[i][j]) \in Request
    <2>1. req[i][j] \in Seq(Request)
        BY LinkTypes
    <2> QED
        BY <2>1
<1>2. Head(req[i][j]) \in AppendEntriesMsg
    BY <1>1, RequestKinds
<1> QED
    BY <1>1, <1>2 DEF Flying

\* A handler of requests on node j, whose messages come from the connections.
LEMMA HandlerLeader ==
    ASSUME TypeInv, VoteInv, LeaderInv, NEW j \in Server, NEW m \in Request,
           \/ m.type = "REQUEST_VOTE" /\ RequestVoteStep(j, m)
           \/ m.type = "APPEND_ENTRIES" /\ AppendEntriesStep(j, m) /\ <<j, m>> \in Flying,
           Flying' \subseteq Flying
    PROVE  LeaderStep
<1>1. elected' = elected /\ \A a \in Server : KeepsCandidate(a)
    BY HandlerVotes
<1>2. WinsAsLeader /\ LeadersElected' /\ CandidatesReached' /\ LeadersStay
    BY <1>1, NobodyWins
<1>3. ASSUME NEW a \in Server PROVE HintMoves(a)
    <2>1. CASE RequestVoteStep(j, m)
        BY <2>1 DEF RequestVoteStep, HintMoves
    <2>2. CASE AppendEntriesStep(j, m) /\ <<j, m>> \in Flying
        <3>1. /\ leaderId' = [leaderId EXCEPT ![j] = LeaderHint(j, m)]
              /\ currentTerm' = [currentTerm EXCEPT ![j] = TermAfter(j, m.term)]
            BY <2>2 DEF AppendEntriesStep, BecomeFollower
        <3>2. /\ DOMAIN leaderId = Server /\ currentTerm \in [Server -> Nat] /\ m.term \in Nat
            BY RequestKinds DEF TypeInv, TypeOK
        <3>3. CASE a = j /\ m.term >= currentTerm[j]
            <4>1. leaderId'[a] = m.leader /\ currentTerm'[a] = m.term
                BY <3>1, <3>2, <3>3 DEF LeaderHint, TermAfter, Max2
            <4> QED
                BY <2>2, <3>3, <4>1 DEF HintMoves
        <3>4. CASE ~(a = j /\ m.term >= currentTerm[j])
            <4>1. leaderId'[a] = leaderId[a]
                BY <3>1, <3>2, <3>4 DEF LeaderHint
            <4> QED
                BY <4>1 DEF HintMoves
        <3> QED
            BY <3>3, <3>4
    <2> QED
        BY <2>1, <2>2
<1> QED
    BY <1>2, <1>3 DEF LeaderStep, FlightMoves

\* Requests handled on a connection.
LEMMA HandleRequestLeader ==
    ASSUME IInv, LeaderInv, NEW i \in Server, NEW j \in Server,
           HandleRequestVote(i, j) \/ HandleAppendEntries(i, j)
    PROVE  LeaderStep
<1>1. TypeInv /\ VoteInv /\ req[i][j] # <<>> /\ req[i][j] \in Seq(Request)
      /\ req \in [Server -> [Server -> Seq(Request)]]
    <2>1. TypeInv /\ VoteInv
        BY DEF IInv
    <2>2. req[i][j] # <<>>
        BY DEF HandleRequestVote, HandleAppendEntries
    <2> QED
        BY <2>1, <2>2, LinkTypes DEF TypeInv, TypeOK
<1>2. /\ req' = [req EXCEPT ![i][j] = Tail(req[i][j])] /\ orphans' = orphans
    BY DEF HandleRequestVote, HandleAppendEntries, ReplyOn
<1>3. Flying' \subseteq Flying
    <2>1. ASSUME NEW a \in Server, NEW b \in Server, NEW k \in DOMAIN req'[a][b]
          PROVE  \E l \in DOMAIN req[a][b] : req'[a][b][k] = req[a][b][l]
        <3>1. req'[a][b] = req[a][b] \/ (a = i /\ b = j /\ req'[a][b] = Tail(req[i][j]))
            BY <1>1, <1>2
        <3>2. CASE a = i /\ b = j /\ req'[a][b] = Tail(req[i][j])
            <4>1. k + 1 \in DOMAIN req[i][j] /\ Tail(req[i][j])[k] = req[i][j][k + 1]
                BY <1>1, <2>1, <3>2
            <4> QED
                BY <3>2, <4>1
        <3> QED
            BY <3>1, <3>2, <2>1
    <2> QED
        BY <1>1, <1>2, <2>1, TakenFlies, SMTT(30)
<1>4. Head(req[i][j]) \in Request
    BY <1>1
<1>5. \/ Head(req[i][j]).type = "REQUEST_VOTE" /\ RequestVoteStep(j, Head(req[i][j]))
      \/ Head(req[i][j]).type = "APPEND_ENTRIES" /\ AppendEntriesStep(j, Head(req[i][j]))
         /\ <<j, Head(req[i][j])>> \in Flying
    BY <1>1, HeadFlies DEF HandleRequestVote, HandleAppendEntries
<1> QED
    BY <1>1, <1>3, <1>4, <1>5, HandlerLeader

\* Requests handled after their connection is gone.
LEMMA HandleOrphanLeader ==
    ASSUME IInv, LeaderInv, NEW o \in orphans, HandleOrphan(o)
    PROVE  LeaderStep
<1>1. TypeInv /\ VoteInv /\ o.to \in Server /\ o.msg \in Request /\ o = [to |-> o.to, msg |-> o.msg]
    BY DEF IInv, TypeInv, TypeOK
<1>2. req' = req /\ orphans' \subseteq orphans
    BY DEF HandleOrphan
<1>3. Flying' \subseteq Flying
    BY <1>2 DEF Flying
<1>4. ASSUME o.msg.type = "APPEND_ENTRIES" PROVE <<o.to, o.msg>> \in Flying
    <2>1. o.msg \in AppendEntriesMsg
        BY <1>1, <1>4, RequestKinds
    <2> QED
        BY <1>1, <2>1 DEF Flying
<1>5. \/ o.msg.type = "REQUEST_VOTE" /\ RequestVoteStep(o.to, o.msg)
      \/ o.msg.type = "APPEND_ENTRIES" /\ AppendEntriesStep(o.to, o.msg)
         /\ <<o.to, o.msg>> \in Flying
    BY <1>4 DEF HandleOrphan
<1> QED
    BY <1>1, <1>3, <1>5, HandlerLeader

\* processRequestVoteResponse: the only step that wins an election.
LEMMA VoteResponseLeader ==
    ASSUME IInv, LeaderInv, NEW i \in Server, NEW j \in Server,
           ProcessRequestVoteResponse(i, j)
    PROVE  LeaderStep
<1> DEFINE m == Head(resp[i][j])
<1>1. TypeInv /\ orphans' = orphans
    BY DEF IInv, ProcessRequestVoteResponse
<1>2. /\ DOMAIN state = Server /\ DOMAIN leaderId = Server /\ log[i] \in Seq(Entry)
      /\ currentTerm \in [Server -> Nat] /\ m.term \in Nat
    <2>1. resp[i][j] \in Seq(Reply) /\ resp[i][j] # <<>>
        BY <1>1, LinkTypes DEF ProcessRequestVoteResponse
    <2>2. m \in Reply
        BY <2>1
    <2> QED
        BY <1>1, <2>2, ReplyKinds DEF TypeInv, TypeOK
<1>3. \/ /\ StepsDown(i, m.term) /\ BecomeFollower(i, m.term)
         /\ UNCHANGED <<leaderId, req, elected>>
      \/ /\ state[i] = "CANDIDATE" /\ currentTerm' = currentTerm /\ log' = log /\ BecomeLeader(i)
      \/ UNCHANGED <<currentTerm, state, leaderId, req, elected>>
    BY DEF ProcessRequestVoteResponse, CountsVote
<1> HIDE DEF m
<1>4. CASE /\ StepsDown(i, m.term) /\ BecomeFollower(i, m.term)
           /\ UNCHANGED <<leaderId, req, elected>>
    <2>1. /\ currentTerm' = [currentTerm EXCEPT ![i] = m.term]
          /\ state' = [state EXCEPT ![i] = "FOLLOWER"]
        <3>1. currentTerm[i] \in Nat /\ m.term > currentTerm[i]
            BY <1>2, <1>4 DEF StepsDown
        <3>2. TermAfter(i, m.term) = m.term
            BY <1>2, <3>1 DEF TermAfter, Max2
        <3> QED
            BY <1>4, <3>2 DEF BecomeFollower
    <2>2. LeadersElected' /\ CandidatesReached'
        BY <1>2, <1>4, <2>1 DEF LeaderInv, LeadersElected, CandidatesReached
    <2>3. WinsAsLeader /\ Flying' = Flying /\ \A a \in Server : HintMoves(a)
        BY <1>1, <1>4 DEF WinsAsLeader, Flying, HintMoves
    <2>4. LeadersStay
        BY <1>2, <2>1 DEF LeadersStay
    <2> QED
        BY <2>2, <2>3, <2>4 DEF LeaderStep, FlightMoves
<1>5. CASE state[i] = "CANDIDATE" /\ currentTerm' = currentTerm /\ log' = log /\ BecomeLeader(i)
    <2> DEFINE ni == [k \in Server |-> LastIndex(log[i]) + 1]
    <2>1. /\ state' = [state EXCEPT ![i] = "LEADER"]
          /\ leaderId' = [leaderId EXCEPT ![i] = i]
          /\ elected' = elected \cup {<<currentTerm[i], i>>}
          /\ SendAppendEntries(i, log[i], ni, TRUE)
        BY <1>5 DEF BecomeLeader
    <2>2. ni \in [Server -> Nat] /\ \A k \in Server : ni[k] >= 1
        BY <1>2 DEF LastIndex
    <2> HIDE DEF ni
    <2>3. leaderId'[i] = i /\ currentTerm'[i] >= 1
        BY <1>2, <1>5, <2>1 DEF LeaderInv, CandidatesReached
    <2>4. WinsAsLeader
        BY <1>5, <2>1, <2>3 DEF WinsAsLeader
    <2>5. LeadersElected' /\ CandidatesReached'
        BY <1>2, <1>5, <2>1 DEF LeaderInv, LeadersElected, CandidatesReached
    <2>6. FlightMoves
        <3>1. Flying' \subseteq Flying \cup SentBy(i, log'[i], ni, TRUE)
            BY <1>1, <1>2, <1>5, <2>1, <2>2, SendFlies
        <3> QED
            BY <2>1, <2>2, <3>1 DEF FlightMoves
    <2>7. \A a \in Server : HintMoves(a)
        BY <1>2, <1>5, <2>1 DEF HintMoves
    <2>8. LeadersStay
        BY <1>2, <1>5, <2>1 DEF LeadersStay
    <2> QED
        BY <2>4, <2>5, <2>6, <2>7, <2>8 DEF LeaderStep
<1>6. CASE UNCHANGED <<currentTerm, state, leaderId, req, elected>>
    <2>1. WinsAsLeader /\ Flying' = Flying /\ \A a \in Server : HintMoves(a)
        BY <1>1, <1>6 DEF WinsAsLeader, Flying, HintMoves
    <2>2. LeadersElected' /\ CandidatesReached' /\ LeadersStay
        BY <1>6 DEF LeaderInv, LeadersElected, CandidatesReached, LeadersStay
    <2> QED
        BY <2>1, <2>2 DEF LeaderStep, FlightMoves
<1> QED
    BY <1>3, <1>4, <1>5, <1>6

\* Connections that open or close.
LEMMA ConnectionLeader ==
    ASSUME IInv, LeaderInv, NEW i \in Server, NEW j \in Server, Connect(i, j) \/ Break(i, j)
    PROVE  LeaderStep
<1>1. TypeInv
    BY DEF IInv
<1>2. UNCHANGED <<currentTerm, state, leaderId, elected>>
    BY DEF Connect, Break
<1>3. WinsAsLeader /\ \A a \in Server : HintMoves(a)
    BY <1>2 DEF WinsAsLeader, HintMoves
<1>4. LeadersElected' /\ CandidatesReached' /\ LeadersStay
    BY <1>2 DEF LeaderInv, LeadersElected, CandidatesReached, LeadersStay
<1>5. Flying' \subseteq Flying
    <2>1. \A a, b \in Server : req'[a][b] = req[a][b] \/ req'[a][b] = <<>>
        <3>1. req \in [Server -> [Server -> Seq(Request)]]
            BY <1>1 DEF TypeInv, TypeOK
        <3>2. req' = req \/ req' = [req EXCEPT ![i][j] = <<>>]
            BY DEF Connect, Break
        <3> QED
            BY <3>1, <3>2, ZenonT(30)
    <2>2. \A o \in orphans' : o \in orphans \/ o \in Orphaned(i, j)
        BY DEF Connect, Break
    <2>3. \A a, b \in Server : \A k \in DOMAIN req'[a][b] :
              \E l \in DOMAIN req[a][b] : req'[a][b][k] = req[a][b][l]
        BY <2>1
    <2> QED
        BY <1>1, <2>2, <2>3, TakenFlies
<1> QED
    BY <1>3, <1>4, <1>5 DEF LeaderStep, FlightMoves

\* A crash and the restart after it.
LEMMA CrashLeader ==
    ASSUME IInv, LeaderInv, NEW i \in Server, NEW d, Restart(i, d)
    PROVE  LeaderStep
<1>1. TypeInv
    BY DEF IInv
<1>2. /\ state' = [state EXCEPT ![i] = "FOLLOWER"]
      /\ leaderId' = [leaderId EXCEPT ![i] = Nil]
      /\ currentTerm' = [currentTerm EXCEPT ![i] = d.term]
      /\ elected' = elected
    BY DEF Restart
<1>3. DOMAIN state = Server /\ DOMAIN leaderId = Server /\ DOMAIN currentTerm = Server
    BY <1>1 DEF TypeInv, TypeOK
<1>4. WinsAsLeader /\ \A a \in Server : HintMoves(a)
    BY <1>2, <1>3 DEF WinsAsLeader, HintMoves
<1>5. LeadersElected' /\ CandidatesReached' /\ LeadersStay
    BY <1>2, <1>3 DEF LeaderInv, LeadersElected, CandidatesReached, LeadersStay
<1>6. Flying' \subseteq Flying
    <2>1. \A a, b \in Server : req'[a][b] = req[a][b] \/ req'[a][b] = <<>>
        BY DEF Restart
    <2>2. \A o \in orphans' : o \in orphans \/ \E b \in Server : o \in Orphaned(i, b)
        BY DEF Restart
    <2>3. \A a, b \in Server : \A k \in DOMAIN req'[a][b] :
              \E l \in DOMAIN req[a][b] : req'[a][b][k] = req[a][b][l]
        BY <2>1
    <2> QED
        BY <1>1, <2>2, <2>3, TakenFlies
<1> QED
    BY <1>4, <1>5, <1>6 DEF LeaderStep, FlightMoves

\* Every step moves hints and messages as LeaderStep says.
LEMMA NextLeaderStep == IInv /\ LeaderInv /\ [Next]_vars => LeaderStep
<1> SUFFICES ASSUME IInv, LeaderInv, [Next]_vars PROVE LeaderStep
    OBVIOUS
<1>1. CASE UNCHANGED vars
    <2>1. WinsAsLeader /\ Flying' = Flying /\ \A a \in Server : HintMoves(a)
        BY <1>1 DEF vars, WinsAsLeader, Flying, HintMoves
    <2>2. LeadersElected' /\ CandidatesReached' /\ LeadersStay
        BY <1>1 DEF vars, LeaderInv, LeadersElected, CandidatesReached, LeadersStay
    <2> QED
        BY <2>1, <2>2 DEF LeaderStep, FlightMoves
<1>2. ASSUME NEW i \in Server, NodeStep(i) PROVE LeaderStep
    BY <1>2, TimeoutLeader, LeaderTickLeader DEF NodeStep
<1>3. ASSUME NEW i \in Server, NEW j \in Server, ConnStep(i, j) PROVE LeaderStep
    BY <1>3, HandleRequestLeader, VoteResponseLeader, AppendResponseLeader, ConnectionLeader
       DEF ConnStep
<1>4. ASSUME NEW o \in orphans, HandleOrphan(o) PROVE LeaderStep
    BY <1>4, HandleOrphanLeader
<1>5. ASSUME NEW i \in Server, NEW v \in Value, Propose(i, v) PROVE LeaderStep
    BY <1>5, ProposeLeader
<1>6. ASSUME NEW i \in Server, CrashStep(i) PROVE LeaderStep
    <2>1. PICK d : Restart(i, d)
        BY <1>6 DEF CrashStep, Crash, CrashInTimeout, CrashInHandler, CrashInResponse
    <2> QED
        BY <2>1, CrashLeader
<1> QED
    BY <1>1, <1>2, <1>3, <1>4, <1>5, <1>6 DEF Next, RunStep

\* Nobody has been elected before the first step.
LEMMA InitLeader == Init => LeaderInv
    BY DEF Init, LeaderInv, ElectedReached, CandidatesReached, LeadersElected,
           AppendsElected, LeaderHintElected, HintsLater, Flying

\* What is known about leaders is kept by every step.
LEMMA NextLeader == IInv /\ LeaderInv /\ [Next]_vars => LeaderInv'
<1> SUFFICES ASSUME IInv, LeaderInv, [Next]_vars PROVE LeaderInv'
    OBVIOUS
<1>1. IInv' /\ TermsGrow
    BY NextIInv
<1>2. LeaderStep
    BY NextLeaderStep
<1> QED
    BY <1>1, <1>2, NewFlightElected, LeaderFrame DEF LeaderStep

\* What is known about leaders holds in every reachable state.
LEMMA LeaderInvariance == Spec => [](IInv /\ LeaderInv)
    BY InitLeader, NextLeader, InitIInv, NextIInv, PTL DEF Spec

\* The node a client is redirected to has won an election of a term the redirecting node
\* has reached.
THEOREM HintsElected == Spec => []LeaderHintElected
<1>1. LeaderInv => LeaderHintElected
    BY DEF LeaderInv
<1> QED
    BY <1>1, LeaderInvariance, PTL

\* Clients that follow the hints do not go around in a circle: every node on it would have
\* won a later term than the one before it.
THEOREM HintsComeToAnEnd == Spec => []HintsEnd
<1>1. IInv /\ LeaderInv => HintsEnd
    <2> DEFINE Circle(D) == D # {} /\ \A i \in D : leaderId[i] \in D \ {i}
               Sizes == {Cardinality(D) : D \in {E \in SUBSET Server : Circle(E)}}
    <2> SUFFICES ASSUME IInv, LeaderInv, NEW C \in SUBSET Server, Circle(C) PROVE FALSE
        BY DEF HintsEnd
    <2>1. \A D \in SUBSET Server : IsFiniteSet(D) /\ Cardinality(D) \in Nat
        BY ServerAssumption, FS_Subset, FS_CardinalityType
    <2>2. Sizes \in SUBSET Nat /\ Sizes # {}
        BY <2>1
    <2>3. Min(Sizes) \in Sizes /\ \A n \in Sizes : Min(Sizes) <= n
        BY <2>2, MinExists
    <2>4. PICK D \in SUBSET Server : Circle(D) /\ Cardinality(D) = Min(Sizes)
        BY <2>3
    <2>5. PICK i \in D : TRUE
        BY <2>4
    <2> DEFINE After(e) == \A d \in elected : d[2] = i => d[1] < e[1]
               E == {j \in D : \E e \in elected : e[2] = j /\ After(e)}
    <2>6. \A e \in elected : e[1] \in Nat
        BY DEF IInv, TypeInv, TypeOK
    <2>7. \A j \in D : leaderId[j] \in D /\ leaderId[j] # Nil /\ leaderId[j] # j
        BY <2>4, ServerAssumption
    <2>8. i \notin E
        <3>1. SUFFICES ASSUME NEW e \in elected, e[2] = i, After(e) PROVE FALSE
            OBVIOUS
        <3>2. e[1] < e[1] /\ e[1] \in Nat
            BY <2>6, <3>1
        <3> QED
            BY <3>2
    <2>9. leaderId[i] \in E
        <3>1. \E e \in elected : e[2] = leaderId[i] /\ After(e)
            BY <2>7 DEF LeaderInv, HintsLater
        <3> QED
            BY <2>7, <3>1
    <2>10. ASSUME NEW j \in E PROVE leaderId[j] \in E \ {j}
        <3>1. PICK e \in elected : e[2] = j /\ After(e)
            BY <2>10
        <3>2. leaderId[j] \notin {Nil, j} /\ j \in Server /\ leaderId[j] \in D
            BY <2>7
        <3>3. PICK f \in elected : f[2] = leaderId[j] /\ \A d \in elected : d[2] = j => d[1] < f[1]
            BY <3>2 DEF LeaderInv, HintsLater
        <3>4. After(f)
            <4>1. e[1] < f[1]
                BY <3>1, <3>3
            <4> QED
                BY <2>6, <3>1, <4>1
        <3> QED
            BY <3>2, <3>3, <3>4
    <2>11. Circle(E) /\ E \in SUBSET Server /\ E \subseteq D /\ E # D
        BY <2>5, <2>8, <2>9, <2>10
    <2> HIDE DEF E
    <2>12. Cardinality(E) < Cardinality(D)
        BY <2>1, <2>11, FS_Subset
    <2>13. Cardinality(E) \in Sizes
        BY <2>11
    <2> QED
        BY <2>1, <2>3, <2>4, <2>11, <2>12, <2>13
<1> QED
    BY <1>1, LeaderInvariance, PTL

-----------------------------------------------------------------------------
(* The log of a leader *)

\* handleAppendEntries changes the log only of a node that is then no leader.
LEMMA AcceptsNoLeader ==
    ASSUME IInv, LeaderInv, NEW j \in Server, NEW m \in AppendEntriesMsg,
           <<j, m>> \in Flying, AppendEntriesStep(j, m), state[j] = "LEADER"
    PROVE  log' = log \/ state'[j] # "LEADER"
<1>1. /\ state' = [state EXCEPT ![j] = IF StepsDown(j, m.term) THEN "FOLLOWER" ELSE state[j]]
      /\ Accepts(j, m) \/ log' = log
    BY DEF AppendEntriesStep, BecomeFollower
<1>2. DOMAIN state = Server /\ currentTerm[j] \in Nat /\ m.term \in Nat /\ m.leader \in Server
    BY DEF IInv, TypeInv, TypeOK, AppendEntriesMsg
<1>3. CASE Accepts(j, m)
    <2>1. CASE m.term > currentTerm[j]
        BY <1>1, <1>2, <2>1 DEF StepsDown
    <2>2. CASE m.term = currentTerm[j]
        <3>1. <<m.term, m.leader>> \in elected /\ m.leader # j
            BY DEF LeaderInv, AppendsElected
        <3>2. <<currentTerm[j], j>> \in elected
            BY DEF LeaderInv, LeadersElected
        <3>3. ElectionSafety
            BY MajoritiesMeet
        <3> QED
            BY <2>2, <3>1, <3>2, <3>3 DEF ElectionSafety
    <2> QED
        BY <1>2, <1>3, <2>1, <2>2 DEF Accepts
<1> QED
    BY <1>1, <1>3

\* The steps that write to logs.
LEMMA LogSteps ==
    ASSUME IInv, [Next]_vars
    PROVE  \/ log' = log
           \/ \E i \in Server, v \in Value : Propose(i, v)
           \/ \E j \in Server, m \in AppendEntriesMsg : <<j, m>> \in Flying /\ AppendEntriesStep(j, m)
           \/ \E i \in Server : \E d : Restart(i, d)
<1>1. TypeInv
    BY DEF IInv
<1>2. CASE \E j, k \in Server : HandleAppendEntries(j, k)
    <2>1. PICK j \in Server, k \in Server : HandleAppendEntries(j, k)
        BY <1>2
    <2>2. /\ req[j][k] # <<>> /\ Head(req[j][k]).type = "APPEND_ENTRIES"
          /\ AppendEntriesStep(k, Head(req[j][k]))
        BY <2>1 DEF HandleAppendEntries
    <2> QED
        BY <1>1, <2>2, HeadFlies
<1>3. CASE \E o \in orphans : HandleOrphan(o)
    <2>1. PICK o \in orphans : HandleOrphan(o)
        BY <1>3
    <2>2. o.to \in Server /\ o.msg \in Request /\ o = [to |-> o.to, msg |-> o.msg]
        BY <1>1 DEF TypeInv, TypeOK
    <2>3. CASE o.msg.type = "APPEND_ENTRIES" /\ AppendEntriesStep(o.to, o.msg)
        <3>1. o.msg \in AppendEntriesMsg
            BY <2>2, <2>3, RequestKinds
        <3>2. <<o.to, o.msg>> \in Flying
            BY <2>2, <3>1 DEF Flying
        <3> QED
            BY <2>2, <2>3, <3>1, <3>2
    <2>4. CASE RequestVoteStep(o.to, o.msg)
        BY <2>4 DEF RequestVoteStep
    <2> QED
        BY <2>1, <2>3, <2>4 DEF HandleOrphan
<1>4. CASE \E j \in Server : CrashStep(j)
    BY <1>4 DEF CrashStep, Crash, CrashInTimeout, CrashInHandler, CrashInResponse
<1>5. \/ log' = log
      \/ \E j \in Server, v \in Value : Propose(j, v)
      \/ \E j, k \in Server : HandleAppendEntries(j, k)
      \/ \E o \in orphans : HandleOrphan(o)
      \/ \E j \in Server : CrashStep(j)
    <2>1. ASSUME NEW j \in Server, NodeStep(j) PROVE log' = log
        BY <2>1 DEF NodeStep, Timeout, LeaderTick
    <2>2. ASSUME NEW j \in Server, NEW k \in Server, ConnStep(j, k)
          PROVE  log' = log \/ HandleAppendEntries(j, k)
        BY <2>2 DEF ConnStep, HandleRequestVote, RequestVoteStep, ProcessRequestVoteResponse,
                    ProcessAppendEntriesResponse, Connect, Break
    <2> QED
        BY <2>1, <2>2 DEF Next, RunStep, vars
<1> QED
    BY <1>2, <1>3, <1>4, <1>5

\* Any step keeps what a node that stays leader has in its log.
LEMMA LeaderKeepsLog ==
    ASSUME IInv, LeaderInv, [Next]_vars, NEW i \in Server,
           state[i] = "LEADER", state'[i] = "LEADER"
    PROVE  /\ SubSeq(log'[i], 1, Len(log[i])) = log[i]
           /\ Len(log[i]) <= Len(log'[i])
<1>1. TypeInv /\ VoteInv
    BY DEF IInv
<1>2. log \in [Server -> Seq(Entry)] /\ log[i] \in Seq(Entry) /\ DOMAIN state = Server
    BY <1>1 DEF TypeInv, TypeOK
<1>3. CASE log'[i] = log[i]
    BY <1>2, <1>3
<1>4. CASE \E j \in Server, v \in Value : log'[i] # log[i] /\ Propose(j, v)
    <2>1. PICK j \in Server, v \in Value : log'[i] # log[i] /\ Propose(j, v)
        BY <1>4
    <2>2. log' = [log EXCEPT ![j] = Append(log[j], NewEntry(log[j], currentTerm[j], v))]
        BY <2>1 DEF Propose
    <2>3. log'[i] = Append(log[i], NewEntry(log[i], currentTerm[i], v))
        BY <1>2, <2>1, <2>2
    <2>4. NewEntry(log[i], currentTerm[i], v) \in Entry
        BY <1>1, <1>2 DEF NewEntry, Entry, TypeInv, TypeOK
    <2> QED
        BY <1>2, <2>3, <2>4
<1>5. ASSUME NEW j \in Server, NEW m \in AppendEntriesMsg, <<j, m>> \in Flying,
             AppendEntriesStep(j, m)
      PROVE  log'[i] = log[i]
    <2>1. CASE j = i
        BY <1>5, <2>1, AcceptsNoLeader
    <2>2. CASE j # i
        BY <1>2, <1>5, <2>2 DEF AppendEntriesStep
    <2> QED
        BY <2>1, <2>2
<1>6. ASSUME NEW j \in Server, NEW d, Restart(j, d) PROVE log'[i] = log[i]
    <2>1. j # i
        BY <1>2, <1>6 DEF Restart
    <2>2. PICK lg : log' = [log EXCEPT ![j] = lg]
        BY <1>6 DEF Restart
    <2> QED
        BY <1>2, <2>1, <2>2
<1> QED
    BY <1>3, <1>4, <1>5, <1>6, LogSteps

\* A node that stays leader never loses or changes an entry: nothing but propose writes to
\* its log.
THEOREM LeadersOnlyAppend == Spec => LeaderAppendOnly
<1>1. IInv /\ LeaderInv /\ [Next]_vars
      => [\A i \in Server : state[i] = "LEADER" /\ state'[i] = "LEADER" =>
              SubSeq(log'[i], 1, Len(log[i])) = log[i]]_vars
    BY LeaderKeepsLog
<1> QED
    BY <1>1, LeaderInvariance, PTL DEF Spec, LeaderAppendOnly

-----------------------------------------------------------------------------
(* The elections are those of module Election *)

\* d may replace the disk of node j as a ballot: a later term, or the same one and the
\* candidate it named, if it named one
LaterDisk(j, d) ==
    /\ IsDisk(d)
    /\ \/ d.term > disk[j].term
       \/ d.term = disk[j].term /\ (disk[j].vote = Nil \/ d.vote = disk[j].vote)

\* Such a disk, with or without the vote it holds confirmed, is a step of Election.
LEMMA BallotStep ==
    ASSUME TypeInv, NEW j \in Server, NEW d, LaterDisk(j, d),
           disk' = [disk EXCEPT ![j] = d], elected' = elected,
           votes' = votes \/ (d.vote \in Server /\ votes' = votes \cup {<<j, d.term, d.vote>>})
    PROVE  Ballots!Next
<1> DEFINE b == [i \in Server |-> [term |-> disk[i].term, vote |-> disk[i].vote]]
           c == [i \in Server |-> [term |-> disk'[i].term, vote |-> disk'[i].vote]]
<1>1. DOMAIN disk = Server /\ \A i \in Server : IsDisk(disk[i])
    BY DEF TypeInv, TypeOK
<1>2. disk'[j] = d /\ \A i \in Server : i # j => disk'[i] = disk[i]
    BY <1>1
<1>3. c[j].term = d.term /\ c[j].vote = d.vote /\ c[j] \in [term : Nat, vote : Server \cup {Nil}]
    BY <1>2 DEF LaterDisk, IsDisk
<1>4. c = [b EXCEPT ![j] = c[j]]
    BY <1>2
<1>5. Ballots!Later(b[j], c[j])
    <2>1. b[j].term = disk[j].term /\ b[j].vote = disk[j].vote
        OBVIOUS
    <2>2. d.vote = disk[j].vote /\ d.term = disk[j].term => c[j] = b[j]
        BY <1>2
    <2> QED
        BY <1>3, <2>1, <2>2 DEF Ballots!Later, LaterDisk
<1>6. Ballots!Rewrite(j)
    BY <1>3, <1>4, <1>5 DEF Ballots!Rewrite, Ballots!Ballot
<1>7. CASE votes' = votes
    <2>1. Ballots!Move(j)
        BY <1>6, <1>7 DEF Ballots!Move
    <2> QED
        BY <2>1 DEF Ballots!Next
<1>8. CASE d.vote \in Server /\ votes' = votes \cup {<<j, d.term, d.vote>>}
    <2>1. d.vote # Nil
        BY <1>8, ServerAssumption
    <2>2. Ballots!Grant(j)
        BY <1>3, <1>6, <1>8, <2>1 DEF Ballots!Grant
    <2> QED
        BY <2>2 DEF Ballots!Next
<1> QED
    BY <1>7, <1>8

\* persistRaftState writes a later ballot when a node adopts a later term ...
LEMMA StepDownLater ==
    ASSUME TypeInv, VoteInv, NEW j \in Server, NEW t \in Nat
    PROVE  LaterDisk(j, DiskAfter(j, t))
<1>1. /\ IsDisk(disk[j]) /\ currentTerm[j] = disk[j].term /\ disk[j].term \in Nat
    BY DiskTypes
<1>2. IsDisk(DiskAfter(j, t))
    BY BecomeFollowerType
<1> QED
    BY <1>1, <1>2 DEF LaterDisk, DiskAfter, Persisted, StepsDown

\* ... and when it grants a vote.
LEMMA GrantLater ==
    ASSUME TypeInv, VoteInv, NEW j \in Server, NEW m \in RequestVoteMsg, Grants(j, m),
           NEW d, IsDisk(d), d.term = m.term, d.vote = m.candidate
    PROVE  LaterDisk(j, d)
<1>1. /\ currentTerm[j] = disk[j].term /\ disk[j].term \in Nat /\ votedFor[j] = disk[j].vote
      /\ m.term \in Nat /\ m.term >= currentTerm[j]
    BY DiskTypes DEF RequestVoteMsg, Grants
<1>2. m.term = currentTerm[j] => votedFor[j] \in {Nil, m.candidate}
    BY <1>1 DEF Grants, VoteAfter, StepsDown
<1> QED
    BY <1>1, <1>2 DEF LaterDisk

\* A handler of requests on node j is a step of Election.
LEMMA HandlerBallot ==
    ASSUME TypeInv, VoteInv, NEW j \in Server, NEW m \in Request,
           \/ m.type = "REQUEST_VOTE" /\ RequestVoteStep(j, m)
           \/ m.type = "APPEND_ENTRIES" /\ AppendEntriesStep(j, m)
    PROVE  Ballots!Next
<1>1. m.term \in Nat /\ elected' = elected
    BY RequestKinds DEF RequestVoteStep, AppendEntriesStep
<1>2. LaterDisk(j, DiskAfter(j, m.term)) /\ IsDisk(DiskAfter(j, m.term)) /\ log[j] \in Seq(Entry)
    BY <1>1, StepDownLater, BecomeFollowerType DEF TypeInv, TypeOK
<1>3. CASE m.type = "REQUEST_VOTE" /\ RequestVoteStep(j, m)
    <2>1. m \in RequestVoteMsg /\ m.candidate \in Server
        BY <1>3, RequestKinds DEF RequestVoteMsg
    <2>2. CASE Grants(j, m)
        <3> DEFINE d == Persisted(DiskAfter(j, m.term), m.term, m.candidate, log[j])
        <3>1. IsDisk(d) /\ d.term = m.term /\ d.vote = m.candidate
            BY <1>1, <1>2, <2>1, PersistedType DEF Persisted
        <3>2. disk' = [disk EXCEPT ![j] = d] /\ votes' = votes \cup {<<j, m.term, m.candidate>>}
            BY <1>3, <2>2 DEF RequestVoteStep
        <3> HIDE DEF d
        <3>3. LaterDisk(j, d)
            BY <2>1, <2>2, <3>1, GrantLater
        <3> QED
            BY <1>1, <2>1, <3>1, <3>2, <3>3, BallotStep
    <2>3. CASE ~Grants(j, m)
        <3>1. disk' = [disk EXCEPT ![j] = DiskAfter(j, m.term)] /\ votes' = votes
            BY <1>3, <2>3 DEF RequestVoteStep
        <3> QED
            BY <1>1, <1>2, <3>1, BallotStep
    <2> QED
        BY <2>2, <2>3
<1>4. CASE m.type = "APPEND_ENTRIES" /\ AppendEntriesStep(j, m)
    <2>1. votes' = votes
        BY <1>4 DEF AppendEntriesStep
    <2>2. CASE Accepts(j, m)
        <3> DEFINE lg == MergeEntries(log[j], m.prevLogIndex, m.entries)
                   d == Persisted(DiskAfter(j, m.term), m.term, VoteAfter(j, m.term), lg)
        <3>1. lg \in Seq(Entry) /\ m.term >= currentTerm[j]
            BY <1>4, <2>2, RequestKinds, AcceptedLog
        <3>2. disk' = [disk EXCEPT ![j] = d]
            BY <1>4, <2>2 DEF AppendEntriesStep
        <3> HIDE DEF lg
        <3>3. IsDisk(d) /\ d.term = m.term /\ d.vote = VoteAfter(j, m.term)
            BY <1>1, <3>1, PersistedType, BecomeFollowerType DEF Persisted
        <3> HIDE DEF d
        <3>4. /\ currentTerm[j] = disk[j].term /\ disk[j].term \in Nat /\ votedFor[j] = disk[j].vote
            BY DiskTypes
        <3>5. LaterDisk(j, d)
            BY <1>1, <3>1, <3>3, <3>4 DEF LaterDisk, VoteAfter, StepsDown
        <3> QED
            BY <1>1, <2>1, <3>2, <3>5, BallotStep
    <2>3. CASE ~Accepts(j, m)
        <3>1. disk' = [disk EXCEPT ![j] = DiskAfter(j, m.term)]
            BY <1>4, <2>3 DEF AppendEntriesStep
        <3> QED
            BY <1>1, <1>2, <2>1, <3>1, BallotStep
    <2> QED
        BY <2>2, <2>3
<1> QED
    BY <1>3, <1>4

\* becomeCandidate votes for itself in a new term.
LEMMA TimeoutBallot ==
    ASSUME TypeInv, VoteInv, NEW i \in Server, Timeout(i)
    PROVE  Ballots!Next
<1> DEFINE t == currentTerm[i] + 1
           d == Persisted(disk[i], t, i, log[i])
<1>1. /\ currentTerm[i] = disk[i].term /\ disk[i].term \in Nat /\ log[i] \in Seq(Entry)
    BY DiskTypes DEF TypeInv, TypeOK
<1>2. disk' = [disk EXCEPT ![i] = d] /\ votes' = votes \cup {<<i, t, i>>} /\ elected' = elected
    BY DEF Timeout
<1>3. t \in Nat /\ t > disk[i].term
    BY <1>1
<1> HIDE DEF t
<1>4. IsDisk(d) /\ d.term = t /\ d.vote = i
    BY <1>1, <1>3, PersistedType DEF Persisted
<1> HIDE DEF d
<1>5. LaterDisk(i, d)
    BY <1>3, <1>4 DEF LaterDisk
<1> QED
    BY <1>2, <1>4, <1>5, BallotStep

\* propose writes the ballot it finds.
LEMMA ProposeBallot ==
    ASSUME TypeInv, VoteInv, NEW i \in Server, NEW v \in Value, Propose(i, v)
    PROVE  Ballots!Next
<1> DEFINE lg == Append(log[i], NewEntry(log[i], currentTerm[i], v))
           d == Persisted(disk[i], currentTerm[i], votedFor[i], lg)
<1>1. /\ currentTerm[i] = disk[i].term /\ disk[i].term \in Nat /\ votedFor[i] = disk[i].vote
      /\ disk[i].vote \in Server \cup {Nil}
    BY DiskTypes
<1>2. disk' = [disk EXCEPT ![i] = d] /\ votes' = votes /\ elected' = elected
    BY DEF Propose
<1>3. lg \in Seq(Entry)
    <2>1. log[i] \in Seq(Entry) /\ currentTerm[i] \in Nat
        BY DEF TypeInv, TypeOK
    <2>2. NewEntry(log[i], currentTerm[i], v) \in Entry
        BY <2>1 DEF NewEntry, Entry
    <2> QED
        BY <2>1, <2>2
<1> HIDE DEF lg
<1>4. IsDisk(d) /\ d.term = currentTerm[i] /\ d.vote = votedFor[i]
    BY <1>1, <1>3, PersistedType DEF Persisted
<1> HIDE DEF d
<1>5. LaterDisk(i, d)
    BY <1>1, <1>4 DEF LaterDisk
<1> QED
    BY <1>2, <1>5, BallotStep

\* processRequestVoteResponse adopts a later term, or wins, or leaves the ballots alone.
LEMMA VoteResponseBallot ==
    ASSUME IInv, IInv', NEW i \in Server, NEW j \in Server, ProcessRequestVoteResponse(i, j)
    PROVE  Ballots!Next \/ UNCHANGED <<disk, votes, elected>>
<1> DEFINE m == Head(resp[i][j])
<1>1. TypeInv /\ VoteInv /\ votes' = votes
    BY DEF IInv, ProcessRequestVoteResponse
<1>2. m.term \in Nat
    <2>1. resp[i][j] \in Seq(Reply) /\ resp[i][j] # <<>>
        BY <1>1, LinkTypes DEF ProcessRequestVoteResponse
    <2>2. m \in Reply
        BY <2>1
    <2> QED
        BY <2>2, ReplyKinds
<1>3. \/ disk' = [disk EXCEPT ![i] = DiskAfter(i, m.term)] /\ elected' = elected
      \/ disk' = disk /\ BecomeLeader(i)
      \/ disk' = disk /\ elected' = elected
    BY DEF ProcessRequestVoteResponse
<1> HIDE DEF m
<1>4. CASE disk' = [disk EXCEPT ![i] = DiskAfter(i, m.term)] /\ elected' = elected
    BY <1>1, <1>2, <1>4, StepDownLater, BallotStep
<1>5. CASE disk' = disk /\ BecomeLeader(i)
    <2> DEFINE e == <<currentTerm[i], i>>
    <2>1. elected' = elected \cup {e}
        BY <1>5 DEF BecomeLeader
    <2>2. PICK Q \in SUBSET Server : Cardinality(Q) > Half /\ \A q \in Q : <<q, e[1], e[2]>> \in votes'
        BY <2>1 DEF IInv, ElectedByMajority
    <2>3. \A q \in Q : <<q, currentTerm[i], i>> \in votes
        BY <1>1, <2>2
    <2>4. IsFiniteSet(Q) /\ Cardinality(Q) \in Nat /\ Cardinality(Server) \in Nat
        BY <2>2, ServerAssumption, FS_Subset, FS_CardinalityType
    <2>5. Q \in Ballots!Quorum
        <3>1. Cardinality(Q) > Half /\ Half \in Nat /\ Cardinality(Server) < 2 * Half + 2
            BY <2>2, HalfType
        <3> HIDE DEF Half
        <3>2. 2 * Cardinality(Q) > Cardinality(Server)
            BY <2>4, <3>1
        <3>3. Ballots!Cardinality(Q) = Cardinality(Q) /\ Ballots!Cardinality(Server) = Cardinality(Server)
            BY DEF Ballots!Cardinality, Cardinality
        <3> QED
            BY <2>2, <3>2, <3>3 DEF Ballots!Quorum
    <2>6. Q # {}
        BY <2>2, <2>4, HalfType, FS_EmptySet
    <2>7. PICK q \in Q : TRUE
        BY <2>6
    <2>8. Ballots!Elect
        <3> DEFINE b == <<q, currentTerm[i], i>>
        <3>1. b \in votes /\ b[2] = currentTerm[i] /\ b[3] = i
            BY <2>3, <2>7
        <3>2. \A k \in Q : <<k, b[2], b[3]>> \in votes
            BY <2>3
        <3>3. elected' = elected \cup {<<b[2], b[3]>>}
            BY <2>1
        <3> HIDE DEF b
        <3> QED
            BY <1>1, <1>5, <2>5, <3>1, <3>2, <3>3 DEF Ballots!Elect
    <2> QED
        BY <2>8 DEF Ballots!Next
<1> QED
    BY <1>1, <1>3, <1>4, <1>5

\* A crash leaves the ballot of before or a later one on disk, wherever it falls.
LEMMA CrashBallot ==
    ASSUME TypeInv, VoteInv, NEW i \in Server, CrashStep(i)
    PROVE  Ballots!Next
<1>1. /\ IsDisk(disk[i]) /\ disk[i].term \in Nat /\ currentTerm[i] = disk[i].term
    BY DiskTypes
<1>2. ASSUME NEW t \in Nat, t > currentTerm[i], NEW v \in Server \cup {Nil},
             NEW d \in TornPersist(disk[i], t, v)
      PROVE  LaterDisk(i, d)
    <2>1. SafeDisk(i, d)
        BY <1>2, TornSafe
    <2>2. d.term = t
        BY <1>2 DEF TornPersist
    <2> QED
        BY <1>1, <1>2, <2>1, <2>2 DEF LaterDisk, SafeDisk
<1>3. ASSUME NEW m, m \in Request \cup Reply, NEW d \in TornStepDown(i, m) \cup TornGrant(i, m)
      PROVE  LaterDisk(i, d)
    <2>1. m.term \in Nat
        BY <1>3, RequestKinds, ReplyKinds
    <2>2. CASE d \in TornStepDown(i, m)
        <3>1. d \in TornPersist(disk[i], m.term, Nil) \/ d = DiskAfter(i, m.term)
            BY <2>2 DEF TornStepDown
        <3>2. m.term > currentTerm[i]
            BY <2>2 DEF TornStepDown, StepsDown
        <3>3. Nil \in Server \cup {Nil}
            OBVIOUS
        <3>4. CASE d \in TornPersist(disk[i], m.term, Nil)
            BY <1>2, <2>1, <3>2, <3>3, <3>4
        <3>5. CASE d = DiskAfter(i, m.term)
            BY <2>1, <3>5, StepDownLater
        <3> QED
            BY <3>1, <3>4, <3>5
    <2>3. CASE d \in TornGrant(i, m)
        <3>1. m.type = "REQUEST_VOTE" /\ Grants(i, m)
              /\ d = [term |-> m.term, vote |-> m.candidate, log |-> DiskAfter(i, m.term).log]
            BY <2>3 DEF TornGrant
        <3>2. m \in RequestVoteMsg
            BY <1>3, <3>1 DEF Request, Reply, RequestVoteMsg, AppendEntriesMsg, RequestVoteResp,
                              AppendEntriesResp
        <3>3. SafeDisk(i, d)
            BY <1>3, TornHandlerSafe
        <3> QED
            BY <3>1, <3>2, <3>3, GrantLater DEF SafeDisk
    <2> QED
        BY <1>3, <2>2, <2>3
<1>4. \E d : LaterDisk(i, d) /\ Restart(i, d)
    <2>1. CASE Crash(i)
        BY <1>1, <2>1 DEF Crash, LaterDisk
    <2>2. CASE CrashInTimeout(i)
        <3>1. PICK d \in TornPersist(disk[i], currentTerm[i] + 1, i) : Restart(i, d)
            BY <2>2 DEF CrashInTimeout
        <3>2. currentTerm[i] + 1 \in Nat /\ currentTerm[i] + 1 > currentTerm[i]
            BY <1>1
        <3>3. LaterDisk(i, d)
            BY <1>2, <3>1, <3>2
        <3> QED
            BY <3>1, <3>3
    <2>3. CASE CrashInHandler(i)
        <3>1. PICK m \in Deliverable(i) :
                  \E d \in TornStepDown(i, m) \cup TornGrant(i, m) : Restart(i, d)
            BY <2>3 DEF CrashInHandler
        <3>2. m \in Request
            <4>1. CASE \E o \in orphans : m = o.msg
                BY <4>1 DEF TypeInv, TypeOK
            <4>2. CASE \E k \in Server : req[k][i] # <<>> /\ m = Head(req[k][i])
                <5>1. PICK k \in Server : req[k][i] # <<>> /\ m = Head(req[k][i])
                    BY <4>2
                <5>2. req[k][i] \in Seq(Request)
                    BY LinkTypes
                <5> QED
                    BY <5>1, <5>2
            <4> QED
                BY <3>1, <4>1, <4>2 DEF Deliverable, Peers
        <3> QED
            BY <1>3, <3>1, <3>2
    <2>4. CASE \E j \in Server : CrashInResponse(i, j)
        <3>1. PICK j \in Server : CrashInResponse(i, j)
            BY <2>4
        <3>2. PICK d \in TornStepDown(i, Head(resp[i][j])) : Restart(i, d)
            BY <3>1 DEF CrashInResponse
        <3>3. Head(resp[i][j]) \in Reply
            <4>1. resp[i][j] \in Seq(Reply) /\ resp[i][j] # <<>>
                BY <3>1, LinkTypes DEF CrashInResponse
            <4> QED
                BY <4>1
        <3> QED
            BY <1>3, <3>2, <3>3
    <2> QED
        BY <2>1, <2>2, <2>3, <2>4 DEF CrashStep
<1>5. PICK d : LaterDisk(i, d) /\ Restart(i, d)
    BY <1>4
<1>6. disk' = [disk EXCEPT ![i] = d] /\ votes' = votes /\ elected' = elected
    BY <1>5 DEF Restart
<1> QED
    BY <1>5, <1>6, BallotStep

\* Every step is one of Election, or leaves its variables alone.
LEMMA ElectionStep == IInv /\ IInv' /\ [Next]_vars => [Ballots!Next]_Ballots!vars
<1> SUFFICES ASSUME IInv, IInv', [Next]_vars
             PROVE  Ballots!Next \/ UNCHANGED <<disk, votes, elected>>
    BY DEF Ballots!vars
<1>1. TypeInv /\ VoteInv
    BY DEF IInv
<1>2. ASSUME NEW i \in Server, NodeStep(i)
      PROVE  Ballots!Next \/ UNCHANGED <<disk, votes, elected>>
    BY <1>1, <1>2, TimeoutBallot DEF NodeStep, LeaderTick
<1>3. ASSUME NEW i \in Server, NEW j \in Server, ConnStep(i, j)
      PROVE  Ballots!Next \/ UNCHANGED <<disk, votes, elected>>
    <2>1. CASE HandleRequestVote(i, j) \/ HandleAppendEntries(i, j)
        <3>1. req[i][j] \in Seq(Request) /\ req[i][j] # <<>>
            BY <1>1, <2>1, LinkTypes DEF HandleRequestVote, HandleAppendEntries
        <3>2. Head(req[i][j]) \in Request
            BY <3>1
        <3> QED
            BY <1>1, <2>1, <3>2, HandlerBallot DEF HandleRequestVote, HandleAppendEntries
    <2>2. CASE ProcessRequestVoteResponse(i, j)
        BY <2>2, VoteResponseBallot
    <2>3. CASE ProcessAppendEntriesResponse(i, j) \/ Connect(i, j) \/ Break(i, j)
        BY <2>3 DEF ProcessAppendEntriesResponse, Connect, Break
    <2> QED
        BY <1>3, <2>1, <2>2, <2>3 DEF ConnStep
<1>4. ASSUME NEW o \in orphans, HandleOrphan(o) PROVE Ballots!Next
    <2>1. o.to \in Server /\ o.msg \in Request
        BY <1>1 DEF TypeInv, TypeOK
    <2> QED
        BY <1>1, <1>4, <2>1, HandlerBallot DEF HandleOrphan
<1>5. ASSUME NEW i \in Server, NEW v \in Value, Propose(i, v) PROVE Ballots!Next
    BY <1>1, <1>5, ProposeBallot
<1>6. ASSUME NEW i \in Server, CrashStep(i) PROVE Ballots!Next
    BY <1>1, <1>6, CrashBallot
<1> QED
    BY <1>2, <1>3, <1>4, <1>5, <1>6 DEF Next, RunStep, vars

\* The elections of any number of nodes, with messages, counters, persists cut short by
\* crashes and restarts, implement those of module Election.
THEOREM RaftImplementsElection == Spec => ImplementsElection
<1>1. Init => Ballots!Init
    BY DEF Init, Ballots!Init
<1>2. IInv /\ IInv' /\ [Next]_vars => [Ballots!Next]_Ballots!vars
    BY ElectionStep
<1> QED
    BY <1>1, <1>2, Invariance, PTL DEF Spec, ImplementsElection, Ballots!Spec

-----------------------------------------------------------------------------
(* Log matching.  An entry is linked to the term of the entry before it, in  *)
(* the logs and in the AppendEntries on their way.  As long as no node loses *)
(* its log, the position and the term of an entry determine the whole link.  *)

LogLinks(lg) == {<<k, TermAt(lg, k - 1), lg[k]>> : k \in DOMAIN lg}

\* The term before the k-th entry of a message
Before(m, k) == IF k > 1 THEN m.entries[k - 1].term
                ELSE IF m.prevLogIndex = 0 THEN 0 ELSE m.prevLogTerm
MessageLinks(m) == {<<m.prevLogIndex + k, Before(m, k), m.entries[k]>> : k \in DOMAIN m.entries}

LinksOfLogs == UNION {LogLinks(log[i]) : i \in Server}
LinksInFlight == UNION {MessageLinks(f[2]) : f \in Flying}
Links == LinksOfLogs \cup LinksInFlight

\* The position and term of an entry determine it and the term before it
OneLink == \A a, b \in Links : a[1] = b[1] /\ a[3].term = b[3].term => a = b

\* The term of an entry was won, and a winner who still leads it has every position of it
LinksOwned ==
    \A a \in Links : \E l \in Server :
        /\ <<a[3].term, l>> \in elected
        /\ state[l] = "LEADER" /\ currentTerm[l] = a[3].term => a[1] <= Len(log[l])

MatchInv == OneLink /\ LinksOwned

\* What handleAppendEntries makes of a log: the log up to a position at or after
\* prev_log_index, where it agrees with the message on the term, and entries of the message.
LEMMA MergeShape ==
    ASSUME NEW lg \in Seq(Entry), NEW prev \in Nat, NEW es \in Seq(Entry), prev <= Len(lg)
    PROVE  \E keep \in prev .. Len(lg) :
              /\ \A n \in DOMAIN MergeEntries(lg, prev, es) : n > keep =>
                    /\ n - prev \in DOMAIN es
                    /\ MergeEntries(lg, prev, es)[n] = es[n - prev]
              /\ \A n \in 1 .. keep : MergeEntries(lg, prev, es)[n] = lg[n]
              /\ 1 .. keep \subseteq DOMAIN MergeEntries(lg, prev, es)
              /\ keep - prev \in DOMAIN es => lg[keep].term = es[keep - prev].term
<1> DEFINE bad  == Conflicts(lg, prev, es)
           keep == IF bad = {} THEN Len(lg) ELSE prev + Min(bad) - 1
<1>1. bad \in SUBSET Nat /\ \A k \in bad : k >= 1 /\ prev + k <= Len(lg)
    BY DEF Conflicts
<1>2. bad # {} => Min(bad) \in bad /\ \A x \in bad : Min(bad) <= x
    BY <1>1, MinExists
<1>3. keep \in prev .. Len(lg)
    <2>1. CASE bad = {}
        BY <2>1
    <2>2. CASE bad # {}
        <3> HIDE DEF bad
        <3>1. Min(bad) \in Nat /\ Min(bad) >= 1 /\ prev + Min(bad) <= Len(lg)
            BY <1>1, <1>2, <2>2
        <3> QED
            BY <2>2, <3>1
    <2> QED
        BY <2>1, <2>2
<1>4. keep - prev \notin bad
    <2>1. CASE bad = {}
        BY <2>1
    <2>2. CASE bad # {}
        <3> HIDE DEF bad
        <3>1. Min(bad) \in Nat /\ keep = prev + Min(bad) - 1
            BY <1>1, <1>2, <2>2
        <3> HIDE DEF keep
        <3>2. ~(Min(bad) <= keep - prev)
            BY <3>1
        <3> QED
            BY <1>2, <2>2, <3>2
    <2> QED
        BY <2>1, <2>2
<1>5. MergeEntries(lg, prev, es) = SubSeq(lg, 1, keep) \o SubSeq(es, keep - prev + 1, Len(es))
    BY DEF MergeEntries
<1>6. keep - prev \in DOMAIN es => lg[keep].term = es[keep - prev].term
    <2>1. ASSUME keep - prev \in DOMAIN es, lg[keep].term # es[keep - prev].term
          PROVE  keep - prev \in bad
        <3> HIDE DEF keep
        <3>1. prev + (keep - prev) = keep /\ keep <= Len(lg)
            BY <1>3
        <3> QED
            BY <2>1, <3>1 DEF Conflicts
    <2> QED
        BY <1>4, <2>1
<1> HIDE DEF keep, bad
<1> DEFINE a == SubSeq(lg, 1, keep)
           b == SubSeq(es, keep - prev + 1, Len(es))
<1>7. a \in Seq(Entry) /\ Len(a) = keep /\ \A n \in 1 .. keep : a[n] = lg[n]
    BY <1>3
<1>8. /\ b \in Seq(Entry)
      /\ \A n \in DOMAIN b : keep - prev + n \in DOMAIN es /\ b[n] = es[keep - prev + n]
    BY <1>3
<1> HIDE DEF a, b
<1>9. MergeEntries(lg, prev, es) = a \o b
    BY <1>5 DEF a, b
<1>10. ASSUME NEW n \in DOMAIN (a \o b), n > keep
       PROVE  n - prev \in DOMAIN es /\ (a \o b)[n] = es[n - prev]
    <2>1. n - keep \in DOMAIN b /\ (a \o b)[n] = b[n - keep]
        BY <1>3, <1>7, <1>8, <1>10
    <2>2. keep - prev + (n - keep) = n - prev
        BY <1>3, <1>7, <1>8, <1>10
    <2> QED
        BY <1>8, <2>1, <2>2
<1>11. (\A n \in 1 .. keep : (a \o b)[n] = lg[n]) /\ 1 .. keep \subseteq DOMAIN (a \o b)
    BY <1>3, <1>7, <1>8
<1> QED
    BY <1>3, <1>6, <1>9, <1>10, <1>11

\* So it links entries the way the log or the message did.
LEMMA MergeLinks ==
    ASSUME NEW lg \in Seq(Entry), NEW m \in AppendEntriesMsg, m.prevLogIndex <= Len(lg),
           m.prevLogIndex > 0 => TermAt(lg, m.prevLogIndex) = m.prevLogTerm
    PROVE  LogLinks(MergeEntries(lg, m.prevLogIndex, m.entries)) \subseteq LogLinks(lg) \cup MessageLinks(m)
<1> DEFINE prev == m.prevLogIndex
           es == m.entries
           mg == MergeEntries(lg, prev, es)
<1>1. prev \in Nat /\ es \in Seq(Entry) /\ prev <= Len(lg)
    BY DEF AppendEntriesMsg
<1>2. mg \in Seq(Entry)
    BY <1>1, MergeEntriesType
<1>3. PICK keep \in prev .. Len(lg) :
          /\ \A n \in DOMAIN mg : n > keep => n - prev \in DOMAIN es /\ mg[n] = es[n - prev]
          /\ \A n \in 1 .. keep : mg[n] = lg[n]
          /\ 1 .. keep \subseteq DOMAIN mg
          /\ keep - prev \in DOMAIN es => lg[keep].term = es[keep - prev].term
    BY <1>1, MergeShape, ZenonT(30)
<1> HIDE DEF mg, es, prev
<1>4. ASSUME NEW n \in DOMAIN mg
      PROVE  <<n, TermAt(mg, n - 1), mg[n]>> \in LogLinks(lg) \cup MessageLinks(m)
    <2>1. n \in Nat /\ n >= 1 /\ keep \in Nat /\ prev <= keep /\ keep <= Len(lg) /\ Len(lg) \in Nat
        BY <1>1, <1>2, <1>3
    <2>2. CASE n <= keep
        <3>1. n \in DOMAIN lg /\ mg[n] = lg[n]
            BY <1>3, <2>1, <2>2
        <3>2. TermAt(mg, n - 1) = TermAt(lg, n - 1)
            <4>1. CASE n = 1
                <5>1. n - 1 \notin DOMAIN mg /\ n - 1 \notin DOMAIN lg
                    BY <1>2, <4>1
                <5> QED
                    BY <5>1 DEF TermAt
            <4>2. CASE n > 1
                <5>1. n - 1 \in 1 .. keep /\ n - 1 \in DOMAIN lg
                    BY <2>1, <2>2, <4>2
                <5> QED
                    BY <1>3, <5>1 DEF TermAt
            <4> QED
                BY <2>1, <4>1, <4>2
        <3> QED
            BY <3>1, <3>2 DEF LogLinks
    <2>3. CASE n > keep
        <3> DEFINE k == n - prev
        <3>1. k \in DOMAIN es /\ mg[n] = es[k] /\ prev + k = n /\ k \in Nat /\ k >= 1
            <4>1. n - prev \in DOMAIN es /\ mg[n] = es[n - prev]
                BY <1>3, <2>3
            <4>2. DOMAIN es = 1 .. Len(es) /\ Len(es) \in Nat
                BY <1>1
            <4> QED
                BY <1>1, <2>1, <4>1, <4>2
        <3>2. TermAt(mg, n - 1) = Before(m, k)
            <4>1. CASE n - 1 > keep
                <5>1. n - 1 \in DOMAIN mg
                    BY <1>2, <2>1, <4>1
                <5>2. mg[n - 1] = es[k - 1] /\ k > 1
                    <6>1. mg[n - 1] = es[n - 1 - prev]
                        BY <1>3, <4>1, <5>1
                    <6>2. n - 1 - prev = k - 1 /\ k > 1
                        BY <1>1, <2>1, <4>1
                    <6> QED
                        BY <6>1, <6>2
                <5> QED
                    BY <5>1, <5>2 DEF TermAt, Before, es
            <4>2. CASE n - 1 = keep /\ keep > prev
                <5>1. k > 1 /\ k - 1 = keep - prev /\ k - 1 \in DOMAIN es
                    BY <1>1, <2>1, <3>1, <4>2
                <5>2. keep \in 1 .. keep /\ keep \in DOMAIN lg
                    BY <1>1, <2>1, <4>2
                <5>3. mg[keep].term = es[k - 1].term /\ keep \in DOMAIN mg
                    BY <1>3, <5>1, <5>2
                <5> QED
                    BY <4>2, <5>1, <5>3 DEF TermAt, Before, es
            <4>3. CASE n - 1 = keep /\ keep = prev /\ prev > 0
                <5>1. k = 1 /\ ~(k > 1)
                    BY <1>1, <2>1, <4>3
                <5>2. prev \in 1 .. keep /\ prev \in DOMAIN lg /\ prev \in DOMAIN mg
                    BY <1>1, <1>3, <2>1, <4>3
                <5>3. TermAt(mg, n - 1) = TermAt(lg, prev)
                    BY <1>3, <4>3, <5>2 DEF TermAt
                <5> QED
                    BY <4>3, <5>1, <5>3 DEF Before, prev
            <4>4. CASE n - 1 = keep /\ keep = prev /\ prev = 0
                <5>1. k = 1 /\ n - 1 \notin DOMAIN mg
                    BY <1>2, <2>1, <4>4
                <5> QED
                    BY <4>4, <5>1 DEF TermAt, Before, prev
            <4> QED
                BY <1>1, <2>1, <2>3, <4>1, <4>2, <4>3, <4>4
        <3>3. <<m.prevLogIndex + k, Before(m, k), m.entries[k]>> \in MessageLinks(m)
            BY <3>1 DEF MessageLinks, es
        <3> QED
            BY <3>1, <3>2, <3>3 DEF es, prev
    <2> QED
        BY <2>1, <2>2, <2>3
<1> QED
    BY <1>4 DEF LogLinks, mg, es, prev

\* A leader sends entries linked the way its log links them.
LEMMA SentLinks ==
    ASSUME NEW i \in Server, NEW lg \in Seq(Entry), NEW ni \in [Server -> Nat],
           \A j \in Server : ni[j] >= 1, NEW hb \in BOOLEAN, NEW f \in SentBy(i, lg, ni, hb)
    PROVE  MessageLinks(f[2]) \subseteq LogLinks(lg)
<1>1. PICK j \in Peers(i) : f = <<j, AppendEntriesTo(i, lg, ni, j, hb)>>
    BY DEF SentBy
<1> DEFINE m == AppendEntriesTo(i, lg, ni, j, hb)
           n == ni[j]
<1>2. n \in Nat /\ n >= 1 /\ Len(lg) \in Nat /\ f[2] = m
    BY <1>1 DEF Peers
<1>3. /\ m.prevLogIndex = n - 1 /\ m.prevLogTerm = TermAt(lg, n - 1)
      /\ m.entries = IF hb THEN <<>> ELSE EntriesFrom(lg, n)
    BY DEF AppendEntriesTo
<1> HIDE DEF m, n
<1>4. ASSUME NEW k \in DOMAIN m.entries
      PROVE  <<m.prevLogIndex + k, Before(m, k), m.entries[k]>> \in LogLinks(lg)
    <2>1. ~hb /\ m.entries = EntriesFrom(lg, n)
        BY <1>3, <1>4
    <2>2. k \in 1 .. Len(lg) - n + 1
        BY <1>4, <2>1 DEF EntriesFrom
    <2>3. k \in Nat /\ k >= 1 /\ n + k - 1 \in DOMAIN lg /\ m.prevLogIndex + k = n + k - 1
        BY <1>2, <1>3, <2>2
    <2>4. m.entries[k] = lg[n + k - 1]
        BY <2>1, <2>2, <2>3 DEF EntriesFrom, EntryAt
    <2>5. Before(m, k) = TermAt(lg, n + k - 2)
        <3>1. CASE k > 1
            <4>1. k - 1 \in 1 .. Len(lg) - n + 1 /\ n + (k - 1) - 1 = n + k - 2 /\ n + k - 2 \in DOMAIN lg
                BY <1>2, <2>2, <3>1
            <4>2. m.entries[k - 1] = lg[n + k - 2]
                BY <2>1, <4>1 DEF EntriesFrom, EntryAt
            <4> QED
                BY <3>1, <4>1, <4>2 DEF Before, TermAt
        <3>2. CASE k = 1
            <4>1. n + k - 2 = n - 1
                BY <1>2, <3>2
            <4>2. n = 1 => TermAt(lg, n - 1) = 0
                BY DEF TermAt
            <4> QED
                BY <1>2, <1>3, <3>2, <4>1, <4>2 DEF Before
        <3> QED
            BY <2>3, <3>1, <3>2
    <2>6. n + k - 2 = (n + k - 1) - 1
        BY <1>2, <2>3
    <2>7. <<n + k - 1, TermAt(lg, (n + k - 1) - 1), lg[n + k - 1]>> \in LogLinks(lg)
        BY <2>3 DEF LogLinks
    <2> QED
        BY <2>3, <2>4, <2>5, <2>6, <2>7
<1> QED
    BY <1>2, <1>4 DEF MessageLinks

\* A link is one of a log or of a message.
LEMMA LinkSources ==
    \A a : a \in Links <=> \/ \E i \in Server : a \in LogLinks(log[i])
                          \/ \E f \in Flying : a \in MessageLinks(f[2])
<1> SUFFICES ASSUME NEW a
             PROVE  a \in Links <=> \/ \E i \in Server : a \in LogLinks(log[i])
                                   \/ \E f \in Flying : a \in MessageLinks(f[2])
    OBVIOUS
<1>1. a \in LinksOfLogs <=> \E i \in Server : a \in LogLinks(log[i])
    BY Zenon DEF LinksOfLogs
<1>2. a \in LinksInFlight <=> \E f \in Flying : a \in MessageLinks(f[2])
    BY Zenon DEF LinksInFlight
<1> QED
    BY <1>1, <1>2 DEF Links

\* Positions of links are numbers, and what they link is an entry.
LEMMA LinkParts ==
    ASSUME TypeInv, NEW a \in Links
    PROVE  a[1] \in Nat /\ a[3] \in Entry
<1>1. CASE \E i \in Server : a \in LogLinks(log[i])
    <2>1. PICK i \in Server : a \in LogLinks(log[i])
        BY <1>1
    <2>2. log[i] \in Seq(Entry)
        BY DEF TypeInv, TypeOK
    <2>3. PICK k \in DOMAIN log[i] : a = <<k, TermAt(log[i], k - 1), log[i][k]>>
        BY <2>1 DEF LogLinks
    <2> QED
        BY <2>2, <2>3
<1>2. CASE \E f \in Flying : a \in MessageLinks(f[2])
    <2>1. PICK f \in Flying : a \in MessageLinks(f[2])
        BY <1>2
    <2>2. f[2].prevLogIndex \in Nat /\ f[2].entries \in Seq(Entry)
        BY DEF Flying, AppendEntriesMsg
    <2>3. PICK k \in DOMAIN f[2].entries :
              a = <<f[2].prevLogIndex + k, Before(f[2], k), f[2].entries[k]>>
        BY <2>1 DEF MessageLinks
    <2>4. k \in Nat /\ f[2].entries[k] \in Entry
        BY <2>2
    <2> QED
        BY <2>2, <2>3, <2>4
<1> QED
    BY <1>1, <1>2, LinkSources

\* After a step every link was there before or is one of a log.
LEMMA LinksMove ==
    ASSUME TypeInv', FlightMoves, NEW a \in Links'
    PROVE  a \in Links \/ \E i \in Server : a \in LogLinks(log'[i])
<1>1. CASE \E i \in Server : a \in LogLinks(log'[i])
    BY <1>1
<1>2. CASE \E f \in Flying' : a \in MessageLinks(f[2])
    <2>1. PICK f \in Flying' : a \in MessageLinks(f[2])
        BY <1>2
    <2>2. CASE f \in Flying
        BY <2>1, <2>2, LinkSources
    <2>3. CASE f \notin Flying
        <3>1. PICK i \in Server, ni \in [Server -> Nat], hb \in BOOLEAN :
                  /\ \A j \in Server : ni[j] >= 1
                  /\ f \in SentBy(i, log'[i], ni, hb)
            BY <2>3 DEF FlightMoves
        <3> DEFINE lg == log'[i]
        <3>2. lg \in Seq(Entry) /\ f \in SentBy(i, lg, ni, hb)
            BY <3>1 DEF TypeInv, TypeOK
        <3> HIDE DEF lg
        <3>3. MessageLinks(f[2]) \subseteq LogLinks(lg)
            BY <3>1, <3>2, SentLinks
        <3> QED
            BY <2>1, <3>3 DEF lg
    <2> QED
        BY <2>2, <2>3
<1>3. \/ \E i \in Server : a \in LogLinks(log'[i])
      \/ \E f \in Flying' : a \in MessageLinks(f[2])
    <2>1. a \in LinksOfLogs' <=> \E i \in Server : a \in LogLinks(log'[i])
        BY Zenon DEF LinksOfLogs
    <2>2. a \in LinksInFlight' <=> \E f \in Flying' : a \in MessageLinks(f[2])
        BY Zenon DEF LinksInFlight
    <2> QED
        BY <2>1, <2>2 DEF Links
<1> QED
    BY <1>1, <1>2, <1>3

\* A step that links nothing anew keeps log matching, also when it wins an election.
LEMMA MatchFrame ==
    ASSUME IInv, IInv', LeaderInv, MatchInv, LeaderStep, Links' \subseteq Links,
           \A i \in Server : state[i] = "LEADER" /\ state'[i] = "LEADER" =>
               Len(log[i]) <= Len(log'[i])
    PROVE  MatchInv'
<1>1. OneLink'
    BY DEF MatchInv, OneLink
<1>2. ASSUME NEW a \in Links'
      PROVE  \E l \in Server :
                /\ <<a[3].term, l>> \in elected'
                /\ state'[l] = "LEADER" /\ currentTerm'[l] = a[3].term => a[1] <= Len(log'[l])
    <2>1. a \in Links /\ a[1] \in Nat
        BY <1>2, LinkParts DEF IInv
    <2>2. PICK l \in Server :
              /\ <<a[3].term, l>> \in elected
              /\ state[l] = "LEADER" /\ currentTerm[l] = a[3].term => a[1] <= Len(log[l])
        BY <2>1 DEF MatchInv, LinksOwned
    <2>3. <<a[3].term, l>> \in elected'
        BY <2>2 DEF LeaderStep, WinsAsLeader
    <2>4. ASSUME state'[l] = "LEADER", currentTerm'[l] = a[3].term
          PROVE  a[1] <= Len(log'[l])
        <3>1. state[l] # "FOLLOWER" /\ currentTerm[l] = a[3].term
            BY <2>4 DEF LeaderStep, LeadersStay
        <3>2. state[l] # "CANDIDATE"
            BY <2>2, <3>1 DEF LeaderInv, CandidatesReached
        <3>3. state[l] = "LEADER"
            <4>1. state[l] \in {"FOLLOWER", "CANDIDATE", "LEADER"}
                BY DEF IInv, TypeInv, TypeOK, States
            <4> QED
                BY <3>1, <3>2, <4>1
        <3>4. Len(log[l]) \in Nat /\ Len(log'[l]) \in Nat
            <4>1. log[l] \in Seq(Entry) /\ log'[l] \in Seq(Entry)
                BY DEF IInv, TypeInv, TypeOK
            <4> QED
                BY <4>1
        <3>5. a[1] <= Len(log[l]) /\ Len(log[l]) <= Len(log'[l])
            BY <2>2, <2>4, <3>1, <3>3
        <3> QED
            BY <2>1, <3>4, <3>5
    <2> QED
        BY <2>3, <2>4
<1>3. LinksOwned'
    BY <1>2 DEF LinksOwned
<1> QED
    BY <1>1, <1>3 DEF MatchInv

\* propose links its entry to a position no entry of the term has had.
LEMMA ProposeMatch ==
    ASSUME IInv, IInv', LeaderInv, MatchInv, FlightMoves,
           NEW i \in Server, NEW v \in Value, Propose(i, v)
    PROVE  MatchInv'
<1> DEFINE lg == log[i]
           n == Len(lg) + 1
           e == NewEntry(lg, currentTerm[i], v)
           new == <<n, TermAt(lg, n - 1), e>>
<1>1. TypeInv /\ TypeInv'
    BY DEF IInv
<1>2. /\ lg \in Seq(Entry) /\ Len(lg) \in Nat /\ n \in Nat /\ currentTerm[i] \in Nat
      /\ log \in [Server -> Seq(Entry)] /\ e \in Entry /\ e.term = currentTerm[i]
    <2>1. lg \in Seq(Entry) /\ currentTerm[i] \in Nat /\ log \in [Server -> Seq(Entry)]
        BY <1>1 DEF TypeInv, TypeOK
    <2>2. Len(lg) \in Nat /\ n \in Nat
        BY <2>1
    <2>3. e \in Entry /\ e.term = currentTerm[i]
        BY <2>1, <2>2 DEF NewEntry, Entry
    <2> QED
        BY <2>1, <2>2, <2>3
<1>3. /\ state[i] = "LEADER" /\ log' = [log EXCEPT ![i] = Append(lg, e)]
      /\ UNCHANGED <<state, currentTerm, elected>>
    BY DEF Propose
<1> HIDE DEF e
<1>4. log'[i] = Append(lg, e) /\ Len(log'[i]) = n /\ \A j \in Server : j # i => log'[j] = log[j]
    BY <1>2, <1>3
<1>5. ASSUME NEW a \in Links' PROVE a \in Links \/ a = new
    <2>1. ASSUME NEW j \in Server, a \in LogLinks(log'[j]), a \notin Links PROVE a = new
        <3>1. j = i
            <4>1. j # i => a \in LogLinks(log[j])
                BY <1>4, <2>1
            <4> QED
                BY <2>1, <4>1, LinkSources
        <3>2. PICK k \in DOMAIN log'[i] : a = <<k, TermAt(log'[i], k - 1), log'[i][k]>>
            BY <2>1, <3>1 DEF LogLinks
        <3>3. k \in 1 .. n
            BY <1>2, <1>4, <3>2
        <3>4. TermAt(log'[i], k - 1) = TermAt(lg, k - 1)
            <4>1. CASE k = 1
                <5>1. k - 1 \notin DOMAIN lg /\ k - 1 \notin DOMAIN log'[i]
                    BY <1>2, <1>4, <4>1
                <5> QED
                    BY <5>1 DEF TermAt
            <4>2. CASE k # 1
                <5>1. k - 1 \in DOMAIN lg /\ k - 1 \in DOMAIN log'[i] /\ log'[i][k - 1] = lg[k - 1]
                    BY <1>2, <1>4, <3>3, <4>2
                <5> QED
                    BY <5>1 DEF TermAt
            <4> QED
                BY <4>1, <4>2
        <3>5. CASE k = n
            <4>1. log'[i][n] = e
                BY <1>2, <1>4
            <4> QED
                BY <3>2, <3>4, <3>5, <4>1
        <3>6. CASE k # n
            <4>1. k \in DOMAIN lg /\ log'[i][k] = lg[k]
                BY <1>2, <1>4, <3>3, <3>6
            <4>2. a \in LogLinks(lg)
                BY <3>2, <3>4, <4>1 DEF LogLinks
            <4> QED
                BY <2>1, <4>2, LinkSources
        <3> QED
            BY <3>5, <3>6
    <2> QED
        BY <1>1, <1>5, <2>1, LinksMove
<1>6. new[1] = n /\ new[3] = e
    OBVIOUS
<1> HIDE DEF new
<1>7. ASSUME NEW b \in Links, b[1] = n, b[3].term = currentTerm[i] PROVE FALSE
    <2>1. PICK l \in Server :
              /\ <<currentTerm[i], l>> \in elected
              /\ state[l] = "LEADER" /\ currentTerm[l] = currentTerm[i] => n <= Len(log[l])
        BY <1>7 DEF MatchInv, LinksOwned
    <2>2. <<currentTerm[i], i>> \in elected
        BY <1>3 DEF LeaderInv, LeadersElected
    <2>3. l = i
        BY <2>1, <2>2, MajoritiesMeet DEF ElectionSafety
    <2>4. n <= Len(lg)
        BY <1>3, <2>1, <2>3
    <2> QED
        BY <1>2, <2>4
<1>8. OneLink'
    <2> SUFFICES ASSUME NEW a \in Links', NEW b \in Links', a[1] = b[1], a[3].term = b[3].term
                 PROVE  a = b
        BY DEF OneLink
    <2>1. CASE a \in Links /\ b \in Links
        BY <2>1 DEF MatchInv, OneLink
    <2>2. CASE a = new /\ b \in Links
        BY <1>2, <1>6, <1>7, <2>2
    <2>3. CASE a \in Links /\ b = new
        BY <1>2, <1>6, <1>7, <2>3
    <2> QED
        BY <1>5, <2>1, <2>2, <2>3
<1>9. LinksOwned'
    <2> SUFFICES ASSUME NEW a \in Links'
                 PROVE  \E l \in Server :
                           /\ <<a[3].term, l>> \in elected'
                           /\ state'[l] = "LEADER" /\ currentTerm'[l] = a[3].term
                                 => a[1] <= Len(log'[l])
        BY DEF LinksOwned
    <2>1. CASE a = new
        <3>1. <<currentTerm[i], i>> \in elected'
            BY <1>3 DEF LeaderInv, LeadersElected
        <3>2. a[1] <= Len(log'[i]) /\ a[3].term = currentTerm[i]
            BY <1>2, <1>4, <1>6, <2>1
        <3> QED
            BY <3>1, <3>2
    <2>2. CASE a \in Links
        <3>1. PICK l \in Server :
                  /\ <<a[3].term, l>> \in elected
                  /\ state[l] = "LEADER" /\ currentTerm[l] = a[3].term => a[1] <= Len(log[l])
            BY <2>2 DEF MatchInv, LinksOwned
        <3>2. a[1] \in Nat /\ Len(log[l]) \in Nat
            <4>1. log[l] \in Seq(Entry)
                BY <1>1 DEF TypeInv, TypeOK
            <4> QED
                BY <1>1, <2>2, <4>1, LinkParts
        <3>3. Len(log[l]) <= Len(log'[l]) /\ Len(log'[l]) \in Nat
            BY <1>2, <1>4, <3>2
        <3> QED
            BY <1>3, <3>1, <3>2, <3>3, SMTT(30)
    <2> QED
        BY <1>5, <2>1, <2>2
<1> QED
    BY <1>8, <1>9 DEF MatchInv

\* Any step that is not a crash keeps log matching.
LEMMA NextMatch ==
    ASSUME IInv, IInv', LeaderInv, MatchInv, [Next]_vars,
           \A i \in Server : \A d : ~Restart(i, d)
    PROVE  MatchInv'
<1>1. TypeInv /\ TypeInv' /\ LeaderStep /\ FlightMoves
    BY NextLeaderStep DEF IInv, LeaderStep
<1>2. \A i \in Server : state[i] = "LEADER" /\ state'[i] = "LEADER" => Len(log[i]) <= Len(log'[i])
    BY LeaderKeepsLog
<1>3. CASE log' = log
    <2>1. Links' \subseteq Links
        BY <1>1, <1>3, LinksMove, LinkSources
    <2> QED
        BY <1>1, <1>2, <2>1, MatchFrame
<1>4. CASE \E i \in Server, v \in Value : Propose(i, v)
    BY <1>1, <1>4, ProposeMatch
<1>5. ASSUME NEW j \in Server, NEW m \in AppendEntriesMsg, <<j, m>> \in Flying,
             AppendEntriesStep(j, m), log' # log
      PROVE  MatchInv'
    <2>1. Accepts(j, m) /\ log' = [log EXCEPT ![j] = MergeEntries(log[j], m.prevLogIndex, m.entries)]
        BY <1>5 DEF AppendEntriesStep
    <2>2. log \in [Server -> Seq(Entry)] /\ log[j] \in Seq(Entry)
        BY <1>1 DEF TypeInv, TypeOK
    <2>3. /\ log'[j] = MergeEntries(log[j], m.prevLogIndex, m.entries)
          /\ \A i \in Server : i # j => log'[i] = log[i]
        BY <2>1, <2>2
    <2>4. LogLinks(log'[j]) \subseteq LogLinks(log[j]) \cup MessageLinks(m)
        BY <2>1, <2>2, <2>3, MergeLinks DEF Accepts, Matches
    <2>5. MessageLinks(m) \subseteq Links
        BY <1>5, LinkSources
    <2>6. ASSUME NEW i \in Server PROVE LogLinks(log'[i]) \subseteq Links
        BY <2>3, <2>4, <2>5, LinkSources
    <2>7. Links' \subseteq Links
        BY <1>1, <2>6, LinksMove
    <2> QED
        BY <1>1, <1>2, <2>7, MatchFrame
<1> QED
    BY <1>3, <1>4, <1>5, LogSteps

\* The number of crashes does not change without one.
LEMMA CrashesCounted ==
    ASSUME IInv, [Next]_vars, crashes' = 0
    PROVE  crashes = 0 /\ \A i \in Server : \A d : ~Restart(i, d)
<1>1. crashes \in Nat
    BY DEF IInv, TypeInv, TypeOK
<1>2. \A i \in Server : \A d : ~Restart(i, d)
    BY <1>1 DEF Restart
<1>3. crashes' = crashes
    <2>1. \A i \in Server : ~CrashStep(i)
        BY <1>2 DEF CrashStep, Crash, CrashInTimeout, CrashInHandler, CrashInResponse
    <2>2. ASSUME NEW i \in Server, NodeStep(i) PROVE crashes' = crashes
        BY <2>2 DEF NodeStep, Timeout, LeaderTick
    <2>3. ASSUME NEW i \in Server, NEW j \in Server, ConnStep(i, j) PROVE crashes' = crashes
        BY <2>3 DEF ConnStep, HandleRequestVote, HandleAppendEntries, ProcessRequestVoteResponse,
                    ProcessAppendEntriesResponse, Connect, Break, boundVars
    <2>4. ASSUME NEW o \in orphans, HandleOrphan(o) PROVE crashes' = crashes
        BY <2>4 DEF HandleOrphan
    <2>5. ASSUME NEW i \in Server, NEW v \in Value, Propose(i, v) PROVE crashes' = crashes
        BY <2>5 DEF Propose
    <2> QED
        BY <2>1, <2>2, <2>3, <2>4, <2>5 DEF Next, RunStep, vars
<1> QED
    BY <1>2, <1>3

\* From one link to the one before it, logs that agree on a term agree on all before.
LEMMA LinksMatch == IInv /\ MatchInv => LogMatching
<1> SUFFICES ASSUME IInv, MatchInv, NEW i \in Server, NEW j \in Server,
                    NEW k \in DOMAIN log[i] \cap DOMAIN log[j],
                    log[i][k].term = log[j][k].term
             PROVE  SubSeq(log[i], 1, k) = SubSeq(log[j], 1, k)
    BY DEF LogMatching
<1> DEFINE a == log[i]
           b == log[j]
           Differ == {n \in 0 .. k - 1 : a[k - n].term # b[k - n].term}
<1>1. a \in Seq(Entry) /\ b \in Seq(Entry) /\ k \in 1 .. Len(a) /\ k \in 1 .. Len(b)
    <2>1. log[i] \in Seq(Entry) /\ log[j] \in Seq(Entry)
        BY DEF IInv, TypeInv, TypeOK
    <2> QED
        BY <2>1
<1>2. ASSUME NEW n \in 1 .. k, a[n].term = b[n].term
      PROVE  a[n] = b[n] /\ TermAt(a, n - 1) = TermAt(b, n - 1)
    <2>1. n \in DOMAIN a /\ n \in DOMAIN b
        BY <1>1
    <2>2. <<n, TermAt(a, n - 1), a[n]>> \in Links /\ <<n, TermAt(b, n - 1), b[n]>> \in Links
        BY <2>1, LinkSources DEF LogLinks
    <2>3. <<n, TermAt(a, n - 1), a[n]>> = <<n, TermAt(b, n - 1), b[n]>>
        BY <1>2, <2>2 DEF MatchInv, OneLink
    <2> QED
        BY <2>3
<1>3. Differ = {}
    <2>1. SUFFICES ASSUME Differ # {} PROVE FALSE
        OBVIOUS
    <2>2. Min(Differ) \in Differ /\ \A n \in Differ : Min(Differ) <= n
        <3>1. Differ \in SUBSET Nat
            BY <1>1
        <3> HIDE DEF Differ
        <3> QED
            BY <2>1, <3>1, MinExists
    <2>3. PICK n \in Differ : n = Min(Differ)
        BY <2>2
    <2>4. n \in Nat /\ n >= 1 /\ n <= k - 1 /\ a[k - n].term # b[k - n].term
        <3>1. n \in 0 .. k - 1 /\ a[k - n].term # b[k - n].term
            BY <2>3
        <3>2. n # 0
            <4>1. k - 0 = k /\ a[k].term = b[k].term
                BY <1>1
            <4> QED
                BY <3>1, <4>1
        <3> HIDE DEF a, b
        <3>3. n \in Nat /\ n >= 1 /\ n <= k - 1
            BY <1>1, <3>1, <3>2
        <3> QED
            BY <3>1, <3>3
    <2>5. n - 1 \in 0 .. k - 1 /\ ~(n <= n - 1)
        BY <1>1, <2>4
    <2>6. a[k - (n - 1)].term = b[k - (n - 1)].term
        BY <2>2, <2>3, <2>5
    <2>7. k - (n - 1) \in 1 .. k /\ k - (n - 1) - 1 = k - n /\ k - n \in DOMAIN a /\ k - n \in DOMAIN b
        BY <1>1, <2>4, SMTT(30)
    <2>8. TermAt(a, k - n) = TermAt(b, k - n)
        BY <1>2, <2>6, <2>7
    <2> QED
        BY <2>4, <2>7, <2>8 DEF TermAt
<1>4. ASSUME NEW n \in 1 .. k PROVE a[n] = b[n]
    <2>1. k - n \in 0 .. k - 1 /\ k - (k - n) = n
        <3>1. k \in Nat /\ n \in Nat /\ 1 <= n /\ n <= k
            BY <1>1, <1>4
        <3> QED
            BY <3>1
    <2>2. a[n].term = b[n].term
        BY <1>3, <2>1
    <2> QED
        BY <1>2, <2>2
<1> HIDE DEF a, b
<1>5. SubSeq(a, 1, k) = SubSeq(b, 1, k)
    BY <1>1, <1>4
<1> QED
    BY <1>5 DEF a, b

\* Until a node crashes, logs that agree on the term at an index agree on everything up to
\* it, whatever leaders follow each other.  (What a node recovers after a crash is not the log
\* it had, see DiskHoldsLog.)
THEOREM LogsMatchUntilCrash == Spec => [](crashes = 0 => LogMatching)
<1>1. Init => MatchInv
    <2> SUFFICES ASSUME Init PROVE MatchInv
        OBVIOUS
    <2>1. Flying = {}
        BY DEF Init, Flying
    <2>2. \A i \in Server : LogLinks(log[i]) = {}
        BY DEF Init, LogLinks
    <2>3. Links = {}
        BY <2>1, <2>2, LinkSources
    <2> QED
        BY <2>3 DEF MatchInv, OneLink, LinksOwned
<1>2. /\ IInv /\ LeaderInv /\ IInv' /\ LeaderInv' /\ [Next]_vars
      => ((crashes = 0 => MatchInv) => (crashes = 0 => MatchInv)')
    <2> SUFFICES ASSUME IInv, IInv', LeaderInv, [Next]_vars, crashes = 0 => MatchInv, crashes' = 0
                 PROVE  MatchInv'
        OBVIOUS
    <2> QED
        BY CrashesCounted, NextMatch
<1>3. IInv /\ (crashes = 0 => MatchInv) => (crashes = 0 => LogMatching)
    BY LinksMatch
<1> QED
    BY <1>1, <1>2, <1>3, LeaderInvariance, PTL DEF Spec

=============================================================================
