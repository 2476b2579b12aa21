---------------------------- MODULE FriendsProof ----------------------------
(***************************************************************************)
(* Proofs about the table friend, for any users and any bounds: its three  *)
(* invariants are inductive together.  AgreedListed and ApplicationKept    *)
(* rest on what each statement does to the one row it names; the types are *)
(* needed to know that the row a statement names is a row of the table.    *)
(***************************************************************************)
EXTENDS Friends, TLAPS

\* The inductive invariant.
FriendsInv == FriendsTypeOK /\ AgreedListed /\ ApplicationKept

\* What a statement that writes to a row does to the others.
LEMMA SetRow ==
    ASSUME FriendsTypeOK, NEW u \in User, NEW f \in User,
           NEW s \in {"none", "applied", "friends"}, Set(u, f, s)
    PROVE  /\ friend' \in [User -> [User -> {"none", "applied", "friends"}]]
           /\ friend'[u][f] = s
           /\ \A v, g \in User : <<v, g>> # <<u, f>> => friend'[v][g] = friend[v][g]
BY DEF FriendsTypeOK, Set

\* A statement leaves the count of faults within its bound.
LEMMA StatementBound ==
    ASSUME FriendsTypeOK, NEW ok \in BOOLEAN, Statement(ok)
    PROVE  faults' \in 0 .. MaxFaults
<1>1. CASE ok
  BY <1>1 DEF FriendsTypeOK, Statement
<1>2. CASE ~ok
  BY <1>2, FriendsAssumption DEF FriendsTypeOK, Statement
<1> QED BY <1>1, <1>2

\* Before any request the table is empty.
LEMMA FriendsInitial == Init => FriendsInv
BY FriendsAssumption DEF Init, FriendsInv, FriendsTypeOK, AgreedListed, ApplicationKept

\* A request of a client goes into the pool and changes no row.
LEMMA RequestKeeps ==
    ASSUME FriendsInv, NEW u \in User, NEW f \in User, NEW op \in Op, Request(u, op, f)
    PROVE  FriendsInv'
<1>1. requests + 1 \in 1 .. MaxRequests
  BY FriendsAssumption DEF FriendsInv, FriendsTypeOK, Request
<1>2. [op |-> op, user |-> u, friend |-> f, n |-> requests + 1] \in Task
  BY <1>1 DEF Task
<1>3. FriendsTypeOK'
  BY <1>1, <1>2 DEF FriendsInv, FriendsTypeOK, Request
<1>4. AgreedListed' /\ ApplicationKept'
  BY DEF FriendsInv, AgreedListed, ApplicationKept, FriendList, ApplyList, Request
<1> QED BY <1>3, <1>4 DEF FriendsInv

\* addfriend makes a row only where there is none, so a friendship stays one.
LEMMA AddFriendKeeps ==
    ASSUME FriendsInv, NEW t \in tasks, NEW ok \in BOOLEAN, AddFriend(t, ok)
    PROVE  FriendsInv'
<1>0. FriendsTypeOK /\ t.user \in User /\ t.friend \in User
  BY DEF FriendsInv, FriendsTypeOK, Task
<1>1. faults' \in 0 .. MaxFaults
  BY <1>0, StatementBound DEF AddFriend
<1>2. CASE ok /\ Insertable(t.user, t.friend)
  <2>1. Set(t.user, t.friend, "applied") /\ applied' = applied \cup {<<t.user, t.friend>>}
        /\ UNCHANGED <<refused, halfway, client, requests, agreed>> /\ tasks' \subseteq tasks
    BY <1>2 DEF AddFriend
  <2>2. /\ friend' \in [User -> [User -> {"none", "applied", "friends"}]]
        /\ friend'[t.user][t.friend] = "applied"
        /\ \A v, g \in User : <<v, g>> # <<t.user, t.friend>> => friend'[v][g] = friend[v][g]
    BY <1>0, <2>1, SetRow
  <2>3. FriendsTypeOK'
    BY <1>0, <1>1, <2>1, <2>2 DEF FriendsTypeOK
  <2>4. AgreedListed'
    <3> SUFFICES ASSUME NEW p \in agreed PROVE friend'[p[2]][p[1]] = "friends" /\ p[1] \in User
      BY <2>1 DEF AgreedListed, FriendList
    <3>1. p[1] \in User /\ p[2] \in User /\ friend[p[2]][p[1]] = "friends"
      BY <1>0 DEF FriendsInv, FriendsTypeOK, AgreedListed, FriendList
    <3>2. friend[t.user][t.friend] = "none"
      BY <1>2 DEF Insertable
    <3> QED BY <3>1, <3>2, <2>2
  <2>5. ApplicationKept'
    <3> SUFFICES ASSUME NEW p \in applied'
                 PROVE  p[1] \in User /\ p[2] \in User /\ friend'[p[1]][p[2]] \in {"applied", "friends"}
      BY DEF ApplicationKept, FriendList, ApplyList
    <3>1. CASE p = <<t.user, t.friend>>
      BY <3>1, <2>2, <1>0
    <3>2. CASE p \in applied
      <4>1. p[1] \in User /\ p[2] \in User /\ friend[p[1]][p[2]] \in {"applied", "friends"}
        BY <1>0, <3>2 DEF FriendsInv, FriendsTypeOK, ApplicationKept, FriendList, ApplyList
      <4> QED BY <4>1, <2>2
    <3> QED BY <3>1, <3>2, <2>1
  <2> QED BY <2>3, <2>4, <2>5 DEF FriendsInv
<1>3. CASE ~(ok /\ Insertable(t.user, t.friend))
  <2>1. /\ refused' = refused \cup {t.user} /\ tasks' \subseteq tasks
        /\ UNCHANGED <<friend, applied, halfway, client, requests, agreed>>
    BY <1>3 DEF AddFriend
  <2>2. FriendsTypeOK'
    BY <1>0, <1>1, <2>1 DEF FriendsTypeOK
  <2>3. AgreedListed' /\ ApplicationKept'
    BY <2>1 DEF FriendsInv, AgreedListed, ApplicationKept, FriendList, ApplyList
  <2> QED BY <2>2, <2>3 DEF FriendsInv
<1> QED BY <1>2, <1>3

\* The UPDATE of agreeFriend turns an application into a friendship and makes no row.
LEMMA AgreeKeeps ==
    ASSUME FriendsInv, NEW t \in tasks, NEW ok \in BOOLEAN, Agree(t, ok)
    PROVE  FriendsInv'
<1>0. FriendsTypeOK /\ t.user \in User /\ t.friend \in User /\ t \in Task
  BY DEF FriendsInv, FriendsTypeOK, Task
<1>1. faults' \in 0 .. MaxFaults
  BY <1>0, StatementBound DEF Agree
<1>2. CASE ok
  <2> DEFINE new == Updated(friend[t.user][t.friend])
  <2>0. new \in {"none", "applied", "friends"}
    BY <1>0 DEF FriendsTypeOK, Updated
  <2>1. Set(t.user, t.friend, new) /\ halfway' = halfway \cup {t}
        /\ UNCHANGED <<refused, client, requests, agreed, applied>> /\ tasks' \subseteq tasks
    BY <1>2 DEF Agree
  <2>2. /\ friend' \in [User -> [User -> {"none", "applied", "friends"}]]
        /\ friend'[t.user][t.friend] = new
        /\ \A v, g \in User : <<v, g>> # <<t.user, t.friend>> => friend'[v][g] = friend[v][g]
    BY <1>0, <2>0, <2>1, SetRow
  <2>3. FriendsTypeOK'
    BY <1>0, <1>1, <2>1, <2>2 DEF FriendsTypeOK
  <2>4. \A v, g \in User : friend[v][g] # "none" => friend'[v][g] \in {friend[v][g], "friends"}
    BY <2>2 DEF Updated
  <2>5. AgreedListed'
    <3> SUFFICES ASSUME NEW p \in agreed PROVE friend'[p[2]][p[1]] = "friends" /\ p[1] \in User
      BY <2>1 DEF AgreedListed, FriendList
    <3>1. p[1] \in User /\ p[2] \in User /\ friend[p[2]][p[1]] = "friends"
      BY <1>0 DEF FriendsInv, FriendsTypeOK, AgreedListed, FriendList
    <3> QED BY <3>1, <2>4
  <2>6. ApplicationKept'
    <3> SUFFICES ASSUME NEW p \in applied
                 PROVE  p[1] \in User /\ p[2] \in User /\ friend'[p[1]][p[2]] \in {"applied", "friends"}
      BY <2>1 DEF ApplicationKept, FriendList, ApplyList
    <3>1. p[1] \in User /\ p[2] \in User /\ friend[p[1]][p[2]] \in {"applied", "friends"}
      BY <1>0 DEF FriendsInv, FriendsTypeOK, ApplicationKept, FriendList, ApplyList
    <3> QED BY <3>1, <2>4
  <2> QED BY <2>3, <2>5, <2>6 DEF FriendsInv
<1>3. CASE ~ok
  <2>1. /\ tasks' \subseteq tasks
        /\ UNCHANGED <<friend, halfway, refused, client, requests, agreed, applied>>
    BY <1>3 DEF Agree
  <2>2. FriendsTypeOK'
    BY <1>0, <1>1, <2>1 DEF FriendsTypeOK
  <2>3. AgreedListed' /\ ApplicationKept'
    BY <2>1 DEF FriendsInv, AgreedListed, ApplicationKept, FriendList, ApplyList
  <2> QED BY <2>2, <2>3 DEF FriendsInv
<1> QED BY <1>2, <1>3

\* The second statement of agreeFriend makes the row of the one who is agreed to.
LEMMA AgreeOtherKeeps ==
    ASSUME FriendsInv, NEW t \in halfway, NEW ok \in BOOLEAN, AgreeOther(t, ok)
    PROVE  FriendsInv'
<1>0. FriendsTypeOK /\ t.user \in User /\ t.friend \in User
  BY DEF FriendsInv, FriendsTypeOK, Task
<1>1. faults' \in 0 .. MaxFaults
  BY <1>0, StatementBound DEF AgreeOther
<1>2. CASE ok
  <2>1. Set(t.friend, t.user, "friends") /\ agreed' = agreed \cup {<<t.user, t.friend>>}
        /\ UNCHANGED <<tasks, refused, client, requests, applied>> /\ halfway' \subseteq halfway
    BY <1>2 DEF AgreeOther, Other
  <2>2. /\ friend' \in [User -> [User -> {"none", "applied", "friends"}]]
        /\ friend'[t.friend][t.user] = "friends"
        /\ \A v, g \in User : <<v, g>> # <<t.friend, t.user>> => friend'[v][g] = friend[v][g]
    BY <1>0, <2>1, SetRow
  <2>3. FriendsTypeOK'
    BY <1>0, <1>1, <2>1, <2>2 DEF FriendsTypeOK
  <2>4. AgreedListed'
    <3> SUFFICES ASSUME NEW p \in agreed' PROVE friend'[p[2]][p[1]] = "friends" /\ p[1] \in User
      BY DEF AgreedListed, FriendList
    <3>1. CASE p = <<t.user, t.friend>>
      BY <3>1, <2>2, <1>0
    <3>2. CASE p \in agreed
      <4>1. p[1] \in User /\ p[2] \in User /\ friend[p[2]][p[1]] = "friends"
        BY <1>0, <3>2 DEF FriendsInv, FriendsTypeOK, AgreedListed, FriendList
      <4> QED BY <4>1, <2>2
    <3> QED BY <3>1, <3>2, <2>1
  <2>5. ApplicationKept'
    <3> SUFFICES ASSUME NEW p \in applied
                 PROVE  p[1] \in User /\ p[2] \in User /\ friend'[p[1]][p[2]] \in {"applied", "friends"}
      BY <2>1 DEF ApplicationKept, FriendList, ApplyList
    <3>1. p[1] \in User /\ p[2] \in User /\ friend[p[1]][p[2]] \in {"applied", "friends"}
      BY <1>0 DEF FriendsInv, FriendsTypeOK, ApplicationKept, FriendList, ApplyList
    <3> QED BY <3>1, <2>2
  <2> QED BY <2>3, <2>4, <2>5 DEF FriendsInv
<1>3. CASE ~ok
  <2>1. /\ halfway' \subseteq halfway
        /\ UNCHANGED <<friend, tasks, refused, client, requests, agreed, applied>>
    BY <1>3 DEF AgreeOther
  <2>2. FriendsTypeOK'
    BY <1>0, <1>1, <2>1 DEF FriendsTypeOK
  <2>3. AgreedListed' /\ ApplicationKept'
    BY <2>1 DEF FriendsInv, AgreedListed, ApplicationKept, FriendList, ApplyList
  <2> QED BY <2>2, <2>3 DEF FriendsInv
<1> QED BY <1>2, <1>3

\* The DELETE of refuseFriend takes one row, and only of a pair that has refused.
LEMMA RefuseKeeps ==
    ASSUME FriendsInv, NEW t \in tasks, NEW ok \in BOOLEAN, Refuse(t, ok)
    PROVE  FriendsInv'
<1> DEFINE pairs == {<<t.user, t.friend>>, <<t.friend, t.user>>}
<1>0. FriendsTypeOK /\ t.user \in User /\ t.friend \in User
  BY DEF FriendsInv, FriendsTypeOK, Task
<1>1. faults' \in 0 .. MaxFaults
  BY <1>0, StatementBound DEF Refuse
<1>2. /\ agreed' = agreed \ pairs /\ applied' = applied \ pairs /\ tasks' \subseteq tasks
      /\ UNCHANGED <<halfway, refused, client, requests>>
  BY DEF Refuse
<1>3. /\ friend' \in [User -> [User -> {"none", "applied", "friends"}]]
      /\ \A v, g \in User : <<v, g>> # <<t.user, t.friend>> => friend'[v][g] = friend[v][g]
  <2>1. CASE ok
    <3>1. Set(t.user, t.friend, "none")
      BY <2>1 DEF Refuse
    <3> QED BY <1>0, <3>1, SetRow
  <2>2. CASE ~ok
    BY <1>0, <2>2 DEF Refuse, FriendsTypeOK
  <2> QED BY <2>1, <2>2
<1>4. FriendsTypeOK'
  BY <1>0, <1>1, <1>2, <1>3 DEF FriendsTypeOK
<1>5. AgreedListed'
  <2> SUFFICES ASSUME NEW p \in agreed, p \notin pairs
               PROVE  friend'[p[2]][p[1]] = "friends" /\ p[1] \in User
    BY <1>2 DEF AgreedListed, FriendList
  <2>1. p[1] \in User /\ p[2] \in User /\ p = <<p[1], p[2]>> /\ friend[p[2]][p[1]] = "friends"
    BY <1>0 DEF FriendsInv, FriendsTypeOK, AgreedListed, FriendList
  <2> QED BY <2>1, <1>3
<1>6. ApplicationKept'
  <2> SUFFICES ASSUME NEW p \in applied, p \notin pairs
               PROVE  p[1] \in User /\ p[2] \in User /\ friend'[p[1]][p[2]] \in {"applied", "friends"}
    BY <1>2 DEF ApplicationKept, FriendList, ApplyList
  <2>1. p[1] \in User /\ p[2] \in User /\ p = <<p[1], p[2]>> /\ friend[p[1]][p[2]] \in {"applied", "friends"}
    BY <1>0 DEF FriendsInv, FriendsTypeOK, ApplicationKept, FriendList, ApplyList
  <2> QED BY <2>1, <1>3
<1> QED BY <1>4, <1>5, <1>6 DEF FriendsInv

\* A client that ends, or is started again, changes no row.
LEMMA ClientKeeps ==
    ASSUME FriendsInv, NEW u \in User, ReceiveError(u) \/ Restart(u)
    PROVE  FriendsInv'
<1>1. FriendsTypeOK'
  BY DEF FriendsInv, FriendsTypeOK, ReceiveError, Restart
<1>2. AgreedListed' /\ ApplicationKept'
  BY DEF FriendsInv, AgreedListed, ApplicationKept, FriendList, ApplyList, ReceiveError, Restart
<1> QED BY <1>1, <1>2 DEF FriendsInv

\* The invariant holds in every reachable state, for any users, any number of requests in
\* any order and any number of statements that fail.
THEOREM FriendsInvariance == Spec => []FriendsInv
<1>1. FriendsInv /\ [Next]_vars => FriendsInv'
  <2> SUFFICES ASSUME FriendsInv, [Next]_vars PROVE FriendsInv'
    OBVIOUS
  <2>1. CASE \E u, f \in User, op \in Op : Request(u, op, f)
    BY <2>1, RequestKeeps
  <2>2. CASE \E t \in tasks : Run(t)
    <3>1. PICK t \in tasks, ok \in BOOLEAN : AddFriend(t, ok) \/ Agree(t, ok) \/ Refuse(t, ok)
      BY <2>2 DEF Run
    <3> QED BY <3>1, AddFriendKeeps, AgreeKeeps, RefuseKeeps
  <2>3. CASE \E t \in halfway, ok \in BOOLEAN : AgreeOther(t, ok)
    BY <2>3, AgreeOtherKeeps
  <2>4. CASE \E u \in User : ReceiveError(u) \/ Restart(u)
    BY <2>4, ClientKeeps
  <2>5. CASE UNCHANGED vars
    BY <2>5 DEF vars, FriendsInv, FriendsTypeOK, AgreedListed, ApplicationKept, FriendList, ApplyList
  <2> QED BY <2>1, <2>2, <2>3, <2>4, <2>5 DEF Next
<1> QED BY <1>1, FriendsInitial, PTL DEF Spec

\* Whoever has been agreed to has the other in their list until one of the two refuses.
THEOREM AgreedStayListed == Spec => []AgreedListed
BY FriendsInvariance, PTL DEF FriendsInv

\* An application stays in the list, or becomes a friendship, until one of the two refuses.
THEOREM ApplicationsKept == Spec => []ApplicationKept
BY FriendsInvariance, PTL DEF FriendsInv

=============================================================================
