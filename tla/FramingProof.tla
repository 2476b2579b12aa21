---------------------------- MODULE FramingProof -----------------------------
(***************************************************************************)
(* Messages on a TCP stream, of any number and cut into reads in any way:  *)
(* the length-prefixed frames of the store, with any data whose length the *)
(* prefix can hold, and the JSON objects of the chat, of any length,       *)
(* arrive as they were written.                                            *)
(*                                                                         *)
(* Streams, the scanner and the loop of onMessage are recursive functions. *)
(* That they have values, and which, is shown by induction on sets of      *)
(* turns: the first turn that would not be in such a set is led to a       *)
(* contradiction (WFMin).                                                  *)
(***************************************************************************)
EXTENDS Framing, SequenceTheorems, WellFoundedInduction, TLAPS

-----------------------------------------------------------------------------
(* Loops *)

\* Every non-empty set of numbers has a least one.
LEMMA LeastExists ==
    ASSUME NEW X \in SUBSET Nat, X # {}
    PROVE  \E x \in X : \A y \in X : x <= y
<1> DEFINE R == {p \in Nat \X Nat : p[1] < p[2]}
<1>1. IsWellFoundedOn(R, Nat)
  BY NatLessThanWellFounded DEF OpToRel
<1>2. PICK x \in X : \A y \in X : ~(<<y, x>> \in R)
  BY <1>1, WFMin
<1>3. ASSUME NEW y \in X PROVE x <= y
  <2>1. <<y, x>> \in Nat \X Nat /\ <<y, x>>[1] = y /\ <<y, x>>[2] = x
    OBVIOUS
  <2> QED
    BY <1>2, <2>1
<1> QED
  BY <1>3

\* A set of turns that has a turn whenever it has all turns before it has all of them.
LEMMA TurnsFollow ==
    ASSUME NEW n \in Nat, NEW K,
           \A k \in 0 .. n : (\A j \in 0 .. (k - 1) : j \in K) => k \in K
    PROVE  \A k \in 0 .. n : k \in K
<1> SUFFICES ASSUME NEW m \in 0 .. n, m \notin K PROVE FALSE
  OBVIOUS
<1> DEFINE X == {k \in 0 .. n : k \notin K}
<1>1. X \in SUBSET Nat /\ X # {}
  OBVIOUS
<1>2. PICK x \in X : \A y \in X : x <= y
  BY <1>1, LeastExists
<1>3. ASSUME NEW j \in 0 .. (x - 1) PROVE j \in K
  <2>1. j \in 0 .. n /\ ~(x <= j)
    OBVIOUS
  <2> QED
    BY <1>2, <2>1
<1> QED
  BY <1>2, <1>3

\* The same where a turn only looks at the one before it.
LEMMA LoopKeeps ==
    ASSUME NEW n \in Nat, NEW K, 0 \in K, \A k \in 1 .. n : k - 1 \in K => k \in K
    PROVE  \A k \in 0 .. n : k \in K
<1>1. ASSUME NEW k \in 0 .. n, \A j \in 0 .. (k - 1) : j \in K PROVE k \in K
  <2>1. CASE k = 0
    BY <2>1
  <2>2. CASE k # 0
    <3>1. k \in 1 .. n /\ k - 1 \in 0 .. (k - 1)
      BY <2>2
    <3> QED
      BY <1>1, <3>1
  <2> QED
    BY <2>1, <2>2
<1> QED
  BY <1>1, TurnsFollow

\* What n turns do to values of P
Turns(n, P) == [1 .. n -> [P -> P]]

\* g goes from base through n turns
Passes(g, base, turn, n) == g[0] = base /\ \A i \in 1 .. n : g[i] = turn[i][g[i - 1]]

\* A loop of n turns over values of P passes through n + 1 of them.
LEMMA LoopRuns ==
    ASSUME NEW n \in Nat, NEW P, NEW base \in P, NEW turn \in Turns(n, P)
    PROVE  \E g \in [0 .. n -> P] : Passes(g, base, turn, n)
<1>0. turn \in [1 .. n -> [P -> P]]
  BY DEF Turns
<1> DEFINE Loop(g, k) == g[0] = base /\ \A i \in 1 .. k : g[i] = turn[i][g[i - 1]]
           K == {k \in 0 .. n : \E g \in [0 .. k -> P] : Loop(g, k)}
<1>1. 0 \in K
  <2>1. [i \in 0 .. 0 |-> base] \in [0 .. 0 -> P] /\ Loop([i \in 0 .. 0 |-> base], 0)
    OBVIOUS
  <2>2. \E g \in [0 .. 0 -> P] : Loop(g, 0)
    BY <2>1
  <2> QED
    BY <2>2
<1>2. ASSUME NEW k \in 1 .. n, k - 1 \in K PROVE k \in K
  <2>1. PICK g \in [0 .. (k - 1) -> P] : Loop(g, k - 1)
    BY <1>2
  <2> DEFINE next == turn[k][g[k - 1]]
             h == [i \in 0 .. k |-> IF i = k THEN next ELSE g[i]]
  <2>2. next \in P
    <3>1. k \in 1 .. n /\ g[k - 1] \in P
      BY <2>1
    <3> QED
      BY <1>0, <3>1
  <2> HIDE DEF next
  <2>3. h \in [0 .. k -> P]
    BY <2>2
  <2>4. h[0] = base
    BY <2>1
  <2>5. ASSUME NEW i \in 1 .. k PROVE h[i] = turn[i][h[i - 1]]
    <3>1. h[i - 1] = g[i - 1]
      OBVIOUS
    <3>2. CASE i = k
      BY <3>1, <3>2 DEF next
    <3>3. CASE i # k
      BY <2>1, <3>1, <3>3
    <3> QED
      BY <3>2, <3>3
  <2>6. Loop(h, k)
    BY <2>4, <2>5
  <2>7. \E f \in [0 .. k -> P] : Loop(f, k)
    BY <2>3, <2>6
  <2>8. k \in 0 .. n
    OBVIOUS
  <2> HIDE DEF Loop
  <2> QED
    BY <2>7, <2>8
<1> HIDE DEF K
<1>3. \A k \in 0 .. n : k \in K
  BY <1>1, <1>2, LoopKeeps
<1>4. n \in K
  BY <1>3
<1> QED
  BY <1>4 DEF K, Passes

-----------------------------------------------------------------------------
(* Streams *)

\* Concatenation, as a name the provers need not look into
Then(x, y) == x \o y

\* How long a concatenation is.
LEMMA ThenIs ==
    ASSUME NEW A, NEW x \in Seq(A), NEW y \in Seq(A)
    PROVE  Then(x, y) \in Seq(A) /\ Len(Then(x, y)) = Len(x) + Len(y)
  BY DEF Then

\* Its first bytes.
LEMMA ThenFront ==
    ASSUME NEW A, NEW x \in Seq(A), NEW y \in Seq(A), NEW i \in 1 .. Len(x)
    PROVE  Then(x, y)[i] = x[i]
  BY DEF Then

\* Its last bytes.
LEMMA ThenBack ==
    ASSUME NEW A, NEW x \in Seq(A), NEW y \in Seq(A), NEW i \in 1 .. Len(y)
    PROVE  Then(x, y)[Len(x) + i] = y[i]
  BY DEF Then

\* It does not matter what is put together first.
LEMMA ThenThen ==
    ASSUME NEW A, NEW x \in Seq(A), NEW y \in Seq(A), NEW z \in Seq(A)
    PROVE  Then(Then(x, y), z) = Then(x, Then(y, z))
  BY ConcatAssociative DEF Then

\* FlattenSeq runs through its sequences, one after the other.
LEMMA FlattenRuns ==
    ASSUME NEW A, NEW n \in Nat, NEW s \in [1 .. n -> Seq(A)]
    PROVE  \E g \in [0 .. n -> Seq(A)] : /\ g[0] = <<>>
                                         /\ \A i \in 1 .. n : g[i] = Then(g[i - 1], s[i])
                                         /\ FlattenSeq(s) = g[n]
<1> DEFINE turn == [i \in 1 .. n |-> [x \in Seq(A) |-> Then(x, s[i])]]
           P == Seq(A)
<1>1. Len(s) = n /\ s \in Seq(Seq(A)) /\ <<>> \in P
  OBVIOUS
<1>2. \A i \in 1 .. n, x \in P : Then(x, s[i]) \in P
  BY ThenIs
<1>3. turn \in Turns(n, P)
  BY <1>2 DEF Turns
<1>4. \A i \in 1 .. n, x \in P : turn[i][x] = Then(x, s[i])
  OBVIOUS
<1>5. \A x \in P : Then(<<>>, x) = x
  BY DEF Then
<1>6. n = 0 => s = <<>>
  BY <1>1
<1>7. s \in [1 .. n -> P]
  OBVIOUS
<1> DEFINE flatten[i \in 1 .. n] == IF i = 1 THEN s[i] ELSE Then(flatten[i - 1], s[i])
<1>8. n # 0 => FlattenSeq(s) = flatten[n]
  BY <1>1 DEF FlattenSeq, Then
<1>9. n = 0 => FlattenSeq(s) = <<>>
  BY <1>1, <1>6 DEF FlattenSeq
<1> HIDE DEF turn, P
<1>10. PICK g \in [0 .. n -> P] : Passes(g, <<>>, turn, n)
  BY <1>1, <1>3, LoopRuns
<1>11. ASSUME NEW i \in 1 .. n PROVE g[i - 1] \in P /\ g[i] = Then(g[i - 1], s[i])
  <2>1. g[i - 1] \in P
    BY <1>10
  <2> QED
    BY <1>4, <1>10, <2>1 DEF Passes
<1>12. g[0] = <<>> /\ (n # 0 => g[1] = s[1])
  <2>1. n # 0 => 1 \in 1 .. n /\ 1 - 1 = 0
    OBVIOUS
  <2> QED
    BY <1>5, <1>7, <1>10, <1>11, <2>1 DEF Passes
<1> DEFINE f == [i \in 1 .. n |-> g[i]]
<1>13. f = [i \in 1 .. n |-> IF i = 1 THEN s[i] ELSE Then(f[i - 1], s[i])]
  <2>1. ASSUME NEW i \in 1 .. n PROVE g[i] = IF i = 1 THEN s[i] ELSE Then(f[i - 1], s[i])
    <3>1. i # 1 => f[i - 1] = g[i - 1]
      OBVIOUS
    <3> QED
      BY <1>11, <1>12, <3>1
  <2> QED
    BY <2>1
<1>14. \E h : h = [i \in 1 .. n |-> IF i = 1 THEN s[i] ELSE Then(h[i - 1], s[i])]
  BY <1>13
<1>15. flatten = [i \in 1 .. n |-> IF i = 1 THEN s[i] ELSE Then(flatten[i - 1], s[i])]
  BY <1>14 DEF flatten
<1> HIDE DEF flatten, f
<1>16. \A k \in 1 .. n : flatten[k] = g[k]
  <2> DEFINE K == {k \in 0 .. n : k = 0 \/ flatten[k] = g[k]}
  <2>1. 0 \in K
    OBVIOUS
  <2>2. ASSUME NEW k \in 1 .. n, k - 1 \in K PROVE k \in K
    <3>1. flatten[k] = IF k = 1 THEN s[k] ELSE Then(flatten[k - 1], s[k])
      BY <1>15
    <3>2. k # 1 => flatten[k - 1] = g[k - 1]
      BY <2>2
    <3>3. flatten[k] = g[k]
      BY <1>11, <1>12, <3>1, <3>2
    <3> QED
      BY <3>3
  <2> HIDE DEF K
  <2>3. \A k \in 0 .. n : k \in K
    BY <2>1, <2>2, LoopKeeps
  <2> QED
    BY <2>3 DEF K
<1>17. FlattenSeq(s) = g[n]
  <2>1. CASE n = 0
    BY <1>9, <1>12, <2>1
  <2>2. CASE n # 0
    BY <1>8, <1>16, <2>2
  <2> QED
    BY <2>1, <2>2
<1>18. g \in [0 .. n -> Seq(A)]
  BY DEF P
<1> QED
  BY <1>11, <1>12, <1>17, <1>18

\* A stream is a sequence of the same bytes.
LEMMA FlattenIsSeq ==
    ASSUME NEW A, NEW n \in Nat, NEW s \in [1 .. n -> Seq(A)]
    PROVE  FlattenSeq(s) \in Seq(A)
<1>1. PICK g \in [0 .. n -> Seq(A)] : /\ g[0] = <<>>
                                      /\ \A i \in 1 .. n : g[i] = Then(g[i - 1], s[i])
                                      /\ FlattenSeq(s) = g[n]
  BY FlattenRuns, ZenonT(30)
<1>2. n \in 0 .. n
  OBVIOUS
<1> QED
  BY <1>1, <1>2

\* One more sequence comes to the end.
LEMMA FlattenStep ==
    ASSUME NEW A, NEW n \in Nat, NEW s \in [1 .. (n + 1) -> Seq(A)]
    PROVE  FlattenSeq(s) = Then(FlattenSeq([i \in 1 .. n |-> s[i]]), s[n + 1])
<1> DEFINE t == [i \in 1 .. n |-> s[i]]
<1>1. n + 1 \in Nat
  OBVIOUS
<1>2. t \in [1 .. n -> Seq(A)]
  OBVIOUS
<1>3. PICK g \in [0 .. (n + 1) -> Seq(A)] : /\ g[0] = <<>>
                                            /\ \A i \in 1 .. (n + 1) : g[i] = Then(g[i - 1], s[i])
                                            /\ FlattenSeq(s) = g[n + 1]
  BY <1>1, FlattenRuns, ZenonT(30)
<1>4. PICK h \in [0 .. n -> Seq(A)] : /\ h[0] = <<>>
                                      /\ \A i \in 1 .. n : h[i] = Then(h[i - 1], t[i])
                                      /\ FlattenSeq(t) = h[n]
  BY <1>2, FlattenRuns, ZenonT(30)
<1> DEFINE K == {k \in 0 .. n : g[k] = h[k]}
<1>5. 0 \in K
  BY <1>3, <1>4
<1>6. ASSUME NEW k \in 1 .. n, k - 1 \in K PROVE k \in K
  <2>1. g[k - 1] = h[k - 1] /\ t[k] = s[k] /\ k \in 1 .. (n + 1)
    BY <1>6
  <2>2. g[k] = h[k]
    BY <1>3, <1>4, <2>1
  <2> QED
    BY <2>2
<1> HIDE DEF K
<1>7. \A k \in 0 .. n : k \in K
  BY <1>5, <1>6, LoopKeeps
<1>8. g[n] = h[n]
  BY <1>7 DEF K
<1>9. g[n + 1] = Then(g[n], s[n + 1])
  <2>1. n + 1 \in 1 .. (n + 1) /\ (n + 1) - 1 = n
    OBVIOUS
  <2> QED
    BY <1>3, <2>1
<1> QED
  BY <1>3, <1>4, <1>8, <1>9

\* The first k sequences of s, one after the other
Cut(s, k) == FlattenSeq([i \in 1 .. k |-> s[i]])

\* A stream up to each of its sequences, and as a whole.
LEMMA CutSteps ==
    ASSUME NEW A, NEW n \in Nat, NEW s \in [1 .. n -> Seq(A)]
    PROVE  /\ \A k \in 0 .. n : Cut(s, k) \in Seq(A)
           /\ Cut(s, 0) = <<>>
           /\ \A k \in 1 .. n : Cut(s, k) = Then(Cut(s, k - 1), s[k])
           /\ Cut(s, n) = FlattenSeq(s)
<1>1. ASSUME NEW k \in 0 .. n PROVE Cut(s, k) \in Seq(A)
  <2>1. k \in Nat /\ [i \in 1 .. k |-> s[i]] \in [1 .. k -> Seq(A)]
    OBVIOUS
  <2> QED
    BY <2>1, FlattenIsSeq DEF Cut
<1>2. Cut(s, 0) = <<>>
  <2>1. [i \in 1 .. 0 |-> s[i]] = <<>>
    OBVIOUS
  <2> QED
    BY <2>1 DEF Cut, FlattenSeq
<1>3. ASSUME NEW k \in 1 .. n PROVE Cut(s, k) = Then(Cut(s, k - 1), s[k])
  <2> DEFINE u == [i \in 1 .. k |-> s[i]]
  <2>1. k - 1 \in Nat /\ (k - 1) + 1 = k /\ u \in [1 .. k -> Seq(A)]
    OBVIOUS
  <2>2. [i \in 1 .. (k - 1) |-> u[i]] = [i \in 1 .. (k - 1) |-> s[i]] /\ u[k] = s[k]
    OBVIOUS
  <2> HIDE DEF u
  <2>3. FlattenSeq(u) = Then(FlattenSeq([i \in 1 .. (k - 1) |-> u[i]]), u[k])
    <3>1. ASSUME NEW m \in Nat, m = k - 1
          PROVE  FlattenSeq(u) = Then(FlattenSeq([i \in 1 .. m |-> u[i]]), u[m + 1])
      <4>1. u \in [1 .. (m + 1) -> Seq(A)]
        BY <2>1, <3>1
      <4> QED
        BY <4>1, FlattenStep
    <3> QED
      BY <2>1, <3>1
  <2> QED
    BY <2>2, <2>3 DEF Cut, u
<1>4. Cut(s, n) = FlattenSeq(s)
  <2>1. [i \in 1 .. n |-> s[i]] = s
    OBVIOUS
  <2> QED
    BY <2>1 DEF Cut
<1> QED
  BY <1>1, <1>2, <1>3, <1>4

Pieces(A, n) == [1 .. n -> Seq(A)]

\* What comes later is added at the end.
LEMMA CutMore ==
    ASSUME NEW A, NEW n \in Nat, NEW s \in Pieces(A, n), NEW k \in 0 .. n
    PROVE  \E r \in Seq(A) : Cut(s, n) = Then(Cut(s, k), r)
<1> USE DEF Pieces
<1> DEFINE c(i) == Cut(s, i)
           K == {i \in 0 .. n : i < k \/ \E r \in Seq(A) : c(i) = Then(c(k), r)}
<1>1. /\ \A i \in 0 .. n : c(i) \in Seq(A)
      /\ \A i \in 1 .. n : c(i) = Then(c(i - 1), s[i])
  BY CutSteps
<1> HIDE DEF c
<1>2. ASSUME NEW i \in 0 .. n, i = k PROVE \E r \in Seq(A) : c(i) = Then(c(k), r)
  <2>1. <<>> \in Seq(A) /\ c(k) = Then(c(k), <<>>)
    BY <1>1 DEF Then
  <2> QED
    BY <1>2, <2>1
<1>3. 0 \in K
  BY <1>2
<1>4. ASSUME NEW i \in 1 .. n, i - 1 \in K PROVE i \in K
  <2>1. CASE i < k
    BY <2>1
  <2>2. CASE i = k
    BY <1>2, <2>2
  <2>3. CASE i > k
    <3>1. PICK r \in Seq(A) : c(i - 1) = Then(c(k), r)
      BY <1>4, <2>3
    <3>2. c(k) \in Seq(A) /\ s[i] \in Seq(A)
      BY <1>1
    <3>3. Then(r, s[i]) \in Seq(A) /\ Then(Then(c(k), r), s[i]) = Then(c(k), Then(r, s[i]))
      BY <3>2, ThenIs, ThenThen
    <3>4. c(i) = Then(c(k), Then(r, s[i]))
      BY <1>1, <3>1, <3>3
    <3>5. \E q \in Seq(A) : c(i) = Then(c(k), q)
      BY <3>3, <3>4
    <3> QED
      BY <3>5
  <2> QED
    BY <2>1, <2>2, <2>3
<1> HIDE DEF K
<1>5. \A i \in 0 .. n : i \in K
  BY <1>3, <1>4, LoopKeeps
<1>6. n \in 0 .. n /\ ~(n < k)
  OBVIOUS
<1> QED
  BY <1>5, <1>6 DEF K, c

-----------------------------------------------------------------------------
(* The scanner of extractJsonObjects *)

\* What the scanner knows after some bytes
Scan == [inString : BOOLEAN, depth : Int, previous : Char, at : Nat, closed : BOOLEAN]

Start == [inString |-> FALSE, depth |-> 0, previous |-> "open", at |-> 0, closed |-> FALSE]

\* g goes over the bytes b
Scans(g, b) == g[0] = Start /\ \A i \in 1 .. Len(b) : g[i] = Match(g[i - 1], b[i])

\* The scanner counts bytes until it closes and stands still from then on.
LEMMA MatchSteps ==
    ASSUME NEW scan \in Scan, NEW c \in Char
    PROVE  /\ Match(scan, c) \in Scan
           /\ scan.closed => Match(scan, c) = scan
           /\ ~scan.closed => Match(scan, c).at = scan.at + 1 /\ Match(scan, c).previous = c
<1>1. InString(c, scan.previous, scan.inString) \in BOOLEAN
  BY DEF InString, Scan
<1>2. Brace(c) \in Int
  <2>1. CASE c = "open"
    BY <2>1 DEF Brace
  <2>2. CASE c = "close"
    BY <2>2 DEF Brace
  <2>3. CASE c # "open" /\ c # "close"
    BY <2>3 DEF Brace
  <2> QED
    BY <2>1, <2>2, <2>3
<1>3. Match(scan, c) \in Scan
  BY <1>1, <1>2 DEF Match, Scan
<1> QED
  BY <1>3 DEF Match

\* The greatest of a set of numbers up to m that has m.
LEMMA GreatestIs ==
    ASSUME NEW m \in Nat, NEW S \in SUBSET (1 .. m), m \in S
    PROVE  Max(S) = m
<1>1. \A y \in S : m >= y
  OBVIOUS
<1>2. \A x \in S : (\A y \in S : x >= y) => x = m
  OBVIOUS
<1> QED
  BY <1>1, <1>2 DEF Max

\* The fold over the bytes goes over them from the first to the last.
LEMMA FoldScans ==
    ASSUME NEW b \in Seq(Char)
    PROVE  \E g \in [0 .. Len(b) -> Scan] : Scans(g, b) /\ FoldLeft(Match, Start, b) = g[Len(b)]
<1> DEFINE n == Len(b)
           P(m) == SUBSET (1 .. m)
           step(f, S) == IF S = {} THEN Start ELSE Match(f[S \ {Max(S)}], b[Max(S)])
           Fold(f, m) == \A S \in P(m) : f[S] = step(f, S)
           iter[S \in P(n)] == step(iter, S)
           K == {m \in 0 .. n : \E f \in [P(m) -> Scan] : Fold(f, m)}
<1>1. n \in Nat /\ DOMAIN b = 1 .. n /\ \A i \in 1 .. n : b[i] \in Char
  OBVIOUS
<1>2. FoldLeft(Match, Start, b) = iter[1 .. n]
  BY <1>1 DEF FoldLeft, MapThenFoldSet
<1>3. Start \in Scan
  BY DEF Start, Scan, Char
<1>4. \A scan \in Scan, i \in 1 .. n : Match(scan, b[i]) \in Scan
  BY <1>1, MatchSteps
<1> HIDE DEF n
<1>5. 0 \in K
  <2> DEFINE f == [S \in P(0) |-> Start]
  <2>1. \A S \in P(0) : S = {}
    OBVIOUS
  <2>2. f \in [P(0) -> Scan] /\ Fold(f, 0)
    BY <1>3, <2>1
  <2>3. \E h \in [P(0) -> Scan] : Fold(h, 0)
    BY <2>2
  <2>4. 0 \in 0 .. n
    BY <1>1
  <2> HIDE DEF P, Fold
  <2> QED
    BY <2>3, <2>4
<1>6. ASSUME NEW m \in 1 .. n, m - 1 \in K PROVE m \in K
  <2>1. PICK f \in [P(m - 1) -> Scan] : Fold(f, m - 1)
    BY <1>6
  <2> DEFINE h == [S \in P(m) |-> IF m \in S THEN Match(f[S \ {m}], b[m]) ELSE f[S]]
  <2>2. ASSUME NEW S \in P(m)
        PROVE  /\ S \ {m} \in P(m - 1) /\ S \ {m} \in P(m) /\ m \notin S \ {m}
               /\ m \notin S => S \in P(m - 1)
    <3>1. \A i \in 1 .. m : i # m => i \in 1 .. (m - 1)
      BY <1>1
    <3> QED
      BY <3>1
  <2>3. h \in [P(m) -> Scan]
    <3>1. ASSUME NEW S \in P(m)
          PROVE  (IF m \in S THEN Match(f[S \ {m}], b[m]) ELSE f[S]) \in Scan
      <4>1. CASE m \in S
        BY <1>4, <2>1, <2>2, <4>1
      <4>2. CASE m \notin S
        BY <2>1, <2>2, <4>2
      <4> QED
        BY <4>1, <4>2
    <3> QED
      BY <3>1
  <2>4. \A S \in P(m - 1) : S \in P(m) /\ m \notin S
    BY <1>1
  <2>5. ASSUME NEW S \in P(m) PROVE h[S] = step(h, S)
    <3>1. CASE m \in S
      <4>1. Max(S) = m
        BY <1>1, <3>1, GreatestIs
      <4>2. h[S \ {m}] = f[S \ {m}]
        BY <2>2
      <4> QED
        BY <3>1, <4>1, <4>2
    <3>2. CASE m \notin S
      <4>1. S \in P(m - 1) /\ h[S] = f[S] /\ f[S] = step(f, S)
        BY <2>1, <2>2, <3>2
      <4>2. S \ {Max(S)} \in P(m - 1)
        BY <4>1
      <4>3. h[S \ {Max(S)}] = f[S \ {Max(S)}]
        BY <2>4, <4>2
      <4> QED
        BY <4>1, <4>3
    <3> QED
      BY <3>1, <3>2
  <2>6. Fold(h, m)
    BY <2>5
  <2>7. \E e \in [P(m) -> Scan] : Fold(e, m)
    BY <2>3, <2>6
  <2>8. m \in 0 .. n
    BY <1>1
  <2> HIDE DEF P, Fold
  <2> QED
    BY <2>7, <2>8
<1> HIDE DEF K
<1>7. \A m \in 0 .. n : m \in K
  BY <1>1, <1>5, <1>6, LoopKeeps
<1>8. n \in K
  BY <1>1, <1>7
<1>9. PICK f \in [P(n) -> Scan] : Fold(f, n)
  BY <1>8 DEF K
<1>10. f = [S \in P(n) |-> step(f, S)]
  BY <1>9
<1>11. iter = [S \in P(n) |-> step(iter, S)]
  <2>1. \E h : h = [S \in P(n) |-> step(h, S)]
    BY <1>10
  <2> QED
    BY <2>1 DEF iter
<1> HIDE DEF iter
<1> DEFINE g == [i \in 0 .. n |-> iter[1 .. i]]
<1>12. g[0] = Start
  <2>1. 1 .. 0 = {} /\ {} \in P(n) /\ 0 \in 0 .. n
    BY <1>1
  <2>2. iter[{}] = Start
    BY <1>11, <2>1
  <2> QED
    BY <2>1, <2>2
<1>13. ASSUME NEW i \in 1 .. n PROVE g[i] = Match(g[i - 1], b[i])
  <2>1. 1 .. i \in P(n) /\ 1 .. i # {} /\ i \in 0 .. n /\ i - 1 \in 0 .. n
    BY <1>1
  <2>2. Max(1 .. i) = i
    BY <1>1, GreatestIs
  <2>3. (1 .. i) \ {i} = 1 .. (i - 1)
    BY <1>1
  <2>4. iter[1 .. i] = Match(iter[(1 .. i) \ {i}], b[i])
    BY <1>11, <2>1, <2>2
  <2> QED
    BY <2>1, <2>3, <2>4
<1>14. \A i \in 0 .. n : g[i] \in Scan
  <2> DEFINE L == {i \in 0 .. n : g[i] \in Scan}
  <2> HIDE DEF g
  <2>1. 0 \in L
    BY <1>1, <1>3, <1>12
  <2>2. ASSUME NEW i \in 1 .. n, i - 1 \in L PROVE i \in L
    BY <1>4, <1>13, <2>2
  <2> HIDE DEF L
  <2>3. \A i \in 0 .. n : i \in L
    BY <1>1, <2>1, <2>2, LoopKeeps
  <2> QED
    BY <2>3 DEF L
<1>15. g \in [0 .. n -> Scan] /\ g[n] = iter[1 .. n]
  BY <1>1, <1>14
<1> HIDE DEF g
<1>16. Scans(g, b)
  BY <1>12, <1>13 DEF Scans, n
<1> QED
  BY <1>2, <1>15, <1>16 DEF n

-----------------------------------------------------------------------------
(* Objects as dump writes them *)

Coded(t) == [k \in 1 .. Len(t) |-> Escape(t[k])]

\* Bytes of the first k characters of a string
Upto(t, k) == Len(Cut(Coded(t), k))

\* The bytes dump writes for the k-th character of a string
Shape(t, k) ==
    /\ Upto(t, k - 1) \in Nat /\ Upto(t, k) \in Nat /\ Upto(t, k) <= Upto(t, Len(t))
    /\ t[k] \in {"quote", Backslash} => /\ Upto(t, k) = Upto(t, k - 1) + 2
                                        /\ Dump(t)[Upto(t, k - 1) + 3] = Backslash
                                        /\ Dump(t)[Upto(t, k - 1) + 4] = t[k]
    /\ t[k] \notin {"quote", Backslash} => /\ Upto(t, k) = Upto(t, k - 1) + 1
                                           /\ Dump(t)[Upto(t, k - 1) + 3] = t[k]

\* An object is a brace, a quote, the characters one by one, a quote and a brace.
LEMMA DumpShape ==
    ASSUME NEW t \in Seq(Char)
    PROVE  /\ Dump(t) \in Seq(Char) /\ Upto(t, Len(t)) \in Nat /\ Upto(t, 0) = 0
           /\ Len(Dump(t)) = Upto(t, Len(t)) + 4
           /\ Dump(t)[1] = "open" /\ Dump(t)[2] = "quote"
           /\ Dump(t)[Upto(t, Len(t)) + 3] = "quote" /\ Dump(t)[Upto(t, Len(t)) + 4] = "close"
           /\ \A k \in 1 .. Len(t) : Shape(t, k)
<1> DEFINE n == Len(t)
           s == Coded(t)
           c(k) == Cut(s, k)
           e == c(n)
<1>1. n \in Nat /\ DOMAIN t = 1 .. n /\ \A k \in 1 .. n : t[k] \in Char
  OBVIOUS
<1>2. ASSUME NEW k \in 1 .. n PROVE Escape(t[k]) \in Seq(Char)
  <2>1. t[k] \in Char /\ Backslash \in Char
    BY <1>1 DEF Char
  <2>2. <<t[k]>> \in Seq(Char) /\ <<Backslash, t[k]>> \in Seq(Char)
    BY <2>1
  <2> QED
    BY <2>2 DEF Escape
<1>3. s \in [1 .. n -> Seq(Char)] /\ \A k \in 1 .. n : s[k] = Escape(t[k])
  BY <1>2 DEF Coded
<1>4. Dump(t) = <<"open", "quote">> \o e \o <<"quote", "close">>
  <2>1. FlattenSeq(s) = e
    BY <1>1, <1>3, CutSteps
  <2>2. FlattenSeq(s) = FlattenSeq([k \in DOMAIN t |-> Escape(t[k])])
    BY <1>1 DEF Coded
  <2> QED
    BY <2>1, <2>2 DEF Dump
<1> HIDE DEF n, s
<1>5. /\ \A k \in 0 .. n : c(k) \in Seq(Char)
      /\ c(0) = <<>>
      /\ \A k \in 1 .. n : c(k) = Then(c(k - 1), s[k])
  BY <1>1, <1>3, CutSteps
<1>6. \A k \in 0 .. n : Upto(t, k) = Len(c(k))
  BY DEF Upto, s
<1>7. ASSUME NEW k \in 1 .. n PROVE \E r \in Seq(Char) : e = Then(c(k), r)
  <2>1. k \in 0 .. n
    BY <1>1
  <2>2. \E r \in Seq(Char) : Cut(s, n) = Then(Cut(s, k), r)
    <3>1. s \in Pieces(Char, n) /\ n \in Nat /\ k \in 0 .. n
      BY <1>1, <1>3, <2>1 DEF Pieces
    <3> QED
      BY <3>1, CutMore
  <2> QED
    BY <2>2
<1> HIDE DEF c, e
<1>8. e \in Seq(Char) /\ e = c(n)
  BY <1>1, <1>5 DEF e
<1>9. /\ Dump(t) \in Seq(Char) /\ Len(Dump(t)) = Len(e) + 4
      /\ Dump(t)[1] = "open" /\ Dump(t)[2] = "quote"
      /\ Dump(t)[Len(e) + 3] = "quote" /\ Dump(t)[Len(e) + 4] = "close"
      /\ \A i \in 1 .. Len(e) : Dump(t)[i + 2] = e[i]
  <2> DEFINE a == <<"open", "quote">>
             z == <<"quote", "close">>
  <2>1. a \in Seq(Char) /\ z \in Seq(Char) /\ Len(a) = 2 /\ Len(z) = 2
    BY DEF Char
  <2>2. a[1] = "open" /\ a[2] = "quote" /\ z[1] = "quote" /\ z[2] = "close"
    OBVIOUS
  <2> HIDE DEF a, z
  <2>3. Dump(t) = Then(Then(a, e), z)
    BY <1>4 DEF a, z, Then
  <2>4. Len(e) \in Nat
    BY <1>8
  <2> DEFINE d == Then(a, e)
  <2>5. /\ d \in Seq(Char) /\ Len(d) = 2 + Len(e)
        /\ d[1] = a[1] /\ d[2] = a[2] /\ \A i \in 1 .. Len(e) : d[2 + i] = e[i]
    <3>1. /\ d \in Seq(Char) /\ Len(d) = Len(a) + Len(e)
          /\ \A i \in 1 .. Len(a) : d[i] = a[i]
          /\ \A i \in 1 .. Len(e) : d[Len(a) + i] = e[i]
      <4>1. Then(a, e) \in Seq(Char) /\ Len(Then(a, e)) = Len(a) + Len(e)
        BY <1>8, <2>1, ThenIs
      <4>2. \A i \in 1 .. Len(a) : Then(a, e)[i] = a[i]
        BY <1>8, <2>1, ThenFront
      <4>3. \A i \in 1 .. Len(e) : Then(a, e)[Len(a) + i] = e[i]
        <5>1. a \in Seq(Char) /\ e \in Seq(Char)
          BY <1>8, <2>1
        <5> QED
          BY <5>1, ThenBack
      <4> QED
        BY <4>1, <4>2, <4>3
    <3> HIDE DEF d
    <3> QED
      BY <2>1, <3>1
  <2> HIDE DEF d
  <2>6. /\ Dump(t) \in Seq(Char) /\ Len(Dump(t)) = (2 + Len(e)) + 2
        /\ \A i \in 1 .. (2 + Len(e)) : Dump(t)[i] = d[i]
        /\ Dump(t)[(2 + Len(e)) + 1] = z[1] /\ Dump(t)[(2 + Len(e)) + 2] = z[2]
    <3>1. Dump(t) = Then(d, z)
      BY <2>3 DEF d
    <3>2. /\ Dump(t) \in Seq(Char) /\ Len(Dump(t)) = Len(d) + Len(z)
          /\ \A i \in 1 .. Len(d) : Dump(t)[i] = d[i]
          /\ \A i \in 1 .. Len(z) : Dump(t)[Len(d) + i] = z[i]
      <4>1. Then(d, z) \in Seq(Char) /\ Len(Then(d, z)) = Len(d) + Len(z)
        BY <2>1, <2>5, ThenIs
      <4>2. \A i \in 1 .. Len(d) : Then(d, z)[i] = d[i]
        BY <2>1, <2>5, ThenFront
      <4>3. \A i \in 1 .. Len(z) : Then(d, z)[Len(d) + i] = z[i]
        <5>1. d \in Seq(Char) /\ z \in Seq(Char)
          BY <2>1, <2>5
        <5> QED
          BY <5>1, ThenBack
      <4> QED
        BY <3>1, <4>1, <4>2, <4>3
    <3> QED
      BY <2>1, <2>5, <3>2
  <2>7. 1 \in 1 .. (2 + Len(e)) /\ 2 \in 1 .. (2 + Len(e))
    BY <2>4
  <2>8. ASSUME NEW i \in 1 .. Len(e) PROVE Dump(t)[i + 2] = e[i]
    <3>1. 2 + i \in 1 .. (2 + Len(e)) /\ 2 + i = i + 2
      BY <2>4
    <3> QED
      BY <2>5, <2>6, <3>1
  <2>9. (2 + Len(e)) + 1 = Len(e) + 3 /\ (2 + Len(e)) + 2 = Len(e) + 4
    BY <2>4
  <2> QED
    BY <2>2, <2>5, <2>6, <2>7, <2>8, <2>9
<1>10. Upto(t, n) = Len(e) /\ Upto(t, 0) = 0 /\ Len(e) \in Nat
  BY <1>1, <1>5, <1>6, <1>8
<1>11. ASSUME NEW k \in 1 .. n PROVE Shape(t, k)
  <2> DEFINE p == c(k - 1)
             x == s[k]
  <2>1. PICK r \in Seq(Char) : e = Then(c(k), r)
    BY <1>7
  <2>2. p \in Seq(Char) /\ x \in Seq(Char) /\ c(k) \in Seq(Char)
    <3>1. k - 1 \in 0 .. n /\ k \in 0 .. n
      BY <1>1
    <3> QED
      BY <1>3, <1>5, <3>1
  <2>3. c(k) = p \o x
    BY <1>5 DEF Then
  <2>4. Upto(t, k - 1) = Len(p) /\ Upto(t, k) = Len(c(k))
    BY <1>1, <1>6
  <2>5. e = c(k) \o r
    BY <2>1 DEF Then
  <2>6. x = Escape(t[k])
    BY <1>3
  <2> HIDE DEF p, x
  <2>7. Len(c(k)) = Len(p) + Len(x) /\ \A j \in 1 .. Len(x) : c(k)[Len(p) + j] = x[j]
    BY <2>2, <2>3
  <2>8. Len(c(k)) <= Len(e) /\ \A i \in 1 .. Len(c(k)) : e[i] = c(k)[i]
    BY <2>2, <2>5
  <2>9. Len(p) \in Nat /\ Len(x) \in Nat
    BY <2>2
  <2>10. ASSUME NEW j \in 1 .. Len(x) PROVE Dump(t)[Len(p) + 2 + j] = x[j]
    <3>1. Len(p) + j \in 1 .. Len(c(k)) /\ Len(p) + j \in 1 .. Len(e)
      BY <1>10, <2>7, <2>8, <2>9
    <3>2. Dump(t)[(Len(p) + j) + 2] = x[j]
      BY <1>9, <2>7, <2>8, <3>1
    <3>3. (Len(p) + j) + 2 = Len(p) + 2 + j
      BY <2>9
    <3> QED
      BY <3>2, <3>3
  <2>11. CASE t[k] \in {"quote", Backslash}
    <3>1. x = <<Backslash, t[k]>>
      BY <2>6, <2>11 DEF Escape
    <3>2. Len(x) = 2 /\ x[1] = Backslash /\ x[2] = t[k]
      BY <3>1
    <3>3. Dump(t)[Len(p) + 3] = Backslash /\ Dump(t)[Len(p) + 4] = t[k]
      <4>1. Len(p) + 2 + 1 = Len(p) + 3 /\ Len(p) + 2 + 2 = Len(p) + 4
        BY <2>9
      <4>2. Dump(t)[Len(p) + 2 + 1] = x[1] /\ Dump(t)[Len(p) + 2 + 2] = x[2]
        BY <2>10, <3>2
      <4> QED
        BY <3>2, <4>1, <4>2
    <3>4. Upto(t, k - 1) \in Nat /\ Upto(t, k) = Upto(t, k - 1) + 2 /\ Upto(t, k) <= Upto(t, n)
      BY <1>10, <2>4, <2>7, <2>8, <2>9, <3>2
    <3>5. Dump(t)[Upto(t, k - 1) + 3] = Backslash /\ Dump(t)[Upto(t, k - 1) + 4] = t[k]
      BY <2>4, <3>3
    <3> QED
      BY <2>11, <3>4, <3>5 DEF Shape, n
  <2>12. CASE t[k] \notin {"quote", Backslash}
    <3>1. x = <<t[k]>>
      BY <2>6, <2>12 DEF Escape
    <3>2. Len(x) = 1 /\ x[1] = t[k]
      BY <3>1
    <3>3. Dump(t)[Len(p) + 3] = t[k]
      <4>1. Len(p) + 2 + 1 = Len(p) + 3
        BY <2>9
      <4>2. Dump(t)[Len(p) + 2 + 1] = x[1]
        BY <2>10, <3>2
      <4> QED
        BY <3>2, <4>1, <4>2
    <3> QED
      BY <1>10, <2>4, <2>7, <2>8, <2>9, <2>12, <3>2, <3>3 DEF Shape, n
  <2> QED
    BY <2>11, <2>12
<1> QED
  BY <1>9, <1>10, <1>11 DEF n

\* A stream that begins with two objects begins with one: the first has no more characters
\* than the second and these are the same.
LEMMA DumpBegins ==
    ASSUME NEW t \in Seq(Char), NEW u \in Seq(Char), NEW x \in Seq(Char), NEW y \in Seq(Char),
           Then(Dump(t), x) = Then(Dump(u), y)
    PROVE  Len(t) <= Len(u) /\ \A j \in 1 .. Len(t) : u[j] = t[j]
<1> DEFINE b == Then(Dump(t), x)
           Same(k) == k <= Len(u) /\ Upto(u, k) = Upto(t, k) /\ \A j \in 1 .. k : u[j] = t[j]
           K == {k \in 0 .. Len(t) : Same(k)}
<1>1. /\ Dump(t) \in Seq(Char) /\ Upto(t, Len(t)) \in Nat /\ Upto(t, 0) = 0
      /\ Len(Dump(t)) = Upto(t, Len(t)) + 4 /\ \A k \in 1 .. Len(t) : Shape(t, k)
  BY DumpShape
<1>2. /\ Dump(u) \in Seq(Char) /\ Upto(u, Len(u)) \in Nat /\ Upto(u, 0) = 0
      /\ Len(Dump(u)) = Upto(u, Len(u)) + 4 /\ \A k \in 1 .. Len(u) : Shape(u, k)
      /\ Dump(u)[Upto(u, Len(u)) + 3] = "quote"
  BY DumpShape
<1>3. \A i \in 1 .. (Upto(t, Len(t)) + 4) : b[i] = Dump(t)[i]
  BY <1>1, ThenFront
<1>4. \A i \in 1 .. (Upto(u, Len(u)) + 4) : b[i] = Dump(u)[i]
  BY <1>2, ThenFront
<1>5. Len(t) \in Nat /\ Len(u) \in Nat
  OBVIOUS
<1> HIDE DEF b
<1>6. 0 \in K
  BY <1>1, <1>2, <1>5
<1>7. ASSUME NEW k \in 1 .. Len(t), k - 1 \in K PROVE k \in K
  <2> DEFINE p == Upto(t, k - 1)
  <2>1. k - 1 <= Len(u) /\ Upto(u, k - 1) = p /\ \A j \in 1 .. (k - 1) : u[j] = t[j]
    BY <1>7
  <2>2. Shape(t, k)
    BY <1>1
  <2>3. p \in Nat /\ b[p + 3] = Dump(t)[p + 3] /\ (t[k] \in {"quote", Backslash} => b[p + 4] = Dump(t)[p + 4])
    <3>1. p \in Nat /\ p < Upto(t, Len(t)) /\ (t[k] \in {"quote", Backslash} => p + 2 <= Upto(t, Len(t)))
      BY <1>1, <2>2, SMTT(30) DEF Shape
    <3> HIDE DEF p
    <3> QED
      BY <1>1, <1>3, <3>1
  <2>4. b[p + 3] # "quote" /\ (t[k] \in {"quote", Backslash} <=> b[p + 3] = Backslash)
    BY <2>2, <2>3 DEF Shape, Backslash
  <2>5. k <= Len(u)
    <3> SUFFICES ASSUME k - 1 = Len(u) PROVE FALSE
      BY <1>5, <2>1
    <3>1. Dump(u)[p + 3] = "quote" /\ p = Upto(u, Len(u))
      BY <1>2, <2>1
    <3> QED
      BY <1>2, <1>4, <2>4, <3>1
  <2>6. Shape(u, k) /\ k \in 1 .. Len(u)
    BY <1>2, <1>5, <2>5
  <2>7. b[p + 3] = Dump(u)[p + 3] /\ (u[k] \in {"quote", Backslash} => b[p + 4] = Dump(u)[p + 4])
    <3>1. p \in Nat /\ p < Upto(u, Len(u)) /\ (u[k] \in {"quote", Backslash} => p + 2 <= Upto(u, Len(u)))
      <4>1. Upto(u, k) <= Upto(u, Len(u)) /\ Upto(u, k) \in Nat /\ p \in Nat
        BY <2>3, <2>6 DEF Shape
      <4>2. Upto(u, k) = p + (IF u[k] \in {"quote", Backslash} THEN 2 ELSE 1)
        BY <2>1, <2>6 DEF Shape
      <4> HIDE DEF p
      <4> QED
        BY <1>2, <4>1, <4>2
    <3> HIDE DEF p
    <3>2. p + 3 \in 1 .. (Upto(u, Len(u)) + 4)
      BY <1>2, <3>1
    <3>3. u[k] \in {"quote", Backslash} => p + 4 \in 1 .. (Upto(u, Len(u)) + 4)
      BY <1>2, <3>1
    <3> QED
      BY <1>4, <3>2, <3>3
  <2>8. u[k] \in {"quote", Backslash} <=> b[p + 3] = Backslash
    BY <2>1, <2>6, <2>7 DEF Shape, Backslash
  <2>9. u[k] = t[k] /\ Upto(u, k) = Upto(t, k)
    <3>1. CASE b[p + 3] = Backslash
      BY <2>1, <2>2, <2>3, <2>4, <2>6, <2>7, <2>8, <3>1 DEF Shape
    <3>2. CASE b[p + 3] # Backslash
      BY <2>1, <2>2, <2>3, <2>4, <2>6, <2>7, <2>8, <3>2 DEF Shape
    <3> QED
      BY <3>1, <3>2
  <2>10. Same(k)
    BY <2>1, <2>5, <2>9
  <2> QED
    BY <2>10
<1> HIDE DEF K
<1>8. \A k \in 0 .. Len(t) : k \in K
  BY <1>5, <1>6, <1>7, LoopKeeps
<1>9. Len(t) \in K
  BY <1>5, <1>8
<1> QED
  BY <1>9 DEF K

\* An object is written in one way, and is never the beginning of another.
LEMMA DumpUnique ==
    ASSUME NEW t \in Seq(Char), NEW u \in Seq(Char), NEW x \in Seq(Char), NEW y \in Seq(Char),
           Then(Dump(t), x) = Then(Dump(u), y)
    PROVE  t = u
<1>1. Len(t) <= Len(u) /\ \A j \in 1 .. Len(t) : u[j] = t[j]
  BY DumpBegins
<1>2. Len(u) <= Len(t)
  BY DumpBegins
<1>3. Len(t) = Len(u)
  BY <1>1, <1>2
<1> QED
  BY <1>1, <1>3, SeqEqual

\* The scanner is at byte at, after c, at a depth, outside a string or in one, and still open
Outside(scan, depth, c, at) ==
    scan \in Scan /\ ~scan.inString /\ scan.depth = depth /\ scan.previous = c /\ scan.at = at /\ ~scan.closed

Inside(scan, c, at) ==
    scan \in Scan /\ scan.inString /\ scan.depth = 1 /\ scan.previous = c /\ scan.at = at /\ ~scan.closed

\* What one byte does to a scanner that is still open.
LEMMA MatchFields ==
    ASSUME NEW scan \in Scan, NEW c \in Char, ~scan.closed
    PROVE  LET m == Match(scan, c)
               in == InString(c, scan.previous, scan.inString)
           IN  /\ m \in Scan /\ m.previous = c /\ m.at = scan.at + 1
               /\ m.inString <=> in
               /\ in => m.depth = scan.depth
               /\ ~in => m.depth = scan.depth + Brace(c)
               /\ m.closed <=> ~in /\ m.depth = 0
<1>1. Match(scan, c) \in Scan
  BY MatchSteps
<1>2. scan.depth \in Int
  BY DEF Scan
<1> DEFINE in == InString(c, scan.previous, scan.inString)
           m == Match(scan, c)
<1>3. m.previous = c /\ m.at = scan.at + 1
  BY DEF Match
<1>4. m.inString <=> in
  BY DEF Match
<1>5. m.depth = scan.depth + IF in THEN 0 ELSE Brace(c)
  BY DEF Match
<1>6. m.closed <=> ~in /\ scan.depth + (IF in THEN 0 ELSE Brace(c)) = 0
  BY DEF Match
<1>7. m.closed <=> ~in /\ m.depth = 0
  BY <1>5, <1>6
<1> HIDE DEF in, m
<1>8. (in => m.depth = scan.depth) /\ (~in => m.depth = scan.depth + Brace(c))
  BY <1>2, <1>5
<1> QED
  BY <1>1, <1>3, <1>4, <1>7, <1>8 DEF in, m

\* The scanner at the braces and quotes of an object, and inside its string.
LEMMA MatchCases ==
    ASSUME NEW scan, NEW at \in Nat, NEW p \in Char, NEW c \in Char
    PROVE  /\ Outside(Match(Start, "open"), 1, "open", 1)
           /\ Outside(scan, 1, "open", 1) => Inside(Match(scan, "quote"), "quote", 2)
           /\ Inside(scan, p, at) /\ (c # "quote" \/ p = Backslash) => Inside(Match(scan, c), c, at + 1)
           /\ Inside(scan, p, at) /\ p # Backslash => Outside(Match(scan, "quote"), 1, "quote", at + 1)
           /\ Outside(scan, 1, "quote", at) => Match(scan, "close").closed /\ Match(scan, "close").at = at + 1
<1>1. Brace("open") = 1 /\ Brace("close") = -1 /\ Brace("quote") = 0
  BY DEF Brace
<1>2. "open" \in Char /\ "close" \in Char /\ "quote" \in Char
  BY DEF Char
<1>3. Outside(Match(Start, "open"), 1, "open", 1)
  <2>1. Start \in Scan /\ ~Start.closed /\ Start.depth = 0 /\ Start.at = 0 /\ ~Start.inString
    BY <1>2 DEF Start, Scan
  <2>2. ~InString("open", Start.previous, Start.inString)
    BY <2>1 DEF InString
  <2> QED
    BY <1>1, <1>2, <2>1, <2>2, MatchFields DEF Outside
<1>4. ASSUME Outside(scan, 1, "open", 1) PROVE Inside(Match(scan, "quote"), "quote", 2)
  <2>1. InString("quote", scan.previous, scan.inString)
    BY <1>4 DEF InString, Outside, Backslash
  <2> QED
    BY <1>1, <1>2, <1>4, <2>1, MatchFields DEF Outside, Inside
<1>5. ASSUME Inside(scan, p, at), c # "quote" \/ p = Backslash PROVE Inside(Match(scan, c), c, at + 1)
  <2>1. InString(c, scan.previous, scan.inString)
    BY <1>5 DEF InString, Inside
  <2> QED
    BY <1>5, <2>1, MatchFields DEF Inside
<1>6. ASSUME Inside(scan, p, at), p # Backslash PROVE Outside(Match(scan, "quote"), 1, "quote", at + 1)
  <2>1. ~InString("quote", scan.previous, scan.inString)
    BY <1>6 DEF InString, Inside
  <2>2. scan \in Scan /\ ~scan.closed /\ scan.depth = 1 /\ scan.at = at
    BY <1>6 DEF Inside
  <2> QED
    BY <1>1, <1>2, <2>1, <2>2, MatchFields DEF Outside
<1>7. ASSUME Outside(scan, 1, "quote", at) PROVE Match(scan, "close").closed /\ Match(scan, "close").at = at + 1
  <2>1. ~InString("close", scan.previous, scan.inString)
    BY <1>7 DEF InString, Outside
  <2> QED
    BY <1>1, <1>2, <1>7, <2>1, MatchFields DEF Outside
<1> QED
  BY <1>3, <1>4, <1>5, <1>6, <1>7

\* A closed scanner stays where it is.
LEMMA StaysClosed ==
    ASSUME NEW b \in Seq(Char), NEW g \in [0 .. Len(b) -> Scan], Scans(g, b),
           NEW i \in 0 .. Len(b), g[i].closed, NEW j \in i .. Len(b)
    PROVE  g[j] = g[i]
<1> DEFINE K == {k \in 0 .. Len(b) : k < i \/ g[k] = g[i]}
<1>1. Len(b) \in Nat /\ \A k \in 1 .. Len(b) : b[k] \in Char
  OBVIOUS
<1>2. 0 \in K
  BY <1>1
<1>3. ASSUME NEW k \in 1 .. Len(b), k - 1 \in K PROVE k \in K
  <2>1. CASE k <= i
    BY <2>1
  <2>2. CASE k > i
    <3>1. g[k - 1] = g[i] /\ g[k - 1] \in Scan
      BY <1>1, <1>3, <2>2
    <3>2. g[k] = Match(g[k - 1], b[k])
      BY DEF Scans
    <3>3. g[k] = g[i]
      BY <1>1, <3>1, <3>2, MatchSteps
    <3> QED
      BY <3>3
  <2> QED
    BY <1>1, <2>1, <2>2
<1> HIDE DEF K
<1>4. \A k \in 0 .. Len(b) : k \in K
  BY <1>1, <1>2, <1>3, LoopKeeps
<1>5. j \in 0 .. Len(b) /\ ~(j < i)
  BY <1>1
<1> QED
  BY <1>4, <1>5 DEF K

\* The brace found is among the bytes.
LEMMA BraceEndAmong == ASSUME NEW b \in Seq(Char) PROVE BraceEnd(b) \in 0 .. Len(b)
<1>1. PICK g \in [0 .. Len(b) -> Scan] : Scans(g, b) /\ FoldLeft(Match, Start, b) = g[Len(b)]
  BY FoldScans
<1>2. Len(b) \in Nat /\ \A k \in 1 .. Len(b) : b[k] \in Char
  OBVIOUS
<1> DEFINE K == {k \in 0 .. Len(b) : g[k].at <= k}
<1>3. 0 \in K
  BY <1>1, <1>2 DEF Scans, Start
<1>4. ASSUME NEW k \in 1 .. Len(b), k - 1 \in K PROVE k \in K
  <2>1. g[k - 1].at <= k - 1 /\ g[k - 1] \in Scan /\ g[k] = Match(g[k - 1], b[k])
    BY <1>1, <1>2, <1>4 DEF Scans
  <2>2. g[k - 1].at \in Nat
    BY <2>1 DEF Scan
  <2>3. g[k].at <= k
    <3>1. CASE g[k - 1].closed
      BY <1>2, <2>1, <2>2, <3>1, MatchSteps
    <3>2. CASE ~g[k - 1].closed
      BY <1>2, <2>1, <2>2, <3>2, MatchSteps
    <3> QED
      BY <3>1, <3>2
  <2> QED
    BY <2>3
<1> HIDE DEF K
<1>5. \A k \in 0 .. Len(b) : k \in K
  BY <1>2, <1>3, <1>4, LoopKeeps
<1>6. g[Len(b)].at <= Len(b) /\ g[Len(b)] \in Scan
  BY <1>2, <1>5 DEF K
<1>7. g[Len(b)].at \in Nat
  BY <1>6 DEF Scan
<1>8. BraceEnd(b) = IF g[Len(b)].closed THEN g[Len(b)].at ELSE 0
  BY <1>1 DEF BraceEnd, Start
<1> QED
  BY <1>2, <1>6, <1>7, <1>8

\* A string that does not end in a backslash
Plain(t) == t = <<>> \/ t[Len(t)] # Backslash

\* Over an object the scanner is open up to the brace at its end and closes there.
LEMMA ScanDump ==
    ASSUME NEW t \in Seq(Char), NEW x \in Seq(Char), Plain(t), NEW g, Scans(g, Then(Dump(t), x))
    PROVE  LET u == Upto(t, Len(t)) IN ~g[u + 3].closed /\ g[u + 4].closed /\ g[u + 4].at = u + 4
<1> DEFINE n == Len(t)
           b == Then(Dump(t), x)
           u == Upto(t, n)
           Latest(k) == IF k = 0 THEN "quote" ELSE t[k]
           There(k) == Inside(g[Upto(t, k) + 2], Latest(k), Upto(t, k) + 2)
           K == {k \in 0 .. n : There(k)}
<1>1. /\ Dump(t) \in Seq(Char) /\ u \in Nat /\ Upto(t, 0) = 0
      /\ Len(Dump(t)) = u + 4
      /\ Dump(t)[1] = "open" /\ Dump(t)[2] = "quote"
      /\ Dump(t)[u + 3] = "quote" /\ Dump(t)[u + 4] = "close"
      /\ \A k \in 1 .. n : Shape(t, k)
  BY DumpShape
<1>2. n \in Nat /\ \A k \in 1 .. n : t[k] \in Char
  OBVIOUS
<1>3. b \in Seq(Char) /\ Len(b) >= u + 4
  <2>1. b \in Seq(Char) /\ Len(b) = Len(Dump(t)) + Len(x)
    <3>1. Dump(t) \in Seq(Char)
      BY <1>1
    <3> QED
      BY <3>1, ThenIs
  <2>2. Len(x) \in Nat
    OBVIOUS
  <2> QED
    BY <1>1, <2>1, <2>2
<1>4. \A i \in 1 .. (u + 4) : b[i] = Dump(t)[i]
  BY <1>1, ThenFront
<1> HIDE DEF n, b, u
<1>5. g[0] = Start /\ \A i \in 1 .. (u + 4) : g[i] = Match(g[i - 1], b[i])
  BY <1>1, <1>3 DEF Scans, b
<1>6. g[0] = Start /\ \A i \in 1 .. (u + 4) : g[i] = Match(g[i - 1], Dump(t)[i])
  BY <1>4, <1>5
<1>7. "quote" \in Char /\ Backslash \in Char /\ "quote" # Backslash
  BY DEF Char, Backslash
<1>8. 0 \in K
  <2>1. g[1] = Match(Start, "open") /\ g[2] = Match(g[1], "quote")
    <3>1. 1 \in 1 .. (u + 4) /\ 2 \in 1 .. (u + 4) /\ 1 - 1 = 0 /\ 2 - 1 = 1
      BY <1>1
    <3> QED
      BY <1>1, <1>6, <3>1
  <2>2. Outside(g[1], 1, "open", 1)
    BY <1>7, <2>1, MatchCases
  <2>3. Inside(g[2], "quote", 2)
    BY <1>7, <2>1, <2>2, MatchCases
  <2> QED
    BY <1>1, <1>2, <2>3
<1>9. ASSUME NEW k \in 1 .. n, k - 1 \in K PROVE k \in K
  <2> DEFINE p == Upto(t, k - 1)
             last == Latest(k - 1)
  <2>1. Inside(g[p + 2], last, p + 2)
    BY <1>9
  <2>2. Shape(t, k)
    BY <1>1
  <2>3. p \in Nat /\ last \in Char /\ t[k] \in Char
    BY <1>2, <1>7, <2>2 DEF Shape
  <2>4. CASE t[k] \in {"quote", Backslash}
    <3>1. Upto(t, k) = p + 2 /\ p + 2 <= u /\ Dump(t)[p + 3] = Backslash /\ Dump(t)[p + 4] = t[k]
      BY <2>2, <2>4 DEF Shape, u, n
    <3> HIDE DEF p, last
    <3>2. g[p + 3] = Match(g[p + 2], Backslash) /\ g[p + 4] = Match(g[p + 3], t[k])
      <4>1. p + 3 \in 1 .. (u + 4) /\ p + 4 \in 1 .. (u + 4) /\ (p + 3) - 1 = p + 2 /\ (p + 4) - 1 = p + 3
        BY <1>1, <2>3, <3>1
      <4> QED
        BY <1>6, <3>1, <4>1
    <3>3. (p + 2) + 1 = p + 3 /\ (p + 3) + 1 = p + 4 /\ p + 2 \in Nat /\ p + 3 \in Nat
      BY <2>3
    <3>4. Inside(g[p + 3], Backslash, p + 3)
      <4>1. Inside(Match(g[p + 2], Backslash), Backslash, (p + 2) + 1)
        BY <1>7, <2>1, <2>3, <3>3, MatchCases
      <4> QED
        BY <3>2, <3>3, <4>1
    <3>5. Inside(g[p + 4], t[k], (p + 3) + 1)
      <4>1. Inside(Match(g[p + 3], t[k]), t[k], (p + 3) + 1)
        BY <1>7, <2>3, <3>3, <3>4, MatchCases
      <4> QED
        BY <3>2, <4>1
    <3>6. Upto(t, k) + 2 = p + 4 /\ Latest(k) = t[k]
      BY <2>3, <3>1
    <3>7. There(k)
      BY <3>3, <3>5, <3>6
    <3> QED
      BY <3>7
  <2>5. CASE t[k] \notin {"quote", Backslash}
    <3>1. Upto(t, k) = p + 1 /\ p + 1 <= u /\ Dump(t)[p + 3] = t[k]
      BY <2>2, <2>5 DEF Shape, u, n
    <3> HIDE DEF p, last
    <3>2. g[p + 3] = Match(g[p + 2], t[k])
      <4>1. p + 3 \in 1 .. (u + 4) /\ (p + 3) - 1 = p + 2
        BY <1>1, <2>3, <3>1
      <4> QED
        BY <1>6, <3>1, <4>1
    <3>3. p + 2 \in Nat /\ (p + 2) + 1 = Upto(t, k) + 2 /\ (p + 2) + 1 = p + 3
      BY <2>3, <3>1
    <3>4. Inside(g[p + 3], t[k], (p + 2) + 1)
      BY <2>1, <2>3, <2>5, <3>2, <3>3, MatchCases, ZenonT(30)
    <3>5. There(k)
      BY <3>3, <3>4
    <3> QED
      BY <3>5
  <2> QED
    BY <2>4, <2>5
<1> HIDE DEF K
<1>10. \A k \in 0 .. n : k \in K
  BY <1>2, <1>8, <1>9, LoopKeeps
<1>11. Inside(g[u + 2], Latest(n), u + 2)
  <2>1. n \in K
    BY <1>2, <1>10
  <2> QED
    BY <2>1 DEF K, u
<1>12. Latest(n) \in Char /\ Latest(n) # Backslash
  BY <1>2, <1>7 DEF Plain, n
<1>13. g[u + 3] = Match(g[u + 2], "quote") /\ g[u + 4] = Match(g[u + 3], "close")
  <2>1. u + 3 \in 1 .. (u + 4) /\ u + 4 \in 1 .. (u + 4) /\ (u + 3) - 1 = u + 2 /\ (u + 4) - 1 = u + 3
    BY <1>1
  <2> QED
    BY <1>1, <1>6, <2>1
<1>14. u + 2 \in Nat /\ (u + 2) + 1 = u + 3 /\ u + 3 \in Nat /\ (u + 3) + 1 = u + 4
  BY <1>1
<1> HIDE DEF Last
<1>15. Outside(g[u + 3], 1, "quote", u + 3)
  <2>1. Outside(Match(g[u + 2], "quote"), 1, "quote", (u + 2) + 1)
    BY <1>11, <1>12, <1>14, MatchCases
  <2> QED
    BY <1>13, <1>14, <2>1
<1>16. g[u + 4].closed /\ g[u + 4].at = u + 4
  BY <1>7, <1>13, <1>14, <1>15, MatchCases
<1> QED
  BY <1>15, <1>16 DEF Outside, u, n

\* The scanner finds the end of an object, whatever follows it.
LEMMA BraceEndDump ==
    ASSUME NEW t \in Seq(Char), NEW x \in Seq(Char), Plain(t)
    PROVE  BraceEnd(Then(Dump(t), x)) = Len(Dump(t))
<1> DEFINE b == Then(Dump(t), x)
           u == Upto(t, Len(t))
<1>1. Dump(t) \in Seq(Char) /\ u \in Nat /\ Len(Dump(t)) = u + 4
  BY DumpShape
<1>2. b \in Seq(Char) /\ Len(b) = Len(Dump(t)) + Len(x)
  <2>1. Dump(t) \in Seq(Char)
    BY <1>1
  <2> QED
    BY <2>1, ThenIs
<1>3. u + 4 \in 0 .. Len(b) /\ Len(b) \in (u + 4) .. Len(b) /\ Len(b) \in Nat
  <2>1. Len(x) \in Nat
    OBVIOUS
  <2> HIDE DEF b
  <2> QED
    BY <1>1, <1>2, <2>1
<1>4. PICK g \in [0 .. Len(b) -> Scan] : Scans(g, b) /\ FoldLeft(Match, Start, b) = g[Len(b)]
  BY <1>2, FoldScans
<1>5. g[u + 4].closed /\ g[u + 4].at = u + 4
  BY <1>4, ScanDump
<1> HIDE DEF b, u
<1>6. g[Len(b)] = g[u + 4]
  <2>1. b \in Seq(Char) /\ g \in [0 .. Len(b) -> Scan] /\ Scans(g, b)
    BY <1>2, <1>4
  <2> QED
    BY <1>3, <1>5, <2>1, StaysClosed
<1>7. BraceEnd(b) = IF g[Len(b)].closed THEN g[Len(b)].at ELSE 0
  BY <1>4 DEF BraceEnd, Start
<1>8. BraceEnd(b) = u + 4
  BY <1>5, <1>6, <1>7
<1> QED
  BY <1>1, <1>8 DEF b

\* It finds none in a part of one.
LEMMA BraceEndPart ==
    ASSUME NEW t \in Seq(Char), Plain(t), NEW p \in Seq(Char), Len(p) < Len(Dump(t)),
           \A i \in 1 .. Len(p) : p[i] = Dump(t)[i]
    PROVE  BraceEnd(p) = 0
<1> DEFINE b == Then(Dump(t), <<>>)
           u == Upto(t, Len(t))
           m == Len(p)
<1>1. Dump(t) \in Seq(Char) /\ u \in Nat /\ Len(Dump(t)) = u + 4
  BY DumpShape
<1>2. b = Dump(t)
  BY <1>1 DEF Then
<1>3. PICK g \in [0 .. Len(b) -> Scan] : Scans(g, b) /\ FoldLeft(Match, Start, b) = g[Len(b)]
  BY <1>1, <1>2, FoldScans
<1>4. ~g[u + 3].closed
  <2>1. <<>> \in Seq(Char)
    OBVIOUS
  <2> QED
    BY <1>3, <2>1, ScanDump
<1> HIDE DEF b, u
<1>5. b \in Seq(Char) /\ Len(b) = u + 4 /\ m \in Nat /\ m <= u + 3 /\ \A i \in 1 .. m : p[i] = b[i]
  BY <1>1, <1>2
<1>6. PICK h \in [0 .. m -> Scan] : Scans(h, p) /\ FoldLeft(Match, Start, p) = h[m]
  BY FoldScans
<1> HIDE DEF m
<1> DEFINE K == {k \in 0 .. m : h[k] = g[k]}
<1>7. 0 \in K
  BY <1>3, <1>5, <1>6 DEF Scans
<1>8. ASSUME NEW k \in 1 .. m, k - 1 \in K PROVE k \in K
  <2>1. h[k - 1] = g[k - 1] /\ p[k] = b[k]
    BY <1>5, <1>8
  <2>2. h[k] = Match(h[k - 1], p[k])
    BY <1>6 DEF Scans, m
  <2>3. g[k] = Match(g[k - 1], b[k])
    BY <1>1, <1>3, <1>5 DEF Scans
  <2>4. h[k] = g[k]
    BY <2>1, <2>2, <2>3
  <2> QED
    BY <2>4
<1> HIDE DEF K
<1>9. \A k \in 0 .. m : k \in K
  BY <1>5, <1>7, <1>8, LoopKeeps
<1>10. h[m] = g[m]
  BY <1>5, <1>9 DEF K
<1>11. ~g[m].closed
  <2> SUFFICES ASSUME g[m].closed PROVE FALSE
    OBVIOUS
  <2>1. m \in 0 .. Len(b) /\ u + 3 \in m .. Len(b)
    BY <1>1, <1>5
  <2>2. g[u + 3] = g[m]
    BY <1>3, <1>5, <2>1, StaysClosed
  <2> QED
    BY <1>4, <2>2
<1>12. BraceEnd(p) = IF h[m].closed THEN h[m].at ELSE 0
  BY <1>6 DEF BraceEnd, Start, m
<1> QED
  BY <1>10, <1>11, <1>12

\* Nothing is erased before a brace.
LEMMA BraceFirst ==
    ASSUME NEW b \in Seq(Char), b = <<>> \/ b[1] = "open"
    PROVE  FromBrace(b) = b
<1> DEFINE I == {i \in 1 .. Len(b) : b[i] = "open"}
           start == IF I # {} THEN Min(I) ELSE 0
<1>1. FromBrace(b) = IF start = 0 THEN <<>> ELSE SubSeq(b, start, Len(b))
  BY DEF FromBrace, SelectInSubSeq
<1>2. CASE b = <<>>
  <2>1. start = 0
    BY <1>2
  <2> QED
    BY <1>1, <1>2, <2>1
<1>3. CASE b # <<>> /\ b[1] = "open"
  <2>1. 1 \in I /\ \A i \in I : 1 <= i
    BY <1>3
  <2>2. \A i \in I : (\A j \in I : i <= j) => i = 1
    BY <2>1
  <2>3. Min(I) = 1
    BY <2>1, <2>2 DEF Min
  <2>4. start = 1
    BY <2>1, <2>3
  <2>5. SubSeq(b, 1, Len(b)) = b
    BY SubSeqFull
  <2> HIDE DEF start
  <2> QED
    BY <1>1, <2>4, <2>5
<1> QED
  BY <1>2, <1>3

\* What is erased is not longer than what there was.
LEMMA FromBraceIs ==
    ASSUME NEW b \in Seq(Char)
    PROVE  FromBrace(b) \in Seq(Char) /\ Len(FromBrace(b)) <= Len(b)
<1> DEFINE I == {i \in 1 .. Len(b) : b[i] = "open"}
           start == IF I # {} THEN Min(I) ELSE 0
<1>1. FromBrace(b) = IF start = 0 THEN <<>> ELSE SubSeq(b, start, Len(b))
  BY DEF FromBrace, SelectInSubSeq
<1>2. start \in 0 .. Len(b)
  <2>1. CASE I = {}
    BY <2>1
  <2>2. CASE I # {}
    <3>1. I \in SUBSET Nat
      OBVIOUS
    <3>2. PICK x \in I : \A y \in I : x <= y
      BY <2>2, <3>1, LeastExists
    <3>3. Min(I) \in I
      BY <3>2 DEF Min
    <3> QED
      BY <2>2, <3>3
  <2> QED
    BY <2>1, <2>2
<1> HIDE DEF start
<1>3. CASE start = 0
  BY <1>1, <1>3
<1>4. CASE start # 0
  BY <1>1, <1>2, <1>4
<1> QED
  BY <1>3, <1>4

-----------------------------------------------------------------------------
(* Frames as sendRaw writes them *)

\* The two digits of the length, the type and the data.
LEMMA SendRawIs ==
    ASSUME NEW f \in Frame
    PROVE  /\ f.data \in Seq({0, 1}) /\ Len(f.data) \in 0 .. 3 /\ f.type \in {0, 1}
           /\ f = [type |-> f.type, data |-> f.data]
           /\ SendRaw(f) \in Seq({0, 1}) /\ Len(SendRaw(f)) = 3 + Len(f.data)
           /\ 2 * SendRaw(f)[1] + SendRaw(f)[2] = Len(f.data)
           /\ SendRaw(f)[3] = f.type
           /\ \A i \in 1 .. Len(f.data) : SendRaw(f)[3 + i] = f.data[i]
<1> DEFINE d == f.data
           l == Len(d)
           h == <<l \div 2, l % 2, f.type>>
<1>1. MaxData \in 0 .. 3
  BY FramingAssumption
<1>2. PICK n \in 0 .. MaxData : d \in [1 .. n -> {0, 1}]
  BY DEF Frame
<1>3. d \in Seq({0, 1}) /\ l \in 0 .. 3
  <2>1. n \in 0 .. 3
    BY <1>1
  <2> HIDE DEF d
  <2>2. d \in Seq({0, 1}) /\ Len(d) = n
    BY <1>2, <2>1
  <2> QED
    BY <2>1, <2>2
<1>4. f.type \in {0, 1} /\ f = [type |-> f.type, data |-> f.data]
  BY DEF Frame
<1>5. SendRaw(f) = Then(h, d)
  BY DEF SendRaw, Then
<1> HIDE DEF d, l
<1>6. l \div 2 \in {0, 1} /\ l % 2 \in {0, 1} /\ 2 * (l \div 2) + (l % 2) = l
  <2>1. l = 0 \/ l = 1 \/ l = 2 \/ l = 3
    BY <1>3
  <2>2. /\ 0 \div 2 = 0 /\ 0 % 2 = 0 /\ 1 \div 2 = 0 /\ 1 % 2 = 1
        /\ 2 \div 2 = 1 /\ 2 % 2 = 0 /\ 3 \div 2 = 1 /\ 3 % 2 = 1
    OBVIOUS
  <2> QED
    BY <2>1, <2>2
<1>7. h \in Seq({0, 1}) /\ Len(h) = 3 /\ h[1] = l \div 2 /\ h[2] = l % 2 /\ h[3] = f.type
  BY <1>4, <1>6
<1> HIDE DEF h
<1>8. h \in Seq({0, 1}) /\ d \in Seq({0, 1})
  BY <1>3, <1>7
<1>9. Then(h, d) \in Seq({0, 1}) /\ Len(Then(h, d)) = Len(h) + Len(d)
  BY <1>8, ThenIs
<1>10. \A i \in 1 .. Len(h) : Then(h, d)[i] = h[i]
  BY <1>8, ThenFront
<1>11. \A i \in 1 .. Len(d) : Then(h, d)[Len(h) + i] = d[i]
  BY <1>8, ThenBack
<1>12. SendRaw(f)[1] = l \div 2 /\ SendRaw(f)[2] = l % 2 /\ SendRaw(f)[3] = f.type
  BY <1>5, <1>7, <1>10
<1>13. \A i \in 1 .. Len(d) : SendRaw(f)[3 + i] = d[i]
  BY <1>5, <1>7, <1>11
<1>14. SendRaw(f) \in Seq({0, 1}) /\ Len(SendRaw(f)) = 3 + l
  BY <1>5, <1>7, <1>9 DEF l
<1>15. 2 * SendRaw(f)[1] + SendRaw(f)[2] = l
  BY <1>6, <1>12
<1> QED
  BY <1>3, <1>4, <1>12, <1>13, <1>14, <1>15 DEF d, l

-----------------------------------------------------------------------------
(* One reader for both kinds of message *)

Byte == IF InFrames THEN {0, 1} ELSE Char

\* What a turn of onMessage or extractJsonObjects looks at
LooksAt(s) == IF InFrames THEN s ELSE FromBrace(s)

\* The framings that are read the way they are written; braces for strings that do not end
\* in a backslash
Readable ==
    \/ protocol \in {"prefix", "none"}
    \/ protocol = "braces" /\ \A t \in Text : Plain(t)

\* A message on the wire is not empty.
LEMMA EncodeIs ==
    ASSUME NEW m \in Message
    PROVE  Encode(m) \in Seq(Byte) /\ Len(Encode(m)) \in Nat /\ Len(Encode(m)) > 0
<1>1. CASE InFrames
  <2>1. m \in Frame /\ Encode(m) = SendRaw(m) /\ Byte = {0, 1}
    BY <1>1 DEF Message, Encode, Byte
  <2> QED
    BY <2>1, SendRawIs
<1>2. CASE ~InFrames
  <2>1. m \in Seq(Char) /\ Encode(m) = Dump(m) /\ Byte = Char
    BY <1>2, FramingAssumption DEF Message, Encode, Byte
  <2> QED
    BY <2>1, DumpShape
<1> QED
  BY <1>1, <1>2

\* A reader looks at sequences of bytes and finds frames that are not longer.
LEMMA LooksAtIs ==
    ASSUME protocol \in {"prefix", "braces"}, NEW s \in Seq(Byte)
    PROVE  /\ LooksAt(s) \in Seq(Byte) /\ Len(LooksAt(s)) <= Len(s)
           /\ FrameEnd(LooksAt(s)) \in 0 .. Len(LooksAt(s))
<1>1. CASE InFrames
  <2>1. LooksAt(s) = s /\ Byte = {0, 1} /\ HeaderSize = 3 /\ Len(s) \in Nat
    BY <1>1 DEF LooksAt, Byte, InFrames, HeaderSize
  <2>2. FrameEnd(s) \in 0 .. Len(s)
    <3>1. CASE s = <<>>
      BY <2>1, <3>1 DEF FrameEnd
    <3>2. CASE s # <<>> /\ Len(s) < 3
      BY <1>1, <2>1, <3>2 DEF FrameEnd, PrefixEnd
    <3>3. CASE s # <<>> /\ Len(s) >= 3
      <4>1. s[1] \in {0, 1} /\ s[2] \in {0, 1}
        BY <2>1, <3>3
      <4> DEFINE size == 3 + 2 * s[1] + s[2]
      <4>2. size \in Nat
        BY <4>1
      <4>3. FrameEnd(s) = IF Len(s) < 3 \/ Len(s) < size THEN 0 ELSE size
        BY <1>1, <2>1, <3>3 DEF FrameEnd, PrefixEnd
      <4> HIDE DEF size
      <4> QED
        BY <2>1, <4>2, <4>3
    <3> QED
      BY <2>1, <3>1, <3>2, <3>3
  <2> QED
    BY <2>1, <2>2
<1>2. CASE ~InFrames
  <2> DEFINE r == FromBrace(s)
  <2>1. LooksAt(s) = r /\ Byte = Char
    BY <1>2 DEF LooksAt, Byte
  <2>2. r \in Seq(Char) /\ Len(r) <= Len(s)
    BY <2>1, FromBraceIs
  <2>3. BraceEnd(r) \in 0 .. Len(r)
    BY <2>2, BraceEndAmong
  <2>4. FrameEnd(r) \in 0 .. Len(r)
    <3>1. FrameEnd(r) = IF r = <<>> THEN 0 ELSE BraceEnd(r)
      BY <1>2 DEF FrameEnd
    <3>2. Len(r) \in Nat
      BY <2>2
    <3> HIDE DEF r
    <3> QED
      BY <2>3, <3>1, <3>2
  <2> QED
    BY <2>1, <2>2, <2>4
<1> QED
  BY <1>1, <1>2

\* Where a message has come, the reader finds it.
LEMMA FirstFrame ==
    ASSUME Readable, protocol # "none", NEW m \in Message, NEW x \in Seq(Byte)
    PROVE  LET b == Then(Encode(m), x) IN LooksAt(b) = b /\ FrameEnd(b) = Len(Encode(m))
<1> DEFINE e == Encode(m)
           b == Then(e, x)
<1>1. e \in Seq(Byte) /\ Len(e) \in Nat /\ Len(e) > 0
  BY EncodeIs
<1>2. b \in Seq(Byte) /\ Len(b) = Len(e) + Len(x)
  <2>1. e \in Seq(Byte)
    BY <1>1
  <2> HIDE DEF e
  <2> QED
    BY <2>1, ThenIs
<1>3. \A i \in 1 .. Len(e) : b[i] = e[i]
  <2>1. e \in Seq(Byte)
    BY <1>1
  <2> HIDE DEF e
  <2> QED
    BY <2>1, ThenFront
<1>4. Len(b) >= Len(e) /\ b # <<>> /\ Len(b) \in Nat
  <2>1. Len(x) \in Nat
    OBVIOUS
  <2> HIDE DEF e, b
  <2> QED
    BY <1>1, <1>2, <2>1
<1>5. CASE InFrames
  <2>1. protocol = "prefix" /\ m \in Frame /\ e = SendRaw(m) /\ HeaderSize = 3
    BY <1>5 DEF Readable, InFrames, Message, Encode, HeaderSize
  <2> DEFINE l == Len(m.data)
  <2>2. l \in 0 .. 3 /\ Len(e) = 3 + l /\ 2 * e[1] + e[2] = l /\ e[1] \in {0, 1} /\ e[2] \in {0, 1}
    <3>1. l \in 0 .. 3 /\ SendRaw(m) \in Seq({0, 1}) /\ Len(SendRaw(m)) = 3 + l
          /\ 2 * SendRaw(m)[1] + SendRaw(m)[2] = l
      BY <2>1, SendRawIs
    <3> HIDE DEF e, l
    <3> QED
      BY <2>1, <3>1
  <2>3. b[1] = e[1] /\ b[2] = e[2]
    <3> HIDE DEF e, b, l
    <3> QED
      BY <1>3, <2>2
  <2>4. FrameEnd(b) = IF Len(b) < 3 \/ Len(b) < 3 + 2 * b[1] + b[2] THEN 0 ELSE 3 + 2 * b[1] + b[2]
    BY <1>4, <1>5, <2>1 DEF FrameEnd, PrefixEnd
  <2>5. LooksAt(b) = b
    BY <1>5 DEF LooksAt
  <2> HIDE DEF e, b, l
  <2>6. FrameEnd(b) = Len(e)
    BY <1>4, <2>2, <2>3, <2>4
  <2> QED
    BY <2>5, <2>6 DEF e, b
<1>6. CASE ~InFrames
  <2>1. protocol = "braces" /\ m \in Seq(Char) /\ Plain(m) /\ e = Dump(m) /\ Byte = Char
    BY <1>6, FramingAssumption DEF Readable, InFrames, Message, Encode, Byte
  <2>2. BraceEnd(b) = Len(e)
    BY <2>1, BraceEndDump
  <2>3. b[1] = "open"
    <3>1. e[1] = "open"
      BY <2>1, DumpShape
    <3> HIDE DEF e, b
    <3> QED
      BY <1>1, <1>3, <3>1
  <2>4. LooksAt(b) = b
    <3> HIDE DEF e, b
    <3>1. FromBrace(b) = b
      BY <1>2, <2>1, <2>3, BraceFirst
    <3> QED
      BY <1>6, <3>1 DEF LooksAt
  <2>5. FrameEnd(b) = BraceEnd(b)
    BY <1>4, <1>6 DEF FrameEnd
  <2> QED
    BY <2>2, <2>4, <2>5
<1> QED
  BY <1>5, <1>6

\* Where only a part has come, it waits.
LEMMA PartFrame ==
    ASSUME Readable, protocol # "none", NEW m \in Message, NEW p \in Seq(Byte),
           Len(p) < Len(Encode(m)), \A i \in 1 .. Len(p) : p[i] = Encode(m)[i]
    PROVE  LooksAt(p) = p /\ FrameEnd(p) = 0
<1> DEFINE e == Encode(m)
<1>0. Len(p) \in Nat /\ Len(p) < Len(e) /\ \A i \in 1 .. Len(p) : p[i] = e[i]
  OBVIOUS
<1>1. CASE InFrames
  <2>1. protocol = "prefix" /\ m \in Frame /\ e = SendRaw(m) /\ HeaderSize = 3
    BY <1>1 DEF Readable, InFrames, Message, Encode, HeaderSize
  <2> DEFINE l == Len(m.data)
  <2>2. l \in 0 .. 3 /\ Len(e) = 3 + l /\ 2 * e[1] + e[2] = l /\ e[1] \in {0, 1} /\ e[2] \in {0, 1}
    <3>1. l \in 0 .. 3 /\ SendRaw(m) \in Seq({0, 1}) /\ Len(SendRaw(m)) = 3 + l
          /\ 2 * SendRaw(m)[1] + SendRaw(m)[2] = l
      BY <2>1, SendRawIs
    <3> HIDE DEF e, l
    <3> QED
      BY <2>1, <3>1
  <2>3. p # <<>> => FrameEnd(p) = IF Len(p) < 3 \/ Len(p) < 3 + 2 * p[1] + p[2] THEN 0 ELSE 3 + 2 * p[1] + p[2]
    BY <1>1, <2>1 DEF FrameEnd, PrefixEnd
  <2>4. p = <<>> => FrameEnd(p) = 0
    BY DEF FrameEnd
  <2> HIDE DEF e, l
  <2>5. Len(p) >= 3 => p[1] = e[1] /\ p[2] = e[2]
    BY <1>0
  <2>6. FrameEnd(p) = 0
    BY <1>0, <2>2, <2>3, <2>4, <2>5
  <2> QED
    BY <1>1, <2>6 DEF LooksAt
<1>2. CASE ~InFrames
  <2>1. protocol = "braces" /\ m \in Seq(Char) /\ Plain(m) /\ e = Dump(m) /\ Byte = Char
    BY <1>2, FramingAssumption DEF Readable, InFrames, Message, Encode, Byte
  <2>2. BraceEnd(p) = 0
    BY <2>1, BraceEndPart
  <2>3. p = <<>> \/ p[1] = "open"
    <3>1. e[1] = "open"
      BY <2>1, DumpShape
    <3> HIDE DEF e
    <3> QED
      BY <1>0, <3>1
  <2>4. FromBrace(p) = p
    BY <2>1, <2>3, BraceFirst
  <2> QED
    BY <1>2, <2>2, <2>4 DEF LooksAt, FrameEnd
<1> QED
  BY <1>1, <1>2

-----------------------------------------------------------------------------
(* The loop of onMessage *)

\* The last n bytes of b
Rest(b, n) == SubSeq(b, Len(b) - n + 1, Len(b))

\* One turn of the loop, when n bytes of b are left and loop has what shorter rests give
Turn(loop, b, n) ==
    LET r == LooksAt(Rest(b, n))
        end == FrameEnd(r)
    IN  IF end = 0 THEN [frames |-> <<>>, kept |-> r]
        ELSE [loop[Len(r) - end] EXCEPT !.frames = Then(<<SubSeq(r, 1, end)>>, @)]

\* What is left of some bytes.
LEMMA RestIs ==
    ASSUME NEW A, NEW b \in Seq(A), NEW n \in 0 .. Len(b)
    PROVE  /\ Rest(b, n) \in Seq(A) /\ Len(Rest(b, n)) = n
           /\ \A i \in 1 .. n : Rest(b, n)[i] = b[Len(b) - n + i]
<1> DEFINE l == Len(b)
<1>1. l \in Nat /\ n \in Nat /\ n <= l /\ \A i \in 1 .. l : b[i] \in A
  OBVIOUS
<1> HIDE DEF l
<1>2. l - n + 1 \in Int /\ l \in Int /\ \A i \in (l - n + 1) .. l : b[i] \in A
  BY <1>1
<1>3. /\ SubSeq(b, l - n + 1, l) \in Seq(A)
      /\ Len(SubSeq(b, l - n + 1, l)) = IF l - n + 1 <= l THEN l - (l - n + 1) + 1 ELSE 0
      /\ \A i \in 1 .. (l - (l - n + 1) + 1) : SubSeq(b, l - n + 1, l)[i] = b[(l - n + 1) + i - 1]
  BY <1>2, SubSeqProperties
<1>4. l - (l - n + 1) + 1 = n /\ (l - n + 1 <= l <=> n > 0)
  BY <1>1
<1>5. \A i \in 1 .. n : (l - n + 1) + i - 1 = l - n + i
  BY <1>1
<1>6. Len(SubSeq(b, l - n + 1, l)) = n
  BY <1>1, <1>3, <1>4
<1>7. \A i \in 1 .. n : SubSeq(b, l - n + 1, l)[i] = b[l - n + i]
  BY <1>3, <1>4, <1>5
<1> QED
  BY <1>3, <1>6, <1>7 DEF Rest, l

\* The loop has a value for every rest, and each turn follows from one with fewer bytes.
LEMMA ExtractRuns ==
    ASSUME protocol \in {"prefix", "braces"}, NEW b \in Seq(Byte)
    PROVE  \E loop : Extract(b) = loop[Len(b)] /\ \A n \in 0 .. Len(b) : loop[n] = Turn(loop, b, n)
<1> DEFINE N == Len(b)
           r(n) == LooksAt(Rest(b, n))
           end(n) == FrameEnd(r(n))
           stop(n) == [frames |-> <<>>, kept |-> r(n)]
           before(n) == Len(r(n)) - end(n)
           join(n, after) == [after EXCEPT !.frames = Then(<<SubSeq(r(n), 1, end(n))>>, @)]
           body(f, n) == IF end(n) = 0 THEN stop(n) ELSE join(n, f[before(n)])
           loop[n \in 0 .. N] == body(loop, n)
           K == {k \in 0 .. N : \E f : \A n \in 0 .. k : f[n] = body(f, n)}
<1>1. N \in Nat
  OBVIOUS
<1>2. Extract(b) = loop[N]
  BY DEF Extract, LooksAt, Rest, Then
<1>3. \A f, n : body(f, n) = Turn(f, b, n)
  BY DEF Turn
<1>4. ASSUME NEW n \in 0 .. N, end(n) # 0 PROVE before(n) \in 0 .. (n - 1)
  <2>1. Rest(b, n) \in Seq(Byte) /\ Len(Rest(b, n)) = n
    BY RestIs
  <2>2. Len(r(n)) \in Nat /\ Len(r(n)) <= n /\ end(n) \in 0 .. Len(r(n))
    BY <2>1, LooksAtIs
  <2> HIDE DEF r, end
  <2> QED
    BY <1>1, <1>4, <2>2
<1> HIDE DEF N, end, stop, before, join
<1>5. 0 \in K
  <2> DEFINE h == [i \in 0 .. 0 |-> stop(0)]
  <2>1. end(0) = 0
    BY <1>1, <1>4
  <2>2. \A n \in 0 .. 0 : h[n] = body(h, n)
    BY <2>1
  <2>3. \E f : \A n \in 0 .. 0 : f[n] = body(f, n)
    BY <2>2
  <2> QED
    BY <1>1, <2>3
<1>6. ASSUME NEW k \in 1 .. N, k - 1 \in K PROVE k \in K
  <2>1. PICK f : \A n \in 0 .. (k - 1) : f[n] = body(f, n)
    BY <1>6
  <2> DEFINE last == body(f, k)
             h == [i \in 0 .. k |-> IF i = k THEN last ELSE f[i]]
  <2>2. \A i \in 0 .. (k - 1) : h[i] = f[i]
    BY <1>1
  <2>3. h[k] = last
    BY <1>1
  <2> HIDE DEF h
  <2>4. ASSUME NEW n \in 0 .. k PROVE body(h, n) = body(f, n)
    <3>1. CASE end(n) = 0
      BY <3>1
    <3>2. CASE end(n) # 0
      <4>1. before(n) \in 0 .. (n - 1)
        BY <1>1, <1>4, <3>2
      <4>2. before(n) \in 0 .. (k - 1)
        BY <1>1, <4>1
      <4> QED
        BY <2>2, <4>2
    <3> QED
      BY <3>1, <3>2
  <2>5. ASSUME NEW n \in 0 .. k PROVE h[n] = body(h, n)
    <3> HIDE DEF body
    <3>1. CASE n = k
      BY <2>3, <2>4, <3>1
    <3>2. CASE n # k
      <4>1. n \in 0 .. (k - 1)
        BY <1>1, <3>2
      <4> QED
        BY <2>1, <2>2, <2>4, <4>1
    <3> QED
      BY <3>1, <3>2
  <2>6. \E e : \A n \in 0 .. k : e[n] = body(e, n)
    BY <2>5
  <2> HIDE DEF body
  <2> QED
    BY <1>1, <2>6
<1> HIDE DEF K
<1>7. \A k \in 0 .. N : k \in K
  BY <1>1, <1>5, <1>6, LoopKeeps
<1>8. PICK f : \A n \in 0 .. N : f[n] = body(f, n)
  BY <1>1, <1>7 DEF K
<1> DEFINE g == [n \in 0 .. N |-> f[n]]
<1>9. ASSUME NEW n \in 0 .. N PROVE body(g, n) = body(f, n)
  <2>1. CASE end(n) = 0
    BY <2>1
  <2>2. CASE end(n) # 0
    <3>1. before(n) \in 0 .. N
      BY <1>1, <1>4, <2>2
    <3> QED
      BY <3>1
  <2> QED
    BY <2>1, <2>2
<1>10. g = [n \in 0 .. N |-> body(g, n)]
  <2> HIDE DEF body
  <2> QED
    BY <1>8, <1>9
<1>11. \E h : h = [n \in 0 .. N |-> body(h, n)]
  BY <1>10
<1>12. loop = [n \in 0 .. N |-> body(loop, n)]
  BY <1>11 DEF loop
<1> HIDE DEF loop, body
<1>13. \A n \in 0 .. N : loop[n] = Turn(loop, b, n)
  BY <1>3, <1>12
<1> QED
  BY <1>2, <1>13 DEF N

\* Two ways to cut the same bytes.
LEMMA TwoCuts ==
    ASSUME NEW A, NEW e \in Seq(A), NEW q \in Seq(A), NEW s \in Seq(A), NEW r \in Seq(A), Then(e, q) = Then(s, r)
    PROVE  /\ Len(s) < Len(e) => \A i \in 1 .. Len(s) : s[i] = e[i]
           /\ Len(s) >= Len(e) => /\ s = Then(e, SubSeq(s, Len(e) + 1, Len(s)))
                                  /\ Then(SubSeq(s, Len(e) + 1, Len(s)), r) = q
<1> DEFINE z == Then(e, q)
           a == Len(e)
           c == Len(s)
<1>1. a \in Nat /\ c \in Nat /\ Len(q) \in Nat /\ Len(r) \in Nat
  OBVIOUS
<1>2. z \in Seq(A) /\ Len(z) = a + Len(q)
  BY ThenIs
<1>3. Len(z) = c + Len(r)
  BY ThenIs
<1>4. \A i \in 1 .. a : z[i] = e[i]
  BY ThenFront
<1>5. \A i \in 1 .. Len(q) : z[a + i] = q[i]
  BY ThenBack
<1>6. \A i \in 1 .. c : z[i] = s[i]
  BY ThenFront
<1>7. \A i \in 1 .. Len(r) : z[c + i] = r[i]
  BY ThenBack
<1> HIDE DEF z
<1>8. ASSUME c < a PROVE \A i \in 1 .. c : s[i] = e[i]
  BY <1>1, <1>4, <1>6, <1>8
<1>9. ASSUME c >= a PROVE s = Then(e, SubSeq(s, a + 1, c)) /\ Then(SubSeq(s, a + 1, c), r) = q
  <2> DEFINE d == SubSeq(s, a + 1, c)
  <2>1. /\ d \in Seq(A) /\ Len(d) = c - a
        /\ \A i \in 1 .. (c - a) : d[i] = s[a + i]
    <3>1. \A i \in (a + 1) .. c : s[i] \in A
      BY <1>1
    <3>2. /\ d \in Seq(A) /\ Len(d) = IF a + 1 <= c THEN c - (a + 1) + 1 ELSE 0
          /\ \A i \in 1 .. (c - (a + 1) + 1) : d[i] = s[(a + 1) + i - 1]
      BY <1>1, <3>1, SubSeqProperties
    <3>3. c - (a + 1) + 1 = c - a /\ \A i \in 1 .. (c - a) : (a + 1) + i - 1 = a + i
      BY <1>1
    <3> HIDE DEF d, a, c
    <3>4. Len(d) = c - a
      BY <1>1, <1>9, <3>2
    <3>5. ASSUME NEW i \in 1 .. (c - a) PROVE d[i] = s[a + i]
      BY <3>2, <3>3
    <3> QED
      BY <3>2, <3>4, <3>5
  <2> HIDE DEF d
  <2>2. s = Then(e, d)
    <3>1. Then(e, d) \in Seq(A) /\ Len(Then(e, d)) = a + Len(d)
      BY <2>1, ThenIs
    <3>2. \A i \in 1 .. a : Then(e, d)[i] = e[i]
      BY <2>1, ThenFront
    <3>3. \A i \in 1 .. Len(d) : Then(e, d)[a + i] = d[i]
      BY <2>1, ThenBack
    <3>4. ASSUME NEW i \in 1 .. c PROVE s[i] = Then(e, d)[i]
      <4>1. CASE i <= a
        BY <1>1, <1>4, <1>6, <3>2, <4>1
      <4>2. CASE i > a
        <5>1. i - a \in 1 .. (c - a) /\ a + (i - a) = i
          BY <1>1, <4>2
        <5> QED
          BY <2>1, <3>3, <5>1
      <4> QED
        BY <1>1, <4>1, <4>2
    <3>5. Len(Then(e, d)) = c
      BY <1>1, <2>1, <3>1
    <3> QED
      BY <3>1, <3>4, <3>5, SeqEqual
  <2>3. Then(d, r) = q
    <3>1. Then(d, r) \in Seq(A) /\ Len(Then(d, r)) = Len(d) + Len(r)
      BY <2>1, ThenIs
    <3>2. \A i \in 1 .. Len(d) : Then(d, r)[i] = d[i]
      BY <2>1, ThenFront
    <3>3. \A i \in 1 .. Len(r) : Then(d, r)[Len(d) + i] = r[i]
      <4>1. d \in Seq(A)
        BY <2>1
      <4> QED
        BY <4>1, ThenBack
    <3>4. Len(Then(d, r)) = Len(q)
      <4>1. a + Len(q) = c + Len(r) /\ Len(d) = c - a
        BY <1>2, <1>3, <2>1
      <4> HIDE DEF a, c
      <4> QED
        BY <1>1, <3>1, <4>1
    <3>5. ASSUME NEW i \in 1 .. Len(q) PROVE Then(d, r)[i] = q[i]
      <4>1. q[i] = z[a + i]
        BY <1>5
      <4>2. CASE i <= c - a
        <5>1. i \in 1 .. (c - a) /\ a + i \in 1 .. c
          BY <1>1, <4>2
        <5> QED
          BY <1>6, <2>1, <3>2, <4>1, <5>1
      <4>3. CASE i > c - a
        <5>1. i - (c - a) \in 1 .. Len(r) /\ (c - a) + (i - (c - a)) = i /\ c + (i - (c - a)) = a + i
          BY <1>1, <1>2, <1>3, <4>3
        <5> QED
          BY <1>7, <2>1, <3>3, <4>1, <5>1
      <4> QED
        BY <1>1, <4>2, <4>3
    <3> QED
      BY <3>1, <3>4, <3>5, SeqEqual
  <2> QED
    BY <2>2, <2>3 DEF d
<1> QED
  BY <1>8, <1>9

-----------------------------------------------------------------------------
(* The messages in a read *)

\* The bytes of the first k messages of w
Flow(w, k) == FlattenSeq([i \in 1 .. k |-> Encode(w[i])])

\* A stream of messages, message by message.
LEMMA FlowSteps ==
    ASSUME NEW w \in Seq(Message)
    PROVE  /\ \A k \in 0 .. Len(w) : Flow(w, k) \in Seq(Byte)
           /\ Flow(w, 0) = <<>>
           /\ \A k \in 1 .. Len(w) : Flow(w, k) = Then(Flow(w, k - 1), Encode(w[k]))
           /\ \A k \in 0 .. Len(w) : \E q \in Seq(Byte) : Flow(w, Len(w)) = Then(Flow(w, k), q)
<1> DEFINE n == Len(w)
           s == [i \in 1 .. n |-> Encode(w[i])]
           c(k) == Cut(s, k)
<1>1. n \in Nat /\ \A i \in 1 .. n : w[i] \in Message
  OBVIOUS
<1>2. s \in [1 .. n -> Seq(Byte)]
  BY <1>1, EncodeIs
<1>3. ASSUME NEW k \in 0 .. n PROVE Flow(w, k) = c(k)
  <2>1. [i \in 1 .. k |-> Encode(w[i])] = [i \in 1 .. k |-> s[i]]
    BY <1>1
  <2> QED
    BY <2>1 DEF Flow, Cut
<1>4. \A k \in 1 .. n : s[k] = Encode(w[k])
  OBVIOUS
<1> HIDE DEF n, s
<1>5. /\ \A k \in 0 .. n : c(k) \in Seq(Byte)
      /\ c(0) = <<>>
      /\ \A k \in 1 .. n : c(k) = Then(c(k - 1), s[k])
  BY <1>1, <1>2, CutSteps
<1>6. ASSUME NEW k \in 0 .. n PROVE \E q \in Seq(Byte) : c(n) = Then(c(k), q)
  <2>1. \E q \in Seq(Byte) : Cut(s, n) = Then(Cut(s, k), q)
    <3>1. n \in Nat
      BY <1>1
    <3>2. s \in Pieces(Byte, n)
      BY <1>2 DEF Pieces
    <3> QED
      BY <3>1, <3>2, CutMore
  <2> QED
    BY <2>1
<1> HIDE DEF c
<1>7. \A k \in 1 .. n : k \in 0 .. n /\ k - 1 \in 0 .. n
  BY <1>1
<1>8. 0 \in 0 .. n /\ n \in 0 .. n
  BY <1>1
<1> QED
  BY <1>3, <1>4, <1>5, <1>6, <1>7, <1>8 DEF n

\* The messages of w after the k-th up to the j-th were found, and what is kept begins the next
Handed(found, w, rest, k, j) ==
    /\ found = [frames |-> found.frames, kept |-> found.kept]
    /\ found.frames = [i \in 1 .. (j - k) |-> Encode(w[k + i])]
    /\ found.kept \in Seq(Byte)
    /\ Flow(w, Len(w)) = Then(Flow(w, j), Then(found.kept, rest))
    /\ j < Len(w) => Len(found.kept) < Len(Encode(w[j + 1]))

\* Once the k-th message is over, the bytes that have come hold the next ones, in order,
\* and the loop finds those of them that are complete.
LEMMA ExtractFinds ==
    ASSUME Readable, protocol # "none", NEW w \in Seq(Message), NEW b \in Seq(Byte), NEW rest \in Seq(Byte),
           NEW k0 \in 0 .. Len(w), Flow(w, Len(w)) = Then(Flow(w, k0), Then(b, rest))
    PROVE  \E j \in k0 .. Len(w) : Handed(Extract(b), w, rest, k0, j)
<1> DEFINE N == Len(w)
           B == Len(b)
           All == Flow(w, N)
<1>1. protocol \in {"prefix", "braces"}
  BY DEF Readable
<1>2. PICK loop : Extract(b) = loop[B] /\ \A n \in 0 .. B : loop[n] = Turn(loop, b, n)
  BY <1>1, ExtractRuns
<1> DEFINE Left(n, k) == All = Then(Flow(w, k), Then(Rest(b, n), rest))
           Good(n, k) == \E j \in k .. N : Handed(loop[n], w, rest, k, j)
           K == {n \in 0 .. B : \A k \in 0 .. N : Left(n, k) => Good(n, k)}
<1>3. N \in Nat /\ B \in Nat /\ \A k \in 1 .. N : w[k] \in Message
  OBVIOUS
<1>4. /\ \A k \in 0 .. N : Flow(w, k) \in Seq(Byte)
      /\ \A k \in 1 .. N : Flow(w, k) = Then(Flow(w, k - 1), Encode(w[k]))
      /\ \A k \in 0 .. N : \E q \in Seq(Byte) : All = Then(Flow(w, k), q)
  BY FlowSteps
<1>5. ASSUME NEW n \in 0 .. B, \A i \in 0 .. (n - 1) : i \in K, NEW k \in 0 .. N, Left(n, k)
      PROVE  Good(n, k)
  <2> DEFINE s == Rest(b, n)
             F == Flow(w, k)
             e == Encode(w[k + 1])
  <2>1. s \in Seq(Byte) /\ Len(s) = n /\ n \in Nat
    BY RestIs
  <2>2. F \in Seq(Byte) /\ All = Then(F, Then(s, rest)) /\ Then(s, rest) \in Seq(Byte)
    BY <1>4, <1>5, <2>1, ThenIs
  <2>3. loop[n] = LET r == LooksAt(s)
                      end == FrameEnd(r)
                  IN  IF end = 0 THEN [frames |-> <<>>, kept |-> r]
                      ELSE [loop[Len(r) - end] EXCEPT !.frames = Then(<<SubSeq(r, 1, end)>>, @)]
    BY <1>2 DEF Turn
  <2>4. ASSUME LooksAt(s) = s, FrameEnd(s) = 0, k < N => n < Len(e) PROVE Good(n, k)
    <3>1. loop[n] = [frames |-> <<>>, kept |-> s]
      BY <2>3, <2>4
    <3>2. loop[n].frames = <<>> /\ loop[n].kept = s
      BY <3>1
    <3>3. [i \in 1 .. (k - k) |-> Encode(w[k + i])] = <<>>
      BY <1>3
    <3>4. Handed(loop[n], w, rest, k, k)
      <4>1. loop[n] = [frames |-> loop[n].frames, kept |-> loop[n].kept]
        BY <3>1, <3>2
      <4> HIDE DEF s
      <4> QED
        BY <2>1, <2>2, <2>4, <3>2, <3>3, <4>1 DEF Handed
    <3>5. k \in k .. N
      BY <1>3
    <3> QED
      BY <3>4, <3>5
  <2>5. CASE k = N
    <3>1. Then(s, rest) = <<>>
      <4>1. F = Then(F, Then(s, rest))
        BY <2>2, <2>5
      <4> HIDE DEF F
      <4> QED
        BY <2>2, <4>1, ConcatEqualIffEmpty DEF Then
    <3>2. s = <<>>
      BY <2>1, <3>1, ConcatEqualIffEmpty DEF Then
    <3>3. LooksAt(s) = s /\ FrameEnd(s) = 0
      <4>1. FrameEnd(<<>>) = 0
        BY DEF FrameEnd
      <4>2. LooksAt(<<>>) = <<>>
        <5>1. <<>> \in Seq(Char)
          OBVIOUS
        <5> QED
          BY <5>1, BraceFirst DEF LooksAt
      <4> QED
        BY <3>2, <4>1, <4>2
    <3> QED
      BY <2>4, <2>5, <3>3
  <2>6. CASE k < N
    <3>1. k + 1 \in 1 .. N /\ k + 1 \in 0 .. N /\ (k + 1) - 1 = k /\ w[k + 1] \in Message
      BY <1>3, <2>6
    <3>2. e \in Seq(Byte) /\ Len(e) \in Nat /\ Len(e) > 0
      BY <3>1, EncodeIs
    <3>3. Flow(w, k + 1) = Then(F, e)
      BY <1>4, <3>1
    <3>4. PICK q \in Seq(Byte) : All = Then(Flow(w, k + 1), q)
      BY <1>4, <3>1
    <3>5. Then(e, q) = Then(s, rest)
      <4>1. Then(Then(F, e), q) = Then(F, Then(e, q)) /\ Then(e, q) \in Seq(Byte)
        <5>1. F \in Seq(Byte) /\ e \in Seq(Byte) /\ q \in Seq(Byte)
          BY <2>2, <3>2
        <5> HIDE DEF F, e
        <5> QED
          BY <5>1, ThenIs, ThenThen
      <4>2. Then(F, Then(e, q)) = Then(F, Then(s, rest))
        BY <2>2, <3>3, <3>4, <4>1
      <4> HIDE DEF F, e, s
      <4> QED
        BY <2>2, <4>1, <4>2, ConcatSimplifications DEF Then
    <3> HIDE DEF e
    <3>6. CASE n < Len(e)
      <4>1. \A i \in 1 .. Len(s) : s[i] = e[i]
        <5>1. s \in Seq(Byte) /\ e \in Seq(Byte) /\ Len(s) < Len(e)
          BY <2>1, <3>2, <3>6
        <5> HIDE DEF s
        <5> QED
          BY <3>5, <5>1, TwoCuts
      <4>2. LooksAt(s) = s /\ FrameEnd(s) = 0
        BY <2>1, <3>1, <3>6, <4>1, PartFrame DEF e
      <4> QED
        BY <2>4, <3>6, <4>2
    <3>7. CASE n >= Len(e)
      <4> DEFINE m == n - Len(e)
                 d == Rest(b, m)
      <4>1. m \in 0 .. B /\ m \in 0 .. (n - 1)
        BY <1>3, <2>1, <3>2, <3>7
      <4>2. d \in Seq(Byte) /\ d = SubSeq(s, Len(e) + 1, Len(s))
        <5>1. d \in Seq(Byte) /\ Len(d) = m /\ \A i \in 1 .. m : d[i] = b[B - m + i]
          BY <4>1, RestIs
        <5>2. \A i \in 1 .. n : s[i] = b[B - n + i]
          BY RestIs
        <5> DEFINE x == SubSeq(s, Len(e) + 1, Len(s))
        <5>3. x \in Seq(Byte) /\ Len(x) = m /\ \A i \in 1 .. m : x[i] = s[Len(e) + i]
          <6>1. \A i \in (Len(e) + 1) .. n : s[i] \in Byte
            BY <2>1, <3>2
          <6>2. /\ SubSeq(s, Len(e) + 1, n) \in Seq(Byte)
                /\ Len(SubSeq(s, Len(e) + 1, n)) = IF Len(e) + 1 <= n THEN n - (Len(e) + 1) + 1 ELSE 0
                /\ \A i \in 1 .. (n - (Len(e) + 1) + 1) : SubSeq(s, Len(e) + 1, n)[i] = s[(Len(e) + 1) + i - 1]
            BY <2>1, <3>2, <6>1, SubSeqProperties
          <6>3. /\ n - (Len(e) + 1) + 1 = m /\ (Len(e) + 1 <= n <=> m > 0)
                /\ \A i \in 1 .. m : (Len(e) + 1) + i - 1 = Len(e) + i
            BY <2>1, <3>2
          <6>4. x = SubSeq(s, Len(e) + 1, n)
            BY <2>1
          <6> HIDE DEF x, m, s
          <6>5. Len(x) = m
            BY <4>1, <6>2, <6>3, <6>4
          <6> QED
            BY <6>2, <6>3, <6>4, <6>5
        <5>4. ASSUME NEW i \in 1 .. m PROVE d[i] = x[i]
          <6>1. Len(e) + i \in 1 .. n /\ B - n + (Len(e) + i) = B - m + i
            BY <1>3, <2>1, <3>2
          <6> HIDE DEF d, x, m, s
          <6> QED
            BY <5>1, <5>2, <5>3, <6>1
        <5> HIDE DEF d, x, m, s
        <5>5. d = x
          BY <5>1, <5>3, <5>4, SeqEqual
        <5> QED
          BY <5>1, <5>5 DEF x
      <4>3. s = Then(e, d) /\ Then(d, rest) = q
        <5>1. s \in Seq(Byte) /\ e \in Seq(Byte) /\ Len(s) >= Len(e)
          BY <2>1, <3>2, <3>7
        <5> HIDE DEF s, d
        <5>2. s = Then(e, SubSeq(s, Len(e) + 1, Len(s))) /\ Then(SubSeq(s, Len(e) + 1, Len(s)), rest) = q
          BY <3>5, <5>1, TwoCuts
        <5> QED
          BY <4>2, <5>2
      <4>4. LooksAt(s) = s /\ FrameEnd(s) = Len(e)
        BY <3>1, <4>2, <4>3, FirstFrame DEF e
      <4>5. SubSeq(s, 1, Len(e)) = e
        <5>1. Len(e) \in 1 .. Len(e) /\ 1 \in 1 .. Len(e)
          BY <3>2
        <5>2. SubSeq(e \o d, 1, Len(e)) = SubSeq(e, 1, Len(e))
          BY <3>2, <4>2, <5>1, SubSeqOfConcat1
        <5>3. SubSeq(e, 1, Len(e)) = e
          BY <3>2, SubSeqFull
        <5> QED
          BY <4>3, <5>2, <5>3 DEF Then
      <4>6. Left(m, k + 1)
        <5>1. All = Then(Flow(w, k + 1), Then(d, rest))
          BY <3>4, <4>3
        <5> QED
          BY <5>1
      <4>7. Good(m, k + 1)
        <5>1. m \in K
          BY <1>5, <4>1
        <5> HIDE DEF m, Left, Good
        <5> QED
          BY <3>1, <4>6, <5>1
      <4>8. PICK j \in (k + 1) .. N : Handed(loop[m], w, rest, k + 1, j)
        BY <4>7
      <4>9. loop[n] = [loop[m] EXCEPT !.frames = Then(<<e>>, @)]
        <5> HIDE DEF s, m
        <5>1. Len(s) - Len(e) = m /\ Len(e) # 0
          BY <2>1, <3>2 DEF m
        <5> QED
          BY <2>3, <4>4, <4>5, <5>1
      <4>10. /\ loop[n] = [frames |-> loop[n].frames, kept |-> loop[n].kept]
             /\ loop[n].kept = loop[m].kept /\ loop[n].frames = Then(<<e>>, loop[m].frames)
        <5> DEFINE fr == loop[m].frames
                   kp == loop[m].kept
        <5>1. loop[m] = [frames |-> fr, kept |-> kp]
          BY <4>8 DEF Handed
        <5> HIDE DEF fr, kp, m
        <5>2. loop[n] = [frames |-> Then(<<e>>, fr), kept |-> kp]
          BY <4>9, <5>1
        <5>3. loop[n].frames = Then(<<e>>, fr) /\ loop[n].kept = kp /\ loop[n] = [frames |-> loop[n].frames, kept |-> loop[n].kept]
          BY <5>2
        <5> QED
          BY <5>3 DEF fr, kp
      <4>11. Then(<<e>>, loop[m].frames) = [i \in 1 .. (j - k) |-> Encode(w[k + i])]
        <5> DEFINE l == j - (k + 1)
                   tail == [i \in 1 .. l |-> Encode(w[(k + 1) + i])]
                   whole == [i \in 1 .. (l + 1) |-> Encode(w[k + i])]
        <5>1. l \in Nat /\ j - k = l + 1
          BY <1>3
        <5>2. loop[m].frames = tail
          BY <4>8 DEF Handed
        <5> HIDE DEF l
        <5>3. Then(<<e>>, tail) = whole
          <6>1. k + 1 \in Nat /\ \A i \in 1 .. l : (k + 1) + i = k + (i + 1)
            BY <1>3, <5>1
          <6>2. <<e>> \in Seq({e}) /\ Len(<<e>>) = 1
            OBVIOUS
          <6> QED
            BY <5>1, <6>1 DEF Then, e
        <5> QED
          BY <5>1, <5>2, <5>3
      <4>12. Handed(loop[n], w, rest, k, j)
        BY <4>8, <4>10, <4>11 DEF Handed
      <4>13. j \in k .. N
        BY <1>3
      <4> HIDE DEF m
      <4> QED
        BY <4>12, <4>13
    <3> QED
      BY <2>1, <3>2, <3>6, <3>7
  <2> QED
    BY <1>3, <2>5, <2>6
<1>6. ASSUME NEW n \in 0 .. B, \A i \in 0 .. (n - 1) : i \in K PROVE n \in K
  <2> HIDE DEF Left, Good
  <2> QED
    BY <1>5, <1>6
<1>7. B \in K
  <2> HIDE DEF K
  <2>1. \A n \in 0 .. B : n \in K
    BY <1>3, <1>6, TurnsFollow
  <2> QED
    BY <1>3, <2>1
<1>8. Left(B, k0)
  <2>1. Rest(b, B) = b
    <3>1. B - B + 1 = 1 /\ SubSeq(b, 1, B) = b
      BY <1>3, SubSeqFull
    <3> QED
      BY <3>1 DEF Rest
  <2> QED
    BY <2>1
<1>9. Good(B, k0)
  <2> HIDE DEF Left, Good
  <2> QED
    BY <1>7, <1>8
<1> QED
  BY <1>2, <1>9

\* What the reader makes of the bytes of messages are these messages.
LEMMA DecodeIs ==
    ASSUME Readable, protocol # "none", NEW l \in Nat, NEW v \in [1 .. l -> Message]
    PROVE  Decode([i \in 1 .. l |-> Encode(v[i])]) = v
<1> DEFINE frames == [i \in 1 .. l |-> Encode(v[i])]
<1>1. DOMAIN frames = 1 .. l /\ \A i \in 1 .. l : frames[i] = Encode(v[i]) /\ v[i] \in Message
  OBVIOUS
<1> HIDE DEF frames
<1>2. CASE InFrames
  <2>1. protocol = "prefix"
    BY <1>2 DEF Readable, InFrames
  <2>2. ASSUME NEW f \in Frame PROVE Payload(SendRaw(f)) = f
    <3> DEFINE r == SendRaw(f)
               x == SubSeq(r, 4, Len(r))
    <3>1. /\ f.data \in Seq({0, 1}) /\ Len(f.data) \in 0 .. 3 /\ f = [type |-> f.type, data |-> f.data]
          /\ r \in Seq({0, 1}) /\ Len(r) = 3 + Len(f.data) /\ r[3] = f.type
          /\ \A i \in 1 .. Len(f.data) : r[3 + i] = f.data[i]
      BY <2>2, SendRawIs
    <3>2. Payload(r) = [type |-> r[3], data |-> x]
      BY <2>1 DEF Payload
    <3> HIDE DEF r
    <3>3. x \in Seq({0, 1}) /\ Len(x) = Len(f.data) /\ \A i \in 1 .. Len(x) : x[i] = r[3 + i]
      <4>1. Len(r) \in Int /\ \A i \in 4 .. Len(r) : r[i] \in {0, 1}
        BY <3>1
      <4>2. /\ x \in Seq({0, 1}) /\ Len(x) = IF 4 <= Len(r) THEN Len(r) - 4 + 1 ELSE 0
            /\ \A i \in 1 .. (Len(r) - 4 + 1) : x[i] = r[4 + i - 1]
        BY <4>1, SubSeqProperties
      <4> HIDE DEF x
      <4>3. Len(x) = Len(f.data)
        BY <3>1, <4>2
      <4>4. ASSUME NEW i \in 1 .. Len(x) PROVE x[i] = r[3 + i]
        <5>1. i \in 1 .. (Len(r) - 4 + 1) /\ 4 + i - 1 = 3 + i
          BY <3>1, <4>3
        <5> QED
          BY <4>2, <5>1
      <4> QED
        BY <4>2, <4>3, <4>4
    <3> HIDE DEF x
    <3>4. x = f.data
      BY <3>1, <3>3, SeqEqual, SMTT(30)
    <3> QED
      BY <3>1, <3>2, <3>4 DEF r
  <2>3. Decode(frames) = [k \in 1 .. l |-> Payload(frames[k])]
    BY <1>1, <1>2 DEF Decode
  <2>4. \A k \in 1 .. l : Payload(frames[k]) = v[k]
    BY <1>1, <1>2, <2>2 DEF Encode, Message
  <2>5. [k \in 1 .. l |-> Payload(frames[k])] = v
    BY <2>4
  <2> QED
    BY <2>3, <2>5 DEF frames
<1>3. CASE ~InFrames
  <2>1. \A k \in 1 .. l : v[k] \in Text /\ v[k] \in Seq(Char) /\ frames[k] = Dump(v[k])
    BY <1>1, <1>3, FramingAssumption DEF Message, Encode
  <2>2. ASSUME NEW t \in Text, NEW u \in Text, Dump(u) = Dump(t) PROVE u = t
    <3>1. t \in Seq(Char) /\ u \in Seq(Char) /\ <<>> \in Seq(Char)
      BY FramingAssumption
    <3>2. Then(Dump(t), <<>>) = Then(Dump(u), <<>>)
      BY <2>2
    <3> QED
      BY <3>1, <3>2, DumpUnique
  <2>3. ASSUME NEW k \in 1 .. l PROVE Parse(frames[k]) = {v[k]}
    BY <2>1, <2>2 DEF Parse
  <2> DEFINE s == [k \in 1 .. l |-> <<v[k]>>]
  <2>4. Decode(frames) = FlattenSeq(s)
    <3>1. Decode(frames) = FlattenSeq([k \in 1 .. l |-> IF Parse(frames[k]) = {} THEN <<>>
                                                        ELSE <<CHOOSE t \in Parse(frames[k]) : TRUE>>])
      BY <1>1, <1>3 DEF Decode
    <3>2. \A k \in 1 .. l : (IF Parse(frames[k]) = {} THEN <<>>
                             ELSE <<CHOOSE t \in Parse(frames[k]) : TRUE>>) = <<v[k]>>
      BY <2>3
    <3> QED
      BY <3>1, <3>2
  <2>5. s \in [1 .. l -> Seq(Message)]
    BY <1>1
  <2>6. \A k \in 1 .. l : s[k] = <<v[k]>>
    OBVIOUS
  <2> HIDE DEF s
  <2> DEFINE c(k) == Cut(s, k)
             part(k) == [i \in 1 .. k |-> v[i]]
             K == {k \in 0 .. l : c(k) = part(k)}
  <2>7. c(0) = <<>> /\ c(l) = FlattenSeq(s) /\ \A k \in 1 .. l : c(k) = Then(c(k - 1), s[k])
    BY <2>5, CutSteps
  <2> HIDE DEF c
  <2>8. 0 \in K
    <3>1. part(0) = <<>>
      OBVIOUS
    <3>2. 0 \in 0 .. l
      OBVIOUS
    <3> HIDE DEF part
    <3> QED
      BY <2>7, <3>1, <3>2
  <2>9. ASSUME NEW k \in 1 .. l, k - 1 \in K PROVE k \in K
    <3>1. c(k) = Then(part(k - 1), <<v[k]>>)
      BY <2>6, <2>7, <2>9
    <3>2. Then(part(k - 1), <<v[k]>>) = part(k)
      <4> DEFINE a == part(k - 1)
                 z == <<v[k]>>
      <4>1. a \in Seq(Message) /\ Len(a) = k - 1 /\ z \in Seq(Message) /\ Len(z) = 1 /\ z[1] = v[k]
        BY <1>1
      <4>2. \A i \in 1 .. (k - 1) : a[i] = v[i]
        OBVIOUS
      <4>3. part(k) \in Seq(Message) /\ Len(part(k)) = k /\ \A i \in 1 .. k : part(k)[i] = v[i]
        BY <1>1
      <4> HIDE DEF a, z, part
      <4>4. a \in Seq(Message) /\ z \in Seq(Message)
        BY <4>1
      <4>5. Then(a, z) \in Seq(Message) /\ Len(Then(a, z)) = Len(a) + Len(z)
        BY <4>4, ThenIs
      <4>6. \A i \in 1 .. Len(a) : Then(a, z)[i] = a[i]
        BY <4>4, ThenFront
      <4>7. \A i \in 1 .. Len(z) : Then(a, z)[Len(a) + i] = z[i]
        BY <4>4, ThenBack
      <4>8. Then(a, z)[k] = v[k]
        <5>1. (k - 1) + 1 = k /\ 1 \in 1 .. Len(z)
          BY <4>1
        <5> QED
          BY <4>1, <4>7, <5>1
      <4>9. ASSUME NEW i \in 1 .. k PROVE Then(a, z)[i] = part(k)[i]
        <5>1. CASE i = k
          BY <4>3, <4>8, <5>1
        <5>2. CASE i # k
          BY <4>1, <4>2, <4>3, <4>6, <5>2
        <5> QED
          BY <5>1, <5>2
      <4>10. Len(Then(a, z)) = k
        BY <4>1, <4>5
      <4>11. Then(a, z) = part(k)
        BY <4>3, <4>5, <4>9, <4>10, SeqEqual
      <4> QED
        BY <4>11 DEF a, z
    <3>3. c(k) = part(k)
      BY <3>1, <3>2
    <3> HIDE DEF part
    <3> QED
      BY <3>3
  <2> HIDE DEF K
  <2>10. \A k \in 0 .. l : k \in K
    BY <2>8, <2>9, LoopKeeps
  <2>11. c(l) = part(l)
    BY <2>10 DEF K
  <2>12. part(l) = v
    OBVIOUS
  <2> QED
    BY <2>4, <2>7, <2>11, <2>12 DEF frames
<1> QED
  BY <1>2, <1>3

-----------------------------------------------------------------------------
(* The invariant *)

\* Of the messages w, those in g have been handed on; what follows them on the stream is in
\* the buffer b and on the wire x, and the buffer has less than one message.  The chat
\* server keeps nothing.
Flowing(w, x, b, g) ==
    /\ b \in Seq(Byte) /\ x \in Seq(Byte)
    /\ Len(g) \in 0 .. Len(w) /\ g = SubSeq(w, 1, Len(g))
    /\ Flow(w, Len(w)) = Then(Flow(w, Len(g)), Then(b, x))
    /\ Len(g) < Len(w) => Len(b) < Len(Encode(w[Len(g) + 1]))
    /\ protocol = "none" => b = <<>>

\* Messages are written, and flow to a reader that can read them
FrameInv == written \in Seq(Message) /\ (Readable /\ ~crashed => Flowing(written, wire, buffer, got))

\* A stream keeps its framing.
LEMMA FramingStays ==
    ASSUME protocol' = protocol,
           written' \in Seq(Message), Readable /\ ~crashed' => Flowing(written', wire', buffer', got')
    PROVE  FrameInv'
<1>1. Message' = Message /\ Byte' = Byte /\ Readable' = Readable
  BY DEF Message, Byte, Readable, InFrames, Frame, Plain
<1>2. Flowing(written, wire, buffer, got)' = Flowing(written', wire', buffer', got')
  BY <1>1 DEF Flowing, Flow, Encode, InFrames
<1> QED
  BY <1>1, <1>2 DEF FrameInv

\* The bytes of a stream never get fewer with more messages.
LEMMA FlowGrows ==
    ASSUME NEW w \in Seq(Message), NEW k \in 0 .. Len(w), NEW j \in k .. Len(w)
    PROVE  Len(Flow(w, j)) >= Len(Flow(w, k))
<1> DEFINE N == Len(w)
           len(i) == Len(Flow(w, i))
           K == {i \in 0 .. N : i < k \/ len(i) >= len(k)}
<1>1. N \in Nat /\ \A i \in 1 .. N : w[i] \in Message
  OBVIOUS
<1>2. \A i \in 0 .. N : len(i) \in Nat
  BY FlowSteps
<1>3. ASSUME NEW i \in 1 .. N PROVE len(i) >= len(i - 1)
  <2>1. i - 1 \in 0 .. N /\ Flow(w, i) = Then(Flow(w, i - 1), Encode(w[i]))
    BY FlowSteps
  <2>2. Flow(w, i - 1) \in Seq(Byte) /\ Encode(w[i]) \in Seq(Byte)
    BY <1>1, <2>1, FlowSteps, EncodeIs
  <2>3. len(i) = len(i - 1) + Len(Encode(w[i]))
    BY <2>1, <2>2, ThenIs
  <2>4. Len(Encode(w[i])) \in Nat /\ len(i - 1) \in Nat
    BY <2>2
  <2> HIDE DEF len
  <2> QED
    BY <2>3, <2>4
<1> HIDE DEF N, len
<1>4. 0 \in K
  BY <1>1, <1>2 DEF N
<1>5. ASSUME NEW i \in 1 .. N, i - 1 \in K PROVE i \in K
  <2>1. i - 1 \in 0 .. N /\ i \in 0 .. N /\ k \in 0 .. N
    BY <1>1 DEF N
  <2>2. len(i) \in Nat /\ len(i - 1) \in Nat /\ len(k) \in Nat /\ len(i) >= len(i - 1)
    BY <1>2, <1>3, <2>1
  <2> QED
    BY <1>5, <2>1, <2>2
<1> HIDE DEF K
<1>6. \A i \in 0 .. N : i \in K
  BY <1>1, <1>4, <1>5, LoopKeeps
<1>7. j \in 0 .. N /\ ~(j < k)
  BY <1>1 DEF N
<1> QED
  BY <1>6, <1>7 DEF K, len

\* The messages that have arrived with their last byte are the ones handed on.
LEMMA CompleteIs ==
    ASSUME FrameInv, Readable, ~crashed
    PROVE  Complete = Len(got)
<1> DEFINE N == Len(written)
           h == Len(got)
           len(i) == Len(Flow(written, i))
<1>1. written \in Seq(Message) /\ Flowing(written, wire, buffer, got)
  BY DEF FrameInv
<1>2. N \in Nat /\ h \in 0 .. N /\ buffer \in Seq(Byte) /\ wire \in Seq(Byte)
  BY <1>1 DEF Flowing
<1>3. \A i \in 0 .. N : Flow(written, i) \in Seq(Byte) /\ len(i) \in Nat
  BY <1>1, FlowSteps
<1>4. Seen = len(h) + Len(buffer) /\ Len(buffer) \in Nat
  <2>1. Flow(written, h) \in Seq(Byte) /\ h \in 0 .. N
    BY <1>2, <1>3
  <2>2. Then(buffer, wire) \in Seq(Byte) /\ Len(Then(buffer, wire)) = Len(buffer) + Len(wire)
    BY <1>2, ThenIs
  <2>3. Flow(written, N) = Then(Flow(written, h), Then(buffer, wire))
    BY <1>1 DEF Flowing
  <2>4. len(N) = len(h) + Len(Then(buffer, wire))
    BY <2>1, <2>2, <2>3, ThenIs
  <2>5. Seen = len(N) - Len(wire)
    BY DEF Seen, Stream, Flow
  <2>6. len(h) \in Nat /\ Len(buffer) \in Nat /\ Len(wire) \in Nat
    BY <1>2, <2>1
  <2> HIDE DEF len, N, h
  <2> QED
    BY <2>2, <2>4, <2>5, <2>6
<1>5. Arrived = {k \in 0 .. N : len(k) <= Seen}
  BY DEF Arrived, Stream, Flow
<1>6. h < N => len(h + 1) > Seen
  <2> SUFFICES ASSUME h < N PROVE len(h + 1) > Seen
    OBVIOUS
  <2> DEFINE e == Encode(written[h + 1])
  <2>1. h + 1 \in 1 .. N /\ (h + 1) - 1 = h /\ written[h + 1] \in Message
    BY <1>1, <1>2
  <2>2. Flow(written, h + 1) = Then(Flow(written, h), e)
    BY <1>1, <2>1, FlowSteps
  <2>3. Flow(written, h) \in Seq(Byte) /\ e \in Seq(Byte)
    BY <1>2, <1>3, <2>1, EncodeIs
  <2>4. len(h + 1) = len(h) + Len(e)
    BY <2>2, <2>3, ThenIs
  <2>5. Len(buffer) < Len(e) /\ Len(e) \in Nat /\ len(h) \in Nat
    BY <1>1, <2>3 DEF Flowing
  <2> HIDE DEF len, e, h
  <2> QED
    BY <1>4, <2>4, <2>5
<1>7. h \in Arrived
  <2> HIDE DEF len, N, h
  <2> QED
    BY <1>2, <1>3, <1>4, <1>5
<1>8. ASSUME NEW j \in Arrived PROVE j <= h
  <2> SUFFICES ASSUME j > h PROVE FALSE
    BY <1>2, <1>5
  <2>1. j \in 0 .. N /\ len(j) <= Seen
    BY <1>5
  <2>2. h < N /\ h + 1 \in 0 .. N /\ j \in (h + 1) .. N
    BY <1>2, <2>1
  <2>3. len(j) >= len(h + 1)
    BY <1>1, <2>2, FlowGrows
  <2>4. len(j) \in Nat /\ len(h + 1) \in Nat /\ Seen \in Int
    BY <1>2, <1>3, <1>4, <2>1, <2>2
  <2> HIDE DEF len, N, h
  <2> QED
    BY <1>6, <2>1, <2>2, <2>3, <2>4
<1>9. \A k \in Arrived : (\A j \in Arrived : j <= k) => k = h
  <2> HIDE DEF len, N, h
  <2> QED
    BY <1>2, <1>5, <1>7, <1>8
<1> HIDE DEF h
<1>10. Complete = h
  BY <1>7, <1>8, <1>9 DEF Complete
<1> QED
  BY <1>10 DEF h

\* Nothing follows the last message.
LEMMA NothingLeft ==
    ASSUME NEW w \in Seq(Message), NEW y \in Seq(Byte), Flow(w, Len(w)) = Then(Flow(w, Len(w)), y)
    PROVE  y = <<>>
<1> DEFINE F == Flow(w, Len(w))
<1>1. Len(w) \in 0 .. Len(w)
  OBVIOUS
<1>2. F \in Seq(Byte) /\ F = Then(F, y)
  BY <1>1, FlowSteps
<1> HIDE DEF F
<1>3. F \o y = F
  BY <1>2 DEF Then
<1> QED
  BY <1>2, <1>3, ConcatEqualIffEmpty

Firsts(w, k) == SubSeq(w, 1, k)

\* The first messages of a stream.
LEMMA FirstsAre ==
    ASSUME NEW A, NEW w \in Seq(A), NEW k \in 0 .. Len(w)
    PROVE  /\ Firsts(w, k) \in Seq(A) /\ Len(Firsts(w, k)) = k
           /\ \A i \in 1 .. k : Firsts(w, k)[i] = w[i]
<1>1. Len(w) \in Nat /\ k \in Nat /\ k <= Len(w)
  OBVIOUS
<1> QED
  BY <1>1 DEF Firsts

\* The first messages of a stream, and more of them.
LEMMA OneMore ==
    ASSUME NEW A, NEW w \in Seq(A), NEW h \in 0 .. Len(w), NEW j \in h .. Len(w),
           NEW v \in Seq(A), Len(v) = j - h, \A i \in 1 .. (j - h) : v[i] = w[h + i]
    PROVE  Then(Firsts(w, h), v) = Firsts(w, j)
<1> DEFINE g == Firsts(w, h)
           z == Firsts(w, j)
           c == Then(g, v)
<1>2. Len(w) \in Nat /\ h \in Nat /\ j \in Nat /\ h <= j /\ j <= Len(w) /\ j \in 0 .. Len(w)
  OBVIOUS
<1>3. g \in Seq(A) /\ Len(g) = h /\ \A i \in 1 .. h : g[i] = w[i]
  BY FirstsAre
<1>4. z \in Seq(A) /\ Len(z) = j /\ \A i \in 1 .. j : z[i] = w[i]
  BY <1>2, FirstsAre
<1> HIDE DEF g, z
<1>5. c \in Seq(A) /\ Len(c) = Len(g) + Len(v)
  BY <1>3, ThenIs
<1>6. \A i \in 1 .. Len(g) : c[i] = g[i]
  BY <1>3, ThenFront
<1>7. \A i \in 1 .. Len(v) : c[Len(g) + i] = v[i]
  <2>1. g \in Seq(A) /\ v \in Seq(A)
    BY <1>3
  <2>2. ASSUME NEW i \in 1 .. Len(v) PROVE Then(g, v)[Len(g) + i] = v[i]
    BY ONLY <2>1, ThenBack, i \in 1 .. Len(v)
  <2> QED
    BY <2>2
<1> HIDE DEF c
<1>8. ASSUME NEW i \in 1 .. j PROVE c[i] = z[i]
  <2>1. CASE i <= h
    <3>1. i \in 1 .. h
      BY <1>2, <2>1
    <3> QED
      BY <1>3, <1>4, <1>6, <3>1
  <2>2. CASE i > h
    <3>1. i - h \in 1 .. (j - h) /\ h + (i - h) = i
      BY <1>2, <2>2
    <3>2. c[h + (i - h)] = v[i - h] /\ v[i - h] = w[h + (i - h)]
      BY <1>3, <1>7, <3>1
    <3> QED
      BY <1>4, <3>1, <3>2
  <2> QED
    BY <1>2, <2>1, <2>2
<1>9. Len(c) = j
  BY <1>2, <1>3, <1>5
<1>10. c = z
  BY <1>4, <1>5, <1>8, <1>9, SeqEqual
<1> QED
  BY <1>10 DEF c, g, z

\* A message written comes to the end of the stream.
LEMMA WriteKeeps ==
    ASSUME FrameInv, NEW m \in Message, Write(m)
    PROVE  FrameInv'
<1> DEFINE w == written
           N == Len(w)
           u == Append(w, m)
           e == Encode(m)
<1>1. /\ protocol' = protocol /\ written' = u /\ wire' = Then(wire, e)
      /\ buffer' = buffer /\ got' = got /\ crashed' = crashed
  BY DEF Write, Then
<1>2. w \in Seq(Message) /\ (Readable /\ ~crashed => Flowing(w, wire, buffer, got))
  BY DEF FrameInv
<1>3. /\ u \in Seq(Message) /\ Len(u) = N + 1 /\ N \in Nat
      /\ (\A i \in 1 .. N : u[i] = w[i]) /\ u[N + 1] = m
  BY <1>2
<1>4. e \in Seq(Byte) /\ Len(e) \in Nat /\ Len(e) > 0
  BY EncodeIs
<1>5. ASSUME NEW k \in 0 .. N PROVE Flow(u, k) = Flow(w, k)
  <2>1. \A i \in 1 .. k : u[i] = w[i]
    BY <1>3
  <2> QED
    BY <2>1 DEF Flow
<1> HIDE DEF u
<1>6. Flow(u, N + 1) = Then(Flow(w, N), e)
  <2>1. N + 1 \in 1 .. Len(u) /\ (N + 1) - 1 = N /\ N \in 0 .. N
    BY <1>3
  <2> QED
    BY <1>3, <1>5, <2>1, FlowSteps
<1>7. ASSUME Readable, ~crashed PROVE Flowing(u, Then(wire, e), buffer, got)
  <2> DEFINE h == Len(got)
             F == Flow(w, h)
             b == buffer
             x == wire
  <2>1. /\ b \in Seq(Byte) /\ x \in Seq(Byte) /\ h \in 0 .. N /\ got = SubSeq(w, 1, h)
        /\ Flow(w, N) = Then(F, Then(b, x))
        /\ h < N => Len(b) < Len(Encode(w[h + 1]))
        /\ protocol = "none" => b = <<>>
    BY <1>2, <1>7 DEF Flowing
  <2>2. F \in Seq(Byte)
    BY <1>2, <2>1, FlowSteps
  <2>3. got = SubSeq(u, 1, h)
    <3>1. SubSeq(u, 1, h) = SubSeq(w, 1, h)
      BY <1>2, <2>1 DEF u
    <3> QED
      BY <2>1, <3>1
  <2>4. Flow(u, Len(u)) = Then(Flow(u, h), Then(b, Then(x, e)))
    <3>1. b \in Seq(Byte) /\ x \in Seq(Byte) /\ e \in Seq(Byte)
      BY <1>4, <2>1
    <3> HIDE DEF F, e
    <3>2. Then(b, x) \in Seq(Byte)
      BY <3>1, ThenIs
    <3>3. Then(Then(F, Then(b, x)), e) = Then(F, Then(Then(b, x), e))
      BY <2>2, <3>1, <3>2, ThenThen
    <3>4. Then(Then(b, x), e) = Then(b, Then(x, e))
      BY <3>1, ThenThen
    <3>5. Flow(u, h) = F
      BY <1>5, <2>1 DEF F
    <3> QED
      BY <1>3, <1>6, <2>1, <3>3, <3>4, <3>5
  <2>5. ASSUME h < Len(u) PROVE Len(b) < Len(Encode(u[h + 1]))
    <3>1. CASE h < N
      BY <1>3, <2>1, <3>1
    <3>2. CASE h = N
      <4>1. Then(b, x) \in Seq(Byte)
        BY <2>1, ThenIs
      <4>2. Then(b, x) = <<>>
        BY <1>2, <2>1, <3>2, <4>1, NothingLeft
      <4>3. b = <<>>
        BY <2>1, <4>2, ConcatEqualIffEmpty DEF Then
      <4> QED
        BY <1>3, <1>4, <3>2, <4>3
    <3> QED
      BY <1>3, <2>1, <3>1, <3>2
  <2>6. Then(x, e) \in Seq(Byte)
    BY <1>4, <2>1, ThenIs
  <2>7. h \in 0 .. Len(u)
    BY <1>3, <2>1
  <2> QED
    BY <2>1, <2>3, <2>4, <2>5, <2>6, <2>7 DEF Flowing
<1> QED
  BY <1>1, <1>3, <1>7, FramingStays

\* A read hands on what is complete in it and keeps the rest.
LEMMA ReadKeeps ==
    ASSUME FrameInv, NEW n \in 1 .. Len(wire), Read(n)
    PROVE  FrameInv'
<1> DEFINE w == written
           a == SubSeq(wire, 1, n)
           y == SubSeq(wire, n + 1, Len(wire))
           all == Then(buffer, a)
           found == Extract(all)
<1>1. /\ protocol' = protocol /\ written' = w /\ crashed' = crashed /\ protocol # "none"
      /\ got' = Then(got, Decode(found.frames)) /\ buffer' = found.kept /\ wire' = y
  BY DEF Read, Then
<1>2. w \in Seq(Message) /\ (Readable /\ ~crashed => Flowing(w, wire, buffer, got))
  BY DEF FrameInv
<1>3. ASSUME Readable, ~crashed PROVE Flowing(w, y, found.kept, Then(got, Decode(found.frames)))
  <2> DEFINE N == Len(w)
             h == Len(got)
  <2>1. /\ buffer \in Seq(Byte) /\ wire \in Seq(Byte) /\ h \in 0 .. N /\ got = SubSeq(w, 1, h)
        /\ Flow(w, N) = Then(Flow(w, h), Then(buffer, wire))
    BY <1>2, <1>3 DEF Flowing
  <2>2. a \in Seq(Byte) /\ y \in Seq(Byte) /\ Then(a, y) = wire
    <3>1. n \in Nat /\ Len(wire) \in Nat /\ n <= Len(wire) /\ \A i \in 1 .. Len(wire) : wire[i] \in Byte
      BY <2>1
    <3>2. a \in Seq(Byte) /\ y \in Seq(Byte)
      BY <2>1, <3>1
    <3>3. 1 \in 1 .. (Len(wire) + 1) /\ n \in (1 - 1) .. Len(wire) /\ Len(wire) \in n .. Len(wire)
      BY <3>1
    <3>4. SubSeq(wire, 1, n) \o SubSeq(wire, n + 1, Len(wire)) = SubSeq(wire, 1, Len(wire))
      BY <2>1, <3>3, ConcatAdjacentSubSeq
    <3>5. SubSeq(wire, 1, Len(wire)) = wire
      BY <2>1, SubSeqFull
    <3> QED
      BY <3>2, <3>4, <3>5 DEF Then
  <2> HIDE DEF a, y
  <2>3. all \in Seq(Byte) /\ Then(all, y) = Then(buffer, wire)
    BY <2>1, <2>2, ThenIs, ThenThen
  <2>4. PICK j \in h .. N : Handed(found, w, y, h, j)
    <3> HIDE DEF all
    <3>1. Flow(w, Len(w)) = Then(Flow(w, h), Then(all, y))
      BY <2>1, <2>3
    <3> QED
      BY <1>1, <1>2, <1>3, <2>1, <2>2, <2>3, <3>1, ExtractFinds
  <2> HIDE DEF found
  <2> DEFINE l == j - h
             v == [i \in 1 .. l |-> w[h + i]]
  <2>5. h \in Nat /\ j \in Nat /\ N \in Nat /\ l \in Nat /\ j \in 0 .. N
    BY <1>2, <2>1, <2>4
  <2>6. Decode(found.frames) = v
    <3>1. v \in [1 .. l -> Message]
      BY <1>2, <2>1, <2>4, <2>5
    <3>2. \A i \in 1 .. l : v[i] = w[h + i]
      OBVIOUS
    <3>3. found.frames = [i \in 1 .. l |-> Encode(w[h + i])]
      BY <2>4 DEF Handed
    <3> HIDE DEF v, l
    <3>4. found.frames = [i \in 1 .. l |-> Encode(v[i])]
      BY <3>2, <3>3
    <3> QED
      BY <1>1, <1>3, <2>5, <3>1, <3>4, DecodeIs
  <2>7. Then(got, v) = SubSeq(w, 1, j) /\ Len(SubSeq(w, 1, j)) = j
    <3>1. j \in h .. Len(w)
      BY <2>4
    <3>3. w \in Seq(Message) /\ h \in 0 .. Len(w) /\ got = Firsts(w, h)
      BY <1>2, <2>1 DEF Firsts
    <3>4. v \in Seq(Message) /\ Len(v) = j - h /\ \A i \in 1 .. (j - h) : v[i] = w[h + i]
      <4>1. \A i \in 1 .. l : h + i \in 1 .. N /\ w[h + i] \in Message
        BY <1>2, <2>4, <2>5
      <4> HIDE DEF w, h
      <4> QED
        BY <2>5, <4>1
    <3>5. j \in 0 .. Len(w)
      BY <2>5
    <3> HIDE DEF w, h, v
    <3>6. Then(Firsts(w, h), v) = Firsts(w, j)
      BY <3>1, <3>3, <3>4, OneMore
    <3>7. Len(Firsts(w, j)) = j
      BY <3>3, <3>5, FirstsAre
    <3> QED
      BY <3>3, <3>6, <3>7 DEF Firsts
  <2> DEFINE g == Then(got, Decode(found.frames))
  <2>8. g = SubSeq(w, 1, j) /\ Len(g) = j
    BY <2>6, <2>7
  <2> HIDE DEF g, v, l
  <2>9. /\ found.kept \in Seq(Byte) /\ Flow(w, N) = Then(Flow(w, j), Then(found.kept, y))
        /\ j < N => Len(found.kept) < Len(Encode(w[j + 1]))
    BY <2>4 DEF Handed
  <2>10. Flowing(w, y, found.kept, g)
    BY <1>1, <2>2, <2>5, <2>8, <2>9 DEF Flowing
  <2> QED
    BY <2>10 DEF g
<1> QED
  <2> HIDE DEF found, y
  <2> QED
    BY <1>1, <1>2, <1>3, FramingStays


\* The chat server takes one object, or throws.
LEMMA ReadWholeKeeps ==
    ASSUME FrameInv, NEW n \in 1 .. Len(wire), ReadWhole(n)
    PROVE  FrameInv'
<1> DEFINE w == written
           a == SubSeq(wire, 1, n)
           y == SubSeq(wire, n + 1, Len(wire))
           N == Len(w)
           h == Len(got)
           F == Flow(w, h)
           t == CHOOSE o \in Parse(a) : TRUE
<1>1. /\ protocol' = protocol /\ written' = w /\ protocol = "none" /\ ~crashed
      /\ crashed' = (Parse(a) = {}) /\ wire' = y /\ buffer' = buffer
      /\ got' = IF Parse(a) = {} THEN got ELSE Append(got, t)
  BY DEF ReadWhole
<1>2. w \in Seq(Message) /\ (Readable /\ ~crashed => Flowing(w, wire, buffer, got))
  BY DEF FrameInv
<1>3. ASSUME ~crashed' PROVE Flowing(w, y, buffer, Append(got, t))
  <2>1. /\ buffer = <<>> /\ wire \in Seq(Byte) /\ h \in 0 .. N /\ got = SubSeq(w, 1, h)
        /\ Flow(w, N) = Then(F, Then(buffer, wire))
    BY <1>1, <1>2 DEF Flowing, Readable
  <2>2. a \in Seq(Byte) /\ y \in Seq(Byte) /\ Then(a, y) = wire
    <3>1. n \in Nat /\ Len(wire) \in Nat /\ n <= Len(wire) /\ \A i \in 1 .. Len(wire) : wire[i] \in Byte
      BY <2>1
    <3>2. a \in Seq(Byte) /\ y \in Seq(Byte)
      BY <2>1, <3>1
    <3>3. 1 \in 1 .. (Len(wire) + 1) /\ n \in (1 - 1) .. Len(wire) /\ Len(wire) \in n .. Len(wire)
      BY <3>1
    <3>4. SubSeq(wire, 1, n) \o SubSeq(wire, n + 1, Len(wire)) = SubSeq(wire, 1, Len(wire))
      BY <2>1, <3>3, ConcatAdjacentSubSeq
    <3>5. SubSeq(wire, 1, Len(wire)) = wire
      BY <2>1, SubSeqFull
    <3> QED
      BY <3>2, <3>4, <3>5 DEF Then
  <2>3. ~InFrames /\ Byte = Char /\ Message = Text
    BY <1>1 DEF InFrames, Byte, Message
  <2>4. t \in Text /\ Dump(t) = a
    BY <1>1, <1>3 DEF Parse
  <2> HIDE DEF t, a, y
  <2>5. t \in Seq(Char) /\ Text \subseteq Seq(Char)
    BY <2>4, FramingAssumption
  <2>6. Flow(w, N) = Then(F, wire) /\ F \in Seq(Byte)
    <3>1. Then(<<>>, wire) = wire
      BY <2>1 DEF Then
    <3>2. F \in Seq(Byte)
      BY <1>2, <2>1, FlowSteps
    <3> HIDE DEF F
    <3> QED
      BY <2>1, <3>1, <3>2
  <2>7. h < N
    <3>1. SUFFICES ASSUME h = N PROVE FALSE
      BY <1>2, <2>1
    <3>2. wire = <<>>
      BY <1>2, <2>1, <2>6, <3>1, NothingLeft
    <3> QED
      BY <3>2
  <2> DEFINE d == Dump(w[h + 1])
             k == h + 1
  <2>8. k \in 1 .. N /\ k \in 0 .. N /\ k - 1 = h /\ w[k] \in Text /\ h \in Nat /\ N \in Nat
    BY <1>2, <2>1, <2>3, <2>7
  <2>9. d \in Seq(Byte) /\ Encode(w[k]) = d
    <3>1. Encode(w[k]) = d /\ w[k] \in Message
      BY <2>3, <2>8 DEF Encode
    <3> QED
      BY <3>1, EncodeIs
  <2>10. Flow(w, k) = Then(F, d)
    BY <1>2, <2>8, <2>9, FlowSteps
  <2>11. PICK q \in Seq(Byte) : Flow(w, N) = Then(Flow(w, k), q)
    BY <1>2, <2>8, FlowSteps
  <2> HIDE DEF F, d
  <2>12. Then(d, q) = wire
    <3>1. Then(Then(F, d), q) = Then(F, Then(d, q)) /\ Then(d, q) \in Seq(Byte)
      BY <2>6, <2>9, <2>11, ThenIs, ThenThen
    <3>2. Then(F, Then(d, q)) = Then(F, wire)
      BY <2>6, <2>10, <2>11, <3>1
    <3> QED
      BY <2>1, <2>6, <3>1, <3>2, ConcatSimplifications DEF Then
  <2>13. t = w[k]
    <3>1. w[k] \in Seq(Char) /\ q \in Seq(Char) /\ y \in Seq(Char)
      BY <2>2, <2>3, <2>5, <2>8, <2>11
    <3>2. Then(Dump(t), y) = Then(Dump(w[k]), q)
      BY <2>2, <2>4, <2>12 DEF d
    <3> QED
      BY <2>5, <3>1, <3>2, DumpUnique
  <2>14. q = y
    <3>1. Then(d, q) = Then(d, y)
      BY <2>2, <2>4, <2>12, <2>13 DEF d
    <3> QED
      BY <2>2, <2>9, <2>11, <3>1, ConcatSimplifications DEF Then
  <2>15. Append(got, t) = SubSeq(w, 1, k) /\ Len(Append(got, t)) = k
    <3>1. got = Firsts(w, h)
      BY <2>1 DEF Firsts
    <3>2. w \in Seq(Message) /\ h \in 0 .. Len(w) /\ k \in 0 .. Len(w) /\ h \in Nat
      BY <1>2, <2>1, <2>8
    <3>3. /\ Firsts(w, h) \in Seq(Message) /\ Len(Firsts(w, h)) = h
          /\ \A i \in 1 .. h : Firsts(w, h)[i] = w[i]
      BY ONLY <3>2, FirstsAre
    <3>4. /\ Firsts(w, k) \in Seq(Message) /\ Len(Firsts(w, k)) = k
          /\ \A i \in 1 .. k : Firsts(w, k)[i] = w[i]
      BY ONLY <3>2, FirstsAre
    <3>5. got \in Seq(Message) /\ t \in Message /\ \A i \in 1 .. h : got[i] = w[i]
      BY <2>3, <2>4, <3>1, <3>3
    <3> DEFINE g == Append(got, t)
    <3>6. g \in Seq(Message) /\ Len(g) = k /\ (\A i \in 1 .. h : g[i] = got[i]) /\ g[k] = t
      BY <3>5
    <3> HIDE DEF g
    <3>7. \A i \in 1 .. k : g[i] = Firsts(w, k)[i]
      <4>1. \A i \in 1 .. k : i \in 1 .. h \/ i = k
        BY <3>2
      <4>2. k \in 1 .. k
        BY <3>2
      <4> HIDE DEF k
      <4> QED
        BY <2>13, <3>4, <3>5, <3>6, <4>1, <4>2
    <3>8. g = Firsts(w, k)
      BY <3>4, <3>6, <3>7, SeqEqual
    <3> QED
      BY <3>6, <3>8 DEF g, Firsts
  <2>16. Flow(w, N) = Then(Flow(w, k), Then(buffer, y))
    <3>1. Then(<<>>, y) = y
      BY <2>2 DEF Then
    <3> QED
      BY <2>1, <2>11, <2>14, <3>1
  <2>17. k < N => Len(buffer) < Len(Encode(w[k + 1]))
    <3>1. SUFFICES ASSUME k < N PROVE Len(buffer) < Len(Encode(w[k + 1]))
      OBVIOUS
    <3>2. w[k + 1] \in Message
      BY <1>2, <2>8, <3>1
    <3>3. Len(buffer) = 0
      BY <2>1
    <3> QED
      BY <3>2, <3>3, EncodeIs
  <2> DEFINE g == Append(got, t)
  <2>18. g = SubSeq(w, 1, k) /\ Len(g) = k
    BY <2>15
  <2> HIDE DEF g, k
  <2>19. buffer \in Seq(Byte)
    BY <2>1
  <2>20. Flowing(w, y, buffer, g)
    BY <2>1, <2>2, <2>8, <2>16, <2>17, <2>18, <2>19 DEF Flowing
  <2> QED
    BY <2>20 DEF g
<1> QED
  <2> HIDE DEF a, y, t
  <2> QED
    BY <1>1, <1>2, <1>3, FramingStays

\* Before the first message nothing flows.
LEMMA InitFrames == Init => FrameInv
<1>1. SUFFICES ASSUME Init PROVE FrameInv
  OBVIOUS
<1>2. written = <<>> /\ wire = <<>> /\ buffer = <<>> /\ got = <<>>
  BY <1>1 DEF Init
<1>3. written \in Seq(Message) /\ Len(written) = 0 /\ Len(got) = 0
  BY <1>2
<1>4. Flow(written, 0) = <<>>
  BY <1>3, FlowSteps
<1>5. Then(<<>>, Then(<<>>, <<>>)) = <<>>
  BY DEF Then
<1>6. got = SubSeq(written, 1, 0)
  BY <1>2
<1>7. buffer \in Seq(Byte) /\ wire \in Seq(Byte)
  BY <1>2
<1>8. Flowing(written, wire, buffer, got)
  BY <1>2, <1>3, <1>4, <1>5, <1>6, <1>7 DEF Flowing
<1> QED
  BY <1>3, <1>8 DEF FrameInv

\* Whatever way a stream of messages is cut into reads (DataServer::onMessage,
\* PdServer::onMessage, RaftService::onMessage, extractJsonObjects of chat_client and
\* ChatServer::onMessage), the messages handed on are the first ones written, and the bytes
\* that follow them are in the reader's buffer and on the wire, less than one message of
\* them in the buffer.
THEOREM FrameInvariance == Spec => []FrameInv
<1>1. FrameInv /\ [Next]_vars => FrameInv'
  <2>1. SUFFICES ASSUME FrameInv, [Next]_vars PROVE FrameInv'
    OBVIOUS
  <2>2. ASSUME NEW m \in Message, Write(m) PROVE FrameInv'
    BY <2>1, <2>2, WriteKeeps
  <2>3. ASSUME NEW n \in 1 .. Len(wire), Read(n) PROVE FrameInv'
    BY <2>1, <2>3, ReadKeeps
  <2>4. ASSUME NEW n \in 1 .. Len(wire), ReadWhole(n) PROVE FrameInv'
    BY <2>1, <2>4, ReadWholeKeeps
  <2>5. CASE UNCHANGED vars
    BY <2>1, <2>5, FramingStays DEF vars, FrameInv
  <2> QED
    BY <2>1, <2>2, <2>3, <2>4, <2>5 DEF Next
<1> QED
  BY <1>1, InitFrames, PTL DEF Spec

\* The length-prefixed frames of the store, the requests to a chat server, and the objects
\* from it whose strings do not end in a backslash, arrive as they were written: what has
\* been handed on is exactly the messages whose last byte has come, in their order.
THEOREM FramesStayIntact == Spec => [](Readable => FramesIntact)
<1>1. FrameInv => (Readable => FramesIntact)
  <2>1. SUFFICES ASSUME FrameInv, Readable, ~crashed PROVE got = SubSeq(written, 1, Complete)
    BY DEF FramesIntact
  <2>2. Flowing(written, wire, buffer, got)
    BY <2>1 DEF FrameInv
  <2>3. got = SubSeq(written, 1, Len(got))
    BY <2>2 DEF Flowing
  <2>4. Complete = Len(got)
    BY <2>1, CompleteIs
  <2> QED
    BY <2>3, <2>4
<1> QED
  BY <1>1, FrameInvariance, PTL
=============================================================================
