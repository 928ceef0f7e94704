---------------------------- MODULE TransferProofs ----------------------------
(***************************************************************************)
(* Theorems about the data of a torrent: how its files tile it, what        *)
(* WriteData and ReadData move, and which bytes the requests for a piece    *)
(* cover.  The folds and the loop are recursive; what they compute follows  *)
(* by induction on a number, stated with the sets of the numbers for which  *)
(* a fact holds.                                                            *)
(***************************************************************************)
EXTENDS CodecProofs, FiniteSetTheorems

-------------------------------------------------------------------------------
(* Induction *)

\* A set of numbers has a least one.
LEMMA Least ==
  ASSUME NEW T \in SUBSET Nat, T # {}
  PROVE  \E x \in T : \A y \in T : x <= y
<1> DEFINE R == OpToRel(<, Nat)
<1>1. IsWellFoundedOn(R, Nat)
  BY NatLessThanWellFounded
<1>2. \A x \in Nat, y \in Nat : y < x => <<y, x>> \in R
  BY Zenon DEF OpToRel
<1> HIDE DEF R
<1>3. \E x \in T : \A y \in T : ~ (<<y, x>> \in R)
  BY <1>1, WFMin
<1>4. PICK x \in T : \A y \in T : ~ (<<y, x>> \in R)
  BY <1>3
<1>5. \A y \in T : ~ (y < x)
  BY <1>2, <1>4
<1>6. QED
  BY <1>5

\* A fact about 0 that passes from each number to the next is one about all, up to n.
LEMMA UpTo ==
  ASSUME NEW n \in Nat, NEW Holds, 0 \in Holds,
         \A k \in 0 .. n - 1 : k \in Holds => k + 1 \in Holds
  PROVE  0 .. n \subseteq Holds
<1> DEFINE T == {k \in 0 .. n : k \notin Holds}
<1>1. SUFFICES ASSUME T # {} PROVE FALSE
  OBVIOUS
<1>2. T \in SUBSET Nat
  OBVIOUS
<1> HIDE DEF T
<1>3. PICK x \in T : \A y \in T : x <= y
  BY <1>1, <1>2, Least
<1>4. x \in 0 .. n /\ x \notin Holds /\ x # 0
  BY DEF T
<1>5. x - 1 \in 0 .. n - 1 /\ x - 1 \notin T /\ (x - 1) + 1 = x
  BY <1>3, <1>4
<1>6. x - 1 \in Holds
  BY <1>5 DEF T
<1>7. QED
  BY <1>4, <1>5, <1>6

\* The greatest of the numbers up to k.
LEMMA MaxIs ==
  ASSUME NEW S \in SUBSET Int, NEW k \in S, \A y \in S : y <= k
  PROVE  Max(S) = k
<1>1. \E x \in S : \A y \in S : x >= y
  OBVIOUS
<1>2. Max(S) \in S /\ \A y \in S : Max(S) >= y
  BY <1>1, Zenon DEF Max
<1>3. Max(S) >= k /\ Max(S) <= k /\ Max(S) \in Int /\ k \in Int
  BY <1>2
<1>4. QED
  BY <1>3

\* A set of numbers up to n has a greatest one.
LEMMA MaxIn ==
  ASSUME NEW n \in Nat, NEW S \in SUBSET (1 .. n), S # {}
  PROVE  Max(S) \in S /\ \A y \in S : y <= Max(S)
<1> DEFINE T == {n - x : x \in S}
<1>1. T \in SUBSET Nat /\ T # {}
  <2>1. \A x \in S : n - x \in Nat
    OBVIOUS
  <2>2. PICK x \in S : TRUE
    OBVIOUS
  <2>3. n - x \in T
    BY <2>2
  <2>4. QED
    BY <2>1, <2>3
<1> HIDE DEF T
<1>2. PICK t \in T : \A y \in T : t <= y
  BY <1>1, Least
<1>3. PICK k \in S : t = n - k
  BY DEF T
<1>4. \A y \in S : y <= k
  <2>1. ASSUME NEW y \in S
        PROVE  y <= k
    <3>1. n - y \in T
      BY DEF T
    <3>2. n - k <= n - y
      BY <1>2, <1>3, <3>1
    <3>3. QED
      BY <3>2
  <2>2. QED
    BY <2>1
<1>5. S \in SUBSET Int /\ k \in S
  OBVIOUS
<1>6. Max(S) = k
  BY <1>4, <1>5, MaxIs
<1>7. QED
  BY <1>4, <1>6

\* How a fold goes over the first numbers: the last of them comes last.
LEMMA LastOf ==
  ASSUME NEW n \in Nat, NEW k \in 1 .. n
  PROVE  /\ 1 .. k \in SUBSET (1 .. n) /\ 1 .. k # {} /\ Max(1 .. k) = k
         /\ (1 .. k) \ {k} = 1 .. k - 1
<1>1. 1 .. k \in SUBSET Int /\ k \in 1 .. k /\ \A y \in 1 .. k : y <= k
  OBVIOUS
<1>2. Max(1 .. k) = k
  BY <1>1, MaxIs
<1>3. QED
  BY <1>2

\* What a fold over sets of numbers computes for a set, given what it does with one
\* number.
FoldsTo(f, S, base, G) ==
  f[S] = IF S = {} THEN base ELSE G[<<f[S \ {Max(S)}], Max(S)>>]

\* A fold over sets of numbers has a result: the recursion ends.
LEMMA FoldExists ==
  ASSUME NEW n \in Nat, NEW D, NEW base \in D, NEW G \in [D \X (1 .. n) -> D]
  PROVE  \E f \in [SUBSET (1 .. n) -> D] : \A S \in SUBSET (1 .. n) : FoldsTo(f, S, base, G)
<1> DEFINE Good(f, m) == \A S \in SUBSET (1 .. m) : FoldsTo(f, S, base, G)
           Holds == {m \in 0 .. n : \E f \in [SUBSET (1 .. m) -> D] : Good(f, m)}
<1>1. 0 \in Holds
  <2> DEFINE f == [S \in SUBSET (1 .. 0) |-> base]
  <2>1. 1 .. 0 = {} /\ SUBSET (1 .. 0) = {{}}
    OBVIOUS
  <2>2. f \in [SUBSET (1 .. 0) -> D] /\ f[{}] = base
    BY <2>1
  <2> HIDE DEF f
  <2>3. Good(f, 0)
    BY <2>1, <2>2 DEF FoldsTo
  <2>4. 0 \in 0 .. n
    OBVIOUS
  <2> HIDE DEF Good
  <2>5. QED
    BY <2>2, <2>3, <2>4
<1>2. ASSUME NEW m \in 0 .. n - 1, m \in Holds
      PROVE  m + 1 \in Holds
  <2>1. PICK f \in [SUBSET (1 .. m) -> D] : Good(f, m)
    BY <1>2
  <2> DEFINE h == [S \in SUBSET (1 .. m + 1) |->
                     IF m + 1 \in S THEN G[<<f[S \ {m + 1}], m + 1>>] ELSE f[S]]
  <2>2. \A S \in SUBSET (1 .. m + 1) : S \ {m + 1} \in SUBSET (1 .. m)
    OBVIOUS
  <2>3. ASSUME NEW S \in SUBSET (1 .. m + 1), m + 1 \notin S
        PROVE  S \in SUBSET (1 .. m)
    BY <2>3
  <2>4. h \in [SUBSET (1 .. m + 1) -> D]
    <3>1. ASSUME NEW S \in SUBSET (1 .. m + 1)
          PROVE  (IF m + 1 \in S THEN G[<<f[S \ {m + 1}], m + 1>>] ELSE f[S]) \in D
      <4>1. m + 1 \in 1 .. n
        OBVIOUS
      <4>2. CASE m + 1 \in S
        <5>1. f[S \ {m + 1}] \in D
          BY <2>2
        <5>2. G[<<f[S \ {m + 1}], m + 1>>] \in D
          BY <4>1, <5>1
        <5>3. QED
          BY <4>2, <5>2
      <4>3. CASE m + 1 \notin S
        BY <2>3, <4>3
      <4>4. QED
        BY <4>2, <4>3
    <3>2. QED
      BY <3>1
  <2>5. /\ \A S \in SUBSET (1 .. m + 1) : m + 1 \in S => h[S] = G[<<f[S \ {m + 1}], m + 1>>]
        /\ \A S \in SUBSET (1 .. m + 1) : m + 1 \notin S => h[S] = f[S]
    OBVIOUS
  <2> HIDE DEF h
  <2>6. ASSUME NEW S \in SUBSET (1 .. m + 1)
        PROVE  FoldsTo(h, S, base, G)
    <3>1. CASE m + 1 \in S
      <4>1. S \in SUBSET Int /\ \A y \in S : y <= m + 1
        OBVIOUS
      <4>2. Max(S) = m + 1
        BY <3>1, <4>1, MaxIs
      <4> DEFINE R == S \ {m + 1}
      <4>3. R \in SUBSET (1 .. m + 1) /\ m + 1 \notin R
        OBVIOUS
      <4>4. h[R] = f[R] /\ h[S] = G[<<f[R], m + 1>>]
        BY <2>5, <3>1, <4>3
      <4>5. S # {}
        BY <3>1
      <4> HIDE DEF R
      <4>6. h[S] = G[<<h[R], m + 1>>]
        BY <4>4
      <4>7. QED
        BY <4>2, <4>5, <4>6 DEF FoldsTo, R
    <3>2. CASE m + 1 \notin S /\ S # {}
      <4>1. S \in SUBSET (1 .. m) /\ m \in Nat
        BY <2>3, <3>2
      <4>2. Max(S) \in S
        BY <3>2, <4>1, MaxIn
      <4> DEFINE R == S \ {Max(S)}
      <4>3. R \in SUBSET (1 .. m + 1) /\ m + 1 \notin R
        BY <3>2
      <4>4. h[R] = f[R] /\ h[S] = f[S]
        BY <2>5, <3>2, <4>3
      <4>5. f[S] = G[<<f[R], Max(S)>>]
        BY <2>1, <3>2, <4>1 DEF FoldsTo
      <4> HIDE DEF R
      <4>6. h[S] = G[<<h[R], Max(S)>>]
        BY <4>4, <4>5
      <4>7. QED
        BY <3>2, <4>6 DEF FoldsTo, R
    <3>3. CASE S = {}
      <4>1. S \in SUBSET (1 .. m)
        BY <3>3
      <4>2. f[S] = base
        BY <2>1, <3>3, <4>1 DEF FoldsTo
      <4>3. h[S] = f[S]
        BY <2>5, <3>3
      <4>4. QED
        BY <3>3, <4>2, <4>3 DEF FoldsTo
    <3>4. QED
      BY <3>1, <3>2, <3>3
  <2>7. Good(h, m + 1)
    BY <2>6
  <2> HIDE DEF Good
  <2>8. QED
    BY <2>4, <2>7
<1> HIDE DEF Good
<1>3. 0 .. n \subseteq Holds
  <2> HIDE DEF Holds
  <2>1. QED
    BY <1>1, <1>2, UpTo
<1>4. \E f \in [SUBSET (1 .. n) -> D] : Good(f, n)
  <2>1. n \in 0 .. n
    OBVIOUS
  <2>2. QED
    BY <1>3, <2>1
<1>5. QED
  BY <1>4 DEF Good
\* c is a fold as far as its results are in D.
FoldsIn(c, n, D, base, G) ==
  /\ c[{}] = base
  /\ \A S \in SUBSET (1 .. n) :
       S # {} /\ c[S \ {Max(S)}] \in D => c[S] = G[<<c[S \ {Max(S)}], Max(S)>>]

\* g has the results of a fold for the first numbers, one after the other.
Chain(g, n, D, base, G) ==
  g \in [0 .. n -> D] /\ g[0] = base /\ \A k \in 1 .. n : g[k] = G[<<g[k - 1], k>>]

\* c gives the last of them.
HasChain(c, n, D, base, G) == \E g : Chain(g, n, D, base, G) /\ g[n] = c[1 .. n]

\* A fold has such results.
LEMMA FoldChain ==
  ASSUME NEW n \in Nat, NEW D, NEW base \in D, NEW G \in [D \X (1 .. n) -> D],
         NEW c, FoldsIn(c, n, D, base, G)
  PROVE  HasChain(c, n, D, base, G)
<1> DEFINE Holds == {k \in 0 .. n : c[1 .. k] \in D}
           g == [k \in 0 .. n |-> c[1 .. k]]
<1>1. 1 .. 0 = {} /\ 0 \in 0 .. n /\ n \in 0 .. n
  OBVIOUS
<1>2. ASSUME NEW k \in 1 .. n, c[1 .. k - 1] \in D
      PROVE  c[1 .. k] = G[<<c[1 .. k - 1], k>>]
  <2> DEFINE S == 1 .. k
  <2>1. S \in SUBSET (1 .. n) /\ S # {} /\ Max(S) = k /\ S \ {k} = 1 .. k - 1
    BY LastOf
  <2> HIDE DEF S
  <2>2. c[S] = G[<<c[S \ {Max(S)}], Max(S)>>]
    BY <1>2, <2>1 DEF FoldsIn
  <2>3. QED
    BY <2>1, <2>2 DEF S
<1>3. 0 \in Holds
  BY <1>1 DEF FoldsIn
<1>4. ASSUME NEW k \in 0 .. n - 1, k \in Holds
      PROVE  k + 1 \in Holds
  <2>1. k + 1 \in 1 .. n /\ (k + 1) - 1 = k /\ k + 1 \in 0 .. n
    OBVIOUS
  <2>2. c[1 .. k + 1] = G[<<c[1 .. k], k + 1>>]
    BY <1>2, <1>4, <2>1
  <2>3. c[1 .. k + 1] \in D
    BY <1>4, <2>1, <2>2
  <2>4. QED
    BY <2>1, <2>3
<1>5. \A k \in 0 .. n : c[1 .. k] \in D
  <2> HIDE DEF Holds
  <2>1. 0 .. n \subseteq Holds
    BY <1>3, <1>4, UpTo
  <2>2. QED
    BY <2>1 DEF Holds
<1>6. g \in [0 .. n -> D] /\ g[0] = base /\ g[n] = c[1 .. n]
  BY <1>1, <1>5 DEF FoldsIn
<1>7. ASSUME NEW k \in 1 .. n
      PROVE  g[k] = G[<<g[k - 1], k>>]
  <2>1. k \in 0 .. n /\ k - 1 \in 0 .. n
    OBVIOUS
  <2>2. QED
    BY <1>2, <1>5, <2>1
<1> HIDE DEF g
<1>8. QED
  BY <1>6, <1>7 DEF Chain, HasChain

-------------------------------------------------------------------------------
(* Sums *)

\* P[k] is the sum of the first k numbers of seq.
Sums(P, seq) ==
  /\ P \in [0 .. Len(seq) -> Nat] /\ P[0] = 0
  /\ \A k \in 1 .. Len(seq) : P[k] = P[k - 1] + seq[k]

\* The totals of the beginnings of a sequence lead to its total.
LEMMA TotalSums ==
  ASSUME NEW seq \in Seq(Nat)
  PROVE  \E P : Sums(P, seq) /\ Total(seq) = P[Len(seq)]
<1> DEFINE n == Len(seq)
           G == [p \in Nat \X (1 .. n) |-> p[1] + seq[p[2]]]
           Unfolds(f) == f = [S \in SUBSET (1 .. n) |->
                                IF S = {} THEN 0 ELSE f[S \ {Max(S)}] + seq[Max(S)]]
           c == CHOOSE f : Unfolds(f)
<1>1. n \in Nat /\ DOMAIN seq = 1 .. n /\ \A k \in 1 .. n : seq[k] \in Nat
  OBVIOUS
<1>2. Total(seq) = c[1 .. n]
  BY <1>1 DEF Total, FoldLeft, MapThenFoldSet
<1> HIDE DEF n
<1>3. /\ G \in [Nat \X (1 .. n) -> Nat]
      /\ \A a \in Nat, k \in 1 .. n : G[<<a, k>>] = a + seq[k]
  BY <1>1
<1> HIDE DEF G
<1>4. \E f : Unfolds(f)
  <2>1. PICK f \in [SUBSET (1 .. n) -> Nat] : \A S \in SUBSET (1 .. n) : FoldsTo(f, S, 0, G)
    <3>1. 0 \in Nat
      OBVIOUS
    <3>2. QED
      BY <1>1, <1>3, <3>1, FoldExists
  <2>2. ASSUME NEW S \in SUBSET (1 .. n)
        PROVE  f[S] = IF S = {} THEN 0 ELSE f[S \ {Max(S)}] + seq[Max(S)]
    <3>1. CASE S = {}
      BY <2>1, <3>1 DEF FoldsTo
    <3>2. CASE S # {}
      <4>1. Max(S) \in 1 .. n
        BY <1>1, <3>2, MaxIn
      <4>2. f[S \ {Max(S)}] \in Nat
        BY <2>1
      <4>3. f[S] = G[<<f[S \ {Max(S)}], Max(S)>>]
        BY <2>1, <3>2 DEF FoldsTo
      <4>4. QED
        BY <1>3, <3>2, <4>1, <4>2, <4>3
    <3>3. QED
      BY <3>1, <3>2
  <2>3. Unfolds(f)
    BY <2>1, <2>2
  <2> HIDE DEF Unfolds
  <2>4. QED
    BY <2>3
<1>5. Unfolds(c)
  <2> HIDE DEF Unfolds
  <2>1. QED
    BY <1>4
<1> HIDE DEF c
<1>6. c[{}] = 0
  BY <1>5
<1>7. ASSUME NEW S \in SUBSET (1 .. n), S # {} /\ c[S \ {Max(S)}] \in Nat
      PROVE  c[S] = G[<<c[S \ {Max(S)}], Max(S)>>]
  <2>1. Max(S) \in 1 .. n
    BY <1>1, <1>7, MaxIn
  <2>2. c[S] = c[S \ {Max(S)}] + seq[Max(S)]
    BY <1>5, <1>7
  <2>3. QED
    BY <1>3, <1>7, <2>1, <2>2
<1>8. PICK P : Chain(P, n, Nat, 0, G) /\ P[n] = c[1 .. n]
  <2>1. FoldsIn(c, n, Nat, 0, G)
    BY <1>6, <1>7 DEF FoldsIn
  <2>2. n \in Nat /\ 0 \in Nat /\ G \in [Nat \X (1 .. n) -> Nat]
    BY <1>1, <1>3
  <2>3. HasChain(c, n, Nat, 0, G)
    BY <2>1, <2>2, FoldChain
  <2>4. QED
    BY <2>3 DEF HasChain
<1>9. ASSUME NEW k \in 1 .. n
      PROVE  P[k] = P[k - 1] + seq[k]
  <2>1. P[k - 1] \in Nat /\ P[k] = G[<<P[k - 1], k>>]
    BY <1>1, <1>8 DEF Chain
  <2>2. QED
    BY <1>3, <2>1
<1>10. Sums(P, seq)
  BY <1>8, <1>9 DEF Sums, n, Chain
<1>11. QED
  BY <1>2, <1>8, <1>10 DEF n

\* The sums of a sequence are one.
LEMMA TotalIs ==
  ASSUME NEW seq \in Seq(Nat), NEW P, Sums(P, seq)
  PROVE  Total(seq) = P[Len(seq)]
<1>1. PICK Q : Sums(Q, seq) /\ Total(seq) = Q[Len(seq)]
  BY TotalSums
<1> DEFINE n == Len(seq)
           Holds == {k \in 0 .. n : P[k] = Q[k]}
<1>2. n \in Nat
  OBVIOUS
<1>3. /\ P[0] = 0 /\ Q[0] = 0
      /\ \A k \in 1 .. n : P[k] = P[k - 1] + seq[k] /\ Q[k] = Q[k - 1] + seq[k]
  BY <1>1 DEF Sums
<1> HIDE DEF n
<1>4. 0 \in Holds
  BY <1>2, <1>3
<1>5. ASSUME NEW k \in 0 .. n - 1, k \in Holds
      PROVE  k + 1 \in Holds
  <2>1. k + 1 \in 1 .. n /\ (k + 1) - 1 = k /\ k + 1 \in 0 .. n
    BY <1>2
  <2>2. P[k + 1] = P[k] + seq[k + 1] /\ Q[k + 1] = Q[k] + seq[k + 1]
    BY <1>3, <2>1
  <2>3. QED
    BY <1>5, <2>1, <2>2
<1>6. n \in Holds
  <2> HIDE DEF Holds
  <2>1. 0 .. n \subseteq Holds
    BY <1>2, <1>4, <1>5, UpTo
  <2>2. QED
    BY <1>2, <2>1
<1>7. QED
  BY <1>1, <1>6 DEF n

\* The total of the first k numbers, written as a prefix or as a function.
LEMMA TotalPrefix ==
  ASSUME NEW seq \in Seq(Nat), NEW P, Sums(P, seq), NEW k \in 0 .. Len(seq)
  PROVE  Total(SubSeq(seq, 1, k)) = P[k] /\ Total([j \in 1 .. k |-> seq[j]]) = P[k]
<1> DEFINE t == [j \in 1 .. k |-> seq[j]]
           Q == [j \in 0 .. k |-> P[j]]
<1>1. Len(seq) \in Nat /\ \A j \in 1 .. Len(seq) : seq[j] \in Nat
  OBVIOUS
<1>2. t \in Seq(Nat) /\ Len(t) = k /\ \A j \in 1 .. k : t[j] = seq[j]
  BY <1>1
<1>3. SubSeq(seq, 1, k) = t
  BY <1>1
<1>4. /\ P \in [0 .. Len(seq) -> Nat] /\ P[0] = 0
      /\ \A j \in 1 .. Len(seq) : P[j] = P[j - 1] + seq[j]
  BY DEF Sums
<1> HIDE DEF t
<1>5. Q \in [0 .. k -> Nat] /\ Q[0] = 0 /\ Q[k] = P[k]
  <2>1. \A j \in 0 .. k : P[j] \in Nat
    BY <1>1, <1>4
  <2>2. 0 \in 0 .. k /\ k \in 0 .. k
    BY <1>1
  <2>3. QED
    BY <1>4, <2>1, <2>2
<1>6. ASSUME NEW j \in 1 .. k
      PROVE  Q[j] = Q[j - 1] + t[j]
  <2>1. j \in 0 .. k /\ j - 1 \in 0 .. k /\ j \in 1 .. Len(seq)
    BY <1>1
  <2>2. QED
    BY <1>2, <1>4, <2>1
<1> HIDE DEF Q
<1>7. Sums(Q, t)
  BY <1>2, <1>5, <1>6 DEF Sums
<1>8. Total(t) = P[k]
  BY <1>2, <1>5, <1>7, TotalIs
<1>9. QED
  BY <1>3, <1>8 DEF t

\* One more number adds to the total, and the sums before it stay.
LEMMA TotalAppend ==
  ASSUME NEW seq \in Seq(Nat), NEW x \in Nat
  PROVE  Total(Append(seq, x)) = Total(seq) + x
<1> DEFINE n == Len(seq)
           more == Append(seq, x)
<1>1. n \in Nat
  OBVIOUS
<1>2. more \in Seq(Nat) /\ Len(more) = n + 1 /\ more[n + 1] = x /\ \A j \in 1 .. n : more[j] = seq[j]
  BY <1>1
<1>3. SubSeq(more, 1, n) = seq
  <2>1. SubSeq(more, 1, n) \in Seq(Nat) /\ Len(SubSeq(more, 1, n)) = n /\ \A j \in 1 .. n : SubSeq(more, 1, n)[j] = more[j]
    BY <1>1, <1>2
  <2> DEFINE t == SubSeq(more, 1, n)
  <2>2. t \in Seq(Nat) /\ Len(t) = Len(seq) /\ \A j \in 1 .. Len(seq) : t[j] = seq[j]
    BY <1>2, <2>1
  <2> HIDE DEF t, more, n
  <2>3. t = seq
    BY <2>2, SeqEqual
  <2>4. QED
    BY <2>3 DEF t
<1> HIDE DEF more, n
<1>4. PICK P : Sums(P, more) /\ Total(more) = P[Len(more)]
  BY <1>2, TotalSums
<1>5. Total(seq) = P[n]
  <2>1. n \in 0 .. Len(more)
    BY <1>1, <1>2
  <2>2. QED
    BY <1>2, <1>3, <1>4, <2>1, TotalPrefix
<1>6. P[n + 1] = P[n] + x
  <2>1. n + 1 \in 1 .. Len(more) /\ (n + 1) - 1 = n
    BY <1>1, <1>2
  <2>2. QED
    BY <1>2, <1>4, <2>1 DEF Sums
<1>7. QED
  BY <1>2, <1>4, <1>5, <1>6 DEF more
-------------------------------------------------------------------------------
(* The files of a torrent *)

\* The sums grow.
LEMMA SumsGrow ==
  ASSUME NEW seq \in Seq(Nat), NEW P, Sums(P, seq), NEW j \in 0 .. Len(seq)
  PROVE  \A k \in 0 .. Len(seq) : j <= k => P[j] <= P[k]
<1> DEFINE n == Len(seq)
           Holds == {k \in 0 .. n : j <= k => P[j] <= P[k]}
<1>1. n \in Nat /\ j \in 0 .. n /\ \A k \in 1 .. n : seq[k] \in Nat
  OBVIOUS
<1>2. P \in [0 .. n -> Nat] /\ \A k \in 1 .. n : P[k] = P[k - 1] + seq[k]
  BY DEF Sums
<1> HIDE DEF n
<1>3. 0 \in Holds
  BY <1>1, <1>2
<1>4. ASSUME NEW k \in 0 .. n - 1, k \in Holds
      PROVE  k + 1 \in Holds
  <2>1. k + 1 \in 1 .. n /\ (k + 1) - 1 = k /\ k + 1 \in 0 .. n /\ k \in 0 .. n
    BY <1>1
  <2>2. P[k + 1] = P[k] + seq[k + 1] /\ seq[k + 1] \in Nat /\ P[k] \in Nat /\ P[j] \in Nat
    BY <1>1, <1>2, <2>1
  <2>3. P[k] <= P[k + 1]
    BY <2>2
  <2>4. CASE j <= k
    BY <1>4, <2>1, <2>2, <2>3, <2>4
  <2>5. CASE ~ (j <= k)
    <3>1. j <= k + 1 => j = k + 1
      BY <1>1, <2>5
    <3>2. P[k + 1] \in Nat
      BY <1>2, <2>1
    <3>3. QED
      BY <2>1, <3>1, <3>2
  <2>6. QED
    BY <2>4, <2>5
<1> HIDE DEF Holds
<1>5. 0 .. n \subseteq Holds
  BY <1>1, <1>3, <1>4, UpTo
<1>6. QED
  BY <1>5 DEF Holds, n

\* n files follow one another: file k has the bytes from P[k - 1] up to P[k].
LaidOut(files, P, n) ==
  /\ n \in Nat \ {0} /\ Len(files) = n /\ DOMAIN files = 1 .. n
  /\ P \in [0 .. n -> Nat] /\ P[0] = 0 /\ \A j, k \in 0 .. n : j <= k => P[j] <= P[k]
  /\ \A k \in 1 .. n : /\ files[k].index = P[k - 1] /\ files[k].index + files[k].length = P[k]
                       /\ files[k].length \in Nat /\ files[k].path = k

\* The files that GetFiles makes of their lengths follow one another, and together they
\* are what is left to download.
LEMMA FilesLaidOut ==
  ASSUME NEW lengths \in Seq(Nat) \ {<<>>}
  PROVE  \E P : /\ LaidOut(FilesOf(lengths), P, Len(lengths))
                /\ P[Len(lengths)] = Total(lengths)
                /\ P[Len(lengths)] = LeftOf(FilesOf(lengths))
                /\ \A k \in 1 .. Len(lengths) : FilesOf(lengths)[k].length = lengths[k]
<1> DEFINE n == Len(lengths)
           files == FilesOf(lengths)
<1>1. /\ n \in Nat \ {0} /\ lengths \in Seq(Nat) /\ \A k \in 1 .. n : lengths[k] \in Nat
      /\ lengths = [k \in 1 .. n |-> lengths[k]]
  OBVIOUS
<1>2. PICK P : Sums(P, lengths) /\ Total(lengths) = P[n]
  BY TotalSums
<1>3. P \in [0 .. n -> Nat] /\ P[0] = 0 /\ \A k \in 1 .. n : P[k] = P[k - 1] + lengths[k]
  BY <1>2 DEF Sums
<1>4. \A j, k \in 0 .. n : j <= k => P[j] <= P[k]
  BY <1>1, <1>2, SumsGrow
<1>5. files = [k \in 1 .. n |-> [index |-> Total(SubSeq(lengths, 1, k - 1)), length |-> lengths[k], path |-> k]]
  BY DEF FilesOf, Index
<1>6. \A k \in 1 .. n : Total(SubSeq(lengths, 1, k - 1)) = P[k - 1]
  <2>1. \A k \in 1 .. n : k - 1 \in 0 .. Len(lengths)
    OBVIOUS
  <2>2. QED
    BY <1>1, <1>2, <2>1, TotalPrefix
<1> HIDE DEF files, n
<1>7. /\ Len(files) = n /\ DOMAIN files = 1 .. n
      /\ \A k \in 1 .. n : files[k].index = P[k - 1] /\ files[k].length = lengths[k] /\ files[k].path = k
  <2>1. Len(files) = n /\ DOMAIN files = 1 .. n
    BY <1>1, <1>5
  <2>2. ASSUME NEW k \in 1 .. n
        PROVE  files[k].index = P[k - 1] /\ files[k].length = lengths[k] /\ files[k].path = k
    <3>1. files[k] = [index |-> P[k - 1], length |-> lengths[k], path |-> k]
      BY <1>5, <1>6
    <3>2. QED
      BY <3>1
  <2>3. QED
    BY <2>1, <2>2
<1>8. ASSUME NEW k \in 1 .. n
      PROVE  files[k].index + files[k].length = P[k] /\ files[k].length \in Nat
  BY <1>1, <1>3, <1>7
<1>9. LeftOf(files) = P[n]
  <2>1. LeftOf(files) = Total([k \in 1 .. n |-> files[k].length])
    BY <1>7 DEF LeftOf
  <2>2. [k \in 1 .. n |-> files[k].length] = [k \in 1 .. n |-> lengths[k]]
    BY <1>7
  <2>3. QED
    BY <1>1, <1>2, <2>1, <2>2
<1>10. LaidOut(files, P, n)
  BY <1>1, <1>3, <1>4, <1>7, <1>8 DEF LaidOut
<1>11. QED
  BY <1>2, <1>7, <1>9, <1>10 DEF files, n

\* Every byte of a torrent is in one of its files.
LEMMA OneFile ==
  ASSUME NEW files, NEW P, NEW n, LaidOut(files, P, n), NEW byte \in 0 .. P[n] - 1
  PROVE  \E k \in 1 .. n : \A j \in 1 .. n :
           (files[j].index <= byte /\ byte < files[j].index + files[j].length) <=> j = k
<1> DEFINE T == {k \in 1 .. n : byte < P[k]}
<1>1. n \in Nat \ {0} /\ P \in [0 .. n -> Nat] /\ P[0] = 0 /\ \A j, k \in 0 .. n : j <= k => P[j] <= P[k]
  BY DEF LaidOut
<1>2. \A j \in 1 .. n : files[j].index = P[j - 1] /\ files[j].index + files[j].length = P[j]
  BY DEF LaidOut
<1>3. T \in SUBSET Nat /\ T # {}
  <2>1. n \in 1 .. n /\ byte < P[n]
    BY <1>1
  <2>2. n \in T
    BY <2>1
  <2>3. QED
    BY <2>2
<1>4. PICK k \in T : \A j \in T : k <= j
  <2> HIDE DEF T
  <2>1. QED
    BY <1>3, Least
<1>5. k \in 1 .. n /\ byte < P[k]
  OBVIOUS
<1>6. \A j \in 1 .. n : j < k => ~ (byte < P[j])
  BY <1>4, <1>5
<1> HIDE DEF T
<1>7. ASSUME NEW j \in 1 .. n
      PROVE  P[j - 1] <= byte /\ byte < P[j] <=> j = k
  <2>1. j - 1 \in 0 .. n /\ j \in 0 .. n /\ k - 1 \in 0 .. n /\ k \in 0 .. n
    BY <1>1, <1>5
  <2>2. P[j - 1] \in Nat /\ P[j] \in Nat /\ P[k - 1] \in Nat /\ P[k] \in Nat /\ byte \in Nat
    BY <1>1, <2>1
  <2>3. CASE j < k
    BY <1>5, <1>6, <2>3
  <2>4. CASE j > k
    <3>1. k <= j - 1
      BY <1>5, <2>4
    <3>2. P[k] <= P[j - 1]
      BY <1>1, <2>1, <3>1
    <3>3. QED
      BY <1>5, <2>2, <2>4, <3>2
  <2>5. CASE j = k
    <3>1. P[k - 1] <= byte
      <4>1. CASE k = 1
        BY <1>1, <2>2, <4>1
      <4>2. CASE k # 1
        <5>1. k - 1 \in 1 .. n /\ k - 1 < k
          BY <1>1, <1>5, <4>2
        <5>2. QED
          BY <1>6, <2>2, <5>1
      <4>3. QED
        BY <4>1, <4>2
    <3>2. QED
      BY <1>5, <2>5, <3>1
  <2>6. QED
    BY <1>5, <2>3, <2>4, <2>5
<1>8. \A j \in 1 .. n : (files[j].index <= byte /\ byte < files[j].index + files[j].length) <=> j = k
  BY <1>2, <1>7
<1>9. QED
  BY <1>5, <1>8

\* The files of a torrent follow one another without a gap and without an overlap, and
\* together they are what is left to download.
THEOREM FilesAlwaysTile == Spec => []FilesTile
<1>1. ASSUME InputOK, input.kind \in {"write", "read"},
             NEW byte \in 0 .. LeftOf(FilesOf(input.lengths)) - 1
      PROVE  \E k \in DOMAIN FilesOf(input.lengths) : \A j \in DOMAIN FilesOf(input.lengths) :
               (/\ FilesOf(input.lengths)[j].index <= byte
                /\ byte < FilesOf(input.lengths)[j].index + FilesOf(input.lengths)[j].length) <=> j = k
  <2> DEFINE lengths == input.lengths
             files == FilesOf(lengths)
             n == Len(lengths)
  <2>1. lengths \in Seq(Nat) \ {<<>>}
    <3>1. PICK l \in Layouts : input \in WritesOf(l) \/ input \in ReadsOf(l)
      BY <1>1, InputKind
    <3>2. lengths = l
      BY <3>1 DEF WritesOf, ReadsOf
    <3>3. QED
      BY <3>2, CodecOK
  <2>2. PICK P : LaidOut(files, P, n) /\ P[n] = LeftOf(files)
    BY <2>1, FilesLaidOut
  <2>3. DOMAIN files = 1 .. n
    BY <2>2 DEF LaidOut
  <2> HIDE DEF files, n, lengths
  <2>4. byte \in 0 .. P[n] - 1
    BY <2>2 DEF files, lengths
  <2>5. \E k \in 1 .. n : \A j \in 1 .. n :
           (files[j].index <= byte /\ byte < files[j].index + files[j].length) <=> j = k
    BY <2>2, <2>4, OneFile
  <2>6. QED
    BY <2>3, <2>5 DEF files, lengths
<1>2. InputOK => FilesTile
  BY <1>1 DEF FilesTile
<1>3. QED
  BY <1>2, InputAlways, PTL
-------------------------------------------------------------------------------
(* Copying a block *)

\* A loop that copies a block of n bytes, of which it has copied off.
Moved == [path : Nat, pos : Int, from : Nat, count : Nat]
Copying(n) == [is : {"next", "done", "error", "panic"}, off : 0 .. n, done : Seq(Moved)]

\* Both loops start without a byte.
LEMMA StartIs ==
  ASSUME NEW n \in Nat
  PROVE  StartCopy \in Copying(n)
<1>1. <<>> \in Seq(Moved) /\ 0 \in 0 .. n
  OBVIOUS
<1>2. QED
  BY <1>1 DEF StartCopy, Copying

\* A piece of a file was moved, and the loop stands as is says.
Ended(s, file, pos, count, is) == [Copied(s, file, pos, count) EXCEPT !.is = is]

\* What that makes of s, in the copy of a block of n bytes.
MovedTo(t, n, s, file, pos, count, is) ==
  /\ t \in Copying(n) /\ t.is = is /\ t.off = s.off + count
  /\ t.done = Append(s.done, [path |-> file.path, pos |-> pos, from |-> s.off, count |-> count])

\* It is a state of the loop again.
LEMMA CopiedIs ==
  ASSUME NEW n \in Nat, NEW s \in Copying(n), NEW file, file.path \in Nat, NEW pos \in Int,
         NEW count \in Nat, s.off + count <= n, NEW is \in {"next", "done", "error", "panic"},
         NEW t, t = Ended(s, file, pos, count, is)
  PROVE  MovedTo(t, n, s, file, pos, count, is)
<1> DEFINE more == Append(s.done, [path |-> file.path, pos |-> pos, from |-> s.off, count |-> count])
<1>1. s.off \in 0 .. n /\ s.done \in Seq(Moved) /\ s = [is |-> s.is, off |-> s.off, done |-> s.done]
  BY DEF Copying
<1>2. more \in Seq(Moved)
  <2>1. [path |-> file.path, pos |-> pos, from |-> s.off, count |-> count] \in Moved
    BY <1>1 DEF Moved
  <2>2. QED
    BY <1>1, <2>1
<1>3. t = [is |-> is, off |-> s.off + count, done |-> more]
  <2> DEFINE c == Copied(s, file, pos, count)
  <2>1. c = [is |-> s.is, off |-> s.off + count, done |-> more]
    <3>1. c = [s EXCEPT !.off = s.off + count, !.done = more]
      BY DEF Copied
    <3> HIDE DEF c, more
    <3>2. QED
      BY <1>1, <3>1
  <2>2. t = [c EXCEPT !.is = is]
    BY DEF Ended
  <2> HIDE DEF c, more
  <2>3. QED
    BY <2>1, <2>2
<1> HIDE DEF more
<1>4. s.off + count \in 0 .. n
  BY <1>1
<1>5. t.is = is /\ t.off = s.off + count /\ t.done = more
  BY <1>3
<1>6. t \in Copying(n)
  <2>1. t \in [is : {"next", "done", "error", "panic"}, off : 0 .. n, done : Seq(Moved)]
    BY <1>2, <1>3, <1>4
  <2>2. QED
    BY <2>1 DEF Copying
<1>7. QED
  BY <1>5, <1>6 DEF more, MovedTo

\* A file that may be written or read.
FileIn(file) == file.index \in Nat /\ file.length \in Nat /\ file.path \in Nat

\* What one file of WriteData does to the state of the loop: nothing, the error of a fault,
\* a panic, or it takes the bytes up to the end of the file or of the block.
WrittenTo(t, s, file, faults, at, n) ==
  LET amount == AmountToWrite(file, at - file.index, n)
  IN  /\ t \in Copying(n) /\ amount \in Int
      /\ \/ (s.is # "next" \/ at < file.index) /\ t = s
         \/ /\ s.is = "next" /\ file.index <= at
            /\ \/ faults[file.path] # "none" /\ t.is = "error" /\ t.off = s.off /\ t.done = s.done
               \/ /\ amount < 0 \/ s.off + amount > n
                  /\ t.is = "panic" /\ t.off = s.off /\ t.done = s.done
               \/ /\ amount \in Nat /\ s.off + amount <= n
                  /\ MovedTo(t, n, s, file, at - file.index, amount, IF s.off + amount >= n THEN "done" ELSE "next")

\* It does so.
LEMMA WriteFileIs ==
  ASSUME NEW n \in Nat, NEW at \in Nat, NEW s \in Copying(n), NEW file, FileIn(file), NEW faults
  PROVE  WrittenTo(WriteFile(s, file, faults, at, n), s, file, faults, at, n)
<1> DEFINE seekPos == at - file.index
           amount == AmountToWrite(file, seekPos, n)
           t == WriteFile(s, file, faults, at, n)
<1>1. /\ s.off \in 0 .. n /\ s.done \in Seq(Moved) /\ s.is \in {"next", "done", "error", "panic"}
      /\ s = [is |-> s.is, off |-> s.off, done |-> s.done]
  BY DEF Copying
<1>2. /\ seekPos \in Int /\ amount \in Int /\ file.index \in Nat /\ file.path \in Nat
  BY DEF FileIn, AmountToWrite, Smaller
<1>3. CASE s.is # "next" \/ at < file.index
  <2>1. t = s
    BY <1>3 DEF WriteFile, Skips
  <2>2. QED
    BY <1>2, <1>3, <2>1 DEF WrittenTo
<1>4. CASE s.is = "next" /\ ~ (at < file.index)
  <2>1. s.is = "next" /\ file.index <= at
    BY <1>2, <1>4
  <2> DEFINE fault == faults[file.path]
             Short == amount < 0 \/ s.off + amount > n
  <2>2. CASE fault = "open" \/ (fault = "write" /\ ~ Short)
    <3>1. t = [s EXCEPT !.is = "error"]
      BY <1>4, <2>2 DEF WriteFile, Skips
    <3>2. t \in Copying(n) /\ t.is = "error" /\ t.off = s.off /\ t.done = s.done
      BY <1>1, <3>1 DEF Copying
    <3>3. faults[file.path] # "none"
      BY <2>2
    <3> HIDE DEF t
    <3>4. QED
      BY <1>2, <2>1, <3>2, <3>3 DEF t, WrittenTo
  <2>3. CASE fault # "open" /\ Short
    <3>1. t = [s EXCEPT !.is = "panic"]
      BY <1>4, <2>3 DEF WriteFile, Skips
    <3>2. t \in Copying(n) /\ t.is = "panic" /\ t.off = s.off /\ t.done = s.done
      BY <1>1, <3>1 DEF Copying
    <3> HIDE DEF t
    <3>3. QED
      BY <1>2, <2>1, <2>3, <3>2 DEF t, WrittenTo
  <2>4. CASE fault # "open" /\ fault # "write" /\ ~ Short
    <3> DEFINE is == IF s.off + amount >= n THEN "done" ELSE "next"
    <3>1. t = Ended(s, file, seekPos, amount, is)
      BY <1>4, <2>4 DEF WriteFile, Skips, Ended
    <3>2. is \in {"next", "done", "error", "panic"} /\ amount \in Nat /\ s.off + amount <= n
      BY <1>1, <1>2, <2>4
    <3> HIDE DEF t, amount, seekPos
    <3>3. MovedTo(t, n, s, file, seekPos, amount, is)
      <4> HIDE DEF is
      <4>1. QED
        BY <1>2, <3>1, <3>2, CopiedIs
    <3>4. QED
      <4>1. t \in Copying(n)
        BY <3>3 DEF MovedTo
      <4>2. QED
        BY <1>2, <2>1, <3>2, <3>3, <4>1 DEF t, amount, seekPos, WrittenTo
  <2>5. QED
    BY <2>2, <2>3, <2>4
<1>5. QED
  BY <1>3, <1>4

\* What one file of ReadData does to the state of the loop: nothing, an error, or it takes
\* the bytes up to the end of the file or of the block; it takes none into a full block.
ReadFrom(t, s, file, disk, at, n) ==
  LET amount == Smaller(disk[file.path] - (at - file.index), n - s.off)
  IN  /\ t \in Copying(n)
      /\ \/ (s.is # "next" \/ at < file.index) /\ t = s
         \/ /\ s.is = "next" /\ file.index <= at
            /\ \/ /\ file.path \notin DOMAIN disk \/ (s.off < n /\ amount <= 0)
                  /\ t.is = "error" /\ t.off = s.off /\ t.done = s.done
               \/ /\ file.path \in DOMAIN disk /\ s.off = n
                  /\ MovedTo(t, n, s, file, at - file.index, 0, IF 0 >= n THEN "done" ELSE "next")
               \/ /\ file.path \in DOMAIN disk /\ amount \in Nat \ {0} /\ s.off + amount <= n
                  /\ MovedTo(t, n, s, file, at - file.index, amount, IF amount >= n THEN "done" ELSE "next")

\* It does so.
LEMMA ReadFileIs ==
  ASSUME NEW n \in Nat, NEW at \in Nat, NEW s \in Copying(n), NEW file, FileIn(file),
         NEW disk, \A k \in DOMAIN disk : disk[k] \in Nat
  PROVE  ReadFrom(ReadFile(s, file, disk, at, n), s, file, disk, at, n)
<1> DEFINE seekPos == at - file.index
           room == n - s.off
           amount == Smaller(disk[file.path] - seekPos, room)
           count == IF room = 0 THEN 0 ELSE amount
           t == ReadFile(s, file, disk, at, n)
<1>1. /\ s.off \in 0 .. n /\ s.done \in Seq(Moved) /\ s.is \in {"next", "done", "error", "panic"}
      /\ s = [is |-> s.is, off |-> s.off, done |-> s.done]
  BY DEF Copying
<1>2. seekPos \in Int /\ file.index \in Nat /\ file.path \in Nat /\ room \in Nat
  BY <1>1 DEF FileIn
<1>3. CASE s.is # "next" \/ at < file.index
  <2>1. t = s
    BY <1>3 DEF ReadFile, Skips
  <2>2. QED
    BY <1>2, <1>3, <2>1 DEF ReadFrom
<1>4. CASE s.is = "next" /\ ~ (at < file.index)
  <2> DEFINE Fails == file.path \notin DOMAIN disk \/ (room > 0 /\ amount <= 0)
             is == IF count >= n THEN "done" ELSE "next"
  <2>1. s.is = "next" /\ file.index <= at
    BY <1>2, <1>4
  <2>2. CASE Fails
    <3>1. t = [s EXCEPT !.is = "error"]
      BY <1>4, <2>2 DEF ReadFile, Skips
    <3>2. t \in Copying(n) /\ t.is = "error" /\ t.off = s.off /\ t.done = s.done
      BY <1>1, <3>1 DEF Copying
    <3>3. file.path \notin DOMAIN disk \/ (s.off < n /\ amount <= 0)
      BY <1>1, <2>2
    <3> HIDE DEF t
    <3>4. QED
      BY <2>1, <3>2, <3>3 DEF t, ReadFrom
  <2>3. CASE ~ Fails
    <3>1. t = Ended(s, file, seekPos, count, is)
      BY <1>4, <2>3 DEF ReadFile, Skips, Ended
    <3>2. file.path \in DOMAIN disk /\ disk[file.path] \in Nat
      BY <2>3
    <3>3. amount \in Int /\ amount <= room /\ (room = 0 \/ amount > 0)
      <4>1. amount \in Int /\ amount <= room
        BY <1>2, <3>2 DEF Smaller
      <4> HIDE DEF amount, room
      <4>2. QED
        BY <1>2, <2>3, <4>1
    <3>4. count \in Nat /\ s.off + count <= n /\ is \in {"next", "done", "error", "panic"}
      BY <1>1, <1>2, <3>2, <3>3
    <3> HIDE DEF t, seekPos, count, amount
    <3>5. MovedTo(t, n, s, file, seekPos, count, is)
      <4> HIDE DEF is
      <4>1. QED
        BY <1>2, <3>1, <3>4, CopiedIs
    <3>6. t \in Copying(n)
      BY <3>5 DEF MovedTo
    <3>7. CASE room = 0
      <4>1. count = 0 /\ s.off = n
        BY <1>1, <3>7 DEF count
      <4>2. MovedTo(t, n, s, file, seekPos, 0, IF 0 >= n THEN "done" ELSE "next")
        BY <3>5, <4>1
      <4>3. QED
        BY <2>1, <3>2, <3>6, <4>1, <4>2 DEF t, seekPos, ReadFrom
    <3>8. CASE room # 0
      <4>1. count = amount /\ amount \in Nat \ {0}
        BY <3>2, <3>3, <3>8 DEF count
      <4>2. MovedTo(t, n, s, file, seekPos, amount, IF amount >= n THEN "done" ELSE "next")
        BY <3>5, <4>1
      <4>3. s.off + amount <= n
        BY <3>4, <4>1
      <4>4. QED
        BY <2>1, <3>2, <3>6, <4>1, <4>2, <4>3 DEF t, seekPos, amount, ReadFrom
    <3>9. QED
      BY <3>7, <3>8
  <2>4. QED
    BY <2>2, <2>3
<1>5. QED
  BY <1>3, <1>4

\* The states of the loop of WriteData, one after each file.
Writes(g, files, m, faults, at, n) ==
  /\ g \in [0 .. m -> Copying(n)] /\ g[0] = StartCopy /\ g[m] = WriteData(files, faults, at, n)
  /\ \A k \in 1 .. m : g[k] = WriteFile(g[k - 1], files[k], faults, at, n)
HasWrites(files, m, faults, at, n) == \E g : Writes(g, files, m, faults, at, n)

\* The loop has them.
LEMMA WriteChain ==
  ASSUME NEW n \in Nat, NEW at \in Nat, NEW m \in Nat, NEW files, DOMAIN files = 1 .. m,
         \A k \in 1 .. m : FileIn(files[k]), NEW faults
  PROVE  HasWrites(files, m, faults, at, n)
<1> DEFINE D == Copying(n)
           Step(s, k) == WriteFile(s, files[k], faults, at, n)
           G == [p \in D \X (1 .. m) |-> Step(p[1], p[2])]
           Unfolds(f) == f = [S \in SUBSET (1 .. m) |->
                                IF S = {} THEN StartCopy ELSE Step(f[S \ {Max(S)}], Max(S))]
           c == CHOOSE f : Unfolds(f)
<1>1. WriteData(files, faults, at, n) = c[1 .. m]
  BY DEF WriteData, FoldLeft, MapThenFoldSet
<1>2. ASSUME NEW s \in D, NEW k \in 1 .. m
      PROVE  Step(s, k) \in D
  <2>1. FileIn(files[k])
    OBVIOUS
  <2>2. WrittenTo(WriteFile(s, files[k], faults, at, n), s, files[k], faults, at, n)
    BY <2>1, WriteFileIs
  <2>3. QED
    BY <2>2 DEF WrittenTo
<1>3. StartCopy \in D
  BY StartIs
<1> HIDE DEF D, Step
<1>4. /\ G \in [D \X (1 .. m) -> D]
      /\ \A s \in D, k \in 1 .. m : G[<<s, k>>] = Step(s, k)
  BY <1>2
<1> HIDE DEF G
<1>5. \E f : Unfolds(f)
  <2>1. PICK f \in [SUBSET (1 .. m) -> D] : \A S \in SUBSET (1 .. m) : FoldsTo(f, S, StartCopy, G)
    BY <1>3, <1>4, FoldExists
  <2>2. ASSUME NEW S \in SUBSET (1 .. m)
        PROVE  f[S] = IF S = {} THEN StartCopy ELSE Step(f[S \ {Max(S)}], Max(S))
    <3>1. CASE S = {}
      BY <2>1, <3>1 DEF FoldsTo
    <3>2. CASE S # {}
      <4>1. Max(S) \in 1 .. m
        BY <3>2, MaxIn
      <4>2. f[S \ {Max(S)}] \in D
        BY <2>1
      <4>3. f[S] = G[<<f[S \ {Max(S)}], Max(S)>>]
        BY <2>1, <3>2 DEF FoldsTo
      <4>4. QED
        BY <1>4, <3>2, <4>1, <4>2, <4>3
    <3>3. QED
      BY <3>1, <3>2
  <2>3. Unfolds(f)
    BY <2>1, <2>2
  <2> HIDE DEF Unfolds
  <2>4. QED
    BY <2>3
<1>6. Unfolds(c)
  <2> HIDE DEF Unfolds
  <2>1. QED
    BY <1>5
<1> HIDE DEF c
<1>7. FoldsIn(c, m, D, StartCopy, G)
  <2>1. c[{}] = StartCopy
    BY <1>6
  <2>2. ASSUME NEW S \in SUBSET (1 .. m), S # {} /\ c[S \ {Max(S)}] \in D
        PROVE  c[S] = G[<<c[S \ {Max(S)}], Max(S)>>]
    <3>1. Max(S) \in 1 .. m
      BY <2>2, MaxIn
    <3>2. c[S] = Step(c[S \ {Max(S)}], Max(S))
      BY <1>6, <2>2
    <3>3. QED
      BY <1>4, <2>2, <3>1, <3>2
  <2>3. QED
    BY <2>1, <2>2 DEF FoldsIn
<1>8. HasChain(c, m, D, StartCopy, G)
  BY <1>3, <1>4, <1>7, FoldChain
<1>9. PICK g : Chain(g, m, D, StartCopy, G) /\ g[m] = c[1 .. m]
  BY <1>8 DEF HasChain
<1>10. ASSUME NEW k \in 1 .. m
       PROVE  g[k] = Step(g[k - 1], k)
  <2>1. g[k - 1] \in D /\ g[k] = G[<<g[k - 1], k>>]
    BY <1>9 DEF Chain
  <2>2. QED
    BY <1>4, <2>1
<1>11. Writes(g, files, m, faults, at, n)
  BY <1>1, <1>9, <1>10 DEF Writes, Chain, D, Step
<1>12. QED
  BY <1>11 DEF HasWrites

\* The states of the loop of ReadData, one after each file.
Reads(g, files, m, disk, at, n) ==
  /\ g \in [0 .. m -> Copying(n)] /\ g[0] = StartCopy /\ g[m] = ReadData(files, disk, at, n)
  /\ \A k \in 1 .. m : g[k] = ReadFile(g[k - 1], files[k], disk, at, n)
HasReads(files, m, disk, at, n) == \E g : Reads(g, files, m, disk, at, n)

\* The loop has them.
LEMMA ReadChain ==
  ASSUME NEW n \in Nat, NEW at \in Nat, NEW m \in Nat, NEW files, DOMAIN files = 1 .. m,
         \A k \in 1 .. m : FileIn(files[k]), NEW disk, \A k \in DOMAIN disk : disk[k] \in Nat
  PROVE  HasReads(files, m, disk, at, n)
<1> DEFINE D == Copying(n)
           Step(s, k) == ReadFile(s, files[k], disk, at, n)
           G == [p \in D \X (1 .. m) |-> Step(p[1], p[2])]
           Unfolds(f) == f = [S \in SUBSET (1 .. m) |->
                                IF S = {} THEN StartCopy ELSE Step(f[S \ {Max(S)}], Max(S))]
           c == CHOOSE f : Unfolds(f)
<1>1. ReadData(files, disk, at, n) = c[1 .. m]
  BY DEF ReadData, FoldLeft, MapThenFoldSet
<1>2. ASSUME NEW s \in D, NEW k \in 1 .. m
      PROVE  Step(s, k) \in D
  <2>1. FileIn(files[k])
    OBVIOUS
  <2>2. ReadFrom(ReadFile(s, files[k], disk, at, n), s, files[k], disk, at, n)
    BY <2>1, ReadFileIs
  <2>3. QED
    BY <2>2 DEF ReadFrom
<1>3. StartCopy \in D
  BY StartIs
<1> HIDE DEF D, Step
<1>4. /\ G \in [D \X (1 .. m) -> D]
      /\ \A s \in D, k \in 1 .. m : G[<<s, k>>] = Step(s, k)
  BY <1>2
<1> HIDE DEF G
<1>5. \E f : Unfolds(f)
  <2>1. PICK f \in [SUBSET (1 .. m) -> D] : \A S \in SUBSET (1 .. m) : FoldsTo(f, S, StartCopy, G)
    BY <1>3, <1>4, FoldExists
  <2>2. ASSUME NEW S \in SUBSET (1 .. m)
        PROVE  f[S] = IF S = {} THEN StartCopy ELSE Step(f[S \ {Max(S)}], Max(S))
    <3>1. CASE S = {}
      BY <2>1, <3>1 DEF FoldsTo
    <3>2. CASE S # {}
      <4>1. Max(S) \in 1 .. m
        BY <3>2, MaxIn
      <4>2. f[S \ {Max(S)}] \in D
        BY <2>1
      <4>3. f[S] = G[<<f[S \ {Max(S)}], Max(S)>>]
        BY <2>1, <3>2 DEF FoldsTo
      <4>4. QED
        BY <1>4, <3>2, <4>1, <4>2, <4>3
    <3>3. QED
      BY <3>1, <3>2
  <2>3. Unfolds(f)
    BY <2>1, <2>2
  <2> HIDE DEF Unfolds
  <2>4. QED
    BY <2>3
<1>6. Unfolds(c)
  <2> HIDE DEF Unfolds
  <2>1. QED
    BY <1>5
<1> HIDE DEF c
<1>7. FoldsIn(c, m, D, StartCopy, G)
  <2>1. c[{}] = StartCopy
    BY <1>6
  <2>2. ASSUME NEW S \in SUBSET (1 .. m), S # {} /\ c[S \ {Max(S)}] \in D
        PROVE  c[S] = G[<<c[S \ {Max(S)}], Max(S)>>]
    <3>1. Max(S) \in 1 .. m
      BY <2>2, MaxIn
    <3>2. c[S] = Step(c[S \ {Max(S)}], Max(S))
      BY <1>6, <2>2
    <3>3. QED
      BY <1>4, <2>2, <3>1, <3>2
  <2>3. QED
    BY <2>1, <2>2 DEF FoldsIn
<1>8. HasChain(c, m, D, StartCopy, G)
  BY <1>3, <1>4, <1>7, FoldChain
<1>9. PICK g : Chain(g, m, D, StartCopy, G) /\ g[m] = c[1 .. m]
  BY <1>8 DEF HasChain
<1>10. ASSUME NEW k \in 1 .. m
       PROVE  g[k] = Step(g[k - 1], k)
  <2>1. g[k - 1] \in D /\ g[k] = G[<<g[k - 1], k>>]
    BY <1>9 DEF Chain
  <2>2. QED
    BY <1>4, <2>1
<1>11. Reads(g, files, m, disk, at, n)
  BY <1>1, <1>9, <1>10 DEF Reads, Chain, D, Step
<1>12. QED
  BY <1>11 DEF HasReads

\* A function on the first numbers is a sequence.
LEMMA IsSeq ==
  ASSUME NEW S, NEW n \in Nat, NEW f \in [1 .. n -> S]
  PROVE  f \in Seq(S) /\ Len(f) = n
OBVIOUS

\* The counts of what was moved.
Counts(done) == [j \in 1 .. Len(done) |-> done[j].count]

\* Every piece is in its place, and off counts their bytes.
Placed(s, files, at) == InPlace(s, files, at) /\ s.off = Total(Counts(s.done))

\* One more piece is in its place: it begins where the block does, or it is empty.
LEMMA PlacedMore ==
  ASSUME NEW n \in Nat, NEW at \in Nat, NEW m \in Nat, NEW files, NEW k \in 1 .. m,
         FileIn(files[k]), files[k].path = k, files[k].index <= at,
         NEW s \in Copying(n), Placed(s, files, at), s.off = 0,
         NEW count \in 0 .. n, count = 0 \/ at + count <= files[k].index + files[k].length,
         NEW is, NEW t, MovedTo(t, n, s, files[k], at - files[k].index, count, is)
  PROVE  Placed(t, files, at)
<1> DEFINE d == [path |-> files[k].path, pos |-> at - files[k].index, from |-> s.off, count |-> count]
           l == Len(s.done)
<1>1. /\ s.off = 0 /\ s.done \in Seq(Moved) /\ l \in Nat /\ files[k].index \in Nat /\ files[k].length \in Nat
      /\ t.off = s.off + count /\ t.done = Append(s.done, d)
      /\ \A j \in 1 .. l : s.done[j] \in Moved
  BY DEF Copying, FileIn, MovedTo
<1>2. /\ Len(t.done) = l + 1 /\ DOMAIN t.done = 1 .. l + 1 /\ t.done[l + 1] = d
      /\ \A j \in 1 .. l : t.done[j] = s.done[j]
  BY <1>1
<1> DEFINE cs == Counts(s.done)
<1>3. /\ cs \in Seq(Nat) /\ Len(cs) = l /\ \A j \in 1 .. l : cs[j] = s.done[j].count
  <2>1. \A j \in 1 .. l : s.done[j].count \in Nat
    BY <1>1 DEF Moved
  <2>2. cs = [j \in 1 .. l |-> s.done[j].count]
    BY DEF Counts
  <2> HIDE DEF cs, l
  <2>3. QED
    BY <1>1, <2>1, <2>2
<1> HIDE DEF l
<1>4. \A j \in 0 .. l : [i \in 1 .. j |-> t.done[i].count] = [i \in 1 .. j |-> s.done[i].count]
  BY <1>1, <1>2
<1>5. Counts(t.done) = Append(cs, count)
  <2> DEFINE ct == Counts(t.done)
  <2>1. ct = [j \in 1 .. l + 1 |-> t.done[j].count]
    BY <1>2 DEF Counts
  <2>2. d.count = count
    OBVIOUS
  <2>3. ct \in Seq(Nat) /\ Len(ct) = l + 1 /\ \A j \in 1 .. l + 1 : ct[j] = IF j = l + 1 THEN count ELSE cs[j]
    <3>1. \A j \in 1 .. l + 1 : t.done[j].count = IF j = l + 1 THEN count ELSE cs[j]
      BY <1>1, <1>2, <1>3, <2>2
    <3>2. \A j \in 1 .. l + 1 : t.done[j].count \in Nat
      <4>1. count \in Nat /\ \A j \in 1 .. l : cs[j] \in Nat
        BY <1>3, ElementsIn
      <4>2. \A j \in 1 .. l + 1 : j # l + 1 => j \in 1 .. l
        BY <1>1
      <4>3. QED
        BY <3>1, <4>1, <4>2
    <3> HIDE DEF ct
    <3>3. ct \in Seq(Nat) /\ Len(ct) = l + 1
      <4>1. ct \in [1 .. l + 1 -> Nat] /\ l + 1 \in Nat
        <5>1. [j \in 1 .. l + 1 |-> t.done[j].count] \in [1 .. l + 1 -> Nat]
          BY <3>2
        <5>2. l + 1 \in Nat
          BY <1>1
        <5>3. QED
          BY <2>1, <5>1, <5>2
      <4>2. QED
        BY <4>1, IsSeq
    <3>4. \A j \in 1 .. l + 1 : ct[j] = IF j = l + 1 THEN count ELSE cs[j]
      BY <2>1, <3>1
    <3>5. QED
      BY <3>3, <3>4
  <2>4. Append(cs, count) \in Seq(Nat) /\ Len(Append(cs, count)) = l + 1
        /\ \A j \in 1 .. l + 1 : Append(cs, count)[j] = IF j = l + 1 THEN count ELSE cs[j]
    BY <1>1, <1>3
  <2> DEFINE more == Append(cs, count)
  <2>5. more \in Seq(Nat) /\ Len(more) = l + 1 /\ \A j \in 1 .. l + 1 : more[j] = ct[j]
    BY <2>3, <2>4
  <2> HIDE DEF ct, more
  <2>6. ct = more
    BY <2>3, <2>5, SeqEqual
  <2>7. QED
    BY <2>6 DEF ct, more
<1>6. t.off = Total(Counts(t.done))
  <2>1. Total(Append(cs, count)) = Total(cs) + count
    BY <1>3, TotalAppend
  <2>2. s.off = Total(cs)
    BY DEF Placed
  <2>3. QED
    BY <1>1, <1>5, <2>1, <2>2
<1>7. ASSUME NEW j \in 1 .. l
      PROVE  /\ t.done[j].count = 0 \/ /\ 0 <= t.done[j].pos
                                       /\ t.done[j].pos + t.done[j].count <= files[t.done[j].path].length
                                       /\ files[t.done[j].path].index + t.done[j].pos = at + t.done[j].from
             /\ t.done[j].from = Total([i \in 1 .. j - 1 |-> t.done[i].count])
  <2>1. j \in DOMAIN s.done
    BY <1>1 DEF l
  <2>2. [i \in 1 .. j - 1 |-> t.done[i].count] = [i \in 1 .. j - 1 |-> s.done[i].count]
    <3>1. j - 1 \in 0 .. l
      BY <1>1
    <3>2. QED
      BY <1>4, <3>1
  <2>3. /\ s.done[j].count = 0 \/ /\ 0 <= s.done[j].pos
                                  /\ s.done[j].pos + s.done[j].count <= files[s.done[j].path].length
                                  /\ files[s.done[j].path].index + s.done[j].pos = at + s.done[j].from
        /\ s.done[j].from = Total([i \in 1 .. j - 1 |-> s.done[i].count])
    BY <2>1 DEF Placed, InPlace
  <2>4. t.done[j] = s.done[j]
    BY <1>2
  <2>5. QED
    BY <2>2, <2>3, <2>4
<1>8. /\ d.count = 0 \/ /\ 0 <= d.pos /\ d.pos + d.count <= files[d.path].length
                        /\ files[d.path].index + d.pos = at + d.from
      /\ d.from = Total([i \in 1 .. (l + 1) - 1 |-> t.done[i].count])
  <2>1. d.count = count /\ d.path = k /\ d.pos = at - files[k].index /\ d.from = s.off
    OBVIOUS
  <2>2. count = 0 \/ /\ 0 <= at - files[k].index
                     /\ (at - files[k].index) + count <= files[k].length
                     /\ files[k].index + (at - files[k].index) = at + s.off
    <3> DEFINE x == files[k].index
               y == files[k].length
    <3>1. x \in Nat /\ y \in Nat /\ x <= at /\ count \in Int /\ (count = 0 \/ at + count <= x + y)
      BY <1>1
    <3> HIDE DEF x, y
    <3>2. 0 <= at - x /\ x + (at - x) = at /\ (count = 0 \/ (at - x) + count <= y)
      BY <3>1
    <3>3. s.off = 0 /\ at + 0 = at
      OBVIOUS
    <3>4. QED
      BY <3>2, <3>3 DEF x, y
  <2>3. (l + 1) - 1 = l /\ l \in 0 .. l
    BY <1>1
  <2>4. [i \in 1 .. l |-> t.done[i].count] = cs
    BY <1>4, <2>3 DEF Counts, l
  <2>5. s.off = Total(cs)
    BY DEF Placed
  <2>6. QED
    BY <2>1, <2>2, <2>3, <2>4, <2>5
<1>9. InPlace(t, files, at)
  <2> HIDE DEF d, cs
  <2>1. \A j \in 1 .. l + 1 : j \in 1 .. l \/ j = l + 1
    BY <1>1
  <2>2. QED
    BY <1>2, <1>7, <1>8, <2>1 DEF InPlace
<1>10. QED
  BY <1>6, <1>9 DEF Placed

-------------------------------------------------------------------------------
(* WriteData *)

\* How the loop of WriteData stands after k files; P[1] is where the second file begins.
Wrote(s, k, files, P, faults, at, n) ==
  /\ s \in Copying(n) /\ Placed(s, files, at)
  /\ s.is = "error" => \E j \in 1 .. k : faults[j] # "none"
  /\ k = 0 => s.is = "next" /\ s.off = 0
  /\ k >= 1 =>
       /\ at + n <= P[1] /\ faults[1] = "none" => s.is = "done" /\ s.off = n
       /\ s.is = "next" => at < P[k] \/ (at = P[k] /\ s.off = 0)

\* Where a file begins and ends, and that it may be written or read.
LEMMA FileAt ==
  ASSUME NEW files, NEW P, NEW m, LaidOut(files, P, m), NEW k \in 0 .. m - 1
  PROVE  /\ k + 1 \in 1 .. m /\ k \in 0 .. m /\ P[k] \in Nat /\ P[k + 1] \in Nat /\ P[k] <= P[k + 1]
         /\ FileIn(files[k + 1]) /\ files[k + 1].path = k + 1 /\ files[k + 1].index = P[k]
         /\ files[k + 1].index + files[k + 1].length = P[k + 1] /\ files[k + 1].length = P[k + 1] - P[k]
         /\ P[0] = 0 /\ P[1] \in Nat /\ (k # 0 => P[1] <= P[k])
<1>1. /\ m \in Nat \ {0} /\ P \in [0 .. m -> Nat] /\ P[0] = 0 /\ \A i, j \in 0 .. m : i <= j => P[i] <= P[j]
  BY DEF LaidOut
<1>2. k + 1 \in 1 .. m /\ k \in 0 .. m /\ k + 1 \in 0 .. m /\ k <= k + 1 /\ 1 \in 0 .. m /\ (k # 0 => 1 <= k)
  BY <1>1
<1>3. P[k] \in Nat /\ P[k + 1] \in Nat /\ P[1] \in Nat /\ P[k] <= P[k + 1] /\ (k # 0 => P[1] <= P[k])
  BY <1>1, <1>2
<1> DEFINE file == files[k + 1]
<1>4. /\ file.index = P[(k + 1) - 1] /\ file.index + file.length = P[k + 1]
      /\ file.length \in Nat /\ file.path = k + 1
  BY <1>2 DEF LaidOut
<1>5. (k + 1) - 1 = k
  BY <1>1
<1>6. file.index = P[k] /\ file.length = P[k + 1] - P[k]
  <2> HIDE DEF file
  <2>1. file.index = P[k]
    BY <1>4, <1>5
  <2>2. QED
    BY <1>3, <1>4, <2>1
<1>7. FileIn(file)
  <2> HIDE DEF file
  <2>1. file.path \in Nat
    BY <1>2, <1>4
  <2>2. QED
    BY <1>3, <1>4, <1>6, <2>1 DEF FileIn
<1>8. QED
  BY <1>1, <1>2, <1>3, <1>4, <1>6, <1>7

\* Nothing is moved yet, and that is in place.
LEMMA StartPlaced ==
  ASSUME NEW files, NEW at
  PROVE  Placed(StartCopy, files, at)
<1>1. StartCopy.done = <<>> /\ StartCopy.off = 0
  BY DEF StartCopy
<1>2. Counts(<<>>) \in Seq(Nat) /\ Len(Counts(<<>>)) = 0
  <2>1. Len(<<>>) = 0 /\ 1 .. 0 = {} /\ 0 \in Nat
    OBVIOUS
  <2>2. Counts(<<>>) \in [1 .. 0 -> Nat]
    BY <2>1 DEF Counts
  <2>3. QED
    BY <2>1, <2>2, IsSeq
<1>3. Total(Counts(<<>>)) = 0
  <2>1. PICK P : Sums(P, Counts(<<>>)) /\ Total(Counts(<<>>)) = P[Len(Counts(<<>>))]
    BY <1>2, TotalSums
  <2>2. QED
    BY <1>2, <2>1 DEF Sums
<1>4. InPlace(StartCopy, files, at)
  <2>1. DOMAIN <<>> = {}
    OBVIOUS
  <2>2. QED
    BY <1>1, <2>1 DEF InPlace
<1>5. QED
  BY <1>1, <1>3, <1>4 DEF Placed

\* What the loop has moved stays where it is when only is changes.
LEMMA PlacedStill ==
  ASSUME NEW files, NEW at, NEW s, NEW t, Placed(s, files, at), t.off = s.off, t.done = s.done
  PROVE  Placed(t, files, at)
BY DEF Placed, InPlace

\* One more file.
LEMMA WroteMore ==
  ASSUME NEW files, NEW P, NEW m, LaidOut(files, P, m), NEW n \in Nat, NEW at \in Nat,
         NEW faults, NEW k \in 0 .. m - 1, NEW s, NEW t,
         Wrote(s, k, files, P, faults, at, n), WrittenTo(t, s, files[k + 1], faults, at, n)
  PROVE  Wrote(t, k + 1, files, P, faults, at, n)
<1> DEFINE file == files[k + 1]
           amount == AmountToWrite(file, at - file.index, n)
           end == IF s.off + amount >= n THEN "done" ELSE "next"
<1>1. /\ k + 1 \in 1 .. m /\ P[k] \in Nat /\ P[k + 1] \in Nat /\ P[k] <= P[k + 1] /\ P[0] = 0 /\ P[1] \in Nat
      /\ FileIn(file) /\ file.path = k + 1 /\ file.index = P[k] /\ file.index + file.length = P[k + 1]
      /\ file.length = P[k + 1] - P[k] /\ (k # 0 => P[1] <= P[k])
  BY FileAt
<1>2. m \in Nat /\ k \in Nat
  BY DEF LaidOut
<1>3. /\ t \in Copying(n) /\ amount \in Int
      /\ \/ (s.is # "next" \/ at < file.index) /\ t = s
         \/ /\ s.is = "next" /\ file.index <= at
            /\ \/ faults[file.path] # "none" /\ t.is = "error" /\ t.off = s.off /\ t.done = s.done
               \/ /\ amount < 0 \/ s.off + amount > n
                  /\ t.is = "panic" /\ t.off = s.off /\ t.done = s.done
               \/ /\ amount \in Nat /\ s.off + amount <= n
                  /\ MovedTo(t, n, s, file, at - file.index, amount, end)
  BY DEF WrittenTo
<1>4. /\ s \in Copying(n) /\ Placed(s, files, at)
      /\ s.is = "error" => \E j \in 1 .. k : faults[j] # "none"
      /\ k = 0 => s.is = "next" /\ s.off = 0
      /\ k >= 1 =>
           /\ at + n <= P[1] /\ faults[1] = "none" => s.is = "done" /\ s.off = n
           /\ s.is = "next" => at < P[k] \/ (at = P[k] /\ s.off = 0)
  BY DEF Wrote
<1>5. amount = Smaller(P[k + 1] - at, n)
  <2>1. amount = Smaller(file.length - (at - file.index), n)
    BY DEF AmountToWrite
  <2>2. file.length - (at - file.index) = P[k + 1] - at
    <3> HIDE DEF file, amount
    <3>1. QED
      BY <1>1
  <2>3. QED
    BY <2>1, <2>2
<1> HIDE DEF file, amount, end
<1>6. k + 1 >= 1 /\ k + 1 # 0
  BY <1>2
<1>7. CASE (s.is # "next" \/ at < file.index) /\ t = s
  <2>1. k >= 1
    BY <1>1, <1>2, <1>4, <1>7
  <2>2. t.is = "next" => at < P[k + 1]
    BY <1>1, <1>7
  <2>3. \A j \in 1 .. k : j \in 1 .. k + 1
    BY <1>2
  <2>4. QED
    BY <1>4, <1>6, <1>7, <2>1, <2>2, <2>3 DEF Wrote
<1>8. CASE s.is = "next" /\ file.index <= at
  <2>1. s.off = 0
    BY <1>1, <1>2, <1>4, <1>8
  <2> DEFINE Inside == at + n <= P[1] /\ faults[1] = "none"
  <2>2. Inside => k = 0 /\ amount = n /\ amount \in Nat /\ end = "done" /\ P[k + 1] = P[1] /\ file.path = 1
    <3>1. Inside => k = 0
      BY <1>2, <1>4, <1>8
    <3>2. Inside => at + n <= P[k + 1] /\ k + 1 = 1
      BY <3>1
    <3>3. Inside => amount = n
      BY <1>1, <1>5, <3>2 DEF Smaller
    <3>4. QED
      BY <1>1, <2>1, <3>1, <3>2, <3>3 DEF end
  <2>3. CASE faults[file.path] # "none" /\ t.is = "error" /\ t.off = s.off /\ t.done = s.done
    <3>1. Placed(t, files, at)
      BY <1>4, <2>3, PlacedStill
    <3>2. \E j \in 1 .. k + 1 : faults[j] # "none"
      BY <1>1, <1>2, <2>3
    <3>3. ~ Inside
      BY <2>2, <2>3
    <3>4. QED
      BY <1>3, <1>6, <2>3, <3>1, <3>2, <3>3 DEF Wrote
  <2>4. CASE (amount < 0 \/ s.off + amount > n) /\ t.is = "panic" /\ t.off = s.off /\ t.done = s.done
    <3>1. Placed(t, files, at)
      BY <1>4, <2>4, PlacedStill
    <3>2. ~ Inside
      BY <2>1, <2>2, <2>4
    <3>3. QED
      BY <1>3, <1>6, <2>4, <3>1, <3>2 DEF Wrote
  <2>5. CASE amount \in Nat /\ s.off + amount <= n /\ MovedTo(t, n, s, file, at - file.index, amount, end)
    <3>1. t.off = amount /\ t.is = end /\ amount <= n /\ end = IF amount >= n THEN "done" ELSE "next"
      BY <2>1, <2>5 DEF MovedTo, end
    <3>2. at + amount <= P[k + 1]
      BY <1>1, <1>5, <2>5 DEF Smaller
    <3>3. Placed(t, files, at)
      <4>1. amount \in 0 .. n /\ (amount = 0 \/ at + amount <= file.index + file.length)
        BY <1>1, <2>5, <3>1, <3>2
      <4>2. QED
        BY <1>1, <1>2, <1>4, <1>8, <2>1, <2>5, <4>1, PlacedMore DEF file
    <3>4. Inside => t.is = "done" /\ t.off = n
      BY <2>2, <3>1
    <3>5. t.is = "next" => at < P[k + 1] \/ (at = P[k + 1] /\ t.off = 0)
      BY <1>1, <1>5, <2>5, <3>1, <3>2 DEF Smaller
    <3>6. t.is # "error"
      BY <3>1
    <3>7. QED
      BY <1>3, <1>6, <3>3, <3>4, <3>5, <3>6 DEF Wrote
  <2>6. QED
    BY <1>3, <1>8, <1>1, <2>3, <2>4, <2>5
<1>9. QED
  BY <1>3, <1>7, <1>8

\* After all files.
LEMMA WroteAll ==
  ASSUME NEW files, NEW P, NEW m, LaidOut(files, P, m), NEW n \in Nat, NEW at \in Nat,
         NEW faults
  PROVE  Wrote(WriteData(files, faults, at, n), m, files, P, faults, at, n)
<1>1. m \in Nat /\ DOMAIN files = 1 .. m
  BY DEF LaidOut
<1>2. \A k \in 1 .. m : FileIn(files[k])
  <2>1. ASSUME NEW k \in 1 .. m
        PROVE  FileIn(files[k])
    <3>1. k - 1 \in 0 .. m - 1 /\ (k - 1) + 1 = k
      BY <1>1
    <3>2. FileIn(files[(k - 1) + 1])
      BY <3>1, FileAt
    <3>3. QED
      BY <3>1, <3>2
  <2>2. QED
    BY <2>1
<1>3. HasWrites(files, m, faults, at, n)
  BY <1>1, <1>2, WriteChain
<1>4. PICK g : Writes(g, files, m, faults, at, n)
  BY <1>3 DEF HasWrites
<1>5. /\ g \in [0 .. m -> Copying(n)] /\ g[0] = StartCopy /\ g[m] = WriteData(files, faults, at, n)
      /\ \A k \in 1 .. m : g[k] = WriteFile(g[k - 1], files[k], faults, at, n)
  BY <1>4 DEF Writes
<1> DEFINE Holds == {k \in 0 .. m : Wrote(g[k], k, files, P, faults, at, n)}
<1>6. 0 \in Holds
  <2>1. Wrote(StartCopy, 0, files, P, faults, at, n)
    <3>1. StartCopy \in Copying(n) /\ Placed(StartCopy, files, at)
      BY StartIs, StartPlaced
    <3>2. StartCopy.is = "next" /\ StartCopy.off = 0
      BY DEF StartCopy
    <3>3. ~ (0 >= 1)
      OBVIOUS
    <3>4. QED
      BY <3>1, <3>2, <3>3 DEF Wrote
  <2>2. QED
    BY <1>1, <1>5, <2>1
<1>7. ASSUME NEW k \in 0 .. m - 1, k \in Holds
      PROVE  k + 1 \in Holds
  <2>1. k + 1 \in 1 .. m /\ (k + 1) - 1 = k /\ k \in 0 .. m /\ k + 1 \in 0 .. m
    BY <1>1
  <2>2. g[k + 1] = WriteFile(g[k], files[k + 1], faults, at, n)
    BY <1>5, <2>1
  <2>3. FileIn(files[k + 1]) /\ g[k] \in Copying(n)
    BY <1>2, <1>5, <2>1
  <2>4. WrittenTo(g[k + 1], g[k], files[k + 1], faults, at, n)
    BY <2>2, <2>3, WriteFileIs
  <2>5. Wrote(g[k], k, files, P, faults, at, n)
    BY <1>7
  <2>6. Wrote(g[k + 1], k + 1, files, P, faults, at, n)
    BY <2>4, <2>5, WroteMore
  <2>7. QED
    BY <2>1, <2>6
<1>8. m \in Holds
  <2> HIDE DEF Holds
  <2>1. 0 .. m \subseteq Holds
    BY <1>1, <1>6, <1>7, UpTo
  <2>2. QED
    BY <1>1, <2>1
<1>9. QED
  BY <1>5, <1>8

\* The layout of the block under test, and where it is.
BlockIn(lengths, P) ==
  /\ LaidOut(FilesOf(lengths), P, Len(lengths))
  /\ input.lengths = lengths /\ input.at \in Nat /\ input.length \in Nat
  /\ input.kind = "read" =>
       \A k \in DOMAIN input.disk : /\ k \in 1 .. Len(lengths) /\ input.disk[k] \in Nat
                                    /\ input.disk[k] <= FilesOf(lengths)[k].length

\* A block is picked of a torrent whose files follow one another; a file on the disk is
\* no longer than it should be.
LEMMA BlockIs ==
  ASSUME InputOK, input.kind \in {"write", "read"}
  PROVE  \E lengths, P : BlockIn(lengths, P)
<1>1. PICK lengths \in Layouts :
        \/ input.kind = "write" /\ input \in WritesOf(lengths)
        \/ input.kind = "read" /\ input \in ReadsOf(lengths)
  BY InputKind
<1>2. /\ input.lengths = lengths /\ input.at \in 0 .. Total(lengths) /\ input.length \in BlockLengths
      /\ input.kind = "read" => input.disk \in Disks(lengths)
  <2>1. CASE input.kind = "write" /\ input \in WritesOf(lengths)
    BY <2>1 DEF WritesOf
  <2>2. CASE input.kind = "read" /\ input \in ReadsOf(lengths)
    BY <2>2 DEF ReadsOf
  <2>3. QED
    BY <1>1, <2>1, <2>2
<1>3. lengths \in Seq(Nat) \ {<<>>} /\ BlockLengths \subseteq Nat
  BY CodecOK
<1>4. PICK P : /\ LaidOut(FilesOf(lengths), P, Len(lengths)) /\ P[Len(lengths)] = Total(lengths)
               /\ \A k \in 1 .. Len(lengths) : FilesOf(lengths)[k].length = lengths[k]
  BY <1>3, FilesLaidOut
<1>5. Total(lengths) \in Nat
  <2>1. Len(lengths) \in 0 .. Len(lengths) /\ P \in [0 .. Len(lengths) -> Nat]
    BY <1>4 DEF LaidOut
  <2>2. QED
    BY <1>4, <2>1
<1>6. ASSUME input.kind = "read", NEW k \in DOMAIN input.disk
      PROVE  k \in 1 .. Len(lengths) /\ input.disk[k] \in Nat /\ input.disk[k] <= lengths[k]
  <2>1. /\ input.disk \in UNION {[paths -> 0 .. Total(lengths)] : paths \in SUBSET DOMAIN lengths}
        /\ \A j \in DOMAIN input.disk : input.disk[j] <= lengths[j]
    BY <1>2, <1>6 DEF Disks
  <2>2. PICK paths \in SUBSET DOMAIN lengths : input.disk \in [paths -> 0 .. Total(lengths)]
    BY <2>1
  <2>3. DOMAIN input.disk = paths /\ input.disk[k] \in 0 .. Total(lengths)
    BY <2>2
  <2>4. DOMAIN lengths = 1 .. Len(lengths)
    BY <1>3
  <2>5. QED
    BY <1>5, <2>1, <2>3, <2>4
<1>7. input.at \in Nat /\ input.length \in Nat
  <2> DEFINE all == Total(lengths)
  <2>1. all \in Nat /\ input.at \in 0 .. all
    BY <1>2, <1>5
  <2> HIDE DEF all
  <2>2. input.at \in Nat
    BY <2>1
  <2>3. QED
    BY <1>2, <1>3, <2>2
<1>8. input.kind = "read" =>
        \A k \in DOMAIN input.disk : /\ k \in 1 .. Len(lengths) /\ input.disk[k] \in Nat
                                     /\ input.disk[k] <= FilesOf(lengths)[k].length
  <2>1. ASSUME input.kind = "read", NEW k \in DOMAIN input.disk
        PROVE  /\ k \in 1 .. Len(lengths) /\ input.disk[k] \in Nat
               /\ input.disk[k] <= FilesOf(lengths)[k].length
    <3>1. k \in 1 .. Len(lengths) /\ input.disk[k] \in Nat /\ input.disk[k] <= lengths[k]
      BY <1>6, <2>1
    <3>2. FilesOf(lengths)[k].length = lengths[k]
      BY <1>4, <3>1
    <3>3. QED
      BY <3>1, <3>2
  <2>2. QED
    BY <2>1
<1>9. BlockIn(lengths, P)
  BY <1>2, <1>4, <1>7, <1>8 DEF BlockIn
<1>10. QED
  BY <1>9

\* Whatever fails, WriteData puts what it writes where it belongs, and it reports an error
\* only if a file has a fault.  A block inside a first file without one is written whole.
THEOREM WritesAlwaysInPlace == Spec => []WritesInPlace
<1> DEFINE files == FilesOf(input.lengths)
           s == WriteData(files, input.faults, input.at, input.length)
<1>1. ASSUME InputOK, input.kind = "write"
      PROVE  /\ InPlace(s, files, input.at)
             /\ s.is = "error" => \E k \in DOMAIN files : input.faults[k] # "none"
             /\ input.at + input.length <= files[1].length /\ input.faults[1] = "none" =>
                  s.is = "done" /\ s.off = input.length
  <2>1. PICK lengths, P : BlockIn(lengths, P)
    BY <1>1, BlockIs
  <2> DEFINE m == Len(lengths)
  <2>2. LaidOut(files, P, m) /\ input.at \in Nat /\ input.length \in Nat
    BY <2>1 DEF BlockIn
  <2> HIDE DEF files, m
  <2>3. Wrote(s, m, files, P, input.faults, input.at, input.length)
    BY <2>2, WroteAll
  <2>4. files[1].length = P[1] /\ m \in Nat \ {0} /\ DOMAIN files = 1 .. m
    <3>1. m \in Nat \ {0} /\ P[0] = 0 /\ DOMAIN files = 1 .. m
      BY <2>2 DEF LaidOut
    <3>2. 0 \in 0 .. m - 1 /\ 0 + 1 = 1
      BY <3>1
    <3>3. files[0 + 1].length = P[0 + 1] - P[0] /\ P[0 + 1] \in Nat
      BY <2>2, <3>2, FileAt
    <3>4. QED
      BY <3>1, <3>2, <3>3
  <2> HIDE DEF s
  <2>5. m >= 1
    BY <2>4
  <2>6. InPlace(s, files, input.at)
    BY <2>3 DEF Wrote, Placed
  <2>7. /\ s.is = "error" => \E k \in 1 .. m : input.faults[k] # "none"
        /\ input.at + input.length <= P[1] /\ input.faults[1] = "none" =>
             s.is = "done" /\ s.off = input.length
    BY <2>3, <2>5 DEF Wrote
  <2>8. QED
    BY <2>4, <2>6, <2>7
<1>2. InputOK => WritesInPlace
  BY <1>1 DEF WritesInPlace
<1>3. QED
  BY <1>2, InputAlways, PTL

-------------------------------------------------------------------------------
(* ReadData *)

\* How the loop of ReadData stands after k files; P[1] is where the second file begins.
\* Only the first file gives anything, and all of a block that lies inside it.
ReadSoFar(s, k, files, P, disk, at, n) ==
  /\ s \in Copying(n) /\ Placed(s, files, at)
  /\ k = 0 => s.is = "next" /\ s.off = 0
  /\ k >= 1 /\ n = 0 => s.is \in {"done", "error"}
  /\ k >= 1 /\ n # 0 /\ s.is # "error" =>
       at < P[1] /\ 1 \in DOMAIN disk /\ s.off = Smaller(n, disk[1] - at)
  /\ k >= 1 /\ 1 \in DOMAIN disk /\ at + n <= disk[1] => s.is = "done" /\ s.off = n

\* One more file.
LEMMA ReadMore ==
  ASSUME NEW files, NEW P, NEW m, LaidOut(files, P, m), NEW n \in Nat, NEW at \in Nat, NEW disk,
         \A j \in DOMAIN disk : disk[j] \in Nat /\ disk[j] <= files[j].length,
         NEW k \in 0 .. m - 1, NEW s, NEW t,
         ReadSoFar(s, k, files, P, disk, at, n), ReadFrom(t, s, files[k + 1], disk, at, n)
  PROVE  ReadSoFar(t, k + 1, files, P, disk, at, n)
<1> DEFINE file == files[k + 1]
           amount == Smaller(disk[file.path] - (at - file.index), n - s.off)
<1>1. /\ k + 1 \in 1 .. m /\ P[k] \in Nat /\ P[k + 1] \in Nat /\ P[k] <= P[k + 1] /\ P[0] = 0 /\ P[1] \in Nat
      /\ FileIn(file) /\ file.path = k + 1 /\ file.index = P[k] /\ file.index + file.length = P[k + 1]
      /\ file.length = P[k + 1] - P[k] /\ (k # 0 => P[1] <= P[k])
  BY FileAt
<1>2. m \in Nat /\ k \in Nat
  BY DEF LaidOut
<1>3. /\ t \in Copying(n)
      /\ \/ (s.is # "next" \/ at < file.index) /\ t = s
         \/ /\ s.is = "next" /\ file.index <= at
            /\ \/ /\ file.path \notin DOMAIN disk \/ (s.off < n /\ amount <= 0)
                  /\ t.is = "error" /\ t.off = s.off /\ t.done = s.done
               \/ /\ file.path \in DOMAIN disk /\ s.off = n
                  /\ MovedTo(t, n, s, file, at - file.index, 0, IF 0 >= n THEN "done" ELSE "next")
               \/ /\ file.path \in DOMAIN disk /\ amount \in Nat \ {0} /\ s.off + amount <= n
                  /\ MovedTo(t, n, s, file, at - file.index, amount, IF amount >= n THEN "done" ELSE "next")
  BY DEF ReadFrom
<1>4. /\ s \in Copying(n) /\ Placed(s, files, at)
      /\ k = 0 => s.is = "next" /\ s.off = 0
      /\ k >= 1 /\ n = 0 => s.is \in {"done", "error"}
      /\ k >= 1 /\ n # 0 /\ s.is # "error" =>
           at < P[1] /\ 1 \in DOMAIN disk /\ s.off = Smaller(n, disk[1] - at)
      /\ k >= 1 /\ 1 \in DOMAIN disk /\ at + n <= disk[1] => s.is = "done" /\ s.off = n
  BY DEF ReadSoFar
<1>5. file.path \in DOMAIN disk => disk[k + 1] \in Nat /\ disk[k + 1] <= P[k + 1] - P[k]
  BY <1>1
<1>6. amount = Smaller(disk[k + 1] - (at - P[k]), n - s.off)
  BY <1>1
<1> HIDE DEF file, amount
<1>7. k + 1 >= 1 /\ k + 1 # 0
  BY <1>2
<1>8. CASE (s.is # "next" \/ at < file.index) /\ t = s
  <2>1. k # 0
    BY <1>1, <1>4, <1>8
  <2>2. k >= 1
    BY <1>2, <2>1
  <2>3. QED
    BY <1>4, <1>7, <1>8, <2>2 DEF ReadSoFar
<1>9. CASE s.is = "next" /\ file.index <= at
  <2>1. k = 0
    <3>1. SUFFICES ASSUME k # 0 PROVE FALSE
      OBVIOUS
    <3>2. k >= 1 /\ P[1] <= P[k]
      BY <1>1, <1>2, <3>1
    <3>3. n # 0
      BY <1>4, <1>9, <3>2
    <3>4. at < P[1] /\ P[k] <= at
      BY <1>1, <1>4, <1>9, <3>2, <3>3
    <3>5. QED
      BY <1>1, <3>2, <3>4
  <2>2. s.off = 0 /\ P[k] = 0 /\ k + 1 = 1
    BY <1>1, <1>4, <2>1
  <2> DEFINE Inside == 1 \in DOMAIN disk /\ at + n <= disk[1]
  <2> HIDE DEF Inside
  <2>3. CASE /\ file.path \notin DOMAIN disk \/ (s.off < n /\ amount <= 0)
             /\ t.is = "error" /\ t.off = s.off /\ t.done = s.done
    <3>1. Placed(t, files, at)
      BY <1>4, <2>3, PlacedStill
    <3>2. ~ Inside
      <4>1. SUFFICES ASSUME Inside PROVE FALSE
        OBVIOUS
      <4>2. disk[k + 1] = disk[1] /\ disk[1] \in Nat /\ at + n <= disk[1] /\ file.path \in DOMAIN disk
        BY <1>1, <2>2, <4>1 DEF Inside
      <4>3. disk[k + 1] - (at - P[k]) = disk[1] - at /\ n - s.off = n
        BY <2>2, <4>2
      <4>4. amount = n
        BY <1>6, <4>2, <4>3 DEF Smaller
      <4>5. QED
        BY <2>2, <2>3, <4>2, <4>4
    <3>3. QED
      BY <1>3, <1>7, <2>3, <3>1, <3>2 DEF ReadSoFar, Inside
  <2>4. CASE /\ file.path \in DOMAIN disk /\ s.off = n
             /\ MovedTo(t, n, s, file, at - file.index, 0, IF 0 >= n THEN "done" ELSE "next")
    <3>1. n = 0 /\ t.is = "done"
      BY <2>2, <2>4 DEF MovedTo
    <3>2. Placed(t, files, at)
      <4>1. 0 \in 0 .. n /\ (0 = 0 \/ at + 0 <= file.index + file.length)
        OBVIOUS
      <4>2. QED
        BY <1>1, <1>2, <1>4, <1>9, <2>2, <2>4, <4>1, PlacedMore DEF file
    <3>3. t.off = n
      BY <2>2, <2>4, <3>1 DEF MovedTo
    <3>4. QED
      BY <1>3, <1>7, <3>1, <3>2, <3>3 DEF ReadSoFar
  <2>5. CASE /\ file.path \in DOMAIN disk /\ amount \in Nat \ {0} /\ s.off + amount <= n
             /\ MovedTo(t, n, s, file, at - file.index, amount, IF amount >= n THEN "done" ELSE "next")
    <3>1. t.off = amount /\ amount <= n /\ n # 0 /\ amount \in Nat
      BY <2>2, <2>5 DEF MovedTo
    <3>2. 1 \in DOMAIN disk /\ disk[1] \in Nat /\ disk[1] <= P[1]
      BY <1>1, <1>5, <2>2, <2>5
    <3>3. disk[k + 1] - (at - P[k]) = disk[1] - at /\ n - s.off = n
      BY <2>2, <3>2
    <3>4. amount = Smaller(n, disk[1] - at) /\ amount <= disk[1] - at
      BY <1>6, <3>2, <3>3 DEF Smaller
    <3>5. at < P[1] /\ at + amount <= P[1]
      BY <1>1, <2>5, <3>2, <3>4
    <3>6. Placed(t, files, at)
      <4>1. amount \in 0 .. n /\ (amount = 0 \/ at + amount <= file.index + file.length)
        BY <1>1, <2>2, <3>1, <3>5
      <4>2. QED
        BY <1>1, <1>2, <1>4, <1>9, <2>2, <2>5, <4>1, PlacedMore DEF file
    <3>7. Inside => t.is = "done" /\ t.off = n
      <4>1. Inside => amount = n
        BY <3>2, <3>4 DEF Inside, Smaller
      <4>2. t.is = IF amount >= n THEN "done" ELSE "next"
        BY <2>5 DEF MovedTo
      <4>3. QED
        BY <3>1, <4>1, <4>2
    <3>8. QED
      BY <1>3, <1>7, <3>1, <3>2, <3>4, <3>5, <3>6, <3>7 DEF ReadSoFar, Inside
  <2>6. QED
    BY <1>3, <1>9, <1>1, <2>3, <2>4, <2>5
<1>10. QED
  BY <1>3, <1>8, <1>9

\* After all files.
LEMMA ReadAll ==
  ASSUME NEW files, NEW P, NEW m, LaidOut(files, P, m), NEW n \in Nat, NEW at \in Nat, NEW disk,
         \A j \in DOMAIN disk : disk[j] \in Nat /\ disk[j] <= files[j].length
  PROVE  ReadSoFar(ReadData(files, disk, at, n), m, files, P, disk, at, n)
<1>1. m \in Nat /\ DOMAIN files = 1 .. m
  BY DEF LaidOut
<1>2. \A k \in 1 .. m : FileIn(files[k])
  <2>1. ASSUME NEW k \in 1 .. m
        PROVE  FileIn(files[k])
    <3>1. k - 1 \in 0 .. m - 1 /\ (k - 1) + 1 = k
      BY <1>1
    <3>2. FileIn(files[(k - 1) + 1])
      BY <3>1, FileAt
    <3>3. QED
      BY <3>1, <3>2
  <2>2. QED
    BY <2>1
<1>3. \A j \in DOMAIN disk : disk[j] \in Nat
  OBVIOUS
<1>4. HasReads(files, m, disk, at, n)
  BY <1>1, <1>2, <1>3, ReadChain
<1>5. PICK g : Reads(g, files, m, disk, at, n)
  BY <1>4 DEF HasReads
<1>6. /\ g \in [0 .. m -> Copying(n)] /\ g[0] = StartCopy /\ g[m] = ReadData(files, disk, at, n)
      /\ \A k \in 1 .. m : g[k] = ReadFile(g[k - 1], files[k], disk, at, n)
  BY <1>5 DEF Reads
<1> DEFINE Holds == {k \in 0 .. m : ReadSoFar(g[k], k, files, P, disk, at, n)}
<1>7. 0 \in Holds
  <2>1. ReadSoFar(StartCopy, 0, files, P, disk, at, n)
    <3>1. StartCopy \in Copying(n) /\ Placed(StartCopy, files, at)
      BY StartIs, StartPlaced
    <3>2. StartCopy.is = "next" /\ StartCopy.off = 0
      BY DEF StartCopy
    <3>3. ~ (0 >= 1)
      OBVIOUS
    <3>4. QED
      BY <3>1, <3>2, <3>3 DEF ReadSoFar
  <2>2. QED
    BY <1>1, <1>6, <2>1
<1>8. ASSUME NEW k \in 0 .. m - 1, k \in Holds
      PROVE  k + 1 \in Holds
  <2>1. k + 1 \in 1 .. m /\ (k + 1) - 1 = k /\ k \in 0 .. m /\ k + 1 \in 0 .. m
    BY <1>1
  <2>2. g[k + 1] = ReadFile(g[k], files[k + 1], disk, at, n)
    BY <1>6, <2>1
  <2>3. FileIn(files[k + 1]) /\ g[k] \in Copying(n)
    BY <1>2, <1>6, <2>1
  <2>4. ReadFrom(g[k + 1], g[k], files[k + 1], disk, at, n)
    BY <1>3, <2>2, <2>3, ReadFileIs
  <2>5. ReadSoFar(g[k], k, files, P, disk, at, n)
    BY <1>8
  <2>6. ReadSoFar(g[k + 1], k + 1, files, P, disk, at, n)
    BY <2>4, <2>5, ReadMore
  <2>7. QED
    BY <2>1, <2>6
<1>9. m \in Holds
  <2> HIDE DEF Holds
  <2>1. 0 .. m \subseteq Holds
    BY <1>1, <1>7, <1>8, UpTo
  <2>2. QED
    BY <1>1, <2>1
<1>10. QED
  BY <1>6, <1>9

\* ReadData takes from a file what belongs at that place of the block, and it reads a block
\* whole that lies inside what there is of the first file.
THEOREM ReadsAlwaysInPlace == Spec => []ReadsInPlace
<1> DEFINE files == FilesOf(input.lengths)
           s == ReadData(files, input.disk, input.at, input.length)
<1>1. ASSUME InputOK, input.kind = "read"
      PROVE  /\ InPlace(s, files, input.at)
             /\ 1 \in DOMAIN input.disk /\ input.at + input.length <= input.disk[1] =>
                  s.is = "done" /\ s.off = input.length
  <2>1. PICK lengths, P : BlockIn(lengths, P)
    BY <1>1, BlockIs
  <2> DEFINE m == Len(lengths)
  <2>2. /\ LaidOut(files, P, m) /\ input.at \in Nat /\ input.length \in Nat
        /\ \A k \in DOMAIN input.disk : input.disk[k] \in Nat /\ input.disk[k] <= files[k].length
    BY <1>1, <2>1 DEF BlockIn
  <2> HIDE DEF files, m
  <2>3. ReadSoFar(s, m, files, P, input.disk, input.at, input.length)
    BY <2>2, ReadAll
  <2>4. m \in Nat \ {0}
    BY <2>2 DEF LaidOut
  <2> HIDE DEF s
  <2>5. m >= 1
    BY <2>4
  <2>6. InPlace(s, files, input.at)
    BY <2>3 DEF ReadSoFar, Placed
  <2>7. 1 \in DOMAIN input.disk /\ input.at + input.length <= input.disk[1] =>
          s.is = "done" /\ s.off = input.length
    BY <2>3, <2>5 DEF ReadSoFar
  <2>8. QED
    BY <2>6, <2>7
<1>2. InputOK => ReadsInPlace
  BY <1>1 DEF ReadsInPlace
<1>3. QED
  BY <1>2, InputAlways, PTL

-------------------------------------------------------------------------------
(* The ranges of a piece *)

\* The length of a request and where the next one begins, when this one begins at b.
RequestAt(b, plen) == RequestLength32(b, plen, Width)
After(b, plen) == (b + RequestAt(b, plen)) % Width

\* The numbers that multiples of MaxRequestLength up to Width have.
Blocks == Width \div MaxRequestLength

\* Numbers below Width wrap to themselves, Width to 0, and all numbers below Width.
LEMMA Wraps ==
  ASSUME NEW width \in Nat \ {0}, NEW x \in Int
  PROVE  x % width \in 0 .. width - 1 /\ width % width = 0 /\ (x \in 0 .. width - 1 => x % width = x)
<1>1. x % width \in 0 .. width - 1
  OBVIOUS
<1>2. width % width = 0
  OBVIOUS
<1>3. x \in 0 .. width - 1 => x % width = x
  OBVIOUS
<1>4. QED
  BY <1>1, <1>2, <1>3

\* Multiples of a number: one more of them, and as many or more.
LEMMA Multiples ==
  ASSUME NEW j \in Nat, NEW k \in Nat, NEW by \in Nat
  PROVE  j * by \in Nat /\ (j + 1) * by = j * by + by /\ (j <= k => j * by <= k * by)
<1>1. j * by \in Nat
  OBVIOUS
<1>2. (j + 1) * by = j * by + by
  OBVIOUS
<1>3. j <= k => j * by <= k * by
  OBVIOUS
<1>4. QED
  BY <1>1, <1>2, <1>3

\* Width is a multiple of MaxRequestLength.
LEMMA BlocksFill ==
  /\ MaxRequestLength \in Nat \ {0} /\ Width \in Nat \ {0} /\ Blocks \in Nat \ {0}
  /\ Blocks * MaxRequestLength = Width /\ MaxRequestLength <= Width
<1>1. MaxRequestLength \in Nat \ {0} /\ Width \in Nat \ {0} /\ Width % MaxRequestLength = 0
  BY DataOK, CodecOK
<1>2. Width = MaxRequestLength * (Width \div MaxRequestLength) /\ Width \div MaxRequestLength \in Nat
  BY <1>1
<1>3. Blocks \in Nat /\ Blocks * MaxRequestLength = Width
  BY <1>1, <1>2 DEF Blocks
<1>4. Blocks # 0
  BY <1>1, <1>3
<1>5. 1 * MaxRequestLength <= Blocks * MaxRequestLength
  BY <1>1, <1>3, <1>4, Multiples
<1>6. QED
  BY <1>1, <1>3, <1>4, <1>5

\* A request begins below Width, and so does the next one.
LEMMA AfterIn ==
  ASSUME NEW plen \in Nat, NEW b \in 0 .. Width - 1
  PROVE  RequestAt(b, plen) \in Nat /\ After(b, plen) \in 0 .. Width - 1
<1>1. MaxRequestLength \in Nat /\ Width \in Nat \ {0}
  BY BlocksFill
<1>2. (plen - b) % Width \in Nat
  BY <1>1, Wraps
<1>3. RequestAt(b, plen) \in Nat
  BY <1>1, <1>2 DEF RequestAt, RequestLength32
<1>4. b + RequestAt(b, plen) \in Int
  BY <1>3
<1>5. QED
  BY <1>1, <1>3, <1>4, Wraps DEF After

\* Where the first n requests begin, and the one after them.
Starts(f, n, plen) ==
  /\ f \in [0 .. n -> 0 .. Width - 1] /\ f[0] = 0
  /\ \A k \in 1 .. n : f[k] = After(f[k - 1], plen)
HasStarts(n, plen) == \E f : Starts(f, n, plen)

\* They begin somewhere, however many there are.
LEMMA StartsExist ==
  ASSUME NEW plen \in Nat, NEW n \in Nat
  PROVE  HasStarts(n, plen)
<1> DEFINE Holds == {m \in 0 .. n : HasStarts(m, plen)}
<1>1. Width \in Nat \ {0}
  BY BlocksFill
<1>2. 0 \in Holds
  <2>1. Starts([k \in 0 .. 0 |-> 0], 0, plen)
    BY <1>1 DEF Starts
  <2>2. HasStarts(0, plen)
    BY <2>1 DEF HasStarts
  <2>3. QED
    BY <2>2
<1>3. ASSUME NEW m \in 0 .. n - 1, m \in Holds
      PROVE  m + 1 \in Holds
  <2>1. PICK f : Starts(f, m, plen)
    BY <1>3 DEF HasStarts
  <2>2. /\ f \in [0 .. m -> 0 .. Width - 1] /\ f[0] = 0
        /\ \A k \in 1 .. m : f[k] = After(f[k - 1], plen)
    BY <2>1 DEF Starts
  <2>3. m \in 0 .. m /\ f[m] \in 0 .. Width - 1
    BY <2>2
  <2>4. After(f[m], plen) \in 0 .. Width - 1
    BY <2>3, AfterIn
  <2> DEFINE g == [k \in 0 .. m + 1 |-> IF k = m + 1 THEN After(f[m], plen) ELSE f[k]]
  <2>5. g \in [0 .. m + 1 -> 0 .. Width - 1]
    BY <2>2, <2>4
  <2>6. /\ g[m + 1] = After(f[m], plen) /\ \A k \in 0 .. m : g[k] = f[k]
        /\ 0 \in 0 .. m /\ m + 1 - 1 = m
    OBVIOUS
  <2> HIDE DEF g
  <2>7. ASSUME NEW k \in 1 .. m + 1
        PROVE  g[k] = After(g[k - 1], plen)
    <3>1. CASE k = m + 1
      BY <2>3, <2>6, <3>1
    <3>2. CASE k # m + 1
      <4>1. k \in 1 .. m /\ k \in 0 .. m /\ k - 1 \in 0 .. m
        BY <3>2
      <4>2. QED
        BY <2>2, <2>6, <4>1
    <3>3. QED
      BY <3>1, <3>2
  <2>8. Starts(g, m + 1, plen)
    BY <2>2, <2>5, <2>6, <2>7 DEF Starts
  <2>9. HasStarts(m + 1, plen) /\ m + 1 \in 0 .. n
    BY <2>8 DEF HasStarts
  <2>10. QED
    BY <2>9
<1>4. n \in Holds
  <2> HIDE DEF Holds
  <2>1. 0 .. n \subseteq Holds
    BY <1>2, <1>3, UpTo
  <2>2. QED
    BY <2>1
<1>5. QED
  BY <1>4

\* The loop of downloadPiece begins its requests there.
LEMMA BeginsStart ==
  ASSUME NEW plen \in Nat
  PROVE  Starts(Begins(plen, Width), Blocks, plen)
<1> DEFINE Unfolds(f) == f = [k \in 0 .. Blocks |-> IF k = 0 THEN 0 ELSE After(f[k - 1], plen)]
           c == CHOOSE f : Unfolds(f)
<1>1. Begins(plen, Width) = c
  BY DEF Begins, After, RequestAt, Blocks
<1>2. Blocks \in Nat /\ Width \in Nat \ {0}
  BY BlocksFill
<1>3. \E f : Unfolds(f)
  <2>1. HasStarts(Blocks, plen)
    BY <1>2, StartsExist
  <2>2. PICK f : Starts(f, Blocks, plen)
    BY <2>1 DEF HasStarts
  <2>3. /\ f \in [0 .. Blocks -> 0 .. Width - 1] /\ f[0] = 0
        /\ \A k \in 1 .. Blocks : f[k] = After(f[k - 1], plen)
    BY <2>2 DEF Starts
  <2>4. \A k \in 0 .. Blocks : f[k] = IF k = 0 THEN 0 ELSE After(f[k - 1], plen)
    BY <1>2, <2>3
  <2>5. Unfolds(f)
    BY <2>3, <2>4
  <2> HIDE DEF Unfolds
  <2>6. QED
    BY <2>5
<1>4. Unfolds(c)
  <2> HIDE DEF Unfolds
  <2>1. QED
    BY <1>3
<1> HIDE DEF c
<1>5. c[0] = 0 /\ \A k \in 1 .. Blocks : c[k] = After(c[k - 1], plen)
  BY <1>2, <1>4
<1> DEFINE Holds == {k \in 0 .. Blocks : c[k] \in 0 .. Width - 1}
<1>6. 0 \in Holds
  BY <1>2, <1>5
<1>7. ASSUME NEW k \in 0 .. Blocks - 1, k \in Holds
      PROVE  k + 1 \in Holds
  <2>1. k + 1 \in 1 .. Blocks /\ k + 1 \in 0 .. Blocks /\ (k + 1) - 1 = k
    BY <1>2
  <2>2. c[k + 1] = After(c[k], plen)
    BY <1>5, <2>1
  <2>3. c[k] \in 0 .. Width - 1
    BY <1>7
  <2>4. QED
    BY <2>1, <2>2, <2>3, AfterIn
<1>8. \A k \in 0 .. Blocks : c[k] \in 0 .. Width - 1
  <2>1. 0 .. Blocks \subseteq Holds
    <3> HIDE DEF Holds
    <3>1. QED
      BY <1>2, <1>6, <1>7, UpTo
  <2>2. QED
    BY <2>1
<1>9. c \in [0 .. Blocks -> 0 .. Width - 1]
  BY <1>4, <1>8
<1>10. QED
  BY <1>1, <1>5, <1>9 DEF Starts

\* Below the limit a request ends at the end of the piece or MaxRequestLength further on.
LEMMA AfterShort ==
  ASSUME NEW plen \in Nat, plen <= Width - MaxRequestLength, NEW b \in Nat, b < plen
  PROVE  /\ RequestAt(b, plen) = Smaller(MaxRequestLength, plen - b)
         /\ After(b, plen) = Smaller(b + MaxRequestLength, plen)
<1>1. MaxRequestLength \in Nat \ {0} /\ Width \in Nat \ {0} /\ MaxRequestLength <= Width
  BY BlocksFill
<1>2. b + MaxRequestLength \in 0 .. Width - 1 /\ plen - b \in 0 .. Width - 1
  BY <1>1
<1>3. (b + MaxRequestLength) % Width = b + MaxRequestLength /\ (plen - b) % Width = plen - b
  <2>1. b + MaxRequestLength \in Int /\ plen - b \in Int
    BY <1>2
  <2>2. QED
    BY <1>1, <1>2, <2>1, Wraps
<1>4. RequestAt(b, plen) = IF b + MaxRequestLength > plen THEN plen - b ELSE MaxRequestLength
  BY <1>3 DEF RequestAt, RequestLength32
<1>5. RequestAt(b, plen) = Smaller(MaxRequestLength, plen - b)
  BY <1>1, <1>4 DEF Smaller
<1>6. b + RequestAt(b, plen) = Smaller(b + MaxRequestLength, plen)
  BY <1>1, <1>4 DEF Smaller
<1>7. plen \in 0 .. Width - 1
  BY <1>1
<1>8. Smaller(b + MaxRequestLength, plen) \in 0 .. Width - 1
  BY <1>1, <1>2, <1>7 DEF Smaller
<1> DEFINE x == Smaller(b + MaxRequestLength, plen)
<1>9. x % Width = x
  <2> HIDE DEF x
  <2>1. x \in 0 .. Width - 1
    BY <1>8 DEF x
  <2>2. x \in Int
    BY <2>1
  <2>3. QED
    BY <1>1, <2>1, <2>2, Wraps
<1>10. QED
  BY <1>5, <1>6, <1>9 DEF After

\* Beyond it, a request that begins at a multiple of MaxRequestLength has that length,
\* and the last of them is followed by the first.
LEMMA AfterLong ==
  ASSUME NEW plen \in Nat, plen > Width - MaxRequestLength, NEW q \in 0 .. Blocks - 1
  PROVE  After(q * MaxRequestLength, plen) =
           IF q + 1 = Blocks THEN 0 ELSE (q + 1) * MaxRequestLength
<1> DEFINE b == q * MaxRequestLength
           next == (q + 1) * MaxRequestLength
<1>1. /\ MaxRequestLength \in Nat \ {0} /\ Width \in Nat \ {0} /\ Blocks \in Nat \ {0}
      /\ Blocks * MaxRequestLength = Width
  BY BlocksFill
<1>2. q \in Nat /\ q + 1 \in Nat
  BY <1>1
<1>3. b \in Nat /\ next = b + MaxRequestLength /\ next \in Nat
  BY <1>1, <1>2, Multiples
<1>4. CASE q + 1 = Blocks
  <2>1. b + MaxRequestLength = Width /\ Width % Width = 0
    BY <1>1, <1>3, <1>4, Wraps
  <2> HIDE DEF b, next
  <2>2. RequestAt(b, plen) = MaxRequestLength
    <3>1. ~ (0 > plen)
      OBVIOUS
    <3>2. QED
      BY <2>1, <3>1 DEF RequestAt, RequestLength32
  <2>3. After(b, plen) = 0
    BY <2>1, <2>2 DEF After
  <2>4. QED
    BY <1>4, <2>3 DEF b
<1>5. CASE q + 1 # Blocks
  <2>1. (q + 1) + 1 <= Blocks /\ (q + 1) + 1 \in Nat
    BY <1>1, <1>5
  <2>2. ((q + 1) + 1) * MaxRequestLength = next + MaxRequestLength
    BY <1>1, <1>2, Multiples
  <2>3. ((q + 1) + 1) * MaxRequestLength <= Blocks * MaxRequestLength
    BY <1>1, <2>1, Multiples
  <2> HIDE DEF b, next
  <2>4. next + MaxRequestLength <= Width
    BY <1>1, <2>2, <2>3
  <2>5. next \in 0 .. Width - 1 /\ ~ (next > plen) /\ next \in Int
    BY <1>1, <1>3, <2>4
  <2>6. next % Width = next
    BY <1>1, <2>5, Wraps
  <2>7. RequestAt(b, plen) = MaxRequestLength
    BY <1>3, <2>5, <2>6 DEF RequestAt, RequestLength32
  <2>8. After(b, plen) = next
    BY <1>3, <2>6, <2>7 DEF After
  <2>9. QED
    BY <1>5, <2>8 DEF b, next
<1>6. QED
  BY <1>4, <1>5

\* So the loop does not end beyond the limit: no request begins after the piece.
LEMMA LongNeverEnds ==
  ASSUME NEW plen \in Nat, plen > Width - MaxRequestLength
  PROVE  Rounds(plen, Width) = {}
<1> DEFINE B == Begins(plen, Width)
<1>1. Starts(B, Blocks, plen)
  BY BeginsStart
<1>2. /\ MaxRequestLength \in Nat \ {0} /\ Width \in Nat \ {0} /\ Blocks \in Nat \ {0}
      /\ Blocks * MaxRequestLength = Width
  BY BlocksFill
<1> HIDE DEF B
<1>3. /\ DOMAIN B = 0 .. Blocks /\ B[0] = 0 /\ \A k \in 0 .. Blocks : B[k] \in 0 .. Width - 1
      /\ \A k \in 1 .. Blocks : B[k] = After(B[k - 1], plen)
  BY <1>1 DEF Starts
<1> DEFINE Holds == {k \in 0 .. Blocks : \E q \in 0 .. Blocks - 1 : B[k] = q * MaxRequestLength}
<1>4. 0 \in Holds
  <2>1. 0 \in 0 .. Blocks - 1 /\ 0 \in 0 .. Blocks /\ 0 * MaxRequestLength = 0
    BY <1>2
  <2>2. QED
    BY <1>3, <2>1
<1>5. ASSUME NEW k \in 0 .. Blocks - 1, k \in Holds
      PROVE  k + 1 \in Holds
  <2>1. PICK q \in 0 .. Blocks - 1 : B[k] = q * MaxRequestLength
    BY <1>5
  <2>2. k + 1 \in 1 .. Blocks /\ k + 1 \in 0 .. Blocks /\ (k + 1) - 1 = k
    BY <1>2
  <2>3. B[k + 1] = After(q * MaxRequestLength, plen)
    BY <1>3, <2>1, <2>2
  <2>4. B[k + 1] = IF q + 1 = Blocks THEN 0 ELSE (q + 1) * MaxRequestLength
    BY <2>3, AfterLong
  <2>5. CASE q + 1 = Blocks
    <3>1. 0 \in 0 .. Blocks - 1 /\ 0 * MaxRequestLength = 0
      BY <1>2
    <3>2. QED
      BY <2>2, <2>4, <2>5, <3>1
  <2>6. CASE q + 1 # Blocks
    <3>1. q + 1 \in 0 .. Blocks - 1
      BY <1>2, <2>6
    <3>2. QED
      BY <2>2, <2>4, <2>6, <3>1
  <2>7. QED
    BY <2>5, <2>6
<1>6. ASSUME NEW k \in DOMAIN B
      PROVE  ~ (B[k] >= plen)
  <2>1. 0 .. Blocks \subseteq Holds
    <3> HIDE DEF Holds
    <3>1. QED
      BY <1>2, <1>4, <1>5, UpTo
  <2>2. PICK q \in 0 .. Blocks - 1 : B[k] = q * MaxRequestLength
    BY <1>3, <2>1
  <2>3. q \in Nat /\ q + 1 \in Nat /\ q + 1 <= Blocks
    BY <1>2
  <2>4. (q + 1) * MaxRequestLength <= Blocks * MaxRequestLength
    BY <1>2, <2>3, Multiples
  <2>5. (q + 1) * MaxRequestLength = q * MaxRequestLength + MaxRequestLength
    BY <1>2, <2>3, Multiples
  <2> DEFINE b == B[k]
  <2>6. b + MaxRequestLength <= Width /\ b \in Nat
    <3>1. k \in 0 .. Blocks /\ b \in 0 .. Width - 1
      BY <1>3
    <3>2. b + MaxRequestLength <= Blocks * MaxRequestLength
      BY <2>2, <2>4, <2>5
    <3> HIDE DEF b
    <3>3. QED
      BY <1>2, <3>1, <3>2
  <2> HIDE DEF b
  <2>7. ~ (b >= plen)
    BY <1>2, <2>6
  <2>8. QED
    BY <2>7 DEF b
<1>7. {k \in DOMAIN B : B[k] >= plen} = {}
  BY <1>6
<1>8. QED
  BY <1>7 DEF Rounds, B

\* Where the requests of a piece that the loop covers begin: at the first last + 1 multiples
\* of MaxRequestLength, the last of them cut off at the end of the piece.
Evenly(B, plen, last) ==
  /\ last \in 0 .. Blocks /\ B[0] = 0 /\ B[last] = plen
  /\ \A k \in 0 .. last : B[k] \in 0 .. plen
  /\ \A k \in 0 .. last - 1 : /\ B[k] < plen /\ B[k + 1] = B[k] + RequestAt(B[k], plen)
                              /\ RequestAt(B[k], plen) \in 1 .. MaxRequestLength
  /\ \A j, k \in 0 .. last : j <= k => B[j] <= B[k]
IsEven(B, plen) == \E last : Evenly(B, plen, last)

\* Below the limit they do.
LEMMA ShortIsEven ==
  ASSUME NEW plen \in Nat, plen <= Width - MaxRequestLength
  PROVE  IsEven(Begins(plen, Width), plen)
<1> DEFINE B == Begins(plen, Width)
           at(k) == k * MaxRequestLength
           Past == {k \in 0 .. Blocks : plen <= at(k)}
<1>1. Starts(B, Blocks, plen)
  BY BeginsStart
<1>2. /\ MaxRequestLength \in Nat \ {0} /\ Width \in Nat \ {0} /\ Blocks \in Nat \ {0}
      /\ Blocks * MaxRequestLength = Width
  BY BlocksFill
<1> HIDE DEF B
<1>3. /\ B[0] = 0 /\ \A k \in 0 .. Blocks : B[k] \in 0 .. Width - 1
      /\ \A k \in 1 .. Blocks : B[k] = After(B[k - 1], plen)
  BY <1>1 DEF Starts
<1>4. \A k \in 0 .. Blocks : at(k) \in Nat /\ at(k + 1) = at(k) + MaxRequestLength
  <2>1. ASSUME NEW k \in 0 .. Blocks
        PROVE  at(k) \in Nat /\ at(k + 1) = at(k) + MaxRequestLength
    <3>1. k \in Nat /\ MaxRequestLength \in Nat
      BY <1>2
    <3>2. QED
      BY <3>1, Multiples
  <2>2. QED
    BY <2>1
<1>5. \A j, k \in 0 .. Blocks : j <= k => at(j) <= at(k)
  <2>1. ASSUME NEW j \in 0 .. Blocks, NEW k \in 0 .. Blocks, j <= k
        PROVE  at(j) <= at(k)
    <3>1. j \in Nat /\ k \in Nat /\ MaxRequestLength \in Nat
      BY <1>2
    <3>2. QED
      BY <2>1, <3>1, Multiples
  <2>2. QED
    BY <2>1
<1>6. at(0) = 0 /\ at(Blocks) = Width
  BY <1>2
<1> HIDE DEF at
<1>7. Blocks \in Past
  BY <1>2, <1>6
<1>8. Past \in SUBSET Nat
  BY <1>2
<1>9. PICK last \in Past : \A k \in Past : last <= k
  <2> HIDE DEF Past
  <2>1. QED
    BY <1>7, <1>8, Least
<1>10. last \in 0 .. Blocks /\ plen <= at(last) /\ \A k \in 0 .. Blocks : k < last => at(k) < plen
  <2>1. last \in 0 .. Blocks /\ plen <= at(last)
    BY <1>9
  <2>2. ASSUME NEW k \in 0 .. Blocks, k < last
        PROVE  at(k) < plen
    <3>1. ~ (plen <= at(k))
      BY <1>9, <2>1, <2>2
    <3>2. at(k) \in Nat
      BY <1>4
    <3>3. QED
      BY <3>1, <3>2
  <2>3. QED
    BY <2>1, <2>2
<1> DEFINE Holds == {k \in 0 .. last : B[k] = Smaller(at(k), plen)}
<1>11. 0 \in Holds
  BY <1>3, <1>6, <1>10 DEF Smaller
<1>12. ASSUME NEW k \in 0 .. last - 1, B[k] = Smaller(at(k), plen)
       PROVE  /\ B[k] = at(k) /\ B[k] < plen /\ B[k] \in Nat
              /\ B[k + 1] = Smaller(at(k + 1), plen)
  <2>1. k \in 0 .. Blocks /\ k < last /\ k + 1 \in 1 .. Blocks /\ (k + 1) - 1 = k
    BY <1>2, <1>10
  <2>2. at(k) \in Nat /\ at(k) < plen /\ at(k + 1) = at(k) + MaxRequestLength
    BY <1>4, <1>10, <2>1
  <2>3. B[k] = at(k)
    BY <1>12, <2>2 DEF Smaller
  <2>4. B[k + 1] = After(B[k], plen)
    BY <1>3, <2>1
  <2>5. After(at(k), plen) = Smaller(at(k) + MaxRequestLength, plen)
    <3> DEFINE b == at(k)
    <3>1. b \in Nat /\ b < plen
      BY <2>2
    <3> HIDE DEF b
    <3>2. After(b, plen) = Smaller(b + MaxRequestLength, plen)
      BY <3>1, AfterShort
    <3>3. QED
      BY <3>2 DEF b
  <2>6. QED
    BY <2>2, <2>3, <2>4, <2>5
<1>13. ASSUME NEW k \in 0 .. last - 1, k \in Holds
       PROVE  k + 1 \in Holds
  <2>1. k + 1 \in 0 .. last
    BY <1>10
  <2>2. B[k] = Smaller(at(k), plen)
    BY <1>13
  <2>3. B[k + 1] = Smaller(at(k + 1), plen)
    BY <1>12, <2>2
  <2>4. QED
    BY <2>1, <2>3
<1>14. \A k \in 0 .. last : B[k] = Smaller(at(k), plen)
  <2>1. 0 .. last \subseteq Holds
    <3> HIDE DEF Holds
    <3>1. last \in Nat
      BY <1>10
    <3>2. QED
      BY <1>11, <1>13, <3>1, UpTo
  <2>2. QED
    BY <2>1
<1>15. ASSUME NEW k \in 0 .. last - 1
       PROVE  /\ B[k] < plen /\ B[k + 1] = B[k] + RequestAt(B[k], plen)
              /\ RequestAt(B[k], plen) \in 1 .. MaxRequestLength
  <2>1. k \in 0 .. last /\ k \in 0 .. Blocks
    BY <1>2, <1>10
  <2>2. B[k] = Smaller(at(k), plen)
    BY <1>14, <2>1
  <2>3. B[k] = at(k) /\ B[k] < plen /\ B[k] \in Nat /\ B[k + 1] = Smaller(at(k + 1), plen)
    BY <1>12, <2>2
  <2>4. at(k + 1) = at(k) + MaxRequestLength
    BY <1>4, <2>1
  <2> DEFINE b == B[k]
  <2>5. b \in Nat /\ b < plen /\ B[k + 1] = Smaller(b + MaxRequestLength, plen)
    BY <2>3, <2>4
  <2> HIDE DEF b
  <2>6. RequestAt(b, plen) = Smaller(MaxRequestLength, plen - b)
    BY <2>5, AfterShort
  <2>7. b + RequestAt(b, plen) = Smaller(b + MaxRequestLength, plen)
    BY <1>2, <2>5, <2>6 DEF Smaller
  <2>8. RequestAt(b, plen) \in 1 .. MaxRequestLength
    BY <1>2, <2>5, <2>6 DEF Smaller
  <2>9. QED
    BY <2>5, <2>7, <2>8 DEF b
<1>16. \A k \in 0 .. last : B[k] \in 0 .. plen
  <2>1. ASSUME NEW k \in 0 .. last
        PROVE  B[k] \in 0 .. plen
    <3> k \in 0 .. Blocks
      BY <1>2, <1>10
    <3>1. at(k) \in Nat /\ B[k] = Smaller(at(k), plen)
      BY <1>4, <1>14
    <3>2. QED
      BY <3>1 DEF Smaller
  <2>2. QED
    BY <2>1
<1>17. ASSUME NEW j \in 0 .. last, NEW k \in 0 .. last, j <= k
       PROVE  B[j] <= B[k]
  <2>1. B[j] = Smaller(at(j), plen) /\ B[k] = Smaller(at(k), plen)
    BY <1>14
  <2> j \in 0 .. Blocks /\ k \in 0 .. Blocks
    BY <1>2, <1>10
  <2>2. at(j) \in Nat /\ at(k) \in Nat /\ at(j) <= at(k)
    BY <1>4, <1>5, <1>17
  <2>3. QED
    BY <2>1, <2>2 DEF Smaller
<1>18. B[last] = plen
  <2>1. last \in 0 .. last /\ at(last) \in Nat
    BY <1>4, <1>10
  <2>2. B[last] = Smaller(at(last), plen)
    BY <1>14, <2>1
  <2>3. QED
    BY <1>10, <2>1, <2>2 DEF Smaller
<1>19. Evenly(B, plen, last)
  BY <1>3, <1>10, <1>15, <1>16, <1>17, <1>18 DEF Evenly
<1>20. QED
  BY <1>19 DEF IsEven, B

\* Requests that begin like that end after last rounds.
LEMMA EvenRounds ==
  ASSUME NEW plen \in Nat, NEW last, Evenly(Begins(plen, Width), plen, last)
  PROVE  Rounds(plen, Width) = {0 .. last - 1}
<1> DEFINE B == Begins(plen, Width)
           Ends == {k \in DOMAIN B : B[k] >= plen}
<1>1. Starts(B, Blocks, plen)
  BY BeginsStart
<1> HIDE DEF B
<1>2. DOMAIN B = 0 .. Blocks
  BY <1>1 DEF Starts
<1>3. /\ last \in 0 .. Blocks /\ B[last] = plen
      /\ \A k \in 0 .. last - 1 : B[k] < plen /\ B[k] \in 0 .. plen
  <2>1. Evenly(B, plen, last)
    BY DEF B
  <2>2. Blocks \in Nat
    BY BlocksFill
  <2>3. last \in 0 .. Blocks
    BY <2>1 DEF Evenly
  <2>4. \A k \in 0 .. last - 1 : k \in 0 .. last
    BY <2>2, <2>3
  <2>5. QED
    BY <2>1, <2>3, <2>4 DEF Evenly
<1>4. last \in Ends
  BY <1>2, <1>3
<1>5. \A k \in Ends : last <= k
  <2>1. ASSUME NEW k \in Ends, ~ (last <= k)
        PROVE  FALSE
    <3>1. k \in 0 .. Blocks /\ B[k] >= plen
      BY <1>2
    <3>2. Blocks \in Nat
      BY BlocksFill
    <3>3. k \in 0 .. last - 1
      BY <1>3, <2>1, <3>1, <3>2
    <3> DEFINE b == B[k]
    <3>4. b < plen /\ b \in 0 .. plen /\ b >= plen
      BY <1>3, <3>1, <3>3
    <3> HIDE DEF b
    <3>5. QED
      BY <3>4
  <2>2. QED
    BY <2>1
<1>6. Ends \in SUBSET Int
  BY <1>2
<1> HIDE DEF Ends
<1>7. {e \in Ends : \A f \in Ends : e <= f} = {last}
  <2>1. ASSUME NEW e \in Ends, \A f \in Ends : e <= f
        PROVE  e = last
    <3>1. e <= last /\ last <= e /\ e \in Int /\ last \in Int
      BY <1>4, <1>5, <1>6, <2>1
    <3>2. QED
      BY <3>1
  <2>2. QED
    BY <1>4, <1>5, <2>1
<1>8. Rounds(plen, Width) = {0 .. k - 1 : k \in {e \in Ends : \A f \in Ends : e <= f}}
  BY DEF Rounds, Ends, B
<1>9. QED
  BY <1>7, <1>8

\* They cover the piece.
LEMMA EvenCovers ==
  ASSUME NEW plen \in Nat, NEW last, Evenly(Begins(plen, Width), plen, last)
  PROVE  UNION {Asks(plen, Width, k) : k \in 0 .. last - 1} = 0 .. plen - 1
<1> DEFINE B == Begins(plen, Width)
<1> HIDE DEF B
<1>1. /\ last \in 0 .. Blocks /\ B[0] = 0 /\ B[last] = plen
      /\ \A k \in 0 .. last : B[k] \in 0 .. plen
      /\ \A k \in 0 .. last - 1 : /\ B[k] < plen /\ B[k + 1] = B[k] + RequestAt(B[k], plen)
                                  /\ RequestAt(B[k], plen) \in 1 .. MaxRequestLength
  <2>1. Evenly(B, plen, last)
    BY DEF B
  <2>2. QED
    BY <2>1 DEF Evenly
<1>2. last \in Nat
  BY <1>1, BlocksFill
<1>3. \A k \in 0 .. last - 1 : Asks(plen, Width, k) = B[k] .. B[k + 1] - 1
  BY <1>1 DEF Asks, RequestAt, B
<1>4. ASSUME NEW x \in 0 .. plen - 1
      PROVE  \E k \in 0 .. last - 1 : x \in Asks(plen, Width, k)
  <2> DEFINE Above == {k \in 0 .. last : x < B[k]}
  <2>1. last \in Above
    BY <1>1, <1>2
  <2>2. Above \in SUBSET Nat
    BY <1>2
  <2>3. PICK k \in Above : \A j \in Above : k <= j
    <3> HIDE DEF Above
    <3>1. QED
      BY <2>1, <2>2, Least
  <2>4. k \in 0 .. last /\ x < B[k]
    BY <2>3
  <2>5. k # 0
    BY <1>1, <2>4
  <2>6. k - 1 \in 0 .. last - 1 /\ k - 1 \in 0 .. last /\ (k - 1) + 1 = k
    BY <1>2, <2>4, <2>5
  <2>7. k - 1 \notin Above
    BY <2>3, <2>6
  <2>8. ~ (x < B[k - 1])
    BY <2>6, <2>7
  <2>9. B[k - 1] \in 0 .. plen /\ B[k] \in 0 .. plen
    BY <1>1, <2>4, <2>6
  <2>10. x \in B[k - 1] .. B[k] - 1
    <3> DEFINE lo == B[k - 1]
               hi == B[k]
    <3>1. lo \in 0 .. plen /\ hi \in 0 .. plen /\ x < hi /\ ~ (x < lo)
      BY <2>4, <2>8, <2>9
    <3> HIDE DEF lo, hi
    <3>2. x \in lo .. hi - 1
      BY <3>1
    <3>3. QED
      BY <3>2 DEF lo, hi
  <2>11. Asks(plen, Width, k - 1) = B[k - 1] .. B[k] - 1
    BY <1>3, <2>6
  <2>12. QED
    BY <2>6, <2>10, <2>11
<1>5. ASSUME NEW k \in 0 .. last - 1, NEW x \in Asks(plen, Width, k)
      PROVE  x \in 0 .. plen - 1
  <2>1. k \in 0 .. last /\ k + 1 \in 0 .. last
    BY <1>2
  <2> DEFINE lo == B[k]
             hi == B[k + 1]
  <2>2. lo \in 0 .. plen /\ hi \in 0 .. plen /\ x \in lo .. hi - 1
    BY <1>1, <1>3, <2>1
  <2> HIDE DEF lo, hi
  <2>3. QED
    BY <2>2
<1>6. QED
  BY <1>4, <1>5

\* No two of them overlap, and each has the right length.
LEMMA EvenParts ==
  ASSUME NEW plen \in Nat, NEW last, Evenly(Begins(plen, Width), plen, last)
  PROVE  /\ \A j, k \in 0 .. last - 1 :
              j # k => Asks(plen, Width, j) \cap Asks(plen, Width, k) = {}
         /\ \A k \in 0 .. last - 1 : Cardinality(Asks(plen, Width, k)) \in 1 .. MaxRequestLength
<1> DEFINE B == Begins(plen, Width)
<1> HIDE DEF B
<1>1. /\ last \in 0 .. Blocks /\ \A k \in 0 .. last : B[k] \in 0 .. plen
      /\ \A k \in 0 .. last - 1 : /\ B[k + 1] = B[k] + RequestAt(B[k], plen)
                                  /\ RequestAt(B[k], plen) \in 1 .. MaxRequestLength
      /\ \A j, k \in 0 .. last : j <= k => B[j] <= B[k]
  <2>1. Evenly(B, plen, last)
    BY DEF B
  <2>2. QED
    BY <2>1 DEF Evenly
<1>2. last \in Nat /\ MaxRequestLength \in Nat
  BY <1>1, BlocksFill
<1>3. \A k \in 0 .. last - 1 : Asks(plen, Width, k) = B[k] .. B[k + 1] - 1
  BY <1>1 DEF Asks, RequestAt, B
<1>4. ASSUME NEW j \in 0 .. last - 1, NEW k \in 0 .. last - 1, j < k
      PROVE  Asks(plen, Width, j) \cap Asks(plen, Width, k) = {}
  <2>1. /\ j \in 0 .. last /\ j + 1 \in 0 .. last /\ k \in 0 .. last /\ k + 1 \in 0 .. last /\ j + 1 <= k
    BY <1>2, <1>4
  <2> DEFINE j0 == B[j]
             j1 == B[j + 1]
             k0 == B[k]
             k1 == B[k + 1]
  <2>2. j0 \in 0 .. plen /\ j1 \in 0 .. plen /\ k0 \in 0 .. plen /\ k1 \in 0 .. plen /\ j1 <= k0
    BY <1>1, <2>1
  <2>3. Asks(plen, Width, j) = j0 .. j1 - 1 /\ Asks(plen, Width, k) = k0 .. k1 - 1
    BY <1>3
  <2> HIDE DEF j0, j1, k0, k1
  <2>4. (j0 .. j1 - 1) \cap (k0 .. k1 - 1) = {}
    BY <2>2
  <2>5. QED
    BY <2>3, <2>4
<1>5. ASSUME NEW k \in 0 .. last - 1
      PROVE  Cardinality(Asks(plen, Width, k)) \in 1 .. MaxRequestLength
  <2>1. k \in 0 .. last
    BY <1>2
  <2> DEFINE lo == B[k]
             n == RequestAt(B[k], plen)
  <2>2. lo \in 0 .. plen /\ n \in 1 .. MaxRequestLength /\ Asks(plen, Width, k) = lo .. (lo + n) - 1
    BY <1>1, <1>3, <2>1
  <2> HIDE DEF lo, n
  <2>3. lo \in Int /\ (lo + n) - 1 \in Int /\ ~ (lo > (lo + n) - 1) /\ ((lo + n) - 1) - lo + 1 = n
    BY <1>2, <2>2
  <2>4. Cardinality(lo .. (lo + n) - 1) = ((lo + n) - 1) - lo + 1
    BY <2>3, FS_Interval
  <2>5. QED
    BY <2>2, <2>3, <2>4
<1>6. ASSUME NEW j \in 0 .. last - 1, NEW k \in 0 .. last - 1, j # k
      PROVE  Asks(plen, Width, j) \cap Asks(plen, Width, k) = {}
  <2>1. j < k \/ k < j
    BY <1>2, <1>6
  <2>2. QED
    BY <1>4, <2>1
<1>7. QED
  BY <1>5, <1>6

\* The requests for a piece cover it without a gap, an overlap or a byte too much, up to
\* a length of 2^32 - MaxRequestLength; for a longer piece the loop has no end.
THEOREM RequestsAlwaysCover == Spec => []RequestsCover
<1> DEFINE rounds == Rounds(input.plen, Width)
<1>1. ASSUME InputOK, input.kind = "piece"
      PROVE  IF input.plen <= Width - MaxRequestLength
               THEN /\ Cardinality(rounds) = 1
                    /\ \A ks \in rounds :
                         /\ UNION {Asks(input.plen, Width, k) : k \in ks} = 0 .. input.plen - 1
                         /\ \A j, k \in ks :
                              j # k => Asks(input.plen, Width, j) \cap Asks(input.plen, Width, k) = {}
                         /\ \A k \in ks :
                              Cardinality(Asks(input.plen, Width, k)) \in 1 .. MaxRequestLength
               ELSE rounds = {}
  <2> DEFINE plen == input.plen
  <2>1. plen \in Nat
    <3>1. plen \in PieceLengths
      BY <1>1, InputKind
    <3>2. QED
      BY <3>1, CodecOK
  <2> HIDE DEF plen
  <2>2. CASE plen <= Width - MaxRequestLength
    <3>1. IsEven(Begins(plen, Width), plen)
      BY <2>1, <2>2, ShortIsEven
    <3>2. PICK last : Evenly(Begins(plen, Width), plen, last)
      BY <3>1 DEF IsEven
    <3> DEFINE all == 0 .. last - 1
    <3>3. Rounds(plen, Width) = {all}
      BY <2>1, <3>2, EvenRounds
    <3>4. UNION {Asks(plen, Width, k) : k \in all} = 0 .. plen - 1
      BY <2>1, <3>2, EvenCovers
    <3>5. /\ \A j, k \in all : j # k => Asks(plen, Width, j) \cap Asks(plen, Width, k) = {}
          /\ \A k \in all : Cardinality(Asks(plen, Width, k)) \in 1 .. MaxRequestLength
      BY <2>1, <3>2, EvenParts
    <3> HIDE DEF all
    <3>6. Cardinality({all}) = 1
      BY FS_Singleton
    <3>7. QED
      BY <2>2, <3>3, <3>4, <3>5, <3>6 DEF plen
  <2>3. CASE ~ (plen <= Width - MaxRequestLength)
    <3>1. plen > Width - MaxRequestLength
      BY <2>1, <2>3, BlocksFill
    <3>2. Rounds(plen, Width) = {}
      BY <2>1, <3>1, LongNeverEnds
    <3>3. QED
      BY <2>3, <3>2 DEF plen
  <2>4. QED
    BY <2>2, <2>3
<1>2. InputOK => RequestsCover
  BY <1>1 DEF RequestsCover
<1>3. QED
  BY <1>2, InputAlways, PTL
===============================================================================
