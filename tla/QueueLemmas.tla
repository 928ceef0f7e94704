----------------------------- MODULE QueueLemmas -----------------------------
(***************************************************************************)
(* Facts about the buffered channels of the models, which are sequences:    *)
(* what a send and a receive do to the elements of a channel, and to the    *)
(* number of those that are of a kind.                                      *)
(***************************************************************************)
EXTENDS Integers, Sequences, FiniteSets, FiniteSetTheorems, TLAPS

\* The positions of a channel that hold a message of the set K.
Positions(s, K) == {i \in DOMAIN s : s[i] \in K}

\* How many messages of the set K there are in a channel.
Amount(s, K) == Cardinality(Positions(s, K))

\* A channel has finitely many messages of any kind.
LEMMA PositionsFinite ==
  ASSUME NEW T, NEW s \in Seq(T), NEW K
  PROVE  IsFiniteSet(Positions(s, K)) /\ Amount(s, K) \in Nat
<1>1. DOMAIN s = 1 .. Len(s) /\ Len(s) \in Nat
  OBVIOUS
<1>2. IsFiniteSet(1 .. Len(s))
  BY <1>1, FS_Interval
<1>3. Positions(s, K) \in SUBSET (1 .. Len(s))
  BY <1>1 DEF Positions
<1>4. IsFiniteSet(Positions(s, K))
  BY <1>2, <1>3, FS_Subset
<1>5. QED
  BY <1>4, FS_CardinalityType DEF Amount

\* An empty channel has none.
LEMMA AmountEmpty ==
  ASSUME NEW K
  PROVE  Amount(<<>>, K) = 0
<1>1. Positions(<<>>, K) = {}
  BY DEF Positions
<1>2. QED
  BY <1>1, FS_EmptySet DEF Amount

\* A send adds one, if the message is of the kind.
LEMMA AmountAppend ==
  ASSUME NEW T, NEW s \in Seq(T), NEW e \in T, NEW K
  PROVE  Amount(Append(s, e), K) = Amount(s, K) + (IF e \in K THEN 1 ELSE 0)
<1> DEFINE n == Len(s) + 1
<1>1. /\ DOMAIN s = 1 .. Len(s) /\ Len(s) \in Nat
      /\ DOMAIN Append(s, e) = 1 .. n
      /\ Append(s, e)[n] = e /\ \A i \in 1 .. Len(s) : Append(s, e)[i] = s[i]
  OBVIOUS
<1>2. 1 .. n = (1 .. Len(s)) \cup {n} /\ n \notin 1 .. Len(s)
  BY <1>1
<1>3. Positions(Append(s, e), K) = IF e \in K THEN Positions(s, K) \cup {n} ELSE Positions(s, K)
  BY <1>1, <1>2 DEF Positions
<1>4. n \notin Positions(s, K) /\ IsFiniteSet(Positions(s, K)) /\ Amount(s, K) \in Nat
  BY <1>1, <1>2, PositionsFinite DEF Positions
<1>5. Cardinality(Positions(s, K) \cup {n}) = Cardinality(Positions(s, K)) + 1
  BY <1>4, FS_AddElement
<1>6. QED
  BY <1>3, <1>4, <1>5 DEF Amount

\* A receive takes one away, if the message is of the kind.
LEMMA AmountTail ==
  ASSUME NEW T, NEW s \in Seq(T), s # <<>>, NEW K
  PROVE  Amount(s, K) = Amount(Tail(s), K) + (IF Head(s) \in K THEN 1 ELSE 0)
<1> DEFINE Rest == Positions(s, K) \ {1}
           shift == [i \in Positions(Tail(s), K) |-> i + 1]
<1>1. /\ DOMAIN s = 1 .. Len(s) /\ Len(s) \in Nat /\ Len(s) >= 1 /\ Head(s) = s[1]
      /\ Tail(s) \in Seq(T) /\ Len(Tail(s)) = Len(s) - 1 /\ DOMAIN Tail(s) = 1 .. Len(s) - 1
      /\ \A i \in 1 .. Len(s) - 1 : Tail(s)[i] = s[i + 1]
  OBVIOUS
<1>2. Positions(Tail(s), K) = {i \in 1 .. Len(s) - 1 : s[i + 1] \in K}
  BY <1>1 DEF Positions
<1>3. Rest = {i \in 2 .. Len(s) : s[i] \in K}
  BY <1>1 DEF Positions
<1>4. shift \in Bijection(Positions(Tail(s), K), Rest)
  <2>1. \A i \in Positions(Tail(s), K) : shift[i] \in Rest
    BY <1>1, <1>2, <1>3
  <2>2. \A j \in Rest : j - 1 \in Positions(Tail(s), K) /\ shift[j - 1] = j
    BY <1>1, <1>2, <1>3
  <2>3. \A i, j \in Positions(Tail(s), K) : shift[i] = shift[j] => i = j
    BY <1>2
  <2>4. QED
    BY <2>1, <2>2, <2>3 DEF Bijection, Injection, Surjection, IsInjective
<1>5. IsFiniteSet(Positions(Tail(s), K)) /\ IsFiniteSet(Positions(s, K))
  BY <1>1, PositionsFinite
<1>6. Cardinality(Rest) = Cardinality(Positions(Tail(s), K))
  BY <1>4, <1>5, FS_Bijection DEF ExistsBijection
<1>7. Cardinality(Rest) = IF 1 \in Positions(s, K) THEN Cardinality(Positions(s, K)) - 1
                          ELSE Cardinality(Positions(s, K))
  BY <1>5, FS_RemoveElement
<1>8. 1 \in Positions(s, K) <=> Head(s) \in K
  BY <1>1 DEF Positions
<1>9. Amount(s, K) \in Nat /\ Amount(Tail(s), K) \in Nat
  BY <1>1, PositionsFinite
<1>10. QED
  BY <1>6, <1>7, <1>8, <1>9 DEF Amount

\* A send adds its message to the elements of a channel, and no other.
LEMMA ElementsAppend ==
  ASSUME NEW T, NEW s \in Seq(T), NEW e \in T
  PROVE  {Append(s, e)[k] : k \in 1 .. Len(Append(s, e))} = {s[k] : k \in 1 .. Len(s)} \cup {e}
<1>1. /\ Len(Append(s, e)) = Len(s) + 1 /\ Append(s, e)[Len(s) + 1] = e
      /\ \A k \in 1 .. Len(s) : Append(s, e)[k] = s[k]
  OBVIOUS
<1>2. 1 .. Len(Append(s, e)) = (1 .. Len(s)) \cup {Len(s) + 1}
  BY <1>1
<1>3. QED
  BY <1>1, <1>2

\* A receive takes none away but the first.
LEMMA ElementsTail ==
  ASSUME NEW T, NEW s \in Seq(T), s # <<>>
  PROVE  {s[k] : k \in 1 .. Len(s)} = {Head(s)} \cup {Tail(s)[k] : k \in 1 .. Len(Tail(s))}
<1>1. /\ Len(s) \in Nat /\ Len(s) >= 1 /\ Len(Tail(s)) = Len(s) - 1 /\ Head(s) = s[1]
      /\ \A k \in 1 .. Len(s) - 1 : Tail(s)[k] = s[k + 1]
  OBVIOUS
<1>2. \A k \in 2 .. Len(s) : k - 1 \in 1 .. Len(s) - 1 /\ s[k] = Tail(s)[k - 1]
  BY <1>1
<1>3. \A k \in 1 .. Len(s) - 1 : k + 1 \in 1 .. Len(s)
  BY <1>1
<1>4. \A k \in 1 .. Len(s) : k = 1 \/ k \in 2 .. Len(s)
  BY <1>1
<1>5. QED
  BY <1>1, <1>2, <1>3, <1>4
===============================================================================
