----------------------- MODULE ReliabilityLayer_proofs -----------------------
(***************************************************************************)
(* Proofs about ReliabilityLayer for every set of streams, every timeout   *)
(* and every bound on the number of messages below half the number range.  *)
(***************************************************************************)
EXTENDS ReliabilityLayer, SequenceTheorems, WellFoundedInduction, TLAPS

-----------------------------------------------------------------------------
(* Arithmetic of the wrapping counters.                                    *)

\* A remainder is a number of the counter's type.
LEMMA ModRange == \A x \in Int : x % NumberRange \in Numbers
  BY NumberRangeAssumption DEF Numbers

\* A number of the type is its own remainder.
LEMMA ModSmall == \A x \in Numbers : x % NumberRange = x
  BY NumberRangeAssumption DEF Numbers

\* A small negative number wraps to the top of the range.
LEMMA ModNegative ==
  \A x \in Int : -NumberRange <= x /\ x < 0 => x % NumberRange = x + NumberRange
  BY NumberRangeAssumption DEF Numbers

\* Half of the largest value, rounded down, is one less than half the range.
LEMMA HalfRange ==
  /\ NumberRange \div 2 \in Nat /\ NumberRange \div 2 >= 2
  /\ NumberRange = 2 * (NumberRange \div 2)
  /\ MaxRange \div 2 = (NumberRange \div 2) - 1
  BY NumberRangeAssumption DEF MaxRange

\* The hole count on numbers that have not wrapped: the distance ahead of the
\* base, and behind the base exactly when the true number is.
LEMMA HoleCountNoWrap ==
  ASSUME NoWrap, NEW k \in 1..MaxMessages, NEW b \in 0..MaxMessages
  PROVE  /\ k > b => /\ HoleCount(Number(k), b) = k - 1 - b
                     /\ ~IsBehind(HoleCount(Number(k), b))
         /\ k <= b => IsBehind(HoleCount(Number(k), b))
<1>1. Number(k) = k - 1
  BY ModSmall, HalfRange, BoundsAssumption DEF NoWrap, Number, Numbers
<1>2. CASE k > b
  <2>1. k - 1 - b \in Numbers
    BY <1>2, HalfRange, BoundsAssumption DEF NoWrap, Numbers
  <2>2. HoleCount(Number(k), b) = k - 1 - b
    BY <1>1, <2>1, ModSmall DEF HoleCount
  <2> QED BY <1>2, <2>2, HalfRange, BoundsAssumption
          DEF NoWrap, IsBehind, MaxRange
<1>3. CASE k <= b
  <2>1. HoleCount(Number(k), b) = k - 1 - b + NumberRange
    BY <1>1, <1>3, ModNegative, HalfRange, BoundsAssumption
    DEF NoWrap, HoleCount
  <2> QED BY <1>3, <2>1, HalfRange, BoundsAssumption
          DEF NoWrap, IsBehind, MaxRange
<1> QED BY <1>2, <1>3, BoundsAssumption

\* On numbers that have not wrapped, older means smaller.
LEMMA OlderNoWrap ==
  ASSUME NoWrap, NEW i \in 0..MaxMessages, NEW w \in 0..MaxMessages
  PROVE  IsOlderOrderedPacket(i, w) <=> i < w
<1>1. w - (MaxRange \div 2 + 1) = w - (NumberRange \div 2)
  BY HalfRange, BoundsAssumption
<1>2. (w - (NumberRange \div 2)) % NumberRange = w + (NumberRange \div 2)
  BY ModNegative, HalfRange, BoundsAssumption DEF NoWrap
<1> QED BY <1>1, <1>2, HalfRange, BoundsAssumption
        DEF NoWrap, IsOlderOrderedPacket

\* The quotient and the remainder of a count.
LEMMA Division ==
  \A x \in Int : /\ x \div NumberRange \in Int /\ x % NumberRange \in Numbers
                 /\ x = NumberRange * (x \div NumberRange) + (x % NumberRange)
  BY NumberRangeAssumption DEF Numbers

\* Only one number of the type is the remainder of a count.
LEMMA RemainderIsUnique ==
  ASSUME NEW x \in Int, NEW a \in Int, NEW r \in Numbers,
         x = NumberRange * a + r
  PROVE  x % NumberRange = r
<1> DEFINE q == x \div NumberRange
           m == x % NumberRange
<1>1. q \in Int /\ m \in Numbers /\ x = NumberRange * q + m
  BY Division
<1> HIDE DEF q, m
<1>2. NumberRange \in Nat /\ r \in 0..(NumberRange - 1) /\ m \in 0..(NumberRange - 1)
  BY <1>1, NumberRangeAssumption DEF Numbers
<1>3. NumberRange * (a - q) = m - r
  BY <1>1, <1>2
<1>4. ~ (a - q >= 1)
  <2> SUFFICES ASSUME a - q >= 1 PROVE FALSE
    OBVIOUS
  <2>1. NumberRange * (a - q) >= NumberRange
    BY <1>1, <1>2
  <2> QED BY <1>2, <1>3, <2>1
<1>5. ~ (a - q <= -1)
  <2> SUFFICES ASSUME a - q <= -1 PROVE FALSE
    OBVIOUS
  <2>1. NumberRange * (a - q) <= -NumberRange
    BY <1>1, <1>2
  <2> QED BY <1>2, <1>3, <2>1
<1>6. a = q
  BY <1>1, <1>4, <1>5
<1> QED BY <1>1, <1>2, <1>3, <1>6 DEF m

\* The remainders of two counts differ as the counts do, up to one turn.
LEMMA Turn ==
  ASSUME NEW x \in Int, NEW y \in Int
  PROVE  LET z == (x % NumberRange) + (y - x)
         IN  /\ z \in Numbers => y % NumberRange = z
             /\ z - NumberRange \in Numbers => y % NumberRange = z - NumberRange
             /\ z + NumberRange \in Numbers => y % NumberRange = z + NumberRange
<1> DEFINE q == x \div NumberRange
           m == x % NumberRange
           z == m + (y - x)
<1>1. q \in Int /\ m \in Numbers /\ x = NumberRange * q + m
      /\ NumberRange \in Nat /\ m \in Int
  BY Division, NumberRangeAssumption DEF Numbers
<1> HIDE DEF q, m
<1>2. y = NumberRange * q + z
  BY <1>1
<1>3. y = NumberRange * (q + 1) + (z - NumberRange)
  BY <1>1
<1>4. y = NumberRange * (q - 1) + (z + NumberRange)
  BY <1>1
<1>5. z \in Int
  BY <1>1
<1> HIDE DEF z
<1>6. z \in Numbers => y % NumberRange = z
  BY <1>1, <1>2, RemainderIsUnique
<1>7. z - NumberRange \in Numbers => y % NumberRange = z - NumberRange
  <2>1. q + 1 \in Int
    BY <1>1
  <2> QED BY <1>3, <2>1, RemainderIsUnique
<1>8. z + NumberRange \in Numbers => y % NumberRange = z + NumberRange
  <2>1. q - 1 \in Int
    BY <1>1
  <2> QED BY <1>4, <2>1, RemainderIsUnique
<1> QED BY <1>6, <1>7, <1>8 DEF z, m

\* Counts less than half the range apart are told apart by their numbers, on
\* both sides of the wrap and in either half of the range.
THEOREM OlderExact ==
  ASSUME NEW x \in Int, NEW y \in Int, x - y \in (2 - HalfTurn)..(HalfTurn - 2)
  PROVE  IsOlderOrderedPacket(x % NumberRange, y % NumberRange) <=> x < y
<1> DEFINE a == x % NumberRange
           b == y % NumberRange
           z == b + (x - y)
<1> SUFFICES IsOlderOrderedPacket(a, b) <=> x < y
  OBVIOUS
<1>1. /\ NumberRange \in Nat /\ NumberRange = 2 * HalfTurn /\ HalfTurn \in Nat
      /\ HalfTurn >= 2 /\ MaxRange \div 2 = HalfTurn - 1
      /\ a \in 0..(NumberRange - 1) /\ b \in 0..(NumberRange - 1)
  BY ModRange, HalfRange DEF HalfTurn, Numbers
<1>2. /\ z \in Numbers => a = z
      /\ z - NumberRange \in Numbers => a = z - NumberRange
      /\ z + NumberRange \in Numbers => a = z + NumberRange
  BY Turn
<1>3. (b - HalfTurn) % NumberRange = IF b >= HalfTurn THEN b - HalfTurn ELSE b + HalfTurn
  <2>1. CASE b >= HalfTurn
    <3>1. b - HalfTurn \in Numbers
      BY <1>1, <2>1 DEF Numbers
    <3> QED BY <2>1, <3>1, ModSmall
  <2>2. CASE b < HalfTurn
    <3>1. b - HalfTurn \in Int /\ -NumberRange <= b - HalfTurn /\ b - HalfTurn < 0
      BY <1>1, <2>2
    <3>2. (b - HalfTurn) % NumberRange = b - HalfTurn + NumberRange
      BY <3>1, ModNegative
    <3> QED BY <1>1, <2>2, <3>2
  <2> QED BY <1>1, <2>1, <2>2
<1> HIDE DEF a, b, HalfTurn
<1>4. z \in Numbers \/ z - NumberRange \in Numbers \/ z + NumberRange \in Numbers
  BY <1>1 DEF Numbers
<1>5. IsOlderOrderedPacket(a, b) <=>
        IF b > HalfTurn - 1
        THEN a >= b - (HalfTurn - 1) + 1 /\ a < b
        ELSE a >= (b - HalfTurn) % NumberRange \/ a < b
  <2>1. b - (MaxRange \div 2 + 1) = b - HalfTurn
    BY <1>1
  <2> QED BY <1>1, <2>1 DEF IsOlderOrderedPacket
<1>6. CASE z \in Numbers
  BY <1>1, <1>2, <1>3, <1>5, <1>6 DEF Numbers
<1>7. CASE z - NumberRange \in Numbers
  BY <1>1, <1>2, <1>3, <1>5, <1>7 DEF Numbers
<1>8. CASE z + NumberRange \in Numbers
  BY <1>1, <1>2, <1>3, <1>5, <1>8 DEF Numbers
<1> QED BY <1>4, <1>6, <1>7, <1>8

\* The hole count of such counts is their distance, or lies behind the window.
THEOREM HoleCountExact ==
  ASSUME NEW x \in Int, NEW y \in Int, x - y \in (1 - HalfTurn)..HalfTurn
  PROVE  LET h == HoleCount(x % NumberRange, y % NumberRange)
         IN  /\ IsBehind(h) <=> x < y
             /\ x >= y => h = x - y
<1> DEFINE a == x % NumberRange
           b == y % NumberRange
           h == (a - b) % NumberRange
<1>1. /\ NumberRange \in Nat /\ NumberRange = 2 * HalfTurn /\ HalfTurn \in Nat
      /\ HalfTurn >= 2 /\ MaxRange = NumberRange - 1 /\ MaxRange \div 2 = HalfTurn - 1
      /\ a \in 0..(NumberRange - 1) /\ b \in 0..(NumberRange - 1)
  BY ModRange, HalfRange DEF HalfTurn, Numbers, MaxRange
<1>2. PICK p \in Int : a - b = x - y + NumberRange * p
  <2>1. PICK q \in Int : x = NumberRange * q + a
    BY Division DEF a
  <2>2. PICK r \in Int : y = NumberRange * r + b
    BY Division DEF b
  <2> HIDE DEF a, b
  <2>3. a - b = x - y + NumberRange * (r - q)
    BY <1>1, <2>1, <2>2
  <2> QED BY <2>3
<1> HIDE DEF a, b, HalfTurn
<1>3. x >= y => h = x - y
  <2> SUFFICES ASSUME x >= y PROVE h = x - y
    OBVIOUS
  <2>1. x - y \in Numbers /\ a - b \in Int /\ a - b = NumberRange * p + (x - y)
    BY <1>1, <1>2 DEF Numbers
  <2> QED BY <2>1, RemainderIsUnique
<1>4. x < y => h = x - y + NumberRange
  <2> SUFFICES ASSUME x < y PROVE h = x - y + NumberRange
    OBVIOUS
  <2>1. x - y + NumberRange \in Numbers /\ a - b \in Int /\ p - 1 \in Int
    BY <1>1 DEF Numbers
  <2>2. a - b = NumberRange * (p - 1) + (x - y + NumberRange)
    BY <1>1, <1>2
  <2> QED BY <2>1, <2>2, RemainderIsUnique
<1> HIDE DEF h
<1>5. IsBehind(h) <=> x < y
  BY <1>1, <1>3, <1>4 DEF IsBehind
<1> QED BY <1>3, <1>5 DEF h, a, b, HoleCount

-----------------------------------------------------------------------------
(* The two searches of the receiver find what they look for.               *)

\* Every non-empty set of naturals has a least element.
LEMMA LeastNat ==
  ASSUME NEW T \in SUBSET Nat, T # {}
  PROVE  \E x \in T : \A y \in T : x <= y
<1> DEFINE R == {ss \in Nat \X Nat : ss[1] < ss[2]}
<1>1. IsWellFoundedOn(R, Nat)
  BY NatLessThanWellFounded DEF OpToRel
<1>2. PICK x \in T : \A y \in T : ~ (<<y, x>> \in R)
  <2> HIDE DEF R
  <2> QED BY <1>1, WFMin
<1>3. \A y \in T : ~ (y < x)
  BY <1>2
<1> QED BY <1>3

\* Settled is a prefix length, and the entry after that prefix is still open.
LEMMA SettledProperties ==
  ASSUME NEW w \in Seq(Nat), now \in Nat
  PROVE  /\ Settled(w) \in 0..Len(w)
         /\ \A i \in 1..Settled(w) : w[i] < now
         /\ Settled(w) < Len(w) => w[Settled(w) + 1] >= now
<1> DEFINE Open == {n \in 0..Len(w) : n < Len(w) => w[n + 1] >= now}
<1>1. Open \in SUBSET Nat /\ Open # {}
  <2>1. Len(w) \in Open
    OBVIOUS
  <2> QED BY <2>1
<1>2. PICK n \in Open : \A m \in Open : n <= m
  BY <1>1, LeastNat
<1>3. \A i \in 1..n : w[i] < now
  <2>1. SUFFICES ASSUME NEW i \in 1..n, ~ (w[i] < now) PROVE FALSE
    OBVIOUS
  <2>2. n \in 0..Len(w) /\ i \in Int /\ 1 <= i /\ i <= n
    BY <1>2
  <2>3. w[i] \in Nat
    BY <2>2, ElementOfSeq
  <2>4. i - 1 \in Open
    BY <2>1, <2>2, <2>3
  <2>5. n <= i - 1
    <3> HIDE DEF Open
    <3> QED BY <1>2, <2>4
  <2> QED BY <2>2, <2>5
<1>4. \E m \in 0..Len(w) : /\ \A i \in 1..m : w[i] < now
                           /\ m < Len(w) => w[m + 1] >= now
  BY <1>2, <1>3
<1> QED BY <1>4 DEF Settled

\* Every message has an index, below the number range.
LEMMA IndexInType ==
  ASSUME TypeOK, NEW j \in Messages
  PROVE  index[j] \in Nat /\ index[j] < NumberRange
<1>1. j \in 1..Len(index) /\ index \in Seq(Numbers)
  BY DEF TypeOK, Messages
<1>2. index[j] \in Numbers
  BY <1>1, ElementOfSeq
<1> QED BY <1>2, NumberRangeAssumption DEF Numbers

\* Released follows the waiting messages of a channel from the next index on,
\* one for each index, up to the first index nothing waits for.
LEMMA ReleasedProperties ==
  ASSUME NoWrap, TypeOK, IndexInv, NEW c \in Channels, NEW i \in 0..(Len(sent) - 1)
  PROVE  /\ Released(c, i) \in Seq(orderingList)
         /\ i + Len(Released(c, i)) < Len(sent)
         /\ \A d \in 1..Len(Released(c, i)) :
               /\ Channel(Released(c, i)[d]) = c
               /\ index[Released(c, i)[d]] = i + d
         /\ Waiting(c, i + Len(Released(c, i)) + 1) = {}
<1>1. /\ Len(sent) \in Nat /\ NumberRange \in Nat /\ 2 * Len(sent) < NumberRange
  BY HalfRange, BoundsAssumption DEF NoWrap, TypeOK
<1>2. \A j : Waiting(c, j) \subseteq Messages /\ Waiting(c, j) \subseteq orderingList
  BY DEF TypeOK, Waiting
<1>3. \A j \in Nat : j >= Len(sent) => Waiting(c, j) = {}
  <2>1. \A j \in Messages : index[j] \in Nat /\ index[j] < Len(sent)
    BY IndexInType, <1>1 DEF IndexInv, Messages
  <2>2. \A j : \A x \in Waiting(c, j) : x \in Messages /\ index[x] = j
    BY <1>2 DEF Waiting
  <2> QED BY <1>1, <2>1, <2>2
<1>4. \A x \in 0..Len(sent) : /\ (i + x) % NumberRange = i + x
                              /\ (i + x + 1) % NumberRange = i + x + 1
  <2> SUFFICES ASSUME NEW x \in 0..Len(sent)
               PROVE  i + x \in Numbers /\ i + x + 1 \in Numbers
    BY ModSmall
  <2> QED BY <1>1 DEF Numbers
<1> DEFINE Gap == {m \in 0..Len(sent) : Waiting(c, i + m + 1) = {}}
<1>5. Gap \in SUBSET Nat /\ Gap # {}
  <2>1. Len(sent) \in Gap
    BY <1>1, <1>3
  <2> QED BY <1>1, <2>1
<1>6. PICK m \in Gap : \A x \in Gap : m <= x
  BY <1>5, LeastNat
<1>7. \A d \in 1..m : Waiting(c, i + d) # {}
  <2>1. SUFFICES ASSUME NEW d \in 1..m, Waiting(c, i + d) = {} PROVE FALSE
    OBVIOUS
  <2>2. m \in 0..Len(sent) /\ d \in Int /\ 1 <= d /\ d <= m
    BY <1>6
  <2>3. i + (d - 1) + 1 = i + d
    BY <2>2
  <2>4. d - 1 \in Gap
    BY <1>1, <2>1, <2>2, <2>3
  <2>5. m <= d - 1
    <3> HIDE DEF Gap
    <3> QED BY <1>6, <2>4
  <2> QED BY <2>2, <2>5
<1> DEFINE P(n) == /\ \A d \in 1..n : Waiting(c, (i + d) % NumberRange) # {}
                   /\ Waiting(c, (i + n + 1) % NumberRange) = {}
           N == CHOOSE n \in 0..Len(sent) : P(n)
<1>8. N \in 0..Len(sent) /\ P(N)
  <2>1. m \in 0..Len(sent) /\ Waiting(c, i + m + 1) = {}
    BY <1>6
  <2>2. \A d \in 1..m : (i + d) % NumberRange = i + d
    <3>1. \A d \in 1..m : d \in 0..Len(sent)
      BY <1>1, <2>1
    <3> QED BY <1>4, <3>1
  <2>3. P(m)
    BY <1>4, <1>7, <2>1, <2>2
  <2> HIDE DEF P
  <2> QED BY <2>1, <2>3
<1>9. Released(c, i) =
        [d \in 1..N |-> CHOOSE j \in Waiting(c, (i + d) % NumberRange) : TRUE]
  BY DEF Released
<1> HIDE DEF N
<1>10. \A d \in 1..N : Released(c, i)[d] \in Waiting(c, i + d)
  <2> SUFFICES ASSUME NEW d \in 1..N
               PROVE  Released(c, i)[d] \in Waiting(c, i + d)
    OBVIOUS
  <2>1. d \in 0..Len(sent)
    BY <1>1, <1>8
  <2>2. Waiting(c, (i + d) % NumberRange) # {}
    BY <1>8
  <2>3. Released(c, i)[d] = CHOOSE j \in Waiting(c, (i + d) % NumberRange) : TRUE
    BY <1>9
  <2>4. Released(c, i)[d] \in Waiting(c, (i + d) % NumberRange)
    BY <2>2, <2>3
  <2> QED BY <1>4, <2>1, <2>4
<1>11. Len(Released(c, i)) = N /\ Released(c, i) \in Seq(orderingList)
  <2>1. \A d \in 1..N : Released(c, i)[d] \in orderingList
    BY <1>2, <1>10
  <2> DEFINE f == Released(c, i)
  <2>2. DOMAIN f = 1..N /\ f = [d \in 1..N |-> f[d]]
    BY <1>9
  <2>3. \A d \in 1..N : f[d] \in orderingList
    BY <2>1
  <2> HIDE DEF f
  <2>4. f \in Seq(orderingList) /\ Len(f) = N
    BY <1>8, <2>2, <2>3
  <2> QED BY <2>4 DEF f
<1>12. Waiting(c, i + N + 1) = {}
  BY <1>1, <1>4, <1>8
<1>13. i + N < Len(sent)
  <2>1. CASE N = 0
    BY <2>1, <1>1
  <2>2. CASE N > 0
    <3>1. Waiting(c, i + N) # {}
      BY <1>8, <1>10, <2>2
    <3> QED BY <1>1, <1>3, <1>8, <3>1
  <2> QED BY <1>8, <2>1, <2>2
<1> QED BY <1>10, <1>11, <1>12, <1>13 DEF Waiting

-----------------------------------------------------------------------------
(* The receive window.                                                     *)

\* A message the window does not take for a duplicate was never recorded; the
\* window then records it, forgets nothing and stays within what was sent.
LEMMA WindowStep ==
  ASSUME NoWrap, TypeOK, base + Len(hasReceived) <= Len(sent),
         NEW k \in Messages,
         ~IsDuplicate(HoleCount(Number(k), base)),
         MoveWindow(HoleCount(Number(k), base)), sent' = sent
  PROVE  /\ ~Received(k) /\ Received(k)'
         /\ \A j \in Messages : Received(j) => Received(j)'
         /\ base' \in Numbers /\ hasReceived' \in Seq(Nat)
         /\ base' + Len(hasReceived') <= Len(sent)
<1> DEFINE h == HoleCount(Number(k), base)
           w == Marked(h)
           n == Settled(w)
           L == IF h < Len(hasReceived) THEN Len(hasReceived) ELSE h + 1
<1>1. /\ Len(sent) \in Nat /\ NumberRange \in Nat /\ 2 * Len(sent) < NumberRange
      /\ Len(sent) <= MaxMessages /\ MaxMessages \in Nat
  BY HalfRange, BoundsAssumption DEF NoWrap, TypeOK
<1>2. /\ base \in 0..MaxMessages /\ base \in Nat /\ hasReceived \in Seq(Nat)
      /\ Len(hasReceived) \in Nat /\ now \in Nat /\ Timeout \in Nat
  BY <1>1, BoundsAssumption DEF TypeOK, Numbers
<1>3. k \in 1..MaxMessages /\ k <= Len(sent) /\ k \in Nat
  BY <1>1 DEF Messages
<1>4. k > base /\ h = k - 1 - base /\ h \in Nat /\ base + h + 1 <= Len(sent)
  BY <1>1, <1>2, <1>3, HoleCountNoWrap, SMTT(40) DEF IsDuplicate
<1>5. ~ (h < Len(hasReceived) /\ hasReceived[h + 1] = 0)
  BY DEF IsDuplicate
<1>6. w = [i \in 1..L |-> IF i = h + 1 THEN 0
                          ELSE IF i <= Len(hasReceived) THEN hasReceived[i]
                          ELSE now + Timeout]
  BY DEF Marked
<1>7. L \in Nat /\ L >= h + 1 /\ L >= Len(hasReceived) /\ base + L <= Len(sent)
  BY <1>1, <1>2, <1>4
<1>8. /\ base' = (base + n) % NumberRange
      /\ hasReceived' = SubSeq(w, n + 1, Len(w))
  BY DEF MoveWindow
<1>9. ~Received(k)
  BY <1>2, <1>3, <1>4, <1>5 DEF Received
<1> HIDE DEF h, L, w
<1>10. w \in Seq(Nat) /\ Len(w) = L
  <2>1. \A i \in 1..L : i <= Len(hasReceived) => hasReceived[i] \in Nat
    BY <1>2, <1>7, ElementOfSeq
  <2>2. \A i \in 1..L : w[i] \in Nat
    BY <1>2, <1>6, <2>1
  <2> QED BY <1>6, <1>7, <2>2
<1>11. n \in 0..L
  BY <1>2, <1>10, SettledProperties
<1> HIDE DEF n
<1>12. base' = base + n /\ base' \in Numbers
  <2>1. base + n \in Numbers
    BY <1>1, <1>2, <1>7, <1>11 DEF Numbers
  <2> QED BY <1>8, <2>1, ModSmall
<1>13. /\ hasReceived' \in Seq(Nat) /\ Len(hasReceived') = L - n
       /\ \A i \in 1..(L - n) : hasReceived'[i] = w[n + i]
  BY <1>7, <1>8, <1>10, <1>11
<1>14. \A j \in Nat : (j - base \in 1..L /\ w[j - base] = 0) => Received(j)'
  <2> SUFFICES ASSUME NEW j \in Nat, j - base \in 1..L, w[j - base] = 0
               PROVE  Received(j)'
    OBVIOUS
  <2>1. CASE j - base <= n
    BY <1>2, <1>11, <1>12, <2>1 DEF Received
  <2>2. CASE j - base > n
    <3>1. j - base' \in 1..(L - n) /\ n + (j - base') = j - base
      BY <1>2, <1>7, <1>11, <1>12, <2>2
    <3>2. hasReceived'[j - base'] = 0
      BY <1>13, <3>1
    <3> QED BY <1>13, <3>1, <3>2 DEF Received
  <2> QED BY <1>2, <1>11, <2>1, <2>2
<1>15. Received(k)'
  <2>1. k - base = h + 1 /\ h + 1 \in 1..L
    BY <1>2, <1>3, <1>4, <1>7
  <2> QED BY <1>3, <1>6, <1>14, <2>1
<1>16. \A j \in Messages : Received(j) => Received(j)'
  <2> SUFFICES ASSUME NEW j \in Messages, Received(j) PROVE Received(j)'
    OBVIOUS
  <2>1. j \in Nat
    BY DEF Messages
  <2>2. CASE j <= base
    BY <1>2, <1>11, <1>12, <2>1, <2>2 DEF Received
  <2>3. CASE j - base \in 1..Len(hasReceived) /\ hasReceived[j - base] = 0
    <3>1. j - base \in 1..L
      BY <1>2, <1>7, <2>3
    <3>2. w[j - base] = 0
      BY <1>6, <2>3, <3>1
    <3> QED BY <1>14, <2>1, <3>1, <3>2
  <2> QED BY <2>2, <2>3 DEF Received
<1>17. base' + Len(hasReceived') <= Len(sent)
  BY <1>1, <1>2, <1>7, <1>11, <1>12, <1>13
<1> QED BY <1>9, <1>12, <1>13, <1>15, <1>16, <1>17

-----------------------------------------------------------------------------
(* Appending to what was delivered.                                        *)

\* The elements of a concatenation, in their places.
LEMMA Appended ==
  ASSUME NEW S, NEW d \in Seq(S), NEW b \in Seq(S)
  PROVE  /\ d \o b \in Seq(S)
         /\ Len(d) \in Nat /\ Len(b) \in Nat /\ Len(d \o b) = Len(d) + Len(b)
         /\ DOMAIN (d \o b) = 1..(Len(d) + Len(b))
         /\ \A i \in 1..Len(d) : (d \o b)[i] = d[i]
         /\ \A i \in 1..Len(b) : (d \o b)[Len(d) + i] = b[i]
  OBVIOUS

\* A place beyond the first m of m + n is one of the n places that follow.
LEMMA Beyond ==
  ASSUME NEW m \in Nat, NEW n \in Nat, NEW x \in 1..(m + n), x > m
  PROVE  \E y \in 1..n : x = m + y
<1>1. x - m \in 1..n /\ x = m + (x - m)
  OBVIOUS
<1> QED BY <1>1

\* New messages, each once, keep every message unique.
LEMMA AtMostOnceExtends ==
  ASSUME NEW S, NEW d \in Seq(S), NEW b \in Seq(S),
         Promise!AtMostOnce(d), Promise!AtMostOnce(b),
         \A i \in 1..Len(d), j \in 1..Len(b) : d[i] # b[j]
  PROVE  Promise!AtMostOnce(d \o b)
<1> DEFINE e == d \o b
<1>1. SUFFICES ASSUME NEW i \in DOMAIN e, NEW j \in DOMAIN e, e[i] = e[j]
               PROVE  i = j
  BY DEF Promise!AtMostOnce
<1>2. i \in 1..(Len(d) + Len(b)) /\ j \in 1..(Len(d) + Len(b))
  BY <1>1, Appended
<1> HIDE DEF e
<1>3. CASE i <= Len(d) /\ j <= Len(d)
  BY <1>1, <1>2, <1>3, Appended DEF e, Promise!AtMostOnce
<1>4. CASE i <= Len(d) /\ j > Len(d)
  BY <1>1, <1>2, <1>4, Appended DEF e
<1>5. CASE i > Len(d) /\ j <= Len(d)
  BY <1>1, <1>2, <1>5, Appended DEF e
<1>6. CASE i > Len(d) /\ j > Len(d)
  <2>0. \A x \in 1..(Len(d) + Len(b)) :
          x > Len(d) => \E y \in 1..Len(b) : x = Len(d) + y
    BY Appended, Beyond
  <2>1. PICK x \in 1..Len(b) : i = Len(d) + x
    BY <1>2, <1>6, <2>0
  <2>2. PICK y \in 1..Len(b) : j = Len(d) + y
    BY <1>2, <1>6, <2>0
  <2>3. b[x] = b[y]
    BY <1>1, <2>1, <2>2, Appended DEF e
  <2>4. x \in DOMAIN b /\ y \in DOMAIN b
    OBVIOUS
  <2>5. x = y
    BY <2>3, <2>4, Zenon DEF Promise!AtMostOnce
  <2> QED BY <2>1, <2>2, <2>5
<1> QED BY <1>2, <1>3, <1>4, <1>5, <1>6

\* Messages whose predecessors in their stream come before them keep the order.
LEMMA InOrderExtends ==
  ASSUME NEW S, NEW d \in Seq(S), NEW b \in Seq(S), NEW s,
         Promise!InOrder(s, d),
         \A j \in 1..Len(b) : \A m \in DOMAIN s :
            (m < b[j] /\ s[m] = s[b[j]] /\ Promise!IsOrdered(s[m][1]))
               => \/ \E i \in 1..Len(d) : d[i] = m
                  \/ \E i \in 1..(j - 1) : b[i] = m
  PROVE  Promise!InOrder(s, d \o b)
<1> DEFINE e == d \o b
<1>1. SUFFICES ASSUME NEW i \in DOMAIN e, NEW m \in DOMAIN s,
                      m < e[i], s[m] = s[e[i]], Promise!IsOrdered(s[m][1])
               PROVE  \E j \in 1..(i - 1) : e[j] = m
  BY DEF Promise!InOrder
<1>2. /\ i \in 1..(Len(d) + Len(b)) /\ Len(d) \in Nat /\ Len(b) \in Nat
      /\ \A x \in 1..Len(d) : e[x] = d[x]
      /\ \A x \in 1..Len(b) : e[Len(d) + x] = b[x]
  BY <1>1, Appended
<1> HIDE DEF e
<1>3. CASE i <= Len(d)
  <2>1. i \in 1..Len(d) /\ e[i] = d[i]
    BY <1>2, <1>3
  <2>2. PICK j \in 1..(i - 1) : d[j] = m
    BY <1>1, <2>1 DEF Promise!InOrder
  <2>3. j \in 1..Len(d)
    BY <1>2, <2>1
  <2> QED BY <1>2, <2>2, <2>3
<1>4. CASE i > Len(d)
  <2>1. PICK j \in 1..Len(b) : i = Len(d) + j
    BY <1>2, <1>4, Beyond
  <2>2. e[i] = b[j]
    BY <1>2, <2>1
  <2>3. CASE \E x \in 1..Len(d) : d[x] = m
    <3>1. PICK x \in 1..Len(d) : d[x] = m
      BY <2>3
    <3>2. x \in 1..(i - 1) /\ e[x] = m
      BY <1>2, <1>4, <3>1
    <3> QED BY <3>2
  <2>4. CASE \E x \in 1..(j - 1) : b[x] = m
    <3>1. PICK x \in 1..(j - 1) : b[x] = m
      BY <2>4
    <3>2. x \in 1..Len(b) /\ Len(d) + x \in 1..(i - 1)
      BY <1>2, <2>1
    <3>3. e[Len(d) + x] = m
      BY <1>2, <3>1, <3>2
    <3> QED BY <3>2, <3>3
  <2> QED BY <1>1, <2>2, <2>3, <2>4
<1> QED BY <1>2, <1>3, <1>4

\* One sequenced message later than all before it, or unsequenced messages,
\* keep the sequence.
LEMMA InSequenceExtends ==
  ASSUME NEW S, NEW d \in Seq(S), NEW b \in Seq(S), NEW s,
         Promise!InSequence(s, d),
         \A i, j \in 1..Len(b) :
            i < j => ~(Promise!IsSequenced(s[b[i]][1])),
         \A j \in 1..Len(b) : \A i \in 1..Len(d) :
            ( /\ Promise!IsSequenced(s[d[i]][1])
              /\ Promise!IsSequenced(s[b[j]][1])
              /\ s[d[i]][2] = s[b[j]][2] ) => d[i] < b[j]
  PROVE  Promise!InSequence(s, d \o b)
<1> DEFINE e == d \o b
<1>1. SUFFICES ASSUME NEW i \in DOMAIN e, NEW j \in DOMAIN e, i < j,
                      Promise!IsSequenced(s[e[i]][1]),
                      Promise!IsSequenced(s[e[j]][1]),
                      s[e[i]][2] = s[e[j]][2]
               PROVE  e[i] < e[j]
  BY DEF Promise!InSequence
<1>2. /\ i \in 1..(Len(d) + Len(b)) /\ Len(d) \in Nat /\ Len(b) \in Nat
      /\ j \in 1..(Len(d) + Len(b))
      /\ \A x \in 1..Len(d) : e[x] = d[x]
      /\ \A x \in 1..Len(b) : e[Len(d) + x] = b[x]
  BY <1>1, Appended
<1> HIDE DEF e
<1>3. \A x \in 1..(Len(d) + Len(b)) :
        x > Len(d) => \E y \in 1..Len(b) : x = Len(d) + y
  BY <1>2, Beyond
<1>4. CASE j <= Len(d)
  <2>1. i \in 1..Len(d) /\ j \in 1..Len(d) /\ e[i] = d[i] /\ e[j] = d[j]
    BY <1>1, <1>2, <1>4
  <2> QED BY <1>1, <2>1 DEF Promise!InSequence
<1>5. CASE i <= Len(d) /\ j > Len(d)
  <2>1. PICK y \in 1..Len(b) : j = Len(d) + y
    BY <1>2, <1>3, <1>5
  <2>2. i \in 1..Len(d) /\ e[i] = d[i] /\ e[j] = b[y]
    BY <1>2, <1>5, <2>1
  <2> QED BY <1>1, <2>2
<1>6. CASE i > Len(d) /\ j > Len(d)
  <2>1. PICK x \in 1..Len(b) : i = Len(d) + x
    BY <1>2, <1>3, <1>6
  <2>2. PICK y \in 1..Len(b) : j = Len(d) + y
    BY <1>2, <1>3, <1>6
  <2>3. x < y /\ e[i] = b[x]
    BY <1>1, <1>2, <2>1, <2>2
  <2> QED BY <1>1, <2>3
<1> QED BY <1>1, <1>2, <1>4, <1>5, <1>6

-----------------------------------------------------------------------------
(* What a message that passed the window does to the read positions.       *)

\* The part of the invariant that is about what the receiver delivered.
ReadInv ==
  /\ delivered \in Seq(Messages) /\ orderingList \subseteq Messages
  /\ orderedRead \in [Channels -> Numbers]
  /\ sequencedRead \in [Channels -> Numbers]
  /\ OrderInv /\ SequenceInv /\ NoDuplicateDelivery

\* Every message is sent on a channel in use, with a reliability the layer
\* handles in exactly one of its three ways.
LEMMA StreamInType ==
  ASSUME TypeOK, NEW k \in Messages
  PROVE  /\ Channel(k) \in Channels
         /\ ~(IsOrdered(Reliability(k)) /\ IsSequenced(Reliability(k)))
<1>1. k \in 1..Len(sent) /\ sent \in Seq(Streams)
  BY DEF TypeOK, Messages
<1>2. sent[k] \in Streams
  BY <1>1, ElementOfSeq
<1> QED BY <1>2 DEF Channel, Channels, Reliability, IsOrdered, IsSequenced

\* The delivered messages after a batch is appended.
LEMMA DeliveredAppend ==
  ASSUME NEW S, delivered \in Seq(S), NEW b \in Seq(S),
         delivered' = delivered \o b
  PROVE  DeliveredMessages' = DeliveredMessages \cup {b[j] : j \in 1..Len(b)}
<1> DEFINE d == delivered
           e == delivered'
<1>1. /\ e = d \o b /\ d \in Seq(S)
      /\ Len(d) \in Nat /\ Len(b) \in Nat /\ DOMAIN e = 1..(Len(d) + Len(b))
      /\ DOMAIN d = 1..Len(d)
      /\ \A x \in 1..Len(d) : e[x] = d[x]
      /\ \A x \in 1..Len(b) : e[Len(d) + x] = b[x]
  BY Appended
<1>2. DeliveredMessages = {d[i] : i \in DOMAIN d}
      /\ DeliveredMessages' = {e[i] : i \in DOMAIN e}
  BY DEF DeliveredMessages
<1> HIDE DEF d, e
<1>3. \A i \in 1..(Len(d) + Len(b)) :
        e[i] \in {d[x] : x \in 1..Len(d)} \cup {b[j] : j \in 1..Len(b)}
  <2> SUFFICES ASSUME NEW i \in 1..(Len(d) + Len(b)), ~ (i \in 1..Len(d))
               PROVE  e[i] \in {b[j] : j \in 1..Len(b)}
    BY <1>1
  <2>0. i > Len(d)
    BY <1>1
  <2>1. PICK y \in 1..Len(b) : i = Len(d) + y
    BY <1>1, <2>0, Beyond
  <2> QED BY <1>1, <2>1
<1>4. \A x \in 1..Len(d) : x \in 1..(Len(d) + Len(b))
  BY <1>1
<1>5. \A x \in 1..Len(b) : Len(d) + x \in 1..(Len(d) + Len(b))
  BY <1>1
<1>6. {d[x] : x \in 1..Len(d)} \subseteq {e[i] : i \in DOMAIN e}
  BY <1>1, <1>4
<1>7. {b[x] : x \in 1..Len(b)} \subseteq {e[i] : i \in DOMAIN e}
  BY <1>1, <1>5, SMTT(40)
<1>8. {e[i] : i \in DOMAIN e}
        \subseteq {d[x] : x \in 1..Len(d)} \cup {b[j] : j \in 1..Len(b)}
  BY <1>1, <1>3
<1> DEFINE E == {e[i] : i \in DOMAIN e}
           D == {d[x] : x \in 1..Len(d)}
           B == {b[j] : j \in 1..Len(b)}
<1>9. E \subseteq D \cup B /\ D \subseteq E /\ B \subseteq E
  BY <1>6, <1>7, <1>8
<1>10. DeliveredMessages = D /\ DeliveredMessages' = E
  BY <1>1, <1>2
<1> HIDE DEF D, B, E
<1>11. DeliveredMessages' = DeliveredMessages \cup B
  BY <1>9, <1>10
<1> QED BY <1>11 DEF B

\* One new message that is not ordered, appended to what was delivered.
LEMMA AppendUnordered ==
  ASSUME ReadInv, NEW k \in Messages, k \notin DeliveredMessages,
         ~IsOrdered(Reliability(k)), sent' = sent,
         delivered' = Append(delivered, k)
  PROVE  /\ delivered' = delivered \o <<k>> /\ delivered' \in Seq(Messages)
         /\ DeliveredMessages' = DeliveredMessages \cup {k}
         /\ NoDuplicateDelivery' /\ OrderedDelivery'
<1> DEFINE b == <<k>>
<1>1. b \in Seq(Messages) /\ Len(b) = 1 /\ b[1] = k
  OBVIOUS
<1>2. delivered' = delivered \o b /\ delivered \in Seq(Messages)
  BY DEF ReadInv
<1>3. ~Promise!IsOrdered(sent[k][1])
  BY DEF Reliability, IsOrdered, Promise!IsOrdered
<1> HIDE DEF b
<1>4. DeliveredMessages' = DeliveredMessages \cup {k}
  <2>1. {b[j] : j \in 1..Len(b)} = {k}
    BY <1>1
  <2> QED BY <1>1, <1>2, <2>1, DeliveredAppend
<1>5. delivered' \in Seq(Messages)
  BY <1>1, <1>2, Appended
<1>6. NoDuplicateDelivery'
  <2>1. Promise!AtMostOnce(b)
    BY <1>1 DEF Promise!AtMostOnce
  <2>2. \A i \in 1..Len(delivered), j \in 1..Len(b) : delivered[i] # b[j]
    BY <1>1, <1>2 DEF DeliveredMessages
  <2>3. Promise!AtMostOnce(delivered)
    BY DEF ReadInv, NoDuplicateDelivery
  <2>4. Promise!AtMostOnce(delivered \o b)
    BY <1>1, <1>2, <2>1, <2>2, <2>3, AtMostOnceExtends
  <2> QED BY <1>2, <2>4 DEF NoDuplicateDelivery
<1>7. OrderedDelivery'
  <2>1. Promise!InOrder(sent, delivered)
    BY DEF ReadInv, OrderInv, OrderedDelivery
  <2>2. \A j \in 1..Len(b) : \A m \in DOMAIN sent :
          ~(sent[m] = sent[b[j]] /\ Promise!IsOrdered(sent[m][1]))
    BY <1>1, <1>3
  <2>3. Promise!InOrder(sent, delivered \o b)
    BY <1>1, <1>2, <2>1, <2>2, InOrderExtends
  <2> QED BY <1>2, <2>3 DEF OrderedDelivery
<1> QED BY <1>2, <1>4, <1>5, <1>6, <1>7 DEF b

\* A message that is neither ordered nor sequenced disturbs no position.
LEMMA AtOnceStep ==
  ASSUME TypeOK, ReadInv, NEW k \in Messages, k \notin DeliveredMessages,
         sent' = sent, index' = index, orderedWrite' = orderedWrite,
         DeliverAtOnce(k)
  PROVE  /\ ReadInv'
         /\ DeliveredMessages' = DeliveredMessages \cup {k}
         /\ orderingList' = orderingList
<1> DEFINE b == <<k>>
<1>1. b \in Seq(Messages) /\ Len(b) = 1 /\ b[1] = k
  OBVIOUS
<1>3. /\ orderedRead' = orderedRead /\ sequencedRead' = sequencedRead
      /\ orderingList' = orderingList /\ delivered' = Append(delivered, k)
      /\ ~IsOrdered(Reliability(k)) /\ ~IsSequenced(Reliability(k))
  BY DEF DeliverAtOnce
<1>4. /\ delivered' = delivered \o b /\ delivered' \in Seq(Messages)
      /\ DeliveredMessages' = DeliveredMessages \cup {k}
      /\ NoDuplicateDelivery' /\ OrderedDelivery'
  BY <1>3, AppendUnordered
<1> HIDE DEF b
<1>5. delivered \in Seq(Messages)
  BY DEF ReadInv
<1>8. SequencedDelivery'
  <2>1. Promise!InSequence(sent, delivered)
    BY DEF ReadInv, SequenceInv, SequencedDelivery
  <2>2. \A j \in 1..Len(b) : ~Promise!IsSequenced(sent[b[j]][1])
    BY <1>1, <1>3 DEF Reliability, IsSequenced, Promise!IsSequenced
  <2>3. Promise!InSequence(sent, delivered \o b)
    BY <1>1, <1>5, <2>1, <2>2, InSequenceExtends
  <2> QED BY <1>4, <2>3 DEF SequencedDelivery
<1>9. OrderInv'
  BY <1>3, <1>4 DEF ReadInv, OrderInv, Messages, Reliability, Channel
<1>10. SequenceInv'
  BY <1>3, <1>4, <1>8 DEF ReadInv, SequenceInv, Reliability, Channel
<1> QED BY <1>3, <1>4, <1>9, <1>10 DEF ReadInv, Messages

\* A sequenced message is dropped behind the read position or moves it.
LEMMA SequencedStep ==
  ASSUME NoWrap, TypeOK, IndexInv, ReadInv,
         NEW k \in Messages, k \notin DeliveredMessages,
         sent' = sent, index' = index, orderedWrite' = orderedWrite,
         DeliverSequenced(k)
  PROVE  /\ ReadInv'
         /\ DeliveredMessages' \subseteq DeliveredMessages \cup {k}
         /\ orderingList' = orderingList
<1> DEFINE c == Channel(k)
           b == <<k>>
<1>1. /\ IsSequenced(Reliability(k)) /\ ~IsOrdered(Reliability(k))
      /\ orderedRead' = orderedRead /\ orderingList' = orderingList
      /\ c \in Channels
  BY StreamInType DEF DeliverSequenced
<1>2. /\ Len(sent) \in Nat /\ NumberRange \in Nat /\ 2 * Len(sent) < NumberRange
      /\ Len(sent) <= MaxMessages /\ MaxMessages \in Nat
  BY HalfRange, BoundsAssumption DEF NoWrap, TypeOK
<1>3. /\ index[k] \in Nat /\ index[k] < Len(sent)
      /\ sequencedRead[c] \in Nat /\ sequencedRead[c] <= Len(sent)
  BY <1>1, <1>2, IndexInType
  DEF IndexInv, ReadInv, SequenceInv, Messages, Numbers
<1>4. IsOlderOrderedPacket(index[k], sequencedRead[c]) <=> index[k] < sequencedRead[c]
  BY <1>2, <1>3, OlderNoWrap
<1>5. CASE index[k] < sequencedRead[c]
  <2>1. delivered' = delivered /\ sequencedRead' = sequencedRead
    BY <1>4, <1>5 DEF DeliverSequenced
  <2> QED BY <1>1, <2>1
          DEF ReadInv, OrderInv, SequenceInv, OrderedDelivery, SequencedDelivery,
              NoDuplicateDelivery, DeliveredMessages, Messages, Reliability, Channel
<1>6. CASE ~ (index[k] < sequencedRead[c])
  <2>1. /\ delivered' = Append(delivered, k) /\ delivered \in Seq(Messages)
        /\ sequencedRead' =
             [sequencedRead EXCEPT ![c] = (index[k] + 1) % NumberRange]
    BY <1>4, <1>6 DEF DeliverSequenced, ReadInv
  <2>2. (index[k] + 1) % NumberRange = index[k] + 1 /\ index[k] + 1 \in Numbers
    <3>1. index[k] + 1 \in Numbers
      BY <1>2, <1>3 DEF Numbers
    <3> QED BY <3>1, ModSmall
  <2>3. /\ sequencedRead' \in [Channels -> Numbers]
        /\ sequencedRead'[c] = index[k] + 1
        /\ \A x \in Channels : x # c => sequencedRead'[x] = sequencedRead[x]
    BY <1>1, <2>1, <2>2 DEF ReadInv
  <2>4. b \in Seq(Messages) /\ Len(b) = 1 /\ b[1] = k
    OBVIOUS
  <2>5. /\ delivered' = delivered \o b /\ delivered' \in Seq(Messages)
        /\ DeliveredMessages' = DeliveredMessages \cup {k}
        /\ NoDuplicateDelivery' /\ OrderedDelivery'
    BY <1>1, <2>1, AppendUnordered
  <2> HIDE DEF b
  <2>9. SequencedDelivery'
    <3>1. Promise!InSequence(sent, delivered)
      BY DEF ReadInv, SequenceInv, SequencedDelivery
    <3>2. \A x \in DeliveredMessages :
            (IsSequenced(Reliability(x)) /\ Channel(x) = c) => x < k
      <4> SUFFICES ASSUME NEW x \in DeliveredMessages,
                          IsSequenced(Reliability(x)), Channel(x) = c
                   PROVE  x < k
        OBVIOUS
      <4>1. x \in Messages /\ x # k
        BY <2>1 DEF DeliveredMessages
      <4>2. index[x] < sequencedRead[c] /\ index[x] \in Nat
        BY <4>1, IndexInType DEF ReadInv, SequenceInv
      <4>3. k < x => index[k] < index[x]
        BY <1>1, <4>1 DEF IndexInv
      <4> QED BY <1>3, <1>6, <4>1, <4>2, <4>3 DEF Messages
    <3>3. \A i \in 1..Len(delivered) : delivered[i] \in DeliveredMessages
      BY <2>1 DEF DeliveredMessages
    <3>4. \A j \in 1..Len(b) : \A i \in 1..Len(delivered) :
            ( /\ Promise!IsSequenced(sent[delivered[i]][1])
              /\ Promise!IsSequenced(sent[b[j]][1])
              /\ sent[delivered[i]][2] = sent[b[j]][2] ) => delivered[i] < b[j]
      BY <2>4, <3>2, <3>3
      DEF Reliability, Channel, IsSequenced, Promise!IsSequenced
    <3>5. \A i, j \in 1..Len(b) : ~ (i < j)
      BY <2>4
    <3>6. Promise!InSequence(sent, delivered \o b)
      BY <2>1, <2>4, <3>1, <3>4, <3>5, InSequenceExtends
    <3> QED BY <2>5, <3>6 DEF SequencedDelivery
  <2>10. OrderInv'
    BY <1>1, <2>5 DEF ReadInv, OrderInv, Messages, Reliability, Channel
  <2>11. SequenceInv'
    <3>1. \A x \in Channels : sequencedRead'[x] <= Len(sent)
      BY <1>2, <1>3, <2>3 DEF ReadInv, SequenceInv
    <3>2. ASSUME NEW x \in DeliveredMessages', IsSequenced(Reliability(x))
          PROVE  index[x] < sequencedRead'[Channel(x)]
      <4>1. CASE x = k
        BY <1>3, <2>3, <4>1
      <4>2. CASE x # k
        <5>1. x \in DeliveredMessages /\ x \in Messages
          <6>1. x \in DeliveredMessages
            BY <2>5, <3>2, <4>2
          <6>2. \A i \in DOMAIN delivered : delivered[i] \in Messages
            BY <2>1
          <6> QED BY <6>1, <6>2 DEF DeliveredMessages
        <5>2. index[x] \in Nat /\ Channel(x) \in Channels
          BY <5>1, IndexInType, StreamInType
        <5>3. index[x] < sequencedRead[Channel(x)]
          BY <3>2, <5>1 DEF ReadInv, SequenceInv
        <5> QED BY <1>3, <1>6, <2>3, <5>2, <5>3
      <4> QED BY <4>1, <4>2
    <3> QED BY <2>9, <3>1, <3>2 DEF SequenceInv, Reliability, Channel
  <2> QED BY <1>1, <2>3, <2>5, <2>10, <2>11 DEF ReadInv, Messages
<1> QED BY <1>1, <1>5, <1>6

\* Two ordered messages of a channel never carry the same index.
LEMMA OrderedIndexUnique ==
  ASSUME TypeOK, IndexInv, NEW j \in Messages, NEW k \in Messages,
         IsOrdered(Reliability(j)), IsOrdered(Reliability(k)),
         Channel(j) = Channel(k)
  PROVE  /\ index[j] = index[k] => j = k
         /\ j < k => index[j] < index[k]
<1>1. index[j] \in Nat /\ index[k] \in Nat /\ j \in Nat /\ k \in Nat
  BY IndexInType DEF Messages
<1>2. j < k => index[j] < index[k]
  BY DEF IndexInv
<1>3. k < j => index[k] < index[j]
  BY DEF IndexInv
<1> QED BY <1>1, <1>2, <1>3

\* The message a channel waits for is delivered with the run it completes: one
\* ordered message of the channel for each index from the read position on.
LEMMA ReleasedBatch ==
  ASSUME NoWrap, TypeOK, IndexInv, ReadInv,
         NEW k \in Messages, IsOrdered(Reliability(k)),
         index[k] = orderedRead[Channel(k)], DeliverOrdered(k)
  PROVE  \E b \in Seq(Messages) :
           /\ Len(b) \in Nat \ {0} /\ b[1] = k
           /\ \A d \in 1..Len(b) :
                /\ IsOrdered(Reliability(b[d])) /\ Channel(b[d]) = Channel(k)
                /\ index[b[d]] = index[k] + d - 1
                /\ d > 1 => b[d] \in orderingList
           /\ index[k] + Len(b) <= Len(sent)
           /\ \A j \in orderingList :
                ~ (Channel(j) = Channel(k) /\ index[j] = index[k] + Len(b))
           /\ delivered' = delivered \o b
           /\ orderingList' = orderingList \ {b[d] : d \in 2..Len(b)}
           /\ orderedRead' =
                [orderedRead EXCEPT ![Channel(k)] = index[k] + Len(b)]
           /\ sequencedRead' = sequencedRead
<1> DEFINE c == Channel(k)
           r == Released(c, index[k])
           b == <<k>> \o r
<1>1. /\ Len(sent) \in Nat /\ NumberRange \in Nat /\ 2 * Len(sent) < NumberRange
      /\ c \in Channels
  BY HalfRange, BoundsAssumption, StreamInType DEF NoWrap, TypeOK
<1>2. index[k] \in 0..(Len(sent) - 1) /\ index[k] \in Nat
  BY <1>1, IndexInType DEF IndexInv, Messages
<1>3. /\ r \in Seq(orderingList) /\ index[k] + Len(r) < Len(sent)
      /\ \A d \in 1..Len(r) : Channel(r[d]) = c /\ index[r[d]] = index[k] + d
      /\ Waiting(c, index[k] + Len(r) + 1) = {}
  BY <1>1, <1>2, ReleasedProperties
<1>4. /\ delivered' = Append(delivered, k) \o r
      /\ orderingList' = orderingList \ {r[i] : i \in DOMAIN r}
      /\ orderedRead' = [orderedRead EXCEPT ![c] = (@ + 1 + Len(r)) % NumberRange]
      /\ sequencedRead' = sequencedRead
  BY DEF DeliverOrdered
<1> HIDE DEF r
<1>5. Len(r) \in Nat /\ r \in Seq(Messages) /\ orderingList \subseteq Messages
  <2>1. orderingList \subseteq Messages
    BY DEF TypeOK
  <2>2. Len(r) \in Nat /\ \A d \in 1..Len(r) : r[d] \in orderingList
    BY <1>3, ElementOfSeq
  <2> QED BY <1>3, <2>1, <2>2
<1>6. /\ b \in Seq(Messages) /\ Len(b) = Len(r) + 1 /\ b[1] = k
      /\ \A d \in 2..Len(b) : b[d] = r[d - 1]
  BY <1>5
<1>7. \A d \in 2..Len(b) : /\ d - 1 \in 1..Len(r) /\ d \in Nat
                           /\ b[d] \in orderingList
                           /\ Channel(b[d]) = c /\ index[b[d]] = index[k] + d - 1
                           /\ IsOrdered(Reliability(b[d]))
  <2> SUFFICES ASSUME NEW d \in 2..Len(b)
               PROVE  /\ d - 1 \in 1..Len(r) /\ d \in Nat
                      /\ b[d] \in orderingList
                      /\ Channel(b[d]) = c /\ index[b[d]] = index[k] + d - 1
                      /\ IsOrdered(Reliability(b[d]))
    OBVIOUS
  <2>1. d - 1 \in 1..Len(r) /\ d \in Nat
    BY <1>5, <1>6
  <2>2. r[d - 1] \in orderingList
    BY <1>3, <2>1, ElementOfSeq
  <2>3. b[d] = r[d - 1]
    BY <1>6
  <2>4. IsOrdered(Reliability(b[d]))
    BY <2>2, <2>3 DEF ReadInv, OrderInv
  <2>5. Channel(b[d]) = c /\ index[b[d]] = index[k] + (d - 1)
    BY <1>3, <2>1, <2>3
  <2> HIDE DEF b
  <2> QED BY <1>2, <2>1, <2>2, <2>3, <2>4, <2>5
<1>8. {b[d] : d \in 2..Len(b)} = {r[i] : i \in DOMAIN r}
  <2>1. DOMAIN r = 1..Len(r)
    BY <1>5
  <2>2. \A i \in 1..Len(r) : i + 1 \in 2..Len(b) /\ b[i + 1] = r[i]
    BY <1>5, <1>6
  <2>3. \A d \in 2..Len(b) : d - 1 \in 1..Len(r) /\ b[d] = r[d - 1]
    BY <1>6, <1>7
  <2> HIDE DEF b
  <2>4. {b[d] : d \in 2..Len(b)} \subseteq {r[i] : i \in DOMAIN r}
    BY <2>1, <2>3
  <2>5. \A i \in 1..Len(r) : r[i] \in {b[d] : d \in 2..Len(b)}
    BY <2>2
  <2>6. {r[i] : i \in DOMAIN r} \subseteq {b[d] : d \in 2..Len(b)}
    BY <2>1, <2>5
  <2> QED BY <2>4, <2>6
<1>9. delivered' = delivered \o b
  <2>1. delivered \in Seq(Messages) /\ <<k>> \in Seq(Messages)
    BY DEF ReadInv
  <2>2. Append(delivered, k) = delivered \o <<k>>
    BY <2>1, AppendIsConcat
  <2> QED BY <1>4, <1>5, <2>1, <2>2, ConcatAssociative
<1> HIDE DEF b
<1>10. (orderedRead[c] + 1 + Len(r)) % NumberRange = index[k] + Len(b)
  <2>1. index[k] + Len(b) \in Numbers
    BY <1>1, <1>2, <1>3, <1>5, <1>6 DEF Numbers
  <2>2. orderedRead[c] + 1 + Len(r) = index[k] + Len(b)
    BY <1>2, <1>5, <1>6
  <2> QED BY <2>1, <2>2, ModSmall
<1>11. \A d \in 1..Len(b) :
         /\ IsOrdered(Reliability(b[d])) /\ Channel(b[d]) = c
         /\ index[b[d]] = index[k] + d - 1
         /\ d > 1 => b[d] \in orderingList
  <2> SUFFICES ASSUME NEW d \in 1..Len(b)
               PROVE  /\ IsOrdered(Reliability(b[d])) /\ Channel(b[d]) = c
                      /\ index[b[d]] = index[k] + d - 1
                      /\ d > 1 => b[d] \in orderingList
    OBVIOUS
  <2>1. CASE d = 1
    BY <1>2, <1>6, <2>1
  <2>2. CASE d \in 2..Len(b)
    BY <1>7, <2>2
  <2> QED BY <1>5, <1>6, <2>1, <2>2
<1>12. \A j \in orderingList : ~ (Channel(j) = c /\ index[j] = index[k] + Len(b))
  <2>1. index[k] + Len(r) + 1 = index[k] + Len(b)
    BY <1>2, <1>5, <1>6
  <2> QED BY <1>3, <2>1 DEF Waiting
<1> HIDE DEF c
<1>13. /\ Len(b) \in Nat \ {0} /\ index[k] + Len(b) <= Len(sent)
       /\ orderingList' = orderingList \ {b[d] : d \in 2..Len(b)}
       /\ orderedRead' = [orderedRead EXCEPT ![c] = index[k] + Len(b)]
  <2>1. Len(b) \in Nat \ {0} /\ index[k] + Len(b) <= Len(sent)
    BY <1>1, <1>2, <1>3, <1>5, <1>6
  <2>2. orderedRead' = [orderedRead EXCEPT ![c] = index[k] + Len(b)]
    BY <1>4, <1>10
  <2> QED BY <1>4, <1>8, <2>1, <2>2
<1> QED BY <1>4, <1>6, <1>9, <1>11, <1>12, <1>13 DEF c

\* An ordered message waits for its turn, or takes it with its successors.
LEMMA OrderedStep ==
  ASSUME NoWrap, TypeOK, IndexInv, ReadInv,
         NEW k \in Messages, k \notin DeliveredMessages,
         sent' = sent, index' = index, orderedWrite' = orderedWrite,
         DeliverOrdered(k)
  PROVE  /\ ReadInv'
         /\ DeliveredMessages' \cup orderingList'
              \subseteq DeliveredMessages \cup orderingList \cup {k}
<1> DEFINE c == Channel(k)
<1>1. /\ Len(sent) \in Nat /\ NumberRange \in Nat /\ 2 * Len(sent) < NumberRange
      /\ c \in Channels /\ IsOrdered(Reliability(k)) /\ index[k] \in Nat
      /\ index[k] < Len(sent)
      /\ orderedRead \in [Channels -> Numbers] /\ orderedRead[c] \in Nat
      /\ delivered \in Seq(Messages) /\ orderingList \subseteq Messages
  <2>1. /\ Len(sent) \in Nat /\ NumberRange \in Nat
        /\ 2 * Len(sent) < NumberRange
    BY HalfRange, BoundsAssumption DEF NoWrap, TypeOK
  <2>2. c \in Channels /\ IsOrdered(Reliability(k)) /\ index[k] \in Nat
    BY StreamInType, IndexInType DEF DeliverOrdered
  <2>3. index[k] < k /\ k \in Nat /\ k <= Len(sent)
    BY <2>1 DEF IndexInv, Messages
  <2>4. /\ orderedRead \in [Channels -> Numbers]
        /\ delivered \in Seq(Messages) /\ orderingList \subseteq Messages
    BY DEF ReadInv
  <2>5. orderedRead[c] \in Nat
    BY <2>1, <2>2, <2>4 DEF Numbers
  <2> QED BY <2>1, <2>2, <2>3, <2>4, <2>5
<1>2. CASE index[k] # orderedRead[c]
  <2>1. /\ orderingList' = orderingList \cup {k} /\ delivered' = delivered
        /\ orderedRead' = orderedRead /\ sequencedRead' = sequencedRead
    BY <1>2 DEF DeliverOrdered
  <2>2. index[k] > orderedRead[c]
    BY <1>1, <1>2 DEF ReadInv, OrderInv
  <2> QED BY <1>1, <2>1, <2>2
          DEF ReadInv, OrderInv, SequenceInv, OrderedDelivery, SequencedDelivery,
              NoDuplicateDelivery, DeliveredMessages, Messages, Reliability, Channel
<1>3. CASE index[k] = orderedRead[c]
  <2>1. PICK b \in Seq(Messages) :
          /\ Len(b) \in Nat \ {0} /\ b[1] = k
          /\ \A d \in 1..Len(b) :
               /\ IsOrdered(Reliability(b[d])) /\ Channel(b[d]) = Channel(k)
               /\ index[b[d]] = index[k] + d - 1
               /\ d > 1 => b[d] \in orderingList
          /\ index[k] + Len(b) <= Len(sent)
          /\ \A j \in orderingList :
               ~ (Channel(j) = Channel(k) /\ index[j] = index[k] + Len(b))
          /\ delivered' = delivered \o b
          /\ orderingList' = orderingList \ {b[d] : d \in 2..Len(b)}
          /\ orderedRead' =
               [orderedRead EXCEPT ![Channel(k)] = index[k] + Len(b)]
          /\ sequencedRead' = sequencedRead
    BY <1>1, <1>3, ReleasedBatch
  <2>2. \A d \in 1..Len(b) : b[d] \in Messages /\ d \in Nat
    BY <2>1, ElementOfSeq
  <2>3. delivered' \in Seq(Messages)
    BY <1>1, <2>1, Appended
  <2>4. DeliveredMessages' = DeliveredMessages \cup {b[d] : d \in 1..Len(b)}
    BY <1>1, <2>1, DeliveredAppend
  <2>5. /\ orderedRead' \in [Channels -> Numbers]
        /\ orderedRead'[c] = index[k] + Len(b)
        /\ \A x \in Channels : x # c => orderedRead'[x] = orderedRead[x]
    <3>1. index[k] + Len(b) \in Numbers
      BY <1>1, <2>1 DEF Numbers
    <3> QED BY <1>1, <2>1, <3>1
  \* A message of the channel is in the batch exactly when its index is.
  <2>6. \A j \in Messages :
          (IsOrdered(Reliability(j)) /\ Channel(j) = c
             /\ index[k] <= index[j] /\ index[j] < index[k] + Len(b))
          => /\ index[j] - index[k] + 1 \in 1..Len(b)
             /\ b[index[j] - index[k] + 1] = j
    <3> SUFFICES ASSUME NEW j \in Messages,
                        IsOrdered(Reliability(j)), Channel(j) = c,
                        index[k] <= index[j], index[j] < index[k] + Len(b)
                 PROVE  /\ index[j] - index[k] + 1 \in 1..Len(b)
                        /\ b[index[j] - index[k] + 1] = j
      OBVIOUS
    <3> DEFINE d == index[j] - index[k] + 1
    <3>1. index[j] \in Nat
      BY IndexInType
    <3>2. d \in 1..Len(b) /\ index[k] + d - 1 = index[j]
      <4>1. Len(b) \in Nat /\ index[k] \in Nat
        BY <1>1, <2>1
      <4> QED BY <3>1, <4>1
    <3> HIDE DEF d
    <3>3. /\ IsOrdered(Reliability(b[d])) /\ Channel(b[d]) = c
          /\ index[b[d]] = index[j] /\ b[d] \in Messages
      BY <2>1, <2>2, <3>2
    <3>4. b[d] = j
      BY <3>3, OrderedIndexUnique
    <3> QED BY <3>2, <3>4 DEF d
  <2>7. \A d \in 1..Len(b) :
          /\ index[b[d]] \in Nat /\ index[b[d]] >= index[k]
          /\ index[b[d]] < index[k] + Len(b) /\ b[d] \notin DeliveredMessages
    <3> SUFFICES ASSUME NEW d \in 1..Len(b)
                 PROVE  /\ index[b[d]] \in Nat /\ index[b[d]] >= index[k]
                        /\ index[b[d]] < index[k] + Len(b)
                        /\ b[d] \notin DeliveredMessages
      OBVIOUS
    <3>1. index[b[d]] = index[k] + d - 1 /\ d \in Nat /\ d >= 1 /\ d <= Len(b)
      BY <2>1
    <3>2. /\ index[b[d]] \in Nat /\ index[b[d]] >= index[k]
          /\ index[b[d]] < index[k] + Len(b)
      BY <1>1, <2>1, <3>1, SMTT(40)
    <3>3. ~ (index[b[d]] < orderedRead[c])
      BY <1>1, <1>3, <3>2
    <3> QED BY <2>1, <2>2, <3>2, <3>3 DEF ReadInv, OrderInv
  <2>8. NoDuplicateDelivery'
    <3>1. Promise!AtMostOnce(b)
      <4> SUFFICES ASSUME NEW i \in 1..Len(b), NEW j \in 1..Len(b), b[i] = b[j]
                   PROVE  i = j
        <5>1. DOMAIN b = 1..Len(b)
          OBVIOUS
        <5> QED BY <5>1 DEF Promise!AtMostOnce
      <4>1. index[k] + i - 1 = index[k] + j - 1
        BY <2>1
      <4>2. i \in Nat /\ j \in Nat
        BY <2>2
      <4> QED BY <1>1, <4>1, <4>2
    <3>2. \A i \in 1..Len(delivered), j \in 1..Len(b) : delivered[i] # b[j]
      <4> SUFFICES ASSUME NEW i \in 1..Len(delivered), NEW j \in 1..Len(b),
                          delivered[i] = b[j]
                   PROVE  FALSE
        OBVIOUS
      <4>1. i \in DOMAIN delivered
        BY <1>1
      <4>2. delivered[i] \in DeliveredMessages
        BY <4>1 DEF DeliveredMessages
      <4>3. b[j] \notin DeliveredMessages
        BY <2>7
      <4> QED BY <4>2, <4>3
    <3>3. Promise!AtMostOnce(delivered)
      BY DEF ReadInv, NoDuplicateDelivery
    <3>4. Promise!AtMostOnce(delivered \o b)
      BY <1>1, <3>1, <3>2, <3>3, AtMostOnceExtends
    <3> QED BY <2>1, <3>4 DEF NoDuplicateDelivery
  <2>9. OrderedDelivery'
    <3>1. Promise!InOrder(sent, delivered)
      BY DEF ReadInv, OrderInv, OrderedDelivery
    <3>2. ASSUME NEW j \in 1..Len(b), NEW m \in DOMAIN sent,
                 m < b[j], sent[m] = sent[b[j]], Promise!IsOrdered(sent[m][1])
          PROVE  \/ \E i \in 1..Len(delivered) : delivered[i] = m
                 \/ \E i \in 1..(j - 1) : b[i] = m
      <4>1. m \in Messages /\ b[j] \in Messages
        BY <1>1, <2>2, SMTT(40) DEF Messages, TypeOK
      <4>2. IsOrdered(Reliability(m)) /\ Channel(m) = c
        BY <2>1, <3>2 DEF Reliability, Channel, IsOrdered, Promise!IsOrdered
      <4>3. index[m] < index[b[j]] /\ index[m] \in Nat
        BY <2>1, <3>2, <4>1, <4>2, OrderedIndexUnique, IndexInType
      <4>4. CASE index[m] < index[k]
        <5>1. m \in DeliveredMessages
          BY <1>3, <4>1, <4>2, <4>4 DEF ReadInv, OrderInv
        <5> QED BY <1>1, <5>1 DEF DeliveredMessages
      <4>5. CASE index[m] >= index[k]
        <5> DEFINE i == index[m] - index[k] + 1
        <5>0. /\ index[b[j]] = index[k] + j - 1 /\ index[b[j]] \in Nat
              /\ index[b[j]] < index[k] + Len(b)
              /\ index[k] \in Nat /\ Len(b) \in Nat /\ j \in Nat
          BY <1>1, <2>1, <2>2, <2>7
        <5>1. index[m] < index[k] + Len(b)
          BY <4>3, <5>0
        <5>2. b[i] = m
          BY <2>6, <4>1, <4>2, <4>5, <5>1
        <5>3. i \in 1..(j - 1)
          BY <4>3, <4>5, <5>0, SMTT(40)
        <5> QED BY <5>2, <5>3
      <4> QED BY <1>1, <4>3, <4>4, <4>5, SMTT(40)
    <3>3. Promise!InOrder(sent, delivered \o b)
      BY <1>1, <3>1, <3>2, InOrderExtends
    <3> QED BY <2>1, <3>3 DEF OrderedDelivery
  <2>10. SequencedDelivery'
    <3>1. Promise!InSequence(sent, delivered)
      BY DEF ReadInv, SequenceInv, SequencedDelivery
    <3>2. \A j \in 1..Len(b) : ~Promise!IsSequenced(sent[b[j]][1])
      BY <2>1 DEF Reliability, IsOrdered, Promise!IsSequenced
    <3>3. Promise!InSequence(sent, delivered \o b)
      BY <1>1, <3>1, <3>2, InSequenceExtends
    <3> QED BY <2>1, <3>3 DEF SequencedDelivery
  <2>11. OrderInv'
    <3>1. \A x \in Channels : orderedRead'[x] <= orderedWrite[x]
      <4> DEFINE l == b[Len(b)]
      <4>1. /\ Len(b) \in Nat /\ Len(b) \in 1..Len(b) /\ l \in Messages
            /\ IsOrdered(Reliability(l)) /\ Channel(l) = c
            /\ index[l] = index[k] + Len(b) - 1
        BY <2>1, <2>2
      <4>2. index[l] < orderedWrite[c] /\ orderedWrite[c] \in Nat
        BY <1>1, <4>1, SMTT(40) DEF IndexInv, TypeOK, Numbers
      <4>3. index[k] + Len(b) <= orderedWrite[c]
        BY <1>1, <4>1, <4>2
      <4> QED BY <2>5, <4>3 DEF ReadInv, OrderInv
    <3>2. ASSUME NEW j \in Messages, IsOrdered(Reliability(j))
          PROVE  j \in DeliveredMessages' <=> index[j] < orderedRead'[Channel(j)]
      <4>1. /\ index[j] \in Nat /\ Channel(j) \in Channels
            /\ (j \in DeliveredMessages <=> index[j] < orderedRead[Channel(j)])
        BY <3>2, IndexInType, StreamInType DEF ReadInv, OrderInv
      <4>2. CASE Channel(j) # c
        <5>1. j \notin {b[d] : d \in 1..Len(b)}
          BY <2>1, <4>2
        <5> QED BY <2>4, <2>5, <4>1, <4>2, <5>1
      <4>3. CASE Channel(j) = c /\ index[j] < index[k]
        <5>1. index[j] < orderedRead'[Channel(j)]
          BY <1>1, <2>1, <2>5, <4>1, <4>3
        <5> QED BY <1>3, <2>4, <4>1, <4>3, <5>1
      <4>4. CASE /\ Channel(j) = c /\ index[k] <= index[j]
                 /\ index[j] < index[k] + Len(b)
        <5>1. j \in {b[d] : d \in 1..Len(b)}
          BY <2>6, <3>2, <4>4
        <5> QED BY <2>4, <2>5, <4>4, <5>1
      <4>5. CASE Channel(j) = c /\ ~ (index[j] < index[k] + Len(b))
        <5>1. j \notin {b[d] : d \in 1..Len(b)}
          BY <2>7, <4>5
        <5>2. ~ (index[j] < orderedRead[Channel(j)])
          BY <1>1, <1>3, <2>1, <4>1, <4>5
        <5> QED BY <2>4, <2>5, <4>1, <4>5, <5>1, <5>2
      <4> QED BY <1>1, <2>1, <4>1, <4>2, <4>3, <4>4, <4>5
    <3>3. ASSUME NEW j \in orderingList'
          PROVE  IsOrdered(Reliability(j)) /\ index[j] > orderedRead'[Channel(j)]
      <4>1. /\ j \in orderingList /\ j \in Messages
            /\ j \notin {b[d] : d \in 2..Len(b)}
        BY <1>1, <2>1, <3>3
      <4>2. /\ IsOrdered(Reliability(j)) /\ index[j] > orderedRead[Channel(j)]
            /\ index[j] \in Nat /\ Channel(j) \in Channels
        BY <4>1, IndexInType, StreamInType DEF ReadInv, OrderInv
      <4>3. CASE Channel(j) # c
        BY <2>5, <4>2, <4>3
      <4>4. CASE Channel(j) = c
        <5>1. index[j] # index[k] + Len(b) /\ index[j] > index[k]
          BY <1>3, <2>1, <4>1, <4>2, <4>4
        <5>2. ~ (index[j] < index[k] + Len(b))
          <6>1. SUFFICES ASSUME index[j] < index[k] + Len(b) PROVE FALSE
            OBVIOUS
          <6>2. index[j] - index[k] + 1 \in 2..Len(b)
            <7>1. Len(b) \in Nat /\ index[k] \in Nat
              BY <1>1, <2>1
            <7> QED BY <4>2, <5>1, <6>1, <7>1
          <6>3. b[index[j] - index[k] + 1] = j
            BY <1>1, <2>6, <4>1, <4>2, <4>4, <5>1, <6>1
          <6> QED BY <4>1, <6>2, <6>3
        <5>3. /\ orderedRead'[Channel(j)] = index[k] + Len(b)
              /\ index[k] \in Nat /\ Len(b) \in Nat
          BY <1>1, <2>1, <2>5, <4>4
        <5>4. index[j] > index[k] + Len(b)
          BY <4>2, <5>1, <5>2, <5>3
        <5> QED BY <4>2, <5>3, <5>4
      <4> QED BY <4>2, <4>3, <4>4
    <3> QED BY <2>9, <3>1, <3>2, <3>3
            DEF OrderInv, Messages, Reliability, Channel
  <2>12. SequenceInv'
    <3>1. \A x \in {b[d] : d \in 1..Len(b)} : ~IsSequenced(Reliability(x))
      BY <2>1 DEF IsOrdered, IsSequenced
    <3> QED BY <2>1, <2>4, <2>10, <3>1
            DEF ReadInv, SequenceInv, Reliability, Channel
  <2>13. {b[d] : d \in 1..Len(b)} \subseteq orderingList \cup {k}
    <3>1. \A d \in 1..Len(b) : d = 1 \/ d > 1
      BY <2>1
    <3> QED BY <2>1, <3>1
  <2> QED BY <1>1, <2>1, <2>3, <2>4, <2>5, <2>8, <2>11, <2>12, <2>13
          DEF ReadInv, Messages
<1> QED BY <1>2, <1>3

-----------------------------------------------------------------------------
(* The invariant.                                                          *)

\* The first state of a connection satisfies the invariant.
LEMMA InitDelivery == Init => DeliveryInv
<1> SUFFICES ASSUME Init PROVE DeliveryInv
  OBVIOUS
<1>1. /\ Len(sent) = 0 /\ Messages = {} /\ DOMAIN delivered = {}
      /\ DeliveredMessages = {} /\ orderingList = {}
  BY DEF Init, Messages, DeliveredMessages
<1>2. TypeOK
  <2>1. 0 \in Numbers /\ MaxMessages \in Nat
    BY NumberRangeAssumption, BoundsAssumption DEF Numbers
  <2>2. /\ sent = <<>> /\ index = <<>> /\ hasReceived = <<>> /\ delivered = <<>>
        /\ now = 1 /\ lastAckTime = 0 /\ base = 0 /\ deadConnection = FALSE
        /\ sendPacketSet = {} /\ resendList = {} /\ inFlight = {}
        /\ acksInFlight = {} /\ acknowledgements = {} /\ orderingList = {}
    BY DEF Init
  <2>3. /\ orderedWrite \in [Channels -> Numbers]
        /\ sequencedWrite \in [Channels -> Numbers]
        /\ orderedRead \in [Channels -> Numbers]
        /\ sequencedRead \in [Channels -> Numbers]
    BY <2>1 DEF Init
  <2>4. /\ sent \in Seq(Streams) /\ index \in Seq(Numbers)
        /\ Len(index) = Len(sent) /\ Len(sent) <= MaxMessages
        /\ hasReceived \in Seq(Nat) /\ delivered \in Seq(Messages)
    BY <2>1, <2>2
  <2>5. /\ lastAckTime \in 0..now /\ now \in Nat \ {0}
        /\ base \in Numbers /\ deadConnection \in BOOLEAN
    <3>1. base \in Numbers /\ deadConnection \in BOOLEAN
      BY <2>1, <2>2
    <3>2. lastAckTime \in 0..now /\ now \in Nat \ {0}
      BY ONLY <2>2
    <3> QED BY <3>1, <3>2
  <2>6. /\ sendPacketSet \subseteq Messages /\ resendList \subseteq Messages
        /\ inFlight \subseteq Messages /\ acksInFlight \subseteq Messages
        /\ acknowledgements \subseteq Messages /\ orderingList \subseteq Messages
    BY <2>2
  <2> QED BY <2>3, <2>4, <2>5, <2>6 DEF TypeOK
<1>3. WindowInv /\ IndexInv
  BY <1>1 DEF Init, WindowInv, IndexInv
<1>4. OrderInv /\ SequenceInv /\ NoDuplicateDelivery
  BY <1>1 DEF Init, OrderInv, SequenceInv, NoDuplicateDelivery, OrderedDelivery,
              SequencedDelivery, Promise!InOrder, Promise!InSequence,
              Promise!AtMostOnce
<1> QED BY <1>2, <1>3, <1>4 DEF DeliveryInv

\* The invariant does not mention what only the network and the resends change.
LEMMA UndisturbedInv ==
  ASSUME DeliveryInv, TypeOK',
         UNCHANGED <<sent, index, orderedWrite, sequencedWrite, base,
                     hasReceived, readVars>>
  PROVE  DeliveryInv'
<1>1. /\ sent' = sent /\ index' = index /\ orderedWrite' = orderedWrite
      /\ sequencedWrite' = sequencedWrite /\ base' = base
      /\ hasReceived' = hasReceived /\ orderedRead' = orderedRead
      /\ sequencedRead' = sequencedRead /\ orderingList' = orderingList
      /\ delivered' = delivered
  BY DEF readVars
<1>2. WindowInv'
  BY <1>1 DEF DeliveryInv, WindowInv, Received, DeliveredMessages
<1>3. IndexInv'
  BY <1>1 DEF DeliveryInv, IndexInv, Messages, Reliability, Channel
<1>4. OrderInv' /\ SequenceInv' /\ NoDuplicateDelivery'
  BY <1>1 DEF DeliveryInv, OrderInv, SequenceInv, NoDuplicateDelivery,
              OrderedDelivery, SequencedDelivery, DeliveredMessages, Messages,
              Reliability, Channel
<1> QED BY <1>2, <1>3, <1>4 DEF DeliveryInv

\* Receiving a message keeps the invariant, whether the window takes it or not.
LEMMA ReceiveMessageInv ==
  ASSUME NoWrap, DeliveryInv, NEW k \in Messages, ReceiveMessage(k)
  PROVE  DeliveryInv'
<1> DEFINE h == HoleCount(Number(k), base)
<1>1. /\ TypeOK /\ WindowInv /\ IndexInv /\ ReadInv
  BY DEF DeliveryInv, ReadInv, TypeOK
<1>2. /\ sent' = sent /\ index' = index /\ orderedWrite' = orderedWrite
      /\ sequencedWrite' = sequencedWrite /\ sendPacketSet' = sendPacketSet
      /\ resendList' = resendList /\ lastAckTime' = lastAckTime
      /\ deadConnection' = deadConnection /\ acksInFlight' = acksInFlight
      /\ now' = now
  BY DEF ReceiveMessage, senderVars, resendVars
<1>3. inFlight' \subseteq Messages /\ acknowledgements' \subseteq Messages
  BY <1>1 DEF ReceiveMessage, AcknowledgementsAfter, TypeOK
<1>4. CASE IsDuplicate(h)
  <2>1. UNCHANGED <<windowVars, readVars>>
    BY <1>4 DEF ReceiveMessage
  <2>2. TypeOK'
    BY <1>1, <1>2, <1>3, <2>1 DEF TypeOK, Messages, windowVars, readVars
  <2> QED BY <1>2, <2>1, <2>2, UndisturbedInv DEF windowVars
<1>5. CASE ~IsDuplicate(h)
  <2>1. MoveWindow(h) /\ (DeliverSequenced(k) \/ DeliverOrdered(k) \/ DeliverAtOnce(k))
    BY <1>5 DEF ReceiveMessage
  <2>2. /\ ~Received(k) /\ Received(k)'
        /\ \A j \in Messages : Received(j) => Received(j)'
        /\ base' \in Numbers /\ hasReceived' \in Seq(Nat)
        /\ base' + Len(hasReceived') <= Len(sent)
    BY <1>1, <1>2, <1>5, <2>1, WindowStep DEF WindowInv
  <2>3. k \notin DeliveredMessages
    BY <1>1, <2>2 DEF WindowInv
  <2>4. /\ ReadInv'
        /\ DeliveredMessages' \cup orderingList'
             \subseteq DeliveredMessages \cup orderingList \cup {k}
    <3>1. CASE DeliverSequenced(k)
      BY <1>1, <1>2, <2>3, <3>1, SequencedStep
    <3>2. CASE DeliverOrdered(k)
      BY <1>1, <1>2, <2>3, <3>2, OrderedStep
    <3>3. CASE DeliverAtOnce(k)
      BY <1>1, <1>2, <2>3, <3>3, AtOnceStep
    <3> QED BY <2>1, <3>1, <3>2, <3>3
  <2>5. TypeOK'
    BY <1>1, <1>2, <1>3, <2>2, <2>4 DEF TypeOK, ReadInv, Messages
  <2>6. WindowInv'
    <3>1. DeliveredMessages \cup orderingList \subseteq Messages
      BY <1>1 DEF TypeOK, DeliveredMessages
    <3>2. \A j \in DeliveredMessages' \cup orderingList' : Received(j)'
      BY <1>1, <2>2, <2>4, <3>1 DEF WindowInv
    <3> QED BY <1>2, <2>2, <3>2 DEF WindowInv, Received
  <2>7. IndexInv'
    BY <1>1, <1>2 DEF IndexInv, Messages, Reliability, Channel
  <2> QED BY <2>4, <2>5, <2>6, <2>7 DEF DeliveryInv, ReadInv
<1> QED BY <1>4, <1>5

\* Sending a message keeps the invariant: its index lies above every index of
\* its stream, and nothing that was delivered depends on it.
LEMMA SendInv ==
  ASSUME NoWrap, DeliveryInv, NEW s \in Streams, Send(s)
  PROVE  DeliveryInv'
<1>0. PICK n : n = Len(sent)
  OBVIOUS
<1> DEFINE m == n + 1
<1>1. /\ TypeOK /\ WindowInv /\ IndexInv /\ OrderInv /\ SequenceInv
      /\ NoDuplicateDelivery
  BY DEF DeliveryInv
<1>2. /\ sent' = Append(sent, s) /\ sendPacketSet' = sendPacketSet \cup {m}
      /\ resendList' = resendList /\ lastAckTime' = lastAckTime
      /\ deadConnection' = deadConnection /\ inFlight' = inFlight
      /\ acksInFlight' = acksInFlight /\ now' = now /\ base' = base
      /\ hasReceived' = hasReceived /\ acknowledgements' = acknowledgements
      /\ orderedRead' = orderedRead /\ sequencedRead' = sequencedRead
      /\ orderingList' = orderingList /\ delivered' = delivered
      /\ n < MaxMessages
  BY <1>0 DEF Send, resendVars, receiverVars, windowVars, readVars
<1>3. /\ n \in Nat /\ m \in Nat /\ NumberRange \in Nat
      /\ MaxMessages \in Nat /\ 2 * m < NumberRange /\ m <= MaxMessages
      /\ sent \in Seq(Streams) /\ index \in Seq(Numbers) /\ Len(index) = n
  BY <1>0, <1>1, <1>2, HalfRange, BoundsAssumption DEF NoWrap, TypeOK
<1>4. /\ sent' \in Seq(Streams) /\ Len(sent') = m /\ sent'[m] = s
      /\ \A k \in 1..n : sent'[k] = sent[k]
  BY <1>0, <1>2, <1>3
<1>5. /\ Messages' = Messages \cup {m} /\ Messages = 1..n
      /\ \A k \in Messages : k \in Nat /\ k < m
  BY <1>0, <1>3, <1>4 DEF Messages
<1>6. s[2] \in Channels
  BY DEF Channels
\* What Send writes: an index, and the write position it came from.
<1>7. /\ \A c \in Channels : /\ orderedWrite[c] \in Nat /\ orderedWrite[c] <= n
                             /\ sequencedWrite[c] \in Nat /\ sequencedWrite[c] <= n
      /\ orderedWrite \in [Channels -> Numbers]
      /\ sequencedWrite \in [Channels -> Numbers]
  BY <1>0, <1>1, <1>3 DEF TypeOK, IndexInv, Numbers
<1>8. \A x \in Nat : x <= n => (x + 1) % NumberRange = x + 1
  BY <1>3, ModSmall DEF Numbers
<1>9. PICK i \in Nat :
        /\ index' = Append(index, i) /\ i <= n
        /\ IsOrdered(s[1]) => i = orderedWrite[s[2]]
        /\ IsSequenced(s[1]) => i = sequencedWrite[s[2]]
        /\ orderedWrite' = IF IsOrdered(s[1])
                           THEN [orderedWrite EXCEPT ![s[2]] = i + 1]
                           ELSE orderedWrite
        /\ sequencedWrite' = IF IsSequenced(s[1])
                             THEN [sequencedWrite EXCEPT ![s[2]] = i + 1]
                             ELSE sequencedWrite
  <2>1. ~ (IsOrdered(s[1]) /\ IsSequenced(s[1]))
    BY DEF IsOrdered, IsSequenced
  <2>2. CASE IsOrdered(s[1])
    <3>1. /\ index' = Append(index, orderedWrite[s[2]])
          /\ sequencedWrite' = sequencedWrite
          /\ orderedWrite' = [orderedWrite EXCEPT
                                ![s[2]] = (orderedWrite[s[2]] + 1) % NumberRange]
      BY <2>1, <2>2 DEF Send
    <3> QED BY <1>6, <1>7, <1>8, <2>1, <2>2, <3>1
  <2>3. CASE IsSequenced(s[1])
    <3>1. /\ index' = Append(index, sequencedWrite[s[2]])
          /\ orderedWrite' = orderedWrite
          /\ sequencedWrite' = [sequencedWrite EXCEPT
                                ![s[2]] = (sequencedWrite[s[2]] + 1) % NumberRange]
      BY <2>1, <2>3 DEF Send
    <3> QED BY <1>6, <1>7, <1>8, <2>1, <2>3, <3>1
  <2>4. CASE ~IsOrdered(s[1]) /\ ~IsSequenced(s[1])
    <3>1. /\ index' = Append(index, 0) /\ orderedWrite' = orderedWrite
          /\ sequencedWrite' = sequencedWrite
      BY <2>4 DEF Send
    <3> QED BY <1>3, <2>4, <3>1
  <2> QED BY <2>2, <2>3, <2>4
<1>10. /\ index' \in Seq(Numbers) /\ Len(index') = m /\ index'[m] = i
       /\ \A k \in 1..n : index'[k] = index[k]
  <2>1. i \in Numbers
    BY <1>3, <1>9 DEF Numbers
  <2> QED BY <1>3, <1>9, <2>1
<1>10a. i + 1 \in Numbers /\ i + 1 \in Nat /\ i + 1 <= m
  BY <1>3, <1>9 DEF Numbers
<1>11. /\ \A c \in Channels :
            /\ orderedWrite'[c] \in Nat /\ orderedWrite'[c] <= m
            /\ orderedWrite[c] <= orderedWrite'[c]
       /\ orderedWrite' \in [Channels -> Numbers]
       /\ IsOrdered(s[1]) => i < orderedWrite'[s[2]]
  <2>1. CASE IsOrdered(s[1])
    <3>1. orderedWrite' = [orderedWrite EXCEPT ![s[2]] = i + 1]
          /\ i = orderedWrite[s[2]]
      BY <1>9, <2>1
    <3> QED BY <1>3, <1>6, <1>7, <1>10a, <3>1
  <2>2. CASE ~IsOrdered(s[1])
    BY <1>3, <1>7, <1>9, <2>2
  <2> QED BY <2>1, <2>2
<1>11s. /\ \A c \in Channels :
             /\ sequencedWrite'[c] \in Nat /\ sequencedWrite'[c] <= m
             /\ sequencedWrite[c] <= sequencedWrite'[c]
        /\ sequencedWrite' \in [Channels -> Numbers]
        /\ IsSequenced(s[1]) => i < sequencedWrite'[s[2]]
  <2>1. CASE IsSequenced(s[1])
    <3>1. sequencedWrite' = [sequencedWrite EXCEPT ![s[2]] = i + 1]
          /\ i = sequencedWrite[s[2]]
      BY <1>9, <2>1
    <3> QED BY <1>3, <1>6, <1>7, <1>10a, <3>1
  <2>2. CASE ~IsSequenced(s[1])
    BY <1>3, <1>7, <1>9, <2>2
  <2> QED BY <2>1, <2>2
<1>m. m \in Nat /\ m = n + 1
  BY <1>3
<1> HIDE DEF m
<1>12. /\ Reliability(m)' = s[1] /\ Channel(m)' = s[2]
       /\ \A k \in Messages : /\ Reliability(k)' = Reliability(k)
                              /\ Channel(k)' = Channel(k)
                              /\ index'[k] = index[k]
  BY <1>4, <1>5, <1>10 DEF Reliability, Channel
<1>13. TypeOK'
  <2>1. sendPacketSet' \subseteq Messages'
    BY <1>1, <1>2, <1>5 DEF TypeOK
  <2>2. delivered' \in Seq(Messages')
    <3>1. delivered \in Seq(Messages) /\ Messages \subseteq Messages'
      BY <1>1, <1>5 DEF TypeOK
    <3> DEFINE M == Messages'
    <3> HIDE DEF M
    <3>2. Messages \subseteq M
      BY <3>1 DEF M
    <3>3. delivered \in Seq(M)
      BY <3>1, <3>2
    <3> QED BY <1>2, <3>3 DEF M
  <2> QED BY <1>1, <1>2, <1>3, <1>4, <1>5, <1>10, <1>11, <1>11s, <2>1, <2>2
          DEF TypeOK
<1>14. \A k \in DeliveredMessages \cup orderingList : k \in Messages
  BY <1>1 DEF TypeOK, DeliveredMessages
<1>15. DeliveredMessages' = DeliveredMessages
  BY <1>2 DEF DeliveredMessages
<1>16. WindowInv'
  <2>1. base + Len(hasReceived) <= m
    <3>1. base \in Nat /\ Len(hasReceived) \in Nat /\ base + Len(hasReceived) <= n
      BY <1>0, <1>1, <1>3 DEF WindowInv, TypeOK, Numbers
    <3> QED BY <1>m, <1>3, <3>1
  <2> QED BY <1>1, <1>2, <1>4, <1>15, <2>1 DEF WindowInv, Received
<1>17. IndexInv'
  <2>1. \A k \in Messages' : index'[k] < k
    BY <1>m, <1>1, <1>3, <1>5, <1>9, <1>10, <1>12 DEF IndexInv
  <2>2. ASSUME NEW k \in Messages'
        PROVE  /\ IsOrdered(Reliability(k)') => index'[k] < orderedWrite'[Channel(k)']
               /\ IsSequenced(Reliability(k)') => index'[k] < sequencedWrite'[Channel(k)']
    <3>1. CASE k = m
      BY <1>10, <1>11, <1>11s, <1>12, <3>1
    <3>2. CASE k \in Messages
      <4>1. index[k] \in Nat /\ Channel(k) \in Channels
        BY <1>1, <3>2, IndexInType, StreamInType
      <4>2. /\ orderedWrite[Channel(k)] \in Nat /\ sequencedWrite[Channel(k)] \in Nat
            /\ orderedWrite'[Channel(k)] \in Nat /\ sequencedWrite'[Channel(k)] \in Nat
            /\ orderedWrite[Channel(k)] <= orderedWrite'[Channel(k)]
            /\ sequencedWrite[Channel(k)] <= sequencedWrite'[Channel(k)]
        BY <1>7, <1>11, <1>11s, <4>1
      <4>3. /\ IsOrdered(Reliability(k)) => index[k] < orderedWrite[Channel(k)]
            /\ IsSequenced(Reliability(k)) => index[k] < sequencedWrite[Channel(k)]
        BY <1>1, <3>2 DEF IndexInv
      <4>4. /\ IsOrdered(Reliability(k)) => index[k] < orderedWrite'[Channel(k)]
            /\ IsSequenced(Reliability(k)) => index[k] < sequencedWrite'[Channel(k)]
        BY <4>1, <4>2, <4>3
      <4> QED BY <1>12, <3>2, <4>4
    <3> QED BY <1>5, <3>1, <3>2
  <2>3. ASSUME NEW j \in Messages', NEW k \in Messages',
               j < k, Channel(j)' = Channel(k)',
               \/ IsOrdered(Reliability(j)') /\ IsOrdered(Reliability(k)')
               \/ IsSequenced(Reliability(j)') /\ IsSequenced(Reliability(k)')
        PROVE  index'[j] < index'[k]
    <3>1. j \in Messages
      BY <1>3, <1>5, <2>3
    <3>2. CASE k \in Messages
      BY <1>1, <1>12, <2>3, <3>1, <3>2 DEF IndexInv
    <3>3. CASE k = m
      <4>1. /\ Reliability(k)' = s[1] /\ Channel(k)' = s[2] /\ index'[k] = i
            /\ Reliability(j)' = Reliability(j) /\ Channel(j)' = Channel(j)
            /\ index'[j] = index[j]
        BY <1>10, <1>12, <3>1, <3>3
      <4>2. CASE IsOrdered(Reliability(j)) /\ IsOrdered(s[1])
        BY <1>1, <1>9, <2>3, <3>1, <4>1, <4>2 DEF IndexInv
      <4>3. CASE IsSequenced(Reliability(j)) /\ IsSequenced(s[1])
        BY <1>1, <1>9, <2>3, <3>1, <4>1, <4>3 DEF IndexInv
      <4> QED BY <2>3, <4>1, <4>2, <4>3
    <3> QED BY <1>5, <3>2, <3>3
  <2>4. \A c \in Channels :
          orderedWrite'[c] <= Len(sent') /\ sequencedWrite'[c] <= Len(sent')
    BY <1>4, <1>11, <1>11s
  <2> QED BY <2>1, <2>2, <2>3, <2>4 DEF IndexInv, IsOrdered, IsSequenced
<1>18. \A k \in Messages' \ Messages :
         /\ k = m /\ k \notin DeliveredMessages
  BY <1>3, <1>5, <1>14
<1>19. OrderedDelivery' /\ SequencedDelivery' /\ NoDuplicateDelivery'
  <2>1. \A x \in DOMAIN delivered : delivered[x] \in Messages
    BY <1>1 DEF TypeOK
  <2>2. DOMAIN sent' = DOMAIN sent \cup {m} /\ DOMAIN sent = Messages
        /\ \A k \in Messages : sent'[k] = sent[k]
    <3>1. DOMAIN sent' = 1..m /\ DOMAIN sent = 1..n
      BY <1>0, <1>3, <1>4
    <3>2. 1..m = (1..n) \cup {m}
      BY <1>m, <1>3
    <3> QED BY <1>4, <1>5, <3>1, <3>2
  <2>3. \A x \in DOMAIN delivered : ~ (m < delivered[x])
    BY <1>3, <1>5, <2>1
  <2>4. OrderedDelivery'
    BY <1>1, <1>2, <2>1, <2>2, <2>3
    DEF OrderInv, OrderedDelivery, Promise!InOrder
  <2>5. SequencedDelivery'
    BY <1>1, <1>2, <2>1, <2>2
    DEF SequenceInv, SequencedDelivery, Promise!InSequence
  <2> QED BY <1>1, <1>2, <2>4, <2>5 DEF NoDuplicateDelivery
<1>20. OrderInv'
  <2>1. \A c \in Channels : orderedRead'[c] <= orderedWrite'[c]
    <3>1. \A c \in Channels : orderedRead[c] <= orderedWrite[c]
                              /\ orderedRead[c] \in Nat
      BY <1>1, <1>3 DEF OrderInv, TypeOK, Numbers
    <3> QED BY <1>2, <1>7, <1>11, <1>11s, <3>1
  <2>2. ASSUME NEW k \in Messages', IsOrdered(Reliability(k)')
        PROVE  k \in DeliveredMessages' <=> index'[k] < orderedRead'[Channel(k)']
    <3>1. CASE k \in Messages
      BY <1>1, <1>2, <1>12, <1>15, <2>2, <3>1 DEF OrderInv
    <3>2. CASE k = m
      <4>1. orderedRead[s[2]] <= orderedWrite[s[2]]
        BY <1>1, <1>6 DEF OrderInv
      <4>2. orderedRead[s[2]] \in Nat
        BY <1>1, <1>3, <1>6 DEF TypeOK, Numbers
      <4>3. IsOrdered(s[1]) /\ index'[k] = orderedWrite[s[2]]
        BY <1>9, <1>10, <1>12, <2>2, <3>2
      <4>4. ~ (index'[k] < orderedRead'[Channel(k)'])
        BY <1>2, <1>6, <1>7, <1>12, <3>2, <4>1, <4>2, <4>3
      <4>5. k \notin DeliveredMessages'
        BY <1>15, <1>m, <1>3, <1>5, <1>14, <3>2
      <4> QED BY <4>4, <4>5
    <3> QED BY <1>5, <3>1, <3>2
  <2> QED BY <1>1, <1>2, <1>12, <1>14, <1>19, <2>1, <2>2 DEF OrderInv
<1>21. SequenceInv'
  <2>1. \A c \in Channels : sequencedRead'[c] <= Len(sent')
    <3>1. \A c \in Channels : sequencedRead[c] <= n /\ sequencedRead[c] \in Nat
      BY <1>0, <1>1, <1>3 DEF SequenceInv, TypeOK, Numbers
    <3> QED BY <1>m, <1>2, <1>3, <1>4, <3>1
  <2> QED BY <1>1, <1>2, <1>12, <1>14, <1>15, <1>19, <2>1 DEF SequenceInv
<1> QED BY <1>13, <1>16, <1>17, <1>19, <1>20, <1>21 DEF DeliveryInv

\* Every step of a connection keeps the invariant.
LEMMA NextDelivery == NoWrap /\ DeliveryInv /\ [Next]_vars => DeliveryInv'
<1> SUFFICES ASSUME NoWrap, DeliveryInv, [Next]_vars PROVE DeliveryInv'
  OBVIOUS
<1> USE DEF senderVars, resendVars, windowVars, readVars, receiverVars
<1>1. TypeOK
  BY DEF DeliveryInv
<1>2. ASSUME NEW s \in Streams, Send(s) PROVE DeliveryInv'
  BY <1>2, SendInv
<1>3. ASSUME NEW k \in Messages, Transmit(k) PROVE DeliveryInv'
  <2>1. /\ sendPacketSet' \subseteq Messages /\ inFlight' \subseteq Messages
        /\ resendList' \subseteq Messages
    BY <1>1, <1>3 DEF Transmit, TypeOK
  <2>2. lastAckTime' \in 0..now
    BY <1>1, <1>3 DEF Transmit, StartAckTimer, TypeOK
  <2>3. TypeOK'
    BY <1>1, <1>3, <2>1, <2>2 DEF Transmit, TypeOK, Messages
  <2> QED BY <1>3, <2>3, UndisturbedInv DEF Transmit
<1>4. ASSUME NEW k \in Messages, Resend(k) PROVE DeliveryInv'
  <2>1. TypeOK'
    BY <1>1, <1>4 DEF Resend, TypeOK, Messages
  <2> QED BY <1>4, <2>1, UndisturbedInv DEF Resend
<1>5. ASSUME NEW k \in Messages, ReceiveMessage(k) PROVE DeliveryInv'
  BY <1>5, ReceiveMessageInv
<1>6. ASSUME NEW k \in Messages, ReceiveAck(k) PROVE DeliveryInv'
  <2>1. resendList' \subseteq Messages /\ acksInFlight' \subseteq Messages
    BY <1>1, <1>6 DEF ReceiveAck, RemovePacketFromResendList, TypeOK
  <2>2. lastAckTime' \in 0..now
    BY <1>1, <1>6 DEF ReceiveAck, AfterAck, TypeOK
  <2>3. TypeOK'
    BY <1>1, <1>6, <2>1, <2>2 DEF ReceiveAck, TypeOK, Messages
  <2> QED BY <1>6, <2>3, UndisturbedInv DEF ReceiveAck
<1>7. CASE SendAcks
  <2>1. acksInFlight' \subseteq Messages /\ acknowledgements' \subseteq Messages
    BY <1>1, <1>7 DEF SendAcks, TypeOK
  <2>2. TypeOK'
    BY <1>1, <1>7, <2>1 DEF SendAcks, TypeOK, Messages
  <2> QED BY <1>7, <2>2, UndisturbedInv DEF SendAcks
<1>8. CASE DeclareDead
  <2>1. TypeOK'
    BY <1>1, <1>8 DEF DeclareDead, TypeOK, Messages
  <2> QED BY <1>8, <2>1, UndisturbedInv DEF DeclareDead
<1>9. CASE Lose
  <2>1. inFlight' \subseteq Messages /\ acksInFlight' \subseteq Messages
    BY <1>1, <1>9 DEF Lose, TypeOK
  <2>2. TypeOK'
    BY <1>1, <1>9, <2>1 DEF Lose, TypeOK, Messages
  <2> QED BY <1>9, <2>2, UndisturbedInv DEF Lose
<1>10. CASE Tick
  <2>1. lastAckTime' \in 0..now' /\ now' \in Nat \ {0}
    BY <1>1, <1>10 DEF Tick, TypeOK
  <2>2. TypeOK'
    BY <1>1, <1>10, <2>1 DEF Tick, TypeOK, Messages
  <2> QED BY <1>10, <2>2, UndisturbedInv DEF Tick
<1>11. CASE UNCHANGED vars
  <2>1. TypeOK'
    BY <1>1, <1>11 DEF vars, TypeOK, Messages
  <2> QED BY <1>11, <2>1, UndisturbedInv DEF vars
<1> QED
  BY <1>2, <1>3, <1>4, <1>5, <1>6, <1>7, <1>8, <1>9, <1>10, <1>11 DEF Next

-----------------------------------------------------------------------------
(* The theorems.                                                           *)

\* The receive window, the ordering indices and the read positions of a
\* connection whose numbers have not wrapped agree at every moment.
THEOREM Delivery == ASSUME NoWrap PROVE Spec => []DeliveryInv
<1>1. NoWrap /\ Init => DeliveryInv
  BY InitDelivery
<1>2. DeliveryInv /\ [Next]_vars => DeliveryInv'
  BY NextDelivery
<1> QED BY <1>1, <1>2, PTL DEF Spec

\* Every variable keeps its type.
THEOREM Types == ASSUME NoWrap PROVE Spec => []TypeOK
<1>1. DeliveryInv => TypeOK
  BY DEF DeliveryInv
<1> QED BY <1>1, Delivery, PTL

\* No message is handed to the user twice, however often datagrams repeat.
THEOREM NoDuplicates == ASSUME NoWrap PROVE Spec => []NoDuplicateDelivery
<1>1. DeliveryInv => NoDuplicateDelivery
  BY DEF DeliveryInv
<1> QED BY <1>1, Delivery, PTL

\* Every ordered channel is delivered in order and without gaps.
THEOREM Ordered == ASSUME NoWrap PROVE Spec => []OrderedDelivery
<1>1. DeliveryInv => OrderedDelivery
  BY DEF DeliveryInv, OrderInv
<1> QED BY <1>1, Delivery, PTL

\* No sequenced message follows a later one of its channel.
THEOREM Sequenced == ASSUME NoWrap PROVE Spec => []SequencedDelivery
<1>1. DeliveryInv => SequencedDelivery
  BY DEF DeliveryInv, SequenceInv
<1> QED BY <1>1, Delivery, PTL

\* A received message extends what was delivered, at its end, or leaves it.
LEMMA DeliveredGrows ==
  ASSUME NoWrap, DeliveryInv, NEW k \in Messages, ReceiveMessage(k)
  PROVE  \/ delivered' = delivered
         \/ \E b \in Seq(Messages) :
               Len(b) \in Nat \ {0} /\ delivered' = delivered \o b
<1>1. TypeOK /\ IndexInv /\ ReadInv /\ delivered \in Seq(Messages)
  BY DEF DeliveryInv, ReadInv, TypeOK
<1>2. \/ UNCHANGED <<windowVars, readVars>>
      \/ DeliverSequenced(k) \/ DeliverOrdered(k) \/ DeliverAtOnce(k)
  BY DEF ReceiveMessage
<1>3. CASE UNCHANGED <<windowVars, readVars>>
  BY <1>3 DEF readVars
<1>4. CASE delivered' = Append(delivered, k)
  <2> DEFINE b == <<k>>
  <2>1. b \in Seq(Messages) /\ Len(b) \in Nat \ {0}
    OBVIOUS
  <2>2. Append(delivered, k) = delivered \o b
    BY <1>1, AppendIsConcat
  <2> HIDE DEF b
  <2> QED BY <1>4, <2>1, <2>2
<1>5. CASE DeliverOrdered(k)
  <2>1. CASE index[k] = orderedRead[Channel(k)]
    <3>1. IsOrdered(Reliability(k))
      BY <1>5 DEF DeliverOrdered
    <3>2. \E b \in Seq(Messages) :
            Len(b) \in Nat \ {0} /\ delivered' = delivered \o b
      BY <1>1, <1>5, <2>1, <3>1, ReleasedBatch
    <3> QED BY <3>2
  <2>2. CASE index[k] # orderedRead[Channel(k)]
    BY <1>5, <2>2 DEF DeliverOrdered
  <2> QED BY <2>1, <2>2
<1>6. CASE DeliverSequenced(k) \/ DeliverAtOnce(k)
  BY <1>4, <1>6 DEF DeliverSequenced, DeliverAtOnce
<1> QED BY <1>2, <1>3, <1>5, <1>6

\* The layer implements the promise of PacketPriority.h.
THEOREM Refinement == ASSUME NoWrap PROVE Spec => ImplementsPromise
<1> USE DEF senderVars, resendVars, windowVars, readVars, receiverVars
<1>1. Init => Promise!Init
  BY DEF Init, Promise!Init
<1>2. ASSUME DeliveryInv, DeliveryInv', [Next]_vars
      PROVE  [Promise!Next]_(Promise!vars)
  <2>1. ASSUME NEW s \in Streams, Send(s) PROVE Promise!Submit
    BY <2>1 DEF Send, Promise!Submit
  <2>2. ASSUME NEW k \in Messages, ReceiveMessage(k)
        PROVE  Promise!Deliver \/ UNCHANGED Promise!vars
    <3>1. sent' = sent
      BY <2>2 DEF ReceiveMessage
    <3>2. CASE delivered' = delivered
      BY <3>1, <3>2 DEF Promise!vars
    <3>3. CASE \E b \in Seq(Messages) :
                 Len(b) \in Nat \ {0} /\ delivered' = delivered \o b
      <4>1. PICK b \in Seq(Messages) :
              Len(b) \in Nat \ {0} /\ delivered' = delivered \o b
        BY <3>3
      <4>2. delivered \in Seq(Messages) /\ Len(delivered) \in Nat
        BY <1>2 DEF DeliveryInv, TypeOK
      <4>3. /\ Len(delivered') > Len(delivered)
            /\ SubSeq(delivered', 1, Len(delivered)) = delivered
        BY <4>1, <4>2
      <4>4. Promise!Contract(sent, delivered')
        <5>1. Promise!AtMostOnce(delivered')
          BY <1>2 DEF DeliveryInv, NoDuplicateDelivery
        <5>2. Promise!InOrder(sent, delivered')
          BY <1>2, <3>1 DEF DeliveryInv, OrderInv, OrderedDelivery
        <5>3. Promise!InSequence(sent, delivered')
          BY <1>2, <3>1 DEF DeliveryInv, SequenceInv, SequencedDelivery
        <5>4. Promise!OnlySent(sent, delivered')
          <6>1. sent \in Seq(Streams) /\ delivered' \in Seq(Messages)
            BY <1>2, <3>1 DEF DeliveryInv, TypeOK, Messages
          <6>2. DOMAIN sent = Messages
            BY <6>1 DEF Messages
          <6> QED BY <6>1, <6>2 DEF Promise!OnlySent
        <5> QED BY <5>1, <5>2, <5>3, <5>4 DEF Promise!Contract
      <4> QED BY <3>1, <4>3, <4>4 DEF Promise!Deliver
    <3> QED BY <1>2, <2>2, <3>2, <3>3, DeliveredGrows
  <2>3. ASSUME NEW k \in Messages, Transmit(k) \/ Resend(k) \/ ReceiveAck(k)
        PROVE  UNCHANGED Promise!vars
    BY <2>3 DEF Transmit, Resend, ReceiveAck, Promise!vars
  <2>4. CASE SendAcks \/ DeclareDead \/ Lose \/ Tick \/ UNCHANGED vars
    BY <2>4 DEF SendAcks, DeclareDead, Lose, Tick, vars, Promise!vars
  <2> QED BY <1>2, <2>1, <2>2, <2>3, <2>4 DEF Next, Promise!Next
<1>3. Spec => []DeliveryInv
  BY Delivery
<1> QED BY <1>1, <1>2, <1>3, PTL DEF Spec, ImplementsPromise, Promise!Spec

\* The dead connection timer runs exactly while something waits for its
\* acknowledgement.  This needs no bound on the numbers in use.
THEOREM AckTimer == Spec => []AckTimerRuns
<1> DEFINE ClockInv == now \in Nat \ {0} /\ AckTimerRuns
<1>1. Init => ClockInv
  BY DEF Init, AckTimerRuns
<1>2. ClockInv /\ [Next]_vars => ClockInv'
  <2> SUFFICES ASSUME ClockInv, [Next]_vars PROVE ClockInv'
    OBVIOUS
  <2> USE DEF senderVars, resendVars, windowVars, readVars, receiverVars
  <2>1. ASSUME NEW k \in Messages, Transmit(k) PROVE ClockInv'
    BY <2>1 DEF Transmit, StartAckTimer, AckTimerRuns
  <2>2. ASSUME NEW k \in Messages, ReceiveAck(k) PROVE ClockInv'
    BY <2>2 DEF ReceiveAck, AfterAck, AckTimerRuns
  <2>3. ASSUME NEW k \in Messages, Resend(k) \/ ReceiveMessage(k)
        PROVE  ClockInv'
    BY <2>3 DEF Resend, ReceiveMessage, AckTimerRuns
  <2>4. ASSUME NEW s \in Streams, Send(s) PROVE ClockInv'
    BY <2>4 DEF Send, AckTimerRuns
  <2>5. CASE SendAcks \/ DeclareDead \/ Lose \/ UNCHANGED vars
    BY <2>5 DEF SendAcks, DeclareDead, Lose, vars, AckTimerRuns
  <2>6. CASE Tick
    BY <2>6 DEF Tick, AckTimerRuns
  <2> QED BY <2>1, <2>2, <2>3, <2>4, <2>5, <2>6 DEF Next
<1> QED BY <1>1, <1>2, PTL DEF Spec
-----------------------------------------------------------------------------
(* What the acknowledgements mean.                                         *)

\* The network and the resends leave what was sent and the window alone.
LEMMA ReceivedStays ==
  ASSUME base' = base, hasReceived' = hasReceived
  PROVE  \A k : Received(k)' <=> Received(k)
  BY DEF Received

\* While no number wraps, the window takes for duplicates exactly what it has
\* recorded.
LEMMA DuplicateIsReceived ==
  ASSUME NoWrap, TypeOK, WindowInv, NEW k \in Messages,
         IsDuplicate(HoleCount(Number(k), base))
  PROVE  Received(k)
<1> DEFINE h == HoleCount(Number(k), base)
<1>1. /\ Len(sent) \in Nat /\ Len(sent) <= MaxMessages /\ MaxMessages \in Nat
      /\ base + Len(hasReceived) <= Len(sent)
  BY BoundsAssumption DEF TypeOK, WindowInv
<1>2. base \in Nat /\ hasReceived \in Seq(Nat) /\ Len(hasReceived) \in Nat
  BY NumberRangeAssumption DEF TypeOK, Numbers
<1>3. k \in 1..MaxMessages /\ base \in 0..MaxMessages
  BY <1>1, <1>2 DEF Messages
<1>4. CASE k <= base
  BY <1>4 DEF Received
<1>5. CASE k > base
  <2>1. h = k - 1 - base /\ ~IsBehind(h)
    BY <1>3, <1>5, HoleCountNoWrap
  <2>2. h < Len(hasReceived) /\ hasReceived[h + 1] = 0
    BY <2>1 DEF IsDuplicate
  <2>3. h + 1 = k - base /\ k - base \in 1..Len(hasReceived)
    BY <1>2, <1>3, <1>5, <2>1, <2>2
  <2> QED BY <2>2, <2>3 DEF Received
<1> QED BY <1>3, <1>4, <1>5

\* A message that arrives is recorded, and nothing recorded is forgotten.
LEMMA ArrivalIsRecorded ==
  ASSUME NoWrap, DeliveryInv, NEW k \in Messages, ReceiveMessage(k)
  PROVE  Received(k)' /\ \A j \in Messages : Received(j) => Received(j)'
<1>1. TypeOK /\ WindowInv /\ sent' = sent
  BY DEF DeliveryInv, ReceiveMessage, senderVars
<1>2. CASE IsDuplicate(HoleCount(Number(k), base))
  <2>1. base' = base /\ hasReceived' = hasReceived
    BY <1>2 DEF ReceiveMessage, windowVars
  <2>2. Received(k)
    BY <1>1, <1>2, DuplicateIsReceived
  <2> QED BY <2>1, <2>2, ReceivedStays
<1>3. CASE ~IsDuplicate(HoleCount(Number(k), base))
  <2>1. MoveWindow(HoleCount(Number(k), base))
    BY <1>3 DEF ReceiveMessage
  <2> QED BY <1>1, <1>3, <2>1, WindowStep DEF WindowInv
<1> QED BY <1>2, <1>3

\* While no number wraps, an acknowledgement takes one message off the list.
LEMMA AckRemovesOne ==
  ASSUME NoWrap, TypeOK, NEW k \in Messages
  PROVE  resendList \ RemovePacketFromResendList(k) \subseteq {k}
<1>1. \A j \in Messages : Number(j) = j - 1
  <2>1. /\ Len(sent) \in Nat /\ Len(sent) <= MaxMessages /\ MaxMessages \in Nat
        /\ NumberRange \in Nat /\ 2 * MaxMessages < NumberRange
    BY HalfRange, BoundsAssumption DEF NoWrap, TypeOK
  <2>2. \A j \in Messages : j \in Nat /\ j - 1 \in Numbers
    BY <2>1 DEF Messages, Numbers
  <2> QED BY <2>2, ModSmall DEF Number
<1>2. \A j \in resendList : j \in Messages /\ j \in Nat
  BY DEF TypeOK, Messages
<1>3. \A j \in resendList : Number(j) = Number(k) => j = k
  BY <1>1, <1>2 DEF Messages
<1> QED BY <1>3 DEF RemovePacketFromResendList

\* Every step keeps what the acknowledgements say true.
LEMMA NextAck ==
  NoWrap /\ DeliveryInv /\ AckInv /\ [Next]_vars => AckInv'
<1> SUFFICES ASSUME NoWrap, DeliveryInv, AckInv, [Next]_vars PROVE AckInv'
  OBVIOUS
<1> USE DEF senderVars, resendVars, windowVars, readVars, receiverVars
<1>1. TypeOK /\ Len(sent) \in Nat
  BY DEF DeliveryInv, TypeOK
<1>2. ASSUME NEW s \in Streams, Send(s) PROVE AckInv'
  <2>1. /\ sent' = Append(sent, s) /\ sent \in Seq(Streams)
        /\ sendPacketSet' = sendPacketSet \cup {Len(sent) + 1}
        /\ resendList' = resendList /\ acknowledgements' = acknowledgements
        /\ acksInFlight' = acksInFlight
        /\ base' = base /\ hasReceived' = hasReceived
    BY <1>1, <1>2 DEF Send, TypeOK
  <2>2. /\ Messages' = Messages \cup {Len(sent) + 1}
        /\ \A k \in Messages : sent'[k] = sent[k]
    BY <1>1, <2>1 DEF Messages
  <2>3. \A k \in Messages' \ (sendPacketSet' \cup resendList') :
          k \in Messages \ (sendPacketSet \cup resendList)
    BY <2>1, <2>2
  <2> QED BY <2>1, <2>2, <2>3, ReceivedStays DEF AckInv, Reliability
<1>3. ASSUME NEW k \in Messages, Transmit(k) PROVE AckInv'
  BY <1>3, ReceivedStays DEF Transmit, AckInv, Messages, Reliability
<1>4. ASSUME NEW k \in Messages, ReceiveMessage(k) PROVE AckInv'
  <2>1. /\ Received(k)' /\ \A j \in Messages : Received(j) => Received(j)'
    BY <1>4, ArrivalIsRecorded
  <2>2. /\ sent' = sent /\ sendPacketSet' = sendPacketSet
        /\ resendList' = resendList /\ acksInFlight' = acksInFlight
        /\ acknowledgements' \subseteq acknowledgements \cup {k}
    BY <1>4 DEF ReceiveMessage, AcknowledgementsAfter
  <2>3. acknowledgements \cup acksInFlight \subseteq Messages
    BY <1>1 DEF TypeOK
  <2> QED BY <2>1, <2>2, <2>3 DEF AckInv, Messages, Reliability
<1>5. ASSUME NEW k \in Messages, ReceiveAck(k) PROVE AckInv'
  <2>1. /\ sent' = sent /\ sendPacketSet' = sendPacketSet
        /\ resendList \ resendList' \subseteq {k}
        /\ k \in acksInFlight /\ acksInFlight' \subseteq acksInFlight
        /\ acknowledgements' = acknowledgements
        /\ base' = base /\ hasReceived' = hasReceived
    BY <1>1, <1>5, AckRemovesOne DEF ReceiveAck
  <2>2. Received(k)
    BY <2>1 DEF AckInv
  <2> QED BY <2>1, <2>2, ReceivedStays DEF AckInv, Messages, Reliability
<1>6. CASE SendAcks
  <2>1. acknowledgements' \cup acksInFlight' \subseteq acknowledgements \cup acksInFlight
    BY <1>6 DEF SendAcks
  <2> QED BY <1>6, <2>1, ReceivedStays DEF SendAcks, AckInv, Messages, Reliability
<1>7. CASE Lose
  <2>1. acknowledgements' \cup acksInFlight' \subseteq acknowledgements \cup acksInFlight
    BY <1>7 DEF Lose
  <2> QED BY <1>7, <2>1, ReceivedStays DEF Lose, AckInv, Messages, Reliability
<1>8. ASSUME NEW k \in Messages, Resend(k) PROVE AckInv'
  BY <1>8, ReceivedStays DEF Resend, AckInv, Messages, Reliability
<1>9. CASE DeclareDead \/ Tick \/ UNCHANGED vars
  BY <1>9, ReceivedStays DEF DeclareDead, Tick, vars, AckInv, Messages, Reliability
<1> QED
  BY <1>2, <1>3, <1>4, <1>5, <1>6, <1>7, <1>8, <1>9 DEF Next

\* The acknowledgements never claim more than the receive window recorded, and
\* the sender forgets no reliable message the window has not recorded.
THEOREM Acknowledged == ASSUME NoWrap PROVE Spec => []AckInv
<1>1. Init => AckInv
  BY DEF Init, AckInv, Messages
<1>2. DeliveryInv /\ AckInv /\ [Next]_vars => AckInv'
  BY NextAck
<1> QED BY <1>1, <1>2, Delivery, PTL DEF Spec

\* No ordered message is left waiting once its turn has come.
THEOREM NoneWaiting == ASSUME NoWrap PROVE Spec => []NoneLeftWaiting
<1>1. DeliveryInv => NoneLeftWaiting
  <2> SUFFICES ASSUME DeliveryInv, NEW c \in Channels, NEW j \in Waiting(c, orderedRead[c])
               PROVE  FALSE
    BY DEF NoneLeftWaiting
  <2>1. j \in orderingList /\ Channel(j) = c /\ index[j] = orderedRead[c]
    BY DEF Waiting
  <2>2. index[j] > orderedRead[c]
    BY <2>1 DEF DeliveryInv, OrderInv
  <2>3. index[j] \in Nat
    BY <2>1, IndexInType DEF DeliveryInv, TypeOK
  <2> QED BY <2>1, <2>2, <2>3
<1> QED BY <1>1, Delivery, PTL

\* A window in which nothing is overdue takes the arriving message and no
\* other.
LEMMA WindowTakesOne ==
  ASSUME NoWrap, TypeOK, WindowInv, NothingOverdue, NEW k \in Messages,
         ~IsDuplicate(HoleCount(Number(k), base)),
         MoveWindow(HoleCount(Number(k), base))
  PROVE  \A j \in Messages : Received(j)' => Received(j) \/ j = k
<1> DEFINE h == HoleCount(Number(k), base)
           w == Marked(h)
           n == Settled(w)
           L == IF h < Len(hasReceived) THEN Len(hasReceived) ELSE h + 1
<1>1. /\ Len(sent) \in Nat /\ NumberRange \in Nat /\ 2 * Len(sent) < NumberRange
      /\ Len(sent) <= MaxMessages /\ MaxMessages \in Nat
      /\ base + Len(hasReceived) <= Len(sent)
  BY HalfRange, BoundsAssumption DEF NoWrap, TypeOK, WindowInv
<1>2. /\ base \in 0..MaxMessages /\ base \in Nat /\ hasReceived \in Seq(Nat)
      /\ Len(hasReceived) \in Nat /\ now \in Nat /\ Timeout \in Nat
  BY <1>1, BoundsAssumption DEF TypeOK, Numbers
<1>3. k \in 1..MaxMessages /\ k <= Len(sent) /\ k \in Nat
  BY <1>1 DEF Messages
<1>4. k > base /\ h = k - 1 - base /\ h \in Nat /\ base + h + 1 <= Len(sent)
  BY <1>1, <1>2, <1>3, HoleCountNoWrap, SMTT(40) DEF IsDuplicate
<1>5. w = [i \in 1..L |-> IF i = h + 1 THEN 0
                          ELSE IF i <= Len(hasReceived) THEN hasReceived[i]
                          ELSE now + Timeout]
  BY DEF Marked
<1>6. /\ base' = (base + n) % NumberRange
      /\ hasReceived' = SubSeq(w, n + 1, Len(w))
  BY DEF MoveWindow
<1>7. L \in Nat /\ L >= h + 1 /\ L >= Len(hasReceived) /\ base + L <= Len(sent)
  BY <1>1, <1>2, <1>4
<1> HIDE DEF h, L, w
<1>8. w \in Seq(Nat) /\ Len(w) = L
  <2>1. \A i \in 1..L : i <= Len(hasReceived) => hasReceived[i] \in Nat
    BY <1>2, <1>7, ElementOfSeq
  <2>2. \A i \in 1..L : w[i] \in Nat
    BY <1>2, <1>5, <2>1
  <2> QED BY <1>5, <1>7, <2>2
<1>9. n \in 0..L /\ \A i \in 1..n : w[i] < now
  BY <1>2, <1>8, SettledProperties
<1> HIDE DEF n
<1>10. base' = base + n
  <2>1. base + n \in Numbers
    BY <1>1, <1>2, <1>7, <1>9 DEF Numbers
  <2> QED BY <1>6, <2>1, ModSmall
<1>11. /\ Len(hasReceived') = L - n
       /\ \A i \in 1..(L - n) : hasReceived'[i] = w[n + i]
  BY <1>6, <1>7, <1>8, <1>9
<1>12. \A i \in 1..L : w[i] < now => w[i] = 0
  BY <1>2, <1>5, <1>7 DEF NothingOverdue
<1>13. \A j \in Messages : j - base \in 1..L /\ w[j - base] = 0
                             => Received(j) \/ j = k
  <2> SUFFICES ASSUME NEW j \in Messages, j - base \in 1..L, w[j - base] = 0,
                      j # k
               PROVE  Received(j)
    OBVIOUS
  <2>1. j \in Nat /\ j - base # h + 1
    BY <1>2, <1>3, <1>4 DEF Messages
  <2>2. j - base <= Len(hasReceived) \/ w[j - base] = now + Timeout
    BY <1>5, <2>1
  <2>3. now > 0
    BY DEF TypeOK
  <2>4. j - base \in 1..Len(hasReceived)
    BY <1>2, <2>1, <2>2, <2>3
  <2>5. hasReceived[j - base] = 0
    BY <1>5, <2>1, <2>4
  <2> QED BY <2>4, <2>5 DEF Received
<1> SUFFICES ASSUME NEW j \in Messages, Received(j)' PROVE Received(j) \/ j = k
  OBVIOUS
<1>14. j \in Nat
  BY DEF Messages
<1>15. CASE j <= base
  BY <1>15 DEF Received
<1>16. CASE j > base /\ j <= base + n
  <2>1. j - base \in 1..n /\ j - base \in 1..L
    BY <1>2, <1>7, <1>9, <1>14, <1>16
  <2>2. w[j - base] = 0
    BY <1>9, <1>12, <2>1
  <2> QED BY <1>13, <2>1, <2>2
<1>17. CASE j > base + n
  <2>1. j - base' \in 1..(L - n) /\ hasReceived'[j - base'] = 0
    BY <1>2, <1>9, <1>10, <1>11, <1>14, <1>17 DEF Received
  <2>2. n + (j - base') = j - base /\ j - base \in 1..L
    BY <1>2, <1>7, <1>9, <1>10, <1>14, <2>1
  <2>3. w[j - base] = 0
    BY <1>11, <2>1, <2>2
  <2> QED BY <1>13, <2>2, <2>3
<1> QED BY <1>2, <1>9, <1>14, <1>15, <1>16, <1>17

\* A message handed on is delivered, or kept for its turn; nothing kept is lost.
LEMMA NothingIsDropped ==
  ASSUME NoWrap, TypeOK, IndexInv, ReadInv, NEW k \in Messages,
         DeliverSequenced(k) \/ DeliverOrdered(k) \/ DeliverAtOnce(k)
  PROVE  /\ DeliveredMessages \cup orderingList
              \subseteq DeliveredMessages' \cup orderingList'
         /\ ~IsSequenced(Reliability(k)) => k \in DeliveredMessages' \cup orderingList'
<1>1. delivered \in Seq(Messages)
  BY DEF ReadInv
<1>2. CASE delivered' = Append(delivered, k) /\ orderingList' = orderingList
  <2>1. DeliveredMessages' = DeliveredMessages \cup {k}
    <3> DEFINE b == <<k>>
    <3>1. b \in Seq(Messages) /\ Len(b) = 1 /\ b[1] = k
      OBVIOUS
    <3>2. Append(delivered, k) = delivered \o b
      BY <1>1, AppendIsConcat
    <3>3. {b[j] : j \in 1..Len(b)} = {k}
      BY <3>1
    <3> HIDE DEF b
    <3> QED BY <1>1, <1>2, <3>1, <3>2, <3>3, DeliveredAppend
  <2> QED BY <1>2, <2>1
<1>3. CASE delivered' = delivered /\ orderingList' = orderingList
           /\ IsSequenced(Reliability(k))
  BY <1>3 DEF DeliveredMessages
<1>4. CASE DeliverOrdered(k)
  <2>1. CASE index[k] = orderedRead[Channel(k)]
    <3>1. IsOrdered(Reliability(k))
      BY <1>4 DEF DeliverOrdered
    <3>2. PICK b \in Seq(Messages) :
            /\ Len(b) \in Nat \ {0} /\ b[1] = k
            /\ delivered' = delivered \o b
            /\ orderingList' = orderingList \ {b[d] : d \in 2..Len(b)}
      BY <1>4, <2>1, <3>1, ReleasedBatch
    <3>3. DeliveredMessages' = DeliveredMessages \cup {b[j] : j \in 1..Len(b)}
      BY <1>1, <3>2, DeliveredAppend
    <3>4. k \in {b[j] : j \in 1..Len(b)}
      BY <3>2
    <3>5. {b[d] : d \in 2..Len(b)} \subseteq {b[j] : j \in 1..Len(b)}
      BY <3>2
    <3> QED BY <3>2, <3>3, <3>4, <3>5
  <2>2. CASE index[k] # orderedRead[Channel(k)]
    BY <1>4, <2>2 DEF DeliverOrdered, DeliveredMessages
  <2> QED BY <2>1, <2>2
<1> QED BY <1>2, <1>3, <1>4 DEF DeliverSequenced, DeliverAtOnce

\* A sequenced message that passes the window lies before the read index then,
\* delivered or not, and no read index goes back.
LEMMA SequenceMovesOn ==
  ASSUME NoWrap, TypeOK, IndexInv, SequenceInv, NEW k \in Messages,
         DeliverSequenced(k) \/ DeliverOrdered(k) \/ DeliverAtOnce(k)
  PROVE  /\ \A c \in Channels : sequencedRead'[c] >= sequencedRead[c]
         /\ IsSequenced(Reliability(k))
              => index[k] < sequencedRead'[Channel(k)]
<1>1. /\ Len(sent) \in Nat /\ NumberRange \in Nat /\ 2 * Len(sent) < NumberRange
      /\ Len(sent) <= MaxMessages /\ MaxMessages \in Nat
      /\ sequencedRead \in [Channels -> Nat] /\ Channel(k) \in Channels
  <2>1. /\ Len(sent) \in Nat /\ NumberRange \in Nat /\ 2 * Len(sent) < NumberRange
        /\ Len(sent) <= MaxMessages /\ MaxMessages \in Nat
    BY HalfRange, BoundsAssumption DEF NoWrap, TypeOK
  <2>2. sequencedRead \in [Channels -> Nat]
    BY <2>1 DEF TypeOK, Numbers
  <2> QED BY <2>1, <2>2, StreamInType
<1>2. index[k] \in Nat /\ index[k] < k /\ k \in Nat /\ k <= Len(sent)
  BY <1>1, IndexInType DEF IndexInv, Messages
<1>3. CASE DeliverOrdered(k) \/ DeliverAtOnce(k)
  BY <1>1, <1>3, StreamInType DEF DeliverOrdered, DeliverAtOnce
<1>4. CASE DeliverSequenced(k)
  <2> DEFINE c == Channel(k)
             w == sequencedRead[c]
  <2>1. w \in 0..MaxMessages /\ index[k] \in 0..MaxMessages
    BY <1>1, <1>2 DEF SequenceInv
  <2>2. IsOlderOrderedPacket(index[k], w) <=> index[k] < w
    BY <2>1, OlderNoWrap
  <2>3. CASE index[k] < w
    BY <1>1, <1>4, <2>2, <2>3 DEF DeliverSequenced
  <2>4. CASE ~(index[k] < w)
    <3>1. (index[k] + 1) % NumberRange = index[k] + 1
      <4>1. index[k] + 1 \in Numbers
        BY <1>1, <1>2 DEF Numbers
      <4> QED BY <4>1, ModSmall
    <3>2. sequencedRead' = [sequencedRead EXCEPT ![c] = index[k] + 1]
      BY <1>4, <2>2, <2>4, <3>1 DEF DeliverSequenced
    <3> QED BY <1>1, <1>2, <2>1, <2>4, <3>2
  <2> QED BY <2>3, <2>4
<1> QED BY <1>3, <1>4

\* Every step takes what it records, unless a skipped number is overdue.
LEMMA NextTaken ==
  NoWrap /\ NothingOverdue /\ DeliveryInv /\ TakenInv /\ [Next]_vars => TakenInv'
<1> SUFFICES ASSUME NoWrap, NothingOverdue, DeliveryInv, TakenInv, [Next]_vars
             PROVE  TakenInv'
  OBVIOUS
<1> USE DEF senderVars, resendVars, windowVars, readVars, receiverVars
<1>1. /\ TypeOK /\ WindowInv /\ IndexInv /\ ReadInv /\ Len(sent) \in Nat
      /\ sent \in Seq(Streams)
  BY DEF DeliveryInv, ReadInv, TypeOK
<1>2. ASSUME UNCHANGED <<sent, index, base, hasReceived, readVars>>
      PROVE  TakenInv'
  BY <1>2 DEF TakenInv, Received, Messages, Reliability, Channel,
              DeliveredMessages
<1>3. ASSUME NEW s \in Streams, Send(s) PROVE TakenInv'
  <2>1. /\ sent' = Append(sent, s) /\ base' = base /\ hasReceived' = hasReceived
        /\ orderingList' = orderingList /\ delivered' = delivered
        /\ sequencedRead' = sequencedRead
    BY <1>3 DEF Send
  <2>2. /\ Messages' = Messages \cup {Len(sent) + 1}
        /\ \A k \in Messages : sent'[k] = sent[k]
    BY <1>1, <2>1 DEF Messages
  <2>3. ~Received(Len(sent) + 1)
    BY <1>1, NumberRangeAssumption DEF WindowInv, Received, TypeOK, Numbers
  <2>4. \A k \in Messages : index'[k] = index[k]
    <3>1. \E i : index' = Append(index, i)
      BY <1>3 DEF Send
    <3>2. index \in Seq(Numbers) /\ Messages = 1..Len(index)
      BY <1>1 DEF TypeOK, Messages
    <3> QED BY <3>1, <3>2
  <2> QED BY <2>1, <2>2, <2>3, <2>4
          DEF TakenInv, Received, Reliability, Channel, DeliveredMessages
<1>4. ASSUME NEW k \in Messages, ReceiveMessage(k) PROVE TakenInv'
  <2>1. /\ sent' = sent /\ Messages' = Messages /\ index' = index
        /\ \A j : Reliability(j)' = Reliability(j) /\ Channel(j)' = Channel(j)
    BY <1>4 DEF ReceiveMessage, Messages, Reliability, Channel
  <2>2. CASE IsDuplicate(HoleCount(Number(k), base))
    BY <1>2, <1>4, <2>2 DEF ReceiveMessage
  <2>3. CASE ~IsDuplicate(HoleCount(Number(k), base))
    <3>1. /\ MoveWindow(HoleCount(Number(k), base))
          /\ DeliverSequenced(k) \/ DeliverOrdered(k) \/ DeliverAtOnce(k)
      BY <1>4, <2>3 DEF ReceiveMessage
    <3>2. \A j \in Messages : Received(j)' => Received(j) \/ j = k
      BY <1>1, <2>3, <3>1, WindowTakesOne
    <3>3. /\ DeliveredMessages \cup orderingList
               \subseteq DeliveredMessages' \cup orderingList'
          /\ ~IsSequenced(Reliability(k))
               => k \in DeliveredMessages' \cup orderingList'
      BY <1>1, <3>1, NothingIsDropped
    <3>4. /\ \A c \in Channels : sequencedRead'[c] >= sequencedRead[c]
          /\ IsSequenced(Reliability(k))
               => index[k] < sequencedRead'[Channel(k)]
      BY <1>1, <3>1, SequenceMovesOn DEF ReadInv
    <3>5. \A j \in Messages :
            IsSequenced(Reliability(j)) /\ Received(j)
              => index[j] < sequencedRead'[Channel(j)]
      <4> SUFFICES ASSUME NEW j \in Messages,
                          IsSequenced(Reliability(j)), Received(j)
                   PROVE  index[j] < sequencedRead'[Channel(j)]
        OBVIOUS
      <4>1. index[j] < sequencedRead[Channel(j)]
        BY DEF TakenInv
      <4>2. Channel(j) \in Channels /\ index[j] \in Nat
        BY <1>1, StreamInType, IndexInType
      <4>3. /\ sequencedRead[Channel(j)] \in Int
            /\ sequencedRead'[Channel(j)] \in Int
        <5>1. sequencedRead' \in [Channels -> Numbers]
          BY <1>1, <1>4, ReceiveMessageInv DEF DeliveryInv, TypeOK
        <5> QED BY <1>1, <4>2, <5>1, NumberRangeAssumption DEF TypeOK, Numbers
      <4> QED BY <3>4, <4>1, <4>2, <4>3
    <3> QED BY <2>1, <3>2, <3>3, <3>4, <3>5 DEF TakenInv
  <2> QED BY <2>2, <2>3
<1>5. ASSUME NEW k \in Messages, Transmit(k) \/ Resend(k) \/ ReceiveAck(k)
      PROVE  TakenInv'
  BY <1>2, <1>5 DEF Transmit, Resend, ReceiveAck
<1>6. CASE SendAcks \/ DeclareDead \/ Lose \/ Tick \/ UNCHANGED vars
  BY <1>2, <1>6 DEF SendAcks, DeclareDead, Lose, Tick, vars
<1> QED BY <1>3, <1>4, <1>5, <1>6 DEF Next

\* The sender stops resending what the user has or will have, in every behaviour
\* in which the window does not give up a number it skipped.
THEOREM AckedUnlessGivenUp ==
  ASSUME NoWrap PROVE Spec /\ []NothingOverdue => []AckedMeansDelivered
<1>1. Init => TakenInv
  BY DEF Init, TakenInv, Messages
<1>2. NothingOverdue /\ DeliveryInv /\ TakenInv /\ [Next]_vars => TakenInv'
  BY NextTaken
<1>3. AckInv /\ TakenInv => AckedMeansDelivered
  BY DEF AckInv, TakenInv, AckedMeansDelivered
<1> QED BY <1>1, <1>2, <1>3, Delivery, Acknowledged, PTL DEF Spec

\* Every step keeps the numbers the window skipped from becoming overdue.
LEMMA NextOverdue ==
  NoGiveUp /\ TypeOK /\ OverdueInv /\ [Next]_vars => OverdueInv'
<1> SUFFICES ASSUME NoGiveUp, TypeOK, OverdueInv, [Next]_vars PROVE OverdueInv'
  OBVIOUS
<1> USE DEF senderVars, resendVars, windowVars, readVars, receiverVars
<1>1. ASSUME NEW k \in Messages, ReceiveMessage(k) PROVE OverdueInv'
  <2> DEFINE h == HoleCount(Number(k), base)
             w == Marked(h)
             n == Settled(w)
  <2>1. now' = now
    BY <1>1 DEF ReceiveMessage
  <2>2. CASE IsDuplicate(h)
    BY <1>1, <2>1, <2>2 DEF ReceiveMessage, OverdueInv
  <2>3. CASE ~IsDuplicate(h)
    <3>1. hasReceived' = SubSeq(w, n + 1, Len(w))
      BY <1>1, <2>3 DEF ReceiveMessage, MoveWindow
    <3>2. h \in Nat /\ Timeout \in Nat /\ now \in Nat /\ now > 0
          /\ hasReceived \in Seq(Nat) /\ Len(hasReceived) \in Nat
      BY BoundsAssumption, NumberRangeAssumption DEF TypeOK, Numbers, HoleCount, Number, Messages
    <3> DEFINE L == IF h < Len(hasReceived) THEN Len(hasReceived) ELSE h + 1
    <3>3. w = [i \in 1..L |-> IF i = h + 1 THEN 0
                              ELSE IF i <= Len(hasReceived) THEN hasReceived[i]
                              ELSE now + Timeout]
          /\ L \in Nat
      BY <3>2 DEF Marked
    <3> HIDE DEF h, w, L
    <3>4. \A i \in 1..L : w[i] \in Nat /\ (w[i] = 0 \/ w[i] > Timeout)
      <4>1. \A i \in 1..L : i <= Len(hasReceived) => hasReceived[i] \in Nat /\ i \in DOMAIN hasReceived
        BY <3>2, <3>3, ElementOfSeq
      <4> QED BY <3>2, <3>3, <4>1 DEF OverdueInv
    <3>5. w \in Seq(Nat) /\ Len(w) = L
      BY <3>3, <3>4
    <3>6. n \in 0..L
      BY <3>2, <3>5, SettledProperties
    <3> HIDE DEF n
    <3>7. \A i \in DOMAIN hasReceived' : n + i \in 1..L /\ hasReceived'[i] = w[n + i]
      BY <3>1, <3>3, <3>5, <3>6
    <3> QED BY <2>1, <3>4, <3>7 DEF OverdueInv
  <2> QED BY <2>2, <2>3
<1>2. CASE Tick
  BY <1>2, BoundsAssumption DEF Tick, OverdueInv, NoGiveUp
<1>3. ASSUME NEW s \in Streams, Send(s) PROVE OverdueInv'
  BY <1>3 DEF Send, OverdueInv
<1>4. ASSUME NEW k \in Messages, Transmit(k) \/ Resend(k) \/ ReceiveAck(k)
      PROVE  OverdueInv'
  BY <1>4 DEF Transmit, Resend, ReceiveAck, OverdueInv
<1>5. CASE SendAcks \/ DeclareDead \/ Lose \/ UNCHANGED vars
  BY <1>5 DEF SendAcks, DeclareDead, Lose, vars, OverdueInv
<1> QED BY <1>1, <1>2, <1>3, <1>4, <1>5 DEF Next

\* In particular before the first moment at which the window may give up.
THEOREM Acked ==
  ASSUME NoWrap, NoGiveUp PROVE Spec => []AckedMeansDelivered
<1>1. Init => OverdueInv
  BY BoundsAssumption DEF Init, OverdueInv
<1>2. TypeOK /\ OverdueInv /\ [Next]_vars => OverdueInv'
  BY NextOverdue
<1>3. DeliveryInv => TypeOK
  BY DEF DeliveryInv
<1>4. TypeOK /\ OverdueInv => NothingOverdue
  BY BoundsAssumption DEF TypeOK, OverdueInv, NothingOverdue
<1> QED BY <1>1, <1>2, <1>3, <1>4, Delivery, AckedUnlessGivenUp, PTL DEF Spec
-----------------------------------------------------------------------------
(* The arithmetic, in every state: whatever has been sent, the comparisons  *)
(* of the numbers that follow are exact.                                    *)

\* The pairs of counts the two invariants range over.
LEMMA NearPairsAreNear ==
  ASSUME Len(sent) \in Nat, NEW p \in NearPairs
  PROVE  /\ p[1] \in Int /\ p[2] \in Int
         /\ p[1] - p[2] \in (2 - HalfTurn)..(HalfTurn - 2)
<1>1. HalfTurn \in Nat /\ NumberRange \in Nat
  BY HalfRange, NumberRangeAssumption DEF HalfTurn
<1>2. PICK n \in HalfTurn..(HalfTurn + NumberRange),
           d \in (2 - HalfTurn)..(HalfTurn - 2) :
             p = <<Len(sent) + n + d, Len(sent) + n>>
  BY DEF NearPairs
<1> QED BY <1>1, <1>2

\* The messages sent form a sequence.
LEMMA SentIsASequence == Spec => [](Len(sent) \in Nat)
<1> DEFINE SentInv == sent \in Seq(Streams)
<1>1. Init => SentInv
  BY DEF Init
<1>2. SentInv /\ [Next]_vars => SentInv'
  <2> SUFFICES ASSUME SentInv, [Next]_vars PROVE SentInv'
    OBVIOUS
  <2> USE DEF senderVars
  <2>1. ASSUME NEW s \in Streams, Send(s) PROVE SentInv'
    BY <2>1 DEF Send
  <2>2. ASSUME NEW k \in Messages,
               Transmit(k) \/ Resend(k) \/ ReceiveMessage(k) \/ ReceiveAck(k)
        PROVE  SentInv'
    BY <2>2 DEF Transmit, Resend, ReceiveMessage, ReceiveAck
  <2>3. CASE SendAcks \/ DeclareDead \/ Lose \/ Tick \/ UNCHANGED vars
    BY <2>3 DEF SendAcks, DeclareDead, Lose, Tick, vars
  <2> QED BY <2>1, <2>2, <2>3 DEF Next
<1>3. SentInv => Len(sent) \in Nat
  OBVIOUS
<1> QED BY <1>1, <1>2, <1>3, PTL DEF Spec

\* A sequenced message is neither dropped while new nor delivered while old
\* because its index wrapped.
THEOREM OlderIsAlwaysExact == Spec => []OlderIsExact
<1>1. Len(sent) \in Nat => OlderIsExact
  BY NearPairsAreNear, OlderExact DEF OlderIsExact
<1> QED BY <1>1, SentIsASequence, PTL

\* The receive window places a number where the count it stands for belongs.
THEOREM HoleCountIsAlwaysExact == Spec => []HoleCountIsExact
<1>1. Len(sent) \in Nat => HoleCountIsExact
  <2> SUFFICES ASSUME Len(sent) \in Nat, NEW p \in NearPairs
               PROVE  LET h == HoleCount(p[1] % NumberRange, p[2] % NumberRange)
                      IN  /\ IsBehind(h) <=> p[1] < p[2]
                          /\ p[1] >= p[2] => h = p[1] - p[2]
    BY DEF HoleCountIsExact
  <2>1. /\ p[1] \in Int /\ p[2] \in Int
        /\ p[1] - p[2] \in (2 - HalfTurn)..(HalfTurn - 2)
    BY NearPairsAreNear
  <2>2. p[1] - p[2] \in (1 - HalfTurn)..HalfTurn
    BY <2>1, HalfRange DEF HalfTurn
  <2> QED BY <2>1, <2>2, HoleCountExact
<1> QED BY <1>1, SentIsASequence, PTL
=============================================================================
