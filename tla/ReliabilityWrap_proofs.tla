----------------------- MODULE ReliabilityWrap_proofs -----------------------
(***************************************************************************)
(* Proofs about ReliabilityLayer for any number of messages, so also for   *)
(* connections whose numbers wrap.  The wrapping numbers of the two ends   *)
(* are mapped to the counts they stand for; a layer whose ends stay in     *)
(* step (InStep) then takes the steps of one whose numbers do not wrap,    *)
(* and the proofs of ReliabilityLayer_proofs apply to that one.            *)
(***************************************************************************)
EXTENDS ReliabilityLayer_proofs, FiniteSetTheorems

-----------------------------------------------------------------------------
(* The counts the wrapping numbers stand for.                              *)

OrderedBefore(c, n) ==
  {j \in Messages : j < n /\ IsOrdered(Reliability(j)) /\ Channel(j) = c}

SequencedBefore(c, n) ==
  {j \in Messages : j < n /\ IsSequenced(Reliability(j)) /\ Channel(j) = c}

TrueIndex ==
  [k \in Messages |->
     IF IsOrdered(Reliability(k))
     THEN Cardinality(OrderedBefore(Channel(k), k))
     ELSE IF IsSequenced(Reliability(k))
     THEN Cardinality(SequencedBefore(Channel(k), k))
     ELSE 0]

TrueOrderedWrite ==
  [c \in Channels |-> Cardinality(OrderedBefore(c, Len(sent) + 1))]

TrueSequencedWrite ==
  [c \in Channels |-> Cardinality(SequencedBefore(c, Len(sent) + 1))]

\* The receiver knows wrapped numbers only: the last count before the sender's
\* that has the number.
TrueBase == Len(sent) - HoleCount(Len(sent), base)

TrueOrderedRead ==
  [c \in Channels |->
     TrueOrderedWrite[c] - HoleCount(orderedWrite[c], orderedRead[c])]

TrueSequencedRead ==
  [c \in Channels |->
     TrueSequencedWrite[c] - HoleCount(sequencedWrite[c], sequencedRead[c])]

\* A counter too wide to wrap.
BigRange == 2 * (MaxMessages + 2)

\* The layer with such counters.
Big == INSTANCE ReliabilityLayer_proofs WITH
         NumberRange <- BigRange, base <- TrueBase, index <- TrueIndex,
         orderedWrite <- TrueOrderedWrite, sequencedWrite <- TrueSequencedWrite,
         orderedRead <- TrueOrderedRead, sequencedRead <- TrueSequencedRead

\* The wrapped numbers are remainders of the counts, and no message the sender
\* still keeps is MaxAge messages old.
Linked ==
  /\ base \in Numbers
  /\ index \in Seq(Numbers) /\ Len(index) = Len(sent)
  /\ orderedWrite \in [Channels -> Numbers]
  /\ sequencedWrite \in [Channels -> Numbers]
  /\ orderedRead \in [Channels -> Numbers]
  /\ sequencedRead \in [Channels -> Numbers]
  /\ \A k \in Messages : index[k] = TrueIndex[k] % NumberRange
  /\ \A c \in Channels :
        /\ orderedWrite[c] = TrueOrderedWrite[c] % NumberRange
        /\ sequencedWrite[c] = TrueSequencedWrite[c] % NumberRange
  /\ \A k \in sendPacketSet \cup resendList : IsFresh(k)

\* The indices of a channel have no gap, and grow no faster than the messages.
CountInv ==
  /\ \A k \in Messages :
       /\ IsOrdered(Reliability(k)) =>
            TrueOrderedWrite[Channel(k)] - TrueIndex[k] <= Len(sent) + 1 - k
       /\ IsSequenced(Reliability(k)) =>
            TrueSequencedWrite[Channel(k)] - TrueIndex[k] <= Len(sent) + 1 - k
  /\ \A c \in Channels :
       /\ \A i \in 0..(TrueOrderedWrite[c] - 1) : \E k \in Messages :
            IsOrdered(Reliability(k)) /\ Channel(k) = c /\ TrueIndex[k] = i
       /\ \A i \in 0..(TrueSequencedWrite[c] - 1) : \E k \in Messages :
            IsSequenced(Reliability(k)) /\ Channel(k) = c /\ TrueIndex[k] = i

WrapInv == Linked /\ CountInv /\ Big!DeliveryInv

\* InternalPacket.h: fewer messages in use than half the range.  A reliable
\* sequenced message needs one more number, as IsOlderOrderedPacket does.
FewInUse ==
  /\ MaxAge \in 1..(HalfTurn - 1)
  /\ (\E s \in Streams : IsSequenced(s[1])) => MaxAge <= HalfTurn - 2

-----------------------------------------------------------------------------
(* Arithmetic.                                                             *)

\* The wide counter is a counter, and wide enough.
LEMMA BigIsWide ==
  /\ Big!NoWrap
  /\ BigRange \in Nat /\ BigRange >= 4 /\ BigRange = 2 * (BigRange \div 2)
  /\ MaxMessages + 2 < BigRange
  BY BoundsAssumption DEF Big!NoWrap, BigRange

\* Below the wide range, a count is its own remainder.
LEMMA BigSmall == \A x \in 0..(2 * MaxMessages + 1) : x % BigRange = x
  BY BoundsAssumption DEF BigRange

\* Half a turn is half the range.
LEMMA HalfTurnType ==
  HalfTurn \in Nat /\ HalfTurn >= 2 /\ NumberRange = 2 * HalfTurn
  /\ NumberRange \in Nat
  BY HalfRange, NumberRangeAssumption DEF HalfTurn

\* A number is wrapped once.
LEMMA WrapOnce ==
  ASSUME NEW x \in Int, NEW n \in Int
  PROVE  ((x % NumberRange) + n) % NumberRange = (x + n) % NumberRange
<1>1. PICK q \in Int, r \in Numbers : x = NumberRange * q + r /\ r = x % NumberRange
  BY Division
<1>2. PICK p \in Int, m \in Numbers :
        x + n = NumberRange * p + m /\ m = (x + n) % NumberRange
  BY Division
<1>3. NumberRange \in Int /\ r \in Int /\ m \in Int
  BY NumberRangeAssumption DEF Numbers
<1>4. r + n = NumberRange * (p - q) + m
  <2> DEFINE a == NumberRange * q
             b == NumberRange * p
  <2>1. NumberRange * (p - q) = b - a /\ a \in Int /\ b \in Int
    BY <1>3
  <2>2. x = a + r /\ x + n = b + m
    BY <1>1, <1>2
  <2> HIDE DEF a, b
  <2> QED BY <1>3, <2>1, <2>2
<1>5. (r + n) % NumberRange = m
  <2>1. r + n \in Int /\ p - q \in Int
    BY <1>3
  <2> QED BY <1>2, <1>4, <2>1, RemainderIsUnique
<1> QED BY <1>1, <1>2, <1>5

\* Counts less than a turn apart are equal when their numbers are.
LEMMA SameNumber ==
  ASSUME NEW x \in Int, NEW y \in Int, x - y < NumberRange, y - x < NumberRange,
         x % NumberRange = y % NumberRange
  PROVE  x = y
<1>1. PICK q \in Int, r \in Numbers : x = NumberRange * q + r /\ r = x % NumberRange
  BY Division
<1>2. PICK p \in Int, m \in Numbers : y = NumberRange * p + m /\ m = y % NumberRange
  BY Division
<1>3. NumberRange \in Nat /\ r \in Int /\ NumberRange > 0
  BY NumberRangeAssumption DEF Numbers
<1>4. x - y = NumberRange * (q - p)
  <2>1. NumberRange * (q - p) = NumberRange * q - NumberRange * p
    BY <1>1, <1>2, <1>3
  <2> QED BY <1>1, <1>2, <1>3, <2>1
<1>5. ~ (q - p >= 1)
  <2> SUFFICES ASSUME q - p >= 1 PROVE FALSE
    OBVIOUS
  <2>1. NumberRange * (q - p) >= NumberRange
    BY <1>1, <1>2, <1>3
  <2> QED BY <1>3, <1>4, <2>1
<1>6. ~ (q - p <= -1)
  <2> SUFFICES ASSUME q - p <= -1 PROVE FALSE
    OBVIOUS
  <2>1. NumberRange * (q - p) <= -NumberRange
    BY <1>1, <1>2, <1>3
  <2> QED BY <1>3, <1>4, <2>1
<1>7. q - p = 0
  BY <1>1, <1>2, <1>5, <1>6
<1> QED BY <1>3, <1>4, <1>7

\* The hole count from a count or from its number is the same.
LEMMA HoleCountOfCount ==
  ASSUME NEW w \in Int, NEW r \in Int
  PROVE  HoleCount(w % NumberRange, r) = HoleCount(w, r)
<1>1. w % NumberRange \in Int
  BY ModRange, NumberRangeAssumption DEF Numbers
<1>2. /\ w - r = w + (-r) /\ -r \in Int
      /\ (w % NumberRange) - r = (w % NumberRange) + (-r)
  BY <1>1
<1> QED BY <1>2, WrapOnce DEF HoleCount

\* The last count before w that has a number has that number.
LEMMA LastCount ==
  ASSUME NEW w \in Int, NEW r \in Numbers
  PROVE  /\ HoleCount(w, r) \in Numbers
         /\ w - HoleCount(w, r) \in Int
         /\ (w - HoleCount(w, r)) % NumberRange = r
<1>1. NumberRange \in Nat /\ r \in Int /\ w - r \in Int
  BY NumberRangeAssumption DEF Numbers
<1>2. PICK q \in Int, h \in Numbers :
        w - r = NumberRange * q + h /\ h = HoleCount(w, r)
  BY <1>1, Division DEF HoleCount
<1>3. h \in Int
  BY <1>1 DEF Numbers
<1>4. w - h = NumberRange * q + r
  BY <1>1, <1>2, <1>3
<1> QED BY <1>2, <1>3, <1>4, RemainderIsUnique

\* A count less than a turn before w is the last one with its number.
LEMMA LastCountIs ==
  ASSUME NEW w \in Int, NEW t \in Int, t <= w, w - t < NumberRange
  PROVE  HoleCount(w, t % NumberRange) = w - t
<1>1. t % NumberRange \in Numbers
  BY ModRange
<1> DEFINE h == HoleCount(w, t % NumberRange)
<1>2. h \in Numbers /\ w - h \in Int /\ (w - h) % NumberRange = t % NumberRange
  BY <1>1, LastCount
<1>3. h \in Int /\ 0 <= h /\ h < NumberRange /\ NumberRange \in Nat
  BY <1>2, NumberRangeAssumption DEF Numbers
<1> HIDE DEF h
<1>4. w - h = t
  <2>1. (w - h) - t < NumberRange /\ t - (w - h) < NumberRange
    BY <1>2, <1>3
  <2> QED BY <1>2, <2>1, SameNumber
<1> QED BY <1>3, <1>4 DEF h

-----------------------------------------------------------------------------
(* The counts, and how they change.                                        *)

\* What is counted is finite.
LEMMA Counted ==
  ASSUME Len(sent) \in Nat, NEW c, NEW n
  PROVE  /\ IsFiniteSet(OrderedBefore(c, n))
         /\ Cardinality(OrderedBefore(c, n)) \in Nat
         /\ IsFiniteSet(SequencedBefore(c, n))
         /\ Cardinality(SequencedBefore(c, n)) \in Nat
<1>1. IsFiniteSet(Messages)
  BY FS_Interval DEF Messages
<1>2. OrderedBefore(c, n) \subseteq Messages /\ SequencedBefore(c, n) \subseteq Messages
  BY DEF OrderedBefore, SequencedBefore
<1> QED BY <1>1, <1>2, FS_Subset, FS_CardinalityType

\* The counts are naturals.
LEMMA CountsInType ==
  ASSUME Len(sent) \in Nat
  PROVE  /\ TrueOrderedWrite \in [Channels -> Nat]
         /\ TrueSequencedWrite \in [Channels -> Nat]
         /\ TrueIndex \in [Messages -> Nat]
  BY Counted DEF TrueOrderedWrite, TrueSequencedWrite, TrueIndex

\* The counts depend on nothing but what was sent.
LEMMA CountsOfSent ==
  ASSUME sent' = sent
  PROVE  /\ TrueIndex' = TrueIndex
         /\ TrueOrderedWrite' = TrueOrderedWrite
         /\ TrueSequencedWrite' = TrueSequencedWrite
<1>1. /\ Messages' = Messages
      /\ \A k : Reliability(k)' = Reliability(k) /\ Channel(k)' = Channel(k)
  BY DEF Messages, Reliability, Channel
<1>2. \A c, n : /\ OrderedBefore(c, n)' = OrderedBefore(c, n)
                /\ SequencedBefore(c, n)' = SequencedBefore(c, n)
  BY <1>1 DEF OrderedBefore, SequencedBefore
<1> QED BY <1>1, <1>2 DEF TrueIndex, TrueOrderedWrite, TrueSequencedWrite

\* A function on an interval is a sequence.
LEMMA IntervalSequence ==
  ASSUME NEW n \in Nat, NEW S, NEW f \in [1..n -> S]
  PROVE  f \in Seq(S) /\ Len(f) = n
<1>1. f = [k \in 1..n |-> f[k]] /\ \A k \in 1..n : f[k] \in S
  OBVIOUS
<1> QED BY <1>1

\* It grows by one element.
LEMMA OneLonger ==
  ASSUME NEW n \in Nat, NEW S, NEW f \in [1..n -> S], NEW g,
         g = [k \in 1..(n + 1) |-> g[k]], \A k \in 1..n : g[k] = f[k]
  PROVE  g = Append(f, g[n + 1])
<1>1. f \in Seq(S) /\ Len(f) = n
  BY IntervalSequence
<1> DEFINE h == Append(f, g[n + 1])
<1>2. DOMAIN h = 1..(n + 1) /\ h = [k \in 1..(n + 1) |-> h[k]]
  BY <1>1
<1>3. \A k \in 1..n : h[k] = f[k]
  BY <1>1
<1>4. h[n + 1] = g[n + 1]
  BY <1>1
<1> HIDE DEF h
<1>5. ASSUME NEW k \in 1..(n + 1) PROVE h[k] = g[k]
  <2>1. k \in 1..n \/ k = n + 1
    OBVIOUS
  <2> QED BY <1>3, <1>4, <2>1
<1>6. h = g
  BY <1>2, <1>5
<1> QED BY <1>6 DEF h

\* A new message is counted in its own stream, after all the others.
LEMMA CountsOfSend ==
  ASSUME sent \in Seq(Streams), NEW s \in Streams, sent' = Append(sent, s)
  PROVE  /\ TrueIndex' = Append(TrueIndex,
                           IF IsOrdered(s[1]) THEN TrueOrderedWrite[s[2]]
                           ELSE IF IsSequenced(s[1]) THEN TrueSequencedWrite[s[2]]
                           ELSE 0)
         /\ TrueOrderedWrite' =
              IF IsOrdered(s[1])
              THEN [TrueOrderedWrite EXCEPT ![s[2]] = @ + 1]
              ELSE TrueOrderedWrite
         /\ TrueSequencedWrite' =
              IF IsSequenced(s[1])
              THEN [TrueSequencedWrite EXCEPT ![s[2]] = @ + 1]
              ELSE TrueSequencedWrite
<1>0. PICK n : n = Len(sent)
  OBVIOUS
<1>1. /\ n \in Nat /\ Len(sent') = n + 1 /\ sent'[n + 1] = s
      /\ \A k \in 1..n : sent'[k] = sent[k]
      /\ s[2] \in Channels
  BY <1>0 DEF Channels
<1>2. /\ Messages = 1..n /\ Messages' = 1..(n + 1)
      /\ \A k \in 1..n : /\ Reliability(k)' = Reliability(k)
                         /\ Channel(k)' = Channel(k)
      /\ Reliability(n + 1)' = s[1] /\ Channel(n + 1)' = s[2]
  BY <1>0, <1>1 DEF Messages, Reliability, Channel
<1>3. ASSUME NEW c, NEW m \in 1..(n + 1)
      PROVE  /\ OrderedBefore(c, m)' = OrderedBefore(c, m)
             /\ SequencedBefore(c, m)' = SequencedBefore(c, m)
  BY <1>1, <1>2 DEF OrderedBefore, SequencedBefore
<1>4. ASSUME NEW c \in Channels
      PROVE  /\ OrderedBefore(c, n + 2)' =
                  IF IsOrdered(s[1]) /\ s[2] = c
                  THEN OrderedBefore(c, n + 1) \cup {n + 1}
                  ELSE OrderedBefore(c, n + 1)
             /\ SequencedBefore(c, n + 2)' =
                  IF IsSequenced(s[1]) /\ s[2] = c
                  THEN SequencedBefore(c, n + 1) \cup {n + 1}
                  ELSE SequencedBefore(c, n + 1)
  BY <1>1, <1>2 DEF OrderedBefore, SequencedBefore
<1>5. ASSUME NEW c \in Channels
      PROVE  /\ Cardinality(OrderedBefore(c, n + 2)') =
                  IF IsOrdered(s[1]) /\ s[2] = c
                  THEN TrueOrderedWrite[c] + 1 ELSE TrueOrderedWrite[c]
             /\ Cardinality(SequencedBefore(c, n + 2)') =
                  IF IsSequenced(s[1]) /\ s[2] = c
                  THEN TrueSequencedWrite[c] + 1 ELSE TrueSequencedWrite[c]
  <2>1. /\ IsFiniteSet(OrderedBefore(c, n + 1))
        /\ IsFiniteSet(SequencedBefore(c, n + 1))
    BY <1>0, <1>1, Counted
  <2>2. /\ n + 1 \notin OrderedBefore(c, n + 1)
        /\ n + 1 \notin SequencedBefore(c, n + 1)
    BY <1>1, <1>2 DEF OrderedBefore, SequencedBefore
  <2>3. /\ Cardinality(OrderedBefore(c, n + 1) \cup {n + 1})
             = Cardinality(OrderedBefore(c, n + 1)) + 1
        /\ Cardinality(SequencedBefore(c, n + 1) \cup {n + 1})
             = Cardinality(SequencedBefore(c, n + 1)) + 1
    BY <2>1, <2>2, FS_AddElement
  <2>4. /\ TrueOrderedWrite[c] = Cardinality(OrderedBefore(c, n + 1))
        /\ TrueSequencedWrite[c] = Cardinality(SequencedBefore(c, n + 1))
    BY <1>0 DEF TrueOrderedWrite, TrueSequencedWrite
  <2> QED BY <1>4, <2>3, <2>4
<1>6. /\ TrueOrderedWrite' = [c \in Channels |-> Cardinality(OrderedBefore(c, n + 2)')]
      /\ TrueSequencedWrite' = [c \in Channels |-> Cardinality(SequencedBefore(c, n + 2)')]
  <2>1. Len(sent)' + 1 = n + 2
    BY <1>1
  <2> QED BY <2>1 DEF TrueOrderedWrite, TrueSequencedWrite
<1>7. /\ TrueOrderedWrite' =
              IF IsOrdered(s[1])
              THEN [TrueOrderedWrite EXCEPT ![s[2]] = @ + 1]
              ELSE TrueOrderedWrite
      /\ TrueSequencedWrite' =
              IF IsSequenced(s[1])
              THEN [TrueSequencedWrite EXCEPT ![s[2]] = @ + 1]
              ELSE TrueSequencedWrite
  <2>1. /\ TrueOrderedWrite \in [Channels -> Nat]
        /\ TrueSequencedWrite \in [Channels -> Nat]
    BY <1>0, <1>1, CountsInType
  <2>2. CASE IsOrdered(s[1])
    <3>1. ~IsSequenced(s[1])
      BY <2>2 DEF IsOrdered, IsSequenced
    <3>2. TrueOrderedWrite' = [c \in Channels |->
            IF c = s[2] THEN TrueOrderedWrite[c] + 1 ELSE TrueOrderedWrite[c]]
      BY <1>5, <1>6, <2>2
    <3>3. TrueSequencedWrite' = [c \in Channels |-> TrueSequencedWrite[c]]
      BY <1>5, <1>6, <3>1
    <3> QED BY <2>1, <2>2, <3>1, <3>2, <3>3
  <2>3. CASE ~IsOrdered(s[1])
    <3>1. TrueOrderedWrite' = [c \in Channels |-> TrueOrderedWrite[c]]
      BY <1>5, <1>6, <2>3
    <3>2. TrueSequencedWrite' = [c \in Channels |->
            IF IsSequenced(s[1]) /\ c = s[2]
            THEN TrueSequencedWrite[c] + 1 ELSE TrueSequencedWrite[c]]
      BY <1>5, <1>6
    <3> QED BY <2>1, <2>3, <3>1, <3>2
  <2> QED BY <2>2, <2>3
<1>8. ASSUME NEW k \in 1..n PROVE TrueIndex'[k] = TrueIndex[k]
  <2>1. k \in 1..(n + 1) /\ k \in Messages /\ k \in Messages'
    BY <1>1, <1>2
  <2>2. \A c : /\ OrderedBefore(c, k)' = OrderedBefore(c, k)
               /\ SequencedBefore(c, k)' = SequencedBefore(c, k)
    BY <1>3, <2>1
  <2> QED BY <1>2, <2>1, <2>2 DEF TrueIndex
<1>9. TrueIndex'[n + 1] =
         IF IsOrdered(s[1]) THEN TrueOrderedWrite[s[2]]
         ELSE IF IsSequenced(s[1]) THEN TrueSequencedWrite[s[2]]
         ELSE 0
  <2>1. n + 1 \in 1..(n + 1) /\ n + 1 \in Messages'
    BY <1>1, <1>2
  <2>2. /\ OrderedBefore(s[2], n + 1)' = OrderedBefore(s[2], n + 1)
        /\ SequencedBefore(s[2], n + 1)' = SequencedBefore(s[2], n + 1)
    BY <1>3, <2>1
  <2>3. /\ TrueOrderedWrite[s[2]] = Cardinality(OrderedBefore(s[2], n + 1))
        /\ TrueSequencedWrite[s[2]] = Cardinality(SequencedBefore(s[2], n + 1))
    BY <1>0, <1>1 DEF TrueOrderedWrite, TrueSequencedWrite
  <2> QED BY <1>2, <2>1, <2>2, <2>3 DEF TrueIndex
<1>10. TrueIndex \in [1..n -> Nat] /\ TrueIndex' = [k \in 1..(n + 1) |-> TrueIndex'[k]]
  <2>1. TrueIndex \in [1..n -> Nat]
    BY <1>0, <1>1, <1>2, CountsInType
  <2>2. TrueIndex' = [k \in Messages' |-> TrueIndex'[k]]
    BY DEF TrueIndex
  <2> QED BY <1>2, <2>1, <2>2
<1>11. TrueIndex' = Append(TrueIndex, TrueIndex'[n + 1])
  BY <1>1, <1>8, <1>10, OneLonger
<1> QED BY <1>7, <1>9, <1>11

\* A count less than a turn before the writer's is read back from its number.
LEMMA ReadBack ==
  ASSUME NEW w \in Int, NEW t \in Int, t <= w, w - t < NumberRange
  PROVE  /\ HoleCount(w % NumberRange, t % NumberRange) = w - t
         /\ w - HoleCount(w % NumberRange, t % NumberRange) = t
<1>1. t % NumberRange \in Int
  BY ModRange, NumberRangeAssumption DEF Numbers
<1> QED BY <1>1, HoleCountOfCount, LastCountIs

\* The positions of the receiver have the numbers it keeps, and lag behind the
\* sender by the hole counts.
LEMMA Readings ==
  ASSUME Linked, Len(sent) \in Nat
  PROVE  /\ TrueBase \in Int /\ TrueBase % NumberRange = base
         /\ HoleCount(Len(sent), base) \in Numbers
         /\ Len(sent) - TrueBase = HoleCount(Len(sent), base)
         /\ \A c \in Channels :
              /\ TrueOrderedRead[c] \in Int
              /\ TrueOrderedRead[c] % NumberRange = orderedRead[c]
              /\ HoleCount(orderedWrite[c], orderedRead[c]) \in Numbers
              /\ TrueOrderedWrite[c] - TrueOrderedRead[c]
                   = HoleCount(orderedWrite[c], orderedRead[c])
              /\ TrueSequencedRead[c] \in Int
              /\ TrueSequencedRead[c] % NumberRange = sequencedRead[c]
              /\ HoleCount(sequencedWrite[c], sequencedRead[c]) \in Numbers
              /\ TrueSequencedWrite[c] - TrueSequencedRead[c]
                   = HoleCount(sequencedWrite[c], sequencedRead[c])
<1>1. ASSUME NEW w \in Int, NEW r \in Numbers
      PROVE  /\ HoleCount(w % NumberRange, r) \in Numbers
             /\ w - HoleCount(w % NumberRange, r) \in Int
             /\ (w - HoleCount(w % NumberRange, r)) % NumberRange = r
             /\ w - (w - HoleCount(w % NumberRange, r)) = HoleCount(w % NumberRange, r)
  <2>1. r \in Int
    BY NumberRangeAssumption DEF Numbers
  <2>2. /\ HoleCount(w, r) \in Numbers
        /\ w - HoleCount(w, r) \in Int
        /\ (w - HoleCount(w, r)) % NumberRange = r
        /\ HoleCount(w % NumberRange, r) = HoleCount(w, r)
    BY <2>1, HoleCountOfCount, LastCount
  <2>3. HoleCount(w, r) \in Int
    BY <2>2, NumberRangeAssumption DEF Numbers
  <2>4. w - (w - HoleCount(w, r)) = HoleCount(w, r)
    BY <2>3
  <2> QED BY <2>2, <2>4
<1>2. /\ TrueBase \in Int /\ TrueBase % NumberRange = base
      /\ HoleCount(Len(sent), base) \in Numbers
      /\ Len(sent) - TrueBase = HoleCount(Len(sent), base)
  <2>1. Len(sent) \in Int /\ base \in Numbers /\ base \in Int
    BY NumberRangeAssumption DEF Linked, Numbers
  <2>2. HoleCount(Len(sent) % NumberRange, base) = HoleCount(Len(sent), base)
    BY <2>1, HoleCountOfCount
  <2> QED BY <1>1, <2>1, <2>2 DEF TrueBase
<1> SUFFICES ASSUME NEW c \in Channels
             PROVE  /\ TrueOrderedRead[c] \in Int
                    /\ TrueOrderedRead[c] % NumberRange = orderedRead[c]
                    /\ HoleCount(orderedWrite[c], orderedRead[c]) \in Numbers
                    /\ TrueOrderedWrite[c] - TrueOrderedRead[c]
                         = HoleCount(orderedWrite[c], orderedRead[c])
                    /\ TrueSequencedRead[c] \in Int
                    /\ TrueSequencedRead[c] % NumberRange = sequencedRead[c]
                    /\ HoleCount(sequencedWrite[c], sequencedRead[c]) \in Numbers
                    /\ TrueSequencedWrite[c] - TrueSequencedRead[c]
                         = HoleCount(sequencedWrite[c], sequencedRead[c])
  BY <1>2
<1>3. /\ TrueOrderedWrite[c] \in Int /\ TrueSequencedWrite[c] \in Int
      /\ orderedRead[c] \in Numbers /\ sequencedRead[c] \in Numbers
      /\ orderedWrite[c] = TrueOrderedWrite[c] % NumberRange
      /\ sequencedWrite[c] = TrueSequencedWrite[c] % NumberRange
  <2>1. TrueOrderedWrite[c] \in Nat /\ TrueSequencedWrite[c] \in Nat
    BY CountsInType
  <2> QED BY <2>1 DEF Linked
<1>4. /\ TrueOrderedRead[c] =
           TrueOrderedWrite[c] - HoleCount(orderedWrite[c], orderedRead[c])
      /\ TrueSequencedRead[c] =
           TrueSequencedWrite[c] - HoleCount(sequencedWrite[c], sequencedRead[c])
  BY DEF TrueOrderedRead, TrueSequencedRead
<1> QED BY <1>1, <1>3, <1>4

\* A step that touches neither what was sent nor the window and its indices
\* leaves every count as it was.
LEMMA Untouched ==
  ASSUME Linked, CountInv,
         UNCHANGED <<sent, index, orderedWrite, sequencedWrite, base,
                     orderedRead, sequencedRead>>,
         sendPacketSet' \cup resendList' \subseteq sendPacketSet \cup resendList
  PROVE  /\ Linked' /\ CountInv'
         /\ TrueIndex' = TrueIndex
         /\ TrueOrderedWrite' = TrueOrderedWrite
         /\ TrueSequencedWrite' = TrueSequencedWrite
         /\ TrueBase' = TrueBase
         /\ TrueOrderedRead' = TrueOrderedRead
         /\ TrueSequencedRead' = TrueSequencedRead
<1>1. /\ TrueIndex' = TrueIndex
      /\ TrueOrderedWrite' = TrueOrderedWrite
      /\ TrueSequencedWrite' = TrueSequencedWrite
  BY CountsOfSent
<1>2. /\ TrueBase' = TrueBase
      /\ TrueOrderedRead' = TrueOrderedRead
      /\ TrueSequencedRead' = TrueSequencedRead
  BY <1>1 DEF TrueBase, TrueOrderedRead, TrueSequencedRead
<1>3. Linked'
  BY <1>1 DEF Linked, Messages, IsFresh
<1>4. CountInv'
  BY <1>1 DEF CountInv, Messages, Reliability, Channel
<1> QED BY <1>1, <1>2, <1>3, <1>4

\* Nothing has been counted at first.
LEMMA InitWrap == FewInUse /\ Init => WrapInv
<1> SUFFICES ASSUME Init PROVE WrapInv
  OBVIOUS
<1>1. sent = <<>> /\ Len(sent) = 0 /\ Messages = {} /\ 0 \in Numbers
  BY NumberRangeAssumption DEF Init, Messages, Numbers
<1>2. 0 % NumberRange = 0 /\ HoleCount(0, 0) = 0
  BY <1>1, ModSmall DEF HoleCount
<1>3. \A c, n : OrderedBefore(c, n) = {} /\ SequencedBefore(c, n) = {}
  BY <1>1 DEF OrderedBefore, SequencedBefore
<1>4. /\ TrueOrderedWrite = [c \in Channels |-> 0]
      /\ TrueSequencedWrite = [c \in Channels |-> 0]
  BY <1>3, FS_EmptySet DEF TrueOrderedWrite, TrueSequencedWrite
<1>5. TrueIndex = <<>>
  BY <1>1 DEF TrueIndex
<1>6. TrueBase = 0
  BY <1>1, <1>2 DEF Init, TrueBase
<1>7. /\ TrueOrderedRead = [c \in Channels |-> 0]
      /\ TrueSequencedRead = [c \in Channels |-> 0]
  BY <1>2, <1>4 DEF Init, TrueOrderedRead, TrueSequencedRead
<1>8. Linked
  <2>1. index \in Seq(Numbers) /\ Len(index) = Len(sent) /\ base \in Numbers
    BY <1>1 DEF Init
  <2>2. /\ orderedWrite \in [Channels -> Numbers]
        /\ sequencedWrite \in [Channels -> Numbers]
        /\ orderedRead \in [Channels -> Numbers]
        /\ sequencedRead \in [Channels -> Numbers]
    BY <1>1 DEF Init
  <2>3. /\ \A k \in Messages : index[k] = TrueIndex[k] % NumberRange
        /\ \A k \in sendPacketSet \cup resendList : IsFresh(k)
    BY <1>1 DEF Init
  <2>4. \A c \in Channels :
          /\ orderedWrite[c] = TrueOrderedWrite[c] % NumberRange
          /\ sequencedWrite[c] = TrueSequencedWrite[c] % NumberRange
    BY <1>2, <1>4 DEF Init
  <2> QED BY <2>1, <2>2, <2>3, <2>4 DEF Linked
<1>9. CountInv
  BY <1>1, <1>4 DEF CountInv
<1>10. Big!DeliveryInv
  <2>1. Big!Init
    BY <1>4, <1>5, <1>6, <1>7 DEF Init, Big!Init, Big!Channels, Channels
  <2> QED BY <2>1, BoundsAssumption, BigIsWide, Big!InitDelivery
<1> QED BY <1>8, <1>9, <1>10 DEF WrapInv

-----------------------------------------------------------------------------
(* The sender.                                                             *)

\* What the invariant says of the counts, in the terms of this module.
LEMMA TrueTypes ==
  ASSUME WrapInv
  PROVE  /\ sent \in Seq(Streams) /\ Len(sent) \in Nat /\ Len(sent) <= MaxMessages
         /\ MaxMessages \in Nat /\ now \in Nat \ {0}
         /\ hasReceived \in Seq(Nat) /\ Len(hasReceived) \in Nat
         /\ TrueBase \in Nat /\ TrueBase + Len(hasReceived) <= Len(sent)
         /\ sendPacketSet \subseteq Messages /\ resendList \subseteq Messages
         /\ inFlight \subseteq Messages /\ acksInFlight \subseteq Messages
         /\ acknowledgements \subseteq Messages /\ orderingList \subseteq Messages
         /\ \A c \in Channels :
              /\ TrueOrderedWrite[c] \in 0..Len(sent)
              /\ TrueSequencedWrite[c] \in 0..Len(sent)
              /\ TrueOrderedRead[c] \in 0..TrueOrderedWrite[c]
              /\ TrueSequencedRead[c] \in Nat
         /\ \A k \in Messages :
              /\ k \in 1..Len(sent) /\ sent[k] \in Streams
              /\ Channel(k) \in Channels
              /\ TrueIndex[k] \in Nat /\ TrueIndex[k] < k
              /\ IsOrdered(Reliability(k)) =>
                   TrueIndex[k] < TrueOrderedWrite[Channel(k)]
              /\ IsSequenced(Reliability(k)) =>
                   TrueIndex[k] < TrueSequencedWrite[Channel(k)]
<1>1. /\ Big!TypeOK /\ Big!WindowInv /\ Big!IndexInv /\ Big!OrderInv
      /\ MaxMessages \in Nat
  BY BoundsAssumption DEF WrapInv, Big!DeliveryInv
<1>2. /\ sent \in Seq(Streams) /\ Len(sent) \in Nat /\ Len(sent) <= MaxMessages
      /\ hasReceived \in Seq(Nat) /\ Len(hasReceived) \in Nat
      /\ now \in Nat \ {0}
      /\ sendPacketSet \subseteq Messages /\ resendList \subseteq Messages
      /\ inFlight \subseteq Messages /\ acksInFlight \subseteq Messages
      /\ acknowledgements \subseteq Messages /\ orderingList \subseteq Messages
  BY <1>1 DEF Big!TypeOK, Big!Messages, Messages
<1>3. TrueBase \in Nat /\ TrueBase + Len(hasReceived) <= Len(sent)
  BY <1>1, BigIsWide DEF Big!TypeOK, Big!WindowInv, Big!Numbers
<1>4. /\ TrueOrderedWrite \in [Channels -> Nat]
      /\ TrueSequencedWrite \in [Channels -> Nat]
      /\ TrueIndex \in [Messages -> Nat]
  BY <1>2, CountsInType
<1>5. ASSUME NEW c \in Channels
      PROVE  /\ TrueOrderedWrite[c] \in 0..Len(sent)
             /\ TrueSequencedWrite[c] \in 0..Len(sent)
             /\ TrueOrderedRead[c] \in 0..TrueOrderedWrite[c]
             /\ TrueSequencedRead[c] \in Nat
  <2>1. c \in Big!Channels
    BY DEF Channels, Big!Channels
  <2>2. /\ TrueOrderedWrite[c] <= Len(sent) /\ TrueSequencedWrite[c] <= Len(sent)
        /\ TrueOrderedRead[c] <= TrueOrderedWrite[c]
    BY <1>1, <2>1 DEF Big!IndexInv, Big!OrderInv
  <2>3. TrueOrderedRead[c] \in Big!Numbers /\ TrueSequencedRead[c] \in Big!Numbers
    BY <1>1, <2>1 DEF Big!TypeOK
  <2>4. TrueOrderedRead[c] \in Nat /\ TrueSequencedRead[c] \in Nat
    BY <2>3, BigIsWide DEF Big!Numbers
  <2> QED BY <1>2, <1>4, <2>2, <2>4
<1>6. ASSUME NEW k \in Messages
      PROVE  /\ k \in 1..Len(sent) /\ sent[k] \in Streams
             /\ Channel(k) \in Channels
             /\ TrueIndex[k] \in Nat /\ TrueIndex[k] < k
             /\ IsOrdered(Reliability(k)) =>
                  TrueIndex[k] < TrueOrderedWrite[Channel(k)]
             /\ IsSequenced(Reliability(k)) =>
                  TrueIndex[k] < TrueSequencedWrite[Channel(k)]
  <2>1. k \in 1..Len(sent) /\ sent[k] \in Streams
    BY <1>2, ElementOfSeq DEF Messages
  <2>2. /\ k \in Big!Messages /\ Big!Channel(k) = Channel(k)
        /\ Big!Reliability(k) = Reliability(k)
        /\ \A r : Big!IsOrdered(r) = IsOrdered(r) /\ Big!IsSequenced(r) = IsSequenced(r)
    BY DEF Big!Messages, Messages, Big!Channel, Channel, Big!Reliability,
           Reliability, Big!IsOrdered, IsOrdered, Big!IsSequenced, IsSequenced
  <2>3. Channel(k) \in Channels
    BY <2>1 DEF Channel, Channels
  <2> QED BY <1>1, <1>4, <2>1, <2>2, <2>3 DEF Big!IndexInv
<1> QED BY <1>1, <1>2, <1>3, <1>5, <1>6

\* A step gives a new message of stream s the index that stands for count i.
Indexed(s, i) ==
  /\ TrueIndex' = Append(TrueIndex, i)
  /\ index' = Append(index, i % NumberRange)
  /\ \/ /\ IsOrdered(s[1]) /\ ~IsSequenced(s[1])
        /\ i = TrueOrderedWrite[s[2]]
        /\ TrueOrderedWrite' = [TrueOrderedWrite EXCEPT ![s[2]] = @ + 1]
        /\ orderedWrite' =
             [orderedWrite EXCEPT ![s[2]] = (@ + 1) % NumberRange]
        /\ TrueSequencedWrite' = TrueSequencedWrite
        /\ sequencedWrite' = sequencedWrite
     \/ /\ IsSequenced(s[1]) /\ ~IsOrdered(s[1])
        /\ i = TrueSequencedWrite[s[2]]
        /\ TrueSequencedWrite' = [TrueSequencedWrite EXCEPT ![s[2]] = @ + 1]
        /\ sequencedWrite' =
             [sequencedWrite EXCEPT ![s[2]] = (@ + 1) % NumberRange]
        /\ TrueOrderedWrite' = TrueOrderedWrite
        /\ orderedWrite' = orderedWrite
     \/ /\ ~IsOrdered(s[1]) /\ ~IsSequenced(s[1]) /\ i = 0
        /\ TrueOrderedWrite' = TrueOrderedWrite
        /\ orderedWrite' = orderedWrite
        /\ TrueSequencedWrite' = TrueSequencedWrite
        /\ sequencedWrite' = sequencedWrite

\* The index a new message is given, and the counts after it.
LEMMA SendCounts ==
  ASSUME WrapInv, NEW s \in Streams, Send(s)
  PROVE  \E i \in Nat : Indexed(s, i)
<1>1. /\ sent \in Seq(Streams) /\ sent' = Append(sent, s) /\ s[2] \in Channels
  BY TrueTypes DEF Send, Channels
<1>2. /\ TrueIndex' = Append(TrueIndex,
                        IF IsOrdered(s[1]) THEN TrueOrderedWrite[s[2]]
                        ELSE IF IsSequenced(s[1]) THEN TrueSequencedWrite[s[2]]
                        ELSE 0)
      /\ TrueOrderedWrite' =
           IF IsOrdered(s[1]) THEN [TrueOrderedWrite EXCEPT ![s[2]] = @ + 1]
                              ELSE TrueOrderedWrite
      /\ TrueSequencedWrite' =
           IF IsSequenced(s[1]) THEN [TrueSequencedWrite EXCEPT ![s[2]] = @ + 1]
                                ELSE TrueSequencedWrite
  BY <1>1, CountsOfSend
<1>3. /\ TrueOrderedWrite[s[2]] \in Nat /\ TrueSequencedWrite[s[2]] \in Nat
      /\ orderedWrite[s[2]] = TrueOrderedWrite[s[2]] % NumberRange
      /\ sequencedWrite[s[2]] = TrueSequencedWrite[s[2]] % NumberRange
  BY <1>1, TrueTypes DEF WrapInv, Linked
<1>4. CASE IsOrdered(s[1])
  <2>1. ~IsSequenced(s[1])
    BY <1>4 DEF IsOrdered, IsSequenced
  <2>2. /\ index' = Append(index, orderedWrite[s[2]])
        /\ orderedWrite' = [orderedWrite EXCEPT ![s[2]] = (@ + 1) % NumberRange]
        /\ sequencedWrite' = sequencedWrite
    BY <1>4, <2>1 DEF Send
  <2> QED BY <1>2, <1>3, <1>4, <2>1, <2>2 DEF Indexed
<1>5. CASE IsSequenced(s[1])
  <2>1. ~IsOrdered(s[1])
    BY <1>5 DEF IsOrdered, IsSequenced
  <2>2. /\ index' = Append(index, sequencedWrite[s[2]])
        /\ sequencedWrite' = [sequencedWrite EXCEPT ![s[2]] = (@ + 1) % NumberRange]
        /\ orderedWrite' = orderedWrite
    BY <1>5, <2>1 DEF Send
  <2> QED BY <1>2, <1>3, <1>5, <2>1, <2>2 DEF Indexed
<1>6. CASE ~IsOrdered(s[1]) /\ ~IsSequenced(s[1])
  <2>1. index' = Append(index, 0) /\ UNCHANGED <<orderedWrite, sequencedWrite>>
    BY <1>6 DEF Send
  <2>2. 0 % NumberRange = 0
    BY ModSmall, NumberRangeAssumption DEF Numbers
  <2> QED BY <1>2, <1>6, <2>1, <2>2 DEF Indexed
<1> QED BY <1>4, <1>5, <1>6 DEF Indexed

\* The next count has the next number.
LEMMA NextNumber ==
  ASSUME NEW w \in Int
  PROVE  ((w % NumberRange) + 1) % NumberRange = (w + 1) % NumberRange
  BY WrapOnce

\* The new message comes last, and nothing that was sent changes.
LEMMA SendShape ==
  ASSUME WrapInv, NEW s \in Streams, Send(s), NEW n, n = Len(sent)
  PROVE  /\ n \in Nat /\ n < MaxMessages /\ Len(sent') = n + 1
         /\ sent' = Append(sent, s) /\ s[2] \in Channels
         /\ Messages = 1..n /\ Messages' = 1..(n + 1)
         /\ \A k \in 1..n : /\ TrueIndex'[k] = TrueIndex[k]
                            /\ Reliability(k)' = Reliability(k)
                            /\ Channel(k)' = Channel(k)
         /\ Reliability(n + 1)' = s[1] /\ Channel(n + 1)' = s[2]
         /\ \E i \in Nat : Indexed(s, i) /\ TrueIndex'[n + 1] = i
<1>1. /\ sent \in Seq(Streams) /\ sent' = Append(sent, s) /\ n \in Nat
      /\ s[2] \in Channels /\ Messages = 1..n /\ Messages' = 1..(n + 1)
      /\ Len(sent') = n + 1 /\ n < MaxMessages
  BY TrueTypes DEF Send, Channels, Messages
<1>2. /\ \A k \in 1..n : sent'[k] = sent[k]
      /\ sent'[n + 1] = s
  BY <1>1
<1>3. /\ \A k \in 1..n : /\ Reliability(k)' = Reliability(k)
                         /\ Channel(k)' = Channel(k)
      /\ Reliability(n + 1)' = s[1] /\ Channel(n + 1)' = s[2]
  BY <1>2 DEF Reliability, Channel
<1>4. PICK i \in Nat : Indexed(s, i)
  BY SendCounts
<1>5. TrueIndex \in Seq(Nat) /\ Len(TrueIndex) = n
  <2>1. TrueIndex \in [1..n -> Nat]
    BY <1>1, CountsInType
  <2> QED BY <1>1, <2>1, IntervalSequence
<1>6. /\ \A k \in 1..n : TrueIndex'[k] = TrueIndex[k]
      /\ TrueIndex'[n + 1] = i
  <2>1. TrueIndex' = Append(TrueIndex, i)
    BY <1>4 DEF Indexed
  <2> QED BY <1>1, <1>5, <2>1
<1> QED BY <1>1, <1>3, <1>4, <1>6

\* Sending keeps the numbers the remainders of the counts.
LEMMA SendLinked ==
  ASSUME FewInUse, WrapInv, NEW s \in Streams, Send(s)
  PROVE  Linked'
<1>1. PICK n : n = Len(sent)
  OBVIOUS
<1>2. /\ n \in Nat /\ Len(sent') = n + 1 /\ s[2] \in Channels
      /\ Messages = 1..n /\ Messages' = 1..(n + 1)
  BY <1>1, SendShape
<1>3. PICK i \in Nat : Indexed(s, i) /\ TrueIndex'[n + 1] = i
  BY <1>1, SendShape
<1>4. i % NumberRange \in Numbers
  BY ModRange
<1>5. /\ index' \in Seq(Numbers) /\ Len(index') = n + 1
      /\ \A k \in 1..n : index'[k] = index[k]
      /\ index'[n + 1] = i % NumberRange
  BY <1>1, <1>2, <1>3, <1>4 DEF WrapInv, Linked, Indexed
<1>6. /\ \A k \in 1..n : TrueIndex'[k] = TrueIndex[k]
      /\ TrueIndex'[n + 1] = i
  BY <1>1, <1>3, SendShape
<1>7. \A k \in Messages' : index'[k] = TrueIndex'[k] % NumberRange
  <2>1. \A k \in 1..n : index[k] = TrueIndex[k] % NumberRange
    BY <1>2 DEF WrapInv, Linked
  <2> HIDE DEF TrueIndex
  <2> SUFFICES ASSUME NEW k \in 1..(n + 1)
               PROVE  index'[k] = TrueIndex'[k] % NumberRange
    BY <1>2
  <2>2. CASE k = n + 1
    BY <1>5, <1>6, <2>2, Zenon
  <2>3. CASE k \in 1..n
    BY <1>5, <1>6, <2>1, <2>3
  <2> QED BY <1>2, <2>2, <2>3
<1>8. /\ orderedWrite' \in [Channels -> Numbers]
      /\ sequencedWrite' \in [Channels -> Numbers]
      /\ \A c \in Channels :
           /\ orderedWrite'[c] = TrueOrderedWrite'[c] % NumberRange
           /\ sequencedWrite'[c] = TrueSequencedWrite'[c] % NumberRange
  <2>1. /\ orderedWrite \in [Channels -> Numbers]
        /\ sequencedWrite \in [Channels -> Numbers]
        /\ \A c \in Channels :
             /\ orderedWrite[c] = TrueOrderedWrite[c] % NumberRange
             /\ sequencedWrite[c] = TrueSequencedWrite[c] % NumberRange
    BY DEF WrapInv, Linked
  <2>2. /\ TrueOrderedWrite \in [Channels -> Nat]
        /\ TrueSequencedWrite \in [Channels -> Nat]
    BY <1>1, <1>2, CountsInType
  <2>3. /\ (orderedWrite[s[2]] + 1) % NumberRange
             = (TrueOrderedWrite[s[2]] + 1) % NumberRange
        /\ (sequencedWrite[s[2]] + 1) % NumberRange
             = (TrueSequencedWrite[s[2]] + 1) % NumberRange
    <3>1. TrueOrderedWrite[s[2]] \in Int /\ TrueSequencedWrite[s[2]] \in Int
      BY <1>2, <2>2
    <3> QED BY <1>2, <2>1, <3>1, NextNumber
  <2>4. /\ (TrueOrderedWrite[s[2]] + 1) % NumberRange \in Numbers
        /\ (TrueSequencedWrite[s[2]] + 1) % NumberRange \in Numbers
    BY <1>2, <2>2, ModRange
  <2> QED BY <1>2, <1>3, <2>1, <2>2, <2>3, <2>4 DEF Indexed
<1>9. \A k \in sendPacketSet' \cup resendList' : IsFresh(k)'
  <2>1. /\ sendPacketSet' = sendPacketSet \cup {n + 1} /\ resendList' = resendList
        /\ \A k \in sendPacketSet \cup resendList : n + 1 - k < MaxAge
    BY <1>1 DEF Send, resendVars
  <2>2. (n + 1) - (n + 1) = 0 /\ MaxAge \in Nat /\ 0 < MaxAge
    BY <1>2, HalfTurnType DEF FewInUse
  <2>3. ASSUME NEW k \in sendPacketSet' \cup resendList' PROVE IsFresh(k)'
    <3>1. k = n + 1 \/ k \in sendPacketSet \cup resendList
      BY <2>1
    <3>2. n + 1 - k < MaxAge
      BY <1>2, <2>1, <2>2, <3>1
    <3>3. IsFresh(k)' <=> Len(sent') - k < MaxAge
      BY DEF IsFresh
    <3>4. k \in Int
      BY <1>2, <3>1, TrueTypes
    <3> QED BY <1>2, <3>2, <3>3, <3>4
  <2> QED BY <2>3
<1>10. base' = base /\ orderedRead' = orderedRead /\ sequencedRead' = sequencedRead
  BY DEF Send, receiverVars, windowVars, readVars
<1> QED BY <1>2, <1>5, <1>7, <1>8, <1>9, <1>10 DEF WrapInv, Linked

\* Sending adds one to a count and one index below it.
LEMMA SendCountInv ==
  ASSUME FewInUse, WrapInv, NEW s \in Streams, Send(s)
  PROVE  CountInv'
<1>1. PICK n : n = Len(sent)
  OBVIOUS
<1>2. /\ n \in Nat /\ Len(sent') = n + 1 /\ s[2] \in Channels
      /\ Messages = 1..n /\ Messages' = 1..(n + 1)
      /\ \A k \in 1..n : /\ TrueIndex'[k] = TrueIndex[k]
                         /\ Reliability(k)' = Reliability(k)
                         /\ Channel(k)' = Channel(k)
      /\ Reliability(n + 1)' = s[1] /\ Channel(n + 1)' = s[2]
  BY <1>1, SendShape
<1>3. PICK i \in Nat : Indexed(s, i) /\ TrueIndex'[n + 1] = i
  BY <1>1, SendShape
<1>4. /\ TrueOrderedWrite \in [Channels -> Nat]
      /\ TrueSequencedWrite \in [Channels -> Nat]
  BY <1>1, <1>2, CountsInType
<1>5. \A c \in Channels :
        /\ TrueOrderedWrite'[c] =
             IF IsOrdered(s[1]) /\ c = s[2] THEN TrueOrderedWrite[c] + 1
                                            ELSE TrueOrderedWrite[c]
        /\ TrueSequencedWrite'[c] =
             IF IsSequenced(s[1]) /\ c = s[2] THEN TrueSequencedWrite[c] + 1
                                              ELSE TrueSequencedWrite[c]
  BY <1>3, <1>4 DEF Indexed
<1>6. /\ IsOrdered(s[1]) => i = TrueOrderedWrite[s[2]]
      /\ IsSequenced(s[1]) => i = TrueSequencedWrite[s[2]]
  BY <1>3 DEF Indexed
<1>7. CountInv
  BY DEF WrapInv
<1>8. ASSUME NEW k \in Messages'
      PROVE  /\ IsOrdered(Reliability(k)') =>
                  TrueOrderedWrite'[Channel(k)'] - TrueIndex'[k] <= n + 2 - k
             /\ IsSequenced(Reliability(k)') =>
                  TrueSequencedWrite'[Channel(k)'] - TrueIndex'[k] <= n + 2 - k
  <2>1. CASE k = n + 1
    <3>1. /\ Reliability(k)' = s[1] /\ Channel(k)' = s[2] /\ TrueIndex'[k] = i
      BY <1>2, <1>3, <2>1
    <3>2. TrueOrderedWrite[s[2]] \in Nat /\ TrueSequencedWrite[s[2]] \in Nat
      BY <1>2, <1>4
    <3>3. n + 2 - k = 1
      BY <1>2, <2>1
    <3>4. /\ IsOrdered(s[1]) => TrueOrderedWrite'[s[2]] = i + 1
          /\ IsSequenced(s[1]) => TrueSequencedWrite'[s[2]] = i + 1
      BY <1>2, <1>5, <1>6
    <3> QED BY <3>1, <3>2, <3>3, <3>4
  <2>2. CASE k \in 1..n
    <3>1. /\ k \in Messages /\ Reliability(k)' = Reliability(k)
          /\ Channel(k)' = Channel(k) /\ TrueIndex'[k] = TrueIndex[k]
      BY <1>2, <2>2
    <3>2. Channel(k) \in Channels /\ TrueIndex[k] \in Nat
      BY <3>1, TrueTypes
    <3>3. /\ TrueOrderedWrite[Channel(k)] \in Nat
          /\ TrueSequencedWrite[Channel(k)] \in Nat
      BY <1>4, <3>2
    <3>4. /\ TrueOrderedWrite'[Channel(k)] <= TrueOrderedWrite[Channel(k)] + 1
          /\ TrueSequencedWrite'[Channel(k)] <= TrueSequencedWrite[Channel(k)] + 1
          /\ TrueOrderedWrite'[Channel(k)] \in Nat
          /\ TrueSequencedWrite'[Channel(k)] \in Nat
      BY <1>5, <3>2, <3>3
    <3>5. /\ IsOrdered(Reliability(k)) =>
                TrueOrderedWrite[Channel(k)] - TrueIndex[k] <= n + 1 - k
          /\ IsSequenced(Reliability(k)) =>
                TrueSequencedWrite[Channel(k)] - TrueIndex[k] <= n + 1 - k
      BY <1>1, <1>7, <3>1 DEF CountInv
    <3>6. k \in Int /\ n \in Int
      BY <1>2
    <3>7. IsOrdered(Reliability(k)) =>
             TrueOrderedWrite'[Channel(k)] - TrueIndex[k] <= n + 2 - k
      BY <3>2, <3>3, <3>4, <3>5, <3>6
    <3>8. IsSequenced(Reliability(k)) =>
             TrueSequencedWrite'[Channel(k)] - TrueIndex[k] <= n + 2 - k
      BY <3>2, <3>3, <3>4, <3>5, <3>6
    <3> QED BY <3>1, <3>7, <3>8
  <2> QED BY <1>2, <2>1, <2>2
<1>9. ASSUME NEW c \in Channels
      PROVE  /\ \A x \in 0..(TrueOrderedWrite'[c] - 1) : \E k \in Messages' :
                   /\ IsOrdered(Reliability(k)') /\ Channel(k)' = c
                   /\ TrueIndex'[k] = x
             /\ \A x \in 0..(TrueSequencedWrite'[c] - 1) : \E k \in Messages' :
                   /\ IsSequenced(Reliability(k)') /\ Channel(k)' = c
                   /\ TrueIndex'[k] = x
  <2>1. TrueOrderedWrite[c] \in Nat /\ TrueSequencedWrite[c] \in Nat
    BY <1>4
  <2>2. ASSUME NEW x \in 0..(TrueOrderedWrite'[c] - 1)
        PROVE  \E k \in Messages' : /\ IsOrdered(Reliability(k)') /\ Channel(k)' = c
                                   /\ TrueIndex'[k] = x
    <3>1. CASE x \in 0..(TrueOrderedWrite[c] - 1)
      <4>1. PICK k \in Messages : IsOrdered(Reliability(k)) /\ Channel(k) = c
                                  /\ TrueIndex[k] = x
        BY <1>7, <3>1 DEF CountInv
      <4> QED BY <1>2, <4>1
    <3>2. CASE ~(x \in 0..(TrueOrderedWrite[c] - 1))
      <4>1. IsOrdered(s[1]) /\ c = s[2] /\ x = TrueOrderedWrite[c]
        BY <1>5, <2>1, <2>2, <3>2
      <4> QED BY <1>2, <1>3, <1>6, <4>1
    <3> QED BY <3>1, <3>2
  <2>3. ASSUME NEW x \in 0..(TrueSequencedWrite'[c] - 1)
        PROVE  \E k \in Messages' : /\ IsSequenced(Reliability(k)') /\ Channel(k)' = c
                                   /\ TrueIndex'[k] = x
    <3>1. CASE x \in 0..(TrueSequencedWrite[c] - 1)
      <4>1. PICK k \in Messages : IsSequenced(Reliability(k)) /\ Channel(k) = c
                                  /\ TrueIndex[k] = x
        BY <1>7, <3>1 DEF CountInv
      <4> QED BY <1>2, <4>1
    <3>2. CASE ~(x \in 0..(TrueSequencedWrite[c] - 1))
      <4>1. IsSequenced(s[1]) /\ c = s[2] /\ x = TrueSequencedWrite[c]
        BY <1>5, <2>1, <2>3, <3>2
      <4> QED BY <1>2, <1>3, <1>6, <4>1
    <3> QED BY <3>1, <3>2
  <2> QED BY <2>2, <2>3
<1>10. Len(sent)' + 1 = n + 2
  BY <1>2
<1>11. \A k \in Messages' :
         /\ IsOrdered(Reliability(k)') =>
              TrueOrderedWrite'[Channel(k)'] - TrueIndex'[k] <= Len(sent)' + 1 - k
         /\ IsSequenced(Reliability(k)') =>
              TrueSequencedWrite'[Channel(k)'] - TrueIndex'[k] <= Len(sent)' + 1 - k
  <2> SUFFICES ASSUME NEW k \in Messages'
               PROVE  /\ IsOrdered(Reliability(k)') =>
                           TrueOrderedWrite'[Channel(k)'] - TrueIndex'[k]
                             <= Len(sent)' + 1 - k
                      /\ IsSequenced(Reliability(k)') =>
                           TrueSequencedWrite'[Channel(k)'] - TrueIndex'[k]
                             <= Len(sent)' + 1 - k
    OBVIOUS
  <2>1. Len(sent)' + 1 - k = n + 2 - k
    BY <1>2, <1>10
  <2> QED BY <1>8, <2>1
<1> QED BY <1>9, <1>11, Zenon DEF CountInv

\* Sending moves no position of the receiver: the sender is not yet a turn ahead.
LEMMA SendReads ==
  ASSUME FewInUse, WrapInv, InStep, NEW s \in Streams, Send(s)
  PROVE  /\ TrueBase' = TrueBase
         /\ TrueOrderedRead' = TrueOrderedRead
         /\ TrueSequencedRead' = TrueSequencedRead
<1>1. PICK n : n = Len(sent)
  OBVIOUS
<1>2. /\ n \in Nat /\ Len(sent') = n + 1
      /\ base' = base /\ orderedRead' = orderedRead /\ sequencedRead' = sequencedRead
  BY <1>1, SendShape DEF Send, receiverVars, windowVars, readVars
<1>3. /\ TrueOrderedWrite \in [Channels -> Nat]
      /\ TrueSequencedWrite \in [Channels -> Nat]
      /\ TrueOrderedWrite' \in [Channels -> Nat]
      /\ TrueSequencedWrite' \in [Channels -> Nat]
  <2>1. PICK i \in Nat : Indexed(s, i)
    BY SendCounts
  <2>2. /\ TrueOrderedWrite \in [Channels -> Nat]
        /\ TrueSequencedWrite \in [Channels -> Nat]
    BY <1>1, <1>2, CountsInType
  <2>3. s[2] \in Channels
    BY <1>1, SendShape
  <2>4. /\ \/ TrueOrderedWrite' = TrueOrderedWrite
           \/ TrueOrderedWrite' = [TrueOrderedWrite EXCEPT ![s[2]] = @ + 1]
        /\ \/ TrueSequencedWrite' = TrueSequencedWrite
           \/ TrueSequencedWrite' = [TrueSequencedWrite EXCEPT ![s[2]] = @ + 1]
    BY <2>1, Zenon DEF Indexed
  <2> QED BY <2>2, <2>3, <2>4
<1>4. \A c \in Channels :
        /\ TrueOrderedWrite'[c] \in {TrueOrderedWrite[c], TrueOrderedWrite[c] + 1}
        /\ TrueSequencedWrite'[c] \in {TrueSequencedWrite[c], TrueSequencedWrite[c] + 1}
  <2>1. PICK i \in Nat : Indexed(s, i)
    BY SendCounts
  <2> QED BY <1>3, <2>1 DEF Indexed
<1>5. Linked /\ Linked' /\ Len(sent) \in Nat
  BY <1>1, <1>2, SendLinked DEF WrapInv
<1>6. /\ NumberRange \in Nat /\ NumberRange = 2 * HalfTurn /\ HalfTurn \in Nat
      /\ HalfTurn >= 2
  BY HalfTurnType
<1>7. TrueBase' = TrueBase
  <2>1. /\ TrueBase \in Int /\ TrueBase % NumberRange = base
        /\ n - TrueBase = HoleCount(n, base) /\ HoleCount(n, base) \in Numbers
        /\ HoleCount(n, base) < HalfTurn
    BY <1>1, <1>5, Readings DEF InStep
  <2>2. TrueBase <= n + 1 /\ (n + 1) - TrueBase < NumberRange
    BY <1>2, <1>6, <2>1 DEF Numbers
  <2>3. HoleCount(n + 1, base) = n + 1 - TrueBase
    BY <1>2, <2>1, <2>2, LastCountIs
  <2>4. TrueBase' = n + 1 - HoleCount(n + 1, base)
    <3>1. TrueBase' = Len(sent') - HoleCount(Len(sent'), base')
      BY DEF TrueBase, HoleCount
    <3>2. HoleCount(Len(sent'), base') = HoleCount(n + 1, base)
      BY <1>2
    <3>3. HoleCount(n + 1, base) \in Int
      BY <1>2, <2>1, <2>3
    <3> HIDE DEF TrueBase, HoleCount
    <3> QED BY <1>2, <3>1, <3>2, <3>3
  <2> HIDE DEF TrueBase
  <2> QED BY <1>2, <2>1, <2>3, <2>4
<1>8. ASSUME NEW c \in Channels
      PROVE  /\ TrueOrderedWrite'[c] - HoleCount(orderedWrite'[c], orderedRead[c])
                  = TrueOrderedRead[c]
             /\ TrueSequencedWrite'[c] - HoleCount(sequencedWrite'[c], sequencedRead[c])
                  = TrueSequencedRead[c]
  <2>1. /\ orderedWrite'[c] = TrueOrderedWrite'[c] % NumberRange
        /\ sequencedWrite'[c] = TrueSequencedWrite'[c] % NumberRange
    BY <1>5 DEF Linked
  <2>2. /\ TrueOrderedRead[c] \in Int
        /\ TrueOrderedRead[c] % NumberRange = orderedRead[c]
        /\ TrueOrderedWrite[c] - TrueOrderedRead[c] \in 0..(HalfTurn - 1)
        /\ TrueSequencedRead[c] \in Int
        /\ TrueSequencedRead[c] % NumberRange = sequencedRead[c]
        /\ TrueSequencedWrite[c] - TrueSequencedRead[c] \in 0..(HalfTurn - 1)
    BY <1>5, <1>6, Readings DEF InStep, Numbers
  <2>3. /\ TrueOrderedWrite'[c] \in Int /\ TrueSequencedWrite'[c] \in Int
        /\ TrueOrderedRead[c] <= TrueOrderedWrite'[c]
        /\ TrueOrderedWrite'[c] - TrueOrderedRead[c] < NumberRange
        /\ TrueSequencedRead[c] <= TrueSequencedWrite'[c]
        /\ TrueSequencedWrite'[c] - TrueSequencedRead[c] < NumberRange
    <3>1. TrueOrderedWrite[c] \in Nat /\ TrueSequencedWrite[c] \in Nat
      BY <1>3
    <3> QED BY <1>4, <1>6, <2>2, <3>1
  <2> QED BY <2>1, <2>2, <2>3, ReadBack
<1>9. /\ TrueOrderedRead = [c \in Channels |-> TrueOrderedRead[c]]
      /\ TrueSequencedRead = [c \in Channels |-> TrueSequencedRead[c]]
  BY DEF TrueOrderedRead, TrueSequencedRead
<1>10. /\ TrueOrderedRead' = [c \in Channels |->
              TrueOrderedWrite'[c] - HoleCount(orderedWrite'[c], orderedRead[c])]
       /\ TrueSequencedRead' = [c \in Channels |->
              TrueSequencedWrite'[c] - HoleCount(sequencedWrite'[c], sequencedRead[c])]
  BY <1>2 DEF TrueOrderedRead, TrueSequencedRead
<1> QED BY <1>7, <1>8, <1>9, <1>10

\* The step that sends is the same step of the layer that does not wrap.
LEMMA SendMaps ==
  ASSUME FewInUse, WrapInv, InStep, NEW s \in Streams, Send(s)
  PROVE  Big!Send(s)
<1>1. /\ TrueBase' = TrueBase
      /\ TrueOrderedRead' = TrueOrderedRead
      /\ TrueSequencedRead' = TrueSequencedRead
  BY SendReads
<1>2. PICK i \in Nat : Indexed(s, i)
  BY SendCounts
<1>3. /\ Len(sent) < MaxMessages
      /\ \A k \in sendPacketSet \cup resendList : Len(sent) + 1 - k < MaxAge
      /\ sent' = Append(sent, s)
      /\ sendPacketSet' = sendPacketSet \cup {Len(sent) + 1}
      /\ UNCHANGED <<resendVars, inFlight, acksInFlight, now>>
      /\ UNCHANGED <<hasReceived, acknowledgements, orderingList, delivered>>
  BY DEF Send, receiverVars, windowVars, readVars
<1>4. /\ s[2] \in Channels
      /\ (TrueOrderedWrite[s[2]] + 1) % BigRange = TrueOrderedWrite[s[2]] + 1
      /\ (TrueSequencedWrite[s[2]] + 1) % BigRange = TrueSequencedWrite[s[2]] + 1
  <2>1. s[2] \in Channels
    BY DEF Channels
  <2>2. /\ TrueOrderedWrite[s[2]] + 1 \in 0..(2 * MaxMessages + 1)
        /\ TrueSequencedWrite[s[2]] + 1 \in 0..(2 * MaxMessages + 1)
    <3>1. /\ TrueOrderedWrite[s[2]] \in 0..Len(sent)
          /\ TrueSequencedWrite[s[2]] \in 0..Len(sent)
          /\ Len(sent) \in Nat /\ Len(sent) <= MaxMessages /\ MaxMessages \in Nat
      BY <2>1, TrueTypes
    <3> QED BY <3>1
  <2> QED BY <2>1, <2>2, BigSmall
<1>5. \/ /\ IsOrdered(s[1])
         /\ TrueIndex' = Append(TrueIndex, TrueOrderedWrite[s[2]])
         /\ TrueOrderedWrite' =
              [TrueOrderedWrite EXCEPT ![s[2]] = (@ + 1) % BigRange]
         /\ TrueSequencedWrite' = TrueSequencedWrite
      \/ /\ IsSequenced(s[1])
         /\ TrueIndex' = Append(TrueIndex, TrueSequencedWrite[s[2]])
         /\ TrueSequencedWrite' =
              [TrueSequencedWrite EXCEPT ![s[2]] = (@ + 1) % BigRange]
         /\ TrueOrderedWrite' = TrueOrderedWrite
      \/ /\ ~IsOrdered(s[1]) /\ ~IsSequenced(s[1])
         /\ TrueIndex' = Append(TrueIndex, 0)
         /\ TrueOrderedWrite' = TrueOrderedWrite
         /\ TrueSequencedWrite' = TrueSequencedWrite
  BY <1>2, <1>4 DEF Indexed
<1>6. \A r : Big!IsOrdered(r) = IsOrdered(r) /\ Big!IsSequenced(r) = IsSequenced(r)
  BY DEF Big!IsOrdered, IsOrdered, Big!IsSequenced, IsSequenced
<1>7. /\ UNCHANGED Big!resendVars /\ UNCHANGED Big!receiverVars
  BY <1>1, <1>3 DEF resendVars, Big!resendVars, Big!receiverVars,
                    Big!windowVars, Big!readVars
<1> QED BY <1>3, <1>5, <1>6, <1>7, Zenon DEF Big!Send

-----------------------------------------------------------------------------
(* The receiver.                                                           *)

\* A message that may still arrive is ahead of, or behind, every position of
\* the receiver by less than half a turn.
LEMMA ArrivalIsNear ==
  ASSUME FewInUse, WrapInv, InStep, NEW k \in Messages, IsFresh(k)
  PROVE  /\ (k - 1) - TrueBase \in (1 - HalfTurn)..HalfTurn
         /\ IsOrdered(Reliability(k)) =>
              TrueIndex[k] - TrueOrderedRead[Channel(k)]
                \in (1 - HalfTurn)..(HalfTurn - 1)
         /\ IsSequenced(Reliability(k)) =>
              TrueIndex[k] - TrueSequencedRead[Channel(k)]
                \in (2 - HalfTurn)..(HalfTurn - 2)
<1> DEFINE c == Channel(k)
<1>1. /\ HalfTurn \in Nat /\ HalfTurn >= 2 /\ MaxAge \in Nat
      /\ MaxAge <= HalfTurn - 1 /\ MaxAge >= 1
  BY HalfTurnType DEF FewInUse
<1>2. /\ Len(sent) \in Nat /\ k \in 1..Len(sent) /\ c \in Channels
      /\ sent[k] \in Streams /\ TrueIndex[k] \in Nat
      /\ TrueOrderedWrite[c] \in Nat /\ TrueSequencedWrite[c] \in Nat
      /\ IsOrdered(Reliability(k)) => TrueIndex[k] < TrueOrderedWrite[c]
      /\ IsSequenced(Reliability(k)) => TrueIndex[k] < TrueSequencedWrite[c]
  BY TrueTypes
<1>3. Len(sent) - k < MaxAge
  BY DEF IsFresh
<1>4. /\ IsOrdered(Reliability(k)) =>
           TrueOrderedWrite[c] - TrueIndex[k] <= Len(sent) + 1 - k
      /\ IsSequenced(Reliability(k)) =>
           TrueSequencedWrite[c] - TrueIndex[k] <= Len(sent) + 1 - k
  BY DEF WrapInv, CountInv
<1>5. /\ TrueBase \in Int /\ Len(sent) - TrueBase \in 0..(HalfTurn - 1)
      /\ TrueOrderedRead[c] \in Int
      /\ TrueOrderedWrite[c] - TrueOrderedRead[c] \in 0..(HalfTurn - 1)
      /\ TrueSequencedRead[c] \in Int
      /\ TrueSequencedWrite[c] - TrueSequencedRead[c] \in 0..(HalfTurn - 2)
  BY <1>1, <1>2, Readings DEF WrapInv, InStep, Numbers
<1>6. IsSequenced(Reliability(k)) => MaxAge <= HalfTurn - 2
  BY <1>2 DEF FewInUse, Reliability
<1> HIDE DEF c
<1>7. (k - 1) - TrueBase \in (1 - HalfTurn)..HalfTurn
  BY <1>1, <1>2, <1>3, <1>5
<1>8. IsOrdered(Reliability(k)) =>
        TrueIndex[k] - TrueOrderedRead[c] \in (1 - HalfTurn)..(HalfTurn - 1)
  <2> SUFFICES ASSUME IsOrdered(Reliability(k))
               PROVE  TrueIndex[k] - TrueOrderedRead[c]
                        \in (1 - HalfTurn)..(HalfTurn - 1)
    OBVIOUS
  <2>1. /\ TrueIndex[k] < TrueOrderedWrite[c]
        /\ TrueOrderedWrite[c] - TrueIndex[k] <= Len(sent) + 1 - k
    BY <1>2, <1>4
  <2>2. TrueOrderedWrite[c] - TrueIndex[k] <= HalfTurn - 1
    BY <1>1, <1>2, <1>3, <2>1
  <2>3. PICK x \in Int, w \in Int, r \in Int :
          /\ x = TrueIndex[k] /\ w = TrueOrderedWrite[c] /\ r = TrueOrderedRead[c]
          /\ x < w /\ w - x <= HalfTurn - 1 /\ w - r \in 0..(HalfTurn - 1)
    BY <1>2, <1>5, <2>1, <2>2
  <2>4. x - r \in (1 - HalfTurn)..(HalfTurn - 1)
    BY <1>1, <2>3
  <2> QED BY <2>3, <2>4
<1>9. IsSequenced(Reliability(k)) =>
        TrueIndex[k] - TrueSequencedRead[c] \in (2 - HalfTurn)..(HalfTurn - 2)
  <2> SUFFICES ASSUME IsSequenced(Reliability(k))
               PROVE  TrueIndex[k] - TrueSequencedRead[c]
                        \in (2 - HalfTurn)..(HalfTurn - 2)
    OBVIOUS
  <2>1. /\ TrueIndex[k] < TrueSequencedWrite[c]
        /\ TrueSequencedWrite[c] - TrueIndex[k] <= Len(sent) + 1 - k
    BY <1>2, <1>4
  <2>2. TrueSequencedWrite[c] - TrueIndex[k] <= HalfTurn - 2
    BY <1>1, <1>2, <1>3, <1>6, <2>1
  <2>3. PICK x \in Int, w \in Int, r \in Int :
          /\ x = TrueIndex[k] /\ w = TrueSequencedWrite[c]
          /\ r = TrueSequencedRead[c]
          /\ x < w /\ w - x <= HalfTurn - 2 /\ w - r \in 0..(HalfTurn - 2)
    BY <1>2, <1>5, <2>1, <2>2
  <2>4. x - r \in (2 - HalfTurn)..(HalfTurn - 2)
    BY <1>1, <2>3
  <2> QED BY <2>3, <2>4
<1> QED BY <1>7, <1>8, <1>9 DEF c

\* The window places the message where the layer that does not wrap would.
LEMMA DuplicateMaps ==
  ASSUME FewInUse, WrapInv, InStep, NEW k \in Messages, IsFresh(k)
  PROVE  LET h == HoleCount(Number(k), base)
             b == Big!HoleCount(Big!Number(k), TrueBase)
         IN  /\ IsDuplicate(h) <=> Big!IsDuplicate(b)
             /\ ~IsDuplicate(h) => /\ b = h /\ h \in Nat
                                   /\ h = k - 1 - TrueBase
<1> DEFINE h == HoleCount(Number(k), base)
           b == Big!HoleCount(Big!Number(k), TrueBase)
<1>1. /\ k \in 1..Len(sent) /\ Len(sent) \in Nat /\ Len(sent) <= MaxMessages
      /\ MaxMessages \in Nat /\ TrueBase \in Nat /\ TrueBase <= Len(sent)
  BY TrueTypes
<1>2. (k - 1) - TrueBase \in (1 - HalfTurn)..HalfTurn
  BY ArrivalIsNear
<1>3. /\ IsBehind(h) <=> k - 1 < TrueBase
      /\ k - 1 >= TrueBase => h = (k - 1) - TrueBase
  <2>1. TrueBase % NumberRange = base
    BY <1>1, Readings DEF WrapInv
  <2>2. k - 1 \in Int /\ TrueBase \in Int
    BY <1>1
  <2>3. /\ IsBehind(HoleCount((k - 1) % NumberRange, TrueBase % NumberRange))
             <=> k - 1 < TrueBase
        /\ k - 1 >= TrueBase =>
             HoleCount((k - 1) % NumberRange, TrueBase % NumberRange)
               = (k - 1) - TrueBase
    BY <1>2, <2>2, HoleCountExact
  <2> QED BY <2>1, <2>3 DEF Number
<1>4. /\ Big!IsBehind(b) <=> k <= TrueBase
      /\ k > TrueBase => b = k - 1 - TrueBase /\ ~Big!IsBehind(b)
  <2>1. k \in 1..MaxMessages /\ TrueBase \in 0..MaxMessages
    BY <1>1
  <2>2. /\ k > TrueBase => /\ b = k - 1 - TrueBase
                           /\ ~Big!IsBehind(b)
        /\ k <= TrueBase => Big!IsBehind(b)
    BY <2>1, BoundsAssumption, BigIsWide, Big!HoleCountNoWrap
  <2> HIDE DEF b
  <2> QED BY <1>1, <2>2
<1> HIDE DEF h, b
<1>5. CASE k > TrueBase
  <2>1. h = k - 1 - TrueBase /\ ~IsBehind(h) /\ b = h /\ ~Big!IsBehind(b) /\ h \in Nat
    BY <1>1, <1>3, <1>4, <1>5
  <2> QED BY <2>1 DEF IsDuplicate, Big!IsDuplicate, h, b
<1>6. CASE k <= TrueBase
  <2>1. IsBehind(h) /\ Big!IsBehind(b)
    BY <1>1, <1>3, <1>4, <1>6
  <2> QED BY <2>1 DEF IsDuplicate, Big!IsDuplicate, h, b
<1> QED BY <1>1, <1>5, <1>6

\* The window moves as the window of the layer that does not wrap does.
LEMMA WindowMaps ==
  ASSUME FewInUse, WrapInv, InStep, NEW k \in Messages, IsFresh(k),
         ~IsDuplicate(HoleCount(Number(k), base)),
         MoveWindow(HoleCount(Number(k), base)), sent' = sent
  PROVE  base' \in Numbers /\ Big!MoveWindow(HoleCount(Number(k), base))
<1> DEFINE h == HoleCount(Number(k), base)
           w == Marked(h)
           n == Settled(w)
           L == IF h < Len(hasReceived) THEN Len(hasReceived) ELSE h + 1
<1>1. /\ k \in 1..Len(sent) /\ Len(sent) \in Nat /\ Len(sent) <= MaxMessages
      /\ MaxMessages \in Nat /\ now \in Nat
      /\ TrueBase \in Nat /\ TrueBase + Len(hasReceived) <= Len(sent)
      /\ hasReceived \in Seq(Nat) /\ Len(hasReceived) \in Nat
      /\ Timeout \in Nat
  BY TrueTypes, BoundsAssumption
<1>2. h \in Nat /\ h = k - 1 - TrueBase
  BY DuplicateMaps
<1>3. w = [i \in 1..L |-> IF i = h + 1 THEN 0
                          ELSE IF i <= Len(hasReceived) THEN hasReceived[i]
                          ELSE now + Timeout]
  BY DEF Marked
<1>4. /\ base' = (base + n) % NumberRange
      /\ hasReceived' = SubSeq(w, n + 1, Len(w))
  BY DEF MoveWindow
<1>5. Big!Marked(h) = w /\ Big!Settled(w) = n
  BY DEF Marked, Big!Marked, Settled, Big!Settled
<1>6. L \in Nat /\ L >= Len(hasReceived) /\ TrueBase + L <= Len(sent)
  BY <1>1, <1>2
<1> HIDE DEF h, L, w
<1>7. w \in Seq(Nat) /\ Len(w) = L
  <2>1. \A i \in 1..L : i <= Len(hasReceived) => hasReceived[i] \in Nat
    BY <1>1, <1>6, ElementOfSeq
  <2>2. \A i \in 1..L : w[i] \in Nat
    BY <1>1, <1>3, <2>1
  <2> QED BY <1>3, <1>6, <2>2
<1>8. n \in 0..L
  BY <1>1, <1>7, SettledProperties
<1> HIDE DEF n
<1>9. n \in Int /\ TrueBase + n <= Len(sent) /\ TrueBase + n \in Nat
  BY <1>1, <1>6, <1>8
<1>10. base' = (TrueBase + n) % NumberRange
  <2>1. TrueBase \in Int /\ TrueBase % NumberRange = base
    BY <1>1, Readings DEF WrapInv
  <2> QED BY <1>4, <1>9, <2>1, WrapOnce
<1>11. TrueBase' = TrueBase + n
  <2>1. Len(sent) - (TrueBase + n) < NumberRange
    <3>1. /\ Len(sent) - TrueBase = HoleCount(Len(sent), base)
          /\ HoleCount(Len(sent), base) < HalfTurn
      BY <1>1, Readings DEF WrapInv, InStep
    <3> QED BY <1>1, <1>8, <1>6, <3>1, HalfTurnType
  <2>2. HoleCount(Len(sent), (TrueBase + n) % NumberRange)
          = Len(sent) - (TrueBase + n)
    BY <1>1, <1>9, <2>1, LastCountIs
  <2>3. TrueBase' = Len(sent) - HoleCount(Len(sent), base')
    BY DEF TrueBase, HoleCount
  <2>4. PICK b : b = TrueBase + n /\ b \in Nat
    BY <1>9
  <2>5. HoleCount(Len(sent), base') = Len(sent) - b
    BY <1>10, <2>2, <2>4
  <2> QED BY <1>1, <2>3, <2>4, <2>5
<1>12. (TrueBase + n) % BigRange = TrueBase + n
  <2>1. TrueBase + n \in 0..(2 * MaxMessages + 1)
    BY <1>1, <1>9
  <2> QED BY <2>1, BigSmall
<1>13. base' \in Numbers
  BY <1>9, <1>10, ModRange
<1>14. Big!MoveWindow(h)
  BY <1>4, <1>5, <1>11, <1>12 DEF Big!MoveWindow
<1> QED BY <1>13, <1>14 DEF h

\* A read index that moves to the number of a count moves to that count.
LEMMA OrderedReadMoves ==
  ASSUME WrapInv, NEW c \in Channels, NEW t \in Int,
         t <= TrueOrderedWrite[c], TrueOrderedWrite[c] - t < NumberRange,
         sent' = sent, orderedWrite' = orderedWrite,
         orderedRead' = [orderedRead EXCEPT ![c] = t % NumberRange]
  PROVE  TrueOrderedRead' = [TrueOrderedRead EXCEPT ![c] = t]
<1>1. TrueOrderedWrite' = TrueOrderedWrite /\ TrueOrderedWrite[c] \in Int
  BY CountsOfSent, TrueTypes
<1>2. /\ orderedWrite[c] = TrueOrderedWrite[c] % NumberRange
      /\ orderedRead \in [Channels -> Numbers]
  BY DEF WrapInv, Linked
<1>3. TrueOrderedWrite[c] - HoleCount(orderedWrite[c], t % NumberRange) = t
  BY <1>1, <1>2, ReadBack
<1>4. TrueOrderedRead' = [d \in Channels |->
         TrueOrderedWrite[d] - HoleCount(orderedWrite[d], orderedRead'[d])]
  BY <1>1 DEF TrueOrderedRead
<1>5. \A d \in Channels :
        TrueOrderedWrite[d] - HoleCount(orderedWrite[d], orderedRead'[d])
          = IF d = c THEN t ELSE TrueOrderedRead[d]
  BY <1>2, <1>3 DEF TrueOrderedRead
<1>6. TrueOrderedRead' = [d \in Channels |-> IF d = c THEN t ELSE TrueOrderedRead[d]]
  BY <1>4, <1>5
<1>7. TrueOrderedRead = [d \in Channels |-> TrueOrderedRead[d]]
  BY DEF TrueOrderedRead
<1> QED BY <1>6, <1>7

\* The same for the sequenced messages of a channel.
LEMMA SequencedReadMoves ==
  ASSUME WrapInv, NEW c \in Channels, NEW t \in Int,
         t <= TrueSequencedWrite[c], TrueSequencedWrite[c] - t < NumberRange,
         sent' = sent, sequencedWrite' = sequencedWrite,
         sequencedRead' = [sequencedRead EXCEPT ![c] = t % NumberRange]
  PROVE  TrueSequencedRead' = [TrueSequencedRead EXCEPT ![c] = t]
<1>1. TrueSequencedWrite' = TrueSequencedWrite /\ TrueSequencedWrite[c] \in Int
  BY CountsOfSent, TrueTypes
<1>2. /\ sequencedWrite[c] = TrueSequencedWrite[c] % NumberRange
      /\ sequencedRead \in [Channels -> Numbers]
  BY DEF WrapInv, Linked
<1>3. TrueSequencedWrite[c] - HoleCount(sequencedWrite[c], t % NumberRange) = t
  BY <1>1, <1>2, ReadBack
<1>4. TrueSequencedRead' = [d \in Channels |->
         TrueSequencedWrite[d] - HoleCount(sequencedWrite[d], sequencedRead'[d])]
  BY <1>1 DEF TrueSequencedRead
<1>5. \A d \in Channels :
        TrueSequencedWrite[d] - HoleCount(sequencedWrite[d], sequencedRead'[d])
          = IF d = c THEN t ELSE TrueSequencedRead[d]
  BY <1>2, <1>3 DEF TrueSequencedRead
<1>6. TrueSequencedRead' =
        [d \in Channels |-> IF d = c THEN t ELSE TrueSequencedRead[d]]
  BY <1>4, <1>5
<1>7. TrueSequencedRead = [d \in Channels |-> TrueSequencedRead[d]]
  BY DEF TrueSequencedRead
<1> QED BY <1>6, <1>7

\* A sequenced message is delivered or passed over as it would be unwrapped.
LEMMA SequencedMaps ==
  ASSUME FewInUse, WrapInv, InStep, NEW k \in Messages, IsFresh(k),
         DeliverSequenced(k), sent' = sent, orderedWrite' = orderedWrite,
         sequencedWrite' = sequencedWrite
  PROVE  /\ Big!DeliverSequenced(k)
         /\ orderedRead' \in [Channels -> Numbers]
         /\ sequencedRead' \in [Channels -> Numbers]
<1> DEFINE c == Channel(k)
           x == TrueIndex[k]
           r == TrueSequencedRead[c]
           older == IsOlderOrderedPacket(index[k], sequencedRead[c])
<1>1. /\ c \in Channels /\ x \in Nat /\ r \in Nat
      /\ TrueSequencedWrite[c] \in 0..Len(sent) /\ Len(sent) \in Nat
      /\ Len(sent) <= MaxMessages /\ MaxMessages \in Nat
      /\ x < TrueSequencedWrite[c] /\ IsSequenced(Reliability(k))
  BY TrueTypes DEF DeliverSequenced
<1>2. /\ index[k] = x % NumberRange
      /\ r % NumberRange = sequencedRead[c]
      /\ TrueSequencedWrite[c] - r \in 0..(HalfTurn - 2)
      /\ orderedRead \in [Channels -> Numbers]
      /\ sequencedRead \in [Channels -> Numbers]
      /\ HalfTurn \in Nat /\ HalfTurn >= 2 /\ NumberRange = 2 * HalfTurn
  <2>1. /\ index[k] = x % NumberRange
        /\ orderedRead \in [Channels -> Numbers]
        /\ sequencedRead \in [Channels -> Numbers]
    BY DEF WrapInv, Linked
  <2>2. /\ r % NumberRange = sequencedRead[c]
        /\ HoleCount(sequencedWrite[c], sequencedRead[c]) \in Numbers
        /\ TrueSequencedWrite[c] - r = HoleCount(sequencedWrite[c], sequencedRead[c])
    BY <1>1, Readings DEF WrapInv
  <2>3. HoleCount(sequencedWrite[c], sequencedRead[c]) < HalfTurn - 1
    BY <1>1 DEF InStep
  <2> QED BY <2>1, <2>2, <2>3, HalfTurnType DEF Numbers
<1>3. x - r \in (2 - HalfTurn)..(HalfTurn - 2)
  BY <1>1, ArrivalIsNear
<1>4. /\ Big!Channel(k) = c /\ Big!IsSequenced(Big!Reliability(k))
  BY <1>1 DEF Channel, Reliability, Big!Channel, Big!Reliability,
              Big!IsSequenced, IsSequenced
<1>5. TrueOrderedRead' = TrueOrderedRead /\ orderedRead' = orderedRead
      /\ orderingList' = orderingList
  BY CountsOfSent DEF DeliverSequenced, TrueOrderedRead
<1>6. /\ older => sequencedRead' = sequencedRead /\ delivered' = delivered
      /\ ~older => /\ sequencedRead' =
                        [sequencedRead EXCEPT ![c] = (index[k] + 1) % NumberRange]
                   /\ delivered' = Append(delivered, k)
  BY DEF DeliverSequenced
<1>7. older <=> x < r
  <2>1. x \in Int /\ r \in Int
    BY <1>1
  <2> HIDE DEF x, r, c
  <2>2. IsOlderOrderedPacket(x % NumberRange, r % NumberRange) <=> x < r
    BY <1>3, <2>1, OlderExact
  <2> QED BY <1>2, <2>2
<1>8. Big!IsOlderOrderedPacket(x, r) <=> x < r
  <2>1. x \in 0..MaxMessages /\ r \in 0..MaxMessages
    BY <1>1, <1>2
  <2> HIDE DEF x, r
  <2> QED BY <2>1, BoundsAssumption, BigIsWide, Big!OlderNoWrap
<1> HIDE DEF older
<1>9. CASE x < r
  <2>1. sequencedRead' = sequencedRead /\ delivered' = delivered
    BY <1>6, <1>7, <1>9
  <2>2. TrueSequencedRead' = TrueSequencedRead
    BY <2>1, CountsOfSent DEF TrueSequencedRead
  <2> QED BY <1>2, <1>4, <1>5, <1>8, <1>9, <2>1, <2>2 DEF Big!DeliverSequenced
<1>10. CASE ~(x < r)
  <2>1. /\ sequencedRead' = [sequencedRead EXCEPT ![c] = (index[k] + 1) % NumberRange]
        /\ delivered' = Append(delivered, k)
    BY <1>6, <1>7, <1>10
  <2>2. (index[k] + 1) % NumberRange = (x + 1) % NumberRange
    BY <1>1, <1>2, NextNumber
  <2>3. /\ x + 1 \in Int /\ x + 1 <= TrueSequencedWrite[c]
        /\ TrueSequencedWrite[c] - (x + 1) < NumberRange
    BY <1>1, <1>2, <1>10
  <2>4. TrueSequencedRead' = [TrueSequencedRead EXCEPT ![c] = x + 1]
    BY <1>1, <2>1, <2>2, <2>3, SequencedReadMoves
  <2>5. (x + 1) % BigRange = x + 1
    <3>1. x + 1 \in 0..(2 * MaxMessages + 1)
      BY <1>1
    <3> QED BY <3>1, BigSmall
  <2>6. sequencedRead' \in [Channels -> Numbers]
    <3>1. (x + 1) % NumberRange \in Numbers
      BY <2>3, ModRange
    <3> QED BY <1>2, <2>1, <2>2, <3>1
  <2> QED BY <1>2, <1>4, <1>5, <1>8, <1>10, <2>1, <2>4, <2>5, <2>6
          DEF Big!DeliverSequenced
<1> QED BY <1>9, <1>10

\* The ordered messages that wait are told apart by their numbers.
LEMMA WaitingMaps ==
  ASSUME FewInUse, WrapInv, InStep, NEW c \in Channels, NEW x \in Int,
         TrueOrderedRead[c] <= x, x <= TrueOrderedWrite[c]
  PROVE  Waiting(c, x % NumberRange) = Big!Waiting(c, x)
<1>1. /\ TrueOrderedRead[c] \in Int /\ TrueOrderedWrite[c] \in Int
      /\ TrueOrderedWrite[c] - TrueOrderedRead[c] < NumberRange
      /\ NumberRange \in Nat
  <2>1. /\ TrueOrderedRead[c] \in Int
        /\ TrueOrderedWrite[c] - TrueOrderedRead[c]
             = HoleCount(orderedWrite[c], orderedRead[c])
        /\ HoleCount(orderedWrite[c], orderedRead[c]) \in Numbers
    BY Readings, TrueTypes DEF WrapInv
  <2>2. TrueOrderedWrite[c] \in Int
    BY TrueTypes
  <2> QED BY <2>1, <2>2, NumberRangeAssumption DEF Numbers
<1>2. ASSUME NEW j \in orderingList, Channel(j) = c
      PROVE  /\ TrueIndex[j] \in Int /\ index[j] = TrueIndex[j] % NumberRange
             /\ TrueOrderedRead[c] < TrueIndex[j] /\ TrueIndex[j] < TrueOrderedWrite[c]
  <2>1. j \in Messages /\ Big!IsOrdered(Big!Reliability(j))
        /\ TrueIndex[j] > TrueOrderedRead[Big!Channel(j)]
    BY TrueTypes DEF WrapInv, Big!DeliveryInv, Big!OrderInv
  <2>2. IsOrdered(Reliability(j)) /\ Big!Channel(j) = c
    BY <1>2, <2>1 DEF Big!IsOrdered, IsOrdered, Big!Reliability, Reliability,
                      Big!Channel, Channel
  <2>3. TrueIndex[j] \in Nat /\ TrueIndex[j] < TrueOrderedWrite[c]
    BY <1>2, <2>1, <2>2, TrueTypes
  <2>4. index[j] = TrueIndex[j] % NumberRange
    BY <2>1 DEF WrapInv, Linked
  <2> QED BY <1>1, <2>1, <2>2, <2>3, <2>4
<1>3. ASSUME NEW j \in orderingList, Channel(j) = c
      PROVE  index[j] = x % NumberRange <=> TrueIndex[j] = x
  <2>1. /\ TrueIndex[j] \in Int /\ index[j] = TrueIndex[j] % NumberRange
        /\ TrueOrderedRead[c] < TrueIndex[j] /\ TrueIndex[j] < TrueOrderedWrite[c]
    BY <1>2, <1>3
  <2>2. TrueIndex[j] - x < NumberRange /\ x - TrueIndex[j] < NumberRange
    BY <1>1, <2>1
  <2>3. TrueIndex[j] % NumberRange = x % NumberRange => TrueIndex[j] = x
    BY <2>1, <2>2, SameNumber
  <2> QED BY <2>1, <2>3
<1>4. \A j : Big!Channel(j) = Channel(j)
  BY DEF Big!Channel, Channel
<1>5. Big!Waiting(c, x) = {j \in orderingList : Channel(j) = c /\ TrueIndex[j] = x}
  BY <1>4 DEF Big!Waiting
<1> QED BY <1>3, <1>5 DEF Waiting

\* The run that follows the message the channel waits for is the same.
LEMMA ReleasedMaps ==
  ASSUME FewInUse, WrapInv, InStep, NEW k \in Messages, IsOrdered(Reliability(k)),
         TrueIndex[k] = TrueOrderedRead[Channel(k)]
  PROVE  /\ Released(Channel(k), index[k]) = Big!Released(Channel(k), TrueIndex[k])
         /\ Len(Released(Channel(k), index[k])) \in Nat
         /\ TrueIndex[k] + 1 + Len(Released(Channel(k), index[k]))
               <= TrueOrderedWrite[Channel(k)]
<1> DEFINE c == Channel(k)
           i == TrueIndex[k]
           b == Big!Released(c, i)
           m == Len(b)
<1>1. /\ c \in Channels /\ k \in 1..Len(sent) /\ Len(sent) \in Nat
      /\ Len(sent) <= MaxMessages /\ MaxMessages \in Nat
      /\ i \in Nat /\ i < k /\ i < TrueOrderedWrite[c]
      /\ TrueOrderedWrite[c] \in 0..Len(sent) /\ orderingList \subseteq Messages
  BY TrueTypes
<1>2. /\ b \in Seq(orderingList) /\ i + m < Len(sent)
      /\ \A d \in 1..m : Big!Channel(b[d]) = c /\ TrueIndex[b[d]] = i + d
      /\ Big!Waiting(c, i + m + 1) = {}
  <2>1. c \in Big!Channels /\ i \in 0..(Len(sent) - 1)
    BY <1>1 DEF Big!Channels, Channels
  <2>2. Big!TypeOK /\ Big!IndexInv
    BY DEF WrapInv, Big!DeliveryInv
  <2> HIDE DEF c, i
  <2> QED BY <2>1, <2>2, BoundsAssumption, BigIsWide, Big!ReleasedProperties
<1>3. m \in Nat /\ b = [d \in 1..m |-> b[d]]
      /\ \A d \in 1..m : b[d] \in orderingList
  BY <1>2, ElementOfSeq
<1> HIDE DEF b
<1>4. \A j : Big!Channel(j) = Channel(j) /\ Big!Reliability(j) = Reliability(j)
  BY DEF Big!Channel, Channel, Big!Reliability, Reliability
<1>5. i + m + 1 <= TrueOrderedWrite[c]
  <2>1. CASE m = 0
    BY <1>1, <2>1
  <2>2. CASE m > 0
    <3>1. m \in 1..m /\ b[m] \in orderingList /\ Channel(b[m]) = c
          /\ TrueIndex[b[m]] = i + m
      BY <1>2, <1>3, <1>4, <2>2
    <3>2. b[m] \in Messages /\ Big!IsOrdered(Big!Reliability(b[m]))
      BY <1>1, <3>1 DEF WrapInv, Big!DeliveryInv, Big!OrderInv
    <3>3. IsOrdered(Reliability(b[m]))
      BY <3>2 DEF Big!IsOrdered, IsOrdered, Big!Reliability, Reliability
    <3>4. i + m < TrueOrderedWrite[c]
      BY <3>1, <3>2, <3>3, TrueTypes
    <3> QED BY <1>1, <1>3, <3>4
  <2> QED BY <1>3, <2>1, <2>2
<1>6. \A d \in 0..(m + 1) :
        /\ (index[k] + d) % NumberRange = (i + d) % NumberRange
        /\ Waiting(c, (index[k] + d) % NumberRange) = Big!Waiting(c, i + d)
  <2> SUFFICES ASSUME NEW d \in 0..(m + 1)
               PROVE  /\ (index[k] + d) % NumberRange = (i + d) % NumberRange
                      /\ Waiting(c, (index[k] + d) % NumberRange) = Big!Waiting(c, i + d)
    OBVIOUS
  <2>1. index[k] = i % NumberRange
    BY DEF WrapInv, Linked
  <2>2. i \in Int /\ d \in Int
    BY <1>1, <1>3
  <2>3. (index[k] + d) % NumberRange = (i + d) % NumberRange
    BY <2>1, <2>2, WrapOnce
  <2>4. i + d \in Int /\ TrueOrderedRead[c] <= i + d /\ i + d <= TrueOrderedWrite[c]
    BY <1>1, <1>3, <1>5, <2>2
  <2> QED BY <1>1, <2>3, <2>4, WaitingMaps
<1>7. \A d \in 1..m : b[d] \in Big!Waiting(c, i + d)
  BY <1>2, <1>3 DEF Big!Waiting
<1> DEFINE P(n) == /\ \A d \in 1..n : Waiting(c, (index[k] + d) % NumberRange) # {}
                   /\ Waiting(c, (index[k] + n + 1) % NumberRange) = {}
           N == CHOOSE n \in 0..Len(sent) : P(n)
<1>8. index[k] \in Int
  <2>1. index[k] = i % NumberRange
    BY DEF WrapInv, Linked
  <2>2. i \in Int
    BY <1>1
  <2> HIDE DEF i
  <2>3. index[k] \in Numbers
    BY <2>1, <2>2, ModRange
  <2> QED BY <2>3, NumberRangeAssumption DEF Numbers
<1>9. m \in 0..Len(sent) /\ P(m)
  <2>1. m \in 0..Len(sent)
    BY <1>1, <1>2, <1>3
  <2>2. \A d \in 1..m : Waiting(c, (index[k] + d) % NumberRange) # {}
    BY <1>3, <1>6, <1>7
  <2>3. Waiting(c, (index[k] + (m + 1)) % NumberRange) = Big!Waiting(c, i + (m + 1))
    BY <1>3, <1>6
  <2>4. index[k] + (m + 1) = index[k] + m + 1 /\ i + (m + 1) = i + m + 1
    BY <1>1, <1>3, <1>8
  <2> QED BY <1>2, <2>1, <2>2, <2>3, <2>4
<1>10. N \in 0..Len(sent) /\ P(N)
  <2> HIDE DEF P
  <2> QED BY <1>9
<1>11. N = m
  <2>1. /\ N \in Nat /\ \A d \in 1..N : Waiting(c, (index[k] + d) % NumberRange) # {}
        /\ Waiting(c, (index[k] + (N + 1)) % NumberRange) = {}
    <3> HIDE DEF N
    <3>1. N \in Nat
      BY <1>1, <1>10
    <3>2. index[k] + (N + 1) = index[k] + N + 1
      BY <1>8, <3>1
    <3> QED BY <1>10, <3>1, <3>2
  <2>2. /\ \A d \in 1..m : Waiting(c, (index[k] + d) % NumberRange) # {}
        /\ Waiting(c, (index[k] + (m + 1)) % NumberRange) = {}
    <3> HIDE DEF m
    <3>1. index[k] + (m + 1) = index[k] + m + 1
      BY <1>3, <1>8
    <3> QED BY <1>9, <3>1
  <2> HIDE DEF N
  <2>3. ~(N < m)
    <3> SUFFICES ASSUME N < m PROVE FALSE
      OBVIOUS
    <3>1. N + 1 \in 1..m
      BY <1>3, <2>1
    <3> QED BY <2>1, <2>2, <3>1
  <2>4. ~(m < N)
    <3> SUFFICES ASSUME m < N PROVE FALSE
      OBVIOUS
    <3>1. m + 1 \in 1..N
      BY <1>3, <2>1
    <3> QED BY <2>1, <2>2, <3>1
  <2> QED BY <1>3, <2>1, <2>3, <2>4
<1>12. Released(c, index[k]) =
         [d \in 1..m |-> CHOOSE j \in Waiting(c, (index[k] + d) % NumberRange) : TRUE]
  <2>1. Released(c, index[k]) =
         [d \in 1..N |-> CHOOSE j \in Waiting(c, (index[k] + d) % NumberRange) : TRUE]
    BY DEF Released
  <2> HIDE DEF N
  <2> QED BY <1>11, <2>1
<1> HIDE DEF N, P
<1>13. ASSUME NEW d \in 1..m
       PROVE  (CHOOSE j \in Waiting(c, (index[k] + d) % NumberRange) : TRUE) = b[d]
  <2> DEFINE W == Waiting(c, (index[k] + d) % NumberRange)
             j == CHOOSE y \in W : TRUE
  <2>1. W = Big!Waiting(c, i + d) /\ b[d] \in W
    BY <1>3, <1>6, <1>7
  <2>2. j \in W
    <3> HIDE DEF W
    <3> QED BY <2>1
  <2>3. \A y \in W : /\ y \in orderingList /\ Big!Channel(y) = c
                      /\ TrueIndex[y] = i + d
    BY <2>1 DEF Big!Waiting
  <2> HIDE DEF W, j
  <2>4. j \in orderingList /\ b[d] \in orderingList
        /\ Big!Channel(j) = Big!Channel(b[d]) /\ TrueIndex[j] = TrueIndex[b[d]]
    BY <2>1, <2>2, <2>3
  <2>5. /\ j \in Big!Messages /\ b[d] \in Big!Messages
        /\ Big!IsOrdered(Big!Reliability(j)) /\ Big!IsOrdered(Big!Reliability(b[d]))
        /\ Big!TypeOK /\ Big!IndexInv
    BY <2>4 DEF WrapInv, Big!DeliveryInv, Big!OrderInv, Big!TypeOK
  <2>6. j = b[d]
    BY <2>4, <2>5, BoundsAssumption, BigIsWide, Big!OrderedIndexUnique
  <2> QED BY <2>6 DEF j, W
<1>14. Released(c, index[k]) = b
  BY <1>3, <1>12, <1>13
<1>15. i + 1 + m = i + m + 1
  BY <1>1, <1>3
<1> QED BY <1>3, <1>5, <1>14, <1>15 DEF b

\* An ordered message is delivered with its run, or kept, as it would be.
LEMMA OrderedMaps ==
  ASSUME FewInUse, WrapInv, InStep, NEW k \in Messages, IsFresh(k),
         DeliverOrdered(k), sent' = sent, orderedWrite' = orderedWrite,
         sequencedWrite' = sequencedWrite
  PROVE  /\ Big!DeliverOrdered(k)
         /\ orderedRead' \in [Channels -> Numbers]
         /\ sequencedRead' \in [Channels -> Numbers]
<1> DEFINE c == Channel(k)
           x == TrueIndex[k]
           r == TrueOrderedRead[c]
           b == Released(c, index[k])
<1>1. /\ c \in Channels /\ x \in Nat /\ r \in Nat
      /\ TrueOrderedWrite[c] \in 0..Len(sent) /\ Len(sent) \in Nat
      /\ Len(sent) <= MaxMessages /\ MaxMessages \in Nat
      /\ x < TrueOrderedWrite[c] /\ IsOrdered(Reliability(k))
  BY TrueTypes DEF DeliverOrdered
<1>2. /\ index[k] = x % NumberRange
      /\ r % NumberRange = orderedRead[c]
      /\ TrueOrderedWrite[c] - r < NumberRange
      /\ orderedRead \in [Channels -> Numbers]
      /\ sequencedRead \in [Channels -> Numbers]
      /\ NumberRange \in Nat
  <2>1. /\ index[k] = x % NumberRange
        /\ orderedRead \in [Channels -> Numbers]
        /\ sequencedRead \in [Channels -> Numbers]
    BY DEF WrapInv, Linked
  <2>2. /\ r % NumberRange = orderedRead[c]
        /\ HoleCount(orderedWrite[c], orderedRead[c]) \in Numbers
        /\ TrueOrderedWrite[c] - r = HoleCount(orderedWrite[c], orderedRead[c])
    BY <1>1, Readings DEF WrapInv
  <2> QED BY <2>1, <2>2, NumberRangeAssumption DEF Numbers
<1>3. x - r < NumberRange /\ r - x < NumberRange
  <2>1. x - r \in (1 - HalfTurn)..(HalfTurn - 1)
    BY <1>1, ArrivalIsNear
  <2> HIDE DEF x, r
  <2> QED BY <1>1, <2>1, HalfTurnType
<1>4. /\ Big!Channel(k) = c /\ Big!IsOrdered(Big!Reliability(k))
  BY <1>1 DEF Channel, Reliability, Big!Channel, Big!Reliability,
              Big!IsOrdered, IsOrdered
<1>5. sequencedRead' = sequencedRead /\ TrueSequencedRead' = TrueSequencedRead
  BY CountsOfSent DEF DeliverOrdered, TrueSequencedRead
<1>6. index[k] = orderedRead[c] <=> x = r
  <2>1. x \in Int /\ r \in Int
    BY <1>1
  <2> HIDE DEF x, r, c
  <2>2. x % NumberRange = r % NumberRange => x = r
    BY <1>3, <2>1, SameNumber
  <2> QED BY <1>2, <2>2
<1>7. /\ index[k] = orderedRead[c] =>
           /\ delivered' = Append(delivered, k) \o b
           /\ orderingList' = orderingList \ {b[i] : i \in DOMAIN b}
           /\ orderedRead' =
                [orderedRead EXCEPT ![c] = (@ + 1 + Len(b)) % NumberRange]
      /\ index[k] # orderedRead[c] =>
           /\ orderingList' = orderingList \cup {k}
           /\ UNCHANGED <<delivered, orderedRead>>
  BY DEF DeliverOrdered
<1>8. CASE x = r
  <2>1. /\ b = Big!Released(c, x) /\ Len(b) \in Nat
        /\ x + 1 + Len(b) <= TrueOrderedWrite[c]
    BY <1>1, <1>8, ReleasedMaps
  <2> HIDE DEF b
  <2>2. PICK t \in Int : t = r + 1 + Len(b)
    BY <1>1, <2>1
  <2>3. /\ (orderedRead[c] + 1 + Len(b)) % NumberRange = t % NumberRange
    <3>1. orderedRead[c] \in Int
      BY <1>1, <1>2 DEF Numbers
    <3>2. /\ orderedRead[c] + 1 + Len(b) = orderedRead[c] + (1 + Len(b))
          /\ t = r + (1 + Len(b)) /\ 1 + Len(b) \in Int /\ r \in Int
      <4> HIDE DEF r, c
      <4>1. r \in Int /\ Len(b) \in Int
        BY <1>1, <2>1
      <4> QED BY <2>2, <3>1, <4>1
    <3> HIDE DEF r
    <3> QED BY <1>2, <3>2, WrapOnce
  <2>4. t <= TrueOrderedWrite[c] /\ TrueOrderedWrite[c] - t < NumberRange
    BY <1>1, <1>2, <1>8, <2>1, <2>2
  <2>5. orderedRead' = [orderedRead EXCEPT ![c] = t % NumberRange]
    BY <1>6, <1>7, <1>8, <2>3
  <2>6. TrueOrderedRead' = [TrueOrderedRead EXCEPT ![c] = t]
    BY <1>1, <2>4, <2>5, OrderedReadMoves
  <2>7. (r + 1 + Len(b)) % BigRange = t
    <3>1. t \in 0..(2 * MaxMessages + 1)
      BY <1>1, <2>1, <2>2, <2>4
    <3> QED BY <2>2, <3>1, BigSmall
  <2>8. TrueOrderedRead' =
          [TrueOrderedRead EXCEPT ![c] = (@ + 1 + Len(b)) % BigRange]
    BY <2>6, <2>7
  <2>9. orderedRead' \in [Channels -> Numbers]
    <3>1. t % NumberRange \in Numbers
      BY ModRange
    <3> QED BY <1>2, <2>5, <3>1
  <2>10. /\ delivered' = Append(delivered, k) \o b
         /\ orderingList' = orderingList \ {b[i] : i \in DOMAIN b}
    BY <1>6, <1>7, <1>8
  <2> HIDE DEF x, r, c
  <2>11. Big!DeliverOrdered(k)
    <3>1. /\ Big!Released(Big!Channel(k), TrueIndex[k]) = b
          /\ TrueIndex[k] = TrueOrderedRead[Big!Channel(k)]
          /\ Big!Channel(k) = c
      BY <1>4, <1>8, <2>1 DEF x, r
    <3> QED BY <1>4, <1>5, <2>8, <2>10, <3>1 DEF Big!DeliverOrdered
  <2> QED BY <1>2, <1>5, <2>9, <2>11
<1>9. CASE x # r
  <2>1. /\ orderingList' = orderingList \cup {k}
        /\ delivered' = delivered /\ orderedRead' = orderedRead
    BY <1>6, <1>7, <1>9
  <2>2. TrueOrderedRead' = TrueOrderedRead
    BY <2>1, CountsOfSent DEF TrueOrderedRead
  <2> QED BY <1>2, <1>4, <1>5, <1>9, <2>1, <2>2 DEF Big!DeliverOrdered
<1> QED BY <1>8, <1>9

\* Every other message is delivered at once by both.
LEMMA AtOnceMaps ==
  ASSUME WrapInv, NEW k \in Messages, DeliverAtOnce(k), sent' = sent,
         orderedWrite' = orderedWrite, sequencedWrite' = sequencedWrite
  PROVE  /\ Big!DeliverAtOnce(k)
         /\ orderedRead' \in [Channels -> Numbers]
         /\ sequencedRead' \in [Channels -> Numbers]
<1>1. /\ delivered' = Append(delivered, k) /\ orderingList' = orderingList
      /\ orderedRead' = orderedRead /\ sequencedRead' = sequencedRead
  BY DEF DeliverAtOnce
<1>2. TrueOrderedRead' = TrueOrderedRead /\ TrueSequencedRead' = TrueSequencedRead
  BY <1>1, CountsOfSent DEF TrueOrderedRead, TrueSequencedRead
<1>3. ~Big!IsSequenced(Big!Reliability(k)) /\ ~Big!IsOrdered(Big!Reliability(k))
  BY DEF DeliverAtOnce, Reliability, Big!Reliability, Big!IsSequenced,
         IsSequenced, Big!IsOrdered, IsOrdered
<1> QED BY <1>1, <1>2, <1>3 DEF Big!DeliverAtOnce, WrapInv, Linked

\* The step that receives a message is the same step of the layer that does not
\* wrap.
LEMMA ReceiveMaps ==
  ASSUME FewInUse, WrapInv, InStep, NEW k \in Messages, ReceiveMessage(k)
  PROVE  Linked' /\ CountInv' /\ Big!ReceiveMessage(k)
<1> DEFINE h == HoleCount(Number(k), base)
           b == Big!HoleCount(Big!Number(k), TrueBase)
<1>1. /\ ~deadConnection /\ k \in inFlight /\ IsFresh(k)
      /\ inFlight' \in {inFlight, inFlight \ {k}}
      /\ acknowledgements' = AcknowledgementsAfter(k)
      /\ sent' = sent /\ index' = index /\ orderedWrite' = orderedWrite
      /\ sequencedWrite' = sequencedWrite /\ sendPacketSet' = sendPacketSet
      /\ resendList' = resendList
      /\ UNCHANGED <<resendVars, acksInFlight, now>>
  BY DEF ReceiveMessage, senderVars, resendVars
<1>2. /\ TrueIndex' = TrueIndex
      /\ TrueOrderedWrite' = TrueOrderedWrite
      /\ TrueSequencedWrite' = TrueSequencedWrite
  BY <1>1, CountsOfSent
<1>3. /\ UNCHANGED Big!senderVars /\ UNCHANGED Big!resendVars
      /\ acknowledgements' = Big!AcknowledgementsAfter(k)
      /\ Big!IsFresh(k)
  BY <1>1, <1>2 DEF Big!senderVars, Big!resendVars, resendVars,
                    AcknowledgementsAfter, Big!AcknowledgementsAfter,
                    IsReliable, Big!IsReliable, Reliability, Big!Reliability,
                    IsFresh, Big!IsFresh
<1>4. /\ IsDuplicate(h) <=> Big!IsDuplicate(b)
      /\ ~IsDuplicate(h) => b = h
  BY <1>1, DuplicateMaps
<1>5. /\ base' \in Numbers /\ orderedRead' \in [Channels -> Numbers]
      /\ sequencedRead' \in [Channels -> Numbers]
      /\ IF Big!IsDuplicate(b)
         THEN UNCHANGED <<Big!windowVars, Big!readVars>>
         ELSE /\ Big!MoveWindow(b)
              /\ \/ Big!DeliverSequenced(k)
                 \/ Big!DeliverOrdered(k)
                 \/ Big!DeliverAtOnce(k)
  <2> HIDE DEF b
  <2>1. CASE IsDuplicate(h)
    <3>1. /\ base' = base /\ hasReceived' = hasReceived
          /\ orderedRead' = orderedRead /\ sequencedRead' = sequencedRead
          /\ orderingList' = orderingList /\ delivered' = delivered
      BY <2>1 DEF ReceiveMessage, windowVars, readVars
    <3>2. /\ TrueBase' = TrueBase /\ TrueOrderedRead' = TrueOrderedRead
          /\ TrueSequencedRead' = TrueSequencedRead
      BY <1>1, <1>2, <3>1 DEF TrueBase, TrueOrderedRead, TrueSequencedRead
    <3>3. Big!IsDuplicate(b)
      BY <1>4, <2>1
    <3> QED BY <3>1, <3>2, <3>3 DEF Big!windowVars, Big!readVars, WrapInv, Linked
  <2>2. CASE ~IsDuplicate(h)
    <3>1. MoveWindow(h) /\ (DeliverSequenced(k) \/ DeliverOrdered(k) \/ DeliverAtOnce(k))
      BY <2>2 DEF ReceiveMessage
    <3>2. base' \in Numbers /\ Big!MoveWindow(b)
      BY <1>1, <1>4, <2>2, <3>1, WindowMaps
    <3>3. ~Big!IsDuplicate(b)
      BY <1>4, <2>2
    <3>4. /\ orderedRead' \in [Channels -> Numbers]
          /\ sequencedRead' \in [Channels -> Numbers]
          /\ \/ Big!DeliverSequenced(k)
             \/ Big!DeliverOrdered(k)
             \/ Big!DeliverAtOnce(k)
      BY <1>1, <3>1, SequencedMaps, OrderedMaps, AtOnceMaps
    <3> QED BY <3>2, <3>3, <3>4
  <2> QED BY <2>1, <2>2
<1>6. Linked'
  BY <1>1, <1>2, <1>5 DEF WrapInv, Linked, Messages, IsFresh
<1>7. CountInv'
  BY <1>1, <1>2 DEF WrapInv, CountInv, Messages, Reliability, Channel
<1>8. Big!ReceiveMessage(k)
  BY <1>1, <1>3, <1>5 DEF Big!ReceiveMessage
<1> QED BY <1>6, <1>7, <1>8

-----------------------------------------------------------------------------
(* Every step.                                                             *)

\* An acknowledgement takes the same message off both resend lists: no two
\* messages in use have one number.
LEMMA AckMaps ==
  ASSUME FewInUse, WrapInv, NEW k \in Messages, IsFresh(k)
  PROVE  RemovePacketFromResendList(k) = Big!RemovePacketFromResendList(k)
<1>1. /\ Len(sent) \in Nat /\ Len(sent) <= MaxMessages /\ MaxMessages \in Nat
      /\ k \in 1..Len(sent) /\ resendList \subseteq Messages /\ MaxAge \in Nat
      /\ MaxAge < NumberRange /\ NumberRange \in Nat /\ Messages = 1..Len(sent)
  BY TrueTypes, HalfTurnType DEF FewInUse, Messages
<1>2. ASSUME NEW j \in resendList
      PROVE  Number(j) = Number(k) <=> Big!Number(j) = Big!Number(k)
  <2>1. j \in 1..Len(sent) /\ Len(sent) - j < MaxAge /\ Len(sent) - k < MaxAge
    BY <1>1 DEF WrapInv, Linked, IsFresh
  <2>2. /\ j - 1 \in Int /\ k - 1 \in Int
        /\ (j - 1) - (k - 1) < NumberRange /\ (k - 1) - (j - 1) < NumberRange
    BY <1>1, <2>1
  <2>3. (j - 1) % NumberRange = (k - 1) % NumberRange => j - 1 = k - 1
    BY <2>2, SameNumber
  <2>4. (j - 1) % BigRange = j - 1 /\ (k - 1) % BigRange = k - 1
    <3>1. j - 1 \in 0..(2 * MaxMessages + 1) /\ k - 1 \in 0..(2 * MaxMessages + 1)
      BY <1>1, <2>1
    <3> QED BY <3>1, BigSmall
  <2> QED BY <2>3, <2>4 DEF Number, Big!Number
<1> QED BY <1>2 DEF RemovePacketFromResendList, Big!RemovePacketFromResendList

\* Every step but SendAcks is a step of the layer that does not wrap.  SendAcks
\* takes the lowest numbers first, which need not be the earliest messages.
LEMMA StepMaps ==
  ASSUME FewInUse, WrapInv, InStep, [Next]_vars
  PROVE  /\ Linked' /\ CountInv'
         /\ \/ [Big!Next]_(Big!vars)
            \/ /\ SendAcks
               /\ TrueIndex' = TrueIndex
               /\ TrueOrderedWrite' = TrueOrderedWrite
               /\ TrueSequencedWrite' = TrueSequencedWrite
               /\ TrueBase' = TrueBase
               /\ TrueOrderedRead' = TrueOrderedRead
               /\ TrueSequencedRead' = TrueSequencedRead
<1> USE DEF senderVars, resendVars, windowVars, readVars, receiverVars
<1> DEFINE Same == /\ TrueIndex' = TrueIndex
                   /\ TrueOrderedWrite' = TrueOrderedWrite
                   /\ TrueSequencedWrite' = TrueSequencedWrite
                   /\ TrueBase' = TrueBase
                   /\ TrueOrderedRead' = TrueOrderedRead
                   /\ TrueSequencedRead' = TrueSequencedRead
           Steady == /\ UNCHANGED <<sent, index, orderedWrite, sequencedWrite,
                                    base, orderedRead, sequencedRead>>
                     /\ sendPacketSet' \cup resendList'
                          \subseteq sendPacketSet \cup resendList
<1>1. ASSUME Steady PROVE Linked' /\ CountInv' /\ Same
  BY <1>1, Untouched DEF WrapInv
<1>2. Messages = Big!Messages
  BY DEF Messages, Big!Messages
<1>3. ASSUME NEW s \in Streams, Send(s)
      PROVE  Linked' /\ CountInv' /\ Big!Next
  BY <1>3, SendLinked, SendCountInv, SendMaps DEF Big!Next
<1>4. ASSUME NEW k \in Messages, Transmit(k)
      PROVE  Linked' /\ CountInv' /\ Big!Next
  <2>1. Steady
    BY <1>4 DEF Transmit
  <2>2. Linked' /\ CountInv' /\ Same
    BY <1>1, <2>1
  <2>3. Big!Transmit(k)
    BY <1>4, <2>2 DEF Transmit, Big!Transmit, AckOverdue, Big!AckOverdue,
         StartAckTimer, Big!StartAckTimer, IsReliable, Big!IsReliable,
         Reliability, Big!Reliability, Big!receiverVars, Big!windowVars,
         Big!readVars
  <2> QED BY <1>2, <2>2, <2>3 DEF Big!Next
<1>5. ASSUME NEW k \in Messages, Resend(k)
      PROVE  Linked' /\ CountInv' /\ Big!Next
  <2>1. Steady
    BY <1>5 DEF Resend
  <2>2. Linked' /\ CountInv' /\ Same
    BY <1>1, <2>1
  <2>3. Big!Resend(k)
    BY <1>5, <2>2 DEF Resend, Big!Resend, AckOverdue, Big!AckOverdue,
         Big!senderVars, Big!resendVars, Big!receiverVars, Big!windowVars,
         Big!readVars
  <2> QED BY <1>2, <2>2, <2>3 DEF Big!Next
<1>6. ASSUME NEW k \in Messages, ReceiveMessage(k)
      PROVE  Linked' /\ CountInv' /\ Big!Next
  BY <1>2, <1>6, ReceiveMaps DEF Big!Next
<1>7. ASSUME NEW k \in Messages, ReceiveAck(k)
      PROVE  Linked' /\ CountInv' /\ Big!Next
  <2>1. Steady
    BY <1>7 DEF ReceiveAck, RemovePacketFromResendList
  <2>2. Linked' /\ CountInv' /\ Same
    BY <1>1, <2>1
  <2>3. RemovePacketFromResendList(k) = Big!RemovePacketFromResendList(k)
    BY <1>7, AckMaps DEF ReceiveAck
  <2>4. Big!ReceiveAck(k)
    BY <1>7, <2>2, <2>3 DEF ReceiveAck, Big!ReceiveAck, AfterAck, Big!AfterAck,
         IsFresh, Big!IsFresh, Big!senderVars, Big!receiverVars,
         Big!windowVars, Big!readVars
  <2> QED BY <1>2, <2>2, <2>4 DEF Big!Next
<1>8. CASE SendAcks
  <2>1. Steady
    BY <1>8 DEF SendAcks
  <2> QED BY <1>1, <1>8, <2>1
<1>9. CASE DeclareDead
  <2>1. Steady
    BY <1>9 DEF DeclareDead
  <2>2. Linked' /\ CountInv' /\ Same
    BY <1>1, <2>1
  <2>3. Big!DeclareDead
    BY <1>9, <2>2 DEF DeclareDead, Big!DeclareDead, AckOverdue, Big!AckOverdue,
         Big!senderVars, Big!receiverVars, Big!windowVars, Big!readVars
  <2> QED BY <2>2, <2>3 DEF Big!Next
<1>10. CASE Lose
  <2>1. Steady
    BY <1>10 DEF Lose
  <2>2. Linked' /\ CountInv' /\ Same
    BY <1>1, <2>1
  <2>3. Big!Lose
    BY <1>10, <2>2 DEF Lose, Big!Lose, Big!senderVars, Big!resendVars,
         Big!receiverVars, Big!windowVars, Big!readVars
  <2> QED BY <2>2, <2>3 DEF Big!Next
<1>11. CASE Tick
  <2>1. Steady
    BY <1>11 DEF Tick
  <2>2. Linked' /\ CountInv' /\ Same
    BY <1>1, <2>1
  <2>3. Big!Tick
    BY <1>11, <2>2 DEF Tick, Big!Tick, Big!senderVars, Big!resendVars,
         Big!receiverVars, Big!windowVars, Big!readVars
  <2> QED BY <2>2, <2>3 DEF Big!Next
<1>12. CASE UNCHANGED vars
  <2>1. Steady
    BY <1>12 DEF vars
  <2>2. Linked' /\ CountInv' /\ Same
    BY <1>1, <2>1
  <2>3. UNCHANGED Big!vars
    BY <1>12, <2>2 DEF vars, Big!vars, Big!senderVars, Big!resendVars,
         Big!receiverVars, Big!windowVars, Big!readVars
  <2> QED BY <2>2, <2>3
<1> QED BY <1>3, <1>4, <1>5, <1>6, <1>7, <1>8, <1>9, <1>10, <1>11, <1>12 DEF Next

\* While the ends stay in step, the invariant of the layer that does not wrap
\* holds of the counts.
LEMMA NextWrap ==
  FewInUse /\ InStep /\ WrapInv /\ [Next]_vars => WrapInv'
<1> SUFFICES ASSUME FewInUse, InStep, WrapInv, [Next]_vars PROVE WrapInv'
  OBVIOUS
<1>1. Linked' /\ CountInv'
  BY StepMaps
<1>2. Big!DeliveryInv
  BY DEF WrapInv
<1>3. CASE [Big!Next]_(Big!vars)
  <2>1. Big!DeliveryInv'
    BY <1>2, <1>3, BoundsAssumption, BigIsWide, Big!NextDelivery
  <2> QED BY <1>1, <2>1 DEF WrapInv
<1>4. CASE /\ SendAcks
           /\ TrueIndex' = TrueIndex
           /\ TrueOrderedWrite' = TrueOrderedWrite
           /\ TrueSequencedWrite' = TrueSequencedWrite
           /\ TrueBase' = TrueBase
           /\ TrueOrderedRead' = TrueOrderedRead
           /\ TrueSequencedRead' = TrueSequencedRead
  <2>1. /\ sent' = sent /\ hasReceived' = hasReceived
        /\ orderingList' = orderingList /\ delivered' = delivered
        /\ sendPacketSet' = sendPacketSet /\ resendList' = resendList
        /\ lastAckTime' = lastAckTime /\ deadConnection' = deadConnection
        /\ inFlight' = inFlight /\ now' = now
    BY <1>4 DEF SendAcks, senderVars, resendVars, windowVars, readVars
  <2>2. acksInFlight' \subseteq Messages /\ acknowledgements' \subseteq Messages
    BY <1>4, TrueTypes DEF SendAcks
  <2>3. Big!TypeOK'
    BY <1>2, <1>4, <2>1, <2>2 DEF Big!DeliveryInv, Big!TypeOK, Big!Messages, Messages
  <2>4. Big!DeliveryInv'
    BY <1>2, <1>4, <2>1, <2>3, BoundsAssumption, BigIsWide, Big!UndisturbedInv
    DEF Big!readVars
  <2> QED BY <1>1, <2>4 DEF WrapInv
<1> QED BY <1>3, <1>4, StepMaps

-----------------------------------------------------------------------------
(* What the ends that stay in step keep.                                   *)

\* The two layers make the same promise about what is delivered.
LEMMA SamePromise ==
  /\ Big!NoDuplicateDelivery <=> NoDuplicateDelivery
  /\ Big!OrderedDelivery <=> OrderedDelivery
  /\ Big!SequencedDelivery <=> SequencedDelivery
<1>1. Big!NoDuplicateDelivery <=> NoDuplicateDelivery
  BY DEF NoDuplicateDelivery, Big!NoDuplicateDelivery, Promise!AtMostOnce,
         Big!Promise!AtMostOnce
<1>2. Big!OrderedDelivery <=> OrderedDelivery
  BY DEF OrderedDelivery, Big!OrderedDelivery, Promise!InOrder,
         Big!Promise!InOrder, Promise!IsOrdered, Big!Promise!IsOrdered
<1>3. Big!SequencedDelivery <=> SequencedDelivery
  BY DEF SequencedDelivery, Big!SequencedDelivery, Promise!InSequence,
         Big!Promise!InSequence, Promise!IsSequenced, Big!Promise!IsSequenced
<1> QED BY <1>1, <1>2, <1>3

\* The receiver can tell ahead from behind as long as the ends are in step, and
\* the window, the indices and the read positions then agree at every moment,
\* however often the numbers have wrapped.
THEOREM InStepDelivery ==
  ASSUME FewInUse PROVE Spec /\ []InStep => []WrapInv
<1>1. Init => WrapInv
  BY InitWrap
<1>2. InStep /\ WrapInv /\ [Next]_vars => WrapInv'
  BY NextWrap
<1> QED BY <1>1, <1>2, PTL DEF Spec

\* The variables have their types when the counts have theirs.
LEMMA WrapTypes == WrapInv => TypeOK
<1> SUFFICES ASSUME WrapInv PROVE TypeOK
  OBVIOUS
<1>1. /\ Linked /\ Big!TypeOK /\ Big!Messages = Messages
  BY DEF WrapInv, Big!DeliveryInv, Big!Messages, Messages
<1> QED BY <1>1 DEF Linked, Big!TypeOK, TypeOK

\* Every variable keeps its type, however often the numbers have wrapped.
THEOREM InStepTypes ==
  ASSUME FewInUse PROVE Spec /\ []InStep => []TypeOK
  BY WrapTypes, InStepDelivery, PTL

\* No message is handed to the user twice, when its number comes round again
\* included.
THEOREM InStepNoDuplicates ==
  ASSUME FewInUse PROVE Spec /\ []InStep => []NoDuplicateDelivery
<1>1. WrapInv => NoDuplicateDelivery
  BY SamePromise DEF WrapInv, Big!DeliveryInv
<1> QED BY <1>1, InStepDelivery, PTL

\* Ordered channels are delivered in order and without gaps, across the wrap.
THEOREM InStepOrdered ==
  ASSUME FewInUse PROVE Spec /\ []InStep => []OrderedDelivery
<1>1. WrapInv => OrderedDelivery
  BY SamePromise DEF WrapInv, Big!DeliveryInv, Big!OrderInv
<1> QED BY <1>1, InStepDelivery, PTL

\* No sequenced message follows a later one of its channel, across the wrap.
THEOREM InStepSequenced ==
  ASSUME FewInUse PROVE Spec /\ []InStep => []SequencedDelivery
<1>1. WrapInv => SequencedDelivery
  BY SamePromise DEF WrapInv, Big!DeliveryInv, Big!SequenceInv
<1> QED BY <1>1, InStepDelivery, PTL

\* No message the ordering list keeps is the next one of its channel, whatever
\* their numbers.
THEOREM InStepNoneWaiting ==
  ASSUME FewInUse PROVE Spec /\ []InStep => []NoneLeftWaiting
<1>1. WrapInv /\ InStep => NoneLeftWaiting
  <2> SUFFICES ASSUME WrapInv, InStep, NEW c \in Channels
               PROVE  Waiting(c, orderedRead[c]) = {}
    BY DEF NoneLeftWaiting
  <2>1. /\ TrueOrderedRead[c] \in Int /\ TrueOrderedWrite[c] \in Int
        /\ TrueOrderedRead[c] <= TrueOrderedWrite[c]
        /\ TrueOrderedRead[c] % NumberRange = orderedRead[c]
    BY TrueTypes, Readings DEF WrapInv
  <2>2. Waiting(c, orderedRead[c]) = Big!Waiting(c, TrueOrderedRead[c])
    BY <2>1, WaitingMaps
  <2>3. ASSUME NEW j \in Big!Waiting(c, TrueOrderedRead[c]) PROVE FALSE
    <3>1. /\ j \in orderingList /\ TrueIndex[j] = TrueOrderedRead[c]
          /\ Big!Channel(j) = c
      BY DEF Big!Waiting
    <3>2. TrueIndex[j] > TrueOrderedRead[c]
      BY <3>1 DEF WrapInv, Big!DeliveryInv, Big!OrderInv
    <3> QED BY <2>1, <3>1, <3>2
  <2> QED BY <2>2, <2>3
<1> QED BY <1>1, InStepDelivery, PTL

\* While the ends stay in step, the layer implements the promise of
\* PacketPriority.h for any number of messages.
THEOREM InStepRefinement ==
  ASSUME FewInUse PROVE Spec /\ []InStep => ImplementsPromise
<1> USE DEF senderVars, resendVars, windowVars, readVars, receiverVars
<1>1. Init => Promise!Init
  BY DEF Init, Promise!Init
<1>2. ASSUME InStep, WrapInv, WrapInv', [Next]_vars
      PROVE  [Promise!Next]_(Promise!vars)
  <2>1. ASSUME NEW s \in Streams, Send(s) PROVE Promise!Submit
    BY <2>1 DEF Send, Promise!Submit
  <2>2. ASSUME NEW k \in Messages, ReceiveMessage(k)
        PROVE  Promise!Deliver \/ UNCHANGED Promise!vars
    <3>1. sent' = sent
      BY <2>2 DEF ReceiveMessage
    <3>2. \/ delivered' = delivered
          \/ \E b \in Seq(Messages) :
                Len(b) \in Nat \ {0} /\ delivered' = delivered \o b
      <4>1. k \in Big!Messages /\ Big!Messages = Messages /\ Big!DeliveryInv
        BY <1>2 DEF Big!Messages, Messages, WrapInv
      <4>2. Big!ReceiveMessage(k)
        BY <1>2, <2>2, ReceiveMaps
      <4>3. \/ delivered' = delivered
            \/ \E b \in Seq(Big!Messages) :
                  Len(b) \in Nat \ {0} /\ delivered' = delivered \o b
        BY <4>1, <4>2, BoundsAssumption, BigIsWide, Big!DeliveredGrows
      <4> QED BY <4>1, <4>3
    <3>3. CASE delivered' = delivered
      BY <3>1, <3>3 DEF Promise!vars
    <3>4. CASE \E b \in Seq(Messages) :
                 Len(b) \in Nat \ {0} /\ delivered' = delivered \o b
      <4>1. PICK b \in Seq(Messages) :
              Len(b) \in Nat \ {0} /\ delivered' = delivered \o b
        BY <3>4
      <4>2. Big!Messages = Messages /\ Big!TypeOK /\ Big!TypeOK'
        BY <1>2 DEF WrapInv, Big!DeliveryInv, Big!Messages, Messages
      <4>3. delivered \in Seq(Messages) /\ Len(delivered) \in Nat
        BY <4>2 DEF Big!TypeOK
      <4>4. /\ Len(delivered') > Len(delivered)
            /\ SubSeq(delivered', 1, Len(delivered)) = delivered
        BY <4>1, <4>3
      <4>5. NoDuplicateDelivery' /\ OrderedDelivery' /\ SequencedDelivery'
        <5>1. /\ Big!NoDuplicateDelivery' /\ Big!OrderedDelivery'
              /\ Big!SequencedDelivery'
          BY <1>2 DEF WrapInv, Big!DeliveryInv, Big!OrderInv, Big!SequenceInv
        <5>2. /\ Big!NoDuplicateDelivery' <=> NoDuplicateDelivery'
              /\ Big!OrderedDelivery' <=> OrderedDelivery'
              /\ Big!SequencedDelivery' <=> SequencedDelivery'
          BY SamePromise, PTL
        <5> QED BY <5>1, <5>2
      <4>6. Promise!OnlySent(sent, delivered')
        <5>1. sent \in Seq(Streams) /\ delivered' \in Seq(Messages)
          BY <3>1, <4>2 DEF Big!TypeOK, Big!Messages
        <5>2. DOMAIN sent = Messages
          BY <5>1 DEF Messages
        <5> QED BY <5>1, <5>2 DEF Promise!OnlySent
      <4>7. Promise!Contract(sent, delivered')
        BY <3>1, <4>5, <4>6 DEF NoDuplicateDelivery, OrderedDelivery,
                                SequencedDelivery, Promise!Contract
      <4> QED BY <3>1, <4>4, <4>7 DEF Promise!Deliver
    <3> QED BY <3>2, <3>3, <3>4
  <2>3. ASSUME NEW k \in Messages, Transmit(k) \/ Resend(k) \/ ReceiveAck(k)
        PROVE  UNCHANGED Promise!vars
    BY <2>3 DEF Transmit, Resend, ReceiveAck, Promise!vars
  <2>4. CASE SendAcks \/ DeclareDead \/ Lose \/ Tick \/ UNCHANGED vars
    BY <2>4 DEF SendAcks, DeclareDead, Lose, Tick, vars, Promise!vars
  <2> QED BY <1>2, <2>1, <2>2, <2>3, <2>4 DEF Next, Promise!Next
<1>3. Spec /\ []InStep => []WrapInv
  BY InStepDelivery
<1> QED BY <1>1, <1>2, <1>3, PTL DEF Spec, ImplementsPromise, Promise!Spec

-----------------------------------------------------------------------------
(* Why the ends stay in step: whatever the receiver waits for, the sender  *)
(* still keeps, and the sender does not run MaxAge messages ahead of it.    *)

\* No unreliable message, which may be lost for good, is sent.
AllReliable == \A s \in Streams : IsReliable(s[1])

\* The window starts at a number that has not been received.
HeadOpen == hasReceived = <<>> \/ hasReceived[1] # 0

\* The ends agree, the sender keeps what is not recorded, and what is recorded
\* was taken.
StepInv == WrapInv /\ Big!AckInv /\ Big!TakenInv /\ HeadOpen

\* A message the window has not recorded is at most MaxAge messages old.
LEMMA UnrecordedIsFresh ==
  ASSUME AllReliable, WrapInv, Big!AckInv, NEW k \in Messages, ~Big!Received(k)
  PROVE  Len(sent) + 1 - k <= MaxAge
<1>1. k \in sendPacketSet \cup resendList
  <2>1. sent[k] \in Streams /\ k \in Big!Messages
    BY TrueTypes DEF Big!Messages, Messages
  <2>2. Big!IsReliable(Big!Reliability(k))
    BY <2>1 DEF AllReliable, IsReliable, Big!IsReliable, Big!Reliability
  <2> QED BY <2>1, <2>2 DEF Big!AckInv
<1>2. Len(sent) - k < MaxAge
  BY <1>1 DEF WrapInv, Linked, IsFresh
<1>3. Len(sent) \in Nat /\ k \in 1..Len(sent) /\ MaxAge \in Nat
  BY TrueTypes, BoundsAssumption
<1> QED BY <1>2, <1>3

\* So no position of the receiver lags behind by half a turn.
LEMMA StaysInStep == FewInUse /\ AllReliable /\ StepInv => InStep
<1> SUFFICES ASSUME FewInUse, AllReliable, StepInv PROVE InStep
  OBVIOUS
<1>1. /\ WrapInv /\ Linked /\ CountInv /\ Big!AckInv /\ Big!TakenInv /\ HeadOpen
      /\ Big!OrderInv
  BY DEF StepInv, WrapInv, Big!DeliveryInv
<1>2. /\ Len(sent) \in Nat /\ MaxAge \in Nat /\ HalfTurn \in Nat /\ HalfTurn >= 2
      /\ NumberRange \in Nat /\ MaxAge <= HalfTurn - 1
      /\ hasReceived \in Seq(Nat) /\ TrueBase \in Nat
  BY <1>1, TrueTypes, HalfTurnType DEF FewInUse
<1>3. HoleCount(Len(sent), base) < HalfTurn
  <2>1. /\ HoleCount(Len(sent), base) = Len(sent) - TrueBase
        /\ TrueBase <= Len(sent)
    <3>1. /\ HoleCount(Len(sent), base) \in Numbers
          /\ Len(sent) - TrueBase = HoleCount(Len(sent), base)
      BY <1>1, <1>2, Readings
    <3> QED BY <1>2, <3>1 DEF Numbers
  <2>2. CASE TrueBase = Len(sent)
    BY <1>2, <2>1, <2>2
  <2>3. CASE TrueBase < Len(sent)
    <3> DEFINE k == TrueBase + 1
    <3>1. k \in Messages
      BY <1>2, <2>3 DEF Messages
    <3>2. ~Big!Received(k)
      <4>1. ~(k <= TrueBase) /\ k - TrueBase = 1
        BY <1>2
      <4>2. ~(1 \in 1..Len(hasReceived) /\ hasReceived[1] = 0)
        BY <1>1, <1>2 DEF HeadOpen
      <4> QED BY <4>1, <4>2 DEF Big!Received
    <3>3. Len(sent) + 1 - k <= MaxAge
      BY <1>1, <3>1, <3>2, UnrecordedIsFresh
    <3> QED BY <1>2, <2>1, <3>3
  <2> QED BY <1>2, <2>1, <2>2, <2>3
<1>4. ASSUME NEW c \in Channels
      PROVE  HoleCount(orderedWrite[c], orderedRead[c]) < HalfTurn
  <2>1. /\ TrueOrderedWrite[c] \in Nat /\ TrueOrderedRead[c] \in Nat
        /\ TrueOrderedRead[c] <= TrueOrderedWrite[c]
        /\ HoleCount(orderedWrite[c], orderedRead[c])
             = TrueOrderedWrite[c] - TrueOrderedRead[c]
    BY <1>1, <1>2, TrueTypes, Readings
  <2>2. CASE TrueOrderedRead[c] = TrueOrderedWrite[c]
    BY <1>2, <2>1, <2>2
  <2>3. CASE TrueOrderedRead[c] < TrueOrderedWrite[c]
    <3>1. TrueOrderedRead[c] \in 0..(TrueOrderedWrite[c] - 1)
      BY <2>1, <2>3
    <3>2. PICK k \in Messages : /\ IsOrdered(Reliability(k)) /\ Channel(k) = c
                                /\ TrueIndex[k] = TrueOrderedRead[c]
      BY <1>1, <3>1 DEF CountInv
    <3>3. /\ k \in Big!Messages /\ Big!IsOrdered(Big!Reliability(k))
          /\ ~Big!IsSequenced(Big!Reliability(k)) /\ Big!Channel(k) = c
      BY <3>2 DEF Big!Messages, Messages, Big!IsOrdered, IsOrdered,
                  Big!Reliability, Reliability, Big!IsSequenced, Big!Channel, Channel
    <3>4. k \notin Big!DeliveredMessages /\ k \notin orderingList
      <4>1. ~(TrueIndex[k] < TrueOrderedRead[c]) /\ ~(TrueIndex[k] > TrueOrderedRead[c])
        BY <2>1, <3>2
      <4> QED BY <1>1, <3>3, <4>1 DEF Big!OrderInv
    <3>5. ~Big!Received(k)
      BY <1>1, <3>3, <3>4 DEF Big!TakenInv
    <3>6. Len(sent) + 1 - k <= MaxAge
      BY <1>1, <3>2, <3>5, UnrecordedIsFresh
    <3>7. TrueOrderedWrite[c] - TrueOrderedRead[c] <= Len(sent) + 1 - k
      BY <1>1, <3>2 DEF CountInv
    <3> QED BY <1>2, <2>1, <3>2, <3>6, <3>7 DEF Messages
  <2> QED BY <2>1, <2>2, <2>3
<1>5. ASSUME NEW c \in Channels
      PROVE  HoleCount(sequencedWrite[c], sequencedRead[c]) < HalfTurn - 1
  <2>1. /\ TrueSequencedWrite[c] \in Nat /\ TrueSequencedRead[c] \in Nat
        /\ TrueSequencedRead[c] <= TrueSequencedWrite[c]
        /\ HoleCount(sequencedWrite[c], sequencedRead[c])
             = TrueSequencedWrite[c] - TrueSequencedRead[c]
    <3>1. /\ HoleCount(sequencedWrite[c], sequencedRead[c]) \in Numbers
          /\ TrueSequencedWrite[c] - TrueSequencedRead[c]
               = HoleCount(sequencedWrite[c], sequencedRead[c])
      BY <1>1, <1>2, Readings
    <3>2. TrueSequencedWrite[c] \in Nat /\ TrueSequencedRead[c] \in Nat
      BY <1>1, TrueTypes
    <3> QED BY <1>2, <3>1, <3>2 DEF Numbers
  <2>2. CASE TrueSequencedRead[c] = TrueSequencedWrite[c]
    BY <1>2, <2>1, <2>2
  <2>3. CASE TrueSequencedRead[c] < TrueSequencedWrite[c]
    <3>1. TrueSequencedRead[c] \in 0..(TrueSequencedWrite[c] - 1)
      BY <2>1, <2>3
    <3>2. PICK k \in Messages : /\ IsSequenced(Reliability(k)) /\ Channel(k) = c
                                /\ TrueIndex[k] = TrueSequencedRead[c]
      BY <1>1, <3>1 DEF CountInv
    <3>3. /\ k \in Big!Messages /\ Big!IsSequenced(Big!Reliability(k))
          /\ Big!Channel(k) = c
      BY <3>2 DEF Big!Messages, Messages, Big!IsSequenced, IsSequenced,
                  Big!Reliability, Reliability, Big!Channel, Channel
    <3>4. ~(TrueIndex[k] < TrueSequencedRead[c])
      BY <2>1, <3>2
    <3>5. ~Big!Received(k)
      BY <1>1, <3>3, <3>4 DEF Big!TakenInv
    <3>6. Len(sent) + 1 - k <= MaxAge
      BY <1>1, <3>2, <3>5, UnrecordedIsFresh
    <3>7. TrueSequencedWrite[c] - TrueSequencedRead[c] <= Len(sent) + 1 - k
      BY <1>1, <3>2 DEF CountInv
    <3>8. MaxAge <= HalfTurn - 2
      <4>1. sent[k] \in Streams
        BY <1>1, TrueTypes
      <4> QED BY <3>2, <4>1 DEF FewInUse, Reliability
    <3> QED BY <1>2, <2>1, <3>2, <3>6, <3>7, <3>8 DEF Messages
  <2> QED BY <2>1, <2>2, <2>3
<1> QED BY <1>3, <1>4, <1>5 DEF InStep

\* The window starts at an open number after every step.
LEMMA NextHeadOpen ==
  ASSUME WrapInv, HeadOpen, [Next]_vars PROVE HeadOpen'
<1> USE DEF senderVars, resendVars, windowVars, readVars, receiverVars
<1>1. /\ hasReceived \in Seq(Nat) /\ Len(hasReceived) \in Nat /\ now \in Nat
      /\ now > 0 /\ Timeout \in Nat
  BY TrueTypes, BoundsAssumption
<1>2. ASSUME hasReceived' = hasReceived PROVE HeadOpen'
  BY <1>2 DEF HeadOpen
<1>3. ASSUME NEW k \in Messages, ReceiveMessage(k) PROVE HeadOpen'
  <2> DEFINE h == HoleCount(Number(k), base)
             w == Marked(h)
             n == Settled(w)
             L == IF h < Len(hasReceived) THEN Len(hasReceived) ELSE h + 1
  <2>1. CASE IsDuplicate(h)
    BY <1>2, <1>3, <2>1 DEF ReceiveMessage
  <2>2. CASE ~IsDuplicate(h)
    <3>1. hasReceived' = SubSeq(w, n + 1, Len(w))
      BY <1>3, <2>2 DEF ReceiveMessage, MoveWindow
    <3>2. h \in Nat /\ L \in Nat
      <4>1. k \in Int /\ base \in Int /\ NumberRange \in Nat /\ k - 1 \in Int
        BY NumberRangeAssumption DEF WrapInv, Linked, Numbers, Messages
      <4>2. Number(k) \in Int
        BY <4>1, ModRange DEF Number, Numbers
      <4>3. h \in Numbers
        <5>1. Number(k) - base \in Int
          BY <4>1, <4>2
        <5> QED BY <5>1, ModRange DEF HoleCount
      <4> QED BY <1>1, <4>1, <4>3 DEF Numbers
    <3>3. w = [i \in 1..L |-> IF i = h + 1 THEN 0
                              ELSE IF i <= Len(hasReceived) THEN hasReceived[i]
                              ELSE now + Timeout]
      BY DEF Marked
    <3> HIDE DEF h, w, L
    <3>4. w \in Seq(Nat) /\ Len(w) = L
      <4>1. \A i \in 1..L : i <= Len(hasReceived) => hasReceived[i] \in Nat
        BY <1>1, <3>2, ElementOfSeq
      <4>2. \A i \in 1..L : w[i] \in Nat
        BY <1>1, <3>3, <4>1
      <4> QED BY <3>2, <3>3, <4>2
    <3>5. n \in 0..L /\ (n < L => w[n + 1] >= now)
      BY <1>1, <3>4, SettledProperties
    <3> HIDE DEF n
    <3>6. CASE n = L
      BY <3>1, <3>2, <3>4, <3>6 DEF HeadOpen
    <3>7. CASE n < L
      <4>1. hasReceived'[1] = w[n + 1]
        BY <3>1, <3>2, <3>4, <3>5, <3>7
      <4>2. w[n + 1] # 0
        BY <1>1, <3>2, <3>4, <3>5, <3>7
      <4> QED BY <4>1, <4>2 DEF HeadOpen
    <3> QED BY <3>2, <3>5, <3>6, <3>7
  <2> QED BY <2>1, <2>2
<1>4. ASSUME NEW s \in Streams, Send(s) PROVE HeadOpen'
  BY <1>2, <1>4 DEF Send
<1>5. ASSUME NEW k \in Messages, Transmit(k) \/ Resend(k) \/ ReceiveAck(k)
      PROVE  HeadOpen'
  BY <1>2, <1>5 DEF Transmit, Resend, ReceiveAck
<1>6. CASE SendAcks \/ DeclareDead \/ Lose \/ Tick \/ UNCHANGED vars
  BY <1>2, <1>6 DEF SendAcks, DeclareDead, Lose, Tick, vars
<1> QED BY <1>3, <1>4, <1>5, <1>6 DEF Next

\* Every step keeps the ends in agreement, unless a skipped number is overdue.
LEMMA NextStepInv ==
  FewInUse /\ AllReliable /\ NothingOverdue /\ StepInv /\ [Next]_vars => StepInv'
<1> SUFFICES ASSUME FewInUse, AllReliable, NothingOverdue, StepInv, [Next]_vars
             PROVE  StepInv'
  OBVIOUS
<1>1. /\ WrapInv /\ Big!DeliveryInv /\ Big!AckInv /\ Big!TakenInv /\ HeadOpen
      /\ InStep
  BY StaysInStep DEF StepInv, WrapInv
<1>2. WrapInv' /\ HeadOpen'
  BY <1>1, NextWrap, NextHeadOpen
<1>3. CASE [Big!Next]_(Big!vars)
  <2>1. Big!AckInv'
    BY <1>1, <1>3, BoundsAssumption, BigIsWide, Big!NextAck
  <2>2. Big!NothingOverdue
    BY DEF NothingOverdue, Big!NothingOverdue
  <2>3. Big!TakenInv'
    BY <1>1, <1>3, <2>2, BoundsAssumption, BigIsWide, Big!NextTaken
  <2> QED BY <1>2, <2>1, <2>3 DEF StepInv
<1>4. CASE /\ SendAcks
           /\ TrueIndex' = TrueIndex
           /\ TrueOrderedWrite' = TrueOrderedWrite
           /\ TrueSequencedWrite' = TrueSequencedWrite
           /\ TrueBase' = TrueBase
           /\ TrueOrderedRead' = TrueOrderedRead
           /\ TrueSequencedRead' = TrueSequencedRead
  <2>1. /\ sent' = sent /\ hasReceived' = hasReceived
        /\ orderingList' = orderingList /\ delivered' = delivered
        /\ sendPacketSet' = sendPacketSet /\ resendList' = resendList
        /\ acknowledgements' \cup acksInFlight' \subseteq acknowledgements \cup acksInFlight
    BY <1>4 DEF SendAcks, senderVars, resendVars, windowVars, readVars
  <2>2. Big!AckInv'
    BY <1>1, <1>4, <2>1 DEF Big!AckInv, Big!Received, Big!Messages, Big!Reliability
  <2>3. Big!TakenInv'
    BY <1>1, <1>4, <2>1 DEF Big!TakenInv, Big!Received, Big!Messages,
         Big!Reliability, Big!Channel, Big!DeliveredMessages
  <2> QED BY <1>2, <2>2, <2>3 DEF StepInv
<1> QED BY <1>1, <1>3, <1>4, StepMaps

\* The ends of a connection on which every message is reliable stay in step,
\* in every behaviour in which the window gives up no number it skipped.
THEOREM InStepUnlessGivenUp ==
  ASSUME FewInUse, AllReliable
  PROVE  Spec /\ []NothingOverdue => [](StepInv /\ InStep)
<1>1. Init => StepInv
  <2> SUFFICES ASSUME Init PROVE StepInv
    OBVIOUS
  <2>1. WrapInv
    BY InitWrap
  <2>2. /\ Big!Messages = {} /\ acknowledgements = {} /\ acksInFlight = {}
        /\ hasReceived = <<>>
    BY DEF Init, Big!Messages
  <2> QED BY <2>1, <2>2 DEF StepInv, Big!AckInv, Big!TakenInv, HeadOpen
<1>2. NothingOverdue /\ StepInv /\ [Next]_vars => StepInv'
  BY NextStepInv
<1>3. StepInv => InStep
  BY StaysInStep
<1> QED BY <1>1, <1>2, <1>3, PTL DEF Spec

\* The sender then stops resending only what the user has or will have, even
\* though it knows the messages by their wrapped numbers.
THEOREM WrapAckedUnlessGivenUp ==
  ASSUME FewInUse, AllReliable
  PROVE  Spec /\ []NothingOverdue => []AckedMeansDelivered
<1>1. StepInv => AckedMeansDelivered
  <2> SUFFICES ASSUME StepInv, NEW k \in Messages \ (sendPacketSet \cup resendList),
                      IsReliable(Reliability(k)), ~IsSequenced(Reliability(k))
               PROVE  k \in DeliveredMessages \cup orderingList
    BY DEF AckedMeansDelivered
  <2>1. /\ k \in Big!Messages /\ Big!IsReliable(Big!Reliability(k))
        /\ ~Big!IsSequenced(Big!Reliability(k))
        /\ Big!DeliveredMessages = DeliveredMessages
    BY DEF Big!Messages, Messages, Big!IsReliable, IsReliable, Big!Reliability,
           Reliability, Big!IsSequenced, IsSequenced, Big!DeliveredMessages,
           DeliveredMessages
  <2>2. Big!Received(k)
    BY <2>1 DEF StepInv, Big!AckInv
  <2> QED BY <2>1, <2>2 DEF StepInv, Big!TakenInv
<1> QED BY <1>1, InStepUnlessGivenUp, PTL

\* In particular, before the first moment at which the window may give up, the
\* ends are in step with no assumption on the behaviour.
THEOREM AlwaysInStep ==
  ASSUME FewInUse, AllReliable, NoGiveUp PROVE Spec => []InStep
<1>1. Init => StepInv /\ OverdueInv
  <2>1. Init => WrapInv
    BY InitWrap
  <2>2. Init => OverdueInv
    BY BoundsAssumption DEF Init, OverdueInv
  <2>3. Init => Big!AckInv /\ Big!TakenInv /\ HeadOpen
    BY DEF Init, Big!AckInv, Big!TakenInv, HeadOpen, Big!Messages
  <2> QED BY <2>1, <2>2, <2>3 DEF StepInv
<1>2. StepInv /\ OverdueInv => NothingOverdue
  BY WrapTypes, BoundsAssumption DEF StepInv, TypeOK, OverdueInv, NothingOverdue
<1>3. StepInv /\ OverdueInv /\ [Next]_vars => StepInv' /\ OverdueInv'
  <2>1. StepInv => TypeOK
    BY WrapTypes DEF StepInv
  <2> QED BY <1>2, <2>1, NextStepInv, NextOverdue
<1>4. StepInv => InStep
  BY StaysInStep
<1> QED BY <1>1, <1>3, <1>4, PTL DEF Spec

\* The layer then keeps the promise of PacketPriority.h, for any number of
\* messages and any number of turns of the counters.
THEOREM WrapRefinement ==
  ASSUME FewInUse, AllReliable, NoGiveUp PROVE Spec => ImplementsPromise
  BY AlwaysInStep, InStepRefinement, PTL

\* It delivers every ordered channel in order and without gaps.
THEOREM WrapOrdered ==
  ASSUME FewInUse, AllReliable, NoGiveUp PROVE Spec => []OrderedDelivery
  BY AlwaysInStep, InStepOrdered, PTL
=============================================================================
