------------------------- MODULE SplitPackets_proofs -------------------------
(***************************************************************************)
(* Proofs about SplitPackets for all streams, lengths, sizes of parts and  *)
(* ranges of the split packet id, and all orders of arrival.               *)
(***************************************************************************)
EXTENDS SplitPackets, FiniteSetTheorems, SequenceTheorems,
        WellFoundedInduction, NaturalsInduction, TLAPS

-----------------------------------------------------------------------------
(* The parts of a message.                                                 *)

\* A set of natural numbers that is not empty has a least element.
LEMMA LeastNat ==
  ASSUME NEW T \in SUBSET Nat, T # {}
  PROVE  \E x \in T : \A y \in T : x <= y
<1> DEFINE R == {ss \in Nat \X Nat : ss[1] < ss[2]}
<1>1. IsWellFoundedOn(R, Nat)
  BY NatLessThanWellFounded DEF OpToRel
<1>2. PICK x \in T : \A y \in T : ~ (<<y, x>> \in R)
  <2> HIDE DEF R
  <2> QED BY <1>1, WFMin
<1>3. \A y \in T : ~ (y < x)
  BY <1>2
<1> QED BY <1>3

\* Rounding up, as CountOf and Bytes do.
LEMMA RoundedUp ==
  ASSUME NEW a \in Nat, NEW b \in Nat \ {0}
  PROVE  /\ a \div b \in Nat
         /\ (a \div b) * b <= a /\ a < (a \div b) * b + b
<1>1. a = b * (a \div b) + (a % b) /\ 0 <= a % b /\ a % b < b /\ a \div b \in Int
  OBVIOUS
<1>2. PICK q \in Int, r \in Int : q = a \div b /\ r = a % b
  BY <1>1
<1>3. a = b * q + r /\ 0 <= r /\ r < b
  BY <1>1, <1>2
<1>4. q >= 0
  <2> SUFFICES ASSUME q <= -1 PROVE FALSE
    BY <1>2
  <2>1. b * q <= -b
    BY <1>2
  <2> QED BY <1>3, <2>1
<1>5. b * q = q * b
  BY <1>2
<1> QED BY <1>2, <1>3, <1>4, <1>5

\* A message has at least one byte; all parts but the last are full, and the
\* last has at least a byte.
LEMMA CountFacts ==
  ASSUME NEW bits \in Lengths
  PROVE  /\ Bytes(bits) \in Nat \ {0} /\ CountOf(bits) \in Nat \ {0}
         /\ (CountOf(bits) - 1) * Block < Bytes(bits)
         /\ Bytes(bits) <= (CountOf(bits) - 1) * Block + Block
         /\ bits \in Nat \ {0}
         /\ 8 * Bytes(bits) >= bits /\ 8 * Bytes(bits) < bits + 8
<1>1. bits \in Nat \ {0} /\ Block \in Nat \ {0}
  BY SplitAssumption
<1>2. /\ Bytes(bits) \in Nat \ {0}
      /\ 8 * Bytes(bits) >= bits /\ 8 * Bytes(bits) < bits + 8
  BY <1>1 DEF Bytes
<1>3. PICK a \in Nat : a = Bytes(bits) - 1
  BY <1>2
<1>4. CountOf(bits) - 1 = a \div Block /\ CountOf(bits) = (a \div Block) + 1
  <2>1. a \div Block \in Nat
    BY <1>1, RoundedUp
  <2> QED BY <1>3, <2>1 DEF CountOf
<1>5. /\ a \div Block \in Nat
      /\ (a \div Block) * Block <= a /\ a < (a \div Block) * Block + Block
  BY <1>1, RoundedUp
<1>6. CountOf(bits) \in Nat \ {0}
  BY <1>4, <1>5
<1>7. PICK z \in Nat : z = (a \div Block) * Block
  BY <1>1, <1>5
<1>8. z < Bytes(bits) /\ Bytes(bits) <= z + Block
  BY <1>1, <1>2, <1>3, <1>5, <1>7
<1> QED BY <1>1, <1>2, <1>4, <1>6, <1>7, <1>8

\* How many parts a message of that many bits is sent in.
PartCount(bits) == IF IsLong(bits) THEN CountOf(bits) ELSE 1

\* The parts are numbered from zero, so there are that many of them.
LEMMA PartsFacts ==
  ASSUME NEW k, NEW bits \in Lengths
  PROVE  /\ PartCount(bits) \in Nat \ {0}
         /\ PartsOf(k, bits) = {<<k, i>> : i \in 0..(PartCount(bits) - 1)}
         /\ IsFiniteSet(PartsOf(k, bits))
         /\ Cardinality(PartsOf(k, bits)) = PartCount(bits)
<1> DEFINE n == PartCount(bits)
           all == {<<k, i>> : i \in 0..(n - 1)}
<1>1. n \in Nat \ {0}
  BY CountFacts DEF PartCount
<1>2. PartsOf(k, bits) = all
  BY DEF PartsOf, PartCount
<1> HIDE DEF n
<1>3. IsFiniteSet(0..(n - 1)) /\ Cardinality(0..(n - 1)) = n
  BY <1>1, FS_Interval
<1> DEFINE f == [i \in 0..(n - 1) |-> <<k, i>>]
<1>4. f \in Bijection(0..(n - 1), all)
  <2>1. f \in [0..(n - 1) -> all]
    OBVIOUS
  <2>2. \A i, j \in 0..(n - 1) : f[i] = f[j] => i = j
    OBVIOUS
  <2>3. \A p \in all : \E i \in 0..(n - 1) : f[i] = p
    OBVIOUS
  <2> QED BY <2>1, <2>2, <2>3 DEF Bijection, Injection, Surjection, IsInjective
<1>5. ExistsBijection(0..(n - 1), all)
  BY <1>4 DEF ExistsBijection
<1>6. IsFiniteSet(all) /\ Cardinality(all) = n
  BY <1>3, <1>5, FS_Bijection
<1> QED BY <1>1, <1>2, <1>6 DEF n

\* The parts of a message, all of them and in order.
Whole(k) == [i \in 1..Datagrams(k) |-> <<k, i - 1>>]

\* The parts below a part of a message are as many as its index says.
LEMMA PartsBelow ==
  ASSUME NEW k, NEW n \in Nat, NEW p \in {<<k, i>> : i \in 0..(n - 1)}
  PROVE  /\ p[1] = k /\ p[2] \in 0..(n - 1)
         /\ Cardinality({q \in {<<k, i>> : i \in 0..(n - 1)} : q[2] < p[2]})
              = p[2]
<1>1. PICK j \in 0..(n - 1) : p = <<k, j>>
  OBVIOUS
<1>2. p[1] = k /\ p[2] = j /\ j \in Nat
  BY <1>1
<1> DEFINE below == {q \in {<<k, i>> : i \in 0..(n - 1)} : q[2] < j}
           f == [i \in 0..(j - 1) |-> <<k, i>>]
<1>3. f \in Bijection(0..(j - 1), below)
  <2>1. f \in [0..(j - 1) -> below]
    <3> SUFFICES ASSUME NEW i \in 0..(j - 1) PROVE <<k, i>> \in below
      OBVIOUS
    <3>1. i \in 0..(n - 1) /\ <<k, i>>[2] = i /\ i < j
      BY <1>2
    <3> QED BY <3>1
  <2>2. \A i, l \in 0..(j - 1) : f[i] = f[l] => i = l
    OBVIOUS
  <2>3. \A q \in below : \E i \in 0..(j - 1) : f[i] = q
    <3> SUFFICES ASSUME NEW q \in below PROVE \E i \in 0..(j - 1) : f[i] = q
      OBVIOUS
    <3>1. PICK i \in 0..(n - 1) : q = <<k, i>>
      OBVIOUS
    <3>2. i < j
      BY <3>1
    <3>3. i \in 0..(j - 1)
      BY <1>2, <3>2
    <3> QED BY <3>1, <3>3
  <2> QED BY <2>1, <2>2, <2>3 DEF Bijection, Injection, Surjection, IsInjective
<1>4. IsFiniteSet(0..(j - 1)) /\ Cardinality(0..(j - 1)) = j
  <2>1. j - 1 \in Int /\ 0 \in Int
    BY <1>2
  <2>2. IsFiniteSet(0..(j - 1))
        /\ Cardinality(0..(j - 1)) = IF 0 > j - 1 THEN 0 ELSE (j - 1) - 0 + 1
    BY <2>1, FS_Interval
  <2> QED BY <1>2, <2>2
<1>5. Cardinality(below) = j
  <2>1. ExistsBijection(0..(j - 1), below)
    BY <1>3 DEF ExistsBijection
  <2> HIDE DEF below
  <2> QED BY <1>4, <2>1, FS_Bijection
<1> QED BY <1>2, <1>5

\* Of some of the parts of a message there is a first one.
LEMMA FirstPartFacts ==
  ASSUME NEW k, NEW n \in Nat,
         NEW parts \in SUBSET {<<k, i>> : i \in 0..(n - 1)}, parts # {}
  PROVE  FirstPart(parts) \in parts /\ FirstPart(parts)[1] = k
<1> DEFINE T == {p[2] : p \in parts}
<1>1. \A p \in parts : p[1] = k /\ p[2] \in Nat
  OBVIOUS
<1>2. PICK x \in T : \A y \in T : x <= y
  <2>1. T \in SUBSET Nat /\ T # {}
    BY <1>1
  <2> HIDE DEF T
  <2> QED BY <2>1, LeastNat
<1>3. \E p \in parts : \A q \in parts : p[2] <= q[2]
  BY <1>2
<1>4. FirstPart(parts) \in parts
  BY <1>3 DEF FirstPart
<1> QED BY <1>1, <1>4

\* BuildPacketFromSplitPacketList makes the message of all its parts.
LEMMA BuildFacts ==
  ASSUME NEW k, NEW n \in Nat \ {0}
  PROVE  Build({<<k, i>> : i \in 0..(n - 1)}) = [i \in 1..n |-> <<k, i - 1>>]
<1> DEFINE all == {<<k, i>> : i \in 0..(n - 1)}
           At(i) == CHOOSE p \in all : Cardinality({q \in all : q[2] < p[2]}) = i - 1
<1>1. \A p \in all : /\ p[1] = k /\ p[2] \in 0..(n - 1)
                     /\ Cardinality({q \in all : q[2] < p[2]}) = p[2]
  BY PartsBelow
<1>2. \A p \in all : p = <<k, p[2]>>
  OBVIOUS
<1>3. ASSUME NEW i \in 1..n
      PROVE  At(i) = <<k, i - 1>>
  <2>1. <<k, i - 1>> \in all /\ <<k, i - 1>>[2] = i - 1
    OBVIOUS
  <2> HIDE DEF all
  <2>2. Cardinality({q \in all : q[2] < <<k, i - 1>>[2]}) = i - 1
    BY <1>1, <2>1
  <2>3. At(i) \in all /\ Cardinality({q \in all : q[2] < At(i)[2]}) = i - 1
    BY <2>1, <2>2
  <2> HIDE DEF At
  <2>4. At(i)[2] = i - 1
    BY <1>1, <2>3
  <2> QED BY <1>2, <2>3, <2>4
<1>4. Cardinality(all) = n
  <2>1. IsFiniteSet(0..(n - 1)) /\ Cardinality(0..(n - 1)) = n
    BY FS_Interval
  <2> DEFINE f == [i \in 0..(n - 1) |-> <<k, i>>]
  <2>2. f \in Bijection(0..(n - 1), all)
    <3>1. f \in [0..(n - 1) -> all]
      OBVIOUS
    <3>2. \A i, j \in 0..(n - 1) : f[i] = f[j] => i = j
      OBVIOUS
    <3>3. \A p \in all : \E i \in 0..(n - 1) : f[i] = p
      OBVIOUS
    <3> QED BY <3>1, <3>2, <3>3 DEF Bijection, Injection, Surjection, IsInjective
  <2>3. ExistsBijection(0..(n - 1), all)
    BY <2>2 DEF ExistsBijection
  <2> HIDE DEF all
  <2> QED BY <2>1, <2>3, FS_Bijection
<1>5. Build(all) = [i \in 1..n |-> At(i)]
  BY <1>4 DEF Build
<1> HIDE DEF At
<1> QED BY <1>3, <1>5

\* The parts that are collected when all have arrived are the whole message.
LEMMA CompleteFacts ==
  ASSUME NEW k \in DOMAIN sent, sent[k].bits \in Lengths, IsSplit(k),
         NEW parts \in SUBSET PartsOf(k, sent[k].bits), parts # {}
  PROVE  /\ FirstPart(parts) \in parts /\ FirstPart(parts)[1] = k
         /\ IsComplete(parts) <=> parts = PartsOf(k, sent[k].bits)
         /\ IsComplete(parts) => Build(parts) = Whole(k)
<1> DEFINE bits == sent[k].bits
           n == PartCount(bits)
<1>1. /\ n \in Nat \ {0} /\ n = CountOf(bits)
      /\ PartsOf(k, bits) = {<<k, i>> : i \in 0..(n - 1)}
      /\ IsFiniteSet(PartsOf(k, bits))
      /\ Cardinality(PartsOf(k, bits)) = n
  BY PartsFacts DEF PartCount, IsSplit
<1>2. Whole(k) = [i \in 1..n |-> <<k, i - 1>>]
  BY <1>1 DEF Whole, Datagrams
<1> HIDE DEF n
<1>3. FirstPart(parts) \in parts /\ FirstPart(parts)[1] = k
  BY <1>1, FirstPartFacts
<1>4. IsComplete(parts) <=> Cardinality(parts) = n
  BY <1>1, <1>3 DEF IsComplete
<1>5. Cardinality(parts) = n <=> parts = PartsOf(k, bits)
  BY <1>1, FS_Subset
<1>6. parts = PartsOf(k, bits) => Build(parts) = Whole(k)
  <2>1. Build({<<k, i>> : i \in 0..(n - 1)}) = [i \in 1..n |-> <<k, i - 1>>]
    BY <1>1, BuildFacts
  <2> QED BY <1>1, <1>2, <2>1
<1> QED BY <1>3, <1>4, <1>5, <1>6

-----------------------------------------------------------------------------
(* The length of what was built.                                           *)

\* The sum that MapThenSumSet forms, whatever order it takes the elements in.
SumsUp(h, f, S) ==
  h = [s \in SUBSET S |->
         IF s = {} THEN 0
         ELSE f[CHOOSE x \in s : TRUE] + h[s \ {CHOOSE x \in s : TRUE}]]

\* If some function sums up the parts of a content, BuiltBits is the value of
\* such a function.
LEMMA BuiltUnfolds ==
  ASSUME NEW content, NEW S, S = DOMAIN content,
         NEW bits, bits = sent[Head1(content)].bits, IsLong(bits),
         NEW f, f = [i \in S |-> PartBits(bits, content[i][2])],
         NEW g, SumsUp(g, f, S)
  PROVE  \E h : SumsUp(h, f, S) /\ BuiltBits(content) = h[S]
<1> DEFINE Sums(it) ==
             it = [s \in SUBSET S |->
                     IF s = {} THEN 0
                     ELSE PartBits(bits, content[CHOOSE x \in s : TRUE][2])
                            + it[s \ {CHOOSE x \in s : TRUE}]]
           h == CHOOSE it : Sums(it)
<1>1. \A s \in SUBSET S : s # {} =>
        f[CHOOSE x \in s : TRUE] = PartBits(bits, content[CHOOSE x \in s : TRUE][2])
  <2> SUFFICES ASSUME NEW s \in SUBSET S, s # {},
                      NEW y, y = CHOOSE x \in s : TRUE
               PROVE  f[y] = PartBits(bits, content[y][2])
    OBVIOUS
  <2>1. y \in S
    OBVIOUS
  <2> QED BY <2>1
<1>2. ASSUME NEW it
      PROVE  SumsUp(it, f, S) <=> Sums(it)
  <2> DEFINE A(s) == IF s = {} THEN 0
                     ELSE f[CHOOSE x \in s : TRUE]
                            + it[s \ {CHOOSE x \in s : TRUE}]
             B(s) == IF s = {} THEN 0
                     ELSE PartBits(bits, content[CHOOSE x \in s : TRUE][2])
                            + it[s \ {CHOOSE x \in s : TRUE}]
  <2>1. \A s \in SUBSET S : A(s) = B(s)
    BY <1>1
  <2>2. (SumsUp(it, f, S) <=> it = [s \in SUBSET S |-> A(s)])
        /\ (Sums(it) <=> it = [s \in SUBSET S |-> B(s)])
    BY DEF SumsUp
  <2> HIDE DEF A, B, Sums
  <2>3. [s \in SUBSET S |-> A(s)] = [s \in SUBSET S |-> B(s)]
    BY <2>1
  <2> QED BY <2>2, <2>3
<1>3. BuiltBits(content) = h[S]
  BY Zenon DEF BuiltBits, MapThenSumSet, MapThenFoldSet
<1> HIDE DEF Sums
<1>4. Sums(h)
  BY <1>2
<1> HIDE DEF h
<1> QED BY <1>2, <1>3, <1>4

\* Two such functions agree on a finite set of numbers.
LEMMA SumIsUnique ==
  ASSUME NEW f, NEW S, IsFiniteSet(S), NEW g, NEW h,
         SumsUp(g, f, S), SumsUp(h, f, S)
  PROVE  g[S] = h[S]
<1> DEFINE Bad == {s \in SUBSET S : g[s] # h[s]}
           T == {Cardinality(s) : s \in Bad}
<1>1. \A s \in SUBSET S : IsFiniteSet(s) /\ Cardinality(s) \in Nat
  BY FS_Subset, FS_CardinalityType
<1>2. SUFFICES ASSUME Bad # {} PROVE FALSE
  OBVIOUS
<1>3. T \in SUBSET Nat /\ T # {}
  BY <1>1, <1>2
<1>4. PICK m \in T : \A y \in T : m <= y
  <2> HIDE DEF T
  <2> QED BY <1>3, LeastNat
<1>5. PICK s \in Bad : Cardinality(s) = m
  BY <1>4
<1>6. s # {}
  BY <1>5 DEF SumsUp
<1> DEFINE x == CHOOSE y \in s : TRUE
           rest == s \ {x}
<1>7. x \in s
  BY <1>6
<1>8. /\ g[s] = f[x] + g[rest] /\ h[s] = f[x] + h[rest]
      /\ rest \in SUBSET S
  BY <1>5, <1>6 DEF SumsUp
<1> HIDE DEF x
<1>9. Cardinality(rest) = m - 1 /\ m \in Nat /\ Cardinality(rest) \in Nat
  BY <1>1, <1>5, <1>7, <1>8, FS_RemoveElement
<1>10. g[rest] # h[rest]
  BY <1>5, <1>8
<1>11. Cardinality(rest) \in T
  BY <1>8, <1>10
<1> HIDE DEF T
<1>12. m <= Cardinality(rest)
  BY <1>4, <1>11
<1> QED BY <1>9, <1>12

\* A sum of n numbers that are all c but the last, which is e.
LEMMA SumOfAlike ==
  ASSUME NEW n \in Nat \ {0}, NEW c \in Nat, NEW e \in Nat, NEW f,
         \A i \in 1..n : f[i] = IF i < n THEN c ELSE e
  PROVE  \E g : SumsUp(g, f, 1..n) /\ g[1..n] = (n - 1) * c + e
<1> DEFINE S == 1..n
           g == [s \in SUBSET S |->
                   Cardinality(s \ {n}) * c + (IF n \in s THEN e ELSE 0)]
<1>1. IsFiniteSet(S)
  BY FS_Interval
<1>2. \A s \in SUBSET S : IsFiniteSet(s \ {n}) /\ Cardinality(s \ {n}) \in Nat
                          /\ IsFiniteSet(s)
  BY <1>1, FS_Subset, FS_RemoveElement, FS_CardinalityType
<1>3. SumsUp(g, f, S)
  <2> SUFFICES ASSUME NEW s \in SUBSET S
               PROVE  g[s] = IF s = {} THEN 0
                             ELSE f[CHOOSE y \in s : TRUE]
                                    + g[s \ {CHOOSE y \in s : TRUE}]
    <3>1. g = [s \in SUBSET S |-> g[s]]
      OBVIOUS
    <3> HIDE DEF g
    <3> QED BY <3>1 DEF SumsUp
  <2>1. CASE s = {}
    <3>1. s \ {n} = {} /\ n \notin s
      BY <2>1
    <3>2. Cardinality(s \ {n}) = 0
      BY <3>1, FS_EmptySet
    <3> QED BY <2>1, <3>1, <3>2
  <2>2. CASE s # {}
    <3> DEFINE x == CHOOSE y \in s : TRUE
               rest == s \ {x}
    <3>1. x \in s /\ x \in S
      BY <2>2
    <3> HIDE DEF x
    <3>2. rest \in SUBSET S
      OBVIOUS
    <3>3. CASE x = n
      <4>1. rest \ {n} = s \ {n} /\ n \in s /\ n \notin rest /\ f[x] = e
        BY <3>1, <3>3
      <4>2. PICK z \in Nat : z = Cardinality(s \ {n}) * c
        BY <1>2
      <4>3. g[s] = z + e /\ g[rest] = z + 0
        BY <3>2, <4>1, <4>2
      <4>4. g[s] = f[x] + g[rest]
        BY <4>1, <4>3
      <4> QED BY <2>2, <4>4 DEF x
    <3>4. CASE x # n
      <4>1. /\ rest \ {n} = (s \ {n}) \ {x} /\ x \in s \ {n}
            /\ n \in s <=> n \in rest
            /\ f[x] = c
        BY <3>1, <3>4
      <4>2. PICK a \in Nat, b \in Nat :
              a = Cardinality(s \ {n}) /\ b = Cardinality(rest \ {n})
        BY <1>2, <3>2
      <4>3. a = b + 1
        <5>1. Cardinality((s \ {n}) \ {x}) = Cardinality(s \ {n}) - 1
          BY <1>2, <4>1, FS_RemoveElement
        <5>2. Cardinality(rest \ {n}) = Cardinality((s \ {n}) \ {x})
          BY <4>1
        <5> HIDE DEF rest
        <5> QED BY <4>2, <5>1, <5>2
      <4>4. a * c = b * c + c
        BY <4>3
      <4>5. PICK d \in Nat : d = IF n \in s THEN e ELSE 0
        OBVIOUS
      <4>6. g[s] = a * c + d /\ g[rest] = b * c + d
        BY <3>2, <4>1, <4>2, <4>5
      <4>7. PICK w \in Nat : w = b * c
        OBVIOUS
      <4>8. g[s] = f[x] + g[rest]
        BY <4>1, <4>4, <4>6, <4>7
      <4> QED BY <2>2, <4>8 DEF x
    <3> QED BY <3>3, <3>4
  <2> QED BY <2>1, <2>2
<1>4. g[S] = (n - 1) * c + e
  <2>1. S \ {n} = 1..(n - 1) /\ n \in S
    OBVIOUS
  <2>2. Cardinality(1..(n - 1)) = n - 1
    <3>1. n - 1 \in Int /\ 1 \in Int
      OBVIOUS
    <3>2. Cardinality(1..(n - 1)) = IF 1 > n - 1 THEN 0 ELSE (n - 1) - 1 + 1
      BY <3>1, FS_Interval
    <3> QED BY <3>2
  <2> QED BY <2>1, <2>2
<1> QED BY <1>3, <1>4 DEF S

\* What BuildPacketFromSplitPacketList makes of all the parts of a message has
\* the message's length: only a last part that is full loses the odd bits.
LEMMA WholeIsMessage ==
  ASSUME NEW k \in DOMAIN sent, sent[k].bits \in Lengths
  PROVE  /\ DOMAIN Whole(k) = 1..PartCount(sent[k].bits)
         /\ Head1(Whole(k)) = k
         /\ IsMessage(Whole(k))
<1> DEFINE bits == sent[k].bits
           n == PartCount(bits)
           S == 1..n
<1>1. n \in Nat \ {0} /\ Datagrams(k) = n
  BY PartsFacts DEF Datagrams
<1>2. Whole(k) = [i \in S |-> <<k, i - 1>>]
  BY <1>1 DEF Whole
<1>3. Head1(Whole(k)) = k
  BY <1>1, <1>2 DEF Head1
<1>4. bits \in Lengths
  OBVIOUS
<1>5. CASE ~IsLong(bits)
  BY <1>1, <1>3, <1>5 DEF IsMessage, BuiltBits, Whole
<1>6. CASE IsLong(bits)
  <2> HIDE DEF bits
  <2>1. n = CountOf(bits)
    BY <1>6 DEF PartCount
  <2> HIDE DEF n
  <2>2. /\ Bytes(bits) \in Nat \ {0}
        /\ (n - 1) * Block < Bytes(bits)
        /\ Bytes(bits) <= (n - 1) * Block + Block
        /\ bits \in Nat \ {0}
        /\ 8 * Bytes(bits) >= bits /\ 8 * Bytes(bits) < bits + 8
    BY <1>4, <2>1, CountFacts
  <2>3. Block \in Nat \ {0}
    BY SplitAssumption
  <2>4. PICK z \in Nat : z = (n - 1) * Block
    BY <1>1, <2>3
  <2>5. /\ (n - 1) * (8 * Block) = 8 * z /\ 8 * Block * (n - 1) = 8 * z
    BY <1>1, <2>3, <2>4
  <2> DEFINE e == PartBits(bits, n - 1)
             f == [i \in S |-> PartBits(bits, Whole(k)[i][2])]
             full == 8 * Block
  <2>6. \/ e = full /\ Bytes(bits) = z + Block
        \/ e = bits - 8 * z /\ e \in Nat
    <3>1. PartBytes(bits, n - 1) = Bytes(bits) - z
      BY <1>1, <2>1, <2>4 DEF PartBytes
    <3> QED BY <2>2, <2>3, <2>4, <2>5, <3>1 DEF PartBits
  <2>7. e \in Nat /\ full \in Nat
    BY <2>3, <2>6
  <2>8. f = [i \in S |-> IF i < n THEN full ELSE e]
    <3> SUFFICES ASSUME NEW i \in S
                 PROVE  PartBits(bits, Whole(k)[i][2])
                          = IF i < n THEN full ELSE e
      OBVIOUS
    <3>1. Whole(k)[i][2] = i - 1
      BY <1>2
    <3>2. CASE i < n
      <4>1. PartBytes(bits, i - 1) = Block
        BY <1>1, <2>1, <3>2 DEF PartBytes
      <4> QED BY <3>1, <3>2, <4>1 DEF PartBits
    <3>3. CASE ~(i < n)
      <4>1. i = n
        BY <1>1, <3>3
      <4> QED BY <3>1, <3>3, <4>1
    <3> QED BY <3>2, <3>3
  <2> HIDE DEF e, full
  <2>9. PICK g : SumsUp(g, f, 1..n) /\ g[1..n] = (n - 1) * full + e
    <3>1. \A i \in 1..n : f[i] = IF i < n THEN full ELSE e
      BY <2>8
    <3> HIDE DEF f, S
    <3>2. n \in Nat \ {0} /\ full \in Nat /\ e \in Nat
      BY <1>1, <2>7
    <3>3. \A ff : (\A i \in 1..n : ff[i] = IF i < n THEN full ELSE e) =>
              \E g : SumsUp(g, ff, 1..n) /\ g[1..n] = (n - 1) * full + e
      BY <3>2, SumOfAlike
    <3> QED BY <3>1, <3>3
  <2>10. DOMAIN Whole(k) = S
    BY <1>2
  <2>11. PICK h : SumsUp(h, f, S) /\ BuiltBits(Whole(k)) = h[S]
    <3> HIDE DEF S
    <3>1. SumsUp(g, f, S)
      BY <2>9 DEF S
    <3> HIDE DEF f
    <3>2. f = [i \in S |-> PartBits(bits, Whole(k)[i][2])]
      BY DEF f
    <3>3. bits = sent[Head1(Whole(k))].bits
      BY <1>3 DEF bits
    <3> QED BY <1>6, <2>10, <3>1, <3>2, <3>3, BuiltUnfolds
  <2>12. h[S] = g[S]
    <3>1. IsFiniteSet(S)
      BY <1>1, FS_Interval
    <3> HIDE DEF f
    <3> QED BY <2>9, <2>11, <3>1, SumIsUnique DEF S
  <2>13. BuiltBits(Whole(k)) = 8 * z + e
    BY <2>5, <2>9, <2>11, <2>12 DEF full
  <2>14. Bytes(BuiltBits(Whole(k))) = Bytes(bits)
    <3>1. CASE e = full /\ Bytes(bits) = z + Block
      BY <2>3, <2>13, <3>1 DEF Bytes, full
    <3>2. CASE e = bits - 8 * z
      <4>1. 8 * z + e = bits
        BY <2>2, <3>2
      <4> QED BY <2>13, <4>1
    <3> QED BY <2>6, <3>1, <3>2 DEF full
  <2> QED BY <1>1, <1>2, <1>3, <2>14 DEF IsMessage, Whole, bits, n
<1> QED BY <1>1, <1>2, <1>3, <1>5, <1>6

-----------------------------------------------------------------------------
(* The messages and their numbers.                                         *)

Messages == [stream : Streams, bits : Lengths, index : 0..MaxMessages,
             id : 0..(IdRange - 1)]

\* Messages whose ordering indices are counted together.
Alike(s, t) ==
  /\ s[2] = t[2]
  /\ \/ IsOrdered(s[1]) /\ IsOrdered(t[1])
     \/ IsSequenced(s[1]) /\ IsSequenced(t[1])

Class(s) == {j \in DOMAIN sent : Alike(sent[j].stream, s)}

\* The messages that are counted together have the numbers from zero on, in
\* the order in which they were sent.
Numbered ==
  /\ sent \in Seq(Messages) /\ Len(sent) <= MaxMessages
  /\ splitPacketId \in 0..(IdRange - 1)
  /\ \A s \in Streams :
       /\ \A n \in Nat : n < NextIndex(s) <=>
                           \E j \in Class(s) : OrderingIndex(j) = n
       /\ \A i, j \in Class(s) : i < j => OrderingIndex(i) < OrderingIndex(j)

\* Of the reliabilities one is ordered, and it is reliable and not sequenced.
LEMMA KindFacts ==
  \A r : /\ ~(IsOrdered(r) /\ IsSequenced(r))
         /\ IsOrdered(r) <=> r = "RELIABLE_ORDERED"
         /\ IsOrdered(r) => IsReliable(r)
  BY DEF IsOrdered, IsSequenced, IsReliable, Promise!IsOrdered,
         Promise!IsSequenced, Promise!IsReliable

\* NextIndex counts a class.
LEMMA ClassFacts ==
  ASSUME sent \in Seq(Messages), NEW s
  PROVE  /\ Len(sent) \in Nat /\ DOMAIN sent = 1..Len(sent)
         /\ IsFiniteSet(Class(s)) /\ Class(s) \in SUBSET (DOMAIN sent)
         /\ NextIndex(s) = Cardinality(Class(s))
         /\ NextIndex(s) \in Nat /\ NextIndex(s) <= Len(sent)
<1>1. Len(sent) \in Nat /\ DOMAIN sent = 1..Len(sent)
  OBVIOUS
<1>2. IsFiniteSet(DOMAIN sent) /\ Cardinality(DOMAIN sent) = Len(sent)
  <2>1. 1 \in Int /\ Len(sent) \in Int
    BY <1>1
  <2>2. /\ IsFiniteSet(1..Len(sent))
        /\ Cardinality(1..Len(sent)) = IF 1 > Len(sent) THEN 0 ELSE Len(sent) - 1 + 1
    BY <2>1, FS_Interval
  <2> QED BY <1>1, <2>2
<1>3. Class(s) \in SUBSET (DOMAIN sent)
  BY DEF Class
<1>4. /\ IsFiniteSet(Class(s)) /\ Cardinality(Class(s)) <= Len(sent)
      /\ Cardinality(Class(s)) \in Nat
  BY <1>2, <1>3, FS_Subset, FS_CardinalityType
<1>5. NextIndex(s) = Cardinality(Class(s))
  BY DEF NextIndex, Class, Alike
<1> QED BY <1>1, <1>3, <1>4, <1>5

\* The message that Send appends.
LEMMA SendFacts ==
  ASSUME Numbered, Send
  PROVE  \E s \in Streams, bits \in Lengths, k \in Nat \ {0}, m \in Messages :
           /\ k = Len(sent) + 1 /\ k <= MaxMessages
           /\ m.stream = s /\ m.bits = bits /\ m.index = NextIndex(s)
           /\ m.id = IF IsLong(bits) THEN splitPacketId ELSE 0
           /\ sent' \in Seq(Messages) /\ Len(sent') = k
           /\ DOMAIN sent = 1..(k - 1) /\ DOMAIN sent' = 1..k
           /\ \A j \in DOMAIN sent : sent'[j] = sent[j]
           /\ sent'[k] = m
           /\ inTransit' = inTransit \cup PartsOf(k, bits)
           /\ IF IsLong(bits)
              THEN IdIsFree(splitPacketId) /\ splitPacketId' = NextId(splitPacketId)
              ELSE UNCHANGED splitPacketId
           /\ UNCHANGED <<lost, receiverVars>>
<1>1. PICK s \in Streams, bits \in Lengths :
        LET k == Len(sent) + 1
        IN  /\ k <= MaxMessages
            /\ sent' = Append(sent, [stream |-> s, bits |-> bits,
                                     index |-> NextIndex(s),
                                     id |-> IF IsLong(bits) THEN splitPacketId
                                                            ELSE 0])
            /\ inTransit' = inTransit \cup PartsOf(k, bits)
            /\ IF IsLong(bits)
               THEN IdIsFree(splitPacketId) /\ splitPacketId' = NextId(splitPacketId)
               ELSE UNCHANGED splitPacketId
            /\ UNCHANGED <<lost, receiverVars>>
  BY DEF Send
<1> DEFINE k == Len(sent) + 1
           m == [stream |-> s, bits |-> bits, index |-> NextIndex(s),
                 id |-> IF IsLong(bits) THEN splitPacketId ELSE 0]
<1>2. /\ Len(sent) \in Nat /\ Len(sent) <= MaxMessages /\ sent \in Seq(Messages)
      /\ NextIndex(s) \in 0..MaxMessages
  <2>1. sent \in Seq(Messages) /\ Len(sent) <= MaxMessages
    BY DEF Numbered
  <2>2. Len(sent) \in Nat /\ NextIndex(s) \in Nat /\ NextIndex(s) <= Len(sent)
    BY <2>1, ClassFacts
  <2> QED BY <2>1, <2>2, SplitAssumption
<1>3. m \in Messages
  BY <1>2, SplitAssumption DEF Numbered, Messages
<1>4. /\ m.stream = s /\ m.bits = bits /\ m.index = NextIndex(s)
      /\ m.id = IF IsLong(bits) THEN splitPacketId ELSE 0
  OBVIOUS
<1>5. sent' = Append(sent, m) /\ k <= MaxMessages
  BY <1>1
<1> HIDE DEF m
<1>6. /\ sent' \in Seq(Messages) /\ Len(sent') = k
      /\ DOMAIN sent = 1..(k - 1) /\ DOMAIN sent' = 1..k
      /\ \A j \in DOMAIN sent : sent'[j] = sent[j]
      /\ sent'[k] = m
  BY <1>2, <1>3, <1>5
<1>7. k \in Nat \ {0}
  BY <1>2
<1> QED BY <1>1, <1>3, <1>4, <1>5, <1>6, <1>7

\* The number that Send gives is the next of its class.
LEMMA NumberedSend ==
  ASSUME Numbered, Send
  PROVE  Numbered'
<1>1. PICK s \in Streams, bits \in Lengths, k \in Nat \ {0}, m \in Messages :
        /\ k = Len(sent) + 1 /\ k <= MaxMessages
        /\ m.stream = s /\ m.bits = bits /\ m.index = NextIndex(s)
        /\ sent' \in Seq(Messages) /\ Len(sent') = k
        /\ DOMAIN sent = 1..(k - 1) /\ DOMAIN sent' = 1..k
        /\ \A j \in DOMAIN sent : sent'[j] = sent[j]
        /\ sent'[k] = m
        /\ splitPacketId' \in {splitPacketId, NextId(splitPacketId)}
  <2>1. PICK s \in Streams, bits \in Lengths, k \in Nat \ {0}, m \in Messages :
          /\ k = Len(sent) + 1 /\ k <= MaxMessages
          /\ m.stream = s /\ m.bits = bits /\ m.index = NextIndex(s)
          /\ sent' \in Seq(Messages) /\ Len(sent') = k
          /\ DOMAIN sent = 1..(k - 1) /\ DOMAIN sent' = 1..k
          /\ \A j \in DOMAIN sent : sent'[j] = sent[j]
          /\ sent'[k] = m
          /\ IF IsLong(bits)
             THEN IdIsFree(splitPacketId) /\ splitPacketId' = NextId(splitPacketId)
             ELSE UNCHANGED splitPacketId
    BY SendFacts
  <2> QED BY <2>1
<1>2. splitPacketId' \in 0..(IdRange - 1)
  <2>1. NextId(splitPacketId) \in 0..(IdRange - 1)
    BY SplitAssumption DEF NextId, Numbered
  <2> QED BY <1>1, <2>1 DEF Numbered
<1>3. sent \in Seq(Messages)
  BY DEF Numbered
<1>4. ASSUME NEW t \in Streams
      PROVE  /\ \A n \in Nat : n < NextIndex(t)' <=>
                   \E j \in Class(t)' : OrderingIndex(j)' = n
             /\ \A i, j \in Class(t)' : i < j =>
                   OrderingIndex(i)' < OrderingIndex(j)'
  <2>1. /\ IsFiniteSet(Class(t)) /\ Class(t) \in SUBSET (DOMAIN sent)
        /\ NextIndex(t) = Cardinality(Class(t)) /\ NextIndex(t) \in Nat
    BY <1>3, ClassFacts
  <2>2. NextIndex(t)' = Cardinality(Class(t)')
    BY DEF NextIndex, Class, Alike
  <2>3. \A j \in DOMAIN sent : OrderingIndex(j)' = OrderingIndex(j) /\ j < k
                               /\ OrderingIndex(j) \in Nat
    <3>1. \A j \in DOMAIN sent : sent[j] \in Messages
      BY <1>3
    <3> QED BY <1>1, <3>1 DEF OrderingIndex, Messages
  <2>4. OrderingIndex(k)' = NextIndex(s)
    BY <1>1 DEF OrderingIndex
  <2>5. /\ \A n \in Nat : n < NextIndex(t) <=>
             \E j \in Class(t) : OrderingIndex(j) = n
        /\ \A i, j \in Class(t) : i < j => OrderingIndex(i) < OrderingIndex(j)
    BY DEF Numbered
  <2>6. \A j \in DOMAIN sent : j \in Class(t)' <=> j \in Class(t)
    BY <1>1 DEF Class
  <2>7. Class(t)' \subseteq DOMAIN sent \cup {k}
    BY <1>1 DEF Class
  <2>8. k \notin DOMAIN sent /\ k \in DOMAIN sent'
    BY <1>1
  <2>9. CASE Alike(s, t)
    <3>1. Class(t)' = Class(t) \cup {k}
      <4>1. k \in Class(t)'
        BY <1>1, <2>8, <2>9 DEF Class
      <4> QED BY <2>1, <2>6, <2>7, <4>1
    <3>2. NextIndex(t)' = NextIndex(t) + 1
      BY <2>1, <2>2, <2>8, <3>1, FS_AddElement
    <3>3. Class(s) = Class(t)
      BY <2>9, KindFacts DEF Class, Alike
    <3>4. OrderingIndex(k)' = NextIndex(t)
      <4>1. NextIndex(s) = Cardinality(Class(s))
        BY <1>3, ClassFacts
      <4> QED BY <2>1, <2>4, <3>3, <4>1
    <3>5. ASSUME NEW n \in Nat
          PROVE  n < NextIndex(t)' <=> \E j \in Class(t)' : OrderingIndex(j)' = n
      <4>1. n < NextIndex(t)' <=> n < NextIndex(t) \/ n = NextIndex(t)
        BY <2>1, <3>2
      <4> QED BY <2>1, <2>3, <2>5, <3>1, <3>4, <4>1
    <3>6. ASSUME NEW i \in Class(t)', NEW j \in Class(t)', i < j
          PROVE  OrderingIndex(i)' < OrderingIndex(j)'
      <4>1. CASE j \in Class(t)
        <5>1. i \in Class(t)
          BY <1>1, <2>1, <2>3, <3>1, <3>6, <4>1
        <5> QED BY <2>1, <2>3, <2>5, <3>6, <4>1, <5>1
      <4>2. CASE j = k
        <5>1. i \in Class(t)
          BY <1>1, <3>1, <3>6, <4>2
        <5>2. OrderingIndex(i) \in Nat
          BY <2>1, <2>3, <5>1
        <5>3. OrderingIndex(i) < NextIndex(t)
          BY <2>5, <5>1, <5>2
        <5> QED BY <2>1, <2>3, <3>4, <4>2, <5>1, <5>3
      <4> QED BY <3>1, <4>1, <4>2
    <3> QED BY <3>5, <3>6
  <2>10. CASE ~Alike(s, t)
    <3>1. Class(t)' = Class(t)
      <4>1. k \notin Class(t)'
        BY <1>1, <2>8, <2>10 DEF Class
      <4> QED BY <2>1, <2>6, <2>7, <4>1
    <3>2. NextIndex(t)' = NextIndex(t)
      BY <2>1, <2>2, <3>1
    <3> QED BY <2>1, <2>3, <2>5, <3>1, <3>2
  <2> QED BY <2>9, <2>10
<1> QED BY <1>1, <1>2, <1>4 DEF Numbered

-----------------------------------------------------------------------------
(* The parts that are on their way or collected.                           *)

AllParts(k) == PartsOf(k, sent[k].bits)

\* What is collected under an id are some parts of one message, not all of
\* them, and what is on its way with that id is of the same message.
Collects(id, k) ==
  /\ k \in DOMAIN sent /\ IsSplit(k) /\ sent[k].id = id
  /\ splitPacketChannelList[id].parts # {}
  /\ splitPacketChannelList[id].parts \subseteq AllParts(k)
  /\ splitPacketChannelList[id].parts # AllParts(k)
  /\ splitPacketChannelList[id].parts \cap inTransit = {}
  /\ \A p \in inTransit : IsSplit(p[1]) /\ sent[p[1]].id = id => p[1] = k

PacketChannels == [parts : SUBSET (Nat \X Nat), old : BOOLEAN]

TransportInv ==
  /\ \A p \in inTransit \cup lost : p[1] \in DOMAIN sent /\ p \in AllParts(p[1])
  /\ \A p, q \in inTransit :
       IsSplit(p[1]) /\ IsSplit(q[1]) /\ sent[p[1]].id = sent[q[1]].id =>
         p[1] = q[1]
  /\ DOMAIN splitPacketChannelList \subseteq 0..(IdRange - 1)
  /\ \A id \in DOMAIN splitPacketChannelList :
       /\ splitPacketChannelList[id] \in PacketChannels
       /\ \E k \in DOMAIN sent : Collects(id, k)

\* The parts that are collected.
IsHeld(p) == \E id \in DOMAIN splitPacketChannelList :
               p \in splitPacketChannelList[id].parts

\* The messages, their parts and how they are split, from their type.
LEMMA MessageFacts ==
  ASSUME Numbered, NEW k \in DOMAIN sent
  PROVE  /\ sent[k] \in Messages /\ sent[k].bits \in Lengths
         /\ sent[k].stream \in Streams /\ Channel(k) \in Channels
         /\ k \in 1..MaxMessages /\ OrderingIndex(k) \in Nat
         /\ AllParts(k) = {<<k, i>> : i \in 0..(PartCount(sent[k].bits) - 1)}
         /\ PartCount(sent[k].bits) \in Nat \ {0}
         /\ \A p \in AllParts(k) : p[1] = k
<1>1. sent[k] \in Messages /\ k \in 1..MaxMessages
  BY SplitAssumption DEF Numbered
<1>2. /\ sent[k].bits \in Lengths /\ sent[k].stream \in Streams
      /\ OrderingIndex(k) \in Nat /\ Channel(k) \in Channels
  BY <1>1 DEF Messages, OrderingIndex, Channel, Channels
<1>3. /\ AllParts(k) = {<<k, i>> : i \in 0..(PartCount(sent[k].bits) - 1)}
      /\ PartCount(sent[k].bits) \in Nat \ {0}
  BY <1>2, PartsFacts DEF AllParts
<1> QED BY <1>1, <1>2, <1>3

\* The parts of another message are new, and so is their id.
LEMMA TransportSend ==
  ASSUME Numbered, TransportInv, Send
  PROVE  /\ TransportInv'
         /\ \A p : IsHeld(p)' <=> IsHeld(p)
<1>1. PICK s \in Streams, bits \in Lengths, k \in Nat \ {0}, m \in Messages :
        /\ m.bits = bits
        /\ m.id = IF IsLong(bits) THEN splitPacketId ELSE 0
        /\ DOMAIN sent = 1..(k - 1) /\ DOMAIN sent' = 1..k
        /\ \A j \in DOMAIN sent : sent'[j] = sent[j]
        /\ sent'[k] = m
        /\ inTransit' = inTransit \cup PartsOf(k, bits)
        /\ IsLong(bits) => IdIsFree(splitPacketId)
        /\ UNCHANGED <<lost, receiverVars>>
  BY SendFacts
<1>2. UNCHANGED <<lost, splitPacketChannelList>>
  BY <1>1 DEF receiverVars
<1>3. /\ k \notin DOMAIN sent /\ k \in DOMAIN sent'
      /\ \A j \in DOMAIN sent : j \in DOMAIN sent'
  BY <1>1
<1>4. \A p \in PartsOf(k, bits) : p[1] = k
  BY DEF PartsOf
<1>5. \A j \in DOMAIN sent : (IsSplit(j)' <=> IsSplit(j)) /\ AllParts(j)' = AllParts(j)
  BY <1>1 DEF IsSplit, AllParts
<1>6. AllParts(k)' = PartsOf(k, bits) /\ (IsSplit(k)' <=> IsLong(bits))
  BY <1>1 DEF IsSplit, AllParts
<1>7. \A p \in inTransit \cup lost : p[1] \in DOMAIN sent /\ p \in AllParts(p[1])
  BY DEF TransportInv
<1>8. \A p \in inTransit' : p \in inTransit \/ (p \in PartsOf(k, bits) /\ p[1] = k)
  BY <1>1, <1>4
<1>9. \A p \in inTransit' \cup lost' : p[1] \in DOMAIN sent' /\ p \in AllParts(p[1])'
  <2> SUFFICES ASSUME NEW p \in inTransit' \cup lost'
               PROVE  p[1] \in DOMAIN sent' /\ p \in PartsOf(p[1], sent'[p[1]].bits)
    BY DEF AllParts
  <2>1. CASE p \in inTransit \cup lost
    BY <1>1, <1>3, <1>7, <2>1 DEF AllParts
  <2>2. CASE p \in PartsOf(k, bits)
    BY <1>1, <1>3, <1>4, <2>2
  <2> QED BY <1>2, <1>8, <2>1, <2>2
<1>10. \A p, q \in inTransit' :
         IsSplit(p[1])' /\ IsSplit(q[1])' /\ sent'[p[1]].id = sent'[q[1]].id =>
           p[1] = q[1]
  <2>1. ASSUME NEW p \in inTransit, NEW q \in PartsOf(k, bits),
               IsLong(sent'[p[1]].bits), IsLong(sent'[q[1]].bits)
        PROVE  sent'[p[1]].id # sent'[q[1]].id
    <3>1. q[1] = k /\ IsLong(bits) /\ sent'[q[1]].id = splitPacketId
      BY <1>1, <1>4, <2>1
    <3>2. sent'[p[1]] = sent[p[1]]
      BY <1>1, <1>7
    <3> QED BY <1>1, <2>1, <3>1, <3>2 DEF IdIsFree, IsSplit
  <2> SUFFICES ASSUME NEW p \in inTransit', NEW q \in inTransit',
                      IsLong(sent'[p[1]].bits), IsLong(sent'[q[1]].bits),
                      sent'[p[1]].id = sent'[q[1]].id
               PROVE  p[1] = q[1]
    BY DEF IsSplit
  <2>2. CASE p \in inTransit /\ q \in inTransit
    <3>1. sent'[p[1]] = sent[p[1]] /\ sent'[q[1]] = sent[q[1]]
      BY <1>1, <1>7, <2>2
    <3> QED BY <2>2, <3>1 DEF TransportInv, IsSplit
  <2> QED BY <1>8, <2>1, <2>2
<1>11. ASSUME NEW id \in DOMAIN splitPacketChannelList', NEW j \in DOMAIN sent,
              Collects(id, j)
       PROVE  Collects(id, j)'
  <2>1. id \in DOMAIN splitPacketChannelList /\ sent'[j] = sent[j]
    BY <1>1, <1>2
  <2>2. j # k /\ splitPacketChannelList[id].parts \subseteq AllParts(j)
        /\ \A p \in AllParts(j) : p[1] = j
    BY <1>3, <1>11, MessageFacts DEF Collects
  <2>3. splitPacketChannelList[id].parts \cap inTransit' = {}
    BY <1>1, <1>4, <1>11, <2>2 DEF Collects
  <2>4. \A p \in inTransit' : IsSplit(p[1])' /\ sent'[p[1]].id = id => p[1] = j
    <3> SUFFICES ASSUME NEW p \in inTransit', IsLong(sent'[p[1]].bits),
                        sent'[p[1]].id = id
                 PROVE  p[1] = j
      BY DEF IsSplit
    <3>1. CASE p \in inTransit
      <4>1. sent'[p[1]] = sent[p[1]]
        BY <1>1, <1>7, <3>1
      <4> QED BY <1>11, <3>1, <4>1 DEF Collects, IsSplit
    <3>2. CASE p[1] = k
      BY <1>1, <2>1, <3>2 DEF IdIsFree
    <3> QED BY <1>8, <3>1, <3>2
  <2> QED BY <1>2, <1>3, <1>5, <1>11, <2>1, <2>3, <2>4 DEF Collects
<1>12. \A id \in DOMAIN splitPacketChannelList' :
         /\ splitPacketChannelList'[id] \in PacketChannels
         /\ \E j \in DOMAIN sent' : Collects(id, j)'
  BY <1>2, <1>3, <1>11 DEF TransportInv
<1>13. TransportInv'
  BY <1>2, <1>9, <1>10, <1>12 DEF TransportInv
<1> QED BY <1>2, <1>13 DEF IsHeld

\* A part that is lost is no longer on its way.
LEMMA TransportLose ==
  ASSUME TransportInv, NEW part \in inTransit, Lose(part)
  PROVE  /\ TransportInv'
         /\ \A p : IsHeld(p)' <=> IsHeld(p)
<1>1. /\ inTransit' = inTransit \ {part} /\ lost' = lost \cup {part}
      /\ UNCHANGED <<sent, splitPacketChannelList>>
  BY DEF Lose, senderVars, receiverVars
<1>2. \A id, k : Collects(id, k) => Collects(id, k)'
  BY <1>1 DEF Collects, AllParts, IsSplit
<1>3. /\ \A p \in inTransit' \cup lost' :
           p[1] \in DOMAIN sent' /\ p \in AllParts(p[1])'
      /\ \A p, q \in inTransit' :
           IsSplit(p[1])' /\ IsSplit(q[1])' /\ sent'[p[1]].id = sent'[q[1]].id =>
             p[1] = q[1]
  BY <1>1 DEF TransportInv, AllParts, IsSplit
<1>4. TransportInv'
  BY <1>1, <1>2, <1>3 DEF TransportInv
<1> QED BY <1>1, <1>4 DEF IsHeld

\* Time alone takes nothing from what is collected.
LEMMA TransportGrowOld ==
  ASSUME TransportInv, NEW id \in DOMAIN splitPacketChannelList, GrowOld(id)
  PROVE  /\ TransportInv'
         /\ \A p : IsHeld(p)' <=> IsHeld(p)
<1>1. /\ splitPacketChannelList' =
           [splitPacketChannelList EXCEPT ![id].old = TRUE]
      /\ UNCHANGED <<sent, inTransit, lost>>
  BY DEF GrowOld, senderVars
<1>2. DOMAIN splitPacketChannelList' = DOMAIN splitPacketChannelList
  BY <1>1
<1>3. ASSUME NEW j \in DOMAIN splitPacketChannelList
      PROVE  /\ splitPacketChannelList'[j].parts = splitPacketChannelList[j].parts
             /\ splitPacketChannelList'[j] \in PacketChannels
  <2>1. splitPacketChannelList[j] \in PacketChannels
    BY DEF TransportInv
  <2> QED BY <1>1, <2>1 DEF PacketChannels
<1>4. ASSUME NEW j \in DOMAIN splitPacketChannelList, NEW k, Collects(j, k)
      PROVE  Collects(j, k)'
  BY <1>1, <1>3, <1>4 DEF Collects, AllParts, IsSplit
<1>5. TransportInv'
  BY <1>1, <1>2, <1>3, <1>4 DEF TransportInv, AllParts, IsSplit
<1> QED BY <1>2, <1>3, <1>5 DEF IsHeld

\* What no step of the receiver changes, and what it may take away.
LEMMA CollectsStays ==
  ASSUME UNCHANGED sent, inTransit' \subseteq inTransit,
         NEW id, NEW k, Collects(id, k),
         splitPacketChannelList'[id] = splitPacketChannelList[id]
  PROVE  Collects(id, k)'
BY DEF Collects, AllParts, IsSplit

\* A part that arrives is no longer on its way.
LEMMA ArrivesFacts ==
  ASSUME Numbered, TransportInv, NEW part \in inTransit, Arrives(part)
  PROVE  /\ part[1] \in DOMAIN sent /\ part \in AllParts(part[1])
         /\ UNCHANGED <<sent, splitPacketId, lost>>
         /\ inTransit' = inTransit \ {part}
         /\ \A p \in inTransit' \cup lost' :
              p[1] \in DOMAIN sent' /\ p \in AllParts(p[1])'
         /\ \A p, q \in inTransit' :
              IsSplit(p[1])' /\ IsSplit(q[1])' /\ sent'[p[1]].id = sent'[q[1]].id =>
                p[1] = q[1]
<1>1. UNCHANGED <<sent, splitPacketId, lost>> /\ inTransit' = inTransit \ {part}
  BY DEF Arrives, senderVars
<1>2. part[1] \in DOMAIN sent /\ part \in AllParts(part[1])
  BY DEF TransportInv
<1>3. /\ \A p \in inTransit' \cup lost' :
           p[1] \in DOMAIN sent' /\ p \in AllParts(p[1])'
      /\ \A p, q \in inTransit' :
           IsSplit(p[1])' /\ IsSplit(q[1])' /\ sent'[p[1]].id = sent'[q[1]].id =>
             p[1] = q[1]
  BY <1>1 DEF TransportInv, AllParts, IsSplit
<1> QED BY <1>1, <1>2, <1>3

\* A message that was not split arrives as a whole.
LEMMA ReceiveWholeFacts ==
  ASSUME Numbered, TransportInv, NEW part \in inTransit, ReceiveWhole(part)
  PROVE  /\ TransportInv'
         /\ \A p : IsHeld(p)' <=> IsHeld(p)
         /\ AllParts(part[1]) = {part} /\ ~IsHeld(part)
         /\ IF Ignored(part) THEN Keep ELSE Push(Whole(part[1]))
<1> DEFINE k == part[1]
<1>1. /\ Arrives(part) /\ ~IsSplit(k) /\ UNCHANGED splitPacketChannelList
      /\ IF Ignored(part) THEN Keep ELSE Push(<<part>>)
  BY DEF ReceiveWhole
<1>2. /\ k \in DOMAIN sent /\ part \in AllParts(k)
      /\ UNCHANGED sent /\ inTransit' = inTransit \ {part}
      /\ \A p \in inTransit' \cup lost' :
           p[1] \in DOMAIN sent' /\ p \in AllParts(p[1])'
      /\ \A p, q \in inTransit' :
           IsSplit(p[1])' /\ IsSplit(q[1])' /\ sent'[p[1]].id = sent'[q[1]].id =>
             p[1] = q[1]
  BY <1>1, ArrivesFacts
<1>3. PartCount(sent[k].bits) = 1
  BY <1>1 DEF IsSplit, PartCount
<1>4. AllParts(k) = {<<k, i>> : i \in 0..(1 - 1)} /\ sent[k].bits \in Lengths
  BY <1>2, <1>3, MessageFacts
<1>5. AllParts(k) = {<<k, 0>>} /\ part = <<k, 0>>
  BY <1>2, <1>4
<1>6. Whole(k) = <<part>>
  <2>1. Datagrams(k) = 1
    BY <1>3, <1>4, PartsFacts DEF Datagrams
  <2>2. Whole(k) = [i \in 1..1 |-> <<k, i - 1>>]
    BY <2>1 DEF Whole
  <2>3. [i \in 1..1 |-> <<k, i - 1>>] = << <<k, 0>> >>
    OBVIOUS
  <2> QED BY <1>5, <2>2, <2>3
<1>7. ~IsHeld(part)
  <2> SUFFICES ASSUME NEW id \in DOMAIN splitPacketChannelList,
                      part \in splitPacketChannelList[id].parts
               PROVE  FALSE
    BY DEF IsHeld
  <2>1. PICK j \in DOMAIN sent : Collects(id, j)
    BY DEF TransportInv
  <2> QED BY <2>1 DEF Collects
<1>8. \A id \in DOMAIN splitPacketChannelList' : \A j :
        Collects(id, j) => Collects(id, j)'
  BY <1>1, <1>2, CollectsStays
<1>9. TransportInv'
  BY <1>1, <1>2, <1>8 DEF TransportInv
<1> QED BY <1>1, <1>5, <1>6, <1>7, <1>9 DEF IsHeld

\* Of what is collected only unreliable messages are thrown away.
LEMMA WithoutOldFacts ==
  ASSUME Numbered, TransportInv,
         NEW list, list = WithoutOld(splitPacketChannelList)
  PROVE  /\ DOMAIN list \subseteq DOMAIN splitPacketChannelList
         /\ \A id \in DOMAIN list : list[id] = splitPacketChannelList[id]
         /\ \A id \in DOMAIN splitPacketChannelList :
              \A p \in splitPacketChannelList[id].parts :
                IsReliable(Reliability(p[1])) => id \in DOMAIN list
<1>1. /\ DOMAIN list = {j \in DOMAIN splitPacketChannelList :
                          ~IsExpired(splitPacketChannelList[j])}
      /\ \A id \in DOMAIN list : list[id] = splitPacketChannelList[id]
  BY DEF WithoutOld
<1>2. ASSUME NEW id \in DOMAIN splitPacketChannelList,
             NEW p \in splitPacketChannelList[id].parts,
             IsReliable(Reliability(p[1]))
      PROVE  ~IsExpired(splitPacketChannelList[id])
  <2>1. PICK k \in DOMAIN sent : Collects(id, k)
    BY DEF TransportInv
  <2>2. /\ splitPacketChannelList[id].parts \in SUBSET AllParts(k)
        /\ splitPacketChannelList[id].parts # {} /\ IsSplit(k)
    BY <2>1 DEF Collects
  <2>3. sent[k].bits \in Lengths /\ p[1] = k
    BY <2>2, MessageFacts
  <2>4. FirstPart(splitPacketChannelList[id].parts)[1] = k
    BY <2>2, <2>3, CompleteFacts DEF AllParts
  <2> QED BY <1>2, <2>3, <2>4 DEF IsExpired
<1> QED BY <1>1, <1>2

\* A part finds only parts of its own message under its id, and is new there.
LEMMA InsertFacts ==
  ASSUME Numbered, TransportInv,
         NEW part \in inTransit, Arrives(part), IsSplit(part[1]),
         NEW list, list = WithoutOld(splitPacketChannelList),
         NEW id, id = sent[part[1]].id,
         NEW parts0, parts0 = IF id \in DOMAIN list THEN list[id].parts ELSE {}
  PROVE  /\ parts0 \subseteq AllParts(part[1]) /\ part \notin parts0
         /\ parts0 \cap inTransit = {}
         /\ \A p \in inTransit : IsSplit(p[1]) /\ sent[p[1]].id = id => p[1] = part[1]
         /\ id \in 0..(IdRange - 1)
         /\ DOMAIN Insert(list, part) = DOMAIN list \cup {id}
         /\ Insert(list, part)[id] = [old |-> FALSE, parts |-> parts0 \cup {part}]
         /\ \A j \in DOMAIN list : j # id => Insert(list, part)[j] = list[j]
<1> DEFINE k == part[1]
<1>1. k \in DOMAIN sent /\ part \in AllParts(k)
  BY ArrivesFacts
<1>2. /\ DOMAIN list \subseteq DOMAIN splitPacketChannelList
      /\ \A j \in DOMAIN list : list[j] = splitPacketChannelList[j]
  BY WithoutOldFacts
<1>3. parts0 \subseteq AllParts(k) /\ parts0 \cap inTransit = {}
  <2>1. CASE id \in DOMAIN list
    <3>1. PICK j \in DOMAIN sent : Collects(id, j)
      BY <1>2, <2>1 DEF TransportInv
    <3>2. j = k
      BY <3>1 DEF Collects
    <3> QED BY <1>2, <2>1, <3>1, <3>2 DEF Collects
  <2>2. CASE id \notin DOMAIN list
    BY <2>2
  <2> QED BY <2>1, <2>2
<1>4. part \notin parts0
  BY <1>3
<1>5. ~ \E p \in parts0 : p[2] = part[2]
  <2> SUFFICES ASSUME NEW p \in parts0, p[2] = part[2] PROVE FALSE
    OBVIOUS
  <2>1. p \in {<<k, i>> : i \in 0..(PartCount(sent[k].bits) - 1)}
        /\ part \in {<<k, i>> : i \in 0..(PartCount(sent[k].bits) - 1)}
    BY <1>1, <1>3, MessageFacts
  <2>2. p = part
    BY <2>1
  <2> QED BY <1>4, <2>2
<1>6. id \in 0..(IdRange - 1)
  BY <1>1, MessageFacts DEF Messages
<1>7. \A p \in inTransit : IsSplit(p[1]) /\ sent[p[1]].id = id => p[1] = k
  BY DEF TransportInv
<1>8. Insert(list, part) =
        [j \in DOMAIN list \cup {id} |->
           IF j # id THEN list[j]
           ELSE [old |-> FALSE,
                 parts |-> IF \E p \in parts0 : p[2] = part[2] THEN parts0
                                                 ELSE parts0 \cup {part}]]
  BY DEF Insert
<1>9. /\ DOMAIN Insert(list, part) = DOMAIN list \cup {id}
      /\ Insert(list, part)[id] = [old |-> FALSE, parts |-> parts0 \cup {part}]
      /\ \A j \in DOMAIN list : j # id => Insert(list, part)[j] = list[j]
  BY <1>5, <1>8
<1> QED BY <1>3, <1>4, <1>6, <1>7, <1>9

\* A part of a split message is dropped, or collected, or completes it.
LEMMA ReceivePartFacts ==
  ASSUME Numbered, TransportInv, NEW part \in inTransit, ReceivePart(part)
  PROVE  /\ TransportInv'
         /\ \A p : IsHeld(p)' => IsHeld(p) \/ p = part
         /\ \/ /\ Ignored(part) /\ Keep
               /\ \A p : IsHeld(p) /\ IsReliable(Reliability(p[1])) => IsHeld(p)'
            \/ /\ Keep /\ IsHeld(part)'
               /\ \A p : IsHeld(p) /\ IsReliable(Reliability(p[1])) => IsHeld(p)'
            \/ /\ ~Ignored(part) /\ Push(Whole(part[1]))
               /\ \A p \in AllParts(part[1]) : p \notin inTransit' /\ ~IsHeld(p)'
               /\ \A p : IsHeld(p) /\ IsReliable(Reliability(p[1]))
                           /\ p[1] # part[1] => IsHeld(p)'
<1> DEFINE k == part[1]
<1>1. PICK id, list, parts0, parts, collected :
        /\ id = sent[k].id
        /\ list = WithoutOld(splitPacketChannelList)
        /\ parts0 = (IF id \in DOMAIN list THEN list[id].parts ELSE {})
        /\ parts = parts0 \cup {part}
        /\ collected = Insert(list, part)
  OBVIOUS
<1>2. Arrives(part) /\ IsSplit(k)
  BY DEF ReceivePart
<1>3. /\ k \in DOMAIN sent /\ part \in AllParts(k)
      /\ UNCHANGED sent /\ inTransit' = inTransit \ {part}
      /\ \A p \in inTransit' \cup lost' :
           p[1] \in DOMAIN sent' /\ p \in AllParts(p[1])'
      /\ \A p, q \in inTransit' :
           IsSplit(p[1])' /\ IsSplit(q[1])' /\ sent'[p[1]].id = sent'[q[1]].id =>
             p[1] = q[1]
  BY <1>2, ArrivesFacts
<1>4. /\ DOMAIN list \subseteq DOMAIN splitPacketChannelList
      /\ \A j \in DOMAIN list : list[j] = splitPacketChannelList[j]
      /\ \A j \in DOMAIN splitPacketChannelList :
           \A p \in splitPacketChannelList[j].parts :
             IsReliable(Reliability(p[1])) => j \in DOMAIN list
  BY <1>1, WithoutOldFacts
<1>5. /\ parts0 \subseteq AllParts(k) /\ part \notin parts0
      /\ parts0 \cap inTransit = {}
      /\ \A p \in inTransit : IsSplit(p[1]) /\ sent[p[1]].id = id => p[1] = k
      /\ id \in 0..(IdRange - 1)
      /\ DOMAIN collected = DOMAIN list \cup {id}
      /\ collected[id] = [old |-> FALSE, parts |-> parts]
      /\ \A j \in DOMAIN list : j # id => collected[j] = list[j]
  <2> HIDE DEF k
  <2>1. /\ part[1] = k /\ id = sent[part[1]].id
        /\ list = WithoutOld(splitPacketChannelList)
        /\ parts0 = (IF id \in DOMAIN list THEN list[id].parts ELSE {})
        /\ Arrives(part) /\ IsSplit(part[1])
    BY <1>1, <1>2 DEF k
  <2> QED BY <1>1, <2>1, InsertFacts
<1>6. /\ DOMAIN collected = DOMAIN list \cup {id}
      /\ collected[id] = [old |-> FALSE, parts |-> parts]
      /\ collected[id].parts = parts
      /\ \A j \in DOMAIN list : j # id => collected[j] = list[j]
  BY <1>1, <1>5
<1>7. \/ Ignored(part) /\ Keep /\ splitPacketChannelList' = list
      \/ /\ ~Ignored(part) /\ IsComplete(parts) /\ Push(Build(parts))
         /\ splitPacketChannelList' =
              [j \in DOMAIN collected \ {id} |-> collected[j]]
      \/ ~IsComplete(parts) /\ Keep /\ splitPacketChannelList' = collected
  BY <1>1, <1>6 DEF ReceivePart
<1>8. /\ parts \in SUBSET AllParts(k) /\ parts # {}
      /\ IsComplete(parts) <=> parts = AllParts(k)
      /\ IsComplete(parts) => Build(parts) = Whole(k)
  <2>1. sent[k].bits \in Lengths
    BY <1>3, MessageFacts
  <2>2. parts \in SUBSET AllParts(k) /\ parts # {}
    BY <1>1, <1>3, <1>5
  <2> QED BY <1>2, <1>3, <2>1, <2>2, CompleteFacts DEF AllParts
<1>9. \A p \in AllParts(k) : p[1] = k
  BY <1>3, MessageFacts
<1>10. \A j \in DOMAIN splitPacketChannelList :
         /\ splitPacketChannelList[j] \in PacketChannels
         /\ j \in 0..(IdRange - 1)
         /\ \E i \in DOMAIN sent : Collects(j, i)
  BY DEF TransportInv
<1>11. \A j \in DOMAIN splitPacketChannelList \ {id} :
         \A p \in splitPacketChannelList[j].parts : p[1] # k
  <2> SUFFICES ASSUME NEW j \in DOMAIN splitPacketChannelList, j # id,
                      NEW p \in splitPacketChannelList[j].parts, p[1] = k
               PROVE  FALSE
    OBVIOUS
  <2>1. PICK i \in DOMAIN sent : Collects(j, i)
    BY <1>10
  <2>2. p[1] = i /\ sent[i].id = j
    BY <2>1, MessageFacts DEF Collects
  <2> QED BY <1>1, <2>2
<1>12. id \in DOMAIN list => parts0 = splitPacketChannelList[id].parts
  BY <1>1, <1>4
\* A channel that is still there is as it was, or has the part added.
<1>13. ASSUME NEW j \in DOMAIN splitPacketChannelList', j \in DOMAIN list,
              splitPacketChannelList'[j] = list[j]
       PROVE  /\ splitPacketChannelList'[j] \in PacketChannels
              /\ j \in 0..(IdRange - 1)
              /\ \E i \in DOMAIN sent' : Collects(j, i)'
  <2>1. PICK i \in DOMAIN sent : Collects(j, i)
    BY <1>4, <1>10, <1>13
  <2>2. Collects(j, i)'
    BY <1>3, <1>4, <1>13, <2>1, CollectsStays
  <2> QED BY <1>3, <1>4, <1>10, <1>13, <2>1, <2>2
<1>14. CASE Ignored(part) /\ Keep /\ splitPacketChannelList' = list
  <2>1. TransportInv'
    BY <1>3, <1>13, <1>14 DEF TransportInv
  <2>2. \A p : IsHeld(p)' => IsHeld(p)
    BY <1>4, <1>14 DEF IsHeld
  <2>3. \A p : IsHeld(p) /\ IsReliable(Reliability(p[1])) => IsHeld(p)'
    BY <1>4, <1>14 DEF IsHeld
  <2> QED BY <1>14, <2>1, <2>2, <2>3
<1>15. CASE ~IsComplete(parts) /\ Keep /\ splitPacketChannelList' = collected
  <2>1. Collects(id, k)'
    <3>1. parts \cap inTransit' = {} /\ parts # AllParts(k)
      BY <1>1, <1>3, <1>5, <1>8, <1>15
    <3>2. splitPacketChannelList'[id].parts = parts
      BY <1>6, <1>15
    <3>3. sent[k].id = id
      BY <1>1
    <3>4. \A p \in inTransit' : IsSplit(p[1])' /\ sent'[p[1]].id = id => p[1] = k
      BY <1>3, <1>5 DEF IsSplit
    <3> QED BY <1>2, <1>3, <1>8, <3>1, <3>2, <3>3, <3>4
            DEF Collects, AllParts, IsSplit
  <2>2. splitPacketChannelList'[id] \in PacketChannels
    <3>1. AllParts(k) \subseteq Nat \X Nat
      <4>1. /\ AllParts(k) = {<<k, i>> : i \in 0..(PartCount(sent[k].bits) - 1)}
            /\ k \in 1..MaxMessages /\ PartCount(sent[k].bits) \in Nat \ {0}
        BY <1>3, MessageFacts
      <4>2. k \in Nat
        BY <4>1
      <4> QED BY <4>1, <4>2
    <3>2. parts \in SUBSET (Nat \X Nat)
      BY <1>8, <3>1
    <3>3. splitPacketChannelList'[id] = [old |-> FALSE, parts |-> parts]
      BY <1>6, <1>15
    <3> QED BY <3>2, <3>3 DEF PacketChannels
  <2>3. TransportInv'
    <3> SUFFICES ASSUME NEW j \in DOMAIN collected
                 PROVE  /\ splitPacketChannelList'[j] \in PacketChannels
                        /\ j \in 0..(IdRange - 1)
                        /\ \E i \in DOMAIN sent' : Collects(j, i)'
      BY <1>3, <1>15 DEF TransportInv
    <3>1. CASE j = id
      BY <1>3, <1>5, <2>1, <2>2, <3>1
    <3>2. CASE j # id
      BY <1>6, <1>13, <1>15, <3>2
    <3> QED BY <3>1, <3>2
  <2>4. IsHeld(part)'
    BY <1>1, <1>6, <1>15 DEF IsHeld
  <2>5. ASSUME NEW p, IsHeld(p)'
        PROVE  IsHeld(p) \/ p = part
    <3>1. PICK j \in DOMAIN collected : p \in collected[j].parts
      BY <1>15, <2>5 DEF IsHeld
    <3>2. CASE j = id
      BY <1>1, <1>4, <1>6, <1>12, <3>1, <3>2 DEF IsHeld
    <3>3. CASE j # id
      BY <1>4, <1>6, <3>1, <3>3 DEF IsHeld
    <3> QED BY <3>2, <3>3
  <2>6. ASSUME NEW p, IsHeld(p), IsReliable(Reliability(p[1]))
        PROVE  IsHeld(p)'
    <3>1. PICK j \in DOMAIN splitPacketChannelList :
            p \in splitPacketChannelList[j].parts
      BY <2>6 DEF IsHeld
    <3>2. j \in DOMAIN list
      BY <1>4, <2>6, <3>1
    <3>3. p \in collected[j].parts /\ j \in DOMAIN collected
      BY <1>1, <1>4, <1>6, <1>12, <3>1, <3>2
    <3> QED BY <1>15, <3>3 DEF IsHeld
  <2> QED BY <1>15, <2>3, <2>4, <2>5, <2>6
<1>16. CASE /\ ~Ignored(part) /\ IsComplete(parts) /\ Push(Build(parts))
            /\ splitPacketChannelList' =
                 [j \in DOMAIN collected \ {id} |-> collected[j]]
  <2>1. /\ DOMAIN splitPacketChannelList' = DOMAIN list \ {id}
        /\ \A j \in DOMAIN list \ {id} : splitPacketChannelList'[j] = list[j]
    BY <1>6, <1>16
  <2>2. TransportInv'
    BY <1>3, <1>13, <2>1 DEF TransportInv
  <2>3. \A p : IsHeld(p)' => IsHeld(p) /\ p[1] # k
    BY <1>4, <1>11, <2>1 DEF IsHeld
  <2>4. \A p \in AllParts(k) : p \notin inTransit' /\ ~IsHeld(p)'
    BY <1>1, <1>3, <1>5, <1>8, <1>9, <1>16, <2>3
  <2>5. ASSUME NEW p, IsHeld(p), IsReliable(Reliability(p[1])), p[1] # k
        PROVE  IsHeld(p)'
    <3>1. PICK j \in DOMAIN splitPacketChannelList :
            p \in splitPacketChannelList[j].parts
      BY <2>5 DEF IsHeld
    <3>2. j \in DOMAIN list
      BY <1>4, <2>5, <3>1
    <3>3. j # id
      BY <1>5, <1>9, <1>12, <2>5, <3>1, <3>2
    <3> QED BY <1>4, <2>1, <3>1, <3>2, <3>3 DEF IsHeld
  <2> QED BY <1>8, <1>16, <2>2, <2>3, <2>4, <2>5
<1> QED BY <1>7, <1>14, <1>15, <1>16

-----------------------------------------------------------------------------
(* What the user gets, and what waits.                                     *)

Wholes == {Whole(k) : k \in DOMAIN sent}

\* The message at place i of the queue.
Got(i) == Head1(outputQueue[i])

IsWaiting(k) == \E w \in orderingList : Head1(w) = k

Taken(k) == IsDelivered(k) \/ IsWaiting(k)

\* The promise of PacketPriority.h, in terms of the messages themselves.
OutputInv ==
  /\ outputQueue \in Seq(Wholes)
  /\ \A i, j \in DOMAIN outputQueue : Got(i) = Got(j) => i = j
  /\ \A i \in DOMAIN outputQueue, k \in DOMAIN sent :
       k < Got(i) /\ sent[k].stream = sent[Got(i)].stream
         /\ IsOrdered(Reliability(k)) => \E j \in 1..(i - 1) : Got(j) = k
  /\ \A i, j \in DOMAIN outputQueue :
       i < j /\ IsSequenced(Reliability(Got(i))) /\ IsSequenced(Reliability(Got(j)))
         /\ Channel(Got(i)) = Channel(Got(j)) => Got(i) < Got(j)

\* What waits on an ordered channel is ahead of the index it waits for.
WaitInv ==
  /\ orderingList \subseteq Wholes /\ IsFiniteSet(orderingList)
  /\ \A w \in orderingList :
       /\ IsOrdered(Reliability(Head1(w)))
       /\ orderedReadIndex[Channel(Head1(w))] < OrderingIndex(Head1(w))

\* The index an ordered channel waits for tells what was delivered; that of a
\* sequenced channel is beyond all that was.
IndexInv ==
  /\ sequencedReadIndex \in [Channels -> 0..MaxMessages]
  /\ orderedReadIndex \in [Channels -> 0..MaxMessages]
  /\ \A s \in Streams : IsOrdered(s[1]) => orderedReadIndex[s[2]] <= NextIndex(s)
  /\ \A k \in DOMAIN sent : IsOrdered(Reliability(k)) =>
       (IsDelivered(k) <=> OrderingIndex(k) < orderedReadIndex[Channel(k)])
  /\ \A k \in DOMAIN sent : IsSequenced(Reliability(k)) /\ IsDelivered(k) =>
       OrderingIndex(k) < sequencedReadIndex[Channel(k)]

QueueInv == OutputInv /\ WaitInv /\ IndexInv

\* A whole message is known by the first of its parts.
LEMMA WholesFacts ==
  ASSUME Numbered, NEW w \in Wholes
  PROVE  Head1(w) \in DOMAIN sent /\ w = Whole(Head1(w)) /\ IsMessage(w)
<1>1. PICK k \in DOMAIN sent : w = Whole(k)
  BY DEF Wholes
<1>2. Head1(Whole(k)) = k /\ IsMessage(Whole(k))
  BY MessageFacts, WholeIsMessage
<1> QED BY <1>1, <1>2

\* A number tells a message among those that are counted together.
LEMMA IndexFacts ==
  ASSUME Numbered, NEW k \in DOMAIN sent,
         IsOrdered(Reliability(k)) \/ IsSequenced(Reliability(k))
  PROVE  /\ OrderingIndex(k) < NextIndex(sent[k].stream)
         /\ NextIndex(sent[k].stream) \in 0..MaxMessages
         /\ OrderingIndex(k) \in Nat
         /\ \A j \in DOMAIN sent :
              /\ Channel(j) = Channel(k)
              /\ IsOrdered(Reliability(j)) <=> IsOrdered(Reliability(k))
              /\ IsSequenced(Reliability(j)) <=> IsSequenced(Reliability(k))
              => /\ j < k <=> OrderingIndex(j) < OrderingIndex(k)
                 /\ OrderingIndex(j) = OrderingIndex(k) => j = k
<1> DEFINE s == sent[k].stream
<1>1. s \in Streams /\ OrderingIndex(k) \in Nat
  BY MessageFacts
<1>2. k \in Class(s)
  BY DEF Class, Alike, Reliability
<1>3. /\ sent \in Seq(Messages) /\ Len(sent) <= MaxMessages
      /\ \A n \in Nat : n < NextIndex(s) <=>
                          \E j \in Class(s) : OrderingIndex(j) = n
      /\ \A i, j \in Class(s) : i < j => OrderingIndex(i) < OrderingIndex(j)
  BY <1>1 DEF Numbered
<1>4. NextIndex(s) \in 0..MaxMessages
  BY <1>3, ClassFacts, SplitAssumption
<1>5. ASSUME NEW j \in DOMAIN sent, Channel(j) = Channel(k),
             IsOrdered(Reliability(j)) <=> IsOrdered(Reliability(k)),
             IsSequenced(Reliability(j)) <=> IsSequenced(Reliability(k))
      PROVE  /\ j < k <=> OrderingIndex(j) < OrderingIndex(k)
             /\ OrderingIndex(j) = OrderingIndex(k) => j = k
  <2>1. j \in Class(s)
    BY <1>5 DEF Class, Alike, Reliability, Channel
  <2>2. j \in Nat /\ k \in Nat /\ OrderingIndex(j) \in Nat
    BY MessageFacts
  <2>3. /\ j < k => OrderingIndex(j) < OrderingIndex(k)
        /\ k < j => OrderingIndex(k) < OrderingIndex(j)
    BY <1>2, <1>3, <2>1
  <2> HIDE DEF s
  <2> QED BY <1>1, <2>2, <2>3
<1> QED BY <1>1, <1>2, <1>3, <1>4, <1>5

\* All ordered streams of a channel count together.
LEMMA NextIndexFacts ==
  ASSUME Numbered, NEW s, NEW t, IsOrdered(s[1]), IsOrdered(t[1]), s[2] = t[2]
  PROVE  NextIndex(s) = NextIndex(t)
<1>1. sent \in Seq(Messages)
  BY DEF Numbered
<1>2. \A u : Alike(u, s) <=> Alike(u, t)
  BY KindFacts DEF Alike
<1>3. Class(s) = Class(t)
  BY <1>2 DEF Class
<1> QED BY <1>1, <1>3, ClassFacts

\* What is appended to the queue keeps the promise when each message of the
\* batch is new and neither comes before one it has to follow nor after one
\* it has to precede.
LEMMA QueueExtends ==
  ASSUME Numbered, OutputInv, UNCHANGED sent,
         NEW batch \in Seq(Wholes), outputQueue' = outputQueue \o batch,
         \A i \in DOMAIN batch : ~IsDelivered(Head1(batch[i])),
         \A i, j \in DOMAIN batch : Head1(batch[i]) = Head1(batch[j]) => i = j,
         \A i \in DOMAIN batch, k \in DOMAIN sent :
           k < Head1(batch[i]) /\ sent[k].stream = sent[Head1(batch[i])].stream
             /\ IsOrdered(Reliability(k)) =>
               IsDelivered(k) \/ \E j \in 1..(i - 1) : Head1(batch[j]) = k,
         \A i \in DOMAIN batch : IsSequenced(Reliability(Head1(batch[i]))) =>
           /\ batch = <<batch[i]>>
           /\ \A k \in DOMAIN sent :
                IsSequenced(Reliability(k)) /\ IsDelivered(k)
                  /\ Channel(k) = Channel(Head1(batch[i])) => k < Head1(batch[i])
  PROVE  /\ OutputInv'
         /\ \A k : IsDelivered(k)' <=>
                     IsDelivered(k) \/ \E i \in DOMAIN batch : Head1(batch[i]) = k
         /\ Len(outputQueue') = Len(outputQueue) + Len(batch)
         /\ SubSeq(outputQueue', 1, Len(outputQueue)) = outputQueue
<1>0. PICK m \in Nat, b \in Nat : m = Len(outputQueue) /\ b = Len(batch)
  <2>1. outputQueue \in Seq(Wholes)
    BY DEF OutputInv
  <2>2. Len(outputQueue) \in Nat /\ Len(batch) \in Nat
    BY <2>1
  <2> QED BY <2>2
<1>1. /\ outputQueue \in Seq(Wholes) /\ m \in Nat /\ b \in Nat
      /\ DOMAIN outputQueue = 1..m /\ DOMAIN batch = 1..b
  BY <1>0 DEF OutputInv
<1>2. Wholes' = Wholes
  BY DEF Wholes, Whole, Datagrams
<1>3. /\ outputQueue' \in Seq(Wholes) /\ Len(outputQueue') = m + b
      /\ DOMAIN outputQueue' = 1..(m + b)
      /\ \A i \in 1..m : outputQueue'[i] = outputQueue[i]
      /\ \A i \in 1..b : outputQueue'[m + i] = batch[i]
  <2>1. /\ outputQueue' \in Seq(Wholes) /\ Len(outputQueue') = m + b
        /\ DOMAIN outputQueue' = 1..(m + b)
    BY <1>0, <1>1
  <2>2. \A i \in 1..(m + b) :
          outputQueue'[i] = IF i <= m THEN outputQueue[i] ELSE batch[i - m]
    BY <1>0, <1>1
  <2>3. \A i \in 1..m : i \in 1..(m + b) /\ i <= m
    BY <1>1
  <2>4. \A i \in 1..b : m + i \in 1..(m + b) /\ ~(m + i <= m) /\ (m + i) - m = i
    BY <1>1
  <2> QED BY <2>1, <2>2, <2>3, <2>4
<1>4. \A i \in 1..(m + b) :
        \/ i \in 1..m /\ Got(i)' = Got(i)
        \/ \E j \in 1..b : i = m + j /\ Got(i)' = Head1(batch[j])
  <2> SUFFICES ASSUME NEW i \in 1..(m + b), i \notin 1..m
               PROVE  \E j \in 1..b : i = m + j /\ Got(i)' = Head1(batch[j])
    BY <1>3 DEF Got
  <2>1. i - m \in 1..b /\ i = m + (i - m)
    BY <1>1
  <2>2. outputQueue'[m + (i - m)] = batch[i - m]
    BY <1>3, <2>1
  <2> QED BY <2>1, <2>2 DEF Got
<1>5. /\ \A i \in 1..m : i \in 1..(m + b) /\ Got(i)' = Got(i)
      /\ \A j \in 1..b : m + j \in 1..(m + b) /\ Got(m + j)' = Head1(batch[j])
  <2>1. \A i \in 1..m : i \in 1..(m + b)
    BY <1>1
  <2>2. \A j \in 1..b : m + j \in 1..(m + b)
    BY <1>1
  <2> QED BY <1>3, <2>1, <2>2 DEF Got
<1>6. \A i \in 1..m : Got(i) \in DOMAIN sent /\ IsDelivered(Got(i))
  BY <1>1, WholesFacts DEF Got, IsDelivered
<1>7. \A j \in 1..b : Head1(batch[j]) \in DOMAIN sent
  BY <1>1, WholesFacts
<1>8. \A k : IsDelivered(k) <=> \E i \in 1..m : Got(i) = k
  BY <1>1 DEF IsDelivered, Got
<1>9. \A k : IsDelivered(k)' <=> \E i \in 1..(m + b) : Got(i)' = k
  BY <1>3 DEF IsDelivered, Got
<1>10. \A k : IsDelivered(k)' <=>
                IsDelivered(k) \/ \E i \in DOMAIN batch : Head1(batch[i]) = k
  <2> SUFFICES ASSUME NEW k
               PROVE  (\E i \in 1..(m + b) : Got(i)' = k) <=>
                        \/ \E i \in 1..m : Got(i) = k
                        \/ \E i \in 1..b : Head1(batch[i]) = k
    BY <1>1, <1>8, <1>9
  <2>1. ASSUME NEW i \in 1..(m + b), Got(i)' = k
        PROVE  \/ \E l \in 1..m : Got(l) = k
               \/ \E l \in 1..b : Head1(batch[l]) = k
    BY <1>4, <2>1
  <2>2. ASSUME NEW i \in 1..m, Got(i) = k
        PROVE  \E l \in 1..(m + b) : Got(l)' = k
    BY <1>5, <2>2
  <2>3. ASSUME NEW i \in 1..b, Head1(batch[i]) = k
        PROVE  \E l \in 1..(m + b) : Got(l)' = k
    <3>1. m + i \in 1..(m + b) /\ Got(m + i)' = k
      BY <1>5, <2>3
    <3> QED BY <3>1
  <2> QED BY <2>1, <2>2, <2>3
<1>11. \A k : Reliability(k)' = Reliability(k) /\ Channel(k)' = Channel(k)
  BY DEF Reliability, Channel
<1>12. ASSUME NEW i \in 1..(m + b), NEW j \in 1..(m + b), Got(i)' = Got(j)'
       PROVE  i = j
  <2>1. CASE i \in 1..m /\ j \in 1..m
    BY <1>1, <1>5, <1>12, <2>1 DEF OutputInv
  <2>2. ASSUME NEW l \in 1..b, NEW p \in 1..b, i = m + l, j = m + p,
               Got(i)' = Head1(batch[l]), Got(j)' = Head1(batch[p])
        PROVE  i = j
    BY <1>1, <1>12, <2>2
  <2>3. ASSUME NEW l \in 1..b, NEW p \in 1..m, NEW q \in 1..(m + b),
               Got(q)' = Head1(batch[l])
        PROVE  Got(p)' # Got(q)'
    BY <1>1, <1>5, <1>6, <2>3
  <2> QED BY <1>4, <1>12, <2>1, <2>2, <2>3
<1>13. ASSUME NEW i \in 1..(m + b), NEW k \in DOMAIN sent, k < Got(i)',
              sent[k].stream = sent[Got(i)'].stream, IsOrdered(Reliability(k))
       PROVE  \E j \in 1..(i - 1) : Got(j)' = k
  <2>1. CASE i \in 1..m /\ Got(i)' = Got(i)
    <3>1. PICK j \in 1..(i - 1) : Got(j) = k
      BY <1>1, <1>13, <2>1 DEF OutputInv
    <3>2. j \in 1..m
      BY <1>1, <2>1, <3>1
    <3> QED BY <1>5, <3>1, <3>2
  <2>2. ASSUME NEW l \in 1..b, i = m + l, Got(i)' = Head1(batch[l])
        PROVE  \E j \in 1..(i - 1) : Got(j)' = k
    <3>1. IsDelivered(k) \/ \E j \in 1..(l - 1) : Head1(batch[j]) = k
      BY <1>1, <1>13, <2>2
    <3>2. CASE IsDelivered(k)
      <4>1. PICK j \in 1..m : Got(j) = k
        BY <1>8, <3>2
      <4>2. j \in 1..(i - 1)
        BY <1>1, <2>2
      <4> QED BY <1>5, <4>1, <4>2
    <3>3. ASSUME NEW j \in 1..(l - 1), Head1(batch[j]) = k
          PROVE  \E jj \in 1..(i - 1) : Got(jj)' = k
      <4>1. j \in 1..b /\ m + j \in 1..(i - 1)
        BY <1>1, <2>2
      <4>2. Got(m + j)' = k
        BY <1>5, <3>3, <4>1
      <4> QED BY <4>1, <4>2
    <3> QED BY <3>1, <3>2, <3>3
  <2> QED BY <1>4, <2>1, <2>2
<1>14. ASSUME NEW i \in 1..(m + b), NEW j \in 1..(m + b), i < j,
              IsSequenced(Reliability(Got(i)')), IsSequenced(Reliability(Got(j)')),
              Channel(Got(i)') = Channel(Got(j)')
       PROVE  Got(i)' < Got(j)'
  <2>1. CASE j \in 1..m /\ Got(j)' = Got(j)
    <3>1. i \in 1..m
      BY <1>1, <1>14, <2>1
    <3> QED BY <1>1, <1>5, <1>14, <2>1, <3>1 DEF OutputInv
  <2>2. ASSUME NEW l \in 1..b, j = m + l, Got(j)' = Head1(batch[l])
        PROVE  Got(i)' < Got(j)'
    <3>1. /\ batch = <<batch[l]>>
          /\ \A k \in DOMAIN sent :
               IsSequenced(Reliability(k)) /\ IsDelivered(k)
                 /\ Channel(k) = Channel(Head1(batch[l])) => k < Head1(batch[l])
      BY <1>1, <1>14, <2>2
    <3>2. b = 1
      BY <1>0, <3>1
    <3>3. i \in 1..m
      BY <1>1, <1>14, <2>2, <3>2
    <3> QED BY <1>5, <1>6, <1>14, <2>2, <3>1, <3>3
  <2> QED BY <1>4, <2>1, <2>2
<1>15. OutputInv'
  BY <1>2, <1>3, <1>11, <1>12, <1>13, <1>14 DEF OutputInv
<1>16. SubSeq(outputQueue', 1, m) = outputQueue
  BY <1>1, <1>3
<1> QED BY <1>0, <1>3, <1>10, <1>15, <1>16

\* A message that is not ordered is appended when it is whole.
LEMMA AppendOne ==
  ASSUME Numbered, QueueInv, UNCHANGED sent,
         NEW k \in DOMAIN sent, ~IsDelivered(k), ~IsOrdered(Reliability(k)),
         IsSequenced(Reliability(k)) => ~IsOlder(<<k, 0>>),
         outputQueue' = Append(outputQueue, Whole(k))
  PROVE  /\ OutputInv'
         /\ \A j : IsDelivered(j)' <=> IsDelivered(j) \/ j = k
         /\ Len(outputQueue') > Len(outputQueue)
         /\ SubSeq(outputQueue', 1, Len(outputQueue)) = outputQueue
<1>1. PICK batch : batch = <<Whole(k)>>
  OBVIOUS
<1>2. /\ Whole(k) \in Wholes /\ Head1(Whole(k)) = k
      /\ outputQueue \in Seq(Wholes) /\ OutputInv
  BY MessageFacts, WholeIsMessage DEF Wholes, QueueInv, OutputInv
<1>3. /\ batch \in Seq(Wholes) /\ DOMAIN batch = {1} /\ Len(batch) = 1
      /\ batch = <<batch[1]>> /\ Head1(batch[1]) = k
      /\ outputQueue' = outputQueue \o batch
  BY <1>1, <1>2
<1>4. \A j \in DOMAIN sent :
        j < k /\ sent[j].stream = sent[k].stream /\ IsOrdered(Reliability(j)) => FALSE
  BY DEF Reliability
<1>5. ASSUME IsSequenced(Reliability(k)), NEW j \in DOMAIN sent,
             IsSequenced(Reliability(j)), IsDelivered(j), Channel(j) = Channel(k)
      PROVE  j < k
  <2>1. OrderingIndex(j) < sequencedReadIndex[Channel(k)]
    BY <1>5 DEF QueueInv, IndexInv
  <2>2. ~(OrderingIndex(k) < sequencedReadIndex[Channel(k)])
    BY <1>5 DEF IsOlder
  <2>3. /\ sequencedReadIndex[Channel(k)] \in Nat
        /\ OrderingIndex(j) \in Nat /\ OrderingIndex(k) \in Nat
    BY MessageFacts, SplitAssumption DEF QueueInv, IndexInv
  <2>4. OrderingIndex(j) < OrderingIndex(k)
    BY <2>1, <2>2, <2>3
  <2>5. ~IsOrdered(Reliability(j))
    BY <1>5, KindFacts
  <2> QED BY <1>5, <2>4, <2>5, IndexFacts
<1>6. /\ \A i \in DOMAIN batch : ~IsDelivered(Head1(batch[i]))
      /\ \A i, j \in DOMAIN batch : Head1(batch[i]) = Head1(batch[j]) => i = j
      /\ \A i \in DOMAIN batch, j \in DOMAIN sent :
           j < Head1(batch[i]) /\ sent[j].stream = sent[Head1(batch[i])].stream
             /\ IsOrdered(Reliability(j)) =>
               IsDelivered(j) \/ \E l \in 1..(i - 1) : Head1(batch[l]) = j
      /\ \A i \in DOMAIN batch : IsSequenced(Reliability(Head1(batch[i]))) =>
           /\ batch = <<batch[i]>>
           /\ \A j \in DOMAIN sent :
                IsSequenced(Reliability(j)) /\ IsDelivered(j)
                  /\ Channel(j) = Channel(Head1(batch[i])) => j < Head1(batch[i])
  BY <1>3, <1>4, <1>5
<1>7. /\ OutputInv'
      /\ \A j : IsDelivered(j)' <=>
                  IsDelivered(j) \/ \E i \in DOMAIN batch : Head1(batch[i]) = j
      /\ Len(outputQueue') = Len(outputQueue) + Len(batch)
      /\ SubSeq(outputQueue', 1, Len(outputQueue)) = outputQueue
  BY <1>2, <1>3, <1>6, QueueExtends
<1>8. Len(outputQueue) \in Nat
  BY <1>2
<1> QED BY <1>3, <1>7, <1>8

\* What it means that message k was handed to the user, or has to wait.
PushedWell(k) ==
  /\ QueueInv'
  /\ \A j : Taken(j)' <=> Taken(j) \/ j = k
  /\ \A c \in Channels : sequencedReadIndex[c] <= sequencedReadIndex'[c]
  /\ \/ UNCHANGED outputQueue
     \/ /\ Len(outputQueue') > Len(outputQueue)
        /\ SubSeq(outputQueue', 1, Len(outputQueue)) = outputQueue

\* The names of the parts of a message do not change after it was sent.
LEMMA SentStays ==
  ASSUME UNCHANGED sent
  PROVE  /\ \A k : /\ Reliability(k)' = Reliability(k) /\ Channel(k)' = Channel(k)
                   /\ OrderingIndex(k)' = OrderingIndex(k)
         /\ \A s : NextIndex(s)' = NextIndex(s)
         /\ Wholes' = Wholes
BY DEF Reliability, Channel, OrderingIndex, NextIndex, Wholes, Whole, Datagrams

\* A message that is neither ordered nor sequenced.
LEMMA PushOther ==
  ASSUME Numbered, QueueInv, UNCHANGED sent, NEW k \in DOMAIN sent, ~Taken(k),
         ~IsOrdered(Reliability(k)), ~IsSequenced(Reliability(k)), Push(Whole(k))
  PROVE  PushedWell(k)
<1>1. Head1(Whole(k)) = k
  BY MessageFacts, WholeIsMessage
<1>2. /\ outputQueue' = Append(outputQueue, Whole(k))
      /\ UNCHANGED <<sequencedReadIndex, orderedReadIndex, orderingList>>
  BY <1>1 DEF Push
<1>3. /\ OutputInv'
      /\ \A j : IsDelivered(j)' <=> IsDelivered(j) \/ j = k
      /\ Len(outputQueue') > Len(outputQueue)
      /\ SubSeq(outputQueue', 1, Len(outputQueue)) = outputQueue
  BY <1>2, AppendOne DEF Taken
<1>4. WaitInv'
  BY <1>2, SentStays DEF QueueInv, WaitInv
<1>5. IndexInv'
  BY <1>2, <1>3, SentStays DEF QueueInv, IndexInv
<1>6. \A j : Taken(j)' <=> Taken(j) \/ j = k
  BY <1>2, <1>3 DEF Taken, IsWaiting
<1>7. \A c \in Channels : sequencedReadIndex[c] <= sequencedReadIndex'[c]
  BY <1>2, SplitAssumption DEF QueueInv, IndexInv
<1> QED BY <1>3, <1>4, <1>5, <1>6, <1>7 DEF PushedWell, QueueInv

\* A sequenced message that is not older than the last one taken.
LEMMA PushSequencedFacts ==
  ASSUME Numbered, QueueInv, UNCHANGED sent, NEW k \in DOMAIN sent, ~Taken(k),
         IsSequenced(Reliability(k)), ~IsOlder(<<k, 0>>), Push(Whole(k))
  PROVE  PushedWell(k)
<1>1. Head1(Whole(k)) = k /\ ~IsOrdered(Reliability(k)) /\ Channel(k) \in Channels
  BY MessageFacts, WholeIsMessage, KindFacts
<1>2. /\ outputQueue' = Append(outputQueue, Whole(k))
      /\ sequencedReadIndex' =
           [sequencedReadIndex EXCEPT ![Channel(k)] = OrderingIndex(k) + 1]
      /\ UNCHANGED <<orderedReadIndex, orderingList>>
  BY <1>1 DEF Push, PushSequenced
<1>3. /\ OutputInv'
      /\ \A j : IsDelivered(j)' <=> IsDelivered(j) \/ j = k
      /\ Len(outputQueue') > Len(outputQueue)
      /\ SubSeq(outputQueue', 1, Len(outputQueue)) = outputQueue
  BY <1>1, <1>2, AppendOne DEF Taken
<1>4. WaitInv'
  BY <1>2, SentStays DEF QueueInv, WaitInv
<1>5. /\ OrderingIndex(k) \in Nat /\ OrderingIndex(k) + 1 \in 0..MaxMessages
      /\ ~(OrderingIndex(k) < sequencedReadIndex[Channel(k)])
      /\ sequencedReadIndex \in [Channels -> 0..MaxMessages]
  <2>1. /\ OrderingIndex(k) < NextIndex(sent[k].stream)
        /\ NextIndex(sent[k].stream) \in 0..MaxMessages
        /\ OrderingIndex(k) \in Nat
    BY IndexFacts
  <2> QED BY <2>1, SplitAssumption DEF QueueInv, IndexInv, IsOlder
<1>6. /\ sequencedReadIndex' \in [Channels -> 0..MaxMessages]
      /\ sequencedReadIndex'[Channel(k)] = OrderingIndex(k) + 1
      /\ \A c \in Channels : sequencedReadIndex[c] <= sequencedReadIndex'[c]
  <2>1. /\ sequencedReadIndex' \in [Channels -> 0..MaxMessages]
        /\ sequencedReadIndex'[Channel(k)] = OrderingIndex(k) + 1
        /\ \A c \in Channels \ {Channel(k)} :
             sequencedReadIndex'[c] = sequencedReadIndex[c]
    BY <1>1, <1>2, <1>5
  <2>2. \A c \in Channels : sequencedReadIndex[c] \in Nat
    BY <1>5, SplitAssumption
  <2>3. sequencedReadIndex[Channel(k)] <= OrderingIndex(k) + 1
    BY <1>1, <1>5, <2>2
  <2> QED BY <2>1, <2>2, <2>3
<1>7. ASSUME NEW j \in DOMAIN sent, IsSequenced(Reliability(j)), IsDelivered(j)'
      PROVE  OrderingIndex(j) < sequencedReadIndex'[Channel(j)]
  <2>1. CASE j = k
    BY <1>5, <1>6, <2>1
  <2>2. CASE j # k
    <3>1. OrderingIndex(j) < sequencedReadIndex[Channel(j)]
      BY <1>3, <1>7, <2>2 DEF QueueInv, IndexInv
    <3>2. Channel(j) \in Channels /\ OrderingIndex(j) \in Nat
      BY MessageFacts
    <3>3. /\ sequencedReadIndex[Channel(j)] \in Nat
          /\ sequencedReadIndex'[Channel(j)] \in Nat
          /\ sequencedReadIndex[Channel(j)] <= sequencedReadIndex'[Channel(j)]
      BY <1>5, <1>6, <3>2, SplitAssumption
    <3> QED BY <3>1, <3>2, <3>3
  <2> QED BY <2>1, <2>2
<1>8. IndexInv'
  <2>1. ASSUME NEW j \in DOMAIN sent, IsOrdered(Reliability(j))
        PROVE  IsDelivered(j)' <=> OrderingIndex(j) < orderedReadIndex[Channel(j)]
    BY <1>1, <1>3, <2>1 DEF QueueInv, IndexInv
  <2> QED BY <1>2, <1>6, <1>7, <2>1, SentStays DEF QueueInv, IndexInv
<1>9. \A j : Taken(j)' <=> Taken(j) \/ j = k
  BY <1>2, <1>3 DEF Taken, IsWaiting
<1> QED BY <1>3, <1>4, <1>6, <1>8, <1>9 DEF PushedWell, QueueInv

\* The messages that wait end somewhere, so there is a first gap.
LEMMA FirstGapFacts ==
  ASSUME WaitInv, NEW c, NEW lo \in Nat
  PROVE  /\ FirstGap(c, lo) \in Nat /\ lo <= FirstGap(c, lo)
         /\ \A i \in lo..(FirstGap(c, lo) - 1) : Waiting(c, i) # {}
         /\ Waiting(c, FirstGap(c, lo)) = {}
<1>1. PICK N \in Nat : N = Cardinality(orderingList)
  BY FS_CardinalityType DEF WaitInv
<1> DEFINE I == lo..(lo + N)
           f == [m \in I |-> CHOOSE w \in Waiting(c, m) : TRUE]
           T == {m \in I : Waiting(c, m) = {}}
<1>2. T # {}
  <2> SUFFICES ASSUME \A m \in I : Waiting(c, m) # {} PROVE FALSE
    OBVIOUS
  <2>1. \A m \in I : f[m] \in orderingList /\ OrderingIndex(Head1(f[m])) = m
    BY DEF Waiting
  <2>2. IsFiniteSet(I) /\ Cardinality(I) = N + 1
    <3>1. lo \in Int /\ lo + N \in Int
      BY <1>1
    <3>2. IsFiniteSet(I) /\ Cardinality(I) = IF lo > lo + N THEN 0 ELSE (lo + N) - lo + 1
      BY <3>1, FS_Interval
    <3> QED BY <3>2
  <2> HIDE DEF I
  <2>3. f \in [I -> orderingList]
    BY <2>1
  <2> HIDE DEF f
  <2>4. Cardinality(orderingList) < Cardinality(I) /\ IsFiniteSet(orderingList)
    BY <1>1, <2>2 DEF WaitInv
  <2>5. \E x, y \in I : x # y /\ f[x] = f[y]
    BY <2>2, <2>3, <2>4, FS_PigeonHole
  <2> QED BY <2>1, <2>5
<1>3. PICK g \in T : \A m \in T : g <= m
  <2>1. T \in SUBSET Nat
    OBVIOUS
  <2> HIDE DEF T
  <2> QED BY <1>2, <2>1, LeastNat
<1>4. \A i \in lo..(g - 1) : Waiting(c, i) # {}
  <2> SUFFICES ASSUME NEW i \in lo..(g - 1), Waiting(c, i) = {} PROVE FALSE
    OBVIOUS
  <2>1. i \in I /\ i < g
    OBVIOUS
  <2>2. g <= i
    BY <1>3, <2>1
  <2> QED BY <2>1, <2>2
<1>5. \E m \in lo..(lo + Cardinality(orderingList)) :
         /\ \A i \in lo..(m - 1) : Waiting(c, i) # {}
         /\ Waiting(c, m) = {}
  BY <1>1, <1>3, <1>4
<1>6. /\ FirstGap(c, lo) \in lo..(lo + Cardinality(orderingList))
      /\ \A i \in lo..(FirstGap(c, lo) - 1) : Waiting(c, i) # {}
      /\ Waiting(c, FirstGap(c, lo)) = {}
  BY <1>5 DEF FirstGap
<1> QED BY <1>1, <1>6

\* What waits with an index of a channel is the one message with that index.
LEMMA WaitingFacts ==
  ASSUME Numbered, WaitInv, NEW c, NEW n, NEW w \in Waiting(c, n)
  PROVE  /\ w \in orderingList /\ w \in Wholes /\ w = Whole(Head1(w))
         /\ Head1(w) \in DOMAIN sent /\ IsOrdered(Reliability(Head1(w)))
         /\ Channel(Head1(w)) = c /\ OrderingIndex(Head1(w)) = n
         /\ \A v \in Waiting(c, n) : v = w
<1>1. \A v \in Waiting(c, n) :
        /\ v \in orderingList /\ v \in Wholes /\ v = Whole(Head1(v))
        /\ Head1(v) \in DOMAIN sent /\ IsOrdered(Reliability(Head1(v)))
        /\ Channel(Head1(v)) = c /\ OrderingIndex(Head1(v)) = n
  BY WholesFacts DEF Waiting, WaitInv
<1>2. ASSUME NEW v \in Waiting(c, n)
      PROVE  v = w
  <2>1. Head1(v) = Head1(w)
    BY <1>1, KindFacts, IndexFacts
  <2> QED BY <1>1, <2>1
<1> QED BY <1>1, <1>2

\* An ordered message that is ahead of what its channel waits for.
LEMMA PushAhead ==
  ASSUME Numbered, QueueInv, UNCHANGED sent, NEW k \in DOMAIN sent, ~Taken(k),
         IsOrdered(Reliability(k)), Push(Whole(k)),
         OrderingIndex(k) # orderedReadIndex[Channel(k)]
  PROVE  PushedWell(k)
<1>1. /\ Head1(Whole(k)) = k /\ ~IsSequenced(Reliability(k))
      /\ Channel(k) \in Channels /\ OrderingIndex(k) \in Nat
  BY MessageFacts, WholeIsMessage, KindFacts
<1>2. /\ orderingList' = orderingList \cup {Whole(k)}
      /\ UNCHANGED <<sequencedReadIndex, orderedReadIndex, outputQueue>>
  BY <1>1 DEF Push, PushOrdered
<1>3. orderedReadIndex[Channel(k)] < OrderingIndex(k)
  <2>1. ~(OrderingIndex(k) < orderedReadIndex[Channel(k)])
    BY DEF Taken, QueueInv, IndexInv
  <2>2. orderedReadIndex[Channel(k)] \in Nat
    BY <1>1, SplitAssumption DEF QueueInv, IndexInv
  <2> QED BY <1>1, <2>1, <2>2
<1>4. \A j : IsDelivered(j)' <=> IsDelivered(j)
  BY <1>2 DEF IsDelivered
<1>5. OutputInv'
  <2>1. \A i : Got(i)' = Got(i)
    BY <1>2 DEF Got
  <2> QED BY <1>2, <2>1, SentStays DEF QueueInv, OutputInv
<1>6. WaitInv'
  <2>1. Whole(k) \in Wholes
    BY DEF Wholes
  <2>2. IsFiniteSet(orderingList')
    BY <1>2, FS_AddElement DEF QueueInv, WaitInv
  <2> QED BY <1>1, <1>2, <1>3, <2>1, <2>2, SentStays DEF QueueInv, WaitInv
<1>7. IndexInv'
  BY <1>2, <1>4, SentStays DEF QueueInv, IndexInv
<1>8. \A j : Taken(j)' <=> Taken(j) \/ j = k
  BY <1>1, <1>2, <1>4 DEF Taken, IsWaiting
<1>9. \A c \in Channels : sequencedReadIndex[c] <= sequencedReadIndex'[c]
  BY <1>2, SplitAssumption DEF QueueInv, IndexInv
<1> QED BY <1>2, <1>5, <1>6, <1>7, <1>8, <1>9 DEF PushedWell, QueueInv

\* The messages that a whole message, the one its channel waits for, releases.
Releases(content, c, n, gap, released) ==
  /\ gap = FirstGap(c, n + 1)
  /\ released = [i \in 1..(gap - n - 1) |-> CHOOSE w \in Waiting(c, n + i) : TRUE]
  /\ IF n = orderedReadIndex[c]
     THEN /\ outputQueue' = outputQueue \o <<content>> \o released
          /\ orderedReadIndex' = [orderedReadIndex EXCEPT ![c] = gap]
          /\ orderingList' = orderingList \ {released[i] : i \in DOMAIN released}
     ELSE /\ orderingList' = orderingList \cup {content}
          /\ UNCHANGED <<orderedReadIndex, outputQueue>>
  /\ UNCHANGED sequencedReadIndex

\* The messages that are handed on together: those of ordered channel c with
\* the numbers from n up to the first that is missing.
IsBatch(k, c, n, batch, gap) ==
  /\ n \in Nat /\ n < gap /\ Waiting(c, gap) = {}
  /\ outputQueue' = outputQueue \o batch
  /\ Len(batch) = gap - n /\ Head1(batch[1]) = k
  /\ \A i \in 1..(gap - n) :
       /\ Head1(batch[i]) \in DOMAIN sent
       /\ IsOrdered(Reliability(Head1(batch[i])))
       /\ Channel(Head1(batch[i])) = c
       /\ OrderingIndex(Head1(batch[i])) = n + i - 1
  /\ \A i \in 2..(gap - n) : batch[i] \in Waiting(c, n + i - 1)
  /\ orderedReadIndex' = [orderedReadIndex EXCEPT ![c] = gap]
  /\ orderingList' = orderingList \ {batch[i] : i \in 2..(gap - n)}
  /\ UNCHANGED sequencedReadIndex

\* The ordered message its channel waits for is handed on with the messages
\* that it held back: those with the numbers from its own to the first gap.
LEMMA BatchFacts ==
  ASSUME Numbered, QueueInv, NEW k \in DOMAIN sent,
         IsOrdered(Reliability(k)), Push(Whole(k)),
         NEW c, c = Channel(k), NEW n, n = OrderingIndex(k),
         n = orderedReadIndex[c]
  PROVE  \E batch \in Seq(Wholes), gap \in Nat : IsBatch(k, c, n, batch, gap)
<1>1. /\ Head1(Whole(k)) = k /\ ~IsSequenced(Reliability(k)) /\ n \in Nat
      /\ Whole(k) \in Wholes
  BY MessageFacts, WholeIsMessage, KindFacts DEF Wholes
<1> DEFINE h == Head1(Whole(k))
           d == Channel(h)
           x == OrderingIndex(h)
<1>0. PICK gap, released : Releases(Whole(k), d, x, gap, released)
  <2> DEFINE g == FirstGap(d, x + 1)
             rel == [i \in 1..(g - x - 1) |-> CHOOSE w \in Waiting(d, x + i) : TRUE]
  <2>1. PushOrdered(Whole(k))
    BY <1>1 DEF Push
  <2>2. Releases(Whole(k), d, x, g, rel)
    BY <2>1 DEF PushOrdered, Releases
  <2> HIDE DEF g, rel, d, x
  <2> QED BY <2>2
<1>00. d = c /\ x = n
  BY <1>1
<1> HIDE DEF h, d, x
<1>2. /\ gap = FirstGap(c, n + 1)
      /\ DOMAIN released = 1..(gap - n - 1)
      /\ \A i \in 1..(gap - n - 1) : Waiting(c, n + i) # {} =>
           released[i] \in Waiting(c, n + i)
      /\ outputQueue' = outputQueue \o <<Whole(k)>> \o released
      /\ orderedReadIndex' = [orderedReadIndex EXCEPT ![c] = gap]
      /\ orderingList' = orderingList \ {released[i] : i \in DOMAIN released}
      /\ UNCHANGED sequencedReadIndex
  <2>1. /\ DOMAIN released = 1..(gap - x - 1)
        /\ \A i \in 1..(gap - x - 1) : Waiting(d, x + i) # {} =>
             released[i] \in Waiting(d, x + i)
    BY <1>0 DEF Releases
  <2> QED BY <1>0, <1>00, <2>1 DEF Releases
<1>3. /\ gap \in Nat /\ n + 1 <= gap /\ Waiting(c, gap) = {}
      /\ \A i \in (n + 1)..(gap - 1) : Waiting(c, i) # {}
  <2>1. n + 1 \in Nat /\ WaitInv
    BY <1>1 DEF QueueInv
  <2> QED BY <1>2, <2>1, FirstGapFacts
<1>4. PICK r \in Nat : r = gap - n - 1
  BY <1>1, <1>3
<1>5. ASSUME NEW i \in 1..r
      PROVE  released[i] \in Waiting(c, n + i)
  <2>1. n + i \in (n + 1)..(gap - 1)
    BY <1>1, <1>3, <1>4
  <2>2. Waiting(c, n + i) # {}
    BY <1>3, <2>1
  <2> QED BY <1>2, <1>4, <2>2
<1>6. DOMAIN released = 1..r
  BY <1>2, <1>4
<1>7. \A i \in 1..r : released[i] \in Wholes
  BY <1>5, WaitingFacts DEF QueueInv
<1>8. released \in Seq(Wholes) /\ Len(released) = r
  <2>1. released = [i \in DOMAIN released |-> released[i]]
    BY <1>0 DEF Releases
  <2>2. released \in [1..r -> Wholes]
    BY <1>6, <1>7, <2>1
  <2> QED BY <2>2
<1>9. PICK batch : batch = <<Whole(k)>> \o released
  OBVIOUS
<1>10. /\ batch \in Seq(Wholes) /\ Len(batch) = r + 1
       /\ batch[1] = Whole(k)
       /\ \A i \in 1..r : batch[i + 1] = released[i]
  <2>1. <<Whole(k)>> \in Seq(Wholes) /\ Len(<<Whole(k)>>) = 1
        /\ <<Whole(k)>>[1] = Whole(k)
    BY <1>1
  <2>2. /\ batch \in Seq(Wholes) /\ Len(batch) = 1 + r
        /\ \A i \in 1..(1 + r) :
             batch[i] = IF i <= 1 THEN <<Whole(k)>>[i] ELSE released[i - 1]
    BY <1>8, <1>9, <2>1, ConcatProperties
  <2>3. 1 \in 1..(1 + r) /\ 1 + r = r + 1
    OBVIOUS
  <2>4. \A i \in 1..r : i + 1 \in 1..(1 + r) /\ ~(i + 1 <= 1) /\ (i + 1) - 1 = i
    OBVIOUS
  <2> QED BY <2>1, <2>2, <2>3, <2>4
<1>11. outputQueue' = outputQueue \o batch
  <2>1. outputQueue \in Seq(Wholes) /\ <<Whole(k)>> \in Seq(Wholes)
    BY <1>1 DEF QueueInv, OutputInv
  <2>2. (outputQueue \o <<Whole(k)>>) \o released
          = outputQueue \o (<<Whole(k)>> \o released)
    BY <1>8, <2>1, ConcatAssociative
  <2> QED BY <1>2, <1>9, <2>2
<1>12. gap - n = r + 1 /\ n < gap
  BY <1>1, <1>3, <1>4
<1>13. \A i \in 2..(r + 1) : i - 1 \in 1..r /\ (i - 1) + 1 = i /\ n + (i - 1) = n + i - 1
  BY <1>1
<1>14. \A i \in 2..(r + 1) : batch[i] = released[i - 1]
                             /\ batch[i] \in Waiting(c, n + i - 1)
  <2> SUFFICES ASSUME NEW i \in 2..(r + 1)
               PROVE  batch[i] = released[i - 1] /\ batch[i] \in Waiting(c, n + i - 1)
    OBVIOUS
  <2>1. batch[(i - 1) + 1] = released[i - 1] /\ released[i - 1] \in Waiting(c, n + (i - 1))
    BY <1>5, <1>10, <1>13
  <2> QED BY <1>13, <2>1
<1>15. ASSUME NEW i \in 1..(r + 1)
       PROVE  /\ Head1(batch[i]) \in DOMAIN sent
              /\ IsOrdered(Reliability(Head1(batch[i])))
              /\ Channel(Head1(batch[i])) = c
              /\ OrderingIndex(Head1(batch[i])) = n + i - 1
  <2>1. CASE i = 1
    <3>1. batch[i] = Whole(k) /\ n + i - 1 = n
      BY <1>1, <1>10, <2>1
    <3> QED BY <1>1, <3>1
  <2>2. CASE i # 1
    <3>1. batch[i] \in Waiting(c, n + i - 1)
      BY <1>14, <2>2
    <3> QED BY <3>1, WaitingFacts DEF QueueInv
  <2> QED BY <2>1, <2>2
<1>16. {released[i] : i \in DOMAIN released} = {batch[i] : i \in 2..(r + 1)}
  <2>1. ASSUME NEW i \in 1..r
        PROVE  released[i] \in {batch[j] : j \in 2..(r + 1)}
    <3>1. i + 1 \in 2..(r + 1) /\ batch[i + 1] = released[i]
      BY <1>10
    <3> QED BY <3>1
  <2>2. ASSUME NEW i \in 2..(r + 1)
        PROVE  batch[i] \in {released[j] : j \in 1..r}
    <3>1. i - 1 \in 1..r /\ batch[i] = released[i - 1]
      BY <1>13, <1>14
    <3> QED BY <3>1
  <2> QED BY <1>6, <2>1, <2>2
<1>17. /\ \A i \in 1..(gap - n) :
            /\ Head1(batch[i]) \in DOMAIN sent
            /\ IsOrdered(Reliability(Head1(batch[i])))
            /\ Channel(Head1(batch[i])) = c
            /\ OrderingIndex(Head1(batch[i])) = n + i - 1
       /\ \A i \in 2..(gap - n) : batch[i] \in Waiting(c, n + i - 1)
       /\ orderingList' = orderingList \ {batch[i] : i \in 2..(gap - n)}
  <2>1. 1..(gap - n) = 1..(r + 1) /\ 2..(gap - n) = 2..(r + 1)
    BY <1>12
  <2>2. orderingList' = orderingList \ {batch[i] : i \in 2..(r + 1)}
    BY <1>2, <1>16
  <2> QED BY <1>14, <1>15, <2>1, <2>2
<1>18. Len(batch) = gap - n /\ Head1(batch[1]) = k
  BY <1>1, <1>10, <1>12
<1>19. batch \in Seq(Wholes) /\ gap \in Nat
  BY <1>3, <1>10
<1>20. IsBatch(k, c, n, batch, gap)
  BY <1>1, <1>2, <1>3, <1>11, <1>12, <1>17, <1>18 DEF IsBatch
<1> QED BY <1>19, <1>20

\* The ordered message that its channel waits for.
LEMMA PushNext ==
  ASSUME Numbered, QueueInv, UNCHANGED sent, NEW k \in DOMAIN sent, ~Taken(k),
         IsOrdered(Reliability(k)), Push(Whole(k)),
         OrderingIndex(k) = orderedReadIndex[Channel(k)]
  PROVE  PushedWell(k)
<1>1. PICK c, n : /\ c = Channel(k) /\ n = OrderingIndex(k)
                  /\ n = orderedReadIndex[c]
  OBVIOUS
<1>0. PICK batch \in Seq(Wholes), gap \in Nat : IsBatch(k, c, n, batch, gap)
  BY <1>1, BatchFacts
<1>2. /\ n \in Nat /\ n < gap /\ Waiting(c, gap) = {}
      /\ outputQueue' = outputQueue \o batch
      /\ Len(batch) = gap - n /\ Head1(batch[1]) = k
      /\ \A i \in 1..(gap - n) :
           /\ Head1(batch[i]) \in DOMAIN sent
           /\ IsOrdered(Reliability(Head1(batch[i])))
           /\ Channel(Head1(batch[i])) = c
           /\ OrderingIndex(Head1(batch[i])) = n + i - 1
      /\ \A i \in 2..(gap - n) : batch[i] \in Waiting(c, n + i - 1)
      /\ orderedReadIndex' = [orderedReadIndex EXCEPT ![c] = gap]
      /\ orderingList' = orderingList \ {batch[i] : i \in 2..(gap - n)}
      /\ UNCHANGED sequencedReadIndex
  BY <1>0 DEF IsBatch
<1>n. n \in Nat /\ n < gap
  BY <1>2
<1>3. PICK b \in Nat \ {0} : b = gap - n
  BY <1>2
<1>4. DOMAIN batch = 1..b
  BY <1>2, <1>3
<1>5. c \in Channels
  BY <1>1, MessageFacts
<1>6. orderedReadIndex \in [Channels -> 0..MaxMessages]
  BY DEF QueueInv, IndexInv
\* The messages of the channel with the numbers from n to gap are the batch.
<1>7. ASSUME NEW j \in DOMAIN sent, IsOrdered(Reliability(j)), Channel(j) = c,
             NEW i \in 1..b, OrderingIndex(j) = n + i - 1
      PROVE  Head1(batch[i]) = j
  <2>1. Head1(batch[i]) \in DOMAIN sent /\ IsOrdered(Reliability(Head1(batch[i])))
        /\ Channel(Head1(batch[i])) = c
        /\ OrderingIndex(Head1(batch[i])) = OrderingIndex(j)
    BY <1>2, <1>3, <1>7
  <2> QED BY <1>7, <2>1, KindFacts, IndexFacts
<1>8. \A j \in DOMAIN sent : IsOrdered(Reliability(j)) /\ Channel(j) = c =>
        (IsDelivered(j) <=> OrderingIndex(j) < n)
  BY <1>1 DEF QueueInv, IndexInv
<1>9. \A i \in DOMAIN batch : ~IsDelivered(Head1(batch[i]))
  <2> SUFFICES ASSUME NEW i \in 1..b PROVE ~IsDelivered(Head1(batch[i]))
    BY <1>4
  <2>1. /\ Head1(batch[i]) \in DOMAIN sent
        /\ IsOrdered(Reliability(Head1(batch[i])))
        /\ Channel(Head1(batch[i])) = c
        /\ OrderingIndex(Head1(batch[i])) = n + i - 1
    BY <1>2, <1>3
  <2>2. ~(n + i - 1 < n)
    BY <1>2
  <2> QED BY <1>8, <2>1, <2>2
<1>10. \A i, j \in DOMAIN batch : Head1(batch[i]) = Head1(batch[j]) => i = j
  <2> SUFFICES ASSUME NEW i \in 1..b, NEW j \in 1..b,
                      Head1(batch[i]) = Head1(batch[j])
               PROVE  i = j
    BY <1>4
  <2>1. n + i - 1 = n + j - 1
    BY <1>2, <1>3
  <2> QED BY <1>2, <2>1
<1>11. ASSUME NEW i \in DOMAIN batch, NEW j \in DOMAIN sent,
              j < Head1(batch[i]), sent[j].stream = sent[Head1(batch[i])].stream,
              IsOrdered(Reliability(j))
       PROVE  IsDelivered(j) \/ \E l \in 1..(i - 1) : Head1(batch[l]) = j
  <2>1. i \in 1..b
    BY <1>4
  <2>2. /\ Head1(batch[i]) \in DOMAIN sent
        /\ IsOrdered(Reliability(Head1(batch[i])))
        /\ Channel(Head1(batch[i])) = c
        /\ OrderingIndex(Head1(batch[i])) = n + i - 1
    BY <1>2, <1>3, <2>1
  <2>3. Channel(j) = c
    BY <1>11, <2>2 DEF Channel
  <2>4. OrderingIndex(j) < n + i - 1 /\ OrderingIndex(j) \in Nat
    BY <1>11, <2>2, <2>3, KindFacts, IndexFacts
  <2>5. CASE OrderingIndex(j) < n
    BY <1>8, <1>11, <2>3, <2>5
  <2>6. CASE ~(OrderingIndex(j) < n)
    <3>1. PICK l \in 1..(i - 1) : OrderingIndex(j) = n + l - 1
      <4>1. /\ OrderingIndex(j) - n + 1 \in 1..(i - 1)
            /\ OrderingIndex(j) = n + (OrderingIndex(j) - n + 1) - 1
        BY <1>n, <2>1, <2>4, <2>6
      <4> QED BY <4>1
    <3>2. l \in 1..b
      BY <2>1, <3>1
    <3> QED BY <1>7, <1>11, <2>3, <3>1, <3>2
  <2> QED BY <2>5, <2>6
<1>12. \A i \in DOMAIN batch : ~IsSequenced(Reliability(Head1(batch[i])))
  BY <1>2, <1>3, <1>4, KindFacts
<1>13. /\ OutputInv'
       /\ \A j : IsDelivered(j)' <=>
                   IsDelivered(j) \/ \E i \in DOMAIN batch : Head1(batch[i]) = j
       /\ Len(outputQueue') = Len(outputQueue) + Len(batch)
       /\ SubSeq(outputQueue', 1, Len(outputQueue)) = outputQueue
  <2>1. \A i \in DOMAIN batch, j \in DOMAIN sent :
          j < Head1(batch[i]) /\ sent[j].stream = sent[Head1(batch[i])].stream
            /\ IsOrdered(Reliability(j)) =>
              IsDelivered(j) \/ \E l \in 1..(i - 1) : Head1(batch[l]) = j
    BY <1>11
  <2>2. \A i \in DOMAIN batch : IsSequenced(Reliability(Head1(batch[i]))) =>
          /\ batch = <<batch[i]>>
          /\ \A j \in DOMAIN sent :
               IsSequenced(Reliability(j)) /\ IsDelivered(j)
                 /\ Channel(j) = Channel(Head1(batch[i])) => j < Head1(batch[i])
    BY <1>12
  <2>3. OutputInv /\ outputQueue' = outputQueue \o batch
    BY <1>2 DEF QueueInv
  <2> QED BY <1>9, <1>10, <2>1, <2>2, <2>3, QueueExtends
<1>14. Len(outputQueue') > Len(outputQueue)
  <2>1. Len(outputQueue) \in Nat
    <3>1. outputQueue \in Seq(Wholes)
      BY DEF QueueInv, OutputInv
    <3> QED BY <3>1
  <2> QED BY <1>2, <1>3, <1>13, <2>1
\* The last of the batch bounds the index that the channel waits for now.
<1>15. /\ gap \in 0..MaxMessages
       /\ \A s \in Streams : IsOrdered(s[1]) /\ s[2] = c => gap <= NextIndex(s)
  <2>1. /\ Head1(batch[b]) \in DOMAIN sent
        /\ IsOrdered(Reliability(Head1(batch[b])))
        /\ Channel(Head1(batch[b])) = c
        /\ OrderingIndex(Head1(batch[b])) = n + b - 1
    BY <1>2, <1>3
  <2>2. PICK t : t = sent[Head1(batch[b])].stream
    OBVIOUS
  <2>3. /\ n + b - 1 < NextIndex(t) /\ NextIndex(t) \in 0..MaxMessages
        /\ IsOrdered(t[1]) /\ t[2] = c
    BY <2>1, <2>2, IndexFacts DEF Reliability, Channel
  <2>4. gap <= NextIndex(t)
    BY <1>2, <1>3, <2>3
  <2> QED BY <2>3, <2>4, NextIndexFacts, SplitAssumption
<1>16. /\ orderedReadIndex' \in [Channels -> 0..MaxMessages]
       /\ orderedReadIndex'[c] = gap
       /\ \A d \in Channels \ {c} : orderedReadIndex'[d] = orderedReadIndex[d]
  BY <1>2, <1>5, <1>6, <1>15
<1>17. ASSUME NEW j \in DOMAIN sent, IsOrdered(Reliability(j))
       PROVE  IsDelivered(j)' <=> OrderingIndex(j) < orderedReadIndex'[Channel(j)]
  <2>1. Channel(j) \in Channels /\ OrderingIndex(j) \in Nat
    BY MessageFacts
  <2>2. CASE Channel(j) # c
    <3>1. \A i \in DOMAIN batch : Head1(batch[i]) # j
      BY <1>2, <1>3, <1>4, <2>2
    <3> QED BY <1>13, <1>16, <1>17, <2>1, <2>2, <3>1 DEF QueueInv, IndexInv
  <2>3. CASE Channel(j) = c
    <3>1. ASSUME OrderingIndex(j) < gap
          PROVE  IsDelivered(j)'
      <4>1. CASE OrderingIndex(j) < n
        BY <1>8, <1>13, <1>17, <2>3, <4>1
      <4>2. CASE ~(OrderingIndex(j) < n)
        <5>1. PICK i \in 1..b : OrderingIndex(j) = n + i - 1
          <6>1. /\ OrderingIndex(j) - n + 1 \in 1..b
                /\ OrderingIndex(j) = n + (OrderingIndex(j) - n + 1) - 1
            BY <1>2, <1>3, <2>1, <3>1, <4>2
          <6> QED BY <6>1
        <5> QED BY <1>4, <1>7, <1>13, <1>17, <2>3, <5>1
      <4> QED BY <4>1, <4>2
    <3>2. ASSUME IsDelivered(j)'
          PROVE  OrderingIndex(j) < gap
      <4>1. CASE IsDelivered(j)
        <5>1. OrderingIndex(j) < n
          BY <1>8, <1>17, <2>3, <4>1
        <5> QED BY <1>2, <2>1, <5>1
      <4>2. ASSUME NEW i \in 1..b, Head1(batch[i]) = j
            PROVE  OrderingIndex(j) < gap
        <5>1. OrderingIndex(j) = n + i - 1
          BY <1>2, <1>3, <4>2
        <5> QED BY <1>2, <1>3, <5>1
      <4> QED BY <1>4, <1>13, <3>2, <4>1, <4>2
    <3> QED BY <1>16, <2>3, <3>1, <3>2
  <2> QED BY <2>2, <2>3
<1>18. IndexInv'
  <2>1. ASSUME NEW s \in Streams, IsOrdered(s[1])
        PROVE  orderedReadIndex'[s[2]] <= NextIndex(s)
    <3>1. s[2] \in Channels
      BY DEF Channels
    <3>2. orderedReadIndex[s[2]] <= NextIndex(s)
      BY <2>1 DEF QueueInv, IndexInv
    <3> QED BY <1>15, <1>16, <2>1, <3>1, <3>2
  <2>2. ASSUME NEW j \in DOMAIN sent, IsSequenced(Reliability(j)), IsDelivered(j)'
        PROVE  OrderingIndex(j) < sequencedReadIndex[Channel(j)]
    <3>1. \A i \in DOMAIN batch : Head1(batch[i]) # j
      BY <1>12, <2>2
    <3> QED BY <1>13, <2>2, <3>1 DEF QueueInv, IndexInv
  <2> QED BY <1>2, <1>16, <1>17, <2>1, <2>2, SentStays DEF QueueInv, IndexInv
<1>19. WaitInv'
  <2>1. /\ orderingList' \subseteq orderingList /\ orderingList \subseteq Wholes
        /\ IsFiniteSet(orderingList)
    BY <1>2 DEF QueueInv, WaitInv
  <2>2. IsFiniteSet(orderingList')
    BY <2>1, FS_Subset
  <2>3. ASSUME NEW w \in orderingList'
        PROVE  /\ IsOrdered(Reliability(Head1(w)))
               /\ orderedReadIndex'[Channel(Head1(w))] < OrderingIndex(Head1(w))
    <3>1. /\ w \in orderingList /\ IsOrdered(Reliability(Head1(w)))
          /\ orderedReadIndex[Channel(Head1(w))] < OrderingIndex(Head1(w))
          /\ Head1(w) \in DOMAIN sent /\ w = Whole(Head1(w))
          /\ Channel(Head1(w)) \in Channels /\ OrderingIndex(Head1(w)) \in Nat
      BY <2>1, <2>3, WholesFacts, MessageFacts DEF QueueInv, WaitInv
    <3>2. CASE Channel(Head1(w)) # c
      BY <1>16, <3>1, <3>2
    <3>3. CASE Channel(Head1(w)) = c
      <4>1. n < OrderingIndex(Head1(w))
        BY <1>1, <3>1, <3>3
      <4>2. w \in Waiting(c, OrderingIndex(Head1(w)))
        BY <3>1, <3>3 DEF Waiting
      <4>3. OrderingIndex(Head1(w)) # gap
        BY <1>2, <4>2
      <4>4. ~(OrderingIndex(Head1(w)) < gap)
        <5> SUFFICES ASSUME OrderingIndex(Head1(w)) < gap PROVE FALSE
          OBVIOUS
        <5>1. PICK i \in 2..b : OrderingIndex(Head1(w)) = n + i - 1
          <6>1. /\ OrderingIndex(Head1(w)) - n + 1 \in 2..b
                /\ OrderingIndex(Head1(w)) = n + (OrderingIndex(Head1(w)) - n + 1) - 1
            BY <1>n, <1>3, <3>1, <4>1
          <6> QED BY <6>1
        <5>2. batch[i] \in Waiting(c, n + i - 1)
          BY <1>2, <1>3
        <5>3. batch[i] = w
          <6>1. w \in Waiting(c, n + i - 1) /\ WaitInv
            BY <4>2, <5>1 DEF QueueInv
          <6> QED BY <5>2, <6>1, WaitingFacts
        <5> QED BY <1>2, <1>3, <2>3, <5>3
      <4> QED BY <1>16, <3>1, <3>3, <4>3, <4>4
    <3> QED BY <3>2, <3>3
  <2> QED BY <2>1, <2>2, <2>3, SentStays DEF WaitInv
<1>20. \A j : Taken(j)' <=> Taken(j) \/ j = k
  <2> SUFFICES ASSUME NEW j PROVE Taken(j)' <=> Taken(j) \/ j = k
    OBVIOUS
  <2>1. ASSUME NEW i \in 1..b, Head1(batch[i]) = j
        PROVE  Taken(j) \/ j = k
    <3>1. CASE i = 1
      BY <1>2, <2>1, <3>1
    <3>2. CASE i # 1
      <4>1. batch[i] \in Waiting(c, n + i - 1)
        BY <1>2, <1>3, <3>2
      <4> QED BY <2>1, <4>1 DEF Waiting, Taken, IsWaiting
    <3> QED BY <3>1, <3>2
  <2>2. Taken(j)' => Taken(j) \/ j = k
    BY <1>2, <1>4, <1>13, <2>1 DEF Taken, IsWaiting
  <2>3. IsDelivered(k)'
    <3>1. 1 \in DOMAIN batch
      BY <1>4
    <3> QED BY <1>2, <1>13, <3>1
  <2>4. IsWaiting(j) => Taken(j)'
    <3> SUFFICES ASSUME NEW w \in orderingList, Head1(w) = j PROVE Taken(j)'
      BY DEF IsWaiting
    <3>1. CASE w \in orderingList'
      BY <3>1 DEF Taken, IsWaiting
    <3>2. CASE w \notin orderingList'
      <4>1. PICK i \in 2..b : w = batch[i]
        BY <1>2, <1>3, <3>2
      <4>2. i \in DOMAIN batch
        BY <1>4
      <4> QED BY <1>13, <4>1, <4>2 DEF Taken
    <3> QED BY <3>1, <3>2
  <2> QED BY <1>13, <2>2, <2>3, <2>4 DEF Taken
<1>21. \A d \in Channels : sequencedReadIndex[d] <= sequencedReadIndex'[d]
  BY <1>2, SplitAssumption DEF QueueInv, IndexInv
<1> QED BY <1>13, <1>14, <1>18, <1>19, <1>20, <1>21 DEF PushedWell, QueueInv

\* A whole message that was not handed on before.
LEMMA PushFacts ==
  ASSUME Numbered, QueueInv, UNCHANGED sent, NEW k \in DOMAIN sent, ~Taken(k),
         IsSequenced(Reliability(k)) => ~IsOlder(<<k, 0>>), Push(Whole(k))
  PROVE  PushedWell(k)
BY PushOther, PushSequencedFacts, PushAhead, PushNext, KindFacts

\* A part that completes nothing leaves the queues as they are.
LEMMA KeepFacts ==
  ASSUME QueueInv, UNCHANGED sent, Keep
  PROVE  /\ QueueInv'
         /\ \A j : Taken(j)' <=> Taken(j)
         /\ UNCHANGED <<sequencedReadIndex, outputQueue>>
<1>1. UNCHANGED <<sequencedReadIndex, orderedReadIndex, orderingList, outputQueue>>
  BY DEF Keep
<1>2. \A j : /\ IsDelivered(j)' <=> IsDelivered(j)
             /\ IsWaiting(j)' <=> IsWaiting(j)
  BY <1>1 DEF IsDelivered, IsWaiting
<1>3. \A i : Got(i)' = Got(i)
  BY <1>1 DEF Got
<1>4. OutputInv'
  BY <1>1, <1>3, SentStays DEF QueueInv, OutputInv
<1>5. WaitInv' /\ IndexInv'
  BY <1>1, <1>2, SentStays DEF QueueInv, WaitInv, IndexInv
<1> QED BY <1>1, <1>2, <1>4, <1>5 DEF QueueInv, Taken

\* Another message leaves what was delivered and what waits as it is.
LEMMA QueueSend ==
  ASSUME Numbered, QueueInv, Send
  PROVE  /\ QueueInv'
         /\ \A j : Taken(j)' <=> Taken(j)
         /\ UNCHANGED <<sequencedReadIndex, outputQueue>>
<1>1. PICK k \in Nat \ {0} :
        /\ k = Len(sent) + 1
        /\ sent' \in Seq(Messages)
        /\ DOMAIN sent = 1..(k - 1) /\ DOMAIN sent' = 1..k
        /\ \A j \in DOMAIN sent : sent'[j] = sent[j]
        /\ OrderingIndex(k)' = NextIndex(sent'[k].stream)
        /\ sent'[k].stream \in Streams
        /\ UNCHANGED receiverVars
  BY SendFacts DEF OrderingIndex
<1>2. UNCHANGED <<sequencedReadIndex, orderedReadIndex, orderingList, outputQueue>>
  BY <1>1 DEF receiverVars
<1>3. /\ k \in DOMAIN sent' /\ k \notin DOMAIN sent
      /\ \A j \in DOMAIN sent' : j \in DOMAIN sent \/ j = k
      /\ \A j \in DOMAIN sent : j < k /\ j \in DOMAIN sent'
  BY <1>1
<1>4. \A j \in DOMAIN sent :
        /\ Reliability(j)' = Reliability(j) /\ Channel(j)' = Channel(j)
        /\ OrderingIndex(j)' = OrderingIndex(j) /\ Whole(j)' = Whole(j)
  BY <1>1 DEF Reliability, Channel, OrderingIndex, Whole, Datagrams
<1>5. Wholes \subseteq Wholes'
  BY <1>3, <1>4 DEF Wholes
<1>6. /\ outputQueue \in Seq(Wholes) /\ orderingList \subseteq Wholes
      /\ \A w \in Wholes : Head1(w) \in DOMAIN sent
  BY WholesFacts DEF QueueInv, OutputInv, WaitInv
<1>7. \A i \in DOMAIN outputQueue : Got(i) \in DOMAIN sent
  BY <1>6 DEF Got
<1>8. \A i : Got(i)' = Got(i)
  BY <1>2 DEF Got
<1>9. \A j : /\ IsDelivered(j)' <=> IsDelivered(j)
             /\ IsWaiting(j)' <=> IsWaiting(j)
             /\ IsDelivered(j) => j \in DOMAIN sent
  BY <1>2, <1>7 DEF IsDelivered, IsWaiting, Got
<1>10. OutputInv'
  <2>1. outputQueue' \in Seq(Wholes')
    BY <1>2, <1>5, <1>6, SeqMonotonic
  <2>2. ASSUME NEW i \in DOMAIN outputQueue, NEW j \in DOMAIN sent',
               j < Got(i), sent'[j].stream = sent'[Got(i)].stream,
               IsOrdered(Reliability(j)')
        PROVE  \E l \in 1..(i - 1) : Got(l) = j
    <3>1. j \in DOMAIN sent
      BY <1>1, <1>3, <1>7, <2>2
    <3> QED BY <1>1, <1>4, <1>7, <2>2, <3>1 DEF QueueInv, OutputInv
  <2>3. ASSUME NEW i \in DOMAIN outputQueue, NEW j \in DOMAIN outputQueue, i < j,
               IsSequenced(Reliability(Got(i))'), IsSequenced(Reliability(Got(j))'),
               Channel(Got(i))' = Channel(Got(j))'
        PROVE  Got(i) < Got(j)
    <3>1. /\ Reliability(Got(i))' = Reliability(Got(i))
          /\ Reliability(Got(j))' = Reliability(Got(j))
          /\ Channel(Got(i))' = Channel(Got(i))
          /\ Channel(Got(j))' = Channel(Got(j))
      BY <1>4, <1>7, <1>8
    <3> QED BY <2>3, <3>1 DEF QueueInv, OutputInv
  <2> QED BY <1>2, <1>8, <2>1, <2>2, <2>3 DEF QueueInv, OutputInv
<1>11. WaitInv'
  BY <1>2, <1>4, <1>5, <1>6 DEF QueueInv, WaitInv
\* The number of the new message is the next one, so it is not delivered.
<1>12. ASSUME NEW s \in Streams
       PROVE  NextIndex(s) \in Nat /\ NextIndex(s)' \in Nat
              /\ NextIndex(s) <= NextIndex(s)'
  <2>1. /\ IsFiniteSet(Class(s)) /\ NextIndex(s) = Cardinality(Class(s))
        /\ NextIndex(s) \in Nat
    BY ClassFacts DEF Numbered
  <2>2. NextIndex(s)' = Cardinality(Class(s)')
    BY DEF NextIndex, Class, Alike
  <2>3. Class(s) \subseteq Class(s)' /\ Class(s)' \subseteq Class(s) \cup {k}
    BY <1>1, <1>3 DEF Class
  <2>4. IsFiniteSet(Class(s)')
    <3>1. IsFiniteSet(Class(s) \cup {k})
      BY <2>1, FS_AddElement
    <3> QED BY <2>3, <3>1, FS_Subset
  <2>5. Cardinality(Class(s)) <= Cardinality(Class(s)') /\ Cardinality(Class(s)') \in Nat
    BY <2>3, <2>4, FS_Subset, FS_CardinalityType
  <2> QED BY <2>1, <2>2, <2>5
<1>13. IndexInv'
  <2>1. ASSUME NEW s \in Streams, IsOrdered(s[1])
        PROVE  orderedReadIndex[s[2]] <= NextIndex(s)'
    <3>1. orderedReadIndex[s[2]] <= NextIndex(s) /\ orderedReadIndex[s[2]] \in Nat
      <4>1. s[2] \in Channels
        BY DEF Channels
      <4> QED BY <2>1, <4>1, SplitAssumption DEF QueueInv, IndexInv
    <3> QED BY <1>12, <3>1
  <2>2. ASSUME NEW j \in DOMAIN sent', IsOrdered(Reliability(j)')
        PROVE  IsDelivered(j) <=> OrderingIndex(j)' < orderedReadIndex[Channel(j)']
    <3>1. CASE j \in DOMAIN sent
      BY <1>4, <2>2, <3>1 DEF QueueInv, IndexInv
    <3>2. CASE j = k
      <4>1. PICK s \in Streams : s = sent'[k].stream
        BY <1>1
      <4>2. IsOrdered(s[1]) /\ Channel(k)' = s[2] /\ OrderingIndex(k)' = NextIndex(s)
        BY <1>1, <2>2, <3>2, <4>1 DEF Reliability, Channel
      <4>3. orderedReadIndex[s[2]] <= NextIndex(s) /\ orderedReadIndex[s[2]] \in Nat
        <5>1. s[2] \in Channels
          BY DEF Channels
        <5> QED BY <4>2, <5>1, SplitAssumption DEF QueueInv, IndexInv
      <4>4. ~(NextIndex(s) < orderedReadIndex[s[2]])
        BY <1>12, <4>3
      <4>5. OrderingIndex(j)' = NextIndex(s) /\ Channel(j)' = s[2]
        BY <3>2, <4>2
      <4> QED BY <1>3, <1>9, <3>2, <4>4, <4>5
    <3> QED BY <1>3, <3>1, <3>2
  <2>3. ASSUME NEW j \in DOMAIN sent', IsSequenced(Reliability(j)'), IsDelivered(j)
        PROVE  OrderingIndex(j)' < sequencedReadIndex[Channel(j)']
    BY <1>4, <1>9, <2>3 DEF QueueInv, IndexInv
  <2> QED BY <1>2, <1>9, <2>1, <2>2, <2>3 DEF QueueInv, IndexInv
<1> QED BY <1>2, <1>9, <1>10, <1>11, <1>13 DEF QueueInv, Taken

-----------------------------------------------------------------------------
(* The parts and the messages together.                                    *)

\* Nothing is left of a message the user has, or that waits.
TakenInv ==
  \A k \in DOMAIN sent : Taken(k) =>
    \A p \in AllParts(k) : p \notin inTransit /\ ~IsHeld(p)

\* Every part of a reliable message that was not taken is still somewhere.
ReliableInv ==
  \A k \in DOMAIN sent : IsReliable(Reliability(k)) =>
    \/ Taken(k)
    \/ IsSequenced(Reliability(k)) /\ IsOlder(<<k, 0>>)
    \/ \A p \in AllParts(k) : p \in inTransit \cup lost \/ IsHeld(p)

IInv == Numbered /\ TransportInv /\ QueueInv /\ TakenInv /\ ReliableInv

\* What the user has, and what waits, was sent.
LEMMA TakenSent ==
  ASSUME Numbered, QueueInv, NEW k, Taken(k)
  PROVE  k \in DOMAIN sent
BY WholesFacts DEF Taken, IsDelivered, IsWaiting, QueueInv, OutputInv, WaitInv

\* What Receive does, whether the message was split or not: the part is
\* ignored, or collected, or the last of a message that is handed on.
LEMMA ReceiveFacts ==
  ASSUME Numbered, TransportInv, NEW part \in inTransit, Receive(part)
  PROVE  /\ TransportInv'
         /\ part[1] \in DOMAIN sent /\ part \in AllParts(part[1])
         /\ UNCHANGED <<sent, splitPacketId, lost>>
         /\ inTransit' = inTransit \ {part}
         /\ \A p : IsHeld(p)' => IsHeld(p) \/ p = part
         /\ \/ /\ Ignored(part) /\ Keep
               /\ \A p : IsHeld(p) /\ IsReliable(Reliability(p[1])) => IsHeld(p)'
            \/ /\ Keep /\ IsHeld(part)'
               /\ \A p : IsHeld(p) /\ IsReliable(Reliability(p[1])) => IsHeld(p)'
            \/ /\ ~Ignored(part) /\ Push(Whole(part[1]))
               /\ \A p \in AllParts(part[1]) : p \notin inTransit' /\ ~IsHeld(p)'
               /\ \A p : IsHeld(p) /\ IsReliable(Reliability(p[1]))
                           /\ p[1] # part[1] => IsHeld(p)'
<1>1. Arrives(part)
  BY DEF Receive, ReceiveWhole, ReceivePart
<1>2. /\ part[1] \in DOMAIN sent /\ part \in AllParts(part[1])
      /\ UNCHANGED <<sent, splitPacketId, lost>>
      /\ inTransit' = inTransit \ {part}
  BY <1>1, ArrivesFacts
<1>3. CASE ReceiveWhole(part)
  <2>1. /\ TransportInv'
        /\ \A p : IsHeld(p)' <=> IsHeld(p)
        /\ AllParts(part[1]) = {part} /\ ~IsHeld(part)
        /\ IF Ignored(part) THEN Keep ELSE Push(Whole(part[1]))
    BY <1>3, ReceiveWholeFacts
  <2>2. part \notin inTransit'
    BY <1>2
  <2> QED BY <1>2, <2>1, <2>2
<1>4. CASE ReceivePart(part)
  BY <1>2, <1>4, ReceivePartFacts
<1> QED BY <1>3, <1>4 DEF Receive

\* The invariant holds at first,
LEMMA IInvInit == Init => IInv
<1> SUFFICES ASSUME Init PROVE IInv
  OBVIOUS
<1>1. /\ sent = <<>> /\ splitPacketId = 0 /\ inTransit = {} /\ lost = {}
      /\ sequencedReadIndex = [c \in Channels |-> 0]
      /\ orderedReadIndex = [c \in Channels |-> 0]
      /\ orderingList = {} /\ outputQueue = <<>>
      /\ DOMAIN splitPacketChannelList = {}
  BY DEF Init
<1>2. sent \in Seq(Messages) /\ Len(sent) = 0 /\ DOMAIN sent = {}
  BY <1>1
<1>3. \A s : NextIndex(s) = 0 /\ Class(s) = {}
  <2>1. \A s : Class(s) = {}
    BY <1>2 DEF Class
  <2> QED BY <1>2, <2>1, ClassFacts, FS_EmptySet
<1>4. Numbered
  BY <1>1, <1>2, <1>3, SplitAssumption DEF Numbered
<1>5. TransportInv
  BY <1>1 DEF TransportInv
<1>6. outputQueue \in Seq(Wholes) /\ DOMAIN outputQueue = {}
  BY <1>1
<1>7. OutputInv /\ WaitInv
  BY <1>1, <1>6, FS_EmptySet DEF OutputInv, WaitInv
<1>8. \A s \in Streams : s[2] \in Channels /\ orderedReadIndex[s[2]] <= NextIndex(s)
  BY <1>1, <1>3 DEF Channels
<1>9. IndexInv
  BY <1>1, <1>2, <1>8, SplitAssumption DEF IndexInv
<1>10. TakenInv /\ ReliableInv
  BY <1>2 DEF TakenInv, ReliableInv
<1> QED BY <1>4, <1>5, <1>7, <1>9, <1>10 DEF IInv, QueueInv

\* and each step keeps it.
LEMMA IInvSend ==
  ASSUME IInv, Send
  PROVE  IInv'
<1>1. Numbered /\ TransportInv /\ QueueInv /\ TakenInv /\ ReliableInv
  BY DEF IInv
<1>2. PICK bits \in Lengths, k \in Nat \ {0} :
        /\ DOMAIN sent = 1..(k - 1) /\ DOMAIN sent' = 1..k
        /\ \A j \in DOMAIN sent : sent'[j] = sent[j]
        /\ sent'[k].bits = bits
        /\ inTransit' = inTransit \cup PartsOf(k, bits)
        /\ UNCHANGED lost
  BY <1>1, SendFacts
<1>3. /\ k \notin DOMAIN sent /\ \A j \in DOMAIN sent' : j \in DOMAIN sent \/ j = k
  BY <1>2
<1>4. Numbered'
  BY <1>1, NumberedSend
<1>5. TransportInv' /\ \A p : IsHeld(p)' <=> IsHeld(p)
  BY <1>1, TransportSend
<1>6. /\ QueueInv' /\ UNCHANGED <<sequencedReadIndex, outputQueue>>
      /\ \A j : Taken(j)' <=> Taken(j)
  BY <1>1, QueueSend
<1>7. \A j \in DOMAIN sent :
        /\ AllParts(j)' = AllParts(j) /\ Reliability(j)' = Reliability(j)
        /\ IsOlder(<<j, 0>>)' <=> IsOlder(<<j, 0>>)
  BY <1>2, <1>6 DEF AllParts, Reliability, IsOlder, OrderingIndex, Channel
<1>8. AllParts(k)' = PartsOf(k, bits)
  BY <1>2 DEF AllParts
<1>9. \A p \in PartsOf(k, bits) : p[1] = k
  BY DEF PartsOf
<1>10. ASSUME NEW j \in DOMAIN sent', Taken(j)', NEW p \in AllParts(j)'
       PROVE  p \notin inTransit' /\ ~IsHeld(p)'
  <2>1. Taken(j) /\ j \in DOMAIN sent
    BY <1>1, <1>6, <1>10, TakenSent
  <2>2. p \in AllParts(j) /\ p[1] = j
    BY <1>1, <1>7, <1>10, <2>1, MessageFacts
  <2>3. p \notin inTransit /\ ~IsHeld(p)
    BY <1>1, <2>1, <2>2 DEF TakenInv
  <2> QED BY <1>2, <1>3, <1>5, <1>9, <2>1, <2>2, <2>3
<1>11. TakenInv'
  BY <1>10 DEF TakenInv
<1>12. ASSUME NEW j \in DOMAIN sent', IsReliable(Reliability(j)')
       PROVE  \/ Taken(j)'
              \/ IsSequenced(Reliability(j)') /\ IsOlder(<<j, 0>>)'
              \/ \A p \in AllParts(j)' : p \in inTransit' \cup lost' \/ IsHeld(p)'
  <2>1. CASE j \in DOMAIN sent
    <3>1. \/ Taken(j)
          \/ IsSequenced(Reliability(j)) /\ IsOlder(<<j, 0>>)
          \/ \A p \in AllParts(j) : p \in inTransit \cup lost \/ IsHeld(p)
      BY <1>1, <1>7, <1>12, <2>1 DEF ReliableInv
    <3> QED BY <1>2, <1>5, <1>6, <1>7, <2>1, <3>1
  <2>2. CASE j = k
    BY <1>2, <1>8, <2>2
  <2> QED BY <1>3, <2>1, <2>2
<1>13. ReliableInv'
  BY <1>12 DEF ReliableInv
<1> QED BY <1>4, <1>5, <1>6, <1>11, <1>13 DEF IInv

\* A step of the receiver leaves the messages and their numbers alone.
LEMMA NumberedStays ==
  ASSUME Numbered, UNCHANGED <<sent, splitPacketId>>
  PROVE  Numbered'
<1>1. \A s : NextIndex(s)' = NextIndex(s) /\ Class(s)' = Class(s)
  BY DEF NextIndex, Class
<1> QED BY <1>1, SentStays DEF Numbered, Messages

\* The parts of a message do not change after it was sent.
LEMMA PartsStay ==
  ASSUME UNCHANGED sent
  PROVE  /\ \A k : AllParts(k)' = AllParts(k)
         /\ UNCHANGED sequencedReadIndex =>
              \A k : IsOlder(<<k, 0>>)' <=> IsOlder(<<k, 0>>)
BY DEF AllParts, IsOlder, OrderingIndex, Channel

\* A part that arrives keeps the invariant.
LEMMA IInvReceive ==
  ASSUME IInv, NEW part \in inTransit, Receive(part)
  PROVE  IInv'
<1>1. Numbered /\ TransportInv /\ QueueInv /\ TakenInv /\ ReliableInv
  BY DEF IInv
<1>2. PICK k \in DOMAIN sent : k = part[1] /\ part \in AllParts(k)
  BY <1>1, ReceiveFacts
<1>3. /\ TransportInv'
      /\ UNCHANGED <<sent, splitPacketId, lost>>
      /\ inTransit' = inTransit \ {part}
      /\ \A p : IsHeld(p)' => IsHeld(p) \/ p = part
      /\ \/ /\ Ignored(part) /\ Keep
            /\ \A p : IsHeld(p) /\ IsReliable(Reliability(p[1])) => IsHeld(p)'
         \/ /\ Keep /\ IsHeld(part)'
            /\ \A p : IsHeld(p) /\ IsReliable(Reliability(p[1])) => IsHeld(p)'
         \/ /\ ~Ignored(part) /\ Push(Whole(k))
            /\ \A p \in AllParts(k) : p \notin inTransit' /\ ~IsHeld(p)'
            /\ \A p : IsHeld(p) /\ IsReliable(Reliability(p[1]))
                        /\ p[1] # k => IsHeld(p)'
  BY <1>1, <1>2, ReceiveFacts
<1>4. ~Taken(k)
  BY <1>1, <1>2 DEF TakenInv
<1>5. Ignored(part) <=> IsSequenced(Reliability(k)) /\ IsOlder(<<k, 0>>)
  BY <1>2 DEF Ignored, IsOlder
<1>6. Numbered'
  BY <1>1, <1>3, NumberedStays
<1>7. \A j \in DOMAIN sent : \A p \in AllParts(j) :
        p[1] = j /\ (Taken(j) => p \notin inTransit /\ ~IsHeld(p) /\ p # part)
  BY <1>1, MessageFacts DEF TakenInv
<1>8. \A j : AllParts(j)' = AllParts(j) /\ Reliability(j)' = Reliability(j)
  BY <1>3, PartsStay, SentStays
<1>9. \A j \in DOMAIN sent : IsReliable(Reliability(j)) =>
        \/ Taken(j)
        \/ IsSequenced(Reliability(j)) /\ IsOlder(<<j, 0>>)
        \/ \A p \in AllParts(j) : p \in inTransit \cup lost \/ IsHeld(p)
  BY <1>1 DEF ReliableInv
<1>10. CASE Keep /\ (Ignored(part) \/ IsHeld(part)')
              /\ \A p : IsHeld(p) /\ IsReliable(Reliability(p[1])) => IsHeld(p)'
  <2>1. /\ QueueInv' /\ UNCHANGED sequencedReadIndex
        /\ \A j : Taken(j)' <=> Taken(j)
    BY <1>1, <1>3, <1>10, KeepFacts
  <2>2. \A j : IsOlder(<<j, 0>>)' <=> IsOlder(<<j, 0>>)
    BY <1>3, <2>1, PartsStay
  <2>3. TakenInv'
    BY <1>3, <1>7, <1>8, <2>1 DEF TakenInv
  <2>4. ASSUME NEW j \in DOMAIN sent, IsReliable(Reliability(j))
        PROVE  \/ Taken(j)
               \/ IsSequenced(Reliability(j)) /\ IsOlder(<<j, 0>>)
               \/ \A p \in AllParts(j) : p \in inTransit' \cup lost' \/ IsHeld(p)'
    <3>1. CASE Ignored(part) /\ j = k
      BY <1>5, <3>1
    <3>2. CASE ~(Ignored(part) /\ j = k)
      BY <1>2, <1>3, <1>7, <1>9, <1>10, <2>4, <3>2
    <3> QED BY <3>1, <3>2
  <2>5. ReliableInv'
    BY <1>3, <1>8, <2>1, <2>2, <2>4 DEF ReliableInv
  <2> QED BY <1>3, <1>6, <2>1, <2>3, <2>5 DEF IInv
<1>11. CASE /\ ~Ignored(part) /\ Push(Whole(k))
            /\ \A p \in AllParts(k) : p \notin inTransit' /\ ~IsHeld(p)'
            /\ \A p : IsHeld(p) /\ IsReliable(Reliability(p[1]))
                        /\ p[1] # k => IsHeld(p)'
  <2>1. PushedWell(k)
    BY <1>1, <1>3, <1>4, <1>5, <1>11, PushFacts
  <2>2. /\ QueueInv' /\ \A j : Taken(j)' <=> Taken(j) \/ j = k
        /\ \A c \in Channels : sequencedReadIndex[c] <= sequencedReadIndex'[c]
    BY <2>1 DEF PushedWell
  <2>3. TakenInv'
    BY <1>3, <1>7, <1>8, <1>11, <2>2 DEF TakenInv
  <2>4. ASSUME NEW j \in DOMAIN sent, IsOlder(<<j, 0>>)
        PROVE  IsOlder(<<j, 0>>)'
    <3>1. /\ Channel(j) \in Channels /\ OrderingIndex(j) \in Nat
      BY <1>1, MessageFacts
    <3>2. /\ sequencedReadIndex[Channel(j)] \in Nat
          /\ sequencedReadIndex'[Channel(j)] \in Nat
      <4>1. /\ sequencedReadIndex \in [Channels -> 0..MaxMessages]
            /\ sequencedReadIndex' \in [Channels -> 0..MaxMessages]
        BY <1>1, <2>2 DEF QueueInv, IndexInv, Channels
      <4> QED BY <3>1, <4>1, SplitAssumption
    <3>3. OrderingIndex(j) < sequencedReadIndex[Channel(j)]
      BY <2>4 DEF IsOlder
    <3>4. OrderingIndex(j) < sequencedReadIndex'[Channel(j)]
      BY <2>2, <3>1, <3>2, <3>3
    <3> QED BY <1>3, <3>4, SentStays DEF IsOlder
  <2>5. ASSUME NEW j \in DOMAIN sent, IsReliable(Reliability(j)), j # k
        PROVE  \/ Taken(j)'
               \/ IsSequenced(Reliability(j)) /\ IsOlder(<<j, 0>>)'
               \/ \A p \in AllParts(j) : p \in inTransit' \cup lost' \/ IsHeld(p)'
    BY <1>2, <1>3, <1>7, <1>9, <1>11, <2>2, <2>4, <2>5
  <2>6. ReliableInv'
    BY <1>3, <1>8, <2>2, <2>5 DEF ReliableInv
  <2> QED BY <1>3, <1>6, <2>2, <2>3, <2>6 DEF IInv
<1> QED BY <1>3, <1>10, <1>11

\* A part that is lost keeps the invariant.
LEMMA IInvLose ==
  ASSUME IInv, NEW part \in inTransit, Lose(part)
  PROVE  IInv'
<1>1. Numbered /\ TransportInv /\ QueueInv /\ TakenInv /\ ReliableInv
  BY DEF IInv
<1>2. /\ inTransit' = inTransit \ {part} /\ lost' = lost \cup {part}
      /\ UNCHANGED <<sent, splitPacketId, sequencedReadIndex, orderedReadIndex,
                     orderingList, outputQueue>>
  BY DEF Lose, senderVars, receiverVars
<1>3. TransportInv' /\ \A p : IsHeld(p)' <=> IsHeld(p)
  BY <1>1, TransportLose
<1>4. Keep
  BY <1>2 DEF Keep
<1>5. QueueInv' /\ \A j : Taken(j)' <=> Taken(j)
  BY <1>1, <1>2, <1>4, KeepFacts
<1>6. \A j : /\ AllParts(j)' = AllParts(j) /\ Reliability(j)' = Reliability(j)
             /\ IsOlder(<<j, 0>>)' <=> IsOlder(<<j, 0>>)
  BY <1>2, PartsStay, SentStays
<1>7. TakenInv' /\ ReliableInv'
  BY <1>1, <1>2, <1>3, <1>5, <1>6 DEF TakenInv, ReliableInv
<1> QED BY <1>1, <1>2, <1>3, <1>5, <1>7, NumberedStays DEF IInv

\* Deleting the parts of an old unreliable message keeps the invariant.
LEMMA IInvGrowOld ==
  ASSUME IInv, NEW id \in DOMAIN splitPacketChannelList, GrowOld(id)
  PROVE  IInv'
<1>1. Numbered /\ TransportInv /\ QueueInv /\ TakenInv /\ ReliableInv
  BY DEF IInv
<1>2. UNCHANGED <<sent, splitPacketId, inTransit, lost, sequencedReadIndex,
                  orderedReadIndex, orderingList, outputQueue>>
  BY DEF GrowOld, senderVars
<1>3. TransportInv' /\ \A p : IsHeld(p)' <=> IsHeld(p)
  BY <1>1, TransportGrowOld
<1>4. Keep
  BY <1>2 DEF Keep
<1>5. QueueInv' /\ \A j : Taken(j)' <=> Taken(j)
  BY <1>1, <1>2, <1>4, KeepFacts
<1>6. \A j : /\ AllParts(j)' = AllParts(j) /\ Reliability(j)' = Reliability(j)
             /\ IsOlder(<<j, 0>>)' <=> IsOlder(<<j, 0>>)
  BY <1>2, PartsStay, SentStays
<1>7. TakenInv' /\ ReliableInv'
  BY <1>1, <1>2, <1>3, <1>5, <1>6 DEF TakenInv, ReliableInv
<1> QED BY <1>1, <1>2, <1>3, <1>5, <1>7, NumberedStays DEF IInv

\* So does a step that changes nothing.
LEMMA IInvStutter ==
  ASSUME IInv, UNCHANGED vars
  PROVE  IInv'
<1>1. Numbered /\ TransportInv /\ QueueInv /\ TakenInv /\ ReliableInv
  BY DEF IInv
<1>2. /\ UNCHANGED <<sent, splitPacketId, inTransit, lost>>
      /\ UNCHANGED <<splitPacketChannelList, sequencedReadIndex,
                     orderedReadIndex, orderingList, outputQueue>>
  BY DEF vars, senderVars, receiverVars
<1>3. TransportInv' /\ \A p : IsHeld(p)' <=> IsHeld(p)
  BY <1>1, <1>2 DEF TransportInv, Collects, AllParts, IsSplit, IsHeld
<1>4. QueueInv' /\ \A j : Taken(j)' <=> Taken(j)
  BY <1>1, <1>2, KeepFacts DEF Keep
<1>5. \A j : /\ AllParts(j)' = AllParts(j) /\ Reliability(j)' = Reliability(j)
             /\ IsOlder(<<j, 0>>)' <=> IsOlder(<<j, 0>>)
  BY <1>2, PartsStay, SentStays
<1>6. TakenInv' /\ ReliableInv'
  BY <1>1, <1>2, <1>3, <1>4, <1>5 DEF TakenInv, ReliableInv
<1> QED BY <1>1, <1>2, <1>3, <1>4, <1>6, NumberedStays DEF IInv

\* Every step keeps the invariant.
LEMMA IInvNext == IInv /\ [Next]_vars => IInv'
BY IInvSend, IInvReceive, IInvLose, IInvGrowOld, IInvStutter DEF Next

(***************************************************************************)
(* The split packet list never mixes two messages, the parts that are on   *)
(* their way, collected or lost account for every reliable message that    *)
(* was not handed on, and what was handed on is in order.                  *)
(***************************************************************************)
THEOREM Invariant == Spec => []IInv
BY IInvInit, IInvNext, PTL DEF Spec

-----------------------------------------------------------------------------
(* What follows from it.                                                   *)

\* The invariant implies each of the properties.
LEMMA IInvTypeOK == IInv => TypeOK
<1> SUFFICES ASSUME IInv PROVE TypeOK
  OBVIOUS
<1>1. Numbered /\ TransportInv /\ QueueInv
  BY DEF IInv
<1>2. /\ sent \in Seq([stream : Streams, bits : Lengths, index : 0..MaxMessages,
                       id : 0..(IdRange - 1)])
      /\ splitPacketId \in 0..(IdRange - 1)
  BY <1>1 DEF Numbered, Messages
<1>3. ASSUME NEW k \in DOMAIN sent
      PROVE  AllParts(k) \subseteq {p \in Parts : p[1] = k}
  <2>1. /\ k \in 1..MaxMessages
        /\ AllParts(k) = {<<k, i>> : i \in 0..(PartCount(sent[k].bits) - 1)}
        /\ PartCount(sent[k].bits) \in Nat \ {0}
    BY <1>1, MessageFacts
  <2> QED BY <2>1 DEF Parts
<1>4. inTransit \subseteq Parts /\ lost \subseteq Parts
  BY <1>1, <1>3 DEF TransportInv
<1>5. /\ DOMAIN splitPacketChannelList \subseteq 0..(IdRange - 1)
      /\ \A id \in DOMAIN splitPacketChannelList :
           /\ splitPacketChannelList[id].parts # {}
           /\ splitPacketChannelList[id].parts
                \subseteq {p \in Parts : sent[p[1]].id = id}
  <2>1. DOMAIN splitPacketChannelList \subseteq 0..(IdRange - 1)
    BY <1>1 DEF TransportInv
  <2>2. ASSUME NEW id \in DOMAIN splitPacketChannelList
        PROVE  /\ splitPacketChannelList[id].parts # {}
               /\ splitPacketChannelList[id].parts
                    \subseteq {p \in Parts : sent[p[1]].id = id}
    <3>1. PICK k \in DOMAIN sent : Collects(id, k)
      BY <1>1 DEF TransportInv
    <3> QED BY <1>3, <3>1 DEF Collects
  <2> QED BY <2>1, <2>2
<1>6. /\ sequencedReadIndex \in [Channels -> 0..MaxMessages]
      /\ orderedReadIndex \in [Channels -> 0..MaxMessages]
  BY <1>1 DEF QueueInv, IndexInv
<1> QED BY <1>2, <1>4, <1>5, <1>6 DEF TypeOK

(***************************************************************************)
(* Every variable has its type; what is collected under an id is of        *)
(* messages with that id.                                                  *)
(***************************************************************************)
THEOREM TypeCorrect == Spec => []TypeOK
BY Invariant, IInvTypeOK, PTL

\* What is delivered is whole, by the invariant.
LEMMA IInvWhole == IInv => WholeMessages
<1> SUFFICES ASSUME IInv PROVE WholeMessages
  OBVIOUS
<1>1. Numbered /\ outputQueue \in Seq(Wholes) /\ orderingList \subseteq Wholes
  BY DEF IInv, QueueInv, OutputInv, WaitInv
<1>2. \A i \in DOMAIN outputQueue : outputQueue[i] \in Wholes
  BY <1>1
<1> QED BY <1>1, <1>2, WholesFacts DEF WholeMessages

(***************************************************************************)
(* BuildPacketFromSplitPacketList gives the user messages as they were     *)
(* sent, of all lengths and whatever order their parts arrive in.          *)
(***************************************************************************)
THEOREM OnlyWholeMessages == Spec => []WholeMessages
BY Invariant, IInvWhole, PTL

\* Not all parts of a message are collected: the last one completes it.
LEMMA NotAllHeld ==
  ASSUME Numbered, TransportInv, NEW k \in DOMAIN sent,
         \A p \in AllParts(k) : IsHeld(p)
  PROVE  FALSE
<1>1. /\ AllParts(k) = {<<k, i>> : i \in 0..(PartCount(sent[k].bits) - 1)}
      /\ PartCount(sent[k].bits) \in Nat \ {0}
      /\ \A p \in AllParts(k) : p[1] = k
  BY MessageFacts
\* Every collected part of k is in the channel with k's id.
<1>2. ASSUME NEW p \in AllParts(k)
      PROVE  /\ sent[k].id \in DOMAIN splitPacketChannelList
             /\ p \in splitPacketChannelList[sent[k].id].parts
             /\ Collects(sent[k].id, k)
  <2>1. PICK id \in DOMAIN splitPacketChannelList :
          p \in splitPacketChannelList[id].parts
    BY DEF IsHeld
  <2>2. PICK j \in DOMAIN sent : Collects(id, j)
    BY DEF TransportInv
  <2>3. p[1] = j
    BY <2>1, <2>2, MessageFacts DEF Collects
  <2> QED BY <1>1, <2>1, <2>2, <2>3 DEF Collects
<1>3. <<k, 0>> \in AllParts(k)
  BY <1>1
<1> QED BY <1>2, <1>3 DEF Collects

\* A reliable message that arrived was taken, or is too old.
LEMMA ArrivedFacts ==
  ASSUME IInv, NEW k \in DOMAIN sent, IsReliable(Reliability(k)), HasArrived(k)
  PROVE  Taken(k) \/ (IsSequenced(Reliability(k)) /\ IsOlder(<<k, 0>>))
<1>1. Numbered /\ TransportInv /\ ReliableInv
  BY DEF IInv
<1>2. \A p \in AllParts(k) : p \notin inTransit \cup lost
  BY DEF HasArrived, AllParts
<1> QED BY <1>1, <1>2, NotAllHeld DEF ReliableInv

\* What has arrived and is not delivered waits for something, by the invariant.
LEMMA IInvStranded == IInv => NothingIsStranded
<1> SUFFICES ASSUME IInv, NEW k \in DOMAIN sent,
                    IsReliable(Reliability(k)), HasArrived(k),
                    ~IsDelivered(k),
                    ~(IsSequenced(Reliability(k)) /\ IsOlder(<<k, 0>>))
             PROVE  \E j \in DOMAIN sent : IsBehind(k, j) /\ ~HasArrived(j)
  BY DEF NothingIsStranded
<1>1. Numbered /\ QueueInv
  BY DEF IInv
<1>2. PICK w \in orderingList : Head1(w) = k
  BY ArrivedFacts DEF Taken, IsWaiting
<1> DEFINE s == sent[k].stream
<1>3. /\ IsOrdered(Reliability(k))
      /\ orderedReadIndex[Channel(k)] < OrderingIndex(k)
  BY <1>1, <1>2 DEF QueueInv, WaitInv
<1>4. PICK n \in Nat : n = orderedReadIndex[Channel(k)]
  <2>1. Channel(k) \in Channels
    BY <1>1, MessageFacts
  <2> QED BY <1>1, <2>1, SplitAssumption DEF QueueInv, IndexInv
<1>5. /\ OrderingIndex(k) < NextIndex(s) /\ OrderingIndex(k) \in Nat
      /\ NextIndex(s) \in Nat
  BY <1>1, <1>3, IndexFacts
<1>6. n < NextIndex(s)
  BY <1>3, <1>4, <1>5
\* The message with the number the channel waits for.
<1>7. PICK j \in Class(s) : OrderingIndex(j) = n
  <2>1. s \in Streams
    BY <1>1, MessageFacts
  <2> QED BY <1>1, <1>6, <2>1 DEF Numbered
<1>8. /\ j \in DOMAIN sent /\ Channel(j) = Channel(k)
      /\ IsOrdered(Reliability(j)) /\ IsReliable(Reliability(j))
      /\ ~IsSequenced(Reliability(j))
  BY <1>3, <1>7, KindFacts DEF Class, Alike, Channel, Reliability
<1>9. j < k
  BY <1>1, <1>3, <1>4, <1>7, <1>8, KindFacts, IndexFacts
<1>10. ~IsDelivered(j)
  <2>1. IsDelivered(j) <=> n < n
    BY <1>1, <1>4, <1>7, <1>8 DEF QueueInv, IndexInv
  <2> QED BY <2>1
<1>11. ~IsWaiting(j)
  <2> SUFFICES ASSUME NEW v \in orderingList, Head1(v) = j PROVE FALSE
    BY DEF IsWaiting
  <2>1. n < n
    BY <1>1, <1>4, <1>7, <1>8 DEF QueueInv, WaitInv
  <2> QED BY <2>1
<1>12. ~HasArrived(j)
  BY <1>8, <1>10, <1>11, ArrivedFacts DEF Taken
<1> QED BY <1>3, <1>8, <1>9, <1>12 DEF IsBehind

(***************************************************************************)
(* A reliable message all of whose parts have arrived is delivered, or     *)
(* waits for an ordered one that has not arrived, or is too old.           *)
(***************************************************************************)
THEOREM NoneIsStranded == Spec => []NothingIsStranded
BY Invariant, IInvStranded, PTL

-----------------------------------------------------------------------------
(* What is delivered in parts keeps the promise of PacketPriority.h.       *)

\* What MessageChannel calls sent and delivered.
Streamed  == [k \in DOMAIN sent |-> sent[k].stream]
Delivered == [i \in DOMAIN outputQueue |-> outputQueue[i][1][1]]

\* The abstract queue is as long as the queue itself.
LEMMA DeliveredFacts ==
  ASSUME IInv
  PROVE  /\ DOMAIN Streamed = DOMAIN sent
         /\ Delivered \in Seq(Nat) /\ Len(Delivered) = Len(outputQueue)
         /\ Len(outputQueue) \in Nat
         /\ DOMAIN Delivered = 1..Len(outputQueue)
         /\ DOMAIN outputQueue = 1..Len(outputQueue)
         /\ \A i \in 1..Len(outputQueue) :
              Delivered[i] = Got(i) /\ Got(i) \in DOMAIN sent
<1>1. Numbered /\ outputQueue \in Seq(Wholes)
  BY DEF IInv, QueueInv, OutputInv
<1>2. PICK m \in Nat : m = Len(outputQueue) /\ DOMAIN outputQueue = 1..m
  BY <1>1
<1>3. DOMAIN Streamed = DOMAIN sent
  BY DEF Streamed
<1>4. /\ DOMAIN Delivered = 1..m
      /\ \A i \in 1..m : Delivered[i] = Got(i)
      /\ Delivered = [i \in 1..m |-> Delivered[i]]
  BY <1>2 DEF Delivered, Got, Head1
<1>5. \A i \in 1..m : Got(i) \in DOMAIN sent
  BY <1>1, <1>2, WholesFacts DEF Got
<1>6. \A k \in DOMAIN sent : k \in Nat
  BY <1>1, MessageFacts
<1>7. Delivered \in [1..m -> Nat]
  BY <1>4, <1>5, <1>6
<1>8. Delivered \in Seq(Nat) /\ Len(Delivered) = m
  BY <1>7
<1> QED BY <1>2, <1>3, <1>4, <1>5, <1>8

\* What was handed on keeps the contract of a message channel.
LEMMA ContractFacts == IInv => Promise!Contract(Streamed, Delivered)
<1> SUFFICES ASSUME IInv PROVE Promise!Contract(Streamed, Delivered)
  OBVIOUS
<1>1. OutputInv
  BY DEF IInv, QueueInv
<1>2. /\ DOMAIN Streamed = DOMAIN sent
      /\ DOMAIN Delivered = 1..Len(outputQueue)
      /\ DOMAIN outputQueue = 1..Len(outputQueue)
      /\ \A i \in 1..Len(outputQueue) :
           Delivered[i] = Got(i) /\ Got(i) \in DOMAIN sent
      /\ Len(outputQueue) \in Nat
  BY DeliveredFacts
<1>3. \A k \in DOMAIN sent :
        /\ Streamed[k] = sent[k].stream
        /\ Promise!IsOrdered(Streamed[k][1]) <=> IsOrdered(Reliability(k))
        /\ Promise!IsSequenced(Streamed[k][1]) <=> IsSequenced(Reliability(k))
        /\ Channel(k) = Streamed[k][2]
  BY DEF Streamed, IsOrdered, IsSequenced, Reliability, Channel
<1>4. Promise!OnlySent(Streamed, Delivered)
  BY <1>2 DEF Promise!OnlySent
<1>5. Promise!AtMostOnce(Delivered)
  BY <1>1, <1>2 DEF Promise!AtMostOnce, OutputInv
<1>6. Promise!InOrder(Streamed, Delivered)
  <2> SUFFICES ASSUME NEW i \in DOMAIN Delivered, NEW k \in DOMAIN Streamed,
                      k < Delivered[i], Streamed[k] = Streamed[Delivered[i]],
                      Promise!IsOrdered(Streamed[k][1])
               PROVE  \E j \in 1..(i - 1) : Delivered[j] = k
    BY DEF Promise!InOrder
  <2>1. \E j \in 1..(i - 1) : Got(j) = k
    BY <1>1, <1>2, <1>3 DEF OutputInv
  <2>2. \A j \in 1..(i - 1) : Delivered[j] = Got(j)
    BY <1>2
  <2> QED BY <2>1, <2>2
<1>7. Promise!InSequence(Streamed, Delivered)
  BY <1>1, <1>2, <1>3 DEF OutputInv, Promise!InSequence
<1> QED BY <1>4, <1>5, <1>6, <1>7 DEF Promise!Contract

\* Send submits a message to the channel.
LEMMA SendSubmits ==
  ASSUME IInv, Send
  PROVE  Promise!Submit
<1>1. PICK s \in Streams, k \in Nat \ {0}, m \in Messages :
        /\ m.stream = s
        /\ DOMAIN sent = 1..(k - 1) /\ DOMAIN sent' = 1..k
        /\ \A j \in DOMAIN sent : sent'[j] = sent[j]
        /\ sent'[k] = m /\ UNCHANGED receiverVars
  BY SendFacts DEF IInv
<1>2. UNCHANGED outputQueue
  BY <1>1 DEF receiverVars
<1>3. \A j \in 1..(k - 1) : sent[j].stream \in Streams
  BY <1>1, MessageFacts DEF IInv
<1>4. PICK a : a = [j \in DOMAIN sent |-> sent[j].stream]
  OBVIOUS
<1>5. a \in Seq(Streams) /\ Len(a) = k - 1 /\ \A j \in 1..(k - 1) : a[j] = sent[j].stream
  <2>1. a \in [1..(k - 1) -> Streams]
    BY <1>1, <1>3, <1>4
  <2>2. k - 1 \in Nat
    OBVIOUS
  <2> QED BY <1>1, <1>4, <2>1, <2>2
<1>6. PICK b : b = [j \in DOMAIN sent' |-> sent'[j].stream]
  OBVIOUS
<1>7. /\ b = [j \in 1..k |-> b[j]] /\ DOMAIN b = 1..k
      /\ \A j \in 1..(k - 1) : b[j] = a[j]
      /\ b[k] = s
  BY <1>1, <1>5, <1>6
<1>8. Append(a, s) = b
  <2>0. \A j \in 1..k : j = k \/ j \in 1..(k - 1)
    OBVIOUS
  <2>1. b \in Seq(Streams) /\ Len(b) = k
    <3>1. \A j \in 1..k : b[j] \in Streams
      BY <1>3, <1>5, <1>7, <2>0
    <3>2. b \in [1..k -> Streams]
      BY <1>7, <3>1
    <3> QED BY <1>7, <3>2
  <2>2. Append(a, s) \in Seq(Streams) /\ Len(Append(a, s)) = k
    BY <1>5
  <2>3. \A j \in 1..k : Append(a, s)[j] = IF j = k THEN s ELSE a[j]
    BY <1>5
  <2>4. \A j \in 1..k : Append(a, s)[j] = b[j]
    BY <1>7, <2>0, <2>3
  <2> QED BY <2>1, <2>2, <2>4, SeqEqual
<1>9. [j \in DOMAIN sent' |-> sent'[j].stream]
        = Append([j \in DOMAIN sent |-> sent[j].stream], s)
  BY <1>4, <1>6, <1>8
<1>10. [i \in DOMAIN outputQueue' |-> outputQueue'[i][1][1]]
         = [i \in DOMAIN outputQueue |-> outputQueue[i][1][1]]
  BY <1>2
<1> QED BY <1>9, <1>10 DEF Promise!Submit

\* What Receive hands on is delivered to the channel's user.
LEMMA ReceiveDelivers ==
  ASSUME IInv, IInv', UNCHANGED sent, Len(outputQueue') > Len(outputQueue),
         SubSeq(outputQueue', 1, Len(outputQueue)) = outputQueue
  PROVE  Promise!Deliver
<1>1. PICK m \in Nat, n \in Nat : m = Len(outputQueue) /\ n = Len(outputQueue')
  <2>1. outputQueue \in Seq(Wholes) /\ outputQueue' \in Seq(Wholes')
    BY DEF IInv, QueueInv, OutputInv
  <2>2. Len(outputQueue) \in Nat /\ Len(outputQueue') \in Nat
    BY <2>1
  <2> QED BY <2>2
<1>2. /\ Delivered \in Seq(Nat) /\ Len(Delivered) = m
      /\ DOMAIN outputQueue = 1..m
      /\ \A i \in 1..m : Delivered[i] = Got(i)
  BY <1>1, DeliveredFacts
<1>3. /\ Delivered' \in Seq(Nat) /\ Len(Delivered') = n
      /\ DOMAIN outputQueue' = 1..n
  <2>1. DOMAIN outputQueue' = 1..n
    <3>1. outputQueue' \in Seq(Wholes')
      BY DEF IInv, QueueInv, OutputInv
    <3> QED BY <1>1, <3>1
  <2>2. \A i \in 1..n : outputQueue'[i][1][1] \in Nat
    <3>1. Numbered' /\ outputQueue' \in Seq(Wholes')
      BY DEF IInv, QueueInv, OutputInv
    <3>2. Wholes' = Wholes /\ Numbered
      BY SentStays DEF IInv
    <3>3. \A i \in 1..n : outputQueue'[i] \in Wholes
      BY <2>1, <3>1, <3>2
    <3>4. \A w \in Wholes : Head1(w) \in Nat
      BY <3>2, WholesFacts, MessageFacts
    <3> QED BY <3>3, <3>4 DEF Head1
  <2>3. Delivered' \in [1..n -> Nat]
    BY <2>1, <2>2 DEF Delivered
  <2> QED BY <2>1, <2>3
<1>4. \A i \in 1..m : outputQueue'[i] = outputQueue[i]
  <2>1. m <= n
    BY <1>1
  <2>2. outputQueue' \in Seq(Wholes')
    BY DEF IInv, QueueInv, OutputInv
  <2>3. \A i \in 1..m : SubSeq(outputQueue', 1, m)[i] = outputQueue'[i]
    BY <1>1, <2>1, <2>2
  <2> QED BY <1>1, <2>3
<1>5. \A i \in 1..m : Delivered'[i] = Delivered[i]
  <2>1. \A i \in 1..m : i \in 1..n
    BY <1>1
  <2> QED BY <1>2, <1>3, <1>4, <2>1 DEF Delivered
<1>6. SubSeq(Delivered', 1, m) = Delivered
  <2>1. PICK a \in Seq(Nat), b \in Seq(Nat) : a = Delivered /\ b = Delivered'
    BY <1>2, <1>3
  <2>2. Len(a) = m /\ Len(b) = n /\ m <= n /\ \A i \in 1..m : b[i] = a[i]
    BY <1>1, <1>2, <1>3, <1>5, <2>1
  <2>3. SubSeq(b, 1, m) = a
    BY <2>2
  <2> QED BY <2>1, <2>3
<1>7. Promise!Contract(Streamed, Delivered')
  <2>1. Promise!Contract(Streamed, Delivered)'
    BY ContractFacts, PTL
  <2> QED BY <2>1 DEF Streamed
<1>8. Len(Delivered') > Len(Delivered) /\ SubSeq(Delivered', 1, Len(Delivered)) = Delivered
  BY <1>1, <1>2, <1>3, <1>6
<1>9. Streamed' = Streamed
  BY DEF Streamed
<1> QED BY <1>7, <1>8, <1>9 DEF Promise!Deliver, Streamed, Delivered

\* Every step is a step of the message channel, or none.
LEMMA StepKeepsPromise ==
  ASSUME IInv, IInv', [Next]_vars
  PROVE  [Promise!Next]_(Promise!vars)
<1>1. CASE Send
  BY <1>1, SendSubmits DEF Promise!Next
<1>2. ASSUME UNCHANGED sent, UNCHANGED outputQueue
      PROVE  UNCHANGED Promise!vars
  BY <1>2 DEF Promise!vars
<1>3. ASSUME NEW part \in inTransit, Receive(part)
      PROVE  Promise!Deliver \/ UNCHANGED Promise!vars
  <2>1. Numbered /\ TransportInv /\ QueueInv /\ TakenInv
    BY DEF IInv
  <2>2. PICK k \in DOMAIN sent : k = part[1] /\ part \in AllParts(k)
    BY <1>3, <2>1, ReceiveFacts
  <2>3. UNCHANGED sent /\ (Keep \/ (~Ignored(part) /\ Push(Whole(k))))
    BY <1>3, <2>1, <2>2, ReceiveFacts
  <2>4. CASE Keep
    BY <1>2, <2>3, <2>4 DEF Keep
  <2>5. CASE ~Ignored(part) /\ Push(Whole(k))
    <3>1. ~Taken(k)
      BY <1>3, <2>1, <2>2 DEF TakenInv
    <3>2. IsSequenced(Reliability(k)) => ~IsOlder(<<k, 0>>)
      BY <2>2, <2>5 DEF Ignored, IsOlder
    <3>3. PushedWell(k)
      BY <2>1, <2>3, <2>5, <3>1, <3>2, PushFacts
    <3> QED BY <1>2, <2>3, <3>3, ReceiveDelivers DEF PushedWell
  <2> QED BY <2>3, <2>4, <2>5
<1>4. ASSUME NEW part \in inTransit, Lose(part)
      PROVE  UNCHANGED Promise!vars
  BY <1>2, <1>4 DEF Lose, senderVars, receiverVars
<1>5. ASSUME NEW id \in DOMAIN splitPacketChannelList, GrowOld(id)
      PROVE  UNCHANGED Promise!vars
  BY <1>2, <1>5 DEF GrowOld, senderVars
<1>6. CASE UNCHANGED vars
  BY <1>2, <1>6 DEF vars, senderVars, receiverVars
<1> QED BY <1>1, <1>3, <1>4, <1>5, <1>6 DEF Next, Promise!Next

(***************************************************************************)
(* Cutting and rebuilding long messages implements the abstract message    *)
(* channel: every message at most once and whole, an ordered one after all *)
(* earlier ones of its channel, a sequenced one after no later one.        *)
(***************************************************************************)
THEOREM Refinement == Spec => KeepsPromise
<1>1. Init => Promise!Init
  BY DEF Init, Promise!Init
<1>2. IInv /\ IInv' /\ [Next]_vars => [Promise!Next]_(Promise!vars)
  BY StepKeepsPromise
<1>3. Spec => []IInv
  BY Invariant
<1> QED BY <1>1, <1>2, <1>3, PTL DEF Spec, KeepsPromise, Promise!Spec
=============================================================================
