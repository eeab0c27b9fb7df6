----------------------- MODULE Acknowledgement_proofs -----------------------
(***************************************************************************)
(* How the acknowledgements of a connection are kept.  DS_RangeList.h is a *)
(* set, for every list and every number: Insert adds the number and        *)
(* nothing else, whichever of its branches is taken, and Serialize divides *)
(* the set into what is sent and what is kept.  With such sets of numbers  *)
(* that wrap, no message is forgotten before it was received.              *)
(***************************************************************************)
EXTENDS RangeList, ResendSets, SequenceTheorems, WellFoundedInduction, TLAPS

\* A number is covered when one of the ranges holds it.
LEMMA CoveredMember ==
  ASSUME NEW r, NEW x
  PROVE  x \in Covered(r) <=>
           \E i \in DOMAIN r : x \in r[i].minIndex .. r[i].maxIndex
  BY DEF Covered

\* What a range list is, entry by entry.
LEMMA RangeListEntries ==
  ASSUME NEW r, IsRangeList(r)
  PROVE  /\ r \in Seq(Ranges) /\ Len(r) \in Nat /\ DOMAIN r = 1..Len(r)
         /\ \A i \in 1..Len(r) :
              /\ r[i] \in Ranges
              /\ r[i].minIndex \in Nat /\ r[i].maxIndex \in Nat
              /\ r[i].minIndex <= r[i].maxIndex
         /\ \A i, j \in 1..Len(r) : i < j => r[i].minIndex < r[j].minIndex
<1>1. /\ r \in Seq(Ranges) /\ Len(r) \in Nat /\ DOMAIN r = 1..Len(r)
      /\ \A i \in 1..Len(r) : r[i] \in Ranges
  BY ElementOfSeq, LenProperties DEF IsRangeList
<1>2. \A i \in 1..Len(r) : r[i].minIndex \in Nat /\ r[i].maxIndex \in Nat
  BY <1>1 DEF Ranges
<1> QED BY <1>1, <1>2 DEF IsRangeList

\* A range of one number is a range.
LEMMA SingleRange ==
  ASSUME NEW n \in Nat
  PROVE  /\ Range1(n) \in Ranges
         /\ Range1(n).minIndex = n /\ Range1(n).maxIndex = n
  BY DEF Range1, Ranges

-----------------------------------------------------------------------------
(* The two searches find what they look for.                               *)

\* Every non-empty set of naturals has a least element.
LEMMA LeastNat ==
  ASSUME NEW T \in SUBSET Nat, T # {}
  PROVE  \E x \in T : \A y \in T : x <= y
<1> DEFINE R == {ss \in Nat \X Nat : ss[1] < ss[2]}
<1>1. IsWellFoundedOn(R, Nat)
  BY NatLessThanWellFounded DEF OpToRel
<1>2. PICK x \in T : \A y \in T : ~ (<<y, x>> \in R)
  <2> HIDE DEF R
  <2> QED BY <1>1, WFMin
<1>3. \A y \in T : ~ (y < x)
  BY <1>2
<1> QED BY <1>2, <1>3

\* The place GetIndexFromKey returns: everything before it starts below n, and
\* the range at it does not.
LEMMA IndexFromKey ==
  ASSUME NEW r, IsRangeList(r), NEW n \in Nat
  PROVE  LET p == GetIndexFromKey(r, n)
         IN  /\ p \in 1..(Len(r) + 1)
             /\ \A i \in 1..(p - 1) : r[i].minIndex < n
             /\ p <= Len(r) => n <= r[p].minIndex
<1> DEFINE Ok == {q \in 1..(Len(r) + 1) : q <= Len(r) => n <= r[q].minIndex}
<1>0. Len(r) \in Nat
  BY RangeListEntries
<1>1. Ok \in SUBSET Nat /\ Ok # {}
  <2>1. Len(r) + 1 \in Ok
    BY <1>0
  <2> QED BY <2>1, <1>0
<1>2. PICK p \in Ok : \A q \in Ok : p <= q
  <2> HIDE DEF Ok
  <2> QED BY <1>1, LeastNat
<1>3. ASSUME NEW i \in 1..(p - 1) PROVE r[i].minIndex < n
  <2>1. i \in 1..Len(r) /\ i \notin Ok
    <3>1. p \in 1..(Len(r) + 1) /\ i < p
      BY <1>0, <1>2
    <3> QED BY <3>1, <1>0, <1>2
  <2> QED BY <2>1, <1>0, RangeListEntries
<1>4. \E q \in 1..(Len(r) + 1) :
        /\ \A i \in 1..(q - 1) : r[i].minIndex < n
        /\ q <= Len(r) => n <= r[q].minIndex
  BY <1>2, <1>3
<1> QED BY <1>4 DEF GetIndexFromKey

\* CountWritten is the length of a prefix.
LEMMA CountWrittenType ==
  ASSUME NEW r, Len(r) \in Nat, NEW maxBits
  PROVE  /\ CountWritten(r, maxBits) \in 0..Len(r)
         /\ CountWritten(r, maxBits) < Len(r)
              => ~Fits(r, CountWritten(r, maxBits) + 1, maxBits)
<1> DEFINE Full == {n \in 0..Len(r) : n < Len(r) => ~Fits(r, n + 1, maxBits)}
<1>1. Full \in SUBSET Nat /\ Full # {}
  <2>1. Len(r) \in Full
    OBVIOUS
  <2> QED BY <2>1
<1>2. PICK n \in Full : \A m \in Full : n <= m
  <2> HIDE DEF Full
  <2> QED BY <1>1, LeastNat
<1>3. ASSUME NEW i \in 1..n PROVE Fits(r, i, maxBits)
  <2>1. i - 1 \in 0..Len(r) /\ i - 1 < n /\ n \in 0..Len(r)
    BY <1>2
  <2>2. i - 1 \notin Full
    <3> HIDE DEF Full
    <3> QED BY <1>2, <2>1
  <2> QED BY <2>1, <2>2
<1>4. \E m \in 0..Len(r) : /\ \A i \in 1..m : Fits(r, i, maxBits)
                           /\ m < Len(r) => ~Fits(r, m + 1, maxBits)
  BY <1>2, <1>3
<1> QED BY <1>4 DEF CountWritten

-----------------------------------------------------------------------------
(* Insertion, branch by branch.                                            *)

IsInserted(s, r, n) == IsRangeList(s) /\ Covered(s) = Covered(r) \cup {n}

\* The first number of an empty list.
LEMMA InsertFirst ==
  ASSUME NEW n \in Nat
  PROVE  IsInserted(<<Range1(n)>>, <<>>, n)
<1> DEFINE s == <<Range1(n)>>
<1>1. s \in Seq(Ranges) /\ DOMAIN s = {1} /\ s[1] = Range1(n)
  BY SingleRange
<1>2. IsRangeList(s)
  <2> HIDE DEF s
  <2> QED BY <1>1, SingleRange DEF IsRangeList
<1>3. Covered(s) = {n}
  <2>1. \A x : x \in Covered(s) <=> x \in n..n
    <3> HIDE DEF s
    <3> QED BY <1>1, SingleRange, CoveredMember
  <2> QED BY <2>1
<1>4. Covered(<<>>) = {}
  BY DEF Covered
<1> QED BY <1>2, <1>3, <1>4 DEF IsInserted

\* Changing one end of one range of a list.
LEMMA ChangeMax ==
  ASSUME NEW r \in Seq(Ranges), NEW p \in 1..Len(r), NEW n \in Nat
  PROVE  LET s == [r EXCEPT ![p].maxIndex = n]
         IN  /\ s \in Seq(Ranges) /\ Len(s) = Len(r) /\ DOMAIN s = 1..Len(r)
             /\ \A i \in 1..Len(r) :
                  /\ s[i].minIndex = r[i].minIndex
                  /\ s[i].maxIndex = IF i = p THEN n ELSE r[i].maxIndex
<1> DEFINE e == [r[p] EXCEPT !.maxIndex = n]
           s == [r EXCEPT ![p] = e]
<1>1. e \in Ranges /\ e.minIndex = r[p].minIndex /\ e.maxIndex = n
  <2>1. r[p] \in Ranges
    BY ElementOfSeq
  <2> QED BY <2>1 DEF Ranges
<1>2. /\ s \in Seq(Ranges) /\ Len(s) = Len(r)
      /\ \A i \in 1..Len(r) : s[i] = IF i = p THEN e ELSE r[i]
  <2> HIDE DEF e
  <2> QED BY <1>1, ExceptSeq
<1>3. DOMAIN s = 1..Len(r)
  <2> HIDE DEF s
  <2> QED BY <1>2, LenProperties
<1>4. s = [r EXCEPT ![p].maxIndex = n]
  OBVIOUS
<1> HIDE DEF s, e
<1> QED BY <1>1, <1>2, <1>3, <1>4

\* Moving the start of one range leaves the others.
LEMMA ChangeMin ==
  ASSUME NEW r \in Seq(Ranges), NEW p \in 1..Len(r), NEW n \in Nat
  PROVE  LET s == [r EXCEPT ![p].minIndex = n]
         IN  /\ s \in Seq(Ranges) /\ Len(s) = Len(r) /\ DOMAIN s = 1..Len(r)
             /\ \A i \in 1..Len(r) :
                  /\ s[i].minIndex = IF i = p THEN n ELSE r[i].minIndex
                  /\ s[i].maxIndex = r[i].maxIndex
<1> DEFINE e == [r[p] EXCEPT !.minIndex = n]
           s == [r EXCEPT ![p] = e]
<1>1. e \in Ranges /\ e.maxIndex = r[p].maxIndex /\ e.minIndex = n
  <2>1. r[p] \in Ranges
    BY ElementOfSeq
  <2> QED BY <2>1 DEF Ranges
<1>2. /\ s \in Seq(Ranges) /\ Len(s) = Len(r)
      /\ \A i \in 1..Len(r) : s[i] = IF i = p THEN e ELSE r[i]
  <2> HIDE DEF e
  <2> QED BY <1>1, ExceptSeq
<1>3. DOMAIN s = 1..Len(r)
  <2> HIDE DEF s
  <2> QED BY <1>2, LenProperties
<1>4. s = [r EXCEPT ![p].minIndex = n]
  OBVIOUS
<1> HIDE DEF s, e
<1> QED BY <1>1, <1>2, <1>3, <1>4

\* A number above the start of every range.
LEMMA InsertLastAdds ==
  ASSUME NEW r, IsRangeList(r), NEW n \in Nat, r # <<>>,
         \A i \in 1..Len(r) : r[i].minIndex < n
  PROVE  IsInserted(InsertLast(r, n), r, n)
<1> DEFINE last == Len(r)
<1>0. last \in 1..Len(r) /\ last \in Nat /\ r \in Seq(Ranges)
  BY RangeListEntries, EmptySeq
<1>1. CASE n = r[last].maxIndex + 1
  <2> DEFINE s == [r EXCEPT ![last].maxIndex = n]
  <2>1. InsertLast(r, n) = s
    BY <1>1 DEF InsertLast
  <2>2. /\ s \in Seq(Ranges) /\ Len(s) = Len(r) /\ DOMAIN s = 1..Len(r)
        /\ \A i \in 1..Len(r) :
             /\ s[i].minIndex = r[i].minIndex
             /\ s[i].maxIndex = IF i = last THEN n ELSE r[i].maxIndex
    BY <1>0, ChangeMax
  <2>3. IsRangeList(s)
    <3> HIDE DEF s
    <3>1. \A i \in 1..Len(r) : s[i].minIndex <= s[i].maxIndex
      <4> HIDE DEF s
      <4>1. \A i \in 1..Len(r) : i # last => s[i].minIndex <= s[i].maxIndex
        BY <2>2, RangeListEntries
      <4>2. s[last].minIndex <= s[last].maxIndex
        <5>1. s[last].minIndex = r[last].minIndex /\ s[last].maxIndex = n
          BY <1>0, <2>2
        <5>2. r[last].minIndex \in Nat /\ r[last].minIndex < n
          BY <1>0, RangeListEntries
        <5> QED BY <5>1, <5>2
      <4> QED BY <4>1, <4>2
    <3>2. \A i, j \in 1..Len(r) : i < j => s[i].minIndex < s[j].minIndex
      BY <2>2, RangeListEntries
    <3> QED BY <2>2, <3>1, <3>2 DEF IsRangeList
  <2>4. ASSUME NEW x PROVE x \in Covered(s) <=> x \in Covered(r) \cup {n}
    <3>1. x \in Covered(s) <=>
            \E i \in 1..Len(r) : x \in s[i].minIndex .. s[i].maxIndex
      BY <2>2, CoveredMember
    <3>2. x \in Covered(r) <=>
            \E i \in 1..Len(r) : x \in r[i].minIndex .. r[i].maxIndex
      BY CoveredMember, RangeListEntries
    <3>3. \A i \in 1..Len(r) : i # last =>
            s[i].minIndex .. s[i].maxIndex = r[i].minIndex .. r[i].maxIndex
      BY <2>2
    <3>4. s[last].minIndex .. s[last].maxIndex
            = (r[last].minIndex .. r[last].maxIndex) \cup {n}
      BY <1>0, <1>1, <2>2, RangeListEntries
    <3> HIDE DEF s
    <3> QED BY <1>0, <3>1, <3>2, <3>3, <3>4
  <2>5. Covered(s) = Covered(r) \cup {n}
    BY <2>4
  <2> QED BY <2>1, <2>3, <2>5 DEF IsInserted
<1>2. CASE n > r[last].maxIndex + 1
  <2> DEFINE s == Append(r, Range1(n))
  <2>1. InsertLast(r, n) = s
    BY <1>0, <1>2, RangeListEntries DEF InsertLast
  <2>2. /\ s \in Seq(Ranges) /\ Len(s) = Len(r) + 1 /\ DOMAIN s = 1..(Len(r) + 1)
        /\ \A i \in 1..Len(r) : s[i] = r[i]
        /\ s[Len(r) + 1] = Range1(n)
    BY <1>0, SingleRange, AppendProperties
  <2>3. IsRangeList(s)
    <3> HIDE DEF s
    <3>1. \A i \in 1..(Len(r) + 1) : s[i].minIndex <= s[i].maxIndex
      <4>1. \A i \in 1..Len(r) : s[i].minIndex <= s[i].maxIndex
        BY <2>2, RangeListEntries
      <4>2. s[Len(r) + 1].minIndex <= s[Len(r) + 1].maxIndex
        BY <2>2, SingleRange
      <4>3. \A i \in 1..(Len(r) + 1) : i \in 1..Len(r) \/ i = Len(r) + 1
        BY <1>0
      <4> QED BY <4>1, <4>2, <4>3
    <3>2. \A i, j \in 1..(Len(r) + 1) : i < j => s[i].minIndex < s[j].minIndex
      <4> SUFFICES ASSUME NEW i \in 1..(Len(r) + 1), NEW j \in 1..(Len(r) + 1),
                          i < j
                   PROVE  s[i].minIndex < s[j].minIndex
        OBVIOUS
      <4> HIDE DEF s
      <4>1. i \in 1..Len(r) /\ (j \in 1..Len(r) \/ j = Len(r) + 1)
        BY <1>0
      <4>2. s[i].minIndex = r[i].minIndex
        BY <2>2, <4>1
      <4>3. CASE j \in 1..Len(r)
        BY <2>2, <4>1, <4>2, <4>3, RangeListEntries
      <4>4. CASE j = Len(r) + 1
        BY <2>2, <4>1, <4>2, <4>4, SingleRange
      <4> QED BY <4>1, <4>3, <4>4
    <3> QED BY <2>2, <3>1, <3>2 DEF IsRangeList
  <2>4. ASSUME NEW x PROVE x \in Covered(s) <=> x \in Covered(r) \cup {n}
    <3>1. x \in Covered(s) <=>
            \E i \in 1..(Len(r) + 1) : x \in s[i].minIndex .. s[i].maxIndex
      BY <2>2, CoveredMember
    <3>2. x \in Covered(r) <=>
            \E i \in 1..Len(r) : x \in r[i].minIndex .. r[i].maxIndex
      BY CoveredMember, RangeListEntries
    <3>3. s[Len(r) + 1].minIndex .. s[Len(r) + 1].maxIndex = {n}
      BY <2>2, SingleRange
    <3> HIDE DEF s
    <3> QED BY <1>0, <2>2, <3>1, <3>2, <3>3
  <2>5. Covered(s) = Covered(r) \cup {n}
    BY <2>4
  <2> QED BY <2>1, <2>3, <2>5 DEF IsInserted
<1>3. CASE ~(n = r[last].maxIndex + 1) /\ ~(n > r[last].maxIndex + 1)
  <2>1. InsertLast(r, n) = r
    BY <1>3 DEF InsertLast
  <2>2. n \in Covered(r)
    <3>1. n \in r[last].minIndex .. r[last].maxIndex
      BY <1>0, <1>3, RangeListEntries
    <3> QED BY <1>0, <3>1, CoveredMember, RangeListEntries
  <2> QED BY <2>1, <2>2 DEF IsInserted
<1> QED BY <1>1, <1>2, <1>3

\* What InsertAt does to a sequence, entry by entry.
LEMMA InsertAtEntries ==
  ASSUME NEW S, NEW r \in Seq(S), NEW e \in S, NEW p \in 1..Len(r)
  PROVE  /\ InsertAt(r, p, e) \in Seq(S)
         /\ Len(InsertAt(r, p, e)) = Len(r) + 1
         /\ \A i \in 1..(Len(r) + 1) :
              InsertAt(r, p, e)[i] = IF i < p THEN r[i]
                                     ELSE IF i = p THEN e ELSE r[i - 1]
<1> DEFINE a == SubSeq(r, 1, p - 1)
           b == SubSeq(r, p, Len(r))
<1>0. Len(r) \in Nat /\ p \in Nat /\ 1 <= p /\ p <= Len(r)
  BY LenProperties
<1>1. \A i \in 1..Len(r) : r[i] \in S
  BY ElementOfSeq
<1>2. /\ a \in Seq(S) /\ Len(a) = p - 1
      /\ \A i \in 1..(p - 1) : a[i] = r[i]
  <2>1. p - 1 \in Int /\ \A i \in 1..(p - 1) : r[i] \in S
    BY <1>0, <1>1
  <2>2. /\ a \in Seq(S)
        /\ Len(a) = IF 1 <= p - 1 THEN (p - 1) - 1 + 1 ELSE 0
        /\ \A i \in 1..((p - 1) - 1 + 1) : a[i] = r[1 + i - 1]
    BY <2>1, SubSeqProperties
  <2> HIDE DEF a
  <2> QED BY <1>0, <2>2
<1>3. /\ b \in Seq(S) /\ Len(b) = Len(r) - p + 1
      /\ \A i \in 1..(Len(r) - p + 1) : b[i] = r[p + i - 1]
  <2>1. p \in Int /\ Len(r) \in Int /\ \A i \in p..Len(r) : r[i] \in S
    BY <1>0, <1>1
  <2>2. /\ b \in Seq(S)
        /\ Len(b) = IF p <= Len(r) THEN Len(r) - p + 1 ELSE 0
        /\ \A i \in 1..(Len(r) - p + 1) : b[i] = r[p + i - 1]
    BY <2>1, SubSeqProperties
  <2> HIDE DEF b
  <2> QED BY <1>0, <2>2
<1>4. <<e>> \in Seq(S) /\ Len(<<e>>) = 1 /\ <<e>>[1] = e
  OBVIOUS
<1> DEFINE one == <<e>>
<1>5. /\ a \o one \in Seq(S) /\ Len(a \o one) = p
      /\ \A i \in 1..p : (a \o one)[i] = IF i < p THEN r[i] ELSE e
  <2> HIDE DEF a, one
  <2>1. one \in Seq(S) /\ Len(one) = 1 /\ one[1] = e
    BY <1>4 DEF one
  <2>2. /\ a \o one \in Seq(S) /\ Len(a \o one) = Len(a) + Len(one)
        /\ \A i \in 1..(Len(a) + Len(one)) :
             (a \o one)[i] = IF i <= Len(a) THEN a[i] ELSE one[i - Len(a)]
    BY <1>2, <2>1, ConcatProperties
  <2> QED BY <1>0, <1>2, <2>1, <2>2
<1> DEFINE c == a \o one
<1>6. InsertAt(r, p, e) = c \o b
  BY DEF InsertAt
<1>7. /\ c \o b \in Seq(S) /\ Len(c \o b) = Len(c) + Len(b)
      /\ \A i \in 1..(Len(c) + Len(b)) :
           (c \o b)[i] = IF i <= Len(c) THEN c[i] ELSE b[i - Len(c)]
  <2> HIDE DEF b, c
  <2> QED BY <1>3, <1>5, ConcatProperties DEF c
<1>8. ASSUME NEW i \in 1..(Len(r) + 1)
      PROVE  (c \o b)[i] = IF i < p THEN r[i] ELSE IF i = p THEN e ELSE r[i - 1]
  <2>1. CASE i <= p
    <3> HIDE DEF b
    <3> QED BY <1>0, <1>3, <1>5, <1>7, <2>1
  <2>2. CASE i > p
    <3>1. i - p \in 1..(Len(r) - p + 1) /\ p + (i - p) - 1 = i - 1
      BY <1>0, <2>2
    <3> HIDE DEF b
    <3> QED BY <1>0, <1>3, <1>5, <1>7, <2>2, <3>1
  <2> QED BY <1>0, <2>1, <2>2
<1> QED
  <2>1. Len(c) + Len(b) = Len(r) + 1
    BY <1>0, <1>3, <1>5
  <2> HIDE DEF b, c
  <2> QED BY <1>6, <1>7, <1>8, <2>1

\* What RemoveAt does to a sequence, entry by entry.
LEMMA RemoveAtEntries ==
  ASSUME NEW S, NEW r \in Seq(S), NEW p \in 1..Len(r)
  PROVE  /\ RemoveAt(r, p) \in Seq(S)
         /\ Len(RemoveAt(r, p)) = Len(r) - 1
         /\ \A i \in 1..(Len(r) - 1) :
              RemoveAt(r, p)[i] = IF i < p THEN r[i] ELSE r[i + 1]
<1> DEFINE a == SubSeq(r, 1, p - 1)
           b == SubSeq(r, p + 1, Len(r))
<1>0. Len(r) \in Nat /\ p \in Nat /\ 1 <= p /\ p <= Len(r)
  BY LenProperties
<1>1. \A i \in 1..Len(r) : r[i] \in S
  BY ElementOfSeq
<1>2. /\ a \in Seq(S) /\ Len(a) = p - 1
      /\ \A i \in 1..(p - 1) : a[i] = r[i]
  <2>1. p - 1 \in Int /\ \A i \in 1..(p - 1) : r[i] \in S
    BY <1>0, <1>1
  <2>2. /\ a \in Seq(S)
        /\ Len(a) = IF 1 <= p - 1 THEN (p - 1) - 1 + 1 ELSE 0
        /\ \A i \in 1..((p - 1) - 1 + 1) : a[i] = r[1 + i - 1]
    BY <2>1, SubSeqProperties
  <2> HIDE DEF a
  <2> QED BY <1>0, <2>2
<1>3. /\ b \in Seq(S) /\ Len(b) = Len(r) - p
      /\ \A i \in 1..(Len(r) - p) : b[i] = r[p + i]
  <2>1. p + 1 \in Int /\ Len(r) \in Int /\ \A i \in (p + 1)..Len(r) : r[i] \in S
    BY <1>0, <1>1
  <2>2. /\ b \in Seq(S)
        /\ Len(b) = IF p + 1 <= Len(r) THEN Len(r) - (p + 1) + 1 ELSE 0
        /\ \A i \in 1..(Len(r) - (p + 1) + 1) : b[i] = r[p + 1 + i - 1]
    BY <2>1, SubSeqProperties
  <2>3. \A i \in 1..(Len(r) - p) : /\ i \in 1..(Len(r) - (p + 1) + 1)
                                   /\ p + 1 + i - 1 = p + i
    BY <1>0
  <2> HIDE DEF b
  <2> QED BY <1>0, <2>2, <2>3
<1>4. RemoveAt(r, p) = a \o b
  BY DEF RemoveAt
<1>5. /\ a \o b \in Seq(S) /\ Len(a \o b) = Len(a) + Len(b)
      /\ \A i \in 1..(Len(a) + Len(b)) :
           (a \o b)[i] = IF i <= Len(a) THEN a[i] ELSE b[i - Len(a)]
  <2> HIDE DEF a, b
  <2> QED BY <1>2, <1>3, ConcatProperties
<1>6. ASSUME NEW i \in 1..(Len(r) - 1)
      PROVE  (a \o b)[i] = IF i < p THEN r[i] ELSE r[i + 1]
  <2> HIDE DEF a, b
  <2>1. i \in 1..(Len(a) + Len(b))
    BY <1>0, <1>2, <1>3
  <2>2. CASE i < p
    BY <1>0, <1>2, <1>5, <2>1, <2>2
  <2>3. CASE ~(i < p)
    <3>1. i - (p - 1) \in 1..(Len(r) - p) /\ p + (i - (p - 1)) = i + 1
      BY <1>0, <2>3
    <3>2. b[i - (p - 1)] = r[i + 1]
      BY <1>3, <3>1
    <3> QED BY <1>0, <1>2, <1>5, <2>1, <2>3, <3>2
  <2> QED BY <2>2, <2>3
<1> QED
  <2> HIDE DEF a, b
  <2>1. Len(a) + Len(b) = Len(r) - 1
    BY <1>0, <1>2, <1>3
  <2> QED BY <1>4, <1>5, <1>6, <2>1

\* A number at or before the start of range p and behind the start of p - 1.
LEMMA InsertBeforeAdds ==
  ASSUME NEW r, IsRangeList(r), NEW n \in Nat, NEW p \in 1..Len(r),
         \A i \in 1..(p - 1) : r[i].minIndex < n, n <= r[p].minIndex
  PROVE  IsInserted(InsertBefore(r, p, n), r, n)
<1>0. /\ Len(r) \in Nat /\ p \in Nat /\ 1 <= p /\ p <= Len(r)
      /\ r \in Seq(Ranges) /\ r[p].minIndex \in Nat /\ r[p].maxIndex \in Nat
      /\ r[p].minIndex <= r[p].maxIndex
  BY RangeListEntries
<1>1. \A x : x \in Covered(r) <=>
               \E i \in 1..Len(r) : x \in r[i].minIndex .. r[i].maxIndex
  BY CoveredMember, RangeListEntries
<1>2. CASE n < r[p].minIndex - 1
  <2> DEFINE s == InsertAt(r, p, Range1(n))
  <2>1. InsertBefore(r, p, n) = s
    BY <1>2 DEF InsertBefore
  <2>2. /\ s \in Seq(Ranges) /\ Len(s) = Len(r) + 1 /\ DOMAIN s = 1..(Len(r) + 1)
        /\ \A i \in 1..(Len(r) + 1) :
             s[i] = IF i < p THEN r[i] ELSE IF i = p THEN Range1(n) ELSE r[i - 1]
    <3>1. /\ s \in Seq(Ranges) /\ Len(s) = Len(r) + 1
          /\ \A i \in 1..(Len(r) + 1) :
             s[i] = IF i < p THEN r[i] ELSE IF i = p THEN Range1(n) ELSE r[i - 1]
      BY <1>0, SingleRange, InsertAtEntries
    <3> HIDE DEF s
    <3> QED BY <3>1, LenProperties
  <2> HIDE DEF s
  <2>3. /\ \A i \in 1..Len(r) : i < p => s[i] = r[i]
        /\ s[p] = Range1(n)
        /\ \A i \in 1..Len(r) : i >= p => s[i + 1] = r[i]
    BY <1>0, <2>2
  <2>4. \A i \in 1..(Len(r) + 1) :
          \/ i \in 1..Len(r) /\ i < p /\ s[i] = r[i]
          \/ i = p /\ s[i] = Range1(n)
          \/ i - 1 \in 1..Len(r) /\ i > p /\ s[i] = r[i - 1]
    BY <1>0, <2>2
  <2>5. IsRangeList(s)
    <3>1. ASSUME NEW i \in 1..(Len(r) + 1)
          PROVE  s[i].minIndex <= s[i].maxIndex
      <4>1. s[i] = Range1(n) \/ \E k \in 1..Len(r) : s[i] = r[k]
        BY <2>4
      <4> QED BY <4>1, SingleRange, RangeListEntries
    <3>2. ASSUME NEW i \in 1..(Len(r) + 1), NEW j \in 1..(Len(r) + 1), i < j
          PROVE  s[i].minIndex < s[j].minIndex
      <4>1. \A k \in 1..Len(r) : k >= p => n < r[k].minIndex
        BY <1>0, <1>2, RangeListEntries
      <4>2. \A k \in 1..Len(r) : k < p => r[k].minIndex < n
        BY <1>0
      <4>3. Range1(n).minIndex = n
        BY SingleRange
      <4>4. CASE i < p
        <5>1. i \in 1..Len(r) /\ s[i] = r[i]
          BY <1>0, <2>3, <4>4
        <5>2. CASE j \in 1..Len(r) /\ j < p /\ s[j] = r[j]
          BY <3>2, <5>1, <5>2, RangeListEntries
        <5>3. CASE j = p /\ s[j] = Range1(n)
          BY <4>2, <4>3, <4>4, <5>1, <5>3
        <5>4. CASE j - 1 \in 1..Len(r) /\ j > p /\ s[j] = r[j - 1]
          <6>1. i < j - 1
            BY <1>0, <4>4, <5>4
          <6> QED BY <5>1, <5>4, <6>1, RangeListEntries
        <5> QED BY <2>4, <5>2, <5>3, <5>4
      <4>5. CASE i = p
        <5>1. j - 1 \in 1..Len(r) /\ j - 1 >= p /\ s[j] = r[j - 1]
          BY <1>0, <2>4, <3>2, <4>5
        <5> QED BY <2>3, <4>1, <4>3, <4>5, <5>1
      <4>6. CASE i > p
        <5>1. j - 1 \in 1..Len(r) /\ s[j] = r[j - 1]
          BY <1>0, <2>4, <3>2, <4>6
        <5>2. i - 1 \in 1..Len(r) /\ s[i] = r[i - 1] /\ i - 1 < j - 1
          BY <1>0, <2>4, <3>2, <4>6
        <5> QED BY <5>1, <5>2, RangeListEntries
      <4> QED BY <1>0, <4>4, <4>5, <4>6
    <3> QED BY <2>2, <3>1, <3>2 DEF IsRangeList
  <2>6. ASSUME NEW x PROVE x \in Covered(s) <=> x \in Covered(r) \cup {n}
    <3>1. x \in Covered(s) <=>
            \E i \in 1..(Len(r) + 1) : x \in s[i].minIndex .. s[i].maxIndex
      BY <2>2, CoveredMember
    <3>2. s[p].minIndex .. s[p].maxIndex = {n}
      BY <2>3, SingleRange
    <3>3. ASSUME NEW i \in 1..(Len(r) + 1), x \in s[i].minIndex .. s[i].maxIndex
          PROVE  x \in Covered(r) \cup {n}
      BY <1>1, <2>4, <3>2, <3>3
    <3>4. ASSUME NEW i \in 1..Len(r), x \in r[i].minIndex .. r[i].maxIndex
          PROVE  x \in Covered(s)
      <4>1. CASE i < p
        <5>1. i \in 1..(Len(r) + 1)
          BY <1>0
        <5> QED BY <2>3, <3>1, <3>4, <4>1, <5>1
      <4>2. CASE i >= p
        <5>1. i + 1 \in 1..(Len(r) + 1)
          BY <1>0
        <5> QED BY <2>3, <3>1, <3>4, <4>2, <5>1
      <4> QED BY <1>0, <4>1, <4>2
    <3>5. n \in Covered(s)
      <4>1. p \in 1..(Len(r) + 1)
        BY <1>0
      <4>2. n \in s[p].minIndex .. s[p].maxIndex
        BY <3>2
      <4> QED BY <2>2, <4>1, <4>2, CoveredMember
    <3> QED BY <1>1, <3>1, <3>3, <3>4, <3>5
  <2>7. Covered(s) = Covered(r) \cup {n}
    BY <2>6
  <2> QED BY <2>1, <2>5, <2>7 DEF IsInserted
<1>3. CASE n = r[p].minIndex - 1 /\ p > 1 /\ r[p - 1].maxIndex + 1 = n
  <2> DEFINE t == [r EXCEPT ![p - 1].maxIndex = r[p].maxIndex]
             s == RemoveAt(t, p)
  <2>0. p - 1 \in 1..Len(r) /\ p - 1 \in Nat
    BY <1>0, <1>3
  <2>1. InsertBefore(r, p, n) = s
    BY <1>3 DEF InsertBefore
  <2>2. /\ t \in Seq(Ranges) /\ Len(t) = Len(r)
        /\ \A i \in 1..Len(r) :
             /\ t[i].minIndex = r[i].minIndex
             /\ t[i].maxIndex = IF i = p - 1 THEN r[p].maxIndex ELSE r[i].maxIndex
    BY <1>0, <2>0, ChangeMax
  <2>3. /\ s \in Seq(Ranges) /\ Len(s) = Len(r) - 1
        /\ \A i \in 1..(Len(r) - 1) : s[i] = IF i < p THEN t[i] ELSE t[i + 1]
    <3> HIDE DEF t
    <3> QED BY <2>2, RemoveAtEntries
  <2>4. DOMAIN s = 1..(Len(r) - 1)
    <3> HIDE DEF s
    <3> QED BY <2>3, LenProperties
  <2> HIDE DEF t, s
  <2>5. /\ \A i \in 1..Len(r) : i < p - 1 => s[i] = t[i]
        /\ s[p - 1] = t[p - 1]
        /\ \A i \in 1..Len(r) : i > p => s[i - 1] = t[i]
    <3>1. ASSUME NEW i \in 1..Len(r), i < p - 1
          PROVE  s[i] = t[i]
      <4>1. i \in 1..(Len(r) - 1) /\ i < p
        BY <1>0, <2>0, <3>1
      <4> QED BY <2>3, <4>1
    <3>2. s[p - 1] = t[p - 1]
      BY <1>0, <2>0, <2>3
    <3>3. ASSUME NEW i \in 1..Len(r), i > p PROVE s[i - 1] = t[i]
      <4>1. i - 1 \in 1..(Len(r) - 1) /\ ~(i - 1 < p) /\ (i - 1) + 1 = i
        BY <1>0, <3>3
      <4> QED BY <2>3, <4>1
    <3> QED BY <3>1, <3>2, <3>3
  <2>6. \A i \in 1..(Len(r) - 1) :
          \/ i \in 1..Len(r) /\ i < p /\ s[i] = t[i]
          \/ i + 1 \in 1..Len(r) /\ i + 1 > p /\ s[i] = t[i + 1]
    BY <1>0, <2>3
  <2>7. \A i \in 1..Len(r) : t[i].minIndex <= t[i].maxIndex
    <3>1. r[p - 1].minIndex <= r[p].maxIndex
      BY <1>0, <2>0, RangeListEntries
    <3> QED BY <2>2, <3>1, RangeListEntries
  <2>8. IsRangeList(s)
    <3>1. \A i \in 1..(Len(r) - 1) : s[i].minIndex <= s[i].maxIndex
      BY <2>6, <2>7
    <3>2. ASSUME NEW i \in 1..(Len(r) - 1), NEW j \in 1..(Len(r) - 1), i < j
          PROVE  s[i].minIndex < s[j].minIndex
      <4>1. \A k, l \in 1..Len(r) : k < l => t[k].minIndex < t[l].minIndex
        BY <2>2, RangeListEntries
      <4>2. \E k \in 1..Len(r) : /\ s[i] = t[k]
                                /\ k = IF i < p THEN i ELSE i + 1
        BY <1>0, <2>6
      <4>3. \E l \in 1..Len(r) : /\ s[j] = t[l]
                                /\ l = IF j < p THEN j ELSE j + 1
        BY <1>0, <2>6
      <4> QED BY <1>0, <3>2, <4>1, <4>2, <4>3
    <3> QED BY <2>3, <2>4, <3>1, <3>2 DEF IsRangeList
  <2>9. t[p - 1].minIndex .. t[p - 1].maxIndex
          = (r[p - 1].minIndex .. r[p - 1].maxIndex) \cup {n}
              \cup (r[p].minIndex .. r[p].maxIndex)
    <3>1. /\ r[p - 1].minIndex \in Nat /\ r[p - 1].maxIndex \in Nat
          /\ r[p - 1].minIndex <= r[p - 1].maxIndex
      BY <2>0, RangeListEntries
    <3>2. t[p - 1].minIndex = r[p - 1].minIndex /\ t[p - 1].maxIndex = r[p].maxIndex
      BY <2>0, <2>2
    <3> QED BY <1>0, <1>3, <3>1, <3>2
  <2>10. \A i \in 1..Len(r) : i # p - 1 =>
           t[i].minIndex .. t[i].maxIndex = r[i].minIndex .. r[i].maxIndex
    BY <2>2
  <2>11. ASSUME NEW x PROVE x \in Covered(s) <=> x \in Covered(r) \cup {n}
    <3>1. x \in Covered(s) <=>
            \E i \in 1..(Len(r) - 1) : x \in s[i].minIndex .. s[i].maxIndex
      BY <2>4, CoveredMember
    <3>2. ASSUME NEW i \in 1..(Len(r) - 1), x \in s[i].minIndex .. s[i].maxIndex
          PROVE  x \in Covered(r) \cup {n}
      <4>1. PICK k \in 1..Len(r) : s[i] = t[k]
        BY <2>6
      <4>2. CASE k = p - 1
        BY <1>0, <1>1, <2>0, <2>9, <3>2, <4>1, <4>2
      <4>3. CASE k # p - 1
        BY <1>1, <2>10, <3>2, <4>1, <4>3
      <4> QED BY <4>2, <4>3
    <3>3. \A y \in t[p - 1].minIndex .. t[p - 1].maxIndex : y \in Covered(s)
      <4>1. p - 1 \in 1..(Len(r) - 1)
        BY <1>0, <2>0
      <4> QED BY <2>4, <2>5, <4>1, CoveredMember
    <3>4. ASSUME NEW i \in 1..Len(r), x \in r[i].minIndex .. r[i].maxIndex
          PROVE  x \in Covered(s)
      <4>1. CASE i = p - 1 \/ i = p
        BY <2>9, <3>3, <3>4, <4>1
      <4>2. CASE i < p - 1
        <5>1. i \in 1..(Len(r) - 1)
          BY <1>0, <4>2
        <5>2. x \in s[i].minIndex .. s[i].maxIndex
          <6>1. s[i] = t[i] /\ i # p - 1
            BY <1>0, <2>5, <4>2
          <6> QED BY <2>10, <3>4, <6>1
        <5> QED BY <3>1, <5>1, <5>2
      <4>3. CASE i > p
        <5>1. i - 1 \in 1..(Len(r) - 1) /\ i # p - 1
          BY <1>0, <4>3
        <5>2. x \in s[i - 1].minIndex .. s[i - 1].maxIndex
          <6>1. s[i - 1] = t[i] /\ i # p - 1
            BY <1>0, <2>5, <4>3
          <6> QED BY <2>10, <3>4, <6>1
        <5> QED BY <3>1, <5>1, <5>2
      <4> QED BY <1>0, <4>1, <4>2, <4>3
    <3>5. n \in Covered(s)
      BY <2>9, <3>3
    <3> QED BY <1>1, <3>1, <3>2, <3>4, <3>5
  <2>12. Covered(s) = Covered(r) \cup {n}
    BY <2>11
  <2> QED BY <2>1, <2>8, <2>12 DEF IsInserted
<1>4. CASE n = r[p].minIndex - 1 /\ ~(p > 1 /\ r[p - 1].maxIndex + 1 = n)
  <2> DEFINE s == [r EXCEPT ![p].minIndex = n]
  <2>1. InsertBefore(r, p, n) = s
    BY <1>4 DEF InsertBefore
  <2>2. /\ s \in Seq(Ranges) /\ Len(s) = Len(r) /\ DOMAIN s = 1..Len(r)
        /\ \A i \in 1..Len(r) :
             /\ s[i].minIndex = IF i = p THEN n ELSE r[i].minIndex
             /\ s[i].maxIndex = r[i].maxIndex
    BY <1>0, ChangeMin
  <2> HIDE DEF s
  <2>3. IsRangeList(s)
    <3>1. \A i \in 1..Len(r) : s[i].minIndex <= s[i].maxIndex
      BY <1>0, <1>4, <2>2, RangeListEntries
    <3>2. ASSUME NEW i \in 1..Len(r), NEW j \in 1..Len(r), i < j
          PROVE  s[i].minIndex < s[j].minIndex
      <4>1. CASE j = p
        <5>1. r[i].minIndex < n
          BY <1>0, <3>2, <4>1
        <5> QED BY <2>2, <3>2, <4>1, <5>1
      <4>2. CASE i = p
        <5>1. r[p].minIndex < r[j].minIndex /\ r[j].minIndex \in Nat
          BY <1>0, <3>2, <4>2, RangeListEntries
        <5> QED BY <1>0, <1>4, <2>2, <3>2, <4>2, <5>1
      <4>3. CASE i # p /\ j # p
        BY <2>2, <3>2, <4>3, RangeListEntries
      <4> QED BY <4>1, <4>2, <4>3
    <3> QED BY <2>2, <3>1, <3>2 DEF IsRangeList
  <2>4. ASSUME NEW x PROVE x \in Covered(s) <=> x \in Covered(r) \cup {n}
    <3>1. x \in Covered(s) <=>
            \E i \in 1..Len(r) : x \in s[i].minIndex .. s[i].maxIndex
      BY <2>2, CoveredMember
    <3>2. s[p].minIndex .. s[p].maxIndex = (r[p].minIndex .. r[p].maxIndex) \cup {n}
      BY <1>0, <1>4, <2>2
    <3>3. \A i \in 1..Len(r) : i # p =>
            s[i].minIndex .. s[i].maxIndex = r[i].minIndex .. r[i].maxIndex
      BY <2>2
    <3> QED BY <1>1, <3>1, <3>2, <3>3
  <2>5. Covered(s) = Covered(r) \cup {n}
    BY <2>4
  <2> QED BY <2>1, <2>3, <2>5 DEF IsInserted
<1>5. CASE n = r[p].minIndex
  <2>1. InsertBefore(r, p, n) = r
    BY <1>0, <1>5 DEF InsertBefore
  <2>2. n \in Covered(r)
    <3>1. n \in r[p].minIndex .. r[p].maxIndex
      BY <1>0, <1>5
    <3> QED BY <1>1, <3>1
  <2> QED BY <2>1, <2>2 DEF IsInserted
<1>6. n < r[p].minIndex - 1 \/ n = r[p].minIndex - 1 \/ n = r[p].minIndex
  BY <1>0
<1> QED BY <1>2, <1>3, <1>4, <1>5, <1>6

\* DS_RangeList::Insert, for every list and every number: the list stays one
\* the binary search can be used on, and it stands for one more number, the
\* one inserted, whichever branch was taken.
THEOREM InsertExact ==
  ASSUME NEW r, IsRangeList(r), NEW n \in Nat
  PROVE  IsRangeList(Insert(r, n)) /\ Covered(Insert(r, n)) = Covered(r) \cup {n}
<1> DEFINE p == GetIndexFromKey(r, n)
<1>1. /\ p \in 1..(Len(r) + 1) /\ Len(r) \in Nat
      /\ \A i \in 1..(p - 1) : r[i].minIndex < n
      /\ p <= Len(r) => n <= r[p].minIndex
  BY IndexFromKey, RangeListEntries
<1>2. Insert(r, n) = IF r = <<>> THEN <<Range1(n)>>
                     ELSE IF p > Len(r) THEN InsertLast(r, n)
                                        ELSE InsertBefore(r, p, n)
  BY DEF Insert
<1> HIDE DEF p
<1>3. CASE r = <<>>
  BY <1>2, <1>3, InsertFirst DEF IsInserted
<1>4. CASE r # <<>> /\ p > Len(r)
  <2>1. \A i \in 1..Len(r) : r[i].minIndex < n
    BY <1>1, <1>4
  <2> QED BY <1>2, <1>4, <2>1, InsertLastAdds DEF IsInserted
<1>5. CASE r # <<>> /\ ~(p > Len(r))
  <2>1. p \in 1..Len(r) /\ n <= r[p].minIndex
    BY <1>1, <1>5
  <2> QED BY <1>1, <1>2, <1>5, <2>1, InsertBeforeAdds DEF IsInserted
<1> QED BY <1>3, <1>4, <1>5

-----------------------------------------------------------------------------
(* Writing the list into a datagram.                                       *)

\* A part of a range list is a range list.
LEMMA PartOfList ==
  ASSUME NEW r, IsRangeList(r), NEW a \in 1..(Len(r) + 1), NEW b \in 0..Len(r)
  PROVE  LET s == SubSeq(r, a, b)
         IN  /\ IsRangeList(s)
             /\ Len(s) = IF a <= b THEN b - a + 1 ELSE 0
             /\ DOMAIN s = 1..(b - a + 1)
             /\ \A i \in 1..(b - a + 1) : a + i - 1 \in a..b /\ s[i] = r[a + i - 1]
<1> DEFINE s == SubSeq(r, a, b)
<1>0. Len(r) \in Nat /\ a \in Nat /\ b \in Nat /\ 1 <= a /\ b <= Len(r)
  BY RangeListEntries
<1>1. /\ s \in Seq(Ranges) /\ Len(s) = IF a <= b THEN b - a + 1 ELSE 0
      /\ \A i \in 1..(b - a + 1) : s[i] = r[a + i - 1]
  <2>1. a \in Int /\ b \in Int /\ \A i \in a..b : r[i] \in Ranges
    BY <1>0, RangeListEntries
  <2> QED BY <2>1, SubSeqProperties
<1> HIDE DEF s
<1>2. DOMAIN s = 1..Len(s) /\ 1..Len(s) = 1..(b - a + 1)
  BY <1>0, <1>1, LenProperties
<1>3. \A i \in 1..(b - a + 1) : a + i - 1 \in a..b /\ a + i - 1 \in 1..Len(r)
  BY <1>0
<1>4. IsRangeList(s)
  <2>1. \A i \in 1..(b - a + 1) : s[i].minIndex <= s[i].maxIndex
    BY <1>1, <1>3, RangeListEntries
  <2>2. ASSUME NEW i \in 1..(b - a + 1), NEW j \in 1..(b - a + 1), i < j
        PROVE  s[i].minIndex < s[j].minIndex
    <3>1. a + i - 1 < a + j - 1
      BY <1>0, <2>2
    <3> QED BY <1>1, <1>3, <3>1, RangeListEntries
  <2> QED BY <1>1, <1>2, <2>1, <2>2 DEF IsRangeList
<1> QED BY <1>1, <1>2, <1>3, <1>4 DEF s

\* DS_RangeList::Serialize, for every list and every limit of bits: what is
\* written and what is kept are range lists that stand for the same numbers
\* as the list before, and the other side can read what is written.
THEOREM SerializeExact ==
  ASSUME NEW r, IsRangeList(r), NEW maxBits
  PROVE  LET written == Written(r, maxBits)
             kept == Kept(r, maxBits)
         IN  /\ IsRangeList(written) /\ IsRangeList(kept)
             /\ Covered(written) \cup Covered(kept) = Covered(r)
             /\ IsReadable(written)
<1> DEFINE n == CountWritten(r, maxBits)
           written == Written(r, maxBits)
           kept == Kept(r, maxBits)
<1>0. n \in 0..Len(r) /\ Len(r) \in Nat /\ n \in Nat
  BY RangeListEntries, CountWrittenType
<1>1. written = SubSeq(r, 1, n) /\ kept = SubSeq(r, n + 1, Len(r))
  BY DEF Written, Kept
<1> HIDE DEF n, written, kept
<1>2. /\ IsRangeList(written) /\ DOMAIN written = 1..n
      /\ \A i \in 1..n : written[i] = r[i]
  <2>1. 1 \in 1..(Len(r) + 1) /\ n \in 0..Len(r) /\ n - 1 + 1 = n
    BY <1>0
  <2>2. /\ IsRangeList(written) /\ DOMAIN written = 1..(n - 1 + 1)
        /\ \A i \in 1..(n - 1 + 1) : written[i] = r[1 + i - 1]
    BY <1>1, <2>1, PartOfList
  <2> QED BY <2>1, <2>2
<1>3. /\ IsRangeList(kept) /\ DOMAIN kept = 1..(Len(r) - n)
      /\ \A i \in 1..(Len(r) - n) : kept[i] = r[n + i]
  <2>1. n + 1 \in 1..(Len(r) + 1) /\ Len(r) \in 0..Len(r)
    BY <1>0
  <2>2. /\ IsRangeList(kept) /\ DOMAIN kept = 1..(Len(r) - (n + 1) + 1)
        /\ \A i \in 1..(Len(r) - (n + 1) + 1) : kept[i] = r[n + 1 + i - 1]
    BY <1>1, <2>1, PartOfList
  <2>3. /\ Len(r) - (n + 1) + 1 = Len(r) - n
        /\ \A i \in 1..(Len(r) - n) : n + 1 + i - 1 = n + i
    BY <1>0
  <2> QED BY <2>2, <2>3
<1>4. ASSUME NEW x
      PROVE  x \in Covered(written) \cup Covered(kept) <=> x \in Covered(r)
  <2>1. ASSUME NEW i \in 1..Len(r), x \in r[i].minIndex .. r[i].maxIndex
        PROVE  x \in Covered(written) \cup Covered(kept)
    <3>1. CASE i <= n
      <4>1. i \in 1..n
        BY <1>0, <3>1
      <4> QED BY <1>2, <2>1, <4>1, CoveredMember
    <3>2. CASE i > n
      <4>1. i - n \in 1..(Len(r) - n) /\ n + (i - n) = i
        BY <1>0, <3>2
      <4> QED BY <1>3, <2>1, <4>1, CoveredMember
    <3> QED BY <1>0, <3>1, <3>2
  <2>2. \A i \in 1..n : i \in 1..Len(r)
    BY <1>0
  <2>3. \A i \in 1..(Len(r) - n) : n + i \in 1..Len(r)
    BY <1>0
  <2>4. DOMAIN r = 1..Len(r)
    BY RangeListEntries
  <2>5. x \in Covered(written) => x \in Covered(r)
    BY <1>2, <2>2, <2>4, CoveredMember
  <2>6. x \in Covered(kept) => x \in Covered(r)
    BY <1>3, <2>3, <2>4, CoveredMember
  <2>7. x \in Covered(r) => x \in Covered(written) \cup Covered(kept)
    BY <2>1, <2>4, CoveredMember
  <2> QED BY <2>5, <2>6, <2>7
<1>5. IsReadable(written)
  BY <1>2 DEF IsReadable, IsRangeList
<1> QED BY <1>2, <1>3, <1>4, <1>5 DEF written, kept

\* Whatever the list, a datagram with room for one range takes at least one:
\* acknowledgements are never stuck behind a list that does not fit.
THEOREM SerializeMoves ==
  ASSUME NEW r, IsRangeList(r), r # <<>>, NEW maxBits \in Nat, maxBits >= 49
  PROVE  Written(r, maxBits) # <<>>
<1>0. Len(r) \in Nat /\ Len(r) # 0 /\ r \in Seq(Ranges)
  BY RangeListEntries, EmptySeq
<1>1. BitsUpTo(r, 0) = 0
  <2> DEFINE bits[i \in 0..0] == IF i = 0 THEN 0 ELSE bits[i - 1] + BitsOf(r[i])
  <2>1. bits = [i \in 0..0 |-> IF i = 0 THEN 0 ELSE bits[i - 1] + BitsOf(r[i])]
    <3> DEFINE e == [i \in 0..0 |-> 0]
    <3>1. e = [i \in 0..0 |-> IF i = 0 THEN 0 ELSE e[i - 1] + BitsOf(r[i])]
      OBVIOUS
    <3> HIDE DEF e
    <3> QED BY <3>1
  <2>2. bits[0] = 0
    <3> HIDE DEF bits
    <3> QED BY <2>1
  <2>3. BitsUpTo(r, 0) = bits[0]
    BY DEF BitsUpTo
  <2> QED BY <2>2, <2>3
<1>2. Fits(r, 1, maxBits)
  BY <1>1 DEF Fits
<1>3. CountWritten(r, maxBits) # 0 /\ CountWritten(r, maxBits) \in 0..Len(r)
  BY <1>0, <1>2, CountWrittenType
<1>4. Len(Written(r, maxBits)) # 0
  <2> DEFINE n == CountWritten(r, maxBits)
  <2>1. n \in 1..Len(r) /\ 1 \in 1..(Len(r) + 1)
    BY <1>0, <1>3
  <2> HIDE DEF n
  <2>2. Len(SubSeq(r, 1, n)) = IF 1 <= n THEN n - 1 + 1 ELSE 0
    BY <1>0, <2>1, PartOfList
  <2>3. Written(r, maxBits) = SubSeq(r, 1, n)
    BY DEF Written, n
  <2> QED BY <2>1, <2>2, <2>3
<1> QED BY <1>4, EmptySeq

-----------------------------------------------------------------------------
(* The sets of numbers, for every size of the number range.                *)

\* The quotient and the remainder of a count.
LEMMA Division ==
  ASSUME NumberRange \in Nat \ {0}
  PROVE  \A x \in Int :
           /\ x \div NumberRange \in Int /\ x % NumberRange \in Numbers
           /\ x = NumberRange * (x \div NumberRange) + (x % NumberRange)
  BY DEF Numbers

\* Only one number of the range is the remainder of a count.
LEMMA RemainderIsUnique ==
  ASSUME NumberRange \in Nat \ {0},
         NEW x \in Int, NEW a \in Int, NEW r \in Numbers,
         x = NumberRange * a + r
  PROVE  x % NumberRange = r
<1> DEFINE q == x \div NumberRange
           m == x % NumberRange
<1>1. q \in Int /\ m \in Numbers /\ x = NumberRange * q + m
  BY Division
<1> HIDE DEF q, m
<1>2. r \in 0..(NumberRange - 1) /\ m \in 0..(NumberRange - 1)
  BY <1>1 DEF Numbers
<1>3. NumberRange * (a - q) = m - r
  BY <1>1, <1>2
<1>4. ~ (a - q >= 1)
  <2> SUFFICES ASSUME a - q >= 1 PROVE FALSE
    OBVIOUS
  <2>1. NumberRange * (a - q) >= NumberRange
    BY <1>1, <1>2
  <2> QED BY <1>2, <1>3, <2>1
<1>5. ~ (a - q <= -1)
  <2> SUFFICES ASSUME a - q <= -1 PROVE FALSE
    OBVIOUS
  <2>1. NumberRange * (a - q) <= -NumberRange
    BY <1>1, <1>2
  <2> QED BY <1>2, <1>3, <2>1
<1>6. a = q
  BY <1>1, <1>4, <1>5
<1> QED BY <1>1, <1>2, <1>3, <1>6 DEF m

\* Of the messages up to c, the last turn of the numbers is current: each is
\* the last one of its number.
LEMMA LastTurnIsCurrent ==
  ASSUME NumberRange \in Nat \ {0},
         NEW c \in Int, NEW k \in (c - NumberRange + 1)..c
  PROVE  c - ((c - 1 - Number(k)) % NumberRange) = k
<1> DEFINE n == Number(k)
           q == (k - 1) \div NumberRange
<1>1. q \in Int /\ n \in Numbers /\ k - 1 = NumberRange * q + n
  BY Division DEF Number
<1> HIDE DEF n, q
<1>2. n \in Int
  BY <1>1 DEF Numbers
<1>3. c - 1 - n = NumberRange * q + (c - k) /\ c - 1 - n \in Int
  BY <1>1, <1>2
<1>4. c - k \in Numbers
  BY DEF Numbers
<1>5. (c - 1 - n) % NumberRange = c - k
  BY <1>1, <1>3, <1>4, RemainderIsUnique
<1> QED BY <1>5 DEF n

\* The current message of a number is one of the last turn and has that number.
LEMMA CurrentIsOfLastTurn ==
  ASSUME NumberRange \in Nat \ {0}, NEW c \in Int, NEW n \in Numbers,
         NEW k, k = c - ((c - 1 - n) % NumberRange)
  PROVE  k \in (c - NumberRange + 1)..c /\ Number(k) = n
<1> DEFINE q == (c - 1 - n) \div NumberRange
           r == (c - 1 - n) % NumberRange
<1>1. n \in Int
  BY DEF Numbers
<1>2. q \in Int /\ r \in Numbers /\ c - 1 - n = NumberRange * q + r /\ k = c - r
  BY <1>1, Division
<1> HIDE DEF q, r
<1>3. k \in (c - NumberRange + 1)..c
  BY <1>2 DEF Numbers
<1>4. k - 1 = NumberRange * q + n /\ k - 1 \in Int
  BY <1>1, <1>2, <1>3
<1>5. (k - 1) % NumberRange = n
  BY <1>2, <1>4, RemainderIsUnique
<1> QED BY <1>3, <1>5 DEF Number

\* A number that no new message takes stays with the message that has it.
LEMMA CurrentStays ==
  ASSUME NumberRange \in Nat \ {0}, count \in Int,
         NEW m \in 1..NumberRange, count' = count + m,
         NEW n \in Numbers, n \notin NewNumbers(m)
  PROVE  Current(n)' = Current(n)
<1> DEFINE k == Current(n)'
<1>1. count' \in Int /\ k = count' - ((count' - 1 - n) % NumberRange)
  BY DEF Current
<1> HIDE DEF k
<1>2. k \in (count' - NumberRange + 1)..count' /\ Number(k) = n
  BY <1>1, CurrentIsOfLastTurn
<1>3. k <= count
  <2> SUFFICES ASSUME k > count PROVE FALSE
    BY <1>2
  <2>1. k - count \in 1..m /\ k = count + (k - count)
    BY <1>2
  <2> QED BY <1>2, <2>1 DEF NewNumbers
<1>4. k \in (count - NumberRange + 1)..count
  BY <1>2, <1>3
<1> QED BY <1>2, <1>4, LastTurnIsCurrent DEF k, Current

\* What NothingIsForgotten needs to be inductive: the sets hold numbers.
Inv ==
  /\ count \in Nat
  /\ unacknowledged \subseteq Numbers
  /\ toAcknowledge \subseteq Numbers /\ datagram \subseteq Numbers
  /\ NothingIsForgotten

\* New messages can be resent, and they take no number that is in use.
LEMMA TransmitStep ==
  ASSUME NumberRange \in Nat \ {0}, Inv, Transmit
  PROVE  Inv'
<1>1. PICK m \in 1..NumberRange :
        /\ NewNumbers(m) \cap (unacknowledged \cup toAcknowledge \cup datagram) = {}
        /\ count' = count + m
        /\ unacknowledged' = unacknowledged \cup NewNumbers(m)
        /\ UNCHANGED <<received, toAcknowledge, datagram>>
  BY DEF Transmit
<1>2. count \in Int /\ count' \in Nat
  BY <1>1 DEF Inv
<1>3. NewNumbers(m) \subseteq Numbers
  BY <1>2, Division DEF NewNumbers, Number
<1>4. \A n \in unacknowledged \cup toAcknowledge \cup datagram :
        Current(n)' = Current(n)
  BY <1>1, <1>2, CurrentStays DEF Inv
<1>5. ASSUME NEW k \in (1..count') \ received
      PROVE  \E n \in unacknowledged' : Current(n)' = k
  <2>1. CASE k \in 1..count
    <3>1. PICK n \in unacknowledged : Current(n) = k
      BY <2>1 DEF Inv, NothingIsForgotten
    <3> QED BY <3>1, <1>1, <1>4
  <2>2. CASE k > count
    <3>1. k - count \in 1..m /\ k = count + (k - count)
      BY <1>1, <1>2, <2>2
    <3>2. Number(k) \in NewNumbers(m)
      BY <3>1 DEF NewNumbers
    <3>3. k \in (count' - NumberRange + 1)..count'
      BY <1>1, <1>2, <2>2
    <3>4. count' - ((count' - 1 - Number(k)) % NumberRange) = k
      <4>1. count' \in Int
        BY <1>2
      <4> QED BY <3>3, <4>1, LastTurnIsCurrent
    <3>5. Current(Number(k))' = k
      BY <3>4 DEF Current, Number
    <3> QED BY <3>2, <3>5, <1>1
  <2> QED BY <2>1, <2>2, <1>2
<1>6. \A n \in toAcknowledge' \cup datagram' : Current(n)' \in received'
  BY <1>1, <1>4 DEF Inv, NothingIsForgotten
<1> QED BY <1>1, <1>2, <1>3, <1>5, <1>6 DEF Inv, NothingIsForgotten, Numbers

\* The other steps leave the count alone, and with it what is current.
LEMMA OtherSteps ==
  ASSUME NumberRange \in Nat \ {0}, Inv,
         Receive \/ SendAcks \/ ReceiveAcks \/ UNCHANGED vars
  PROVE  Inv'
<1>1. count' = count
  BY DEF Receive, SendAcks, ReceiveAcks, vars
<1>2. \A n : Current(n)' = Current(n)
  BY <1>1 DEF Current
<1>3. CASE Receive
  <2>1. PICK n \in unacknowledged :
          /\ received' = received \cup {Current(n)}
          /\ toAcknowledge' = toAcknowledge \cup {n}
          /\ UNCHANGED <<count, unacknowledged, datagram>>
    BY <1>3 DEF Receive
  <2> QED BY <2>1, <1>2 DEF Inv, NothingIsForgotten, Numbers
<1>4. CASE SendAcks
  BY <1>2, <1>4 DEF SendAcks, Inv, NothingIsForgotten, Numbers
<1>5. CASE ReceiveAcks
  <2>1. /\ unacknowledged' = unacknowledged \ datagram
        /\ datagram' \subseteq datagram
        /\ UNCHANGED <<count, received, toAcknowledge>>
    BY <1>5 DEF ReceiveAcks
  <2> QED BY <2>1, <1>2 DEF Inv, NothingIsForgotten, Numbers
<1>6. CASE UNCHANGED vars
  BY <1>2, <1>6 DEF vars, Inv, NothingIsForgotten, Numbers
<1> QED BY <1>3, <1>4, <1>5, <1>6

(***************************************************************************)
(* For every number range, and however often the numbers wrap: a message   *)
(* is kept for resending until it was received, and every acknowledgement  *)
(* that is noted or under way is of the message that has the number now,   *)
(* and that one was received.  A late or repeated datagram                 *)
(* (RemovePacketFromResendList) therefore never drops a message that took  *)
(* the number over.                                                        *)
(***************************************************************************)
THEOREM NeverForgotten ==
  ASSUME NumberRange \in Nat \ {0}
  PROVE  Spec => []NothingIsForgotten
<1>1. Init => Inv
  BY DEF Init, Inv, NothingIsForgotten
<1>2. Inv /\ [Next]_vars => Inv'
  BY TransmitStep, OtherSteps DEF Next
<1>3. Inv => NothingIsForgotten
  BY DEF Inv
<1> QED BY <1>1, <1>2, <1>3, PTL DEF Spec

-----------------------------------------------------------------------------
(* The list of ranges takes the steps of the set.                          *)

\* A range list with a range in it stands for a number.
LEMMA CoveredNonempty ==
  ASSUME NEW r, IsRangeList(r), r # <<>>
  PROVE  Covered(r) # {}
<1>1. 1 \in DOMAIN r
  BY RangeListEntries, EmptySeq
<1>2. r[1].minIndex \in r[1].minIndex .. r[1].maxIndex
  BY <1>1, RangeListEntries
<1> QED BY <1>1, <1>2, CoveredMember

\* GenerateDatagram, on the acknowledgement list as DS_RangeList keeps it: what
\* Serialize writes and keeps is a step the set may take, for every list and
\* every datagram with room for one range, and the list stays one that can be
\* searched.
THEOREM SerializeImplementsSendAcks ==
  ASSUME NEW r, IsRangeList(r), r # <<>>, NEW maxBits \in Nat, maxBits >= 49,
         toAcknowledge = Covered(r),
         datagram' = Covered(Written(r, maxBits)),
         toAcknowledge' = Covered(Kept(r, maxBits)),
         UNCHANGED <<count, received, unacknowledged>>
  PROVE  SendAcks /\ IsRangeList(Kept(r, maxBits)) /\ IsReadable(Written(r, maxBits))
<1>1. /\ IsRangeList(Written(r, maxBits)) /\ IsRangeList(Kept(r, maxBits))
      /\ Covered(Written(r, maxBits)) \cup Covered(Kept(r, maxBits)) = Covered(r)
      /\ IsReadable(Written(r, maxBits))
  BY SerializeExact
<1>2. Covered(Written(r, maxBits)) # {}
  BY <1>1, SerializeMoves, CoveredNonempty
<1> QED BY <1>1, <1>2 DEF SendAcks

\* SendAcknowledgementPacket, on the same list: inserting the number of a message
\* that arrives, first or again, is a step the set may take.
THEOREM InsertImplementsReceive ==
  ASSUME NEW r, IsRangeList(r), NEW n \in unacknowledged, n \in Nat,
         toAcknowledge = Covered(r),
         toAcknowledge' = Covered(Insert(r, n)),
         received' = received \cup {Current(n)},
         UNCHANGED <<count, unacknowledged, datagram>>
  PROVE  Receive /\ IsRangeList(Insert(r, n))
<1>1. IsRangeList(Insert(r, n)) /\ Covered(Insert(r, n)) = Covered(r) \cup {n}
  BY InsertExact
<1> QED BY <1>1 DEF Receive
=============================================================================
