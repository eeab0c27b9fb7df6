----------------------------- MODULE RangeList ------------------------------
(***************************************************************************)
(* raknet/DS_RangeList.h: the set of message numbers still to be           *)
(* acknowledged, kept as a list of ranges that is ordered by the lowest    *)
(* number of each range, and written into a datagram as far as it fits.    *)
(*                                                                         *)
(* The list is not canonical: a number between two ranges that touches the *)
(* range on its left, or lies inside it, gets a range of its own.  What    *)
(* counts is Covered, the set of numbers the list stands for.              *)
(***************************************************************************)
EXTENDS Integers, SequencesExt

Range1(n) == [minIndex |-> n, maxIndex |-> n]

Ranges == [minIndex : Nat, maxIndex : Nat]

\* The numbers a list of ranges stands for.
Covered(ranges) ==
  UNION {ranges[i].minIndex .. ranges[i].maxIndex : i \in DOMAIN ranges}

\* Lists the binary search can be used on: no range is empty, and no two
\* ranges start at the same number.
IsRangeList(ranges) ==
  /\ ranges \in Seq(Ranges)
  /\ \A i \in DOMAIN ranges : ranges[i].minIndex <= ranges[i].maxIndex
  /\ \A i, j \in DOMAIN ranges :
        i < j => ranges[i].minIndex < ranges[j].minIndex

\* OrderedList::GetIndexFromKey with RangeNodeComp: the first range that does
\* not start below n, or the place behind the last one.
GetIndexFromKey(ranges, n) ==
  CHOOSE p \in 1..(Len(ranges) + 1) :
     /\ \A i \in 1..(p - 1) : ranges[i].minIndex < n
     /\ p <= Len(ranges) => n <= ranges[p].minIndex

\* A number above the start of the last range.
InsertLast(ranges, n) ==
  LET last == Len(ranges)
  IN  CASE n = ranges[last].maxIndex + 1 ->
             [ranges EXCEPT ![last].maxIndex = n]
        [] n > ranges[last].maxIndex + 1 -> Append(ranges, Range1(n))
        [] OTHER -> ranges

InsertBefore_mutant(ranges, p, n) ==
  IF n < ranges[p].minIndex THEN [ranges EXCEPT ![p].minIndex = n] ELSE ranges

\* A number at or before the start of range p and behind that of range p - 1.
InsertBefore(ranges, p, n) ==
  CASE n < ranges[p].minIndex - 1 -> InsertAt(ranges, p, Range1(n))
    [] n = ranges[p].minIndex - 1 ->
         IF p > 1 /\ ranges[p - 1].maxIndex + 1 = n
         THEN RemoveAt([ranges EXCEPT
                          ![p - 1].maxIndex = ranges[p].maxIndex], p)
         ELSE [ranges EXCEPT ![p].minIndex = n]
    [] OTHER -> ranges

\* Insert.  The branches for a number inside or right behind range p cannot be
\* reached: p is the first range that does not start below n.
Insert(ranges, n) ==
  LET p == GetIndexFromKey(ranges, n)
  IN  IF ranges = <<>> THEN <<Range1(n)>>
      ELSE IF p > Len(ranges) THEN InsertLast(ranges, n)
                              ELSE InsertBefore(ranges, p, n)
-----------------------------------------------------------------------------
\* Bits of one range: a flag and one number of 16 bits, or two.
BitsOf(range) == IF range.minIndex = range.maxIndex THEN 17 ELSE 33

\* Bits of the first n ranges.
BitsUpTo(ranges, n) ==
  LET bits[i \in 0..n] == IF i = 0 THEN 0
                          ELSE bits[i - 1] + BitsOf(ranges[i])
  IN  bits[n]

\* A range is written while it and the count would fit even as two numbers.
Fits(ranges, n, maxBits) == 16 + BitsUpTo(ranges, n - 1) + 33 <= maxBits

\* Serialize: how many ranges from the front are written.
CountWritten(ranges, maxBits) ==
  CHOOSE n \in 0..Len(ranges) :
     /\ \A i \in 1..n : Fits(ranges, i, maxBits)
     /\ n < Len(ranges) => ~Fits(ranges, n + 1, maxBits)

\* Serialize: what the datagram holds.
Written(ranges, maxBits) == SubSeq(ranges, 1, CountWritten(ranges, maxBits))

Kept_mutant(ranges, maxBits) ==
  SubSeq(ranges, CountWritten(ranges, maxBits) + 2, Len(ranges))

\* Serialize with clearSerialized: what is left for the next datagram.
Kept(ranges, maxBits) ==
  SubSeq(ranges, CountWritten(ranges, maxBits) + 1, Len(ranges))

\* Deserialize refuses the whole list when a range ends before it starts.
IsReadable(ranges) ==
  \A i \in DOMAIN ranges : ranges[i].minIndex <= ranges[i].maxIndex
=============================================================================
