-------------------- MODULE SingleProducerConsumer_proofs --------------------
(***************************************************************************)
(* Proofs about SingleProducerConsumer for all numbers of cells and items, *)
(* all memory contents, and all interleavings of the two threads.          *)
(***************************************************************************)
EXTENDS SingleProducerConsumer, FiniteSetTheorems, SequenceTheorems,
        WellFoundedInduction, NaturalsInduction, TLAPS

-----------------------------------------------------------------------------
(***************************************************************************)
(* The invariant.  cell numbers the N cells from readPointer on, w and     *)
(* ahead are the numbers of the cells at which the writer is.              *)
(***************************************************************************)
Contents == Items \cup {Hole, Nothing}

CellType == [next : Cells, readyToRead : BOOLEAN, object : Contents]

Places ==
  {"idle", "mayBeFree", "full", "adding", "free", "locked", "assigned", "ready"}

TypeInv ==
  /\ DOMAIN ring \subseteq Cells
  /\ ring \in [DOMAIN ring -> CellType]
  /\ writing \in [at : Places, cell : Cells, originalNext : Cells]
  /\ freeing \in BOOLEAN
  /\ held \in Seq(Cells)
  /\ {readPointer, readAheadPointer, writePointer, writeAheadPointer}
       \subseteq DOMAIN ring

\* The number of each cell.
Enumerated(cell, N) ==
  /\ N \in Nat /\ MINIMUM_LIST_SIZE <= N
  /\ \A i \in 0..(N - 1) : cell[i] \in DOMAIN ring
  /\ \A i, j \in 0..(N - 1) : cell[i] = cell[j] => i = j
  /\ \A c \in DOMAIN ring : \E i \in 0..(N - 1) : cell[i] = c

\* The writer has a cell that the reader cannot have yet.
HasCell == writing.at \in {"locked", "assigned", "ready"}

\* The order of the pointers round the ring.
Placed(cell, N, w, ahead) ==
  /\ w \in 0..(N - 1) /\ ahead \in 0..(N - 1)
  /\ readPointer = cell[0] /\ readAheadPointer = cell[Len(held)]
  /\ writePointer = cell[w] /\ writeAheadPointer = cell[ahead]
  /\ Len(held) <= w
  /\ \A k \in 1..Len(held) : held[k] = cell[k - 1]
  /\ HasCell => ahead = w + 1 /\ writing.cell = cell[w]
  /\ ~HasCell => ahead = w
  /\ writing.at \in {"mayBeFree", "adding", "free"} => ahead < N - 1

Follows(cell, N, i) == IF i = N - 1 THEN cell[0] ELSE cell[i + 1]

\* Each cell links to the one after it, but for the one that is being added.
Linked(cell, N, ahead) ==
  /\ \A i \in 0..(N - 1) :
       NextOf(cell[i]) = IF writing.at = "adding" /\ i = ahead + 1
                         THEN cell[i] ELSE Follows(cell, N, i)
  /\ writing.at = "adding" => writing.originalNext = Follows(cell, N, ahead + 1)

\* What waits was assigned; a flag that is set where the writer has not been
\* is garbage.
Filled(cell, N, w, ahead) ==
  /\ writing.at \in {"assigned", "ready"} => ring[cell[w]].object \in Items
  /\ freeing => Len(held) = 1 /\ ring[cell[0]].readyToRead = FALSE
  /\ \A i \in ahead..(N - 1) :
       ring[cell[i]].readyToRead => ring[cell[i]].object = Nothing

IsStale(c) == ring[c].readyToRead /\ ring[c].object = Nothing

\* Why the ring has as many cells as it has.
Small(cell, N, ahead) ==
  /\ \/ N <= MINIMUM_LIST_SIZE \/ N <= MaxQueued + 1
     \/ \E i \in (ahead + 1)..(N - 1) :
          /\ IsStale(cell[i])
          /\ writing.at \in {"adding", "free"} => i # ahead + 1
  /\ writing.at = "full" =>
       \/ N <= MaxQueued
       \/ \E i \in (ahead + 1)..(N - 1) : IsStale(cell[i])

RingInv(cell, N, w, ahead) ==
  /\ Enumerated(cell, N)
  /\ Placed(cell, N, w, ahead)
  /\ Linked(cell, N, ahead)
  /\ Filled(cell, N, w, ahead)
  /\ Small(cell, N, ahead)

IInv == TypeInv /\ \E cell, N, w, ahead : RingInv(cell, N, w, ahead)
-----------------------------------------------------------------------------
(* The walk along the links.                                               *)

\* A set of natural numbers that is not empty has a least element.
LEMMA LeastNat ==
  ASSUME NEW T \in SUBSET Nat, T # {}
  PROVE  \E x \in T : \A y \in T : x <= y
<1> DEFINE R == {ss \in Nat \X Nat : ss[1] < ss[2]}
<1>1. IsWellFoundedOn(R, Nat)
  BY NatLessThanWellFounded DEF OpToRel
<1>2. PICK x \in T : \A y \in T : ~ (<<y, x>> \in R)
  <2> HIDE DEF R
  <2> QED BY <1>1, WFMin
<1>3. \A y \in T : ~ (y < x)
  BY <1>2
<1> QED BY <1>3

\* The ring never has fewer than three cells.
LEMMA Minimum == MINIMUM_LIST_SIZE \in Nat /\ MINIMUM_LIST_SIZE >= 3
<1>1. Cardinality(Cells) \in Nat
  BY QueueAssumption, FS_CardinalityType
<1> QED BY <1>1, QueueAssumption

\* There are N cells.
LEMMA NumCellsIsN ==
  ASSUME NEW cell, NEW N, Enumerated(cell, N)
  PROVE  NumCells = N /\ IsFiniteSet(DOMAIN ring)
<1>1. N \in Nat
  BY DEF Enumerated
<1> DEFINE f == [i \in 1..N |-> cell[i - 1]]
<1>2. f \in [1..N -> DOMAIN ring]
  <2>1. \A i \in 1..N : i - 1 \in 0..(N - 1)
    BY <1>1
  <2> QED BY <2>1 DEF Enumerated
<1>3. \A i, j \in 1..N : f[i] = f[j] => i = j
  <2> SUFFICES ASSUME NEW i \in 1..N, NEW j \in 1..N, f[i] = f[j] PROVE i = j
    OBVIOUS
  <2>1. i - 1 \in 0..(N - 1) /\ j - 1 \in 0..(N - 1) /\ cell[i - 1] = cell[j - 1]
    BY <1>1
  <2>2. i - 1 = j - 1
    BY <2>1 DEF Enumerated
  <2> QED BY <2>2, <1>1
<1>4. \A c \in DOMAIN ring : \E i \in 1..N : f[i] = c
  <2> SUFFICES ASSUME NEW c \in DOMAIN ring PROVE \E i \in 1..N : f[i] = c
    OBVIOUS
  <2>1. PICK i \in 0..(N - 1) : cell[i] = c
    BY DEF Enumerated
  <2>2. i + 1 \in 1..N /\ f[i + 1] = c
    BY <2>1, <1>1
  <2> QED BY <2>2
<1>5. f \in Bijection(1..N, DOMAIN ring)
  <2> HIDE DEF f
  <2> QED BY <1>2, <1>3, <1>4 DEF Bijection, Injection, Surjection, IsInjective
<1>6. ExistsBijection(1..N, DOMAIN ring)
  BY <1>5 DEF ExistsBijection
<1>7. IsFiniteSet(1..N) /\ Cardinality(1..N) = N
  BY <1>1, FS_Interval
<1> QED BY <1>6, <1>7, FS_Bijection, FS_SameCardinalityBij, <1>1 DEF NumCells

\* What the walk finds at its nth step.
Found(cell, N, ahead, n) ==
  IF writing.at = "adding" /\ ahead < n THEN cell[ahead + 1]
  ELSE IF n = N THEN cell[0] ELSE cell[n]

\* The walk meets the cells in their order, and stays at a cell that has no
\* link yet.
LEMMA WalkFinds ==
  ASSUME NEW cell, NEW N, NEW w, NEW ahead, RingInv(cell, N, w, ahead)
  PROVE  \A n \in 0..N : Walk[n] = Found(cell, N, ahead, n)
<1>1. /\ N \in Nat \ {0} /\ NumCells = N /\ w \in 0..(N - 1) /\ ahead \in 0..(N - 1)
      /\ N >= 3 /\ readPointer = cell[0]
      /\ writing.at = "adding" => ahead < N - 1
  <2>1. NumCells = N
    BY NumCellsIsN DEF RingInv
  <2> QED BY <2>1, Minimum DEF RingInv, Enumerated, Placed
<1> DEFINE g == [n \in 0..N |-> Found(cell, N, ahead, n)]
<1>2. \A n \in 1..N : g[n] = NextOf(g[n - 1])
  <2> SUFFICES ASSUME NEW n \in 1..N PROVE g[n] = NextOf(g[n - 1])
    OBVIOUS
  <2>0. n - 1 \in 0..(N - 1) /\ n - 1 \in 0..N /\ n \in 0..N /\ n - 1 # N
        /\ ahead + 1 \in 0..N
    BY <1>1
  <2>1. g[n] = Found(cell, N, ahead, n) /\ g[n - 1] = Found(cell, N, ahead, n - 1)
    BY <2>0
  <2>2. CASE writing.at = "adding" /\ ahead < n - 1
    <3>1. g[n] = cell[ahead + 1] /\ g[n - 1] = cell[ahead + 1]
      BY <2>0, <2>1, <2>2, <1>1 DEF Found
    <3>2. ahead + 1 \in 0..(N - 1)
      BY <2>2, <1>1
    <3> QED BY <3>1, <3>2, <2>2 DEF RingInv, Linked
  <2>3. CASE ~ (writing.at = "adding" /\ ahead < n - 1)
    <3>1. g[n - 1] = cell[n - 1]
      BY <2>0, <2>1, <2>3 DEF Found
    <3>2. NextOf(cell[n - 1]) = Follows(cell, N, n - 1)
      <4>1. ~ (writing.at = "adding" /\ n - 1 = ahead + 1)
        BY <2>3, <1>1
      <4> QED BY <4>1, <2>0 DEF RingInv, Linked
    <3>3. Follows(cell, N, n - 1) = IF n = N THEN cell[0] ELSE cell[n]
      BY <1>1 DEF Follows
    <3>4. g[n] = IF n = N THEN cell[0] ELSE cell[n]
      <4>1. CASE writing.at = "adding" /\ ahead < n
        <5>1. ahead + 1 = n /\ n # N
          BY <4>1, <2>3, <1>1
        <5> QED BY <5>1, <4>1, <2>1 DEF Found
      <4>2. CASE ~ (writing.at = "adding" /\ ahead < n)
        BY <4>2, <2>1 DEF Found
      <4> QED BY <4>1, <4>2
    <3> QED BY <3>1, <3>2, <3>3, <3>4
  <2> QED BY <2>2, <2>3
<1>3. g[0] = readPointer
  BY <1>1 DEF Found
<1>4. g = [n \in 0..NumCells |-> IF n = 0 THEN readPointer ELSE NextOf(g[n - 1])]
  <2>1. \A n \in 0..N : n = 0 \/ n \in 1..N
    BY <1>1
  <2>2. \A n \in 0..N : g[n] = IF n = 0 THEN readPointer ELSE NextOf(g[n - 1])
    BY <2>1, <1>2, <1>3, <1>1
  <2>3. g = [n \in 0..N |-> g[n]]
    OBVIOUS
  <2> HIDE DEF g
  <2> QED BY <2>2, <2>3, <1>1
<1>5. Walk = [n \in 0..NumCells |-> IF n = 0 THEN readPointer ELSE NextOf(Walk[n - 1])]
  <2> HIDE DEF g
  <2>1. \E f : f = [n \in 0..NumCells |-> IF n = 0 THEN readPointer ELSE NextOf(f[n - 1])]
    BY <1>4
  <2>2. Walk = CHOOSE f : f = [n \in 0..NumCells |-> IF n = 0 THEN readPointer ELSE NextOf(f[n - 1])]
    BY DEF Walk
  <2> QED BY <2>1, <2>2
<1>6. \A n \in 0..N : Walk[n] = IF n = 0 THEN readPointer ELSE NextOf(Walk[n - 1])
  BY <1>5, <1>1
<1> DEFINE T == {n \in 0..N : Walk[n] # g[n]}
<1>7. T = {}
  <2> SUFFICES ASSUME T # {} PROVE FALSE
    OBVIOUS
  <2>1. T \in SUBSET Nat
    BY <1>1
  <2>2. PICK n \in T : \A m \in T : n <= m
    <3> HIDE DEF T
    <3> QED BY <2>1, LeastNat
  <2>3. n \in 0..N /\ n # 0 /\ n \in 1..N /\ n - 1 \in 0..N /\ n - 1 \notin T
    BY <2>2, <1>1, <1>3, <1>6
  <2>4. Walk[n - 1] = g[n - 1]
    BY <2>3
  <2>5. Walk[n] = NextOf(Walk[n - 1])
    BY <2>3, <1>6
  <2>6. g[n] = NextOf(g[n - 1])
    BY <2>3, <1>2
  <2> QED BY <2>2, <2>4, <2>5, <2>6
<1>8. \A n \in 0..N : g[n] = Found(cell, N, ahead, n)
  OBVIOUS
<1> QED BY <1>7, <1>8

\* As far as the writer is, and to the end when nothing is being added.
LEMMA WalkIsCell ==
  ASSUME NEW cell, NEW N, NEW w, NEW ahead, RingInv(cell, N, w, ahead)
  PROVE  /\ NumCells = N
         /\ \A n \in 0..ahead : Walk[n] = cell[n]
         /\ writing.at # "adding" =>
              /\ \A n \in 0..(N - 1) : Walk[n] = cell[n]
              /\ Walk[N] = cell[0]
<1>1. /\ N \in Nat \ {0} /\ NumCells = N /\ ahead \in 0..(N - 1)
  <2>1. NumCells = N
    BY NumCellsIsN DEF RingInv
  <2> QED BY <2>1, Minimum DEF RingInv, Enumerated, Placed
<1>2. \A n \in 0..N : Walk[n] = Found(cell, N, ahead, n)
  BY WalkFinds
<1>3. \A n \in 0..ahead : Found(cell, N, ahead, n) = cell[n] /\ n \in 0..N
  BY <1>1 DEF Found
<1>4. writing.at # "adding" =>
        /\ \A n \in 0..(N - 1) : Found(cell, N, ahead, n) = cell[n] /\ n \in 0..N
        /\ Found(cell, N, ahead, N) = cell[0] /\ N \in 0..N
  BY <1>1 DEF Found
<1> QED BY <1>1, <1>2, <1>3, <1>4

\* How many links lead from readPointer to a cell.
LEMMA StepsTo ==
  ASSUME NEW cell, NEW N, NEW w, NEW ahead, RingInv(cell, N, w, ahead),
         NEW i \in 0..(N - 1), i <= ahead \/ writing.at # "adding"
  PROVE  Steps(cell[i]) = i
<1>1. N \in Nat \ {0} /\ NumCells = N /\ ahead \in 0..(N - 1)
  <2>1. NumCells = N
    BY NumCellsIsN DEF RingInv
  <2> QED BY <2>1, Minimum DEF RingInv, Enumerated, Placed
<1>2. \A n \in 0..i : Walk[n] = cell[n]
  BY <1>1, WalkIsCell
<1> DEFINE Fits(n) == /\ n < NumCells => Walk[n] = cell[i]
                      /\ \A k \in 0..(n - 1) : Walk[k] # cell[i]
<1>3. i \in 0..NumCells /\ Fits(i)
  <2>1. \A k \in 0..(i - 1) : k \in 0..i /\ k \in 0..(N - 1) /\ k # i
    BY <1>1
  <2>2. \A k \in 0..(i - 1) : cell[k] # cell[i]
    BY <2>1 DEF RingInv, Enumerated
  <2> QED BY <1>1, <1>2, <2>1, <2>2
<1>4. ASSUME NEW n \in 0..NumCells, Fits(n) PROVE n = i
  <2>1. CASE n < i
    <3>1. n < NumCells /\ n \in 0..i /\ n \in 0..(N - 1)
      BY <2>1, <1>1
    <3>2. cell[n] = cell[i]
      BY <3>1, <1>2, <1>4
    <3> QED BY <3>1, <3>2 DEF RingInv, Enumerated
  <2>2. CASE i < n
    <3>1. i \in 0..(n - 1) /\ i \in 0..i
      BY <2>2, <1>1
    <3> QED BY <3>1, <1>2, <1>4
  <2> QED BY <2>1, <2>2, <1>1
<1>5. Steps(cell[i]) = CHOOSE n \in 0..NumCells : Fits(n)
  BY DEF Steps
<1> HIDE DEF Fits
<1> QED BY <1>3, <1>4, <1>5

\* The cells that wait are the first w.
LEMMA QueuedCells ==
  ASSUME NEW cell, NEW N, NEW w, NEW ahead, RingInv(cell, N, w, ahead)
  PROVE  /\ Steps(writePointer) = w
         /\ Queued = [k \in 1..w |-> cell[k - 1]]
         /\ Len(Queued) = w
<1>1. N \in Nat \ {0} /\ w \in 0..(N - 1) /\ ahead \in 0..(N - 1) /\ w <= ahead
      /\ writePointer = cell[w]
  BY Minimum DEF RingInv, Enumerated, Placed
<1>2. Steps(writePointer) = w
  BY <1>1, StepsTo
<1>3. \A k \in 1..w : k - 1 \in 0..ahead
  BY <1>1
<1>4. \A k \in 1..w : Walk[k - 1] = cell[k - 1]
  BY <1>3, WalkIsCell
<1>5. Queued = [k \in 1..w |-> Walk[k - 1]]
  BY <1>2 DEF Queued
<1>6. Queued = [k \in 1..w |-> cell[k - 1]]
  BY <1>4, <1>5
<1> QED BY <1>1, <1>2, <1>6

-----------------------------------------------------------------------------
(* What the invariant says.                                                *)

\* What the numbers of the cells are, for arithmetic.
LEMMA ShapeFacts ==
  ASSUME NEW cell, NEW N, NEW w, NEW ahead, RingInv(cell, N, w, ahead)
  PROVE  /\ N \in Nat /\ N >= 3 /\ w \in 0..(N - 1) /\ ahead \in 0..(N - 1)
         /\ w <= ahead /\ ahead <= w + 1
         /\ cell[0] \in DOMAIN ring /\ cell[w] \in DOMAIN ring
         /\ cell[ahead] \in DOMAIN ring
<1>1. /\ N \in Nat /\ N >= 3 /\ w \in 0..(N - 1) /\ ahead \in 0..(N - 1)
  BY Minimum DEF RingInv, Enumerated, Placed
<1>2. w <= ahead /\ ahead <= w + 1
  BY <1>1 DEF RingInv, Placed
<1>3. 0 \in 0..(N - 1)
  BY <1>1
<1> QED BY <1>1, <1>2, <1>3 DEF RingInv, Enumerated

\* The numbering is what RingIsWhole says of the walk.
LEMMA WholeFromInv == ASSUME IInv PROVE RingIsWhole
<1>1. PICK cell, N, w, ahead : RingInv(cell, N, w, ahead)
  BY DEF IInv
<1>2. /\ N \in Nat /\ N >= 3 /\ w \in 0..(N - 1) /\ ahead \in 0..(N - 1)
      /\ w <= ahead
  BY <1>1, ShapeFacts
<1> SUFFICES ASSUME writing.at # "adding"
             PROVE  /\ {Walk[n] : n \in 0..(NumCells - 1)} = DOMAIN ring
                    /\ Walk[NumCells] = readPointer
                    /\ Len(held) <= Steps(writePointer)
                    /\ Steps(writePointer) <= Steps(writeAheadPointer)
  BY DEF RingIsWhole
<1>3. /\ NumCells = N /\ Walk[N] = cell[0]
      /\ \A n \in 0..(N - 1) : Walk[n] = cell[n]
  BY <1>1, WalkIsCell
<1>4. {Walk[n] : n \in 0..(NumCells - 1)} = DOMAIN ring
  BY <1>1, <1>3 DEF RingInv, Enumerated
<1>5. Steps(writePointer) = w
  BY <1>1, QueuedCells
<1>6. Steps(writeAheadPointer) = ahead
  <2>1. Steps(cell[ahead]) = ahead
    BY <1>1, <1>2, StepsTo
  <2> QED BY <2>1, <1>1 DEF RingInv, Placed
<1>7. readPointer = cell[0] /\ Len(held) <= w
  BY <1>1 DEF RingInv, Placed
<1> QED BY <1>2, <1>3, <1>4, <1>5, <1>6, <1>7

\* The cells that are held have smaller numbers than the writer's.
LEMMA NotSharedFromInv == ASSUME IInv PROVE NoCellIsShared
<1>1. PICK cell, N, w, ahead : RingInv(cell, N, w, ahead)
  BY DEF IInv
<1>2. /\ N \in Nat /\ N >= 3 /\ w \in 0..(N - 1) /\ ahead \in 0..(N - 1)
      /\ w <= ahead
  BY <1>1, ShapeFacts
<1> SUFFICES ASSUME NEW k \in DOMAIN held
             PROVE  held[k] # writeAheadPointer /\ (HasCell => held[k] # writing.cell)
  BY DEF NoCellIsShared, HasCell
<1>3. k \in 1..Len(held) /\ Len(held) \in Nat
  <2>1. held \in Seq(Cells)
    BY DEF IInv, TypeInv
  <2> QED BY <2>1
<1>4. k - 1 \in 0..(N - 1) /\ k - 1 < w /\ held[k] = cell[k - 1]
  BY <1>1, <1>2, <1>3 DEF RingInv, Placed
<1>5. cell[k - 1] # cell[w] /\ cell[k - 1] # cell[ahead]
  BY <1>1, <1>2, <1>4 DEF RingInv, Enumerated
<1> QED BY <1>1, <1>4, <1>5 DEF RingInv, Placed

\* The reasons that Small lists are those of RingStaysSmall.
LEMMA SmallFromInv == ASSUME IInv PROVE RingStaysSmall
<1>1. PICK cell, N, w, ahead : RingInv(cell, N, w, ahead)
  BY DEF IInv
<1>2. /\ N \in Nat /\ N >= 3 /\ ahead \in 0..(N - 1)
  BY <1>1, ShapeFacts
<1>3. NumCells = N
  BY <1>1, WalkIsCell
<1>4. CASE N <= MINIMUM_LIST_SIZE \/ N <= MaxQueued + 1
  BY <1>3, <1>4 DEF RingStaysSmall
<1>5. CASE \E i \in (ahead + 1)..(N - 1) : IsStale(cell[i])
  <2>1. PICK i \in (ahead + 1)..(N - 1) : IsStale(cell[i])
    BY <1>5
  <2>2. i \in 0..(N - 1)
    BY <1>2
  <2>3. cell[i] \in DOMAIN ring
    BY <1>1, <2>2 DEF RingInv, Enumerated
  <2> QED BY <2>1, <2>3 DEF RingStaysSmall, HasStaleFlag, IsStale
<1> QED BY <1>1, <1>4, <1>5 DEF RingInv, Small
-----------------------------------------------------------------------------
(* The steps that change no cell.                                          *)

\* The cells and their links stay when ring stays and no cell is being added.
LEMMA SameCells ==
  ASSUME NEW cell, NEW N, NEW w, NEW ahead, NEW up, RingInv(cell, N, w, ahead),
         UNCHANGED ring, writing.at # "adding", writing'.at # "adding"
  PROVE  Enumerated(cell, N)' /\ Linked(cell, N, up)'
<1>1. Enumerated(cell, N)'
  BY DEF RingInv, Enumerated
<1>2. \A c : NextOf(c)' = NextOf(c)
  BY DEF NextOf
<1>3. \A i \in 0..(N - 1) : NextOf(cell[i])' = Follows(cell, N, i)
  BY <1>2 DEF RingInv, Linked
<1> QED BY <1>1, <1>3 DEF Linked, Follows

\* The cell after the one at writeAheadPointer.
LEMMA NextAhead ==
  ASSUME NEW cell, NEW N, NEW w, NEW ahead, RingInv(cell, N, w, ahead)
  PROVE  NextOf(writeAheadPointer) = Follows(cell, N, ahead)
<1>1. ahead # ahead + 1 /\ ahead \in 0..(N - 1) /\ writeAheadPointer = cell[ahead]
  BY ShapeFacts DEF RingInv, Placed
<1> QED BY <1>1 DEF RingInv, Linked

\* The next cell is the reader's only when the ring is full.
LEMMA LookAtReaderKeeps ==
  ASSUME TypeInv, NEW cell, NEW N, NEW w, NEW ahead, RingInv(cell, N, w, ahead),
         LookAtReader
  PROVE  TypeInv' /\ RingInv(cell, N, w, ahead)'
<1>1. /\ writing.at = "idle" /\ writing'.at \in {"full", "mayBeFree"}
      /\ writing'.at = IF IsAtReader(NextOf(writeAheadPointer)) THEN "full" ELSE "mayBeFree"
      /\ writing' \in [at : Places, cell : Cells, originalNext : Cells]
      /\ UNCHANGED <<ring, readPointer, readAheadPointer, freeing, held,
                     writePointer, writeAheadPointer>>
  BY DEF LookAtReader, Goto, TypeInv, Places, readerVars
<1>2. TypeInv'
  BY <1>1 DEF TypeInv
<1>3. N \in Nat /\ N >= 3 /\ w = ahead /\ w \in 0..(N - 1)
  BY <1>1, ShapeFacts DEF RingInv, Placed, HasCell
<1>4. NextOf(writeAheadPointer) = Follows(cell, N, ahead)
  BY NextAhead
<1>5. writing'.at = "full" <=> ahead = N - 1
  <2>1. readPointer = cell[0]
    BY DEF RingInv, Placed
  <2>2. writing'.at = "full" <=> Follows(cell, N, ahead) = cell[0]
    BY <1>1, <1>4, <2>1 DEF IsAtReader
  <2>3. ahead # N - 1 => cell[ahead + 1] # cell[0]
    <3>1. ahead # N - 1 => ahead + 1 \in 0..(N - 1) /\ 0 \in 0..(N - 1) /\ ahead + 1 # 0
      BY <1>3
    <3> QED BY <3>1 DEF RingInv, Enumerated
  <2> QED BY <2>2, <2>3 DEF Follows
<1>6. w < MaxQueued
  BY QueuedCells DEF LookAtReader
<1>7. Placed(cell, N, w, ahead)'
  BY <1>1, <1>3, <1>5 DEF RingInv, Placed, HasCell
<1>8. Filled(cell, N, w, ahead)'
  BY <1>1 DEF RingInv, Filled
<1>9. Small(cell, N, ahead)'
  <2>1. writing'.at = "full" => N <= MaxQueued
    BY <1>3, <1>5, <1>6, QueueAssumption
  <2>2. \A c : IsStale(c)' = IsStale(c)
    BY <1>1 DEF IsStale
  <2>3. \/ N <= MINIMUM_LIST_SIZE \/ N <= MaxQueued + 1
        \/ \E i \in (ahead + 1)..(N - 1) : IsStale(cell[i])'
    BY <2>2 DEF RingInv, Small
  <2> QED BY <1>1, <2>1, <2>3 DEF Small
<1>10. Enumerated(cell, N)' /\ Linked(cell, N, ahead)'
  BY <1>1, SameCells
<1> QED BY <1>2, <1>7, <1>8, <1>9, <1>10 DEF RingInv

\* A flag that is set where the writer has not been is garbage.
LEMMA LookAtFlagKeeps ==
  ASSUME TypeInv, NEW cell, NEW N, NEW w, NEW ahead, RingInv(cell, N, w, ahead),
         LookAtFlag
  PROVE  TypeInv' /\ RingInv(cell, N, w, ahead)'
<1>1. /\ writing.at = "mayBeFree" /\ writing'.at \in {"full", "free"}
      /\ writing'.at = IF ring[NextOf(writeAheadPointer)].readyToRead THEN "full" ELSE "free"
      /\ writing' \in [at : Places, cell : Cells, originalNext : Cells]
      /\ UNCHANGED <<ring, readPointer, readAheadPointer, freeing, held,
                     writePointer, writeAheadPointer>>
  BY DEF LookAtFlag, Goto, TypeInv, Places, readerVars
<1>2. TypeInv'
  BY <1>1 DEF TypeInv
<1>3. N \in Nat /\ N >= 3 /\ w = ahead /\ ahead \in 0..(N - 1) /\ ahead < N - 1
      /\ ahead + 1 \in (ahead + 1)..(N - 1)
  <2>1. w = ahead /\ ahead < N - 1
    BY <1>1 DEF RingInv, Placed, HasCell
  <2> QED BY <2>1, ShapeFacts
<1>4. NextOf(writeAheadPointer) = cell[ahead + 1]
  BY NextAhead, <1>3 DEF Follows
<1>5. /\ writing'.at = "full" => IsStale(cell[ahead + 1])
      /\ writing'.at = "free" => ~ IsStale(cell[ahead + 1])
  <2>1. ahead + 1 \in ahead..(N - 1)
    BY <1>3
  <2> QED BY <1>1, <1>4, <2>1 DEF RingInv, Filled, IsStale
<1>6. Placed(cell, N, w, ahead)'
  BY <1>1, <1>3 DEF RingInv, Placed, HasCell
<1>7. Filled(cell, N, w, ahead)'
  BY <1>1 DEF RingInv, Filled
<1>8. Small(cell, N, ahead)'
  <2>1. \A c : IsStale(c)' = IsStale(c)
    BY <1>1 DEF IsStale
  <2>2. writing'.at = "full" => \E i \in (ahead + 1)..(N - 1) : IsStale(cell[i])'
    BY <1>3, <1>5, <2>1
  <2>3. \/ N <= MINIMUM_LIST_SIZE \/ N <= MaxQueued + 1
        \/ \E i \in (ahead + 1)..(N - 1) :
             /\ IsStale(cell[i])'
             /\ writing'.at \in {"adding", "free"} => i # ahead + 1
    BY <1>1, <1>5, <2>1 DEF RingInv, Small
  <2> QED BY <2>2, <2>3 DEF Small
<1>9. Enumerated(cell, N)' /\ Linked(cell, N, ahead)'
  BY <1>1, SameCells
<1> QED BY <1>2, <1>6, <1>7, <1>8, <1>9 DEF RingInv

\* The writer takes the next cell.
LEMMA WriteLockKeeps ==
  ASSUME TypeInv, NEW cell, NEW N, NEW w, NEW ahead, RingInv(cell, N, w, ahead),
         WriteLock
  PROVE  TypeInv' /\ RingInv(cell, N, w, ahead + 1)'
<1>1. /\ writing.at = "free" /\ writing'.at = "locked"
      /\ writing'.cell = writeAheadPointer
      /\ writeAheadPointer' = NextOf(writeAheadPointer)
      /\ UNCHANGED <<ring, readPointer, readAheadPointer, freeing, held,
                     writePointer>>
  BY DEF WriteLock, TypeInv, Places, readerVars
<1>2. N \in Nat /\ N >= 3 /\ w = ahead /\ ahead \in 0..(N - 1) /\ ahead < N - 1
      /\ ahead + 1 \in 0..(N - 1)
  <2>1. w = ahead /\ ahead < N - 1
    BY <1>1 DEF RingInv, Placed, HasCell
  <2> QED BY <2>1, ShapeFacts
<1>3. NextOf(writeAheadPointer) = cell[ahead + 1]
  BY NextAhead, <1>2 DEF Follows
<1>4. TypeInv'
  <2>1. cell[ahead + 1] \in DOMAIN ring
    BY <1>2 DEF RingInv, Enumerated
  <2>2. writing' \in [at : Places, cell : Cells, originalNext : Cells]
    BY DEF WriteLock, TypeInv, Places
  <2> QED BY <1>1, <1>3, <2>1, <2>2 DEF TypeInv
<1>5. Placed(cell, N, w, ahead + 1)'
  BY <1>1, <1>2, <1>3 DEF RingInv, Placed, HasCell
<1>6. Filled(cell, N, w, ahead + 1)'
  <2>1. \A i \in (ahead + 1)..(N - 1) : i \in ahead..(N - 1)
    BY <1>2
  <2> QED BY <1>1, <2>1 DEF RingInv, Filled
<1>7. Small(cell, N, ahead + 1)'
  <2>1. \A c : IsStale(c)' = IsStale(c)
    BY <1>1 DEF IsStale
  <2>2. \A i \in (ahead + 1)..(N - 1) : i # ahead + 1 => i \in (ahead + 1 + 1)..(N - 1)
    BY <1>2
  <2>3. \/ N <= MINIMUM_LIST_SIZE \/ N <= MaxQueued + 1
        \/ \E i \in (ahead + 1 + 1)..(N - 1) : IsStale(cell[i])'
    BY <1>1, <2>1, <2>2 DEF RingInv, Small
  <2> QED BY <1>1, <2>3 DEF Small
<1>8. Enumerated(cell, N)' /\ Linked(cell, N, ahead + 1)'
  BY <1>1, SameCells
<1> QED BY <1>4, <1>5, <1>6, <1>7, <1>8 DEF RingInv

\* The cell is the reader's.
LEMMA WriteUnlockKeeps ==
  ASSUME TypeInv, NEW cell, NEW N, NEW w, NEW ahead, RingInv(cell, N, w, ahead),
         WriteUnlock
  PROVE  TypeInv' /\ RingInv(cell, N, w + 1, ahead)'
<1>1. /\ writing.at = "ready" /\ writing'.at = "idle"
      /\ writing' \in [at : Places, cell : Cells, originalNext : Cells]
      /\ writePointer' = NextOf(writePointer)
      /\ UNCHANGED <<ring, readPointer, readAheadPointer, freeing, held,
                     writeAheadPointer>>
  BY DEF WriteUnlock, Goto, TypeInv, Places, readerVars
<1>2. N \in Nat /\ N >= 3 /\ ahead = w + 1 /\ w \in 0..(N - 1) /\ w # N - 1
      /\ w + 1 \in 0..(N - 1) /\ Len(held) <= w
  <2>1. ahead = w + 1 /\ Len(held) <= w
    BY <1>1 DEF RingInv, Placed, HasCell
  <2> QED BY <2>1, ShapeFacts
<1>3. NextOf(writePointer) = cell[w + 1]
  <2>1. writePointer = cell[w]
    BY DEF RingInv, Placed
  <2>2. NextOf(cell[w]) = Follows(cell, N, w)
    BY <1>1, <1>2 DEF RingInv, Linked
  <2> QED BY <2>1, <2>2, <1>2 DEF Follows
<1>4. TypeInv'
  <2>1. cell[w + 1] \in DOMAIN ring
    BY <1>2 DEF RingInv, Enumerated
  <2> QED BY <1>1, <1>3, <2>1 DEF TypeInv
<1>5. Placed(cell, N, w + 1, ahead)'
  <2>1. Len(held) \in Nat
    BY DEF TypeInv
  <2> QED BY <1>1, <1>2, <1>3, <2>1 DEF RingInv, Placed, HasCell
<1>6. Filled(cell, N, w + 1, ahead)'
  BY <1>1 DEF RingInv, Filled
<1>7. Small(cell, N, ahead)'
  <2>1. \A c : IsStale(c)' = IsStale(c)
    BY <1>1 DEF IsStale
  <2>3. \/ N <= MINIMUM_LIST_SIZE \/ N <= MaxQueued + 1
        \/ \E i \in (ahead + 1)..(N - 1) : IsStale(cell[i])'
    BY <1>1, <2>1 DEF RingInv, Small
  <2> QED BY <1>1, <2>3 DEF Small
<1>8. Enumerated(cell, N)' /\ Linked(cell, N, ahead)'
  BY <1>1, SameCells
<1> QED BY <1>4, <1>5, <1>6, <1>7, <1>8 DEF RingInv

\* The reader stays behind the writer.
LEMMA ReadLockKeeps ==
  ASSUME TypeInv, NEW cell, NEW N, NEW w, NEW ahead, RingInv(cell, N, w, ahead),
         ReadLock
  PROVE  TypeInv' /\ RingInv(cell, N, w, ahead)' /\ Len(held) < w
<1>1. /\ ~ freeing /\ readAheadPointer # writePointer
      /\ held' = Append(held, readAheadPointer)
      /\ readAheadPointer' = NextOf(readAheadPointer)
      /\ UNCHANGED <<ring, readPointer, freeing, writePointer,
                     writeAheadPointer, writing>>
  BY DEF ReadLock, IsReadable, writerVars
<1>2. N \in Nat /\ N >= 3 /\ w \in 0..(N - 1) /\ ahead \in 0..(N - 1) /\ w <= ahead
  BY ShapeFacts
<1> DEFINE n == Len(held)
<1>3. n \in Nat /\ n < w /\ readAheadPointer = cell[n] /\ n \in 0..(N - 1)
      /\ n + 1 \in 0..(N - 1)
  <2>1. held \in Seq(Cells) /\ n \in Nat
    BY DEF TypeInv
  <2>2. readAheadPointer = cell[n] /\ writePointer = cell[w] /\ n <= w
    BY DEF RingInv, Placed
  <2> QED BY <1>1, <1>2, <2>1, <2>2
<1>4. NextOf(readAheadPointer) = cell[n + 1]
  <2>1. n # N - 1 /\ n # ahead + 1
    BY <1>2, <1>3
  <2>2. NextOf(cell[n]) = Follows(cell, N, n)
    BY <1>3, <2>1 DEF RingInv, Linked
  <2> QED BY <1>3, <2>1, <2>2 DEF Follows
<1>5. /\ Len(held') = n + 1 /\ held' \in Seq(Cells)
      /\ \A k \in 1..(n + 1) : held'[k] = cell[k - 1]
  <2>1. held \in Seq(Cells) /\ readAheadPointer \in Cells
    BY DEF TypeInv
  <2>2. /\ Len(held') = n + 1 /\ held' \in Seq(Cells)
        /\ \A k \in 1..(n + 1) : held'[k] = IF k = n + 1 THEN readAheadPointer ELSE held[k]
    BY <1>1, <2>1
  <2>3. \A k \in 1..n : held[k] = cell[k - 1]
    BY DEF RingInv, Placed
  <2>4. \A k \in 1..(n + 1) : k = n + 1 \/ k \in 1..n
    BY <1>3
  <2>5. (n + 1) - 1 = n
    BY <1>3
  <2> HIDE DEF n
  <2> QED BY <2>2, <2>3, <2>4, <2>5, <1>3
<1>6. TypeInv'
  <2>1. cell[n + 1] \in DOMAIN ring
    BY <1>3 DEF RingInv, Enumerated
  <2> QED BY <1>1, <1>4, <1>5, <2>1 DEF TypeInv
<1>7. Placed(cell, N, w, ahead)'
  <2>1. Len(held') <= w
    BY <1>2, <1>3, <1>5
  <2> QED BY <1>1, <1>4, <1>5, <2>1 DEF RingInv, Placed, HasCell
<1>8. Filled(cell, N, w, ahead)'
  BY <1>1 DEF RingInv, Filled
<1>9. Small(cell, N, ahead)'
  BY <1>1 DEF RingInv, Small, IsStale
<1>10. Enumerated(cell, N)' /\ Linked(cell, N, ahead)'
  BY <1>1 DEF RingInv, Enumerated, Linked, Follows, NextOf
<1> QED BY <1>3, <1>6, <1>7, <1>8, <1>9, <1>10 DEF RingInv

\* The reader is back at the front.
LEMMA CancelReadLockKeeps ==
  ASSUME TypeInv, NEW cell, NEW N, NEW w, NEW ahead, RingInv(cell, N, w, ahead),
         CancelReadLock
  PROVE  TypeInv' /\ RingInv(cell, N, w, ahead)'
<1>1. /\ ~ freeing /\ held # <<>> /\ held' = <<>> /\ readAheadPointer' = held[1]
      /\ UNCHANGED <<ring, readPointer, freeing, writePointer,
                     writeAheadPointer, writing>>
  BY DEF CancelReadLock, writerVars
<1>2. Len(held') = 0 /\ held' \in Seq(Cells)
  BY <1>1
<1>3. held[1] = cell[0]
  <2>1. 1 \in 1..Len(held)
    BY <1>1 DEF TypeInv
  <2> QED BY <2>1 DEF RingInv, Placed
<1>4. TypeInv'
  BY <1>1, <1>2, <1>3, ShapeFacts DEF TypeInv
<1>5. Placed(cell, N, w, ahead)'
  <2>1. \A k \in 1..0 : held'[k] = cell[k - 1]
    OBVIOUS
  <2>2. 0 <= w
    BY ShapeFacts
  <2> QED BY <1>1, <1>2, <1>3, <2>1, <2>2 DEF RingInv, Placed, HasCell
<1>6. Filled(cell, N, w, ahead)'
  BY <1>1 DEF RingInv, Filled
<1>7. Small(cell, N, ahead)'
  BY <1>1 DEF RingInv, Small, IsStale
<1>8. Enumerated(cell, N)' /\ Linked(cell, N, ahead)'
  BY <1>1 DEF RingInv, Enumerated, Linked, Follows, NextOf
<1> QED BY <1>4, <1>5, <1>6, <1>7, <1>8 DEF RingInv

-----------------------------------------------------------------------------
(* The steps that change the flag or the object of a cell.                 *)

\* What such a step leaves as it was.
OnlyIn(c) ==
  /\ DOMAIN ring' = DOMAIN ring
  /\ ring' \in [DOMAIN ring -> CellType]
  /\ \A d \in DOMAIN ring : ring'[d].next = ring[d].next
  /\ \A d \in DOMAIN ring \ {c} : ring'[d] = ring[d]

\* Setting the object of a cell changes nothing else.
LEMMA ObjectSet ==
  ASSUME TypeInv, NEW c \in DOMAIN ring, NEW x \in Contents,
         ring' = [ring EXCEPT ![c].object = x]
  PROVE  OnlyIn(c) /\ ring'[c].object = x /\ ring'[c].readyToRead = ring[c].readyToRead
<1>1. ring \in [DOMAIN ring -> CellType]
  BY DEF TypeInv
<1>2. ring[c] \in CellType
  BY <1>1
<1>3. [ring[c] EXCEPT !.object = x] \in CellType
  BY <1>2 DEF CellType
<1>4. ring' = [ring EXCEPT ![c] = [ring[c] EXCEPT !.object = x]]
  OBVIOUS
<1>5. /\ DOMAIN ring' = DOMAIN ring /\ ring' \in [DOMAIN ring -> CellType]
      /\ ring'[c] = [ring[c] EXCEPT !.object = x]
      /\ \A d \in DOMAIN ring \ {c} : ring'[d] = ring[d]
  BY <1>1, <1>3, <1>4
<1>6. /\ ring'[c].object = x /\ ring'[c].readyToRead = ring[c].readyToRead
      /\ ring'[c].next = ring[c].next
  BY <1>2, <1>5 DEF CellType
<1> QED BY <1>5, <1>6 DEF OnlyIn

\* Setting the flag of a cell changes nothing else.
LEMMA FlagSet ==
  ASSUME TypeInv, NEW c \in DOMAIN ring, NEW x \in BOOLEAN,
         ring' = [ring EXCEPT ![c].readyToRead = x]
  PROVE  OnlyIn(c) /\ ring'[c].readyToRead = x /\ ring'[c].object = ring[c].object
<1>1. ring \in [DOMAIN ring -> CellType]
  BY DEF TypeInv
<1>2. ring[c] \in CellType
  BY <1>1
<1>3. [ring[c] EXCEPT !.readyToRead = x] \in CellType
  BY <1>2 DEF CellType
<1>4. ring' = [ring EXCEPT ![c] = [ring[c] EXCEPT !.readyToRead = x]]
  OBVIOUS
<1>5. /\ DOMAIN ring' = DOMAIN ring /\ ring' \in [DOMAIN ring -> CellType]
      /\ ring'[c] = [ring[c] EXCEPT !.readyToRead = x]
      /\ \A d \in DOMAIN ring \ {c} : ring'[d] = ring[d]
  BY <1>1, <1>3, <1>4
<1>6. /\ ring'[c].readyToRead = x /\ ring'[c].object = ring[c].object
      /\ ring'[c].next = ring[c].next
  BY <1>2, <1>5 DEF CellType
<1> QED BY <1>5, <1>6 DEF OnlyIn

\* The step is in a cell that the writer has passed: what the invariant says
\* of the cells further on stays.
LEMMA BehindTheWriter ==
  ASSUME TypeInv, NEW cell, NEW N, NEW w, NEW ahead, RingInv(cell, N, w, ahead),
         NEW j \in 0..(N - 1), j < ahead, OnlyIn(cell[j]),
         writing'.at = writing.at \/ (HasCell /\ HasCell'),
         writing'.originalNext = writing.originalNext
  PROVE  /\ Enumerated(cell, N)' /\ Linked(cell, N, ahead)' /\ Small(cell, N, ahead)'
         /\ \A i \in ahead..(N - 1) : ring'[cell[i]] = ring[cell[i]]
<1>1. N \in Nat /\ ahead \in 0..(N - 1)
  BY ShapeFacts
<1>2. Enumerated(cell, N)'
  BY DEF RingInv, Enumerated, OnlyIn
<1>3. \A i \in ahead..(N - 1) : ring'[cell[i]] = ring[cell[i]]
  <2> SUFFICES ASSUME NEW i \in ahead..(N - 1) PROVE ring'[cell[i]] = ring[cell[i]]
    OBVIOUS
  <2>1. i \in 0..(N - 1) /\ i # j
    BY <1>1
  <2>2. cell[i] \in DOMAIN ring /\ cell[i] # cell[j]
    BY <2>1 DEF RingInv, Enumerated
  <2> QED BY <2>2 DEF OnlyIn
<1>4. \A i \in 0..(N - 1) : NextOf(cell[i])' = NextOf(cell[i])
  BY DEF RingInv, Enumerated, OnlyIn, NextOf
<1>5. Linked(cell, N, ahead)'
  BY <1>4 DEF RingInv, Linked, Follows, HasCell
<1>6. Small(cell, N, ahead)'
  <2>1. \A i \in (ahead + 1)..(N - 1) : IsStale(cell[i])' = IsStale(cell[i])
    <3>1. \A i \in (ahead + 1)..(N - 1) : i \in ahead..(N - 1)
      BY <1>1
    <3> QED BY <1>3, <3>1 DEF IsStale
  <2>2. writing'.at \in {"adding", "free", "full"} => writing'.at = writing.at
    BY DEF HasCell
  <2>3. Small(cell, N, ahead)
    BY DEF RingInv
  <2> QED BY <2>1, <2>2, <2>3 DEF Small
<1> QED BY <1>2, <1>3, <1>5, <1>6

\* The writer assigns to the cell it took, which does not wait yet.
LEMMA AssignKeeps ==
  ASSUME TypeInv, NEW cell, NEW N, NEW w, NEW ahead, RingInv(cell, N, w, ahead),
         NEW item \in Items, Assign(item)
  PROVE  TypeInv' /\ RingInv(cell, N, w, ahead)' /\ OnlyIn(cell[w])
<1>1. /\ writing.at = "locked" /\ writing'.at = "assigned"
      /\ writing'.cell = writing.cell /\ writing'.originalNext = writing.originalNext
      /\ writing' \in [at : Places, cell : Cells, originalNext : Cells]
      /\ ring' = [ring EXCEPT ![writing.cell].object = item]
      /\ UNCHANGED <<readPointer, readAheadPointer, freeing, held,
                     writePointer, writeAheadPointer>>
  BY DEF Assign, Goto, TypeInv, Places, readerVars
<1>2. N \in Nat /\ N >= 3 /\ ahead = w + 1 /\ w \in 0..(N - 1)
      /\ writing.cell = cell[w] /\ cell[w] \in DOMAIN ring
  BY <1>1, ShapeFacts DEF RingInv, Placed, HasCell
<1>3. OnlyIn(cell[w]) /\ ring'[cell[w]].object = item
      /\ ring'[cell[w]].readyToRead = ring[cell[w]].readyToRead
  BY <1>1, <1>2, ObjectSet DEF Contents
<1>4. TypeInv'
  BY <1>1, <1>3 DEF TypeInv, OnlyIn
<1>5. HasCell /\ HasCell'
  BY <1>1 DEF HasCell
<1>6. Placed(cell, N, w, ahead)'
  BY <1>1, <1>5 DEF RingInv, Placed
<1>7. /\ Enumerated(cell, N)' /\ Linked(cell, N, ahead)' /\ Small(cell, N, ahead)'
      /\ \A i \in ahead..(N - 1) : ring'[cell[i]] = ring[cell[i]]
  <2>1. w < ahead
    BY <1>2
  <2> QED BY <1>1, <1>2, <1>3, <1>5, <2>1, BehindTheWriter
<1>8. Filled(cell, N, w, ahead)'
  <2>1. freeing' => Len(held)' = 1 /\ ring'[cell[0]].readyToRead = FALSE
    <3>1. freeing => Len(held) = 1 /\ ring[cell[0]].readyToRead = FALSE
      BY DEF RingInv, Filled
    <3>2. cell[0] = cell[w] \/ ring'[cell[0]] = ring[cell[0]]
      BY <1>3, ShapeFacts DEF OnlyIn
    <3> QED BY <1>1, <1>3, <3>1, <3>2
  <2> QED BY <1>3, <1>7, <2>1 DEF RingInv, Filled
<1> QED BY <1>3, <1>4, <1>6, <1>7, <1>8 DEF RingInv

\* That cell is not the one the reader gives back.
LEMMA SetReadyKeeps ==
  ASSUME TypeInv, NEW cell, NEW N, NEW w, NEW ahead, RingInv(cell, N, w, ahead),
         SetReady
  PROVE  TypeInv' /\ RingInv(cell, N, w, ahead)' /\ OnlyIn(cell[w])
<1>1. /\ writing.at = "assigned" /\ writing'.at = "ready"
      /\ writing'.cell = writing.cell /\ writing'.originalNext = writing.originalNext
      /\ writing' \in [at : Places, cell : Cells, originalNext : Cells]
      /\ ring' = [ring EXCEPT ![writePointer].readyToRead = TRUE]
      /\ UNCHANGED <<readPointer, readAheadPointer, freeing, held,
                     writePointer, writeAheadPointer>>
  BY DEF SetReady, Goto, TypeInv, Places, readerVars
<1>2. N \in Nat /\ N >= 3 /\ ahead = w + 1 /\ w \in 0..(N - 1)
      /\ writePointer = cell[w] /\ cell[w] \in DOMAIN ring /\ Len(held) <= w
  BY <1>1, ShapeFacts DEF RingInv, Placed, HasCell
<1>3. OnlyIn(cell[w]) /\ ring'[cell[w]].object = ring[cell[w]].object
  BY <1>1, <1>2, FlagSet
<1>4. TypeInv'
  BY <1>1, <1>3 DEF TypeInv, OnlyIn
<1>5. HasCell /\ HasCell'
  BY <1>1 DEF HasCell
<1>6. Placed(cell, N, w, ahead)'
  BY <1>1, <1>5 DEF RingInv, Placed
<1>7. /\ Enumerated(cell, N)' /\ Linked(cell, N, ahead)' /\ Small(cell, N, ahead)'
      /\ \A i \in ahead..(N - 1) : ring'[cell[i]] = ring[cell[i]]
  <2>1. w < ahead
    BY <1>2
  <2>2. writing'.originalNext = writing.originalNext
    BY <1>1
  <2> QED BY <1>2, <1>3, <1>5, <2>1, <2>2, BehindTheWriter
<1>8. Filled(cell, N, w, ahead)'
  <2>1. freeing' => Len(held)' = 1 /\ ring'[cell[0]].readyToRead = FALSE
    <3> SUFFICES ASSUME freeing' PROVE Len(held)' = 1 /\ ring'[cell[0]].readyToRead = FALSE
      OBVIOUS
    <3>1. Len(held) = 1 /\ ring[cell[0]].readyToRead = FALSE
      BY <1>1 DEF RingInv, Filled
    <3>2. w # 0 /\ 0 \in 0..(N - 1)
      BY <1>2, <3>1
    <3>3. cell[0] # cell[w] /\ cell[0] \in DOMAIN ring
      BY <1>2, <3>2 DEF RingInv, Enumerated
    <3> QED BY <1>1, <1>3, <3>1, <3>3 DEF OnlyIn
  <2>2. ring'[cell[w]].object \in Items
    BY <1>1, <1>3 DEF RingInv, Filled
  <2> QED BY <1>7, <2>1, <2>2 DEF RingInv, Filled
<1> QED BY <1>3, <1>4, <1>6, <1>7, <1>8 DEF RingInv

\* The hole is in a cell that the reader holds.
LEMMA MakeHoleKeeps ==
  ASSUME TypeInv, NEW cell, NEW N, NEW w, NEW ahead, RingInv(cell, N, w, ahead),
         MakeHole
  PROVE  /\ TypeInv' /\ RingInv(cell, N, w, ahead)'
         /\ OnlyIn(cell[Len(held) - 1]) /\ ring'[cell[Len(held) - 1]].object = Hole
<1>1. /\ ~ freeing /\ Len(held) > 1
      /\ ring' = [ring EXCEPT ![held[Len(held)]].object = Hole]
      /\ UNCHANGED <<readPointer, readAheadPointer, freeing, held,
                     writePointer, writeAheadPointer, writing>>
  BY DEF MakeHole, readerVars, writerVars
<1>2. N \in Nat /\ N >= 3 /\ w \in 0..(N - 1) /\ ahead \in 0..(N - 1) /\ w <= ahead
      /\ Len(held) <= w
  BY ShapeFacts DEF RingInv, Placed
<1>3. PICK j \in Nat : j = Len(held) - 1
  BY <1>1 DEF TypeInv
<1>4. j \in 0..(N - 1) /\ j < w /\ j < ahead
  BY <1>2, <1>3
<1>5. held[Len(held)] = cell[j] /\ cell[j] \in DOMAIN ring
  <2>1. Len(held) \in 1..Len(held)
    BY <1>1 DEF TypeInv
  <2> QED BY <1>3, <1>4, <2>1 DEF RingInv, Placed, Enumerated
<1>6. OnlyIn(cell[j]) /\ ring'[cell[j]].object = Hole
  BY <1>1, <1>5, ObjectSet DEF Contents
<1>7. TypeInv'
  BY <1>1, <1>6 DEF TypeInv, OnlyIn
<1>8. Placed(cell, N, w, ahead)'
  BY <1>1 DEF RingInv, Placed, HasCell
<1>9. /\ Enumerated(cell, N)' /\ Linked(cell, N, ahead)' /\ Small(cell, N, ahead)'
      /\ \A i \in ahead..(N - 1) : ring'[cell[i]] = ring[cell[i]]
  BY <1>1, <1>4, <1>6, BehindTheWriter
<1>10. Filled(cell, N, w, ahead)'
  <2>1. cell[w] # cell[j] /\ cell[w] \in DOMAIN ring
    BY <1>2, <1>4 DEF RingInv, Enumerated
  <2>2. ring'[cell[w]] = ring[cell[w]]
    BY <1>6, <2>1 DEF OnlyIn
  <2> QED BY <1>1, <1>9, <2>2 DEF RingInv, Filled
<1> QED BY <1>3, <1>6, <1>7, <1>8, <1>9, <1>10 DEF RingInv

\* The first cell gets its flag back before it is given back.
LEMMA BeginReadUnlockKeeps ==
  ASSUME TypeInv, NEW cell, NEW N, NEW w, NEW ahead, RingInv(cell, N, w, ahead),
         BeginReadUnlock
  PROVE  /\ TypeInv' /\ RingInv(cell, N, w, ahead)'
         /\ OnlyIn(cell[0]) /\ ring'[cell[0]].object = ring[cell[0]].object
<1>1. /\ ~ freeing /\ Len(held) = 1 /\ freeing' = TRUE
      /\ ring' = [ring EXCEPT ![readPointer].readyToRead = FALSE]
      /\ UNCHANGED <<readPointer, readAheadPointer, held,
                     writePointer, writeAheadPointer, writing>>
  BY DEF BeginReadUnlock, ClearFlag, writerVars
<1>2. N \in Nat /\ N >= 3 /\ w \in 0..(N - 1) /\ ahead \in 0..(N - 1) /\ w <= ahead
      /\ 1 <= w /\ readPointer = cell[0] /\ cell[0] \in DOMAIN ring
  BY <1>1, ShapeFacts DEF RingInv, Placed
<1>3. 0 \in 0..(N - 1) /\ 0 < ahead /\ 0 # w
  BY <1>2
<1>4. OnlyIn(cell[0]) /\ ring'[cell[0]].object = ring[cell[0]].object
      /\ ring'[cell[0]].readyToRead = FALSE
  BY <1>1, <1>2, FlagSet
<1>5. TypeInv'
  BY <1>1, <1>4 DEF TypeInv, OnlyIn
<1>6. Placed(cell, N, w, ahead)'
  BY <1>1 DEF RingInv, Placed, HasCell
<1>7. /\ Enumerated(cell, N)' /\ Linked(cell, N, ahead)' /\ Small(cell, N, ahead)'
      /\ \A i \in ahead..(N - 1) : ring'[cell[i]] = ring[cell[i]]
  <2>1. writing'.at = writing.at /\ writing'.originalNext = writing.originalNext
    BY <1>1
  <2> QED BY <1>3, <1>4, <2>1, BehindTheWriter
<1>8. Filled(cell, N, w, ahead)'
  <2>1. cell[w] # cell[0] /\ cell[w] \in DOMAIN ring
    BY <1>2, <1>3 DEF RingInv, Enumerated
  <2>2. ring'[cell[w]] = ring[cell[w]]
    BY <1>4, <2>1 DEF OnlyIn
  <2> QED BY <1>1, <1>4, <1>7, <2>2 DEF RingInv, Filled
<1> QED BY <1>4, <1>5, <1>6, <1>7, <1>8 DEF RingInv

-----------------------------------------------------------------------------
(* The steps that move the numbers of the cells.                           *)

\* The reader gives the first cell back: it is the last one now.
LEMMA ReadUnlockKeeps ==
  ASSUME TypeInv, NEW cell, NEW N, NEW w, NEW ahead, RingInv(cell, N, w, ahead),
         ReadUnlock
  PROVE  /\ TypeInv'
         /\ RingInv([i \in 0..(N - 1) |-> Follows(cell, N, i)], N, w - 1, ahead - 1)'
         /\ 1 <= w
<1>1. /\ freeing /\ freeing' = FALSE /\ held' = <<>>
      /\ readPointer' = NextOf(readPointer)
      /\ UNCHANGED <<ring, readAheadPointer, writePointer, writeAheadPointer,
                     writing>>
  BY DEF ReadUnlock, writerVars
<1>2. N \in Nat /\ N >= 3 /\ w \in 0..(N - 1) /\ ahead \in 0..(N - 1) /\ w <= ahead
      /\ Len(held) = 1 /\ Len(held) <= w /\ ring[cell[0]].readyToRead = FALSE
  BY <1>1, ShapeFacts DEF RingInv, Placed, Filled
<1>3. PICK up : up = [i \in 0..(N - 1) |-> Follows(cell, N, i)]
  OBVIOUS
<1>4. /\ up[N - 1] = cell[0]
      /\ \A i \in 0..(N - 2) : up[i] = cell[i + 1] /\ i + 1 \in 0..(N - 1) /\ i # N - 1
      /\ \A i \in 0..(N - 1) : i = N - 1 \/ i \in 0..(N - 2)
  <2>1. N - 1 \in 0..(N - 1)
    BY <1>2
  <2>2. \A i \in 0..(N - 2) : i \in 0..(N - 1) /\ i # N - 1 /\ i + 1 \in 0..(N - 1)
    BY <1>2
  <2>3. \A i \in 0..(N - 1) : i = N - 1 \/ i \in 0..(N - 2)
    BY <1>2
  <2> QED BY <1>3, <2>1, <2>2, <2>3 DEF Follows
<1>5. Enumerated(up, N)'
  <2>1. \A i \in 0..(N - 1) : up[i] \in DOMAIN ring
    <3>1. 0 \in 0..(N - 1)
      BY <1>2
    <3> QED BY <1>4, <3>1 DEF RingInv, Enumerated
  <2>2. ASSUME NEW i \in 0..(N - 1), NEW j \in 0..(N - 1), up[i] = up[j]
        PROVE  i = j
    <3>1. CASE i = N - 1 /\ j \in 0..(N - 2)
      <4>1. cell[0] = cell[j + 1] /\ j + 1 \in 0..(N - 1) /\ 0 \in 0..(N - 1) /\ j + 1 # 0
        BY <3>1, <2>2, <1>4, <1>2
      <4> QED BY <4>1 DEF RingInv, Enumerated
    <3>2. CASE j = N - 1 /\ i \in 0..(N - 2)
      <4>1. cell[0] = cell[i + 1] /\ i + 1 \in 0..(N - 1) /\ 0 \in 0..(N - 1) /\ i + 1 # 0
        BY <3>2, <2>2, <1>4, <1>2
      <4> QED BY <4>1 DEF RingInv, Enumerated
    <3>3. CASE i \in 0..(N - 2) /\ j \in 0..(N - 2)
      <4>1. cell[i + 1] = cell[j + 1] /\ i + 1 \in 0..(N - 1) /\ j + 1 \in 0..(N - 1)
        BY <3>3, <2>2, <1>4
      <4>2. i + 1 = j + 1
        BY <4>1 DEF RingInv, Enumerated
      <4> QED BY <4>2
    <3> QED BY <3>1, <3>2, <3>3, <1>4
  <2>3. ASSUME NEW c \in DOMAIN ring PROVE \E i \in 0..(N - 1) : up[i] = c
    <3>1. PICK i \in 0..(N - 1) : cell[i] = c
      BY DEF RingInv, Enumerated
    <3>2. CASE i = 0
      <4>1. N - 1 \in 0..(N - 1)
        BY <1>2
      <4> QED BY <3>1, <3>2, <4>1, <1>4
    <3>3. CASE i # 0
      <4>1. i - 1 \in 0..(N - 2) /\ i - 1 \in 0..(N - 1) /\ (i - 1) + 1 = i
        BY <3>3, <1>2
      <4>2. up[i - 1] = cell[i]
        BY <4>1, <1>4
      <4> QED BY <3>1, <4>1, <4>2
    <3> QED BY <3>2, <3>3
  <2>4. N \in Nat /\ MINIMUM_LIST_SIZE <= N
    BY DEF RingInv, Enumerated
  <2> QED BY <1>1, <2>1, <2>2, <2>3, <2>4 DEF Enumerated
<1>6. \A i \in 0..(N - 1) : i >= 1 => up[i - 1] = cell[i]
  <2>1. \A i \in 0..(N - 1) : i >= 1 => i - 1 \in 0..(N - 2) /\ (i - 1) + 1 = i
    BY <1>2
  <2> QED BY <2>1, <1>4
<1>7. NextOf(readPointer) = cell[1] /\ up[0] = cell[1]
  <2>1. 0 \in 0..(N - 1) /\ 0 # N - 1 /\ 0 # ahead + 1 /\ 0 \in 0..(N - 2) /\ 0 + 1 = 1
    BY <1>2
  <2>2. NextOf(cell[0]) = Follows(cell, N, 0) /\ readPointer = cell[0]
    BY <2>1 DEF RingInv, Linked, Placed
  <2> QED BY <2>1, <2>2, <1>4 DEF Follows
<1>8. Placed(up, N, w - 1, ahead - 1)'
  <2>1. readPointer' = up[0] /\ readAheadPointer' = up[0]
    BY <1>1, <1>2, <1>7 DEF RingInv, Placed
  <2>2. writePointer' = up[w - 1] /\ writeAheadPointer' = up[ahead - 1]
        /\ cell[w] = up[w - 1]
    BY <1>1, <1>2, <1>6 DEF RingInv, Placed
  <2>3. Len(held') = 0 /\ \A k \in 1..0 : held'[k] = up[k - 1]
    BY <1>1
  <2>4. w - 1 \in 0..(N - 1) /\ ahead - 1 \in 0..(N - 1) /\ 0 <= w - 1
        /\ (ahead = w => ahead - 1 = w - 1) /\ (ahead = w + 1 => ahead - 1 = (w - 1) + 1)
        /\ ahead - 1 < N - 1
    BY <1>2
  <2> QED BY <1>1, <2>1, <2>2, <2>3, <2>4 DEF RingInv, Placed, HasCell
<1>9. Linked(up, N, ahead - 1)'
  <2>1. writing.at = "adding" => ahead < N - 1
    BY DEF RingInv, Placed
  <2>2. ASSUME NEW i \in 0..(N - 1)
        PROVE  NextOf(up[i]) = IF writing.at = "adding" /\ i = (ahead - 1) + 1
                               THEN up[i] ELSE Follows(up, N, i)
    <3>1. CASE i = N - 1
      <4>1. 0 \in 0..(N - 1) /\ 0 # N - 1 /\ 0 # ahead + 1 /\ 0 + 1 = 1
        BY <1>2
      <4>2. NextOf(cell[0]) = cell[1]
        BY <4>1 DEF RingInv, Linked, Follows
      <4>3. ~ (writing.at = "adding" /\ i = (ahead - 1) + 1)
        BY <3>1, <2>1, <1>2
      <4> QED BY <3>1, <4>2, <4>3, <1>4, <1>7 DEF Follows
    <3>2. CASE i \in 0..(N - 2)
      <4>1. up[i] = cell[i + 1] /\ i + 1 \in 0..(N - 1)
        BY <3>2, <1>4
      <4>2. NextOf(cell[i + 1]) = IF writing.at = "adding" /\ i + 1 = ahead + 1
                                  THEN cell[i + 1] ELSE Follows(cell, N, i + 1)
        BY <4>1 DEF RingInv, Linked
      <4>3. i + 1 = ahead + 1 <=> i = (ahead - 1) + 1
        BY <3>2, <1>2
      <4>4. Follows(cell, N, i + 1) = Follows(up, N, i)
        <5>1. CASE i + 1 = N - 1
          <6>1. i # N - 1
            BY <3>2, <1>2
          <6> QED BY <5>1, <6>1, <1>4 DEF Follows
        <5>2. CASE i + 1 # N - 1
          <6>1. i # N - 1 /\ i + 1 \in 0..(N - 2)
            BY <3>2, <5>2, <1>2
          <6> QED BY <5>2, <6>1, <1>4 DEF Follows
        <5> QED BY <5>1, <5>2
      <4> QED BY <4>1, <4>2, <4>3, <4>4
    <3> QED BY <3>1, <3>2, <1>4
  <2>3. writing.at = "adding" => writing.originalNext = Follows(up, N, (ahead - 1) + 1)
    <3> SUFFICES ASSUME writing.at = "adding"
                 PROVE  writing.originalNext = Follows(up, N, (ahead - 1) + 1)
      OBVIOUS
    <3>1. ahead \in 0..(N - 2) /\ (ahead - 1) + 1 = ahead /\ ahead # N - 1
      BY <1>2, <2>1
    <3>2. Follows(up, N, ahead) = up[ahead + 1] /\ ahead + 1 \in 0..(N - 1)
      BY <3>1, <1>4 DEF Follows
    <3>3. up[ahead + 1] = Follows(cell, N, ahead + 1)
      BY <3>2, <1>3
    <3> QED BY <3>1, <3>2, <3>3 DEF RingInv, Linked
  <2>4. \A c : NextOf(c)' = NextOf(c)
    BY <1>1 DEF NextOf
  <2> QED BY <1>1, <2>2, <2>3, <2>4 DEF Linked, Follows
<1>10. Filled(up, N, w - 1, ahead - 1)'
  <2>1. up[w - 1] = cell[w]
    BY <1>2, <1>6
  <2>2. \A i \in (ahead - 1)..(N - 1) :
          ring[up[i]].readyToRead => ring[up[i]].object = Nothing
    <3> SUFFICES ASSUME NEW i \in (ahead - 1)..(N - 1), ring[up[i]].readyToRead
                 PROVE  ring[up[i]].object = Nothing
      OBVIOUS
    <3>1. i # N - 1
      BY <1>2, <1>4
    <3>2. i \in 0..(N - 2) /\ i + 1 \in ahead..(N - 1)
      BY <1>2, <3>1
    <3>3. up[i] = cell[i + 1]
      BY <1>4, <3>2
    <3> QED BY <3>2, <3>3 DEF RingInv, Filled
  <2> QED BY <1>1, <2>1, <2>2 DEF RingInv, Filled
<1>11. Small(up, N, ahead - 1)'
  <2>1. \A i \in (ahead + 1)..(N - 1) :
          /\ i - 1 \in ((ahead - 1) + 1)..(N - 1) /\ up[i - 1] = cell[i]
          /\ i # ahead + 1 => i - 1 # (ahead - 1) + 1
    <3>1. \A i \in (ahead + 1)..(N - 1) :
          /\ i - 1 \in ((ahead - 1) + 1)..(N - 1) /\ i \in 0..(N - 1) /\ i >= 1
          /\ i # ahead + 1 => i - 1 # (ahead - 1) + 1
      BY <1>2
    <3> QED BY <3>1, <1>6
  <2>2. \A c : IsStale(c)' = IsStale(c)
    BY <1>1 DEF IsStale
  <2>3. writing.at = "full" => N <= MaxQueued \/ \E i \in ((ahead - 1) + 1)..(N - 1) : IsStale(up[i])'
    <3>1. CASE \E i \in (ahead + 1)..(N - 1) : IsStale(cell[i])
      BY <3>1, <2>1, <2>2
    <3> QED BY <3>1 DEF RingInv, Small
  <2>4. \/ N <= MINIMUM_LIST_SIZE \/ N <= MaxQueued + 1
        \/ \E i \in ((ahead - 1) + 1)..(N - 1) :
             /\ IsStale(up[i])'
             /\ writing.at \in {"adding", "free"} => i # (ahead - 1) + 1
    <3>1. CASE \E i \in (ahead + 1)..(N - 1) :
                 /\ IsStale(cell[i])
                 /\ writing.at \in {"adding", "free"} => i # ahead + 1
      <4>1. PICK i \in (ahead + 1)..(N - 1) :
                 /\ IsStale(cell[i])
                 /\ writing.at \in {"adding", "free"} => i # ahead + 1
        BY <3>1
      <4>2. IsStale(up[i - 1])'
        BY <4>1, <2>1, <2>2
      <4> QED BY <4>1, <4>2, <2>1
    <3> QED BY <3>1 DEF RingInv, Small
  <2> QED BY <1>1, <2>3, <2>4 DEF Small
<1>12. TypeInv'
  <2>1. cell[1] \in DOMAIN ring
    <3>1. 1 \in 0..(N - 1)
      BY <1>2
    <3> QED BY <3>1 DEF RingInv, Enumerated
  <2>2. held' \in Seq(Cells)
    BY <1>1
  <2> QED BY <1>1, <1>7, <2>1, <2>2 DEF TypeInv
<1>13. RingInv(up, N, w - 1, ahead - 1)'
  BY <1>5, <1>8, <1>9, <1>10, <1>11 DEF RingInv
<1> QED BY <1>2, <1>3, <1>12, <1>13

-----------------------------------------------------------------------------
(* The steps that change the links.                                        *)

\* Setting the link of a cell changes nothing else.
LEMMA NextSet ==
  ASSUME TypeInv, NEW c \in DOMAIN ring, NEW x \in Cells
  PROVE  LET new == [ring EXCEPT ![c].next = x]
         IN  /\ DOMAIN new = DOMAIN ring
             /\ new \in [DOMAIN ring -> CellType]
             /\ new[c].next = x
             /\ \A d \in DOMAIN ring \ {c} : new[d].next = ring[d].next
             /\ \A d \in DOMAIN ring : /\ new[d].readyToRead = ring[d].readyToRead
                                       /\ new[d].object = ring[d].object
<1>1. ring \in [DOMAIN ring -> CellType]
  BY DEF TypeInv
<1>2. ring[c] \in CellType
  BY <1>1
<1>3. [ring[c] EXCEPT !.next = x] \in CellType
  BY <1>2 DEF CellType
<1> DEFINE new == [ring EXCEPT ![c].next = x]
<1>4. new = [ring EXCEPT ![c] = [ring[c] EXCEPT !.next = x]]
  OBVIOUS
<1>5. /\ DOMAIN new = DOMAIN ring /\ new \in [DOMAIN ring -> CellType]
      /\ new[c] = [ring[c] EXCEPT !.next = x]
      /\ \A d \in DOMAIN ring \ {c} : new[d] = ring[d]
  <2> HIDE DEF new
  <2> QED BY <1>1, <1>3, <1>4
<1>6. /\ new[c].next = x /\ new[c].readyToRead = ring[c].readyToRead
      /\ new[c].object = ring[c].object
  <2> HIDE DEF new
  <2> QED BY <1>2, <1>5 DEF CellType
<1> HIDE DEF new
<1>7. \A d \in DOMAIN ring : /\ new[d].readyToRead = ring[d].readyToRead
                             /\ new[d].object = ring[d].object
  BY <1>5, <1>6
<1>8. \A d \in DOMAIN ring \ {c} : new[d].next = ring[d].next
  BY <1>5
<1> QED BY <1>5, <1>6, <1>7, <1>8 DEF new

\* What a step of AddCell does to the cells.
Added(c, after) ==
  /\ c \notin DOMAIN ring
  /\ DOMAIN ring' = DOMAIN ring \cup {c}
  /\ ring' \in [DOMAIN ring' -> CellType]
  /\ ring'[after].next = c /\ ring'[c].next = c /\ ring'[c].object = Nothing
  /\ \A d \in DOMAIN ring \ {after} : ring'[d].next = ring[d].next
  /\ \A d \in DOMAIN ring : /\ ring'[d].readyToRead = ring[d].readyToRead
                            /\ ring'[d].object = ring[d].object

\* A cell more, to which the one at writeAheadPointer links.
LEMMA AddCellAdds ==
  ASSUME TypeInv, AddCell
  PROVE  \E c \in Cells : Added(c, writeAheadPointer)
<1>1. PICK c \in Cells \ DOMAIN ring, garbage \in BOOLEAN :
        ring' = [d \in DOMAIN ring \cup {c} |->
                   IF d = c THEN NewCell(c, garbage)
                   ELSE [ring EXCEPT ![writeAheadPointer].next = c][d]]
  BY DEF AddCell
<1>2. PICK new : new = [ring EXCEPT ![writeAheadPointer].next = c]
  OBVIOUS
<1>3. writeAheadPointer \in DOMAIN ring
  BY DEF TypeInv
<1>4. /\ DOMAIN new = DOMAIN ring
      /\ new \in [DOMAIN ring -> CellType]
      /\ new[writeAheadPointer].next = c
      /\ \A d \in DOMAIN ring \ {writeAheadPointer} : new[d].next = ring[d].next
      /\ \A d \in DOMAIN ring : /\ new[d].readyToRead = ring[d].readyToRead
                                /\ new[d].object = ring[d].object
  BY <1>2, <1>3, NextSet
<1>5. /\ DOMAIN ring' = DOMAIN ring \cup {c}
      /\ ring'[c] = NewCell(c, garbage)
      /\ \A d \in DOMAIN ring : ring'[d] = new[d]
      /\ ring' = [d \in DOMAIN ring' |-> ring'[d]]
  <2>1. ring' = [d \in DOMAIN ring \cup {c} |->
                   IF d = c THEN NewCell(c, garbage) ELSE new[d]]
    BY <1>1, <1>2
  <2> QED BY <2>1, <1>1
<1>6. /\ NewCell(c, garbage) \in CellType /\ ring'[c].next = c
      /\ ring'[c].object = Nothing
  BY <1>1, <1>5 DEF NewCell, CellType, Contents
<1>7. ring' \in [DOMAIN ring' -> CellType]
  BY <1>4, <1>5, <1>6
<1> QED BY <1>1, <1>3, <1>4, <1>5, <1>6, <1>7 DEF Added

\* The numbers of the cells when c comes after the one numbered ahead.
With(cell, N, ahead, c) ==
  [i \in 0..N |-> IF i <= ahead THEN cell[i]
                  ELSE IF i = ahead + 1 THEN c ELSE cell[i - 1]]

\* The cells after the writer move up by one.
LEMMA AddCellKeeps ==
  ASSUME TypeInv, NEW cell, NEW N, NEW w, NEW ahead, RingInv(cell, N, w, ahead),
         AddCell
  PROVE  /\ TypeInv'
         /\ \E c : /\ RingInv(With(cell, N, ahead, c), N + 1, w, ahead)'
                   /\ Added(c, cell[ahead])
<1>1. /\ writing.at = "full" /\ writing'.at = "adding"
      /\ writing'.originalNext = NextOf(writeAheadPointer)
      /\ UNCHANGED <<readPointer, readAheadPointer, freeing, held,
                     writePointer, writeAheadPointer>>
  BY DEF AddCell, TypeInv, Places, readerVars
<1>2. N \in Nat /\ N >= 3 /\ w = ahead /\ ahead \in 0..(N - 1) /\ Len(held) <= w
      /\ writeAheadPointer = cell[ahead] /\ cell[ahead] \in DOMAIN ring
  <2>1. w = ahead /\ Len(held) <= w /\ writeAheadPointer = cell[ahead]
    BY <1>1 DEF RingInv, Placed, HasCell
  <2> QED BY <2>1, ShapeFacts
<1>3. PICK c \in Cells : Added(c, cell[ahead])
  BY <1>2, AddCellAdds
<1>4. PICK up : up = With(cell, N, ahead, c)
  OBVIOUS
<1>5. /\ \A i \in 0..ahead : up[i] = cell[i] /\ i \in 0..(N - 1)
      /\ up[ahead + 1] = c /\ ahead + 1 \in 0..N
      /\ \A i \in (ahead + 2)..N : up[i] = cell[i - 1] /\ i - 1 \in 0..(N - 1)
      /\ \A i \in 0..N : i \in 0..ahead \/ i = ahead + 1 \/ i \in (ahead + 2)..N
      /\ (N + 1) - 1 = N
  <2>1. /\ \A i \in 0..ahead : i \in 0..N /\ i <= ahead /\ i \in 0..(N - 1)
        /\ ahead + 1 \in 0..N /\ ~ (ahead + 1 <= ahead)
        /\ \A i \in (ahead + 2)..N : i \in 0..N /\ ~ (i <= ahead) /\ i # ahead + 1
                                     /\ i - 1 \in 0..(N - 1)
        /\ \A i \in 0..N : i \in 0..ahead \/ i = ahead + 1 \/ i \in (ahead + 2)..N
        /\ (N + 1) - 1 = N
    BY <1>2
  <2> QED BY <1>4, <2>1 DEF With
<1>6. /\ \A i \in 0..(N - 1) : cell[i] \in DOMAIN ring
      /\ \A i, j \in 0..(N - 1) : cell[i] = cell[j] => i = j
      /\ \A d \in DOMAIN ring : \E i \in 0..(N - 1) : cell[i] = d
      /\ c \notin DOMAIN ring
  BY <1>3 DEF RingInv, Enumerated, Added
<1>7. Enumerated(up, N + 1)'
  <2>1. \A i \in 0..N : up[i] \in DOMAIN ring \cup {c}
    BY <1>5, <1>6
  <2>2. ASSUME NEW i \in 0..N, NEW j \in 0..N, up[i] = up[j]
        PROVE  i = j
    <3>1. up[i] = c => i = ahead + 1
      BY <1>5, <1>6
    <3>2. up[j] = c => j = ahead + 1
      BY <1>5, <1>6
    <3>3. CASE i = ahead + 1 \/ j = ahead + 1
      BY <3>1, <3>2, <3>3, <2>2, <1>5
    <3>4. CASE i # ahead + 1 /\ j # ahead + 1
      <4> DEFINE Old(k) == IF k <= ahead THEN k ELSE k - 1
      <4>1. \A k \in 0..N : k # ahead + 1 => up[k] = cell[Old(k)] /\ Old(k) \in 0..(N - 1)
        <5>1. \A k \in 0..ahead : k <= ahead
          BY <1>2
        <5>2. \A k \in (ahead + 2)..N : ~ (k <= ahead)
          BY <1>2
        <5> QED BY <5>1, <5>2, <1>5
      <4>2. cell[Old(i)] = cell[Old(j)] /\ Old(i) \in 0..(N - 1) /\ Old(j) \in 0..(N - 1)
        <5> HIDE DEF Old
        <5> QED BY <4>1, <3>4, <2>2
      <4>3. Old(i) = Old(j)
        <5> HIDE DEF Old
        <5> QED BY <4>2, <1>6
      <4> QED BY <4>3, <3>4, <1>2
    <3> QED BY <3>3, <3>4
  <2>3. ASSUME NEW d \in DOMAIN ring \cup {c} PROVE \E i \in 0..N : up[i] = d
    <3>1. CASE d = c
      BY <3>1, <1>5
    <3>2. CASE d \in DOMAIN ring
      <4>1. PICK i \in 0..(N - 1) : cell[i] = d
        BY <3>2, <1>6
      <4>2. CASE i <= ahead
        <5>1. i \in 0..ahead /\ i \in 0..N
          BY <4>2, <1>2
        <5> QED BY <5>1, <4>1, <1>5
      <4>3. CASE ahead < i
        <5>1. i + 1 \in (ahead + 2)..N /\ i + 1 \in 0..N /\ (i + 1) - 1 = i
          BY <4>3, <1>2
        <5>2. up[i + 1] = cell[(i + 1) - 1]
          BY <5>1, <1>5
        <5> QED BY <5>1, <5>2, <4>1
      <4> QED BY <4>2, <4>3, <1>2
    <3> QED BY <3>1, <3>2
  <2>4. N + 1 \in Nat /\ MINIMUM_LIST_SIZE <= N + 1
    BY <1>2, Minimum DEF RingInv, Enumerated
  <2>5. DOMAIN ring' = DOMAIN ring \cup {c}
    BY <1>3 DEF Added
  <2> QED BY <1>5, <2>1, <2>2, <2>3, <2>4, <2>5 DEF Enumerated
<1>8. Placed(up, N + 1, w, ahead)'
  <2>1. 0 \in 0..ahead /\ Len(held) \in 0..ahead /\ w \in 0..ahead
        /\ w \in 0..N /\ ahead \in 0..N /\ ahead < N /\ ahead \in 0..ahead
    BY <1>2 DEF TypeInv
  <2>2. \A k \in 1..Len(held) : k - 1 \in 0..ahead
    BY <2>1
  <2>3. \A k \in 1..Len(held) : held[k] = up[k - 1]
    BY <2>2, <1>5 DEF RingInv, Placed
  <2>4. readPointer = up[0] /\ readAheadPointer = up[Len(held)]
        /\ writePointer = up[w] /\ writeAheadPointer = up[ahead]
    BY <2>1, <1>5 DEF RingInv, Placed
  <2> QED BY <1>1, <1>2, <1>5, <2>1, <2>3, <2>4 DEF Placed, HasCell
<1>9. /\ \A i \in 0..(N - 1) : i # ahead => NextOf(cell[i])' = Follows(cell, N, i)
      /\ NextOf(cell[ahead])' = c /\ NextOf(c)' = c
  <2>1. \A i \in 0..(N - 1) : i # ahead => cell[i] \in DOMAIN ring \ {cell[ahead]}
    BY <1>2, <1>6
  <2>2. \A i \in 0..(N - 1) : NextOf(cell[i]) = Follows(cell, N, i)
    BY <1>1 DEF RingInv, Linked
  <2> QED BY <2>1, <2>2, <1>3 DEF Added, NextOf
<1>10. Linked(up, N + 1, ahead)'
  <2>1. ASSUME NEW i \in 0..N
        PROVE  NextOf(up[i])' = IF i = ahead + 1 THEN up[i] ELSE Follows(up, N + 1, i)
    <3>1. CASE i = ahead + 1
      BY <3>1, <1>5, <1>9
    <3>2. CASE i \in 0..ahead
      <4>1. (i # N /\ i # N - 1) \/ i = ahead
        BY <3>2, <1>2
      <4>2. i # N /\ i # ahead + 1
        BY <3>2, <1>2
      <4>3. CASE i = ahead
        BY <4>2, <4>3, <3>2, <1>5, <1>9 DEF Follows
      <4>4. CASE i # ahead
        <5>1. i + 1 \in 0..ahead /\ i # N - 1
          BY <3>2, <4>4, <1>2
        <5> QED BY <4>2, <4>4, <5>1, <3>2, <1>5, <1>9 DEF Follows
      <4> QED BY <4>3, <4>4
    <3>3. CASE i \in (ahead + 2)..N
      <4>1. i # ahead + 1 /\ i - 1 # ahead /\ i - 1 \in 0..(N - 1) /\ (i - 1) + 1 = i
        BY <3>3, <1>2
      <4>2. NextOf(up[i])' = Follows(cell, N, i - 1)
        BY <4>1, <3>3, <1>5, <1>9
      <4>3. CASE i = N
        <5>1. 0 \in 0..ahead
          BY <1>2
        <5> QED BY <4>1, <4>2, <4>3, <5>1, <1>5 DEF Follows
      <4>4. CASE i # N
        <5>1. i - 1 # N - 1 /\ i + 1 \in (ahead + 2)..N /\ (i + 1) - 1 = i
          BY <4>4, <3>3, <1>2
        <5>2. up[i + 1] = cell[i]
          BY <5>1, <1>5
        <5> QED BY <4>1, <4>2, <4>4, <5>1, <5>2, <1>5 DEF Follows
      <4> QED BY <4>3, <4>4
    <3> QED BY <3>1, <3>2, <3>3, <1>5
  <2>2. NextOf(writeAheadPointer) = Follows(up, N + 1, ahead + 1)
    <3>1. NextOf(writeAheadPointer) = Follows(cell, N, ahead)
      BY NextAhead
    <3>2. CASE ahead = N - 1
      <4>1. ahead + 1 = N /\ 0 \in 0..ahead
        BY <3>2, <1>2
      <4> QED BY <3>1, <3>2, <4>1, <1>5 DEF Follows
    <3>3. CASE ahead # N - 1
      <4>1. ahead + 1 # N /\ (ahead + 1) + 1 \in (ahead + 2)..N
            /\ ((ahead + 1) + 1) - 1 = ahead + 1
        BY <3>3, <1>2
      <4>2. up[(ahead + 1) + 1] = cell[ahead + 1]
        BY <4>1, <1>5
      <4> QED BY <3>1, <3>3, <4>1, <4>2, <1>5 DEF Follows
    <3> QED BY <3>2, <3>3
  <2> QED BY <1>1, <1>5, <2>1, <2>2 DEF Linked, Follows
<1>11. /\ \A i \in 0..(N - 1) : /\ ring'[cell[i]].readyToRead = ring[cell[i]].readyToRead
                                /\ ring'[cell[i]].object = ring[cell[i]].object
       /\ \A i \in 0..(N - 1) : IsStale(cell[i])' = IsStale(cell[i])
  BY <1>3, <1>6 DEF Added, IsStale
<1>12. Filled(up, N + 1, w, ahead)'
  <2>1. ASSUME NEW i \in ahead..N, ring'[up[i]].readyToRead
        PROVE  ring'[up[i]].object = Nothing
    <3>1. CASE i = ahead
      <4>1. ahead \in ahead..(N - 1) /\ ahead \in 0..ahead
        BY <1>2
      <4> QED BY <3>1, <4>1, <2>1, <1>5, <1>11 DEF RingInv, Filled
    <3>2. CASE i = ahead + 1
      BY <3>2, <1>3, <1>5 DEF Added
    <3>3. CASE i \in (ahead + 2)..N
      <4>1. i - 1 \in ahead..(N - 1) /\ i - 1 \in 0..(N - 1)
        BY <3>3, <1>2
      <4> QED BY <3>3, <4>1, <2>1, <1>5, <1>11 DEF RingInv, Filled
    <3>4. i = ahead \/ i = ahead + 1 \/ i \in (ahead + 2)..N
      BY <1>2
    <3> QED BY <3>1, <3>2, <3>3, <3>4
  <2>2. up[0] = cell[0] /\ 0 \in 0..(N - 1)
    <3>1. 0 \in 0..ahead
      BY <1>2
    <3> QED BY <3>1, <1>5
  <2> QED BY <1>1, <1>5, <1>11, <2>1, <2>2 DEF RingInv, Filled
<1>13. Small(up, N + 1, ahead)'
  <2>1. N <= MaxQueued \/ \E i \in (ahead + 1)..(N - 1) : IsStale(cell[i])
    BY <1>1 DEF RingInv, Small
  <2>2. CASE N <= MaxQueued
    <3>1. N + 1 <= MaxQueued + 1
      BY <2>2, <1>2, QueueAssumption
    <3> QED BY <3>1, <1>1 DEF Small
  <2>3. CASE \E i \in (ahead + 1)..(N - 1) : IsStale(cell[i])
    <3>1. PICK i \in (ahead + 1)..(N - 1) : IsStale(cell[i])
      BY <2>3
    <3>2. i + 1 \in (ahead + 1)..N /\ i + 1 # ahead + 1 /\ i + 1 \in (ahead + 2)..N
          /\ (i + 1) - 1 = i /\ i \in 0..(N - 1)
      BY <1>2
    <3>3. up[i + 1] = cell[i]
      <4>1. up[i + 1] = cell[(i + 1) - 1]
        BY <3>2, <1>5
      <4> QED BY <4>1, <3>2
    <3>4. IsStale(up[i + 1])'
      BY <3>1, <3>2, <3>3, <1>11
    <3> QED BY <3>2, <3>4, <1>1, <1>5 DEF Small
  <2> QED BY <2>1, <2>2, <2>3
<1>14. TypeInv'
  <2>1. NextOf(writeAheadPointer) \in Cells
    BY <1>2 DEF TypeInv, CellType, NextOf
  <2>2. writing' \in [at : Places, cell : Cells, originalNext : Cells]
    BY <2>1 DEF AddCell, TypeInv, Places
  <2> QED BY <1>1, <1>3, <2>2 DEF TypeInv, Added
<1>15. RingInv(up, N + 1, w, ahead)'
  BY <1>7, <1>8, <1>10, <1>12, <1>13 DEF RingInv
<1> QED BY <1>3, <1>4, <1>14, <1>15

\* The new cell gets the link that was taken from the one before it.
LEMMA LinkCellKeeps ==
  ASSUME TypeInv, NEW cell, NEW N, NEW w, NEW ahead, RingInv(cell, N, w, ahead),
         LinkCell
  PROVE  /\ TypeInv' /\ RingInv(cell, N, w, ahead)'
         /\ \A i \in 0..(N - 1) : ring'[cell[i]].object = ring[cell[i]].object
<1>1. /\ writing.at = "adding" /\ writing'.at = "free"
      /\ writing' \in [at : Places, cell : Cells, originalNext : Cells]
      /\ ring' = [ring EXCEPT ![NextOf(writeAheadPointer)].next = writing.originalNext]
      /\ UNCHANGED <<readPointer, readAheadPointer, freeing, held,
                     writePointer, writeAheadPointer>>
  BY DEF LinkCell, Goto, TypeInv, Places, readerVars
<1>2. N \in Nat /\ N >= 3 /\ w = ahead /\ ahead \in 0..(N - 1) /\ ahead < N - 1
      /\ ahead + 1 \in 0..(N - 1)
  <2>1. w = ahead /\ ahead < N - 1
    BY <1>1 DEF RingInv, Placed, HasCell
  <2> QED BY <2>1, ShapeFacts
<1>3. NextOf(writeAheadPointer) = cell[ahead + 1]
  BY NextAhead, <1>2 DEF Follows
<1>4. /\ \A i \in 0..(N - 1) : cell[i] \in DOMAIN ring
      /\ \A i, j \in 0..(N - 1) : cell[i] = cell[j] => i = j
  BY DEF RingInv, Enumerated
<1>5. /\ DOMAIN ring' = DOMAIN ring
      /\ ring' \in [DOMAIN ring -> CellType]
      /\ ring'[cell[ahead + 1]].next = writing.originalNext
      /\ \A d \in DOMAIN ring \ {cell[ahead + 1]} : ring'[d].next = ring[d].next
      /\ \A d \in DOMAIN ring : /\ ring'[d].readyToRead = ring[d].readyToRead
                                /\ ring'[d].object = ring[d].object
  <2>1. cell[ahead + 1] \in DOMAIN ring /\ writing.originalNext \in Cells
    BY <1>2, <1>4 DEF TypeInv
  <2>2. ring' = [ring EXCEPT ![cell[ahead + 1]].next = writing.originalNext]
    BY <1>1, <1>3
  <2> QED BY <2>1, <2>2, NextSet
<1>6. Enumerated(cell, N)'
  BY <1>5 DEF RingInv, Enumerated
<1>7. Placed(cell, N, w, ahead)'
  BY <1>1, <1>2 DEF RingInv, Placed, HasCell
<1>8. Linked(cell, N, ahead)'
  <2>1. writing.originalNext = Follows(cell, N, ahead + 1)
    BY <1>1 DEF RingInv, Linked
  <2>2. ASSUME NEW i \in 0..(N - 1) PROVE NextOf(cell[i])' = Follows(cell, N, i)
    <3>1. CASE i = ahead + 1
      BY <3>1, <2>1, <1>5 DEF NextOf
    <3>2. CASE i # ahead + 1
      <4>1. cell[i] \in DOMAIN ring \ {cell[ahead + 1]}
        BY <3>2, <1>2, <1>4
      <4>2. NextOf(cell[i]) = Follows(cell, N, i)
        BY <3>2 DEF RingInv, Linked
      <4> QED BY <4>1, <4>2, <1>5 DEF NextOf
    <3> QED BY <3>1, <3>2
  <2> QED BY <2>2, <1>1 DEF Linked, Follows
<1>9. \A i \in 0..(N - 1) : /\ ring'[cell[i]].readyToRead = ring[cell[i]].readyToRead
                            /\ ring'[cell[i]].object = ring[cell[i]].object
  BY <1>4, <1>5
<1>10. Filled(cell, N, w, ahead)'
  <2>1. \A i \in ahead..(N - 1) : i \in 0..(N - 1)
    BY <1>2
  <2>2. 0 \in 0..(N - 1)
    BY <1>2
  <2> QED BY <1>1, <1>9, <2>1, <2>2 DEF RingInv, Filled
<1>11. Small(cell, N, ahead)'
  <2>1. \A i \in (ahead + 1)..(N - 1) : i \in 0..(N - 1)
    BY <1>2
  <2>2. \A i \in (ahead + 1)..(N - 1) : IsStale(cell[i])' = IsStale(cell[i])
    BY <1>9, <2>1 DEF IsStale
  <2> QED BY <1>1, <2>2 DEF RingInv, Small
<1>12. TypeInv'
  BY <1>1, <1>5 DEF TypeInv
<1> QED BY <1>6, <1>7, <1>8, <1>9, <1>10, <1>11, <1>12 DEF RingInv

\* The numbers of the cells that Clear keeps, when it deletes d of them.
Without(cell, d) ==
  [i \in 0..(MINIMUM_LIST_SIZE - 1) |-> IF i = 0 THEN cell[0] ELSE cell[i + d]]

\* Clear leaves the first cell and the last ones.
LEMMA ClearKeeps ==
  ASSUME TypeInv, NEW cell, NEW N, NEW w, NEW ahead, RingInv(cell, N, w, ahead),
         Clear
  PROVE  /\ TypeInv' /\ w = 0 /\ held = <<>> /\ UNCHANGED held
         /\ RingInv(Without(cell, N - MINIMUM_LIST_SIZE), MINIMUM_LIST_SIZE, 0, 0)'
<1>1. /\ writing.at = "idle" /\ ~ freeing /\ held = <<>> /\ Queued = <<>>
      /\ ring' = Restrict([ring EXCEPT ![readPointer].next = FirstKept],
                          DOMAIN ring \ Surplus)
      /\ writePointer' = readPointer /\ readAheadPointer' = readPointer
      /\ writeAheadPointer' = readPointer
      /\ UNCHANGED <<readPointer, freeing, held, writing>>
  BY DEF Clear
<1>2. w = 0 /\ ahead = 0 /\ N \in Nat /\ MINIMUM_LIST_SIZE <= N
      /\ MINIMUM_LIST_SIZE \in Nat /\ MINIMUM_LIST_SIZE >= 3 /\ readPointer = cell[0]
      /\ cell[0] \in DOMAIN ring
  <2>1. w = 0
    BY <1>1, QueuedCells, ShapeFacts
  <2>2. ahead = w
    BY <1>1 DEF RingInv, Placed, HasCell
  <2> QED BY <2>1, <2>2, ShapeFacts, Minimum DEF RingInv, Enumerated, Placed
<1>3. PICK d \in Nat, M \in Nat : d = N - MINIMUM_LIST_SIZE /\ M = MINIMUM_LIST_SIZE
                                  /\ N = M + d /\ M >= 3
  BY <1>2
<1>4. /\ \A i \in 0..(N - 1) : cell[i] \in DOMAIN ring
      /\ \A i, j \in 0..(N - 1) : cell[i] = cell[j] => i = j
      /\ \A c \in DOMAIN ring : \E i \in 0..(N - 1) : cell[i] = c
      /\ \A i \in 0..(N - 1) : NextOf(cell[i]) = Follows(cell, N, i)
  BY <1>1 DEF RingInv, Enumerated, Linked
<1>5. /\ NumCells = N
      /\ \A n \in 0..(N - 1) : Walk[n] = cell[n]
  BY <1>1, WalkIsCell
<1>6. Surplus = {cell[n] : n \in 1..d}
  <2>1. \A n \in 1..d : n \in 0..(N - 1)
    BY <1>3
  <2>2. Surplus = {Walk[n] : n \in 1..d}
    BY <1>5, <1>3 DEF Surplus
  <2> QED BY <2>1, <2>2, <1>5
<1>7. Cardinality(Surplus) = d
  <2> DEFINE f == [n \in 1..d |-> cell[n]]
  <2>1. \A n \in 1..d : n \in 0..(N - 1)
    BY <1>3
  <2>2. f \in Bijection(1..d, Surplus)
    <3>1. f \in [1..d -> Surplus]
      BY <1>6
    <3>2. \A i, j \in 1..d : f[i] = f[j] => i = j
      BY <2>1, <1>4
    <3>3. \A c \in Surplus : \E i \in 1..d : f[i] = c
      BY <1>6
    <3> HIDE DEF f
    <3> QED BY <3>1, <3>2, <3>3 DEF Bijection, Injection, Surjection, IsInjective
  <2>3. ExistsBijection(1..d, Surplus)
    BY <2>2 DEF ExistsBijection
  <2>4. IsFiniteSet(1..d) /\ Cardinality(1..d) = d
    BY <1>3, FS_Interval
  <2> QED BY <2>3, <2>4, FS_Bijection, FS_SameCardinalityBij, <1>3
<1>8. FirstKept = cell[d + 1] /\ cell[d + 1] \in DOMAIN ring
  <2>1. d + 1 \in 0..(N - 1)
    BY <1>3
  <2> QED BY <2>1, <1>4, <1>5, <1>7 DEF FirstKept
<1>9. PICK up : up = Without(cell, N - MINIMUM_LIST_SIZE)
  OBVIOUS
<1>10. /\ up[0] = cell[0] /\ 0 \in 0..(M - 1)
       /\ \A i \in 1..(M - 1) : up[i] = cell[i + d] /\ i + d \in (d + 1)..(N - 1)
                                /\ i + d \in 0..(N - 1)
       /\ \A i \in 0..(M - 1) : i = 0 \/ i \in 1..(M - 1)
  <2>1. /\ 0 \in 0..(M - 1)
        /\ \A i \in 1..(M - 1) : i \in 0..(M - 1) /\ i # 0
             /\ i + d \in (d + 1)..(N - 1) /\ i + d \in 0..(N - 1)
        /\ \A i \in 0..(M - 1) : i = 0 \/ i \in 1..(M - 1)
    BY <1>3
  <2>2. up = [i \in 0..(M - 1) |-> IF i = 0 THEN cell[0] ELSE cell[i + d]]
    BY <1>3, <1>9 DEF Without
  <2> QED BY <2>1, <2>2
<1>11. PICK Kept : Kept = DOMAIN ring \ Surplus
  OBVIOUS
<1>12. /\ \A i \in 0..(M - 1) : up[i] \in Kept
       /\ \A c \in Kept : \E i \in 0..(M - 1) : up[i] = c
  <2>1. ASSUME NEW i \in 0..(M - 1) PROVE up[i] \in Kept
    <3>1. PICK k \in 0..(N - 1) : up[i] = cell[k] /\ k \notin 1..d
      <4>1. CASE i = 0
        <5>1. 0 \in 0..(N - 1) /\ 0 \notin 1..d
          BY <1>3
        <5> QED BY <4>1, <5>1, <1>10
      <4>2. CASE i \in 1..(M - 1)
        <5>1. i + d \notin 1..d
          BY <4>2, <1>3
        <5> QED BY <4>2, <5>1, <1>10
      <4> QED BY <4>1, <4>2, <1>10
    <3>2. \A n \in 1..d : n \in 0..(N - 1) /\ n # k
      BY <3>1, <1>3
    <3>3. cell[k] \notin Surplus
      BY <3>1, <3>2, <1>4, <1>6
    <3> QED BY <3>1, <3>3, <1>4, <1>11
  <2>2. ASSUME NEW c \in Kept PROVE \E i \in 0..(M - 1) : up[i] = c
    <3>1. PICK k \in 0..(N - 1) : cell[k] = c
      BY <1>4, <1>11
    <3>2. k \notin 1..d
      BY <3>1, <1>6, <1>11
    <3>3. CASE k = 0
      BY <3>1, <3>3, <1>10
    <3>4. CASE k # 0
      <4>1. k - d \in 1..(M - 1) /\ k - d \in 0..(M - 1) /\ (k - d) + d = k
        BY <3>2, <3>4, <1>3
      <4>2. up[k - d] = cell[(k - d) + d]
        BY <4>1, <1>10
      <4> QED BY <3>1, <4>1, <4>2
    <3> QED BY <3>3, <3>4
  <2> QED BY <2>1, <2>2
<1>13. ASSUME NEW i \in 0..(M - 1), NEW j \in 0..(M - 1), up[i] = up[j]
       PROVE  i = j
  <2> DEFINE Old(k) == IF k = 0 THEN 0 ELSE k + d
  <2>1. \A k \in 0..(M - 1) : up[k] = cell[Old(k)] /\ Old(k) \in 0..(N - 1)
    <3>1. 0 \in 0..(N - 1)
      BY <1>3
    <3> QED BY <3>1, <1>10
  <2>2. Old(i) = Old(j)
    <3> HIDE DEF Old
    <3> QED BY <2>1, <1>13, <1>4
  <2> QED BY <2>2, <1>3
<1>14. /\ DOMAIN ring' = Kept
       /\ ring' \in [Kept -> CellType]
       /\ ring'[cell[0]].next = cell[d + 1]
       /\ \A c \in Kept \ {cell[0]} : ring'[c].next = ring[c].next
       /\ \A c \in Kept : /\ ring'[c].readyToRead = ring[c].readyToRead
                          /\ ring'[c].object = ring[c].object
  <2>1. PICK new : new = [ring EXCEPT ![cell[0]].next = cell[d + 1]]
    OBVIOUS
  <2>2. cell[d + 1] \in Cells
    BY <1>8 DEF TypeInv
  <2>3. /\ DOMAIN new = DOMAIN ring
        /\ new \in [DOMAIN ring -> CellType]
        /\ new[cell[0]].next = cell[d + 1]
        /\ \A c \in DOMAIN ring \ {cell[0]} : new[c].next = ring[c].next
        /\ \A c \in DOMAIN ring : /\ new[c].readyToRead = ring[c].readyToRead
                                  /\ new[c].object = ring[c].object
    BY <2>1, <2>2, <1>2, NextSet
  <2>4. ring' = [c \in Kept |-> new[c]]
    BY <2>1, <1>1, <1>2, <1>8, <1>11 DEF Restrict
  <2>5. cell[0] \in Kept
    BY <1>10, <1>12
  <2>6. \A c \in Kept : ring'[c] = new[c] /\ c \in DOMAIN ring
    BY <2>4, <1>11
  <2> QED BY <2>3, <2>4, <2>5, <2>6
<1>15. Enumerated(up, M)'
  BY <1>3, <1>12, <1>13, <1>14 DEF Enumerated
<1>16. Len(held') = 0 /\ held' \in Seq(Cells)
  BY <1>1
<1>17. Placed(up, M, 0, 0)'
  <2>1. \A k \in 1..0 : held'[k] = up[k - 1]
    OBVIOUS
  <2> QED BY <1>1, <1>2, <1>10, <1>16, <2>1 DEF Placed, HasCell
<1>18. Linked(up, M, 0)'
  <2>1. ASSUME NEW i \in 0..(M - 1) PROVE NextOf(up[i])' = Follows(up, M, i)
    <3>1. CASE i = 0
      <4>1. 0 # M - 1 /\ 0 + 1 = 1 /\ 1 \in 1..(M - 1) /\ 1 + d = d + 1
        BY <1>3
      <4> QED BY <3>1, <4>1, <1>10, <1>14 DEF NextOf, Follows
    <3>2. CASE i \in 1..(M - 1)
      <4>1. up[i] = cell[i + d] /\ i + d \in 0..(N - 1) /\ i # 0 /\ i \in 0..(M - 1)
        BY <3>2, <1>10, <1>3
      <4>2. up[i] \in Kept \ {cell[0]}
        BY <4>1, <1>10, <1>12, <1>13
      <4>3. NextOf(up[i])' = Follows(cell, N, i + d)
        BY <4>1, <4>2, <1>4, <1>14 DEF NextOf
      <4>4. CASE i = M - 1
        <5>1. i + d = N - 1
          BY <4>4, <1>3
        <5> QED BY <4>3, <4>4, <5>1, <1>10 DEF Follows
      <4>5. CASE i # M - 1
        <5>1. i + d # N - 1 /\ i + 1 \in 1..(M - 1) /\ (i + 1) + d = (i + d) + 1
          BY <4>5, <3>2, <1>3
        <5>2. up[i + 1] = cell[(i + 1) + d]
          BY <5>1, <1>10
        <5> QED BY <4>3, <4>5, <5>1, <5>2 DEF Follows
      <4> QED BY <4>4, <4>5
    <3> QED BY <3>1, <3>2, <1>10
  <2> QED BY <2>1, <1>1 DEF Linked, Follows
<1>19. Filled(up, M, 0, 0)'
  <2>1. \A i \in 0..(M - 1) : \E k \in ahead..(N - 1) : up[i] = cell[k]
    <3>1. 0 \in ahead..(N - 1) /\ \A k \in 0..(N - 1) : k \in ahead..(N - 1)
      BY <1>2, <1>3
    <3> QED BY <3>1, <1>10
  <2>2. \A i \in 0..(M - 1) : ring[up[i]].readyToRead => ring[up[i]].object = Nothing
    BY <2>1 DEF RingInv, Filled
  <2> QED BY <2>2, <1>1, <1>12, <1>14 DEF Filled
<1>20. Small(up, M, 0)'
  BY <1>1, <1>3 DEF Small
<1>21. TypeInv'
  <2>1. cell[0] \in Kept
    BY <1>10, <1>12
  <2>2. {readPointer', readAheadPointer', writePointer', writeAheadPointer'}
          \subseteq DOMAIN ring'
    BY <2>1, <1>1, <1>2, <1>14
  <2>3. DOMAIN ring' \subseteq Cells /\ ring' \in [DOMAIN ring' -> CellType]
    BY <1>11, <1>14 DEF TypeInv
  <2> QED BY <2>2, <2>3, <1>1, <1>16 DEF TypeInv
<1>22. RingInv(up, M, 0, 0)'
  BY <1>15, <1>17, <1>18, <1>19, <1>20 DEF RingInv
<1> QED BY <1>1, <1>2, <1>3, <1>9, <1>21, <1>22

-----------------------------------------------------------------------------
(* The invariant holds.                                                    *)

\* The constructor makes one ring, whatever the memory held.
LEMMA InitEstablishes == ASSUME Init PROVE IInv
<1>1. PICK M \in Nat : M = MINIMUM_LIST_SIZE /\ M >= 3
  BY Minimum
<1>2. PICK cell \in [0..(M - 1) -> Cells] :
        /\ IsInjective(cell)
        /\ \E garbage \in [DOMAIN AntiFunction(cell) -> BOOLEAN] :
             ring = [c \in DOMAIN AntiFunction(cell) |->
                       [NewCell(c, garbage[c]) EXCEPT
                          !.next = cell[(AntiFunction(cell)[c] + 1) % M]]]
        /\ readPointer = cell[0] /\ readAheadPointer = cell[0]
        /\ writePointer = cell[0] /\ writeAheadPointer = cell[0]
        /\ writing = [at |-> "idle", cell |-> cell[0], originalNext |-> cell[0]]
        /\ freeing = FALSE
        /\ held = <<>>
  BY <1>1 DEF Init
<1>3. PICK place : place = AntiFunction(cell)
  OBVIOUS
<1>4. PICK garbage \in [DOMAIN place -> BOOLEAN] :
        ring = [c \in DOMAIN place |->
                  [NewCell(c, garbage[c]) EXCEPT !.next = cell[(place[c] + 1) % M]]]
  BY <1>2, <1>3
<1>5. \A i, j \in 0..(M - 1) : cell[i] = cell[j] => i = j
  BY <1>2 DEF IsInjective
<1>6. /\ DOMAIN place = {cell[i] : i \in 0..(M - 1)}
      /\ \A i \in 0..(M - 1) : place[cell[i]] = i
  <2>1. place = [t \in Range(cell) |->
                   CHOOSE s \in 0..(M - 1) : t \in Range(cell) => cell[s] = t]
    BY <1>2, <1>3 DEF AntiFunction, Inverse
  <2>2. Range(cell) = {cell[i] : i \in 0..(M - 1)}
    BY <1>2 DEF Range
  <2>3. ASSUME NEW i \in 0..(M - 1) PROVE place[cell[i]] = i
    <3>1. cell[i] \in Range(cell)
      BY <2>2
    <3>2. place[cell[i]] = CHOOSE s \in 0..(M - 1) : cell[i] \in Range(cell) => cell[s] = cell[i]
      BY <2>1, <3>1
    <3>3. cell[place[cell[i]]] = cell[i] /\ place[cell[i]] \in 0..(M - 1)
      BY <3>1, <3>2
    <3> QED BY <3>3, <1>5
  <2> QED BY <2>1, <2>2, <2>3
<1>7. /\ DOMAIN ring = {cell[i] : i \in 0..(M - 1)}
      /\ \A c \in DOMAIN ring : ring[c] =
           [NewCell(c, garbage[c]) EXCEPT !.next = cell[(place[c] + 1) % M]]
  BY <1>4, <1>6
<1>8. \A i \in 0..(M - 1) : /\ (i = M - 1 => (i + 1) % M = 0)
                            /\ (i # M - 1 => (i + 1) % M = i + 1)
  <2> SUFFICES ASSUME NEW i \in 0..(M - 1)
               PROVE  /\ (i = M - 1 => (i + 1) % M = 0)
                      /\ (i # M - 1 => (i + 1) % M = i + 1)
    OBVIOUS
  <2>1. CASE i = M - 1
    <3>1. i + 1 = M
      BY <2>1, <1>1
    <3> QED BY <2>1, <3>1, <1>1
  <2>2. CASE i # M - 1
    <3>1. i + 1 \in Nat /\ i + 1 < M
      BY <2>2, <1>1
    <3> QED BY <2>2, <3>1, <1>1
  <2> QED BY <2>1, <2>2
<1>9. ASSUME NEW i \in 0..(M - 1)
      PROVE  /\ cell[i] \in DOMAIN ring /\ ring[cell[i]] \in CellType
             /\ NextOf(cell[i]) = Follows(cell, M, i)
             /\ ring[cell[i]].object = Nothing
  <2>1. cell[i] \in DOMAIN ring /\ cell[i] \in Cells /\ garbage[cell[i]] \in BOOLEAN
    BY <1>6, <1>7
  <2>2. ring[cell[i]] = [NewCell(cell[i], garbage[cell[i]]) EXCEPT !.next = cell[(i + 1) % M]]
    BY <2>1, <1>6, <1>7
  <2>3. cell[(i + 1) % M] = Follows(cell, M, i)
    BY <1>8 DEF Follows
  <2>4. Follows(cell, M, i) \in Cells
    <3>1. 0 \in 0..(M - 1) /\ (i # M - 1 => i + 1 \in 0..(M - 1))
      BY <1>1
    <3> QED BY <3>1 DEF Follows
  <2>5. ring[cell[i]] = [next |-> Follows(cell, M, i),
                         readyToRead |-> garbage[cell[i]], object |-> Nothing]
    BY <2>2, <2>3 DEF NewCell
  <2> QED BY <2>1, <2>4, <2>5 DEF CellType, Contents, NextOf
<1>10. 0 \in 0..(M - 1)
  BY <1>1
<1>11. TypeInv
  <2>1. DOMAIN ring \subseteq Cells
    BY <1>7
  <2>2. ring \in [DOMAIN ring -> CellType]
    <3>1. \A c \in DOMAIN ring : ring[c] \in CellType
      BY <1>7, <1>9
    <3>2. ring = [c \in DOMAIN ring |-> ring[c]]
      BY <1>4
    <3> QED BY <3>1, <3>2
  <2>3. cell[0] \in DOMAIN ring /\ cell[0] \in Cells
    BY <1>9, <1>10
  <2>4. writing \in [at : Places, cell : Cells, originalNext : Cells]
    BY <1>2, <2>3 DEF Places
  <2>5. {readPointer, readAheadPointer, writePointer, writeAheadPointer}
          \subseteq DOMAIN ring
    BY <1>2, <2>3
  <2>6. freeing \in BOOLEAN
    BY <1>2
  <2>7. <<>> \in Seq(Cells)
    OBVIOUS
  <2> QED BY <1>2, <2>1, <2>2, <2>4, <2>5, <2>6, <2>7 DEF TypeInv
<1>12. Enumerated(cell, M)
  BY <1>1, <1>5, <1>7, <1>9 DEF Enumerated
<1>13. writing.at = "idle"
  BY <1>2
<1>14. Placed(cell, M, 0, 0)
  <2>1. Len(held) = 0 /\ \A k \in 1..0 : held[k] = cell[k - 1]
    BY <1>2
  <2> QED BY <1>2, <1>10, <1>13, <2>1 DEF Placed, HasCell
<1>15. Linked(cell, M, 0)
  BY <1>9, <1>13 DEF Linked
<1>16. Filled(cell, M, 0, 0)
  BY <1>2, <1>9, <1>13 DEF Filled
<1>17. Small(cell, M, 0)
  BY <1>1, <1>13 DEF Small
<1> QED BY <1>11, <1>12, <1>14, <1>15, <1>16, <1>17 DEF IInv, RingInv

\* Every step of either thread keeps the invariant.
LEMMA InvNext == ASSUME IInv, [Next]_vars PROVE IInv'
<1>1. PICK cell, N, w, ahead : RingInv(cell, N, w, ahead)
  BY DEF IInv
<1>2. TypeInv
  BY DEF IInv
<1> SUFFICES TypeInv' /\ \E f, n, i, j : RingInv(f, n, i, j)'
  BY DEF IInv
<1>3. CASE LookAtReader
  BY <1>1, <1>2, <1>3, LookAtReaderKeeps
<1>4. CASE LookAtFlag
  BY <1>1, <1>2, <1>4, LookAtFlagKeeps
<1>5. CASE AddCell
  BY <1>1, <1>2, <1>5, AddCellKeeps
<1>6. CASE LinkCell
  BY <1>1, <1>2, <1>6, LinkCellKeeps
<1>7. CASE WriteLock
  BY <1>1, <1>2, <1>7, WriteLockKeeps
<1>8. CASE \E item \in Items : Assign(item)
  BY <1>1, <1>2, <1>8, AssignKeeps
<1>9. CASE SetReady
  BY <1>1, <1>2, <1>9, SetReadyKeeps
<1>10. CASE WriteUnlock
  BY <1>1, <1>2, <1>10, WriteUnlockKeeps
<1>11. CASE ReadLock
  BY <1>1, <1>2, <1>11, ReadLockKeeps
<1>12. CASE CancelReadLock
  BY <1>1, <1>2, <1>12, CancelReadLockKeeps
<1>13. CASE MakeHole
  BY <1>1, <1>2, <1>13, MakeHoleKeeps
<1>14. CASE BeginReadUnlock
  BY <1>1, <1>2, <1>14, BeginReadUnlockKeeps
<1>15. CASE ReadUnlock
  BY <1>1, <1>2, <1>15, ReadUnlockKeeps
<1>16. CASE Clear
  BY <1>1, <1>2, <1>16, ClearKeeps
<1>17. CASE UNCHANGED vars
  <2>1. UNCHANGED <<ring, readPointer, readAheadPointer, freeing, held,
                    writePointer, writeAheadPointer, writing>>
    BY <1>17 DEF vars, readerVars, writerVars
  <2>2. TypeInv'
    BY <1>2, <2>1 DEF TypeInv
  <2>3. RingInv(cell, N, w, ahead)'
    BY <1>1, <2>1 DEF RingInv, Enumerated, Placed, Linked, Filled, Small,
                      HasCell, Follows, IsStale, NextOf
  <2> QED BY <2>2, <2>3
<1> QED BY <1>3, <1>4, <1>5, <1>6, <1>7, <1>8, <1>9, <1>10, <1>11, <1>12,
           <1>13, <1>14, <1>15, <1>16, <1>17 DEF Next, Write, Read

\* Whatever the two threads do, in whatever order their steps fall, the cells
\* can be numbered round the ring so that every pointer has its place.
THEOREM Invariant == Spec => []IInv
<1>1. Init => IInv
  BY InitEstablishes
<1>2. IInv /\ [Next]_vars => IInv'
  BY InvNext
<1> QED BY <1>1, <1>2, PTL DEF Spec

\* The links make one ring of all the cells and the pointers follow each
\* other round it (AddCell in WriteLock, and Clear, change the ring).
THEOREM AlwaysWhole == Spec => []RingIsWhole
<1>1. IInv => RingIsWhole
  BY WholeFromInv
<1> QED BY <1>1, Invariant, PTL

\* What ReadLock returned is never what the writer assigns to or links at,
\* though neither thread takes a lock.
THEOREM NeverShared == Spec => []NoCellIsShared
<1>1. IInv => NoCellIsShared
  BY NotSharedFromInv
<1> QED BY <1>1, Invariant, PTL

\* The ring grows with what waits in it and no further, but for cells whose
\* flag was garbage when the memory was got.
THEOREM StaysSmall == Spec => []RingStaysSmall
<1>1. IInv => RingStaysSmall
  BY SmallFromInv
<1> QED BY <1>1, Invariant, PTL

-----------------------------------------------------------------------------
(* The queue that the callers take it for.                                 *)

\* The objects in the cells that wait, and in those that the reader holds.
Waiting == [k \in DOMAIN Queued |-> ring[Queued[k]].object]

Looked == [k \in DOMAIN held |-> ring[held[k]].object]

\* What waits and what was looked at, by the numbers of the cells.
LEMMA Shown ==
  \A cell, N, w, ahead :
    TypeInv /\ RingInv(cell, N, w, ahead) =>
      /\ Waiting = [k \in 1..w |-> ring[cell[k - 1]].object]
      /\ Looked = [k \in 1..Len(held) |-> ring[cell[k - 1]].object]
<1> SUFFICES ASSUME NEW cell, NEW N, NEW w, NEW ahead, TypeInv,
                    RingInv(cell, N, w, ahead)
             PROVE  /\ Waiting = [k \in 1..w |-> ring[cell[k - 1]].object]
                    /\ Looked = [k \in 1..Len(held) |-> ring[cell[k - 1]].object]
  OBVIOUS
<1>1. Queued = [k \in 1..w |-> cell[k - 1]]
  BY QueuedCells
<1>2. Waiting = [k \in 1..w |-> ring[cell[k - 1]].object]
  BY <1>1 DEF Waiting
<1>3. DOMAIN held = 1..Len(held) /\ \A k \in 1..Len(held) : held[k] = cell[k - 1]
  BY DEF TypeInv, RingInv, Placed
<1>4. Looked = [k \in 1..Len(held) |-> ring[cell[k - 1]].object]
  BY <1>3 DEF Looked
<1> QED BY <1>2, <1>4

\* The same after a step.
LEMMA ShownNext ==
  \A cell, N, w, ahead :
    TypeInv' /\ RingInv(cell, N, w, ahead)' =>
      /\ Waiting' = [k \in 1..w |-> ring'[cell[k - 1]].object]
      /\ Looked' = [k \in 1..Len(held') |-> ring'[cell[k - 1]].object]
<1>1. (\A cell, N, w, ahead :
          TypeInv /\ RingInv(cell, N, w, ahead) =>
            /\ Waiting = [k \in 1..w |-> ring[cell[k - 1]].object]
            /\ Looked = [k \in 1..Len(held) |-> ring[cell[k - 1]].object])'
  BY Shown, PTL
<1> QED BY <1>1

\* A step that changes no object that waits, no number of a cell that waits
\* and nothing that is held, cannot be seen.
LEMMA Unseen ==
  ASSUME TypeInv, NEW cell, NEW N, NEW w, NEW ahead, RingInv(cell, N, w, ahead),
         TypeInv', NEW up, NEW M, NEW on, RingInv(up, M, w, on)',
         UNCHANGED held,
         \A i \in 0..(w - 1) : ring'[up[i]].object = ring[cell[i]].object
  PROVE  UNCHANGED <<Waiting, Looked>>
<1>1. w \in Nat /\ Len(held) \in Nat /\ Len(held) <= w
  BY ShapeFacts DEF RingInv, Placed, TypeInv
<1>2. /\ Waiting = [k \in 1..w |-> ring[cell[k - 1]].object]
      /\ Looked = [k \in 1..Len(held) |-> ring[cell[k - 1]].object]
  BY Shown
<1>3. /\ Waiting' = [k \in 1..w |-> ring'[up[k - 1]].object]
      /\ Looked' = [k \in 1..Len(held) |-> ring'[up[k - 1]].object]
  BY ShownNext
<1>4. \A k \in 1..w : ring'[up[k - 1]].object = ring[cell[k - 1]].object
  <2>1. \A k \in 1..w : k - 1 \in 0..(w - 1)
    BY <1>1
  <2> QED BY <2>1
<1>5. \A k \in 1..Len(held) : ring'[up[k - 1]].object = ring[cell[k - 1]].object
  <2>1. \A k \in 1..Len(held) : k \in 1..w
    BY <1>1
  <2> QED BY <2>1, <1>4
<1>6. Waiting' = Waiting
  BY <1>2, <1>3, <1>4
<1>7. Looked' = Looked
  BY <1>2, <1>3, <1>5
<1> QED BY <1>6, <1>7

\* The same when the step changes one cell, one that does not wait yet.
LEMMA UnseenIn ==
  ASSUME TypeInv, NEW cell, NEW N, NEW w, NEW ahead, RingInv(cell, N, w, ahead),
         TypeInv', NEW on, RingInv(cell, N, w, on)', UNCHANGED held,
         OnlyIn(cell[w])
  PROVE  UNCHANGED <<Waiting, Looked>>
<1>1. N \in Nat /\ w \in 0..(N - 1)
  BY ShapeFacts
<1>2. \A i \in 0..(w - 1) : i \in 0..(N - 1) /\ i # w
  BY <1>1
<1>3. \A i \in 0..(w - 1) : cell[i] \in DOMAIN ring /\ cell[i] # cell[w]
  BY <1>1, <1>2 DEF RingInv, Enumerated
<1>4. \A i \in 0..(w - 1) : ring'[cell[i]].object = ring[cell[i]].object
  BY <1>3 DEF OnlyIn
<1> QED BY <1>4, Unseen

\* The steps of the writer but the last cannot be seen.
LEMMA WritesUnseen ==
  ASSUME TypeInv, NEW cell, NEW N, NEW w, NEW ahead, RingInv(cell, N, w, ahead),
         \/ LookAtReader \/ LookAtFlag \/ AddCell \/ LinkCell \/ WriteLock
         \/ (\E item \in Items : Assign(item)) \/ SetReady
  PROVE  UNCHANGED <<Waiting, Looked>>
<1>1. N \in Nat /\ w \in 0..(N - 1) /\ ahead \in 0..(N - 1) /\ w <= ahead
  BY ShapeFacts
<1>2. \A i \in 0..(w - 1) : i \in 0..(N - 1)
  BY <1>1
<1>3. CASE LookAtReader
  <2>1. TypeInv' /\ RingInv(cell, N, w, ahead)'
    BY <1>3, LookAtReaderKeeps
  <2>2. UNCHANGED <<ring, held>>
    BY <1>3 DEF LookAtReader, readerVars
  <2> QED BY <2>1, <2>2, Unseen
<1>4. CASE LookAtFlag
  <2>1. TypeInv' /\ RingInv(cell, N, w, ahead)'
    BY <1>4, LookAtFlagKeeps
  <2>2. UNCHANGED <<ring, held>>
    BY <1>4 DEF LookAtFlag, readerVars
  <2> QED BY <2>1, <2>2, Unseen
<1>5. CASE AddCell
  <2>1. PICK c : /\ RingInv(With(cell, N, ahead, c), N + 1, w, ahead)'
                 /\ Added(c, cell[ahead])
    BY <1>5, AddCellKeeps
  <2>2. PICK up : up = With(cell, N, ahead, c)
    OBVIOUS
  <2>3. TypeInv' /\ RingInv(up, N + 1, w, ahead)'
    BY <1>5, <2>1, <2>2, AddCellKeeps
  <2>4. \A i \in 0..(w - 1) : up[i] = cell[i]
    <3>1. \A i \in 0..(w - 1) : i \in 0..N /\ i <= ahead
      BY <1>1
    <3> QED BY <3>1, <2>2 DEF With
  <2>5. \A i \in 0..(w - 1) : cell[i] \in DOMAIN ring
    BY <1>2 DEF RingInv, Enumerated
  <2>6. \A i \in 0..(w - 1) : ring'[up[i]].object = ring[cell[i]].object
    BY <2>1, <2>4, <2>5 DEF Added
  <2>7. UNCHANGED held
    BY <1>5 DEF AddCell, readerVars
  <2> QED BY <2>3, <2>6, <2>7, Unseen
<1>6. CASE LinkCell
  <2>1. /\ TypeInv' /\ RingInv(cell, N, w, ahead)'
        /\ \A i \in 0..(w - 1) : ring'[cell[i]].object = ring[cell[i]].object
    BY <1>2, <1>6, LinkCellKeeps
  <2>2. UNCHANGED held
    BY <1>6 DEF LinkCell, readerVars
  <2> QED BY <2>1, <2>2, Unseen
<1>7. CASE WriteLock
  <2>1. TypeInv' /\ RingInv(cell, N, w, ahead + 1)'
    BY <1>7, WriteLockKeeps
  <2>2. UNCHANGED <<ring, held>>
    BY <1>7 DEF WriteLock, readerVars
  <2> QED BY <2>1, <2>2, Unseen
<1>8. CASE \E item \in Items : Assign(item)
  <2>1. PICK item \in Items : Assign(item)
    BY <1>8
  <2>2. TypeInv' /\ RingInv(cell, N, w, ahead)' /\ OnlyIn(cell[w])
    BY <2>1, AssignKeeps
  <2>3. UNCHANGED held
    BY <2>1 DEF Assign, readerVars
  <2> QED BY <2>2, <2>3, UnseenIn
<1>9. CASE SetReady
  <2>1. TypeInv' /\ RingInv(cell, N, w, ahead)' /\ OnlyIn(cell[w])
    BY <1>9, SetReadyKeeps
  <2>2. UNCHANGED held
    BY <1>9 DEF SetReady, readerVars
  <2> QED BY <2>1, <2>2, UnseenIn
<1> QED BY <1>3, <1>4, <1>5, <1>6, <1>7, <1>8, <1>9

\* Clearing the flag, and clearing an empty queue, cannot be seen.
LEMMA OthersUnseen ==
  ASSUME TypeInv, NEW cell, NEW N, NEW w, NEW ahead, RingInv(cell, N, w, ahead),
         BeginReadUnlock \/ Clear
  PROVE  UNCHANGED <<Waiting, Looked>>
<1>1. N \in Nat /\ w \in 0..(N - 1)
  BY ShapeFacts
<1>2. CASE BeginReadUnlock
  <2>1. /\ TypeInv' /\ RingInv(cell, N, w, ahead)'
        /\ OnlyIn(cell[0]) /\ ring'[cell[0]].object = ring[cell[0]].object
    BY <1>2, BeginReadUnlockKeeps
  <2>2. UNCHANGED held
    BY <1>2 DEF BeginReadUnlock
  <2>3. \A i \in 0..(w - 1) : i \in 0..(N - 1)
    BY <1>1
  <2>4. \A i \in 0..(w - 1) : cell[i] \in DOMAIN ring
    BY <2>3 DEF RingInv, Enumerated
  <2>5. \A i \in 0..(w - 1) : ring'[cell[i]].object = ring[cell[i]].object
    BY <2>1, <2>4 DEF OnlyIn
  <2> QED BY <2>1, <2>2, <2>5, Unseen
<1>3. CASE Clear
  <2>1. PICK up : up = Without(cell, N - MINIMUM_LIST_SIZE)
    OBVIOUS
  <2>2. /\ TypeInv' /\ w = 0 /\ UNCHANGED held
        /\ RingInv(up, MINIMUM_LIST_SIZE, w, 0)'
    BY <1>3, <2>1, ClearKeeps
  <2>3. \A i \in 0..(w - 1) : ring'[up[i]].object = ring[cell[i]].object
    BY <2>2
  <2> QED BY <2>2, <2>3, Unseen
<1> QED BY <1>2, <1>3

\* WriteUnlock puts the item in, all at once.
LEMMA WriteUnlockPuts ==
  ASSUME TypeInv, NEW cell, NEW N, NEW w, NEW ahead, RingInv(cell, N, w, ahead),
         WriteUnlock
  PROVE  \E item \in Items : Waiting' = Append(Waiting, item) /\ Looked' = Looked
<1>1. N \in Nat /\ w \in Nat
  BY ShapeFacts
<1>2. TypeInv' /\ RingInv(cell, N, w + 1, ahead)' /\ UNCHANGED <<ring, held>>
      /\ writing.at = "ready"
  <2>1. UNCHANGED <<ring, held>> /\ writing.at = "ready"
    BY DEF WriteUnlock, readerVars
  <2> QED BY <2>1, WriteUnlockKeeps
<1>3. PICK item \in Items : item = ring[cell[w]].object
  BY <1>2 DEF RingInv, Filled
<1>4. /\ Waiting = [k \in 1..w |-> ring[cell[k - 1]].object]
      /\ Looked = [k \in 1..Len(held) |-> ring[cell[k - 1]].object]
  BY Shown
<1>5. /\ Waiting' = [k \in 1..(w + 1) |-> ring[cell[k - 1]].object]
      /\ Looked' = [k \in 1..Len(held) |-> ring[cell[k - 1]].object]
  BY <1>2, ShownNext
<1>6. Append(Waiting, item) = [k \in 1..(w + 1) |-> IF k = w + 1 THEN item ELSE Waiting[k]]
  <2>1. Waiting = [k \in 1..w |-> Waiting[k]]
    BY <1>4
  <2>2. Len(Waiting) = w
    BY <1>1, <2>1
  <2> QED BY <1>1, <2>1, <2>2
<1>7. \A k \in 1..(w + 1) : ring[cell[k - 1]].object = IF k = w + 1 THEN item ELSE Waiting[k]
  <2>1. \A k \in 1..(w + 1) : k = w + 1 \/ (k # w + 1 /\ k \in 1..w)
    BY <1>1
  <2>2. (w + 1) - 1 = w
    BY <1>1
  <2> QED BY <2>1, <2>2, <1>3, <1>4
<1>8. Waiting' = Append(Waiting, item)
  BY <1>5, <1>6, <1>7
<1> QED BY <1>4, <1>5, <1>8

\* ReadLock looks at the next item.
LEMMA ReadLockLooks ==
  ASSUME TypeInv, NEW cell, NEW N, NEW w, NEW ahead, RingInv(cell, N, w, ahead),
         ReadLock
  PROVE  /\ Len(Looked) < Len(Waiting)
         /\ Looked' = Append(Looked, Waiting[Len(Looked) + 1])
         /\ Waiting' = Waiting
<1>1. w \in Nat /\ Len(held) \in Nat /\ held \in Seq(Cells) /\ readAheadPointer \in Cells
  BY ShapeFacts DEF TypeInv
<1>2. TypeInv' /\ RingInv(cell, N, w, ahead)' /\ UNCHANGED ring /\ Len(held) < w
      /\ held' = Append(held, readAheadPointer)
  <2>1. UNCHANGED ring /\ held' = Append(held, readAheadPointer)
    BY DEF ReadLock
  <2> QED BY <2>1, ReadLockKeeps
<1>3. PICK n \in Nat : n = Len(held)
  BY <1>1
<1>4. Len(held') = n + 1
  BY <1>1, <1>2, <1>3
<1>5. /\ Waiting = [k \in 1..w |-> ring[cell[k - 1]].object]
      /\ Looked = [k \in 1..n |-> ring[cell[k - 1]].object]
  BY <1>3, Shown
<1>6. /\ Waiting' = [k \in 1..w |-> ring[cell[k - 1]].object]
      /\ Looked' = [k \in 1..(n + 1) |-> ring[cell[k - 1]].object]
  BY <1>2, <1>4, ShownNext
<1>7. Len(Looked) = n /\ Len(Waiting) = w
  BY <1>1, <1>5
<1>8. Append(Looked, Waiting[n + 1])
        = [k \in 1..(n + 1) |-> IF k = n + 1 THEN Waiting[n + 1] ELSE Looked[k]]
  BY <1>7
<1>9. \A k \in 1..(n + 1) :
        ring[cell[k - 1]].object = IF k = n + 1 THEN Waiting[n + 1] ELSE Looked[k]
  <2>1. \A k \in 1..(n + 1) : k \in 1..w /\ (k = n + 1 \/ (k # n + 1 /\ k \in 1..n))
    BY <1>1, <1>2, <1>3
  <2> QED BY <2>1, <1>5
<1>10. Looked' = Append(Looked, Waiting[n + 1])
  BY <1>6, <1>8, <1>9
<1> QED BY <1>2, <1>3, <1>5, <1>6, <1>7, <1>10

\* CancelReadLock goes back to the front.
LEMMA CancelGoesBack ==
  ASSUME TypeInv, NEW cell, NEW N, NEW w, NEW ahead, RingInv(cell, N, w, ahead),
         CancelReadLock
  PROVE  Looked # <<>> /\ Looked' = <<>> /\ Waiting' = Waiting
<1>1. w \in Nat /\ Len(held) \in Nat /\ held \in Seq(Cells)
  BY ShapeFacts DEF TypeInv
<1>2. TypeInv' /\ RingInv(cell, N, w, ahead)' /\ UNCHANGED ring /\ held # <<>>
      /\ held' = <<>>
  <2>1. UNCHANGED ring /\ held # <<>> /\ held' = <<>>
    BY DEF CancelReadLock
  <2> QED BY <2>1, CancelReadLockKeeps
<1>3. Len(held) # 0 /\ Len(held') = 0
  BY <1>1, <1>2
<1>4. /\ Waiting = [k \in 1..w |-> ring[cell[k - 1]].object]
      /\ Looked = [k \in 1..Len(held) |-> ring[cell[k - 1]].object]
  BY Shown
<1>5. /\ Waiting' = [k \in 1..w |-> ring[cell[k - 1]].object]
      /\ Looked' = [k \in 1..0 |-> ring[cell[k - 1]].object]
  BY <1>2, <1>3, ShownNext
<1>6. Len(Looked) = Len(held) /\ Len(Looked) # 0
  BY <1>1, <1>3, <1>4
<1>7. Looked' = <<>>
  BY <1>5
<1> QED BY <1>4, <1>5, <1>6, <1>7

\* A request that is over and not the first becomes a hole.
LEMMA MakeHoleMarks ==
  ASSUME TypeInv, NEW cell, NEW N, NEW w, NEW ahead, RingInv(cell, N, w, ahead),
         MakeHole
  PROVE  /\ Len(Looked) > 1
         /\ Waiting' = [Waiting EXCEPT ![Len(Looked)] = Hole]
         /\ Looked' = [Looked EXCEPT ![Len(Looked)] = Hole]
<1>1. N \in Nat /\ w \in 0..(N - 1) /\ Len(held) \in Nat /\ Len(held) <= w
  BY ShapeFacts DEF RingInv, Placed, TypeInv
<1>2. /\ TypeInv' /\ RingInv(cell, N, w, ahead)'
      /\ OnlyIn(cell[Len(held) - 1]) /\ ring'[cell[Len(held) - 1]].object = Hole
      /\ UNCHANGED held /\ Len(held) > 1
  <2>1. UNCHANGED held /\ Len(held) > 1
    BY DEF MakeHole, readerVars
  <2> QED BY <2>1, MakeHoleKeeps
<1>3. PICK n \in Nat : n = Len(held)
  BY <1>1
<1>4. /\ Waiting = [k \in 1..w |-> ring[cell[k - 1]].object]
      /\ Looked = [k \in 1..n |-> ring[cell[k - 1]].object]
  BY <1>3, Shown
<1>5. /\ Waiting' = [k \in 1..w |-> ring'[cell[k - 1]].object]
      /\ Looked' = [k \in 1..n |-> ring'[cell[k - 1]].object]
  BY <1>2, <1>3, ShownNext
<1>6. Len(Looked) = n
  BY <1>4
<1>7. \A k \in 1..w : ring'[cell[k - 1]].object = IF k = n THEN Hole ELSE ring[cell[k - 1]].object
  <2> SUFFICES ASSUME NEW k \in 1..w, k # n
               PROVE  ring'[cell[k - 1]].object = ring[cell[k - 1]].object
    BY <1>2, <1>3
  <2>1. k - 1 \in 0..(N - 1) /\ n - 1 \in 0..(N - 1) /\ k - 1 # n - 1
    BY <1>1, <1>2, <1>3
  <2>2. cell[k - 1] \in DOMAIN ring /\ cell[k - 1] # cell[n - 1]
    BY <2>1 DEF RingInv, Enumerated
  <2> QED BY <2>2, <1>2, <1>3 DEF OnlyIn
<1>8. n \in 1..w /\ n \in 1..n /\ \A k \in 1..n : k \in 1..w
  BY <1>1, <1>2, <1>3
<1>9. Waiting' = [Waiting EXCEPT ![n] = Hole]
  BY <1>4, <1>5, <1>7, <1>8
<1>10. Looked' = [Looked EXCEPT ![n] = Hole]
  BY <1>4, <1>5, <1>7, <1>8
<1> QED BY <1>2, <1>3, <1>6, <1>9, <1>10

\* ReadUnlock takes the first item.
LEMMA ReadUnlockTakes ==
  ASSUME TypeInv, NEW cell, NEW N, NEW w, NEW ahead, RingInv(cell, N, w, ahead),
         ReadUnlock
  PROVE  Len(Looked) = 1 /\ Waiting' = Tail(Waiting) /\ Looked' = <<>>
<1>1. N \in Nat /\ w \in 0..(N - 1)
  BY ShapeFacts
<1>2. PICK up : up = [i \in 0..(N - 1) |-> Follows(cell, N, i)]
  OBVIOUS
<1>3. /\ TypeInv' /\ RingInv(up, N, w - 1, ahead - 1)' /\ 1 <= w
      /\ freeing /\ UNCHANGED ring /\ held' = <<>>
  <2>1. freeing /\ UNCHANGED ring /\ held' = <<>>
    BY DEF ReadUnlock
  <2> QED BY <1>2, <2>1, ReadUnlockKeeps
<1>4. Len(held) = 1 /\ Len(held') = 0
  BY <1>3 DEF RingInv, Filled
<1>5. /\ Waiting = [k \in 1..w |-> ring[cell[k - 1]].object]
      /\ Looked = [k \in 1..1 |-> ring[cell[k - 1]].object]
  BY <1>4, Shown
<1>6. /\ Waiting' = [k \in 1..(w - 1) |-> ring[up[k - 1]].object]
      /\ Looked' = [k \in 1..0 |-> ring[up[k - 1]].object]
  BY <1>3, <1>4, ShownNext
<1>7. Len(Looked) = 1 /\ Looked' = <<>>
  <2>1. Len(Looked) = 1
    BY <1>5
  <2>2. Looked' = <<>>
    BY <1>6
  <2> QED BY <2>1, <2>2
<1>8. Tail(Waiting) = [k \in 1..(w - 1) |-> Waiting[k + 1]]
  <2>1. Waiting = [k \in 1..w |-> Waiting[k]] /\ w \in Nat /\ w >= 1
    BY <1>1, <1>3, <1>5
  <2>2. Len(Waiting) = w
    BY <2>1
  <2> QED BY <2>1, <2>2
<1>9. \A k \in 1..(w - 1) : ring[up[k - 1]].object = Waiting[k + 1]
  <2> SUFFICES ASSUME NEW k \in 1..(w - 1)
               PROVE  ring[up[k - 1]].object = Waiting[k + 1]
    OBVIOUS
  <2>1. k - 1 \in 0..(N - 1) /\ k - 1 # N - 1 /\ (k - 1) + 1 = k /\ k + 1 \in 1..w
        /\ (k + 1) - 1 = k
    BY <1>1
  <2>2. up[k - 1] = cell[k]
    BY <2>1, <1>2 DEF Follows
  <2> QED BY <2>1, <2>2, <1>5
<1>10. Waiting' = Tail(Waiting)
  BY <1>6, <1>8, <1>9
<1> QED BY <1>7, <1>10

\* The queue is empty at first.
LEMMA InitImplements == ASSUME Init PROVE Promise!Init
<1>1. PICK cell, N, w, ahead : TypeInv /\ RingInv(cell, N, w, ahead)
  BY InitEstablishes DEF IInv
<1>2. N \in Nat /\ w \in 0..(N - 1)
  BY <1>1, ShapeFacts
<1>3. held = <<>> /\ writePointer = readPointer
  BY DEF Init
<1>4. w = 0
  <2>1. cell[w] = cell[0] /\ 0 \in 0..(N - 1)
    BY <1>1, <1>2, <1>3 DEF RingInv, Placed
  <2> QED BY <1>1, <1>2, <2>1 DEF RingInv, Enumerated
<1>5. /\ Waiting = [k \in 1..w |-> ring[cell[k - 1]].object]
      /\ Looked = [k \in 1..Len(held) |-> ring[cell[k - 1]].object]
  BY <1>1, Shown
<1>6. Len(held) = 0
  BY <1>3
<1>7. Waiting = <<>> /\ Looked = <<>>
  BY <1>4, <1>5, <1>6
<1> QED BY <1>7 DEF Promise!Init, Waiting, Looked

\* Every step is one of the queue, or cannot be seen.
LEMMA NextImplements == ASSUME IInv, [Next]_vars PROVE [Promise!Next]_(Promise!vars)
<1>1. PICK cell, N, w, ahead : RingInv(cell, N, w, ahead)
  BY DEF IInv
<1>2. TypeInv
  BY DEF IInv
<1>3. CASE WriteUnlock
  <2>1. PICK item \in Items : Waiting' = Append(Waiting, item) /\ Looked' = Looked
    BY <1>1, <1>2, <1>3, WriteUnlockPuts
  <2> QED BY <2>1 DEF Promise!Next, Promise!Put, Waiting, Looked
<1>4. CASE ReadLock
  <2>1. /\ Len(Looked) < Len(Waiting)
        /\ Looked' = Append(Looked, Waiting[Len(Looked) + 1])
        /\ Waiting' = Waiting
    BY <1>1, <1>2, <1>4, ReadLockLooks
  <2> QED BY <2>1 DEF Promise!Next, Promise!Look, Waiting, Looked
<1>5. CASE CancelReadLock
  <2>1. Looked # <<>> /\ Looked' = <<>> /\ Waiting' = Waiting
    BY <1>1, <1>2, <1>5, CancelGoesBack
  <2> QED BY <2>1 DEF Promise!Next, Promise!Back, Waiting, Looked
<1>6. CASE MakeHole
  <2>1. /\ Len(Looked) > 1
        /\ Waiting' = [Waiting EXCEPT ![Len(Looked)] = Hole]
        /\ Looked' = [Looked EXCEPT ![Len(Looked)] = Hole]
    BY <1>1, <1>2, <1>6, MakeHoleMarks
  <2> QED BY <2>1 DEF Promise!Next, Promise!Mark, Waiting, Looked
<1>7. CASE ReadUnlock
  <2>1. Len(Looked) = 1 /\ Waiting' = Tail(Waiting) /\ Looked' = <<>>
    BY <1>1, <1>2, <1>7, ReadUnlockTakes
  <2> QED BY <2>1 DEF Promise!Next, Promise!Take, Waiting, Looked
<1>8. ASSUME UNCHANGED <<Waiting, Looked>> PROVE [Promise!Next]_(Promise!vars)
  BY <1>8 DEF Promise!vars, Waiting, Looked
<1>9. CASE \/ LookAtReader \/ LookAtFlag \/ AddCell \/ LinkCell \/ WriteLock
           \/ (\E item \in Items : Assign(item)) \/ SetReady
  BY <1>1, <1>2, <1>8, <1>9, WritesUnseen
<1>10. CASE BeginReadUnlock \/ Clear
  BY <1>1, <1>2, <1>8, <1>10, OthersUnseen
<1>11. CASE UNCHANGED vars
  <2>1. UNCHANGED <<ring, readPointer, readAheadPointer, freeing, held,
                    writePointer, writeAheadPointer, writing>>
    BY <1>11 DEF vars, readerVars, writerVars
  <2>2. UNCHANGED Queued
    BY <2>1 DEF Queued, Steps, Walk, NumCells, NextOf
  <2>3. UNCHANGED <<Waiting, Looked>>
    BY <2>1, <2>2 DEF Waiting, Looked
  <2> QED BY <1>8, <2>3
<1> QED BY <1>3, <1>4, <1>5, <1>6, <1>7, <1>9, <1>10, <1>11
        DEF Next, Write, Read

\* The two threads together give a first-in first-out queue whose reader may
\* look ahead: every step of either is a step of that queue or none.
THEOREM Refinement == Spec => ImplementsQueue
<1>1. Init => Promise!Init
  BY InitImplements
<1>2. IInv /\ [Next]_vars => [Promise!Next]_(Promise!vars)
  BY NextImplements
<1> QED BY <1>1, <1>2, Invariant, PTL DEF Spec, ImplementsQueue, Promise!Spec
=============================================================================
