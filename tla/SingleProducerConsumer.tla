----------------------- MODULE SingleProducerConsumer -----------------------
(***************************************************************************)
(* raknet/SingleProducerConsumer.h: the queue between the user thread and  *)
(* the network thread of a RakPeer.  The cells form a ring.  One thread    *)
(* writes at writeAheadPointer, the other reads at readAheadPointer, and   *)
(* neither takes a lock: every step below is one access to memory that the *)
(* other thread can see.  The writer adds a cell when the next one is not  *)
(* free.                                                                   *)
(*                                                                         *)
(* The reader is RakPeer's: it takes the first item, or looks through all  *)
(* of them and goes back to the first, as the scans of                     *)
(* requestedConnectionList do.                                             *)
(***************************************************************************)
EXTENDS Integers, Sequences, FiniteSets, Functions

CONSTANTS
  Cells,      \* the memory there is for cells
  Items,      \* what is put into the queue
  Hole,       \* a request made void out of order: UNASSIGNED_PLAYER_ID
  Nothing,    \* what a new cell holds
  MINIMUM_LIST_SIZE,
  MaxQueued   \* bound on the items that wait

ASSUME QueueAssumption ==
  /\ IsFiniteSet(Cells)
  /\ MINIMUM_LIST_SIZE \in 3..Cardinality(Cells)
  /\ MaxQueued \in Nat

VARIABLES
  ring,     \* the fields of the cells that are allocated
  readPointer, readAheadPointer,
  writePointer, writeAheadPointer,
  writing,  \* where the writer is, the cell it got, the one that was next
  freeing,  \* the reader is in the middle of ReadUnlock
  held      \* the cells ReadLock returned, neither unlocked nor cancelled

readerVars == <<readPointer, readAheadPointer, freeing, held>>
writerVars == <<writePointer, writeAheadPointer, writing>>
vars == <<ring, readerVars, writerVars>>

NextOf(c) == ring[c].next

\* The memory of a new cell may happen to hold a flag that is set.
NewCell(c, garbage) == [next |-> c, readyToRead |-> garbage, object |-> Nothing]

\* The constructor links the cells and leaves readyToRead as the memory was.
Init ==
  \E cell \in [0..(MINIMUM_LIST_SIZE - 1) -> Cells] :
    /\ IsInjective(cell)
    /\ LET place == AntiFunction(cell)
       IN  \E garbage \in [DOMAIN place -> BOOLEAN] :
             ring = [c \in DOMAIN place |->
                       [NewCell(c, garbage[c]) EXCEPT
                          !.next = cell[(place[c] + 1) % MINIMUM_LIST_SIZE]]]
    /\ readPointer = cell[0] /\ readAheadPointer = cell[0]
    /\ writePointer = cell[0] /\ writeAheadPointer = cell[0]
    /\ writing = [at |-> "idle", cell |-> cell[0], originalNext |-> cell[0]]
    /\ freeing = FALSE
    /\ held = <<>>

NumCells == Cardinality(DOMAIN ring)

\* The cell n links beyond readPointer, and how many links lead to c.
Walk ==
  LET w[n \in 0..NumCells] == IF n = 0 THEN readPointer ELSE NextOf(w[n - 1])
  IN  w

Steps(c) ==
  CHOOSE n \in 0..NumCells :
    /\ n < NumCells => Walk[n] = c
    /\ \A k \in 0..(n - 1) : Walk[k] # c

\* The cells that hold an item for the reader, in order.
Queued == [k \in 1..Steps(writePointer) |-> Walk[k - 1]]
-----------------------------------------------------------------------------
(***************************************************************************)
(* The writer: WriteLock, the assignment to the object, WriteUnlock.       *)
(***************************************************************************)
Goto(place) == writing' = [writing EXCEPT !.at = place]

IsAtReader_mutant(c) == FALSE

IsAtReader(c) == c = readPointer

\* WriteLock looks at readPointer first, then at the flag of the next cell.
LookAtReader ==
  /\ writing.at = "idle"
  /\ Len(Queued) < MaxQueued
  /\ Goto(IF IsAtReader(NextOf(writeAheadPointer)) THEN "full" ELSE "mayBeFree")
  /\ UNCHANGED <<ring, readerVars, writePointer, writeAheadPointer>>

LookAtFlag ==
  /\ writing.at = "mayBeFree"
  /\ Goto(IF ring[NextOf(writeAheadPointer)].readyToRead THEN "full" ELSE "free")
  /\ UNCHANGED <<ring, readerVars, writePointer, writeAheadPointer>>

\* A new cell is linked in before its own link is set.
AddCell ==
  /\ writing.at = "full"
  /\ \E c \in Cells \ DOMAIN ring, garbage \in BOOLEAN :
       LET linked == [ring EXCEPT ![writeAheadPointer].next = c]
       IN  ring' = [d \in DOMAIN ring \cup {c} |->
                      IF d = c THEN NewCell(c, garbage) ELSE linked[d]]
  /\ writing' = [writing EXCEPT !.at = "adding",
                                !.originalNext = NextOf(writeAheadPointer)]
  /\ UNCHANGED <<readerVars, writePointer, writeAheadPointer>>

LinkCell ==
  /\ writing.at = "adding"
  /\ ring' = [ring EXCEPT
                ![NextOf(writeAheadPointer)].next = writing.originalNext]
  /\ Goto("free")
  /\ UNCHANGED <<readerVars, writePointer, writeAheadPointer>>

WriteLock ==
  /\ writing.at = "free"
  /\ writing' = [writing EXCEPT !.at = "locked", !.cell = writeAheadPointer]
  /\ writeAheadPointer' = NextOf(writeAheadPointer)
  /\ UNCHANGED <<ring, readerVars, writePointer>>

Assign(item) ==
  /\ writing.at = "locked"
  /\ ring' = [ring EXCEPT ![writing.cell].object = item]
  /\ Goto("assigned")
  /\ UNCHANGED <<readerVars, writePointer, writeAheadPointer>>

SetReady ==
  /\ writing.at = "assigned"
  /\ ring' = [ring EXCEPT ![writePointer].readyToRead = TRUE]
  /\ Goto("ready")
  /\ UNCHANGED <<readerVars, writePointer, writeAheadPointer>>

WriteUnlock ==
  /\ writing.at = "ready"
  /\ writePointer' = NextOf(writePointer)
  /\ Goto("idle")
  /\ UNCHANGED <<ring, readerVars, writeAheadPointer>>
-----------------------------------------------------------------------------
(***************************************************************************)
(* The reader.                                                             *)
(***************************************************************************)
IsReadable_mutant(c) == c # writeAheadPointer

\* What ReadLock tests.  The writer sets the flag of a cell before it passes
\* the cell, so reading both at once makes no difference.
IsReadable(c) == c # writePointer /\ ring[c].readyToRead

ReadLock ==
  /\ ~freeing
  /\ IsReadable(readAheadPointer)
  /\ held' = Append(held, readAheadPointer)
  /\ readAheadPointer' = NextOf(readAheadPointer)
  /\ UNCHANGED <<ring, readPointer, freeing, writerVars>>

\* The scan of the requests has come to the end: ReadLock returns 0.
CancelReadLock ==
  /\ ~freeing /\ held # <<>>
  /\ ~IsReadable(readAheadPointer)
  /\ readAheadPointer' = held[1]
  /\ held' = <<>>
  /\ UNCHANGED <<ring, readPointer, freeing, writerVars>>

\* "Hole in the middle": a request that is over and not the first.
MakeHole ==
  /\ ~freeing /\ Len(held) > 1
  /\ ring' = [ring EXCEPT ![held[Len(held)]].object = Hole]
  /\ UNCHANGED <<readerVars, writerVars>>

ClearFlag_mutant(c) == ring

ClearFlag(c) == [ring EXCEPT ![c].readyToRead = FALSE]

\* ReadUnlock, in two steps, of the one cell that is held.
BeginReadUnlock ==
  /\ ~freeing /\ Len(held) = 1
  /\ ring' = ClearFlag(readPointer)
  /\ freeing' = TRUE
  /\ UNCHANGED <<readPointer, readAheadPointer, held, writerVars>>

ReadUnlock ==
  /\ freeing
  /\ readPointer' = NextOf(readPointer)
  /\ freeing' = FALSE
  /\ held' = <<>>
  /\ UNCHANGED <<ring, readAheadPointer, writerVars>>
-----------------------------------------------------------------------------
\* The cells after readPointer that Clear deletes.
Surplus == {Walk[n] : n \in 1..(NumCells - MINIMUM_LIST_SIZE)}

FirstKept == Walk[Cardinality(Surplus) + 1]

(***************************************************************************)
(* Disconnect has stopped the network thread and read what was left.       *)
(***************************************************************************)
Clear ==
  /\ writing.at = "idle" /\ ~freeing
  /\ held = <<>> /\ Queued = <<>>
  /\ ring' = Restrict([ring EXCEPT ![readPointer].next = FirstKept],
                      DOMAIN ring \ Surplus)
  /\ writePointer' = readPointer
  /\ readAheadPointer' = readPointer
  /\ writeAheadPointer' = readPointer
  /\ UNCHANGED <<readPointer, freeing, held, writing>>

Write ==
  \/ LookAtReader \/ LookAtFlag \/ AddCell \/ LinkCell
  \/ WriteLock \/ (\E item \in Items : Assign(item))
  \/ SetReady \/ WriteUnlock

Read ==
  ReadLock \/ CancelReadLock \/ MakeHole \/ BeginReadUnlock \/ ReadUnlock

Next == Write \/ Read \/ Clear

Spec == Init /\ [][Next]_vars
-----------------------------------------------------------------------------
(***************************************************************************)
(* The links make one ring of all the cells, except while a new one has    *)
(* none, and the pointers follow each other round it in one order: neither *)
(* thread overtakes the other, on either side.                             *)
(***************************************************************************)
RingIsWhole ==
  writing.at # "adding" =>
    /\ {Walk[n] : n \in 0..(NumCells - 1)} = DOMAIN ring
    /\ Walk[NumCells] = readPointer
    /\ Len(held) <= Steps(writePointer)
    /\ Steps(writePointer) <= Steps(writeAheadPointer)

(***************************************************************************)
(* A cell is never in the hands of both threads: what the reader holds,    *)
(* or is giving back, is not what the writer assigns to or links at.       *)
(***************************************************************************)
NoCellIsShared ==
  \A k \in DOMAIN held :
    /\ held[k] # writeAheadPointer
    /\ writing.at \in {"locked", "assigned", "ready"} => held[k] # writing.cell

(***************************************************************************)
(* The ring grows no further than what waits in it needs, so the memory of *)
(* items that were read is used again.  The exception is a cell that was   *)
(* never written whose flag the memory happened to set: the writer takes   *)
(* it for full each time and adds a cell before it, for every item.        *)
(***************************************************************************)
HasStaleFlag ==
  \E c \in DOMAIN ring : ring[c].readyToRead /\ ring[c].object = Nothing

RingStaysSmall ==
  NumCells <= MINIMUM_LIST_SIZE \/ NumCells <= MaxQueued + 1 \/ HasStaleFlag

(***************************************************************************)
(* The two threads together give the queue that the callers take it for.   *)
(***************************************************************************)
Promise ==
  INSTANCE LookaheadQueue WITH
    queue <- [k \in DOMAIN Queued |-> ring[Queued[k]].object],
    looked <- [k \in DOMAIN held |-> ring[held[k]].object]

ImplementsQueue == Promise!Spec
=============================================================================
