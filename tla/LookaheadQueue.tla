--------------------------- MODULE LookaheadQueue ---------------------------
(***************************************************************************)
(* What raknet/SingleProducerConsumer.h promises to its two threads: a     *)
(* first-in first-out queue whose consumer may look further ahead than the *)
(* first item, change what it looked at, and go back to the front.         *)
(***************************************************************************)
EXTENDS Sequences, SequencesExt

CONSTANTS
  Items,   \* what the producer puts
  Hole     \* what the consumer makes of an item that is dealt with already

VARIABLES
  queue,   \* the items put and not taken yet
  looked   \* those the consumer has looked at since it was at the front

vars == <<queue, looked>>

Init == queue = <<>> /\ looked = <<>>

Put(item) == queue' = Append(queue, item) /\ UNCHANGED looked

\* The next item, never a value that nobody put.
Look ==
  /\ Len(looked) < Len(queue)
  /\ looked' = Append(looked, queue[Len(looked) + 1])
  /\ UNCHANGED queue

\* The first item goes when the consumer has looked at no other.
Take ==
  /\ Len(looked) = 1
  /\ queue' = Tail(queue)
  /\ looked' = <<>>

\* A later one is made a hole instead.
Mark ==
  /\ Len(looked) > 1
  /\ queue' = [queue EXCEPT ![Len(looked)] = Hole]
  /\ looked' = [looked EXCEPT ![Len(looked)] = Hole]

Back == looked # <<>> /\ looked' = <<>> /\ UNCHANGED queue

Next == (\E item \in Items : Put(item)) \/ Look \/ Take \/ Mark \/ Back

Spec == Init /\ [][Next]_vars
=============================================================================
