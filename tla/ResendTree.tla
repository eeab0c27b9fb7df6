----------------------------- MODULE ResendTree -----------------------------
(***************************************************************************)
(* raknet/ReliabilityLayer.cpp: the two containers between a reliable      *)
(* message and its acknowledgement.  The sender keeps what it may have to  *)
(* send again in a B+ tree by message number (resendList); the receiver    *)
(* collects the numbers to acknowledge in a range list (acknowlegements)   *)
(* and writes as many of its ranges as fit into a datagram.  The module    *)
(* ReliabilityLayer takes both as sets; this one shows that they are.      *)
(*                                                                         *)
(* Messages are known by their position in the sequence of transmissions;  *)
(* their numbers wrap, so the tree is filled from the left again after     *)
(* each turn.                                                              *)
(***************************************************************************)
EXTENDS BPlusTree

CONSTANTS
  NumberRange,  \* message numbers are 0..NumberRange - 1
  MaxBits,      \* the room for acknowledgements in a datagram, in bits
  Burst,        \* how many messages the sender puts into a datagram
  MaxMessages,  \* bound: transmissions in one behaviour
  Window,       \* bound: messages that may be unacknowledged at a time
  Reordering    \* bound: how far ahead of one still missing others arrive

ASSUME BoundsAssumption ==
  /\ NumberRange \in Nat \ {0}
  /\ MaxBits \in Nat /\ MaxBits >= 49
  /\ Burst \in 1..NumberRange
  /\ MaxMessages \in Nat /\ Window \in Nat /\ Reordering \in Nat

R == INSTANCE RangeList

VARIABLES
  count,            \* reliable messages transmitted so far
  resendList,       \* the tree
  received,         \* the messages that have reached the receiver
  acknowlegements,  \* the range list, under the name it has in the code
  inFlight          \* a datagram with acknowledgements, or none

vars == <<count, resendList, received, acknowlegements, inFlight>>

Number(k) == (k - 1) % NumberRange

\* The last message that was given number n.
Current(n) == count - ((count - 1 - n) % NumberRange)

Unacknowledged == {Current(n) : n \in Keys(resendList)}

\* Bound: a number has left use at both ends before it is assigned again.
IsUnused(n) ==
  n \notin Keys(resendList) \cup R!Covered(acknowlegements)
                            \cup R!Covered(inFlight)

Init ==
  /\ count = 0 /\ resendList = NoPage
  /\ received = {} /\ acknowlegements = <<>> /\ inFlight = <<>>

\* The numbers of the next datagram, in the order they are assigned.
NewNumbers == [i \in 1..Burst |-> Number(count + i)]

\* GenerateDatagram: the first transmission of reliable messages.
Transmit ==
  /\ count + Burst <= MaxMessages
  /\ Cardinality(Unacknowledged) + Burst <= Window
  /\ \A i \in 1..Burst : IsUnused(NewNumbers[i])
  /\ count' = count + Burst
  /\ resendList' = FoldLeft(Insert, resendList, NewNumbers)
  /\ UNCHANGED <<received, acknowlegements, inFlight>>

\* SendAcknowledgementPacket, for a message that arrives, and every time it
\* arrives again.
Receive(k) ==
  /\ \A j \in Unacknowledged : k < j + Reordering
  /\ received' = received \cup {k}
  /\ acknowlegements' = R!Insert(acknowlegements, Number(k))
  /\ UNCHANGED <<count, resendList, inFlight>>

\* GenerateDatagram: the acknowledgements that fit.  The datagram before may
\* have been lost.
SendAcks ==
  /\ acknowlegements # <<>>
  /\ inFlight' = R!Written(acknowlegements, MaxBits)
  /\ acknowlegements' = R!Kept(acknowlegements, MaxBits)
  /\ UNCHANGED <<count, resendList, received>>

NumbersOf(range) ==
  [i \in 1..(range.maxIndex - range.minIndex + 1) |-> range.minIndex + i - 1]

\* RemovePacketFromResendList for each number of each range in turn; a number
\* that was acknowledged before is not in the tree.
RemoveAcknowledged(tree, ranges) ==
  FoldLeft(LAMBDA t, range : FoldLeft(Delete, t, NumbersOf(range)),
           tree, ranges)

\* HandleSocketReceiveFromConnectedPlayer: the datagram may come again.
ReceiveAcks ==
  /\ inFlight # <<>> /\ R!IsReadable(inFlight)
  /\ resendList' = RemoveAcknowledged(resendList, inFlight)
  /\ inFlight' \in {inFlight, <<>>}
  /\ UNCHANGED <<count, received, acknowlegements>>

Next == \/ Transmit \/ SendAcks \/ ReceiveAcks
        \/ \E k \in Unacknowledged : Receive(k)

Spec == Init /\ [][Next]_vars
-----------------------------------------------------------------------------
(***************************************************************************)
(* The tree passes the assertions of its ValidateTree after every insertion *)
(* and deletion the protocol makes: the leaves ascend, every index key is  *)
(* the first key of the leaf behind it, and no page is too empty or full.  *)
(***************************************************************************)
ResendListIsValid == ValidateTree(resendList)

(***************************************************************************)
(* Searching the tree finds the keys that its leaves hold and no others: an *)
(* index key that is out of date would hide a message from its             *)
(* acknowledgement, and it would be resent until the connection is lost.   *)
(***************************************************************************)
SearchFindsAll ==
  LET keys == Keys(resendList)
  IN  \A n \in 0..(NumberRange - 1) : Get(resendList, n) <=> n \in keys

(***************************************************************************)
(* The tree and the range list are the sets that ReliabilityLayer takes    *)
(* them for: this module implements ResendSets.                            *)
(***************************************************************************)
Sets == INSTANCE ResendSets WITH
          unacknowledged <- Keys(resendList),
          toAcknowledge  <- R!Covered(acknowlegements),
          datagram       <- R!Covered(inFlight)

ImplementsSets == Sets!Spec

(***************************************************************************)
(* A message that has not been received can still be resent, and nothing   *)
(* is acknowledged that was not received, although datagrams are repeated  *)
(* and lost and the numbers wrap.                                          *)
(***************************************************************************)
NothingIsForgotten == Sets!NothingIsForgotten
=============================================================================
