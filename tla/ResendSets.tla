----------------------------- MODULE ResendSets -----------------------------
(***************************************************************************)
(* What the two containers of ResendTree promise to the reliability layer, *)
(* which treats both as sets of message numbers: nothing enters or leaves  *)
(* them but what is transmitted, received or acknowledged.                 *)
(***************************************************************************)
EXTENDS Integers

CONSTANT NumberRange  \* message numbers are 0..NumberRange - 1, and there are some

VARIABLES
  count,           \* reliable messages transmitted so far
  received,        \* the messages that have reached the receiver
  unacknowledged,  \* numbers that may have to be sent again
  toAcknowledge,   \* numbers to write into acknowledgement datagrams
  datagram         \* the numbers in the datagram under way, if any

vars == <<count, received, unacknowledged, toAcknowledge, datagram>>

Numbers == 0..(NumberRange - 1)

Number(k) == (k - 1) % NumberRange

\* The last message that was given number n.
Current(n) == count - ((count - 1 - n) % NumberRange)

\* The numbers of the next m messages.
NewNumbers(m) == {Number(count + i) : i \in 1..m}

Init ==
  /\ count = 0 /\ received = {}
  /\ unacknowledged = {} /\ toAcknowledge = {} /\ datagram = {}

\* A number is not assigned again while it is in use: the code does not test
\* this, and has more numbers than are in use at a time.
Transmit ==
  \E m \in 1..NumberRange :
    /\ count' = count + m
    /\ NewNumbers(m) \cap (unacknowledged \cup toAcknowledge \cup datagram) = {}
    /\ unacknowledged' = unacknowledged \cup NewNumbers(m)
    /\ UNCHANGED <<received, toAcknowledge, datagram>>

Receive ==
  \E n \in unacknowledged :
    /\ received' = received \cup {Current(n)}
    /\ toAcknowledge' = toAcknowledge \cup {n}
    /\ UNCHANGED <<count, unacknowledged, datagram>>

\* A part of the set goes out; what does not go out stays.
SendAcks ==
  /\ datagram' # {} /\ datagram' \subseteq toAcknowledge
  /\ toAcknowledge' \subseteq toAcknowledge
  /\ toAcknowledge \subseteq toAcknowledge' \cup datagram'
  /\ UNCHANGED <<count, received, unacknowledged>>

ReceiveAcks ==
  /\ unacknowledged' = unacknowledged \ datagram
  /\ datagram' \in {datagram, {}}
  /\ UNCHANGED <<count, received, toAcknowledge>>

Next == Transmit \/ Receive \/ SendAcks \/ ReceiveAcks

Spec == Init /\ [][Next]_vars
-----------------------------------------------------------------------------
(***************************************************************************)
(* A message that has not been received can still be resent, and nothing   *)
(* is acknowledged that was not received, although datagrams are repeated  *)
(* and lost and the numbers wrap.                                          *)
(***************************************************************************)
NothingIsForgotten ==
  /\ (1..count) \ received \subseteq {Current(n) : n \in unacknowledged}
  /\ \A n \in toAcknowledge \cup datagram : Current(n) \in received
=============================================================================
