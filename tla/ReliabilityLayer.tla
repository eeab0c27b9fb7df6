-------------------------- MODULE ReliabilityLayer --------------------------
(***************************************************************************)
(* raknet/ReliabilityLayer.cpp: one direction of one connection.  Messages *)
(* flow from a sending layer to a receiving layer, acknowledgements flow   *)
(* back.  Both ends of a connection run both halves; the two directions    *)
(* share no state, and an acknowledgement that rides on a data datagram is *)
(* an acknowledgement datagram here.                                       *)
(*                                                                         *)
(* A message is known by its position k in the sequence of Send calls; its *)
(* header carries only the wrapping numbers derived from it.  A datagram   *)
(* holds one message or one acknowledgement: the receiver handles the      *)
(* parts of a larger datagram one after another, so it behaves as several. *)
(* UDP loses, duplicates and reorders datagrams.                           *)
(*                                                                         *)
(* Abstractions.  Which waiting message goes out next (priority, bandwidth *)
(* and MTU) and when a resend timer fires (nextActionTime) are left open;  *)
(* the clock counts in units coarse enough for timeoutTime only.           *)
(*                                                                         *)
(* An operator named X_mutant is X with a plausible bug; nothing uses it.  *)
(* README.md says which property each of them breaks.                      *)
(***************************************************************************)
EXTENDS SerialNumbers, Sequences, FiniteSets

CONSTANTS
  Streams,      \* the <<reliability, ordering channel>> pairs in use
  Timeout,      \* timeoutTime, in ticks of the clock
  MaxMessages,  \* bound: Send calls in one behaviour
  MaxTime,      \* bound: the last instant of the clock
  MaxAge        \* bound: see IsFresh

ASSUME BoundsAssumption ==
  /\ Timeout \in Nat
  /\ MaxMessages \in Nat
  /\ MaxTime \in Nat
  /\ MaxAge \in Nat

Channels == {s[2] : s \in Streams}

VARIABLES
  \* ---- the sending layer ----
  sent,            \* every Send so far: <<reliability, channel>>, by message
  index,           \* orderingIndex of each message, 0 where it has none
  orderedWrite,    \* waitingForOrderedPacketWriteIndex, per channel
  sequencedWrite,  \* waitingForSequencedPacketWriteIndex, per channel
  sendPacketSet,   \* messages not yet transmitted
  resendList,      \* transmitted reliable messages not yet acknowledged
  lastAckTime,     \* 0, or when the wait for an acknowledgement began
  deadConnection,
  \* ---- the network ----
  inFlight,        \* messages in data datagrams
  acksInFlight,    \* messages whose numbers are in acknowledgement datagrams
  now,
  \* ---- the receiving layer ----
  base,            \* receivedPacketsBaseIndex
  hasReceived,     \* hasReceivedPacketQueue: 0 = received, else give-up time
  acknowledgements,\* received, acknowledgement not yet sent
  orderedRead,     \* waitingForOrderedPacketReadIndex, per channel
  sequencedRead,   \* waitingForSequencedPacketReadIndex, per channel
  orderingList,    \* ordered messages waiting for an earlier one
  delivered        \* everything ever pushed to outputQueue, in order

senderVars   == <<sent, index, orderedWrite, sequencedWrite, sendPacketSet>>
resendVars   == <<resendList, lastAckTime, deadConnection>>
windowVars   == <<base, hasReceived>>
readVars     == <<orderedRead, sequencedRead, orderingList, delivered>>
receiverVars == <<windowVars, acknowledgements, readVars>>
vars == <<senderVars, resendVars, inFlight, acksInFlight, now, receiverVars>>

Messages == 1..Len(sent)

\* messageNumber starts at 0 and wraps.
Number(k) == (k - 1) % NumberRange

\* What the header of message k says, as the sender writes it into the
\* datagram and as the receiver reads it back.
Reliability(k) == sent[k][1]
Channel(k)     == sent[k][2]

IsReliable(r)  == r \in {"RELIABLE", "RELIABLE_ORDERED", "RELIABLE_SEQUENCED"}
IsSequenced(r) == r \in {"UNRELIABLE_SEQUENCED", "RELIABLE_SEQUENCED"}
IsOrdered(r)   == r = "RELIABLE_ORDERED"

(***************************************************************************)
(* InternalPacket.h asks that a number has left use before it is assigned  *)
(* again.  Two bounds state it: the application does not run MaxAge        *)
(* messages ahead of one still unacknowledged, and a datagram does not     *)
(* survive MaxAge further sends.                                           *)
(***************************************************************************)
IsFresh(k) == Len(sent) - k < MaxAge

Init ==
  /\ sent = <<>> /\ index = <<>>
  /\ orderedWrite = [c \in Channels |-> 0]
  /\ sequencedWrite = [c \in Channels |-> 0]
  /\ sendPacketSet = {} /\ resendList = {}
  /\ lastAckTime = 0 /\ deadConnection = FALSE
  /\ inFlight = {} /\ acksInFlight = {} /\ now = 1
  /\ base = 0 /\ hasReceived = <<>> /\ acknowledgements = {}
  /\ orderedRead = [c \in Channels |-> 0]
  /\ sequencedRead = [c \in Channels |-> 0]
  /\ orderingList = {} /\ delivered = <<>>

-----------------------------------------------------------------------------
(* The sending layer.                                                      *)

\* Send: number the message, give it an ordering or sequencing index, queue it.
Send(s) ==
  /\ Len(sent) < MaxMessages
  /\ \A k \in sendPacketSet \cup resendList : Len(sent) + 1 - k < MaxAge
  /\ sent' = Append(sent, s)
  /\ sendPacketSet' = sendPacketSet \cup {Len(sent) + 1}
  /\ \/ /\ IsOrdered(s[1])
        /\ index' = Append(index, orderedWrite[s[2]])
        /\ orderedWrite' =
             [orderedWrite EXCEPT ![s[2]] = (@ + 1) % NumberRange]
        /\ UNCHANGED sequencedWrite
     \/ /\ IsSequenced(s[1])
        /\ index' = Append(index, sequencedWrite[s[2]])
        /\ sequencedWrite' =
             [sequencedWrite EXCEPT ![s[2]] = (@ + 1) % NumberRange]
        /\ UNCHANGED orderedWrite
     \/ /\ ~IsOrdered(s[1]) /\ ~IsSequenced(s[1])
        /\ index' = Append(index, 0)
        /\ UNCHANGED <<orderedWrite, sequencedWrite>>
  /\ UNCHANGED <<resendVars, inFlight, acksInFlight, now, receiverVars>>

\* The test at the top of Update.
AckOverdue ==
  resendList # {} /\ lastAckTime # 0 /\ now - lastAckTime > Timeout

DeclareDead ==
  /\ ~deadConnection /\ AckOverdue
  /\ deadConnection' = TRUE
  /\ UNCHANGED <<senderVars, resendList, lastAckTime, inFlight, acksInFlight,
                 now, receiverVars>>

\* InsertPacketIntoResendList on a first transmission.  resendList already
\* holds the message there, so its IsEmpty test never decides.
StartAckTimer == lastAckTime' = IF lastAckTime = 0 THEN now ELSE lastAckTime

\* GenerateDatagram, second half: the first transmission of a message.
Transmit(k) ==
  /\ ~deadConnection /\ ~AckOverdue
  /\ k \in sendPacketSet
  /\ sendPacketSet' = sendPacketSet \ {k}
  /\ inFlight' = inFlight \cup {k}
  /\ \/ /\ IsReliable(Reliability(k))
        /\ resendList' = resendList \cup {k}
        /\ StartAckTimer
     \/ /\ ~IsReliable(Reliability(k))
        /\ UNCHANGED <<resendList, lastAckTime>>
  /\ UNCHANGED <<sent, index, orderedWrite, sequencedWrite, deadConnection,
                 acksInFlight, now, receiverVars>>

Resend_mutant(k) == FALSE /\ k \in resendList /\ UNCHANGED vars

\* GenerateDatagram, first half: the head of resendQueue is due again.
Resend(k) ==
  /\ ~deadConnection /\ ~AckOverdue
  /\ k \in resendList
  /\ inFlight' = inFlight \cup {k}
  /\ UNCHANGED <<senderVars, resendVars, acksInFlight, now, receiverVars>>

AfterAck_mutant(rest) == now

\* lastAckTime after an acknowledgement that leaves rest unacknowledged.
AfterAck(rest) == IF rest = {} THEN 0 ELSE now

\* RemovePacketFromResendListAndDeleteOlderReliableSequenced, whose second
\* half is commented out.
RemovePacketFromResendList(k) == {j \in resendList : Number(j) # Number(k)}

\* The acknowledgement part of HandleSocketReceiveFromConnectedPlayer.
ReceiveAck(k) ==
  /\ ~deadConnection
  /\ k \in acksInFlight /\ IsFresh(k)
  /\ acksInFlight' \in {acksInFlight, acksInFlight \ {k}}
  /\ resendList' = RemovePacketFromResendList(k)
  /\ lastAckTime' = AfterAck(resendList')
  /\ UNCHANGED <<senderVars, deadConnection, inFlight, now, receiverVars>>

-----------------------------------------------------------------------------
(* The receiving layer.                                                    *)

IsDuplicate_mutant(holeCount) == IsBehind(holeCount)

\* Behind the window, or already received inside it.
IsDuplicate(holeCount) ==
  \/ IsBehind(holeCount)
  \/ holeCount < Len(hasReceived) /\ hasReceived[holeCount + 1] = 0

Marked_mutant(holeCount) ==
  [i \in 1..(IF holeCount < Len(hasReceived) THEN Len(hasReceived)
                                             ELSE holeCount + 1) |->
     IF i <= Len(hasReceived) /\ i # holeCount + 1 THEN hasReceived[i] ELSE 0]

\* The window with the message at holeCount received; every number skipped on
\* the way there gets a time after which it is no longer waited for.
Marked(holeCount) ==
  [i \in 1..(IF holeCount < Len(hasReceived) THEN Len(hasReceived)
                                             ELSE holeCount + 1) |->
     IF i = holeCount + 1 THEN 0
     ELSE IF i <= Len(hasReceived) THEN hasReceived[i]
     ELSE now + Timeout]

\* The leading entries of window w that are received or given up.
Settled(w) ==
  CHOOSE n \in 0..Len(w) :
     /\ \A i \in 1..n : w[i] < now
     /\ n < Len(w) => w[n + 1] >= now

MoveWindow_mutant(holeCount) ==
  LET w == Marked(holeCount)
      n == Settled(w)
  IN  /\ base' = (base + n) % MaxRange
      /\ hasReceived' = SubSeq(w, n + 1, Len(w))

MoveWindow(holeCount) ==
  LET w == Marked(holeCount)
      n == Settled(w)
  IN  /\ base' = (base + n) % NumberRange
      /\ hasReceived' = SubSeq(w, n + 1, Len(w))

DeliverSequenced_mutant(k) ==
  /\ IsSequenced(Reliability(k))
  /\ sequencedRead' = [sequencedRead EXCEPT
                          ![Channel(k)] = (index[k] + 1) % NumberRange]
  /\ delivered' = Append(delivered, k)
  /\ UNCHANGED <<orderedRead, orderingList>>

DeliverSequenced(k) ==
  /\ IsSequenced(Reliability(k))
  /\ IF IsOlderOrderedPacket(index[k], sequencedRead[Channel(k)])
     THEN UNCHANGED <<sequencedRead, delivered>>
     ELSE /\ sequencedRead' = [sequencedRead EXCEPT
                                 ![Channel(k)] = (index[k] + 1) % NumberRange]
          /\ delivered' = Append(delivered, k)
  /\ UNCHANGED <<orderedRead, orderingList>>

\* The waiting messages of channel c with orderingIndex i.
Waiting(c, i) == {j \in orderingList : Channel(j) = c /\ index[j] = i}

Released_mutant(c, i) ==
  LET n == IF Waiting(c, (i + 1) % NumberRange) = {} THEN 0 ELSE 1
  IN  [d \in 1..n |-> CHOOSE j \in Waiting(c, (i + d) % NumberRange) : TRUE]

\* What the loop over the ordering list pushes once index i has arrived: the
\* waiting messages that follow i without a gap.
Released(c, i) ==
  LET n == CHOOSE m \in 0..Len(sent) :
              /\ \A d \in 1..m : Waiting(c, (i + d) % NumberRange) # {}
              /\ Waiting(c, (i + m + 1) % NumberRange) = {}
  IN  [d \in 1..n |-> CHOOSE j \in Waiting(c, (i + d) % NumberRange) : TRUE]

DeliverOrdered_mutant(k) ==
  /\ IsOrdered(Reliability(k))
  /\ orderedRead' = [orderedRead EXCEPT ![Channel(k)] =
                       (index[k] + 1) % NumberRange]
  /\ delivered' = Append(delivered, k)
  /\ UNCHANGED <<orderingList, sequencedRead>>

DeliverOrdered(k) ==
  /\ IsOrdered(Reliability(k))
  /\ IF index[k] = orderedRead[Channel(k)]
     THEN LET r == Released(Channel(k), index[k])
          IN  /\ delivered' = Append(delivered, k) \o r
              /\ orderingList' = orderingList \ {r[i] : i \in DOMAIN r}
              /\ orderedRead' =
                   [orderedRead EXCEPT
                      ![Channel(k)] = (@ + 1 + Len(r)) % NumberRange]
     ELSE /\ orderingList' = orderingList \cup {k}
          /\ UNCHANGED <<delivered, orderedRead>>
  /\ UNCHANGED sequencedRead

DeliverAtOnce(k) ==
  /\ ~IsSequenced(Reliability(k)) /\ ~IsOrdered(Reliability(k))
  /\ delivered' = Append(delivered, k)
  /\ UNCHANGED <<orderedRead, sequencedRead, orderingList>>

AcknowledgementsAfter_mutant(k) ==
  IF IsReliable(Reliability(k)) /\ ~IsDuplicate(HoleCount(Number(k), base))
  THEN acknowledgements \cup {k}
  ELSE acknowledgements

\* SendAcknowledgementPacket.  Even a duplicate is acknowledged: the first
\* acknowledgement may have been lost.
AcknowledgementsAfter(k) ==
  IF IsReliable(Reliability(k)) THEN acknowledgements \cup {k}
                                ELSE acknowledgements

\* The message part of HandleSocketReceiveFromConnectedPlayer.
ReceiveMessage(k) ==
  LET holeCount == HoleCount(Number(k), base)
  IN  /\ ~deadConnection
      /\ k \in inFlight /\ IsFresh(k)
      /\ inFlight' \in {inFlight, inFlight \ {k}}
      /\ acknowledgements' = AcknowledgementsAfter(k)
      /\ IF IsDuplicate(holeCount)
         THEN UNCHANGED <<windowVars, readVars>>
         ELSE /\ MoveWindow(holeCount)
              /\ DeliverSequenced(k) \/ DeliverOrdered(k) \/ DeliverAtOnce(k)
      /\ UNCHANGED <<senderVars, resendVars, acksInFlight, now>>

\* GenerateDatagram writes the acknowledgements that fit, lowest numbers first,
\* and forgets them: one that is lost is repaired by the resend it provokes.
SendAcks ==
  /\ \E last \in acknowledgements :
        LET fit == {k \in acknowledgements : Number(k) <= Number(last)}
        IN  /\ acksInFlight' = acksInFlight \cup fit
            /\ acknowledgements' = acknowledgements \ fit
  /\ UNCHANGED <<senderVars, resendVars, inFlight, now, windowVars, readVars>>

-----------------------------------------------------------------------------
(* The environment.                                                        *)

Lose ==
  /\ \/ /\ \E k \in inFlight : inFlight' = inFlight \ {k}
        /\ UNCHANGED acksInFlight
     \/ /\ \E k \in acksInFlight : acksInFlight' = acksInFlight \ {k}
        /\ UNCHANGED inFlight
  /\ UNCHANGED <<senderVars, resendVars, now, receiverVars>>

Tick ==
  /\ now < MaxTime
  /\ now' = now + 1
  /\ UNCHANGED <<senderVars, resendVars, inFlight, acksInFlight, receiverVars>>

Next ==
  \/ \E s \in Streams : Send(s)
  \/ \E k \in Messages :
        Transmit(k) \/ Resend(k) \/ ReceiveMessage(k) \/ ReceiveAck(k)
  \/ SendAcks
  \/ DeclareDead
  \/ Lose
  \/ Tick

Spec == Init /\ [][Next]_vars

(***************************************************************************)
(* Update runs on every cycle of the network thread, so a waiting message  *)
(* is transmitted, an unacknowledged one resent and the pending            *)
(* acknowledgements, of which a datagram holds hundreds, sent; a datagram  *)
(* that is sent again and again gets through.  The application owes        *)
(* nothing, and neither does the clock.                                    *)
(***************************************************************************)
Fairness ==
  /\ WF_vars(SendAcks /\ acknowledgements' = {})
  /\ \A k \in 1..MaxMessages :
        /\ WF_vars(k \in Messages /\ Transmit(k))
        /\ WF_vars(k \in Messages /\ Resend(k))
        /\ SF_vars(k \in Messages /\ ReceiveMessage(k))
        /\ SF_vars(k \in Messages /\ ReceiveAck(k))

FairSpec == Spec /\ Fairness
-----------------------------------------------------------------------------
(* Properties.                                                             *)

DeliveredMessages == {delivered[i] : i \in DOMAIN delivered}

\* Every variable keeps the shape the class ReliabilityLayer gives it.
TypeOK ==
  /\ sent \in Seq(Streams) /\ Len(sent) <= MaxMessages
  /\ index \in Seq(Numbers) /\ Len(index) = Len(sent)
  /\ orderedWrite \in [Channels -> Numbers]
  /\ sequencedWrite \in [Channels -> Numbers]
  /\ sendPacketSet \subseteq Messages
  /\ resendList \subseteq Messages
  /\ lastAckTime \in 0..now
  /\ deadConnection \in BOOLEAN
  /\ inFlight \subseteq Messages
  /\ acksInFlight \subseteq Messages
  /\ now \in Nat \ {0}
  /\ base \in Numbers
  /\ hasReceived \in Seq(Nat)
  /\ acknowledgements \subseteq Messages
  /\ orderedRead \in [Channels -> Numbers]
  /\ sequencedRead \in [Channels -> Numbers]
  /\ orderingList \subseteq Messages
  /\ delivered \in Seq(Messages)

Promise == INSTANCE MessageChannel

\* A message reaches the user at most once, however often the network or the
\* sender repeats it: the receive window remembers what was already taken.
NoDuplicateDelivery == Promise!AtMostOnce(delivered)

\* A RELIABLE_ORDERED message follows every earlier one of its channel, with
\* none missing in between, whatever order the datagrams arrive in.
OrderedDelivery == Promise!InOrder(sent, delivered)

\* A sequenced message never follows a later one of its channel; the reliable
\* and the unreliable sequenced messages of a channel share one sequence.
SequencedDelivery == Promise!InSequence(sent, delivered)

\* No ordered message is left in the ordering list once every ordered message
\* before it was delivered: one pass over the list releases the whole run.
NoneLeftWaiting ==
  \A c \in Channels : Waiting(c, orderedRead[c]) = {}

\* The timer that declares the connection dead runs exactly while something
\* waits for an acknowledgement, so an idle connection never times out and a
\* silent one always does.
AckTimerRuns == (lastAckTime = 0) <=> (resendList = {})

\* The sender stops resending a reliable message only when the receiver has
\* it: delivered, waiting for its turn, or (sequenced only) superseded.
AckedMeansDelivered ==
  \A k \in Messages \ (sendPacketSet \cup resendList) :
     (IsReliable(Reliability(k)) /\ ~IsSequenced(Reliability(k)))
        => k \in DeliveredMessages \cup orderingList

HalfTurn == NumberRange \div 2

\* The pairs of counts that are up to two less than half the range apart, in a
\* full turn of the counter beyond the messages sent so far.
NearPairs ==
  {<<Len(sent) + n + d, Len(sent) + n>> :
     n \in HalfTurn..(HalfTurn + NumberRange),
     d \in (2 - HalfTurn)..(HalfTurn - 2)}

\* IsOlderOrderedPacket tells older from newer exactly as the true counts do,
\* on both sides of the wrap and for either half of the range: a sequenced
\* message is neither dropped while new nor delivered while old.
OlderIsExact ==
  \A p \in NearPairs :
    IsOlderOrderedPacket(p[1] % NumberRange, p[2] % NumberRange)
      <=> p[1] < p[2]

\* The unsigned subtraction of the receive window is the true distance ahead
\* of the base, or is recognised as lying behind it.
HoleCountIsExact ==
  \A p \in NearPairs :
    LET h == HoleCount(p[1] % NumberRange, p[2] % NumberRange)
    IN  /\ IsBehind(h) <=> p[1] < p[2]
        /\ p[1] >= p[2] => h = p[1] - p[2]

\* The receiver stays in step with the sender: its base and its read indices
\* lag behind the next number by less than half a turn, which is what lets it
\* tell ahead from behind once the numbers wrap.  IsOlderOrderedPacket is less
\* tolerant by one than the hole count.
InStep ==
  /\ HoleCount(Len(sent), base) < HalfTurn
  /\ \A c \in Channels :
        /\ HoleCount(orderedWrite[c], orderedRead[c]) < HalfTurn
        /\ HoleCount(sequencedWrite[c], sequencedRead[c]) < HalfTurn - 1

\* The layer implements the promise of PacketPriority.h.
ImplementsPromise == Promise!Spec

\* A reliable message that is sent is delivered in the end, over a network
\* that loses any finite number of its datagrams.
EventuallyDelivered ==
  \A k \in 1..MaxMessages :
     ( k \in Messages /\ IsReliable(Reliability(k))
                     /\ ~IsSequenced(Reliability(k)) )
        ~> k \in DeliveredMessages

\* The sender is told in the end: it does not resend for ever.
EventuallyAcked ==
  \A k \in 1..MaxMessages : k \in resendList ~> k \notin resendList
-----------------------------------------------------------------------------
(***************************************************************************)
(* The inductive invariant behind the three delivery properties, for       *)
(* connections on which no number wraps.                                   *)
(***************************************************************************)
NoWrap == MaxMessages < NumberRange \div 2

\* What the receive window has recorded as received or given up.
Received(k) ==
  \/ k <= base
  \/ k - base \in 1..Len(hasReceived) /\ hasReceived[k - base] = 0

\* Nothing is delivered or kept that the window would accept again.
WindowInv ==
  /\ base + Len(hasReceived) <= Len(sent)
  /\ \A k \in DeliveredMessages \cup orderingList : Received(k)

\* Within a stream, indices grow with the messages that carry them.
IndexInv ==
  /\ \A k \in Messages : index[k] < k
  /\ \A k \in Messages :
       /\ IsOrdered(Reliability(k)) => index[k] < orderedWrite[Channel(k)]
       /\ IsSequenced(Reliability(k)) => index[k] < sequencedWrite[Channel(k)]
  /\ \A j, k \in Messages :
       ( /\ j < k /\ Channel(j) = Channel(k)
         /\ \/ IsOrdered(Reliability(j)) /\ IsOrdered(Reliability(k))
            \/ IsSequenced(Reliability(j)) /\ IsSequenced(Reliability(k)) )
          => index[j] < index[k]
  /\ \A c \in Channels :
       orderedWrite[c] <= Len(sent) /\ sequencedWrite[c] <= Len(sent)

\* The read index of a channel splits its ordered messages into the delivered
\* ones before it and the undelivered ones from it on.
OrderInv ==
  /\ \A c \in Channels : orderedRead[c] <= orderedWrite[c]
  /\ \A k \in Messages : IsOrdered(Reliability(k)) =>
       (k \in DeliveredMessages <=> index[k] < orderedRead[Channel(k)])
  /\ \A k \in orderingList :
       IsOrdered(Reliability(k)) /\ index[k] > orderedRead[Channel(k)]
  /\ OrderedDelivery

\* A sequenced message that was delivered lies before the read index.
SequenceInv ==
  /\ \A c \in Channels : sequencedRead[c] <= Len(sent)
  /\ \A k \in DeliveredMessages : IsSequenced(Reliability(k)) =>
       index[k] < sequencedRead[Channel(k)]
  /\ SequencedDelivery

\* The window, the indices and the read positions agree at every moment.
DeliveryInv ==
  /\ TypeOK /\ WindowInv /\ IndexInv /\ OrderInv /\ SequenceInv
  /\ NoDuplicateDelivery

(***************************************************************************)
(* What the acknowledgements say: the receive window has recorded every    *)
(* message that is acknowledged, and every reliable one the sender forgot. *)
(***************************************************************************)
AckInv ==
  /\ \A k \in acknowledgements \cup acksInFlight : Received(k)
  /\ \A k \in Messages \ (sendPacketSet \cup resendList) :
       IsReliable(Reliability(k)) => Received(k)

\* What the window has recorded was taken: delivered, waiting for its turn, or
\* (sequenced only) passed by.
TakenInv ==
  \A k \in Messages : Received(k) =>
     IF IsSequenced(Reliability(k))
     THEN index[k] < sequencedRead[Channel(k)]
     ELSE k \in DeliveredMessages \cup orderingList

\* No number the window skipped is about to be given up.
NothingOverdue ==
  \A i \in DOMAIN hasReceived : hasReceived[i] = 0 \/ hasReceived[i] >= now
\* The clock stops before any number the window skipped is given up.
NoGiveUp == MaxTime <= Timeout + 1

\* A number skipped at some moment is waited for until Timeout after it.
OverdueInv ==
  /\ now \in 1..(Timeout + 1)
  /\ \A i \in DOMAIN hasReceived : hasReceived[i] = 0 \/ hasReceived[i] > Timeout
=============================================================================
