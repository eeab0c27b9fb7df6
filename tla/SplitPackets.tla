---------------------------- MODULE SplitPackets ----------------------------
(***************************************************************************)
(* raknet/ReliabilityLayer.cpp: messages too long for one datagram.  The   *)
(* sender cuts them into parts, each with a message number of its own; the *)
(* receiver collects the parts by the message's split packet id and hands  *)
(* the whole message on when it has as many as the message was cut into.   *)
(*                                                                         *)
(* Below is what ReliabilityLayer.tla models: parts and unsplit messages   *)
(* arrive at most once, in any order.  A part may be lost for good when    *)
(* the message is unreliable, or when the receiver gave up waiting for it. *)
(*                                                                         *)
(* A message is its place in sent; a part is <<message, index>>.  Ordering *)
(* indices do not wrap here: ReliabilityLayer models that.                 *)
(***************************************************************************)
EXTENDS Integers, Sequences, FiniteSets, FiniteSetsExt

CONSTANTS
  Streams,      \* the <<reliability, ordering channel>> pairs in use
  Lengths,      \* the lengths of messages, in bits
  Unsplit,      \* bytes of the longest message sent in one piece
  Block,        \* bytes of a part but the last, maximumSendBlock
  IdRange,      \* range of SplitPacketIdType, 2^16 in the code
  MaxMessages,  \* bound: messages sent
  MaxParts      \* bound: parts all of them are cut into

ASSUME SplitAssumption ==
  /\ Lengths \subseteq Nat \ {0}
  /\ Block \in Nat \ {0} /\ Unsplit \in Nat /\ Block <= Unsplit
  /\ IdRange \in Nat \ {0}
  /\ MaxMessages \in Nat /\ MaxParts \in Nat

VARIABLES
  sent,                    \* the messages, in the order of Send
  splitPacketId,           \* the id of the next message that is cut
  inTransit,               \* the parts on their way
  lost,                    \* the parts that will never arrive
  splitPacketChannelList,  \* id -> [parts, old]: the parts collected
  sequencedReadIndex,      \* channel -> waitingForSequencedPacketReadIndex
  orderedReadIndex,        \* channel -> waitingForOrderedPacketReadIndex
  orderingList,            \* the whole messages that wait for an earlier one
  outputQueue              \* what the user got: the parts of each message

senderVars == <<sent, splitPacketId>>
receiverVars == <<splitPacketChannelList, sequencedReadIndex,
                  orderedReadIndex, orderingList, outputQueue>>
vars == <<senderVars, inTransit, lost, receiverVars>>

Channels == {s[2] : s \in Streams}

\* What the user is promised; a message is known by the first of its parts.
Promise == INSTANCE MessageChannel WITH
             sent <- [k \in DOMAIN sent |-> sent[k].stream],
             delivered <- [i \in DOMAIN outputQueue |-> outputQueue[i][1][1]]

IsReliable(r)  == Promise!IsReliable(r)
IsSequenced(r) == Promise!IsSequenced(r)
IsOrdered(r)   == Promise!IsOrdered(r)

Reliability(k) == sent[k].stream[1]
Channel(k)     == sent[k].stream[2]

Bytes(bits) == (bits + 7) \div 8    \* BITS_TO_BYTES

IsLong(bits) == Bytes(bits) > Unsplit

\* splitPacketCount.
CountOf(bits) == (Bytes(bits) - 1) \div Block + 1

\* Bytes of part i, counted from 0.
PartBytes(bits, i) ==
  IF i < CountOf(bits) - 1 THEN Block ELSE Bytes(bits) - i * Block

\* dataBitLength of part i: the odd bits of the last byte are remembered only
\* by a last part that is shorter than the others.
PartBits(bits, i) ==
  IF PartBytes(bits, i) = Block THEN 8 * Block ELSE bits - 8 * Block * i

IsSplit(k) == IsLong(sent[k].bits)

\* The datagram parts of message k of that many bits.
PartsOf(k, bits) ==
  {<<k, i>> : i \in 0..(IF IsLong(bits) THEN CountOf(bits) - 1 ELSE 0)}

OrderingIndex(k) == sent[k].index

\* waitingForSequencedPacketWriteIndex or waitingForOrderedPacketWriteIndex: a
\* message, however many parts it has, takes one number of its channel.
NextIndex(stream) ==
  Cardinality({ j \in DOMAIN sent :
                  /\ sent[j].stream[2] = stream[2]
                  /\ \/ IsOrdered(sent[j].stream[1]) /\ IsOrdered(stream[1])
                     \/ /\ IsSequenced(sent[j].stream[1])
                        /\ IsSequenced(stream[1]) })

Init ==
  /\ sent = <<>> /\ splitPacketId = 0
  /\ inTransit = {} /\ lost = {}
  /\ splitPacketChannelList = [id \in {} |-> [parts |-> {}, old |-> FALSE]]
  /\ sequencedReadIndex = [c \in Channels |-> 0]
  /\ orderedReadIndex = [c \in Channels |-> 0]
  /\ orderingList = {}
  /\ outputQueue = <<>>
-----------------------------------------------------------------------------
(***************************************************************************)
(* The sender.                                                             *)
(***************************************************************************)
NextId_mutant(id) == id + 1

NextId(id) == (id + 1) % IdRange

\* No part of the message that had this id before is left anywhere.  Nothing
\* in the code sees to it but the size of the range.
IdIsFree(id) ==
  /\ id \notin DOMAIN splitPacketChannelList
  /\ \A part \in inTransit : IsSplit(part[1]) => sent[part[1]].id # id

\* How many datagrams message k needs.
Datagrams(k) == Cardinality(PartsOf(k, sent[k].bits))

\* Send and SplitPacket.
Send ==
  \E stream \in Streams, bits \in Lengths :
    LET k == Len(sent) + 1
    IN  /\ k <= MaxMessages
        /\ Cardinality(PartsOf(k, bits)) + MapThenSumSet(Datagrams, DOMAIN sent)
             <= MaxParts
        /\ sent' = Append(sent, [stream |-> stream, bits |-> bits,
                                 index |-> NextIndex(stream),
                                 id |-> IF IsLong(bits) THEN splitPacketId
                                                        ELSE 0])
        /\ inTransit' = inTransit \cup PartsOf(k, bits)
        /\ IF IsLong(bits)
           THEN IdIsFree(splitPacketId) /\ splitPacketId' = NextId(splitPacketId)
           ELSE UNCHANGED splitPacketId
        /\ UNCHANGED <<lost, receiverVars>>

\* An unreliable part was lost, or the receiver gave up waiting for a part.
Lose(part) ==
  /\ part \in inTransit
  /\ inTransit' = inTransit \ {part}
  /\ lost' = lost \cup {part}
  /\ UNCHANGED <<senderVars, receiverVars>>
-----------------------------------------------------------------------------
(***************************************************************************)
(* The receiver.                                                           *)
(***************************************************************************)
\* splitPacketList[0] of a channel, the part with the lowest index.
FirstPart(parts) == CHOOSE p \in parts : \A q \in parts : p[2] <= q[2]

IsExpired_mutant(channel) == channel.old

IsExpired(channel) ==
  channel.old /\ ~IsReliable(Reliability(FirstPart(channel.parts)[1]))

\* DeleteOldUnreliableSplitPackets.
WithoutOld(list) ==
  [id \in {j \in DOMAIN list : ~IsExpired(list[j])} |-> list[id]]

\* InsertIntoSplitPacketList: a part with an index that is there is dropped.
Insert(list, part) ==
  LET id == sent[part[1]].id
      parts == IF id \in DOMAIN list THEN list[id].parts ELSE {}
  IN  [j \in DOMAIN list \cup {id} |->
         IF j # id THEN list[j]
         ELSE [old |-> FALSE,
               parts |-> IF \E p \in parts : p[2] = part[2] THEN parts
                                                 ELSE parts \cup {part}]]

IsComplete_mutant(parts) ==
  Cardinality(parts) >= CountOf(sent[FirstPart(parts)[1]].bits) - 1

IsComplete(parts) ==
  Cardinality(parts) = CountOf(sent[FirstPart(parts)[1]].bits)

\* BuildPacketFromSplitPacketList: the parts in the order of their indices.
Build(parts) ==
  [i \in 1..Cardinality(parts) |->
     CHOOSE p \in parts : Cardinality({q \in parts : q[2] < p[2]}) = i - 1]

\* The message a sequence of parts passes for: the copy has the header of the
\* first part.
Head1(content) == content[1][1]

IsOlder_mutant(part) == FALSE

\* IsOlderOrderedPacket on the index the channel waits for.
IsOlder(part) ==
  OrderingIndex(part[1]) < sequencedReadIndex[Channel(part[1])]

\* A whole sequenced message: no earlier one is taken from now on.
PushSequenced(content) ==
  /\ sequencedReadIndex' =
       [sequencedReadIndex EXCEPT
          ![Channel(Head1(content))] = OrderingIndex(Head1(content)) + 1]
  /\ outputQueue' = Append(outputQueue, content)
  /\ UNCHANGED <<orderedReadIndex, orderingList>>

\* The message in orderingList with that index of channel c.
Waiting(c, n) ==
  { w \in orderingList : /\ Channel(Head1(w)) = c
                         /\ OrderingIndex(Head1(w)) = n }

\* How far the messages waiting on channel c continue from index n.
FirstGap(c, n) ==
  CHOOSE m \in n..(n + Cardinality(orderingList)) :
    /\ \A i \in n..(m - 1) : Waiting(c, i) # {}
    /\ Waiting(c, m) = {}

\* A whole ordered message, and those it was holding back.
PushOrdered(content) ==
  LET c == Channel(Head1(content))
      n == OrderingIndex(Head1(content))
      gap == FirstGap(c, n + 1)
      released == [i \in 1..(gap - n - 1) |-> CHOOSE w \in Waiting(c, n + i) : TRUE]
  IN  /\ IF n = orderedReadIndex[c]
         THEN /\ outputQueue' = outputQueue \o <<content>> \o released
              /\ orderedReadIndex' = [orderedReadIndex EXCEPT ![c] = gap]
              /\ orderingList' = orderingList \ {released[i] : i \in DOMAIN released}
         ELSE /\ orderingList' = orderingList \cup {content}
              /\ UNCHANGED <<orderedReadIndex, outputQueue>>
      /\ UNCHANGED sequencedReadIndex

Push(content) ==
  LET r == Reliability(Head1(content))
  IN  CASE IsSequenced(r) -> PushSequenced(content)
        [] IsOrdered(r) -> PushOrdered(content)
        [] OTHER -> /\ outputQueue' = Append(outputQueue, content)
                    /\ UNCHANGED <<sequencedReadIndex, orderedReadIndex,
                                   orderingList>>

Keep == UNCHANGED <<sequencedReadIndex, orderedReadIndex, orderingList,
                    outputQueue>>

\* HandleSocketReceiveFromConnectedPlayer, from the point where the message is
\* known not to be a duplicate.
Arrives(part) ==
  /\ part \in inTransit
  /\ inTransit' = inTransit \ {part}
  /\ UNCHANGED <<senderVars, lost>>

Ignored(part) == IsSequenced(Reliability(part[1])) /\ IsOlder(part)

ReceiveWhole(part) ==
  /\ Arrives(part) /\ ~IsSplit(part[1])
  /\ IF Ignored(part) THEN Keep ELSE Push(<<part>>)
  /\ UNCHANGED splitPacketChannelList

ReceivePart(part) ==
  LET list == WithoutOld(splitPacketChannelList)
      collected == Insert(list, part)
      id == sent[part[1]].id
      parts == collected[id].parts
  IN  /\ Arrives(part) /\ IsSplit(part[1])
      /\ IF Ignored(part)
         THEN Keep /\ splitPacketChannelList' = list
         ELSE IF IsComplete(parts)
         THEN /\ Push(Build(parts))
              /\ splitPacketChannelList' =
                   [j \in DOMAIN collected \ {id} |-> collected[j]]
         ELSE Keep /\ splitPacketChannelList' = collected

\* Ten seconds pass without another part of the message.
GrowOld(id) ==
  /\ id \in DOMAIN splitPacketChannelList
  /\ ~splitPacketChannelList[id].old
  /\ splitPacketChannelList' = [splitPacketChannelList EXCEPT ![id].old = TRUE]
  /\ UNCHANGED <<senderVars, inTransit, lost, sequencedReadIndex,
                 orderedReadIndex, orderingList, outputQueue>>

Receive(part) == ReceiveWhole(part) \/ ReceivePart(part)

Next ==
  \/ Send
  \/ \E part \in inTransit : Lose(part) \/ Receive(part)
  \/ \E id \in DOMAIN splitPacketChannelList : GrowOld(id)

Spec == Init /\ [][Next]_vars
-----------------------------------------------------------------------------
Parts == {p \in (1..MaxMessages) \X Nat : p[1] \in DOMAIN sent}

(***************************************************************************)
(* Every variable has its type; a channel of the split packet list exists  *)
(* only while it holds a part, and holds parts with its own id.            *)
(***************************************************************************)
TypeOK ==
  /\ sent \in Seq([stream : Streams, bits : Lengths, index : 0..MaxMessages,
                   id : 0..(IdRange - 1)])
  /\ splitPacketId \in 0..(IdRange - 1)
  /\ inTransit \subseteq Parts /\ lost \subseteq Parts
  /\ DOMAIN splitPacketChannelList \subseteq 0..(IdRange - 1)
  /\ \A id \in DOMAIN splitPacketChannelList :
       LET parts == splitPacketChannelList[id].parts
       IN  parts # {} /\ parts \subseteq {p \in Parts : sent[p[1]].id = id}
  /\ sequencedReadIndex \in [Channels -> 0..MaxMessages]
  /\ orderedReadIndex \in [Channels -> 0..MaxMessages]

\* dataBitLength of what was built from the parts.
BuiltBits(content) ==
  LET bits == sent[Head1(content)].bits
      BitsOf(i) == PartBits(bits, content[i][2])
  IN  IF IsLong(bits) THEN MapThenSumSet(BitsOf, DOMAIN content) ELSE bits

(***************************************************************************)
(* What the user reads is a message as it was sent: all of its parts, once *)
(* each, in order, no part of any other, and as many bytes.                *)
(***************************************************************************)
IsMessage(content) ==
  \E k \in DOMAIN sent :
    /\ content = [i \in 1..Datagrams(k) |-> <<k, i - 1>>]
    /\ Bytes(BuiltBits(content)) = Bytes(sent[k].bits)

WholeMessages ==
  /\ \A i \in DOMAIN outputQueue : IsMessage(outputQueue[i])
  /\ \A content \in orderingList : IsMessage(content)

(***************************************************************************)
(* When the last part of a reliable message has arrived, the user has the  *)
(* message, or it waits for an earlier ordered one, or a later sequenced   *)
(* one was first: no part is kept of a message that could be whole.        *)
(***************************************************************************)
HasArrived(k) == PartsOf(k, sent[k].bits) \cap (inTransit \cup lost) = {}

IsDelivered(k) == \E i \in DOMAIN outputQueue : Head1(outputQueue[i]) = k

IsBehind(k, j) ==
  /\ IsOrdered(Reliability(k)) /\ IsOrdered(Reliability(j))
  /\ Channel(j) = Channel(k) /\ j < k

NothingIsStranded ==
  \A k \in DOMAIN sent :
    IsReliable(Reliability(k)) /\ HasArrived(k) =>
      \/ IsDelivered(k)
      \/ \E j \in DOMAIN sent : IsBehind(k, j) /\ ~HasArrived(j)
      \/ IsSequenced(Reliability(k)) /\ IsOlder(<<k, 0>>)

(***************************************************************************)
(* The promises of PacketPriority.h hold for whole messages as well: what  *)
(* is delivered in parts keeps its place on its channel.                   *)
(***************************************************************************)
KeepsPromise == Promise!Spec
=============================================================================
