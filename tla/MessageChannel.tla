--------------------------- MODULE MessageChannel ---------------------------
(***************************************************************************)
(* What raknet/PacketPriority.h promises about the messages one system     *)
(* sends to another, with nothing said of datagrams, acknowledgements or   *)
(* resends: the abstract specification that ReliabilityLayer implements.   *)
(***************************************************************************)
EXTENDS Integers, Sequences

CONSTANT Streams  \* the <<reliability, ordering channel>> pairs in use

VARIABLES
  sent,       \* sent[k]: the stream the k-th message was sent on
  delivered   \* the messages handed to the receiving user, in that order

vars == <<sent, delivered>>

(***************************************************************************)
(* The enumeration PacketReliability, by what its values have in common.   *)
(***************************************************************************)
IsReliable(r)  == r \in {"RELIABLE", "RELIABLE_ORDERED", "RELIABLE_SEQUENCED"}
IsSequenced(r) == r \in {"UNRELIABLE_SEQUENCED", "RELIABLE_SEQUENCED"}
IsOrdered(r)   == r = "RELIABLE_ORDERED"

(***************************************************************************)
(* The order a receiver may see.  Every message at most once; an ordered   *)
(* message after every earlier ordered message of its channel; a sequenced *)
(* message after no later sequenced message of its channel.                *)
(***************************************************************************)
OnlySent(s, d) == \A i \in DOMAIN d : d[i] \in DOMAIN s

AtMostOnce(d) == \A i, j \in DOMAIN d : d[i] = d[j] => i = j

InOrder(s, d) ==
  \A i \in DOMAIN d : \A k \in DOMAIN s :
     (k < d[i] /\ s[k] = s[d[i]] /\ IsOrdered(s[k][1]))
        => \E j \in 1..(i - 1) : d[j] = k

InSequence(s, d) ==
  \A i, j \in DOMAIN d :
     ( /\ i < j
       /\ IsSequenced(s[d[i]][1]) /\ IsSequenced(s[d[j]][1])
       /\ s[d[i]][2] = s[d[j]][2] ) => d[i] < d[j]

Contract(s, d) ==
  OnlySent(s, d) /\ AtMostOnce(d) /\ InOrder(s, d) /\ InSequence(s, d)

Init == sent = <<>> /\ delivered = <<>>

Submit == /\ \E s \in Streams : sent' = Append(sent, s)
          /\ UNCHANGED delivered

(***************************************************************************)
(* One datagram may release several messages that waited for it.           *)
(***************************************************************************)
Deliver == /\ Len(delivered') > Len(delivered)
           /\ SubSeq(delivered', 1, Len(delivered)) = delivered
           /\ Contract(sent, delivered')
           /\ UNCHANGED sent

Next == Submit \/ Deliver

Spec == Init /\ [][Next]_vars
=============================================================================
