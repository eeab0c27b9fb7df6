------------------------- MODULE MCReliabilityLayer -------------------------
(***************************************************************************)
(* Instances of ReliabilityLayer for TLC.  Channel 0 is the channel every  *)
(* send of the game uses.                                                  *)
(***************************************************************************)
EXTENDS ReliabilityLayer

\* Every stream of the game that the receiver treats differently.
MixedStreams == { <<"RELIABLE_ORDERED", 0>>, <<"RELIABLE_SEQUENCED", 0>>,
                  <<"UNRELIABLE_SEQUENCED", 0>> }

\* What is resent and must arrive, with and without an order.
ReliableStreams == { <<"RELIABLE", 0>>, <<"RELIABLE_ORDERED", 0>> }

OrderedStream == { <<"RELIABLE_ORDERED", 0>> }

PlainStream == { <<"RELIABLE", 0>> }
=============================================================================
