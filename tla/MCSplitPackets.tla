--------------------------- MODULE MCSplitPackets ---------------------------
(***************************************************************************)
(* Instances of SplitPackets for TLC.                                      *)
(***************************************************************************)
EXTENDS SplitPackets

\* One channel, and all that the receiver treats differently: ordered and
\* sequenced messages, those that are neither, and those that expire.
ThreeStreams == { <<"RELIABLE_ORDERED", 0>>, <<"RELIABLE_SEQUENCED", 0>>,
                  <<"UNRELIABLE", 0>> }
=============================================================================
