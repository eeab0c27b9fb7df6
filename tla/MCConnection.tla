---------------------------- MODULE MCConnection ----------------------------
(***************************************************************************)
(* Instances of Connection for TLC.                                        *)
(***************************************************************************)
EXTENDS Connection, TLC

CONSTANTS p1, p2

BothPeers == {p1, p2}

OnePeer == {p1}

\* Peers with the same password are interchangeable.
Symmetry == Permutations(BothPeers)
=============================================================================
