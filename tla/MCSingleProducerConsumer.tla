---------------------- MODULE MCSingleProducerConsumer ----------------------
(***************************************************************************)
(* An instance of SingleProducerConsumer for TLC.                          *)
(***************************************************************************)
EXTENDS SingleProducerConsumer, TLC

CONSTANTS a, b, c1, c2, c3, c4, c5, c6

TwoItems == {a, b}

SixCells == {c1, c2, c3, c4, c5, c6}

Symmetry == Permutations(TwoItems) \cup Permutations(SixCells)
=============================================================================
