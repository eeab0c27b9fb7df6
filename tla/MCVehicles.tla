----------------------------- MODULE MCVehicles -----------------------------
(***************************************************************************)
(* Instances of Vehicles for TLC.                                          *)
(***************************************************************************)
EXTENDS Vehicles, TLC

CONSTANTS c1, landstal, bravura

OneClient == {c1}

TwoModels == {landstal, bravura}

\* The number past the end of the pool is that of scripts/basic.lua:14.
IdsAndOneBeyond == 0..MAX_VEHICLES

Symmetry == Permutations(TwoModels)
=============================================================================
