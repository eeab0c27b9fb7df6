------------------------------ MODULE MCRoster ------------------------------
(***************************************************************************)
(* Instances of Roster for TLC.                                            *)
(***************************************************************************)
EXTENDS Roster

CONSTANTS c1, c2, c3

ThreeClients == {c1, c2, c3}
=============================================================================
