---------------------------- MODULE SerialNumbers ----------------------------
(***************************************************************************)
(* Arithmetic on the wrapping counters of raknet/InternalPacket.h:         *)
(* MessageNumberType and OrderingIndexType are both unsigned short, so     *)
(* NumberRange is 2^16 in the program and a small even number in a model.  *)
(***************************************************************************)
EXTENDS Integers

CONSTANT NumberRange

ASSUME NumberRangeAssumption ==
  /\ NumberRange \in Nat
  /\ NumberRange >= 4
  /\ NumberRange = 2 * (NumberRange \div 2)

Numbers == 0..(NumberRange - 1)

\* typeRange and maxRange: the counter type's largest value, (type)-1.
MaxRange == NumberRange - 1

(***************************************************************************)
(* How far number n is ahead of base; the unsigned overflow is intended.   *)
(***************************************************************************)
HoleCount(n, base) == (n - base) % NumberRange

IsBehind_mutant(holeCount) == holeCount > MaxRange \div 4

\* A hole count in the upper half of the range is a number behind base.
IsBehind(holeCount) == holeCount > MaxRange - MaxRange \div 2

IsOlderOrderedPacket_mutant(new, waiting) ==
  IF waiting > MaxRange \div 2
  THEN new >= waiting - (MaxRange \div 2) + 1 /\ new < waiting
  ELSE new < waiting

(***************************************************************************)
(* ReliabilityLayer::IsOlderOrderedPacket.  The first comparison is done   *)
(* on int and cannot wrap, the second is cast back to the counter's type.  *)
(***************************************************************************)
IsOlderOrderedPacket(new, waiting) ==
  IF waiting > MaxRange \div 2
  THEN new >= waiting - (MaxRange \div 2) + 1 /\ new < waiting
  ELSE \/ new >= (waiting - (MaxRange \div 2 + 1)) % NumberRange
       \/ new < waiting
=============================================================================
