-------------------------- MODULE ArgumentNumbers --------------------------
(* integer_valued_json_number of protocol.rs: a number of a call's          *)
(* arguments that was written as a float and has an integer's value is      *)
(* written as an integer.                                                   *)
(*                                                                          *)
(* A number is how it is written and twice its value (so that one half is a *)
(* number).  MaxInt stands for i64::MAX, which no f64 is equal to: as a     *)
(* float it is the next power of two.                                       *)
EXTENDS Integers

CONSTANT MaxInt

ASSUME MaxIntAssumption == MaxInt \in Nat

AsFloat(integer) == IF integer = MaxInt THEN MaxInt + 1 ELSE integer

\* `float as i64` drops the fraction and stays inside the type.
Saturated(halves) ==
  IF halves >= 2 * MaxInt THEN MaxInt
  ELSE IF halves >= 0 THEN halves \div 2 ELSE -((-halves) \div 2)

InRange(halves) == -2 * (MaxInt + 1) <= halves /\ halves <= 2 * AsFloat(MaxInt)

\* Faulty variant: the fraction is not compared.
CanonicalTruncated(number) ==
  IF number.float /\ InRange(number.halves)
  THEN [float |-> FALSE, halves |-> 2 * Saturated(number.halves)]
  ELSE number

Canonical(number) ==
  LET integer == Saturated(number.halves)
  IN  IF number.float /\ InRange(number.halves) /\ 2 * AsFloat(integer) = number.halves
      THEN [float |-> FALSE, halves |-> 2 * integer]
      ELSE number

=============================================================================
