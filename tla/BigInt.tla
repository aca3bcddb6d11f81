-------------------------------- MODULE BigInt --------------------------------
(***************************************************************************)
(* JavaScript's division of bigints, and basis points.  The quotient is    *)
(* truncated toward zero, where \div rounds down.                          *)
(***************************************************************************)
EXTENDS Integers

BPS_PER_UNIT == 10000

Quot(a, b) ==
  LET size(n) == IF n < 0 THEN -n ELSE n
      q == size(a) \div size(b)
  IN IF (a < 0) = (b < 0) THEN q ELSE -q
=============================================================================
