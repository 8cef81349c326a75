------------------------------ MODULE GoIntegers ------------------------------
(***************************************************************************)
(* Signed integers of a fixed width as Go computes with them.  2^bits is      *)
(* written out where a width is fixed, so that small widths can be checked.  *)
(***************************************************************************)
EXTENDS Integers

Fits(x, bits) == -(2^(bits - 1)) <= x /\ x < 2^(bits - 1)

\* The result of an addition, a multiplication or a conversion.
Wrap(x, bits) == ((x + 2^(bits - 1)) % 2^bits) - 2^(bits - 1)

\* Division truncates towards zero.
Quotient(a, n) == IF a >= 0 THEN a \div n ELSE -((-a) \div n)
=============================================================================
