------------------------------ MODULE Rounding ------------------------------
(***************************************************************************)
(* Rounding to the tick of a price or the lot of a quantity, which every   *)
(* order goes through (exchange/binance/limitations.py).                   *)
(***************************************************************************)
EXTENDS Integers

\* Mutant of RoundHalfEven: truncation.
RoundDown(n, d) == n \div d

\* Decimal.quantize: to the nearest unit, a tie to the even one.
RoundHalfEven(n, d) ==
  LET q == n \div d
      r == n % d
  IN IF 2 * r > d \/ (2 * r = d /\ q % 2 = 1) THEN q + 1 ELSE q
=============================================================================
