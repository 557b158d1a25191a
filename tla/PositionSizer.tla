--------------------------- MODULE PositionSizer ---------------------------
(***************************************************************************)
(* risk/position_sizer.py: a size whose loss at the stop is a given share  *)
(* of the balance.  The size is rounded to Decimals places (the code's 8)  *)
(* and the result is accepted only when it agrees with the risk amount up  *)
(* to 1/Relative (the code's 10^7) or one unit of the last place.          *)
(*                                                                         *)
(* Balances, percentages and prices are integers, so that only the size    *)
(* is rounded; amounts of risk are counted in 1/(100 * Scale).             *)
(***************************************************************************)
EXTENDS Integers

CONSTANTS Balances, Percents, Prices,
          Scale,                \* 10^Decimals, positive
          Relative              \* positive

VARIABLES input, result

vars == <<input, result>>

None == <<>>
Abs(n) == IF n < 0 THEN 0 - n ELSE n
Larger(a, b) == IF a < b THEN b ELSE a

\* round() to the nearest unit, halves to the even one.
RoundedQuotient(n, d) ==
  LET q == n \div d
      r == 2 * (n % d)
  IN IF r > d \/ (r = d /\ q % 2 = 1) THEN q + 1 ELSE q

Risk(in) == in.balance * in.percent * Scale
Distance(in) == Abs(in.entry - in.stop)
Size(in) == RoundedQuotient(Risk(in), 100 * Distance(in))
LossAtStop(in) == Size(in) * 100 * Distance(in)

\* PositionSizeResult.__post_init__.
Consistent(in) ==
  LET gap == Abs(LossAtStop(in) - Risk(in))
  IN gap * Relative <= Larger(LossAtStop(in), Risk(in)) \/ gap <= 100

Init == input = None /\ result = "none"

Calculate(in) ==
  /\ input' = in
  /\ result' = IF Distance(in) = 0 THEN "zero distance"
               ELSE IF Size(in) = 0 THEN "below precision"
               ELSE IF Consistent(in) THEN "sized" ELSE "inconsistent"

Next == \E b \in Balances, p \in Percents, e, s \in Prices :
          Calculate([balance |-> b, percent |-> p, entry |-> e, stop |-> s])

Spec == Init /\ [][Next]_vars

\* calculate_position_size promises to "Return a validated risk-based position size"
\* for every input it does not refuse as invalid or below precision; its own
\* rounding must not make the result fail its own validation.
ValidInputsAreSized == result # "inconsistent"
=============================================================================
