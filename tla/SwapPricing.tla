----------------------------- MODULE SwapPricing -----------------------------
(***************************************************************************)
(* The arithmetic of an atomic swap's price check: division as Rust's      *)
(* signed integers divide, the inverted price of an oracle, and the        *)
(* comparison of the price of a swap with the least price accepted.  An    *)
(* operation that overflows i128 either takes another branch or panics,    *)
(* and a panic refuses the swap.                                           *)
(***************************************************************************)
EXTENDS Integers

CONSTANTS Precision,      \* 10^precision: the unit of the oracle's values
          Factor,         \* of each token: 10^decimals
          BpsDenominator, \* the unit of the accepted slippage
          I128Max         \* the largest value of an i128

ASSUME PricingAssumption ==
  /\ Precision \in Nat \ {0}
  /\ \A token \in DOMAIN Factor : Factor[token] \in Nat \ {0}
  /\ BpsDenominator \in Nat \ {0}
  /\ I128Max \in Nat /\ Precision * Precision <= I128Max

Magnitude(n) == IF n < 0 THEN -n ELSE n

\* Rust's division rounds towards zero, and its remainder has the sign of n.
TruncDiv(n, d) ==
  LET q == Magnitude(n) \div Magnitude(d)
  IN  IF (n < 0) = (d < 0) THEN q ELSE -q

\* checked_ceil_div: the quotient, and 1 more for a positive remainder.
CeilDiv(n, d) ==
  IF n - d * TruncDiv(n, d) > 0 THEN TruncDiv(n, d) + 1 ELSE TruncDiv(n, d)

\* Mutant: the inverted price is rounded down.
GetPriceFloor(value, inverted) ==
  IF inverted THEN TruncDiv(Precision * Precision, value) ELSE value

\* The price in the direction of the swap.  (Undefined for an inverted 0.)
GetPrice(value, inverted) ==
  IF inverted THEN CeilDiv(Precision * Precision, value) ELSE value

\* calc_swap_price: the branch for a numerator that fits i128, and the one
\* that divides before it multiplies.
CalcSwapPrice(in, out, input, output) ==
  LET step1 == output * Factor[in]
  IN  IF step1 * Precision <= I128Max
        THEN ((step1 * Precision) \div input) \div Factor[out]
        ELSE ((step1 \div Factor[out]) * Precision) \div input

\* What calc_swap_price can compute without a panic.
Computable(in, out, output) ==
  LET step1 == output * Factor[in]
  IN  /\ step1 <= I128Max
      /\ (step1 \div Factor[out]) * Precision <= I128Max
           \/ step1 * Precision <= I128Max

KeptBps(slippage) ==
  IF slippage > BpsDenominator THEN 0 ELSE BpsDenominator - slippage

\* check_swap_slippage: nothing was spent, or enough was bought for it.
SlippageAccepted(in, out, input, output, slippage, price) ==
  input > 0 =>
    /\ output > 0
    /\ Computable(in, out, output)
    /\ price * KeptBps(slippage) <= I128Max
    /\ CalcSwapPrice(in, out, input, output)
         >= CeilDiv(price * KeptBps(slippage), BpsDenominator)
=============================================================================
