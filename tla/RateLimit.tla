------------------------------ MODULE RateLimit ------------------------------
(***************************************************************************)
(* The outflow rate limit that every Reserve and every Integration         *)
(* carries.  Both accounts embed the same five fields and the same code;   *)
(* here they are the fields slope, max, avail, rem, ts and slot of a       *)
(* record b, and every operator below changes only those fields, so that   *)
(* it applies to a Reserve record and to an Integration record alike.      *)
(*                                                                         *)
(*   slope  rate_limit_slope, tokens earned per day                        *)
(*   max    rate_limit_max_outflow; U64Max means "unlimited"               *)
(*   avail  rate_limit_outflow_amount_available                            *)
(*   rem    rate_limit_remainder, the fraction of a token already earned,  *)
(*          in units of 1/SecondsPerDay of a token                         *)
(*   ts, slot   the clock of the last refresh                              *)
(***************************************************************************)
EXTENDS Integers

CONSTANTS SecondsPerDay,   \* 86400 in the code
          U64Max           \* u64::MAX in the code

\* The day is at least one second long and its length fits in a u64 (the
\* clamp of the remainder, `unwrap_or(0)`, is therefore never taken).
ASSUME RateLimitAssumption ==
  /\ SecondsPerDay \in Nat \ {0}
  /\ U64Max \in Nat \ {0}
  /\ SecondsPerDay <= U64Max

U64 == 0 .. U64Max

Clocks == [ts : Nat, slot : Nat]

Least(a, b) == IF a <= b THEN a ELSE b
SatAdd(a, b) == Least(a + b, U64Max)
SatSub(a, b) == IF b <= a THEN a - b ELSE 0

-----------------------------------------------------------------------------
\* Units earned since the last refresh, the carried fraction included.
Accrued(b, now) == b.slope * (now - b.ts) + b.rem

\* The whole tokens of the accrued units, clamped to u64::MAX.
Increment(b, now) == Least(Accrued(b, now) \div SecondsPerDay, U64Max)

Remainder(b, now) == Accrued(b, now) % SecondsPerDay

Accrues(b, clk) == b.max # U64Max /\ b.ts # clk.ts

RefreshRateLimit(b, clk) ==
  LET avail == Least(SatAdd(b.avail, Increment(b, clk.ts)), b.max)
      rem   == IF avail = b.max THEN 0 ELSE Remainder(b, clk.ts)
      r     == IF Accrues(b, clk) THEN [b EXCEPT !.avail = avail, !.rem = rem]
                                  ELSE b
  IN  [r EXCEPT !.ts = clk.ts, !.slot = clk.slot]

\* "Rate limit must be refreshed before updating for flows"
Fresh(b, clk) == b.ts = clk.ts /\ b.slot = clk.slot

\* Mutant: an inflow is credited above the cap.
CreditRateLimitUncapped(b, inflow) == [b EXCEPT !.avail = SatAdd(@, inflow)]

CreditRateLimit(b, inflow) ==
  [b EXCEPT !.avail = Least(b.max, SatAdd(@, inflow))]

\* Mutant: the outflow is compared with the cap and not with what is left of it.
WithinRateLimitCap(b, outflow) == outflow <= b.max

\* The outflow does not exceed what is available (else: RateLimited).
WithinRateLimit(b, outflow) == outflow <= b.avail

\* Mutant: the debit does not saturate.
DebitRateLimitWrapping(b, outflow) == [b EXCEPT !.avail = @ - outflow]

DebitRateLimit(b, outflow) == [b EXCEPT !.avail = SatSub(@, outflow)]

\* A new cap keeps the distance of the available amount from the cap.
SetMaxOutflow(b, max) ==
  LET gap == b.max - b.avail
  IN  [b EXCEPT !.max = max,
                !.avail = SatSub(max, gap),
                !.rem = IF gap > max THEN 0 ELSE @]
=============================================================================
