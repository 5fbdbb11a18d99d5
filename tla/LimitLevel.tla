----------------------------- MODULE LimitLevel -----------------------------
(***************************************************************************)
(* What the rate limit of an account stands for, as the level of a token   *)
(* bucket: with it the accounts of Reserve, Outflow and Lending are mapped *)
(* to the buckets of TokenBucket.                                          *)
(***************************************************************************)
EXTENDS RateLimit

\* The units an account holds, and the units it stands for at the time clk,
\* when a refresh would add what was earned since the last one.
Level(b) == SecondsPerDay * b.avail + b.rem

LevelAt(b, clk) ==
  IF Accrues(b, clk)
  THEN Least(Level(b) + b.slope * (clk.ts - b.ts), SecondsPerDay * b.max)
  ELSE Level(b)
=============================================================================
