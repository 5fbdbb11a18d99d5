----------------------------- MODULE TokenBucket -----------------------------
(***************************************************************************)
(* What the rate limit of a Reserve or an Integration promises, without    *)
(* the lazy refresh and its remainder: a bucket that holds up to cap       *)
(* tokens, that outflows drain and inflows refill, and that earns rate     *)
(* tokens a day, second by second.  The level is measured in units of      *)
(* 1/SecondsPerDay of a token, so that nothing is ever rounded away.       *)
(*                                                                         *)
(* A bucket with cap Unlimited earns nothing.                              *)
(***************************************************************************)
EXTENDS Integers

CONSTANTS SecondsPerDay, Unlimited, Seconds, Tokens

VARIABLES level,   \* units in the bucket
          cap,     \* tokens the bucket may hold
          rate     \* tokens earned per day

bucketVars == <<level, cap, rate>>

Lower(a, b) == IF a <= b THEN a ELSE b
Units(tokens) == SecondsPerDay * tokens
Fraction(l) == l % SecondsPerDay

\* Inflows fill the bucket to its cap; a fraction of a token that had been
\* earned before stays on top of it.
Fill(l, in) == Lower(l + Units(in), Units(cap) + Fraction(l))

\* What leaves the vault without asking takes what there is, but for the
\* fraction.
Drain(l, lost) == IF Units(lost) <= l THEN l - Units(lost) ELSE Fraction(l)

\* A new bucket is full.
BucketInit == cap \in Tokens /\ rate \in Tokens /\ level = Units(cap)

\* Earning: time fills the bucket to its cap and not above it.
Elapse(seconds) ==
  /\ level' = IF cap = Unlimited \/ seconds = 0
              THEN level
              ELSE Lower(level + rate * seconds, Units(cap))
  /\ UNCHANGED <<cap, rate>>

\* A new cap keeps the deficit of the bucket; it does not refill it.
Resize(newCap, newRate) ==
  /\ cap' = newCap
  /\ rate' = newRate
  /\ level' = LET l == level + Units(newCap) - Units(cap)
              IN  IF l >= 0 THEN l ELSE 0

\* One instruction: what came in or was lost since the last one is booked,
\* then out tokens are paid, which the bucket must cover, then back tokens
\* are received.
Move(in, lost, out, back) ==
  LET l == Drain(Fill(level, in), lost)
  IN  /\ Units(out) <= l
      /\ level' = Fill(l - Units(out), back)
      /\ UNCHANGED <<cap, rate>>

\* All that a bucket can do.  Which of these steps an instruction is, and by how
\* many tokens, is for the modules that implement the bucket to say: each has a
\* BucketStep (AtomicSwapProps a SwapBucketStep) that the tokens it moves determine.
BucketNext ==
  \/ \E seconds \in Seconds : Elapse(seconds)
  \/ \E newCap \in Tokens, newRate \in Tokens : Resize(newCap, newRate)
  \/ \E in \in Tokens : \E out, back \in Tokens : Move(in, 0, out, back)
  \/ \E lost \in Tokens : \E out, back \in Tokens : Move(0, lost, out, back)

BucketSpec == BucketInit /\ [][BucketNext]_bucketVars
=============================================================================
