----------------------------- MODULE ReserveProps -----------------------------
(***************************************************************************)
(* What a Reserve guarantees.                                              *)
(***************************************************************************)
EXTENDS Reserve, LimitLevel

\* The account, the vault and the clock have their types; the remainder is
\* less than a day.
TypeOK ==
  /\ reserve \in Reserves
  /\ vault \in 0 .. Supply
  /\ ledger \in Int
  /\ clock \in Clocks

\* The available amount never exceeds the cap, so the `checked_sub(..)
\* .unwrap()` of the gap in Reserve::update cannot panic, and no refresh was
\* recorded in the future, so the elapsed time cannot wrap.  A reserve that
\* violated it could no longer be managed or synced.
NeverBricked ==
  /\ reserve.avail <= reserve.max
  /\ reserve.ts <= clock.ts

\* The audit trail: the accounting events emitted for the reserve add up to
\* the balance it records, whatever was deposited or seized behind its back.
AuditTrailComplete == ledger = reserve.lastBalance

\* The inductive invariant behind the two above: an address without an account
\* holds nothing that a later initialization could inherit.
ReserveInv ==
  /\ TypeOK
  /\ NeverBricked
  /\ AuditTrailComplete
  /\ ~Initialized => reserve = NoReserve

\* The balance is only ever changed to what the vault really holds at the end
\* of the instruction, also when the instruction finds a deposit or a seizure
\* that nobody had synced.
BalanceIsVault ==
  [][reserve'.lastBalance # reserve.lastBalance
       => reserve'.lastBalance = vault']_vars

-----------------------------------------------------------------------------
Bucket == INSTANCE TokenBucket WITH
            level <- LevelAt(reserve, clock),
            cap <- reserve.max, rate <- reserve.slope,
            Unlimited <- U64Max, Seconds <- Elapses, Tokens <- U64

\* The one step of the bucket that an instruction may be, whatever it makes of
\* the account: the new configuration; or, when it books nothing or the chain
\* moves tokens that nobody has synced yet, the seconds that pass; or else what
\* the vault held beyond the recorded balance, or short of it, and then what
\* the instruction itself took out of the vault or put into it.
BucketStep ==
  LET in   == SatSub(vault, reserve.lastBalance)
      lost == SatSub(reserve.lastBalance, vault)
      out  == SatSub(vault, vault')
      back == SatSub(vault', vault)
      reconfigured == <<reserve'.max, reserve'.slope>> # <<reserve.max, reserve.slope>>
      booked == /\ ~UNCHANGED <<reserve, ledger>>
                /\ ~UNCHANGED <<vault, reserve.lastBalance>>
  IN  IF reconfigured THEN Bucket!Resize(reserve'.max, reserve'.slope)
      ELSE IF booked THEN Bucket!Move(in, lost, out, back)
      ELSE Bucket!Elapse(clock'.ts - clock.ts)

\* The lazily refreshed rate limit implements the token bucket, step by step
\* and by the very tokens that move: a Push drains it by what left the vault and
\* is never paid out of nothing, a Pull, a harvest and a deposit found by the
\* sync refill it by what came in, refreshing more or less often (anybody may
\* sync a reserve at any time) neither earns nor loses a unit, a new slope is
\* not applied to the time before it, and a new cap does not refill.
ImplementsTokenBucket ==
  /\ Bucket!BucketSpec
  /\ [][BucketStep]_vars
=============================================================================
