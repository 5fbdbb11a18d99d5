----------------------------- MODULE ReserveState -----------------------------
(***************************************************************************)
(* The Reserve account and the methods of `impl Reserve`: a record with    *)
(* the rate limit fields of RateLimit, the status and the balance of the   *)
(* vault as last recorded.  Each method is an operator that returns the    *)
(* new account.                                                            *)
(***************************************************************************)
EXTENDS RateLimit

ReserveStatus == {"Active", "Suspended"}

Reserves == [status : ReserveStatus \cup {"Uninitialized"}, lastBalance : U64,
             slope : U64, max : U64, avail : U64,
             rem : 0 .. (SecondsPerDay - 1), ts : Nat, slot : Nat]

\* There is no account yet at the reserve's address.
NoReserve == [status |-> "Uninitialized", lastBalance |-> 0, slope |-> 0,
              max |-> 0, avail |-> 0, rem |-> 0, ts |-> 0, slot |-> 0]

InitReserve(status, slope, max, clk) ==
  [status |-> status, lastBalance |-> 0, slope |-> slope, max |-> max,
   avail |-> max, rem |-> 0, ts |-> clk.ts, slot |-> clk.slot]

\* An instruction argument of type Option<T>: the set {} or {value}.
Option(S) == {{}} \cup {{x} : x \in S}
OrElse(option, default) ==
  IF option = {} THEN default ELSE CHOOSE x \in option : TRUE

UpdateReserve(r, status, slope, max, clk) ==
  LET f == [RefreshRateLimit(r, clk) EXCEPT !.status = OrElse(status, @),
                                            !.slope = OrElse(slope, @)]
  IN  IF max = {} THEN f ELSE SetMaxOutflow(f, OrElse(max, 0))

UpdateForInflow(r, inflow) ==
  [CreditRateLimit(r, inflow) EXCEPT !.lastBalance = @ + inflow]

\* With allow_underflow the debit saturates; without it the caller also
\* requires WithinRateLimit(r, outflow).
UpdateForOutflow(r, outflow) ==
  [DebitRateLimit(r, outflow) EXCEPT !.lastBalance = @ - outflow]

\* Refresh, then book whatever changed in the vault since the last record:
\* a deposit, or a withdrawal by the mint's permanent delegate.
SyncBalance(r, vaultAmount, clk) ==
  LET f == RefreshRateLimit(r, clk)
  IN  IF vaultAmount > r.lastBalance
      THEN UpdateForInflow(f, vaultAmount - r.lastBalance)
      ELSE UpdateForOutflow(f, r.lastBalance - vaultAmount)

\* Mutant: only deposits are reported, seizures are not.
SyncEventOfDeposits(r, vaultAmount) ==
  IF vaultAmount > r.lastBalance THEN vaultAmount - r.lastBalance ELSE 0

\* The accounting event of a sync, as a signed amount: Credit positive,
\* Debit negative, no event when the amount is 0.
SyncEvent(r, vaultAmount) == vaultAmount - r.lastBalance
=============================================================================
