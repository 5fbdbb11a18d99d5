--------------------------- MODULE AtomicSwapProps ---------------------------
(***************************************************************************)
(* What an atomic swap guarantees to the controller.                       *)
(***************************************************************************)
EXTENDS AtomicSwap, LimitLevel

\* The accounts have their types at every point of a transaction.
SwapTypeOK ==
  /\ chain.controller \in ControllerStatus
  /\ chain.integration \in Integrations
  /\ chain.reserves \in [Tokens -> Reserves]
  /\ chain.vaults \in [Tokens -> 0 .. Supply]
  /\ chain.wallet \in [Tokens -> 0 .. Supply]
  /\ chain.ledger \in [Tokens -> Int]

\* The lock does not leak: between two transactions the controller is not
\* locked and no swap is open, however the transaction was composed, wherever
\* it failed, and whatever the programs called between Borrow and Repay did.
LockIsTransient ==
  Idle => chain.controller # "AtomicSwapLock" /\ ~SwapStarted(chain.integration)

\* The swap is isolated: when the Repay that ends a transaction runs, the
\* integration, both reserves and both vaults are exactly as Borrow left them.
\* No push, pull, sync or reconfiguration came between, not even behind a
\* manage_controller that lifted the lock.
SwapIsolated ==
  [][tx.pc = Last /\ tx'.pc = Last + 1 =>
       \A o \in tx.opened :
         /\ chain.integration = o.integration
         /\ chain.reserves = o.reserves
         /\ chain.vaults = o.vaults]_vars

\* The swap is priced: a transaction that opened a swap and commits brought in,
\* for what it took out of vault A, at least the slippage-adjusted value at a
\* price that the feed really published in the last MaxStaleness slots; an
\* oracle that was never refreshed, whose price is 0, prices no swap.
Spent(o) == o.vaults["A"] + o.integration.borrowed - chain.vaults["A"]
Gained(o) == chain.vaults["B"] - o.vaults["B"]

WorthIt(gained, spent, price) ==
  gained * InFactor * Precision * BpsDenominator
    >= price * (BpsDenominator - MaxSlippage) * spent * OutFactor

SwapPriced ==
  Committing => \A o \in tx.opened :
    /\ Gained(o) >= 0
    /\ Spent(o) > 0 =>
         \E p \in published : /\ p.slot >= clock.slot - MaxStaleness
                              /\ WorthIt(Gained(o), Spent(o), p.price)

\* The recorded balances are those of the vaults when a swap commits, transfer
\* fees and tokens found by Borrow's sync included.
BalancesSettled ==
  Committing => \A o \in tx.opened : \A token \in Tokens :
    chain.reserves[token].lastBalance = chain.vaults[token]

\* The accounting events never claim more than there is: what they add up to
\* for a reserve is at most its recorded balance, and exactly that for the
\* reserve that a swap pays into.
EventsCovered ==
  Idle => /\ chain.ledger["A"] <= chain.reserves["A"].lastBalance
          /\ chain.ledger["B"] = chain.reserves["B"].lastBalance

\* "audit-trail generation enforced for all actions" (README): the accounting
\* events add up to the recorded balance of both reserves.
EventsComplete ==
  Idle => \A token \in Tokens :
    chain.ledger[token] = chain.reserves[token].lastBalance

-----------------------------------------------------------------------------
\* Each reserve as the component that module Reserve specifies.  The events of
\* a swap are those of its Repay, so that they are not the component's.
Component(token) == INSTANCE Reserve WITH
                      reserve <- chain.reserves[token],
                      vault <- chain.vaults[token],
                      ledger <- chain.reserves[token].lastBalance,
                      Slopes <- U64, MaxOuts <- U64, Amounts <- 1 .. Supply,
                      Elapses <- {}, MaxTime <- 0, MaxSlot <- 0

RolledBack == tx' = NoTransaction /\ chain' \in tx.saved

\* A swap does nothing to a reserve that module Reserve does not know: Borrow
\* is a Push of one reserve and a Sync of the other, and Repay, which neither
\* refreshes nor syncs, is all the same a Pull of both; everything else is an
\* operation of the reserve too, or leaves it alone, and a transaction that
\* fails takes both back to where it found them.
ReservesAreComponents ==
  [][\/ RolledBack
     \/ \A token \in Tokens :
          \/ Component(token)!Next
          \/ UNCHANGED <<chain.reserves[token], chain.vaults[token]>>]_vars
-----------------------------------------------------------------------------
\* The limit of the integration as a token bucket.
Bucket == INSTANCE TokenBucket WITH
            level <- LevelAt(chain.integration, clock),
            cap <- chain.integration.max,
            rate <- chain.integration.slope,
            Unlimited <- U64Max, Seconds <- {1}, Tokens <- U64

\* A swap that opens or ends moves what leaves vault A or comes back to it; a
\* new cap resizes the bucket; only time does anything else to it.
SwapBucketStep ==
  IF SwapStarted(chain.integration) # SwapStarted(chain'.integration)
  THEN Bucket!Move(0, 0, SatSub(chain.vaults["A"], chain'.vaults["A"]),
                         SatSub(chain'.vaults["A"], chain.vaults["A"]))
  ELSE IF chain'.integration.max # chain.integration.max
  THEN Bucket!Resize(chain'.integration.max, chain'.integration.slope)
  ELSE Bucket!Elapse(clock'.ts - clock.ts)

\* The limit of the integration is an exact token bucket: Borrow drains it by
\* the tokens that leave the vault, Repay refills it by those that come back
\* (without a refresh of its own, and net of the mint's fee), nothing that is
\* called between the two touches it, and a transaction that fails gives back
\* the level it found, not one unit more.
SwapLimitIsBucket ==
  /\ Bucket!BucketInit
  /\ [][RolledBack \/ SwapBucketStep]_vars
=============================================================================
