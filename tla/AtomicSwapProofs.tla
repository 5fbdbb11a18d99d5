--------------------------- MODULE AtomicSwapProofs ---------------------------
(***************************************************************************)
(* Proofs, for transactions of any length and shape and foreign programs   *)
(* that call any instruction any number of times, of the safety properties *)
(* of AtomicSwapProps that the design of the lock rests on.                *)
(***************************************************************************)
EXTENDS AtomicSwapProps, ReserveStateProofs

USE RateLimitAssumption

-----------------------------------------------------------------------------
Feeds == [price : Nat, slot : Nat]

Accounts ==
  [controller : ControllerStatus, integration : Integrations,
   reserves : [Tokens -> Reserves], vaults : [Tokens -> 0 .. Supply],
   wallet : [Tokens -> 0 .. Supply], oracle : Feeds, ledger : [Tokens -> Int]]

\* An account of a rate limit on which no handler can panic.
Within(b) == b.avail <= b.max /\ b.ts <= clock.ts

WellFormed(c) ==
  /\ c \in Accounts
  /\ Within(c.integration)
  /\ \A token \in Tokens : /\ Within(c.reserves[token])
                           /\ c.reserves[token].status # "Uninitialized"

Locked(c) == c.controller = "AtomicSwapLock"
Open(c) == SwapStarted(c.integration) \/ Locked(c)

\* The accounts that a transaction starts with.
CleanAccounts == {c \in Accounts : WellFormed(c) /\ ~Open(c)}

TxOK ==
  /\ tx \in [ixs : IxLists \cup {<<>>}, pc : Nat \ {0}, calls : Nat,
             saved : SUBSET CleanAccounts,
             opened : {{}} \cup {{c} : c \in Accounts}]
  /\ Idle => tx = NoTransaction

\* What is left of the transaction: foreign programs, then Repay.
RepayAhead ==
  /\ Last >= 1
  /\ tx.pc <= Last
  /\ Kind(Last) = "Repay"
  /\ \A k \in tx.pc .. (Last - 1) : Kind(k) = "Foreign"

\* The swap is as Borrow left it, and its loan explains what the vaults held.
AsOpened(o) ==
  /\ chain.integration = o.integration
  /\ chain.reserves = o.reserves
  /\ o.vaults["A"] + o.integration.borrowed = o.integration.lastA
  /\ o.vaults["B"] = o.integration.lastB
  /\ \A token \in Tokens : o.reserves[token].lastBalance = o.vaults[token]

\* The inductive invariant.  A swap whose lock was lifted stays open until the
\* transaction fails: that it was opened says no more than that Repay is ahead.
SwapInv ==
  /\ WellFormed(chain)
  /\ TxOK
  /\ clock \in Clocks /\ published \subseteq Feeds
  /\ Open(chain) => Running /\ tx.opened # {}
  /\ Running /\ tx.opened # {} => RepayAhead
  /\ Locked(chain) =>
       SwapStarted(chain.integration) /\ \A o \in tx.opened : AsOpened(o)
  /\ BalancesSettled

-----------------------------------------------------------------------------
\* The numbers of an account of a rate limit.
LEMMA IntegrationNumbers ==
  ASSUME NEW i \in Integrations
  PROVE  /\ i.slope \in Nat /\ i.ts \in Nat /\ i.slot \in Nat
         /\ i.rem \in 0 .. (SecondsPerDay - 1) /\ i.rem \in Nat
         /\ i.max \in Nat /\ i.max <= U64Max /\ i.max \in U64
         /\ i.avail \in Nat /\ i.avail <= U64Max
         /\ i.borrowed \in Nat /\ i.lastA \in Nat /\ i.lastB \in Nat
         /\ i.preA \in Nat /\ i.preB \in Nat
         /\ U64Max \in Nat /\ SecondsPerDay \in Nat \ {0}
<1>1. /\ i.slope \in U64 /\ i.max \in U64 /\ i.avail \in U64
      /\ i.borrowed \in U64 /\ i.lastA \in U64 /\ i.lastB \in U64
      /\ i.preA \in U64 /\ i.preB \in U64
      /\ i.ts \in Nat /\ i.slot \in Nat /\ i.rem \in 0 .. (SecondsPerDay - 1)
  BY DEF Integrations
<1>. QED  BY <1>1 DEF U64

\* What the operators of a rate limit keep of the integration's account: this
\* is RefreshKeeps and UpdateKeeps for the other account that embeds one.
LEMMA RefreshIntegration ==
  ASSUME NEW i \in Integrations, clock \in Clocks, Within(i)
  PROVE  LET q == RefreshRateLimit(i, clock)
         IN  /\ q \in Integrations /\ Within(q) /\ q.ts = clock.ts
             /\ q.borrowed = i.borrowed
<1> DEFINE inc == Increment(i, clock.ts)
           av  == Least(SatAdd(i.avail, inc), i.max)
           re  == IF av = i.max THEN 0 ELSE Remainder(i, clock.ts)
<1>1. Accrued(i, clock.ts) \in Nat
  <2>1. /\ i.slope \in Nat /\ i.rem \in Nat /\ clock.ts - i.ts \in Nat
    BY IntegrationNumbers DEF Clocks, Within
  <2>2. i.slope * (clock.ts - i.ts) \in Nat
    BY <2>1
  <2>. QED  BY <2>1, <2>2 DEF Accrued
<1>2. inc \in U64 /\ Remainder(i, clock.ts) \in 0 .. (SecondsPerDay - 1)
  <2> DEFINE n == Accrued(i, clock.ts)
  <2>1. n \div SecondsPerDay \in Nat /\ n % SecondsPerDay \in 0 .. (SecondsPerDay - 1)
    BY <1>1, DivMod
  <2>. QED  BY <2>1 DEF Increment, Remainder, Least, U64
<1>3. av \in U64 /\ av <= i.max /\ re \in 0 .. (SecondsPerDay - 1)
  BY <1>2, IntegrationNumbers DEF Least, SatAdd, U64
<1> HIDE DEF inc, av, re
<1>4. clock.ts \in Nat /\ clock.slot \in Nat
  BY DEF Clocks
<1>5. CASE Accrues(i, clock)
  <2>1. RefreshRateLimit(i, clock) =
          [i EXCEPT !.avail = av, !.rem = re, !.ts = clock.ts, !.slot = clock.slot]
    BY <1>5 DEF RefreshRateLimit, av, re, inc, Integrations
  <2> DEFINE q == [i EXCEPT !.avail = av, !.rem = re, !.ts = clock.ts,
                            !.slot = clock.slot]
  <2>2. q \in Integrations
    BY <1>3, <1>4 DEF Integrations
  <2>3. /\ q.avail = av /\ q.max = i.max /\ q.ts = clock.ts
        /\ q.borrowed = i.borrowed
    BY DEF Integrations
  <2>. QED  BY <1>3, <1>4, <2>1, <2>2, <2>3 DEF Within
<1>6. CASE ~Accrues(i, clock)
  <2>1. RefreshRateLimit(i, clock) = [i EXCEPT !.ts = clock.ts, !.slot = clock.slot]
    BY <1>6 DEF RefreshRateLimit
  <2> DEFINE q == [i EXCEPT !.ts = clock.ts, !.slot = clock.slot]
  <2>2. q \in Integrations
    BY <1>4 DEF Integrations
  <2>3. /\ q.avail = i.avail /\ q.max = i.max /\ q.ts = clock.ts
        /\ q.borrowed = i.borrowed
    BY DEF Integrations
  <2>. QED  BY <1>4, <2>1, <2>2, <2>3 DEF Within
<1>. QED  BY <1>5, <1>6

\* A debit of the limit leaves what Borrow recorded of the vaults.
LEMMA DebitIntegration ==
  ASSUME NEW i \in Integrations, Within(i), NEW amount \in Nat
  PROVE  LET q == DebitRateLimit(i, amount)
         IN  /\ q \in Integrations /\ Within(q)
             /\ q.borrowed = i.borrowed /\ q.lastA = i.lastA /\ q.lastB = i.lastB
<1>1. SatSub(i.avail, amount) \in U64 /\ SatSub(i.avail, amount) <= i.max
  BY IntegrationNumbers DEF SatSub, U64, Within
<1>2. DebitRateLimit(i, amount) = [i EXCEPT !.avail = SatSub(i.avail, amount)]
  BY DEF DebitRateLimit, Integrations
<1>. QED  BY <1>1, <1>2 DEF Integrations, Within

\* Repay credits the limit up to the cap and clears the swap.
LEMMA CreditIntegration ==
  ASSUME NEW i \in Integrations, Within(i), NEW amount \in Nat
  PROVE  LET q == SwapReset(CreditRateLimit(i, amount))
         IN  q \in Integrations /\ Within(q) /\ ~SwapStarted(q)
<1> DEFINE av == Least(i.max, SatAdd(i.avail, amount))
<1>1. av \in U64 /\ av <= i.max /\ 0 \in U64
  BY IntegrationNumbers DEF Least, SatAdd, U64
<1>2. SwapReset(CreditRateLimit(i, amount)) =
        [i EXCEPT !.avail = av, !.borrowed = 0, !.lastA = 0, !.lastB = 0,
                  !.preA = 0, !.preB = 0]
  BY DEF SwapReset, CreditRateLimit, Integrations
<1> HIDE DEF av
<1> DEFINE q == [i EXCEPT !.avail = av, !.borrowed = 0, !.lastA = 0, !.lastB = 0,
                          !.preA = 0, !.preB = 0]
<1>3. q \in Integrations
  BY <1>1 DEF Integrations
<1>4. q.avail = av /\ q.max = i.max /\ q.ts = i.ts /\ q.borrowed = 0
  BY DEF Integrations
<1>. QED  BY <1>1, <1>2, <1>3, <1>4 DEF Within, SwapStarted

\* The gap that a new cap preserves is a natural number.
LEMMA ManageIntegrationKeeps ==
  ASSUME NEW i \in Integrations, clock \in Clocks, Within(i), NEW max \in U64,
         NEW status \in {"Active", "Suspended"}
  PROVE  LET q == [SetMaxOutflow(RefreshRateLimit(i, clock), max)
                     EXCEPT !.status = status]
         IN  q \in Integrations /\ Within(q) /\ q.borrowed = i.borrowed
<1> DEFINE f   == RefreshRateLimit(i, clock)
           gap == f.max - f.avail
           av  == SatSub(max, gap)
           re  == IF gap > max THEN 0 ELSE f.rem
<1>1. f \in Integrations /\ Within(f) /\ f.borrowed = i.borrowed
  BY RefreshIntegration
<1> HIDE DEF f
<1>2. av \in U64 /\ av <= max /\ re \in 0 .. (SecondsPerDay - 1)
  BY <1>1, IntegrationNumbers DEF SatSub, U64, Within
<1>3. [SetMaxOutflow(f, max) EXCEPT !.status = status] =
        [f EXCEPT !.max = max, !.avail = av, !.rem = re, !.status = status]
  BY <1>1 DEF SetMaxOutflow, Integrations
<1> HIDE DEF av, re
<1>. QED  BY <1>1, <1>2, <1>3 DEF f, Integrations, Within
-----------------------------------------------------------------------------
\* The position in a transaction that runs.
LEMMA TxTypes ==
  ASSUME TxOK
  PROVE  /\ Last \in Nat /\ tx.pc \in Nat \ {0} /\ tx.calls \in Nat
         /\ tx.ixs \in Seq([kind : {"Borrow", "Repay", "Other", "Foreign"}])
         /\ Idle <=> Last = 0
<1> DEFINE K == [kind : {"Borrow", "Repay", "Other", "Foreign"}]
<1>1. tx.ixs \in Seq(K)
  <2>1. tx.ixs \in IxLists \/ tx.ixs = <<>>
    BY DEF TxOK
  <2>2. IxLists \subseteq Seq(K)
    BY AtomicSwapAssumption, Zenon
  <2>3. <<>> \in Seq(K)
    OBVIOUS
  <2>. QED  BY <2>1, <2>2, <2>3, Zenon
<1> HIDE DEF K
<1>2. Last \in Nat /\ (Idle <=> Last = 0)
  BY <1>1 DEF Last, Idle
<1>. QED  BY <1>1, <1>2 DEF TxOK, K

\* What the accounts are compared with does not move within a transaction.
LEMMA SameClock ==
  ASSUME clock' = clock
  PROVE  /\ CleanAccounts' = CleanAccounts
         /\ \A c : WellFormed(c) <=> WellFormed(c)'
BY DEF CleanAccounts, WellFormed, Within, Open, Locked, SwapStarted

\* How an instruction that has run moves the transaction on.
LEMMA SteppedKeeps ==
  ASSUME TxOK, Running, tx' = Stepped, clock' = clock
  PROVE  /\ TxOK'
         /\ tx'.ixs = tx.ixs /\ tx'.opened = tx.opened /\ Last' = Last
         /\ CurrentIsForeign => tx'.pc = tx.pc
         /\ ~CurrentIsForeign => tx'.pc = tx.pc + 1
<1>1. ~Idle
  BY TxTypes DEF Running
<1>2. CleanAccounts' = CleanAccounts
  BY SameClock
<1>. QED  BY <1>1, <1>2 DEF TxOK, Stepped, Idle, Last

\* Once a swap was opened only foreign programs run, and what they call, until
\* Repay: none of it is the last instruction.
LEMMA NotLast ==
  ASSUME SwapInv, Runs("Other") \/ Runs("Foreign"), tx' = Stepped,
         clock' = clock, tx.opened # {}
  PROVE  RepayAhead' /\ Running'
<1>1. TxOK /\ Running /\ Last \in Nat /\ tx.pc \in Nat \ {0}
  BY TxTypes DEF SwapInv, Runs
<1>2. RepayAhead
  BY <1>1 DEF SwapInv
<1>3. tx.pc # Last
  BY <1>2 DEF RepayAhead, Runs
<1>4. CurrentIsForeign
  BY <1>1, <1>2, <1>3 DEF RepayAhead, CurrentIsForeign
<1>5. tx'.ixs = tx.ixs /\ tx'.pc = tx.pc /\ Last' = Last
  BY <1>1, <1>4, SteppedKeeps
<1>. QED  BY <1>1, <1>2, <1>5 DEF RepayAhead, Running, Kind

\* What the instructions do that may come between Borrow and Repay: with the
\* lock still set they leave the swap as it was.
LEMMA OtherStep ==
  ASSUME SwapInv, WellFormed(chain'), Runs("Other") \/ Runs("Foreign"),
         tx' = Stepped, clock' = clock, published' = published,
         chain'.integration.borrowed = chain.integration.borrowed,
         Locked(chain') => /\ Locked(chain)
                           /\ chain'.integration = chain.integration
                           /\ chain'.reserves = chain.reserves
  PROVE  SwapInv'
<1>1. TxOK /\ Running /\ Last \in Nat /\ tx.pc \in Nat \ {0}
  BY TxTypes DEF SwapInv, Runs
<1>2. /\ TxOK' /\ tx'.ixs = tx.ixs /\ tx'.opened = tx.opened /\ Last' = Last
      /\ CurrentIsForeign => tx'.pc = tx.pc
      /\ ~CurrentIsForeign => tx'.pc = tx.pc + 1
  BY <1>1, SteppedKeeps
<1>3. ASSUME tx.opened # {}
      PROVE  RepayAhead' /\ Running'
  BY <1>3, NotLast
<1>4. Open(chain') => Open(chain)
  BY DEF Open, SwapStarted
<1>5. Open(chain') => Running' /\ tx'.opened # {}
  BY <1>2, <1>3, <1>4 DEF SwapInv
<1>6. Running' /\ tx'.opened # {} => RepayAhead'
  BY <1>2, <1>3
<1>7. Locked(chain') =>
        SwapStarted(chain'.integration) /\ \A o \in tx'.opened : AsOpened(o)'
  BY <1>2 DEF SwapInv, AsOpened, SwapStarted
<1>8. WellFormed(chain)' /\ (clock \in Clocks)' /\ (published \subseteq Feeds)'
  BY SameClock DEF SwapInv
<1>9. BalancesSettled'
  BY <1>2, <1>3 DEF BalancesSettled, Committing
<1>. QED  BY <1>2, <1>5, <1>6, <1>7, <1>8, <1>9 DEF SwapInv, Open, Locked

-----------------------------------------------------------------------------
\* The model starts between transactions, with accounts within their limits.
LEMMA InitHolds == Init => SwapInv
<1> SUFFICES ASSUME Init PROVE SwapInv
  OBVIOUS
<1>1. PICK limit \in Amounts, held \in Amounts :
        /\ clock = [ts |-> 0, slot |-> FirstSlot]
        /\ LET full == InitReserve("Active", 0, U64Max, clock)
               limited == InitReserve("Active", 1, limit, clock)
           IN  chain =
                 [controller |-> "Active",
                  integration |->
                    [status |-> "Active", slope |-> 1, max |-> limit,
                     avail |-> limit, rem |-> 0, ts |-> clock.ts,
                     slot |-> clock.slot, borrowed |-> 0, lastA |-> 0,
                     lastB |-> 0, preA |-> 0, preB |-> 0],
                  reserves |-> [A |-> [limited EXCEPT !.lastBalance = held],
                                B |-> full],
                  vaults |-> [A |-> held, B |-> 0],
                  wallet |-> [A |-> 0, B |-> 0],
                  oracle |-> [price |-> 0, slot |-> 0],
                  ledger |-> [A |-> held, B |-> 0]]
        /\ \E price \in Prices :
             published = {[price |-> price, slot |-> FirstSlot]}
        /\ tx = NoTransaction
  BY DEF Init
<1>2. /\ limit \in 1 .. Supply /\ held \in 1 .. Supply /\ Supply \in Nat
      /\ Supply <= U64Max /\ FirstSlot \in Nat /\ Prices \subseteq Nat
  BY AtomicSwapAssumption
<1>3. /\ limit \in U64 /\ held \in U64 /\ held \in 0 .. Supply /\ 0 \in 0 .. Supply
      /\ 0 \in U64 /\ 1 \in U64 /\ U64Max \in U64
      /\ 0 \in 0 .. (SecondsPerDay - 1)
  BY <1>2 DEF U64
<1> DEFINE i == [status |-> "Active", slope |-> 1, max |-> limit,
                 avail |-> limit, rem |-> 0, ts |-> 0, slot |-> FirstSlot,
                 borrowed |-> 0, lastA |-> 0, lastB |-> 0, preA |-> 0,
                 preB |-> 0]
           a == [status |-> "Active", lastBalance |-> held, slope |-> 1,
                 max |-> limit, avail |-> limit, rem |-> 0, ts |-> 0,
                 slot |-> FirstSlot]
           b == [status |-> "Active", lastBalance |-> 0, slope |-> 0,
                 max |-> U64Max, avail |-> U64Max, rem |-> 0, ts |-> 0,
                 slot |-> FirstSlot]
<1>4. /\ i \in Integrations /\ a \in Reserves /\ b \in Reserves
      /\ ~SwapStarted(i) /\ a.status # "Uninitialized"
      /\ b.status # "Uninitialized"
  BY <1>2, <1>3 DEF Integrations, Reserves, ReserveStatus, SwapStarted
<1>5. Within(i) /\ Within(a) /\ Within(b)
  BY <1>1, <1>2, <1>3 DEF Within
<1>6. chain = [controller |-> "Active", integration |-> i,
               reserves |-> [A |-> a, B |-> b],
               vaults |-> [A |-> held, B |-> 0],
               wallet |-> [A |-> 0, B |-> 0],
               oracle |-> [price |-> 0, slot |-> 0],
               ledger |-> [A |-> held, B |-> 0]]
  BY <1>1 DEF InitReserve
<1> HIDE DEF i, a, b
<1>7. chain \in Accounts
  <2>1. /\ [A |-> a, B |-> b] \in [Tokens -> Reserves]
        /\ [A |-> held, B |-> 0] \in [Tokens -> 0 .. Supply]
        /\ [A |-> 0, B |-> 0] \in [Tokens -> 0 .. Supply]
        /\ [A |-> held, B |-> 0] \in [Tokens -> Int]
    BY <1>2, <1>3, <1>4 DEF Tokens
  <2>. QED  BY <1>4, <1>6, <2>1 DEF Accounts, ControllerStatus, Feeds
<1>8. WellFormed(chain) /\ ~Open(chain)
  BY <1>4, <1>5, <1>6, <1>7 DEF WellFormed, Open, Locked, Tokens
<1>9. TxOK /\ tx.opened = {}
  BY <1>1 DEF TxOK, NoTransaction, Idle
<1>10. clock \in Clocks /\ published \subseteq Feeds
  BY <1>1, <1>2 DEF Clocks, Feeds
<1>. QED  BY <1>8, <1>9, <1>10 DEF SwapInv, Open, BalancesSettled

-----------------------------------------------------------------------------
\* A transaction that fails restores accounts that were clean; one that is over
\* has no open swap, because Repay is not ahead any more.
LEMMA ScheduleStep ==
  ASSUME SwapInv, Schedule, clock' = clock, published' = published
  PROVE  SwapInv'
<1>1. /\ TxOK /\ WellFormed(chain) /\ chain \in Accounts
      /\ Last \in Nat /\ tx.pc \in Nat \ {0} /\ (Idle <=> Last = 0)
  BY TxTypes DEF SwapInv, WellFormed
<1>2. /\ CleanAccounts' = CleanAccounts
      /\ (clock \in Clocks)' /\ (published \subseteq Feeds)'
      /\ \A c : WellFormed(c)' <=> WellFormed(c)
  BY SameClock DEF SwapInv
<1>3. ~Running => chain \in CleanAccounts
  BY <1>1 DEF SwapInv, CleanAccounts
<1>4. ASSUME WellFormed(chain'), ~Open(chain'), TxOK', tx'.opened = {}
      PROVE  SwapInv'
  <2>1. BalancesSettled'
    BY <1>4 DEF BalancesSettled
  <2>. QED  BY <1>2, <1>4, <2>1 DEF SwapInv, Open, Locked, SwapStarted
<1>5. ASSUME NEW ixs \in IxLists, Begin(ixs) PROVE SwapInv'
  <2>1. ~Running /\ chain' = chain
    BY <1>1, <1>5 DEF Begin, Running
  <2>2. chain \in CleanAccounts
    BY <1>3, <2>1
  <2>3. tx' = [ixs |-> ixs, pc |-> 1, calls |-> 0, saved |-> {chain},
               opened |-> {}]
    BY <1>5 DEF Begin, NoTransaction
  <2>4. ixs # <<>>
    BY AtomicSwapAssumption
  <2>5. TxOK'
    BY <1>2, <2>2, <2>3, <2>4 DEF TxOK, Idle
  <2>. QED  BY <1>4, <2>1, <2>2, <2>3, <2>5 DEF CleanAccounts
<1>6. CASE ForeignReturns
  <2>1. /\ tx'.ixs = tx.ixs /\ tx'.opened = tx.opened /\ tx'.pc = tx.pc + 1
        /\ Running /\ Kind(tx.pc) = "Foreign" /\ chain' = chain
        /\ Last' = Last /\ ~Idle
    BY <1>1, <1>6 DEF ForeignReturns, TxOK, CurrentIsForeign, Last, Running
  <2>2. TxOK'
    BY <1>1, <1>2, <1>6, <2>1 DEF ForeignReturns, TxOK, Idle
  <2>3. ASSUME tx.opened # {} PROVE RepayAhead' /\ Running'
    <3>1. RepayAhead
      BY <2>1, <2>3 DEF SwapInv
    <3>2. tx.pc # Last
      BY <2>1, <3>1 DEF RepayAhead
    <3>. QED  BY <1>1, <2>1, <3>1, <3>2 DEF RepayAhead, Running, Kind
  <2>4. Open(chain)' => Running' /\ tx'.opened # {}
    BY <2>1, <2>3 DEF SwapInv, Open, Locked, SwapStarted
  <2>5. Locked(chain)' =>
          SwapStarted(chain.integration)' /\ \A o \in tx'.opened : AsOpened(o)'
    BY <2>1 DEF SwapInv, AsOpened, SwapStarted, Locked
  <2>6. WellFormed(chain)'
    BY <1>1, <1>2, <2>1
  <2>7. BalancesSettled'
    BY <2>1, <2>3 DEF BalancesSettled, Committing
  <2>. QED  BY <1>2, <2>1, <2>2, <2>3, <2>4, <2>5, <2>6, <2>7 DEF SwapInv
<1>7. CASE Commit
  <2>1. chain' = chain /\ chain \in CleanAccounts
    BY <1>3, <1>7 DEF Commit, Committing
  <2>2. TxOK' /\ tx'.opened = {}
    BY <1>7 DEF Commit, NoTransaction, TxOK, Idle
  <2>. QED  BY <1>4, <2>1, <2>2 DEF CleanAccounts
<1>8. CASE Abort
  <2>1. chain' \in CleanAccounts
    BY <1>1, <1>8 DEF Abort, TxOK
  <2>2. TxOK' /\ tx'.opened = {}
    BY <1>8 DEF Abort, NoTransaction, TxOK, Idle
  <2>. QED  BY <1>4, <2>1, <2>2 DEF CleanAccounts
<1>. QED  BY <1>5, <1>6, <1>7, <1>8 DEF Schedule

-----------------------------------------------------------------------------
\* What a sync of a reserve returns.
LEMMA SyncFacts ==
  ASSUME SwapInv, NEW token \in Tokens
  PROVE  /\ Sync(token) \in Reserves /\ Within(Sync(token))
         /\ Sync(token).lastBalance = chain.vaults[token]
         /\ Sync(token).status # "Uninitialized"
         /\ SyncLedger(token) \in Int
         /\ chain.vaults[token] \in Nat /\ chain.vaults[token] <= Supply
         /\ Supply \in Nat /\ Supply <= U64Max
<1>1. /\ chain.reserves[token] \in Reserves /\ Within(chain.reserves[token])
      /\ chain.reserves[token].status # "Uninitialized"
      /\ chain.vaults[token] \in 0 .. Supply /\ chain.ledger[token] \in Int
      /\ clock \in Clocks
  BY DEF SwapInv, WellFormed, Accounts
<1>2. /\ chain.vaults[token] \in U64 /\ chain.vaults[token] \in Nat
      /\ chain.vaults[token] <= Supply /\ Supply \in Nat /\ Supply <= U64Max
  BY <1>1, AtomicSwapAssumption DEF U64
<1>3. chain.reserves[token].lastBalance \in Nat
  BY <1>1 DEF Reserves, U64
<1>4. SyncLedger(token) \in Int
  BY <1>1, <1>2, <1>3 DEF SyncLedger, SyncEvent
<1>5. LET q == Sync(token)
      IN  /\ q \in Reserves /\ q.avail <= q.max
          /\ q.lastBalance = chain.vaults[token] /\ q.ts = clock.ts
          /\ q.status = chain.reserves[token].status
  BY <1>1, <1>2, SyncKeeps DEF Sync, Within
<1>6. clock.ts \in Nat
  BY <1>1 DEF Clocks
<1>. QED  BY <1>1, <1>2, <1>4, <1>5, <1>6 DEF Within

\* A flow booked to a reserve that was just synced.
LEMMA FlowFacts ==
  ASSUME NEW r \in Reserves, Within(r), r.status # "Uninitialized",
         NEW amount \in Nat
  PROVE  /\ amount <= r.lastBalance =>
              LET q == UpdateForOutflow(r, amount)
              IN  /\ q \in Reserves /\ Within(q) /\ q.status # "Uninitialized"
                  /\ q.lastBalance = r.lastBalance - amount
         /\ r.lastBalance + amount <= U64Max =>
              LET q == UpdateForInflow(r, amount)
              IN  /\ q \in Reserves /\ Within(q) /\ q.status # "Uninitialized"
                  /\ q.lastBalance = r.lastBalance + amount
<1>1. r.avail <= r.max
  BY DEF Within
<1>2. ASSUME amount <= r.lastBalance
      PROVE  LET q == UpdateForOutflow(r, amount)
             IN  /\ q \in Reserves /\ Within(q) /\ q.status # "Uninitialized"
                 /\ q.lastBalance = r.lastBalance - amount
  BY <1>1, <1>2, OutflowKeeps DEF Within
<1>3. ASSUME r.lastBalance + amount <= U64Max
      PROVE  LET q == UpdateForInflow(r, amount)
             IN  /\ q \in Reserves /\ Within(q) /\ q.status # "Uninitialized"
                 /\ q.lastBalance = r.lastBalance + amount
  BY <1>1, <1>3, InflowKeeps DEF Within
<1>. QED  BY <1>2, <1>3

-----------------------------------------------------------------------------
\* Borrow opens the swap in accounts that its guards found consistent, and
\* nothing is left in the transaction but foreign programs and Repay.
LEMMA BorrowStep ==
  ASSUME SwapInv, NEW amount \in Amounts, NEW fee \in Fees, Borrow(amount, fee)
  PROVE  SwapInv'
<1> DEFINE i == RefreshRateLimit(chain.integration, clock)
           o == [i EXCEPT !.lastA = chain.vaults["A"],
                          !.lastB = chain.vaults["B"], !.borrowed = amount,
                          !.preA = chain.wallet["A"],
                          !.preB = chain.wallet["B"]]
           j == DebitRateLimit(o, amount)
           a == UpdateForOutflow(Sync("A"), amount)
           b == Sync("B")
           w == chain.wallet["A"] + Received(amount, fee)
           l == [token \in Tokens |-> SyncLedger(token)]
<1>1. /\ TxOK /\ chain \in Accounts /\ WellFormed(chain) /\ clock \in Clocks
      /\ Last \in Nat /\ tx.pc \in Nat \ {0}
      /\ "A" \in Tokens /\ "B" \in Tokens
  BY TxTypes DEF SwapInv, WellFormed, Tokens
<1>2. /\ amount \in Nat /\ amount > 0 /\ amount \in U64 /\ fee \in Nat
      /\ Supply \in Nat /\ Supply <= U64Max
  BY AtomicSwapAssumption DEF U64
<1>3. /\ i \in Integrations /\ Within(i)
  BY <1>1, RefreshIntegration DEF WellFormed, Accounts
<1>4. /\ amount <= chain.vaults["A"] /\ w <= Supply /\ VerifyRepay
      /\ Running /\ tx' = [Stepped EXCEPT !.opened = {chain'}]
      /\ clock' = clock /\ published' = published
      /\ chain' =
           [chain EXCEPT
              !.controller = "AtomicSwapLock", !.integration = j,
              !.reserves = [A |-> a, B |-> b],
              !.vaults["A"] = chain.vaults["A"] - amount,
              !.wallet["A"] = w, !.ledger = l]
  BY <1>1 DEF Borrow, Lendable, Runs, Accounts
<1>covered. amount <= chain.vaults["A"] /\ w <= Supply
  BY <1>4
<1> HIDE DEF i
<1>5. /\ chain.vaults["A"] \in Nat /\ chain.vaults["A"] <= Supply
      /\ chain.vaults["B"] \in Nat /\ chain.vaults["B"] <= Supply
      /\ chain.wallet["A"] \in Nat /\ chain.wallet["A"] <= Supply
      /\ chain.wallet["B"] \in Nat /\ chain.wallet["B"] <= Supply
  BY <1>1, <1>2 DEF Accounts
<1>6. /\ o \in Integrations /\ Within(o) /\ o.borrowed = amount
      /\ o.lastA = chain.vaults["A"] /\ o.lastB = chain.vaults["B"]
  <2>1. /\ chain.vaults["A"] \in U64 /\ chain.vaults["B"] \in U64
        /\ chain.wallet["A"] \in U64 /\ chain.wallet["B"] \in U64
    BY <1>2, <1>5 DEF U64
  <2>2. o \in Integrations
    BY <1>2, <1>3, <2>1 DEF Integrations
  <2>3. /\ o.avail = i.avail /\ o.max = i.max /\ o.ts = i.ts
        /\ o.borrowed = amount
        /\ o.lastA = chain.vaults["A"] /\ o.lastB = chain.vaults["B"]
    BY <1>3 DEF Integrations
  <2>. QED  BY <1>3, <2>2, <2>3 DEF Within
<1> HIDE DEF o
<1>7. /\ j \in Integrations /\ Within(j) /\ j.borrowed = amount
      /\ j.lastA = chain.vaults["A"] /\ j.lastB = chain.vaults["B"]
  BY <1>2, <1>6, DebitIntegration
<1>8. /\ a \in Reserves /\ Within(a) /\ a.status # "Uninitialized"
      /\ a.lastBalance = chain.vaults["A"] - amount
  <2> DEFINE r == Sync("A")
  <2>1. /\ r \in Reserves /\ Within(r) /\ r.status # "Uninitialized"
        /\ r.lastBalance = chain.vaults["A"]
    BY <1>1, SyncFacts
  <2> HIDE DEF r
  <2>2. LET q == UpdateForOutflow(r, amount)
        IN  /\ q \in Reserves /\ Within(q) /\ q.status # "Uninitialized"
            /\ q.lastBalance = r.lastBalance - amount
    BY <1>2, <1>4, <2>1, FlowFacts
  <2>. QED  BY <2>1, <2>2 DEF r
<1>9. /\ b \in Reserves /\ Within(b) /\ b.status # "Uninitialized"
      /\ b.lastBalance = chain.vaults["B"]
  BY <1>1, SyncFacts
<1>10. l \in [Tokens -> Int]
  BY SyncFacts
<1>11. w \in 0 .. Supply /\ chain.vaults["A"] - amount \in 0 .. Supply
  <2>1. Received(amount, fee) \in Nat
    BY <1>2 DEF Received, SatSub
  <2>2. w \in Nat /\ w <= Supply
    BY <1>covered, <1>5, <2>1
  <2>3. /\ chain.vaults["A"] - amount \in Nat
        /\ chain.vaults["A"] - amount <= Supply
    BY <1>2, <1>covered, <1>5
  <2>. QED  BY <1>2, <2>2, <2>3
<1> HIDE DEF j, a, b, w, l
<1>12. chain' = [controller |-> "AtomicSwapLock", integration |-> j,
                 reserves |-> [A |-> a, B |-> b],
                 vaults |-> [chain.vaults EXCEPT !["A"] = chain.vaults["A"] - amount],
                 wallet |-> [chain.wallet EXCEPT !["A"] = w],
                 oracle |-> chain.oracle, ledger |-> l]
  BY <1>1, <1>4 DEF Accounts
<1>13. chain' \in Accounts
  <2>1. /\ [A |-> a, B |-> b] \in [Tokens -> Reserves]
        /\ [chain.vaults EXCEPT !["A"] = chain.vaults["A"] - amount]
              \in [Tokens -> 0 .. Supply]
        /\ [chain.wallet EXCEPT !["A"] = w] \in [Tokens -> 0 .. Supply]
    BY <1>1, <1>8, <1>9, <1>11 DEF Accounts, Tokens
  <2>. QED  BY <1>1, <1>7, <1>10, <1>12, <2>1 DEF Accounts, ControllerStatus
<1>14. WellFormed(chain')
  <2>1. \A token \in Tokens :
          /\ Within(chain'.reserves[token])
          /\ chain'.reserves[token].status # "Uninitialized"
    BY <1>8, <1>9, <1>12 DEF Tokens
  <2>. QED  BY <1>7, <1>12, <1>13, <2>1 DEF WellFormed
<1>15. WellFormed(chain)' /\ CleanAccounts' = CleanAccounts
  BY <1>4, <1>14, SameClock
<1>16. ~CurrentIsForeign /\ tx.pc < Last
  BY <1>4 DEF VerifyRepay, CurrentIsForeign
<1>17. /\ tx'.ixs = tx.ixs /\ tx'.pc = tx.pc + 1 /\ tx'.opened = {chain'}
       /\ Last' = Last /\ tx'.saved = tx.saved /\ tx'.calls = tx.calls
  BY <1>1, <1>4, <1>16 DEF TxOK, Stepped, Last
<1>18. TxOK'
  <2>1. tx' = [ixs |-> tx.ixs, pc |-> tx.pc + 1, calls |-> tx.calls,
               saved |-> tx.saved, opened |-> {chain'}]
    BY <1>1, <1>4, <1>16 DEF TxOK, Stepped
  <2>2. ~Idle'
    BY <1>1, <1>16, <1>17, TxTypes DEF Idle
  <2>. QED  BY <1>1, <1>13, <1>15, <2>1, <2>2 DEF TxOK
<1>19. RepayAhead' /\ Running'
  BY <1>1, <1>4, <1>16, <1>17 DEF VerifyRepay, RepayAhead, Kind, Running
<1>20. SwapStarted(chain'.integration) /\ \A q \in tx'.opened : AsOpened(q)'
  <2>1. chain'.vaults["A"] = chain.vaults["A"] - amount
        /\ chain'.vaults["B"] = chain.vaults["B"]
    BY <1>1, <1>12 DEF Accounts, Tokens
  <2>2. /\ chain'.integration = j
        /\ chain'.reserves["A"] = a /\ chain'.reserves["B"] = b
    BY <1>12
  <2>3. chain'.vaults["A"] + j.borrowed = j.lastA
    BY <1>2, <1>5, <1>7, <2>1
  <2>4. ASSUME NEW q, q = chain' PROVE AsOpened(q)'
    BY <1>7, <1>8, <1>9, <2>1, <2>2, <2>3, <2>4 DEF AsOpened, Tokens
  <2>5. SwapStarted(chain'.integration)
    BY <1>2, <1>7, <2>2 DEF SwapStarted
  <2>. QED  BY <1>17, <2>4, <2>5
<1>21. (clock \in Clocks)' /\ (published \subseteq Feeds)'
  BY <1>4 DEF SwapInv
<1>22. BalancesSettled'
  BY <1>19 DEF BalancesSettled, Committing
<1>. QED  BY <1>15, <1>17, <1>18, <1>19, <1>20, <1>21, <1>22
          DEF SwapInv, SwapStarted

-----------------------------------------------------------------------------
\* What Repay finds, since it runs with the lock set, and the amounts it moves.
LEMMA RepayFacts ==
  ASSUME SwapInv, NEW feeA \in Fees, NEW feeB \in Fees, Repay(feeA, feeB)
  PROVE  /\ Excess \in Nat /\ Excess <= chain.wallet["A"]
         /\ Bought \in Nat /\ Bought <= chain.wallet["B"]
         /\ Received(Excess, feeA) \in Nat /\ Received(Bought, feeB) \in Nat
         /\ \E o \in Accounts :
              /\ tx.opened = {o} /\ AsOpened(o)
              /\ \A token \in Tokens : chain.vaults[token] = o.vaults[token]
<1>1. /\ TxOK /\ chain \in Accounts /\ feeA \in Nat /\ feeB \in Nat
      /\ Locked(chain) /\ Bought >= 0 /\ VaultsUntouched /\ Supply \in Nat
  BY AtomicSwapAssumption DEF SwapInv, WellFormed, Repay, Locked
<1>2. /\ chain.vaults["A"] \in Nat /\ chain.vaults["B"] \in Nat
      /\ chain.wallet["A"] \in Nat /\ chain.wallet["B"] \in Nat
      /\ chain.integration.preA \in Nat /\ chain.integration.preB \in Nat
      /\ chain.integration.borrowed \in Nat
  BY <1>1, IntegrationNumbers DEF Accounts, Tokens
<1>3. /\ Excess \in Nat /\ Excess <= chain.wallet["A"]
      /\ Bought \in Nat /\ Bought <= chain.wallet["B"]
  BY <1>1, <1>2 DEF Excess, Bought, SatSub
<1>4. Received(Excess, feeA) \in Nat /\ Received(Bought, feeB) \in Nat
  BY <1>1, <1>3 DEF Received, SatSub
<1>5. PICK o \in Accounts : tx.opened = {o} /\ AsOpened(o)
  <2>1. tx.opened # {}
    BY <1>1 DEF SwapInv, Open
  <2>2. tx.opened \in {{c} : c \in Accounts}
    BY <1>1, <2>1 DEF TxOK
  <2>. QED  BY <1>1, <2>2 DEF SwapInv
<1>6. \A token \in Tokens : chain.vaults[token] = o.vaults[token]
  <2>1. o.vaults["A"] \in Nat /\ o.vaults["B"] \in Nat
    BY <1>1, <1>5 DEF Accounts, Tokens
  <2>. QED  BY <1>1, <1>2, <1>5, <2>1 DEF AsOpened, VaultsUntouched, Tokens
<1>. QED  BY <1>3, <1>4, <1>5, <1>6

\* Repay runs with the lock set: what it adds to the recorded balances it adds
\* to vaults that hold those balances.
LEMMA RepayStep ==
  ASSUME SwapInv, NEW feeA \in Fees, NEW feeB \in Fees, Repay(feeA, feeB)
  PROVE  SwapInv'
<1> DEFINE i == chain.integration
           ret == Received(Excess, feeA)
           got == Received(Bought, feeB)
           spent == SatSub(i.borrowed, ret)
           j == SwapReset(CreditRateLimit(i, ret))
           a == UpdateForInflow(chain.reserves["A"], ret)
           b == UpdateForInflow(chain.reserves["B"], got)
           v == [A |-> chain.vaults["A"] + ret, B |-> chain.vaults["B"] + got]
           w == [A |-> chain.wallet["A"] - Excess,
                 B |-> chain.wallet["B"] - Bought]
           l == SwapEvents(spent, got)
<1>1. /\ TxOK /\ chain \in Accounts /\ WellFormed(chain) /\ clock \in Clocks
      /\ Last \in Nat /\ tx.pc \in Nat \ {0}
      /\ "A" \in Tokens /\ "B" \in Tokens
      /\ i \in Integrations /\ Within(i)
  BY TxTypes DEF SwapInv, WellFormed, Accounts, Tokens
<1>2. feeA \in Nat /\ feeB \in Nat /\ Supply \in Nat /\ Supply <= U64Max
  BY AtomicSwapAssumption DEF U64
<1>3. /\ Runs("Repay") /\ Locked(chain) /\ SwapStarted(i) /\ Bought >= 0
      /\ VaultsUntouched
      /\ chain.vaults["A"] + ret <= Supply /\ chain.vaults["B"] + got <= Supply
      /\ tx' = Stepped /\ clock' = clock /\ published' = published
      /\ chain' =
           [chain EXCEPT !.controller = "Active", !.integration = j,
                         !.reserves = [A |-> a, B |-> b], !.vaults = v,
                         !.wallet = w, !.ledger = l]
  BY <1>1 DEF Repay, Locked, Accounts
<1>4. /\ chain.vaults["A"] \in Nat /\ chain.vaults["B"] \in Nat
      /\ chain.wallet["A"] \in Nat /\ chain.wallet["A"] <= Supply
      /\ chain.wallet["B"] \in Nat /\ chain.wallet["B"] <= Supply
      /\ chain.ledger["A"] \in Int /\ chain.ledger["B"] \in Int
      /\ i.preA \in Nat /\ i.preB \in Nat /\ i.borrowed \in Nat
  BY <1>1, <1>2, IntegrationNumbers DEF Accounts
<1>5. /\ Excess \in Nat /\ Excess <= chain.wallet["A"]
      /\ Bought \in Nat /\ Bought <= chain.wallet["B"]
      /\ ret \in Nat /\ got \in Nat
  BY RepayFacts
<1>6. ret \in Nat /\ got \in Nat /\ spent \in Nat
  BY <1>4, <1>5 DEF SatSub
<1>7. PICK o \in Accounts :
        /\ tx.opened = {o} /\ AsOpened(o)
        /\ \A token \in Tokens : chain.vaults[token] = o.vaults[token]
  BY RepayFacts
<1>8. \A token \in Tokens :
        chain.reserves[token].lastBalance = chain.vaults[token]
  BY <1>7 DEF AsOpened
<1>9. /\ j \in Integrations /\ Within(j) /\ ~SwapStarted(j)
  BY <1>1, <1>6, CreditIntegration
<1>10. \A token \in Tokens : /\ chain.reserves[token] \in Reserves
                             /\ Within(chain.reserves[token])
                             /\ chain.reserves[token].status # "Uninitialized"
  BY <1>1 DEF WellFormed, Accounts
<1>11. /\ a \in Reserves /\ Within(a) /\ a.status # "Uninitialized"
       /\ b \in Reserves /\ Within(b) /\ b.status # "Uninitialized"
       /\ a.lastBalance = chain.reserves["A"].lastBalance + ret
       /\ b.lastBalance = chain.reserves["B"].lastBalance + got
  <2> DEFINE ra == chain.reserves["A"]
             rb == chain.reserves["B"]
  <2>1. /\ ra \in Reserves /\ Within(ra) /\ ra.status # "Uninitialized"
        /\ rb \in Reserves /\ Within(rb) /\ rb.status # "Uninitialized"
        /\ ra.lastBalance + ret <= U64Max /\ rb.lastBalance + got <= U64Max
    BY <1>1, <1>2, <1>3, <1>4, <1>6, <1>8, <1>10
  <2> HIDE DEF ra, rb
  <2>. QED  BY <1>6, <2>1, FlowFacts DEF ra, rb
<1> HIDE DEF j, a, b
<1>12. v \in [Tokens -> 0 .. Supply] /\ w \in [Tokens -> 0 .. Supply]
  <2>1. /\ chain.vaults["A"] + ret \in 0 .. Supply
        /\ chain.vaults["B"] + got \in 0 .. Supply
    BY <1>2, <1>3, <1>4, <1>6
  <2>2. /\ chain.wallet["A"] - Excess \in 0 .. Supply
        /\ chain.wallet["B"] - Bought \in 0 .. Supply
    BY <1>2, <1>4, <1>5
  <2>. QED  BY <2>1, <2>2 DEF Tokens
<1>13. l \in [Tokens -> Int]
  BY <1>4, <1>6 DEF SwapEvents, Tokens
<1>settled. a.lastBalance = v["A"] /\ b.lastBalance = v["B"]
  BY <1>1, <1>8, <1>11
<1> HIDE DEF v, w, l
<1>14. chain' = [controller |-> "Active", integration |-> j,
                 reserves |-> [A |-> a, B |-> b], vaults |-> v, wallet |-> w,
                 oracle |-> chain.oracle, ledger |-> l]
  BY <1>1, <1>3 DEF Accounts
<1>15. chain' \in Accounts
  <2>1. [A |-> a, B |-> b] \in [Tokens -> Reserves]
    BY <1>11 DEF Tokens
  <2>. QED  BY <1>1, <1>9, <1>12, <1>13, <1>14, <2>1
            DEF Accounts, ControllerStatus
<1>16. WellFormed(chain')
  <2>1. \A token \in Tokens :
          /\ Within(chain'.reserves[token])
          /\ chain'.reserves[token].status # "Uninitialized"
    BY <1>11, <1>14 DEF Tokens
  <2>. QED  BY <1>9, <1>14, <1>15, <2>1 DEF WellFormed
<1>17. WellFormed(chain)'
  BY <1>3, <1>16, SameClock
<1>18. ~Open(chain') /\ ~Locked(chain')
  BY <1>9, <1>14 DEF Open, Locked
<1>19. /\ TxOK' /\ tx'.ixs = tx.ixs /\ tx'.opened = tx.opened /\ Last' = Last
       /\ CurrentIsForeign => tx'.pc = tx.pc
       /\ ~CurrentIsForeign => tx'.pc = tx.pc + 1
  BY <1>1, <1>3, SteppedKeeps DEF Runs
<1>20. RepayAhead /\ Running
  BY <1>3, <1>7 DEF SwapInv, Runs
<1>21. Running' => RepayAhead'
  <2>1. CASE CurrentIsForeign
    BY <1>19, <1>20, <2>1 DEF RepayAhead, Kind
  <2>2. CASE ~CurrentIsForeign
    <3>1. tx.pc = Last
      BY <1>1, <1>20, <2>2 DEF RepayAhead, CurrentIsForeign
    <3>. QED  BY <1>1, <1>19, <2>2, <3>1 DEF Running
  <2>. QED  BY <2>1, <2>2
<1>22. (clock \in Clocks)' /\ (published \subseteq Feeds)'
  BY <1>3 DEF SwapInv
<1>23. BalancesSettled'
  BY <1>14, <1>settled DEF BalancesSettled, Tokens
<1>. QED  BY <1>17, <1>18, <1>19, <1>21, <1>22, <1>23 DEF SwapInv, Open, Locked

-----------------------------------------------------------------------------
\* The lock can be lifted, not set.
LEMMA ManageControllerStep ==
  ASSUME SwapInv, NEW status \in ControllerStatus, ManageController(status)
  PROVE  SwapInv'
<1>1. /\ chain' = [chain EXCEPT !.controller = status] /\ chain \in Accounts
      /\ status # "AtomicSwapLock" /\ Runs("Other") /\ tx' = Stepped
      /\ clock' = clock /\ published' = published
  BY DEF ManageController, Instruction, SwapInv, WellFormed
<1>2. WellFormed(chain')
  BY <1>1 DEF SwapInv, WellFormed, Accounts
<1>3. ~Locked(chain') /\ chain'.integration = chain.integration
  BY <1>1 DEF Accounts, Locked
<1>. QED  BY <1>1, <1>2, <1>3, OtherStep

\* What the instructions on one reserve keep, when they are not refused.
LEMMA TokenStep ==
  ASSUME SwapInv, NEW token \in Tokens, NEW r \in Reserves, Within(r),
         r.status # "Uninitialized", NEW v \in 0 .. Supply, NEW l \in Int,
         chain.controller # "AtomicSwapLock",
         chain' = [chain EXCEPT !.reserves[token] = r, !.vaults[token] = v,
                                !.ledger[token] = l],
         Runs("Other"), tx' = Stepped, UNCHANGED <<clock, published>>
  PROVE  SwapInv'
<1>1. chain \in Accounts /\ WellFormed(chain)
  BY DEF SwapInv, WellFormed
<1>2. /\ [chain.reserves EXCEPT ![token] = r] \in [Tokens -> Reserves]
      /\ [chain.vaults EXCEPT ![token] = v] \in [Tokens -> 0 .. Supply]
      /\ [chain.ledger EXCEPT ![token] = l] \in [Tokens -> Int]
  BY <1>1 DEF Accounts
<1>3. chain' \in Accounts
  BY <1>1, <1>2 DEF Accounts
<1>4. /\ chain'.integration = chain.integration
      /\ chain'.controller = chain.controller
      /\ chain'.reserves = [chain.reserves EXCEPT ![token] = r]
  BY <1>1 DEF Accounts
<1>5. \A t \in Tokens : /\ Within(chain'.reserves[t])
                        /\ chain'.reserves[t].status # "Uninitialized"
  BY <1>1, <1>4 DEF WellFormed, Accounts
<1>6. WellFormed(chain')
  BY <1>1, <1>3, <1>4, <1>5 DEF WellFormed
<1>7. ~Locked(chain')
  BY <1>4 DEF Locked
<1>. QED  BY <1>4, <1>6, <1>7, OtherStep

\* The instructions on one reserve.
LEMMA ManageReserveStep ==
  ASSUME SwapInv, NEW token \in Tokens, NEW status \in ReserveStatus,
         ManageReserve(token, status)
  PROVE  SwapInv'
<1> DEFINE r == UpdateReserve(chain.reserves[token], {status}, {}, {}, clock)
<1>1. /\ chain \in Accounts /\ clock \in Clocks /\ clock.ts \in Nat
      /\ chain.reserves[token] \in Reserves /\ Within(chain.reserves[token])
      /\ chain.reserves[token].status # "Uninitialized"
  BY DEF SwapInv, WellFormed, Accounts, Clocks
<1>2. /\ r \in Reserves /\ r.avail <= r.max /\ r.ts = clock.ts
      /\ r.status # "Uninitialized"
  <2>1. {status} \in Option(ReserveStatus) /\ {} \in Option(U64)
    BY DEF Option
  <2>. QED  BY <1>1, <2>1, UpdateKeeps DEF Within
<1>3. /\ chain.controller # "AtomicSwapLock" /\ Runs("Other") /\ tx' = Stepped
      /\ UNCHANGED <<clock, published>>
      /\ chain' = [chain EXCEPT !.reserves[token] = r]
  BY <1>1 DEF ManageReserve, Instruction, Halted, Accounts
<1> HIDE DEF r
<1>4. Within(r) /\ chain.vaults[token] \in 0 .. Supply /\ chain.ledger[token] \in Int
  BY <1>1, <1>2 DEF Within, Accounts
<1>5. chain' = [chain EXCEPT !.reserves[token] = r,
                             !.vaults[token] = chain.vaults[token],
                             !.ledger[token] = chain.ledger[token]]
  BY <1>1, <1>3 DEF Accounts
<1> DEFINE v == chain.vaults[token]
           l == chain.ledger[token]
<1>6. /\ v \in 0 .. Supply /\ l \in Int
      /\ chain' = [chain EXCEPT !.reserves[token] = r, !.vaults[token] = v,
                                !.ledger[token] = l]
  BY <1>4, <1>5
<1>7. Within(r) /\ chain.controller # "AtomicSwapLock" /\ Runs("Other")
      /\ tx' = Stepped /\ UNCHANGED <<clock, published>>
  BY <1>3, <1>4
<1> HIDE DEF v, l
<1>. QED  BY <1>2, <1>6, <1>7, TokenStep

\* A sync records the balance of the vault.
LEMMA SyncReserveStep ==
  ASSUME SwapInv, NEW token \in Tokens, SyncReserve(token)
  PROVE  SwapInv'
<1>1. /\ chain \in Accounts /\ chain.vaults[token] \in 0 .. Supply
      /\ chain.controller # "AtomicSwapLock" /\ Runs("Other") /\ tx' = Stepped
      /\ UNCHANGED <<clock, published>>
      /\ chain' = [chain EXCEPT !.reserves[token] = Sync(token),
                                !.ledger[token] = SyncLedger(token)]
  BY DEF SyncReserve, Instruction, Halted, SwapInv, WellFormed, Accounts
<1>2. chain' = [chain EXCEPT !.reserves[token] = Sync(token),
                             !.vaults[token] = chain.vaults[token],
                             !.ledger[token] = SyncLedger(token)]
  BY <1>1 DEF Accounts
<1> DEFINE r == Sync(token)
           v == chain.vaults[token]
           l == SyncLedger(token)
<1>3. /\ r \in Reserves /\ Within(r) /\ r.status # "Uninitialized"
      /\ v \in 0 .. Supply /\ l \in Int
      /\ chain' = [chain EXCEPT !.reserves[token] = r, !.vaults[token] = v,
                                !.ledger[token] = l]
  BY <1>1, <1>2, SyncFacts
<1>4. /\ chain.controller # "AtomicSwapLock" /\ Runs("Other") /\ tx' = Stepped
      /\ UNCHANGED <<clock, published>>
  BY <1>1
<1> HIDE DEF r, v, l
<1>. QED  BY <1>3, <1>4, TokenStep

\* A push takes from a vault what the guards found there.
LEMMA PushStep ==
  ASSUME SwapInv, NEW token \in Tokens, NEW amount \in Amounts,
         Push(token, amount)
  PROVE  SwapInv'
<1> DEFINE s == Sync(token)
           r == UpdateForOutflow(s, amount)
<1>1. /\ s \in Reserves /\ Within(s) /\ s.status # "Uninitialized"
      /\ s.lastBalance = chain.vaults[token] /\ SyncLedger(token) \in Int
      /\ chain.vaults[token] \in Nat /\ chain.vaults[token] <= Supply
      /\ Supply \in Nat
  BY SyncFacts
<1>2. amount \in Nat
  BY AtomicSwapAssumption
<1>3. /\ amount <= chain.vaults[token] /\ Runs("Other") /\ tx' = Stepped
      /\ UNCHANGED <<clock, published>> /\ chain.controller # "AtomicSwapLock"
      /\ chain' = [chain EXCEPT !.reserves[token] = r,
                                !.vaults[token] = chain.vaults[token] - amount,
                                !.ledger[token] = SyncLedger(token) - amount]
  BY DEF Push, Instruction, SwapInv, WellFormed, Accounts
<1> HIDE DEF s
<1>4. r \in Reserves /\ Within(r) /\ r.status # "Uninitialized"
  BY <1>1, <1>2, <1>3, FlowFacts
<1>5. /\ chain.vaults[token] - amount \in 0 .. Supply
      /\ SyncLedger(token) - amount \in Int
  BY <1>1, <1>2, <1>3
<1> HIDE DEF r
<1>. QED  BY <1>3, <1>4, <1>5, TokenStep

\* A pull adds to a vault that was just synced.
LEMMA PullStep ==
  ASSUME SwapInv, NEW token \in Tokens, NEW amount \in Amounts,
         Pull(token, amount)
  PROVE  SwapInv'
<1> DEFINE s == Sync(token)
           r == UpdateForInflow(s, amount)
<1>1. /\ s \in Reserves /\ Within(s) /\ s.status # "Uninitialized"
      /\ s.lastBalance = chain.vaults[token] /\ SyncLedger(token) \in Int
      /\ chain.vaults[token] \in Nat /\ Supply \in Nat /\ Supply <= U64Max
      /\ U64Max \in Nat
  BY SyncFacts
<1>2. amount \in Nat
  BY AtomicSwapAssumption
<1>3. /\ chain.vaults[token] + amount <= Supply /\ Runs("Other")
      /\ tx' = Stepped /\ UNCHANGED <<clock, published>>
      /\ chain.controller # "AtomicSwapLock"
      /\ chain' = [chain EXCEPT !.reserves[token] = r,
                                !.vaults[token] = chain.vaults[token] + amount,
                                !.ledger[token] = SyncLedger(token) + amount]
  BY DEF Pull, Instruction, SwapInv, WellFormed, Accounts
<1> HIDE DEF s
<1>4. r \in Reserves /\ Within(r) /\ r.status # "Uninitialized"
  BY <1>1, <1>2, <1>3, FlowFacts
<1>5. /\ chain.vaults[token] + amount \in 0 .. Supply
      /\ SyncLedger(token) + amount \in Int
  BY <1>1, <1>2, <1>3
<1> HIDE DEF r
<1>. QED  BY <1>3, <1>4, <1>5, TokenStep

\* A new status and cap do not touch an open swap, whose lock refuses them.
LEMMA ManageIntegrationStep ==
  ASSUME SwapInv, NEW status \in {"Active", "Suspended"}, NEW max \in Amounts,
         ManageIntegration(status, max)
  PROVE  SwapInv'
<1> DEFINE j == [SetMaxOutflow(RefreshRateLimit(chain.integration, clock), max)
                   EXCEPT !.status = status]
<1>1. /\ chain \in Accounts /\ WellFormed(chain) /\ clock \in Clocks
      /\ chain.integration \in Integrations /\ Within(chain.integration)
  BY DEF SwapInv, WellFormed, Accounts
<1>2. max \in U64
  BY AtomicSwapAssumption DEF U64
<1>3. /\ Runs("Other") /\ tx' = Stepped /\ clock' = clock
      /\ published' = published /\ chain.controller # "AtomicSwapLock"
      /\ chain' = [chain EXCEPT !.integration = j]
  BY <1>1 DEF ManageIntegration, Instruction, Halted, Accounts
<1>4. /\ j \in Integrations /\ Within(j)
      /\ j.borrowed = chain.integration.borrowed
  BY <1>1, <1>2, ManageIntegrationKeeps
<1> HIDE DEF j
<1>5. WellFormed(chain')
  BY <1>1, <1>3, <1>4 DEF WellFormed, Accounts
<1>6. ~Locked(chain') /\ chain'.integration.borrowed = chain.integration.borrowed
  BY <1>1, <1>3, <1>4 DEF Accounts, Locked
<1>. QED  BY <1>3, <1>5, <1>6, OtherStep

\* The oracle is no part of a swap's state.
LEMMA RefreshOracleStep == SwapInv /\ RefreshOracle => SwapInv'
<1> SUFFICES ASSUME SwapInv, RefreshOracle PROVE SwapInv'
  OBVIOUS
<1>1. PICK feed \in Feeds :
        /\ chain' = [chain EXCEPT !.oracle = feed]
        /\ Runs("Other") /\ tx' = Stepped /\ clock' = clock
        /\ published' = published
  BY DEF RefreshOracle, Instruction, SwapInv
<1>2. chain \in Accounts /\ WellFormed(chain)
  BY DEF SwapInv, WellFormed
<1>3. /\ chain' \in Accounts
      /\ chain'.controller = chain.controller
      /\ chain'.integration = chain.integration
      /\ chain'.reserves = chain.reserves
  BY <1>1, <1>2 DEF Accounts
<1>4. WellFormed(chain')
  BY <1>2, <1>3 DEF WellFormed
<1>. QED  BY <1>1, <1>3, <1>4, OtherStep DEF Locked

\* Foreign programs change what the vaults hold, not what is recorded of it.
LEMMA ForeignTransferStep ==
  ASSUME SwapInv, NEW holder \in {"wallet", "vaults"}, NEW token \in Tokens,
         NEW amount \in Amounts, ForeignTransfer(holder, token, amount)
  PROVE  SwapInv'
<1>1. chain \in Accounts /\ WellFormed(chain) /\ Supply \in Nat /\ amount \in Nat
  BY AtomicSwapAssumption DEF SwapInv, WellFormed
<1>2. chain[holder] \in [Tokens -> 0 .. Supply]
  <2>1. CASE holder = "wallet"
    BY <1>1, <2>1 DEF Accounts
  <2>2. CASE holder = "vaults"
    BY <1>1, <2>2 DEF Accounts
  <2>. QED  BY <2>1, <2>2
<1>3. PICK left \in 0 .. Supply :
        chain' = [chain EXCEPT ![holder][token] = left]
  <2>1. chain[holder][token] \in 0 .. Supply
    BY <1>2
  <2>2. CASE /\ chain[holder][token] + amount <= Supply
             /\ chain' = [chain EXCEPT ![holder][token] = @ + amount]
    <3>1. chain[holder][token] + amount \in 0 .. Supply
      BY <1>1, <2>1, <2>2
    <3>. QED  BY <1>1, <2>2, <3>1 DEF Accounts
  <2>3. CASE /\ amount <= chain[holder][token]
             /\ chain' = [chain EXCEPT ![holder][token] = @ - amount]
    <3>1. chain[holder][token] - amount \in 0 .. Supply
      BY <1>1, <2>1, <2>3
    <3>. QED  BY <1>1, <2>3, <3>1 DEF Accounts
  <2>. QED  BY <2>2, <2>3 DEF ForeignTransfer
<1>4. [chain[holder] EXCEPT ![token] = left] \in [Tokens -> 0 .. Supply]
  BY <1>2
<1>5. /\ chain' \in Accounts
      /\ chain'.controller = chain.controller
      /\ chain'.integration = chain.integration
      /\ chain'.reserves = chain.reserves
  <2> DEFINE h == [chain[holder] EXCEPT ![token] = left]
  <2>1. chain' = [chain EXCEPT ![holder] = h]
    BY <1>1, <1>3 DEF Accounts
  <2> HIDE DEF h
  <2>2. h \in [Tokens -> 0 .. Supply]
    BY <1>4 DEF h
  <2>3. CASE holder = "wallet"
    BY <1>1, <2>1, <2>2, <2>3 DEF Accounts
  <2>4. CASE holder = "vaults"
    BY <1>1, <2>1, <2>2, <2>4 DEF Accounts
  <2>. QED  BY <2>3, <2>4
<1>6. WellFormed(chain')
  BY <1>1, <1>5 DEF WellFormed
<1>7. /\ Runs("Foreign") /\ tx' = Stepped /\ clock' = clock
      /\ published' = published
  BY DEF ForeignTransfer
<1>. QED  BY <1>5, <1>6, <1>7, OtherStep DEF Locked

\* Time passes between transactions only, and makes no refresh a future one.
LEMMA NextBlockStep == SwapInv /\ NextBlock => SwapInv'
<1> SUFFICES ASSUME SwapInv, NextBlock PROVE SwapInv'
  OBVIOUS
<1>1. /\ Idle /\ tx = NoTransaction /\ tx' = tx /\ chain' = chain
      /\ clock' = [ts |-> clock.ts + 1, slot |-> clock.slot + 1]
      /\ clock.ts \in Nat /\ clock.slot \in Nat
  BY DEF NextBlock, SwapInv, TxOK, Clocks
<1>2. clock' \in Clocks /\ clock'.ts = clock.ts + 1
  BY <1>1 DEF Clocks
<1>3. published' \subseteq Feeds
  <2>1. clock'.slot \in Nat /\ Prices \subseteq Nat
    <3>1. clock'.slot \in Nat
      BY <1>1
    <3>. QED  BY <3>1, AtomicSwapAssumption, Zenon
  <2>2. \A price \in Prices : [price |-> price, slot |-> clock'.slot] \in Feeds
    BY <2>1 DEF Feeds
  <2>. QED  BY <2>2 DEF NextBlock, SwapInv
<1>4. WellFormed(chain)'
  <2>1. /\ chain.integration.ts \in Nat
        /\ \A token \in Tokens : chain.reserves[token].ts \in Nat
    BY IntegrationNumbers DEF SwapInv, WellFormed, Accounts, Reserves
  <2>2. /\ chain \in Accounts /\ Within(chain.integration)
        /\ \A token \in Tokens : /\ Within(chain.reserves[token])
                                 /\ chain.reserves[token].status # "Uninitialized"
    BY DEF SwapInv, WellFormed
  <2>. QED  BY <1>1, <1>2, <2>1, <2>2 DEF WellFormed, Within
<1>5. ~Open(chain) /\ ~Locked(chain)
  <2>1. ~Running
    BY <1>1, TxTypes DEF SwapInv, Running
  <2>. QED  BY <2>1 DEF SwapInv, Open
<1>6. TxOK'
  BY <1>1 DEF TxOK, NoTransaction, Idle
<1>7. ~Open(chain)' /\ ~Locked(chain)' /\ (tx.opened = {})'
  BY <1>1, <1>5 DEF Open, Locked, SwapStarted, NoTransaction
<1>8. BalancesSettled'
  BY <1>7 DEF BalancesSettled
<1>. QED  BY <1>2, <1>3, <1>4, <1>6, <1>7, <1>8 DEF SwapInv

-----------------------------------------------------------------------------
\* Every step keeps the invariant.
LEMMA NextStep == SwapInv /\ [Next]_vars => SwapInv'
<1> SUFFICES ASSUME SwapInv, [Next]_vars PROVE SwapInv'
  OBVIOUS
<1>1. CASE UNCHANGED vars
  <2>1. clock' = clock /\ chain' = chain /\ tx' = tx /\ published' = published
    BY <1>1 DEF vars
  <2>2. CleanAccounts' = CleanAccounts /\ WellFormed(chain)'
    BY <2>1, SameClock DEF SwapInv
  <2>3. TxOK'
    BY <2>1, <2>2 DEF SwapInv, TxOK, Idle
  <2>4. BalancesSettled'
    BY <2>1 DEF SwapInv, BalancesSettled, Committing, Idle, Running, Last
  <2>. QED  BY <2>1, <2>2, <2>3, <2>4
            DEF SwapInv, Open, Locked, SwapStarted, Running, RepayAhead,
                AsOpened, Last, Kind
<1>2. CASE Next
  BY <1>2, ScheduleStep, BorrowStep, RepayStep, ManageControllerStep,
     ManageReserveStep, ManageIntegrationStep, SyncReserveStep, PushStep,
     PullStep, RefreshOracleStep, ForeignTransferStep, NextBlockStep DEF Next
<1>. QED  BY <1>1, <1>2

\* No transaction that is over leaves a swap open, since Repay would be ahead.
LEMMA InvImplies ==
  ASSUME SwapInv
  PROVE  SwapTypeOK /\ LockIsTransient /\ BalancesSettled
<1>1. SwapTypeOK
  BY DEF SwapInv, WellFormed, Accounts, SwapTypeOK
<1>2. LockIsTransient
  <2>1. Idle => ~Running
    BY TxTypes DEF SwapInv, Running
  <2>. QED  BY <2>1 DEF SwapInv, Open, Locked, LockIsTransient
<1>. QED  BY <1>1, <1>2 DEF SwapInv

\* The last instruction of a transaction that opened a swap is Repay, which
\* runs only with the lock set.
LEMMA LastStep ==
  ASSUME SwapInv, [Next]_vars, tx.pc = Last, tx'.pc = Last + 1,
         NEW o \in tx.opened
  PROVE  /\ chain.integration = o.integration
         /\ chain.reserves = o.reserves
         /\ chain.vaults = o.vaults
<1>1. /\ TxOK /\ Last \in Nat /\ tx.pc \in Nat \ {0} /\ Running
      /\ "A" \in Tokens /\ "B" \in Tokens
  BY TxTypes DEF SwapInv, Running, Tokens
<1>2. RepayAhead /\ Kind(tx.pc) = "Repay"
  BY <1>1 DEF SwapInv, RepayAhead
<1>3. PICK feeA \in Fees, feeB \in Fees : Repay(feeA, feeB)
  <2>1. ~Runs("Borrow") /\ ~Runs("Other") /\ ~Runs("Foreign")
    BY <1>2 DEF Runs
  <2>2. tx' # tx /\ tx' # NoTransaction
    BY <1>1 DEF NoTransaction
  <2>3. ~ForeignReturns /\ ~Commit /\ ~Abort
    BY <1>2, <2>2 DEF ForeignReturns, CurrentIsForeign, Commit, Abort
  <2>4. \A ixs \in IxLists : ~Begin(ixs)
    BY <1>1, TxTypes DEF Begin
  <2>5. ~NextBlock /\ ~UNCHANGED vars
    BY <2>2 DEF NextBlock, vars
  <2>. QED  BY <2>1, <2>3, <2>4, <2>5
            DEF Next, Schedule, Borrow, ManageController, ManageReserve,
                ManageIntegration, SyncReserve, Push, Pull, RefreshOracle,
                ForeignTransfer, Instruction
<1>4. /\ AsOpened(o) /\ VaultsUntouched /\ o \in Accounts /\ chain \in Accounts
  <2>1. Locked(chain) /\ VaultsUntouched
    BY <1>3 DEF Repay, Locked
  <2>. QED  BY <1>1, <2>1 DEF SwapInv, TxOK, WellFormed
<1>5. chain.vaults = o.vaults
  <2>1. \A token \in Tokens : chain.vaults[token] = o.vaults[token]
    BY <1>3, RepayFacts
  <2>. QED  BY <1>4, <2>1 DEF Accounts
<1>. QED  BY <1>4, <1>5 DEF AsOpened

-----------------------------------------------------------------------------
\* What the events and the price of a swap rest on.  The loan is not debited
\* before Repay; the oracle was refreshed from the feed or, in slot 0, never;
\* and the accounts that an abort restores are like that too.
Covered(c) ==
  /\ c.ledger["A"] <= c.reserves["A"].lastBalance
  /\ c.ledger["B"] = c.reserves["B"].lastBalance

Lent(c) ==
  /\ c.ledger["A"] <= c.reserves["A"].lastBalance + c.integration.borrowed
  /\ c.ledger["B"] = c.reserves["B"].lastBalance

Quoted(c) == c.oracle \in published \/ c.oracle.slot = 0

SwapBooks ==
  /\ SwapInv
  /\ FirstSlot <= clock.slot
  /\ Quoted(chain) /\ \A c \in tx.saved : Quoted(c) /\ Covered(c)
  /\ ~Open(chain) => Covered(chain)
  /\ Locked(chain) => Lent(chain)
  /\ SwapPriced

LEMMA BooksInit == Init => SwapBooks
<1> SUFFICES ASSUME Init PROVE SwapBooks
  OBVIOUS
<1>1. /\ SwapInv /\ clock.slot = FirstSlot /\ tx = NoTransaction
      /\ FirstSlot \in Nat
  <2>1. clock = [ts |-> 0, slot |-> FirstSlot] /\ tx = NoTransaction
    BY DEF Init
  <2>. QED  BY <2>1, InitHolds, AtomicSwapAssumption
<1>2. PICK held \in Amounts :
        /\ chain.controller = "Active" /\ chain.oracle.slot = 0
        /\ chain.ledger = [A |-> held, B |-> 0]
        /\ chain.reserves["A"].lastBalance = held
        /\ chain.reserves["B"].lastBalance = 0
  BY DEF Init, InitReserve
<1>3. held \in Nat
  BY AtomicSwapAssumption
<1>4. Covered(chain) /\ Quoted(chain) /\ ~Locked(chain)
  BY <1>2, <1>3 DEF Covered, Quoted, Locked
<1>5. SwapPriced /\ tx.saved = {}
  BY <1>1 DEF SwapPriced, NoTransaction
<1>. QED  BY <1>1, <1>4, <1>5 DEF SwapBooks

\* The instructions that may come between Borrow and Repay, when they book what
\* they change and leave an open loan alone.
LEMMA OtherBooks ==
  ASSUME SwapBooks, SwapInv', Runs("Other") \/ Runs("Foreign"),
         tx' = Stepped, clock' = clock, published' = published,
         chain'.integration.borrowed = chain.integration.borrowed,
         Quoted(chain'),
         ~Locked(chain) /\ Covered(chain) => Covered(chain'),
         Locked(chain') => Locked(chain) /\ (Lent(chain) => Lent(chain'))
  PROVE  SwapBooks'
<1>1. SwapInv /\ TxOK /\ Running
  BY DEF SwapBooks, SwapInv, Runs
<1>2. tx'.saved = tx.saved /\ tx'.opened = tx.opened
  BY <1>1, SteppedKeeps DEF TxOK, Stepped
<1>3. ~Open(chain') => Covered(chain')
  <2>1. Open(chain) /\ ~SwapStarted(chain.integration) => FALSE
    BY <1>1 DEF SwapInv, Open, Locked
  <2>. QED  BY <2>1 DEF SwapBooks, Open, Locked, SwapStarted
<1>4. Locked(chain') => Lent(chain')
  BY DEF SwapBooks
<1>5. SwapPriced'
  <2>1. tx.opened # {} => Running'
    BY <1>1, NotLast
  <2>. QED  BY <1>2, <2>1 DEF SwapPriced, Committing
<1>6. (FirstSlot <= clock.slot)' /\ \A c : Quoted(c)' <=> Quoted(c)
  BY DEF SwapBooks, Quoted
<1>7. (\A c \in tx.saved : Quoted(c) /\ Covered(c))'
  BY <1>2, <1>6 DEF SwapBooks, Covered
<1>. QED  BY <1>3, <1>4, <1>5, <1>6, <1>7
          DEF SwapBooks, Open, Locked, SwapStarted, Covered, Lent

\* An instruction that books as much as it changes the recorded balance.
LEMMA TokenBooks ==
  ASSUME SwapBooks, SwapInv', NEW token \in Tokens, NEW r, NEW v, NEW l,
         chain' = [chain EXCEPT !.reserves[token] = r, !.vaults[token] = v,
                                !.ledger[token] = l],
         r.lastBalance \in Int, l \in Int,
         l - chain.ledger[token]
           = r.lastBalance - chain.reserves[token].lastBalance,
         chain.controller # "AtomicSwapLock",
         Runs("Other"), tx' = Stepped, UNCHANGED <<clock, published>>
  PROVE  SwapBooks'
<1>1. chain \in Accounts
  BY DEF SwapBooks, SwapInv, WellFormed
<1>2. /\ chain'.integration = chain.integration
      /\ chain'.controller = chain.controller /\ chain'.oracle = chain.oracle
      /\ chain'.reserves = [chain.reserves EXCEPT ![token] = r]
      /\ chain'.ledger = [chain.ledger EXCEPT ![token] = l]
  BY <1>1 DEF Accounts
<1>3. \A t \in Tokens :
        /\ chain.ledger[t] \in Int /\ chain.reserves[t].lastBalance \in Int
        /\ chain'.ledger[t] = IF t = token THEN l ELSE chain.ledger[t]
        /\ chain'.reserves[t] = IF t = token THEN r ELSE chain.reserves[t]
  BY <1>1, <1>2 DEF Accounts, Reserves, U64
<1>4. Covered(chain) => Covered(chain')
  BY <1>3 DEF Covered, Tokens
<1>5. Quoted(chain') /\ ~Locked(chain')
  BY <1>2 DEF SwapBooks, Quoted, Locked
<1>. QED  BY <1>2, <1>4, <1>5, OtherBooks

\* Reserve::update leaves the recorded balance.
LEMMA UpdateRecords ==
  ASSUME NEW r \in Reserves, NEW status
  PROVE  UpdateReserve(r, {status}, {}, {}, clock).lastBalance = r.lastBalance
BY DEF UpdateReserve, RefreshRateLimit, Reserves

LEMMA ManageReserveBooks ==
  ASSUME SwapBooks, SwapInv', NEW token \in Tokens,
         NEW status \in ReserveStatus, ManageReserve(token, status)
  PROVE  SwapBooks'
<1> DEFINE r == UpdateReserve(chain.reserves[token], {status}, {}, {}, clock)
           v == chain.vaults[token]
           l == chain.ledger[token]
<1>1. /\ chain \in Accounts /\ chain.reserves[token] \in Reserves /\ l \in Int
      /\ chain.reserves[token].lastBalance \in Int
  BY DEF SwapBooks, SwapInv, WellFormed, Accounts, Reserves, U64
<1>2. r.lastBalance = chain.reserves[token].lastBalance
  BY <1>1, UpdateRecords
<1>3. /\ chain.controller # "AtomicSwapLock" /\ Runs("Other") /\ tx' = Stepped
      /\ UNCHANGED <<clock, published>>
      /\ chain' = [chain EXCEPT !.reserves[token] = r]
  BY <1>1 DEF ManageReserve, Instruction, Halted, Accounts
<1> HIDE DEF r
<1>4. chain' = [chain EXCEPT !.reserves[token] = r, !.vaults[token] = v,
                             !.ledger[token] = l]
  BY <1>1, <1>3 DEF Accounts
<1>5. /\ r.lastBalance \in Int
      /\ l - chain.ledger[token]
           = r.lastBalance - chain.reserves[token].lastBalance
  BY <1>1, <1>2
<1>6. l \in Int
  BY <1>1
<1> HIDE DEF v, l
<1>. QED  BY <1>3, <1>4, <1>5, <1>6, TokenBooks

\* The ledger after a sync.
LEMMA SyncBooked ==
  ASSUME SwapInv, NEW token \in Tokens
  PROVE  /\ Sync(token).lastBalance \in Int /\ SyncLedger(token) \in Int
         /\ Sync(token) \in Reserves /\ chain \in Accounts
         /\ chain.ledger[token] \in Int
         /\ chain.reserves[token].lastBalance \in Int
         /\ SyncLedger(token) - chain.ledger[token]
              = Sync(token).lastBalance - chain.reserves[token].lastBalance
<1>1. /\ chain \in Accounts /\ chain.ledger[token] \in Int
      /\ chain.reserves[token].lastBalance \in Int
  BY DEF SwapInv, WellFormed, Accounts, Reserves, U64
<1>. QED  BY <1>1, SyncFacts DEF SyncLedger, SyncEvent

LEMMA SyncReserveBooks ==
  ASSUME SwapBooks, SwapInv', NEW token \in Tokens, SyncReserve(token)
  PROVE  SwapBooks'
<1> DEFINE r == Sync(token)
           v == chain.vaults[token]
           l == SyncLedger(token)
<1>1. /\ r.lastBalance \in Int /\ l \in Int /\ chain \in Accounts
      /\ l - chain.ledger[token]
           = r.lastBalance - chain.reserves[token].lastBalance
  BY SyncBooked DEF SwapBooks
<1>2. /\ chain.controller # "AtomicSwapLock" /\ Runs("Other") /\ tx' = Stepped
      /\ UNCHANGED <<clock, published>>
      /\ chain' = [chain EXCEPT !.reserves[token] = r, !.ledger[token] = l]
  BY DEF SyncReserve, Instruction, Halted
<1> HIDE DEF r, l
<1>3. chain' = [chain EXCEPT !.reserves[token] = r, !.vaults[token] = v,
                             !.ledger[token] = l]
  BY <1>1, <1>2 DEF Accounts
<1> HIDE DEF v
<1>. QED  BY <1>1, <1>2, <1>3, TokenBooks

LEMMA PushBooks ==
  ASSUME SwapBooks, SwapInv', NEW token \in Tokens, NEW amount \in Amounts,
         Push(token, amount)
  PROVE  SwapBooks'
<1> DEFINE s == Sync(token)
           r == UpdateForOutflow(s, amount)
           v == chain.vaults[token] - amount
           l == SyncLedger(token) - amount
<1>1. /\ s \in Reserves /\ s.lastBalance \in Int /\ SyncLedger(token) \in Int
      /\ chain.ledger[token] \in Int
      /\ chain.reserves[token].lastBalance \in Int
      /\ SyncLedger(token) - chain.ledger[token]
           = s.lastBalance - chain.reserves[token].lastBalance
      /\ chain \in Accounts
  BY SyncBooked DEF SwapBooks
<1>2. amount \in Nat
  BY AtomicSwapAssumption
<1>3. /\ chain.controller # "AtomicSwapLock" /\ Runs("Other") /\ tx' = Stepped
      /\ UNCHANGED <<clock, published>>
      /\ chain' = [chain EXCEPT !.reserves[token] = r, !.vaults[token] = v,
                                !.ledger[token] = l]
  BY <1>1 DEF Push, Instruction, Accounts
<1> HIDE DEF s
<1>4. r.lastBalance = s.lastBalance - amount
  BY <1>1 DEF UpdateForOutflow, DebitRateLimit, Reserves
<1>5. /\ r.lastBalance \in Int /\ l \in Int
      /\ l - chain.ledger[token]
           = r.lastBalance - chain.reserves[token].lastBalance
  BY <1>1, <1>2, <1>4
<1> HIDE DEF r, v, l
<1>. QED  BY <1>3, <1>5, TokenBooks

LEMMA PullBooks ==
  ASSUME SwapBooks, SwapInv', NEW token \in Tokens, NEW amount \in Amounts,
         Pull(token, amount)
  PROVE  SwapBooks'
<1> DEFINE s == Sync(token)
           r == UpdateForInflow(s, amount)
           v == chain.vaults[token] + amount
           l == SyncLedger(token) + amount
<1>1. /\ s \in Reserves /\ s.lastBalance \in Int /\ SyncLedger(token) \in Int
      /\ chain.ledger[token] \in Int
      /\ chain.reserves[token].lastBalance \in Int
      /\ SyncLedger(token) - chain.ledger[token]
           = s.lastBalance - chain.reserves[token].lastBalance
      /\ chain \in Accounts
  BY SyncBooked DEF SwapBooks
<1>2. amount \in Nat
  BY AtomicSwapAssumption
<1>3. /\ chain.controller # "AtomicSwapLock" /\ Runs("Other") /\ tx' = Stepped
      /\ UNCHANGED <<clock, published>>
      /\ chain' = [chain EXCEPT !.reserves[token] = r, !.vaults[token] = v,
                                !.ledger[token] = l]
  BY <1>1 DEF Pull, Instruction, Accounts
<1> HIDE DEF s
<1>4. r.lastBalance = s.lastBalance + amount
  BY <1>1 DEF UpdateForInflow, CreditRateLimit, Reserves
<1>5. /\ r.lastBalance \in Int /\ l \in Int
      /\ l - chain.ledger[token]
           = r.lastBalance - chain.reserves[token].lastBalance
  BY <1>1, <1>2, <1>4
<1> HIDE DEF r, v, l
<1>. QED  BY <1>3, <1>5, TokenBooks

\* What neither books nor is booked.
LEMMA UnbookedSteps ==
  ASSUME SwapBooks, SwapInv',
         \/ \E status \in ControllerStatus : ManageController(status)
         \/ \E status \in {"Active", "Suspended"}, max \in Amounts :
              ManageIntegration(status, max)
         \/ RefreshOracle
         \/ \E holder \in {"wallet", "vaults"}, token \in Tokens,
               amount \in Amounts : ForeignTransfer(holder, token, amount)
  PROVE  SwapBooks'
<1>1. /\ chain \in Accounts /\ clock \in Clocks /\ SwapInv
      /\ chain.integration \in Integrations /\ Within(chain.integration)
      /\ published \subseteq Feeds
  BY DEF SwapBooks, SwapInv, WellFormed, Accounts
<1>2. ASSUME NEW status \in ControllerStatus, ManageController(status)
      PROVE  SwapBooks'
  <2>1. /\ chain' = [chain EXCEPT !.controller = status]
        /\ status # "AtomicSwapLock" /\ Runs("Other") /\ tx' = Stepped
        /\ clock' = clock /\ published' = published
    BY <1>2 DEF ManageController, Instruction
  <2>2. /\ ~Locked(chain') /\ chain'.integration = chain.integration
        /\ Quoted(chain') /\ (Covered(chain) => Covered(chain'))
    BY <1>1, <2>1 DEF Accounts, Locked, SwapBooks, Quoted, Covered
  <2>. QED  BY <2>1, <2>2, OtherBooks
<1>3. ASSUME NEW status \in {"Active", "Suspended"}, NEW max \in Amounts,
             ManageIntegration(status, max)
      PROVE  SwapBooks'
  <2> DEFINE j == [SetMaxOutflow(RefreshRateLimit(chain.integration, clock), max)
                     EXCEPT !.status = status]
  <2>1. /\ chain' = [chain EXCEPT !.integration = j] /\ ~Locked(chain)
        /\ Runs("Other") /\ tx' = Stepped
        /\ clock' = clock /\ published' = published
    BY <1>1, <1>3 DEF ManageIntegration, Instruction, Halted, Locked, Accounts
  <2>2. max \in U64
    BY AtomicSwapAssumption DEF U64
  <2>3. j.borrowed = chain.integration.borrowed
    BY <1>1, <2>2, ManageIntegrationKeeps
  <2> HIDE DEF j
  <2>4. /\ ~Locked(chain')
        /\ chain'.integration.borrowed = chain.integration.borrowed
        /\ Quoted(chain') /\ (Covered(chain) => Covered(chain'))
    BY <1>1, <2>1, <2>3 DEF Accounts, Locked, SwapBooks, Quoted, Covered
  <2>. QED  BY <2>1, <2>4, OtherBooks
<1>4. CASE RefreshOracle
  <2>1. PICK feed \in published :
          /\ chain' = [chain EXCEPT !.oracle = feed]
          /\ Runs("Other") /\ tx' = Stepped /\ clock' = clock
          /\ published' = published
    BY <1>4 DEF RefreshOracle, Instruction
  <2>2. /\ chain'.integration = chain.integration
        /\ Quoted(chain') /\ (Covered(chain) => Covered(chain'))
        /\ Locked(chain') => Locked(chain) /\ (Lent(chain) => Lent(chain'))
    BY <1>1, <2>1 DEF Accounts, Locked, Quoted, Covered, Lent
  <2>. QED  BY <2>1, <2>2, OtherBooks
<1>5. ASSUME NEW holder \in {"wallet", "vaults"}, NEW token \in Tokens,
             NEW amount \in Amounts, ForeignTransfer(holder, token, amount)
      PROVE  SwapBooks'
  <2>1. /\ chain'.integration = chain.integration
        /\ chain'.controller = chain.controller
        /\ chain'.reserves = chain.reserves
        /\ chain'.ledger = chain.ledger /\ chain'.oracle = chain.oracle
    BY <1>1, <1>5 DEF ForeignTransfer, Accounts
  <2>2. /\ Quoted(chain') /\ (Covered(chain) => Covered(chain'))
        /\ Locked(chain') => Locked(chain) /\ (Lent(chain) => Lent(chain'))
    BY <2>1 DEF SwapBooks, Quoted, Covered, Lent, Locked
  <2>3. /\ Runs("Foreign") /\ tx' = Stepped /\ clock' = clock
        /\ published' = published
    BY <1>5 DEF ForeignTransfer
  <2>. QED  BY <2>1, <2>2, <2>3, OtherBooks
<1>. QED  BY <1>2, <1>3, <1>4, <1>5

-----------------------------------------------------------------------------
\* Borrow takes the loan out of the recorded balance and debits nothing yet.
LEMMA BorrowBooks ==
  ASSUME SwapBooks, SwapInv', NEW amount \in Amounts, NEW fee \in Fees,
         Borrow(amount, fee)
  PROVE  SwapBooks'
<1> DEFINE i == RefreshRateLimit(chain.integration, clock)
           o == [i EXCEPT !.lastA = chain.vaults["A"],
                          !.lastB = chain.vaults["B"], !.borrowed = amount,
                          !.preA = chain.wallet["A"],
                          !.preB = chain.wallet["B"]]
           j == DebitRateLimit(o, amount)
           a == UpdateForOutflow(Sync("A"), amount)
<1>1. /\ SwapInv /\ TxOK /\ chain \in Accounts /\ clock \in Clocks
      /\ chain.integration \in Integrations /\ Within(chain.integration)
      /\ "A" \in Tokens /\ "B" \in Tokens /\ amount \in Nat
  <2>1. amount \in Nat
    BY AtomicSwapAssumption
  <2>. QED  BY <2>1 DEF SwapBooks, SwapInv, WellFormed, Accounts, Tokens
<1>2. i \in Integrations /\ i.borrowed = chain.integration.borrowed
  BY <1>1, RefreshIntegration
<1>3. /\ chain.controller = "Active" /\ ~SwapStarted(i) /\ Running
      /\ ~CurrentIsForeign
      /\ clock' = clock /\ published' = published
      /\ tx' = [Stepped EXCEPT !.opened = {chain'}]
      /\ chain'.integration = j /\ chain'.controller = "AtomicSwapLock"
      /\ chain'.oracle = chain.oracle
      /\ chain'.reserves["A"] = a /\ chain'.reserves["B"] = Sync("B")
      /\ chain'.ledger["A"] = SyncLedger("A")
      /\ chain'.ledger["B"] = SyncLedger("B")
  BY <1>1 DEF Borrow, Runs, VerifyRepay, CurrentIsForeign, Accounts, Tokens
<1>4. Covered(chain)
  BY <1>2, <1>3 DEF SwapBooks, Open, Locked, SwapStarted
<1>5. j.borrowed = amount
  BY <1>2 DEF DebitRateLimit, Integrations
<1>6. a.lastBalance = Sync("A").lastBalance - amount
  BY <1>1, SyncBooked DEF UpdateForOutflow, DebitRateLimit, Reserves
<1> HIDE DEF i, o, j, a
<1>7. /\ SyncLedger("A") <= Sync("A").lastBalance
      /\ SyncLedger("B") = Sync("B").lastBalance
      /\ Sync("A").lastBalance \in Int /\ SyncLedger("A") \in Int
  <2>1. \A token \in Tokens :
          /\ Sync(token).lastBalance \in Int /\ SyncLedger(token) \in Int
          /\ chain.ledger[token] \in Int
          /\ chain.reserves[token].lastBalance \in Int
          /\ SyncLedger(token) - chain.ledger[token]
               = Sync(token).lastBalance - chain.reserves[token].lastBalance
    BY <1>1, SyncBooked
  <2>. QED  BY <1>1, <1>4, <2>1 DEF Covered
<1>8. Locked(chain') /\ Lent(chain') /\ Quoted(chain')
  BY <1>1, <1>3, <1>5, <1>6, <1>7 DEF Locked, Lent, SwapBooks, Quoted
<1>9. tx'.saved = tx.saved /\ tx'.opened # {}
  BY <1>1, <1>3 DEF TxOK, Stepped
<1>10. SwapPriced'
  <2>1. Running'
    BY <1>8 DEF SwapInv, Open, Locked
  <2>. QED  BY <2>1 DEF SwapPriced, Committing
<1>11. (FirstSlot <= clock.slot)' /\ \A c : Quoted(c)' <=> Quoted(c)
  BY <1>3 DEF SwapBooks, Quoted
<1>12. (\A c \in tx.saved : Quoted(c) /\ Covered(c))'
  BY <1>9, <1>11 DEF SwapBooks, Covered
<1>. QED  BY <1>8, <1>10, <1>11, <1>12 DEF SwapBooks, Open, Locked, Lent

-----------------------------------------------------------------------------
\* Products of the price.
LEMMA TimesMono ==
  ASSUME NEW a \in Int, NEW b \in Int, NEW c \in Nat, a <= b
  PROVE  a * c <= b * c
<1>1. b = a + (b - a) /\ b - a \in Nat
  OBVIOUS
<1>2. b * c = a * c + (b - a) * c
  BY <1>1
<1>3. (b - a) * c \in Nat /\ a * c \in Int
  BY <1>1
<1>. QED  BY <1>2, <1>3

\* The price that is compared never claims more than was gained, and the price
\* it is compared with is not less than the slippage allows.
LEMMA AcceptedIsWorth ==
  ASSUME NEW spent \in Nat \ {0}, NEW got \in Nat,
         chain.oracle.price \in Nat, PriceAccepted(spent, got)
  PROVE  WorthIt(got, spent, chain.oracle.price)
<1> DEFINE f     == OutFactor
           d     == spent * f
           worth == got * InFactor * Precision
           q     == worth \div d
           bps   == BpsDenominator
           price == chain.oracle.price
           n     == price * SatSub(bps, MaxSlippage)
           c     == CeilDiv(n, bps)
           kept  == bps - MaxSlippage
<1>1. /\ f \in Nat \ {0} /\ InFactor \in Nat \ {0} /\ Precision \in Nat \ {0}
      /\ bps \in Nat \ {0} /\ MaxSlippage \in Nat /\ price \in Nat
  BY AtomicSwapAssumption
<1>2. c <= q
  BY DEF PriceAccepted, SwapPrice, MinSwapPrice
<1>3. d \in Nat \ {0} /\ worth \in Nat
  BY <1>1
<1>4. SatSub(bps, MaxSlippage) \in Nat /\ kept <= SatSub(bps, MaxSlippage)
      /\ kept \in Int
  BY <1>1 DEF SatSub
<1>5. n \in Nat /\ price * kept <= n
  <2> DEFINE least == SatSub(bps, MaxSlippage)
  <2>1. least \in Nat /\ kept <= least /\ kept \in Int /\ price \in Nat
    BY <1>1, <1>4
  <2> HIDE DEF kept, least, price
  <2>2. kept * price <= least * price
    BY <2>1, TimesMono
  <2>3. price * least \in Nat /\ price * kept <= price * least
    BY <2>1, <2>2
  <2>. QED  BY <2>3 DEF least
<1> HIDE DEF d, worth, q, n, c, kept
<1>6. q \in Nat /\ d * q <= worth
  <2>1. worth = d * q + (worth % d) /\ q \in Nat /\ worth % d \in 0 .. (d - 1)
    BY <1>3, DivMod DEF q
  <2>. QED  BY <1>3, <2>1
<1>7. c \in Nat /\ n <= bps * c
  <2> DEFINE m == n + bps - 1
  <2>1. m \in Nat
    BY <1>1, <1>5
  <2>2. m = bps * (m \div bps) + (m % bps) /\ m \div bps \in Nat
        /\ m % bps \in 0 .. (bps - 1)
    BY <1>1, <2>1, DivMod
  <2>3. c = m \div bps
    BY DEF c, CeilDiv
  <2>. QED  BY <1>1, <1>5, <2>2, <2>3
<1>8. (price * kept) * d <= (bps * q) * d
  <2>1. c * bps <= q * bps
    BY <1>1, <1>2, <1>6, <1>7, TimesMono
  <2>2. price * kept <= bps * q /\ price * kept \in Int /\ bps * q \in Int
    BY <1>1, <1>4, <1>5, <1>6, <1>7, <2>1
  <2>. QED  BY <1>3, <2>2, TimesMono
<1>9. (d * q) * bps <= worth * bps
  <2>1. d * q \in Int
    BY <1>3, <1>6
  <2>. QED  BY <1>1, <1>3, <1>6, <2>1, TimesMono
<1>10. (bps * q) * d = (d * q) * bps
  BY <1>1, <1>3, <1>6
<1>11. (price * kept) * d \in Int /\ (d * q) * bps \in Int /\ worth * bps \in Int
  BY <1>1, <1>3, <1>4, <1>6
<1>12. worth * bps >= (price * kept) * d
  BY <1>8, <1>9, <1>10, <1>11
<1>13. (price * kept) * d = price * kept * spent * f
  BY <1>1, <1>4 DEF d
<1>. QED  BY <1>12, <1>13 DEF WorthIt, worth, kept

\* Repay debits what is not returned of the loan and credits what was bought,
\* at a price that was published in the last slots.
LEMMA RepayBooks ==
  ASSUME SwapBooks, SwapInv', NEW feeA \in Fees, NEW feeB \in Fees,
         Repay(feeA, feeB)
  PROVE  SwapBooks'
<1> DEFINE i == chain.integration
           ret == Received(Excess, feeA)
           got == Received(Bought, feeB)
           spent == SatSub(i.borrowed, ret)
           j == SwapReset(CreditRateLimit(i, ret))
           a == UpdateForInflow(chain.reserves["A"], ret)
           b == UpdateForInflow(chain.reserves["B"], got)
<1>1. /\ SwapInv /\ TxOK /\ chain \in Accounts /\ i \in Integrations
      /\ "A" \in Tokens /\ "B" \in Tokens /\ published \subseteq Feeds
      /\ clock.slot \in Nat
      /\ chain.reserves["A"] \in Reserves /\ chain.reserves["B"] \in Reserves
  BY DEF SwapBooks, SwapInv, WellFormed, Accounts, Tokens, Clocks
<1>2. /\ Locked(chain) /\ Running /\ OracleFresh /\ PriceAccepted(spent, got)
      /\ tx' = Stepped /\ clock' = clock /\ published' = published
      /\ chain'.controller = "Active" /\ chain'.integration = j
      /\ chain'.oracle = chain.oracle
      /\ chain'.reserves["A"] = a /\ chain'.reserves["B"] = b
      /\ chain'.vaults["A"] = chain.vaults["A"] + ret
      /\ chain'.vaults["B"] = chain.vaults["B"] + got
      /\ chain'.ledger["A"] = chain.ledger["A"] - spent
      /\ chain'.ledger["B"] = chain.ledger["B"] + got
  BY <1>1 DEF Repay, Runs, Locked, SwapEvents, Accounts
<1>3. ret \in Nat /\ got \in Nat
  BY <1>1, RepayFacts
<1>4. PICK o \in Accounts :
        /\ tx.opened = {o} /\ AsOpened(o)
        /\ \A token \in Tokens : chain.vaults[token] = o.vaults[token]
  BY <1>1, RepayFacts
<1>5. /\ chain.vaults["A"] \in Int /\ chain.vaults["B"] \in Int
      /\ chain.ledger["A"] \in Int /\ chain.ledger["B"] \in Int
      /\ chain.reserves["A"].lastBalance \in Int
      /\ chain.reserves["B"].lastBalance \in Int
      /\ i.borrowed \in Nat
  BY <1>1, IntegrationNumbers DEF Accounts, Reserves, U64
<1>6. /\ a.lastBalance = chain.reserves["A"].lastBalance + ret
      /\ b.lastBalance = chain.reserves["B"].lastBalance + got
      /\ j.borrowed = 0
  BY <1>1 DEF UpdateForInflow, CreditRateLimit, SwapReset, Reserves, Integrations
<1> HIDE DEF i, ret, got, j, a, b
<1>7. Covered(chain') /\ Quoted(chain') /\ ~Open(chain')
  <2>1. Lent(chain) /\ Quoted(chain)
    BY <1>2 DEF SwapBooks
  <2>2. spent >= i.borrowed - ret /\ spent >= 0 /\ spent \in Int
    BY <1>3, <1>5 DEF SatSub
  <2>3. Covered(chain')
    BY <1>2, <1>3, <1>5, <1>6, <2>1, <2>2 DEF Covered, Lent, i
  <2>. QED  BY <1>2, <1>6, <2>1, <2>3 DEF Quoted, Open, Locked, SwapStarted
<1>8. tx'.saved = tx.saved /\ tx'.opened = {o}
  BY <1>1, <1>2, <1>4, SteppedKeeps DEF TxOK, Stepped
<1>9. chain.oracle \in published /\ chain.oracle.slot >= clock.slot - MaxStaleness
  <2>1. /\ FirstSlot <= clock.slot /\ MaxStaleness < FirstSlot
        /\ FirstSlot \in Nat /\ MaxStaleness \in Nat
    BY AtomicSwapAssumption DEF SwapBooks
  <2>. QED  BY <1>1, <1>2, <2>1 DEF SwapBooks, Quoted, OracleFresh
<1>10. /\ Gained(o)' = got
       /\ Spent(o)' = i.borrowed - ret
  <2>1. o.vaults["A"] = chain.vaults["A"] /\ o.vaults["B"] = chain.vaults["B"]
        /\ o.integration.borrowed = i.borrowed
    BY <1>1, <1>4 DEF AsOpened, i
  <2>. QED  BY <1>2, <1>3, <1>5, <2>1 DEF Gained, Spent
<1>11. ASSUME i.borrowed - ret > 0
       PROVE  WorthIt(got, i.borrowed - ret, chain.oracle.price)
  <2>1. spent = i.borrowed - ret /\ spent \in Nat \ {0}
    BY <1>3, <1>5, <1>11 DEF SatSub
  <2>2. chain.oracle.price \in Nat
    BY <1>1 DEF Accounts, Feeds
  <2> HIDE DEF spent
  <2>. QED  BY <1>2, <1>3, <2>1, <2>2, AcceptedIsWorth
<1>12. SwapPriced'
  <2>1. Gained(o)' >= 0
    BY <1>3, <1>10
  <2>2. ASSUME Spent(o)' > 0
        PROVE  \E p \in published' :
                 /\ p.slot >= clock'.slot - MaxStaleness
                 /\ WorthIt(Gained(o)', Spent(o)', p.price)
    BY <1>2, <1>9, <1>10, <1>11, <2>2
  <2>. QED  BY <1>8, <2>1, <2>2 DEF SwapPriced, WorthIt
<1>13. (FirstSlot <= clock.slot)' /\ \A c : Quoted(c)' <=> Quoted(c)
  BY <1>2 DEF SwapBooks, Quoted
<1>14. (\A c \in tx.saved : Quoted(c) /\ Covered(c))'
  BY <1>8, <1>13 DEF SwapBooks, Covered
<1>. QED  BY <1>7, <1>12, <1>13, <1>14 DEF SwapBooks, Open, Locked, SwapStarted, Covered

-----------------------------------------------------------------------------
\* A transaction starts with accounts that are covered, and restores them.
LEMMA ScheduleBooks ==
  ASSUME SwapBooks, SwapInv', Schedule, clock' = clock, published' = published
  PROVE  SwapBooks'
<1>1. /\ SwapInv /\ TxOK /\ Last \in Nat /\ tx.pc \in Nat \ {0}
      /\ (Idle <=> Last = 0) /\ FirstSlot <= clock'.slot
      /\ \A c : Quoted(c)' <=> Quoted(c)
  BY TxTypes DEF SwapBooks, SwapInv, Quoted
<1>2. ~Running => ~Open(chain)
  BY <1>1 DEF SwapInv
<1>3. ASSUME Quoted(chain'), ~Open(chain') /\ Covered(chain'), tx'.opened = {},
             \A c \in tx'.saved : Quoted(c) /\ Covered(c)
      PROVE  SwapBooks'
  <2>1. SwapPriced'
    BY <1>3 DEF SwapPriced
  <2>. QED  BY <1>1, <1>3, <2>1
            DEF SwapBooks, Open, Locked, SwapStarted, Covered
<1>4. ASSUME NEW ixs \in IxLists, Begin(ixs) PROVE SwapBooks'
  <2>1. ~Running /\ chain' = chain /\ tx'.saved = {chain} /\ tx'.opened = {}
    BY <1>1, <1>4 DEF Begin, Running, NoTransaction
  <2>. QED  BY <1>2, <1>3, <2>1 DEF SwapBooks
<1>5. CASE ForeignReturns
  <2>1. /\ Running /\ chain' = chain /\ tx'.ixs = tx.ixs
        /\ tx'.pc = tx.pc + 1 /\ Kind(tx.pc) = "Foreign"
        /\ tx'.saved = tx.saved /\ tx'.opened = tx.opened /\ Last' = Last
    BY <1>1, <1>5 DEF ForeignReturns, TxOK, CurrentIsForeign, Last
  <2>2. SwapPriced'
    <3>1. ASSUME tx.opened # {} PROVE Running'
      <4>1. RepayAhead /\ tx.pc # Last
        BY <1>1, <2>1, <3>1 DEF SwapInv, RepayAhead
      <4>. QED  BY <1>1, <2>1, <4>1 DEF RepayAhead, Running
    <3>. QED  BY <2>1, <3>1 DEF SwapPriced, Committing
  <2>. QED  BY <1>1, <2>1, <2>2
            DEF SwapBooks, Open, Locked, SwapStarted, Covered, Lent
<1>6. CASE Commit
  <2>1. ~Running /\ chain' = chain /\ tx'.saved = {} /\ tx'.opened = {}
    BY <1>6 DEF Commit, Committing, NoTransaction
  <2>. QED  BY <1>2, <1>3, <2>1 DEF SwapBooks
<1>7. CASE Abort
  <2>1. chain' \in tx.saved /\ tx'.saved = {} /\ tx'.opened = {}
    BY <1>7 DEF Abort, NoTransaction
  <2>2. ~Open(chain')
    BY <1>1, <2>1 DEF TxOK, CleanAccounts
  <2>. QED  BY <1>3, <2>1, <2>2 DEF SwapBooks
<1>. QED  BY <1>4, <1>5, <1>6, <1>7 DEF Schedule

\* What the feed has published stays published.
LEMMA NextBlockBooks ==
  ASSUME SwapBooks, SwapInv', NextBlock
  PROVE  SwapBooks'
<1>1. /\ tx = NoTransaction /\ tx' = tx /\ chain' = chain
      /\ clock'.slot = clock.slot + 1 /\ clock.slot \in Nat
      /\ published \subseteq published' /\ FirstSlot \in Nat
  BY AtomicSwapAssumption
     DEF NextBlock, SwapBooks, SwapInv, TxOK, Clocks
<1>2. Quoted(chain)' /\ (FirstSlot <= clock.slot)'
  BY <1>1 DEF SwapBooks, Quoted
<1>3. SwapPriced' /\ tx'.saved = {}
  BY <1>1 DEF SwapPriced, NoTransaction
<1>. QED  BY <1>1, <1>2, <1>3
          DEF SwapBooks, Open, Locked, SwapStarted, Covered, Lent

LEMMA BooksNext == SwapBooks /\ [Next]_vars => SwapBooks'
<1> SUFFICES ASSUME SwapBooks, [Next]_vars PROVE SwapBooks'
  OBVIOUS
<1>1. SwapInv'
  BY NextStep DEF SwapBooks
<1>2. CASE UNCHANGED vars
  <2>1. clock' = clock /\ chain' = chain /\ tx' = tx /\ published' = published
    BY <1>2 DEF vars
  <2>2. SwapPriced'
    BY <2>1 DEF SwapBooks, SwapPriced, Committing, Idle, Running, Last, Gained,
                Spent, WorthIt
  <2>. QED  BY <1>1, <2>1, <2>2
            DEF SwapBooks, Quoted, Open, Locked, SwapStarted, Covered, Lent
<1>3. CASE Next
  BY <1>1, <1>3, ScheduleBooks, BorrowBooks, RepayBooks, ManageReserveBooks,
     SyncReserveBooks, PushBooks, PullBooks, UnbookedSteps, NextBlockBooks
  DEF Next
<1>. QED  BY <1>2, <1>3

\* Between transactions no loan is out, so that the events are covered.
LEMMA BooksImply ==
  ASSUME SwapBooks
  PROVE  EventsCovered /\ SwapPriced
<1>1. LockIsTransient
  BY InvImplies DEF SwapBooks
<1>. QED  BY <1>1 DEF SwapBooks, EventsCovered, LockIsTransient, Open, Locked,
                      Covered

-----------------------------------------------------------------------------
\* The accounts keep their types at every point of every transaction: no
\* checked addition or subtraction of a handler fails on them.
THEOREM AtomicSwapTypeOK == Spec => []SwapTypeOK
<1>. QED  BY InitHolds, NextStep, InvImplies, PTL DEF Spec

\* However transactions are composed and whatever foreign programs call, the
\* controller is never locked and no swap open between two of them.
THEOREM AtomicSwapLockIsTransient == Spec => []LockIsTransient
<1>. QED  BY InitHolds, NextStep, InvImplies, PTL DEF Spec

\* A transaction with a swap in it leaves the recorded balance of both reserves
\* equal to what their vaults hold.
THEOREM AtomicSwapBalancesSettled == Spec => []BalancesSettled
<1>. QED  BY InitHolds, NextStep, InvImplies, PTL DEF Spec

\* A swap that is repaid finds its integration, both reserves and both vaults
\* as Borrow left them.
THEOREM AtomicSwapIsolated == Spec => SwapIsolated
<1>1. SwapInv /\ [Next]_vars =>
        [tx.pc = Last /\ tx'.pc = Last + 1 =>
           \A o \in tx.opened :
             /\ chain.integration = o.integration
             /\ chain.reserves = o.reserves
             /\ chain.vaults = o.vaults]_vars
  BY LastStep
<1>. QED  BY <1>1, InitHolds, NextStep, PTL DEF Spec, SwapIsolated

\* Between transactions the events of no reserve claim more than its balance,
\* and those of the reserve that a swap pays into add up to it: a swap that
\* returns more than it borrowed is the only way to lose one.
THEOREM AtomicSwapEventsCovered == Spec => []EventsCovered
<1>. QED  BY BooksInit, BooksNext, BooksImply, PTL DEF Spec

\* A transaction that opened a swap and commits has gained, for what it spent,
\* no less than a price published in the last slots and the slippage allow.
THEOREM AtomicSwapPriced == Spec => []SwapPriced
<1>. QED  BY BooksInit, BooksNext, BooksImply, PTL DEF Spec

-----------------------------------------------------------------------------
(***************************************************************************)
(* Each reserve of this module is the component that module Reserve        *)
(* specifies.  The two modules share ReserveState, so that each operator   *)
(* of the component has the same definition here, one instance away.       *)
(***************************************************************************)
LEMMA ComponentFlows ==
  ASSUME NEW token
  PROVE  /\ \A r, c : Component(token)!RefreshRateLimit(r, c) = RefreshRateLimit(r, c)
         /\ \A r, n : Component(token)!UpdateForOutflow(r, n) = UpdateForOutflow(r, n)
         /\ \A r, n : Component(token)!UpdateForInflow(r, n) = UpdateForInflow(r, n)
<1>1. \A r, c : Component(token)!RefreshRateLimit(r, c) = RefreshRateLimit(r, c)
  BY DEF Component!RefreshRateLimit, RefreshRateLimit, Component!Accrues, Accrues,
         Component!Increment, Increment, Component!Remainder, Remainder,
         Component!Accrued, Accrued, Component!SatAdd, SatAdd,
         Component!Least, Least
<1>2. \A r, n : Component(token)!UpdateForOutflow(r, n) = UpdateForOutflow(r, n)
  BY DEF Component!UpdateForOutflow, UpdateForOutflow, Component!DebitRateLimit,
         DebitRateLimit, Component!SatSub, SatSub
<1>3. \A r, n : Component(token)!UpdateForInflow(r, n) = UpdateForInflow(r, n)
  BY DEF Component!UpdateForInflow, UpdateForInflow, Component!CreditRateLimit,
         CreditRateLimit, Component!SatAdd, SatAdd, Component!Least, Least
<1>. QED  BY <1>1, <1>2, <1>3

LEMMA ComponentOperators ==
  ASSUME NEW token
  PROVE  /\ \A r, v, c : Component(token)!SyncBalance(r, v, c) = SyncBalance(r, v, c)
         /\ \A r, v : Component(token)!SyncEvent(r, v) = SyncEvent(r, v)
         /\ \A r, n : Component(token)!WithinRateLimit(r, n) <=> WithinRateLimit(r, n)
         /\ \A r, status, c : Component(token)!UpdateReserve(r, status, {}, {}, c)
                                = UpdateReserve(r, status, {}, {}, c)
         /\ Component(token)!Synced = Sync(token)
<1>1. \A r, v, c : Component(token)!SyncBalance(r, v, c) = SyncBalance(r, v, c)
  BY ComponentFlows DEF Component!SyncBalance, SyncBalance
<1>2. \A o, d : Component(token)!OrElse(o, d) = OrElse(o, d)
  BY DEF Component!OrElse, OrElse
<1>3. \A r, status, c : Component(token)!UpdateReserve(r, status, {}, {}, c)
                          = UpdateReserve(r, status, {}, {}, c)
  BY <1>2, ComponentFlows DEF Component!UpdateReserve, UpdateReserve
<1>4. Component(token)!Synced = Sync(token)
  BY <1>1 DEF Component!Synced, Sync
<1>. QED
  BY <1>1, <1>3, <1>4 DEF Component!SyncEvent, SyncEvent, Component!WithinRateLimit,
                    WithinRateLimit

\* A reserve, as the lemmas on its operations need it.
LEMMA TokenNumbers ==
  ASSUME SwapInv, NEW token \in Tokens
  PROVE  /\ chain.reserves[token] \in Reserves /\ Within(chain.reserves[token])
         /\ chain.reserves[token].status # "Uninitialized"
         /\ chain.reserves[token].lastBalance \in Int
         /\ chain.vaults[token] \in Int
         /\ chain.vaults[token] >= 0 /\ chain.vaults[token] <= Supply
         /\ Supply \in Nat
<1>1. /\ chain.reserves[token] \in Reserves /\ Within(chain.reserves[token])
      /\ chain.reserves[token].status # "Uninitialized"
  BY DEF SwapInv, WellFormed, Accounts
<1>. QED  BY <1>1, SyncFacts DEF Reserves, U64

\* The reserve is only synced.
LEMMA TokenSyncs ==
  ASSUME SwapInv, NEW token \in Tokens, chain'.reserves[token] = Sync(token),
         chain'.vaults[token] = chain.vaults[token], clock' = clock
  PROVE  Component(token)!Next
<1>1. Sync(token).lastBalance = chain.vaults[token]
  BY SyncFacts
<1>2. chain'.reserves[token].lastBalance = chain.reserves[token].lastBalance
          + SyncEvent(chain.reserves[token], chain.vaults[token])
  BY <1>1, TokenNumbers DEF SyncEvent
<1>3. Component(token)!Initialized
  BY TokenNumbers DEF Component!Initialized
<1>4. Component(token)!SyncReserve
  BY <1>2, <1>3, ComponentOperators DEF Component!SyncReserve
<1>. QED  BY <1>4 DEF Component!Next

\* The vault pays.
LEMMA TokenPays ==
  ASSUME SwapInv, NEW token \in Tokens, NEW amount \in Nat \ {0},
         chain.reserves[token].status = "Active", amount <= chain.vaults[token],
         WithinRateLimit(Sync(token), amount),
         chain'.reserves[token] = UpdateForOutflow(Sync(token), amount),
         chain'.vaults[token] = chain.vaults[token] - amount, clock' = clock
  PROVE  Component(token)!Next
<1>1. amount \in 1 .. Supply
  BY TokenNumbers
<1>2. UpdateForOutflow(Sync(token), amount).lastBalance = chain.vaults[token] - amount
  BY SyncFacts, FlowFacts
<1>3. chain'.reserves[token].lastBalance = chain.reserves[token].lastBalance
          + SyncEvent(chain.reserves[token], chain.vaults[token]) - amount
  BY <1>2, TokenNumbers DEF SyncEvent
<1>4. Component(token)!Push(amount)
  BY <1>3, ComponentFlows, ComponentOperators DEF Component!Push
<1>. QED  BY <1>1, <1>4 DEF Component!Next

\* The vault receives.
LEMMA TokenReceives ==
  ASSUME SwapInv, NEW token \in Tokens, NEW amount \in Nat \ {0},
         chain.reserves[token].status = "Active",
         chain.vaults[token] + amount <= Supply,
         chain'.reserves[token] = UpdateForInflow(Sync(token), amount),
         chain'.vaults[token] = chain.vaults[token] + amount, clock' = clock
  PROVE  Component(token)!Next
<1>1. amount \in 1 .. Supply
  BY TokenNumbers
<1>2. Sync(token).lastBalance + amount <= U64Max
  BY SyncFacts
<1>3. UpdateForInflow(Sync(token), amount).lastBalance = chain.vaults[token] + amount
  BY <1>2, SyncFacts, FlowFacts
<1>4. chain'.reserves[token].lastBalance = chain.reserves[token].lastBalance
          + SyncEvent(chain.reserves[token], chain.vaults[token]) + amount
  BY <1>3, TokenNumbers DEF SyncEvent
<1>5. Component(token)!Pull(amount)
  BY <1>4, ComponentFlows, ComponentOperators DEF Component!Pull, Component!Receive
<1>. QED  BY <1>1, <1>5 DEF Component!Next

-----------------------------------------------------------------------------
\* Repay neither refreshes nor syncs: it need not, since Borrow did both at the
\* same time and with the vaults as they are.
LEMMA AlreadySynced ==
  ASSUME SwapInv, NEW token \in Tokens, Fresh(chain.reserves[token], clock),
         chain.reserves[token].lastBalance = chain.vaults[token]
  PROVE  Sync(token) = chain.reserves[token]
<1> DEFINE r == chain.reserves[token]
           f == RefreshRateLimit(r, clock)
<1>1. r \in Reserves /\ r.lastBalance \in Int /\ r.avail \in Nat
  BY TokenNumbers DEF Reserves, U64
<1>2. r.ts = clock.ts /\ r.slot = clock.slot
  BY DEF Fresh
<1> HIDE DEF r
<1>3. f = [r EXCEPT !.ts = clock.ts, !.slot = clock.slot]
  BY <1>2 DEF RefreshRateLimit, Accrues
<1>4. f = r
  BY <1>1, <1>2, <1>3 DEF Reserves
<1> HIDE DEF f
<1>5. SatSub(r.avail, 0) = r.avail /\ r.lastBalance - 0 = r.lastBalance
  BY <1>1 DEF SatSub
<1>6. UpdateForOutflow(r, 0) = r
  BY <1>1, <1>5 DEF UpdateForOutflow, DebitRateLimit, Reserves
<1>7. Sync(token) = UpdateForOutflow(f, 0)
  BY <1>1 DEF Sync, SyncBalance, r, f
<1>. QED  BY <1>4, <1>6, <1>7 DEF r

LEMMA NoInflow ==
  ASSUME NEW r \in Reserves, r.avail <= r.max
  PROVE  UpdateForInflow(r, 0) = r
<1>1. r.avail \in U64 /\ r.max \in U64 /\ r.lastBalance \in U64
  BY DEF Reserves
<1>2. Least(r.max, SatAdd(r.avail, 0)) = r.avail /\ r.lastBalance + 0 = r.lastBalance
  BY <1>1 DEF Least, SatAdd, U64
<1>3. UpdateForInflow(r, 0) = [r EXCEPT !.avail = r.avail, !.lastBalance = r.lastBalance]
  BY <1>2 DEF UpdateForInflow, CreditRateLimit, Reserves
<1>. QED  BY <1>3 DEF Reserves

\* What a swap has opened, it has opened with Active reserves.
OpenedActive ==
  \A o \in tx.opened : \A token \in Tokens : o.reserves[token].status = "Active"

LEMMA FlowStatus ==
  ASSUME SwapInv, NEW token \in Tokens
  PROVE  /\ Sync(token).status = chain.reserves[token].status
         /\ \A n : UpdateForOutflow(Sync(token), n).status
                     = chain.reserves[token].status
<1>1. /\ chain.reserves[token] \in Reserves /\ Within(chain.reserves[token])
      /\ chain.vaults[token] \in U64 /\ clock \in Clocks
  BY TokenNumbers, SyncFacts DEF SwapInv, U64
<1>2. Sync(token) \in Reserves /\ Sync(token).status = chain.reserves[token].status
  BY <1>1, SyncKeeps DEF Sync, Within
<1>. QED  BY <1>2 DEF UpdateForOutflow, DebitRateLimit, Reserves

LEMMA OpenedInit == Init => OpenedActive
BY DEF Init, NoTransaction, OpenedActive

LEMMA OpenedBorrow ==
  ASSUME SwapInv, NEW amount \in Amounts, NEW fee \in Fees, Borrow(amount, fee)
  PROVE  OpenedActive'
<1>1. chain \in Accounts
  BY DEF SwapInv, WellFormed
<1>2. /\ \A token \in Tokens : chain.reserves[token].status = "Active"
      /\ chain'.reserves = [A |-> UpdateForOutflow(Sync("A"), amount), B |-> Sync("B")]
      /\ tx' = [Stepped EXCEPT !.opened = {chain'}]
  BY <1>1 DEF Borrow, Accounts
<1>3. \A token \in Tokens : chain'.reserves[token].status = "Active"
  BY <1>2, FlowStatus DEF Tokens
<1>4. tx'.opened = {chain'}
  BY <1>2 DEF Stepped, SwapInv, TxOK
<1>. QED  BY <1>3, <1>4 DEF OpenedActive

LEMMA OpenedNext ==
  ASSUME SwapInv, OpenedActive, [Next]_vars
  PROVE  OpenedActive'
<1>1. ASSUME NEW amount \in Amounts, NEW fee \in Fees, Borrow(amount, fee)
      PROVE  OpenedActive'
  BY <1>1, OpenedBorrow
<1>2. CASE tx' = Stepped
  <2>1. tx'.opened = tx.opened
    BY <1>2 DEF Stepped, SwapInv, TxOK
  <2>. QED  BY <2>1 DEF OpenedActive
<1>3. CASE Schedule
  <2>1. ForeignReturns => tx'.opened = tx.opened
    BY DEF ForeignReturns, SwapInv, TxOK
  <2>2. ~ForeignReturns => tx'.opened = {}
    <3>1. NoTransaction.opened = {}
      BY DEF NoTransaction
    <3>2. \A ixs \in IxLists : Begin(ixs) => tx'.opened = {}
      BY DEF Begin, NoTransaction
    <3>3. Commit \/ Abort => tx'.opened = {}
      BY <3>1 DEF Commit, Abort
    <3>. QED  BY <1>3, <3>2, <3>3 DEF Schedule
  <2>3. tx'.opened \in {{}, tx.opened}
    BY <2>1, <2>2
  <2>. QED  BY <2>3 DEF OpenedActive
<1>4. CASE tx' = tx
  BY <1>4 DEF OpenedActive
<1>. QED
  BY <1>1, <1>2, <1>3, <1>4
     DEF Next, Repay, ManageController, ManageReserve, ManageIntegration,
         SyncReserve, Push, Pull, RefreshOracle, ForeignTransfer, NextBlock,
         Instruction, vars

-----------------------------------------------------------------------------
\* What each reserve sees of a step.
Seen ==
  \A token \in Tokens :
    \/ Component(token)!Next
    \/ UNCHANGED <<chain.reserves[token], chain.vaults[token]>>

LEMMA SeenBorrow ==
  ASSUME SwapInv, NEW amount \in Amounts, NEW fee \in Fees, Borrow(amount, fee)
  PROVE  Seen
<1>1. chain \in Accounts /\ amount \in Nat \ {0} /\ "A" \in Tokens /\ "B" \in Tokens
  BY AtomicSwapAssumption DEF SwapInv, WellFormed, Tokens
<1>2. /\ \A token \in Tokens : chain.reserves[token].status = "Active"
      /\ amount <= chain.vaults["A"] /\ WithinRateLimit(Sync("A"), amount)
      /\ clock' = clock
  BY DEF Borrow, Lendable
<1>3. /\ chain'.reserves["A"] = UpdateForOutflow(Sync("A"), amount)
      /\ chain'.reserves["B"] = Sync("B")
      /\ chain'.vaults["A"] = chain.vaults["A"] - amount
      /\ chain'.vaults["B"] = chain.vaults["B"]
  BY <1>1 DEF Borrow, Accounts
<1>4. Component("A")!Next
  BY <1>1, <1>2, <1>3, TokenPays
<1>5. Component("B")!Next
  BY <1>1, <1>2, <1>3, TokenSyncs
<1>. QED  BY <1>4, <1>5 DEF Seen, Tokens

\* Each reserve sees its half of Repay as a Pull of what came back.
LEMMA RepayToken ==
  ASSUME SwapInv, OpenedActive, NEW token \in Tokens, NEW got \in Nat,
         Fresh(chain.reserves[token], clock),
         \E o \in tx.opened : AsOpened(o) /\ chain.vaults[token] = o.vaults[token],
         chain.vaults[token] + got <= Supply,
         chain'.reserves[token] = UpdateForInflow(chain.reserves[token], got),
         chain'.vaults[token] = chain.vaults[token] + got, clock' = clock
  PROVE  Component(token)!Next \/ UNCHANGED <<chain.reserves[token], chain.vaults[token]>>
<1>1. PICK o \in tx.opened : AsOpened(o) /\ chain.vaults[token] = o.vaults[token]
  OBVIOUS
<1>2. /\ chain.reserves[token].status = "Active"
      /\ chain.reserves[token].lastBalance = chain.vaults[token]
  BY <1>1 DEF OpenedActive, AsOpened
<1>3. Sync(token) = chain.reserves[token]
  BY <1>2, AlreadySynced
<1>4. CASE got = 0
  <2>1. UpdateForInflow(chain.reserves[token], 0) = chain.reserves[token]
    BY TokenNumbers, NoInflow DEF Within
  <2>2. chain.vaults[token] + 0 = chain.vaults[token]
    BY TokenNumbers
  <2>. QED  BY <1>4, <2>1, <2>2
<1>5. CASE got # 0
  BY <1>2, <1>3, <1>5, TokenReceives
<1>. QED  BY <1>4, <1>5

LEMMA SeenRepay ==
  ASSUME SwapInv, OpenedActive, NEW feeA \in Fees, NEW feeB \in Fees,
         Repay(feeA, feeB)
  PROVE  Seen
<1> DEFINE ret == Received(Excess, feeA)
           got == Received(Bought, feeB)
<1>1. /\ ret \in Nat /\ got \in Nat /\ "A" \in Tokens /\ "B" \in Tokens
      /\ \A token \in Tokens :
           \E o \in tx.opened : AsOpened(o) /\ chain.vaults[token] = o.vaults[token]
  BY RepayFacts DEF Tokens
<1>2. chain \in Accounts
  BY DEF SwapInv, WellFormed
<1>3. /\ Fresh(chain.reserves["A"], clock) /\ Fresh(chain.reserves["B"], clock)
      /\ chain.vaults["A"] + ret <= Supply /\ chain.vaults["B"] + got <= Supply
      /\ clock' = clock
  BY DEF Repay
<1>4. /\ chain'.reserves["A"] = UpdateForInflow(chain.reserves["A"], ret)
      /\ chain'.reserves["B"] = UpdateForInflow(chain.reserves["B"], got)
      /\ chain'.vaults["A"] = chain.vaults["A"] + ret
      /\ chain'.vaults["B"] = chain.vaults["B"] + got
  BY <1>2 DEF Repay, Accounts
<1> HIDE DEF ret, got
<1>5. Component("A")!Next \/ UNCHANGED <<chain.reserves["A"], chain.vaults["A"]>>
  BY <1>1, <1>3, <1>4, RepayToken
<1>6. Component("B")!Next \/ UNCHANGED <<chain.reserves["B"], chain.vaults["B"]>>
  BY <1>1, <1>3, <1>4, RepayToken
<1>. QED  BY <1>5, <1>6 DEF Seen, Tokens

\* The other instructions see to one reserve and its vault.
LEMMA SeenOne ==
  ASSUME SwapInv, NEW token \in Tokens, NEW r, NEW v, NEW l,
         chain' = [chain EXCEPT !.reserves[token] = r, !.vaults[token] = v,
                                !.ledger[token] = l]
  PROVE  /\ chain'.reserves[token] = r /\ chain'.vaults[token] = v
         /\ Component(token)!Next => Seen
<1>1. chain \in Accounts
  BY DEF SwapInv, WellFormed
<1>2. /\ chain'.reserves = [chain.reserves EXCEPT ![token] = r]
      /\ chain'.vaults = [chain.vaults EXCEPT ![token] = v]
  BY <1>1 DEF Accounts
<1>3. /\ chain'.reserves[token] = r /\ chain'.vaults[token] = v
      /\ \A t \in Tokens \ {token} : /\ chain'.reserves[t] = chain.reserves[t]
                                     /\ chain'.vaults[t] = chain.vaults[t]
  BY <1>1, <1>2 DEF Accounts
<1>. QED  BY <1>3 DEF Seen

LEMMA SeenManageReserve ==
  ASSUME SwapInv, NEW token \in Tokens, NEW status \in ReserveStatus,
         ManageReserve(token, status)
  PROVE  Seen
<1> DEFINE r == UpdateReserve(chain.reserves[token], {status}, {}, {}, clock)
<1>1. chain \in Accounts /\ clock' = clock
  BY DEF SwapInv, WellFormed, ManageReserve, Instruction
<1>2. chain' = [chain EXCEPT !.reserves[token] = r,
                             !.vaults[token] = chain.vaults[token],
                             !.ledger[token] = chain.ledger[token]]
  BY <1>1 DEF ManageReserve, Instruction, Accounts
<1>3. r.lastBalance = chain.reserves[token].lastBalance
  BY TokenNumbers, UpdateRecords
<1> HIDE DEF r
<1>4. /\ chain'.reserves[token] = r /\ chain'.vaults[token] = chain.vaults[token]
      /\ Component(token)!Next => Seen
  BY <1>2, SeenOne
<1>5. Component(token)!Next
  <2>1. /\ {status} \in Component(token)!Option(Component(token)!ReserveStatus)
        /\ {} \in Component(token)!Option(U64)
    BY DEF Component!Option, Component!ReserveStatus, ReserveStatus
  <2>2. Component(token)!Initialized
    BY TokenNumbers DEF Component!Initialized
  <2>3. Component(token)!ManageReserve({status}, {}, {})
    BY <1>1, <1>3, <1>4, <2>2, ComponentOperators DEF Component!ManageReserve, r
  <2>. QED  BY <2>1, <2>3 DEF Component!Next
<1>. QED  BY <1>4, <1>5

LEMMA SeenSync ==
  ASSUME SwapInv, NEW token \in Tokens, SyncReserve(token)
  PROVE  Seen
<1>1. chain \in Accounts /\ clock' = clock
  BY DEF SwapInv, WellFormed, SyncReserve, Instruction
<1>2. chain' = [chain EXCEPT !.reserves[token] = Sync(token),
                             !.vaults[token] = chain.vaults[token],
                             !.ledger[token] = SyncLedger(token)]
  BY <1>1 DEF SyncReserve, Instruction, Accounts
<1>3. /\ chain'.reserves[token] = Sync(token)
      /\ chain'.vaults[token] = chain.vaults[token]
      /\ Component(token)!Next => Seen
  BY <1>2, SeenOne
<1>. QED  BY <1>1, <1>3, TokenSyncs

LEMMA SeenPush ==
  ASSUME SwapInv, NEW token \in Tokens, NEW amount \in Amounts, Push(token, amount)
  PROVE  Seen
<1> DEFINE r == UpdateForOutflow(Sync(token), amount)
           v == chain.vaults[token] - amount
           l == SyncLedger(token) - amount
<1>1. chain \in Accounts /\ clock' = clock /\ amount \in Nat \ {0}
  BY AtomicSwapAssumption DEF SwapInv, WellFormed, Push, Instruction
<1>2. chain' = [chain EXCEPT !.reserves[token] = r, !.vaults[token] = v,
                             !.ledger[token] = l]
  BY <1>1 DEF Push, Instruction, Accounts
<1>3. /\ chain.reserves[token].status = "Active" /\ amount <= chain.vaults[token]
      /\ WithinRateLimit(Sync(token), amount)
  BY DEF Push
<1> HIDE DEF r, v, l
<1>4. /\ chain'.reserves[token] = r /\ chain'.vaults[token] = v
      /\ Component(token)!Next => Seen
  BY <1>2, SeenOne
<1>. QED  BY <1>1, <1>3, <1>4, TokenPays DEF r, v

LEMMA SeenPull ==
  ASSUME SwapInv, NEW token \in Tokens, NEW amount \in Amounts, Pull(token, amount)
  PROVE  Seen
<1> DEFINE r == UpdateForInflow(Sync(token), amount)
           v == chain.vaults[token] + amount
           l == SyncLedger(token) + amount
<1>1. chain \in Accounts /\ clock' = clock /\ amount \in Nat \ {0}
  BY AtomicSwapAssumption DEF SwapInv, WellFormed, Pull, Instruction
<1>2. chain' = [chain EXCEPT !.reserves[token] = r, !.vaults[token] = v,
                             !.ledger[token] = l]
  BY <1>1 DEF Pull, Instruction, Accounts
<1>3. chain.reserves[token].status = "Active" /\ chain.vaults[token] + amount <= Supply
  BY DEF Pull
<1> HIDE DEF r, v, l
<1>4. /\ chain'.reserves[token] = r /\ chain'.vaults[token] = v
      /\ Component(token)!Next => Seen
  BY <1>2, SeenOne
<1>. QED  BY <1>1, <1>3, <1>4, TokenReceives DEF r, v

LEMMA SeenTransfer ==
  ASSUME SwapInv, NEW holder \in {"wallet", "vaults"}, NEW token \in Tokens,
         NEW amount \in Amounts, ForeignTransfer(holder, token, amount)
  PROVE  Seen
<1>1. chain \in Accounts /\ clock' = clock /\ amount \in Nat \ {0}
  BY AtomicSwapAssumption DEF SwapInv, WellFormed, ForeignTransfer
<1>2. CASE holder = "wallet"
  <2>1. chain'.reserves = chain.reserves /\ chain'.vaults = chain.vaults
    BY <1>1, <1>2 DEF ForeignTransfer, Accounts
  <2>. QED  BY <2>1 DEF Seen
<1>3. CASE holder = "vaults"
  <2>1. /\ chain'.reserves = chain.reserves
        /\ \/ /\ chain.vaults[token] + amount <= Supply
              /\ chain'.vaults = [chain.vaults EXCEPT ![token] = @ + amount]
           \/ /\ amount <= chain.vaults[token]
              /\ chain'.vaults = [chain.vaults EXCEPT ![token] = @ - amount]
    BY <1>1, <1>3 DEF ForeignTransfer, Accounts
  <2>2. \/ /\ chain.vaults[token] + amount <= Supply
           /\ chain'.vaults[token] = chain.vaults[token] + amount
        \/ /\ amount <= chain.vaults[token]
           /\ chain'.vaults[token] = chain.vaults[token] - amount
    BY <1>1, <2>1 DEF Accounts
  <2>3. \A t \in Tokens \ {token} : chain'.vaults[t] = chain.vaults[t]
    BY <1>1, <2>1 DEF Accounts
  <2>4. amount \in 1 .. Supply
    BY <1>1, <2>2, TokenNumbers
  <2>5. Component(token)!Deposit(amount) \/ Component(token)!Seize(amount)
    BY <1>1, <2>1, <2>2 DEF Component!Deposit, Component!Seize
  <2>6. Component(token)!Next
    BY <2>4, <2>5 DEF Component!Next
  <2>. QED  BY <2>1, <2>3, <2>6 DEF Seen
<1>. QED  BY <1>2, <1>3

\* What touches no reserve.
LEMMA SeenRests ==
  ASSUME SwapInv,
         \/ \E status \in ControllerStatus : ManageController(status)
         \/ \E status \in {"Active", "Suspended"}, max \in Amounts :
              ManageIntegration(status, max)
         \/ RefreshOracle
         \/ NextBlock
         \/ UNCHANGED vars
  PROVE  Seen
<1>1. chain \in Accounts
  BY DEF SwapInv, WellFormed
<1>2. chain'.reserves = chain.reserves /\ chain'.vaults = chain.vaults
  BY <1>1 DEF ManageController, ManageIntegration, RefreshOracle, NextBlock,
              Instruction, vars, Accounts
<1>. QED  BY <1>2 DEF Seen

LEMMA SeenNext ==
  ASSUME SwapInv, OpenedActive, [Next]_vars
  PROVE  RolledBack \/ Seen
<1>1. CASE Schedule
  <2>1. RolledBack \/ chain' = chain
    BY <1>1 DEF Schedule, Begin, ForeignReturns, Commit, Abort, RolledBack
  <2>. QED  BY <2>1 DEF Seen
<1>. QED
  BY <1>1, SeenBorrow, SeenRepay, SeenManageReserve, SeenSync, SeenPush, SeenPull,
     SeenTransfer, SeenRests DEF Next

\* Foreign programs may call what they like between the halves of a swap: each
\* instruction does to each reserve what an operation of module Reserve does.
THEOREM AtomicSwapReservesAreComponents == Spec => ReservesAreComponents
<1>1. SwapInv /\ OpenedActive /\ [Next]_vars
        => [\/ RolledBack
            \/ \A token \in Tokens :
                 \/ Component(token)!Next
                 \/ UNCHANGED <<chain.reserves[token], chain.vaults[token]>>]_vars
  BY SeenNext DEF Seen
<1>2. Spec => [](SwapInv /\ OpenedActive)
  BY InitHolds, NextStep, OpenedInit, OpenedNext, PTL DEF Spec
<1>. QED  BY <1>1, <1>2, PTL DEF Spec, ReservesAreComponents
-----------------------------------------------------------------------------
\* The account of the integration as a limit with a level.
LEMMA IntegrationIsLimit ==
  ASSUME SwapInv
  PROVE  /\ IsLimit(chain.integration) /\ chain.integration \in Integrations
         /\ clock \in Clocks /\ clock.ts \in Nat
         /\ chain.integration.ts <= clock.ts /\ chain.integration.max \in U64
<1>1. /\ chain.integration \in Integrations /\ Within(chain.integration)
      /\ clock \in Clocks
  BY DEF SwapInv, WellFormed, Accounts
<1>. QED  BY <1>1 DEF IsLimit, LimitFields, Integrations, Within, Clocks

\* A step that saves another account with the same level of the same limit.
LEMMA BucketRests ==
  ASSUME SwapInv, clock' = clock,
         SwapStarted(chain'.integration) <=> SwapStarted(chain.integration),
         chain'.integration.max = chain.integration.max,
         chain'.integration.slope = chain.integration.slope,
         LevelAt(chain'.integration, clock') = LevelAt(chain.integration, clock)
  PROVE  SwapBucketStep
<1>1. clock'.ts - clock.ts = 0
  BY IntegrationIsLimit
<1>2. Bucket!Elapse(clock'.ts - clock.ts)
  BY <1>1 DEF Bucket!Elapse
<1>. QED  BY <1>2 DEF SwapBucketStep, SwapStarted

\* A swap that opens or ends saves an account whose level has moved by what
\* left the vault or came back to it.
LEMMA BucketMoves ==
  ASSUME SwapInv, clock' = clock, NEW p, NEW q, chain'.integration = q,
         SwapStarted(q) <=> ~SwapStarted(chain.integration),
         SameLimit(p, q), p.ts = clock.ts,
         p.max = chain.integration.max, p.slope = chain.integration.slope,
         NEW out \in Nat, NEW back \in Nat, out = 0 \/ back = 0,
         chain.vaults["A"] \in Nat,
         chain'.vaults["A"] = chain.vaults["A"] - out + back,
         MovedTo(LevelAt(chain.integration, clock), chain.integration.max, 0, 0,
                 out, back, Level(p))
  PROVE  SwapBucketStep
<1>1. LevelAt(chain'.integration, clock') = Level(p)
  <2>1. Level(q) = Level(p) /\ q.ts = clock'.ts
    BY SameLevel DEF SameLimit
  <2>. QED  BY <2>1, LevelWhenFresh
<1>2. /\ chain'.integration.max = chain.integration.max
      /\ chain'.integration.slope = chain.integration.slope
  BY DEF SameLimit
<1>3. Bucket!Move(0, 0, out, back)
  BY <1>1, <1>2
     DEF Bucket!Move, Bucket!Fill, Bucket!Drain, Bucket!Units, Bucket!Fraction,
         Bucket!Lower, MovedTo, Filled, Drained, Least
<1>4. /\ SatSub(chain.vaults["A"], chain'.vaults["A"]) = out
      /\ SatSub(chain'.vaults["A"], chain.vaults["A"]) = back
  BY DEF SatSub
<1>5. SwapStarted(chain.integration) # SwapStarted(chain'.integration)
  BY DEF SwapStarted
<1>. QED  BY <1>3, <1>4, <1>5 DEF SwapBucketStep

\* Borrow refreshes, records what it found, and debits what it lends.
LEMMA BucketBorrows ==
  ASSUME SwapInv, NEW amount \in Amounts, NEW fee \in Fees, Borrow(amount, fee)
  PROVE  SwapBucketStep
<1> DEFINE i == RefreshRateLimit(chain.integration, clock)
           o == [i EXCEPT !.lastA = chain.vaults["A"],
                          !.lastB = chain.vaults["B"], !.borrowed = amount,
                          !.preA = chain.wallet["A"],
                          !.preB = chain.wallet["B"]]
           p == DebitRateLimit(i, amount)
           q == DebitRateLimit(o, amount)
<1>1. /\ chain \in Accounts /\ amount \in Nat \ {0} /\ "A" \in Tokens
      /\ chain.vaults["A"] \in Nat
  BY AtomicSwapAssumption DEF SwapInv, WellFormed, Accounts, Tokens
<1>2. /\ ~SwapStarted(i) /\ WithinRateLimit(i, amount) /\ clock' = clock
  BY DEF Borrow, Lendable
<1>3. /\ chain'.integration = q
      /\ chain'.vaults["A"] = chain.vaults["A"] - amount
  BY <1>1 DEF Borrow, Accounts
<1>4. /\ i \in Integrations /\ i.borrowed = chain.integration.borrowed
      /\ IsLimit(i) /\ i.max = chain.integration.max
      /\ i.slope = chain.integration.slope /\ i.ts = clock.ts
      /\ Level(i) = Drained(Filled(LevelAt(chain.integration, clock),
                                   chain.integration.max, 0), 0)
  <2>1. Within(chain.integration)
    BY DEF SwapInv, WellFormed
  <2>. QED  BY <2>1, IntegrationIsLimit, RefreshIntegration, RefreshedLevel
<1> HIDE DEF i
<1>5. MovedTo(LevelAt(chain.integration, clock), chain.integration.max, 0, 0,
              amount, 0, Level(p))
  BY <1>1, <1>2, <1>4, PaymentMoves
<1>6. p.max = i.max /\ p.slope = i.slope /\ p.ts = i.ts
  BY <1>1, <1>4, LevelOfDebit
<1>7. SameLimit(p, q) /\ q.borrowed = amount
  BY <1>4 DEF SameLimit, DebitRateLimit, Integrations
<1>8. SwapStarted(q) /\ ~SwapStarted(chain.integration)
  BY <1>1, <1>2, <1>4, <1>7 DEF SwapStarted
<1>9. chain'.vaults["A"] = chain.vaults["A"] - amount + 0
  BY <1>1, <1>3
<1> HIDE DEF p, q
<1>. QED  BY <1>1, <1>2, <1>3, <1>4, <1>5, <1>6, <1>7, <1>8, <1>9, BucketMoves

\* Repay credits what comes back without a refresh: it asks that there was one.
LEMMA BucketRepays ==
  ASSUME SwapInv, NEW feeA \in Fees, NEW feeB \in Fees, Repay(feeA, feeB)
  PROVE  SwapBucketStep
<1> DEFINE i == chain.integration
           ret == Received(Excess, feeA)
           p == CreditRateLimit(i, ret)
           q == SwapReset(p)
<1>1. /\ chain \in Accounts /\ ret \in Nat /\ "A" \in Tokens
      /\ chain.vaults["A"] \in Nat
  BY RepayFacts DEF SwapInv, WellFormed, Accounts, Tokens
<1>2. /\ SwapStarted(i) /\ i.ts = clock.ts /\ clock' = clock
  BY DEF Repay, Fresh
<1>3. /\ chain'.integration = q
      /\ chain'.vaults["A"] = chain.vaults["A"] - 0 + ret
  BY <1>1 DEF Repay, Accounts
<1>4. /\ IsLimit(i) /\ i \in Integrations /\ LevelAt(i, clock) = Level(i)
  BY <1>2, IntegrationIsLimit, LevelWhenFresh
<1>5. Level(i) = Drained(Filled(LevelAt(i, clock), i.max, 0), 0)
  <2>1. /\ LevelAt(i, clock) \in Nat /\ i.max \in Nat
        /\ LevelAt(i, clock) <= SecondsPerDay * i.max
                                  + (LevelAt(i, clock) % SecondsPerDay)
    BY IntegrationIsLimit, LevelAtFacts
  <2>. QED  BY <1>4, <2>1, NothingMoves
<1>6. MovedTo(LevelAt(i, clock), i.max, 0, 0, 0, ret, Level(p))
  BY <1>1, <1>4, <1>5, ReceiptMoves
<1>7. p.max = i.max /\ p.slope = i.slope /\ p.ts = i.ts
  BY <1>1, <1>4, LevelOfCredit
<1>8. SameLimit(p, q) /\ ~SwapStarted(q)
  <2>1. p = [i EXCEPT !.avail = Least(i.max, SatAdd(i.avail, ret))]
    BY <1>4 DEF CreditRateLimit, Integrations
  <2>. QED  BY <1>4, <2>1 DEF SameLimit, SwapReset, SwapStarted, Integrations
<1> HIDE DEF ret, p, q
<1>. QED  BY <1>1, <1>2, <1>3, <1>6, <1>7, <1>8, BucketMoves

\* A new cap resizes the bucket, as the refresh comes first.
LEMMA BucketResizes ==
  ASSUME SwapInv, NEW status \in {"Active", "Suspended"}, NEW max \in Amounts,
         ManageIntegration(status, max)
  PROVE  SwapBucketStep
<1> DEFINE i == chain.integration
           f == RefreshRateLimit(i, clock)
           u == SetMaxOutflow(f, max)
           q == [u EXCEPT !.status = status]
<1>1. chain \in Accounts /\ max \in U64 /\ clock' = clock
  BY AtomicSwapAssumption
     DEF SwapInv, WellFormed, ManageIntegration, Instruction, U64
<1>2. chain'.integration = q
  BY <1>1 DEF ManageIntegration, Instruction, Accounts
<1>3. /\ f \in Integrations /\ f.borrowed = i.borrowed /\ IsLimit(f)
      /\ f.max = i.max /\ f.slope = i.slope /\ f.ts = clock.ts
      /\ Level(f) = LevelAt(i, clock)
  <2>1. Within(i)
    BY DEF SwapInv, WellFormed
  <2>. QED  BY <2>1, IntegrationIsLimit, RefreshIntegration, RefreshedLevel
<1> HIDE DEF f
<1>4. /\ u.slope = i.slope /\ u.max = max /\ u.ts = clock.ts
      /\ Level(u) = Resized(LevelAt(i, clock), i.max, max)
  BY <1>1, <1>3, LevelOfSetMax
<1>5. SameLimit(u, q) /\ q.borrowed = i.borrowed
  BY <1>3 DEF SameLimit, SetMaxOutflow, Integrations
<1>6. SwapStarted(chain'.integration) <=> SwapStarted(i)
  BY <1>2, <1>5 DEF SwapStarted
<1> HIDE DEF u, q
<1>7. /\ q.slope = i.slope /\ q.max = max /\ q.ts = clock.ts
  BY <1>4, <1>5 DEF SameLimit
<1>8. LevelAt(q, clock) = Resized(LevelAt(i, clock), i.max, max)
  <2>1. Level(q) = Level(u)
    BY <1>5, SameLevel
  <2>. QED  BY <1>4, <1>7, <2>1, LevelWhenFresh
<1>9. CASE max = i.max
  <2>1. LevelAt(i, clock) \in Nat /\ SecondsPerDay * i.max \in Nat
    BY IntegrationIsLimit, LevelAtFacts
  <2>2. Resized(LevelAt(i, clock), i.max, max) = LevelAt(i, clock)
    BY <1>9, <2>1 DEF Resized
  <2>. QED  BY <1>1, <1>2, <1>6, <1>7, <1>8, <1>9, <2>2, BucketRests
<1>10. CASE max # i.max
  <2>1. Bucket!Resize(chain'.integration.max, chain'.integration.slope)
    BY <1>1, <1>2, <1>7, <1>8 DEF Bucket!Resize, Bucket!Units, Resized
  <2>. QED  BY <1>2, <1>6, <1>7, <1>10, <2>1 DEF SwapBucketStep, SwapStarted
<1>. QED  BY <1>9, <1>10

LEMMA BucketElapses ==
  ASSUME SwapInv, NextBlock
  PROVE  SwapBucketStep
<1>1. chain' = chain /\ clock'.ts = clock.ts + 1
  BY DEF NextBlock
<1>2. clock'.ts - clock.ts = 1
  BY <1>1, IntegrationIsLimit
<1>3. LevelAt(chain.integration, clock') =
        IF chain.integration.max = U64Max \/ 1 = 0
        THEN LevelAt(chain.integration, clock)
        ELSE Least(LevelAt(chain.integration, clock) + chain.integration.slope * 1,
                   SecondsPerDay * chain.integration.max)
  BY <1>1, IntegrationIsLimit, LevelOfTime
<1>4. Bucket!Elapse(clock'.ts - clock.ts)
  BY <1>1, <1>2, <1>3 DEF Bucket!Elapse, Bucket!Lower, Bucket!Units, Least
<1>. QED  BY <1>1, <1>4 DEF SwapBucketStep

\* No other instruction, nor a foreign program, touches the integration.
LEMMA BucketNext ==
  ASSUME SwapInv, [Next]_vars
  PROVE  RolledBack \/ SwapBucketStep
<1>1. chain \in Accounts
  BY DEF SwapInv, WellFormed
<1>2. ASSUME chain'.integration = chain.integration, clock' = clock
      PROVE  SwapBucketStep
  BY <1>2, BucketRests
<1>3. CASE Schedule /\ UNCHANGED <<clock, published>>
  <2>1. RolledBack \/ chain' = chain
    BY <1>3 DEF Schedule, Begin, ForeignReturns, Commit, Abort, RolledBack
  <2>. QED  BY <1>2, <1>3, <2>1
<1>4. ASSUME NEW status \in ControllerStatus, ManageController(status)
      PROVE  SwapBucketStep
  BY <1>1, <1>2, <1>4 DEF ManageController, Instruction, Accounts
<1>5. ASSUME NEW token \in Tokens, NEW status \in ReserveStatus,
             ManageReserve(token, status)
      PROVE  SwapBucketStep
  BY <1>1, <1>2, <1>5 DEF ManageReserve, Instruction, Accounts
<1>6. ASSUME NEW token \in Tokens, SyncReserve(token)
      PROVE  SwapBucketStep
  BY <1>1, <1>2, <1>6 DEF SyncReserve, Instruction, Accounts
<1>7. ASSUME NEW token \in Tokens, NEW amount \in Amounts,
             Push(token, amount) \/ Pull(token, amount)
      PROVE  SwapBucketStep
  BY <1>1, <1>2, <1>7 DEF Push, Pull, Instruction, Accounts
<1>8. CASE RefreshOracle
  BY <1>1, <1>2, <1>8 DEF RefreshOracle, Instruction, Accounts
<1>9. ASSUME NEW holder \in {"wallet", "vaults"}, NEW token \in Tokens,
             NEW amount \in Amounts, ForeignTransfer(holder, token, amount)
      PROVE  SwapBucketStep
  <2>1. chain'.integration = chain.integration /\ clock' = clock
    BY <1>1, <1>9 DEF ForeignTransfer, Accounts
  <2>. QED  BY <1>2, <2>1
<1>10. CASE UNCHANGED vars
  BY <1>2, <1>10 DEF vars
<1>. QED
  BY <1>3, <1>4, <1>5, <1>6, <1>7, <1>8, <1>9, <1>10, BucketBorrows, BucketRepays,
     BucketResizes, BucketElapses DEF Next

\* The limit of a new integration is full.
LEMMA BucketStarts == Init => Bucket!BucketInit
<1> SUFFICES ASSUME Init PROVE Bucket!BucketInit
  OBVIOUS
<1>1. PICK limit \in Amounts :
        /\ chain.integration =
             [status |-> "Active", slope |-> 1, max |-> limit, avail |-> limit,
              rem |-> 0, ts |-> clock.ts, slot |-> clock.slot, borrowed |-> 0,
              lastA |-> 0, lastB |-> 0, preA |-> 0, preB |-> 0]
  BY DEF Init
<1>2. limit \in U64 /\ 1 \in U64 /\ SecondsPerDay \in Nat \ {0}
  BY AtomicSwapAssumption DEF U64
<1>3. LevelAt(chain.integration, clock) = SecondsPerDay * limit + 0
  BY <1>1, LevelWhenFresh DEF Level
<1>4. SecondsPerDay * limit \in Nat
  BY <1>2 DEF U64
<1>. QED  BY <1>1, <1>2, <1>3, <1>4 DEF Bucket!BucketInit, Bucket!Units

\* Callers inside a transaction, and its abort, take nothing from the limit of
\* a swap and add nothing to it: it is an exact token bucket.
THEOREM AtomicSwapLimitIsBucket == Spec => SwapLimitIsBucket
<1>1. Init => Bucket!BucketInit
  BY BucketStarts
<1>2. SwapInv /\ [Next]_vars => [RolledBack \/ SwapBucketStep]_vars
  BY BucketNext
<1>3. Spec => []SwapInv
  BY InitHolds, NextStep, PTL DEF Spec
<1>. QED  BY <1>1, <1>2, <1>3, PTL DEF Spec, SwapLimitIsBucket
=============================================================================
