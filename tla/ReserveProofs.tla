---------------------------- MODULE ReserveProofs ----------------------------
(***************************************************************************)
(* Proofs about a Reserve, for every value of the constants: its           *)
(* invariants, and that its rate limit implements the token bucket.        *)
(***************************************************************************)
EXTENDS ReserveProps, ReserveStateProofs

USE RateLimitAssumption, ReserveAssumption

-----------------------------------------------------------------------------
\* The account after the leading sync of a handler.
LEMMA SyncedKeeps ==
  ASSUME ReserveInv
  PROVE  /\ Synced \in Reserves
         /\ Synced.avail <= Synced.max
         /\ Synced.lastBalance = vault
         /\ Synced.ts = clock.ts
         /\ Synced.status = reserve.status
<1>1. vault \in U64
  BY DEF ReserveInv, TypeOK, U64
<1>. QED  BY <1>1, SyncKeeps DEF ReserveInv, TypeOK, NeverBricked, Synced

LEMMA InvInit == Init => ReserveInv
<1> SUFFICES ASSUME Init PROVE ReserveInv
  OBVIOUS
<1>1. NoReserve \in Reserves
  BY DEF NoReserve, Reserves, U64
<1>2. vault \in 0 .. Supply
  BY DEF Init, U64
<1>. QED  BY <1>1, <1>2 DEF Init, ReserveInv, TypeOK, NeverBricked,
                          AuditTrailComplete, Initialized, NoReserve, Clocks

LEMMA InvInitializeReserve ==
  ASSUME ReserveInv, NEW status \in ReserveStatus, NEW slope \in Slopes,
         NEW max \in MaxOuts, InitializeReserve(status, slope, max)
  PROVE  ReserveInv'
<1> DEFINE r == InitReserve(status, slope, max, clock)
<1>1. /\ slope \in U64 /\ max \in U64 /\ vault \in U64 /\ clock \in Clocks
      /\ status # "Uninitialized"
  BY DEF ReserveInv, TypeOK, U64, ReserveStatus
<1>2. /\ r \in Reserves /\ r.avail <= r.max /\ r.ts <= clock.ts
      /\ r.lastBalance = 0 /\ r.status = status
  BY <1>1 DEF InitReserve, Reserves, Clocks, U64
<1>3. ledger = 0
  BY DEF ReserveInv, AuditTrailComplete, InitializeReserve, NoReserve
<1>4. /\ reserve' = SyncBalance(r, vault, clock)
      /\ ledger' = vault /\ vault' = vault /\ clock' = clock
  BY <1>1, <1>2, <1>3 DEF InitializeReserve, SyncEvent, U64
<1> HIDE DEF r
<1>5. /\ reserve' \in Reserves /\ reserve'.avail <= reserve'.max
      /\ reserve'.lastBalance = vault /\ reserve'.ts = clock.ts
      /\ reserve'.status = status
  BY <1>1, <1>2, <1>4, SyncKeeps
<1>. QED  BY <1>1, <1>4, <1>5 DEF ReserveInv, TypeOK, NeverBricked,
            AuditTrailComplete, Initialized, Clocks, U64

LEMMA InvManageReserve ==
  ASSUME ReserveInv, NEW status \in Option(ReserveStatus),
         NEW slope \in Option(Slopes), NEW max \in Option(MaxOuts),
         ManageReserve(status, slope, max)
  PROVE  ReserveInv'
<1>1. slope \in Option(U64) /\ max \in Option(U64)
  BY DEF Option
<1>2. /\ reserve' \in Reserves /\ reserve'.avail <= reserve'.max
      /\ reserve'.ts = clock.ts /\ reserve'.lastBalance = reserve.lastBalance
      /\ reserve'.status # "Uninitialized"
  BY <1>1, UpdateKeeps DEF ReserveInv, TypeOK, NeverBricked, ManageReserve,
     Initialized
<1>. QED  BY <1>2 DEF ReserveInv, TypeOK, NeverBricked, AuditTrailComplete,
            ManageReserve, Initialized, Clocks

LEMMA InvSyncReserve ==
  ASSUME ReserveInv, SyncReserve
  PROVE  ReserveInv'
<1>1. ledger' = vault
  BY DEF ReserveInv, TypeOK, AuditTrailComplete, SyncReserve, SyncEvent
<1>. QED  BY <1>1, SyncedKeeps DEF ReserveInv, TypeOK, NeverBricked,
            AuditTrailComplete, SyncReserve, Initialized, Clocks

LEMMA InvPush ==
  ASSUME ReserveInv, NEW amount \in Amounts, Push(amount)
  PROVE  ReserveInv'
<1>1. amount \in Nat /\ amount <= Synced.lastBalance /\ vault' \in 0 .. Supply
  BY SyncedKeeps DEF Push, ReserveInv, TypeOK, U64
<1>2. /\ reserve' \in Reserves /\ reserve'.avail <= reserve'.max
      /\ reserve'.lastBalance = vault' /\ reserve'.ts = clock.ts
      /\ reserve'.status = reserve.status
  BY <1>1, SyncedKeeps, OutflowKeeps DEF Push
<1>3. ledger' = vault'
  BY <1>1 DEF ReserveInv, TypeOK, AuditTrailComplete, Push, SyncEvent
<1>. QED  BY <1>1, <1>2, <1>3 DEF ReserveInv, TypeOK, NeverBricked,
            AuditTrailComplete, Push, Initialized, Clocks

LEMMA InvReceive ==
  ASSUME ReserveInv, NEW amount \in Amounts, Initialized, Receive(amount)
  PROVE  ReserveInv'
<1>1. amount \in Nat /\ vault' \in 0 .. Supply
      /\ Synced.lastBalance + amount <= U64Max
  <2>1. /\ vault \in 0 .. Supply /\ vault' = vault + amount
        /\ vault + amount <= Supply
    BY DEF Receive, ReserveInv, TypeOK
  <2>2. amount \in Nat /\ Supply \in Nat /\ Supply <= U64Max /\ U64Max \in Nat
    BY DEF U64
  <2>. QED  BY <2>1, <2>2, SyncedKeeps
<1>2. /\ reserve' \in Reserves /\ reserve'.avail <= reserve'.max
      /\ reserve'.lastBalance = vault' /\ reserve'.ts = clock.ts
      /\ reserve'.status = reserve.status
  BY <1>1, SyncedKeeps, InflowKeeps DEF Receive
<1>3. ledger' = vault'
  BY <1>1 DEF ReserveInv, TypeOK, AuditTrailComplete, Receive, SyncEvent
<1>. QED  BY <1>1, <1>2, <1>3 DEF ReserveInv, TypeOK, NeverBricked,
            AuditTrailComplete, Receive, Initialized, Clocks

\* Pull and Harvest receive for a reserve that exists.
LEMMA Received ==
  ASSUME NEW amount \in Amounts, Pull(amount) \/ Harvest(amount)
  PROVE  Initialized /\ Receive(amount)
BY DEF Pull, Harvest, Initialized

\* The steps that leave the account alone: the vault and the clock move.
LEMMA InvEnvironment ==
  ASSUME ReserveInv,
         \/ \E amount \in Amounts : Deposit(amount) \/ Seize(amount)
         \/ \E seconds \in Elapses : Tick(seconds)
  PROVE  ReserveInv'
<1>1. ASSUME NEW amount \in Amounts, Deposit(amount) \/ Seize(amount)
      PROVE  ReserveInv'
  <2>1. vault' \in 0 .. Supply
    BY <1>1 DEF Deposit, Seize, ReserveInv, TypeOK, U64
  <2>. QED  BY <1>1, <2>1 DEF Deposit, Seize, ReserveInv, TypeOK, NeverBricked,
              AuditTrailComplete, Initialized
<1>2. ASSUME NEW seconds \in Elapses, Tick(seconds)
      PROVE  ReserveInv'
  <2>1. clock' \in Clocks /\ reserve.ts <= clock'.ts
    BY <1>2 DEF Tick, Clocks, ReserveInv, TypeOK, NeverBricked, Reserves
  <2>. QED  BY <1>2, <2>1 DEF Tick, ReserveInv, TypeOK, NeverBricked,
              AuditTrailComplete, Initialized
<1>. QED  BY <1>1, <1>2

LEMMA InvNext == ReserveInv /\ [Next]_vars => ReserveInv'
<1> SUFFICES ASSUME ReserveInv, [Next]_vars PROVE ReserveInv'
  OBVIOUS
<1>1. CASE UNCHANGED vars
  BY <1>1 DEF vars, ReserveInv, TypeOK, NeverBricked, AuditTrailComplete,
     Initialized
<1>2. CASE Next
  BY <1>2, InvInitializeReserve, InvManageReserve, InvSyncReserve, InvPush,
     Received, InvReceive, InvEnvironment DEF Next
<1>. QED  BY <1>1, <1>2

\* The inductive invariant holds in every reachable state.
THEOREM ReserveInvariant == Spec => []ReserveInv
BY InvInit, InvNext, PTL DEF Spec

\* A Reserve account is well typed, can always be refreshed and managed
\* without a panic, and its events add up to its recorded balance, for every
\* supply, day length, configuration and sequence of instructions.
THEOREM ReserveTypeOK == Spec => []TypeOK
<1>1. ReserveInv => TypeOK
  BY DEF ReserveInv
<1>. QED  BY <1>1, ReserveInvariant, PTL

\* The gap computation of Reserve::update and the elapsed time never wrap.
THEOREM ReserveNeverBricked == Spec => []NeverBricked
<1>1. ReserveInv => NeverBricked
  BY DEF ReserveInv
<1>. QED  BY <1>1, ReserveInvariant, PTL

\* The accounting events of a reserve sum to the balance it records.
THEOREM ReserveAuditTrail == Spec => []AuditTrailComplete
<1>1. ReserveInv => AuditTrailComplete
  BY DEF ReserveInv
<1>. QED  BY <1>1, ReserveInvariant, PTL

\* Only the vault's real balance is ever recorded.
THEOREM ReserveBalanceIsVault == Spec => BalanceIsVault
<1> DEFINE Honest == reserve'.lastBalance # reserve.lastBalance
                       => reserve'.lastBalance = vault'
<1>1. ASSUME ReserveInv, Next PROVE Honest
  <2>1. ASSUME NEW status \in ReserveStatus, NEW slope \in Slopes,
               NEW max \in MaxOuts, InitializeReserve(status, slope, max)
        PROVE  Honest
    <3>1. InitReserve(status, slope, max, clock) \in Reserves
          /\ InitReserve(status, slope, max, clock).avail = max
          /\ InitReserve(status, slope, max, clock).max = max
          /\ InitReserve(status, slope, max, clock).ts = clock.ts
          /\ clock \in Clocks /\ vault \in U64 /\ max \in Nat /\ clock.ts \in Nat
      BY <1>1 DEF InitReserve, Reserves, Clocks, U64, ReserveInv, TypeOK
    <3>. QED  BY <2>1, <3>1, SyncKeeps DEF InitializeReserve
  <2>2. ASSUME NEW status \in Option(ReserveStatus), NEW slope \in Option(Slopes),
               NEW max \in Option(MaxOuts), ManageReserve(status, slope, max)
        PROVE  Honest
    <3>1. slope \in Option(U64) /\ max \in Option(U64)
      BY DEF Option
    <3>. QED  BY <1>1, <2>2, <3>1, UpdateKeeps DEF ManageReserve, Initialized,
                ReserveInv, TypeOK, NeverBricked
  <2>3. ASSUME SyncReserve PROVE Honest
    BY <1>1, <2>3, SyncedKeeps DEF SyncReserve
  <2>4. ASSUME NEW amount \in Amounts, Push(amount) PROVE Honest
    BY <1>1, <2>4, SyncedKeeps, OutflowKeeps DEF Push, ReserveInv, TypeOK
  <2>5. ASSUME NEW amount \in Amounts, Receive(amount) PROVE Honest
    <3>1. amount \in Nat /\ Synced.lastBalance + amount <= U64Max
      BY <1>1, <2>5, SyncedKeeps DEF Receive, ReserveInv, TypeOK, U64
    <3>. QED  BY <1>1, <2>5, <3>1, SyncedKeeps, InflowKeeps DEF Receive
  <2>6. ASSUME \/ \E amount \in Amounts : Deposit(amount) \/ Seize(amount)
               \/ \E seconds \in Elapses : Tick(seconds)
        PROVE  Honest
    BY <2>6 DEF Deposit, Seize, Tick
  <2>. QED  BY <1>1, <2>1, <2>2, <2>3, <2>4, <2>5, <2>6, Received DEF Next
<1>2. ReserveInv /\ [Next]_vars => [Honest]_vars
  BY <1>1
<1>. QED  BY <1>2, ReserveInvariant, PTL DEF Spec, BalanceIsVault

-----------------------------------------------------------------------------
\* The account as a limit.
LEMMA Limits ==
  ASSUME ReserveInv
  PROVE  /\ IsLimit(reserve) /\ reserve.ts <= clock.ts /\ clock \in Clocks
         /\ IsLimit(Synced) /\ Synced.ts = clock.ts
         /\ Synced.max = reserve.max /\ Synced.slope = reserve.slope
<1>1. vault \in U64
  BY DEF ReserveInv, TypeOK, U64
<1>2. Synced \in Reserves /\ Synced.avail <= Synced.max /\ Synced.ts = clock.ts
      /\ Synced.max = reserve.max /\ Synced.slope = reserve.slope
  BY <1>1, SyncKeeps DEF ReserveInv, TypeOK, NeverBricked, Synced
<1>. QED  BY <1>2, ReserveIsLimit DEF ReserveInv, TypeOK, NeverBricked

\* What the sync that starts a handler finds in the vault.
Found == SatSub(vault, reserve.lastBalance)
Missing == SatSub(reserve.lastBalance, vault)

LEMMA FoundOrMissing ==
  ASSUME ReserveInv
  PROVE  /\ vault \in U64 /\ reserve.lastBalance \in U64 /\ clock \in Clocks
         /\ Found \in U64 /\ Missing \in U64
         /\ Found = 0 \/ Missing = 0
         /\ vault = reserve.lastBalance => Found = 0 /\ Missing = 0
<1>1. vault \in U64 /\ reserve.lastBalance \in U64 /\ clock \in Clocks
  BY DEF ReserveInv, TypeOK, U64, Reserves
<1>. QED  BY <1>1 DEF Found, Missing, SatSub, U64

\* The sync is a refill or a drain of the bucket by just that.
LEMMA SyncAsMove ==
  ASSUME ReserveInv
  PROVE  Level(Synced) =
           Drained(Filled(LevelAt(reserve, clock), reserve.max, Found), Missing)
BY FoundOrMissing, LevelOfSync
   DEF ReserveInv, TypeOK, NeverBricked, Synced, Found, Missing

\* What an instruction itself takes out of the vault or puts into it.
LEMMA Difference ==
  ASSUME NEW a \in Nat, NEW b \in Nat, NEW out \in Nat, NEW back \in Nat,
         out = 0 \/ back = 0, b = a - out + back
  PROVE  SatSub(a, b) = out /\ SatSub(b, a) = back
BY DEF SatSub

\* When neither the limit nor its configuration is touched, and nothing is
\* booked, the bucket rests.
LEMMA BucketRests ==
  ASSUME ReserveInv, clock' = clock,
         reserve'.max = reserve.max, reserve'.slope = reserve.slope,
         LevelAt(reserve', clock') = LevelAt(reserve, clock),
         UNCHANGED <<reserve, ledger>> \/ UNCHANGED <<vault, reserve.lastBalance>>
  PROVE  BucketStep
<1>1. clock'.ts - clock.ts = 0
  BY FoundOrMissing DEF Clocks
<1>2. Bucket!Elapse(clock'.ts - clock.ts)
  BY <1>1 DEF Bucket!Elapse
<1>. QED  BY <1>2 DEF BucketStep

\* An instruction that leaves the recorded balance at the vault's moves the
\* bucket by what it found and by what it took or put.
LEMMA BucketMoves ==
  ASSUME ReserveInv, clock' = clock,
         NEW out \in U64, NEW back \in U64, out = 0 \/ back = 0,
         vault' \in Nat, vault' = vault - out + back,
         reserve'.lastBalance = vault',
         reserve'.max = reserve.max, reserve'.slope = reserve.slope,
         MovedTo(LevelAt(reserve, clock), reserve.max, Found, Missing, out, back,
                 LevelAt(reserve', clock'))
  PROVE  Bucket!BucketNext /\ BucketStep
<1>1. Bucket!Move(Found, Missing, out, back)
  BY DEF Bucket!Move, Bucket!Fill, Bucket!Drain, Bucket!Units, Bucket!Fraction,
         Bucket!Lower, MovedTo, Filled, Drained, Least
<1>2. Bucket!BucketNext
  BY <1>1, FoundOrMissing DEF Bucket!BucketNext
<1>3. SatSub(vault, vault') = out /\ SatSub(vault', vault) = back
  <2>1. vault \in Nat /\ out \in Nat /\ back \in Nat
    BY FoundOrMissing DEF U64
  <2>. QED  BY <2>1, Difference
<1>4. CASE UNCHANGED <<reserve, ledger>>
  BY <1>2, <1>4, BucketRests
<1>5. CASE UNCHANGED <<vault, reserve.lastBalance>>
  <2>1. Found = 0 /\ Missing = 0 /\ vault \in Nat
    BY <1>5, FoundOrMissing DEF U64
  <2>2. out = 0 /\ back = 0
    BY <1>3, <1>5, <2>1 DEF SatSub
  <2>3. LevelAt(reserve', clock') = LevelAt(reserve, clock)
    BY <2>1, <2>2, Limits, LevelAtFacts, RestsWhenNothingMoves
  <2>. QED  BY <1>2, <1>5, <2>3, BucketRests
<1>6. CASE /\ ~UNCHANGED <<reserve, ledger>>
           /\ ~UNCHANGED <<vault, reserve.lastBalance>>
  <2>1. BucketStep
    BY <1>1, <1>3, <1>6 DEF BucketStep, Found, Missing
  <2>. QED  BY <1>2, <2>1
<1>. QED  BY <1>4, <1>5, <1>6

LEMMA BucketResizes ==
  ASSUME NEW max \in U64, NEW slope \in U64,
         LevelAt(reserve', clock') = Resized(LevelAt(reserve, clock), reserve.max, max),
         reserve'.max = max, reserve'.slope = slope
  PROVE  /\ Bucket!BucketNext
         /\ max # reserve.max \/ slope # reserve.slope => BucketStep
<1>1. Bucket!Resize(max, slope)
  BY DEF Bucket!Resize, Bucket!Units, Resized
<1>. QED  BY <1>1 DEF Bucket!BucketNext, BucketStep

-----------------------------------------------------------------------------
\* Each action of the Reserve, as a step of the bucket.
LEMMA SyncReserveStep ==
  ASSUME ReserveInv, SyncReserve
  PROVE  Bucket!BucketNext /\ BucketStep
<1>1. /\ Level(Synced) =
           Drained(Filled(LevelAt(reserve, clock), reserve.max, Found), Missing)
      /\ vault \in U64
  BY SyncAsMove, FoundOrMissing
<1>2. MovedTo(LevelAt(reserve, clock), reserve.max, Found, Missing, 0, 0, Level(Synced))
  BY <1>1, Limits, NothingPaid
<1>3. LevelAt(reserve', clock') = Level(Synced)
  BY Limits, LevelWhenFresh DEF SyncReserve
<1>4. /\ reserve'.max = reserve.max /\ reserve'.slope = reserve.slope
      /\ reserve'.lastBalance = vault' /\ clock' = clock
  BY Limits, SyncedKeeps DEF SyncReserve
<1>5. 0 \in U64 /\ vault' \in Nat /\ vault' = vault - 0 + 0
  BY <1>1 DEF SyncReserve, U64
<1>. QED  BY <1>2, <1>3, <1>4, <1>5, BucketMoves

LEMMA PushStep ==
  ASSUME ReserveInv, NEW amount \in Amounts, Push(amount)
  PROVE  Bucket!BucketNext /\ BucketStep
<1>1. /\ Level(Synced) =
           Drained(Filled(LevelAt(reserve, clock), reserve.max, Found), Missing)
      /\ vault \in U64
  BY SyncAsMove, FoundOrMissing
<1>2. /\ Synced \in Reserves /\ Synced.avail <= Synced.max
      /\ Synced.lastBalance = vault
  BY SyncedKeeps
<1>3. amount \in U64 /\ amount \in Nat /\ amount <= Synced.lastBalance /\ 0 \in U64
  BY <1>2 DEF Push, ReserveInv, TypeOK, U64
<1>4. MovedTo(LevelAt(reserve, clock), reserve.max, Found, Missing, amount, 0,
              Level(DebitRateLimit(Synced, amount)))
  BY <1>1, <1>3, Limits, PaymentMoves DEF Push
<1>5. /\ reserve' = UpdateForOutflow(Synced, amount) /\ clock' = clock
      /\ reserve'.ts = Synced.ts
      /\ reserve'.max = Synced.max /\ reserve'.slope = Synced.slope
      /\ reserve'.lastBalance = vault - amount /\ vault' = vault - amount
  BY <1>2, <1>3, OutflowKeeps DEF Push
<1>6. Level(reserve') = Level(DebitRateLimit(Synced, amount))
  BY <1>2, <1>3, <1>5, ReserveFlows
<1>7. LevelAt(reserve', clock') = Level(reserve')
  BY <1>5, Limits, LevelWhenFresh
<1>8. /\ vault' \in Nat /\ vault' = vault - amount + 0
      /\ reserve'.lastBalance = vault'
      /\ reserve'.max = reserve.max /\ reserve'.slope = reserve.slope
  BY <1>1, <1>2, <1>3, <1>5, Limits DEF U64
<1>. QED  BY <1>3, <1>4, <1>5, <1>6, <1>7, <1>8, BucketMoves

LEMMA ReceiveStep ==
  ASSUME ReserveInv, NEW amount \in Amounts, Receive(amount)
  PROVE  Bucket!BucketNext /\ BucketStep
<1>1. /\ Level(Synced) =
           Drained(Filled(LevelAt(reserve, clock), reserve.max, Found), Missing)
      /\ vault \in U64
  BY SyncAsMove, FoundOrMissing
<1>2. /\ Synced \in Reserves /\ Synced.avail <= Synced.max
      /\ Synced.lastBalance = vault
  BY SyncedKeeps
<1>3. amount \in U64 /\ amount \in Nat /\ Synced.lastBalance + amount <= U64Max
      /\ 0 \in U64
  <2>1. vault + amount <= Supply /\ vault \in 0 .. Supply
    BY DEF Receive, ReserveInv, TypeOK
  <2>2. amount \in Nat /\ Supply \in Nat /\ Supply <= U64Max /\ U64Max \in Nat
    BY DEF U64
  <2>. QED  BY <1>2, <2>1, <2>2 DEF U64
<1>4. MovedTo(LevelAt(reserve, clock), reserve.max, Found, Missing, 0, amount,
              Level(CreditRateLimit(Synced, amount)))
  BY <1>1, <1>3, Limits, ReceiptMoves
<1>5. /\ reserve' = UpdateForInflow(Synced, amount) /\ clock' = clock
      /\ reserve'.ts = Synced.ts
      /\ reserve'.max = Synced.max /\ reserve'.slope = Synced.slope
      /\ reserve'.lastBalance = vault + amount /\ vault' = vault + amount
  BY <1>2, <1>3, InflowKeeps DEF Receive
<1>6. Level(reserve') = Level(CreditRateLimit(Synced, amount))
  BY <1>2, <1>3, <1>5, ReserveFlows
<1>7. LevelAt(reserve', clock') = Level(reserve')
  BY <1>5, Limits, LevelWhenFresh
<1>8. /\ vault' \in Nat /\ vault' = vault - 0 + amount
      /\ reserve'.lastBalance = vault'
      /\ reserve'.max = reserve.max /\ reserve'.slope = reserve.slope
  BY <1>1, <1>3, <1>5, Limits DEF U64
<1>. QED  BY <1>3, <1>4, <1>5, <1>6, <1>7, <1>8, BucketMoves

\* A bucket without a cap holds nothing, whatever is found.
LEMMA NothingFills ==
  ASSUME ReserveInv, Missing = 0
  PROVE  MovedTo(0, 0, Found, Missing, 0, 0, 0)
<1>1. SecondsPerDay * 0 = 0 /\ 0 % SecondsPerDay = 0
  BY DaySplit
<1>2. SecondsPerDay * Found \in Nat
  BY FoundOrMissing, DayTimes DEF U64
<1>3. Filled(0, 0, Found) = 0 /\ Filled(0, 0, 0) = 0
  BY <1>1, <1>2 DEF Filled, Least
<1>4. Drained(0, 0) = 0
  BY <1>1 DEF Drained
<1>. QED  BY <1>1, <1>3, <1>4 DEF MovedTo

LEMMA InitializeStep ==
  ASSUME ReserveInv, NEW status \in ReserveStatus, NEW slope \in Slopes,
         NEW max \in MaxOuts, InitializeReserve(status, slope, max)
  PROVE  Bucket!BucketNext /\ BucketStep
<1> DEFINE r == InitReserve(status, slope, max, clock)
<1>1. /\ slope \in U64 /\ max \in U64 /\ max \in Nat /\ vault \in U64
      /\ clock \in Clocks /\ clock.ts \in Nat /\ reserve = NoReserve
  BY DEF ReserveInv, TypeOK, U64, InitializeReserve, Clocks
<1>2. /\ r \in Reserves /\ r.avail = max /\ r.max = max /\ r.slope = slope
      /\ r.ts = clock.ts /\ r.rem = 0
  BY <1>1 DEF InitReserve, Reserves, Clocks, U64
<1>3. reserve' = SyncBalance(r, vault, clock) /\ clock' = clock
  BY DEF InitializeReserve
<1> HIDE DEF r
<1>4. LevelAt(r, clock) = SecondsPerDay * max
  <2>1. LevelAt(r, clock) = Level(r)
    BY <1>2, LevelWhenFresh
  <2>2. SecondsPerDay * max \in Nat
    BY <1>1, DayTimes
  <2>. QED  BY <1>2, <2>1, <2>2 DEF Level
<1>5. /\ reserve'.ts = clock'.ts /\ reserve'.max = max /\ reserve'.slope = slope
      /\ reserve'.lastBalance = vault
  BY <1>1, <1>2, <1>3, SyncKeeps
<1>6. Level(reserve') = SecondsPerDay * max
  <2>1. Level(r) = LevelAt(r, clock)
    BY <1>2, LevelWhenFresh
  <2>2. reserve'.avail = max /\ reserve'.rem = 0
    <3>1. ~Accrues(r, clock)
      BY <1>2 DEF Accrues
    <3>2. RefreshRateLimit(r, clock) = [r EXCEPT !.ts = clock.ts, !.slot = clock.slot]
      BY <3>1 DEF RefreshRateLimit
    <3>3. /\ RefreshRateLimit(r, clock).lastBalance = 0 /\ r.lastBalance = 0
      BY <1>2, <3>2 DEF r, InitReserve
    <3>4. CASE vault > 0
      <4>1. reserve' = UpdateForInflow(RefreshRateLimit(r, clock), vault)
        BY <1>1, <1>3, <3>3, <3>4 DEF SyncBalance, U64
      <4>2. reserve'.avail = Least(max, SatAdd(max, vault)) /\ reserve'.rem = 0
        BY <1>2, <3>2, <4>1 DEF UpdateForInflow, CreditRateLimit, Reserves
      <4>. QED  BY <1>1, <4>2 DEF Least, SatAdd, U64
    <3>5. CASE ~(vault > 0)
      <4>1. reserve' = UpdateForOutflow(RefreshRateLimit(r, clock), 0)
        BY <1>1, <1>3, <3>3, <3>5 DEF SyncBalance, U64
      <4>2. reserve'.avail = SatSub(max, 0) /\ reserve'.rem = 0
        BY <1>2, <3>2, <4>1 DEF UpdateForOutflow, DebitRateLimit, Reserves
      <4>. QED  BY <1>1, <4>2 DEF SatSub, U64
    <3>. QED  BY <3>4, <3>5
  <2>3. SecondsPerDay * max \in Nat
    BY <1>1, DayTimes
  <2>. QED  BY <2>2, <2>3 DEF Level
<1>7. LevelAt(reserve', clock') = SecondsPerDay * max
  BY <1>5, <1>6, LevelWhenFresh
<1>8. LevelAt(reserve, clock) = 0 /\ reserve.max = 0 /\ SecondsPerDay * 0 = 0
  <2>1. Level(NoReserve) = 0
    BY DEF Level, NoReserve
  <2>2. SecondsPerDay * 0 = 0 /\ 0 * (clock.ts - 0) = 0
    BY <1>1
  <2>. QED  BY <1>1, <2>1, <2>2 DEF LevelAt, NoReserve, Least
<1>9. SecondsPerDay * max \in Nat
  BY <1>1, DayTimes
<1>10. LevelAt(reserve', clock') = Resized(LevelAt(reserve, clock), reserve.max, max)
  BY <1>7, <1>8, <1>9 DEF Resized
<1>11. Bucket!BucketNext /\ (max # reserve.max \/ slope # reserve.slope => BucketStep)
  BY <1>1, <1>5, <1>10, BucketResizes
<1>12. CASE max = reserve.max /\ slope = reserve.slope
  <2>1. LevelAt(reserve, clock) = 0 /\ LevelAt(reserve', clock') = 0
    BY <1>7, <1>8, <1>12
  <2>2. MovedTo(0, 0, Found, Missing, 0, 0, 0)
    BY <1>1, NothingFills DEF Missing, SatSub, NoReserve, U64
  <2>3. vault' \in Nat /\ vault' = vault - 0 + 0 /\ reserve'.lastBalance = vault'
        /\ 0 \in U64
    BY <1>1, <1>5 DEF InitializeReserve, U64
  <2>. QED  BY <1>3, <1>5, <1>8, <1>12, <2>1, <2>2, <2>3, BucketMoves
<1>. QED  BY <1>11, <1>12

LEMMA ManageStep ==
  ASSUME ReserveInv, NEW status \in Option(ReserveStatus),
         NEW slope \in Option(Slopes), NEW max \in Option(MaxOuts),
         ManageReserve(status, slope, max)
  PROVE  Bucket!BucketNext /\ BucketStep
<1> DEFINE g  == RefreshRateLimit(reserve, clock)
           st == OrElse(status, g.status)
           sl == OrElse(slope, g.slope)
           f  == [g EXCEPT !.status = st, !.slope = sl]
           m  == IF max = {} THEN reserve.max ELSE OrElse(max, 0)
           l  == LevelAt(reserve, clock)
<1>1. /\ g \in Reserves /\ IsLimit(g) /\ g.ts = clock.ts /\ g.max = reserve.max
      /\ Level(g) = l /\ reserve.max \in U64 /\ clock \in Clocks
  BY Limits, LevelOfRefresh, RefreshKeeps DEF ReserveInv, TypeOK, NeverBricked, Reserves
<1>2. sl \in U64 /\ m \in U64
  BY <1>1, OrElseType DEF Reserves
<1>3. reserve' = (IF max = {} THEN f ELSE SetMaxOutflow(f, m)) /\ clock' = clock
  BY DEF ManageReserve, UpdateReserve
<1> HIDE DEF g, st, sl, m, l
<1>4. /\ f.slope = sl /\ f.max = g.max /\ f.avail = g.avail /\ f.rem = g.rem
      /\ f.ts = g.ts /\ LimitFields \subseteq DOMAIN f
  BY <1>1 DEF Reserves, LimitFields
<1> HIDE DEF f
<1>5. IsLimit(f) /\ Level(f) = l /\ f.max = reserve.max
  BY <1>1, <1>2, <1>4 DEF IsLimit, Level
<1>6. /\ l \in Nat /\ SecondsPerDay * reserve.max \in Nat
  BY <1>1, <1>5, LevelFacts, DayTimes DEF U64
<1>7. /\ reserve'.max = m /\ reserve'.slope = sl /\ reserve'.ts = clock'.ts
      /\ Level(reserve') = Resized(l, reserve.max, m)
  <2>1. CASE max = {}
    <3>1. reserve' = f /\ m = reserve.max
      BY <1>3, <2>1 DEF m
    <3>2. Resized(l, reserve.max, m) = l
      BY <1>6, <3>1 DEF Resized
    <3>. QED  BY <1>1, <1>3, <1>4, <1>5, <3>1, <3>2
  <2>2. CASE max # {}
    <3>1. reserve' = SetMaxOutflow(f, m)
      BY <1>3, <2>2
    <3>2. /\ reserve'.slope = f.slope /\ reserve'.max = m /\ reserve'.ts = f.ts
          /\ Level(reserve') = Resized(Level(f), f.max, m)
      BY <1>2, <1>5, <3>1, LevelOfSetMax
    <3>. QED  BY <1>1, <1>3, <1>4, <1>5, <3>2
  <2>. QED  BY <2>1, <2>2
<1>8. LevelAt(reserve', clock') = Level(reserve')
  BY <1>7, LevelWhenFresh
<1>9. Bucket!BucketNext /\ (m # reserve.max \/ sl # reserve.slope => BucketStep)
  BY <1>2, <1>7, <1>8, BucketResizes DEF l
<1>10. CASE m = reserve.max /\ sl = reserve.slope
  <2>1. LevelAt(reserve', clock') = LevelAt(reserve, clock)
    BY <1>6, <1>7, <1>8, <1>10 DEF Resized, l
  <2>2. UNCHANGED <<vault, reserve.lastBalance>>
    <3>1. slope \in Option(U64) /\ max \in Option(U64)
      BY DEF Option
    <3>. QED  BY <3>1, UpdateKeeps DEF ManageReserve, Initialized,
                ReserveInv, TypeOK, NeverBricked
  <2>. QED  BY <1>3, <1>7, <1>9, <1>10, <2>1, <2>2, BucketRests
<1>. QED  BY <1>9, <1>10

LEMMA TickStep ==
  ASSUME ReserveInv, NEW seconds \in Elapses, Tick(seconds)
  PROVE  Bucket!BucketNext /\ BucketStep
<1>1. seconds \in Nat /\ reserve' = reserve /\ clock'.ts = clock.ts + seconds
  BY DEF Tick
<1>2. LevelAt(reserve', clock') =
        IF reserve.max = U64Max \/ seconds = 0 THEN LevelAt(reserve, clock)
        ELSE Least(LevelAt(reserve, clock) + reserve.slope * seconds,
                   SecondsPerDay * reserve.max)
  BY <1>1, Limits, LevelOfTime
<1>3. Bucket!Elapse(seconds)
  BY <1>1, <1>2 DEF Bucket!Elapse, Bucket!Lower, Bucket!Units, Least
<1>4. clock'.ts - clock.ts = seconds
  BY <1>1, FoundOrMissing DEF Clocks
<1>5. UNCHANGED <<reserve, ledger>>
  BY DEF Tick
<1>. QED  BY <1>3, <1>4, <1>5 DEF Bucket!BucketNext, BucketStep

\* Deposits and seizures are invisible until the next sync.
LEMMA UnsyncedStep ==
  ASSUME ReserveInv, NEW amount \in Amounts, Deposit(amount) \/ Seize(amount)
  PROVE  UNCHANGED Bucket!bucketVars /\ BucketStep
<1>1. UNCHANGED <<reserve, ledger, clock>>
  BY DEF Deposit, Seize
<1>2. UNCHANGED Bucket!bucketVars
  BY <1>1 DEF Bucket!bucketVars, LevelAt, Level
<1>3. LevelAt(reserve', clock') = LevelAt(reserve, clock)
  BY <1>1
<1>. QED  BY <1>1, <1>2, <1>3, BucketRests

LEMMA StepOfBucket ==
  ReserveInv /\ [Next]_vars =>
    [Bucket!BucketNext]_(Bucket!bucketVars) /\ [BucketStep]_vars
<1> SUFFICES ASSUME ReserveInv, [Next]_vars
             PROVE  /\ Bucket!BucketNext \/ UNCHANGED Bucket!bucketVars
                    /\ BucketStep \/ UNCHANGED vars
  OBVIOUS
<1>1. CASE UNCHANGED vars
  BY <1>1 DEF vars, Bucket!bucketVars, LevelAt, Level
<1>2. CASE Next
  BY <1>2, InitializeStep, ManageStep, SyncReserveStep, PushStep,
     Received, ReceiveStep, UnsyncedStep, TickStep DEF Next
<1>. QED  BY <1>1, <1>2

LEMMA BucketInitially == Init => Bucket!BucketInit
<1> SUFFICES ASSUME Init PROVE Bucket!BucketInit
  OBVIOUS
<1>1. reserve = NoReserve /\ clock.ts = 0
  BY DEF Init
<1>2. LevelAt(reserve, clock) = Level(NoReserve)
  BY <1>1, LevelWhenFresh DEF NoReserve
<1>3. Level(NoReserve) = 0 /\ SecondsPerDay * 0 = 0 /\ 0 \in U64
  BY DEF Level, NoReserve, U64
<1>. QED  BY <1>1, <1>2, <1>3 DEF Bucket!BucketInit, Bucket!Units, NoReserve

\* The lazily refreshed rate limit of a Reserve, with its whole tokens, its
\* remainder and its saturating arithmetic, implements the exact token
\* bucket for every day length, u64 width, configuration and schedule of
\* refreshes, and each step of the bucket is the one that the tokens moved
\* call for.
THEOREM ReserveImplementsBucket == Spec => ImplementsTokenBucket
BY BucketInitially, StepOfBucket, ReserveInvariant, PTL
   DEF Spec, ImplementsTokenBucket, Bucket!BucketSpec

=============================================================================
