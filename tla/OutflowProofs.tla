---------------------------- MODULE OutflowProofs ----------------------------
(***************************************************************************)
(* Proofs of the properties of OutflowProps, for any configurations, terms *)
(* and authorities and every length of the day.                            *)
(***************************************************************************)
EXTENDS OutflowProps, ReserveStateProofs

USE RateLimitAssumption, OutflowAssumption

\* What a limit holds, in units of 1/SecondsPerDay of a token, and what it
\* would hold now if it had no cap.
Holds(b) == SecondsPerDay * b.avail + b.rem
Earned(b, clk) == Holds(b) + b.slope * (clk.ts - b.ts)

\* Nothing is earned before the first second, and what went out and what is
\* still to be had never exceed what was granted.
Charged(b, out, granted, clk) ==
  /\ b.ts <= clk.ts
  /\ SecondsPerDay * out + Earned(b, clk) <= granted

\* The inductive invariant: the bound on what went out also holds with what
\* may still go out added to it.
OutflowInv ==
  /\ OutflowTypeOK
  /\ BooksAgree
  /\ \A c \in Configs : Charged(integrations[c], sent[c], budget[c], clock)
  /\ Charged(reserve, paid, budget[TheReserve], clock)

-----------------------------------------------------------------------------
\* A refreshed integration is well formed, and holds at most what it earned.
LEMMA RefreshIntegration ==
  ASSUME NEW i \in Integrations, NEW clk \in Clocks, i.ts <= clk.ts,
         i.avail <= i.max
  PROVE  LET q == RefreshRateLimit(i, clk)
         IN  /\ q \in Integrations
             /\ q.avail <= q.max
             /\ q.ts = clk.ts
             /\ q.status = i.status
             /\ q.permitLiquidation = i.permitLiquidation
             /\ q.slope = i.slope
             /\ q.max = i.max
             /\ Holds(q) <= Earned(i, clk)
<1> DEFINE e  == i.slope * (clk.ts - i.ts)
           av == Least(SatAdd(i.avail, Increment(i, clk.ts)), i.max)
           re == IF av = i.max THEN 0 ELSE Remainder(i, clk.ts)
<1>1. /\ i.avail \in U64 /\ i.max \in U64 /\ i.rem \in 0 .. (SecondsPerDay - 1)
      /\ i.slope \in Nat /\ clk.ts - i.ts \in Nat /\ e \in Nat
  BY DEF Integrations, U64, Clocks
<1>2. Accrued(i, clk.ts) = e + i.rem
  BY DEF Accrued
<1>3. /\ av = Least(SatAdd(i.avail,
                 Least((e + i.rem) \div SecondsPerDay, U64Max)), i.max)
      /\ re = IF av = i.max THEN 0 ELSE (e + i.rem) % SecondsPerDay
  BY <1>2 DEF Increment, Remainder
<1> HIDE DEF e, av, re
<1>4. /\ av \in U64 /\ av <= i.max
      /\ re \in 0 .. (SecondsPerDay - 1)
      /\ SecondsPerDay * av + re <= SecondsPerDay * i.avail + i.rem + e
  BY <1>1, <1>3, RefreshNumbers, ZenonT(60)
<1>5. Earned(i, clk) = SecondsPerDay * i.avail + i.rem + e
  BY DEF Earned, Holds, e
<1>6. CASE Accrues(i, clk)
  <2>1. RefreshRateLimit(i, clk) =
          [i EXCEPT !.avail = av, !.rem = re, !.ts = clk.ts, !.slot = clk.slot]
    BY <1>6 DEF RefreshRateLimit, av, re, Integrations
  <2>. QED  BY <1>4, <1>5, <2>1 DEF Integrations, Clocks, Holds
<1>7. CASE ~Accrues(i, clk)
  <2>1. RefreshRateLimit(i, clk) = [i EXCEPT !.ts = clk.ts, !.slot = clk.slot]
    BY <1>7 DEF RefreshRateLimit
  <2>2. Holds(RefreshRateLimit(i, clk)) = Holds(i)
    BY <2>1 DEF Holds, Integrations
  <2>3. SecondsPerDay * i.avail \in Nat
    BY <1>1, DayMult DEF U64
  <2>4. Holds(i) <= Earned(i, clk)
    BY <1>1, <1>5, <2>3 DEF Holds
  <2>. QED  BY <2>1, <2>2, <2>4 DEF Integrations, Clocks
<1>. QED  BY <1>6, <1>7

\* The same for a reserve; the rest is RefreshKeeps.
LEMMA RefreshReserve ==
  ASSUME NEW r \in Reserves, NEW clk \in Clocks, r.ts <= clk.ts,
         r.avail <= r.max
  PROVE  Holds(RefreshRateLimit(r, clk)) <= Earned(r, clk)
<1> DEFINE e  == r.slope * (clk.ts - r.ts)
           av == Least(SatAdd(r.avail, Increment(r, clk.ts)), r.max)
           re == IF av = r.max THEN 0 ELSE Remainder(r, clk.ts)
<1>1. /\ r.avail \in U64 /\ r.max \in U64 /\ r.rem \in 0 .. (SecondsPerDay - 1)
      /\ r.slope \in Nat /\ clk.ts - r.ts \in Nat /\ e \in Nat
  BY DEF Reserves, U64, Clocks
<1>2. Accrued(r, clk.ts) = e + r.rem
  BY DEF Accrued
<1>3. /\ av = Least(SatAdd(r.avail,
                 Least((e + r.rem) \div SecondsPerDay, U64Max)), r.max)
      /\ re = IF av = r.max THEN 0 ELSE (e + r.rem) % SecondsPerDay
  BY <1>2 DEF Increment, Remainder
<1> HIDE DEF e, av, re
<1>4. SecondsPerDay * av + re <= SecondsPerDay * r.avail + r.rem + e
  BY <1>1, <1>3, RefreshNumbers, ZenonT(60)
<1>5. Earned(r, clk) = SecondsPerDay * r.avail + r.rem + e
  BY DEF Earned, Holds, e
<1>6. CASE Accrues(r, clk)
  <2>1. RefreshRateLimit(r, clk) =
          [r EXCEPT !.avail = av, !.rem = re, !.ts = clk.ts, !.slot = clk.slot]
    BY <1>6 DEF RefreshRateLimit, av, re, Reserves
  <2>. QED  BY <1>4, <1>5, <2>1 DEF Reserves, Clocks, Holds
<1>7. CASE ~Accrues(r, clk)
  <2>1. RefreshRateLimit(r, clk) = [r EXCEPT !.ts = clk.ts, !.slot = clk.slot]
    BY <1>7 DEF RefreshRateLimit
  <2>2. Holds(RefreshRateLimit(r, clk)) = Holds(r)
    BY <2>1 DEF Holds, Reserves
  <2>3. SecondsPerDay * r.avail \in Nat
    BY <1>1, DayMult DEF U64
  <2>4. Holds(r) <= Earned(r, clk)
    BY <1>1, <1>5, <2>3 DEF Holds
  <2>. QED  BY <2>1, <2>2, <2>4 DEF Reserves, Clocks
<1>. QED  BY <1>6, <1>7

\* A limit that was refreshed now has earned what it holds.
LEMMA EarnedNow ==
  ASSUME NEW b, NEW clk \in Clocks, b.ts = clk.ts, b.slope \in Int,
         Holds(b) \in Int
  PROVE  Earned(b, clk) = Holds(b)
BY DEF Earned, Clocks

LEMMA HoldsType ==
  /\ \A i \in Integrations : Holds(i) \in Nat
  /\ \A r \in Reserves : Holds(r) \in Nat
BY DayMult DEF Holds, Integrations, Reserves, U64

\* What a limit would hold is a natural number.
LEMMA EarnedType ==
  ASSUME OutflowInv
  PROVE  /\ \A c \in Configs : Earned(integrations[c], clock) \in Nat
         /\ Earned(reserve, clock) \in Nat
<1>1. ASSUME NEW c \in Configs
      PROVE  Earned(integrations[c], clock) \in Nat
  <2>1. /\ integrations[c] \in Integrations
        /\ clock.ts - integrations[c].ts \in Nat
        /\ integrations[c].slope \in Nat
    BY <1>1 DEF OutflowInv, OutflowTypeOK, Charged, Integrations, U64, Clocks
  <2>2. integrations[c].slope * (clock.ts - integrations[c].ts) \in Nat
    BY <2>1
  <2>. QED  BY <2>1, <2>2, HoldsType DEF Earned
<1>2. Earned(reserve, clock) \in Nat
  <2>1. /\ reserve \in Reserves /\ reserve.slope \in Nat
        /\ clock.ts - reserve.ts \in Nat
    BY DEF OutflowInv, OutflowTypeOK, Charged, Reserves, U64, Clocks
  <2>2. reserve.slope * (clock.ts - reserve.ts) \in Nat
    BY <2>1
  <2>. QED  BY <2>1, <2>2, HoldsType DEF Earned
<1>. QED  BY <1>1, <1>2

-----------------------------------------------------------------------------
\* The reserve after the leading sync holds at most what it earned and what
\* was deposited.
LEMMA SyncedReserve ==
  ASSUME OutflowInv
  PROVE  /\ Synced \in Reserves
         /\ Synced.avail <= Synced.max
         /\ Synced.lastBalance = vault
         /\ Synced.ts = clock.ts
         /\ Synced.slope = reserve.slope
         /\ Booked \in Nat
         /\ Holds(Synced) <= Earned(reserve, clock) + SecondsPerDay * Booked
<1> DEFINE f == RefreshRateLimit(reserve, clock)
<1>1. /\ reserve \in Reserves /\ reserve.avail <= reserve.max /\ vault \in U64
      /\ clock \in Clocks /\ reserve.ts <= clock.ts /\ reserve.lastBalance \in Nat
      /\ vault \in Nat
  BY DEF OutflowInv, OutflowTypeOK, Charged, Reserves, U64
<1>2. /\ f \in Reserves /\ f.avail <= f.max /\ f.lastBalance = reserve.lastBalance
      /\ Holds(f) <= Earned(reserve, clock)
  BY <1>1, RefreshKeeps, RefreshReserve
<1>3. Booked \in Nat /\ SecondsPerDay * Booked \in Nat
  BY <1>1, DayMult DEF Booked
<1>4. Earned(reserve, clock) \in Int
  BY EarnedType
<1> HIDE DEF f
<1>5. Holds(Synced) <= Holds(f) + SecondsPerDay * Booked
  <2>1. /\ f.avail \in Nat /\ f.max \in Nat /\ f.rem \in Nat
    BY <1>2 DEF Reserves, U64
  <2>2. CASE vault > reserve.lastBalance
    <3>1. Synced = UpdateForInflow(f, Booked)
      BY <2>2 DEF Synced, SyncBalance, Booked, f
    <3>2. /\ Synced.avail = Least(f.max, SatAdd(f.avail, Booked))
          /\ Synced.rem = f.rem
      BY <1>2, <3>1 DEF UpdateForInflow, CreditRateLimit, Reserves
    <3>3. Synced.avail <= f.avail + Booked /\ Synced.avail \in Nat
      BY <1>3, <2>1, <3>2 DEF Least, SatAdd
    <3>4. SecondsPerDay * Synced.avail <= SecondsPerDay * f.avail + SecondsPerDay * Booked
      BY <1>3, <2>1, <3>3, DayMult
    <3>5. SecondsPerDay * Synced.avail \in Nat /\ SecondsPerDay * f.avail \in Nat
      BY <2>1, <3>3, DayMult
    <3>. QED  BY <1>3, <2>1, <3>2, <3>4, <3>5 DEF Holds
  <2>3. CASE ~(vault > reserve.lastBalance)
    <3> DEFINE o == reserve.lastBalance - vault
    <3>1. Synced = UpdateForOutflow(f, o) /\ Booked = 0 /\ o \in Nat
      BY <1>1, <2>3 DEF Synced, SyncBalance, Booked, f
    <3> HIDE DEF o
    <3>2. Synced.avail = SatSub(f.avail, o) /\ Synced.rem = f.rem
      BY <1>2, <3>1 DEF UpdateForOutflow, DebitRateLimit, Reserves
    <3>3. Synced.avail <= f.avail /\ Synced.avail \in Nat
      BY <2>1, <3>1, <3>2 DEF SatSub
    <3>4. SecondsPerDay * Synced.avail <= SecondsPerDay * f.avail
      BY <2>1, <3>3, DayMult
    <3>5. SecondsPerDay * Synced.avail \in Nat /\ SecondsPerDay * f.avail \in Nat
      BY <2>1, <3>3, DayMult
    <3>. QED  BY <1>3, <2>1, <3>2, <3>4, <3>5 DEF Holds
  <2>. QED  BY <2>2, <2>3
<1>6. Holds(f) \in Nat
  BY <1>2, HoldsType
<1>7. /\ Synced \in Reserves /\ Synced.avail <= Synced.max
      /\ Synced.lastBalance = vault /\ Synced.ts = clock.ts
      /\ Synced.slope = reserve.slope
  BY <1>1, SyncKeeps DEF Synced
<1>8. Holds(Synced) \in Nat
  BY <1>7, HoldsType
<1>. QED  BY <1>2, <1>3, <1>4, <1>5, <1>6, <1>7, <1>8

\* A reconfigured integration holds at most what it earned and the raise of
\* its cap.
LEMMA UpdatedIntegration ==
  ASSUME NEW i \in Integrations, NEW status \in Option(IntegrationStatus),
         NEW slope \in Option(U64), NEW max \in Option(U64),
         clock \in Clocks, i.ts <= clock.ts, i.avail <= i.max,
         i.status # "Uninitialized"
  PROVE  LET q == UpdateIntegration(i, status, slope, max)
             d == Raise(i.max, OrElse(max, i.max))
         IN  /\ q \in Integrations
             /\ q.avail <= q.max
             /\ q.ts = clock.ts
             /\ q.status # "Uninitialized"
             /\ q.permitLiquidation = i.permitLiquidation
             /\ d \in Nat
             /\ Holds(q) <= Earned(i, clock) + SecondsPerDay * d
<1> DEFINE st == OrElse(status, i.status)
           sl == OrElse(slope, i.slope)
           g  == RefreshRateLimit(i, clock)
           f  == [g EXCEPT !.status = st, !.slope = sl]
           m  == OrElse(max, 0)
           q  == UpdateIntegration(i, status, slope, max)
           d  == Raise(i.max, OrElse(max, i.max))
<1>1. /\ g \in Integrations /\ g.avail <= g.max /\ g.ts = clock.ts
      /\ g.status = i.status /\ g.slope = i.slope /\ g.max = i.max
      /\ g.permitLiquidation = i.permitLiquidation
      /\ Holds(g) <= Earned(i, clock)
  BY RefreshIntegration
<1>2. /\ st \in IntegrationStatus /\ sl \in U64
      /\ max # {} => m \in U64 /\ OrElse(max, i.max) = m
      /\ max = {} => OrElse(max, i.max) = i.max
  BY OrElseType DEF Integrations, OrElse
<1>3. "Uninitialized" \notin IntegrationStatus
  BY DEF IntegrationStatus
<1>4. q = IF max = {} THEN f ELSE SetMaxOutflow(f, m)
  BY <1>1 DEF UpdateIntegration, Integrations
<1>5. i.max \in Nat /\ i.max <= U64Max
  BY DEF Integrations, U64
<1> HIDE DEF g, st, sl, m
<1>6. /\ f \in Integrations /\ f.avail <= f.max /\ f.max = i.max
      /\ f.ts = clock.ts /\ f.status # "Uninitialized"
      /\ f.permitLiquidation = i.permitLiquidation
      /\ f.avail = g.avail /\ f.rem = g.rem
  BY <1>1, <1>2, <1>3 DEF Integrations
<1> HIDE DEF f
<1>7. Holds(f) <= Earned(i, clock) /\ Holds(f) \in Nat
  BY <1>1, <1>6, HoldsType DEF Holds
<1>8. Earned(i, clock) \in Int
  <2>1. i.slope * (clock.ts - i.ts) \in Int
    BY DEF Integrations, U64, Clocks
  <2>. QED  BY <2>1, HoldsType DEF Earned
<1>9. CASE max = {}
  <2>1. d = 0 /\ q = f
    BY <1>2, <1>4, <1>5, <1>9 DEF Raise
  <2>2. SecondsPerDay * d = 0
    BY <2>1
  <2>. QED  BY <1>6, <1>7, <1>8, <2>1, <2>2
<1>10. CASE max # {}
  <2> DEFINE gap == f.max - f.avail
             av  == SatSub(m, gap)
             re  == IF gap > m THEN 0 ELSE f.rem
  <2>1. /\ f.avail \in Nat /\ f.max \in Nat /\ f.rem \in 0 .. (SecondsPerDay - 1)
        /\ m \in Nat /\ m <= U64Max /\ gap \in Nat
    BY <1>2, <1>6, <1>10 DEF Integrations, U64
  <2>2. d = Raise(f.max, m) /\ d \in Nat
    BY <1>2, <1>6, <1>10, <2>1 DEF Raise
  <2>3. /\ av \in U64 /\ av <= m /\ av \in Nat /\ av <= f.avail + d
        /\ re \in 0 .. (SecondsPerDay - 1) /\ re <= f.rem
    BY <2>1, <2>2 DEF SatSub, U64, Raise
  <2>4. q = [f EXCEPT !.max = m, !.avail = av, !.rem = re]
    BY <1>4, <1>6, <1>10 DEF SetMaxOutflow, Integrations
  <2> HIDE DEF av, re, d, q
  <2>5. /\ q \in Integrations /\ q.max = m /\ q.avail = av /\ q.rem = re
        /\ q.ts = clock.ts /\ q.status = f.status
        /\ q.permitLiquidation = i.permitLiquidation
    BY <1>2, <1>6, <1>10, <2>3, <2>4 DEF Integrations
  <2>6. SecondsPerDay * av <= SecondsPerDay * f.avail + SecondsPerDay * d
    BY <2>1, <2>2, <2>3, DayMult
  <2>7. /\ SecondsPerDay * av \in Nat /\ SecondsPerDay * f.avail \in Nat
        /\ SecondsPerDay * d \in Nat
    BY <2>1, <2>2, <2>3, DayMult
  <2>8. Holds(q) <= Holds(f) + SecondsPerDay * d
    BY <2>1, <2>3, <2>5, <2>6, <2>7 DEF Holds
  <2>9. Holds(q) \in Nat
    BY <2>5, HoldsType
  <2>10. Holds(q) <= Earned(i, clock) + SecondsPerDay * d
    BY <1>7, <1>8, <2>7, <2>8, <2>9
  <2>11. q.avail <= q.max /\ q.status # "Uninitialized"
    BY <1>6, <2>3, <2>5
  <2>. QED  BY <2>2, <2>5, <2>10, <2>11 DEF q, d
<1>. QED  BY <1>9, <1>10

\* Charged, for a limit that was brought up to date in this step.
LEMMA ChargedNow ==
  ASSUME NEW b, NEW clk \in Clocks, b.ts = clk.ts, b.slope \in Int,
         Holds(b) \in Int, NEW out, NEW granted,
         SecondsPerDay * out + Holds(b) <= granted
  PROVE  Charged(b, out, granted, clk)
BY EarnedNow DEF Charged, Clocks

\* A grant raises one budget and no other.
LEMMA GrantEffect ==
  ASSUME OutflowTypeOK, NEW l \in Limited, NEW n \in Nat, Grant(l, n)
  PROVE  /\ budget' \in [Limited -> Nat]
         /\ budget'[l] = budget[l] + SecondsPerDay * n
         /\ \A k \in Limited \ {l} : budget'[k] = budget[k]
<1>1. SecondsPerDay * n \in Nat
  BY DayMult
<1>. QED  BY <1>1 DEF Grant, OutflowTypeOK

LEMMA LimitedFacts ==
  /\ TheReserve \in Limited /\ \A c \in Configs : c \in Limited /\ c # TheReserve
BY DEF Limited

-----------------------------------------------------------------------------
LEMMA InvInit == OutflowInit => OutflowInv
<1> SUFFICES ASSUME OutflowInit PROVE OutflowInv
  OBVIOUS
<1>1. /\ clock \in Clocks /\ clock.ts = 0 /\ clock.slot = 0
      /\ ReserveTerms.slope \in U64 /\ ReserveTerms.max \in U64
  BY DEF OutflowInit, Clocks
<1>2. /\ reserve \in Reserves /\ reserve.avail = reserve.max /\ reserve.rem = 0
      /\ reserve.avail = ReserveTerms.max /\ reserve.ts = 0 /\ reserve.lastBalance = 0
      /\ reserve.slope \in Nat
  BY <1>1 DEF OutflowInit, InitReserve, Reserves, ReserveStatus, U64
<1>3. NoIntegration \in Integrations
  BY DEF NoIntegration, Integrations, U64
<1>4. SecondsPerDay * ReserveTerms.max \in Nat /\ SecondsPerDay * 0 = 0
      /\ ReserveTerms.max \in Nat
  BY <1>1, DayMult DEF U64
<1>5. /\ budget \in [Limited -> Nat]
      /\ budget[TheReserve] = SecondsPerDay * ReserveTerms.max
      /\ \A c \in Configs : budget[c] = 0
  BY <1>4, LimitedFacts DEF OutflowInit
<1>6. "Active" \in ControllerStatus
  BY DEF ControllerStatus
<1>7. OutflowTypeOK
  <2>1. \A c \in Configs : integrations[c] = NoIntegration
    BY DEF OutflowInit
  <2>2. \A c \in Configs : integrations[c].avail <= integrations[c].max
    BY <2>1 DEF NoIntegration
  <2>3. reserve.avail <= reserve.max
    BY <1>2 DEF Reserves, U64
  <2>4. vault \in 0 .. Supply
    BY DEF OutflowInit, U64
  <2>. QED  BY <1>1, <1>2, <1>3, <1>5, <1>6, <2>2, <2>3, <2>4
            DEF OutflowInit, OutflowTypeOK
<1>8. BooksAgree
  BY <1>2 DEF OutflowInit, BooksAgree
<1>9. Charged(reserve, paid, budget[TheReserve], clock)
  <2>1. Holds(reserve) = SecondsPerDay * ReserveTerms.max
    BY <1>2, <1>4 DEF Holds
  <2>. QED  BY <1>1, <1>2, <1>4, <1>5, <2>1, ChargedNow DEF OutflowInit
<1>10. ASSUME NEW c \in Configs
       PROVE  Charged(integrations[c], sent[c], budget[c], clock)
  <2>1. /\ integrations[c] = NoIntegration /\ sent[c] = 0 /\ budget[c] = 0
    BY <1>5, <1>10 DEF OutflowInit
  <2>2. Holds(NoIntegration) = 0
    BY <1>4 DEF Holds, NoIntegration
  <2>3. NoIntegration.ts = 0 /\ NoIntegration.slope = 0
    BY DEF NoIntegration
  <2>. QED  BY <1>1, <1>4, <2>1, <2>2, <2>3, ChargedNow
<1>. QED  BY <1>7, <1>8, <1>9, <1>10 DEF OutflowInv

LEMMA InvSyncReserve ==
  ASSUME OutflowInv, SyncReserve
  PROVE  OutflowInv'
<1>1. OutflowTypeOK /\ reserve.lastBalance \in Nat /\ vault \in Nat
  BY DEF OutflowInv, OutflowTypeOK, Reserves, U64
<1>2. Grant(TheReserve, Booked)
  BY DEF SyncReserve
<1>3. /\ Synced \in Reserves /\ Synced.avail <= Synced.max
      /\ Synced.lastBalance = vault /\ Synced.ts = clock.ts /\ Synced.slope \in Int
      /\ Booked \in Nat
      /\ Holds(Synced) <= Earned(reserve, clock) + SecondsPerDay * Booked
  BY SyncedReserve DEF Reserves, U64
<1>4. /\ budget' \in [Limited -> Nat]
      /\ budget'[TheReserve] = budget[TheReserve] + SecondsPerDay * Booked
      /\ \A c \in Configs : budget'[c] = budget[c]
  BY <1>1, <1>2, <1>3, GrantEffect, LimitedFacts
<1>5. Charged(reserve, paid, budget[TheReserve], clock)'
  <2>1. SecondsPerDay * paid + Earned(reserve, clock) <= budget[TheReserve]
    BY DEF OutflowInv, Charged
  <2>2. /\ Holds(Synced) \in Nat /\ SecondsPerDay * paid \in Nat
        /\ SecondsPerDay * Booked \in Nat /\ budget[TheReserve] \in Nat
    BY <1>1, <1>3, HoldsType, DayMult, LimitedFacts DEF OutflowTypeOK
  <2>3. Earned(reserve, clock) \in Int
    BY EarnedType
  <2>4. SecondsPerDay * paid + Holds(Synced) <= budget'[TheReserve]
    BY <1>3, <1>4, <2>1, <2>2, <2>3
  <2>5. Charged(Synced, paid, budget'[TheReserve], clock)
    BY <1>1, <1>3, <2>2, <2>4, ChargedNow DEF OutflowTypeOK
  <2>. QED  BY <2>5 DEF SyncReserve
<1>6. ledger' = vault
  BY <1>1 DEF OutflowInv, OutflowTypeOK, BooksAgree, SyncReserve, SyncEvent
<1>7. BooksAgree'
  BY <1>3, <1>6 DEF OutflowInv, BooksAgree, SyncReserve
<1>8. OutflowTypeOK'
  BY <1>1, <1>3, <1>4, <1>6 DEF OutflowTypeOK, SyncReserve, govVars
<1>9. \A c \in Configs : Charged(integrations[c], sent[c], budget[c], clock)'
  BY <1>4 DEF OutflowInv, SyncReserve, Charged, Earned, Holds
<1>. QED  BY <1>5, <1>7, <1>8, <1>9 DEF OutflowInv

LEMMA InvInitializeIntegration ==
  ASSUME OutflowInv, NEW authority \in Authorities, NEW c \in Configs,
         NEW terms \in Terms[c], InitializeIntegration(authority, c, terms)
  PROVE  OutflowInv'
<1> DEFINE i == InitIntegration(terms)
<1>1. OutflowTypeOK /\ clock \in Clocks
  BY DEF OutflowInv, OutflowTypeOK
<1>2. terms \in [status : IntegrationStatus, permitLiquidation : BOOLEAN,
                 slope : U64, max : U64]
  OBVIOUS
<1>3. /\ i \in Integrations /\ i.avail <= i.max /\ i.ts = clock.ts
      /\ i.avail = terms.max /\ i.rem = 0 /\ i.slope \in Int
      /\ terms.max \in Nat
  BY <1>1, <1>2 DEF InitIntegration, Integrations, Clocks, U64
<1>4. /\ Grant(c, terms.max) /\ ~Initialized(integrations[c])
      /\ integrations' = [integrations EXCEPT ![c] = i]
      /\ UNCHANGED <<reserve, vault, rent, clock, paid, sent, credits, ledger,
                     changes, controller, permissions>>
      /\ signer' = authority
  BY DEF InitializeIntegration, Manages
<1> HIDE DEF i
<1>5. /\ budget' \in [Limited -> Nat]
      /\ budget'[c] = budget[c] + SecondsPerDay * terms.max
      /\ \A k \in Limited \ {c} : budget'[k] = budget[k]
  BY <1>1, <1>3, <1>4, GrantEffect, LimitedFacts
<1>6. /\ integrations' \in [Configs -> Integrations] /\ integrations'[c] = i
      /\ \A k \in Configs \ {c} : integrations'[k] = integrations[k]
  BY <1>1, <1>3, <1>4 DEF OutflowTypeOK
<1>7. Charged(i, sent[c], budget'[c], clock)
  <2>1. SecondsPerDay * sent[c] + Earned(integrations[c], clock) <= budget[c]
    BY DEF OutflowInv, Charged
  <2>2. Earned(integrations[c], clock) \in Nat
    BY EarnedType
  <2>3. Holds(i) = SecondsPerDay * terms.max /\ Holds(i) \in Nat
    BY <1>3, HoldsType, DayMult DEF Holds
  <2>4. SecondsPerDay * sent[c] \in Nat /\ budget[c] \in Nat
    <3>1. sent[c] \in Nat /\ budget[c] \in Nat
      BY <1>1, LimitedFacts DEF OutflowTypeOK
    <3>2. SecondsPerDay * sent[c] \in Nat
      BY <3>1, DayTimes
    <3>. QED  BY <3>1, <3>2
  <2>5. SecondsPerDay * sent[c] + Holds(i) <= budget'[c]
    BY <1>5, <2>1, <2>2, <2>3, <2>4
  <2>. QED  BY <1>1, <1>3, <2>3, <2>5, ChargedNow
<1>8. ASSUME NEW k \in Configs
      PROVE  Charged(integrations[k], sent[k], budget[k], clock)'
  <2>1. CASE k = c
    BY <1>4, <1>6, <1>7, <2>1
  <2>2. CASE k # c
    <3>1. Charged(integrations[k], sent[k], budget[k], clock)
      BY <1>8 DEF OutflowInv
    <3>. QED  BY <1>4, <1>5, <1>6, <1>8, <2>2, <3>1, LimitedFacts
              DEF Charged, Earned, Holds
  <2>. QED  BY <2>1, <2>2
<1>9. Charged(reserve, paid, budget[TheReserve], clock)'
  BY <1>4, <1>5, LimitedFacts DEF OutflowInv, Charged, Earned, Holds
<1>10. OutflowTypeOK'
  BY <1>1, <1>3, <1>4, <1>5, <1>6 DEF OutflowTypeOK
<1>11. BooksAgree'
  BY <1>4 DEF OutflowInv, BooksAgree
<1>. QED  BY <1>8, <1>9, <1>10, <1>11 DEF OutflowInv

LEMMA InvManageIntegration ==
  ASSUME OutflowInv, NEW authority \in Authorities, NEW c \in Configs,
         NEW status \in Option(IntegrationStatus), NEW slope \in Option(Slopes),
         NEW max \in Option(MaxOuts),
         ManageIntegration(authority, c, status, slope, max)
  PROVE  OutflowInv'
<1> DEFINE i == integrations[c]
           q == UpdateIntegration(i, status, slope, max)
           d == Raise(i.max, OrElse(max, i.max))
<1>1. /\ OutflowTypeOK /\ clock \in Clocks /\ i \in Integrations
      /\ i.avail <= i.max /\ i.ts <= clock.ts
  BY DEF OutflowInv, OutflowTypeOK, Charged
<1>2. /\ Grant(c, d) /\ Initialized(i)
      /\ integrations' = [integrations EXCEPT ![c] = q]
      /\ UNCHANGED <<reserve, vault, rent, clock, paid, sent, credits, ledger,
                     controller, permissions>>
      /\ changes' = changes + 1
      /\ signer' = authority
  BY DEF ManageIntegration, Manages
<1>3. slope \in Option(U64) /\ max \in Option(U64)
  BY DEF Option
<1>4. /\ q \in Integrations /\ q.avail <= q.max /\ q.ts = clock.ts
      /\ d \in Nat /\ Holds(q) <= Earned(i, clock) + SecondsPerDay * d
  BY <1>1, <1>2, <1>3, UpdatedIntegration DEF Initialized
<1>5. Earned(i, clock) \in Nat
  BY EarnedType
<1>6. SecondsPerDay * sent[c] + Earned(i, clock) <= budget[c]
  BY DEF OutflowInv, Charged
<1> HIDE DEF i, q, d
<1>7. /\ budget' \in [Limited -> Nat]
      /\ budget'[c] = budget[c] + SecondsPerDay * d
      /\ \A k \in Limited \ {c} : budget'[k] = budget[k]
  BY <1>1, <1>2, <1>4, GrantEffect, LimitedFacts
<1>8. /\ integrations' \in [Configs -> Integrations] /\ integrations'[c] = q
      /\ \A k \in Configs \ {c} : integrations'[k] = integrations[k]
  BY <1>1, <1>2, <1>4 DEF OutflowTypeOK
<1>9. Charged(q, sent[c], budget'[c], clock)
  <2>1. /\ Holds(q) \in Nat /\ SecondsPerDay * d \in Nat /\ q.slope \in Int
    BY <1>4, HoldsType, DayMult DEF Integrations, U64
  <2>2. SecondsPerDay * sent[c] \in Nat /\ budget[c] \in Nat
    <3>1. sent[c] \in Nat /\ budget[c] \in Nat
      BY <1>1, LimitedFacts DEF OutflowTypeOK
    <3>. QED  BY <3>1, DayMult
  <2>3. SecondsPerDay * sent[c] + Holds(q) <= budget'[c]
    BY <1>4, <1>5, <1>6, <1>7, <2>1, <2>2
  <2>. QED  BY <1>1, <1>4, <2>1, <2>3, ChargedNow
<1>10. ASSUME NEW k \in Configs
       PROVE  Charged(integrations[k], sent[k], budget[k], clock)'
  <2>1. CASE k = c
    BY <1>2, <1>8, <1>9, <2>1
  <2>2. CASE k # c
    <3>1. Charged(integrations[k], sent[k], budget[k], clock)
      BY <1>10 DEF OutflowInv
    <3>. QED  BY <1>2, <1>7, <1>8, <1>10, <2>2, <3>1, LimitedFacts
              DEF Charged, Earned, Holds
  <2>. QED  BY <2>1, <2>2
<1>11. Charged(reserve, paid, budget[TheReserve], clock)'
  BY <1>2, <1>7, LimitedFacts DEF OutflowInv, Charged, Earned, Holds
<1>12. OutflowTypeOK'
  BY <1>1, <1>2, <1>4, <1>7, <1>8 DEF OutflowTypeOK
<1>13. BooksAgree'
  BY <1>2 DEF OutflowInv, BooksAgree
<1>. QED  BY <1>10, <1>11, <1>12, <1>13 DEF OutflowInv

\* A debit that the limit covers lowers what it holds by the outflow.
LEMMA Debited ==
  ASSUME NEW amount \in Nat
  PROVE  /\ \A i \in Integrations : (WithinRateLimit(i, amount) /\ i.avail <= i.max) =>
              LET q == DebitRateLimit(i, amount)
              IN  /\ q \in Integrations
                  /\ q.avail <= q.max
                  /\ q.ts = i.ts
                  /\ q.status = i.status
                  /\ q.permitLiquidation = i.permitLiquidation
                  /\ Holds(q) = Holds(i) - SecondsPerDay * amount
         /\ \A r \in Reserves : (WithinRateLimit(r, amount) /\ r.avail <= r.max) =>
              Holds(UpdateForOutflow(r, amount)) = Holds(r) - SecondsPerDay * amount
<1>1. ASSUME NEW i \in Integrations, WithinRateLimit(i, amount), i.avail <= i.max
      PROVE  LET q == DebitRateLimit(i, amount)
             IN  /\ q \in Integrations
                 /\ q.avail <= q.max
                 /\ q.ts = i.ts
                 /\ q.status = i.status
                 /\ q.permitLiquidation = i.permitLiquidation
                 /\ Holds(q) = Holds(i) - SecondsPerDay * amount
  <2> DEFINE q == DebitRateLimit(i, amount)
  <2>1. /\ i.avail \in Nat /\ i.avail <= U64Max /\ i.max \in Nat /\ i.rem \in Nat
        /\ amount <= i.avail
    BY <1>1 DEF Integrations, U64, WithinRateLimit
  <2>2. q = [i EXCEPT !.avail = i.avail - amount]
    BY <1>1, <2>1 DEF DebitRateLimit, SatSub, Integrations
  <2>3. /\ q \in Integrations /\ q.avail = i.avail - amount /\ q.rem = i.rem
        /\ q.max = i.max /\ q.ts = i.ts /\ q.status = i.status
        /\ q.permitLiquidation = i.permitLiquidation
    BY <1>1, <2>1, <2>2 DEF Integrations, U64
  <2> HIDE DEF q
  <2>4. SecondsPerDay * q.avail = SecondsPerDay * i.avail - SecondsPerDay * amount
    BY <2>1, <2>3, DayMult
  <2>5. SecondsPerDay * i.avail \in Nat /\ SecondsPerDay * amount \in Nat
    BY <2>1, DayMult
  <2>6. Holds(q) = Holds(i) - SecondsPerDay * amount
    BY <2>1, <2>3, <2>4, <2>5 DEF Holds
  <2>. QED  BY <1>1, <2>1, <2>3, <2>6 DEF q
<1>2. ASSUME NEW r \in Reserves, WithinRateLimit(r, amount), r.avail <= r.max
      PROVE  Holds(UpdateForOutflow(r, amount)) = Holds(r) - SecondsPerDay * amount
  <2> DEFINE q == UpdateForOutflow(r, amount)
  <2>1. r.avail \in Nat /\ r.rem \in Nat /\ amount <= r.avail
    BY <1>2 DEF Reserves, U64, WithinRateLimit
  <2>2. q.avail = r.avail - amount /\ q.rem = r.rem
    BY <1>2, <2>1 DEF UpdateForOutflow, DebitRateLimit, SatSub, Reserves
  <2> HIDE DEF q
  <2>3. SecondsPerDay * q.avail = SecondsPerDay * r.avail - SecondsPerDay * amount
    BY <2>1, <2>2, DayMult
  <2>4. SecondsPerDay * r.avail \in Nat /\ SecondsPerDay * amount \in Nat
    BY <2>1, DayMult
  <2>5. Holds(q) = Holds(r) - SecondsPerDay * amount
    BY <2>1, <2>2, <2>3, <2>4 DEF Holds
  <2>. QED  BY <2>5 DEF q
<1>. QED  BY <1>1, <1>2

LEMMA InvPush ==
  ASSUME OutflowInv, NEW authority \in Authorities, NEW c \in Configs,
         NEW amount \in Amounts, Push(authority, c, amount)
  PROVE  OutflowInv'
<1> DEFINE i == integrations[c]
           f == RefreshedIntegration(c)
           q == DebitRateLimit(f, amount)
           r == UpdateForOutflow(Synced, amount)
           day == SecondsPerDay * amount
<1>1. /\ OutflowTypeOK /\ clock \in Clocks /\ i \in Integrations
      /\ i.avail <= i.max /\ i.ts <= clock.ts
      /\ amount \in Nat /\ day \in Nat /\ vault \in Nat /\ amount <= vault
      /\ reserve.lastBalance \in Nat
  BY DayMult DEF OutflowInv, OutflowTypeOK, Charged, Push, Reserves, U64
<1>2. /\ Leaves(c, amount) = amount /\ WithinBoth(c, amount)
      /\ Grant(TheReserve, Booked)
  BY DEF Push, TransferMatches
<1>3. /\ vault' = vault - amount
      /\ integrations' = [integrations EXCEPT ![c] = q]
      /\ reserve' = r
      /\ paid' = paid + amount
      /\ sent' = [sent EXCEPT ![c] = sent[c] + amount]
      /\ credits' = [credits EXCEPT ![c] = credits[c] + amount]
      /\ ledger' = ledger + SyncEvent(reserve, vault) - amount
      /\ signer' = authority
      /\ UNCHANGED <<controller, permissions, rent, clock, changes>>
  BY <1>2 DEF Push
<1>4. /\ f \in Integrations /\ f.avail <= f.max /\ f.ts = clock.ts
      /\ Holds(f) <= Earned(i, clock) /\ Earned(i, clock) \in Nat
  BY <1>1, RefreshIntegration, EarnedType DEF RefreshedIntegration
<1>5. /\ Synced \in Reserves /\ Synced.avail <= Synced.max
      /\ Synced.lastBalance = vault /\ Synced.ts = clock.ts
      /\ Booked \in Nat /\ Earned(reserve, clock) \in Nat
      /\ Holds(Synced) <= Earned(reserve, clock) + SecondsPerDay * Booked
  BY SyncedReserve, EarnedType
<1>6. WithinRateLimit(f, amount) /\ WithinRateLimit(Synced, amount)
  BY <1>2 DEF WithinBoth
<1>7. /\ q \in Integrations /\ q.avail <= q.max /\ q.ts = clock.ts
      /\ Holds(q) = Holds(f) - day
  BY <1>1, <1>4, <1>6, Debited
<1>8. /\ r \in Reserves /\ r.avail <= r.max /\ r.ts = clock.ts
      /\ r.lastBalance = vault - amount
      /\ Holds(r) = Holds(Synced) - day
  <2>1. Holds(r) = Holds(Synced) - day
    BY <1>1, <1>5, <1>6, Debited
  <2>. QED  BY <1>1, <1>5, <2>1, OutflowKeeps
<1>9. /\ SecondsPerDay * sent[c] + Earned(i, clock) <= budget[c]
      /\ SecondsPerDay * paid + Earned(reserve, clock) <= budget[TheReserve]
  BY DEF OutflowInv, Charged
<1> HIDE DEF i, f, q, r
<1>10. /\ budget' \in [Limited -> Nat]
       /\ budget'[TheReserve] = budget[TheReserve] + SecondsPerDay * Booked
       /\ \A k \in Configs : budget'[k] = budget[k]
  BY <1>1, <1>2, <1>5, GrantEffect, LimitedFacts
<1>11. /\ sent[c] \in Nat /\ paid \in Nat /\ budget[c] \in Nat
       /\ budget[TheReserve] \in Nat
  BY <1>1, LimitedFacts DEF OutflowTypeOK
<1>12. /\ SecondsPerDay * (sent[c] + amount) = SecondsPerDay * sent[c] + day
       /\ SecondsPerDay * (paid + amount) = SecondsPerDay * paid + day
       /\ SecondsPerDay * sent[c] \in Nat /\ SecondsPerDay * paid \in Nat
       /\ SecondsPerDay * Booked \in Nat
  <2>1. SecondsPerDay * (sent[c] + amount) = SecondsPerDay * sent[c] + day
    BY <1>1, <1>11, DayMult
  <2>2. SecondsPerDay * (paid + amount) = SecondsPerDay * paid + day
    BY <1>1, <1>11, DayMult
  <2>3. SecondsPerDay * sent[c] \in Nat
    BY <1>11, DayMult
  <2>4. SecondsPerDay * paid \in Nat
    BY <1>11, DayMult
  <2>5. SecondsPerDay * Booked \in Nat
    BY <1>5, DayMult
  <2>. QED  BY <2>1, <2>2, <2>3, <2>4, <2>5
<1>13. /\ Holds(f) \in Nat /\ Holds(q) \in Nat /\ Holds(Synced) \in Nat
       /\ Holds(r) \in Nat
  BY <1>4, <1>5, <1>7, <1>8, HoldsType
<1>14. Charged(q, sent[c] + amount, budget'[c], clock)
  <2>1. SecondsPerDay * (sent[c] + amount) + Holds(q) <= budget'[c]
    BY <1>1, <1>4, <1>7, <1>9, <1>10, <1>11, <1>12, <1>13
  <2>2. q.slope \in Int
    BY <1>7 DEF Integrations, U64
  <2>. QED  BY <1>1, <1>7, <1>13, <2>1, <2>2, ChargedNow
<1>15. Charged(r, paid + amount, budget'[TheReserve], clock)
  <2>1. SecondsPerDay * (paid + amount) + Holds(r) <= budget'[TheReserve]
    BY <1>1, <1>5, <1>8, <1>9, <1>10, <1>11, <1>12, <1>13
  <2>2. r.slope \in Int
    BY <1>8 DEF Reserves, U64
  <2>. QED  BY <1>1, <1>8, <1>13, <2>1, <2>2, ChargedNow
<1>16. /\ integrations' \in [Configs -> Integrations] /\ integrations'[c] = q
       /\ \A k \in Configs \ {c} : integrations'[k] = integrations[k]
       /\ sent' \in [Configs -> Nat] /\ sent'[c] = sent[c] + amount
       /\ \A k \in Configs \ {c} : sent'[k] = sent[k]
  BY <1>1, <1>3, <1>7, <1>11 DEF OutflowTypeOK
<1>17. ASSUME NEW k \in Configs
       PROVE  Charged(integrations[k], sent[k], budget[k], clock)'
  <2>1. CASE k = c
    BY <1>3, <1>14, <1>16, <2>1
  <2>2. CASE k # c
    <3>1. Charged(integrations[k], sent[k], budget[k], clock)
      BY <1>17 DEF OutflowInv
    <3>. QED  BY <1>3, <1>10, <1>16, <1>17, <2>2, <3>1
              DEF Charged, Earned, Holds
  <2>. QED  BY <2>1, <2>2
<1>18. Charged(reserve, paid, budget[TheReserve], clock)'
  BY <1>3, <1>15
<1>19. credits = sent /\ ledger = reserve.lastBalance
  BY DEF OutflowInv, BooksAgree
<1>20. ledger' = vault - amount
  BY <1>1, <1>3, <1>19 DEF SyncEvent
<1>21. BooksAgree'
  BY <1>3, <1>8, <1>19, <1>20 DEF BooksAgree
<1>22. OutflowTypeOK'
  <2>1. vault' \in 0 .. Supply
    BY <1>1, <1>3 DEF OutflowTypeOK, U64
  <2>2. paid' \in Nat /\ ledger' \in Int
    BY <1>1, <1>3, <1>11, <1>20
  <2>3. credits' \in [Configs -> Nat]
    BY <1>3, <1>16, <1>19
  <2>4. \A k \in Configs : integrations'[k].avail <= integrations'[k].max
    BY <1>1, <1>7, <1>16 DEF OutflowTypeOK
  <2>. QED  BY <1>1, <1>3, <1>8, <1>10, <1>16, <2>1, <2>2, <2>3, <2>4
            DEF OutflowTypeOK
<1>. QED  BY <1>17, <1>18, <1>21, <1>22 DEF OutflowInv

\* The steps that move neither tokens nor limits.
LEMMA InvOthers ==
  ASSUME OutflowInv, UNCHANGED <<integrations, reserve, clock, history>>,
         vault' \in 0 .. Supply, rent' \in BOOLEAN, changes' \in Nat,
         controller' \in ControllerStatus,
         permissions' \in [Authorities -> Permissions],
         signer' \in Authorities \cup {NoOne}
  PROVE  OutflowInv'
<1>1. OutflowTypeOK'
  BY DEF OutflowInv, OutflowTypeOK, history
<1>2. BooksAgree'
  BY DEF OutflowInv, BooksAgree, history
<1>3. \A c \in Configs : Charged(integrations[c], sent[c], budget[c], clock)'
  BY DEF OutflowInv, history, Charged, Earned, Holds
<1>4. Charged(reserve, paid, budget[TheReserve], clock)'
  BY DEF OutflowInv, history, Charged, Earned, Holds
<1>. QED  BY <1>1, <1>2, <1>3, <1>4 DEF OutflowInv

LEMMA InvGovern ==
  ASSUME OutflowInv, Govern
  PROVE  OutflowInv'
<1> USE GovernanceAssumption
<1>1. OutflowTypeOK
  BY DEF OutflowInv
<1>2. /\ UNCHANGED <<integrations, reserve, clock, history>>
      /\ vault' \in 0 .. Supply /\ rent' \in BOOLEAN /\ changes' \in Nat
  BY <1>1 DEF Govern, accounts, OutflowTypeOK
<1>3. ASSUME NEW authority \in Authorities, NEW status \in ControllerStatus,
             ManageController(authority, status)
      PROVE  /\ controller' \in ControllerStatus
             /\ permissions' \in [Authorities -> Permissions]
             /\ signer' \in Authorities \cup {NoOne}
  BY <1>1, <1>3 DEF ManageController, OutflowTypeOK
<1>4. ASSUME NEW super \in Authorities, NEW authority \in Authorities,
             NEW status \in PermissionStatus, NEW privileges \in Grants,
             ManagePermission(super, authority, status, privileges)
      PROVE  /\ controller' \in ControllerStatus
             /\ permissions' \in [Authorities -> Permissions]
             /\ signer' \in Authorities \cup {NoOne}
  <2>1. /\ controller' = controller /\ signer' = super
        /\ \/ SetPermission(authority, status, privileges)
           \/ SuspendPermission(authority, status)
    BY <1>4 DEF ManagePermission
  <2>2. permissions' \in [Authorities -> Permissions]
    <3>1. CASE SetPermission(authority, status, privileges)
      <4>1. [status |-> status, privileges |-> privileges] \in Permissions
        BY DEF Permissions
      <4>. QED  BY <1>1, <3>1, <4>1 DEF SetPermission, OutflowTypeOK
    <3>2. CASE SuspendPermission(authority, status)
      <4>1. [permissions[authority] EXCEPT !.status = status] \in Permissions
        BY <1>1 DEF OutflowTypeOK, Permissions
      <4>. QED  BY <1>1, <3>2, <4>1 DEF SuspendPermission, OutflowTypeOK
    <3>. QED  BY <2>1, <3>1, <3>2
  <2>. QED  BY <1>1, <2>1, <2>2 DEF OutflowTypeOK
<1>5. /\ controller' \in ControllerStatus
      /\ permissions' \in [Authorities -> Permissions]
      /\ signer' \in Authorities \cup {NoOne}
  BY <1>3, <1>4 DEF Govern
<1>. QED  BY <1>2, <1>5, InvOthers

LEMMA InvClaimRent ==
  ASSUME OutflowInv, NEW authority \in Authorities, ClaimRent(authority)
  PROVE  OutflowInv'
<1>1. OutflowTypeOK
  BY DEF OutflowInv
<1>. QED  BY <1>1, InvOthers DEF OutflowTypeOK, ClaimRent, history

LEMMA InvDeposit ==
  ASSUME OutflowInv, NEW amount \in Deposits, Deposit(amount)
  PROVE  OutflowInv'
<1>1. OutflowTypeOK /\ amount \in Nat
  BY DEF OutflowInv
<1>2. vault' \in 0 .. Supply
  BY <1>1 DEF OutflowTypeOK, Deposit, U64
<1>. QED  BY <1>1, <1>2, InvOthers DEF OutflowTypeOK, Deposit, govVars

\* A second adds the same to what a limit has earned and to its budget.
LEMMA InvTick ==
  ASSUME OutflowInv, Tick
  PROVE  OutflowInv'
<1>1. OutflowTypeOK /\ clock \in Clocks
  BY DEF OutflowInv, OutflowTypeOK
<1>2. /\ clock' \in Clocks /\ clock'.ts = clock.ts + 1
      /\ budget' = [l \in Limited |-> budget[l] + SlopeOf(l)]
      /\ UNCHANGED <<controller, permissions, signer, integrations, reserve,
                     vault, rent, paid, sent, credits, ledger, changes>>
  BY <1>1 DEF Tick, Clocks, govVars, accounts
<1>3. /\ SlopeOf(TheReserve) = reserve.slope
      /\ \A c \in Configs : SlopeOf(c) = integrations[c].slope
  BY LimitedFacts DEF SlopeOf
<1>4. /\ reserve.slope \in Nat
      /\ \A c \in Configs : integrations[c].slope \in Nat
  BY <1>1 DEF OutflowTypeOK, Reserves, Integrations, U64
<1>5. budget' \in [Limited -> Nat]
  <2>1. \A l \in Limited : SlopeOf(l) \in Nat
    BY <1>3, <1>4 DEF Limited
  <2>. QED  BY <1>1, <1>2, <2>1 DEF OutflowTypeOK
<1>6. ASSUME NEW b, NEW out \in Nat, NEW granted \in Nat, b.slope \in Nat,
             b.ts \in Nat, Holds(b) \in Nat, Charged(b, out, granted, clock)
      PROVE  Charged(b, out, granted + b.slope, clock')
  <2>1. clock'.ts - b.ts = (clock.ts - b.ts) + 1 /\ clock.ts - b.ts \in Nat
        /\ b.ts <= clock'.ts
    BY <1>1, <1>2, <1>6 DEF Charged, Clocks
  <2>2. b.slope * (clock'.ts - b.ts) = b.slope * (clock.ts - b.ts) + b.slope
    BY <1>6, <2>1
  <2>3. b.slope * (clock.ts - b.ts) \in Nat /\ SecondsPerDay * out \in Nat
    BY <1>6, <2>1, DayMult
  <2>4. SecondsPerDay * out + (Holds(b) + b.slope * (clock.ts - b.ts)) <= granted
    BY <1>6 DEF Charged, Earned
  <2>5. SecondsPerDay * out + (Holds(b) + b.slope * (clock'.ts - b.ts))
          <= granted + b.slope
    BY <1>6, <2>2, <2>3, <2>4
  <2>. QED  BY <2>1, <2>5 DEF Charged, Earned
<1>7. ASSUME NEW c \in Configs
      PROVE  Charged(integrations[c], sent[c], budget[c], clock)'
  <2>1. /\ integrations[c] \in Integrations /\ sent[c] \in Nat
        /\ budget[c] \in Nat /\ integrations[c].ts \in Nat
    BY <1>1, <1>7, LimitedFacts DEF OutflowTypeOK, Integrations
  <2>2. Holds(integrations[c]) \in Nat
    BY <2>1, HoldsType
  <2>3. Charged(integrations[c], sent[c], budget[c], clock)
    BY <1>7 DEF OutflowInv
  <2>4. Charged(integrations[c], sent[c], budget[c] + integrations[c].slope, clock')
    BY <1>4, <1>6, <2>1, <2>2, <2>3
  <2>5. budget'[c] = budget[c] + integrations[c].slope
    BY <1>2, <1>3, LimitedFacts
  <2>. QED  BY <1>2, <2>4, <2>5
<1>8. Charged(reserve, paid, budget[TheReserve], clock)'
  <2>1. /\ reserve \in Reserves /\ paid \in Nat
        /\ budget[TheReserve] \in Nat /\ reserve.ts \in Nat
    BY <1>1, LimitedFacts DEF OutflowTypeOK, Reserves
  <2>2. Holds(reserve) \in Nat
    BY <2>1, HoldsType
  <2>3. Charged(reserve, paid, budget[TheReserve], clock)
    BY DEF OutflowInv
  <2>4. Charged(reserve, paid, budget[TheReserve] + reserve.slope, clock')
    BY <1>4, <1>6, <2>1, <2>2, <2>3
  <2>5. budget'[TheReserve] = budget[TheReserve] + reserve.slope
    BY <1>2, <1>3, LimitedFacts
  <2>. QED  BY <1>2, <2>4, <2>5
<1>9. OutflowTypeOK'
  BY <1>1, <1>2, <1>5 DEF OutflowTypeOK
<1>10. BooksAgree'
  BY <1>2 DEF OutflowInv, BooksAgree
<1>. QED  BY <1>7, <1>8, <1>9, <1>10 DEF OutflowInv

LEMMA InvStutter ==
  ASSUME OutflowInv, UNCHANGED outVars
  PROVE  OutflowInv'
<1>1. OutflowTypeOK
  BY DEF OutflowInv
<1>. QED  BY <1>1, InvOthers DEF OutflowTypeOK, outVars, govVars, accounts

LEMMA InvNext == OutflowInv /\ [OutflowNext]_outVars => OutflowInv'
<1> SUFFICES ASSUME OutflowInv, [OutflowNext]_outVars PROVE OutflowInv'
  OBVIOUS
<1>. QED  BY InvSyncReserve, InvInitializeIntegration, InvManageIntegration,
             InvPush, InvClaimRent, InvGovern, InvDeposit, InvTick, InvStutter
          DEF OutflowNext

\* OutflowInv is invariant.
THEOREM OutflowInvariant == OutflowSpec => []OutflowInv
<1>. QED  BY InvInit, InvNext, PTL DEF OutflowSpec

-----------------------------------------------------------------------------
\* Accounts and histories keep their types, and no limit exceeds its cap.
THEOREM OutflowTypes == OutflowSpec => []OutflowTypeOK
<1>1. OutflowInv => OutflowTypeOK
  BY DEF OutflowInv
<1>. QED  BY <1>1, OutflowInvariant, PTL

\* The credits of the integrations are the tokens that reached their
\* destinations, and the events of the reserve explain its balance.
THEOREM OutflowBooksAgree == OutflowSpec => []BooksAgree
<1>1. OutflowInv => BooksAgree
  BY DEF OutflowInv
<1>. QED  BY <1>1, OutflowInvariant, PTL

\* No destination receives more than its integration was granted, and all
\* together not more than the reserve was.
THEOREM OutflowIsBounded == OutflowSpec => []OutflowBounded
<1>1. OutflowInv => OutflowBounded
  <2> SUFFICES ASSUME OutflowInv PROVE OutflowBounded
    OBVIOUS
  <2>1. ASSUME NEW c \in Configs
        PROVE  SecondsPerDay * sent[c] <= budget[c]
    <3>1. /\ SecondsPerDay * sent[c] + Earned(integrations[c], clock) <= budget[c]
          /\ Earned(integrations[c], clock) \in Nat
      BY <2>1, EarnedType DEF OutflowInv, Charged
    <3>2. sent[c] \in Nat /\ budget[c] \in Nat
      BY <2>1, LimitedFacts DEF OutflowInv, OutflowTypeOK
    <3>3. SecondsPerDay * sent[c] \in Nat
      BY <3>2, DayMult
    <3>. QED  BY <3>1, <3>2, <3>3
  <2>2. SecondsPerDay * paid <= budget[TheReserve]
    <3>1. /\ SecondsPerDay * paid + Earned(reserve, clock) <= budget[TheReserve]
          /\ Earned(reserve, clock) \in Nat
      BY EarnedType DEF OutflowInv, Charged
    <3>2. paid \in Nat /\ budget[TheReserve] \in Nat
      BY LimitedFacts DEF OutflowInv, OutflowTypeOK
    <3>3. SecondsPerDay * paid \in Nat
      BY <3>2, DayMult
    <3>. QED  BY <3>1, <3>2, <3>3
  <2>. QED  BY <2>1, <2>2 DEF OutflowBounded
<1>. QED  BY <1>1, OutflowInvariant, PTL

-----------------------------------------------------------------------------
\* An integration that exists goes on to exist, on the terms it was created on.
Kept(c) ==
  integrations[c].status # "Uninitialized" =>
    /\ integrations'[c].status # "Uninitialized"
    /\ integrations'[c].permitLiquidation = integrations[c].permitLiquidation

\* What a step may take out, and by whom.
Authorized ==
  /\ \A c \in Configs : sent'[c] # sent[c] =>
       /\ controller = "Active"
       /\ \/ /\ c.kind = "SplTokenExternal"
             /\ "can_invoke_external_transfer" \in Effective(permissions[signer'])
          \/ /\ c.kind = "CctpBridge"
             /\ \/ "can_reallocate" \in Effective(permissions[signer'])
                \/ /\ "can_liquidate" \in Effective(permissions[signer'])
                   /\ integrations[c].permitLiquidation
  /\ rent' # rent => "can_reallocate" \in Effective(permissions[signer'])

LEMMA AuthorizedStep ==
  ASSUME OutflowInv, [OutflowNext]_outVars
  PROVE  Authorized
<1>1. OutflowTypeOK
  BY DEF OutflowInv
<1>2. {"can_invoke_external_transfer", "can_reallocate", "can_liquidate"}
        \subseteq Privileges
  BY DEF Privileges
<1>3. ASSUME NEW authority \in Authorities, NEW c \in Configs,
             NEW amount \in Amounts, Push(authority, c, amount)
      PROVE  Authorized
  <2>1. \A k \in Configs \ {c} : sent'[k] = sent[k]
    BY <1>1, <1>3 DEF Push, OutflowTypeOK
  <2>2. controller = "Active" /\ signer' = authority /\ rent' = rent
    BY <1>3 DEF Push
  <2>3. MayPush(permissions[authority], c)
    BY <1>3 DEF Push
  <2>4. \/ /\ c.kind = "SplTokenExternal"
           /\ "can_invoke_external_transfer" \in Effective(permissions[authority])
        \/ /\ c.kind = "CctpBridge"
           /\ \/ "can_reallocate" \in Effective(permissions[authority])
              \/ /\ "can_liquidate" \in Effective(permissions[authority])
                 /\ integrations[c].permitLiquidation
    BY <1>2, <2>3 DEF MayPush, CanLiquidate, Effective
  <2>. QED  BY <2>1, <2>2, <2>4 DEF Authorized
<1>4. ASSUME NEW authority \in Authorities, ClaimRent(authority)
      PROVE  Authorized
  BY <1>2, <1>4 DEF ClaimRent, history, Authorized, Effective
<1>5. CASE sent' = sent /\ rent' = rent
  BY <1>5 DEF Authorized
<1>. QED  BY <1>3, <1>4, <1>5 DEF OutflowNext, SyncReserve,
             InitializeIntegration, ManageIntegration, Govern, Deposit, Tick,
             outVars, accounts, history

LEMMA KeptStep ==
  ASSUME OutflowInv, [OutflowNext]_outVars, NEW k \in Configs
  PROVE  Kept(k)
<1>1. OutflowTypeOK
  BY DEF OutflowInv
<1>2. ASSUME NEW c \in Configs, NEW q,
             integrations' = [integrations EXCEPT ![c] = q],
             integrations[c].status # "Uninitialized" =>
               /\ q.status # "Uninitialized"
               /\ q.permitLiquidation = integrations[c].permitLiquidation
      PROVE  Kept(k)
  <2>1. integrations'[c] = q
        /\ \A d \in Configs \ {c} : integrations'[d] = integrations[d]
    BY <1>1, <1>2 DEF OutflowTypeOK
  <2>. QED  BY <1>2, <2>1 DEF Kept
<1>3. ASSUME NEW authority \in Authorities, NEW c \in Configs,
             NEW terms \in Terms[c], InitializeIntegration(authority, c, terms)
      PROVE  Kept(k)
  BY <1>2, <1>3 DEF InitializeIntegration, Initialized
<1>4. ASSUME NEW authority \in Authorities, NEW c \in Configs,
             NEW status \in Option(IntegrationStatus),
             NEW slope \in Option(Slopes), NEW max \in Option(MaxOuts),
             ManageIntegration(authority, c, status, slope, max)
      PROVE  Kept(k)
  <2> DEFINE q == UpdateIntegration(integrations[c], status, slope, max)
  <2>1. /\ clock \in Clocks /\ integrations[c] \in Integrations
        /\ integrations[c].avail <= integrations[c].max
        /\ integrations[c].ts <= clock.ts
        /\ integrations[c].status # "Uninitialized"
        /\ slope \in Option(U64) /\ max \in Option(U64)
    BY <1>4 DEF OutflowInv, OutflowTypeOK, Charged, ManageIntegration,
       Initialized, Option
  <2>2. /\ q.status # "Uninitialized"
        /\ q.permitLiquidation = integrations[c].permitLiquidation
    BY <2>1, UpdatedIntegration
  <2>3. integrations' = [integrations EXCEPT ![c] = q]
    BY <1>4 DEF ManageIntegration
  <2> HIDE DEF q
  <2>. QED  BY <1>2, <2>2, <2>3
<1>5. ASSUME NEW authority \in Authorities, NEW c \in Configs,
             NEW amount \in Amounts, Push(authority, c, amount)
      PROVE  Kept(k)
  <2> DEFINE f == RefreshedIntegration(c)
             q == DebitRateLimit(f, amount)
  <2>1. /\ clock \in Clocks /\ integrations[c] \in Integrations
        /\ integrations[c].avail <= integrations[c].max
        /\ integrations[c].ts <= clock.ts /\ amount \in Nat
    BY DEF OutflowInv, OutflowTypeOK, Charged
  <2>2. /\ f \in Integrations /\ f.avail <= f.max
        /\ f.status = integrations[c].status
        /\ f.permitLiquidation = integrations[c].permitLiquidation
    BY <2>1, RefreshIntegration DEF RefreshedIntegration
  <2>3. WithinRateLimit(f, amount)
    BY <1>5 DEF Push, WithinBoth
  <2>4. integrations' = [integrations EXCEPT ![c] = q]
    BY <1>5 DEF Push
  <2> HIDE DEF f
  <2>5. q.status = f.status /\ q.permitLiquidation = f.permitLiquidation
    BY <2>1, <2>2, <2>3, Debited
  <2> HIDE DEF q
  <2>. QED  BY <1>2, <2>2, <2>4, <2>5
<1>6. CASE integrations' = integrations
  BY <1>6 DEF Kept
<1>. QED  BY <1>3, <1>4, <1>5, <1>6 DEF OutflowNext, SyncReserve, ClaimRent,
             Govern, Deposit, Tick, outVars, accounts

\* Tokens leave only as the privileges of the signer, the status of the
\* controller and the terms of the integration allow, and those terms stay as
\* they were when it was created; lamports leave only by one who reallocates.
THEOREM OutflowContained == OutflowSpec => Contained
<1>1. OutflowInv /\ [OutflowNext]_outVars => Authorized /\ \A c \in Configs : Kept(c)
  BY AuthorizedStep, KeptStep
<1>2. Authorized /\ (\A c \in Configs : Kept(c)) =>
        [/\ \A c \in Configs : sent'[c] # sent[c] =>
              /\ controller = "Active"
              /\ \/ /\ c.kind = "SplTokenExternal"
                    /\ "can_invoke_external_transfer"
                         \in Effective(permissions[signer'])
                 \/ /\ c.kind = "CctpBridge"
                    /\ \/ "can_reallocate" \in Effective(permissions[signer'])
                       \/ /\ "can_liquidate" \in Effective(permissions[signer'])
                          /\ integrations[c].permitLiquidation
         /\ rent' # rent => "can_reallocate" \in Effective(permissions[signer'])
         /\ \A c \in Configs : integrations[c].status # "Uninitialized" =>
              /\ integrations'[c].status # "Uninitialized"
              /\ integrations'[c].permitLiquidation
                   = integrations[c].permitLiquidation
        ]_outVars
  BY DEF Authorized, Kept
<1>. QED  BY <1>1, <1>2, OutflowInvariant, PTL DEF Contained, OutflowSpec

\* A frozen controller keeps its accounts, tokens and lamports as they are, one
\* whose pushes and pulls are frozen its tokens.
THEOREM OutflowFrozenIsStill == OutflowSpec => FrozenIsStill
<1>1. [OutflowNext]_outVars =>
        [/\ controller = "Frozen" =>
              UNCHANGED <<integrations, reserve, rent, paid, sent, credits,
                          ledger, permissions>>
         /\ controller = "PushPullFrozen" => UNCHANGED <<paid, sent, credits>>
        ]_outVars
  BY DEF OutflowNext, SyncReserve, InitializeIntegration, ManageIntegration,
     Manages, Halted, Push, ClaimRent, Govern, ManageController,
     ManagePermission, Deposit, Tick, outVars, govVars, accounts, history
<1>. QED  BY <1>1, PTL DEF FrozenIsStill, OutflowSpec
-----------------------------------------------------------------------------
LEMMA AmountType == \A amount \in Amounts : amount \in Nat /\ amount \in Int
<1>1. Amounts \subseteq Nat
  OBVIOUS
<1> HIDE RateLimitAssumption, OutflowAssumption
<1>2. \A amount \in Amounts : amount \in Nat
  BY <1>1
<1>. QED  BY <1>2

\* Every holder of a limit, as a bucket.
LEMMA AccountFacts ==
  ASSUME OutflowInv, NEW l \in Limited
  PROVE  /\ IsLimit(Account(l)) /\ Account(l).ts <= clock.ts /\ clock \in Clocks
         /\ Account(TheReserve) = reserve
         /\ \A c \in Configs : Account(c) = integrations[c]
<1>1. clock \in Clocks
  BY DEF OutflowInv, OutflowTypeOK
<1>2. Account(TheReserve) = reserve /\ \A c \in Configs : Account(c) = integrations[c]
  BY LimitedFacts DEF Account
<1>3. CASE l = TheReserve
  BY <1>1, <1>2, <1>3, ReserveIsLimit DEF OutflowInv, OutflowTypeOK, Charged
<1>4. CASE l \in Configs
  <2>1. /\ integrations[l] \in Integrations
        /\ integrations[l].avail <= integrations[l].max
        /\ integrations[l].ts <= clock.ts
    BY <1>4 DEF OutflowInv, OutflowTypeOK, Charged
  <2>2. IsLimit(integrations[l])
    BY <2>1 DEF IsLimit, LimitFields, Integrations
  <2>. QED  BY <1>1, <1>2, <1>4, <2>1, <2>2
<1>. QED  BY <1>3, <1>4 DEF Limited

LEMMA AccountNext ==
  /\ Account(TheReserve)' = reserve'
  /\ \A c \in Configs : Account(c)' = integrations'[c]
BY LimitedFacts DEF Account

\* What was paid on account of each limit, and what the reserve was told of.
LEMMA FlowFacts ==
  ASSUME OutflowInv
  PROVE  /\ \A l \in Limited : PaidBy(l) \in Int /\ ToldTo(l) \in Int
         /\ PaidBy(TheReserve) = paid /\ PaidBy(TheReserve)' = paid'
         /\ ToldTo(TheReserve) = reserve.lastBalance + paid
         /\ ToldTo(TheReserve)' = reserve'.lastBalance + paid'
         /\ \A c \in Configs : /\ PaidBy(c) = sent[c] /\ PaidBy(c)' = sent'[c]
                               /\ ToldTo(c) = 0 /\ ToldTo(c)' = 0
<1>1. /\ paid \in Int /\ sent \in [Configs -> Nat] /\ reserve.lastBalance \in Int
  BY DEF OutflowInv, OutflowTypeOK, Reserves, U64
<1>2. /\ PaidBy(TheReserve) = paid /\ PaidBy(TheReserve)' = paid'
      /\ ToldTo(TheReserve) = reserve.lastBalance + paid
      /\ ToldTo(TheReserve)' = reserve'.lastBalance + paid'
      /\ \A c \in Configs : /\ PaidBy(c) = sent[c] /\ PaidBy(c)' = sent'[c]
                            /\ ToldTo(c) = 0 /\ ToldTo(c)' = 0
  BY LimitedFacts DEF PaidBy, ToldTo
<1>. QED  BY <1>1, <1>2 DEF Limited

\* A move of the level by what was found and paid is a step of the bucket.
LEMMA BucketMoves ==
  ASSUME OutflowInv, NEW l \in Limited, NEW found \in Int, NEW out \in Nat,
         clock' = clock,
         PaidBy(l)' = PaidBy(l) + out, ToldTo(l)' = ToldTo(l) + found,
         MovedTo(LevelAt(Account(l), clock), Account(l).max,
                 SatSub(found, 0), SatSub(0, found), out, 0,
                 LevelAt(Account(l)', clock')),
         Account(l)'.max = Account(l).max, Account(l)'.slope = Account(l).slope
  PROVE  BucketStep(l)
<1>1. PaidBy(l)' - PaidBy(l) = out /\ ToldTo(l)' - ToldTo(l) = found
  BY FlowFacts
<1>2. Bucket(l)!Move(SatSub(found, 0), SatSub(0, found), out, 0)
  BY DEF Bucket!Move, Bucket!Fill, Bucket!Drain, Bucket!Units, Bucket!Fraction,
         Bucket!Lower, MovedTo, Filled, Drained, Least
<1>3. CASE out = 0 /\ found = 0
  <2>1. SatSub(found, 0) = 0 /\ SatSub(0, found) = 0
    BY <1>3 DEF SatSub
  <2>2. LevelAt(Account(l)', clock') = LevelAt(Account(l), clock)
    BY <1>3, <2>1, AccountFacts, LevelAtFacts, RestsWhenNothingMoves
  <2>3. clock'.ts - clock.ts = 0
    BY AccountFacts DEF Clocks
  <2>4. Bucket(l)!Elapse(clock'.ts - clock.ts)
    BY <2>2, <2>3 DEF Bucket!Elapse
  <2>. QED  BY <1>1, <1>3, <2>4 DEF BucketStep
<1>. QED  BY <1>1, <1>2, <1>3 DEF BucketStep

LEMMA BucketResizes ==
  ASSUME OutflowInv, NEW l \in Limited, NEW max \in U64, NEW slope \in U64,
         PaidBy(l)' = PaidBy(l), ToldTo(l)' = ToldTo(l),
         LevelAt(Account(l)', clock') =
           Resized(LevelAt(Account(l), clock), Account(l).max, max),
         Account(l)'.max = max, Account(l)'.slope = slope
  PROVE  BucketStep(l)
<1>1. PaidBy(l)' - PaidBy(l) = 0 /\ ToldTo(l)' - ToldTo(l) = 0
  BY FlowFacts
<1>2. Bucket(l)!Resize(Account(l)'.max, Account(l)'.slope)
  BY DEF Bucket!Resize, Bucket!Units, Resized
<1>. QED  BY <1>1, <1>2 DEF BucketStep

LEMMA BucketRests ==
  ASSUME OutflowInv, NEW l \in Limited, Account(l)' = Account(l), clock' = clock,
         PaidBy(l)' = PaidBy(l), ToldTo(l)' = ToldTo(l)
  PROVE  BucketStep(l)
<1>1. PaidBy(l)' - PaidBy(l) = 0 /\ ToldTo(l)' - ToldTo(l) = 0
  BY FlowFacts
<1>2. clock'.ts - clock.ts = 0
  BY AccountFacts DEF Clocks
<1>3. Bucket(l)!Elapse(clock'.ts - clock.ts)
  BY <1>2 DEF Bucket!Elapse
<1>. QED  BY <1>1, <1>3 DEF BucketStep

\* The reserve, as the leading sync leaves it.
LEMMA SyncAsMove ==
  ASSUME OutflowInv
  PROVE  /\ IsLimit(Synced) /\ Synced.max = reserve.max
         /\ vault - reserve.lastBalance \in Int
         /\ Level(Synced) =
              Drained(Filled(LevelAt(reserve, clock), reserve.max,
                             SatSub(vault - reserve.lastBalance, 0)),
                      SatSub(0, vault - reserve.lastBalance))
<1>1. /\ vault \in U64 /\ reserve \in Reserves /\ reserve.avail <= reserve.max
      /\ reserve.ts <= clock.ts /\ clock \in Clocks
  BY DEF OutflowInv, OutflowTypeOK, Charged, U64
<1>2. Synced.max = reserve.max
  BY <1>1, SyncKeeps DEF Synced
<1>3. IsLimit(Synced)
  BY SyncedReserve, ReserveIsLimit
<1>4. /\ vault - reserve.lastBalance \in Int
      /\ SatSub(vault - reserve.lastBalance, 0) = SatSub(vault, reserve.lastBalance)
      /\ SatSub(0, vault - reserve.lastBalance) = SatSub(reserve.lastBalance, vault)
  BY <1>1 DEF SatSub, Reserves, U64
<1>5. Level(Synced) =
        Drained(Filled(LevelAt(reserve, clock), reserve.max,
                       SatSub(vault, reserve.lastBalance)),
                SatSub(reserve.lastBalance, vault))
  BY <1>1, LevelOfSync DEF Synced
<1>. QED  BY <1>2, <1>3, <1>4, <1>5

LEMMA BucketsSyncReserve ==
  ASSUME OutflowInv, SyncReserve, NEW l \in Limited
  PROVE  BucketStep(l)
<1> DEFINE found == vault - reserve.lastBalance
<1>1. /\ reserve' = Synced /\ integrations' = integrations /\ clock' = clock
      /\ paid' = paid /\ sent' = sent
  BY DEF SyncReserve
<1>2. CASE l = TheReserve
  <2>1. PaidBy(l)' = PaidBy(l) + 0 /\ ToldTo(l)' = ToldTo(l) + found
    <3>1. reserve'.lastBalance = vault /\ vault \in Int /\ reserve.lastBalance \in Int
          /\ paid \in Int
      BY <1>1, SyncedReserve DEF OutflowInv, OutflowTypeOK, Reserves, U64
    <3>. QED  BY <1>1, <1>2, <3>1, FlowFacts
  <2> HIDE DEF found
  <2>2. found \in Int
        /\ MovedTo(LevelAt(reserve, clock), reserve.max,
                   SatSub(found, 0), SatSub(0, found), 0, 0, Level(Synced))
    BY SyncAsMove, NothingPaid DEF found
  <2>3. LevelAt(reserve', clock') = Level(Synced)
    BY <1>1, SyncedReserve, LevelWhenFresh
  <2>4. reserve'.max = reserve.max /\ reserve'.slope = reserve.slope
    BY <1>1, SyncAsMove, SyncedReserve
  <2>5. Account(l) = reserve /\ Account(l)' = reserve'
    BY <1>2, AccountFacts, AccountNext
  <2>. QED  BY <1>1, <2>1, <2>2, <2>3, <2>4, <2>5, BucketMoves
<1>3. CASE l \in Configs
  <2>1. Account(l)' = Account(l) /\ PaidBy(l)' = PaidBy(l) /\ ToldTo(l)' = ToldTo(l)
    BY <1>1, <1>3, AccountFacts, AccountNext, FlowFacts
  <2>. QED  BY <1>1, <2>1, BucketRests
<1>. QED  BY <1>2, <1>3 DEF Limited

\* What is behind an address without an account.
Untouched ==
  \A c \in Configs : ~Initialized(integrations[c]) => integrations[c] = NoIntegration

LEMMA UntouchedInit == OutflowInit => Untouched
BY DEF OutflowInit, Untouched

LEMMA UntouchedNext ==
  ASSUME OutflowInv, Untouched, [OutflowNext]_outVars
  PROVE  Untouched'
<1>1. SUFFICES ASSUME NEW k \in Configs, ~Initialized(integrations'[k])
               PROVE  integrations'[k] = NoIntegration
  BY DEF Untouched, Initialized
<1>2. OutflowTypeOK
  BY DEF OutflowInv
<1>3. integrations[k] = NoIntegration /\ ~Initialized(integrations[k])
  BY <1>1, KeptStep DEF Kept, Untouched, Initialized
<1>4. SUFFICES integrations'[k] = integrations[k]
  BY <1>3
<1>5. ASSUME NEW authority \in Authorities, NEW c \in Configs,
             NEW terms \in Terms[c], InitializeIntegration(authority, c, terms)
      PROVE  integrations'[k] = integrations[k]
  <2>1. CASE c = k
    <3>1. integrations'[k] = InitIntegration(terms)
      BY <1>2, <1>5, <2>1 DEF InitializeIntegration, OutflowTypeOK
    <3>2. terms.status \in IntegrationStatus
      OBVIOUS
    <3>. QED  BY <1>1, <3>1, <3>2 DEF InitIntegration, Initialized, IntegrationStatus
  <2>2. CASE c # k
    BY <1>2, <1>5, <2>2 DEF InitializeIntegration, OutflowTypeOK
  <2>. QED  BY <2>1, <2>2
<1>6. ASSUME NEW authority \in Authorities, NEW c \in Configs,
             NEW status \in Option(IntegrationStatus),
             NEW slope \in Option(Slopes), NEW max \in Option(MaxOuts),
             ManageIntegration(authority, c, status, slope, max)
      PROVE  integrations'[k] = integrations[k]
  BY <1>2, <1>3, <1>6 DEF ManageIntegration, OutflowTypeOK
<1>7. ASSUME NEW authority \in Authorities, NEW c \in Configs,
             NEW amount \in Amounts, Push(authority, c, amount)
      PROVE  integrations'[k] = integrations[k]
  BY <1>2, <1>3, <1>7 DEF Push, OutflowTypeOK
<1>8. CASE integrations' = integrations
  BY <1>8
<1>. QED  BY <1>5, <1>6, <1>7, <1>8 DEF OutflowNext, SyncReserve, ClaimRent,
             Govern, Deposit, Tick, outVars, accounts

-----------------------------------------------------------------------------
\* Each action, as a step of each bucket.
LEMMA BucketsInitializeIntegration ==
  ASSUME OutflowInv, Untouched, NEW authority \in Authorities, NEW c \in Configs,
         NEW terms \in Terms[c], InitializeIntegration(authority, c, terms),
         NEW l \in Limited
  PROVE  BucketStep(l)
<1>1. /\ terms.max \in U64 /\ terms.slope \in U64 /\ terms.max \in Nat
      /\ OutflowTypeOK /\ clock.ts \in Nat
  BY DEF U64, OutflowInv, OutflowTypeOK, Clocks
<1>2. /\ integrations' = [integrations EXCEPT ![c] = InitIntegration(terms)]
      /\ reserve' = reserve /\ clock' = clock /\ integrations[c] = NoIntegration
      /\ PaidBy(l)' = PaidBy(l) /\ ToldTo(l)' = ToldTo(l)
  BY DEF InitializeIntegration, Untouched, PaidBy, ToldTo
<1>3. CASE l = c
  <2>1. Account(l) = NoIntegration /\ Account(l)' = InitIntegration(terms)
    BY <1>1, <1>2, <1>3, AccountFacts, AccountNext DEF OutflowTypeOK
  <2>2. SecondsPerDay * terms.max \in Nat
    BY <1>1, DayTimes
  <2>3. LevelAt(Account(l)', clock') = SecondsPerDay * terms.max
    <3>1. LevelAt(Account(l)', clock') = Level(InitIntegration(terms))
      BY <1>2, <2>1, LevelWhenFresh DEF InitIntegration
    <3>. QED  BY <2>2, <3>1 DEF Level, InitIntegration
  <2>4. SecondsPerDay * 0 = 0
    OBVIOUS
  <2>5. LevelAt(NoIntegration, clock) = 0
    <3>1. Level(NoIntegration) = 0
      BY <2>4 DEF Level, NoIntegration
    <3>2. 0 * (clock.ts - 0) = 0
      BY <1>1
    <3>. QED  BY <2>4, <3>1, <3>2 DEF LevelAt, NoIntegration, Least
  <2>6. LevelAt(Account(l)', clock') =
          Resized(LevelAt(Account(l), clock), Account(l).max, terms.max)
    BY <2>1, <2>2, <2>3, <2>4, <2>5 DEF Resized, NoIntegration
  <2>7. Account(l)'.max = terms.max /\ Account(l)'.slope = terms.slope
    BY <2>1 DEF InitIntegration
  <2>. QED  BY <1>1, <1>2, <2>6, <2>7, BucketResizes
<1>4. CASE l # c
  <2>1. Account(l)' = Account(l)
    BY <1>1, <1>2, <1>4, AccountFacts, AccountNext DEF Limited, OutflowTypeOK
  <2>. QED  BY <1>2, <2>1, BucketRests
<1>. QED  BY <1>3, <1>4

LEMMA BucketsManageIntegration ==
  ASSUME OutflowInv, NEW authority \in Authorities, NEW c \in Configs,
         NEW status \in Option(IntegrationStatus),
         NEW slope \in Option(Slopes), NEW max \in Option(MaxOuts),
         ManageIntegration(authority, c, status, slope, max),
         NEW l \in Limited
  PROVE  BucketStep(l)
<1> DEFINE i  == integrations[c]
           g  == RefreshRateLimit(i, clock)
           st == OrElse(status, g.status)
           sl == OrElse(slope, g.slope)
           f  == [g EXCEPT !.status = st, !.slope = sl]
           m  == IF max = {} THEN i.max ELSE OrElse(max, 0)
           u  == IF max = {} THEN f ELSE SetMaxOutflow(f, m)
<1>1. /\ integrations' = [integrations EXCEPT ![c] = u]
      /\ reserve' = reserve /\ clock' = clock /\ OutflowTypeOK
      /\ PaidBy(l)' = PaidBy(l) /\ ToldTo(l)' = ToldTo(l)
  BY DEF ManageIntegration, UpdateIntegration, OutflowInv, PaidBy, ToldTo
<1>2. CASE l # c
  <2>1. Account(l)' = Account(l)
    BY <1>1, <1>2, AccountFacts, AccountNext DEF Limited, OutflowTypeOK
  <2>. QED  BY <1>1, <2>1, BucketRests
<1>3. CASE l = c
  <2>1. Account(l) = i /\ Account(l)' = u
    BY <1>1, <1>3, AccountFacts, AccountNext DEF OutflowTypeOK
  <2>2. IsLimit(i) /\ i.ts <= clock.ts /\ clock \in Clocks
    BY <1>3, <2>1, AccountFacts
  <2>3. i \in Integrations /\ i.max \in U64 /\ i.avail <= i.max
    BY DEF OutflowInv, OutflowTypeOK, Integrations
  <2>4. /\ g \in Integrations /\ IsLimit(g) /\ g.ts = clock.ts /\ g.max = i.max
        /\ Level(g) = LevelAt(i, clock)
    BY <2>2, <2>3, LevelOfRefresh, RefreshIntegration
  <2>5. sl \in U64 /\ m \in U64
    <3>1. slope \in Option(U64) /\ max \in Option(U64) /\ g.slope \in U64
      BY <2>4 DEF Option, Integrations
    <3>. QED  BY <2>3, <3>1, OrElseType
  <2> HIDE DEF g, st, sl
  <2>6. /\ f.slope = sl /\ f.max = g.max /\ f.avail = g.avail /\ f.rem = g.rem
        /\ f.ts = g.ts /\ LimitFields \subseteq DOMAIN f
    BY <2>4 DEF Integrations, LimitFields
  <2> HIDE DEF f
  <2>7. IsLimit(f) /\ Level(f) = LevelAt(i, clock) /\ f.max = i.max
    BY <2>4, <2>5, <2>6 DEF IsLimit, Level
  <2>8. /\ LevelAt(i, clock) \in Nat /\ SecondsPerDay * i.max \in Nat
    BY <2>3, <2>7, LevelFacts, DayTimes DEF U64
  <2>9. /\ u.max = m /\ u.slope = sl /\ u.ts = clock.ts
        /\ Level(u) = Resized(LevelAt(i, clock), i.max, m)
    <3>1. CASE max = {}
      <4>1. u = f /\ m = i.max
        BY <3>1
      <4>2. Resized(LevelAt(i, clock), i.max, m) = LevelAt(i, clock)
        BY <2>8, <4>1 DEF Resized
      <4>. QED  BY <2>4, <2>6, <2>7, <4>1, <4>2
    <3>2. CASE max # {}
      <4>1. u = SetMaxOutflow(f, m)
        BY <3>2
      <4> HIDE DEF u, m
      <4>2. /\ u.slope = f.slope /\ u.max = m /\ u.ts = f.ts
            /\ Level(u) = Resized(Level(f), f.max, m)
        BY <2>5, <2>7, <4>1, LevelOfSetMax
      <4>. QED  BY <2>4, <2>6, <2>7, <4>2
    <3>. QED  BY <3>1, <3>2
  <2> HIDE DEF u, m, i
  <2>10. LevelAt(u, clock) = Level(u)
    BY <2>9, LevelWhenFresh
  <2>11. LevelAt(Account(l)', clock') =
           Resized(LevelAt(Account(l), clock), Account(l).max, m)
    BY <1>1, <2>1, <2>9, <2>10
  <2>12. Account(l)'.max = m /\ Account(l)'.slope = sl
    BY <2>1, <2>9
  <2>. QED  BY <1>1, <2>5, <2>11, <2>12, BucketResizes
<1>. QED  BY <1>2, <1>3

LEMMA BucketsPush ==
  ASSUME OutflowInv, NEW authority \in Authorities, NEW c \in Configs,
         NEW amount \in Amounts, Push(authority, c, amount),
         NEW l \in Limited
  PROVE  BucketStep(l)
<1> DEFINE f == RefreshedIntegration(c)
           q == DebitRateLimit(f, amount)
           r == UpdateForOutflow(Synced, amount)
<1>1. /\ integrations' = [integrations EXCEPT ![c] = q]
      /\ reserve' = r /\ clock' = clock /\ OutflowTypeOK
      /\ WithinRateLimit(f, amount) /\ WithinRateLimit(Synced, amount)
  BY DEF Push, WithinBoth, OutflowInv
<1>2. /\ amount \in Nat /\ amount <= vault /\ vault \in Int /\ paid \in Int
      /\ sent \in [Configs -> Nat] /\ reserve.lastBalance \in Int
      /\ paid' = paid + amount /\ sent' = [sent EXCEPT ![c] = @ + amount]
  <2>1. /\ Leaves(c, amount) = amount /\ amount <= vault
        /\ paid' = paid + Leaves(c, amount)
        /\ sent' = [sent EXCEPT ![c] = @ + Leaves(c, amount)]
    BY DEF Push, TransferMatches
  <2>2. /\ amount \in Nat /\ vault \in Int /\ paid \in Int
        /\ sent \in [Configs -> Nat] /\ reserve.lastBalance \in Int
    <3>1. reserve \in Reserves /\ vault \in 0 .. Supply
      BY <1>1 DEF OutflowTypeOK
    <3>2. reserve.lastBalance \in Int /\ vault \in Int
      BY <3>1 DEF Reserves, U64
    <3>3. paid \in Int /\ sent \in [Configs -> Nat]
      BY <1>1 DEF OutflowTypeOK
    <3>4. amount \in Nat
      BY AmountType
    <3>. QED  BY <3>2, <3>3, <3>4
  <2>. QED  BY <2>1, <2>2
<1>3. CASE l = c
  <2>1. Account(l) = integrations[c] /\ Account(l)' = q
    BY <1>1, <1>3, AccountFacts, AccountNext DEF OutflowTypeOK
  <2>2. /\ IsLimit(f) /\ f.max = Account(l).max /\ f.slope = Account(l).slope
        /\ f.ts = clock.ts
        /\ Level(f) = Drained(Filled(LevelAt(Account(l), clock), Account(l).max, 0), 0)
    BY <2>1, AccountFacts, RefreshedLevel DEF RefreshedIntegration
  <2> HIDE DEF f
  <2>3. MovedTo(LevelAt(Account(l), clock), Account(l).max, 0, 0, amount, 0, Level(q))
    BY <1>1, <1>2, <2>2, PaymentMoves
  <2>4. q.max = f.max /\ q.slope = f.slope /\ q.ts = f.ts
    BY <1>2, <2>2, LevelOfDebit
  <2> HIDE DEF q
  <2>5. LevelAt(Account(l)', clock') = Level(q)
    BY <1>1, <2>1, <2>2, <2>4, LevelWhenFresh
  <2>6. Account(l)'.max = Account(l).max /\ Account(l)'.slope = Account(l).slope
    BY <2>1, <2>2, <2>4
  <2>7. PaidBy(l)' = PaidBy(l) + amount /\ ToldTo(l)' = ToldTo(l) + 0
    BY <1>2, <1>3, FlowFacts
  <2>8. SatSub(0, 0) = 0
    BY DEF SatSub
  <2>. QED  BY <1>1, <1>2, <2>3, <2>5, <2>6, <2>7, <2>8, BucketMoves
<1>4. CASE l = TheReserve
  <2>1. Account(l) = reserve /\ Account(l)' = r
    BY <1>1, <1>4, AccountFacts, AccountNext
  <2> DEFINE found == vault - reserve.lastBalance
  <2>2. PaidBy(l)' = PaidBy(l) + amount /\ ToldTo(l)' = ToldTo(l) + found
    <3>1. reserve'.lastBalance = vault - amount
      BY <1>1, <1>2, SyncedReserve, OutflowKeeps
    <3>. QED  BY <1>2, <1>4, <3>1, FlowFacts
  <2> HIDE DEF found
  <2>3. found \in Int
        /\ MovedTo(LevelAt(reserve, clock), reserve.max, SatSub(found, 0),
                   SatSub(0, found), amount, 0, Level(DebitRateLimit(Synced, amount)))
    BY <1>1, <1>2, SyncAsMove, PaymentMoves DEF found
  <2>4. /\ Level(r) = Level(DebitRateLimit(Synced, amount))
        /\ r.max = Synced.max /\ r.slope = Synced.slope /\ r.ts = Synced.ts
    BY <1>2, SyncedReserve, ReserveFlows, OutflowKeeps
  <2> HIDE DEF r
  <2>5. LevelAt(Account(l)', clock') = Level(r)
    BY <1>1, <2>1, <2>4, SyncedReserve, LevelWhenFresh
  <2>6. Account(l)'.max = Account(l).max /\ Account(l)'.slope = Account(l).slope
    BY <2>1, <2>4, SyncAsMove, SyncedReserve
  <2>. QED  BY <1>1, <1>2, <2>1, <2>2, <2>3, <2>4, <2>5, <2>6, BucketMoves
<1>5. CASE l # c /\ l # TheReserve
  <2>1. Account(l)' = Account(l)
    BY <1>1, <1>5, AccountFacts, AccountNext DEF Limited, OutflowTypeOK
  <2>2. PaidBy(l)' = PaidBy(l) /\ ToldTo(l)' = ToldTo(l)
    BY <1>2, <1>5, FlowFacts DEF Limited
  <2>. QED  BY <1>1, <2>1, <2>2, BucketRests
<1>. QED  BY <1>3, <1>4, <1>5

LEMMA BucketsTick ==
  ASSUME OutflowInv, Tick, NEW l \in Limited
  PROVE  BucketStep(l)
<1>1. /\ integrations' = integrations /\ reserve' = reserve
      /\ clock'.ts = clock.ts + 1
      /\ PaidBy(l)' = PaidBy(l) /\ ToldTo(l)' = ToldTo(l)
  BY DEF Tick, accounts, PaidBy, ToldTo
<1>2. Account(l)' = Account(l)
  BY <1>1, AccountFacts, AccountNext DEF Limited
<1>3. clock'.ts - clock.ts = 1
  BY <1>1, AccountFacts DEF Clocks
<1>4. LevelAt(Account(l), clock') =
        IF Account(l).max = U64Max \/ 1 = 0 THEN LevelAt(Account(l), clock)
        ELSE Least(LevelAt(Account(l), clock) + Account(l).slope * 1,
                   SecondsPerDay * Account(l).max)
  BY <1>1, AccountFacts, LevelOfTime
<1>5. Bucket(l)!Elapse(clock'.ts - clock.ts)
  BY <1>2, <1>3, <1>4 DEF Bucket!Elapse, Bucket!Lower, Bucket!Units, Least
<1>6. PaidBy(l)' - PaidBy(l) = 0 /\ ToldTo(l)' - ToldTo(l) = 0
  BY <1>1, FlowFacts
<1>. QED  BY <1>5, <1>6 DEF BucketStep

LEMMA BucketsNext ==
  ASSUME OutflowInv, Untouched, [OutflowNext]_outVars, NEW l \in Limited
  PROVE  BucketStep(l)
<1>1. CASE UNCHANGED <<integrations, reserve, clock, paid, sent>>
  <2>1. Account(l)' = Account(l) /\ PaidBy(l)' = PaidBy(l) /\ ToldTo(l)' = ToldTo(l)
    BY <1>1 DEF Account, PaidBy, ToldTo
  <2>. QED  BY <1>1, <2>1, BucketRests
<1>2. (\E authority \in Authorities : ClaimRent(authority)) \/ Govern
        \/ (\E amount \in Deposits : Deposit(amount)) \/ UNCHANGED outVars
        => UNCHANGED <<integrations, reserve, clock, paid, sent>>
  BY DEF ClaimRent, Govern, Deposit, outVars, accounts, history
<1>. QED  BY <1>1, <1>2, BucketsSyncReserve, BucketsInitializeIntegration,
             BucketsManageIntegration, BucketsPush, BucketsTick DEF OutflowNext

LEMMA BucketsInit ==
  ASSUME OutflowInit, NEW l \in Limited
  PROVE  Bucket(l)!BucketInit
<1>1. /\ integrations = [c \in Configs |-> NoIntegration]
      /\ clock = [ts |-> 0, slot |-> 0]
      /\ reserve = InitReserve("Active", ReserveTerms.slope, ReserveTerms.max, clock)
  BY DEF OutflowInit
<1>2. SecondsPerDay * 0 = 0 /\ 0 \in U64
  BY DEF U64
<1>3. CASE l = TheReserve
  <2>1. Account(l) = reserve
    BY <1>3 DEF Account
  <2>2. /\ reserve.max \in U64 /\ reserve.slope \in U64 /\ reserve.ts = clock.ts
        /\ reserve.avail = reserve.max /\ reserve.rem = 0
    BY <1>1 DEF InitReserve
  <2>3. SecondsPerDay * reserve.max \in Nat
    BY <2>2, DayTimes DEF U64
  <2>4. LevelAt(reserve, clock) = SecondsPerDay * reserve.max
    BY <2>2, <2>3, LevelWhenFresh DEF Level
  <2>. QED  BY <2>1, <2>2, <2>4 DEF Bucket!BucketInit, Bucket!Units
<1>4. CASE l \in Configs
  <2>1. Account(l) = NoIntegration
    BY <1>1, <1>4, LimitedFacts DEF Account
  <2>2. LevelAt(NoIntegration, clock) = 0
    BY <1>1, <1>2, LevelWhenFresh DEF Level, NoIntegration
  <2>. QED  BY <1>2, <2>1, <2>2 DEF Bucket!BucketInit, Bucket!Units, NoIntegration
<1>. QED  BY <1>3, <1>4 DEF Limited

\* The limits of the reserve and of every integration are an exact token
\* bucket each, in every interleaving of pushes, syncs, deposits, calls that
\* reconfigure and changes of the controller and its permissions.
THEOREM OutflowImplementsBuckets == OutflowSpec => LimitsAreBuckets
<1>1. OutflowInit => \A limit \in Limited : Bucket(limit)!BucketInit
  BY BucketsInit
<1>2. OutflowInv /\ Untouched /\ [OutflowNext]_outVars =>
        [\A limit \in Limited : BucketStep(limit)]_outVars
  BY BucketsNext
<1>3. OutflowSpec => []Untouched
  BY UntouchedInit, UntouchedNext, OutflowInvariant, PTL DEF OutflowSpec
<1>. QED  BY <1>1, <1>2, <1>3, OutflowInvariant, PTL DEF LimitsAreBuckets, OutflowSpec
-----------------------------------------------------------------------------
\* What a step grants a limit is at least what its second, the raise of its cap
\* and the tokens it was told of are worth.
Granted(l) == budget'[l] - budget[l]

Covered(l) ==
  /\ Granted(l) \in Nat
  /\ Account(l).slope * (clock'.ts - clock.ts) <= Granted(l)
  /\ SecondsPerDay * SatSub(Account(l)'.max, Account(l).max) <= Granted(l)
  /\ SecondsPerDay * SatSub(ToldTo(l)' - ToldTo(l), 0) <= Granted(l)

\* The quantities of a limit are numbers.
LEMMA LimitNumbers ==
  ASSUME OutflowInv, NEW l \in Limited
  PROVE  /\ budget[l] \in Nat /\ clock.ts \in Nat /\ PaidBy(l) \in Int
         /\ ToldTo(l) \in Int /\ Account(l).max \in Nat /\ Account(l).slope \in Nat
         /\ LevelAt(Account(l), clock) \in Nat
         /\ LevelAt(Account(l), clock)
              <= SecondsPerDay * Account(l).max
                   + (LevelAt(Account(l), clock) % SecondsPerDay)
<1>1. budget[l] \in Nat /\ clock.ts \in Nat
  BY DEF OutflowInv, OutflowTypeOK, Clocks
<1>2. /\ IsLimit(Account(l)) /\ Account(l).ts <= clock.ts /\ clock \in Clocks
  BY AccountFacts
<1>3. Account(l).max \in Nat /\ Account(l).slope \in Nat
  BY <1>2 DEF IsLimit, U64
<1>. QED  BY <1>1, <1>2, <1>3, FlowFacts, LevelAtFacts

LEMMA GrantsOf ==
  ASSUME OutflowInv, NEW l \in Limited, NEW n \in Nat, clock' = clock,
         Granted(l) = SecondsPerDay * n, Account(l)'.max \in Nat,
         Account(l)'.max - Account(l).max <= n,
         ToldTo(l)' \in Int, ToldTo(l)' - ToldTo(l) <= n
  PROVE  Covered(l)
<1>1. /\ Account(l).max \in Nat /\ Account(l).slope \in Nat
      /\ ToldTo(l) \in Int /\ clock.ts \in Nat
  BY LimitNumbers
<1>2. Account(l).slope * (clock'.ts - clock.ts) = 0
  BY <1>1
<1> DEFINE up == SatSub(Account(l)'.max, Account(l).max)
           in == SatSub(ToldTo(l)' - ToldTo(l), 0)
<1>3. up \in Nat /\ in \in Nat /\ n - up \in Nat /\ n - in \in Nat
  BY <1>1 DEF SatSub
<1> HIDE DEF up, in
<1>4. /\ SecondsPerDay * n \in Nat /\ SecondsPerDay * up \in Nat
      /\ SecondsPerDay * in \in Nat
      /\ SecondsPerDay * (n - up) \in Nat /\ SecondsPerDay * (n - in) \in Nat
  BY <1>3, DayTimes
<1>5. /\ SecondsPerDay * (n - up) = SecondsPerDay * n - SecondsPerDay * up
      /\ SecondsPerDay * (n - in) = SecondsPerDay * n - SecondsPerDay * in
  BY <1>3, DayMult
<1>6. SecondsPerDay * up <= SecondsPerDay * n /\ SecondsPerDay * in <= SecondsPerDay * n
  BY <1>4, <1>5
<1>. QED  BY <1>2, <1>4, <1>6 DEF Covered, up, in

LEMMA GrantsNothing ==
  ASSUME OutflowInv, NEW l \in Limited, clock' = clock, budget'[l] = budget[l],
         Account(l)'.max = Account(l).max, ToldTo(l)' = ToldTo(l)
  PROVE  Covered(l)
<1>1. budget[l] \in Int /\ Account(l).max \in Nat /\ ToldTo(l) \in Int
  BY LimitNumbers
<1>2. Granted(l) = SecondsPerDay * 0
  BY <1>1 DEF Granted
<1>. QED  BY <1>1, <1>2, GrantsOf

\* The leading sync of SyncReserve and Push, as far as the budgets go.
LEMMA GrantsBooked ==
  ASSUME OutflowInv, Grant(TheReserve, Booked), clock' = clock,
         NEW n \in Int, paid' = paid + n, reserve'.lastBalance = vault - n,
         reserve'.max = reserve.max,
         NEW l \in Limited, l # TheReserve => Account(l)'.max = Account(l).max
  PROVE  Covered(l)
<1>1. OutflowTypeOK /\ Booked \in Nat
  BY SyncedReserve DEF OutflowInv
<1>2. /\ budget'[TheReserve] = budget[TheReserve] + SecondsPerDay * Booked
      /\ \A k \in Limited \ {TheReserve} : budget'[k] = budget[k]
  BY <1>1, GrantEffect, LimitedFacts
<1>3. CASE l = TheReserve
  <2>1. /\ vault \in Int /\ reserve.lastBalance \in Int /\ paid \in Int
    <3>1. reserve \in Reserves /\ vault \in 0 .. Supply /\ paid \in Nat
      BY <1>1 DEF OutflowTypeOK
    <3>. QED  BY <3>1 DEF Reserves, U64
  <2>2. /\ ToldTo(l) = reserve.lastBalance + paid
        /\ ToldTo(l)' = vault + paid
    BY <1>3, <2>1, FlowFacts
  <2>3. ToldTo(l)' - ToldTo(l) <= Booked /\ ToldTo(l)' \in Int
    BY <2>1, <2>2 DEF Booked
  <2>4. Account(l)'.max = Account(l).max /\ Account(l).max \in Nat
    BY <1>3, AccountFacts, AccountNext, LimitNumbers
  <2>5. Granted(l) = SecondsPerDay * Booked
    <3>1. budget[l] \in Int /\ SecondsPerDay * Booked \in Int
      BY <1>1, LimitNumbers, DayTimes
    <3>. QED  BY <1>2, <1>3, <3>1 DEF Granted
  <2>6. Account(l)'.max - Account(l).max <= Booked
    BY <1>1, <2>4
  <2>. QED  BY <1>1, <2>3, <2>4, <2>5, <2>6, GrantsOf
<1>4. CASE l # TheReserve
  <2>1. ToldTo(l)' = ToldTo(l)
    BY <1>4, FlowFacts DEF Limited
  <2>. QED  BY <1>2, <1>4, <2>1, GrantsNothing
<1>. QED  BY <1>3, <1>4

LEMMA GrantsManageIntegration ==
  ASSUME OutflowInv, NEW authority \in Authorities, NEW c \in Configs,
         NEW status \in Option(IntegrationStatus),
         NEW slope \in Option(Slopes), NEW max \in Option(MaxOuts),
         ManageIntegration(authority, c, status, slope, max),
         NEW l \in Limited
  PROVE  Covered(l)
<1> DEFINE i == integrations[c]
           q == UpdateIntegration(i, status, slope, max)
           m == OrElse(max, i.max)
           d == Raise(i.max, m)
<1>1. /\ integrations' = [integrations EXCEPT ![c] = q]
      /\ reserve' = reserve /\ clock' = clock /\ OutflowTypeOK /\ Grant(c, d)
      /\ PaidBy(l)' = PaidBy(l) /\ ToldTo(l)' = ToldTo(l)
  BY DEF ManageIntegration, OutflowInv, PaidBy, ToldTo
<1>2. i \in Integrations /\ i.max \in Nat /\ i.max \in U64
  BY <1>1 DEF OutflowTypeOK, Integrations, U64
<1>3. max \in Option(U64)
  BY DEF Option
<1>4. m \in U64 /\ m \in Nat /\ d \in Nat /\ m - i.max <= d
  BY <1>2, <1>3, OrElseType DEF Raise, U64
<1>5. q.max = m
  <2>1. RefreshRateLimit(i, clock).max = i.max
        /\ RefreshRateLimit(i, clock) \in Integrations
    BY <1>1, <1>2, RefreshIntegration DEF OutflowInv, OutflowTypeOK, Charged
  <2> DEFINE f == [RefreshRateLimit(i, clock) EXCEPT !.status = OrElse(status, @),
                                                     !.slope = OrElse(slope, @)]
  <2>2. f.max = i.max /\ f.max \in U64 /\ DOMAIN f = DOMAIN NoIntegration
    BY <1>2, <2>1 DEF Integrations, NoIntegration
  <2>3. q = IF max = {} THEN f ELSE SetMaxOutflow(f, OrElse(max, 0))
    BY DEF UpdateIntegration
  <2> HIDE DEF f, q, i
  <2>4. max # {} => OrElse(max, 0) = m
    BY DEF OrElse
  <2>5. max = {} => m = i.max
    BY DEF OrElse
  <2>6. CASE max = {}
    BY <2>2, <2>3, <2>5, <2>6
  <2>7. CASE max # {}
    BY <2>2, <2>3, <2>4, <2>7 DEF SetMaxOutflow, NoIntegration
  <2>. QED  BY <2>6, <2>7
<1> HIDE DEF q, m, d
<1>6. /\ budget'[c] = budget[c] + SecondsPerDay * d
      /\ \A k \in Limited \ {c} : budget'[k] = budget[k]
  BY <1>1, <1>4, GrantEffect, LimitedFacts
<1>7. CASE l = c
  <2>1. Account(l) = i /\ Account(l)'.max = m
    BY <1>1, <1>5, <1>7, AccountFacts, AccountNext DEF OutflowTypeOK
  <2>2. Granted(l) = SecondsPerDay * d
    <3>1. budget[l] \in Int /\ SecondsPerDay * d \in Int
      BY <1>4, LimitNumbers, DayTimes
    <3>. QED  BY <1>6, <1>7, <3>1 DEF Granted
  <2>3. ToldTo(l)' \in Int /\ ToldTo(l)' - ToldTo(l) <= d
    BY <1>1, <1>4, LimitNumbers
  <2>. QED  BY <1>1, <1>4, <2>1, <2>2, <2>3, GrantsOf
<1>8. CASE l # c
  <2>1. Account(l)' = Account(l)
    BY <1>1, <1>8, AccountFacts, AccountNext DEF Limited, OutflowTypeOK
  <2>2. budget'[l] = budget[l]
    BY <1>6, <1>8
  <2>. QED  BY <1>1, <2>1, <2>2, GrantsNothing
<1>. QED  BY <1>7, <1>8

LEMMA GrantsInitializeIntegration ==
  ASSUME OutflowInv, Untouched, NEW authority \in Authorities, NEW c \in Configs,
         NEW terms \in Terms[c], InitializeIntegration(authority, c, terms),
         NEW l \in Limited
  PROVE  Covered(l)
<1>1. terms.max \in Nat /\ OutflowTypeOK
  BY DEF U64, OutflowInv
<1>2. /\ integrations' = [integrations EXCEPT ![c] = InitIntegration(terms)]
      /\ reserve' = reserve /\ clock' = clock /\ integrations[c] = NoIntegration
      /\ ToldTo(l)' = ToldTo(l) /\ Grant(c, terms.max)
  BY DEF InitializeIntegration, Untouched, ToldTo
<1>3. /\ budget'[c] = budget[c] + SecondsPerDay * terms.max
      /\ \A k \in Limited \ {c} : budget'[k] = budget[k]
  BY <1>1, <1>2, GrantEffect, LimitedFacts
<1>4. CASE l = c
  <2>1. Account(l).max = 0 /\ Account(l)'.max = terms.max
    BY <1>1, <1>2, <1>4, AccountFacts, AccountNext
       DEF OutflowTypeOK, InitIntegration, NoIntegration
  <2>2. Granted(l) = SecondsPerDay * terms.max
    <3>1. budget[l] \in Int /\ SecondsPerDay * terms.max \in Int
      BY <1>1, LimitNumbers, DayTimes
    <3>. QED  BY <1>3, <1>4, <3>1 DEF Granted
  <2>3. ToldTo(l)' \in Int /\ ToldTo(l)' - ToldTo(l) <= terms.max
    BY <1>1, <1>2, LimitNumbers
  <2>. QED  BY <1>1, <1>2, <2>1, <2>2, <2>3, GrantsOf
<1>5. CASE l # c
  <2>1. Account(l)' = Account(l)
    BY <1>1, <1>2, <1>5, AccountFacts, AccountNext DEF Limited, OutflowTypeOK
  <2>. QED  BY <1>2, <1>3, <1>5, <2>1, GrantsNothing
<1>. QED  BY <1>4, <1>5

LEMMA GrantsPush ==
  ASSUME OutflowInv, NEW authority \in Authorities, NEW c \in Configs,
         NEW amount \in Amounts, Push(authority, c, amount),
         NEW l \in Limited
  PROVE  Covered(l)
<1> DEFINE q == DebitRateLimit(RefreshedIntegration(c), amount)
<1>1. /\ integrations' = [integrations EXCEPT ![c] = q]
      /\ reserve' = UpdateForOutflow(Synced, amount) /\ clock' = clock
      /\ OutflowTypeOK /\ Grant(TheReserve, Booked) /\ amount <= vault
  BY DEF Push, OutflowInv
<1>2. Leaves(c, amount) = amount /\ paid' = paid + Leaves(c, amount)
  BY DEF Push, TransferMatches
<1>3. amount \in Nat /\ amount \in Int
  BY AmountType
<1>4. reserve'.lastBalance = vault - amount /\ reserve'.max = reserve.max
  BY <1>1, <1>3, SyncedReserve, SyncAsMove, OutflowKeeps
<1>5. l # TheReserve => Account(l)'.max = Account(l).max
  <2>1. SUFFICES ASSUME l \in Configs PROVE integrations'[l].max = integrations[l].max
    BY AccountFacts, AccountNext DEF Limited
  <2>2. CASE l = c
    <3>1. /\ RefreshedIntegration(c) \in Integrations
          /\ RefreshedIntegration(c).max = integrations[c].max
      BY <1>1, RefreshIntegration
         DEF OutflowInv, OutflowTypeOK, Charged, RefreshedIntegration
    <3>2. q.max = integrations[c].max
      BY <3>1 DEF DebitRateLimit, Integrations
    <3>. QED  BY <1>1, <2>2, <3>2 DEF OutflowTypeOK
  <2>3. CASE l # c
    BY <1>1, <2>1, <2>3 DEF OutflowTypeOK
  <2>. QED  BY <2>2, <2>3
<1>. QED  BY <1>1, <1>2, <1>3, <1>4, <1>5, GrantsBooked

LEMMA GrantsTick ==
  ASSUME OutflowInv, Tick, NEW l \in Limited
  PROVE  Covered(l)
<1>1. /\ integrations' = integrations /\ reserve' = reserve
      /\ clock'.ts = clock.ts + 1 /\ ToldTo(l)' = ToldTo(l)
      /\ budget' = [k \in Limited |-> budget[k] + SlopeOf(k)]
  BY DEF Tick, accounts, ToldTo
<1>2. Account(l)' = Account(l)
  BY <1>1, AccountFacts, AccountNext DEF Limited
<1>3. /\ budget[l] \in Nat /\ clock.ts \in Nat /\ ToldTo(l) \in Int
      /\ Account(l).max \in Nat /\ Account(l).slope \in Nat
  BY LimitNumbers
<1>4. SlopeOf(l) = Account(l).slope
  BY DEF SlopeOf, Account
<1>5. Granted(l) = Account(l).slope
  BY <1>1, <1>3, <1>4 DEF Granted
<1>6. Account(l).slope * (clock'.ts - clock.ts) = Account(l).slope
  BY <1>1, <1>3
<1>7. /\ SatSub(Account(l)'.max, Account(l).max) = 0
      /\ SatSub(ToldTo(l)' - ToldTo(l), 0) = 0
  BY <1>1, <1>2, <1>3 DEF SatSub
<1>8. SecondsPerDay * 0 = 0
  OBVIOUS
<1>. QED  BY <1>3, <1>5, <1>6, <1>7, <1>8 DEF Covered

LEMMA GrantsNext ==
  ASSUME OutflowInv, Untouched, [OutflowNext]_outVars, NEW l \in Limited
  PROVE  Covered(l)
<1>1. CASE UNCHANGED <<integrations, reserve, clock, paid, budget>>
  <2>1. Account(l)' = Account(l) /\ ToldTo(l)' = ToldTo(l)
    BY <1>1 DEF Account, ToldTo
  <2>. QED  BY <1>1, <2>1, GrantsNothing
<1>2. (\E authority \in Authorities : ClaimRent(authority)) \/ Govern
        \/ (\E amount \in Deposits : Deposit(amount)) \/ UNCHANGED outVars
        => UNCHANGED <<integrations, reserve, clock, paid, budget>>
  BY DEF ClaimRent, Govern, Deposit, outVars, accounts, history
<1>3. ASSUME SyncReserve PROVE Covered(l)
  <2>1. /\ reserve' = Synced /\ integrations' = integrations /\ clock' = clock
        /\ paid' = paid /\ Grant(TheReserve, Booked) /\ OutflowTypeOK
    BY <1>3 DEF SyncReserve, OutflowInv
  <2>2. paid \in Int /\ vault \in Int
    BY <2>1 DEF OutflowTypeOK
  <2>3. /\ paid' = paid + 0 /\ reserve'.lastBalance = vault - 0
        /\ reserve'.max = reserve.max
    BY <2>1, <2>2, SyncedReserve, SyncAsMove
  <2>4. l # TheReserve => Account(l)'.max = Account(l).max
    BY <2>1, AccountFacts, AccountNext DEF Limited
  <2>. QED  BY <2>1, <2>3, <2>4, GrantsBooked
<1>. QED  BY <1>1, <1>2, <1>3, GrantsInitializeIntegration,
             GrantsManageIntegration, GrantsPush, GrantsTick DEF OutflowNext

-----------------------------------------------------------------------------
\* The quantities of a limit are numbers after a step as before it.
Numbers ==
  \A l \in Limited : /\ PaidBy(l) \in Int /\ ToldTo(l) \in Int
                     /\ Account(l).max \in Nat /\ clock.ts \in Nat
                     /\ LevelAt(Account(l), clock) \in Nat

LEMMA NumbersNext == OutflowInv' => Numbers'
<1>1. OutflowInv => Numbers
  BY LimitNumbers DEF Numbers
<1>. QED  BY <1>1, PTL

\* A step pays no more than the bucket held and was granted.
LEMMA PaidStep ==
  ASSUME OutflowInv, OutflowInv', NEW l \in Limited, BucketStep(l), Covered(l)
  PROVE  SecondsPerDay * (PaidBy(l)' - PaidBy(l)) + LevelAt(Account(l), clock)'
           <= LevelAt(Account(l), clock) + Granted(l)
<1> DEFINE level == LevelAt(Account(l), clock)
           next  == LevelAt(Account(l), clock)'
           max   == Account(l).max
           new   == Account(l)'.max
           out   == PaidBy(l)' - PaidBy(l)
           found == ToldTo(l)' - ToldTo(l)
           in    == SatSub(found, 0)
           lost  == SatSub(0, found)
           e     == Account(l).slope * (clock'.ts - clock.ts)
           g     == Granted(l)
<1>1. Numbers'
  BY NumbersNext
<1>2. /\ level \in Nat /\ max \in Nat /\ out \in Int /\ found \in Int
      /\ new \in Nat /\ next \in Nat /\ e \in Int
  <2>1. /\ PaidBy(l)' \in Int /\ ToldTo(l)' \in Int /\ Account(l)'.max \in Nat
        /\ clock'.ts \in Nat /\ next \in Nat
    BY <1>1 DEF Numbers
  <2>2. /\ PaidBy(l) \in Int /\ ToldTo(l) \in Int /\ max \in Nat
        /\ clock.ts \in Nat /\ level \in Nat /\ Account(l).slope \in Nat
    BY LimitNumbers
  <2>. QED  BY <2>1, <2>2
<1>3. /\ g \in Nat /\ e <= g /\ SecondsPerDay * SatSub(new, max) <= g
      /\ SecondsPerDay * in <= g
  BY DEF Covered
<1>4. in \in Nat /\ lost \in Nat
  BY <1>2 DEF SatSub
<1>5. CASE out = 0 /\ found = 0
  <2>1. SecondsPerDay * out = 0
    BY <1>5
  <2>2. CASE Bucket(l)!Elapse(clock'.ts - clock.ts)
    <3>1. next = level \/ next = Least(level + e, SecondsPerDay * max)
      BY <2>2 DEF Bucket!Elapse, Bucket!Units, Bucket!Lower, Least
    <3>2. SecondsPerDay * max \in Nat
      BY <1>2, DayTimes
    <3> HIDE DEF e, level, next, max, g
    <3>3. next <= level + g
      BY <1>2, <1>3, <3>1, <3>2 DEF Least
    <3>. QED  BY <1>2, <2>1, <3>3 DEF level, next, g
  <2>3. CASE Bucket(l)!Resize(Account(l)'.max, Account(l)'.slope)
    <3>1. next = Resized(level, max, new)
      BY <2>3 DEF Bucket!Resize, Bucket!Units, Resized
    <3> HIDE DEF level, next, max, new, g
    <3>2. /\ SecondsPerDay * new \in Int /\ SecondsPerDay * max \in Int
          /\ SecondsPerDay * (new - max) = SecondsPerDay * new - SecondsPerDay * max
      <4>1. new \in Int /\ max \in Int
        BY <1>2
      <4>. QED  BY <4>1, DayMult
    <3>3. SecondsPerDay * new - SecondsPerDay * max <= g
      <4>1. CASE new >= max
        BY <1>2, <1>3, <3>2, <4>1 DEF SatSub
      <4>2. CASE new < max
        <5>1. SecondsPerDay * new + SecondsPerDay <= SecondsPerDay * max
          BY <1>2, <4>2, DayStrict
        <5>. QED  BY <1>3, <3>2, <5>1
      <4>. QED  BY <1>2, <4>1, <4>2
    <3>4. next <= level + g
      BY <1>2, <1>3, <3>1, <3>2, <3>3 DEF Resized
    <3>. QED  BY <1>2, <2>1, <3>4 DEF level, next, g
  <2>. QED  BY <1>5, <2>2, <2>3 DEF BucketStep
<1>6. CASE ~(out = 0 /\ found = 0)
  <2>1. Bucket(l)!Move(in, lost, out, 0)
    BY <1>6 DEF BucketStep
  <2>2. MovedTo(level, max, in, lost, out, 0, next)
    BY <2>1 DEF Bucket!Move, Bucket!Fill, Bucket!Drain, Bucket!Units,
                Bucket!Fraction, Bucket!Lower, MovedTo, Filled, Drained, Least
  <2> HIDE DEF level, next, max, in, lost, out, g
  <2>3. next + SecondsPerDay * out <= level + SecondsPerDay * in
    BY <1>2, <1>4, <2>2, PaidAtMost
  <2>4. SecondsPerDay * out \in Int /\ SecondsPerDay * in \in Int
    BY <1>2, <1>4, DayMult
  <2>5. SecondsPerDay * out + next <= level + g
    BY <1>2, <1>3, <2>3, <2>4
  <2>. QED  BY <2>5 DEF level, next, out, g
<1>. QED  BY <1>5, <1>6

\* What a limit may still pay after p was paid and b was granted, with what it
\* would hold now.
Within(l, p, b, cap) ==
  SecondsPerDay * (PaidBy(l) - p) + LevelAt(Account(l), clock)
    < SecondsPerDay * (cap + 1) + (budget[l] - b)

LEMMA WithinStart ==
  ASSUME OutflowInv, NEW l \in Limited
  PROVE  Within(l, PaidBy(l), budget[l], Account(l).max)
<1> DEFINE level == LevelAt(Account(l), clock)
           max   == Account(l).max
<1>1. /\ PaidBy(l) \in Int /\ budget[l] \in Nat /\ max \in Nat /\ level \in Nat
      /\ level <= SecondsPerDay * max + (level % SecondsPerDay)
  BY LimitNumbers
<1>2. PaidBy(l) - PaidBy(l) = 0 /\ budget[l] - budget[l] = 0
  BY <1>1
<1> HIDE DEF level, max
<1>3. level % SecondsPerDay \in Int /\ level % SecondsPerDay < SecondsPerDay
  BY <1>1
<1>4. /\ SecondsPerDay * max \in Nat /\ SecondsPerDay * 0 = 0
      /\ SecondsPerDay * (max + 1) = SecondsPerDay * max + SecondsPerDay * 1
      /\ SecondsPerDay * 1 = SecondsPerDay
  BY <1>1, DayTimes, DayMult
<1>5. SecondsPerDay * 0 + level < SecondsPerDay * (max + 1) + 0
  BY <1>1, <1>3, <1>4
<1>. QED  BY <1>2, <1>5 DEF Within, level, max

LEMMA WithinStep ==
  ASSUME OutflowInv, OutflowInv', Untouched, [OutflowNext]_outVars,
         NEW l \in Limited, NEW p \in Nat, NEW b \in Nat, NEW cap \in Nat,
         Within(l, p, b, cap)
  PROVE  Within(l, p, b, cap)'
<1> DEFINE level == LevelAt(Account(l), clock)
           next  == LevelAt(Account(l), clock)'
           bound == SecondsPerDay * (cap + 1)
<1>1. SecondsPerDay * (PaidBy(l)' - PaidBy(l)) + next <= level + Granted(l)
  BY BucketsNext, GrantsNext, PaidStep
<1>2. Numbers'
  BY NumbersNext
<1>3. /\ PaidBy(l) \in Int /\ budget[l] \in Nat /\ level \in Nat
      /\ PaidBy(l)' \in Int /\ next \in Nat /\ Granted(l) \in Nat
      /\ budget'[l] \in Int
  <2>1. PaidBy(l)' \in Int /\ next \in Nat
    BY <1>2 DEF Numbers
  <2>2. OutflowTypeOK'
    BY DEF OutflowInv
  <2>3. budget'[l] \in Int
    BY <2>2 DEF OutflowTypeOK
  <2>. QED  BY <2>1, <2>3, LimitNumbers, GrantsNext DEF Covered
<1>4. SecondsPerDay * (PaidBy(l) - p) + level < bound + (budget[l] - b)
  BY DEF Within
<1>5. bound \in Int
  BY DayMult
<1>6. /\ SecondsPerDay * (PaidBy(l) - p) \in Int
      /\ SecondsPerDay * (PaidBy(l)' - PaidBy(l)) \in Int
      /\ SecondsPerDay * (PaidBy(l)' - p) =
           SecondsPerDay * (PaidBy(l) - p) + SecondsPerDay * (PaidBy(l)' - PaidBy(l))
  <2>1. /\ PaidBy(l) - p \in Int /\ PaidBy(l)' - PaidBy(l) \in Int
        /\ PaidBy(l)' - p = (PaidBy(l) - p) + (PaidBy(l)' - PaidBy(l))
    BY <1>3
  <2>. QED  BY <2>1, DayMult
<1> HIDE DEF level, next, bound
<1>7. SecondsPerDay * (PaidBy(l)' - p) + next < bound + (budget'[l] - b)
  <2>1. budget'[l] = budget[l] + Granted(l)
    BY <1>3 DEF Granted
  <2>. QED  BY <1>1, <1>3, <1>4, <1>5, <1>6, <2>1
<1>. QED  BY <1>7 DEF Within, next, bound

\* From any moment on, a limit pays less than a token more than its cap of that
\* moment and what has been granted since: whatever it held, earned or paid
\* before counts no more, and no call of anybody lets it pay a second time.
THEOREM OutflowWindowBounded ==
  ASSUME NEW l \in Limited, NEW p \in Nat, NEW b \in Nat, NEW cap \in Nat
  PROVE  OutflowSpec =>
           [](PaidBy(l) = p /\ budget[l] = b /\ Account(l).max = cap
                => [](SecondsPerDay * (PaidBy(l) - p)
                        < SecondsPerDay * (cap + 1) + (budget[l] - b)))
<1> DEFINE Now  == PaidBy(l) = p /\ budget[l] = b /\ Account(l).max = cap
           Then == SecondsPerDay * (PaidBy(l) - p)
                     < SecondsPerDay * (cap + 1) + (budget[l] - b)
           Safe == OutflowInv /\ Untouched
<1>1. Safe /\ Now => Within(l, p, b, cap)
  BY WithinStart
<1>2. Safe /\ Safe' /\ Within(l, p, b, cap) /\ [OutflowNext]_outVars
        => Within(l, p, b, cap)'
  BY WithinStep
<1>3. Safe /\ Within(l, p, b, cap) => Then
  <2>1. SUFFICES ASSUME Safe, Within(l, p, b, cap) PROVE Then
    OBVIOUS
  <2>2. PaidBy(l) \in Int /\ budget[l] \in Nat /\ LevelAt(Account(l), clock) \in Nat
    BY <2>1, LimitNumbers
  <2>3. SecondsPerDay * (PaidBy(l) - p) \in Int /\ SecondsPerDay * (cap + 1) \in Int
    BY <2>2, DayMult
  <2>. QED  BY <2>1, <2>2, <2>3 DEF Within
<1>4. OutflowSpec => []Safe
  BY UntouchedInit, UntouchedNext, OutflowInvariant, PTL DEF OutflowSpec
<1> HIDE DEF Now, Then, Safe
<1>5. OutflowSpec => [](Now => []Then)
  BY <1>1, <1>2, <1>3, <1>4, PTL DEF OutflowSpec
<1>. QED  BY <1>5 DEF Now, Then

-----------------------------------------------------------------------------
(***************************************************************************)
(* The reserve of this module is the component that module Reserve         *)
(* specifies.  The two modules share ReserveState, so that each operator   *)
(* of the component has the same definition here, one instance away.       *)
(***************************************************************************)
LEMMA ComponentOperators ==
  /\ \A r, v, c : Component!SyncBalance(r, v, c) = SyncBalance(r, v, c)
  /\ \A r, n : Component!UpdateForOutflow(r, n) = UpdateForOutflow(r, n)
  /\ \A r, v : Component!SyncEvent(r, v) = SyncEvent(r, v)
  /\ \A r, n : Component!WithinRateLimit(r, n) <=> WithinRateLimit(r, n)
<1>1. \A r, c : Component!RefreshRateLimit(r, c) = RefreshRateLimit(r, c)
  BY DEF Component!RefreshRateLimit, RefreshRateLimit, Component!Accrues, Accrues,
         Component!Increment, Increment, Component!Remainder, Remainder,
         Component!Accrued, Accrued, Component!SatAdd, SatAdd,
         Component!Least, Least
<1>2. \A r, n : Component!UpdateForOutflow(r, n) = UpdateForOutflow(r, n)
  BY DEF Component!UpdateForOutflow, UpdateForOutflow, Component!DebitRateLimit,
         DebitRateLimit, Component!SatSub, SatSub
<1>3. \A r, n : Component!UpdateForInflow(r, n) = UpdateForInflow(r, n)
  BY DEF Component!UpdateForInflow, UpdateForInflow, Component!CreditRateLimit,
         CreditRateLimit, Component!SatAdd, SatAdd, Component!Least, Least
<1>4. \A r, v, c : Component!SyncBalance(r, v, c) = SyncBalance(r, v, c)
  BY <1>1, <1>2, <1>3 DEF Component!SyncBalance, SyncBalance
<1>. QED
  BY <1>2, <1>4 DEF Component!SyncEvent, SyncEvent, Component!WithinRateLimit,
                    WithinRateLimit

\* No instruction of this module suspends the reserve, and seconds and slots
\* pass alike.
Running ==
  /\ reserve.status = "Active"
  /\ clock.slot = clock.ts

LEMMA RunningInit == OutflowInit => Running
BY DEF OutflowInit, Running, InitReserve

\* A sync and a debit leave the status alone.
LEMMA StatusKept ==
  ASSUME OutflowInv
  PROVE  /\ Synced.status = reserve.status
         /\ \A n : UpdateForOutflow(Synced, n).status = reserve.status
<1>1. /\ reserve \in Reserves /\ reserve.avail <= reserve.max /\ vault \in U64
      /\ clock \in Clocks /\ reserve.ts <= clock.ts
  BY DEF OutflowInv, OutflowTypeOK, Charged, U64
<1>2. Synced \in Reserves /\ Synced.status = reserve.status
  BY <1>1, SyncKeeps DEF Synced
<1>3. \A n : UpdateForOutflow(Synced, n).status = Synced.status
  BY <1>2 DEF UpdateForOutflow, DebitRateLimit, Reserves
<1>. QED  BY <1>2, <1>3

LEMMA RunningNext ==
  ASSUME OutflowInv, Running, [OutflowNext]_outVars
  PROVE  Running'
<1>1. CASE SyncReserve
  BY <1>1, StatusKept DEF SyncReserve, Running
<1>2. ASSUME NEW authority \in Authorities, NEW c \in Configs,
             NEW amount \in Amounts, Push(authority, c, amount)
      PROVE  Running'
  BY <1>2, StatusKept DEF Push, Running
<1>3. CASE Tick
  BY <1>3 DEF Tick, accounts, Running, OutflowInv, OutflowTypeOK, Clocks
<1>4. CASE UNCHANGED <<reserve, clock>>
  BY <1>4 DEF Running
<1>. QED
  BY <1>1, <1>2, <1>3, <1>4 DEF OutflowNext, InitializeIntegration,
     ManageIntegration, ClaimRent, Govern, Deposit, outVars, accounts

-----------------------------------------------------------------------------
LEMMA ComponentSync ==
  ASSUME Running, SyncReserve
  PROVE  Component!SyncReserve
<1>1. /\ reserve.status # "Uninitialized"
      /\ reserve' = SyncBalance(reserve, vault, clock)
      /\ ledger' = ledger + SyncEvent(reserve, vault)
      /\ UNCHANGED <<vault, clock>>
  BY DEF Running, SyncReserve, Synced
<1>. QED
  BY <1>1, ComponentOperators
     DEF Component!SyncReserve, Component!Initialized, Component!Synced

\* Whoever pushes, and to wherever, the reserve sees a Push of what it pays.
LEMMA ComponentPush ==
  ASSUME OutflowInv, NEW authority \in Authorities, NEW c \in Configs,
         NEW amount \in Amounts, Push(authority, c, amount)
  PROVE  \E n \in 1 .. Supply : Component!Push(n)
<1>1. vault \in 0 .. Supply /\ Supply \in Nat
  BY DEF OutflowInv, OutflowTypeOK, U64
<1>2. amount \in Nat /\ amount # 0
  OBVIOUS
<1>3. amount <= vault
  BY DEF Push
<1>4. amount \in 1 .. Supply
  BY <1>1, <1>2, <1>3
<1>5. /\ reserve.status = "Active"
      /\ WithinRateLimit(Synced, amount)
      /\ vault' = vault - amount
      /\ reserve' = UpdateForOutflow(Synced, amount)
      /\ ledger' = ledger + SyncEvent(reserve, vault) - amount
      /\ clock' = clock
  BY DEF Push, TransferMatches, WithinBoth
<1>6. Component!Push(amount)
  BY <1>3, <1>5, ComponentOperators DEF Component!Push, Component!Synced, Synced
<1>. QED  BY <1>4, <1>6

LEMMA ComponentDeposit ==
  ASSUME OutflowInv, NEW amount \in Deposits, Deposit(amount)
  PROVE  \E n \in 1 .. Supply : Component!Deposit(n)
<1>1. vault \in 0 .. Supply /\ Supply \in Nat
  BY DEF OutflowInv, OutflowTypeOK, U64
<1>2. amount \in Nat /\ amount # 0
  OBVIOUS
<1>3. vault + amount <= Supply
  BY DEF Deposit
<1>4. amount \in 1 .. Supply
  BY <1>1, <1>2, <1>3
<1>5. Component!Deposit(amount)
  BY DEF Deposit, history, Component!Deposit
<1>. QED  BY <1>4, <1>5

LEMMA ComponentTick ==
  ASSUME OutflowInv, Running, Tick
  PROVE  Component!Tick(1)
<1>1. clock.ts \in Nat /\ clock.slot = clock.ts /\ MaxTime \in Nat
  BY DEF Running, OutflowInv, OutflowTypeOK, Clocks
<1>2. /\ clock.ts < MaxTime
      /\ clock' = [ts |-> clock.ts + 1, slot |-> clock.slot + 1]
      /\ UNCHANGED <<reserve, vault, ledger>>
  BY DEF Tick, accounts
<1>3. clock.ts + 1 <= MaxTime /\ clock.slot < MaxTime
  BY <1>1, <1>2
<1>. QED  BY <1>2, <1>3 DEF Component!Tick

\* Every step of the composition is an operation of the component, or one that
\* the component does not see.
LEMMA ComponentNext ==
  ASSUME OutflowInv, Running, [OutflowNext]_outVars
  PROVE  [Component!Next]_(Component!vars)
<1>1. CASE SyncReserve
  BY <1>1, ComponentSync DEF Component!Next
<1>2. ASSUME NEW authority \in Authorities, NEW c \in Configs,
             NEW amount \in Amounts, Push(authority, c, amount)
      PROVE  Component!Next
  BY <1>2, ComponentPush DEF Component!Next
<1>3. ASSUME NEW amount \in Deposits, Deposit(amount)
      PROVE  Component!Next
  BY <1>3, ComponentDeposit DEF Component!Next
<1>4. CASE Tick
  BY <1>4, ComponentTick DEF Component!Next
<1>5. CASE UNCHANGED <<reserve, vault, ledger, clock>>
  BY <1>5 DEF Component!vars
<1>. QED
  BY <1>1, <1>2, <1>3, <1>4, <1>5 DEF OutflowNext, InitializeIntegration,
     ManageIntegration, ClaimRent, Govern, outVars, accounts, history

\* The reserve that integrations are paid out of is the one that module Reserve
\* specifies, so that what is proved of it there holds of it here.
THEOREM OutflowReserveIsComponent == OutflowSpec => ReserveIsComponent
<1>1. OutflowSpec => []Running
  BY RunningInit, RunningNext, OutflowInvariant, PTL DEF OutflowSpec
<1>. QED
  BY <1>1, ComponentNext, OutflowInvariant, PTL
     DEF OutflowSpec, ReserveIsComponent
=============================================================================
