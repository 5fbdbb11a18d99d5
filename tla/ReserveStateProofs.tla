------------------------- MODULE ReserveStateProofs -------------------------
(***************************************************************************)
(* What each method of a Reserve account keeps, and what the operators of  *)
(* RateLimit do to the level of any account that carries a limit, for      *)
(* every value of the constants.                                           *)
(***************************************************************************)
EXTENDS ReserveState, LimitLevel, TLAPS

USE RateLimitAssumption

-----------------------------------------------------------------------------
\* A natural number is its quotient and its remainder.
LEMMA DivMod ==
  ASSUME NEW n \in Nat, NEW d \in Nat \ {0}
  PROVE  /\ n \div d \in Nat
         /\ n % d \in 0 .. (d - 1)
         /\ n = d * (n \div d) + (n % d)
OBVIOUS

\* What was earned since the last refresh, in units, is a natural number.
LEMMA AccruedNat ==
  ASSUME NEW r \in Reserves, NEW now \in Nat, r.ts <= now
  PROVE  Accrued(r, now) \in Nat
<1>1. /\ r.slope \in Nat /\ r.rem \in Nat /\ now - r.ts \in Nat
  BY DEF Reserves, U64
<1>2. r.slope * (now - r.ts) \in Nat
  BY <1>1
<1>. QED  BY <1>1, <1>2 DEF Accrued

\* A refresh keeps an account well formed and within its cap, moves its clock
\* to the present and changes nothing else.
LEMMA RefreshKeeps ==
  ASSUME NEW r \in Reserves, NEW clk \in Clocks, r.ts <= clk.ts,
         r.avail <= r.max
  PROVE  LET q == RefreshRateLimit(r, clk)
         IN  /\ q \in Reserves
             /\ q.avail <= q.max
             /\ q.ts = clk.ts
             /\ q.slot = clk.slot
             /\ q.status = r.status
             /\ q.lastBalance = r.lastBalance
             /\ q.slope = r.slope
             /\ q.max = r.max
<1> DEFINE inc == Increment(r, clk.ts)
           av  == Least(SatAdd(r.avail, inc), r.max)
           re  == IF av = r.max THEN 0 ELSE Remainder(r, clk.ts)
<1>1. Accrued(r, clk.ts) \in Nat
  BY AccruedNat DEF Clocks
<1>2. inc \in U64 /\ Remainder(r, clk.ts) \in 0 .. (SecondsPerDay - 1)
  <2> DEFINE n == Accrued(r, clk.ts)
  <2>1. n \div SecondsPerDay \in Nat /\ n % SecondsPerDay \in 0 .. (SecondsPerDay - 1)
    BY <1>1, DivMod
  <2>. QED  BY <2>1 DEF Increment, Remainder, Least, U64
<1>3. av \in U64 /\ av <= r.max /\ re \in 0 .. (SecondsPerDay - 1)
  BY <1>2 DEF Least, SatAdd, U64, Reserves
<1> HIDE DEF inc, av, re
<1>4. CASE Accrues(r, clk)
  <2>1. RefreshRateLimit(r, clk) =
          [r EXCEPT !.avail = av, !.rem = re, !.ts = clk.ts, !.slot = clk.slot]
    BY <1>4 DEF RefreshRateLimit, av, re, inc, Reserves
  <2>. QED  BY <1>3, <2>1 DEF Reserves, Clocks
<1>5. CASE ~Accrues(r, clk)
  <2>1. RefreshRateLimit(r, clk) = [r EXCEPT !.ts = clk.ts, !.slot = clk.slot]
    BY <1>5 DEF RefreshRateLimit
  <2>. QED  BY <2>1 DEF Reserves, Clocks
<1>. QED  BY <1>4, <1>5

-----------------------------------------------------------------------------
\* The methods that book a flow keep an account well formed and within its
\* cap, and change the recorded balance by the flow.
LEMMA InflowKeeps ==
  ASSUME NEW r \in Reserves, r.avail <= r.max,
         NEW inflow \in Nat, r.lastBalance + inflow <= U64Max
  PROVE  LET q == UpdateForInflow(r, inflow)
         IN  /\ q \in Reserves
             /\ q.avail <= q.max
             /\ q.lastBalance = r.lastBalance + inflow
             /\ q.status = r.status /\ q.slope = r.slope /\ q.max = r.max
             /\ q.rem = r.rem /\ q.ts = r.ts /\ q.slot = r.slot
<1> DEFINE av == Least(r.max, SatAdd(r.avail, inflow))
<1>1. av \in U64 /\ av <= r.max
  BY DEF Least, SatAdd, U64, Reserves
<1>2. UpdateForInflow(r, inflow) =
        [r EXCEPT !.avail = av, !.lastBalance = r.lastBalance + inflow]
  BY DEF UpdateForInflow, CreditRateLimit, Reserves
<1>3. r.lastBalance + inflow \in U64
  BY DEF Reserves, U64
<1> HIDE DEF av
<1>. QED  BY <1>1, <1>2, <1>3 DEF Reserves

LEMMA OutflowKeeps ==
  ASSUME NEW r \in Reserves, r.avail <= r.max,
         NEW outflow \in Nat, outflow <= r.lastBalance
  PROVE  LET q == UpdateForOutflow(r, outflow)
         IN  /\ q \in Reserves
             /\ q.avail <= q.max
             /\ q.lastBalance = r.lastBalance - outflow
             /\ q.status = r.status /\ q.slope = r.slope /\ q.max = r.max
             /\ q.rem = r.rem /\ q.ts = r.ts /\ q.slot = r.slot
<1> DEFINE av == SatSub(r.avail, outflow)
<1>1. av \in U64 /\ av <= r.max
  BY DEF SatSub, U64, Reserves
<1>2. UpdateForOutflow(r, outflow) =
        [r EXCEPT !.avail = av, !.lastBalance = r.lastBalance - outflow]
  BY DEF UpdateForOutflow, DebitRateLimit, Reserves
<1>3. r.lastBalance - outflow \in U64
  BY DEF Reserves, U64
<1> HIDE DEF av
<1>. QED  BY <1>1, <1>2, <1>3 DEF Reserves

\* After a sync the account records the balance of the vault.
LEMMA SyncKeeps ==
  ASSUME NEW r \in Reserves, NEW clk \in Clocks, r.ts <= clk.ts,
         r.avail <= r.max, NEW v \in U64
  PROVE  LET q == SyncBalance(r, v, clk)
         IN  /\ q \in Reserves
             /\ q.avail <= q.max
             /\ q.lastBalance = v
             /\ q.ts = clk.ts /\ q.slot = clk.slot
             /\ q.status = r.status /\ q.slope = r.slope /\ q.max = r.max
<1> DEFINE f == RefreshRateLimit(r, clk)
<1>1. /\ f \in Reserves /\ f.avail <= f.max
      /\ f.ts = clk.ts /\ f.slot = clk.slot
      /\ f.status = r.status /\ f.slope = r.slope /\ f.max = r.max
      /\ f.lastBalance = r.lastBalance
  BY RefreshKeeps
<1>2. v \in Nat /\ r.lastBalance \in Nat /\ v <= U64Max
  BY DEF U64, Reserves
<1> HIDE DEF f
<1>3. CASE v > r.lastBalance
  <2>1. SyncBalance(r, v, clk) = UpdateForInflow(f, v - r.lastBalance)
    BY <1>3 DEF SyncBalance, f
  <2>2. /\ v - r.lastBalance \in Nat
        /\ f.lastBalance + (v - r.lastBalance) = v
    BY <1>1, <1>2, <1>3
  <2>3. LET q == UpdateForInflow(f, v - r.lastBalance)
        IN  /\ q \in Reserves
            /\ q.avail <= q.max
            /\ q.lastBalance = v
            /\ q.status = f.status /\ q.slope = f.slope /\ q.max = f.max
            /\ q.ts = f.ts /\ q.slot = f.slot
    BY <1>1, <1>2, <2>2, InflowKeeps
  <2>. QED  BY <1>1, <2>1, <2>3
<1>4. CASE ~(v > r.lastBalance)
  <2>1. SyncBalance(r, v, clk) = UpdateForOutflow(f, r.lastBalance - v)
    BY <1>4 DEF SyncBalance, f
  <2>2. /\ r.lastBalance - v \in Nat
        /\ r.lastBalance - v <= f.lastBalance
        /\ f.lastBalance - (r.lastBalance - v) = v
    BY <1>1, <1>2, <1>4
  <2>3. LET q == UpdateForOutflow(f, r.lastBalance - v)
        IN  /\ q \in Reserves
            /\ q.avail <= q.max
            /\ q.lastBalance = v
            /\ q.status = f.status /\ q.slope = f.slope /\ q.max = f.max
            /\ q.ts = f.ts /\ q.slot = f.slot
    BY <1>1, <2>2, OutflowKeeps
  <2>. QED  BY <1>1, <2>1, <2>3
<1>. QED  BY <1>3, <1>4

\* An optional argument of a handler yields one of its values or the default.
LEMMA OrElseType ==
  ASSUME NEW S, NEW o \in Option(S), NEW d
  PROVE  /\ o = {} => OrElse(o, d) = d
         /\ o # {} => OrElse(o, d) \in S
BY DEF Option, OrElse

\* The same for Reserve::update: the gap it computes is a natural number.
LEMMA UpdateKeeps ==
  ASSUME NEW r \in Reserves, NEW clk \in Clocks, r.ts <= clk.ts,
         r.avail <= r.max, r.status # "Uninitialized",
         NEW status \in Option(ReserveStatus), NEW slope \in Option(U64),
         NEW max \in Option(U64)
  PROVE  LET q == UpdateReserve(r, status, slope, max, clk)
         IN  /\ q \in Reserves
             /\ q.avail <= q.max
             /\ q.ts = clk.ts /\ q.slot = clk.slot
             /\ q.lastBalance = r.lastBalance
             /\ q.status # "Uninitialized"
<1> DEFINE st == OrElse(status, r.status)
           sl == OrElse(slope, r.slope)
           g  == RefreshRateLimit(r, clk)
           f  == [g EXCEPT !.status = st, !.slope = sl]
           m  == OrElse(max, 0)
<1>1. g \in Reserves /\ g.avail <= g.max /\ g.ts = clk.ts /\ g.slot = clk.slot
      /\ g.status = r.status /\ g.slope = r.slope /\ g.lastBalance = r.lastBalance
  BY RefreshKeeps
<1>2. st \in ReserveStatus /\ sl \in U64 /\ (max # {} => m \in U64)
  BY OrElseType DEF Reserves
<1>3. "Uninitialized" \notin ReserveStatus
  BY DEF ReserveStatus
<1>4. UpdateReserve(r, status, slope, max, clk) =
        IF max = {} THEN f ELSE SetMaxOutflow(f, m)
  BY <1>1 DEF UpdateReserve, Reserves
<1> HIDE DEF g, st, sl, m
<1>5. /\ f \in Reserves /\ f.avail <= f.max /\ f.lastBalance = r.lastBalance
      /\ f.ts = clk.ts /\ f.slot = clk.slot /\ f.status # "Uninitialized"
  BY <1>1, <1>2, <1>3 DEF Reserves
<1> HIDE DEF f
<1>6. CASE max # {}
  <2> DEFINE gap == f.max - f.avail
             av  == SatSub(m, gap)
             re  == IF gap > m THEN 0 ELSE f.rem
  <2>1. av \in U64 /\ av <= m /\ re \in 0 .. (SecondsPerDay - 1)
    BY <1>2, <1>5, <1>6 DEF SatSub, U64, Reserves
  <2>2. SetMaxOutflow(f, m) = [f EXCEPT !.max = m, !.avail = av, !.rem = re]
    BY <1>5 DEF SetMaxOutflow, Reserves
  <2> HIDE DEF av, re
  <2>3. [f EXCEPT !.max = m, !.avail = av, !.rem = re] \in Reserves
    BY <1>2, <1>5, <1>6, <2>1 DEF Reserves
  <2>. QED  BY <1>4, <1>5, <1>6, <2>1, <2>2, <2>3 DEF Reserves
<1>. QED  BY <1>4, <1>5, <1>6

-----------------------------------------------------------------------------
\* Multiples of the day.
LEMMA DayMult ==
  ASSUME NEW a \in Int, NEW b \in Int
  PROVE  /\ SecondsPerDay * (a + b) = SecondsPerDay * a + SecondsPerDay * b
         /\ SecondsPerDay * (a - b) = SecondsPerDay * a - SecondsPerDay * b
         /\ SecondsPerDay * a \in Int
         /\ a \in Nat => SecondsPerDay * a \in Nat
         /\ a <= b => SecondsPerDay * a <= SecondsPerDay * b
OBVIOUS

LEMMA DayTimes ==
  ASSUME NEW a \in Nat
  PROVE  SecondsPerDay * a \in Nat
BY DayMult

LEMMA DayStrict ==
  ASSUME NEW a \in Int, NEW b \in Int, a < b
  PROVE  SecondsPerDay * a + SecondsPerDay <= SecondsPerDay * b
<1>1. a + 1 <= b
  OBVIOUS
<1>2. SecondsPerDay * (a + 1) <= SecondsPerDay * b
  BY <1>1, DayMult
<1>. QED  BY <1>2

\* A number is split into whole days and a remainder in one way only.
LEMMA DaySplit ==
  ASSUME NEW a \in Nat, NEW b \in 0 .. (SecondsPerDay - 1)
  PROVE  (SecondsPerDay * a + b) % SecondsPerDay = b
<1> DEFINE n == SecondsPerDay * a + b
           q == n \div SecondsPerDay
           m == n % SecondsPerDay
<1>1. n \in Nat
  BY DayTimes
<1>2. /\ q \in Nat /\ m \in 0 .. (SecondsPerDay - 1)
      /\ n = SecondsPerDay * q + m
  BY <1>1, DivMod
<1>3. SecondsPerDay * q + m = SecondsPerDay * a + b
  BY <1>2
<1> HIDE DEF n, q, m
<1>4. ~(q < a)
  <2> SUFFICES ASSUME q < a PROVE FALSE
    OBVIOUS
  <2>1. SecondsPerDay * q + SecondsPerDay <= SecondsPerDay * a
    BY <1>2, DayStrict
  <2>2. SecondsPerDay * q \in Nat /\ SecondsPerDay * a \in Nat
    BY <1>2, DayTimes
  <2>. QED  BY <1>2, <1>3, <2>1, <2>2
<1>5. ~(a < q)
  <2> SUFFICES ASSUME a < q PROVE FALSE
    OBVIOUS
  <2>1. SecondsPerDay * a + SecondsPerDay <= SecondsPerDay * q
    BY <1>2, DayStrict
  <2>2. SecondsPerDay * q \in Nat /\ SecondsPerDay * a \in Nat
    BY <1>2, DayTimes
  <2>. QED  BY <1>2, <1>3, <2>1, <2>2
<1>6. q = a
  BY <1>2, <1>4, <1>5
<1>7. m = b
  BY <1>2, <1>3, <1>6, DayTimes
<1>. QED  BY <1>7 DEF m, n

-----------------------------------------------------------------------------
\* An account that carries a limit: a record with its fields, whatever else
\* it has, that never holds more than its cap.
LimitFields == {"slope", "max", "avail", "rem", "ts", "slot"}

IsLimit(b) ==
  /\ LimitFields \subseteq DOMAIN b
  /\ b.slope \in U64 /\ b.max \in U64 /\ b.avail \in U64 /\ b.avail <= b.max
  /\ b.rem \in 0 .. (SecondsPerDay - 1)
  /\ b.ts \in Nat

\* The fields of a limit that decide its level.
SameLimit(b, q) == q.slope = b.slope /\ q.max = b.max /\ q.avail = b.avail
                     /\ q.rem = b.rem /\ q.ts = b.ts

LEMMA ReserveIsLimit ==
  ASSUME NEW r \in Reserves, r.avail <= r.max
  PROVE  IsLimit(r)
BY DEF IsLimit, LimitFields, Reserves

LEMMA SameLevel ==
  ASSUME NEW b, NEW q, SameLimit(b, q), NEW clk
  PROVE  Level(q) = Level(b) /\ LevelAt(q, clk) = LevelAt(b, clk)
BY DEF SameLimit, Level, LevelAt, Accrues

\* At the moment of a refresh an account stands for what it holds.
LEMMA LevelWhenFresh ==
  ASSUME NEW r, NEW clk, r.ts = clk.ts
  PROVE  LevelAt(r, clk) = Level(r)
BY DEF LevelAt, Accrues

\* What an inflow and an outflow make of a level.
Filled(level, cap, in) ==
  Least(level + SecondsPerDay * in, SecondsPerDay * cap + (level % SecondsPerDay))

Drained(level, out) ==
  IF SecondsPerDay * out <= level THEN level - SecondsPerDay * out
                                  ELSE level % SecondsPerDay

\* What a new cap makes of it.
Resized(level, cap, new) ==
  LET l == level + SecondsPerDay * new - SecondsPerDay * cap
  IN  IF l >= 0 THEN l ELSE 0

\* The level of an account is a number of units, of which the remainder is
\* the fraction, and it exceeds the cap by less than a token.
LEMMA LevelFacts ==
  ASSUME NEW b, IsLimit(b)
  PROVE  /\ Level(b) \in Nat
         /\ Level(b) % SecondsPerDay = b.rem
         /\ Level(b) <= SecondsPerDay * b.max + b.rem
<1>1. b.avail \in Nat /\ b.max \in Nat /\ b.rem \in 0 .. (SecondsPerDay - 1)
      /\ b.avail <= b.max
  BY DEF IsLimit, U64
<1>2. SecondsPerDay * b.avail \in Nat /\ SecondsPerDay * b.max \in Nat
      /\ SecondsPerDay * b.avail <= SecondsPerDay * b.max
  BY <1>1, DayMult
<1>3. Level(b) % SecondsPerDay = b.rem
  BY <1>1, DaySplit DEF Level
<1>. QED  BY <1>1, <1>2, <1>3 DEF Level

\* Zero tokens neither fill nor drain a bucket.
LEMMA NothingMoves ==
  ASSUME NEW l \in Nat, NEW cap \in Nat,
         l <= SecondsPerDay * cap + (l % SecondsPerDay)
  PROVE  Filled(l, cap, 0) = l /\ Drained(l, 0) = l
<1>1. SecondsPerDay * 0 = 0 /\ SecondsPerDay * cap \in Nat
  BY DayTimes
<1>2. l % SecondsPerDay \in Nat
  <2>1. l % SecondsPerDay \in 0 .. (SecondsPerDay - 1)
    BY DivMod
  <2>. QED  BY <2>1
<1>3. Filled(l, cap, 0) = l
  <2>1. \A c \in Nat, f \in Nat : l <= c + f => Least(l + 0, c + f) = l
    BY DEF Least
  <2>. QED  BY <1>1, <1>2, <2>1 DEF Filled
<1>4. Drained(l, 0) = l
  BY <1>1 DEF Drained
<1>. QED  BY <1>3, <1>4

LEMMA FilledNat ==
  ASSUME NEW l \in Nat, NEW cap \in Nat, NEW in \in Nat
  PROVE  Filled(l, cap, in) \in Nat
<1>1. SecondsPerDay * in \in Nat /\ SecondsPerDay * cap \in Nat
  BY DayTimes
<1>2. l % SecondsPerDay \in Nat
  <2>1. l % SecondsPerDay \in 0 .. (SecondsPerDay - 1)
    BY DivMod
  <2>. QED  BY <2>1
<1>. QED  BY <1>1, <1>2 DEF Filled, Least

-----------------------------------------------------------------------------
\* What a refresh makes of the numbers of an account.
RefreshedTo(avail, max, rem, earned, av, re) ==
  /\ av = Least(SatAdd(avail,
            Least((earned + rem) \div SecondsPerDay, U64Max)), max)
  /\ re = IF av = max THEN 0 ELSE (earned + rem) % SecondsPerDay

\* The arithmetic of a refresh is exact: in units, the account gets what was
\* earned, up to its cap.
LEMMA RefreshExact ==
  ASSUME NEW avail \in U64, NEW max \in U64, avail <= max,
         NEW rem \in 0 .. (SecondsPerDay - 1), NEW earned \in Nat,
         NEW av, NEW re, RefreshedTo(avail, max, rem, earned, av, re)
  PROVE  /\ av \in U64 /\ av <= max
         /\ re \in 0 .. (SecondsPerDay - 1)
         /\ SecondsPerDay * av + re =
              Least(SecondsPerDay * avail + rem + earned, SecondsPerDay * max)
<1> DEFINE n == earned + rem
           q == n \div SecondsPerDay
           m == n % SecondsPerDay
<1>1. n \in Nat /\ avail \in Nat /\ max \in Nat /\ max <= U64Max /\ rem \in Nat
  BY DEF U64
<1>2. q \in Nat /\ m \in 0 .. (SecondsPerDay - 1) /\ n = SecondsPerDay * q + m
  BY <1>1, DivMod
<1>3. av = Least(SatAdd(avail, Least(q, U64Max)), max)
      /\ re = IF av = max THEN 0 ELSE m
  BY DEF RefreshedTo
<1> HIDE DEF q, m
<1>4. av = Least(avail + q, max)
  BY <1>1, <1>2, <1>3 DEF Least, SatAdd
<1>5. SecondsPerDay * (avail + q) = SecondsPerDay * avail + SecondsPerDay * q
  BY <1>1, <1>2, DayMult
<1>6. /\ SecondsPerDay * avail \in Nat /\ SecondsPerDay * q \in Nat
      /\ SecondsPerDay * max \in Nat /\ SecondsPerDay * (avail + q) \in Nat
  BY <1>1, <1>2, DayTimes
<1>7. SecondsPerDay * avail + rem + earned = SecondsPerDay * (avail + q) + m
  BY <1>1, <1>2, <1>5, <1>6
<1>8. CASE avail + q >= max
  <2>1. av = max /\ re = 0
    BY <1>1, <1>2, <1>3, <1>4, <1>8 DEF Least
  <2>2. SecondsPerDay * max <= SecondsPerDay * (avail + q)
    BY <1>1, <1>2, <1>8, DayMult
  <2>3. SecondsPerDay * max <= SecondsPerDay * avail + rem + earned
    BY <1>2, <1>6, <1>7, <2>2
  <2>4. Least(SecondsPerDay * avail + rem + earned, SecondsPerDay * max)
          = SecondsPerDay * max
    BY <1>1, <1>6, <2>3 DEF Least
  <2>5. SecondsPerDay * av + re = SecondsPerDay * max
    BY <1>6, <2>1
  <2>6. av \in U64 /\ av <= max /\ re \in 0 .. (SecondsPerDay - 1)
    BY <1>1, <2>1
  <2>. QED  BY <2>4, <2>5, <2>6
<1>9. CASE avail + q < max
  <2>1. av = avail + q /\ re = m
    BY <1>1, <1>2, <1>3, <1>4, <1>9 DEF Least
  <2>2. SecondsPerDay * (avail + q) + SecondsPerDay <= SecondsPerDay * max
    BY <1>1, <1>2, <1>9, DayStrict
  <2>3. SecondsPerDay * avail + rem + earned <= SecondsPerDay * max
    BY <1>1, <1>2, <1>6, <1>7, <2>2
  <2>4. Least(SecondsPerDay * avail + rem + earned, SecondsPerDay * max)
          = SecondsPerDay * avail + rem + earned
    BY <2>3 DEF Least
  <2>5. SecondsPerDay * av + re = SecondsPerDay * avail + rem + earned
    BY <1>7, <2>1
  <2>6. av \in U64 /\ av <= max /\ re \in 0 .. (SecondsPerDay - 1)
    BY <1>1, <1>2, <1>9, <2>1 DEF U64
  <2>. QED  BY <2>4, <2>5, <2>6
<1>. QED  BY <1>1, <1>2, <1>8, <1>9

\* It hands out at most what was earned.
LEMMA RefreshNumbers ==
  ASSUME NEW avail \in U64, NEW max \in U64, avail <= max,
         NEW rem \in 0 .. (SecondsPerDay - 1), NEW earned \in Nat
  PROVE  LET n  == earned + rem
             av == Least(SatAdd(avail, Least(n \div SecondsPerDay, U64Max)), max)
             re == IF av = max THEN 0 ELSE n % SecondsPerDay
         IN  /\ av \in U64 /\ av <= max
             /\ re \in 0 .. (SecondsPerDay - 1)
             /\ SecondsPerDay * av + re <= SecondsPerDay * avail + rem + earned
<1> DEFINE n  == earned + rem
           av == Least(SatAdd(avail, Least(n \div SecondsPerDay, U64Max)), max)
           re == IF av = max THEN 0 ELSE n % SecondsPerDay
<1>1. /\ av \in U64 /\ av <= max
      /\ re \in 0 .. (SecondsPerDay - 1)
      /\ SecondsPerDay * av + re =
           Least(SecondsPerDay * avail + rem + earned, SecondsPerDay * max)
  <2>1. RefreshedTo(avail, max, rem, earned, av, re)
    BY DEF RefreshedTo
  <2> HIDE DEF av, re
  <2>. QED  BY <2>1, RefreshExact
<1> HIDE DEF av, re
<1>2. SecondsPerDay * avail \in Nat /\ SecondsPerDay * max \in Nat
  BY DayTimes DEF U64
<1>. QED  BY <1>1, <1>2 DEF Least, av, re, n

-----------------------------------------------------------------------------
\* A refresh keeps a limit a limit, and realises exactly what the account
\* stands for.
LEMMA LevelOfRefresh ==
  ASSUME NEW b, IsLimit(b), NEW clk \in Clocks, b.ts <= clk.ts
  PROVE  LET q == RefreshRateLimit(b, clk)
         IN  /\ IsLimit(q)
             /\ q.slope = b.slope /\ q.max = b.max /\ q.ts = clk.ts
             /\ Level(q) = LevelAt(b, clk)
<1> DEFINE q  == RefreshRateLimit(b, clk)
           e  == b.slope * (clk.ts - b.ts)
           av == Least(SatAdd(b.avail, Increment(b, clk.ts)), b.max)
           re == IF av = b.max THEN 0 ELSE Remainder(b, clk.ts)
           p  == [b EXCEPT !.avail = av, !.rem = re]
<1>1. /\ b.avail \in U64 /\ b.max \in U64 /\ b.avail <= b.max
      /\ b.rem \in 0 .. (SecondsPerDay - 1) /\ b.slope \in U64
      /\ clk.ts - b.ts \in Nat /\ e \in Nat /\ clk.ts \in Nat
  <2>1. b.slope \in Nat /\ clk.ts \in Nat /\ clk.ts - b.ts \in Nat
    BY DEF IsLimit, U64, Clocks
  <2>. QED  BY <2>1 DEF IsLimit
<1>2. LimitFields \subseteq DOMAIN b
  BY DEF IsLimit
<1>3. CASE Accrues(b, clk)
  <2>1. Accrued(b, clk.ts) = e + b.rem
    BY DEF Accrued
  <2>2. /\ av = Least(SatAdd(b.avail,
                   Least((e + b.rem) \div SecondsPerDay, U64Max)), b.max)
        /\ re = IF av = b.max THEN 0 ELSE (e + b.rem) % SecondsPerDay
    BY <2>1 DEF Increment, Remainder
  <2>3. q = [p EXCEPT !.ts = clk.ts, !.slot = clk.slot]
    BY <1>3 DEF RefreshRateLimit
  <2>4. LevelAt(b, clk) =
          Least(SecondsPerDay * b.avail + b.rem + e, SecondsPerDay * b.max)
    BY <1>3 DEF LevelAt, Level
  <2> HIDE DEF e, av, re, q
  <2>5. /\ av \in U64 /\ av <= b.max
        /\ re \in 0 .. (SecondsPerDay - 1)
        /\ SecondsPerDay * av + re =
             Least(SecondsPerDay * b.avail + b.rem + e, SecondsPerDay * b.max)
    <3>1. /\ b.avail \in U64 /\ b.max \in U64 /\ b.avail <= b.max
          /\ b.rem \in 0 .. (SecondsPerDay - 1) /\ e \in Nat
      BY <1>1
    <3>2. RefreshedTo(b.avail, b.max, b.rem, e, av, re)
      BY <2>2 DEF RefreshedTo
    <3>. QED  BY <3>1, <3>2, RefreshExact
  <2>6. /\ LimitFields \subseteq DOMAIN p /\ p.avail = av /\ p.rem = re
        /\ p.max = b.max /\ p.slope = b.slope
    BY <1>2 DEF LimitFields
  <2> HIDE DEF p
  <2>7. /\ LimitFields \subseteq DOMAIN q /\ q.avail = av /\ q.rem = re
        /\ q.max = b.max /\ q.slope = b.slope /\ q.ts = clk.ts
    BY <2>3, <2>6 DEF LimitFields
  <2>8. Level(q) = LevelAt(b, clk)
    BY <2>4, <2>5, <2>7 DEF Level
  <2>9. IsLimit(q)
    BY <1>1, <2>5, <2>7 DEF IsLimit
  <2>. QED  BY <2>7, <2>8, <2>9 DEF q
<1>4. CASE ~Accrues(b, clk)
  <2>1. q = [b EXCEPT !.ts = clk.ts, !.slot = clk.slot]
    BY <1>4 DEF RefreshRateLimit
  <2> HIDE DEF q
  <2>2. /\ LimitFields \subseteq DOMAIN q /\ q.avail = b.avail /\ q.rem = b.rem
        /\ q.max = b.max /\ q.slope = b.slope /\ q.ts = clk.ts
    BY <1>2, <2>1 DEF LimitFields
  <2>3. Level(q) = LevelAt(b, clk)
    BY <1>4, <2>2 DEF LevelAt, Level
  <2>4. IsLimit(q)
    BY <1>1, <2>2 DEF IsLimit
  <2>. QED  BY <2>2, <2>3, <2>4 DEF q
<1>. QED  BY <1>3, <1>4

\* An inflow fills the bucket to its cap.
LEMMA LevelOfCredit ==
  ASSUME NEW b, IsLimit(b), NEW in \in Nat
  PROVE  LET q == CreditRateLimit(b, in)
         IN  /\ IsLimit(q)
             /\ q.slope = b.slope /\ q.max = b.max /\ q.ts = b.ts
             /\ Level(q) = Filled(Level(b), b.max, in)
<1> DEFINE q  == CreditRateLimit(b, in)
           av == Least(b.max, SatAdd(b.avail, in))
<1>1. /\ b.avail \in Nat /\ b.max \in Nat /\ b.max <= U64Max /\ b.avail <= b.max
      /\ b.rem \in Nat /\ LimitFields \subseteq DOMAIN b
  BY DEF IsLimit, U64
<1>2. q = [b EXCEPT !.avail = av]
  BY <1>1 DEF CreditRateLimit, LimitFields
<1>3. av = Least(b.max, b.avail + in) /\ av \in U64 /\ av <= b.max
  BY <1>1 DEF Least, SatAdd, U64
<1> HIDE DEF q, av
<1>4. /\ LimitFields \subseteq DOMAIN q /\ q.avail = av /\ q.rem = b.rem
      /\ q.max = b.max /\ q.slope = b.slope /\ q.ts = b.ts
  BY <1>1, <1>2 DEF LimitFields
<1>5. IsLimit(q)
  BY <1>3, <1>4 DEF IsLimit
<1>6. Level(b) % SecondsPerDay = b.rem
  BY LevelFacts
<1>7. SecondsPerDay * (b.avail + in) = SecondsPerDay * b.avail + SecondsPerDay * in
  BY <1>1, DayMult
<1>8. /\ SecondsPerDay * b.avail \in Nat /\ SecondsPerDay * in \in Nat
      /\ SecondsPerDay * b.max \in Nat /\ SecondsPerDay * (b.avail + in) \in Nat
  BY <1>1, DayTimes
<1>9. Filled(Level(b), b.max, in) =
         Least(Level(b) + SecondsPerDay * in, SecondsPerDay * b.max + b.rem)
  BY <1>6 DEF Filled
<1>10. CASE b.max <= b.avail + in
  <2>1. SecondsPerDay * b.max <= SecondsPerDay * (b.avail + in)
    BY <1>1, <1>10, DayMult
  <2>2. av = b.max
    BY <1>1, <1>3, <1>10 DEF Least
  <2>3. Level(q) = SecondsPerDay * b.max + b.rem
    BY <1>4, <2>2 DEF Level
  <2>4. Filled(Level(b), b.max, in) = SecondsPerDay * b.max + b.rem
    BY <1>1, <1>7, <1>8, <1>9, <2>1 DEF Least, Level
  <2>. QED  BY <1>4, <1>5, <2>3, <2>4 DEF q
<1>11. CASE b.avail + in < b.max
  <2>1. SecondsPerDay * (b.avail + in) <= SecondsPerDay * b.max
    BY <1>1, <1>11, DayMult
  <2>2. av = b.avail + in
    BY <1>1, <1>3, <1>11 DEF Least
  <2>3. Level(q) = SecondsPerDay * b.avail + SecondsPerDay * in + b.rem
    BY <1>4, <1>7, <2>2 DEF Level
  <2>4. Filled(Level(b), b.max, in) = Level(b) + SecondsPerDay * in
    BY <1>1, <1>7, <1>8, <1>9, <2>1 DEF Least, Level
  <2>5. Level(q) = Filled(Level(b), b.max, in)
    BY <1>1, <1>8, <2>3, <2>4 DEF Level
  <2>. QED  BY <1>4, <1>5, <2>5 DEF q
<1>. QED  BY <1>1, <1>10, <1>11

\* An outflow drains it; one that is within the limit is covered by it.
LEMMA LevelOfDebit ==
  ASSUME NEW b, IsLimit(b), NEW out \in Nat
  PROVE  LET q == DebitRateLimit(b, out)
         IN  /\ IsLimit(q)
             /\ q.slope = b.slope /\ q.max = b.max /\ q.ts = b.ts
             /\ Level(q) = Drained(Level(b), out)
             /\ WithinRateLimit(b, out) <=> SecondsPerDay * out <= Level(b)
<1> DEFINE q  == DebitRateLimit(b, out)
           av == SatSub(b.avail, out)
<1>1. /\ b.avail \in Nat /\ b.max \in Nat /\ b.max <= U64Max /\ b.avail <= b.max
      /\ b.rem \in 0 .. (SecondsPerDay - 1) /\ LimitFields \subseteq DOMAIN b
  BY DEF IsLimit, U64
<1>2. q = [b EXCEPT !.avail = av]
  BY <1>1 DEF DebitRateLimit, LimitFields
<1>3. av \in U64 /\ av <= b.max
  BY <1>1 DEF SatSub, U64
<1> HIDE DEF q, av
<1>4. /\ LimitFields \subseteq DOMAIN q /\ q.avail = av /\ q.rem = b.rem
      /\ q.max = b.max /\ q.slope = b.slope /\ q.ts = b.ts
  BY <1>1, <1>2 DEF LimitFields
<1>5. IsLimit(q)
  BY <1>1, <1>3, <1>4 DEF IsLimit
<1>6. Level(b) % SecondsPerDay = b.rem
  BY LevelFacts
<1>7. SecondsPerDay * b.avail \in Nat /\ SecondsPerDay * out \in Nat
  BY <1>1, DayTimes
<1>8. CASE out <= b.avail
  <2>1. SecondsPerDay * out <= SecondsPerDay * b.avail
    BY <1>1, <1>8, DayMult
  <2>2. SecondsPerDay * (b.avail - out) = SecondsPerDay * b.avail - SecondsPerDay * out
    BY <1>1, DayMult
  <2>3. SecondsPerDay * out <= Level(b)
    BY <1>1, <1>7, <2>1 DEF Level
  <2>4. av = b.avail - out
    BY <1>8 DEF av, SatSub
  <2>5. Level(q) = Level(b) - SecondsPerDay * out
    BY <1>1, <1>4, <1>7, <2>2, <2>4 DEF Level
  <2>. QED  BY <1>4, <1>5, <1>8, <2>3, <2>5 DEF q, Drained, WithinRateLimit
<1>9. CASE b.avail < out
  <2>1. SecondsPerDay * b.avail + SecondsPerDay <= SecondsPerDay * out
    BY <1>1, <1>9, DayStrict
  <2>2. ~(SecondsPerDay * out <= Level(b))
    BY <1>1, <1>7, <2>1 DEF Level
  <2>3. av = 0 /\ SecondsPerDay * 0 = 0
    BY <1>1, <1>9 DEF av, SatSub
  <2>4. Level(q) = b.rem
    BY <1>1, <1>4, <2>3 DEF Level
  <2>5. ~WithinRateLimit(b, out)
    BY <1>1, <1>9 DEF WithinRateLimit
  <2>. QED  BY <1>4, <1>5, <1>6, <2>2, <2>4, <2>5 DEF q, Drained
<1>. QED  BY <1>1, <1>8, <1>9

\* A new cap moves the level by the change of the cap.
LEMMA LevelOfSetMax ==
  ASSUME NEW b, IsLimit(b), NEW m \in U64
  PROVE  LET q == SetMaxOutflow(b, m)
         IN  /\ IsLimit(q)
             /\ q.slope = b.slope /\ q.max = m /\ q.ts = b.ts
             /\ Level(q) = Resized(Level(b), b.max, m)
<1> DEFINE q   == SetMaxOutflow(b, m)
           gap == b.max - b.avail
           av  == SatSub(m, gap)
           re  == IF gap > m THEN 0 ELSE b.rem
<1>1. /\ b.avail \in Nat /\ b.max \in Nat /\ m \in Nat /\ gap \in Nat /\ m <= U64Max
      /\ b.rem \in 0 .. (SecondsPerDay - 1) /\ LimitFields \subseteq DOMAIN b
  BY DEF IsLimit, U64
<1>2. q = [b EXCEPT !.max = m, !.avail = av, !.rem = re]
  BY <1>1 DEF SetMaxOutflow, LimitFields
<1>3. av \in U64 /\ av <= m /\ re \in 0 .. (SecondsPerDay - 1)
  BY <1>1 DEF SatSub, U64
<1> HIDE DEF q, av, re
<1>4. /\ LimitFields \subseteq DOMAIN q /\ q.avail = av /\ q.rem = re
      /\ q.max = m /\ q.slope = b.slope /\ q.ts = b.ts
  BY <1>1, <1>2 DEF LimitFields
<1>5. IsLimit(q)
  BY <1>1, <1>3, <1>4 DEF IsLimit
<1>6. SecondsPerDay * b.max = SecondsPerDay * gap + SecondsPerDay * b.avail
  <2>1. SecondsPerDay * (gap + b.avail) = SecondsPerDay * gap + SecondsPerDay * b.avail
    BY <1>1, DayMult
  <2>2. gap + b.avail = b.max
    BY <1>1
  <2>. QED  BY <2>1, <2>2
<1>7. /\ SecondsPerDay * b.max \in Nat /\ SecondsPerDay * gap \in Nat
      /\ SecondsPerDay * b.avail \in Nat /\ SecondsPerDay * m \in Nat
  BY <1>1, DayTimes
<1>8. Level(b) + SecondsPerDay * m - SecondsPerDay * b.max
        = SecondsPerDay * m - SecondsPerDay * gap + b.rem
  BY <1>1, <1>6, <1>7 DEF Level
<1> HIDE DEF gap
<1>9. CASE gap <= m
  <2>1. SecondsPerDay * (m - gap) = SecondsPerDay * m - SecondsPerDay * gap
    BY <1>1, DayMult
  <2>2. SecondsPerDay * gap <= SecondsPerDay * m
    BY <1>1, <1>9, DayMult
  <2>3. av = m - gap /\ re = b.rem
    BY <1>1, <1>9 DEF SatSub, av, re
  <2>4. Level(q) = SecondsPerDay * m - SecondsPerDay * gap + b.rem
    BY <1>4, <2>1, <2>3 DEF Level
  <2>5. Level(q) = Resized(Level(b), b.max, m)
    BY <1>1, <1>7, <1>8, <2>2, <2>4 DEF Resized
  <2>. QED  BY <1>4, <1>5, <2>5 DEF q
<1>10. CASE m < gap
  <2>1. SecondsPerDay * m + SecondsPerDay <= SecondsPerDay * gap
    BY <1>1, <1>10, DayStrict
  <2>2. av = 0 /\ re = 0 /\ SecondsPerDay * 0 = 0
    BY <1>1, <1>10 DEF SatSub, av, re
  <2>3. Level(q) = 0
    BY <1>4, <2>2 DEF Level
  <2>4. Level(q) = Resized(Level(b), b.max, m)
    BY <1>1, <1>7, <1>8, <2>1, <2>3 DEF Resized
  <2>. QED  BY <1>4, <1>5, <2>4 DEF q
<1>. QED  BY <1>1, <1>9, <1>10

\* Time fills it to its cap, also over several seconds that no refresh parts.
LEMMA LevelOfTime ==
  ASSUME NEW b, IsLimit(b), NEW clk \in Clocks, b.ts <= clk.ts,
         NEW seconds \in Nat, NEW later, later.ts = clk.ts + seconds
  PROVE  LevelAt(b, later) =
           IF b.max = U64Max \/ seconds = 0 THEN LevelAt(b, clk)
           ELSE Least(LevelAt(b, clk) + b.slope * seconds, SecondsPerDay * b.max)
<1> DEFINE d == clk.ts - b.ts
           L == Level(b)
           c == SecondsPerDay * b.max
<1>1. /\ b.max \in Nat /\ b.slope \in Nat /\ b.ts \in Nat /\ clk.ts \in Nat
  BY DEF IsLimit, U64, Clocks
<1>2. d \in Nat /\ L \in Nat /\ c \in Nat
  BY <1>1, LevelFacts, DayTimes
<1>3. /\ b.slope * d \in Nat /\ b.slope * seconds \in Nat
      /\ b.slope * (d + seconds) = b.slope * d + b.slope * seconds
  BY <1>1, <1>2
<1>4. later.ts - b.ts = d + seconds
  BY <1>1
<1>5. LevelAt(b, later) =
        IF b.max = U64Max \/ d + seconds = 0 THEN L
        ELSE Least(L + b.slope * (d + seconds), c)
  <2>1. b.ts # later.ts <=> d + seconds # 0
    BY <1>1, <1>2
  <2>2. LevelAt(b, later) =
          IF b.max # U64Max /\ b.ts # later.ts
          THEN Least(L + b.slope * (d + seconds), c) ELSE L
    BY <1>4 DEF LevelAt, Accrues
  <2>. QED  BY <2>1, <2>2
<1>6. LevelAt(b, clk) =
        IF b.max = U64Max \/ d = 0 THEN L ELSE Least(L + b.slope * d, c)
  <2>1. b.ts # clk.ts <=> d # 0
    BY <1>1
  <2>2. LevelAt(b, clk) =
          IF b.max # U64Max /\ b.ts # clk.ts THEN Least(L + b.slope * d, c) ELSE L
    BY DEF LevelAt, Accrues
  <2>. QED  BY <2>1, <2>2
<1> HIDE DEF d, L, c
<1>7. LevelAt(b, later) =
        IF b.max = U64Max \/ seconds = 0 THEN LevelAt(b, clk)
        ELSE Least(LevelAt(b, clk) + b.slope * seconds, c)
  <2>1. CASE b.max = U64Max
    BY <1>5, <1>6, <2>1
  <2>2. CASE b.max # U64Max /\ seconds = 0
    BY <1>2, <1>5, <1>6, <2>2
  <2>3. CASE b.max # U64Max /\ seconds # 0 /\ d = 0
    BY <1>1, <1>5, <1>6, <2>3
  <2>4. CASE b.max # U64Max /\ seconds # 0 /\ d # 0
    <3>1. /\ LevelAt(b, later) = Least(L + b.slope * d + b.slope * seconds, c)
          /\ LevelAt(b, clk) = Least(L + b.slope * d, c)
      BY <1>1, <1>2, <1>3, <1>5, <1>6, <2>4
    <3>. QED  BY <1>2, <1>3, <2>4, <3>1 DEF Least
  <2>. QED  BY <2>1, <2>2, <2>3, <2>4
<1>. QED  BY <1>7 DEF c

\* The sync of a reserve is a refill or a drain, by what the vault holds more
\* or less than was recorded.
LEMMA LevelOfSync ==
  ASSUME NEW r \in Reserves, NEW clk \in Clocks, r.ts <= clk.ts,
         r.avail <= r.max, NEW v \in U64
  PROVE  Level(SyncBalance(r, v, clk)) =
           Drained(Filled(LevelAt(r, clk), r.max, SatSub(v, r.lastBalance)),
                   SatSub(r.lastBalance, v))
<1> DEFINE f == RefreshRateLimit(r, clk)
           s == SyncBalance(r, v, clk)
           l == LevelAt(r, clk)
<1>1. f \in Reserves /\ f.avail <= f.max /\ f.max = r.max
  BY RefreshKeeps
<1>2. Level(f) = l /\ IsLimit(f)
  BY ReserveIsLimit, LevelOfRefresh
<1>3. /\ l \in Nat /\ r.max \in Nat
      /\ l <= SecondsPerDay * r.max + (l % SecondsPerDay)
  <2>1. l % SecondsPerDay = f.rem /\ l \in Nat /\ l <= SecondsPerDay * f.max + f.rem
    BY <1>2, LevelFacts
  <2>. QED  BY <1>1, <2>1 DEF Reserves, U64
<1>4. v \in Nat /\ r.lastBalance \in Nat /\ v <= U64Max /\ r.lastBalance <= U64Max
      /\ 0 \in U64
  BY DEF U64, Reserves
<1>5. f.lastBalance \in Nat
  BY <1>1 DEF Reserves, U64
<1> HIDE DEF f, l
<1>6. CASE v > r.lastBalance
  <2> DEFINE x == v - r.lastBalance
             q == CreditRateLimit(f, x)
  <2>1. x \in U64 /\ x \in Nat
    BY <1>4, <1>6 DEF U64
  <2>2. s = [q EXCEPT !.lastBalance = @ + x]
    BY <1>6 DEF SyncBalance, f, UpdateForInflow
  <2> HIDE DEF x, s
  <2>3. Level(q) = Filled(l, r.max, x) /\ IsLimit(q)
    BY <1>1, <1>2, <2>1, LevelOfCredit
  <2> HIDE DEF q
  <2>4. SameLimit(q, s)
    BY <2>2, <2>3 DEF SameLimit, IsLimit, LimitFields
  <2>5. Level(s) = Filled(l, r.max, x)
    BY <2>3, <2>4, SameLevel
  <2>6. Drained(Filled(l, r.max, x), 0) = Filled(l, r.max, x)
    <3>1. Filled(l, r.max, x) \in Nat
      BY <1>3, <2>1, FilledNat
    <3>2. SecondsPerDay * 0 = 0
      OBVIOUS
    <3>. QED  BY <3>1, <3>2 DEF Drained
  <2>7. SatSub(v, r.lastBalance) = x /\ SatSub(r.lastBalance, v) = 0
    BY <1>4, <1>6 DEF SatSub, x
  <2>. QED  BY <2>5, <2>6, <2>7 DEF l, s
<1>7. CASE ~(v > r.lastBalance)
  <2> DEFINE x == r.lastBalance - v
             q == DebitRateLimit(f, x)
  <2>1. x \in U64 /\ x \in Nat
    BY <1>4, <1>7 DEF U64
  <2>2. s = [q EXCEPT !.lastBalance = @ - x]
    BY <1>7 DEF SyncBalance, f, UpdateForOutflow
  <2> HIDE DEF x, s
  <2>3. Level(q) = Drained(l, x) /\ IsLimit(q)
    BY <1>1, <1>2, <2>1, LevelOfDebit
  <2> HIDE DEF q
  <2>4. SameLimit(q, s)
    BY <2>2, <2>3 DEF SameLimit, IsLimit, LimitFields
  <2>5. Level(s) = Drained(l, x)
    BY <2>3, <2>4, SameLevel
  <2>6. Filled(l, r.max, 0) = l
    BY <1>3, NothingMoves
  <2>7. SatSub(r.lastBalance, v) = x /\ SatSub(v, r.lastBalance) = 0
    BY <1>4, <1>7 DEF SatSub, x
  <2>. QED  BY <2>5, <2>6, <2>7 DEF l, s
<1>. QED  BY <1>6, <1>7

-----------------------------------------------------------------------------
\* What one instruction makes of a level, as in Move of TokenBucket.
MovedTo(level, cap, in, lost, out, back, new) ==
  LET l == Drained(Filled(level, cap, in), lost)
  IN  /\ SecondsPerDay * out <= l
      /\ new = Filled(l - SecondsPerDay * out, cap, back)

\* After what was found by a sync (or after nothing), a limit pays an outflow
\* that is within it, or receives an inflow.
LEMMA PaymentMoves ==
  ASSUME NEW level, NEW cap, NEW in, NEW lost, NEW b, IsLimit(b), b.max = cap,
         Level(b) = Drained(Filled(level, cap, in), lost),
         NEW out \in Nat, WithinRateLimit(b, out)
  PROVE  MovedTo(level, cap, in, lost, out, 0, Level(DebitRateLimit(b, out)))
<1> DEFINE q == DebitRateLimit(b, out)
<1>1. /\ IsLimit(q) /\ q.max = cap /\ Level(q) = Drained(Level(b), out)
      /\ SecondsPerDay * out <= Level(b)
  BY LevelOfDebit
<1> HIDE DEF q
<1>2. Level(q) = Level(b) - SecondsPerDay * out
  BY <1>1 DEF Drained
<1>3. /\ Level(q) \in Nat /\ cap \in Nat
      /\ Level(q) <= SecondsPerDay * cap + (Level(q) % SecondsPerDay)
  <2>1. /\ Level(q) \in Nat /\ Level(q) % SecondsPerDay = q.rem
        /\ Level(q) <= SecondsPerDay * q.max + q.rem
    BY <1>1, LevelFacts
  <2>. QED  BY <1>1, <2>1 DEF IsLimit, U64
<1>4. Filled(Level(q), cap, 0) = Level(q)
  BY <1>3, NothingMoves
<1>. QED  BY <1>1, <1>2, <1>4 DEF MovedTo, q

LEMMA ReceiptMoves ==
  ASSUME NEW level, NEW cap, NEW in, NEW lost, NEW b, IsLimit(b), b.max = cap,
         Level(b) = Drained(Filled(level, cap, in), lost),
         NEW back \in Nat
  PROVE  MovedTo(level, cap, in, lost, 0, back, Level(CreditRateLimit(b, back)))
<1>1. Level(CreditRateLimit(b, back)) = Filled(Level(b), cap, back)
  BY LevelOfCredit
<1>2. Level(b) \in Nat
  BY LevelFacts
<1>3. SecondsPerDay * 0 = 0
  OBVIOUS
<1>4. SecondsPerDay * 0 <= Level(b) /\ Level(b) - SecondsPerDay * 0 = Level(b)
  BY <1>2, <1>3
<1>. QED  BY <1>1, <1>4 DEF MovedTo

LEMMA NothingPaid ==
  ASSUME NEW level, NEW cap, NEW in, NEW lost, NEW b, IsLimit(b), b.max = cap,
         Level(b) = Drained(Filled(level, cap, in), lost)
  PROVE  MovedTo(level, cap, in, lost, 0, 0, Level(b))
<1>1. /\ Level(b) \in Nat /\ cap \in Nat
      /\ Level(b) <= SecondsPerDay * cap + (Level(b) % SecondsPerDay)
  <2>1. /\ Level(b) \in Nat /\ Level(b) % SecondsPerDay = b.rem
        /\ Level(b) <= SecondsPerDay * b.max + b.rem
    BY LevelFacts
  <2>. QED  BY <2>1 DEF IsLimit, U64
<1>2. Filled(Level(b), cap, 0) = Level(b)
  BY <1>1, NothingMoves
<1>3. SecondsPerDay * 0 = 0
  OBVIOUS
<1>4. SecondsPerDay * 0 <= Level(b) /\ Level(b) - SecondsPerDay * 0 = Level(b)
  BY <1>1, <1>3
<1>. QED  BY <1>2, <1>4 DEF MovedTo

\* A refreshed limit has moved by nothing yet.
LEMMA RefreshedLevel ==
  ASSUME NEW b, IsLimit(b), NEW clk \in Clocks, b.ts <= clk.ts
  PROVE  LET q == RefreshRateLimit(b, clk)
         IN  /\ IsLimit(q) /\ q.max = b.max /\ q.slope = b.slope /\ q.ts = clk.ts
             /\ Level(q) = LevelAt(b, clk)
             /\ Level(q) = Drained(Filled(LevelAt(b, clk), b.max, 0), 0)
<1> DEFINE q == RefreshRateLimit(b, clk)
<1>1. /\ IsLimit(q) /\ q.max = b.max /\ q.slope = b.slope /\ q.ts = clk.ts
      /\ Level(q) = LevelAt(b, clk)
  BY LevelOfRefresh
<1> HIDE DEF q
<1>2. /\ Level(q) \in Nat /\ q.max \in Nat
      /\ Level(q) <= SecondsPerDay * q.max + (Level(q) % SecondsPerDay)
  <2>1. /\ Level(q) \in Nat /\ Level(q) % SecondsPerDay = q.rem
        /\ Level(q) <= SecondsPerDay * q.max + q.rem
    BY <1>1, LevelFacts
  <2>. QED  BY <1>1, <2>1 DEF IsLimit, U64
<1>3. Filled(Level(q), q.max, 0) = Level(q) /\ Drained(Level(q), 0) = Level(q)
  BY <1>2, NothingMoves
<1>. QED  BY <1>1, <1>3 DEF q

\* What an account stands for exceeds its cap by less than a token.
LEMMA LevelAtFacts ==
  ASSUME NEW b, IsLimit(b), NEW clk \in Clocks, b.ts <= clk.ts
  PROVE  /\ LevelAt(b, clk) \in Nat /\ b.max \in Nat
         /\ LevelAt(b, clk) <= SecondsPerDay * b.max + (LevelAt(b, clk) % SecondsPerDay)
<1> DEFINE q == RefreshRateLimit(b, clk)
<1>1. IsLimit(q) /\ q.max = b.max /\ Level(q) = LevelAt(b, clk)
  BY LevelOfRefresh
<1> HIDE DEF q
<1>2. /\ Level(q) \in Nat /\ Level(q) % SecondsPerDay = q.rem
      /\ Level(q) <= SecondsPerDay * q.max + q.rem
  BY <1>1, LevelFacts
<1>. QED  BY <1>1, <1>2 DEF IsLimit, U64

LEMMA RestsWhenNothingMoves ==
  ASSUME NEW l \in Nat, NEW cap \in Nat,
         l <= SecondsPerDay * cap + (l % SecondsPerDay),
         NEW new, MovedTo(l, cap, 0, 0, 0, 0, new)
  PROVE  new = l
<1>1. Filled(l, cap, 0) = l /\ Drained(l, 0) = l
  BY NothingMoves
<1>2. SecondsPerDay * 0 = 0 /\ l - 0 = l
  OBVIOUS
<1>. QED  BY <1>1, <1>2 DEF MovedTo

\* The flows of a reserve are those of its limit.
LEMMA ReserveFlows ==
  ASSUME NEW r \in Reserves, r.avail <= r.max, NEW n \in Nat
  PROVE  /\ Level(UpdateForInflow(r, n)) = Level(CreditRateLimit(r, n))
         /\ Level(UpdateForOutflow(r, n)) = Level(DebitRateLimit(r, n))
<1>1. SameLimit(CreditRateLimit(r, n), UpdateForInflow(r, n))
  BY DEF SameLimit, UpdateForInflow, CreditRateLimit, Reserves
<1>2. SameLimit(DebitRateLimit(r, n), UpdateForOutflow(r, n))
  BY DEF SameLimit, UpdateForOutflow, DebitRateLimit, Reserves
<1>. QED  BY <1>1, <1>2, SameLevel

\* Filling adds at most what came in, and draining and a lower cap add nothing.
LEMMA FilledAtMost ==
  ASSUME NEW level \in Int, NEW cap \in Int, NEW in \in Int
  PROVE  /\ Filled(level, cap, in) \in Int
         /\ Filled(level, cap, in) <= level + SecondsPerDay * in
<1>1. SecondsPerDay * in \in Int /\ SecondsPerDay * cap \in Int
  BY DayMult
<1>2. level % SecondsPerDay \in Int
  OBVIOUS
<1>. QED  BY <1>1, <1>2 DEF Filled, Least

LEMMA DrainedAtMost ==
  ASSUME NEW level \in Int, level >= 0, NEW out \in Nat
  PROVE  Drained(level, out) \in Int /\ Drained(level, out) <= level
<1>1. SecondsPerDay * out \in Nat
  BY DayTimes
<1>2. level % SecondsPerDay \in Int /\ level % SecondsPerDay <= level
  <2>1. level % SecondsPerDay \in 0 .. (SecondsPerDay - 1)
    OBVIOUS
  <2>2. CASE level < SecondsPerDay
    <3>1. level = SecondsPerDay * 0 + level
      BY <2>2
    <3>2. level % SecondsPerDay = level
      BY <2>2, <3>1, DaySplit
    <3>. QED  BY <3>2
  <2>. QED  BY <2>1, <2>2
<1>. QED  BY <1>1, <1>2 DEF Drained

LEMMA MovedAtMost ==
  ASSUME NEW level \in Nat, NEW cap \in Nat, NEW in \in Nat, NEW lost \in Nat,
         NEW out \in Int, NEW back \in Int, NEW next,
         MovedTo(level, cap, in, lost, out, back, next)
  PROVE  /\ next \in Int
         /\ next + SecondsPerDay * out
              <= level + SecondsPerDay * in + SecondsPerDay * back
<1> DEFINE full == Filled(level, cap, in)
           left == Drained(full, lost)
           rest == left - SecondsPerDay * out
<1>1. /\ SecondsPerDay * in \in Nat /\ SecondsPerDay * cap \in Nat
      /\ SecondsPerDay * out \in Int /\ SecondsPerDay * back \in Int
  BY DayTimes, DayMult
<1>2. full \in Nat /\ full <= level + SecondsPerDay * in
  <2>1. full \in Int /\ full <= level + SecondsPerDay * in
    BY FilledAtMost
  <2>2. full >= 0
    BY <1>1, <2>1 DEF Filled, Least
  <2>. QED  BY <2>1, <2>2
<1> HIDE DEF full
<1>3. left \in Int /\ left <= full
  BY <1>2, DrainedAtMost
<1> HIDE DEF left
<1>4. next = Filled(rest, cap, back)
  BY DEF MovedTo, full, left
<1>5. rest \in Int
  BY <1>1, <1>3
<1> HIDE DEF rest
<1>6. next \in Int /\ next <= rest + SecondsPerDay * back
  BY <1>4, <1>5, FilledAtMost
<1>. QED  BY <1>1, <1>2, <1>3, <1>5, <1>6 DEF rest

LEMMA PaidAtMost ==
  ASSUME NEW level \in Nat, NEW cap \in Nat, NEW in \in Nat, NEW lost \in Nat,
         NEW out \in Int, NEW next, MovedTo(level, cap, in, lost, out, 0, next)
  PROVE  next + SecondsPerDay * out <= level + SecondsPerDay * in
<1>1. /\ next \in Int
      /\ next + SecondsPerDay * out
           <= level + SecondsPerDay * in + SecondsPerDay * 0
  BY MovedAtMost
<1>2. SecondsPerDay * 0 = 0 /\ SecondsPerDay * in \in Int
  BY DayMult
<1>. QED  BY <1>1, <1>2
=============================================================================
