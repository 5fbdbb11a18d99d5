---------------------------- MODULE LendingProofs ----------------------------
(***************************************************************************)
(* Proofs of the properties of LendingProps, for one or both protocols,    *)
(* any amounts, any interest and any length of the day.                    *)
(***************************************************************************)
EXTENDS LendingProps, ReserveStateProofs

USE RateLimitAssumption, LendingAssumption

\* What an integration may still take, with what it has taken, is within its
\* cap and what it has earned.
Bounded(i, out) ==
  SecondsPerDay * (i.avail + out) + i.rem
    <= SecondsPerDay * i.max + i.slope * i.ts

\* An integration that fits the position, the events and the tokens of its
\* kind.  What klend has not yet added to its index it has earned since it was
\* refreshed.
Fits(kind, i, m, booked, out, count, clk) ==
  /\ i.avail <= i.max /\ i.ts <= clk.ts
  /\ m.index + m.earned <= LastIndex[kind]
  /\ Bounded(i, out)
  /\ kind = "Kamino" =>
       /\ booked = i.balance
       /\ m.slot <= clk.slot
       /\ m.slot = clk.slot => m.earned = 0
  /\ kind = "Drift" => booked - i.balance \in 0 .. (DriftRounding * count)

ReserveFits ==
  /\ reserve.avail <= reserve.max /\ reserve.ts <= clock.ts
  /\ reserve.status # "Uninitialized"
  /\ ledger["Reserve"] = reserve.lastBalance

\* The inductive invariant.
LendingInv ==
  /\ LendingTypeOK
  /\ clock \in Clocks /\ moves \in [Kinds -> Nat] /\ Kinds \in DOMAIN Bounds
  /\ ReserveFits
  /\ \A kind \in Kinds :
       Fits(kind, integrations[kind], markets[kind], ledger[kind], net[kind],
            moves[kind], clock)

LEMMA KindsFacts ==
  ASSUME Kinds \in DOMAIN Bounds
  PROVE  /\ Kinds \subseteq {"Kamino", "Drift"}
         /\ "Reserve" \notin Kinds
         /\ Books = Kinds \cup {"Reserve"}
         /\ Amounts \subseteq Nat \ {0}
         /\ \A kind \in Kinds : /\ Unit[kind] \in Nat \ {0}
                                /\ FirstIndex[kind] \in Nat \ {0}
                                /\ LastIndex[kind] \in Nat
                                /\ FirstIndex[kind] <= LastIndex[kind]
BY DEF Books, Amounts

-----------------------------------------------------------------------------
\* Products and quotients.
LEMMA TimesNat ==
  ASSUME NEW a \in Nat, NEW b \in Nat
  PROVE  a * b \in Nat
OBVIOUS

LEMMA TimesMono ==
  ASSUME NEW a \in Nat, NEW b \in Nat, NEW c \in Nat, NEW d \in Nat,
         a <= c, b <= d
  PROVE  a * b <= c * d
<1>1. a * b <= a * d
  <2>1. d = b + (d - b) /\ d - b \in Nat
    OBVIOUS
  <2>2. a * d = a * b + a * (d - b)
    BY <2>1
  <2>. QED  BY <2>1, <2>2, TimesNat
<1>2. a * d <= c * d
  <2>1. c = a + (c - a) /\ c - a \in Nat
    OBVIOUS
  <2>2. c * d = a * d + (c - a) * d
    BY <2>1
  <2>3. (c - a) * d \in Nat
    BY <2>1, TimesNat
  <2>. QED  BY <2>1, <2>2, <2>3, TimesNat
<1>. QED  BY <1>1, <1>2, TimesNat

\* A quotient is at least every number whose multiple fits the dividend.
LEMMA DivAtLeast ==
  ASSUME NEW n \in Nat, NEW d \in Nat \ {0}, NEW k \in Int, d * k <= n
  PROVE  k <= n \div d
<1>1. /\ n \div d \in Nat
      /\ n % d \in 0 .. (d - 1)
      /\ n = d * (n \div d) + (n % d)
  BY DivMod
<1>2. SUFFICES ASSUME n \div d + 1 <= k PROVE FALSE
  BY <1>1
<1>3. d * (n \div d + 1) <= d * k
  <2> DEFINE e == k - (n \div d + 1)
  <2>1. e \in Nat /\ k = (n \div d + 1) + e
    BY <1>1, <1>2
  <2> HIDE DEF e
  <2>2. d * k = d * (n \div d + 1) + d * e
    BY <1>1, <2>1
  <2>3. d * e \in Nat
    BY <2>1, TimesNat
  <2>. QED  BY <1>1, <2>2, <2>3
<1>4. d * (n \div d + 1) = d * (n \div d) + d
  BY <1>1
<1>. QED  BY <1>1, <1>3, <1>4

LEMMA DivMono ==
  ASSUME NEW a \in Nat, NEW b \in Nat, NEW d \in Nat \ {0}, a <= b
  PROVE  a \div d <= b \div d
<1>1. a \div d \in Nat /\ d * (a \div d) <= a
  BY DivMod
<1>2. d * (a \div d) \in Nat
  BY <1>1, TimesNat
<1>3. d * (a \div d) <= b
  BY <1>1, <1>2
<1>. QED  BY <1>1, <1>3, DivAtLeast

\* A position is worth a natural number of tokens, and more with more shares
\* or at a higher index.
LEMMA WorthNat ==
  ASSUME NEW m, m.shares \in Nat, m.index \in Nat, NEW kind,
         Unit[kind] \in Nat \ {0}
  PROVE  Worth(kind, m) \in Nat
BY TimesNat, DivMod DEF Worth

LEMMA WorthMono ==
  ASSUME NEW m, m.shares \in Nat, m.index \in Nat,
         NEW p, p.shares \in Nat, p.index \in Nat,
         m.shares <= p.shares, m.index <= p.index,
         NEW kind, Unit[kind] \in Nat \ {0}
  PROVE  Worth(kind, m) <= Worth(kind, p)
<1>1. m.shares * m.index <= p.shares * p.index
      /\ m.shares * m.index \in Nat /\ p.shares * p.index \in Nat
  BY TimesMono, TimesNat
<1>. QED  BY <1>1, DivMono DEF Worth

-----------------------------------------------------------------------------
\* The rate limit of an integration.
LEMMA BoundedNumbers ==
  ASSUME NEW a \in Nat, NEW b \in Nat, NEW out \in Int, NEW new \in Int,
         b + new <= a + out
  PROVE  SecondsPerDay * (b + new) <= SecondsPerDay * (a + out)
BY DayMult

\* A refresh keeps the account well formed and bounded.
LEMMA RefreshBounded ==
  ASSUME NEW i \in Integrations, NEW out \in Int, clock \in Clocks,
         i.avail <= i.max, i.ts <= clock.ts, Bounded(i, out)
  PROVE  LET q == RefreshRateLimit(i, clock)
         IN  /\ q \in Integrations
             /\ q.avail <= q.max /\ q.ts = clock.ts
             /\ q.status = i.status /\ q.balance = i.balance
             /\ Bounded(q, out)
<1> DEFINE e  == i.slope * (clock.ts - i.ts)
           av == Least(SatAdd(i.avail, Increment(i, clock.ts)), i.max)
           re == IF av = i.max THEN 0 ELSE Remainder(i, clock.ts)
           q  == RefreshRateLimit(i, clock)
<1>1. /\ i.avail \in U64 /\ i.max \in U64 /\ i.rem \in 0 .. (SecondsPerDay - 1)
      /\ i.avail \in Nat /\ i.max \in Nat /\ i.rem \in Nat
      /\ i.slope \in Nat /\ i.ts \in Nat /\ clock.ts - i.ts \in Nat
      /\ clock.ts \in Nat
  BY DEF Integrations, U64, Clocks
<1>2. /\ e \in Nat /\ i.slope * i.ts \in Nat
      /\ i.slope * clock.ts = i.slope * i.ts + e
  <2>1. i.slope * (i.ts + (clock.ts - i.ts)) = i.slope * i.ts + e
    BY <1>1
  <2>. QED  BY <1>1, <2>1, TimesNat
<1>3. Accrued(i, clock.ts) = e + i.rem
  BY DEF Accrued
<1>4. /\ av = Least(SatAdd(i.avail,
                 Least((e + i.rem) \div SecondsPerDay, U64Max)), i.max)
      /\ re = IF av = i.max THEN 0 ELSE (e + i.rem) % SecondsPerDay
  BY <1>3 DEF Increment, Remainder
<1> HIDE DEF e, av, re
<1>5. /\ av \in U64 /\ av <= i.max
      /\ re \in 0 .. (SecondsPerDay - 1)
      /\ SecondsPerDay * av + re <= SecondsPerDay * i.avail + i.rem + e
  BY <1>1, <1>2, <1>4, RefreshNumbers, ZenonT(60)
<1>6. /\ SecondsPerDay * i.avail \in Nat /\ SecondsPerDay * av \in Nat
      /\ SecondsPerDay * i.max \in Nat /\ SecondsPerDay * out \in Int
      /\ SecondsPerDay * (i.avail + out)
           = SecondsPerDay * i.avail + SecondsPerDay * out
      /\ SecondsPerDay * (av + out) = SecondsPerDay * av + SecondsPerDay * out
  BY <1>1, <1>5, DayMult DEF U64
<1>7. CASE Accrues(i, clock)
  <2>1. q = [i EXCEPT !.avail = av, !.rem = re, !.ts = clock.ts,
                      !.slot = clock.slot]
    BY <1>7 DEF RefreshRateLimit, av, re, Integrations
  <2>2. /\ q.avail = av /\ q.rem = re /\ q.ts = clock.ts /\ q.max = i.max
        /\ q.slope = i.slope
    BY <2>1 DEF Integrations
  <2>3. SecondsPerDay * i.avail + SecondsPerDay * out + i.rem
          <= SecondsPerDay * i.max + i.slope * i.ts
    BY <1>6 DEF Bounded
  <2>4. SecondsPerDay * av + SecondsPerDay * out + re
          <= SecondsPerDay * i.max + i.slope * clock.ts
    BY <1>1, <1>2, <1>5, <1>6, <2>3
  <2>5. Bounded(q, out)
    BY <1>6, <2>2, <2>4 DEF Bounded
  <2> HIDE DEF q
  <2>. QED  BY <1>1, <1>5, <2>1, <2>5 DEF q, Integrations, Clocks
<1>8. CASE ~Accrues(i, clock)
  <2>1. q = [i EXCEPT !.ts = clock.ts, !.slot = clock.slot]
    BY <1>8 DEF RefreshRateLimit
  <2>2. /\ q.avail = i.avail /\ q.rem = i.rem /\ q.ts = clock.ts
        /\ q.max = i.max /\ q.slope = i.slope
    BY <2>1 DEF Integrations
  <2>3. SecondsPerDay * (i.avail + out) + i.rem
          <= SecondsPerDay * i.max + i.slope * clock.ts
    <3>1. SecondsPerDay * (i.avail + out) \in Int
      BY <1>6
    <3>. QED  BY <1>1, <1>2, <1>6, <3>1 DEF Bounded
  <2>4. Bounded(q, out)
    BY <2>2, <2>3 DEF Bounded
  <2> HIDE DEF q
  <2>. QED  BY <1>1, <2>1, <2>4 DEF q, Integrations, Clocks
<1>. QED  BY <1>7, <1>8

\* So does a flow that fits the limit, out or in, and a new recorded balance.
LEMMA DebitBounded ==
  ASSUME NEW i \in Integrations, NEW out \in Int, i.avail <= i.max,
         Bounded(i, out), NEW taken \in Nat, WithinRateLimit(i, taken),
         NEW worth \in U64
  PROVE  LET q == [DebitRateLimit(i, taken) EXCEPT !.balance = worth]
         IN  /\ q \in Integrations
             /\ q.avail <= q.max /\ q.ts = i.ts /\ q.balance = worth
             /\ Bounded(q, out + taken)
<1> DEFINE q == [DebitRateLimit(i, taken) EXCEPT !.balance = worth]
<1>1. i.avail \in Nat /\ i.max \in Nat /\ i.max <= U64Max /\ taken <= i.avail
  BY DEF Integrations, U64, WithinRateLimit
<1>2. q = [i EXCEPT !.avail = i.avail - taken, !.balance = worth]
  BY <1>1 DEF DebitRateLimit, SatSub, Integrations
<1>3. /\ q.avail = i.avail - taken /\ q.rem = i.rem /\ q.ts = i.ts
      /\ q.max = i.max /\ q.slope = i.slope /\ q.balance = worth
  BY <1>2 DEF Integrations
<1>4. q.avail + (out + taken) = i.avail + out
  BY <1>1, <1>3
<1>5. Bounded(q, out + taken)
  BY <1>3, <1>4 DEF Bounded
<1>6. q.avail \in U64
  BY <1>1, <1>3 DEF U64
<1>7. q \in Integrations
  BY <1>2, <1>3, <1>6 DEF Integrations
<1> HIDE DEF q
<1>. QED  BY <1>1, <1>3, <1>5, <1>7 DEF q

LEMMA CreditBounded ==
  ASSUME NEW i \in Integrations, NEW out \in Int, i.avail <= i.max,
         Bounded(i, out), NEW paid \in Nat, NEW worth \in U64
  PROVE  LET q == [CreditRateLimit(i, paid) EXCEPT !.balance = worth]
         IN  /\ q \in Integrations
             /\ q.avail <= q.max /\ q.ts = i.ts /\ q.balance = worth
             /\ Bounded(q, out - paid)
<1> DEFINE q == [CreditRateLimit(i, paid) EXCEPT !.balance = worth]
           av == Least(i.max, SatAdd(i.avail, paid))
<1>1. /\ i.avail \in Nat /\ i.max \in Nat /\ i.max <= U64Max /\ i.rem \in Nat
      /\ i.slope * i.ts \in Nat
  BY TimesNat DEF Integrations, U64
<1>2. av \in U64 /\ av \in Nat /\ av <= i.max /\ av <= i.avail + paid
  BY <1>1 DEF Least, SatAdd, U64
<1>3. q = [i EXCEPT !.avail = av, !.balance = worth]
  BY DEF CreditRateLimit, Integrations
<1> HIDE DEF av
<1>4. /\ q.avail = av /\ q.rem = i.rem /\ q.ts = i.ts
      /\ q.max = i.max /\ q.slope = i.slope /\ q.balance = worth
  BY <1>3 DEF Integrations
<1>5. av + (out - paid) <= i.avail + out
  BY <1>1, <1>2
<1>6. SecondsPerDay * (av + (out - paid)) <= SecondsPerDay * (i.avail + out)
  BY <1>1, <1>2, <1>5, BoundedNumbers
<1>7. /\ SecondsPerDay * (av + (out - paid)) \in Int
      /\ SecondsPerDay * (i.avail + out) \in Int
      /\ SecondsPerDay * i.max \in Int
  BY <1>1, <1>2, DayMult
<1>8. Bounded(q, out - paid)
  BY <1>1, <1>4, <1>6, <1>7 DEF Bounded
<1>9. q \in Integrations
  BY <1>2, <1>3 DEF Integrations
<1> HIDE DEF q
<1>. QED  BY <1>1, <1>2, <1>4, <1>8, <1>9 DEF q

-----------------------------------------------------------------------------
\* The pieces of a step.

LEMMA InvInit == Init => LendingInv
<1> SUFFICES ASSUME Init PROVE LendingInv
  OBVIOUS
<1> DEFINE r == InitReserve("Active", 0, U64Max, clock)
<1>1. clock = [ts |-> 0, slot |-> 0] /\ clock \in Clocks
  BY DEF Init, Clocks
<1>2. PICK kinds \in DOMAIN Bounds, slope \in Slopes, max \in MaxOuts :
        integrations = [kind \in kinds |-> InitIntegration(slope, max)]
  BY DEF Init
<1>3. Kinds = kinds
  BY <1>2 DEF Kinds
<1>4. /\ slope \in U64 /\ max \in U64 /\ slope \in Nat /\ max \in Nat
  <2>1. Slopes \subseteq U64 /\ MaxOuts \subseteq U64
    OBVIOUS
  <2>2. slope \in U64 /\ max \in U64
    BY <2>1
  <2>. QED  BY <2>2 DEF U64
<1>5. InitIntegration(slope, max) \in Integrations
  BY <1>1, <1>4 DEF InitIntegration, Integrations, IntegrationStatus, U64
<1>6. Kinds \in DOMAIN Bounds
  BY <1>3
<1>7. integrations \in [Kinds -> Integrations]
  BY <1>2, <1>3, <1>5
<1>8. /\ markets \in [Kinds -> Markets] /\ ledger \in [Books -> Int]
      /\ net \in [Kinds -> Int] /\ moves \in [Kinds -> Nat]
      /\ vault \in 0 .. Supply /\ vault \in U64
  BY <1>1, <1>6, KindsFacts DEF Init, Markets, Books, U64
<1>9. reserve = [r EXCEPT !.lastBalance = vault]
  BY DEF Init
<1>10. reserve \in Reserves /\ ReserveFits
  BY <1>1, <1>8, <1>9 DEF InitReserve, Reserves, ReserveStatus, U64, Init, Books,
     ReserveFits
<1>11. ASSUME NEW kind \in Kinds
       PROVE  Fits(kind, integrations[kind], markets[kind], ledger[kind],
                   net[kind], moves[kind], clock)
  <2> DEFINE i == integrations[kind]
  <2>1. i = InitIntegration(slope, max)
    BY <1>2, <1>3
  <2>2. /\ i.avail = max /\ i.max = max /\ i.rem = 0 /\ i.ts = 0
        /\ i.balance = 0 /\ i.slope = slope
    BY <1>1, <2>1 DEF InitIntegration
  <2>3. /\ ledger[kind] = 0 /\ net[kind] = 0 /\ moves[kind] = 0
        /\ markets[kind].index = FirstIndex[kind] /\ markets[kind].earned = 0
        /\ markets[kind].slot = 0
    BY <1>1, <1>6, KindsFacts DEF Init, Books
  <2>4. Bounded(i, 0)
    <3>1. slope * 0 = 0 /\ max + 0 = max /\ SecondsPerDay * max \in Nat
      BY <1>4, TimesNat
    <3>. QED  BY <2>2, <3>1 DEF Bounded
  <2>5. FirstIndex[kind] + 0 <= LastIndex[kind]
    BY <1>6, KindsFacts
  <2>6. kind = "Drift" => DriftRounding * 0 = 0 /\ 0 \in 0 .. (DriftRounding * 0)
    <3> SUFFICES ASSUME kind = "Drift" PROVE DriftRounding * 0 = 0
      OBVIOUS
    <3>1. DriftRounding \in Int
      <4>1. LastIndex["Drift"] - 1 + Unit["Drift"] - 1 \in Nat
            /\ Unit["Drift"] \in Nat \ {0}
        BY <1>6, KindsFacts
      <4>. QED  BY <4>1, DivMod DEF DriftRounding, CeilDiv
    <3>. QED  BY <3>1
  <2> HIDE DEF i
  <2>. QED  BY <1>1, <1>4, <2>2, <2>3, <2>4, <2>5, <2>6 DEF Fits, i
<1>. QED  BY <1>1, <1>6, <1>7, <1>8, <1>10, <1>11 DEF LendingInv, LendingTypeOK

\* A step of one kind, and of the reserve, leaves the other kind alone.
LEMMA KindStep ==
  ASSUME LendingInv, NEW k \in Kinds,
         NEW i \in Integrations, NEW m \in Markets, NEW booked \in Int,
         NEW out \in Int, NEW count \in Nat,
         integrations' = [integrations EXCEPT ![k] = i],
         markets' = [markets EXCEPT ![k] = m],
         net' = [net EXCEPT ![k] = out], moves' = [moves EXCEPT ![k] = count],
         ledger' \in [Books -> Int], ledger'[k] = booked,
         \A j \in Kinds \ {k} : ledger'[j] = ledger[j],
         clock' = clock, reserve' \in Reserves, vault' \in 0 .. Supply,
         ReserveFits', Fits(k, i, m, booked, out, count, clock)
  PROVE  LendingInv'
<1>1. /\ integrations \in [Kinds -> Integrations]
      /\ markets \in [Kinds -> Markets]
      /\ net \in [Kinds -> Int] /\ moves \in [Kinds -> Nat]
  BY DEF LendingInv, LendingTypeOK
<1>2. /\ integrations' \in [Kinds -> Integrations]
      /\ markets' \in [Kinds -> Markets]
      /\ net' \in [Kinds -> Int] /\ moves' \in [Kinds -> Nat]
  BY <1>1
<1>3. Kinds' = Kinds /\ Books' = Books
  BY <1>2 DEF Kinds, Books
<1>4. ASSUME NEW j \in Kinds
      PROVE  Fits(j, integrations'[j], markets'[j], ledger'[j], net'[j],
                  moves'[j], clock')
  <2>1. CASE j = k
    <3>1. /\ integrations'[j] = i /\ markets'[j] = m /\ ledger'[j] = booked
          /\ net'[j] = out /\ moves'[j] = count
      BY <1>1, <2>1
    <3>. QED  BY <2>1, <3>1
  <2>2. CASE j # k
    <3>1. /\ integrations'[j] = integrations[j] /\ markets'[j] = markets[j]
          /\ ledger'[j] = ledger[j] /\ net'[j] = net[j] /\ moves'[j] = moves[j]
      BY <1>1, <2>2
    <3>2. Fits(j, integrations[j], markets[j], ledger[j], net[j], moves[j], clock)
      BY DEF LendingInv
    <3>. QED  BY <3>1, <3>2
  <2>. QED  BY <2>1, <2>2
<1>5. clock' \in Clocks /\ Kinds' \in DOMAIN Bounds
  BY <1>3 DEF LendingInv
<1>6. \A j \in Kinds' : Fits(j, integrations[j], markets[j], ledger[j], net[j],
                             moves[j], clock)'
  BY <1>3, <1>4
<1>. QED  BY <1>2, <1>3, <1>5, <1>6 DEF LendingInv, LendingTypeOK

\* The events of a handler that finds a position worth worth, and books
\* delta to the integration and flow to the reserve.
Events(k, worth, delta, flow) ==
  [Synced(k, worth) EXCEPT ![k] = @ + delta, !["Reserve"] = @ + flow]

LEMMA LedgerStep ==
  ASSUME LendingInv, NEW k \in Kinds, NEW worth \in Int, NEW delta \in Int,
         NEW flow \in Int
  PROVE  LET after == Events(k, worth, delta, flow)
         IN  /\ after \in [Books -> Int]
             /\ after[k] = ledger[k] + worth - integrations[k].balance + delta
             /\ after["Reserve"] = vault + flow
             /\ \A j \in Kinds \ {k} : after[j] = ledger[j]
<1> DEFINE after == Events(k, worth, delta, flow)
           event == SyncEvent(reserve, vault)
           change == worth - integrations[k].balance
<1>1. /\ ledger \in [Books -> Int] /\ k \in Books /\ "Reserve" \in Books
      /\ k # "Reserve" /\ \A j \in Kinds : j \in Books /\ j # "Reserve"
  BY KindsFacts DEF LendingInv, LendingTypeOK
<1>2. /\ event \in Int /\ change \in Int
      /\ ledger["Reserve"] + event = vault
  BY DEF LendingInv, LendingTypeOK, ReserveFits, SyncEvent, Reserves,
     Integrations, U64
<1>3. ledger[k] + worth - integrations[k].balance = ledger[k] + change
  BY <1>1 DEF LendingInv, LendingTypeOK, Integrations, U64
<1>4. Synced(k, worth) = [ledger EXCEPT !["Reserve"] = @ + event, ![k] = @ + change]
  <2>1. Synced(k, worth) =
          [ledger EXCEPT !["Reserve"] = ledger["Reserve"] + event,
                         ![k] = ledger[k] + worth - integrations[k].balance]
    BY <1>1 DEF Synced
  <2>. QED  BY <1>1, <1>3, <2>1
<1> HIDE DEF event, change
<1>5. after = [ledger EXCEPT !["Reserve"] = ledger["Reserve"] + event + flow,
                               ![k] = ledger[k] + change + delta]
  BY <1>1, <1>4 DEF Events
<1>. QED  BY <1>1, <1>2, <1>3, <1>5

\* The reserve of a handler that pays, and of one that receives.
LEMMA ReserveStep ==
  ASSUME LendingInv, NEW amount \in Nat
  PROVE  /\ amount <= vault =>
              LET q == UpdateForOutflow(SyncedReserve, amount)
              IN  /\ q \in Reserves /\ q.avail <= q.max /\ q.ts = clock.ts
                  /\ q.status # "Uninitialized"
                  /\ q.lastBalance = vault - amount
         /\ vault + amount <= Supply =>
              LET q == UpdateForInflow(SyncedReserve, amount)
              IN  /\ q \in Reserves /\ q.avail <= q.max /\ q.ts = clock.ts
                  /\ q.status # "Uninitialized"
                  /\ q.lastBalance = vault + amount
<1>1. /\ reserve \in Reserves /\ clock \in Clocks /\ reserve.ts <= clock.ts
      /\ reserve.avail <= reserve.max /\ reserve.status # "Uninitialized"
      /\ vault \in U64 /\ vault \in Nat
  BY DEF LendingInv, LendingTypeOK, ReserveFits, U64
<1>2. LET q == SyncedReserve
      IN  /\ q \in Reserves /\ q.avail <= q.max /\ q.lastBalance = vault
          /\ q.ts = clock.ts /\ q.status # "Uninitialized"
  BY <1>1, SyncKeeps DEF SyncedReserve
<1>3. CASE amount <= vault
  BY <1>1, <1>2, <1>3, OutflowKeeps, InflowKeeps
<1>4. CASE vault + amount <= Supply
  BY <1>1, <1>2, <1>4, InflowKeeps, OutflowKeeps
<1>. QED  BY <1>3, <1>4

\* A market that may follow the one of its kind.
Follows(k, m) ==
  /\ m \in Markets
  /\ m.index + m.earned <= LastIndex[k]
  /\ k = "Kamino" =>
       /\ m.slot <= clock.slot
       /\ m.slot = clock.slot => m.earned = 0

\* What the events of a move miss: nothing of Kamino's, the rounding of
\* Drift's.
Rounded(k, error) ==
  /\ error \in Int
  /\ k = "Kamino" => error = 0
  /\ k = "Drift" => error \in 0 .. DriftRounding

LEMMA RoundedOnce ==
  ASSUME LendingInv, NEW k \in Kinds, NEW error, Rounded(k, error),
         NEW booked \in Int, booked = ledger[k] - integrations[k].balance + error
  PROVE  /\ k = "Kamino" => booked = 0
         /\ k = "Drift" => booked \in 0 .. (DriftRounding * (moves[k] + 1))
<1>1. /\ Fits(k, integrations[k], markets[k], ledger[k], net[k], moves[k], clock)
      /\ moves[k] \in Nat /\ ledger[k] \in Int /\ integrations[k].balance \in Int
  BY KindsFacts DEF LendingInv, LendingTypeOK, Integrations, U64
<1>2. CASE k = "Kamino"
  BY <1>1, <1>2 DEF Fits, Rounded
<1>3. CASE k = "Drift"
  <2>1. ledger[k] - integrations[k].balance \in 0 .. (DriftRounding * moves[k])
    BY <1>1, <1>3 DEF Fits
  <2>2. error \in 0 .. DriftRounding /\ DriftRounding \in Int
    <3>1. LastIndex["Drift"] - 1 + Unit["Drift"] - 1 \in Nat
          /\ Unit["Drift"] \in Nat \ {0}
      BY <1>3, KindsFacts DEF LendingInv
    <3>. QED  BY <1>3, <3>1, DivMod DEF Rounded, DriftRounding, CeilDiv
  <2>3. DriftRounding * (moves[k] + 1) = DriftRounding * moves[k] + DriftRounding
        /\ DriftRounding * moves[k] \in Int
    BY <1>1, <2>2
  <2> DEFINE d == DriftRounding * moves[k]
             e == ledger[k] - integrations[k].balance
  <2>4. e \in 0 .. d /\ d \in Int /\ e \in Int /\ booked = e + error
    BY <1>1, <2>1, <2>3
  <2> HIDE DEF d, e
  <2>5. booked \in 0 .. (d + DriftRounding)
    BY <2>2, <2>4
  <2>. QED  BY <1>3, <2>3, <2>5 DEF d
<1>. QED  BY <1>2, <1>3, KindsFacts DEF LendingInv

LEMMA PushStep ==
  ASSUME LendingInv, NEW k \in Kinds, Handler(k),
         NEW taken \in Nat, taken <= vault, NEW worth,
         SavePush(k, taken, worth),
         NEW m, Follows(k, m), markets' = [markets EXCEPT ![k] = m],
         NEW found \in Int, NEW delta \in Int,
         ledger' = Events(k, found, delta, 0 - taken),
         Rounded(k, found + delta - worth)
  PROVE  /\ LendingInv'
         /\ integrations'[k].balance = worth
         /\ \A j \in Kinds \ {k} : integrations'[j] = integrations[j]
         /\ reserve'.lastBalance = vault'
<1> DEFINE i == RefreshedIntegration(k)
           q == [DebitRateLimit(i, taken) EXCEPT !.balance = worth]
           booked == ledger[k] + found - integrations[k].balance + delta
<1>1. /\ integrations \in [Kinds -> Integrations] /\ net[k] \in Int
      /\ moves[k] \in Nat /\ ledger[k] \in Int /\ vault \in Nat
      /\ integrations[k].balance \in Int
      /\ net \in [Kinds -> Int] /\ moves \in [Kinds -> Nat]
  BY KindsFacts DEF LendingInv, LendingTypeOK, Integrations, U64
<1>2. /\ worth \in U64 /\ WithinRateLimit(i, taken)
      /\ integrations' = [integrations EXCEPT ![k] = q]
      /\ reserve' = UpdateForOutflow(SyncedReserve, taken)
      /\ vault' = vault - taken
      /\ net' = [net EXCEPT ![k] = net[k] + taken]
      /\ moves' = [moves EXCEPT ![k] = moves[k] + 1]
      /\ clock' = clock
  BY <1>1 DEF SavePush, Handler
<1>3. Fits(k, integrations[k], markets[k], ledger[k], net[k], moves[k], clock)
  BY DEF LendingInv
<1>4. /\ i \in Integrations /\ i.avail <= i.max /\ i.ts = clock.ts
      /\ Bounded(i, net[k])
  BY <1>1, <1>3, RefreshBounded DEF RefreshedIntegration, Fits, LendingInv
<1> HIDE DEF i
<1>5. /\ q \in Integrations /\ q.avail <= q.max /\ q.ts = clock.ts
      /\ q.balance = worth /\ Bounded(q, net[k] + taken)
  BY <1>1, <1>2, <1>4, DebitBounded
<1> HIDE DEF q
<1>6. /\ reserve' \in Reserves /\ reserve'.avail <= reserve'.max
      /\ reserve'.ts = clock.ts /\ reserve'.status # "Uninitialized"
      /\ reserve'.lastBalance = vault'
  BY <1>2, ReserveStep
<1>7. /\ ledger' \in [Books -> Int] /\ ledger'[k] = booked
      /\ ledger'["Reserve"] = vault'
      /\ \A j \in Kinds \ {k} : ledger'[j] = ledger[j]
  <2> DEFINE flow == 0 - taken
  <2>1. /\ flow \in Int /\ vault + flow = vault'
        /\ ledger' = Events(k, found, delta, flow)
    BY <1>1, <1>2
  <2> HIDE DEF flow
  <2>2. /\ ledger' \in [Books -> Int]
        /\ ledger'[k] = ledger[k] + found - integrations[k].balance + delta
        /\ ledger'["Reserve"] = vault + flow
        /\ \A j \in Kinds \ {k} : ledger'[j] = ledger[j]
    BY <2>1, LedgerStep
  <2>. QED  BY <2>1, <2>2
<1>8. booked \in Int /\ worth \in Int
      /\ booked - worth = ledger[k] - integrations[k].balance + (found + delta - worth)
  BY <1>1, <1>2 DEF U64
<1> HIDE DEF booked
<1>9. /\ k = "Kamino" => booked = worth
      /\ k = "Drift" => booked - worth \in 0 .. (DriftRounding * (moves[k] + 1))
  BY <1>8, RoundedOnce
<1>10. Fits(k, q, m, booked, net[k] + taken, moves[k] + 1, clock)
  BY <1>1, <1>5, <1>9 DEF Fits, Follows, LendingInv, Clocks
<1>11. vault' \in 0 .. Supply /\ ReserveFits'
  BY <1>1, <1>2, <1>6, <1>7 DEF ReserveFits, LendingInv, LendingTypeOK, Clocks
<1>12. LendingInv'
  <2>1. m \in Markets /\ net[k] + taken \in Int /\ moves[k] + 1 \in Nat
    BY <1>1 DEF Follows
  <2>. QED  BY <1>2, <1>5, <1>6, <1>7, <1>8, <1>10, <1>11, <2>1, KindStep
<1>. QED  BY <1>1, <1>2, <1>5, <1>6, <1>12

LEMMA PullStep ==
  ASSUME LendingInv, NEW k \in Kinds, Handler(k),
         NEW paid \in Nat, NEW worth, SavePull(k, paid, worth),
         NEW m, Follows(k, m), markets' = [markets EXCEPT ![k] = m],
         NEW found \in Int, NEW delta \in Int,
         ledger' = Events(k, found, 0 - delta, paid),
         Rounded(k, found - delta - worth)
  PROVE  /\ LendingInv'
         /\ integrations'[k].balance = worth
         /\ \A j \in Kinds \ {k} : integrations'[j] = integrations[j]
         /\ reserve'.lastBalance = vault'
<1> DEFINE i == RefreshedIntegration(k)
           q == [CreditRateLimit(i, paid) EXCEPT !.balance = worth]
           booked == ledger[k] + found - integrations[k].balance + (0 - delta)
<1>1. /\ integrations \in [Kinds -> Integrations] /\ net[k] \in Int
      /\ moves[k] \in Nat /\ ledger[k] \in Int /\ vault \in Nat
      /\ integrations[k].balance \in Int
      /\ net \in [Kinds -> Int] /\ moves \in [Kinds -> Nat]
  BY KindsFacts DEF LendingInv, LendingTypeOK, Integrations, U64
<1>2. /\ worth \in U64 /\ vault + paid <= Supply
      /\ integrations' = [integrations EXCEPT ![k] = q]
      /\ reserve' = UpdateForInflow(SyncedReserve, paid)
      /\ vault' = vault + paid
      /\ net' = [net EXCEPT ![k] = net[k] - paid]
      /\ moves' = [moves EXCEPT ![k] = moves[k] + 1]
      /\ clock' = clock
  BY <1>1 DEF SavePull, Handler
<1>3. Fits(k, integrations[k], markets[k], ledger[k], net[k], moves[k], clock)
  BY DEF LendingInv
<1>4. /\ i \in Integrations /\ i.avail <= i.max /\ i.ts = clock.ts
      /\ Bounded(i, net[k])
  BY <1>1, <1>3, RefreshBounded DEF RefreshedIntegration, Fits, LendingInv
<1> HIDE DEF i
<1>5. /\ q \in Integrations /\ q.avail <= q.max /\ q.ts = clock.ts
      /\ q.balance = worth /\ Bounded(q, net[k] - paid)
  BY <1>1, <1>2, <1>4, CreditBounded
<1> HIDE DEF q
<1>6. /\ reserve' \in Reserves /\ reserve'.avail <= reserve'.max
      /\ reserve'.ts = clock.ts /\ reserve'.status # "Uninitialized"
      /\ reserve'.lastBalance = vault'
  BY <1>2, ReserveStep
<1>7. /\ ledger' \in [Books -> Int] /\ ledger'[k] = booked
      /\ ledger'["Reserve"] = vault'
      /\ \A j \in Kinds \ {k} : ledger'[j] = ledger[j]
  <2> DEFINE less == 0 - delta
  <2>1. /\ less \in Int /\ paid \in Int /\ vault + paid = vault'
        /\ ledger' = Events(k, found, less, paid)
    BY <1>1, <1>2
  <2> HIDE DEF less
  <2>. QED  BY <2>1, LedgerStep DEF less
<1>8. booked \in Int /\ worth \in Int
      /\ booked - worth = ledger[k] - integrations[k].balance + (found - delta - worth)
  BY <1>1, <1>2 DEF U64
<1> HIDE DEF booked
<1>9. /\ k = "Kamino" => booked = worth
      /\ k = "Drift" => booked - worth \in 0 .. (DriftRounding * (moves[k] + 1))
  BY <1>8, RoundedOnce
<1>10. Fits(k, q, m, booked, net[k] - paid, moves[k] + 1, clock)
  BY <1>1, <1>5, <1>9 DEF Fits, Follows, LendingInv, Clocks
<1>11. vault' \in 0 .. Supply /\ ReserveFits'
  BY <1>1, <1>2, <1>6, <1>7 DEF ReserveFits, LendingInv, LendingTypeOK, Clocks
<1>12. LendingInv'
  <2>1. m \in Markets /\ net[k] - paid \in Int /\ moves[k] + 1 \in Nat
    BY <1>1 DEF Follows
  <2>. QED  BY <1>2, <1>5, <1>6, <1>7, <1>8, <1>10, <1>11, <2>1, KindStep
<1>. QED  BY <1>1, <1>2, <1>5, <1>6, <1>12

\* The same as the handlers write it: the reserve pays, or receives.
Paying(k, found, delta, flow) ==
  [Synced(k, found) EXCEPT ![k] = @ + delta, !["Reserve"] = @ - flow]
Receiving(k, found, delta, flow) ==
  [Synced(k, found) EXCEPT ![k] = @ - delta, !["Reserve"] = @ + flow]

LEMMA EventsOfHandler ==
  ASSUME LendingInv, NEW k \in Kinds, NEW found \in Int, NEW delta \in Int,
         NEW flow \in Int
  PROVE  /\ Paying(k, found, delta, flow) = Events(k, found, delta, 0 - flow)
         /\ Receiving(k, found, delta, flow) = Events(k, found, 0 - delta, flow)
<1> DEFINE f == Synced(k, found)
<1>1. k # "Reserve" /\ k \in Books /\ "Reserve" \in Books
  BY KindsFacts DEF LendingInv
<1>2. f[k] \in Int /\ f["Reserve"] \in Int
  BY <1>1 DEF Synced, LendingInv, LendingTypeOK, SyncEvent, Reserves, Integrations, U64
<1> HIDE DEF f
<1>3. /\ f["Reserve"] - flow = f["Reserve"] + (0 - flow)
      /\ f[k] - delta = f[k] + (0 - delta)
  BY <1>2
<1>4. /\ [f EXCEPT ![k] = @ + delta, !["Reserve"] = @ - flow]
           = [f EXCEPT ![k] = @ + delta, !["Reserve"] = @ + (0 - flow)]
      /\ [f EXCEPT ![k] = @ - delta, !["Reserve"] = @ + flow]
           = [f EXCEPT ![k] = @ + (0 - delta), !["Reserve"] = @ + flow]
  BY <1>1, <1>3
<1>. QED  BY <1>4 DEF Events, Paying, Receiving, f

-----------------------------------------------------------------------------
\* Kamino.

LEMMA KaminoFacts ==
  ASSUME LendingInv, "Kamino" \in Kinds
  PROVE  LET m == markets["Kamino"]
         IN  /\ m \in Markets /\ m.shares \in Nat /\ m.index \in Nat \ {0}
             /\ m.earned \in Nat /\ m.slot \in Nat
             /\ m.index + m.earned <= LastIndex["Kamino"]
             /\ m.slot <= clock.slot
             /\ m.slot = clock.slot => m.earned = 0
             /\ Unit["Kamino"] \in Nat \ {0} /\ clock \in Clocks
<1>1. Fits("Kamino", integrations["Kamino"], markets["Kamino"], ledger["Kamino"],
           net["Kamino"], moves["Kamino"], clock)
  BY DEF LendingInv
<1>2. markets["Kamino"] \in Markets
  BY DEF LendingInv, LendingTypeOK
<1>. QED  BY <1>1, <1>2, KindsFacts DEF LendingInv, Fits, Markets

LEMMA Refreshed ==
  ASSUME LendingInv, "Kamino" \in Kinds
  PROVE  LET m == markets["Kamino"]
             r == RefreshedMarket(m)
         IN  /\ r \in Markets /\ Follows("Kamino", r)
             /\ r.shares = m.shares /\ r.index = m.index + m.earned
             /\ r.earned = 0 /\ r.slot = clock.slot
<1> DEFINE m == markets["Kamino"]
           r == RefreshedMarket(m)
           index == m.index + m.earned
           now == clock.slot
<1>1. /\ m \in Markets /\ index \in Nat \ {0} /\ now \in Nat
      /\ index <= LastIndex["Kamino"]
  BY KaminoFacts DEF Clocks
<1>2. r = [m EXCEPT !.index = index, !.earned = 0, !.slot = now, !.stale = FALSE]
  BY <1>1 DEF RefreshedMarket, WithInterest, Markets
<1> HIDE DEF m, r, index, now
<1>3. r \in Markets
  BY <1>1, <1>2 DEF Markets
<1>4. r.shares = m.shares /\ r.index = index /\ r.earned = 0 /\ r.slot = now
  BY <1>1, <1>2 DEF Markets
<1>5. r.index + r.earned <= LastIndex["Kamino"] /\ r.slot <= now
  BY <1>1, <1>4
<1>6. Follows("Kamino", r)
  BY <1>3, <1>4, <1>5 DEF Follows, now
<1>. QED  BY <1>3, <1>4, <1>6 DEF r, m, index, now

\* The value recorded for a kind includes all the interest of its market.
Current(kind) ==
  integrations'[kind].balance = Worth(kind, WithInterest(markets'[kind]))

\* When there is no interest left to add, the value is the one that is read.
LEMMA NothingEarned ==
  ASSUME NEW m \in Markets, m.earned = 0, NEW kind
  PROVE  Worth(kind, WithInterest(m)) = Worth(kind, m)
<1>1. m.index + 0 = m.index
  BY DEF Markets
<1>. QED  BY <1>1 DEF Worth, WithInterest, Markets

LEMMA InvPushKamino ==
  ASSUME LendingInv, "Kamino" \in Kinds, NEW amount \in Amounts,
         NEW taken \in 1 .. amount, PushKamino(amount, taken)
  PROVE  /\ LendingInv' /\ Current("Kamino")
         /\ \A j \in Kinds \ {"Kamino"} : integrations'[j] = integrations[j]
         /\ reserve'.lastBalance = vault'
<1> DEFINE before == markets["Kamino"]
           r == RefreshedMarket(before)
           minted == (taken * Unit["Kamino"]) \div r.index
           after == KlendDeposit(before, taken)
<1>1. /\ before \in Markets /\ before.shares \in Nat /\ before.index \in Nat \ {0}
      /\ before.earned \in Nat /\ Unit["Kamino"] \in Nat \ {0}
  BY KaminoFacts
<1>2. /\ r \in Markets /\ Follows("Kamino", r)
      /\ r.shares = before.shares /\ r.index = before.index + before.earned
      /\ r.earned = 0 /\ r.slot = clock.slot
  BY Refreshed
<1>3. amount \in Nat /\ taken \in Nat /\ taken <= amount /\ amount <= vault
      /\ taken <= vault
  BY KindsFacts DEF LendingInv, LendingTypeOK, PushKamino
<1>4. minted \in Nat
  <2>1. taken * Unit["Kamino"] \in Nat /\ r.index \in Nat \ {0}
    BY <1>1, <1>2, <1>3, TimesNat
  <2>. QED  BY <2>1, DivMod
<1>5. after = [r EXCEPT !.shares = r.shares + minted, !.stale = TRUE, !.open = TRUE]
  BY DEF KlendDeposit
<1> HIDE DEF before, r, minted
<1>6. /\ after \in Markets /\ after.shares = before.shares + minted
      /\ after.index = before.index + before.earned /\ after.earned = 0
      /\ after.slot = clock.slot
  <2> DEFINE shares == r.shares + minted
  <2>1. shares \in Nat
    BY <1>1, <1>2, <1>4
  <2>2. after = [r EXCEPT !.shares = shares, !.stale = TRUE, !.open = TRUE]
    BY <1>5
  <2>3. shares = before.shares + minted
    BY <1>2
  <2> HIDE DEF shares, after
  <2>4. after \in Markets
    BY <1>2, <2>1, <2>2 DEF Markets
  <2>5. /\ after.shares = shares /\ after.index = r.index
        /\ after.earned = r.earned /\ after.slot = r.slot
    BY <1>2, <2>2 DEF Markets
  <2>. QED  BY <1>2, <2>3, <2>4, <2>5
<1>7. Follows("Kamino", after)
  BY <1>2, <1>6 DEF Follows, Markets
<1> DEFINE worth == KaminoBalance(after)
           found == KaminoBalance(before)
           delta == ValueGained(before, after)
<1>8. /\ Handler("Kamino") /\ SavePush("Kamino", taken, worth)
      /\ markets' = [markets EXCEPT !["Kamino"] = after]
      /\ ledger' = Paying("Kamino", found, delta, taken)
  BY DEF PushKamino, SyncedKamino, Paying, before
<1> HIDE DEF after
<1>9. worth \in Nat /\ found \in Nat /\ found <= worth
  BY <1>1, <1>4, <1>6, WorthNat, WorthMono DEF KaminoBalance
<1>10. delta = worth - found /\ delta \in Int
  BY <1>9 DEF ValueGained, SatSub
<1>11. Rounded("Kamino", found + delta - worth)
  BY <1>9, <1>10 DEF Rounded
<1>12. worth = Worth("Kamino", WithInterest(after))
  BY <1>6, NothingEarned DEF KaminoBalance
<1>13. markets'["Kamino"] = after
  BY <1>8 DEF LendingInv, LendingTypeOK
<1> HIDE DEF worth, found, delta
<1>14. ledger' = Events("Kamino", found, delta, 0 - taken)
  <2>1. found \in Int /\ delta \in Int /\ taken \in Int
    BY <1>3, <1>9, <1>10
  <2>. QED  BY <1>8, <2>1, EventsOfHandler
<1>15. /\ LendingInv' /\ integrations'["Kamino"].balance = worth
       /\ \A j \in Kinds \ {"Kamino"} : integrations'[j] = integrations[j]
       /\ reserve'.lastBalance = vault'
  <2>1. found \in Int /\ delta \in Int /\ taken \in Nat
    BY <1>3, <1>9, <1>10
  <2>. QED  BY <1>3, <1>7, <1>8, <1>11, <1>14, <2>1, PushStep, ZenonT(60)
<1>. QED  BY <1>12, <1>13, <1>15 DEF Current

LEMMA InvPullKamino ==
  ASSUME LendingInv, "Kamino" \in Kinds, NEW amount \in Amounts,
         NEW open \in BOOLEAN, PullKamino(amount, open)
  PROVE  /\ LendingInv' /\ Current("Kamino")
         /\ \A j \in Kinds \ {"Kamino"} : integrations'[j] = integrations[j]
         /\ reserve'.lastBalance = vault'
<1> DEFINE before == markets["Kamino"]
           shares == Least(Shares(before, amount), before.shares)
           after == KlendWithdraw(before, shares, open)
           part == [before EXCEPT !.shares = shares]
           paid == KaminoBalance(part)
           worth == KaminoBalance(after)
           found == KaminoBalance(before)
           delta == SatSub(found, worth)
<1>1. /\ before \in Markets /\ before.shares \in Nat /\ before.index \in Nat \ {0}
      /\ before.earned \in Nat /\ before.slot \in Nat
      /\ before.index + before.earned <= LastIndex["Kamino"]
      /\ before.slot <= clock.slot
      /\ before.slot = clock.slot => before.earned = 0
      /\ Unit["Kamino"] \in Nat \ {0} /\ clock \in Clocks
  BY KaminoFacts
<1>2. before.earned = 0
  <2>1. ~IsStale(before)
    BY DEF PullKamino
  <2>2. before.slot = clock.slot
    BY <1>1, <2>1 DEF IsStale, Clocks
  <2>. QED  BY <1>1, <2>2
<1>3. shares \in Nat /\ shares <= before.shares
  <2>1. amount \in Nat /\ amount * Unit["Kamino"] \in Nat
    BY <1>1, KindsFacts, TimesNat DEF LendingInv
  <2>2. Shares(before, amount) \in Nat
    BY <1>1, <2>1, DivMod DEF Shares
  <2>. QED  BY <1>1, <2>2 DEF Least
<1>4. /\ Handler("Kamino") /\ SavePull("Kamino", paid, worth)
      /\ markets' = [markets EXCEPT !["Kamino"] = after]
      /\ ledger' = Receiving("Kamino", found, delta, paid)
  BY DEF PullKamino, SyncedKamino, Receiving
<1> HIDE DEF before, shares
<1>5. /\ after = [before EXCEPT !.shares = before.shares - shares, !.stale = TRUE,
                                !.open = open]
      /\ before.shares - shares \in Nat
  BY <1>1, <1>3 DEF KlendWithdraw
<1>6. /\ after \in Markets /\ after.shares = before.shares - shares
      /\ after.index = before.index /\ after.earned = before.earned
      /\ after.slot = before.slot
  BY <1>1, <1>5 DEF Markets
<1>7. part.shares = shares /\ part.index = before.index
  BY <1>1 DEF Markets
<1>8. Follows("Kamino", after)
  BY <1>1, <1>6 DEF Follows
<1> HIDE DEF after, part
<1>9. worth \in Nat /\ found \in Nat /\ worth <= found /\ paid \in Nat
  <2>1. /\ after.shares \in Nat /\ after.index \in Nat
        /\ after.shares <= before.shares /\ after.index <= before.index
        /\ part.shares \in Nat /\ part.index \in Nat /\ before.index \in Nat
    BY <1>1, <1>3, <1>5, <1>6, <1>7
  <2>2. Worth("Kamino", after) <= Worth("Kamino", before)
    BY <1>1, <2>1, WorthMono
  <2>3. /\ Worth("Kamino", after) \in Nat /\ Worth("Kamino", before) \in Nat
        /\ Worth("Kamino", part) \in Nat
    BY <1>1, <2>1, WorthNat
  <2>. QED  BY <2>2, <2>3 DEF KaminoBalance
<1>10. delta = found - worth /\ delta \in Int
  BY <1>9 DEF SatSub
<1>11. Rounded("Kamino", found - delta - worth)
  BY <1>9, <1>10 DEF Rounded
<1>12. worth = Worth("Kamino", WithInterest(after))
  BY <1>2, <1>6, NothingEarned DEF KaminoBalance
<1>13. markets'["Kamino"] = after
  BY <1>4 DEF LendingInv, LendingTypeOK
<1> HIDE DEF worth, found, delta, paid
<1>14. ledger' = Events("Kamino", found, 0 - delta, paid)
  <2>1. found \in Int /\ delta \in Int /\ paid \in Int
    BY <1>9, <1>10
  <2>. QED  BY <1>4, <2>1, EventsOfHandler
<1>15. /\ LendingInv' /\ integrations'["Kamino"].balance = worth
       /\ \A j \in Kinds \ {"Kamino"} : integrations'[j] = integrations[j]
       /\ reserve'.lastBalance = vault'
  <2>1. found \in Int /\ delta \in Int /\ paid \in Nat
    BY <1>9, <1>10
  <2>. QED  BY <1>4, <1>8, <1>11, <1>14, <2>1, PullStep, ZenonT(60)
<1>. QED  BY <1>12, <1>13, <1>15 DEF Current

LEMMA InvSyncKamino ==
  ASSUME LendingInv, "Kamino" \in Kinds, NEW reward \in Rewards \cup {0},
         SyncKamino(reward)
  PROVE  /\ LendingInv' /\ Current("Kamino")
         /\ \A j \in Kinds \ {"Kamino"} : integrations'[j] = integrations[j]
         /\ reserve'.lastBalance = vault'
<1> DEFINE k == "Kamino"
           m == markets[k]
           i == RefreshedIntegration(k)
           worth == KaminoBalance(m)
           q == [CreditRateLimit(i, reward) EXCEPT !.balance = worth]
           count == moves[k] + Least(reward, 1)
<1>1. /\ m \in Markets /\ m.shares \in Nat /\ m.index \in Nat \ {0}
      /\ m.earned \in Nat /\ m.slot \in Nat
      /\ m.index + m.earned <= LastIndex[k]
      /\ m.slot <= clock.slot
      /\ m.slot = clock.slot => m.earned = 0
      /\ clock \in Clocks
  BY KaminoFacts
<1>2. m.earned = 0
  <2>1. m.slot = clock.slot
    BY <1>1 DEF SyncKamino, IsStale, Clocks
  <2>. QED  BY <1>1, <2>1
<1>3. /\ integrations \in [Kinds -> Integrations] /\ net \in [Kinds -> Int]
      /\ moves \in [Kinds -> Nat] /\ markets \in [Kinds -> Markets]
      /\ ledger \in [Books -> Int] /\ k \in Books /\ vault \in Nat
      /\ net[k] \in Int /\ moves[k] \in Nat /\ ledger[k] \in Int
      /\ integrations[k] \in Integrations /\ integrations[k].balance \in Int
      /\ reward \in Nat
  BY KindsFacts DEF LendingInv, LendingTypeOK, Integrations, U64
<1>4. /\ worth \in U64 /\ vault + reward <= Supply
      /\ integrations' = [integrations EXCEPT ![k] = q]
      /\ reserve' = UpdateForInflow(SyncedReserve, reward)
      /\ vault' = vault + reward
      /\ net' = [net EXCEPT ![k] = net[k] - reward]
      /\ moves' = [moves EXCEPT ![k] = count]
      /\ clock' = clock /\ markets' = [markets EXCEPT ![k] = m]
  BY <1>3 DEF SyncKamino, Harvest
<1>5. Fits(k, integrations[k], m, ledger[k], net[k], moves[k], clock)
  BY DEF LendingInv
<1>6. /\ i \in Integrations /\ i.avail <= i.max /\ i.ts = clock.ts
      /\ Bounded(i, net[k])
  BY <1>1, <1>3, <1>5, RefreshBounded DEF RefreshedIntegration, Fits
<1> HIDE DEF i
<1>7. /\ q \in Integrations /\ q.avail <= q.max /\ q.ts = clock.ts
      /\ q.balance = worth /\ Bounded(q, net[k] - reward)
  BY <1>3, <1>4, <1>6, CreditBounded
<1> HIDE DEF q
<1>8. /\ reserve' \in Reserves /\ reserve'.avail <= reserve'.max
      /\ reserve'.ts = clock.ts /\ reserve'.status # "Uninitialized"
      /\ reserve'.lastBalance = vault'
  BY <1>3, <1>4, ReserveStep
<1>9. /\ ledger' \in [Books -> Int] /\ ledger'[k] = worth
      /\ ledger'["Reserve"] = vault'
      /\ \A j \in Kinds \ {k} : ledger'[j] = ledger[j]
  <2> DEFINE f == Synced(k, worth)
  <2>1. ledger' = [f EXCEPT !["Reserve"] = @ + reward]
    BY DEF SyncKamino, Harvest, SyncedKamino
  <2>2. f = [ledger EXCEPT !["Reserve"] = @ + SyncEvent(reserve, vault),
                           ![k] = @ + worth - integrations[k].balance]
    BY DEF Synced
  <2>3. ledger[k] = integrations[k].balance /\ worth \in Int
    BY <1>4, <1>5 DEF Fits, U64
  <2>4. ledger["Reserve"] + SyncEvent(reserve, vault) = vault
        /\ ledger["Reserve"] + SyncEvent(reserve, vault) \in Int
    BY <1>3 DEF LendingInv, LendingTypeOK, ReserveFits, SyncEvent, Reserves, U64
  <2> HIDE DEF f, worth
  <2>5. /\ f \in [Books -> Int] /\ f["Reserve"] = vault /\ f[k] = worth
        /\ \A j \in Kinds \ {k} : f[j] = ledger[j]
    BY <1>3, <2>2, <2>3, <2>4, KindsFacts DEF LendingInv
  <2>. QED  BY <1>3, <1>4, <2>1, <2>5, KindsFacts DEF LendingInv
<1>10. ReserveFits' /\ vault' \in 0 .. Supply
  BY <1>1, <1>3, <1>4, <1>8, <1>9 DEF ReserveFits, Clocks
<1>11. Fits(k, q, m, worth, net[k] - reward, count, clock)
  BY <1>1, <1>7 DEF Fits, Clocks
<1>12. worth \in Int /\ net[k] - reward \in Int /\ count \in Nat
  BY <1>3, <1>4 DEF U64, Least
<1>13. worth = Worth(k, WithInterest(m))
  BY <1>1, <1>2, NothingEarned DEF KaminoBalance
<1> HIDE DEF m, worth, count
<1>14. LendingInv'
  BY <1>1, <1>4, <1>7, <1>8, <1>9, <1>10, <1>11, <1>12, KindStep, ZenonT(60)
<1>15. markets'[k] = m /\ integrations'[k] = q
       /\ \A j \in Kinds \ {k} : integrations'[j] = integrations[j]
  BY <1>3, <1>4
<1>. QED  BY <1>7, <1>8, <1>13, <1>14, <1>15 DEF Current

\* A step of a market alone: the accounts stay as they are.
LEMMA MarketStep ==
  ASSUME LendingInv, NEW k \in Kinds, NEW m, Follows(k, m),
         markets' = [markets EXCEPT ![k] = m],
         UNCHANGED <<clock, reserve, vault, integrations, ledger, net, moves>>
  PROVE  LendingInv'
<1> DEFINE i == integrations[k]
           out == net[k]
           count == moves[k]
           booked == ledger[k]
<1>1. /\ integrations \in [Kinds -> Integrations] /\ net \in [Kinds -> Int]
      /\ moves \in [Kinds -> Nat] /\ ledger \in [Books -> Int] /\ k \in Books
      /\ m \in Markets /\ reserve \in Reserves /\ vault \in 0 .. Supply
  BY KindsFacts DEF LendingInv, LendingTypeOK, Follows
<1>2. i \in Integrations /\ out \in Int /\ count \in Nat /\ booked \in Int
  BY <1>1
<1>3. /\ integrations' = [integrations EXCEPT ![k] = i]
      /\ net' = [net EXCEPT ![k] = out] /\ moves' = [moves EXCEPT ![k] = count]
      /\ ledger' \in [Books -> Int] /\ ledger'[k] = booked
      /\ \A j \in Kinds \ {k} : ledger'[j] = ledger[j]
      /\ clock' = clock /\ reserve' \in Reserves /\ vault' \in 0 .. Supply
  BY <1>1
<1>4. ReserveFits'
  BY DEF LendingInv, ReserveFits
<1>5. Fits(k, i, m, booked, out, count, clock)
  <2>1. Fits(k, i, markets[k], booked, out, count, clock)
    BY DEF LendingInv
  <2>. QED  BY <2>1 DEF Fits, Follows
<1> HIDE DEF i, out, count, booked
<1>. QED  BY <1>1, <1>2, <1>3, <1>4, <1>5, KindStep, ZenonT(60)

LEMMA InvRefreshKlend ==
  ASSUME LendingInv, "Kamino" \in Kinds, RefreshKlend
  PROVE  LendingInv'
<1> DEFINE r == RefreshedMarket(markets["Kamino"])
<1>1. Follows("Kamino", r)
  BY Refreshed
<1>2. markets' = [markets EXCEPT !["Kamino"] = r]
      /\ UNCHANGED <<clock, reserve, vault, integrations, ledger, net, moves>>
  BY DEF RefreshKlend, LendingInv, LendingTypeOK
<1> HIDE DEF r
<1>. QED  BY <1>1, <1>2, MarketStep, ZenonT(60)

-----------------------------------------------------------------------------
\* Drift: what is rounded.

LEMMA IntTimes ==
  ASSUME NEW u \in Nat \ {0}, NEW a \in Int, NEW b \in Int
  PROVE  /\ u * (a + b) = u * a + u * b
         /\ u * (a - b) = u * a - u * b
         /\ u * a \in Int
         /\ a <= b => u * a <= u * b
         /\ u * a < u * b => a < b
<1>1. u * (a + b) = u * a + u * b /\ u * (a - b) = u * a - u * b /\ u * a \in Int
      /\ u * b \in Int
  OBVIOUS
<1>2. ASSUME NEW c \in Int, NEW d \in Int, c <= d PROVE u * c <= u * d
  <2>1. d - c \in Nat /\ u * (d - c) \in Nat
    BY <1>2, TimesNat
  <2>2. u * (d - c) = u * d - u * c /\ u * c \in Int /\ u * d \in Int
    OBVIOUS
  <2>. QED  BY <2>1, <2>2
<1>3. u * a < u * b => a < b
  <2>1. b <= a => u * b <= u * a
    BY <1>2
  <2>. QED  BY <1>1, <2>1
<1>. QED  BY <1>1, <1>2, <1>3

\* A quotient rounded up is large enough.
LEMMA CeilDivFacts ==
  ASSUME NEW n \in Nat, NEW d \in Nat \ {0}
  PROVE  /\ CeilDiv(n, d) \in Nat
         /\ n <= d * CeilDiv(n, d)
         /\ d * CeilDiv(n, d) <= n + d - 1
<1> DEFINE t == n + d - 1
           c == t \div d
           x == t % d
<1>1. t \in Nat
  OBVIOUS
<1>2. c \in Nat /\ x \in 0 .. (d - 1) /\ t = d * c + x
  BY <1>1, DivMod
<1>3. CeilDiv(n, d) = c
  BY DEF CeilDiv
<1> HIDE DEF c, x
<1>4. d * c \in Nat
  BY <1>2, TimesNat
<1>. QED  BY <1>2, <1>3, <1>4

\* When what the shares are worth, in units of 1/Unit of a token, moves by so
\* many tokens but for less than the index, then the tokens do so but for the
\* rounding.
LEMMA RoundingBound ==
  ASSUME NEW n \in Nat, NEW p \in Nat, NEW u \in Nat \ {0}, NEW a \in Int,
         NEW index \in Nat \ {0}, NEW last \in Nat, index <= last,
         p <= n + u * a, n + u * a - (index - 1) <= p
  PROVE  (n \div u) + a - (p \div u) \in 0 .. CeilDiv(last - 1, u)
<1> DEFINE w == n \div u
           v == p \div u
           x == n % u
           y == p % u
           c == CeilDiv(last - 1, u)
<1>1. /\ w \in Nat /\ x \in 0 .. (u - 1) /\ n = u * w + x
      /\ v \in Nat /\ y \in 0 .. (u - 1) /\ p = u * v + y
  BY DivMod
<1>2. c \in Nat /\ last - 1 <= u * c
  <2>1. last - 1 \in Nat
    OBVIOUS
  <2>. QED  BY <2>1, CeilDivFacts
<1> HIDE DEF w, v, x, y, c
<1>3. /\ u * w \in Int /\ u * v \in Int /\ u * a \in Int /\ u * c \in Int
      /\ u * (w + a) = u * w + u * a
      /\ u * (w + a + 1) = u * w + u * a + u
      /\ u * (w + a - c) = u * w + u * a - u * c
  <2>1. w + a \in Int
    BY <1>1
  <2>2. u * (w + a) = u * w + u * a
    BY <1>1, IntTimes
  <2>3. u * (w + a + 1) = u * (w + a) + u
    BY <2>1
  <2>4. u * (a - c) = u * a - u * c
    BY <1>2, IntTimes
  <2>5. u * (w + (a - c)) = u * w + u * (a - c)
    <3>1. a - c \in Int
      BY <1>2
    <3>. QED  BY <1>1, <3>1, IntTimes
  <2>. QED  BY <1>1, <1>2, <2>2, <2>3, <2>4, <2>5, IntTimes
<1>4. v <= w + a
  <2>1. u * v < u * (w + a + 1)
    BY <1>1, <1>3
  <2>2. v < w + a + 1
    BY <1>1, <2>1, IntTimes
  <2>. QED  BY <1>1, <2>2
<1>5. w + a - c <= v
  <2>1. u * (w + a - c) <= p
    BY <1>1, <1>2, <1>3
  <2>2. w + a - c \in Int
    BY <1>1, <1>2
  <2>. QED  BY <2>1, <2>2, DivAtLeast DEF v
<1>6. w + a - v \in 0 .. c
  BY <1>1, <1>2, <1>4, <1>5
<1>. QED  BY <1>6 DEF w, v, c

LEMMA Updated ==
  ASSUME LendingInv, "Drift" \in Kinds
  PROVE  /\ UpdatedMarket \in Markets /\ Follows("Drift", UpdatedMarket)
         /\ UpdatedMarket.shares \in Nat /\ UpdatedMarket.index \in Nat \ {0}
         /\ UpdatedMarket.index <= LastIndex["Drift"]
         /\ UpdatedMarket.earned = 0
         /\ Unit["Drift"] \in Nat \ {0} /\ LastIndex["Drift"] \in Nat
<1> DEFINE m == markets["Drift"]
           index == m.index + m.earned
<1>1. /\ m \in Markets /\ Unit["Drift"] \in Nat \ {0} /\ LastIndex["Drift"] \in Nat
  BY KindsFacts DEF LendingInv, LendingTypeOK
<1>2. Fits("Drift", integrations["Drift"], m, ledger["Drift"], net["Drift"],
           moves["Drift"], clock)
  BY DEF LendingInv
<1>3. index \in Nat \ {0} /\ index <= LastIndex["Drift"] /\ m.shares \in Nat
  BY <1>1, <1>2 DEF Markets, Fits
<1>4. UpdatedMarket = [m EXCEPT !.index = index, !.earned = 0]
  BY <1>1 DEF UpdatedMarket, WithInterest, Markets
<1> HIDE DEF m, index
<1>5. UpdatedMarket \in Markets
  BY <1>1, <1>3, <1>4 DEF Markets
<1>6. /\ UpdatedMarket.shares = m.shares /\ UpdatedMarket.index = index
      /\ UpdatedMarket.earned = 0
  BY <1>1, <1>4 DEF Markets
<1>7. Follows("Drift", UpdatedMarket)
  <2>1. UpdatedMarket.index + UpdatedMarket.earned <= LastIndex["Drift"]
    BY <1>3, <1>6
  <2>. QED  BY <1>5, <2>1 DEF Follows
<1>. QED  BY <1>1, <1>3, <1>5, <1>6, <1>7

LEMMA InvPushDrift ==
  ASSUME LendingInv, "Drift" \in Kinds, NEW amount \in Amounts, PushDrift(amount)
  PROVE  /\ LendingInv' /\ Current("Drift")
         /\ \A j \in Kinds \ {"Drift"} : integrations'[j] = integrations[j]
         /\ reserve'.lastBalance = vault'
<1> DEFINE m == UpdatedMarket
           u == Unit["Drift"]
           minted == (amount * u) \div m.index
           shares == m.shares + minted
           after == [m EXCEPT !.shares = @ + (amount * Unit["Drift"]) \div m.index]
           found == DriftBalance(m)
           worth == DriftBalance(after)
<1>1. /\ m \in Markets /\ Follows("Drift", m) /\ m.shares \in Nat
      /\ m.index \in Nat \ {0} /\ m.index <= LastIndex["Drift"] /\ m.earned = 0
      /\ u \in Nat \ {0} /\ LastIndex["Drift"] \in Nat
  BY Updated
<1>2. amount \in Nat /\ amount <= vault
  BY KindsFacts DEF LendingInv, PushDrift
<1>3. /\ Handler("Drift") /\ SavePush("Drift", amount, worth)
      /\ markets' = [markets EXCEPT !["Drift"] = after]
      /\ ledger' = Paying("Drift", found, amount, amount)
  BY DEF PushDrift, SyncedDrift, Paying
<1>4. after = [m EXCEPT !.shares = shares]
  OBVIOUS
<1>5. /\ minted \in Nat /\ m.index * minted <= amount * u
      /\ amount * u - (m.index - 1) <= m.index * minted
  <2> DEFINE n == amount * u
             x == n % m.index
  <2>1. n \in Nat
    BY <1>1, <1>2, TimesNat
  <2>2. /\ minted \in Nat /\ x \in 0 .. (m.index - 1) /\ n = m.index * minted + x
    BY <1>1, <2>1, DivMod
  <2>3. m.index * minted \in Nat
    BY <1>1, <2>2, TimesNat
  <2> HIDE DEF n, x, minted
  <2>4. m.index * minted <= n /\ n - (m.index - 1) <= m.index * minted
    BY <1>1, <2>1, <2>2, <2>3
  <2>. QED  BY <2>2, <2>4 DEF n
<1> HIDE DEF m, minted
<1>6. shares \in Nat
  BY <1>1, <1>5
<1> HIDE DEF shares, after
<1>7. after \in Markets
  BY <1>1, <1>4, <1>6 DEF Markets
<1>8. after.shares = shares /\ after.index = m.index /\ after.earned = 0
  BY <1>1, <1>4 DEF Markets
<1>9. Follows("Drift", after)
  BY <1>1, <1>7, <1>8 DEF Follows
<1>10. found \in Nat /\ worth \in Nat
  BY <1>1, <1>6, <1>8, WorthNat DEF DriftBalance
<1>11. Rounded("Drift", found + amount - worth)
  <2> DEFINE n == m.shares * m.index
             p == shares * m.index
             x == m.index * minted
  <2>1. n \in Nat /\ p \in Nat /\ x \in Nat
    BY <1>1, <1>5, <1>6, TimesNat
  <2>2. p = n + x
    BY <1>1, <1>5 DEF shares
  <2>3. amount * u = u * amount /\ u * amount \in Nat
    BY <1>1, <1>2, TimesNat
  <2>4. found = n \div u /\ worth = p \div u
    BY <1>8 DEF DriftBalance, Worth
  <2>5. x <= u * amount /\ u * amount - (m.index - 1) <= x
    BY <1>5, <2>3
  <2> HIDE DEF n, p, x
  <2>6. p <= n + u * amount /\ n + u * amount - (m.index - 1) <= p
    BY <1>1, <2>1, <2>2, <2>3, <2>5
  <2> HIDE DEF u, found, worth
  <2>7. (n \div u) + amount - (p \div u) \in 0 .. CeilDiv(LastIndex["Drift"] - 1, u)
    <3>1. amount \in Int
      BY <1>2
    <3>. QED  BY <1>1, <2>1, <2>6, <3>1, RoundingBound
  <2>8. found + amount - worth \in 0 .. CeilDiv(LastIndex["Drift"] - 1, u)
    BY <2>4, <2>7
  <2>9. found + amount - worth \in Int
    BY <1>2, <1>10
  <2>. QED  BY <2>8, <2>9 DEF Rounded, DriftRounding, u
<1>12. worth = Worth("Drift", WithInterest(after))
  BY <1>7, <1>8, NothingEarned DEF DriftBalance
<1>13. markets'["Drift"] = after
  BY <1>3 DEF LendingInv, LendingTypeOK
<1> HIDE DEF worth, found
<1>14. ledger' = Events("Drift", found, amount, 0 - amount)
  <2>1. found \in Int /\ amount \in Int
    BY <1>2, <1>10
  <2>. QED  BY <1>3, <2>1, EventsOfHandler
<1>15. /\ LendingInv' /\ integrations'["Drift"].balance = worth
       /\ \A j \in Kinds \ {"Drift"} : integrations'[j] = integrations[j]
       /\ reserve'.lastBalance = vault'
  <2>1. found \in Int /\ amount \in Int /\ amount \in Nat
    BY <1>2, <1>10
  <2>2. /\ Handler("Drift") /\ SavePush("Drift", amount, worth)
        /\ markets' = [markets EXCEPT !["Drift"] = after]
    BY <1>3
  <2>. QED  BY <1>2, <1>9, <1>11, <1>14, <2>1, <2>2, PushStep, ZenonT(60)
<1>. QED  BY <1>12, <1>13, <1>15 DEF Current

LEMMA InvPullDrift ==
  ASSUME LendingInv, "Drift" \in Kinds, NEW amount \in Amounts, PullDrift(amount)
  PROVE  /\ LendingInv' /\ Current("Drift")
         /\ \A j \in Kinds \ {"Drift"} : integrations'[j] = integrations[j]
         /\ reserve'.lastBalance = vault'
<1> DEFINE m == UpdatedMarket
           u == Unit["Drift"]
           found == DriftBalance(m)
           paid == Least(amount, found)
           burned == CeilDiv(paid * u, m.index)
           shares == SatSub(m.shares, burned)
           after == [m EXCEPT !.shares =
                       SatSub(@, CeilDiv(paid * Unit["Drift"], m.index))]
           worth == DriftBalance(after)
<1>1. /\ m \in Markets /\ Follows("Drift", m) /\ m.shares \in Nat
      /\ m.index \in Nat \ {0} /\ m.index <= LastIndex["Drift"] /\ m.earned = 0
      /\ u \in Nat \ {0} /\ LastIndex["Drift"] \in Nat
  BY Updated
<1>2. amount \in Nat
  BY KindsFacts DEF LendingInv
<1>3. /\ Handler("Drift") /\ SavePull("Drift", paid, worth)
      /\ markets' = [markets EXCEPT !["Drift"] = after]
      /\ ledger' = Receiving("Drift", found, paid, paid)
  BY DEF PullDrift, SyncedDrift, Receiving
<1>4. after = [m EXCEPT !.shares = shares]
  OBVIOUS
<1>5. found \in Nat /\ paid \in Nat /\ paid <= found
  <2>1. found \in Nat
    BY <1>1, WorthNat DEF DriftBalance
  <2>. QED  BY <1>2, <2>1 DEF Least
<1> DEFINE n == m.shares * m.index
<1>6. n \in Nat /\ n = m.index * m.shares /\ found = n \div u
  BY <1>1, TimesNat DEF DriftBalance, Worth
<1> HIDE DEF m, found, paid, n
<1>7. u * paid <= n /\ u * paid \in Nat /\ paid * u = u * paid
  <2>1. u * found <= n
    <3>1. n = u * (n \div u) + (n % u) /\ n % u \in Nat /\ u * (n \div u) \in Int
      <4>1. n \div u \in Nat /\ n % u \in 0 .. (u - 1) /\ n = u * (n \div u) + (n % u)
        BY <1>1, <1>6, DivMod
      <4>. QED  BY <1>1, <4>1, TimesNat
    <3>. QED  BY <1>6, <3>1
  <2>2. u * paid <= u * found
    BY <1>1, <1>5, IntTimes
  <2>3. u * paid \in Nat /\ u * found \in Nat /\ paid * u = u * paid
    BY <1>1, <1>5, TimesNat
  <2>. QED  BY <1>6, <2>1, <2>2, <2>3
<1>8. /\ burned \in Nat /\ u * paid <= m.index * burned
      /\ m.index * burned <= u * paid + m.index - 1
  BY <1>1, <1>7, CeilDivFacts
<1> HIDE DEF burned, u
<1>9. burned <= m.shares
  <2>1. m.index * burned < m.index * (m.shares + 1)
    <3>1. m.index * (m.shares + 1) = n + m.index
      BY <1>1, <1>6
    <3>2. m.index * burned \in Nat
      BY <1>1, <1>8, TimesNat
    <3>. QED  BY <1>1, <1>6, <1>7, <1>8, <3>1, <3>2
  <2>2. burned < m.shares + 1
    BY <1>1, <1>8, <2>1, IntTimes
  <2>. QED  BY <1>1, <1>8, <2>2
<1>10. shares = m.shares - burned /\ shares \in Nat
  BY <1>1, <1>8, <1>9 DEF SatSub
<1> HIDE DEF shares, after
<1>11. after \in Markets
  BY <1>1, <1>4, <1>10 DEF Markets
<1>12. after.shares = shares /\ after.index = m.index /\ after.earned = 0
  BY <1>1, <1>4 DEF Markets
<1>13. Follows("Drift", after)
  BY <1>1, <1>11, <1>12 DEF Follows
<1>14. worth \in Nat
  BY <1>1, <1>10, <1>12, WorthNat DEF DriftBalance, u
<1>15. Rounded("Drift", found - paid - worth)
  <2> DEFINE p == shares * m.index
             x == m.index * burned
             less == 0 - paid
  <2>1. p \in Nat /\ x \in Nat
    BY <1>1, <1>8, <1>10, TimesNat
  <2>2. p = n - x
    BY <1>1, <1>8, <1>10 DEF n
  <2>3. less \in Int /\ u * less = 0 - u * paid /\ u * less \in Int
    BY <1>1, <1>5, <1>7
  <2>4. worth = p \div u
    BY <1>12 DEF DriftBalance, Worth, u
  <2>5. u * paid <= x /\ x <= u * paid + m.index - 1
    BY <1>8
  <2> HIDE DEF p, x, less
  <2>6. p <= n + u * less /\ n + u * less - (m.index - 1) <= p
    BY <1>1, <1>6, <1>7, <2>1, <2>2, <2>3, <2>5
  <2> HIDE DEF worth
  <2>7. (n \div u) + less - (p \div u) \in 0 .. CeilDiv(LastIndex["Drift"] - 1, u)
    BY <1>1, <1>6, <2>1, <2>3, <2>6, RoundingBound
  <2>8. found + less - worth \in 0 .. CeilDiv(LastIndex["Drift"] - 1, u)
    BY <1>6, <2>4, <2>7
  <2>9. found + less - worth = found - paid - worth /\ found - paid - worth \in Int
    BY <1>5, <1>14 DEF less
  <2>. QED  BY <2>8, <2>9 DEF Rounded, DriftRounding, u
<1>16. worth = Worth("Drift", WithInterest(after))
  BY <1>11, <1>12, NothingEarned DEF DriftBalance
<1>17. markets'["Drift"] = after
  BY <1>3 DEF LendingInv, LendingTypeOK
<1> HIDE DEF worth
<1>18. ledger' = Events("Drift", found, 0 - paid, paid)
  <2>1. found \in Int /\ paid \in Int
    BY <1>5
  <2>. QED  BY <1>3, <2>1, EventsOfHandler
<1>19. /\ LendingInv' /\ integrations'["Drift"].balance = worth
       /\ \A j \in Kinds \ {"Drift"} : integrations'[j] = integrations[j]
       /\ reserve'.lastBalance = vault'
  <2>1. found \in Int /\ paid \in Int /\ paid \in Nat
    BY <1>5
  <2>2. /\ Handler("Drift") /\ SavePull("Drift", paid, worth)
        /\ markets' = [markets EXCEPT !["Drift"] = after]
    BY <1>3
  <2>. QED  BY <1>13, <1>15, <1>18, <2>1, <2>2, PullStep, ZenonT(60)
<1>. QED  BY <1>16, <1>17, <1>19 DEF Current

LEMMA InvSyncDrift ==
  ASSUME LendingInv, "Drift" \in Kinds, SyncDrift
  PROVE  /\ LendingInv' /\ Current("Drift")
         /\ \A j \in Kinds \ {"Drift"} : integrations'[j] = integrations[j]
         /\ reserve' = reserve
<1> DEFINE k == "Drift"
           m == UpdatedMarket
           i == RefreshedIntegration(k)
           worth == DriftBalance(m)
           q == [i EXCEPT !.balance = worth]
           booked == ledger[k] + worth - integrations[k].balance
           out == net[k]
           count == moves[k]
<1>1. m \in Markets /\ Follows(k, m) /\ m.earned = 0 /\ clock \in Clocks
  BY Updated DEF LendingInv
<1>2. /\ integrations \in [Kinds -> Integrations] /\ net \in [Kinds -> Int]
      /\ moves \in [Kinds -> Nat] /\ markets \in [Kinds -> Markets]
      /\ ledger \in [Books -> Int] /\ k \in Books
      /\ out \in Int /\ count \in Nat /\ ledger[k] \in Int
      /\ integrations[k] \in Integrations /\ integrations[k].balance \in Int
  BY KindsFacts DEF LendingInv, LendingTypeOK, Integrations, U64
<1>3. /\ worth \in U64 /\ markets' = [markets EXCEPT ![k] = m]
      /\ integrations' = [integrations EXCEPT ![k] = q]
      /\ ledger' = [ledger EXCEPT ![k] = booked]
      /\ UNCHANGED <<clock, reserve, vault, net, moves>>
  BY <1>2 DEF SyncDrift
<1>4. Fits(k, integrations[k], markets[k], ledger[k], out, count, clock)
  BY DEF LendingInv
<1>5. /\ i \in Integrations /\ i.avail <= i.max /\ i.ts = clock.ts
      /\ Bounded(i, out)
  BY <1>1, <1>2, <1>4, RefreshBounded DEF RefreshedIntegration, Fits
<1> HIDE DEF i, out, count, m
<1>6. /\ q \in Integrations /\ q.avail <= q.max /\ q.ts = clock.ts
      /\ q.balance = worth /\ Bounded(q, out)
  BY <1>3, <1>5 DEF Integrations, Bounded
<1> HIDE DEF q
<1>7. worth \in Int /\ booked \in Int
      /\ booked - worth = ledger[k] - integrations[k].balance
  BY <1>2, <1>3 DEF U64
<1>8. Fits(k, q, m, booked, out, count, clock)
  BY <1>1, <1>4, <1>6, <1>7 DEF Fits, Follows, Clocks
<1>9. worth = Worth(k, WithInterest(m))
  BY <1>1, NothingEarned DEF DriftBalance
<1> HIDE DEF worth, booked
<1>10. /\ ledger' \in [Books -> Int] /\ ledger'[k] = booked
       /\ \A j \in Kinds \ {k} : ledger'[j] = ledger[j]
       /\ ledger'["Reserve"] = ledger["Reserve"]
  BY <1>2, <1>3, <1>7, KindsFacts DEF LendingInv
<1>11. /\ net' = [net EXCEPT ![k] = out] /\ moves' = [moves EXCEPT ![k] = count]
       /\ clock' = clock /\ reserve' = reserve
       /\ reserve' \in Reserves /\ vault' \in 0 .. Supply
  BY <1>2, <1>3 DEF out, count, LendingInv, LendingTypeOK
<1>12. ReserveFits'
  BY <1>10, <1>11 DEF ReserveFits, LendingInv
<1>13. LendingInv'
  <2>1. /\ markets' = [markets EXCEPT ![k] = m]
        /\ integrations' = [integrations EXCEPT ![k] = q]
    BY <1>3
  <2>. QED  BY <1>1, <1>2, <1>6, <1>7, <1>8, <1>10, <1>11, <1>12, <2>1, KindStep,
               ZenonT(60)
<1>14. markets'[k] = m /\ integrations'[k] = q
       /\ \A j \in Kinds \ {k} : integrations'[j] = integrations[j]
  BY <1>2, <1>3
<1>. QED  BY <1>6, <1>9, <1>11, <1>13, <1>14 DEF Current

-----------------------------------------------------------------------------
\* The rest of the system.

LEMMA InvManageIntegration ==
  ASSUME LendingInv, NEW k \in Kinds, NEW status \in IntegrationStatus,
         ManageIntegration(k, status)
  PROVE  /\ LendingInv' /\ reserve' = reserve
         /\ \A j \in Kinds : integrations'[j].balance = integrations[j].balance
<1> DEFINE i == RefreshedIntegration(k)
           q == [i EXCEPT !.status = status]
           m == markets[k]
           booked == ledger[k]
           out == net[k]
           count == moves[k]
<1>1. /\ integrations \in [Kinds -> Integrations] /\ net \in [Kinds -> Int]
      /\ moves \in [Kinds -> Nat] /\ markets \in [Kinds -> Markets]
      /\ ledger \in [Books -> Int] /\ k \in Books /\ clock \in Clocks
      /\ out \in Int /\ count \in Nat /\ booked \in Int /\ m \in Markets
      /\ integrations[k] \in Integrations
  BY KindsFacts DEF LendingInv, LendingTypeOK
<1>2. /\ integrations' = [integrations EXCEPT ![k] = q]
      /\ UNCHANGED <<clock, reserve, vault, markets, ledger, net, moves>>
  BY DEF ManageIntegration
<1>3. Fits(k, integrations[k], m, booked, out, count, clock)
  BY DEF LendingInv
<1>4. /\ i \in Integrations /\ i.avail <= i.max /\ i.ts = clock.ts
      /\ i.balance = integrations[k].balance /\ Bounded(i, out)
  BY <1>1, <1>3, RefreshBounded DEF RefreshedIntegration, Fits
<1> HIDE DEF i
<1>5. /\ q \in Integrations /\ q.avail <= q.max /\ q.ts = clock.ts
      /\ q.balance = integrations[k].balance /\ Bounded(q, out)
  BY <1>4 DEF Integrations, Bounded
<1> HIDE DEF q
<1>6. Fits(k, q, m, booked, out, count, clock)
  BY <1>1, <1>3, <1>5 DEF Fits, Clocks
<1>7. /\ net' = [net EXCEPT ![k] = out] /\ moves' = [moves EXCEPT ![k] = count]
      /\ markets' = [markets EXCEPT ![k] = m]
      /\ ledger' \in [Books -> Int] /\ ledger'[k] = booked
      /\ \A j \in Kinds \ {k} : ledger'[j] = ledger[j]
      /\ clock' = clock /\ reserve' \in Reserves /\ vault' \in 0 .. Supply
      /\ reserve' = reserve /\ integrations' = [integrations EXCEPT ![k] = q]
  BY <1>1, <1>2 DEF LendingInv, LendingTypeOK
<1>8. ReserveFits'
  BY <1>2 DEF ReserveFits, LendingInv
<1> HIDE DEF m, booked, out, count
<1>9. LendingInv'
  BY <1>1, <1>5, <1>6, <1>7, <1>8, KindStep, ZenonT(60)
<1>10. \A j \in Kinds : integrations'[j].balance = integrations[j].balance
  BY <1>1, <1>5, <1>7
<1>. QED  BY <1>7, <1>9, <1>10

\* A step of the reserve and the clock alone.
LEMMA OtherStep ==
  ASSUME LendingInv, UNCHANGED <<integrations, ledger, net, moves>>,
         clock' \in Clocks, clock.ts <= clock'.ts,
         reserve' \in Reserves, vault' \in 0 .. Supply, ReserveFits',
         markets' \in [Kinds -> Markets],
         \A k \in Kinds : Fits(k, integrations[k], markets'[k], ledger[k], net[k],
                               moves[k], clock')
  PROVE  LendingInv'
<1>1. Kinds' = Kinds /\ Books' = Books
  BY DEF Kinds, Books
<1>2. \A k \in Kinds' : Fits(k, integrations[k], markets[k], ledger[k], net[k],
                             moves[k], clock)'
  BY <1>1
<1>3. /\ integrations' \in [Kinds -> Integrations] /\ ledger' \in [Books -> Int]
      /\ net' \in [Kinds -> Int] /\ moves' \in [Kinds -> Nat]
      /\ Kinds' \in DOMAIN Bounds
  BY <1>1 DEF LendingInv, LendingTypeOK
<1>. QED  BY <1>1, <1>2, <1>3 DEF LendingInv, LendingTypeOK

LEMMA InvManageReserve ==
  ASSUME LendingInv, NEW status \in ReserveStatus, ManageReserve(status)
  PROVE  LendingInv' /\ reserve'.lastBalance = reserve.lastBalance
<1>1. /\ reserve \in Reserves /\ clock \in Clocks /\ reserve.ts <= clock.ts
      /\ reserve.avail <= reserve.max /\ reserve.status # "Uninitialized"
  BY DEF LendingInv, LendingTypeOK, ReserveFits
<1>2. /\ {status} \in Option(ReserveStatus) /\ {} \in Option(U64)
  BY DEF Option
<1>3. reserve' = UpdateReserve(reserve, {status}, {}, {}, clock)
      /\ UNCHANGED <<clock, vault, integrations, markets, ledger, net, moves>>
  BY DEF ManageReserve
<1>4. LET q == UpdateReserve(reserve, {status}, {}, {}, clock)
      IN  /\ q \in Reserves /\ q.avail <= q.max /\ q.ts = clock.ts
          /\ q.lastBalance = reserve.lastBalance /\ q.status # "Uninitialized"
  BY <1>1, <1>2, UpdateKeeps
<1>5. ReserveFits' /\ reserve' \in Reserves
  BY <1>1, <1>3, <1>4 DEF ReserveFits, LendingInv, Clocks
<1>6. /\ clock' \in Clocks /\ clock.ts <= clock'.ts /\ vault' \in 0 .. Supply
      /\ markets' \in [Kinds -> Markets]
      /\ \A k \in Kinds : Fits(k, integrations[k], markets'[k], ledger[k], net[k],
                               moves[k], clock')
  BY <1>1, <1>3 DEF LendingInv, LendingTypeOK, Clocks
<1>. QED  BY <1>3, <1>4, <1>5, <1>6, OtherStep

LEMMA InvForeignTransfer ==
  ASSUME LendingInv, NEW amount \in Amounts, ForeignTransfer(amount)
  PROVE  LendingInv' /\ reserve' = reserve
<1>1. amount \in Nat
  BY KindsFacts DEF LendingInv
<1>2. vault' \in 0 .. Supply
  BY <1>1 DEF ForeignTransfer, LendingInv, LendingTypeOK
<1>3. UNCHANGED <<clock, reserve, integrations, markets, ledger, net, moves>>
  BY DEF ForeignTransfer
<1>4. ReserveFits' /\ reserve' \in Reserves
  BY <1>3 DEF ReserveFits, LendingInv, LendingTypeOK
<1>5. /\ clock' \in Clocks /\ clock.ts <= clock'.ts
      /\ markets' \in [Kinds -> Markets]
      /\ \A k \in Kinds : Fits(k, integrations[k], markets'[k], ledger[k], net[k],
                               moves[k], clock')
  BY <1>3 DEF LendingInv, LendingTypeOK, Clocks
<1>. QED  BY <1>2, <1>3, <1>4, <1>5, OtherStep

LEMMA InvNextBlock ==
  ASSUME LendingInv, NextBlock
  PROVE  LendingInv' /\ reserve' = reserve
<1>1. /\ clock \in Clocks /\ markets \in [Kinds -> Markets]
      /\ integrations \in [Kinds -> Integrations]
  BY DEF LendingInv, LendingTypeOK
<1>2. /\ clock' = [ts |-> clock.ts + 1, slot |-> clock.slot + 1]
      /\ UNCHANGED <<reserve, vault, integrations, ledger, net, moves>>
  BY DEF NextBlock
<1>3. clock' \in Clocks /\ clock'.ts = clock.ts + 1 /\ clock'.slot = clock.slot + 1
      /\ clock.ts \in Nat /\ clock.slot \in Nat
  BY <1>1, <1>2 DEF Clocks
<1>4. PICK gains \in [Kinds -> Gains] :
        /\ \A k \in Kinds : markets[k].index + markets[k].earned + gains[k]
                              <= LastIndex[k]
        /\ markets' = [k \in Kinds |->
                         [markets[k] EXCEPT !.earned = @ + gains[k]]]
  BY DEF NextBlock
<1>5. ASSUME NEW k \in Kinds
      PROVE  /\ markets'[k] \in Markets
             /\ Fits(k, integrations[k], markets'[k], ledger[k], net[k], moves[k],
                     clock')
  <2> DEFINE m == markets[k]
             p == markets'[k]
             earned == m.earned + gains[k]
             i == integrations[k]
  <2>1. m \in Markets /\ gains[k] \in Nat /\ i \in Integrations
    BY <1>1, <1>4
  <2>2. p = [m EXCEPT !.earned = earned]
    BY <1>4
  <2>3. earned \in Nat /\ m.index + earned <= LastIndex[k]
    <3>1. m.index + m.earned + gains[k] <= LastIndex[k]
      BY <1>4
    <3>. QED  BY <2>1, <3>1 DEF Markets
  <2>4. Fits(k, i, m, ledger[k], net[k], moves[k], clock)
    BY DEF LendingInv
  <2> HIDE DEF m, p, earned, i
  <2>5. p \in Markets
    BY <2>1, <2>2, <2>3 DEF Markets
  <2>6. p.index = m.index /\ p.earned = earned /\ p.slot = m.slot
    BY <2>1, <2>2 DEF Markets
  <2>7. /\ k = "Kamino" => p.slot <= clock'.slot /\ p.slot # clock'.slot
        /\ i.ts <= clock'.ts
    BY <1>3, <2>1, <2>4, <2>6 DEF Fits, Markets, Integrations
  <2>8. Fits(k, i, p, ledger[k], net[k], moves[k], clock')
    BY <2>3, <2>4, <2>6, <2>7 DEF Fits
  <2>. QED  BY <2>5, <2>8 DEF p, i
<1>6. markets' \in [Kinds -> Markets]
  <2>1. markets' = [k \in Kinds |-> markets'[k]]
    BY <1>4
  <2>. QED  BY <1>5, <2>1
<1>7. /\ reserve' \in Reserves /\ vault' \in 0 .. Supply /\ reserve' = reserve
      /\ clock.ts <= clock'.ts
  BY <1>2, <1>3 DEF LendingInv, LendingTypeOK
<1>8. ReserveFits'
  BY <1>2, <1>3 DEF LendingInv, LendingTypeOK, ReserveFits, Reserves
<1>. QED  BY <1>2, <1>3, <1>5, <1>6, <1>7, <1>8, OtherStep

LEMMA InvStutter ==
  ASSUME LendingInv, UNCHANGED vars
  PROVE  LendingInv'
<1>1. UNCHANGED <<clock, reserve, vault, integrations, markets, ledger, net, moves>>
  BY DEF vars
<1>2. ReserveFits' /\ reserve' \in Reserves /\ vault' \in 0 .. Supply
  BY <1>1 DEF ReserveFits, LendingInv, LendingTypeOK
<1>3. /\ clock' \in Clocks /\ clock.ts <= clock'.ts
      /\ markets' \in [Kinds -> Markets]
      /\ \A k \in Kinds : Fits(k, integrations[k], markets'[k], ledger[k], net[k],
                               moves[k], clock')
  BY <1>1 DEF LendingInv, LendingTypeOK, Clocks
<1>. QED  BY <1>1, <1>2, <1>3, OtherStep

\* What a step may do to the records.
Records ==
  /\ reserve'.lastBalance # reserve.lastBalance => reserve'.lastBalance = vault'
  /\ \A kind \in Kinds :
       integrations'[kind].balance # integrations[kind].balance => Current(kind)

LEMMA InvNext ==
  ASSUME LendingInv, [Next]_vars
  PROVE  LendingInv' /\ Records
<1>1. ASSUME NEW k \in Kinds, LendingInv', Current(k),
             \A j \in Kinds \ {k} : integrations'[j] = integrations[j],
             reserve'.lastBalance = vault' \/ reserve' = reserve
      PROVE  LendingInv' /\ Records
  BY <1>1 DEF Records
<1>2. CASE Kamino
  <2>1. "Kamino" \in Kinds
    BY <1>2 DEF Kamino
  <2>2. ASSUME NEW amount \in Amounts, NEW taken \in 1 .. amount,
               PushKamino(amount, taken)
        PROVE  LendingInv' /\ Records
    BY <1>1, <2>1, <2>2, InvPushKamino
  <2>3. ASSUME NEW amount \in Amounts, NEW open \in BOOLEAN, PullKamino(amount, open)
        PROVE  LendingInv' /\ Records
    BY <1>1, <2>1, <2>3, InvPullKamino
  <2>4. CASE RefreshKlend
    BY <2>1, <2>4, InvRefreshKlend DEF RefreshKlend, Records
  <2>. QED  BY <1>2, <2>2, <2>3, <2>4 DEF Kamino
<1>3. CASE Drift
  <2>1. "Drift" \in Kinds
    BY <1>3 DEF Drift
  <2>2. ASSUME NEW amount \in Amounts, PushDrift(amount)
        PROVE  LendingInv' /\ Records
    BY <1>1, <2>1, <2>2, InvPushDrift
  <2>3. ASSUME NEW amount \in Amounts, PullDrift(amount)
        PROVE  LendingInv' /\ Records
    BY <1>1, <2>1, <2>3, InvPullDrift
  <2>. QED  BY <1>3, <2>2, <2>3 DEF Drift
<1>4. CASE SyncIntegration
  <2>1. ASSUME "Kamino" \in Kinds, NEW reward \in Rewards \cup {0}, SyncKamino(reward)
        PROVE  LendingInv' /\ Records
    BY <1>1, <2>1, InvSyncKamino
  <2>2. ASSUME "Drift" \in Kinds, SyncDrift
        PROVE  LendingInv' /\ Records
    BY <1>1, <2>2, InvSyncDrift
  <2>. QED  BY <1>4, <2>1, <2>2 DEF SyncIntegration
<1>5. ASSUME NEW status \in ReserveStatus, ManageReserve(status)
      PROVE  LendingInv' /\ Records
  BY <1>5, InvManageReserve DEF ManageReserve, Records
<1>6. ASSUME NEW k \in Kinds, NEW status \in IntegrationStatus,
             ManageIntegration(k, status)
      PROVE  LendingInv' /\ Records
  BY <1>6, InvManageIntegration DEF Records
<1>7. ASSUME NEW amount \in Amounts, ForeignTransfer(amount)
      PROVE  LendingInv' /\ Records
  BY <1>7, InvForeignTransfer DEF ForeignTransfer, Records
<1>8. CASE NextBlock
  BY <1>8, InvNextBlock DEF NextBlock, Records
<1>9. CASE UNCHANGED vars
  BY <1>9, InvStutter DEF vars, Records
<1>. QED  BY <1>2, <1>3, <1>4, <1>5, <1>6, <1>7, <1>8, <1>9 DEF Next

\* LendingInv is invariant.
THEOREM LendingInvariant == Spec => []LendingInv
<1>. QED  BY InvInit, InvNext, PTL DEF Spec

-----------------------------------------------------------------------------
\* The accounts and positions keep their types.
THEOREM LendingTypes == Spec => []LendingTypeOK
<1>1. LendingInv => LendingTypeOK
  BY DEF LendingInv
<1>. QED  BY <1>1, LendingInvariant, PTL

\* The events of the reserve add up to its balance, those of Kamino's to what
\* its position is recorded to be worth.
THEOREM LendingEventsBooked == Spec => []EventsBooked
<1>1. LendingInv => EventsBooked
  BY DEF LendingInv, ReserveFits, Fits, EventsBooked, Booked
<1>. QED  BY <1>1, LendingInvariant, PTL

\* Drift's events exceed the balance by the rounding of its moves at most.
THEOREM LendingDriftDust == Spec => []DriftDust
<1>1. LendingInv => DriftDust
  BY DEF LendingInv, Fits, DriftDust
<1>. QED  BY <1>1, LendingInvariant, PTL

\* No integration is owed more than its cap and its slope allow.
THEOREM LendingExposureBounded == Spec => []ExposureBounded
<1>1. LendingInv => ExposureBounded
  BY DEF LendingInv, Fits, Bounded, ExposureBounded
<1>. QED  BY <1>1, LendingInvariant, PTL

\* A reserve's balance is recorded as what its vault then holds.
THEOREM LendingReserveSettled == Spec => ReserveSettled
<1>1. LendingInv /\ [Next]_vars =>
        [reserve'.lastBalance # reserve.lastBalance
           => reserve'.lastBalance = vault']_vars
  BY InvNext DEF Records
<1>. QED  BY <1>1, LendingInvariant, PTL DEF Spec, ReserveSettled

\* The value of a position is recorded with all the interest of its slot.
THEOREM LendingRecordedIsCurrent == Spec => RecordedIsCurrent
<1>1. LendingInv /\ [Next]_vars =>
        [\A kind \in Kinds :
           integrations'[kind].balance # integrations[kind].balance
             => integrations'[kind].balance
                  = Worth(kind, WithInterest(markets'[kind]))]_vars
  BY InvNext DEF Records, Current
<1>. QED  BY <1>1, LendingInvariant, PTL DEF Spec, RecordedIsCurrent

-----------------------------------------------------------------------------
\* The limit of an integration, as a bucket.
LEMMA IntegrationIsLimit ==
  ASSUME LendingInv, NEW l \in Kinds
  PROVE  /\ integrations[l] \in Integrations /\ IsLimit(integrations[l])
         /\ integrations[l].ts <= clock.ts /\ clock \in Clocks
<1>1. /\ integrations[l] \in Integrations /\ clock \in Clocks
      /\ integrations[l].avail <= integrations[l].max
      /\ integrations[l].ts <= clock.ts
  BY DEF LendingInv, LendingTypeOK, Fits
<1>2. IsLimit(integrations[l])
  BY <1>1 DEF IsLimit, LimitFields, Integrations
<1>. QED  BY <1>1, <1>2

LEMMA BucketRests ==
  ASSUME LendingInv, NEW l \in Kinds, clock' = clock,
         net'[l] = net[l], integrations'[l].max = integrations[l].max,
         integrations'[l].slope = integrations[l].slope,
         LevelAt(integrations'[l], clock') = LevelAt(integrations[l], clock)
  PROVE  BucketStep(l)
<1>1. clock'.ts - clock.ts = 0
  BY IntegrationIsLimit DEF Clocks
<1>2. Bucket(l)!Elapse(clock'.ts - clock.ts)
  BY <1>1 DEF Bucket!Elapse
<1>. QED  BY <1>2 DEF BucketStep

\* When the account of one kind is saved with another level, its bucket has
\* moved and the other one rests.
LEMMA BucketMoves ==
  ASSUME LendingInv, NEW k \in Kinds, NEW p, NEW q,
         integrations' = [integrations EXCEPT ![k] = q], clock' = clock,
         SameLimit(p, q), p.ts = clock.ts,
         p.max = integrations[k].max, p.slope = integrations[k].slope,
         NEW out \in Nat, NEW back \in Nat, out = 0 \/ back = 0,
         net' = [net EXCEPT ![k] = @ + out - back],
         MovedTo(LevelAt(integrations[k], clock), integrations[k].max, 0, 0,
                 out, back, Level(p)),
         NEW l \in Kinds
  PROVE  BucketStep(l)
<1>1. /\ integrations \in [Kinds -> Integrations] /\ net \in [Kinds -> Int]
      /\ net[k] \in Int
  BY DEF LendingInv, LendingTypeOK
<1>2. CASE l = k
  <2>1. integrations'[l] = q /\ net'[l] = net[l] + out - back
    BY <1>1, <1>2
  <2>2. Level(q) = Level(p) /\ q.ts = clock'.ts
    BY SameLevel DEF SameLimit
  <2>3. LevelAt(q, clock') = Level(p)
    BY <2>2, LevelWhenFresh
  <2>4. q.max = integrations[k].max /\ q.slope = integrations[k].slope
    BY DEF SameLimit
  <2>5. Bucket(l)!Move(0, 0, out, back)
    BY <1>2, <2>1, <2>3, <2>4
       DEF Bucket!Move, Bucket!Fill, Bucket!Drain, Bucket!Units, Bucket!Fraction,
           Bucket!Lower, MovedTo, Filled, Drained, Least
  <2>6. SatSub(net'[l], net[l]) = out /\ SatSub(net[l], net'[l]) = back
    BY <1>1, <1>2, <2>1 DEF SatSub
  <2>7. CASE out = back
    <3>1. Level(p) = LevelAt(integrations[k], clock)
      <4>1. out = 0 /\ back = 0
        BY <2>7
      <4>. QED  BY <4>1, IntegrationIsLimit, LevelAtFacts, RestsWhenNothingMoves
    <3>2. net'[l] = net[l]
      BY <1>1, <1>2, <2>1, <2>7
    <3>. QED  BY <1>2, <2>1, <2>3, <2>4, <3>1, <3>2, BucketRests
  <2>8. CASE out # back
    BY <2>5, <2>6, <2>8 DEF BucketStep
  <2>. QED  BY <2>7, <2>8
<1>3. CASE l # k
  <2>1. integrations'[l] = integrations[l] /\ net'[l] = net[l]
    BY <1>1, <1>3
  <2>. QED  BY <2>1, BucketRests
<1>. QED  BY <1>2, <1>3

\* The refreshed account, before anything is paid.
LEMMA RefreshedBucket ==
  ASSUME LendingInv, NEW k \in Kinds
  PROVE  LET f == RefreshedIntegration(k)
         IN  /\ f \in Integrations /\ IsLimit(f)
             /\ f.max = integrations[k].max /\ f.slope = integrations[k].slope
             /\ f.ts = clock.ts
             /\ Level(f) = Drained(Filled(LevelAt(integrations[k], clock),
                                          integrations[k].max, 0), 0)
<1> DEFINE f == RefreshedIntegration(k)
<1>1. f \in Integrations
  <2>1. Fits(k, integrations[k], markets[k], ledger[k], net[k], moves[k], clock)
    BY DEF LendingInv
  <2>2. net[k] \in Int
    BY DEF LendingInv, LendingTypeOK
  <2>. QED  BY <2>1, <2>2, IntegrationIsLimit, RefreshBounded
           DEF Fits, RefreshedIntegration
<1>2. /\ IsLimit(f) /\ f.max = integrations[k].max /\ f.slope = integrations[k].slope
      /\ f.ts = clock.ts
      /\ Level(f) = Drained(Filled(LevelAt(integrations[k], clock),
                                   integrations[k].max, 0), 0)
  BY IntegrationIsLimit, RefreshedLevel DEF RefreshedIntegration
<1>. QED  BY <1>1, <1>2

\* A Push drains the bucket by what left the vault.
LEMMA BucketsPush ==
  ASSUME LendingInv, NEW k \in Kinds, NEW taken \in Nat, NEW worth,
         SavePush(k, taken, worth), clock' = clock, NEW l \in Kinds
  PROVE  BucketStep(l)
<1> DEFINE f == RefreshedIntegration(k)
           p == DebitRateLimit(f, taken)
           q == [p EXCEPT !.balance = worth]
<1>1. net' = [net EXCEPT ![k] = @ + taken - 0]
  <2>1. net[k] + taken - 0 = net[k] + taken
    BY DEF LendingInv, LendingTypeOK
  <2>. QED  BY <2>1 DEF SavePush
<1>2. /\ f \in Integrations /\ IsLimit(f)
      /\ f.max = integrations[k].max /\ f.slope = integrations[k].slope
      /\ f.ts = clock.ts
      /\ Level(f) = Drained(Filled(LevelAt(integrations[k], clock),
                                   integrations[k].max, 0), 0)
  BY RefreshedBucket
<1>3. WithinRateLimit(f, taken) /\ integrations' = [integrations EXCEPT ![k] = q]
  BY DEF SavePush
<1> HIDE DEF f
<1>4. MovedTo(LevelAt(integrations[k], clock), integrations[k].max, 0, 0, taken, 0,
              Level(p))
  BY <1>2, <1>3, PaymentMoves
<1>5. p.max = f.max /\ p.slope = f.slope /\ p.ts = f.ts
  BY <1>2, LevelOfDebit
<1>6. SameLimit(p, q)
  BY <1>2 DEF SameLimit, DebitRateLimit, Integrations
<1> HIDE DEF p, q
<1>. QED  BY <1>1, <1>2, <1>3, <1>4, <1>5, <1>6, BucketMoves

\* A Pull or a harvest refills it by what reached the vault.
LEMMA BucketsReceive ==
  ASSUME LendingInv, NEW k \in Kinds, NEW paid \in Nat, NEW worth, clock' = clock,
         net' = [net EXCEPT ![k] = @ - paid],
         integrations' = [integrations EXCEPT ![k] =
           [CreditRateLimit(RefreshedIntegration(k), paid)
              EXCEPT !.balance = worth]],
         NEW l \in Kinds
  PROVE  BucketStep(l)
<1> DEFINE f == RefreshedIntegration(k)
           p == CreditRateLimit(f, paid)
           q == [p EXCEPT !.balance = worth]
<1>1. net' = [net EXCEPT ![k] = @ + 0 - paid]
  <2>1. net[k] + 0 - paid = net[k] - paid
    BY DEF LendingInv, LendingTypeOK
  <2>. QED  BY <2>1
<1>2. /\ f \in Integrations /\ IsLimit(f)
      /\ f.max = integrations[k].max /\ f.slope = integrations[k].slope
      /\ f.ts = clock.ts
      /\ Level(f) = Drained(Filled(LevelAt(integrations[k], clock),
                                   integrations[k].max, 0), 0)
  BY RefreshedBucket
<1>3. integrations' = [integrations EXCEPT ![k] = q]
  OBVIOUS
<1> HIDE DEF f
<1>4. MovedTo(LevelAt(integrations[k], clock), integrations[k].max, 0, 0, 0, paid,
              Level(p))
  BY <1>2, ReceiptMoves
<1>5. p.max = f.max /\ p.slope = f.slope /\ p.ts = f.ts
  BY <1>2, LevelOfCredit
<1>6. SameLimit(p, q)
  BY <1>2 DEF SameLimit, CreditRateLimit, Integrations
<1> HIDE DEF p, q
<1>. QED  BY <1>1, <1>2, <1>3, <1>4, <1>5, <1>6, BucketMoves

\* A refresh alone, saved with another status or balance, moves nothing.
LEMMA BucketsRefresh ==
  ASSUME LendingInv, NEW k \in Kinds, NEW q,
         integrations' = [integrations EXCEPT ![k] = q], clock' = clock, net' = net,
         SameLimit(RefreshedIntegration(k), q), NEW l \in Kinds
  PROVE  BucketStep(l)
<1> DEFINE f == RefreshedIntegration(k)
<1>1. net' = [net EXCEPT ![k] = @ + 0 - 0]
  BY DEF LendingInv, LendingTypeOK
<1>2. /\ IsLimit(f)
      /\ f.max = integrations[k].max /\ f.slope = integrations[k].slope
      /\ f.ts = clock.ts
      /\ Level(f) = Drained(Filled(LevelAt(integrations[k], clock),
                                   integrations[k].max, 0), 0)
  BY RefreshedBucket
<1>3. SameLimit(f, q)
  OBVIOUS
<1> HIDE DEF f
<1>4. MovedTo(LevelAt(integrations[k], clock), integrations[k].max, 0, 0, 0, 0,
              Level(f))
  BY <1>2, NothingPaid
<1>. QED  BY <1>1, <1>2, <1>3, <1>4, BucketMoves

LEMMA BucketsNextBlock ==
  ASSUME LendingInv, NextBlock, NEW l \in Kinds
  PROVE  BucketStep(l)
<1>1. integrations' = integrations /\ clock'.ts = clock.ts + 1 /\ net' = net
  BY DEF NextBlock
<1>2. clock'.ts - clock.ts = 1
  BY <1>1, IntegrationIsLimit DEF Clocks
<1>3. LevelAt(integrations[l], clock') =
        IF integrations[l].max = U64Max \/ 1 = 0 THEN LevelAt(integrations[l], clock)
        ELSE Least(LevelAt(integrations[l], clock) + integrations[l].slope * 1,
                   SecondsPerDay * integrations[l].max)
  BY <1>1, IntegrationIsLimit, LevelOfTime
<1>4. Bucket(l)!Elapse(clock'.ts - clock.ts)
  BY <1>1, <1>2, <1>3 DEF Bucket!Elapse, Bucket!Lower, Bucket!Units, Least
<1>. QED  BY <1>1, <1>4 DEF BucketStep

\* What a Pull pays.
LEMMA KaminoPays ==
  ASSUME LendingInv, "Kamino" \in Kinds, NEW amount \in Amounts,
         NEW open \in BOOLEAN, PullKamino(amount, open)
  PROVE  \E paid \in Nat, worth \in U64 : SavePull("Kamino", paid, worth)
<1> DEFINE before == markets["Kamino"]
           shares == Least(Shares(before, amount), before.shares)
           part == [before EXCEPT !.shares = shares]
           paid == KaminoBalance(part)
           worth == KaminoBalance(KlendWithdraw(before, shares, open))
<1>1. SavePull("Kamino", paid, worth) /\ worth \in U64
  BY DEF PullKamino, SavePull
<1>2. /\ before \in Markets /\ before.shares \in Nat /\ before.index \in Nat \ {0}
      /\ Unit["Kamino"] \in Nat \ {0}
  BY KaminoFacts
<1>3. shares \in Nat
  <2>1. amount \in Nat /\ amount * Unit["Kamino"] \in Nat
    BY <1>2, KindsFacts, TimesNat DEF LendingInv
  <2>2. Shares(before, amount) \in Nat
    BY <1>2, <2>1, DivMod DEF Shares
  <2>. QED  BY <1>2, <2>2 DEF Least
<1> HIDE DEF before, shares, worth
<1>4. part.shares \in Nat /\ part.index \in Nat
  BY <1>2, <1>3 DEF Markets
<1> HIDE DEF part
<1>5. paid \in Nat
  BY <1>2, <1>4, WorthNat DEF KaminoBalance
<1> HIDE DEF paid
<1>. QED  BY <1>1, <1>5

LEMMA DriftPays ==
  ASSUME LendingInv, "Drift" \in Kinds, NEW amount \in Amounts, PullDrift(amount)
  PROVE  \E paid \in Nat, worth \in U64 : SavePull("Drift", paid, worth)
<1> DEFINE m == UpdatedMarket
           paid == Least(amount, DriftBalance(m))
           after == [m EXCEPT !.shares =
                       SatSub(@, CeilDiv(paid * Unit["Drift"], m.index))]
           worth == DriftBalance(after)
<1>1. SavePull("Drift", paid, worth) /\ worth \in U64
  BY DEF PullDrift, SavePull
<1>2. amount \in Nat /\ DriftBalance(m) \in U64
  BY KindsFacts DEF LendingInv, PullDrift
<1> HIDE DEF worth
<1>3. paid \in Nat
  BY <1>2 DEF Least, U64
<1> HIDE DEF paid
<1>. QED  BY <1>1, <1>3

LEMMA BucketsPull ==
  ASSUME LendingInv, NEW k \in Kinds, Handler(k),
         \E paid \in Nat, worth \in U64 : SavePull(k, paid, worth),
         NEW l \in Kinds
  PROVE  BucketStep(l)
<1>1. PICK paid \in Nat, worth \in U64 : SavePull(k, paid, worth)
  OBVIOUS
<1>2. /\ net' = [net EXCEPT ![k] = @ - paid] /\ clock' = clock
      /\ integrations' = [integrations EXCEPT ![k] =
           [CreditRateLimit(RefreshedIntegration(k), paid)
              EXCEPT !.balance = worth]]
  BY <1>1 DEF SavePull, Handler
<1>. QED  BY <1>2, BucketsReceive

LEMMA BucketsNext ==
  ASSUME LendingInv, [Next]_vars, NEW l \in Kinds
  PROVE  BucketStep(l)
<1>1. CASE UNCHANGED <<integrations, net, clock>>
  BY <1>1, BucketRests
<1>2. ASSUME "Kamino" \in Kinds, NEW amount \in Amounts, NEW taken \in 1 .. amount,
             PushKamino(amount, taken)
      PROVE  BucketStep(l)
  <2>1. amount \in Nat
    BY KindsFacts DEF LendingInv
  <2>2. taken \in Nat
    BY <2>1
  <2>3. clock' = clock /\ \E worth : SavePush("Kamino", taken, worth)
    BY <1>2 DEF PushKamino, Handler
  <2>. QED  BY <1>2, <2>2, <2>3, BucketsPush
<1>3. ASSUME "Drift" \in Kinds, NEW amount \in Amounts, PushDrift(amount)
      PROVE  BucketStep(l)
  <2>1. amount \in Nat
    BY KindsFacts DEF LendingInv
  <2>2. clock' = clock /\ \E worth : SavePush("Drift", amount, worth)
    BY <1>3 DEF PushDrift, Handler
  <2>. QED  BY <1>3, <2>1, <2>2, BucketsPush
<1>4. ASSUME "Kamino" \in Kinds, NEW amount \in Amounts, NEW open \in BOOLEAN,
             PullKamino(amount, open)
      PROVE  BucketStep(l)
  <2>1. Handler("Kamino")
    BY <1>4 DEF PullKamino
  <2>. QED  BY <1>4, <2>1, KaminoPays, BucketsPull
<1>5. ASSUME "Drift" \in Kinds, NEW amount \in Amounts, PullDrift(amount)
      PROVE  BucketStep(l)
  <2>1. Handler("Drift")
    BY <1>5 DEF PullDrift
  <2>. QED  BY <1>5, <2>1, DriftPays, BucketsPull
<1>6. ASSUME "Kamino" \in Kinds, NEW reward \in Rewards \cup {0}, SyncKamino(reward)
      PROVE  BucketStep(l)
  <2> DEFINE worth == KaminoBalance(markets["Kamino"])
  <2>1. /\ reward \in Nat /\ clock' = clock
        /\ net' = [net EXCEPT !["Kamino"] = @ - reward]
        /\ integrations' = [integrations EXCEPT !["Kamino"] =
             [CreditRateLimit(RefreshedIntegration("Kamino"), reward)
                EXCEPT !.balance = worth]]
    BY <1>6 DEF SyncKamino, Harvest
  <2> HIDE DEF worth
  <2>. QED  BY <1>6, <2>1, BucketsReceive
<1>7. ASSUME "Drift" \in Kinds, SyncDrift
      PROVE  BucketStep(l)
  <2> DEFINE f == RefreshedIntegration("Drift")
             q == [f EXCEPT !.balance = DriftBalance(UpdatedMarket)]
  <2>1. integrations' = [integrations EXCEPT !["Drift"] = q] /\ clock' = clock
        /\ net' = net
    BY <1>7 DEF SyncDrift
  <2>2. f \in Integrations
    BY <1>7, RefreshedBucket
  <2> HIDE DEF f
  <2>3. SameLimit(f, q)
    BY <2>2 DEF SameLimit, Integrations
  <2> HIDE DEF q
  <2>. QED  BY <1>7, <2>1, <2>3, BucketsRefresh DEF f
<1>8. ASSUME NEW k \in Kinds, NEW status \in IntegrationStatus,
             ManageIntegration(k, status)
      PROVE  BucketStep(l)
  <2> DEFINE f == RefreshedIntegration(k)
             q == [f EXCEPT !.status = status]
  <2>1. integrations' = [integrations EXCEPT ![k] = q] /\ clock' = clock
        /\ net' = net
    BY <1>8 DEF ManageIntegration
  <2>2. f \in Integrations
    BY <1>8, RefreshedBucket
  <2> HIDE DEF f
  <2>3. SameLimit(f, q)
    BY <2>2 DEF SameLimit, Integrations
  <2> HIDE DEF q
  <2>. QED  BY <1>8, <2>1, <2>3, BucketsRefresh DEF f
<1>9. CASE NextBlock
  BY <1>9, BucketsNextBlock
<1>10. \/ RefreshKlend
       \/ \E status \in ReserveStatus : ManageReserve(status)
       \/ \E amount \in Amounts : ForeignTransfer(amount)
       \/ UNCHANGED vars
       => UNCHANGED <<integrations, net, clock>>
  BY DEF RefreshKlend, ManageReserve, ForeignTransfer, vars
<1>11. \/ Kamino \/ Drift \/ SyncIntegration => BucketStep(l)
  <2>1. Kamino => BucketStep(l)
    BY <1>1, <1>2, <1>4, <1>10 DEF Kamino
  <2>2. Drift => BucketStep(l)
    BY <1>3, <1>5 DEF Drift
  <2>3. SyncIntegration => BucketStep(l)
    BY <1>6, <1>7 DEF SyncIntegration
  <2>. QED  BY <2>1, <2>2, <2>3
<1>. QED  BY <1>1, <1>8, <1>9, <1>10, <1>11 DEF Next

LEMMA BucketsInit ==
  ASSUME Init, NEW l \in Kinds
  PROVE  Bucket(l)!BucketInit
<1>1. PICK kinds \in DOMAIN Bounds, slope \in Slopes, max \in MaxOuts :
        integrations = [kind \in kinds |-> InitIntegration(slope, max)]
  BY DEF Init
<1>2. integrations[l] = InitIntegration(slope, max)
  BY <1>1 DEF Kinds
<1>3. /\ integrations[l].max \in U64 /\ integrations[l].slope \in U64
      /\ integrations[l].avail = integrations[l].max /\ integrations[l].rem = 0
      /\ integrations[l].ts = clock.ts
  BY <1>2 DEF InitIntegration
<1>4. SecondsPerDay * integrations[l].max \in Nat
  BY <1>3, DayTimes DEF U64
<1>5. LevelAt(integrations[l], clock) = SecondsPerDay * integrations[l].max
  BY <1>3, <1>4, LevelWhenFresh DEF Level
<1>. QED  BY <1>3, <1>5 DEF Bucket!BucketInit, Bucket!Units

\* The limit of each position is an exact token bucket of the tokens that
\* went out of the vault and came back, whatever the protocol made of them.
THEOREM LendingImplementsBuckets == Spec => LimitsAreBuckets
<1>1. Init => \A kind \in Kinds : Bucket(kind)!BucketInit
  BY BucketsInit
<1>2. LendingInv /\ [Next]_vars => [\A kind \in Kinds : BucketStep(kind)]_vars
  BY BucketsNext
<1>. QED  BY <1>1, <1>2, LendingInvariant, PTL DEF LimitsAreBuckets, Spec

-----------------------------------------------------------------------------
\* The same integrations before and after a step.
LEMMA KindsKept ==
  ASSUME [Next]_vars
  PROVE  Kinds' = Kinds
<1>1. \/ integrations' = integrations
      \/ \E k \in {"Kamino", "Drift"} \cup Kinds : \E q :
           integrations' = [integrations EXCEPT ![k] = q]
  BY DEF Next, Kamino, Drift, SyncIntegration, PushKamino, PullKamino, SavePush,
         SavePull, PushDrift, PullDrift, SyncKamino, SyncDrift, RefreshKlend,
         ManageReserve, ManageIntegration, ForeignTransfer, NextBlock, vars
<1>. QED  BY <1>1 DEF Kinds

Numbers(kind) ==
  /\ net[kind] \in Int /\ clock.ts \in Int
  /\ integrations[kind].max \in Nat /\ integrations[kind].slope \in Nat
  /\ LevelAt(integrations[kind], clock) \in Nat
  /\ LevelAt(integrations[kind], clock)
       <= SecondsPerDay * integrations[kind].max
            + (LevelAt(integrations[kind], clock) % SecondsPerDay)

LEMMA NumbersOf ==
  ASSUME LendingInv, NEW l \in Kinds
  PROVE  Numbers(l)
<1>1. /\ integrations[l] \in Integrations /\ IsLimit(integrations[l])
      /\ integrations[l].ts <= clock.ts /\ clock \in Clocks
  BY IntegrationIsLimit
<1>2. net[l] \in Int
  BY DEF LendingInv, LendingTypeOK
<1>3. clock.ts \in Int /\ integrations[l].slope \in Nat
  BY <1>1 DEF Clocks, IsLimit, U64
<1>. QED  BY <1>1, <1>2, <1>3, LevelAtFacts DEF Numbers

AllNumbers == \A kind \in Kinds : Numbers(kind)

LEMMA NumbersNext == LendingInv' => AllNumbers'
<1>1. LendingInv => AllNumbers
  BY NumbersOf DEF AllNumbers
<1>. QED  BY <1>1, PTL

LEMMA ClockKept ==
  ASSUME LendingInv, [Next]_vars
  PROVE  clock.ts <= clock'.ts
<1>1. clock.ts \in Int
  BY DEF LendingInv, Clocks
<1>2. Kamino \/ Drift => clock' = clock
  BY DEF Kamino, Drift, PushKamino, PullKamino, PushDrift, PullDrift, Handler,
         RefreshKlend
<1>3. SyncIntegration => clock' = clock
  BY DEF SyncIntegration, SyncKamino, SyncDrift
<1>4. NextBlock => clock'.ts = clock.ts + 1
  BY DEF NextBlock
<1>5. \/ \E status \in ReserveStatus : ManageReserve(status)
      \/ \E kind \in Kinds, status \in IntegrationStatus :
           ManageIntegration(kind, status)
      \/ \E amount \in Amounts : ForeignTransfer(amount)
      \/ UNCHANGED vars
      => clock' = clock
  BY DEF ManageReserve, ManageIntegration, ForeignTransfer, vars
<1>6. clock' = clock \/ clock'.ts = clock.ts + 1
  BY <1>2, <1>3, <1>4, <1>5 DEF Next
<1>. QED  BY <1>1, <1>6

\* A step lets out no more than the bucket held and earned.
LEMMA NetStep ==
  ASSUME NEW l, Numbers(l), Numbers(l)', BucketStep(l), clock.ts <= clock'.ts
  PROVE  /\ integrations'[l].max = integrations[l].max
         /\ integrations'[l].slope = integrations[l].slope
         /\ SecondsPerDay * (net'[l] - net[l]) + LevelAt(integrations[l], clock)'
              <= LevelAt(integrations[l], clock)
                   + integrations[l].slope * (clock'.ts - clock.ts)
<1> DEFINE level == LevelAt(integrations[l], clock)
           next  == LevelAt(integrations[l], clock)'
           max   == integrations[l].max
           e     == integrations[l].slope * (clock'.ts - clock.ts)
           n     == net'[l] - net[l]
           out   == SatSub(net'[l], net[l])
           back  == SatSub(net[l], net'[l])
<1>1. /\ level \in Nat /\ max \in Nat /\ next \in Nat
      /\ net[l] \in Int /\ net'[l] \in Int
      /\ integrations[l].slope \in Nat /\ clock'.ts - clock.ts \in Nat
  BY DEF Numbers
<1>2. e \in Nat /\ n \in Int
  BY <1>1
<1>3. out \in Nat /\ back \in Nat /\ n = out - back
  BY <1>1 DEF SatSub
<1>4. CASE out = back
  <2>1. Bucket(l)!Elapse(clock'.ts - clock.ts)
    BY <1>4 DEF BucketStep
  <2>2. /\ integrations'[l].max = max
        /\ integrations'[l].slope = integrations[l].slope
        /\ next = level \/ next = Least(level + e, SecondsPerDay * max)
    BY <2>1 DEF Bucket!Elapse, Bucket!Units, Bucket!Lower, Least
  <2>3. SecondsPerDay * max \in Nat /\ SecondsPerDay * n = 0
    BY <1>1, <1>3, <1>4, DayTimes
  <2> HIDE DEF level, next, max, e, n
  <2>4. next <= level + e
    BY <1>1, <1>2, <2>2, <2>3 DEF Least
  <2>5. SecondsPerDay * n + next <= level + e
    BY <1>1, <1>2, <2>3, <2>4
  <2>. QED  BY <2>2, <2>5 DEF level, next, max, e, n
<1>5. CASE out # back
  <2>1. Bucket(l)!Move(0, 0, out, back)
    BY <1>5 DEF BucketStep
  <2>2. /\ integrations'[l].max = max
        /\ integrations'[l].slope = integrations[l].slope
        /\ MovedTo(level, max, 0, 0, out, back, next)
    BY <2>1 DEF Bucket!Move, Bucket!Fill, Bucket!Drain, Bucket!Units,
                Bucket!Fraction, Bucket!Lower, MovedTo, Filled, Drained, Least
  <2> HIDE DEF level, next, max, e, n, out, back
  <2>3. next + SecondsPerDay * out
          <= level + SecondsPerDay * 0 + SecondsPerDay * back
    BY <1>1, <1>3, <2>2, MovedAtMost
  <2>4. /\ SecondsPerDay * out \in Int /\ SecondsPerDay * back \in Int
        /\ SecondsPerDay * n = SecondsPerDay * out - SecondsPerDay * back
        /\ SecondsPerDay * 0 = 0
    <3>1. out \in Int /\ back \in Int
      BY <1>3
    <3>. QED  BY <1>3, <3>1, DayMult
  <2>5. SecondsPerDay * n + next <= level + e
    BY <1>1, <1>2, <2>3, <2>4
  <2>. QED  BY <2>2, <2>5 DEF level, next, max, e, n
<1>. QED  BY <1>4, <1>5

\* The terms of a limit, and what it may still let out, after out was out at
\* the time ts.
Within(kind, out, ts, cap, slope) ==
  /\ kind \in Kinds
  /\ integrations[kind].max = cap /\ integrations[kind].slope = slope
  /\ SecondsPerDay * (net[kind] - out) + LevelAt(integrations[kind], clock)
       < SecondsPerDay * (cap + 1) + slope * (clock.ts - ts)

LEMMA WithinStart ==
  ASSUME LendingInv, NEW l \in Kinds
  PROVE  Within(l, net[l], clock.ts, integrations[l].max, integrations[l].slope)
<1> DEFINE level == LevelAt(integrations[l], clock)
           max   == integrations[l].max
<1>1. /\ net[l] \in Int /\ clock.ts \in Int /\ max \in Nat /\ level \in Nat
      /\ integrations[l].slope \in Nat
      /\ level <= SecondsPerDay * max + (level % SecondsPerDay)
  BY NumbersOf DEF Numbers
<1>2. net[l] - net[l] = 0 /\ integrations[l].slope * (clock.ts - clock.ts) = 0
  BY <1>1
<1> HIDE DEF level, max
<1>3. level % SecondsPerDay \in Int /\ level % SecondsPerDay < SecondsPerDay
  BY <1>1
<1>4. /\ SecondsPerDay * max \in Nat /\ SecondsPerDay * 0 = 0
      /\ SecondsPerDay * (max + 1) = SecondsPerDay * max + SecondsPerDay * 1
      /\ SecondsPerDay * 1 = SecondsPerDay
  BY <1>1, DayTimes, DayMult
<1>5. SecondsPerDay * 0 + level < SecondsPerDay * (max + 1) + 0
  BY <1>1, <1>3, <1>4
<1>. QED  BY <1>2, <1>5 DEF Within, level, max

LEMMA WithinStep ==
  ASSUME LendingInv, LendingInv', [Next]_vars, NEW l, NEW out \in Int,
         NEW ts \in Int, NEW cap \in Nat, NEW slope \in Nat,
         Within(l, out, ts, cap, slope)
  PROVE  Within(l, out, ts, cap, slope)'
<1> DEFINE level == LevelAt(integrations[l], clock)
           next  == LevelAt(integrations[l], clock)'
           bound == SecondsPerDay * (cap + 1)
<1>1. /\ l \in Kinds /\ l \in Kinds'
      /\ integrations[l].max = cap /\ integrations[l].slope = slope
  BY KindsKept DEF Within
<1>2. Numbers(l) /\ Numbers(l)'
  <2>1. AllNumbers'
    BY NumbersNext
  <2>. QED  BY <1>1, <2>1, NumbersOf DEF AllNumbers
<1>3. /\ integrations'[l].max = cap /\ integrations'[l].slope = slope
      /\ SecondsPerDay * (net'[l] - net[l]) + next
           <= level + slope * (clock'.ts - clock.ts)
  BY <1>1, <1>2, BucketsNext, ClockKept, NetStep
<1>4. /\ net[l] \in Int /\ net'[l] \in Int /\ clock.ts \in Int /\ clock'.ts \in Int
      /\ level \in Nat /\ next \in Nat
  BY <1>2 DEF Numbers
<1>5. SecondsPerDay * (net[l] - out) + level < bound + slope * (clock.ts - ts)
  BY DEF Within
<1>6. bound \in Int
  BY DayMult
<1>7. /\ SecondsPerDay * (net[l] - out) \in Int
      /\ SecondsPerDay * (net'[l] - net[l]) \in Int
      /\ SecondsPerDay * (net'[l] - out) =
           SecondsPerDay * (net[l] - out) + SecondsPerDay * (net'[l] - net[l])
  <2>1. /\ net[l] - out \in Int /\ net'[l] - net[l] \in Int
        /\ net'[l] - out = (net[l] - out) + (net'[l] - net[l])
    BY <1>4
  <2>. QED  BY <2>1, DayMult
<1>8. /\ slope * (clock.ts - ts) \in Int /\ slope * (clock'.ts - clock.ts) \in Int
      /\ slope * (clock'.ts - ts) =
           slope * (clock.ts - ts) + slope * (clock'.ts - clock.ts)
  BY <1>4
<1> HIDE DEF level, next, bound
<1>9. SecondsPerDay * (net'[l] - out) + next < bound + slope * (clock'.ts - ts)
  BY <1>3, <1>4, <1>5, <1>6, <1>7, <1>8
<1>. QED  BY <1>1, <1>3, <1>9 DEF Within, next, bound

\* From any moment on, the tokens that go out to a protocol, less those that come
\* back, stay less than a token above the cap of the integration and what its
\* slope has added since, whatever went out, was earned or came back before.
THEOREM LendingWindowBounded ==
  ASSUME NEW kind, NEW out \in Int, NEW ts \in Int, NEW cap \in Nat,
         NEW slope \in Nat
  PROVE  Spec =>
           [](kind \in Kinds /\ net[kind] = out /\ clock.ts = ts
                /\ integrations[kind].max = cap /\ integrations[kind].slope = slope
                => [](SecondsPerDay * (net[kind] - out)
                        < SecondsPerDay * (cap + 1) + slope * (clock.ts - ts)))
<1> DEFINE Now  == kind \in Kinds /\ net[kind] = out /\ clock.ts = ts
                     /\ integrations[kind].max = cap
                     /\ integrations[kind].slope = slope
           Then == SecondsPerDay * (net[kind] - out)
                     < SecondsPerDay * (cap + 1) + slope * (clock.ts - ts)
<1>1. LendingInv /\ Now => Within(kind, out, ts, cap, slope)
  BY WithinStart
<1>2. LendingInv /\ LendingInv' /\ Within(kind, out, ts, cap, slope) /\ [Next]_vars
        => Within(kind, out, ts, cap, slope)'
  BY WithinStep
<1>3. LendingInv /\ Within(kind, out, ts, cap, slope) => Then
  <2>1. SUFFICES ASSUME LendingInv, Within(kind, out, ts, cap, slope) PROVE Then
    OBVIOUS
  <2>2. /\ net[kind] \in Int /\ clock.ts \in Int
        /\ LevelAt(integrations[kind], clock) \in Nat
    BY <2>1, NumbersOf DEF Within, Numbers
  <2>3. /\ SecondsPerDay * (net[kind] - out) \in Int
        /\ SecondsPerDay * (cap + 1) \in Int /\ slope * (clock.ts - ts) \in Int
    BY <2>2, DayMult
  <2>. QED  BY <2>1, <2>2, <2>3 DEF Within
<1> HIDE DEF Now, Then
<1>4. Spec => [](Now => []Then)
  BY <1>1, <1>2, <1>3, LendingInvariant, PTL DEF Spec
<1>. QED  BY <1>4 DEF Now, Then

-----------------------------------------------------------------------------
(***************************************************************************)
(* The reserve of this module is the component that module Reserve         *)
(* specifies.  The two modules share ReserveState, so that each operator   *)
(* of the component has the same definition here, one instance away.       *)
(***************************************************************************)
LEMMA ComponentFlows ==
  /\ \A r, c : Component!RefreshRateLimit(r, c) = RefreshRateLimit(r, c)
  /\ \A r, n : Component!UpdateForOutflow(r, n) = UpdateForOutflow(r, n)
  /\ \A r, n : Component!UpdateForInflow(r, n) = UpdateForInflow(r, n)
<1>1. \A r, c : Component!RefreshRateLimit(r, c) = RefreshRateLimit(r, c)
  BY DEF Component!RefreshRateLimit, RefreshRateLimit, Component!Accrues, Accrues,
         Component!Increment, Increment, Component!Remainder, Remainder,
         Component!Accrued, Accrued, Component!SatAdd, SatAdd,
         Component!Least, Least
<1>2. \A r, n : Component!UpdateForOutflow(r, n) = UpdateForOutflow(r, n)
  BY DEF Component!UpdateForOutflow, UpdateForOutflow, Component!DebitRateLimit,
         DebitRateLimit, Component!SatSub, SatSub
<1>3. \A r, n : Component!UpdateForInflow(r, n) = UpdateForInflow(r, n)
  BY DEF Component!UpdateForInflow, UpdateForInflow, Component!CreditRateLimit,
         CreditRateLimit, Component!SatAdd, SatAdd, Component!Least, Least
<1>. QED  BY <1>1, <1>2, <1>3

LEMMA ComponentOperators ==
  /\ \A r, v, c : Component!SyncBalance(r, v, c) = SyncBalance(r, v, c)
  /\ \A r, v : Component!SyncEvent(r, v) = SyncEvent(r, v)
  /\ \A r, n : Component!WithinRateLimit(r, n) <=> WithinRateLimit(r, n)
  /\ \A r, status, c : Component!UpdateReserve(r, status, {}, {}, c)
                         = UpdateReserve(r, status, {}, {}, c)
<1>1. \A r, v, c : Component!SyncBalance(r, v, c) = SyncBalance(r, v, c)
  BY ComponentFlows DEF Component!SyncBalance, SyncBalance
<1>2. \A r, status, c : Component!UpdateReserve(r, status, {}, {}, c)
                          = UpdateReserve(r, status, {}, {}, c)
  <2>1. \A o, d : Component!OrElse(o, d) = OrElse(o, d)
    BY DEF Component!OrElse, OrElse
  <2>. QED  BY <2>1, ComponentFlows DEF Component!UpdateReserve, UpdateReserve
<1>. QED
  BY <1>1, <1>2 DEF Component!SyncEvent, SyncEvent, Component!WithinRateLimit,
                    WithinRateLimit

\* Nothing received, nothing booked.
LEMMA NoInflow ==
  ASSUME NEW r \in Reserves, r.avail <= r.max
  PROVE  UpdateForInflow(r, 0) = r
<1>1. r.avail \in U64 /\ r.max \in U64 /\ r.lastBalance \in U64
  BY DEF Reserves
<1>2. Least(r.max, SatAdd(r.avail, 0)) = r.avail /\ r.lastBalance + 0 = r.lastBalance
  BY <1>1 DEF Least, SatAdd, U64
<1>3. UpdateForInflow(r, 0) = [r EXCEPT !.avail = r.avail, !.lastBalance = r.lastBalance]
  BY <1>2 DEF UpdateForInflow, CreditRateLimit, Reserves
<1>. QED  BY <1>3 DEF Reserves

\* The events for the reserve are what it recorded, before a step and after it.
LEMMA ReserveEvents ==
  ASSUME LendingInv, LendingInv', NEW flow \in Int
  PROVE  /\ ledger["Reserve"] + SyncEvent(reserve, vault) = vault
         /\ ledger["Reserve"] + SyncEvent(reserve, vault) + flow = vault + flow
         /\ ledger["Reserve"] + SyncEvent(reserve, vault) - flow = vault - flow
         /\ ledger'["Reserve"] = reserve'.lastBalance
<1>1. /\ ledger["Reserve"] = reserve.lastBalance /\ vault \in Int
      /\ reserve.lastBalance \in Int /\ ledger'["Reserve"] = reserve'.lastBalance
  BY DEF LendingInv, LendingTypeOK, ReserveFits, Reserves, U64
<1>. QED  BY <1>1 DEF SyncEvent

-----------------------------------------------------------------------------
\* What a protocol takes of the vault is a Push of the reserve.
LEMMA ComponentPays ==
  ASSUME LendingInv, LendingInv', NEW k, NEW worth, NEW taken \in Nat \ {0},
         taken <= vault, Handler(k), SavePush(k, taken, worth)
  PROVE  Component!Next
<1>1. taken \in 1 .. Supply /\ taken \in Int
  BY DEF LendingInv, LendingTypeOK, U64
<1>2. UpdateForOutflow(SyncedReserve, taken).lastBalance = vault - taken
  BY ReserveStep
<1>3. /\ reserve.status = "Active" /\ WithinRateLimit(SyncedReserve, taken)
      /\ vault' = vault - taken
      /\ reserve' = UpdateForOutflow(SyncedReserve, taken)
      /\ clock' = clock
  BY DEF Handler, SavePush
<1>4. ledger'["Reserve"] = ledger["Reserve"] + SyncEvent(reserve, vault) - taken
  BY <1>1, <1>2, <1>3, ReserveEvents
<1>5. Component!Push(taken)
  BY <1>3, <1>4, ComponentFlows, ComponentOperators
     DEF Component!Push, Component!Synced, SyncedReserve
<1>. QED  BY <1>1, <1>5 DEF Component!Next

\* What reaches the vault is an inflow of the reserve, and nothing is a Sync.
LEMMA ComponentReceives ==
  ASSUME LendingInv, LendingInv', NEW paid \in Nat, vault + paid <= Supply,
         vault' = vault + paid, reserve' = UpdateForInflow(SyncedReserve, paid),
         clock' = clock
  PROVE  /\ paid # 0 => paid \in 1 .. Supply /\ Component!Receive(paid)
         /\ paid = 0 => Component!SyncReserve
<1>1. /\ reserve \in Reserves /\ clock \in Clocks /\ reserve.ts <= clock.ts
      /\ reserve.avail <= reserve.max /\ reserve.status # "Uninitialized"
      /\ vault \in U64 /\ vault \in Nat /\ Supply \in Nat /\ paid \in Int
  BY DEF LendingInv, LendingTypeOK, ReserveFits, U64
<1>2. UpdateForInflow(SyncedReserve, paid).lastBalance = vault + paid
  BY ReserveStep
<1>3. ledger'["Reserve"] = ledger["Reserve"] + SyncEvent(reserve, vault) + paid
  BY <1>1, <1>2, ReserveEvents
<1>4. ASSUME paid # 0
      PROVE  paid \in 1 .. Supply /\ Component!Receive(paid)
  <2>1. paid \in 1 .. Supply
    BY <1>1, <1>4
  <2>2. Component!Receive(paid)
    BY <1>3, ComponentFlows, ComponentOperators
       DEF Component!Receive, Component!Synced, SyncedReserve
  <2>. QED  BY <2>1, <2>2
<1>5. ASSUME paid = 0
      PROVE  Component!SyncReserve
  <2>1. SyncedReserve \in Reserves /\ SyncedReserve.avail <= SyncedReserve.max
    BY <1>1, SyncKeeps DEF SyncedReserve
  <2>2. reserve' = SyncedReserve /\ vault' = vault
    BY <1>1, <1>5, <2>1, NoInflow
  <2>3. ledger'["Reserve"] = ledger["Reserve"] + SyncEvent(reserve, vault)
    BY <1>1, <1>3, <1>5, ReserveEvents
  <2>. QED
    BY <1>1, <2>2, <2>3, ComponentOperators
       DEF Component!SyncReserve, Component!Initialized, Component!Synced, SyncedReserve
<1>. QED  BY <1>4, <1>5

\* A Pull, whatever the shares that were redeemed turned out to be worth.
LEMMA ComponentPull ==
  ASSUME LendingInv, LendingInv', NEW k, Handler(k),
         \E paid \in Nat, worth \in U64 : SavePull(k, paid, worth)
  PROVE  Component!Next
<1>1. PICK paid \in Nat, worth \in U64 : SavePull(k, paid, worth)
  OBVIOUS
<1>2. /\ reserve.status = "Active" /\ clock' = clock
      /\ vault + paid <= Supply /\ vault' = vault + paid
      /\ reserve' = UpdateForInflow(SyncedReserve, paid)
  BY <1>1 DEF Handler, SavePull
<1>3. /\ paid # 0 => paid \in 1 .. Supply /\ Component!Receive(paid)
      /\ paid = 0 => Component!SyncReserve
  BY <1>2, ComponentReceives
<1>. QED  BY <1>2, <1>3 DEF Component!Pull, Component!Next

\* A sync of Kamino's, with or without a harvest.
LEMMA ComponentHarvest ==
  ASSUME LendingInv, LendingInv', NEW reward \in Rewards \cup {0}, SyncKamino(reward)
  PROVE  Component!Next
<1>1. reward \in Nat
  OBVIOUS
<1>2. /\ clock' = clock /\ vault + reward <= Supply /\ vault' = vault + reward
      /\ reserve' = UpdateForInflow(SyncedReserve, reward)
  BY DEF SyncKamino, Harvest
<1>3. /\ reward # 0 => reward \in 1 .. Supply /\ Component!Receive(reward)
      /\ reward = 0 => Component!SyncReserve
  BY <1>1, <1>2, ComponentReceives
<1>4. Component!Initialized
  BY DEF LendingInv, ReserveFits, Component!Initialized
<1>. QED  BY <1>3, <1>4 DEF Component!Harvest, Component!Next

LEMMA ComponentManage ==
  ASSUME LendingInv, NEW status \in ReserveStatus, ManageReserve(status)
  PROVE  Component!Next
<1>1. {status} \in Component!Option(Component!ReserveStatus) /\ {} \in Component!Option(U64)
  BY DEF Component!Option, Component!ReserveStatus, ReserveStatus
<1>2. Component!ManageReserve({status}, {}, {})
  BY ComponentOperators
     DEF LendingInv, ReserveFits, ManageReserve, Component!ManageReserve,
         Component!Initialized
<1>. QED  BY <1>1, <1>2 DEF Component!Next

LEMMA ComponentTransfer ==
  ASSUME LendingInv, NEW amount \in Amounts, ForeignTransfer(amount)
  PROVE  Component!Next
<1>1. amount \in Nat \ {0} /\ vault \in 0 .. Supply /\ Supply \in Nat
  BY KindsFacts DEF LendingInv, LendingTypeOK, U64
<1>2. Component!Deposit(amount) \/ Component!Seize(amount)
  BY DEF ForeignTransfer, Component!Deposit, Component!Seize
<1>3. amount \in 1 .. Supply
  BY <1>1 DEF ForeignTransfer
<1>. QED  BY <1>2, <1>3 DEF Component!Next

\* Every step that changes the reserve, its vault or its events is an operation
\* of the component.
LEMMA ComponentNext ==
  ASSUME LendingInv, [Next]_vars
  PROVE  Component!Next \/ UNCHANGED <<reserve, vault, ledger["Reserve"]>>
<1>1. LendingInv'
  BY InvNext
<1>2. ASSUME "Kamino" \in Kinds, NEW amount \in Amounts, NEW taken \in 1 .. amount,
             PushKamino(amount, taken)
      PROVE  Component!Next
  <2>1. amount \in Nat /\ vault \in Nat
    BY KindsFacts DEF LendingInv, LendingTypeOK, U64
  <2>2. taken \in Nat \ {0} /\ taken <= vault
    BY <1>2, <2>1 DEF PushKamino
  <2>3. /\ Handler("Kamino")
        /\ \E worth : SavePush("Kamino", taken, worth)
    BY <1>2 DEF PushKamino
  <2>. QED  BY <1>1, <2>2, <2>3, ComponentPays
<1>3. ASSUME "Drift" \in Kinds, NEW amount \in Amounts, PushDrift(amount)
      PROVE  Component!Next
  <2>1. amount \in Nat \ {0} /\ amount <= vault
    BY <1>3, KindsFacts DEF LendingInv, PushDrift
  <2>2. /\ Handler("Drift")
        /\ \E worth : SavePush("Drift", amount, worth)
    BY <1>3 DEF PushDrift
  <2>. QED  BY <1>1, <2>1, <2>2, ComponentPays
<1>4. ASSUME "Kamino" \in Kinds, NEW amount \in Amounts, NEW open \in BOOLEAN,
             PullKamino(amount, open)
      PROVE  Component!Next
  <2>1. Handler("Kamino")
    BY <1>4 DEF PullKamino
  <2>. QED  BY <1>1, <1>4, <2>1, KaminoPays, ComponentPull
<1>5. ASSUME "Drift" \in Kinds, NEW amount \in Amounts, PullDrift(amount)
      PROVE  Component!Next
  <2>1. Handler("Drift")
    BY <1>5 DEF PullDrift
  <2>. QED  BY <1>1, <1>5, <2>1, DriftPays, ComponentPull
<1>6. ASSUME NEW reward \in Rewards \cup {0}, SyncKamino(reward)
      PROVE  Component!Next
  BY <1>1, <1>6, ComponentHarvest
<1>7. ASSUME NEW status \in ReserveStatus, ManageReserve(status)
      PROVE  Component!Next
  BY <1>7, ComponentManage
<1>8. ASSUME NEW amount \in Amounts, ForeignTransfer(amount)
      PROVE  Component!Next
  BY <1>8, ComponentTransfer
<1>9. CASE SyncDrift /\ "Drift" \in Kinds
  BY <1>9, KindsFacts DEF LendingInv, LendingTypeOK, SyncDrift
<1>10. CASE UNCHANGED <<reserve, vault, ledger>>
  BY <1>10
<1>. QED
  BY <1>2, <1>3, <1>4, <1>5, <1>6, <1>7, <1>8, <1>9, <1>10
     DEF Next, Kamino, Drift, SyncIntegration, RefreshKlend, ManageIntegration,
         NextBlock, vars

\* Whatever the protocols take and pay, and although a harvest pays into the
\* vault in the midst of a sync, the reserve is the one of module Reserve.
THEOREM LendingReserveIsComponent == Spec => ReserveIsComponent
<1>1. LendingInv /\ [Next]_vars
        => [Component!Next \/ UNCHANGED <<reserve, vault, ledger["Reserve"]>>]_vars
  BY ComponentNext
<1>. QED  BY <1>1, LendingInvariant, PTL DEF Spec, ReserveIsComponent
=============================================================================
