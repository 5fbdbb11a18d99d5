----------------------------- MODULE LendingProps -----------------------------
(***************************************************************************)
(* What the lending integrations guarantee.                                *)
(***************************************************************************)
EXTENDS Lending, LimitLevel

\* The accounts keep their types; the protocol's position too.
LendingTypeOK ==
  /\ reserve \in Reserves
  /\ vault \in 0 .. Supply
  /\ integrations \in [Kinds -> Integrations]
  /\ markets \in [Kinds -> Markets]
  /\ ledger \in [Books -> Int]
  /\ net \in [Kinds -> Int]

\* A balance is only ever recorded as what the vault holds afterwards, tokens
\* that the protocol took or paid, and rewards, included.
ReserveSettled ==
  [][reserve'.lastBalance # reserve.lastBalance
       => reserve'.lastBalance = vault']_vars

Booked(kind) == ledger[kind] = integrations[kind].balance

\* Double entry.  Deposits, withdrawals, harvests, transfers behind the
\* reserve's back: the events of the reserve add up to its balance, through
\* either integration.  The events of Kamino's add up to the balance that it
\* records, so that they track the interest whatever instruction finds it
\* first: a Push that refreshes klend in its CPI, a Pull, or a Sync after
\* several blocks.
EventsBooked ==
  /\ ledger["Reserve"] = reserve.lastBalance
  /\ "Kamino" \in Kinds => Booked("Kamino")

\* The same of Drift's, as the test of its Push asserts both sides.
DriftBooked == "Drift" \in Kinds => Booked("Drift")

\* By how much one deposit or withdrawal may be rounded.
DriftRounding == CeilDiv(LastIndex["Drift"] - 1, Unit["Drift"])

\* Drift's events are those of the tokens that moved, and Drift rounds against
\* the depositor: whatever amounts move at whatever index, the events never
\* fall short of the balance, and exceed it by no more than the rounding of
\* every Push or Pull.  A token of 8 decimals or less (Unit is 10^(19 -
\* decimals), the index starts at 10^10) loses one unit a move.
DriftDust ==
  "Drift" \in Kinds =>
    ledger["Drift"] - integrations["Drift"].balance
      \in 0 .. (DriftRounding * moves["Drift"])

\* A balance is recorded with all the interest of its slot: "we intentionally
\* fail to ensure the accounting at the slot is correct".
RecordedIsCurrent ==
  [][\A kind \in Kinds :
       integrations'[kind].balance # integrations[kind].balance
         => integrations'[kind].balance = Worth(kind, WithInterest(markets'[kind]))
    ]_vars

\* The rate limit of an integration bounds its exposure: since it was set up,
\* no more tokens have gone out, less those that came back, than its cap and
\* what it earned, although amounts, shares and values round differently.
ExposureBounded ==
  \A kind \in Kinds :
    LET i == integrations[kind]
    IN  SecondsPerDay * (i.avail + net[kind]) + i.rem
          <= SecondsPerDay * i.max + i.slope * i.ts

-----------------------------------------------------------------------------
Bucket(kind) == INSTANCE TokenBucket WITH
                  level <- LevelAt(integrations[kind], clock),
                  cap <- integrations[kind].max,
                  rate <- integrations[kind].slope,
                  Unlimited <- U64Max, Seconds <- {1}, Tokens <- U64

\* The step of the bucket that the tokens that went out or came back, or the
\* seconds that pass, call for, and no other.
BucketStep(kind) ==
  LET out == SatSub(net'[kind], net[kind])
      back == SatSub(net[kind], net'[kind])
  IN  IF out = back
      THEN Bucket(kind)!Elapse(clock'.ts - clock.ts)
      ELSE Bucket(kind)!Move(0, 0, out, back)

\* The limit of each lending integration is an exact token bucket: a Push
\* drains it by the tokens that left the vault and a Pull or a harvest refills
\* it by those that came back, whatever the protocol makes of them in shares
\* and value, and a permissionless Sync neither earns nor loses a unit.
LimitsAreBuckets ==
  /\ \A kind \in Kinds : Bucket(kind)!BucketInit
  /\ [][\A kind \in Kinds : BucketStep(kind)]_vars

-----------------------------------------------------------------------------
\* The reserve as the component that module Reserve specifies.
Component == INSTANCE Reserve WITH
               ledger <- ledger["Reserve"],
               Slopes <- U64, MaxOuts <- U64, Amounts <- 1 .. Supply,
               Elapses <- {}, MaxTime <- 0, MaxSlot <- 0

\* The reserve does nothing that module Reserve does not know, although it pays
\* and receives what the protocols make of an amount, and a harvest pays into
\* it in the midst of a sync: each step is one of its operations, with all of
\* its conditions and its events, or leaves it alone.
ReserveIsComponent ==
  [][Component!Next \/ UNCHANGED <<reserve, vault, ledger["Reserve"]>>]_vars
=============================================================================
