---------------------------- MODULE LzBridgeProofs ----------------------------
(***************************************************************************)
(* Proofs, for any number of bridges and destinations and transactions of  *)
(* any length and shape, of the safety properties of LzBridgeProps.        *)
(***************************************************************************)
EXTENDS LzBridgeProps, ReserveStateProofs, FiniteSetTheorems,
        WellFoundedInduction

-----------------------------------------------------------------------------
\* A set of numbers that is not empty has a least one.
LEMMA LeastNumber ==
  ASSUME NEW T, T \subseteq Nat, T # {}
  PROVE  \E n \in T : \A m \in T : ~(m < n)
<1> DEFINE R == OpToRel(<, Nat)
<1>1. \A x, y \in Nat : <<x, y>> \in R <=> x < y
  BY DEF OpToRel
<1>2. IsWellFoundedOn(R, Nat)
  BY NatLessThanWellFounded, Zenon
<1> HIDE DEF R
<1>3. \E n \in T : \A m \in T : ~(<<m, n>> \in R)
  BY <1>2, WFMin
<1>. QED  BY <1>1, <1>3

\* Induction over the numbers, with the set of those that have the property.
LEMMA NumbersInduction ==
  ASSUME NEW T, 0 \in T, \A n \in Nat : n \in T => n + 1 \in T
  PROVE  Nat \subseteq T
<1> SUFFICES ASSUME Nat \ T # {} PROVE FALSE
  OBVIOUS
<1>1. PICK n \in Nat \ T : \A m \in Nat \ T : ~(m < n)
  <2>1. Nat \ T \subseteq Nat
    OBVIOUS
  <2>. QED  BY <2>1, LeastNumber
<1>2. n # 0 /\ n - 1 \in Nat /\ n - 1 < n /\ (n - 1) + 1 = n
  BY <1>1
<1>3. (n - 1) + 1 \in T
  BY <1>1, <1>2
<1>. QED  BY <1>1, <1>2, <1>3

-----------------------------------------------------------------------------
\* The element that a sum over a set takes first.
First(s) == CHOOSE x \in s : TRUE

\* h sums the values of f over each of the sets.
SumsOf(h, f, sets) ==
  h = [s \in sets |-> IF s = {} THEN 0 ELSE f[First(s)] + h[s \ {First(s)}]]

\* A finite set that is not empty, and what is left without one element.
LEMMA TakeFirst ==
  ASSUME NEW S, IsFiniteSet(S), NEW s \in SUBSET S, s # {}
  PROVE  /\ First(s) \in s
         /\ s \ {First(s)} \in SUBSET S
         /\ Cardinality(s) \in Nat /\ Cardinality(s \ {First(s)}) \in Nat
         /\ Cardinality(s) = Cardinality(s \ {First(s)}) + 1
<1>1. First(s) \in s /\ s \ {First(s)} \in SUBSET S
  BY DEF First
<1>2. IsFiniteSet(s) /\ IsFiniteSet(s \ {First(s)})
  BY <1>1, FS_Subset
<1>3. Cardinality(s) \in Nat /\ Cardinality(s \ {First(s)}) \in Nat
  BY <1>2, FS_CardinalityType
<1>4. Cardinality(s \ {First(s)}) = Cardinality(s) - 1
  BY <1>1, <1>2, FS_RemoveElement
<1>. QED  BY <1>1, <1>3, <1>4

\* Sums over the subsets of a finite set exist: step by step, by the size of
\* the subsets.
LEMMA SumsExist ==
  ASSUME NEW S, IsFiniteSet(S), NEW f
  PROVE  \E h : SumsOf(h, f, SUBSET S)
<1> DEFINE UpTo(n) == {s \in SUBSET S : Cardinality(s) <= n}
           T == {n \in Nat : \E h : SumsOf(h, f, UpTo(n))}
<1>1. 0 \in T
  <2>1. \A s \in UpTo(0) : s = {}
    <3> SUFFICES ASSUME NEW s \in SUBSET S, Cardinality(s) <= 0, s # {}
                 PROVE  FALSE
      OBVIOUS
    <3>1. /\ Cardinality(s \ {First(s)}) \in Nat
          /\ Cardinality(s) = Cardinality(s \ {First(s)}) + 1
      BY TakeFirst
    <3>. QED  BY <3>1
  <2>2. SumsOf([s \in UpTo(0) |-> 0], f, UpTo(0))
    BY <2>1 DEF SumsOf
  <2>. QED  BY <2>2
<1>2. ASSUME NEW n \in Nat, n \in T PROVE n + 1 \in T
  <2>1. PICK h : SumsOf(h, f, UpTo(n))
    BY <1>2
  <2> DEFINE k == [s \in UpTo(n + 1) |->
                     IF s = {} THEN 0 ELSE f[First(s)] + h[s \ {First(s)}]]
  <2>2. ASSUME NEW s \in UpTo(n), s \in UpTo(n + 1) PROVE k[s] = h[s]
    BY <2>1, <2>2 DEF SumsOf
  <2>3. ASSUME NEW s \in UpTo(n + 1), s # {}
        PROVE  h[s \ {First(s)}] = k[s \ {First(s)}]
    <3>1. s \ {First(s)} \in UpTo(n) /\ s \ {First(s)} \in UpTo(n + 1)
      BY <2>3, TakeFirst
    <3> HIDE DEF k, UpTo
    <3>. QED  BY <2>2, <3>1
  <2>4. k = [s \in UpTo(n + 1) |->
               IF s = {} THEN 0 ELSE f[First(s)] + k[s \ {First(s)}]]
    <3> HIDE DEF UpTo
    <3>1. \A s \in UpTo(n + 1) :
            (IF s = {} THEN 0 ELSE f[First(s)] + h[s \ {First(s)}])
              = (IF s = {} THEN 0 ELSE f[First(s)] + k[s \ {First(s)}])
      <4> HIDE DEF k
      <4>. QED  BY <2>3
    <3>2. k = [s \in UpTo(n + 1) |->
                 IF s = {} THEN 0 ELSE f[First(s)] + h[s \ {First(s)}]]
      OBVIOUS
    <3> HIDE DEF k
    <3>. QED  BY <3>1, <3>2
  <2>5. SumsOf(k, f, UpTo(n + 1))
    BY <2>4 DEF SumsOf
  <2> HIDE DEF UpTo, k
  <2>6. n + 1 \in Nat /\ \E j : SumsOf(j, f, UpTo(n + 1))
    BY <2>5
  <2>. QED  BY <2>6
<1>3. Cardinality(S) \in Nat
  BY FS_CardinalityType
<1>4. UpTo(Cardinality(S)) = SUBSET S
  BY <1>3, FS_Subset
<1> HIDE DEF T
<1>5. Nat \subseteq T
  BY <1>1, <1>2, NumbersInduction
<1>6. Cardinality(S) \in T
  BY <1>3, <1>5
<1>7. \E h : SumsOf(h, f, UpTo(Cardinality(S)))
  BY <1>6 DEF T
<1>. QED  BY <1>4, <1>7

\* g is f, but for delta at x.
Shifted(g, f, S, x, delta) ==
  \A y \in S : g[y] = f[y] + IF y = x THEN delta ELSE 0

\* Two functions that agree but for one element have sums that differ by what
\* that element adds.
LEMMA SumsDiffer ==
  ASSUME NEW S, IsFiniteSet(S), NEW f \in [S -> Int], NEW g \in [S -> Int],
         NEW x, NEW delta \in Int, Shifted(g, f, S, x, delta),
         NEW h, SumsOf(h, f, SUBSET S), NEW k, SumsOf(k, g, SUBSET S)
  PROVE  /\ h[S] \in Int
         /\ k[S] = h[S] + IF x \in S THEN delta ELSE 0
<1> DEFINE Differ(s) == /\ h[s] \in Int
                        /\ k[s] = h[s] + IF x \in s THEN delta ELSE 0
           T == {n \in Nat : \A s \in SUBSET S : Cardinality(s) <= n => Differ(s)}
<1>1. Differ({})
  BY DEF SumsOf
<1>2. ASSUME NEW s \in SUBSET S, s # {}, Differ(s \ {First(s)})
      PROVE  Differ(s)
  <2> DEFINE e == First(s)
             r == s \ {e}
  <2>1. e \in s /\ e \in S
    BY <1>2, TakeFirst
  <2>2. h[s] = f[e] + h[r] /\ k[s] = g[e] + k[r]
    BY <1>2 DEF SumsOf
  <2>3. x \in s <=> x \in r \/ x = e
    BY <2>1
  <2>4. x = e => x \notin r
    OBVIOUS
  <2>5. /\ f[e] \in Int /\ g[e] = f[e] + IF e = x THEN delta ELSE 0
        /\ h[r] \in Int /\ k[r] = h[r] + IF x \in r THEN delta ELSE 0
    BY <1>2, <2>1 DEF Shifted
  <2> HIDE DEF e, r
  <2>. QED  BY <2>2, <2>3, <2>4, <2>5
<1> HIDE DEF Differ
<1>3. 0 \in T
  <2> SUFFICES ASSUME NEW s \in SUBSET S, Cardinality(s) <= 0 PROVE Differ(s)
    OBVIOUS
  <2>1. s # {} => /\ Cardinality(s \ {First(s)}) \in Nat
                  /\ Cardinality(s) = Cardinality(s \ {First(s)}) + 1
    BY TakeFirst
  <2>2. s = {}
    BY <2>1
  <2>. QED  BY <1>1, <2>2
<1>4. ASSUME NEW n \in Nat, n \in T PROVE n + 1 \in T
  <2>1. ASSUME NEW s \in SUBSET S, Cardinality(s) <= n + 1, s # {}
        PROVE  Differ(s)
    <3>1. /\ s \ {First(s)} \in SUBSET S
          /\ Cardinality(s \ {First(s)}) \in Nat
          /\ Cardinality(s) = Cardinality(s \ {First(s)}) + 1
      BY <2>1, TakeFirst
    <3>2. Differ(s \ {First(s)})
      BY <1>4, <2>1, <3>1
    <3>. QED  BY <1>2, <2>1, <3>2
  <2>2. \A s \in SUBSET S : Cardinality(s) <= n + 1 => Differ(s)
    BY <1>1, <2>1
  <2>. QED  BY <2>2
<1>5. Nat \subseteq T
  <2> HIDE DEF T
  <2>. QED  BY <1>3, <1>4, NumbersInduction
<1>6. \A s \in SUBSET S : Differ(s)
  <2> SUFFICES ASSUME NEW s \in SUBSET S PROVE Differ(s)
    OBVIOUS
  <2>1. Cardinality(s) \in Nat
    BY FS_Subset, FS_CardinalityType
  <2>. QED  BY <1>5, <2>1
<1>. QED  BY <1>6 DEF Differ

USE RateLimitAssumption, LzBridgeAssumption

-----------------------------------------------------------------------------
\* What the rate limit of a bridge has lost, and the bridges of a destination.
Charge(c, b) == c.integrations[b].max - c.integrations[b].avail

BridgesTo(d) == {b \in Bridges : Destination[b] = d}

ChargedTo(c, d) ==
  MapThenSumSet(LAMBDA b : c.integrations[b].max - c.integrations[b].avail,
                {b \in Bridges : Destination[b] = d})

\* From c to e the limit of bridge x has lost delta, and no other anything.
Moved(c, e, x, delta) ==
  \A b \in Bridges : Charge(e, b) = Charge(c, b) + IF b = x THEN delta ELSE 0

Charged(c) == \A d \in Destinations : c.pushed[d] = ChargedTo(c, d)

-----------------------------------------------------------------------------
Accounts ==
  [controller : ControllerStatus, integrations : [Bridges -> Integrations],
   reserve : Reserves, vault : 0 .. Supply, source : 0 .. Supply,
   pushed : [Destinations -> Nat], bridged : [Destinations -> Nat]]

\* Accounts that no handler can panic on: the reserve is within its cap, and
\* no refresh is in the future; and every push is charged to a bridge.
WellFormed(c) ==
  /\ c \in Accounts
  /\ c.reserve.avail <= c.reserve.max
  /\ c.reserve.ts = 0
  /\ \A b \in Bridges : c.integrations[b].ts = 0
  /\ Charged(c)

\* The accounts between two transactions.
Settled(c) ==
  /\ WellFormed(c)
  /\ \A b \in Bridges : ~c.integrations[b].inFlight
  /\ \A d \in Destinations : c.pushed[d] <= c.bridged[d]

\* The transaction in execution, with the accounts that Abort goes back to.
TxOK ==
  /\ tx \in [ixs : IxLists \cup {<<>>}, pc : Nat \ {0}, calls : Nat,
             saved : SUBSET {c \in Accounts : Settled(c)}, opened : {{}}]

\* A push in flight has the rest of the transaction before it: the Send that
\* it relies on and the Reset of the same bridge.
Carried(b) ==
  /\ Last >= 3
  /\ Last - 2 <= tx.pc /\ tx.pc <= Last
  /\ Kind(Last - 1) = "Send"
  /\ Kind(Last) = "Reset"
  /\ tx.ixs[Last].integration = b

FlightsCarried ==
  \A b \in Bridges : chain.integrations[b].inFlight => Carried(b)

\* What the Send still has to bridge to a destination.
InFlightTo(d) ==
  /\ \E b \in Bridges : chain.integrations[b].inFlight
  /\ tx.pc < Last
  /\ tx.ixs[Last - 1].destination = d

Due(d) == IF InFlightTo(d) THEN tx.ixs[Last - 1].amount ELSE 0

PushesCovered ==
  \A d \in Destinations : chain.pushed[d] <= chain.bridged[d] + Due(d)

\* The inductive invariant.
LzInv ==
  /\ WellFormed(chain)
  /\ TxOK
  /\ FlightsCarried
  /\ PushesCovered

-----------------------------------------------------------------------------
\* What a destination's bridges lost is the last of the sums over the subsets
\* of these bridges.
LEMMA ChargeSums ==
  ASSUME NEW c \in Accounts, NEW d
  PROVE  LET f == [b \in BridgesTo(d) |-> Charge(c, b)]
         IN  /\ f \in [BridgesTo(d) -> Int]
             /\ \E h : /\ SumsOf(h, f, SUBSET BridgesTo(d))
                       /\ ChargedTo(c, d) = h[BridgesTo(d)]
<1> DEFINE S == BridgesTo(d)
           f == [b \in S |-> Charge(c, b)]
           h == CHOOSE h : h = [s \in SUBSET S |->
                  IF s = {} THEN 0
                  ELSE (c.integrations[CHOOSE x \in s : TRUE].max
                          - c.integrations[CHOOSE x \in s : TRUE].avail)
                       + h[s \ {CHOOSE x \in s : TRUE}]]
<1>1. f \in [S -> Int]
  <2>1. \A b \in Bridges : c.integrations[b].max \in Int
                           /\ c.integrations[b].avail \in Int
    BY DEF Accounts, Integrations, U64
  <2>. QED  BY <2>1 DEF Charge, BridgesTo
<1>2. ChargedTo(c, d) = h[S]
  BY DEF ChargedTo, MapThenSumSet, MapThenFoldSet, BridgesTo
<1>3. IsFiniteSet(S)
  BY FS_Subset DEF BridgesTo
<1>4. PICK k : SumsOf(k, f, SUBSET S)
  <2> HIDE DEF f, S
  <2>. QED  BY <1>3, SumsExist
<1>5. ASSUME NEW s \in SUBSET S, s # {}
      PROVE  f[First(s)] = c.integrations[CHOOSE x \in s : TRUE].max
                             - c.integrations[CHOOSE x \in s : TRUE].avail
  <2>1. First(s) \in S
    BY <1>5 DEF First
  <2>. QED  BY <2>1 DEF First, Charge
<1>6. ASSUME NEW j
      PROVE  SumsOf(j, f, SUBSET S) <=>
               j = [s \in SUBSET S |->
                      IF s = {} THEN 0
                      ELSE (c.integrations[CHOOSE x \in s : TRUE].max
                              - c.integrations[CHOOSE x \in s : TRUE].avail)
                           + j[s \ {CHOOSE x \in s : TRUE}]]
  <2> HIDE DEF f, S
  <2>. QED  BY <1>5 DEF SumsOf, First
<1>7. SumsOf(h, f, SUBSET S)
  <2> HIDE DEF f, S
  <2>1. h = [s \in SUBSET S |->
               IF s = {} THEN 0
               ELSE (c.integrations[CHOOSE x \in s : TRUE].max
                       - c.integrations[CHOOSE x \in s : TRUE].avail)
                    + h[s \ {CHOOSE x \in s : TRUE}]]
    <3>1. \E j : j = [s \in SUBSET S |->
                        IF s = {} THEN 0
                        ELSE (c.integrations[CHOOSE x \in s : TRUE].max
                                - c.integrations[CHOOSE x \in s : TRUE].avail)
                             + j[s \ {CHOOSE x \in s : TRUE}]]
      <4>1. k = [s \in SUBSET S |->
                   IF s = {} THEN 0
                   ELSE (c.integrations[CHOOSE x \in s : TRUE].max
                           - c.integrations[CHOOSE x \in s : TRUE].avail)
                        + k[s \ {CHOOSE x \in s : TRUE}]]
        BY <1>4, <1>6
      <4> HIDE DEF h
      <4>. QED  BY <4>1
    <3>. QED  BY <3>1
  <2> HIDE DEF h
  <2>. QED  BY <1>6, <2>1
<1> HIDE DEF h
<1>. QED  BY <1>1, <1>2, <1>7

\* When the limit of one bridge loses delta, so does its destination's sum;
\* delta may be 0, and any sum is a number.
LEMMA ChargeMoves ==
  ASSUME NEW c \in Accounts, NEW e \in Accounts, NEW x, NEW delta \in Int,
         Moved(c, e, x, delta), NEW d
  PROVE  /\ ChargedTo(c, d) \in Int
         /\ ChargedTo(e, d) =
              ChargedTo(c, d) + IF x \in BridgesTo(d) THEN delta ELSE 0
<1> DEFINE S == BridgesTo(d)
           f == [b \in S |-> Charge(c, b)]
           g == [b \in S |-> Charge(e, b)]
<1>1. IsFiniteSet(S)
  BY FS_Subset DEF BridgesTo
<1>2. PICK h : SumsOf(h, f, SUBSET S) /\ ChargedTo(c, d) = h[S]
  BY ChargeSums
<1>3. PICK k : SumsOf(k, g, SUBSET S) /\ ChargedTo(e, d) = k[S]
  BY ChargeSums
<1>4. f \in [S -> Int] /\ g \in [S -> Int]
  BY ChargeSums
<1>5. Shifted(g, f, S, x, delta)
  BY DEF BridgesTo, Shifted, Moved
<1> HIDE DEF f, g, S
<1>6. h[S] \in Int /\ k[S] = h[S] + IF x \in S THEN delta ELSE 0
  BY <1>1, <1>2, <1>3, <1>4, <1>5, SumsDiffer
<1>. QED  BY <1>2, <1>3, <1>6 DEF S

\* Limits that have lost nothing.
LEMMA NothingCharged ==
  ASSUME NEW c \in Accounts, \A b \in Bridges : Charge(c, b) = 0, NEW d
  PROVE  ChargedTo(c, d) = 0
<1> DEFINE S == BridgesTo(d)
           f == [b \in S |-> Charge(c, b)]
           k == [s \in SUBSET S |-> 0]
<1>1. IsFiniteSet(S)
  BY FS_Subset DEF BridgesTo
<1>2. PICK h : SumsOf(h, f, SUBSET S) /\ ChargedTo(c, d) = h[S]
  BY ChargeSums
<1>3. f \in [S -> Int] /\ \A b \in S : f[b] = 0
  BY DEF BridgesTo
<1>4. SumsOf(k, f, SUBSET S)
  <2>1. ASSUME NEW s \in SUBSET S, s # {} PROVE f[First(s)] + k[s \ {First(s)}] = 0
    <3>1. First(s) \in S
      BY <2>1 DEF First
    <3>. QED  BY <1>3, <3>1
  <2> HIDE DEF f, S
  <2>. QED  BY <2>1 DEF SumsOf
<1>5. S \in SUBSET S /\ k[S] = 0
  OBVIOUS
<1> HIDE DEF f, S, k
<1>6. h[S] \in Int /\ k[S] = h[S] + IF S \in S THEN 0 ELSE 0
  <2>1. Shifted(f, f, S, S, 0)
    BY <1>3 DEF Shifted
  <2>2. 0 \in Int
    OBVIOUS
  <2>. QED  BY <1>1, <1>2, <1>3, <1>4, <2>1, <2>2, SumsDiffer
<1>. QED  BY <1>2, <1>5, <1>6 DEF S

\* A step that pushes amount to the destination of a bridge and takes it from
\* the limit of that bridge, or, with amount 0, does neither.
LEMMA ChargedStep ==
  ASSUME NEW c \in Accounts, NEW e \in Accounts, Charged(c),
         NEW x \in Bridges, NEW amount \in Int, Moved(c, e, x, amount),
         \A d \in Destinations :
           e.pushed[d] = c.pushed[d] + IF d = Destination[x] THEN amount ELSE 0
  PROVE  Charged(e)
<1> SUFFICES ASSUME NEW d \in Destinations PROVE e.pushed[d] = ChargedTo(e, d)
  BY DEF Charged
<1>1. c.pushed[d] = ChargedTo(c, d)
  BY DEF Charged
<1>2. /\ ChargedTo(c, d) \in Int
      /\ ChargedTo(e, d) =
           ChargedTo(c, d) + IF x \in BridgesTo(d) THEN amount ELSE 0
  BY ChargeMoves
<1>3. x \in BridgesTo(d) <=> d = Destination[x]
  BY DEF BridgesTo
<1>. QED  BY <1>1, <1>2, <1>3

\* Accounts whose limits and totals are as before.
LEMMA ChargedSame ==
  ASSUME NEW c \in Accounts, NEW e \in Accounts, Charged(c),
         \A b \in Bridges : Charge(e, b) = Charge(c, b),
         e.pushed = c.pushed
  PROVE  Charged(e)
<1> SUFFICES ASSUME NEW d \in Destinations PROVE e.pushed[d] = ChargedTo(e, d)
  BY DEF Charged
<1>1. c.pushed[d] = ChargedTo(c, d)
  BY DEF Charged
<1>2. Moved(c, e, d, 0)
  <2>1. \A b \in Bridges : Charge(c, b) \in Int
    <3>1. \A b \in Bridges : c.integrations[b] \in Integrations
      BY DEF Accounts
    <3>. QED  BY <3>1 DEF Charge, Integrations, U64
  <2>. QED  BY <2>1 DEF Moved
<1>3. /\ ChargedTo(c, d) \in Int
      /\ ChargedTo(e, d) = ChargedTo(c, d) + IF d \in BridgesTo(d) THEN 0 ELSE 0
  <2>1. 0 \in Int
    OBVIOUS
  <2>. QED  BY <1>2, <2>1, ChargeMoves
<1>. QED  BY <1>1, <1>3

\* A step that leaves the limits of the bridges and the totals alone.
LEMMA StillCharged ==
  ASSUME chain \in Accounts, chain' \in Accounts, Charged(chain),
         \A b \in Bridges : /\ chain'.integrations[b].max = chain.integrations[b].max
                            /\ chain'.integrations[b].avail = chain.integrations[b].avail,
         chain'.pushed = chain.pushed
  PROVE  Charged(chain)'
<1>1. \A b \in Bridges : Charge(chain', b) = Charge(chain, b)
  BY DEF Charge
<1>2. Charged(chain')
  BY <1>1, ChargedSame, ZenonT(60)
<1>. QED  BY <1>2

-----------------------------------------------------------------------------
\* Within one block a refresh earns nothing; it stamps the account.
LEMMA RefreshInBlock ==
  ASSUME NEW i \in Integrations, i.ts = 0
  PROVE  /\ RefreshRateLimit(i, clock) \in Integrations
         /\ RefreshRateLimit(i, clock).ts = 0
         /\ RefreshRateLimit(i, clock).inFlight = i.inFlight
         /\ RefreshRateLimit(i, clock).avail = i.avail
         /\ RefreshRateLimit(i, clock).max = i.max
<1>1. RefreshRateLimit(i, clock) = [i EXCEPT !.ts = 0, !.slot = 0]
  BY DEF RefreshRateLimit, Accrues, clock
<1>. QED  BY <1>1 DEF Integrations

\* What a debit does to the account of a bridge.
LEMMA DebitIntegration ==
  ASSUME NEW i \in Integrations, NEW amount \in Nat
  PROVE  /\ DebitRateLimit(i, amount) \in Integrations
         /\ DebitRateLimit(i, amount).ts = i.ts
<1>1. SatSub(i.avail, amount) \in U64
  BY DEF SatSub, U64, Integrations
<1>2. DebitRateLimit(i, amount) = [i EXCEPT !.avail = SatSub(i.avail, amount)]
  BY DEF DebitRateLimit, Integrations
<1>. QED  BY <1>1, <1>2 DEF Integrations

\* The position in a transaction that runs.
LEMMA TxTypes ==
  ASSUME TxOK
  PROVE  /\ Last \in Nat /\ tx.pc \in Nat \ {0} /\ tx.calls \in Nat
         /\ tx.ixs \in Seq(Instructions)
         /\ \A k \in 1 .. Last : tx.ixs[k] \in Instructions
         /\ Idle <=> Last = 0
<1>1. tx.ixs \in Seq(Instructions)
  <2>1. tx.ixs \in IxLists \/ tx.ixs = <<>>
    BY DEF TxOK
  <2>2. IxLists \subseteq Seq(Instructions)
    BY Zenon
  <2>3. <<>> \in Seq(Instructions)
    OBVIOUS
  <2>. QED  BY <2>1, <2>2, <2>3, Zenon
<1>2. /\ Last \in Nat
      /\ \A k \in 1 .. Last : tx.ixs[k] \in Instructions
  BY <1>1 DEF Last
<1>3. Idle <=> Last = 0
  BY <1>1 DEF Idle, Last
<1>. QED  BY <1>1, <1>2, <1>3 DEF TxOK

\* How an instruction that has run moves the transaction on.
LEMMA SteppedKeeps ==
  ASSUME TxOK, tx' = Stepped
  PROVE  /\ TxOK'
         /\ tx'.ixs = tx.ixs
         /\ CurrentIsForeign => tx'.pc = tx.pc
         /\ ~CurrentIsForeign => tx'.pc = tx.pc + 1
BY DEF TxOK, Stepped

-----------------------------------------------------------------------------
\* The model starts between transactions, with nothing pushed.
LEMMA InitHolds == Init => LzInv
<1> SUFFICES ASSUME Init PROVE LzInv
  OBVIOUS
<1>1. /\ MaxOut \in U64 /\ Held \in 0 .. Supply /\ Held \in U64 /\ Supply \in Nat
      /\ U64Max \in U64
  BY DEF U64
<1> DEFINE r == [InitReserve("Active", 0, U64Max, clock)
                   EXCEPT !.lastBalance = Held]
           i == [status |-> "Active", slope |-> 0, max |-> MaxOut,
                 avail |-> MaxOut, rem |-> 0, ts |-> 0, slot |-> 0,
                 inFlight |-> FALSE]
<1>2. r \in Reserves /\ r.avail <= r.max /\ r.ts = 0
  BY <1>1 DEF InitReserve, Reserves, ReserveStatus, clock, U64
<1>3. i \in Integrations /\ i.ts = 0 /\ ~i.inFlight
  BY <1>1 DEF Integrations, U64
<1> HIDE DEF r, i
<1>4. chain = [controller |-> "Active", integrations |-> [b \in Bridges |-> i],
               reserve |-> r, vault |-> Held, source |-> 0,
               pushed |-> [d \in Destinations |-> 0],
               bridged |-> [d \in Destinations |-> 0]]
  BY DEF Init, r, i
<1>5. chain \in Accounts
  BY <1>1, <1>2, <1>3, <1>4 DEF Accounts, ControllerStatus
<1>6. WellFormed(chain) /\ \A b \in Bridges : ~chain.integrations[b].inFlight
  <2>1. \A b \in Bridges : Charge(chain, b) = 0
    <3>1. i.max = i.avail /\ i.max \in Int
      BY <1>1 DEF i, U64
    <3>. QED  BY <1>4, <3>1 DEF Charge
  <2>2. \A d \in Destinations : ChargedTo(chain, d) = 0
    BY <1>5, <2>1, NothingCharged
  <2>3. Charged(chain)
    BY <1>4, <2>2 DEF Charged
  <2>. QED  BY <1>2, <1>3, <1>4, <1>5, <2>3 DEF WellFormed
<1>7. TxOK
  BY DEF Init, TxOK, NoTransaction
<1>8. PushesCovered
  BY <1>4, <1>6 DEF PushesCovered, Due, InFlightTo
<1>. QED  BY <1>6, <1>7, <1>8 DEF LzInv, FlightsCarried

-----------------------------------------------------------------------------
\* The amount that the Send of a push in flight bridges.
LEMMA DueType ==
  ASSUME LzInv, NEW d
  PROVE  Due(d) \in Nat
<1>1. CASE InFlightTo(d)
  <2>1. Kind(Last - 1) = "Send" /\ Last - 1 \in 1 .. Last
    BY <1>1, TxTypes DEF LzInv, FlightsCarried, InFlightTo, Carried
  <2>2. tx.ixs[Last - 1] \in Instructions
    BY <2>1, TxTypes DEF LzInv
  <2>3. tx.ixs[Last - 1].amount \in Nat
    BY <2>1, <2>2 DEF Kind, Instructions
  <2>. QED  BY <1>1, <2>3 DEF Due
<1>2. CASE ~InFlightTo(d)
  BY <1>2 DEF Due
<1>. QED  BY <1>1, <1>2

\* What most instructions do: they leave the flags and what was pushed alone,
\* may bridge more, and do not pass a Send or a Reset.
LEMMA Passing ==
  ASSUME LzInv, TxOK', WellFormed(chain)',
         Running, tx'.ixs = tx.ixs,
         \/ tx'.pc = tx.pc
         \/ tx'.pc = tx.pc + 1 /\ Kind(tx.pc) \notin {"Send", "Reset"},
         \A b \in Bridges :
           chain'.integrations[b].inFlight = chain.integrations[b].inFlight,
         \A d \in Destinations : /\ chain'.pushed[d] = chain.pushed[d]
                                 /\ chain'.bridged[d] >= chain.bridged[d]
  PROVE  LzInv'
<1>1. /\ Last \in Nat /\ tx.pc \in Nat \ {0} /\ tx.pc <= Last
      /\ Last' = Last
  BY TxTypes DEF LzInv, Running, Last
<1>2. ASSUME NEW b \in Bridges, chain.integrations[b].inFlight
      PROVE  Carried(b) /\ Carried(b)' /\ (tx.pc < Last => tx'.pc < Last)
  <2>1. Carried(b)
    BY <1>2 DEF LzInv, FlightsCarried
  <2>2. tx.pc # Last \/ tx'.pc = tx.pc
    BY <2>1 DEF Carried
  <2>3. tx.pc # Last - 1 \/ tx'.pc = tx.pc
    BY <2>1 DEF Carried
  <2>. QED  BY <1>1, <2>1, <2>2, <2>3 DEF Carried, Kind
<1>3. FlightsCarried'
  BY <1>2 DEF FlightsCarried
<1>4. ASSUME NEW d \in Destinations
      PROVE  chain'.pushed[d] <= chain'.bridged[d] + Due(d)'
  <2>1. /\ chain.pushed[d] \in Nat /\ chain.bridged[d] \in Nat
        /\ chain'.bridged[d] \in Nat
    BY DEF LzInv, WellFormed, Accounts
  <2>2. chain.pushed[d] <= chain.bridged[d] + Due(d)
    BY DEF LzInv, PushesCovered
  <2>3. Due(d)' = Due(d)
    <3>1. InFlightTo(d)' <=> InFlightTo(d)
      BY <1>1, <1>2 DEF InFlightTo
    <3>. QED  BY <1>1, <3>1 DEF Due
  <2>4. Due(d) \in Nat
    BY DueType
  <2>. QED  BY <2>1, <2>2, <2>3, <2>4
<1>. QED  BY <1>3, <1>4 DEF LzInv, PushesCovered

-----------------------------------------------------------------------------
\* A transaction that is over leaves nothing in flight, one that fails leaves
\* the accounts as they were.
LEMMA ScheduleStep == LzInv /\ Schedule => LzInv'
<1> SUFFICES ASSUME LzInv, Schedule PROVE LzInv'
  OBVIOUS
<1>1. /\ TxOK /\ WellFormed(chain) /\ chain \in Accounts
      /\ Last \in Nat /\ tx.pc \in Nat \ {0} /\ (Idle <=> Last = 0)
  BY TxTypes DEF LzInv, WellFormed
<1>2. Idle \/ ~Running => Settled(chain)
  <2> SUFFICES ASSUME Idle \/ ~Running PROVE Settled(chain)
    OBVIOUS
  <2>1. \A b \in Bridges : ~Carried(b)
    BY <1>1 DEF Carried, Running
  <2>2. \A b \in Bridges : ~chain.integrations[b].inFlight
    BY <2>1 DEF LzInv, FlightsCarried
  <2>3. \A d \in Destinations : Due(d) = 0
    BY <2>2 DEF Due, InFlightTo
  <2>4. \A d \in Destinations : chain.pushed[d] <= chain.bridged[d]
    BY <1>1, <2>3 DEF LzInv, PushesCovered, Accounts
  <2>. QED  BY <1>1, <2>2, <2>4 DEF Settled
<1>3. ASSUME Settled(chain)', TxOK' PROVE LzInv'
  <2>1. \A b \in Bridges : ~chain'.integrations[b].inFlight
    BY <1>3 DEF Settled
  <2>2. \A d \in Destinations : Due(d)' = 0
    BY <2>1 DEF Due, InFlightTo
  <2>3. PushesCovered'
    BY <1>3, <2>2 DEF Settled, WellFormed, Accounts, PushesCovered
  <2>. QED  BY <1>3, <2>1, <2>3 DEF LzInv, FlightsCarried, Settled
<1>4. ASSUME NEW ixs \in IxLists, Begin(ixs) PROVE LzInv'
  <2>1. Settled(chain)' /\ Settled(chain)
    BY <1>2, <1>4 DEF Begin, Settled, WellFormed
  <2>2. {chain} \in SUBSET {c \in Accounts : Settled(c)}
    BY <1>1, <2>1
  <2>3. tx' = [ixs |-> ixs, pc |-> 1, calls |-> 0, saved |-> {chain},
               opened |-> {}]
    BY <1>4 DEF Begin, NoTransaction
  <2>4. TxOK'
    BY <2>2, <2>3 DEF TxOK
  <2>. QED  BY <1>3, <2>1, <2>4
<1>5. CASE ForeignReturns
  <2>1. /\ TxOK' /\ tx'.ixs = tx.ixs /\ tx'.pc = tx.pc + 1
        /\ Kind(tx.pc) \notin {"Send", "Reset"} /\ Running
        /\ chain' = chain
    BY <1>1, <1>5 DEF ForeignReturns, TxOK, CurrentIsForeign
  <2>2. WellFormed(chain)'
    BY <1>1, <2>1 DEF WellFormed
  <2>3. \A d \in Destinations : chain'.bridged[d] >= chain.bridged[d]
    BY <1>1, <2>1 DEF Accounts
  <2>. QED  BY <2>1, <2>2, <2>3, Passing
<1>6. CASE Commit
  <2>1. Settled(chain)'
    BY <1>2, <1>6 DEF Commit, Committing, Settled, WellFormed
  <2>2. TxOK'
    BY <1>6 DEF Commit, NoTransaction, TxOK
  <2>. QED  BY <1>3, <2>1, <2>2
<1>7. CASE Abort
  <2>1. Settled(chain)'
    BY <1>1, <1>7 DEF Abort, TxOK, Settled, WellFormed
  <2>2. TxOK'
    BY <1>7 DEF Abort, NoTransaction, TxOK
  <2>. QED  BY <1>3, <2>1, <2>2
<1>. QED  BY <1>4, <1>5, <1>6, <1>7 DEF Schedule

-----------------------------------------------------------------------------
\* A push relies on the Send and the Reset that follow; no other is in flight,
\* because it would be the same bridge's, whose flag is clear.
LEMMA PushStep ==
  ASSUME LzInv, NEW bridge \in Bridges, NEW amount \in Amounts,
         Push(bridge, amount)
  PROVE  LzInv'
<1> DEFINE i == RefreshRateLimit(chain.integrations[bridge], clock)
           j == [DebitRateLimit(i, amount) EXCEPT !.inFlight = TRUE]
           r == UpdateForOutflow(Synced, amount)
           home == Destination[bridge]
<1>1. /\ TxOK /\ chain \in Accounts /\ amount \in Nat /\ home \in Destinations
      /\ Last \in Nat /\ tx.pc \in Nat
      /\ chain.integrations[bridge] \in Integrations
      /\ chain.integrations[bridge].ts = 0
      /\ chain.vault \in Nat /\ chain.source \in Nat /\ Supply \in Nat
  <2>1. amount \in Nat /\ home \in Destinations /\ Supply \in Nat
    BY DEF U64
  <2>2. TxOK /\ chain \in Accounts /\ chain.integrations[bridge].ts = 0
    BY DEF LzInv, WellFormed
  <2>. QED  BY <2>1, <2>2, TxTypes DEF Accounts
<1>2. /\ i \in Integrations /\ i.ts = 0
      /\ i.inFlight = chain.integrations[bridge].inFlight
      /\ i.avail = chain.integrations[bridge].avail
      /\ i.max = chain.integrations[bridge].max
  BY <1>1, RefreshInBlock
<1>3. /\ ~i.inFlight /\ VerifySend(bridge, amount) /\ Payable(i, amount)
      /\ chain.source + amount <= Supply
      /\ tx' = Stepped
  BY DEF Push
<1>4. chain' = [chain EXCEPT !.integrations[bridge] = j, !.reserve = r,
                             !.vault = chain.vault - amount,
                             !.source = chain.source + amount,
                             !.pushed[home] = chain.pushed[home] + amount]
  BY <1>1 DEF Push, Accounts
<1> HIDE DEF i, home
<1>5. /\ j \in Integrations /\ j.ts = 0 /\ j.inFlight = TRUE
      /\ j.max - j.avail = Charge(chain, bridge) + amount
  <2>1. amount <= i.avail /\ i.avail \in Nat /\ i.max \in Nat
    BY <1>2, <1>3 DEF Payable, WithinRateLimit, Integrations, U64
  <2>2. DebitRateLimit(i, amount) = [i EXCEPT !.avail = i.avail - amount]
    BY <1>2, <2>1 DEF DebitRateLimit, SatSub, Integrations
  <2>3. j.max = i.max /\ j.avail = i.avail - amount
    BY <1>2, <2>2 DEF Integrations
  <2>4. Charge(chain, bridge) = i.max - i.avail
    BY <1>2 DEF Charge
  <2>5. j.max - j.avail = Charge(chain, bridge) + amount
    BY <1>1, <2>1, <2>3, <2>4
  <2>6. j \in Integrations /\ j.ts = 0 /\ j.inFlight = TRUE
    BY <1>1, <1>2, DebitIntegration DEF Integrations
  <2>. QED  BY <2>5, <2>6
<1>6. r \in Reserves /\ r.avail <= r.max /\ r.ts = 0
  <2>1. /\ chain.reserve \in Reserves /\ chain.reserve.avail <= chain.reserve.max
        /\ chain.reserve.ts = 0 /\ chain.vault \in U64
    BY <1>1 DEF LzInv, WellFormed, Accounts, U64
  <2>2. clock \in Clocks /\ clock.ts = 0
    BY DEF clock, Clocks
  <2>3. /\ Synced \in Reserves /\ Synced.avail <= Synced.max
        /\ Synced.lastBalance = chain.vault /\ Synced.ts = 0
    BY <2>1, <2>2, SyncKeeps DEF Synced
  <2>4. amount <= Synced.lastBalance
    BY <1>3, <2>3 DEF Payable
  <2>. QED  BY <1>1, <2>3, <2>4, OutflowKeeps
<1> HIDE DEF j, r
<1>7. chain.vault - amount \in 0 .. Supply /\ chain.source + amount \in 0 .. Supply
  BY <1>1, <1>3 DEF Payable, Accounts
<1>8. chain' \in Accounts
  <2>1. /\ [chain.integrations EXCEPT ![bridge] = j] \in [Bridges -> Integrations]
        /\ chain.pushed[home] + amount \in Nat
        /\ [chain.pushed EXCEPT ![home] = chain.pushed[home] + amount]
             \in [Destinations -> Nat]
    BY <1>1, <1>5 DEF Accounts
  <2>. QED  BY <1>1, <1>4, <1>6, <1>7, <2>1 DEF Accounts
<1>9. WellFormed(chain)'
  <2>1. Moved(chain, chain', bridge, amount)
    <3>1. chain'.integrations = [chain.integrations EXCEPT ![bridge] = j]
      BY <1>4 DEF Accounts
    <3>2. \A b \in Bridges : Charge(chain, b) \in Int
      <4>1. \A b \in Bridges : chain.integrations[b] \in Integrations
        BY <1>1 DEF Accounts
      <4>. QED  BY <4>1 DEF Charge, Integrations, U64
    <3>3. j.max - j.avail = Charge(chain, bridge) + amount
      BY <1>5
    <3>. QED  BY <1>1, <3>1, <3>2, <3>3 DEF Moved, Charge, Accounts
  <2>2. \A d \in Destinations : chain'.pushed[d] =
          chain.pushed[d] + IF d = Destination[bridge] THEN amount ELSE 0
    <3>1. \A d \in Destinations : chain.pushed[d] \in Nat
      BY <1>1 DEF Accounts
    <3>. QED  BY <1>1, <1>4, <3>1 DEF home, Accounts
  <2>3. Charged(chain) /\ amount \in Int
    BY <1>1 DEF LzInv, WellFormed
  <2>4. Charged(chain')
    BY <1>1, <1>8, <2>1, <2>2, <2>3, ChargedStep, ZenonT(60)
  <2>5. Charged(chain)'
    BY <2>4
  <2>. QED  BY <1>1, <1>4, <1>5, <1>6, <1>8, <2>5 DEF LzInv, WellFormed, Accounts
<1>10. TxOK' /\ tx'.ixs = tx.ixs /\ tx'.pc \in {tx.pc, tx.pc + 1}
  BY <1>1, <1>3, SteppedKeeps
<1>11. /\ Last' = Last /\ Carried(bridge)
       /\ tx.pc = Last - 2 /\ tx.ixs[Last - 1].amount = amount
       /\ tx.ixs[Last - 1].destination = home
  BY <1>1, <1>3, <1>10 DEF VerifySend, Carried, Last, home
<1>12. \A b \in Bridges : ~chain.integrations[b].inFlight
  BY <1>2, <1>3, <1>11 DEF LzInv, FlightsCarried, Carried
<1>13. \A b \in Bridges : chain'.integrations[b].inFlight <=> b = bridge
  BY <1>1, <1>4, <1>5, <1>12 DEF Accounts
<1>14. FlightsCarried'
  BY <1>1, <1>10, <1>11, <1>13 DEF FlightsCarried, Carried, Kind
<1>15. ASSUME NEW d \in Destinations
       PROVE  chain'.pushed[d] <= chain'.bridged[d] + Due(d)'
  <2>1. chain.pushed[d] \in Nat /\ chain.bridged[d] \in Nat
    BY <1>1 DEF Accounts
  <2>2. Due(d) = 0
    BY <1>12 DEF Due, InFlightTo
  <2>3. chain.pushed[d] <= chain.bridged[d]
    BY <2>1, <2>2 DEF LzInv, PushesCovered
  <2>4. Due(d)' = IF d = home THEN amount ELSE 0
    BY <1>1, <1>10, <1>11, <1>13 DEF Due, InFlightTo
  <2>5. /\ chain'.bridged[d] = chain.bridged[d]
        /\ chain'.pushed[d] = chain.pushed[d] + IF d = home THEN amount ELSE 0
    BY <1>1, <1>4, <2>1 DEF Accounts
  <2>. QED  BY <1>1, <2>1, <2>3, <2>4, <2>5
<1>. QED  BY <1>9, <1>10, <1>14, <1>15 DEF LzInv, PushesCovered

\* The Send that a push relies on bridges what it owes; any other only more.
LEMMA SendStep ==
  ASSUME LzInv, NEW amount \in Amounts, NEW destination \in Destinations,
         Send(amount, destination)
  PROVE  LzInv'
<1>1. /\ TxOK /\ chain \in Accounts /\ amount \in Nat
      /\ Last \in Nat /\ tx.pc \in Nat \ {0}
      /\ amount <= chain.source /\ Running
      /\ chain' = [chain EXCEPT
                     !.source = chain.source - amount,
                     !.bridged[destination] = chain.bridged[destination] + amount]
      /\ tx' = Stepped
  BY TxTypes DEF LzInv, WellFormed, Send, Accounts, Runs
<1>2. chain.source - amount \in 0 .. Supply
  <2>1. chain.source \in 0 .. Supply /\ Supply \in Nat
    BY <1>1 DEF Accounts, U64
  <2>. QED  BY <1>1, <2>1
<1>3. WellFormed(chain)'
  <2>1. /\ chain.bridged[destination] + amount \in Nat
        /\ [chain.bridged EXCEPT ![destination] = chain.bridged[destination] + amount]
             \in [Destinations -> Nat]
    BY <1>1 DEF Accounts
  <2>2. chain' \in Accounts
    BY <1>1, <1>2, <2>1 DEF Accounts
  <2>3. chain'.integrations = chain.integrations /\ chain'.pushed = chain.pushed
    BY <1>1 DEF Accounts
  <2>4. Charged(chain)'
    BY <1>1, <2>2, <2>3, StillCharged DEF LzInv, WellFormed
  <2>. QED  BY <1>1, <2>2, <2>4 DEF LzInv, WellFormed, Accounts
<1>4. /\ \A b \in Bridges : chain'.integrations[b] = chain.integrations[b]
      /\ \A d \in Destinations :
           /\ chain'.pushed[d] = chain.pushed[d]
           /\ chain'.bridged[d] =
                chain.bridged[d] + IF d = destination THEN amount ELSE 0
           /\ chain.bridged[d] \in Nat /\ chain.pushed[d] \in Nat
  BY <1>1 DEF Accounts
<1>5. \A d \in Destinations : chain'.bridged[d] >= chain.bridged[d]
  BY <1>1, <1>4
<1>6. /\ TxOK' /\ tx'.ixs = tx.ixs /\ Last' = Last
      /\ CurrentIsForeign => tx'.pc = tx.pc
      /\ ~CurrentIsForeign => tx'.pc = tx.pc + 1
  BY <1>1, SteppedKeeps DEF Last
<1>7. CASE CurrentIsForeign
  BY <1>1, <1>3, <1>4, <1>5, <1>6, <1>7, Passing
<1>8. CASE ~CurrentIsForeign
  <2>1. /\ Kind(tx.pc) = "Send" /\ tx'.pc = tx.pc + 1
        /\ tx.ixs[tx.pc].amount = amount
        /\ tx.ixs[tx.pc].destination = destination
    BY <1>6, <1>8 DEF Send, Kind
  <2>2. ASSUME NEW b \in Bridges, chain.integrations[b].inFlight
        PROVE  Carried(b) /\ Carried(b)'
    <3>1. Carried(b)
      BY <2>2 DEF LzInv, FlightsCarried
    <3>2. tx.pc # Last
      BY <2>1, <3>1 DEF Carried
    <3>. QED  BY <1>1, <1>6, <2>1, <3>1, <3>2 DEF Carried, Kind
  <2>3. FlightsCarried'
    BY <1>4, <2>2 DEF FlightsCarried
  <2>4. ASSUME NEW d \in Destinations
        PROVE  chain'.pushed[d] <= chain'.bridged[d] + Due(d)'
    <3>1. chain.pushed[d] <= chain.bridged[d] + Due(d)
      BY DEF LzInv, PushesCovered
    <3>2. Due(d) \in Nat /\ Due(d)' \in Nat
      <4>1. Due(d) \in Nat
        BY DueType
      <4>2. Due(d)' = Due(d) \/ Due(d)' = 0
        BY <1>1, <1>4, <1>6, <2>1 DEF Due, InFlightTo
      <4>. QED  BY <4>1, <4>2
    <3>3. CASE Due(d)' = Due(d)
      <4>1. /\ chain'.bridged[d] >= chain.bridged[d] /\ chain'.bridged[d] \in Nat
            /\ chain.bridged[d] \in Nat
            /\ chain'.pushed[d] = chain.pushed[d] /\ chain.pushed[d] \in Nat
        BY <1>1, <1>4, <1>5
      <4>. QED  BY <3>1, <3>2, <3>3, <4>1
    <3>4. CASE Due(d)' # Due(d)
      <4>1. InFlightTo(d) /\ ~InFlightTo(d)'
        BY <1>1, <1>4, <1>6, <2>1, <3>4 DEF Due, InFlightTo
      <4>2. tx.pc = Last - 1
        BY <1>1, <1>4, <1>6, <2>1, <2>2, <4>1 DEF InFlightTo, Carried
      <4>3. d = destination /\ Due(d) = amount
        BY <2>1, <4>1, <4>2 DEF Due, InFlightTo
      <4>. QED  BY <1>1, <1>4, <3>1, <3>2, <4>3
    <3>. QED  BY <3>3, <3>4
  <2>. QED  BY <1>3, <1>6, <2>3, <2>4 DEF LzInv, PushesCovered
<1>. QED  BY <1>7, <1>8

\* The Reset at the end clears the flag of the push it was announced to.
LEMMA ResetStep ==
  ASSUME LzInv, NEW bridge \in Bridges, Reset(bridge)
  PROVE  LzInv'
<1>1. /\ TxOK /\ chain \in Accounts /\ Last \in Nat
      /\ tx.pc = Last /\ tx.ixs[Last].integration = bridge
      /\ ~CurrentIsForeign /\ tx' = Stepped
      /\ chain' = [chain EXCEPT !.integrations[bridge] =
                     [chain.integrations[bridge] EXCEPT !.inFlight = FALSE]]
  BY TxTypes DEF LzInv, WellFormed, Reset, Accounts
<1>2. /\ chain.integrations[bridge] \in Integrations
      /\ chain.integrations[bridge].ts = 0
  BY <1>1 DEF LzInv, WellFormed, Accounts
<1>3. WellFormed(chain)'
  <2> DEFINE i == [chain.integrations[bridge] EXCEPT !.inFlight = FALSE]
  <2>1. i \in Integrations /\ i.ts = 0
    BY <1>2 DEF Integrations
  <2> HIDE DEF i
  <2>2. chain' = [chain EXCEPT !.integrations[bridge] = i]
    BY <1>1 DEF i
  <2>3. [chain.integrations EXCEPT ![bridge] = i] \in [Bridges -> Integrations]
    BY <1>1, <2>1 DEF Accounts
  <2>4. chain' \in Accounts
    BY <1>1, <2>2, <2>3 DEF Accounts
  <2>5. i.max = chain.integrations[bridge].max
        /\ i.avail = chain.integrations[bridge].avail
    BY <1>2 DEF i, Integrations
  <2>6. Charged(chain)'
    <3>1. /\ chain'.pushed = chain.pushed
          /\ \A b \in Bridges : /\ chain'.integrations[b].max = chain.integrations[b].max
                                /\ chain'.integrations[b].avail = chain.integrations[b].avail
      BY <1>1, <2>2, <2>5 DEF Accounts
    <3>. QED  BY <1>1, <2>4, <3>1, StillCharged DEF LzInv, WellFormed
  <2>. QED  BY <1>1, <2>1, <2>2, <2>4, <2>6 DEF LzInv, WellFormed, Accounts
<1>4. \A b \in Bridges : ~chain'.integrations[b].inFlight
  <2>1. ASSUME NEW b \in Bridges, b # bridge
        PROVE  ~chain.integrations[b].inFlight
    BY <1>1, <2>1 DEF LzInv, FlightsCarried, Carried
  <2>2. ~chain'.integrations[bridge].inFlight
    BY <1>1, <1>2 DEF Accounts, Integrations
  <2>3. \A b \in Bridges \ {bridge} :
          chain'.integrations[b] = chain.integrations[b]
    BY <1>1 DEF Accounts
  <2>. QED  BY <2>1, <2>2, <2>3
<1>5. TxOK'
  BY <1>1, SteppedKeeps
<1>6. PushesCovered'
  <2>1. \A d \in Destinations : Due(d) = 0 /\ Due(d)' = 0
    BY <1>1, <1>4 DEF Due, InFlightTo
  <2>2. chain'.pushed = chain.pushed /\ chain'.bridged = chain.bridged
    BY <1>1 DEF Accounts
  <2>. QED  BY <2>1, <2>2 DEF LzInv, PushesCovered
<1>. QED  BY <1>3, <1>4, <1>5, <1>6 DEF LzInv, FlightsCarried

-----------------------------------------------------------------------------
\* The other instructions and the transfers of foreign programs do not touch
\* the flags nor what was pushed and bridged.
LEMMA OtherStep ==
  ASSUME LzInv, WellFormed(chain)', Runs("Other") \/ Runs("Foreign"),
         tx' = Stepped,
         \A b \in Bridges :
           chain'.integrations[b].inFlight = chain.integrations[b].inFlight,
         chain'.pushed = chain.pushed, chain'.bridged = chain.bridged
  PROVE  LzInv'
<1>1. TxOK /\ tx.pc \in Nat /\ Running /\ Last \in Nat
  BY TxTypes DEF LzInv, Runs
<1>2. /\ TxOK' /\ tx'.ixs = tx.ixs
      /\ \/ tx'.pc = tx.pc
         \/ tx'.pc = tx.pc + 1 /\ Kind(tx.pc) \notin {"Send", "Reset"}
  BY <1>1, SteppedKeeps DEF Runs, CurrentIsForeign
<1>3. \A d \in Destinations : /\ chain'.pushed[d] = chain.pushed[d]
                              /\ chain'.bridged[d] >= chain.bridged[d]
  BY DEF LzInv, WellFormed, Accounts
<1>. QED  BY <1>1, <1>2, <1>3, Passing

\* A freeze does not touch the flags.
LEMMA ManageControllerStep ==
  ASSUME LzInv, NEW status \in ControllerStatus, ManageController(status)
  PROVE  LzInv'
<1>1. chain' = [chain EXCEPT !.controller = status] /\ chain \in Accounts
      /\ Runs("Other") /\ tx' = Stepped
  BY DEF ManageController, Instruction, LzInv, WellFormed
<1>2. WellFormed(chain)'
  <2>1. chain' \in Accounts
    BY <1>1 DEF Accounts
  <2>2. chain'.integrations = chain.integrations /\ chain'.pushed = chain.pushed
    BY <1>1 DEF Accounts
  <2>3. Charged(chain)'
    BY <1>1, <2>1, <2>2, StillCharged DEF LzInv, WellFormed
  <2>. QED  BY <1>1, <2>1, <2>3 DEF LzInv, WellFormed, Accounts
<1>3. /\ chain'.integrations = chain.integrations
      /\ chain'.pushed = chain.pushed /\ chain'.bridged = chain.bridged
  BY <1>1 DEF Accounts
<1>. QED  BY <1>1, <1>2, <1>3, OtherStep

\* A suspension in the middle of a push leaves its flag to the Reset.
LEMMA ManageIntegrationStep ==
  ASSUME LzInv, NEW bridge \in Bridges, NEW status \in {"Active", "Suspended"},
         ManageIntegration(bridge, status)
  PROVE  LzInv'
<1> DEFINE i == RefreshRateLimit(chain.integrations[bridge], clock)
           j == [i EXCEPT !.status = status]
<1>1. /\ chain \in Accounts /\ Runs("Other") /\ tx' = Stepped
      /\ chain' = [chain EXCEPT !.integrations[bridge] = j]
  BY DEF ManageIntegration, Instruction, LzInv, WellFormed, Accounts
<1>2. /\ chain.integrations[bridge] \in Integrations
      /\ chain.integrations[bridge].ts = 0
  BY <1>1 DEF LzInv, WellFormed, Accounts
<1>3. /\ i \in Integrations /\ i.ts = 0
      /\ i.inFlight = chain.integrations[bridge].inFlight
      /\ i.max = chain.integrations[bridge].max
      /\ i.avail = chain.integrations[bridge].avail
  BY <1>2, RefreshInBlock
<1> HIDE DEF i
<1>4. /\ j \in Integrations /\ j.ts = 0
      /\ j.inFlight = chain.integrations[bridge].inFlight
      /\ j.max = chain.integrations[bridge].max
      /\ j.avail = chain.integrations[bridge].avail
  BY <1>3 DEF Integrations
<1> HIDE DEF j
<1>5. WellFormed(chain)'
  <2>1. [chain.integrations EXCEPT ![bridge] = j] \in [Bridges -> Integrations]
    BY <1>1, <1>4 DEF Accounts
  <2>2. chain' \in Accounts
    BY <1>1, <2>1 DEF Accounts
  <2>3. /\ chain'.pushed = chain.pushed
        /\ \A b \in Bridges : /\ chain'.integrations[b].max = chain.integrations[b].max
                              /\ chain'.integrations[b].avail = chain.integrations[b].avail
    BY <1>1, <1>4 DEF Accounts
  <2>4. Charged(chain)'
    BY <1>1, <2>2, <2>3, StillCharged DEF LzInv, WellFormed
  <2>. QED  BY <1>1, <1>4, <2>2, <2>4 DEF LzInv, WellFormed, Accounts
<1>6. /\ \A b \in Bridges :
           chain'.integrations[b].inFlight = chain.integrations[b].inFlight
      /\ chain'.pushed = chain.pushed /\ chain'.bridged = chain.bridged
  BY <1>1, <1>4 DEF Accounts
<1>. QED  BY <1>1, <1>5, <1>6, OtherStep

\* Transfers change what the vault and the authority hold.
LEMMA ForeignTransferStep ==
  ASSUME LzInv, NEW holder \in {"source", "vault"}, NEW amount \in Amounts,
         ForeignTransfer(holder, amount)
  PROVE  LzInv'
<1>1. PICK left \in 0 .. Supply : chain' = [chain EXCEPT ![holder] = left]
  <2>1. chain[holder] \in 0 .. Supply /\ Supply \in Nat /\ amount \in Nat
    <3>1. chain.source \in 0 .. Supply /\ chain.vault \in 0 .. Supply
      BY DEF LzInv, WellFormed, Accounts
    <3>2. Supply \in Nat /\ amount \in Nat
      BY DEF U64
    <3>3. CASE holder = "source"
      BY <3>1, <3>2, <3>3
    <3>4. CASE holder = "vault"
      BY <3>1, <3>2, <3>4
    <3>. QED  BY <3>3, <3>4
  <2>2. CASE /\ chain[holder] + amount <= Supply
             /\ chain' = [chain EXCEPT ![holder] = @ + amount]
    <3>1. chain[holder] + amount \in 0 .. Supply
      BY <2>1, <2>2
    <3>. QED  BY <2>2, <3>1
  <2>3. CASE /\ amount <= chain[holder]
             /\ chain' = [chain EXCEPT ![holder] = @ - amount]
    <3>1. chain[holder] - amount \in 0 .. Supply
      BY <2>1, <2>3
    <3>. QED  BY <2>3, <3>1
  <2>. QED  BY <2>2, <2>3 DEF ForeignTransfer
<1>2. chain \in Accounts /\ Runs("Foreign") /\ tx' = Stepped
  BY DEF LzInv, WellFormed, ForeignTransfer
<1>3. WellFormed(chain)'
  <2>1. chain' \in Accounts
    BY <1>1, <1>2 DEF Accounts
  <2>2. chain'.integrations = chain.integrations /\ chain'.pushed = chain.pushed
    BY <1>1, <1>2 DEF Accounts
  <2>3. Charged(chain)'
    BY <1>2, <2>1, <2>2, StillCharged DEF LzInv, WellFormed
  <2>. QED  BY <1>1, <1>2, <2>1, <2>3 DEF LzInv, WellFormed, Accounts
<1>4. /\ chain'.integrations = chain.integrations
      /\ chain'.pushed = chain.pushed /\ chain'.bridged = chain.bridged
  BY <1>1, <1>2 DEF Accounts
<1>. QED  BY <1>2, <1>3, <1>4, OtherStep

-----------------------------------------------------------------------------
\* Every step keeps the invariant.
LEMMA NextStep == LzInv /\ [Next]_lzVars => LzInv'
<1> SUFFICES ASSUME LzInv, [Next]_lzVars PROVE LzInv'
  OBVIOUS
<1>1. CASE UNCHANGED lzVars
  BY <1>1 DEF lzVars, LzInv, WellFormed, TxOK, FlightsCarried, Carried,
              PushesCovered, Due, InFlightTo, Last, Kind
<1>2. CASE Next
  BY <1>2, ScheduleStep, PushStep, SendStep, ResetStep, ManageControllerStep,
     ManageIntegrationStep, ForeignTransferStep DEF Next
<1>. QED  BY <1>1, <1>2

\* Between two transactions no instruction is left to carry a push.
LEMMA InvImplies ==
  ASSUME LzInv
  PROVE  LzTypeOK /\ NoneInFlight /\ BridgedCoversPushed /\ LimitsCharged
<1>1. LzTypeOK
  BY DEF LzInv, WellFormed, Accounts, LzTypeOK
<1>2. NoneInFlight
  <2>1. Idle => Last = 0
    BY TxTypes DEF LzInv
  <2>2. Idle => \A b \in Bridges : ~Carried(b)
    BY <2>1 DEF Carried
  <2>. QED  BY <2>2 DEF LzInv, FlightsCarried, NoneInFlight
<1>3. BridgedCoversPushed
  <2> SUFFICES ASSUME Idle, NEW d \in Destinations
               PROVE  chain.pushed[d] <= chain.bridged[d]
    BY DEF BridgedCoversPushed
  <2>1. Due(d) = 0
    BY <1>2 DEF NoneInFlight, Due, InFlightTo
  <2>. QED  BY <2>1 DEF LzInv, PushesCovered, WellFormed, Accounts
<1>4. LimitsCharged
  BY DEF LzInv, WellFormed, Charged, ChargedTo, LimitsCharged
<1>. QED  BY <1>1, <1>2, <1>3, <1>4

\* The accounts keep their types at every point of every transaction: no
\* balance, limit or total goes below zero or out of its width.
THEOREM LzBridgeTypeOK == Spec => []LzTypeOK
<1>. QED  BY InitHolds, NextStep, InvImplies, PTL DEF Spec

\* However transactions are composed, no push stays in flight after one.
THEOREM LzBridgeNoneInFlight == Spec => []NoneInFlight
<1>. QED  BY InitHolds, NextStep, InvImplies, PTL DEF Spec

\* What was pushed has been bridged to where the bridges are configured for.
THEOREM LzBridgeCovered == Spec => []BridgedCoversPushed
<1>. QED  BY InitHolds, NextStep, InvImplies, PTL DEF Spec

\* However many bridges share a destination, and whichever transactions fail
\* half way, what was pushed there is what their limits have lost.
THEOREM LzBridgeCharged == Spec => []LimitsCharged
<1>. QED  BY InitHolds, NextStep, InvImplies, PTL DEF Spec

-----------------------------------------------------------------------------
(***************************************************************************)
(* The reserve of this module is the component that module Reserve         *)
(* specifies.  The two modules share ReserveState, so that each operator   *)
(* of the component has the same definition here, one instance away.       *)
(***************************************************************************)
LEMMA ComponentOperators ==
  /\ \A r, v, c : Component!SyncBalance(r, v, c) = SyncBalance(r, v, c)
  /\ \A r, n : Component!UpdateForOutflow(r, n) = UpdateForOutflow(r, n)
  /\ \A r, v : Component!SyncEvent(r, v) = SyncEvent(r, v)
  /\ \A r, n : Component!WithinRateLimit(r, n) <=> WithinRateLimit(r, n)
<1>1. \A r, c : Component!RefreshRateLimit(r, c) = RefreshRateLimit(r, c)
  BY DEF Component!RefreshRateLimit, RefreshRateLimit, Component!Accrues, Accrues,
         Component!Increment, Increment, Component!Remainder, Remainder,
         Component!Accrued, Accrued, Component!SatAdd, SatAdd,
         Component!Least, Least
<1>2. \A r, n : Component!UpdateForOutflow(r, n) = UpdateForOutflow(r, n)
  BY DEF Component!UpdateForOutflow, UpdateForOutflow, Component!DebitRateLimit,
         DebitRateLimit, Component!SatSub, SatSub
<1>3. \A r, n : Component!UpdateForInflow(r, n) = UpdateForInflow(r, n)
  BY DEF Component!UpdateForInflow, UpdateForInflow, Component!CreditRateLimit,
         CreditRateLimit, Component!SatAdd, SatAdd, Component!Least, Least
<1>4. \A r, v, c : Component!SyncBalance(r, v, c) = SyncBalance(r, v, c)
  BY <1>1, <1>2, <1>3 DEF Component!SyncBalance, SyncBalance
<1>. QED
  BY <1>2, <1>4 DEF Component!SyncEvent, SyncEvent, Component!WithinRateLimit,
                    WithinRateLimit

\* A bridge's Push is a Push of the reserve: what the vault pays is booked after
\* a sync, and within the limit of the reserve.
LEMMA ComponentPush ==
  ASSUME LzInv, NEW bridge \in Bridges, NEW amount \in Amounts,
         Push(bridge, amount)
  PROVE  Component!Next
<1>1. /\ chain \in Accounts /\ chain.reserve \in Reserves
      /\ chain.reserve.avail <= chain.reserve.max /\ chain.reserve.ts = 0
      /\ chain.reserve.lastBalance \in Int
      /\ chain.vault \in U64 /\ chain.vault \in 0 .. Supply
      /\ Supply \in Nat /\ amount \in Nat \ {0}
  BY DEF LzInv, WellFormed, Accounts, Reserves, U64
<1>2. clock \in Clocks /\ clock.ts = 0
  BY DEF clock, Clocks
<1>3. Synced \in Reserves /\ Synced.lastBalance = chain.vault
  BY <1>1, <1>2, SyncKeeps DEF Synced
<1>4. /\ chain.reserve.status = "Active" /\ amount <= chain.vault
      /\ WithinRateLimit(Synced, amount)
  BY DEF Push, Payable
<1>5. /\ chain'.reserve = UpdateForOutflow(Synced, amount)
      /\ chain'.vault = chain.vault - amount
  BY <1>1 DEF Push, Accounts
<1>6. UpdateForOutflow(Synced, amount).lastBalance = chain.vault - amount
  BY <1>3 DEF UpdateForOutflow, DebitRateLimit, Reserves
<1>7. chain'.reserve.lastBalance =
        chain.reserve.lastBalance + SyncEvent(chain.reserve, chain.vault) - amount
  BY <1>1, <1>5, <1>6 DEF SyncEvent
<1>8. Component!Push(amount)
  BY <1>4, <1>5, <1>7, ComponentOperators
     DEF Component!Push, Component!Synced, Synced, clock
<1>9. amount \in 1 .. Supply
  BY <1>1, <1>4
<1>. QED  BY <1>8, <1>9 DEF Component!Next

LEMMA ComponentTransfer ==
  ASSUME LzInv, NEW holder \in {"source", "vault"}, NEW amount \in Amounts,
         ForeignTransfer(holder, amount)
  PROVE  Component!Next \/ UNCHANGED <<chain.reserve, chain.vault>>
<1>1. /\ chain \in Accounts /\ chain.vault \in 0 .. Supply
      /\ Supply \in Nat /\ amount \in Nat \ {0}
  BY DEF LzInv, WellFormed, Accounts, U64
<1>2. CASE holder = "source"
  BY <1>1, <1>2 DEF ForeignTransfer, Accounts
<1>3. CASE holder = "vault"
  <2>1. /\ chain'.reserve = chain.reserve
        /\ \/ chain.vault + amount <= Supply /\ chain'.vault = chain.vault + amount
           \/ amount <= chain.vault /\ chain'.vault = chain.vault - amount
    BY <1>1, <1>3 DEF ForeignTransfer, Accounts
  <2>2. Component!Deposit(amount) \/ Component!Seize(amount)
    BY <2>1 DEF Component!Deposit, Component!Seize, clock
  <2>3. amount \in 1 .. Supply
    BY <1>1, <2>1
  <2>. QED  BY <2>2, <2>3 DEF Component!Next
<1>. QED  BY <1>2, <1>3

\* The other instructions, and what happens to a transaction as a whole.
LEMMA ComponentRests ==
  ASSUME LzInv,
         \/ \E amount \in Amounts, destination \in Destinations :
              Send(amount, destination)
         \/ \E bridge \in Bridges : Reset(bridge)
         \/ \E status \in ControllerStatus : ManageController(status)
         \/ \E bridge \in Bridges, status \in {"Active", "Suspended"} :
              ManageIntegration(bridge, status)
  PROVE  UNCHANGED <<chain.reserve, chain.vault>>
<1>1. chain \in Accounts
  BY DEF LzInv, WellFormed
<1>. QED
  BY <1>1 DEF Send, Reset, ManageController, ManageIntegration, Instruction, Accounts

LEMMA ComponentNext ==
  ASSUME LzInv, [Next]_lzVars
  PROVE  RolledBack \/ Component!Next \/ UNCHANGED <<chain.reserve, chain.vault>>
<1>1. CASE Schedule
  BY <1>1 DEF Schedule, Begin, ForeignReturns, Commit, Abort, RolledBack
<1>2. CASE UNCHANGED lzVars
  BY <1>2 DEF lzVars
<1>. QED
  BY <1>1, <1>2, ComponentPush, ComponentTransfer, ComponentRests DEF Next

\* However transactions are composed, each instruction of theirs does to the
\* reserve what an operation of module Reserve does, or nothing.
THEOREM LzBridgeReserveIsComponent == Spec => ReserveIsComponent
<1>1. LzInv /\ [Next]_lzVars
        => [\/ RolledBack \/ Component!Next
            \/ UNCHANGED <<chain.reserve, chain.vault>>]_lzVars
  BY ComponentNext
<1>. QED  BY <1>1, InitHolds, NextStep, PTL DEF Spec, ReserveIsComponent
=============================================================================
