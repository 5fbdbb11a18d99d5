----------------------------- MODULE OracleProofs -----------------------------
(***************************************************************************)
(* Proofs of OracleProps for any number of controllers, authorities, feeds *)
(* and tokens, and for every quote.                                        *)
(***************************************************************************)
EXTENDS OracleProps, TLAPS

LEMMA OpenOracle ==
  ASSUME OracleTypeOK, IsOpen
  PROVE  oracle \in Oracles /\ oracle # NoOracle
BY DEF OracleTypeOK, IsOpen, NoOracle

LEMMA OpenIntegration ==
  ASSUME OracleTypeOK, CanSwap
  PROVE  integration \in Integrations
BY DEF OracleTypeOK, CanSwap, NoIntegration

\* With a new feed an oracle is an oracle that has no price.
LEMMA FedOracle ==
  ASSUME NEW o \in Oracles, NEW feed \in Feeds
  PROVE  /\ WithFeed(o, feed) \in Oracles
         /\ WithFeed(o, feed).feed = feed
         /\ WithFeed(o, feed).value = 0
         /\ WithFeed(o, feed).slot = 0
         /\ WithFeed(o, feed).base = o.base /\ WithFeed(o, feed).quote = o.quote
<1> DEFINE p == [o EXCEPT !.feed = feed]
           q == [p EXCEPT !.value = 0]
           r == [q EXCEPT !.slot = 0]
<1>1. p \in Oracles /\ p.feed = feed /\ p.base = o.base /\ p.quote = o.quote
  BY DEF Oracles
<1>2. r = WithFeed(o, feed)
  BY DEF p, q, r, WithFeed
<1> HIDE DEF p
<1>3. /\ q \in Oracles /\ q.feed = feed /\ q.value = 0
      /\ q.base = o.base /\ q.quote = o.quote
  BY <1>1 DEF Oracles
<1> HIDE DEF q
<1>4. /\ r \in Oracles /\ r.feed = feed /\ r.value = 0 /\ r.slot = 0
      /\ r.base = o.base /\ r.quote = o.quote
  BY <1>3 DEF Oracles
<1> QED BY <1>2, <1>4

\* An update of an oracle is an oracle, with the feed and the authority given.
LEMMA UpdatedOracle ==
  ASSUME NEW o \in Oracles, NEW feed \in Feeds \cup {NoOne},
         NEW authority \in Authorities \cup {NoOne}
  PROVE  LET fed == IF feed = NoOne THEN o ELSE WithFeed(o, feed)
             new == WithAuthority(fed, authority)
         IN  /\ new \in Oracles /\ new.base = o.base /\ new.quote = o.quote
             /\ feed = NoOne => new.feed = o.feed /\ new.value = o.value
                                  /\ new.slot = o.slot
             /\ feed # NoOne => new.feed = feed /\ new.value = 0 /\ new.slot = 0
<1> DEFINE fed == IF feed = NoOne THEN o ELSE WithFeed(o, feed)
<1>1. /\ fed \in Oracles /\ fed.base = o.base /\ fed.quote = o.quote
      /\ feed = NoOne => fed = o
      /\ feed # NoOne => fed.feed = feed /\ fed.value = 0 /\ fed.slot = 0
  BY FedOracle
<1>2. CASE authority = NoOne
  BY <1>1, <1>2 DEF WithAuthority
<1>3. CASE authority # NoOne
  <2>1. authority \in Authorities
    BY <1>3
  <2>2. WithAuthority(fed, authority) = [fed EXCEPT !.authority = authority]
    BY <1>3 DEF WithAuthority
  <2> HIDE DEF fed
  <2>3. /\ [fed EXCEPT !.authority = authority] \in Oracles
        /\ [fed EXCEPT !.authority = authority].feed = fed.feed
        /\ [fed EXCEPT !.authority = authority].value = fed.value
        /\ [fed EXCEPT !.authority = authority].slot = fed.slot
        /\ [fed EXCEPT !.authority = authority].base = fed.base
        /\ [fed EXCEPT !.authority = authority].quote = fed.quote
    BY <1>1, <2>1 DEF Oracles
  <2> QED BY <1>1, <2>2, <2>3 DEF fed
<1> QED BY <1>2, <1>3

LEMMA CopiedOracle ==
  ASSUME NEW o \in Oracles, NEW s \in Slots
  PROVE  /\ Copied(o, s) \in Oracles
         /\ Copied(o, s).feed = o.feed /\ Copied(o, s).authority = o.authority
         /\ Copied(o, s).slot = s /\ Copied(o, s).value = Quote[o.feed][s]
         /\ Copied(o, s).base = o.base /\ Copied(o, s).quote = o.quote
<1>1. Quote[o.feed][s] \in Int
  BY OracleAssumption DEF Oracles
<1>2. s \in Nat
  BY OracleAssumption DEF Slots
<1> QED BY <1>1, <1>2 DEF Copied, Oracles

-----------------------------------------------------------------------------
\* Every step keeps the types.
LEMMA OracleTypeStep == OracleTypeOK /\ [Next]_oracleVars => OracleTypeOK'
<1> SUFFICES ASSUME OracleTypeOK, [Next]_oracleVars PROVE OracleTypeOK'
  OBVIOUS
<1> USE OracleAssumption
<1>1. CASE NextBlock
  BY <1>1 DEF NextBlock, OracleTypeOK, Slots
<1>2. ASSUME NEW authority \in Authorities, NEW controller \in Controllers,
             NEW feed \in Feeds, NEW base \in Tokens, NEW quote \in Tokens,
             InitializeOracle(controller, authority, feed, base, quote)
      PROVE  OracleTypeOK'
  <2>1. oracle' \in Oracles
    BY <1>2 DEF InitializeOracle, Oracles
  <2> QED BY <1>2, <2>1 DEF InitializeOracle, OracleTypeOK
<1>3. ASSUME NEW authority \in Authorities, NEW controller \in Controllers,
             NEW feed \in Feeds \cup {NoOne},
             NEW newAuthority \in Authorities \cup {NoOne},
             UpdateOracle(controller, authority, feed, newAuthority)
      PROVE  OracleTypeOK'
  <2>1. oracle' \in Oracles
    BY <1>3, OpenOracle, UpdatedOracle DEF UpdateOracle
  <2> QED BY <1>3, <2>1 DEF UpdateOracle, OracleTypeOK
<1>4. ASSUME NEW authority \in Authorities, NEW s \in Slots,
             RefreshOracle(authority, s)
      PROVE  OracleTypeOK'
  <2>1. oracle' \in Oracles
    BY <1>4, OpenOracle, CopiedOracle DEF RefreshOracle
  <2> QED BY <1>4, <2>1 DEF RefreshOracle, OracleTypeOK
<1>5. ASSUME NEW authority \in Authorities, NEW controller \in Controllers,
             NEW input \in Tokens, NEW output \in Tokens,
             NEW inverted \in BOOLEAN, NEW slippage \in Slippages,
             NEW maxStaleness \in MaxStalenesses,
             InitializeAtomicSwap(controller, authority, input, output,
                                  inverted, slippage, maxStaleness)
      PROVE  OracleTypeOK'
  <2>1. integration' \in Integrations
    BY <1>5 DEF InitializeAtomicSwap, Integrations
  <2> QED BY <1>5, <2>1 DEF InitializeAtomicSwap, OracleTypeOK
<1>6. ASSUME NEW authority \in Authorities, Borrow(authority)
      PROVE  OracleTypeOK'
  BY <1>6 DEF Borrow, OracleTypeOK, ControllerStatus
<1>7. ASSUME NEW authority \in Authorities,
             NEW input \in Amounts, NEW output \in Amounts,
             Repay(authority, input, output)
      PROVE  OracleTypeOK'
  <2>1. swap' \in Swaps
    BY <1>7 DEF Repay, Swaps
  <2>2. controllers' \in [Controllers -> ControllerStatus]
    BY <1>7 DEF Repay, OracleTypeOK, ControllerStatus
  <2> QED BY <1>7, <2>1, <2>2 DEF Repay, OracleTypeOK
<1>8. ASSUME NEW authority \in Authorities, NEW controller \in Controllers,
             NEW status \in ControllerStatus,
             ManageController(controller, authority, status)
      PROVE  OracleTypeOK'
  BY <1>8 DEF ManageController, OracleTypeOK
<1>9. CASE UNCHANGED oracleVars
  BY <1>9 DEF oracleVars, OracleTypeOK
<1> QED BY <1>1, <1>2, <1>3, <1>4, <1>5, <1>6, <1>7, <1>8, <1>9 DEF Next

LEMMA OracleInit == Init => OracleTypeOK /\ PriceIsQuoted
BY OracleAssumption
   DEF Init, OracleTypeOK, PriceIsQuoted, IsOpen, Slots, ControllerStatus,
       NoOracle

\* The types hold in every reachable state: a placeholder for an account that
\* is not given never becomes the authority or the feed of an oracle.
THEOREM OracleTypes == Spec => []OracleTypeOK
BY OracleInit, OracleTypeStep, PTL DEF Spec

-----------------------------------------------------------------------------
\* No step but an update or a refresh touches the oracle once it is open.
LEMMA PriceStep ==
  OracleTypeOK /\ PriceIsQuoted /\ [Next]_oracleVars => PriceIsQuoted'
<1> SUFFICES ASSUME OracleTypeOK, PriceIsQuoted, [Next]_oracleVars, IsOpen'
             PROVE  \/ oracle'.slot = 0 /\ oracle'.value = 0
                    \/ /\ oracle'.slot \in 1 .. slot'
                       /\ oracle'.value = Quote[oracle'.feed][oracle'.slot]
  BY DEF PriceIsQuoted
<1> DEFINE Goal == \/ oracle'.slot = 0 /\ oracle'.value = 0
                   \/ /\ oracle'.slot \in 1 .. slot'
                      /\ oracle'.value = Quote[oracle'.feed][oracle'.slot]
<1> USE OracleAssumption
<1>a. slot \in Nat
  BY DEF OracleTypeOK, Slots
<1>b. CASE oracle' = oracle /\ slot' \in {slot, slot + 1}
  <2>1. IsOpen
    BY <1>b DEF IsOpen
  <2> QED BY <1>a, <1>b, <2>1 DEF PriceIsQuoted
<1>2. ASSUME NEW authority \in Authorities, NEW controller \in Controllers,
             NEW feed \in Feeds, NEW base \in Tokens, NEW quote \in Tokens,
             InitializeOracle(controller, authority, feed, base, quote)
      PROVE  Goal
  BY <1>2 DEF InitializeOracle
<1>3. ASSUME NEW authority \in Authorities, NEW controller \in Controllers,
             NEW feed \in Feeds \cup {NoOne},
             NEW newAuthority \in Authorities \cup {NoOne},
             UpdateOracle(controller, authority, feed, newAuthority)
      PROVE  Goal
  <2>1. oracle \in Oracles /\ IsOpen
    BY <1>3, OpenOracle DEF UpdateOracle
  <2>2. CASE feed = NoOne
    <3>1. /\ oracle'.feed = oracle.feed /\ oracle'.value = oracle.value
          /\ oracle'.slot = oracle.slot /\ slot' = slot
      BY <1>3, <2>1, <2>2, UpdatedOracle DEF UpdateOracle
    <3> QED BY <2>1, <3>1 DEF PriceIsQuoted
  <2>3. CASE feed # NoOne
    BY <1>3, <2>1, <2>3, UpdatedOracle DEF UpdateOracle
  <2> QED BY <2>2, <2>3
<1>4. ASSUME NEW authority \in Authorities, NEW s \in Slots,
             RefreshOracle(authority, s)
      PROVE  Goal
  <2>1. /\ oracle'.feed = oracle.feed /\ oracle'.slot = s
        /\ oracle'.value = Quote[oracle.feed][s]
        /\ s <= slot /\ slot' = slot /\ s \in 1 .. LastSlot
    BY <1>4, OpenOracle, CopiedOracle DEF RefreshOracle, Slots
  <2> QED BY <1>a, <2>1
<1>5. CASE \/ NextBlock
           \/ \E authority \in Authorities :
                \/ \E controller \in Controllers, input, output \in Tokens,
                      inverted \in BOOLEAN, slippage \in Slippages,
                      maxStaleness \in MaxStalenesses :
                     InitializeAtomicSwap(controller, authority, input, output,
                                          inverted, slippage, maxStaleness)
                \/ Borrow(authority)
                \/ \E input, output \in Amounts :
                     Repay(authority, input, output)
                \/ \E controller \in Controllers, status \in ControllerStatus :
                     ManageController(controller, authority, status)
           \/ UNCHANGED oracleVars
  BY <1>5, <1>b DEF NextBlock, InitializeAtomicSwap, Borrow, Repay,
                    ManageController, oracleVars
<1> QED BY <1>2, <1>3, <1>4, <1>5 DEF Next

\* A price is the quote, at the price's own slot, of the feed registered now.
THEOREM OraclePriceIsQuoted == Spec => []PriceIsQuoted
BY OracleInit, OracleTypeStep, PriceStep, PTL DEF Spec

-----------------------------------------------------------------------------
LEMMA ConfigStep ==
  ASSUME OracleTypeOK, [Next]_oracleVars, IsOpen,
         <<oracle.feed, oracle.authority>> # <<oracle'.feed, oracle'.authority>>
  PROVE  /\ signer' = oracle.authority
         /\ controllers[oracle.controller] = "Active"
<1>1. PICK authority \in Authorities, controller \in Controllers,
           feed \in Feeds \cup {NoOne},
           newAuthority \in Authorities \cup {NoOne} :
        UpdateOracle(controller, authority, feed, newAuthority)
  <2>1. oracle' # oracle
    OBVIOUS
  <2>2. ASSUME NEW authority \in Authorities, NEW s \in Slots,
               RefreshOracle(authority, s)
        PROVE  FALSE
    BY <2>2, OpenOracle, CopiedOracle DEF RefreshOracle
  <2>3. ASSUME NEW authority \in Authorities, NEW controller \in Controllers,
               NEW feed \in Feeds, NEW base \in Tokens, NEW quote \in Tokens,
               InitializeOracle(controller, authority, feed, base, quote)
        PROVE  FALSE
    BY <2>3 DEF InitializeOracle
  <2> QED BY <2>1, <2>2, <2>3 DEF Next, NextBlock, InitializeAtomicSwap, Borrow,
               Repay, ManageController, oracleVars
<1>2. controllers[controller] \in ControllerStatus
  BY DEF OracleTypeOK
<1> QED BY <1>1, <1>2 DEF UpdateOracle, CheckData, Halted, ControllerStatus

\* The configuration of an oracle is its authority's alone, and rests while
\* its controller is frozen or swaps.
THEOREM OracleConfigGuarded == Spec => ConfigGuarded
<1>1. OracleTypeOK /\ [Next]_oracleVars
        => [IsOpen
              /\ <<oracle.feed, oracle.authority>>
                   # <<oracle'.feed, oracle'.authority>>
            => /\ signer' = oracle.authority
               /\ controllers[oracle.controller] = "Active"]_oracleVars
  BY ConfigStep
<1> QED BY <1>1, OracleTypes, PTL DEF Spec, ConfigGuarded

-----------------------------------------------------------------------------
\* Arithmetic of products and quotients.
LEMMA ProductNat == ASSUME NEW a \in Nat, NEW b \in Nat PROVE a * b \in Nat
OBVIOUS

LEMMA ProductMonotone ==
  ASSUME NEW a \in Int, NEW b \in Int, NEW c \in Nat, a <= b
  PROVE  a * c <= b * c
OBVIOUS

LEMMA ProductCancel ==
  ASSUME NEW a \in Int, NEW b \in Int, NEW c \in Nat \ {0}, a * c <= b * c
  PROVE  a <= b
OBVIOUS

LEMMA Quotient ==
  ASSUME NEW n \in Nat, NEW d \in Nat \ {0}
  PROVE  /\ n \div d \in Nat
         /\ d * (n \div d) <= n
         /\ n < d * (n \div d) + d
OBVIOUS

\* checked_ceil_div, of a dividend that is not negative and a positive
\* divisor, is never less than the exact quotient.
LEMMA CeilCovers ==
  ASSUME NEW n \in Nat, NEW d \in Nat \ {0}
  PROVE  CeilDiv(n, d) \in Nat /\ n <= CeilDiv(n, d) * d
<1>1. TruncDiv(n, d) = n \div d
  BY DEF TruncDiv, Magnitude
<1> DEFINE q == n \div d
<1>2. q \in Nat /\ d * q <= n /\ n < d * q + d
  BY Quotient
<1>3. CeilDiv(n, d) = IF n - d * q > 0 THEN q + 1 ELSE q
  BY <1>1 DEF CeilDiv
<1> HIDE DEF q
<1>4. CASE n - d * q > 0
  <2>1. CeilDiv(n, d) = q + 1
    BY <1>3, <1>4
  <2>2. (q + 1) * d = d * q + d
    BY <1>2
  <2> QED BY <1>2, <2>1, <2>2
<1>5. CASE ~(n - d * q > 0)
  <2>1. CeilDiv(n, d) = q
    BY <1>3, <1>5
  <2>2. d * q \in Nat /\ q * d = d * q
    BY <1>2
  <2> QED BY <1>2, <1>5, <2>1, <2>2
<1> QED BY <1>4, <1>5

\* calc_swap_price is never more than the exact price, in either branch.
LEMMA SwapPriceCovered ==
  ASSUME NEW in \in Tokens, NEW out \in Tokens,
         NEW input \in Nat \ {0}, NEW output \in Nat
  PROVE  /\ CalcSwapPrice(in, out, input, output) \in Nat
         /\ (CalcSwapPrice(in, out, input, output) * input) * Factor[out]
              <= (output * Factor[in]) * Precision
<1> DEFINE step1 == output * Factor[in]
           f == Factor[out]
<1>1. Factor[in] \in Nat \ {0} /\ f \in Nat \ {0} /\ Precision \in Nat \ {0}
  BY PricingAssumption DEF Tokens
<1>2. step1 \in Nat
  BY <1>1, ProductNat
<1>3. CalcSwapPrice(in, out, input, output)
        = IF step1 * Precision <= I128Max
            THEN ((step1 * Precision) \div input) \div f
            ELSE ((step1 \div f) * Precision) \div input
  BY DEF CalcSwapPrice
<1> HIDE DEF step1, f
<1>4. step1 * Precision \in Nat
  BY <1>1, <1>2, ProductNat
<1>5. CASE step1 * Precision <= I128Max
  <2> DEFINE p == (step1 * Precision) \div input
             q == p \div f
  <2>1. p \in Nat /\ input * p <= step1 * Precision
    BY <1>4, Quotient
  <2> HIDE DEF p
  <2>2. q \in Nat /\ f * q <= p
    BY <1>1, <2>1, Quotient
  <2> HIDE DEF q
  <2>3. (f * q) * input <= p * input
    BY <1>1, <2>1, <2>2, ProductNat, ProductMonotone
  <2>4. (f * q) * input = (q * input) * f /\ p * input = input * p
    BY <1>1, <2>1, <2>2
  <2>5. CalcSwapPrice(in, out, input, output) = q
    BY <1>3, <1>5 DEF p, q
  <2>6. /\ (q * input) * f \in Int /\ input * p \in Int
        /\ step1 * Precision \in Int
    BY <1>1, <1>4, <2>1, <2>2, ProductNat
  <2>7. (q * input) * f <= step1 * Precision
    BY <2>1, <2>3, <2>4, <2>6
  <2> QED BY <2>2, <2>5, <2>7 DEF step1, f
<1>6. CASE ~(step1 * Precision <= I128Max)
  <2> DEFINE p == step1 \div f
             q == (p * Precision) \div input
  <2>1. p \in Nat /\ f * p <= step1
    BY <1>1, <1>2, Quotient
  <2> HIDE DEF p
  <2>2. q \in Nat /\ input * q <= p * Precision
    BY <1>1, <2>1, ProductNat, Quotient
  <2> HIDE DEF q
  <2>3. (input * q) * f <= (p * Precision) * f
    BY <1>1, <2>1, <2>2, ProductNat, ProductMonotone
  <2>4. (f * p) * Precision <= step1 * Precision
    BY <1>1, <1>2, <2>1, ProductNat, ProductMonotone
  <2>5. (input * q) * f = (q * input) * f
        /\ (p * Precision) * f = (f * p) * Precision
    BY <1>1, <2>1, <2>2
  <2>6. CalcSwapPrice(in, out, input, output) = q
    BY <1>3, <1>6 DEF p, q
  <2>7. /\ (q * input) * f \in Int /\ (f * p) * Precision \in Int
        /\ step1 * Precision \in Int
    BY <1>1, <1>4, <2>1, <2>2, ProductNat
  <2>8. (q * input) * f <= step1 * Precision
    BY <2>3, <2>4, <2>5, <2>7
  <2> QED BY <2>2, <2>6, <2>8 DEF step1, f
<1> QED BY <1>5, <1>6

\* What is kept after the slippage is a natural number.
LEMMA KeptNat ==
  ASSUME NEW slippage \in Nat
  PROVE  KeptBps(slippage) \in Nat
BY PricingAssumption DEF KeptBps

\* An accepted price is at least the oracle's, exactly and less the slippage.
LEMMA AcceptedCovers ==
  ASSUME NEW in \in Tokens, NEW out \in Tokens, NEW input \in Nat \ {0},
         NEW output \in Nat, NEW slippage \in Nat, NEW price \in Nat,
         SlippageAccepted(in, out, input, output, slippage, price)
  PROVE  ((price * KeptBps(slippage)) * input) * Factor[out]
           <= ((output * Factor[in]) * Precision) * BpsDenominator
<1> DEFINE kept == KeptBps(slippage)
           least == CeilDiv(price * kept, BpsDenominator)
           got == CalcSwapPrice(in, out, input, output)
           f == Factor[out]
           worth == (output * Factor[in]) * Precision
           bps == BpsDenominator
<1>1. f \in Nat \ {0} /\ bps \in Nat \ {0} /\ Factor[in] \in Nat
      /\ Precision \in Nat
  BY PricingAssumption DEF Tokens
<1>2. kept \in Nat
  BY KeptNat
<1>3. worth \in Nat
  BY <1>1, ProductNat
<1>4. got \in Nat /\ (got * input) * f <= worth
  BY SwapPriceCovered
<1>5. least <= got
  BY DEF SlippageAccepted
<1>6. price * kept \in Nat
  BY <1>2, ProductNat
<1>7. least \in Nat /\ price * kept <= least * bps
  BY <1>1, <1>6, CeilCovers
<1> HIDE DEF kept, least, got, f, worth, bps
<1>8. input * f \in Nat
  BY <1>1, ProductNat
<1>9. (price * kept) * (input * f) <= (least * bps) * (input * f)
  BY <1>1, <1>6, <1>7, <1>8, ProductNat, ProductMonotone
<1>10. bps * (input * f) \in Nat
  BY <1>1, <1>8, ProductNat
<1>11. least * (bps * (input * f)) <= got * (bps * (input * f))
  BY <1>4, <1>5, <1>7, <1>10, ProductMonotone
<1>12. ((got * input) * f) * bps <= worth * bps
  BY <1>1, <1>3, <1>4, ProductNat, ProductMonotone
<1>13. (price * kept) * (input * f) = ((price * kept) * input) * f
  BY <1>1, <1>6
<1>14. (least * bps) * (input * f) = least * (bps * (input * f))
  BY <1>1, <1>7, <1>8
<1>15. got * (bps * (input * f)) = ((got * input) * f) * bps
  BY <1>1, <1>4
<1>16. /\ ((price * kept) * input) * f \in Int
       /\ least * (bps * (input * f)) \in Int
       /\ ((got * input) * f) * bps \in Int
       /\ worth * bps \in Int
  BY <1>1, <1>3, <1>4, <1>6, <1>7, <1>10, ProductNat
<1>17. ((price * kept) * input) * f <= worth * bps
  BY <1>9, <1>11, <1>12, <1>13, <1>14, <1>15, <1>16
<1> QED BY <1>17 DEF kept, f, worth, bps

\* The same for the two directions: a price as it is, and an inverted one.
LEMMA WorthDirect ==
  ASSUME NEW in \in Tokens, NEW out \in Tokens, NEW input \in Nat \ {0},
         NEW output \in Nat, NEW slippage \in Nat, NEW value \in Nat \ {0},
         SlippageAccepted(in, out, input, output, slippage, value)
  PROVE  (output * Factor[in] * BpsDenominator) * Precision
           >= (input * Factor[out] * KeptBps(slippage)) * value
<1> DEFINE kept == KeptBps(slippage)
           f == Factor[out]
           g == Factor[in]
           bps == BpsDenominator
<1>1. /\ f \in Nat /\ g \in Nat /\ bps \in Nat /\ Precision \in Nat
      /\ kept \in Nat
  BY PricingAssumption, KeptNat DEF Tokens
<1>2. ((value * kept) * input) * f <= ((output * g) * Precision) * bps
  BY AcceptedCovers
<1> HIDE DEF kept, f, g, bps
<1>3. ((value * kept) * input) * f = (input * f * kept) * value
  BY <1>1
<1>4. ((output * g) * Precision) * bps = (output * g * bps) * Precision
  BY <1>1
<1>5. (input * f * kept) * value \in Int /\ (output * g * bps) * Precision \in Int
  BY <1>1, ProductNat
<1>6. (output * g * bps) * Precision >= (input * f * kept) * value
  BY <1>2, <1>3, <1>4, <1>5
<1> QED BY <1>6 DEF kept, f, g, bps

LEMMA WorthInverted ==
  ASSUME NEW in \in Tokens, NEW out \in Tokens, NEW input \in Nat \ {0},
         NEW output \in Nat, NEW slippage \in Nat, NEW value \in Nat \ {0},
         SlippageAccepted(in, out, input, output, slippage,
                          CeilDiv(Precision * Precision, value))
  PROVE  (output * Factor[in] * BpsDenominator) * value
           >= (input * Factor[out] * KeptBps(slippage)) * Precision
<1> DEFINE kept == KeptBps(slippage)
           f == Factor[out]
           g == Factor[in]
           bps == BpsDenominator
           P == Precision
           c == CeilDiv(P * P, value)
<1>1. /\ f \in Nat /\ g \in Nat /\ bps \in Nat /\ P \in Nat \ {0}
      /\ kept \in Nat
  BY PricingAssumption, KeptNat DEF Tokens
<1>2. c \in Nat /\ P * P <= c * value
  BY <1>1, ProductNat, CeilCovers
<1>3. ((c * kept) * input) * f <= ((output * g) * P) * bps
  BY <1>2, AcceptedCovers
<1> HIDE DEF kept, f, g, bps, P, c
<1> DEFINE spent == input * f * kept
           bought == output * g * bps
<1>4. spent \in Nat /\ bought \in Nat
  BY <1>1, ProductNat
<1>5. ((c * kept) * input) * f = c * spent
  BY <1>1, <1>2
<1>6. ((output * g) * P) * bps = bought * P
  BY <1>1
<1> HIDE DEF spent, bought
<1>7. (c * spent) * value <= (bought * P) * value
  <2>1. c * spent \in Nat /\ bought * P \in Nat /\ c * spent <= bought * P
    BY <1>1, <1>2, <1>3, <1>4, <1>5, <1>6, ProductNat
  <2> QED BY <2>1, ProductMonotone
<1>8. (P * P) * spent <= (c * value) * spent
  BY <1>1, <1>2, <1>4, ProductNat, ProductMonotone
<1>9. (c * value) * spent = (c * spent) * value
  BY <1>2, <1>4
<1>10. (P * P) * spent = (spent * P) * P /\ (bought * P) * value = (bought * value) * P
  BY <1>1, <1>4
<1>11. /\ (spent * P) * P \in Int /\ (bought * value) * P \in Int
       /\ (c * spent) * value \in Int
       /\ spent * P \in Int /\ bought * value \in Int
  BY <1>1, <1>2, <1>4, ProductNat
<1>12. (spent * P) * P <= (bought * value) * P
  BY <1>7, <1>8, <1>9, <1>10, <1>11
<1>13. spent * P <= bought * value
  BY <1>1, <1>11, <1>12, ProductCancel
<1>14. bought * value >= spent * P
  BY <1>11, <1>13
<1> QED BY <1>14 DEF spent, bought, kept, f, g, bps, P

-----------------------------------------------------------------------------
\* What InitializeAtomicSwap has checked stays true: the oracle keeps its
\* mints, and the clock does not go back.
SwapMatches ==
  CanSwap => /\ IsOpen
             /\ QuotesMints(integration.input, integration.output,
                            integration.inverted)
             /\ integration.input # integration.output
             /\ integration.maxStaleness < slot

LEMMA MatchesInit == Init => SwapMatches
BY DEF Init, SwapMatches, CanSwap, NoIntegration

LEMMA MatchesStep ==
  OracleTypeOK /\ SwapMatches /\ [Next]_oracleVars => SwapMatches'
<1> SUFFICES ASSUME OracleTypeOK, SwapMatches, [Next]_oracleVars, CanSwap'
             PROVE  SwapMatches'
  BY DEF SwapMatches
<1> USE OracleAssumption
<1>a. slot \in Nat
  BY DEF OracleTypeOK, Slots
<1>b. ASSUME integration' = integration, slot' \in {slot, slot + 1},
             IsOpen, IsOpen', oracle'.base = oracle.base,
             oracle'.quote = oracle.quote
      PROVE  SwapMatches'
  <2>1. CanSwap
    BY <1>b DEF CanSwap
  <2>2. integration \in Integrations
    BY <2>1, OpenIntegration
  <2>3. integration.maxStaleness \in Nat
    BY <2>2 DEF Integrations
  <2>4. integration.maxStaleness < slot'
    BY <1>a, <1>b, <2>1, <2>3 DEF SwapMatches
  <2> QED BY <1>b, <2>1, <2>4 DEF SwapMatches, QuotesMints
<1>c. CASE oracle' = oracle /\ integration' = integration
           /\ slot' \in {slot, slot + 1}
  <2>1. IsOpen
    BY <1>c DEF SwapMatches, CanSwap
  <2> QED BY <1>b, <1>c, <2>1 DEF IsOpen
<1>2. ASSUME NEW authority \in Authorities, NEW controller \in Controllers,
             NEW feed \in Feeds, NEW base \in Tokens, NEW quote \in Tokens,
             InitializeOracle(controller, authority, feed, base, quote)
      PROVE  SwapMatches'
  BY <1>2 DEF InitializeOracle, SwapMatches, CanSwap
<1>3. ASSUME NEW authority \in Authorities, NEW controller \in Controllers,
             NEW feed \in Feeds \cup {NoOne},
             NEW newAuthority \in Authorities \cup {NoOne},
             UpdateOracle(controller, authority, feed, newAuthority)
      PROVE  SwapMatches'
  <2>1. /\ oracle' \in Oracles /\ oracle'.base = oracle.base
        /\ oracle'.quote = oracle.quote
    BY <1>3, OpenOracle, UpdatedOracle DEF UpdateOracle
  <2>2. IsOpen'
    BY <2>1 DEF IsOpen, Oracles
  <2> QED BY <1>3, <1>b, <2>1, <2>2 DEF UpdateOracle
<1>4. ASSUME NEW authority \in Authorities, NEW s \in Slots,
             RefreshOracle(authority, s)
      PROVE  SwapMatches'
  <2>1. /\ oracle' \in Oracles /\ oracle'.base = oracle.base
        /\ oracle'.quote = oracle.quote
    BY <1>4, OpenOracle, CopiedOracle DEF RefreshOracle
  <2>2. IsOpen'
    BY <2>1 DEF IsOpen, Oracles
  <2> QED BY <1>4, <1>b, <2>1, <2>2 DEF RefreshOracle
<1>5. ASSUME NEW authority \in Authorities, NEW controller \in Controllers,
             NEW input \in Tokens, NEW output \in Tokens,
             NEW inverted \in BOOLEAN, NEW slippage \in Slippages,
             NEW maxStaleness \in MaxStalenesses,
             InitializeAtomicSwap(controller, authority, input, output,
                                  inverted, slippage, maxStaleness)
      PROVE  SwapMatches'
  BY <1>5 DEF InitializeAtomicSwap, SwapMatches, QuotesMints, IsOpen
<1>6. CASE \/ NextBlock
           \/ \E authority \in Authorities :
                \/ Borrow(authority)
                \/ \E input, output \in Amounts :
                     Repay(authority, input, output)
                \/ \E controller \in Controllers, status \in ControllerStatus :
                     ManageController(controller, authority, status)
           \/ UNCHANGED oracleVars
  BY <1>6, <1>c DEF NextBlock, Borrow, Repay, ManageController, oracleVars
<1> QED BY <1>2, <1>3, <1>4, <1>5, <1>6 DEF Next

LEMMA SwapMatched == Spec => []SwapMatches
BY MatchesInit, MatchesStep, OracleTypes, PTL DEF Spec

\* The price of a Repay is the quote of a recent slot, and enough was bought.
LEMMA RepayWorth ==
  ASSUME OracleTypeOK, PriceIsQuoted, SwapMatches,
         NEW authority \in Authorities,
         NEW input \in Amounts, NEW output \in Amounts,
         Repay(authority, input, output), input > 0
  PROVE  \E s \in 1 .. slot :
           /\ s >= slot - integration.maxStaleness
           /\ LET value == Quote[oracle.feed][s]
              IN  /\ oracle.value = value
                  /\ value > 0 =>
                       WorthIt(integration.input, input, output,
                               value, KeptBps(integration.slippage))
<1> USE OracleAssumption
<1>1. /\ CanSwap /\ IsOpen /\ integration \in Integrations
      /\ oracle \in Oracles
  BY OpenIntegration, OpenOracle DEF Repay, SwapMatches
<1>2. /\ slot \in Nat /\ integration.maxStaleness \in Nat
      /\ oracle.slot \in Nat
      /\ integration.maxStaleness < slot
      /\ oracle.slot >= slot - integration.maxStaleness
  <2>1. slot \in Nat
    BY DEF OracleTypeOK, Slots
  <2>2. integration.maxStaleness \in Nat
    BY <1>1 DEF Integrations
  <2>3. oracle.slot \in Nat
    BY <1>1 DEF Oracles
  <2>4. integration.maxStaleness < slot
    BY <1>1 DEF SwapMatches
  <2>5. oracle.slot >= slot - integration.maxStaleness
    BY DEF Repay, IsFresh
  <2> QED BY <2>1, <2>2, <2>3, <2>4, <2>5
<1>3. /\ oracle.slot \in 1 .. slot
      /\ oracle.value = Quote[oracle.feed][oracle.slot]
  BY <1>1, <1>2 DEF PriceIsQuoted
<1>4. ASSUME oracle.value > 0
      PROVE  WorthIt(integration.input, input, output, oracle.value,
                     KeptBps(integration.slippage))
  <2>1. /\ oracle.value \in Nat \ {0} /\ integration.slippage \in Nat
        /\ integration.input \in Tokens /\ integration.output \in Tokens
        /\ input \in Nat \ {0} /\ output \in Nat
    <3>1. oracle.value \in Nat \ {0}
      BY <1>1, <1>4 DEF Oracles
    <3>2. /\ integration.slippage \in Nat
          /\ integration.input \in Tokens /\ integration.output \in Tokens
      BY <1>1 DEF Integrations
    <3> QED BY <3>1, <3>2
  <2>2. SlippageAccepted(integration.input, integration.output, input, output,
                         integration.slippage,
                         GetPrice(oracle.value, integration.inverted))
    BY DEF Repay, PriceAccepted
  <2>3. CASE integration.inverted
    <3>1. integration.input # oracle.base
      BY <1>1, <2>3 DEF SwapMatches, QuotesMints
    <3>2. GetPrice(oracle.value, integration.inverted)
            = CeilDiv(Precision * Precision, oracle.value)
      BY <2>3 DEF GetPrice
    <3> QED BY <2>1, <2>2, <3>1, <3>2, WorthInverted DEF WorthIt
  <2>4. CASE ~integration.inverted
    <3>1. integration.input = oracle.base
      BY <1>1, <2>4 DEF SwapMatches, QuotesMints
    <3>2. GetPrice(oracle.value, integration.inverted) = oracle.value
      BY <2>4 DEF GetPrice
    <3> QED BY <2>1, <2>2, <3>1, <3>2, WorthDirect DEF WorthIt
  <2> QED BY <2>3, <2>4
<1> QED BY <1>2, <1>3, <1>4

\* Swaps are priced by recent quotes of the registered feed, and buy what they
\* should by exact fractions, for every quote, decimals, amount and slippage.
THEOREM OracleSwapWorth == Spec => SwapWorth
<1> DEFINE Priced ==
      swap' \notin {swap, NoSwap} /\ swap'.input > 0
       => \E s \in 1 .. slot :
            /\ s >= slot - integration.maxStaleness
            /\ LET value == Quote[oracle.feed][s]
               IN  /\ oracle.value = value
                   /\ value > 0 =>
                        WorthIt(integration.input, swap'.input, swap'.output,
                                value, KeptBps(integration.slippage))
<1>1. ASSUME OracleTypeOK, PriceIsQuoted, SwapMatches, [Next]_oracleVars
      PROVE  Priced
  <2> SUFFICES ASSUME swap' \notin {swap, NoSwap}, swap'.input > 0
               PROVE  Priced
    OBVIOUS
  <2>1. PICK authority \in Authorities, input \in Amounts, output \in Amounts :
          Repay(authority, input, output)
    BY <1>1 DEF Next, NextBlock, InitializeOracle, UpdateOracle, RefreshOracle,
                InitializeAtomicSwap, Borrow, ManageController, oracleVars
  <2>2. swap'.input = input /\ swap'.output = output
    BY <2>1 DEF Repay
  <2> QED BY <1>1, <2>1, <2>2, RepayWorth
<1>2. OracleTypeOK /\ PriceIsQuoted /\ SwapMatches /\ [Next]_oracleVars
        => [Priced]_oracleVars
  BY <1>1
<1> QED BY <1>2, OracleTypes, OraclePriceIsQuoted, SwapMatched, PTL
        DEF Spec, SwapWorth
=============================================================================
