----------------------------- MODULE OracleProps -----------------------------
(***************************************************************************)
(* What an oracle guarantees the swaps that are priced by it.              *)
(***************************************************************************)
EXTENDS Oracle

\* The accounts have their types.
OracleTypeOK ==
  /\ slot \in Slots
  /\ controllers \in [Controllers -> ControllerStatus]
  /\ oracle \in Oracles \cup {NoOracle}
  /\ integration \in Integrations \cup {NoIntegration}
  /\ swap \in Swaps \cup {NoSwap}
  /\ signer \in Authorities \cup {NoOne}

\* A price is what the feed that is registered now has quoted for its slot,
\* or it is void: a replaced feed leaves nothing behind, and a copy of an
\* older quote carries the slot of that quote.
PriceIsQuoted ==
  IsOpen =>
    \/ oracle.slot = 0 /\ oracle.value = 0
    \/ oracle.slot \in 1 .. slot /\ oracle.value = Quote[oracle.feed][oracle.slot]

\* The feed and the authority of an oracle change only by the hand of its
\* authority, and not while its own controller is frozen or in the middle of
\* a swap: another controller's state does not help.
ConfigGuarded ==
  [][IsOpen
       /\ <<oracle.feed, oracle.authority>> # <<oracle'.feed, oracle'.authority>>
       => /\ signer' = oracle.authority
          /\ controllers[oracle.controller] = "Active"]_oracleVars

\* The worth of output in terms of input, at a value quoted for the oracle's
\* base in its quote token and less the slippage, as exact fractions.
WorthIt(in, input, output, value, kept) ==
  LET out == integration.output
      bought == output * Factor[in] * BpsDenominator
      spent == input * Factor[out] * kept
  IN  IF in = oracle.base THEN bought * Precision >= spent * value
                          ELSE bought * value >= spent * Precision

\* A swap that is accepted has spent nothing, or has bought at least what its
\* input is worth at a recent quote of the registered feed, less the slippage:
\* exactly, whatever was rounded, inverted or divided early, and in the
\* direction that the mints say.  Of a quote that is not positive the code
\* asks nothing.
SwapWorth ==
  [][swap' \notin {swap, NoSwap} /\ swap'.input > 0
       => \E s \in 1 .. slot :
            /\ s >= slot - integration.maxStaleness
            /\ LET value == Quote[oracle.feed][s]
               IN  /\ oracle.value = value
                   /\ value > 0 =>
                        WorthIt(integration.input, swap'.input, swap'.output,
                                value, KeptBps(integration.slippage))
    ]_oracleVars
=============================================================================
