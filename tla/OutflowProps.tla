---------------------------- MODULE OutflowProps ----------------------------
(***************************************************************************)
(* What governance, limits and checks together guarantee about the tokens  *)
(* that leave.                                                             *)
(***************************************************************************)
EXTENDS Outflow, LimitLevel

\* Accounts and histories have their types, and no limit has more available
\* than its cap, so that update_and_save can compute the gap.
OutflowTypeOK ==
  /\ controller \in ControllerStatus
  /\ permissions \in [Authorities -> Permissions]
  /\ signer \in Authorities \cup {NoOne}
  /\ integrations \in [Configs -> Integrations]
  /\ \A c \in Configs : integrations[c].avail <= integrations[c].max
  /\ reserve \in Reserves /\ reserve.avail <= reserve.max
  /\ vault \in 0 .. Supply
  /\ clock \in Clocks
  /\ rent \in BOOLEAN
  /\ paid \in Nat
  /\ sent \in [Configs -> Nat]
  /\ credits \in [Configs -> Nat]
  /\ ledger \in Int
  /\ budget \in [Limited -> Nat]
  /\ changes \in Nat

\* However often and by whomever an integration is pushed, and however it is
\* reconfigured in between, a destination never receives more than the cap its
\* integration started with, what its slopes have granted second by second
\* since, and by how much its cap was raised.  All destinations together never
\* receive more than the same of the reserve and the deposits booked to it.
OutflowBounded ==
  /\ \A c \in Configs : SecondsPerDay * sent[c] <= budget[c]
  /\ SecondsPerDay * paid <= budget[TheReserve]

\* Double entry: the Credit events of an integration add up to the tokens that
\* reached its destination, and the events of the reserve to its recorded
\* balance, also when an integration pays into the very vault it pays from.
BooksAgree ==
  /\ credits = sent
  /\ ledger = reserve.lastBalance

\* While others grant, suspend and freeze, tokens leave only under an Active
\* controller and by the signature of one who holds the privilege for that
\* way out: external transfers are closed to those who reallocate, and a
\* liquidator reaches no bridge but those created for it, which no later call
\* can make of another one.  Lamports leave only by one who reallocates (under
\* which status of the controller is for FrozenIsStill to say).
Contained ==
  [][/\ \A c \in Configs : sent'[c] # sent[c] =>
          /\ controller = "Active"
          /\ \/ /\ c.kind = "SplTokenExternal"
                /\ "can_invoke_external_transfer" \in Effective(permissions[signer'])
             \/ /\ c.kind = "CctpBridge"
                /\ \/ "can_reallocate" \in Effective(permissions[signer'])
                   \/ /\ "can_liquidate" \in Effective(permissions[signer'])
                      /\ integrations[c].permitLiquidation
     /\ rent' # rent => "can_reallocate" \in Effective(permissions[signer'])
     /\ \A c \in Configs : integrations[c].status # "Uninitialized" =>
          /\ integrations'[c].status # "Uninitialized"
          /\ integrations'[c].permitLiquidation = integrations[c].permitLiquidation
    ]_outVars

\* Each handler asks for the controller's status itself, in one of two ways;
\* together they keep everything a Frozen controller owns as it is, and no token
\* leaves one whose pushes and pulls are frozen.  (Its lamports are not spoken of:
\* ControllerStatus documents all operations but Push and Pull as valid then,
\* while process_claim_rent asks for an Active controller.)
FrozenIsStill ==
  [][/\ controller = "Frozen" =>
          UNCHANGED <<integrations, reserve, rent, paid, sent, credits, ledger,
                      permissions>>
     /\ controller = "PushPullFrozen" => UNCHANGED <<paid, sent, credits>>
    ]_outVars

-----------------------------------------------------------------------------
\* The account that holds a limit.
Account(limit) == IF limit = TheReserve THEN reserve ELSE integrations[limit]

Bucket(limit) == INSTANCE TokenBucket WITH
                   level <- LevelAt(Account(limit), clock),
                   cap <- Account(limit).max, rate <- Account(limit).slope,
                   Unlimited <- U64Max, Seconds <- {1}, Tokens <- U64

\* What left on account of a limit, and what the reserve has been told of:
\* its recorded balance and what it has paid out of it.
PaidBy(limit) == IF limit = TheReserve THEN paid ELSE sent[limit]
ToldTo(limit) == IF limit = TheReserve THEN reserve.lastBalance + paid ELSE 0

\* The step of the bucket that the tokens that move, the seconds that pass or
\* the new terms of the limit call for, and no other.
BucketStep(limit) ==
  LET out == PaidBy(limit)' - PaidBy(limit)
      found == ToldTo(limit)' - ToldTo(limit)
  IN  IF out = 0 /\ found = 0
      THEN \/ Bucket(limit)!Elapse(clock'.ts - clock.ts)
           \/ Bucket(limit)!Resize(Account(limit)'.max, Account(limit)'.slope)
      ELSE Bucket(limit)!Move(SatSub(found, 0), SatSub(0, found), out, 0)

\* Every limit is an exact token bucket of its own, for as long as there are
\* others: one Push is paid out of two buckets at once, the integration's and
\* the reserve's, which are refreshed at different times, each by exactly what
\* left; no call for one integration earns or costs another a unit; and what
\* a reconfiguration or a second gives is the same whenever it is refreshed.
\* An address without an account is the empty bucket that an initialization
\* resizes.
LimitsAreBuckets ==
  /\ \A limit \in Limited : Bucket(limit)!BucketInit
  /\ [][\A limit \in Limited : BucketStep(limit)]_outVars

-----------------------------------------------------------------------------
\* The reserve as the component that module Reserve specifies, from the moment
\* that it has been initialized.
Component == INSTANCE Reserve WITH
               Slopes <- U64, MaxOuts <- U64, Amounts <- 1 .. Supply,
               Elapses <- {1}, MaxSlot <- MaxTime

\* The reserve does nothing that module Reserve does not know, whoever pays out
\* of it and whatever is reconfigured: each step that it sees is one of its
\* operations, with all of its conditions and its event.
ReserveIsComponent == [][Component!Next]_(Component!vars)
=============================================================================
