--------------------------- MODULE InterfaceProps ---------------------------
(***************************************************************************)
(* What the clients and the handlers owe each other.                       *)
(***************************************************************************)
EXTENDS Interface

\* Where a handler looks for an account, the client has put that account and
\* no other: the order of the two lists is nowhere checked but by the keys
\* and the owners that happen to differ.
AccountsLand ==
  IsRunning /\ Current.kind = "take" /\ Applies(Current) =>
    \A i \in DOMAIN Fields : i \in DOMAIN Left /\ Left[i].name = Fields[i].name

\* Whatever exists already or is still to be created, whoever pays, whichever
\* token program it is: a handler takes what the client sends, except for the
\* accounts of a Kamino reserve that has no farm.
ClientAccepted ==
  status = "refused" =>
    /\ "no_farm" \in tx.facts
    /\ tx.call \in {"initialize_kamino", "push_kamino", "pull_kamino"}

\* The calls whose handler has somebody pay for an account of whom the client
\* does not ask enough: the authority, who signs but is not writable, and
\* Kamino's payer, who is writable but does not sign.
Funder == [push_spl |-> "authority", push_cctp |-> "authority",
           push_lz |-> "authority", push_kamino |-> "payer"]

\* No save and no invocation of a handler lacks a privilege or an account,
\* except that such a funder must be the one who pays the transaction's fee.
PrivilegesCovered ==
  status = "denied" =>
    /\ tx.call \in DOMAIN Funder
    /\ Current.kind = "invoke"
    /\ \A i \in Denied : /\ Current.detail[i].name = Funder[tx.call]
                         /\ Current.detail[i] = C!WS(Funder[tx.call])
                         /\ Key(tx, Funder[tx.call]) # tx.feePayer

\* "not all reserves have farms": the accounts of a reserve without a farm are
\* taken as well, as the comments at push_pull_accounts.rs:41 and :59 and at
\* kamino/initialize.rs:71 say.
FarmlessAccepted == status = "refused" => "no_farm" \notin tx.facts
=============================================================================
