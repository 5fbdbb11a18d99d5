---------------------------- MODULE MCInterface ----------------------------
(***************************************************************************)
(* An instance of Interface for TLC: every call of the client, with every  *)
(* combination of its facts, its payer and the payer of the fee.           *)
(***************************************************************************)
EXTENDS InterfaceProps

MCCalls == DOMAIN Catalogue
KaminoCalls == {"initialize_kamino", "push_kamino", "pull_kamino"}
=============================================================================
