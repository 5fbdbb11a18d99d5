----------------------------- MODULE Transaction -----------------------------
(***************************************************************************)
(* How the chain executes a transaction, as the handlers that look at the  *)
(* instructions sysvar rely on it: a list of top-level instructions, run   *)
(* in order, that all succeed or leave no trace.  An instruction is a      *)
(* record with a kind; "Foreign" is an instruction of a program that may   *)
(* call any other (CPI), the controller's program included, and the sysvar *)
(* shows the called program the foreign instruction as the current one.    *)
(*                                                                         *)
(* The modules that extend this one say what the instructions do to chain, *)
(* the accounts.  The operators here leave all other variables to them.    *)
(***************************************************************************)
EXTENDS Naturals, Sequences

CONSTANTS IxLists,     \* the transactions: lists of top-level instructions
          MaxCalls,    \* MaxCalls[n] bounds the calls of foreign programs in
                       \* the n-th transaction
          MaxTxs       \* bound on the transactions

VARIABLES chain,   \* the accounts that a transaction can change
          tx,      \* the transaction being executed
          txs      \* how many have been started

NoTransaction == [ixs |-> <<>>, pc |-> 1, calls |-> 0,
                  saved |-> {}, opened |-> {}]
Idle == tx.ixs = <<>>

Kind(i) == tx.ixs[i].kind
Last == Len(tx.ixs)
Running == tx.pc <= Last
CurrentIsForeign == Kind(tx.pc) = "Foreign"

\* The top-level instruction in execution is of this kind, or is a foreign
\* program that calls one of this kind.
Runs(kind) ==
  /\ Running
  /\ Kind(tx.pc) \in {kind, "Foreign"}
  /\ CurrentIsForeign => tx.calls < MaxCalls[txs]

Stepped == IF CurrentIsForeign THEN [tx EXCEPT !.calls = @ + 1]
                               ELSE [tx EXCEPT !.pc = @ + 1]

ForeignReturns ==
  /\ Running
  /\ CurrentIsForeign
  /\ tx' = [tx EXCEPT !.pc = @ + 1]
  /\ UNCHANGED <<chain, txs>>

Begin(ixs) ==
  /\ Idle
  /\ txs < MaxTxs
  /\ txs' = txs + 1
  /\ tx' = [NoTransaction EXCEPT !.ixs = ixs, !.saved = {chain}]
  /\ UNCHANGED chain

Committing == ~Idle /\ ~Running

Commit ==
  /\ Committing
  /\ tx' = NoTransaction
  /\ UNCHANGED <<chain, txs>>

\* An instruction failed.
Abort ==
  /\ Running
  /\ chain' \in tx.saved
  /\ tx' = NoTransaction
  /\ UNCHANGED txs

\* What happens to a transaction as a whole.
Schedule ==
  \/ \E ixs \in IxLists : Begin(ixs)
  \/ ForeignReturns
  \/ Commit
  \/ Abort
=============================================================================
