---------------------------- MODULE AccountMetas ----------------------------
(***************************************************************************)
(* The account metas of an instruction: which account stands at a          *)
(* position, and whether the instruction may write it or has its           *)
(* signature.  An account is named by what it is to the program; where the *)
(* clients call it otherwise, the program's name is used.                  *)
(***************************************************************************)
EXTENDS Sequences

Meta(name, writable, signer) ==
  [name |-> name, writable |-> writable, signer |-> signer]

R(name) == Meta(name, FALSE, FALSE)     \* read only
W(name) == Meta(name, TRUE, FALSE)      \* writable
S(name) == Meta(name, FALSE, TRUE)      \* signer
WS(name) == Meta(name, TRUE, TRUE)      \* writable signer

Metas(names) == [name : names, writable : BOOLEAN, signer : BOOLEAN]
=============================================================================
