------------------------------ MODULE MCLedger ------------------------------
(***************************************************************************)
(* Instances of the ledger for TLC.  A behavior is of one part, and the    *)
(* variables of the other stay as they are initially.                      *)
(*                                                                         *)
(* Nonce: one account, a bitmap of three bits and integers up to nine, so  *)
(* that the bitmap fills, compacts by every amount, is jumped over, and    *)
(* the counter reaches its last value.                                     *)
(*                                                                         *)
(* Ledger: a handful of transactions among three accounts chosen so that   *)
(* balances run out and overflow, nonces repeat, run ahead and jump, and   *)
(* blocks chain transfers through one account or touch pairwise distinct   *)
(* ones.                                                                   *)
(***************************************************************************)
EXTENDS Ledger, Nonce

CONSTANTS a, b, c

VARIABLE part

Tx(s, r, v, n) == [sender |-> s, recipient |-> r, value |-> v, nonce |-> n]

MCAccounts == {a, b, c}

MCPool ==
    {Tx(a, b, 2, 0),        \* in order
     Tx(a, c, 4, 1),        \* in order after the first, run-ahead before it
     Tx(b, c, 6, 0),        \* needs what b receives
     Tx(c, a, 2, 4),        \* beyond the window: jumps
     Tx(c, b, 2, 4),        \* shares its nonce with the one above
     Tx(b, b, 4, 1),        \* self transfer
     Tx(NoKey, a, 2, 0)}    \* malformed

MCInit == Init /\ NonceInit /\ part \in {"ledger", "nonce"}

MCNext == /\ UNCHANGED part
          /\ \/ part = "ledger" /\ Next /\ UNCHANGED nonceVars
             \/ part = "nonce" /\ NonceNext /\ UNCHANGED vars

MCSpec == MCInit /\ [][MCNext]_<<part, vars, nonceVars>>
=============================================================================
