------------------------------ MODULE MCChain ------------------------------
(***************************************************************************)
(* Model-checking instance of Chain: two accounts, transactions that       *)
(* compete for a nonce, follow each other and need what another one pays.  *)
(***************************************************************************)
EXTENDS Chain, TLC

CONSTANTS a, b, v1, v2, v3

Tx(s, r, v, n) == [sender |-> s, recipient |-> r, value |-> v, nonce |-> n]

MCAccounts == {a, b}
MCValidators == {v1, v2, v3}

MCPool ==
    {Tx(a, b, 1, 0),        \* in order
     Tx(a, b, 1, 1),        \* run-ahead alone; both together leave a empty
     Tx(b, a, 1, 0)}        \* forged

MCForged == {Tx(b, a, 1, 0)}

Symmetry == Permutations(MCValidators)

=============================================================================
