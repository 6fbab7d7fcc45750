------------------------------ MODULE MCMempool ------------------------------
(***************************************************************************)
(* Instances of Mempool for TLC.  The batches are those a client makes:    *)
(* b1 is sent first, b2 repeats its transaction with a new one, b3 shares   *)
(* none with them.                                                         *)
(***************************************************************************)
EXTENDS Mempool, TLC

CONSTANTS d1, d2, d3, b1, b2, b3

MCDigests == {d1, d2, d3}
MCTxBytes == [d \in MCDigests |-> IF d = d3 THEN 2 ELSE 1]
MCContent == b1 :> {d1} @@ b2 :> {d1, d2} @@ b3 :> {d3}
\* A client that sends one transaction, here and to another validator.
MCSingle == b1 :> {d1}

=============================================================================
