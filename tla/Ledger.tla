------------------------------- MODULE Ledger -------------------------------
(***************************************************************************)
(* The account state and the transaction history of one chain, one block   *)
(* after the other, with the loops of the executor as steps: propose_child *)
(* filters what its transaction source offers, verify_child executes a     *)
(* body somebody else built, and a block that consensus finalizes writes   *)
(* its changeset and its digests into the two databases.                   *)
(***************************************************************************)
EXTENDS Executor

CONSTANTS
    Pool,       \* the signed transactions that exist
    MaxBody     \* bound: transactions in one block

ASSUME PoolAssumption    == Pool \subseteq Transactions
ASSUME MaxBodyAssumption == MaxBody \in Nat

VARIABLES
    db,         \* the state database
    txs,        \* the transaction-history database
    mode,       \* "idle", or whose loop is running: "propose", "verify"
    queue,      \* the transactions the loop has not reached
    loaded,     \* the accounts read from db before the loop
    unique,     \* load_execution_state chose LoadedState::Unique
    writes,     \* the changeset built so far
    valid       \* the transactions executed so far

vars == <<db, txs, mode, queue, loaded, unique, writes, valid>>

Bodies == UNION {[1 .. n -> Pool] : n \in 0 .. MaxBody}

Idle ==
    /\ mode' = "idle"
    /\ queue' = <<>>
    /\ loaded' = EmptyMap
    /\ unique' = FALSE
    /\ writes' = EmptyMap
    /\ valid' = <<>>

Init ==
    /\ db = EmptyMap
    /\ txs = <<>>
    /\ mode = "idle"
    /\ queue = <<>>
    /\ loaded = EmptyMap
    /\ unique = FALSE
    /\ writes = EmptyMap
    /\ valid = <<>>

\* propose_child takes the source's transactions and loads the accounts of
\* those it can prepare.
StartPropose(transactions) ==
    /\ mode = "idle"
    /\ mode' = "propose"
    /\ queue' = transactions
    /\ loaded' = LoadAccounts(db, Keys({t \in Range(transactions) : Prepared(t)}))
    /\ UNCHANGED <<db, txs, unique, writes, valid>>

\* execute_body refuses a malformed body before it loads anything.
StartVerify(body) ==
    /\ mode = "idle"
    /\ \A t \in Range(body) : Prepared(t)
    /\ mode' = "verify"
    /\ queue' = body
    /\ loaded' = LoadState(db, body)
    /\ unique' = AllDistinct(body)
    /\ UNCHANGED <<db, txs, writes, valid>>

\* What the loops read: execute_unique sees the accounts as they were loaded.
Overlay == [base |-> loaded, writes |-> IF unique THEN EmptyMap ELSE writes]

\* One accepted transfer.
Take(t) ==
    /\ queue' = Tail(queue)
    /\ writes' = Override(writes, ApplyTransfer(Overlay, t).writes)
    /\ valid' = Append(valid, t)
    /\ UNCHANGED <<db, txs, mode, loaded, unique>>

\* The loops of prepare_proposal and propose_prepared.
ProposeStep ==
    /\ mode = "propose"
    /\ queue # <<>>
    /\ LET t == Head(queue)
       IN  IF Prepared(t) /\ ApplyTransferOK(Overlay, t)
           THEN Take(t)
           ELSE /\ queue' = Tail(queue)
                /\ UNCHANGED <<db, txs, mode, loaded, unique, writes, valid>>

\* The loops of execute and execute_unique: None as soon as one is refused.
VerifyStep ==
    /\ mode = "verify"
    /\ queue # <<>>
    /\ LET t == Head(queue)
       IN  IF ApplyTransferOK(Overlay, t)
           THEN Take(t)
           ELSE Idle /\ UNCHANGED <<db, txs>>

\* The block is finalized: apply_changeset and apply_transaction_digests reach
\* the databases.
Finalize ==
    /\ mode # "idle"
    /\ queue = <<>>
    /\ db' = Override(db, writes)
    /\ txs' = txs \o valid
    /\ Idle

\* The view times out, or another block is finalized: the batches are dropped.
Abandon ==
    /\ mode # "idle"
    /\ queue = <<>>
    /\ Idle
    /\ UNCHANGED <<db, txs>>

Next ==
    \/ \E b \in Bodies : StartPropose(b) \/ StartVerify(b)
    \/ ProposeStep
    \/ VerifyStep
    \/ Finalize
    \/ Abandon

Spec == Init /\ [][Next]_vars

-----------------------------------------------------------------------------
\* Balances and nonces are u64 in the database, in what was loaded and in the
\* overlay: neither the subtraction nor the addition of apply_transfer wraps.
TypeOK ==
    /\ IsAccountMap(db)
    /\ txs \in Seq(Pool)
    /\ mode \in {"idle", "propose", "verify"}
    /\ queue \in Seq(Pool)
    /\ IsAccountMap(loaded)
    /\ unique \in BOOLEAN
    /\ IsAccountMap(writes)
    /\ valid \in Seq(Pool)

\* The account as the block under construction leaves it.
Current(k) == AccountIn(Override(db, writes), k)

\* No transaction reaches the history twice, in one block or in two, and no two
\* transactions of one sender share a nonce: a transaction that was proposed in
\* a block that lost, resubmitted, or sent to several leaders executes once.
ExecutesOnce ==
    LET history == txs \o valid
    IN  \A i, j \in DOMAIN history :
            i # j => history[i].sender # history[j].sender \/ history[i].nonce # history[j].nonce

\* Transfers only move balance: with every account that has no record counted
\* at DEFAULT_ACCOUNT_BALANCE, the total is what it was at genesis, also in the
\* middle of a block, at overflow and for self transfers.
SupplyConserved ==
    SumFunction([k \in Accounts |-> Current(k).balance]) = Cardinality(Accounts) * DefaultBalance

\* A step that executes a transfer takes from one account exactly what it gives
\* to another and touches no third balance.
MovesBetweenTwo ==
    [][valid' # valid /\ mode' = mode =>
           \E s, r \in Accounts :
               /\ \A k \in Accounts \ {s, r} : Current(k)'.balance = Current(k).balance
               /\ Current(s)'.balance + Current(r)'.balance
                      = Current(s).balance + Current(r).balance
               /\ Current(s)'.balance <= Current(s).balance]_vars

\* What the leader proposes, every verifier accepts with the same changeset,
\* although the leader loaded the accounts of the candidates it left out as well
\* and the verifier may take the unique path: so their state roots agree.
ProposalReplays ==
    mode = "propose" => ExecuteBody(db, valid) = [ok |-> TRUE, changeset |-> writes]

\* The unique path is an optimisation: on every body it may be chosen for it
\* accepts what the overlay path accepts and writes the same accounts.
PathsAgree ==
    mode = "idle" =>
        \A b \in Bodies :
            AllDistinct(b) /\ (\A t \in Range(b) : Prepared(t)) =>
                ExecuteUnique(LoadState(db, b), b) = Execute(LoadState(db, b), b)

=============================================================================
