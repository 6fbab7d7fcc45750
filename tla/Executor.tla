------------------------------ MODULE Executor ------------------------------
(***************************************************************************)
(* Transfer execution (crates/application/src/executor.rs) and the state   *)
(* loading around it (crates/application/src/consensus/execution.rs), as   *)
(* pure operators on account states.  Ledger and Chain are built on them.  *)
(*                                                                         *)
(* A transaction is the record of what execution reads; since the message  *)
(* digest commits to exactly those fields, the record also stands for the  *)
(* digest.  A changeset is a vector of (key, account) sorted by key, with  *)
(* every key once: it is modelled as the function it lists.                *)
(***************************************************************************)
EXTENDS NonceOps, Sequences, FiniteSetsExt

CONSTANTS
    Accounts,         \* account keys
    NoKey,            \* a sender whose bytes are not an account key
    DefaultBalance    \* DEFAULT_ACCOUNT_BALANCE, 100 in the code

ASSUME AccountsAssumption       == IsFiniteSet(Accounts)
ASSUME NoKeyAssumption          == NoKey \notin Accounts
ASSUME DefaultBalanceAssumption == DefaultBalance \in U64

AccountStates == [balance : U64, nonce : NonceStates]

\* Account::default.
DefaultAccount == [balance |-> DefaultBalance, nonce |-> EmptyNonce]

\* value is a NonZeroU64.
Transactions ==
    [sender : Accounts \cup {NoKey}, recipient : Accounts, value : U64 \ {0}, nonce : U64]

\* The account maps of the code: State, Overlay::writes, Changeset, the database.
IsAccountMap(m) ==
    /\ DOMAIN m \subseteq Accounts
    /\ m \in [DOMAIN m -> AccountStates]

EmptyMap == [k \in {} |-> DefaultAccount]

\* prepare_transfer fails only when the sender is not an account key.
Prepared(t) == t.sender # NoKey

-----------------------------------------------------------------------------
(***************************************************************************)
(* Overlay and apply_transfer                                              *)
(***************************************************************************)
Known(o) == DOMAIN o.base \cup DOMAIN o.writes

Get(o, k) == IF k \in DOMAIN o.writes THEN o.writes[k] ELSE o.base[k]

\* Writes m on top of map: HashMap::insert, and apply_changeset on a batch.
Override(map, m) ==
    [k \in DOMAIN map \cup DOMAIN m |-> IF k \in DOMAIN m THEN m[k] ELSE map[k]]

\* Mutant: the nonce is not required to be unused.
CanSpendIgnoresNonce(account, t) == account.balance >= t.value

\* The sender's side: enough balance, and nonce.consume() returns true.
CanSpend(account, t) ==
    /\ account.balance >= t.value
    /\ CanConsume(account.nonce, t.nonce)

\* recipient.balance.checked_add(value) is Some.
CanReceive(account, t) == account.balance + t.value <= MaxU64

\* The sender after the transfer: charged, and its nonce consumed.
Spent(account, t) ==
    [balance |-> account.balance - t.value, nonce |-> NextNonceState(account.nonce, t.nonce)]

Received(account, t) == [account EXCEPT !.balance = @ + t.value]

\* apply_transfer returns true ...
ApplyTransferOK(o, t) ==
    /\ t.sender \in Known(o)
    /\ CanSpend(Get(o, t.sender), t)
    /\ t.sender # t.recipient =>
           t.recipient \in Known(o) /\ CanReceive(Get(o, t.recipient), t)

\* Mutant: a self transfer goes through the two-account path, and the
\* recipient's copy, read before the sender was charged, is written last.
ApplyTransferNoSelfCase(o, t) ==
    LET sender    == Spent(Get(o, t.sender), t)
        recipient == Received(Get(o, t.recipient), t)
    IN  [o EXCEPT !.writes = Override(@, [k \in {t.sender, t.recipient} |->
            IF k = t.recipient THEN recipient ELSE sender])]

\* ... and the overlay it leaves.  A self transfer only consumes the nonce.
ApplyTransfer(o, t) ==
    LET sender == Get(o, t.sender)
        writes == IF t.sender = t.recipient
                  THEN [k \in {t.sender} |->
                           [sender EXCEPT !.nonce = NextNonceState(@, t.nonce)]]
                  ELSE [k \in {t.sender, t.recipient} |->
                           IF k = t.sender THEN Spent(sender, t)
                                           ELSE Received(Get(o, k), t)]
    IN  [o EXCEPT !.writes = Override(@, writes)]

-----------------------------------------------------------------------------
(***************************************************************************)
(* Loading accounts from the state batch of the parent                     *)
(***************************************************************************)
\* One read of get_many, followed by unwrap_or_default.
AccountIn(db, k) == IF k \in DOMAIN db THEN db[k] ELSE DefaultAccount

LoadAccounts(db, keys) == [k \in keys |-> AccountIn(db, k)]

Keys(ts) == UNION {{t.sender, t.recipient} : t \in ts}

LoadState(db, transfers) == LoadAccounts(db, Keys(Range(transfers)))

\* Mutant: only the senders are compared.
AllDistinctSenders(transfers) ==
    \A i, j \in DOMAIN transfers : i # j => transfers[i].sender # transfers[j].sender

\* load_execution_state: unique.len() == account_keys.len().
AllDistinct(transfers) ==
    \A i, j \in DOMAIN transfers :
        /\ transfers[i].sender # transfers[j].recipient
        /\ i # j => /\ transfers[i].sender # transfers[j].sender
                    /\ transfers[i].recipient # transfers[j].recipient

-----------------------------------------------------------------------------
(***************************************************************************)
(* Whole bodies.  Failed stands for None.                                  *)
(***************************************************************************)
Failed == [ok |-> FALSE, changeset |-> EmptyMap]

\* A for loop over transfers, in their order: body makes the next acc of acc and
\* one transfer.
ForEach(body(_, _), acc, transfers) ==
    MapThenFoldSet(LAMBDA t, a : body(a, t), acc,
                   LAMBDA i : transfers[i], LAMBDA S : Max(S), DOMAIN transfers)

\* propose_prepared: what apply_transfer refuses is left out.
ProposePrepared(state, candidates) ==
    ForEach(LAMBDA acc, t :
                IF ApplyTransferOK(acc.overlay, t)
                THEN [overlay |-> ApplyTransfer(acc.overlay, t), valid |-> Append(acc.valid, t)]
                ELSE acc,
            [overlay |-> [base |-> state, writes |-> EmptyMap], valid |-> <<>>],
            candidates)

\* prepare_proposal: the transactions that can be prepared, in their order.
Candidates(transactions) ==
    ForEach(LAMBDA acc, t : IF Prepared(t) THEN Append(acc, t) ELSE acc, <<>>, transactions)

\* Mutant: the block gets the transactions that were filtered out too.
ProposeUnfiltered(db, transactions) ==
    LET candidates == Candidates(transactions)
        output     == ProposePrepared(LoadState(db, candidates), candidates)
    IN  [valid |-> candidates, changeset |-> output.overlay.writes]

\* prepare_proposal, load_state and propose_prepared, as propose_child runs them.
Propose(db, transactions) ==
    LET candidates == Candidates(transactions)
        output     == ProposePrepared(LoadState(db, candidates), candidates)
    IN  [valid |-> output.valid, changeset |-> output.overlay.writes]

\* execute: one refused transfer refuses the body.
Execute(state, transfers) ==
    ForEach(LAMBDA acc, t :
                IF acc.ok /\ ApplyTransferOK([base |-> state, writes |-> acc.changeset], t)
                THEN [ok |-> TRUE,
                      changeset |->
                          ApplyTransfer([base |-> state, writes |-> acc.changeset], t).writes]
                ELSE Failed,
            [ok |-> TRUE, changeset |-> EmptyMap],
            transfers)

\* Mutant: the recipient's addition is not checked on the unique path.
ExecuteUniqueUnchecked(state, transfers) ==
    [ok |-> \A t \in Range(transfers) : CanSpend(state[t.sender], t),
     changeset |-> [k \in Keys(Range(transfers)) |->
         LET t == CHOOSE t \in Range(transfers) : k \in {t.sender, t.recipient}
         IN  IF k = t.sender THEN Spent(state[k], t) ELSE Received(state[k], t)]]

\* execute_unique: every transfer against the accounts as loaded.
ExecuteUnique(state, transfers) ==
    IF \A t \in Range(transfers) : /\ CanSpend(state[t.sender], t)
                                   /\ CanReceive(state[t.recipient], t)
    THEN [ok |-> TRUE,
          changeset |-> [k \in Keys(Range(transfers)) |->
              LET t == CHOOSE t \in Range(transfers) : k \in {t.sender, t.recipient}
              IN  IF k = t.sender THEN Spent(state[k], t) ELSE Received(state[k], t)]]
    ELSE Failed

\* execute_body and apply_prepared_body up to the changeset: MALFORMED_TRANSACTION
\* and STATIC_INVALID_TRANSACTION are Failed, the loader picks the path.
ExecuteBody(db, body) ==
    IF \E t \in Range(body) : ~Prepared(t)
    THEN Failed
    ELSE IF AllDistinct(body)
         THEN ExecuteUnique(LoadState(db, body), body)
         ELSE Execute(LoadState(db, body), body)

=============================================================================
