----------------------------- MODULE IndexRows -----------------------------
(***************************************************************************)
(* The rows of the index and the lookups on them: what the publisher       *)
(* writes for a finalized block (crates/indexer/src/publisher/block.rs,    *)
(* sql.rs), under which keys (sql_schema.rs), and what a client reads back *)
(* (client.rs).  The blocks are the ones execution accepts (Executor).     *)
(*                                                                         *)
(* Batches of the blocks past the published watermark are written in any   *)
(* order, and again after a restart; Publisher is about how.  The digest   *)
(* of a transaction covers the message and not the signature, so a message *)
(* stands for its digest.                                                  *)
(***************************************************************************)
EXTENDS Executor, SequencesExt

CONSTANTS
    Bodies,       \* candidate bodies, of signed transactions: [message, signature]
    MaxHeight,    \* bound: finalized blocks
    Raises,       \* whether the database may raise its floor, or may not
    Window        \* how far past the watermark batches are in flight

Pool == UNION {Range(b) : b \in Bodies}

VARIABLES
    chain,        \* finalized blocks: [body, state_range, transactions_end]
    accounts,     \* the account database
    stateLog,     \* its operations: updates of one account, and commits
    floor,        \* its inactivity floor
    tables,       \* SQL: for each table a map from primary keys to rows
    mark,         \* the watermark: all up to this block is published
    certified     \* heights whose finalization is in the Store

Finals == <<chain, accounts, stateLog, floor>>
vars == <<Finals, tables, mark, certified>>

Commit == [key |-> NoKey]
Update(k, v) == [key |-> k, account |-> v]

Init == /\ chain = <<>> /\ accounts = EmptyMap
        /\ stateLog = <<Commit>> /\ floor = 0
        /\ tables = [block_meta |-> <<>>, tx_meta |-> <<>>,
                     tx_activity |-> <<>>, account_meta |-> <<>>]
        /\ mark = 0 /\ certified = {}

---------------------------------------------------------------------------
(* The chain.  Locations start at 0. *)

Message(s) == s.message
Messages(body) == [i \in DOMAIN body |-> Message(body[i])]

\* The transaction log after block h: the digests of each body and a commit.
TransactionLog(h) ==
    FoldLeft(LAMBDA log, b : log \o Messages(b.body) \o <<Commit>>, <<Commit>>,
             SubSeq(chain, 1, h))

\* The end of header.transactions_range.
TransactionsEnd(h) == IF h = 0 THEN 1 ELSE chain[h].transactions_end

Latest(log, k) == Max({l \in DOMAIN log : log[l].key = k}) - 1
Active(log) == {Latest(log, k) : k \in {log[l].key : l \in DOMAIN log} \ {NoKey}}

\* A validator votes for a body that decodes (a value is a NonZeroU64) and executes.
Finalizable(body) == /\ \A i \in DOMAIN body : body[i].message.value # 0
                     /\ ExecuteBody(accounts, Messages(body)).ok

Writes(body) == ExecuteBody(accounts, Messages(body)).changeset

\* The database appends the changed accounts, may append the oldest unchanged
\* one again to raise its floor, and commits.
Operations(body, raise) ==
    LET writes  == Writes(body)
        changed == SetToSeq(DOMAIN writes)
        updates == [i \in DOMAIN changed |-> Update(changed[i], writes[changed[i]])]
        old     == {l \in Active(stateLog) : stateLog[l + 1].key \notin DOMAIN writes}
        moved   == IF raise /\ old # {} THEN <<stateLog[Min(old) + 1]>> ELSE <<>>
    IN updates \o moved \o <<Commit>>

Finalize(body, raise) ==
    /\ Len(chain) < MaxHeight
    /\ Finalizable(body)
    /\ stateLog' = stateLog \o Operations(body, raise)
    /\ floor' = IF raise /\ Active(stateLog') # {} THEN Min(Active(stateLog')) ELSE floor
    /\ chain' = Append(chain, [body |-> body,
                               state_range |-> [start |-> floor', end |-> Len(stateLog')],
                               transactions_end |-> TransactionsEnd(Len(chain)) + Len(body) + 1])
    /\ accounts' = Override(accounts, Writes(body))
    /\ UNCHANGED <<tables, mark, certified>>

---------------------------------------------------------------------------
(* Rows. *)

\* index_transaction: what has no sender key or no value is skipped.
Indexable(s) == s.message.sender # NoKey /\ s.message.value # 0

\* The positions in the body of the transactions that are indexed.
Indexed(h) == SelectSeq([i \in DOMAIN chain[h].body |-> i], LAMBDA i : Indexable(chain[h].body[i]))

\* The appends are taken to end the range, commit left out.
AppendStartNoCommit(h) == TransactionsEnd(h) - Len(Indexed(h))
\* The range of the block ends with one append for each transaction and the commit.
AppendStart(h) == TransactionsEnd(h) - (Len(Indexed(h)) + 1)

BlockMetaRow(h) == [table |-> "block_meta", height |-> h, tx_count |-> Len(Indexed(h)),
                    transactions_tip |-> TransactionsEnd(h) - 1]

\* The digest is all a row needs of value and nonce.
ActivityRow(account, counterparty, role, h, i) ==
    [table |-> "tx_activity", account |-> account, counterparty |-> counterparty,
     role |-> role, height |-> h, index |-> i, digest |-> Message(chain[h].body[i])]

\* One row for the sender and, if it is another account, one for the receiver.
ActivityRows(h, i) ==
    LET t == Message(chain[h].body[i])
    IN <<ActivityRow(t.sender, t.recipient, 0, h, i)>>
         \o IF t.recipient # t.sender THEN <<ActivityRow(t.recipient, t.sender, 1, h, i)>> ELSE <<>>

TxMetaRow(s, location) ==
    [table |-> "tx_meta", digest |-> Message(s), qmdb_location |-> location, body |-> s]

TransactionRows(h) ==
    LET rows(j) == <<TxMetaRow(chain[h].body[Indexed(h)[j]], AppendStart(h) + j - 1)>>
                     \o ActivityRows(h, Indexed(h)[j])
    IN FlattenSeq([j \in DOMAIN Indexed(h) |-> rows(j)])

AccountMetaRow(op, location) ==
    [table |-> "account_meta", account |-> op.key, state |-> op.account, qmdb_location |-> location]

\* account_rows of the block's share of the log.
AccountRows(h) ==
    LET start == IF h = 1 THEN 0 ELSE chain[h - 1].state_range.end
        ops   == SelectSeq([l \in 1..chain[h].state_range.end |-> l],
                           LAMBDA l : l > start /\ stateLog[l] # Commit)
    IN [i \in DOMAIN ops |-> AccountMetaRow(stateLog[ops[i]], ops[i] - 1)]

\* encode_indexed_block_rows_at, and the account rows that join the batch.
BlockRows(h) == <<BlockMetaRow(h)>> \o TransactionRows(h) \o AccountRows(h)

\* build_meta_schema.
PrimaryKey(row) ==
    CASE row.table = "block_meta"   -> row.height
      [] row.table = "tx_meta"      -> row.digest
      [] row.table = "tx_activity"  -> <<row.account, row.height, row.index, row.role>>
      [] row.table = "account_meta" -> row.account

Put(table, row) == [k \in DOMAIN table \cup {PrimaryKey(row)} |->
                        IF k = PrimaryKey(row) THEN row ELSE table[k]]

\* One batch of the publisher: every row replaces the one under its key.
Upload(h) ==
    /\ h \in mark + 1 .. mark + Window /\ h <= Len(chain)
    /\ tables' = FoldLeft(LAMBDA ts, row : [ts EXCEPT ![row.table] = Put(@, row)],
                          tables, BlockRows(h))
    /\ UNCHANGED <<Finals, mark, certified>>

Uploaded == DOMAIN tables.block_meta

\* The watermark moves past a batch that is written.
Publish == /\ mark + 1 \in Uploaded
           /\ mark' = mark + 1
           /\ UNCHANGED <<Finals, tables, certified>>

\* The certificate uploader is on its own.
Certify(h) == /\ h \in 1..Len(chain) \ certified
              /\ certified' = certified \cup {h}
              /\ UNCHANGED <<Finals, tables, mark>>

IndexSteps == \/ \E body \in Bodies, raise \in Raises : Finalize(body, raise)
              \/ \E h \in 1..MaxHeight : Upload(h) \/ Certify(h)
              \/ Publish

Spec == Init /\ [][IndexSteps]_vars

---------------------------------------------------------------------------
(* Lookups of IndexerClient.  {} stands for None. *)

\* latest_certified_header and latest_height.
LatestHeight == IF certified = {} THEN {} ELSE {Max(certified)}

\* verify_signed_transaction_digest: the hash of the message's bytes.
DigestMatches(body, digest) == Message(body) = digest

\* transaction_bytes: a body that is not of this digest is an error.
TransactionBytes(digest) ==
    IF digest \notin DOMAIN tables.tx_meta THEN {}
    ELSE LET body == tables.tx_meta[digest].body
         IN IF DigestMatches(body, digest) THEN {body} ELSE {[error |-> "SqlRow"]}

---------------------------------------------------------------------------
(* Properties. *)

\* Every variable has its type.
IndexTypeOK ==
    /\ Len(chain) <= MaxHeight /\ \A h \in DOMAIN chain : chain[h].body \in Bodies
    /\ IsAccountMap(accounts)
    /\ floor \in 0 .. Len(stateLog)
    /\ mark \in 0 .. Len(chain) /\ certified \subseteq DOMAIN chain
    /\ DOMAIN tables = {"block_meta", "tx_meta", "tx_activity", "account_meta"}
    /\ DOMAIN tables.block_meta \subseteq DOMAIN chain

\* The location in a tx_meta row is where the log of transactions has that
\* digest, the tip in a block_meta row is the block's commit, and the location
\* in an account_meta row is an update to that very account state.
LocationsNameOperations ==
    LET log == TransactionLog(Len(chain))
    IN /\ \A d \in DOMAIN tables.tx_meta : log[tables.tx_meta[d].qmdb_location + 1] = d
       /\ \A h \in DOMAIN tables.block_meta :
              LET row == tables.block_meta[h]
              IN /\ log[row.transactions_tip + 1] = Commit
                 /\ row.tx_count = Len(chain[h].body)
       /\ \A a \in DOMAIN tables.account_meta :
              LET row == tables.account_meta[a]
              IN stateLog[row.qmdb_location + 1] = Update(a, row.state)

\* The activity of an account lists each of its transfers in the uploaded blocks
\* once, whichever batches were written, in whatever order and how often.
ActivityIsComplete ==
    \A a \in Accounts :
        LET mine == {k \in DOMAIN tables.tx_activity : k[1] = a}
        IN {<<k[2], k[3]>> : k \in mine}
               = UNION {{<<h, i>> : i \in {j \in DOMAIN chain[h].body :
                            a \in Keys({Message(chain[h].body[j])})}} : h \in Uploaded}
           /\ Cardinality(mine) = Cardinality({<<k[2], k[3]>> : k \in mine})

\* A client that asks for the transaction with some digest gets the one the
\* chain holds, signature included, if its block is indexed, and none otherwise.
TransactionsAreFound ==
    \A d \in {Message(s) : s \in Pool} :
        TransactionBytes(d) = UNION {{s \in Range(chain[h].body) : Message(s) = d} : h \in Uploaded}

\* What a reader looks up is what was finalized: locations, the activity of an
\* account and transactions by digest, in whatever order batches were written.
RowsAreTrue == LocationsNameOperations /\ ActivityIsComplete /\ TransactionsAreFound
=============================================================================
