# Verification of constantinople

TLA+ models of the constantinople blockchain (a validator with account
transfers, a mempool, a chain of certified blocks, an indexer, and the programs
around them), checked with TLC on small instances, and theorems about them that
TLAPS proves for every value of the constants. Paths below are relative to
`src/`.

## The system

| Part | Where | Modules |
| --- | --- | --- |
| nonce tracker: accepts each nonce of an account once, out of order within a window of 64 | `crates/primitives/src/account.rs` | `NonceOps`, `Nonce` |
| transfer executor and account loading | `crates/application/src/executor.rs`, `consensus/{execution,db}.rs` | `Executor`, `Ledger` |
| block lifecycle: propose, verify, apply | `crates/application/src/consensus` | `Chain` |
| transactions, signatures, lazily decoded bodies | `crates/primitives/src`, `consensus/body.rs` | `TransactionAuth`, `BlockBody` |
| mempool actor | `crates/mempool/src/webserver/actor.rs` | `Mempool` |
| HTTP handlers and mailbox of the mempool | `crates/mempool/src/webserver/{http,mailbox,client}.rs` | `Webserver` |
| relayer: forwards batches to the next leaders, retries over views | `bin/validator/src/relayer.rs` | `Relayer` |
| startup, finalized hook, pruning, restart | `bin/validator/src/run.rs`, `crates/engine`, `consensus/glue.rs` | `Startup` |
| upload queue between finalized blocks and the indexer | `bin/validator/src/run.rs` | `Indexing`, `PublishedLog` |
| publisher of database operations | `crates/indexer/src/publisher/qmdb.rs` | `Publisher` |
| rows, keys and lookups of the index | `crates/indexer/src/{publisher/block,publisher/sql,sql_schema,client}.rs` | `IndexRows` |
| certificate uploader | `crates/indexer/src/publisher/certificate.rs` | `Certificates` |
| spammer, a load generator | `bin/spammer` | `Spammer` |
| deployment tool and configuration | `bin/deploy`, `bin/validator/src/config.rs` | `DeployConfig`, `Deployment` |
| explorer: account page and wallet | `explorer/src` | `AccountPage`, `Wallet` |

A client's batch enters the mempool of one or more validators, directly or
through the relayer. A leader takes transactions from its mempool, executes them
on its parent's state and proposes those that succeed. The others check
signatures, execute the body again and vote if the commitments of the header are
what they computed. A finalized block is committed by every validator, reported
to its mempool, and queued for the indexer, which writes rows, operation logs and
certificates to a store that the explorer reads and verifies against.

## Modules

Each module's header says what is modelled and what is external (a library, a
service, consensus itself). Modules ending in `Proofs` or `Lemmas` hold theorems
only. A definition called a mutant in its comment is a plausible error in the
definition that follows it; no specification uses it. The `MC*` modules supply
constants and compose: `MCLedger`, `MCIngress`, `MCNode`, `MCIndexing` and
`MCExplorer` hold several components side by side. Their variable `part` picks the component a
behaviour is of; the variables of the others stay as they are initially, and
every property is checked on every part it applies to. `NodeRelayer` and
`NodeUploader` give the state of `Relayer` and `Certificates` names that do not
meet those of the other parts; the `MC*` modules and the proofs share them.

**Execution.** `NonceOps` holds `Nonce::consume` as operators: the bitmap is the
set of distances past `base` whose bit is set, and the `checked_add`s are guards.
`Nonce` is one tracker that is offered any nonce. `Executor` holds the executor
and the loading of accounts as operators over account maps (`Propose`,
`Execute`, `ExecuteUnique`, and `ExecuteBody`, which chooses between the last
two). `Ledger` runs the same loops step by step on one chain.

**Consensus application.** `Chain` is the application of several validators over
forks. A block record holds its header, with state and history in place of their
roots, and the changesets so far in place of the range of the state database,
whose bounds the library puts by them alone. `ProposeChild` and `VerifyChild` keep
the batch of their execution (`kept`), which `CommitKept` writes when the block is
finalized; a validator that has none runs `ApplyCertified`. `FaultyPropose` puts
other commitments into its headers. Each validator has a clock. Consensus is
external: a quorum of votes certifies, finalized blocks form one chain. There
signatures are valid or not. `TransactionAuth` has what makes them so: the size limits of reading without
decoding, the two schemes (keys, and passkey assertions with their base64url
challenge) and batch verification in chunks; its reference is `Genuine`.
`BlockBody` runs it: threads of the signature task, of execution and of
materialization decode into cells they share, and either task can be closed by a
runtime that shuts down.

**Mempool.** `Mempool` is the actor; each message is an action, and processing a
block is a loop (`Drain`, `Acknowledge`) during which no message is handled.
Heights are replaced by ages, so that chains need no bound. `Webserver` is what
stands before it: bodies that are checked in three places, a bounded channel,
reports left to tasks when it is full. `Relayer` is one submission from its first
offer to the answer, over the statuses of several mempools.

**Indexer.** `Publisher` has the preparer and committer tasks: commits land in
any order, answers are lost, the process dies. `Indexing` extends it with the
finalized hook, cursor, durable queue and consumer, and crashes between any two
steps. `PublishedLog` is the abstract promise (the readable log is a prefix of
the chain, it only grows, and every block gets into it); `MCIndexing`
instantiates it with the published watermark (`Readable`), and run `indexing`
checks the implementation.
`IndexRows` is about contents: rows and locations of blocks that `Executor`
accepts. `Certificates` pairs blocks and certificates.

**Node.** `Startup` has several validators that start (from an archive or by
state sync), apply, capture, prune, acknowledge, crash and restart. Only those of
`Indexers` capture, and a block they captured before a crash holds them for ever,
as `enqueue` does.
`DeployConfig` has the files the generator writes and what each binary makes of
them; `Deployment` starts the processes in any order.

**Clients.** `Spammer` runs streams against `Executor`. `AccountPage` extends
`IndexRows` with the page that reads the index while it is written. `Wallet` has
the local nonces, sessions, history and transaction proofs of the signed-in user.
In both, a user action and the effects React runs for it are one step.

## Runs

Bounds are constants of the modules, named where they are declared. They are
small, and chosen so that every limit is met and passed.

| Run | Question and properties | Bounds |
| --- | --- | --- |
| `ledger` | is each nonce accepted at most once, and refused only for cause; does execution conserve balance, execute once, replay proposals? `NoReplay`, `RefusesOnlySpent`, `SkipOnlyByJump`, `ExecutesOnce`, `SupplyConserved`, `ProposalReplays`, `PathsAgree` | window 3, integers to 9: full windows, jumps and the largest integer occur; 7 transactions over 3 accounts, bodies of 3 |
| `chain` | can everything certified be applied, and by all alike? `DatabasesMatchHeader`, `NeverPanics`, `RangesCoverTwoBlocks`, `TimestampsGrow`, `ProposalsVerify` | 3 validators (symmetric), quorum 2, 3 blocks, 1 faulty block, clocks to 2 |
| `block_body` | is exactly what was signed accepted, what is certified applied, every block answered? `AcceptedIffGenuine`, `CertifiedApplies`, `EveryBlockIsAnswered` | 2 workers; single transactions of every scheme, size at and past each limit, and defect, and up to 3 together of five kinds |
| `mempool` | are pool and maps accounted for, is a batch ever stuck, are verdicts true and do they stay? `PoolAccounted`, `NoStuckBatch`, `IndexesAgree`, `VerdictsHold`, `VerdictsStay` | 3 overlapping batches over 3 transactions of unequal size, pool of 3 bytes, proposals of 2, 2 statuses remembered, 2 heights ahead, 1 waiter |
| `mempool_live` | is every accepted batch resolved? `BatchesResolve` | the same batches, nothing shared, 3 statuses |
| `ingress` | do the size checks admit exactly what fits, do reports keep their order, does everything get through the mailbox; can a spammer go on after losses? `StreamsKeepGoing`, `AdmitsWhatFits`, `BlocksInOrder`, `EveryRequestIsAnswered` | batches of 8 bytes, transactions of at least 2, a prefix of 1 or 2, sizes around each limit; mailbox of 1, 2 clients, 2 reports; 2 streams with rings of 2, window 1, 3 batches signed 2 ahead |
| `node` | does a restart find all it needs and everyone come up; is the relayer's answer true; do generated files load and lead to each other? `Recoverable`, `ValidatorsRun`, `AnswerIsTrue`, `SubmissionIsAnswered`, `ClusterFits` | 2 validators, one by state sync, 3 blocks, pruning every 2, 1 crash each; 2 leaders, 2 transactions, 1 retried view; one of the 2 indexes; up to 4 validators, each option on and off, local and remote, 22 ports so that ranges meet their end and each other |
| `indexing` | is a captured block safe through crashes, is the published log implemented, has the watermark holes, has every height its block? `CapturedForGood`, `QueueFollowsTheStore`, `PublishedIsWhole`, `CertificatesPaired`, `PublishesEverything` | 3 blocks, indexed from the first or the second, 2 crashes, 2 uploads active, commits in any order; a finalized block and a fork, channel of 1, reports given twice, restarts |
| `explorer` | do rows name the operations they stand for; is what is shown of the current selection and nothing skipped; do transfers share a nonce and histories a wallet? `RowsAreTrue`, `PageIsTrue`, `NothingIsSkipped`, `ReservationsDiffer`, `HistoryIsTrue` | 2 blocks of up to 2 of 7 transactions, rewritten in any order; 2 accounts, pages of 1, 2 filters with every service up, and 2 attempts with services that fail at any request; 3 transfers in one session, window 3, 2 wallets, 3 sign-ins or page loads |

Several properties are conjunctions of statements that the module names and
explains one by one: `PoolAccounted` (with `KnownIsHeld`), `IndexesAgree` (with
`OutcomesNeeded`), `VerdictsHold` (with `FilteredForGood`), `AcceptedIffGenuine`,
`StreamsKeepGoing`, `AdmitsWhatFits`, `Recoverable`, `ClusterFits`,
`QueueFollowsTheStore`, `PublishedIsWhole`, `CertificatesPaired`, `RowsAreTrue`,
`PageIsTrue` and `HistoryIsTrue`. `PublishesEverything` is the whole of
`PublishedLog`, safety and liveness. The type invariants (`TypeOK`,
`SpammerTypeOK` and so on) document the variables and are in no configuration.

Where the deadlock check is off, blocks, crashes or requests are bounded and the
system stops at the bound.

What the properties do not say. `ProposalsVerify` leaves the timestamp out: a
proposer stamps its block with its clock and does not compare it with the
parent's, so a proposal of a validator with a slow clock is refused.
`FilteredForGood` is about batches that share no transaction with another batch
or validator, and with `OutcomesNeeded` leaves out batches whose status was
forgotten: such a batch leaves outcomes behind, and can be resolved with them if
it is submitted again. `OutcomesNeeded` also leaves out transactions that two
batches have next to others: one of them may be resolved by an outcome kept for
the other while the transaction, submitted again, is held. `ValidatorsRun` has a
quorum of one (if a quorum started by state sync at once, its members would wait
for each other), and says that validators come up, not that they go on applying
blocks: one that indexes can be held by its hook (`HookReturns`). `ClusterFits` asks for free ports and
matching addresses only where the ranges of ports lie apart (`RangesApart`); that
they do is not checked by the generator, which is what run `ports` refutes.
`CertifiedApplies` and the second half of `EveryBlockIsAnswered` leave out a
runtime that shuts down under the materialization: `apply_certified` panics then.
`PageIsTrue` does not say that a proof is ever shown: after the last attempt the
error stays, and an account without a row is shown as missing and not asked for
again, though its row may come later. `RingNeverRunsDry` is about streams that lose
nothing. `PublishesEverything` covers blocks handed to the hook; that the hook
goes on is what `HookReturns` refutes. `ReservationsDiffer` is about one session:
the catch of `submitTransfer` compares trackers by value, so a transfer that fails
after its wallet signed out can take back a reservation of the next session.

### Where the code and its documentation disagree

* `mempool_shared`: a transaction is finalized in another validator's block,
  proposed here after that, filtered, and timed out: its batch is reported as
  dropped although all of it is finalized. `actor.rs:65` says "The batch was
  proposed but its block was not finalized."
* `ports`: with the default ports, nine local validators, an indexer and a
  relayer, the relayer and chain-indexer are both given 8090, and the one that
  starts second cannot bind it. `local.rs:145` says "Secondary ports start after
  the primary range to avoid collisions on the same loopback host."
* `indexing_hook`: after a crash between the queue write and the return of the
  finalized hook, the recovered cursor is past the block that is handed over
  again, and `enqueue` retries for ever.

### Fairness

Steps of a local task (a loop, a promise that settles, a timer, a worker thread)
have weak fairness: `Drain` and `Acknowledge` of `Mempool`, the actor of
`Webserver`, `Relay`, the tasks of hook, consumer and publisher in `Indexing`,
`NodeStep` of `Startup`, the threads of `BlockBody`. Components that are composed
by `part` have their fairness in the `MC*` module. Beyond that:

* `Mempool`: `Propose` and `ReportBlock` are strongly fair. Consensus sends them
  for ever, the mailbox is first-in first-out, and the actor takes no message
  while it processes a block, so they are not continuously enabled.
* `MCIngress`: a task waiting for room in the mailbox is strongly fair; waiters
  are queued in order.
* `MCNode`: some view is reported again and again; consensus finalizes while a
  quorum runs; crashes are bounded.
* `MCIndexing`: a store commit is tried until it succeeds; crashes are bounded.
* `PublishedLog`: `Publish` is weakly fair, which `PublishesEverything` shows to
  be implemented.

## Proofs

Assumptions are the named `ASSUME`s of the modules: a window of at least one, a
largest integer, finitely many accounts, a default balance that fits, pools of
well-formed records, batches that are finite and not empty, limits that are
numbers, finitely many validators and a quorum of at least one of them, blocks
that each add at least one operation to the state log. Bounds of the runs are
arbitrary numbers in the proofs.

* `FoldLemmas`: induction and folds. The provers cannot instantiate a theorem
  that takes an operator, so a predicate is given by the set of what satisfies it
  (`LeastNatural`, `NaturalInduction`, `FiniteInduction`), and the step of a fold
  by a function (`FoldExists`, `LeftFoldExists`, the `Sum*` lemmas). All the
  inductions over bodies, queues, sums and heights below go through these.
* `ExecutorLemmas`: what the operators of `NonceOps` and `Executor` compute.
  `Tracks(s, used)` says that a tracker state represents a set of used nonces:
  `base` is unused and tight, and the bitmap is exactly the used nonces past it;
  `consume` keeps it (`ConsumeKeepsTracks`). The loops of `Propose`, `Execute` and
  `ExecuteUnique` are left folds (`ForEach`); a run of them is a sequence of
  overlays in which each transfer is applied to the accounts the ones before it
  left (`RanTo`). Two runs from states that agree on the accounts touched write
  the same, which gives both that a proposal replays and that the two paths agree.
* `LedgerProofs`: `LedgerInv` says that each account's tracker tracks the nonces
  the history holds for that sender, both for the database and for the block
  under construction, that what was loaded is what the database holds, and that
  on the unique path no remaining transfer touches a written account (there the
  accounts as loaded are the current ones). From it: `TypeOK`, `ExecutesOnce` and
  `MovesBetweenTwo` (the first and the last only proved). `SupplyConserved` needs
  the sum over the database too, since a refused block goes back to it
  (`SupplyInv`); `ProposalReplays` needs that what was taken so far ran on what
  was loaded (`ReplayInv`). The last
  section is about one tracker, `Nonce`: `NonceInv` is `Tracks`, and all properties
  of the tracker follow, and `NonceTypeOK`, `BaseIsNext` and `BitmapExact`, which are
  only proved. None is inductive alone: that a nonce is unused can only be read off
  the bitmap if compaction has lost nothing.
* `MempoolProofs`: `MempoolInv`. Each digest is held once among pool, proposals
  and drain; every entry is of one batch and its bytes are counted; the maps
  agree; a watched digest is held or has its outcome. For verdicts, every batch
  that shares nothing is traced (`Traced`): a copy in a block that may still
  finalize has a held copy of the same age, so a proposal is given up
  only when that block no longer can be finalized, and what was dropped is
  nowhere. All of run `mempool` follows, `VerdictsStay` included. The proof
  corrected one statement: outcomes of a transaction that two batches have, next
  to others, may outlive both (`Contested`), which the batches of the run
  are too small to show.
* `ChainProofs`: `ChainInv`. A vote vouches for an execution on top of a
  certified parent, the batch kept of it is what the header commits to, every block of a correct leader carries the commitments of
  its own execution, finalized blocks are certified and linked, and every
  database is at the header of its last block. All of run `chain` follows.
  `TimestampsGrow` assumes that a certificate takes two votes: a leader votes for
  its own block without comparing its timestamp with the parent's, so with a
  quorum of one such a block would be certified.
* `PublisherProofs`: `PublisherInv`. Commits land in any order, but every cursor,
  watermark and frontier is the end of a block (`Level`), so the state of the
  publisher is six heights in order: Store watermark, the writers' watermark, and
  the blocks staged, sent, prepared and accepted (`Connected`). Only the batch
  of the first unpublished block carries watermarks, and a flush goes to the end of
  what is persisted without a gap; this is why no watermark passes a hole
  (`PublishedIsWhole`, for the publisher with shutdowns).
* `IndexingProofs`: `IndexInv` adds the queue to `PublisherInv`: its
  entries follow the chain from the block after the Store's watermark, a block
  queued twice was published before its second copy, the recovered cursor is the
  end of the newest entry unless that entry is pruned, all that was offered to a
  publisher that is gone is acknowledged or offered again, and hook and consumer
  cannot both need a connection. From it `PublishedIsWhole` under the queue,
  `CapturedForGood`, `QueueFollowsTheStore`, and that `Indexing` implements the
  safety part of `PublishedLog`: a step of the system is a `Finalize`, a `Publish` or a stutter
  (`IndexingImplementsLog`).
* `NodeProofs`: three parts that stand alone. `StartupInv` is about a node's disk:
  a block is acknowledged after it was applied and applied after it was archived,
  at most one block is between delivery and acknowledgement, archives are pruned
  only up to what was acknowledged and the state of a node that indexes only up to
  the end of what the hook captured. This is what `Recoverable` needs, wherever the crash
  falls. `UploaderInv` says that a block joins its entry in the certificate
  uploader only after it was written by digest (`CertificatesPaired`; it is assumed
  that no digest equals the mark of an idle uploader). `RelayInv` says of every
  status on its way to the client (remembered by a leader, merged, answered) that
  what it calls included was finalized at its height or below; merging keeps that
  because it takes the union of the transactions and the largest height
  (`AnswerIsTrue`; it is assumed that the list of leaders is not empty).

Only model-checked:

* everything under fairness (`BatchesResolve`, `EveryBlockIsAnswered`,
  `EveryRequestIsAnswered`, `ValidatorsRun`, `SubmissionIsAnswered`, the
  liveness part of `PublishesEverything`): liveness is out of the provers' reach;
* `AcceptedIffGenuine`, `AdmitsWhatFits` and `ClusterFits`: they compare a
  calculation with its reference over inputs that the run enumerates (encodings,
  sizes, configurations), where the argument is the case analysis itself;
* `CertifiedApplies`, `StreamsKeepGoing` and `BlocksInOrder`: their inductive
  invariants (over the cells three threads share, over rings of signed batches and
  their windows, over the tasks that wait for the mailbox) have not been worked
  out;
* `RowsAreTrue`, `PageIsTrue`, `NothingIsSkipped`, `ReservationsDiffer` and
  `HistoryIsTrue`: `IndexRows` and `Wallet` are written with folds over sequences
  of rows and of nonces, and `AccountPage` extends `IndexRows`.

## Not modelled

* Byte codecs and cryptography: a signature is genuine or not, a root stands for
  what it commits to. Sizes are modelled where limits depend on them.
* Metrics, logging, telemetry, command lines, the wiring of library engines
  (consensus, broadcast, resolver, runtime), which has no logic of its own.
* The servers of the indexer: routing and queries are done by libraries.
* In the explorer: the stream of blocks and its charts, search, layout, and the
  arithmetic of proofs.
* Errors of the file system, and of ports that other programs hold.
* In the mempool, a restart, which loses everything since nothing is persisted.
* What was modelled without a property: the rows of `account_meta` that batches
  of consecutive blocks overwrite in any order (`StoreCommit`); the block that is
  lost with the memory of the certificate uploader after its queue entry was
  acknowledged (`Acknowledge`, `Restart` of `Indexing`); the answer `Dropped` of
  a full pool (`SubmitFull`) and of a relayer whose retries ran out
  (`BestEffortStatus`); the bitmap of a nonce tracker that a JSON number rounds on
  its way to the browser (`accountNonceState`); the counters of the spammer; the
  regions a remote deployment places its machines in.
