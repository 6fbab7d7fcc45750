------------------------------ MODULE Mempool ------------------------------
(***************************************************************************)
(* The mempool actor of one validator                                      *)
(* (crates/mempool/src/webserver/actor.rs) with the part of consensus that *)
(* it talks to: HTTP handlers submit batches, a proposal takes entries     *)
(* from the pool, finalized blocks are reported one at a time.             *)
(*                                                                         *)
(* A batch id is the hash of the submitted body, so it determines the      *)
(* digests of the batch (Content).  The order of transactions inside a     *)
(* batch does not matter to the actor: entries are sets of digests.        *)
(* Heights only matter by their distance: an age is the number of blocks   *)
(* reported since the height a batch was proposed for, negative while that *)
(* height is still to come.                                                *)
(***************************************************************************)
EXTENDS Integers, Sequences, FiniteSets, Functions

CONSTANTS
    Digests,          \* transactions, by message digest
    Batches,          \* batch ids
    Content,          \* the digests of each batch
    TxBytes,          \* the encoded size of each transaction
    MaxPoolBytes,     \* max_pool_bytes
    MaxProposeBytes,  \* max_propose_bytes
    Grace,            \* drop_grace_blocks
    MaxStatus,        \* MAX_STATUS_ENTRIES
    Waiters,          \* HTTP handlers that wait for a result
    Shared,           \* transactions that were also sent to other validators
    Lookahead,        \* bound: how far past the reported height a proposal can be
    MaxRound          \* bound: consensus rounds

ASSUME ContentAssumption   == /\ Content \in [Batches -> (SUBSET Digests) \ {{}}]
                              /\ \A b \in Batches : IsFiniteSet(Content[b])
ASSUME TxBytesAssumption   == TxBytes \in [Digests -> Nat \ {0}]
ASSUME LimitsAssumption    == /\ MaxPoolBytes \in Nat
                              /\ MaxProposeBytes \in Nat
                              /\ Grace \in Nat
                              /\ MaxStatus \in Nat \ {0}
ASSUME BoundsAssumption    == Lookahead \in Nat \ {0} /\ MaxRound \in Nat
ASSUME SharedAssumption    == Shared \subseteq Digests

VARIABLES
    pool,             \* pool entries, oldest first: [digests, bytes]
    poolBytes,        \* pool_bytes
    proposed,         \* proposed batches, oldest first: [age, digests]
    statuses,         \* the remembered status of batches
    statusOrder,      \* the order in which they will be forgotten
    batchDigests,     \* the batches whose digests are kept: the unresolved ones
    watchers,         \* the unresolved batches that wait for a digest
    outcomes,         \* digest_outcomes: "finalized" or "dropped"
    waiters,          \* pending_waiters
    known,            \* known_digests
    round,            \* highest_consensus_round
    block,            \* the digests of the block being processed, or NoBlock
    draining,         \* what is left of proposed.drain(..) while it is
    final,            \* consensus: the digests in reported blocks
    candidates,       \* consensus: this validator's blocks, not empty, that may still finalize
    replies,          \* what the last step answered: <<batch, answer>>
    forgotten         \* history: the batches whose status was forgotten

actor == <<pool, poolBytes, proposed, statuses, statusOrder, batchDigests, watchers,
           outcomes, waiters, known, round>>
vars == <<actor, block, draining, final, candidates, replies, forgotten>>

NoBlock == [ready |-> TRUE, digests |-> {}]

\* BatchStatus.  Finalized, PartiallyFinalized and Dropped are told apart by
\* which of the two sets is empty.
Accepted == [resolved |-> FALSE, included |-> {}, filtered |-> {}]
Resolved(inc, fil) == [resolved |-> TRUE, included |-> inc, filtered |-> fil]

\* IngestStatus::Dropped, which /transactions/ingest returns as 503: no verdict.
Refused(b) == [resolved |-> FALSE, included |-> {}, filtered |-> Content[b]]

\* total_bytes_for.
TotalBytes(ds) == SumFunctionOnSet(TxBytes, ds)

Without(f, S) == [x \in DOMAIN f \ S |-> f[x]]

Init ==
    /\ pool = <<>> /\ poolBytes = 0 /\ proposed = <<>>
    /\ statuses = [b \in {} |-> Accepted] /\ statusOrder = <<>>
    /\ batchDigests = {}
    /\ watchers = [d \in Digests |-> {}]
    /\ outcomes = [d \in {} |-> "dropped"]
    /\ waiters = [b \in Batches |-> {}]
    /\ known = {}
    /\ round = 0
    /\ block = NoBlock /\ draining = <<>>
    /\ final = {} /\ candidates = {} /\ replies = {} /\ forgotten = {}

-----------------------------------------------------------------------------
(***************************************************************************)
(* Message::Submit, from submit_batch (a waiter) or ingest_batch.          *)
(***************************************************************************)
Ready == block = NoBlock

FreeWaiters == Waiters \ UNION {waiters[b] : b \in Batches}

Remembered(b) == b \in DOMAIN statuses

\* Mutant: transactions that are already held are pooled again.
FreshAll(b) == Content[b]

\* new_transactions.
Fresh(b) == Content[b] \ known

HasRoom(bytes) == poolBytes + bytes <= MaxPoolBytes

\* Mutant: repeating a batch that is done marks it as dropped.
SubmitKnownDrops(b, ws) ==
    /\ Ready
    /\ Remembered(b)
    /\ statuses[b].resolved
    /\ statuses' = [statuses EXCEPT ![b] = Resolved({}, Content[b])]
    /\ replies' = {<<b, statuses'[b]>>}
    /\ UNCHANGED <<pool, poolBytes, proposed, statusOrder, batchDigests, watchers, outcomes,
                   waiters, known, round, block, draining, final, candidates, forgotten>>

\* The batch is already known: /transactions gets its status or waits for it,
\* /transactions/ingest gets Accepted.
SubmitKnown(b, ws) ==
    /\ Ready
    /\ Remembered(b)
    /\ IF ws # {} /\ ~statuses[b].resolved
       THEN waiters' = [waiters EXCEPT ![b] = @ \cup ws] /\ replies' = {}
       ELSE /\ replies' = {<<b, IF ws = {} THEN Accepted ELSE statuses[b]>>}
            /\ UNCHANGED waiters
    /\ UNCHANGED <<pool, poolBytes, proposed, statuses, statusOrder, batchDigests, watchers,
                   outcomes, known, round, block, draining, final, candidates, forgotten>>

\* The pool has no room for the new transactions.
SubmitFull(b, ws) ==
    LET fresh == Fresh(b)
    IN  /\ Ready
        /\ ~Remembered(b)
        /\ fresh # {}
        /\ ~HasRoom(TotalBytes(fresh))
        /\ replies' = {<<b, IF ws = {} THEN Refused(b) ELSE Resolved({}, Content[b])>>}
        /\ UNCHANGED <<actor, block, draining, final, candidates, forgotten>>

\* Mutant: one status too many is kept.
ExpiredLate(b) ==
    IF Cardinality(DOMAIN statuses \cup {b}) > MaxStatus + 1 THEN {Head(statusOrder)} ELSE {}

\* remember_status for a new batch forgets the oldest one when there are too many.
Expired(b) ==
    IF Cardinality(DOMAIN statuses \cup {b}) > MaxStatus THEN {Head(statusOrder)} ELSE {}

\* Mutant: outcomes that other batches watch are removed.
UnwatchedAll(ds, watch) == ds

\* forget_batch removes the outcomes of the digests that nobody watches any more.
Unwatched(ds, watch) == {d \in ds : watch[d] = {}}

SubmitNew(b, ws) ==
    LET fresh   == Fresh(b)
        bytes   == TotalBytes(fresh)
        expired == Expired(b)
        watch   == [d \in Digests |->
                       (IF d \in Content[b] THEN watchers[d] \cup {b} ELSE watchers[d]) \ expired]
        left    == UNION {Content[x] : x \in expired \cap batchDigests}
    IN  /\ Ready
        /\ ~Remembered(b)
        /\ fresh = {} \/ HasRoom(bytes)
        /\ statuses' = [x \in (DOMAIN statuses \cup {b}) \ expired |->
                           IF x = b THEN Accepted ELSE statuses[x]]
        /\ statusOrder' = Append(IF expired = {} THEN statusOrder ELSE Tail(statusOrder), b)
        /\ batchDigests' = (batchDigests \cup {b}) \ expired
        /\ watchers' = watch
        /\ outcomes' = Without(outcomes, Unwatched(left, watch))
        /\ waiters' = [x \in Batches |-> IF x = b THEN ws
                                         ELSE IF x \in expired THEN {} ELSE waiters[x]]
        /\ known' = known \cup fresh
        /\ IF fresh = {}
           THEN UNCHANGED <<pool, poolBytes>>
           ELSE /\ pool' = Append(pool, [digests |-> fresh, bytes |-> bytes])
                /\ poolBytes' = poolBytes + bytes
        /\ replies' = IF ws = {} THEN {<<b, Accepted>>} ELSE {}
        /\ forgotten' = forgotten \cup expired
        /\ UNCHANGED <<proposed, round, block, draining, final, candidates>>

Submit(b, ws) == SubmitKnown(b, ws) \/ SubmitFull(b, ws) \/ SubmitNew(b, ws)

-----------------------------------------------------------------------------
(***************************************************************************)
(* Message::Propose, for the block lead heights past the last reported.    *)
(***************************************************************************)
PrefixBytes(n) == SumFunctionOnSet([i \in DOMAIN pool |-> pool[i].bytes], 1 .. n)

\* The entries the loop pops: as many as fit, and always the first.
TakesEntries(n) ==
    /\ n = 0 => pool = <<>>
    /\ n > 1 => PrefixBytes(n) <= MaxProposeBytes
    /\ 0 < n /\ n < Len(pool) => PrefixBytes(n + 1) > MaxProposeBytes

BytesLeft(n) == poolBytes - PrefixBytes(n)

Propose(lead) ==
    /\ Ready
    /\ \E n \in 0 .. Len(pool) :
        /\ TakesEntries(n)
        /\ pool' = SubSeq(pool, n + 1, Len(pool))
        /\ poolBytes' = BytesLeft(n)
        /\ proposed' = proposed \o [i \in 1 .. n |-> [age |-> -lead, digests |-> pool[i].digests]]
        /\ candidates' = IF n = 0 THEN candidates
                         ELSE candidates \cup
                                  {[age |-> -lead, digests |-> UNION {pool[i].digests : i \in 1 .. n}]}
    /\ replies' = {}
    /\ UNCHANGED <<statuses, statusOrder, batchDigests, watchers, outcomes, waiters, known,
                   round, block, draining, final, forgotten>>

-----------------------------------------------------------------------------
(***************************************************************************)
(* Message::Report.  Consensus finalizes a block of this validator, with   *)
(* the transactions its executor kept, or a block of another validator;    *)
(* no transaction is finalized twice (see Ledger).                         *)
(***************************************************************************)
FinalizableBodies ==
    (UNION {SUBSET (c.digests \ final) : c \in {c \in candidates : c.age = -1}})
        \cup SUBSET (Shared \ final)

ReportBlock(body, r) ==
    /\ Ready
    /\ block' = [ready |-> FALSE, digests |-> body]
    /\ round' = IF r > round THEN r ELSE round
    /\ final' = final \cup body
    /\ candidates' = {[c EXCEPT !.age = @ + 1] : c \in {c \in candidates : c.age < -1}}
    /\ draining' = [i \in DOMAIN proposed |-> [proposed[i] EXCEPT !.age = @ + 1]]
    /\ proposed' = <<>>
    /\ replies' = {}
    /\ UNCHANGED <<pool, poolBytes, statuses, statusOrder, batchDigests, watchers, outcomes,
                   waiters, known, forgotten>>

\* resolve_batch_if_terminal for the batches in affected whose digests all have
\* an outcome.  The order of a HashSet is irrelevant here: a resolved batch only
\* removes outcomes that no other batch watches.
ResolveTerminal(affected, out) ==
    LET done  == {b \in affected \cap batchDigests : Content[b] \subseteq DOMAIN out}
        watch == [d \in Digests |-> watchers[d] \ done]
        stat  == [b \in done |-> Resolved({d \in Content[b] : out[d] = "finalized"},
                                          {d \in Content[b] : out[d] = "dropped"})]
    IN  /\ statuses' = [b \in DOMAIN statuses |-> IF b \in done THEN stat[b] ELSE statuses[b]]
        /\ batchDigests' = batchDigests \ done
        /\ watchers' = watch
        /\ outcomes' = Without(out, Unwatched(UNION {Content[b] : b \in done}, watch))
        /\ waiters' = [b \in Batches |-> IF b \in done THEN {} ELSE waiters[b]]
        /\ replies' = {<<b, stat[b]>> : b \in {x \in done : waiters[x] # {}}}

Hit(batch) == batch.digests \cap block.digests

\* Mutant: the height the batch was proposed for is ignored.
TooOldAlways(batch) == TRUE

\* height >= batch.height + drop_grace_blocks
TooOld(batch) == batch.age >= Grace

\* Mutant: only the watchers of finalized transactions are told.
AffectedHit(batch) == UNION {watchers[d] : d \in Hit(batch)}

\* watched_batches_for.
Affected(batch) == UNION {watchers[d] : d \in batch.digests}

\* One iteration over proposed.drain(..).
Drain ==
    /\ ~Ready
    /\ draining # <<>>
    /\ draining' = Tail(draining)
    /\ LET batch == Head(draining)
           hit   == Hit(batch)
           out   == [d \in DOMAIN outcomes \cup batch.digests |->
                           IF d \in hit THEN "finalized"
                           ELSE IF d \in batch.digests THEN "dropped" ELSE outcomes[d]]
       IN  IF hit # {} \/ TooOld(batch)
           THEN /\ known' = known \ batch.digests
                /\ ResolveTerminal(Affected(batch), out)
                /\ UNCHANGED proposed
           ELSE /\ proposed' = Append(proposed, batch)
                /\ replies' = {}
                /\ UNCHANGED <<statuses, batchDigests, watchers, outcomes, waiters, known>>
    /\ UNCHANGED <<pool, poolBytes, statusOrder, round, block, final, candidates, forgotten>>

\* The loop is done: the block is acknowledged.
Acknowledge ==
    /\ ~Ready
    /\ draining = <<>>
    /\ block' = NoBlock
    /\ replies' = {}
    /\ UNCHANGED <<actor, draining, final, candidates, forgotten>>

\* Report(Update::Tip): only the round.
ReportTip(r) ==
    /\ Ready
    /\ round' = IF r > round THEN r ELSE round
    /\ replies' = {}
    /\ UNCHANGED <<pool, poolBytes, proposed, statuses, statusOrder, batchDigests, watchers,
                   outcomes, waiters, known, block, draining, final, candidates, forgotten>>

-----------------------------------------------------------------------------
Requests == {{}} \cup {{w} : w \in FreeWaiters}

Next ==
    \/ \E b \in Batches, ws \in Requests : Submit(b, ws)
    \/ \E lead \in 1 .. Lookahead : Propose(lead)
    \/ \E body \in FinalizableBodies, r \in 0 .. MaxRound : ReportBlock(body, r)
    \/ Drain
    \/ Acknowledge
    \/ \E r \in 0 .. MaxRound : ReportTip(r)

Spec == Init /\ [][Next]_vars

\* Consensus keeps finalizing blocks and keeps asking this validator for
\* proposals, because leadership rotates.  The mailbox is a first-in first-out
\* channel, so these messages are received however many others there are: strong
\* fairness, since the actor takes no message while it processes a block.  The loop
\* over the proposed batches is local to the actor.
LiveSpec ==
    /\ Spec
    /\ SF_vars(\E lead \in 1 .. Lookahead : Propose(lead))
    /\ SF_vars(\E body \in FinalizableBodies, r \in 0 .. MaxRound : ReportBlock(body, r))
    /\ WF_vars(Drain)
    /\ WF_vars(Acknowledge)

-----------------------------------------------------------------------------
(***************************************************************************)
(* Properties.                                                             *)
(***************************************************************************)
Statuses == [resolved : BOOLEAN, included : SUBSET Digests, filtered : SUBSET Digests]
Entries  == [digests : SUBSET Digests, bytes : Nat]
Proposals == [age : Int, digests : SUBSET Digests]

\* Every variable has the shape the actor's fields have.
TypeOK ==
    /\ pool \in Seq(Entries) /\ poolBytes \in Nat
    /\ proposed \in Seq(Proposals) /\ draining \in Seq(Proposals)
    /\ DOMAIN statuses \subseteq Batches /\ \A b \in DOMAIN statuses : statuses[b] \in Statuses
    /\ statusOrder \in Seq(Batches)
    /\ batchDigests \subseteq Batches
    /\ watchers \in [Digests -> SUBSET Batches]
    /\ DOMAIN outcomes \subseteq Digests
    /\ \A d \in DOMAIN outcomes : outcomes[d] \in {"finalized", "dropped"}
    /\ waiters \in [Batches -> SUBSET Waiters]
    /\ known \subseteq Digests
    /\ round \in 0 .. MaxRound
    /\ block \in [ready : BOOLEAN, digests : SUBSET Digests]
    /\ final \subseteq Digests
    /\ forgotten \subseteq Batches

\* The sets of digests the actor holds, in the pool and proposed.
Held == [i \in 1 .. Len(pool) |-> pool[i].digests]
            \o [i \in 1 .. Len(proposed) |-> proposed[i].digests]
            \o [i \in 1 .. Len(draining) |-> draining[i].digests]

\* known_digests is exactly what the actor holds, and it holds no transaction
\* twice: a digest that stayed behind could never be submitted again, one that
\* left too early would be proposed twice.
KnownIsHeld ==
    /\ known = UNION Range(Held)
    /\ \A i, j \in DOMAIN Held : i # j => Held[i] \cap Held[j] = {}

\* Whatever is submitted, proposed, refused and finalized, what the actor holds is
\* accounted for: known_digests as KnownIsHeld says, and pool_bytes is the size of
\* the pool's transactions and stays within max_pool_bytes.
PoolAccounted ==
    /\ KnownIsHeld
    /\ poolBytes = SumFunction([i \in DOMAIN pool |-> TotalBytes(pool[i].digests)])
    /\ poolBytes <= MaxPoolBytes

\* No batch is stuck: each transaction of an unresolved batch has an outcome or
\* is still held, at least one is held, and the batch watches each of them, so
\* that the outcome of the last one resolves it.
NoStuckBatch ==
    \A b \in batchDigests :
        /\ Content[b] \subseteq known \cup DOMAIN outcomes
        /\ Content[b] \cap known # {}
        /\ \A d \in Content[b] : b \in watchers[d]

\* Two batches have the transaction, next to others.
Contested(d) ==
    \E x, y \in Batches :
        x # y /\ d \in Content[x] \cap Content[y] /\ {d} \notin {Content[x], Content[y]}

\* A resolved batch leaves no outcome behind: an outcome is kept only while some
\* unresolved batch needs it.  There are two exceptions.  A batch that is forgotten
\* while a proposal holds its transactions leaves their outcomes behind.  And a
\* batch may be resolved by an outcome that another batch still waits with, while
\* the transaction, submitted again, is held: that second outcome nobody needs.
OutcomesNeeded ==
    \A d \in DOMAIN outcomes :
        watchers[d] # {} \/ Contested(d) \/ \E b \in forgotten : d \in Content[b]

\* The maps keyed by batch agree, also when old statuses are forgotten: digests
\* are kept for the accepted batches only, nobody watches or waits for any other,
\* the queue of statuses to forget lists each remembered batch once, and outcomes
\* are kept only where OutcomesNeeded allows.
IndexesAgree ==
    /\ batchDigests = {b \in DOMAIN statuses : ~statuses[b].resolved}
    /\ \A d \in Digests : watchers[d] \subseteq {b \in batchDigests : d \in Content[b]}
    /\ \A b \in Batches : waiters[b] # {} => b \in batchDigests
    /\ Range(statusOrder) = DOMAIN statuses
    /\ Len(statusOrder) = Cardinality(DOMAIN statuses)
    /\ Len(statusOrder) <= MaxStatus
    /\ OutcomesNeeded

\* The transactions the batches of S report as filtered.
FilteredBy(S) == UNION {statuses[b].filtered : b \in S}

\* The batches that were not forgotten and share no transaction with another
\* batch or another validator.
Exclusive == {b \in Batches \ forgotten :
                 Content[b] \cap (Shared \cup UNION {Content[x] : x \in Batches \ {b}}) = {}}

\* What such a batch reports as filtered will not be finalized: it is in no
\* finalized block, in no block of this validator that may still finalize, and
\* not held for another proposal.
FilteredForGood ==
    \A d \in FilteredBy(DOMAIN statuses \cap Exclusive) :
        /\ d \notin final
        /\ d \notin known
        /\ \A c \in candidates : d \notin c.digests

\* What a status says of its transactions is true of the chain: those reported as
\* included are in a finalized block, and those reported as filtered are out for
\* good where FilteredForGood applies.
VerdictsHold ==
    /\ \A b \in DOMAIN statuses : statuses[b].included \subseteq final
    /\ FilteredForGood

\* Once a batch has a verdict, it keeps it for as long as it is remembered.
VerdictsStay ==
    [][\A b \in DOMAIN statuses \cap DOMAIN statuses' :
           statuses[b].resolved => statuses'[b] = statuses[b]]_vars

\* An accepted batch is resolved or forgotten, and whoever waits for it is
\* answered or let go, if blocks are finalized and proposals asked for forever.
BatchesResolve == \A b \in Batches : (b \in batchDigests) ~> (b \notin batchDigests)

-----------------------------------------------------------------------------
(***************************************************************************)
(* What the documentation of the actor says and the code does not do.      *)
(***************************************************************************)
DroppedBatches == {b \in DOMAIN statuses : statuses[b].resolved /\ statuses[b].included = {}}

\* "The batch was proposed but its block was not finalized." (actor.rs:65): when a
\* batch is given the verdict Dropped, none of its transactions is in a finalized
\* block.
DroppedIsNotFinalized ==
    [][\A b \in DroppedBatches' \ DroppedBatches : Content[b] \cap final' = {}]_vars

=============================================================================
