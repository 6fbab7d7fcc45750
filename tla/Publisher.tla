----------------------------- MODULE Publisher -----------------------------
(***************************************************************************)
(* The publisher of finalized blocks (crates/indexer/src/publisher/qmdb.rs): *)
(* a preparer task hands uploads to a committer task, which keeps several   *)
(* Store commits in flight and publishes watermarks.  Commits complete in   *)
(* any order; an answer can be lost, and then the batch is written again.   *)
(*                                                                         *)
(* An upload extends two operation logs, the accounts' and the              *)
(* transactions'.  A frontier is a pair of next locations, one per log; a   *)
(* watermark at location l is the frontier l + 1, no watermark is 0.        *)
(***************************************************************************)
EXTENDS Integers, Sequences, FiniteSets, FiniteSetsExt

CONSTANTS
    MaxHeight,     \* bound: finalized blocks
    StateOps,      \* operations each block adds to the state log, commit included
    Body,          \* transactions in each block
    Accounts,
    Updates,       \* the accounts each block updates
    Buffer         \* the clamped upload_buffer: channel capacity, commits in flight

Heights == 1..MaxHeight

ASSUME BlocksAssumption == /\ MaxHeight \in Nat \ {0}
                           /\ StateOps \in [0..MaxHeight -> Nat \ {0}]
                           /\ Body \in [Heights -> Nat]
                           /\ Updates \in [Heights -> SUBSET Accounts]
ASSUME BufferAssumption == Buffer \in 1..64

\* header.state_range.end() and header.transactions_range.end(): genesis writes
\* its own commit to the transaction log.
StateEnd[h \in 0..MaxHeight] == StateOps[h] + IF h = 0 THEN 0 ELSE StateEnd[h - 1]
TransactionsEnd[h \in 0..MaxHeight] == IF h = 0 THEN 1 ELSE TransactionsEnd[h - 1] + Body[h] + 1

Frontier(h) == [state |-> StateEnd[h], transactions |-> TransactionsEnd[h]]
NoFrontier == [state |-> 0, transactions |-> 0]
Covers(f, h) == f.state >= StateEnd[h] /\ f.transactions >= TransactionsEnd[h]

\* Where the upload of a block starts: the first one carries genesis too.
StartOf(h) == IF h = 1 THEN NoFrontier ELSE Frontier(h - 1)

VARIABLES
    rows,          \* Store: the blocks whose batch is written
    storeMark,     \* Store: the published watermarks
    accountMeta,   \* Store: the block that wrote each row of account_meta last
    up,            \* whether a publisher is connected
    next,          \* state_next_location, transaction_next_location
    prepareQueue,  \* the channel to the preparer
    preparing,     \* the upload the preparer holds
    commitQueue,   \* the channel to the committer
    commits,       \* staged batches: [height, mark, done]
    persisted,     \* the writers: uploads marked persisted
    published,     \* the writers: latest_published_watermark
    pending,       \* pending_completions
    flushing,      \* the watermark being committed, or NoFrontier
    completed,     \* uploads whose completion has resolved
    closing,       \* prepare_tx is dropped
    drained        \* how the committer ended: "running", "drained", "panicked"

store == <<rows, storeMark, accountMeta>>
pipeline == <<prepareQueue, preparing, commitQueue>>
committer == <<commits, persisted, published, pending, flushing, drained>>
publisher == <<up, next, pipeline, committer, completed, closing>>

---------------------------------------------------------------------------
(* Queued uploads. *)

Upload(h, start) == [height |-> h, start |-> start]
Uploads == [height : Heights, start : [state : Nat, transactions : Nat]]

\* Operations the upload of block h adds to the transaction log from location n.
TransactionOpCount(n, h) == Body[h] + 1 + IF n = 0 THEN 1 ELSE 0
TransactionBlockStart(n, h) == TransactionsEnd[h] - TransactionOpCount(n, h)

\* validate_writer_range, then transaction_upload_end, then the read of the delta.
BuildAnswer(cursor, h) ==
    IF cursor.state = 0 /\ h > 1 THEN "storeEmpty"
    ELSE IF cursor.state > StateEnd[h] THEN "outOfSync"
    ELSE IF cursor.transactions = 0 /\ h > 1 THEN "storeEmpty"
    ELSE IF cursor.transactions # TransactionBlockStart(cursor.transactions, h) THEN "outOfSync"
    ELSE IF cursor.state = StateEnd[h] THEN "emptyBatch"
    ELSE "built"

EndOf(u) == [state |-> StateEnd[u.height],
             transactions |-> u.start.transactions
                                + TransactionOpCount(u.start.transactions, u.height)]

---------------------------------------------------------------------------
(* The writers of exoware_qmdb: a flush publishes the longest prefix whose *)
(* uploads are all persisted.                                              *)

PrefixEnd(end, mark, done) ==
    Max({mark} \cup {end[h] : h \in {g \in done : \A f \in 1..g : end[f] <= mark \/ f \in done}})

PrepareFlush(mark, done) ==
    [state |-> PrefixEnd(StateEnd, mark.state, done),
     transactions |-> PrefixEnd(TransactionsEnd, mark.transactions, done)]

---------------------------------------------------------------------------
(* Connecting and enqueueing. *)

FreshPipeline == /\ prepareQueue' = <<>>
                 /\ preparing' = <<>>
                 /\ commitQueue' = <<>>
                 /\ commits' = {}
                 /\ persisted' = {}
                 /\ pending' = {}
                 /\ flushing' = NoFrontier
                 /\ completed' = {}
                 /\ closing' = FALSE
                 /\ drained' = "running"

\* Publisher::connect: both writers recover from the Store's watermarks.
Connect == /\ up' = TRUE
           /\ next' = storeMark
           /\ published' = storeMark
           /\ FreshPipeline
           /\ UNCHANGED store

EnqueueAnswer(u) ==
    IF next.state >= EndOf(u).state /\ next.transactions >= EndOf(u).transactions
    THEN "completed"
    ELSE IF next # u.start THEN "outOfSync" ELSE "queued"

\* enqueue_queued_finalized.  The two early returns leave the pipeline alone.
EnqueueQueuedFinalized(u) ==
    /\ up /\ ~closing
    /\ \/ /\ EnqueueAnswer(u) = "completed"
          /\ completed' = completed \cup {u.height}
          /\ UNCHANGED <<next, prepareQueue>>
       \/ /\ EnqueueAnswer(u) = "queued"
          /\ Len(prepareQueue) < Buffer
          /\ prepareQueue' = Append(prepareQueue, u)
          /\ next' = EndOf(u)
          /\ UNCHANGED completed
    /\ UNCHANGED <<store, up, preparing, commitQueue, committer, closing>>

\* run_qmdb_preparer: one upload at a time, in order.
PrepareQmdbUpload ==
    /\ prepareQueue # <<>> /\ preparing = <<>>
    /\ preparing' = <<Head(prepareQueue)>>
    /\ prepareQueue' = Tail(prepareQueue)
    /\ UNCHANGED <<store, up, next, commitQueue, committer, completed, closing>>

SendPrepared ==
    /\ preparing # <<>> /\ Len(commitQueue) < Buffer
    /\ commitQueue' = Append(commitQueue, Head(preparing))
    /\ preparing' = <<>>
    /\ UNCHANGED <<store, up, next, prepareQueue, committer, completed, closing>>

---------------------------------------------------------------------------
(* The committer. *)

CommitterIdle == flushing = NoFrontier /\ drained = "running"

\* stage_and_spawn_commit: the batch carries watermarks if no other is in flight.
InlineMark(h) == IF commits = {} THEN PrepareFlush(published, persisted \cup {h})
                 ELSE NoFrontier

StageAndSpawnCommit ==
    /\ CommitterIdle
    /\ commitQueue # <<>> /\ Cardinality(commits) < Buffer
    /\ LET h == Head(commitQueue).height
       IN commits' = commits \cup {[height |-> h, mark |-> InlineMark(h), done |-> FALSE]}
    /\ commitQueue' = Tail(commitQueue)
    /\ UNCHANGED <<store, up, next, prepareQueue, preparing, persisted, published, pending,
                   flushing, completed, closing, drained>>

\* commit_with_retry of one batch: the Store writes all of it.  When the answer
\* is lost the batch is committed again.
StoreCommit(c, answered) ==
    /\ c \in commits /\ ~c.done
    /\ rows' = rows \cup {c.height}
    /\ accountMeta' = [a \in Accounts |->
                         IF a \in Updates[c.height] THEN c.height ELSE accountMeta[a]]
    /\ storeMark' = IF c.mark = NoFrontier THEN storeMark ELSE c.mark
    /\ commits' = IF answered THEN (commits \ {c}) \cup {[c EXCEPT !.done = TRUE]} ELSE commits
    /\ UNCHANGED <<up, next, pipeline, persisted, published, pending, flushing, completed,
                   closing, drained>>

\* Completing what the Store has, published or not.
PublishedOrPersisted(mark, s) == s

\* complete_published_uploads, for the uploads of a set.
Published(mark, s) == {h \in s : Covers(mark, h)}

\* join_next and try_join_next: mark_committed_batch for every batch that is
\* done, then flush_and_complete_published_uploads up to the watermark commit.
JoinCommits ==
    LET done  == {c \in commits : c.done}
        marks == {c.mark : c \in done} \ {NoFrontier}
        mark  == IF marks = {} THEN published ELSE CHOOSE m \in marks : TRUE
        kept  == persisted \cup {c.height : c \in done}
        open  == pending \cup {c.height : c \in done}
        ready == Published(mark, open)
        flush == PrepareFlush(mark, kept)
    IN /\ CommitterIdle
       /\ done # {}
       /\ commits' = commits \ done
       /\ persisted' = kept
       /\ published' = mark
       /\ completed' = completed \cup ready
       /\ pending' = open \ ready
       /\ flushing' = IF open = ready \/ flush = mark THEN NoFrontier ELSE flush
       /\ UNCHANGED <<store, up, next, pipeline, closing, drained>>

\* The watermark commit answers: flush_qmdb_watermarks marks the flush and the
\* uploads it covers complete.  The committer does nothing else meanwhile.
FlushQmdbWatermarks ==
    /\ flushing # NoFrontier
    /\ storeMark' = flushing
    /\ published' = flushing
    /\ completed' = completed \cup Published(flushing, pending)
    /\ pending' = pending \ Published(flushing, pending)
    /\ flushing' = NoFrontier
    /\ UNCHANGED <<rows, accountMeta, up, next, pipeline, commits, persisted, closing, drained>>

\* Publisher::shutdown drops the sender; the tasks end when their channels are
\* empty, the committer after a last flush and an assertion.
Shutdown ==
    /\ up /\ ~closing
    /\ closing' = TRUE
    /\ UNCHANGED <<store, up, next, pipeline, committer, completed>>

CommitterExit ==
    LET flush == IF pending = {} THEN published ELSE PrepareFlush(published, persisted)
        ready == Published(flush, pending)
    IN /\ CommitterIdle /\ closing
       /\ prepareQueue = <<>> /\ preparing = <<>> /\ commitQueue = <<>> /\ commits = {}
       /\ storeMark' = IF pending = {} THEN storeMark ELSE flush
       /\ published' = flush
       /\ completed' = completed \cup ready
       /\ pending' = pending \ ready
       /\ drained' = IF pending = ready THEN "drained" ELSE "panicked"
       /\ UNCHANGED <<rows, accountMeta, up, next, pipeline, commits, persisted, flushing,
                      closing>>

\* The process ends, or the publisher is dropped and its tasks are aborted.
Drop == /\ up' = FALSE
        /\ next' = NoFrontier
        /\ published' = NoFrontier
        /\ FreshPipeline
        /\ UNCHANGED store

Work == \/ PrepareQmdbUpload
        \/ SendPrepared
        \/ StageAndSpawnCommit
        \/ \E c \in commits, answered \in BOOLEAN : StoreCommit(c, answered)
        \/ JoinCommits
        \/ FlushQmdbWatermarks
        \/ CommitterExit

---------------------------------------------------------------------------
(* A client that uploads the chain in order and may repeat what the Store  *)
(* already has, as the finalized upload queue does (module Indexing).      *)

vars == <<store, publisher>>

Init == /\ rows = {} /\ storeMark = NoFrontier /\ accountMeta = [a \in Accounts |-> 0]
        /\ up = FALSE /\ next = NoFrontier /\ published = NoFrontier
        /\ prepareQueue = <<>> /\ preparing = <<>> /\ commitQueue = <<>>
        /\ commits = {} /\ persisted = {} /\ pending = {} /\ flushing = NoFrontier
        /\ completed = {} /\ closing = FALSE /\ drained = "running"

Offer(h) == /\ next = StartOf(h) \/ Covers(storeMark, h)
            /\ EnqueueQueuedFinalized(Upload(h, StartOf(h)))

Next == \/ ~up /\ Connect
        \/ \E h \in Heights : Offer(h)
        \/ Work
        \/ Shutdown
        \/ up /\ Drop

Spec == Init /\ [][Next]_vars

---------------------------------------------------------------------------
(* Properties. *)

Frontiers == {NoFrontier} \cup {Frontier(h) : h \in Heights}

\* Every variable of the publisher has its type.
TypeOK == /\ rows \subseteq Heights
          /\ storeMark \in Frontiers /\ next \in Frontiers
          /\ published \in Frontiers /\ flushing \in Frontiers
          /\ accountMeta \in [Accounts -> 0..MaxHeight]
          /\ prepareQueue \in Seq(Uploads) /\ preparing \in Seq(Uploads)
          /\ commitQueue \in Seq(Uploads)
          /\ commits \subseteq [height : Heights, mark : Frontiers, done : BOOLEAN]
          /\ persisted \subseteq Heights /\ pending \subseteq Heights
          /\ completed \subseteq Heights
          /\ up \in BOOLEAN /\ closing \in BOOLEAN
          /\ drained \in {"running", "drained", "panicked"}

\* Readers trust the watermark: every block with an operation below it is in
\* the Store, whatever the order in which commits landed and wherever a restart
\* fell (the test out_of_order_store_commits_do_not_publish_past_prefix_holes
\* tries one order of two commits).
WatermarkHasNoHoles ==
    \A h \in Heights : (\/ storeMark.state > StartOf(h).state
                        \/ storeMark.transactions > StartOf(h).transactions) => h \in rows

\* A completion resolves only when the block is below the published watermarks:
\* the queue entry may be dropped after it.
CompletedIsPublished == \A h \in completed : Covers(storeMark, h)

\* The committer's assertion holds: after a shutdown, all that was accepted is
\* published.
ShutdownPublishesAll ==
    drained # "running" => drained = "drained" /\ storeMark = next /\ pending = {}

\* What is published is whole: no holes below the watermark, every completion
\* that was handed out covered by it, and nothing left behind by a shutdown.
PublishedIsWhole == WatermarkHasNoHoles /\ CompletedIsPublished /\ ShutdownPublishesAll
=============================================================================
