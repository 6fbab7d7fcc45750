------------------------------ MODULE Indexing ------------------------------
(***************************************************************************)
(* The path of a finalized block from the hook to the Store                *)
(* (bin/validator/src/run.rs) on top of the publisher: the hook captures   *)
(* the block in a durable queue and then persists a cursor, a consumer     *)
(* uploads queue entries and acknowledges them.  The process may crash      *)
(* between any two steps.                                                   *)
(*                                                                         *)
(* Consensus is external: it hands over one block at a time, and hands a   *)
(* block over again after a crash if the hook had not returned.  The queue *)
(* is external: after a restart it delivers every entry it has not pruned, *)
(* and it prunes only below its oldest unacknowledged entry.               *)
(***************************************************************************)
EXTENDS Publisher

CONSTANTS
    Firsts,       \* first blocks a node may finalize; older ones are in the Store
    MaxActive,    \* upload_buffer clamped: uploads the consumer keeps in flight
    MaxCrashes    \* bound

ASSUME IndexingAssumption == /\ Firsts \subseteq Heights
                             /\ MaxActive \in Nat \ {0}
                             /\ MaxCrashes \in Nat

None == [state |-> -1, transactions |-> -1]

VARIABLES
    finalized,     \* consensus: blocks handed to the hook
    returned,      \* consensus: blocks whose hook has returned
    hook,          \* "idle", "building" or "persisting"
    cursor,        \* FinalizedUploadCursor
    metaCursor,    \* the cursor on disk, or None
    queue,         \* the uploads ever enqueued, on disk
    pruned,        \* how many of them the queue has pruned
    reader,        \* the consumer's position
    starting,      \* the position start_queued_upload tries to start, or 0
    active,        \* positions whose upload has started
    acked,         \* acknowledged positions
    connecting,    \* the tasks inside LazyPublisher::publisher
    blockInbox,    \* blocks on their way to the certificate uploader
    blocks,        \* Store: blocks by digest
    crashes

hookVars == <<finalized, returned, hook, cursor, metaCursor>>
consumerVars == <<reader, starting, active, acked>>
certVars == <<blockInbox, blocks>>
indexVars == <<vars, hookVars, queue, pruned, consumerVars, connecting, certVars, crashes>>

---------------------------------------------------------------------------
(* LazyPublisher::publisher: the slot is read, and written after a connect  *)
(* that does not hold its lock.                                            *)

BeginConnect(task) ==
    /\ ~up /\ task \notin connecting
    /\ connecting' = connecting \cup {task}
    /\ UNCHANGED <<vars, hookVars, queue, pruned, consumerVars, certVars, crashes>>

EndConnect(task) ==
    /\ task \in connecting
    /\ connecting' = connecting \ {task}
    /\ Connect
    /\ UNCHANGED <<hookVars, queue, pruned, consumerVars, certVars, crashes>>

---------------------------------------------------------------------------
(* The hook: FinalizedUploadProducer::enqueue. *)

HandOver == /\ hook = "idle" /\ returned < MaxHeight
            /\ hook' = "building"
            /\ finalized' = returned + 1
            /\ UNCHANGED <<vars, returned, cursor, metaCursor, queue, pruned, consumerVars,
                           connecting, certVars, crashes>>

\* The entry is built from the cursor and enqueued.
Enqueue == /\ hook = "building"
           /\ BuildAnswer(cursor, finalized) = "built"
           /\ queue' = Append(queue, Upload(finalized, cursor))
           /\ hook' = "persisting"
           /\ UNCHANGED <<vars, finalized, returned, cursor, metaCursor, pruned, consumerVars,
                          connecting, certVars, crashes>>

\* An empty cursor past genesis: take the Store's, unless that is empty too.
\* With any other error the hook sleeps and tries again.
NeedsStoreCursor == /\ hook = "building"
                    /\ BuildAnswer(cursor, finalized) = "storeEmpty"
                    /\ cursor.state = 0

AdoptStoreCursor == /\ NeedsStoreCursor
                    /\ up /\ next # NoFrontier
                    /\ cursor' = next
                    /\ UNCHANGED <<vars, finalized, returned, hook, metaCursor, queue, pruned,
                                   consumerVars, connecting, certVars, crashes>>

\* persist_finalized_cursor, then the hook returns.
PersistCursor == /\ hook = "persisting"
                 /\ metaCursor' = EndOf(queue[Len(queue)])
                 /\ cursor' = metaCursor'
                 /\ returned' = finalized
                 /\ hook' = "idle"
                 /\ UNCHANGED <<vars, finalized, queue, pruned, consumerVars, connecting,
                                certVars, crashes>>

---------------------------------------------------------------------------
(* The consumer: run_finalized_upload_consumer. *)

ConsumerIdle == starting = 0

Receive == /\ ConsumerIdle
           /\ Cardinality(active) < MaxActive
           /\ reader < Len(queue)
           /\ reader' = reader + 1
           /\ starting' = reader + 1
           /\ UNCHANGED <<vars, hookVars, queue, pruned, active, acked, connecting, certVars,
                          crashes>>

\* start_queued_upload; while the publisher answers with an error it retries.
StartQueuedUpload == /\ starting # 0
                     /\ EnqueueQueuedFinalized(queue[starting])
                     /\ active' = active \cup {starting}
                     /\ starting' = 0
                     /\ UNCHANGED <<hookVars, queue, pruned, reader, acked, connecting, certVars,
                                    crashes>>

\* The positions below the oldest unacknowledged one.
AckFloor(a) == CHOOSE n \in 0..Len(queue) : 1..n \subseteq a /\ n + 1 \notin a

\* Acknowledging as soon as the publisher has the upload.
UploadStarted(p) == TRUE

\* completion.wait(): the publisher has published the upload.
UploadDone(p) == queue[p].height \in completed

\* The block of a finished upload goes to the certificate uploader, then the
\* entry is acknowledged and the queue synced.
Acknowledge(p) == /\ ConsumerIdle
                  /\ p \in active
                  /\ UploadDone(p)
                  /\ blockInbox' = blockInbox \cup {queue[p].height}
                  /\ acked' = acked \cup {p}
                  /\ active' = active \ {p}
                  /\ pruned' \in pruned..AckFloor(acked')
                  /\ UNCHANGED <<vars, hookVars, queue, reader, starting, connecting, blocks,
                                 crashes>>

\* The certificate uploader writes the block by digest.
UploadBlockByDigest(h) == /\ h \in blockInbox
                          /\ blocks' = blocks \cup {h}
                          /\ blockInbox' = blockInbox \ {h}
                          /\ UNCHANGED <<vars, hookVars, queue, pruned, consumerVars, connecting,
                                         crashes>>

---------------------------------------------------------------------------
(* Crash and restart. *)

\* FinalizedUploadCursor::max: the later pair as a whole.
Later(a, b) == IF b.state > a.state \/ (b.state = a.state /\ b.transactions > a.transactions)
               THEN b ELSE a

\* scan_finalized_queue_cursor: the end of the newest entry in the queue.
QueueCursor == IF pruned = Len(queue) THEN None ELSE EndOf(queue[Len(queue)])

OrDefault(c) == IF c = None THEN NoFrontier ELSE c

\* recovered_finalized_upload_cursor.
RecoveredCursor == Later(OrDefault(metaCursor), OrDefault(QueueCursor))

\* The scan leaves the reader at the end, and with its reset at the start.
ReaderNotReset == Len(queue)
ReaderAfterScan == pruned

\* The process ends; maybe_build_indexer recovers from disk.
Restart == /\ crashes < MaxCrashes
           /\ crashes' = crashes + 1
           /\ Drop
           /\ hook' = "idle"
           /\ cursor' = RecoveredCursor
           /\ metaCursor' = RecoveredCursor
           /\ reader' = ReaderAfterScan
           /\ acked' = 1..pruned
           /\ starting' = 0
           /\ active' = {}
           /\ connecting' = {}
           /\ blockInbox' = {}
           /\ UNCHANGED <<finalized, returned, queue, pruned, blocks>>

---------------------------------------------------------------------------

\* A node that takes over at a block finds the Store with the ones before.
InitAt(first) ==
    /\ rows = 1..(first - 1)
    /\ storeMark = IF first = 1 THEN NoFrontier ELSE Frontier(first - 1)
    /\ accountMeta = [a \in Accounts |-> 0]
    /\ up = FALSE /\ next = NoFrontier /\ published = NoFrontier
    /\ prepareQueue = <<>> /\ preparing = <<>> /\ commitQueue = <<>>
    /\ commits = {} /\ persisted = {} /\ pending = {} /\ flushing = NoFrontier
    /\ completed = {} /\ closing = FALSE /\ drained = "running"
    /\ finalized = first - 1 /\ returned = first - 1 /\ hook = "idle"
    /\ cursor = NoFrontier /\ metaCursor = NoFrontier
    /\ queue = <<>> /\ pruned = 0 /\ reader = 0 /\ starting = 0
    /\ active = {} /\ acked = {} /\ connecting = {}
    /\ blockInbox = {} /\ blocks = 1..(first - 1)
    /\ crashes = 0

IndexInit == \E first \in Firsts : InitAt(first)

PublisherWork == Work /\ UNCHANGED <<hookVars, queue, pruned, consumerVars, connecting, certVars,
                                     crashes>>

IndexNext == \/ HandOver \/ Enqueue \/ AdoptStoreCursor \/ PersistCursor
             \/ NeedsStoreCursor /\ BeginConnect("hook")
             \/ starting # 0 /\ BeginConnect("consumer")
             \/ \E task \in {"hook", "consumer"} : EndConnect(task)
             \/ Receive \/ StartQueuedUpload
             \/ \E p \in active : Acknowledge(p)
             \/ \E h \in blockInbox : UploadBlockByDigest(h)
             \/ PublisherWork
             \/ Restart

IndexSpec == IndexInit /\ [][IndexNext]_indexVars

---------------------------------------------------------------------------
(* Properties. *)

\* Every variable of the queue has its type.
IndexTypeOK == /\ TypeOK
               /\ finalized \in 0..MaxHeight /\ returned \in 0..MaxHeight
               /\ hook \in {"idle", "building", "persisting"}
               /\ cursor \in Frontiers /\ metaCursor \in Frontiers
               /\ queue \in Seq(Uploads)
               /\ pruned \in 0..Len(queue) /\ reader \in 0..Len(queue)
               /\ starting \in 0..Len(queue)
               /\ active \subseteq 1..Len(queue) /\ acked \subseteq 1..Len(queue)
               /\ blocks \subseteq Heights /\ blockInbox \subseteq Heights

\* A block whose hook has returned is in the Store below the watermark or in
\* the queue on disk, whatever crashes: its state delta may be pruned locally
\* from then on (qmdb.rs:105).
CapturedForGood ==
    \A h \in 1..returned :
        \/ Covers(storeMark, h)
        \/ \E p \in (pruned + 1)..Len(queue) : queue[p].height = h

\* Every entry starts where the block before it ends, entries are in the order
\* of the chain, and a repeated one follows its first copy.
QueueHasNoGaps ==
    /\ \A p \in 1..Len(queue) : queue[p].start = StartOf(queue[p].height)
    /\ \A p \in 2..Len(queue) : queue[p].height - queue[p - 1].height \in {0, 1}

\* An upload that the consumer has taken from the queue is never refused for
\* good: the publisher has it already or continues with it.  For that the queue
\* has no gaps, and hook and consumer never both connect, since the second
\* publisher would replace the first and abort its tasks with uploads in flight.
QueueFollowsTheStore ==
    /\ QueueHasNoGaps
    /\ connecting # {"hook", "consumer"} /\ (connecting # {} => ~up)
    /\ (starting # 0 /\ up) => EnqueueAnswer(queue[starting]) # "outOfSync"

\* The blocks that can be read: those below both watermarks, if their rows are
\* there.
Readable == [i \in 1..Max({0} \cup {h \in Heights : Covers(storeMark, h)}) |->
                IF i \in rows THEN i ELSE 0]

\* The hook "writes a durable finalized upload queue entry before returning to
\* consensus" (crates/indexer/README.md:80): it does return.
HookReturns == \A h \in Heights : finalized >= h ~> returned >= h
=============================================================================
