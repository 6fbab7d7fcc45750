----------------------------- MODULE MCIndexing -----------------------------
(***************************************************************************)
(* Instances of what brings finalized blocks into the Store, for TLC: the   *)
(* upload queue over the publisher (Indexing), the publisher alone, with    *)
(* shutdowns (Publisher), and the certificate uploader (Certificates).  A   *)
(* behavior is of one part, and the variables of the others stay as they    *)
(* are initially.                                                           *)
(***************************************************************************)
EXTENDS Indexing, NodeUploader

VARIABLE part

queueVars == <<hookVars, queue, pruned, consumerVars, connecting, certVars, crashes>>

\* Blocks with and without transactions.
MCStateOps == [h \in 0..MaxHeight |-> 1 + (h % 2)]
MCBody == [h \in Heights |-> h % 2]
NoUpdates == [h \in Heights |-> {}]

MCInit == /\ IndexInit /\ C!Init
          /\ part \in {"queue", "publisher", "certificates"}
          /\ part # "queue" => finalized = 0

MCNext == /\ UNCHANGED part
          /\ \/ part = "queue" /\ IndexNext /\ UNCHANGED uploaderVars
             \/ part = "publisher" /\ Next /\ UNCHANGED <<queueVars, uploaderVars>>
             \/ part = "certificates" /\ C!Next /\ UNCHANGED indexVars

Queue(A) == part = "queue" /\ A

\* Every task of the queue part takes its next step, and the Store answers.
MCSpec ==
    /\ MCInit /\ [][MCNext]_<<part, indexVars, uploaderVars>>
    /\ WF_indexVars(Queue(HandOver)) /\ WF_indexVars(Queue(Enqueue))
    /\ WF_indexVars(Queue(PersistCursor)) /\ WF_indexVars(Queue(AdoptStoreCursor))
    /\ WF_indexVars(Queue(NeedsStoreCursor /\ BeginConnect("hook")))
    /\ WF_indexVars(Queue(starting # 0 /\ BeginConnect("consumer")))
    /\ \A task \in {"hook", "consumer"} : WF_indexVars(Queue(EndConnect(task)))
    /\ WF_indexVars(Queue(Receive)) /\ WF_indexVars(Queue(StartQueuedUpload))
    /\ WF_indexVars(Queue(\E p \in active : Acknowledge(p)))
    /\ WF_indexVars(Queue(PrepareQmdbUpload /\ PublisherWork))
    /\ WF_indexVars(Queue(SendPrepared /\ PublisherWork))
    /\ WF_indexVars(Queue(StageAndSpawnCommit /\ PublisherWork))
    /\ WF_indexVars(Queue(JoinCommits /\ PublisherWork))
    /\ WF_indexVars(Queue(FlushQmdbWatermarks /\ PublisherWork))
    /\ \A h \in Heights :
           WF_indexVars(Queue((\E c \in commits : c.height = h /\ StoreCommit(c, TRUE))
                              /\ PublisherWork))


---------------------------------------------------------------------------
(* The properties of the parts, which their modules explain. *)

\* The log that readers see of the queue part.
QueueLog == IF part = "queue" THEN Readable ELSE <<>>
Abstract == INSTANCE PublishedLog WITH Last <- MaxHeight, log <- QueueLog

\* Indexing: the queue and the publisher implement the published log.  What can
\* be read is a prefix of the finalized chain and only grows, across crashes, and
\* under fairness every block handed to the hook gets into it.
PublishesEverything == Abstract!FairSpec
=============================================================================
