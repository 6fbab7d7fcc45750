----------------------------- MODULE MCIngress -----------------------------
(***************************************************************************)
(* Instances of what stands before the mempool actor, for TLC: its HTTP    *)
(* server and mailbox (Webserver), once with one client that posts bodies  *)
(* of every kind and once with two clients that compete for the mailbox;   *)
(* and the load generator (Spammer).  They share no state, so a behavior   *)
(* is of one part and the others stay as they are initially.               *)
(***************************************************************************)
EXTENDS Spammer, TLC

CONSTANTS c1, c2, MaxBatchBytes, MinTxBytes, MinPrefix, MaxPrefix, Window

VARIABLES part, request, mailbox, senders, attached, round, reported, tip, proposing, handled

webVars == <<request, mailbox, senders, attached, round, reported, tip, proposing, handled>>

Seeds == SeedOffset .. SeedOffset + Submitters * Ring - 1
ThreeAndOne == 0 :> 3 @@ 1 :> 1

\* Transactions of 2 or 3 bytes, up to 4 of them: bodies around every limit.
Sizes == {b \in [count : 0 .. 4, bytes : 0 .. 12, decodes : BOOLEAN, signed : BOOLEAN] :
            /\ b.decodes => b.bytes \in 2 * b.count .. 3 * b.count
            /\ b.signed => b.decodes}
OneSize == {[count |-> 1, bytes |-> 3, decodes |-> TRUE, signed |-> TRUE]}

B == INSTANCE Webserver WITH Clients <- {c1}, Bodies <- Sizes, Capacity <- 1, MaxReports <- 2
T == INSTANCE Webserver WITH Clients <- {c1, c2}, Bodies <- OneSize, Capacity <- 1, MaxReports <- 1

MCInit == Init /\ T!Init /\ part \in {"spammer", "bodies", "traffic"}

MCNext == /\ UNCHANGED part
          /\ \/ part = "spammer" /\ Next /\ UNCHANGED webVars
             \/ part = "bodies" /\ B!Next /\ UNCHANGED vars
             \/ part = "traffic" /\ T!Next /\ UNCHANGED vars

\* The messages a task may wait to send: a client waits for one query at a time.
QueriesOf(c) == {[type |-> kind, client |-> c] : kind \in {"status", "round"}}
BlockReports == {[type |-> "block", height |-> h] : h \in 1 .. 2}

\* The threads, the tasks and the actor go on.  Several senders may wait for
\* room, which may be taken before they run: each is woken in its turn.
MCSpec == /\ MCInit /\ [][MCNext]_<<part, vars, webVars>>
          /\ WF_webVars(part = "traffic" /\ T!Actor)
          /\ \A c \in {c1, c2} :
                /\ WF_webVars(part = "traffic" /\ (T!Verified(c) \/ T!VerifierDies(c)))
                /\ WF_webVars(part = "traffic" /\ T!Resolve(c))
                /\ SF_webVars(part = "traffic" /\ \E m \in QueriesOf(c) : T!Deliver(m))
          /\ SF_webVars(part = "traffic" /\ T!Deliver([type |-> "propose"]))
          /\ SF_webVars(part = "traffic" /\ \E m \in BlockReports : T!Deliver(m))

---------------------------------------------------------------------------
(* The properties of Webserver, which explains them; those of Spammer are used *)
(* by their names.                                                          *)

\* The checks of a batch's size admit the batches that fit and no others.
AdmitsWhatFits == B!AdmitsWhatFits

\* Blocks are handled in the order of their heights.
BlocksInOrder == B!BlocksInOrder

\* Requests are answered, proposals get their transactions, blocks are acknowledged.
EveryRequestIsAnswered == part = "traffic" => T!EveryRequestIsAnswered
=============================================================================
