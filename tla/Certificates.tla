---------------------------- MODULE Certificates ----------------------------
(***************************************************************************)
(* The certificate uploader (crates/indexer/src/publisher/certificate.rs): *)
(* it pairs the notarizations and finalizations that consensus reports     *)
(* with the blocks that the upload queue hands over, and writes them to     *)
(* the Store.  Every report is sent by a task of its own, so inputs reach  *)
(* the channel in any order.  Readers (crates/indexer/src/client.rs) go     *)
(* from a height to a finalization and from there to the block.            *)
(***************************************************************************)
EXTENDS Naturals, Sequences, FiniteSets

CONSTANTS
    Final,       \* the digests of finalized blocks, one per height
    Forks,       \* the digests of blocks that are notarized and never finalized
    Buffer,      \* the capacity of the channel
    MaxReports   \* bound: how often one input is given

Digests == Final \cup Forks
Kinds == {"block", "notarization", "finalization"}

Input(k, d) == [kind |-> k, digest |-> d]
\* A block that is not finalized has no finalization, and the queue never holds it.
Inputs == {Input(k, d) : k \in Kinds, d \in Final} \cup {Input("notarization", d) : d \in Forks}

VARIABLES
    reports,     \* how often each input was given
    sending,     \* tasks that wait to send an input
    inbox,       \* the channel
    pending,     \* for each digest, which parts its entry holds; {} is no entry
    working,     \* the digest whose entry is being looked at, or NoDigest
    blocks,      \* Store: blocks by digest
    notarized,   \* Store: notarizations
    finalizedBy  \* Store: finalizations, indexed by height

NoDigest == "none"

vars == <<reports, sending, inbox, pending, working, blocks, notarized, finalizedBy>>
stored == <<blocks, notarized, finalizedBy>>

Init == /\ reports = [i \in Inputs |-> 0]
        /\ sending = {} /\ inbox = <<>>
        /\ pending = [d \in Digests |-> {}] /\ working = NoDigest
        /\ blocks = {} /\ notarized = {} /\ finalizedBy = {}

---------------------------------------------------------------------------
(* Giving inputs: report and dispatch_input, or publish_block. *)

Report(i) == /\ reports[i] < MaxReports /\ i \notin sending
             /\ reports' = [reports EXCEPT ![i] = @ + 1]
             /\ sending' = sending \cup {i}
             /\ UNCHANGED <<inbox, pending, working, stored>>

Send(i) == /\ i \in sending /\ Len(inbox) < Buffer
           /\ inbox' = Append(inbox, i)
           /\ sending' = sending \ {i}
           /\ UNCHANGED <<reports, pending, working, stored>>

---------------------------------------------------------------------------
(* run_uploader. *)

\* upload_block_by_digest, before the block joins its entry.
UploadBlockByDigest(i) == blocks' = IF i.kind = "block" THEN blocks \cup {i.digest} ELSE blocks

Receive == LET i == Head(inbox)
           IN /\ inbox # <<>> /\ working = NoDigest
              /\ UploadBlockByDigest(i)
              /\ pending' = [pending EXCEPT ![i.digest] = @ \cup {i.kind}]
              /\ working' = i.digest
              /\ inbox' = Tail(inbox)
              /\ UNCHANGED <<reports, sending, notarized, finalizedBy>>

\* Only a complete entry is written.
ReadyWhenComplete(entry) == entry = Kinds
Ready(entry) == "block" \in entry

\* prepare_ready_upload: both certificates are taken from the entry and written
\* in one batch; the entry goes when a finalization was among them.
PrepareReadyUpload ==
    LET entry == pending[working]
        left  == IF "finalization" \in entry THEN {} ELSE entry \ {"notarization"}
    IN /\ working # NoDigest
       /\ working' = NoDigest
       /\ IF Ready(entry)
          THEN /\ notarized' = IF "notarization" \in entry THEN notarized \cup {working}
                                                           ELSE notarized
               /\ finalizedBy' = IF "finalization" \in entry THEN finalizedBy \cup {working}
                                                             ELSE finalizedBy
               /\ pending' = [pending EXCEPT ![working] = left]
          ELSE UNCHANGED <<notarized, finalizedBy, pending>>
       /\ UNCHANGED <<reports, sending, inbox, blocks>>

\* The process ends and starts again: all that was not written is gone.
Restart == /\ sending' = {} /\ inbox' = <<>>
           /\ pending' = [d \in Digests |-> {}] /\ working' = NoDigest
           /\ UNCHANGED <<reports, stored>>

Next == \/ \E i \in Inputs : Report(i) \/ Send(i)
        \/ Receive \/ PrepareReadyUpload
        \/ Restart

Spec == Init /\ [][Next]_vars

---------------------------------------------------------------------------
(* Readers. *)

\* block_by_digest.
BlockByDigest(d) == IF d \in blocks THEN {d} ELSE {}

\* digest_by_height and block_by_height; a height is named by the finalized digest.
DigestByHeight(d) == IF d \in finalizedBy THEN {d} ELSE {}
BlockByHeight(d) == UNION {BlockByDigest(e) : e \in DigestByHeight(d)}

---------------------------------------------------------------------------
(* Properties. *)

\* Every variable of the uploader has its type.
TypeOK == /\ reports \in [Inputs -> 0..MaxReports]
          /\ sending \subseteq Inputs /\ inbox \in Seq(Inputs)
          /\ pending \in [Digests -> SUBSET Kinds] /\ working \in Digests \cup {NoDigest}
          /\ blocks \subseteq Final /\ notarized \subseteq Final /\ finalizedBy \subseteq Final

\* A reader that finds a height finds the block there, body included, whatever
\* the order in which the parts arrived and wherever a restart fell: the client
\* fetches the body by the digest of the certified header.
CertifiedHasBlock == \A d \in Final : DigestByHeight(d) # {} => BlockByHeight(d) = {d}

\* Between inputs, an entry that holds its block holds no certificate: nothing
\* that could be written waits for another input that may never come.
NothingReadyWaits ==
    \A d \in Digests : (working # d /\ "block" \in pending[d]) => pending[d] = {"block"}

\* Certificates and blocks come together: none is found without its block, and
\* none waits that could be written.
CertificatesPaired == CertifiedHasBlock /\ NothingReadyWaits
=============================================================================
