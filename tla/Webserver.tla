----------------------------- MODULE Webserver -----------------------------
(***************************************************************************)
(* The HTTP handlers and the mailbox in front of the mempool actor         *)
(* (crates/mempool/src/webserver/{http,mailbox,client}.rs).  Handlers      *)
(* verify a body on a blocking thread and send it through a bounded        *)
(* channel, without waiting for room; queries and proposals wait for room; *)
(* a report that finds no room is left to a task of its own.  The actor is *)
(* reduced to what it answers (Mempool has the rest).                      *)
(*                                                                         *)
(* A body is [count, bytes, decodes, signed]: how many transactions it     *)
(* claims, what they occupy, whether they decode and are signed.           *)
(* External: the marshal has at most Window blocks unacknowledged.         *)
(***************************************************************************)
EXTENDS Integers, Sequences, SequencesExt, FiniteSets

CONSTANTS
    Clients,
    Bodies,
    MaxBatchBytes,   \* max_propose_bytes
    MinTxBytes,      \* min_signed_transaction_bytes
    MinPrefix, MaxPrefix,   \* MIN_ and MAX_BATCH_LENGTH_PREFIX_BYTES
    Capacity,        \* of the mailbox
    Window,          \* unacknowledged blocks the marshal allows
    MaxReports       \* bound: blocks and tips reported

VARIABLES
    request,    \* what each client asked and how far it is
    mailbox,    \* the channel
    senders,    \* messages whose senders wait for room
    attached,   \* the account reader is set
    round,      \* actor: highest_consensus_round
    reported,   \* marshal: height of the last block reported
    tip,        \* marshal: round of the last tip reported
    proposing,  \* consensus waits for the transactions of a proposal
    handled     \* actor: heights in the order it handled them

vars == <<request, mailbox, senders, attached, round, reported, tip, proposing, handled>>

Codes == {200, 202, 400, 404, 413, 500, 503}
Idle == [state |-> "idle"]

Init == /\ request = [c \in Clients |-> Idle]
        /\ mailbox = <<>> /\ senders = {}
        /\ attached = FALSE /\ round = 0 /\ reported = 0 /\ tip = 0
        /\ proposing = FALSE /\ handled = <<>>

Answer(c, code) == request' = [request EXCEPT ![c] = [@ EXCEPT !.state = "answered", !.code = code]]

---------------------------------------------------------------------------
(* verify_body *)

Prefix(count) == IF count < 4 THEN MinPrefix ELSE MaxPrefix
BodyLen(b) == Prefix(b.count) + b.bytes

MaxRequestBytes == MaxBatchBytes + MaxPrefix

\* The longest prefix is taken off.
MaxTransactionCountShort(b) == (BodyLen(b) - MaxPrefix) \div MinTxBytes
MaxTransactionCount(b) == (BodyLen(b) - MinPrefix) \div MinTxBytes

\* 0 is a verified batch. The transactions are counted and decoded before their
\* size is checked, and signatures come last.
Verdict(b) == CASE BodyLen(b) > MaxRequestBytes -> 413
                [] MaxTransactionCount(b) = 0 -> 400
                [] b.count \notin 1 .. MaxTransactionCount(b) \/ ~b.decodes -> 400
                [] b.bytes > MaxBatchBytes -> 413
                [] ~b.signed -> 400
                [] OTHER -> 0

---------------------------------------------------------------------------
(* Handlers. *)

Rest == UNCHANGED <<attached, round, reported, tip, proposing, handled>>

\* A batch arrives, at /transactions or /transactions/ingest.
Post(c, kind, b) ==
    /\ request[c] = Idle
    /\ request' = [request EXCEPT ![c] = [state |-> "verifying", kind |-> kind, body |-> b, code |-> 0]]
    /\ UNCHANGED <<mailbox, senders>> /\ Rest

\* A sender that waits has no claim on the room until its task has run.
HasRoom == Len(mailbox) < Capacity

\* Verification is done: refused, or try_send. It may die with its thread.
Verified(c) ==
    /\ request[c].state = "verifying"
    /\ IF Verdict(request[c].body) # 0
       THEN Answer(c, Verdict(request[c].body)) /\ UNCHANGED mailbox
       ELSE IF HasRoom
       THEN /\ mailbox' = Append(mailbox, [type |-> "submit", client |-> c])
            /\ request' = [request EXCEPT ![c].state = "queued"]
       ELSE Answer(c, 503) /\ UNCHANGED mailbox
    /\ UNCHANGED senders /\ Rest

VerifierDies(c) == /\ request[c].state = "verifying" /\ Verdict(request[c].body) = 0
                   /\ Answer(c, 500)
                   /\ UNCHANGED <<mailbox, senders>> /\ Rest

\* Mailbox::request: wait for room, then for the answer.
Send(message) == IF HasRoom THEN mailbox' = Append(mailbox, message) /\ UNCHANGED senders
                 ELSE senders' = senders \cup {message} /\ UNCHANGED mailbox

\* GET /transactions/{batch_id} and /consensus/round.
Query(c, kind) ==
    /\ request[c] = Idle
    /\ request' = [request EXCEPT ![c] = [state |-> "queued", kind |-> kind, code |-> 0, round |-> 0]]
    /\ Send([type |-> kind, client |-> c])
    /\ Rest

\* fetch_account: valid says whether the path is a public key, exists whether
\* the account has been written.
FetchAccount(c, valid, exists) ==
    /\ request[c] = Idle
    /\ request' = [request EXCEPT ![c] = [state |-> "answered", kind |-> "account",
          code |-> IF ~valid THEN 400 ELSE IF ~attached THEN 503 ELSE IF exists THEN 200 ELSE 404]]
    /\ UNCHANGED <<mailbox, senders>> /\ Rest

\* The stateful actor has attached its databases.
Attach == ~attached /\ attached' = TRUE
          /\ UNCHANGED <<request, mailbox, senders, round, reported, tip, proposing, handled>>

\* The client has read its answer.
Read(c) == /\ request[c].state = "answered"
           /\ request' = [request EXCEPT ![c] = Idle]
           /\ UNCHANGED <<mailbox, senders>> /\ Rest

\* A sender that waited gets the room.
Deliver(message) == /\ message \in senders /\ Len(mailbox) < Capacity
                    /\ mailbox' = Append(mailbox, message)
                    /\ senders' = senders \ {message}
                    /\ UNCHANGED request /\ Rest

---------------------------------------------------------------------------
(* Reports of the marshal. *)

MayReportTwo == reported - Len(handled) < Window + 1
MayReport == reported - Len(handled) < Window

\* A report that finds no room is lost.
ReportIfRoom(message) == UNCHANGED senders /\ mailbox' = IF HasRoom THEN Append(mailbox, message) ELSE mailbox
Report(message) == Send(message)

ReportBlock == /\ reported < MaxReports /\ MayReport
               /\ reported' = reported + 1
               /\ Report([type |-> "block", height |-> reported + 1])
               /\ UNCHANGED <<request, attached, round, tip, proposing, handled>>

ReportTip == /\ tip < MaxReports
             /\ tip' = tip + 1
             /\ Report([type |-> "tip", round |-> tip + 1])
             /\ UNCHANGED <<request, attached, round, reported, proposing, handled>>

\* Mailbox::propose.
Propose == /\ ~proposing /\ proposing' = TRUE
           /\ Send([type |-> "propose"])
           /\ UNCHANGED <<request, attached, round, reported, tip, handled>>

---------------------------------------------------------------------------
(* The actor takes the next message. *)

Take == mailbox # <<>> /\ mailbox' = Tail(mailbox) /\ UNCHANGED <<senders, attached, reported, tip>>

\* An accepted batch is answered at once when it was ingested and waits when it
\* was submitted; a full pool drops it; a known batch has its status.
TakeSubmit ==
    /\ Take /\ Head(mailbox).type = "submit"
    /\ LET c == Head(mailbox).client
       IN IF request[c].kind = "ingest"
          THEN \E code \in {202, 503} : Answer(c, code)
          ELSE Answer(c, 200) \/ request' = [request EXCEPT ![c].state = "waiting"]
    /\ UNCHANGED <<round, proposing, handled>>

\* A waiting batch is resolved, or forgotten: its sender is dropped.
Resolve(c) == /\ request[c].state = "waiting"
              /\ \E code \in {200, 500} : Answer(c, code)
              /\ UNCHANGED <<mailbox, senders>> /\ Rest

TakeQuery ==
    /\ Take /\ Head(mailbox).type \in {"status", "round"}
    /\ LET c == Head(mailbox).client
       IN IF Head(mailbox).type = "round"
          THEN request' = [request EXCEPT ![c] = [@ EXCEPT !.state = "answered", !.code = 200, !.round = round]]
          ELSE \E code \in {200, 404} : Answer(c, code)
    /\ UNCHANGED <<round, proposing, handled>>

RoundAfter(r) == IF r > round THEN r ELSE round

\* Acknowledged when the block is processed.
TakeBlock == /\ Take /\ Head(mailbox).type = "block"
             /\ handled' = Append(handled, Head(mailbox).height)
             /\ round' = RoundAfter(Head(mailbox).height)
             /\ UNCHANGED <<request, proposing>>

TakePropose == /\ Take /\ Head(mailbox).type = "propose"
               /\ proposing' = FALSE
               /\ UNCHANGED <<request, round, handled>>

TakeTip == /\ Take /\ Head(mailbox).type = "tip"
           /\ round' = RoundAfter(Head(mailbox).round)
           /\ UNCHANGED <<request, proposing, handled>>

Actor == TakeSubmit \/ TakeQuery \/ TakeBlock \/ TakeTip \/ TakePropose

Next == \/ \E c \in Clients :
            \/ \E kind \in {"submit", "ingest"}, b \in Bodies : Post(c, kind, b)
            \/ \E kind \in {"status", "round"} : Query(c, kind)
            \/ \E valid, exists \in BOOLEAN : FetchAccount(c, valid, exists)
            \/ Verified(c) \/ VerifierDies(c) \/ Resolve(c) \/ Read(c)
        \/ \E message \in senders : Deliver(message)
        \/ Attach \/ ReportBlock \/ ReportTip \/ Propose \/ Actor

Spec == Init /\ [][Next]_vars

---------------------------------------------------------------------------
(* Properties. *)

\* The mailbox keeps its bound and every client is in one of the states.
TypeOK == /\ Len(mailbox) <= Capacity
          /\ \A c \in Clients : request[c].state \in {"idle", "verifying", "queued", "waiting", "answered"}
          /\ \A c \in Clients : request[c].state = "answered" => request[c].code \in Codes

\* A batch that reaches the actor fits a proposal: the actor proposes the first
\* batch of its pool whatever its size, so nothing else keeps blocks small.
AdmittedFits == \A c \in Clients :
    (request[c].state \in {"queued", "waiting"} /\ request[c].kind \in {"submit", "ingest"})
        => request[c].body.bytes <= MaxBatchBytes

\* A well-formed, signed batch that fits a proposal is not refused as malformed
\* or too large, whatever the length of its prefix (http.rs:125-127).
GoodBatchesPass == \A c \in Clients :
    (request[c].state = "answered" /\ request[c].code \in {400, 413} /\ request[c].kind \in {"submit", "ingest"})
        => LET b == request[c].body
           IN ~b.decodes \/ ~b.signed \/ b.count = 0 \/ b.bytes > MaxBatchBytes

\* Both: the checks of size and count admit the batches that fit a proposal and
\* no others, although they are made on the encoded body and before decoding it.
AdmitsWhatFits == AdmittedFits /\ GoodBatchesPass

\* Blocks are handled in the order of their heights although a report that
\* finds the mailbox full is sent by a task of its own: the acknowledgement
\* window keeps a later one from overtaking it.
BlocksInOrder == \A i \in DOMAIN handled : handled[i] = i

\* Every request is answered, every proposal gets its transactions and every
\* block is acknowledged, with the mailbox full again and again.
EveryRequestIsAnswered ==
    /\ \A c \in Clients : request[c].state \in {"verifying", "queued", "waiting"} ~> request[c].state = "answered"
    /\ proposing ~> ~proposing
    /\ \A h \in 1 .. MaxReports : (reported >= h) ~> (Len(handled) >= h)
=============================================================================
