------------------------------ MODULE Relayer ------------------------------
(***************************************************************************)
(* One submission through the transaction relayer                          *)
(* (bin/validator/src/relayer.rs).  The relayer follows the consensus view, *)
(* offers the batch to the leaders of the next two views, asks every leader *)
(* it ever offered something to for the status, and repeats with what is    *)
(* left when the view advances.  A submission may also be pinned to one     *)
(* leader.  The mempools of the leaders appear through what their status    *)
(* endpoint answers (module Mempool is the actor behind it).                *)
(***************************************************************************)
EXTENDS Integers, Sequences, FiniteSetsExt

CONSTANTS
    Leaders,        \* sequence of the leaders, as normalize_leaders sorts them
    Txs,            \* the transactions of the batch
    MaxRetryViews,  \* max_retry_views of the configuration
    PinnedRetries,  \* PINNED_SUBMIT_RETRIES
    Ahead,          \* bound: how far the view runs ahead of the submission
    MaxHeight       \* bound: finalized blocks

Names == Range(Leaders)
\* A batch on the wire keeps the order of the submission: its content is its id.
Batches == (SUBSET Txs) \ {{}}

VARIABLES
    view,      \* ViewClock: the highest view observed
    valid,     \* whether every signature verifies
    phase,     \* forward, merge, wait, pinned or done
    seen,      \* the view the current attempt is for
    retry,     \* attempts so far, or tries of a pinned submission
    attempts,  \* every (batch, leader) pair offered so far
    sends,     \* indices of attempts whose request is in flight
    merged,    \* attempts whose status was asked for in this round
    included,  \* transactions known to be finalized
    height,    \* the greatest height they were reported at
    accepted,  \* accepted_any
    refused,   \* a leader answered 400
    answer,    \* what the client gets
    status,    \* per leader, the batches it remembers and their status
    final,     \* consensus: the height at which a transaction was finalized, or 0
    head       \* consensus: the height of the last finalized block

submission == <<phase, seen, retry, attempts, sends, merged, included, height, accepted, refused, answer>>
vars == <<view, valid, submission, status, final, head>>

NoAnswer == [code |-> "none", height |-> 0, included |-> {}, filtered |-> {}]
Code(c) == [NoAnswer EXCEPT !.code = c]
Accepted == [state |-> "accepted", included |-> {}, height |-> 0]

\* next_two_leaders.
NextTwoLeaders(v) ==
    LET first == Leaders[((v + 1) % Len(Leaders)) + 1]
        second == Leaders[((v + 2) % Len(Leaders)) + 1]
    IN IF first = second THEN <<first>> ELSE <<first, second>>

\* encode_pending, for the transactions that are not included yet.
EncodePending(known) == Txs \ known

WithAttempts(old, batch, v) ==
    old \o [i \in DOMAIN NextTwoLeaders(v) |-> [batch |-> batch, leader |-> NextTwoLeaders(v)[i]]]

\* The start of a round of submit_with_retries: the pairs are remembered, and
\* every pair with this very batch is sent, the ones of earlier rounds included.
Round(old, known, v) ==
    LET batch == EncodePending(known)
        all   == WithAttempts(old, batch, v)
    IN /\ attempts' = all
       /\ sends' = {i \in DOMAIN all : all[i].batch = batch}
       /\ seen' = v /\ phase' = "forward" /\ merged' = 0

Init == /\ view = 0 /\ valid \in BOOLEAN
        /\ seen = 0 /\ retry = 0 /\ merged = 0
        /\ phase = "idle" /\ attempts = <<>> /\ sends = {}
        /\ included = {} /\ height = 0 /\ accepted = FALSE /\ refused = FALSE
        /\ answer = NoAnswer
        /\ status = [l \in Names |-> <<>>]
        /\ final = [t \in Txs |-> 0] /\ head = 0

---------------------------------------------------------------------------
(* Consensus and the leaders' mempools. *)

\* A view that is reported late does not move the clock back.
Advances(v) == v > view

\* Observer::report.
Report(v) == /\ Advances(v) /\ v <= seen + Ahead
             /\ view' = v
             /\ UNCHANGED <<valid, submission, status, final, head>>

\* A block with some of what a leader took.
FinalizeBlock(body) ==
    /\ valid /\ head < MaxHeight
    /\ \A t \in body : final[t] = 0
    /\ \E l \in Names : body \subseteq UNION (DOMAIN status[l])
    /\ head' = head + 1
    /\ final' = [t \in Txs |-> IF t \in body THEN head' ELSE final[t]]
    /\ UNCHANGED <<view, valid, submission, status>>

Remember(l, b, s) == status' = [status EXCEPT ![l] = [c \in DOMAIN @ \cup {b} |-> IF c = b THEN s ELSE @[c]]]

\* batch_status_from_outcomes: a leader knows of some finalized transactions and
\* counts the others as dropped.
Resolve(l, b, inc) ==
    /\ b \in DOMAIN status[l] /\ status[l][b] = Accepted
    /\ inc \subseteq {t \in b : final[t] > 0}
    /\ Remember(l, b, [state    |-> IF inc = {} THEN "dropped" ELSE "included",
                       included |-> inc,
                       height   |-> Max({0} \cup {final[t] : t \in inc})])
    /\ UNCHANGED <<view, valid, submission, final, head>>

\* A leader forgets a batch: its status expired or the process started again.
Forget(l, b) == /\ b \in DOMAIN status[l]
                /\ status' = [status EXCEPT ![l] = [c \in DOMAIN @ \ {b} |-> @[c]]]
                /\ UNCHANGED <<view, valid, submission, final, head>>

---------------------------------------------------------------------------
(* submit_transactions without a pinned leader. *)

Submit == /\ phase = "idle"
          /\ Round(<<>>, {}, view)
          /\ UNCHANGED <<view, valid, retry, included, height, accepted, refused, answer, status, final, head>>

\* forward_to_leader: the batch may be taken with or without the answer arriving,
\* be refused for what it holds, or not be taken at all.
ForwardToLeader(i, outcome) ==
    LET b == attempts[i].batch  l == attempts[i].leader
    IN /\ phase = "forward" /\ i \in sends
       /\ sends' = sends \ {i}
       /\ CASE outcome = "refused" ->
                 ~valid /\ refused' = TRUE /\ UNCHANGED <<accepted, status>>
            [] outcome = "down" -> UNCHANGED <<accepted, refused, status>>
            [] outcome \in {"taken", "lost"} ->
                 /\ valid
                 /\ IF b \in DOMAIN status[l] THEN UNCHANGED status ELSE Remember(l, b, Accepted)
                 /\ accepted' = (accepted \/ outcome = "taken")
                 /\ UNCHANGED refused
       /\ UNCHANGED <<view, valid, phase, seen, retry, attempts, merged, included, height, answer, final, head>>

\* forward_to_targets returns when every request did.
Forwarded == /\ phase = "forward" /\ sends = {}
             /\ IF refused THEN phase' = "done" /\ answer' = Code("bad_request")
                           ELSE phase' = "merge" /\ UNCHANGED answer
             /\ UNCHANGED <<view, valid, seen, retry, attempts, sends, merged, included, height, accepted, refused,
                            status, final, head>>

\* A status that counts whatever a leader accepted.
ReportsPending(b, s) == IF s.state = "accepted" THEN b ELSE s.included
Reports(b, s) == s.included

\* merge_statuses, one attempt after the other; a leader may not answer.
MergeStatus(answered) ==
    LET a == attempts[merged + 1]
        s == status[a.leader][a.batch]
    IN /\ phase = "merge" /\ merged < Len(attempts)
       /\ merged' = merged + 1
       /\ IF answered
          THEN /\ a.batch \in DOMAIN status[a.leader]
               /\ included' = included \cup Reports(a.batch, s)
               /\ height' = Max({height, s.height})
          ELSE UNCHANGED <<included, height>>
       /\ UNCHANGED <<view, valid, phase, seen, retry, attempts, sends, accepted, refused, answer, status, final, head>>

Merged == phase = "merge" /\ merged = Len(attempts)

\* best_effort_status.
BestEffortStatus ==
    IF included = {} THEN Code("dropped")
    ELSE IF Txs \subseteq included THEN [Code("finalized") EXCEPT !.height = height]
    ELSE [code |-> "partial", height |-> height, included |-> included, filtered |-> Txs \ included]

\* The end of a round: done, out of retries, or waiting for the next view.
EndRound ==
    /\ Merged
    /\ CASE Txs \subseteq included ->
              phase' = "done" /\ answer' = [Code("finalized") EXCEPT !.height = height]
         [] ~(Txs \subseteq included) /\ retry = MaxRetryViews ->
              phase' = "done" /\ answer' = IF accepted THEN BestEffortStatus ELSE Code("unavailable")
         [] OTHER -> phase' = "wait" /\ UNCHANGED answer
    /\ UNCHANGED <<view, valid, seen, retry, attempts, sends, merged, included, height, accepted, refused,
                   status, final, head>>

\* Only the very next view ends the wait.
ViewAdvancedByOne == view = seen + 1
ViewAdvanced == view > seen

\* wait_for_view_advance, and the start of the next round.
WaitForViewAdvance ==
    /\ phase = "wait" /\ ViewAdvanced
    /\ Round(attempts, included, view)
    /\ retry' = retry + 1
    /\ UNCHANGED <<view, valid, included, height, accepted, refused, answer, status, final, head>>

---------------------------------------------------------------------------
(* submit_to_pinned_leader: the body is passed on as it is, and the request  *)
(* stays open until the leader has an outcome.                              *)

SubmitPinned(l) ==
    /\ phase = "idle"
    /\ phase' = "pinned"
    /\ attempts' = <<[batch |-> Txs, leader |-> l]>> /\ sends' = {1}
    /\ UNCHANGED <<view, valid, seen, retry, merged, included, height, accepted, refused, answer, status, final, head>>

\* The leader takes the submission (once more, after a retry).
PinnedTaken ==
    LET l == attempts[1].leader
    IN /\ phase = "pinned" /\ sends = {1} /\ valid
       /\ sends' = {}
       /\ IF Txs \in DOMAIN status[l] THEN UNCHANGED status ELSE Remember(l, Txs, Accepted)
       /\ UNCHANGED <<view, valid, phase, seen, retry, attempts, merged, included, height, accepted, refused,
                      answer, final, head>>

\* The leader's answer: 400, or the outcome of the batch, passed through.
PinnedAnswer ==
    LET s == status[attempts[1].leader][Txs]
    IN /\ phase = "pinned"
       /\ \/ ~valid /\ sends = {1} /\ answer' = Code("bad_request")
          \/ /\ sends = {} /\ Txs \in DOMAIN status[attempts[1].leader] /\ s # Accepted
             /\ answer' = IF s.included = {} THEN Code("dropped")
                          ELSE IF s.included = Txs THEN [Code("finalized") EXCEPT !.height = s.height]
                          ELSE [code |-> "partial", height |-> s.height,
                                included |-> s.included, filtered |-> Txs \ s.included]
       /\ phase' = "done"
       /\ UNCHANGED <<view, valid, seen, retry, attempts, sends, merged, included, height, accepted, refused,
                      status, final, head>>

\* An error of the connection or a 5xx, before or after the leader took it.
PinnedFails ==
    /\ phase = "pinned"
    /\ IF retry + 1 < PinnedRetries
       THEN retry' = retry + 1 /\ sends' = {1} /\ UNCHANGED <<phase, answer>>
       ELSE phase' = "done" /\ answer' = Code("unavailable") /\ UNCHANGED <<retry, sends>>
    /\ UNCHANGED <<view, valid, seen, attempts, merged, included, height, accepted, refused, status, final, head>>

---------------------------------------------------------------------------
Relay == \/ Submit
         \/ \E i \in sends, o \in {"taken", "lost", "refused", "down"} : ForwardToLeader(i, o)
         \/ Forwarded
         \/ \E answered \in BOOLEAN : MergeStatus(answered)
         \/ EndRound \/ WaitForViewAdvance

Pinned == \/ \E l \in Names : SubmitPinned(l)
          \/ PinnedTaken \/ PinnedAnswer \/ PinnedFails

Surroundings ==
    \/ \E v \in 0 .. view + Ahead : Report(v)
    \/ \E body \in Batches : FinalizeBlock(body)
    \/ \E l \in Names, b \in Batches :
          Forget(l, b) \/ \E inc \in SUBSET b : Resolve(l, b, inc)

Next == Relay \/ Pinned \/ Surroundings

Spec == Init /\ [][Next]_vars

---------------------------------------------------------------------------
(* Properties. *)

\* Every variable of the submission has its type.
TypeOK ==
    /\ view \in Nat /\ seen \in 0 .. view /\ retry \in 0 .. Max({MaxRetryViews, PinnedRetries - 1})
    /\ phase \in {"idle", "forward", "merge", "wait", "pinned", "done"}
    /\ \A i \in DOMAIN attempts : attempts[i] \in [batch : Batches, leader : Names]
    /\ sends \subseteq DOMAIN attempts /\ merged \in 0 .. Len(attempts)
    /\ included \subseteq Txs /\ height \in 0 .. MaxHeight
    /\ \A l \in Names : DOMAIN status[l] \subseteq Batches

\* What the client is told is true of the chain: everything reported as included
\* is finalized, at the reported height or below, although it was put together
\* from the statuses of different batches at different leaders.
AnswerIsTrue ==
    LET told == IF answer.code = "finalized" THEN Txs ELSE answer.included
    IN \A t \in told : final[t] \in 1 .. answer.height

\* A submission is answered: no round waits for a view that was passed already.
SubmissionIsAnswered == (phase = "forward") ~> (phase = "done")
=============================================================================
