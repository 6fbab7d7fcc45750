------------------------------ MODULE BlockBody ------------------------------
(***************************************************************************)
(* One block body on one validator: read without decoding, then verified   *)
(* (verify_child of lifecycle.rs with body.rs) and, once certified,        *)
(* applied.  Each transaction has one cell for its decoded value, which    *)
(* every clone of the block shares: the workers of the signature task, the *)
(* execution and the workers of the materialization decode into it, the    *)
(* first to come while the others wait (signed.rs).                        *)
(*                                                                         *)
(* A thread is <<task, worker>>.  External: the strategy, which gives its  *)
(* workers contiguous parts; the other validators, which run the same code *)
(* and certify what it accepts.  execution is what executing the body and  *)
(* comparing the commitments comes to (Chain has it).                      *)
(***************************************************************************)
EXTENDS TransactionAuth, FiniteSets

CONSTANTS
    Bodies,        \* sequences of encoded transactions that may arrive
    Parallelism    \* parallelism_hint of the hash strategy

VARIABLES
    body,        \* as it arrived
    execution,   \* execution succeeds and the header's commitments match
    cell,        \* of each transaction: <<"unset">>, <<"busy", thread>>, <<"some">>, <<"none">>
    at,          \* of each thread: the transaction it is at
    failed,      \* threads that met a transaction they cannot use
    signatures,  \* result of the signature task: "pending", "ok", "invalid", "closed"
    deadline,    \* the time of the block has come
    answer,      \* of the verification: "pending", "accept", "reject", "unreadable"
    certified,   \* by a quorum
    applied      \* "no", "running", "done", or the panic: "malformed", "closed"

vars == <<body, execution, cell, at, failed, signatures, deadline, answer, certified, applied>>

Length == Len(body)

\* Small bodies are decoded by one worker.
Parallel == Parallelism > 1 /\ Length > Parallelism
Workers == IF Parallel THEN 1 .. Parallelism ELSE {1}
PartSize == IF Parallel THEN (Length + Parallelism - 1) \div Parallelism ELSE Length

Signer(w) == <<"signatures", w>>
Executor == <<"execution", 1>>
Applier(w) == <<"apply", w>>
Threads == {Signer(w) : w \in Workers} \cup {Executor} \cup {Applier(w) : w \in Workers}

FirstOf(t) == IF t = Executor THEN 1 ELSE (t[2] - 1) * PartSize + 1
LastOf(t) == IF t = Executor THEN Length
           ELSE IF t[2] * PartSize < Length THEN t[2] * PartSize ELSE Length

Init == /\ body \in Bodies /\ execution \in BOOLEAN
        /\ cell = [i \in 1 .. Length |-> <<"unset">>]
        /\ at = [t \in Threads |-> FirstOf(t)]
        /\ failed = {} /\ signatures = "pending" /\ deadline = FALSE
        /\ answer = IF ReadBlock(body) THEN "pending" ELSE "unreadable"
        /\ certified = FALSE /\ applied = "no"

---------------------------------------------------------------------------
(* The threads. *)

\* A thread works while its task does.  The signature task is spawned and goes on
\* after its result is not awaited any more; the execution is dropped then.
Alive(t) == CASE t[1] = "signatures" -> answer # "unreadable" /\ signatures = "pending"
              [] t[1] = "execution"  -> answer = "pending"
              [] t[1] = "apply"      -> applied = "running"

\* A worker of the signature task and the execution stop at the first transaction
\* they cannot use; the materialization maps every one.
Working(t) == Alive(t) /\ at[t] <= LastOf(t) /\ (t[1] = "apply" \/ t \notin failed)

NotBegun(t) == at[t] = FirstOf(t) /\ \A i \in DOMAIN cell : cell[i] # <<"busy", t>>

Finished(t) == at[t] > LastOf(t) \/ (t[1] # "apply" /\ t \in failed)

\* Whether thread t can use a decoded transaction.
Usable(t, tx) == IF t[1] = "signatures" THEN SignatureInputsDecode(tx) ELSE DerivesAccount(tx.key)

\* LazySignedTransaction::get, empty cell: decode it here.
BeginDecode(t) ==
    /\ Working(t) /\ cell[at[t]] = <<"unset">>
    /\ cell' = [cell EXCEPT ![at[t]] = <<"busy", t>>]
    /\ UNCHANGED <<body, execution, at, failed, signatures, deadline, answer, certified, applied>>

\* Initialization is not waited for: who comes second is told there is nothing.
SeesNow(t) == cell[at[t]] # <<"unset">>
\* A cell that another thread fills blocks.
Sees(t) == cell[at[t]] \in {<<"busy", t>>, <<"some">>, <<"none">>}

\* get returns: the cell is full, and t goes on or fails.
UseDecoded(t) ==
    /\ Working(t) /\ Sees(t)
    /\ LET i    == at[t]
           mine == cell[i] = <<"busy", t>>
           some == IF mine THEN Decode(body[i]) ELSE cell[i] = <<"some">>
       IN /\ cell' = IF mine THEN [cell EXCEPT ![i] = IF some THEN <<"some">> ELSE <<"none">>] ELSE cell
          /\ failed' = IF some /\ Usable(t, body[i]) THEN failed ELSE failed \cup {t}
          /\ at' = [at EXCEPT ![t] = i + 1]
    /\ UNCHANGED <<body, execution, signatures, deadline, answer, certified, applied>>

---------------------------------------------------------------------------
(* The tasks. *)

\* preload_transaction_chunks has joined its workers; the batch is verified.
VerifySignatures ==
    /\ answer # "unreadable" /\ signatures = "pending"
    /\ \A w \in Workers : Finished(Signer(w))
    /\ signatures' = IF (\A w \in Workers : Signer(w) \notin failed) /\ VerifyTransactionBatch(body)
                     THEN "ok" ELSE "invalid"
    /\ UNCHANGED <<body, execution, cell, at, failed, deadline, answer, certified, applied>>

\* The runtime shuts down before it polls the task, which then never awaits.
SignatureTaskCloses ==
    /\ answer # "unreadable" /\ signatures = "pending"
    /\ \A w \in Workers : NotBegun(Signer(w))
    /\ signatures' = "closed"
    /\ UNCHANGED <<body, execution, cell, at, failed, deadline, answer, certified, applied>>

WaitForTimestamp == /\ answer = "pending" /\ ~deadline /\ deadline' = TRUE
                    /\ UNCHANGED <<body, execution, cell, at, failed, signatures, answer, certified, applied>>

ExecutionFails == Executor \in failed \/ (Finished(Executor) /\ ~execution)

\* The execution is dropped wherever it is.
RejectAtOnce == /\ answer = "pending"
                /\ signatures \in {"invalid", "closed"} \/ ExecutionFails
                /\ answer' = "reject"
                /\ UNCHANGED <<body, execution, cell, at, failed, signatures, deadline, certified, applied>>
\* The first error ends the join.  It is seen between two polls, and the loop of
\* the execution over the body is within one.
Reject == /\ answer = "pending"
          /\ Finished(Executor) \/ NotBegun(Executor)
          /\ signatures \in {"invalid", "closed"} \/ ExecutionFails
          /\ answer' = "reject"
          /\ UNCHANGED <<body, execution, cell, at, failed, signatures, deadline, certified, applied>>

\* All three are done, without an error.
Accept == /\ answer = "pending"
          /\ signatures = "ok" /\ Finished(Executor) /\ ~ExecutionFails /\ deadline
          /\ answer' = "accept"
          /\ UNCHANGED <<body, execution, cell, at, failed, signatures, deadline, certified, applied>>

---------------------------------------------------------------------------
(* A certified block. *)

\* A quorum has accepted it: each read the same bytes.
Certify == /\ ~certified
           /\ ReadBlock(body) /\ VerifyTransactionChunks(body) /\ execution
           /\ \A i \in DOMAIN body : DerivesAccount(body[i].key)
           /\ certified' = TRUE
           /\ UNCHANGED <<body, execution, cell, at, failed, signatures, deadline, answer, applied>>

StartApply == /\ certified /\ applied = "no" /\ applied' = "running"
              /\ UNCHANGED <<body, execution, cell, at, failed, signatures, deadline, answer, certified>>

\* MATERIALIZE_TASK_CLOSED: the runtime shuts down before it polls the task, and
\* apply_certified, which waits for the result, panics.
MaterializeTaskCloses ==
    /\ applied = "running" /\ \A w \in Workers : NotBegun(Applier(w))
    /\ applied' = "closed"
    /\ UNCHANGED <<body, execution, cell, at, failed, signatures, deadline, answer, certified>>

\* apply_certified, after materialize_body: a transaction that is missing, or that
\* does not execute, is a panic.
Apply == /\ applied = "running" /\ \A w \in Workers : Finished(Applier(w))
         /\ applied' = IF (\E w \in Workers : Applier(w) \in failed) \/ ~execution THEN "malformed" ELSE "done"
         /\ UNCHANGED <<body, execution, cell, at, failed, signatures, deadline, answer, certified>>

Step(t) == BeginDecode(t) \/ UseDecoded(t)

Next == \/ \E t \in Threads : Step(t)
        \/ VerifySignatures \/ SignatureTaskCloses \/ WaitForTimestamp \/ Reject \/ Accept
        \/ Certify \/ StartApply \/ MaterializeTaskCloses \/ Apply

Spec == Init /\ [][Next]_vars

\* Threads run, tasks are polled, and time passes.
LiveSpec ==
    /\ Spec
    /\ \A w \in 1 .. Parallelism : /\ WF_vars(Signer(w) \in Threads /\ Step(Signer(w)))
                                   /\ WF_vars(Applier(w) \in Threads /\ Step(Applier(w)))
    /\ WF_vars(Step(Executor))
    /\ WF_vars(VerifySignatures) /\ WF_vars(WaitForTimestamp) /\ WF_vars(Reject) /\ WF_vars(Accept)
    /\ WF_vars(StartApply) /\ WF_vars(Apply)

---------------------------------------------------------------------------
(* Properties. *)

\* Every variable has its type, and a cell is filled by one thread, which is at it.
BodyTypeOK ==
    /\ DOMAIN cell = DOMAIN body /\ DOMAIN at = Threads
    /\ failed \subseteq Threads
    /\ \A t \in Threads : at[t] \in FirstOf(t) .. Length + 1 \/ FirstOf(t) > Length
    /\ \A i \in DOMAIN cell : cell[i] \in {<<"unset">>, <<"some">>, <<"none">>}
                                            \cup {<<"busy", t>> : t \in {x \in Threads : at[x] = i}}
    /\ signatures \in {"pending", "ok", "invalid", "closed"}
    /\ answer \in {"pending", "accept", "reject", "unreadable"}
    /\ applied \in {"no", "running", "done", "malformed", "closed"}

\* A validator votes only for bodies in which every transaction was agreed to by
\* the holder of the sender's key and is encoded the one way a client writes it,
\* although decoding is put off, done by several threads, and given up at the
\* first failure of any of them.
AcceptedIsGenuine == answer = "accept" => execution /\ \A i \in DOMAIN body : Genuine(body[i])

\* A body of such transactions is never refused, up to the largest passkey
\* assertion, whichever thread decodes what: unless execution fails or the
\* runtime drops the task.
GenuineIsAccepted ==
    answer \in {"reject", "unreadable"} /\ (\A i \in DOMAIN body : Genuine(body[i])) =>
        ~execution \/ signatures = "closed"

\* Both: a validator accepts what is genuine and nothing else.
AcceptedIffGenuine == AcceptedIsGenuine /\ GenuineIsAccepted

\* Nothing in a certified block makes apply_certified panic, also on a validator
\* whose own verification is still running, was given up or never succeeded.  The
\* exception is a runtime that shuts down and drops the materialization task.
CertifiedApplies == applied # "malformed"

\* Every block that can be read is answered, and every certified one is applied:
\* no thread waits for a cell that nobody fills.  A task the runtime drops when it
\* shuts down is the exception: the signature task's closing is an answer, the
\* materialization task's ends the validator.
EveryBlockIsAnswered == /\ answer = "pending" ~> answer # "pending"
                        /\ certified ~> applied \in {"done", "closed"}
=============================================================================
