------------------------------ MODULE Spammer ------------------------------
(***************************************************************************)
(* The load generator (bin/spammer) against a chain that executes what it  *)
(* is sent as the application does (Executor).  Each stream has a ring of  *)
(* accounts of its own, a signer that works ahead into a bounded channel   *)
(* and a submitter with one batch in flight, which it gives up when the    *)
(* answer is an error or a drop.                                           *)
(*                                                                         *)
(* External: the network may hold a batch it gave no good answer for, and  *)
(* execute it after later batches of the same stream.                      *)
(***************************************************************************)
EXTENDS Executor, FiniteSets, FiniteSetsExt

CONSTANTS
    Submitters,    \* relayer_submitters
    Ring,          \* accounts of each stream
    Value,
    SeedOffset,
    Extra,         \* max_extra_accounts(accounts, accounts_jitter)
    Presigned,     \* presigned_batches
    MaxBatches     \* bound: batches signed by each stream

\* The assertions of main.
ASSUME SpammerAssumption ==
    /\ Ring \in Nat \ {0, 1} /\ Presigned \in Nat \ {0}
    /\ Value \in 1 .. DefaultBalance /\ Extra \in 0 .. Ring

Streams == 0 .. Submitters - 1

VARIABLES
    nonces, cursor,   \* the signer of each stream
    signed,           \* how many batches it has signed
    ready,            \* the channel of each stream
    inflight,         \* the batch its submitter waits for, or <<>>
    held,             \* batches the network has and may execute
    chain,            \* the accounts
    executed,         \* transactions executed
    refused,          \* transactions of executed batches that were left out
    given,            \* batches given up without a final answer
    stats

vars == <<nonces, cursor, signed, ready, inflight, held, chain, executed, refused, given, stats>>

\* Every stream uses the same accounts.
AccountOffsetShared(s) == SeedOffset
AccountOffset(s) == SeedOffset + s * Ring

\* The seed of a stream's i-th key stands for the key (generate_accounts).
Account(s, i) == AccountOffset(s) + i

Init == /\ nonces = [s \in Streams |-> [i \in 0 .. Ring - 1 |-> 0]]
        /\ cursor = [s \in Streams |-> 0] /\ signed = [s \in Streams |-> 0]
        /\ ready = [s \in Streams |-> <<>>] /\ inflight = [s \in Streams |-> <<>>]
        /\ held = {} /\ chain = EmptyMap
        /\ executed = {} /\ refused = {} /\ given = {}
        /\ stats = [finalized |-> 0, filtered |-> 0, dropped |-> 0, errors |-> 0]

---------------------------------------------------------------------------

\* sign_batch: the senders walk the ring from the cursor, each with its next nonce.
Batch(s, count) ==
    [k \in 1 .. count |->
        LET i == (cursor[s] + k - 1) % Ring
        IN [sender |-> Account(s, i), recipient |-> Account(s, (i + 1) % Ring), value |-> Value,
            nonce |-> nonces[s][i] + ((k - 1) \div Ring)]]

NoncesAfter(s, count) ==
    [i \in 0 .. Ring - 1 |->
        nonces[s][i] + Cardinality({k \in 1 .. count : (cursor[s] + k - 1) % Ring = i})]

BatchSizes == Ring .. Ring + Extra

\* blocking_send on a channel of presigned_batches.
HasRoom(s) == Len(ready[s]) < Presigned

\* The signer's loop.
Sign(s) ==
    /\ signed[s] < MaxBatches[s] /\ HasRoom(s)
    /\ \E count \in BatchSizes :
        /\ ready' = [ready EXCEPT ![s] = Append(@, Batch(s, count))]
        /\ nonces' = [nonces EXCEPT ![s] = NoncesAfter(s, count)]
        /\ cursor' = [cursor EXCEPT ![s] = (@ + count) % Ring]
    /\ signed' = [signed EXCEPT ![s] = @ + 1]
    /\ UNCHANGED <<inflight, held, chain, executed, refused, given, stats>>

\* submit_presigned_batches: the next batch once the one before is answered.
Submit(s) ==
    /\ inflight[s] = <<>> /\ ready[s] # <<>>
    /\ inflight' = [inflight EXCEPT ![s] = Head(ready[s])]
    /\ ready' = [ready EXCEPT ![s] = Tail(@)]
    /\ held' = held \cup {Head(ready[s])}
    /\ UNCHANGED <<nonces, cursor, signed, chain, executed, refused, given, stats>>

\* A block takes a held batch.
Land(b) ==
    LET result == Propose(chain, b)
    IN /\ b \in held
       /\ held' = held \ {b}
       /\ chain' = Override(chain, result.changeset)
       /\ executed' = executed \cup Range(result.valid)
       /\ refused' = refused \cup (Range(b) \ Range(result.valid))
       /\ UNCHANGED <<nonces, cursor, signed, ready, inflight, given, stats>>

Answered(s) == inflight' = [inflight EXCEPT ![s] = <<>>]

\* RelayerSubmitter::submit, Finalized and PartiallyFinalized.
CountFinalized(b) ==
    [stats EXCEPT !.finalized = @ + Cardinality(Range(b) \cap executed),
                  !.filtered  = @ + Cardinality(Range(b) \ executed)]

Finalized(s) == /\ inflight[s] # <<>> /\ inflight[s] \notin held
                /\ stats' = CountFinalized(inflight[s])
                /\ Answered(s)
                /\ UNCHANGED <<nonces, cursor, signed, ready, held, chain, executed, refused, given>>

\* Dropped: what was answered may be executed all the same.
Dropped(s) == /\ inflight[s] # <<>>
              /\ stats' = [stats EXCEPT !.dropped = @ + Len(inflight[s])]
              /\ given' = given \cup {inflight[s]}
              /\ Answered(s)
              /\ UNCHANGED <<nonces, cursor, signed, ready, held, chain, executed, refused>>

\* An error: transport, status code or body. The request may not have arrived.
Failure(s) == /\ inflight[s] # <<>>
              /\ stats' = [stats EXCEPT !.errors = @ + 1]
              /\ given' = given \cup {inflight[s]}
              /\ held' \in {held, held \ {inflight[s]}}
              /\ Answered(s)
              /\ UNCHANGED <<nonces, cursor, signed, ready, chain, executed, refused>>

Next == \/ \E s \in Streams : Sign(s) \/ Submit(s) \/ Finalized(s) \/ Dropped(s) \/ Failure(s)
        \/ \E b \in held : Land(b)

Spec == Init /\ [][Next]_vars

---------------------------------------------------------------------------
(* Properties. *)

\* The channels stay within their bound, and keys within what was generated.
SpammerTypeOK ==
    /\ \A s \in Streams : Len(ready[s]) <= Presigned /\ cursor[s] \in 0 .. Ring - 1
    /\ IsAccountMap(chain)
    /\ executed \cup refused \subseteq Transactions

\* Abandoning a batch leaves a hole in the nonces of its accounts, and the
\* batches signed before and after it are still good: whatever was dropped,
\* delayed or executed late, every transaction that was not submitted yet has a
\* nonce its account would accept ("so the next outer loop iteration uses a
\* fresh nonce set", submitter.rs:77).
FreshNoncesUsable ==
    \A s \in Streams : \A k \in DOMAIN ready[s] : \A t \in Range(ready[s][k]) :
        CanConsume(AccountIn(chain, t.sender).nonce, t.nonce)

\* While no batch is abandoned the ring never runs dry: whatever the jitter, an
\* account has received before it must send, and no transfer is refused.
RingNeverRunsDry == given = {} => refused = {}

\* What is still to be submitted can be executed: its nonces are usable whatever
\* happened to other batches, and its balances are there unless one was abandoned.
StreamsKeepGoing == FreshNoncesUsable /\ RingNeverRunsDry
=============================================================================
