------------------------------- MODULE Chain -------------------------------
(***************************************************************************)
(* The block lifecycle of the application                                  *)
(* (crates/application/src/consensus/): correct validators propose         *)
(* children of certified blocks, verify the blocks of others, faulty       *)
(* leaders included, and apply what consensus finalizes.                   *)
(*                                                                         *)
(* Consensus (commonware simplex) is external: a block is certified by the *)
(* votes of Quorum correct validators, next to any number of faulty ones,  *)
(* and finalized blocks form one chain of certified blocks.                *)
(*                                                                         *)
(* A root commits to the contents of its database, so the contents stand   *)
(* for it: state_root is the account map, transactions_root the operations *)
(* of the transaction history, one Append per transaction and one Commit   *)
(* with the inactivity floor per block.  Where the library puts the bounds *)
(* of the state database depends on nothing but the changesets applied to  *)
(* it, so their sequence stands for state_range.                           *)
(***************************************************************************)
EXTENDS Executor, FiniteSets

CONSTANTS
    Validators,       \* the correct validators
    Quorum,           \* how many of them a certificate contains at least
    Pool,             \* the transactions that circulate
    Forged,           \* those among them whose signature does not verify
    MaxBody,          \* bound: transactions in a block
    MaxBlocks,        \* bound: blocks ever built, genesis included
    MaxFaulty,        \* bound: how many of them faulty leaders build
    MaxClock,         \* bound: how far the clocks run
    MaxTimestamp      \* MAX_BLOCK_TIMESTAMP_MS

ASSUME ChainPoolAssumption  == Pool \subseteq Transactions /\ Forged \subseteq Pool
ASSUME ValidatorsAssumption == IsFiniteSet(Validators) /\ {"genesis", "faulty"} \cap Validators = {}
ASSUME QuorumAssumption     == Quorum \in 1 .. Cardinality(Validators)
ASSUME ChainBounds          == /\ MaxBody \in Nat /\ MaxBlocks \in Nat /\ MaxFaulty \in Nat
                               /\ MaxClock \in Nat \ {0} /\ MaxTimestamp \in Nat

VARIABLES
    blocks,           \* every block ever built; the first is genesis
    clock,            \* the local clock of each validator
    votes,            \* the blocks each validator proposed or verified
    kept,             \* the merkleized batches that proposing and verifying returned
    finalized,        \* consensus: the finalized chain, as indexes of blocks
    databases,        \* each validator's databases, at the last block it applied
    panicked          \* the validators whose apply_certified panicked

vars == <<blocks, clock, votes, kept, finalized, databases, panicked>>

Bodies == UNION {[1 .. n -> Pool] : n \in 0 .. MaxBody}

AppendOp(t) == [op |-> "append", tx |-> t]
CommitOp(floor) == [op |-> "commit", floor |-> floor]

\* genesis_block_with_parent, over freshly initialized databases: the history
\* holds its initial commit.
Genesis ==
    [leader |-> "genesis", parent |-> 0, height |-> 0, timestamp |-> 0, body |-> <<>>,
     stateRoot |-> EmptyMap, stateRange |-> <<>>, transactionsRoot |-> <<CommitOp(0)>>,
     start |-> 0, end |-> 1]

Init ==
    /\ blocks = <<Genesis>>
    /\ clock \in [Validators -> 0 .. 1]
    /\ votes = [v \in Validators |-> {1}]
    /\ kept = {}
    /\ finalized = <<1>>
    /\ databases = [v \in Validators |->
                       [at |-> 1, state |-> Genesis.stateRoot, stateRange |-> Genesis.stateRange,
                        transactions |-> Genesis.transactionsRoot]]
    /\ panicked = {}

Certified(b) == Cardinality({v \in Validators : b \in votes[v]}) >= Quorum

-----------------------------------------------------------------------------
(***************************************************************************)
(* Execution on top of a parent                                            *)
(***************************************************************************)
\* apply_transaction_digests and merkleize with an inactivity floor.
ExtendHistory(history, body, floor) ==
    (history \o [i \in DOMAIN body |-> AppendOp(body[i])]) \o <<CommitOp(floor)>>

\* parent_transactions_inactivity_floor.
InactivityFloor(parent) == parent.end - Len(parent.body) - 1

\* finalize_child, for a body whose changeset is known.
FinalizeChild(parent, body, changeset) ==
    LET history == ExtendHistory(parent.transactionsRoot, body, InactivityFloor(parent))
    IN  [stateRoot |-> Override(parent.stateRoot, changeset),
         stateRange |-> Append(parent.stateRange, changeset),
         transactionsRoot |-> history,
         start |-> InactivityFloor(parent), end |-> Len(history)]

\* into_merkleized: what v keeps of its execution of block b.
Batch(v, b, execution) ==
    [validator |-> v, block |-> b, state |-> execution.stateRoot,
     stateRange |-> execution.stateRange, transactions |-> execution.transactionsRoot]

-----------------------------------------------------------------------------
(***************************************************************************)
(* propose_child: filters the input, whose signatures the mempool has      *)
(* checked, executes it, and stamps the block with the local clock.        *)
(***************************************************************************)
\* verify_signatures.
SignaturesVerify(body) == Range(body) \cap Forged = {}

Child(leader, p, timestamp, body, commitments) ==
    [leader |-> leader, parent |-> p, height |-> blocks[p].height + 1, timestamp |-> timestamp,
     body |-> body,
     stateRoot |-> commitments.stateRoot, stateRange |-> commitments.stateRange,
     transactionsRoot |-> commitments.transactionsRoot,
     start |-> commitments.start, end |-> commitments.end]

ProposeChild(v, p, input) ==
    /\ Len(blocks) < MaxBlocks
    /\ Certified(p)
    /\ SignaturesVerify(input)
    /\ LET output    == Propose(blocks[p].stateRoot, input)
           execution == FinalizeChild(blocks[p], output.valid, output.changeset)
       IN  /\ blocks' = Append(blocks, Child(v, p, clock[v], output.valid, execution))
           /\ votes' = [votes EXCEPT ![v] = @ \cup {Len(blocks) + 1}]
           /\ kept' = kept \cup {Batch(v, Len(blocks) + 1, execution)}
    /\ UNCHANGED <<clock, finalized, databases, panicked>>

\* A block of a faulty leader: any transactions, any timestamp, and commitments
\* that are right, or that leave out the execution or the range it has moved, or
\* that move the floor.
Commitments(p, body) ==
    LET parent == blocks[p]
        done   == ExecuteBody(parent.stateRoot, body)
        right  == FinalizeChild(parent, body, done.changeset)
        floor  == parent.start
        moved  == ExtendHistory(parent.transactionsRoot, body, floor)
    IN  {right,
         [right EXCEPT !.stateRoot = parent.stateRoot],
         [right EXCEPT !.stateRange = parent.stateRange],
         [right EXCEPT !.start = floor],
         [right EXCEPT !.start = floor, !.transactionsRoot = moved]}

FaultyPropose(p, body, timestamp) ==
    /\ Len(blocks) < MaxBlocks
    /\ Cardinality({b \in DOMAIN blocks : blocks[b].leader = "faulty"}) < MaxFaulty
    /\ Certified(p)
    /\ \E commitments \in Commitments(p, body) :
           blocks' = Append(blocks, Child("faulty", p, timestamp, body, commitments))
    /\ UNCHANGED <<clock, votes, kept, finalized, databases, panicked>>

-----------------------------------------------------------------------------
(***************************************************************************)
(* verify_child.  Rejecting changes nothing.                               *)
(***************************************************************************)
\* Mutant: equal timestamps pass.
IsValidChildTimestampWeak(parent, child) == parent <= child /\ child <= MaxTimestamp

IsValidChildTimestamp(parent, child) == parent < child /\ child <= MaxTimestamp

\* Mutant: the transaction history is not compared.
CommitmentsMatchStateOnly(block, execution) ==
    /\ execution.stateRoot = block.stateRoot
    /\ execution.stateRange = block.stateRange

CommitmentsMatch(block, execution) ==
    /\ execution.stateRoot = block.stateRoot
    /\ execution.stateRange = block.stateRange
    /\ execution.transactionsRoot = block.transactionsRoot
    /\ execution.start = block.start
    /\ execution.end = block.end

\* wait_for_timestamp has returned.
DeadlinePassed(v, block) == clock[v] >= block.timestamp

\* Mutant: the result of the execution is ignored.
VerifyChildUnexecuted(v, b) ==
    LET block     == blocks[b]
        parent    == blocks[block.parent]
        done      == ExecuteBody(parent.stateRoot, block.body)
        execution == FinalizeChild(parent, block.body, done.changeset)
    IN  /\ b \notin votes[v]
        /\ Certified(block.parent)
        /\ IsValidChildTimestamp(parent.timestamp, block.timestamp)
        /\ SignaturesVerify(block.body)
        /\ DeadlinePassed(v, block)
        /\ CommitmentsMatch(block, execution)
        /\ votes' = [votes EXCEPT ![v] = @ \cup {b}]
        /\ kept' = kept \cup {Batch(v, b, execution)}
        /\ UNCHANGED <<blocks, clock, finalized, databases, panicked>>

VerifyChild(v, b) ==
    LET block     == blocks[b]
        parent    == blocks[block.parent]
        done      == ExecuteBody(parent.stateRoot, block.body)
        execution == FinalizeChild(parent, block.body, done.changeset)
    IN  /\ b \notin votes[v]
        /\ Certified(block.parent)
        /\ IsValidChildTimestamp(parent.timestamp, block.timestamp)
        /\ done.ok
        /\ SignaturesVerify(block.body)
        /\ DeadlinePassed(v, block)
        /\ CommitmentsMatch(block, execution)
        /\ votes' = [votes EXCEPT ![v] = @ \cup {b}]
        /\ kept' = kept \cup {Batch(v, b, execution)}
        /\ UNCHANGED <<blocks, clock, finalized, databases, panicked>>

-----------------------------------------------------------------------------
(***************************************************************************)
(* Finalization.  A validator that proposed or verified the block commits  *)
(* the batch it kept; the others run apply_certified on it.                *)
(***************************************************************************)
Finalize(b) ==
    /\ blocks[b].parent = finalized[Len(finalized)]
    /\ Certified(b)
    /\ finalized' = Append(finalized, b)
    /\ UNCHANGED <<blocks, clock, votes, kept, databases, panicked>>

\* Mutant: the floor is computed from the block itself.
ApplyFloorOwn(block) == block.end - Len(block.body) - 1

\* The floor is taken from the header.
ApplyFloor(block) == block.start

IsNext(v, i) == v \notin panicked /\ i > 1 /\ finalized[i - 1] = databases[v].at

\* The batches of v for block b.
Kept(v, b) == {k \in kept : k.validator = v /\ k.block = b}

CommitKept(v, i) ==
    /\ IsNext(v, i)
    /\ \E k \in Kept(v, finalized[i]) :
           databases' = [databases EXCEPT ![v] =
               [at |-> finalized[i], state |-> k.state, stateRange |-> k.stateRange,
                transactions |-> k.transactions]]
    /\ UNCHANGED <<blocks, clock, votes, kept, finalized, panicked>>

ApplyCertified(v, i) ==
    LET block == blocks[finalized[i]]
        db    == databases[v]
        done  == ExecuteBody(db.state, block.body)
    IN  /\ IsNext(v, i)
        /\ Kept(v, finalized[i]) = {}
        /\ IF done.ok
           THEN /\ databases' = [databases EXCEPT ![v] =
                       [at |-> finalized[i],
                        state |-> Override(db.state, done.changeset),
                        stateRange |-> Append(db.stateRange, done.changeset),
                        transactions |->
                            ExtendHistory(db.transactions, block.body, ApplyFloor(block))]]
                /\ UNCHANGED panicked
           ELSE panicked' = panicked \cup {v} /\ UNCHANGED databases
        /\ UNCHANGED <<blocks, clock, votes, kept, finalized>>

Tick(v) ==
    /\ clock[v] < MaxClock
    /\ clock' = [clock EXCEPT ![v] = @ + 1]
    /\ UNCHANGED <<blocks, votes, kept, finalized, databases, panicked>>

-----------------------------------------------------------------------------
Next ==
    \/ \E v \in Validators, p \in DOMAIN blocks, input \in Bodies : ProposeChild(v, p, input)
    \/ \E p \in DOMAIN blocks, body \in Bodies, ts \in 0 .. MaxClock : FaultyPropose(p, body, ts)
    \/ \E v \in Validators, b \in DOMAIN blocks : VerifyChild(v, b)
    \/ \E b \in DOMAIN blocks : Finalize(b)
    \/ \E v \in Validators, i \in DOMAIN finalized : CommitKept(v, i)
    \/ \E v \in Validators, i \in DOMAIN finalized : ApplyCertified(v, i)
    \/ \E v \in Validators : Tick(v)

Spec == Init /\ [][Next]_vars

-----------------------------------------------------------------------------
(***************************************************************************)
(* Properties.                                                             *)
(***************************************************************************)
Ops == [op : {"append"}, tx : Pool] \cup [op : {"commit"}, floor : Nat]

\* Every variable has the shape of the data it stands for.
TypeOK ==
    /\ \A b \in DOMAIN blocks :
        /\ blocks[b].parent \in 0 .. b - 1
        /\ blocks[b].height \in Nat /\ blocks[b].timestamp \in 0 .. MaxClock
        /\ blocks[b].body \in Bodies
        /\ IsAccountMap(blocks[b].stateRoot)
        /\ \A change \in Range(blocks[b].stateRange) : IsAccountMap(change)
        /\ Range(blocks[b].transactionsRoot) \subseteq Ops
        /\ blocks[b].start \in Nat /\ blocks[b].end \in Nat
    /\ clock \in [Validators -> 0 .. MaxClock]
    /\ votes \in [Validators -> SUBSET DOMAIN blocks]
    /\ \A k \in kept : k.validator \in Validators /\ k.block \in DOMAIN blocks
    /\ Range(finalized) \subseteq DOMAIN blocks
    /\ \A v \in Validators : IsAccountMap(databases[v].state)
    /\ panicked \subseteq Validators

CertifiedBlocks == {b \in DOMAIN blocks : Certified(b)}

\* The databases of every validator are the ones the header of its last block
\* commits to, whether it kept its own execution or ran apply_certified, which
\* takes the floor from the header instead of the parent.
DatabasesMatchHeader ==
    \A v \in Validators :
        /\ databases[v].state = blocks[databases[v].at].stateRoot
        /\ databases[v].stateRange = blocks[databases[v].at].stateRange
        /\ databases[v].transactions = blocks[databases[v].at].transactionsRoot

\* apply_certified never panics on a finalized block.
NeverPanics == panicked = {}

\* Timestamps grow along every certified chain and stay behind the clocks: whoever
\* voted for a block has seen its own clock reach the block's timestamp.
TimestampsGrow ==
    /\ \A b \in CertifiedBlocks \ {1} : blocks[b].timestamp > blocks[blocks[b].parent].timestamp
    /\ \A v \in Validators : \A b \in votes[v] : clock[v] >= blocks[b].timestamp

\* The transaction range of a certified block covers exactly the operations of its
\* parent and its own.
RangesCoverTwoBlocks ==
    \A b \in CertifiedBlocks \ {1} :
        LET block  == blocks[b]
            parent == blocks[block.parent]
        IN  /\ block.start = IF block.parent = 1 THEN 0 ELSE blocks[parent.parent].end
            /\ block.end = parent.end + Len(block.body) + 1
            /\ Len(block.transactionsRoot) = block.end

\* What a correct leader proposes passes the verification of every other correct
\* validator, except perhaps for its timestamp.
ProposalsVerify ==
    \A b \in DOMAIN blocks :
        blocks[b].leader \in Validators =>
            LET parent == blocks[blocks[b].parent]
                done   == ExecuteBody(parent.stateRoot, blocks[b].body)
            IN  /\ done.ok
                /\ CommitmentsMatch(blocks[b], FinalizeChild(parent, blocks[b].body, done.changeset))

=============================================================================
