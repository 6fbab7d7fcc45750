---------------------------- MODULE ChainProofs ----------------------------
(***************************************************************************)
(* Proofs about Chain, for every set of correct validators, every quorum   *)
(* with a correct member, every pool of transactions and every bound.      *)
(***************************************************************************)
EXTENDS Chain, ExecutorLemmas

\* A leaf that names no prover is given to these, one after the other.
USE SMT, Z3, Zenon

Leaders == Validators \cup {"genesis", "faulty"}

BlockRecords ==
    [leader : Leaders, parent : Nat, height : Nat,
     timestamp : 0 .. MaxClock, body : Bodies, stateRoot : AccountMaps,
     stateRange : Seq(AccountMaps), transactionsRoot : Seq(Ops), start : Nat, end : Nat]

\* The block's commitments are the ones its body has on top of its parent.
ExecutedOn(parent, block) ==
    LET done == ExecuteBody(parent.stateRoot, block.body)
    IN  /\ done.ok
        /\ CommitmentsMatch(block, FinalizeChild(parent, block.body, done.changeset))

Executed(b) == ExecutedOn(blocks[blocks[b].parent], blocks[b])

BlocksInv ==
    /\ blocks \in Seq(BlockRecords) /\ Len(blocks) >= 1 /\ blocks[1] = Genesis
    /\ \A b \in DOMAIN blocks \ {1} : blocks[b].parent \in 1 .. b - 1
    /\ clock \in [Validators -> 0 .. MaxClock]
    /\ votes \in [Validators -> SUBSET DOMAIN blocks]
    /\ \A v \in Validators : 1 \in votes[v]

\* What a vote of a correct validator stands for.
Vouched(v, b) ==
    /\ Executed(b)
    /\ Certified(blocks[b].parent)
    /\ clock[v] >= blocks[b].timestamp
    /\ \/ blocks[b].leader = v
       \/ blocks[b].timestamp > blocks[blocks[b].parent].timestamp

VotesInv ==
    /\ \A v \in Validators : \A b \in votes[v] \ {1} : Vouched(v, b)
    /\ \A b \in DOMAIN blocks : blocks[b].leader \in Validators => b # 1 /\ Executed(b)

FinalizedInv ==
    /\ finalized \in Seq(DOMAIN blocks) /\ Len(finalized) >= 1
    /\ \A i \in DOMAIN finalized \ {1} :
           /\ blocks[finalized[i]].parent = finalized[i - 1]
           /\ finalized[i] # 1 /\ Certified(finalized[i])

\* A batch holds what the header of its block commits to.
AtHeader(k) ==
    /\ k.validator \in Validators /\ k.block \in DOMAIN blocks
    /\ k.state = blocks[k.block].stateRoot
    /\ k.stateRange = blocks[k.block].stateRange
    /\ k.transactions = blocks[k.block].transactionsRoot

KeptInv == \A k \in kept : AtHeader(k)

DatabaseRecords ==
    [at : DOMAIN blocks, state : AccountMaps, stateRange : Seq(AccountMaps),
     transactions : Seq(Ops)]

DatabasesInv ==
    /\ databases \in [Validators -> DatabaseRecords]
    /\ DatabasesMatchHeader
    /\ panicked = {}

\* The inductive invariant: a correct vote vouches for an execution on top of a
\* certified parent, the batches kept of those executions are the headers', the
\* finalized blocks are certified and linked, and every database is at the header of
\* its last block.
ChainInv == BlocksInv /\ VotesInv /\ KeptInv /\ FinalizedInv /\ DatabasesInv

-----------------------------------------------------------------------------
(* Sequences, histories and certificates                                   *)

\* Appending keeps what was there and adds one index.
LEMMA AppendReads ==
    ASSUME NEW S, NEW s \in Seq(S), NEW x \in S
    PROVE  /\ Append(s, x) \in Seq(S) /\ Len(Append(s, x)) = Len(s) + 1
           /\ DOMAIN s = 1 .. Len(s) /\ Len(s) \in Nat
           /\ DOMAIN Append(s, x) = DOMAIN s \cup {Len(s) + 1} /\ Len(s) + 1 \notin DOMAIN s
           /\ Append(s, x)[Len(s) + 1] = x
           /\ \A i \in DOMAIN s : Append(s, x)[i] = s[i]
<1>1. /\ Append(s, x) \in Seq(S) /\ Len(Append(s, x)) = Len(s) + 1
      /\ DOMAIN s = 1 .. Len(s) /\ Len(s) \in Nat
      /\ DOMAIN Append(s, x) = 1 .. Len(s) + 1
      /\ Append(s, x)[Len(s) + 1] = x
      /\ \A i \in 1 .. Len(s) : Append(s, x)[i] = s[i]
    OBVIOUS
<1>2. 1 .. Len(s) + 1 = (1 .. Len(s)) \cup {Len(s) + 1} /\ Len(s) + 1 \notin 1 .. Len(s)
    BY <1>1
<1> QED
    BY <1>1, <1>2

\* Bodies are sequences of transactions.
LEMMA BodiesAreSequences ==
    ASSUME NEW body
    PROVE  body \in Bodies <=> body \in Seq(Pool) /\ Len(body) <= MaxBody
<1>1. ASSUME body \in Bodies
      PROVE  body \in Seq(Pool) /\ Len(body) <= MaxBody
  <2>1. PICK m \in 0 .. MaxBody : body \in [1 .. m -> Pool]
    BY <1>1 DEF Bodies
  <2>2. m \in Nat /\ m <= MaxBody
    BY <2>1, ChainBounds
  <2>3. body \in Seq(Pool)
    BY <2>1, <2>2
  <2>4. Len(body) = m
    BY <2>1, <2>2, <2>3
  <2> QED
    BY <2>2, <2>3, <2>4
<1>2. ASSUME body \in Seq(Pool), Len(body) <= MaxBody
      PROVE  body \in Bodies
  <2>1. Len(body) \in Nat /\ body \in [1 .. Len(body) -> Pool]
    BY <1>2
  <2>2. Len(body) \in 0 .. MaxBody
    BY <1>2, <2>1, ChainBounds
  <2> QED
    BY <2>1, <2>2 DEF Bodies
<1> QED
    BY <1>1, <1>2

\* One operation per transaction and one commit are appended.
LEMMA HistoryGrows ==
    ASSUME NEW h \in Seq(Ops), NEW body \in Seq(Pool), NEW floor \in Nat
    PROVE  /\ ExtendHistory(h, body, floor) \in Seq(Ops)
           /\ Len(ExtendHistory(h, body, floor)) = Len(h) + Len(body) + 1
           /\ Len(h) \in Nat /\ Len(body) \in Nat
<1> DEFINE ops == [i \in DOMAIN body |-> AppendOp(body[i])]
           last == <<CommitOp(floor)>>
<1>1. /\ DOMAIN body = 1 .. Len(body) /\ Len(body) \in Nat /\ Len(h) \in Nat
      /\ \A i \in DOMAIN body : body[i] \in Pool
    OBVIOUS
<1>2. ops \in [1 .. Len(body) -> Ops]
    BY <1>1 DEF AppendOp, Ops
<1>3. ops \in Seq(Ops)
    BY <1>1, <1>2
<1>4. Len(ops) = Len(body)
    BY <1>1, <1>2, <1>3
<1>5. last \in Seq(Ops) /\ Len(last) = 1
  <2>1. CommitOp(floor) \in Ops
    BY DEF CommitOp, Ops
  <2> QED
    BY <2>1
<1> HIDE DEF ops, last
<1>6. h \o ops \in Seq(Ops) /\ Len(h \o ops) = Len(h) + Len(ops)
    BY <1>3
<1>7. (h \o ops) \o last \in Seq(Ops) /\ Len((h \o ops) \o last) = Len(h \o ops) + Len(last)
  <2>1. \A s, t \in Seq(Ops) : s \o t \in Seq(Ops) /\ Len(s \o t) = Len(s) + Len(t)
    OBVIOUS
  <2> QED
    BY <1>5, <1>6, <2>1, Zenon
<1>8. ExtendHistory(h, body, floor) = (h \o ops) \o last
    BY DEF ExtendHistory, ops, last
<1> QED
    BY <1>1, <1>4, <1>5, <1>6, <1>7, <1>8

\* A certificate contains the vote of a correct validator, and of two when the
\* quorum asks for two.
LEMMA CertificateHasVoters ==
    ASSUME NEW b, Certified(b)
    PROVE  /\ \E v \in Validators : b \in votes[v]
           /\ Quorum >= 2 => \A u : \E v \in Validators : b \in votes[v] /\ v # u
<1> DEFINE W == {v \in Validators : b \in votes[v]}
<1>1. IsFiniteSet(W) /\ Cardinality(W) >= Quorum /\ Quorum >= 1 /\ Quorum \in Nat
    BY ValidatorsAssumption, QuorumAssumption, FS_Subset, FS_CardinalityType DEF Certified
<1>2. Cardinality(W) \in Nat
    BY <1>1, FS_CardinalityType
<1>3. W # {}
  <2> SUFFICES ASSUME W = {}
               PROVE  FALSE
    OBVIOUS
  <2>1. Cardinality(W) = 0
    BY FS_EmptySet
  <2> QED
    BY <1>1, <2>1
<1>4. ASSUME Quorum >= 2, NEW u, \A v \in W : v = u
      PROVE  FALSE
  <2>1. W = {u}
    BY <1>3, <1>4
  <2>2. Cardinality({u}) = 1
    BY FS_Singleton, Zenon
  <2> QED
    BY <1>1, <1>4, <2>1, <2>2
<1> QED
    BY <1>3, <1>4

\* Votes are never withdrawn, so a certificate stays one.
LEMMA CertifiedStays ==
    ASSUME BlocksInv, NEW b, Certified(b), \A v \in Validators : votes[v] \subseteq votes'[v]
    PROVE  Certified(b)'
<1> DEFINE W == {v \in Validators : b \in votes[v]}
           U == {v \in Validators : b \in votes'[v]}
<1>1. W \subseteq U /\ IsFiniteSet(U) /\ IsFiniteSet(W)
    BY ValidatorsAssumption, FS_Subset
<1>2. Cardinality(W) <= Cardinality(U) /\ Cardinality(W) \in Nat /\ Cardinality(U) \in Nat
    BY <1>1, FS_Subset, FS_CardinalityType
<1>3. Cardinality(W) >= Quorum /\ Quorum \in Nat
    BY QuorumAssumption DEF Certified
<1>4. Cardinality(U) >= Quorum
    BY <1>2, <1>3
<1> QED
    BY <1>4 DEF Certified

-----------------------------------------------------------------------------
(* Certified blocks                                                        *)

\* Genesis is well formed.
LEMMA GenesisTyped == Genesis \in BlockRecords /\ Len(Genesis.transactionsRoot) = 1
<1>1. CommitOp(0) \in Ops
    BY DEF CommitOp, Ops
<1>2. <<CommitOp(0)>> \in Seq(Ops) /\ Len(<<CommitOp(0)>>) = 1
    BY <1>1
<1>3. EmptyMap \in AccountMaps
    BY EmptyMapReads, MapsAreMaps
<1>4. <<>> \in Seq(AccountMaps)
    OBVIOUS
<1>5. <<>> \in Bodies
  <2> DEFINE none == <<>>
  <2>1. none \in Seq(Pool) /\ Len(none) = 0 /\ 0 <= MaxBody
    BY ChainBounds
  <2> HIDE DEF none
  <2>2. none \in Bodies
    BY <2>1, BodiesAreSequences, Zenon
  <2> QED
    BY <2>2 DEF none
<1> QED
    BY <1>2, <1>3, <1>4, <1>5, ChainBounds DEF Genesis, BlockRecords, Leaders

\* What the records of the blocks hold.
LEMMA BlockFields ==
    ASSUME BlocksInv, NEW b \in DOMAIN blocks
    PROVE  /\ blocks[b] \in BlockRecords /\ b \in Nat /\ b >= 1
           /\ IsAccountMap(blocks[b].stateRoot)
           /\ blocks[b].body \in Seq(Pool) /\ blocks[b].body \in Seq(Transactions)
           /\ Len(blocks[b].body) \in Nat
           /\ blocks[b].stateRange \in Seq(AccountMaps)
           /\ blocks[b].transactionsRoot \in Seq(Ops)
           /\ blocks[b].start \in Nat /\ blocks[b].end \in Nat
           /\ b # 1 => blocks[b].parent \in DOMAIN blocks /\ blocks[b].parent # b
<1>1. blocks[b] \in BlockRecords /\ DOMAIN blocks = 1 .. Len(blocks) /\ Len(blocks) \in Nat
    BY DEF BlocksInv
<1>2. b \in Nat /\ b >= 1 /\ b <= Len(blocks)
    BY <1>1
<1>3. blocks[b].body \in Seq(Pool) /\ Len(blocks[b].body) \in Nat
    BY <1>1, BodiesAreSequences DEF BlockRecords
<1>4. blocks[b].body \in Seq(Transactions)
    BY <1>3, ChainPoolAssumption
<1>5. b # 1 => blocks[b].parent \in DOMAIN blocks /\ blocks[b].parent # b
  <2>1. b # 1 => blocks[b].parent \in 1 .. b - 1
    BY DEF BlocksInv
  <2> QED
    BY <1>1, <1>2, <2>1
<1> QED
    BY <1>1, <1>2, <1>3, <1>4, <1>5, MapsAreMaps DEF BlockRecords

\* A certified block other than genesis was executed on a certified parent.
LEMMA CertifiedExecuted ==
    ASSUME BlocksInv, VotesInv, NEW b \in DOMAIN blocks, b # 1, Certified(b)
    PROVE  Executed(b) /\ Certified(blocks[b].parent)
<1>1. PICK v \in Validators : b \in votes[v]
    BY CertificateHasVoters
<1> QED
    BY <1>1 DEF VotesInv, Vouched

\* The header's end is the length of the history it commits to.
LEMMA EndIsLength ==
    ASSUME BlocksInv, NEW b \in DOMAIN blocks, b = 1 \/ Executed(b)
    PROVE  Len(blocks[b].transactionsRoot) = blocks[b].end
<1>1. CASE b = 1
  <2>1. blocks[b] = Genesis
    BY <1>1 DEF BlocksInv
  <2>2. Genesis.end = 1
    BY DEF Genesis
  <2> QED
    BY <2>1, <2>2, GenesisTyped
<1>2. CASE Executed(b)
    BY <1>2 DEF Executed, ExecutedOn, CommitmentsMatch, FinalizeChild
<1> QED
    BY <1>1, <1>2

\* parent_transactions_inactivity_floor of a certified block is the end of the
\* history of that block's own parent.
LEMMA FloorIsParentEnd ==
    ASSUME BlocksInv, VotesInv, NEW b \in DOMAIN blocks, Certified(b)
    PROVE  /\ InactivityFloor(blocks[b]) = IF b = 1 THEN 0 ELSE blocks[blocks[b].parent].end
           /\ InactivityFloor(blocks[b]) \in Nat
           /\ b # 1 => blocks[b].end = blocks[blocks[b].parent].end + Len(blocks[b].body) + 1
<1>1. CASE b = 1
  <2>1. blocks[b].end = 1 /\ blocks[b].body = <<>>
    BY <1>1 DEF BlocksInv, Genesis
  <2>2. blocks[b].end = 1 /\ Len(blocks[b].body) = 0
    BY <2>1
  <2>3. InactivityFloor(blocks[b]) = 0
    BY <2>2 DEF InactivityFloor
  <2> QED
    BY <1>1, <2>3
<1>2. CASE b # 1
  <2> DEFINE p == blocks[b].parent
             floor == InactivityFloor(blocks[p])
             h == ExtendHistory(blocks[p].transactionsRoot, blocks[b].body, floor)
  <2>1. Executed(b) /\ Certified(p) /\ p \in DOMAIN blocks
    BY <1>2, CertifiedExecuted, BlockFields
  <2>2. Len(blocks[p].transactionsRoot) = blocks[p].end
  <3>1. p = 1 \/ Executed(p)
    BY <2>1, CertifiedExecuted
  <3> QED
    BY <2>1, <3>1, EndIsLength
  <2>3. blocks[b].start = floor /\ blocks[b].end = Len(h)
    BY <2>1 DEF Executed, ExecutedOn, CommitmentsMatch, FinalizeChild
  <2>4. /\ floor \in Nat /\ blocks[p].transactionsRoot \in Seq(Ops) /\ blocks[b].body \in Seq(Pool)
        /\ blocks[p].end \in Nat /\ blocks[b].end \in Nat /\ Len(blocks[b].body) \in Nat
    BY <2>1, <2>3, BlockFields
  <2> HIDE DEF floor
  <2>5. Len(h) = Len(blocks[p].transactionsRoot) + Len(blocks[b].body) + 1
    BY <2>4, HistoryGrows, Zenon
  <2> HIDE DEF h, p
  <2>6. blocks[b].end = blocks[p].end + Len(blocks[b].body) + 1
    BY <2>2, <2>3, <2>5
  <2>7. InactivityFloor(blocks[b]) = blocks[p].end
    BY <2>4, <2>6 DEF InactivityFloor
  <2> QED
    BY <1>2, <2>4, <2>6, <2>7 DEF p
<1> QED
    BY <1>1, <1>2

\* finalize_child on a certified parent computes well-formed commitments.
LEMMA CommitmentsTyped ==
    ASSUME BlocksInv, VotesInv, NEW p \in DOMAIN blocks, Certified(p),
           NEW body \in Bodies, NEW changeset, IsAccountMap(changeset)
    PROVE  FinalizeChild(blocks[p], body, changeset) \in
               [stateRoot : AccountMaps, stateRange : Seq(AccountMaps),
                transactionsRoot : Seq(Ops), start : Nat, end : Nat]
<1> DEFINE floor == InactivityFloor(blocks[p])
           h == ExtendHistory(blocks[p].transactionsRoot, body, floor)
<1>1. floor \in Nat /\ body \in Seq(Pool)
    BY FloorIsParentEnd, BodiesAreSequences
<1>2. /\ blocks[p].transactionsRoot \in Seq(Ops) /\ IsAccountMap(blocks[p].stateRoot)
      /\ blocks[p].stateRange \in Seq(AccountMaps)
    BY BlockFields
<1> HIDE DEF floor
<1>3. h \in Seq(Ops) /\ Len(h) \in Nat
    BY <1>1, <1>2, HistoryGrows, Zenon
<1>4. Override(blocks[p].stateRoot, changeset) \in AccountMaps
    BY <1>2, OverrideReads, MapsAreMaps, Zenon
<1>5. Append(blocks[p].stateRange, changeset) \in Seq(AccountMaps)
    BY <1>2, MapsAreMaps
<1> HIDE DEF h
<1>6. FinalizeChild(blocks[p], body, changeset)
          = [stateRoot |-> Override(blocks[p].stateRoot, changeset),
             stateRange |-> Append(blocks[p].stateRange, changeset), transactionsRoot |-> h,
             start |-> floor, end |-> Len(h)]
    BY DEF FinalizeChild, h, floor
<1> QED
    BY <1>1, <1>3, <1>4, <1>5, <1>6

-----------------------------------------------------------------------------
(* Every action keeps the invariant                                        *)

\* As long as blocks are only appended, what was executed stays executed.
LEMMA ExecutedStays ==
    ASSUME BlocksInv, \A b \in DOMAIN blocks : blocks'[b] = blocks[b],
           NEW b \in DOMAIN blocks, b # 1
    PROVE  /\ Executed(b)' <=> Executed(b)
           /\ blocks'[b] = blocks[b] /\ blocks'[blocks'[b].parent] = blocks[blocks[b].parent]
    BY BlockFields DEF Executed

\* What a vote stands for outlives the step: clocks only advance, votes and blocks
\* are only added.
LEMMA VouchedStays ==
    ASSUME BlocksInv, \A b \in DOMAIN blocks : blocks'[b] = blocks[b],
           \A v \in Validators : votes[v] \subseteq votes'[v] /\ clock'[v] >= clock[v],
           clock' \in [Validators -> 0 .. MaxClock],
           NEW v \in Validators, NEW b \in DOMAIN blocks, b # 1, Vouched(v, b)
    PROVE  Vouched(v, b)'
<1>1. /\ Executed(b)' <=> Executed(b)
      /\ blocks'[b] = blocks[b] /\ blocks'[blocks'[b].parent] = blocks[blocks[b].parent]
    BY ExecutedStays
<1>2. PICK p : p = blocks[b].parent
    OBVIOUS
<1>3. Certified(p)'
    BY <1>2, CertifiedStays DEF Vouched
<1>4. Certified(blocks[b].parent)'
  <2>1. blocks'[b].parent = p
    BY <1>1, <1>2
  <2> QED
    BY <1>3, <2>1 DEF Certified
<1>5. clock'[v] >= blocks[b].timestamp
  <2>1. clock[v] >= blocks[b].timestamp /\ clock'[v] >= clock[v]
    BY DEF Vouched
  <2>2. clock[v] \in 0 .. MaxClock /\ clock'[v] \in 0 .. MaxClock /\ MaxClock \in Nat
    BY ChainBounds DEF BlocksInv
  <2>3. blocks[b].timestamp \in 0 .. MaxClock
    BY BlockFields DEF BlockRecords
  <2> QED
    BY <2>1, <2>2, <2>3
<1> QED
    BY <1>1, <1>4, <1>5 DEF Vouched

\* A batch stays at its header, since blocks are only added; so do the batches kept
\* when each one that a step adds is there.
LEMMA KeptStays ==
    ASSUME ChainInv, DOMAIN blocks \subseteq DOMAIN blocks',
           \A b \in DOMAIN blocks : blocks'[b] = blocks[b],
           \A k \in kept' \ kept : AtHeader(k)'
    PROVE  KeptInv'
    BY DEF ChainInv, KeptInv, AtHeader

\* Finalized blocks and databases do not notice new blocks, votes or ticks.
LEMMA RestStays ==
    ASSUME ChainInv, UNCHANGED <<finalized, databases, panicked>>,
           DOMAIN blocks \subseteq DOMAIN blocks',
           \A b \in DOMAIN blocks : blocks'[b] = blocks[b],
           \A v \in Validators : votes[v] \subseteq votes'[v]
    PROVE  FinalizedInv' /\ DatabasesInv'
<1>1. FinalizedInv'
  <2>1. finalized \in Seq(DOMAIN blocks) /\ Len(finalized) >= 1
    BY DEF ChainInv, FinalizedInv
  <2>2. \A i \in DOMAIN finalized : finalized[i] \in DOMAIN blocks
    BY <2>1
  <2>3. finalized \in Seq(DOMAIN blocks')
    BY <2>1
  <2>4. ASSUME NEW i \in DOMAIN finalized, i # 1
        PROVE  /\ blocks'[finalized[i]].parent = finalized[i - 1]
               /\ finalized[i] # 1 /\ Certified(finalized[i])'
    <3>1. /\ blocks[finalized[i]].parent = finalized[i - 1] /\ finalized[i] # 1
          /\ Certified(finalized[i])
      BY <2>4 DEF ChainInv, FinalizedInv
    <3> DEFINE f == finalized[i]
    <3>2. \A x : Certified(x) => Certified(x)'
      BY CertifiedStays DEF ChainInv
    <3> QED
      BY <2>2, <3>1, <3>2
  <2>5. \A i \in DOMAIN finalized' \ {1} :
           /\ blocks'[finalized'[i]].parent = finalized'[i - 1]
           /\ finalized'[i] # 1 /\ Certified(finalized[i])'
    BY <2>4
  <2> QED
    BY <2>1, <2>3, <2>5 DEF FinalizedInv
<1>2. DatabasesInv'
  <2>1. databases \in [Validators -> DatabaseRecords] /\ DatabasesMatchHeader /\ panicked = {}
    BY DEF ChainInv, DatabasesInv
  <2>2. databases' \in [Validators -> DatabaseRecords']
    BY <2>1 DEF DatabaseRecords
  <2>3. \A v \in Validators : databases[v].at \in DOMAIN blocks
    BY <2>1 DEF DatabaseRecords
  <2> QED
    BY <2>1, <2>2, <2>3 DEF DatabasesInv, DatabasesMatchHeader
<1> QED
    BY <1>1, <1>2

\* A new block, of a correct leader that executed it or of a faulty one.
LEMMA AppendKeeps ==
    ASSUME ChainInv, NEW new \in BlockRecords, NEW p \in DOMAIN blocks, new.parent = p,
           Certified(p), blocks' = Append(blocks, new),
           UNCHANGED <<clock, finalized, databases, panicked>>,
           \/ new.leader = "faulty" /\ votes' = votes
           \/ \E v \in Validators :
                  /\ new.leader = v /\ new.timestamp = clock[v] /\ ExecutedOn(blocks[p], new)
                  /\ votes' = [votes EXCEPT ![v] = @ \cup {Len(blocks) + 1}],
           \A k \in kept' \ kept : AtHeader(k)'
    PROVE  ChainInv'
<1>0. PICK n : n = Len(blocks)
    OBVIOUS
<1>1. /\ blocks \in Seq(BlockRecords) /\ n >= 1 /\ blocks[1] = Genesis
      /\ \A b \in DOMAIN blocks \ {1} : blocks[b].parent \in 1 .. b - 1
      /\ clock \in [Validators -> 0 .. MaxClock]
      /\ votes \in [Validators -> SUBSET DOMAIN blocks]
      /\ \A v \in Validators : 1 \in votes[v]
    BY <1>0 DEF ChainInv, BlocksInv
<1>2. /\ blocks' \in Seq(BlockRecords) /\ Len(blocks') = n + 1
      /\ DOMAIN blocks = 1 .. n /\ n \in Nat
      /\ DOMAIN blocks' = DOMAIN blocks \cup {n + 1} /\ n + 1 \notin DOMAIN blocks
      /\ blocks'[n + 1] = new
      /\ \A b \in DOMAIN blocks : blocks'[b] = blocks[b]
    BY <1>0, <1>1, AppendReads
<1>3. 1 \in DOMAIN blocks /\ n + 1 # 1 /\ p \in 1 .. n
    BY <1>1, <1>2
<1>4. /\ votes' \in [Validators -> SUBSET DOMAIN blocks']
      /\ \A v \in Validators : votes[v] \subseteq votes'[v]
      /\ \A v \in Validators : votes'[v] \subseteq votes[v] \cup {n + 1}
      /\ \A v \in Validators : n + 1 \in votes'[v] =>
             new.leader = v /\ new.timestamp = clock[v] /\ ExecutedOn(blocks[p], new)
  <2>1. CASE new.leader = "faulty" /\ votes' = votes
    BY <1>1, <1>2, <2>1
  <2>2. ASSUME NEW v \in Validators,
               new.leader = v /\ new.timestamp = clock[v] /\ ExecutedOn(blocks[p], new),
               votes' = [votes EXCEPT ![v] = @ \cup {n + 1}]
        PROVE  <1>4!:
    <3>1. votes'[v] = votes[v] \cup {n + 1}
          /\ \A u \in Validators \ {v} : votes'[u] = votes[u]
      BY <1>1, <2>2
    <3>2. votes' \in [Validators -> SUBSET DOMAIN blocks']
      BY <1>1, <1>2, <2>2
    <3>3. \A u \in Validators : n + 1 \in votes'[u] => u = v
      BY <1>1, <1>2, <3>1
    <3> QED
      BY <2>2, <3>1, <3>2, <3>3
  <2> QED
    BY <1>0, <2>1, <2>2
<1>5. BlocksInv'
  <2>1. \A b \in DOMAIN blocks' \ {1} : blocks'[b].parent \in 1 .. b - 1
    <3>1. p \in 1 .. (n + 1) - 1
      BY <1>2, <1>3
    <3> QED
      BY <1>1, <1>2, <3>1
  <2>2. Len(blocks') >= 1 /\ blocks'[1] = Genesis
    BY <1>1, <1>2, <1>3
  <2>3. clock' \in [Validators -> 0 .. MaxClock] /\ \A v \in Validators : 1 \in votes'[v]
    BY <1>1, <1>4
  <2> QED
    BY <1>2, <1>4, <2>1, <2>2, <2>3 DEF BlocksInv
<1>6. Certified(p)'
    BY <1>4, CertifiedStays DEF ChainInv
<1>7. \A v \in Validators : n + 1 \in votes'[v] => Vouched(v, n + 1)'
  <2> SUFFICES ASSUME NEW v \in Validators, n + 1 \in votes'[v]
               PROVE  Vouched(v, n + 1)'
    OBVIOUS
  <2>1. /\ blocks'[n + 1] = new /\ blocks'[new.parent] = blocks[p]
        /\ new.leader = v /\ new.timestamp = clock[v] /\ ExecutedOn(blocks[p], new)
    BY <1>2, <1>4
  <2>2. Executed(n + 1)'
    BY <2>1 DEF Executed
  <2>3. Certified(blocks[n + 1].parent)'
    BY <1>6, <2>1, Zenon DEF Certified
  <2>4. clock'[v] >= blocks'[n + 1].timestamp
    BY <1>1, <2>1, ChainBounds
  <2> QED
    BY <2>1, <2>2, <2>3, <2>4 DEF Vouched
<1>8. ASSUME NEW v \in Validators, NEW b \in votes'[v], b # 1
      PROVE  Vouched(v, b)'
  <2>1. CASE b \in votes[v]
    <3>1. b \in DOMAIN blocks /\ Vouched(v, b)
      BY <1>1, <1>8, <2>1 DEF ChainInv, VotesInv
    <3>2. \A u \in Validators : votes[u] \subseteq votes'[u] /\ clock[u] <= clock'[u]
      BY <1>1, <1>4, ChainBounds
    <3> QED
      BY <1>1, <1>2, <1>8, <3>1, <3>2, VouchedStays DEF ChainInv
  <2>2. CASE b \notin votes[v]
    BY <1>4, <1>7, <2>2
  <2> QED
    BY <2>1, <2>2
<1>9. ASSUME NEW b \in DOMAIN blocks', blocks'[b].leader \in Validators
      PROVE  b # 1 /\ Executed(b)'
  <2>1. CASE b \in DOMAIN blocks
    <3>1. b # 1 /\ Executed(b)
      BY <1>2, <1>9, <2>1 DEF ChainInv, VotesInv
    <3> QED
      BY <1>2, <2>1, <3>1, ExecutedStays DEF ChainInv
  <2>2. CASE b \notin DOMAIN blocks
    <3>1. b = n + 1 /\ blocks'[b] = new /\ new.leader # "faulty"
      BY <1>2, <1>9, <2>2, ValidatorsAssumption
    <3>2. ExecutedOn(blocks[p], new) /\ blocks'[new.parent] = blocks[p]
      BY <1>2, <3>1
    <3> QED
      BY <1>3, <3>1, <3>2 DEF Executed
  <2> QED
    BY <2>1, <2>2
<1>10. VotesInv'
    BY <1>8, <1>9 DEF VotesInv
<1>11. FinalizedInv' /\ DatabasesInv'
    BY <1>2, <1>4, RestStays
<1>12. KeptInv'
    BY <1>2, KeptStays
<1> QED
    BY <1>5, <1>10, <1>11, <1>12 DEF ChainInv

Headers == [stateRoot : AccountMaps, stateRange : Seq(AccountMaps),
            transactionsRoot : Seq(Ops), start : Nat, end : Nat]

\* The block built on p from well-formed commitments is well formed.
LEMMA ChildTyped ==
    ASSUME BlocksInv, NEW p \in DOMAIN blocks, NEW leader \in Leaders,
           NEW ts \in 0 .. MaxClock, NEW body \in Bodies, NEW c \in Headers
    PROVE  /\ Child(leader, p, ts, body, c) \in BlockRecords
           /\ Child(leader, p, ts, body, c).leader = leader
           /\ Child(leader, p, ts, body, c).parent = p
           /\ Child(leader, p, ts, body, c).timestamp = ts
           /\ Child(leader, p, ts, body, c).body = body
           /\ Child(leader, p, ts, body, c).stateRoot = c.stateRoot
           /\ Child(leader, p, ts, body, c).stateRange = c.stateRange
           /\ Child(leader, p, ts, body, c).transactionsRoot = c.transactionsRoot
           /\ Child(leader, p, ts, body, c).start = c.start
           /\ Child(leader, p, ts, body, c).end = c.end
<1>1. blocks[p] \in BlockRecords /\ p \in Nat
    BY BlockFields
<1>2. blocks[p].height + 1 \in Nat
    BY <1>1 DEF BlockRecords
<1> QED
    BY <1>1, <1>2 DEF Child, BlockRecords, Headers

\* propose_child builds a block that its own execution vouches for.
LEMMA ProposeChildKeeps ==
    ASSUME ChainInv, NEW v \in Validators, NEW p \in DOMAIN blocks, NEW input \in Bodies,
           ProposeChild(v, p, input)
    PROVE  ChainInv'
<1> DEFINE db == blocks[p].stateRoot
           output == Propose(db, input)
           c == FinalizeChild(blocks[p], output.valid, output.changeset)
           new == Child(v, p, clock[v], output.valid, c)
<1>0. BlocksInv /\ VotesInv
    BY DEF ChainInv
<1>1. /\ Certified(p) /\ blocks' = Append(blocks, new)
      /\ votes' = [votes EXCEPT ![v] = @ \cup {Len(blocks) + 1}]
      /\ kept' = kept \cup {Batch(v, Len(blocks) + 1, c)}
      /\ UNCHANGED <<clock, finalized, databases, panicked>>
    BY DEF ProposeChild
<1>2. IsAccountMap(db) /\ input \in Seq(Pool) /\ Len(input) <= MaxBody /\ Len(input) \in Nat
    BY <1>0, BlockFields, BodiesAreSequences
<1> HIDE DEF db
<1>3. /\ ExecuteBody(db, output.valid) = Done(output.changeset)
      /\ output.valid \in Seq(Pool) /\ Len(output.valid) <= Len(input)
      /\ IsAccountMap(output.changeset)
    BY <1>2, ProposeReplays, ChainPoolAssumption
<1> HIDE DEF output
<1>4. output.valid \in Bodies
  <2>1. Len(output.valid) \in Nat
    BY <1>3
  <2>2. Len(output.valid) <= MaxBody
    BY <1>2, <1>3, <2>1, ChainBounds
  <2> QED
    BY <1>3, <2>2, BodiesAreSequences
<1>5. c \in Headers
    BY <1>0, <1>1, <1>3, <1>4, CommitmentsTyped DEF Headers
<1>6. clock[v] \in 0 .. MaxClock
    BY <1>0 DEF BlocksInv
<1> HIDE DEF c
<1>7. /\ new \in BlockRecords /\ new.leader = v /\ new.parent = p /\ new.timestamp = clock[v]
      /\ new.body = output.valid /\ new.stateRoot = c.stateRoot /\ new.stateRange = c.stateRange
      /\ new.transactionsRoot = c.transactionsRoot /\ new.start = c.start /\ new.end = c.end
    BY <1>0, <1>4, <1>5, <1>6, ChildTyped DEF Leaders
<1> HIDE DEF new
<1>8. ExecutedOn(blocks[p], new)
  <2>1. ExecuteBody(blocks[p].stateRoot, new.body) = Done(output.changeset)
    BY <1>3, <1>7, Zenon DEF db
  <2>2. FinalizeChild(blocks[p], new.body, output.changeset) = c
    BY <1>7, Zenon DEF c
  <2>3. Done(output.changeset).ok /\ Done(output.changeset).changeset = output.changeset
    BY DEF Done
  <2>4. CommitmentsMatch(new, c)
    BY <1>7 DEF CommitmentsMatch
  <2> QED
    BY <2>1, <2>2, <2>3, <2>4, Zenon DEF ExecutedOn
<1>9. \A k \in kept' \ kept : AtHeader(k)'
  <2>1. /\ Len(blocks) + 1 \in DOMAIN blocks' /\ blocks'[Len(blocks) + 1] = new
    BY <1>0, <1>1, <1>7, AppendReads DEF BlocksInv
  <2>2. PICK k : k = Batch(v, Len(blocks) + 1, c)
    BY Zenon
  <2>3. /\ k.validator = v /\ k.block = Len(blocks) + 1 /\ k.state = c.stateRoot
        /\ k.stateRange = c.stateRange /\ k.transactions = c.transactionsRoot
    BY <2>2 DEF Batch
  <2>4. AtHeader(k)'
    BY <1>7, <2>1, <2>3 DEF AtHeader
  <2> QED
    BY <1>1, <2>2, <2>4
<1> QED
    BY <1>1, <1>7, <1>8, <1>9, AppendKeeps, Zenon

\* Whatever a faulty leader claims is well formed, and nobody has voted for it.
LEMMA FaultyProposeKeeps ==
    ASSUME ChainInv, NEW p \in DOMAIN blocks, NEW body \in Bodies, NEW ts \in 0 .. MaxClock,
           FaultyPropose(p, body, ts)
    PROVE  ChainInv'
<1> DEFINE done == ExecuteBody(blocks[p].stateRoot, body)
           right == FinalizeChild(blocks[p], body, done.changeset)
           floor == blocks[p].start
           moved == ExtendHistory(blocks[p].transactionsRoot, body, floor)
<1>0. BlocksInv /\ VotesInv
    BY DEF ChainInv
<1>1. Certified(p) /\ UNCHANGED <<clock, votes, kept, finalized, databases, panicked>>
    BY DEF FaultyPropose
<1>2. PICK c \in Commitments(p, body) : blocks' = Append(blocks, Child("faulty", p, ts, body, c))
    BY DEF FaultyPropose
<1>3. /\ body \in Seq(Pool) /\ body \in Seq(Transactions) /\ floor \in Nat
      /\ blocks[p].stateRoot \in AccountMaps /\ IsAccountMap(blocks[p].stateRoot)
      /\ blocks[p].transactionsRoot \in Seq(Ops) /\ blocks[p].stateRange \in Seq(AccountMaps)
    BY <1>0, BlockFields, BodiesAreSequences, ChainPoolAssumption, MapsAreMaps
<1>4. IsAccountMap(done.changeset)
  <2>1. done \in Outcomes
    BY <1>3, ExecuteBodyTyped
  <2> QED
    BY <2>1, MapsAreMaps DEF Outcomes
<1> HIDE DEF done
<1>5. right \in Headers
    BY <1>0, <1>1, <1>4, CommitmentsTyped DEF Headers
<1>6. moved \in Seq(Ops)
    BY <1>3, HistoryGrows, Zenon
<1>7. Commitments(p, body)
          = {right, [right EXCEPT !.stateRoot = blocks[p].stateRoot],
             [right EXCEPT !.stateRange = blocks[p].stateRange], [right EXCEPT !.start = floor],
             [right EXCEPT !.start = floor, !.transactionsRoot = moved]}
    BY DEF Commitments, done
<1> HIDE DEF right, moved, floor
<1>8. c \in Headers
    BY <1>2, <1>3, <1>5, <1>6, <1>7, Zenon DEF Headers
<1>9. PICK l \in Leaders : l = "faulty"
    BY DEF Leaders
<1>10. /\ Child(l, p, ts, body, c) \in BlockRecords
       /\ Child(l, p, ts, body, c).leader = l /\ Child(l, p, ts, body, c).parent = p
    BY <1>0, <1>8, ChildTyped
<1>11. blocks' = Append(blocks, Child(l, p, ts, body, c))
    BY <1>2, <1>9
<1> QED
    BY <1>1, <1>9, <1>10, <1>11, AppendKeeps

\* A step that adds no block keeps the part of the invariant about blocks and votes
\* when each vote it adds is vouched for.
LEMMA VotesKept ==
    ASSUME ChainInv, blocks' = blocks, clock' \in [Validators -> 0 .. MaxClock],
           votes' \in [Validators -> SUBSET DOMAIN blocks],
           \A v \in Validators : votes[v] \subseteq votes'[v] /\ clock'[v] >= clock[v],
           \A v \in Validators : \A b \in votes'[v] \ votes[v] : b # 1 => Vouched(v, b)'
    PROVE  BlocksInv' /\ VotesInv'
<1>1. BlocksInv /\ VotesInv
    BY DEF ChainInv
<1>2. BlocksInv'
    BY <1>1 DEF BlocksInv
<1>3. ASSUME NEW v \in Validators, NEW b \in votes'[v], b # 1
      PROVE  Vouched(v, b)'
  <2>1. CASE b \in votes[v]
    <3>1. b \in DOMAIN blocks /\ Vouched(v, b)
      BY <1>1, <1>3, <2>1 DEF BlocksInv, VotesInv
    <3> QED
      BY <1>1, <1>3, <3>1, VouchedStays
  <2>2. CASE b \notin votes[v]
    BY <1>3, <2>2
  <2> QED
    BY <2>1, <2>2
<1>4. ASSUME NEW b \in DOMAIN blocks', blocks'[b].leader \in Validators
      PROVE  b # 1 /\ Executed(b)'
  <2>1. b \in DOMAIN blocks /\ b # 1 /\ Executed(b)
    BY <1>1, <1>4 DEF VotesInv
  <2> QED
    BY <1>1, <2>1, ExecutedStays
<1> QED
    BY <1>2, <1>3, <1>4 DEF VotesInv

\* verify_child votes only for what it executed itself, on a certified parent and
\* after the block's timestamp.
LEMMA VerifyChildKeeps ==
    ASSUME ChainInv, NEW v \in Validators, NEW b \in DOMAIN blocks, VerifyChild(v, b)
    PROVE  ChainInv'
<1> DEFINE block == blocks[b]
           parent == blocks[block.parent]
<1>0. BlocksInv /\ VotesInv
    BY DEF ChainInv
<1>1. /\ b \notin votes[v] /\ Certified(block.parent)
      /\ IsValidChildTimestamp(parent.timestamp, block.timestamp)
      /\ ExecutedOn(parent, block) /\ clock[v] >= block.timestamp
      /\ votes' = [votes EXCEPT ![v] = @ \cup {b}]
      /\ UNCHANGED <<blocks, clock, finalized, databases, panicked>>
    BY DEF VerifyChild, ExecutedOn, DeadlinePassed
<1>2. b # 1 /\ clock \in [Validators -> 0 .. MaxClock]
      /\ votes \in [Validators -> SUBSET DOMAIN blocks]
    BY <1>0, <1>1 DEF BlocksInv
<1>3. /\ votes' \in [Validators -> SUBSET DOMAIN blocks]
      /\ votes'[v] = votes[v] \cup {b}
      /\ \A u \in Validators : votes[u] \subseteq votes'[u]
      /\ \A u \in Validators \ {v} : votes'[u] = votes[u]
    BY <1>1, <1>2
<1>4. block.parent \in DOMAIN blocks /\ block.timestamp \in Nat /\ parent.timestamp \in Nat
  <2>1. block.parent \in DOMAIN blocks
    BY <1>0, <1>2, BlockFields
  <2>2. block \in BlockRecords /\ parent \in BlockRecords
    BY <1>0, <2>1, BlockFields
  <2> QED
    BY <2>1, <2>2, ChainBounds DEF BlockRecords
<1>5. block.timestamp > parent.timestamp
    BY <1>1, <1>4 DEF IsValidChildTimestamp
<1>6. Vouched(v, b)'
  <2>1. PICK p : p = blocks[b].parent
    OBVIOUS
  <2>2. Certified(p)'
    BY <1>0, <1>1, <1>3, <2>1, CertifiedStays
  <2>3. Certified(blocks[b].parent)'
    BY <1>1, <2>1, <2>2 DEF Certified
  <2>4. Executed(b)'
    BY <1>1 DEF Executed
  <2> QED
    BY <1>1, <1>5, <2>3, <2>4 DEF Vouched
<1>7. \A u \in Validators : clock'[u] >= clock[u]
    BY <1>1, <1>2, ChainBounds
<1>8. \A u \in Validators : \A c \in votes'[u] \ votes[u] : Vouched(u, c)'
  <2> SUFFICES ASSUME NEW u \in Validators, NEW c \in votes'[u] \ votes[u]
               PROVE  Vouched(u, c)'
    OBVIOUS
  <2>1. u = v /\ c = b
    BY <1>3
  <2> QED
    BY <1>6, <2>1
<1>9. BlocksInv' /\ VotesInv'
    BY <1>1, <1>2, <1>3, <1>7, <1>8, VotesKept
<1>10. FinalizedInv' /\ DatabasesInv'
    BY <1>1, <1>3, RestStays
<1> DEFINE c == FinalizeChild(parent, block.body, ExecuteBody(parent.stateRoot, block.body).changeset)
<1>11. CommitmentsMatch(block, c) /\ kept' = kept \cup {Batch(v, b, c)}
    BY DEF VerifyChild
<1> HIDE DEF c
<1>12. KeptInv'
  <2>1. PICK k : k = Batch(v, b, c)
    BY Zenon
  <2>2. /\ k.validator = v /\ k.block = b /\ k.state = c.stateRoot
        /\ k.stateRange = c.stateRange /\ k.transactions = c.transactionsRoot
    BY <2>1 DEF Batch
  <2>3. AtHeader(k)'
    BY <1>1, <1>11, <2>2 DEF AtHeader, CommitmentsMatch
  <2>4. \A x \in kept' \ kept : AtHeader(x)'
    BY <1>11, <2>1, <2>3
  <2> QED
    BY <1>1, <2>4, KeptStays
<1> QED
    BY <1>9, <1>10, <1>12 DEF ChainInv

\* A clock that advances disturbs no vote.
LEMMA TickKeeps ==
    ASSUME ChainInv, NEW v \in Validators, Tick(v)
    PROVE  ChainInv'
<1>1. clock \in [Validators -> 0 .. MaxClock] /\ votes \in [Validators -> SUBSET DOMAIN blocks]
    BY DEF ChainInv, BlocksInv
<1>2. /\ clock[v] < MaxClock /\ clock' = [clock EXCEPT ![v] = @ + 1]
      /\ UNCHANGED <<blocks, votes, kept, finalized, databases, panicked>>
    BY DEF Tick
<1>3. clock[v] \in Nat /\ clock[v] + 1 \in 0 .. MaxClock
    BY <1>1, <1>2, ChainBounds
<1>4. clock' \in [Validators -> 0 .. MaxClock]
    BY <1>1, <1>2, <1>3
<1>5. \A u \in Validators : clock'[u] >= clock[u]
    BY <1>1, <1>2, <1>3, ChainBounds
<1>6. BlocksInv' /\ VotesInv'
    BY <1>1, <1>2, <1>4, <1>5, VotesKept
<1>7. FinalizedInv' /\ DatabasesInv'
    BY <1>2, RestStays
<1>8. KeptInv'
    BY <1>2, KeptStays
<1> QED
    BY <1>6, <1>7, <1>8 DEF ChainInv

\* Consensus extends the finalized chain by a certified child of its last block.
LEMMA FinalizeKeeps ==
    ASSUME ChainInv, NEW b \in DOMAIN blocks, Finalize(b)
    PROVE  ChainInv'
<1>0. BlocksInv /\ VotesInv /\ FinalizedInv
    BY DEF ChainInv
<1>1. /\ blocks[b].parent = finalized[Len(finalized)] /\ Certified(b)
      /\ finalized' = Append(finalized, b)
      /\ UNCHANGED <<blocks, clock, votes, kept, databases, panicked>>
    BY DEF Finalize
<1>2. /\ finalized \in Seq(DOMAIN blocks) /\ Len(finalized) >= 1
      /\ clock \in [Validators -> 0 .. MaxClock] /\ votes \in [Validators -> SUBSET DOMAIN blocks]
    BY <1>0 DEF BlocksInv, FinalizedInv
<1>3. PICK n : n = Len(finalized)
    BY Zenon
<1>4. /\ finalized' \in Seq(DOMAIN blocks) /\ Len(finalized') = n + 1
      /\ DOMAIN finalized = 1 .. n /\ n \in Nat /\ n >= 1
      /\ DOMAIN finalized' = DOMAIN finalized \cup {n + 1} /\ n + 1 \notin DOMAIN finalized
      /\ finalized'[n + 1] = b
      /\ \A i \in DOMAIN finalized : finalized'[i] = finalized[i]
    BY <1>1, <1>2, <1>3, AppendReads
<1>5. b # 1
  <2>1. n \in DOMAIN finalized
    BY <1>4
  <2>2. finalized[n] \in DOMAIN blocks
    BY <1>2, <2>1
  <2>3. blocks[b].parent >= 1
    BY <1>0, <1>1, <1>3, <2>2, BlockFields
  <2>4. b = 1 => blocks[b].parent = 0
    BY <1>0 DEF BlocksInv, Genesis
  <2> QED
    BY <2>3, <2>4
<1>6. Certified(b)'
    BY <1>0, <1>1, CertifiedStays
<1>7. ASSUME NEW i \in DOMAIN finalized', i # 1
      PROVE  /\ blocks'[finalized'[i]].parent = finalized'[i - 1]
             /\ finalized'[i] # 1 /\ Certified(finalized[i])'
  <2>1. CASE i \in DOMAIN finalized
    <3>1. i - 1 \in DOMAIN finalized
      BY <1>4, <1>7, <2>1
    <3>2. PICK c : c = finalized[i]
      OBVIOUS
    <3>3. blocks[c].parent = finalized[i - 1] /\ c # 1 /\ Certified(c)
      BY <1>0, <1>7, <2>1, <3>2 DEF FinalizedInv
    <3>4. Certified(c)'
      BY <1>0, <1>1, <3>3, CertifiedStays
    <3>5. finalized'[i] = c /\ finalized'[i - 1] = finalized[i - 1]
      BY <1>4, <2>1, <3>1, <3>2
    <3>6. Certified(finalized[i])'
      BY <3>4, <3>5 DEF Certified
    <3> QED
      BY <1>1, <3>3, <3>5, <3>6
  <2>2. CASE i \notin DOMAIN finalized
    <3>1. i = n + 1 /\ finalized'[i] = b
      BY <1>4, <2>2
    <3>2. i - 1 = n /\ n \in DOMAIN finalized
      BY <1>4, <3>1
    <3>3. finalized'[i - 1] = finalized[n]
      BY <1>4, <3>2
    <3>4. Certified(finalized[i])'
      BY <1>6, <3>1 DEF Certified
    <3> QED
      BY <1>1, <1>3, <1>5, <3>1, <3>3, <3>4
  <2> QED
    BY <2>1, <2>2
<1>8. FinalizedInv'
  <2>1. finalized' \in Seq(DOMAIN blocks') /\ Len(finalized') >= 1
    BY <1>1, <1>4
  <2> QED
    BY <1>7, <2>1 DEF FinalizedInv
<1>9. BlocksInv' /\ VotesInv'
  <2>1. \A v \in Validators : votes[v] \subseteq votes'[v] /\ clock'[v] >= clock[v]
    BY <1>1, <1>2, ChainBounds
  <2> QED
    BY <1>1, <1>2, <2>1, VotesKept
<1>10. DatabasesInv'
    BY <1>1 DEF ChainInv, DatabasesInv, DatabaseRecords, DatabasesMatchHeader
<1>11. KeptInv'
    BY <1>1, KeptStays
<1> QED
    BY <1>8, <1>9, <1>10, <1>11 DEF ChainInv

\* A validator that moves its databases to the header of a finalized block.
LEMMA SyncKeeps ==
    ASSUME ChainInv, NEW v \in Validators, NEW i \in DOMAIN finalized,
           databases' = [databases EXCEPT ![v] =
               [at |-> finalized[i], state |-> blocks[finalized[i]].stateRoot,
                stateRange |-> blocks[finalized[i]].stateRange,
                transactions |-> blocks[finalized[i]].transactionsRoot]],
           UNCHANGED <<blocks, clock, votes, kept, finalized, panicked>>
    PROVE  ChainInv'
<1> DEFINE b == finalized[i]
           new == [at |-> b, state |-> blocks[b].stateRoot, stateRange |-> blocks[b].stateRange,
                   transactions |-> blocks[b].transactionsRoot]
<1>0. BlocksInv /\ FinalizedInv /\ DatabasesInv
    BY DEF ChainInv
<1>1. b \in DOMAIN blocks
    BY <1>0 DEF FinalizedInv
<1>2. /\ blocks[b].stateRoot \in AccountMaps /\ blocks[b].transactionsRoot \in Seq(Ops)
      /\ blocks[b].stateRange \in Seq(AccountMaps)
    BY <1>0, <1>1, BlockFields, MapsAreMaps
<1>3. new \in DatabaseRecords /\ databases \in [Validators -> DatabaseRecords]
    BY <1>0, <1>1, <1>2 DEF DatabasesInv, DatabaseRecords
<1>4. /\ databases' \in [Validators -> DatabaseRecords] /\ databases'[v] = new
      /\ \A u \in Validators \ {v} : databases'[u] = databases[u]
    BY <1>3
<1>5. DatabasesMatchHeader'
  <2> SUFFICES ASSUME NEW u \in Validators
               PROVE  /\ databases'[u].state = blocks'[databases'[u].at].stateRoot
                      /\ databases'[u].stateRange = blocks'[databases'[u].at].stateRange
                      /\ databases'[u].transactions = blocks'[databases'[u].at].transactionsRoot
    BY DEF DatabasesMatchHeader
  <2>1. CASE u = v
    BY <1>4, <2>1
  <2>2. CASE u # v
    BY <1>0, <1>4, <2>2 DEF DatabasesInv, DatabasesMatchHeader
  <2> QED
    BY <2>1, <2>2
<1>6. DatabasesInv'
    BY <1>0, <1>4, <1>5, Zenon DEF DatabasesInv, DatabaseRecords
<1>7. FinalizedInv'
    BY <1>0, Zenon DEF FinalizedInv, Certified
<1>8. BlocksInv' /\ VotesInv'
  <2>1. clock \in [Validators -> 0 .. MaxClock] /\ votes \in [Validators -> SUBSET DOMAIN blocks]
    BY <1>0 DEF BlocksInv
  <2>2. \A u \in Validators : votes[u] \subseteq votes'[u] /\ clock'[u] >= clock[u]
    BY <2>1, ChainBounds
  <2> QED
    BY <2>1, <2>2, VotesKept
<1>9. KeptInv'
    BY KeptStays
<1> QED
    BY <1>6, <1>7, <1>8, <1>9 DEF ChainInv

\* apply_certified recomputes what the header of a finalized block commits to: the
\* database is at the parent, the certificate holds a vote of a validator that
\* executed the block there, and the floor of the header is the parent's.
LEMMA ApplyCertifiedKeeps ==
    ASSUME ChainInv, NEW v \in Validators, NEW i \in DOMAIN finalized, ApplyCertified(v, i)
    PROVE  ChainInv'
<1> DEFINE b == finalized[i]
           parent == blocks[blocks[b].parent]
           db == databases[v]
           done == ExecuteBody(db.state, blocks[b].body)
<1>0. BlocksInv /\ VotesInv /\ FinalizedInv /\ DatabasesInv
    BY DEF ChainInv
<1>1. /\ i > 1 /\ finalized[i - 1] = db.at
      /\ IF done.ok
         THEN /\ databases' = [databases EXCEPT ![v] =
                     [at |-> b, state |-> Override(db.state, done.changeset),
                      stateRange |-> Append(db.stateRange, done.changeset),
                      transactions |->
                          ExtendHistory(db.transactions, blocks[b].body, blocks[b].start)]]
              /\ UNCHANGED panicked
         ELSE panicked' = panicked \cup {v} /\ UNCHANGED databases
      /\ UNCHANGED <<blocks, clock, votes, kept, finalized>>
    BY DEF ApplyCertified, IsNext, ApplyFloor
<1>2. b \in DOMAIN blocks /\ b # 1 /\ Certified(b) /\ blocks[b].parent = db.at
  <2>1. i # 1
    BY <1>1
  <2> QED
    BY <1>0, <1>1, <2>1 DEF FinalizedInv
<1>3. /\ db.state = parent.stateRoot /\ db.stateRange = parent.stateRange
      /\ db.transactions = parent.transactionsRoot
    BY <1>0, <1>2 DEF DatabasesInv, DatabasesMatchHeader
<1>4. ExecutedOn(parent, blocks[b])
    BY <1>0, <1>2, CertifiedExecuted DEF Executed
<1>5. /\ done.ok
      /\ CommitmentsMatch(blocks[b], FinalizeChild(parent, blocks[b].body, done.changeset))
    BY <1>3, <1>4, Zenon DEF ExecutedOn
<1>6. /\ blocks[b].stateRoot = Override(parent.stateRoot, done.changeset)
      /\ blocks[b].stateRange = Append(parent.stateRange, done.changeset)
      /\ blocks[b].start = InactivityFloor(parent)
      /\ blocks[b].transactionsRoot
             = ExtendHistory(parent.transactionsRoot, blocks[b].body, InactivityFloor(parent))
    BY <1>5, Zenon DEF CommitmentsMatch, FinalizeChild
<1> HIDE DEF done, db, parent
<1>7. /\ Override(db.state, done.changeset) = blocks[b].stateRoot
      /\ Append(db.stateRange, done.changeset) = blocks[b].stateRange
      /\ ExtendHistory(db.transactions, blocks[b].body, blocks[b].start) = blocks[b].transactionsRoot
    BY <1>3, <1>6, Zenon
<1>8. /\ databases' = [databases EXCEPT ![v] =
             [at |-> b, state |-> blocks[b].stateRoot, stateRange |-> blocks[b].stateRange,
              transactions |-> blocks[b].transactionsRoot]]
      /\ UNCHANGED panicked
    BY <1>1, <1>5, <1>7, Zenon
<1> QED
    BY <1>1, <1>8, SyncKeeps, Zenon

\* Genesis, which every validator starts from, is at the databases of all.
LEMMA ChainInitial == Init => ChainInv
<1> SUFFICES ASSUME Init
             PROVE  ChainInv
    OBVIOUS
<1>1. blocks = <<Genesis>> /\ finalized = <<1>> /\ panicked = {}
    BY DEF Init
<1>2. /\ blocks \in Seq(BlockRecords) /\ Len(blocks) = 1 /\ blocks[1] = Genesis
      /\ DOMAIN blocks = {1}
  <2>1. DOMAIN blocks = 1 .. 1
    BY <1>1
  <2> QED
    BY <1>1, <2>1, GenesisTyped
<1>3. clock \in [Validators -> 0 .. MaxClock]
  <2>1. 0 .. 1 \subseteq 0 .. MaxClock
    BY ChainBounds
  <2> QED
    BY <2>1 DEF Init
<1>4. votes \in [Validators -> SUBSET DOMAIN blocks] /\ \A v \in Validators : votes[v] = {1}
    BY <1>2 DEF Init
<1>5. BlocksInv
    BY <1>2, <1>3, <1>4 DEF BlocksInv
<1>6. VotesInv
  <2>1. blocks[1].leader \notin Validators
    BY <1>2, ValidatorsAssumption DEF Genesis
  <2> QED
    BY <1>2, <1>4, <2>1 DEF VotesInv
<1>7. FinalizedInv
  <2>1. finalized \in Seq(DOMAIN blocks) /\ Len(finalized) = 1 /\ DOMAIN finalized = 1 .. 1
    BY <1>1, <1>2
  <2>2. DOMAIN finalized = {1}
    BY <2>1
  <2> QED
    BY <2>1, <2>2 DEF FinalizedInv
<1>8. DatabasesInv
  <2>1. /\ Genesis.stateRoot \in AccountMaps /\ Genesis.transactionsRoot \in Seq(Ops)
        /\ Genesis.stateRange \in Seq(AccountMaps)
    BY GenesisTyped DEF BlockRecords
  <2>2. \A v \in Validators :
            databases[v] = [at |-> 1, state |-> Genesis.stateRoot,
                            stateRange |-> Genesis.stateRange,
                            transactions |-> Genesis.transactionsRoot]
    BY DEF Init
  <2>3. databases \in [Validators -> DatabaseRecords]
    BY <1>2, <2>1 DEF Init, DatabaseRecords
  <2>4. DatabasesMatchHeader
    BY <1>2, <2>2 DEF DatabasesMatchHeader
  <2> QED
    BY <1>1, <2>3, <2>4 DEF DatabasesInv
<1>9. KeptInv
    BY DEF Init, KeptInv
<1> QED
    BY <1>5, <1>6, <1>7, <1>8, <1>9 DEF ChainInv

\* Every step, of the application, of consensus, of a clock or of a faulty leader,
\* keeps the invariant.
LEMMA ChainStep == ChainInv /\ [Next]_vars => ChainInv'
<1> SUFFICES ASSUME ChainInv, [Next]_vars
             PROVE  ChainInv'
    OBVIOUS
<1>1. CASE \E v \in Validators, p \in DOMAIN blocks, input \in Bodies : ProposeChild(v, p, input)
    BY <1>1, ProposeChildKeeps
<1>2. CASE \E p \in DOMAIN blocks, body \in Bodies, ts \in 0 .. MaxClock : FaultyPropose(p, body, ts)
    BY <1>2, FaultyProposeKeeps
<1>3. CASE \E v \in Validators, b \in DOMAIN blocks : VerifyChild(v, b)
    BY <1>3, VerifyChildKeeps
<1>4. CASE \E b \in DOMAIN blocks : Finalize(b)
    BY <1>4, FinalizeKeeps
<1>5. CASE \E v \in Validators, i \in DOMAIN finalized : CommitKept(v, i)
  <2>1. PICK v \in Validators, i \in DOMAIN finalized : CommitKept(v, i)
    BY <1>5
  <2>2. PICK k \in kept :
           /\ k.block = finalized[i]
           /\ databases' = [databases EXCEPT ![v] =
                  [at |-> finalized[i], state |-> k.state, stateRange |-> k.stateRange,
                   transactions |-> k.transactions]]
    BY <2>1 DEF CommitKept, Kept
  <2>3. AtHeader(k) /\ UNCHANGED <<blocks, clock, votes, kept, finalized, panicked>>
    BY <2>1 DEF CommitKept, ChainInv, KeptInv
  <2>4. /\ k.state = blocks[finalized[i]].stateRoot
        /\ k.stateRange = blocks[finalized[i]].stateRange
        /\ k.transactions = blocks[finalized[i]].transactionsRoot
    BY <2>2, <2>3 DEF AtHeader
  <2>5. databases' = [databases EXCEPT ![v] =
            [at |-> finalized[i], state |-> blocks[finalized[i]].stateRoot,
             stateRange |-> blocks[finalized[i]].stateRange,
             transactions |-> blocks[finalized[i]].transactionsRoot]]
    BY <2>2, <2>4, Zenon
  <2> QED
    BY <2>3, <2>5, SyncKeeps, Zenon
<1>6. CASE \E v \in Validators, i \in DOMAIN finalized : ApplyCertified(v, i)
    BY <1>6, ApplyCertifiedKeeps
<1>7. CASE \E v \in Validators : Tick(v)
    BY <1>7, TickKeeps
<1>8. CASE UNCHANGED vars
  <2>1. UNCHANGED <<blocks, clock, votes, kept, finalized, databases, panicked>>
    BY <1>8 DEF vars
  <2>2. clock \in [Validators -> 0 .. MaxClock] /\ votes \in [Validators -> SUBSET DOMAIN blocks]
    BY DEF ChainInv, BlocksInv
  <2>3. \A v \in Validators : votes[v] \subseteq votes'[v] /\ clock'[v] >= clock[v]
    BY <2>1, <2>2, ChainBounds
  <2>4. BlocksInv' /\ VotesInv'
    BY <2>1, <2>2, <2>3, VotesKept
  <2>5. FinalizedInv' /\ DatabasesInv'
    BY <2>1, <2>3, RestStays
  <2>6. KeptInv'
    BY <2>1, KeptStays
  <2> QED
    BY <2>4, <2>5, <2>6 DEF ChainInv
<1> QED
    BY <1>1, <1>2, <1>3, <1>4, <1>5, <1>6, <1>7, <1>8 DEF Next

-----------------------------------------------------------------------------
(* The theorems                                                            *)

\* The invariant that carries the block lifecycle: what correct validators vote for
\* they have executed on a certified parent, and their databases follow the headers.
THEOREM ChainInvariant == Spec => []ChainInv
    BY ChainInitial, ChainStep, PTL DEF Spec

\* Blocks, votes, clocks and databases keep their shapes, whatever a faulty leader
\* puts into its headers.
THEOREM ChainTypeCorrect == Spec => []TypeOK
<1>1. ChainInv => TypeOK
  <2> SUFFICES ASSUME ChainInv
               PROVE  TypeOK
    OBVIOUS
  <2>0. BlocksInv /\ KeptInv /\ FinalizedInv /\ DatabasesInv
    BY DEF ChainInv
  <2>1. ASSUME NEW b \in DOMAIN blocks
        PROVE  /\ blocks[b].parent \in 0 .. b - 1
               /\ blocks[b].height \in Nat /\ blocks[b].timestamp \in 0 .. MaxClock
               /\ blocks[b].body \in Bodies
               /\ IsAccountMap(blocks[b].stateRoot)
               /\ \A change \in Range(blocks[b].stateRange) : IsAccountMap(change)
               /\ Range(blocks[b].transactionsRoot) \subseteq Ops
               /\ blocks[b].start \in Nat /\ blocks[b].end \in Nat
    <3>1. /\ blocks[b] \in BlockRecords /\ b \in Nat /\ IsAccountMap(blocks[b].stateRoot)
          /\ blocks[b].transactionsRoot \in Seq(Ops) /\ blocks[b].stateRange \in Seq(AccountMaps)
      BY <2>0, BlockFields
    <3>2. blocks[b].parent \in 0 .. b - 1
      <4>1. CASE b = 1
        BY <2>0, <4>1 DEF BlocksInv, Genesis
      <4>2. CASE b # 1
        <5>1. blocks[b].parent \in 1 .. b - 1
          BY <2>0, <4>2 DEF BlocksInv
        <5> QED
          BY <3>1, <5>1
      <4> QED
        BY <4>1, <4>2
    <3>3. Range(blocks[b].transactionsRoot) \subseteq Ops
      BY <3>1 DEF Range
    <3>4. \A change \in Range(blocks[b].stateRange) : IsAccountMap(change)
      BY <3>1, MapsAreMaps DEF Range
    <3> QED
      BY <3>1, <3>2, <3>3, <3>4 DEF BlockRecords
  <2>2. Range(finalized) \subseteq DOMAIN blocks
    BY <2>0 DEF FinalizedInv, Range
  <2>3. \A v \in Validators : IsAccountMap(databases[v].state)
    BY <2>0, MapsAreMaps DEF DatabasesInv, DatabaseRecords
  <2> QED
    BY <2>0, <2>1, <2>2, <2>3 DEF TypeOK, BlocksInv, KeptInv, AtHeader, DatabasesInv
<1> QED
    BY <1>1, ChainInvariant, PTL

\* However a validator reached its last block, by committing the batch it kept or by
\* apply_certified with the header's floor, its databases are the header's.
THEOREM DatabasesMatchHeaderCorrect == Spec => []DatabasesMatchHeader
<1>1. ChainInv => DatabasesMatchHeader
    BY DEF ChainInv, DatabasesInv
<1> QED
    BY <1>1, ChainInvariant, PTL

\* The expectation in apply_certified, that a certified block executes, never fails.
THEOREM NeverPanicsCorrect == Spec => []NeverPanics
<1>1. ChainInv => NeverPanics
    BY DEF ChainInv, DatabasesInv, NeverPanics
<1> QED
    BY <1>1, ChainInvariant, PTL

\* The transaction range in a certified header, which bounds what a syncing node
\* fetches, covers the operations of exactly two blocks.
THEOREM RangesCoverTwoBlocksCorrect == Spec => []RangesCoverTwoBlocks
<1>1. ChainInv => RangesCoverTwoBlocks
  <2> SUFFICES ASSUME ChainInv, NEW b \in CertifiedBlocks \ {1}
               PROVE  LET block  == blocks[b]
                          parent == blocks[block.parent]
                      IN  /\ block.start = IF block.parent = 1 THEN 0 ELSE blocks[parent.parent].end
                          /\ block.end = parent.end + Len(block.body) + 1
                          /\ Len(block.transactionsRoot) = block.end
    BY DEF RangesCoverTwoBlocks
  <2>0. BlocksInv /\ VotesInv /\ b \in DOMAIN blocks /\ b # 1 /\ Certified(b)
    BY DEF ChainInv, CertifiedBlocks
  <2>1. PICK p : p = blocks[b].parent
    OBVIOUS
  <2>2. Executed(b) /\ Certified(p) /\ p \in DOMAIN blocks
    BY <2>0, <2>1, CertifiedExecuted, BlockFields
  <2>3. blocks[b].start = InactivityFloor(blocks[p])
    BY <2>1, <2>2, Zenon DEF Executed, ExecutedOn, CommitmentsMatch, FinalizeChild
  <2>4. InactivityFloor(blocks[p]) = IF p = 1 THEN 0 ELSE blocks[blocks[p].parent].end
    BY <2>0, <2>2, FloorIsParentEnd
  <2>5. blocks[b].end = blocks[p].end + Len(blocks[b].body) + 1
    BY <2>0, <2>1, FloorIsParentEnd
  <2>6. Len(blocks[b].transactionsRoot) = blocks[b].end
    BY <2>0, <2>2, EndIsLength
  <2> QED
    BY <2>1, <2>3, <2>4, <2>5, <2>6
<1> QED
    BY <1>1, ChainInvariant, PTL

\* propose_child and verify_child agree: what a correct leader proposes, every
\* correct validator finds executable and rightly committed.
THEOREM ProposalsVerifyCorrect == Spec => []ProposalsVerify
<1>1. ChainInv => ProposalsVerify
    BY DEF ChainInv, VotesInv, Executed, ExecutedOn, ProposalsVerify
<1> QED
    BY <1>1, ChainInvariant, PTL

\* A certificate with two correct votes holds one of a validator that compared the
\* timestamp with the parent's, since verify_child does and the leader, which stamps
\* the block with its own clock, does not.
THEOREM TimestampsGrowCorrect ==
    ASSUME Quorum >= 2
    PROVE  Spec => []TimestampsGrow
<1>1. ChainInv => TimestampsGrow
  <2> SUFFICES ASSUME ChainInv
               PROVE  TimestampsGrow
    OBVIOUS
  <2>0. BlocksInv /\ VotesInv
    BY DEF ChainInv
  <2>1. ASSUME NEW b \in CertifiedBlocks \ {1}
        PROVE  blocks[b].timestamp > blocks[blocks[b].parent].timestamp
    <3> DEFINE W == {v \in Validators : b \in votes[v]}
               l == blocks[b].leader
    <3>1. Cardinality(W) >= Quorum /\ Quorum \in Nat /\ Cardinality(Validators) \in Nat
      BY <2>1, QuorumAssumption, ValidatorsAssumption, FS_CardinalityType DEF CertifiedBlocks, Certified
    <3>2. IsFiniteSet({l}) /\ Cardinality({l}) = 1
      BY FS_Singleton, Zenon
    <3> HIDE DEF W, l
    <3>3. ~(W \subseteq {l})
      <4>1. W \subseteq {l} => Cardinality(W) <= Cardinality({l})
        BY <3>2, FS_Subset
      <4>2. W \subseteq {l} => Cardinality(W) \in Nat
        BY <3>2, FS_Subset, FS_CardinalityType
      <4> QED
        BY <3>1, <3>2, <4>1, <4>2
    <3>4. PICK v \in W : v # l
      BY <3>3
    <3>5. v \in Validators /\ b \in votes[v] /\ b # 1
      BY <2>1, <3>4 DEF W
    <3>6. Vouched(v, b)
      BY <2>0, <3>5 DEF VotesInv
    <3> QED
      BY <3>4, <3>6 DEF Vouched, l
  <2>2. ASSUME NEW v \in Validators, NEW b \in votes[v]
        PROVE  clock[v] >= blocks[b].timestamp
    <3>1. CASE b = 1
      <4>1. blocks[b].timestamp = 0 /\ clock[v] \in 0 .. MaxClock
        BY <2>0, <3>1 DEF BlocksInv, Genesis
      <4> QED
        BY <4>1, ChainBounds
    <3>2. CASE b # 1
      BY <2>0, <3>2 DEF VotesInv, Vouched
    <3> QED
      BY <3>1, <3>2
  <2> QED
    BY <2>1, <2>2 DEF TimestampsGrow
<1> QED
    BY <1>1, ChainInvariant, PTL

=============================================================================
