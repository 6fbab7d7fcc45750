---------------------------- MODULE MempoolProofs ----------------------------
(***************************************************************************)
(* Proofs about Mempool, for every set of batches and transactions, every  *)
(* size of the pool, of a proposal and of the status history, and every    *)
(* grace period.                                                           *)
(***************************************************************************)
EXTENDS Mempool, TLAPS

\* A leaf that names no prover is given to these, one after the other.
USE SMT, Z3, Zenon

\* The digests of a sequence of entries or proposals, and that none is in two.
DigestsOf(s) == UNION {s[i].digests : i \in DOMAIN s}
Apart(s) == \A i, j \in DOMAIN s : i # j => s[i].digests \cap s[j].digests = {}

\* KnownIsHeld, sequence by sequence.
HeldOnce ==
    /\ known = DigestsOf(pool) \cup DigestsOf(proposed) \cup DigestsOf(draining)
    /\ Apart(pool) /\ Apart(proposed) /\ Apart(draining)
    /\ DigestsOf(pool) \cap DigestsOf(proposed) = {}
    /\ DigestsOf(pool) \cap DigestsOf(draining) = {}
    /\ DigestsOf(proposed) \cap DigestsOf(draining) = {}

\* Every entry was made from one batch, and knows its size.
FromOneBatch(s) == \A i \in DOMAIN s : \E b \in Batches : s[i].digests \subseteq Content[b]
EntryBytes == [i \in DOMAIN pool |-> pool[i].bytes]
BytesInv ==
    /\ \A i \in DOMAIN pool : pool[i].bytes = TotalBytes(pool[i].digests)
    /\ poolBytes = SumFunctionOnSet(EntryBytes, 1 .. Len(pool))
    /\ poolBytes <= MaxPoolBytes

\* While no block is processed there is nothing to drain, and what a block
\* contains is final.
PhaseInv ==
    /\ Ready => draining = <<>>
    /\ ~Ready => ~block.ready /\ block.digests \subseteq final

\* The maps keyed by batch, as IndexesAgree has them, with an order that lists no
\* batch twice.
IndexInv ==
    /\ batchDigests = {b \in DOMAIN statuses : ~statuses[b].resolved}
    /\ \A d \in Digests : watchers[d] \subseteq {b \in batchDigests : d \in Content[b]}
    /\ \A b \in Batches : waiters[b] # {} => b \in batchDigests
    /\ Range(statusOrder) = DOMAIN statuses
    /\ IsInjective(statusOrder)
    /\ Len(statusOrder) <= MaxStatus

\* The numbers in the state that come from sets: the size of transactions of one
\* batch, and the length of the order, now and with one more batch.
CountInv ==
    /\ \A b \in Batches : \A ds \in SUBSET Content[b] : TotalBytes(ds) \in Nat
    /\ Cardinality(DOMAIN statuses) = Len(statusOrder)
    /\ \A b \in Batches \ DOMAIN statuses :
           Cardinality(DOMAIN statuses \cup {b}) = Len(statusOrder) + 1

\* Where an outcome or a held transaction may have no batch that watches it.
Abandoned(d) == Contested(d) \/ \E b \in forgotten : d \in Content[b]
WatchInv ==
    /\ \A d \in DOMAIN outcomes \cup known : watchers[d] # {} \/ Abandoned(d)
    /\ \A d \in DOMAIN outcomes \cap known :
           Abandoned(d) \/ \E x \in watchers[d] : Content[x] = {d}

\* Outcomes and statuses say finalized of what is in a block.
IncludedInv ==
    /\ \A d \in DOMAIN outcomes : outcomes[d] = "finalized" => d \in final
    /\ \A b \in DOMAIN statuses : statuses[b].included \subseteq final

\* The transactions of exclusive batches.  The copy in a block that may still
\* finalize has a held copy of the same age, what is final and held is in the block
\* being processed, and what was dropped is nowhere.
Out(d) == d \notin final /\ d \notin known /\ \A c \in candidates : d \notin c.digests

Covered(d, age) ==
    \/ \E i \in DOMAIN proposed : d \in proposed[i].digests /\ proposed[i].age = age
    \/ \E i \in DOMAIN draining : d \in draining[i].digests /\ draining[i].age = age

Traced(b) ==
    /\ b \notin DOMAIN statuses => \A d \in Content[b] : Out(d) /\ d \notin DOMAIN outcomes
    /\ \A c \in candidates : \A d \in c.digests \cap Content[b] : Covered(d, c.age)
    /\ \A i \in DOMAIN draining :
           draining[i].digests \cap block.digests \cap Content[b] # {} => draining[i].age >= 0
    /\ \A d \in Content[b] \cap known \cap final : d \in block.digests \cap DigestsOf(draining)
    /\ \A d \in Content[b] \cap DOMAIN outcomes : outcomes[d] = "dropped" => Out(d)
    /\ b \in DOMAIN statuses => \A d \in statuses[b].filtered : d \in Content[b] /\ Out(d)

CandidateInv == candidates \subseteq Proposals /\ \A c \in candidates : c.age <= -1
ExclusiveInv == CandidateInv /\ \A b \in Exclusive : Traced(b)

MempoolInv ==
    /\ TypeOK
    /\ HeldOnce
    /\ FromOneBatch(pool) /\ FromOneBatch(proposed) /\ FromOneBatch(draining)
    /\ BytesInv
    /\ PhaseInv
    /\ IndexInv
    /\ CountInv
    /\ NoStuckBatch
    /\ WatchInv
    /\ IncludedInv
    /\ ExclusiveInv

-----------------------------------------------------------------------------
(* Sequences of entries and proposals. *)

\* Putting an entry at the end.
LEMMA DigestsAppend ==
    ASSUME NEW R, NEW s \in Seq(R), NEW e \in R
    PROVE  /\ DigestsOf(Append(s, e)) = DigestsOf(s) \cup e.digests
           /\ Apart(s) /\ e.digests \cap DigestsOf(s) = {} => Apart(Append(s, e))
           /\ FromOneBatch(s) /\ (\E b \in Batches : e.digests \subseteq Content[b])
                  => FromOneBatch(Append(s, e))
<1> DEFINE t == Append(s, e)
<1>1. /\ DOMAIN s = 1 .. Len(s) /\ Len(s) \in Nat
      /\ DOMAIN t = 1 .. Len(s) + 1
      /\ t[Len(s) + 1] = e
      /\ \A i \in 1 .. Len(s) : t[i] = s[i]
    OBVIOUS
<1>2. DOMAIN t = DOMAIN s \cup {Len(s) + 1} /\ \A i \in DOMAIN s : t[i] = s[i]
    BY <1>1
<1> HIDE DEF t
<1>3. DigestsOf(t) = DigestsOf(s) \cup e.digests
    BY <1>1, <1>2 DEF DigestsOf
<1>4. ASSUME Apart(s), e.digests \cap DigestsOf(s) = {}
      PROVE  Apart(t)
  <2>1. \A i \in DOMAIN s : s[i].digests \cap e.digests = {}
    BY <1>4 DEF DigestsOf
  <2> QED
    BY <1>1, <1>2, <1>4, <2>1 DEF Apart
<1>5. FromOneBatch(s) /\ (\E b \in Batches : e.digests \subseteq Content[b]) => FromOneBatch(t)
    BY <1>1, <1>2 DEF FromOneBatch
<1> QED
    BY <1>3, <1>4, <1>5 DEF t

\* Taking the entry at the front.
LEMMA DigestsTail ==
    ASSUME NEW R, NEW s \in Seq(R), s # <<>>
    PROVE  /\ Tail(s) \in Seq(R) /\ Head(s) \in R
           /\ DigestsOf(s) = Head(s).digests \cup DigestsOf(Tail(s))
           /\ Apart(s) => Apart(Tail(s)) /\ Head(s).digests \cap DigestsOf(Tail(s)) = {}
           /\ FromOneBatch(s) => /\ FromOneBatch(Tail(s))
                                 /\ \E b \in Batches : Head(s).digests \subseteq Content[b]
           /\ 1 \in DOMAIN s /\ Head(s) = s[1]
           /\ \A i \in DOMAIN Tail(s) : i + 1 \in DOMAIN s /\ Tail(s)[i] = s[i + 1]
           /\ \A i \in DOMAIN s : i = 1 \/ (i - 1 \in DOMAIN Tail(s) /\ Tail(s)[i - 1] = s[i])
<1> DEFINE t == Tail(s)
<1>1. /\ Head(s) \in R /\ t \in Seq(R) /\ Len(t) = Len(s) - 1
      /\ \A i \in 1 .. Len(t) : t[i] = s[i + 1]
    OBVIOUS
<1>2. /\ Len(s) \in Nat \ {0} /\ DOMAIN s = 1 .. Len(s) /\ DOMAIN t = 1 .. Len(t)
      /\ Head(s) = s[1]
    BY <1>1
<1> HIDE DEF t
<1>3. /\ 1 \in DOMAIN s
      /\ \A i \in DOMAIN t : i + 1 \in DOMAIN s /\ t[i] = s[i + 1] /\ i + 1 # 1
      /\ \A i \in DOMAIN s : i = 1 \/ (i - 1 \in DOMAIN t /\ t[i - 1] = s[i])
      /\ \A i, j \in DOMAIN t : i # j => i + 1 # j + 1
    BY <1>1, <1>2
<1>4. DigestsOf(s) = s[1].digests \cup DigestsOf(t)
    BY <1>3 DEF DigestsOf
<1>5. ASSUME Apart(s)
      PROVE  Apart(t) /\ s[1].digests \cap DigestsOf(t) = {}
    BY <1>3, <1>5 DEF Apart, DigestsOf
<1>6. FromOneBatch(s) => FromOneBatch(t) /\ \E b \in Batches : s[1].digests \subseteq Content[b]
    BY <1>3 DEF FromOneBatch
<1> QED
    BY <1>1, <1>2, <1>3, <1>4, <1>5, <1>6 DEF t

\* Putting one sequence after another.
LEMMA DigestsConcat ==
    ASSUME NEW R, NEW s \in Seq(R), NEW t \in Seq(R)
    PROVE  /\ s \o t \in Seq(R)
           /\ DigestsOf(s \o t) = DigestsOf(s) \cup DigestsOf(t)
           /\ Apart(s) /\ Apart(t) /\ DigestsOf(s) \cap DigestsOf(t) = {} => Apart(s \o t)
           /\ FromOneBatch(s) /\ FromOneBatch(t) => FromOneBatch(s \o t)
           /\ DOMAIN s \subseteq DOMAIN (s \o t)
           /\ \A i \in DOMAIN s : (s \o t)[i] = s[i]
           /\ \A i \in DOMAIN t : Len(s) + i \in DOMAIN (s \o t) /\ (s \o t)[Len(s) + i] = t[i]
           /\ \A i \in DOMAIN (s \o t) :
                  i \in DOMAIN s \/ (i - Len(s) \in DOMAIN t /\ (s \o t)[i] = t[i - Len(s)])
<1> DEFINE u == s \o t
<1>1. /\ u \in Seq(R) /\ Len(u) = Len(s) + Len(t)
      /\ \A i \in 1 .. Len(s) + Len(t) : u[i] = IF i <= Len(s) THEN s[i] ELSE t[i - Len(s)]
    OBVIOUS
<1>2. /\ DOMAIN s = 1 .. Len(s) /\ Len(s) \in Nat /\ DOMAIN t = 1 .. Len(t) /\ Len(t) \in Nat
      /\ DOMAIN u = 1 .. Len(u)
    BY <1>1
<1> HIDE DEF u
<1>3. /\ DOMAIN s \subseteq DOMAIN u
      /\ \A i \in DOMAIN s : u[i] = s[i]
      /\ \A i \in DOMAIN t : Len(s) + i \in DOMAIN u /\ u[Len(s) + i] = t[i]
      /\ \A i \in DOMAIN u :
             i \in DOMAIN s \/ (i - Len(s) \in DOMAIN t /\ u[i] = t[i - Len(s)])
      /\ \A i, j \in DOMAIN u : i # j => i - Len(s) # j - Len(s)
    BY <1>1, <1>2
<1>4. DigestsOf(u) = DigestsOf(s) \cup DigestsOf(t)
  <2>1. DigestsOf(u) \subseteq DigestsOf(s) \cup DigestsOf(t)
    BY <1>3 DEF DigestsOf
  <2>2. DigestsOf(s) \subseteq DigestsOf(u)
    BY <1>3 DEF DigestsOf
  <2>3. DigestsOf(t) \subseteq DigestsOf(u)
    BY <1>3 DEF DigestsOf
  <2> QED
    BY <2>1, <2>2, <2>3
<1>5. ASSUME Apart(s), Apart(t), DigestsOf(s) \cap DigestsOf(t) = {}
      PROVE  Apart(u)
  <2> SUFFICES ASSUME NEW i \in DOMAIN u, NEW j \in DOMAIN u, i # j
               PROVE  u[i].digests \cap u[j].digests = {}
    BY DEF Apart
  <2>1. \A k \in DOMAIN s, l \in DOMAIN t : s[k].digests \cap t[l].digests = {}
    BY <1>5, Zenon DEF DigestsOf
  <2> QED
    BY <1>3, <1>5, <2>1 DEF Apart
<1>6. FromOneBatch(s) /\ FromOneBatch(t) => FromOneBatch(u)
    BY <1>3 DEF FromOneBatch
<1> QED
    BY <1>1, <1>3, <1>4, <1>5, <1>6 DEF u

Taken(s, n, age) == [i \in 1 .. n |-> [age |-> age, digests |-> s[i].digests]]
Left(s, n) == SubSeq(s, n + 1, Len(s))

SplitsAt(s, n, taken, left) ==
    /\ taken \in Seq(Proposals) /\ left \in Seq(Entries)
    /\ DOMAIN taken = 1 .. n /\ 1 .. n \subseteq DOMAIN s
    /\ Len(left) = Len(s) - n
    /\ \A i \in 1 .. Len(left) : left[i] = s[n + i] /\ n + i \in DOMAIN s
    /\ DigestsOf(taken) = UNION {s[i].digests : i \in 1 .. n}
    /\ DigestsOf(s) = DigestsOf(taken) \cup DigestsOf(left)
    /\ Apart(s) => /\ Apart(taken) /\ Apart(left)
                   /\ DigestsOf(taken) \cap DigestsOf(left) = {}
    /\ FromOneBatch(s) => FromOneBatch(taken) /\ FromOneBatch(left)

\* The entries a proposal takes, in front, and those it leaves.
LEMMA DigestsSplit ==
    ASSUME NEW s \in Seq(Entries), NEW n \in 0 .. Len(s), NEW age \in Int
    PROVE  SplitsAt(s, n, Taken(s, n, age), Left(s, n))
<1> DEFINE taken == [i \in 1 .. n |-> [age |-> age, digests |-> s[i].digests]]
           left  == SubSeq(s, n + 1, Len(s))
<1>1. Len(s) \in Nat /\ DOMAIN s = 1 .. Len(s) /\ n \in Nat /\ n <= Len(s)
    OBVIOUS
<1>2. \A i \in 1 .. n : i \in DOMAIN s /\ s[i] \in Entries
    BY <1>1
<1>3. taken \in Seq(Proposals)
  <2>1. taken \in [1 .. n -> Proposals]
    BY <1>2 DEF Entries, Proposals
  <2> QED
    BY <1>1, <2>1
<1>4. /\ left \in Seq(Entries)
      /\ Len(left) = Len(s) - n
      /\ \A i \in 1 .. Len(left) : left[i] = s[n + i]
  <2>1. n + 1 \in 1 .. Len(s) + 1 /\ Len(s) \in n .. Len(s)
    BY <1>1
  <2>2. /\ left \in Seq(Entries)
        /\ Len(left) = IF n + 1 <= Len(s) THEN Len(s) - (n + 1) + 1 ELSE 0
        /\ \A i \in 1 .. Len(s) - (n + 1) + 1 : left[i] = s[n + 1 + i - 1]
    BY <1>1, <2>1
  <2> HIDE DEF left
  <2>3. Len(left) = Len(s) - n
    <3>1. CASE n + 1 <= Len(s)
      <4>1. Len(left) = Len(s) - (n + 1) + 1
        BY <2>2, <3>1
      <4> QED
        BY <1>1, <4>1
    <3>2. CASE ~(n + 1 <= Len(s))
      <4>1. Len(left) = 0
        BY <2>2, <3>2
      <4>2. \A k, m \in Nat : m <= k /\ ~(m + 1 <= k) => m = k
        OBVIOUS
      <4>3. n = Len(s)
        BY <1>1, <3>2, <4>2, Zenon
      <4>4. \A k \in Nat : k - k = 0
        OBVIOUS
      <4> QED
        BY <1>1, <4>1, <4>3, <4>4, Zenon
    <3> QED
      BY <3>1, <3>2
  <2>4. \A i \in 1 .. Len(left) : left[i] = s[n + i]
    <3> SUFFICES ASSUME NEW i \in 1 .. Len(left)
                 PROVE  left[i] = s[n + i]
      OBVIOUS
    <3>1. i \in 1 .. Len(s) - (n + 1) + 1 /\ n + 1 + i - 1 = n + i
      BY <1>1, <2>3
    <3> QED
      BY <2>2, <3>1
  <2> QED
    BY <2>2, <2>3, <2>4
<1> HIDE DEF left
<1>5. DOMAIN left = 1 .. Len(left)
    BY <1>4
<1>6. /\ \A i \in DOMAIN left : left[i] = s[n + i] /\ n + i \in DOMAIN s /\ n + i \notin 1 .. n
      /\ \A i \in DOMAIN s : i \in 1 .. n \/ (i - n \in DOMAIN left /\ left[i - n] = s[i])
      /\ \A i, j \in DOMAIN left : i # j => n + i # n + j
    BY <1>1, <1>4, <1>5
<1>7. DOMAIN taken = 1 .. n /\ \A i \in 1 .. n : taken[i].digests = s[i].digests
    OBVIOUS
<1> HIDE DEF taken
<1>8. DigestsOf(taken) = UNION {s[i].digests : i \in 1 .. n}
    BY <1>7 DEF DigestsOf
<1>9. DigestsOf(s) = DigestsOf(taken) \cup DigestsOf(left)
  <2>1. DigestsOf(s) \subseteq DigestsOf(taken) \cup DigestsOf(left)
    BY <1>6, <1>7 DEF DigestsOf
  <2>2. DigestsOf(taken) \subseteq DigestsOf(s)
    BY <1>2, <1>7 DEF DigestsOf
  <2>3. DigestsOf(left) \subseteq DigestsOf(s)
    BY <1>6 DEF DigestsOf
  <2> QED
    BY <2>1, <2>2, <2>3
<1>10. ASSUME Apart(s)
       PROVE  Apart(taken) /\ Apart(left) /\ DigestsOf(taken) \cap DigestsOf(left) = {}
  <2>1. Apart(taken)
    BY <1>2, <1>7, <1>10 DEF Apart
  <2>2. Apart(left)
    BY <1>6, <1>10 DEF Apart
  <2>3. \A i \in DOMAIN taken, j \in DOMAIN left : taken[i].digests \cap left[j].digests = {}
    BY <1>2, <1>6, <1>7, <1>10, Zenon DEF Apart
  <2> QED
    BY <2>1, <2>2, <2>3 DEF DigestsOf
<1>11. FromOneBatch(s) => FromOneBatch(taken) /\ FromOneBatch(left)
    BY <1>2, <1>6, <1>7 DEF FromOneBatch
<1> QED
  <2>1. SplitsAt(s, n, taken, left)
    BY <1>2, <1>3, <1>4, <1>5, <1>6, <1>7, <1>8, <1>9, <1>10, <1>11 DEF SplitsAt
  <2> QED
    BY <2>1 DEF taken, left, Taken, Left

\* A reported block only ages the proposals.
LEMMA DigestsAged ==
    ASSUME NEW s \in Seq(Proposals)
    PROVE  LET t == [i \in DOMAIN s |-> [s[i] EXCEPT !.age = @ + 1]]
           IN  /\ t \in Seq(Proposals) /\ DOMAIN t = DOMAIN s
               /\ \A i \in DOMAIN s : t[i].digests = s[i].digests /\ t[i].age = s[i].age + 1
               /\ DigestsOf(t) = DigestsOf(s)
               /\ Apart(s) => Apart(t)
               /\ FromOneBatch(s) => FromOneBatch(t)
<1> DEFINE t == [i \in DOMAIN s |-> [s[i] EXCEPT !.age = @ + 1]]
<1>1. DOMAIN s = 1 .. Len(s) /\ Len(s) \in Nat
    OBVIOUS
<1>2. \A i \in DOMAIN s : s[i] \in Proposals
    BY <1>1
<1>3. /\ DOMAIN t = DOMAIN s
      /\ \A i \in DOMAIN s : /\ t[i] \in Proposals
                             /\ t[i].digests = s[i].digests /\ t[i].age = s[i].age + 1
    BY <1>2 DEF Proposals
<1>4. t \in Seq(Proposals)
  <2>1. t \in [1 .. Len(s) -> Proposals]
    BY <1>1, <1>3, Zenon
  <2> QED
    BY <1>1, <2>1
<1> HIDE DEF t
<1>5. DigestsOf(t) = DigestsOf(s)
    BY <1>3 DEF DigestsOf
<1>6. Apart(s) => Apart(t)
    BY <1>3 DEF Apart
<1>7. FromOneBatch(s) => FromOneBatch(t)
    BY <1>3 DEF FromOneBatch
<1> QED
    BY <1>3, <1>4, <1>5, <1>6, <1>7 DEF t

-----------------------------------------------------------------------------
(* From HeldOnce to KnownIsHeld, and sizes. *)

Disjoint(s) == \A i, j \in DOMAIN s : i # j => s[i] \cap s[j] = {}
SetsOf(s) == [i \in 1 .. Len(s) |-> s[i].digests]

\* The sets of two disjoint sequences of disjoint sets, in a row.
LEMMA DisjointConcat ==
    ASSUME NEW s \in Seq(SUBSET Digests), NEW t \in Seq(SUBSET Digests),
           Disjoint(s), Disjoint(t), (UNION Range(s)) \cap (UNION Range(t)) = {}
    PROVE  /\ s \o t \in Seq(SUBSET Digests)
           /\ Disjoint(s \o t)
           /\ (UNION Range(s \o t)) = (UNION Range(s)) \cup (UNION Range(t))
<1> DEFINE u == s \o t
           m == Len(s)
           n == Len(t)
<1>1. /\ u \in Seq(SUBSET Digests) /\ Len(u) = m + n
      /\ \A i \in 1 .. m + n : u[i] = IF i <= m THEN s[i] ELSE t[i - m]
    OBVIOUS
<1>2. m \in Nat /\ n \in Nat /\ DOMAIN s = 1 .. m /\ DOMAIN t = 1 .. n /\ DOMAIN u = 1 .. m + n
    BY <1>1
<1> HIDE DEF u, m, n
<1>3. /\ \A i \in DOMAIN u : (i \in DOMAIN s /\ u[i] = s[i]) \/ (i - m \in DOMAIN t /\ u[i] = t[i - m])
      /\ \A i \in DOMAIN s : i \in DOMAIN u /\ u[i] = s[i]
      /\ \A i \in DOMAIN t : i + m \in DOMAIN u /\ u[i + m] = t[i]
      /\ \A i, j \in DOMAIN u : i # j => i - m # j - m
    BY <1>1, <1>2
<1>4. (UNION Range(u)) = (UNION Range(s)) \cup (UNION Range(t))
    BY <1>3 DEF Range
<1>5. \A i \in DOMAIN s, j \in DOMAIN t : s[i] \cap t[j] = {}
    BY DEF Range
<1>6. Disjoint(u)
    BY <1>3, <1>5 DEF Disjoint
<1> QED
    BY <1>1, <1>4, <1>6 DEF u

\* The digests of a sequence as a sequence of sets.
LEMMA SetsOfSeq ==
    ASSUME NEW R, NEW s \in Seq(R), \A e \in R : e.digests \in SUBSET Digests, Apart(s)
    PROVE  /\ SetsOf(s) \in Seq(SUBSET Digests)
           /\ Disjoint(SetsOf(s))
           /\ (UNION Range(SetsOf(s))) = DigestsOf(s)
<1>1. Len(s) \in Nat /\ DOMAIN s = 1 .. Len(s) /\ \A i \in DOMAIN s : s[i] \in R
    OBVIOUS
<1>2. SetsOf(s) \in Seq(SUBSET Digests)
  <2>1. \A i \in 1 .. Len(s) : s[i].digests \in SUBSET Digests
    BY <1>1
  <2> QED
    BY <1>1, <2>1 DEF SetsOf
<1>3. DOMAIN SetsOf(s) = DOMAIN s /\ \A i \in DOMAIN s : SetsOf(s)[i] = s[i].digests
    BY <1>1 DEF SetsOf
<1>4. Disjoint(SetsOf(s))
    BY <1>3 DEF Disjoint, Apart
<1>5. (UNION Range(SetsOf(s))) = DigestsOf(s)
    BY <1>3 DEF Range, DigestsOf
<1> QED
    BY <1>2, <1>4, <1>5

\* Each digest held once makes known_digests exactly what is held.
LEMMA HeldOnceMeansKnownIsHeld ==
    ASSUME TypeOK, HeldOnce
    PROVE  KnownIsHeld
<1> DEFINE a == SetsOf(pool)
           b == SetsOf(proposed)
           c == SetsOf(draining)
<1>1. /\ pool \in Seq(Entries) /\ proposed \in Seq(Proposals) /\ draining \in Seq(Proposals)
      /\ \A e \in Entries : e.digests \in SUBSET Digests
      /\ \A e \in Proposals : e.digests \in SUBSET Digests
    BY DEF TypeOK, Entries, Proposals
<1>2. a \in Seq(SUBSET Digests) /\ Disjoint(a) /\ (UNION Range(a)) = DigestsOf(pool)
    BY <1>1, SetsOfSeq DEF HeldOnce
<1>3. b \in Seq(SUBSET Digests) /\ Disjoint(b) /\ (UNION Range(b)) = DigestsOf(proposed)
    BY <1>1, SetsOfSeq DEF HeldOnce
<1>4. c \in Seq(SUBSET Digests) /\ Disjoint(c) /\ (UNION Range(c)) = DigestsOf(draining)
    BY <1>1, SetsOfSeq DEF HeldOnce
<1>5. Held = a \o b \o c
    BY DEF Held, SetsOf
<1> HIDE DEF a, b, c
<1>6. /\ a \o b \in Seq(SUBSET Digests) /\ Disjoint(a \o b)
      /\ (UNION Range(a \o b)) = DigestsOf(pool) \cup DigestsOf(proposed)
  <2>1. (UNION Range(a)) \cap (UNION Range(b)) = {}
    BY <1>2, <1>3 DEF HeldOnce
  <2> QED
    BY <1>2, <1>3, <2>1, DisjointConcat
<1>7. /\ Disjoint(a \o b \o c)
      /\ (UNION Range(a \o b \o c)) = (UNION Range(a \o b)) \cup (UNION Range(c))
  <2>1. (UNION Range(a \o b)) \cap (UNION Range(c)) = {}
    BY <1>4, <1>6 DEF HeldOnce
  <2> DEFINE ab == a \o b
  <2>2. ab \in Seq(SUBSET Digests) /\ Disjoint(ab) /\ (UNION Range(ab)) \cap (UNION Range(c)) = {}
    BY <1>6, <2>1
  <2> HIDE DEF ab
  <2>3. /\ Disjoint(ab \o c)
        /\ (UNION Range(ab \o c)) = (UNION Range(ab)) \cup (UNION Range(c))
    BY <1>4, <2>2, DisjointConcat
  <2> QED
    BY <2>3 DEF ab
<1> QED
    BY <1>4, <1>5, <1>6, <1>7, Zenon DEF KnownIsHeld, Disjoint, HeldOnce

-----------------------------------------------------------------------------
(***************************************************************************)
(* The steps, each with the facts the proofs use.  Drain is split into the *)
(* iteration that keeps the proposal and the one that settles it, with     *)
(* names for what ResolveTerminal computes.                                *)
(***************************************************************************)
Given == Head(draining)
OutAfter == [d \in DOMAIN outcomes \cup Given.digests |->
                IF d \in Hit(Given) THEN "finalized"
                ELSE IF d \in Given.digests THEN "dropped" ELSE outcomes[d]]
DoneNow == {b \in Affected(Given) \cap batchDigests : Content[b] \subseteq DOMAIN OutAfter}
WatchAfter == [d \in Digests |-> watchers[d] \ DoneNow]
Verdict(b) == Resolved({d \in Content[b] : OutAfter[d] = "finalized"},
                       {d \in Content[b] : OutAfter[d] = "dropped"})
Gone == Unwatched(UNION {Content[b] : b \in DoneNow}, WatchAfter)

DrainKeeps ==
    /\ ~Ready /\ draining # <<>> /\ Hit(Given) = {} /\ ~TooOld(Given)
    /\ draining' = Tail(draining)
    /\ proposed' = Append(proposed, Given)
    /\ UNCHANGED <<pool, poolBytes, statuses, statusOrder, batchDigests, watchers, outcomes,
                   waiters, known, round, block, final, candidates, forgotten>>

DrainSettles ==
    /\ ~Ready /\ draining # <<>> /\ (Hit(Given) # {} \/ TooOld(Given))
    /\ draining' = Tail(draining)
    /\ known' = known \ Given.digests
    /\ DOMAIN statuses' = DOMAIN statuses
    /\ \A b \in DOMAIN statuses : statuses'[b] = IF b \in DoneNow THEN Verdict(b) ELSE statuses[b]
    /\ batchDigests' = batchDigests \ DoneNow
    /\ watchers' = WatchAfter
    /\ outcomes' = Without(OutAfter, Gone)
    /\ waiters' = [b \in Batches |-> IF b \in DoneNow THEN {} ELSE waiters[b]]
    /\ UNCHANGED <<pool, poolBytes, proposed, statusOrder, round, block, final, candidates,
                   forgotten>>

\* A round of the drain keeps its entry, or settles it against the block.
LEMMA DrainCases ==
    ASSUME Drain
    PROVE  DrainKeeps \/ DrainSettles
<1>1. CASE Hit(Given) # {} \/ TooOld(Given)
  <2>1. /\ known' = known \ Given.digests
        /\ ResolveTerminal(Affected(Given), OutAfter)
        /\ UNCHANGED proposed
    BY <1>1 DEF Drain, Given, OutAfter
  <2>2. /\ batchDigests' = batchDigests \ DoneNow
        /\ watchers' = WatchAfter
        /\ outcomes' = Without(OutAfter, Gone)
        /\ waiters' = [b \in Batches |-> IF b \in DoneNow THEN {} ELSE waiters[b]]
    BY <2>1 DEF ResolveTerminal, DoneNow, WatchAfter, Gone
  <2>3. statuses' = [b \in DOMAIN statuses |->
                        IF b \in DoneNow THEN [x \in DoneNow |-> Verdict(x)][b] ELSE statuses[b]]
    BY <2>1 DEF ResolveTerminal, DoneNow, Verdict
  <2>4. /\ DOMAIN statuses' = DOMAIN statuses
        /\ \A b \in DOMAIN statuses :
               statuses'[b] = IF b \in DoneNow THEN Verdict(b) ELSE statuses[b]
    BY <2>3
  <2>5. /\ ~Ready /\ draining # <<>> /\ draining' = Tail(draining)
        /\ UNCHANGED <<pool, poolBytes, proposed, statusOrder, round, block, final, candidates,
                       forgotten>>
    BY <2>1 DEF Drain
  <2> QED
    BY <1>1, <2>1, <2>2, <2>4, <2>5 DEF DrainSettles
<1>2. CASE ~(Hit(Given) # {} \/ TooOld(Given))
    BY <1>2 DEF Drain, DrainKeeps, Given
<1> QED
    BY <1>1, <1>2

\* Putting a batch that is not in the order at its end.
LEMMA OrderAppend ==
    ASSUME NEW s \in Seq(Batches), IsInjective(s), NEW b \in Batches, b \notin Range(s)
    PROVE  /\ Append(s, b) \in Seq(Batches) /\ IsInjective(Append(s, b))
           /\ Range(Append(s, b)) = Range(s) \cup {b}
           /\ Len(Append(s, b)) = Len(s) + 1
<1> DEFINE t == Append(s, b)
<1>1. /\ t \in Seq(Batches) /\ Len(t) = Len(s) + 1 /\ DOMAIN t = 1 .. Len(s) + 1
      /\ t[Len(s) + 1] = b /\ \A i \in 1 .. Len(s) : t[i] = s[i]
      /\ DOMAIN s = 1 .. Len(s) /\ Len(s) \in Nat
    OBVIOUS
<1> HIDE DEF t
<1>2. DOMAIN t = DOMAIN s \cup {Len(s) + 1} /\ \A i \in DOMAIN s : t[i] = s[i]
    BY <1>1
<1>3. Range(t) = Range(s) \cup {b}
    BY <1>1, <1>2 DEF Range
<1>4. IsInjective(t)
    BY <1>1, <1>2 DEF Range, IsInjective
<1> QED
    BY <1>1, <1>3, <1>4 DEF t

\* remember_status: what is forgotten was remembered, and what is left in the
\* order is what is remembered.
LEMMA ExpiredFacts ==
    ASSUME TypeOK, IndexInv, CountInv, NEW b \in Batches, b \notin DOMAIN statuses
    PROVE  LET expired == Expired(b)
               order == Append(IF expired = {} THEN statusOrder ELSE Tail(statusOrder), b)
           IN  /\ expired \subseteq DOMAIN statuses
               /\ order \in Seq(Batches)
               /\ Range(order) = (DOMAIN statuses \cup {b}) \ expired
               /\ IsInjective(order)
               /\ Len(order) <= MaxStatus
<1> DEFINE base == IF Expired(b) = {} THEN statusOrder ELSE Tail(statusOrder)
<1>1. /\ statusOrder \in Seq(Batches) /\ Len(statusOrder) \in Nat
      /\ DOMAIN statusOrder = 1 .. Len(statusOrder)
    BY DEF TypeOK
<1>2. Cardinality(DOMAIN statuses \cup {b}) = Len(statusOrder) + 1
    BY DEF CountInv
<1>3. /\ Expired(b) \subseteq DOMAIN statuses
      /\ base \in Seq(Batches) /\ IsInjective(base)
      /\ Range(base) = DOMAIN statuses \ Expired(b)
      /\ Len(base) + 1 <= MaxStatus
  <2>1. CASE Len(statusOrder) + 1 > MaxStatus
    <3>1. Len(statusOrder) # 0 /\ Len(statusOrder) = MaxStatus
      <4>1. Len(statusOrder) <= MaxStatus /\ MaxStatus \in Nat \ {0}
        BY LimitsAssumption DEF IndexInv
      <4>2. \A k \in Nat, m \in Nat \ {0} : k <= m /\ k + 1 > m => k # 0 /\ k = m
        OBVIOUS
      <4> QED
        BY <1>1, <2>1, <4>1, <4>2, Zenon
    <3>2. statusOrder # <<>>
      BY <3>1
    <3>3. Expired(b) = {Head(statusOrder)} /\ base = Tail(statusOrder)
      BY <1>2, <2>1, Zenon DEF Expired
    <3>4. /\ base \in Seq(Batches) /\ Len(base) = Len(statusOrder) - 1
          /\ \A i \in 1 .. Len(base) : base[i] = statusOrder[i + 1]
      <4>1. \A s \in Seq(Batches) : s # <<>> =>
                /\ Tail(s) \in Seq(Batches) /\ Len(Tail(s)) = Len(s) - 1
                /\ \A i \in 1 .. Len(s) - 1 : Tail(s)[i] = s[i + 1]
        OBVIOUS
      <4> QED
        BY <1>1, <3>2, <3>3, <4>1, Zenon
    <3> DEFINE first == Head(statusOrder)
    <3>11. first = statusOrder[1]
      OBVIOUS
    <3>12. /\ \A i \in DOMAIN statusOrder : statusOrder[i] \in DOMAIN statuses
           /\ \A x \in DOMAIN statuses : \E i \in DOMAIN statusOrder : statusOrder[i] = x
      BY DEF IndexInv, Range
    <3> HIDE DEF base, first
    <3>5. DOMAIN base = 1 .. Len(base)
      BY <3>4
    <3>6. /\ 1 \in DOMAIN statusOrder
          /\ \A i \in DOMAIN base : i + 1 \in DOMAIN statusOrder /\ base[i] = statusOrder[i + 1] /\ i + 1 # 1
          /\ \A i \in DOMAIN statusOrder : i = 1 \/ (i - 1 \in DOMAIN base /\ base[i - 1] = statusOrder[i])
          /\ \A i, j \in DOMAIN base : i + 1 = j + 1 => i = j
      BY <1>1, <3>1, <3>4, <3>5, LimitsAssumption
    <3>7. IsInjective(base)
      BY <3>6 DEF IsInjective, IndexInv
    <3>8. first \in DOMAIN statuses
      BY <3>6, <3>11, <3>12
    <3>9. Range(base) = DOMAIN statuses \ {first}
      <4>1. \A i \in DOMAIN base : base[i] \in DOMAIN statuses /\ base[i] # first
        BY <3>6, <3>11, <3>12 DEF IndexInv, IsInjective
      <4>2. \A x \in DOMAIN statuses : x = first \/ \E i \in DOMAIN base : base[i] = x
        BY <3>6, <3>11, <3>12
      <4> QED
        BY <4>1, <4>2 DEF Range
    <3>10. Len(base) + 1 <= MaxStatus
      BY <1>1, <3>1, <3>4, LimitsAssumption
    <3> QED
      BY <3>3, <3>4, <3>7, <3>8, <3>9, <3>10 DEF first
  <2>2. CASE ~(Len(statusOrder) + 1 > MaxStatus)
    <3>1. Expired(b) = {} /\ base = statusOrder
      BY <1>2, <2>2, Zenon DEF Expired
    <3>2. Len(statusOrder) + 1 <= MaxStatus
      BY <1>1, <2>2, LimitsAssumption
    <3> QED
      BY <1>1, <3>1, <3>2 DEF IndexInv
  <2> QED
    BY <2>1, <2>2
<1> HIDE DEF base
<1>4. /\ Append(base, b) \in Seq(Batches) /\ IsInjective(Append(base, b))
      /\ Range(Append(base, b)) = Range(base) \cup {b}
      /\ Len(Append(base, b)) = Len(base) + 1
    BY <1>3, OrderAppend
<1>5. /\ Range(Append(base, b)) = (DOMAIN statuses \cup {b}) \ Expired(b)
      /\ Len(Append(base, b)) <= MaxStatus
    BY <1>3, <1>4
<1> QED
    BY <1>3, <1>4, <1>5 DEF base

\* The steps that change none of the maps but the waiters: a batch that is
\* known or refused, the end of a block, a new tip.
Idle ==
    /\ UNCHANGED <<pool, poolBytes, proposed, statuses, statusOrder, batchDigests, watchers,
                   outcomes, known, draining, final, candidates, forgotten>>
    /\ UNCHANGED block \/ (draining = <<>> /\ block' = NoBlock)
    /\ round' \in 0 .. MaxRound
    /\ waiters' \in [Batches -> SUBSET Waiters]
    /\ \A b \in Batches : waiters'[b] # {} =>
           waiters[b] # {} \/ (b \in DOMAIN statuses /\ ~statuses[b].resolved)

\* A proposal that takes the first n entries.
Takes(lead, n) ==
    /\ Ready
    /\ TakesEntries(n)
    /\ pool' = SubSeq(pool, n + 1, Len(pool))
    /\ poolBytes' = poolBytes - PrefixBytes(n)
    /\ proposed' = proposed \o [i \in 1 .. n |-> [age |-> -lead, digests |-> pool[i].digests]]
    /\ candidates' = IF n = 0 THEN candidates
                     ELSE candidates \cup
                              {[age |-> -lead, digests |-> UNION {pool[i].digests : i \in 1 .. n}]}
    /\ UNCHANGED <<statuses, statusOrder, batchDigests, watchers, outcomes, waiters, known,
                   round, block, draining, final, forgotten>>

\* Every step of the actor is one of these, named for what it does to the pool.
LEMMA StepCases ==
    ASSUME TypeOK, [Next]_vars
    PROVE  \/ Idle
           \/ \E b \in Batches, ws \in SUBSET Waiters : SubmitNew(b, ws)
           \/ \E lead \in 1 .. Lookahead, n \in 0 .. Len(pool) : Takes(lead, n)
           \/ \E body \in FinalizableBodies, r \in 0 .. MaxRound : ReportBlock(body, r)
           \/ DrainKeeps
           \/ DrainSettles
<1>1. \A ws \in Requests : ws \in SUBSET Waiters
    BY DEF Requests, FreeWaiters
<1>2. ASSUME NEW b \in Batches, NEW ws \in SUBSET Waiters, SubmitKnown(b, ws)
      PROVE  Idle
  <2>1. CASE ws # {} /\ ~statuses[b].resolved
    <3>1. waiters' = [waiters EXCEPT ![b] = @ \cup ws]
      BY <1>2, <2>1 DEF SubmitKnown
    <3>2. waiters' \in [Batches -> SUBSET Waiters]
      BY <3>1 DEF TypeOK
    <3>3. \A x \in Batches : waiters'[x] # {} =>
              waiters[x] # {} \/ (x \in DOMAIN statuses /\ ~statuses[x].resolved)
      BY <1>2, <2>1, <3>1 DEF TypeOK, SubmitKnown, Remembered
    <3> QED
      BY <1>2, <3>2, <3>3 DEF SubmitKnown, Idle, TypeOK
  <2>2. CASE ~(ws # {} /\ ~statuses[b].resolved)
    BY <1>2, <2>2 DEF SubmitKnown, Idle, TypeOK
  <2> QED
    BY <2>1, <2>2
<1>3. ASSUME NEW b \in Batches, NEW ws \in SUBSET Waiters, SubmitFull(b, ws)
      PROVE  Idle
    BY <1>3 DEF SubmitFull, Idle, TypeOK, actor
<1>4. ASSUME NEW lead \in 1 .. Lookahead, Propose(lead)
      PROVE  \E n \in 0 .. Len(pool) : Takes(lead, n)
    BY <1>4, Zenon DEF Propose, Takes, BytesLeft
<1>5. ASSUME Acknowledge
      PROVE  Idle
    BY <1>5 DEF Acknowledge, Idle, TypeOK, actor
<1>6. ASSUME NEW r \in 0 .. MaxRound, ReportTip(r)
      PROVE  Idle
    BY <1>6 DEF ReportTip, Idle, TypeOK
<1>7. ASSUME UNCHANGED vars
      PROVE  Idle
    BY <1>7 DEF vars, actor, Idle, TypeOK
<1> QED
    BY <1>1, <1>2, <1>3, <1>4, <1>5, <1>6, <1>7, DrainCases DEF Next, Submit

\* What a block that consensus reports may contain.
LEMMA BodyFacts ==
    ASSUME TypeOK, ExclusiveInv, NEW body \in FinalizableBodies
    PROVE  /\ body \subseteq Digests
           /\ body \cap final = {}
           /\ \/ body \subseteq Shared
              \/ \E c \in candidates : c.age = -1 /\ body \subseteq c.digests
<1>1. candidates \subseteq Proposals
    BY DEF ExclusiveInv, CandidateInv
<1>2. CASE body \in SUBSET (Shared \ final)
    BY <1>2, SharedAssumption
<1>3. ASSUME NEW c \in candidates, c.age = -1, body \in SUBSET (c.digests \ final)
      PROVE  body \subseteq Digests /\ body \cap final = {} /\ body \subseteq c.digests
    BY <1>1, <1>3 DEF Proposals
<1> QED
    BY <1>2, <1>3 DEF FinalizableBodies

-----------------------------------------------------------------------------
(* What the actor holds. *)

\* HeldOnce with the types of the sequences, of any four values.
Holds(k, p, q, r) ==
    /\ p \in Seq(Entries) /\ q \in Seq(Proposals) /\ r \in Seq(Proposals)
    /\ FromOneBatch(p) /\ FromOneBatch(q) /\ FromOneBatch(r)
    /\ Apart(p) /\ Apart(q) /\ Apart(r)
    /\ k = DigestsOf(p) \cup DigestsOf(q) \cup DigestsOf(r)
    /\ DigestsOf(p) \cap DigestsOf(q) = {}
    /\ DigestsOf(p) \cap DigestsOf(r) = {}
    /\ DigestsOf(q) \cap DigestsOf(r) = {}

HeldInv == Holds(known, pool, proposed, draining)

\* The part of the invariant about what is held.
LEMMA HeldInvMeans ==
    MempoolInv => HeldInv
BY DEF MempoolInv, TypeOK, HeldInv, Holds, HeldOnce

\* known_digests stays what the pool, the proposals and the drain hold, each
\* digest once.
LEMMA HeldStep ==
    ASSUME MempoolInv, [Next]_vars
    PROVE  HeldInv'
<1>1. HeldInv
    BY HeldInvMeans
<1> SUFFICES Holds(known', pool', proposed', draining')
    BY Zenon DEF HeldInv, Holds, DigestsOf, Apart, FromOneBatch
<1>2. CASE Idle
    BY <1>1, <1>2 DEF Idle, HeldInv
<1>3. ASSUME NEW b \in Batches, NEW ws \in SUBSET Waiters, SubmitNew(b, ws)
      PROVE  Holds(known', pool', proposed', draining')
  <2> DEFINE fresh == Fresh(b)
             e == [digests |-> fresh, bytes |-> TotalBytes(fresh)]
  <2>1. /\ known' = known \cup fresh
        /\ UNCHANGED <<proposed, draining>>
        /\ fresh = {} => UNCHANGED pool
        /\ fresh # {} => pool' = Append(pool, e)
    BY <1>3 DEF SubmitNew
  <2>2. CASE fresh = {}
    <3>1. known' = known
      BY <2>1, <2>2
    <3> QED
      BY <1>1, <2>1, <2>2, <3>1 DEF HeldInv
  <2>3. CASE fresh # {}
    <3>1. fresh \cap known = {} /\ fresh \subseteq Content[b]
      BY DEF Fresh
    <3>2. e \in Entries /\ e.digests = fresh
      BY <3>1, ContentAssumption DEF Entries, MempoolInv, CountInv
    <3>3. pool' = Append(pool, e)
      BY <2>1, <2>3
    <3> HIDE DEF e, fresh
    <3>4. e.digests \cap DigestsOf(pool) = {}
      BY <1>1, <3>1, <3>2 DEF HeldInv, Holds
    <3>5. pool \in Seq(Entries) /\ Apart(pool) /\ FromOneBatch(pool)
      BY <1>1 DEF HeldInv, Holds
    <3>6. pool' \in Seq(Entries)
      BY <3>2, <3>3, <3>5
    <3>7. /\ DigestsOf(Append(pool, e)) = DigestsOf(pool) \cup e.digests
          /\ Apart(Append(pool, e))
          /\ FromOneBatch(Append(pool, e))
      BY <3>1, <3>2, <3>4, <3>5, DigestsAppend
    <3> QED
      BY <1>1, <2>1, <3>1, <3>2, <3>3, <3>6, <3>7 DEF HeldInv, Holds
  <2> QED
    BY <2>2, <2>3
<1>4. ASSUME NEW lead \in 1 .. Lookahead, NEW n \in 0 .. Len(pool), Takes(lead, n)
      PROVE  Holds(known', pool', proposed', draining')
  <2> DEFINE taken == Taken(pool, n, -lead)
             left  == Left(pool, n)
  <2>1. /\ pool' = left /\ proposed' = proposed \o taken
        /\ UNCHANGED <<known, draining>>
    BY <1>4, Zenon DEF Takes, Taken, Left
  <2>2. SplitsAt(pool, n, taken, left)
    <3>1. -lead \in Int /\ pool \in Seq(Entries)
      BY <1>1 DEF HeldInv, Holds
    <3> QED
      BY <3>1, DigestsSplit
  <2> HIDE DEF taken, left
  <2>3. /\ taken \in Seq(Proposals) /\ left \in Seq(Entries)
        /\ DigestsOf(pool) = DigestsOf(taken) \cup DigestsOf(left)
        /\ DigestsOf(taken) \cap DigestsOf(left) = {}
        /\ Apart(taken) /\ Apart(left) /\ FromOneBatch(taken) /\ FromOneBatch(left)
    BY <1>1, <2>2 DEF SplitsAt, HeldInv, Holds
  <2>4. /\ proposed \o taken \in Seq(Proposals)
        /\ DigestsOf(proposed \o taken) = DigestsOf(proposed) \cup DigestsOf(taken)
        /\ Apart(proposed \o taken) /\ FromOneBatch(proposed \o taken)
    <3>1. /\ proposed \in Seq(Proposals) /\ Apart(proposed) /\ FromOneBatch(proposed)
          /\ DigestsOf(proposed) \cap DigestsOf(taken) = {}
      BY <1>1, <2>3 DEF HeldInv, Holds
    <3> QED
      BY <2>3, <3>1, DigestsConcat
  <2> DEFINE q == proposed \o taken
  <2> HIDE DEF q
  <2>5. /\ q \in Seq(Proposals) /\ DigestsOf(q) = DigestsOf(proposed) \cup DigestsOf(taken)
        /\ Apart(q) /\ FromOneBatch(q) /\ proposed' = q
    BY <2>1, <2>4 DEF q
  <2> QED
    BY <1>1, <2>1, <2>3, <2>5 DEF HeldInv, Holds
<1>5. ASSUME NEW body \in FinalizableBodies, NEW r \in 0 .. MaxRound, ReportBlock(body, r)
      PROVE  Holds(known', pool', proposed', draining')
  <2> DEFINE aged == [i \in DOMAIN proposed |-> [proposed[i] EXCEPT !.age = @ + 1]]
  <2>1. /\ draining' = aged /\ proposed' = <<>> /\ UNCHANGED <<pool, known>>
        /\ draining = <<>>
    BY <1>5 DEF ReportBlock, MempoolInv, PhaseInv
  <2>2. /\ aged \in Seq(Proposals) /\ DigestsOf(aged) = DigestsOf(proposed)
        /\ Apart(aged) /\ FromOneBatch(aged)
    BY <1>1, DigestsAged DEF HeldInv, Holds
  <2> HIDE DEF aged
  <2>3. /\ DigestsOf(<<>>) = {} /\ Apart(<<>>) /\ FromOneBatch(<<>>) /\ <<>> \in Seq(Proposals)
    BY DEF DigestsOf, Apart, FromOneBatch
  <2> QED
    BY <1>1, <2>1, <2>2, <2>3 DEF HeldInv, Holds
<1>6. ASSUME draining # <<>>
      PROVE  /\ Tail(draining) \in Seq(Proposals) /\ Given \in Proposals
             /\ DigestsOf(draining) = Given.digests \cup DigestsOf(Tail(draining))
             /\ Apart(Tail(draining)) /\ Given.digests \cap DigestsOf(Tail(draining)) = {}
             /\ FromOneBatch(Tail(draining))
             /\ \E b \in Batches : Given.digests \subseteq Content[b]
    BY <1>1, <1>6, DigestsTail DEF HeldInv, Holds, Given
<1>7. CASE DrainKeeps
  <2> DEFINE t == Tail(draining)
             q == Append(proposed, Given)
  <2>1. draining # <<>> /\ draining' = t /\ proposed' = q /\ UNCHANGED <<pool, known>>
    BY <1>7 DEF DrainKeeps
  <2>2. Given.digests \cap DigestsOf(proposed) = {}
    BY <1>1, <1>6, <2>1 DEF HeldInv, Holds
  <2>3. q \in Seq(Proposals)
    BY <1>1, <1>6, <2>1 DEF HeldInv, Holds
  <2>4. /\ DigestsOf(q) = DigestsOf(proposed) \cup Given.digests
        /\ Apart(q) /\ FromOneBatch(q)
    BY <1>1, <1>6, <2>1, <2>2, DigestsAppend DEF HeldInv, Holds
  <2> HIDE DEF q
  <2> QED
    BY <1>1, <1>6, <2>1, <2>2, <2>3, <2>4 DEF HeldInv, Holds
<1>8. CASE DrainSettles
  <2>1. /\ draining # <<>> /\ draining' = Tail(draining) /\ UNCHANGED <<pool, proposed>>
        /\ known' = known \ Given.digests
    BY <1>8, Zenon DEF DrainSettles
  <2> QED
    BY <1>1, <1>6, <2>1 DEF HeldInv, Holds
<1> QED
    BY <1>2, <1>3, <1>4, <1>5, <1>7, <1>8, StepCases DEF MempoolInv

\* The phases of processing a block follow each other.
LEMMA PhaseStep ==
    ASSUME MempoolInv, [Next]_vars
    PROVE  PhaseInv'
<1>1. PhaseInv
    BY DEF MempoolInv
<1>2. CASE Idle
    BY <1>1, <1>2, Zenon DEF Idle, PhaseInv, Ready, NoBlock
<1>3. ASSUME NEW b \in Batches, NEW ws \in SUBSET Waiters, SubmitNew(b, ws)
      PROVE  PhaseInv'
    BY <1>1, <1>3, Zenon DEF SubmitNew, PhaseInv, Ready, NoBlock
<1>4. ASSUME NEW lead \in 1 .. Lookahead, NEW n \in 0 .. Len(pool), Takes(lead, n)
      PROVE  PhaseInv'
    BY <1>1, <1>4, Zenon DEF Takes, PhaseInv, Ready, NoBlock
<1>5. ASSUME NEW body \in FinalizableBodies, NEW r \in 0 .. MaxRound, ReportBlock(body, r)
      PROVE  PhaseInv'
    BY <1>5 DEF ReportBlock, PhaseInv, Ready, NoBlock
<1>6. CASE DrainKeeps \/ DrainSettles
    BY <1>1, <1>6, Zenon DEF DrainKeeps, DrainSettles, PhaseInv, Ready, NoBlock
<1> QED
    BY <1>2, <1>3, <1>4, <1>5, <1>6, StepCases DEF MempoolInv

-----------------------------------------------------------------------------
(* Types, and the maps keyed by batch. *)

\* What the drain settles is well-formed.
LEMMA SettleFacts ==
    ASSUME MempoolInv, draining # <<>>
    PROVE  /\ Given.digests \subseteq Digests /\ Given \in Proposals
           /\ DOMAIN OutAfter = DOMAIN outcomes \cup Given.digests
           /\ \A d \in DOMAIN OutAfter :
                  OutAfter[d] = IF d \in Hit(Given) THEN "finalized"
                                ELSE IF d \in Given.digests THEN "dropped" ELSE outcomes[d]
           /\ \A d \in DOMAIN OutAfter : OutAfter[d] \in {"finalized", "dropped"}
           /\ Hit(Given) \subseteq Given.digests
           /\ Given.digests \subseteq known
           /\ DoneNow \subseteq batchDigests
           /\ \A d \in Digests : WatchAfter[d] = watchers[d] \ DoneNow
           /\ DOMAIN Without(OutAfter, Gone) = DOMAIN OutAfter \ Gone
           /\ \A d \in DOMAIN OutAfter \ Gone : Without(OutAfter, Gone)[d] = OutAfter[d]
           /\ \A b \in DoneNow : \A d \in Content[b] : d \in DOMAIN OutAfter
<1>1. Given \in Proposals /\ Given.digests \subseteq DigestsOf(draining)
  <2>1. draining \in Seq(Proposals)
    BY DEF MempoolInv, TypeOK
  <2> QED
    BY <2>1, DigestsTail DEF Given
<1>2. Given.digests \subseteq Digests
    BY <1>1 DEF Proposals
<1>3. Given.digests \subseteq known
    BY <1>1 DEF MempoolInv, HeldOnce
<1>4. /\ DOMAIN OutAfter = DOMAIN outcomes \cup Given.digests
      /\ \A d \in DOMAIN OutAfter :
             OutAfter[d] = IF d \in Hit(Given) THEN "finalized"
                           ELSE IF d \in Given.digests THEN "dropped" ELSE outcomes[d]
    BY DEF OutAfter
<1>5. \A d \in DOMAIN OutAfter : OutAfter[d] \in {"finalized", "dropped"}
    BY <1>4 DEF MempoolInv, TypeOK
<1> QED
    BY <1>1, <1>2, <1>3, <1>4, <1>5 DEF Hit, DoneNow, WatchAfter, Without

\* Every step keeps the types.
LEMMA TypeStep ==
    ASSUME MempoolInv, [Next]_vars, poolBytes' \in Nat
    PROVE  TypeOK'
<1>1. /\ pool' \in Seq(Entries) /\ proposed' \in Seq(Proposals) /\ draining' \in Seq(Proposals)
      /\ poolBytes' \in Nat
    BY HeldStep DEF HeldInv, Holds
<1>2. TypeOK
    BY DEF MempoolInv
<1>3. CASE Idle
  <2>1. block' \in [ready : BOOLEAN, digests : SUBSET Digests]
    <3>1. NoBlock \in [ready : BOOLEAN, digests : SUBSET Digests]
      BY DEF NoBlock
    <3> QED
      BY <1>2, <1>3, <3>1 DEF Idle, TypeOK
  <2> QED
    BY <1>1, <1>2, <1>3, <2>1 DEF Idle, TypeOK
<1>4. ASSUME NEW b \in Batches, NEW ws \in SUBSET Waiters, SubmitNew(b, ws)
      PROVE  TypeOK'
  <2> DEFINE expired == Expired(b)
             watch   == [d \in Digests |->
                            (IF d \in Content[b] THEN watchers[d] \cup {b} ELSE watchers[d]) \ expired]
             gone    == Unwatched(UNION {Content[x] : x \in expired \cap batchDigests}, watch)
  <2>1. /\ statuses' = [x \in (DOMAIN statuses \cup {b}) \ expired |->
                           IF x = b THEN Accepted ELSE statuses[x]]
        /\ statusOrder' = Append(IF expired = {} THEN statusOrder ELSE Tail(statusOrder), b)
        /\ batchDigests' = (batchDigests \cup {b}) \ expired
        /\ watchers' = watch
        /\ outcomes' = Without(outcomes, gone)
        /\ waiters' = [x \in Batches |-> IF x = b THEN ws
                                         ELSE IF x \in expired THEN {} ELSE waiters[x]]
        /\ known' = known \cup Fresh(b)
        /\ forgotten' = forgotten \cup expired
        /\ b \notin DOMAIN statuses
        /\ UNCHANGED <<round, block, final>>
    BY <1>4, Zenon DEF SubmitNew, Remembered
  <2>2. expired \subseteq DOMAIN statuses /\ statusOrder' \in Seq(Batches)
    BY <2>1, ExpiredFacts, Zenon DEF MempoolInv
  <2> HIDE DEF expired, gone
  <2>3. /\ DOMAIN statuses' \subseteq Batches
        /\ \A x \in DOMAIN statuses' : statuses'[x] \in Statuses
    <3>1. Accepted \in Statuses
      BY DEF Accepted, Statuses
    <3> QED
      BY <1>2, <2>1, <2>2, <3>1 DEF TypeOK
  <2>4. batchDigests' \subseteq Batches /\ watchers' \in [Digests -> SUBSET Batches]
    BY <1>2, <2>1 DEF TypeOK
  <2>5. /\ DOMAIN outcomes' \subseteq Digests
        /\ \A d \in DOMAIN outcomes' : outcomes'[d] \in {"finalized", "dropped"}
    BY <1>2, <2>1 DEF TypeOK, Without
  <2>6. waiters' \in [Batches -> SUBSET Waiters]
    BY <1>2, <2>1 DEF TypeOK
  <2>7. known' \subseteq Digests /\ forgotten' \subseteq Batches
    BY <1>2, <2>1, <2>2, ContentAssumption DEF TypeOK, Fresh
  <2> QED
    BY <1>1, <1>2, <2>1, <2>2, <2>3, <2>4, <2>5, <2>6, <2>7, Zenon DEF TypeOK
<1>5. ASSUME NEW lead \in 1 .. Lookahead, NEW n \in 0 .. Len(pool), Takes(lead, n)
      PROVE  TypeOK'
    BY <1>1, <1>2, <1>5 DEF Takes, TypeOK
<1>6. ASSUME NEW body \in FinalizableBodies, NEW r \in 0 .. MaxRound, ReportBlock(body, r)
      PROVE  TypeOK'
  <2>1. body \subseteq Digests
    BY BodyFacts DEF MempoolInv
  <2> QED
    BY <1>1, <1>2, <1>6, <2>1 DEF ReportBlock, TypeOK
<1>7. CASE DrainKeeps
    BY <1>1, <1>2, <1>7 DEF DrainKeeps, TypeOK
<1>8. CASE DrainSettles
  <2>1. draining # <<>>
    BY <1>8 DEF DrainSettles
  <2>2. /\ DOMAIN statuses' \subseteq Batches
        /\ \A b \in DOMAIN statuses' : statuses'[b] \in Statuses
    <3>1. \A b \in Batches : Verdict(b) \in Statuses
      BY ContentAssumption DEF Verdict, Resolved, Statuses
    <3> QED
      BY <1>2, <1>8, <3>1 DEF DrainSettles, TypeOK
  <2>3. watchers' \in [Digests -> SUBSET Batches]
    BY <1>2, <1>8 DEF DrainSettles, WatchAfter, TypeOK
  <2>4. /\ DOMAIN outcomes' \subseteq Digests
        /\ \A d \in DOMAIN outcomes' : outcomes'[d] \in {"finalized", "dropped"}
    BY <1>2, <1>8, <2>1, SettleFacts DEF DrainSettles, TypeOK
  <2>5. waiters' \in [Batches -> SUBSET Waiters]
    BY <1>2, <1>8 DEF DrainSettles, TypeOK
  <2> QED
    BY <1>1, <1>2, <1>8, <2>2, <2>3, <2>4, <2>5 DEF DrainSettles, TypeOK
<1> QED
    BY <1>2, <1>3, <1>4, <1>5, <1>6, <1>7, <1>8, StepCases

\* The maps keyed by batch agree after every step.
LEMMA IndexStep ==
    ASSUME MempoolInv, [Next]_vars
    PROVE  IndexInv'
<1>1. IndexInv /\ TypeOK /\ CountInv
    BY DEF MempoolInv
<1>2. CASE Idle
  <2>1. \A b \in Batches : waiters'[b] # {} => b \in batchDigests
    BY <1>1, <1>2 DEF Idle, IndexInv
  <2>2. UNCHANGED <<statuses, statusOrder, batchDigests, watchers>>
    BY <1>2 DEF Idle
  <2> QED
    BY <1>1, <2>1, <2>2 DEF IndexInv, IsInjective, Range
<1>3. ASSUME NEW b \in Batches, NEW ws \in SUBSET Waiters, SubmitNew(b, ws)
      PROVE  IndexInv'
  <2> DEFINE expired == Expired(b)
  <2>1. /\ statuses' = [x \in (DOMAIN statuses \cup {b}) \ expired |->
                           IF x = b THEN Accepted ELSE statuses[x]]
        /\ statusOrder' = Append(IF expired = {} THEN statusOrder ELSE Tail(statusOrder), b)
        /\ batchDigests' = (batchDigests \cup {b}) \ expired
        /\ watchers' = [d \in Digests |->
                           (IF d \in Content[b] THEN watchers[d] \cup {b} ELSE watchers[d]) \ expired]
        /\ waiters' = [x \in Batches |-> IF x = b THEN ws
                                         ELSE IF x \in expired THEN {} ELSE waiters[x]]
        /\ b \notin DOMAIN statuses
    BY <1>3, Zenon DEF SubmitNew, Remembered
  <2>2. /\ expired \subseteq DOMAIN statuses
        /\ Range(statusOrder') = (DOMAIN statuses \cup {b}) \ expired
        /\ IsInjective(statusOrder') /\ Len(statusOrder') <= MaxStatus
    BY <1>1, <2>1, ExpiredFacts
  <2> HIDE DEF expired
  <2>3. batchDigests' = {x \in DOMAIN statuses' : ~statuses'[x].resolved}
    BY <1>1, <2>1, <2>2 DEF IndexInv, Accepted
  <2>4. \A d \in Digests : watchers'[d] \subseteq {x \in batchDigests' : d \in Content[x]}
    BY <1>1, <2>1 DEF IndexInv
  <2>5. \A x \in Batches : waiters'[x] # {} => x \in batchDigests'
    BY <1>1, <2>1, <2>2 DEF IndexInv
  <2> QED
    BY <2>1, <2>2, <2>3, <2>4, <2>5, Zenon DEF IndexInv, Range, IsInjective
<1>4. ASSUME UNCHANGED <<statuses, statusOrder, batchDigests, watchers, waiters>>
      PROVE  IndexInv'
    BY <1>1, <1>4 DEF IndexInv, IsInjective, Range
<1>5. CASE DrainSettles
  <2>1. draining # <<>>
    BY <1>5 DEF DrainSettles
  <2>2. DoneNow \subseteq batchDigests
    BY <2>1, SettleFacts
  <2>3. \A b \in DOMAIN statuses' : ~statuses'[b].resolved <=> b \notin DoneNow /\ ~statuses[b].resolved
    BY <1>5 DEF DrainSettles, Verdict, Resolved
  <2>4. batchDigests' = {b \in DOMAIN statuses' : ~statuses'[b].resolved}
    BY <1>1, <1>5, <2>3 DEF DrainSettles, IndexInv
  <2>5. \A d \in Digests : watchers'[d] \subseteq {b \in batchDigests' : d \in Content[b]}
    BY <1>1, <1>5 DEF DrainSettles, IndexInv, WatchAfter
  <2>6. \A b \in Batches : waiters'[b] # {} => b \in batchDigests'
    BY <1>1, <1>5 DEF DrainSettles, IndexInv
  <2>7. UNCHANGED statusOrder /\ DOMAIN statuses' = DOMAIN statuses
    BY <1>5 DEF DrainSettles
  <2>8. Range(statusOrder') = DOMAIN statuses' /\ IsInjective(statusOrder') /\ Len(statusOrder') <= MaxStatus
    BY <1>1, <2>7 DEF IndexInv, Range, IsInjective
  <2> QED
    BY <2>4, <2>5, <2>6, <2>8, Zenon DEF IndexInv, Range, IsInjective
<1> QED
    BY <1>1, <1>2, <1>3, <1>4, <1>5, StepCases DEF Takes, ReportBlock, DrainKeeps

-----------------------------------------------------------------------------
(* Who watches what. *)

\* Submitting a batch leaves none stuck and no outcome that nobody needs: a fresh
\* transaction that has an outcome is watched by a batch with other transactions.
LEMMA WatchSubmit ==
    ASSUME MempoolInv, NEW b \in Batches, NEW ws \in SUBSET Waiters, SubmitNew(b, ws)
    PROVE  NoStuckBatch' /\ WatchInv'
<1> DEFINE expired == Expired(b)
           watch   == [d \in Digests |->
                          (IF d \in Content[b] THEN watchers[d] \cup {b} ELSE watchers[d]) \ expired]
           gone    == Unwatched(UNION {Content[x] : x \in expired \cap batchDigests}, watch)
<1>1. /\ batchDigests' = (batchDigests \cup {b}) \ expired
      /\ watchers' = watch
      /\ outcomes' = Without(outcomes, gone)
      /\ known' = known \cup (Content[b] \ known)
      /\ forgotten' = forgotten \cup expired
      /\ b \notin DOMAIN statuses
    BY Zenon DEF SubmitNew, Remembered, Fresh
<1>2. /\ \A d \in Digests : watchers'[d] =
             (IF d \in Content[b] THEN watchers[d] \cup {b} ELSE watchers[d]) \ expired
      /\ \A d \in gone : watchers'[d] = {}
    BY <1>1 DEF Unwatched
<1>3. b \notin expired /\ b \notin batchDigests
    BY <1>1, ExpiredFacts, Zenon DEF MempoolInv, IndexInv
<1>4. DOMAIN outcomes' = DOMAIN outcomes \ gone
    BY <1>1 DEF Without
<1>5. /\ \A d \in Digests : watchers[d] \subseteq {x \in batchDigests : d \in Content[x]}
      /\ NoStuckBatch /\ WatchInv
      /\ DOMAIN outcomes \subseteq Digests /\ known \subseteq Digests
      /\ \A x \in Batches : Content[x] \subseteq Digests /\ Content[x] # {}
      /\ batchDigests \subseteq Batches
    BY ContentAssumption DEF MempoolInv, IndexInv, TypeOK
<1> HIDE DEF expired, watch, gone
<1>6. NoStuckBatch'
  <2> SUFFICES ASSUME NEW y \in batchDigests'
               PROVE  /\ Content[y] \subseteq known' \cup DOMAIN outcomes'
                      /\ Content[y] \cap known' # {}
                      /\ \A d \in Content[y] : y \in watchers'[d]
    BY DEF NoStuckBatch
  <2>1. CASE y = b
    BY <1>1, <1>2, <1>3, <1>5, <2>1
  <2>2. CASE y # b
    <3>1. y \in batchDigests /\ y \notin expired /\ y \in Batches
      BY <1>1, <1>5, <2>2
    <3>2. \A d \in Content[y] : y \in watchers'[d]
      BY <1>2, <1>5, <3>1 DEF NoStuckBatch
    <3>3. Content[y] \cap gone = {}
      BY <1>2, <3>2
    <3> QED
      BY <1>1, <1>4, <1>5, <3>1, <3>2, <3>3 DEF NoStuckBatch
  <2> QED
    BY <2>1, <2>2
<1>7. \A d : Abandoned(d) => Abandoned(d)'
    BY <1>1 DEF Abandoned, Contested
<1>8. ASSUME NEW d \in Digests, NEW y \in watchers[d], y \notin watchers'[d]
      PROVE  Abandoned(d)'
    BY <1>1, <1>2, <1>5, <1>8 DEF Abandoned
<1>9. ASSUME NEW d \in DOMAIN outcomes' \cup known'
      PROVE  watchers'[d] # {} \/ Abandoned(d)'
  <2>1. CASE d \in DOMAIN outcomes \cup known
    <3>1. d \in Digests /\ (watchers[d] # {} \/ Abandoned(d))
      BY <1>5, <2>1 DEF WatchInv
    <3> QED
      BY <1>7, <1>8, <3>1
  <2>2. CASE d \in Content[b]
    BY <1>2, <1>3, <1>5, <2>2
  <2> QED
    BY <1>1, <1>4, <1>9, <2>1, <2>2
<1>10. ASSUME NEW d \in DOMAIN outcomes' \cap known'
       PROVE  Abandoned(d)' \/ \E x \in watchers'[d] : Content[x] = {d}
  <2>1. d \in DOMAIN outcomes /\ d \in Digests
    BY <1>4, <1>5, <1>10
  <2>2. CASE d \in known
    <3>1. Abandoned(d) \/ \E x \in watchers[d] : Content[x] = {d}
      BY <1>5, <2>1, <2>2 DEF WatchInv
    <3> QED
      BY <1>7, <1>8, <2>1, <3>1
  <2>3. CASE d \notin known
    <3>1. d \in Content[b] /\ b \in watchers'[d]
      BY <1>1, <1>2, <1>3, <1>10, <2>1, <2>3
    <3>2. watchers[d] # {} \/ Abandoned(d)
      BY <1>5, <2>1 DEF WatchInv
    <3>3. ASSUME NEW y \in watchers[d]
          PROVE  Content[b] = {d} \/ Contested(d)
      <4>1. y \in batchDigests /\ d \in Content[y] /\ y # b /\ y \in Batches
        BY <1>3, <1>5, <2>1, <3>3
      <4>2. Content[y] # {d}
        BY <1>5, <2>3, <4>1 DEF NoStuckBatch
      <4> QED
        BY <3>1, <4>1, <4>2 DEF Contested
    <3> QED
      BY <1>7, <3>1, <3>2, <3>3 DEF Abandoned, Contested
  <2> QED
    BY <2>2, <2>3
<1> QED
    BY <1>6, <1>9, <1>10 DEF WatchInv

\* Settling a proposal resolves every batch whose last transaction it was, and
\* removes the outcomes that nobody waits for any more.
LEMMA WatchSettle ==
    ASSUME MempoolInv, DrainSettles
    PROVE  NoStuckBatch' /\ WatchInv'
<1> DEFINE G == Given.digests
<1>1. /\ batchDigests' = batchDigests \ DoneNow
      /\ known' = known \ G
      /\ forgotten' = forgotten
      /\ draining # <<>>
    BY DEF DrainSettles
<1>2. /\ \A d \in Digests : watchers'[d] = watchers[d] \ DoneNow
      /\ DOMAIN outcomes' = (DOMAIN outcomes \cup G) \ Gone
      /\ G \subseteq known /\ G \subseteq Digests
    BY <1>1, SettleFacts, Zenon DEF DrainSettles
<1>3. /\ \A d \in Digests : watchers[d] \subseteq {x \in batchDigests : d \in Content[x]}
      /\ NoStuckBatch /\ WatchInv
      /\ DOMAIN outcomes \subseteq Digests /\ known \subseteq Digests
      /\ \A x \in Batches : Content[x] \subseteq Digests /\ Content[x] # {}
      /\ batchDigests \subseteq Batches
    BY ContentAssumption DEF MempoolInv, IndexInv, TypeOK
<1>4. \A y : y \in DoneNow <=> /\ y \in batchDigests
                               /\ \E g \in G : y \in watchers[g]
                               /\ Content[y] \subseteq DOMAIN outcomes \cup G
    BY <1>1, SettleFacts DEF DoneNow, Affected
<1>5. \A d \in Digests : d \in Gone <=> /\ \E y \in DoneNow : d \in Content[y]
                                        /\ watchers'[d] = {}
    BY <1>2 DEF Gone, Unwatched, WatchAfter
<1>6. \A d \in Gone : d \in Digests
    BY <1>3, <1>4 DEF Gone, Unwatched
<1> HIDE DEF G
<1>7. NoStuckBatch'
  <2> SUFFICES ASSUME NEW b \in batchDigests'
               PROVE  /\ Content[b] \subseteq known' \cup DOMAIN outcomes'
                      /\ Content[b] \cap known' # {}
                      /\ \A d \in Content[b] : b \in watchers'[d]
    BY DEF NoStuckBatch
  <2>1. b \in batchDigests /\ b \notin DoneNow /\ b \in Batches
    BY <1>1, <1>3
  <2>2. \A d \in Content[b] : b \in watchers[d] /\ d \in Digests
    BY <1>3, <2>1 DEF NoStuckBatch
  <2>3. \A d \in Content[b] : b \in watchers'[d]
    BY <1>2, <2>1, <2>2
  <2>4. Content[b] \cap Gone = {}
    BY <1>5, <2>2, <2>3
  <2>5. Content[b] \subseteq known' \cup DOMAIN outcomes'
    BY <1>1, <1>2, <1>3, <2>1, <2>4 DEF NoStuckBatch
  <2>6. Content[b] \cap known' # {}
    <3>1. CASE Content[b] \cap G = {}
      BY <1>1, <1>3, <2>1, <3>1 DEF NoStuckBatch
    <3>2. CASE Content[b] \cap G # {}
      <4>1. PICK d \in Content[b] : d \notin DOMAIN outcomes \cup G
        BY <1>4, <2>1, <2>2, <3>2
      <4> QED
        BY <1>1, <1>3, <2>1, <4>1 DEF NoStuckBatch
    <3> QED
      BY <3>1, <3>2
  <2> QED
    BY <2>3, <2>5, <2>6
<1>8. \A d : Abandoned(d) => Abandoned(d)'
    BY <1>1 DEF Abandoned, Contested
<1>9. ASSUME NEW d \in known', d \in DOMAIN outcomes
      PROVE  Abandoned(d)' \/ \E x \in watchers'[d] : Content[x] = {d}
  <2>1. d \in known /\ d \notin G /\ d \in Digests
    BY <1>1, <1>3
  <2>2. ASSUME NEW x \in watchers[d], Content[x] = {d}
        PROVE  x \in watchers'[d]
    <3>1. \A g \in G : x \in watchers[g] => g = d
      BY <1>2, <1>3, <2>2
    <3> QED
      BY <1>2, <1>4, <2>1, <3>1
  <2> QED
    BY <1>3, <1>8, <1>9, <2>1, <2>2 DEF WatchInv
<1>10. ASSUME NEW d \in known'
       PROVE  watchers'[d] # {} \/ Abandoned(d)'
  <2>1. d \in known /\ d \notin G /\ d \in Digests
    BY <1>1, <1>3
  <2>2. ASSUME NEW y \in watchers[d], y \notin watchers'[d]
        PROVE  watchers'[d] # {} \/ Abandoned(d)'
    <3>1. y \in DoneNow /\ d \in Content[y]
      BY <1>2, <1>3, <2>1, <2>2
    <3>2. d \in DOMAIN outcomes
      BY <1>4, <2>1, <3>1
    <3> QED
      BY <1>9, <3>2
  <2> QED
    BY <1>3, <1>8, <2>1, <2>2 DEF WatchInv
<1>11. ASSUME NEW d \in DOMAIN outcomes'
       PROVE  watchers'[d] # {} \/ Abandoned(d)'
  <2>1. d \in Digests /\ d \in DOMAIN outcomes \cup known /\ d \notin Gone
    BY <1>2, <1>3, <1>11
  <2>2. ASSUME NEW y \in watchers[d], y \notin watchers'[d]
        PROVE  watchers'[d] # {}
    <3>1. y \in DoneNow /\ d \in Content[y]
      BY <1>2, <1>3, <2>1, <2>2
    <3> QED
      BY <1>5, <2>1, <3>1
  <2> QED
    BY <1>3, <1>8, <2>1, <2>2 DEF WatchInv
<1>12. \A d \in DOMAIN outcomes' \cap known' : d \in DOMAIN outcomes
    BY <1>1, <1>2
<1> QED
    BY <1>7, <1>9, <1>10, <1>11, <1>12 DEF WatchInv

\* A batch someone waits for keeps a digest that can resolve it.
LEMMA WatchStep ==
    ASSUME MempoolInv, [Next]_vars
    PROVE  NoStuckBatch' /\ WatchInv'
<1>1. ASSUME UNCHANGED <<batchDigests, watchers, outcomes, known, forgotten>>
      PROVE  NoStuckBatch' /\ WatchInv'
    BY <1>1 DEF MempoolInv, NoStuckBatch, WatchInv, Abandoned, Contested
<1>2. CASE Idle \/ DrainKeeps
    BY <1>1, <1>2 DEF Idle, DrainKeeps
<1>3. ASSUME NEW lead \in 1 .. Lookahead, NEW n \in 0 .. Len(pool), Takes(lead, n)
      PROVE  NoStuckBatch' /\ WatchInv'
    BY <1>1, <1>3 DEF Takes
<1>4. ASSUME NEW body \in FinalizableBodies, NEW r \in 0 .. MaxRound, ReportBlock(body, r)
      PROVE  NoStuckBatch' /\ WatchInv'
    BY <1>1, <1>4 DEF ReportBlock
<1> QED
    BY <1>2, <1>3, <1>4, StepCases, WatchSubmit, WatchSettle DEF MempoolInv

-----------------------------------------------------------------------------
(* Verdicts. *)

\* What is said to be included is final.
LEMMA IncludedStep ==
    ASSUME MempoolInv, [Next]_vars
    PROVE  IncludedInv'
<1>1. IncludedInv
    BY DEF MempoolInv
<1>2. CASE Idle \/ DrainKeeps
    BY <1>1, <1>2, Zenon DEF Idle, DrainKeeps, IncludedInv
<1>3. ASSUME NEW b \in Batches, NEW ws \in SUBSET Waiters, SubmitNew(b, ws)
      PROVE  IncludedInv'
  <2>1. /\ \A x \in DOMAIN statuses' :
               statuses'[x] = Accepted \/ (x \in DOMAIN statuses /\ statuses'[x] = statuses[x])
        /\ DOMAIN outcomes' \subseteq DOMAIN outcomes
        /\ \A d \in DOMAIN outcomes' : outcomes'[d] = outcomes[d]
        /\ final' = final
    BY <1>3, Zenon DEF SubmitNew, Without
  <2>2. Accepted.included = {}
    BY DEF Accepted
  <2> QED
    BY <1>1, <2>1, <2>2 DEF IncludedInv
<1>4. ASSUME NEW lead \in 1 .. Lookahead, NEW n \in 0 .. Len(pool), Takes(lead, n)
      PROVE  IncludedInv'
    BY <1>1, <1>4, Zenon DEF Takes, IncludedInv
<1>5. ASSUME NEW body \in FinalizableBodies, NEW r \in 0 .. MaxRound, ReportBlock(body, r)
      PROVE  IncludedInv'
    BY <1>1, <1>5 DEF ReportBlock, IncludedInv
<1>6. CASE DrainSettles
  <2>1. draining # <<>> /\ final' = final /\ block.digests \subseteq final
    BY <1>6 DEF DrainSettles, MempoolInv, PhaseInv
  <2>2. \A d \in DOMAIN OutAfter : OutAfter[d] = "finalized" => d \in final
    BY <1>1, <2>1, SettleFacts DEF IncludedInv, Hit
  <2>3. \A b \in DOMAIN statuses' : statuses'[b].included \subseteq final
    <3>1. \A b \in DoneNow : Verdict(b).included \subseteq final
      BY <2>1, <2>2, SettleFacts DEF Verdict, Resolved
    <3> QED
      BY <1>1, <1>6, <3>1 DEF DrainSettles, IncludedInv
  <2>4. \A d \in DOMAIN outcomes' : outcomes'[d] = "finalized" => d \in final
    BY <1>6, <2>1, <2>2, SettleFacts DEF DrainSettles
  <2> QED
    BY <2>1, <2>3, <2>4 DEF IncludedInv
<1> QED
    BY <1>2, <1>3, <1>4, <1>5, <1>6, StepCases DEF MempoolInv

\* A batch that is exclusive was so before, and its transactions are in no other.
LEMMA ExclusiveFacts ==
    ASSUME MempoolInv, NEW b \in Exclusive
    PROVE  /\ b \in Batches /\ b \notin forgotten
           /\ Content[b] \cap Shared = {} /\ Content[b] \subseteq Digests
           /\ \A x \in Batches : x # b => Content[b] \cap Content[x] = {}
           /\ Traced(b) /\ CandidateInv
BY ContentAssumption DEF Exclusive, MempoolInv, ExclusiveInv

\* A step that leaves pool, proposals and statuses alone leaves a batch traced.
LEMMA TracedIdle ==
    ASSUME MempoolInv, Idle, NEW b \in Exclusive
    PROVE  Traced(b)'
<1>1. Traced(b)
    BY ExclusiveFacts
<1>2. /\ UNCHANGED <<pool, poolBytes, proposed, statuses, statusOrder, batchDigests, watchers,
                     outcomes, known, draining, final, candidates, forgotten>>
      /\ UNCHANGED block \/ draining = <<>>
    BY DEF Idle
<1>3. CASE UNCHANGED block
    BY <1>1, <1>2, <1>3 DEF Traced, Out, Covered, DigestsOf
<1>4. CASE draining = <<>>
  <2>1. DOMAIN draining = {} /\ DigestsOf(draining) = {}
    BY <1>4 DEF DigestsOf
  <2>2. /\ DOMAIN draining' = {} /\ Content[b] \cap known' \cap final' = {}
    BY <1>1, <1>2, <2>1, Zenon DEF Traced
  <2> QED
    BY <1>1, <1>2, <2>2 DEF Traced, Out, Covered
<1> QED
    BY <1>2, <1>3, <1>4

\* A submission leaves the other batches traced, and its own starts as accepted.
LEMMA TracedSubmit ==
    ASSUME MempoolInv, NEW x \in Batches, NEW ws \in SUBSET Waiters, SubmitNew(x, ws),
           NEW b \in Exclusive, b \notin forgotten'
    PROVE  Traced(b)'
<1>1. /\ DOMAIN statuses' = (DOMAIN statuses \cup {x}) \ Expired(x)
      /\ \A y \in DOMAIN statuses' : statuses'[y] = IF y = x THEN Accepted ELSE statuses[y]
      /\ DOMAIN outcomes' \subseteq DOMAIN outcomes
      /\ \A d \in DOMAIN outcomes' : outcomes'[d] = outcomes[d]
      /\ known' = known \cup (Content[x] \ known)
      /\ forgotten' = forgotten \cup Expired(x)
      /\ x \notin DOMAIN statuses
      /\ UNCHANGED <<proposed, draining, block, final, candidates>>
    BY Zenon DEF SubmitNew, Remembered, Fresh, Without
<1>2. Traced(b) /\ b \in Batches /\ (x # b => Content[b] \cap Content[x] = {})
    BY ExclusiveFacts
<1>3. b \notin Expired(x) /\ Accepted.filtered = {}
    BY <1>1 DEF Accepted
<1>4. UNCHANGED candidates /\ \A d, age : Covered(d, age)' <=> Covered(d, age)
    BY <1>1, Zenon DEF Covered
<1>5. UNCHANGED <<draining, block, final>> /\ DigestsOf(draining)' = DigestsOf(draining)
    BY <1>1 DEF DigestsOf
<1>6. /\ \A c \in candidates' : \A d \in c.digests \cap Content[b] : Covered(d, c.age)'
      /\ \A i \in DOMAIN draining' :
             draining'[i].digests \cap block'.digests \cap Content[b] # {} => draining'[i].age >= 0
    BY <1>2, <1>4, <1>5, Zenon DEF Traced
<1>7. CASE x = b
  <2>1. b \in DOMAIN statuses' /\ statuses'[b].filtered = {}
    BY <1>1, <1>3, <1>7, Zenon
  <2>2. \A d \in Content[b] : d \notin final' /\ d \notin DOMAIN outcomes'
    BY <1>1, <1>2, <1>7, Zenon DEF Traced, Out
  <2> QED
    BY <1>6, <2>1, <2>2, Zenon DEF Traced
<1>8. CASE x # b
  <2>1. /\ b \in DOMAIN statuses' <=> b \in DOMAIN statuses
        /\ b \in DOMAIN statuses => statuses'[b] = statuses[b]
    BY <1>1, <1>3, <1>8, Zenon
  <2>2. \A d \in Content[b] : d \in known' <=> d \in known
    BY <1>1, <1>2, <1>8
  <2>3. \A d \in Content[b] : Out(d) => Out(d)'
    BY <1>1, <2>2 DEF Out
  <2>4. b \notin DOMAIN statuses' => \A d \in Content[b] : Out(d)' /\ d \notin DOMAIN outcomes'
    BY <1>1, <1>2, <2>1, <2>3, Zenon DEF Traced
  <2>5. \A d \in Content[b] \cap known' \cap final' : d \in block'.digests \cap DigestsOf(draining)'
    <3>1. \A d \in Content[b] \cap known \cap final : d \in block.digests \cap DigestsOf(draining)
      BY <1>2, Zenon DEF Traced
    <3> QED
      BY <1>5, <2>2, <3>1, Zenon
  <2>6. /\ \A d \in Content[b] \cap DOMAIN outcomes' : outcomes'[d] = "dropped" => Out(d)'
        /\ b \in DOMAIN statuses' => \A d \in statuses'[b].filtered : d \in Content[b] /\ Out(d)'
    BY <1>1, <1>2, <2>1, <2>3, Zenon DEF Traced
  <2> QED
    BY <1>6, <2>4, <2>5, <2>6, Zenon DEF Traced
<1> QED
    BY <1>7, <1>8

\* Batches taken into a proposal become candidates and stay traced.
LEMMA TracedTakes ==
    ASSUME MempoolInv, NEW lead \in 1 .. Lookahead, NEW n \in 0 .. Len(pool), Takes(lead, n)
    PROVE  CandidateInv' /\ \A b \in Exclusive : Traced(b)'
<1> DEFINE taken == Taken(pool, n, -lead)
           q == proposed \o taken
           new == [age |-> -lead, digests |-> DigestsOf(taken)]
<1>1. -lead \in Int /\ -lead <= -1
    BY BoundsAssumption
<1>2. HeldInv
    BY HeldInvMeans
<1>3. SplitsAt(pool, n, taken, Left(pool, n))
    BY <1>1, <1>2, DigestsSplit DEF HeldInv, Holds
<1>4. /\ DigestsOf(taken) = UNION {pool[i].digests : i \in 1 .. n}
      /\ DigestsOf(taken) \subseteq known
      /\ taken \in Seq(Proposals) /\ DOMAIN taken = 1 .. n
  <2>1. /\ DigestsOf(taken) = UNION {pool[i].digests : i \in 1 .. n}
        /\ DigestsOf(taken) \subseteq DigestsOf(pool)
        /\ taken \in Seq(Proposals) /\ DOMAIN taken = 1 .. n
    BY <1>3 DEF SplitsAt
  <2> QED
    BY <1>2, <2>1 DEF HeldInv, Holds
<1>5. \A i \in DOMAIN taken : taken[i].age = -lead
    BY DEF Taken
<1>6. /\ candidates' \subseteq candidates \cup {new}
      /\ proposed' = q
      /\ UNCHANGED <<statuses, outcomes, known, block, draining, final>>
    BY <1>4, Zenon DEF Takes, Taken
<1> HIDE DEF taken
<1>7. new \in Proposals /\ new.age = -lead /\ new.digests = DigestsOf(taken)
  <2>1. DigestsOf(taken) \subseteq Digests
    BY <1>4 DEF MempoolInv, TypeOK
  <2> QED
    BY <1>1, <2>1 DEF Proposals
<1>8. /\ \A i \in DOMAIN proposed : i \in DOMAIN q /\ q[i] = proposed[i]
      /\ \A i \in DOMAIN taken : Len(proposed) + i \in DOMAIN q /\ q[Len(proposed) + i] = taken[i]
  <2>1. proposed \in Seq(Proposals)
    BY <1>2 DEF HeldInv, Holds
  <2>2. /\ DOMAIN proposed \subseteq DOMAIN (proposed \o taken)
        /\ \A i \in DOMAIN proposed : (proposed \o taken)[i] = proposed[i]
        /\ \A i \in DOMAIN taken : /\ Len(proposed) + i \in DOMAIN (proposed \o taken)
                                   /\ (proposed \o taken)[Len(proposed) + i] = taken[i]
    BY <1>4, <2>1, DigestsConcat
  <2> HIDE DEF q
  <2> QED
    BY <2>2 DEF q
<1> HIDE DEF q, new
<1>9. CandidateInv'
    BY <1>1, <1>6, <1>7 DEF MempoolInv, ExclusiveInv, CandidateInv
<1>10. ASSUME NEW b \in Exclusive
       PROVE  Traced(b)'
  <2>1. Traced(b)
    BY ExclusiveFacts
  <2>2. \A d : Out(d) => Out(d)'
    BY <1>4, <1>6, <1>7 DEF Out
  <2>3. \A d, age : Covered(d, age) => Covered(d, age)'
    BY <1>6, <1>8 DEF Covered
  <2>4. \A d, age : d \in new.digests /\ age = new.age => Covered(d, age)'
    <3>1. \A d \in DigestsOf(taken) : \E i \in DOMAIN q : d \in q[i].digests /\ q[i].age = -lead
      BY <1>5, <1>8 DEF DigestsOf
    <3> QED
      BY <1>6, <1>7, <3>1, Zenon DEF Covered
  <2>5. \A c \in candidates' : \A d \in c.digests \cap Content[b] : Covered(d, c.age)'
    BY <1>6, <2>1, <2>3, <2>4 DEF Traced
  <2> QED
    BY <1>6, <2>1, <2>2, <2>5 DEF Traced, DigestsOf
<1> QED
    BY <1>9, <1>10

\* A reported block ages the proposals.  One of this validator's own transactions
\* in it comes from a proposal for this very height.
LEMMA TracedReport ==
    ASSUME MempoolInv, NEW body \in FinalizableBodies, NEW r \in 0 .. MaxRound, ReportBlock(body, r)
    PROVE  CandidateInv' /\ \A b \in Exclusive : Traced(b)'
<1> DEFINE aged == [i \in DOMAIN proposed |-> [proposed[i] EXCEPT !.age = @ + 1]]
<1>1. /\ draining' = aged /\ proposed' = <<>> /\ final' = final \cup body
      /\ block'.digests = body
      /\ candidates' = {[c EXCEPT !.age = @ + 1] : c \in {c \in candidates : c.age < -1}}
      /\ UNCHANGED <<statuses, outcomes, known>>
    BY DEF ReportBlock
<1>2. DOMAIN draining = {} /\ DigestsOf(draining) = {}
    BY DEF ReportBlock, MempoolInv, PhaseInv, DigestsOf
<1>3. /\ proposed \in Seq(Proposals) /\ Apart(proposed)
      /\ DigestsOf(proposed) \subseteq known
    BY DEF MempoolInv, TypeOK, HeldOnce
<1>4. /\ DOMAIN aged = DOMAIN proposed /\ DigestsOf(aged) = DigestsOf(proposed)
      /\ \A i \in DOMAIN proposed : /\ aged[i].digests = proposed[i].digests
                                    /\ aged[i].age = proposed[i].age + 1
    BY <1>3, DigestsAged
<1> HIDE DEF aged
<1>5. \A c \in candidates : c \in Proposals /\ c.age \in Int /\ c.age <= -1
    BY DEF MempoolInv, ExclusiveInv, CandidateInv, Proposals
<1>6. \A c \in candidates' : \E k \in candidates :
          k.age < -1 /\ c \in Proposals /\ c.age = k.age + 1 /\ c.digests = k.digests
    BY <1>1, <1>5 DEF Proposals
<1>7. CandidateInv'
    BY <1>5, <1>6 DEF CandidateInv
<1>8. ASSUME NEW b \in Exclusive
      PROVE  Traced(b)'
  <2>1. Traced(b) /\ Content[b] \cap Shared = {}
    BY ExclusiveFacts
  <2>2. \A c \in candidates : \A d \in c.digests \cap Content[b] :
            \E i \in DOMAIN proposed : d \in proposed[i].digests /\ proposed[i].age = c.age
    BY <1>2, <2>1 DEF Traced, Covered
  <2>3. \A d \in body \cap Content[b] :
            \E i \in DOMAIN proposed : d \in proposed[i].digests /\ proposed[i].age = -1
    <3>1. body \subseteq Shared \/ \E c \in candidates : c.age = -1 /\ body \subseteq c.digests
      BY BodyFacts DEF MempoolInv
    <3> QED
      BY <2>1, <2>2, <3>1, Zenon
  <2>4. body \cap Content[b] \subseteq DigestsOf(proposed)
    BY <2>3 DEF DigestsOf
  <2>5. \A d \in Content[b] : Out(d) => Out(d)'
    BY <1>1, <1>3, <1>6, <2>4 DEF Out
  <2>6. \A c \in candidates' : \A d \in c.digests \cap Content[b] : Covered(d, c.age)'
    <3> SUFFICES ASSUME NEW c \in candidates', NEW d \in c.digests \cap Content[b]
                 PROVE  \E i \in DOMAIN aged : d \in aged[i].digests /\ aged[i].age = c.age
      BY <1>1 DEF Covered
    <3>1. PICK k \in candidates : c.age = k.age + 1 /\ c.digests = k.digests
      BY <1>6
    <3>2. PICK i \in DOMAIN proposed : d \in proposed[i].digests /\ proposed[i].age = k.age
      BY <2>2, <3>1
    <3> QED
      BY <1>4, <3>1, <3>2
  <2>7. ASSUME NEW i \in DOMAIN aged, aged[i].digests \cap body \cap Content[b] # {}
        PROVE  aged[i].age >= 0
    <3>1. PICK d \in aged[i].digests \cap body \cap Content[b] : TRUE
      BY <2>7
    <3>2. PICK j \in DOMAIN proposed : d \in proposed[j].digests /\ proposed[j].age = -1
      BY <2>3, <3>1
    <3>3. i = j
      BY <1>3, <1>4, <3>1, <3>2 DEF Apart
    <3> QED
      BY <1>4, <3>2, <3>3
  <2>8. \A d \in Content[b] \cap known \cap (final \cup body) : d \in body \cap DigestsOf(aged)
    BY <1>2, <1>4, <2>1, <2>4 DEF Traced
  <2>9. DigestsOf(draining') = DigestsOf(aged)
    BY <1>1
  <2> QED
    BY <1>1, <2>1, <2>5, <2>6, <2>7, <2>8, <2>9 DEF Traced, DigestsOf
<1> QED
    BY <1>7, <1>8

\* The proposal that is kept has no transaction in the block.
LEMMA TracedKeeps ==
    ASSUME MempoolInv, DrainKeeps, NEW b \in Exclusive
    PROVE  Traced(b)'
<1> DEFINE t == Tail(draining)
           q == Append(proposed, Given)
<1>1. /\ draining' = t /\ proposed' = q /\ draining # <<>> /\ Hit(Given) = {}
      /\ UNCHANGED <<statuses, outcomes, known, block, final, candidates>>
    BY DEF DrainKeeps
<1>2. Traced(b) /\ proposed \in Seq(Proposals) /\ draining \in Seq(Proposals)
    BY ExclusiveFacts, Zenon DEF MempoolInv, TypeOK
<1>3. /\ DigestsOf(draining) = Given.digests \cup DigestsOf(t) /\ Given \in Proposals
      /\ \A i \in DOMAIN t : i + 1 \in DOMAIN draining /\ t[i] = draining[i + 1]
      /\ \A i \in DOMAIN draining :
             draining[i] = Given \/ (i - 1 \in DOMAIN t /\ t[i - 1] = draining[i])
    BY <1>1, <1>2, DigestsTail DEF Given
<1>4. /\ \A i \in DOMAIN proposed : i \in DOMAIN q /\ q[i] = proposed[i]
      /\ \E i \in DOMAIN q : q[i] = Given
  <2>1. /\ DOMAIN q = 1 .. Len(proposed) + 1 /\ q[Len(proposed) + 1] = Given
        /\ \A i \in 1 .. Len(proposed) : q[i] = proposed[i]
        /\ DOMAIN proposed = 1 .. Len(proposed) /\ Len(proposed) \in Nat
    BY <1>2, <1>3
  <2> HIDE DEF q
  <2>2. Len(proposed) + 1 \in DOMAIN q /\ DOMAIN proposed \subseteq DOMAIN q
    BY <2>1
  <2> QED
    BY <2>1, <2>2
<1> HIDE DEF t, q
<1>5. \A d, age : Covered(d, age) => Covered(d, age)'
  <2> SUFFICES ASSUME NEW d, NEW age, Covered(d, age)
               PROVE  Covered(d, age)'
    BY Zenon
  <2>1. CASE \E i \in DOMAIN proposed : d \in proposed[i].digests /\ proposed[i].age = age
    BY <1>1, <1>4, <2>1, Zenon DEF Covered
  <2>2. ASSUME NEW i \in DOMAIN draining, d \in draining[i].digests, draining[i].age = age
        PROVE  Covered(d, age)'
    BY <1>1, <1>3, <1>4, <2>2, Zenon DEF Covered
  <2> QED
    BY <2>1, <2>2, Zenon DEF Covered
<1>6. \A i \in DOMAIN t :
          t[i].digests \cap block.digests \cap Content[b] # {} => t[i].age >= 0
    BY <1>2, <1>3 DEF Traced
<1>7. \A d \in Content[b] \cap known \cap final : d \in block.digests \cap DigestsOf(t)
    BY <1>1, <1>2, <1>3 DEF Traced, Hit
<1>8. \A d : Out(d) => Out(d)'
    BY <1>1 DEF Out
<1>9. DigestsOf(draining') = DigestsOf(t)
    BY <1>1
<1> QED
    BY <1>1, <1>2, <1>5, <1>6, <1>7, <1>8, <1>9, Zenon DEF Traced, DigestsOf

\* What a settled proposal drops is nowhere else: not in the block, not in another
\* proposal, not in a block of this validator that may still finalize.
LEMMA TracedSettles ==
    ASSUME MempoolInv, DrainSettles, NEW b \in Exclusive
    PROVE  Traced(b)'
<1> DEFINE t == Tail(draining)
           G == Given.digests
<1>1. /\ draining' = t /\ draining # <<>> /\ (Hit(Given) # {} \/ TooOld(Given))
      /\ known' = known \ G
      /\ DOMAIN statuses' = DOMAIN statuses
      /\ \A x \in DOMAIN statuses : statuses'[x] = IF x \in DoneNow THEN Verdict(x) ELSE statuses[x]
      /\ outcomes' = Without(OutAfter, Gone)
      /\ UNCHANGED <<proposed, block, final, candidates>>
    BY Zenon DEF DrainSettles
<1>2. Traced(b) /\ CandidateInv /\ draining \in Seq(Proposals)
    BY ExclusiveFacts, Zenon DEF MempoolInv, TypeOK
<1>3. /\ DigestsOf(draining) = G \cup DigestsOf(t) /\ Given \in Proposals
      /\ G \cap DigestsOf(t) = {}
      /\ \E x \in Batches : G \subseteq Content[x]
      /\ 1 \in DOMAIN draining /\ draining[1] = Given
      /\ \A i \in DOMAIN t : i + 1 \in DOMAIN draining /\ t[i] = draining[i + 1]
      /\ \A i \in DOMAIN draining :
             draining[i] = Given \/ (i - 1 \in DOMAIN t /\ t[i - 1] = draining[i])
  <2>1. Apart(draining) /\ FromOneBatch(draining) /\ draining # <<>>
    BY <1>1, Zenon DEF MempoolInv, HeldOnce
  <2>2. /\ DigestsOf(draining) = G \cup DigestsOf(t) /\ Given \in Proposals
        /\ G \cap DigestsOf(t) = {}
        /\ \E x \in Batches : G \subseteq Content[x]
    BY <1>2, <2>1, DigestsTail DEF Given
  <2>3. /\ 1 \in DOMAIN draining /\ draining[1] = Given
        /\ \A i \in DOMAIN t : i + 1 \in DOMAIN draining /\ t[i] = draining[i + 1]
        /\ \A i \in DOMAIN draining :
               i = 1 \/ (i - 1 \in DOMAIN t /\ t[i - 1] = draining[i])
    BY <1>2, <2>1, DigestsTail DEF Given
  <2> QED
    BY <2>2, <2>3, Zenon
<1>4. G \cap DigestsOf(proposed) = {}
    BY <1>3, Zenon DEF MempoolInv, HeldOnce
<1>5. /\ G \subseteq known
      /\ DOMAIN outcomes' \subseteq DOMAIN OutAfter
      /\ \A d \in DOMAIN outcomes' : outcomes'[d] = OutAfter[d]
      /\ DOMAIN OutAfter = DOMAIN outcomes \cup G
      /\ \A d \in DOMAIN OutAfter :
             OutAfter[d] = IF d \in Hit(Given) THEN "finalized"
                           ELSE IF d \in G THEN "dropped" ELSE outcomes[d]
      /\ \A x \in DoneNow : Content[x] \subseteq DOMAIN OutAfter
    BY <1>1, SettleFacts, Zenon
<1> HIDE DEF t, G
<1>6. ASSUME NEW d \in G \cap Content[b]
      PROVE  Given.age >= 0
  <2>1. G \subseteq Content[b]
    BY <1>3, <1>6, ExclusiveFacts, Zenon
  <2>2. CASE Hit(Given) # {}
    BY <1>2, <1>3, <2>1, <2>2, Zenon DEF Traced, Hit, G
  <2>3. CASE TooOld(Given)
    BY <1>3, <2>3, LimitsAssumption DEF TooOld, Proposals
  <2> QED
    BY <1>1, <2>2, <2>3, Zenon
<1>7. \A c \in candidates : \A d \in c.digests \cap Content[b] :
          \/ \E i \in DOMAIN proposed : d \in proposed[i].digests /\ proposed[i].age = c.age
          \/ \E i \in DOMAIN t : d \in t[i].digests /\ t[i].age = c.age
  <2> SUFFICES ASSUME NEW c \in candidates, NEW d \in c.digests \cap Content[b],
                      NEW i \in DOMAIN draining, d \in draining[i].digests, draining[i].age = c.age
               PROVE  \E j \in DOMAIN t : d \in t[j].digests /\ t[j].age = c.age
    BY <1>2 DEF Traced, Covered
  <2>1. draining[i] # Given
    <3>1. c.age <= -1 /\ c.age \in Int
      BY <1>2 DEF CandidateInv, Proposals
    <3>2. d \in G => Given.age >= 0
      BY <1>6
    <3>3. ~(c.age >= 0)
      BY <3>1
    <3> QED
      BY <3>2, <3>3 DEF G
  <2> QED
    BY <1>3, <2>1
<1>8. \A d \in Content[b] : Out(d) => Out(d)'
    BY <1>1 DEF Out
<1>9. ASSUME NEW d \in Content[b] \cap DOMAIN OutAfter, OutAfter[d] = "dropped"
      PROVE  Out(d)'
  <2>1. CASE d \in G
    <3>1. d \notin block.digests
      BY <1>5, <1>9, <2>1 DEF Hit, G
    <3>2. d \notin final
      BY <1>2, <1>5, <2>1, <3>1, Zenon DEF Traced
    <3>3. \A c \in candidates : d \notin c.digests
      BY <1>3, <1>4, <1>7, <2>1 DEF DigestsOf
    <3> QED
      BY <1>1, <2>1, <3>2, <3>3 DEF Out
  <2>2. CASE d \notin G
    <3>1. d \in DOMAIN outcomes /\ outcomes[d] = "dropped"
      BY <1>5, <1>9, <2>2, Zenon DEF Hit, G
    <3> QED
      BY <1>2, <1>8, <3>1 DEF Traced
  <2> QED
    BY <2>1, <2>2
<1>10. b \notin DOMAIN statuses' => \A d \in Content[b] : Out(d)' /\ d \notin DOMAIN outcomes'
    BY <1>1, <1>2, <1>5, <1>8, Zenon DEF Traced, Out
<1>11. \A c \in candidates' : \A d \in c.digests \cap Content[b] : Covered(d, c.age)'
    BY <1>1, <1>7 DEF Covered
<1>12. \A i \in DOMAIN draining' :
          draining'[i].digests \cap block'.digests \cap Content[b] # {} => draining'[i].age >= 0
    BY <1>1, <1>2, <1>3 DEF Traced
<1>13. \A d \in Content[b] \cap known' \cap final' : d \in block'.digests \cap DigestsOf(draining')
    BY <1>1, <1>2, <1>3 DEF Traced
<1>14. \A d \in Content[b] \cap DOMAIN outcomes' : outcomes'[d] = "dropped" => Out(d)'
    BY <1>5, <1>9
<1>15. b \in DOMAIN statuses' => \A d \in statuses'[b].filtered : d \in Content[b] /\ Out(d)'
  <2>1. CASE b \in DoneNow
    <3>1. \A d \in Verdict(b).filtered : d \in Content[b] /\ OutAfter[d] = "dropped"
      BY DEF Verdict, Resolved
    <3> QED
      BY <1>1, <1>5, <1>9, <2>1, <3>1, Zenon
  <2>2. CASE b \notin DoneNow
    BY <1>1, <1>2, <1>8, <2>2 DEF Traced
  <2> QED
    BY <2>1, <2>2
<1> QED
    BY <1>10, <1>11, <1>12, <1>13, <1>14, <1>15 DEF Traced, DigestsOf

\* Batches that share nothing stay traced through every step.
LEMMA ExclusiveStep ==
    ASSUME MempoolInv, [Next]_vars
    PROVE  ExclusiveInv'
<1>1. CandidateInv
    BY DEF MempoolInv, ExclusiveInv
<1>2. ASSUME UNCHANGED candidates
      PROVE  CandidateInv'
    BY <1>1, <1>2 DEF CandidateInv
<1>3. CASE Idle
  <2>1. UNCHANGED <<candidates, forgotten>>
    BY <1>3, Zenon DEF Idle
  <2> QED
    BY <1>2, <1>3, <2>1, TracedIdle DEF ExclusiveInv, Exclusive
<1>4. ASSUME NEW b \in Batches, NEW ws \in SUBSET Waiters, SubmitNew(b, ws)
      PROVE  ExclusiveInv'
  <2>1. UNCHANGED candidates /\ forgotten \subseteq forgotten'
    BY <1>4, Zenon DEF SubmitNew
  <2>2. \A x \in Exclusive' : x \in Exclusive /\ x \notin forgotten'
    BY <2>1 DEF Exclusive
  <2> QED
    BY <1>2, <1>4, <2>1, <2>2, TracedSubmit DEF ExclusiveInv
<1>5. ASSUME NEW lead \in 1 .. Lookahead, NEW n \in 0 .. Len(pool), Takes(lead, n)
      PROVE  ExclusiveInv'
  <2>1. UNCHANGED forgotten
    BY <1>5, Zenon DEF Takes
  <2> QED
    BY <1>5, <2>1, TracedTakes, Zenon DEF ExclusiveInv, Exclusive
<1>6. ASSUME NEW body \in FinalizableBodies, NEW r \in 0 .. MaxRound, ReportBlock(body, r)
      PROVE  ExclusiveInv'
  <2>1. UNCHANGED forgotten
    BY <1>6 DEF ReportBlock
  <2> QED
    BY <1>6, <2>1, TracedReport DEF ExclusiveInv, Exclusive
<1>7. CASE DrainKeeps
  <2>1. UNCHANGED <<candidates, forgotten>>
    BY <1>7 DEF DrainKeeps
  <2> QED
    BY <1>2, <1>7, <2>1, TracedKeeps DEF ExclusiveInv, Exclusive
<1>8. CASE DrainSettles
  <2>1. UNCHANGED <<candidates, forgotten>>
    BY <1>8, Zenon DEF DrainSettles
  <2> QED
    BY <1>2, <1>8, <2>1, TracedSettles DEF ExclusiveInv, Exclusive
<1> QED
    BY <1>3, <1>4, <1>5, <1>6, <1>7, <1>8, StepCases DEF MempoolInv

\* An empty mempool satisfies all of the invariant but its numbers.
LEMMA InitShape ==
    ASSUME Init
    PROVE  /\ TypeOK /\ HeldOnce
           /\ FromOneBatch(pool) /\ FromOneBatch(proposed) /\ FromOneBatch(draining)
           /\ PhaseInv /\ NoStuckBatch /\ WatchInv /\ IncludedInv /\ IndexInv /\ ExclusiveInv
<1> USE DEF Init
<1>1. \A R : <<>> \in Seq(R) /\ Len(<<>>) = 0 /\ DOMAIN <<>> = {}
    OBVIOUS
<1>2. TypeOK
    BY <1>1, LimitsAssumption, BoundsAssumption DEF TypeOK, NoBlock
<1>3. HeldOnce
    BY <1>1, Zenon DEF HeldOnce, DigestsOf, Apart
<1>4. FromOneBatch(pool) /\ FromOneBatch(proposed) /\ FromOneBatch(draining)
    BY <1>1, Zenon DEF FromOneBatch
<1>5. PhaseInv /\ NoStuckBatch /\ WatchInv /\ IncludedInv
    BY Zenon DEF PhaseInv, Ready, NoStuckBatch, WatchInv, IncludedInv
<1>6. IndexInv
  <2>1. DOMAIN statuses = {} /\ Range(statusOrder) = {} /\ IsInjective(statusOrder)
    BY DEF Range, IsInjective
  <2>2. Len(statusOrder) <= MaxStatus
    BY LimitsAssumption
  <2> QED
    BY <2>1, <2>2 DEF IndexInv
<1>7. ExclusiveInv
    BY DEF ExclusiveInv, CandidateInv, Traced, Out
<1> QED
    BY <1>2, <1>3, <1>4, <1>5, <1>6, <1>7

-----------------------------------------------------------------------------
(***************************************************************************)
(* The numbers.  Finite sets and sums come from FoldLemmas, whose          *)
(* operators are the ones used here.                                       *)
(***************************************************************************)
F == INSTANCE FoldLemmas

\* The sums, the finite sets and the sizes of FoldLemmas are those of the modules
\* that Mempool extends.
LEMMA SameSum == \A f, S : F!SumFunctionOnSet(f, S) = SumFunctionOnSet(f, S)
    BY Zenon DEF F!SumFunctionOnSet, SumFunctionOnSet, F!FoldFunctionOnSet, FoldFunctionOnSet,
                 F!MapThenFoldSet, MapThenFoldSet

\* Likewise for what is finite.
LEMMA SameFinite == \A S : F!IsFiniteSet(S) <=> IsFiniteSet(S)
    BY Zenon DEF F!IsFiniteSet, IsFiniteSet

\* Likewise for the number of elements.
LEMMA SameSize == \A S : F!Cardinality(S) = Cardinality(S)
    BY Zenon DEF F!Cardinality, Cardinality

\* The numbers that come from sets, of any state whose order lists what it should.
LEMMA Counts ==
    TypeOK /\ IndexInv => CountInv
<1> SUFFICES ASSUME TypeOK, IndexInv
             PROVE  CountInv
    OBVIOUS
<1>1. ASSUME NEW b \in Batches, NEW ds \in SUBSET Content[b]
      PROVE  TotalBytes(ds) \in Nat
  <2>1. F!IsFiniteSet(ds) /\ ds \subseteq Digests
    BY ContentAssumption, F!FS_Subset, SameFinite
  <2>2. ds \in SUBSET ds /\ \A d \in ds : TxBytes[d] \in Nat
    BY <2>1, TxBytesAssumption
  <2> QED
    BY <2>1, <2>2, F!SumBasics, SameSum DEF TotalBytes
<1> DEFINE n == Len(statusOrder)
           I == 1 .. n
           R == DOMAIN statuses
<1>2. n \in Nat /\ DOMAIN statusOrder = I
    BY DEF TypeOK
<1>3. statusOrder \in F!Surjection(I, R) /\ statusOrder \in F!Injection(I, R)
  <2>1. Range(statusOrder) = R /\ Range(statusOrder) = {statusOrder[i] : i \in DOMAIN statusOrder}
    BY DEF IndexInv, Range
  <2>2. statusOrder = [i \in I |-> statusOrder[i]]
    BY <1>2 DEF TypeOK
  <2>3. statusOrder \in [I -> R] /\ \A x \in R : \E i \in I : statusOrder[i] = x
    BY <1>2, <2>1, <2>2
  <2> QED
    BY <1>2, <2>3 DEF F!Surjection, F!Injection, F!IsInjective, IsInjective, IndexInv
<1> HIDE DEF n
<1>4. F!IsFiniteSet(I) /\ F!Cardinality(I) = n
  <2>1. F!IsFiniteSet(I) /\ F!Cardinality(I) = IF 1 > n THEN 0 ELSE n - 1 + 1
    BY <1>2, F!FS_Interval
  <2>2. (IF 1 > n THEN 0 ELSE n - 1 + 1) = n
    BY <1>2
  <2> QED
    BY <2>1, <2>2
<1> HIDE DEF I, R
<1>5. F!IsFiniteSet(R) /\ F!Cardinality(R) = n
    BY <1>3, <1>4, F!FS_Surjection
<1>6. \A b \in Batches \ R : F!Cardinality(R \cup {b}) = n + 1
    BY <1>5, F!FS_AddElement
<1> QED
    BY <1>1, <1>5, <1>6, SameSize DEF CountInv, n, R

\* The pool after push_back: one entry longer, the others where they were.
LEMMA AppendEntry ==
    ASSUME NEW s \in Seq(Entries), NEW e \in Entries
    PROVE  /\ Len(Append(s, e)) = Len(s) + 1
           /\ DOMAIN Append(s, e) = 1 .. Len(s) + 1
           /\ Append(s, e)[Len(s) + 1] = e
           /\ \A i \in 1 .. Len(s) : Append(s, e)[i] = s[i]
    OBVIOUS

\* pool_bytes follows the pool and stays within max_pool_bytes.
LEMMA BytesStep ==
    ASSUME MempoolInv, [Next]_vars
    PROVE  BytesInv' /\ (poolBytes \in Nat)'
<1> DEFINE m == Len(pool)
<1>1. /\ pool \in Seq(Entries) /\ m \in Nat /\ DOMAIN pool = 1 .. m
      /\ \A i \in 1 .. m : EntryBytes[i] \in Nat /\ EntryBytes[i] = pool[i].bytes
  <2>1. pool \in Seq(Entries) /\ m \in Nat /\ DOMAIN pool = 1 .. m
    BY DEF MempoolInv, TypeOK
  <2>2. \A i \in 1 .. m : pool[i] \in Entries
    BY <2>1
  <2> QED
    BY <2>1, <2>2 DEF Entries, EntryBytes
<1>2. ASSUME UNCHANGED <<pool, poolBytes>>
      PROVE  BytesInv' /\ (poolBytes \in Nat)'
    BY <1>2, Zenon DEF MempoolInv, TypeOK, BytesInv, EntryBytes, TotalBytes
<1>3. CASE Idle \/ DrainKeeps \/ DrainSettles
    BY <1>2, <1>3, Zenon DEF Idle, DrainKeeps, DrainSettles
<1>4. CASE \E body \in FinalizableBodies, r \in 0 .. MaxRound : ReportBlock(body, r)
    BY <1>2, <1>4 DEF ReportBlock
<1>5. ASSUME NEW b \in Batches, NEW ws \in SUBSET Waiters, SubmitNew(b, ws)
      PROVE  BytesInv' /\ (poolBytes \in Nat)'
  <2> DEFINE fresh == Fresh(b)
             bytes == TotalBytes(fresh)
             e == [digests |-> fresh, bytes |-> bytes]
  <2>1. CASE fresh = {}
    <3>1. UNCHANGED <<pool, poolBytes>>
      BY <1>5, <2>1, Zenon DEF SubmitNew
    <3> QED
      BY <1>2, <3>1
  <2>2. CASE fresh # {}
    <3>1. pool' = Append(pool, e) /\ poolBytes' = poolBytes + bytes /\ HasRoom(bytes)
      BY <1>5, <2>2, Zenon DEF SubmitNew
    <3>2. fresh \subseteq Digests /\ bytes \in Nat
      BY ContentAssumption DEF Fresh, MempoolInv, CountInv
    <3>3. e \in Entries /\ e.bytes = bytes /\ e.digests = fresh
      BY <3>2 DEF Entries
    <3> HIDE DEF e, fresh, bytes
    <3>4. /\ Len(pool') = m + 1 /\ DOMAIN pool' = 1 .. m + 1 /\ pool'[m + 1] = e
          /\ \A i \in 1 .. m : pool'[i] = pool[i]
      BY <1>1, <3>1, <3>3, AppendEntry, Zenon
    <3>5. DOMAIN pool' = DOMAIN pool \cup {m + 1}
      BY <1>1, <3>4
    <3>6. EntryBytes' = [i \in DOMAIN pool' |-> pool'[i].bytes]
      BY DEF EntryBytes
    <3>7. \A i \in 1 .. m : EntryBytes[i] \in Nat /\ EntryBytes'[i] = EntryBytes[i]
      BY <1>1, <3>4, <3>5, <3>6
    <3>8. EntryBytes'[m + 1] = bytes
      BY <3>3, <3>4, <3>5, <3>6
    <3>9. SumFunctionOnSet(EntryBytes', 1 .. m + 1) = SumFunctionOnSet(EntryBytes, 1 .. m) + bytes
      <4> DEFINE f == EntryBytes
                 g == EntryBytes'
      <4>1. /\ \A i \in 1 .. m : f[i] \in Nat /\ g[i] = f[i]
            /\ g[m + 1] \in Nat /\ g[m + 1] = bytes /\ m \in Nat
        BY <1>1, <3>2, <3>7, <3>8
      <4> HIDE DEF f, g, m
      <4>2. SumFunctionOnSet(g, 1 .. m + 1) = SumFunctionOnSet(f, 1 .. m) + g[m + 1]
        BY <4>1, F!SumAppend, SameSum
      <4> QED
        BY <4>1, <4>2 DEF f, g
    <3>10. poolBytes' = SumFunctionOnSet(EntryBytes', 1 .. Len(pool'))
      <4>1. poolBytes = SumFunctionOnSet(EntryBytes, 1 .. m)
        BY DEF MempoolInv, BytesInv
      <4> QED
        BY <3>1, <3>4, <3>9, <4>1, Zenon
    <3>11. poolBytes' \in Nat /\ poolBytes' <= MaxPoolBytes
      BY <3>1, <3>2 DEF MempoolInv, TypeOK, HasRoom
    <3>12. \A i \in DOMAIN pool' : pool'[i].bytes = TotalBytes(pool'[i].digests)
      <4>1. \A i \in DOMAIN pool : pool'[i].bytes = TotalBytes(pool'[i].digests)
        BY <1>1, <3>4 DEF MempoolInv, BytesInv
      <4>2. pool'[m + 1].bytes = TotalBytes(pool'[m + 1].digests)
        BY <3>3, <3>4 DEF bytes
      <4> QED
        BY <3>5, <4>1, <4>2
    <3> QED
      BY <3>10, <3>11, <3>12 DEF BytesInv, TotalBytes
  <2> QED
    BY <2>1, <2>2
<1>6. ASSUME NEW lead \in 1 .. Lookahead, NEW n \in 0 .. m, Takes(lead, n)
      PROVE  BytesInv' /\ (poolBytes \in Nat)'
  <2>1. pool' = SubSeq(pool, n + 1, m) /\ poolBytes' = poolBytes - PrefixBytes(n)
    BY <1>6 DEF Takes
  <2>2. /\ pool' \in Seq(Entries) /\ Len(pool') = m - n
        /\ \A i \in 1 .. Len(pool') : pool'[i] = pool[n + i] /\ n + i \in DOMAIN pool
    <3>1. 0 \in Int /\ n \in 0 .. Len(pool) /\ pool' = Left(pool, n)
      BY <2>1 DEF Left
    <3>2. SplitsAt(pool, n, Taken(pool, n, 0), pool')
      BY <1>1, <3>1, DigestsSplit, Zenon
    <3> QED
      BY <3>2 DEF SplitsAt
  <2>3. DOMAIN pool' = 1 .. m - n
    BY <2>2
  <2>4. EntryBytes' = [i \in DOMAIN pool' |-> pool'[i].bytes]
    BY DEF EntryBytes
  <2>5. \A i \in 1 .. m - n : EntryBytes'[i] = EntryBytes[n + i]
    BY <2>2, <2>3, <2>4 DEF EntryBytes
  <2>6. PrefixBytes(n) = SumFunctionOnSet(EntryBytes, 1 .. n)
    BY DEF PrefixBytes, EntryBytes
  <2>7. poolBytes = SumFunctionOnSet(EntryBytes, 1 .. m) /\ poolBytes <= MaxPoolBytes
    BY DEF MempoolInv, BytesInv
  <2>8. /\ SumFunctionOnSet(EntryBytes', 1 .. m - n) \in Nat
        /\ SumFunctionOnSet(EntryBytes, 1 .. n) \in Nat
        /\ SumFunctionOnSet(EntryBytes', 1 .. m - n)
               = SumFunctionOnSet(EntryBytes, 1 .. m) - SumFunctionOnSet(EntryBytes, 1 .. n)
    <3> DEFINE f == EntryBytes
               g == EntryBytes'
    <3>1. /\ m \in Nat /\ n \in 0 .. m /\ \A i \in 1 .. m : f[i] \in Nat
          /\ \A i \in 1 .. m - n : g[i] = f[n + i]
      BY <1>1, <2>5
    <3> HIDE DEF f, g, m
    <3> DEFINE k == m - n
    <3>5. n \in Nat /\ k \in Nat /\ n + k = m
      BY <3>1
    <3>6. /\ \A i \in 1 .. n + k : f[i] \in Nat
          /\ \A i \in 1 .. k : g[i] = f[n + i]
      BY <3>1, <3>5
    <3> HIDE DEF k
    <3>7. SumFunctionOnSet(f, 1 .. n + k)
              = SumFunctionOnSet(f, 1 .. n) + SumFunctionOnSet(g, 1 .. k)
      BY <3>5, <3>6, F!SumTaken, SameSum
    <3>8. SumFunctionOnSet(f, 1 .. m)
              = SumFunctionOnSet(f, 1 .. n) + SumFunctionOnSet(g, 1 .. m - n)
      BY <3>5, <3>7, Zenon DEF k
    <3>3. SumFunctionOnSet(f, 1 .. n) \in Nat
      BY <3>1, F!SumFinite, SameSum
    <3>4. SumFunctionOnSet(g, 1 .. m - n) \in Nat
      <4>1. \A i \in 1 .. k : g[i] \in Nat
        BY <3>5, <3>6
      <4>2. SumFunctionOnSet(g, 1 .. k) \in Nat
        BY <3>5, <4>1, F!SumFinite, SameSum
      <4> QED
        BY <4>2 DEF k
    <3>9. SumFunctionOnSet(g, 1 .. m - n) = SumFunctionOnSet(f, 1 .. m) - SumFunctionOnSet(f, 1 .. n)
      BY <3>3, <3>4, <3>8
    <3> QED
      BY <3>3, <3>4, <3>9 DEF f, g
  <2>9. poolBytes' = SumFunctionOnSet(EntryBytes', 1 .. Len(pool')) /\ poolBytes' \in Nat
    BY <2>1, <2>2, <2>6, <2>7, <2>8, Zenon
  <2>10. poolBytes' <= MaxPoolBytes
    BY <2>1, <2>6, <2>7, <2>8, <2>9, LimitsAssumption DEF MempoolInv, TypeOK
  <2>11. \A i \in DOMAIN pool' : pool'[i].bytes = TotalBytes(pool'[i].digests)
    BY <2>2, <2>3 DEF MempoolInv, BytesInv
  <2> QED
    BY <2>9, <2>10, <2>11 DEF BytesInv, TotalBytes
<1> QED
    BY <1>3, <1>4, <1>5, <1>6, StepCases DEF MempoolInv

-----------------------------------------------------------------------------
(* The theorems. *)

\* The invariant holds of an empty mempool.
LEMMA MempoolInit ==
    Init => MempoolInv
<1> SUFFICES ASSUME Init
             PROVE  MempoolInv
    OBVIOUS
<1>1. BytesInv
  <2>1. SumFunctionOnSet(EntryBytes, {}) = 0
    BY F!SumBasics, F!FS_EmptySet, SameSum
  <2>2. 1 .. Len(pool) = {} /\ DOMAIN pool = {} /\ poolBytes = 0 /\ 0 <= MaxPoolBytes
    BY LimitsAssumption DEF Init
  <2> QED
    BY <2>1, <2>2 DEF BytesInv
<1>2. CountInv
    BY InitShape, Counts
<1> QED
    BY <1>1, <1>2, InitShape DEF MempoolInv

\* The invariant of the mempool actor: it holds of every reachable state, whatever
\* the batches, the pool's limits, the grace period and the history's length.
THEOREM MempoolInvariant == Spec => []MempoolInv
<1>1. MempoolInv /\ [Next]_vars => MempoolInv'
  <2> SUFFICES ASSUME MempoolInv, [Next]_vars
               PROVE  MempoolInv'
    OBVIOUS
  <2>1. BytesInv' /\ PhaseInv' /\ IndexInv' /\ IncludedInv' /\ ExclusiveInv'
    BY BytesStep, PhaseStep, IndexStep, IncludedStep, ExclusiveStep
  <2>4. TypeOK'
    BY BytesStep, TypeStep
  <2>5. CountInv'
    BY <2>1, <2>4, Counts, PTL
  <2>2. NoStuckBatch' /\ WatchInv'
    BY WatchStep
  <2>3. HeldOnce' /\ FromOneBatch(pool)' /\ FromOneBatch(proposed)' /\ FromOneBatch(draining)'
    BY HeldStep DEF HeldInv, Holds, HeldOnce
  <2> QED
    BY <2>1, <2>2, <2>3, <2>4, <2>5 DEF MempoolInv
<1> QED
    BY <1>1, MempoolInit, PTL DEF Spec

\* Every field of the actor keeps its type.
THEOREM MempoolTypeCorrect == Spec => []TypeOK
<1>1. MempoolInv => TypeOK
    BY DEF MempoolInv
<1> QED
    BY <1>1, MempoolInvariant, PTL

\* The actor holds exactly the known digests, each once, and pool_bytes is their
\* size in the pool, at most max_pool_bytes.
THEOREM PoolAccountedCorrect == Spec => []PoolAccounted
<1>1. MempoolInv => PoolAccounted
  <2> SUFFICES ASSUME MempoolInv
               PROVE  PoolAccounted
    OBVIOUS
  <2>1. KnownIsHeld
    BY HeldOnceMeansKnownIsHeld DEF MempoolInv
  <2>2. [i \in DOMAIN pool |-> TotalBytes(pool[i].digests)] = EntryBytes
    BY DEF MempoolInv, BytesInv, EntryBytes
  <2>3. SumFunction(EntryBytes) = SumFunctionOnSet(EntryBytes, DOMAIN EntryBytes)
    BY DEF SumFunction
  <2>4. DOMAIN EntryBytes = 1 .. Len(pool)
    BY DEF MempoolInv, TypeOK, EntryBytes
  <2>5. poolBytes = SumFunctionOnSet(EntryBytes, 1 .. Len(pool)) /\ poolBytes <= MaxPoolBytes
    BY DEF MempoolInv, BytesInv
  <2>6. poolBytes = SumFunction([i \in DOMAIN pool |-> TotalBytes(pool[i].digests)])
    BY <2>2, <2>3, <2>4, <2>5, Zenon
  <2> QED
    BY <2>1, <2>5, <2>6 DEF PoolAccounted
<1> QED
    BY <1>1, MempoolInvariant, PTL

\* Every unresolved batch watches all of its transactions and still holds one of
\* them, whatever was forgotten, resubmitted, finalized or dropped in between.
THEOREM NoStuckBatchCorrect == Spec => []NoStuckBatch
<1>1. MempoolInv => NoStuckBatch
    BY DEF MempoolInv
<1> QED
    BY <1>1, MempoolInvariant, PTL

\* The actor's maps keyed by batch agree, and an outcome is kept only where
\* OutcomesNeeded allows.
THEOREM IndexesAgreeCorrect == Spec => []IndexesAgree
<1>1. MempoolInv => IndexesAgree
  <2> SUFFICES ASSUME MempoolInv
               PROVE  IndexesAgree
    OBVIOUS
  <2>1. Len(statusOrder) = Cardinality(DOMAIN statuses)
    BY DEF MempoolInv, CountInv
  <2>2. OutcomesNeeded
    BY DEF MempoolInv, WatchInv, OutcomesNeeded, Abandoned
  <2> QED
    BY <2>1, <2>2 DEF MempoolInv, IndexInv, IndexesAgree
<1> QED
    BY <1>1, MempoolInvariant, PTL

\* What a status reports as included is final, and what an exclusive batch reports
\* as filtered stays out for good.
THEOREM VerdictsHoldCorrect == Spec => []VerdictsHold
<1>1. MempoolInv => VerdictsHold
  <2> SUFFICES ASSUME MempoolInv
               PROVE  VerdictsHold
    OBVIOUS
  <2>1. \A b \in DOMAIN statuses : statuses[b].included \subseteq final
    BY DEF MempoolInv, IncludedInv
  <2>2. \A b \in DOMAIN statuses \cap Exclusive : \A d \in statuses[b].filtered : Out(d)
    BY DEF MempoolInv, ExclusiveInv, Traced
  <2>3. FilteredForGood
    BY <2>2 DEF FilteredForGood, FilteredBy, Out
  <2> QED
    BY <2>1, <2>3 DEF VerdictsHold
<1> QED
    BY <1>1, MempoolInvariant, PTL

\* No step changes the verdict of a batch that stays remembered: a batch is only
\* resolved while its digests are kept, which ends with its verdict.
THEOREM VerdictsStayCorrect == Spec => VerdictsStay
<1> DEFINE Stays == \A b \in DOMAIN statuses \cap DOMAIN statuses' :
                        statuses[b].resolved => statuses'[b] = statuses[b]
<1>1. MempoolInv /\ [Next]_vars => [Stays]_vars
  <2> SUFFICES ASSUME MempoolInv, [Next]_vars
               PROVE  Stays
    OBVIOUS
  <2>1. ASSUME UNCHANGED statuses
        PROVE  Stays
    BY <2>1
  <2>2. ASSUME NEW b \in Batches, NEW ws \in SUBSET Waiters, SubmitNew(b, ws)
        PROVE  Stays
    BY <2>2, Zenon DEF SubmitNew, Remembered
  <2>3. CASE DrainSettles
    <3>1. DoneNow \subseteq batchDigests
      BY Zenon DEF DoneNow
    <3>2. \A b \in DoneNow : ~statuses[b].resolved
      BY <3>1 DEF MempoolInv, IndexInv
    <3> QED
      BY <2>3, <3>2, Zenon DEF DrainSettles
  <2> QED
    BY <2>1, <2>2, <2>3, StepCases DEF MempoolInv, Idle, Takes, ReportBlock, DrainKeeps
<1> QED
    BY <1>1, MempoolInvariant, PTL DEF Spec, VerdictsStay

=============================================================================
