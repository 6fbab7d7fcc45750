-------------------------- MODULE PublisherProofs --------------------------
(***************************************************************************)
(* Proofs about Publisher, for every number of blocks with any numbers of  *)
(* operations, every buffer and every number of crashes.                   *)
(*                                                                         *)
(* Blocks are committed out of order, but every frontier in the system is  *)
(* the end of a block; Level names it by that block's height.              *)
(***************************************************************************)
EXTENDS Publisher, WellFoundedInduction, TLAPS

\* A leaf that names no prover is given to these, one after the other.
USE SMT, Z3, Zenon

\* A set of naturals that is not empty has a least element.
LEMMA LeastNatural ==
    ASSUME NEW T, T \subseteq Nat, T # {}
    PROVE  \E n \in T : \A m \in T : n <= m
<1> DEFINE Less == {p \in Nat \X Nat : p[1] < p[2]}
<1>1. OpToRel(<, Nat) = Less
    BY Zenon DEF OpToRel
<1>2. IsWellFoundedOn(Less, Nat)
    BY <1>1, NatLessThanWellFounded, Zenon
<1>3. PICK n \in T : \A m \in T : <<m, n>> \notin Less
    BY <1>2, WFMin, Zenon
<1>4. \A m \in T : ~(m < n)
    BY <1>3, Zenon
<1> QED
    BY <1>4

\* Induction over the naturals: the numbers of T are those with the property.
LEMMA NaturalInduction ==
    ASSUME NEW T, 0 \in T, \A n \in Nat : n \in T => n + 1 \in T
    PROVE  \A n \in Nat : n \in T
<1> SUFFICES ASSUME Nat \ T # {}
             PROVE  FALSE
    OBVIOUS
<1>1. PICK n \in Nat \ T : \A m \in Nat \ T : n <= m
    BY LeastNatural, Zenon
<1>2. n # 0 /\ n - 1 \in Nat
    OBVIOUS
<1> QED
    BY <1>1, <1>2

Level(k) == IF k = 0 THEN NoFrontier ELSE Frontier(k)

\* The uploads of the blocks that follow block k, in order.
Run(s, k) == \A i \in 1 .. Len(s) : s[i] = Upload(k + i, StartOf(k + i))

\* The blocks up to k were staged, those up to i sent to the committer, those up to
\* j prepared, those up to n accepted.
QueuesInv(k, i, j, n) ==
    /\ commitQueue \in Seq(Uploads) /\ preparing \in Seq(Uploads) /\ prepareQueue \in Seq(Uploads)
    /\ i = k + Len(commitQueue) /\ j = i + Len(preparing) /\ n = j + Len(prepareQueue)
    /\ Len(preparing) <= 1
    /\ Run(commitQueue, k) /\ Run(preparing, i) /\ Run(prepareQueue, j)

IsMarked(c) == c.mark # NoFrontier

\* Staged and not yet joined, or persisted: every block above the writers' watermark.
CommitsInv(w, k) ==
    /\ commits \subseteq [height : w + 1 .. k, mark : Frontiers, done : BOOLEAN]
    /\ \A c, d \in commits : c.height = d.height => c = d
    /\ persisted \subseteq 1 .. k /\ persisted \subseteq rows
    /\ \A h \in w + 1 .. k : h \in persisted \/ \E c \in commits : c.height = h
    /\ \A c \in commits : c.height \notin persisted /\ (c.done => c.height \in rows)
    /\ pending = {h \in persisted : h > w}

\* Only the batch of the first unpublished block carries watermarks, and the Store's
\* watermark is the writers' or the one of that batch.
MarksInv(m, w) ==
    /\ \A c \in commits : IsMarked(c) =>
           c.height = w + 1 /\ c.mark = Level(w + 1) /\ (c.done => m = w + 1)
    /\ m = w \/ (m = w + 1 /\ \E c \in commits : IsMarked(c))

\* Between flushes the first unpublished block is not persisted.  A flush goes to the
\* end of what is, and no batch with watermarks is in flight with it.
FlushInv(w, k) ==
    \/ flushing = NoFrontier /\ w + 1 \notin persisted
    \/ \E f \in w + 1 .. k :
           /\ flushing = Level(f) /\ w + 1 .. f \subseteq persisted /\ f + 1 \notin persisted
           /\ \A c \in commits : ~IsMarked(c)

DrainInv(m, n) ==
    \/ drained = "running"
    \/ /\ drained = "drained" /\ closing /\ m = n
       /\ commits = {} /\ pending = {} /\ flushing = NoFrontier

UpInv(m, w, k, i, j, n) ==
    /\ published = Level(w) /\ next = Level(n) /\ w <= k
    /\ QueuesInv(k, i, j, n)
    /\ CommitsInv(w, k) /\ MarksInv(m, w) /\ FlushInv(w, k) /\ DrainInv(m, n)

DownInv ==
    /\ next = NoFrontier /\ published = NoFrontier
    /\ prepareQueue = <<>> /\ preparing = <<>> /\ commitQueue = <<>>
    /\ commits = {} /\ persisted = {} /\ pending = {} /\ flushing = NoFrontier
    /\ completed = {} /\ ~closing /\ drained = "running"

StoreInv(m) ==
    /\ storeMark = Level(m) /\ rows \subseteq Heights /\ 1 .. m \subseteq rows
    /\ completed \subseteq 1 .. m
    /\ accountMeta \in [Accounts -> 0 .. MaxHeight]
    /\ up \in BOOLEAN /\ closing \in BOOLEAN

\* The inductive invariant of the publisher.
PublisherInv ==
    \E m \in 0 .. MaxHeight :
        /\ StoreInv(m)
        /\ IF up THEN \E w, k, i, j, n \in 0 .. MaxHeight : UpInv(m, w, k, i, j, n) ELSE DownInv

-----------------------------------------------------------------------------
(* Levels *)

IsSum(g, inc, n) ==
    /\ g \in [0 .. n -> Nat \ {0}]
    /\ \A h \in 0 .. n : g[h] = inc[h] + IF h = 0 THEN 0 ELSE g[h - 1]

\* A running sum exists, so the recursive definitions of the ends define functions.
LEMMA RunningSum ==
    ASSUME NEW M \in Nat, NEW inc \in [0 .. M -> Nat \ {0}]
    PROVE  \E g : IsSum(g, inc, M)
<1> DEFINE T == {n \in Nat : n <= M => \E g : IsSum(g, inc, n)}
<1>1. 0 \in T
  <2> DEFINE g == [h \in 0 .. 0 |-> inc[h]]
  <2>1. IsSum(g, inc, 0)
    BY DEF IsSum
  <2> QED
    BY <2>1
<1>2. ASSUME NEW n \in Nat, n \in T
      PROVE  n + 1 \in T
  <2>0. SUFFICES ASSUME n + 1 <= M
                 PROVE  \E g : IsSum(g, inc, n + 1)
    OBVIOUS
  <2>1. PICK f : IsSum(f, inc, n)
    <3>1. n <= M
      BY <2>0
    <3> QED
      BY <1>2, <3>1
  <2> DEFINE g == [h \in 0 .. n + 1 |-> IF h = n + 1 THEN inc[h] + f[n] ELSE f[h]]
  <2>2. inc[n + 1] \in Nat \ {0} /\ f[n] \in Nat \ {0} /\ f \in [0 .. n -> Nat \ {0}]
    BY <2>0, <2>1 DEF IsSum
  <2>3. g \in [0 .. n + 1 -> Nat \ {0}]
    BY <2>2
  <2>4. ASSUME NEW h \in 0 .. n + 1
        PROVE  g[h] = inc[h] + IF h = 0 THEN 0 ELSE g[h - 1]
    <3>1. CASE h = n + 1
      BY <2>2, <3>1
    <3>2. CASE h # n + 1
      <4>1. h \in 0 .. n /\ (h # 0 => h - 1 \in 0 .. n /\ h - 1 # n + 1 /\ h - 1 \in 0 .. n + 1)
        BY <3>2
      <4>2. f[h] = inc[h] + IF h = 0 THEN 0 ELSE f[h - 1]
        BY <2>1, <4>1 DEF IsSum
      <4> QED
        BY <3>2, <4>1, <4>2
    <3> QED
      BY <3>1, <3>2
  <2> HIDE DEF g
  <2>5. IsSum(g, inc, n + 1)
    BY <2>3, <2>4 DEF IsSum
  <2> QED
    BY <2>5
<1> HIDE DEF T
<1>3. M \in T
    BY <1>1, <1>2, NaturalInduction, Zenon
<1> QED
    BY <1>3 DEF T

\* Ends of the logs: at least one operation per block.
Grows(end) ==
    /\ end \in [0 .. MaxHeight -> Nat \ {0}]
    /\ \A h \in Heights : end[h - 1] < end[h]

\* The ends of the state log are the sums of the operations of the blocks.
LEMMA StateEndGrows == Grows(StateEnd) /\ \A h \in Heights : StateEnd[h] = StateEnd[h - 1] + StateOps[h]
<1> DEFINE D == 0 .. MaxHeight
           Rec(g) == g = [h \in D |-> StateOps[h] + IF h = 0 THEN 0 ELSE g[h - 1]]
<1>0. /\ MaxHeight \in Nat /\ StateOps \in [D -> Nat \ {0}]
      /\ \A h \in D \ {0} : h - 1 \in D
    BY BlocksAssumption
<1>1. PICK g \in [D -> Nat \ {0}] : \A h \in D : g[h] = StateOps[h] + IF h = 0 THEN 0 ELSE g[h - 1]
    BY <1>0, RunningSum, Zenon DEF IsSum
<1>2. Rec(g)
    BY <1>1
<1>3. Rec(StateEnd)
    BY <1>2, Zenon DEF StateEnd
<1>4. \A h \in D : StateEnd[h] = StateOps[h] + IF h = 0 THEN 0 ELSE StateEnd[h - 1]
    BY <1>3, Zenon
<1> DEFINE T == {h \in Nat : h \in D => StateEnd[h] = g[h]}
<1>5. 0 \in T
    BY <1>1, <1>4, BlocksAssumption
<1>6. ASSUME NEW h \in Nat, h \in T
      PROVE  h + 1 \in T
  <2> SUFFICES ASSUME h + 1 \in D
               PROVE  StateEnd[h + 1] = g[h + 1]
    OBVIOUS
  <2>1. h \in D /\ (h + 1) - 1 = h /\ h + 1 # 0
    BY <1>0
  <2>2. StateEnd[h + 1] = StateOps[h + 1] + StateEnd[h] /\ g[h + 1] = StateOps[h + 1] + g[h]
    BY <1>1, <1>4, <2>1
  <2> QED
    BY <1>6, <2>1, <2>2
<1> HIDE DEF T
<1>7. \A h \in D : StateEnd[h] = g[h]
  <2>1. \A h \in Nat : h \in T
    BY <1>5, <1>6, NaturalInduction
  <2> QED
    BY <2>1, BlocksAssumption DEF T
<1>8. StateEnd \in [D -> Nat \ {0}]
    BY <1>1, <1>3, <1>7
<1>9. \A h \in Heights : h \in D /\ h - 1 \in D /\ h # 0
    BY BlocksAssumption DEF Heights
<1>10. ASSUME NEW h \in Heights
       PROVE  StateEnd[h] = StateEnd[h - 1] + StateOps[h] /\ StateEnd[h - 1] < StateEnd[h]
  <2>1. StateEnd[h] = StateOps[h] + StateEnd[h - 1]
    BY <1>4, <1>9
  <2>2. StateOps[h] \in Nat \ {0} /\ StateEnd[h - 1] \in Nat
    BY <1>0, <1>8, <1>9
  <2> QED
    BY <2>1, <2>2
<1> QED
    BY <1>8, <1>10 DEF Grows

\* The ends of the transaction log, after the commit of genesis.
LEMMA TransactionsEndGrows ==
    /\ Grows(TransactionsEnd) /\ TransactionsEnd[0] = 1
    /\ \A h \in Heights : TransactionsEnd[h] = TransactionsEnd[h - 1] + Body[h] + 1
<1> DEFINE D == 0 .. MaxHeight
           inc == [h \in D |-> IF h = 0 THEN 1 ELSE Body[h] + 1]
           Rec(g) == g = [h \in D |-> IF h = 0 THEN 1 ELSE g[h - 1] + Body[h] + 1]
<1>1. /\ MaxHeight \in Nat /\ inc \in [D -> Nat \ {0}]
      /\ \A h \in D \ {0} : Body[h] \in Nat /\ h - 1 \in D
    BY BlocksAssumption DEF Heights
<1>2. PICK g \in [D -> Nat \ {0}] : \A h \in D : g[h] = inc[h] + IF h = 0 THEN 0 ELSE g[h - 1]
  <2> HIDE DEF inc
  <2> QED
    BY <1>1, RunningSum, Zenon DEF IsSum
<1>3. \A h \in D : g[h] = IF h = 0 THEN 1 ELSE g[h - 1] + Body[h] + 1
    BY <1>1, <1>2
<1>4. Rec(g)
    BY <1>2, <1>3
<1>5. Rec(TransactionsEnd)
    BY <1>4, Zenon DEF TransactionsEnd
<1>6. \A h \in D : TransactionsEnd[h] = IF h = 0 THEN 1 ELSE TransactionsEnd[h - 1] + Body[h] + 1
    BY <1>5, Zenon
<1> DEFINE T == {h \in Nat : h \in D => TransactionsEnd[h] = g[h]}
<1>7. 0 \in T
    BY <1>3, <1>6
<1>8. ASSUME NEW h \in Nat, h \in T
      PROVE  h + 1 \in T
    BY <1>1, <1>3, <1>6, <1>8
<1> HIDE DEF T
<1>9. \A h \in D : TransactionsEnd[h] = g[h]
  <2>1. \A h \in Nat : h \in T
    BY <1>7, <1>8, NaturalInduction
  <2> QED
    BY <1>1, <2>1 DEF T
<1>10. TransactionsEnd \in [D -> Nat \ {0}]
    BY <1>2, <1>5, <1>9
<1>11. \A h \in Heights : h \in D /\ h - 1 \in D /\ h # 0 /\ Body[h] \in Nat
    BY BlocksAssumption DEF Heights
<1>12. \A h \in Heights : TransactionsEnd[h] = TransactionsEnd[h - 1] + Body[h] + 1
    BY <1>6, <1>11
<1>13. TransactionsEnd[0] = 1
    BY <1>1, <1>6
<1> QED
    BY <1>10, <1>11, <1>12, <1>13 DEF Grows

\* A later block ends later.
LEMMA LaterEndsLater ==
    ASSUME NEW end, Grows(end), NEW a \in 0 .. MaxHeight, NEW b \in 0 .. MaxHeight, a < b
    PROVE  end[a] < end[b]
<1> DEFINE T == {n \in Nat : n <= MaxHeight /\ a < n => end[a] < end[n]}
<1>1. MaxHeight \in Nat /\ a \in Nat /\ b \in Nat /\ b <= MaxHeight
    BY BlocksAssumption
<1>2. 0 \in T
    BY <1>1
<1>3. ASSUME NEW n \in Nat, n \in T
      PROVE  n + 1 \in T
  <2>0. SUFFICES ASSUME n + 1 <= MaxHeight, a < n + 1
                 PROVE  end[a] < end[n + 1]
    OBVIOUS
  <2>1. n + 1 \in Heights /\ (n + 1) - 1 = n /\ n \in 0 .. MaxHeight /\ n + 1 \in 0 .. MaxHeight
    BY <1>1, <2>0 DEF Heights
  <2>2. end[n] < end[n + 1]
    BY <2>1 DEF Grows
  <2>3. end[n] \in Nat /\ end[n + 1] \in Nat /\ end[a] \in Nat
    BY <2>1 DEF Grows
  <2>4. CASE a = n
    BY <2>2, <2>4
  <2>5. CASE a # n
    <3>1. a < n /\ n <= MaxHeight
      BY <1>1, <2>0, <2>5
    <3>2. end[a] < end[n]
      BY <1>3, <3>1
    <3> QED
      BY <2>2, <2>3, <3>2
  <2> QED
    BY <2>4, <2>5
<1> HIDE DEF T
<1>4. b \in T
    BY <1>1, <1>2, <1>3, NaturalInduction
<1> QED
    BY <1>1, <1>4 DEF T

\* Levels are ordered as heights are, in both logs.
LEMMA LevelOrder ==
    ASSUME NEW a \in 0 .. MaxHeight, NEW b \in 0 .. MaxHeight
    PROVE  /\ Level(a) \in [state : Nat, transactions : Nat]
           /\ a < b <=> Level(a).state < Level(b).state
           /\ a < b <=> Level(a).transactions < Level(b).transactions
           /\ Level(a) = Level(b) <=> a = b
<1>1. \A x \in 0 .. MaxHeight : x \in Nat
    BY BlocksAssumption
<1>2. ASSUME NEW x \in 0 .. MaxHeight
      PROVE  /\ Level(x) \in [state : Nat, transactions : Nat]
             /\ x # 0 => Level(x).state > 0 /\ Level(x).transactions > 0
             /\ x # 0 => Level(x).state = StateEnd[x] /\ Level(x).transactions = TransactionsEnd[x]
             /\ x = 0 => Level(x).state = 0 /\ Level(x).transactions = 0
  <2>1. StateEnd[x] \in Nat \ {0} /\ TransactionsEnd[x] \in Nat \ {0}
    BY StateEndGrows, TransactionsEndGrows DEF Grows
  <2> QED
    BY <2>1 DEF Level, Frontier, NoFrontier
<1>3. ASSUME NEW x \in 0 .. MaxHeight, NEW y \in 0 .. MaxHeight, x < y
      PROVE  Level(x).state < Level(y).state /\ Level(x).transactions < Level(y).transactions
  <2>1. StateEnd[x] < StateEnd[y] /\ TransactionsEnd[x] < TransactionsEnd[y]
    BY <1>3, LaterEndsLater, StateEndGrows, TransactionsEndGrows
  <2>2. y # 0
    BY <1>1, <1>3
  <2>3. CASE x = 0
    BY <1>2, <2>2, <2>3
  <2>4. CASE x # 0
    BY <1>2, <2>1, <2>2, <2>4
  <2> QED
    BY <2>3, <2>4
<1>4. /\ Level(a).state \in Nat /\ Level(b).state \in Nat
      /\ Level(a).transactions \in Nat /\ Level(b).transactions \in Nat
    BY <1>2
<1>5. CASE a < b
  <2>1. Level(a).state < Level(b).state /\ Level(a).transactions < Level(b).transactions
    BY <1>3, <1>5
  <2> QED
    BY <1>1, <1>2, <1>4, <1>5, <2>1
<1>6. CASE b < a
  <2>1. Level(b).state < Level(a).state /\ Level(b).transactions < Level(a).transactions
    BY <1>3, <1>6
  <2> QED
    BY <1>1, <1>2, <1>4, <1>6, <2>1
<1>7. CASE a = b
    BY <1>1, <1>2, <1>4, <1>7
<1> QED
    BY <1>1, <1>5, <1>6, <1>7

\* The frontiers of the model, as levels.
LEMMA LevelFacts ==
    /\ Level(0) = NoFrontier /\ MaxHeight \in Nat
    /\ Frontiers = {Level(k) : k \in 0 .. MaxHeight}
    /\ \A h \in Heights : /\ h \in 0 .. MaxHeight /\ h - 1 \in 0 .. MaxHeight /\ h \in Nat /\ h >= 1
                          /\ Level(h) = Frontier(h) /\ StartOf(h) = Level(h - 1)
<1>1. MaxHeight \in Nat /\ \A h \in Heights : /\ h \in 0 .. MaxHeight /\ h - 1 \in 0 .. MaxHeight
                                              /\ h \in Nat /\ h >= 1 /\ h # 0
    BY BlocksAssumption DEF Heights
<1>2. \A h \in Heights : Level(h) = Frontier(h)
    BY <1>1 DEF Level
<1>3. \A h \in Heights : StartOf(h) = Level(h - 1)
    BY <1>1 DEF Level, StartOf
<1>4. Level(0) = NoFrontier
    BY DEF Level
<1>5. \A k \in 0 .. MaxHeight : k = 0 \/ k \in Heights
    BY <1>1 DEF Heights
<1>6. Frontiers \subseteq {Level(k) : k \in 0 .. MaxHeight}
  <2>1. 0 \in 0 .. MaxHeight
    BY <1>1
  <2> QED
    BY <1>1, <1>2, <1>4, <2>1 DEF Frontiers
<1>7. {Level(k) : k \in 0 .. MaxHeight} \subseteq Frontiers
    BY <1>2, <1>4, <1>5 DEF Frontiers
<1> QED
    BY <1>1, <1>2, <1>3, <1>4, <1>6, <1>7

\* A level covers the blocks up to its height.
LEMMA LevelCovers ==
    ASSUME NEW a \in 0 .. MaxHeight, NEW h \in Heights
    PROVE  Covers(Level(a), h) <=> h <= a
<1>1. /\ h \in 0 .. MaxHeight /\ h \in Nat /\ a \in Nat
      /\ Level(h).state = StateEnd[h] /\ Level(h).transactions = TransactionsEnd[h]
    BY LevelFacts DEF Frontier
<1>2. /\ a < h <=> Level(a).state < Level(h).state
      /\ a < h <=> Level(a).transactions < Level(h).transactions
      /\ Level(a) \in [state : Nat, transactions : Nat]
      /\ Level(h) \in [state : Nat, transactions : Nat]
    BY <1>1, LevelOrder
<1>3. /\ Level(a).state \in Nat /\ Level(h).state \in Nat
      /\ Level(a).transactions \in Nat /\ Level(h).transactions \in Nat
    BY <1>2
<1> QED
    BY <1>1, <1>2, <1>3 DEF Covers

\* transaction_upload_end: the upload of a block ends at its level, for the first
\* block too, whose upload carries genesis.
LEMMA UploadEnds ==
    ASSUME NEW h \in Heights
    PROVE  /\ EndOf(Upload(h, StartOf(h))) = Level(h)
           /\ Upload(h, StartOf(h)) \in Uploads
           /\ Upload(h, StartOf(h)).height = h /\ Upload(h, StartOf(h)).start = StartOf(h)
<1> DEFINE n == StartOf(h).transactions
<1>1. /\ h \in Nat /\ h >= 1 /\ StartOf(h) = Level(h - 1) /\ Level(h) = Frontier(h)
      /\ h - 1 \in 0 .. MaxHeight
    BY LevelFacts
<1>2. StartOf(h) \in [state : Nat, transactions : Nat]
    BY <1>1, LevelOrder
<1>3. n + TransactionOpCount(n, h) = TransactionsEnd[h]
  <2>1. /\ TransactionsEnd[h] = TransactionsEnd[h - 1] + Body[h] + 1 /\ TransactionsEnd[0] = 1
        /\ TransactionsEnd[h - 1] \in Nat \ {0}
    BY <1>1, TransactionsEndGrows DEF Grows
  <2>2. Body[h] \in Nat
    BY BlocksAssumption
  <2>3. CASE h = 1
    <3>1. n = 0 /\ h - 1 = 0
      BY <2>3 DEF StartOf, NoFrontier
    <3>2. TransactionOpCount(n, h) = Body[h] + 1 + 1
      BY <3>1 DEF TransactionOpCount
    <3> QED
      BY <2>1, <2>2, <3>1, <3>2
  <2>4. CASE h # 1
    <3>1. n = TransactionsEnd[h - 1]
      BY <2>4 DEF StartOf, Frontier
    <3>2. n # 0
      BY <2>1, <3>1
    <3> HIDE DEF n
    <3>3. TransactionOpCount(n, h) = Body[h] + 1 + 0
      BY <3>2 DEF TransactionOpCount
    <3> QED
      BY <2>1, <2>2, <3>1, <3>3
  <2> QED
    BY <2>3, <2>4
<1>4. Upload(h, StartOf(h)).height = h /\ Upload(h, StartOf(h)).start = StartOf(h)
    BY DEF Upload
<1>5. Upload(h, StartOf(h)) \in Uploads
    BY <1>2 DEF Upload, Uploads
<1>6. EndOf(Upload(h, StartOf(h))) = [state |-> StateEnd[h], transactions |-> n + TransactionOpCount(n, h)]
    BY <1>4 DEF EndOf
<1> QED
    BY <1>1, <1>3, <1>4, <1>5, <1>6 DEF Frontier

-----------------------------------------------------------------------------
(* Flushes and queues *)

\* The contiguous part of a set above w.
LEMMA ContiguousEnd ==
    ASSUME NEW w \in 0 .. MaxHeight, NEW done \in SUBSET Heights
    PROVE  \E f \in w .. MaxHeight : w + 1 .. f \subseteq done /\ f + 1 \notin done
<1> DEFINE T == {x \in Nat : x > w /\ x \notin done}
<1>1. MaxHeight \in Nat /\ w \in Nat /\ w <= MaxHeight /\ MaxHeight + 1 \notin done
    BY LevelFacts DEF Heights
<1>2. MaxHeight + 1 \in T
    BY <1>1
<1>3. PICK x \in T : \A y \in T : x <= y
    BY <1>2, LeastNatural, Zenon
<1>4. x \in Nat /\ x > w /\ x \notin done /\ x <= MaxHeight + 1
    BY <1>2, <1>3
<1>5. x - 1 \in w .. MaxHeight /\ (x - 1) + 1 = x
    BY <1>1, <1>4
<1>6. w + 1 .. x - 1 \subseteq done
    BY <1>1, <1>3, <1>4
<1> QED
    BY <1>4, <1>5, <1>6

\* One log: the prefix ends where the contiguous part does.
LEMMA PrefixEnds ==
    ASSUME NEW end, Grows(end), NEW done \in SUBSET Heights,
           NEW w \in 0 .. MaxHeight, NEW f \in w .. MaxHeight,
           w + 1 .. f \subseteq done, f + 1 \notin done,
           NEW mark, mark = IF w = 0 THEN 0 ELSE end[w]
    PROVE  PrefixEnd(end, mark, done) = IF f = 0 THEN 0 ELSE end[f]
<1> DEFINE G == {g \in done : \A x \in 1 .. g : end[x] <= mark \/ x \in done}
           V == {mark} \cup {end[h] : h \in G}
           top == IF f = 0 THEN 0 ELSE end[f]
<1>1. /\ MaxHeight \in Nat /\ w \in Nat /\ f \in Nat /\ w <= f /\ f <= MaxHeight
      /\ f \in 0 .. MaxHeight
      /\ \A h \in Heights : h \in Nat /\ h >= 1 /\ h \in 0 .. MaxHeight
    BY LevelFacts
<1>2. /\ \A x \in 0 .. MaxHeight : end[x] \in Nat \ {0}
      /\ \A x, y \in 0 .. MaxHeight : x < y => end[x] < end[y]
    BY LaterEndsLater, Zenon DEF Grows
<1>3. \A x \in 1 .. MaxHeight : end[x] <= mark <=> x <= w
  <2> SUFFICES ASSUME NEW x \in 1 .. MaxHeight
               PROVE  end[x] <= mark <=> x <= w
    OBVIOUS
  <2>1. x \in 0 .. MaxHeight /\ x \in Nat /\ x >= 1 /\ end[x] \in Nat \ {0} /\ mark \in Nat
    BY <1>1, <1>2
  <2>2. CASE w = 0
    BY <2>1, <2>2
  <2>3. CASE w # 0
    <3>1. mark = end[w] /\ (x < w => end[x] < end[w]) /\ (w < x => end[w] < end[x])
      BY <1>2, <2>1, <2>3
    <3> QED
      BY <1>1, <2>1, <3>1
  <2> QED
    BY <2>2, <2>3
<1>4. top \in V
  <2>1. CASE f = w
    BY <2>1
  <2>2. CASE f # w
    <3>1. f \in w + 1 .. f /\ f # 0
      BY <1>1, <2>2
    <3>2. \A x \in 1 .. f : end[x] <= mark \/ x \in done
      <4> SUFFICES ASSUME NEW x \in 1 .. f
                   PROVE  end[x] <= mark \/ x \in done
        OBVIOUS
      <4>1. x \in 1 .. MaxHeight /\ (x <= w \/ x \in w + 1 .. f)
        BY <1>1
      <4> QED
        BY <1>3, <4>1
    <3> QED
      BY <3>1, <3>2
  <2> QED
    BY <2>1, <2>2
<1>5. \A y \in V : top >= y
  <2>1. top >= mark
    <3>1. CASE f = w
      BY <1>2, <3>1
    <3>2. CASE f # w
      BY <1>1, <1>2, <3>2
    <3> QED
      BY <3>1, <3>2
  <2>2. ASSUME NEW h \in G
        PROVE  top >= end[h]
    <3>1. h \in Heights /\ h \in Nat /\ h >= 1 /\ h \in 0 .. MaxHeight /\ h <= MaxHeight
      BY <1>1 DEF Heights
    <3>2. h <= f
      <4>1. SUFFICES ASSUME h > f
                     PROVE  FALSE
        BY <1>1, <3>1
      <4>2. f + 1 \in 1 .. h /\ f + 1 \in 1 .. MaxHeight /\ ~(f + 1 <= w)
        BY <1>1, <3>1, <4>1
      <4> QED
        BY <1>3, <4>2
    <3>3. f # 0 /\ (h < f => end[h] < end[f])
      BY <1>1, <1>2, <3>1, <3>2
    <3> QED
      BY <1>1, <1>2, <3>1, <3>2, <3>3
  <2> QED
    BY <2>1, <2>2
<1>6. \A y \in V : y \in Nat
  <2>1. mark \in Nat
    BY <1>2
  <2> QED
    BY <1>1, <1>2, <2>1
<1>7. PrefixEnd(end, mark, done) = Max(V)
    BY DEF PrefixEnd
<1> HIDE DEF V, top
<1>8. Max(V) \in V /\ \A y \in V : Max(V) >= y
    BY <1>4, <1>5 DEF Max
<1>9. Max(V) = top
    BY <1>4, <1>5, <1>6, <1>8
<1> QED
    BY <1>7, <1>9 DEF top

\* prepare_flush of both writers: they agree on the last block of the prefix.
LEMMA FlushLevel ==
    ASSUME NEW done \in SUBSET Heights, NEW w \in 0 .. MaxHeight, NEW f \in w .. MaxHeight,
           w + 1 .. f \subseteq done, f + 1 \notin done
    PROVE  PrepareFlush(Level(w), done) = Level(f)
<1>1. f \in 0 .. MaxHeight
    BY LevelFacts
<1>2. \A x \in 0 .. MaxHeight :
          /\ Level(x).state = IF x = 0 THEN 0 ELSE StateEnd[x]
          /\ Level(x).transactions = IF x = 0 THEN 0 ELSE TransactionsEnd[x]
          /\ Level(x) = [state |-> Level(x).state, transactions |-> Level(x).transactions]
    BY DEF Level, Frontier, NoFrontier
<1>3. PrefixEnd(StateEnd, Level(w).state, done) = IF f = 0 THEN 0 ELSE StateEnd[f]
    BY <1>2, PrefixEnds, StateEndGrows
<1>4. PrefixEnd(TransactionsEnd, Level(w).transactions, done) = IF f = 0 THEN 0 ELSE TransactionsEnd[f]
    BY <1>2, PrefixEnds, TransactionsEndGrows
<1> QED
    BY <1>1, <1>2, <1>3, <1>4 DEF PrepareFlush

\* Sending the next block to a queue, and taking the first one from it.
LEMMA RunAppend ==
    ASSUME NEW s \in Seq(Uploads), NEW k \in Nat, Run(s, k), NEW u \in Uploads,
           u = Upload(k + Len(s) + 1, StartOf(k + Len(s) + 1))
    PROVE  /\ Append(s, u) \in Seq(Uploads) /\ Run(Append(s, u), k)
           /\ Len(Append(s, u)) = Len(s) + 1 /\ Len(s) \in Nat
<1>1. /\ Append(s, u) \in Seq(Uploads) /\ Len(Append(s, u)) = Len(s) + 1 /\ Len(s) \in Nat
      /\ Append(s, u)[Len(s) + 1] = u
      /\ \A i \in 1 .. Len(s) : Append(s, u)[i] = s[i]
    OBVIOUS
<1>2. ASSUME NEW i \in 1 .. Len(s) + 1
      PROVE  Append(s, u)[i] = Upload(k + i, StartOf(k + i))
  <2>1. CASE i \in 1 .. Len(s)
    BY <1>1, <2>1 DEF Run
  <2>2. CASE i = Len(s) + 1
    <3>1. k + i = k + Len(s) + 1
      BY <1>1, <2>2
    <3> QED
      BY <1>1, <2>2, <3>1
  <2> QED
    BY <1>1, <2>1, <2>2
<1> QED
    BY <1>1, <1>2 DEF Run

\* The first of a run of uploads is the next block, and the rest go on from it.
LEMMA RunTail ==
    ASSUME NEW s \in Seq(Uploads), NEW k \in Nat, Run(s, k), s # <<>>
    PROVE  /\ Head(s) = Upload(k + 1, StartOf(k + 1)) /\ Head(s) \in Uploads
           /\ Tail(s) \in Seq(Uploads) /\ Run(Tail(s), k + 1)
           /\ Len(s) \in Nat /\ Len(Tail(s)) \in Nat /\ Len(s) = Len(Tail(s)) + 1
<1>1. /\ Tail(s) \in Seq(Uploads) /\ Len(Tail(s)) = Len(s) - 1 /\ Len(s) \in Nat
      /\ \A i \in 1 .. Len(Tail(s)) : Tail(s)[i] = s[i + 1]
    OBVIOUS
<1>2. Len(s) >= 1 /\ Head(s) = s[1] /\ Head(s) \in Uploads
    OBVIOUS
<1>3. Head(s) = Upload(k + 1, StartOf(k + 1))
    BY <1>1, <1>2 DEF Run
<1>4. ASSUME NEW i \in 1 .. Len(Tail(s))
      PROVE  Tail(s)[i] = Upload((k + 1) + i, StartOf((k + 1) + i))
  <2>1. i + 1 \in 1 .. Len(s) /\ (k + 1) + i = k + (i + 1)
    BY <1>1
  <2> QED
    BY <1>1, <2>1 DEF Run
<1>5. Len(Tail(s)) \in Nat /\ Len(s) = Len(Tail(s)) + 1
    BY <1>1, <1>2
<1> QED
    BY <1>1, <1>2, <1>3, <1>4, <1>5 DEF Run

-----------------------------------------------------------------------------
(* The steps of a connected publisher *)

Connected(m, w, k, i, j, n) ==
    /\ m \in 0 .. MaxHeight /\ w \in 0 .. MaxHeight /\ k \in 0 .. MaxHeight
    /\ i \in 0 .. MaxHeight /\ j \in 0 .. MaxHeight /\ n \in 0 .. MaxHeight
    /\ up /\ StoreInv(m) /\ UpInv(m, w, k, i, j, n)

\* The watermark of the Store did not move back, and the writers' cursor stayed.
StaysConnected(m, n) ==
    \E b, w, k, i, j \in 0 .. MaxHeight : m <= b /\ Connected(b, w, k, i, j, n)'

\* The heights in their order.
LEMMA ConnectedOrder ==
    ASSUME NEW m, NEW w, NEW k, NEW i, NEW j, NEW n, Connected(m, w, k, i, j, n)
    PROVE  /\ m \in Nat /\ w \in Nat /\ k \in Nat /\ i \in Nat /\ j \in Nat /\ n \in Nat
           /\ w <= m /\ m <= k /\ k <= i /\ i <= j /\ j <= n /\ n <= MaxHeight /\ MaxHeight \in Nat
           /\ m <= w + 1
           /\ Len(commitQueue) \in Nat /\ Len(preparing) \in Nat /\ Len(prepareQueue) \in Nat
<1>1. MaxHeight \in Nat /\ m \in 0 .. MaxHeight /\ w \in 0 .. MaxHeight /\ k \in 0 .. MaxHeight
      /\ i \in 0 .. MaxHeight /\ j \in 0 .. MaxHeight /\ n \in 0 .. MaxHeight
    BY LevelFacts DEF Connected
<1>2. /\ Len(commitQueue) \in Nat /\ Len(preparing) \in Nat /\ Len(prepareQueue) \in Nat
      /\ i = k + Len(commitQueue) /\ j = i + Len(preparing) /\ n = j + Len(prepareQueue)
    BY DEF Connected, UpInv, QueuesInv
<1>3. w <= m /\ m <= k /\ m <= w + 1
  <2>1. w <= k
    BY DEF Connected, UpInv
  <2>2. CASE m = w
    BY <1>1, <2>1, <2>2
  <2>3. CASE m # w
    <3>1. PICK c \in commits : m = w + 1 /\ IsMarked(c)
      BY <2>3 DEF Connected, UpInv, MarksInv
    <3>2. c.height \in w + 1 .. k /\ c.height = w + 1
      BY <3>1 DEF Connected, UpInv, MarksInv, CommitsInv
    <3> QED
      BY <1>1, <3>1, <3>2
  <2> QED
    BY <2>2, <2>3
<1> QED
    BY <1>1, <1>2, <1>3

\* While the committer is not touched, only the queues matter.
LEMMA QueueStep ==
    ASSUME NEW m, NEW w, NEW k, NEW i, NEW j, NEW n, Connected(m, w, k, i, j, n),
           NEW a \in 0 .. MaxHeight, NEW b \in 0 .. MaxHeight, QueuesInv(k, a, b, n)',
           UNCHANGED <<store, up, next, committer, completed, closing>>
    PROVE  StaysConnected(m, n)
<1>1. /\ UNCHANGED <<rows, storeMark, accountMeta, up, next, completed, closing>>
      /\ UNCHANGED <<commits, persisted, published, pending, flushing, drained>>
    BY DEF store, committer
<1>2. StoreInv(m)'
    BY <1>1 DEF Connected, StoreInv
<1>3. CommitsInv(w, k)' /\ MarksInv(m, w)' /\ FlushInv(w, k)' /\ DrainInv(m, n)'
    BY <1>1 DEF Connected, UpInv, CommitsInv, MarksInv, FlushInv, DrainInv, IsMarked
<1>4. Connected(m, w, k, a, b, n)'
    BY <1>1, <1>2, <1>3 DEF Connected, UpInv
<1>5. m <= m
    BY ConnectedOrder
<1> QED
    BY <1>4, <1>5 DEF StaysConnected, Connected

\* The preparer takes the first upload.
LEMMA PrepareStep ==
    ASSUME NEW m, NEW w, NEW k, NEW i, NEW j, NEW n, Connected(m, w, k, i, j, n),
           PrepareQmdbUpload
    PROVE  StaysConnected(m, n)
<1> DEFINE u == Head(prepareQueue)
<1>1. /\ prepareQueue # <<>> /\ preparing = <<>> /\ preparing' = <<u>>
      /\ prepareQueue' = Tail(prepareQueue) /\ commitQueue' = commitQueue
      /\ UNCHANGED <<store, up, next, committer, completed, closing>>
    BY DEF PrepareQmdbUpload
<1>2. /\ i = k + Len(commitQueue) /\ j = i + Len(preparing) /\ n = j + Len(prepareQueue)
      /\ commitQueue \in Seq(Uploads) /\ prepareQueue \in Seq(Uploads)
      /\ Run(commitQueue, k) /\ Run(prepareQueue, j)
    BY DEF Connected, UpInv, QueuesInv
<1>3. /\ i \in Nat /\ j \in Nat /\ n \in Nat /\ n <= MaxHeight /\ MaxHeight \in Nat
    BY ConnectedOrder
<1>4. j = i
    BY <1>1, <1>2, <1>3
<1>5. /\ u = Upload(i + 1, StartOf(i + 1)) /\ u \in Uploads
      /\ Tail(prepareQueue) \in Seq(Uploads) /\ Run(Tail(prepareQueue), i + 1)
      /\ Len(prepareQueue) \in Nat /\ Len(Tail(prepareQueue)) \in Nat
      /\ Len(prepareQueue) = Len(Tail(prepareQueue)) + 1
    BY <1>1, <1>2, <1>3, <1>4, RunTail
<1> HIDE DEF u
<1>6. <<u>> \in Seq(Uploads) /\ Len(<<u>>) = 1 /\ Run(<<u>>, i)
    BY <1>3, <1>5 DEF Run
<1>7. n = (i + 1) + Len(Tail(prepareQueue)) /\ i + 1 \in 0 .. MaxHeight
  <2>1. PICK x \in Nat : x = Len(Tail(prepareQueue))
    BY <1>5, Zenon
  <2>2. n = i + (x + 1)
    BY <1>2, <1>4, <1>5, <2>1
  <2>3. n = (i + 1) + x /\ i + 1 \in 0 .. MaxHeight
    BY <1>3, <2>2
  <2> QED
    BY <2>1, <2>3
<1>8. QueuesInv(k, i, i + 1, n)'
  <2>1. PICK x : x = i + 1
    OBVIOUS
  <2>2. QueuesInv(k, i, x, n)'
    BY <1>1, <1>2, <1>5, <1>6, <1>7, <2>1 DEF QueuesInv, Run
  <2> QED
    BY <2>1, <2>2
<1>9. i \in 0 .. MaxHeight
    BY DEF Connected
<1> QED
    BY <1>1, <1>7, <1>8, <1>9, QueueStep

\* The preparer passes it on.
LEMMA SendStep ==
    ASSUME NEW m, NEW w, NEW k, NEW i, NEW j, NEW n, Connected(m, w, k, i, j, n),
           SendPrepared
    PROVE  StaysConnected(m, n)
<1> DEFINE u == Head(preparing)
<1>1. /\ preparing # <<>> /\ preparing' = <<>>
      /\ prepareQueue' = prepareQueue /\ commitQueue' = Append(commitQueue, u)
      /\ UNCHANGED <<store, up, next, committer, completed, closing>>
    BY DEF SendPrepared
<1>2. /\ i = k + Len(commitQueue) /\ j = i + Len(preparing) /\ n = j + Len(prepareQueue)
      /\ commitQueue \in Seq(Uploads) /\ prepareQueue \in Seq(Uploads)
      /\ preparing \in Seq(Uploads) /\ Len(preparing) <= 1
      /\ Run(commitQueue, k) /\ Run(prepareQueue, j) /\ Run(preparing, i)
    BY DEF Connected, UpInv, QueuesInv
<1>3. /\ k \in Nat /\ i \in Nat /\ j \in Nat /\ n \in Nat /\ n <= MaxHeight /\ MaxHeight \in Nat
    BY ConnectedOrder
<1>4. /\ u = Upload(i + 1, StartOf(i + 1)) /\ u \in Uploads
      /\ Len(preparing) \in Nat /\ Len(Tail(preparing)) \in Nat
      /\ Len(preparing) = Len(Tail(preparing)) + 1
    BY <1>1, <1>2, <1>3, RunTail
<1>5. j = i + 1
  <2>1. PICK x \in Nat : x = Len(Tail(preparing))
    BY <1>4
  <2>2. PICK y \in Nat : y = Len(preparing)
    BY <1>4
  <2>3. y = x + 1 /\ y <= 1 /\ j = i + y
    BY <1>2, <1>4, <2>1, <2>2
  <2> QED
    BY <1>3, <2>3
<1> HIDE DEF u
<1>6. u = Upload(k + Len(commitQueue) + 1, StartOf(k + Len(commitQueue) + 1))
    BY <1>2, <1>4
<1>7. /\ Append(commitQueue, u) \in Seq(Uploads) /\ Run(Append(commitQueue, u), k)
      /\ Len(Append(commitQueue, u)) = Len(commitQueue) + 1 /\ Len(commitQueue) \in Nat
    BY <1>2, <1>3, <1>4, <1>6, RunAppend
<1>8. j = k + Len(Append(commitQueue, u)) /\ j = j + 0
    BY <1>2, <1>3, <1>5, <1>7
<1>9. preparing' \in Seq(Uploads) /\ Len(preparing') = 0 /\ Run(preparing', j)
    BY <1>1 DEF Run
<1>10. QueuesInv(k, j, j, n)'
    BY <1>1, <1>2, <1>7, <1>8, <1>9 DEF QueuesInv, Run
<1>11. j \in 0 .. MaxHeight
    BY DEF Connected
<1> QED
    BY <1>1, <1>10, <1>11, QueueStep

\* stage_and_spawn_commit: with no other batch in flight the block is the first one
\* unpublished, and its batch carries its own level.
LEMMA StageMark ==
    ASSUME NEW m, NEW w, NEW k, NEW i, NEW j, NEW n, Connected(m, w, k, i, j, n),
           flushing = NoFrontier, k + 1 \in Heights
    PROVE  /\ InlineMark(k + 1) \in Frontiers
           /\ InlineMark(k + 1) # NoFrontier =>
                  k = w /\ m = w /\ InlineMark(k + 1) = Level(w + 1)
<1>1. /\ m \in Nat /\ w \in Nat /\ k \in Nat /\ w <= m /\ m <= k /\ k + 1 <= MaxHeight
      /\ MaxHeight \in Nat /\ w \in 0 .. MaxHeight
  <2>1. /\ m \in Nat /\ w \in Nat /\ k \in Nat /\ w <= m /\ m <= k /\ MaxHeight \in Nat
    BY ConnectedOrder
  <2>2. k + 1 <= MaxHeight
    BY <2>1 DEF Heights
  <2> QED
    BY <2>1, <2>2 DEF Connected
<1>2. CASE commits # {}
  <2>1. InlineMark(k + 1) = NoFrontier
    BY <1>2 DEF InlineMark
  <2> QED
    BY <2>1 DEF Frontiers
<1>3. CASE commits = {}
  <2>1. persisted \subseteq 1 .. k /\ \A h \in w + 1 .. k : h \in persisted
    BY <1>3 DEF Connected, UpInv, CommitsInv
  <2>2. w + 1 \notin persisted
    <3>1. \/ w + 1 \notin persisted
          \/ \E f \in w + 1 .. k : flushing = Level(f)
      BY DEF Connected, UpInv, FlushInv
    <3>2. \A f \in w + 1 .. k : Level(f) # NoFrontier
      <4> SUFFICES ASSUME NEW f \in w + 1 .. k
                   PROVE  Level(f) # NoFrontier
        OBVIOUS
      <4>1. f \in 0 .. MaxHeight /\ 0 \in 0 .. MaxHeight /\ f # 0
        BY <1>1
      <4> QED
        BY <4>1, LevelOrder, LevelFacts
    <3> QED
      BY <3>1, <3>2
  <2>3. k = w /\ m = w
    BY <1>1, <2>1, <2>2
  <2>4. persisted \cup {k + 1} \in SUBSET Heights
    BY <1>1, <2>1 DEF Heights
  <2>5. /\ w + 1 \in w .. MaxHeight /\ w + 1 .. w + 1 \subseteq persisted \cup {k + 1}
        /\ (w + 1) + 1 \notin persisted \cup {k + 1}
    BY <1>1, <2>1, <2>3
  <2>6. PrepareFlush(Level(w), persisted \cup {k + 1}) = Level(w + 1)
    BY <1>1, <2>4, <2>5, FlushLevel
  <2>7. InlineMark(k + 1) = Level(w + 1)
    BY <1>3, <2>6 DEF InlineMark, Connected, UpInv
  <2>8. Level(w + 1) \in Frontiers
    BY <1>1, <2>5, LevelFacts
  <2> QED
    BY <2>3, <2>7, <2>8
<1> QED
    BY <1>2, <1>3

\* stage_and_spawn_commit: the next block in order gets a batch of its own.
LEMMA StageStep ==
    ASSUME NEW m, NEW w, NEW k, NEW i, NEW j, NEW n, Connected(m, w, k, i, j, n),
           StageAndSpawnCommit
    PROVE  StaysConnected(m, n)
<1> DEFINE h == k + 1
           new == [height |-> h, mark |-> InlineMark(h), done |-> FALSE]
<1>1. /\ flushing = NoFrontier /\ drained = "running" /\ commitQueue # <<>>
      /\ commitQueue' = Tail(commitQueue)
      /\ commits' = commits \cup
             {[height |-> Head(commitQueue).height, mark |-> InlineMark(Head(commitQueue).height),
               done |-> FALSE]}
      /\ UNCHANGED <<store, up, next, prepareQueue, preparing, persisted, published, pending,
                     flushing, completed, closing, drained>>
    BY DEF StageAndSpawnCommit, CommitterIdle
<1>2. /\ i = k + Len(commitQueue) /\ j = i + Len(preparing) /\ n = j + Len(prepareQueue)
      /\ commitQueue \in Seq(Uploads) /\ Run(commitQueue, k)
    BY DEF Connected, UpInv, QueuesInv
<1>3. /\ m \in Nat /\ w \in Nat /\ k \in Nat /\ i \in Nat /\ w <= k /\ i <= MaxHeight /\ MaxHeight \in Nat
    BY ConnectedOrder
<1>4. /\ Head(commitQueue) = Upload(k + 1, StartOf(k + 1))
      /\ Tail(commitQueue) \in Seq(Uploads) /\ Run(Tail(commitQueue), k + 1)
      /\ Len(Tail(commitQueue)) \in Nat /\ Len(commitQueue) = Len(Tail(commitQueue)) + 1
    BY <1>1, <1>2, <1>3, RunTail
<1>5. i = h + Len(Tail(commitQueue)) /\ h \in 0 .. MaxHeight /\ h \in Heights /\ h \in Nat
  <2>1. PICK x \in Nat : x = Len(Tail(commitQueue))
    BY <1>4, Zenon
  <2>2. i = k + (x + 1)
    BY <1>2, <1>4, <2>1
  <2>3. i = (k + 1) + x /\ k + 1 \in 0 .. MaxHeight /\ k + 1 \in Heights
    BY <1>3, <2>2 DEF Heights
  <2> QED
    BY <1>3, <2>1, <2>3
<1>6. Head(commitQueue).height = h
    BY <1>4 DEF Upload
<1>7. commits' = commits \cup {new}
    BY <1>1, <1>6
<1>8. /\ InlineMark(h) \in Frontiers
      /\ InlineMark(h) # NoFrontier => k = w /\ m = w /\ InlineMark(h) = Level(w + 1)
    BY <1>1, <1>5, StageMark
<1>9. new.height = h /\ new.mark = InlineMark(h) /\ new.done = FALSE
    OBVIOUS
<1>10. /\ UNCHANGED <<rows, storeMark, accountMeta, up, next, completed, closing>>
       /\ UNCHANGED <<prepareQueue, preparing, persisted, published, pending, flushing, drained>>
    BY <1>1 DEF store
<1>11. QueuesInv(h, i, j, n)'
  <2>1. /\ preparing \in Seq(Uploads) /\ prepareQueue \in Seq(Uploads) /\ Len(preparing) <= 1
        /\ Run(preparing, i) /\ Run(prepareQueue, j)
    BY DEF Connected, UpInv, QueuesInv
  <2>2. /\ commitQueue' \in Seq(Uploads) /\ Run(commitQueue', h) /\ i = h + Len(commitQueue')
    BY <1>1, <1>4, <1>5
  <2> HIDE DEF h
  <2>3. /\ Run(commitQueue', h) /\ Run(preparing', i) /\ Run(prepareQueue', j)
        /\ i = h + Len(commitQueue') /\ j = i + Len(preparing') /\ n = j + Len(prepareQueue')
        /\ commitQueue' \in Seq(Uploads) /\ preparing' \in Seq(Uploads)
        /\ prepareQueue' \in Seq(Uploads) /\ Len(preparing') <= 1
    BY <1>2, <1>10, <2>1, <2>2
  <2> QED
    BY <2>3 DEF QueuesInv, Run
<1>12. /\ commits \subseteq [height : w + 1 .. k, mark : Frontiers, done : BOOLEAN]
       /\ \A c, d \in commits : c.height = d.height => c = d
       /\ persisted \subseteq 1 .. k /\ persisted \subseteq rows
       /\ \A x \in w + 1 .. k : x \in persisted \/ \E c \in commits : c.height = x
       /\ \A c \in commits : c.height \notin persisted /\ (c.done => c.height \in rows)
       /\ pending = {x \in persisted : x > w}
    BY DEF Connected, UpInv, CommitsInv
<1> HIDE DEF new
<1>13. CommitsInv(w, h)'
  <2>1. h \notin persisted /\ \A c \in commits : c.height # h
    BY <1>3, <1>12
  <2>2. w + 1 .. k \subseteq w + 1 .. h /\ h \in w + 1 .. h /\ 1 .. k \subseteq 1 .. h
        /\ w + 1 .. h = (w + 1 .. k) \cup {h}
    BY <1>3
  <2>3. new \in [height : w + 1 .. h, mark : Frontiers, done : BOOLEAN]
    BY <1>8, <2>2 DEF new
  <2> HIDE DEF h
  <2>4. commits' \subseteq [height : w + 1 .. h, mark : Frontiers, done : BOOLEAN]
    BY <1>7, <1>12, <2>2, <2>3
  <2>5. \A c, d \in commits' : c.height = d.height => c = d
    BY <1>7, <1>9, <1>12, <2>1
  <2>6. \A x \in w + 1 .. h : x \in persisted \/ \E c \in commits' : c.height = x
    BY <1>7, <1>9, <1>12, <2>2
  <2>7. \A c \in commits' : c.height \notin persisted /\ (c.done => c.height \in rows)
    BY <1>7, <1>9, <1>12, <2>1
  <2> QED
    BY <1>10, <1>12, <2>2, <2>4, <2>5, <2>6, <2>7 DEF CommitsInv
<1>14. MarksInv(m, w)'
  <2>1. /\ \A c \in commits : IsMarked(c) =>
               c.height = w + 1 /\ c.mark = Level(w + 1) /\ (c.done => m = w + 1)
        /\ m = w \/ (m = w + 1 /\ \E c \in commits : IsMarked(c))
    BY DEF Connected, UpInv, MarksInv
  <2>2. IsMarked(new) => new.height = w + 1 /\ new.mark = Level(w + 1) /\ ~new.done
    BY <1>8, <1>9 DEF IsMarked
  <2>3. \A c \in commits' : IsMarked(c) =>
               c.height = w + 1 /\ c.mark = Level(w + 1) /\ (c.done => m = w + 1)
    BY <1>7, <2>1, <2>2
  <2>4. m = w \/ (m = w + 1 /\ \E c \in commits' : IsMarked(c))
    BY <1>7, <2>1
  <2> QED
    BY <2>3, <2>4 DEF MarksInv, IsMarked
<1>15. FlushInv(w, h)'
  <2>1. w + 1 \notin persisted
    <3>1. \/ w + 1 \notin persisted
          \/ \E f \in w + 1 .. k : flushing = Level(f)
      BY DEF Connected, UpInv, FlushInv
    <3>2. \A f \in w + 1 .. k : f \in 0 .. MaxHeight /\ f # 0 /\ 0 \in 0 .. MaxHeight
      BY <1>3, <1>5
    <3> QED
      BY <1>1, <3>1, <3>2, LevelOrder, LevelFacts
  <2> QED
    BY <1>1, <1>10, <2>1 DEF FlushInv
<1>16. StoreInv(m)' /\ DrainInv(m, n)'
    BY <1>1, <1>10 DEF Connected, StoreInv, DrainInv
<1>17. w <= h
    BY <1>3
<1>18. Connected(m, w, h, i, j, n)'
  <2> HIDE DEF h
  <2> QED
    BY <1>5, <1>10, <1>11, <1>13, <1>14, <1>15, <1>16, <1>17 DEF Connected, UpInv
<1>19. m <= m
    BY <1>3
<1> HIDE DEF h
<1> QED
    BY <1>5, <1>18, <1>19 DEF StaysConnected, Connected

\* What the committer holds, for the steps that change it.
LEMMA CommitterFacts ==
    ASSUME NEW m, NEW w, NEW k, NEW i, NEW j, NEW n, Connected(m, w, k, i, j, n)
    PROVE  /\ commits \subseteq [height : w + 1 .. k, mark : Frontiers, done : BOOLEAN]
           /\ \A c, d \in commits : c.height = d.height => c = d
           /\ persisted \subseteq 1 .. k /\ persisted \subseteq rows
           /\ \A h \in w + 1 .. k : h \in persisted \/ \E c \in commits : c.height = h
           /\ \A c \in commits : c.height \notin persisted /\ (c.done => c.height \in rows)
           /\ pending = {h \in persisted : h > w}
           /\ \A c \in commits : IsMarked(c) =>
                  c.height = w + 1 /\ c.mark = Level(w + 1) /\ (c.done => m = w + 1)
           /\ m = w \/ (m = w + 1 /\ \E c \in commits : IsMarked(c))
           /\ storeMark = Level(m) /\ published = Level(w) /\ next = Level(n)
           /\ rows \subseteq Heights /\ 1 .. m \subseteq rows /\ completed \subseteq 1 .. m
           /\ 1 .. k \subseteq Heights
<1>1. 1 .. k \subseteq Heights
    BY ConnectedOrder DEF Heights
<1> QED
    BY <1>1 DEF Connected, UpInv, CommitsInv, MarksInv, StoreInv

\* The Store writes a batch, maybe not for the first time.
LEMMA CommitStep ==
    ASSUME NEW m, NEW w, NEW k, NEW i, NEW j, NEW n, Connected(m, w, k, i, j, n),
           NEW c \in commits, NEW answered \in BOOLEAN, StoreCommit(c, answered)
    PROVE  StaysConnected(m, n)
<1> DEFINE b == IF IsMarked(c) THEN w + 1 ELSE m
           e == [c EXCEPT !.done = TRUE]
<1>1. /\ ~c.done /\ rows' = rows \cup {c.height}
      /\ accountMeta' = [a \in Accounts |->
                            IF a \in Updates[c.height] THEN c.height ELSE accountMeta[a]]
      /\ storeMark' = IF IsMarked(c) THEN c.mark ELSE storeMark
      /\ commits' = IF answered THEN (commits \ {c}) \cup {e} ELSE commits
      /\ UNCHANGED <<up, next, prepareQueue, preparing, commitQueue, persisted, published, pending,
                     flushing, completed, closing, drained>>
    BY DEF StoreCommit, IsMarked, pipeline
<1>2. /\ m \in Nat /\ w \in Nat /\ k \in Nat /\ w <= m /\ m <= k /\ m <= w + 1
      /\ k <= MaxHeight /\ MaxHeight \in Nat
    BY ConnectedOrder
<1>3. /\ c.height \in w + 1 .. k /\ c.height \in Heights /\ c.height \in Nat
      /\ c.mark \in Frontiers /\ c \in [height : w + 1 .. k, mark : Frontiers, done : BOOLEAN]
    BY <1>2, CommitterFacts DEF Heights
<1>4. /\ e \in [height : w + 1 .. k, mark : Frontiers, done : BOOLEAN]
      /\ e.height = c.height /\ e.mark = c.mark /\ e.done
    BY <1>3, Zenon
<1>5. IsMarked(c) => c.height = w + 1 /\ c.mark = Level(w + 1)
    BY CommitterFacts
<1>6. m <= b /\ b \in 0 .. MaxHeight /\ b \in Nat /\ (b = m \/ b = w + 1)
    BY <1>2, <1>3, <1>5
<1>7. storeMark' = Level(b)
    BY <1>1, <1>5, CommitterFacts
<1> HIDE DEF e
<1>8. StoreInv(b)'
  <2>1. rows' \subseteq Heights
    BY <1>1, <1>3, CommitterFacts
  <2>2. 1 .. b \subseteq rows'
    <3>1. 1 .. m \subseteq rows
      BY CommitterFacts
    <3>2. CASE IsMarked(c)
      <4>1. 1 .. w + 1 \subseteq (1 .. m) \cup {w + 1}
        BY <1>2
      <4> QED
        BY <1>1, <1>5, <3>1, <3>2, <4>1
    <3>3. CASE ~IsMarked(c)
      BY <1>1, <3>1, <3>3, Zenon
    <3> QED
      BY <3>2, <3>3
  <2>3. completed' \subseteq 1 .. b
    <3>1. 1 .. m \subseteq 1 .. b
      BY <1>2, <1>6
    <3> QED
      BY <1>1, <3>1, CommitterFacts, Zenon
  <2>4. accountMeta' \in [Accounts -> 0 .. MaxHeight]
    <3>1. c.height \in 0 .. MaxHeight
      BY <1>3, LevelFacts
    <3>2. accountMeta \in [Accounts -> 0 .. MaxHeight]
      BY DEF Connected, StoreInv
    <3> QED
      BY <1>1, <3>1, <3>2, Zenon
  <2>5. up' \in BOOLEAN /\ closing' \in BOOLEAN
    BY <1>1 DEF Connected, StoreInv
  <2> HIDE DEF b
  <2> QED
    BY <1>7, <2>1, <2>2, <2>3, <2>4, <2>5 DEF StoreInv
<1>9. CommitsInv(w, k)'
  <2>1. commits' \subseteq [height : w + 1 .. k, mark : Frontiers, done : BOOLEAN]
    BY <1>1, <1>4, CommitterFacts
  <2>2. \A x, y \in commits' : x.height = y.height => x = y
    BY <1>1, <1>4, CommitterFacts
  <2>3. \A h \in w + 1 .. k : h \in persisted \/ \E x \in commits' : x.height = h
    BY <1>1, <1>4, CommitterFacts
  <2>4. \A x \in commits' : x.height \notin persisted /\ (x.done => x.height \in rows')
    BY <1>1, <1>4, CommitterFacts
  <2>5. /\ persisted \subseteq 1 .. k /\ persisted \subseteq rows'
        /\ pending = {h \in persisted : h > w}
    BY <1>1, CommitterFacts
  <2> QED
    BY <1>1, <2>1, <2>2, <2>3, <2>4, <2>5 DEF CommitsInv
<1>10. MarksInv(b, w)'
  <2>1. IsMarked(e) <=> IsMarked(c)
    BY <1>4 DEF IsMarked
  <2>2. ASSUME NEW x \in commits', IsMarked(x)
        PROVE  x.height = w + 1 /\ x.mark = Level(w + 1) /\ (x.done => b = w + 1)
    <3>1. CASE x \in commits
      <4>1. x.height = w + 1 /\ x.mark = Level(w + 1) /\ (x.done => m = w + 1)
        BY <2>2, <3>1, CommitterFacts
      <4> QED
        BY <4>1
    <3>2. CASE x \notin commits
      <4>1. x = e
        BY <1>1, <3>2
      <4> QED
        BY <1>4, <1>5, <2>1, <2>2, <4>1
    <3> QED
      BY <3>1, <3>2
  <2>3. b = w \/ (b = w + 1 /\ \E x \in commits' : IsMarked(x))
    <3>1. CASE IsMarked(c)
      <4>1. \E x \in commits' : IsMarked(x)
        BY <1>1, <2>1, <3>1
      <4> QED
        BY <3>1, <4>1
    <3>2. CASE ~IsMarked(c)
      <4>1. m = w \/ (m = w + 1 /\ \E x \in commits : IsMarked(x))
        BY CommitterFacts
      <4>2. \A x \in commits : IsMarked(x) => x \in commits'
        BY <1>1, <3>2, Zenon
      <4> QED
        BY <3>2, <4>1, <4>2
    <3> QED
      BY <3>1, <3>2
  <2> HIDE DEF b
  <2> QED
    BY <2>2, <2>3 DEF MarksInv, IsMarked
<1>11. FlushInv(w, k)'
  <2>1. \A x \in commits' : IsMarked(x) => \E y \in commits : IsMarked(y)
    BY <1>1, <1>4 DEF IsMarked
  <2>2. \/ flushing = NoFrontier /\ w + 1 \notin persisted
        \/ \E f \in w + 1 .. k :
               /\ flushing = Level(f) /\ w + 1 .. f \subseteq persisted /\ f + 1 \notin persisted
               /\ \A x \in commits : ~IsMarked(x)
    BY DEF Connected, UpInv, FlushInv
  <2> QED
    BY <1>1, <2>1, <2>2, Zenon DEF FlushInv, IsMarked
<1>12. DrainInv(b, n)'
  <2>1. drained = "running"
    BY DEF Connected, UpInv, DrainInv
  <2> QED
    BY <1>1, <2>1 DEF DrainInv
<1>13. QueuesInv(k, i, j, n)'
    BY <1>1 DEF Connected, UpInv, QueuesInv
<1>14. Connected(b, w, k, i, j, n)'
  <2> HIDE DEF b
  <2> QED
    BY <1>1, <1>6, <1>8, <1>9, <1>10, <1>11, <1>12, <1>13 DEF Connected, UpInv
<1> HIDE DEF b
<1> QED
    BY <1>6, <1>14 DEF StaysConnected, Connected

\* complete_published_uploads, at a level.
LEMMA PublishedAt ==
    ASSUME NEW a \in 0 .. MaxHeight, NEW S \in SUBSET Heights
    PROVE  Published(Level(a), S) = {h \in S : h <= a}
    BY LevelCovers DEF Published

\* The watermark commit: the level of the flush is published.
LEMMA FlushStep ==
    ASSUME NEW m, NEW w, NEW k, NEW i, NEW j, NEW n, Connected(m, w, k, i, j, n),
           FlushQmdbWatermarks
    PROVE  StaysConnected(m, n)
<1> DEFINE ready == Published(flushing, pending)
<1>1. /\ flushing # NoFrontier /\ storeMark' = flushing /\ published' = flushing
      /\ completed' = completed \cup ready /\ pending' = pending \ ready
      /\ flushing' = NoFrontier
      /\ UNCHANGED <<rows, accountMeta, up, next, prepareQueue, preparing, commitQueue, commits,
                     persisted, closing, drained>>
    BY DEF FlushQmdbWatermarks, pipeline
<1>2. /\ m \in Nat /\ w \in Nat /\ k \in Nat /\ w <= m /\ m <= k
      /\ k <= MaxHeight /\ MaxHeight \in Nat
    BY ConnectedOrder
<1>3. PICK f \in w + 1 .. k :
          /\ flushing = Level(f) /\ w + 1 .. f \subseteq persisted /\ f + 1 \notin persisted
          /\ \A c \in commits : ~IsMarked(c)
    BY <1>1 DEF Connected, UpInv, FlushInv
<1>4. m = w /\ f \in 0 .. MaxHeight /\ f \in Nat /\ m <= f /\ f <= k /\ w < f
    BY <1>2, <1>3, CommitterFacts
<1>5. pending \subseteq Heights /\ persisted \subseteq Heights
    BY CommitterFacts
<1>6. ready = {h \in pending : h <= f}
    BY <1>3, <1>4, <1>5, PublishedAt
<1> HIDE DEF ready
<1>7. StoreInv(f)'
  <2>1. 1 .. f \subseteq rows
    <3>1. 1 .. f \subseteq (1 .. m) \cup (w + 1 .. f)
      BY <1>2, <1>4
    <3> QED
      BY <1>3, <3>1, CommitterFacts
  <2>2. completed' \subseteq 1 .. f
    <3>1. 1 .. m \subseteq 1 .. f
      BY <1>2, <1>4
    <3>2. ready \subseteq 1 .. f
      BY <1>4, <1>5, <1>6, LevelFacts
    <3> QED
      BY <1>1, <3>1, <3>2, CommitterFacts, Zenon
  <2> QED
    BY <1>1, <1>3, <2>1, <2>2 DEF Connected, StoreInv
<1>8. CommitsInv(f, k)'
  <2>1. \A c \in commits : c.height \in f + 1 .. k
    <3> SUFFICES ASSUME NEW c \in commits
                 PROVE  c.height \in f + 1 .. k
      OBVIOUS
    <3>1. c.height \in w + 1 .. k /\ c.height \notin persisted
      BY CommitterFacts
    <3>2. c.height \notin w + 1 .. f
      BY <1>3, <3>1
    <3> QED
      BY <1>2, <1>4, <3>1, <3>2
  <2>2. commits \subseteq [height : f + 1 .. k, mark : Frontiers, done : BOOLEAN]
    BY <2>1, CommitterFacts
  <2>3. \A h \in f + 1 .. k : h \in w + 1 .. k
    BY <1>2, <1>4
  <2>4. pending \ ready = {h \in persisted : h > f}
    <3>1. pending = {h \in persisted : h > w} /\ persisted \subseteq 1 .. k
      BY CommitterFacts
    <3>2. \A h \in persisted : h \in Nat /\ (h > f <=> h > w /\ ~(h <= f))
      BY <1>2, <1>4, <3>1
    <3> QED
      BY <1>6, <3>1, <3>2, Zenon
  <2> QED
    BY <1>1, <2>2, <2>3, <2>4, CommitterFacts DEF CommitsInv
<1>9. MarksInv(f, f)' /\ FlushInv(f, k)'
    BY <1>1, <1>3 DEF MarksInv, FlushInv, IsMarked
<1>10. DrainInv(f, n)'
  <2>1. drained = "running"
    BY <1>1 DEF Connected, UpInv, DrainInv
  <2> QED
    BY <1>1, <2>1 DEF DrainInv
<1>11. QueuesInv(k, i, j, n)'
    BY <1>1 DEF Connected, UpInv, QueuesInv
<1>12. Connected(f, f, k, i, j, n)'
    BY <1>1, <1>3, <1>4, <1>7, <1>8, <1>9, <1>10, <1>11 DEF Connected, UpInv
<1> QED
    BY <1>4, <1>12 DEF StaysConnected, Connected

\* The committer ends with nothing left to publish, so its assertion holds.
LEMMA ExitStep ==
    ASSUME NEW m, NEW w, NEW k, NEW i, NEW j, NEW n, Connected(m, w, k, i, j, n),
           CommitterExit
    PROVE  StaysConnected(m, n)
<1>1. /\ flushing = NoFrontier /\ closing
      /\ prepareQueue = <<>> /\ preparing = <<>> /\ commitQueue = <<>> /\ commits = {}
      /\ UNCHANGED <<rows, accountMeta, up, next, prepareQueue, preparing, commitQueue, commits,
                     persisted, flushing, closing>>
    BY DEF CommitterExit, CommitterIdle, pipeline
<1>2. /\ m \in Nat /\ w \in Nat /\ k \in Nat /\ n \in Nat /\ w <= m /\ m <= k
      /\ k <= MaxHeight /\ MaxHeight \in Nat
    BY ConnectedOrder
<1>3. n = k
  <2>1. i = k + Len(commitQueue) /\ j = i + Len(preparing) /\ n = j + Len(prepareQueue)
    BY DEF Connected, UpInv, QueuesInv
  <2>2. Len(commitQueue) = 0 /\ Len(preparing) = 0 /\ Len(prepareQueue) = 0
    BY <1>1
  <2> QED
    BY <1>2, <2>1, <2>2, ConnectedOrder
<1>4. w + 1 \notin persisted
  <2>1. \/ w + 1 \notin persisted
        \/ \E f \in w + 1 .. k : flushing = Level(f)
    BY DEF Connected, UpInv, FlushInv
  <2>2. \A f \in w + 1 .. k : f \in 0 .. MaxHeight /\ f # 0 /\ 0 \in 0 .. MaxHeight
    BY <1>2
  <2> QED
    BY <1>1, <2>1, <2>2, LevelOrder, LevelFacts
<1>5. w = k /\ m = w
  <2>1. \A h \in w + 1 .. k : h \in persisted
    BY <1>1, CommitterFacts
  <2> QED
    BY <1>2, <1>4, <2>1
<1>6. pending = {}
  <2>1. pending = {h \in persisted : h > w} /\ persisted \subseteq 1 .. k
    BY CommitterFacts
  <2>2. \A h \in persisted : ~(h > w)
    BY <1>2, <1>5, <2>1
  <2> QED
    BY <2>1, <2>2, Zenon
<1>7. Published(published, pending) = {}
    BY <1>6 DEF Published
<1>8. /\ storeMark' = storeMark /\ published' = published /\ completed' = completed
      /\ pending' = pending /\ drained' = "drained"
    BY <1>6, <1>7 DEF CommitterExit
<1>9. StoreInv(m)'
    BY <1>1, <1>8 DEF Connected, StoreInv
<1>10. CommitsInv(w, k)' /\ MarksInv(m, w)' /\ FlushInv(w, k)'
    BY <1>1, <1>8 DEF Connected, UpInv, CommitsInv, MarksInv, FlushInv, IsMarked
<1>11. DrainInv(m, n)'
    BY <1>1, <1>3, <1>5, <1>6, <1>8 DEF DrainInv
<1>12. QueuesInv(k, i, j, n)'
    BY <1>1 DEF Connected, UpInv, QueuesInv
<1>13. Connected(m, w, k, i, j, n)'
    BY <1>1, <1>8, <1>9, <1>10, <1>11, <1>12 DEF Connected, UpInv
<1>14. m <= m
    BY <1>2
<1> QED
    BY <1>13, <1>14 DEF StaysConnected, Connected

\* join_next and mark_committed_batch: the batch with watermarks, if it is among the
\* joined ones, moves the writers to the watermark the Store already has.
JoinedMark(m, w, v) ==
    /\ v \in 0 .. MaxHeight /\ (v = w \/ (v = w + 1 /\ v = m))
    /\ \A c \in commits : IsMarked(c) => (v = w => ~c.done) /\ (v # w => c.done)

\* The watermark after joining finished batches is at the block before or at the
\* one whose batch carried it.
LEMMA JoinMark ==
    ASSUME NEW m, NEW w, NEW k, NEW i, NEW j, NEW n, Connected(m, w, k, i, j, n)
    PROVE  LET marks == {c.mark : c \in {d \in commits : d.done}} \ {NoFrontier}
               mark  == IF marks = {} THEN published ELSE CHOOSE x \in marks : TRUE
           IN  \E v : JoinedMark(m, w, v) /\ mark = Level(v)
<1> DEFINE done == {d \in commits : d.done}
           marks == {c.mark : c \in done} \ {NoFrontier}
           mark == IF marks = {} THEN published ELSE CHOOSE x \in marks : TRUE
<1>1. w \in Nat /\ w \in 0 .. MaxHeight /\ m \in 0 .. MaxHeight /\ w + 1 # w
    BY ConnectedOrder DEF Connected
<1>2. CASE marks = {}
  <2>1. \A c \in commits : IsMarked(c) => ~c.done
    BY <1>2, Zenon DEF IsMarked
  <2>2. mark = Level(w)
    BY <1>2, CommitterFacts
  <2>3. JoinedMark(m, w, w)
    BY <1>1, <2>1 DEF JoinedMark
  <2> QED
    BY <2>2, <2>3, Zenon
<1>3. CASE marks # {}
  <2>1. PICK d \in commits : d.done /\ IsMarked(d)
    BY <1>3, Zenon DEF IsMarked
  <2>2. d.height = w + 1 /\ m = w + 1
    BY <2>1, CommitterFacts
  <2>3. \A c \in commits : IsMarked(c) => c = d
    BY <2>1, <2>2, CommitterFacts
  <2>4. \A x \in marks : x = Level(w + 1)
  <3> SUFFICES ASSUME NEW x \in marks
               PROVE  x = Level(w + 1)
    OBVIOUS
  <3>1. PICK c \in done : x = c.mark /\ IsMarked(c)
    BY DEF IsMarked
  <3> QED
    BY <3>1, CommitterFacts
  <2>5. (CHOOSE x \in marks : TRUE) \in marks
    BY <1>3
  <2>6. mark = Level(w + 1)
    BY <1>3, <2>4, <2>5
  <2>7. JoinedMark(m, w, w + 1)
    BY <1>1, <2>1, <2>2, <2>3 DEF JoinedMark
  <2> QED
    BY <2>6, <2>7, Zenon
<1> QED
    BY <1>2, <1>3, Zenon

\* Joining finished batches persists their blocks and begins a flush when the first
\* unpublished block is among them.
LEMMA JoinStep ==
    ASSUME NEW m, NEW w, NEW k, NEW i, NEW j, NEW n, Connected(m, w, k, i, j, n),
           JoinCommits
    PROVE  StaysConnected(m, n)
<1> DEFINE done == {c \in commits : c.done}
           marks == {c.mark : c \in done} \ {NoFrontier}
           mark == IF marks = {} THEN published ELSE CHOOSE x \in marks : TRUE
           kept == persisted \cup {c.height : c \in done}
           open == pending \cup {c.height : c \in done}
           ready == Published(mark, open)
           flush == PrepareFlush(mark, kept)
<1>1. /\ drained = "running" /\ commits' = commits \ done /\ persisted' = kept
      /\ published' = mark /\ completed' = completed \cup ready /\ pending' = open \ ready
      /\ flushing' = IF open = ready \/ flush = mark THEN NoFrontier ELSE flush
      /\ UNCHANGED <<rows, storeMark, accountMeta, up, next, prepareQueue, preparing, commitQueue,
                     closing, drained>>
    BY Zenon DEF JoinCommits, CommitterIdle, store, pipeline
<1>2. PICK v : JoinedMark(m, w, v) /\ mark = Level(v)
    BY JoinMark
<1>3. /\ m \in Nat /\ w \in Nat /\ k \in Nat /\ w <= m /\ m <= k /\ m <= w + 1
      /\ k <= MaxHeight /\ MaxHeight \in Nat
    BY ConnectedOrder
<1>4. /\ v \in 0 .. MaxHeight /\ v \in Nat /\ w <= v /\ v <= m /\ v <= k /\ (v = w \/ (v = w + 1 /\ v = m))
    BY <1>2, <1>3 DEF JoinedMark
<1> HIDE DEF mark
<1>5. /\ kept \subseteq 1 .. k /\ kept \subseteq rows /\ kept \subseteq Heights
      /\ \A h \in kept : h \in Nat
  <2>1. \A c \in done : c.height \in 1 .. k /\ c.height \in rows
    <3> SUFFICES ASSUME NEW c \in done
                 PROVE  c.height \in 1 .. k /\ c.height \in rows
      OBVIOUS
    <3>1. c.height \in w + 1 .. k /\ c.height \in rows
      BY CommitterFacts
    <3> QED
      BY <1>3, <3>1
  <2>2. persisted \subseteq 1 .. k /\ persisted \subseteq rows /\ 1 .. k \subseteq Heights
    BY CommitterFacts
  <2>3. kept \subseteq 1 .. k /\ kept \subseteq rows
    BY <2>1, <2>2
  <2>4. \A h \in 1 .. k : h \in Nat
    BY <1>3
  <2> HIDE DEF kept
  <2> QED
    BY <2>2, <2>3, <2>4
<1>6. \A h : h \in open <=> h \in kept /\ h > w
  <2>1. pending = {h \in persisted : h > w}
    BY CommitterFacts
  <2>2. \A c \in done : c.height > w
    <3> SUFFICES ASSUME NEW c \in done
                 PROVE  c.height > w
      OBVIOUS
    <3>1. c.height \in w + 1 .. k
      BY CommitterFacts
    <3> QED
      BY <1>3, <3>1
  <2> QED
    BY <2>1, <2>2
<1>7. ready = {h \in open : h <= v}
  <2>1. open \subseteq Heights
    BY <1>5, <1>6
  <2> HIDE DEF open
  <2> QED
    BY <1>2, <1>4, <2>1, PublishedAt
<1>8. PICK f \in v .. MaxHeight : v + 1 .. f \subseteq kept /\ f + 1 \notin kept
  <2> HIDE DEF kept
  <2> QED
    BY <1>4, <1>5, ContiguousEnd
<1>9. flush = Level(f) /\ f \in 0 .. MaxHeight /\ f \in Nat /\ v <= f
  <2> HIDE DEF kept
  <2> QED
    BY <1>2, <1>3, <1>4, <1>5, <1>8, FlushLevel
<1> HIDE DEF flush, ready
<1>10. CommitsInv(v, k)'
  <2>1. \A c \in commits \ done : c.height \in v + 1 .. k
    <3> SUFFICES ASSUME NEW c \in commits, ~c.done
                 PROVE  c.height \in v + 1 .. k
      OBVIOUS
    <3>1. c.height \in w + 1 .. k
      BY CommitterFacts
    <3>2. v # w => c.height # w + 1
      <4> SUFFICES ASSUME v # w
                   PROVE  c.height # w + 1
        OBVIOUS
      <4>1. PICK d \in commits : IsMarked(d)
        BY <1>3, <1>4, CommitterFacts
      <4>2. d.height = w + 1 /\ d.done
        BY <1>2, <4>1, CommitterFacts DEF JoinedMark
      <4> QED
        BY <4>2, CommitterFacts
    <3> QED
      BY <1>3, <1>4, <3>1, <3>2
  <2>2. commits' \subseteq [height : v + 1 .. k, mark : Frontiers, done : BOOLEAN]
    BY <1>1, <2>1, CommitterFacts
  <2>3. \A c, d \in commits' : c.height = d.height => c = d
    BY <1>1, CommitterFacts
  <2>4. \A h \in v + 1 .. k : h \in kept \/ \E c \in commits' : c.height = h
    <3> SUFFICES ASSUME NEW h \in v + 1 .. k
                 PROVE  h \in kept \/ \E c \in commits' : c.height = h
      OBVIOUS
    <3>1. h \in w + 1 .. k
      BY <1>3, <1>4
    <3> QED
      BY <1>1, <3>1, CommitterFacts
  <2>5. \A c \in commits' : c.height \notin kept /\ (c.done => c.height \in rows)
    BY <1>1, CommitterFacts
  <2>6. open \ ready = {h \in kept : h > v}
    <3>1. \A h \in kept : h > v <=> h > w /\ ~(h <= v)
      BY <1>3, <1>4, <1>5
    <3> HIDE DEF kept, open
    <3> QED
      BY <1>6, <1>7, <3>1
  <2> HIDE DEF kept, open
  <2> QED
    BY <1>1, <1>5, <2>2, <2>3, <2>4, <2>5, <2>6 DEF CommitsInv
<1>11. MarksInv(m, v)'
  <2>1. CASE v = w
    <3>1. \A c \in commits : IsMarked(c) => c \in commits'
      BY <1>1, <1>2, <2>1 DEF JoinedMark
    <3> QED
      BY <1>1, <2>1, <3>1, CommitterFacts DEF MarksInv, IsMarked
  <2>2. CASE v # w
    <3>1. \A c \in commits' : ~IsMarked(c)
      BY <1>1, <1>2, <2>2, Zenon DEF JoinedMark
    <3> QED
      BY <1>4, <2>2, <3>1 DEF MarksInv, IsMarked
  <2> QED
    BY <2>1, <2>2
<1>12. FlushInv(v, k)'
  <2>1. CASE v + 1 \notin kept
    <3>1. f = v
      <4>1. SUFFICES ASSUME f # v
                     PROVE  FALSE
        OBVIOUS
      <4>2. v + 1 \in v + 1 .. f
        BY <1>4, <1>9, <4>1
      <4> QED
        BY <1>8, <2>1, <4>2
    <3>2. flushing' = NoFrontier
      BY <1>1, <1>2, <1>9, <3>1
    <3> HIDE DEF kept
    <3> QED
      BY <1>1, <2>1, <3>2, Zenon DEF FlushInv
  <2>2. CASE v + 1 \in kept
    <3>1. f # v /\ f \in v + 1 .. k
      <4>1. f # v
        BY <1>8, <2>2
      <4>2. f \in v + 1 .. f
        BY <1>4, <1>9, <4>1
      <4>3. f \in 1 .. k
        BY <1>5, <1>8, <4>2
      <4> QED
        BY <1>3, <1>4, <1>9, <4>1, <4>3
    <3>2. flush # mark
      BY <1>2, <1>4, <1>9, <3>1, LevelOrder
    <3>3. open # ready
      <4>1. v + 1 > w /\ ~(v + 1 <= v)
        BY <1>3, <1>4
      <4>2. v + 1 \in open /\ v + 1 \notin ready
        BY <1>6, <1>7, <2>2, <4>1
      <4> QED
        BY <4>2
    <3>4. flushing' = Level(f)
      BY <1>1, <1>9, <3>2, <3>3
    <3>5. \A c \in commits' : ~IsMarked(c)
      <4>1. SUFFICES ASSUME NEW c \in commits', IsMarked(c)
                     PROVE  FALSE
        OBVIOUS
      <4>2. c \in commits /\ ~c.done /\ c.height = w + 1 /\ v = w
        BY <1>1, <1>2, <4>1, CommitterFacts DEF JoinedMark
      <4>3. c.height \notin kept
        BY <4>2, CommitterFacts
      <4> QED
        BY <2>2, <4>2, <4>3
    <3> HIDE DEF kept
    <3> QED
      BY <1>1, <1>8, <3>1, <3>4, <3>5 DEF FlushInv, IsMarked
  <2> QED
    BY <2>1, <2>2, Zenon
<1>13. StoreInv(m)'
  <2>1. ready \subseteq 1 .. m
    <3>1. \A h \in open : h \in 1 .. k /\ h \in Nat
      BY <1>5, <1>6
    <3> HIDE DEF open
    <3> QED
      BY <1>3, <1>4, <1>7, <3>1
  <2>2. completed' \subseteq 1 .. m
    BY <1>1, <2>1, CommitterFacts, Zenon
  <2> QED
    BY <1>1, <2>2 DEF Connected, StoreInv
<1>14. DrainInv(m, n)'
    BY <1>1, Zenon DEF DrainInv
<1>15. QueuesInv(k, i, j, n)'
    BY <1>1, Zenon DEF Connected, UpInv, QueuesInv
<1>16. Connected(m, v, k, i, j, n)'
    BY <1>1, <1>2, <1>4, <1>10, <1>11, <1>12, <1>13, <1>14, <1>15, Zenon DEF Connected, UpInv
<1>17. m <= m
    BY <1>3
<1> QED
    BY <1>4, <1>16, <1>17 DEF StaysConnected, Connected

-----------------------------------------------------------------------------
(* The publisher *)

\* enqueue_queued_finalized: a block at or below the cursor is complete at once, the
\* next one is queued, and anything else is refused.
LEMMA AnswerAt ==
    ASSUME NEW n \in 0 .. MaxHeight, next = Level(n), NEW h \in Heights
    PROVE  EnqueueAnswer(Upload(h, StartOf(h)))
               = IF h <= n THEN "completed" ELSE IF h = n + 1 THEN "queued" ELSE "outOfSync"
<1> DEFINE u == Upload(h, StartOf(h))
<1>1. EndOf(u) = Level(h) /\ u.start = Level(h - 1)
    BY UploadEnds, LevelFacts
<1>2. h \in 0 .. MaxHeight /\ h - 1 \in 0 .. MaxHeight /\ h \in Nat /\ h >= 1 /\ n \in Nat
    BY LevelFacts
<1>3. /\ Level(n).state \in Nat /\ Level(h).state \in Nat
      /\ Level(n).transactions \in Nat /\ Level(h).transactions \in Nat
  <2>1. /\ Level(n) \in [state : Nat, transactions : Nat]
        /\ Level(h) \in [state : Nat, transactions : Nat]
    BY <1>2, LevelOrder
  <2> QED
    BY <2>1
<1>4. /\ n < h <=> Level(n).state < Level(h).state
      /\ n < h <=> Level(n).transactions < Level(h).transactions
    BY <1>2, LevelOrder
<1>5. (next.state >= EndOf(u).state /\ next.transactions >= EndOf(u).transactions) <=> h <= n
    BY <1>1, <1>2, <1>3, <1>4
<1>6. next = u.start <=> h = n + 1
  <2>1. Level(n) = Level(h - 1) <=> n = h - 1
    BY <1>2, LevelOrder
  <2> QED
    BY <1>1, <1>2, <2>1
<1> HIDE DEF u
<1>7. EnqueueAnswer(u) = IF h <= n THEN "completed" ELSE IF h = n + 1 THEN "queued" ELSE "outOfSync"
    BY <1>5, <1>6 DEF EnqueueAnswer
<1> QED
    BY <1>7 DEF u

\* A client that repeats only published blocks is told the truth.
LEMMA EnqueueStep ==
    ASSUME NEW m, NEW w, NEW k, NEW i, NEW j, NEW n, Connected(m, w, k, i, j, n),
           NEW h \in Heights, h <= m \/ h > n, EnqueueQueuedFinalized(Upload(h, StartOf(h)))
    PROVE  /\ h <= n + 1 /\ up' = up
           /\ \E x \in 0 .. MaxHeight : /\ x = (IF h <= n THEN n ELSE h)
                                        /\ Connected(m, w, k, i, j, x)'
<1> DEFINE u == Upload(h, StartOf(h))
<1>0. /\ n \in 0 .. MaxHeight /\ next = Level(n) /\ ~closing
      /\ EnqueueAnswer(u) = IF h <= n THEN "completed" ELSE IF h = n + 1 THEN "queued" ELSE "outOfSync"
    BY AnswerAt DEF Connected, UpInv, EnqueueQueuedFinalized
<1>1. /\ m \in Nat /\ n \in Nat /\ j \in Nat /\ MaxHeight \in Nat /\ n <= MaxHeight
      /\ h \in Nat /\ h >= 1 /\ h \in 0 .. MaxHeight /\ Len(prepareQueue) \in Nat
      /\ n = j + Len(prepareQueue)
    BY ConnectedOrder, LevelFacts DEF Connected, UpInv, QueuesInv
<1>2. /\ u.height = h /\ EndOf(u) = Level(h) /\ u \in Uploads
    BY UploadEnds
<1>3. UNCHANGED <<rows, storeMark, accountMeta, up, preparing, commitQueue, commits, persisted,
                  published, pending, flushing, drained, closing>>
    BY DEF EnqueueQueuedFinalized, store, committer
<1>4. CommitsInv(w, k)' /\ MarksInv(m, w)' /\ FlushInv(w, k)'
    BY <1>3 DEF Connected, UpInv, CommitsInv, MarksInv, FlushInv, IsMarked
<1>5. drained = "running"
    BY <1>0 DEF Connected, UpInv, DrainInv
<1> HIDE DEF u
<1>6. CASE h <= n
  <2>1. completed' = completed \cup {h} /\ UNCHANGED <<next, prepareQueue>>
    BY <1>0, <1>2, <1>6 DEF EnqueueQueuedFinalized, u
  <2>2. h \in 1 .. m
    BY <1>1, <1>6
  <2>3. StoreInv(m)'
    BY <1>3, <2>1, <2>2 DEF Connected, StoreInv
  <2>4. QueuesInv(k, i, j, n)' /\ DrainInv(m, n)'
    BY <1>3, <1>5, <2>1 DEF Connected, UpInv, QueuesInv, DrainInv
  <2>5. Connected(m, w, k, i, j, n)'
    BY <1>3, <1>4, <2>1, <2>3, <2>4 DEF Connected, UpInv
  <2>6. h <= n + 1
    BY <1>1, <1>6
  <2> QED
    BY <1>0, <1>3, <1>6, <2>5, <2>6
<1>7. CASE ~(h <= n)
  <2>1. /\ h = n + 1 /\ prepareQueue' = Append(prepareQueue, u) /\ next' = Level(h)
        /\ UNCHANGED completed
    BY <1>0, <1>2, <1>7 DEF EnqueueQueuedFinalized, u
  <2>2. StoreInv(m)'
    BY <1>3, <2>1 DEF Connected, StoreInv
  <2>3. /\ prepareQueue \in Seq(Uploads) /\ Run(prepareQueue, j)
        /\ u = Upload(j + Len(prepareQueue) + 1, StartOf(j + Len(prepareQueue) + 1))
    BY <1>1, <2>1 DEF Connected, UpInv, QueuesInv, u
  <2>4. /\ prepareQueue' \in Seq(Uploads) /\ Run(prepareQueue', j)
        /\ Len(prepareQueue') = Len(prepareQueue) + 1
    BY <1>1, <1>2, <2>1, <2>3, RunAppend
  <2>5. h = j + Len(prepareQueue')
    BY <1>1, <2>1, <2>4
  <2>6. QueuesInv(k, i, j, h)'
    BY <1>3, <2>4, <2>5, Zenon DEF Connected, UpInv, QueuesInv, Run
  <2>7. DrainInv(m, h)'
    BY <1>3, <1>5 DEF DrainInv
  <2>8. Connected(m, w, k, i, j, h)'
    BY <1>1, <1>3, <1>4, <2>1, <2>2, <2>6, <2>7 DEF Connected, UpInv
  <2>9. h <= n + 1
    BY <1>1, <2>1
  <2> QED
    BY <1>1, <1>3, <1>7, <2>8, <2>9
<1> QED
    BY <1>6, <1>7

\* Every step of the preparer and the committer.
LEMMA WorkStep ==
    ASSUME NEW m, NEW w, NEW k, NEW i, NEW j, NEW n, Connected(m, w, k, i, j, n), Work
    PROVE  StaysConnected(m, n)
<1>1. CASE PrepareQmdbUpload
    BY <1>1, PrepareStep
<1>2. CASE SendPrepared
    BY <1>2, SendStep
<1>3. CASE StageAndSpawnCommit
    BY <1>3, StageStep
<1>4. CASE \E c \in commits, answered \in BOOLEAN : StoreCommit(c, answered)
    BY <1>4, CommitStep
<1>5. CASE JoinCommits
    BY <1>5, JoinStep
<1>6. CASE FlushQmdbWatermarks
    BY <1>6, FlushStep
<1>7. CASE CommitterExit
    BY <1>7, ExitStep
<1> QED
    BY <1>1, <1>2, <1>3, <1>4, <1>5, <1>6, <1>7 DEF Work

\* Without a publisher no task runs.
LEMMA DownIsIdle ==
    ASSUME DownInv
    PROVE  ~Work
    BY DEF DownInv, Work, PrepareQmdbUpload, SendPrepared, StageAndSpawnCommit, StoreCommit,
           JoinCommits, FlushQmdbWatermarks, CommitterExit

\* Publisher::connect resumes at the Store's watermark.
LEMMA ConnectStep ==
    ASSUME NEW m \in 0 .. MaxHeight, StoreInv(m), Connect
    PROVE  Connected(m, m, m, m, m, m)'
<1>1. /\ up' = TRUE /\ next' = storeMark /\ published' = storeMark
      /\ prepareQueue' = <<>> /\ preparing' = <<>> /\ commitQueue' = <<>>
      /\ commits' = {} /\ persisted' = {} /\ pending' = {} /\ flushing' = NoFrontier
      /\ completed' = {} /\ closing' = FALSE /\ drained' = "running"
      /\ UNCHANGED <<rows, storeMark, accountMeta>>
    BY DEF Connect, FreshPipeline, store
<1>2. StoreInv(m)'
    BY <1>1, Zenon DEF StoreInv
<1>3. QueuesInv(m, m, m, m)'
  <2> DEFINE none == <<>>
  <2>1. none \in Seq(Uploads) /\ Len(none) = 0
    OBVIOUS
  <2>2. prepareQueue' = none /\ preparing' = none /\ commitQueue' = none
    BY <1>1
  <2> HIDE DEF none
  <2>3. Run(none, m) /\ m = m + Len(none)
    BY <2>1 DEF Run
  <2> QED
    BY <2>1, <2>2, <2>3 DEF QueuesInv, Run
<1>4. CommitsInv(m, m)'
  <2>1. m + 1 .. m = {}
    OBVIOUS
  <2> QED
    BY <1>1, <2>1 DEF CommitsInv
<1>5. MarksInv(m, m)' /\ FlushInv(m, m)' /\ DrainInv(m, m)'
    BY <1>1 DEF MarksInv, FlushInv, DrainInv
<1>6. published' = Level(m) /\ next' = Level(m) /\ m <= m
    BY <1>1 DEF StoreInv
<1> QED
    BY <1>1, <1>2, <1>3, <1>4, <1>5, <1>6 DEF Connected, UpInv

\* A crash, or the drop of the publisher, leaves what the Store has.
LEMMA DropStep ==
    ASSUME NEW m \in 0 .. MaxHeight, StoreInv(m), Drop
    PROVE  ~up' /\ StoreInv(m)' /\ DownInv'
    BY Zenon DEF Drop, FreshPipeline, store, StoreInv, DownInv

\* A publisher is connected, with its heights, or there is none.
LEMMA PublisherCases ==
    ASSUME PublisherInv
    PROVE  \/ \E m, w, k, i, j, n : Connected(m, w, k, i, j, n)
           \/ ~up /\ DownInv /\ \E m \in 0 .. MaxHeight : StoreInv(m)
<1>1. PICK m \in 0 .. MaxHeight :
          /\ StoreInv(m)
          /\ IF up THEN \E w, k, i, j, n \in 0 .. MaxHeight : UpInv(m, w, k, i, j, n) ELSE DownInv
    BY DEF PublisherInv
<1>2. CASE up
  <2>1. PICK w, k, i, j, n \in 0 .. MaxHeight : UpInv(m, w, k, i, j, n)
    BY <1>1, <1>2
  <2>2. Connected(m, w, k, i, j, n)
    BY <1>1, <1>2, <2>1 DEF Connected
  <2> QED
    BY <2>2
<1>3. CASE ~up
    BY <1>1, <1>3
<1> QED
    BY <1>2, <1>3

\* The invariant of a connected publisher.
LEMMA ConnectedKeeps ==
    ASSUME NEW m, NEW w, NEW k, NEW i, NEW j, NEW n, Connected(m, w, k, i, j, n)'
    PROVE  PublisherInv'
<1>1. /\ m \in 0 .. MaxHeight /\ w \in 0 .. MaxHeight /\ k \in 0 .. MaxHeight
      /\ i \in 0 .. MaxHeight /\ j \in 0 .. MaxHeight /\ n \in 0 .. MaxHeight
      /\ up' /\ StoreInv(m)' /\ UpInv(m, w, k, i, j, n)'
    BY DEF Connected
<1> QED
    BY <1>1 DEF PublisherInv

\* The invariant without a publisher.
LEMMA DownKeeps ==
    ASSUME NEW m \in 0 .. MaxHeight, ~up', StoreInv(m)', DownInv'
    PROVE  PublisherInv'
    BY DEF PublisherInv

\* A step that touches nothing of the publisher.
LEMMA PublisherStutters ==
    ASSUME PublisherInv, UNCHANGED vars
    PROVE  PublisherInv'
<1>1. /\ UNCHANGED <<rows, storeMark, accountMeta, up, next, prepareQueue, preparing, commitQueue>>
      /\ UNCHANGED <<commits, persisted, published, pending, flushing, drained, completed, closing>>
    BY DEF vars, store, publisher, pipeline, committer
<1>2. CASE \E m, w, k, i, j, n : Connected(m, w, k, i, j, n)
  <2>1. PICK m, w, k, i, j, n : Connected(m, w, k, i, j, n)
    BY <1>2
  <2>2. StoreInv(m)' /\ QueuesInv(k, i, j, n)'
    BY <1>1, <2>1 DEF Connected, StoreInv, UpInv, QueuesInv
  <2>3. CommitsInv(w, k)' /\ MarksInv(m, w)' /\ FlushInv(w, k)' /\ DrainInv(m, n)'
    BY <1>1, <2>1 DEF Connected, UpInv, CommitsInv, MarksInv, FlushInv, DrainInv, IsMarked
  <2>4. Connected(m, w, k, i, j, n)'
    BY <1>1, <2>1, <2>2, <2>3 DEF Connected, UpInv
  <2> QED
    BY <2>4, ConnectedKeeps
<1>3. CASE ~up /\ DownInv /\ \E m \in 0 .. MaxHeight : StoreInv(m)
  <2>1. PICK m \in 0 .. MaxHeight : StoreInv(m)
    BY <1>3
  <2>2. ~up' /\ StoreInv(m)' /\ DownInv'
    BY <1>1, <1>3, <2>1 DEF StoreInv, DownInv
  <2> QED
    BY <2>2, DownKeeps
<1> QED
    BY <1>2, <1>3, PublisherCases

\* Publisher::shutdown only closes the channel.
LEMMA ShutdownStep ==
    ASSUME NEW m, NEW w, NEW k, NEW i, NEW j, NEW n, Connected(m, w, k, i, j, n), Shutdown
    PROVE  Connected(m, w, k, i, j, n)'
<1>1. /\ ~closing /\ closing' = TRUE
      /\ UNCHANGED <<rows, storeMark, accountMeta, up, next, prepareQueue, preparing, commitQueue>>
      /\ UNCHANGED <<commits, persisted, published, pending, flushing, drained, completed>>
    BY DEF Shutdown, store, pipeline, committer
<1>2. StoreInv(m)' /\ QueuesInv(k, i, j, n)'
    BY <1>1 DEF Connected, StoreInv, UpInv, QueuesInv
<1>3. CommitsInv(w, k)' /\ MarksInv(m, w)' /\ FlushInv(w, k)'
    BY <1>1 DEF Connected, UpInv, CommitsInv, MarksInv, FlushInv, IsMarked
<1>4. DrainInv(m, n)'
    BY <1>1 DEF Connected, UpInv, DrainInv
<1> QED
    BY <1>1, <1>2, <1>3, <1>4 DEF Connected, UpInv

\* The invariant holds of an empty Store.
LEMMA PublisherInitial == Init => PublisherInv
<1> SUFFICES ASSUME Init
             PROVE  PublisherInv
    OBVIOUS
<1>1. 0 \in 0 .. MaxHeight /\ 1 .. 0 = {}
    BY LevelFacts
<1>2. StoreInv(0)
    BY <1>1, LevelFacts, Zenon DEF Init, StoreInv
<1>3. ~up /\ DownInv
    BY DEF Init, DownInv
<1> QED
    BY <1>1, <1>2, <1>3 DEF PublisherInv

\* Every step of the publisher keeps the invariant.
LEMMA PublisherStep == PublisherInv /\ [Next]_vars => PublisherInv'
<1> SUFFICES ASSUME PublisherInv, [Next]_vars
             PROVE  PublisherInv'
    OBVIOUS
<1>0. CASE UNCHANGED vars
    BY <1>0, PublisherStutters
<1>1. CASE ~up /\ DownInv /\ \E m \in 0 .. MaxHeight : StoreInv(m)
  <2>1. PICK m \in 0 .. MaxHeight : StoreInv(m)
    BY <1>1
  <2>2. CASE Connect
    BY <2>1, <2>2, ConnectStep, ConnectedKeeps
  <2>3. CASE Work
    BY <1>1, <2>3, DownIsIdle
  <2>4. CASE (\E h \in Heights : Offer(h)) \/ Shutdown \/ (up /\ Drop)
    BY <1>1, <2>4 DEF Offer, EnqueueQueuedFinalized, Shutdown
  <2> QED
    BY <1>0, <2>2, <2>3, <2>4 DEF Next
<1>2. CASE \E m, w, k, i, j, n : Connected(m, w, k, i, j, n)
  <2>1. PICK m, w, k, i, j, n : Connected(m, w, k, i, j, n)
    BY <1>2
  <2>2. up /\ StoreInv(m) /\ m \in 0 .. MaxHeight /\ n \in 0 .. MaxHeight /\ next = Level(n)
    BY <2>1 DEF Connected, UpInv
  <2>3. CASE \E h \in Heights : Offer(h)
    <3>1. PICK h \in Heights : Offer(h)
      BY <2>3
    <3>2. h \in Nat /\ h - 1 \in 0 .. MaxHeight /\ StartOf(h) = Level(h - 1) /\ n \in Nat
      BY <2>2, LevelFacts
    <3>3. h <= m \/ h > n
      <4>1. CASE next = StartOf(h)
        <5>1. n = h - 1
          BY <2>2, <3>2, <4>1, LevelOrder, Zenon
        <5> QED
          BY <3>2, <5>1
      <4>2. CASE Covers(storeMark, h)
        BY <2>2, <4>2, LevelCovers DEF StoreInv
      <4> QED
        BY <3>1, <4>1, <4>2 DEF Offer
    <3>4. PICK x : Connected(m, w, k, i, j, x)'
      BY <2>1, <3>1, <3>3, EnqueueStep DEF Offer
    <3> QED
      BY <3>4, ConnectedKeeps
  <2>4. CASE Work
    <3>1. PICK b, a, c, d, e : Connected(b, a, c, d, e, n)'
      BY <2>1, <2>4, WorkStep DEF StaysConnected
    <3> QED
      BY <3>1, ConnectedKeeps
  <2>5. CASE Shutdown
    BY <2>1, <2>5, ShutdownStep, ConnectedKeeps
  <2>6. CASE Drop
    BY <2>2, <2>6, DropStep, DownKeeps
  <2> QED
    BY <1>0, <2>2, <2>3, <2>4, <2>5, <2>6 DEF Next
<1> QED
    BY <1>1, <1>2, PublisherCases

\* What the invariant says of the published logs.
LEMMA PublisherIsWhole == PublisherInv => PublishedIsWhole
<1> SUFFICES ASSUME PublisherInv
             PROVE  PublishedIsWhole
    OBVIOUS
<1>1. PICK m \in 0 .. MaxHeight : StoreInv(m)
    BY DEF PublisherInv
<1>2. storeMark = Level(m) /\ 1 .. m \subseteq rows /\ completed \subseteq 1 .. m /\ m \in Nat
      /\ MaxHeight \in Nat /\ m <= MaxHeight
    BY <1>1, LevelFacts DEF StoreInv
<1>3. WatermarkHasNoHoles
  <2> SUFFICES ASSUME NEW h \in Heights,
                      \/ storeMark.state > StartOf(h).state
                      \/ storeMark.transactions > StartOf(h).transactions
               PROVE  h \in rows
    BY DEF WatermarkHasNoHoles
  <2>1. h - 1 \in 0 .. MaxHeight /\ StartOf(h) = Level(h - 1) /\ h \in Nat /\ h >= 1
    BY LevelFacts
  <2>2. /\ h - 1 < m <=> Level(h - 1).state < Level(m).state
        /\ h - 1 < m <=> Level(h - 1).transactions < Level(m).transactions
        /\ Level(m) \in [state : Nat, transactions : Nat]
        /\ Level(h - 1) \in [state : Nat, transactions : Nat]
    BY <2>1, LevelOrder
  <2>3. h - 1 < m
    BY <1>2, <2>1, <2>2
  <2>4. h \in 1 .. m
    BY <1>2, <2>1, <2>3
  <2> QED
    BY <1>2, <2>4
<1>4. CompletedIsPublished
  <2> SUFFICES ASSUME NEW h \in completed
               PROVE  Covers(storeMark, h)
    BY DEF CompletedIsPublished
  <2>1. h \in Heights /\ h <= m
    BY <1>2 DEF Heights
  <2> QED
    BY <1>2, <2>1, LevelCovers
<1>5. ShutdownPublishesAll
  <2>1. CASE ~up /\ DownInv
    BY <2>1 DEF DownInv, ShutdownPublishesAll
  <2>2. CASE \E a, w, k, i, j, n : Connected(a, w, k, i, j, n)
    <3>1. PICK a, w, k, i, j, n : Connected(a, w, k, i, j, n)
      BY <2>2
    <3> QED
      BY <3>1 DEF Connected, UpInv, StoreInv, DrainInv, ShutdownPublishesAll
  <2> QED
    BY <2>1, <2>2, PublisherCases
<1> QED
    BY <1>3, <1>4, <1>5 DEF PublishedIsWhole

\* Every variable of the publisher keeps its type.
LEMMA PublisherTyped == PublisherInv => TypeOK
<1> SUFFICES ASSUME PublisherInv
             PROVE  TypeOK
    OBVIOUS
<1>1. CASE ~up /\ DownInv /\ \E m \in 0 .. MaxHeight : StoreInv(m)
  <2>1. PICK m \in 0 .. MaxHeight : StoreInv(m)
    BY <1>1
  <2>2. storeMark \in Frontiers /\ NoFrontier \in Frontiers
    BY <2>1, LevelFacts DEF StoreInv, Frontiers
  <2> QED
    BY <1>1, <2>1, <2>2 DEF TypeOK, DownInv, StoreInv
<1>2. CASE \E m, w, k, i, j, n : Connected(m, w, k, i, j, n)
  <2>1. PICK m, w, k, i, j, n : Connected(m, w, k, i, j, n)
    BY <1>2
  <2>2. /\ m \in 0 .. MaxHeight /\ w \in 0 .. MaxHeight /\ n \in 0 .. MaxHeight
        /\ m \in Nat /\ w \in Nat /\ k \in Nat /\ m <= k /\ k <= MaxHeight /\ MaxHeight \in Nat
    BY <2>1, ConnectedOrder DEF Connected
  <2>3. storeMark \in Frontiers /\ published \in Frontiers /\ next \in Frontiers
    BY <2>1, <2>2, CommitterFacts, LevelFacts
  <2>4. flushing \in Frontiers
    <3>1. flushing = NoFrontier \/ \E f \in w + 1 .. k : flushing = Level(f)
      BY <2>1 DEF Connected, UpInv, FlushInv
    <3>2. w + 1 .. k \subseteq 0 .. MaxHeight
      BY <2>2
    <3> QED
      BY <3>1, <3>2, LevelFacts, Zenon DEF Frontiers
  <2>5. commits \subseteq [height : Heights, mark : Frontiers, done : BOOLEAN]
    <3>1. w + 1 .. k \subseteq Heights
      BY <2>2 DEF Heights
    <3>2. commits \subseteq [height : w + 1 .. k, mark : Frontiers, done : BOOLEAN]
      BY <2>1, CommitterFacts
    <3> QED
      BY <3>1, <3>2
  <2>6. persisted \subseteq Heights /\ pending \subseteq Heights /\ completed \subseteq Heights
    <3>1. 1 .. m \subseteq Heights
      BY <2>2 DEF Heights
    <3> QED
      BY <2>1, <3>1, CommitterFacts
  <2>7. drained \in {"running", "drained", "panicked"}
    BY <2>1 DEF Connected, UpInv, DrainInv
  <2> QED
    BY <2>1, <2>3, <2>4, <2>5, <2>6, <2>7 DEF TypeOK, Connected, StoreInv, UpInv, QueuesInv
<1> QED
    BY <1>1, <1>2, PublisherCases

-----------------------------------------------------------------------------
(* Theorems *)

\* The invariant of the publisher holds in every behaviour of the publisher alone.
THEOREM PublisherInvariant == Spec => []PublisherInv
    BY PublisherInitial, PublisherStep, PTL DEF Spec

\* Every variable of the publisher keeps its type: the frontiers of the writers, of
\* the pipeline and of the Store are ends of blocks.
THEOREM PublisherTypeCorrect == Spec => []TypeOK
    BY PublisherInvariant, PublisherTyped, PTL

\* However commits complete, whatever answers are lost and whenever the process
\* stops: blocks below the published watermark have their rows, the watermark is the
\* end of a block in both logs, a completion resolves only for a published block, and
\* the committer drains without a failed check (qmdb.rs).
THEOREM PublishedIsWholeCorrect == Spec => []PublishedIsWhole
    BY PublisherInvariant, PublisherIsWhole, PTL
=============================================================================
