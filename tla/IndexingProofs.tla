--------------------------- MODULE IndexingProofs ---------------------------
(***************************************************************************)
(* Proofs about Indexing, for every number of blocks with any numbers of   *)
(* operations, every buffer and every number of crashes.  What the hook    *)
(* and the consumer of the queue rely on is the publisher's invariant      *)
(* (PublisherProofs), which their steps keep.                              *)
(***************************************************************************)
EXTENDS Indexing, PublisherProofs

\* A leaf that names no prover is given to these, one after the other.
USE SMT, Z3, Zenon

-----------------------------------------------------------------------------
(* The queue *)

\* The positions that were offered to the publisher.
Offered == IF starting = 0 THEN reader ELSE reader - 1

HookInv ==
    /\ finalized \in 0 .. MaxHeight /\ returned \in 0 .. MaxHeight
    /\ finalized = returned \/ finalized = returned + 1
    /\ hook \in {"idle", "building", "persisting"}
    /\ hook # "idle" => finalized = returned + 1
    /\ cursor \in Frontiers /\ metaCursor \in Frontiers

\* The queue follows the chain from the first block the Store lacked; a block that
\* is queued twice was published before the second time.
QueueInv(m) ==
    /\ queue \in Seq(Uploads) /\ QueueHasNoGaps
    /\ queue = <<>> => returned <= m /\ metaCursor = NoFrontier /\ hook # "persisting"
    /\ queue # <<>> =>
           /\ queue[1].height <= m + 1
           /\ queue[Len(queue)].height \in {returned, finalized}
           /\ hook = "persisting" => queue[Len(queue)].height = finalized
           /\ \E c \in 0 .. queue[Len(queue)].height : metaCursor = Level(c)
    /\ \A p \in 2 .. Len(queue) : queue[p].height = queue[p - 1].height => queue[p].height <= m

\* When the newest block in the queue is one whose hook has not returned, the cursor
\* is past it or the Store has it.
CursorInv(m) ==
    /\ (queue # <<>> /\ hook # "persisting" /\ queue[Len(queue)].height = returned + 1) =>
           cursor = Level(returned + 1) \/ returned + 1 <= m
    /\ (hook # "persisting" /\ cursor = NoFrontier) => pruned = Len(queue) /\ starting = 0

ConsumerInv(m) ==
    /\ pruned \in 0 .. reader /\ reader \in 0 .. Len(queue)
    /\ starting \in {0, reader} /\ (starting # 0 => pruned < starting)
    /\ active \subseteq 1 .. Offered /\ acked \subseteq 1 .. Offered
    /\ 1 .. pruned \subseteq acked
    /\ \A p \in acked : queue[p].height <= m
    /\ blocks \subseteq Heights /\ blockInbox \subseteq Heights

ConnectInv ==
    /\ connecting \subseteq {"hook", "consumer"}
    /\ connecting # {} => ~up
    /\ "consumer" \in connecting => starting # 0
    /\ "hook" \in connecting => hook = "building" /\ cursor = NoFrontier /\ finalized > 1

\* The publisher has what it was offered, and nothing beyond it and the Store.
OfferedInv(m, n) ==
    /\ m <= finalized
    /\ ~up => Offered = pruned
    /\ up => /\ next = Level(n) /\ m <= n /\ ~closing
             /\ Offered > 0 => n >= queue[Offered].height
             /\ n > m => Offered > 0 /\ n = queue[Offered].height

\* The inductive invariant of the queue over the publisher: m is the height of the
\* Store's watermark and n, while a publisher is connected, of its cursor.
Indexed(m, n) ==
    /\ m \in 0 .. MaxHeight /\ n \in 0 .. MaxHeight /\ storeMark = Level(m)
    /\ HookInv /\ ConnectInv
    /\ QueueInv(m) /\ CursorInv(m) /\ ConsumerInv(m) /\ OfferedInv(m, n)

IndexInv == PublisherInv /\ \E m, n \in 0 .. MaxHeight : Indexed(m, n)

-----------------------------------------------------------------------------
(* The queue: its entries *)

\* An entry is the upload of its block.
LEMMA EntryAt ==
    ASSUME queue \in Seq(Uploads), QueueHasNoGaps, NEW p \in 1 .. Len(queue)
    PROVE  /\ queue[p].height \in Heights /\ queue[p].height \in Nat
           /\ queue[p].height \in 0 .. MaxHeight /\ queue[p].height >= 1
           /\ queue[p] = Upload(queue[p].height, StartOf(queue[p].height))
           /\ EndOf(queue[p]) = Level(queue[p].height)
<1>1. queue[p] \in Uploads /\ queue[p].start = StartOf(queue[p].height)
    BY DEF QueueHasNoGaps
<1>2. queue[p].height \in Heights
    BY <1>1 DEF Uploads
<1>3. queue[p] = Upload(queue[p].height, StartOf(queue[p].height))
    BY <1>1 DEF Uploads, Upload
<1>4. EndOf(Upload(queue[p].height, StartOf(queue[p].height))) = Level(queue[p].height)
    BY <1>2, UploadEnds
<1>5. EndOf(queue[p]) = Level(queue[p].height)
    BY <1>3, <1>4, Zenon
<1> QED
    BY <1>2, <1>3, <1>5, LevelFacts

\* From an entry to the next the height stays or grows by one.
LEMMA NextEntry ==
    ASSUME queue \in Seq(Uploads), QueueHasNoGaps, NEW p \in 1 .. Len(queue), p + 1 <= Len(queue)
    PROVE  \/ queue[p + 1].height = queue[p].height
           \/ queue[p + 1].height = queue[p].height + 1
<1>1. Len(queue) \in Nat
    OBVIOUS
<1>2. p + 1 \in 1 .. Len(queue) /\ p + 1 \in 2 .. Len(queue) /\ (p + 1) - 1 = p
    BY <1>1
<1>3. queue[p + 1].height - queue[p].height \in {0, 1}
    BY <1>2 DEF QueueHasNoGaps
<1>4. queue[p + 1].height \in Nat /\ queue[p].height \in Nat
    BY <1>2, EntryAt
<1> QED
    BY <1>3, <1>4

\* Entries are in the order of the chain.
LEMMA EntriesAscend ==
    ASSUME queue \in Seq(Uploads), QueueHasNoGaps,
           NEW p \in 1 .. Len(queue), NEW q \in 1 .. Len(queue), p <= q
    PROVE  queue[p].height <= queue[q].height
<1> DEFINE T == {x \in Nat : p <= x /\ x <= Len(queue) => queue[p].height <= queue[x].height}
<1>1. Len(queue) \in Nat /\ p \in Nat /\ p >= 1 /\ q \in Nat /\ q <= Len(queue)
    OBVIOUS
<1>2. \A x \in 1 .. Len(queue) : queue[x].height \in Nat
    BY EntryAt
<1>3. 0 \in T
    BY <1>1
<1>4. ASSUME NEW x \in Nat, x \in T
      PROVE  x + 1 \in T
  <2>0. SUFFICES ASSUME p <= x + 1, x + 1 <= Len(queue)
                 PROVE  queue[p].height <= queue[x + 1].height
    OBVIOUS
  <2>1. CASE p = x + 1
    BY <1>2, <2>1
  <2>2. CASE p # x + 1
    <3>1. p <= x /\ x <= Len(queue) /\ x \in 1 .. Len(queue) /\ x + 1 \in 1 .. Len(queue)
      BY <1>1, <2>0, <2>2
    <3>2. queue[p].height <= queue[x].height
      BY <1>4, <3>1
    <3>3. queue[x + 1].height = queue[x].height \/ queue[x + 1].height = queue[x].height + 1
      BY <2>0, <3>1, NextEntry
    <3> QED
      BY <1>2, <3>1, <3>2, <3>3
  <2> QED
    BY <2>1, <2>2
<1> HIDE DEF T
<1>5. q \in T
    BY <1>1, <1>3, <1>4, NaturalInduction
<1> QED
    BY <1>1, <1>5 DEF T

\* Between two entries every height has one.
LEMMA EntriesCover ==
    ASSUME queue \in Seq(Uploads), QueueHasNoGaps,
           NEW p \in 1 .. Len(queue), NEW h \in Nat,
           queue[p].height <= h, h <= queue[Len(queue)].height
    PROVE  \E q \in p .. Len(queue) : queue[q].height = h
<1> DEFINE T == {x \in p .. Len(queue) : h <= queue[x].height}
<1>1. Len(queue) \in Nat /\ p \in Nat /\ p >= 1 /\ p <= Len(queue)
    OBVIOUS
<1>2. \A x \in 1 .. Len(queue) : queue[x].height \in Nat
    BY EntryAt
<1>3. T \subseteq Nat /\ Len(queue) \in T
    BY <1>1
<1>4. PICK x \in T : \A y \in T : x <= y
    BY <1>3, LeastNatural, Zenon
<1>5. x \in Nat /\ x \in 1 .. Len(queue) /\ p <= x /\ x <= Len(queue) /\ h <= queue[x].height
    BY <1>1, <1>4
<1>6. CASE x = p
    BY <1>2, <1>5, <1>6
<1>7. CASE x # p
  <2>1. PICK y : y = x - 1
    OBVIOUS
  <2>2. y \in p .. Len(queue) /\ y \in 1 .. Len(queue) /\ y + 1 = x /\ y < x /\ y + 1 <= Len(queue)
    BY <1>1, <1>5, <1>7, <2>1
  <2>3. y \notin T
    BY <1>4, <2>2
  <2>4. queue[y].height < h
    BY <1>2, <2>2, <2>3
  <2>5. queue[y + 1].height = queue[y].height \/ queue[y + 1].height = queue[y].height + 1
    BY <2>2, NextEntry
  <2>6. queue[x].height = h
    BY <1>2, <1>5, <2>2, <2>4, <2>5
  <2> QED
    BY <1>5, <2>6
<1> QED
    BY <1>6, <1>7

-----------------------------------------------------------------------------
(* The steps of the hook *)

\* The hook can build a block only from the cursor at the end of the one before.
LEMMA BuiltAt ==
    ASSUME NEW c \in 0 .. MaxHeight, NEW h \in Heights, BuildAnswer(Level(c), h) = "built"
    PROVE  Level(c) = StartOf(h) /\ c = h - 1
<1>1. /\ h \in Nat /\ h >= 1 /\ c \in Nat /\ h - 1 \in 0 .. MaxHeight /\ 0 \in 0 .. MaxHeight
      /\ StartOf(h) = Level(h - 1) /\ Body[h] \in Nat
    BY LevelFacts, BlocksAssumption
<1>2. /\ Level(c).state = (IF c = 0 THEN 0 ELSE StateEnd[c])
      /\ Level(c).transactions = (IF c = 0 THEN 0 ELSE TransactionsEnd[c])
    BY DEF Level, NoFrontier, Frontier
<1>3. /\ TransactionsEnd[c] \in Nat \ {0} /\ TransactionsEnd[h - 1] \in Nat \ {0}
      /\ TransactionsEnd[h] = TransactionsEnd[h - 1] + Body[h] + 1
    BY <1>1, TransactionsEndGrows DEF Grows
<1>4. CASE c = 0
  <2>1. ~(h > 1)
    BY <1>2, <1>4 DEF BuildAnswer
  <2>2. c = h - 1
    BY <1>1, <1>4, <2>1
  <2> QED
    BY <1>1, <2>2
<1>5. CASE c # 0
  <2>1. Level(c).transactions = TransactionBlockStart(Level(c).transactions, h)
    BY DEF BuildAnswer
  <2>2. TransactionsEnd[c] = TransactionsEnd[h - 1]
    BY <1>1, <1>2, <1>3, <1>5, <2>1 DEF TransactionBlockStart, TransactionOpCount
  <2>3. ~(c < h - 1) /\ ~(h - 1 < c)
    BY <1>1, <1>3, <2>2, LaterEndsLater, TransactionsEndGrows
  <2>4. c = h - 1
    BY <1>1, <2>3
  <2> QED
    BY <1>1, <2>4
<1> QED
    BY <1>4, <1>5

\* What a step of the system leaves true, from a state with the Store at block m.
IndexStays(m) ==
    /\ PublisherInv'
    /\ \E b, n \in 0 .. MaxHeight :
           /\ m <= b /\ Indexed(b, n)'
           /\ finalized' = finalized \/ (finalized' = finalized + 1 /\ b = m)

\* A step that touches nothing of the publisher.
LEMMA QuietStep ==
    ASSUME PublisherInv, UNCHANGED vars, NEW m \in 0 .. MaxHeight, NEW n \in 0 .. MaxHeight,
           Indexed(m, n)', finalized' = finalized \/ finalized' = finalized + 1
    PROVE  IndexStays(m)
<1>1. PublisherInv'
    BY PublisherStutters
<1>2. m <= m
    BY BlocksAssumption
<1> QED
    BY <1>1, <1>2 DEF IndexStays

\* Where the consumer stands.
LEMMA IndexedFacts ==
    ASSUME NEW m, NEW n, Indexed(m, n)
    PROVE  /\ m \in Nat /\ n \in Nat /\ MaxHeight \in Nat /\ m <= MaxHeight /\ n <= MaxHeight
           /\ Len(queue) \in Nat /\ pruned \in Nat /\ reader \in Nat /\ Offered \in Nat
           /\ finalized \in Nat /\ returned \in Nat /\ finalized <= MaxHeight
           /\ pruned <= Offered /\ Offered <= reader /\ reader <= Len(queue)
           /\ starting = 0 => Offered = reader
           /\ starting # 0 => starting = reader /\ reader = Offered + 1 /\ reader >= 1
           /\ queue \in Seq(Uploads) /\ QueueHasNoGaps
<1>1. MaxHeight \in Nat
    BY BlocksAssumption
<1>2. /\ m \in 0 .. MaxHeight /\ n \in 0 .. MaxHeight /\ queue \in Seq(Uploads) /\ QueueHasNoGaps
      /\ finalized \in 0 .. MaxHeight /\ returned \in 0 .. MaxHeight
      /\ pruned \in 0 .. reader /\ reader \in 0 .. Len(queue)
      /\ starting \in {0, reader} /\ (starting # 0 => pruned < starting)
    BY DEF Indexed, HookInv, QueueInv, ConsumerInv
<1>3. Len(queue) \in Nat
    BY <1>2
<1> QED
    BY <1>1, <1>2, <1>3 DEF Offered

\* Consensus hands over the block after the last whose hook returned.
LEMMA HandOverStep ==
    ASSUME PublisherInv, NEW m, NEW n, Indexed(m, n), HandOver
    PROVE  IndexStays(m)
<1>1. /\ hook = "idle" /\ returned < MaxHeight /\ hook' = "building" /\ finalized' = returned + 1
      /\ UNCHANGED <<returned, cursor, metaCursor, queue, pruned, reader, starting, active, acked>>
      /\ UNCHANGED <<connecting, blockInbox, blocks, vars, storeMark, up, next, closing>>
    BY DEF HandOver, consumerVars, certVars, vars, store, publisher
<1>2. /\ m \in Nat /\ n \in Nat /\ MaxHeight \in Nat /\ finalized \in Nat /\ returned \in Nat
      /\ finalized = returned \/ finalized = returned + 1
    BY IndexedFacts DEF Indexed, HookInv
<1>3. HookInv' /\ ConnectInv'
    BY <1>1, <1>2 DEF Indexed, HookInv, ConnectInv
<1>4. QueueInv(m)'
  <2>1. QueueHasNoGaps'
    BY <1>1 DEF Indexed, QueueInv, QueueHasNoGaps
  <2>2. queue # <<>> => queue[Len(queue)].height \in {returned, finalized'}
    BY <1>1, <1>2 DEF Indexed, QueueInv
  <2> QED
    BY <1>1, <2>1, <2>2 DEF Indexed, QueueInv
<1>5. CursorInv(m)' /\ ConsumerInv(m)'
    BY <1>1 DEF Indexed, CursorInv, ConsumerInv, Offered
<1>6. OfferedInv(m, n)'
  <2>1. m <= finalized'
    BY <1>1, <1>2 DEF Indexed, OfferedInv
  <2> QED
    BY <1>1, <2>1 DEF Indexed, OfferedInv, Offered
<1>7. m \in 0 .. MaxHeight /\ n \in 0 .. MaxHeight /\ storeMark' = Level(m)
    BY <1>1 DEF Indexed
<1>8. Indexed(m, n)'
    BY <1>3, <1>4, <1>5, <1>6, <1>7 DEF Indexed
<1> QED
    BY <1>1, <1>2, <1>7, <1>8, QuietStep

\* An empty cursor that needs the Store's.
LEMMA NeedsIt ==
    ASSUME HookInv, NeedsStoreCursor
    PROVE  hook = "building" /\ cursor = NoFrontier /\ finalized > 1
<1>1. PICK c \in 0 .. MaxHeight : cursor = Level(c)
    BY LevelFacts DEF HookInv
<1>2. c = 0
  <2>1. Level(c).state = 0
    BY <1>1 DEF NeedsStoreCursor
  <2>2. StateEnd[c] # 0
    BY StateEndGrows DEF Grows
  <2> QED
    BY <2>1, <2>2 DEF Level, Frontier
<1>3. finalized > 1
    BY DEF NeedsStoreCursor, BuildAnswer
<1> QED
    BY <1>1, <1>2, <1>3, LevelFacts DEF NeedsStoreCursor

\* An empty cursor that takes the Store's.
LEMMA AdoptStep ==
    ASSUME PublisherInv, NEW m, NEW n, Indexed(m, n), AdoptStoreCursor
    PROVE  IndexStays(m)
<1>1. /\ up /\ next # NoFrontier /\ cursor' = next /\ NeedsStoreCursor
      /\ UNCHANGED <<finalized, returned, hook, metaCursor, queue, pruned, reader, starting>>
      /\ UNCHANGED <<active, acked, connecting, blockInbox, blocks, vars, storeMark, up, next, closing>>
    BY DEF AdoptStoreCursor, consumerVars, certVars, vars, store, publisher
<1>2. hook = "building" /\ cursor = NoFrontier
    BY <1>1, NeedsIt DEF Indexed
<1>3. /\ m \in Nat /\ n \in Nat /\ MaxHeight \in Nat /\ returned \in Nat /\ finalized = returned + 1
      /\ finalized \in 0 .. MaxHeight
    BY <1>2, IndexedFacts DEF Indexed, HookInv
<1>4. HookInv' /\ ConnectInv'
  <2>1. next \in Frontiers
    BY <1>1, LevelFacts DEF Indexed, OfferedInv
  <2> QED
    BY <1>1, <2>1 DEF Indexed, HookInv, ConnectInv
<1>5. QueueInv(m)'
  <2>1. QueueHasNoGaps'
    BY <1>1 DEF Indexed, QueueInv, QueueHasNoGaps
  <2> QED
    BY <1>1, <2>1 DEF Indexed, QueueInv
<1>6. CursorInv(m)'
  <2>1. NoFrontier # Level(returned + 1)
    <3>1. 0 \in 0 .. MaxHeight /\ returned + 1 \in 0 .. MaxHeight /\ 0 # returned + 1
      BY <1>3
    <3> QED
      BY <3>1, LevelOrder, LevelFacts
  <2> QED
    BY <1>1, <1>2, <2>1 DEF Indexed, CursorInv
<1>7. ConsumerInv(m)' /\ OfferedInv(m, n)'
    BY <1>1 DEF Indexed, ConsumerInv, OfferedInv, Offered
<1>8. m \in 0 .. MaxHeight /\ n \in 0 .. MaxHeight /\ storeMark' = Level(m)
    BY <1>1 DEF Indexed
<1>9. Indexed(m, n)'
    BY <1>4, <1>5, <1>6, <1>7, <1>8 DEF Indexed
<1> QED
    BY <1>1, <1>8, <1>9, QuietStep

\* The hook's entry continues the queue; a block it captures a second time is one
\* the Store has.
LEMMA CaptureStep ==
    ASSUME PublisherInv, NEW m, NEW n, Indexed(m, n), Enqueue
    PROVE  IndexStays(m)
<1>1. /\ hook = "building" /\ BuildAnswer(cursor, finalized) = "built"
      /\ queue' = Append(queue, Upload(finalized, cursor)) /\ hook' = "persisting"
      /\ UNCHANGED <<finalized, returned, cursor, metaCursor, pruned, reader, starting, active, acked>>
      /\ UNCHANGED <<connecting, blockInbox, blocks, vars, storeMark, up, next, closing>>
    BY DEF Enqueue, consumerVars, certVars, vars, store, publisher
<1>2. /\ m \in Nat /\ n \in Nat /\ MaxHeight \in Nat /\ returned \in Nat /\ finalized = returned + 1
      /\ finalized \in Nat /\ finalized \in Heights /\ finalized \in 0 .. MaxHeight
      /\ finalized - 1 = returned
    BY <1>1, IndexedFacts DEF Indexed, HookInv, Heights
<1>3. PICK c \in 0 .. MaxHeight : cursor = Level(c)
    BY LevelFacts DEF Indexed, HookInv
<1>4. cursor = StartOf(finalized) /\ c = returned
    BY <1>1, <1>2, <1>3, BuiltAt
<1> DEFINE u == Upload(finalized, StartOf(finalized))
<1>5. u \in Uploads /\ u.height = finalized /\ u.start = StartOf(finalized)
    BY <1>2, UploadEnds
<1>6. queue' = Append(queue, u)
    BY <1>1, <1>4
<1> HIDE DEF u
<1>7. PICK l \in Nat : l = Len(queue)
    BY IndexedFacts
<1>8. /\ queue' \in Seq(Uploads) /\ Len(queue') = l + 1 /\ queue'[l + 1] = u
      /\ \A p \in 1 .. l : queue'[p] = queue[p]
    BY <1>5, <1>6, <1>7, IndexedFacts
<1>9. queue' # <<>>
    BY <1>7, <1>8
<1>10. queue = <<>> <=> l = 0
    BY <1>7, IndexedFacts
<1>11. l # 0 => /\ queue[l].height = returned \/ queue[l].height = finalized
                /\ queue[l].height = finalized => finalized <= m
  <2>1. Level(c) # Level(returned + 1)
    BY <1>2, <1>4, LevelOrder
  <2> QED
    BY <1>1, <1>2, <1>3, <1>7, <1>10, <2>1 DEF Indexed, QueueInv, CursorInv
<1>12. QueueHasNoGaps'
  <2>1. \A p \in 1 .. l : queue[p].start = StartOf(queue[p].height)
    BY <1>7, IndexedFacts DEF QueueHasNoGaps
  <2>2. \A p \in 1 .. l + 1 : queue'[p].start = StartOf(queue'[p].height)
    BY <1>5, <1>8, <2>1
  <2>3. ASSUME NEW p \in 2 .. l + 1
        PROVE  queue'[p].height - queue'[p - 1].height \in {0, 1}
    <3>1. CASE p = l + 1
      <4>1. p - 1 = l /\ l # 0 /\ l \in 1 .. l
        BY <3>1
      <4> QED
        BY <1>2, <1>5, <1>8, <1>11, <3>1, <4>1
    <3>2. CASE p # l + 1
      <4>1. p \in 2 .. l /\ p \in 1 .. l /\ p - 1 \in 1 .. l
        BY <3>2
      <4> QED
        BY <1>7, <1>8, <4>1, IndexedFacts, Zenon DEF QueueHasNoGaps
    <3> QED
      BY <3>1, <3>2
  <2> QED
    BY <1>8, <2>2, <2>3 DEF QueueHasNoGaps
<1>13. QueueInv(m)'
  <2>1. queue'[1].height <= m + 1
    <3>1. CASE l = 0
      <4>1. returned <= m
        BY <1>10, <3>1 DEF Indexed, QueueInv
      <4> QED
        BY <1>2, <1>5, <1>8, <3>1, <4>1
    <3>2. CASE l # 0
      <4>1. 1 \in 1 .. l
        BY <3>2
      <4> QED
        BY <1>8, <1>10, <3>2, <4>1, Zenon DEF Indexed, QueueInv
    <3> QED
      BY <3>1, <3>2
  <2>2. \E d \in 0 .. finalized : metaCursor = Level(d)
    <3>1. CASE l = 0
      <4>1. 0 \in 0 .. finalized /\ metaCursor = Level(0)
        BY <1>2, <1>10, <3>1, LevelFacts DEF Indexed, QueueInv
      <4> QED
        BY <4>1
    <3>2. CASE l # 0
      <4>1. PICK d \in 0 .. queue[l].height : metaCursor = Level(d)
        BY <1>7, <1>10, <3>2 DEF Indexed, QueueInv
      <4>2. d \in 0 .. finalized
        BY <1>2, <1>11, <3>2
      <4> QED
        BY <4>1, <4>2
    <3> QED
      BY <3>1, <3>2
  <2>3. ASSUME NEW p \in 2 .. l + 1, queue'[p].height = queue'[p - 1].height
        PROVE  queue'[p].height <= m
    <3>1. CASE p = l + 1
      <4>1. p - 1 = l /\ l # 0 /\ l \in 1 .. l
        BY <3>1
      <4> QED
        BY <1>2, <1>5, <1>8, <1>11, <2>3, <3>1, <4>1
    <3>2. CASE p # l + 1
      <4>1. p \in 2 .. l /\ p \in 1 .. l /\ p - 1 \in 1 .. l
        BY <3>2
      <4> QED
        BY <1>7, <1>8, <2>3, <4>1, Zenon DEF Indexed, QueueInv
    <3> QED
      BY <3>1, <3>2
  <2>4. queue'[Len(queue')].height = finalized
    BY <1>5, <1>8
  <2> QED
    BY <1>1, <1>8, <1>9, <1>12, <2>1, <2>2, <2>3, <2>4 DEF QueueInv
<1>14. HookInv' /\ ConnectInv'
  <2>1. "hook" \notin connecting
    <3>1. SUFFICES ASSUME "hook" \in connecting
                   PROVE  FALSE
      OBVIOUS
    <3>2. cursor = NoFrontier /\ finalized > 1
      BY <3>1 DEF Indexed, ConnectInv
    <3>3. 0 \in 0 .. MaxHeight
      BY <1>2
    <3>4. c = 0
      BY <1>3, <3>2, <3>3, LevelOrder, LevelFacts, Zenon
    <3> QED
      BY <1>2, <1>4, <3>2, <3>4
  <2> QED
    BY <1>1, <1>2, <2>1 DEF Indexed, HookInv, ConnectInv
<1>15. CursorInv(m)'
    BY <1>1 DEF CursorInv
<1>16. /\ Offered \in Nat /\ Offered <= l /\ reader <= l /\ reader \in Nat
       /\ \A p \in acked : p \in 1 .. l
    BY <1>7, IndexedFacts DEF Indexed, ConsumerInv
<1>17. ConsumerInv(m)'
  <2>1. reader \in 0 .. Len(queue')
    BY <1>8, <1>16
  <2>2. \A p \in acked : queue'[p].height <= m
    BY <1>8, <1>16, Zenon DEF Indexed, ConsumerInv
  <2> QED
    BY <1>1, <2>1, <2>2 DEF Indexed, ConsumerInv, Offered
<1>18. OfferedInv(m, n)'
  <2>1. Offered' = Offered
    BY <1>1 DEF Offered
  <2>2. Offered > 0 => queue'[Offered] = queue[Offered]
    BY <1>8, <1>16
  <2> QED
    BY <1>1, <2>1, <2>2, Zenon DEF Indexed, OfferedInv
<1>19. m \in 0 .. MaxHeight /\ n \in 0 .. MaxHeight /\ storeMark' = Level(m)
    BY <1>1 DEF Indexed
<1>20. Indexed(m, n)'
    BY <1>13, <1>14, <1>15, <1>17, <1>18, <1>19 DEF Indexed
<1> QED
    BY <1>1, <1>19, <1>20, QuietStep

\* The cursor that is persisted is the end of the entry.
LEMMA PersistStep ==
    ASSUME PublisherInv, NEW m, NEW n, Indexed(m, n), PersistCursor
    PROVE  IndexStays(m)
<1>1. /\ hook = "persisting" /\ metaCursor' = EndOf(queue[Len(queue)]) /\ cursor' = metaCursor'
      /\ returned' = finalized /\ hook' = "idle"
      /\ UNCHANGED <<finalized, queue, pruned, reader, starting, active, acked>>
      /\ UNCHANGED <<connecting, blockInbox, blocks, vars, storeMark, up, next, closing>>
    BY DEF PersistCursor, consumerVars, certVars, vars, store, publisher
<1>2. /\ MaxHeight \in Nat /\ returned \in Nat /\ finalized = returned + 1 /\ Len(queue) \in Nat
      /\ finalized \in Nat /\ finalized \in 0 .. MaxHeight /\ 0 \in 0 .. MaxHeight
    BY <1>1, IndexedFacts DEF Indexed, HookInv
<1>3. queue # <<>> /\ queue[Len(queue)].height = finalized
    BY <1>1 DEF Indexed, QueueInv
<1>4. Len(queue) \in 1 .. Len(queue)
    BY <1>2, <1>3, IndexedFacts
<1>5. metaCursor' = Level(finalized)
    BY <1>1, <1>3, <1>4, IndexedFacts, EntryAt
<1>6. Level(finalized) # NoFrontier
    BY <1>2, LevelOrder, LevelFacts
<1>7. HookInv' /\ ConnectInv'
    BY <1>1, <1>2, <1>5, LevelFacts DEF Indexed, HookInv, ConnectInv
<1>8. QueueInv(m)'
  <2>1. QueueHasNoGaps'
    BY <1>1 DEF Indexed, QueueInv, QueueHasNoGaps
  <2>2. \E c \in 0 .. finalized : metaCursor' = Level(c)
    BY <1>2, <1>5
  <2> QED
    BY <1>1, <1>3, <2>1, <2>2 DEF Indexed, QueueInv
<1>9. CursorInv(m)'
    BY <1>1, <1>2, <1>3, <1>5, <1>6 DEF CursorInv
<1>10. ConsumerInv(m)' /\ OfferedInv(m, n)'
    BY <1>1 DEF Indexed, ConsumerInv, OfferedInv, Offered
<1>11. m \in 0 .. MaxHeight /\ n \in 0 .. MaxHeight /\ storeMark' = Level(m)
    BY <1>1 DEF Indexed
<1>12. Indexed(m, n)'
    BY <1>7, <1>8, <1>9, <1>10, <1>11 DEF Indexed
<1> QED
    BY <1>1, <1>11, <1>12, QuietStep

-----------------------------------------------------------------------------
(* Connecting *)

\* While the hook waits for the Store's cursor the consumer has nothing to start, so
\* one of them at a time begins to connect.
LEMMA BeginConnectStep ==
    ASSUME PublisherInv, NEW m, NEW n, Indexed(m, n),
           \/ NeedsStoreCursor /\ BeginConnect("hook")
           \/ starting # 0 /\ BeginConnect("consumer")
    PROVE  IndexStays(m)
<1>1. /\ ~up
      /\ UNCHANGED <<finalized, returned, hook, cursor, metaCursor, queue, pruned, reader, starting>>
      /\ UNCHANGED <<active, acked, blockInbox, blocks, vars, storeMark, up, next, closing>>
    BY DEF BeginConnect, hookVars, consumerVars, certVars, vars, store, publisher
<1>2. HookInv' /\ ConnectInv'
  <2>1. HookInv'
    BY <1>1 DEF Indexed, HookInv
  <2>2. CASE NeedsStoreCursor /\ BeginConnect("hook")
    <3>1. hook = "building" /\ cursor = NoFrontier /\ finalized > 1
      BY <2>2, NeedsIt DEF Indexed
    <3>2. connecting' = connecting \cup {"hook"}
      BY <2>2 DEF BeginConnect
    <3> QED
      BY <1>1, <2>1, <3>1, <3>2 DEF Indexed, ConnectInv
  <2>3. CASE starting # 0 /\ BeginConnect("consumer")
    <3>1. connecting' = connecting \cup {"consumer"}
      BY <2>3 DEF BeginConnect
    <3> QED
      BY <1>1, <2>1, <2>3, <3>1 DEF Indexed, ConnectInv
  <2> QED
    BY <2>2, <2>3
<1>3. QueueInv(m)'
  <2>1. QueueHasNoGaps'
    BY <1>1 DEF Indexed, QueueInv, QueueHasNoGaps
  <2> QED
    BY <1>1, <2>1 DEF Indexed, QueueInv
<1>4. CursorInv(m)' /\ ConsumerInv(m)' /\ OfferedInv(m, n)'
    BY <1>1 DEF Indexed, CursorInv, ConsumerInv, OfferedInv, Offered
<1>5. m \in 0 .. MaxHeight /\ n \in 0 .. MaxHeight /\ storeMark' = Level(m)
    BY <1>1 DEF Indexed
<1>6. Indexed(m, n)'
    BY <1>2, <1>3, <1>4, <1>5 DEF Indexed
<1> QED
    BY <1>1, <1>5, <1>6, QuietStep

\* One task connects: both would need the hook without a cursor and an entry to start.
LEMMA OneConnects ==
    ASSUME NEW m, NEW n, Indexed(m, n), NEW task \in connecting
    PROVE  connecting = {task} /\ ~up
<1>1. /\ connecting \subseteq {"hook", "consumer"} /\ ~up
      /\ "consumer" \in connecting => starting # 0
      /\ "hook" \in connecting => starting = 0
    BY DEF Indexed, ConnectInv, CursorInv
<1>2. ~("hook" \in connecting /\ "consumer" \in connecting)
    BY <1>1
<1>3. task \in {"hook", "consumer"}
    BY <1>1
<1>4. \A t \in connecting : t = task
    BY <1>1, <1>2, <1>3
<1> QED
    BY <1>1, <1>4, Zenon

\* The Store's height of the publisher is that of the queue.
LEMMA SameStore ==
    ASSUME NEW m, NEW n, Indexed(m, n), NEW b \in 0 .. MaxHeight, StoreInv(b)
    PROVE  b = m
<1>1. m \in 0 .. MaxHeight /\ Level(b) = Level(m)
    BY DEF Indexed, StoreInv
<1> QED
    BY <1>1, LevelOrder

\* A fresh publisher resumes at the Store; all that was offered before is acknowledged.
LEMMA EndConnectStep ==
    ASSUME PublisherInv, NEW m, NEW n, Indexed(m, n), NEW task, EndConnect(task)
    PROVE  IndexStays(m)
<1>1. /\ task \in connecting /\ connecting' = connecting \ {task} /\ Connect
      /\ UNCHANGED <<finalized, returned, hook, cursor, metaCursor, queue, pruned, reader, starting>>
      /\ UNCHANGED <<active, acked, blockInbox, blocks>>
    BY DEF EndConnect, hookVars, consumerVars, certVars
<1>2. /\ up' /\ next' = storeMark /\ closing' = FALSE /\ storeMark' = storeMark
    BY <1>1 DEF Connect, FreshPipeline, store
<1>3. connecting' = {} /\ ~up
    BY <1>1, OneConnects
<1>4. StoreInv(m) /\ m \in 0 .. MaxHeight /\ n \in 0 .. MaxHeight /\ storeMark = Level(m)
  <2>1. PICK b \in 0 .. MaxHeight : StoreInv(b)
    BY DEF PublisherInv
  <2> QED
    BY <2>1, SameStore DEF Indexed
<1>5. PublisherInv'
    BY <1>1, <1>4, ConnectStep, ConnectedKeeps
<1>6. /\ m \in Nat /\ Offered \in Nat /\ Offered = pruned /\ pruned \in Nat
    BY <1>3, IndexedFacts, Zenon DEF Indexed, OfferedInv
<1>7. Offered > 0 => m >= queue[Offered].height
  <2>1. SUFFICES ASSUME Offered > 0
                 PROVE  m >= queue[Offered].height
    OBVIOUS
  <2>2. Offered \in acked
    BY <1>6, <2>1 DEF Indexed, ConsumerInv
  <2>3. queue[Offered].height <= m
    BY <2>2, Zenon DEF Indexed, ConsumerInv
  <2>4. Offered \in 1 .. Len(queue)
    BY <2>1, IndexedFacts
  <2>5. queue[Offered].height \in Nat
    BY <2>4, IndexedFacts, EntryAt
  <2> QED
    BY <1>6, <2>3, <2>5
<1>8. HookInv' /\ ConnectInv'
    BY <1>1, <1>3, Zenon DEF Indexed, HookInv, ConnectInv
<1>9. QueueInv(m)'
  <2>1. QueueHasNoGaps'
    BY <1>1 DEF Indexed, QueueInv, QueueHasNoGaps
  <2> QED
    BY <1>1, <2>1, Zenon DEF Indexed, QueueInv
<1>10. CursorInv(m)' /\ ConsumerInv(m)'
    BY <1>1 DEF Indexed, CursorInv, ConsumerInv, Offered
<1>11. OfferedInv(m, m)'
  <2>1. Offered' = Offered /\ m <= m /\ ~(m > m)
    BY <1>1, <1>6 DEF Offered
  <2> QED
    BY <1>1, <1>2, <1>4, <1>7, <2>1, Zenon DEF Indexed, OfferedInv
<1>12. Indexed(m, m)'
    BY <1>2, <1>4, <1>8, <1>9, <1>10, <1>11 DEF Indexed
<1> QED
    BY <1>1, <1>4, <1>5, <1>6, <1>12 DEF IndexStays

-----------------------------------------------------------------------------
(* The consumer *)

\* The consumer takes the next entry, which cannot be pruned yet.
LEMMA ReceiveStep ==
    ASSUME PublisherInv, NEW m, NEW n, Indexed(m, n), Receive
    PROVE  IndexStays(m)
<1>1. /\ starting = 0 /\ reader < Len(queue) /\ reader' = reader + 1 /\ starting' = reader + 1
      /\ UNCHANGED <<finalized, returned, hook, cursor, metaCursor, queue, pruned>>
      /\ UNCHANGED <<active, acked, connecting, blockInbox, blocks, vars, storeMark, up, next, closing>>
    BY DEF Receive, ConsumerIdle, hookVars, certVars, vars, store, publisher
<1>2. /\ reader \in Nat /\ Len(queue) \in Nat /\ pruned \in Nat /\ pruned <= reader
    BY IndexedFacts
<1>3. Offered' = Offered /\ Offered = reader
    BY <1>1, <1>2 DEF Offered
<1>4. HookInv' /\ ConnectInv'
    BY <1>1, <1>2 DEF Indexed, HookInv, ConnectInv
<1>5. QueueInv(m)'
  <2>1. QueueHasNoGaps'
    BY <1>1 DEF Indexed, QueueInv, QueueHasNoGaps
  <2> QED
    BY <1>1, <2>1 DEF Indexed, QueueInv
<1>6. CursorInv(m)'
  <2>1. pruned # Len(queue)
    BY <1>1, <1>2
  <2> QED
    BY <1>1, <2>1 DEF Indexed, CursorInv
<1>7. ConsumerInv(m)'
  <2>1. /\ pruned \in 0 .. reader + 1 /\ reader + 1 \in 0 .. Len(queue) /\ pruned < reader + 1
    BY <1>1, <1>2
  <2> QED
    BY <1>1, <1>3, <2>1 DEF Indexed, ConsumerInv
<1>8. OfferedInv(m, n)'
    BY <1>1, <1>3 DEF Indexed, OfferedInv
<1>9. m \in 0 .. MaxHeight /\ n \in 0 .. MaxHeight /\ storeMark' = Level(m)
    BY <1>1 DEF Indexed
<1>10. Indexed(m, n)'
    BY <1>4, <1>5, <1>6, <1>7, <1>8, <1>9 DEF Indexed
<1> QED
    BY <1>1, <1>9, <1>10, QuietStep

\* The entry to start is one the publisher continues with, or one the Store has.
LEMMA StartingFits ==
    ASSUME NEW m, NEW n, Indexed(m, n), up, starting # 0
    PROVE  LET h == queue[starting].height
           IN  /\ h \in Heights /\ h \in Nat /\ queue[starting] = Upload(h, StartOf(h))
               /\ h <= n + 1 /\ (h <= n => h <= m /\ n = m)
<1>1. /\ starting = Offered + 1 /\ starting <= Len(queue) /\ Offered \in Nat /\ m \in Nat /\ n \in Nat
      /\ Len(queue) \in Nat /\ queue \in Seq(Uploads) /\ QueueHasNoGaps
    BY IndexedFacts
<1>2. /\ m <= n /\ (Offered > 0 => n >= queue[Offered].height)
      /\ (n > m => Offered > 0 /\ n = queue[Offered].height)
    BY DEF Indexed, OfferedInv
<1>3. starting \in 1 .. Len(queue) /\ queue # <<>>
    BY <1>1
<1> DEFINE h == queue[starting].height
<1>4. h \in Heights /\ h \in Nat /\ queue[starting] = Upload(h, StartOf(h))
    BY <1>1, <1>3, EntryAt
<1>5. CASE Offered = 0
  <2>1. starting = 1
    BY <1>1, <1>5
  <2>2. h <= m + 1
    BY <1>3, <2>1 DEF Indexed, QueueInv
  <2>3. n = m
    BY <1>1, <1>2, <1>5
  <2> HIDE DEF h
  <2> QED
    BY <1>1, <1>4, <2>2, <2>3 DEF h
<1>6. CASE Offered # 0
  <2>1. Offered \in 1 .. Len(queue) /\ Offered + 1 <= Len(queue) /\ starting \in 2 .. Len(queue)
        /\ starting - 1 = Offered
    BY <1>1, <1>6
  <2>2. queue[Offered].height \in Nat
    BY <1>1, <2>1, EntryAt
  <2>3. h = queue[Offered].height \/ h = queue[Offered].height + 1
    BY <1>1, <2>1, NextEntry
  <2>4. h = queue[Offered].height => h <= m
    BY <2>1 DEF Indexed, QueueInv
  <2> HIDE DEF h
  <2>5. h <= n + 1
    BY <1>1, <1>2, <1>4, <1>6, <2>2, <2>3
  <2>6. h <= n => h <= m /\ n = m
    BY <1>1, <1>2, <1>4, <1>6, <2>2, <2>3, <2>4
  <2> QED
    BY <1>4, <2>5, <2>6 DEF h
<1> QED
    BY <1>1, <1>5, <1>6

\* An entry the publisher takes is offered; its cursor follows.
LEMMA StartStep ==
    ASSUME PublisherInv, NEW m, NEW n, Indexed(m, n), StartQueuedUpload
    PROVE  IndexStays(m)
<1>1. /\ starting # 0 /\ EnqueueQueuedFinalized(queue[starting])
      /\ active' = active \cup {starting} /\ starting' = 0
      /\ UNCHANGED <<finalized, returned, hook, cursor, metaCursor, queue, pruned, reader>>
      /\ UNCHANGED <<acked, connecting, blockInbox, blocks>>
    BY DEF StartQueuedUpload, hookVars, certVars
<1>2. /\ up /\ UNCHANGED <<storeMark, up, closing>>
    BY <1>1 DEF EnqueueQueuedFinalized, store
<1>3. PICK h \in Heights : /\ h \in Nat /\ h = queue[starting].height
                           /\ queue[starting] = Upload(h, StartOf(h))
                           /\ h <= n + 1 /\ (h <= n => h <= m /\ n = m)
    BY <1>1, <1>2, StartingFits, Zenon
<1>4. /\ m \in Nat /\ n \in Nat /\ Offered \in Nat /\ reader \in Nat /\ Len(queue) \in Nat
      /\ starting = reader /\ reader = Offered + 1 /\ pruned \in Nat /\ pruned <= Offered
      /\ reader <= Len(queue)
    BY <1>1, IndexedFacts
<1>5. PICK b, w, k, i, j, x : Connected(b, w, k, i, j, x)
    BY <1>2, PublisherCases
<1>6. b = m /\ x = n
  <2>1. b = m
    BY <1>5, SameStore DEF Connected
  <2>2. Level(x) = Level(n) /\ x \in 0 .. MaxHeight /\ n \in 0 .. MaxHeight
    BY <1>2, <1>5 DEF Connected, UpInv, Indexed, OfferedInv
  <2> QED
    BY <2>1, <2>2, LevelOrder
<1>7. h <= m \/ h > n
    BY <1>3, <1>4
<1>8. PICK y \in 0 .. MaxHeight : y = (IF h <= n THEN n ELSE h) /\ Connected(m, w, k, i, j, y)'
  <2>1. EnqueueQueuedFinalized(Upload(h, StartOf(h)))
    BY <1>1, <1>3, Zenon
  <2>2. Connected(m, w, k, i, j, n)
    BY <1>5, <1>6
  <2>3. h \in Heights /\ (h <= m \/ h > n)
    BY <1>3, <1>7
  <2> QED
    BY <2>1, <2>2, <2>3, EnqueueStep
<1>9. PublisherInv'
    BY <1>8, ConnectedKeeps
<1>10. next' = Level(y)
    BY <1>8 DEF Connected, UpInv
<1>11. Offered' = reader /\ reader > 0
    BY <1>1, <1>4 DEF Offered
<1>12. HookInv' /\ ConnectInv'
    BY <1>1, <1>2 DEF Indexed, HookInv, ConnectInv
<1>13. QueueInv(m)'
  <2>1. QueueHasNoGaps'
    BY <1>1 DEF Indexed, QueueInv, QueueHasNoGaps
  <2> QED
    BY <1>1, <2>1 DEF Indexed, QueueInv
<1>14. CursorInv(m)'
    BY <1>1 DEF Indexed, CursorInv
<1>15. ConsumerInv(m)'
  <2>1. active' \subseteq 1 .. reader /\ acked \subseteq 1 .. reader
    <3>1. 1 .. Offered \subseteq 1 .. reader /\ starting \in 1 .. reader
      BY <1>4
    <3> QED
      BY <1>1, <3>1, Zenon DEF Indexed, ConsumerInv
  <2> QED
    BY <1>1, <1>11, <2>1 DEF Indexed, ConsumerInv
<1>16. OfferedInv(m, y)'
  <2>1. m <= finalized /\ m <= n /\ ~closing
    BY <1>2 DEF Indexed, OfferedInv
  <2>2. m <= y /\ y >= h /\ (y > m => y = h)
    <3>1. CASE h <= n
      <4>1. y = n /\ h <= m /\ n = m
        BY <1>3, <1>8, <3>1, Zenon
      <4> QED
        BY <1>3, <1>4, <4>1
    <3>2. CASE ~(h <= n)
      <4>1. y = h
        BY <1>8, <3>2
      <4>2. h \in Nat /\ m \in Nat /\ n \in Nat /\ h > n /\ m <= n
        BY <1>3, <1>4, <2>1, <3>2
      <4>3. m <= h /\ h >= h
        BY <4>2
      <4> QED
        BY <4>1, <4>3
    <3> QED
      BY <3>1, <3>2
  <2>3. queue[reader].height = h
    BY <1>3, <1>4, Zenon
  <2> QED
    BY <1>1, <1>2, <1>10, <1>11, <2>1, <2>2, <2>3, Zenon DEF OfferedInv
<1>17. m \in 0 .. MaxHeight /\ y \in 0 .. MaxHeight /\ storeMark' = Level(m) /\ m <= m
    BY <1>2, <1>4 DEF Indexed
<1>18. Indexed(m, y)'
    BY <1>12, <1>13, <1>14, <1>15, <1>16, <1>17 DEF Indexed
<1> QED
    BY <1>1, <1>9, <1>17, <1>18 DEF IndexStays

\* The queue prunes a prefix of acknowledged entries.
LEMMA AckFloorIs ==
    ASSUME NEW l \in Nat, l = Len(queue), NEW a, a \subseteq 1 .. l
    PROVE  AckFloor(a) \in 0 .. l /\ 1 .. AckFloor(a) \subseteq a
<1> DEFINE T == {x \in Nat : x + 1 \notin a}
<1>1. l \in T
    BY DEF T
<1>2. PICK x \in T : \A y \in T : x <= y
    BY <1>1, LeastNatural, Zenon
<1>3. x \in 0 .. l /\ x + 1 \notin a
    BY <1>1, <1>2
<1>4. ASSUME NEW y \in 1 .. x
      PROVE  y \in a
  <2>1. PICK z : z = y - 1
    OBVIOUS
  <2>2. z \in Nat /\ z + 1 = y /\ z < x
    BY <1>2, <2>1
  <2>3. z \notin T
    BY <1>2, <2>2
  <2> QED
    BY <2>2, <2>3
<1>5. \E y \in 0 .. Len(queue) : 1 .. y \subseteq a /\ y + 1 \notin a
    BY <1>3, <1>4
<1> QED
    BY <1>5 DEF AckFloor

\* Only published blocks are acknowledged.
LEMMA AcknowledgeStep ==
    ASSUME PublisherInv, NEW m, NEW n, Indexed(m, n), NEW p, Acknowledge(p)
    PROVE  IndexStays(m)
<1>1. /\ starting = 0 /\ p \in active /\ queue[p].height \in completed
      /\ blockInbox' = blockInbox \cup {queue[p].height} /\ acked' = acked \cup {p}
      /\ active' = active \ {p} /\ pruned' \in pruned .. AckFloor(acked')
      /\ UNCHANGED <<finalized, returned, hook, cursor, metaCursor, queue, reader, starting>>
      /\ UNCHANGED <<connecting, blocks, vars, storeMark, up, next, closing>>
    BY DEF Acknowledge, ConsumerIdle, UploadDone, hookVars, vars, store, publisher
<1>2. /\ reader \in Nat /\ Offered = reader /\ pruned \in Nat /\ reader <= Len(queue)
      /\ Len(queue) \in Nat /\ m \in Nat
    BY <1>1, IndexedFacts
<1>3. PICK l \in Nat : l = Len(queue)
    BY <1>2
<1>4. PICK b \in 0 .. MaxHeight : StoreInv(b) /\ (up \/ DownInv)
    BY DEF PublisherInv
<1>5. up
    BY <1>1, <1>4 DEF DownInv
<1>6. /\ b = m /\ queue[p].height \in 1 .. m
    BY <1>1, <1>4, SameStore, Zenon DEF StoreInv
<1>7. p \in 1 .. reader /\ acked' \subseteq 1 .. reader /\ acked' \subseteq 1 .. l
  <2>1. p \in 1 .. reader /\ acked \subseteq 1 .. reader
    BY <1>1, <1>2, Zenon DEF Indexed, ConsumerInv
  <2>2. 1 .. reader \subseteq 1 .. l
    BY <1>2, <1>3
  <2> QED
    BY <1>1, <2>1, <2>2
<1>8. AckFloor(acked') \in 0 .. l /\ 1 .. AckFloor(acked') \subseteq acked'
    BY <1>3, <1>7, AckFloorIs, Zenon
<1>9. pruned' \in Nat /\ pruned <= pruned' /\ pruned' <= AckFloor(acked')
    BY <1>1, <1>2, <1>8
<1>10. 1 .. pruned' \subseteq acked' /\ pruned' \in 0 .. reader
  <2>1. 1 .. pruned' \subseteq 1 .. AckFloor(acked')
    BY <1>8, <1>9
  <2>2. 1 .. pruned' \subseteq 1 .. reader
    BY <1>7, <1>8, <2>1
  <2>3. pruned' <= reader
    BY <1>2, <1>9, <2>2
  <2> QED
    BY <1>2, <1>8, <1>9, <2>1, <2>3
<1>11. HookInv' /\ ConnectInv'
    BY <1>1 DEF Indexed, HookInv, ConnectInv
<1>12. QueueInv(m)'
  <2>1. QueueHasNoGaps'
    BY <1>1 DEF Indexed, QueueInv, QueueHasNoGaps
  <2> QED
    BY <1>1, <2>1 DEF Indexed, QueueInv
<1>13. CursorInv(m)'
  <2>1. pruned = Len(queue) => pruned' = Len(queue)
    BY <1>2, <1>3, <1>8, <1>9
  <2> QED
    BY <1>1, <2>1, Zenon DEF Indexed, CursorInv
<1>14. Offered' = Offered
    BY <1>1 DEF Offered
<1>15. ConsumerInv(m)'
  <2>1. \A q \in acked' : queue[q].height <= m
    <3>1. \A q \in acked : queue[q].height <= m
      BY DEF Indexed, ConsumerInv
    <3>2. acked' = acked \cup {p}
      BY <1>1, Zenon
    <3>3. queue[p].height <= m
      BY <1>2, <1>6
    <3> QED
      BY <3>1, <3>2, <3>3, Zenon
  <2>2. active' \subseteq 1 .. reader
    BY <1>1, <1>2, Zenon DEF Indexed, ConsumerInv
  <2>3. queue[p].height \in Heights
    BY <1>4, <1>6, Zenon DEF StoreInv
  <2>4. blockInbox' \subseteq Heights
    BY <1>1, <2>3, Zenon DEF Indexed, ConsumerInv
  <2> QED
    BY <1>1, <1>2, <1>7, <1>10, <1>14, <2>1, <2>2, <2>4, Zenon DEF Indexed, ConsumerInv
<1>16. OfferedInv(m, n)'
    BY <1>1, <1>5, <1>14, Zenon DEF Indexed, OfferedInv
<1>17. m \in 0 .. MaxHeight /\ n \in 0 .. MaxHeight /\ storeMark' = Level(m)
    BY <1>1 DEF Indexed
<1>18. Indexed(m, n)'
    BY <1>11, <1>12, <1>13, <1>15, <1>16, <1>17 DEF Indexed
<1> QED
    BY <1>1, <1>17, <1>18, QuietStep

\* The certificate uploader has no part in the invariant.
LEMMA ByDigestStep ==
    ASSUME PublisherInv, NEW m, NEW n, Indexed(m, n), NEW h, UploadBlockByDigest(h)
    PROVE  IndexStays(m)
<1>1. /\ h \in blockInbox /\ blocks' = blocks \cup {h} /\ blockInbox' = blockInbox \ {h}
      /\ UNCHANGED <<finalized, returned, hook, cursor, metaCursor, queue, pruned, reader, starting>>
      /\ UNCHANGED <<active, acked, connecting, vars, storeMark, up, next, closing>>
    BY DEF UploadBlockByDigest, hookVars, consumerVars, vars, store, publisher
<1>2. HookInv' /\ ConnectInv'
    BY <1>1 DEF Indexed, HookInv, ConnectInv
<1>3. QueueInv(m)'
  <2>1. QueueHasNoGaps'
    BY <1>1, Zenon DEF Indexed, QueueInv, QueueHasNoGaps
  <2> QED
    BY <1>1, <2>1 DEF Indexed, QueueInv
<1>4. CursorInv(m)' /\ ConsumerInv(m)' /\ OfferedInv(m, n)'
    BY <1>1, Zenon DEF Indexed, CursorInv, ConsumerInv, OfferedInv, Offered
<1>5. m \in 0 .. MaxHeight /\ n \in 0 .. MaxHeight /\ storeMark' = Level(m)
    BY <1>1 DEF Indexed
<1>6. Indexed(m, n)'
    BY <1>2, <1>3, <1>4, <1>5 DEF Indexed
<1> QED
    BY <1>1, <1>5, <1>6, QuietStep

\* The Store's watermark grows under the queue, and never past what was finalized.
LEMMA PublisherWorkStep ==
    ASSUME PublisherInv, NEW m, NEW n, Indexed(m, n), PublisherWork
    PROVE  IndexStays(m)
<1>1. /\ Work
      /\ UNCHANGED <<finalized, returned, hook, cursor, metaCursor, queue, pruned, reader, starting>>
      /\ UNCHANGED <<active, acked, connecting, blockInbox, blocks>>
    BY DEF PublisherWork, hookVars, consumerVars, certVars
<1>2. UNCHANGED <<up, next, closing>>
    BY <1>1 DEF Work, PrepareQmdbUpload, SendPrepared, StageAndSpawnCommit, StoreCommit,
                JoinCommits, FlushQmdbWatermarks, CommitterExit, pipeline, committer, publisher
<1>3. PICK c, w, k, i, j, x : Connected(c, w, k, i, j, x)
    BY <1>1, PublisherCases, DownIsIdle
<1>4. c = m /\ x = n /\ up
  <2>1. c = m /\ up
    BY <1>3, SameStore DEF Connected
  <2>2. Level(x) = Level(n) /\ x \in 0 .. MaxHeight /\ n \in 0 .. MaxHeight
    BY <1>3, <2>1 DEF Connected, UpInv, Indexed, OfferedInv
  <2> QED
    BY <2>1, <2>2, LevelOrder
<1>5. StaysConnected(m, n)
    BY <1>1, <1>3, <1>4, WorkStep
<1>6. PICK b, v, g, y, z \in 0 .. MaxHeight : m <= b /\ Connected(b, v, g, y, z, n)'
    BY <1>5 DEF StaysConnected
<1>7. PublisherInv'
    BY <1>6, ConnectedKeeps
<1>8. b <= n /\ storeMark' = Level(b) /\ next' = Level(n)
  <2>1. UpInv(b, v, g, y, z, n)' /\ StoreInv(b)'
    BY <1>6 DEF Connected
  <2>2. v <= g /\ (b = v \/ b = v + 1) /\ CommitsInv(v, g)' /\ MarksInv(b, v)' /\ QueuesInv(g, y, z, n)'
    BY <2>1 DEF UpInv, MarksInv
  <2>3. y >= g /\ z >= y /\ n >= z
    <3>1. /\ commitQueue' \in Seq(Uploads) /\ preparing' \in Seq(Uploads)
          /\ prepareQueue' \in Seq(Uploads)
          /\ y = g + Len(commitQueue') /\ z = y + Len(preparing') /\ n = z + Len(prepareQueue')
      BY <2>2 DEF QueuesInv
    <3>2. Len(commitQueue') \in Nat /\ Len(preparing') \in Nat /\ Len(prepareQueue') \in Nat
      BY <3>1
    <3>3. g \in Nat /\ y \in Nat /\ z \in Nat
      BY <1>6
    <3> QED
      BY <3>1, <3>2, <3>3
  <2>4. b <= g
    <3>1. CASE b = v
      BY <2>2, <3>1
    <3>2. CASE b # v
      <4>1. PICK d \in commits' : d.mark # NoFrontier /\ d.height = v + 1
        BY <2>2, <3>2 DEF MarksInv, IsMarked
      <4>2. d.height \in v + 1 .. g
        BY <2>2 DEF CommitsInv
      <4> QED
        BY <1>6, <2>2, <3>2, <4>1, <4>2
    <3> QED
      BY <3>1, <3>2
  <2>5. b \in Nat /\ g \in Nat /\ y \in Nat /\ z \in Nat /\ n \in Nat
    BY <1>6, IndexedFacts
  <2> QED
    BY <2>1, <2>3, <2>4, <2>5 DEF StoreInv, UpInv
<1>9. /\ m \in Nat /\ n \in Nat /\ b \in Nat /\ Offered \in Nat /\ Offered <= Len(queue)
      /\ finalized \in Nat /\ returned \in Nat /\ queue \in Seq(Uploads) /\ QueueHasNoGaps
      /\ Len(queue) \in Nat
    BY <1>6, IndexedFacts
<1>10. Offered' = Offered
    BY <1>1 DEF Offered
<1>11. \A p \in 1 .. Len(queue) : queue[p].height \in Nat
    BY <1>9, EntryAt
<1>12. n <= finalized
  <2>1. m <= n /\ m <= finalized /\ (n > m => Offered > 0 /\ n = queue[Offered].height)
    BY <1>4 DEF Indexed, OfferedInv
  <2>2. CASE n > m
    <3>1. Offered \in 1 .. Len(queue) /\ Len(queue) \in 1 .. Len(queue) /\ queue # <<>>
      BY <1>9, <2>1, <2>2
    <3>2. queue[Offered].height <= queue[Len(queue)].height
      BY <1>9, <3>1, EntriesAscend
    <3>3. queue[Len(queue)].height <= finalized
      BY <1>9, <3>1 DEF Indexed, QueueInv, HookInv
    <3> QED
      BY <1>9, <1>11, <2>1, <2>2, <3>1, <3>2, <3>3
  <2>3. CASE ~(n > m)
    BY <1>9, <2>1, <2>3
  <2> QED
    BY <2>2, <2>3
<1>13. HookInv' /\ ConnectInv'
    BY <1>1, <1>2 DEF Indexed, HookInv, ConnectInv
<1>14. QueueInv(b)'
  <2>1. QueueHasNoGaps'
    BY <1>1, Zenon DEF Indexed, QueueInv, QueueHasNoGaps
  <2>2. queue = <<>> => returned <= b
    BY <1>6, <1>9 DEF Indexed, QueueInv
  <2>3. queue # <<>> => queue[1].height <= b + 1
    <3>1. SUFFICES ASSUME queue # <<>>
                   PROVE  queue[1].height <= b + 1
      OBVIOUS
    <3>2. 1 \in 1 .. Len(queue)
      BY <1>9, <3>1
    <3>3. queue[1].height <= m + 1
      BY <3>1 DEF Indexed, QueueInv
    <3> QED
      BY <1>6, <1>9, <1>11, <3>2, <3>3
  <2>4. ASSUME NEW p \in 2 .. Len(queue), queue[p].height = queue[p - 1].height
        PROVE  queue[p].height <= b
    <3>1. queue[p].height <= m
      BY <2>4 DEF Indexed, QueueInv
    <3>2. p \in 1 .. Len(queue)
      BY <1>9
    <3> QED
      BY <1>6, <1>9, <1>11, <3>1, <3>2
  <2> QED
    BY <1>1, <2>1, <2>2, <2>3, <2>4, Zenon DEF Indexed, QueueInv
<1>15. CursorInv(b)'
  <2>1. returned + 1 <= m => returned + 1 <= b
    BY <1>6, <1>9
  <2> QED
    BY <1>1, <2>1 DEF Indexed, CursorInv
<1>16. ConsumerInv(b)'
  <2>1. ASSUME NEW p \in acked
        PROVE  queue[p].height <= b
    <3>1. p \in 1 .. Len(queue) /\ queue[p].height <= m
      BY <1>9 DEF Indexed, ConsumerInv
    <3> QED
      BY <1>6, <1>9, <1>11, <3>1
  <2> QED
    BY <1>1, <1>10, <2>1 DEF Indexed, ConsumerInv
<1>17. OfferedInv(b, n)'
  <2>1. b <= finalized /\ (n > b => n > m)
    BY <1>6, <1>8, <1>9, <1>12
  <2> QED
    BY <1>1, <1>2, <1>4, <1>8, <1>10, <2>1, Zenon DEF Indexed, OfferedInv
<1>18. Indexed(b, n)' /\ n \in 0 .. MaxHeight
    BY <1>6, <1>8, <1>13, <1>14, <1>15, <1>16, <1>17 DEF Indexed
<1> QED
    BY <1>1, <1>6, <1>7, <1>18 DEF IndexStays

-----------------------------------------------------------------------------
(* Restart *)

\* FinalizedUploadCursor::max of two ends of blocks is the end of the later block.
LEMMA LaterLevel ==
    ASSUME NEW a \in 0 .. MaxHeight, NEW b \in 0 .. MaxHeight
    PROVE  /\ Later(Level(a), Level(b)) = Level(IF a <= b THEN b ELSE a)
           /\ OrDefault(Level(a)) = Level(a)
<1>1. a \in Nat /\ b \in Nat
    BY LevelFacts
<1>2. /\ Level(a) \in [state : Nat, transactions : Nat]
      /\ Level(b) \in [state : Nat, transactions : Nat]
      /\ a < b <=> Level(a).state < Level(b).state
      /\ b < a <=> Level(b).state < Level(a).state
      /\ a < b <=> Level(a).transactions < Level(b).transactions
      /\ Level(a) = Level(b) <=> a = b
    BY LevelOrder
<1>3. /\ Level(a).state \in Nat /\ Level(b).state \in Nat
      /\ Level(a).transactions \in Nat /\ Level(b).transactions \in Nat
    BY <1>2
<1>4. CASE a < b
  <2>1. Level(b).state > Level(a).state /\ a <= b
    BY <1>1, <1>2, <1>3, <1>4
  <2> QED
    BY <1>3, <2>1 DEF Later, OrDefault, None
<1>5. CASE a = b
    BY <1>1, <1>3, <1>5 DEF Later, OrDefault, None
<1>6. CASE b < a
  <2>1. ~(Level(b).state > Level(a).state) /\ Level(b).state # Level(a).state /\ ~(a <= b)
    BY <1>1, <1>2, <1>3, <1>6
  <2> QED
    BY <1>3, <2>1 DEF Later, OrDefault, None
<1> QED
    BY <1>1, <1>4, <1>5, <1>6

\* The cursor after a restart is the end of the newest entry, unless the queue has
\* pruned it.
LEMMA RecoveredIs ==
    ASSUME NEW m, NEW n, Indexed(m, n)
    PROVE  /\ queue = <<>> => RecoveredCursor = NoFrontier
           /\ queue # <<>> =>
                  /\ \E c \in 0 .. queue[Len(queue)].height : RecoveredCursor = Level(c)
                  /\ pruned # Len(queue) => RecoveredCursor = Level(queue[Len(queue)].height)
<1>1. 0 \in 0 .. MaxHeight /\ NoFrontier = Level(0) /\ MaxHeight \in Nat
    BY LevelFacts
<1>2. /\ queue \in Seq(Uploads) /\ QueueHasNoGaps /\ Len(queue) \in Nat /\ pruned \in Nat
      /\ pruned <= Len(queue)
    BY IndexedFacts
<1>3. ASSUME NEW c \in 0 .. MaxHeight, metaCursor = Level(c), pruned = Len(queue)
      PROVE  RecoveredCursor = Level(c)
  <2>1. QueueCursor = None
    BY <1>3 DEF QueueCursor
  <2>2. OrDefault(QueueCursor) = Level(0) /\ OrDefault(metaCursor) = Level(c)
    BY <1>1, <1>3, <2>1, LaterLevel DEF OrDefault
  <2>3. RecoveredCursor = Level(IF c <= 0 THEN 0 ELSE c)
    BY <1>1, <2>2, LaterLevel DEF RecoveredCursor
  <2>4. (IF c <= 0 THEN 0 ELSE c) = c
    BY <1>1
  <2> QED
    BY <2>3, <2>4
<1>4. ASSUME queue = <<>>
      PROVE  RecoveredCursor = NoFrontier
  <2>1. metaCursor = Level(0)
    BY <1>1, <1>4 DEF Indexed, QueueInv
  <2>2. pruned = Len(queue)
    BY <1>2, <1>4
  <2> QED
    BY <1>1, <1>3, <2>1, <2>2
<1>5. ASSUME queue # <<>>
      PROVE  /\ \E c \in 0 .. queue[Len(queue)].height : RecoveredCursor = Level(c)
             /\ pruned # Len(queue) => RecoveredCursor = Level(queue[Len(queue)].height)
  <2>1. Len(queue) \in 1 .. Len(queue)
    BY <1>2, <1>5
  <2>2. PICK h \in 0 .. MaxHeight : /\ h = queue[Len(queue)].height /\ h \in Nat
                                    /\ EndOf(queue[Len(queue)]) = Level(h)
    BY <1>2, <2>1, EntryAt
  <2>3. PICK c \in 0 .. h : metaCursor = Level(c)
    BY <1>5, <2>2 DEF Indexed, QueueInv
  <2>4. c \in 0 .. MaxHeight /\ c <= h /\ h \in 0 .. h
    BY <1>1, <2>2
  <2>5. CASE pruned = Len(queue)
    BY <1>3, <2>2, <2>3, <2>4, <2>5
  <2>6. CASE pruned # Len(queue)
    <3>1. QueueCursor = Level(h)
      BY <2>2, <2>6 DEF QueueCursor
    <3>2. OrDefault(QueueCursor) = Level(h) /\ OrDefault(metaCursor) = Level(c)
      BY <2>2, <2>3, <2>4, <3>1, LaterLevel
    <3>3. RecoveredCursor = Level(h)
      BY <2>2, <2>4, <3>2, LaterLevel DEF RecoveredCursor
    <3> QED
      BY <2>2, <2>4, <3>3
  <2> QED
    BY <2>5, <2>6
<1> QED
    BY <1>4, <1>5

\* After a crash the consumer is back at the pruned prefix, whose blocks are published.
LEMMA RestartStep ==
    ASSUME PublisherInv, NEW m, NEW n, Indexed(m, n), Restart
    PROVE  IndexStays(m)
<1>1. /\ Drop /\ hook' = "idle" /\ cursor' = RecoveredCursor /\ metaCursor' = RecoveredCursor
      /\ reader' = pruned /\ acked' = 1 .. pruned /\ starting' = 0 /\ active' = {}
      /\ connecting' = {} /\ blockInbox' = {}
      /\ UNCHANGED <<finalized, returned, queue, pruned, blocks>>
    BY DEF Restart, ReaderAfterScan
<1>2. StoreInv(m) /\ m \in 0 .. MaxHeight /\ n \in 0 .. MaxHeight
  <2>1. PICK b \in 0 .. MaxHeight : StoreInv(b)
    BY DEF PublisherInv
  <2> QED
    BY <2>1, SameStore DEF Indexed
<1>3. ~up' /\ StoreInv(m)' /\ DownInv'
    BY <1>1, <1>2, DropStep
<1>4. PublisherInv' /\ storeMark' = Level(m)
    BY <1>2, <1>3, DownKeeps DEF StoreInv
<1>5. /\ queue \in Seq(Uploads) /\ QueueHasNoGaps /\ Len(queue) \in Nat /\ pruned \in Nat
      /\ pruned <= Len(queue) /\ m \in Nat /\ MaxHeight \in Nat
    BY IndexedFacts
<1>6. 1 .. pruned \subseteq acked /\ \A p \in 1 .. pruned : queue[p].height <= m
    BY DEF Indexed, ConsumerInv
<1>7. queue # <<>> => /\ Len(queue) \in 1 .. Len(queue) /\ queue[Len(queue)].height \in Nat
                      /\ queue[Len(queue)].height \in 0 .. MaxHeight
                      /\ Level(queue[Len(queue)].height) # NoFrontier
  <2>1. SUFFICES ASSUME queue # <<>>
                 PROVE  /\ Len(queue) \in 1 .. Len(queue) /\ queue[Len(queue)].height \in Nat
                        /\ queue[Len(queue)].height \in 0 .. MaxHeight
                        /\ Level(queue[Len(queue)].height) # NoFrontier
    OBVIOUS
  <2>2. Len(queue) \in 1 .. Len(queue)
    BY <1>5, <2>1
  <2>3. PICK h \in 0 .. MaxHeight : h = queue[Len(queue)].height /\ h \in Nat /\ h >= 1
    BY <1>5, <2>2, EntryAt
  <2>4. 0 \in 0 .. MaxHeight /\ h # 0
    BY <1>5, <2>3
  <2>5. Level(h) # Level(0)
    BY <2>4, LevelOrder
  <2> QED
    BY <2>2, <2>3, <2>5, LevelFacts, Zenon
<1>8. /\ queue = <<>> => RecoveredCursor = NoFrontier
      /\ queue # <<>> =>
             /\ \E c \in 0 .. queue[Len(queue)].height : RecoveredCursor = Level(c)
             /\ pruned # Len(queue) => RecoveredCursor = Level(queue[Len(queue)].height)
    BY RecoveredIs
<1>9. HookInv' /\ ConnectInv'
  <2>1. RecoveredCursor \in Frontiers
    <3>1. CASE queue = <<>>
      BY <1>8, <3>1 DEF Frontiers
    <3>2. CASE queue # <<>>
      <4>1. PICK c \in 0 .. queue[Len(queue)].height : RecoveredCursor = Level(c)
        BY <1>8, <3>2
      <4>2. c \in 0 .. MaxHeight
        BY <1>5, <1>7, <3>2
      <4> QED
        BY <4>1, <4>2, LevelFacts
    <3> QED
      BY <3>1, <3>2
  <2> QED
    BY <1>1, <2>1 DEF Indexed, HookInv, ConnectInv
<1>10. QueueInv(m)'
  <2>1. QueueHasNoGaps'
    BY <1>1 DEF Indexed, QueueInv, QueueHasNoGaps
  <2> QED
    BY <1>1, <1>8, <2>1, Zenon DEF Indexed, QueueInv
<1>11. CursorInv(m)'
  <2>1. ASSUME queue # <<>>, queue[Len(queue)].height = returned + 1
        PROVE  RecoveredCursor = Level(returned + 1) \/ returned + 1 <= m
    <3>1. CASE pruned = Len(queue)
      <4>1. Len(queue) \in 1 .. pruned
        BY <1>7, <2>1, <3>1
      <4> QED
        BY <1>6, <2>1, <4>1
    <3>2. CASE pruned # Len(queue)
      BY <1>8, <2>1, <3>2
    <3> QED
      BY <3>1, <3>2
  <2>2. RecoveredCursor = NoFrontier => pruned = Len(queue)
    <3>1. CASE queue = <<>>
      BY <1>5, <3>1
    <3>2. CASE queue # <<>>
      BY <1>7, <1>8, <3>2
    <3> QED
      BY <3>1, <3>2
  <2> QED
    BY <1>1, <2>1, <2>2 DEF CursorInv
<1>12. Offered' = pruned
    BY <1>1 DEF Offered
<1>13. ConsumerInv(m)'
  <2>1. pruned \in 0 .. pruned /\ pruned \in 0 .. Len(queue)
    BY <1>5
  <2> QED
    BY <1>1, <1>6, <1>12, <2>1 DEF Indexed, ConsumerInv
<1>14. OfferedInv(m, n)'
    BY <1>1, <1>3, <1>12, Zenon DEF Indexed, OfferedInv
<1>15. Indexed(m, n)' /\ m <= m
    BY <1>2, <1>4, <1>5, <1>9, <1>10, <1>11, <1>13, <1>14 DEF Indexed
<1> QED
    BY <1>1, <1>2, <1>4, <1>15 DEF IndexStays

-----------------------------------------------------------------------------
(* The invariant of the queue *)

\* A node takes over at a block, with the Store holding those before.
LEMMA IndexInitial ==
    ASSUME IndexInit
    PROVE  IndexInv /\ \E m, n \in 0 .. MaxHeight : Indexed(m, n) /\ finalized = m
<1>1. PICK first \in Firsts : InitAt(first)
    BY DEF IndexInit
<1>2. first \in Heights /\ MaxHeight \in Nat
    BY IndexingAssumption, LevelFacts
<1>3. PICK m : m = first - 1
    OBVIOUS
<1>4. /\ m \in Nat /\ m \in 0 .. MaxHeight /\ m <= m /\ 1 .. m \subseteq Heights
      /\ storeMark = Level(m)
  <2>1. first \in Nat /\ first >= 1 /\ first <= MaxHeight
    BY <1>2, LevelFacts DEF Heights
  <2>2. m \in Nat /\ m \in 0 .. MaxHeight /\ m <= m /\ 1 .. m \subseteq Heights /\ (m = 0 <=> first = 1)
    BY <1>2, <1>3, <2>1 DEF Heights
  <2> QED
    BY <1>1, <1>3, <2>2 DEF InitAt, Level
<1>5. StoreInv(m)
  <2>1. [a \in Accounts |-> 0] \in [Accounts -> 0 .. MaxHeight]
    BY <1>2
  <2> QED
    BY <1>1, <1>3, <1>4, <2>1, Zenon DEF InitAt, StoreInv
<1>6. PublisherInv
  <2>1. ~up /\ DownInv
    BY <1>1 DEF InitAt, DownInv
  <2> QED
    BY <1>4, <1>5, <2>1 DEF PublisherInv
<1>7. HookInv /\ ConnectInv
    BY <1>1, <1>3, <1>4 DEF InitAt, HookInv, ConnectInv, Frontiers
<1> DEFINE none == <<>>
<1>8. none \in Seq(Uploads) /\ Len(none) = 0 /\ none = <<>>
    OBVIOUS
<1>9. queue = none
    BY <1>1 DEF InitAt
<1> HIDE DEF none
<1>10. Len(queue) = 0 /\ queue = <<>> /\ queue \in Seq(Uploads)
    BY <1>8, <1>9
<1>11. QueueInv(m) /\ CursorInv(m)
  <2>1. 1 .. Len(queue) = {} /\ 2 .. Len(queue) = {}
    BY <1>10
  <2>2. QueueHasNoGaps
    BY <2>1 DEF QueueHasNoGaps
  <2> QED
    BY <1>1, <1>3, <1>4, <1>10, <2>1, <2>2 DEF InitAt, QueueInv, CursorInv
<1>12. ConsumerInv(m)
  <2>1. 0 \in 0 .. 0 /\ 1 .. 0 = {}
    OBVIOUS
  <2>2. blocks \subseteq Heights /\ blockInbox \subseteq Heights
    BY <1>1, <1>3, <1>4 DEF InitAt
  <2> QED
    BY <1>1, <1>10, <2>1, <2>2 DEF InitAt, ConsumerInv, Offered
<1>13. OfferedInv(m, m) /\ finalized = m
    BY <1>1, <1>3, <1>4 DEF InitAt, OfferedInv, Offered
<1>14. Indexed(m, m)
    BY <1>4, <1>7, <1>11, <1>12, <1>13 DEF Indexed
<1> QED
    BY <1>4, <1>6, <1>13, <1>14 DEF IndexInv

\* Every step of the system, or none.
LEMMA IndexedStep ==
    ASSUME PublisherInv, NEW m, NEW n, Indexed(m, n), [IndexNext]_indexVars
    PROVE  IndexStays(m)
<1>1. CASE HandOver
    BY <1>1, HandOverStep
<1>2. CASE Enqueue
    BY <1>2, CaptureStep
<1>3. CASE AdoptStoreCursor
    BY <1>3, AdoptStep
<1>4. CASE PersistCursor
    BY <1>4, PersistStep
<1>5. CASE NeedsStoreCursor /\ BeginConnect("hook")
    BY <1>5, BeginConnectStep
<1>6. CASE starting # 0 /\ BeginConnect("consumer")
    BY <1>6, BeginConnectStep
<1>7. CASE \E task \in {"hook", "consumer"} : EndConnect(task)
    BY <1>7, EndConnectStep
<1>8. CASE Receive
    BY <1>8, ReceiveStep
<1>9. CASE StartQueuedUpload
    BY <1>9, StartStep
<1>10. CASE \E p \in active : Acknowledge(p)
    BY <1>10, AcknowledgeStep
<1>11. CASE \E h \in blockInbox : UploadBlockByDigest(h)
    BY <1>11, ByDigestStep
<1>12. CASE PublisherWork
    BY <1>12, PublisherWorkStep
<1>13. CASE Restart
    BY <1>13, RestartStep
<1>14. CASE UNCHANGED indexVars
  <2>1. /\ UNCHANGED <<finalized, returned, hook, cursor, metaCursor, queue, pruned, reader, starting>>
        /\ UNCHANGED <<active, acked, connecting, blockInbox, blocks>>
        /\ UNCHANGED <<vars, storeMark, up, next, closing>>
    BY <1>14 DEF indexVars, hookVars, consumerVars, certVars, vars, store, publisher
  <2>2. HookInv' /\ ConnectInv' /\ QueueHasNoGaps'
    BY <2>1, Zenon DEF Indexed, HookInv, ConnectInv, QueueInv, QueueHasNoGaps
  <2>3. QueueInv(m)'
    BY <2>1, <2>2, Zenon DEF Indexed, QueueInv
  <2>4. CursorInv(m)' /\ ConsumerInv(m)' /\ OfferedInv(m, n)'
    BY <2>1, Zenon DEF Indexed, CursorInv, ConsumerInv, OfferedInv, Offered
  <2>5. m \in 0 .. MaxHeight /\ n \in 0 .. MaxHeight /\ storeMark' = Level(m)
    BY <2>1 DEF Indexed
  <2>6. Indexed(m, n)'
    BY <2>2, <2>3, <2>4, <2>5 DEF Indexed
  <2> QED
    BY <2>1, <2>5, <2>6, QuietStep
<1> QED
    BY <1>1, <1>2, <1>3, <1>4, <1>5, <1>6, <1>7, <1>8, <1>9, <1>10, <1>11, <1>12, <1>13, <1>14
    DEF IndexNext

\* The invariant is inductive.
LEMMA IndexStep == IndexInv /\ [IndexNext]_indexVars => IndexInv'
<1> SUFFICES ASSUME IndexInv, [IndexNext]_indexVars
             PROVE  IndexInv'
    OBVIOUS
<1>1. PICK m, n \in 0 .. MaxHeight : Indexed(m, n)
    BY DEF IndexInv
<1>2. IndexStays(m)
    BY <1>1, IndexedStep DEF IndexInv
<1> QED
    BY <1>2 DEF IndexStays, IndexInv

\* A block whose hook returned is published or in the part of the queue not pruned.
LEMMA IndexCaptures == IndexInv => CapturedForGood
<1> SUFFICES ASSUME IndexInv, NEW h \in 1 .. returned
             PROVE  \/ Covers(storeMark, h)
                    \/ \E p \in (pruned + 1) .. Len(queue) : queue[p].height = h
    BY DEF CapturedForGood
<1>1. PICK m, n \in 0 .. MaxHeight : Indexed(m, n)
    BY DEF IndexInv
<1>2. /\ m \in Nat /\ Len(queue) \in Nat /\ pruned \in Nat /\ pruned <= Len(queue)
      /\ returned \in Nat /\ returned <= MaxHeight /\ MaxHeight \in Nat /\ finalized \in Nat
      /\ queue \in Seq(Uploads) /\ QueueHasNoGaps
      /\ finalized = returned \/ finalized = returned + 1
  <2>1. returned \in 0 .. MaxHeight /\ (finalized = returned \/ finalized = returned + 1)
    BY <1>1 DEF Indexed, HookInv
  <2> QED
    BY <1>1, <2>1, IndexedFacts
<1>3. h \in Heights /\ h \in Nat /\ h >= 1 /\ h <= returned
    BY <1>2 DEF Heights
<1>4. CASE h <= m
    BY <1>1, <1>3, <1>4, LevelCovers DEF Indexed
<1>5. CASE ~(h <= m)
  <2>1. m < h /\ ~(returned <= m)
    BY <1>2, <1>3, <1>5
  <2>2. queue # <<>>
    BY <1>1, <2>1 DEF Indexed, QueueInv
  <2>3. \A p \in 1 .. Len(queue) : queue[p].height \in Nat
    BY <1>2, EntryAt
  <2>4. Len(queue) \in 1 .. Len(queue)
    BY <1>2, <2>2
  <2>5. h <= queue[Len(queue)].height
    <3>1. queue[Len(queue)].height \in {returned, finalized}
      BY <1>1, <2>2 DEF Indexed, QueueInv
    <3> QED
      BY <1>2, <1>3, <3>1
  <2>6. \A p \in 1 .. pruned : queue[p].height <= m
    BY <1>1 DEF Indexed, ConsumerInv
  <2>7. pruned # Len(queue)
    <3>1. SUFFICES ASSUME pruned = Len(queue)
                   PROVE  FALSE
      OBVIOUS
    <3>2. queue[Len(queue)].height <= m
      BY <2>4, <2>6, <3>1
    <3> QED
      BY <1>2, <1>3, <2>1, <2>3, <2>4, <2>5, <3>2
  <2>8. PICK p \in 1 .. Len(queue) : p = pruned + 1
    BY <1>2, <2>7
  <2>9. queue[p].height <= m + 1
    <3>1. CASE pruned = 0
      BY <1>1, <2>2, <2>8, <3>1 DEF Indexed, QueueInv
    <3>2. CASE pruned # 0
      <4>1. pruned \in 1 .. Len(queue) /\ pruned \in 1 .. pruned /\ pruned + 1 <= Len(queue)
        BY <1>2, <2>8, <3>2
      <4>2. queue[pruned].height <= m /\ queue[pruned].height \in Nat
        BY <2>3, <2>6, <4>1
      <4>3. \/ queue[pruned + 1].height = queue[pruned].height
            \/ queue[pruned + 1].height = queue[pruned].height + 1
        BY <1>2, <4>1, NextEntry
      <4> QED
        BY <1>2, <2>8, <4>2, <4>3
    <3> QED
      BY <3>1, <3>2
  <2>10. queue[p].height <= h
    BY <1>2, <1>3, <2>1, <2>3, <2>9
  <2> QED
    BY <1>2, <1>3, <2>5, <2>8, <2>10, EntriesCover
<1> QED
    BY <1>4, <1>5

\* The publisher takes what the consumer offers, and one task at a time connects.
LEMMA IndexFollows == IndexInv => QueueFollowsTheStore
<1> SUFFICES ASSUME IndexInv
             PROVE  QueueFollowsTheStore
    OBVIOUS
<1>1. PICK m, n \in 0 .. MaxHeight : Indexed(m, n)
    BY DEF IndexInv
<1>2. connecting # {"hook", "consumer"} /\ (connecting # {} => ~up)
  <2>1. \A task \in connecting : connecting = {task} /\ ~up
    BY <1>1, OneConnects
  <2> QED
    BY <2>1
<1>3. ASSUME starting # 0, up
      PROVE  EnqueueAnswer(queue[starting]) # "outOfSync"
  <2>1. PICK h \in Heights : h \in Nat /\ queue[starting] = Upload(h, StartOf(h)) /\ h <= n + 1
    BY <1>1, <1>3, StartingFits
  <2>2. next = Level(n) /\ n \in Nat
    BY <1>1, <1>3, IndexedFacts, Zenon DEF Indexed, OfferedInv
  <2>3. h <= n \/ h = n + 1
    BY <2>1, <2>2
  <2> QED
    BY <2>1, <2>2, <2>3, AnswerAt
<1>4. QueueHasNoGaps
    BY <1>1, Zenon DEF Indexed, QueueInv
<1> QED
    BY <1>2, <1>3, <1>4 DEF QueueFollowsTheStore

\* Every variable of the queue keeps its type.
LEMMA IndexTyped == IndexInv => IndexTypeOK
<1> SUFFICES ASSUME IndexInv
             PROVE  IndexTypeOK
    OBVIOUS
<1>1. PICK m, n \in 0 .. MaxHeight : Indexed(m, n)
    BY DEF IndexInv
<1>2. TypeOK
    BY PublisherTyped DEF IndexInv
<1>3. /\ Len(queue) \in Nat /\ pruned \in Nat /\ reader \in Nat /\ Offered \in Nat
      /\ pruned <= Offered /\ Offered <= reader /\ reader <= Len(queue)
    BY <1>1, IndexedFacts
<1>4. /\ pruned \in 0 .. Len(queue) /\ reader \in 0 .. Len(queue) /\ starting \in 0 .. Len(queue)
      /\ 1 .. Offered \subseteq 1 .. Len(queue)
    BY <1>1, <1>3 DEF Indexed, ConsumerInv
<1> QED
    BY <1>1, <1>2, <1>4, Zenon DEF IndexTypeOK, Indexed, HookInv, QueueInv, ConsumerInv

-----------------------------------------------------------------------------
(* What readers see: Indexing implements PublishedLog *)

Log == INSTANCE PublishedLog WITH Last <- MaxHeight, log <- Readable

\* Readable, of any watermark and rows.
Seen(mark, written) == [i \in 1 .. Max({0} \cup {h \in Heights : Covers(mark, h)}) |->
                           IF i \in written THEN i ELSE 0]

\* With the watermark at block m and the rows below it written, readers see the
\* chain up to m.
LEMMA ReadableChain ==
    ASSUME NEW m \in 0 .. MaxHeight, NEW mark, mark = Level(m), NEW written, 1 .. m \subseteq written
    PROVE  Seen(mark, written) = Log!Chain(m)
<1>1. m \in Nat /\ MaxHeight \in Nat /\ m <= MaxHeight
    BY LevelFacts
<1>2. \A h \in Heights : Covers(mark, h) <=> h <= m
    BY LevelCovers
<1>3. {0} \cup {h \in Heights : Covers(mark, h)} = 0 .. m
    BY <1>1, <1>2 DEF Heights
<1>4. Max(0 .. m) = m
    BY <1>1 DEF Max
<1>5. Max({0} \cup {h \in Heights : Covers(mark, h)}) = m
    BY <1>3, <1>4, Zenon
<1>6. [i \in 1 .. m |-> IF i \in written THEN i ELSE 0] = [i \in 1 .. m |-> i]
    BY <1>1
<1> QED
    BY <1>5, <1>6 DEF Seen, Log!Chain

\* The blocks readers see at first are those finalized before.
LEMMA LogInitial == IndexInit => Log!Init
<1> SUFFICES ASSUME IndexInit
             PROVE  Log!Init
    OBVIOUS
<1>1. PICK m, n \in 0 .. MaxHeight : Indexed(m, n) /\ finalized = m
    BY IndexInitial
<1>2. PICK b \in 0 .. MaxHeight : StoreInv(b)
    BY IndexInitial DEF IndexInv, PublisherInv
<1>3. b = m
    BY <1>1, <1>2, SameStore
<1>4. Readable = Log!Chain(m)
  <2>1. storeMark = Level(m) /\ 1 .. m \subseteq rows
    BY <1>2, <1>3 DEF StoreInv
  <2>2. Seen(storeMark, rows) = Log!Chain(m)
    BY <2>1, ReadableChain
  <2> QED
    BY <2>2 DEF Readable, Seen
<1> QED
    BY <1>1, <1>4 DEF Log!Init

\* A step hands a block over, or publishes finalized blocks in their order, or
\* changes nothing that readers see.
LEMMA LogStep == IndexInv /\ [IndexNext]_indexVars => [Log!Next]_Log!vars
<1> SUFFICES ASSUME IndexInv, [IndexNext]_indexVars
             PROVE  [Log!Next]_Log!vars
    OBVIOUS
<1>1. PICK m, n \in 0 .. MaxHeight : Indexed(m, n)
    BY DEF IndexInv
<1>2. IndexStays(m)
    BY <1>1, IndexedStep DEF IndexInv
<1>3. PICK b, x \in 0 .. MaxHeight :
          /\ m <= b /\ Indexed(b, x)'
          /\ finalized' = finalized \/ (finalized' = finalized + 1 /\ b = m)
    BY <1>2 DEF IndexStays
<1>4. Readable = Log!Chain(m)
  <2>1. PICK c \in 0 .. MaxHeight : StoreInv(c)
    BY DEF IndexInv, PublisherInv
  <2>2. c = m
    BY <1>1, <2>1, SameStore
  <2>3. storeMark = Level(m) /\ 1 .. m \subseteq rows
    BY <2>1, <2>2 DEF StoreInv
  <2>4. Seen(storeMark, rows) = Log!Chain(m)
    BY <2>3, ReadableChain
  <2> QED
    BY <2>4 DEF Readable, Seen
<1>5. Readable' = Log!Chain(b)
  <2>1. PICK c \in 0 .. MaxHeight : StoreInv(c)'
    BY <1>2 DEF IndexStays, PublisherInv
  <2>2. storeMark' = Level(c) /\ storeMark' = Level(b) /\ 1 .. c \subseteq rows'
    BY <1>3, <2>1 DEF StoreInv, Indexed
  <2>3. c = b
    BY <2>2, LevelOrder, Zenon
  <2>4. 1 .. b \subseteq rows'
    BY <2>2, <2>3
  <2>5. Seen(storeMark', rows') = Log!Chain(b)
    BY <2>2, <2>4, ReadableChain
  <2> QED
    BY <2>5 DEF Readable, Seen
<1>6. /\ finalized' \in Nat /\ finalized' <= MaxHeight /\ finalized \in Nat /\ b <= finalized'
      /\ m \in Nat /\ b \in Nat /\ MaxHeight \in Nat
  <2>1. HookInv' /\ OfferedInv(b, x)' /\ HookInv
    BY <1>1, <1>3 DEF Indexed
  <2>2. finalized' \in 0 .. MaxHeight /\ finalized \in 0 .. MaxHeight /\ b <= finalized'
    BY <2>1 DEF HookInv, OfferedInv
  <2> QED
    BY <2>2, LevelFacts
<1>7. CASE finalized' = finalized /\ b = m
    BY <1>4, <1>5, <1>7 DEF Log!vars
<1>8. CASE finalized' = finalized /\ b # m
  <2>1. Len(Readable) = m
    BY <1>4, <1>6 DEF Log!Chain
  <2>2. b \in m + 1 .. finalized
    BY <1>3, <1>6, <1>8
  <2>3. \E y \in Len(Readable) + 1 .. finalized : Readable' = Log!Chain(y)
    BY <1>5, <2>1, <2>2
  <2> QED
    BY <1>8, <2>3 DEF Log!Next, Log!Publish
<1>9. CASE finalized' = finalized + 1 /\ b = m
  <2>1. finalized < MaxHeight
    BY <1>6, <1>9
  <2> QED
    BY <1>4, <1>5, <1>9, <2>1 DEF Log!Next, Log!Finalize
<1> QED
    BY <1>3, <1>7, <1>8, <1>9

-----------------------------------------------------------------------------
(* Theorems *)

\* The invariant of hook, queue, consumer and publisher together.
THEOREM IndexInvariant == IndexSpec => []IndexInv
<1>1. IndexInit => IndexInv
    BY IndexInitial
<1> QED
    BY <1>1, IndexStep, PTL DEF IndexSpec

\* Every variable of the queue keeps its type.
THEOREM IndexTypeCorrect == IndexSpec => []IndexTypeOK
    BY IndexInvariant, IndexTyped, PTL

\* Under the queue, too, what is published is whole.
THEOREM QueuePublishesWhole == IndexSpec => []PublishedIsWhole
<1>1. IndexInv => PublisherInv
    BY DEF IndexInv
<1> QED
    BY <1>1, IndexInvariant, PublisherIsWhole, PTL

\* A block whose hook has returned is published or still in the durable queue,
\* through any number of crashes (run.rs).
THEOREM CapturedForGoodCorrect == IndexSpec => []CapturedForGood
    BY IndexInvariant, IndexCaptures, PTL

\* The queue has no gap, the publisher never refuses for good what the consumer
\* takes from it, and hook and consumer never both connect (run.rs).
THEOREM QueueFollowsTheStoreCorrect == IndexSpec => []QueueFollowsTheStore
    BY IndexInvariant, IndexFollows, PTL

\* What readers of the Store see is a prefix of the finalized chain that only grows:
\* the whole path from the hook to the watermark implements PublishedLog.
THEOREM IndexingImplementsLog == IndexSpec => Log!Spec
    BY IndexInvariant, LogInitial, LogStep, PTL DEF IndexSpec, Log!Spec

=============================================================================
